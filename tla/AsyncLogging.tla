---------------------------- MODULE AsyncLogging ----------------------------
(***************************************************************************)
(* AsyncLogging (muduo/base): threads append lines to a buffer in memory,  *)
(* and the logging thread swaps the full buffers out and writes them.  A   *)
(* line is a number, in the order of append.                               *)
(***************************************************************************)
EXTENDS Integers, Sequences, Functions

CONSTANTS LinesPerBuffer,  \* kLargeBuffer, in lines
          MaxBuffers,      \* how many buffers are written in one round (25)
          MaxLines         \* bound: lines appended in one behaviour

ASSUME LoggingAssumption == /\ LinesPerBuffer \in Nat \ {0}
                            /\ MaxBuffers \in Nat /\ MaxBuffers >= 2
                            /\ MaxLines \in Nat

VARIABLES logging,        \* running_
          writer,         \* where the logging thread is
          currentBuffer,  \* the lines in currentBuffer_
          nextBuffer,     \* nextBuffer_ # NULL
          buffers,        \* buffers_
          newBuffer1,     \* newBuffer1 # NULL
          newBuffer2,     \* newBuffer2 # NULL
          toWrite,        \* buffersToWrite
          wrote,          \* how many of them are in the file: i of the for loop
          logStopper,     \* where the thread that calls stop() is
          appended,       \* history: lines appended so far
          written,        \* history: lines written to the file
          dropped         \* history: lines dropped because too many buffers were full

logVars == <<logging, writer, currentBuffer, nextBuffer, buffers, newBuffer1, newBuffer2, toWrite,
             wrote, logStopper, appended, written, dropped>>

(* start() has returned: it waits for the latch the thread counts down. *)
LogInit == /\ logging = TRUE
           /\ writer = "testing"
           /\ currentBuffer = <<>>
           /\ nextBuffer = TRUE
           /\ buffers = <<>>
           /\ newBuffer1 = TRUE
           /\ newBuffer2 = TRUE
           /\ toWrite = <<>>
           /\ wrote = 0
           /\ logStopper = "idle"
           /\ appended = 0
           /\ written = <<>>
           /\ dropped = {}

-----------------------------------------------------------------------------
(* append, under mutex_: there is room in currentBuffer_ ... *)
AppendLine ==
    /\ appended < MaxLines
    /\ Len(currentBuffer) < LinesPerBuffer
    /\ appended' = appended + 1
    /\ currentBuffer' = Append(currentBuffer, appended + 1)
    /\ UNCHANGED <<logging, writer, nextBuffer, buffers, newBuffer1, newBuffer2, toWrite, wrote, logStopper,
                   written, dropped>>

(* Mutant: the line that did not fit into the full buffer is lost. *)
AppendToNextBufferLosing ==
    /\ appended < MaxLines
    /\ Len(currentBuffer) >= LinesPerBuffer
    /\ appended' = appended + 1
    /\ buffers' = Append(buffers, currentBuffer)
    /\ currentBuffer' = <<>>
    /\ nextBuffer' = FALSE
    /\ writer' = IF writer = "waiting" THEN "swapping" ELSE writer
    /\ UNCHANGED <<logging, newBuffer1, newBuffer2, toWrite, wrote, logStopper, written, dropped>>

(* ... or it is full: nextBuffer_, or a new one, takes its place, and the  *)
(* logging thread is woken.                                                *)
AppendToNextBuffer ==
    /\ appended < MaxLines
    /\ Len(currentBuffer) >= LinesPerBuffer
    /\ appended' = appended + 1
    /\ buffers' = Append(buffers, currentBuffer)
    /\ currentBuffer' = <<appended + 1>>
    /\ nextBuffer' = FALSE
    /\ writer' = IF writer = "waiting" THEN "swapping" ELSE writer
    /\ UNCHANGED <<logging, newBuffer1, newBuffer2, toWrite, wrote, logStopper, written, dropped>>

-----------------------------------------------------------------------------
(* The logging thread: threadFunc. *)

(* while (running_), which is read without the mutex. *)
LogTest ==
    /\ writer = "testing"
    /\ writer' = IF ~logging THEN "ended"
                 ELSE IF newBuffer1 /\ newBuffer2 /\ toWrite = <<>> THEN "locking" ELSE "aborted"
    /\ UNCHANGED <<logging, currentBuffer, nextBuffer, buffers, newBuffer1, newBuffer2, toWrite,
                   wrote, logStopper, appended, written, dropped>>

(* if (buffers_.empty()) cond_.waitForSeconds(flushInterval_) *)
LogLock ==
    /\ writer = "locking"
    /\ buffers = <<>>
    /\ writer' = "waiting"
    /\ UNCHANGED <<logging, currentBuffer, nextBuffer, buffers, newBuffer1, newBuffer2, toWrite,
                   wrote, logStopper, appended, written, dropped>>

(* Mutant: the wait ends only when somebody wakes the logging thread. *)
LogNoTimeout ==
    /\ writer = "waiting"
    /\ buffers # <<>>
    /\ writer' = "swapping"
    /\ UNCHANGED <<logging, currentBuffer, nextBuffer, buffers, newBuffer1, newBuffer2, toWrite,
                   wrote, logStopper, appended, written, dropped>>

(* The wait ends by itself or after flushInterval_ seconds. *)
LogTimeout ==
    /\ writer = "waiting"
    /\ writer' = "swapping"
    /\ UNCHANGED <<logging, currentBuffer, nextBuffer, buffers, newBuffer1, newBuffer2, toWrite,
                   wrote, logStopper, appended, written, dropped>>

(* With the mutex still or again locked, whatever has woken it. *)
Swaps == \/ writer = "locking" /\ buffers # <<>>
         \/ writer = "swapping"

LogSwap ==
    /\ Swaps
    /\ writer' = "dropping"
    /\ toWrite' = Append(buffers, currentBuffer)
    /\ buffers' = <<>>
    /\ currentBuffer' = <<>>
    /\ newBuffer1' = FALSE
    /\ nextBuffer' = TRUE
    /\ newBuffer2' = (newBuffer2 /\ nextBuffer)
    /\ UNCHANGED <<logging, wrote, logStopper, appended, written, dropped>>

(* If there are too many, all but the first two are dropped (the line that *)
(* says so, on stderr and in the file, is left out) ...                    *)
LogDrop ==
    LET n    == Len(toWrite)
        kept == IF n > MaxBuffers THEN 2 ELSE n
    IN /\ writer = "dropping"
       /\ writer' = "writing"
       /\ toWrite' = SubSeq(toWrite, 1, kept)
       /\ dropped' = dropped \cup UNION {Range(toWrite[i]) : i \in (kept + 1)..n}
       /\ UNCHANGED <<logging, currentBuffer, nextBuffer, buffers, newBuffer1, newBuffer2, wrote,
                      logStopper, appended, written>>

(* ... the others are written, one after the other ... *)
LogWrite ==
    /\ writer = "writing"
    /\ wrote < Len(toWrite)
    /\ wrote' = wrote + 1
    /\ written' = written \o toWrite[wrote + 1]
    /\ UNCHANGED <<logging, writer, currentBuffer, nextBuffer, buffers, newBuffer1, newBuffer2, toWrite,
                   logStopper, appended, dropped>>

(* ... and up to two of them kept: newBuffer1 and newBuffer2 are taken     *)
(* from those.                                                             *)
LogReset ==
    LET spare  == IF Len(toWrite) > 2 THEN 2 ELSE Len(toWrite)
        needed == (IF newBuffer1 THEN 0 ELSE 1) + (IF newBuffer2 THEN 0 ELSE 1)
    IN /\ writer = "writing"
       /\ wrote = Len(toWrite)
       /\ newBuffer1' = TRUE
       /\ newBuffer2' = TRUE
       /\ toWrite' = <<>>
       /\ wrote' = 0
       /\ writer' = IF needed > spare THEN "aborted" ELSE "testing"
       /\ UNCHANGED <<logging, currentBuffer, nextBuffer, buffers, logStopper, appended, written, dropped>>

-----------------------------------------------------------------------------
(* stop: running_ = false ... *)
LogStop ==
    /\ logStopper = "idle"
    /\ logStopper' = "notifying"
    /\ logging' = FALSE
    /\ UNCHANGED <<writer, currentBuffer, nextBuffer, buffers, newBuffer1, newBuffer2, toWrite,
                   wrote, appended, written, dropped>>

(* ... cond_.notify(), without the mutex: it is lost on a thread that is   *)
(* about to wait ...                                                       *)
LogStopNotifies ==
    /\ logStopper = "notifying"
    /\ logStopper' = "joining"
    /\ writer' = IF writer = "waiting" THEN "swapping" ELSE writer
    /\ UNCHANGED <<logging, currentBuffer, nextBuffer, buffers, newBuffer1, newBuffer2, toWrite,
                   wrote, appended, written, dropped>>

(* ... and thread_.join(). *)
LogJoin ==
    /\ logStopper = "joining"
    /\ writer = "ended"
    /\ logStopper' = "stopped"
    /\ UNCHANGED <<logging, writer, currentBuffer, nextBuffer, buffers, newBuffer1, newBuffer2,
                   toWrite, wrote, appended, written, dropped>>

-----------------------------------------------------------------------------
LogWriterStep == LogTest \/ LogLock \/ LogSwap \/ LogDrop \/ LogWrite \/ LogReset

LogNext == \/ AppendLine
           \/ AppendToNextBuffer
           \/ LogWriterStep
           \/ LogTimeout
           \/ LogStop
           \/ LogStopNotifies
           \/ LogJoin

LogSpec == LogInit /\ [][LogNext]_logVars

(***************************************************************************)
(* Fairness: the logging thread and a thread inside stop() go on, and the  *)
(* wait ends after flushInterval_ seconds.                                 *)
(***************************************************************************)
FairLogSpec == /\ LogSpec
               /\ WF_logVars(LogWriterStep)
               /\ WF_logVars(LogTimeout)
               /\ WF_logVars(LogStopNotifies \/ LogJoin)

-----------------------------------------------------------------------------
(* The file, what the logging thread has to write, and the buffers, in     *)
(* this order.                                                             *)
Stream == <<written>> \o SubSeq(toWrite, wrote + 1, Len(toWrite)) \o buffers \o <<currentBuffer>>

(* The lines in a sequence of buffers, and that they are in the order of   *)
(* append.                                                                 *)
Content(bs) == UNION {Range(bs[a]) : a \in DOMAIN bs}

InAppendOrder(bs) ==
    \A a, b \in DOMAIN bs : \A i \in DOMAIN bs[a] : \A j \in DOMAIN bs[b] :
        a < b \/ (a = b /\ i < j) => bs[a][i] < bs[b][j]

(* What is in the file, in the hands of the logging thread and in the      *)
(* buffers, in this order, is every line appended, in the order of append  *)
(* and once, without those dropped; and the assertions of threadFunc hold: *)
(* when nextBuffer_ had been used there are two buffers to take newBuffer1 *)
(* and newBuffer2 back from.                                               *)
NoLineLost ==
    /\ InAppendOrder(Stream)
    /\ Content(Stream) = (1..appended) \ dropped
    /\ writer # "aborted"

(* A line is written, or dropped, while logging goes on, without waiting   *)
(* for its buffer to be full; and stop() returns, even when its notify     *)
(* comes before the wait.                                                  *)
LinesWritten ==
    /\ \A n \in 1..MaxLines : appended >= n ~> n \in Range(written) \/ n \in dropped \/ ~logging
    /\ logStopper # "idle" ~> logStopper = "stopped"
=============================================================================
