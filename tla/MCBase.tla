------------------------------- MODULE MCBase -------------------------------
(***************************************************************************)
(* The parts of muduo/base and the EventLoop in one state space, side by   *)
(* side: Init chooses the part that moves, the others stand still.         *)
(***************************************************************************)
EXTENDS EventLoop, ThreadPool, MysqlConnectionPool, AsyncLogging

VARIABLE part

BaseInit == /\ part \in {"loop", "pool", "mysql", "log"}
            /\ LoopInit
            /\ PoolInit
            /\ MysqlInit
            /\ LogInit

BaseNext == \/ /\ part = "loop"
               /\ LoopNext
               /\ UNCHANGED <<part, poolVars, mysqlVars, logVars>>
            \/ /\ part = "pool"
               /\ PoolNext
               /\ UNCHANGED <<part, loopVars, mysqlVars, logVars>>
            \/ /\ part = "mysql"
               /\ MysqlNext
               /\ UNCHANGED <<part, loopVars, poolVars, logVars>>
            \/ /\ part = "log"
               /\ LogNext
               /\ UNCHANGED <<part, loopVars, poolVars, mysqlVars>>

baseVars == <<part, loopVars, poolVars, mysqlVars, logVars>>

(* The fairness of each part's specification, for the part that moves. *)
FairBaseSpec ==
    /\ BaseInit /\ [][BaseNext]_baseVars
    /\ WF_loopVars(part = "loop" /\ LoopStep)
    /\ WF_loopVars(part = "loop" /\ PollReturns /\ eventfd)
    /\ WF_loopVars(part = "loop" /\ (StartLoop \/ DtorQuit \/ DtorWakeup \/ DtorJoin))
    /\ \A t \in Threads : WF_loopVars(part = "loop" /\ Wakeup(t))
    /\ \A p \in Producers : WF_poolVars(part = "pool" /\ RunStep(p))
    /\ \A w \in Workers : WF_poolVars(part = "pool" /\ WorkerStep(w))
    /\ WF_poolVars(part = "pool" /\ JoinWorkers)
    /\ \A t \in DbThreads : WF_mysqlVars(part = "mysql" /\ DbThreadStep(t))
    /\ WF_mysqlVars(part = "mysql" /\ joiner # NotJoining /\ PutStop)
    /\ WF_mysqlVars(part = "mysql" /\ JoinAll)
    /\ WF_logVars(part = "log" /\ LogWriterStep)
    /\ WF_logVars(part = "log" /\ LogTimeout)
    /\ WF_logVars(part = "log" /\ (LogStopNotifies \/ LogJoin))
=============================================================================
