------------------------------- MODULE MCMmvx -------------------------------
(* Constant values for the runs of Mmvx. *)
EXTENDS Mmvx, TLC

CONSTANTS p1, p2, c1, c2

OneKeeper == {101}
AtKeeper  == [p \in Forwards |-> 101]

(* servers.lua has the keeper first, then the forward servers. *)
OneForwardId == <<[id |-> 101, ttype |-> "KEEPER"], [id |-> 31, ttype |-> "FORWARD"]>>
TwoForwardIds == OneForwardId \o <<[id |-> 32, ttype |-> "FORWARD"]>>

Accounts == [u \in {1, 2} |-> "123456"]

(* The second client of the first two differs from the first by 2^32, so   *)
(* that both log on to the same account.                                   *)
SameUid      == [c \in Clients |-> IF c = c1 THEN 1 ELSE 1 + UidModulus]
DistinctUids == [c \in Clients |-> IF c = c1 THEN 1 ELSE 2]
GoodPasswd   == [c \in Clients |-> "123456"]
OneBadPasswd == [c \in Clients |-> IF c = c1 THEN "123456" ELSE "wrong"]
TheKeeper    == [c \in Clients |-> 101]
=============================================================================
