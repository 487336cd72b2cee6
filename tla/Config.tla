------------------------------- MODULE Config -------------------------------
(***************************************************************************)
(* The deployment: the processes that run.sh starts and what               *)
(* luaconfig/servers.lua and the ACCOUNT table say about them.  There is   *)
(* one hub and one logon server.  All servers share one ip address, so a   *)
(* listening address is represented by the server id whose port it is.     *)
(***************************************************************************)
EXTENDS Integers, Sequences, FiniteSetsExt

CONSTANTS Keepers,        \* server ids of the keepers
          Forwards,       \* forward server processes
          Clients,        \* logon clients
          KeeperOf,       \* KeeperOf[p]: the keeper that forward process p connects to
          serverConfig,   \* serverConfig: sequence of [id, ttype]
          UidModulus,     \* number of uint32_t values: a uid is an int64_t outside the logon server
          Account,        \* Account[uid]: PASSWD of the row with that UID
          Sessions        \* values of rand()

ServerIds   == {serverConfig[i].id : i \in DOMAIN serverConfig}
ServerTypes == {"KEEPER", "FORWARD", "DB", "GAME"}
Uids        == 0..(UidModulus - 1)

ASSUME ConfigAssumption ==
    /\ KeeperOf \in [Forwards -> Keepers]
    /\ serverConfig \in Seq([id : ServerIds, ttype : ServerTypes])
    /\ ServerIds \subseteq Nat \ {0}
    /\ UidModulus \in Nat \ {0}
    /\ DOMAIN Account \subseteq Uids
    /\ Sessions \subseteq Nat
=============================================================================
