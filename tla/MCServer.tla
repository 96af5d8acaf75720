------------------------------ MODULE MCServer ------------------------------
(***************************************************************************)
(* The memcache server for TLC.  Its connections (Server) and what their   *)
(* commands do to the store (Memcache) share no state: a run is either     *)
(* about the one or about the other, and one check explores both, side by  *)
(* side instead of in product.                                             *)
(***************************************************************************)
EXTENDS Server, Memcache

VARIABLE half           \* which of the two a behaviour is about

MCThreads == Ops \X {"handler", "poller"} \cup {Waker}
MCPlans == {<<0, 0, 1>>, <<0, 1, 0>>, <<1, 2, 2>>}

MCInit ==
    /\ ServerInit /\ CmdInit
    /\ (half = "connections" /\ kv = {}) \/ half = "commands"

MCNext ==
    \/ half = "connections" /\ ServerNext /\ UNCHANGED <<cmdVars, half>>
    \/ half = "commands" /\ CmdNext /\ UNCHANGED <<vars, half>>

MCSpec == MCInit /\ [][MCNext]_<<vars, cmdVars, half>> /\ ServerFair
=============================================================================
