---------------------------- MODULE MCEventCenter ----------------------------
(***************************************************************************)
(* Instances of EventCenter for TLC.                                       *)
(***************************************************************************)
EXTENDS EventCenter

\* For ever and every time; for a round and once.
Watching ==
  {[type |-> "DAMAGE", owner |-> 0, duration |-> 0, once |-> FALSE, scope |-> "TEAM"],
   [type |-> "DAMAGE", owner |-> 0, duration |-> 1, once |-> TRUE, scope |-> "TEAM"]}
=============================================================================
