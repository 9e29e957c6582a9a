------------------------------ MODULE MCProcess -------------------------------
(***************************************************************************)
(* Small instances of Process, in one run: lives with jobs, calls and a    *)
(* Redis that changes, and lives with log signals.                         *)
(***************************************************************************)
EXTENDS Process

MCThread == {"main", "subscriber", "worker"}

MCBudgets ==
  {[jobs |-> 1, redis |-> 1, calls |-> 1, signals |-> 0],
   [jobs |-> 0, redis |-> 0, calls |-> 0, signals |-> 2]}
=============================================================================
