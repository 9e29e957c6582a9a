--------------------------- MODULE CommandDispatch ---------------------------
(***************************************************************************)
(* What the bridge promises bmcctld about RACK_MANAGER_COMMAND, free of    *)
(* queues, timers and connections: commands are issued for accepted        *)
(* requests only, in the order of acceptance, at most one for a request,   *)
(* and none while the bridge still waits for the outcome of another.       *)
(***************************************************************************)
EXTENDS Naturals, Sequences

VARIABLES
  count,   (* number of requests accepted so far: they are 1 .. count        *)
  issued,  (* the requests for which a command was written, in order         *)
  open     (* the request whose command the bridge waits for, or 0           *)

dispatchVars == <<count, issued, open>>

Init ==
  /\ count = 0
  /\ issued = <<>>
  /\ open = 0

Accept ==
  /\ count' = count + 1
  /\ UNCHANGED <<issued, open>>

(* A command may be written without the bridge knowing it: then it is not
   waited for. *)
Issue(n) ==
  /\ open = 0
  /\ \A i \in DOMAIN issued : issued[i] < n
  /\ issued' = Append(issued, n)
  /\ open' \in {0, n}
  /\ UNCHANGED count

(* DONE or FAILED, or given up. *)
Close ==
  /\ open # 0
  /\ open' = 0
  /\ UNCHANGED <<count, issued>>

Next == Accept \/ (\E n \in 1 .. count : Issue(n)) \/ Close

Spec == Init /\ [][Next]_dispatchVars

(* The wait for an outcome is never endless. *)
FairSpec == Spec /\ WF_dispatchVars(Close)
=============================================================================
