---------------------------- MODULE OrderedIngest ----------------------------
(***************************************************************************)
(* What accepting a rack-manager payload promises about STATE_DB: a cell   *)
(* is only ever written by an accepted payload that has it, and payloads   *)
(* write in the order in which they were accepted, so an older payload     *)
(* never overwrites a newer one.  It does not promise that all is written. *)
(***************************************************************************)
EXTENDS Naturals, Sequences

CONSTANT Cell    (* the <<record, field>> pairs of STATE_DB *)

VARIABLES
  jobs,     (* the cells of each accepted payload, in order                  *)
  current,  (* the last payload that wrote                                   *)
  store     (* for each cell the payload that wrote it last, or 0            *)

ingestVars == <<jobs, current, store>>

Init ==
  /\ jobs = <<>>
  /\ current = 0
  /\ store = [c \in Cell |-> 0]

Accept ==
  /\ \E cells \in SUBSET Cell : jobs' = Append(jobs, cells)
  /\ UNCHANGED <<current, store>>

Write(n, c) ==
  /\ current <= n
  /\ c \in jobs[n]
  /\ current' = n
  /\ store' = [store EXCEPT ![c] = n]
  /\ UNCHANGED jobs

Next == Accept \/ \E n \in 1 .. Len(jobs), c \in Cell : Write(n, c)

Spec == Init /\ [][Next]_ingestVars
=============================================================================
