------------------------------ MODULE StepLog ------------------------------
(***************************************************************************)
(* What the step table and the checkpoint of a task promise to whoever     *)
(* replays or resumes it: recorded steps stay, one step is added at a      *)
(* time, and the resume cursor only ever moves to the step that is         *)
(* recorded by the same transaction.  Where the steps are those of a plan  *)
(* that is numbered one by one, a step comes directly above a recorded one.*)
(***************************************************************************)
EXTENDS Naturals

CONSTANTS
  Tasks,
  Planned   \* tasks whose steps are numbered one by one

VARIABLES
  log,     \* step indexes recorded for a task
  cursor   \* step a resumption starts after

Init ==
  /\ log = [t \in Tasks |-> {}]
  /\ cursor = [t \in Tasks |-> 0]

\* Record step i of t, again or for the first time, with or without moving the cursor.
Record(t, i) ==
  /\ t \in Planned => i = 1 \/ i - 1 \in log[t]
  /\ log' = [log EXCEPT ![t] = @ \cup {i}]
  /\ \/ cursor' = [cursor EXCEPT ![t] = i]
     \/ UNCHANGED cursor

Next == \E t \in Tasks : \E i \in log'[t] : Record(t, i)

Spec == Init /\ [][Next]_<<log, cursor>>

=============================================================================
