------------------------------ MODULE VersionLog ------------------------------
(***************************************************************************)
(* What the history of a file promises to whoever lists its versions or    *)
(* opens one: each recorded write is the next number, once, and what a     *)
(* number shows never changes.                                             *)
(***************************************************************************)
EXTENDS Naturals

CONSTANT Writers

VARIABLE log   \* numbers with the content each shows, named by its writer

Init == log = {}

Numbers == {e.num : e \in log}

Append(w) ==
  /\ \A e \in log : e.content # w
  /\ \E n \in {1} \cup {m + 1 : m \in Numbers} :
       Numbers = 1..(n - 1) /\ log' = log \cup {[num |-> n, content |-> w]}

Next == \E w \in Writers : Append(w)

Spec == Init /\ [][Next]_log

=============================================================================
