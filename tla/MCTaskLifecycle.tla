-------------------------- MODULE MCTaskLifecycle --------------------------
(* Instances of TaskLifecycle for TLC.                                     *)
EXTENDS TaskLifecycle, TLC

CONSTANTS t1, t2, e1, e2, p1, p2

OwnProcess  == e1 :> p1 @@ e2 :> p2      \* one coroutine per process
SameProcess == [e \in Executors |-> p1]   \* worker_concurrency = |Executors|

OneSession  == [t \in Tasks |-> "s1"]
OwnSession  == [t \in Tasks |-> t]

Plan1 == [t \in Tasks |-> 1]
Plan2 == [t \in Tasks |-> 2]

\* The two processes, each with its coroutine, are interchangeable.
SwapProcesses == {e1 :> e2 @@ e2 :> e1 @@ p1 :> p2 @@ p2 :> p1}

Unattended  == [t \in Tasks |-> {}]
AskFirst    == [t \in Tasks |-> {1}]
AskLast     == [t \in Tasks |-> {2}]

-----------------------------------------------------------------------------
\* One of the tasks is asked for, t1 of the mock or t2 of an LLM; for t2 one scan at a time.
Asked(t) == status[t] # "NONE" \/ \E c \in Clients : gw[c].task = t
OneTask  == \A t, u \in Tasks : Asked(t) /\ Asked(u) => t = u
Busy(p)  == sched[p].pc # "idle"
OneScan  == Asked(t2) => \A p, q \in Processes : Busy(p) /\ Busy(q) => p = q
RaceSpec == Init /\ [][Next /\ OneTask' /\ OneScan']_vars

=============================================================================
