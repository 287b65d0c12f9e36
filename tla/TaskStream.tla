----------------------------- MODULE TaskStream -----------------------------
(***************************************************************************)
(* The live view of one task: a worker stores steps and publishes them on  *)
(* a Redis channel; GET /tasks/{id}/stream first replays what is stored    *)
(* after the client's cursor and then subscribes; the browser moves its    *)
(* cursor and connects again from it when the stream breaks.               *)
(*                                                                         *)
(* Operators with a suffix are mutants of the definition after them.       *)
(***************************************************************************)
EXTENDS Naturals, Sequences

CONSTANTS
  Steps,       \* steps of the task
  MaxRetries,  \* connection attempts without success
  MaxBreaks    \* bound on broken streams

VARIABLES
  stored,     \* rows of task_steps: 1..stored
  told,       \* no worker has a commit still to publish
  status,     \* status of the task, committed
  conn,       \* the stream: position, task status it was opened with, cursor it was opened with
  queue,      \* events on their way to the subscription
  shown,      \* steps the browser has
  latest,     \* its cursor, latestStepRef
  retries,
  gap,        \* history: steps published between a replay and its subscription
  untold,     \* history: steps that were never published
  breaks

streamVars == <<stored, told, status, conn, queue, shown, latest, retries, gap, untold, breaks>>
worker     == <<stored, told, status, untold>>
browser    == <<shown, latest, retries>>

Ends == {"COMPLETED", "FAILED", "CANCELLED"}
At(pc) == conn' = [conn EXCEPT !.pc = pc]

StreamInit ==
  /\ stored = 0 /\ told = TRUE /\ status = "RUNNING"
  /\ conn = [pc |-> "waiting", status |-> "RUNNING", from |-> 0]
  /\ queue = <<>>
  /\ shown = {} /\ latest = 0 /\ retries = 0
  /\ gap = {} /\ untold = {} /\ breaks = 0

-----------------------------------------------------------------------------
(* The worker                                                              *)

\* A step or the end of the task is committed ...
StoreStep ==
  /\ told /\ status = "RUNNING" /\ stored < Steps
  /\ stored' = stored + 1 /\ told' = FALSE
  /\ UNCHANGED <<status, conn, queue, browser, gap, untold, breaks>>

EndTask ==
  /\ told /\ status = "RUNNING"
  /\ status' \in Ends /\ told' = FALSE
  /\ UNCHANGED <<stored, conn, queue, browser, gap, untold, breaks>>

\* ... and, after the lock and the heartbeat, published to those who listen ...
Publish ==
  /\ ~told /\ told' = TRUE
  /\ queue' = IF conn.pc = "live" THEN Append(queue, [step |-> stored, status |-> status]) ELSE queue
  /\ gap' = IF conn.pc = "replayed" /\ status = "RUNNING" THEN gap \cup {stored} ELSE gap
  /\ UNCHANGED <<stored, status, conn, browser, untold, breaks>>

\* ... unless the worker stops or dies before.  Nobody publishes it later: the worker that recovers
\* the task goes on behind the step, and a task that has ended is not recovered.
WorkerDies ==
  /\ ~told /\ told' = TRUE
  /\ untold' = IF status = "RUNNING" THEN untold \cup {stored} ELSE untold
  /\ UNCHANGED <<stored, status, conn, queue, browser, gap, breaks>>

-----------------------------------------------------------------------------
(* The stream                                                              *)

\* The request: the task is read once, for the whole stream.  onopen resets the attempts.
Connect ==
  /\ conn.pc = "waiting"
  /\ conn' = [pc |-> "open", status |-> status, from |-> latest]
  /\ queue' = <<>>
  /\ retries' = 0
  /\ UNCHANGED <<worker, shown, latest, gap, breaks>>

\* A step reaches the browser: addStep keeps one of each, the cursor only moves forward.
Show(steps) ==
  /\ shown' = shown \cup steps
  /\ latest' = IF steps # {} /\ \E s \in steps : s > latest
               THEN CHOOSE s \in steps : \A t \in steps : t <= s ELSE latest

After_SkipsOne(from) == (from + 2)..stored
\* list_after
After(from) == (from + 1)..stored

\* The stored steps; for a task that had ended, its end, and nothing more.
Replay ==
  /\ conn.pc = "open"
  /\ Show(After(conn.from))
  /\ At(IF conn.status \in Ends THEN "closed" ELSE "replayed")
  /\ UNCHANGED <<worker, queue, retries, gap, breaks>>

Subscribe ==
  /\ conn.pc = "replayed"
  /\ At("live")
  /\ UNCHANGED <<worker, queue, browser, gap, breaks>>

Closing_NotCancelled(end) == end \in {"COMPLETED", "FAILED"}
\* Events after which both sides close.
Closing(end) == end \in Ends

\* A step is read again from the table; an end is passed on.
Deliver ==
  /\ conn.pc = "live" /\ queue # <<>>
  /\ queue' = Tail(queue)
  /\ LET event == Head(queue) IN
     IF event.status = "RUNNING"
     THEN Show({event.step} \cap After(event.step - 1)) /\ UNCHANGED conn
     ELSE /\ At(IF Closing(event.status) THEN "closed" ELSE "live")
          /\ UNCHANGED <<shown, latest>>
  /\ UNCHANGED <<worker, retries, gap, breaks>>

\* The stream or Redis fails.  The browser tries again, from its cursor, a few times.
Break ==
  /\ conn.pc \in {"waiting", "open", "replayed", "live"}
  /\ breaks < MaxBreaks /\ breaks' = breaks + 1
  /\ IF retries < MaxRetries
     THEN At("waiting") /\ retries' = retries + 1
     ELSE At("abandoned") /\ UNCHANGED retries
  /\ queue' = <<>>
  /\ UNCHANGED <<worker, shown, latest, gap>>

Stream == Connect \/ Replay \/ Subscribe \/ Deliver
Worker == StoreStep \/ EndTask \/ Publish \/ WorkerDies
StreamNext == Stream \/ Worker \/ Break

\* The stream is served; of the worker nothing is asked.
StreamSpec == StreamInit /\ [][StreamNext]_streamVars /\ WF_streamVars(Stream)

-----------------------------------------------------------------------------
(* Properties                                                              *)

\* Types of the state.
StreamTypeOK ==
  /\ stored \in 0..Steps /\ told \in BOOLEAN /\ status \in Ends \cup {"RUNNING"}
  /\ conn.pc \in {"waiting", "open", "replayed", "live", "closed", "abandoned"}
  /\ conn.from \in 0..Steps
  /\ shown \cup untold \subseteq 1..stored /\ latest \in 0..Steps /\ {retries, breaks} \subseteq Nat

\* A step below the cursor is missing only when it was published between a replay and its
\* subscription, or never: neither a break of the stream nor a repeated delivery loses one.
MissedOnlyInGap == 1..latest \subseteq shown \cup gap \cup untold

\* An end of the task that was published to a subscription closes it, whatever was queued before
\* it, or the stream breaks.  (An end that no worker published leaves the browser waiting.)
SubscribedHearsEnd ==
  conn.pc = "live" /\ (\E i \in DOMAIN queue : queue[i].status \in Ends) ~> conn.pc # "live"

\* The frontend design (spec/frontend, mechanism 2) promises that no step is lost.  When the stream
\* has closed with the end of the task, one that was published may be missing: see README.
NoStepLost == conn.pc = "closed" => 1..stored \subseteq shown \cup untold

=============================================================================
