--------------------------- MODULE TaskLifecycle ---------------------------
(***************************************************************************)
(* The life of a task in the gateway's worker subsystem: the FastAPI use   *)
(* cases that create, cancel and approve tasks, the Redis stream, lock and *)
(* cancel flag, the PostgreSQL rows, and the worker processes with their   *)
(* executor coroutines and recovery scheduler.                             *)
(*                                                                         *)
(* One action is one database transaction, one Redis command or one read   *)
(* whose result is used later: what another actor may do between two       *)
(* awaits is between two actions.  Time is counted in ticks; the lock TTL  *)
(* and the heartbeat timeout are numbers of ticks.                         *)
(*                                                                         *)
(* An operator with a suffix (Push_Previous) is a mutant of the definition  *)
(* after it, a plausible bug that some property below rules out.           *)
(***************************************************************************)
EXTENDS Integers, Sequences, FiniteSets

CONSTANTS
  Tasks,             \* task ids that may be created
  Executors,         \* worker coroutines (worker_loop), over all processes
  Processes,         \* worker processes
  Clients,           \* requests the gateway serves at the same time
  NoTask, NoProc,    \* absent values
  Dead,              \* lock token of a process that no longer exists
  ProcOf,            \* the process a coroutine runs in
  SessionOf,         \* the chat session of a task
  Mocked,            \* tasks run by MockAgentExecutor, by a file; the others by LlmAgentExecutor
  PlanLen,           \* steps of the file
  HumanSteps,        \* steps of the file with wait_for_human
  Quota,             \* user.max_concurrent_tasks
  LockTTL,           \* ttl of RedisLock, in ticks
  HeartbeatTimeout,  \* worker_heartbeat_timeout, in ticks
  MaxIndex,          \* bound on the indexes an LLM's flow counts to
  MaxTicks, MaxDays, MaxFaults, MaxErrors, MaxCancels  \* bounds on the environment

ASSUME ConfigAssumption ==
  /\ NoTask \notin Tasks
  /\ {NoProc, Dead} \cap Processes = {} /\ NoProc \notin Executors \cup {Dead}
  /\ ProcOf \in [Executors -> Processes]
  /\ Mocked \subseteq Tasks
  /\ PlanLen \in [Tasks -> Nat \ {0}]
  /\ HumanSteps \in [Tasks -> SUBSET Nat]
  /\ LockTTL \in Nat \ {0}
  /\ HeartbeatTimeout \in Nat \ {0}
  /\ {Quota, MaxIndex, MaxTicks, MaxDays, MaxFaults, MaxErrors, MaxCancels} \subseteq Nat

VARIABLES
  \* PostgreSQL
  status,     \* tasks.status, "NONE" before the row exists
  beat,       \* age of tasks.worker_heartbeat in ticks, NoBeat for NULL
  agentMsg,   \* status of the AGENT placeholder message of the task
  hitl,       \* the task's hitl_requests rows, in order of creation
  ckpt,       \* task_checkpoints row: last completed step and version
  steps,      \* step indexes present in task_steps
  \* Redis
  stream,     \* undelivered messages of the consumer group
  lock, ttl,  \* task_lock:{id}: token and remaining ticks
  flag,       \* task:cancelled:{id} exists
  \* actors
  ex,         \* coroutines inside process_task
  sched,      \* recovery scans, one per process
  up,         \* life of the processes
  gw,         \* gateway requests between two awaits
  \* history and bounds
  lost,       \* how deliveries of the task left the stream without effect
  holder,     \* the coroutine whose SET NX created the present lock
  used        \* how often each bounded environment action has happened

db    == <<status, beat, agentMsg, hitl, ckpt, steps>>
redis == <<stream, lock, ttl, flag>>
vars  == <<db, redis, ex, sched, up, gw, lost, holder, used>>

NoBeat   == -1
Terminal == {"COMPLETED", "FAILED", "CANCELLED"}
Active   == {"PENDING", "RUNNING", "WAITING_HUMAN", "PAUSED"}
Stale(t) == beat[t] > HeartbeatTimeout
Waiting  == {"PENDING", "DUE"}      \* a request nobody answered, deadline passed or not

\* process_task before the message is acknowledged or dropped ...
InTry   == {"load", "start", "check", "pause", "step", "retry", "renew", "beat", "hitl", "commit"}
Working == InTry \cup {"lock"}
\* ... and after.
Leaving == {"ack", "errack", "release"}
IdleEx  == [pc |-> "idle", task |-> NoTask, from |-> 0, last |-> 0, next |-> 0, over |-> FALSE,
            ver |-> 0, late |-> 0]
IdleSched == [pc |-> "idle", kind |-> "none", todo |-> {}, marked |-> {},
              task |-> NoTask, resume |-> 0]
IdleGw  == [pc |-> "idle", task |-> NoTask, victim |-> NoTask, req |-> 0]

Goto(e, pc)  == ex' = [ex EXCEPT ![e].pc = pc]
Leave(e, pc) == ex' = [ex EXCEPT ![e] = [IdleEx EXCEPT !.pc = pc, !.task = ex[e].task]]
Lose(t, why) == lost' = [lost EXCEPT ![t] = @ \cup {why}]
Spend(what)  == used' = [used EXCEPT ![what] = @ + 1]
Push_Previous(t, n) == stream' = Append(stream, [task |-> t, resume |-> n - 1])
Push(t, n)   == stream' = Append(stream, [task |-> t, resume |-> n])

Init ==
  /\ status = [t \in Tasks |-> "NONE"]
  /\ beat = [t \in Tasks |-> NoBeat]
  /\ agentMsg = [t \in Tasks |-> "none"]
  /\ hitl = [t \in Tasks |-> <<>>]
  /\ ckpt = [t \in Tasks |-> [step |-> 0, version |-> 1]]
  /\ steps = [t \in Tasks |-> {}]
  /\ stream = <<>>
  /\ lock = [t \in Tasks |-> NoProc]
  /\ ttl = [t \in Tasks |-> 0]
  /\ flag = [t \in Tasks |-> FALSE]
  /\ ex = [e \in Executors |-> IdleEx]
  /\ sched = [p \in Processes |-> IdleSched]
  /\ up = [p \in Processes |-> "up"]
  /\ gw = [c \in Clients |-> IdleGw]
  /\ lost = [t \in Tasks |-> {}]
  /\ holder = [t \in Tasks |-> NoProc]
  /\ used = [tick |-> 0, day |-> 0, fault |-> 0, error |-> 0, cancel |-> 0]

-----------------------------------------------------------------------------
(* Executor coroutine: worker_loop and process_task                        *)

\* XREADGROUP ">": the oldest undelivered message goes to one free coroutine.  A read that
\* is blocked when the shutdown signal comes counts as finished before the signal.
Consume(e) ==
  /\ up[ProcOf[e]] = "up" /\ ex[e].pc = "idle" /\ stream # <<>>
  /\ ex' = [ex EXCEPT ![e] = [IdleEx EXCEPT !.pc = "lock", !.task = Head(stream).task,
                                             !.from = Head(stream).resume,
                                             !.last = Head(stream).resume]]
  /\ stream' = Tail(stream)
  /\ UNCHANGED <<db, lock, ttl, flag, sched, up, gw, lost, holder, used>>

\* SET NX EX.  A coroutine that loses returns without acknowledging the message.
AcquireLock(e) ==
  LET t == ex[e].task IN
  /\ ex[e].pc = "lock"
  /\ \/ /\ lock[t] = NoProc
        /\ lock' = [lock EXCEPT ![t] = ProcOf[e]]
        /\ ttl' = [ttl EXCEPT ![t] = LockTTL]
        /\ holder' = [holder EXCEPT ![t] = e]
        /\ Goto(e, "load")
        /\ UNCHANGED lost
     \/ /\ lock[t] # NoProc
        /\ ex' = [ex EXCEPT ![e] = IdleEx]
        /\ Lose(t, "unacked")
        /\ UNCHANGED <<lock, ttl, holder>>
  /\ UNCHANGED <<db, stream, flag, sched, up, gw, used>>

\* A message whose task the user cancelled is acknowledged and dropped.
DropIfFlagged(e) ==
  /\ flag[ex[e].task]
  /\ Leave(e, "release")
  /\ Lose(ex[e].task, "cancelled")

\* Before the first step: flag, status and checkpoint are read.
LoadTask(e) ==
  LET t == ex[e].task IN
  /\ ex[e].pc = "load"
  /\ \/ DropIfFlagged(e)
     \/ /\ ~flag[t] /\ status[t] \in Terminal
        /\ Leave(e, "release")
        /\ UNCHANGED lost
     \/ /\ ~flag[t] /\ status[t] \notin Terminal
        /\ ex' = [ex EXCEPT ![e].pc = "start", ![e].ver = ckpt[t].version]
        /\ UNCHANGED lost
  /\ UNCHANGED <<db, redis, sched, up, gw, holder, used>>

MarkRunning_NoBeat(e) ==
  /\ ex[e].pc = "start"
  /\ status' = [status EXCEPT ![ex[e].task] = "RUNNING"]
  /\ Goto(e, "check")
  /\ UNCHANGED <<beat, agentMsg, hitl, ckpt, steps, redis, sched, up, gw, lost, holder, used>>

MarkRunning(e) ==
  LET t == ex[e].task IN
  /\ ex[e].pc = "start"
  /\ status' = [status EXCEPT ![t] = "RUNNING"]
  /\ beat' = [beat EXCEPT ![t] = 0]
  /\ Goto(e, "check")
  /\ UNCHANGED <<agentMsg, hitl, ckpt, steps, redis, sched, up, gw, lost, holder, used>>

\* The next step of the executor.  The mock's file numbers its steps one by one.  The events of an
\* LLM's flow are numbered upwards, past an index that the end of an agent took (AgentFlow); its
\* exception is numbered from the resume point and is the last event.
Event(i, over) == [index |-> i, over |-> over]
FileSteps(x) == {Event(i, FALSE) : i \in {x.last + 1} \cap 1..PlanLen[x.task]}
FlowSteps(x) ==
  {Event(i, FALSE) : i \in {x.last + 1} \cup (IF x.last = x.from THEN {} ELSE {x.last + 2})}
Yields(e) ==
  LET x == ex[e] IN
  IF x.task \in Mocked THEN FileSteps(x)
  ELSE IF x.over THEN {}
  ELSE {y \in FlowSteps(x) : y.index <= MaxIndex} \cup {Event(x.from + 1, TRUE)}

\* There is none: the file is through; any event of a flow may have been its final one.
Ends(e) == IF ex[e].task \in Mocked THEN ex[e].last >= PlanLen[ex[e].task] ELSE ex[e].last # ex[e].from

Yield(e, pc) ==
  \E y \in Yields(e) :
    ex' = [ex EXCEPT ![e].pc = pc, ![e].next = y.index, ![e].over = y.over]

\* Trusts the row, which a heartbeat may have overwritten, and not the flag.
CheckCancelled_StatusOnly(e) ==
  /\ ex[e].pc = "check"
  /\ IF status[ex[e].task] = "CANCELLED" THEN Leave(e, "release")
     ELSE Yield(e, "step") \/ (Ends(e) /\ Goto(e, "commit"))
  /\ UNCHANGED <<db, redis, sched, up, gw, lost, holder, used>>

\* The checks the loop makes on the step the executor yields, and after the last one.
\* Only CANCELLED stops the loop; _shutdown is looked at inside the loop only.
CheckCancelled(e) ==
  LET t == ex[e].task IN
  /\ ex[e].pc = "check"
  /\ \/ DropIfFlagged(e)
     \/ /\ ~flag[t] /\ status[t] = "CANCELLED"
        /\ Leave(e, "release")
        /\ UNCHANGED lost
     \/ /\ ~flag[t] /\ status[t] # "CANCELLED"
        /\ \/ Yield(e, IF up[ProcOf[e]] = "stopping" THEN "pause" ELSE "step")
           \/ Ends(e) /\ Goto(e, "commit")
        /\ UNCHANGED lost
  /\ UNCHANGED <<db, redis, sched, up, gw, holder, used>>

\* Graceful shutdown: PAUSED is committed and the message is not acknowledged.
PauseTask(e) ==
  LET t == ex[e].task IN
  /\ ex[e].pc = "pause"
  /\ status' = [status EXCEPT ![t] = "PAUSED"]
  /\ Leave(e, "release")
  /\ Lose(t, "unacked")
  /\ UNCHANGED <<beat, agentMsg, hitl, ckpt, steps, redis, sched, up, gw, holder, used>>

\* The checkpoint names the step after the one that is completed.
WriteStep_Ahead(e, ok) ==
  LET t == ex[e].task
      i == ex[e].next IN
  /\ steps' = [steps EXCEPT ![t] = @ \cup {i}]
  /\ ckpt' = IF ok THEN [ckpt EXCEPT ![t] = [step |-> i + 1, version |-> ex[e].ver + 1]] ELSE ckpt
  /\ ex' = [ex EXCEPT ![e].pc = "renew", ![e].last = i, ![e].next = 0, ![e].ver = ex[e].ver + 1]
  /\ UNCHANGED <<status, beat, agentMsg, hitl, redis, sched, up, gw, lost, holder, used>>

\* INSERT .. ON CONFLICT DO NOTHING and the checkpoint's compare-and-set on version,
\* in one transaction.
WriteStep(e, ok) ==
  LET t == ex[e].task
      i == ex[e].next IN
  /\ steps' = [steps EXCEPT ![t] = @ \cup {i}]
  /\ ckpt' = IF ok THEN [ckpt EXCEPT ![t] = [step |-> i, version |-> ex[e].ver + 1]] ELSE ckpt
  /\ ex' = [ex EXCEPT ![e].pc = "renew", ![e].last = i, ![e].next = 0, ![e].ver = ex[e].ver + 1,
                      ![e].late = IF flag[t] THEN ex[e].late + 1 ELSE ex[e].late]
  /\ UNCHANGED <<status, beat, agentMsg, hitl, redis, sched, up, gw, lost, holder, used>>

RecordStep(e) ==
  /\ ex[e].pc = "step" /\ ex[e].ver = ckpt[ex[e].task].version
  /\ WriteStep(e, TRUE)

\* The compare-and-set matched no row: the version is read again ...
CheckpointConflict(e) ==
  /\ ex[e].pc = "step" /\ ex[e].ver # ckpt[ex[e].task].version
  /\ ex' = [ex EXCEPT ![e].pc = "retry", ![e].ver = ckpt[ex[e].task].version]
  /\ UNCHANGED <<db, redis, sched, up, gw, lost, holder, used>>

\* ... and tried once more; the step is recorded whatever the second answer is.
RetryCheckpoint(e) ==
  /\ ex[e].pc = "retry"
  /\ WriteStep(e, ex[e].ver = ckpt[ex[e].task].version)

\* GET then EXPIRE; the answer is ignored.
RenewLock(e) ==
  LET t == ex[e].task IN
  /\ ex[e].pc = "renew"
  /\ ttl' = IF lock[t] = ProcOf[e] THEN [ttl EXCEPT ![t] = LockTTL] ELSE ttl
  /\ Goto(e, "beat")
  /\ UNCHANGED <<db, stream, lock, flag, sched, up, gw, lost, holder, used>>

\* wait_for_human, which only steps of a file have.
AsksHuman(e) == ex[e].task \in Mocked /\ ex[e].last \in HumanSteps[ex[e].task]

Heartbeat_NoBeat(e) ==
  LET t == ex[e].task IN
  /\ ex[e].pc = "beat"
  /\ status' = [status EXCEPT ![t] = "RUNNING"]
  /\ Goto(e, IF AsksHuman(e) THEN "hitl" ELSE "check")
  /\ UNCHANGED <<beat, agentMsg, hitl, ckpt, steps, redis, sched, up, gw, lost, holder, used>>

\* The heartbeat also writes RUNNING, whatever the row says.
Heartbeat(e) ==
  LET t == ex[e].task IN
  /\ ex[e].pc = "beat"
  /\ status' = [status EXCEPT ![t] = "RUNNING"]
  /\ beat' = [beat EXCEPT ![t] = 0]
  /\ Goto(e, IF AsksHuman(e) THEN "hitl" ELSE "check")
  /\ UNCHANGED <<agentMsg, hitl, ckpt, steps, redis, sched, up, gw, lost, holder, used>>

\* A step that waits for a human: request, status and placeholder in one transaction.
CreateHitl(e) ==
  LET t == ex[e].task IN
  /\ ex[e].pc = "hitl"
  /\ hitl' = [hitl EXCEPT ![t] = Append(@, "PENDING")]
  /\ status' = [status EXCEPT ![t] = "WAITING_HUMAN"]
  /\ agentMsg' = [agentMsg EXCEPT ![t] = "streaming"]
  /\ Leave(e, "ack")
  /\ UNCHANGED <<beat, ckpt, steps, redis, sched, up, gw, lost, holder, used>>

\* result["error"] decides the final status.
FinishTask(e) ==
  LET t == ex[e].task IN
  /\ ex[e].pc = "commit"
  /\ \E failed \in BOOLEAN :
       /\ status' = [status EXCEPT ![t] = IF failed THEN "FAILED" ELSE "COMPLETED"]
       /\ agentMsg' = [agentMsg EXCEPT ![t] = IF failed THEN "failed" ELSE "done"]
  /\ Leave(e, "ack")
  /\ UNCHANGED <<beat, hitl, ckpt, steps, redis, sched, up, gw, lost, holder, used>>

\* publish, then XACK.
Ack(e) ==
  /\ ex[e].pc \in {"ack", "errack"}
  /\ Leave(e, "release")
  /\ UNCHANGED <<db, redis, sched, up, gw, lost, holder, used>>

\* DEL without comparing the token.
ReleaseLock_Unchecked(e) ==
  LET t == ex[e].task IN
  /\ ex[e].pc = "release"
  /\ lock' = [lock EXCEPT ![t] = NoProc]
  /\ ttl' = [ttl EXCEPT ![t] = 0]
  /\ holder' = [holder EXCEPT ![t] = NoProc]
  /\ ex' = [ex EXCEPT ![e] = IdleEx]
  /\ UNCHANGED <<db, stream, flag, sched, up, gw, lost, used>>

\* finally: the Lua script deletes the key when it holds this process's token.
ReleaseLock(e) ==
  LET t == ex[e].task
      own == lock[t] = ProcOf[e] IN
  /\ ex[e].pc = "release"
  /\ lock' = IF own THEN [lock EXCEPT ![t] = NoProc] ELSE lock
  /\ ttl' = IF own THEN [ttl EXCEPT ![t] = 0] ELSE ttl
  /\ holder' = IF own THEN [holder EXCEPT ![t] = NoProc] ELSE holder
  /\ ex' = [ex EXCEPT ![e] = IdleEx]
  /\ UNCHANGED <<db, stream, flag, sched, up, gw, lost, used>>

-----------------------------------------------------------------------------
(* Failures of a coroutine                                                 *)

\* An exception inside the try block: FAILED is committed, or that fails too and is
\* rolled back; the message is acknowledged either way.
HandleError(e) ==
  LET t == ex[e].task IN
  /\ ex[e].pc \in InTry \cup {"ack"} /\ used.error < MaxErrors
  /\ \/ /\ status' = [status EXCEPT ![t] = "FAILED"]
        /\ agentMsg' = [agentMsg EXCEPT ![t] = "failed"]
        /\ UNCHANGED lost
     \/ /\ UNCHANGED <<status, agentMsg>>
        /\ IF status[t] = "PENDING" THEN Lose(t, "rollback") ELSE UNCHANGED lost
  /\ Leave(e, "errack")
  /\ Spend("error")
  /\ UNCHANGED <<beat, hitl, ckpt, steps, redis, sched, up, gw, holder>>

\* Redis is gone outside the try block: the exception ends in worker_loop.
RedisError(e) ==
  LET t == ex[e].task IN
  /\ used.error < MaxErrors
  /\ \/ /\ ex[e].pc = "lock"
        /\ ex' = [ex EXCEPT ![e] = IdleEx]
        /\ Lose(t, "unacked")
     \/ /\ ex[e].pc = "errack"
        /\ Leave(e, "release")
        /\ Lose(t, "unacked")
     \/ /\ ex[e].pc = "release"
        /\ ex' = [ex EXCEPT ![e] = IdleEx]
        /\ UNCHANGED lost
  /\ Spend("error")
  /\ UNCHANGED <<db, redis, sched, up, gw, holder>>

\* main cancels the coroutines 0.3 s after the signal: CancelledError skips the
\* except block and runs only the finally block.
Interrupt(e) ==
  LET t == ex[e].task IN
  /\ up[ProcOf[e]] = "stopping" /\ ex[e].pc \in Working \cup {"ack", "errack"}
  /\ IF ex[e].pc = "lock" THEN ex' = [ex EXCEPT ![e] = IdleEx] ELSE Leave(e, "release")
  /\ Lose(t, "unacked")
  /\ UNCHANGED <<db, redis, sched, up, gw, holder, used>>

-----------------------------------------------------------------------------
(* Recovery: recover_paused_tasks at start-up, then the scheduler loop     *)

Scan(p, kind, found) ==
  sched' = [sched EXCEPT ![p] = [IdleSched EXCEPT !.pc = "list", !.kind = kind, !.todo = found]]

\* Starts without looking for paused tasks.
ScanPaused_None(p) ==
  /\ up[p] = "down"
  /\ up' = [up EXCEPT ![p] = "starting"]
  /\ Scan(p, "paused", {})
  /\ UNCHANGED <<db, redis, ex, gw, lost, holder, used>>

\* A new process lists the paused tasks before its coroutines start.
ScanPaused(p) ==
  /\ up[p] = "down"
  /\ up' = [up EXCEPT ![p] = "starting"]
  /\ Scan(p, "paused", {<<t, 0>> : t \in {u \in Tasks : status[u] = "PAUSED"}})
  /\ UNCHANGED <<db, redis, ex, gw, lost, holder, used>>

ScanZombies(p) ==
  LET zombies == {t \in Tasks : status[t] = "RUNNING" /\ Stale(t)} IN
  /\ up[p] \in {"up", "stopping"} /\ sched[p].pc = "idle" /\ zombies # {}
  /\ Scan(p, "zombie", {<<t, 0>> : t \in zombies})
  /\ UNCHANGED <<db, redis, ex, up, gw, lost, holder, used>>

ScanExpired(p) ==
  LET overdue == UNION {{<<t, k>> : k \in {j \in DOMAIN hitl[t] : hitl[t][j] = "DUE"}} : t \in Tasks} IN
  /\ up[p] \in {"up", "stopping"} /\ sched[p].pc = "idle" /\ overdue # {}
  /\ Scan(p, "expired", overdue)
  /\ UNCHANGED <<db, redis, ex, up, gw, lost, holder, used>>

\* Resumes behind the step that was under way, as if it had been completed.
PickTask_Next(p, item) ==
  LET t == item[1] IN
  /\ sched[p].pc = "list" /\ sched[p].kind # "expired" /\ item \in sched[p].todo
  /\ sched' = [sched EXCEPT ![p].todo = @ \ {item}, ![p].pc = "reset",
                            ![p].task = t, ![p].resume = ckpt[t].step + 1]
  /\ UNCHANGED <<db, redis, ex, up, gw, lost, holder, used>>

\* The cancel flag and the checkpoint are read, then the row is reset, then the message sent.
PickTask(p, item) ==
  LET t == item[1] IN
  /\ sched[p].pc = "list" /\ sched[p].kind # "expired" /\ item \in sched[p].todo
  /\ \/ /\ flag[t]
        /\ sched' = [sched EXCEPT ![p].todo = @ \ {item}]
     \/ /\ ~flag[t]
        /\ sched' = [sched EXCEPT ![p].todo = @ \ {item}, ![p].pc = "reset",
                                  ![p].task = t, ![p].resume = ckpt[t].step]
  /\ UNCHANGED <<db, redis, ex, up, gw, lost, holder, used>>

\* Resets the row and forgets the message.
ResetToPending_Only(p) ==
  LET t == sched[p].task IN
  /\ sched[p].pc = "reset"
  /\ status' = [status EXCEPT ![t] = "PENDING"]
  /\ beat' = IF sched[p].kind = "zombie" THEN [beat EXCEPT ![t] = NoBeat] ELSE beat
  /\ sched' = [sched EXCEPT ![p].pc = "list", ![p].task = NoTask, ![p].resume = 0]
  /\ UNCHANGED <<agentMsg, hitl, ckpt, steps, redis, ex, up, gw, lost, holder, used>>

ResetToPending(p) ==
  LET t == sched[p].task IN
  /\ sched[p].pc = "reset"
  /\ status' = [status EXCEPT ![t] = "PENDING"]
  /\ beat' = IF sched[p].kind = "zombie" THEN [beat EXCEPT ![t] = NoBeat] ELSE beat
  /\ sched' = [sched EXCEPT ![p].pc = "push"]
  /\ UNCHANGED <<agentMsg, hitl, ckpt, steps, redis, ex, up, gw, lost, holder, used>>

PushRecovered(p) ==
  /\ sched[p].pc = "push"
  /\ Push(sched[p].task, sched[p].resume)
  /\ sched' = [sched EXCEPT ![p].pc = "list", ![p].task = NoTask, ![p].resume = 0]
  /\ UNCHANGED <<db, lock, ttl, flag, ex, up, gw, lost, holder, used>>

\* mark_expired runs in the scan's open transaction (its row lock makes another scan
\* wait) and the task is read.  A task that does not wait any more is skipped, the mark
\* left to a later commit of the scan.
PickExpired(p, item) ==
  LET t == item[1] IN
  /\ sched[p].pc = "list" /\ sched[p].kind = "expired" /\ item \in sched[p].todo
  /\ \A q \in Processes : item \notin sched[q].marked
  /\ \/ /\ status[t] = "WAITING_HUMAN"
        /\ sched' = [sched EXCEPT ![p].todo = @ \ {item}, ![p].marked = @ \cup {item},
                                  ![p].pc = "fail", ![p].task = t]
     \/ /\ status[t] # "WAITING_HUMAN"
        /\ sched' = [sched EXCEPT ![p].todo = @ \ {item}, ![p].marked = @ \cup {item}]
  /\ UNCHANGED <<db, redis, ex, up, gw, lost, holder, used>>

\* default_action is "cancel" in every row the worker inserts.
FailExpired(p) ==
  LET t == sched[p].task IN
  /\ sched[p].pc = "fail"
  /\ hitl' = [u \in Tasks |-> [k \in DOMAIN hitl[u] |->
               IF <<u, k>> \in sched[p].marked THEN "EXPIRED" ELSE hitl[u][k]]]
  /\ status' = [status EXCEPT ![t] = "FAILED"]
  /\ agentMsg' = [agentMsg EXCEPT ![t] = "failed"]
  /\ sched' = [sched EXCEPT ![p].pc = "list", ![p].marked = {}, ![p].task = NoTask]
  /\ UNCHANGED <<beat, ckpt, steps, redis, ex, up, gw, lost, holder, used>>

\* What a scan of p leaves behind when it ends, however it ends: a message not sent
\* yet is never sent.  A starting process goes on to its worker coroutines.
EndScan(p) ==
  /\ sched' = [sched EXCEPT ![p] = IdleSched]
  /\ lost' = IF sched[p].pc = "push" THEN [lost EXCEPT ![sched[p].task] = @ \cup {"unsent"}] ELSE lost

FinishScan(p) ==
  /\ sched[p].pc = "list" /\ sched[p].todo = {}
  /\ EndScan(p)
  /\ up' = [up EXCEPT ![p] = IF @ = "starting" THEN "up" ELSE @]
  /\ UNCHANGED <<db, redis, ex, gw, holder, used>>

AbortScan(p) ==
  /\ sched[p].pc # "idle" /\ used.error < MaxErrors
  /\ EndScan(p)
  /\ up' = [up EXCEPT ![p] = IF @ = "starting" THEN "up" ELSE @]
  /\ Spend("error")
  /\ UNCHANGED <<db, redis, ex, gw, holder>>

-----------------------------------------------------------------------------
(* Life of a worker process                                                *)

\* SIGTERM sets _shutdown.
Shutdown(p) ==
  /\ up[p] = "up" /\ used.fault < MaxFaults
  /\ up' = [up EXCEPT ![p] = "stopping"]
  /\ Spend("fault")
  /\ UNCHANGED <<db, redis, ex, sched, gw, lost, holder>>

\* A process that is gone never releases its locks; the next one has a new WORKER_ID.
Forget(p) == lock' = [t \in Tasks |-> IF lock[t] = p THEN Dead ELSE lock[t]]

Exit(p) ==
  /\ up[p] = "stopping" /\ \A e \in Executors : ProcOf[e] = p => ex[e].pc = "idle"
  /\ up' = [up EXCEPT ![p] = "down"]
  /\ EndScan(p)
  /\ Forget(p)
  /\ UNCHANGED <<db, stream, ttl, flag, ex, gw, holder, used>>

Crash(p) ==
  /\ up[p] \in {"up", "stopping", "starting"} /\ used.fault < MaxFaults
  /\ up' = [up EXCEPT ![p] = "down"]
  /\ ex' = [e \in Executors |-> IF ProcOf[e] = p THEN IdleEx ELSE ex[e]]
  /\ sched' = [sched EXCEPT ![p] = IdleSched]
  /\ lost' = [t \in Tasks |-> lost[t]
        \cup {"unacked" : e \in {f \in Executors : ProcOf[f] = p /\ ex[f].task = t
                                                /\ ex[f].pc \in Working \cup {"ack", "errack"}}}
        \cup (IF sched[p].pc = "push" /\ sched[p].task = t THEN {"unsent"} ELSE {})]
  /\ Forget(p)
  /\ Spend("fault")
  /\ UNCHANGED <<db, stream, ttl, flag, gw, holder>>

-----------------------------------------------------------------------------
(* Gateway use cases.  A request is one client's; several run at once.     *)

InSession(t) == {u \in Tasks : SessionOf[u] = SessionOf[t] /\ status[u] \in Active}
ActiveCount  == Cardinality({t \in Tasks : status[t] \in Active \ {"PAUSED"}})
Healable(t)  == flag[t] \/ status[t] = "PAUSED"
                \/ (status[t] = "RUNNING" /\ (beat[t] = NoBeat \/ Stale(t)))

\* Quota, then the session's unfinished task: none, or one that may be superseded.
\* A request that fails a check changes nothing.
SendMessage(c, t) ==
  /\ gw[c].pc = "idle" /\ status[t] = "NONE"
  /\ \A d \in Clients : gw[d].task # t
  /\ ActiveCount < Quota
  /\ \E victim \in IF InSession(t) = {} THEN {NoTask} ELSE {u \in InSession(t) : Healable(u)} :
       gw' = [gw EXCEPT ![c] = [IdleGw EXCEPT !.pc = "create", !.task = t, !.victim = victim]]
  /\ UNCHANGED <<db, redis, ex, sched, up, lost, holder, used>>

\* Leaves the placeholder of the superseded task as it is.
CreateTask_VictimStreams(c) ==
  LET t == gw[c].task IN
  /\ gw[c].pc = "create"
  /\ status' = [u \in Tasks |-> IF u = t THEN "PENDING"
                                ELSE IF u = gw[c].victim THEN "CANCELLED" ELSE status[u]]
  /\ agentMsg' = [agentMsg EXCEPT ![t] = "streaming"]
  /\ gw' = [gw EXCEPT ![c].pc = "enqueue"]
  /\ UNCHANGED <<beat, hitl, ckpt, steps, redis, ex, sched, up, lost, holder, used>>

\* One transaction: the superseded task, the task, its placeholder and its checkpoint.
CreateTask(c) ==
  LET t == gw[c].task
      v == gw[c].victim IN
  /\ gw[c].pc = "create"
  /\ status' = [u \in Tasks |-> IF u = t THEN "PENDING" ELSE IF u = v THEN "CANCELLED" ELSE status[u]]
  /\ agentMsg' = [u \in Tasks |-> IF u = t THEN "streaming"
                                  ELSE IF u = v /\ agentMsg[u] # "done" THEN "failed" ELSE agentMsg[u]]
  /\ gw' = [gw EXCEPT ![c].pc = "enqueue"]
  /\ UNCHANGED <<beat, hitl, ckpt, steps, redis, ex, sched, up, lost, holder, used>>

\* The use case returns after the commit.
EnqueueTask_Forgotten(c) ==
  /\ gw[c].pc = "enqueue"
  /\ gw' = [gw EXCEPT ![c] = IdleGw]
  /\ UNCHANGED <<db, redis, ex, sched, up, lost, holder, used>>

EnqueueTask(c) ==
  /\ gw[c].pc = "enqueue"
  /\ Push(gw[c].task, 0)
  /\ gw' = [gw EXCEPT ![c] = IdleGw]
  /\ UNCHANGED <<db, lock, ttl, flag, ex, sched, up, lost, holder, used>>

\* The row is read, then CANCELLED is committed, then the Redis flag is set.
CancelTask(c, t) ==
  /\ gw[c].pc = "idle" /\ status[t] \in Active /\ used.cancel < MaxCancels
  /\ gw' = [gw EXCEPT ![c] = [IdleGw EXCEPT !.pc = "cancel", !.task = t]]
  /\ Spend("cancel")
  /\ UNCHANGED <<db, redis, ex, sched, up, lost, holder>>

CommitCancel_TaskOnly(c) ==
  /\ gw[c].pc = "cancel"
  /\ status' = [status EXCEPT ![gw[c].task] = "CANCELLED"]
  /\ gw' = [gw EXCEPT ![c].pc = "flag"]
  /\ UNCHANGED <<beat, agentMsg, hitl, ckpt, steps, redis, ex, sched, up, lost, holder, used>>

CommitCancel(c) ==
  LET t == gw[c].task IN
  /\ gw[c].pc = "cancel"
  /\ status' = [status EXCEPT ![t] = "CANCELLED"]
  /\ agentMsg' = [agentMsg EXCEPT ![t] = "failed"]
  /\ gw' = [gw EXCEPT ![c].pc = "flag"]
  /\ UNCHANGED <<beat, hitl, ckpt, steps, redis, ex, sched, up, lost, holder, used>>

SetFlag(c) ==
  /\ gw[c].pc = "flag"
  /\ flag' = [flag EXCEPT ![gw[c].task] = TRUE]
  /\ gw' = [gw EXCEPT ![c] = IdleGw]
  /\ UNCHANGED <<db, stream, lock, ttl, ex, sched, up, lost, holder, used>>

\* The request must be pending and in time; the task's status is not looked at.
RespondHitl(c, t, k) ==
  /\ gw[c].pc = "idle" /\ k \in DOMAIN hitl[t] /\ hitl[t][k] = "PENDING"
  /\ gw' = [gw EXCEPT ![c] = [IdleGw EXCEPT !.pc = "resolve", !.task = t, !.req = k]]
  /\ UNCHANGED <<db, redis, ex, sched, up, lost, holder, used>>

\* Records the answer and leaves the task waiting.
ResolveHitl_StillWaiting(c) ==
  /\ gw[c].pc = "resolve"
  /\ hitl' = [hitl EXCEPT ![gw[c].task][gw[c].req] = "RESOLVED"]
  /\ gw' = [gw EXCEPT ![c].pc = "resume"]
  /\ UNCHANGED <<status, beat, agentMsg, ckpt, steps, redis, ex, sched, up, lost, holder, used>>

\* Waits for the row lock of a scan that has marked the request.
ResolveHitl(c) ==
  LET t == gw[c].task
      k == gw[c].req IN
  /\ gw[c].pc = "resolve"
  /\ \A p \in Processes : <<t, k>> \notin sched[p].marked
  /\ hitl' = [hitl EXCEPT ![t][k] = "RESOLVED"]
  /\ status' = [status EXCEPT ![t] = "PENDING"]
  /\ gw' = [gw EXCEPT ![c].pc = "resume"]
  /\ UNCHANGED <<beat, agentMsg, ckpt, steps, redis, ex, sched, up, lost, holder, used>>

ResumeTask(c) ==
  LET t == gw[c].task IN
  /\ gw[c].pc = "resume"
  /\ Push(t, ckpt[t].step)
  /\ gw' = [gw EXCEPT ![c] = IdleGw]
  /\ UNCHANGED <<db, lock, ttl, flag, ex, sched, up, lost, holder, used>>

\* The request dies between two awaits.
GatewayCrash(c) ==
  /\ gw[c].pc # "idle" /\ used.fault < MaxFaults
  /\ IF gw[c].pc \in {"enqueue", "resume"} THEN Lose(gw[c].task, "unsent") ELSE UNCHANGED lost
  /\ gw' = [gw EXCEPT ![c] = IdleGw]
  /\ Spend("fault")
  /\ UNCHANGED <<db, redis, ex, sched, up, holder>>

-----------------------------------------------------------------------------
(* Time                                                                    *)

Tick ==
  /\ used.tick < MaxTicks
  /\ ttl' = [t \in Tasks |-> IF ttl[t] = 0 THEN 0 ELSE ttl[t] - 1]
  /\ lock' = [t \in Tasks |-> IF ttl[t] <= 1 THEN NoProc ELSE lock[t]]
  /\ holder' = [t \in Tasks |-> IF ttl[t] <= 1 THEN NoProc ELSE holder[t]]
  /\ beat' = [t \in Tasks |-> IF beat[t] = NoBeat \/ Stale(t) THEN beat[t] ELSE beat[t] + 1]
  /\ Spend("tick")
  /\ UNCHANGED <<status, agentMsg, hitl, ckpt, steps, stream, flag, ex, sched, up, gw, lost>>

\* 24 hours are over: for a request nobody answered (expires_at), or for a cancel flag
\* (its EX).  A coroutine that is inside process_task has not been there for a day.
HitlDeadline(t, k) ==
  /\ used.day < MaxDays /\ hitl[t][k] = "PENDING"
  /\ hitl' = [hitl EXCEPT ![t][k] = "DUE"]
  /\ Spend("day")
  /\ UNCHANGED <<status, beat, agentMsg, ckpt, steps, redis, ex, sched, up, gw, lost, holder>>

FlagExpires(t) ==
  /\ used.day < MaxDays /\ flag[t]
  /\ \A e \in Executors : ex[e].task # t
  /\ flag' = [flag EXCEPT ![t] = FALSE]
  /\ Spend("day")
  /\ UNCHANGED <<db, stream, lock, ttl, ex, sched, up, gw, lost, holder>>

-----------------------------------------------------------------------------

\* What a coroutine does of its own accord.
Run(e) ==
  \/ Consume(e)       \/ AcquireLock(e)        \/ LoadTask(e)        \/ MarkRunning(e)
  \/ CheckCancelled(e) \/ PauseTask(e)         \/ RecordStep(e)      \/ CheckpointConflict(e)
  \/ RetryCheckpoint(e) \/ RenewLock(e)        \/ Heartbeat(e)       \/ CreateHitl(e)
  \/ FinishTask(e)    \/ Ack(e)                \/ ReleaseLock(e)

Recover(p) ==
  \/ ScanPaused(p)    \/ ScanZombies(p)        \/ ScanExpired(p)
  \/ \E item \in sched[p].todo : PickTask(p, item) \/ PickExpired(p, item)
  \/ ResetToPending(p) \/ PushRecovered(p)     \/ FailExpired(p)     \/ FinishScan(p)

\* The rest of a request the gateway has begun.
Serve(c) ==
  \/ CreateTask(c)    \/ EnqueueTask(c)        \/ CommitCancel(c)    \/ SetFlag(c)
  \/ ResolveHitl(c)   \/ ResumeTask(c)

Request(c) ==
  \E t \in Tasks : \/ SendMessage(c, t)
                  \/ CancelTask(c, t)
                  \/ \E k \in DOMAIN hitl[t] : RespondHitl(c, t, k)

Fault ==
  \/ \E e \in Executors : HandleError(e) \/ RedisError(e) \/ Interrupt(e)
  \/ \E p \in Processes : AbortScan(p) \/ Shutdown(p) \/ Exit(p) \/ Crash(p)
  \/ \E c \in Clients : GatewayCrash(c)
  \/ \E t \in Tasks : FlagExpires(t) \/ \E k \in DOMAIN hitl[t] : HitlDeadline(t, k)
  \/ Tick

Next ==
  \/ \E e \in Executors : Run(e)
  \/ \E p \in Processes : Recover(p)
  \/ \E c \in Clients : Serve(c) \/ Request(c)
  \/ Fault

Spec == Init /\ [][Next]_vars

\* Coroutines, scans and requests under way go on, a stopping process exits and is started
\* again; users, faults and the clock need not come.
Fairness ==
  /\ \A e \in Executors : WF_vars(Run(e))
  /\ \A p \in Processes : WF_vars(Recover(p)) /\ WF_vars(Exit(p))
  /\ \A c \in Clients : WF_vars(Serve(c))

FairSpec == Spec /\ Fairness

-----------------------------------------------------------------------------
(* Properties                                                              *)

Statuses == Active \cup Terminal \cup {"NONE"}
Reasons  == {"unacked", "unsent", "rollback", "cancelled"}
Items    == Tasks \X Nat
Message  == [task : Tasks, resume : Nat]
Proc     == Processes \cup {NoProc, Dead}
ExecutorState ==
  [pc : Working \cup Leaving \cup {"idle"}, task : Tasks \cup {NoTask},
   from : Nat, last : Nat, next : Nat, over : BOOLEAN, ver : Nat, late : Nat]
SchedState ==
  [pc : {"idle", "list", "reset", "push", "fail"}, kind : {"none", "paused", "zombie", "expired"},
   todo : SUBSET Items, marked : SUBSET Items, task : Tasks \cup {NoTask}, resume : Nat]
GwState ==
  [pc : {"idle", "create", "enqueue", "cancel", "flag", "resolve", "resume"},
   task : Tasks \cup {NoTask}, victim : Tasks \cup {NoTask}, req : Nat]

DbType ==
  /\ status \in [Tasks -> Statuses]
  /\ beat \in [Tasks -> Nat \cup {NoBeat}]
  /\ agentMsg \in [Tasks -> {"none", "streaming", "done", "failed"}]
  /\ hitl \in [Tasks -> Seq(Waiting \cup {"RESOLVED", "EXPIRED"})]
  /\ ckpt \in [Tasks -> [step : Nat, version : Nat]]
  /\ steps \in [Tasks -> SUBSET Nat]
RedisType ==
  /\ stream \in Seq(Message)
  /\ lock \in [Tasks -> Proc] /\ ttl \in [Tasks -> Nat] /\ flag \in [Tasks -> BOOLEAN]
ExType ==
  /\ ex \in [Executors -> ExecutorState]
  /\ \A e \in Executors : ex[e].pc # "idle" => ex[e].task \in Tasks
SchedType ==
  /\ sched \in [Processes -> SchedState]
  /\ \A p \in Processes : sched[p].pc \in {"reset", "push", "fail"} => sched[p].task \in Tasks
GwType ==
  /\ gw \in [Clients -> GwState]
  /\ \A c \in Clients : gw[c].pc # "idle" => gw[c].task \in Tasks
UpType   == up \in [Processes -> {"up", "stopping", "down", "starting"}]
PastType ==
  /\ lost \in [Tasks -> SUBSET Reasons]
  /\ holder \in [Tasks -> Executors \cup {NoProc}]
  /\ used \in [{"tick", "day", "fault", "error", "cancel"} -> Nat]

\* Every variable has its type, and an actor that is busy has a task.
TypeOK == DbType /\ RedisType /\ ExType /\ SchedType /\ GwType /\ UpType /\ PastType

Delivering(t) == \E i \in DOMAIN stream : stream[i].task = t
Publishing(t) == \/ \E p \in Processes : sched[p].pc = "push" /\ sched[p].task = t
                 \/ \E c \in Clients : gw[c].pc \in {"enqueue", "resume"} /\ gw[c].task = t
WorkedOn(t)   == \E e \in Executors : ex[e].task = t /\ ex[e].pc \in Working

\* A PENDING task is never simply forgotten: its message is in the stream, or about to be
\* sent, or in the hands of a coroutine, or it left in one of the four recorded ways (a
\* delivery without acknowledgement that nothing claims back, a sender that died between
\* commit and XADD, an error handler that could not write, a cancel flag).  Crosses the
\* commit-then-enqueue order of use cases and recovery with every exit of process_task.
PendingIsCarried ==
  \A t \in Tasks : status[t] = "PENDING" =>
    Delivering(t) \/ Publishing(t) \/ WorkedOn(t) \/ lost[t] # {}

\* A RUNNING row always has a heartbeat, so list_zombie_tasks, whose comparison a NULL
\* never satisfies, can see it once its worker is gone, whatever recovery cleared before.
RunningHasHeartbeat ==
  \A t \in Tasks : status[t] = "RUNNING" => beat[t] # NoBeat

\* Step i of the task is recorded, with all the steps before it where they are numbered one by one.
Backed(t, i) == (IF t \in Mocked THEN 1..i ELSE {i} \ {0}) \subseteq steps[t]

\* The checkpoint, the resume point of every message and the position of every coroutine
\* stand behind steps that are recorded, all of them for the plan of a file, although coroutines
\* that lost their lock go on writing and move the checkpoint back: no resumption skips work that was not done.
ResumeIsBacked ==
  /\ \A t \in Tasks : Backed(t, ckpt[t].step)
  /\ \A i \in DOMAIN stream : Backed(stream[i].task, stream[i].resume)
  /\ \A e \in Executors : ex[e].pc # "idle" => Backed(ex[e].task, ex[e].last)
  /\ \A p \in Processes : sched[p].pc \in {"reset", "push"} => Backed(sched[p].task, sched[p].resume)

\* A COMPLETED task of the mock has every step of its file in task_steps.
CompletedIsWhole ==
  \A t \in Mocked : status[t] = "COMPLETED" => 1..PlanLen[t] \subseteq steps[t]

\* The placeholder message never keeps streaming under a terminal task, and success and
\* failure agree, although task row and message row are written by five handlers.
MessageAgrees ==
  \A t \in Tasks :
    /\ status[t] = "COMPLETED" => agentMsg[t] = "done"
    /\ status[t] = "FAILED" => agentMsg[t] = "failed"
    /\ status[t] = "CANCELLED" => agentMsg[t] \in {"done", "failed"}

\* Once the cancel flag of its task is set a coroutine records at most the step it has
\* begun, although its heartbeat overwrites the CANCELLED row with RUNNING.
CancelStopsWork == \A e \in Executors : ex[e].late <= 1

\* A task that waits for a human has a request a human can still answer or the expiry scan
\* can still fail: double answers, late answers and the scan's marks, written by three
\* handlers in their own transactions, never leave it waiting for nothing.
WaitingHasQuestion ==
  \A t \in Tasks : status[t] = "WAITING_HUMAN" => \E k \in DOMAIN hitl[t] : hitl[t][k] \in Waiting

\* The zombie scan never sees the task of a coroutine that still holds its lease and is
\* not between renewing the lease and writing the heartbeat: lock TTL and heartbeat
\* timeout, two clocks in two stores, are ordered the safe way.
LeaseShieldsRunning ==
  \A e \in Executors :
    /\ ex[e].pc \in {"check", "pause", "step", "retry", "renew"}
    /\ holder[ex[e].task] = e
    => ~Stale(ex[e].task)

\* A lock is removed by the coroutine that took it, when it leaves process_task, or by its
\* TTL, or not at all: never while another coroutine works under it.
LockReleasedByHolder ==
  [][\A t \in Tasks : lock[t] # NoProc /\ lock'[t] = NoProc /\ UNCHANGED used
       => \E e \in Executors : holder[t] = e /\ ex[e].task = t /\ ex'[e].pc = "idle"]_vars

\* CANCELLED is the end: no worker or scan writes another status over it.
CancelledIsFinal == [][\A t \in Tasks : status[t] = "CANCELLED" => status'[t] = "CANCELLED"]_status

\* Every PENDING task is brought to an end or to a question for a human, unless its message
\* got lost in one of the recorded ways: no order of the actors leaves it waiting otherwise.
Settled(t) == status[t] \in Terminal \cup {"WAITING_HUMAN"}
SettlesOrLost == \A t \in Tasks : status[t] = "PENDING" ~> Settled(t) \/ lost[t] # {}

\* A task that a stopping worker paused, whose message it never acknowledges, is taken up
\* again by the scan of the next start-up, or its user has cancelled it.
PausedIsResumed == \A t \in Tasks : status[t] = "PAUSED" ~> status[t] # "PAUSED" \/ flag[t]

\* Every PENDING task is brought to an end or to a question for a human.
PendingSettles == \A t \in Tasks : status[t] = "PENDING" ~> Settled(t)

-----------------------------------------------------------------------------
\* task_steps and task_checkpoints implement the abstract step log.
Log == INSTANCE StepLog WITH Planned <- Mocked, log <- steps, cursor <- [t \in Tasks |-> ckpt[t].step]
StepLogSpec == Log!Spec

=============================================================================
