----------------------- MODULE TaskLifecycleProofs -----------------------
(***************************************************************************)
(* Type correctness of TaskLifecycle, its safety properties and its        *)
(* refinement of StepLog, for every value of the constants.  Frame lemmas  *)
(* say once which actions write which part of the state; each property     *)
(* then has a lemma that its inductive form survives a step, with one case *)
(* per writer.                                                             *)
(***************************************************************************)
EXTENDS TaskLifecycle, SequenceTheorems, TLAPS

-----------------------------------------------------------------------------
(* Facts about sequences                                                   *)

\* A function on the domain of a sequence is a sequence.
LEMMA SameDomain ==
  ASSUME NEW S, NEW T, NEW s \in Seq(S), NEW f \in [DOMAIN s -> T]
  PROVE  f \in Seq(T)
<1>1. Len(s) \in Nat /\ DOMAIN s = 1..Len(s)  BY LenProperties
<1>2. f \in [1..Len(s) -> T]  BY <1>1
<1>3. QED  BY <1>1, <1>2, SeqDef

\* An update at any index, in or out of the domain, keeps a sequence of S one of S.
LEMMA UpdateInSeq ==
  ASSUME NEW S, NEW s \in Seq(S), NEW k, NEW v \in S
  PROVE  [s EXCEPT ![k] = v] \in Seq(S)
<1>1. s \in [DOMAIN s -> S]  BY LenProperties
<1>2. [s EXCEPT ![k] = v] \in [DOMAIN s -> S]  BY <1>1
<1>3. QED  BY <1>2, SameDomain

-----------------------------------------------------------------------------
(* Type correctness                                                        *)

\* The initial state has the types.
LEMMA TypeInit == Init => TypeOK
<1>. SUFFICES ASSUME Init PROVE TypeOK  OBVIOUS
<1>1. DbType  BY DEF Init, DbType, Statuses, NoBeat
<1>2. RedisType  BY DEF Init, RedisType, Proc
<1>3. ExType  BY DEF Init, ExType, IdleEx, ExecutorState
<1>4. SchedType  BY DEF Init, SchedType, IdleSched, SchedState
<1>5. GwType  BY DEF Init, GwType, IdleGw, GwState
<1>6. UpType /\ PastType  BY DEF Init, UpType, PastType
<1>. QED  BY <1>1, <1>2, <1>3, <1>4, <1>5, <1>6 DEF TypeOK

\* A part of the state that does not change keeps its type.
LEMMA Stays ==
  /\ DbType /\ UNCHANGED db => DbType'
  /\ RedisType /\ UNCHANGED redis => RedisType'
  /\ ExType /\ UNCHANGED ex => ExType'
  /\ SchedType /\ UNCHANGED sched => SchedType'
  /\ GwType /\ UNCHANGED gw => GwType'
  /\ UpType /\ UNCHANGED up => UpType'
  /\ PastType /\ UNCHANGED <<lost, holder, used>> => PastType'
  BY DEF DbType, RedisType, ExType, SchedType, GwType, UpType, PastType, db, redis

\* A busy coroutine goes on to another program counter, or leaves.
LEMMA GotoType ==
  ASSUME ExType, NEW e \in Executors, ex[e].pc # "idle",
         NEW pc \in Working \cup Leaving, Goto(e, pc) \/ Leave(e, pc)
  PROVE  ExType'
<1>1. ex[e].task \in Tasks  BY DEF ExType
<1>2. CASE Goto(e, pc)  BY <1>1, <1>2 DEF ExType, ExecutorState, Goto
<1>3. CASE Leave(e, pc)
  <2>1. IdleEx \in ExecutorState  BY DEF IdleEx, ExecutorState
  <2>. QED  BY <1>1, <1>3, <2>1 DEF Leave, ExType, ExecutorState
<1>. QED  BY <1>2, <1>3

\* A coroutine may become idle.
LEMMA IdleExType ==
  ASSUME ExType, NEW e \in Executors, ex' = [ex EXCEPT ![e] = IdleEx]
  PROVE  ExType'
  BY DEF ExType, ExecutorState, IdleEx

\* A busy coroutine may write a step.
LEMMA StepExType ==
  ASSUME ExType, NEW e \in Executors, ex[e].pc # "idle",
         NEW pc \in Working, NEW i \in Nat, NEW v \in Nat, NEW n \in Nat,
         ex' = [ex EXCEPT ![e].pc = pc, ![e].last = i, ![e].next = 0, ![e].ver = v, ![e].late = n]
  PROVE  ExType'
<1>. DEFINE Pcs == Working \cup Leaving \cup {"idle"}
            Ids == Tasks \cup {NoTask}
<1>4. ExecutorState = [pc : Pcs, task : Ids, from : Nat, last : Nat, next : Nat, over : BOOLEAN,
                       ver : Nat, late : Nat]
  BY DEF ExecutorState
<1>5. pc \in Pcs /\ 0 \in Nat  OBVIOUS
<1>6. ex[e] \in ExecutorState  BY DEF ExType
<1>. DEFINE u == [ex[e] EXCEPT !.pc = pc, !.last = i, !.next = 0, !.ver = v, !.late = n]
<1>. HIDE DEF Pcs, Ids
<1>7. u \in ExecutorState  BY <1>4, <1>5, <1>6
<1>8. ex' = [ex EXCEPT ![e] = u]  BY DEF ExType
<1>1. ex' \in [Executors -> ExecutorState]  BY <1>7, <1>8 DEF ExType
<1>2. ex'[e].task = ex[e].task  BY DEF ExType, ExecutorState
<1>3. \A f \in Executors \ {e} : ex'[f] = ex[f]  BY DEF ExType
<1>. QED  BY <1>1, <1>2, <1>3 DEF ExType

\* What an executor yields has an index; the file's steps are numbered one by one.
LEMMA Yielded ==
  ASSUME ExType, NEW e \in Executors, NEW y \in Yields(e)
  PROVE  /\ y.index \in Nat /\ y.over \in BOOLEAN
         /\ ex[e].task \in Mocked => y.index = ex[e].last + 1
<1>. DEFINE x == ex[e]
<1>1. x.last \in Nat /\ x.from \in Nat  BY DEF ExType, ExecutorState
<1>2. \A z \in FileSteps(x) : z.index = x.last + 1 /\ z.over = FALSE  BY DEF FileSteps, Event
<1>3. \A z \in FlowSteps(x) : z.index \in {x.last + 1, x.last + 2} /\ z.over = FALSE
  BY DEF FlowSteps, Event
<1>4. Event(x.from + 1, TRUE).index = x.from + 1 /\ Event(x.from + 1, TRUE).over = TRUE  BY DEF Event
<1>5. \/ x.task \in Mocked /\ y \in FileSteps(x)
      \/ x.task \notin Mocked /\ y \in FlowSteps(x) \cup {Event(x.from + 1, TRUE)}
  BY DEF Yields
<1>6. y.over = FALSE \/ y.over = TRUE  BY <1>2, <1>3, <1>4, <1>5, Zenon
<1>7. y.over \in BOOLEAN  BY <1>6, Zenon
<1>8. y.index \in {x.last + 1, x.last + 2, x.from + 1} /\ (x.task \in Mocked => y.index = x.last + 1)
  <2>1. \A z \in FileSteps(x) : z.index = x.last + 1  BY DEF FileSteps, Event
  <2>2. \A z \in FlowSteps(x) : z.index \in {x.last + 1, x.last + 2}  BY DEF FlowSteps, Event
  <2>3. Event(x.from + 1, TRUE).index = x.from + 1  BY DEF Event
  <2>. QED  BY <1>5, <2>1, <2>2, <2>3, Zenon
<1>9. y.index \in Nat  BY <1>1, <1>8
<1>. QED  BY <1>7, <1>8, <1>9, Zenon

\* A busy coroutine may take what the executor yields.
LEMMA YieldType ==
  ASSUME ExType, NEW e \in Executors, ex[e].pc # "idle", NEW pc \in Working, Yield(e, pc)
  PROVE  ExType'
<1>1. PICK y \in Yields(e) :
        ex' = [ex EXCEPT ![e].pc = pc, ![e].next = y.index, ![e].over = y.over]
  BY DEF Yield
<1>. DEFINE n == y.index
            b == y.over
            Pcs == Working \cup Leaving \cup {"idle"}
            Ids == Tasks \cup {NoTask}
<1>2. n \in Nat /\ b \in BOOLEAN /\ pc \in Pcs  BY Yielded
<1>3. ExecutorState = [pc : Pcs, task : Ids, from : Nat, last : Nat, next : Nat, over : BOOLEAN,
                       ver : Nat, late : Nat]
  BY DEF ExecutorState
<1>4. ex' = [ex EXCEPT ![e].pc = pc, ![e].next = n, ![e].over = b]  BY <1>1
<1>. HIDE DEF n, b, Pcs, Ids
<1>5. ex' \in [Executors -> ExecutorState]  BY <1>2, <1>3, <1>4 DEF ExType
<1>6. ex'[e].task = ex[e].task  BY <1>4 DEF ExType, ExecutorState
<1>7. \A f \in Executors \ {e} : ex'[f] = ex[f]  BY <1>4 DEF ExType
<1>. QED  BY <1>5, <1>6, <1>7 DEF ExType

\* Recording a loss keeps the history typed.
LEMMA LoseType ==
  ASSUME PastType, NEW t \in Tasks, NEW why \in Reasons, Lose(t, why), UNCHANGED <<holder, used>>
  PROVE  PastType'
  BY DEF PastType, Lose

\* So does counting an action of the environment.
LEMMA SpendType ==
  ASSUME PastType, NEW what \in {"tick", "day", "fault", "error", "cancel"}, Spend(what),
         UNCHANGED <<lost, holder>>
  PROVE  PastType'
  BY DEF PastType, Spend

\* Sending a message keeps the stream a sequence of messages.
LEMMA PushType ==
  ASSUME RedisType, NEW t \in Tasks, NEW n \in Nat, Push(t, n), UNCHANGED <<lock, ttl, flag>>
  PROVE  RedisType'
<1>1. [task |-> t, resume |-> n] \in Message  BY DEF Message
<1>2. stream' \in Seq(Message)  BY <1>1 DEF RedisType, Push
<1>3. QED  BY <1>2 DEF RedisType

\* What a coroutine does, and how it fails, keeps the types: process_task.
LEMMA TypeExecutor ==
  ASSUME TypeOK, NEW e \in Executors,
         Run(e) \/ HandleError(e) \/ RedisError(e) \/ Interrupt(e)
  PROVE  TypeOK'
<1>. USE Stays DEF TypeOK
<1>1. CASE Consume(e)
  <2>1. Head(stream) \in Message /\ Tail(stream) \in Seq(Message)
    BY <1>1, HeadTailProperties DEF Consume, RedisType
  <2>2. RedisType'  BY <1>1, <2>1 DEF Consume, RedisType
  <2>3. ExType'  BY <1>1, <2>1 DEF Consume, ExType, ExecutorState, IdleEx, Working, Message
  <2>. QED  BY <1>1, <2>2, <2>3 DEF Consume
<1>2. CASE AcquireLock(e)
  <2>1. ex[e].task \in Tasks  BY <1>2 DEF AcquireLock, ExType
  <2>2. ProcOf[e] \in Proc /\ LockTTL \in Nat  BY ConfigAssumption DEF Proc
  <2>5. RedisType'  BY <1>2, <2>1, <2>2 DEF AcquireLock, RedisType
  <2>3. ExType'  BY <1>2, GotoType, IdleExType DEF AcquireLock, Working, InTry
  <2>4. PastType'  BY <1>2, <2>1, LoseType DEF AcquireLock, PastType, Reasons
  <2>. QED  BY <1>2, <2>5, <2>3, <2>4 DEF AcquireLock
<1>3. CASE LoadTask(e)
  <2>1. ex[e].task \in Tasks  BY <1>3 DEF LoadTask, ExType
  <2>2. ExType'
    <3>1. CASE ex' = [ex EXCEPT ![e].pc = "start", ![e].ver = ckpt[ex[e].task].version]
      <4>1. ckpt[ex[e].task].version \in Nat  BY <2>1 DEF DbType
      <4>2. "start" \in Working  BY DEF Working, InTry
      <4>. QED  BY <3>1, <2>1, <4>1, <4>2 DEF ExType, ExecutorState
    <3>. QED  BY <3>1, <1>3, GotoType DEF LoadTask, DropIfFlagged, Leaving
  <2>3. PastType'  BY <1>3, <2>1, LoseType DEF LoadTask, DropIfFlagged, Reasons
  <2>. QED  BY <1>3, <2>2, <2>3 DEF LoadTask
<1>4. CASE MarkRunning(e)
  <2>1. DbType'  BY <1>4 DEF MarkRunning, DbType, ExType, Statuses, Active
  <2>2. ExType'  BY <1>4, GotoType DEF MarkRunning, Working, InTry
  <2>. QED  BY <1>4, <2>1, <2>2 DEF MarkRunning
<1>5. CASE CheckCancelled(e)
  <2>1. ex[e].task \in Tasks  BY <1>5 DEF CheckCancelled, ExType
  <2>2. ExType'
    <3>1. CASE \E pc \in {"pause", "step"} : Yield(e, pc)
      BY <1>5, <3>1, YieldType DEF CheckCancelled, Working, InTry
    <3>2. CASE Goto(e, "commit") \/ Leave(e, "release")
      BY <1>5, <3>2, GotoType DEF CheckCancelled, Working, InTry, Leaving
    <3>. QED  BY <1>5, <3>1, <3>2 DEF CheckCancelled, DropIfFlagged
  <2>3. PastType'  BY <1>5, <2>1, LoseType DEF CheckCancelled, DropIfFlagged, Reasons
  <2>. QED  BY <1>5, <2>2, <2>3 DEF CheckCancelled
<1>6. CASE PauseTask(e)
  <2>1. ex[e].task \in Tasks  BY <1>6 DEF PauseTask, ExType
  <2>2. DbType'  BY <1>6 DEF PauseTask, DbType, Statuses, Active
  <2>3. ExType'  BY <1>6, GotoType DEF PauseTask, Leaving
  <2>4. PastType'  BY <1>6, <2>1, LoseType DEF PauseTask, Reasons
  <2>. QED  BY <1>6, <2>2, <2>3, <2>4 DEF PauseTask
<1>7. ASSUME NEW ok \in BOOLEAN, ex[e].pc \in {"step", "retry"}, WriteStep(e, ok) PROVE TypeOK'
  <2>1. /\ ex[e].task \in Tasks /\ ex[e].next \in Nat /\ ex[e].ver + 1 \in Nat
        /\ ex[e].late \in Nat
    BY <1>7 DEF ExType, ExecutorState
  <2>2. DbType'  BY <1>7, <2>1 DEF WriteStep, DbType
  <2>3. ExType'
    <3>1. "renew" \in Working  BY DEF Working, InTry
    <3>. DEFINE i == ex[e].next
                v == ex[e].ver + 1
                n == IF flag[ex[e].task] THEN ex[e].late + 1 ELSE ex[e].late
    <3>2. i \in Nat /\ v \in Nat /\ n \in Nat  BY <2>1
    <3>3. ex' = [ex EXCEPT ![e].pc = "renew", ![e].last = i, ![e].next = 0, ![e].ver = v,
                           ![e].late = n]
      BY <1>7 DEF WriteStep
    <3>. HIDE DEF i, v, n
    <3>. QED  BY <1>7, <3>1, <3>2, <3>3, StepExType
  <2>. QED  BY <1>7, <2>2, <2>3 DEF WriteStep
<1>8. CASE RecordStep(e)  BY <1>7, <1>8 DEF RecordStep
<1>9. CASE CheckpointConflict(e)
  <2>1. ExType'
    BY <1>9 DEF CheckpointConflict, ExType, ExecutorState, DbType, Working, InTry
  <2>. QED  BY <1>9, <2>1 DEF CheckpointConflict
<1>10. CASE RetryCheckpoint(e)  BY <1>7, <1>10 DEF RetryCheckpoint
<1>11. CASE RenewLock(e)
  <2>1. RedisType'  BY <1>11, ConfigAssumption DEF RenewLock, RedisType
  <2>2. ExType'  BY <1>11, GotoType DEF RenewLock, Working, InTry
  <2>. QED  BY <1>11, <2>1, <2>2 DEF RenewLock
<1>12. CASE Heartbeat(e)
  <2>1. DbType'  BY <1>12 DEF Heartbeat, DbType, ExType, Statuses, Active
  <2>2. ExType'  BY <1>12, GotoType DEF Heartbeat, Working, InTry
  <2>. QED  BY <1>12, <2>1, <2>2 DEF Heartbeat
<1>13. CASE CreateHitl(e)
  <2>1. ex[e].task \in Tasks  BY <1>13 DEF CreateHitl, ExType
  <2>2. DbType'  BY <1>13, <2>1 DEF CreateHitl, DbType, Statuses, Active, Waiting
  <2>3. ExType'  BY <1>13, GotoType DEF CreateHitl, Leaving
  <2>. QED  BY <1>13, <2>2, <2>3 DEF CreateHitl
<1>14. CASE FinishTask(e)
  <2>1. DbType'  BY <1>14 DEF FinishTask, DbType, Statuses, Terminal
  <2>2. ExType'  BY <1>14, GotoType DEF FinishTask, Leaving
  <2>. QED  BY <1>14, <2>1, <2>2 DEF FinishTask
<1>15. CASE Ack(e)
  <2>1. ExType'  BY <1>15, GotoType DEF Ack, Leaving
  <2>. QED  BY <1>15, <2>1 DEF Ack
<1>16. CASE ReleaseLock(e)
  <2>1. RedisType'  BY <1>16 DEF ReleaseLock, RedisType, Proc
  <2>2. ExType'  BY <1>16, IdleExType DEF ReleaseLock
  <2>3. PastType'  BY <1>16 DEF ReleaseLock, PastType
  <2>. QED  BY <1>16, <2>1, <2>2, <2>3 DEF ReleaseLock
<1>17. CASE HandleError(e)
  <2>1. ex[e].task \in Tasks  BY <1>17 DEF HandleError, ExType, InTry
  <2>2. DbType'  BY <1>17 DEF HandleError, DbType, Statuses, Terminal
  <2>3. ExType'  BY <1>17, GotoType DEF HandleError, Leaving, InTry
  <2>4. PastType'  BY <1>17, <2>1 DEF HandleError, PastType, Lose, Spend, Reasons
  <2>. QED  BY <1>17, <2>2, <2>3, <2>4 DEF HandleError
<1>18. CASE RedisError(e)
  <2>1. ex[e].task \in Tasks  BY <1>18 DEF RedisError, ExType
  <2>2. ExType'  BY <1>18, GotoType, IdleExType DEF RedisError, Leaving
  <2>3. PastType'  BY <1>18, <2>1 DEF RedisError, PastType, Lose, Spend, Reasons
  <2>. QED  BY <1>18, <2>2, <2>3 DEF RedisError
<1>19. CASE Interrupt(e)
  <2>1. ex[e].task \in Tasks  BY <1>19 DEF Interrupt, ExType, Working, InTry
  <2>2. ExType'
    BY <1>19, GotoType, IdleExType DEF Interrupt, Leaving, Working, InTry
  <2>3. PastType'  BY <1>19, <2>1, LoseType DEF Interrupt, Reasons
  <2>. QED  BY <1>19, <2>2, <2>3 DEF Interrupt
<1>. QED  BY <1>1, <1>2, <1>3, <1>4, <1>5, <1>6, <1>8, <1>9, <1>10, <1>11, <1>12, <1>13,
             <1>14, <1>15, <1>16, <1>17, <1>18, <1>19 DEF Run

\* A scan's record may be replaced by any record of its type.
LEMMA SchedUpdate ==
  ASSUME SchedType, NEW p \in Processes, NEW r \in SchedState,
         r.pc \in {"reset", "push", "fail"} => r.task \in Tasks,
         sched' = [sched EXCEPT ![p] = r]
  PROVE  SchedType'
  BY DEF SchedType

\* The record of no scan is one of a scan's records.
LEMMA IdleSchedType == IdleSched \in SchedState
  BY DEF IdleSched, SchedState

\* A scan may begin with any list of items.
LEMMA ScanType ==
  ASSUME SchedType, NEW p \in Processes, NEW kind \in {"none", "paused", "zombie", "expired"},
         NEW found \in SUBSET Items, Scan(p, kind, found)
  PROVE  SchedType'
<1>. DEFINE r == [IdleSched EXCEPT !.pc = "list", !.kind = kind, !.todo = found]
<1>1. r \in SchedState  BY IdleSchedType DEF SchedState
<1>2. r.pc = "list"  BY DEF IdleSched
<1>. QED  BY <1>1, <1>2, SchedUpdate DEF Scan

\* A scan may end anywhere.
LEMMA EndScanType ==
  ASSUME SchedType, PastType, NEW p \in Processes, EndScan(p), UNCHANGED <<holder, used>>
  PROVE  SchedType' /\ PastType'
<1>1. SchedType'  BY IdleSchedType, SchedUpdate DEF EndScan, IdleSched
<1>2. PastType'  BY DEF EndScan, SchedType, PastType, Reasons
<1>. QED  BY <1>1, <1>2

\* A scan's record with the picked task and the position read for it.
LEMMA TypePicked ==
  ASSUME NEW s \in SchedState, NEW todo \in SUBSET Items, NEW t \in Tasks, NEW n \in Nat
  PROVE  LET r == [s EXCEPT !.todo = todo, !.pc = "reset", !.task = t, !.resume = n]
         IN  r \in SchedState /\ r.task \in Tasks
  BY DEF SchedState

\* A scan's record with the request it marks.
LEMMA TypeFailing ==
  ASSUME NEW s \in SchedState, NEW todo \in SUBSET Items, NEW marked \in SUBSET Items,
         NEW t \in Tasks
  PROVE  LET r == [s EXCEPT !.todo = todo, !.marked = marked, !.pc = "fail", !.task = t]
         IN  r \in SchedState /\ r.task \in Tasks
  BY DEF SchedState

\* Recovery keeps the types: recover_paused_tasks and the scheduler loop.
LEMMA TypeRecovery ==
  ASSUME TypeOK, NEW p \in Processes, Recover(p) \/ AbortScan(p)
  PROVE  TypeOK'
<1>. USE Stays DEF TypeOK
<1>1. CASE ScanPaused(p)
  <2>1. {<<t, 0>> : t \in {u \in Tasks : status[u] = "PAUSED"}} \in SUBSET Items  BY DEF Items
  <2>2. SchedType'  BY <1>1, <2>1, ScanType DEF ScanPaused
  <2>3. UpType'  BY <1>1 DEF ScanPaused, UpType
  <2>. QED  BY <1>1, <2>2, <2>3 DEF ScanPaused
<1>2. CASE ScanZombies(p)
  <2>. DEFINE found == {<<t, 0>> : t \in {u \in Tasks : status[u] = "RUNNING" /\ Stale(u)}}
  <2>1. found \in SUBSET Items  BY DEF Items
  <2>2. Scan(p, "zombie", found)  BY <1>2 DEF ScanZombies
  <2>. HIDE DEF found
  <2>3. SchedType'  BY <2>1, <2>2, ScanType
  <2>. QED  BY <1>2, <2>3 DEF ScanZombies
<1>3. CASE ScanExpired(p)
  <2>. DEFINE found == UNION {{<<t, k>> : k \in {j \in DOMAIN hitl[t] : hitl[t][j] = "DUE"}}
                              : t \in Tasks}
  <2>1. ASSUME NEW t \in Tasks PROVE DOMAIN hitl[t] \subseteq Nat
    BY LenProperties DEF DbType
  <2>2. found \in SUBSET Items  BY <2>1 DEF Items
  <2>3. Scan(p, "expired", found)  BY <1>3 DEF ScanExpired
  <2>. HIDE DEF found
  <2>4. SchedType'  BY <2>2, <2>3, ScanType
  <2>. QED  BY <1>3, <2>4 DEF ScanExpired
<1>4. ASSUME NEW item \in sched[p].todo, PickTask(p, item) PROVE TypeOK'
  <2>. DEFINE todo == sched[p].todo \ {item}
              n == ckpt[item[1]].step
              r == [sched[p] EXCEPT !.todo = todo]
              s == [sched[p] EXCEPT !.todo = todo, !.pc = "reset", !.task = item[1], !.resume = n]
  <2>1. sched[p] \in SchedState  BY DEF SchedType
  <2>2. item \in Items /\ todo \in SUBSET Items  BY <2>1 DEF SchedState
  <2>3. item[1] \in Tasks  BY <2>2 DEF Items
  <2>4. n \in Nat  BY <2>3 DEF DbType
  <2>5. sched' = [sched EXCEPT ![p] = r] \/ sched' = [sched EXCEPT ![p] = s]
    BY <1>4 DEF PickTask, SchedType
  <2>6. r \in SchedState /\ r.pc = "list"  BY <1>4, <2>1, <2>2 DEF PickTask, SchedState
  <2>7. s \in SchedState /\ s.task \in Tasks  BY <2>1, <2>2, <2>3, <2>4, TypePicked
  <2>. HIDE DEF r, s
  <2>8. SchedType'  BY <2>5, <2>6, <2>7, SchedUpdate
  <2>. QED  BY <1>4, <2>8 DEF PickTask
<1>5. CASE ResetToPending(p)
  <2>1. DbType'  BY <1>5 DEF ResetToPending, DbType, Statuses, Active
  <2>2. SchedType'  BY <1>5 DEF ResetToPending, SchedType, SchedState
  <2>. QED  BY <1>5, <2>1, <2>2 DEF ResetToPending
<1>6. CASE PushRecovered(p)
  <2>1. sched[p].task \in Tasks /\ sched[p].resume \in Nat
    BY <1>6 DEF PushRecovered, SchedType, SchedState
  <2>2. RedisType'  BY <1>6, <2>1, PushType DEF PushRecovered
  <2>3. SchedType'
    <3>. DEFINE r == [sched[p] EXCEPT !.pc = "list", !.task = NoTask, !.resume = 0]
    <3>1. r \in SchedState /\ r.pc = "list"  BY DEF SchedType, SchedState
    <3>2. sched' = [sched EXCEPT ![p] = r]  BY <1>6 DEF PushRecovered, SchedType
    <3>. QED  BY <3>1, <3>2, SchedUpdate
  <2>. QED  BY <1>6, <2>2, <2>3 DEF PushRecovered
<1>7. ASSUME NEW item \in sched[p].todo, PickExpired(p, item) PROVE TypeOK'
  <2>. DEFINE todo == sched[p].todo \ {item}
              marked == sched[p].marked \cup {item}
              r == [sched[p] EXCEPT !.todo = todo, !.marked = marked]
              s == [sched[p] EXCEPT !.todo = todo, !.marked = marked, !.pc = "fail", !.task = item[1]]
  <2>1. sched[p] \in SchedState  BY DEF SchedType
  <2>2. item \in Items /\ todo \in SUBSET Items /\ marked \in SUBSET Items
    BY <2>1 DEF SchedState
  <2>3. item[1] \in Tasks  BY <2>2 DEF Items
  <2>4. sched' = [sched EXCEPT ![p] = r] \/ sched' = [sched EXCEPT ![p] = s]
    BY <1>7 DEF PickExpired, SchedType
  <2>5. r \in SchedState /\ r.pc = "list"  BY <1>7, <2>1, <2>2 DEF PickExpired, SchedState
  <2>6. s \in SchedState /\ s.task \in Tasks  BY <2>1, <2>2, <2>3, TypeFailing
  <2>. HIDE DEF r, s
  <2>7. SchedType'  BY <2>4, <2>5, <2>6, SchedUpdate
  <2>. QED  BY <1>7, <2>7 DEF PickExpired
<1>8. CASE FailExpired(p)
  <2>1. sched[p].task \in Tasks  BY <1>8 DEF FailExpired, SchedType
  <2>2. ASSUME NEW u \in Tasks PROVE hitl'[u] \in Seq(Waiting \cup {"RESOLVED", "EXPIRED"})
    <3>1. hitl[u] \in Seq(Waiting \cup {"RESOLVED", "EXPIRED"})  BY DEF DbType
    <3>2. hitl'[u] \in [DOMAIN hitl[u] -> Waiting \cup {"RESOLVED", "EXPIRED"}]
      BY <1>8, <3>1, LenProperties DEF FailExpired
    <3>. QED  BY <3>1, <3>2, SameDomain
  <2>3. hitl' \in [Tasks -> Seq(Waiting \cup {"RESOLVED", "EXPIRED"})]
    BY <1>8, <2>2 DEF FailExpired
  <2>4. DbType'  BY <1>8, <2>3 DEF FailExpired, DbType, Statuses, Terminal
  <2>5. SchedType'
    <3>. DEFINE r == [sched[p] EXCEPT !.pc = "list", !.marked = {}, !.task = NoTask]
    <3>1. r \in SchedState /\ r.pc = "list"  BY DEF SchedType, SchedState
    <3>2. sched' = [sched EXCEPT ![p] = r]  BY <1>8 DEF FailExpired, SchedType
    <3>. QED  BY <3>1, <3>2, SchedUpdate
  <2>. QED  BY <1>8, <2>4, <2>5 DEF FailExpired
<1>9. CASE FinishScan(p)
  <2>1. SchedType' /\ PastType'  BY <1>9, EndScanType DEF FinishScan
  <2>2. UpType'  BY <1>9 DEF FinishScan, UpType
  <2>. QED  BY <1>9, <2>1, <2>2 DEF FinishScan
<1>10. CASE AbortScan(p)
  <2>1. SchedType'  BY <1>10, IdleSchedType, SchedUpdate DEF AbortScan, EndScan, IdleSched
  <2>2. PastType'
    BY <1>10 DEF AbortScan, EndScan, Spend, SchedType, PastType, Reasons
  <2>3. UpType'  BY <1>10 DEF AbortScan, UpType
  <2>. QED  BY <1>10, <2>1, <2>2, <2>3 DEF AbortScan
<1>. QED  BY <1>1, <1>2, <1>3, <1>4, <1>5, <1>6, <1>7, <1>8, <1>9, <1>10 DEF Recover

\* A process that is gone leaves dead tokens.
LEMMA ForgetType == ASSUME RedisType, NEW p \in Processes, Forget(p), UNCHANGED <<stream, ttl, flag>>
                    PROVE  RedisType'
  BY DEF RedisType, Forget, Proc

\* Shutdown, exit and crash of a process keep the types.
LEMMA TypeProcess ==
  ASSUME TypeOK, NEW p \in Processes, Shutdown(p) \/ Exit(p) \/ Crash(p)
  PROVE  TypeOK'
<1>. USE Stays DEF TypeOK
<1>1. CASE Shutdown(p)
  <2>1. UpType'  BY <1>1 DEF Shutdown, UpType
  <2>2. PastType'  BY <1>1, SpendType DEF Shutdown
  <2>. QED  BY <1>1, <2>1, <2>2 DEF Shutdown
<1>2. CASE Exit(p)
  <2>1. UpType'  BY <1>2 DEF Exit, UpType
  <2>2. SchedType' /\ PastType'  BY <1>2, EndScanType DEF Exit
  <2>3. RedisType'  BY <1>2, ForgetType DEF Exit
  <2>. QED  BY <1>2, <2>1, <2>2, <2>3 DEF Exit
<1>3. CASE Crash(p)
  <2>1. UpType'  BY <1>3 DEF Crash, UpType
  <2>2. RedisType'  BY <1>3, ForgetType DEF Crash
  <2>3. SchedType'  BY <1>3, IdleSchedType, SchedUpdate DEF Crash, IdleSched
  <2>4. ExType'
    <3>1. IdleEx \in ExecutorState /\ IdleEx.pc = "idle"  BY DEF IdleEx, ExecutorState
    <3>. QED  BY <1>3, <3>1 DEF Crash, ExType
  <2>5. PastType'
    <3>1. lost' \in [Tasks -> SUBSET Reasons]  BY <1>3 DEF Crash, PastType, Reasons
    <3>. QED  BY <1>3, <3>1 DEF Crash, PastType, Spend
  <2>. QED  BY <1>3, <2>1, <2>2, <2>3, <2>4, <2>5 DEF Crash
<1>. QED  BY <1>1, <1>2, <1>3

\* A request's record may be replaced by any record of its type.
LEMMA GwUpdate ==
  ASSUME GwType, NEW c \in Clients, NEW r \in GwState, r.pc # "idle" => r.task \in Tasks,
         gw' = [gw EXCEPT ![c] = r]
  PROVE  GwType'
  BY DEF GwType

\* The record of no request is one of a request's records.
LEMMA IdleGwType == IdleGw \in GwState /\ IdleGw.pc = "idle"
  BY DEF IdleGw, GwState

\* The use cases of the gateway keep the types.
LEMMA TypeGateway ==
  ASSUME TypeOK, NEW c \in Clients, Serve(c) \/ Request(c) \/ GatewayCrash(c)
  PROVE  TypeOK'
<1>. USE Stays, IdleGwType DEF TypeOK
<1>1. ASSUME NEW t \in Tasks, SendMessage(c, t) PROVE TypeOK'
  <2>1. PICK v \in Tasks \cup {NoTask} :
          gw' = [gw EXCEPT ![c] = [IdleGw EXCEPT !.pc = "create", !.task = t, !.victim = v]]
    BY <1>1 DEF SendMessage, InSession
  <2>. DEFINE r == [IdleGw EXCEPT !.pc = "create", !.task = t, !.victim = v]
  <2>2. r \in GwState /\ r.task = t  BY DEF GwState, IdleGw
  <2>3. GwType'  BY <2>1, <2>2, GwUpdate
  <2>. QED  BY <1>1, <2>3 DEF SendMessage
<1>2. CASE CreateTask(c)
  <2>1. DbType'  BY <1>2 DEF CreateTask, DbType, Statuses, Active, Terminal
  <2>2. GwType'  BY <1>2 DEF CreateTask, GwType, GwState
  <2>. QED  BY <1>2, <2>1, <2>2 DEF CreateTask
<1>3. CASE EnqueueTask(c)
  <2>1. RedisType'  BY <1>3, PushType DEF EnqueueTask, GwType
  <2>2. GwType'  BY <1>3, GwUpdate DEF EnqueueTask
  <2>. QED  BY <1>3, <2>1, <2>2 DEF EnqueueTask
<1>4. ASSUME NEW t \in Tasks, CancelTask(c, t) PROVE TypeOK'
  <2>. DEFINE r == [IdleGw EXCEPT !.pc = "cancel", !.task = t]
  <2>1. r \in GwState /\ r.task = t  BY DEF GwState, IdleGw
  <2>2. GwType'  BY <1>4, <2>1, GwUpdate DEF CancelTask
  <2>3. PastType'  BY <1>4, SpendType DEF CancelTask
  <2>. QED  BY <1>4, <2>2, <2>3 DEF CancelTask
<1>5. CASE CommitCancel(c)
  <2>1. DbType'  BY <1>5 DEF CommitCancel, DbType, Statuses, Terminal
  <2>2. GwType'  BY <1>5 DEF CommitCancel, GwType, GwState
  <2>. QED  BY <1>5, <2>1, <2>2 DEF CommitCancel
<1>6. CASE SetFlag(c)
  <2>1. RedisType'  BY <1>6 DEF SetFlag, RedisType
  <2>2. GwType'  BY <1>6, GwUpdate DEF SetFlag
  <2>. QED  BY <1>6, <2>1, <2>2 DEF SetFlag
<1>7. ASSUME NEW t \in Tasks, NEW k \in DOMAIN hitl[t], RespondHitl(c, t, k) PROVE TypeOK'
  <2>1. k \in Nat  BY LenProperties DEF DbType
  <2>. DEFINE r == [IdleGw EXCEPT !.pc = "resolve", !.task = t, !.req = k]
  <2>2. r \in GwState /\ r.task = t  BY <2>1 DEF GwState, IdleGw
  <2>3. GwType'  BY <1>7, <2>2, GwUpdate DEF RespondHitl
  <2>. QED  BY <1>7, <2>3 DEF RespondHitl
<1>8. CASE ResolveHitl(c)
  <2>1. gw[c].task \in Tasks  BY <1>8 DEF ResolveHitl, GwType
  <2>2. [hitl[gw[c].task] EXCEPT ![gw[c].req] = "RESOLVED"]
          \in Seq(Waiting \cup {"RESOLVED", "EXPIRED"})
    BY <2>1, UpdateInSeq DEF DbType
  <2>3. hitl' \in [Tasks -> Seq(Waiting \cup {"RESOLVED", "EXPIRED"})]
    BY <1>8, <2>1, <2>2 DEF ResolveHitl, DbType
  <2>4. DbType'  BY <1>8, <2>3 DEF ResolveHitl, DbType, Statuses, Active
  <2>5. GwType'  BY <1>8 DEF ResolveHitl, GwType, GwState
  <2>. QED  BY <1>8, <2>4, <2>5 DEF ResolveHitl
<1>9. CASE ResumeTask(c)
  <2>1. gw[c].task \in Tasks  BY <1>9 DEF ResumeTask, GwType
  <2>2. ckpt[gw[c].task].step \in Nat  BY <2>1 DEF DbType
  <2>3. RedisType'  BY <1>9, <2>1, <2>2, PushType DEF ResumeTask
  <2>4. GwType'  BY <1>9, GwUpdate DEF ResumeTask
  <2>. QED  BY <1>9, <2>3, <2>4 DEF ResumeTask
<1>10. CASE GatewayCrash(c)
  <2>1. GwType'  BY <1>10, GwUpdate DEF GatewayCrash
  <2>2. PastType'  BY <1>10 DEF GatewayCrash, Lose, Spend, PastType, GwType, Reasons
  <2>. QED  BY <1>10, <2>1, <2>2 DEF GatewayCrash
<1>. QED  BY <1>1, <1>2, <1>3, <1>4, <1>5, <1>6, <1>7, <1>8, <1>9, <1>10 DEF Serve, Request

\* The clock keeps the types.
LEMMA TypeTime ==
  ASSUME TypeOK,
         Tick \/ \E t \in Tasks : FlagExpires(t) \/ \E k \in DOMAIN hitl[t] : HitlDeadline(t, k)
  PROVE  TypeOK'
<1>. USE Stays DEF TypeOK
<1>1. CASE Tick
  <2>1. RedisType'  BY <1>1 DEF Tick, RedisType, Proc
  <2>2. DbType'  BY <1>1 DEF Tick, DbType, NoBeat
  <2>3. PastType'  BY <1>1 DEF Tick, PastType, Spend
  <2>. QED  BY <1>1, <2>1, <2>2, <2>3 DEF Tick
<1>2. ASSUME NEW t \in Tasks, FlagExpires(t) PROVE TypeOK'
  <2>1. RedisType'  BY <1>2 DEF FlagExpires, RedisType
  <2>2. PastType'  BY <1>2, SpendType DEF FlagExpires
  <2>. QED  BY <1>2, <2>1, <2>2 DEF FlagExpires
<1>3. ASSUME NEW t \in Tasks, NEW k \in DOMAIN hitl[t], HitlDeadline(t, k) PROVE TypeOK'
  <2>1. [hitl[t] EXCEPT ![k] = "DUE"] \in Seq(Waiting \cup {"RESOLVED", "EXPIRED"})
    BY UpdateInSeq DEF DbType, Waiting
  <2>2. hitl' \in [Tasks -> Seq(Waiting \cup {"RESOLVED", "EXPIRED"})]
    BY <1>3, <2>1 DEF HitlDeadline, DbType
  <2>3. DbType'  BY <1>3, <2>2 DEF HitlDeadline, DbType
  <2>4. PastType'  BY <1>3, SpendType DEF HitlDeadline
  <2>. QED  BY <1>3, <2>3, <2>4 DEF HitlDeadline
<1>. QED  BY <1>1, <1>2, <1>3

\* Every step keeps the types.
LEMMA TypeStep == TypeOK /\ [Next]_vars => TypeOK'
<1>. SUFFICES ASSUME TypeOK, [Next]_vars PROVE TypeOK'  OBVIOUS
<1>1. CASE Next
  BY <1>1, TypeExecutor, TypeRecovery, TypeProcess, TypeGateway, TypeTime DEF Next, Fault
<1>2. CASE UNCHANGED vars  BY <1>2, Stays DEF vars, TypeOK
<1>. QED  BY <1>1, <1>2

\* In every reachable state every variable has its type.
THEOREM TypeCorrect == Spec => []TypeOK
  BY TypeInit, TypeStep, PTL DEF Spec

-----------------------------------------------------------------------------
(* Who writes what                                                         *)

\* What a coroutine's own actions leave alone.
LEMMA RunFrame ==
  ASSUME NEW e \in Executors, Run(e)
  PROVE  UNCHANGED <<flag, sched, up, gw>>
  BY DEF Run, Consume, AcquireLock, LoadTask, MarkRunning, CheckCancelled, PauseTask, RecordStep,
     CheckpointConflict, RetryCheckpoint, WriteStep, RenewLock, Heartbeat, CreateHitl, FinishTask,
     Ack, ReleaseLock, redis

\* What recovery leaves alone.
LEMMA RecoverFrame ==
  ASSUME NEW p \in Processes, Recover(p)
  PROVE  UNCHANGED <<steps, ckpt, lock, ttl, flag, ex, gw, holder>>
  BY DEF Recover, ScanPaused, ScanZombies, ScanExpired, PickTask, ResetToPending, PushRecovered,
     PickExpired, FailExpired, FinishScan, db, redis

\* What the use cases leave alone.
LEMMA GatewayFrame ==
  ASSUME NEW c \in Clients, Serve(c) \/ Request(c)
  PROVE  UNCHANGED <<beat, steps, ckpt, lock, ttl, ex, sched, up, lost, holder>>
  BY DEF Serve, Request, CreateTask, EnqueueTask, CommitCancel, SetFlag, ResolveHitl, ResumeTask,
     SendMessage, CancelTask, RespondHitl, db, redis

\* The only actions that write status, beat or agentMsg.
StatusWriter ==
  \/ \E e \in Executors : \/ MarkRunning(e) \/ PauseTask(e)  \/ Heartbeat(e)
                          \/ CreateHitl(e)  \/ FinishTask(e) \/ HandleError(e)
  \/ \E p \in Processes : ResetToPending(p) \/ FailExpired(p)
  \/ \E c \in Clients : CreateTask(c) \/ CommitCancel(c) \/ ResolveHitl(c)
  \/ Tick

\* Every other step leaves the task row and the placeholder alone.
LEMMA StatusFrame ==
  ASSUME [Next]_vars PROVE StatusWriter \/ UNCHANGED <<status, beat, agentMsg>>
<1>. USE DEF StatusWriter, db
<1>1. ASSUME NEW e \in Executors, Run(e)
      PROVE  StatusWriter \/ UNCHANGED <<status, beat, agentMsg>>
  BY <1>1 DEF Run, Consume, AcquireLock, LoadTask, CheckCancelled, RecordStep, CheckpointConflict,
     RetryCheckpoint, WriteStep, RenewLock, Ack, ReleaseLock
<1>2. ASSUME NEW p \in Processes, Recover(p)
      PROVE  StatusWriter \/ UNCHANGED <<status, beat, agentMsg>>
  BY <1>2 DEF Recover, ScanPaused, ScanZombies, ScanExpired, PickTask, PickExpired, PushRecovered,
     FinishScan
<1>3. ASSUME NEW c \in Clients, Serve(c) \/ Request(c)
      PROVE  StatusWriter \/ UNCHANGED <<status, beat, agentMsg>>
  BY <1>3 DEF Serve, Request, EnqueueTask, SetFlag, ResumeTask, SendMessage, CancelTask, RespondHitl
<1>4. CASE Fault
  BY <1>4 DEF Fault, RedisError, Interrupt, AbortScan, Shutdown, Exit, Crash, GatewayCrash,
     FlagExpires, HitlDeadline
<1>. QED  BY <1>1, <1>2, <1>3, <1>4 DEF Next, vars

\* The only actions that write steps or ckpt are the two that end in WriteStep.
LEMMA StepFrame ==
  ASSUME [Next]_vars
  PROVE  \/ \E e \in Executors, ok \in BOOLEAN : /\ ex[e].pc \in {"step", "retry"}
                                                 /\ WriteStep(e, ok)
         \/ UNCHANGED <<steps, ckpt>>
<1>. DEFINE Goal == \/ \E e \in Executors, ok \in BOOLEAN : /\ ex[e].pc \in {"step", "retry"}
                                                            /\ WriteStep(e, ok)
                    \/ UNCHANGED <<steps, ckpt>>
<1>. USE DEF db
<1>1. ASSUME NEW e \in Executors, Run(e) PROVE Goal
  <2>1. CASE RecordStep(e) \/ RetryCheckpoint(e)
    BY <2>1 DEF RecordStep, RetryCheckpoint
  <2>. QED
    BY <1>1, <2>1 DEF Run, Consume, AcquireLock, LoadTask, MarkRunning, CheckCancelled, PauseTask,
       CheckpointConflict, RenewLock, Heartbeat, CreateHitl, FinishTask, Ack, ReleaseLock
<1>2. ASSUME NEW p \in Processes, Recover(p) PROVE UNCHANGED <<steps, ckpt>>
  BY <1>2, RecoverFrame
<1>3. ASSUME NEW c \in Clients, Serve(c) \/ Request(c) PROVE UNCHANGED <<steps, ckpt>>
  BY <1>3, GatewayFrame
<1>4. CASE Fault
  BY <1>4 DEF Fault, HandleError, RedisError, Interrupt, AbortScan, Shutdown, Exit, Crash,
     GatewayCrash, FlagExpires, HitlDeadline, Tick
<1>. QED  BY <1>1, <1>2, <1>3, <1>4 DEF Next, vars

-----------------------------------------------------------------------------
(* Rows that agree                                                         *)

\* The writers of RUNNING write a heartbeat, and recovery clears it with the status.
LEMMA HeartbeatStep == TypeOK /\ RunningHasHeartbeat /\ [Next]_vars => RunningHasHeartbeat'
<1>. SUFFICES ASSUME TypeOK, RunningHasHeartbeat, [Next]_vars PROVE RunningHasHeartbeat'
  OBVIOUS
<1>. USE DEF RunningHasHeartbeat, TypeOK, DbType
<1>1. ASSUME NEW e \in Executors, MarkRunning(e) \/ Heartbeat(e) PROVE RunningHasHeartbeat'
  <2>1. /\ status' = [status EXCEPT ![ex[e].task] = "RUNNING"]
        /\ beat' = [beat EXCEPT ![ex[e].task] = 0]
    BY <1>1 DEF MarkRunning, Heartbeat
  <2>2. 0 # NoBeat  BY DEF NoBeat
  <2>. QED  BY <2>1, <2>2
<1>2. ASSUME NEW e \in Executors, PauseTask(e) \/ CreateHitl(e) \/ FinishTask(e) \/ HandleError(e)
      PROVE  RunningHasHeartbeat'
  BY <1>2 DEF PauseTask, CreateHitl, FinishTask, HandleError
<1>3. ASSUME NEW p \in Processes, ResetToPending(p) \/ FailExpired(p) PROVE RunningHasHeartbeat'
  BY <1>3 DEF ResetToPending, FailExpired
<1>4. ASSUME NEW c \in Clients, CreateTask(c) \/ CommitCancel(c) \/ ResolveHitl(c)
      PROVE  RunningHasHeartbeat'
  BY <1>4 DEF CreateTask, CommitCancel, ResolveHitl
<1>5. CASE Tick  BY <1>5 DEF Tick, NoBeat
<1>6. CASE UNCHANGED <<status, beat, agentMsg>>  BY <1>6
<1>. QED  BY <1>1, <1>2, <1>3, <1>4, <1>5, <1>6, StatusFrame DEF StatusWriter

\* A RUNNING row always has a heartbeat the zombie scan can compare.
THEOREM RunningHeartbeat == Spec => []RunningHasHeartbeat
<1>1. Init => RunningHasHeartbeat  BY DEF Init, RunningHasHeartbeat
<1>. QED  BY <1>1, TypeCorrect, HeartbeatStep, PTL DEF Spec

\* The writers of a terminal status write the placeholder in the same transaction.
LEMMA MessageStep == TypeOK /\ MessageAgrees /\ [Next]_vars => MessageAgrees'
<1>. SUFFICES ASSUME TypeOK, MessageAgrees, [Next]_vars PROVE MessageAgrees'
  OBVIOUS
<1>. USE DEF MessageAgrees, TypeOK, DbType
<1>1. ASSUME NEW e \in Executors, MarkRunning(e) \/ Heartbeat(e) \/ PauseTask(e) \/ CreateHitl(e)
      PROVE  MessageAgrees'
  BY <1>1 DEF MarkRunning, Heartbeat, PauseTask, CreateHitl
<1>2. ASSUME NEW e \in Executors, FinishTask(e) \/ HandleError(e) PROVE MessageAgrees'
  BY <1>2 DEF FinishTask, HandleError
<1>3. ASSUME NEW p \in Processes, ResetToPending(p) \/ FailExpired(p) PROVE MessageAgrees'
  BY <1>3 DEF ResetToPending, FailExpired
<1>4. ASSUME NEW c \in Clients, CreateTask(c) \/ CommitCancel(c) \/ ResolveHitl(c)
      PROVE  MessageAgrees'
  BY <1>4 DEF CreateTask, CommitCancel, ResolveHitl
<1>5. CASE Tick  BY <1>5 DEF Tick
<1>6. CASE UNCHANGED <<status, beat, agentMsg>>  BY <1>6
<1>. QED  BY <1>1, <1>2, <1>3, <1>4, <1>5, <1>6, StatusFrame DEF StatusWriter

\* Task row and placeholder message agree about the end of a task.
THEOREM MessagesAgree == Spec => []MessageAgrees
<1>1. Init => MessageAgrees  BY DEF Init, MessageAgrees
<1>. QED  BY <1>1, TypeCorrect, MessageStep, PTL DEF Spec

-----------------------------------------------------------------------------
(* The progress a coroutine has, from one state to the next                *)

\* A coroutine that has won the lock of its task and not yet left process_task.
PastLock(e) == ex[e].pc \notin {"idle", "lock"}

\* One step of process_task further, on the same task and at the same position.
Advances(f) ==
  /\ ex'[f].task = ex[f].task /\ ex'[f].last = ex[f].last /\ ex'[f].late = ex[f].late
  /\ \/ <<ex[f].pc, ex'[f].pc>> \in {<<"lock", "load">>, <<"load", "start">>, <<"start", "check">>,
                                     <<"step", "retry">>, <<"renew", "beat">>,
                                     <<"beat", "hitl">>, <<"beat", "check">>}
     \/ /\ ex[f].pc = "check" /\ ~flag[ex[f].task]
        /\ ex'[f].pc \in {"commit", "pause", "step"}
        /\ ex[f].task \in Mocked =>
             /\ ex'[f].pc = "commit" => ex[f].last >= PlanLen[ex[f].task]
             /\ ex'[f].pc = "step" => ex'[f].next = ex[f].last + 1
  /\ ex[f].pc = "lock" => AcquireLock(f)
  /\ ex'[f].pc = "retry" => ex'[f].next = ex[f].next
  /\ ex'[f].pc = "check" => beat'[ex[f].task] = 0

\* Past the last use of its position.
Leaves(f) ==
  /\ PastLock(f) /\ ex'[f].pc \in Leaving
  /\ ex'[f].task = ex[f].task /\ ex'[f].last = 0 /\ ex'[f].late = 0

\* All a coroutine can do in one step of the system.
Moves(f) ==
  \/ ex'[f] = ex[f]
  \/ ex'[f] = IdleEx
  \/ Consume(f)
  \/ /\ ex[f].pc \in {"step", "retry"}
     /\ \E ok \in BOOLEAN : WriteStep(f, ok)
  \/ Advances(f)
  \/ Leaves(f)

\* Goto, Leave and becoming idle, seen from every coroutine f.
LEMMA GotoMoves ==
  ASSUME ExType, NEW e \in Executors, NEW pc, Goto(e, pc), NEW f \in Executors
  PROVE  IF f = e
         THEN /\ ex'[f].pc = pc /\ ex'[f].task = ex[f].task
              /\ ex'[f].last = ex[f].last /\ ex'[f].late = ex[f].late
         ELSE ex'[f] = ex[f]
  BY DEF Goto, ExType, ExecutorState

\* Leave, seen from every coroutine f.
LEMMA LeaveMoves ==
  ASSUME ExType, NEW e \in Executors, NEW pc \in Leaving, Leave(e, pc), PastLock(e),
         NEW f \in Executors
  PROVE  Moves(f)
<1>1. CASE f = e
  <2>1. ex'[e] = [IdleEx EXCEPT !.pc = pc, !.task = ex[e].task]  BY DEF Leave, ExType
  <2>2. ex'[e].pc = pc /\ ex'[e].task = ex[e].task /\ ex'[e].last = 0 /\ ex'[e].late = 0
    BY <2>1 DEF IdleEx
  <2>. QED  BY <1>1, <2>2 DEF Moves, Leaves
<1>2. CASE f # e  BY <1>2 DEF Moves, Leave, ExType
<1>. QED  BY <1>1, <1>2

\* Becoming idle, seen from every coroutine f.
LEMMA IdleMoves ==
  ASSUME ExType, NEW e \in Executors, ex' = [ex EXCEPT ![e] = IdleEx], NEW f \in Executors
  PROVE  Moves(f)
  BY DEF Moves, ExType

\* A coroutine moves in one of these ways whatever the step of the system is.
LEMMA ExecutorMoves ==
  ASSUME TypeOK, [Next]_vars, NEW f \in Executors
  PROVE  Moves(f)
<1>. USE DEF TypeOK
<1>1. ASSUME NEW e \in Executors, Run(e) PROVE Moves(f)
  <2>1. CASE Consume(e)  BY <2>1 DEF Consume, Moves, ExType
  <2>2. CASE AcquireLock(e)
    BY <2>2, GotoMoves, IdleMoves DEF AcquireLock, Moves, Advances
  <2>3. CASE LoadTask(e)
    <3>1. CASE ex' = [ex EXCEPT ![e].pc = "start", ![e].ver = ckpt[ex[e].task].version]
      <4>1. CASE f = e  BY <2>3, <3>1, <4>1 DEF LoadTask, Moves, Advances, ExType, ExecutorState
      <4>2. CASE f # e  BY <3>1, <4>2 DEF Moves, ExType
      <4>. QED  BY <4>1, <4>2
    <3>. QED  BY <2>3, <3>1, LeaveMoves DEF LoadTask, DropIfFlagged, Leaving, PastLock
  <2>4. CASE MarkRunning(e)
    <3>1. ex[e].task \in Tasks /\ beat'[ex[e].task] = 0
      BY <2>4 DEF MarkRunning, ExType, DbType
    <3>. QED  BY <2>4, <3>1, GotoMoves DEF MarkRunning, Moves, Advances
  <2>5. CASE CheckCancelled(e)
    <3>1. CASE Leave(e, "release")  BY <2>5, <3>1, LeaveMoves DEF CheckCancelled, Leaving, PastLock
    <3>2. ASSUME ~flag[ex[e].task], NEW pc \in {"pause", "step"}, Yield(e, pc) PROVE Moves(f)
      <4>1. PICK y \in Yields(e) :
              ex' = [ex EXCEPT ![e].pc = pc, ![e].next = y.index, ![e].over = y.over]
        BY <3>2 DEF Yield
      <4>2. CASE f = e
        <5>1. /\ ex'[e].pc = pc /\ ex'[e].task = ex[e].task /\ ex'[e].last = ex[e].last
              /\ ex'[e].late = ex[e].late /\ ex'[e].next = y.index
          BY <4>1 DEF ExType, ExecutorState
        <5>2. ex[e].task \in Mocked => ex'[e].next = ex[e].last + 1  BY <5>1, Yielded
        <5>. QED  BY <2>5, <3>2, <4>2, <5>1, <5>2 DEF CheckCancelled, Moves, Advances
      <4>3. CASE f # e  BY <4>1, <4>3 DEF Moves, ExType
      <4>. QED  BY <4>2, <4>3
    <3>3. CASE ~flag[ex[e].task] /\ Ends(e) /\ Goto(e, "commit")
      BY <2>5, <3>3, GotoMoves DEF CheckCancelled, Moves, Advances, Ends
    <3>. QED  BY <2>5, <3>1, <3>2, <3>3 DEF CheckCancelled, DropIfFlagged
  <2>6. CASE PauseTask(e)  BY <2>6, LeaveMoves DEF PauseTask, Leaving, PastLock
  <2>7. ASSUME NEW ok \in BOOLEAN, ex[e].pc \in {"step", "retry"}, WriteStep(e, ok) PROVE Moves(f)
    <3>1. CASE f = e  BY <2>7, <3>1 DEF Moves
    <3>2. CASE f # e
      <4>1. ex'[f] = ex[f]  BY <2>7, <3>2 DEF WriteStep, ExType
      <4>. QED  BY <4>1 DEF Moves
    <3>. QED  BY <3>1, <3>2
  <2>8. CASE RecordStep(e)  BY <2>7, <2>8 DEF RecordStep
  <2>9. CASE CheckpointConflict(e)
    <3>1. CASE f = e  BY <2>9, <3>1 DEF CheckpointConflict, Moves, Advances, ExType, ExecutorState
    <3>2. CASE f # e  BY <2>9, <3>2 DEF CheckpointConflict, Moves, ExType
    <3>. QED  BY <3>1, <3>2
  <2>10. CASE RetryCheckpoint(e)  BY <2>7, <2>10 DEF RetryCheckpoint
  <2>11. CASE RenewLock(e)  BY <2>11, GotoMoves DEF RenewLock, Moves, Advances
  <2>12. CASE Heartbeat(e)
    <3>1. PICK pc \in {"hitl", "check"} : Goto(e, pc)  BY <2>12 DEF Heartbeat
    <3>2. ex[e].task \in Tasks /\ beat'[ex[e].task] = 0
      BY <2>12 DEF Heartbeat, ExType, DbType
    <3>. QED  BY <2>12, <3>1, <3>2, GotoMoves DEF Heartbeat, Moves, Advances
  <2>13. CASE CreateHitl(e)  BY <2>13, LeaveMoves DEF CreateHitl, Leaving, PastLock
  <2>14. CASE FinishTask(e)  BY <2>14, LeaveMoves DEF FinishTask, Leaving, PastLock
  <2>15. CASE Ack(e)  BY <2>15, LeaveMoves DEF Ack, Leaving, PastLock
  <2>16. CASE ReleaseLock(e)  BY <2>16, IdleMoves DEF ReleaseLock
  <2>. QED  BY <1>1, <2>1, <2>2, <2>3, <2>4, <2>5, <2>6, <2>8, <2>9, <2>10, <2>11, <2>12, <2>13,
               <2>14, <2>15, <2>16 DEF Run
<1>2. ASSUME NEW p \in Processes, Recover(p) PROVE Moves(f)
  BY <1>2 DEF Moves, Recover, ScanPaused, ScanZombies, ScanExpired, PickTask, ResetToPending,
     PickExpired, PushRecovered, FailExpired, FinishScan
<1>3. ASSUME NEW c \in Clients, Serve(c) \/ Request(c) PROVE Moves(f)
  BY <1>3 DEF Moves, Serve, Request, CreateTask, EnqueueTask, CommitCancel, SetFlag, ResolveHitl,
     ResumeTask, SendMessage, CancelTask, RespondHitl
<1>4. CASE Fault
  <2>1. ASSUME NEW e \in Executors, HandleError(e) \/ RedisError(e) \/ Interrupt(e) PROVE Moves(f)
    BY <2>1, LeaveMoves, IdleMoves
       DEF HandleError, RedisError, Interrupt, InTry, Working, Leaving, PastLock
  <2>2. ASSUME NEW p \in Processes, AbortScan(p) \/ Shutdown(p) \/ Exit(p) PROVE Moves(f)
    BY <2>2 DEF Moves, AbortScan, Shutdown, Exit
  <2>3. ASSUME NEW p \in Processes, Crash(p) PROVE Moves(f)
    BY <2>3 DEF Moves, Crash
  <2>4. CASE \E c \in Clients : GatewayCrash(c)  BY <2>4 DEF Moves, GatewayCrash
  <2>5. CASE \E t \in Tasks : FlagExpires(t) \/ \E k \in DOMAIN hitl[t] : HitlDeadline(t, k)
    BY <2>5 DEF Moves, FlagExpires, HitlDeadline
  <2>6. CASE Tick  BY <2>6 DEF Moves, Tick
  <2>. QED  BY <1>4, <2>1, <2>2, <2>3, <2>4, <2>5, <2>6 DEF Fault
<1>5. CASE UNCHANGED vars  BY <1>5 DEF Moves, vars
<1>. QED  BY <1>1, <1>2, <1>3, <1>4, <1>5 DEF Next

-----------------------------------------------------------------------------
(* No resumption skips a step                                              *)

\* The steps that have to be recorded for position n of task t.
Needs(t, n) == IF t \in Mocked THEN 1..n ELSE {n} \ {0}

LEMMA NeedsFacts ==
  ASSUME NEW t, NEW n
  PROVE  /\ Backed(t, n) <=> Needs(t, n) \subseteq steps[t]
         /\ Needs(t, 0) = {}
         /\ n \in Nat /\ n # 0 => n \in Needs(t, n)
         /\ n \in Nat => Needs(t, n + 1) \subseteq Needs(t, n) \cup {n + 1}
         /\ t \notin Mocked => Needs(t, n) \subseteq {n}
         /\ t \in Mocked => Needs(t, n) = 1..n
<1>1. Backed(t, n) <=> Needs(t, n) \subseteq steps[t]  BY DEF Backed, Needs
<1>2. CASE t \in Mocked
  <2>1. Needs(t, 0) = 1..0 /\ Needs(t, n) = 1..n /\ Needs(t, n + 1) = 1..(n + 1)  BY <1>2 DEF Needs
  <2>. QED  BY <1>1, <1>2, <2>1
<1>3. CASE t \notin Mocked
  <2>1. Needs(t, 0) = {0} \ {0} /\ Needs(t, n) = {n} \ {0} /\ Needs(t, n + 1) = {n + 1} \ {0}
    BY <1>3 DEF Needs
  <2>. QED  BY <1>1, <1>3, <2>1
<1>. QED  BY <1>2, <1>3

\* The step a coroutine is about to write follows its position, when the steps are those of a file.
NextFits ==
  \A e \in Executors :
    ex[e].pc \in {"step", "retry"} /\ ex[e].task \in Mocked => ex[e].next = ex[e].last + 1

\* It was yielded at that position, which has not changed since.
LEMMA NextFitsStep == TypeOK /\ NextFits /\ [Next]_vars => NextFits'
<1>. SUFFICES ASSUME TypeOK, NextFits, [Next]_vars, NEW e \in Executors,
                     ex'[e].pc \in {"step", "retry"}, ex'[e].task \in Mocked
              PROVE  ex'[e].next = ex'[e].last + 1
  BY DEF NextFits
<1>1. CASE ex'[e] = ex[e]  BY <1>1 DEF NextFits
<1>2. CASE Consume(e)  BY <1>2 DEF Consume, TypeOK, ExType, IdleEx
<1>3. ASSUME NEW ok \in BOOLEAN, WriteStep(e, ok) PROVE FALSE
  BY <1>3 DEF WriteStep, TypeOK, ExType, ExecutorState
<1>4. CASE Advances(e)
  <2>1. ex'[e].task = ex[e].task /\ ex'[e].last = ex[e].last  BY <1>4 DEF Advances
  <2>2. CASE ex'[e].pc = "step"  BY <1>4, <2>1, <2>2 DEF Advances
  <2>3. CASE ex'[e].pc = "retry"
    <3>1. ex[e].pc = "step" /\ ex'[e].next = ex[e].next  BY <1>4, <2>3 DEF Advances
    <3>. QED  BY <2>1, <3>1 DEF NextFits
  <2>. QED  BY <2>2, <2>3
<1>. QED  BY <1>1, <1>2, <1>3, <1>4, ExecutorMoves DEF Moves, Leaves, Leaving, IdleEx

LEMMA PositionsFit == Spec => []NextFits
<1>1. Init => NextFits  BY DEF Init, NextFits, IdleEx
<1>. QED  BY <1>1, TypeCorrect, NextFitsStep, PTL DEF Spec

\* Recorded steps stay: what is backed stays backed.
LEMMA BackedStays ==
  ASSUME TypeOK, [Next]_vars, NEW t \in Tasks, NEW n, Backed(t, n)
  PROVE  Needs(t, n) \subseteq steps'[t]
<1>1. steps[t] \subseteq steps'[t]
  <2>1. ASSUME NEW e \in Executors, NEW ok \in BOOLEAN, WriteStep(e, ok)
        PROVE  steps[t] \subseteq steps'[t]
    BY <2>1 DEF WriteStep, TypeOK, DbType
  <2>2. CASE UNCHANGED <<steps, ckpt>>  BY <2>2
  <2>. QED  BY <2>1, <2>2, StepFrame
<1>. QED  BY <1>1, NeedsFacts

\* The step that is written backs the position it leads to.
LEMMA BackedWrite ==
  ASSUME TypeOK, NextFits, [Next]_vars, NEW e \in Executors, NEW ok \in BOOLEAN,
         ex[e].pc \in {"step", "retry"}, WriteStep(e, ok),
         Backed(ex[e].task, ex[e].last)
  PROVE  /\ ex'[e].task = ex[e].task /\ ex'[e].last = ex[e].next
         /\ Needs(ex[e].task, ex[e].next) \subseteq steps'[ex[e].task]
<1>1. ex[e].task \in Tasks /\ ex[e].last \in Nat /\ ex[e].next \in Nat
  BY DEF TypeOK, ExType, ExecutorState
<1>2. ex'[e].task = ex[e].task /\ ex'[e].last = ex[e].next
  BY DEF WriteStep, TypeOK, ExType, ExecutorState
<1>3. steps'[ex[e].task] = steps[ex[e].task] \cup {ex[e].next}
  BY <1>1 DEF WriteStep, TypeOK, DbType
<1>. DEFINE t == ex[e].task
            n == ex[e].last
<1>4. Needs(t, ex[e].next) \subseteq steps[t] \cup {ex[e].next}
  <2>1. CASE t \in Mocked
    <3>1. ex[e].next = n + 1  BY <2>1 DEF NextFits
    <3>2. Needs(t, n + 1) \subseteq Needs(t, n) \cup {n + 1}  BY <1>1, NeedsFacts
    <3>3. Needs(t, n) \subseteq steps[t]  BY NeedsFacts
    <3>. QED  BY <3>1, <3>2, <3>3
  <2>2. CASE t \notin Mocked  BY <2>2, NeedsFacts
  <2>. QED  BY <2>1, <2>2
<1>. QED  BY <1>2, <1>3, <1>4

BackedCkpt   == \A t \in Tasks : Backed(t, ckpt[t].step)
BackedStream == \A i \in DOMAIN stream : Backed(stream[i].task, stream[i].resume)
BackedEx     == \A e \in Executors : ex[e].pc # "idle" => Backed(ex[e].task, ex[e].last)
BackedSched  == \A p \in Processes : sched[p].pc \in {"reset", "push"} =>
                   Backed(sched[p].task, sched[p].resume)

\* ResumeIsBacked by the four places a position is kept in.
LEMMA BackedParts == ResumeIsBacked <=> BackedCkpt /\ BackedStream /\ BackedEx /\ BackedSched
  BY DEF ResumeIsBacked, BackedCkpt, BackedStream, BackedEx, BackedSched

\* The checkpoint only moves to the step of the same transaction.
LEMMA CkptStep == TypeOK /\ NextFits /\ ResumeIsBacked /\ [Next]_vars => BackedCkpt'
<1>. SUFFICES ASSUME TypeOK, NextFits, ResumeIsBacked, [Next]_vars, NEW t \in Tasks
              PROVE  Needs(t, ckpt'[t].step) \subseteq steps'[t]
  BY DEF BackedCkpt, Backed, Needs
<1>1. Backed(t, ckpt[t].step)  BY BackedParts DEF BackedCkpt
<1>2. CASE ckpt'[t] = ckpt[t]  BY <1>1, <1>2, BackedStays
<1>3. CASE ckpt'[t] # ckpt[t]
  <2>1. PICK e \in Executors, ok \in BOOLEAN : ex[e].pc \in {"step", "retry"} /\ WriteStep(e, ok)
    BY <1>3, StepFrame
  <2>2. ex[e].task = t /\ ckpt'[t].step = ex[e].next
    BY <1>3, <2>1 DEF WriteStep, TypeOK, DbType
  <2>3. Backed(ex[e].task, ex[e].last)  BY <2>1, BackedParts DEF BackedEx
  <2>. QED  BY <2>1, <2>2, <2>3, BackedWrite
<1>. QED  BY <1>2, <1>3

\* A coroutine starts at the position of its message and goes on step by step.
LEMMA ExBackedStep == TypeOK /\ NextFits /\ ResumeIsBacked /\ [Next]_vars => BackedEx'
<1>. SUFFICES ASSUME TypeOK, NextFits, ResumeIsBacked, [Next]_vars, NEW e \in Executors,
                     ex'[e].pc # "idle"
              PROVE  Needs(ex'[e].task, ex'[e].last) \subseteq steps'[ex'[e].task]
  BY DEF BackedEx, Backed, Needs
<1>1. ex[e].pc # "idle" => ex[e].task \in Tasks /\ Backed(ex[e].task, ex[e].last)
  BY BackedParts DEF BackedEx, TypeOK, ExType
<1>2. ex[e].pc # "idle" => Needs(ex[e].task, ex[e].last) \subseteq steps'[ex[e].task]
  BY <1>1, BackedStays
<1>3. CASE ex'[e] = ex[e]  BY <1>2, <1>3
<1>4. CASE Consume(e)
  <2>1. Head(stream) = stream[1] /\ 1 \in DOMAIN stream /\ stream[1] \in Message
    BY <1>4 DEF Consume, TypeOK, RedisType
  <2>2. ex'[e].task = stream[1].task /\ ex'[e].last = stream[1].resume
    BY <1>4, <2>1 DEF Consume, TypeOK, ExType, IdleEx
  <2>3. stream[1].task \in Tasks /\ Backed(stream[1].task, stream[1].resume)
    BY <2>1, BackedParts DEF BackedStream, Message
  <2>. QED  BY <2>2, <2>3, BackedStays
<1>5. CASE ex[e].pc \in {"step", "retry"} /\ \E ok \in BOOLEAN : WriteStep(e, ok)
  <2>1. Backed(ex[e].task, ex[e].last)  BY <1>5, <1>1
  <2>. QED  BY <1>5, <2>1, BackedWrite
<1>6. CASE Advances(e)  BY <1>2, <1>6 DEF Advances
<1>7. CASE Leaves(e)
  <2>1. Needs(ex'[e].task, 0) = {}  BY NeedsFacts
  <2>. QED  BY <1>7, <2>1 DEF Leaves
<1>8. ex'[e] # IdleEx  BY DEF IdleEx
<1>. QED  BY <1>3, <1>4, <1>5, <1>6, <1>7, <1>8, ExecutorMoves DEF Moves

\* Every message of the stream was there before, or was sent by a resumption, by a recovery,
\* or with a new task.
LEMMA StreamFrame ==
  ASSUME [Next]_vars
  PROVE  \/ UNCHANGED stream
         \/ stream' = Tail(stream) /\ stream # <<>> /\ \E e \in Executors : Consume(e)
         \/ \E c \in Clients : gw[c].pc = "enqueue" /\ Push(gw[c].task, 0)
         \/ \E c \in Clients : gw[c].pc = "resume" /\ Push(gw[c].task, ckpt[gw[c].task].step)
         \/ \E p \in Processes : sched[p].pc = "push" /\ Push(sched[p].task, sched[p].resume)
<1>. USE DEF redis
<1>1. ASSUME NEW e \in Executors, Run(e)
      PROVE  UNCHANGED stream \/ (stream' = Tail(stream) /\ stream # <<>> /\ Consume(e))
  BY <1>1 DEF Run, Consume, AcquireLock, LoadTask, MarkRunning, CheckCancelled, PauseTask,
     RecordStep, CheckpointConflict, RetryCheckpoint, WriteStep, RenewLock, Heartbeat, CreateHitl,
     FinishTask, Ack, ReleaseLock
<1>2. ASSUME NEW p \in Processes, Recover(p)
      PROVE  UNCHANGED stream \/ (sched[p].pc = "push" /\ Push(sched[p].task, sched[p].resume))
  BY <1>2 DEF Recover, ScanPaused, ScanZombies, ScanExpired, PickTask, ResetToPending, PickExpired,
     PushRecovered, FailExpired, FinishScan
<1>3. ASSUME NEW c \in Clients, Serve(c) \/ Request(c)
      PROVE  \/ UNCHANGED stream
             \/ gw[c].pc = "enqueue" /\ Push(gw[c].task, 0)
             \/ gw[c].pc = "resume" /\ Push(gw[c].task, ckpt[gw[c].task].step)
  BY <1>3 DEF Serve, Request, CreateTask, EnqueueTask, CommitCancel, SetFlag, ResolveHitl,
     ResumeTask, SendMessage, CancelTask, RespondHitl
<1>4. CASE Fault
  BY <1>4 DEF Fault, HandleError, RedisError, Interrupt, AbortScan, Shutdown, Exit, Crash,
     GatewayCrash, FlagExpires, HitlDeadline, Tick
<1>. QED  BY <1>1, <1>2, <1>3, <1>4 DEF Next, vars

\* What holds of every message still holds of the messages of a tail or of a stream with one
\* more.
LEMMA BackedTail ==
  ASSUME TypeOK, stream # <<>>, NEW i \in DOMAIN Tail(stream)
  PROVE  \E j \in DOMAIN stream : Tail(stream)[i] = stream[j]
<1>1. stream \in Seq(Message)  BY DEF TypeOK, RedisType
<1>2. /\ Len(stream) \in Nat /\ Len(stream) # 0 /\ DOMAIN stream = 1..Len(stream)
      /\ DOMAIN Tail(stream) = 1..(Len(stream) - 1)
      /\ Tail(stream)[i] = stream[i + 1]
  BY <1>1
<1>3. i + 1 \in DOMAIN stream  BY <1>2
<1>. QED  BY <1>2, <1>3

\* A message of the stream with one more is an old one or the new one.
LEMMA BackedPush ==
  ASSUME TypeOK, NEW t \in Tasks, NEW n \in Nat, Push(t, n), NEW i \in DOMAIN stream'
  PROVE  \/ i \in DOMAIN stream /\ stream'[i] = stream[i]
         \/ stream'[i].task = t /\ stream'[i].resume = n
<1>1. stream \in Seq(Message)  BY DEF TypeOK, RedisType
<1>. DEFINE m == [task |-> t, resume |-> n]
<1>2. m \in Message /\ m.task = t /\ m.resume = n  BY DEF Message
<1>3. stream' = Append(stream, m)  BY DEF Push
<1>. HIDE DEF m
<1>4. /\ Len(stream) \in Nat /\ DOMAIN stream = 1..Len(stream)
      /\ DOMAIN stream' = 1..(Len(stream) + 1)
      /\ \A j \in 1..Len(stream) : stream'[j] = stream[j]
      /\ stream'[Len(stream) + 1] = m
  BY <1>1, <1>2, <1>3, AppendProperties
<1>5. i \in 1..Len(stream) \/ i = Len(stream) + 1  BY <1>4
<1>. QED  BY <1>2, <1>4, <1>5

\* A message carries 0, the checkpoint's step or the position a scan has read.
LEMMA StreamBackedStep == TypeOK /\ ResumeIsBacked /\ [Next]_vars => BackedStream'
<1>. SUFFICES ASSUME TypeOK, ResumeIsBacked, [Next]_vars, NEW i \in DOMAIN stream'
              PROVE  Needs(stream'[i].task, stream'[i].resume) \subseteq steps'[stream'[i].task]
  BY DEF BackedStream, Backed, Needs
<1>1. ASSUME NEW j \in DOMAIN stream
      PROVE  Needs(stream[j].task, stream[j].resume) \subseteq steps'[stream[j].task]
  <2>1. stream[j] \in Message  BY DEF TypeOK, RedisType
  <2>2. stream[j].task \in Tasks /\ Backed(stream[j].task, stream[j].resume)
    BY <2>1, BackedParts DEF Message, BackedStream
  <2>. QED  BY <2>2, BackedStays
<1>2. CASE UNCHANGED stream  BY <1>1, <1>2
<1>3. CASE stream' = Tail(stream) /\ stream # <<>>  BY <1>1, <1>3, BackedTail
<1>4. ASSUME NEW c \in Clients, gw[c].pc = "enqueue", Push(gw[c].task, 0)
      PROVE  Needs(stream'[i].task, stream'[i].resume) \subseteq steps'[stream'[i].task]
  <2>1. gw[c].task \in Tasks  BY <1>4 DEF TypeOK, GwType
  <2>2. Needs(gw[c].task, 0) = {}  BY NeedsFacts
  <2>. QED  BY <1>1, <1>4, <2>1, <2>2, BackedPush
<1>5. ASSUME NEW c \in Clients, gw[c].pc = "resume", Push(gw[c].task, ckpt[gw[c].task].step)
      PROVE  Needs(stream'[i].task, stream'[i].resume) \subseteq steps'[stream'[i].task]
  <2>. DEFINE t == gw[c].task
              n == ckpt[t].step
  <2>1. t \in Tasks /\ n \in Nat  BY <1>5 DEF TypeOK, GwType, DbType
  <2>2. Needs(t, n) \subseteq steps'[t]  BY <2>1, BackedParts, BackedStays DEF BackedCkpt
  <2>. QED  BY <1>1, <1>5, <2>1, <2>2, BackedPush
<1>6. ASSUME NEW p \in Processes, sched[p].pc = "push", Push(sched[p].task, sched[p].resume)
      PROVE  Needs(stream'[i].task, stream'[i].resume) \subseteq steps'[stream'[i].task]
  <2>. DEFINE t == sched[p].task
              n == sched[p].resume
  <2>1. t \in Tasks /\ n \in Nat  BY <1>6 DEF TypeOK, SchedType, SchedState
  <2>2. Needs(t, n) \subseteq steps'[t]  BY <1>6, <2>1, BackedParts, BackedStays DEF BackedSched
  <2>. QED  BY <1>1, <1>6, <2>1, <2>2, BackedPush
<1>. QED  BY <1>2, <1>3, <1>4, <1>5, <1>6, StreamFrame

\* The position a scan has read is the checkpoint's, or the one it had before.
LEMMA SchedFrame ==
  ASSUME TypeOK, [Next]_vars, NEW q \in Processes, sched'[q].pc \in {"reset", "push"}
  PROVE  \/ /\ sched[q].pc \in {"reset", "push"}
            /\ sched'[q].task = sched[q].task /\ sched'[q].resume = sched[q].resume
         \/ /\ sched'[q].task \in Tasks
            /\ sched'[q].resume = ckpt[sched'[q].task].step
<1>. USE DEF TypeOK
<1>1. CASE sched'[q] = sched[q]  BY <1>1
<1>2. ASSUME NEW p \in Processes, NEW item \in sched[p].todo, PickTask(p, item)
      PROVE  \/ sched'[q] = sched[q]
             \/ /\ sched'[q].task \in Tasks
                /\ sched'[q].resume = ckpt[sched'[q].task].step
  <2>1. item[1] \in Tasks  BY DEF SchedType, SchedState, Items
  <2>2. CASE q = p
    <3>1. sched[p] \in SchedState /\ sched[p].pc = "list"  BY <1>2 DEF PickTask, SchedType
    <3>2. sched'[p].pc = "reset" => sched'[p].task = item[1] /\ sched'[p].resume = ckpt[item[1]].step
      BY <1>2, <3>1 DEF PickTask, SchedType, SchedState
    <3>3. sched'[p].pc # "push"  BY <1>2, <3>1 DEF PickTask, SchedType, SchedState
    <3>. QED  BY <2>1, <2>2, <3>2, <3>3
  <2>3. CASE q # p  BY <1>2, <2>3 DEF PickTask, SchedType
  <2>. QED  BY <2>2, <2>3
<1>3. ASSUME NEW p \in Processes, ResetToPending(p)
      PROVE  /\ sched[q].pc \in {"reset", "push"}
             /\ sched'[q].task = sched[q].task /\ sched'[q].resume = sched[q].resume
  BY <1>3 DEF ResetToPending, SchedType, SchedState
<1>4. ASSUME NEW p \in Processes, ScanPaused(p) \/ ScanZombies(p) \/ ScanExpired(p)
      PROVE  sched'[q] = sched[q]
  BY <1>4 DEF ScanPaused, ScanZombies, ScanExpired, Scan, SchedType, IdleSched
<1>5. ASSUME NEW p \in Processes, NEW item, PickExpired(p, item) PROVE sched'[q] = sched[q]
  BY <1>5 DEF PickExpired, SchedType, SchedState
<1>6. ASSUME NEW p \in Processes, PushRecovered(p) \/ FailExpired(p) PROVE sched'[q] = sched[q]
  BY <1>6 DEF PushRecovered, FailExpired, SchedType, SchedState
<1>7. ASSUME NEW p \in Processes, FinishScan(p) \/ AbortScan(p) \/ Exit(p) \/ Crash(p)
      PROVE  sched'[q] = sched[q]
  BY <1>7 DEF FinishScan, AbortScan, Exit, Crash, EndScan, IdleSched, SchedType
<1>8. ASSUME NEW p \in Processes, Recover(p) PROVE
        \/ sched'[q] = sched[q]
        \/ /\ sched[q].pc \in {"reset", "push"}
           /\ sched'[q].task = sched[q].task /\ sched'[q].resume = sched[q].resume
        \/ /\ sched'[q].task \in Tasks
           /\ sched'[q].resume = ckpt[sched'[q].task].step
  BY <1>8, <1>2, <1>3, <1>4, <1>5, <1>6, <1>7 DEF Recover
<1>9. ASSUME NEW e \in Executors, Run(e) PROVE UNCHANGED sched
  BY <1>9, RunFrame
<1>10. ASSUME NEW c \in Clients, Serve(c) \/ Request(c) PROVE UNCHANGED sched
  BY <1>10, GatewayFrame
<1>11. CASE Fault
  <2>1. sched'[q] = sched[q] \/ UNCHANGED sched
    BY <1>7, <1>11 DEF Fault, HandleError, RedisError, Interrupt, Shutdown, GatewayCrash,
       FlagExpires, HitlDeadline, Tick
  <2>. QED  BY <1>1, <2>1
<1>. QED  BY <1>1, <1>8, <1>9, <1>10, <1>11 DEF Next, vars

\* What a scan has read from the checkpoint stays backed until it is sent.
LEMMA SchedBackedStep == TypeOK /\ ResumeIsBacked /\ [Next]_vars => BackedSched'
<1>. SUFFICES ASSUME TypeOK, ResumeIsBacked, [Next]_vars, NEW p \in Processes,
                     sched'[p].pc \in {"reset", "push"}
              PROVE  Needs(sched'[p].task, sched'[p].resume) \subseteq steps'[sched'[p].task]
  BY DEF BackedSched, Backed, Needs
<1>1. CASE /\ sched[p].pc \in {"reset", "push"}
           /\ sched'[p].task = sched[p].task /\ sched'[p].resume = sched[p].resume
  <2>1. sched[p].task \in Tasks /\ Backed(sched[p].task, sched[p].resume)
    BY <1>1, BackedParts DEF BackedSched, TypeOK, SchedType
  <2>. QED  BY <1>1, <2>1, BackedStays
<1>2. CASE sched'[p].task \in Tasks /\ sched'[p].resume = ckpt[sched'[p].task].step
  <2>. DEFINE t == sched'[p].task
  <2>1. Backed(t, ckpt[t].step)  BY <1>2, BackedParts DEF BackedCkpt
  <2>. QED  BY <1>2, <2>1, BackedStays
<1>. QED  BY <1>1, <1>2, SchedFrame

\* ResumeIsBacked is inductive, the four parts together.
LEMMA ResumeStep == TypeOK /\ NextFits /\ ResumeIsBacked /\ [Next]_vars => ResumeIsBacked'
<1>1. (BackedCkpt /\ BackedStream /\ BackedEx /\ BackedSched)' => ResumeIsBacked'
  BY DEF ResumeIsBacked, BackedCkpt, BackedStream, BackedEx, BackedSched, Backed
<1>. QED  BY <1>1, CkptStep, StreamBackedStep, ExBackedStep, SchedBackedStep

\* No checkpoint, message, coroutine or scan points past a step that is not recorded.
THEOREM ResumeBacked == Spec => []ResumeIsBacked
<1>1. Init => ResumeIsBacked
  <2>1. \A t : Backed(t, 0)
    <3>1. 1..0 = {} /\ {0} \ {0} = {}  OBVIOUS
    <3>. QED  BY <3>1 DEF Backed
  <2>. QED  BY <2>1 DEF Init, ResumeIsBacked, IdleEx, IdleSched
<1>. QED  BY <1>1, TypeCorrect, PositionsFit, ResumeStep, PTL DEF Spec

-----------------------------------------------------------------------------
(* The step table implements the step log                                  *)

\* Empty tables are an empty log.
LEMMA LogInit == Init => Log!Init
<1>. SUFFICES ASSUME Init PROVE Log!Init  OBVIOUS
<1>1. steps = [t \in Tasks |-> {}]  BY DEF Init
<1>2. [t \in Tasks |-> ckpt[t].step] = [t \in Tasks |-> 0]  BY DEF Init
<1>. QED  BY <1>1, <1>2 DEF Log!Init

\* Writing a step is a Record of the log, every other step a stutter.
LEMMA LogStep ==
  TypeOK /\ NextFits /\ ResumeIsBacked /\ [Next]_vars
    => [Log!Next]_<<steps, [t \in Tasks |-> ckpt[t].step]>>
<1>. DEFINE cursor == [t \in Tasks |-> ckpt[t].step]
<1>. SUFFICES ASSUME TypeOK, NextFits, ResumeIsBacked, [Next]_vars
              PROVE  [Log!Next]_<<steps, cursor>>
  OBVIOUS
<1>1. CASE UNCHANGED <<steps, ckpt>>  BY <1>1
<1>2. ASSUME NEW e \in Executors, NEW ok \in BOOLEAN, ex[e].pc \in {"step", "retry"},
             WriteStep(e, ok)
      PROVE  Log!Next
  <2>. DEFINE t == ex[e].task
              i == ex[e].next
  <2>1. t \in Tasks /\ ex[e].last \in Nat /\ i \in Nat /\ Backed(t, ex[e].last)
    BY <1>2 DEF TypeOK, ExType, ExecutorState, ResumeIsBacked
  <2>2. t \in Mocked => i = 1 \/ i - 1 \in steps[t]
    <3>. SUFFICES ASSUME t \in Mocked, i # 1 PROVE i - 1 \in steps[t]  OBVIOUS
    <3>1. i = ex[e].last + 1  BY <1>2 DEF NextFits
    <3>2. ex[e].last # 0 /\ i - 1 = ex[e].last  BY <2>1, <3>1
    <3>3. ex[e].last \in Needs(t, ex[e].last)  BY <2>1, <3>2, NeedsFacts
    <3>. QED  BY <2>1, <3>2, <3>3, NeedsFacts
  <2>3. Log!Record(t, i)
    <3>1. steps' = [steps EXCEPT ![t] = @ \cup {i}]  BY <1>2 DEF WriteStep
    <3>2. ckpt' = [ckpt EXCEPT ![t] = [step |-> i, version |-> ex[e].ver + 1]] \/ ckpt' = ckpt
      BY <1>2 DEF WriteStep
    <3>. HIDE DEF i
    <3>3. CASE ckpt' = ckpt
      <4>1. cursor' = cursor  BY <3>3
      <4>. QED  BY <2>2, <3>1, <4>1 DEF Log!Record
    <3>4. CASE ckpt' = [ckpt EXCEPT ![t] = [step |-> i, version |-> ex[e].ver + 1]]
      <4>1. ckpt'[t].step = i /\ \A u \in Tasks \ {t} : ckpt'[u] = ckpt[u]
        BY <2>1, <3>4 DEF TypeOK, DbType
      <4>2. cursor' = [cursor EXCEPT ![t] = i]  BY <4>1
      <4>. QED  BY <2>2, <3>1, <4>2 DEF Log!Record
    <3>. QED  BY <3>2, <3>3, <3>4
  <2>4. i \in steps'[t]  BY <1>2, <2>1 DEF WriteStep, TypeOK, DbType
  <2>5. \E k \in steps'[t] : Log!Record(t, k)
    <3>. HIDE DEF i
    <3>. QED  BY <2>3, <2>4 DEF Log!Record
  <2>. QED  BY <2>1, <2>5, Zenon DEF Log!Next
<1>. QED  BY <1>1, <1>2, StepFrame

\* However many coroutines, scans and requests write, the two tables are a step log: recorded steps
\* stay, the cursor only moves to the step of the same transaction, and the steps of a file are recorded
\* each directly above a recorded one.
THEOREM TablesAreStepLog == Spec => StepLogSpec
<1>1. Spec => [](TypeOK /\ NextFits /\ ResumeIsBacked)
  BY TypeCorrect, PositionsFit, ResumeBacked, PTL
<1>. QED  BY <1>1, LogInit, LogStep, PTL DEF Spec, StepLogSpec, Log!Spec

-----------------------------------------------------------------------------
(* A completed task is whole                                               *)

\* A coroutine of the mock that is about to finish has passed the last step of its file.
FinishesLast ==
  \A e \in Executors :
    ex[e].pc = "commit" /\ ex[e].task \in Mocked => ex[e].last >= PlanLen[ex[e].task]

\* The loop is left for good only behind the last step.
LEMMA FinishesLastStep == TypeOK /\ FinishesLast /\ [Next]_vars => FinishesLast'
<1>. SUFFICES ASSUME TypeOK, FinishesLast, [Next]_vars, NEW e \in Executors,
                     ex'[e].pc = "commit", ex'[e].task \in Mocked
              PROVE  ex'[e].last >= PlanLen[ex'[e].task]
  BY DEF FinishesLast
<1>1. CASE ex'[e] = ex[e]  BY <1>1 DEF FinishesLast
<1>2. CASE Consume(e)  BY <1>2 DEF Consume, TypeOK, ExType, IdleEx
<1>3. ASSUME NEW ok \in BOOLEAN, WriteStep(e, ok) PROVE FALSE
  BY <1>3 DEF WriteStep, TypeOK, ExType, ExecutorState
<1>4. CASE Advances(e)  BY <1>4 DEF Advances
<1>. QED  BY <1>1, <1>2, <1>3, <1>4, ExecutorMoves DEF Moves, Leaves, Leaving, IdleEx

\* COMPLETED is written behind a backed position at the end of the plan.
LEMMA CompletedStep ==
  TypeOK /\ ResumeIsBacked /\ FinishesLast /\ CompletedIsWhole /\ [Next]_vars => CompletedIsWhole'
<1>. SUFFICES ASSUME TypeOK, ResumeIsBacked, FinishesLast, CompletedIsWhole, [Next]_vars,
                     NEW t \in Tasks, t \in Mocked, status'[t] = "COMPLETED"
              PROVE  1..PlanLen[t] \subseteq steps'[t]
  BY ConfigAssumption DEF CompletedIsWhole
<1>. USE DEF TypeOK, DbType
<1>1. SUFFICES Backed(t, PlanLen[t])
  <2>1. Needs(t, PlanLen[t]) = 1..PlanLen[t]  BY NeedsFacts
  <2>. QED  BY <2>1, BackedStays
<1>2. CASE status[t] = "COMPLETED"  BY <1>2 DEF CompletedIsWhole, Backed
<1>3. ASSUME NEW e \in Executors, FinishTask(e), ex[e].task = t PROVE Backed(t, PlanLen[t])
  <2>1. ex[e].last \in Nat /\ ex[e].last >= PlanLen[t] /\ PlanLen[t] \in Nat
    BY <1>3, ConfigAssumption DEF FinishTask, FinishesLast, ExType, ExecutorState
  <2>2. 1..(ex[e].last) \subseteq steps[t]  BY <1>3 DEF FinishTask, ResumeIsBacked, Backed
  <2>. QED  BY <2>1, <2>2 DEF Backed
<1>4. ASSUME NEW e \in Executors, FinishTask(e), ex[e].task # t PROVE status[t] = "COMPLETED"
  BY <1>4 DEF FinishTask
<1>5. ASSUME NEW e \in Executors,
             MarkRunning(e) \/ PauseTask(e) \/ Heartbeat(e) \/ CreateHitl(e) \/ HandleError(e)
      PROVE  status[t] = "COMPLETED"
  BY <1>5 DEF MarkRunning, PauseTask, Heartbeat, CreateHitl, HandleError
<1>6. ASSUME NEW p \in Processes, ResetToPending(p) \/ FailExpired(p)
      PROVE  status[t] = "COMPLETED"
  BY <1>6 DEF ResetToPending, FailExpired
<1>7. ASSUME NEW c \in Clients, CreateTask(c) \/ CommitCancel(c) \/ ResolveHitl(c)
      PROVE  status[t] = "COMPLETED"
  BY <1>7 DEF CreateTask, CommitCancel, ResolveHitl
<1>8. CASE Tick  BY <1>2, <1>8 DEF Tick
<1>9. CASE UNCHANGED <<status, beat, agentMsg>>  BY <1>2, <1>9
<1>. QED  BY <1>2, <1>3, <1>4, <1>5, <1>6, <1>7, <1>8, <1>9, StatusFrame DEF StatusWriter

\* A COMPLETED task of the mock has every step of its file recorded.
THEOREM CompletedWhole == Spec => []CompletedIsWhole
<1>1. Init => FinishesLast /\ CompletedIsWhole
  BY ConfigAssumption DEF Init, FinishesLast, CompletedIsWhole, IdleEx
<1>2. Spec => []FinishesLast  BY <1>1, TypeCorrect, FinishesLastStep, PTL DEF Spec
<1>. QED  BY <1>1, <1>2, TypeCorrect, ResumeBacked, CompletedStep, PTL DEF Spec

-----------------------------------------------------------------------------
(* Cancellation                                                            *)

\* A flag stays as long as a coroutine works on its task.
LEMMA FlagStays ==
  ASSUME TypeOK, [Next]_vars, NEW e \in Executors, flag[ex[e].task], ex[e].task \in Tasks
  PROVE  flag'[ex[e].task]
<1>. USE DEF TypeOK, RedisType, redis
<1>1. CASE UNCHANGED flag  BY <1>1
<1>2. ASSUME NEW c \in Clients, SetFlag(c) PROVE flag'[ex[e].task]  BY <1>2 DEF SetFlag
<1>3. ASSUME NEW t \in Tasks, FlagExpires(t) PROVE flag'[ex[e].task]  BY <1>3 DEF FlagExpires
<1>4. ASSUME NEW f \in Executors, Run(f) PROVE UNCHANGED flag
  BY <1>4, RunFrame
<1>5. ASSUME NEW p \in Processes, Recover(p) PROVE UNCHANGED flag
  BY <1>5, RecoverFrame
<1>6. ASSUME NEW c \in Clients, Serve(c) \/ Request(c) PROVE UNCHANGED flag \/ SetFlag(c)
  BY <1>6 DEF Serve, Request, CreateTask, EnqueueTask, CommitCancel, ResolveHitl,
     ResumeTask, SendMessage, CancelTask, RespondHitl
<1>7. CASE Fault
  BY <1>1, <1>3, <1>7 DEF Fault, HandleError, RedisError, Interrupt, AbortScan, Shutdown, Exit,
     Crash, GatewayCrash, HitlDeadline, Tick
<1>. QED  BY <1>1, <1>2, <1>4, <1>5, <1>6, <1>7 DEF Next, vars

\* A coroutine that has written under a flag has written once, the flag is still there, and
\* every way to another step leads past the check.
LateOnce ==
  \A e \in Executors : ex[e].late # 0 =>
    /\ ex[e].late = 1
    /\ ex[e].task \in Tasks /\ flag[ex[e].task]
    /\ ex[e].pc \in {"renew", "beat", "hitl", "check"}

\* After the write under a flag comes the check that sees the flag.
LEMMA LateStep == TypeOK /\ LateOnce /\ [Next]_vars => LateOnce'
<1>. SUFFICES ASSUME TypeOK, LateOnce, [Next]_vars, NEW e \in Executors, ex'[e].late # 0
              PROVE  /\ ex'[e].late = 1
                     /\ ex'[e].task \in Tasks /\ flag'[ex'[e].task]
                     /\ ex'[e].pc \in {"renew", "beat", "hitl", "check"}
  BY DEF LateOnce
<1>1. CASE ex'[e] = ex[e]  BY <1>1, FlagStays DEF LateOnce
<1>2. CASE Consume(e)  BY <1>2 DEF Consume, TypeOK, ExType, IdleEx
<1>3. ASSUME ex[e].pc \in {"step", "retry"}, NEW ok \in BOOLEAN, WriteStep(e, ok)
      PROVE  /\ ex'[e].late = 1
             /\ ex'[e].task \in Tasks /\ flag'[ex'[e].task]
             /\ ex'[e].pc \in {"renew", "beat", "hitl", "check"}
  <2>1. ex[e].late = 0 /\ ex[e].task \in Tasks  BY <1>3 DEF LateOnce, TypeOK, ExType
  <2>. DEFINE n == IF flag[ex[e].task] THEN ex[e].late + 1 ELSE ex[e].late
  <2>2. ex'[e].pc = "renew" /\ ex'[e].task = ex[e].task /\ ex'[e].late = n
    BY <1>3 DEF WriteStep, TypeOK, ExType, ExecutorState
  <2>3. n = IF flag[ex[e].task] THEN 1 ELSE 0  BY <2>1
  <2>. HIDE DEF n
  <2>. QED  BY <2>1, <2>2, <2>3, FlagStays
<1>4. CASE Advances(e)  BY <1>4, FlagStays DEF Advances, LateOnce
<1>. QED  BY <1>1, <1>2, <1>3, <1>4, ExecutorMoves DEF Moves, Leaves, IdleEx

\* Under a cancel flag a coroutine records at most the step it has begun.
THEOREM CancelStops == Spec => []CancelStopsWork
<1>1. Init => LateOnce  BY DEF Init, LateOnce, IdleEx
<1>2. TypeOK /\ LateOnce => CancelStopsWork
  BY DEF LateOnce, CancelStopsWork, TypeOK, ExType, ExecutorState
<1>. QED  BY <1>1, <1>2, TypeCorrect, LateStep, PTL DEF Spec

-----------------------------------------------------------------------------
(* The lock                                                                *)

\* What a token that all coroutines of a process share leaves to luck: that no two of them are in
\* one task.  The loser of SET NX returns, so it takes a lease that ran out under a coroutine and a
\* second message of the task that reaches the same process.
Alone ==
  \A e, f \in Executors :
    e # f /\ ProcOf[e] = ProcOf[f] /\ PastLock(e) /\ PastLock(f) => ex[e].task # ex[f].task

\* The actions that touch a lock.
LockWriter ==
  \/ \E e \in Executors : AcquireLock(e) \/ RenewLock(e) \/ ReleaseLock(e)
  \/ \E p \in Processes : Forget(p) /\ UNCHANGED <<ttl, holder, beat>>
  \/ Tick

\* Every other step leaves the locks alone.
LEMMA LockFrame ==
  ASSUME [Next]_vars PROVE LockWriter \/ UNCHANGED <<lock, ttl, holder>>
<1>. USE DEF LockWriter, redis
<1>1. ASSUME NEW e \in Executors, Run(e) PROVE LockWriter \/ UNCHANGED <<lock, ttl, holder>>
  BY <1>1 DEF Run, Consume, LoadTask, MarkRunning, CheckCancelled, PauseTask, RecordStep,
     CheckpointConflict, RetryCheckpoint, WriteStep, Heartbeat, CreateHitl, FinishTask, Ack
<1>2. ASSUME NEW p \in Processes, Recover(p) PROVE UNCHANGED <<lock, ttl, holder>>
  BY <1>2, RecoverFrame
<1>3. ASSUME NEW c \in Clients, Serve(c) \/ Request(c) PROVE UNCHANGED <<lock, ttl, holder>>
  BY <1>3, GatewayFrame
<1>4. CASE Fault
  BY <1>4 DEF Fault, HandleError, RedisError, Interrupt, AbortScan, Shutdown, Exit, Crash,
     GatewayCrash, FlagExpires, HitlDeadline, db
<1>. QED  BY <1>1, <1>2, <1>3, <1>4 DEF Next, vars

\* A lock that a living process holds was taken by a coroutine of that process.
HolderInProcess ==
  \A t \in Tasks : lock[t] \in Processes => holder[t] \in Executors /\ ProcOf[holder[t]] = lock[t]

\* Token and holder are written and removed together.
LEMMA HolderStep == TypeOK /\ HolderInProcess /\ [Next]_vars => HolderInProcess'
<1>. SUFFICES ASSUME TypeOK, HolderInProcess, [Next]_vars PROVE HolderInProcess'
  OBVIOUS
<1>. USE ConfigAssumption DEF HolderInProcess, TypeOK, RedisType, PastType
<1>1. ASSUME NEW e \in Executors, AcquireLock(e) PROVE HolderInProcess'
  <2>1. \/ /\ lock' = [lock EXCEPT ![ex[e].task] = ProcOf[e]]
           /\ holder' = [holder EXCEPT ![ex[e].task] = e]
        \/ UNCHANGED <<lock, holder>>
    BY <1>1 DEF AcquireLock
  <2>. SUFFICES ASSUME NEW t \in Tasks, lock'[t] \in Processes
                PROVE  holder'[t] \in Executors /\ ProcOf[holder'[t]] = lock'[t]
    OBVIOUS
  <2>2. CASE t = ex[e].task  BY <2>1, <2>2
  <2>3. CASE t # ex[e].task  BY <2>1, <2>3
  <2>. QED  BY <2>2, <2>3
<1>2. ASSUME NEW e \in Executors, RenewLock(e) PROVE HolderInProcess'  BY <1>2 DEF RenewLock
<1>3. ASSUME NEW e \in Executors, ReleaseLock(e) PROVE HolderInProcess'  BY <1>3 DEF ReleaseLock
<1>4. ASSUME NEW p \in Processes, Forget(p), UNCHANGED <<ttl, holder, beat>> PROVE HolderInProcess'
  BY <1>4 DEF Forget
<1>5. CASE Tick  BY <1>5 DEF Tick
<1>6. CASE UNCHANGED <<lock, ttl, holder>>  BY <1>6
<1>. QED  BY <1>1, <1>2, <1>3, <1>4, <1>5, <1>6, LockFrame DEF LockWriter

\* A key that goes without a tick was deleted by a coroutine that left the task, in the process
\* whose token it held.
LEMMA ReleaseStep ==
  ASSUME TypeOK, HolderInProcess, [Next]_vars, NEW t \in Tasks,
         lock[t] # NoProc, lock'[t] = NoProc, UNCHANGED used
  PROVE  \E e \in Executors :
           /\ lock[t] = ProcOf[e] /\ ex[e].task = t /\ PastLock(e) /\ ex'[e].pc = "idle"
           /\ holder[t] \in Executors /\ ProcOf[holder[t]] = ProcOf[e]
<1>. USE ConfigAssumption DEF TypeOK, RedisType
<1>1. ASSUME NEW e \in Executors, ReleaseLock(e)
      PROVE  /\ lock[t] = ProcOf[e] /\ ex[e].task = t /\ PastLock(e) /\ ex'[e].pc = "idle"
             /\ holder[t] \in Executors /\ ProcOf[holder[t]] = ProcOf[e]
  <2>1. ex[e].task = t /\ lock[t] = ProcOf[e] /\ PastLock(e)  BY <1>1 DEF ReleaseLock, PastLock
  <2>2. ex'[e].pc = "idle"  BY <1>1 DEF ReleaseLock, ExType, IdleEx
  <2>. QED  BY <2>1, <2>2 DEF HolderInProcess
<1>2. ASSUME NEW e \in Executors, AcquireLock(e) PROVE FALSE  BY <1>2 DEF AcquireLock
<1>3. ASSUME NEW e \in Executors, RenewLock(e) PROVE FALSE  BY <1>3 DEF RenewLock
<1>4. ASSUME NEW p \in Processes, Forget(p) PROVE FALSE  BY <1>4 DEF Forget
<1>5. CASE Tick  BY <1>5 DEF Tick, Spend, PastType
<1>. QED  BY <1>1, <1>2, <1>3, <1>4, <1>5, LockFrame DEF LockWriter

\* A lock disappears with time, or a coroutine in the process of its holder removes it when it
\* leaves that very task: however leases run out and are taken again, no other process ever does.
THEOREM LockStaysInProcess ==
  Spec => [][\A t \in Tasks : lock[t] # NoProc /\ lock'[t] = NoProc /\ UNCHANGED used
               => \E e \in Executors :
                    /\ lock[t] = ProcOf[e] /\ ex[e].task = t /\ PastLock(e) /\ ex'[e].pc = "idle"
                    /\ holder[t] \in Executors /\ ProcOf[holder[t]] = ProcOf[e]]_vars
<1>1. Init => HolderInProcess  BY ConfigAssumption DEF Init, HolderInProcess
<1>2. Spec => [](TypeOK /\ HolderInProcess)
  BY <1>1, TypeCorrect, HolderStep, PTL DEF Spec
<1>3. TypeOK /\ HolderInProcess /\ [Next]_vars
        => [\A t \in Tasks : lock[t] # NoProc /\ lock'[t] = NoProc /\ UNCHANGED used
              => \E e \in Executors :
                   /\ lock[t] = ProcOf[e] /\ ex[e].task = t /\ PastLock(e) /\ ex'[e].pc = "idle"
                   /\ holder[t] \in Executors /\ ProcOf[holder[t]] = ProcOf[e]]_vars
  BY ReleaseStep
<1>. QED  BY <1>2, <1>3, PTL DEF Spec

\* A coroutine inside a task whose lock carries the token of its process took that lock.
OwnToken ==
  \A e \in Executors :
    PastLock(e) /\ lock[ex[e].task] = ProcOf[e] => holder[ex[e].task] = e

\* A second coroutine of the process that took the lock would be in the task with the first.
LEMMA OwnTokenStep == TypeOK /\ OwnToken /\ [Next]_vars /\ Alone' => OwnToken'
<1>. SUFFICES ASSUME TypeOK, OwnToken, [Next]_vars, Alone', NEW e \in Executors,
                     PastLock(e)', lock'[ex'[e].task] = ProcOf[e]
              PROVE  holder'[ex'[e].task] = e
  BY DEF OwnToken
<1>. USE ConfigAssumption DEF TypeOK, RedisType, PastType
<1>1. CASE AcquireLock(e)
  <2>1. ex[e].task \in Tasks /\ ex'[e].task = ex[e].task /\ holder' = [holder EXCEPT ![ex[e].task] = e]
    <3>1. CASE ex' = [ex EXCEPT ![e] = IdleEx]  BY <3>1 DEF PastLock, ExType, IdleEx
    <3>. QED  BY <1>1, <3>1, GotoMoves DEF AcquireLock, ExType
  <2>. QED  BY <2>1
<1>2. CASE ~AcquireLock(e)
  <2>1. PastLock(e) /\ ex'[e].task = ex[e].task
    <3>1. CASE ex'[e] = ex[e]  BY <3>1 DEF PastLock
    <3>2. CASE Consume(e)  BY <3>2 DEF Consume, PastLock, ExType, IdleEx
    <3>3. ASSUME NEW ok \in BOOLEAN, ex[e].pc \in {"step", "retry"}, WriteStep(e, ok)
          PROVE  PastLock(e) /\ ex'[e].task = ex[e].task
      <4>1. ex'[e].task = ex[e].task  BY <3>3 DEF WriteStep, ExType, ExecutorState
      <4>. QED  BY <3>3, <4>1 DEF PastLock
    <3>4. CASE Advances(e)  BY <1>2, <3>4 DEF Advances, PastLock
    <3>5. CASE Leaves(e)  BY <3>5 DEF Leaves
    <3>6. ex'[e] # IdleEx  BY DEF PastLock, IdleEx
    <3>. HIDE DEF TypeOK
    <3>. QED  BY <3>1, <3>2, <3>3, <3>4, <3>5, <3>6, ExecutorMoves DEF Moves
  <2>. DEFINE t == ex[e].task
  <2>2. t \in Tasks  BY <2>1 DEF PastLock, ExType
  <2>3. ASSUME NEW f \in Executors, AcquireLock(f) PROVE holder'[t] = e
    <3>1. f # e  BY <1>2, <2>3
    <3>2. CASE ex[f].task = t /\ lock' = [lock EXCEPT ![t] = ProcOf[f]] /\ Goto(f, "load")
      <4>1. ProcOf[f] = ProcOf[e]  BY <2>1, <2>2, <3>2
      <4>2. PastLock(f)' /\ ex'[f].task = t
        BY <3>2, GotoMoves DEF PastLock
      <4>. QED  BY <2>1, <3>1, <4>1, <4>2 DEF Alone
    <3>3. CASE lock'[t] = lock[t] /\ holder'[t] = holder[t]  BY <2>1, <3>3 DEF OwnToken
    <3>. QED  BY <2>2, <2>3, <3>2, <3>3 DEF AcquireLock
  <2>4. ASSUME NEW f \in Executors, RenewLock(f) PROVE holder'[t] = e
    BY <2>1, <2>4 DEF RenewLock, OwnToken
  <2>5. ASSUME NEW f \in Executors, ReleaseLock(f) PROVE holder'[t] = e
    BY <2>1, <2>2, <2>5 DEF ReleaseLock, OwnToken
  <2>6. ASSUME NEW p \in Processes, Forget(p), UNCHANGED <<ttl, holder, beat>> PROVE holder'[t] = e
    BY <2>1, <2>2, <2>6 DEF Forget, OwnToken
  <2>7. CASE Tick  BY <2>1, <2>2, <2>7 DEF Tick, OwnToken
  <2>8. CASE UNCHANGED <<lock, ttl, holder>>  BY <2>1, <2>8 DEF OwnToken
  <2>. QED  BY <2>1, <2>3, <2>4, <2>5, <2>6, <2>7, <2>8, LockFrame DEF LockWriter
<1>. QED  BY <1>1, <1>2

\* As long as no two coroutines of a process are in one task, a lock goes with the coroutine that
\* took it, or with time, whatever crashes, expires and is delivered twice.
THEOREM LockSafety == Spec /\ []Alone => LockReleasedByHolder
<1>1. Init => HolderInProcess /\ OwnToken
  BY ConfigAssumption DEF Init, HolderInProcess, OwnToken, PastLock, IdleEx
<1>2. Spec /\ []Alone => [](TypeOK /\ HolderInProcess /\ OwnToken)
  BY <1>1, TypeCorrect, HolderStep, OwnTokenStep, PTL DEF Spec
<1>3. TypeOK /\ HolderInProcess /\ OwnToken /\ [Next]_vars
        => [\A t \in Tasks : lock[t] # NoProc /\ lock'[t] = NoProc /\ UNCHANGED used
              => \E e \in Executors : holder[t] = e /\ ex[e].task = t /\ ex'[e].pc = "idle"]_vars
  BY ReleaseStep DEF OwnToken
<1>. QED  BY <1>2, <1>3, PTL DEF Spec, LockReleasedByHolder

\* Heartbeats are written as 0 or cleared; only the clock makes them older.
LEMMA BeatFrame ==
  ASSUME TypeOK, [Next]_vars, ~Tick, NEW t \in Tasks
  PROVE  beat'[t] \in {beat[t], 0, NoBeat}
<1>. USE DEF TypeOK, DbType
<1>1. ASSUME NEW e \in Executors, MarkRunning(e) \/ Heartbeat(e)
      PROVE  beat'[t] \in {beat[t], 0, NoBeat}
  <2>1. beat' = [beat EXCEPT ![ex[e].task] = 0]  BY <1>1 DEF MarkRunning, Heartbeat
  <2>. QED  BY <2>1
<1>2. ASSUME NEW e \in Executors, PauseTask(e) \/ CreateHitl(e) \/ FinishTask(e) \/ HandleError(e)
      PROVE  beat' = beat
  BY <1>2 DEF PauseTask, CreateHitl, FinishTask, HandleError
<1>3. ASSUME NEW p \in Processes, ResetToPending(p) PROVE beat'[t] \in {beat[t], 0, NoBeat}
  <2>1. beat' = [beat EXCEPT ![sched[p].task] = NoBeat] \/ beat' = beat
    BY <1>3 DEF ResetToPending
  <2>. QED  BY <2>1
<1>4. ASSUME NEW p \in Processes, FailExpired(p) PROVE beat' = beat  BY <1>4 DEF FailExpired
<1>5. ASSUME NEW c \in Clients, CreateTask(c) \/ CommitCancel(c) \/ ResolveHitl(c)
      PROVE  beat' = beat
  BY <1>5 DEF CreateTask, CommitCancel, ResolveHitl
<1>. QED  BY <1>1, <1>2, <1>3, <1>4, <1>5, StatusFrame DEF StatusWriter

\* A lease lasts at most LockTTL, and the heartbeat of the coroutine that holds it is no
\* older than what the lease has used up, except between renewal and heartbeat.
LeaseAge ==
  /\ \A t \in Tasks : ttl[t] <= LockTTL /\ (holder[t] # NoProc => ttl[t] >= 1)
  /\ \A e \in Executors :
       /\ ex[e].pc \in {"check", "pause", "step", "retry", "renew"}
       /\ holder[ex[e].task] = e
       => beat[ex[e].task] <= LockTTL - ttl[ex[e].task]

\* Lease and heartbeat age at the same pace; only the holder renews the one, and the
\* heartbeat follows.
LEMMA LeaseAgeStep ==
  TypeOK /\ HolderInProcess /\ Alone /\ LeaseAge /\ [Next]_vars => LeaseAge'
<1>. SUFFICES ASSUME TypeOK, HolderInProcess, Alone, LeaseAge, [Next]_vars PROVE LeaseAge'
  OBVIOUS
<1>. DEFINE Leased == {"check", "pause", "step", "retry", "renew"}
<1>1. /\ LockTTL \in Nat \ {0} /\ NoProc \notin Processes \cup Executors
      /\ ttl \in [Tasks -> Nat] /\ lock \in [Tasks -> Proc]
      /\ holder \in [Tasks -> Executors \cup {NoProc}]
      /\ beat \in [Tasks -> Nat \cup {NoBeat}]
      /\ \A e \in Executors : ex[e].pc # "idle" => ex[e].task \in Tasks
  BY ConfigAssumption DEF TypeOK, RedisType, PastType, DbType, ExType
<1>2. \A t \in Tasks : ttl'[t] <= LockTTL /\ (holder'[t] # NoProc => ttl'[t] >= 1)
  <2>. SUFFICES ASSUME NEW t \in Tasks
                PROVE  ttl'[t] <= LockTTL /\ (holder'[t] # NoProc => ttl'[t] >= 1)
    OBVIOUS
  <2>1. ttl[t] <= LockTTL /\ (holder[t] # NoProc => ttl[t] >= 1) /\ ttl[t] \in Nat
    BY <1>1 DEF LeaseAge
  <2>2. ASSUME NEW e \in Executors, AcquireLock(e) \/ RenewLock(e) \/ ReleaseLock(e)
        PROVE  ttl'[t] <= LockTTL /\ (holder'[t] # NoProc => ttl'[t] >= 1)
    <3>1. ttl'[t] = ttl[t] \/ ttl'[t] = LockTTL \/ (ttl'[t] = 0 /\ holder'[t] = NoProc)
      BY <1>1, <2>2 DEF AcquireLock, RenewLock, ReleaseLock
    <3>2. holder'[t] = holder[t] \/ ttl'[t] = LockTTL \/ (ttl'[t] = 0 /\ holder'[t] = NoProc)
      BY <1>1, <2>2 DEF AcquireLock, RenewLock, ReleaseLock
    <3>. QED  BY <1>1, <2>1, <3>1, <3>2
  <2>3. CASE Tick  BY <1>1, <2>1, <2>3 DEF Tick
  <2>. QED  BY <2>1, <2>2, <2>3, LockFrame DEF LockWriter
<1>3. ASSUME NEW e \in Executors, ex'[e].pc \in Leased, holder'[ex'[e].task] = e
      PROVE  beat'[ex'[e].task] <= LockTTL - ttl'[ex'[e].task]
  <2>. DEFINE t == ex[e].task
  <2>1. CASE ex'[e].task = t /\ t \in Tasks /\ beat'[t] = 0
    <3>1. ttl'[t] \in Nat /\ ttl'[t] <= LockTTL  BY <1>2, <2>1, TypeStep DEF TypeOK, RedisType
    <3>. QED  BY <1>1, <2>1, <3>1
  <2>2. CASE ex[e].pc \in Leased /\ ex'[e].task = t
    <3>1. t \in Tasks  BY <1>1, <2>2
    <3>2. holder[t] = e
      <4>1. ASSUME NEW f \in Executors, AcquireLock(f) PROVE f # e
        BY <2>2, <4>1 DEF AcquireLock
      <4>2. ASSUME NEW f \in Executors, AcquireLock(f) \/ ReleaseLock(f) PROVE holder[t] = e
        BY <1>1, <1>3, <2>2, <3>1, <4>1, <4>2 DEF AcquireLock, ReleaseLock
      <4>3. ASSUME NEW f \in Executors, RenewLock(f) PROVE holder[t] = e
        BY <1>3, <2>2, <4>3 DEF RenewLock
      <4>4. CASE Tick  BY <1>1, <1>3, <2>2, <3>1, <4>4 DEF Tick
      <4>. QED  BY <1>3, <2>2, <4>2, <4>3, <4>4, LockFrame DEF LockWriter
    <3>3. beat[t] <= LockTTL - ttl[t] /\ 1 <= ttl[t] /\ ttl[t] <= LockTTL
      BY <1>1, <2>2, <3>1, <3>2 DEF LeaseAge
    <3>4. CASE Tick
      <4>1. ttl'[t] = ttl[t] - 1  BY <1>1, <3>1, <3>3, <3>4 DEF Tick
      <4>2. beat'[t] = beat[t] \/ beat'[t] = beat[t] + 1  BY <3>1, <3>4 DEF Tick
      <4>. QED  BY <1>1, <2>2, <3>1, <3>3, <4>1, <4>2 DEF NoBeat
    <3>5. CASE ~Tick
      <4>1. ttl'[t] = ttl[t]
        <5>1. ASSUME NEW f \in Executors, AcquireLock(f) PROVE ttl'[t] = ttl[t]
          <6>1. ex[f].task # t \/ UNCHANGED ttl
            <7>1. f # e  BY <2>2, <5>1 DEF AcquireLock
            <7>2. CASE UNCHANGED ttl  BY <7>2
            <7>3. CASE holder' = [holder EXCEPT ![ex[f].task] = f]
              BY <1>1, <1>3, <2>2, <3>1, <7>1, <7>3
            <7>. QED  BY <5>1, <7>2, <7>3 DEF AcquireLock
          <6>2. ttl' = [ttl EXCEPT ![ex[f].task] = LockTTL] \/ UNCHANGED ttl
            BY <5>1 DEF AcquireLock
          <6>. QED  BY <1>1, <3>1, <6>1, <6>2
        <5>2. ASSUME NEW f \in Executors, RenewLock(f) PROVE ttl'[t] = ttl[t]
          <6>1. CASE ex[f].task = t /\ lock[t] = ProcOf[f]
            <7>1. f = e
              BY <2>2, <3>1, <3>2, <5>2, <6>1, ConfigAssumption
                 DEF HolderInProcess, Alone, PastLock, RenewLock
            <7>2. ex'[f].pc = "beat"  BY <5>2, GotoMoves DEF RenewLock, TypeOK
            <7>. QED  BY <1>3, <7>1, <7>2
          <6>2. CASE ~(ex[f].task = t /\ lock[t] = ProcOf[f])
            BY <5>2, <6>2 DEF RenewLock
          <6>. QED  BY <6>1, <6>2
        <5>3. ASSUME NEW f \in Executors, ReleaseLock(f) PROVE ttl'[t] = ttl[t]
          <6>1. CASE ex[f].task = t /\ lock[t] = ProcOf[f]
            <7>1. holder'[t] = NoProc  BY <1>1, <3>1, <5>3, <6>1 DEF ReleaseLock
            <7>2. ex'[f].pc = "idle"  BY <5>3 DEF ReleaseLock, TypeOK, ExType, IdleEx
            <7>3. f = e
              BY <2>2, <3>1, <3>2, <5>3, <6>1, ConfigAssumption
                 DEF HolderInProcess, Alone, PastLock, ReleaseLock
            <7>. QED  BY <1>3, <7>2, <7>3
          <6>2. CASE ~(ex[f].task = t /\ lock[t] = ProcOf[f])
            BY <5>3, <6>2 DEF ReleaseLock
          <6>. QED  BY <6>1, <6>2
        <5>. QED  BY <3>5, <5>1, <5>2, <5>3, LockFrame DEF LockWriter
      <4>2. beat'[t] \in {beat[t], 0, NoBeat}
        BY <1>1, <3>1, <3>5, BeatFrame
      <4>. QED  BY <1>1, <2>2, <3>1, <3>3, <4>1, <4>2 DEF NoBeat
    <3>. QED  BY <3>4, <3>5
  <2>3. CASE ex'[e] = ex[e]  BY <1>3, <2>2, <2>3
  <2>4. CASE Consume(e)  BY <1>3, <2>4 DEF Consume, TypeOK, ExType, IdleEx
  <2>5. CASE ex[e].pc \in {"step", "retry"} /\ \E ok \in BOOLEAN : WriteStep(e, ok)
    BY <2>2, <2>5 DEF WriteStep, TypeOK, ExType, ExecutorState
  <2>6. CASE Advances(e)
    <3>1. CASE ex'[e].pc = "check"
      <4>1. ex[e].pc # "idle"  BY <2>6, <3>1 DEF Advances
      <4>. QED  BY <1>1, <2>1, <2>6, <3>1, <4>1 DEF Advances
    <3>2. CASE ex'[e].pc # "check"  BY <1>3, <2>2, <2>6, <3>2 DEF Advances
    <3>. QED  BY <3>1, <3>2
  <2>. QED
    BY <1>3, <2>3, <2>4, <2>5, <2>6, ExecutorMoves DEF Moves, Leaves, Leaving, IdleEx
<1>. QED  BY <1>2, <1>3 DEF LeaseAge

\* With a lease no longer than the heartbeat timeout, and as long as no two coroutines of a
\* process are in one task, no coroutine that holds its lease looks dead to the zombie scan
\* between two heartbeats.
THEOREM LeaseShields ==
  ASSUME LockTTL <= HeartbeatTimeout
  PROVE  Spec /\ []Alone => []LeaseShieldsRunning
<1>1. Init => HolderInProcess /\ LeaseAge
  BY ConfigAssumption DEF Init, HolderInProcess, LeaseAge, IdleEx
<1>2. TypeOK /\ LeaseAge => LeaseShieldsRunning
  <2>. SUFFICES ASSUME TypeOK, LeaseAge, NEW e \in Executors,
                       ex[e].pc \in {"check", "pause", "step", "retry", "renew"},
                       holder[ex[e].task] = e
                PROVE  ~Stale(ex[e].task)
    BY DEF LeaseShieldsRunning
  <2>1. ex[e].task \in Tasks  BY DEF TypeOK, ExType
  <2>2. beat[ex[e].task] <= LockTTL - ttl[ex[e].task]  BY DEF LeaseAge
  <2>3. holder[ex[e].task] # NoProc => ttl[ex[e].task] >= 1  BY <2>1 DEF LeaseAge
  <2>4. /\ beat[ex[e].task] \in Nat \cup {NoBeat} /\ ttl[ex[e].task] \in Nat
        /\ LockTTL \in Nat /\ HeartbeatTimeout \in Nat /\ NoProc \notin Executors
    BY <2>1, ConfigAssumption DEF TypeOK, DbType, RedisType
  <2>5. beat[ex[e].task] <= LockTTL - 1  BY <2>2, <2>3, <2>4 DEF NoBeat
  <2>. QED  BY <2>4, <2>5 DEF Stale, NoBeat
<1>3. Spec => []HolderInProcess  BY <1>1, TypeCorrect, HolderStep, PTL DEF Spec
<1>. QED  BY <1>1, <1>2, <1>3, TypeCorrect, LeaseAgeStep, PTL DEF Spec

-----------------------------------------------------------------------------
(* Pending tasks are carried                                               *)

\* What is recorded as lost stays recorded.
LEMMA LostStays ==
  ASSUME TypeOK, [Next]_vars, NEW t \in Tasks
  PROVE  lost[t] \subseteq lost'[t]
<1>. USE DEF TypeOK, PastType
<1>1. ASSUME NEW u, NEW why, Lose(u, why) PROVE lost[t] \subseteq lost'[t]  BY <1>1 DEF Lose
<1>2. ASSUME NEW p \in Processes, EndScan(p) PROVE lost[t] \subseteq lost'[t]
  BY <1>2 DEF EndScan
<1>3. ASSUME NEW e \in Executors, Run(e) PROVE UNCHANGED lost \/ \E u, why : Lose(u, why)
  BY <1>3 DEF Run, Consume, AcquireLock, LoadTask, DropIfFlagged, MarkRunning, CheckCancelled,
     PauseTask, RecordStep, CheckpointConflict, RetryCheckpoint, WriteStep, RenewLock, Heartbeat,
     CreateHitl, FinishTask, Ack, ReleaseLock
<1>4. ASSUME NEW p \in Processes, Recover(p) PROVE UNCHANGED lost \/ EndScan(p)
  BY <1>4 DEF Recover, ScanPaused, ScanZombies, ScanExpired, PickTask, ResetToPending,
     PickExpired, PushRecovered, FailExpired, FinishScan
<1>5. ASSUME NEW c \in Clients, Serve(c) \/ Request(c) PROVE UNCHANGED lost
  BY <1>5, GatewayFrame
<1>6. ASSUME NEW e \in Executors, HandleError(e) \/ RedisError(e) \/ Interrupt(e)
      PROVE  UNCHANGED lost \/ \E u, why : Lose(u, why)
  BY <1>6 DEF HandleError, RedisError, Interrupt
<1>7. ASSUME NEW p \in Processes, AbortScan(p) \/ Exit(p) PROVE EndScan(p)
  BY <1>7 DEF AbortScan, Exit
<1>8. ASSUME NEW p \in Processes, Crash(p) PROVE lost[t] \subseteq lost'[t]  BY <1>8 DEF Crash
<1>9. ASSUME NEW c \in Clients, GatewayCrash(c) PROVE UNCHANGED lost \/ \E u, why : Lose(u, why)
  BY <1>9 DEF GatewayCrash
<1>10. CASE Fault
  BY <1>1, <1>2, <1>6, <1>7, <1>8, <1>9, <1>10
     DEF Fault, Shutdown, FlagExpires, HitlDeadline, Tick
<1>. QED  BY <1>1, <1>2, <1>3, <1>4, <1>5, <1>10 DEF Next, vars

\* Whoever makes a task PENDING goes on to send its message.
LEMMA PendingIsPublished ==
  ASSUME TypeOK, [Next]_vars, NEW t \in Tasks, status[t] # "PENDING", status'[t] = "PENDING"
  PROVE  Publishing(t)'
<1>. USE DEF TypeOK, DbType
<1>1. ASSUME NEW p \in Processes, ResetToPending(p) PROVE Publishing(t)'
  <2>1. sched[p].task = t  BY <1>1 DEF ResetToPending
  <2>2. sched'[p].pc = "push" /\ sched'[p].task = t
    BY <1>1, <2>1 DEF ResetToPending, SchedType, SchedState
  <2>. QED  BY <2>2 DEF Publishing
<1>2. ASSUME NEW c \in Clients, CreateTask(c) PROVE Publishing(t)'
  <2>1. gw[c].task = t  BY <1>2 DEF CreateTask
  <2>2. gw'[c].pc = "enqueue" /\ gw'[c].task = t
    BY <1>2, <2>1 DEF CreateTask, GwType, GwState
  <2>. QED  BY <2>2 DEF Publishing
<1>3. ASSUME NEW c \in Clients, ResolveHitl(c) PROVE Publishing(t)'
  <2>1. gw[c].task = t  BY <1>3 DEF ResolveHitl
  <2>2. gw'[c].pc = "resume" /\ gw'[c].task = t
    BY <1>3, <2>1 DEF ResolveHitl, GwType, GwState
  <2>. QED  BY <2>2 DEF Publishing
<1>4. ASSUME NEW c \in Clients, CommitCancel(c) PROVE FALSE  BY <1>4 DEF CommitCancel
<1>5. ASSUME NEW p \in Processes, FailExpired(p) PROVE FALSE  BY <1>5 DEF FailExpired
<1>6. ASSUME NEW e \in Executors,
             MarkRunning(e) \/ PauseTask(e) \/ Heartbeat(e) \/ CreateHitl(e) \/ FinishTask(e)
               \/ HandleError(e)
      PROVE  FALSE
  BY <1>6 DEF MarkRunning, PauseTask, Heartbeat, CreateHitl, FinishTask, HandleError
<1>7. CASE Tick  BY <1>7 DEF Tick
<1>. QED  BY <1>1, <1>2, <1>3, <1>4, <1>5, <1>6, <1>7, StatusFrame DEF StatusWriter

\* A message in the stream stays there or is taken by a coroutine.
LEMMA DeliveringStep ==
  ASSUME TypeOK, [Next]_vars, NEW t \in Tasks, Delivering(t)
  PROVE  Delivering(t)' \/ WorkedOn(t)'
<1>1. PICK i \in DOMAIN stream : stream[i].task = t  BY DEF Delivering
<1>2. stream \in Seq(Message) /\ Len(stream) \in Nat /\ DOMAIN stream = 1..Len(stream)
  BY DEF TypeOK, RedisType
<1>3. CASE UNCHANGED stream  BY <1>1, <1>3 DEF Delivering
<1>4. ASSUME NEW e \in Executors, Consume(e), stream' = Tail(stream), stream # <<>>
      PROVE  Delivering(t)' \/ WorkedOn(t)'
  <2>1. CASE i = 1
    <3>1. Head(stream).task = t  BY <1>1, <1>2, <1>4, <2>1
    <3>2. ex'[e].pc = "lock" /\ ex'[e].task = t
      BY <1>4, <3>1 DEF Consume, TypeOK, ExType, IdleEx
    <3>. QED  BY <3>2 DEF WorkedOn, Working
  <2>2. CASE i # 1
    <3>1. i - 1 \in DOMAIN Tail(stream) /\ Tail(stream)[i - 1] = stream[i]  BY <1>2, <1>4, <2>2
    <3>. QED  BY <1>1, <1>4, <3>1 DEF Delivering
  <2>. QED  BY <2>1, <2>2
<1>5. ASSUME NEW u \in Tasks, NEW n \in Nat, Push(u, n) PROVE Delivering(t)'
  <2>. DEFINE m == [task |-> u, resume |-> n]
  <2>1. m \in Message  BY DEF Message
  <2>2. stream' = Append(stream, m)  BY <1>5 DEF Push
  <2>. HIDE DEF m
  <2>3. i \in DOMAIN stream' /\ stream'[i] = stream[i]  BY <1>2, <2>1, <2>2, AppendProperties
  <2>. QED  BY <1>1, <2>3 DEF Delivering
<1>6. ASSUME NEW c \in Clients, gw[c].pc \in {"enqueue", "resume"}
      PROVE  gw[c].task \in Tasks /\ ckpt[gw[c].task].step \in Nat /\ 0 \in Nat
  BY <1>6 DEF TypeOK, GwType, DbType
<1>7. ASSUME NEW p \in Processes, sched[p].pc = "push"
      PROVE  sched[p].task \in Tasks /\ sched[p].resume \in Nat
  BY <1>7 DEF TypeOK, SchedType, SchedState
<1>. QED  BY <1>3, <1>4, <1>5, <1>6, <1>7, StreamFrame

\* The message that is sent is in the stream.
LEMMA Pushed ==
  ASSUME TypeOK, NEW t \in Tasks, NEW n \in Nat, Push(t, n)
  PROVE  Delivering(t)'
<1>1. stream \in Seq(Message)  BY DEF TypeOK, RedisType
<1>. DEFINE m == [task |-> t, resume |-> n]
<1>2. m \in Message /\ m.task = t  BY DEF Message
<1>3. stream' = Append(stream, m)  BY DEF Push
<1>. HIDE DEF m
<1>4. Len(stream) + 1 \in DOMAIN stream' /\ stream'[Len(stream) + 1] = m
  BY <1>1, <1>2, <1>3, AppendProperties
<1>. QED  BY <1>2, <1>4 DEF Delivering

\* A process that is down has no scan.
DownIsIdle == \A p \in Processes : up[p] = "down" => sched[p].pc = "idle"

\* A process goes down without a scan and starts with one.
LEMMA DownStep == TypeOK /\ DownIsIdle /\ [Next]_vars => DownIsIdle'
<1>. SUFFICES ASSUME TypeOK, DownIsIdle, [Next]_vars, NEW q \in Processes, up'[q] = "down"
              PROVE  sched'[q].pc = "idle"
  BY DEF DownIsIdle
<1>. USE DEF TypeOK, UpType, SchedType, DownIsIdle
<1>1. ASSUME NEW e \in Executors, Run(e) PROVE UNCHANGED <<up, sched>>
  BY <1>1, RunFrame
<1>2. ASSUME NEW c \in Clients, Serve(c) \/ Request(c) PROVE UNCHANGED <<up, sched>>
  BY <1>2, GatewayFrame
<1>3. ASSUME NEW p \in Processes, Recover(p) PROVE sched'[q].pc = "idle"
  <2>1. CASE p = q
    <3>1. up'[q] # "down" \/ (up' = up /\ sched[q].pc # "idle")
          \/ (up' = up /\ up[q] \in {"up", "stopping"}) \/ (sched[q].pc # "idle" /\ up'[q] = up[q])
      BY <1>3, <2>1 DEF Recover, ScanPaused, ScanZombies, ScanExpired, PickTask, ResetToPending,
         PickExpired, PushRecovered, FailExpired, FinishScan
    <3>. QED  BY <2>1, <3>1
  <2>2. CASE p # q
    <3>1. sched'[q] = sched[q]
      BY <1>3, <2>2 DEF Recover, ScanPaused, ScanZombies, ScanExpired, Scan, PickTask,
         ResetToPending, PickExpired, PushRecovered, FailExpired, FinishScan, EndScan
    <3>2. up'[q] = up[q]
      BY <1>3, <2>2 DEF Recover, ScanPaused, ScanZombies, ScanExpired, PickTask,
         ResetToPending, PickExpired, PushRecovered, FailExpired, FinishScan
    <3>. QED  BY <3>1, <3>2
  <2>. QED  BY <2>1, <2>2
<1>4. ASSUME NEW p \in Processes, AbortScan(p) \/ Exit(p) \/ Crash(p) PROVE sched'[q].pc = "idle"
  BY <1>4 DEF AbortScan, Exit, Crash, EndScan, IdleSched
<1>5. ASSUME NEW p \in Processes, Shutdown(p) PROVE sched'[q].pc = "idle"
  BY <1>5 DEF Shutdown
<1>6. CASE Fault
  BY <1>4, <1>5, <1>6 DEF Fault, HandleError, RedisError, Interrupt, GatewayCrash, FlagExpires,
     HitlDeadline, Tick
<1>. QED  BY <1>1, <1>2, <1>3, <1>6 DEF Next, vars

\* A scan that is about to send sends, or what it did not send is recorded as lost.
LEMMA ScanPublishes ==
  ASSUME TypeOK, DownIsIdle, [Next]_vars, NEW q \in Processes, sched[q].pc = "push"
  PROVE  \/ sched'[q] = sched[q]
         \/ Push(sched[q].task, sched[q].resume)
         \/ lost'[sched[q].task] # {}
<1>. USE DEF TypeOK
<1>1. ASSUME NEW p \in Processes, EndScan(p), p # q PROVE sched'[q] = sched[q]
  BY <1>1 DEF EndScan, SchedType
<1>2. CASE EndScan(q)  BY <1>2 DEF EndScan, SchedType, PastType
<1>3. ASSUME NEW p \in Processes, Recover(p)
      PROVE  sched'[q] = sched[q] \/ Push(sched[q].task, sched[q].resume) \/ EndScan(p)
  <2>1. CASE p = q
    BY <1>3, <2>1 DEF Recover, ScanPaused, ScanZombies, ScanExpired, PickTask, ResetToPending,
       PickExpired, PushRecovered, FailExpired, FinishScan, DownIsIdle
  <2>2. CASE p # q
    BY <1>3, <2>2 DEF Recover, ScanPaused, ScanZombies, ScanExpired, Scan, PickTask,
       ResetToPending, PickExpired, PushRecovered, FailExpired, FinishScan, SchedType
  <2>. QED  BY <2>1, <2>2
<1>4. ASSUME NEW e \in Executors, Run(e) PROVE UNCHANGED sched
  BY <1>4, RunFrame
<1>5. ASSUME NEW c \in Clients, Serve(c) \/ Request(c) PROVE UNCHANGED sched
  BY <1>5, GatewayFrame
<1>6. ASSUME NEW p \in Processes, Crash(p) PROVE sched'[q] = sched[q] \/ lost'[sched[q].task] # {}
  <2>1. CASE p = q  BY <1>6, <2>1 DEF Crash, SchedType
  <2>2. CASE p # q  BY <1>6, <2>2 DEF Crash, SchedType
  <2>. QED  BY <2>1, <2>2
<1>7. CASE Fault
  BY <1>1, <1>2, <1>6, <1>7 DEF Fault, HandleError, RedisError, Interrupt, AbortScan, Shutdown,
     Exit, GatewayCrash, FlagExpires, HitlDeadline, Tick
<1>. QED  BY <1>1, <1>2, <1>3, <1>4, <1>5, <1>7 DEF Next, vars

\* So does a request.
LEMMA RequestPublishes ==
  ASSUME TypeOK, [Next]_vars, NEW d \in Clients, gw[d].pc \in {"enqueue", "resume"}
  PROVE  \/ gw'[d] = gw[d]
         \/ Push(gw[d].task, 0) \/ Push(gw[d].task, ckpt[gw[d].task].step)
         \/ lost'[gw[d].task] # {}
<1>. USE DEF TypeOK
<1>1. ASSUME NEW c \in Clients, Serve(c) \/ Request(c) \/ GatewayCrash(c), c # d
      PROVE  gw'[d] = gw[d]
  BY <1>1 DEF Serve, Request, CreateTask, EnqueueTask, CommitCancel, SetFlag, ResolveHitl,
     ResumeTask, SendMessage, CancelTask, RespondHitl, GatewayCrash, GwType
<1>2. CASE Serve(d) \/ Request(d)
  BY <1>2 DEF Serve, Request, CreateTask, EnqueueTask, CommitCancel, SetFlag, ResolveHitl,
     ResumeTask, SendMessage, CancelTask, RespondHitl
<1>3. CASE GatewayCrash(d)  BY <1>3 DEF GatewayCrash, Lose, PastType, GwType
<1>4. ASSUME NEW e \in Executors, Run(e) PROVE UNCHANGED gw
  BY <1>4, RunFrame
<1>5. ASSUME NEW p \in Processes, Recover(p) PROVE UNCHANGED gw
  BY <1>5, RecoverFrame
<1>6. CASE Fault
  BY <1>1, <1>3, <1>6 DEF Fault, HandleError, RedisError, Interrupt, AbortScan, Shutdown, Exit,
     Crash, FlagExpires, HitlDeadline, Tick
<1>. QED  BY <1>1, <1>2, <1>3, <1>4, <1>5, <1>6 DEF Next, vars

\* A coroutine goes on with a PENDING task, or ends its pendency, or the way it left is recorded.
LEMMA WorkedOnStep ==
  ASSUME TypeOK, [Next]_vars, NEW t \in Tasks, status[t] = "PENDING", status'[t] = "PENDING",
         NEW e \in Executors, ex[e].task = t, ex[e].pc \in Working
  PROVE  (ex'[e].task = t /\ ex'[e].pc \in Working) \/ lost'[t] # {}
<1>. USE DEF TypeOK, PastType
<1>1. ASSUME NEW why, Lose(t, why) PROVE lost'[t] # {}  BY <1>1 DEF Lose
<1>2. CASE ex'[e] = ex[e]  BY <1>2
<1>3. ASSUME NEW f \in Executors, Run(f) \/ HandleError(f) \/ RedisError(f) \/ Interrupt(f), f # e
      PROVE  ex'[e] = ex[e]
  BY <1>3 DEF Run, Consume, AcquireLock, LoadTask, DropIfFlagged, MarkRunning, CheckCancelled,
     PauseTask, RecordStep, CheckpointConflict, RetryCheckpoint, WriteStep, RenewLock, Heartbeat,
     CreateHitl, FinishTask, Ack, ReleaseLock, HandleError, RedisError, Interrupt, Goto, Leave, Yield,
     ExType
<1>4. ASSUME NEW pc \in Working, Goto(e, pc) PROVE ex'[e].task = t /\ ex'[e].pc \in Working
  BY <1>4, GotoMoves
<1>5. CASE Run(e)
  <2>1. CASE AcquireLock(e)
    BY <1>1, <1>4, <2>1 DEF AcquireLock, Working, InTry
  <2>2. CASE LoadTask(e)
    <3>1. CASE ex' = [ex EXCEPT ![e].pc = "start", ![e].ver = ckpt[t].version]
      BY <3>1 DEF ExType, ExecutorState, Working, InTry
    <3>. QED  BY <1>1, <2>2, <3>1 DEF LoadTask, DropIfFlagged, Terminal
  <2>3. CASE CheckCancelled(e)
    <3>1. CASE \E pc \in {"pause", "step"} : Yield(e, pc)
      BY <3>1 DEF Yield, ExType, ExecutorState, Working, InTry
    <3>2. CASE Goto(e, "commit")
      <4>1. "commit" \in Working  BY DEF Working, InTry
      <4>. QED  BY <1>4, <3>2, <4>1
    <3>. QED  BY <1>1, <2>3, <3>1, <3>2 DEF CheckCancelled, DropIfFlagged
  <2>4. CASE PauseTask(e) \/ CreateHitl(e) \/ FinishTask(e)
    BY <2>4 DEF PauseTask, CreateHitl, FinishTask, DbType
  <2>5. CASE MarkRunning(e) \/ Heartbeat(e)  BY <2>5 DEF MarkRunning, Heartbeat, DbType
  <2>6. CASE RecordStep(e) \/ RetryCheckpoint(e)
    BY <2>6 DEF RecordStep, RetryCheckpoint, WriteStep, ExType, ExecutorState, Working, InTry
  <2>7. CASE CheckpointConflict(e)
    BY <2>7 DEF CheckpointConflict, ExType, ExecutorState, Working, InTry
  <2>8. CASE RenewLock(e)  BY <1>4, <2>8 DEF RenewLock, Working, InTry
  <2>9. CASE Consume(e) \/ Ack(e) \/ ReleaseLock(e)
    BY <2>9 DEF Consume, Ack, ReleaseLock, Working, InTry
  <2>. QED
    BY <1>5, <2>1, <2>2, <2>3, <2>4, <2>5, <2>6, <2>7, <2>8, <2>9 DEF Run
<1>6. CASE HandleError(e)  BY <1>1, <1>6 DEF HandleError, DbType
<1>7. CASE RedisError(e) \/ Interrupt(e)
  BY <1>1, <1>7 DEF RedisError, Interrupt, Working, InTry
<1>8. ASSUME NEW p \in Processes, Crash(p) PROVE ex'[e] = ex[e] \/ lost'[t] # {}
  <2>1. CASE ProcOf[e] = p
    <3>1. "unacked" \in {"unacked" : g \in {f \in Executors : ProcOf[f] = p /\ ex[f].task = t
                                             /\ ex[f].pc \in Working \cup {"ack", "errack"}}}
      BY <2>1
    <3>. QED  BY <1>8, <3>1 DEF Crash
  <2>2. CASE ProcOf[e] # p  BY <1>8, <2>2 DEF Crash
  <2>. QED  BY <2>1, <2>2
<1>9. ASSUME NEW p \in Processes, Recover(p) PROVE UNCHANGED ex
  BY <1>9, RecoverFrame
<1>10. ASSUME NEW c \in Clients, Serve(c) \/ Request(c) PROVE UNCHANGED ex
  BY <1>10, GatewayFrame
<1>11. CASE Fault
  BY <1>2, <1>3, <1>6, <1>7, <1>8, <1>11 DEF Fault, AbortScan, Shutdown, Exit, GatewayCrash,
     FlagExpires, HitlDeadline, Tick
<1>. QED  BY <1>2, <1>3, <1>5, <1>9, <1>10, <1>11 DEF Next, vars

\* Each way to carry a PENDING task turns into another one or ends in the record of losses.
LEMMA CarriedStep == TypeOK /\ DownIsIdle /\ PendingIsCarried /\ [Next]_vars => PendingIsCarried'
<1>. SUFFICES ASSUME TypeOK, DownIsIdle, PendingIsCarried, [Next]_vars,
                     NEW t \in Tasks, status'[t] = "PENDING"
              PROVE  Delivering(t)' \/ Publishing(t)' \/ WorkedOn(t)' \/ lost'[t] # {}
  BY DEF PendingIsCarried
<1>1. CASE status[t] # "PENDING"  BY <1>1, PendingIsPublished
<1>2. CASE status[t] = "PENDING" /\ lost[t] # {}  BY <1>2, LostStays
<1>3. CASE Delivering(t)  BY <1>3, DeliveringStep
<1>4. ASSUME NEW p \in Processes, sched[p].pc = "push", sched[p].task = t
      PROVE  Delivering(t)' \/ Publishing(t)' \/ lost'[t] # {}
  <2>1. sched[p].resume \in Nat  BY DEF TypeOK, SchedType, SchedState
  <2>2. CASE sched'[p] = sched[p]  BY <1>4, <2>2 DEF Publishing
  <2>. QED  BY <1>4, <2>1, <2>2, ScanPublishes, Pushed
<1>5. ASSUME NEW c \in Clients, gw[c].pc \in {"enqueue", "resume"}, gw[c].task = t
      PROVE  Delivering(t)' \/ Publishing(t)' \/ lost'[t] # {}
  <2>1. ckpt[t].step \in Nat /\ 0 \in Nat  BY DEF TypeOK, DbType
  <2>2. CASE gw'[c] = gw[c]  BY <1>5, <2>2 DEF Publishing
  <2>. QED  BY <1>5, <2>1, <2>2, RequestPublishes, Pushed
<1>6. ASSUME status[t] = "PENDING", NEW e \in Executors, ex[e].task = t, ex[e].pc \in Working
      PROVE  WorkedOn(t)' \/ lost'[t] # {}
  BY <1>6, WorkedOnStep DEF WorkedOn
<1>. QED
  BY <1>1, <1>2, <1>3, <1>4, <1>5, <1>6 DEF PendingIsCarried, Publishing, WorkedOn

\* A PENDING task is never forgotten silently.
THEOREM PendingCarried == Spec => []PendingIsCarried
<1>1. Init => DownIsIdle /\ PendingIsCarried  BY DEF Init, DownIsIdle, PendingIsCarried
<1>. QED  BY <1>1, TypeCorrect, DownStep, CarriedStep, PTL DEF Spec

-----------------------------------------------------------------------------
(* A waiting task has a question                                           *)

\* The marks of a scan are cleared, stay as they are, or grow by the request it picks.
LEMMA MarkedFrame ==
  ASSUME TypeOK, [Next]_vars, NEW q \in Processes
  PROVE  \/ sched'[q] = sched[q]
         \/ sched'[q].marked = {}
         \/ sched[q].pc # "fail" /\ sched'[q].marked = sched[q].marked
         \/ \E item \in sched[q].todo : PickExpired(q, item)
<1>. USE DEF TypeOK
<1>. DEFINE Goal == \/ sched'[q] = sched[q]
                    \/ sched'[q].marked = {}
                    \/ sched[q].pc # "fail" /\ sched'[q].marked = sched[q].marked
                    \/ \E item \in sched[q].todo : PickExpired(q, item)
<1>1. ASSUME NEW p \in Processes, EndScan(p) PROVE Goal
  BY <1>1 DEF EndScan, SchedType, IdleSched
<1>2. ASSUME NEW p \in Processes, NEW kind, NEW found, Scan(p, kind, found) PROVE Goal
  BY <1>2 DEF Scan, SchedType, IdleSched
<1>3. ASSUME NEW p \in Processes, NEW item \in sched[p].todo, PickTask(p, item) PROVE Goal
  BY <1>3 DEF PickTask, SchedType, SchedState
<1>4. ASSUME NEW p \in Processes, NEW item \in sched[p].todo, PickExpired(p, item) PROVE Goal
  <2>1. CASE p = q  BY <1>4, <2>1
  <2>2. CASE p # q  BY <1>4, <2>2 DEF PickExpired, SchedType
  <2>. QED  BY <2>1, <2>2
<1>5. ASSUME NEW p \in Processes, ResetToPending(p) \/ PushRecovered(p) PROVE Goal
  BY <1>5 DEF ResetToPending, PushRecovered, SchedType, SchedState
<1>6. ASSUME NEW p \in Processes, FailExpired(p) PROVE Goal
  BY <1>6 DEF FailExpired, SchedType, SchedState
<1>7. ASSUME NEW p \in Processes, Recover(p) PROVE Goal
  BY <1>1, <1>2, <1>3, <1>4, <1>5, <1>6, <1>7 DEF Recover, ScanPaused, ScanZombies, ScanExpired,
     FinishScan
<1>8. ASSUME NEW e \in Executors, Run(e) PROVE UNCHANGED sched
  BY <1>8, RunFrame
<1>9. ASSUME NEW c \in Clients, Serve(c) \/ Request(c) PROVE UNCHANGED sched
  BY <1>9, GatewayFrame
<1>10. ASSUME NEW p \in Processes, Crash(p) PROVE Goal  BY <1>10 DEF Crash, SchedType, IdleSched
<1>11. CASE Fault
  BY <1>1, <1>10, <1>11 DEF Fault, HandleError, RedisError, Interrupt, AbortScan, Shutdown, Exit,
     GatewayCrash, FlagExpires, HitlDeadline, Tick
<1>. QED  BY <1>7, <1>8, <1>9, <1>11 DEF Next, vars

\* The only actions that write a request.
LEMMA RequestFrame ==
  ASSUME [Next]_vars
  PROVE  \/ UNCHANGED hitl
         \/ \E e \in Executors : CreateHitl(e)
         \/ \E p \in Processes : FailExpired(p)
         \/ \E c \in Clients : ResolveHitl(c)
         \/ \E t \in Tasks : \E k \in DOMAIN hitl[t] : HitlDeadline(t, k)
<1>. USE DEF db
<1>1. ASSUME NEW e \in Executors, Run(e) PROVE UNCHANGED hitl \/ CreateHitl(e)
  BY <1>1 DEF Run, Consume, AcquireLock, LoadTask, MarkRunning, CheckCancelled, PauseTask,
     RecordStep, CheckpointConflict, RetryCheckpoint, WriteStep, RenewLock, Heartbeat,
     FinishTask, Ack, ReleaseLock
<1>2. ASSUME NEW p \in Processes, Recover(p) PROVE UNCHANGED hitl \/ FailExpired(p)
  BY <1>2 DEF Recover, ScanPaused, ScanZombies, ScanExpired, PickTask, ResetToPending,
     PickExpired, PushRecovered, FinishScan
<1>3. ASSUME NEW c \in Clients, Serve(c) \/ Request(c) PROVE UNCHANGED hitl \/ ResolveHitl(c)
  BY <1>3 DEF Serve, Request, CreateTask, EnqueueTask, CommitCancel, SetFlag,
     ResumeTask, SendMessage, CancelTask, RespondHitl
<1>4. ASSUME Fault PROVE UNCHANGED hitl \/ \E t \in Tasks : \E k \in DOMAIN hitl[t] : HitlDeadline(t, k)
  BY <1>4 DEF Fault, HandleError, RedisError, Interrupt, AbortScan, Shutdown, Exit, Crash,
     GatewayCrash, FlagExpires, Tick
<1>. QED  BY <1>1, <1>2, <1>3, <1>4 DEF Next, vars

\* Requests are never deleted.
LEMMA RequestsStay ==
  ASSUME TypeOK, [Next]_vars, NEW t \in Tasks
  PROVE  DOMAIN hitl[t] \subseteq DOMAIN hitl'[t]
<1>. USE DEF TypeOK, DbType
<1>1. Len(hitl[t]) \in Nat /\ DOMAIN hitl[t] = 1..Len(hitl[t])  BY LenProperties
<1>2. ASSUME NEW e \in Executors, CreateHitl(e) PROVE DOMAIN hitl[t] \subseteq DOMAIN hitl'[t]
  <2>1. CASE ex[e].task = t
    <3>1. hitl'[t] = Append(hitl[t], "PENDING")  BY <1>2, <2>1 DEF CreateHitl
    <3>2. DOMAIN hitl'[t] = 1..(Len(hitl[t]) + 1)
      BY <3>1, AppendProperties DEF Waiting
    <3>. QED  BY <1>1, <3>2
  <2>2. CASE ex[e].task # t  BY <1>2, <2>2 DEF CreateHitl
  <2>. QED  BY <2>1, <2>2
<1>3. ASSUME NEW p \in Processes, FailExpired(p) PROVE DOMAIN hitl[t] \subseteq DOMAIN hitl'[t]
  BY <1>3 DEF FailExpired
<1>4. ASSUME NEW c \in Clients, ResolveHitl(c) PROVE DOMAIN hitl[t] \subseteq DOMAIN hitl'[t]
  BY <1>4 DEF ResolveHitl
<1>5. ASSUME NEW u \in Tasks, NEW k, HitlDeadline(u, k) PROVE DOMAIN hitl[t] \subseteq DOMAIN hitl'[t]
  BY <1>5 DEF HitlDeadline
<1>. QED  BY <1>2, <1>3, <1>4, <1>5, RequestFrame

\* What a scan of expired requests lists and marks are requests that exist.
MarksExist ==
  \A p \in Processes :
    /\ \A item \in sched[p].marked : item[2] \in DOMAIN hitl[item[1]]
    /\ sched[p].kind = "expired" => \A item \in sched[p].todo : item[2] \in DOMAIN hitl[item[1]]

\* A scan lists and marks what it has read.
LEMMA MarksExistStep == TypeOK /\ MarksExist /\ [Next]_vars => MarksExist'
<1>. SUFFICES ASSUME TypeOK, MarksExist, [Next]_vars, NEW q \in Processes
              PROVE  /\ \A item \in sched'[q].marked : item[2] \in DOMAIN hitl'[item[1]]
                     /\ sched'[q].kind = "expired" =>
                          \A item \in sched'[q].todo : item[2] \in DOMAIN hitl'[item[1]]
  BY DEF MarksExist
<1>1. ASSUME NEW item \in Items, item[2] \in DOMAIN hitl[item[1]]
      PROVE  item[2] \in DOMAIN hitl'[item[1]]
  BY <1>1, RequestsStay DEF Items
<1>2. sched[q].marked \subseteq Items /\ sched[q].todo \subseteq Items
  BY DEF TypeOK, SchedType, SchedState
<1>3. \A item \in sched[q].marked : item[2] \in DOMAIN hitl'[item[1]]  BY <1>1, <1>2 DEF MarksExist
<1>4. sched[q].kind = "expired" => \A item \in sched[q].todo : item[2] \in DOMAIN hitl'[item[1]]
  BY <1>1, <1>2 DEF MarksExist
<1>5. CASE \/ sched'[q] = sched[q]
           \/ /\ sched'[q].marked \subseteq sched[q].marked
              /\ sched'[q].kind = sched[q].kind /\ sched'[q].todo \subseteq sched[q].todo
  BY <1>3, <1>4, <1>5
<1>6. CASE sched'[q] = IdleSched  BY <1>6 DEF IdleSched
<1>. DEFINE found == UNION {{<<t, k>> : k \in {j \in DOMAIN hitl[t] : hitl[t][j] = "DUE"}}
                            : t \in Tasks}
<1>7. ASSUME NEW kind, NEW items, Scan(q, kind, items),
             kind = "expired" => items = found /\ UNCHANGED hitl
      PROVE  /\ \A item \in sched'[q].marked : item[2] \in DOMAIN hitl'[item[1]]
             /\ sched'[q].kind = "expired" =>
                  \A item \in sched'[q].todo : item[2] \in DOMAIN hitl'[item[1]]
  <2>1. sched'[q].marked = {} /\ sched'[q].kind = kind /\ sched'[q].todo = items
    BY <1>7 DEF Scan, IdleSched, TypeOK, SchedType
  <2>2. \A item \in found : item[2] \in DOMAIN hitl[item[1]]  OBVIOUS
  <2>. QED  BY <1>7, <2>1, <2>2
<1>8. ASSUME NEW item \in sched[q].todo, PickExpired(q, item)
      PROVE  /\ \A i \in sched'[q].marked : i[2] \in DOMAIN hitl'[i[1]]
             /\ sched'[q].kind = "expired" => \A i \in sched'[q].todo : i[2] \in DOMAIN hitl'[i[1]]
  <2>1. /\ sched[q].kind = "expired" /\ sched'[q].marked = sched[q].marked \cup {item}
        /\ sched'[q].todo \subseteq sched[q].todo
    BY <1>8 DEF PickExpired, TypeOK, SchedType, SchedState
  <2>. QED  BY <1>3, <1>4, <2>1
<1>9. ASSUME NEW p \in Processes, Recover(p), p # q PROVE sched'[q] = sched[q]
  BY <1>9 DEF Recover, ScanPaused, ScanZombies, ScanExpired, Scan, PickTask, ResetToPending,
     PickExpired, PushRecovered, FailExpired, FinishScan, EndScan, TypeOK, SchedType
<1>10. CASE Recover(q)
  <2>1. CASE ScanPaused(q)  BY <1>7, <2>1 DEF ScanPaused
  <2>2. CASE ScanZombies(q)  BY <1>7, <2>2 DEF ScanZombies
  <2>3. CASE ScanExpired(q)  BY <1>7, <2>3 DEF ScanExpired, db
  <2>4. ASSUME NEW item \in sched[q].todo, PickTask(q, item)
        PROVE  /\ sched'[q].marked \subseteq sched[q].marked
               /\ sched'[q].kind = sched[q].kind /\ sched'[q].todo \subseteq sched[q].todo
    BY <2>4 DEF PickTask, TypeOK, SchedType, SchedState
  <2>5. CASE ResetToPending(q) \/ PushRecovered(q) \/ FailExpired(q)
    BY <1>5, <2>5 DEF ResetToPending, PushRecovered, FailExpired, TypeOK, SchedType, SchedState
  <2>6. CASE FinishScan(q)  BY <1>6, <2>6 DEF FinishScan, EndScan, TypeOK, SchedType
  <2>. QED  BY <1>5, <1>8, <1>10, <2>1, <2>2, <2>3, <2>4, <2>5, <2>6 DEF Recover
<1>11. ASSUME NEW e \in Executors, Run(e) PROVE UNCHANGED sched
  BY <1>11, RunFrame
<1>12. ASSUME NEW c \in Clients, Serve(c) \/ Request(c) PROVE UNCHANGED sched
  BY <1>12, GatewayFrame
<1>13. CASE Fault
  <2>1. sched'[q] = sched[q] \/ sched'[q] = IdleSched
    BY <1>13 DEF Fault, HandleError, RedisError, Interrupt, AbortScan, Shutdown, Exit, Crash,
       EndScan, GatewayCrash, FlagExpires, HitlDeadline, Tick, TypeOK, SchedType
  <2>. QED  BY <1>5, <1>6, <2>1
<1>. QED  BY <1>5, <1>9, <1>10, <1>11, <1>12, <1>13 DEF Next, vars

\* Request k of task t can still be answered, or failed by the scan that has marked it.
Open(t, k) ==
  /\ hitl[t][k] \in Waiting
  /\ \A p \in Processes : <<t, k>> \in sched[p].marked => sched[p].pc = "fail" /\ sched[p].task = t

WaitingHasOpen ==
  \A t \in Tasks : status[t] = "WAITING_HUMAN" => \E k \in DOMAIN hitl[t] : Open(t, k)

\* The request a coroutine asks is open.
LEMMA AskedIsOpen ==
  ASSUME TypeOK, MarksExist, NEW e \in Executors, CreateHitl(e), NEW t \in Tasks, ex[e].task = t
  PROVE  \E k \in DOMAIN hitl'[t] : Open(t, k)'
<1>. DEFINE S == Waiting \cup {"RESOLVED", "EXPIRED"}
<1>1. hitl[t] \in Seq(S) /\ hitl'[t] = Append(hitl[t], "PENDING")
  BY DEF CreateHitl, TypeOK, DbType
<1>2. "PENDING" \in S /\ "PENDING" \in Waiting  BY DEF Waiting
<1>. HIDE DEF S
<1>. DEFINE k == Len(hitl[t]) + 1
<1>3. /\ k \in DOMAIN hitl'[t] /\ hitl'[t][k] = "PENDING"
      /\ k \notin DOMAIN hitl[t]
  BY <1>1, <1>2, AppendProperties, LenProperties
<1>4. \A p \in Processes : <<t, k>> \notin sched[p].marked  BY <1>3 DEF MarksExist
<1>5. UNCHANGED sched  BY DEF CreateHitl
<1>. HIDE DEF k
<1>. QED  BY <1>2, <1>3, <1>4, <1>5 DEF Open

\* An open request stays one as long as its task waits.
LEMMA OpenStays ==
  ASSUME TypeOK, [Next]_vars, NEW t \in Tasks, NEW k \in DOMAIN hitl[t], Open(t, k),
         status[t] = "WAITING_HUMAN", status'[t] = "WAITING_HUMAN"
  PROVE  Open(t, k)'
<1>. USE DEF TypeOK, DbType
<1>1. hitl'[t][k] \in Waiting
  <2>1. ASSUME NEW e \in Executors, CreateHitl(e) PROVE hitl'[t][k] = hitl[t][k]
    <3>1. CASE ex[e].task = t
      <4>1. hitl'[t] = Append(hitl[t], "PENDING")  BY <2>1, <3>1 DEF CreateHitl
      <4>2. k \in 1..Len(hitl[t])  BY LenProperties
      <4>. QED  BY <4>1, <4>2, AppendProperties DEF Waiting
    <3>2. CASE ex[e].task # t  BY <2>1, <3>2 DEF CreateHitl
    <3>. QED  BY <3>1, <3>2
  <2>2. ASSUME NEW p \in Processes, FailExpired(p) PROVE hitl'[t][k] = hitl[t][k]
    <3>1. sched[p].task # t  BY <2>2 DEF FailExpired
    <3>2. <<t, k>> \notin sched[p].marked  BY <3>1 DEF Open
    <3>. QED  BY <2>2, <3>2 DEF FailExpired
  <2>3. ASSUME NEW c \in Clients, ResolveHitl(c) PROVE hitl'[t][k] = hitl[t][k]
    <3>1. gw[c].task # t  BY <2>3 DEF ResolveHitl
    <3>. QED  BY <2>3, <3>1 DEF ResolveHitl
  <2>4. ASSUME NEW u \in Tasks, NEW j, HitlDeadline(u, j)
        PROVE  hitl'[t][k] = hitl[t][k] \/ hitl'[t][k] = "DUE"
    BY <2>4 DEF HitlDeadline
  <2>. QED  BY <2>1, <2>2, <2>3, <2>4, RequestFrame DEF Open, Waiting
<1>2. ASSUME NEW p \in Processes, <<t, k>> \in sched'[p].marked
      PROVE  sched'[p].pc = "fail" /\ sched'[p].task = t
  <2>1. CASE sched'[p] = sched[p]  BY <1>2, <2>1 DEF Open
  <2>2. CASE sched'[p].marked = {}  BY <1>2, <2>2
  <2>3. CASE sched[p].pc # "fail" /\ sched'[p].marked = sched[p].marked  BY <1>2, <2>3 DEF Open
  <2>4. ASSUME NEW item \in sched[p].todo, PickExpired(p, item)
        PROVE  sched'[p].pc = "fail" /\ sched'[p].task = t
    <3>1. sched[p].pc = "list" /\ <<t, k>> \notin sched[p].marked
      BY <2>4 DEF PickExpired, Open
    <3>2. sched'[p].marked = sched[p].marked \cup {item}
      BY <2>4 DEF PickExpired, SchedType, SchedState
    <3>3. item = <<t, k>>  BY <1>2, <3>1, <3>2
    <3>. QED  BY <2>4, <3>3 DEF PickExpired, SchedType, SchedState
  <2>. QED  BY <2>1, <2>2, <2>3, <2>4, MarkedFrame
<1>. QED  BY <1>1, <1>2 DEF Open

\* The open request of a waiting task is the one it asked or one it had.
LEMMA WaitingStep ==
  TypeOK /\ MarksExist /\ WaitingHasOpen /\ [Next]_vars => WaitingHasOpen'
<1>. SUFFICES ASSUME TypeOK, MarksExist, WaitingHasOpen, [Next]_vars,
                     NEW t \in Tasks, status'[t] = "WAITING_HUMAN"
              PROVE  \E k \in DOMAIN hitl'[t] : Open(t, k)'
  BY DEF WaitingHasOpen
<1>1. CASE status[t] = "WAITING_HUMAN"
  <2>1. PICK k \in DOMAIN hitl[t] : Open(t, k)  BY <1>1 DEF WaitingHasOpen
  <2>. QED  BY <1>1, <2>1, OpenStays, RequestsStay
<1>2. CASE status[t] # "WAITING_HUMAN"
  <2>. USE DEF TypeOK, DbType
  <2>1. ASSUME NEW e \in Executors, CreateHitl(e) PROVE ex[e].task = t
    BY <1>2, <2>1 DEF CreateHitl
  <2>2. ASSUME NEW e \in Executors,
               MarkRunning(e) \/ PauseTask(e) \/ Heartbeat(e) \/ FinishTask(e) \/ HandleError(e)
        PROVE  FALSE
    BY <1>2, <2>2 DEF MarkRunning, PauseTask, Heartbeat, FinishTask, HandleError
  <2>3. ASSUME NEW p \in Processes, ResetToPending(p) \/ FailExpired(p) PROVE FALSE
    BY <1>2, <2>3 DEF ResetToPending, FailExpired
  <2>4. ASSUME NEW c \in Clients, CreateTask(c) \/ CommitCancel(c) \/ ResolveHitl(c) PROVE FALSE
    BY <1>2, <2>4 DEF CreateTask, CommitCancel, ResolveHitl
  <2>5. ASSUME Tick PROVE FALSE  BY <1>2, <2>5 DEF Tick
  <2>6. \E e \in Executors : CreateHitl(e) /\ ex[e].task = t
    BY <1>2, <2>1, <2>2, <2>3, <2>4, <2>5, StatusFrame DEF StatusWriter
  <2>. QED  BY <2>6, AskedIsOpen
<1>. QED  BY <1>1, <1>2

\* A task that waits for a human has a request somebody can still settle.
THEOREM WaitingQuestion == Spec => []WaitingHasQuestion
<1>1. Init => MarksExist /\ WaitingHasOpen
  BY DEF Init, MarksExist, WaitingHasOpen, IdleSched
<1>2. WaitingHasOpen => WaitingHasQuestion  BY DEF WaitingHasOpen, WaitingHasQuestion, Open
<1>. QED  BY <1>1, <1>2, TypeCorrect, MarksExistStep, WaitingStep, PTL DEF Spec

=============================================================================
