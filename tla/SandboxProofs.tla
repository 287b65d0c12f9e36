---------------------------- MODULE SandboxProofs ----------------------------
(***************************************************************************)
(* Theorems about what the sandbox daemon serves: CommandExec, for every   *)
(* number of calls and ids, every family of descendants and any number of  *)
(* restarts of the daemon; BrowserSessions, for every number of requests   *)
(* and ids; and the parts together, with those of FileVersions.            *)
(***************************************************************************)
EXTENDS MCSandbox, FileVersionsProofs

(*                                 Commands                                *)

\* How often a command was started, by where its tool and its handler stand: not at all before
\* the daemon accepted it, once before the tool runs it itself, and a second time is in order
\* only when the first request failed.
RunsCounted ==
  \A c \in Calls :
    /\ client[c] = "idle" => handler[c] = "none"
    /\ handler[c] \in {"none", "refused"} /\ client[c] \in {"idle", "posted", "local", "raised"}
         => runs[c] = 0
    /\ client[c] \in {"idle", "posted", "local", "raised"} => runs[c] <= 1
    /\ tool[c] = "gateway" /\ client[c] = "local" => runs[c] = 0
    /\ client[c] = "local" /\ runs[c] = 1 => handler[c] = "lost" \/ expired[c]

\* The inductive invariant.
ExecInv == ExecTypeOK /\ RunsCounted /\ NoSilentRepeat /\ KillTable

-----------------------------------------------------------------------------
(* Processes                                                               *)

Process == [shell : {"none", "running", "dead"}, exit : {"none", "ok", "fail", "killed"},
            kids : SUBSET Kids]

\* Killing a command by its id, or its shell alone, leaves processes.
LEMMA KillsLeaveProcesses ==
  ASSUME ExecTypeOK
  PROVE  /\ \A i \in ExecIds : KillOf(i) \in [Calls -> Process]
         /\ \A c \in Calls : Slay(c) \in [Calls -> Process]
<1>1. proc \in [Calls -> Process]  BY DEF ExecTypeOK, Process
<1>2. Killed \in Process  BY DEF Killed, Process
<1>3. ASSUME NEW i \in ExecIds PROVE KillOf(i) \in [Calls -> Process]
  BY <1>1, <1>2 DEF KillOf
<1>4. ASSUME NEW c \in Calls PROVE Slay(c) \in [Calls -> Process]
  BY <1>1 DEF Slay, Process
<1>. QED  BY <1>3, <1>4

\* A failed request leaves a tool that is somewhere, with the result it had.
LEMMA FailedPostMoves ==
  ASSUME ExecTypeOK, NEW c \in Calls, FailedPost(c)
  PROVE  /\ client' = [client EXCEPT ![c] = IF tool[c] = "gateway" THEN "raised" ELSE "local"]
         /\ UNCHANGED reply
  BY DEF FailedPost

-----------------------------------------------------------------------------
(* The invariant is inductive                                              *)

\* The initial state satisfies it.
LEMMA ExecInvInit == ASSUME MaxCrashes \in Nat PROVE ExecInit => ExecInv
<1>. SUFFICES ASSUME ExecInit PROVE ExecInv  OBVIOUS
<1>1. ExecTypeOK  BY DEF ExecInit, ExecTypeOK, NotStarted, Ended, Handled
<1>2. ASSUME NEW c \in Calls PROVE client[c] = "idle" /\ handler[c] = "none" /\ runs[c] = 0
  BY DEF ExecInit
<1>3. 0 <= 1 /\ 0 # 1 /\ 0 # 2  OBVIOUS
<1>4. RunsCounted  BY <1>2, <1>3, Zenon DEF RunsCounted
<1>5. NoSilentRepeat  BY <1>2, <1>3, Zenon DEF NoSilentRepeat
<1>6. KillTable  BY DEF ExecInit, KillTable
<1>. QED  BY <1>1, <1>4, <1>5, <1>6 DEF ExecInv

\* Starting a command.
LEMMA StartCommandInv ==
  ASSUME ExecInv, NEW c \in Calls, StartCommand(c)
  PROVE  ExecInv'
<1>. USE DEF ExecInv
<1>1. ExecTypeOK'
  <2>1. runs[c] = 0 /\ runs \in [Calls -> 0..2] /\ proc \in [Calls -> Process]
    BY DEF StartCommand, Pending, RunsCounted, ExecTypeOK, Process
  <2>2. runs' \in [Calls -> 0..2]  BY <2>1 DEF StartCommand, Begin
  <2>3. proc' \in [Calls -> Process]
    <3>1. CASE UNCHANGED proc  BY <2>1, <3>1
    <3>2. ASSUME NEW kids \in SUBSET Kids,
                 proc' = [proc EXCEPT ![c] = [shell |-> "running", exit |-> "none", kids |-> kids]]
          PROVE  proc' \in [Calls -> Process]
      BY <2>1, <3>2 DEF Process
    <3>. QED  BY <3>1, <3>2 DEF StartCommand
  <2>4. handler' \in [Calls -> Handled \cup {"none", "refused", "gone", "lost"}]
    BY DEF StartCommand, ExecTypeOK, Handled
  <2>. QED  BY <2>2, <2>3, <2>4 DEF StartCommand, ExecTypeOK, Process
<1>2. RunsCounted'  BY <1>1 DEF StartCommand, RunsCounted, NoSilentRepeat, ExecTypeOK, Begin, Pending, Handled
<1>3. NoSilentRepeat'  BY <1>1 DEF StartCommand, RunsCounted, NoSilentRepeat, ExecTypeOK, Begin, Pending, Handled
<1>4. KillTable'
  <2>1. UNCHANGED <<execId, processes>> /\ handler[c] = "none"  BY DEF StartCommand
  <2>2. \A d \in Calls : \/ handler'[d] = handler[d]
                         \/ d = c /\ handler'[d] \in {"started", "refused"}
    <3>1. PICK h \in {"started", "refused"} : handler' = [handler EXCEPT ![c] = h]
      BY DEF StartCommand
    <3>. QED  BY <3>1 DEF ExecTypeOK
  <2>3. ASSUME NEW i \in ExecIds, processes[i] # NoCall
        PROVE  handler'[processes[i]] \in {"waiting", "answered"} /\ execId[processes[i]] = i
    <3>1. processes[i] \in Calls  BY <2>3 DEF ExecTypeOK
    <3>2. handler[processes[i]] \in {"waiting", "answered"} /\ execId[processes[i]] = i
      BY <2>3 DEF KillTable
    <3>3. processes[i] # c  BY <2>1, <3>2
    <3>. QED  BY <2>2, <3>1, <3>2, <3>3
  <2>4. ASSUME NEW d \in Calls, handler'[d] \in {"waiting", "answered"},
               \A e \in Calls \ {d} : execId[e] # execId[d]
        PROVE  processes[execId[d]] = d
    <3>1. handler'[d] = handler[d]  BY <2>2, <2>4
    <3>. QED  BY <2>4, <3>1 DEF KillTable
  <2>. QED  BY <2>1, <2>3, <2>4 DEF KillTable
<1>. QED  BY <1>1, <1>2, <1>3, <1>4

\* Registering it.
LEMMA RegisterInv ==
  ASSUME ExecInv, NEW c \in Calls, Register(c)
  PROVE  ExecInv'
<1>. USE DEF ExecInv
<1>1. ExecTypeOK'  BY DEF Register, ExecTypeOK, Handled
<1>2. RunsCounted'  BY <1>1 DEF Register, RunsCounted, NoSilentRepeat, ExecTypeOK, Handled
<1>3. NoSilentRepeat'  BY <1>1 DEF Register, RunsCounted, NoSilentRepeat, ExecTypeOK, Handled
<1>4. KillTable'  BY <1>1 DEF Register, KillTable, ExecTypeOK, Handled
<1>. QED  BY <1>1, <1>2, <1>3, <1>4

\* Its deadline.
LEMMA DeadlineInv ==
  ASSUME ExecInv, NEW c \in Calls, Deadline(c)
  PROVE  ExecInv'
<1>. USE DEF ExecInv
<1>1. ExecTypeOK'  BY KillsLeaveProcesses DEF Deadline, ExecTypeOK, Process
<1>2. RunsCounted'  BY <1>1 DEF Deadline, RunsCounted, NoSilentRepeat, ExecTypeOK
<1>3. NoSilentRepeat'  BY <1>1 DEF Deadline, RunsCounted, NoSilentRepeat, ExecTypeOK
<1>4. KillTable'  BY <1>1 DEF Deadline, KillTable, ExecTypeOK
<1>. QED  BY <1>1, <1>2, <1>3, <1>4

\* The end of the wait for it.
LEMMA WaitReturnsInv ==
  ASSUME ExecInv, NEW c \in Calls, WaitReturns(c)
  PROVE  ExecInv'
<1>. USE DEF ExecInv
<1>1. ExecTypeOK'  BY KillsLeaveProcesses DEF WaitReturns, ExecTypeOK, Process, Handled
<1>2. RunsCounted'  BY <1>1 DEF WaitReturns, RunsCounted, NoSilentRepeat, ExecTypeOK
<1>3. NoSilentRepeat'  BY <1>1 DEF WaitReturns, RunsCounted, NoSilentRepeat, ExecTypeOK
<1>4. KillTable'  BY <1>1 DEF WaitReturns, KillTable, ExecTypeOK
<1>. QED  BY <1>1, <1>2, <1>3, <1>4

\* The response to the tool.
LEMMA UnregisterInv ==
  ASSUME ExecInv, NEW c \in Calls, Unregister(c)
  PROVE  ExecInv'
<1>. USE DEF ExecInv
<1>1. ExecTypeOK'  BY DEF Unregister, ExecTypeOK, Answer, Ended
<1>2. RunsCounted'  BY <1>1 DEF Unregister, RunsCounted, NoSilentRepeat, ExecTypeOK, Pending, Ended, Handled
<1>3. NoSilentRepeat'  BY <1>1 DEF Unregister, RunsCounted, NoSilentRepeat, ExecTypeOK, Pending, Ended, Handled
<1>4. KillTable'  BY <1>1 DEF Unregister, KillTable, ExecTypeOK, Pending, Ended, Handled
<1>. QED  BY <1>1, <1>2, <1>3, <1>4

\* A tool begins.
LEMMA CallInv ==
  ASSUME ExecInv, NEW c \in Calls, Call(c)
  PROVE  ExecInv'
<1>. USE DEF ExecInv
<1>1. ExecTypeOK'  BY DEF Call, ExecTypeOK
<1>2. RunsCounted'  BY <1>1 DEF Call, RunsCounted, NoSilentRepeat, ExecTypeOK
<1>3. NoSilentRepeat'  BY <1>1 DEF Call, RunsCounted, NoSilentRepeat, ExecTypeOK
<1>4. KillTable'  BY <1>1 DEF Call, KillTable, ExecTypeOK
<1>. QED  BY <1>1, <1>2, <1>3, <1>4

\* The connection is lost with the daemon.
LEMMA ConnectionLostInv ==
  ASSUME ExecInv, NEW c \in Calls, ConnectionLost(c)
  PROVE  ExecInv'
<1>. USE DEF ExecInv
<1>1. ExecTypeOK'  BY FailedPostMoves DEF ConnectionLost, ExecTypeOK, Ended
<1>2. RunsCounted'  BY FailedPostMoves, <1>1 DEF ConnectionLost, RunsCounted, NoSilentRepeat, ExecTypeOK, Pending
<1>3. NoSilentRepeat'  BY FailedPostMoves, <1>1 DEF ConnectionLost, RunsCounted, NoSilentRepeat, ExecTypeOK, Pending
<1>4. KillTable'  BY <1>1 DEF ConnectionLost, KillTable, ExecTypeOK, Pending
<1>. QED  BY <1>1, <1>2, <1>3, <1>4

\* The tool gives up.
LEMMA ClientTimeoutInv ==
  ASSUME ExecInv, NEW c \in Calls, ClientTimeout(c)
  PROVE  ExecInv'
<1>. USE DEF ExecInv
<1>1. ExecTypeOK'  BY FailedPostMoves DEF ClientTimeout, ExecTypeOK, Ended
<1>2. RunsCounted'
  BY FailedPostMoves, <1>1
  DEF ClientTimeout, RunsCounted, NoSilentRepeat, ExecTypeOK, Pending, Handled
<1>3. NoSilentRepeat'
  BY FailedPostMoves, <1>1
  DEF ClientTimeout, RunsCounted, NoSilentRepeat, ExecTypeOK, Pending, Handled
<1>4. KillTable'  BY <1>1 DEF ClientTimeout, KillTable, ExecTypeOK, Pending, Handled
<1>. QED  BY <1>1, <1>2, <1>3, <1>4

\* The daemon refuses.
LEMMA RefusedInv ==
  ASSUME ExecInv, NEW c \in Calls, Refused(c)
  PROVE  ExecInv'
<1>. USE DEF ExecInv
<1>1. ExecTypeOK'  BY FailedPostMoves DEF Refused, ExecTypeOK, Ended
<1>2. RunsCounted'  BY FailedPostMoves, <1>1 DEF Refused, RunsCounted, NoSilentRepeat, ExecTypeOK, Pending
<1>3. NoSilentRepeat'  BY FailedPostMoves, <1>1 DEF Refused, RunsCounted, NoSilentRepeat, ExecTypeOK, Pending
<1>4. KillTable'  BY <1>1 DEF Refused, KillTable, ExecTypeOK, Pending
<1>. QED  BY <1>1, <1>2, <1>3, <1>4

\* The tool starts the command itself.
LEMMA RunLocallyInv ==
  ASSUME ExecInv, NEW c \in Calls, RunLocally(c)
  PROVE  ExecInv'
<1>. USE DEF ExecInv
<1>1. ExecTypeOK'  BY DEF RunLocally, ExecTypeOK, RunsCounted, Begin
<1>2. RunsCounted'  BY <1>1 DEF RunLocally, RunsCounted, NoSilentRepeat, ExecTypeOK, Begin
<1>3. NoSilentRepeat'  BY <1>1 DEF RunLocally, RunsCounted, NoSilentRepeat, ExecTypeOK, Begin
<1>4. KillTable'  BY <1>1 DEF RunLocally, KillTable, ExecTypeOK, Begin
<1>. QED  BY <1>1, <1>2, <1>3, <1>4

\* Its own command ends.
LEMMA LocalEndsInv ==
  ASSUME ExecInv, NEW c \in Calls, LocalEnds(c)
  PROVE  ExecInv'
<1>. USE DEF ExecInv
<1>1. ExecTypeOK'  BY DEF LocalEnds, ExecTypeOK, Ended
<1>2. RunsCounted'  BY <1>1 DEF LocalEnds, RunsCounted, NoSilentRepeat, ExecTypeOK
<1>3. NoSilentRepeat'  BY <1>1 DEF LocalEnds, RunsCounted, NoSilentRepeat, ExecTypeOK
<1>4. KillTable'  BY <1>1 DEF LocalEnds, KillTable, ExecTypeOK
<1>. QED  BY <1>1, <1>2, <1>3, <1>4

\* A shell ends.
LEMMA ShellExitsInv ==
  ASSUME ExecInv, NEW c \in Calls, ShellExits(c)
  PROVE  ExecInv'
<1>. USE DEF ExecInv
<1>1. ExecTypeOK'
  <2>1. PICK e \in {"ok", "fail"} : proc' = [proc EXCEPT ![c].shell = "dead", ![c].exit = e]
    BY DEF ShellExits
  <2>2. proc' \in [Calls -> Process]  BY <2>1 DEF ExecTypeOK, Process
  <2>. QED  BY <2>2 DEF ShellExits, ExecTypeOK, Process
<1>2. RunsCounted'  BY <1>1 DEF ShellExits, RunsCounted, NoSilentRepeat, ExecTypeOK
<1>3. NoSilentRepeat'  BY <1>1 DEF ShellExits, RunsCounted, NoSilentRepeat, ExecTypeOK
<1>4. KillTable'  BY <1>1 DEF ShellExits, KillTable, ExecTypeOK
<1>. QED  BY <1>1, <1>2, <1>3, <1>4

\* A descendant ends.
LEMMA KidExitsInv ==
  ASSUME ExecInv, NEW c \in Calls, KidExits(c)
  PROVE  ExecInv'
<1>. USE DEF ExecInv
<1>1. ExecTypeOK'
  <2>1. PICK k \in proc[c].kids : proc' = [proc EXCEPT ![c].kids = @ \ {k}]  BY DEF KidExits
  <2>2. proc' \in [Calls -> Process]  BY <2>1 DEF ExecTypeOK, Process
  <2>. QED  BY <2>2 DEF KidExits, ExecTypeOK, Process
<1>2. RunsCounted'  BY <1>1 DEF KidExits, RunsCounted, NoSilentRepeat, ExecTypeOK
<1>3. NoSilentRepeat'  BY <1>1 DEF KidExits, RunsCounted, NoSilentRepeat, ExecTypeOK
<1>4. KillTable'  BY <1>1 DEF KidExits, KillTable, ExecTypeOK
<1>. QED  BY <1>1, <1>2, <1>3, <1>4

\* A kill request changes processes and nothing else.
LEMMA HandleKillInv ==
  ASSUME ExecInv, NEW i \in ExecIds, HandleKill(i)
  PROVE  ExecInv'
<1>. USE DEF ExecInv
<1>1. ExecTypeOK'  BY KillsLeaveProcesses DEF HandleKill, ExecTypeOK, Process
<1>2. RunsCounted'  BY DEF HandleKill, RunsCounted
<1>3. NoSilentRepeat'  BY DEF HandleKill, NoSilentRepeat
<1>4. KillTable'  BY DEF HandleKill, KillTable
<1>. QED  BY <1>1, <1>2, <1>3, <1>4

\* A restart empties the table and loses the handlers: nobody is registered any more.
LEMMA DaemonRestartsInv ==
  ASSUME ExecInv, DaemonRestarts, MaxCrashes \in Nat
  PROVE  ExecInv'
<1>. USE DEF ExecInv
<1>1. ExecTypeOK'
  <2>1. NotStarted \in Process /\ Killed \in Process  BY DEF NotStarted, Killed, Process
  <2>2. proc' \in [Calls -> Process]  BY <2>1 DEF DaemonRestarts
  <2>. QED  BY <2>2 DEF DaemonRestarts, ExecTypeOK, Process
<1>2. \A c \in Calls : handler'[c] = IF handler[c] \in Handled \/ Pending(c) THEN "lost" ELSE handler[c]
  BY DEF DaemonRestarts
<1>3. RunsCounted'  BY <1>2 DEF DaemonRestarts, RunsCounted, ExecTypeOK, Pending, Handled
<1>4. NoSilentRepeat'  BY <1>2 DEF DaemonRestarts, NoSilentRepeat, ExecTypeOK
<1>5. KillTable'  BY <1>2 DEF DaemonRestarts, KillTable, ExecTypeOK, Handled
<1>. QED  BY <1>1, <1>3, <1>4, <1>5

\* Every step preserves the invariant.
LEMMA ExecInvNext ==
  ASSUME MaxCrashes \in Nat
  PROVE  ExecInv /\ [ExecNext]_execVars => ExecInv'
<1>. SUFFICES ASSUME ExecInv, [ExecNext]_execVars PROVE ExecInv'  OBVIOUS
<1>1. ASSUME NEW c \in Calls, Handle(c) PROVE ExecInv'
  BY <1>1, StartCommandInv, RegisterInv, DeadlineInv, WaitReturnsInv, UnregisterInv DEF Handle
<1>2. ASSUME NEW c \in Calls, Client(c) PROVE ExecInv'
  BY <1>2, CallInv, ConnectionLostInv, ClientTimeoutInv, RefusedInv, RunLocallyInv, LocalEndsInv
     DEF Client
<1>3. ASSUME System PROVE ExecInv'
  BY <1>3, ShellExitsInv, KidExitsInv, HandleKillInv, DaemonRestartsInv DEF System
<1>4. CASE UNCHANGED execVars
  BY <1>4 DEF execVars, ExecInv, ExecTypeOK, RunsCounted, NoSilentRepeat, KillTable
<1>. QED  BY <1>1, <1>2, <1>3, <1>4 DEF ExecNext

\* The invariant holds in every reachable state.
LEMMA ExecInvariant == ASSUME MaxCrashes \in Nat PROVE ExecInit /\ [][ExecNext]_execVars => []ExecInv
<1>. QED  BY ExecInvInit, ExecInvNext, PTL

-----------------------------------------------------------------------------
(* Theorems                                                                *)

\* Every reachable state has the declared types; in particular a command is started twice at most.
THEOREM ExecTypes == ASSUME MaxCrashes \in Nat PROVE ExecSpec => []ExecTypeOK
<1>1. ExecInv => ExecTypeOK  BY DEF ExecInv
<1>. QED  BY <1>1, ExecInvariant, PTL DEF ExecSpec

\* ProcessManager's table (manager.go) always agrees with the handlers: whatever a kill request or a
\* timeout reaches is a command that is being handled under that very id.
THEOREM KillTableAgrees == ASSUME MaxCrashes \in Nat PROVE ExecSpec => []KillTable
<1>1. ExecInv => KillTable  BY DEF ExecInv
<1>. QED  BY <1>1, ExecInvariant, PTL DEF ExecSpec

\* SandboxRunCommandTool of the gateway (sandbox.py) never starts a command twice, that of the runtime
\* only after the daemon failed it.
THEOREM RepeatIsNeverSilent == ASSUME MaxCrashes \in Nat PROVE ExecSpec => []NoSilentRepeat
<1>1. ExecInv => NoSilentRepeat  BY DEF ExecInv
<1>. QED  BY <1>1, ExecInvariant, PTL DEF ExecSpec

-----------------------------------------------------------------------------
(*                             Browser sessions                            *)

\* A request that is being served has an operation and an id.
BeingServed == \A r \in Requests : req[r].pc \in Active => req[r].op \in Ops /\ req[r].id \in Ids

\* Whoever creates or deletes a session holds the repository's lock, and the map still says
\* what it said when it took it.
LockedMap ==
  \A r \in Requests :
    /\ req[r].pc \in {"create", "closing"} => repoMu = r
    /\ req[r].pc = "create" => sessions[req[r].id] = NoReq
    /\ req[r].pc = "closing" => req[r].session \in Requests /\ sessions[req[r].id] = req[r].session

\* The inductive invariant.
BrowserInv == BrowserTypeOK /\ BeingServed /\ LockedMap /\ OpenHasDriver /\ NoOrphan

Request == [pc : {"idle", "done"} \cup Active, op : Ops \cup {"none"}, id : Ids \cup {NoReq},
            session : Requests \cup {NoReq}, reply : {"none", "ok", "error"}]

-----------------------------------------------------------------------------
(* Moves of a request                                                      *)

\* A request that goes on, finds its session or is answered is still a request.
LEMMA RequestMoves ==
  ASSUME BrowserTypeOK, NEW r \in Requests, NEW pc \in Active, NEW s \in Requests \cup {NoReq},
         NEW what \in {"ok", "error"},
         Moved(r, pc) \/ Found(r, s, pc) \/ AnswerR(r, what)
  PROVE  req' \in [Requests -> Request]
<1>1. req \in [Requests -> Request]  BY DEF BrowserTypeOK, Request
<1>2. req[r] \in Request  BY <1>1
<1>3. CASE Moved(r, pc)
  <2>1. [req[r] EXCEPT !.pc = pc] \in Request  BY <1>2 DEF Request
  <2>. QED  BY <1>1, <1>3, <2>1 DEF Moved
<1>4. CASE Found(r, s, pc)
  <2>1. [req[r] EXCEPT !.pc = pc, !.session = s] \in Request  BY <1>2 DEF Request
  <2>. QED  BY <1>1, <1>4, <2>1 DEF Found
<1>5. CASE AnswerR(r, what)
  <2>1. [req[r] EXCEPT !.pc = "done", !.reply = what] \in Request  BY <1>2 DEF Request
  <2>. QED  BY <1>1, <1>5, <2>1 DEF AnswerR
<1>. QED  BY <1>3, <1>4, <1>5

-----------------------------------------------------------------------------
(* The invariant is inductive                                              *)

\* The initial state satisfies it.
LEMMA BrowserInvInit == BrowserInit => BrowserInv
<1>. SUFFICES ASSUME BrowserInit PROVE BrowserInv  OBVIOUS
<1>1. ASSUME NEW r \in Requests PROVE req[r].pc = "idle"  BY DEF BrowserInit, NoRequest
<1>2. BrowserTypeOK  BY DEF BrowserInit, BrowserTypeOK, NoRequest
<1>3. BeingServed /\ LockedMap  BY <1>1 DEF BeingServed, LockedMap, Active
<1>4. OpenHasDriver /\ NoOrphan  BY DEF BrowserInit, OpenHasDriver, NoOrphan
<1>. QED  BY <1>2, <1>3, <1>4 DEF BrowserInv

\* A request arrives.
LEMMA ArriveInv ==
  ASSUME BrowserInv, NEW r \in Requests, Arrive(r)
  PROVE  BrowserInv'
<1>. USE DEF BrowserInv
<1>1. PICK op \in Ops, i \in Ids :
        req' = [req EXCEPT ![r] = [NoRequest EXCEPT !.pc = "repo", !.op = op, !.id = i]]
  BY DEF Arrive
<1>2. UNCHANGED <<sessions, repoMu, isOpen, mu, driver, root, dropped>>  BY DEF Arrive
<1>. DEFINE new == [NoRequest EXCEPT !.pc = "repo", !.op = op, !.id = i]
<1>3. NoRequest \in Request  BY DEF NoRequest, Request
<1>4. new \in Request /\ new.pc = "repo" /\ new.op = op /\ new.id = i  BY <1>3 DEF Request, Active
<1>. HIDE DEF new
<1>5. req' \in [Requests -> Request]  BY <1>1, <1>4 DEF BrowserTypeOK, Request, new
<1>6. BrowserTypeOK'  BY <1>2, <1>5 DEF BrowserTypeOK, Request
<1>7. \A s \in Requests : req'[s] = IF s = r THEN new ELSE req[s]  BY <1>1 DEF BrowserTypeOK, new
<1>8. BeingServed' /\ LockedMap'  BY <1>2, <1>7, <1>4 DEF BeingServed, LockedMap
<1>9. OpenHasDriver' /\ NoOrphan'  BY <1>2 DEF OpenHasDriver, NoOrphan
<1>. QED  BY <1>6, <1>8, <1>9

\* The session is found.
LEMMA LookupInv ==
  ASSUME BrowserInv, NEW r \in Requests, Lookup(r)
  PROVE  BrowserInv'
<1>. USE DEF BrowserInv
<1>1. req[r].id \in Ids  BY DEF Lookup, BeingServed, Active
<1>2. sessions[req[r].id] \in Requests \cup {NoReq}  BY <1>1 DEF BrowserTypeOK
<1>3. req' \in [Requests -> Request]  BY <1>2, RequestMoves DEF Lookup, Active
<1>4. BrowserTypeOK'  BY <1>3 DEF Lookup, BrowserTypeOK, Request
<1>5. BeingServed' /\ LockedMap'  BY DEF Lookup, Found, BeingServed, LockedMap, BrowserTypeOK, Active
<1>6. OpenHasDriver' /\ NoOrphan'  BY DEF Lookup, OpenHasDriver, NoOrphan
<1>. QED  BY <1>4, <1>5, <1>6

\* It is not: the lock is taken, which nobody had.
LEMMA MissInv ==
  ASSUME NoReq \notin Requests, BrowserInv, NEW r \in Requests, Miss(r)
  PROVE  BrowserInv'
<1>. USE DEF BrowserInv
<1>1. req' \in [Requests -> Request]  BY RequestMoves DEF Miss, Active
<1>2. BrowserTypeOK'  BY <1>1 DEF Miss, BrowserTypeOK, Request
<1>3. \A s \in Requests : req[s].pc \notin {"create", "closing"}  BY DEF Miss, LockedMap
<1>4. BeingServed' /\ LockedMap'  BY <1>3 DEF Miss, Moved, BeingServed, LockedMap, BrowserTypeOK, Active
<1>5. OpenHasDriver' /\ NoOrphan'  BY DEF Miss, OpenHasDriver, NoOrphan
<1>. QED  BY <1>2, <1>4, <1>5

\* A session is created, or not, by the holder of the lock.
LEMMA CreateInv ==
  ASSUME NoReq \notin Requests, BrowserInv, NEW r \in Requests, Create(r)
  PROVE  BrowserInv'
<1>. USE DEF BrowserInv
<1>1. /\ req[r].pc = "create" /\ req[r].id \in Ids /\ repoMu = r
      /\ sessions[req[r].id] = NoReq /\ repoMu' = NoReq
      /\ UNCHANGED <<isOpen, mu, dropped>>
  BY DEF Create, BeingServed, LockedMap, Active, Unlock
<1>2. \A s \in Requests \ {r} : req[s].pc \notin {"create", "closing"}  BY <1>1 DEF LockedMap
<1>3. root' \in {"none", "live", "dead"}  BY DEF Create, RootFor, BrowserTypeOK
<1>4. CASE /\ driver' = [driver EXCEPT ![r] = "open"]
           /\ sessions' = [sessions EXCEPT ![req[r].id] = r]
           /\ Found(r, r, "session")
  <2>1. req' \in [Requests -> Request]  BY <1>4, RequestMoves DEF Active
  <2>2. BrowserTypeOK'  BY <1>1, <1>3, <1>4, <2>1 DEF BrowserTypeOK, Request
  <2>3. BeingServed' /\ LockedMap'  BY <1>1, <1>2, <1>4 DEF Found, BeingServed, LockedMap, BrowserTypeOK, Active
  <2>4. OpenHasDriver'  BY <1>1, <1>4 DEF OpenHasDriver, BrowserTypeOK
  <2>5. NoOrphan'
    <3>1. SUFFICES ASSUME NEW s \in Requests, driver'[s] = "open"
                   PROVE  s \in dropped' \/ \E i \in Ids : sessions'[i] = s
      BY DEF NoOrphan
    <3>2. CASE s = r  BY <1>1, <1>4, <3>2 DEF BrowserTypeOK
    <3>3. CASE s # r
      <4>1. driver[s] = "open"  BY <1>4, <3>1, <3>3 DEF BrowserTypeOK
      <4>2. CASE s \in dropped  BY <1>1, <4>2
      <4>3. CASE \E i \in Ids : sessions[i] = s
        <5>1. PICK i \in Ids : sessions[i] = s  BY <4>3
        <5>2. i # req[r].id  BY <1>1, <5>1
        <5>. QED  BY <1>4, <5>1, <5>2 DEF BrowserTypeOK
      <4>. QED  BY <4>1, <4>2, <4>3 DEF NoOrphan
    <3>. QED  BY <3>2, <3>3
  <2>. QED  BY <2>2, <2>3, <2>4, <2>5
<1>5. CASE AnswerR(r, "error") /\ UNCHANGED <<driver, sessions>>
  <2>1. req' \in [Requests -> Request]  BY <1>5, RequestMoves DEF Active
  <2>2. BrowserTypeOK'  BY <1>1, <1>3, <1>5, <2>1 DEF BrowserTypeOK, Request
  <2>3. BeingServed' /\ LockedMap'  BY <1>1, <1>2, <1>5 DEF AnswerR, BeingServed, LockedMap, BrowserTypeOK, Active
  <2>4. OpenHasDriver' /\ NoOrphan'  BY <1>1, <1>5 DEF OpenHasDriver, NoOrphan
  <2>. QED  BY <2>2, <2>3, <2>4
<1>. QED  BY <1>4, <1>5 DEF Create

\* A request enters its session.
LEMMA EnterInv ==
  ASSUME BrowserInv, NEW r \in Requests, Enter(r)
  PROVE  BrowserInv'
<1>. USE DEF BrowserInv
<1>1. req' \in [Requests -> Request]  BY RequestMoves DEF Enter, Active
<1>2. BrowserTypeOK'  BY <1>1 DEF Enter, BrowserTypeOK, Request
<1>3. BeingServed' /\ LockedMap'  BY DEF Enter, Moved, BeingServed, LockedMap, BrowserTypeOK, Active
<1>4. OpenHasDriver' /\ NoOrphan'  BY DEF Enter, OpenHasDriver, NoOrphan
<1>. QED  BY <1>2, <1>3, <1>4

\* A page is opened only where the driver is.
LEMMA OpenPageInv ==
  ASSUME BrowserInv, NEW r \in Requests, OpenPage(r)
  PROVE  BrowserInv'
<1>. USE DEF BrowserInv
<1>. DEFINE s == req[r].session
<1>1. PICK navigate \in DriverCall(s), inspect \in DriverCall(s) :
        /\ isOpen' = IF navigate = "ok" THEN [isOpen EXCEPT ![s] = TRUE] ELSE isOpen
        /\ AnswerR(r, IF navigate = "ok" THEN inspect ELSE "error")
  BY DEF OpenPage
<1>2. /\ mu' = [mu EXCEPT ![s] = NoReq]
      /\ UNCHANGED <<sessions, repoMu, driver, root, dropped>>
  BY DEF OpenPage
<1>3. navigate = "ok" => driver[s] = "open"  BY DEF DriverCall
<1>4. (IF navigate = "ok" THEN inspect ELSE "error") \in {"ok", "error"}  BY DEF DriverCall
<1>5. req' \in [Requests -> Request]  BY <1>1, <1>4, RequestMoves DEF Active
<1>6. isOpen' \in [Requests -> BOOLEAN] /\ mu' \in [Requests -> Requests \cup {NoReq}]
  BY <1>1, <1>2 DEF BrowserTypeOK
<1>7. BrowserTypeOK'  BY <1>2, <1>5, <1>6 DEF BrowserTypeOK, Request
<1>8. BeingServed' /\ LockedMap'
  BY <1>1, <1>2 DEF OpenPage, AnswerR, BeingServed, LockedMap, BrowserTypeOK, Active
<1>9. OpenHasDriver'  BY <1>1, <1>2, <1>3 DEF OpenHasDriver, BrowserTypeOK
<1>10. NoOrphan'  BY <1>2 DEF NoOrphan
<1>. QED  BY <1>7, <1>8, <1>9, <1>10

\* A page is used.
LEMMA UsePageInv ==
  ASSUME BrowserInv, NEW r \in Requests, UsePage(r)
  PROVE  BrowserInv'
<1>. USE DEF BrowserInv
<1>1. PICK answer \in {"ok", "error"} : AnswerR(r, answer)  BY DEF UsePage, DriverCall
<1>2. UNCHANGED <<sessions, repoMu, isOpen, driver, root, dropped>>  BY DEF UsePage
<1>3. req' \in [Requests -> Request]  BY <1>1, RequestMoves DEF Active
<1>4. mu' \in [Requests -> Requests \cup {NoReq}]  BY DEF UsePage, BrowserTypeOK
<1>5. BrowserTypeOK'  BY <1>2, <1>3, <1>4 DEF BrowserTypeOK, Request
<1>6. BeingServed' /\ LockedMap'
  BY <1>1, <1>2 DEF UsePage, AnswerR, BeingServed, LockedMap, BrowserTypeOK, Active
<1>7. OpenHasDriver' /\ NoOrphan'  BY <1>2 DEF OpenHasDriver, NoOrphan
<1>. QED  BY <1>5, <1>6, <1>7

\* A close request for an unknown id.
LEMMA CloseUnknownInv ==
  ASSUME BrowserInv, NEW r \in Requests, CloseUnknown(r)
  PROVE  BrowserInv'
<1>. USE DEF BrowserInv
<1>1. req' \in [Requests -> Request]  BY RequestMoves DEF CloseUnknown, Active
<1>2. BrowserTypeOK'  BY <1>1 DEF CloseUnknown, BrowserTypeOK, Request
<1>3. BeingServed' /\ LockedMap'  BY DEF CloseUnknown, AnswerR, BeingServed, LockedMap, BrowserTypeOK, Active
<1>4. OpenHasDriver' /\ NoOrphan'  BY DEF CloseUnknown, OpenHasDriver, NoOrphan
<1>. QED  BY <1>2, <1>3, <1>4

\* A close request takes the lock, which nobody had.
LEMMA DeleteInv ==
  ASSUME NoReq \notin Requests, BrowserInv, NEW r \in Requests, Delete(r)
  PROVE  BrowserInv'
<1>. USE DEF BrowserInv
<1>1. req[r].id \in Ids  BY DEF Delete, BeingServed, Active
<1>2. sessions[req[r].id] \in Requests \cup {NoReq}  BY <1>1 DEF BrowserTypeOK
<1>3. req' \in [Requests -> Request]  BY <1>2, RequestMoves DEF Delete, Active
<1>4. BrowserTypeOK'  BY <1>3 DEF Delete, BrowserTypeOK, Request
<1>5. \A s \in Requests : req[s].pc \notin {"create", "closing"}  BY DEF Delete, LockedMap
<1>6. BeingServed' /\ LockedMap'  BY <1>5 DEF Delete, Found, BeingServed, LockedMap, BrowserTypeOK, Active
<1>7. OpenHasDriver' /\ NoOrphan'  BY DEF Delete, OpenHasDriver, NoOrphan
<1>. QED  BY <1>4, <1>6, <1>7

\* The session it found is closed, and is still the one it takes out of the map.
LEMMA ClosePageInv ==
  ASSUME NoReq \notin Requests, BrowserInv, NEW r \in Requests, ClosePage(r)
  PROVE  BrowserInv'
<1>. USE DEF BrowserInv
<1>. DEFINE s == req[r].session
<1>1. /\ req[r].pc = "closing" /\ req[r].id \in Ids /\ repoMu = r
      /\ sessions[req[r].id] = s
  BY DEF ClosePage, BeingServed, LockedMap, Active
<1>2. s \in Requests \cup {NoReq}  BY DEF BrowserTypeOK
<1>3. /\ driver' = IF isOpen[s] THEN [driver EXCEPT ![s] = "closed"] ELSE driver
      /\ isOpen' = [isOpen EXCEPT ![s] = FALSE]
      /\ dropped' = dropped \cup {s}
      /\ sessions' = [sessions EXCEPT ![req[r].id] = NoReq]
      /\ repoMu' = NoReq
      /\ AnswerR(r, "ok")
      /\ UNCHANGED <<mu, root>>
  BY DEF ClosePage
<1>4. s \in Requests  BY <1>1 DEF LockedMap
<1>5. \A q \in Requests \ {r} : req[q].pc \notin {"create", "closing"}  BY <1>1 DEF LockedMap
<1>6. req' \in [Requests -> Request]  BY <1>3, RequestMoves DEF Active
<1>7. BrowserTypeOK'  BY <1>3, <1>4, <1>6 DEF BrowserTypeOK, Request
<1>8. BeingServed' /\ LockedMap'
  BY <1>1, <1>3, <1>5 DEF AnswerR, BeingServed, LockedMap, BrowserTypeOK, Active
<1>9. OpenHasDriver'  BY <1>3, <1>4 DEF OpenHasDriver, BrowserTypeOK
<1>10. NoOrphan'
  <2>1. SUFFICES ASSUME NEW t \in Requests, driver'[t] = "open"
                 PROVE  t \in dropped' \/ \E i \in Ids : sessions'[i] = t
    BY DEF NoOrphan
  <2>2. driver[t] = "open"  BY <1>3, <1>4, <2>1 DEF BrowserTypeOK
  <2>3. CASE t \in dropped  BY <1>3, <2>3
  <2>4. CASE \E i \in Ids : sessions[i] = t
    <3>1. PICK i \in Ids : sessions[i] = t  BY <2>4
    <3>2. CASE i = req[r].id  BY <1>1, <1>3, <3>1, <3>2
    <3>3. CASE i # req[r].id  BY <1>3, <3>1, <3>3 DEF BrowserTypeOK
    <3>. QED  BY <3>2, <3>3
  <2>. QED  BY <2>2, <2>3, <2>4 DEF NoOrphan
<1>. QED  BY <1>7, <1>8, <1>9, <1>10

\* Chromium hangs or crashes.
LEMMA RootFailsInv == ASSUME BrowserInv, RootHangs \/ RootDies PROVE BrowserInv'
  BY DEF RootHangs, RootDies, BrowserInv, BrowserTypeOK, BeingServed, LockedMap, OpenHasDriver, NoOrphan

\* Every step preserves the invariant.
LEMMA BrowserInvNext ==
  ASSUME NoReq \notin Requests
  PROVE  BrowserInv /\ [BrowserNext]_browserVars => BrowserInv'
<1>. SUFFICES ASSUME BrowserInv, [BrowserNext]_browserVars PROVE BrowserInv'  OBVIOUS
<1>1. ASSUME NEW r \in Requests, Arrive(r) PROVE BrowserInv'  BY <1>1, ArriveInv
<1>2. ASSUME NEW r \in Requests, Serve(r) PROVE BrowserInv'
  BY <1>2, LookupInv, MissInv, CreateInv, EnterInv, OpenPageInv, UsePageInv, CloseUnknownInv,
     DeleteInv, ClosePageInv DEF Serve
<1>3. CASE UNCHANGED browserVars
  BY <1>3 DEF browserVars, BrowserInv, BrowserTypeOK, BeingServed, LockedMap, OpenHasDriver, NoOrphan
<1>. QED  BY <1>1, <1>2, <1>3, RootFailsInv DEF BrowserNext

\* The invariant holds in every reachable state.
LEMMA BrowserInvariant ==
  ASSUME NoReq \notin Requests
  PROVE  BrowserInit /\ [][BrowserNext]_browserVars => []BrowserInv
<1>. QED  BY BrowserInvInit, BrowserInvNext, PTL

-----------------------------------------------------------------------------
(* Theorems                                                                *)

\* Every reachable state has the declared types.
THEOREM BrowserTypes == ASSUME NoReq \notin Requests PROVE BrowserSpec => []BrowserTypeOK
<1>1. BrowserInv => BrowserTypeOK  BY DEF BrowserInv
<1>. QED  BY <1>1, BrowserInvariant, PTL DEF BrowserSpec

\* BrowserSession.isOpen (session.go) is never true of a driver that is closed, not even of a session
\* that one request closes while another one still holds it.
THEOREM OpenMeansDriver == ASSUME NoReq \notin Requests PROVE BrowserSpec => []OpenHasDriver
<1>1. BrowserInv => OpenHasDriver  BY DEF BrowserInv
<1>. QED  BY <1>1, BrowserInvariant, PTL DEF BrowserSpec

\* MemorySessionRepository (memory_repo.go) loses no driver: its lock is held across the factory, so an
\* entry is never overwritten, and across ClosePage, so the entry that goes is the one that was closed.
THEOREM NoDriverLost == ASSUME NoReq \notin Requests PROVE BrowserSpec => []NoOrphan
<1>1. BrowserInv => NoOrphan  BY DEF BrowserInv
<1>. QED  BY <1>1, BrowserInvariant, PTL DEF BrowserSpec

-----------------------------------------------------------------------------
(* The parts together                                                      *)

\* What the parts need of their constants.
Sane == MaxCrashes \in Nat /\ NoReq \notin Requests /\ Given

\* A step is one of each part, or leaves it alone.
LEMMA StepsArePartial ==
  [Next]_vars => [ExecNext]_execVars /\ [BrowserNext]_browserVars /\ [FileNext]_fileVars
  BY DEF Next, vars

\* The parts that MCSandbox puts together share no state: each goes on as if it were alone.
THEOREM SandboxRefinesParts ==
  Spec => /\ ExecInit /\ [][ExecNext]_execVars
          /\ BrowserInit /\ [][BrowserNext]_browserVars
          /\ FileInit /\ [][FileNext]_fileVars
<1>1. Init => ExecInit /\ BrowserInit /\ FileInit  BY DEF Init
<1>. QED  BY <1>1, StepsArePartial, PTL DEF Spec

\* Types of the state of all parts.
THEOREM SandboxTypes == ASSUME Sane PROVE Spec => []TypeOK
<1>1. MaxCrashes \in Nat /\ NoReq \notin Requests /\ Given  BY DEF Sane
<1>2. ExecInv /\ BrowserInv /\ FileInv => TypeOK  BY DEF TypeOK, ExecInv, BrowserInv, FileInv
<1>. QED  BY <1>1, <1>2, SandboxRefinesParts, ExecInvariant, BrowserInvariant, FileInvariant, PTL

\* The daemon as a whole: what holds of commands, browser sessions and files alone holds of a daemon
\* that serves all three.
THEOREM SandboxSafety ==
  ASSUME Sane
  PROVE  Spec => /\ [](/\ KillTable /\ NoSilentRepeat
                       /\ OpenHasDriver /\ NoOrphan
                       /\ VersionsGapless /\ GatewayWritersSerialize /\ SnapshotIsOwn /\ PreviewIsLatest)
                 /\ VersionLogSpec
<1>1. MaxCrashes \in Nat /\ NoReq \notin Requests /\ Given  BY DEF Sane
<1>2. ExecInv => KillTable /\ NoSilentRepeat  BY DEF ExecInv
<1>3. BrowserInv => OpenHasDriver /\ NoOrphan  BY DEF BrowserInv
<1>4. FileInv => VersionsGapless /\ GatewayWritersSerialize /\ SnapshotIsOwn
  BY DEF FileInv, Counted, Serial, OnlyGateway, GatewayWritersSerialize, Snapshots
<1>5. FileInit => Written  BY <1>1, WrittenInit
<1>6. FileInv /\ Written /\ [FileNext]_fileVars => Written'  BY <1>1, WrittenNext DEF FileInv
<1>7. FileInv /\ Written => PreviewIsLatest  BY <1>1, WrittenIsServed DEF FileInv
<1>. QED
  BY <1>1, <1>2, <1>3, <1>4, <1>5, <1>6, <1>7, SandboxRefinesParts, ExecInvariant, BrowserInvariant,
     FileInvariant, VersionsMakeLog, PTL

=============================================================================
