---------------------------- MODULE CommandExec ----------------------------
(***************************************************************************)
(* A shell command on its way from an agent's tool to the sandbox daemon   *)
(* and back: the tool of the gateway's worker and that of the agent        *)
(* runtime, the daemon's /exec and /exec/kill handlers, its table of       *)
(* running commands, and the processes of the command.                     *)
(*                                                                         *)
(* A command is a shell and descendants, of which one may hold the output  *)
(* pipe and one may have redirected its output (`cmd > log &').  Time is   *)
(* left to the actions Deadline and ClientTimeout.  Operators with a       *)
(* suffix are mutants of the definition after them.                        *)
(***************************************************************************)
EXTENDS Naturals

CONSTANTS
  Calls,        \* tool calls
  ExecIds,      \* ids a command may be registered under
  NoCall,       \* absent table entry
  Kids,         \* descendants a shell may leave: "pipe" holds the output, "detached" does not
  MaxCrashes    \* bound on restarts of the daemon's container

Tools  == {"gateway", "runtime"}

VARIABLES
  tool,       \* which tool makes the call
  client,     \* where the tool stands
  reply,      \* what it reported
  execId,     \* the id its command is registered under
  handler,    \* where the daemon's handler of the call stands
  expired,    \* the handler's context is past its deadline
  proc,       \* the processes of the command the daemon runs for the call
  runs,       \* history: how often the command was started
  processes,  \* ProcessManager.processes
  crashes

execVars == <<tool, client, reply, execId, handler, expired, proc, runs, processes, crashes>>

NotStarted == [shell |-> "none", exit |-> "none", kids |-> {}]
Killed     == [shell |-> "dead", exit |-> "killed", kids |-> {}]
Handled    == {"started", "waiting", "answered"}
Pending(c) == client[c] = "posted"
Ended      == {"done", "raised"}

\* Another call that is being handled uses the same id: callers may choose ids.
Shared(c) == \E d \in Calls \ {c} : handler[d] \in Handled /\ execId[d] = execId[c]

ExecInit ==
  /\ tool \in [Calls -> Tools]
  /\ client = [c \in Calls |-> "idle"]
  /\ reply = [c \in Calls |-> "none"]
  /\ execId \in [Calls -> ExecIds]
  /\ handler = [c \in Calls |-> "none"]
  /\ expired = [c \in Calls |-> FALSE]
  /\ proc = [c \in Calls |-> NotStarted]
  /\ runs = [c \in Calls |-> 0]
  /\ processes = [i \in ExecIds |-> NoCall]
  /\ crashes = 0

-----------------------------------------------------------------------------
(* The operating system                                                    *)

Begin(c) == runs' = [runs EXCEPT ![c] = @ + 1]

\* SIGKILL to the shell alone.
Slay(c) == [proc EXCEPT ![c].shell = "dead", ![c].exit = "killed"]

\* The shell ends by itself, its status 0 or not.  Descendants live on.
ShellExits(c) ==
  /\ proc[c].shell = "running"
  /\ \E e \in {"ok", "fail"} : proc' = [proc EXCEPT ![c].shell = "dead", ![c].exit = e]
  /\ UNCHANGED <<tool, client, reply, execId, handler, expired, runs, processes, crashes>>

KidExits(c) ==
  /\ \E k \in proc[c].kids : proc' = [proc EXCEPT ![c].kids = @ \ {k}]
  /\ UNCHANGED <<tool, client, reply, execId, handler, expired, runs, processes, crashes>>

\* Wait returns when the shell is gone and nobody holds the pipe.
Drained(c) == proc[c].shell = "dead" /\ "pipe" \notin proc[c].kids

-----------------------------------------------------------------------------
(* ProcessManager.Kill: the group is found through the shell, so a shell   *)
(* that is gone takes the descendants out of reach.                        *)

Reachable(i) == processes[i] # NoCall /\ proc[processes[i]].shell = "running"
KillOf(i) ==
  IF Reachable(i)
  THEN [proc EXCEPT ![processes[i]] = Killed]
  ELSE proc

\* POST /exec/kill, from whoever knows or guesses the id.
HandleKill(i) ==
  /\ \E c \in Calls : client[c] # "idle" /\ execId[c] = i
  /\ proc' = KillOf(i) /\ proc' # proc
  /\ UNCHANGED <<tool, client, reply, execId, handler, expired, runs, processes, crashes>>

-----------------------------------------------------------------------------
(* HandleExec                                                              *)

\* The command is started, and is not in the table yet.  A path outside the workspace and a
\* failing start answer at once.
StartCommand(c) ==
  /\ Pending(c) /\ handler[c] = "none"
  /\ \/ /\ handler' = [handler EXCEPT ![c] = "started"]
        /\ \E kids \in SUBSET Kids :
             proc' = [proc EXCEPT ![c] = [shell |-> "running", exit |-> "none", kids |-> kids]]
        /\ Begin(c)
     \/ /\ handler' = [handler EXCEPT ![c] = "refused"]
        /\ UNCHANGED <<proc, runs>>
  /\ UNCHANGED <<tool, client, reply, execId, expired, processes, crashes>>

\* Register overwrites what another command may have under the id.
Register(c) ==
  /\ handler[c] = "started"
  /\ processes' = [processes EXCEPT ![execId[c]] = c]
  /\ handler' = [handler EXCEPT ![c] = "waiting"]
  /\ UNCHANGED <<tool, client, reply, execId, expired, proc, runs, crashes>>

\* CommandContext kills the shell and only the shell.
Deadline(c) ==
  /\ handler[c] \in {"started", "waiting"} /\ ~expired[c]
  /\ expired' = [expired EXCEPT ![c] = TRUE]
  /\ proc' = IF proc[c].shell = "running" THEN Slay(c) ELSE proc
  /\ UNCHANGED <<tool, client, reply, execId, handler, runs, processes, crashes>>

\* cmd.Wait has returned.  An error after the deadline is a timeout, which kills whatever
\* is registered under the id by now.
WaitReturns(c) ==
  /\ handler[c] = "waiting" /\ Drained(c)
  /\ proc' = IF expired[c] /\ proc[c].exit # "ok" THEN KillOf(execId[c]) ELSE proc
  /\ handler' = [handler EXCEPT ![c] = "answered"]
  /\ UNCHANGED <<tool, client, reply, execId, expired, runs, processes, crashes>>

Answer(c) ==
  CASE proc[c].exit = "ok" -> "ok"
    [] expired[c]          -> "timeout"
    [] OTHER               -> "error"

Unregister_Leaves(c) ==
  /\ handler[c] = "answered"
  /\ handler' = [handler EXCEPT ![c] = "gone"]
  /\ IF Pending(c)
     THEN client' = [client EXCEPT ![c] = "done"] /\ reply' = [reply EXCEPT ![c] = Answer(c)]
     ELSE UNCHANGED <<client, reply>>
  /\ UNCHANGED <<tool, execId, expired, proc, runs, processes, crashes>>

\* The response goes out and the deferred Unregister drops whatever the id stands for.
Unregister(c) ==
  /\ handler[c] = "answered"
  /\ processes' = [processes EXCEPT ![execId[c]] = NoCall]
  /\ handler' = [handler EXCEPT ![c] = "gone"]
  /\ IF Pending(c)
     THEN client' = [client EXCEPT ![c] = "done"] /\ reply' = [reply EXCEPT ![c] = Answer(c)]
     ELSE UNCHANGED <<client, reply>>
  /\ UNCHANGED <<tool, execId, expired, proc, runs, crashes>>

\* The container goes down and comes back: its processes and its table are gone.
DaemonRestarts ==
  /\ crashes < MaxCrashes
  /\ \E c \in Calls : handler[c] \in Handled \/ Pending(c)
  /\ crashes' = crashes + 1
  /\ processes' = [i \in ExecIds |-> NoCall]
  /\ handler' = [c \in Calls |-> IF handler[c] \in Handled \/ Pending(c) THEN "lost" ELSE handler[c]]
  /\ proc' = [c \in Calls |-> IF proc[c] = NotStarted THEN NotStarted ELSE Killed]
  /\ UNCHANGED <<tool, client, reply, execId, expired, runs>>

-----------------------------------------------------------------------------
(* The tools: SandboxRunCommandTool.execute of both code bases             *)

\* The gateway asks for the daemon's health first, the runtime posts at once.
Call(c) ==
  /\ client[c] = "idle"
  /\ client' \in {[client EXCEPT ![c] = s] :
                    s \in {"posted"} \cup IF tool[c] = "gateway" THEN {"local"} ELSE {}}
  /\ UNCHANGED <<tool, reply, execId, handler, expired, proc, runs, processes, crashes>>

FailedPost_Retry(c) ==
  client' = [client EXCEPT ![c] = "local"] /\ UNCHANGED reply
\* The request failed.  The exception leaves the gateway's tool; the runtime's swallows it
\* and goes on to run the command itself.
FailedPost(c) ==
  IF tool[c] = "gateway"
  THEN client' = [client EXCEPT ![c] = "raised"] /\ UNCHANGED reply
  ELSE client' = [client EXCEPT ![c] = "local"] /\ UNCHANGED reply

\* The connection is lost.
ConnectionLost(c) ==
  /\ Pending(c) /\ handler[c] = "lost"
  /\ FailedPost(c)
  /\ UNCHANGED <<tool, execId, handler, expired, proc, runs, processes, crashes>>

ClientTimeout_None(c) ==
  /\ Pending(c) /\ expired[c] /\ handler[c] = "waiting" /\ Drained(c)
  /\ FailedPost(c)
  /\ UNCHANGED <<tool, execId, handler, expired, proc, runs, processes, crashes>>

\* httpx gives up five seconds after the daemon's own deadline.
ClientTimeout(c) ==
  /\ Pending(c) /\ expired[c] /\ handler[c] \in Handled
  /\ FailedPost(c)
  /\ UNCHANGED <<tool, execId, handler, expired, proc, runs, processes, crashes>>

\* A status other than 200 is an error result of the gateway's tool.
Refused(c) ==
  /\ Pending(c) /\ handler[c] = "refused"
  /\ IF tool[c] = "gateway"
     THEN client' = [client EXCEPT ![c] = "done"] /\ reply' = [reply EXCEPT ![c] = "error"]
     ELSE FailedPost(c)
  /\ UNCHANGED <<tool, execId, handler, expired, proc, runs, processes, crashes>>

\* create_subprocess_shell in the tool's own process ...
RunLocally(c) ==
  /\ client[c] = "local"
  /\ client' = [client EXCEPT ![c] = "running"] /\ Begin(c)
  /\ UNCHANGED <<tool, reply, execId, handler, expired, proc, processes, crashes>>

LocalEnds_Retries(c) ==
  /\ client[c] = "running"
  /\ \/ client' = [client EXCEPT ![c] = "done"] /\ reply' = [reply EXCEPT ![c] = "ok"]
     \/ client' = [client EXCEPT ![c] = "local"] /\ reply' = [reply EXCEPT ![c] = "error"]
  /\ UNCHANGED <<tool, execId, handler, expired, proc, runs, processes, crashes>>

\* ... and communicate() returns, or wait_for gives up after 60 s.
LocalEnds(c) ==
  /\ client[c] = "running"
  /\ client' = [client EXCEPT ![c] = "done"]
  /\ \E r \in {"ok", "error"} \cup IF tool[c] = "gateway" THEN {"timeout"} ELSE {} :
       reply' = [reply EXCEPT ![c] = r]
  /\ UNCHANGED <<tool, execId, handler, expired, proc, runs, processes, crashes>>

-----------------------------------------------------------------------------

Handle(c) == StartCommand(c) \/ Register(c) \/ Deadline(c) \/ WaitReturns(c) \/ Unregister(c)
Client(c) == \/ Call(c) \/ ConnectionLost(c) \/ ClientTimeout(c) \/ Refused(c)
             \/ RunLocally(c) \/ LocalEnds(c)
System    == \/ \E c \in Calls : ShellExits(c) \/ KidExits(c)
             \/ \E i \in ExecIds : HandleKill(i)
             \/ DaemonRestarts

ExecNext == System \/ \E c \in Calls : Handle(c) \/ Client(c)

\* The daemon's goroutines and timers run, and so does the tool's coroutine and its timeout.
\* Of commands, kills and restarts nothing is assumed.
ExecFairness == \A c \in Calls : WF_execVars(Handle(c)) /\ WF_execVars(Client(c))
ExecSpec     == ExecInit /\ [][ExecNext]_execVars /\ ExecFairness

-----------------------------------------------------------------------------
(* Properties                                                              *)

\* Types of the state.
ExecTypeOK ==
  /\ tool \in [Calls -> Tools]
  /\ client \in [Calls -> {"idle", "posted", "local", "running"} \cup Ended]
  /\ reply \in [Calls -> {"none", "ok", "error", "timeout"}]
  /\ execId \in [Calls -> ExecIds]
  /\ handler \in [Calls -> Handled \cup {"none", "refused", "gone", "lost"}]
  /\ expired \in [Calls -> BOOLEAN]
  /\ proc \in [Calls -> [shell : {"none", "running", "dead"},
                         exit : {"none", "ok", "fail", "killed"}, kids : SUBSET Kids]]
  /\ runs \in [Calls -> 0..2]
  /\ processes \in [ExecIds -> Calls \cup {NoCall}]
  /\ crashes \in 0..MaxCrashes

\* The table of ProcessManager and the handlers agree: an entry is a command the daemon is
\* still handling, under its own id, so that a kill cannot reach a process that is none of
\* its business any more; and a command that shares its id with nobody can be found.
KillTable ==
  /\ \A i \in ExecIds : processes[i] # NoCall =>
       handler[processes[i]] \in {"waiting", "answered"} /\ execId[processes[i]] = i
  /\ \A c \in Calls :
       handler[c] \in {"waiting", "answered"} /\ (\A d \in Calls \ {c} : execId[d] # execId[c])
         => processes[execId[c]] = c

\* The gateway's tool never starts a command twice, and the runtime's starts it again only
\* after the first request has failed.
NoSilentRepeat ==
  \A c \in Calls :
    /\ tool[c] = "gateway" => runs[c] <= 1
    /\ runs[c] = 2 => handler[c] = "lost" \/ expired[c]

\* A call that was posted ends, with a result or an exception, whatever the command does:
\* a command that ends neither itself nor its output is given up by someone's timer.
CallEnds == \A c \in Calls : Pending(c) ~> client[c] \in Ended

=============================================================================
