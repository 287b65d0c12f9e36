----------------------------- MODULE MCSandbox -----------------------------
(***************************************************************************)
(* What the sandbox daemon serves, on small instances: commands, browser   *)
(* sessions and files.  They share no state, so a behaviour is one of a    *)
(* single part; the others stay where they start.                          *)
(***************************************************************************)
EXTENDS CommandExec, BrowserSessions, FileVersions

CONSTANTS g1, g2, r1   \* writers

VARIABLE focus         \* the part that runs

\* Two writers of the gateway, whose contents are large, and one of the agent runtime, whose content
\* has the size of one of those.
KindOf == [w \in {g1, g2, r1} |-> IF w = r1 THEN "runtime" ELSE "gateway"]
SizeOf == [w \in {g1, g2, r1} |-> IF w = g1 THEN 2 ELSE 1]

vars == <<execVars, browserVars, fileVars, focus>>

\* The calls are alike, and so are the ids: the first call is the gateway's, with the first id, the
\* other the runtime's, with either.  What a part may start with is only varied where it is looked at.
first   == CHOOSE c \in Calls : TRUE
firstId == CHOOSE i \in ExecIds : TRUE
Init ==
  /\ ExecInit /\ BrowserInit /\ FileInit
  /\ focus \in {"exec", "browser", "files"}
  /\ tool = [c \in Calls |-> IF c = first THEN "gateway" ELSE "runtime"]
  /\ execId[first] = firstId
  /\ focus # "exec" => \A c \in Calls : execId[c] = firstId
  /\ focus # "files" => disk["root"] = NoWriter

Next ==
  \/ focus = "exec"    /\ ExecNext    /\ UNCHANGED <<browserVars, fileVars, focus>>
  \/ focus = "browser" /\ BrowserNext /\ UNCHANGED <<execVars, fileVars, focus>>
  \/ focus = "files"   /\ FileNext    /\ UNCHANGED <<execVars, browserVars, focus>>

\* The fairness of the part that runs.
Fairness ==
  /\ \A c \in Calls : /\ WF_execVars(focus = "exec" /\ Handle(c))
                       /\ WF_execVars(focus = "exec" /\ Client(c))
  /\ \A r \in Requests : WF_browserVars(focus = "browser" /\ Serve(r))
  /\ \A w \in Writers : WF_fileVars(focus = "files" /\ Record(w))

Spec == Init /\ [][Next]_vars /\ Fairness

\* Types of the state of all three parts (processes of a command, browser sessions, rows of a file).
TypeOK == ExecTypeOK /\ BrowserTypeOK /\ FileTypeOK

=============================================================================
