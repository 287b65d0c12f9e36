---------------------------- MODULE RuntimeGraph ----------------------------
(***************************************************************************)
(* One thread of the agent runtime and its client: the gateway's proxy,    *)
(* which starts, joins and cancels runs, and the graph they run: context   *)
(* compressor, agent node, tools node with its interrupts.                 *)
(*                                                                         *)
(* The LangGraph server is modelled from its use: it keeps the state of    *)
(* the thread after every node, drops what a node has done when it is      *)
(* interrupted, and runs the node again from its start with the answers    *)
(* given so far.  Operators with a suffix are mutants of the definition    *)
(* after them.                                                             *)
(***************************************************************************)
EXTENDS Naturals, Sequences, FiniteSets, SequencesExt

CONSTANTS
  Calls,       \* tool calls the model may ask for, each once
  KeepRecent,  \* MEMORY_KEEP_RECENT_MESSAGES
  Threshold,   \* MEMORY_COMPRESSION_TOKEN_THRESHOLD
  MaxTurns,    \* bound on user messages
  MaxFailures  \* bound on failures of the server, the model and the user's connection

VARIABLES
  msgs,      \* messages of the thread
  cut,       \* active_cut_index
  summary,   \* the messages the summary was made from
  run,       \* where the run is; in the tools node: the call, its results, the answers to interrupts
  risk,      \* of the calls: "safe", "risky" (write file, dangerous command), or "form"
  effects,   \* how often a call has been carried out
  verdict,   \* what the user answered when asked about a call
  broken,    \* history: a run was stopped or bypassed with calls unanswered
  thread,    \* the server knows the thread
  up,        \* the server answers
  client,    \* the browser
  faults

graphVars == <<msgs, cut, summary, run, risk, effects, verdict, broken, thread, up, client, faults>>
memory    == <<cut, summary>>
deeds     == <<risk, effects, verdict>>

Message == [kind : {"human", "ai", "tool"}, calls : Seq(Calls)]
Human   == [kind |-> "human", calls |-> <<>>]
Ai(cs)  == [kind |-> "ai", calls |-> cs]
Tool(c) == [kind |-> "tool", calls |-> <<c>>]
Start(st, answers) == [st |-> st, pos |-> 1, out |-> <<>>, answers |-> answers]
Idle    == Start("idle", <<>>)
Active  == {"compress", "agent", "tools"}
\* What a user may answer: the word for yes, one of those for no that tools_node knows, or any other
\* JSON, which the proxy passes on like these.
Answers == {"approve", "reject", "other"}
Turns   == Len(SelectSeq(msgs, LAMBDA m : m.kind = "human"))
Asked   == {c \in Calls : \E i \in DOMAIN msgs : c \in ToSet(msgs[i].calls)}
Fails   == faults < MaxFailures /\ faults' = faults + 1

GraphInit ==
  /\ msgs = <<>> /\ cut = 0 /\ summary = {}
  /\ run = Idle
  /\ risk \in [Calls -> {"safe", "risky", "form"}]
  /\ effects = [c \in Calls |-> 0]
  /\ verdict = [c \in Calls |-> "none"]
  /\ broken = FALSE
  /\ thread = FALSE /\ up = TRUE
  /\ client = "idle"
  /\ faults = 0

-----------------------------------------------------------------------------
(* The proxy                                                               *)

\* _ensure_thread_in_upstream before a run: created, or there already; a failure is logged.
EnsureThread ==
  /\ client = "idle"
  /\ client' = "ready"
  /\ \/ up /\ thread' = TRUE /\ UNCHANGED faults
     \/ Fails /\ UNCHANGED thread

Prepare == /\ EnsureThread
           /\ UNCHANGED <<msgs, memory, run, deeds, broken, up>>

\* What a run starts with: a message of the user, or the answer to an interrupt.
NewInput ==
  /\ Turns < MaxTurns
  /\ msgs' = Append(msgs, Human)
  /\ run' = Start("compress", <<>>)
  /\ broken' = (broken \/ run.st = "interrupted")
  /\ UNCHANGED verdict

Resume(decision) ==
  /\ run.st = "interrupted"
  /\ LET c == Last(msgs).calls[run.pos]
     IN verdict' = [verdict EXCEPT ![c] = decision]
  /\ run' = Start("tools", Append(run.answers, decision))
  /\ UNCHANGED <<msgs, broken>>

\* proxy_run_stream: the run, or what the server says instead.
RunStream ==
  /\ client = "ready" /\ run.st \notin Active
  /\ IF up /\ thread
     THEN /\ NewInput \/ \E decision \in Answers : Resume(decision)
          /\ client' = "streaming"
     ELSE client' = "error" /\ UNCHANGED <<msgs, run, broken, verdict>>
  /\ UNCHANGED <<memory, risk, effects, thread, up, faults>>

\* event_generator ends with the stream.
StreamEnd ==
  /\ client = "streaming" /\ run.st \notin Active
  /\ client' = "idle"
  /\ UNCHANGED <<msgs, memory, run, deeds, broken, thread, up, faults>>

\* The browser goes away: only the connection to the server is closed.
Disconnect ==
  /\ client = "streaming" /\ Fails
  /\ client' = "gone"
  /\ UNCHANGED <<msgs, memory, run, deeds, broken, thread, up>>

\* The state and the history of a thread make sure first that the server knows it.
Ensured == thread \/ up

\* A reload asks for those and for the runs of the thread, and joins an active run.
ListRuns ==
  /\ client = "gone"
  /\ thread' = Ensured
  /\ client' = IF up /\ run.st \in Active THEN "joining" ELSE "idle"
  /\ UNCHANGED <<msgs, memory, run, deeds, broken, up, faults>>

JoinStream ==
  /\ client = "joining"
  /\ client' = IF up /\ thread THEN "streaming" ELSE "error"
  /\ UNCHANGED <<msgs, memory, run, deeds, broken, thread, up, faults>>

\* A run stops here and now: the state is that after its last node.
Halt == /\ run' = IF run.st \in Active THEN Idle ELSE run
        /\ broken' = (broken \/ run.st = "tools")

\* proxy_cancel_run: the browser has stopped reading, and hears "cancelled" in any case.
CancelRun ==
  /\ client = "streaming" /\ run.st \in Active
  /\ client' = "idle"
  /\ \/ up /\ Halt /\ UNCHANGED faults
     \/ Fails /\ UNCHANGED <<run, broken>>
  /\ UNCHANGED <<msgs, memory, deeds, thread, up>>

\* The server stops, and forgets its threads but not the checkpoints of their states.
ServerStops ==
  /\ up /\ Fails
  /\ up' = FALSE /\ thread' = FALSE
  /\ Halt
  /\ UNCHANGED <<msgs, memory, deeds, client>>

ServerStarts ==
  /\ ~up /\ up' = TRUE
  /\ UNCHANGED <<msgs, memory, run, deeds, broken, thread, client, faults>>

\* The user tries again after an error.
Retry ==
  /\ client = "error" /\ client' = "idle"
  /\ UNCHANGED <<msgs, memory, run, deeds, broken, thread, up, faults>>

-----------------------------------------------------------------------------
(* The graph                                                               *)

Size(ms, weight(_)) == FoldSeq(LAMBDA m, total : total + weight(m), 0, ms)

\* A call weighs as much as two texts: quick_char_pass_through_filter does not see it,
\* estimate_messages_tokens does.
QuickPass(ms) == Size(ms, LAMBDA m : IF m.kind = "ai" /\ m.calls # <<>> THEN 0 ELSE 1) < Threshold
Tokens(ms)    == Size(ms, LAMBDA m : IF m.kind = "ai" /\ m.calls # <<>> THEN 2 * Len(m.calls) ELSE 1)

Concluded_AnyAi(m) == m.kind = "ai"
\* An archived slice may end with an answer that asks for nothing.
Concluded(m) == m.kind = "ai" /\ m.calls = <<>>

\* find_safe_aimessage_cut_index: the last such message before the recent ones; 0 for None.
SafeCut(ms) ==
  LET ends == {i \in 1..Len(ms) : i + KeepRecent <= Len(ms) /\ Concluded(ms[i])}
  IN IF ends = {} THEN 0 ELSE CHOOSE i \in ends : \A j \in ends : j <= i

\* What lies between the old cut and the new one goes into the summary.
Compress(safe) == summary' = summary \cup (cut + 1)..safe /\ cut' = safe

\* context_compressor_node.  When the summary fails, it goes on without one.
ContextCompressor ==
  /\ run.st = "compress"
  /\ run' = [run EXCEPT !.st = "agent"]
  /\ LET safe == SafeCut(msgs) IN
     IF ~QuickPass(msgs) /\ Tokens(msgs) > Threshold /\ safe > cut
     THEN \/ Compress(safe) /\ UNCHANGED faults
          \/ Fails /\ UNCHANGED memory
     ELSE UNCHANGED <<memory, faults>>
  /\ UNCHANGED <<msgs, deeds, broken, thread, up, client>>

Window_SkipsOne == IF cut > 0 /\ cut < Len(msgs) THEN SubSeq(msgs, cut + 2, Len(msgs)) ELSE msgs
\* What agent_node shows to the model.
Window == IF cut > 0 /\ cut < Len(msgs) THEN SubSeq(msgs, cut + 1, Len(msgs)) ELSE msgs

\* should_continue
Route(m) == IF m.calls # <<>> THEN "tools" ELSE "idle"

\* agent_node: the model answers, or asks for one or two calls.
AgentNode ==
  /\ run.st = "agent"
  /\ \E cs \in {<<>>} \cup {<<c>> : c \in Calls \ Asked}
               \cup {<<c, d>> : c \in Calls \ Asked, d \in Calls \ Asked} :
       /\ Len(cs) = 2 => cs[1] # cs[2]
       /\ msgs' = Append(msgs, Ai(cs))
       /\ run' = Start(Route(Ai(cs)), <<>>)
  /\ UNCHANGED <<memory, deeds, broken, thread, up, client, faults>>

\* The call of the model fails, and the run with it.
AgentError ==
  /\ run.st = "agent" /\ Fails
  /\ run' = Idle
  /\ UNCHANGED <<msgs, memory, deeds, broken, thread, up, client>>

\* interrupt() number k of this node returns answer k, when there is one.
Call    == Last(msgs).calls[run.pos]
Risky   == risk[Call] # "safe"
Number  == Cardinality({i \in 1..run.pos : risk[Last(msgs).calls[i]] # "safe"})
Known   == Number <= Len(run.answers)
InTools == run.st = "tools" /\ run.pos <= Len(Last(msgs).calls)

Answer_Last == run.answers[Len(run.answers)]
Answer == run.answers[Number]

\* The result of the call joins the others; they become messages when the node ends.
Result == run' = [run EXCEPT !.pos = @ + 1, !.out = Append(@, Tool(Call))]

\* _is_high_risk_call, or the model asks for a form: the run waits for the user.
Interrupt ==
  /\ InTools /\ Risky /\ ~Known
  /\ run' = [run EXCEPT !.st = "interrupted", !.out = <<>>]
  /\ UNCHANGED <<msgs, memory, deeds, broken, thread, up, client, faults>>

\* The decision starts as approved; only the words of a refusal change it.
Approves(answer) == answer # "reject"

\* A refused call gets a result that says so.
Refuse ==
  /\ InTools /\ risk[Call] = "risky" /\ Known /\ ~Approves(Answer)
  /\ Result
  /\ UNCHANGED <<msgs, memory, deeds, broken, thread, up, client, faults>>

\* The answer to a form is its result.
FillForm ==
  /\ InTools /\ risk[Call] = "form" /\ Known
  /\ Result
  /\ UNCHANGED <<msgs, memory, deeds, broken, thread, up, client, faults>>

\* Everything else is dispatched; an exception becomes the result.
Dispatch ==
  /\ InTools
  /\ Risky => risk[Call] = "risky" /\ Known /\ Approves(Answer)
  /\ effects' = [effects EXCEPT ![Call] = @ + 1]
  /\ Result
  /\ UNCHANGED <<msgs, memory, risk, verdict, broken, thread, up, client, faults>>

ToolsEnd ==
  /\ run.st = "tools" /\ run.pos > Len(Last(msgs).calls)
  /\ msgs' = msgs \o run.out
  /\ run' = Start("agent", <<>>)
  /\ UNCHANGED <<memory, deeds, broken, thread, up, client, faults>>

ToolsNode == Interrupt \/ Refuse \/ FillForm \/ Dispatch \/ ToolsEnd
Graph == ContextCompressor \/ AgentNode \/ ToolsNode
Proxy == \/ Prepare \/ RunStream \/ StreamEnd \/ Disconnect \/ ListRuns \/ JoinStream
         \/ CancelRun \/ Retry \/ ServerStops \/ ServerStarts

GraphNext == Graph \/ AgentError \/ Proxy

GraphSpec == GraphInit /\ [][GraphNext]_graphVars

-----------------------------------------------------------------------------
(* Properties                                                              *)

\* Types of the state.
GraphTypeOK ==
  /\ msgs \in Seq(Message)
  /\ cut \in Nat /\ summary \in SUBSET Nat /\ faults \in Nat
  /\ run \in [st : Active \cup {"idle", "interrupted"}, pos : Nat \ {0}, out : Seq(Message),
             answers : Seq(Answers)]
  /\ risk \in [Calls -> {"safe", "risky", "form"}]
  /\ effects \in [Calls -> Nat]
  /\ verdict \in [Calls -> Answers \cup {"none"}]
  /\ {broken, thread, up} \subseteq BOOLEAN
  /\ client \in {"idle", "ready", "streaming", "gone", "joining", "error"}

\* A risky call is carried out only after the user was asked about that very call and gave an answer
\* the node does not read as a refusal, however often the node ran again and whatever was answered to
\* the others.  (What it does not read as a refusal counts as approval: see README.)
RiskyIsAnswered ==
  \A c \in Calls : risk[c] = "risky" /\ effects[c] > 0 => verdict[c] \notin {"none", "reject"}

\* The model is never shown the result of a call without the call; and while no run was stopped or
\* bypassed among its calls, no call without its result.
WindowIsPaired ==
  run.st = "agent" =>
    LET w == Window IN
    \A i \in DOMAIN w :
      /\ w[i].kind = "tool" => \E j \in 1..(i - 1) : w[j].kind = "ai" /\ w[i].calls[1] \in ToSet(w[j].calls)
      /\ w[i].kind = "ai" /\ ~broken =>
           \A c \in ToSet(w[i].calls) : \E j \in DOMAIN w : j > i /\ w[j] = Tool(c)

\* Every message is in the summary or before the model's eyes, and the last ones are never archived:
\* what agent_node shows is an end of the messages, and what stands before it was summed up.
NothingForgotten ==
  LET hidden == Len(msgs) - Len(Window) IN
  /\ Window = SubSeq(msgs, hidden + 1, Len(msgs))
  /\ 1..hidden \subseteq summary
  /\ \A i \in summary : i + KeepRecent <= Len(msgs)

=============================================================================
