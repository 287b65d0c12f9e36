----------------------------- MODULE AgentFlow -----------------------------
(***************************************************************************)
(* PlanAndExecuteFlow of the gateway's worker: a planner makes a plan, a   *)
(* ReAct agent carries out one step after the other, the flow judges each  *)
(* outcome, plans again or goes on, and hands what was achieved so far to  *)
(* the next step.  Its events go to the worker, which stores them by their *)
(* index.                                                                  *)
(*                                                                         *)
(* The model is a choice; the n-th result of a step is called n.           *)
(* Operators with a suffix are mutants of the definition after them.       *)
(***************************************************************************)
EXTENDS Naturals, Sequences

CONSTANTS
  Actions,     \* a tool with its arguments: one fingerprint each
  ResumeFrom,  \* resume_from_step of the task
  MaxPlan,     \* bound on the length of a plan
  MaxReplans,  \* agent_flow_max_replans
  MaxFlow,     \* agent_flow_max_steps
  MaxLoops     \* llm_max_steps

VARIABLES
  pc,
  plan,      \* statuses of the steps
  at,        \* i, from 1
  index,     \* step_index
  emitted,   \* the last event yielded: its index and type
  done,      \* results recorded: completed_steps, step_summaries
  compacted, \* results in compacted_summary
  given,     \* results in the instruction of the current step
  agent,     \* the ReAct agent of this step: turns, fingerprints, how its tools fared, its end
  replans,
  accepted   \* history: ends that made a completed step although another plan was possible

flowVars == <<pc, plan, at, index, emitted, done, compacted, given, agent, replans, accepted>>
progress == <<plan, at, done, compacted, given, replans, accepted>>

Fresh == [turns |-> 0, seen |-> {}, lastFailed |-> FALSE, anyGood |-> FALSE, end |-> "none"]
Outcomes == {"answer", "short", "interrupted", "breaker", "limit"}

\* n events are yielded, the last of the given type.
Emit(n, type) == index' = index + n /\ emitted' = [index |-> index + n, type |-> type]

FlowInit ==
  /\ pc = "plan" /\ plan = <<>> /\ at = 1
  /\ index = ResumeFrom
  /\ emitted = [index |-> ResumeFrom, type |-> "none"]
  /\ done = 0 /\ compacted = {} /\ given = {}
  /\ agent = Fresh
  /\ replans = 0 /\ accepted = {}

Pending(n) == [i \in 1..n |-> "pending"]

\* create_plan: the thinking and the plan.  A text that is no plan makes one of a single step; a
\* failed call ends the flow.
CreatePlan ==
  /\ pc = "plan"
  /\ \/ /\ \E n \in 0..MaxPlan : plan' = Pending(n)
        /\ Emit(2, "PLAN_GENERATED")
        /\ pc' = "step"
     \/ Emit(1, "FINAL") /\ pc' = "failed" /\ UNCHANGED plan
  /\ UNCHANGED <<at, done, compacted, given, agent, replans, accepted>>

Compacted_All(n) == IF n <= 3 THEN {} ELSE 1..(n - 3)
\* compact_memory_if_needed: all results but the last two, once there are four.
Compacted(n) == IF n <= 3 THEN {} ELSE 1..(n - 2)

\* build_step_instruction: the summary where there is one, else the results themselves.
Instruction(summary) == IF summary # {} THEN summary ELSE 1..done

Mark_Next(i, status) == [plan EXCEPT ![i + 1] = status]
\* The status of a step in the plan.
Mark(i, status) == [plan EXCEPT ![i] = status]

\* A new ReAct agent continues the numbering of the flow.
BeginStep ==
  /\ pc = "step" /\ at <= Len(plan)
  /\ plan' = Mark(at, "in_progress")
  /\ Emit(1, "PLAN_UPDATED")
  /\ compacted' = IF done > 3 THEN Compacted(done) ELSE compacted
  /\ given' = Instruction(compacted')
  /\ agent' = Fresh
  /\ pc' = "turn"
  /\ UNCHANGED <<at, done, replans, accepted>>

-----------------------------------------------------------------------------
(* BaseAgent.run                                                           *)

SubFinal_Forwarded(end) ==
  /\ agent' = [agent EXCEPT !.end = end]
  /\ Emit(1, "FINAL")
  /\ pc' = "judge"

\* The agent's FINAL takes an index; the flow keeps the event to itself.
SubFinal(end) ==
  /\ agent' = [agent EXCEPT !.end = end]
  /\ index' = index + 1
  /\ pc' = "judge"
  /\ UNCHANGED emitted

\* No tool call: an answer, which may be a short one.  Or the call of the model fails.
Conclude ==
  /\ pc = "turn" /\ agent.turns < MaxLoops
  /\ \E end \in {"answer", "short", "interrupted"} : SubFinal(end)
  /\ UNCHANGED progress

\* The model asks for tools.
Think ==
  /\ pc = "turn" /\ agent.turns < MaxLoops
  /\ agent' = [agent EXCEPT !.turns = @ + 1]
  /\ Emit(1, "THINKING")
  /\ pc' = "tools"
  /\ UNCHANGED progress

\* One call of the message: refused when its fingerprint was seen, which ends the agent; else
\* carried out, and the next one or the next turn follows.
CallTool ==
  /\ pc = "tools"
  /\ \E a \in Actions :
       IF a \in agent.seen
       THEN SubFinal("breaker")
       ELSE /\ \E failed \in BOOLEAN :
                 agent' = [agent EXCEPT !.seen = @ \cup {a}, !.lastFailed = failed,
                                        !.anyGood = (@ \/ ~failed)]
            /\ Emit(2, "TOOL_RESULT")
            /\ pc' \in {"tools", "turn"}
  /\ UNCHANGED progress

OutOfTurns ==
  /\ pc = "turn" /\ agent.turns = MaxLoops
  /\ SubFinal("limit")
  /\ UNCHANGED progress

-----------------------------------------------------------------------------
(* The flow's judgement                                                    *)

\* has_error goes by the words of the final text: those of an interruption, those of a "safety
\* breaker" that no agent writes, or a short text, as that of OutOfTurns is, after failing tools.
HasError == \/ agent.end = "interrupted"
            \/ agent.end \in {"short", "limit"} /\ agent.lastFailed /\ ~agent.anyGood

FirstPending(p) == CHOOSE i \in DOMAIN p : p[i] = "pending" /\ \A j \in 1..(i - 1) : p[j] # "pending"

\* PlannerAgent.replan: another plan, or the old one with the step marked failed when the text of the
\* model is none.
NewPlans == (UNION {[1..n -> {"completed", "pending"}] : n \in 0..MaxPlan}) \cup {Mark(at, "failed")}

\* Plan again, and go on with the first pending step.  A failed call ends the flow.
Replan ==
  /\ pc = "judge" /\ HasError /\ replans < MaxReplans
  /\ replans' = replans + 1
  /\ \/ /\ plan' \in NewPlans
        /\ Emit(2, "PLAN_UPDATED")
        /\ IF \E i \in DOMAIN plan' : plan'[i] = "pending"
           THEN at' = FirstPending(plan') /\ pc' = "step"
           ELSE at' = at /\ pc' = "sum"
     \/ Emit(2, "FINAL") /\ pc' = "failed" /\ UNCHANGED <<plan, at>>
  /\ UNCHANGED <<done, compacted, given, agent, accepted>>

\* Everything else counts as a step completed.  So many events end the flow.
Complete ==
  /\ pc = "judge" /\ ~(HasError /\ replans < MaxReplans)
  /\ plan' = Mark(at, "completed")
  /\ done' = done + 1
  /\ Emit(1, "PLAN_UPDATED")
  /\ at' = at + 1
  /\ pc' = IF index' >= MaxFlow THEN "sum" ELSE "step"
  /\ accepted' = IF replans < MaxReplans THEN accepted \cup {agent.end} ELSE accepted
  /\ UNCHANGED <<compacted, given, agent, replans>>

Summarize ==
  /\ \/ pc = "sum"
     \/ pc = "step" /\ at > Len(plan)
  /\ Emit(1, "FINAL")
  /\ pc' = "done"
  /\ UNCHANGED <<progress, agent>>

\* An exception of the flow, such as that of an answer of the model without choices: LlmAgentExecutor yields a
\* last event of its own, numbered from where the task was resumed.
Escape ==
  /\ pc = "turn" /\ agent.turns < MaxLoops
  /\ emitted' = [index |-> ResumeFrom + 1, type |-> "EXCEPTION"]
  /\ pc' = "failed"
  /\ UNCHANGED <<index, progress, agent>>

FlowNext ==
  \/ CreatePlan \/ BeginStep \/ Conclude \/ Think \/ CallTool \/ OutOfTurns
  \/ Replan \/ Complete \/ Summarize \/ Escape

FlowSpec == FlowInit /\ [][FlowNext]_flowVars

-----------------------------------------------------------------------------
(* Properties                                                              *)

\* Types of the state; an agent works on the step that the plan shows as in progress.
FlowTypeOK ==
  /\ pc \in {"plan", "step", "turn", "tools", "judge", "sum", "done", "failed"}
  /\ \A i \in DOMAIN plan : plan[i] \in {"pending", "in_progress", "completed", "failed"}
  /\ pc \in {"turn", "tools", "judge"} => plan[at] = "in_progress"
  /\ {at, index, emitted.index, done, replans, agent.turns} \subseteq Nat
  /\ compacted \cup given \subseteq 1..done
  /\ agent.seen \subseteq Actions /\ agent.end \in Outcomes \cup {"none"}
  /\ accepted \subseteq Outcomes

\* The worker gets the events of the flow in the order of their indexes, none twice, whichever agent
\* numbers them, and nothing after the final one.  (The executor's own last event is another matter.)
EventsInOrder ==
  [][emitted' # emitted =>
       /\ emitted.type # "FINAL"
       /\ emitted'.type # "EXCEPTION" => emitted'.index > emitted.index]_flowVars

\* The instruction of a step holds every earlier result but the last two, compacted or not.
OlderResultsAreGiven == pc = "turn" => \A n \in 1..done : n + 2 <= done => n \in given

\* agent_flow.py:130 says that a safety breaker makes a step an obstacle, to plan again for.  The
\* breaker of BaseAgent writes other words than the ones looked for: see README.
BreakerIsObstacle == "breaker" \notin accepted

=============================================================================
