-------------------------- MODULE AgentFlowProofs --------------------------
(* Theorems about AgentFlow, for plans of any length and any limits.       *)
EXTENDS AgentFlow, NaturalsInduction, SequenceTheorems, WellFoundedInduction, TLAPS

Statuses == {"pending", "in_progress", "completed", "failed"}
Agents   == [turns : Nat, seen : SUBSET Actions, lastFailed : BOOLEAN, anyGood : BOOLEAN,
             end : Outcomes \cup {"none"}]
FlowWorking == {"turn", "tools", "judge"}

\* The state beyond FlowTypeOK: whoever works has a step of the plan, and whoever is judged an end.
FlowOK ==
  /\ plan \in Seq(Statuses) /\ at \in Nat \ {0} /\ agent \in Agents
  /\ pc \in FlowWorking => at <= Len(plan)
  /\ pc = "judge" => agent.end \in Outcomes

\* Indexes are taken before they are yielded, and the final event is the last one.
Numbered == pc \notin {"done", "failed"} => emitted.index <= index /\ emitted.type # "FINAL"

\* There is no summary before it is needed, and an agent has what it was given.
Remembered == /\ done <= 3 => compacted = {}
              /\ pc \in FlowWorking => \A n \in 1..done : n + 2 <= done => n \in given

\* The inductive invariant.
FlowInv == FlowTypeOK /\ FlowOK /\ Numbered /\ Remembered

\* What a step may yield.
InOrder == emitted' # emitted =>
             /\ emitted.type # "FINAL"
             /\ emitted'.type # "EXCEPTION" => emitted'.index > emitted.index

-----------------------------------------------------------------------------
(* Plans                                                                   *)

\* A set of numbers has a least one.
LEMMA Least ==
  ASSUME NEW S, S \subseteq Nat, S # {}
  PROVE  \E m \in S : \A k \in S : m <= k
<1>1. PICK m \in S : \A k \in S : <<k, m>> \notin OpToRel(<, Nat)
  BY NatLessThanWellFounded, WFMin
<1>2. m \in Nat /\ \A k \in S : k \in Nat  OBVIOUS
<1>3. \A k \in S : ~(k < m)  BY <1>1, <1>2 DEF OpToRel
<1>4. \A k \in S : m <= k  BY <1>2, <1>3
<1>. QED  BY <1>4

\* A function on 1..n is a plan of n steps.
LEMMA PlanOf ==
  ASSUME NEW n \in Nat, NEW p \in [1..n -> Statuses]
  PROVE  p \in Seq(Statuses) /\ Len(p) = n
BY SeqDef, LenProperties

\* A step of a plan that is marked leaves a plan of the same length.
LEMMA MarkPlan ==
  ASSUME plan \in Seq(Statuses), NEW i, NEW s \in Statuses
  PROVE  Mark(i, s) \in Seq(Statuses) /\ Len(Mark(i, s)) = Len(plan)
         /\ (i \in 1..Len(plan) => Mark(i, s)[i] = s)
<1>1. Len(plan) \in Nat /\ plan \in [1..Len(plan) -> Statuses]  BY LenProperties
<1>2. Mark(i, s) \in [1..Len(plan) -> Statuses]  BY <1>1 DEF Mark
<1>3. i \in 1..Len(plan) => Mark(i, s)[i] = s  BY <1>1 DEF Mark
<1>. QED  BY <1>1, <1>2, <1>3, PlanOf

\* The first pending step of a plan that has one is a step of it.
LEMMA FirstPendingInPlan ==
  ASSUME NEW p \in Seq(Statuses), \E i \in DOMAIN p : p[i] = "pending"
  PROVE  FirstPending(p) \in Nat \ {0}
<1>. DEFINE S == {i \in DOMAIN p : p[i] = "pending"}
<1>1. Len(p) \in Nat /\ DOMAIN p = 1..Len(p)  BY LenProperties
<1>2. S \subseteq Nat /\ S # {}  BY <1>1
<1>3. PICK m \in S : \A k \in S : m <= k  BY <1>2, Least
<1>4. m \in DOMAIN p /\ p[m] = "pending" /\ \A j \in 1..(m - 1) : p[j] # "pending"
  <2>1. m \in 1..Len(p) /\ p[m] = "pending"  BY <1>1
  <2>2. ASSUME NEW j \in 1..(m - 1) PROVE p[j] # "pending"
    <3>1. j \in 1..Len(p) /\ ~(m <= j)  BY <1>1, <2>1
    <3>. QED  BY <1>1, <1>3, <3>1
  <2>. QED  BY <1>1, <2>1, <2>2
<1>5. FirstPending(p) \in DOMAIN p  BY <1>4 DEF FirstPending
<1>. QED  BY <1>1, <1>5

-----------------------------------------------------------------------------
(* The invariant is inductive                                              *)

\* The initial state satisfies it.
LEMMA FlowInvInit == ASSUME ResumeFrom \in Nat PROVE FlowInit => FlowInv
<1>. SUFFICES ASSUME FlowInit PROVE FlowInv  OBVIOUS
<1>1. plan = <<>> /\ plan \in Seq(Statuses) /\ DOMAIN plan = {}  BY EmptySeq DEF FlowInit
<1>2. agent \in Agents  BY DEF FlowInit, Fresh, Agents
<1>3. FlowOK  BY <1>1, <1>2 DEF FlowInit, FlowOK, FlowWorking
<1>4. FlowTypeOK  BY <1>1 DEF FlowInit, FlowTypeOK, Fresh
<1>5. Numbered /\ Remembered  BY DEF FlowInit, Numbered, Remembered, FlowWorking
<1>. QED  BY <1>3, <1>4, <1>5 DEF FlowInv

\* The planner makes a plan.
LEMMA CreatePlanInv ==
  ASSUME MaxPlan \in Nat, FlowInv, CreatePlan
  PROVE  FlowInv' /\ InOrder
<1>. USE DEF FlowInv
<1>1. /\ pc = "plan" /\ pc' \in {"step", "failed"}
      /\ UNCHANGED <<at, done, compacted, given, agent, replans, accepted>>
  BY DEF CreatePlan
<1>2. \/ Emit(2, "PLAN_GENERATED") /\ pc' = "step"
      \/ Emit(1, "FINAL") /\ pc' = "failed"
  BY DEF CreatePlan
<1>3. plan' \in Seq(Statuses)
  <2>1. CASE \E n \in 0..MaxPlan : plan' = Pending(n)
    <3>1. PICK n \in 0..MaxPlan : plan' = Pending(n)  BY <2>1
    <3>2. n \in Nat /\ Pending(n) \in [1..n -> Statuses]  BY DEF Pending, Statuses
    <3>. QED  BY <3>1, <3>2, PlanOf
  <2>2. CASE UNCHANGED plan  BY <2>2 DEF FlowOK
  <2>. QED  BY <2>1, <2>2 DEF CreatePlan
<1>4. /\ index' \in Nat /\ emitted'.index \in Nat /\ emitted'.index <= index'
      /\ InOrder /\ (pc' # "failed" => emitted'.type # "FINAL")
  BY <1>1, <1>2 DEF Emit, FlowTypeOK, Numbered, InOrder
<1>5. FlowTypeOK'
  <2>1. \A i \in DOMAIN plan' : plan'[i] \in Statuses  BY <1>3, ElementOfSeq, LenProperties
  <2>. QED  BY <1>1, <1>4, <2>1 DEF FlowTypeOK, Statuses
<1>6. FlowOK'  BY <1>1, <1>3 DEF FlowOK, FlowWorking
<1>7. Numbered' /\ Remembered'  BY <1>1, <1>4 DEF Numbered, Remembered, FlowWorking
<1>. QED  BY <1>4, <1>5, <1>6, <1>7

\* A step begins: its agent is given every result but perhaps the last two.
LEMMA BeginStepInv ==
  ASSUME FlowInv, BeginStep
  PROVE  FlowInv' /\ InOrder
<1>. USE DEF FlowInv
<1>1. /\ pc = "step" /\ at <= Len(plan) /\ plan' = Mark(at, "in_progress")
      /\ Emit(1, "PLAN_UPDATED") /\ agent' = Fresh /\ pc' = "turn"
      /\ UNCHANGED <<at, done, replans, accepted>>
  BY DEF BeginStep
<1>2. /\ compacted' = IF done > 3 THEN Compacted(done) ELSE compacted
      /\ given' = IF compacted' # {} THEN compacted' ELSE 1..done
  BY DEF BeginStep, Instruction
<1>3. done \in Nat /\ at \in Nat \ {0} /\ Len(plan) \in Nat /\ plan \in Seq(Statuses)
  BY LenProperties DEF FlowTypeOK, FlowOK
<1>4. plan' \in Seq(Statuses) /\ Len(plan') = Len(plan) /\ plan'[at] = "in_progress"
  <2>1. at \in 1..Len(plan) /\ "in_progress" \in Statuses  BY <1>1, <1>3 DEF Statuses
  <2>. QED  BY <1>1, <1>3, <2>1, MarkPlan
<1>5. /\ index' \in Nat /\ emitted'.index \in Nat /\ emitted'.index <= index'
      /\ InOrder /\ emitted'.type # "FINAL"
  BY <1>1 DEF Emit, FlowTypeOK, Numbered, InOrder
<1>6. /\ compacted' \cup given' \subseteq 1..done
      /\ done <= 3 => compacted' = {}
      /\ \A n \in 1..done : n + 2 <= done => n \in given'
  <2>1. CASE done > 3
    <3>1. compacted' = 1..(done - 2)  BY <1>2, <1>3, <2>1 DEF Compacted
    <3>2. 1 \in compacted'  BY <1>3, <2>1, <3>1
    <3>. QED  BY <1>2, <1>3, <2>1, <3>1, <3>2
  <2>2. CASE ~(done > 3)
    <3>1. compacted' = {}  BY <1>2, <1>3, <2>2 DEF Remembered
    <3>. QED  BY <1>2, <3>1
  <2>. QED  BY <2>1, <2>2
<1>7. Fresh \in Agents /\ Fresh.turns = 0 /\ Fresh.seen = {} /\ Fresh.end = "none"
  BY DEF Fresh, Agents
<1>8. FlowTypeOK'
  <2>1. \A i \in DOMAIN plan' : plan'[i] \in Statuses  BY <1>4, ElementOfSeq, LenProperties
  <2>. QED  BY <1>1, <1>4, <1>5, <1>6, <1>7, <2>1 DEF FlowTypeOK, Statuses
<1>9. FlowOK'  BY <1>1, <1>3, <1>4, <1>7 DEF FlowOK, FlowWorking
<1>10. Numbered' /\ Remembered'  BY <1>1, <1>5, <1>6 DEF Numbered, Remembered, FlowWorking
<1>. QED  BY <1>5, <1>8, <1>9, <1>10

\* The agent goes on, or comes to an end that is judged: the plan and the memory stay.
LEMMA AgentInv ==
  ASSUME FlowInv, pc \in {"turn", "tools"}, pc' \in FlowWorking, UNCHANGED progress,
         agent' \in Agents, pc' = "judge" => agent'.end \in Outcomes,
         index' \in Nat, index' > index,
         \/ UNCHANGED emitted
         \/ emitted'.index = index' /\ emitted'.type # "FINAL"
  PROVE  FlowInv' /\ InOrder
<1>. USE DEF FlowInv
<1>1. UNCHANGED <<plan, at, done, compacted, given, replans, accepted>>  BY DEF progress
<1>2. index \in Nat /\ emitted.index \in Nat  BY DEF FlowTypeOK
<1>3. emitted'.index \in Nat /\ emitted'.index <= index'  BY <1>2 DEF Numbered
<1>4. emitted'.type # "FINAL" /\ InOrder  BY <1>2 DEF Numbered, InOrder
<1>5. FlowTypeOK'  BY <1>1, <1>3 DEF FlowTypeOK, Agents, FlowWorking
<1>6. FlowOK'  BY <1>1 DEF FlowOK, FlowWorking
<1>7. Numbered' /\ Remembered'  BY <1>1, <1>3, <1>4 DEF Numbered, Remembered, FlowWorking
<1>. QED  BY <1>4, <1>5, <1>6, <1>7

\* An end of the agent takes an index and yields nothing.
LEMMA SubFinalInv ==
  ASSUME FlowInv, pc \in {"turn", "tools"}, NEW end \in Outcomes, SubFinal(end), UNCHANGED progress
  PROVE  FlowInv' /\ InOrder
<1>. USE DEF FlowInv
<1>1. /\ agent' = [agent EXCEPT !.end = end] /\ index' = index + 1 /\ pc' = "judge"
      /\ UNCHANGED emitted
  BY DEF SubFinal
<1>2. agent' \in Agents /\ agent'.end = end  BY <1>1 DEF FlowOK, Agents
<1>3. index' \in Nat /\ index' > index  BY <1>1 DEF FlowTypeOK
<1>. QED  BY <1>1, <1>2, <1>3, AgentInv DEF FlowWorking

\* The model asks for tools.
LEMMA ThinkInv ==
  ASSUME FlowInv, Think
  PROVE  FlowInv' /\ InOrder
<1>. USE DEF FlowInv
<1>1. /\ pc = "turn" /\ pc' = "tools" /\ UNCHANGED progress
      /\ agent' = [agent EXCEPT !.turns = @ + 1] /\ Emit(1, "THINKING")
  BY DEF Think
<1>2. agent' \in Agents  BY <1>1 DEF FlowOK, Agents
<1>3. /\ index' \in Nat /\ index' > index
      /\ emitted'.index = index' /\ emitted'.type # "FINAL"
  BY <1>1 DEF Emit, FlowTypeOK
<1>. QED  BY <1>1, <1>2, <1>3, AgentInv DEF FlowWorking

\* A call is carried out, or ends the agent.
LEMMA CallToolInv ==
  ASSUME FlowInv, CallTool
  PROVE  FlowInv' /\ InOrder
<1>. USE DEF FlowInv
<1>1. pc = "tools" /\ UNCHANGED progress  BY DEF CallTool
<1>2. PICK a \in Actions :
        IF a \in agent.seen
        THEN SubFinal("breaker")
        ELSE /\ \E failed \in BOOLEAN :
                  agent' = [agent EXCEPT !.seen = @ \cup {a}, !.lastFailed = failed,
                                         !.anyGood = (@ \/ ~failed)]
             /\ Emit(2, "TOOL_RESULT")
             /\ pc' \in {"tools", "turn"}
  BY DEF CallTool
<1>3. CASE a \in agent.seen
  <2>1. SubFinal("breaker") /\ "breaker" \in Outcomes  BY <1>2, <1>3 DEF Outcomes
  <2>. QED  BY <1>1, <2>1, SubFinalInv
<1>4. CASE a \notin agent.seen
  <2>1. PICK failed \in BOOLEAN :
          agent' = [agent EXCEPT !.seen = @ \cup {a}, !.lastFailed = failed,
                                 !.anyGood = (@ \/ ~failed)]
    BY <1>2, <1>4
  <2>2. Emit(2, "TOOL_RESULT") /\ pc' \in {"tools", "turn"}  BY <1>2, <1>4
  <2>3. agent' \in Agents
    <3>1. agent.seen \cup {a} \in SUBSET Actions /\ (agent.anyGood \/ ~failed) \in BOOLEAN
      BY DEF FlowOK, Agents
    <3>. QED  BY <2>1, <3>1 DEF FlowOK, Agents
  <2>4. /\ index' \in Nat /\ index' > index
        /\ emitted'.index = index' /\ emitted'.type # "FINAL"
    BY <2>2 DEF Emit, FlowTypeOK
  <2>. QED  BY <1>1, <2>2, <2>3, <2>4, AgentInv DEF FlowWorking
<1>. QED  BY <1>3, <1>4

\* Another plan is made, and the flow goes on with its first pending step.
LEMMA ReplanInv ==
  ASSUME MaxPlan \in Nat, FlowInv, Replan
  PROVE  FlowInv' /\ InOrder
<1>. USE DEF FlowInv
<1>1. /\ pc = "judge" /\ replans' = replans + 1
      /\ UNCHANGED <<done, compacted, given, agent, accepted>>
  BY DEF Replan
<1>2. \/ Emit(2, "PLAN_UPDATED") /\ pc' \in {"step", "sum"}
      \/ Emit(2, "FINAL") /\ pc' = "failed"
  BY DEF Replan
<1>3. plan' \in Seq(Statuses)
  <2>1. ASSUME plan' \in NewPlans PROVE plan' \in Seq(Statuses)
    <3>1. CASE plan' = Mark(at, "failed")
      <4>1. "failed" \in Statuses /\ plan \in Seq(Statuses)  BY DEF Statuses, FlowOK
      <4>. QED  BY <3>1, <4>1, MarkPlan
    <3>2. CASE plan' # Mark(at, "failed")
      <4>1. PICK n \in 0..MaxPlan : plan' \in [1..n -> {"completed", "pending"}]
        BY <2>1, <3>2 DEF NewPlans
      <4>2. n \in Nat /\ plan' \in [1..n -> Statuses]  BY <4>1 DEF Statuses
      <4>. QED  BY <4>2, PlanOf
    <3>. QED  BY <3>1, <3>2
  <2>. QED  BY <2>1 DEF Replan, FlowOK
<1>4. at' \in Nat \ {0}
  <2>1. CASE \E i \in DOMAIN plan' : plan'[i] = "pending"
    <3>1. FirstPending(plan') \in Nat \ {0}  BY <1>3, <2>1, FirstPendingInPlan
    <3>2. at' = FirstPending(plan') \/ at' = at  BY DEF Replan
    <3>. QED  BY <3>1, <3>2 DEF FlowOK
  <2>2. CASE ~ \E i \in DOMAIN plan' : plan'[i] = "pending"
    <3>1. at' = at  BY <2>2 DEF Replan
    <3>. QED  BY <3>1 DEF FlowOK
  <2>. QED  BY <2>1, <2>2
<1>5. /\ index' \in Nat /\ emitted'.index \in Nat /\ emitted'.index <= index'
      /\ InOrder /\ (pc' # "failed" => emitted'.type # "FINAL")
  BY <1>1, <1>2 DEF Emit, FlowTypeOK, Numbered, InOrder
<1>6. FlowTypeOK'
  <2>1. \A i \in DOMAIN plan' : plan'[i] \in Statuses  BY <1>3, ElementOfSeq, LenProperties
  <2>2. replans' \in Nat  BY <1>1 DEF FlowTypeOK
  <2>. QED  BY <1>1, <1>2, <1>4, <1>5, <2>1, <2>2 DEF FlowTypeOK, Statuses
<1>7. FlowOK'  BY <1>1, <1>2, <1>3, <1>4 DEF FlowOK, FlowWorking
<1>8. Numbered' /\ Remembered'  BY <1>1, <1>2, <1>5 DEF Numbered, Remembered, FlowWorking
<1>. QED  BY <1>5, <1>6, <1>7, <1>8

\* A step counts as completed, and leaves one more result.
LEMMA CompleteInv ==
  ASSUME FlowInv, Complete
  PROVE  FlowInv' /\ InOrder
<1>. USE DEF FlowInv
<1>1. /\ pc = "judge" /\ plan' = Mark(at, "completed") /\ done' = done + 1
      /\ Emit(1, "PLAN_UPDATED") /\ at' = at + 1 /\ pc' \in {"sum", "step"}
      /\ UNCHANGED <<compacted, given, agent, replans>>
      /\ accepted' \in {accepted, accepted \cup {agent.end}}
  BY DEF Complete
<1>2. plan' \in Seq(Statuses)
  <2>1. "completed" \in Statuses /\ plan \in Seq(Statuses)  BY DEF Statuses, FlowOK
  <2>. QED  BY <1>1, <2>1, MarkPlan
<1>3. /\ index' \in Nat /\ emitted'.index \in Nat /\ emitted'.index <= index'
      /\ InOrder /\ emitted'.type # "FINAL"
  BY <1>1 DEF Emit, FlowTypeOK, Numbered, InOrder
<1>4. done \in Nat /\ done' \in Nat /\ compacted \cup given \subseteq 1..done
  BY <1>1 DEF FlowTypeOK
<1>5. compacted \cup given \subseteq 1..done'  BY <1>1, <1>4
<1>6. accepted' \subseteq Outcomes  BY <1>1 DEF FlowTypeOK, FlowOK
<1>7. at' \in Nat \ {0}  BY <1>1 DEF FlowOK
<1>8. FlowTypeOK'
  <2>1. \A i \in DOMAIN plan' : plan'[i] \in Statuses  BY <1>2, ElementOfSeq, LenProperties
  <2>. QED  BY <1>1, <1>3, <1>4, <1>5, <1>6, <1>7, <2>1 DEF FlowTypeOK, Statuses
<1>9. FlowOK'  BY <1>1, <1>2, <1>7 DEF FlowOK, FlowWorking
<1>10. Numbered' /\ Remembered'
  BY <1>1, <1>3, <1>4 DEF Numbered, Remembered, FlowWorking
<1>. QED  BY <1>3, <1>8, <1>9, <1>10

\* The final event.
LEMMA SummarizeInv ==
  ASSUME FlowInv, Summarize
  PROVE  FlowInv' /\ InOrder
<1>. USE DEF FlowInv
<1>1. /\ pc \in {"sum", "step"} /\ Emit(1, "FINAL") /\ pc' = "done"
      /\ UNCHANGED <<plan, at, done, compacted, given, replans, accepted, agent>>
  BY DEF Summarize, progress
<1>2. /\ index' \in Nat /\ emitted'.index \in Nat /\ emitted'.index <= index' /\ InOrder
  BY <1>1 DEF Emit, FlowTypeOK, Numbered, InOrder
<1>3. FlowTypeOK'  BY <1>1, <1>2 DEF FlowTypeOK
<1>4. FlowOK' /\ Numbered' /\ Remembered'
  BY <1>1, <1>2 DEF FlowOK, Numbered, Remembered, FlowWorking
<1>. QED  BY <1>2, <1>3, <1>4

\* The executor's own last event.
LEMMA EscapeInv ==
  ASSUME ResumeFrom \in Nat, FlowInv, Escape
  PROVE  FlowInv' /\ InOrder
<1>. USE DEF FlowInv
<1>1. /\ pc = "turn" /\ emitted' = [index |-> ResumeFrom + 1, type |-> "EXCEPTION"]
      /\ pc' = "failed"
      /\ UNCHANGED <<index, plan, at, done, compacted, given, replans, accepted, agent>>
  BY DEF Escape, progress
<1>2. emitted'.index \in Nat /\ InOrder
  BY <1>1 DEF FlowTypeOK, Numbered, InOrder
<1>3. FlowTypeOK'  BY <1>1, <1>2 DEF FlowTypeOK
<1>4. FlowOK' /\ Numbered' /\ Remembered'
  BY <1>1, <1>2 DEF FlowOK, Numbered, Remembered, FlowWorking
<1>. QED  BY <1>2, <1>3, <1>4

\* Every step keeps the invariant, and yields in order.
LEMMA FlowInvNext ==
  ASSUME ResumeFrom \in Nat, MaxPlan \in Nat, FlowInv, [FlowNext]_flowVars
  PROVE  FlowInv' /\ [InOrder]_flowVars
<1>1. CASE CreatePlan  BY <1>1, CreatePlanInv
<1>2. CASE BeginStep  BY <1>2, BeginStepInv
<1>3. CASE Conclude
  <2>1. pc = "turn" /\ UNCHANGED progress  BY <1>3 DEF Conclude
  <2>2. PICK end \in {"answer", "short", "interrupted"} : SubFinal(end)  BY <1>3 DEF Conclude
  <2>3. end \in Outcomes  BY <2>2 DEF Outcomes
  <2>. QED  BY <2>1, <2>2, <2>3, SubFinalInv
<1>4. CASE Think  BY <1>4, ThinkInv
<1>5. CASE CallTool  BY <1>5, CallToolInv
<1>6. CASE OutOfTurns
  <2>1. pc = "turn" /\ UNCHANGED progress /\ SubFinal("limit")  BY <1>6 DEF OutOfTurns
  <2>2. "limit" \in Outcomes  BY DEF Outcomes
  <2>. QED  BY <2>1, <2>2, SubFinalInv
<1>7. CASE Replan  BY <1>7, ReplanInv
<1>8. CASE Complete  BY <1>8, CompleteInv
<1>9. CASE Summarize  BY <1>9, SummarizeInv
<1>10. CASE Escape  BY <1>10, EscapeInv
<1>11. CASE UNCHANGED flowVars
  <2>1. UNCHANGED <<pc, plan, at, index, emitted, done, compacted, given, agent, replans, accepted>>
    BY <1>11 DEF flowVars
  <2>2. FlowTypeOK'  BY <2>1 DEF FlowInv, FlowTypeOK
  <2>3. FlowOK' /\ Numbered' /\ Remembered'
    BY <2>1 DEF FlowInv, FlowOK, Numbered, Remembered, FlowWorking
  <2>. QED  BY <1>11, <2>2, <2>3 DEF FlowInv
<1>. QED
  BY <1>1, <1>2, <1>3, <1>4, <1>5, <1>6, <1>7, <1>8, <1>9, <1>10, <1>11 DEF FlowNext

\* The invariant holds for plans of any length, whatever the limits.
LEMMA FlowInvariant ==
  ASSUME ResumeFrom \in Nat, MaxPlan \in Nat
  PROVE  FlowInit /\ [][FlowNext]_flowVars => []FlowInv
<1>1. FlowInit => FlowInv  BY FlowInvInit
<1>2. FlowInv /\ [FlowNext]_flowVars => FlowInv'  BY FlowInvNext
<1>. QED  BY <1>1, <1>2, PTL DEF FlowSpec

-----------------------------------------------------------------------------
(* The theorems                                                            *)

\* The statuses, indexes and sets are what they are meant to be, and an agent works on the step
\* that the plan shows as in progress.
THEOREM FlowTypes ==
  ASSUME ResumeFrom \in Nat, MaxPlan \in Nat
  PROVE  FlowSpec => []FlowTypeOK
<1>1. FlowInv => FlowTypeOK  BY DEF FlowInv
<1>. QED  BY <1>1, FlowInvariant, PTL DEF FlowSpec

\* The instruction of a step holds every earlier result but the last two.
THEOREM OlderGiven ==
  ASSUME ResumeFrom \in Nat, MaxPlan \in Nat
  PROVE  FlowSpec => []OlderResultsAreGiven
<1>1. FlowInv => OlderResultsAreGiven  BY DEF FlowInv, Remembered, FlowWorking, OlderResultsAreGiven
<1>. QED  BY <1>1, FlowInvariant, PTL DEF FlowSpec

\* The events of the flow are in the order of their indexes, and nothing follows the final one.
THEOREM OrderedEvents ==
  ASSUME ResumeFrom \in Nat, MaxPlan \in Nat
  PROVE  FlowSpec => EventsInOrder
<1>1. FlowInv /\ [FlowNext]_flowVars => [InOrder]_flowVars  BY FlowInvNext
<1>. QED  BY <1>1, FlowInvariant, PTL DEF FlowSpec, EventsInOrder, InOrder

=============================================================================
