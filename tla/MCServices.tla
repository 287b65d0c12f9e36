----------------------------- MODULE MCServices -----------------------------
(***************************************************************************)
(* Components of the gateway and of the agent runtime that share no state  *)
(* with each other, on small instances: a behaviour is one of a single     *)
(* part, the others stay where they start.                                 *)
(***************************************************************************)
EXTENDS ToolCache, TraceStore, TaskStream, AgentFlow, RuntimeGraph

CONSTANTS
  t1, t2, node, llm, tool,   \* roots and runs of traces
  c1, c2                     \* tool calls of a thread

VARIABLE focus    \* the part that runs

\* A run of the graph with a node that calls a model and a tool, and another run.
UnderOf == [i \in {node, llm, tool} |-> IF i = node THEN t1 ELSE node]
SortOf  == [i \in {node, llm, tool} |-> IF i = node THEN "node" ELSE IF i = llm THEN "llm" ELSE "tool"]

vars == <<cacheVars, traceVars, graphVars, streamVars, flowVars, focus>>

\* Of the traced runs, those that never begin: three take part in a behaviour, without errors
\* where two of them are roots.
Absent == {{t2, tool}, {t2, llm}, {llm, tool}}
\* Calls that differ in what the user is asked.
Risks == {<<"risky", "risky">>, <<"risky", "form">>, <<"safe", "risky">>}

Init ==
  /\ focus \in {"cache", "trace", "graph", "stream", "flow"}
  /\ CacheInit /\ GraphInit /\ StreamInit /\ FlowInit
  /\ <<risk[c1], risk[c2]>> \in IF focus = "graph" THEN Risks ELSE {<<"safe", "safe">>}
  /\ \E absent \in IF focus = "trace" THEN Absent ELSE {{}} :
       InitWithout(absent, IF t2 \in absent THEN 0 ELSE MaxErrors)

OnlyCache  == UNCHANGED <<traceVars, graphVars, streamVars, flowVars, focus>>
OnlyTrace  == UNCHANGED <<cacheVars, graphVars, streamVars, flowVars, focus>>
OnlyGraph  == UNCHANGED <<cacheVars, traceVars, streamVars, flowVars, focus>>
OnlyStream == UNCHANGED <<cacheVars, traceVars, graphVars, flowVars, focus>>
OnlyFlow   == UNCHANGED <<cacheVars, traceVars, graphVars, streamVars, focus>>

Next ==
  \/ focus = "cache"  /\ CacheNext  /\ OnlyCache
  \/ focus = "trace"  /\ TraceNext  /\ OnlyTrace
  \/ focus = "graph"  /\ GraphNext  /\ OnlyGraph
  \/ focus = "stream" /\ StreamNext /\ OnlyStream
  \/ focus = "flow"   /\ FlowNext   /\ OnlyFlow

\* Of the parts, the stream needs fairness.
Spec == Init /\ [][Next]_vars /\ WF_streamVars(focus = "stream" /\ Stream)

-----------------------------------------------------------------------------

\* Types of the state of all five parts (caches, traces, a thread, a stream, a flow).
TypeOK == CacheTypeOK /\ TraceTypeOK /\ GraphTypeOK /\ StreamTypeOK /\ FlowTypeOK

=============================================================================
