----------------------------- MODULE TraceStore -----------------------------
(***************************************************************************)
(* Tracing of the agent runtime: one callback handler, shared by all the   *)
(* runs, attributes what it hears to the root of its call tree; the trace  *)
(* manager buffers the spans of a root and writes them in tasks it does    *)
(* not wait for: the row when the root begins, a span when it ends, and    *)
(* everything once more when the root ends.  Only that last one is awaited.*)
(*                                                                         *)
(* PostgreSQL is read committed.  A trace and its root have one name, and  *)
(* a span and its run another; the totals of a trace, its tokens and tool  *)
(* calls, are one number, to which a span adds one.  Its duration is left  *)
(* out: append_span adds up what save_trace takes from the clock.          *)
(* Operators with a suffix are mutants of the definition after them.       *)
(***************************************************************************)
EXTENDS Naturals, FiniteSets

CONSTANTS
  Roots,      \* runs of the graph
  Runs,       \* nodes, model calls and tool calls
  Under,      \* what called each
  Sort,       \* "node", "llm" or "tool"
  Top, Unset, \* no parent, not a key of _parents
  MaxErrors   \* bound on errors of the database

VARIABLES
  phase,      \* the runs: new, open, ended
  parents,    \* _parents
  buffers,    \* _buffers: spans of the open ones
  erred,      \* their status is error
  traces,     \* rows of message_traces, committed
  spans,      \* rows of trace_spans, committed
  init, append, save,  \* the tasks: init_trace and save_trace per trace, append_span per span
  view,       \* what a request for a trace has read
  errors

traceVars == <<phase, parents, buffers, erred, traces, spans, init, append, save, view, errors>>
handler   == <<phase, parents, buffers, erred>>
tables    == <<traces, spans>>

Ids      == Roots \cup Runs
NoBuffer == {Unset}
NoRow    == [status |-> "none", total |-> 0]
NoTask   == [pc |-> "none", seen |-> 0]
NoSave   == [pc |-> "none", found |-> FALSE, seen |-> 0, entity |-> {}, missing |-> {}]
Closed   == {"done", "failed"}
Busy(pc) == pc \notin {"none"} \cup Closed

\* A run is called by a root or another run, and calls do not go round in a circle.
ASSUME CallTree ==
  /\ IsFiniteSet(Ids) /\ Roots \cap Runs = {} /\ {Top, Unset} \cap Ids = {}
  /\ Under \in [Runs -> Ids]
  /\ \A S \in SUBSET Runs : S # {} => \E i \in S : Under[i] \notin S

\* The ids from i upwards: they are in every set that holds i and the parents p of its members.
Above(p, i) == {j \in Ids : \A S \in SUBSET Ids :
                  i \in S /\ (\A k \in S : p[k] \in Ids => p[k] \in S) => j \in S}

\* The parents there really are, and what is called under a root.
Caller  == [i \in Ids |-> IF i \in Runs THEN Under[i] ELSE Top]
Trees   == [t \in Ids |-> {i \in Ids : t \in Roots \cap Above(Caller, i)}]
Tree(t) == Trees[t]

\* The runs that are absent never begin, and so many errors count as spent.
InitWithout(absent, spent) ==
  /\ phase = [i \in Ids |-> IF i \in absent THEN "ended" ELSE "new"]
  /\ parents = [i \in Ids |-> Unset]
  /\ buffers = [t \in Ids |-> NoBuffer]
  /\ erred = {}
  /\ traces = [t \in Ids |-> NoRow]
  /\ spans = {}
  /\ init = [t \in Ids |-> NoTask]
  /\ append = [i \in Ids |-> NoTask]
  /\ save = [t \in Ids |-> NoSave]
  /\ view = [pc |-> "idle", of |-> Unset, status |-> "none", spans |-> {}]
  /\ errors = spent

TraceInit == InitWithout({}, 0)

-----------------------------------------------------------------------------
(* TurnTraceCallbackHandler and TraceManager                               *)

RootOf_OneUp(p, i) == IF p[i] \in Ids THEN p[i] ELSE i
\* _get_root_run_id: up the recorded parents, as far as they are known.
RootOf(p, i) == CHOOSE j \in Above(p, i) : p[j] \notin Ids

\* _resolve_run_and_session records the parent, or that there is none.
Resolve(i) == [parents EXCEPT ![i] = Caller[i]]

\* get_or_create_buffer creates the row, too.
GetOrCreate(t) ==
  /\ buffers' = IF buffers[t] = NoBuffer THEN [buffers EXCEPT ![t] = {}] ELSE buffers
  /\ init' = IF buffers[t] = NoBuffer THEN [init EXCEPT ![t].pc = "select"] ELSE init

\* record_span: into the buffer of the root, and a task to store it.
RecordSpan(i, failed) ==
  LET t == RootOf(parents', i) IN
  /\ buffers' = [buffers EXCEPT ![t] = (@ \ NoBuffer) \cup {i}]
  /\ init' = IF buffers[t] = NoBuffer THEN [init EXCEPT ![t].pc = "select"] ELSE init
  /\ append' = [append EXCEPT ![i].pc = "insert"]
  /\ erred' = IF failed THEN erred \cup {t} ELSE erred

\* A run begins under one that has begun, and ends after those it called.
Opens(i)  == /\ phase[i] = "new"
             /\ i \in Runs => phase[Under[i]] = "open"
             /\ phase' = [phase EXCEPT ![i] = "open"]
Closes(i) == /\ phase[i] = "open"
             /\ \A j \in Runs : Under[j] = i => phase[j] # "open"
             /\ phase' = [phase EXCEPT ![i] = "ended"]
             /\ parents' = Resolve(i)
Of(i, sort) == i \in Runs /\ Sort[i] = sort
Stored == UNCHANGED <<tables, save, view, errors>>

OnChainStart(i) ==
  /\ i \in Roots \/ Of(i, "node")
  /\ Opens(i)
  /\ parents' = Resolve(i)
  /\ GetOrCreate(RootOf(parents', i))
  /\ Stored /\ UNCHANGED <<erred, append>>

OnChatModelStart(i) ==
  /\ Of(i, "llm") /\ Opens(i)
  /\ parents' = Resolve(i)
  /\ Stored /\ UNCHANGED <<buffers, erred, init, append>>

OnToolStart(i) ==
  /\ Of(i, "tool") /\ Opens(i)
  /\ parents' = Resolve(i)
  /\ Stored /\ UNCHANGED <<buffers, erred, init, append>>

\* A node ends.  An empty fragment of the agent node is not recorded.
OnNodeEnd(i) ==
  /\ Of(i, "node") /\ Closes(i)
  /\ \/ RecordSpan(i, FALSE)
     \/ UNCHANGED <<buffers, erred, init, append>>
  /\ Stored

OnLlmEnd(i)   == Of(i, "llm") /\ Closes(i) /\ RecordSpan(i, FALSE) /\ Stored
OnLlmError(i) == Of(i, "llm") /\ Closes(i) /\ RecordSpan(i, TRUE) /\ Stored
OnToolEnd(i)  == Of(i, "tool") /\ Closes(i) /\ RecordSpan(i, FALSE) /\ Stored
OnToolError(i) == Of(i, "tool") /\ Closes(i) /\ RecordSpan(i, TRUE) /\ Stored

\* finalize_and_flush takes the buffer away and awaits save_trace.
Finalize(t, entity) ==
  save' = [save EXCEPT ![t].pc = "select", ![t].entity = entity]

\* The graph ends.
OnRootEnd(i) ==
  /\ i \in Roots /\ Closes(i)
  /\ Finalize(i, buffers[i])
  /\ buffers' = [buffers EXCEPT ![i] = NoBuffer]
  /\ UNCHANGED <<erred, init, append, tables, view, errors>>

\* A node or the graph fails: a span of its own; the graph's failure also ends the trace.
OnChainError(i) ==
  /\ i \in Roots \/ Of(i, "node")
  /\ Closes(i)
  /\ IF i \in Roots
     THEN /\ Finalize(i, buffers[i] \cup {i})
          /\ buffers' = [buffers EXCEPT ![i] = NoBuffer]
          /\ append' = [append EXCEPT ![i].pc = "insert"]
          /\ erred' = erred \cup {i}
          /\ UNCHANGED init
     ELSE RecordSpan(i, TRUE) /\ UNCHANGED save
  /\ UNCHANGED <<tables, view, errors>>

\* _cleanup_tree, after the flush: the root and its children, not what those called.
Cleanup(t) ==
  parents' = [i \in Ids |-> IF i = t \/ parents[i] = t THEN Unset ELSE parents[i]]

-----------------------------------------------------------------------------
(* SqlAlchemyTraceRepository                                               *)

Holds(t) == save[t].pc \in {"ids", "spans"}   \* an uncommitted insert or update of the row

\* init_trace: select, and insert when there is nothing.
InitSelect(t) ==
  /\ init[t].pc = "select"
  /\ init' = [init EXCEPT ![t].pc = IF traces[t] = NoRow THEN "insert" ELSE "done"]
  /\ UNCHANGED <<handler, tables, append, save, view, errors>>

InitInsert(t) ==
  /\ init[t].pc = "insert" /\ ~Holds(t)
  /\ IF traces[t] = NoRow
     THEN /\ traces' = [traces EXCEPT ![t] = [status |-> "running", total |-> 0]]
          /\ init' = [init EXCEPT ![t].pc = "done"]
     ELSE init' = [init EXCEPT ![t].pc = "failed"] /\ UNCHANGED traces
  /\ UNCHANGED <<handler, spans, append, save, view, errors>>

\* append_span names the trace its buffer had.
TraceOf(i) == CHOOSE t \in Ids : i \in buffers[t] \cup save[t].entity

AppendInsert_NoKey(i) ==
  /\ append[i].pc = "insert"
  /\ LET t == TraceOf(i) IN
     append' = [append EXCEPT ![i] = IF traces[t] = NoRow THEN [@ EXCEPT !.pc = "failed"]
                                     ELSE [@ EXCEPT !.pc = "update", !.seen = traces[t].total]]
  /\ UNCHANGED <<handler, tables, init, save, view, errors>>

\* The insert fails without the row of the trace and when the span is there; it waits for an
\* uncommitted one.  The totals are then read, and added up in the program.
AppendInsert(i) ==
  /\ append[i].pc = "insert"
  /\ LET t == TraceOf(i) IN
     append' = [append EXCEPT ![i] = IF i \in spans \/ traces[t] = NoRow
                                     THEN [@ EXCEPT !.pc = "failed"]
                                     ELSE [@ EXCEPT !.pc = "update", !.seen = traces[t].total]]
  /\ UNCHANGED <<handler, tables, init, save, view, errors>>

\* The update waits for the row.
AppendCommit(i) ==
  /\ append[i].pc = "update" /\ ~Holds(TraceOf(i))
  /\ traces' = [traces EXCEPT ![TraceOf(i)].total = append[i].seen + 1]
  /\ spans' = spans \cup {i}
  /\ append' = [append EXCEPT ![i].pc = "done"]
  /\ UNCHANGED <<handler, init, save, view, errors>>

\* save_trace: select the row and with it the total ...
SaveSelect(t) ==
  /\ save[t].pc = "select"
  /\ save' = [save EXCEPT ![t].pc = "row", ![t].found = traces[t] # NoRow,
                          ![t].seen = traces[t].total]
  /\ UNCHANGED <<handler, tables, init, append, view, errors>>

\* It ends either way: a failure is raised to finalize_and_flush, which logs it.
SaveEnds(t, pc) ==
  /\ save' = [save EXCEPT ![t].pc = pc]
  /\ Cleanup(t)
  /\ UNCHANGED <<phase, buffers, erred, init, view>>

\* ... insert, when nothing was found, or update the row, which is held from here ...
SaveRow(t) ==
  /\ save[t].pc = "row"
  /\ IF ~save[t].found /\ traces[t] # NoRow
     THEN SaveEnds(t, "failed")
     ELSE /\ save' = [save EXCEPT ![t].pc = "ids"]
          /\ UNCHANGED <<handler, init, view>>
  /\ UNCHANGED <<tables, append, errors>>

\* ... look which of the spans are stored ...
SaveIds(t) ==
  /\ save[t].pc = "ids"
  /\ save' = [save EXCEPT ![t].pc = "spans", ![t].missing = save[t].entity \ spans]
  /\ UNCHANGED <<handler, tables, init, append, view, errors>>

\* The total becomes the larger one of what was read and what the entity has; the mapper leaves the
\* column out when that is what was read.
Seal(t) ==
  LET counted == Cardinality(save[t].entity) IN
  traces' = [traces EXCEPT ![t].status = IF t \in erred THEN "error" ELSE "success",
                           ![t].total = IF save[t].seen < counted THEN counted ELSE @]

SaveCommit_RowOnly(t) ==
  /\ save[t].pc = "spans"
  /\ Seal(t)
  /\ UNCHANGED <<spans, append, errors>>
  /\ SaveEnds(t, "done")

\* ... and insert the others.  An uncommitted one is waited for; none can have been committed since
\* SaveIds, for that takes the row.
SaveCommit(t) ==
  /\ save[t].pc = "spans"
  /\ \A i \in save[t].missing : append[i].pc # "update"
  /\ Seal(t)
  /\ spans' = spans \cup save[t].missing
  /\ SaveEnds(t, "done")
  /\ UNCHANGED <<append, errors>>

\* PostgreSQL finds the two waiting for each other and ends one of them.
Deadlock(t) ==
  /\ save[t].pc = "spans"
  /\ \E i \in save[t].missing :
       /\ append[i].pc = "update"
       /\ \/ append' = [append EXCEPT ![i].pc = "failed"] /\ UNCHANGED <<handler, init, save, view>>
          \/ SaveEnds(t, "failed") /\ UNCHANGED append
  /\ UNCHANGED <<tables, errors>>

\* Any task may lose its connection: its transaction is rolled back, and that is logged.
TaskFails(t) ==
  /\ errors < MaxErrors /\ errors' = errors + 1
  /\ \/ /\ Busy(init[t].pc)
        /\ init' = [init EXCEPT ![t].pc = "failed"]
        /\ UNCHANGED <<handler, append, save, view>>
     \/ /\ Busy(append[t].pc)
        /\ append' = [append EXCEPT ![t].pc = "failed"]
        /\ UNCHANGED <<handler, init, save, view>>
     \/ Busy(save[t].pc) /\ SaveEnds(t, "failed") /\ UNCHANGED append
  /\ UNCHANGED tables

-----------------------------------------------------------------------------
(* TraceRepository of the gateway                                          *)

Readable(t) == traces[t] # NoRow

\* By its own name, by that of a span or a message, or as the latest of its session.
GetTrace(t) ==
  /\ view.pc = "idle" /\ Readable(t)
  /\ view' = [pc |-> "row", of |-> t, status |-> traces[t].status, spans |-> {}]
  /\ UNCHANGED <<handler, tables, init, append, save, errors>>

LoadSpans_Early(t) ==
  /\ view.pc = "row" /\ view.of = t
  /\ view' = [view EXCEPT !.pc = "read", !.status = traces[t].status]
  /\ UNCHANGED <<handler, tables, init, append, save, errors>>

\* selectinload: the spans in a second query, after the row.
LoadSpans(t) ==
  /\ view.pc = "row" /\ view.of = t
  /\ view' = [view EXCEPT !.pc = "read", !.spans = spans]
  /\ UNCHANGED <<handler, tables, init, append, save, errors>>

Hears(i)  == \/ OnChainStart(i) \/ OnChatModelStart(i) \/ OnToolStart(i) \/ OnNodeEnd(i)
             \/ OnLlmEnd(i) \/ OnLlmError(i) \/ OnToolEnd(i) \/ OnToolError(i)
             \/ OnRootEnd(i) \/ OnChainError(i)
Stores(t) == \/ InitSelect(t) \/ InitInsert(t) \/ AppendInsert(t) \/ AppendCommit(t)
             \/ SaveSelect(t) \/ SaveRow(t) \/ SaveIds(t) \/ SaveCommit(t) \/ Deadlock(t)

TraceNext == \E i \in Ids : Hears(i) \/ Stores(i) \/ TaskFails(i) \/ GetTrace(i) \/ LoadSpans(i)

TraceSpec == TraceInit /\ [][TraceNext]_traceVars

-----------------------------------------------------------------------------
(* Properties                                                              *)

Pcs == {"none", "select", "insert", "update", "row", "ids", "spans"} \cup Closed

\* Types of the state.
TraceTypeOK ==
  /\ phase \in [Ids -> {"new", "open", "ended"}]
  /\ parents \in [Ids -> Ids \cup {Top, Unset}]
  /\ buffers \in [Ids -> {NoBuffer} \cup SUBSET Ids]
  /\ erred \cup spans \subseteq Ids
  /\ traces \in [Ids -> [status : {"none", "running", "success", "error"}, total : Nat]]
  /\ {init, append} \subseteq [Ids -> [pc : Pcs, seen : Nat]]
  /\ save \in [Ids -> [pc : Pcs, found : BOOLEAN, seen : Nat,
                     entity : SUBSET Ids, missing : SUBSET Ids]]
  /\ view \in [pc : {"idle", "row", "read"}, of : Ids \cup {Unset}, spans : SUBSET Ids,
              status : {"none", "running", "success", "error"}]

\* Whatever runs are open at once, a span is buffered and saved under the root of its own call tree.
SpanIsUnderItsRoot ==
  \A t \in Ids : (buffers[t] \ NoBuffer) \cup save[t].entity \subseteq Tree(t)

\* A sealed trace has every span its run reported, and its tokens and tool calls count each of them
\* once, however the tasks that stored them were ordered; the total save_trace had read before others
\* added to it is never the larger one.
SealedIsExact ==
  \A t \in Roots : traces[t].status \in {"success", "error"} =>
    /\ save[t].entity \subseteq spans
    /\ traces[t].total = Cardinality(save[t].entity)

\* A total never counts a span that is not stored, though concurrent additions may be lost.
TotalNeverAbove == \A t \in Roots : traces[t].total <= Cardinality(spans \cap Tree(t))

\* A request that sees a trace as ended sees all of its spans.
ReaderSeesWhole ==
  view.pc = "read" /\ view.status \in {"success", "error"} => save[view.of].entity \subseteq view.spans

=============================================================================
