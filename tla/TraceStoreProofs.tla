-------------------------- MODULE TraceStoreProofs --------------------------
(***************************************************************************)
(* Theorems about TraceStore, for every number of runs, every tree of      *)
(* calls and every number of errors.                                       *)
(***************************************************************************)
EXTENDS TraceStore, FiniteSetTheorems, TLAPS

\* The root of a run in the tree of calls.
Home(i) == RootOf(Caller, i)
Kin(t)  == {i \in Ids : Home(i) = t}

OpenIn(ph) == {i \in Ids : ph[i] = "open"}
Opened     == OpenIn(phase)
SealedAs   == {"success", "error"}
Sealed(t)  == traces[t].status \in SealedAs

\* The handler knows the parent of every open run, and that one is open too.
Recorded(ps, O) == \A i \in O : ps[i] = Caller[i] /\ (i \in Runs => Under[i] \in O)

\* A span is buffered and saved under its root.
AtHome == \A t \in Ids : \A i \in (buffers[t] \ NoBuffer) \cup save[t].entity : Home(i) = t

\* The buffer of an open root is there, and is taken away once, when the root ends.
Flushed ==
  \A t \in Ids :
    /\ save[t].pc # "none" => phase[t] = "ended" /\ buffers[t] = NoBuffer
    /\ save[t].pc = "none" => save[t].entity = {} /\ save[t].missing = {}
    /\ t \in Roots \cap Opened => buffers[t] # NoBuffer

\* A span that is stored or being stored is in the buffer or the entity of its trace.
Held ==
  \A i \in Ids : i \in spans \/ append[i].pc \in {"insert", "update"} =>
    \E t \in Ids : i \in buffers[t] \cup save[t].entity

\* The totals that append_span has read do not count its own span.
SeenBelow ==
  \A i \in Ids : append[i].pc = "update" =>
    i \notin spans /\ append[i].seen <= Cardinality(spans \cap Kin(Home(i)))

\* The total that save_trace has read counts stored spans only; when it counts them all, nothing
\* can lower it any more.
Updating  == {"row", "ids", "spans"}
TotalRead ==
  \A t \in Ids : save[t].pc \in Updating =>
    /\ save[t].seen <= Cardinality(spans \cap Kin(t))
    /\ save[t].seen = Cardinality(save[t].entity) => traces[t].total = save[t].seen

\* What save_trace found missing is what it will insert.
MissingFits ==
  \A t \in Ids :
    /\ save[t].missing \subseteq save[t].entity
    /\ save[t].pc = "spans" => save[t].entity \ spans \subseteq save[t].missing

\* Only save_trace seals a trace.
SealedByCommit ==
  \A t \in Ids : Sealed(t) =>
    /\ save[t].pc = "done" /\ save[t].entity \subseteq spans
    /\ traces[t].total = Cardinality(save[t].entity)

TotalsBelow == \A t \in Ids : traces[t].total <= Cardinality(spans \cap Kin(t))

\* A status that was read as final is final.
ViewFinal == view.pc # "idle" /\ view.status \in SealedAs => view.of \in Ids /\ Sealed(view.of)

\* The inductive invariant.
TraceInv ==
  /\ TraceTypeOK /\ Recorded(parents, Opened) /\ AtHome /\ Flushed /\ Held /\ SeenBelow
  /\ TotalRead /\ MissingFits /\ SealedByCommit /\ TotalsBelow /\ ViewFinal /\ ReaderSeesWhole

RowSet  == [status : {"none", "running", "success", "error"}, total : Nat]
TaskSet == [pc : Pcs, seen : Nat]
SaveSet == [pc : Pcs, found : BOOLEAN, seen : Nat, entity : SUBSET Ids, missing : SUBSET Ids]
ViewSet == [pc : {"idle", "row", "read"}, of : Ids \cup {Unset}, spans : SUBSET Ids,
            status : {"none", "running", "success", "error"}]

-----------------------------------------------------------------------------
(* The tree of calls                                                       *)

\* The ids from i upwards are the smallest set that holds i and the parents of its members.
LEMMA AboveIsLeast ==
  ASSUME NEW p, NEW i \in Ids
  PROVE  /\ Above(p, i) \subseteq Ids /\ i \in Above(p, i)
         /\ \A k \in Above(p, i) : p[k] \in Ids => p[k] \in Above(p, i)
         /\ \A S \in SUBSET Ids : i \in S /\ (\A k \in S : p[k] \in Ids => p[k] \in S)
                                  => Above(p, i) \subseteq S
  BY DEF Above

\* Two sets of parents that agree from i upwards, in one of them, lead to the same ids.
LEMMA AboveAgrees ==
  ASSUME NEW p, NEW q, NEW i \in Ids, NEW O \in SUBSET Ids, i \in O,
         \A k \in O : p[k] = q[k] /\ (p[k] \in Ids => p[k] \in O)
  PROVE  Above(p, i) = Above(q, i) /\ Above(p, i) \subseteq O
<1>1. Above(p, i) \subseteq O /\ Above(q, i) \subseteq O  BY AboveIsLeast
<1>2. \A k \in Above(p, i) : q[k] \in Ids => q[k] \in Above(p, i)  BY <1>1, AboveIsLeast
<1>3. \A k \in Above(q, i) : p[k] \in Ids => p[k] \in Above(q, i)  BY <1>1, AboveIsLeast
<1>4. Above(q, i) \subseteq Above(p, i)
  <2>. DEFINE S == Above(p, i)
  <2>1. S \in SUBSET Ids /\ i \in S /\ \A k \in S : q[k] \in Ids => q[k] \in S
    BY <1>2, AboveIsLeast
  <2>. HIDE DEF S
  <2>2. Above(q, i) \subseteq S  BY <2>1, AboveIsLeast
  <2>. QED  BY <2>2 DEF S
<1>5. Above(p, i) \subseteq Above(q, i)
  <2>. DEFINE S == Above(q, i)
  <2>1. S \in SUBSET Ids /\ i \in S /\ \A k \in S : p[k] \in Ids => p[k] \in S
    BY <1>3, AboveIsLeast
  <2>. HIDE DEF S
  <2>2. Above(p, i) \subseteq S  BY <2>1, AboveIsLeast
  <2>. QED  BY <2>2 DEF S
<1>. QED  BY <1>1, <1>4, <1>5

\* What is called: nobody, by a root; an id, by a run.
LEMMA CallerOf ==
  ASSUME NEW i \in Ids
  PROVE  /\ i \in Runs => Caller[i] = Under[i] /\ Under[i] \in Ids
         /\ i \in Roots => Caller[i] = Top /\ i \notin Runs
         /\ Top \notin Ids
  BY CallTree DEF Caller, Ids

\* Calls end at a root, which is the root of all the ids below it.
LEMMA HomeIsRoot ==
  ASSUME NEW i \in Ids
  PROVE  Home(i) \in Roots \cap Above(Caller, i) /\ i \in Tree(Home(i))
<1>. DEFINE A == Above(Caller, i)
<1>1. A \subseteq Ids /\ i \in A /\ \A k \in A : Caller[k] \in Ids => Caller[k] \in A
  BY AboveIsLeast
<1>2. \E j \in A : Caller[j] \notin Ids
  <2>1. SUFFICES ASSUME \A j \in A : Caller[j] \in Ids PROVE FALSE  OBVIOUS
  <2>. HIDE DEF A
  <2>2. \A j \in A : j \in Runs /\ Caller[j] = Under[j]  BY <1>1, <2>1, CallerOf DEF Ids
  <2>3. A \in SUBSET Runs /\ A # {}  BY <1>1, <2>2
  <2>4. PICK j \in A : Under[j] \notin A  BY <2>3, CallTree
  <2>. QED  BY <1>1, <2>1, <2>2, <2>4
<1>3. Home(i) \in A /\ Caller[Home(i)] \notin Ids
  BY <1>2 DEF Home, RootOf
<1>4. Home(i) \in Roots
  <2>. HIDE DEF A
  <2>. QED  BY <1>1, <1>3, CallerOf DEF Ids
<1>5. i \in Tree(Home(i))  BY <1>3, <1>4 DEF Tree, Trees, Ids
<1>. QED  BY <1>3, <1>4, <1>5

\* The handler finds the root of an open run, however much of the rest it has forgotten.
LEMMA RootIsHome ==
  ASSUME NEW p, NEW O \in SUBSET Ids, NEW i \in O, Recorded(p, O)
  PROVE  RootOf(p, i) = Home(i) /\ Home(i) \in O \cap Roots
<1>1. \A k \in O : p[k] = Caller[k] /\ (p[k] \in Ids => p[k] \in O)
  BY CallerOf DEF Recorded, Ids
<1>2. Above(p, i) = Above(Caller, i) /\ Above(p, i) \subseteq O  BY <1>1, AboveAgrees
<1>3. RootOf(p, i) = Home(i)
  <2>1. \A j : (j \in Above(p, i) /\ p[j] \notin Ids) <=> (j \in Above(Caller, i) /\ Caller[j] \notin Ids)
    BY <1>1, <1>2
  <2>. QED  BY <2>1, Zenon DEF Home, RootOf
<1>. QED  BY <1>2, <1>3, HomeIsRoot


\* A root is its own.
LEMMA HomeOfRoot == ASSUME NEW i \in Roots PROVE Home(i) = i
<1>1. i \in Ids /\ Caller[i] \notin Ids  BY CallerOf DEF Ids
<1>2. {i} \in SUBSET Ids /\ \A k \in {i} : Caller[k] \in Ids => Caller[k] \in {i}  BY <1>1
<1>3. Above(Caller, i) \subseteq {i}  BY <1>1, <1>2, AboveIsLeast
<1>. QED  BY <1>1, <1>3, HomeIsRoot

-----------------------------------------------------------------------------
(* What the handler records                                                *)

\* A run that begins is recorded with the open ones, and found under its root.
LEMMA OpensTree ==
  ASSUME TraceTypeOK, Recorded(parents, Opened), NEW i \in Ids, Opens(i), parents' = Resolve(i)
  PROVE  /\ Recorded(parents', OpenIn(phase')) /\ OpenIn(phase') = Opened \cup {i}
         /\ RootOf(parents', i) = Home(i) /\ Home(i) \in Roots \cap OpenIn(phase')
         /\ phase' \in [Ids -> {"new", "open", "ended"}]
         /\ parents' \in [Ids -> Ids \cup {Top, Unset}]
         /\ \A u \in Ids : phase[u] = "ended" => phase'[u] = "ended"
<1>1. phase \in [Ids -> {"new", "open", "ended"}] /\ parents \in [Ids -> Ids \cup {Top, Unset}]
  BY DEF TraceTypeOK
<1>2. phase' = [phase EXCEPT ![i] = "open"] /\ phase[i] = "new"
      /\ (i \in Runs => phase[Under[i]] = "open")
  BY DEF Opens
<1>3. parents' = [parents EXCEPT ![i] = Caller[i]]  BY DEF Resolve
<1>4. Caller[i] \in Ids \cup {Top}  BY CallerOf DEF Ids
<1>5. phase' \in [Ids -> {"new", "open", "ended"}] /\ parents' \in [Ids -> Ids \cup {Top, Unset}]
      /\ \A u \in Ids : phase[u] = "ended" => phase'[u] = "ended"
  BY <1>1, <1>2, <1>3, <1>4
<1>6. OpenIn(phase') = Opened \cup {i}  BY <1>1, <1>2 DEF Opened, OpenIn
<1>7. i \in Runs => Under[i] \in Opened  BY <1>2, CallerOf DEF Opened, OpenIn
<1>8. \A k \in Opened : k # i /\ parents'[k] = parents[k] /\ k \in Ids
  BY <1>1, <1>2, <1>3 DEF Opened, OpenIn
<1>9. parents'[i] = Caller[i]  BY <1>1, <1>3
<1>10. Recorded(parents', OpenIn(phase'))  BY <1>6, <1>7, <1>8, <1>9 DEF Recorded
<1>11. OpenIn(phase') \in SUBSET Ids /\ i \in OpenIn(phase')  BY <1>6 DEF OpenIn
<1>. QED  BY <1>5, <1>6, <1>10, <1>11, RootIsHome

\* A run that ends is found under its root, which is open; the others stay recorded.
LEMMA ClosesTree ==
  ASSUME TraceTypeOK, Recorded(parents, Opened), NEW i \in Ids, Closes(i)
  PROVE  /\ Recorded(parents', OpenIn(phase')) /\ OpenIn(phase') = Opened \ {i} /\ i \in Opened
         /\ RootOf(parents', i) = Home(i) /\ Home(i) \in Roots \cap Opened
         /\ phase' \in [Ids -> {"new", "open", "ended"}] /\ phase'[i] = "ended"
         /\ parents' \in [Ids -> Ids \cup {Top, Unset}]
         /\ \A u \in Ids : phase[u] = "ended" => phase'[u] = "ended"
<1>1. phase \in [Ids -> {"new", "open", "ended"}] /\ parents \in [Ids -> Ids \cup {Top, Unset}]
  BY DEF TraceTypeOK
<1>2. phase' = [phase EXCEPT ![i] = "ended"] /\ phase[i] = "open"
      /\ (\A j \in Runs : Under[j] = i => phase[j] # "open")
  BY DEF Closes
<1>3. parents' = [parents EXCEPT ![i] = Caller[i]]  BY DEF Closes, Resolve
<1>4. Caller[i] \in Ids \cup {Top}  BY CallerOf DEF Ids
<1>5. phase' \in [Ids -> {"new", "open", "ended"}] /\ parents' \in [Ids -> Ids \cup {Top, Unset}]
      /\ (\A u \in Ids : phase[u] = "ended" => phase'[u] = "ended") /\ phase'[i] = "ended"
  BY <1>1, <1>2, <1>3, <1>4
<1>6. OpenIn(phase') = Opened \ {i} /\ i \in Opened  BY <1>1, <1>2 DEF Opened, OpenIn
<1>7. \A k \in Opened : k \in Ids /\ phase[k] = "open" /\ parents'[k] = Caller[k]
  BY <1>1, <1>3 DEF Recorded, Opened, OpenIn
<1>8. Recorded(parents', Opened)  BY <1>7 DEF Recorded
<1>9. \A k \in Opened : k \in Runs => Under[k] # i  BY <1>2, <1>7
<1>10. Recorded(parents', OpenIn(phase'))  BY <1>6, <1>8, <1>9 DEF Recorded
<1>11. Opened \in SUBSET Ids  BY DEF Opened, OpenIn
<1>. QED  BY <1>5, <1>6, <1>8, <1>10, <1>11, RootIsHome

\* What is forgotten with a root that has ended is not the parent of an open run.
LEMMA CleanupTree ==
  ASSUME TraceTypeOK, Recorded(parents, Opened), Flushed, NEW t \in Ids, save[t].pc # "none",
         Cleanup(t), UNCHANGED phase
  PROVE  Recorded(parents', OpenIn(phase')) /\ parents' \in [Ids -> Ids \cup {Top, Unset}]
<1>1. parents \in [Ids -> Ids \cup {Top, Unset}]  BY DEF TraceTypeOK
<1>2. parents' = [i \in Ids |-> IF i = t \/ parents[i] = t THEN Unset ELSE parents[i]]
  BY DEF Cleanup
<1>3. t \notin Opened  BY DEF Flushed, Opened, OpenIn
<1>4. ASSUME NEW k \in Opened PROVE k # t /\ parents[k] # t
  <2>1. k \in Ids /\ parents[k] = Caller[k] /\ (k \in Runs => Under[k] \in Opened)
    BY DEF Recorded, Opened, OpenIn
  <2>. QED  BY <1>3, <2>1, CallerOf DEF Ids
<1>5. \A k \in Opened : parents'[k] = parents[k]  BY <1>2, <1>4 DEF Opened, OpenIn
<1>6. OpenIn(phase') = Opened  BY DEF Opened, OpenIn
<1>7. Recorded(parents', OpenIn(phase'))  BY <1>5, <1>6 DEF Recorded
<1>. QED  BY <1>1, <1>2, <1>7


-----------------------------------------------------------------------------
(* The state part by part                                                  *)

\* The types of the state, variable by variable.
LEMMA Typed ==
  TraceTypeOK <=>
    /\ phase \in [Ids -> {"new", "open", "ended"}]
    /\ parents \in [Ids -> Ids \cup {Top, Unset}]
    /\ buffers \in [Ids -> {NoBuffer} \cup SUBSET Ids]
    /\ erred \subseteq Ids /\ spans \subseteq Ids
    /\ traces \in [Ids -> RowSet]
    /\ init \in [Ids -> TaskSet] /\ append \in [Ids -> TaskSet]
    /\ save \in [Ids -> SaveSet] /\ view \in ViewSet
  BY Zenon DEF TraceTypeOK, RowSet, TaskSet, SaveSet, ViewSet

\* The same of the next state.
LEMMA TypedNext ==
  ASSUME phase' \in [Ids -> {"new", "open", "ended"}],
         parents' \in [Ids -> Ids \cup {Top, Unset}],
         buffers' \in [Ids -> {NoBuffer} \cup SUBSET Ids],
         erred' \subseteq Ids, spans' \subseteq Ids, traces' \in [Ids -> RowSet],
         init' \in [Ids -> TaskSet], append' \in [Ids -> TaskSet],
         save' \in [Ids -> SaveSet], view' \in ViewSet
  PROVE  TraceTypeOK'
  BY Zenon DEF TraceTypeOK, RowSet, TaskSet, SaveSet, ViewSet

\* A task that moves on keeps what it has read.
LEMMA TaskMoves ==
  ASSUME NEW f \in [Ids -> TaskSet], NEW i \in Ids, NEW pc \in Pcs
  PROVE  /\ [f EXCEPT ![i].pc = pc] \in [Ids -> TaskSet]
         /\ [f EXCEPT ![i].pc = pc][i].pc = pc
         /\ \A j \in Ids \ {i} : [f EXCEPT ![i].pc = pc][j] = f[j]
<1>1. [f[i] EXCEPT !.pc = pc] \in TaskSet /\ [f[i] EXCEPT !.pc = pc].pc = pc  BY DEF TaskSet
<1>. QED  BY <1>1

\* The ids are finitely many, and so are the members of each set of them.
LEMMA Finite ==
  ASSUME NEW S \in SUBSET Ids PROVE IsFiniteSet(S) /\ Cardinality(S) \in Nat
  BY CallTree, FS_Subset, FS_CardinalityType

\* A set of ids has no more members than one it is part of.
LEMMA CountGrows ==
  ASSUME NEW S \in SUBSET Ids, NEW T \in SUBSET S
  PROVE  Cardinality(T) <= Cardinality(S) /\ Cardinality(S) \in Nat /\ Cardinality(T) \in Nat
<1>1. T \in SUBSET Ids  OBVIOUS
<1>. QED  BY <1>1, Finite, FS_Subset

-----------------------------------------------------------------------------
(* The invariant is inductive                                              *)

\* Every initial state satisfies it, whatever runs are absent.
LEMMA TraceInvInit ==
  ASSUME NEW absent, NEW spent, InitWithout(absent, spent) PROVE TraceInv
<1>1. /\ phase = [i \in Ids |-> IF i \in absent THEN "ended" ELSE "new"]
      /\ parents = [i \in Ids |-> Unset] /\ buffers = [t \in Ids |-> NoBuffer]
      /\ erred = {} /\ spans = {} /\ traces = [t \in Ids |-> NoRow]
      /\ init = [t \in Ids |-> NoTask] /\ append = [i \in Ids |-> NoTask]
      /\ save = [t \in Ids |-> NoSave]
      /\ view = [pc |-> "idle", of |-> Unset, status |-> "none", spans |-> {}]
  BY DEF InitWithout
<1>2. TraceTypeOK
  <2>1. NoRow \in RowSet /\ NoTask \in TaskSet /\ NoSave \in SaveSet /\ view \in ViewSet
    BY <1>1 DEF NoRow, NoTask, NoSave, RowSet, TaskSet, SaveSet, ViewSet, Pcs
  <2>2. phase \in [Ids -> {"new", "open", "ended"}] /\ parents \in [Ids -> Ids \cup {Top, Unset}]
        /\ buffers \in [Ids -> {NoBuffer} \cup SUBSET Ids]
    BY <1>1
  <2>3. /\ traces \in [Ids -> RowSet] /\ save \in [Ids -> SaveSet]
        /\ init \in [Ids -> TaskSet] /\ append \in [Ids -> TaskSet]
    BY <1>1, <2>1
  <2>. QED  BY <1>1, <2>1, <2>2, <2>3, Typed
<1>3. \A t \in Ids : /\ save[t].pc = "none" /\ save[t].entity = {} /\ save[t].missing = {}
                     /\ append[t].pc = "none" /\ traces[t].status = "none" /\ traces[t].total = 0
                     /\ buffers[t] = NoBuffer
  BY <1>1 DEF NoRow, NoTask, NoSave
<1>4. Opened = {}  BY <1>1 DEF Opened, OpenIn
<1>5. Recorded(parents, Opened)  BY <1>4 DEF Recorded
<1>6. AtHome /\ Flushed /\ Held /\ SeenBelow /\ TotalRead /\ MissingFits /\ SealedByCommit
  BY <1>1, <1>3, <1>4
  DEF AtHome, Flushed, Held, SeenBelow, TotalRead, Updating, MissingFits, SealedByCommit, Sealed, SealedAs
<1>7. TotalsBelow
  <2>1. \A t \in Ids : spans \cap Kin(t) \in SUBSET Ids  BY <1>1
  <2>. QED  BY <1>3, <2>1, Finite DEF TotalsBelow
<1>8. ViewFinal /\ ReaderSeesWhole  BY <1>1 DEF ViewFinal, ReaderSeesWhole
<1>. QED  BY <1>2, <1>5, <1>6, <1>7, <1>8 DEF TraceInv

\* The handler: what it buffers it buffers under its root, and it takes nothing away.
LEMMA HandlerInv ==
  ASSUME TraceInv, UNCHANGED <<traces, spans, save, view>>,
         phase' \in [Ids -> {"new", "open", "ended"}], parents' \in [Ids -> Ids \cup {Top, Unset}],
         buffers' \in [Ids -> {NoBuffer} \cup SUBSET Ids], erred' \subseteq Ids,
         init' \in [Ids -> TaskSet], append' \in [Ids -> TaskSet],
         Recorded(parents', OpenIn(phase')),
         \A u \in Ids : phase[u] = "ended" => phase'[u] = "ended" /\ buffers'[u] = buffers[u],
         \A u \in Ids : buffers[u] \ NoBuffer \subseteq buffers'[u],
         \A u \in Ids : \A i \in buffers'[u] \ NoBuffer : i \in buffers[u] \/ Home(i) = u,
         \A u \in Roots \cap OpenIn(phase') : buffers'[u] # NoBuffer,
         \A i \in Ids : append'[i].pc \in {"insert", "update"} =>
            \/ append'[i] = append[i]
            \/ append'[i].pc = "insert" /\ \E u \in Ids : i \in buffers'[u]
  PROVE  TraceInv'
<1>. USE DEF TraceInv
<1>1. TraceTypeOK'
  <2>1. traces \in [Ids -> RowSet] /\ save \in [Ids -> SaveSet] /\ view \in ViewSet
        /\ spans \subseteq Ids
    BY Typed
  <2>. QED  BY <2>1, Zenon DEF TraceTypeOK, RowSet, TaskSet, SaveSet, ViewSet
<1>2. Recorded(parents, Opened)'  BY DEF Opened
<1>3. AtHome'  BY DEF AtHome
<1>4. Flushed'  BY DEF Flushed, Opened, OpenIn
<1>5. Held'
  <2>. SUFFICES ASSUME NEW i \in Ids, i \in spans \/ append'[i].pc \in {"insert", "update"}
                PROVE  \E t \in Ids : i \in buffers'[t] \cup save'[t].entity
    BY DEF Held
  <2>1. CASE i \in spans \/ append'[i] = append[i]
    <3>1. PICK t \in Ids : i \in buffers[t] \cup save[t].entity  BY <2>1 DEF Held
    <3>2. i # Unset  BY CallTree
    <3>. QED  BY <3>1, <3>2 DEF NoBuffer
  <2>. QED  BY <2>1
<1>6. SeenBelow'  BY DEF SeenBelow
<1>7. (TotalRead /\ MissingFits /\ SealedByCommit /\ TotalsBelow /\ ViewFinal /\ ReaderSeesWhole)'
  BY DEF TotalRead, MissingFits, SealedByCommit, Sealed, TotalsBelow, ViewFinal, ReaderSeesWhole
<1>. QED  BY <1>1, <1>2, <1>3, <1>4, <1>5, <1>6, <1>7

\* A run begins.
LEMMA BeginInv ==
  ASSUME TraceInv, NEW i \in Ids, OnChainStart(i) \/ OnChatModelStart(i) \/ OnToolStart(i)
  PROVE  TraceInv'
<1>. USE DEF TraceInv
<1>. DEFINE t == Home(i)
<1>1. Opens(i) /\ parents' = Resolve(i) /\ UNCHANGED <<traces, spans, save, view, erred, append>>
  BY DEF OnChainStart, OnChatModelStart, OnToolStart, Stored, tables
<1>2. /\ Recorded(parents', OpenIn(phase')) /\ OpenIn(phase') = Opened \cup {i}
      /\ RootOf(parents', i) = t /\ t \in Roots \cap OpenIn(phase')
      /\ phase' \in [Ids -> {"new", "open", "ended"}]
      /\ parents' \in [Ids -> Ids \cup {Top, Unset}]
      /\ \A u \in Ids : phase[u] = "ended" => phase'[u] = "ended"
  BY <1>1, OpensTree
<1>3. buffers \in [Ids -> {NoBuffer} \cup SUBSET Ids] /\ init \in [Ids -> TaskSet]
      /\ append \in [Ids -> TaskSet] /\ erred \subseteq Ids
  BY Typed
<1>4. ~ {} = NoBuffer  BY DEF NoBuffer
<1>5. /\ buffers' \in [Ids -> {NoBuffer} \cup SUBSET Ids] /\ init' \in [Ids -> TaskSet]
      /\ \A u \in Ids : u # t => buffers'[u] = buffers[u]
      /\ buffers'[t] = buffers[t] \/ (buffers[t] = NoBuffer /\ buffers'[t] = {})
      /\ i \in Roots => buffers'[t] # NoBuffer
  <2>1. CASE OnChainStart(i)
    <3>1. GetOrCreate(t)  BY <1>2, <2>1 DEF OnChainStart
    <3>2. "select" \in Pcs  BY DEF Pcs
    <3>3. [init EXCEPT ![t].pc = "select"] \in [Ids -> TaskSet]
      BY <1>2, <1>3, <3>2, TaskMoves DEF OpenIn
    <3>4. buffers' = (IF buffers[t] = NoBuffer THEN [buffers EXCEPT ![t] = {}] ELSE buffers)
          /\ init' = (IF buffers[t] = NoBuffer THEN [init EXCEPT ![t].pc = "select"] ELSE init)
      BY <3>1 DEF GetOrCreate
    <3>5. t \in Ids  BY <1>2 DEF OpenIn
    <3>. HIDE DEF t
    <3>. QED  BY <1>3, <1>4, <3>3, <3>4, <3>5
  <2>2. CASE OnChatModelStart(i) \/ OnToolStart(i)
    <3>1. UNCHANGED <<buffers, init>> /\ i \in Runs
      BY <2>2 DEF OnChatModelStart, OnToolStart, Of
    <3>2. i \notin Roots  BY <3>1, CallTree
    <3>. QED  BY <1>3, <3>1, <3>2
  <2>. QED  BY <2>1, <2>2
<1>6. \A u \in Ids : phase[u] = "ended" => phase'[u] = "ended" /\ u # t
  BY <1>2 DEF OpenIn
<1>7. ASSUME NEW u \in Roots \cap OpenIn(phase') PROVE buffers'[u] # NoBuffer
  <2>1. CASE u \in Opened
    <3>1. buffers[u] # NoBuffer  BY <2>1 DEF Flushed, Opened, OpenIn
    <3>. QED  BY <1>4, <1>5, <2>1, <3>1 DEF Opened, OpenIn
  <2>2. CASE u = i
    <3>1. u = t  BY <2>2, HomeOfRoot
    <3>. QED  BY <1>5, <2>2, <3>1
  <2>. QED  BY <1>2, <2>1, <2>2
<1>8. \A u \in Ids : buffers[u] \ NoBuffer \subseteq buffers'[u]  BY <1>5
<1>9. \A u \in Ids : \A j \in buffers'[u] \ NoBuffer : j \in buffers[u]  BY <1>5
<1>10. \A u \in Ids : phase[u] = "ended" => phase'[u] = "ended" /\ buffers'[u] = buffers[u]
  BY <1>5, <1>6
<1>11. append' = append /\ erred' = erred /\ UNCHANGED <<traces, spans, save, view>>  BY <1>1
<1>. HIDE DEF TraceInv, t
<1>. QED  BY <1>2, <1>3, <1>5, <1>7, <1>8, <1>9, <1>10, <1>11, HandlerInv

\* A run ends, and what it did is recorded.
LEMMA RecordInv ==
  ASSUME TraceInv, NEW i \in Runs, NEW failed \in BOOLEAN, Closes(i), RecordSpan(i, failed), Stored
  PROVE  TraceInv'
<1>. USE DEF TraceInv
<1>. DEFINE t == Home(i)
<1>0. i \in Ids /\ i \notin Roots  BY CallTree DEF Ids
<1>1. UNCHANGED <<traces, spans, save, view>>  BY DEF Stored, tables
<1>2. /\ Recorded(parents', OpenIn(phase')) /\ OpenIn(phase') = Opened \ {i} /\ i \in Opened
      /\ RootOf(parents', i) = t /\ t \in Roots \cap Opened
      /\ phase' \in [Ids -> {"new", "open", "ended"}]
      /\ parents' \in [Ids -> Ids \cup {Top, Unset}]
      /\ \A u \in Ids : phase[u] = "ended" => phase'[u] = "ended"
  BY <1>0, ClosesTree
<1>3. buffers \in [Ids -> {NoBuffer} \cup SUBSET Ids] /\ init \in [Ids -> TaskSet]
      /\ append \in [Ids -> TaskSet] /\ erred \subseteq Ids
  BY Typed
<1>4. t \in Ids /\ phase[t] = "open" /\ buffers[t] # NoBuffer
  BY <1>2 DEF Opened, OpenIn, Flushed
<1>5. buffers[t] \subseteq Ids /\ buffers[t] \ NoBuffer = buffers[t]
  <2>1. buffers[t] \subseteq Ids  BY <1>3, <1>4
  <2>. QED  BY <2>1, CallTree DEF NoBuffer
<1>6. buffers' = [buffers EXCEPT ![t] = buffers[t] \cup {i}] /\ init' = init
      /\ append' = [append EXCEPT ![i].pc = "insert"]
      /\ erred' = (IF failed THEN erred \cup {t} ELSE erred)
  <2>. HIDE DEF t
  <2>. QED  BY <1>2, <1>4, <1>5 DEF RecordSpan
<1>7. append' \in [Ids -> TaskSet] /\ append'[i].pc = "insert"
      /\ \A j \in Ids \ {i} : append'[j] = append[j]
  BY <1>0, <1>3, <1>6, TaskMoves DEF Pcs
<1>. HIDE DEF t
<1>8. buffers' \in [Ids -> {NoBuffer} \cup SUBSET Ids] /\ erred' \subseteq Ids
      /\ buffers'[t] = buffers[t] \cup {i} /\ \A u \in Ids \ {t} : buffers'[u] = buffers[u]
  BY <1>0, <1>3, <1>4, <1>5, <1>6
<1>9. i # Unset  BY <1>0, CallTree
<1>10. \A u \in Roots \cap OpenIn(phase') : buffers'[u] # NoBuffer
  <2>1. \A u \in Roots \cap Opened : u \in Ids /\ buffers[u] # NoBuffer
    BY DEF Flushed, Opened, OpenIn
  <2>2. buffers'[t] # NoBuffer  BY <1>8, <1>9 DEF NoBuffer
  <2>. QED  BY <1>2, <1>8, <2>1, <2>2
<1>11. \A u \in Ids : buffers[u] \ NoBuffer \subseteq buffers'[u]  BY <1>8
<1>12. \A u \in Ids : \A j \in buffers'[u] \ NoBuffer : j \in buffers[u] \/ Home(j) = u
  BY <1>8 DEF t
<1>13. \A u \in Ids : phase[u] = "ended" => phase'[u] = "ended" /\ buffers'[u] = buffers[u]
  BY <1>2, <1>4, <1>8
<1>14. \A j \in Ids : append'[j].pc \in {"insert", "update"} =>
          \/ append'[j] = append[j]
          \/ append'[j].pc = "insert" /\ \E u \in Ids : j \in buffers'[u]
  BY <1>4, <1>7, <1>8
<1>15. init' \in [Ids -> TaskSet]  BY <1>3, <1>6
<1>. HIDE DEF TraceInv
<1>. QED  BY <1>1, <1>2, <1>7, <1>8, <1>10, <1>11, <1>12, <1>13, <1>14, <1>15, HandlerInv

\* A fragment of a node that ends is not recorded.
LEMMA FragmentInv ==
  ASSUME TraceInv, NEW i \in Runs, Closes(i), UNCHANGED <<buffers, erred, init, append>>, Stored
  PROVE  TraceInv'
<1>. USE DEF TraceInv
<1>0. i \in Ids  BY DEF Ids
<1>1. UNCHANGED <<traces, spans, save, view>>  BY DEF Stored, tables
<1>2. /\ Recorded(parents', OpenIn(phase')) /\ OpenIn(phase') = Opened \ {i}
      /\ phase' \in [Ids -> {"new", "open", "ended"}]
      /\ parents' \in [Ids -> Ids \cup {Top, Unset}]
      /\ \A u \in Ids : phase[u] = "ended" => phase'[u] = "ended"
  BY <1>0, ClosesTree
<1>3. buffers \in [Ids -> {NoBuffer} \cup SUBSET Ids] /\ init \in [Ids -> TaskSet]
      /\ append \in [Ids -> TaskSet] /\ erred \subseteq Ids
  BY Typed
<1>4. \A u \in Roots \cap OpenIn(phase') : buffers'[u] # NoBuffer
  BY <1>2 DEF Flushed, Opened, OpenIn
<1>. HIDE DEF TraceInv
<1>. QED  BY <1>1, <1>2, <1>3, <1>4, HandlerInv

\* The graph ends: its buffer, and the span of its failure, are what is saved.
LEMMA RootEndInv ==
  ASSUME TraceInv, NEW i \in Roots, NEW new \in SUBSET {i}, Closes(i),
         Finalize(i, buffers[i] \cup new), buffers' = [buffers EXCEPT ![i] = NoBuffer],
         append' = append \/ (new = {i} /\ append' = [append EXCEPT ![i].pc = "insert"]),
         erred' \in {erred, erred \cup {i}}, UNCHANGED <<init, traces, spans, view>>
  PROVE  TraceInv'
<1>. USE DEF TraceInv
<1>. DEFINE e == buffers[i] \cup new
<1>0. i \in Ids  BY DEF Ids
<1>2. /\ Recorded(parents', OpenIn(phase')) /\ OpenIn(phase') = Opened \ {i} /\ i \in Opened
      /\ phase' \in [Ids -> {"new", "open", "ended"}] /\ phase'[i] = "ended"
      /\ parents' \in [Ids -> Ids \cup {Top, Unset}]
      /\ \A u \in Ids : phase[u] = "ended" => phase'[u] = "ended"
  BY <1>0, ClosesTree
<1>3. buffers \in [Ids -> {NoBuffer} \cup SUBSET Ids] /\ init \in [Ids -> TaskSet]
      /\ append \in [Ids -> TaskSet] /\ erred \subseteq Ids /\ spans \subseteq Ids
      /\ traces \in [Ids -> RowSet] /\ save \in [Ids -> SaveSet] /\ view \in ViewSet
  BY Typed
<1>4. phase[i] = "open" /\ buffers[i] # NoBuffer  BY <1>0, <1>2 DEF Opened, OpenIn, Flushed
<1>5. e \in SUBSET Ids /\ \A j \in e : j # Unset /\ Home(j) = i
  <2>1. buffers[i] \subseteq Ids  BY <1>0, <1>3, <1>4
  <2>2. \A j \in buffers[i] : j # Unset /\ Home(j) = i
    BY <1>0, <2>1, CallTree DEF AtHome, NoBuffer
  <2>3. i # Unset /\ Home(i) = i  BY <1>0, CallTree, HomeOfRoot
  <2>. QED  BY <1>0, <2>1, <2>2, <2>3
<1>6. save[i].pc = "none" /\ save[i].entity = {} /\ save[i].missing = {} /\ ~Sealed(i)
  BY <1>0, <1>4 DEF Flushed, SealedByCommit
<1>. HIDE DEF e
<1>7. /\ save' \in [Ids -> SaveSet] /\ \A u \in Ids \ {i} : save'[u] = save[u]
      /\ save'[i].pc = "select" /\ save'[i].entity = e /\ save'[i].missing = {}
  <2>1. save' = [save EXCEPT ![i] = [save[i] EXCEPT !.pc = "select", !.entity = e]]
    BY <1>0, <1>3 DEF Finalize, e
  <2>0. "select" \in Pcs /\ e \in SUBSET Ids /\ save[i] \in SaveSet  BY <1>0, <1>3, <1>5 DEF Pcs
  <2>. HIDE DEF TraceInv
  <2>2. [save[i] EXCEPT !.pc = "select", !.entity = e] \in SaveSet
    BY <2>0 DEF SaveSet
  <2>3. save[i] \in SaveSet  BY <1>0, <1>3
  <2>4. /\ [save[i] EXCEPT !.pc = "select", !.entity = e].pc = "select"
        /\ [save[i] EXCEPT !.pc = "select", !.entity = e].entity = e
        /\ [save[i] EXCEPT !.pc = "select", !.entity = e].missing = save[i].missing
    BY <2>3 DEF SaveSet
  <2>. DEFINE r == [save[i] EXCEPT !.pc = "select", !.entity = e]
  <2>5. save' = [save EXCEPT ![i] = r] /\ r \in SaveSet  BY <2>1, <2>2
  <2>6. r.pc = "select" /\ r.entity = e /\ r.missing = {}  BY <1>6, <2>4
  <2>. HIDE DEF r
  <2>. QED  BY <1>0, <1>3, <2>5, <2>6
<1>8. append' \in [Ids -> TaskSet] /\ \A j \in Ids : append'[j] = append[j]
         \/ (j = i /\ i \in e /\ append'[j].pc = "insert")
  <2>1. CASE append' = append  BY <1>3, <2>1
  <2>2. CASE new = {i} /\ append' = [append EXCEPT ![i].pc = "insert"]
    <3>1. "insert" \in Pcs /\ i \in e  BY <2>2 DEF Pcs, e
    <3>2. append' \in [Ids -> TaskSet] /\ append'[i].pc = "insert"
          /\ \A j \in Ids \ {i} : append'[j] = append[j]
      BY <1>0, <1>3, <2>2, <3>1, TaskMoves
    <3>. QED  BY <3>1, <3>2
  <2>. QED  BY <2>1, <2>2
<1>9. buffers' \in [Ids -> {NoBuffer} \cup SUBSET Ids] /\ buffers'[i] = NoBuffer
      /\ \A u \in Ids \ {i} : buffers'[u] = buffers[u]
  BY <1>0, <1>3
<1>10. TraceTypeOK'
  <2>1. erred' \subseteq Ids  BY <1>0, <1>3
  <2>. QED  BY <1>2, <1>3, <1>7, <1>8, <1>9, <2>1, Zenon
            DEF TraceTypeOK, RowSet, TaskSet, SaveSet, ViewSet
<1>11. Recorded(parents, Opened)'  BY <1>2 DEF Opened
<1>12. AtHome'  BY <1>5, <1>7, <1>9 DEF AtHome
<1>13. Flushed'  BY <1>2, <1>7, <1>9 DEF Flushed, Opened, OpenIn
<1>14. Held'
  <2>. SUFFICES ASSUME NEW j \in Ids, j \in spans \/ append'[j].pc \in {"insert", "update"}
                PROVE  \E u \in Ids : j \in buffers'[u] \cup save'[u].entity
    BY DEF Held
  <2>1. CASE j \in spans \/ append'[j] = append[j]
    <3>1. PICK u \in Ids : j \in buffers[u] \cup save[u].entity  BY <2>1 DEF Held
    <3>2. CASE u = i
      <4>1. j \in e  BY <1>6, <3>1, <3>2 DEF e
      <4>2. j \in save'[i].entity  BY <1>7, <4>1
      <4>. QED  BY <1>0, <4>2
    <3>3. CASE u # i
      <4>1. buffers'[u] = buffers[u] /\ save'[u] = save[u]  BY <1>7, <1>9, <3>3
      <4>. QED  BY <3>1, <4>1
    <3>. QED  BY <3>2, <3>3
  <2>2. CASE j = i /\ i \in e
    <3>1. j \in save'[i].entity  BY <1>7, <2>2
    <3>. QED  BY <1>0, <3>1
  <2>. QED  BY <1>8, <2>1, <2>2
<1>15. SeenBelow'  BY <1>8 DEF SeenBelow
<1>16. MissingFits' /\ TotalRead'  BY <1>7 DEF MissingFits, TotalRead, Updating
<1>17. SealedByCommit'  BY <1>6, <1>7 DEF SealedByCommit, Sealed
<1>18. TotalsBelow' /\ ViewFinal'  BY DEF TotalsBelow, ViewFinal, Sealed
<1>19. ReaderSeesWhole'
  <2>1. view.pc = "read" /\ view.status \in SealedAs => view.of \in Ids \ {i}
    BY <1>6 DEF ViewFinal
  <2>. QED  BY <1>7, <2>1 DEF ReaderSeesWhole, SealedAs
<1>. QED  BY <1>10, <1>11, <1>12, <1>13, <1>14, <1>15, <1>16, <1>17, <1>18, <1>19

\* A task of init_trace that does not write the row.
LEMMA InitTaskInv ==
  ASSUME TraceInv, NEW t \in Ids, NEW pc \in Pcs, init' = [init EXCEPT ![t].pc = pc],
         UNCHANGED <<handler, tables, append, save, view>>
  PROVE  TraceInv'
<1>. USE DEF TraceInv
<1>1. UNCHANGED <<phase, parents, buffers, erred, traces, spans, append, save, view>>
  BY DEF handler, tables
<1>2. init' \in [Ids -> TaskSet]  BY Typed, TaskMoves
<1>3. TraceTypeOK'  BY <1>1, <1>2, Typed, TypedNext
<1>4. Recorded(parents, Opened)' /\ AtHome' /\ Flushed' /\ Held' /\ SeenBelow'
  BY <1>1 DEF Recorded, Opened, OpenIn, AtHome, Flushed, Held, SeenBelow
<1>5. TotalRead' /\ MissingFits' /\ SealedByCommit' /\ TotalsBelow' /\ ViewFinal' /\ ReaderSeesWhole'
  BY <1>1 DEF TotalRead, MissingFits, SealedByCommit, Sealed, TotalsBelow, ViewFinal, ReaderSeesWhole
<1>. QED  BY <1>3, <1>4, <1>5

\* A row that is inserted is not sealed, and counts nothing.
LEMMA InitInsertInv ==
  ASSUME TraceInv, NEW t \in Ids, InitInsert(t)
  PROVE  TraceInv'
<1>1. CASE traces[t] # NoRow
  <2>1. init' = [init EXCEPT ![t].pc = "failed"] /\ "failed" \in Pcs
        /\ UNCHANGED <<handler, tables, append, save, view>>
    BY <1>1 DEF InitInsert, Pcs, Closed, tables
  <2>. QED  BY <2>1, InitTaskInv
<1>2. CASE traces[t] = NoRow
  <2>. USE DEF TraceInv
  <2>. DEFINE r == [status |-> "running", total |-> 0]
  <2>1. /\ traces' = [traces EXCEPT ![t] = r] /\ init' = [init EXCEPT ![t].pc = "done"]
        /\ UNCHANGED <<phase, parents, buffers, erred, spans, append, save, view>>
    BY <1>2 DEF InitInsert, handler
  <2>2. r \in RowSet /\ r.total = 0 /\ r.status \notin SealedAs  BY DEF RowSet, SealedAs
  <2>. HIDE DEF r
  <2>3. traces \in [Ids -> RowSet] /\ spans \subseteq Ids  BY Typed
  <2>4. traces' \in [Ids -> RowSet] /\ traces'[t] = r /\ \A u \in Ids \ {t} : traces'[u] = traces[u]
    BY <2>1, <2>2, <2>3
  <2>5. init' \in [Ids -> TaskSet]  BY <2>1, Typed, TaskMoves DEF Pcs, Closed
  <2>6. TraceTypeOK'  BY <2>1, <2>4, <2>5, Typed, TypedNext
  <2>7. Recorded(parents, Opened)' /\ AtHome' /\ Flushed' /\ Held' /\ SeenBelow'
    BY <2>1 DEF Recorded, Opened, OpenIn, AtHome, Flushed, Held, SeenBelow
  <2>8. ~Sealed(t)  BY <1>2 DEF Sealed, SealedAs, NoRow
  <2>9. MissingFits' /\ SealedByCommit'
    BY <2>1, <2>2, <2>4 DEF MissingFits, SealedByCommit, Sealed
  <2>12. TotalRead'
    <3>1. \A u \in Ids : traces'[u].total = traces[u].total  BY <1>2, <2>2, <2>4 DEF NoRow
    <3>. QED  BY <2>1, <3>1 DEF TotalRead
  <2>10. TotalsBelow'
    <3>1. \A u \in Ids : Cardinality(spans \cap Kin(u)) \in Nat  BY <2>3, Finite
    <3>. QED  BY <2>1, <2>2, <2>4, <3>1 DEF TotalsBelow
  <2>11. ViewFinal' /\ ReaderSeesWhole'
    BY <2>1, <2>4, <2>8 DEF ViewFinal, Sealed, ReaderSeesWhole
  <2>. QED  BY <2>6, <2>7, <2>9, <2>10, <2>11, <2>12
<1>. QED  BY <1>1, <1>2

\* A task of append_span that reads the totals, or fails.
LEMMA AppendTaskInv ==
  ASSUME TraceInv, NEW i \in Ids, NEW r \in TaskSet, append' = [append EXCEPT ![i] = r],
         UNCHANGED <<handler, tables, init, save, view>>,
         \/ r.pc = "failed"
         \/ /\ r.pc = "update" /\ append[i].pc = "insert" /\ i \notin spans
            /\ r.seen <= Cardinality(spans \cap Kin(Home(i)))
  PROVE  TraceInv'
<1>. USE DEF TraceInv
<1>1. UNCHANGED <<phase, parents, buffers, erred, traces, spans, init, save, view>>
  BY DEF handler, tables
<1>2. append \in [Ids -> TaskSet]  BY Typed
<1>3. append' \in [Ids -> TaskSet] /\ append'[i] = r /\ \A j \in Ids \ {i} : append'[j] = append[j]
  BY <1>2
<1>4. TraceTypeOK'  BY <1>1, <1>3, Typed, TypedNext
<1>5. Recorded(parents, Opened)' /\ AtHome' /\ Flushed'
  BY <1>1 DEF Recorded, Opened, OpenIn, AtHome, Flushed
<1>6. Held'
  <2>1. \A j \in Ids : append'[j].pc \in {"insert", "update"} => append[j].pc \in {"insert", "update"}
    BY <1>3
  <2>. QED  BY <1>1, <2>1 DEF Held
<1>7. SeenBelow'  BY <1>1, <1>3 DEF SeenBelow
<1>8. TotalRead' /\ MissingFits' /\ SealedByCommit' /\ TotalsBelow' /\ ViewFinal' /\ ReaderSeesWhole'
  BY <1>1 DEF TotalRead, MissingFits, SealedByCommit, Sealed, TotalsBelow, ViewFinal, ReaderSeesWhole
<1>. QED  BY <1>4, <1>5, <1>6, <1>7, <1>8

\* append_span writes to the row of the root of its run.
LEMMA TraceOfHome ==
  ASSUME TraceInv, NEW i \in Ids, append[i].pc \in {"insert", "update"}
  PROVE  TraceOf(i) = Home(i) /\ Home(i) \in Ids /\ i \in buffers[Home(i)] \cup save[Home(i)].entity
<1>. USE DEF TraceInv
<1>1. \E t \in Ids : i \in buffers[t] \cup save[t].entity  BY DEF Held
<1>2. TraceOf(i) \in Ids /\ i \in buffers[TraceOf(i)] \cup save[TraceOf(i)].entity
  BY <1>1 DEF TraceOf
<1>3. i # Unset  BY CallTree
<1>. QED  BY <1>2, <1>3 DEF AtHome, NoBuffer

\* The insert of a span that is not stored.
LEMMA AppendInsertInv ==
  ASSUME TraceInv, NEW i \in Ids, AppendInsert(i)
  PROVE  TraceInv'
<1>. DEFINE t == TraceOf(i)
            r == IF i \in spans \/ traces[t] = NoRow THEN [append[i] EXCEPT !.pc = "failed"]
                 ELSE [append[i] EXCEPT !.pc = "update", !.seen = traces[t].total]
<1>1. append[i].pc = "insert" /\ append' = [append EXCEPT ![i] = r]
      /\ UNCHANGED <<handler, tables, init, save, view>>
  BY DEF AppendInsert
<1>2. t = Home(i) /\ t \in Ids  BY <1>1, TraceOfHome
<1>3. append[i] \in TaskSet /\ traces[t] \in RowSet  BY <1>2, Typed DEF TraceInv
<1>4. traces[t].total \in Nat /\ traces[t].total <= Cardinality(spans \cap Kin(t))
  BY <1>2, <1>3 DEF TraceInv, TotalsBelow, RowSet
<1>5. /\ r \in TaskSet
      /\ \/ r.pc = "failed"
         \/ r.pc = "update" /\ i \notin spans /\ r.seen = traces[t].total
  <2>. HIDE DEF t
  <2>1. "failed" \in Pcs /\ "update" \in Pcs  BY DEF Pcs, Closed
  <2>. QED  BY <1>3, <1>4, <2>1 DEF TaskSet
<1>. HIDE DEF r, t
<1>. QED  BY <1>1, <1>2, <1>4, <1>5, AppendTaskInv

\* A task of append_span that fails.
LEMMA AppendFailsInv ==
  ASSUME TraceInv, NEW i \in Ids, append' = [append EXCEPT ![i].pc = "failed"],
         UNCHANGED <<handler, tables, init, save, view>>
  PROVE  TraceInv'
<1>. DEFINE r == [append[i] EXCEPT !.pc = "failed"]
<1>1. append[i] \in TaskSet  BY Typed DEF TraceInv
<1>2. r \in TaskSet /\ r.pc = "failed"  BY <1>1 DEF TaskSet, Pcs, Closed
<1>3. append' = [append EXCEPT ![i] = r]  OBVIOUS
<1>. HIDE DEF r
<1>. QED  BY <1>2, <1>3, AppendTaskInv

\* The stored spans of a trace that is being saved are among those of its entity; they are fewer
\* while one of the entity is not stored.
LEMMA SavedCounts ==
  ASSUME TraceInv, NEW t \in Ids, save[t].pc # "none"
  PROVE  /\ Cardinality(spans \cap Kin(t)) <= Cardinality(save[t].entity)
         /\ Cardinality(spans \cap Kin(t)) \in Nat /\ Cardinality(save[t].entity) \in Nat
         /\ \A i \in save[t].entity \ spans :
              Cardinality(spans \cap Kin(t)) < Cardinality(save[t].entity)
<1>. USE DEF TraceInv
<1>. DEFINE S == spans \cap Kin(t)
            e == save[t].entity
<1>1. spans \subseteq Ids /\ e \in SUBSET Ids  BY Typed DEF SaveSet
<1>2. ASSUME NEW i \in S PROVE i \in e
  <2>1. i \in Ids /\ i # Unset /\ Home(i) = t  BY <1>1, CallTree DEF Kin
  <2>2. PICK u \in Ids : i \in buffers[u] \cup save[u].entity  BY <2>1 DEF Held
  <2>3. u = t  BY <2>1, <2>2 DEF AtHome, NoBuffer
  <2>4. buffers[t] = NoBuffer  BY DEF Flushed
  <2>. QED  BY <2>1, <2>2, <2>3, <2>4 DEF NoBuffer
<1>3. S \in SUBSET e /\ S \in SUBSET Ids  BY <1>1, <1>2
<1>. HIDE DEF S, e
<1>4. Cardinality(S) <= Cardinality(e) /\ Cardinality(S) \in Nat /\ Cardinality(e) \in Nat
  BY <1>1, <1>3, CountGrows
<1>5. ASSUME NEW i \in e \ spans PROVE Cardinality(S) < Cardinality(e)
  <2>1. S \cup {i} \in SUBSET e /\ i \notin S  BY <1>3, <1>5 DEF S
  <2>2. Cardinality(S \cup {i}) = Cardinality(S) + 1  BY <1>3, <2>1, Finite, FS_AddElement
  <2>3. Cardinality(S \cup {i}) <= Cardinality(e)  BY <1>1, <2>1, CountGrows
  <2>. QED  BY <1>4, <2>2, <2>3
<1>. QED  BY <1>4, <1>5 DEF S, e

\* The span is stored, and counted once in the totals its trace had or has.
LEMMA AppendCommitInv ==
  ASSUME TraceInv, NEW i \in Ids, AppendCommit(i)
  PROVE  TraceInv'
<1>. USE DEF TraceInv
<1>. DEFINE t == Home(i)
            n == append[i].seen + 1
<1>1. append[i].pc = "update" /\ TraceOf(i) = t /\ t \in Ids /\ i \in buffers[t] \cup save[t].entity
  BY TraceOfHome DEF AppendCommit
<1>2. /\ traces' = [traces EXCEPT ![t].total = n] /\ spans' = spans \cup {i}
      /\ append' = [append EXCEPT ![i].pc = "done"]
      /\ UNCHANGED <<phase, parents, buffers, erred, init, save, view>>
  BY <1>1 DEF AppendCommit, handler
<1>3. traces \in [Ids -> RowSet] /\ spans \subseteq Ids /\ append \in [Ids -> TaskSet]  BY Typed
<1>4. append[i].seen \in Nat /\ i \notin spans
      /\ append[i].seen <= Cardinality(spans \cap Kin(t))
  <2>1. append[i] \in TaskSet  BY <1>3
  <2>. QED  BY <1>1, <2>1 DEF SeenBelow, TaskSet
<1>5. append' \in [Ids -> TaskSet] /\ append'[i].pc = "done"
      /\ \A j \in Ids \ {i} : append'[j] = append[j]
  BY <1>2, <1>3, TaskMoves DEF Pcs, Closed
<1>. DEFINE r == [traces[t] EXCEPT !.total = n]
<1>6. r \in RowSet /\ r.total = n /\ r.status = traces[t].status
  <2>1. traces[t] \in RowSet /\ n \in Nat  BY <1>1, <1>3, <1>4
  <2>. HIDE DEF n
  <2>. QED  BY <2>1 DEF RowSet
<1>7. traces' = [traces EXCEPT ![t] = r]  BY <1>2
<1>. HIDE DEF r, n, t
<1>8. traces' \in [Ids -> RowSet] /\ traces'[t] = r /\ \A u \in Ids \ {t} : traces'[u] = traces[u]
  BY <1>1, <1>3, <1>6, <1>7
<1>9. \A u \in Ids : traces'[u].status = traces[u].status  BY <1>6, <1>8
<1>10. ~Sealed(t)
  <2>1. SUFFICES ASSUME Sealed(t) PROVE FALSE  OBVIOUS
  <2>2. save[t].pc = "done" /\ save[t].entity \subseteq spans  BY <1>1, <2>1 DEF SealedByCommit
  <2>3. buffers[t] = NoBuffer  BY <1>1, <2>2 DEF Flushed
  <2>4. i # Unset  BY CallTree
  <2>. QED  BY <1>1, <1>4, <2>2, <2>3, <2>4 DEF NoBuffer
<1>11. TraceTypeOK'
  <2>1. spans' \subseteq Ids  BY <1>2, <1>3
  <2>. QED  BY <1>2, <1>5, <1>8, <2>1, Typed, TypedNext
<1>12. Recorded(parents, Opened)' /\ AtHome' /\ Flushed'
  BY <1>2 DEF Recorded, Opened, OpenIn, AtHome, Flushed
<1>13. Held'
  <2>1. \A j \in Ids : j \in spans' \/ append'[j].pc \in {"insert", "update"}
                         => j \in spans \/ append[j].pc \in {"insert", "update"}
    BY <1>1, <1>2, <1>5
  <2>. QED  BY <1>2, <2>1 DEF Held
<1>14. \A u \in Ids : /\ Cardinality(spans \cap Kin(u)) <= Cardinality(spans' \cap Kin(u))
                      /\ Cardinality(spans \cap Kin(u)) \in Nat
                      /\ Cardinality(spans' \cap Kin(u)) \in Nat
  <2>. TAKE u \in Ids
  <2>1. spans' \cap Kin(u) \in SUBSET Ids /\ spans \cap Kin(u) \in SUBSET (spans' \cap Kin(u))
    BY <1>2, <1>3
  <2>. QED  BY <2>1, CountGrows
<1>15. SeenBelow'
  <2>. SUFFICES ASSUME NEW j \in Ids, append'[j].pc = "update"
                PROVE  j \notin spans' /\ append'[j].seen <= Cardinality(spans' \cap Kin(Home(j)))
    BY DEF SeenBelow
  <2>1. j # i /\ append'[j] = append[j]  BY <1>5
  <2>2. j \notin spans /\ append[j].seen <= Cardinality(spans \cap Kin(Home(j)))
    BY <2>1 DEF SeenBelow
  <2>3. Home(j) \in Ids  BY HomeIsRoot DEF Ids
  <2>4. append[j].seen \in Nat  BY <1>3 DEF TaskSet
  <2>5. /\ Cardinality(spans \cap Kin(Home(j))) <= Cardinality(spans' \cap Kin(Home(j)))
        /\ Cardinality(spans \cap Kin(Home(j))) \in Nat
        /\ Cardinality(spans' \cap Kin(Home(j))) \in Nat
    BY <1>14, <2>3
  <2>. QED  BY <1>2, <2>1, <2>2, <2>4, <2>5
<1>16. MissingFits'  BY <1>2 DEF MissingFits
<1>20. TotalRead'
  <2>. SUFFICES ASSUME NEW u \in Ids, save[u].pc \in Updating
                PROVE  /\ save[u].seen <= Cardinality(spans' \cap Kin(u))
                       /\ save[u].seen = Cardinality(save[u].entity) => traces'[u].total = save[u].seen
    BY <1>2 DEF TotalRead
  <2>0. save[u].seen \in Nat
    <3>1. save[u] \in SaveSet  BY Typed
    <3>. QED  BY <3>1 DEF SaveSet
  <2>1. /\ save[u].seen <= Cardinality(spans \cap Kin(u)) /\ save[u].seen \in Nat
        /\ save[u].seen = Cardinality(save[u].entity) => traces[u].total = save[u].seen
    BY <2>0 DEF TotalRead
  <2>4. /\ Cardinality(spans \cap Kin(u)) <= Cardinality(spans' \cap Kin(u))
        /\ Cardinality(spans \cap Kin(u)) \in Nat /\ Cardinality(spans' \cap Kin(u)) \in Nat
    BY <1>14
  <2>5. save[u].seen <= Cardinality(spans' \cap Kin(u))  BY <2>1, <2>4
  <2>2. CASE u # t
    <3>1. traces'[u] = traces[u]  BY <1>8, <2>2
    <3>. QED  BY <2>1, <2>5, <3>1
  <2>3. CASE u = t
    <3>1. i \in save[t].entity \ spans
      <4>1. buffers[t] = NoBuffer  BY <2>3 DEF Flushed, Updating
      <4>2. i # Unset  BY CallTree
      <4>. QED  BY <1>1, <1>4, <4>1, <4>2 DEF NoBuffer
    <3>2. save[t].seen < Cardinality(save[t].entity)
      BY <1>1, <2>1, <2>3, <3>1, SavedCounts DEF Updating
    <3>3. Cardinality(save[t].entity) \in Nat  BY <1>1, SavedCounts, <2>3 DEF Updating
    <3>4. save[t].seen # Cardinality(save[t].entity)  BY <2>0, <2>3, <3>2, <3>3
    <3>. QED  BY <2>3, <2>5, <3>4
  <2>. QED  BY <2>2, <2>3
<1>17. SealedByCommit'  BY <1>2, <1>8, <1>9, <1>10 DEF SealedByCommit, Sealed
<1>18. TotalsBelow'
  <2>1. ASSUME NEW u \in Ids PROVE traces'[u].total <= Cardinality(spans' \cap Kin(u))
    <3>1. CASE u # t
      <4>1. traces'[u] = traces[u] /\ traces[u].total \in Nat  BY <1>3, <1>8, <3>1 DEF RowSet
      <4>2. traces[u].total <= Cardinality(spans \cap Kin(u))  BY DEF TotalsBelow
      <4>3. /\ Cardinality(spans \cap Kin(u)) <= Cardinality(spans' \cap Kin(u))
            /\ Cardinality(spans \cap Kin(u)) \in Nat /\ Cardinality(spans' \cap Kin(u)) \in Nat
        BY <1>14
      <4>. QED  BY <4>1, <4>2, <4>3
    <3>2. CASE u = t
      <4>1. i \in Kin(t)  BY DEF t, Kin
      <4>2. spans' \cap Kin(t) = (spans \cap Kin(t)) \cup {i} /\ i \notin spans \cap Kin(t)
        BY <1>2, <1>4, <4>1
      <4>3. IsFiniteSet(spans \cap Kin(t))  BY <1>3, Finite
      <4>4. Cardinality(spans' \cap Kin(t)) = Cardinality(spans \cap Kin(t)) + 1
        BY <4>2, <4>3, FS_AddElement
      <4>5. traces'[u].total = append[i].seen + 1  BY <1>6, <1>8, <3>2 DEF n
      <4>6. Cardinality(spans \cap Kin(t)) \in Nat  BY <1>1, <1>14
      <4>7. append[i].seen + 1 <= Cardinality(spans' \cap Kin(t))  BY <1>4, <4>4, <4>6
      <4>. QED  BY <3>2, <4>5, <4>7
    <3>. QED  BY <3>1, <3>2
  <2>. QED  BY <2>1 DEF TotalsBelow
<1>19. ViewFinal' /\ ReaderSeesWhole'  BY <1>2, <1>9 DEF ViewFinal, Sealed, ReaderSeesWhole
<1>. QED  BY <1>11, <1>12, <1>13, <1>15, <1>16, <1>17, <1>18, <1>19, <1>20

\* A task of save_trace that has not committed; when it fails, its root is forgotten.
LEMMA SaveTaskInv ==
  ASSUME TraceInv, NEW t \in Ids, NEW r \in SaveSet, save' = [save EXCEPT ![t] = r],
         save[t].pc \notin {"none", "done"}, r.pc # "none", r.entity = save[t].entity,
         r.missing \subseteq r.entity, r.pc = "spans" => r.entity \ spans \subseteq r.missing,
         r.pc \in Updating => /\ r.seen <= Cardinality(spans \cap Kin(t))
                              /\ r.seen = Cardinality(r.entity) => traces[t].total = r.seen,
         UNCHANGED parents \/ Cleanup(t),
         UNCHANGED <<phase, buffers, erred, tables, init, view>>,
         append' = append \/ \E i \in Ids : append' = [append EXCEPT ![i].pc = "failed"]
  PROVE  TraceInv'
<1>. USE DEF TraceInv
<1>1. UNCHANGED <<phase, buffers, erred, traces, spans, init, view>>  BY DEF tables
<1>2. Recorded(parents', OpenIn(phase')) /\ parents' \in [Ids -> Ids \cup {Top, Unset}]
  <2>1. CASE UNCHANGED parents  BY <1>1, <2>1, Typed DEF Opened, OpenIn, Recorded
  <2>2. CASE Cleanup(t)  BY <1>1, <2>2, CleanupTree
  <2>. QED  BY <2>1, <2>2
<1>3. append' \in [Ids -> TaskSet]
      /\ \A j \in Ids : append'[j] = append[j] \/ append'[j].pc = "failed"
  <2>1. "failed" \in Pcs /\ append \in [Ids -> TaskSet]  BY Typed DEF Pcs, Closed
  <2>2. CASE append' = append  BY <2>1, <2>2
  <2>3. CASE \E i \in Ids : append' = [append EXCEPT ![i].pc = "failed"]
    <3>1. PICK i \in Ids : append' = [append EXCEPT ![i].pc = "failed"]  BY <2>3
    <3>2. append' \in [Ids -> TaskSet] /\ append'[i].pc = "failed"
          /\ \A j \in Ids \ {i} : append'[j] = append[j]
      BY <2>1, <3>1, TaskMoves
    <3>. QED  BY <3>2
  <2>. QED  BY <2>2, <2>3
<1>4. save' \in [Ids -> SaveSet] /\ save'[t] = r /\ \A u \in Ids \ {t} : save'[u] = save[u]
  <2>1. save \in [Ids -> SaveSet]  BY Typed
  <2>. QED  BY <2>1
<1>5. TraceTypeOK'  BY <1>1, <1>2, <1>3, <1>4, Typed, TypedNext
<1>6. Recorded(parents, Opened)'  BY <1>2 DEF Opened
<1>7. \A u \in Ids : save'[u].entity = save[u].entity  BY <1>4
<1>8. AtHome'  BY <1>1, <1>7 DEF AtHome
<1>9. Flushed'
  <2>1. \A u \in Ids : (save'[u].pc # "none") <=> (save[u].pc # "none")  BY <1>4
  <2>2. \A u \in Ids : save'[u].pc = "none" => save'[u] = save[u]  BY <1>4
  <2>. QED  BY <1>1, <2>1, <2>2 DEF Flushed, Opened, OpenIn
<1>10. Held'
  <2>1. \A j \in Ids : append'[j].pc \in {"insert", "update"} => append[j].pc \in {"insert", "update"}
    BY <1>3
  <2>. QED  BY <1>1, <1>7, <2>1 DEF Held
<1>11. SeenBelow'
  <2>1. \A j \in Ids : append'[j].pc = "update" => append'[j] = append[j]  BY <1>3
  <2>. QED  BY <1>1, <2>1 DEF SeenBelow
<1>12. MissingFits'  BY <1>1, <1>4 DEF MissingFits
<1>17. TotalRead'  BY <1>1, <1>4 DEF TotalRead
<1>13. ~Sealed(t)  BY DEF SealedByCommit
<1>14. SealedByCommit'  BY <1>1, <1>4, <1>13 DEF SealedByCommit, Sealed
<1>15. TotalsBelow' /\ ViewFinal'  BY <1>1 DEF TotalsBelow, ViewFinal, Sealed
<1>16. ReaderSeesWhole'
  <2>1. view.pc = "read" /\ view.status \in SealedAs => view.of \in Ids  BY DEF ViewFinal
  <2>. QED  BY <1>1, <1>7, <2>1 DEF ReaderSeesWhole, SealedAs
<1>. QED  BY <1>5, <1>6, <1>8, <1>9, <1>10, <1>11, <1>12, <1>14, <1>15, <1>16, <1>17

\* save_trace moves on to its next statement.
LEMMA SaveStepInv ==
  ASSUME TraceInv, NEW t \in Ids, SaveSelect(t) \/ SaveIds(t) \/ SaveRow(t)
  PROVE  TraceInv'
<1>1. save[t] \in SaveSet /\ {"row", "ids", "spans", "failed"} \subseteq Pcs
  BY Typed DEF TraceInv, Pcs, Closed
<1>2. save[t].missing \subseteq save[t].entity /\ save[t].entity \subseteq Ids
  BY <1>1 DEF TraceInv, MissingFits, SaveSet
<1>6. save[t].pc \in Updating =>
        /\ save[t].seen <= Cardinality(spans \cap Kin(t))
        /\ save[t].seen = Cardinality(save[t].entity) => traces[t].total = save[t].seen
  BY DEF TraceInv, TotalRead
<1>3. CASE SaveSelect(t)
  <2>. DEFINE r == [save[t] EXCEPT !.pc = "row", !.found = traces[t] # NoRow, !.seen = traces[t].total]
  <2>1. save' = [save EXCEPT ![t] = r] /\ save[t].pc = "select"
        /\ UNCHANGED <<phase, parents, buffers, erred, tables, init, append, view>>
    BY <1>3 DEF SaveSelect, handler
  <2>2. traces[t].total \in Nat  BY Typed DEF TraceInv, RowSet
  <2>3. /\ r \in SaveSet /\ r.pc = "row" /\ r.entity = save[t].entity
        /\ r.missing = save[t].missing /\ r.seen = traces[t].total
    BY <1>1, <2>2 DEF SaveSet
  <2>4. traces[t].total <= Cardinality(spans \cap Kin(t))  BY DEF TraceInv, TotalsBelow
  <2>. HIDE DEF r
  <2>. QED  BY <1>2, <2>1, <2>3, <2>4, SaveTaskInv
<1>4. CASE SaveIds(t)
  <2>. DEFINE lost == save[t].entity \ spans
              r == [save[t] EXCEPT !.pc = "spans", !.missing = lost]
  <2>1. save' = [save EXCEPT ![t] = r] /\ save[t].pc = "ids"
        /\ UNCHANGED <<phase, parents, buffers, erred, tables, init, append, view>>
    BY <1>4 DEF SaveIds, handler
  <2>2. lost \in SUBSET Ids  BY <1>2
  <2>3. r \in SaveSet /\ r.pc = "spans" /\ r.entity = save[t].entity /\ r.missing = lost
        /\ r.seen = save[t].seen
    <3>. HIDE DEF lost
    <3>. QED  BY <1>1, <2>2 DEF SaveSet
  <2>4. r.missing \subseteq r.entity /\ r.entity \ spans \subseteq r.missing  BY <2>3
  <2>. HIDE DEF r, lost
  <2>. QED  BY <1>6, <2>1, <2>3, <2>4, SaveTaskInv DEF Updating
<1>5. CASE SaveRow(t)
  <2>. DEFINE pc == IF ~save[t].found /\ traces[t] # NoRow THEN "failed" ELSE "ids"
              r  == [save[t] EXCEPT !.pc = pc]
  <2>1. save' = [save EXCEPT ![t] = r] /\ save[t].pc = "row" /\ (UNCHANGED parents \/ Cleanup(t))
        /\ UNCHANGED <<phase, buffers, erred, tables, init, append, view>>
    BY <1>5 DEF SaveRow, SaveEnds, handler
  <2>2. pc \in Pcs /\ pc \notin {"none", "spans"}  BY <1>1
  <2>3. r \in SaveSet /\ r.pc = pc /\ r.entity = save[t].entity /\ r.missing = save[t].missing
        /\ r.seen = save[t].seen
    <3>. HIDE DEF pc
    <3>. QED  BY <1>1, <2>2 DEF SaveSet
  <2>. HIDE DEF r, pc
  <2>. QED  BY <1>2, <1>6, <2>1, <2>2, <2>3, SaveTaskInv DEF Updating
<1>. QED  BY <1>3, <1>4, <1>5

\* save_trace fails: nothing is written.
LEMMA SaveFailsInv ==
  ASSUME TraceInv, NEW t \in Ids, save[t].pc \notin {"none", "done"}, SaveEnds(t, "failed"),
         UNCHANGED <<tables, append>>
  PROVE  TraceInv'
<1>. DEFINE r == [save[t] EXCEPT !.pc = "failed"]
<1>1. save[t] \in SaveSet /\ "failed" \in Pcs  BY Typed DEF TraceInv, Pcs, Closed
<1>2. save[t].missing \subseteq save[t].entity  BY DEF TraceInv, MissingFits
<1>3. r \in SaveSet /\ r.pc = "failed" /\ r.entity = save[t].entity /\ r.missing = save[t].missing
  BY <1>1 DEF SaveSet
<1>4. save' = [save EXCEPT ![t] = r] /\ Cleanup(t)
      /\ UNCHANGED <<phase, buffers, erred, tables, init, append, view>>
  BY DEF SaveEnds
<1>. HIDE DEF r
<1>. QED  BY <1>2, <1>3, <1>4, SaveTaskInv DEF Updating

\* save_trace commits: the trace is sealed, with every span and their number.
LEMMA SaveCommitInv ==
  ASSUME TraceInv, NEW t \in Ids, SaveCommit(t)
  PROVE  TraceInv'
<1>. USE DEF TraceInv
<1>. DEFINE e == save[t].entity
            n == Cardinality(e)
            status == IF t \in erred THEN "error" ELSE "success"
            total == IF save[t].seen < n THEN n ELSE traces[t].total
            row == [traces[t] EXCEPT !.status = status, !.total = total]
            r == [save[t] EXCEPT !.pc = "done"]
<1>1. /\ save[t].pc = "spans" /\ \A i \in save[t].missing : append[i].pc # "update"
      /\ traces' = [traces EXCEPT ![t] = row] /\ spans' = spans \cup save[t].missing
      /\ save' = [save EXCEPT ![t] = r] /\ Cleanup(t)
      /\ UNCHANGED <<phase, buffers, erred, init, append, view>>
  BY DEF SaveCommit, SaveEnds, Seal
<1>2. traces \in [Ids -> RowSet] /\ spans \subseteq Ids /\ save \in [Ids -> SaveSet]
      /\ append \in [Ids -> TaskSet]
  BY Typed
<1>3. e \in SUBSET Ids /\ save[t].missing \subseteq e /\ e \ spans \subseteq save[t].missing
  BY <1>1, <1>2 DEF MissingFits, SaveSet
<1>4. n \in Nat /\ total = n
  <2>1. /\ Cardinality(spans \cap Kin(t)) <= n
        /\ Cardinality(spans \cap Kin(t)) \in Nat /\ n \in Nat
    BY <1>1, SavedCounts
  <2>2. /\ save[t].seen <= Cardinality(spans \cap Kin(t)) /\ save[t].seen \in Nat
        /\ save[t].seen = n => traces[t].total = save[t].seen
    BY <1>1, <1>2 DEF TotalRead, Updating, SaveSet
  <2>. HIDE DEF n
  <2>. QED  BY <2>1, <2>2
<1>5. row \in RowSet /\ row.total = n /\ row.status = status /\ status \in SealedAs
  <2>1. status \in SealedAs  BY DEF SealedAs
  <2>2. traces[t] \in RowSet  BY <1>2
  <2>. HIDE DEF n, status, total
  <2>. QED  BY <1>4, <2>1, <2>2 DEF RowSet, SealedAs
<1>6. r \in SaveSet /\ r.pc = "done" /\ r.entity = e /\ r.missing = save[t].missing
  BY <1>2 DEF SaveSet, Pcs, Closed
<1>. HIDE DEF row, r, status, total, n
<1>7. traces' \in [Ids -> RowSet] /\ traces'[t] = row /\ \A u \in Ids \ {t} : traces'[u] = traces[u]
  BY <1>1, <1>2, <1>5
<1>8. save' \in [Ids -> SaveSet] /\ save'[t] = r /\ \A u \in Ids \ {t} : save'[u] = save[u]
  BY <1>1, <1>2, <1>6
<1>9. \A u \in Ids : save'[u].entity = save[u].entity /\ save'[u].missing = save[u].missing
  BY <1>6, <1>8
<1>10. spans' \subseteq Ids /\ spans \subseteq spans' /\ e \subseteq spans'
  BY <1>1, <1>2, <1>3
<1>. HIDE DEF e
<1>11. Recorded(parents', OpenIn(phase')) /\ parents' \in [Ids -> Ids \cup {Top, Unset}]
  BY <1>1, CleanupTree
<1>12. TraceTypeOK'  BY <1>1, <1>7, <1>8, <1>10, <1>11, Typed, TypedNext
<1>13. Recorded(parents, Opened)'  BY <1>11 DEF Opened
<1>14. AtHome'  BY <1>1, <1>9 DEF AtHome
<1>15. Flushed'
  <2>1. \A u \in Ids : (save'[u].pc # "none") <=> (save[u].pc # "none")  BY <1>1, <1>6, <1>8
  <2>. QED  BY <1>1, <1>9, <2>1 DEF Flushed, Opened, OpenIn
<1>16. Held'
  <2>. SUFFICES ASSUME NEW j \in Ids, j \in spans' \/ append[j].pc \in {"insert", "update"}
                PROVE  \E u \in Ids : j \in buffers[u] \cup save[u].entity
    BY <1>1, <1>9 DEF Held
  <2>1. CASE j \in save[t].missing  BY <1>3, <2>1 DEF e
  <2>2. CASE j \notin save[t].missing  BY <1>1, <2>2 DEF Held
  <2>. QED  BY <2>1, <2>2
<1>17. \A u \in Ids : /\ Cardinality(spans \cap Kin(u)) <= Cardinality(spans' \cap Kin(u))
                      /\ Cardinality(spans \cap Kin(u)) \in Nat
                      /\ Cardinality(spans' \cap Kin(u)) \in Nat
  <2>. TAKE u \in Ids
  <2>1. spans' \cap Kin(u) \in SUBSET Ids /\ spans \cap Kin(u) \in SUBSET (spans' \cap Kin(u))
    BY <1>10
  <2>. QED  BY <2>1, CountGrows
<1>18. SeenBelow'
  <2>. SUFFICES ASSUME NEW j \in Ids, append'[j].pc = "update"
                PROVE  j \notin spans' /\ append'[j].seen <= Cardinality(spans' \cap Kin(Home(j)))
    BY DEF SeenBelow
  <2>1. append'[j] = append[j] /\ j \notin save[t].missing  BY <1>1
  <2>2. j \notin spans /\ append[j].seen <= Cardinality(spans \cap Kin(Home(j)))
    BY <2>1 DEF SeenBelow
  <2>3. Home(j) \in Ids  BY HomeIsRoot DEF Ids
  <2>4. append[j].seen \in Nat  BY <1>2 DEF TaskSet
  <2>5. /\ Cardinality(spans \cap Kin(Home(j))) <= Cardinality(spans' \cap Kin(Home(j)))
        /\ Cardinality(spans \cap Kin(Home(j))) \in Nat
        /\ Cardinality(spans' \cap Kin(Home(j))) \in Nat
    BY <1>17, <2>3
  <2>6. j \notin spans'  BY <1>1, <2>1, <2>2
  <2>. QED  BY <2>1, <2>2, <2>4, <2>5, <2>6
<1>19. MissingFits'
  <2>1. ASSUME NEW u \in Ids
        PROVE  /\ save'[u].missing \subseteq save'[u].entity
               /\ save'[u].pc = "spans" => save'[u].entity \ spans' \subseteq save'[u].missing
    <3>1. save'[u].pc = "spans" => save[u].pc = "spans"  BY <1>1, <1>8
    <3>. QED  BY <1>9, <1>10, <3>1 DEF MissingFits
  <2>. QED  BY <2>1 DEF MissingFits
<1>25. TotalRead'
  <2>. SUFFICES ASSUME NEW u \in Ids, save'[u].pc \in Updating
                PROVE  /\ save'[u].seen <= Cardinality(spans' \cap Kin(u))
                       /\ save'[u].seen = Cardinality(save'[u].entity) => traces'[u].total = save'[u].seen
    BY DEF TotalRead
  <2>1. u # t  BY <1>6, <1>8 DEF Updating
  <2>2. save'[u] = save[u] /\ traces'[u] = traces[u] /\ save[u].seen \in Nat
    BY <1>2, <1>7, <1>8, <2>1 DEF SaveSet
  <2>3. /\ save[u].seen <= Cardinality(spans \cap Kin(u))
        /\ save[u].seen = Cardinality(save[u].entity) => traces[u].total = save[u].seen
    BY <2>2 DEF TotalRead
  <2>. QED  BY <1>17, <2>2, <2>3
<1>20. SealedByCommit'
  <2>1. ASSUME NEW u \in Ids, Sealed(u)'
        PROVE  /\ save'[u].pc = "done" /\ save'[u].entity \subseteq spans'
               /\ traces'[u].total = Cardinality(save'[u].entity)
    <3>1. CASE u = t  BY <1>5, <1>6, <1>7, <1>8, <1>10, <3>1 DEF n
    <3>2. CASE u # t
      <4>1. Sealed(u) /\ traces'[u] = traces[u] /\ save'[u] = save[u]
        BY <1>7, <1>8, <2>1, <3>2 DEF Sealed
      <4>. QED  BY <1>10, <4>1 DEF SealedByCommit
    <3>. QED  BY <3>1, <3>2
  <2>. QED  BY <2>1 DEF SealedByCommit
<1>21. TotalsBelow'
  <2>1. ASSUME NEW u \in Ids PROVE traces'[u].total <= Cardinality(spans' \cap Kin(u))
    <3>1. CASE u # t
      <4>1. traces'[u] = traces[u] /\ traces[u].total \in Nat  BY <1>2, <1>7, <3>1 DEF RowSet
      <4>2. traces[u].total <= Cardinality(spans \cap Kin(u))  BY DEF TotalsBelow
      <4>3. /\ Cardinality(spans \cap Kin(u)) <= Cardinality(spans' \cap Kin(u))
            /\ Cardinality(spans \cap Kin(u)) \in Nat /\ Cardinality(spans' \cap Kin(u)) \in Nat
        BY <1>17
      <4>. QED  BY <4>1, <4>2, <4>3
    <3>2. CASE u = t
      <4>1. \A i \in e : i \in Ids /\ Home(i) = t  BY <1>3, CallTree DEF AtHome, e
      <4>2. \A i \in e : i \in Kin(t)  BY <4>1 DEF Kin
      <4>3. e \in SUBSET (spans' \cap Kin(t)) /\ spans' \cap Kin(t) \in SUBSET Ids
        BY <1>10, <4>2
      <4>4. n <= Cardinality(spans' \cap Kin(t))  BY <4>3, CountGrows DEF n
      <4>. QED  BY <1>5, <1>7, <3>2, <4>4
    <3>. QED  BY <3>1, <3>2
  <2>. QED  BY <2>1 DEF TotalsBelow
<1>22. \A u \in Ids : Sealed(u) => Sealed(u)'  BY <1>5, <1>7 DEF Sealed
<1>23. ViewFinal'  BY <1>1, <1>22 DEF ViewFinal
<1>24. ReaderSeesWhole'
  <2>1. view.pc = "read" /\ view.status \in SealedAs => view.of \in Ids  BY DEF ViewFinal
  <2>. QED  BY <1>1, <1>9, <2>1 DEF ReaderSeesWhole, SealedAs
<1>. QED  BY <1>12, <1>13, <1>14, <1>15, <1>16, <1>18, <1>19, <1>20, <1>21, <1>23, <1>24, <1>25

\* A request reads the row, and then the spans.
LEMMA ReaderInv ==
  ASSUME TraceInv, NEW t \in Ids, GetTrace(t) \/ LoadSpans(t)
  PROVE  TraceInv'
<1>. USE DEF TraceInv
<1>1. UNCHANGED <<phase, parents, buffers, erred, traces, spans, init, append, save>>
  BY DEF GetTrace, LoadSpans, handler, tables
<1>2. view \in ViewSet /\ traces[t] \in RowSet /\ spans \subseteq Ids  BY Typed
<1>3. view' \in ViewSet /\ ViewFinal' /\ ReaderSeesWhole'
  <2>1. CASE GetTrace(t)
    <3>1. view' = [pc |-> "row", of |-> t, status |-> traces[t].status, spans |-> {}]
      BY <2>1 DEF GetTrace
    <3>2. view' \in ViewSet  BY <1>2, <3>1 DEF ViewSet, RowSet
    <3>. QED  BY <1>1, <3>1, <3>2 DEF ViewFinal, ReaderSeesWhole, Sealed
  <2>2. CASE LoadSpans(t)
    <3>1. view.pc = "row" /\ view.of = t /\ view' = [view EXCEPT !.pc = "read", !.spans = spans]
      BY <2>2 DEF LoadSpans
    <3>2. view' \in ViewSet  BY <1>2, <3>1 DEF ViewSet
    <3>3. view'.pc = "read" /\ view'.of = t /\ view'.status = view.status /\ view'.spans = spans
      BY <1>2, <3>1 DEF ViewSet
    <3>4. view'.status \in SealedAs => Sealed(t)  BY <3>1, <3>3 DEF ViewFinal
    <3>5. Sealed(t) => save[t].entity \subseteq spans  BY DEF SealedByCommit
    <3>. QED  BY <1>1, <3>2, <3>3, <3>4, <3>5 DEF ViewFinal, ReaderSeesWhole, Sealed, SealedAs
  <2>. QED  BY <2>1, <2>2
<1>4. TraceTypeOK'  BY <1>1, <1>3, Typed, TypedNext
<1>5. Recorded(parents, Opened)' /\ AtHome' /\ Flushed' /\ Held' /\ SeenBelow'
  BY <1>1 DEF Recorded, Opened, OpenIn, AtHome, Flushed, Held, SeenBelow
<1>6. TotalRead' /\ MissingFits' /\ SealedByCommit' /\ TotalsBelow'
  BY <1>1 DEF TotalRead, MissingFits, SealedByCommit, Sealed, TotalsBelow
<1>. QED  BY <1>3, <1>4, <1>5, <1>6

\* A task that loses its connection is rolled back.
LEMMA TaskFailsInv ==
  ASSUME TraceInv, NEW t \in Ids, TaskFails(t)
  PROVE  TraceInv'
<1>1. CASE init' = [init EXCEPT ![t].pc = "failed"] /\ UNCHANGED <<handler, append, save, view>>
  BY <1>1, InitTaskInv DEF TaskFails, Pcs, Closed, tables
<1>2. CASE append' = [append EXCEPT ![t].pc = "failed"] /\ UNCHANGED <<handler, init, save, view>>
  BY <1>2, AppendFailsInv DEF TaskFails, tables
<1>3. CASE Busy(save[t].pc) /\ SaveEnds(t, "failed") /\ UNCHANGED append
  <2>1. UNCHANGED <<tables, append>> /\ save[t].pc \notin {"none", "done"}
    BY <1>3 DEF TaskFails, Busy, Closed, tables
  <2>. QED  BY <1>3, <2>1, SaveFailsInv
<1>. QED  BY <1>1, <1>2, <1>3 DEF TaskFails

\* PostgreSQL ends one of two tasks that wait for each other.
LEMMA DeadlockInv ==
  ASSUME TraceInv, NEW t \in Ids, Deadlock(t)
  PROVE  TraceInv'
<1>1. PICK i \in save[t].missing :
        \/ append' = [append EXCEPT ![i].pc = "failed"] /\ UNCHANGED <<handler, init, save, view>>
        \/ SaveEnds(t, "failed") /\ UNCHANGED append
  BY DEF Deadlock
<1>2. UNCHANGED tables /\ save[t].pc = "spans"  BY DEF Deadlock, tables
<1>3. i \in Ids
  <2>1. save[t] \in SaveSet  BY Typed DEF TraceInv
  <2>. QED  BY <2>1 DEF SaveSet
<1>. QED  BY <1>1, <1>2, <1>3, AppendFailsInv, SaveFailsInv

\* Every step of the system keeps the invariant.
LEMMA TraceInvNext == TraceInv /\ [TraceNext]_traceVars => TraceInv'
<1>. SUFFICES ASSUME TraceInv, [TraceNext]_traceVars PROVE TraceInv'  OBVIOUS
<1>1. CASE UNCHANGED traceVars
  <2>1. UNCHANGED <<handler, tables, append, save, view>> /\ UNCHANGED init
    BY <1>1 DEF traceVars, handler, tables
  <2>2. UNCHANGED <<phase, parents, buffers, erred, traces, spans, init, append, save, view>>
    BY <1>1 DEF traceVars
  <2>3. TraceTypeOK'  BY <2>2, Typed, TypedNext DEF TraceInv
  <2>4. Recorded(parents, Opened)' /\ AtHome' /\ Flushed' /\ Held' /\ SeenBelow'
    BY <2>2 DEF TraceInv, Recorded, Opened, OpenIn, AtHome, Flushed, Held, SeenBelow
  <2>5. TotalRead' /\ MissingFits' /\ SealedByCommit' /\ TotalsBelow' /\ ViewFinal' /\ ReaderSeesWhole'
    BY <2>2 DEF TraceInv, TotalRead, MissingFits, SealedByCommit, Sealed, TotalsBelow, ViewFinal, ReaderSeesWhole
  <2>. QED  BY <2>3, <2>4, <2>5 DEF TraceInv
<1>2. CASE TraceNext
  <2>1. PICK i \in Ids : Hears(i) \/ Stores(i) \/ TaskFails(i) \/ GetTrace(i) \/ LoadSpans(i)
    BY <1>2 DEF TraceNext
  <2>2. CASE Hears(i)
    <3>1. CASE OnChainStart(i) \/ OnChatModelStart(i) \/ OnToolStart(i)  BY <3>1, BeginInv
    <3>2. CASE OnNodeEnd(i)
      BY <3>2, RecordInv, FragmentInv DEF OnNodeEnd, Of
    <3>3. CASE OnLlmEnd(i) \/ OnLlmError(i) \/ OnToolEnd(i) \/ OnToolError(i)
      BY <3>3, RecordInv DEF OnLlmEnd, OnLlmError, OnToolEnd, OnToolError, Of
    <3>4. CASE OnRootEnd(i)
      <4>1. /\ i \in Roots /\ Closes(i) /\ Finalize(i, buffers[i] \cup {})
            /\ buffers' = [buffers EXCEPT ![i] = NoBuffer]
            /\ append' = append /\ erred' = erred /\ UNCHANGED <<init, traces, spans, view>>
        <5>1. buffers[i] \cup {} = buffers[i]  OBVIOUS
        <5>2. Finalize(i, buffers[i])  BY <3>4 DEF OnRootEnd
        <5>3. Finalize(i, buffers[i] \cup {})  BY <5>1, <5>2
        <5>. QED  BY <3>4, <5>3 DEF OnRootEnd, tables
      <4>2. {} \in SUBSET {i}  OBVIOUS
      <4>. QED  BY <4>1, <4>2, RootEndInv
    <3>5. CASE OnChainError(i) /\ i \in Roots
      <4>1. /\ Closes(i) /\ Finalize(i, buffers[i] \cup {i})
            /\ buffers' = [buffers EXCEPT ![i] = NoBuffer]
            /\ append' = [append EXCEPT ![i].pc = "insert"] /\ erred' = erred \cup {i}
            /\ UNCHANGED <<init, traces, spans, view>>
        BY <3>5 DEF OnChainError, tables
      <4>2. {i} \in SUBSET {i} /\ erred' \in {erred, erred \cup {i}}  BY <4>1
      <4>. QED  BY <3>5, <4>1, <4>2, RootEndInv
    <3>6. CASE OnChainError(i) /\ i \notin Roots
      <4>1. i \in Runs /\ Closes(i) /\ RecordSpan(i, TRUE) /\ Stored
        BY <3>6 DEF OnChainError, Of, Stored, tables
      <4>. QED  BY <4>1, RecordInv
    <3>. QED  BY <2>2, <3>1, <3>2, <3>3, <3>4, <3>5, <3>6 DEF Hears
  <2>3. CASE Stores(i)
    <3>1. CASE InitSelect(i)
      <4>1. UNCHANGED <<handler, tables, append, save, view>>
            /\ init' = [init EXCEPT ![i].pc = IF traces[i] = NoRow THEN "insert" ELSE "done"]
        BY <3>1 DEF InitSelect
      <4>2. {"insert", "done"} \subseteq Pcs  BY DEF Pcs, Closed
      <4>. QED  BY <4>1, <4>2, InitTaskInv
    <3>2. CASE InitInsert(i)  BY <3>2, InitInsertInv
    <3>3. CASE AppendInsert(i)  BY <3>3, AppendInsertInv
    <3>4. CASE AppendCommit(i)  BY <3>4, AppendCommitInv
    <3>5. CASE SaveSelect(i) \/ SaveRow(i) \/ SaveIds(i)  BY <3>5, SaveStepInv
    <3>6. CASE SaveCommit(i)  BY <3>6, SaveCommitInv
    <3>7. CASE Deadlock(i)  BY <3>7, DeadlockInv
    <3>. QED  BY <2>3, <3>1, <3>2, <3>3, <3>4, <3>5, <3>6, <3>7 DEF Stores
  <2>4. CASE TaskFails(i)  BY <2>4, TaskFailsInv
  <2>5. CASE GetTrace(i) \/ LoadSpans(i)  BY <2>5, ReaderInv
  <2>. QED  BY <2>1, <2>2, <2>3, <2>4, <2>5
<1>. QED  BY <1>1, <1>2

\* The invariant has the properties of the runs.
LEMMA TraceInvImplies ==
  ASSUME TraceInv
  PROVE  TraceTypeOK /\ SpanIsUnderItsRoot /\ SealedIsExact /\ TotalNeverAbove /\ ReaderSeesWhole
<1>. USE DEF TraceInv
<1>1. SpanIsUnderItsRoot
  <2>1. ASSUME NEW t \in Ids, NEW i \in (buffers[t] \ NoBuffer) \cup save[t].entity
        PROVE  i \in Tree(t)
    <3>1. buffers[t] \in {NoBuffer} \cup SUBSET Ids /\ save[t] \in SaveSet  BY Typed
    <3>2. i \in Ids  BY <3>1 DEF SaveSet, NoBuffer
    <3>3. Home(i) = t  BY DEF AtHome
    <3>4. i \in Tree(Home(i))  BY <3>2, HomeIsRoot
    <3>. QED  BY <3>3, <3>4
  <2>. QED  BY <2>1 DEF SpanIsUnderItsRoot
<1>2. SealedIsExact  BY DEF SealedByCommit, SealedIsExact, Sealed, SealedAs, Ids
<1>3. TotalNeverAbove
  <2>. SUFFICES ASSUME NEW t \in Roots PROVE traces[t].total <= Cardinality(spans \cap Tree(t))
    BY DEF TotalNeverAbove
  <2>1. t \in Ids /\ spans \subseteq Ids /\ traces[t].total \in Nat  BY Typed DEF Ids, RowSet
  <2>2. \A i \in Kin(t) : i \in Tree(t)  BY HomeIsRoot DEF Kin
  <2>3. spans \cap Tree(t) \in SUBSET Ids /\ spans \cap Kin(t) \in SUBSET (spans \cap Tree(t))
    BY <2>1, <2>2
  <2>4. /\ Cardinality(spans \cap Kin(t)) <= Cardinality(spans \cap Tree(t))
        /\ Cardinality(spans \cap Kin(t)) \in Nat /\ Cardinality(spans \cap Tree(t)) \in Nat
    BY <2>3, CountGrows
  <2>5. traces[t].total <= Cardinality(spans \cap Kin(t))  BY <2>1 DEF TotalsBelow
  <2>. QED  BY <2>1, <2>4, <2>5
<1>. QED  BY <1>1, <1>2, <1>3

-----------------------------------------------------------------------------
(* Theorems                                                                *)

\* Every state has the types of TraceTypeOK.
THEOREM TraceTypes == TraceSpec => []TraceTypeOK
<1>1. TraceInit => TraceInv  BY TraceInvInit DEF TraceInit
<1>2. TraceInv => TraceTypeOK  BY TraceInvImplies
<1>. QED  BY <1>1, <1>2, TraceInvNext, PTL DEF TraceSpec

\* Whatever runs are open at once, and whatever the handler has forgotten, a span is buffered and
\* saved under the root of its own call tree (_get_root_run_id, _cleanup_tree).
THEOREM SpansAreUnderTheirRoot == TraceSpec => []SpanIsUnderItsRoot
<1>1. TraceInit => TraceInv  BY TraceInvInit DEF TraceInit
<1>2. TraceInv => SpanIsUnderItsRoot  BY TraceInvImplies
<1>. QED  BY <1>1, <1>2, TraceInvNext, PTL DEF TraceSpec

\* A trace that save_trace has sealed has every reported span, and its tokens and tool calls count
\* each once, though the total it wrote is the larger of one that was read earlier and its own.
THEOREM SealedTracesAreExact == TraceSpec => []SealedIsExact
<1>1. TraceInit => TraceInv  BY TraceInvInit DEF TraceInit
<1>2. TraceInv => SealedIsExact  BY TraceInvImplies
<1>. QED  BY <1>1, <1>2, TraceInvNext, PTL DEF TraceSpec

\* However the tasks of append_span and save_trace are ordered, no total counts a span that is not
\* stored.
THEOREM TotalsNeverAbove == TraceSpec => []TotalNeverAbove
<1>1. TraceInit => TraceInv  BY TraceInvInit DEF TraceInit
<1>2. TraceInv => TotalNeverAbove  BY TraceInvImplies
<1>. QED  BY <1>1, <1>2, TraceInvNext, PTL DEF TraceSpec

\* A request that reads the row of an ended trace, and then its spans, reads all of them.
THEOREM ReadersSeeWhole == TraceSpec => []ReaderSeesWhole
<1>1. TraceInit => TraceInv  BY TraceInvInit DEF TraceInit
<1>2. TraceInv => ReaderSeesWhole  BY TraceInvImplies
<1>. QED  BY <1>1, <1>2, TraceInvNext, PTL DEF TraceSpec

=============================================================================
