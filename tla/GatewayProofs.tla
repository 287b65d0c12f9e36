---------------------------- MODULE GatewayProofs ----------------------------
(***************************************************************************)
(* Theorems about what the gateway shares with the worker: ToolCache, for  *)
(* every number of processes, changes and loads, and every number of       *)
(* failures; TaskStream, for tasks of any length and any number of retries *)
(* and broken streams.                                                     *)
(***************************************************************************)
EXTENDS ToolCache, TaskStream, SequenceTheorems, TLAPS

(*                              The tool caches                            *)

\* The process hears what it is told, and has heard it all; the gateway tells itself.
Informed(p) == p = Gateway \/ (listening[p] /\ chan[p] = 0)

Mounting(l, p) == load[l].pc = "mounting" /\ load[l].proc = p

\* Between the moment a process has heard of a change and the commit of the change, whatever it
\* caches or is about to cache is known to have raced with it.
Purged ==
  \A w \in Changes, p \in Procs :
    change[w].pc \in {"dropped", "published"} /\ p \in change[w].told /\ Informed(p) =>
      /\ cache[p].how # "clean"
      /\ \A l \in Loads : Mounting(l, p) => load[l].how # "clean"

\* What was loaded in peace is not older than the last change its process was told of.
CleanIsFresh ==
  \A p \in Procs : Informed(p) =>
    /\ cache[p].how = "clean" => cache[p].ver >= heard[p]
    /\ \A l \in Loads : Mounting(l, p) /\ load[l].how = "clean" => load[l].ver >= heard[p]

\* A process that does not listen was told nothing, or a failure has kept it from listening again.
ToldListens ==
  \A p \in Procs \ {Gateway} :
    ~listening[p] => \/ failures > 0
                     \/ heard[p] = 0 /\ \A w \in Changes : p \notin change[w].told

\* A request tells the gateway first.
OwnFirst == \A w \in Changes : change[w].pc \in {"dropped", "published"} => Gateway \in change[w].told

HeardIsCommitted == \A p \in Procs : heard[p] <= committed

\* The inductive invariant.
CacheInv == CacheTypeOK /\ Purged /\ CleanIsFresh /\ ToldListens /\ HeardIsCommitted /\ OwnFirst

ChangeRecord == [pc : {"idle", "flushed", "dropped", "published", "done", "failed"},
                 told : SUBSET Procs]
Registry     == [ver : Nat, how : {"none", "clean", "raced", "degraded"}]
LoadRecord   == [pc : {"idle", "mounting"}, proc : Procs, ver : Nat,
                 how : {"none", "clean", "raced", "degraded"}]

-----------------------------------------------------------------------------
(* Dropping a cache                                                        *)

\* After invalidate_cache a process has no registry, and none on the way that is not marked.
LEMMA DropPurges ==
  ASSUME CacheTypeOK, NEW p \in Procs, Drop(p)
  PROVE  /\ cache' \in [Procs -> Registry] /\ load' \in [Loads -> LoadRecord]
         /\ cache'[p].how = "none"
         /\ \A l \in Loads : Mounting(l, p)' => load'[l].how = "raced"
         /\ \A q \in Procs \ {p} : cache'[q] = cache[q]
         /\ \A l \in Loads, q \in Procs \ {p} : Mounting(l, q)' => Mounting(l, q) /\ load'[l] = load[l]
<1>1. cache \in [Procs -> Registry] /\ load \in [Loads -> LoadRecord]
  BY DEF CacheTypeOK, Registry, LoadRecord
<1>2. None \in Registry /\ None.how = "none"  BY DEF None, Registry
<1>3. cache' = [cache EXCEPT ![p] = None]  BY DEF Drop
<1>4. cache' \in [Procs -> Registry] /\ cache'[p].how = "none"
      /\ \A q \in Procs \ {p} : cache'[q] = cache[q]
  BY <1>1, <1>2, <1>3
<1>5. ASSUME NEW l \in Loads
      PROVE  /\ load'[l] \in LoadRecord
             /\ Mounting(l, p)' => load'[l].how = "raced"
             /\ \A q \in Procs \ {p} : Mounting(l, q)' => Mounting(l, q) /\ load'[l] = load[l]
  <2>1. load'[l] = IF load[l].pc = "mounting" /\ load[l].proc = p
                   THEN [load[l] EXCEPT !.how = "raced"] ELSE load[l]
    BY DEF Drop
  <2>2. load[l] \in LoadRecord  BY <1>1
  <2>3. CASE load[l].pc = "mounting" /\ load[l].proc = p
    <3>1. load'[l] = [load[l] EXCEPT !.how = "raced"]  BY <2>1, <2>3
    <3>2. load'[l] \in LoadRecord /\ load'[l].how = "raced" /\ load'[l].proc = p
      BY <2>2, <2>3, <3>1 DEF LoadRecord
    <3>. QED  BY <3>2 DEF Mounting
  <2>4. CASE ~(load[l].pc = "mounting" /\ load[l].proc = p)
    <3>1. load'[l] = load[l]  BY <2>1, <2>4
    <3>. QED  BY <2>2, <2>4, <3>1 DEF Mounting
  <2>. QED  BY <2>3, <2>4
<1>6. load' \in [Loads -> LoadRecord]
  <2>1. load' = [l \in Loads |-> load'[l]]  BY DEF Drop
  <2>. QED  BY <1>5, <2>1
<1>. QED  BY <1>4, <1>5, <1>6

-----------------------------------------------------------------------------
(* The invariant is inductive                                              *)

\* The initial state satisfies it.
LEMMA CacheInvInit == ASSUME Gateway \in Procs PROVE CacheInit => CacheInv
<1>. SUFFICES ASSUME CacheInit PROVE CacheInv  OBVIOUS
<1>1. /\ committed = 0 /\ failures = 0 /\ heard = [p \in Procs |-> 0]
      /\ change = [w \in Changes |-> [pc |-> "idle", told |-> {}]]
      /\ cache = [p \in Procs |-> None] /\ load = [l \in Loads |-> IdleLoad]
  BY DEF CacheInit
<1>2. CacheTypeOK
  <2>1. None \in Registry /\ IdleLoad \in LoadRecord  BY DEF None, Registry, IdleLoad, LoadRecord
  <2>2. change \in [Changes -> ChangeRecord]  BY <1>1 DEF ChangeRecord
  <2>3. cache \in [Procs -> Registry] /\ load \in [Loads -> LoadRecord]  BY <1>1, <2>1
  <2>4. heard \in [Procs -> Nat] /\ chan \in [Procs -> Nat] /\ listening \in [Procs -> BOOLEAN]
    BY DEF CacheInit
  <2>5. {committed, failures} \subseteq Nat  BY <1>1
  <2>6. visited \in BOOLEAN  BY DEF CacheInit
  <2>. QED  BY <2>2, <2>3, <2>4, <2>5, <2>6, Zenon DEF CacheTypeOK, Registry, LoadRecord, ChangeRecord
<1>3. Purged  BY <1>1 DEF Purged
<1>4. CleanIsFresh  BY <1>1 DEF CleanIsFresh, None, IdleLoad, Mounting
<1>5. ToldListens /\ HeardIsCommitted /\ OwnFirst
  BY <1>1 DEF ToldListens, HeardIsCommitted, OwnFirst
<1>. QED  BY <1>2, <1>3, <1>4, <1>5 DEF CacheInv

\* A request that begins, or fails, changes its own position only.
LEMMA PositionInv ==
  ASSUME CacheInv, NEW w \in Changes, NEW pc \in {"flushed", "failed"}, ChangeAt(w, pc),
         failures' = failures \/ failures' = failures + 1,
         UNCHANGED <<committed, heard, cache, load, listening, chan, visited>>
  PROVE  CacheInv'
<1>. USE DEF CacheInv
<1>1. change \in [Changes -> ChangeRecord] /\ failures \in Nat  BY DEF CacheTypeOK, ChangeRecord
<1>2. [change[w] EXCEPT !.pc = pc] \in ChangeRecord  BY <1>1 DEF ChangeRecord
<1>3. change' \in [Changes -> ChangeRecord]  BY <1>1, <1>2 DEF ChangeAt
<1>4. CacheTypeOK'  BY <1>1, <1>3 DEF CacheTypeOK, ChangeRecord
<1>5. \A v \in Changes : /\ change'[v].told = change[v].told
                         /\ change'[v].pc \in {"dropped", "published"} => change'[v] = change[v]
  BY <1>1 DEF ChangeAt, ChangeRecord
<1>6. Purged'  BY <1>5 DEF Purged, Informed, Mounting
<1>7. CleanIsFresh' /\ HeardIsCommitted'
  BY DEF CleanIsFresh, HeardIsCommitted, Informed, Mounting
<1>8. ToldListens'
  <2>1. failures > 0 => failures' > 0  BY <1>1
  <2>. QED  BY <1>5, <2>1 DEF ToldListens
<1>9. OwnFirst'  BY <1>5 DEF OwnFirst
<1>. QED  BY <1>4, <1>6, <1>7, <1>8, <1>9

\* The gateway drops its own cache.
LEMMA DropOwnInv ==
  ASSUME Gateway \in Procs, CacheInv, NEW w \in Changes, DropOwn(w)
  PROVE  CacheInv'
<1>. USE DEF CacheInv
<1>1. /\ Drop(Gateway)
      /\ change' = [change EXCEPT ![w] = [pc |-> "dropped", told |-> {Gateway}]]
      /\ UNCHANGED <<committed, heard, listening, chan, visited, failures>>
  BY DEF DropOwn
<1>2. change' \in [Changes -> ChangeRecord]  BY <1>1 DEF CacheTypeOK, ChangeRecord
<1>3. CacheTypeOK'  BY <1>1, <1>2, DropPurges DEF CacheTypeOK, ChangeRecord, Registry, LoadRecord
<1>4. \A v \in Changes, p \in Procs \ {Gateway} :
        change'[v].pc \in {"dropped", "published"} /\ p \in change'[v].told
          => change'[v] = change[v]
  BY <1>1 DEF CacheTypeOK, ChangeRecord
<1>5. Purged'
  <2>1. SUFFICES ASSUME NEW v \in Changes, NEW p \in Procs,
                        change'[v].pc \in {"dropped", "published"}, p \in change'[v].told,
                        Informed(p)'
                 PROVE  /\ cache'[p].how # "clean"
                        /\ \A l \in Loads : Mounting(l, p)' => load'[l].how # "clean"
    BY DEF Purged
  <2>2. CASE p = Gateway  BY <1>1, <2>2, DropPurges
  <2>3. CASE p # Gateway  BY <1>1, <1>4, <2>1, <2>3, DropPurges DEF Purged, Informed
  <2>. QED  BY <2>2, <2>3
<1>6. CleanIsFresh'
  <2>1. SUFFICES ASSUME NEW p \in Procs, Informed(p)'
                 PROVE  /\ cache'[p].how = "clean" => cache'[p].ver >= heard[p]
                        /\ \A l \in Loads : Mounting(l, p)' /\ load'[l].how = "clean"
                                              => load'[l].ver >= heard[p]
    BY <1>1 DEF CleanIsFresh
  <2>2. CASE p = Gateway  BY <1>1, <2>2, DropPurges
  <2>3. CASE p # Gateway  BY <1>1, <2>1, <2>3, DropPurges DEF CleanIsFresh, Informed
  <2>. QED  BY <2>2, <2>3
<1>7. ToldListens'
  <2>1. \A v \in Changes, p \in Procs \ {Gateway} : p \in change'[v].told => p \in change[v].told
    BY <1>1 DEF CacheTypeOK, ChangeRecord
  <2>. QED  BY <1>1, <2>1 DEF ToldListens
<1>8. HeardIsCommitted'  BY <1>1 DEF HeardIsCommitted
<1>9. OwnFirst'  BY <1>1 DEF OwnFirst, CacheTypeOK, ChangeRecord
<1>. QED  BY <1>3, <1>5, <1>6, <1>7, <1>8, <1>9

\* Who is told has a message before it, but for the gateway, which was told already.
LEMMA BroadcastInv ==
  ASSUME CacheInv, NEW w \in Changes, Broadcast(w)
  PROVE  CacheInv'
<1>. USE DEF CacheInv
<1>1. /\ change[w].pc = "dropped"
      /\ UNCHANGED <<committed, heard, cache, load, listening, visited>>
      /\ \/ /\ change' = [change EXCEPT ![w].pc = "published", ![w].told = change[w].told \cup Subscribed]
            /\ chan' = [p \in Procs |-> IF listening[p] THEN chan[p] + 1 ELSE chan[p]]
            /\ failures' = failures
         \/ /\ change' = [change EXCEPT ![w].pc = "published"]
            /\ chan' = chan
            /\ failures' = failures + 1
  BY DEF Broadcast, Fault, ChangeAt
<1>2. change \in [Changes -> ChangeRecord] /\ chan \in [Procs -> Nat] /\ failures \in Nat
  BY DEF CacheTypeOK, ChangeRecord
<1>3. Subscribed \subseteq Procs  BY DEF Subscribed
<1>. DEFINE T == IF failures' = failures THEN Subscribed ELSE {}
<1>4. /\ change' \in [Changes -> ChangeRecord]
      /\ change'[w].pc = "published" /\ change'[w].told = change[w].told \cup T
      /\ \A v \in Changes \ {w} : change'[v] = change[v]
      /\ \A p \in Procs : chan'[p] = IF p \in T THEN chan[p] + 1 ELSE chan[p]
  <2>1. CASE failures' = failures
    <3>1. /\ change' = [change EXCEPT ![w].pc = "published",
                                      ![w].told = change[w].told \cup Subscribed]
          /\ chan' = [p \in Procs |-> IF listening[p] THEN chan[p] + 1 ELSE chan[p]]
      BY <1>1, <1>2, <2>1
    <3>2. T = Subscribed  BY <2>1
    <3>3. \A p \in Procs : chan'[p] = IF p \in T THEN chan[p] + 1 ELSE chan[p]
      BY <3>1, <3>2 DEF Subscribed
    <3>. HIDE DEF T
    <3>4. change' \in [Changes -> ChangeRecord]  BY <1>2, <1>3, <3>1 DEF ChangeRecord
    <3>5. /\ change'[w].pc = "published" /\ change'[w].told = change[w].told \cup T
          /\ \A v \in Changes \ {w} : change'[v] = change[v]
      BY <1>2, <3>1, <3>2 DEF ChangeRecord
    <3>. QED  BY <3>3, <3>4, <3>5
  <2>2. CASE failures' # failures
    <3>1. change' = [change EXCEPT ![w].pc = "published"] /\ chan' = chan  BY <1>1, <2>2
    <3>2. T = {}  BY <2>2
    <3>. HIDE DEF T
    <3>3. \A p \in Procs : chan'[p] = IF p \in T THEN chan[p] + 1 ELSE chan[p]
      BY <3>1, <3>2
    <3>4. change' \in [Changes -> ChangeRecord]  BY <1>2, <3>1 DEF ChangeRecord
    <3>5. /\ change'[w].pc = "published" /\ change'[w].told = change[w].told \cup T
          /\ \A v \in Changes \ {w} : change'[v] = change[v]
      BY <1>2, <3>1, <3>2 DEF ChangeRecord
    <3>. QED  BY <3>3, <3>4, <3>5
  <2>. QED  BY <2>1, <2>2
<1>5. T = {} \/ T = Subscribed  OBVIOUS
<1>. HIDE DEF T
<1>6. chan' \in [Procs -> Nat] /\ failures' \in Nat /\ (failures > 0 => failures' > 0)
  BY <1>1, <1>2
<1>7. CacheTypeOK'  BY <1>1, <1>4, <1>6 DEF CacheTypeOK, ChangeRecord
<1>8. ASSUME NEW p \in Procs, Informed(p)' PROVE Informed(p) /\ (p \notin T \/ p = Gateway)
  BY <1>1, <1>2, <1>4, <1>8 DEF Informed
<1>9. ASSUME NEW v \in Changes, NEW p \in Procs, p \notin T, p \in change'[v].told
      PROVE  p \in change[v].told
  BY <1>4, <1>9
<1>10. Purged'
  <2>1. SUFFICES ASSUME NEW v \in Changes, NEW p \in Procs,
                        change'[v].pc \in {"dropped", "published"}, p \in change'[v].told,
                        Informed(p)'
                 PROVE  /\ cache[p].how # "clean"
                        /\ \A l \in Loads : Mounting(l, p) => load[l].how # "clean"
    BY <1>1 DEF Purged, Mounting
  <2>2. Informed(p)  BY <1>8, <2>1
  <2>3. PICK u \in Changes : change[u].pc \in {"dropped", "published"} /\ p \in change[u].told
    <3>1. CASE v = w
      <4>1. Gateway \in change[w].told  BY <1>1 DEF OwnFirst
      <4>. QED  BY <1>1, <1>8, <1>9, <2>1, <3>1, <4>1
    <3>2. CASE v # w  BY <1>2, <1>4, <2>1, <3>2
    <3>. QED  BY <3>1, <3>2
  <2>. QED  BY <2>2, <2>3 DEF Purged
<1>11. CleanIsFresh'  BY <1>1, <1>8 DEF CleanIsFresh, Mounting
<1>12. ToldListens'
  <2>1. SUFFICES ASSUME NEW p \in Procs \ {Gateway}, ~listening[p]
                 PROVE  \/ failures' > 0
                        \/ heard[p] = 0 /\ \A v \in Changes : p \notin change'[v].told
    BY <1>1 DEF ToldListens
  <2>2. p \notin T  BY <1>5, <2>1 DEF Subscribed
  <2>. QED  BY <1>6, <1>9, <2>1, <2>2 DEF ToldListens
<1>13. HeardIsCommitted'  BY <1>1 DEF HeardIsCommitted
<1>14. OwnFirst'  BY <1>1, <1>4 DEF OwnFirst
<1>. QED  BY <1>7, <1>10, <1>11, <1>12, <1>13, <1>14

\* The change is committed: who was told of it has nothing older that counts as clean.
LEMMA CommitChangeInv ==
  ASSUME CacheInv, NEW w \in Changes, CommitChange(w)
  PROVE  CacheInv'
<1>. USE DEF CacheInv
<1>1. CASE ChangeAt(w, "failed") /\ Fault /\ UNCHANGED <<committed, heard>>
  <2>1. UNCHANGED <<committed, heard, cache, load, listening, chan, visited>>
    BY <1>1 DEF CommitChange
  <2>. QED  BY <1>1, <2>1, PositionInv DEF Fault
<1>2. CASE /\ committed' = committed + 1
           /\ heard' = [p \in Procs |-> IF p \in change[w].told THEN committed' ELSE heard[p]]
           /\ ChangeAt(w, "done") /\ UNCHANGED failures
  <2>1. change[w].pc = "published" /\ UNCHANGED <<cache, load, listening, chan, visited>>
    BY DEF CommitChange
  <2>2. committed \in Nat /\ heard \in [Procs -> Nat] /\ change \in [Changes -> ChangeRecord]
    BY DEF CacheTypeOK, ChangeRecord
  <2>3. heard' \in [Procs -> Nat] /\ committed' \in Nat  BY <1>2, <2>2
  <2>4. change' \in [Changes -> ChangeRecord]
    <3>1. [change[w] EXCEPT !.pc = "done"] \in ChangeRecord  BY <2>2 DEF ChangeRecord
    <3>. QED  BY <1>2, <2>2, <3>1 DEF ChangeAt
  <2>5. CacheTypeOK'  BY <1>2, <2>1, <2>3, <2>4 DEF CacheTypeOK, ChangeRecord
  <2>6. \A v \in Changes : /\ change'[v].told = change[v].told
                           /\ change'[v].pc \in {"dropped", "published"} => change'[v] = change[v]
    BY <1>2, <2>2 DEF ChangeAt, ChangeRecord
  <2>7. Purged'  BY <2>1, <2>6 DEF Purged, Informed, Mounting
  <2>8. CleanIsFresh'
    <3>1. SUFFICES ASSUME NEW p \in Procs, Informed(p)
                   PROVE  /\ cache[p].how = "clean" => cache[p].ver >= heard'[p]
                          /\ \A l \in Loads : Mounting(l, p) /\ load[l].how = "clean"
                                                => load[l].ver >= heard'[p]
      BY <2>1 DEF CleanIsFresh, Informed, Mounting
    <3>2. CASE p \in change[w].told  BY <2>1, <3>1, <3>2 DEF Purged
    <3>3. CASE p \notin change[w].told
      <4>1. heard'[p] = heard[p]  BY <1>2, <3>3
      <4>. QED  BY <3>1, <4>1 DEF CleanIsFresh
    <3>. QED  BY <3>2, <3>3
  <2>9. ToldListens'
    <3>1. ASSUME NEW p \in Procs, p \notin change[w].told PROVE heard'[p] = heard[p]
      BY <1>2, <3>1
    <3>. QED  BY <1>2, <2>1, <2>6, <3>1 DEF ToldListens
  <2>10. HeardIsCommitted'
    <3>1. ASSUME NEW p \in Procs PROVE heard'[p] <= committed'
      <4>1. heard[p] <= committed /\ heard[p] \in Nat  BY <2>2 DEF HeardIsCommitted
      <4>2. heard'[p] = committed' \/ heard'[p] = heard[p]  BY <1>2
      <4>. QED  BY <1>2, <2>2, <4>1, <4>2
    <3>. QED  BY <3>1 DEF HeardIsCommitted
  <2>11. OwnFirst'  BY <2>6 DEF OwnFirst
  <2>. QED  BY <2>5, <2>7, <2>8, <2>9, <2>10, <2>11
<1>. QED  BY <1>1, <1>2 DEF CommitChange

\* The example row is committed.
LEMMA ListServersInv == ASSUME CacheInv, ListServers PROVE CacheInv'
<1>. USE DEF CacheInv
<1>1. /\ visited' = TRUE /\ committed' = committed + 1
      /\ UNCHANGED <<heard, change, cache, load, listening, chan, failures>>
  BY DEF ListServers
<1>2. committed \in Nat /\ heard \in [Procs -> Nat]  BY DEF CacheTypeOK
<1>3. CacheTypeOK'  BY <1>1, <1>2 DEF CacheTypeOK
<1>4. Purged' /\ CleanIsFresh' /\ ToldListens'
  BY <1>1 DEF Purged, CleanIsFresh, ToldListens, Informed, Mounting
<1>5. HeardIsCommitted' /\ OwnFirst'  BY <1>1, <1>2 DEF HeardIsCommitted, OwnFirst
<1>. QED  BY <1>3, <1>4, <1>5

\* A process subscribes that was told nothing yet.
LEMMA ListenInv ==
  ASSUME CacheInv, NEW p \in Procs, Listen(p)
  PROVE  CacheInv'
<1>. USE DEF CacheInv
<1>1. /\ ~listening[p] /\ failures = 0
      /\ listening' = [listening EXCEPT ![p] = TRUE]
      /\ UNCHANGED <<committed, heard, change, cache, load, chan, visited, failures>>
  BY DEF Listen
<1>2. CacheTypeOK'  BY <1>1 DEF CacheTypeOK
<1>3. \A q \in Procs : q = p \/ listening'[q] = listening[q]  BY <1>1 DEF CacheTypeOK
<1>4. p # Gateway => heard[p] = 0 /\ \A w \in Changes : p \notin change[w].told
  BY <1>1 DEF ToldListens
<1>5. \A q \in Procs : Informed(q)' => Informed(q) \/ (q = p /\ p # Gateway)
  BY <1>1, <1>3 DEF Informed
<1>6. Purged'  BY <1>1, <1>4, <1>5 DEF Purged, Mounting
<1>7. CleanIsFresh'
  <2>1. SUFFICES ASSUME NEW q \in Procs, Informed(q)'
                 PROVE  /\ cache[q].how = "clean" => cache[q].ver >= heard[q]
                        /\ \A l \in Loads : Mounting(l, q) /\ load[l].how = "clean"
                                              => load[l].ver >= heard[q]
    BY <1>1 DEF CleanIsFresh, Mounting
  <2>2. CASE Informed(q)  BY <2>2 DEF CleanIsFresh
  <2>3. CASE q = p /\ p # Gateway
    <3>1. heard[q] = 0  BY <1>4, <2>3
    <3>2. cache[q].ver \in Nat /\ \A l \in Loads : load[l].ver \in Nat  BY DEF CacheTypeOK
    <3>. QED  BY <3>1, <3>2
  <2>. QED  BY <1>5, <2>1, <2>2, <2>3
<1>8. ToldListens'  BY <1>1, <1>3 DEF ToldListens, CacheTypeOK
<1>9. HeardIsCommitted' /\ OwnFirst'  BY <1>1 DEF HeardIsCommitted, OwnFirst
<1>. QED  BY <1>2, <1>6, <1>7, <1>8, <1>9

\* A listener ends.
LEMMA ListenerDiesInv ==
  ASSUME CacheInv, NEW p \in Procs, ListenerDies(p)
  PROVE  CacheInv'
<1>. USE DEF CacheInv
<1>1. /\ failures' = failures + 1
      /\ listening' = [listening EXCEPT ![p] = FALSE] /\ chan' = [chan EXCEPT ![p] = 0]
      /\ UNCHANGED <<committed, heard, change, cache, load, visited>>
  BY DEF ListenerDies, Fault
<1>2. CacheTypeOK'  BY <1>1 DEF CacheTypeOK
<1>3. ASSUME NEW q \in Procs, Informed(q)' PROVE Informed(q)
  <2>1. CASE q = p  BY <1>1, <1>3, <2>1 DEF Informed, CacheTypeOK
  <2>2. CASE q # p  BY <1>1, <1>3, <2>2 DEF Informed, CacheTypeOK
  <2>. QED  BY <2>1, <2>2
<1>4. Purged' /\ CleanIsFresh' /\ HeardIsCommitted' /\ OwnFirst'
  BY <1>1, <1>3 DEF Purged, CleanIsFresh, HeardIsCommitted, OwnFirst, Mounting
<1>5. failures' > 0  BY <1>1 DEF CacheTypeOK
<1>. QED  BY <1>2, <1>4, <1>5 DEF ToldListens

\* An invalidation is heard.
LEMMA HearInv ==
  ASSUME CacheInv, NEW p \in Procs, Hear(p)
  PROVE  CacheInv'
<1>. USE DEF CacheInv
<1>1. /\ chan[p] > 0 /\ chan' = [chan EXCEPT ![p] = @ - 1] /\ Drop(p)
      /\ UNCHANGED <<committed, heard, change, listening, visited, failures>>
  BY DEF Hear
<1>2. chan' \in [Procs -> Nat]  BY <1>1 DEF CacheTypeOK
<1>3. CacheTypeOK'  BY <1>1, <1>2, DropPurges DEF CacheTypeOK, Registry, LoadRecord
<1>4. \A q \in Procs \ {p} : Informed(q)' => Informed(q)  BY <1>1 DEF Informed, CacheTypeOK
<1>5. Purged'
  <2>1. SUFFICES ASSUME NEW v \in Changes, NEW q \in Procs,
                        change[v].pc \in {"dropped", "published"}, q \in change[v].told,
                        Informed(q)'
                 PROVE  /\ cache'[q].how # "clean"
                        /\ \A l \in Loads : Mounting(l, q)' => load'[l].how # "clean"
    BY <1>1 DEF Purged
  <2>2. CASE q = p  BY <1>1, <2>2, DropPurges
  <2>3. CASE q # p  BY <1>1, <1>4, <2>1, <2>3, DropPurges DEF Purged
  <2>. QED  BY <2>2, <2>3
<1>6. CleanIsFresh'
  <2>1. SUFFICES ASSUME NEW q \in Procs, Informed(q)'
                 PROVE  /\ cache'[q].how = "clean" => cache'[q].ver >= heard[q]
                        /\ \A l \in Loads : Mounting(l, q)' /\ load'[l].how = "clean"
                                              => load'[l].ver >= heard[q]
    BY <1>1 DEF CleanIsFresh
  <2>2. CASE q = p  BY <1>1, <2>2, DropPurges
  <2>3. CASE q # p  BY <1>1, <1>4, <2>1, <2>3, DropPurges DEF CleanIsFresh
  <2>. QED  BY <2>2, <2>3
<1>7. ToldListens' /\ HeardIsCommitted' /\ OwnFirst'
  BY <1>1 DEF ToldListens, HeardIsCommitted, OwnFirst
<1>. QED  BY <1>3, <1>5, <1>6, <1>7

\* A load begins: it is clean only while no change is under way.
LEMMA StartLoadInv ==
  ASSUME CacheInv, NEW l \in Loads, StartLoad(l)
  PROVE  CacheInv'
<1>. USE DEF CacheInv
<1>1. PICK p \in Procs :
        \/ /\ load' = [load EXCEPT ![l] = [pc |-> "mounting", proc |-> p, ver |-> committed,
                                           how |-> IF InFlight = {} THEN "clean" ELSE "raced"]]
           /\ failures' = failures
        \/ /\ load' = [load EXCEPT ![l] = [pc |-> "mounting", proc |-> p, ver |-> 0,
                                           how |-> "degraded"]]
           /\ failures' = failures + 1
  BY DEF StartLoad, Fault
<1>2. UNCHANGED <<committed, heard, change, cache, listening, chan, visited>>  BY DEF StartLoad
<1>3. PICK new \in LoadRecord :
        /\ load' = [load EXCEPT ![l] = new]
        /\ new.how = "clean" => new.ver = committed /\ InFlight = {}
  <2>1. committed \in Nat  BY DEF CacheTypeOK
  <2>. DEFINE built(how) == [pc |-> "mounting", proc |-> p, ver |-> committed, how |-> how]
              basic      == [pc |-> "mounting", proc |-> p, ver |-> 0, how |-> "degraded"]
  <2>2. /\ built("clean") \in LoadRecord /\ built("raced") \in LoadRecord /\ basic \in LoadRecord
        /\ built("clean").ver = committed /\ built("raced").how = "raced" /\ basic.how = "degraded"
    BY <2>1 DEF LoadRecord
  <2>3. \/ load' = [load EXCEPT ![l] = built("clean")] /\ InFlight = {}
        \/ load' = [load EXCEPT ![l] = built("raced")]
        \/ load' = [load EXCEPT ![l] = basic]
    BY <1>1
  <2>. HIDE DEF built, basic
  <2>. QED  BY <2>2, <2>3
<1>4. load' \in [Loads -> LoadRecord] /\ failures' \in Nat /\ (failures > 0 => failures' > 0)
  BY <1>1, <1>3 DEF CacheTypeOK, LoadRecord
<1>5. CacheTypeOK'  BY <1>2, <1>4 DEF CacheTypeOK, LoadRecord
<1>6. load'[l] = new /\ \A k \in Loads \ {l} : load'[k] = load[k]
  BY <1>3 DEF CacheTypeOK
<1>7. Purged'
  <2>1. ASSUME NEW v \in Changes, change[v].pc \in {"dropped", "published"}
        PROVE  new.how # "clean"
    BY <1>3, <2>1 DEF InFlight
  <2>. QED  BY <1>2, <1>6, <2>1 DEF Purged, Informed, Mounting
<1>8. CleanIsFresh'
  <2>1. ASSUME NEW p_1 \in Procs, new.how = "clean" PROVE new.ver >= heard[p_1]
    BY <1>3, <2>1 DEF HeardIsCommitted, CacheTypeOK
  <2>. QED  BY <1>2, <1>6, <2>1 DEF CleanIsFresh, Informed, Mounting
<1>9. ToldListens' /\ HeardIsCommitted' /\ OwnFirst'
  BY <1>2, <1>4 DEF ToldListens, HeardIsCommitted, OwnFirst
<1>. QED  BY <1>5, <1>7, <1>8, <1>9

\* A load ends: the cache becomes as good as the load was.
LEMMA StoreRegistryInv ==
  ASSUME Gateway \in Procs, CacheInv, NEW l \in Loads, StoreRegistry(l)
  PROVE  CacheInv'
<1>. USE DEF CacheInv
<1>. DEFINE p == load[l].proc
            new == [ver |-> load[l].ver, how |-> load[l].how]
<1>1. /\ load[l].pc = "mounting" /\ cache' = [cache EXCEPT ![p] = new]
      /\ load' = [load EXCEPT ![l] = IdleLoad]
      /\ UNCHANGED <<committed, heard, change, listening, chan, visited, failures>>
  BY DEF StoreRegistry
<1>2. load[l] \in LoadRecord  BY DEF CacheTypeOK, LoadRecord
<1>3. p \in Procs /\ Mounting(l, p) /\ new \in Registry
  BY <1>1, <1>2 DEF LoadRecord, Mounting, Registry
<1>4. new.how = load[l].how /\ new.ver = load[l].ver  OBVIOUS
<1>5. IdleLoad \in LoadRecord /\ IdleLoad.pc = "idle"  BY DEF IdleLoad, LoadRecord
<1>. HIDE DEF new
<1>6. cache' \in [Procs -> Registry] /\ load' \in [Loads -> LoadRecord]
  BY <1>1, <1>3, <1>5 DEF CacheTypeOK, Registry, LoadRecord
<1>7. CacheTypeOK'  BY <1>1, <1>6 DEF CacheTypeOK, Registry, LoadRecord
<1>8. /\ cache'[p] = new /\ \A q \in Procs \ {p} : cache'[q] = cache[q]
      /\ \A k \in Loads, q \in Procs : Mounting(k, q)' => Mounting(k, q) /\ load'[k] = load[k]
  BY <1>1, <1>3, <1>5 DEF CacheTypeOK, Mounting
<1>9. Purged'
  <2>1. SUFFICES ASSUME NEW v \in Changes, NEW q \in Procs,
                        change[v].pc \in {"dropped", "published"}, q \in change[v].told,
                        Informed(q)
                 PROVE  /\ cache'[q].how # "clean"
                        /\ \A k \in Loads : Mounting(k, q)' => load'[k].how # "clean"
    BY <1>1 DEF Purged, Informed
  <2>2. cache[q].how # "clean" /\ \A k \in Loads : Mounting(k, q) => load[k].how # "clean"
    BY <2>1 DEF Purged
  <2>3. cache'[q].how # "clean"
    <3>1. CASE q = p  BY <1>3, <1>4, <1>8, <2>2, <3>1
    <3>2. CASE q # p  BY <1>8, <2>2, <3>2
    <3>. QED  BY <3>1, <3>2
  <2>. QED  BY <1>8, <2>2, <2>3
<1>10. CleanIsFresh'
  <2>1. SUFFICES ASSUME NEW q \in Procs, Informed(q)
                 PROVE  /\ cache'[q].how = "clean" => cache'[q].ver >= heard[q]
                        /\ \A k \in Loads : Mounting(k, q)' /\ load'[k].how = "clean"
                                              => load'[k].ver >= heard[q]
    BY <1>1 DEF CleanIsFresh, Informed
  <2>2. /\ cache[q].how = "clean" => cache[q].ver >= heard[q]
        /\ \A k \in Loads : Mounting(k, q) /\ load[k].how = "clean" => load[k].ver >= heard[q]
    BY <2>1 DEF CleanIsFresh
  <2>3. cache'[q].how = "clean" => cache'[q].ver >= heard[q]
    <3>1. CASE q = p  BY <1>3, <1>4, <1>8, <2>2, <3>1
    <3>2. CASE q # p  BY <1>8, <2>2, <3>2
    <3>. QED  BY <3>1, <3>2
  <2>. QED  BY <1>8, <2>2, <2>3
<1>11. ToldListens' /\ HeardIsCommitted' /\ OwnFirst'
  BY <1>1 DEF ToldListens, HeardIsCommitted, OwnFirst
<1>. QED  BY <1>7, <1>9, <1>10, <1>11

\* Every step preserves the invariant.
LEMMA CacheInvNext ==
  ASSUME Gateway \in Procs
  PROVE  CacheInv /\ [CacheNext]_cacheVars => CacheInv'
<1>. SUFFICES ASSUME CacheInv, [CacheNext]_cacheVars PROVE CacheInv'  OBVIOUS
<1>1. ASSUME NEW w \in Changes, Request(w) PROVE CacheInv'
  <2>1. CASE ChangeMcp(w)  BY <2>1, PositionInv DEF ChangeMcp, Fault
  <2>2. CASE ChangeA2A(w)  BY <2>2, PositionInv DEF ChangeA2A
  <2>. QED  BY <1>1, <2>1, <2>2, DropOwnInv, BroadcastInv, CommitChangeInv DEF Request
<1>2. ASSUME NEW p \in Procs, Manage(p) PROVE CacheInv'
  BY <1>2, ListenInv, ListenerDiesInv, HearInv DEF Manage
<1>3. ASSUME NEW l \in Loads, StartLoad(l) \/ StoreRegistry(l) PROVE CacheInv'
  BY <1>3, StartLoadInv, StoreRegistryInv
<1>4. CASE UNCHANGED cacheVars
  BY <1>4 DEF cacheVars, CacheInv, CacheTypeOK, Purged, CleanIsFresh, ToldListens, HeardIsCommitted,
              OwnFirst, Informed, Mounting
<1>. QED  BY <1>1, <1>2, <1>3, <1>4, ListServersInv DEF CacheNext

\* The invariant holds in every reachable state.
LEMMA CacheInvariant == ASSUME Gateway \in Procs PROVE CacheInit /\ [][CacheNext]_cacheVars => []CacheInv
<1>. QED  BY CacheInvInit, CacheInvNext, PTL

-----------------------------------------------------------------------------
(* Theorems                                                                *)

\* Every reachable state has the declared types.
THEOREM CacheTypes == ASSUME Gateway \in Procs PROVE CacheSpec => []CacheTypeOK
<1>1. CacheInv => CacheTypeOK  BY DEF CacheInv
<1>. QED  BY <1>1, CacheInvariant, PTL DEF CacheSpec

\* What UserToolRegistryManager (manager.py) does guarantee: a registry loaded while nothing was
\* changing is gone from every process that was told of a later change and still listens.
THEOREM CleanIsDropped == ASSUME Gateway \in Procs PROVE CacheSpec => []CleanCacheIsDropped
<1>1. CacheInv => CleanCacheIsDropped  BY DEF CacheInv, CleanIsFresh, CleanCacheIsDropped, Informed
<1>. QED  BY <1>1, CacheInvariant, PTL DEF CacheSpec

-----------------------------------------------------------------------------
(*                        The stream of a task                             *)

Event == [step : Nat, status : Ends \cup {"RUNNING"}]

\* The steps that are published or never will be: all that are stored, but for one the worker is
\* about to publish.
Published == IF told \/ status # "RUNNING" THEN stored ELSE stored - 1

\* A step that is shown, was lost in a gap or with its worker, or is among the first j events of the queue.
Accounted(n, j) ==
  \/ n \in shown \cup gap \cup untold
  \/ \E i \in 1..j : queue[i].status = "RUNNING" /\ queue[i].step = n

\* The state beyond StreamTypeOK: events are of stored steps, and only a live stream has any.
QueueOK ==
  /\ queue \in Seq(Event)
  /\ \A i \in 1..Len(queue) : /\ queue[i].step <= stored
                              /\ queue[i].status = "RUNNING" => queue[i].step >= 1
  /\ conn.pc \in {"open", "replayed"} => queue = <<>>
  /\ ~told /\ status = "RUNNING" => stored >= 1
  /\ conn \in [pc : {"waiting", "open", "replayed", "live", "closed", "abandoned"},
               status : Ends \cup {"RUNNING"}, from : 0..Steps]

\* What was published since a replay is accounted for, in the order of the queue.
NothingDropped ==
  /\ conn.pc = "open" => conn.from = latest
  /\ conn.pc \in {"replayed", "live"} => \A n \in 1..Published : Accounted(n, Len(queue))
  /\ conn.pc = "live" => \A j \in 1..Len(queue) : \A n \in 1..queue[j].step : Accounted(n, j)

\* The inductive invariant.
StreamInv == StreamTypeOK /\ QueueOK /\ NothingDropped /\ latest <= stored /\ MissedOnlyInGap

-----------------------------------------------------------------------------
(* What reaches the browser                                                *)

\* A replay from the cursor moves the cursor to the last stored step.
LEMMA ShowRange ==
  ASSUME latest \in Nat, stored \in Nat, latest <= stored, Show((latest + 1)..stored)
  PROVE  shown' = shown \cup ((latest + 1)..stored) /\ latest' = stored
<1>. DEFINE S == (latest + 1)..stored
            m == CHOOSE s \in S : \A t \in S : t <= s
<1>1. shown' = shown \cup S  BY DEF Show
<1>2. CASE latest = stored
  <2>1. S = {}  BY <1>2
  <2>. QED  BY <1>1, <1>2, <2>1 DEF Show
<1>3. CASE latest < stored
  <2>1. stored \in S /\ \A t \in S : t <= stored  BY <1>3
  <2>2. m \in S /\ \A t \in S : t <= m  BY <2>1
  <2>3. m = stored  BY <2>1, <2>2
  <2>4. S # {} /\ \E s \in S : s > latest  BY <1>3, <2>1
  <2>5. latest' = m  BY <2>4 DEF Show
  <2>. QED  BY <1>1, <2>3, <2>5
<1>. QED  BY <1>2, <1>3

\* A single step moves it forward or leaves it.
LEMMA ShowOne ==
  ASSUME latest \in Nat, NEW k \in Nat, Show({k})
  PROVE  shown' = shown \cup {k} /\ latest' = IF k > latest THEN k ELSE latest
<1>1. (CHOOSE s \in {k} : \A t \in {k} : t <= s) = k  OBVIOUS
<1>2. ({k} # {} /\ \E s \in {k} : s > latest) <=> k > latest  OBVIOUS
<1>. QED  BY <1>1, <1>2 DEF Show

-----------------------------------------------------------------------------
(* The invariant is inductive                                              *)

\* The initial state satisfies it.
LEMMA StreamInvInit == ASSUME Steps \in Nat PROVE StreamInit => StreamInv
<1>. SUFFICES ASSUME StreamInit PROVE StreamInv  OBVIOUS
<1>1. queue = <<>> /\ stored = 0 /\ latest = 0 /\ shown = {} /\ gap = {} /\ untold = {} /\ told /\ status = "RUNNING"
  BY DEF StreamInit
<1>2. conn = [pc |-> "waiting", status |-> "RUNNING", from |-> 0]  BY DEF StreamInit
<1>3. StreamTypeOK  BY <1>1, <1>2 DEF StreamInit, StreamTypeOK
<1>4. QueueOK  BY <1>1, <1>2 DEF QueueOK
<1>5. NothingDropped  BY <1>1, <1>2 DEF NothingDropped
<1>6. MissedOnlyInGap  BY <1>1 DEF MissedOnlyInGap
<1>. QED  BY <1>1, <1>3, <1>4, <1>5, <1>6 DEF StreamInv

\* A step is stored, and not published yet.
LEMMA StoreStepInv == ASSUME Steps \in Nat, StreamInv, StoreStep PROVE StreamInv'
<1>. USE DEF StreamInv
<1>1. /\ told /\ status = "RUNNING" /\ stored < Steps /\ stored' = stored + 1 /\ told' = FALSE
      /\ UNCHANGED <<status, conn, queue, shown, latest, retries, gap, untold, breaks>>
  BY DEF StoreStep, browser
<1>2. StreamTypeOK'
  <2>1. shown' \cup untold' \subseteq 1..stored'  BY <1>1 DEF StreamTypeOK
  <2>2. stored' \in 0..Steps  BY <1>1 DEF StreamTypeOK
  <2>. QED  BY <1>1, <2>1, <2>2 DEF StreamTypeOK
<1>3. QueueOK'
  <2>1. ASSUME NEW i \in 1..Len(queue) PROVE queue[i].step \in Nat
    <3>1. queue[i] \in Event  BY ElementOfSeq DEF QueueOK
    <3>. QED  BY <3>1 DEF Event
  <2>2. stored \in Nat  BY DEF StreamTypeOK
  <2>3. \A i \in 1..Len(queue) : queue[i].step <= stored'  BY <1>1, <2>1, <2>2 DEF QueueOK
  <2>. QED  BY <1>1, <2>2, <2>3 DEF QueueOK
<1>4. Published' = Published  BY <1>1 DEF Published, StreamTypeOK
<1>5. NothingDropped'  BY <1>1, <1>4 DEF NothingDropped, Accounted
<1>. QED  BY <1>1, <1>2, <1>3, <1>5 DEF StreamTypeOK, MissedOnlyInGap

\* The task ends.
LEMMA EndTaskInv == ASSUME Steps \in Nat, StreamInv, EndTask PROVE StreamInv'
<1>. USE DEF StreamInv
<1>1. /\ told /\ status = "RUNNING" /\ status' \in Ends /\ told' = FALSE
      /\ UNCHANGED <<stored, conn, queue, shown, latest, retries, gap, untold, breaks>>
  BY DEF EndTask, browser
<1>2. StreamTypeOK'  BY <1>1 DEF StreamTypeOK
<1>3. QueueOK'  BY <1>1 DEF QueueOK, Ends
<1>4. Published' = Published  BY <1>1 DEF Published, Ends
<1>5. NothingDropped'  BY <1>1, <1>4 DEF NothingDropped, Accounted
<1>. QED  BY <1>1, <1>2, <1>3, <1>5 DEF MissedOnlyInGap

\* A commit is published: a live stream gets it, a replayed one misses it.
LEMMA PublishInv == ASSUME Steps \in Nat, StreamInv, Publish PROVE StreamInv'
<1>. USE DEF StreamInv
<1>. DEFINE event == [step |-> stored, status |-> status]
<1>1. /\ ~told /\ told' = TRUE
      /\ queue' = IF conn.pc = "live" THEN Append(queue, event) ELSE queue
      /\ gap' = IF conn.pc = "replayed" /\ status = "RUNNING" THEN gap \cup {stored} ELSE gap
      /\ UNCHANGED <<stored, status, conn, shown, latest, retries, untold, breaks>>
  BY DEF Publish, browser
<1>2. StreamTypeOK'  BY <1>1 DEF StreamTypeOK
<1>3. event \in Event  BY DEF Event, StreamTypeOK
<1>4. queue' \in Seq(Event)  BY <1>1, <1>3, AppendProperties DEF QueueOK
<1>5. CASE conn.pc = "live"
  <2>1. Len(queue') = Len(queue) + 1 /\ Len(queue) \in Nat
        /\ \A i \in 1..Len(queue) : queue'[i] = queue[i]
    BY <1>1, <1>3, <1>5, AppendProperties, LenProperties DEF QueueOK
  <2>2. queue'[Len(queue) + 1] = event  BY <1>1, <1>3, <1>5, AppendProperties DEF QueueOK
  <2>3. event.step = stored /\ event.status = status  OBVIOUS
  <2>. HIDE DEF event
  <2>4. ASSUME NEW i \in 1..(Len(queue) + 1) PROVE i \in 1..Len(queue) \/ i = Len(queue) + 1
    BY <2>1
  <2>5. QueueOK'
    <3>1. \A i \in 1..Len(queue') : /\ queue'[i].step <= stored'
                                    /\ queue'[i].status = "RUNNING" => queue'[i].step >= 1
      BY <1>1, <2>1, <2>2, <2>3, <2>4 DEF QueueOK, StreamTypeOK
    <3>. QED  BY <1>1, <1>4, <1>5, <3>1 DEF QueueOK
  <2>6. ASSUME NEW n \in Nat, NEW j \in 1..Len(queue), Accounted(n, j) PROVE Accounted(n, j)'
    BY <1>1, <1>5, <2>1, <2>6 DEF Accounted
  <2>7. ASSUME NEW n \in 1..stored, NEW m, m = Len(queue) + 1 PROVE Accounted(n, m)'
    <3>1. CASE n \in 1..Published
      <4>1. Accounted(n, Len(queue))  BY <1>5, <3>1 DEF NothingDropped
      <4>. QED  BY <1>1, <1>5, <2>1, <2>7, <4>1 DEF Accounted
    <3>2. CASE n \notin 1..Published
      <4>1. status = "RUNNING" /\ n = stored  BY <1>1, <3>2 DEF Published, StreamTypeOK
      <4>2. m \in 1..m  BY <2>1, <2>7
      <4>. QED  BY <1>1, <2>2, <2>3, <2>7, <4>1, <4>2 DEF Accounted
    <3>. QED  BY <3>1, <3>2
  <2>8. Published' = stored  BY <1>1 DEF Published
  <2>9. \A n \in 1..Published' : Accounted(n, Len(queue))'  BY <1>1, <2>1, <2>7, <2>8
  <2>10. ASSUME NEW j \in 1..Len(queue'), NEW n \in 1..queue'[j].step PROVE Accounted(n, j)'
    <3>1. CASE j \in 1..Len(queue)
      <4>1. Accounted(n, j)  BY <1>5, <2>1, <3>1 DEF NothingDropped
      <4>2. n \in Nat  OBVIOUS
      <4>. QED  BY <2>6, <3>1, <4>1, <4>2
    <3>2. CASE j = Len(queue) + 1  BY <2>2, <2>3, <2>7, <3>2
    <3>. QED  BY <2>1, <2>4, <3>1, <3>2
  <2>11. NothingDropped'  BY <1>1, <1>5, <2>9, <2>10 DEF NothingDropped
  <2>. QED  BY <1>1, <1>2, <1>5, <2>5, <2>11 DEF MissedOnlyInGap
<1>6. CASE conn.pc # "live"
  <2>1. QueueOK'  BY <1>1, <1>6 DEF QueueOK
  <2>2. Published' = stored  BY <1>1 DEF Published
  <2>3. ASSUME conn.pc = "replayed", NEW n \in 1..stored PROVE Accounted(n, Len(queue))'
    <3>1. CASE n \in 1..Published  BY <1>1, <1>6, <2>3, <3>1 DEF NothingDropped, Accounted
    <3>2. CASE n \notin 1..Published
      <4>1. status = "RUNNING" /\ n = stored  BY <1>1, <3>2 DEF Published, StreamTypeOK
      <4>. QED  BY <1>1, <2>3, <4>1 DEF Accounted
    <3>. QED  BY <3>1, <3>2
  <2>4. NothingDropped'  BY <1>1, <1>6, <2>2, <2>3 DEF NothingDropped
  <2>5. MissedOnlyInGap'  BY <1>1 DEF MissedOnlyInGap
  <2>. QED  BY <1>1, <1>2, <2>1, <2>4, <2>5
<1>. QED  BY <1>5, <1>6

\* A worker that stops or dies takes a commit with it that nobody publishes.
LEMMA WorkerDiesInv == ASSUME Steps \in Nat, StreamInv, WorkerDies PROVE StreamInv'
<1>. USE DEF StreamInv
<1>1. /\ ~told /\ told' = TRUE
      /\ untold' = IF status = "RUNNING" THEN untold \cup {stored} ELSE untold
      /\ UNCHANGED <<stored, status, conn, queue, shown, latest, retries, gap, breaks>>
  BY DEF WorkerDies, browser
<1>2. status = "RUNNING" => stored \in 1..stored  BY <1>1 DEF QueueOK, StreamTypeOK
<1>3. StreamTypeOK'  BY <1>1, <1>2 DEF StreamTypeOK
<1>4. QueueOK'  BY <1>1 DEF QueueOK
<1>5. Published' = stored  BY <1>1 DEF Published
<1>6. ASSUME NEW n, NEW j, Accounted(n, j) PROVE Accounted(n, j)'  BY <1>1, <1>6 DEF Accounted
<1>7. ASSUME conn.pc \in {"replayed", "live"}, NEW n \in 1..stored PROVE Accounted(n, Len(queue))'
  <2>1. CASE n \in 1..Published  BY <1>1, <1>6, <1>7, <2>1 DEF NothingDropped
  <2>2. CASE n \notin 1..Published
    <3>1. status = "RUNNING" /\ n = stored  BY <1>1, <2>2 DEF Published, StreamTypeOK
    <3>. QED  BY <1>1, <3>1 DEF Accounted
  <2>. QED  BY <2>1, <2>2
<1>8. NothingDropped'  BY <1>1, <1>5, <1>6, <1>7 DEF NothingDropped
<1>9. MissedOnlyInGap'  BY <1>1 DEF MissedOnlyInGap
<1>. QED  BY <1>1, <1>3, <1>4, <1>8, <1>9

\* The browser connects from its cursor.
LEMMA ConnectInv == ASSUME Steps \in Nat, StreamInv, Connect PROVE StreamInv'
<1>. USE DEF StreamInv
<1>1. /\ conn' = [pc |-> "open", status |-> status, from |-> latest]
      /\ queue' = <<>> /\ retries' = 0
      /\ UNCHANGED <<stored, told, status, untold, shown, latest, gap, breaks>>
  BY DEF Connect, worker
<1>2. conn'.pc = "open" /\ conn'.from = latest  BY <1>1
<1>3. StreamTypeOK'  BY <1>1, <1>2 DEF StreamTypeOK
<1>4. QueueOK'  BY <1>1, <1>2 DEF QueueOK, StreamTypeOK
<1>5. NothingDropped'  BY <1>1, <1>2 DEF NothingDropped
<1>. QED  BY <1>1, <1>3, <1>4, <1>5 DEF MissedOnlyInGap

\* The stored steps after the cursor are shown: none is missing then.
LEMMA ReplayInv == ASSUME Steps \in Nat, StreamInv, Replay PROVE StreamInv'
<1>. USE DEF StreamInv
<1>1. conn.pc = "open" /\ conn.from = latest /\ queue = <<>>
  BY DEF Replay, NothingDropped, QueueOK
<1>2. /\ Show((latest + 1)..stored)
      /\ At(IF conn.status \in Ends THEN "closed" ELSE "replayed")
      /\ UNCHANGED <<stored, told, status, untold, queue, retries, gap, breaks>>
  BY <1>1 DEF Replay, After, worker
<1>3. shown' = shown \cup ((latest + 1)..stored) /\ latest' = stored
  BY <1>2, ShowRange DEF StreamTypeOK
<1>4. conn'.pc \in {"closed", "replayed"} /\ conn'.from = conn.from
  BY <1>2 DEF At, QueueOK
<1>5. StreamTypeOK'  BY <1>2, <1>3, <1>4 DEF StreamTypeOK
<1>6. QueueOK'  BY <1>1, <1>2 DEF QueueOK, At
<1>7. 1..stored \subseteq shown' \cup gap' \cup untold'  BY <1>2, <1>3 DEF MissedOnlyInGap, StreamTypeOK
<1>8. Published' <= stored  BY <1>2 DEF Published, StreamTypeOK
<1>9. NothingDropped'  BY <1>2, <1>4, <1>5, <1>7, <1>8 DEF NothingDropped, Accounted, StreamTypeOK, Published
<1>. QED  BY <1>2, <1>3, <1>5, <1>6, <1>7, <1>9 DEF MissedOnlyInGap, StreamTypeOK

\* The stream subscribes.
LEMMA SubscribeInv == ASSUME Steps \in Nat, StreamInv, Subscribe PROVE StreamInv'
<1>. USE DEF StreamInv
<1>1. /\ conn.pc = "replayed" /\ queue = <<>> /\ At("live")
      /\ UNCHANGED <<stored, told, status, queue, shown, latest, retries, gap, untold, breaks>>
  BY DEF Subscribe, QueueOK, worker, browser
<1>2. conn'.pc = "live" /\ conn'.from = conn.from  BY <1>1 DEF At, QueueOK
<1>3. StreamTypeOK'  BY <1>1, <1>2 DEF StreamTypeOK
<1>4. QueueOK'  BY <1>1 DEF QueueOK, At
<1>5. NothingDropped'  BY <1>1, <1>2 DEF NothingDropped, Accounted, Published
<1>. QED  BY <1>1, <1>3, <1>4, <1>5 DEF MissedOnlyInGap

\* An event is delivered.  A step reaches the browser after all that was published before it.
LEMMA DeliverInv == ASSUME Steps \in Nat, StreamInv, Deliver PROVE StreamInv'
<1>. USE DEF StreamInv
<1>. DEFINE event == queue[1]
<1>1. /\ conn.pc = "live" /\ queue # <<>> /\ queue' = Tail(queue)
      /\ UNCHANGED <<stored, told, status, untold, retries, gap, breaks>>
      /\ Head(queue) = event
  BY DEF Deliver, worker, QueueOK
<1>2. /\ Len(queue) \in Nat \ {0} /\ queue' \in Seq(Event) /\ Len(queue') = Len(queue) - 1
      /\ \A i \in 1..Len(queue') : i + 1 \in 1..Len(queue) /\ queue'[i] = queue[i + 1]
  BY <1>1, HeadTailProperties, EmptySeq, LenProperties DEF QueueOK
<1>3. event \in Event /\ event.step <= stored /\ event.step \in Nat
  <2>1. 1 \in 1..Len(queue)  BY <1>2
  <2>2. event \in Event  BY <2>1, ElementOfSeq DEF QueueOK
  <2>3. event.step <= stored  BY <2>1 DEF QueueOK
  <2>. QED  BY <2>2, <2>3 DEF Event
<1>4. \A i \in 1..Len(queue') : /\ queue'[i].step <= stored'
                                /\ queue'[i].status = "RUNNING" => queue'[i].step >= 1
  BY <1>1, <1>2 DEF QueueOK
<1>5. CASE event.status = "RUNNING"
  <2>1. event.step >= 1  BY <1>2, <1>5 DEF QueueOK
  <2>2. {event.step} \cap After(event.step - 1) = {event.step}  BY <1>3, <2>1 DEF After, StreamTypeOK
  <2>3. Show({event.step}) /\ UNCHANGED conn  BY <1>1, <1>5, <2>2 DEF Deliver
  <2>4. /\ shown' = shown \cup {event.step}
        /\ latest' = IF event.step > latest THEN event.step ELSE latest
    BY <1>3, <2>3, ShowOne DEF StreamTypeOK
  <2>5. StreamTypeOK'
    <3>1. event.step \in 1..stored  BY <1>3, <2>1 DEF StreamTypeOK
    <3>2. shown' \subseteq 1..stored'  BY <1>1, <2>4, <3>1 DEF StreamTypeOK
    <3>3. latest' \in 0..Steps  BY <1>3, <2>4 DEF StreamTypeOK
    <3>. QED  BY <1>1, <2>3, <3>2, <3>3 DEF StreamTypeOK
  <2>6. QueueOK'  BY <1>1, <1>2, <1>4, <2>3 DEF QueueOK
  <2>7. ASSUME NEW n, NEW j \in 0..Len(queue'), Accounted(n, j + 1) PROVE Accounted(n, j)'
    <3>1. CASE n \in shown \cup gap \cup untold  BY <1>1, <2>4, <3>1 DEF Accounted
    <3>2. ASSUME NEW i \in 1..(j + 1), queue[i].status = "RUNNING", queue[i].step = n
          PROVE  Accounted(n, j)'
      <4>1. CASE i = 1  BY <2>4, <3>2, <4>1 DEF Accounted
      <4>2. CASE i # 1
        <5>1. i - 1 \in 1..j /\ i - 1 \in 1..Len(queue')  BY <1>2, <4>2
        <5>2. queue'[i - 1] = queue[i]  BY <1>2, <5>1
        <5>. QED  BY <3>2, <5>1, <5>2 DEF Accounted
      <4>. QED  BY <4>1, <4>2
    <3>. QED  BY <2>7, <3>1, <3>2 DEF Accounted
  <2>8. Published' = Published  BY <1>1 DEF Published
  <2>9. \A n \in 1..Published' : Accounted(n, Len(queue))'
    <3>1. \A n \in 1..Published : Accounted(n, Len(queue') + 1)
      BY <1>1, <1>2 DEF NothingDropped
    <3>2. Len(queue') \in 0..Len(queue')  BY <1>2
    <3>. QED  BY <2>7, <2>8, <3>1, <3>2
  <2>10. ASSUME NEW j \in 1..Len(queue'), NEW n \in 1..queue'[j].step PROVE Accounted(n, j)'
    <3>1. j + 1 \in 1..Len(queue) /\ n \in 1..queue[j + 1].step  BY <1>2
    <3>2. Accounted(n, j + 1)  BY <1>1, <3>1 DEF NothingDropped
    <3>3. j \in 0..Len(queue')  BY <1>2
    <3>. QED  BY <2>7, <3>2, <3>3
  <2>11. NothingDropped'  BY <1>1, <2>3, <2>9, <2>10 DEF NothingDropped
  <2>12. MissedOnlyInGap'
    <3>1. ASSUME NEW n \in 1..event.step PROVE n \in shown' \cup gap' \cup untold'
      <4>1. Accounted(n, 1)  BY <1>1, <1>2 DEF NothingDropped
      <4>. QED  BY <1>1, <2>4, <4>1 DEF Accounted
    <3>. QED  BY <1>1, <2>4, <3>1 DEF MissedOnlyInGap
  <2>13. latest' <= stored'  BY <1>1, <1>3, <2>4
  <2>. QED  BY <2>5, <2>6, <2>11, <2>12, <2>13
<1>6. CASE event.status # "RUNNING"
  <2>1. event.status \in Ends  BY <1>3, <1>6 DEF Event
  <2>2. At("closed") /\ UNCHANGED <<shown, latest>>  BY <1>1, <1>6, <2>1 DEF Deliver, Closing
  <2>3. conn'.pc = "closed" /\ conn'.from = conn.from  BY <2>2 DEF At, QueueOK
  <2>4. StreamTypeOK'  BY <1>1, <2>2, <2>3 DEF StreamTypeOK
  <2>5. QueueOK'  BY <1>1, <1>2, <1>4, <2>2, <2>3 DEF QueueOK, At
  <2>6. NothingDropped'  BY <2>3 DEF NothingDropped
  <2>. QED  BY <1>1, <2>2, <2>4, <2>5, <2>6 DEF MissedOnlyInGap
<1>. QED  BY <1>5, <1>6

\* The stream breaks, and what was on its way is gone.
LEMMA BreakInv == ASSUME Steps \in Nat, StreamInv, Break PROVE StreamInv'
<1>. USE DEF StreamInv
<1>1. /\ At("waiting") \/ At("abandoned")
      /\ queue' = <<>> /\ retries' \in Nat /\ breaks' \in Nat
      /\ UNCHANGED <<stored, told, status, untold, shown, latest, gap>>
  BY DEF Break, worker, StreamTypeOK
<1>2. conn'.pc \in {"waiting", "abandoned"} /\ conn'.from = conn.from  BY <1>1 DEF At, QueueOK
<1>3. StreamTypeOK'  BY <1>1, <1>2 DEF StreamTypeOK
<1>4. QueueOK'  BY <1>1, <1>2 DEF QueueOK, At
<1>5. NothingDropped'  BY <1>2 DEF NothingDropped
<1>. QED  BY <1>1, <1>3, <1>4, <1>5 DEF MissedOnlyInGap

\* Every step preserves the invariant.
LEMMA StreamInvNext ==
  ASSUME Steps \in Nat
  PROVE  StreamInv /\ [StreamNext]_streamVars => StreamInv'
<1>. SUFFICES ASSUME StreamInv, [StreamNext]_streamVars PROVE StreamInv'  OBVIOUS
<1>1. CASE UNCHANGED streamVars
  BY <1>1 DEF streamVars, StreamInv, StreamTypeOK, QueueOK, NothingDropped, Accounted, Published,
              MissedOnlyInGap
<1>. QED  BY <1>1, StoreStepInv, EndTaskInv, PublishInv, WorkerDiesInv, ConnectInv, ReplayInv,
             SubscribeInv, DeliverInv, BreakInv DEF StreamNext, Stream, Worker

\* The invariant holds in every reachable state.
LEMMA StreamInvariant == ASSUME Steps \in Nat PROVE StreamInit /\ [][StreamNext]_streamVars => []StreamInv
<1>. QED  BY StreamInvInit, StreamInvNext, PTL

-----------------------------------------------------------------------------
(* Theorems                                                                *)

\* Every reachable state has the declared types.
THEOREM StreamTypes == ASSUME Steps \in Nat PROVE StreamSpec => []StreamTypeOK
<1>1. StreamInv => StreamTypeOK  BY DEF StreamInv
<1>. QED  BY <1>1, StreamInvariant, PTL DEF StreamSpec

\* The stream of a task (task.py) loses a step below the browser's cursor in two ways only: the gap
\* between its replay and its subscription, and a worker that ends between the commit of the step
\* (executor.py:185) and its publication (194).  Reconnecting from the cursor is otherwise exact, however
\* often the stream breaks.
THEOREM LostOnlyInGap == ASSUME Steps \in Nat PROVE StreamSpec => []MissedOnlyInGap
<1>1. StreamInv => MissedOnlyInGap  BY DEF StreamInv
<1>. QED  BY <1>1, StreamInvariant, PTL DEF StreamSpec

=============================================================================
