----------------------------- MODULE ToolCache -----------------------------
(***************************************************************************)
(* The tool registries of one user: rows of ecosystem_configs that the     *)
(* gateway changes, a cached registry in every process that runs the       *)
(* user's agents, and the invalidations that travel over Redis pub/sub.    *)
(*                                                                         *)
(* A configuration is named by the number of changes committed so far.     *)
(* Operators with a suffix are mutants of the definition after them.       *)
(***************************************************************************)
EXTENDS Naturals

CONSTANTS
  Procs,      \* gateway, worker and agent runtime processes
  Gateway,    \* the one that serves the configuration requests
  Changes,    \* requests that register or remove a server
  Loads,      \* coroutines that need the user's registry
  MaxFaults   \* bound on failures of servers, database, Redis and listeners

VARIABLES
  committed,  \* changes committed
  heard,      \* history: the last of them that the process was told of
  change,     \* the requests: position, and the processes told
  cache,      \* _user_registries of the process
  load,       \* get_registry_for_user past its cache check
  listening,  \* the process has subscribed and its listener runs
  chan,       \* invalidations on their way to the process
  visited,    \* the user has listed the servers, which creates the example row
  failures

cacheVars == <<committed, heard, change, cache, load, listening, chan, visited, failures>>

\* A registry: the configuration it was built from, and how it came about.  "raced" is history: a
\* change was being made when it read the rows, or an invalidation came before it was stored.
None     == [ver |-> 0, how |-> "none"]
IdleLoad == [pc |-> "idle", proc |-> Gateway, ver |-> 0, how |-> "none"]
InFlight == {w \in Changes : change[w].pc \in {"flushed", "dropped", "published"}}
Fault    == failures < MaxFaults /\ failures' = failures + 1
ChangeAt(w, pc) == change' = [change EXCEPT ![w].pc = pc]

CacheInit ==
  /\ committed = 0 /\ heard = [p \in Procs |-> 0]
  /\ change = [w \in Changes |-> [pc |-> "idle", told |-> {}]]
  /\ cache = [p \in Procs |-> None]
  /\ load = [l \in Loads |-> IdleLoad]
  /\ listening = [p \in Procs |-> FALSE]
  /\ chan = [p \in Procs |-> 0]
  /\ visited = FALSE
  /\ failures = 0

-----------------------------------------------------------------------------
(* The configuration requests                                              *)

\* POST and DELETE of an MCP server.  The server is asked for its tools first: when it does
\* not answer, the request fails.
ChangeMcp(w) ==
  /\ change[w].pc = "idle"
  /\ \/ ChangeAt(w, "flushed") /\ UNCHANGED failures
     \/ ChangeAt(w, "failed") /\ Fault
  /\ UNCHANGED <<committed, heard, cache, load, listening, chan, visited>>

\* POST and DELETE of an A2A agent, which is registered with or without its card.
ChangeA2A(w) ==
  /\ change[w].pc = "idle"
  /\ ChangeAt(w, "flushed")
  /\ UNCHANGED <<committed, heard, cache, load, listening, chan, visited, failures>>

\* invalidate_cache.  Loads under way will store what they have.
Drop(p) ==
  /\ cache' = [cache EXCEPT ![p] = None]
  /\ load' = [l \in Loads |-> IF load[l].pc = "mounting" /\ load[l].proc = p
                               THEN [load[l] EXCEPT !.how = "raced"] ELSE load[l]]

\* broadcast_invalidation: first the process's own cache ...
DropOwn(w) ==
  /\ change[w].pc = "flushed"
  /\ Drop(Gateway)
  /\ change' = [change EXCEPT ![w] = [pc |-> "dropped", told |-> {Gateway}]]
  /\ UNCHANGED <<committed, heard, listening, chan, visited, failures>>

Subscribed == {p \in Procs : listening[p]}

Broadcast_Silent(w) ==
  /\ change[w].pc = "dropped"
  /\ change' = [change EXCEPT ![w].pc = "published", ![w].told = @ \cup Subscribed]
  /\ UNCHANGED <<committed, heard, cache, load, listening, chan, visited, failures>>

\* ... then a message to whoever is subscribed.  A failure is logged.
Broadcast(w) ==
  /\ change[w].pc = "dropped"
  /\ \/ /\ change' = [change EXCEPT ![w].pc = "published", ![w].told = @ \cup Subscribed]
        /\ chan' = [p \in Procs |-> IF listening[p] THEN chan[p] + 1 ELSE chan[p]]
        /\ UNCHANGED failures
     \/ ChangeAt(w, "published") /\ Fault /\ UNCHANGED chan
  /\ UNCHANGED <<committed, heard, cache, load, listening, visited>>

\* get_db commits when the handler has returned.
CommitChange(w) ==
  /\ change[w].pc = "published"
  /\ \/ /\ committed' = committed + 1
        /\ heard' = [p \in Procs |-> IF p \in change[w].told THEN committed' ELSE heard[p]]
        /\ ChangeAt(w, "done")
        /\ UNCHANGED failures
     \/ ChangeAt(w, "failed") /\ Fault /\ UNCHANGED <<committed, heard>>
  /\ UNCHANGED <<cache, load, listening, chan, visited>>

\* Listing the servers of a user who has none creates an example, and tells nobody.
ListServers ==
  /\ ~visited /\ committed = 0
  /\ visited' = TRUE
  /\ committed' = committed + 1
  /\ UNCHANGED <<heard, change, cache, load, listening, chan, failures>>

-----------------------------------------------------------------------------
(* UserToolRegistryManager in each process                                 *)

\* start_invalidation_listener: with the process, or at the runtime's first agent node.
Listen(p) ==
  /\ ~listening[p] /\ chan[p] = 0 /\ failures = 0
  /\ listening' = [listening EXCEPT ![p] = TRUE]
  /\ UNCHANGED <<committed, heard, change, cache, load, chan, visited, failures>>

\* An error of the connection ends the listener.  Nobody starts it again.
ListenerDies(p) ==
  /\ listening[p] /\ Fault
  /\ listening' = [listening EXCEPT ![p] = FALSE]
  /\ chan' = [chan EXCEPT ![p] = 0]
  /\ UNCHANGED <<committed, heard, change, cache, load, visited>>

Hear(p) ==
  /\ chan[p] > 0
  /\ chan' = [chan EXCEPT ![p] = @ - 1]
  /\ Drop(p)
  /\ UNCHANGED <<committed, heard, change, listening, visited, failures>>

\* get_registry_for_user misses its cache and reads the rows.  When the database fails it goes
\* on with the built-in tools.
StartLoad(l) ==
  /\ load[l].pc = "idle"
  /\ \E p \in Procs :
       /\ cache[p] = None
       /\ \/ /\ load' = [load EXCEPT ![l] = [pc |-> "mounting", proc |-> p, ver |-> committed,
                                             how |-> IF InFlight = {} THEN "clean" ELSE "raced"]]
             /\ UNCHANGED failures
          \/ /\ load' = [load EXCEPT ![l] = [pc |-> "mounting", proc |-> p, ver |-> 0,
                                             how |-> "degraded"]]
             /\ Fault
  /\ UNCHANGED <<committed, heard, change, cache, listening, chan, visited>>

\* The servers have been asked for their tools, and the registry is stored, whatever has
\* happened to the cache since.
StoreRegistry(l) ==
  /\ load[l].pc = "mounting"
  /\ cache' = [cache EXCEPT ![load[l].proc] = [ver |-> load[l].ver, how |-> load[l].how]]
  /\ load' = [load EXCEPT ![l] = IdleLoad]
  /\ UNCHANGED <<committed, heard, change, listening, chan, visited, failures>>

Request(w) == ChangeMcp(w) \/ ChangeA2A(w) \/ DropOwn(w) \/ Broadcast(w) \/ CommitChange(w)
Manage(p)  == Listen(p) \/ ListenerDies(p) \/ Hear(p)

CacheNext ==
  \/ ListServers
  \/ \E w \in Changes : Request(w)
  \/ \E p \in Procs : Manage(p)
  \/ \E l \in Loads : StartLoad(l) \/ StoreRegistry(l)

CacheSpec == CacheInit /\ [][CacheNext]_cacheVars

-----------------------------------------------------------------------------
(* Properties                                                              *)

\* Types of the state.
CacheTypeOK ==
  /\ {committed, failures} \subseteq Nat /\ heard \in [Procs -> Nat]
  /\ change \in [Changes -> [pc : {"idle", "flushed", "dropped", "published", "done", "failed"},
                             told : SUBSET Procs]]
  /\ cache \in [Procs -> [ver : Nat, how : {"none", "clean", "raced", "degraded"}]]
  /\ load \in [Loads -> [pc : {"idle", "mounting"}, proc : Procs, ver : Nat,
                         how : {"none", "clean", "raced", "degraded"}]]
  /\ listening \in [Procs -> BOOLEAN]
  /\ chan \in [Procs -> Nat]
  /\ visited \in BOOLEAN

\* What the broadcast does achieve: a registry that was loaded while nothing was changing is not
\* kept by a process that was told of a later change and still listens.
CleanCacheIsDropped ==
  \A p \in Procs :
    /\ cache[p].how = "clean" /\ chan[p] = 0
    /\ listening[p] \/ p = Gateway
    => cache[p].ver >= heard[p]

\* manager.py:16-17 promises that agents always run with the latest tools.  With every listener
\* running, nothing failed and nothing on its way, an old registry may stay cached: see README.
CacheIsCurrent ==
  (/\ InFlight = {} /\ failures = 0 /\ ~visited
   /\ \A p \in Procs : listening[p] /\ chan[p] = 0
   /\ \A l \in Loads : load[l].pc = "idle")
    => \A p \in Procs : cache[p] # None => cache[p].ver = committed

=============================================================================
