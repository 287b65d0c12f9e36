---------------------------- MODULE FileVersions ----------------------------
(***************************************************************************)
(* One file of a session: its copies on disk (the sandbox daemon's and the *)
(* local fallbacks'), its row in files and its rows in file_versions.      *)
(* Writers are tool calls of the gateway's worker, which record the write  *)
(* in the transaction of the step, and of the agent runtime, which record  *)
(* it through a recorder of their own.                                     *)
(*                                                                         *)
(* PostgreSQL is read committed: a write of the files row is a lock until  *)
(* the transaction ends, and an insert that meets an uncommitted duplicate *)
(* waits for it.  A content is named by its writer.  Operators with a      *)
(* suffix are mutants of the definition after them.                        *)
(***************************************************************************)
EXTENDS Naturals, FiniteSets

CONSTANTS
  Writers,      \* tool calls that write the file, each once
  NoWriter,
  Kind,         \* "gateway" or "runtime"
  Size,         \* size of what it writes, Large beyond MAX_INLINE_DIFF_SIZE
  Large,
  MaxEvents     \* bound on outages, errors and deletions together

VARIABLES
  up,         \* the daemon answers
  disk,       \* content per place
  latest,     \* history: the last content written
  tx,         \* the writers
  row,        \* files row, committed
  rowLock,    \* transaction with an uncommitted write of it
  versions,   \* file_versions rows, committed
  snapshot,   \* .versions/{file}_v{n}.snapshot
  used        \* how often each bounded environment action has happened

fileVars == <<up, disk, latest, tx, row, rowLock, versions, snapshot, used>>
database == <<row, rowLock, versions>>

\* Without the daemon each program has a directory of its own: llm_workspace_dir of the gateway,
\* SANDBOX_WORKSPACE_DIR of the runtime's container.
Copies == {"daemon", "gateway", "runtime"}
Places == Copies \cup {"root"}
Idle   == [pc |-> "idle", at |-> "daemon", found |-> FALSE, seen |-> 0, gone |-> FALSE, next |-> 0]
Numbers == {v.num : v \in versions}
Newest  == CHOOSE v \in versions : \A u \in versions : u.num <= v.num
InTx    == {"max", "insert", "commit"}
Goto(w, pc) == tx' = [tx EXCEPT ![w].pc = pc]
Happens(what) == /\ used.outage + used.delete + used.error < MaxEvents
                 /\ used' = [used EXCEPT ![what] = @ + 1]

FileInit ==
  /\ up = TRUE
  /\ \E legacy \in {NoWriter, "legacy"} :
       disk = [p \in Places |-> IF p = "root" THEN legacy ELSE NoWriter]
  /\ latest = NoWriter
  /\ tx = [w \in Writers |-> Idle]
  /\ row = [exists |-> FALSE, deleted |-> FALSE, size |-> 0]
  /\ rowLock = NoWriter
  /\ versions = {}
  /\ snapshot = [n \in 1..Cardinality(Writers) |-> NoWriter]
  /\ used = [outage |-> 0, delete |-> 0, error |-> 0]

-----------------------------------------------------------------------------
(* Writing the file                                                        *)

Place(program) == IF up THEN "daemon" ELSE program

\* HandleFileWrite, and the tools' own writing.
Put(at, w) == disk' = [disk EXCEPT ![at] = w] /\ latest' = w

\* The gateway's tool asks whether the daemon is healthy, and reads what it will overwrite.
ReadOld(w) ==
  /\ Kind[w] = "gateway" /\ tx[w].pc = "idle"
  /\ tx' = [tx EXCEPT ![w].pc = "write", ![w].at = Place("gateway")]
  /\ UNCHANGED <<up, disk, latest, database, snapshot, used>>

\* The gateway's tool writes where its health check sent it; a daemon gone since is an error,
\* and nothing is recorded.  The runtime's tool falls back to a file of its own.
WriteFile(w) ==
  /\ tx[w].pc = (IF Kind[w] = "gateway" THEN "write" ELSE "idle")
  /\ LET at == IF Kind[w] = "gateway" THEN tx[w].at ELSE Place("runtime") IN
     IF at = "daemon" /\ ~up
     THEN Goto(w, "failed") /\ UNCHANGED <<disk, latest>>
     ELSE Put(at, w) /\ Goto(w, "record")
  /\ UNCHANGED <<up, database, snapshot, used>>

-----------------------------------------------------------------------------
(* Recording it                                                            *)

Upsert_NoLock(w) ==
  /\ Kind[w] = "gateway" /\ tx[w].pc = "record"
  /\ Goto(w, "max")
  /\ UNCHANGED <<up, disk, latest, row, rowLock, versions, snapshot, used>>

\* FileRepository.upsert: INSERT ... ON CONFLICT DO UPDATE locks the row either way.
Upsert(w) ==
  /\ Kind[w] = "gateway" /\ tx[w].pc = "record"
  /\ rowLock = NoWriter /\ rowLock' = w
  /\ Goto(w, "max")
  /\ UNCHANGED <<up, disk, latest, row, versions, snapshot, used>>

\* record_sandbox_file looks for the row without locking it.
SelectRow(w) ==
  /\ Kind[w] = "runtime" /\ tx[w].pc = "record"
  /\ tx' = [tx EXCEPT ![w].pc = "flush", ![w].found = row.exists,
                      ![w].seen = row.size, ![w].gone = row.deleted]
  /\ UNCHANGED <<up, disk, latest, database, snapshot, used>>

\* The mapper writes the columns that differ from what it has read, and nothing if none do.
Touches(w) == ~tx[w].found \/ tx[w].gone \/ tx[w].seen # Size[w]

FlushRow(w) ==
  /\ Kind[w] = "runtime" /\ tx[w].pc = "flush"
  /\ Touches(w) => rowLock = NoWriter
  /\ IF ~tx[w].found /\ row.exists
     THEN Goto(w, "lost") /\ UNCHANGED rowLock          \* uq_session_file_path
     ELSE /\ Goto(w, "max")
          /\ rowLock' = IF Touches(w) THEN w ELSE rowLock
  /\ UNCHANGED <<up, disk, latest, row, versions, snapshot, used>>

\* The newest committed version plus one.  A large content goes to its snapshot file now.
NextVersion(w) ==
  /\ tx[w].pc = "max"
  /\ LET n == IF versions = {} THEN 1 ELSE Newest.num + 1
     IN /\ tx' = [tx EXCEPT ![w].pc = "insert", ![w].next = n]
        /\ snapshot' = IF Kind[w] = "gateway" /\ Size[w] >= Large
                       THEN [snapshot EXCEPT ![n] = w] ELSE snapshot
  /\ UNCHANGED <<up, disk, latest, database, used>>

EndTx_KeepsLock(w, pc) ==
  /\ Goto(w, pc)
  /\ rowLock' = IF rowLock = w /\ pc = "done" THEN NoWriter ELSE rowLock

\* The transaction is over: its lock goes with it.
EndTx(w, pc) ==
  /\ Goto(w, pc)
  /\ rowLock' = IF rowLock = w THEN NoWriter ELSE rowLock

\* A failure is swallowed by both recorders.  The runtime's returns False; the gateway's leaves
\* the aborted transaction to the step, which fails with it.
Fail(w) ==
  /\ EndTx(w, IF Kind[w] = "runtime" THEN "lost" ELSE "failed")
  /\ UNCHANGED <<row, versions>>

InsertVersion_NoKey(w) ==
  /\ tx[w].pc = "insert"
  /\ Goto(w, "commit") /\ UNCHANGED database
  /\ UNCHANGED <<up, disk, latest, snapshot, used>>

\* uq_file_version_num: wait for an uncommitted row with the number, fail on a committed one.
InsertVersion(w) ==
  /\ tx[w].pc = "insert"
  /\ \A v \in Writers \ {w} : ~(tx[v].pc = "commit" /\ tx[v].next = tx[w].next)
  /\ IF tx[w].next \in Numbers
     THEN Fail(w)
     ELSE Goto(w, "commit") /\ UNCHANGED database
  /\ UNCHANGED <<up, disk, latest, snapshot, used>>

\* A version of the gateway has its diff in the row, or in a snapshot file when it is large; one of
\* the runtime has none.
Diff(w) == IF Kind[w] = "runtime" THEN "none" ELSE IF Size[w] >= Large THEN "snapshot" ELSE "inline"

RowAfter(w) ==
  LET orm == Kind[w] = "runtime" /\ tx[w].found
  IN [exists  |-> TRUE,
      deleted |-> orm /\ ~tx[w].gone /\ row.deleted,
      size    |-> IF orm /\ tx[w].seen = Size[w] THEN row.size ELSE Size[w]]

Commit(w) ==
  /\ tx[w].pc = "commit"
  /\ versions' = versions \cup {[num |-> tx[w].next, by |-> w, diff |-> Diff(w)]}
  /\ row' = RowAfter(w)
  /\ EndTx(w, "done")
  /\ UNCHANGED <<up, disk, latest, snapshot, used>>

\* The database fails somewhere in the transaction.
Abort(w) ==
  /\ tx[w].pc \in InTx
  /\ Fail(w)
  /\ Happens("error")
  /\ UNCHANGED <<up, disk, latest, snapshot>>

-----------------------------------------------------------------------------
(* Reading and deleting it                                                 *)

CopyAt_RootFirst(p) == IF disk["root"] # NoWriter THEN disk["root"] ELSE disk[p]
\* /fs/raw, and the same rule locally: the session's copy, else one in the root directory.
CopyAt(p) == IF disk[p] # NoWriter THEN disk[p] ELSE disk["root"]

\* StreamFileContentUseCase: from the daemon when it is healthy, else from the gateway's directory.
Served == CopyAt(Place("gateway"))

\* DeleteFileUseCase: a soft delete, which waits for the row's lock.
DeleteFile ==
  /\ row.exists /\ ~row.deleted /\ rowLock = NoWriter
  /\ row' = [row EXCEPT !.deleted = TRUE]
  /\ Happens("delete")
  /\ UNCHANGED <<up, disk, latest, tx, rowLock, versions, snapshot>>

\* The daemon goes away and comes back; its volume stays.
Outage ==
  /\ up' = ~up
  /\ IF up THEN Happens("outage") ELSE UNCHANGED used
  /\ UNCHANGED <<disk, latest, tx, database, snapshot>>

Record(w) == \/ ReadOld(w) \/ WriteFile(w) \/ Upsert(w) \/ SelectRow(w) \/ FlushRow(w)
             \/ NextVersion(w) \/ InsertVersion(w) \/ Commit(w)

FileNext == DeleteFile \/ Outage \/ \E w \in Writers : Record(w) \/ Abort(w)

\* Both programs go on with a call they have begun.
FileFairness == \A w \in Writers : WF_fileVars(Record(w))
FileSpec     == FileInit /\ [][FileNext]_fileVars /\ FileFairness

-----------------------------------------------------------------------------
(* Properties                                                              *)

Settled == {"done", "lost", "failed"}

\* Types of the state.
FileTypeOK ==
  /\ up \in BOOLEAN
  /\ disk \in [Places -> Writers \cup {NoWriter, "legacy"}]
  /\ {latest, rowLock} \subseteq Writers \cup {NoWriter}
  /\ tx \in [Writers -> [pc : {"idle", "write", "record", "flush"} \cup InTx \cup Settled,
                         at : Places, found : BOOLEAN, seen : Nat, gone : BOOLEAN,
                         next : 0..Cardinality(Writers)]]
  /\ row \in [exists : BOOLEAN, deleted : BOOLEAN, size : Nat]
  /\ versions \subseteq [num : 1..Cardinality(Writers), by : Writers, diff : {"none", "inline", "snapshot"}]

\* Versions are numbered 1, 2, ... without a gap or a duplicate, whichever program records them.
VersionsGapless ==
  /\ Numbers = 1..Cardinality(versions)
  /\ \A u, v \in versions : u.num = v.num => u = v

\* The gateway's writers serialize on the files row: one of them fails only by an error, an outage
\* or a writer of the runtime, and while only they write, the row describes the newest version.
GatewayWritersSerialize ==
  (\A w \in Writers : Kind[w] = "runtime" => tx[w].pc = "idle") =>
    /\ used.error = 0 /\ used.outage = 0 => \A w \in Writers : tx[w].pc # "failed"
    /\ versions # {} => row.exists /\ row.size = Size[Newest.by]

\* A version that points to a snapshot file finds its own content there.
SnapshotIsOwn == \A v \in versions : v.diff = "snapshot" => snapshot[v.num] = v.by

\* What storage_key of a version leads to: the file of its number as it is now; else its own row.
Shown(v) == IF v.diff = "snapshot" THEN snapshot[v.num] ELSE v.by

\* The versions of the file are a log: each write that is recorded gets the next number, and what is
\* shown for a number stays as it is, though the two programs number and write snapshots on their own.
History == INSTANCE VersionLog
           WITH log <- {[num |-> v.num, content |-> Shown(v)] : v \in versions}
VersionLogSpec == History!Spec

\* While every write went to the place that is asked now, a preview delivers the last one, recorded
\* or not, and never the older copy in the root directory.  (What the runtime writes without the
\* daemon is recorded, and no preview delivers it: see README.)
PreviewIsLatest ==
  /\ row.exists /\ ~row.deleted
  /\ \A p \in Copies \ {Place("gateway")} : disk[p] = NoWriter
  => Served = latest

\* Every write that has begun is recorded or given up: waiting for the row and for a version number
\* makes no cycle between the two programs.
RecordingEnds == \A w \in Writers : tx[w].pc = "record" ~> tx[w].pc \in Settled

=============================================================================
