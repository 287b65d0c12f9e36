------------------------- MODULE FileVersionsProofs -------------------------
(* Theorems about FileVersions, for any number of writers of both programs *)
(* and contents of any size.                                               *)
EXTENDS FileVersions, FiniteSetTheorems, TLAPS

\* There are finitely many writers, each of the gateway or of the runtime.
Given == /\ IsFiniteSet(Writers) /\ NoWriter \notin Writers
         /\ Kind \in [Writers -> {"gateway", "runtime"}]
         /\ Size \in [Writers -> Nat]

Count   == Cardinality(versions)
Writer  == [pc : {"idle", "write", "record", "flush"} \cup InTx \cup Settled,
            at : Places, found : BOOLEAN, seen : Nat, gone : BOOLEAN,
            next : 0..Cardinality(Writers)]
Version == [num : 1..Cardinality(Writers), by : Writers, diff : {"none", "inline", "snapshot"}]

\* Every committed version is that of a writer that is done, each of which has one.
Counted ==
  /\ IsFiniteSet(versions) /\ VersionsGapless
  /\ \A v \in versions : tx[v.by].pc = "done"
  /\ \A u, v \in versions : u.by = v.by => u = v

\* Only the number after the newest can be inserted, and by one transaction at a time.
Numbering ==
  /\ \A w \in Writers : tx[w].pc \in {"insert", "commit"} => tx[w].next \in 1..(Count + 1)
  /\ \A w \in Writers : tx[w].pc = "commit" => tx[w].next = Count + 1
  /\ \A v, w \in Writers : tx[v].pc = "commit" /\ tx[w].pc = "commit" => v = w

\* A transaction of the gateway holds the row from the number it takes to its end.
Locked == \A w \in Writers : Kind[w] = "gateway" /\ tx[w].pc \in InTx => rowLock = w

\* Whoever is about to insert a version with a snapshot still finds its own in the file.
Snapshots ==
  /\ DOMAIN snapshot = 1..Cardinality(Writers)
  /\ SnapshotIsOwn
  /\ \A w \in Writers :
       Kind[w] = "gateway" /\ Size[w] >= Large /\ tx[w].pc \in {"insert", "commit"}
         => snapshot[tx[w].next] = w

OnlyGateway == \A w \in Writers : Kind[w] = "runtime" => tx[w].pc = "idle"

\* Among writers of the gateway a number once taken stays the next one.
Serial ==
  /\ used \in [outage : Nat, delete : Nat, error : Nat]
  /\ used.outage = 0 => up
  /\ OnlyGateway =>
       /\ used.error = 0 /\ used.outage = 0 => \A w \in Writers : tx[w].pc # "failed"
       /\ \A w \in Writers : tx[w].pc = "insert" => tx[w].next = Count + 1
       /\ versions # {} => row.exists /\ row.size = Size[Newest.by]

\* What is being recorded, or was, has been written, and is in a place that was asked.
Written ==
  /\ row.exists \/ (\E w \in Writers : tx[w].pc \in {"record", "flush"} \cup InTx) => latest # NoWriter
  /\ latest # NoWriter => \E p \in Copies : disk[p] = latest
  /\ \A w \in Writers : tx[w].at # "root"

\* The inductive invariant.
FileInv == FileTypeOK /\ Counted /\ Numbering /\ Locked /\ Snapshots /\ Serial

-----------------------------------------------------------------------------
(* Versions                                                                *)

\* Who is not done can still commit a version: there are fewer versions than writers.
LEMMA Room ==
  ASSUME Given, FileTypeOK, Counted, NEW w \in Writers, tx[w].pc # "done"
  PROVE  Count \in Nat /\ Cardinality(Writers) \in Nat /\ Count + 1 <= Cardinality(Writers)
<1>. DEFINE f == [v \in versions |-> v.by]
            T == Writers \ {w}
<1>1. f \in [versions -> T]
  <2>1. ASSUME NEW v \in versions PROVE v.by \in T
    <3>1. v.by \in Writers  BY DEF FileTypeOK
    <3>. QED  BY <3>1 DEF Counted
  <2>. QED  BY <2>1
<1>2. \A u, v \in versions : f[u] = f[v] => u = v  BY DEF Counted
<1>3. f \in Injection(versions, T)  BY <1>1, <1>2 DEF Injection, IsInjective
<1>4. IsFiniteSet(T) /\ Cardinality(T) = Cardinality(Writers) - 1
  BY FS_RemoveElement DEF Given
<1>5. Cardinality(versions) <= Cardinality(T)  BY <1>3, <1>4, FS_Injection
<1>6. Cardinality(versions) \in Nat /\ Cardinality(Writers) \in Nat
  BY FS_CardinalityType DEF Counted, Given
<1>. QED  BY <1>4, <1>5, <1>6 DEF Count

\* The newest version is the one with the greatest number.
LEMMA NewestOf ==
  ASSUME NEW V, NEW x \in V, \A v \in V : v.num \in Nat /\ v.num <= x.num,
         \A u, v \in V : u.num = v.num => u = v
  PROVE  (CHOOSE v \in V : \A u \in V : u.num <= v.num) = x
<1>1. ASSUME NEW v \in V, \A u \in V : u.num <= v.num PROVE v = x
  <2>1. v.num = x.num  BY <1>1
  <2>. QED  BY <2>1
<1>. QED  BY <1>1

\* The number after the newest is the number of versions plus one.
LEMMA NextNumber ==
  ASSUME Counted, FileTypeOK, versions # {}
  PROVE  Newest.num + 1 = Count + 1
<1>1. Count \in Nat  BY FS_CardinalityType DEF Counted, Count
<1>2. \A v \in versions : v.num \in 1..Count  BY DEF Counted, VersionsGapless, Numbers, Count
<1>3. Count \in 1..Count  BY <1>1, <1>2
<1>4. PICK x \in versions : x.num = Count
  BY <1>3 DEF Counted, VersionsGapless, Numbers, Count
<1>5. \A v \in versions : v.num \in Nat /\ v.num <= x.num  BY <1>1, <1>2, <1>4
<1>6. Newest = x  BY <1>5, NewestOf DEF Newest, Counted, VersionsGapless
<1>. QED  BY <1>4, <1>6

-----------------------------------------------------------------------------
(* Moves of a writer                                                       *)

\* A writer that goes on leaves the others where they are.
LEMMA Moves ==
  ASSUME FileTypeOK, NEW w \in Writers, NEW pc \in {"write", "record", "flush"} \cup InTx \cup Settled,
         Goto(w, pc)
  PROVE  /\ tx' \in [Writers -> Writer]
         /\ tx'[w].pc = pc /\ tx'[w].next = tx[w].next
         /\ \A v \in Writers \ {w} : tx'[v] = tx[v]
<1>1. tx \in [Writers -> Writer] /\ tx[w] \in Writer  BY DEF FileTypeOK, Writer
<1>2. [tx[w] EXCEPT !.pc = pc] \in Writer /\ [tx[w] EXCEPT !.pc = pc].pc = pc
      /\ [tx[w] EXCEPT !.pc = pc].next = tx[w].next
  BY <1>1 DEF Writer
<1>3. tx' = [tx EXCEPT ![w] = [tx[w] EXCEPT !.pc = pc]]  BY DEF Goto
<1>. QED  BY <1>1, <1>2, <1>3

\* A transaction that ends releases no lock but its own.
LEMMA TxEnds ==
  ASSUME FileTypeOK, NEW w \in Writers, NEW pc \in Settled, EndTx(w, pc)
  PROVE  /\ Goto(w, pc) /\ rowLock' \in Writers \cup {NoWriter}
         /\ \A v \in Writers \ {w} : rowLock = v => rowLock' = v
BY DEF EndTx, FileTypeOK

\* A writer that moves outside of the numbering, and does not end in success, changes nothing for
\* the versions.
LEMMA Quiet ==
  ASSUME Given, FileInv, NEW w \in Writers, tx[w].pc # "done", UNCHANGED <<versions, snapshot>>,
         tx'[w].pc \notin {"insert", "commit"},
         Kind[w] = "gateway" /\ tx'[w].pc = "max" => rowLock' = w,
         \A v \in Writers \ {w} : tx'[v] = tx[v],
         \A v \in Writers \ {w} : rowLock = v => rowLock' = v
  PROVE  Counted' /\ Numbering' /\ Locked' /\ Snapshots'
<1>. USE DEF FileInv
<1>1. Count' = Count /\ VersionsGapless'  BY DEF Count, Counted, VersionsGapless, Numbers
<1>2. ASSUME NEW v \in versions PROVE v.by \in Writers \ {w}
  <2>1. v.by \in Writers  BY DEF FileTypeOK
  <2>. QED  BY <2>1 DEF Counted
<1>3. Counted'  BY <1>1, <1>2 DEF Counted
<1>4. Numbering'
  <2>1. ASSUME NEW v \in Writers, tx'[v].pc \in {"insert", "commit"} PROVE tx'[v] = tx[v]
    BY <2>1
  <2>. QED  BY <1>1, <2>1 DEF Numbering
<1>5. Locked'
  <2>. SUFFICES ASSUME NEW v \in Writers, Kind[v] = "gateway", tx'[v].pc \in InTx
                PROVE  rowLock' = v
    BY DEF Locked
  <2>1. CASE v = w  BY <2>1 DEF InTx
  <2>2. CASE v # w
    <3>1. tx[v].pc \in InTx  BY <2>2
    <3>. QED  BY <2>2, <3>1 DEF Locked
  <2>. QED  BY <2>1, <2>2
<1>6. Snapshots'
  <2>1. SnapshotIsOwn'  BY DEF Snapshots, SnapshotIsOwn
  <2>2. ASSUME NEW v \in Writers, tx'[v].pc \in {"insert", "commit"} PROVE tx'[v] = tx[v]
    BY <2>2
  <2>. QED  BY <2>1, <2>2 DEF Snapshots
<1>. QED  BY <1>3, <1>4, <1>5, <1>6

\* Nor does it change how the gateway's writers serialize, if it did not fail among them.
LEMMA QuietSerial ==
  ASSUME Given, FileInv, NEW w \in Writers, tx[w].pc # "done",
         UNCHANGED <<up, row, versions, used>>,
         tx'[w].pc # "insert", tx'[w].pc # "idle",
         \A v \in Writers \ {w} : tx'[v] = tx[v],
         tx'[w].pc = "failed" /\ OnlyGateway => ~(used.error = 0 /\ used.outage = 0)
  PROVE  Serial'
<1>. USE DEF FileInv
<1>1. Count' = Count /\ Newest' = Newest  BY DEF Count, Newest
<1>2. SUFFICES ASSUME OnlyGateway'
               PROVE  /\ used.error = 0 /\ used.outage = 0 => \A v \in Writers : tx'[v].pc # "failed"
                      /\ \A v \in Writers : tx'[v].pc = "insert" => tx'[v].next = Count + 1
                      /\ versions # {} => row.exists /\ row.size = Size[Newest.by]
  BY <1>1 DEF Serial
<1>3. OnlyGateway
  <2>1. Kind[w] # "runtime"  BY <1>2 DEF OnlyGateway
  <2>. QED  BY <1>2, <2>1 DEF OnlyGateway
<1>. QED  BY <1>3 DEF Serial

-----------------------------------------------------------------------------
(* The invariant is inductive                                              *)

\* The initial state satisfies it.
LEMMA FileInvInit == Given /\ FileInit => FileInv
<1>. SUFFICES ASSUME Given, FileInit PROVE FileInv  OBVIOUS
<1>1. Cardinality(Writers) \in Nat  BY FS_CardinalityType DEF Given
<1>2. FileTypeOK
  <2>1. Idle \in Writer  BY <1>1 DEF Idle, Writer, Places, Copies
  <2>2. tx \in [Writers -> Writer]  BY <2>1 DEF FileInit
  <2>3. disk \in [Places -> Writers \cup {NoWriter, "legacy"}]  BY DEF FileInit
  <2>. QED  BY <2>2, <2>3 DEF FileInit, FileTypeOK, Writer
<1>3. ASSUME NEW w \in Writers PROVE tx[w].pc = "idle"  BY DEF FileInit, Idle
<1>4. Count = 0 /\ IsFiniteSet(versions)  BY FS_EmptySet DEF FileInit, Count
<1>5. Numbers = {} /\ versions = {}  BY DEF FileInit, Numbers
<1>6. Counted  BY <1>4, <1>5 DEF Counted, VersionsGapless, Count
<1>7. Numbering /\ Locked  BY <1>3 DEF Numbering, Locked, InTx
<1>8. Snapshots
  <2>1. DOMAIN snapshot = 1..Cardinality(Writers)  BY DEF FileInit
  <2>. QED  BY <1>3, <1>5, <2>1 DEF Snapshots, SnapshotIsOwn
<1>9. Serial  BY <1>3, <1>5 DEF FileInit, Serial
<1>. QED  BY <1>2, <1>6, <1>7, <1>8, <1>9 DEF FileInv

\* The gateway's tool chooses its place.
LEMMA ReadOldInv ==
  ASSUME Given, FileInv, NEW w \in Writers, ReadOld(w)
  PROVE  FileInv'
<1>. USE DEF FileInv
<1>1. /\ tx[w].pc = "idle" /\ tx' = [tx EXCEPT ![w].pc = "write", ![w].at = Place("gateway")]
      /\ UNCHANGED <<up, disk, latest, row, rowLock, versions, snapshot, used>>
  BY DEF ReadOld, database
<1>2. /\ tx' \in [Writers -> Writer] /\ tx'[w].pc = "write"
      /\ \A v \in Writers \ {w} : tx'[v] = tx[v]
  <2>1. tx \in [Writers -> Writer] /\ tx[w] \in Writer  BY DEF FileTypeOK, Writer
  <2>2. [tx[w] EXCEPT !.pc = "write", !.at = Place("gateway")] \in Writer
        /\ [tx[w] EXCEPT !.pc = "write", !.at = Place("gateway")].pc = "write"
    BY <2>1 DEF Writer, Place, Places, Copies
  <2>3. tx' = [tx EXCEPT ![w] = [tx[w] EXCEPT !.pc = "write", !.at = Place("gateway")]]  BY <1>1
  <2>. QED  BY <2>1, <2>2, <2>3
<1>3. FileTypeOK'  BY <1>1, <1>2 DEF FileTypeOK, Writer
<1>4. Counted' /\ Numbering' /\ Locked' /\ Snapshots'  BY <1>1, <1>2, Quiet
<1>5. Serial'  BY <1>1, <1>2, QuietSerial
<1>. QED  BY <1>3, <1>4, <1>5

\* A tool writes the file, or finds the daemon gone, which takes an outage.
LEMMA WriteFileInv ==
  ASSUME Given, FileInv, NEW w \in Writers, WriteFile(w)
  PROVE  FileInv'
<1>. USE DEF FileInv
<1>1. /\ tx[w].pc \in {"idle", "write"}
      /\ UNCHANGED <<up, row, rowLock, versions, snapshot, used>>
  BY DEF WriteFile, database
<1>. DEFINE at == IF Kind[w] = "gateway" THEN tx[w].at ELSE Place("runtime")
<1>2. \/ at = "daemon" /\ ~up /\ Goto(w, "failed") /\ UNCHANGED <<disk, latest>>
      \/ Put(at, w) /\ Goto(w, "record")
  BY DEF WriteFile
<1>3. PICK pc \in {"failed", "record"} : Goto(w, pc) /\ (pc = "failed" => ~up)  BY <1>2
<1>4. /\ tx' \in [Writers -> Writer] /\ tx'[w].pc = pc
      /\ \A v \in Writers \ {w} : tx'[v] = tx[v]
  BY <1>3, Moves DEF Settled
<1>5. FileTypeOK'
  <2>1. disk' \in [Places -> Writers \cup {NoWriter, "legacy"}]  BY <1>2 DEF Put, FileTypeOK
  <2>2. latest' \in Writers \cup {NoWriter}  BY <1>2 DEF Put, FileTypeOK
  <2>. QED  BY <1>1, <1>4, <2>1, <2>2 DEF FileTypeOK, Writer
<1>6. Counted' /\ Numbering' /\ Locked' /\ Snapshots'
  BY <1>1, <1>3, <1>4, Quiet
<1>7. Serial'
  <2>1. tx'[w].pc = "failed" => used.outage # 0  BY <1>3, <1>4 DEF Serial
  <2>. QED  BY <1>1, <1>3, <1>4, <2>1, QuietSerial
<1>. QED  BY <1>5, <1>6, <1>7

\* The gateway takes the row.
LEMMA UpsertInv ==
  ASSUME Given, FileInv, NEW w \in Writers, Upsert(w)
  PROVE  FileInv'
<1>. USE DEF FileInv
<1>1. /\ tx[w].pc = "record" /\ rowLock = NoWriter /\ rowLock' = w /\ Goto(w, "max")
      /\ UNCHANGED <<up, disk, latest, row, versions, snapshot, used>>
  BY DEF Upsert
<1>2. /\ tx' \in [Writers -> Writer] /\ tx'[w].pc = "max"
      /\ \A v \in Writers \ {w} : tx'[v] = tx[v]
  BY <1>1, Moves DEF InTx
<1>3. FileTypeOK'  BY <1>1, <1>2 DEF FileTypeOK, Writer
<1>4. \A v \in Writers \ {w} : rowLock = v => rowLock' = v  BY <1>1 DEF Given
<1>5. Counted' /\ Numbering' /\ Locked' /\ Snapshots'  BY <1>1, <1>2, <1>4, Quiet
<1>6. Serial'  BY <1>1, <1>2, QuietSerial
<1>. QED  BY <1>3, <1>5, <1>6

\* The runtime looks for the row.
LEMMA SelectRowInv ==
  ASSUME Given, FileInv, NEW w \in Writers, SelectRow(w)
  PROVE  FileInv'
<1>. USE DEF FileInv
<1>1. /\ tx[w].pc = "record"
      /\ tx' = [tx EXCEPT ![w].pc = "flush", ![w].found = row.exists,
                          ![w].seen = row.size, ![w].gone = row.deleted]
      /\ UNCHANGED <<up, disk, latest, row, rowLock, versions, snapshot, used>>
  BY DEF SelectRow, database
<1>. DEFINE m == [tx[w] EXCEPT !.pc = "flush", !.found = row.exists,
                               !.seen = row.size, !.gone = row.deleted]
<1>2. /\ tx' \in [Writers -> Writer] /\ tx'[w].pc = "flush"
      /\ \A v \in Writers \ {w} : tx'[v] = tx[v]
  <2>1. tx \in [Writers -> Writer] /\ tx[w] \in Writer  BY DEF FileTypeOK, Writer
  <2>2. row.exists \in BOOLEAN /\ row.deleted \in BOOLEAN /\ row.size \in Nat  BY DEF FileTypeOK
  <2>3. m \in Writer /\ m.pc = "flush"  BY <2>1, <2>2 DEF Writer
  <2>4. tx' = [tx EXCEPT ![w] = m]  BY <1>1
  <2>. QED  BY <2>1, <2>3, <2>4
<1>3. FileTypeOK'  BY <1>1, <1>2 DEF FileTypeOK, Writer
<1>4. Counted' /\ Numbering' /\ Locked' /\ Snapshots'  BY <1>1, <1>2, Quiet
<1>5. Serial'  BY <1>1, <1>2, QuietSerial
<1>. QED  BY <1>3, <1>4, <1>5

\* The runtime writes the row, where it has to, or meets the one it did not see.
LEMMA FlushRowInv ==
  ASSUME Given, FileInv, NEW w \in Writers, FlushRow(w)
  PROVE  FileInv'
<1>. USE DEF FileInv
<1>1. /\ Kind[w] = "runtime" /\ tx[w].pc = "flush"
      /\ UNCHANGED <<up, disk, latest, row, versions, snapshot, used>>
      /\ \/ rowLock' = rowLock
         \/ rowLock = NoWriter /\ rowLock' = w
  BY DEF FlushRow
<1>2. PICK pc \in {"lost", "max"} : Goto(w, pc)  BY DEF FlushRow
<1>3. /\ tx' \in [Writers -> Writer] /\ tx'[w].pc = pc
      /\ \A v \in Writers \ {w} : tx'[v] = tx[v]
  BY <1>2, Moves DEF InTx, Settled
<1>4. FileTypeOK'  BY <1>1, <1>3 DEF FileTypeOK, Writer
<1>5. \A v \in Writers \ {w} : rowLock = v => rowLock' = v  BY <1>1 DEF Given
<1>6. Counted' /\ Numbering' /\ Locked' /\ Snapshots'
  BY <1>1, <1>2, <1>3, <1>5, Quiet
<1>7. Serial'  BY <1>1, <1>2, <1>3, QuietSerial
<1>. QED  BY <1>4, <1>6, <1>7

\* A number is taken: no version has it yet, nor has anybody else of the gateway its file.
LEMMA NextVersionInv ==
  ASSUME Given, FileInv, NEW w \in Writers, NextVersion(w)
  PROVE  FileInv'
<1>. USE DEF FileInv
<1>. DEFINE n == IF versions = {} THEN 1 ELSE Newest.num + 1
<1>1. /\ tx[w].pc = "max" /\ tx' = [tx EXCEPT ![w].pc = "insert", ![w].next = n]
      /\ snapshot' = IF Kind[w] = "gateway" /\ Size[w] >= Large
                     THEN [snapshot EXCEPT ![n] = w] ELSE snapshot
      /\ UNCHANGED <<up, disk, latest, row, rowLock, versions, used>>
  BY DEF NextVersion, database
<1>2. n = Count + 1
  <2>1. CASE versions = {}  BY <2>1, FS_EmptySet DEF Count
  <2>2. CASE versions # {}  BY <2>2, NextNumber
  <2>. QED  BY <2>1, <2>2
<1>3. Count \in Nat /\ Cardinality(Writers) \in Nat /\ Count + 1 <= Cardinality(Writers)
  BY <1>1, Room
<1>4. n \in 1..Cardinality(Writers)  BY <1>2, <1>3
<1>. HIDE DEF n
<1>5. /\ tx' \in [Writers -> Writer] /\ tx'[w].pc = "insert" /\ tx'[w].next = n
      /\ \A v \in Writers \ {w} : tx'[v] = tx[v]
  <2>1. tx \in [Writers -> Writer] /\ tx[w] \in Writer  BY DEF FileTypeOK, Writer
  <2>2. n \in 0..Cardinality(Writers)  BY <1>3, <1>4
  <2>3. [tx[w] EXCEPT !.pc = "insert", !.next = n] \in Writer
        /\ [tx[w] EXCEPT !.pc = "insert", !.next = n].pc = "insert"
        /\ [tx[w] EXCEPT !.pc = "insert", !.next = n].next = n
    BY <2>1, <2>2 DEF Writer, InTx
  <2>4. tx' = [tx EXCEPT ![w] = [tx[w] EXCEPT !.pc = "insert", !.next = n]]  BY <1>1
  <2>. QED  BY <2>1, <2>3, <2>4
<1>6. FileTypeOK'  BY <1>1, <1>5 DEF FileTypeOK, Writer
<1>7. Count' = Count  BY <1>1 DEF Count
<1>8. Counted'
  <2>1. VersionsGapless'  BY <1>1 DEF Counted, VersionsGapless, Numbers
  <2>2. ASSUME NEW v \in versions PROVE v.by \in Writers \ {w}
    <3>1. v.by \in Writers  BY DEF FileTypeOK
    <3>. QED  BY <1>1, <3>1 DEF Counted
  <2>. QED  BY <1>1, <1>5, <2>1, <2>2 DEF Counted
<1>9. Numbering'
  <2>1. tx'[w].next \in 1..(Count + 1)  BY <1>2, <1>3, <1>5
  <2>2. ASSUME NEW v \in Writers, tx'[v].pc = "commit" PROVE v # w /\ tx'[v] = tx[v]
    BY <1>5, <2>2
  <2>. QED  BY <1>5, <1>7, <2>1, <2>2 DEF Numbering
<1>10. Locked'  BY <1>1, <1>5 DEF Locked, InTx
<1>11. Snapshots'
  <2>1. DOMAIN snapshot' = 1..Cardinality(Writers)  BY <1>1 DEF Snapshots
  <2>2. ASSUME NEW v \in versions PROVE v.num # n
    <3>1. v.num \in 1..Count  BY DEF Counted, VersionsGapless, Numbers, Count
    <3>. QED  BY <1>2, <1>3, <3>1
  <2>3. SnapshotIsOwn'
    <3>1. \A v \in versions : v.diff = "snapshot" => snapshot'[v.num] = v.by
      BY <1>1, <2>2 DEF Snapshots, SnapshotIsOwn
    <3>. QED  BY <1>1, <3>1 DEF SnapshotIsOwn
  <2>4. ASSUME NEW v \in Writers, Kind[v] = "gateway", Size[v] >= Large,
               tx'[v].pc \in {"insert", "commit"}
        PROVE  snapshot'[tx'[v].next] = v
    <3>1. CASE v = w  BY <1>1, <1>4, <1>5, <2>4, <3>1 DEF Snapshots
    <3>2. CASE v # w
      <4>1. tx'[v] = tx[v] /\ snapshot[tx[v].next] = v
        BY <1>5, <2>4, <3>2 DEF Snapshots
      <4>2. CASE Kind[w] = "gateway"
        <5>1. rowLock = w  BY <1>1, <4>2 DEF Locked, InTx
        <5>2. rowLock = v  BY <2>4, <4>1 DEF Locked, InTx
        <5>. QED  BY <3>2, <5>1, <5>2
      <4>3. CASE Kind[w] # "gateway"  BY <1>1, <4>1, <4>3
      <4>. QED  BY <4>2, <4>3
    <3>. QED  BY <3>1, <3>2
  <2>. QED  BY <2>1, <2>3, <2>4 DEF Snapshots
<1>12. Serial'
  <2>1. OnlyGateway' => OnlyGateway
    <3>1. OnlyGateway' => Kind[w] # "runtime"  BY <1>5 DEF OnlyGateway
    <3>. QED  BY <1>5, <3>1 DEF OnlyGateway
  <2>2. Newest' = Newest  BY <1>1 DEF Newest
  <2>. QED  BY <1>1, <1>2, <1>5, <1>7, <2>1, <2>2 DEF Serial
<1>. QED  BY <1>6, <1>8, <1>9, <1>10, <1>11, <1>12

\* A failing transaction ends, and its step with it where it is the gateway's.
LEMMA Fails ==
  ASSUME Given, FileInv, NEW w \in Writers, tx[w].pc \in InTx, Fail(w), UNCHANGED <<up, disk, latest, snapshot>>
  PROVE  /\ FileTypeOK' /\ Counted' /\ Numbering' /\ Locked' /\ Snapshots'
         /\ tx'[w].pc \in {"lost", "failed"} /\ (tx'[w].pc = "failed" => Kind[w] # "runtime")
         /\ \A v \in Writers \ {w} : tx'[v] = tx[v]
         /\ UNCHANGED <<row, versions>>
<1>. USE DEF FileInv
<1>. DEFINE pc == IF Kind[w] = "runtime" THEN "lost" ELSE "failed"
<1>1. EndTx(w, pc) /\ pc \in {"lost", "failed"} /\ UNCHANGED <<row, versions>>  BY DEF Fail
<1>2. /\ Goto(w, pc) /\ rowLock' \in Writers \cup {NoWriter}
      /\ \A v \in Writers \ {w} : rowLock = v => rowLock' = v
  BY <1>1, TxEnds DEF Settled
<1>3. /\ tx' \in [Writers -> Writer] /\ tx'[w].pc = pc
      /\ \A v \in Writers \ {w} : tx'[v] = tx[v]
  BY <1>1, <1>2, Moves DEF Settled
<1>4. FileTypeOK'  BY <1>1, <1>2, <1>3 DEF FileTypeOK, Writer
<1>5. Counted' /\ Numbering' /\ Locked' /\ Snapshots'
  <2>1. tx[w].pc # "done"  BY DEF InTx
  <2>. QED  BY <1>1, <1>2, <1>3, <2>1, Quiet
<1>. QED  BY <1>1, <1>3, <1>4, <1>5

\* A number is inserted, unless a version has it: which nobody but the runtime can bring about.
LEMMA InsertVersionInv ==
  ASSUME Given, FileInv, NEW w \in Writers, InsertVersion(w)
  PROVE  FileInv'
<1>. USE DEF FileInv
<1>1. /\ tx[w].pc = "insert" /\ UNCHANGED <<up, disk, latest, snapshot, used>>
      /\ \A v \in Writers \ {w} : ~(tx[v].pc = "commit" /\ tx[v].next = tx[w].next)
  BY DEF InsertVersion
<1>2. Count \in Nat /\ Numbers = 1..Count  
  BY FS_CardinalityType DEF Counted, VersionsGapless, Count
<1>3. CASE tx[w].next \in Numbers
  <2>1. Fail(w)  BY <1>3 DEF InsertVersion
  <2>2. /\ FileTypeOK' /\ Counted' /\ Numbering' /\ Locked' /\ Snapshots'
        /\ tx'[w].pc \in {"lost", "failed"}
        /\ \A v \in Writers \ {w} : tx'[v] = tx[v]
        /\ UNCHANGED <<row, versions>>
    BY <1>1, <2>1, Fails DEF InTx
  <2>3. ~OnlyGateway
    <3>1. tx[w].next # Count + 1  BY <1>2, <1>3
    <3>. QED  BY <1>1, <3>1 DEF Serial
  <2>4. Serial'  BY <1>1, <2>2, <2>3, QuietSerial
  <2>. QED  BY <2>2, <2>4
<1>4. CASE tx[w].next \notin Numbers
  <2>1. Goto(w, "commit") /\ UNCHANGED <<row, rowLock, versions>>
    BY <1>4 DEF InsertVersion, database
  <2>2. /\ tx' \in [Writers -> Writer] /\ tx'[w].pc = "commit" /\ tx'[w].next = tx[w].next
        /\ \A v \in Writers \ {w} : tx'[v] = tx[v]
    BY <2>1, Moves DEF InTx
  <2>3. tx[w].next = Count + 1
    <3>1. tx[w].next \in 1..(Count + 1)  BY <1>1 DEF Numbering
    <3>. QED  BY <1>2, <1>4, <3>1
  <2>4. FileTypeOK'  BY <1>1, <2>1, <2>2 DEF FileTypeOK, Writer
  <2>5. Count' = Count  BY <2>1 DEF Count
  <2>6. Counted'
    <3>1. VersionsGapless'  BY <2>1 DEF Counted, VersionsGapless, Numbers
    <3>2. ASSUME NEW v \in versions PROVE v.by \in Writers \ {w}
      <4>1. v.by \in Writers  BY DEF FileTypeOK
      <4>. QED  BY <1>1, <4>1 DEF Counted
    <3>. QED  BY <2>1, <2>2, <3>1, <3>2 DEF Counted
  <2>7. Numbering'
    <3>1. tx'[w].next \in 1..(Count + 1)  BY <1>2, <2>2, <2>3
    <3>2. ASSUME NEW v \in Writers, v # w PROVE tx'[v].pc # "commit"
      <4>1. tx[v].pc # "commit"  BY <1>1, <2>3, <3>2 DEF Numbering
      <4>. QED  BY <2>2, <3>2, <4>1
    <3>. QED  BY <2>2, <2>3, <2>5, <3>1, <3>2 DEF Numbering
  <2>8. Locked'  BY <1>1, <2>1, <2>2 DEF Locked, InTx
  <2>9. Snapshots'
    <3>1. SnapshotIsOwn'  BY <1>1, <2>1 DEF Snapshots, SnapshotIsOwn
    <3>2. ASSUME NEW v \in Writers, tx'[v].pc \in {"insert", "commit"}
          PROVE  tx[v].pc \in {"insert", "commit"} /\ tx'[v].next = tx[v].next
      BY <1>1, <2>2, <3>2
    <3>. QED  BY <1>1, <3>1, <3>2 DEF Snapshots
  <2>10. Serial'
    <3>1. OnlyGateway' => OnlyGateway
      <4>1. OnlyGateway' => Kind[w] # "runtime"  BY <2>2 DEF OnlyGateway
      <4>. QED  BY <2>2, <4>1 DEF OnlyGateway
    <3>2. Newest' = Newest  BY <2>1 DEF Newest
    <3>. QED  BY <1>1, <2>1, <2>2, <2>5, <3>1, <3>2 DEF Serial
  <2>. QED  BY <2>4, <2>6, <2>7, <2>8, <2>9, <2>10
<1>. QED  BY <1>3, <1>4

\* The version is committed: it is the newest.
LEMMA CommitInv ==
  ASSUME Given, FileInv, NEW w \in Writers, Commit(w)
  PROVE  FileInv'
<1>. USE DEF FileInv
<1>. DEFINE x == [num |-> tx[w].next, by |-> w, diff |-> Diff(w)]
<1>1. /\ tx[w].pc = "commit" /\ versions' = versions \cup {x} /\ row' = RowAfter(w)
      /\ EndTx(w, "done") /\ UNCHANGED <<up, disk, latest, snapshot, used>>
  BY DEF Commit
<1>2. /\ Goto(w, "done") /\ rowLock' \in Writers \cup {NoWriter}
      /\ \A v \in Writers \ {w} : rowLock = v => rowLock' = v
  BY <1>1, TxEnds DEF Settled
<1>3. /\ tx' \in [Writers -> Writer] /\ tx'[w].pc = "done"
      /\ \A v \in Writers \ {w} : tx'[v] = tx[v]
  BY <1>2, Moves DEF Settled
<1>4. Count \in Nat /\ Cardinality(Writers) \in Nat /\ Count + 1 <= Cardinality(Writers)
  BY <1>1, Room
<1>5. x.num = Count + 1 /\ x.by = w  BY <1>1 DEF Numbering
<1>6. Numbers = 1..Count /\ \A v \in versions : v.num \in 1..Count
  BY DEF Counted, VersionsGapless, Numbers, Count
<1>7. x \notin versions  BY <1>4, <1>5, <1>6
<1>8. IsFiniteSet(versions') /\ Count' = Count + 1
  BY <1>1, <1>7, FS_AddElement DEF Counted, Count
<1>9. x \in Version
  <2>1. x.num \in 1..Cardinality(Writers)  BY <1>4, <1>5
  <2>. QED  BY <2>1 DEF Version, Diff
<1>10. FileTypeOK'
  <2>1. versions' \subseteq Version  BY <1>1, <1>9 DEF FileTypeOK, Version
  <2>2. row' \in [exists : BOOLEAN, deleted : BOOLEAN, size : Nat]
    <3>1. RowAfter(w).deleted \in BOOLEAN /\ RowAfter(w).size \in Nat
      BY DEF RowAfter, FileTypeOK, Given
    <3>. QED  BY <1>1, <3>1 DEF RowAfter
  <2>. QED  BY <1>1, <1>2, <1>3, <2>1, <2>2 DEF FileTypeOK, Writer, Version
<1>. HIDE DEF x
<1>11. ASSUME NEW v \in versions PROVE v.by \in Writers \ {w}
  <2>1. v.by \in Writers  BY DEF FileTypeOK
  <2>. QED  BY <1>1, <2>1 DEF Counted
<1>12. \A u, v \in versions' : u.num = v.num => u = v
  BY <1>1, <1>4, <1>5, <1>6 DEF Counted, VersionsGapless
<1>13. Numbers' = 1..(Count + 1)
  <2>1. Numbers' = Numbers \cup {x.num}  BY <1>1 DEF Numbers
  <2>. QED  BY <1>4, <1>5, <1>6, <2>1
<1>14. Counted'
  <2>1. VersionsGapless'  BY <1>8, <1>12, <1>13 DEF VersionsGapless, Count
  <2>2. \A v \in versions' : tx'[v.by].pc = "done"  BY <1>1, <1>3, <1>5, <1>11 DEF Counted
  <2>3. \A u, v \in versions' : u.by = v.by => u = v  BY <1>1, <1>5, <1>11 DEF Counted
  <2>. QED  BY <1>8, <2>1, <2>2, <2>3 DEF Counted
<1>15. Numbering'
  <2>1. ASSUME NEW v \in Writers, tx'[v].pc \in {"insert", "commit"}
        PROVE  v # w /\ tx'[v] = tx[v] /\ tx[v].pc = "insert"
    BY <1>1, <1>3, <2>1 DEF Numbering
  <2>2. ASSUME NEW v \in Writers, tx'[v].pc \in {"insert", "commit"}
        PROVE  tx'[v].next \in 1..(Count' + 1)
    <3>1. tx[v].next \in 1..(Count + 1)  BY <2>1, <2>2 DEF Numbering
    <3>. QED  BY <1>4, <1>8, <2>1, <2>2, <3>1
  <2>. QED  BY <2>1, <2>2 DEF Numbering
<1>16. Locked'
  <2>1. ASSUME NEW v \in Writers, tx'[v].pc \in InTx PROVE v # w /\ tx'[v] = tx[v]
    BY <1>3, <2>1 DEF InTx
  <2>. QED  BY <1>2, <2>1 DEF Locked
<1>17. Snapshots'
  <2>1. SnapshotIsOwn'
    <3>1. x.diff = "snapshot" => Kind[w] = "gateway" /\ Size[w] >= Large
      BY DEF x, Diff, Given
    <3>2. x.diff = "snapshot" => snapshot[x.num] = x.by
      BY <1>1, <1>5, <3>1 DEF Snapshots, x
    <3>. QED  BY <1>1, <3>2 DEF Snapshots, SnapshotIsOwn
  <2>2. ASSUME NEW v \in Writers, tx'[v].pc \in {"insert", "commit"}
        PROVE  tx'[v] = tx[v]
    BY <1>3, <2>2
  <2>. QED  BY <1>1, <2>1, <2>2 DEF Snapshots
<1>18. Serial'
  <2>. SUFFICES ASSUME OnlyGateway'
                PROVE  /\ used.error = 0 /\ used.outage = 0 => \A v \in Writers : tx'[v].pc # "failed"
                       /\ \A v \in Writers : tx'[v].pc # "insert"
                       /\ row'.exists /\ row'.size = Size[Newest'.by]
    BY <1>1 DEF Serial
  <2>1. OnlyGateway /\ Kind[w] = "gateway"
    <3>1. Kind[w] # "runtime"  BY <1>3 DEF OnlyGateway
    <3>. QED  BY <1>3, <3>1 DEF OnlyGateway, Given
  <2>2. used.error = 0 /\ used.outage = 0 => \A v \in Writers : tx'[v].pc # "failed"
    BY <1>3, <2>1 DEF Serial
  <2>3. ASSUME NEW v \in Writers PROVE tx'[v].pc # "insert"
    <3>. SUFFICES ASSUME tx'[v].pc = "insert" PROVE FALSE  OBVIOUS
    <3>1. v # w /\ tx[v].pc = "insert"  BY <1>3
    <3>2. Kind[v] = "gateway"  BY <2>1, <3>1 DEF OnlyGateway, Given
    <3>3. rowLock = v /\ rowLock = w  BY <1>1, <2>1, <3>1, <3>2 DEF Locked, InTx
    <3>. QED  BY <3>1, <3>3
  <2>4. Newest' = x
    <3>1. \A v \in versions' : v.num \in Nat /\ v.num <= x.num  BY <1>1, <1>4, <1>5, <1>6
    <3>. QED  BY <1>1, <1>12, <3>1, NewestOf DEF Newest
  <2>5. row'.exists /\ row'.size = Size[w]  BY <1>1, <2>1 DEF RowAfter
  <2>. QED  BY <1>5, <2>2, <2>3, <2>4, <2>5
<1>. QED  BY <1>10, <1>14, <1>15, <1>16, <1>17, <1>18

\* An outage, an error or a deletion is counted.
LEMMA Counts ==
  ASSUME Serial, NEW what \in {"outage", "delete", "error"}, Happens(what)
  PROVE  /\ used' \in [outage : Nat, delete : Nat, error : Nat]
         /\ used'[what] # 0
         /\ \A other \in {"outage", "delete", "error"} \ {what} : used'[other] = used[other]
<1>1. used \in [outage : Nat, delete : Nat, error : Nat]
      /\ used' = [used EXCEPT ![what] = @ + 1]
  BY DEF Serial, Happens
<1>2. CASE what = "outage"
  <2>1. used' = [used EXCEPT !.outage = @ + 1]  BY <1>1, <1>2
  <2>. QED  BY <1>1, <1>2, <2>1
<1>3. CASE what = "delete"
  <2>1. used' = [used EXCEPT !.delete = @ + 1]  BY <1>1, <1>3
  <2>. QED  BY <1>1, <1>3, <2>1
<1>4. CASE what = "error"
  <2>1. used' = [used EXCEPT !.error = @ + 1]  BY <1>1, <1>4
  <2>. QED  BY <1>1, <1>4, <2>1
<1>. QED  BY <1>2, <1>3, <1>4

\* The database fails.
LEMMA AbortInv ==
  ASSUME Given, FileInv, NEW w \in Writers, Abort(w)
  PROVE  FileInv'
<1>. USE DEF FileInv
<1>1. /\ tx[w].pc \in InTx /\ Fail(w) /\ Happens("error")
      /\ UNCHANGED <<up, disk, latest, snapshot>>
  BY DEF Abort
<1>2. /\ FileTypeOK' /\ Counted' /\ Numbering' /\ Locked' /\ Snapshots'
      /\ tx'[w].pc \in {"lost", "failed"}
      /\ \A v \in Writers \ {w} : tx'[v] = tx[v]
      /\ UNCHANGED <<row, versions>>
  BY <1>1, Fails
<1>3. /\ used' \in [outage : Nat, delete : Nat, error : Nat]
      /\ used'.error # 0 /\ used'.outage = used.outage
  BY <1>1, Counts
<1>4. Serial'
  <2>1. OnlyGateway' => OnlyGateway
    <3>1. OnlyGateway' => Kind[w] # "runtime"  BY <1>2 DEF OnlyGateway
    <3>. QED  BY <1>2, <3>1 DEF OnlyGateway
  <2>2. Count' = Count /\ Newest' = Newest  BY <1>2 DEF Count, Newest
  <2>. QED  BY <1>1, <1>2, <1>3, <2>1, <2>2 DEF Serial
<1>. QED  BY <1>2, <1>4

\* The file is deleted, or the daemon goes or comes back.
LEMMA EnvironmentInv ==
  ASSUME Given, FileInv, DeleteFile \/ Outage
  PROVE  FileInv'
<1>. USE DEF FileInv
<1>1. UNCHANGED <<disk, latest, tx, rowLock, versions, snapshot>>
  BY DEF DeleteFile, Outage, database
<1>2. Count' = Count /\ Newest' = Newest /\ (OnlyGateway' <=> OnlyGateway)
  BY <1>1 DEF Count, Newest, OnlyGateway
<1>3. Counted'  BY <1>1 DEF Counted, VersionsGapless, Numbers
<1>4. Numbering' /\ Locked'  BY <1>1, <1>2 DEF Numbering, Locked
<1>5. Snapshots'  BY <1>1 DEF Snapshots, SnapshotIsOwn
<1>6. CASE DeleteFile
  <2>1. row' = [row EXCEPT !.deleted = TRUE] /\ UNCHANGED up /\ Happens("delete")
    BY <1>6 DEF DeleteFile
  <2>2. row'.exists = row.exists /\ row'.size = row.size
        /\ row' \in [exists : BOOLEAN, deleted : BOOLEAN, size : Nat]
    BY <2>1 DEF FileTypeOK
  <2>3. FileTypeOK'  BY <1>1, <2>1, <2>2 DEF FileTypeOK
  <2>4. /\ used' \in [outage : Nat, delete : Nat, error : Nat]
        /\ used'.error = used.error /\ used'.outage = used.outage
    BY <2>1, Counts
  <2>5. Serial'  BY <1>1, <1>2, <2>1, <2>2, <2>4 DEF Serial
  <2>. QED  BY <1>3, <1>4, <1>5, <2>3, <2>5
<1>7. CASE Outage
  <2>1. up' = ~up /\ UNCHANGED row /\ (IF up THEN Happens("outage") ELSE UNCHANGED used)
    BY <1>7 DEF Outage, database
  <2>2. FileTypeOK'  BY <1>1, <2>1 DEF FileTypeOK
  <2>3. CASE up
    <3>1. /\ used' \in [outage : Nat, delete : Nat, error : Nat] /\ used'.outage # 0
      BY <2>1, <2>3, Counts
    <3>2. Serial'  BY <1>1, <1>2, <2>1, <3>1 DEF Serial
    <3>. QED  BY <1>3, <1>4, <1>5, <2>2, <3>2
  <2>4. CASE ~up
    <3>1. UNCHANGED used /\ used.outage # 0  BY <2>1, <2>4 DEF Serial
    <3>2. Serial'  BY <1>1, <1>2, <2>1, <3>1 DEF Serial
    <3>. QED  BY <1>3, <1>4, <1>5, <2>2, <3>2
  <2>. QED  BY <2>3, <2>4
<1>. QED  BY <1>6, <1>7

\* Every step keeps the invariant.
LEMMA FileInvNext == ASSUME Given PROVE FileInv /\ [FileNext]_fileVars => FileInv'
<1>. SUFFICES ASSUME FileInv, [FileNext]_fileVars PROVE FileInv'  OBVIOUS
<1>1. CASE DeleteFile \/ Outage  BY <1>1, EnvironmentInv
<1>2. ASSUME NEW w \in Writers, Record(w) \/ Abort(w) PROVE FileInv'
  <2>1. CASE ReadOld(w)  BY <2>1, ReadOldInv
  <2>2. CASE WriteFile(w)  BY <2>2, WriteFileInv
  <2>3. CASE Upsert(w)  BY <2>3, UpsertInv
  <2>4. CASE SelectRow(w)  BY <2>4, SelectRowInv
  <2>5. CASE FlushRow(w)  BY <2>5, FlushRowInv
  <2>6. CASE NextVersion(w)  BY <2>6, NextVersionInv
  <2>7. CASE InsertVersion(w)  BY <2>7, InsertVersionInv
  <2>8. CASE Commit(w)  BY <2>8, CommitInv
  <2>9. CASE Abort(w)  BY <2>9, AbortInv
  <2>. QED  BY <1>2, <2>1, <2>2, <2>3, <2>4, <2>5, <2>6, <2>7, <2>8, <2>9 DEF Record
<1>3. CASE UNCHANGED fileVars
  <2>1. UNCHANGED <<up, disk, latest, tx, row, rowLock, versions, snapshot, used>>
    BY <1>3 DEF fileVars
  <2>2. Count' = Count /\ Newest' = Newest /\ OnlyGateway' = OnlyGateway
    BY <2>1 DEF Count, Newest, OnlyGateway
  <2>3. FileTypeOK'  BY <2>1 DEF FileInv, FileTypeOK
  <2>4. Counted'  BY <2>1 DEF FileInv, Counted, VersionsGapless, Numbers
  <2>5. Numbering' /\ Locked'  BY <2>1, <2>2 DEF FileInv, Numbering, Locked
  <2>6. Snapshots'  BY <2>1 DEF FileInv, Snapshots, SnapshotIsOwn
  <2>7. Serial'  BY <2>1, <2>2 DEF FileInv, Serial
  <2>. QED  BY <2>3, <2>4, <2>5, <2>6, <2>7 DEF FileInv
<1>. QED  BY <1>1, <1>2, <1>3 DEF FileNext

\* The invariant holds for any number of writers.
LEMMA FileInvariant == ASSUME Given PROVE FileInit /\ [][FileNext]_fileVars => []FileInv
<1>1. FileInit => FileInv  BY FileInvInit
<1>2. FileInv /\ [FileNext]_fileVars => FileInv'  BY FileInvNext
<1>. QED  BY <1>1, <1>2, PTL

\* What has been written can be read, whoever records it.
LEMMA WrittenInit == ASSUME Given, FileInit PROVE Written
<1>1. \A w \in Writers : tx[w] = Idle  BY DEF FileInit
<1>2. \A w \in Writers : tx[w].pc = "idle" /\ tx[w].at = "daemon"  BY <1>1 DEF Idle
<1>. QED  BY <1>2 DEF FileInit, Written, InTx

\* A writer that goes on has written before, and stays with its place.
LEMMA WrittenGoesOn ==
  ASSUME Given, FileTypeOK, Written, NEW w \in Writers, UNCHANGED <<disk, latest>>,
         tx[w].pc \in {"record", "flush"} \cup InTx \/ tx'[w].pc \in {"idle", "write"} \cup Settled,
         tx'[w].at # "root", \A v \in Writers \ {w} : tx'[v] = tx[v],
         row'.exists => row.exists \/ tx[w].pc \in InTx
  PROVE  Written'
<1>1. ASSUME NEW v \in Writers, tx'[v].pc \in {"record", "flush"} \cup InTx
      PROVE  tx[v].pc \in {"record", "flush"} \cup InTx
  BY <1>1 DEF InTx, Settled
<1>2. (\E v \in Writers : tx'[v].pc \in {"record", "flush"} \cup InTx) => latest # NoWriter
  BY <1>1 DEF Written
<1>3. row'.exists => latest # NoWriter  BY DEF Written
<1>. QED  BY <1>2, <1>3 DEF Written

\* A tool that writes leaves its content in a place that is asked.
LEMMA WrittenWrites ==
  ASSUME Given, FileTypeOK, Written, NEW w \in Writers, WriteFile(w)
  PROVE  Written'
<1>1. UNCHANGED row  BY DEF WriteFile, database
<1>. DEFINE at == IF Kind[w] = "gateway" THEN tx[w].at ELSE Place("runtime")
<1>2. \/ Goto(w, "failed") /\ UNCHANGED <<disk, latest>>
      \/ Put(at, w) /\ Goto(w, "record")
  BY DEF WriteFile
<1>3. PICK pc \in {"failed", "record"} : Goto(w, pc)  BY <1>2
<1>4. tx'[w].pc = pc /\ tx'[w].at = tx[w].at /\ \A v \in Writers \ {w} : tx'[v] = tx[v]
  <2>1. tx \in [Writers -> Writer]  BY DEF FileTypeOK, Writer
  <2>. QED  BY <1>3, <2>1 DEF Goto, Writer
<1>5. CASE Goto(w, "failed") /\ UNCHANGED <<disk, latest>>
  <2>1. tx'[w].pc = "failed"
    <3>1. tx \in [Writers -> Writer]  BY DEF FileTypeOK, Writer
    <3>. QED  BY <1>5, <3>1 DEF Goto, Writer
  <2>. QED  BY <1>1, <1>4, <1>5, <2>1, WrittenGoesOn DEF Written, Settled
<1>6. CASE Put(at, w) /\ Goto(w, "record")
  <2>1. at \in Copies  BY DEF Written, Place, FileTypeOK, Places, Copies
  <2>2. disk' = [disk EXCEPT ![at] = w] /\ latest' = w  BY <1>6 DEF Put
  <2>3. latest' # NoWriter  BY <2>2 DEF Given
  <2>4. disk'[at] = w
    <3>. HIDE DEF at
    <3>. QED  BY <2>1, <2>2 DEF FileTypeOK, Places
  <2>5. \E p \in Copies : disk'[p] = latest'
    <3>. HIDE DEF at
    <3>. QED  BY <2>1, <2>2, <2>4
  <2>6. \A v \in Writers : tx'[v].at # "root"  BY <1>4 DEF Written
  <2>. QED  BY <2>3, <2>5, <2>6 DEF Written
<1>. QED  BY <1>2, <1>5, <1>6

\* Every step keeps it so.
LEMMA WrittenNext == ASSUME Given PROVE FileTypeOK /\ Written /\ [FileNext]_fileVars => Written'
<1>. SUFFICES ASSUME FileTypeOK, Written, [FileNext]_fileVars PROVE Written'  OBVIOUS
<1>0. tx \in [Writers -> Writer]  BY DEF FileTypeOK, Writer
<1>1. CASE DeleteFile
  <2>1. row' = [row EXCEPT !.deleted = TRUE] /\ UNCHANGED <<disk, latest, tx>>  BY <1>1 DEF DeleteFile
  <2>2. row'.exists = row.exists  BY <2>1 DEF FileTypeOK
  <2>. QED  BY <2>1, <2>2 DEF Written
<1>2. CASE Outage  BY <1>2 DEF Outage, database, Written
<1>3. CASE UNCHANGED fileVars  BY <1>3 DEF fileVars, Written
<1>4. ASSUME NEW w \in Writers, WriteFile(w) PROVE Written'  BY <1>4, WrittenWrites
<1>5. ASSUME NEW w \in Writers, ReadOld(w) PROVE Written'
  <2>1. tx' = [tx EXCEPT ![w].pc = "write", ![w].at = Place("gateway")] /\ UNCHANGED <<disk, latest, row>>
    BY <1>5 DEF ReadOld, database
  <2>2. tx'[w].pc = "write" /\ tx'[w].at # "root" /\ \A v \in Writers \ {w} : tx'[v] = tx[v]
    BY <1>0, <2>1 DEF Writer, Place
  <2>. QED  BY <2>1, <2>2, WrittenGoesOn
<1>6. ASSUME NEW w \in Writers,
             Upsert(w) \/ SelectRow(w) \/ FlushRow(w) \/ NextVersion(w) \/ InsertVersion(w)
               \/ Commit(w) \/ Abort(w)
      PROVE  Written'
  <2>1. tx[w].pc \in {"record", "flush"} \cup InTx /\ UNCHANGED <<disk, latest>>
    BY <1>6 DEF Upsert, SelectRow, FlushRow, NextVersion, InsertVersion, Commit, Abort, InTx
  <2>2. row'.exists => row.exists \/ tx[w].pc \in InTx
    BY <1>6 DEF Upsert, SelectRow, FlushRow, NextVersion, InsertVersion, Commit, Abort, Fail, InTx,
                database
  <2>3. tx'[w].at = tx[w].at /\ \A v \in Writers \ {w} : tx'[v] = tx[v]
    <3>1. CASE SelectRow(w)  BY <1>0, <3>1 DEF SelectRow, Writer
    <3>2. CASE NextVersion(w)  BY <1>0, <3>2 DEF NextVersion, Writer
    <3>3. CASE \E pc : Goto(w, pc)  BY <1>0, <3>3 DEF Goto, Writer
    <3>. QED  BY <1>6, <3>1, <3>2, <3>3
              DEF Upsert, FlushRow, InsertVersion, Commit, Abort, Fail, EndTx
  <2>. QED  BY <2>1, <2>2, <2>3, WrittenGoesOn DEF Written
<1>. QED  BY <1>1, <1>2, <1>3, <1>4, <1>5, <1>6 DEF FileNext, Record

\* The place that is asked has the last content, when the others have none.
LEMMA WrittenIsServed == FileTypeOK /\ Written => PreviewIsLatest
<1>. SUFFICES ASSUME FileTypeOK, Written, row.exists,
                     \A p \in Copies \ {Place("gateway")} : disk[p] = NoWriter
              PROVE  Served = latest
  BY DEF PreviewIsLatest
<1>1. latest # NoWriter /\ \E p \in Copies : disk[p] = latest  BY DEF Written
<1>2. Place("gateway") \in Copies  BY DEF Place, Copies
<1>3. disk[Place("gateway")] = latest  BY <1>1, <1>2
<1>. QED  BY <1>1, <1>3 DEF Served, CopyAt

-----------------------------------------------------------------------------
(* The versions are a log                                                  *)

\* What History substitutes for the log.
EntryOf(v) == [num |-> v.num, content |-> Shown(v)]
Log        == {EntryOf(v) : v \in versions}

\* A version shows the write it records.
LEMMA ShowsOwn == ASSUME Snapshots PROVE \A v \in versions : Shown(v) = v.by
BY DEF Shown, Snapshots, SnapshotIsOwn

\* No version, no entry.
LEMMA LogInit == FileInit => History!Init
BY DEF FileInit, History!Init

\* A commit appends the next entry; nothing else changes an entry.
LEMMA LogStep ==
  ASSUME Given
  PROVE  FileInv /\ FileInv' /\ [FileNext]_fileVars => [History!Next]_Log
<1>. SUFFICES ASSUME FileInv, FileInv', [FileNext]_fileVars PROVE [History!Next]_Log
  OBVIOUS
<1>. USE DEF FileInv
<1>1. \A v \in versions : Shown(v) = v.by  BY ShowsOwn
<1>2. \A v \in versions' : Shown(v)' = v.by  BY DEF Shown, Snapshots, SnapshotIsOwn
<1>3. CASE UNCHANGED versions
  <2>1. \A v \in versions : EntryOf(v)' = EntryOf(v)  BY <1>1, <1>2, <1>3 DEF EntryOf
  <2>. QED  BY <1>3, <2>1 DEF Log
<1>4. ASSUME NEW w \in Writers, Commit(w) PROVE History!Next
  <2>. DEFINE n == Count + 1
  <2>1. PICK x : x = [num |-> tx[w].next, by |-> w, diff |-> Diff(w)]  OBVIOUS
  <2>2. tx[w].pc = "commit" /\ versions' = versions \cup {x}  BY <1>4, <2>1 DEF Commit
  <2>3. x.num = n /\ x.by = w  BY <2>1, <2>2 DEF Numbering
  <2>4. EntryOf(x)' = [num |-> n, content |-> w]  BY <1>2, <2>2, <2>3 DEF EntryOf
  <2>5. \A v \in versions : EntryOf(v)' = EntryOf(v)  BY <1>1, <1>2, <2>2 DEF EntryOf
  <2>6. Log' = Log \cup {[num |-> n, content |-> w]}  BY <2>2, <2>4, <2>5 DEF Log
  <2>7. \A e \in Log : e.content # w
    <3>1. \A v \in versions : v.by # w  BY <2>2 DEF Counted
    <3>. QED  BY <1>1, <3>1 DEF Log, EntryOf
  <2>. DEFINE nums == {e.num : e \in Log}
  <2>8. nums = 1..Count /\ Count \in Nat
    <3>1. \A v \in versions : EntryOf(v) \in Log /\ EntryOf(v).num = v.num  BY DEF Log, EntryOf
    <3>2. \A e \in Log : \E v \in versions : e = EntryOf(v)  BY DEF Log
    <3>3. nums = Numbers  BY <3>1, <3>2 DEF Numbers
    <3>4. Numbers = 1..Count /\ Count \in Nat
      BY FS_CardinalityType DEF Counted, VersionsGapless, Count
    <3>. QED  BY <3>3, <3>4
  <2>. HIDE DEF nums
  <2>9. n \in {1} \cup {m + 1 : m \in nums} /\ nums = 1..(n - 1)
    <3>1. n - 1 = Count  BY <2>8
    <3>2. n = 1 \/ Count \in nums  BY <2>8
    <3>. QED  BY <2>8, <3>1, <3>2
  <2>. HIDE DEF n
  <2>10. History!Append(w)  BY <2>6, <2>7, <2>9 DEF nums, History!Append, History!Numbers, Log, EntryOf
  <2>. QED  BY <2>10 DEF History!Next
<1>5. ASSUME NEW w \in Writers, Record(w) \/ Abort(w), ~Commit(w) PROVE UNCHANGED versions
  BY <1>5 DEF Record, Abort, Fail, ReadOld, WriteFile, Upsert, SelectRow, FlushRow, NextVersion,
              InsertVersion, database
<1>6. DeleteFile \/ Outage \/ UNCHANGED fileVars => UNCHANGED versions
  BY DEF DeleteFile, Outage, database, fileVars
<1>. QED  BY <1>3, <1>4, <1>5, <1>6 DEF FileNext

LEMMA VersionsMakeLog == ASSUME Given PROVE FileInit /\ [][FileNext]_fileVars => VersionLogSpec
<1>1. FileInit => History!Init  BY LogInit
<1>2. FileInv /\ FileInv' /\ [FileNext]_fileVars => [History!Next]_Log  BY LogStep
<1>. QED
  BY <1>1, <1>2, FileInvariant, PTL DEF VersionLogSpec, History!Spec, Log, EntryOf

-----------------------------------------------------------------------------
(* The theorems                                                            *)

\* No writer takes a number beyond the number of writers, and the rows hold what they may.
THEOREM FileTypes == ASSUME Given PROVE FileSpec => []FileTypeOK
<1>1. FileInv => FileTypeOK  BY DEF FileInv
<1>. QED  BY <1>1, FileInvariant, PTL DEF FileSpec

\* Versions are numbered 1, 2, ... without a gap or a duplicate.
THEOREM GaplessVersions == ASSUME Given PROVE FileSpec => []VersionsGapless
<1>1. FileInv => VersionsGapless  BY DEF FileInv, Counted
<1>. QED  BY <1>1, FileInvariant, PTL DEF FileSpec

\* FileVersions implements VersionLog, whichever program commits, fails or overwrites meanwhile.
THEOREM VersionsAreLog == ASSUME Given PROVE FileSpec => VersionLogSpec
BY VersionsMakeLog, PTL DEF FileSpec

\* A version that points to a snapshot file finds its own content there.
THEOREM OwnSnapshots == ASSUME Given PROVE FileSpec => []SnapshotIsOwn
<1>1. FileInv => SnapshotIsOwn  BY DEF FileInv, Snapshots
<1>. QED  BY <1>1, FileInvariant, PTL DEF FileSpec

\* The gateway's writers never fail each other, and leave the row of the newest version.
THEOREM WritersSerialize == ASSUME Given PROVE FileSpec => []GatewayWritersSerialize
<1>1. FileInv => GatewayWritersSerialize
  BY DEF FileInv, Serial, OnlyGateway, GatewayWritersSerialize
<1>. QED  BY <1>1, FileInvariant, PTL DEF FileSpec

\* While no other place holds a copy, the runtime's own included, a preview delivers the last content
\* written: the row is there only when something was written, and a copy of the session goes before
\* the one in the root.
THEOREM PreviewsAreLatest == ASSUME Given PROVE FileSpec => []PreviewIsLatest
<1>1. FileInit => Written  BY WrittenInit
<1>2. FileInv /\ Written /\ [FileNext]_fileVars => Written'  BY WrittenNext DEF FileInv
<1>3. FileInv /\ Written => PreviewIsLatest  BY WrittenIsServed DEF FileInv
<1>. QED  BY <1>1, <1>2, <1>3, FileInvariant, PTL DEF FileSpec

=============================================================================
