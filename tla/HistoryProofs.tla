---------------------------- MODULE HistoryProofs ----------------------------
(***************************************************************************)
(* The cache of conversations and the offset index of a transcript, for    *)
(* any files, lines, rows, scans and bounds.                               *)
(*                                                                         *)
(* CacheRows: what is dropped was off the disk, or was given up by the     *)
(* human's word (CacheIInv).                                               *)
(* OffsetIndex: of each prefix of the file that the state or a walk speaks *)
(* of, the rows name the lines of the messages (IndexFits), for what the   *)
(* file holds now and for whatever it may grow to.                         *)
(***************************************************************************)
EXTENDS MCServices, FiniteSetTheorems, SequenceTheorems, TLAPS

-----------------------------------------------------------------------------
(* The cache: its rows, the scans over them and the integrity monitor.     *)

RowRecords ==
  [in : BOOLEAN, count : Int, upto : Int, tail : Seq(Int), hidden : BOOLEAN, stamp : Int, meta : Int]
FileRecords == [there : BOOLEAN, messages : Nat]
ScanRecords ==
  [for : {"none", "warm-up", "refresh", "background", "reset", "tails", "prune"},
   todo : SUBSET CacheFiles, known : SUBSET [file : CacheFiles, stamp : Int, meta : Int],
   seen : [CacheFiles -> Int], owed : BOOLEAN]

CacheTypes ==
  /\ onDisk \in [CacheFiles -> FileRecords]
  /\ cacheRow \in [CacheFiles -> RowRecords]
  /\ tailAt \in [CacheFiles -> Int] /\ pass \in [CacheFiles -> Int]
  /\ full \in ScanRecords
  /\ DOMAIN saved = {"alert", "ignored"}

CacheIInv == CacheTypes /\ CacheInv

\* What every step keeps of the rows.
RowsAreKept ==
  /\ cacheRow' \in [CacheFiles -> RowRecords]
  /\ IndexSound'
  /\ \A f \in CacheFiles : RowStays(f)
-----------------------------------------------------------------------------
LEMMA LargerIsLarger ==
  ASSUME NEW m \in Int, NEW n \in Int
  PROVE  Larger(m, n) \in Int /\ Larger(m, n) >= m
  BY DEF Larger

LEMMA NoRowIs == NoCacheRow \in RowRecords /\ ~NoCacheRow.in
<1>1. <<>> \in Seq(Int) /\ 0 \in Int /\ -1 \in Int
  OBVIOUS
<1>2. NoCacheRow \in RowRecords
  BY <1>1, Zenon DEF NoCacheRow, RowRecords, NotRead
<1> QED
  BY <1>2 DEF NoCacheRow

LEMMA LastTyped ==
  ASSUME NEW s \in Seq(Int)
  PROVE  LastOf(s) \in Seq(Int)
<1>1. CASE Len(s) > TailSize
  <2>1. TailSize \in Nat /\ Len(s) \in Nat
    BY CacheRowsAssumption DEF CacheRowsAssumption
  <2>2. SubSeq(s, Len(s) - TailSize + 1, Len(s)) \in Seq(Int)
    BY <1>1, <2>1
  <2> QED
    BY <1>1, <2>2 DEF LastOf
<1>2. CASE ~(Len(s) > TailSize)
  BY <1>2 DEF LastOf
<1> QED
  BY <1>1, <1>2

LEMMA UpsertedFields ==
  ASSUME NEW row \in RowRecords, NEW seen \in Int, NEW fileNow \in FileRecords
  PROVE  /\ UpsertedRow(row, seen, fileNow) \in RowRecords /\ UpsertedRow(row, seen, fileNow).in
         /\ UpsertedRow(row, seen, fileNow).count >= row.count
         /\ UpsertedRow(row, seen, fileNow).hidden = row.hidden
<1>1. row.count \in Int
  BY DEF RowRecords
<1>2. PICK n \in Int : n = Larger(row.count, seen) /\ n >= row.count
  BY <1>1, LargerIsLarger
<1>3. PICK s \in Int : s = IF fileNow.there THEN fileNow.messages ELSE NotRead
  BY DEF FileRecords, NotRead
<1>4. UpsertedRow(row, seen, fileNow)
        = [row EXCEPT !.in = TRUE, !.count = n, !.upto = seen, !.meta = seen, !.stamp = s]
  BY <1>2, <1>3, Zenon DEF UpsertedRow, RowRecords
<1>5. PICK r : r = [row EXCEPT !.in = TRUE, !.count = n, !.upto = seen, !.meta = seen, !.stamp = s]
  OBVIOUS
<1>6. r \in RowRecords /\ r.in /\ r.count = n /\ r.hidden = row.hidden
  BY <1>5, Zenon DEF RowRecords
<1> QED
  BY <1>2, <1>4, <1>5, <1>6

LEMMA WithLinesFields ==
  ASSUME NEW row \in RowRecords, NEW from \in Int, NEW to \in Int, from < to
  PROVE  /\ WithLines(row, from, to) \in RowRecords /\ WithLines(row, from, to).in = row.in
         /\ WithLines(row, from, to).count >= row.count
         /\ WithLines(row, from, to).hidden = row.hidden
<1>1. row.count \in Int /\ row.upto \in Int /\ row.tail \in Seq(Int)
  BY DEF RowRecords
<1>2. PICK n \in Int : n = row.count + (to - from) /\ n >= row.count
  BY <1>1
<1>3. PICK u \in Int : u = Larger(row.upto, to)
  BY <1>1, LargerIsLarger
<1>4. [k \in 1..(to - from) |-> from + k] \in Seq(Int)
  <2>1. to - from \in Nat
    OBVIOUS
  <2>2. [k \in 1..(to - from) |-> from + k] \in [1..(to - from) -> Int]
    OBVIOUS
  <2> QED
    BY <2>1, <2>2
<1>5. row.tail \o [k \in 1..(to - from) |-> from + k] \in Seq(Int)
  BY <1>1, <1>4
<1>6. PICK t \in Seq(Int) : t = LastOf(row.tail \o [k \in 1..(to - from) |-> from + k])
  BY <1>5, LastTyped
<1>7. WithLines(row, from, to) = [row EXCEPT !.count = n, !.upto = u, !.tail = t]
  <2>1. WithLines(row, from, to)
          = [row EXCEPT !.count = row.count + (to - from), !.upto = Larger(row.upto, to),
                        !.tail = LastOf(row.tail \o [k \in 1..(to - from) |-> from + k])]
    BY Zenon DEF WithLines, RowRecords
  <2> QED
    BY <1>2, <1>3, <1>6, <2>1, Zenon
<1>8. PICK r : r = [row EXCEPT !.count = n, !.upto = u, !.tail = t]
  OBVIOUS
<1>9. r \in RowRecords /\ r.in = row.in /\ r.count = n /\ r.hidden = row.hidden
  BY <1>8, Zenon DEF RowRecords
<1> QED
  BY <1>2, <1>7, <1>8, <1>9

LEMMA SkeletonFields ==
  ASSUME NEW row \in RowRecords
  PROVE  /\ Skeleton(row) \in RowRecords /\ Skeleton(row).in
         /\ row.in => Skeleton(row) = row
<1>1. PICK r : r = [NoCacheRow EXCEPT !.in = TRUE, !.count = 1]
  OBVIOUS
<1>2. r \in RowRecords /\ r.in
  <2>1. 1 \in Int
    OBVIOUS
  <2> QED
    BY <1>1, <2>1, NoRowIs, Zenon DEF RowRecords
<1> QED
  BY <1>1, <1>2 DEF Skeleton

-----------------------------------------------------------------------------
\* What a step does to the rows.
LEMMA RowsRest ==
  ASSUME CacheIInv, cacheRow' = cacheRow, fileIndex' = fileIndex, loaded' = loaded
  PROVE  RowsAreKept
<1>1. cacheRow \in [CacheFiles -> RowRecords] /\ IndexSound
  BY DEF CacheIInv, CacheTypes, CacheInv
<1>2. IndexSound'
  BY <1>1 DEF IndexSound, Cached
<1>3. ASSUME NEW f \in CacheFiles PROVE RowStays(f)
  <2>1. cacheRow[f].count \in Int
    BY <1>1 DEF RowRecords
  <2> QED
    BY <2>1 DEF RowStays
<1> QED
  BY <1>1, <1>2, <1>3 DEF RowsAreKept

\* Upsert, of any set of files that the step wrote to.
LEMMA RowsGrow ==
  ASSUME CacheIInv, NEW which, which \subseteq CacheFiles, NEW seen \in [CacheFiles -> Int],
         Upsert(seen, which)
  PROVE  RowsAreKept
<1>1. /\ cacheRow \in [CacheFiles -> RowRecords] /\ IndexSound
      /\ onDisk \in [CacheFiles -> FileRecords]
  BY DEF CacheIInv, CacheTypes, CacheInv
<1>2. /\ cacheRow' = [f \in CacheFiles |->
           IF f \in which THEN UpsertedRow(cacheRow[f], seen[f], onDisk[f]) ELSE cacheRow[f]]
      /\ fileIndex' = IF loaded THEN fileIndex \cup which ELSE fileIndex
      /\ loaded' = loaded
  BY DEF Upsert
<1>3. ASSUME NEW f \in CacheFiles
      PROVE  /\ cacheRow'[f] \in RowRecords
             /\ cacheRow'[f].in <=> (cacheRow[f].in \/ f \in which)
             /\ RowStays(f)
  <2>1. cacheRow[f] \in RowRecords /\ seen[f] \in Int /\ onDisk[f] \in FileRecords
    BY <1>1
  <2>2. CASE f \in which
    <3>1. cacheRow'[f] = UpsertedRow(cacheRow[f], seen[f], onDisk[f])
      BY <1>2, <2>2
    <3>2. /\ cacheRow'[f] \in RowRecords /\ cacheRow'[f].in
          /\ cacheRow'[f].count >= cacheRow[f].count /\ cacheRow'[f].hidden = cacheRow[f].hidden
      BY <2>1, <3>1, UpsertedFields
    <3> QED
      BY <2>2, <3>2 DEF RowStays
  <2>3. CASE f \notin which
    <3>1. cacheRow'[f] = cacheRow[f] /\ cacheRow[f].count \in Int
      BY <1>2, <2>1, <2>3 DEF RowRecords
    <3> QED
      BY <2>1, <2>3, <3>1 DEF RowStays
  <2> QED
    BY <2>2, <2>3
<1>4. cacheRow' \in [CacheFiles -> RowRecords]
  BY <1>2, <1>3
<1>5. IndexSound'
  <2>1. Cached' = Cached \cup which
    BY <1>3 DEF Cached
  <2> QED
    BY <1>1, <1>2, <2>1 DEF IndexSound
<1> QED
  BY <1>3, <1>4, <1>5 DEF RowsAreKept

\* Without: rows go that are named in a resolution, or are gone from the disk or unlinked
\* while no alert is pending.
LEMMA RowsGo ==
  ASSUME CacheIInv, NEW gone, Without(gone),
         \/ resolving # NoResolution
         \/ alert = {} /\ \A f \in gone : ~onDisk[f].there \/ f \in unlinked \ unlinked'
  PROVE  RowsAreKept
<1>1. cacheRow \in [CacheFiles -> RowRecords] /\ IndexSound
  BY DEF CacheIInv, CacheTypes, CacheInv
<1>2. /\ cacheRow' = [f \in CacheFiles |-> IF f \in gone THEN NoCacheRow ELSE cacheRow[f]]
      /\ fileIndex' = fileIndex \ gone /\ loaded' = loaded
  BY DEF Without
<1>3. ASSUME NEW f \in CacheFiles
      PROVE  /\ cacheRow'[f] \in RowRecords
             /\ cacheRow'[f].in <=> (cacheRow[f].in /\ f \notin gone)
             /\ RowStays(f)
  <2>1. cacheRow[f] \in RowRecords /\ cacheRow[f].count \in Int
    BY <1>1 DEF RowRecords
  <2>2. CASE f \in gone
    <3>1. cacheRow'[f] = NoCacheRow
      BY <1>2, <2>2
    <3> QED
      BY <2>2, <3>1, NoRowIs DEF RowStays
  <2>3. CASE f \notin gone
    <3>1. cacheRow'[f] = cacheRow[f]
      BY <1>2, <2>3
    <3> QED
      BY <2>1, <2>3, <3>1 DEF RowStays
  <2> QED
    BY <2>2, <2>3
<1>4. cacheRow' \in [CacheFiles -> RowRecords]
  BY <1>2, <1>3
<1>5. IndexSound'
  <2>1. Cached' = Cached \ gone
    BY <1>3 DEF Cached
  <2> QED
    BY <1>1, <1>2, <2>1 DEF IndexSound
<1> QED
  BY <1>3, <1>4, <1>5 DEF RowsAreKept

\* One row is written.
LEMMA RowMoves ==
  ASSUME CacheIInv, NEW f \in CacheFiles, NEW row \in RowRecords,
         cacheRow' = [cacheRow EXCEPT ![f] = row],
         cacheRow[f].in => /\ row.in /\ row.count >= cacheRow[f].count
                           /\ row.hidden = cacheRow[f].hidden \/ row.hidden,
         \/ row.in = cacheRow[f].in /\ fileIndex' = fileIndex /\ loaded' = loaded
         \/ row.in /\ fileIndex' = (IF loaded THEN fileIndex ELSE Cached) \cup {f}
  PROVE  RowsAreKept
<1>1. cacheRow \in [CacheFiles -> RowRecords] /\ IndexSound
  BY DEF CacheIInv, CacheTypes, CacheInv
<1>2. cacheRow' \in [CacheFiles -> RowRecords]
  BY <1>1
<1>3. ASSUME NEW g \in CacheFiles PROVE RowStays(g)
  <2>1. cacheRow[g].count \in Int
    BY <1>1 DEF RowRecords
  <2>2. CASE g = f
    BY <1>1, <2>1, <2>2 DEF RowStays
  <2>3. CASE g # f
    BY <1>1, <2>1, <2>3 DEF RowStays
  <2> QED
    BY <2>2, <2>3
<1>4. IndexSound'
  <2>1. CASE row.in = cacheRow[f].in /\ fileIndex' = fileIndex /\ loaded' = loaded
    <3>1. ASSUME NEW g \in CacheFiles PROVE cacheRow'[g].in = cacheRow[g].in
      BY <1>1, <2>1
    <3>2. Cached' = Cached
      BY <3>1 DEF Cached
    <3> QED
      BY <1>1, <2>1, <3>2 DEF IndexSound
  <2>2. CASE row.in /\ fileIndex' = (IF loaded THEN fileIndex ELSE Cached) \cup {f}
    <3>1. ASSUME NEW g \in CacheFiles PROVE cacheRow'[g].in <=> (cacheRow[g].in \/ g = f)
      BY <1>1, <2>2
    <3>2. Cached' = Cached \cup {f}
      BY <3>1 DEF Cached
    <3> QED
      BY <1>1, <2>2, <3>2 DEF IndexSound
  <2> QED
    BY <2>1, <2>2
<1> QED
  BY <1>2, <1>3, <1>4 DEF RowsAreKept

LEMMA LinesKeepRows ==
  ASSUME CacheIInv, UpdateFromLines
  PROVE  RowsAreKept
<1>1. PICK f \in CacheFiles :
        LET from == tailAt[f]
            to == onDisk[f].messages
            index == (IF loaded THEN fileIndex ELSE Cached) \cup {f}
        IN  /\ from < to
            /\ cacheRow' = [cacheRow EXCEPT ![f] = WithLines(Skeleton(@), from, to)]
            /\ fileIndex' = index
  BY DEF UpdateFromLines
<1>2. /\ cacheRow[f] \in RowRecords /\ tailAt[f] \in Int /\ onDisk[f] \in FileRecords
      /\ cacheRow \in [CacheFiles -> RowRecords]
  BY DEF CacheIInv, CacheTypes
<1>3. onDisk[f].messages \in Int /\ tailAt[f] < onDisk[f].messages
  BY <1>1, <1>2 DEF FileRecords
<1>4. /\ Skeleton(cacheRow[f]) \in RowRecords /\ Skeleton(cacheRow[f]).in
      /\ cacheRow[f].in => Skeleton(cacheRow[f]) = cacheRow[f]
  BY <1>2, SkeletonFields
<1>5. PICK row : row = WithLines(Skeleton(cacheRow[f]), tailAt[f], onDisk[f].messages)
  OBVIOUS
<1>6. /\ row \in RowRecords /\ row.in
      /\ cacheRow[f].in => row.count >= cacheRow[f].count /\ row.hidden = cacheRow[f].hidden
  BY <1>2, <1>3, <1>4, <1>5, WithLinesFields
<1>7. /\ cacheRow' = [cacheRow EXCEPT ![f] = row]
      /\ fileIndex' = (IF loaded THEN fileIndex ELSE Cached) \cup {f}
  BY <1>1, <1>2, <1>5, Zenon
<1> QED
  BY <1>6, <1>7, RowMoves

LEMMA HidingKeepsRows ==
  ASSUME CacheIInv, SoftDelete
  PROVE  RowsAreKept
<1>1. PICK f \in CacheFiles : cacheRow' = [cacheRow EXCEPT ![f].hidden = TRUE]
  BY DEF SoftDelete, Cached
<1>2. cacheRow[f] \in RowRecords /\ cacheRow \in [CacheFiles -> RowRecords]
  BY DEF CacheIInv, CacheTypes
<1>3. PICK row : row = [cacheRow[f] EXCEPT !.hidden = TRUE]
  OBVIOUS
<1>4. /\ row \in RowRecords /\ row.in = cacheRow[f].in /\ row.count = cacheRow[f].count
      /\ row.hidden
  BY <1>2, <1>3, Zenon DEF RowRecords
<1>5. row.count >= cacheRow[f].count
  <2>1. cacheRow[f].count \in Int
    BY <1>2 DEF RowRecords
  <2> QED
    BY <1>4, <2>1
<1>6. cacheRow' = [cacheRow EXCEPT ![f] = row]
  BY <1>1, <1>2, <1>3
<1>7. fileIndex' = fileIndex /\ loaded' = loaded
  BY DEF SoftDelete
<1> QED
  BY <1>4, <1>5, <1>6, <1>7, RowMoves

LEMMA TailsKeepRows ==
  ASSUME CacheIInv, PopulateTail
  PROVE  RowsAreKept
<1>1. PICK f \in full.todo :
        cacheRow' = [cacheRow EXCEPT ![f].tail =
            IF cacheRow[f].in /\ @ = <<>> /\ onDisk[f].there
            THEN LastOf([k \in 1..onDisk[f].messages |-> k]) ELSE @]
  BY DEF PopulateTail
<1>2. full.todo \subseteq CacheFiles
  BY DEF CacheIInv, CacheTypes, ScanRecords
<1>3. /\ cacheRow[f] \in RowRecords /\ cacheRow \in [CacheFiles -> RowRecords]
      /\ onDisk[f] \in FileRecords /\ f \in CacheFiles
  BY <1>2 DEF CacheIInv, CacheTypes
<1>4. PICK t \in Seq(Int) : t = IF cacheRow[f].in /\ cacheRow[f].tail = <<>> /\ onDisk[f].there
                                THEN LastOf([k \in 1..onDisk[f].messages |-> k])
                                ELSE cacheRow[f].tail
  <2>1. cacheRow[f].tail \in Seq(Int) /\ onDisk[f].messages \in Nat
    BY <1>3 DEF RowRecords, FileRecords
  <2>2. [k \in 1..onDisk[f].messages |-> k] \in Seq(Int)
    <3>1. [k \in 1..onDisk[f].messages |-> k] \in [1..onDisk[f].messages -> Int]
      OBVIOUS
    <3> QED
      BY <2>1, <3>1
  <2>3. LastOf([k \in 1..onDisk[f].messages |-> k]) \in Seq(Int)
    BY <2>2, LastTyped
  <2> QED
    BY <2>1, <2>3, Zenon
<1>5. PICK row : row = [cacheRow[f] EXCEPT !.tail = t]
  OBVIOUS
<1>6. /\ row \in RowRecords /\ row.in = cacheRow[f].in /\ row.count = cacheRow[f].count
      /\ row.hidden = cacheRow[f].hidden
  BY <1>3, <1>5, Zenon DEF RowRecords
<1>7. row.count >= cacheRow[f].count
  <2>1. cacheRow[f].count \in Int
    BY <1>3 DEF RowRecords
  <2> QED
    BY <1>6, <2>1
<1>8. cacheRow' = [cacheRow EXCEPT ![f] = row]
  <2>1. cacheRow' = [cacheRow EXCEPT ![f] = [cacheRow[f] EXCEPT !.tail =
                       IF cacheRow[f].in /\ cacheRow[f].tail = <<>> /\ onDisk[f].there
                       THEN LastOf([k \in 1..onDisk[f].messages |-> k]) ELSE cacheRow[f].tail]]
    BY <1>1, <1>3, Zenon DEF RowRecords
  <2> QED
    BY <1>4, <1>5, <2>1, Zenon
<1>9. fileIndex' = fileIndex /\ loaded' = loaded
  BY DEF PopulateTail
<1> QED
  BY <1>3, <1>6, <1>7, <1>8, <1>9, RowMoves

\* What reconcileFromDisk writes, and drops.
ToWrite == IF full.for = "background" THEN {f \in Found : ChangedSinceCached(f)} ELSE Found
ToGo ==
  IF alert # {} THEN {} ELSE {f \in (Cached \cup ToWrite) \ Found : ~onDisk[f].there}

\* reconcileFromDisk: what goes is not on disk, and goes while no alert is pending.
LEMMA ReconcileKeepsRows ==
  ASSUME CacheIInv, ReconcileDisk
  PROVE  RowsAreKept
<1>1. /\ cacheRow' = [f \in CacheFiles |->
              CASE f \in ToGo -> NoCacheRow
                [] f \in ToWrite -> UpsertedRow(cacheRow[f], full.seen[f], onDisk[f])
                [] OTHER -> cacheRow[f]]
      /\ fileIndex' = (IF loaded THEN fileIndex \cup ToWrite ELSE fileIndex) \ ToGo
      /\ loaded' = loaded
  BY DEF ReconcileDisk, ToWrite, ToGo
<1>2. /\ cacheRow \in [CacheFiles -> RowRecords] /\ IndexSound
      /\ onDisk \in [CacheFiles -> FileRecords] /\ full.seen \in [CacheFiles -> Int]
  BY DEF CacheIInv, CacheTypes, CacheInv, ScanRecords
<1>3. ToWrite \subseteq Found /\ Found \subseteq CacheFiles /\ Cached \subseteq CacheFiles
  BY DEF Found, Cached, ToWrite
<1>4. \A f \in ToGo : f \notin ToWrite /\ ~onDisk[f].there /\ alert = {} /\ f \in CacheFiles
  BY <1>3 DEF ToGo
<1>5. ASSUME NEW f \in CacheFiles
      PROVE  /\ cacheRow'[f] \in RowRecords
             /\ cacheRow'[f].in <=> (f \notin ToGo /\ (cacheRow[f].in \/ f \in ToWrite))
             /\ RowStays(f)
  <2>1. cacheRow[f] \in RowRecords /\ full.seen[f] \in Int /\ onDisk[f] \in FileRecords
        /\ cacheRow[f].count \in Int
    BY <1>2 DEF RowRecords
  <2>2. CASE f \in ToGo
    <3>1. cacheRow'[f] = NoCacheRow
      BY <1>1, <1>4, <2>2
    <3> QED
      BY <1>4, <2>2, <3>1, NoRowIs DEF RowStays
  <2>3. CASE f \in ToWrite
    <3>1. cacheRow'[f] = UpsertedRow(cacheRow[f], full.seen[f], onDisk[f]) /\ f \notin ToGo
      BY <1>1, <1>4, <2>3
    <3>2. /\ cacheRow'[f] \in RowRecords /\ cacheRow'[f].in
          /\ cacheRow'[f].count >= cacheRow[f].count /\ cacheRow'[f].hidden = cacheRow[f].hidden
      BY <2>1, <3>1, UpsertedFields
    <3> QED
      BY <2>3, <3>1, <3>2 DEF RowStays
  <2>4. CASE f \notin ToGo /\ f \notin ToWrite
    <3>1. cacheRow'[f] = cacheRow[f]
      BY <1>1, <2>4
    <3> QED
      BY <2>1, <2>4, <3>1 DEF RowStays
  <2> QED
    BY <2>2, <2>3, <2>4
<1>6. cacheRow' \in [CacheFiles -> RowRecords]
  BY <1>1, <1>5
<1>7. IndexSound'
  <2>1. Cached' = (Cached \cup ToWrite) \ ToGo
    BY <1>3, <1>5 DEF Cached
  <2> QED
    BY <1>1, <1>2, <2>1 DEF IndexSound
<1> QED
  BY <1>5, <1>6, <1>7 DEF RowsAreKept

LEMMA ResetKeepsRows ==
  ASSUME CacheIInv, ResetRescan
  PROVE  RowsAreKept
<1>1. /\ cacheRow' = [f \in CacheFiles |-> NoCacheRow] /\ fileIndex' = {} /\ resolving # NoResolution
  BY DEF ResetRescan, ClearAll, NoResolution
<1>2. ASSUME NEW f \in CacheFiles PROVE ~cacheRow'[f].in /\ RowStays(f)
  BY <1>1, NoRowIs DEF RowStays
<1>3. Cached' = {}
  BY <1>2 DEF Cached
<1> QED
  BY <1>1, <1>2, <1>3, NoRowIs DEF RowsAreKept, IndexSound

LEMMA RebootKeepsRows ==
  ASSUME CacheIInv, CacheReboot
  PROVE  RowsAreKept
<1>1. cacheRow' = cacheRow /\ loaded' = FALSE /\ cacheRow \in [CacheFiles -> RowRecords]
  BY DEF CacheReboot, CacheIInv, CacheTypes
<1>2. ASSUME NEW f \in CacheFiles PROVE RowStays(f)
  <2>1. cacheRow[f].count \in Int
    BY <1>1 DEF RowRecords
  <2> QED
    BY <1>1, <2>1 DEF RowStays
<1> QED
  BY <1>1, <1>2 DEF RowsAreKept, IndexSound

LEMMA UpsertsKeepRows ==
  ASSUME CacheIInv, UpsertParsed \/ WarmUpsert \/ UpsertRebuilt
  PROVE  RowsAreKept
<1>1. Found \subseteq CacheFiles /\ full.seen \in [CacheFiles -> Int] /\ pass \in [CacheFiles -> Int]
  BY DEF Found, CacheIInv, CacheTypes, ScanRecords
<1>2. CASE UpsertParsed
  <2>1. PICK f \in CacheFiles : Upsert(pass, {f})
    BY <1>2 DEF UpsertParsed
  <2> QED
    BY <1>1, <2>1, RowsGrow
<1>3. CASE WarmUpsert \/ UpsertRebuilt
  BY <1>1, <1>3, RowsGrow DEF WarmUpsert, UpsertRebuilt
<1> QED
  BY <1>2, <1>3

LEMMA DropsKeepRows ==
  ASSUME CacheIInv, HandleJsonlDeleted \/ PruneGhosts \/ PruneAll \/ PruneSelected
  PROVE  RowsAreKept
<1>1. CASE HandleJsonlDeleted
  <2>1. PICK f \in unlinked :
          /\ unlinked' = unlinked \ {f}
          /\ IF alert # {} THEN UNCHANGED rowVars ELSE Invalidate(f)
    BY <1>1 DEF HandleJsonlDeleted
  <2>2. CASE alert # {}
    BY <2>1, <2>2, RowsRest DEF rowVars
  <2>3. CASE alert = {}
    <3>1. Without({f}) /\ \A g \in {f} : g \in unlinked \ unlinked'
      BY <2>1, <2>3 DEF Invalidate
    <3> QED
      BY <2>3, <3>1, RowsGo
  <2> QED
    BY <2>2, <2>3
<1>2. CASE PruneGhosts
  <2>1. CASE alert # {}
    BY <1>2, <2>1, RowsRest DEF PruneGhosts, rowVars
  <2>2. CASE alert = {}
    <3>1. Without(Ghosts(Missing)) /\ \A f \in Ghosts(Missing) : ~onDisk[f].there
      BY <1>2, <2>2 DEF PruneGhosts, Ghosts, Missing
    <3> QED
      BY <2>2, <3>1, RowsGo
  <2> QED
    BY <2>1, <2>2
<1>3. CASE PruneAll
  <2>1. /\ resolving # NoResolution
        /\ Without({f \in resolving.missing : ~onDisk[f].there} \cup deferred)
    BY <1>3 DEF PruneAll, NoResolution
  <2> QED
    BY <2>1, RowsGo
<1>4. CASE PruneSelected
  <2>1. resolving # NoResolution /\ Without(resolving.ids)
    BY <1>4 DEF PruneSelected, NoResolution
  <2> QED
    BY <2>1, RowsGo
<1> QED
  BY <1>1, <1>2, <1>3, <1>4

LEMMA CacheKeepsRows ==
  ASSUME CacheIInv, [CacheNext]_cacheVars
  PROVE  RowsAreKept
<1>1. CASE \/ AppendMessage \/ Vanish \/ ComeBack \/ WatchFile \/ Parse \/ WindowPasses
           \/ DetectionDone \/ StartScan \/ ScanFile \/ DetectAtBoot \/ Claim \/ Ignore
           \/ UNCHANGED cacheVars
  <2>1. UNCHANGED rowVars
    BY <1>1, Zenon DEF AppendMessage, Vanish, ComeBack, WatchFile, Parse, WindowPasses, DetectionDone,
                StartScan, ScanFile, DetectAtBoot, Claim, Ignore, cacheVars
  <2> QED
    BY <2>1, RowsRest DEF rowVars
<1> QED
  BY <1>1, LinesKeepRows, UpsertsKeepRows, HidingKeepsRows, DropsKeepRows, ReconcileKeepsRows,
     TailsKeepRows, ResetKeepsRows, RebootKeepsRows, Zenon DEF CacheNext

-----------------------------------------------------------------------------
LEMMA NoScanIs == NoScan \in ScanRecords
  BY DEF NoScan, ScanRecords, NotRead

\* A scan begins with what the rows tell.
LEMMA ScanForTyped ==
  ASSUME NEW what \in {"warm-up", "refresh", "background", "reset"},
         NEW table \in [CacheFiles -> RowRecords], ScanFor(what, table)
  PROVE  full' \in ScanRecords
<1>1. PICK pairs : pairs = {[file |-> f, stamp |-> table[f].stamp, meta |-> table[f].meta] :
                             f \in {g \in CacheFiles : table[g].stamp # NotRead}}
  OBVIOUS
<1>2. pairs \in SUBSET [file : CacheFiles, stamp : Int, meta : Int]
  <2>1. \A f \in CacheFiles : table[f].stamp \in Int /\ table[f].meta \in Int
    BY DEF RowRecords
  <2> QED
    BY <1>1, <2>1
<1>3. NoScan \in ScanRecords
  BY NoScanIs
<1>4. full' = [NoScan EXCEPT !.for = what, !.todo = CacheFiles, !.known = pairs]
  BY <1>1 DEF ScanFor
<1> QED
  BY <1>2, <1>3, <1>4, Zenon DEF ScanRecords

LEMMA ScanOverTyped ==
  ASSUME cacheRow' \in [CacheFiles -> RowRecords], ScanOver
  PROVE  full' \in ScanRecords
<1>1. CASE full.owed
  <2>1. ScanFor("reset", cacheRow')
    BY <1>1 DEF ScanOver
  <2> QED
    BY <2>1, ScanForTyped
<1>2. CASE ~full.owed
  BY <1>2, NoScanIs DEF ScanOver
<1> QED
  BY <1>1, <1>2

LEMMA ScansTyped ==
  ASSUME CacheIInv, CacheNext, cacheRow' \in [CacheFiles -> RowRecords]
  PROVE  full' \in ScanRecords
<1>1. /\ full \in ScanRecords /\ cacheRow \in [CacheFiles -> RowRecords]
      /\ onDisk \in [CacheFiles -> FileRecords] /\ Found \subseteq CacheFiles
  BY DEF CacheIInv, CacheTypes, Found
<1>2. CASE full' = full
  BY <1>1, <1>2
<1>3. CASE StartScan
  <2>1. PICK what \in {"warm-up", "refresh", "background"} : ScanFor(what, cacheRow)
    BY <1>3 DEF StartScan
  <2> QED
    BY <1>1, <2>1, ScanForTyped
<1>4. CASE ScanFile
  <2>1. PICK f \in full.todo :
          full' = [full EXCEPT
            !.todo = @ \ {f},
            !.seen[f] = IF ~onDisk[f].there THEN NotRead
                        ELSE IF Unchanged(f) # {} THEN (CHOOSE k \in Unchanged(f) : TRUE).meta
                        ELSE onDisk[f].messages]
    BY <1>4 DEF ScanFile
  <2>2. f \in CacheFiles /\ full.known \subseteq [file : CacheFiles, stamp : Int, meta : Int]
    BY <1>1, <2>1 DEF ScanRecords
  <2>3. PICK n : n = IF ~onDisk[f].there THEN NotRead
                     ELSE IF Unchanged(f) # {} THEN (CHOOSE k \in Unchanged(f) : TRUE).meta
                     ELSE onDisk[f].messages
    OBVIOUS
  <2>4. n \in Int
    <3>1. CASE Unchanged(f) # {}
      <4>1. PICK k \in Unchanged(f) : k = CHOOSE m \in Unchanged(f) : TRUE
        BY <3>1
      <4>2. k.meta \in Int
        BY <2>2, <4>1 DEF Unchanged
      <4> QED
        BY <2>3, <3>1, <4>1, <4>2 DEF NotRead
    <3>2. CASE Unchanged(f) = {}
      BY <1>1, <2>2, <2>3, <3>2 DEF NotRead, FileRecords
    <3> QED
      BY <3>1, <3>2
  <2>5. PICK s \in [CacheFiles -> Int] : s = [full.seen EXCEPT ![f] = n]
    BY <1>1, <2>4 DEF ScanRecords
  <2>6. PICK todo \in SUBSET CacheFiles : todo = full.todo \ {f}
    BY <1>1 DEF ScanRecords
  <2>7. full' = [full EXCEPT !.todo = todo, !.seen = s]
    <3>1. full' = [full EXCEPT !.todo = full.todo \ {f},
                               !.seen = [full.seen EXCEPT ![f] =
                                  IF ~onDisk[f].there THEN NotRead
                                  ELSE IF Unchanged(f) # {} THEN (CHOOSE k \in Unchanged(f) : TRUE).meta
                                  ELSE onDisk[f].messages]]
      BY <1>1, <2>1, Zenon DEF ScanRecords
    <3> QED
      BY <2>3, <2>5, <2>6, <3>1, Zenon
  <2> QED
    BY <1>1, <2>7, Zenon DEF ScanRecords
<1>5. CASE ReconcileDisk \/ PruneGhosts \/ UpsertRebuilt
  <2>1. ScanOver
    BY <1>5 DEF ReconcileDisk, PruneGhosts, UpsertRebuilt
  <2> QED
    BY <2>1, ScanOverTyped
<1>6. CASE WarmUpsert
  <2>1. full' = [full EXCEPT !.for = "tails", !.todo = Found]
    BY <1>6 DEF WarmUpsert
  <2> QED
    BY <1>1, <2>1, Zenon DEF ScanRecords
<1>7. CASE PopulateTail
  <2>1. PICK f : full' = [full EXCEPT !.todo = @ \ {f}]
    BY <1>7 DEF PopulateTail
  <2> QED
    BY <1>1, <2>1 DEF ScanRecords
<1>8. CASE DetectAtBoot
  <2>1. full' = [full EXCEPT !.for = "prune"]
    BY <1>8 DEF DetectAtBoot
  <2> QED
    BY <1>1, <2>1, Zenon DEF ScanRecords
<1>9. CASE ResetRescan
  <2>1. CASE full = NoScan
    <3>1. ScanFor("reset", cacheRow')
      BY <1>9, <2>1 DEF ResetRescan
    <3> QED
      BY <3>1, ScanForTyped
  <2>2. CASE full # NoScan
    <3>1. full' = [full EXCEPT !.owed = TRUE]
      BY <1>9, <2>2 DEF ResetRescan
    <3> QED
      BY <1>1, <3>1, Zenon DEF ScanRecords
  <2> QED
    BY <2>1, <2>2
<1>10. CASE CacheReboot
  BY <1>10, NoScanIs DEF CacheReboot
<1>11. CASE \/ AppendMessage \/ Vanish \/ ComeBack \/ WatchFile \/ UpdateFromLines \/ Parse
            \/ UpsertParsed \/ SoftDelete \/ HandleJsonlDeleted \/ WindowPasses \/ DetectionDone
            \/ Claim \/ Ignore \/ PruneAll \/ PruneSelected
  <2>1. full' = full
    BY <1>11, Zenon DEF AppendMessage, Vanish, ComeBack, WatchFile, UpdateFromLines, Parse,
       UpsertParsed, SoftDelete, HandleJsonlDeleted, WindowPasses, DetectionDone,
       Claim, Ignore, PruneAll, PruneSelected, readVars
  <2> QED
    BY <1>2, <2>1
<1> QED
  BY <1>3, <1>4, <1>5, <1>6, <1>7, <1>8, <1>9, <1>10, <1>11, Zenon DEF CacheNext

LEMMA FilesTyped ==
  ASSUME CacheIInv, CacheNext
  PROVE  /\ onDisk' \in [CacheFiles -> FileRecords]
         /\ tailAt' \in [CacheFiles -> Int] /\ pass' \in [CacheFiles -> Int]
<1>1. /\ onDisk \in [CacheFiles -> FileRecords]
      /\ tailAt \in [CacheFiles -> Int] /\ pass \in [CacheFiles -> Int]
  BY DEF CacheIInv, CacheTypes
<1>2. \A f \in CacheFiles : onDisk[f].messages \in Int
  BY <1>1 DEF FileRecords
<1>3. onDisk' \in [CacheFiles -> FileRecords]
  <2>1. CASE AppendMessage
    <3>1. PICK f \in CacheFiles : onDisk' = [onDisk EXCEPT ![f].messages = @ + 1]
      BY <2>1 DEF AppendMessage
    <3> QED
      BY <1>1, <3>1 DEF FileRecords
  <2>2. CASE Vanish \/ ComeBack
    <3>1. PICK f \in CacheFiles, there \in BOOLEAN : onDisk' = [onDisk EXCEPT ![f].there = there]
      BY <2>2, Zenon DEF Vanish, ComeBack
    <3> QED
      BY <1>1, <3>1 DEF FileRecords
  <2>3. CASE ~(AppendMessage \/ Vanish \/ ComeBack)
    <3>1. onDisk' = onDisk
      BY <2>3, Zenon DEF CacheNext, WatchFile, UpdateFromLines, Parse, UpsertParsed, SoftDelete,
         HandleJsonlDeleted, WindowPasses, DetectionDone, StartScan, ScanFile, ReconcileDisk,
         WarmUpsert, PopulateTail, DetectAtBoot, PruneGhosts, UpsertRebuilt, Claim, Ignore, PruneAll,
         PruneSelected, ResetRescan, CacheReboot, fileVars
    <3> QED
      BY <1>1, <3>1
  <2> QED
    BY <2>1, <2>2, <2>3
<1>4. tailAt' \in [CacheFiles -> Int]
  <2>1. CASE WatchFile \/ UpdateFromLines
    <3>1. PICK f \in CacheFiles : tailAt' = [tailAt EXCEPT ![f] = onDisk[f].messages]
      BY <2>1 DEF WatchFile, UpdateFromLines
    <3> QED
      BY <1>1, <1>2, <3>1
  <2>2. CASE HandleJsonlDeleted
    <3>1. PICK f \in unlinked : tailAt' = [tailAt EXCEPT ![f] = NotTailed]
      BY <2>2, Zenon DEF HandleJsonlDeleted
    <3>2. NotTailed \in Int
      BY DEF NotTailed
    <3>3. DOMAIN tailAt' = CacheFiles /\ \A g \in CacheFiles : tailAt'[g] \in {tailAt[g], NotTailed}
      BY <1>1, <3>1, Zenon
    <3>4. tailAt' = [g \in CacheFiles |-> tailAt'[g]]
      BY <1>1, <3>1, Zenon
    <3> QED
      BY <1>1, <3>2, <3>3, <3>4
  <2>3. CASE CacheReboot
    BY <2>3 DEF CacheReboot, NotTailed
  <2>4. CASE ~(WatchFile \/ UpdateFromLines \/ HandleJsonlDeleted \/ CacheReboot)
    <3>1. tailAt' = tailAt
      BY <2>4, Zenon DEF CacheNext, AppendMessage, Vanish, ComeBack, Parse, UpsertParsed, SoftDelete,
         WindowPasses, DetectionDone, StartScan, ScanFile, ReconcileDisk,
         WarmUpsert, PopulateTail, DetectAtBoot, PruneGhosts, UpsertRebuilt, Claim, Ignore, PruneAll,
         PruneSelected, ResetRescan, fileVars
    <3> QED
      BY <1>1, <3>1
  <2> QED
    BY <2>1, <2>2, <2>3, <2>4
<1>5. pass' \in [CacheFiles -> Int]
  <2>1. CASE Parse
    <3>1. PICK f \in CacheFiles : pass' = [pass EXCEPT ![f] = onDisk[f].messages]
      BY <2>1 DEF Parse
    <3> QED
      BY <1>1, <1>2, <3>1
  <2>2. CASE UpsertParsed
    <3>1. \E f \in CacheFiles : pass' = [pass EXCEPT ![f] = NotRead]
      BY <2>2, Zenon DEF UpsertParsed
    <3> QED
      BY <1>1, <3>1 DEF NotRead
  <2>3. CASE CacheReboot
    BY <2>3 DEF CacheReboot, NotRead
  <2>4. CASE ~(Parse \/ UpsertParsed \/ CacheReboot)
    <3>1. pass' = pass
      BY <2>4, Zenon DEF CacheNext, AppendMessage, Vanish, ComeBack, WatchFile, UpdateFromLines,
         SoftDelete, HandleJsonlDeleted, WindowPasses, DetectionDone, StartScan, ScanFile,
         ReconcileDisk, WarmUpsert, PopulateTail, DetectAtBoot, PruneGhosts, UpsertRebuilt, Claim,
         Ignore, PruneAll, PruneSelected, ResetRescan, readVars
    <3> QED
      BY <1>1, <3>1
  <2> QED
    BY <2>1, <2>2, <2>3, <2>4
<1> QED
  BY <1>3, <1>4, <1>5

-----------------------------------------------------------------------------
\* runDetection leaves the alert and the file agreeing, if kept is the alert in the file.
LEMMA DetectKeepsAlert ==
  ASSUME DOMAIN saved = {"alert", "ignored"}, NEW missing, NEW then, NEW kept,
         Detect(missing, then, kept), alert # {} => kept = alert
  PROVE  DOMAIN saved' = {"alert", "ignored"} /\ AlertSaved'
<1>1. PICK new : new = missing \ saved.ignored
  OBVIOUS
<1>2. /\ saved' = [saved EXCEPT !.alert = kept] \/ saved' = [saved EXCEPT !.alert = new]
      /\ \/ saved' = [saved EXCEPT !.alert = kept] /\ alert' = alert
         \/ saved' = [saved EXCEPT !.alert = new] /\ alert' = new
  <2>1. MinMissing \in Nat \ {0} /\ Cardinality({}) = 0
    BY CacheRowsAssumption, FS_EmptySet DEF CacheRowsAssumption
  <2>2. CASE Cardinality(new) >= MinMissing
    <3>1. new # {}
      BY <2>1, <2>2
    <3> QED
      BY <1>1, <2>2, <3>1 DEF Detect
  <2>3. CASE ~(Cardinality(new) >= MinMissing) /\ new = {} /\ alert = {}
    BY <1>1, <2>3 DEF Detect
  <2>4. CASE ~(Cardinality(new) >= MinMissing) /\ ~(new = {} /\ alert = {})
    BY <1>1, <2>4 DEF Detect, Raise
  <2> QED
    BY <2>2, <2>3, <2>4
<1> QED
  BY <1>2 DEF AlertSaved

LEMMA AlertKept ==
  ASSUME CacheIInv, CacheNext
  PROVE  DOMAIN saved' = {"alert", "ignored"} /\ AlertSaved'
<1>1. DOMAIN saved = {"alert", "ignored"} /\ AlertSaved
  BY DEF CacheIInv, CacheTypes, CacheInv
<1>2. CASE alert' = alert /\ saved' = saved
  BY <1>1, <1>2 DEF AlertSaved
<1>3. CASE HandleJsonlDeleted
  <2>1. CASE \E missing : Detect(missing, "storm", saved.alert)
    BY <1>1, <2>1, DetectKeepsAlert DEF AlertSaved
  <2>2. CASE alert' = alert /\ saved' = saved
    BY <1>2, <2>2
  <2> QED
    BY <1>3, <2>1, <2>2, Zenon DEF HandleJsonlDeleted
<1>4. CASE DetectAtBoot
  <2>1. Detect(Missing, "warm-up", saved.alert)
    BY <1>4 DEF DetectAtBoot
  <2> QED
    BY <1>1, <2>1, DetectKeepsAlert DEF AlertSaved
<1>5. CASE PruneSelected
  <2>1. Detect(Missing \ resolving.ids, "select", alert)
    BY <1>5 DEF PruneSelected
  <2> QED
    BY <1>1, <2>1, DetectKeepsAlert
<1>6. CASE DetectionDone
  BY <1>1, <1>6 DEF DetectionDone, Raise, AlertSaved
<1>7. CASE Claim
  BY <1>1, <1>7 DEF Claim, AlertSaved
<1>8. CASE Ignore
  BY <1>8 DEF Ignore, AlertSaved
<1>9. CASE PruneAll \/ ResetRescan
  BY <1>1, <1>9 DEF PruneAll, ResetRescan, Cleared, AlertSaved
<1>10. CASE CacheReboot
  BY <1>1, <1>10 DEF CacheReboot, AlertSaved
<1>11. CASE \/ AppendMessage \/ Vanish \/ ComeBack \/ WatchFile \/ UpdateFromLines \/ Parse
            \/ UpsertParsed \/ SoftDelete \/ WindowPasses \/ StartScan \/ ScanFile \/ ReconcileDisk
            \/ WarmUpsert \/ PopulateTail \/ PruneGhosts \/ UpsertRebuilt
  <2>1. alert' = alert /\ saved' = saved
    BY <1>11, Zenon DEF AppendMessage, Vanish, ComeBack, WatchFile, UpdateFromLines, Parse,
       UpsertParsed, SoftDelete, WindowPasses, StartScan, ScanFile, ReconcileDisk, WarmUpsert,
       PopulateTail, PruneGhosts, UpsertRebuilt, monitorVars
  <2> QED
    BY <1>2, <2>1
<1> QED
  BY <1>3, <1>4, <1>5, <1>6, <1>7, <1>8, <1>9, <1>10, <1>11, Zenon DEF CacheNext

-----------------------------------------------------------------------------
LEMMA CacheBegins == CacheInit => CacheIInv
<1> SUFFICES ASSUME CacheInit PROVE CacheIInv
  OBVIOUS
<1>1. NoCacheRow \in RowRecords /\ RowOf(1) \in RowRecords
  <2>1. <<1>> \in Seq(Int) /\ 1 \in Int
    OBVIOUS
  <2> QED
    BY <2>1, NoRowIs, Zenon DEF RowOf, RowRecords
<1>2. cacheRow \in [CacheFiles -> RowRecords]
  BY <1>1 DEF CacheInit
<1>3. /\ onDisk \in [CacheFiles -> FileRecords] /\ tailAt \in [CacheFiles -> Int]
      /\ pass \in [CacheFiles -> Int] /\ full \in ScanRecords
  BY NoScanIs DEF CacheInit, FileRecords, NotTailed, NotRead
<1>4. DOMAIN saved = {"alert", "ignored"} /\ CacheInv
  BY DEF CacheInit, CacheInv, IndexSound, AlertSaved
<1> QED
  BY <1>2, <1>3, <1>4 DEF CacheIInv, CacheTypes

LEMMA CacheStep == CacheIInv /\ [CacheNext]_cacheVars => CacheIInv'
<1> SUFFICES ASSUME CacheIInv, [CacheNext]_cacheVars PROVE CacheIInv'
  OBVIOUS
<1>1. CASE CacheNext
  <2>1. cacheRow' \in [CacheFiles -> RowRecords] /\ IndexSound'
    BY <1>1, CacheKeepsRows DEF RowsAreKept
  <2>2. full' \in ScanRecords
    BY <1>1, <2>1, ScansTyped
  <2> QED
    BY <1>1, <2>1, <2>2, FilesTyped, AlertKept DEF CacheIInv, CacheTypes, CacheInv
<1>2. CASE UNCHANGED cacheVars
  BY <1>2 DEF cacheVars, fileVars, rowVars, readVars, monitorVars, CacheIInv, CacheTypes, CacheInv,
     IndexSound, AlertSaved, Cached
<1> QED
  BY <1>1, <1>2

-----------------------------------------------------------------------------
(* The offset index of one transcript: what it says of the file that the   *)
(* path names is true as far as the file has been read.                    *)

Kinds == {"msg", "side"}
LinesRead == 0..MaxLines

StateRecords ==
  [has : BOOLEAN, id : 0..MaxFiles, off : {2 * a : a \in LinesRead}, last : -1..(MaxLines - 1)]
WalkRecords ==
  [pc : {"none", "open", "read", "close"}, id : 0..MaxFiles, at : LinesRead, next : LinesRead]
TailRecords ==
  [on : BOOLEAN, off : LinesRead, pc : {"no", "stat", "read"}, size : Nat, pending : BOOLEAN]
IndexRecords ==
  [state : StateRecords, rows : [Messages -> LinesRead], walk : WalkRecords, holed : BOOLEAN]

\* The messages among lines of a file.
Among(t, from, to) == {l \in (from + 1)..to : t[l] = "msg"}
Msgs(t, from, to) == Cardinality(Among(t, from, to))

\* n messages lie before a line, and what rows there are for them name their lines.
Right(t, at, n, marks) ==
  /\ n = Msgs(t, 0, at)
  /\ \A i \in Messages : i < n /\ marks[i] # 0 =>
       marks[i] <= at /\ t[marks[i]] = "msg" /\ Msgs(t, 0, marks[i] - 1) = i

Whole(n, marks) == \A i \in Messages : i < n => marks[i] # 0

Says(s, id, at) == s.has /\ s.id = id /\ s.off = 2 * at
Walks(w) == w.pc \in {"read", "close"}

\* What the index says of a file that is not shorter than what was read of it.
IndexFits(x, id, t) ==
  /\ x \in IndexRecords
  /\ ~x.state.has => x.state = NoState
  /\ \A at \in 0..Len(t) : Says(x.state, id, at) =>
       Right(t, at, x.state.last + 1, x.rows) /\ (~x.holed => Whole(x.state.last + 1, x.rows))
  /\ Walks(x.walk) =>
       /\ x.walk.id = id
       /\ x.walk.at <= Len(t) => Right(t, x.walk.at, x.walk.next, x.rows)
                                 /\ (~x.holed => Whole(x.walk.next, x.rows))
  /\ ~Walks(x.walk) => x.walk.at = 0 /\ x.walk.next = 0 /\ x.walk.id = 0

IndexIInv ==
  /\ indexed \in 1..MaxFiles /\ text \in [1..MaxFiles -> Seq(Kinds)]
  /\ Len(text[indexed]) <= MaxLines /\ \A f \in 1..MaxFiles : f > indexed => text[f] = <<>>
  /\ {torn, known} \subseteq BOOLEAN
  /\ IndexFits(Index, indexed, text[indexed]) /\ state.id <= indexed
  /\ tail \in TailRecords
  /\ tail.on => (state.has => state.id = indexed)
  /\ tail.pc # "no" => tail.on
  /\ PendingIsRead
  /\ upsets \in Nat

-----------------------------------------------------------------------------
(* The messages among the lines of a file.                                 *)

LEMMA MsgsIsNat ==
  ASSUME NEW t, NEW from \in Nat, NEW to \in Int
  PROVE  IsFiniteSet(Among(t, from, to)) /\ Msgs(t, from, to) \in Nat
<1>1. IsFiniteSet((from + 1)..to)
  BY FS_Interval
<1>2. Among(t, from, to) \in SUBSET ((from + 1)..to)
  BY DEF Among
<1>3. IsFiniteSet(Among(t, from, to))
  BY <1>1, <1>2, FS_Subset
<1> QED
  BY <1>3, FS_CardinalityType DEF Msgs

LEMMA MsgsNone ==
  ASSUME NEW t, NEW from \in Nat
  PROVE  Msgs(t, from, from) = 0
<1>1. Among(t, from, from) = {}
  BY DEF Among
<1> QED
  BY <1>1, FS_EmptySet DEF Msgs

LEMMA MsgsBounded ==
  ASSUME NEW t, NEW to \in Nat
  PROVE  Msgs(t, 0, to) <= to
<1>1. IsFiniteSet(1..to) /\ Cardinality(1..to) = to
  <2>1. IsFiniteSet(1..to) /\ Cardinality(1..to) = IF 1 > to THEN 0 ELSE to - 1 + 1
    BY FS_Interval
  <2> QED
    BY <2>1
<1>2. Among(t, 0, to) \in SUBSET (1..to)
  BY DEF Among
<1>3. Cardinality(Among(t, 0, to)) <= Cardinality(1..to)
  BY <1>1, <1>2, FS_Subset
<1> QED
  BY <1>1, <1>3 DEF Msgs

LEMMA MsgsSplit ==
  ASSUME NEW t, NEW a \in Nat, NEW b \in Nat, NEW c \in Nat, a <= b, b <= c
  PROVE  Msgs(t, a, c) = Msgs(t, a, b) + Msgs(t, b, c)
<1>1. PICK S : S = Among(t, a, b)
  OBVIOUS
<1>2. PICK T : T = Among(t, b, c)
  OBVIOUS
<1>3. IsFiniteSet(S) /\ IsFiniteSet(T)
  BY <1>1, <1>2, MsgsIsNat
<1>4. S \cap T = {}
  BY <1>1, <1>2 DEF Among
<1>5. Among(t, a, c) = S \cup T
  BY <1>1, <1>2 DEF Among
<1>6. Cardinality(S \cup T) = Cardinality(S) + Cardinality(T) - Cardinality(S \cap T)
  BY <1>3, FS_Union
<1>7. Cardinality(S \cap T) = 0
  BY <1>4, FS_EmptySet
<1>8. Cardinality(S) \in Nat /\ Cardinality(T) \in Nat
  BY <1>3, FS_CardinalityType
<1>9. Cardinality(S \cup T) = Cardinality(S) + Cardinality(T)
  BY <1>6, <1>7, <1>8
<1> QED
  BY <1>1, <1>2, <1>5, <1>9 DEF Msgs

LEMMA MsgsGrow ==
  ASSUME NEW t, NEW a \in Nat, NEW b \in Nat, a <= b
  PROVE  Msgs(t, 0, a) <= Msgs(t, 0, b)
<1>1. Msgs(t, 0, b) = Msgs(t, 0, a) + Msgs(t, a, b)
  BY MsgsSplit
<1>2. Msgs(t, 0, a) \in Nat /\ Msgs(t, a, b) \in Nat
  BY MsgsIsNat
<1> QED
  BY <1>1, <1>2

LEMMA MsgsOfLine ==
  ASSUME NEW t, NEW l \in Nat, l > 0
  PROVE  Msgs(t, l - 1, l) = IF t[l] = "msg" THEN 1 ELSE 0
<1>1. Among(t, l - 1, l) = IF t[l] = "msg" THEN {l} ELSE {}
  BY DEF Among
<1> QED
  BY <1>1, FS_EmptySet, FS_Singleton DEF Msgs

LEMMA MsgsOfPrefix ==
  ASSUME NEW t, NEW u, NEW to \in Int, \A l \in 1..to : t[l] = u[l]
  PROVE  Msgs(t, 0, to) = Msgs(u, 0, to)
<1>1. Among(t, 0, to) = Among(u, 0, to)
  BY DEF Among
<1> QED
  BY <1>1 DEF Msgs

\* Every number below the count is the number of a message.
LEMMA NumberIsTaken ==
  ASSUME NEW t, NEW to \in Nat, NEW i \in Nat, i < Msgs(t, 0, to)
  PROVE  \E l \in 1..to : t[l] = "msg" /\ Msgs(t, 0, l - 1) = i
<1> DEFINE S == {l \in Nat : i < Msgs(t, 0, l)}
<1>1. to \in S
  OBVIOUS
<1>2. PICK l \in S : \A m \in S : ~(m < l)
  <2>1. \E g \in S : \A h \in S : ~(<<h, g>> \in OpToRel(<, Nat))
    BY <1>1, NatLessThanWellFounded, WFMin, Zenon
  <2> QED
    BY <2>1 DEF OpToRel
<1>3. l \in Nat /\ i < Msgs(t, 0, l)
  OBVIOUS
<1>4. l <= to
  BY <1>1, <1>2
<1>5. l # 0
  BY <1>3, MsgsNone
<1>6. l - 1 \in Nat /\ l - 1 \notin S
  BY <1>2, <1>3, <1>5
<1>7. ~(i < Msgs(t, 0, l - 1)) /\ Msgs(t, 0, l - 1) \in Nat
  BY <1>6, MsgsIsNat
<1>8. Msgs(t, 0, l) = Msgs(t, 0, l - 1) + (IF t[l] = "msg" THEN 1 ELSE 0)
  <2>1. Msgs(t, 0, l) = Msgs(t, 0, l - 1) + Msgs(t, l - 1, l)
    BY <1>3, <1>6, MsgsSplit
  <2> QED
    BY <1>3, <1>5, <2>1, MsgsOfLine
<1> QED
  BY <1>3, <1>4, <1>5, <1>7, <1>8

\* A message that has a number below the count lies before the line.
LEMMA NumberedBefore ==
  ASSUME NEW t, NEW at \in Nat, NEW l \in Nat, l > 0, Msgs(t, 0, l - 1) < Msgs(t, 0, at)
  PROVE  l <= at
<1>1. SUFFICES ASSUME at <= l - 1
               PROVE  FALSE
  OBVIOUS
<1>2. Msgs(t, 0, at) <= Msgs(t, 0, l - 1)
  BY <1>1, MsgsGrow
<1> QED
  BY <1>2, MsgsIsNat

-----------------------------------------------------------------------------
(* The rows of the lines read.                                             *)

\* The rows of the messages among the lines from + 1 .. to.
RowsFor(r, t, from, to) ==
  /\ r \in [Messages -> LinesRead]
  /\ \A i \in Messages : r[i] # 0 =>
       r[i] \in 1..to /\ t[r[i]] = "msg" /\ Msgs(t, 0, r[i] - 1) = i
  /\ \A i \in Messages : Msgs(t, 0, from) <= i /\ i < Msgs(t, 0, to) => r[i] # 0

LEMMA NumberedIs ==
  ASSUME NEW f, NEW t, t = text[f], NEW from \in Nat, NEW to \in Nat, from <= to, to <= MaxLines,
         NEW next, next = Msgs(t, 0, from)
  PROVE  RowsFor(Numbered(f, from, to, next), t, from, to)
<1> DEFINE Lines(i) == {l \in (from + 1)..to :
             t[l] = "msg" /\ next + Cardinality({k \in (from + 1)..(l - 1) : t[k] = "msg"}) = i}
           R == Numbered(f, from, to, next)
<1>1. R = [i \in Messages |-> IF Lines(i) = {} THEN 0 ELSE CHOOSE l \in Lines(i) : TRUE]
  BY DEF Numbered
<1>2. ASSUME NEW i, NEW l \in (from + 1)..to
      PROVE  l \in Lines(i) <=> t[l] = "msg" /\ Msgs(t, 0, l - 1) = i
  <2>1. Msgs(t, 0, l - 1) = Msgs(t, 0, from) + Msgs(t, from, l - 1)
    BY MsgsSplit
  <2> QED
    BY <2>1 DEF Msgs, Among
<1>3. ASSUME NEW i \in Messages
      PROVE  /\ Lines(i) = {} => R[i] = 0
             /\ Lines(i) # {} => R[i] \in Lines(i)
  BY <1>1
<1>4. ASSUME NEW i \in Messages, R[i] # 0
      PROVE  R[i] \in 1..to /\ t[R[i]] = "msg" /\ Msgs(t, 0, R[i] - 1) = i
  <2>1. R[i] \in Lines(i)
    BY <1>3, <1>4
  <2>2. R[i] \in (from + 1)..to
    BY <2>1
  <2> HIDE DEF Lines, R
  <2> QED
    BY <1>2, <2>1, <2>2
<1>5. R \in [Messages -> LinesRead]
  <2>1. ASSUME NEW i \in Messages
        PROVE  R[i] \in LinesRead
    <3> HIDE DEF R
    <3>1. R[i] = 0 \/ R[i] \in 1..to
      BY <1>4
    <3> QED
      BY <3>1, IndexConstantsAssumption DEF LinesRead
  <2> HIDE DEF Lines
  <2> QED
    BY <1>1, <2>1
<1> HIDE DEF R
<1>6. ASSUME NEW i \in Messages, Msgs(t, 0, from) <= i, i < Msgs(t, 0, to)
      PROVE  R[i] # 0
  <2>1. i \in Nat
    BY DEF Messages
  <2>2. PICK l \in 1..to : t[l] = "msg" /\ Msgs(t, 0, l - 1) = i
    BY <1>6, <2>1, NumberIsTaken
  <2>3. ~(l <= from)
    <3> SUFFICES ASSUME l <= from PROVE FALSE
      OBVIOUS
    <3>1. Msgs(t, 0, l) = Msgs(t, 0, l - 1) + Msgs(t, l - 1, l)
      BY MsgsSplit
    <3>2. Msgs(t, l - 1, l) = 1
      BY <2>2, MsgsOfLine
    <3>3. Msgs(t, 0, l) <= Msgs(t, 0, from)
      BY MsgsGrow
    <3>4. Msgs(t, 0, from) \in Nat
      BY MsgsIsNat
    <3> QED
      BY <1>6, <2>1, <2>2, <3>1, <3>2, <3>3, <3>4
  <2>4. l \in (from + 1)..to
    BY <2>3
  <2>5. l \in Lines(i)
    BY <1>2, <2>2, <2>4
  <2>6. R[i] \in (from + 1)..to
    BY <1>3, <2>5
  <2> QED
    BY <2>6
<1>7. RowsFor(R, t, from, to)
  BY <1>4, <1>5, <1>6 DEF RowsFor
<1> QED
  BY <1>7 DEF R

LEMMA WrittenTyped ==
  ASSUME NEW old \in [Messages -> LinesRead], NEW r \in [Messages -> LinesRead]
  PROVE  /\ Written(old, r) \in [Messages -> LinesRead]
         /\ \A i \in Messages : Written(old, r)[i] = IF r[i] # 0 THEN r[i] ELSE old[i]
  BY DEF Written

\* Rows of lines read mend the rows there are, however far those go.
LEMMA WrittenRight ==
  ASSUME NEW t, NEW from \in Nat, NEW to \in Nat, NEW r, RowsFor(r, t, from, to),
         NEW old \in [Messages -> LinesRead], NEW at \in Nat, NEW n, Right(t, at, n, old)
  PROVE  Right(t, at, n, Written(old, r)) /\ (Whole(n, old) => Whole(n, Written(old, r)))
<1>1. /\ r \in [Messages -> LinesRead] /\ Messages \subseteq Nat
      /\ \A i \in Messages : r[i] # 0 => r[i] \in 1..to /\ t[r[i]] = "msg" /\ Msgs(t, 0, r[i] - 1) = i
  BY DEF RowsFor, Messages
<1>2. PICK w : w = Written(old, r)
  OBVIOUS
<1>3. \A i \in Messages : w[i] = IF r[i] # 0 THEN r[i] ELSE old[i]
  BY <1>1, <1>2, WrittenTyped
<1>4. n = Msgs(t, 0, at)
  BY DEF Right
<1>5. ASSUME NEW i \in Messages, i < n, w[i] # 0
      PROVE  w[i] <= at /\ t[w[i]] = "msg" /\ Msgs(t, 0, w[i] - 1) = i
  <2>1. CASE r[i] # 0
    <3>1. r[i] \in 1..to /\ t[r[i]] = "msg" /\ Msgs(t, 0, r[i] - 1) = i
      BY <1>1, <2>1
    <3>2. r[i] \in Nat /\ r[i] > 0
      BY <3>1
    <3>3. Msgs(t, 0, r[i] - 1) < Msgs(t, 0, at)
      BY <1>4, <1>5, <3>1
    <3>4. r[i] <= at
      BY <3>2, <3>3, NumberedBefore
    <3> QED
      BY <1>3, <2>1, <3>1, <3>4
  <2>2. CASE r[i] = 0
    BY <1>3, <1>5, <2>2 DEF Right
  <2> QED
    BY <2>1, <2>2
<1>6. Whole(n, old) => Whole(n, w)
  BY <1>3 DEF Whole
<1> QED
  BY <1>2, <1>4, <1>5, <1>6 DEF Right

\* Those of the lines that follow carry the rows on.
LEMMA WrittenExtends ==
  ASSUME NEW t, NEW from \in Nat, NEW to \in Nat, from <= to, NEW r, RowsFor(r, t, from, to),
         NEW old \in [Messages -> LinesRead], NEW n, Right(t, from, n, old)
  PROVE  /\ Right(t, to, n + Msgs(t, from, to), Written(old, r))
         /\ Whole(n, old) => Whole(n + Msgs(t, from, to), Written(old, r))
<1>1. /\ r \in [Messages -> LinesRead] /\ Messages \subseteq Nat
      /\ \A i \in Messages : r[i] # 0 => r[i] \in 1..to /\ t[r[i]] = "msg" /\ Msgs(t, 0, r[i] - 1) = i
      /\ \A i \in Messages : Msgs(t, 0, from) <= i /\ i < Msgs(t, 0, to) => r[i] # 0
  BY DEF RowsFor, Messages
<1>2. PICK w : w = Written(old, r)
  OBVIOUS
<1>3. \A i \in Messages : w[i] = IF r[i] # 0 THEN r[i] ELSE old[i]
  BY <1>1, <1>2, WrittenTyped
<1>4. n = Msgs(t, 0, from) /\ n \in Nat
  BY MsgsIsNat DEF Right
<1>5. PICK m \in Nat : m = n + Msgs(t, from, to) /\ m = Msgs(t, 0, to)
  BY <1>4, MsgsSplit, MsgsIsNat
<1>6. ASSUME NEW i \in Messages, i < m, w[i] # 0
      PROVE  w[i] <= to /\ t[w[i]] = "msg" /\ Msgs(t, 0, w[i] - 1) = i
  <2>1. CASE r[i] # 0
    <3>1. r[i] \in 1..to /\ t[r[i]] = "msg" /\ Msgs(t, 0, r[i] - 1) = i
      BY <1>1, <2>1
    <3> QED
      BY <1>3, <2>1, <3>1
  <2>2. CASE r[i] = 0
    <3>1. w[i] = old[i] /\ i \in Nat /\ old[i] \in Nat
      BY <1>1, <1>3, <2>2 DEF LinesRead
    <3>2. i < n
      BY <1>1, <1>4, <1>5, <1>6, <2>2, <3>1
    <3>3. old[i] <= from /\ t[old[i]] = "msg" /\ Msgs(t, 0, old[i] - 1) = i
      BY <1>6, <3>1, <3>2 DEF Right
    <3> QED
      BY <3>1, <3>3
  <2> QED
    BY <2>1, <2>2
<1>7. ASSUME Whole(n, old), NEW i \in Messages, i < m
      PROVE  w[i] # 0
  <2>1. i \in Nat
    BY <1>1
  <2>2. CASE i < n
    BY <1>3, <1>7, <2>2 DEF Whole
  <2>3. CASE ~(i < n)
    BY <1>1, <1>3, <1>4, <1>5, <1>7, <2>1, <2>3
  <2> QED
    BY <2>2, <2>3
<1>8. Right(t, to, m, w)
  BY <1>5, <1>6 DEF Right
<1>9. Whole(n, old) => Whole(m, w)
  BY <1>7 DEF Whole
<1> QED
  BY <1>2, <1>5, <1>8, <1>9

-----------------------------------------------------------------------------
(* The index fits a file that grew or was cut behind what was read of it.  *)

LEMMA OtherPrefix ==
  ASSUME NEW t, NEW u, NEW at \in Nat, \A l \in 1..at : t[l] = u[l], NEW n, NEW marks,
         marks \in [Messages -> LinesRead], Right(t, at, n, marks)
  PROVE  Right(u, at, n, marks)
<1>1. n = Msgs(u, 0, at)
  BY MsgsOfPrefix DEF Right
<1>2. ASSUME NEW i \in Messages, i < n, marks[i] # 0
      PROVE  marks[i] <= at /\ u[marks[i]] = "msg" /\ Msgs(u, 0, marks[i] - 1) = i
  <2>1. marks[i] <= at /\ t[marks[i]] = "msg" /\ Msgs(t, 0, marks[i] - 1) = i
    BY <1>2 DEF Right
  <2>2. marks[i] \in 1..at
    BY <1>2, <2>1 DEF LinesRead
  <2>3. \A l \in 1..(marks[i] - 1) : t[l] = u[l]
    BY <2>2
  <2>4. Msgs(t, 0, marks[i] - 1) = Msgs(u, 0, marks[i] - 1)
    BY <2>2, <2>3, MsgsOfPrefix
  <2> QED
    BY <2>1, <2>2, <2>4
<1> QED
  BY <1>1, <1>2 DEF Right

LEMMA FitsOtherText ==
  ASSUME NEW x, NEW id, NEW t \in Seq(Kinds), NEW u \in Seq(Kinds), IndexFits(x, id, t),
         \A at \in 0..Len(u) : Says(x.state, id, at) => at <= Len(t),
         Walks(x.walk) /\ x.walk.at <= Len(u) => x.walk.at <= Len(t),
         \A l \in 1..Len(u) : l <= Len(t) => t[l] = u[l]
  PROVE  IndexFits(x, id, u)
<1>1. x \in IndexRecords /\ (~x.state.has => x.state = NoState)
      /\ (~Walks(x.walk) => x.walk.at = 0 /\ x.walk.next = 0 /\ x.walk.id = 0)
  BY DEF IndexFits
<1>2. x.rows \in [Messages -> LinesRead] /\ x.walk.at \in Nat /\ x.walk.next \in Nat
  <2>1. x.rows \in [Messages -> LinesRead] /\ x.walk \in WalkRecords
    BY <1>1 DEF IndexRecords
  <2> QED
    BY <2>1 DEF WalkRecords, LinesRead
<1>3. ASSUME NEW at \in 0..Len(u), Says(x.state, id, at)
      PROVE  Right(u, at, x.state.last + 1, x.rows) /\ (~x.holed => Whole(x.state.last + 1, x.rows))
  <2>1. at \in 0..Len(t) /\ at \in Nat
    BY <1>3
  <2>2. Right(t, at, x.state.last + 1, x.rows) /\ (~x.holed => Whole(x.state.last + 1, x.rows))
    BY <1>3, <2>1 DEF IndexFits
  <2>3. \A l \in 1..at : t[l] = u[l]
    BY <2>1
  <2> QED
    BY <1>2, <2>1, <2>2, <2>3, OtherPrefix
<1>4. ASSUME Walks(x.walk), x.walk.at <= Len(u)
      PROVE  /\ Right(u, x.walk.at, x.walk.next, x.rows)
             /\ ~x.holed => Whole(x.walk.next, x.rows)
  <2>1. x.walk.at <= Len(t)
    BY <1>4
  <2>2. /\ Right(t, x.walk.at, x.walk.next, x.rows)
        /\ ~x.holed => Whole(x.walk.next, x.rows)
    BY <1>4, <2>1 DEF IndexFits
  <2>3. \A l \in 1..x.walk.at : t[l] = u[l]
    BY <1>2, <1>4, <2>1
  <2>4. Right(u, x.walk.at, x.walk.next, x.rows)
    <3>1. PICK at \in Nat, n \in Nat : at = x.walk.at /\ n = x.walk.next
      BY <1>2
    <3>2. Right(t, at, n, x.rows) /\ \A l \in 1..at : t[l] = u[l]
      BY <2>2, <2>3, <3>1
    <3>3. PICK r \in [Messages -> LinesRead] : r = x.rows
      BY <1>2
    <3>4. Right(u, at, n, r)
      BY <3>2, <3>3, OtherPrefix
    <3> QED
      BY <3>1, <3>3, <3>4
  <2> QED
    BY <2>2, <2>4, Zenon
<1>5. Walks(x.walk) => x.walk.id = id
  BY DEF IndexFits
<1> QED
  BY <1>1, <1>3, <1>4, <1>5 DEF IndexFits

-----------------------------------------------------------------------------
(* What is done to the index.                                              *)

LEMMA NothingIs ==
  /\ NoState \in StateRecords /\ ~NoState.has /\ NoState.off = 0 /\ NoState.last = -1 /\ NoState.id = 0
  /\ NoRows \in [Messages -> LinesRead] /\ \A i \in Messages : NoRows[i] = 0
  /\ NoWalk \in WalkRecords /\ NoWalk.pc = "none" /\ ~Walks(NoWalk)
  /\ NoWalk.at = 0 /\ NoWalk.next = 0 /\ NoWalk.id = 0
<1>1. 0 \in LinesRead /\ 0 \in 0..MaxFiles /\ -1 \in -1..(MaxLines - 1) /\ 0 = 2 * 0
  BY IndexConstantsAssumption DEF LinesRead
<1>2. 0 \in {2 * a : a \in LinesRead}
  BY <1>1
<1>3. NoState \in StateRecords
  BY <1>1, <1>2 DEF NoState, StateRecords
<1>4. NoRows \in [Messages -> LinesRead] /\ \A i \in Messages : NoRows[i] = 0
  BY <1>1 DEF NoRows
<1>5. NoWalk \in WalkRecords
  BY <1>1 DEF NoWalk, WalkRecords
<1> QED
  BY <1>3, <1>4, <1>5 DEF NoState, NoWalk, Walks

LEMMA IndexFields ==
  ASSUME NEW x \in IndexRecords
  PROVE  /\ x.state \in StateRecords /\ x.rows \in [Messages -> LinesRead] /\ x.walk \in WalkRecords
         /\ x.holed \in BOOLEAN
         /\ x.state.last \in Int /\ x.state.last >= -1 /\ x.state.id \in 0..MaxFiles
         /\ x.state.off \in Nat /\ x.state.has \in BOOLEAN
         /\ x.walk.at \in Nat /\ x.walk.next \in Nat /\ x.walk.pc \in {"none", "open", "read", "close"}
<1>1. /\ x.state \in StateRecords /\ x.rows \in [Messages -> LinesRead] /\ x.walk \in WalkRecords
      /\ x.holed \in BOOLEAN
  BY DEF IndexRecords
<1>2. x.state.last \in -1..(MaxLines - 1) /\ x.state.id \in 0..MaxFiles /\ x.state.has \in BOOLEAN
      /\ x.state.off \in {2 * a : a \in LinesRead}
  BY <1>1 DEF StateRecords
<1>3. x.walk.at \in LinesRead /\ x.walk.next \in LinesRead
      /\ x.walk.pc \in {"none", "open", "read", "close"}
  BY <1>1 DEF WalkRecords
<1>4. x.state.off \in Nat
  BY <1>2 DEF LinesRead
<1> QED
  BY <1>1, <1>2, <1>3, <1>4, IndexConstantsAssumption DEF LinesRead

\* An index with the state, rows and walk of one that fits, or without any.
LEMMA IndexFitsIs ==
  ASSUME NEW id, NEW t \in Seq(Kinds), NEW s \in StateRecords, NEW r \in [Messages -> LinesRead],
         NEW w \in WalkRecords, NEW h \in BOOLEAN,
         ~s.has => s = NoState,
         \A at \in 0..Len(t) : Says(s, id, at) =>
           Right(t, at, s.last + 1, r) /\ (~h => Whole(s.last + 1, r)),
         Walks(w) =>
           /\ w.id = id
           /\ w.at <= Len(t) => Right(t, w.at, w.next, r) /\ (~h => Whole(w.next, r)),
         ~Walks(w) => w.at = 0 /\ w.next = 0 /\ w.id = 0,
         NEW x, x = [state |-> s, rows |-> r, walk |-> w, holed |-> h]
  PROVE  IndexFits(x, id, t)
<1>1. x \in IndexRecords /\ x.state = s /\ x.rows = r /\ x.walk = w /\ x.holed = h
  BY DEF IndexRecords
<1> QED
  BY <1>1 DEF IndexFits

LEMMA NoStateFits ==
  ASSUME NEW t, NEW s, s = NoState, NEW id, NEW at
  PROVE  ~Says(s, id, at)
  BY NothingIs DEF Says

LEMMA RightOfNone ==
  ASSUME NEW t, NEW at \in Nat, NEW n, n = Msgs(t, 0, at)
  PROVE  Right(t, at, n, NoRows)
  BY NothingIs DEF Right

LEMMA WholeOfNone ==
  ASSUME NEW n, n = 0, NEW marks
  PROVE  Whole(n, marks)
<1>1. \A i \in Messages : ~(i < n)
  BY DEF Messages
<1> QED
  BY <1>1 DEF Whole

LEMMA DroppedFits ==
  ASSUME NEW x, NEW id, NEW t \in Seq(Kinds), IndexFits(x, id, t)
  PROVE  /\ IndexFits(Dropped(x), id, t)
         /\ Dropped(x).walk = x.walk /\ Dropped(x).state = NoState
<1>1. x \in IndexRecords
  BY DEF IndexFits
<1>2. PICK h : h = (x.walk.pc # "none" /\ (x.holed \/ x.walk.next > 0))
  OBVIOUS
<1>3. Dropped(x) = [state |-> NoState, rows |-> NoRows, walk |-> x.walk, holed |-> h]
  <2>1. Dropped(x) = [x EXCEPT !.state = NoState, !.rows = NoRows, !.holed = h]
    BY <1>2, Zenon DEF Dropped
  <2> QED
    BY <1>1, <2>1 DEF IndexRecords
<1>4. x.walk \in WalkRecords /\ x.walk.next \in Nat /\ x.walk.at \in Nat /\ x.holed \in BOOLEAN
  BY <1>1, IndexFields
<1>5. h \in BOOLEAN
  BY <1>2
<1>6. ASSUME Walks(x.walk), x.walk.at <= Len(t)
      PROVE  Right(t, x.walk.at, x.walk.next, NoRows) /\ (~h => Whole(x.walk.next, NoRows))
  <2>1. x.walk.next = Msgs(t, 0, x.walk.at)
    BY <1>6 DEF IndexFits, Right
  <2>2. Right(t, x.walk.at, x.walk.next, NoRows)
    BY <1>4, <2>1, RightOfNone
  <2>3. ASSUME ~h PROVE x.walk.next = 0
    <3>1. ~(x.walk.pc # "none" /\ (x.holed \/ x.walk.next > 0))
      BY <1>2, <2>3, Zenon
    <3>2. x.walk.pc # "none"
      BY <1>6 DEF Walks
    <3>3. ~(x.walk.next > 0)
      BY <3>1, <3>2
    <3> QED
      BY <1>4, <3>3
  <2>4. ~h => Whole(x.walk.next, NoRows)
    BY <2>3, WholeOfNone
  <2> QED
    BY <2>2, <2>4
<1>7. PICK w \in WalkRecords : w = x.walk
  BY <1>4
<1>8. PICK s \in StateRecords : s = NoState
  BY NothingIs
<1>9. PICK r \in [Messages -> LinesRead] : r = NoRows
  BY NothingIs
<1>10. PICK y : y = Dropped(x)
  OBVIOUS
<1>11. IndexFits(y, id, t)
  <2>1. Walks(w) =>
           /\ w.id = id
           /\ w.at <= Len(t) => Right(t, w.at, w.next, r) /\ (~h => Whole(w.next, r))
    BY <1>6, <1>7, <1>9 DEF IndexFits
  <2>2. ~Walks(w) => w.at = 0 /\ w.next = 0 /\ w.id = 0
    BY <1>7 DEF IndexFits
  <2>3. \A at \in 0..Len(t) : ~Says(s, id, at)
    BY <1>8, NoStateFits
  <2>4. y = [state |-> s, rows |-> r, walk |-> w, holed |-> h]
    BY <1>3, <1>7, <1>8, <1>9, <1>10
  <2>5. ~s.has => s = NoState
    BY <1>8
  <2> QED
    BY <1>5, <2>1, <2>2, <2>3, <2>4, <2>5, IndexFitsIs
<1> QED
  BY <1>3, <1>10, <1>11

LEMMA BackfillFits ==
  ASSUME NEW x, NEW id, NEW t \in Seq(Kinds), IndexFits(x, id, t)
  PROVE  IndexFits(Backfill(x), id, t) /\ (Backfill(x).state.has => x.state = Backfill(x).state)
<1>1. CASE x.walk.pc # "none"
  <2>1. Backfill(x) = x
    BY <1>1 DEF Backfill
  <2> QED
    BY <2>1
<1>2. CASE x.walk.pc = "none"
  <2>1. x \in IndexRecords
    BY DEF IndexFits
  <2>2. PICK w : w = IF known THEN [NoWalk EXCEPT !.pc = "open"] ELSE NoWalk
    OBVIOUS
  <2>3. w \in WalkRecords /\ ~Walks(w) /\ w.at = 0 /\ w.next = 0 /\ w.id = 0
    <3>1. [NoWalk EXCEPT !.pc = "open"] = [pc |-> "open", id |-> 0, at |-> 0, next |-> 0]
      BY DEF NoWalk
    <3>2. NoWalk \in WalkRecords /\ NoWalk.id = 0 /\ NoWalk.at = 0 /\ NoWalk.next = 0
          /\ ~Walks(NoWalk)
      BY NothingIs
    <3>3. CASE known
      <4>1. w = [pc |-> "open", id |-> 0, at |-> 0, next |-> 0]
        BY <2>2, <3>1, <3>3
      <4>2. 0 \in LinesRead /\ 0 \in 0..MaxFiles
        BY IndexConstantsAssumption DEF LinesRead
      <4> QED
        BY <4>1, <4>2 DEF WalkRecords, Walks
    <3>4. CASE ~known
      BY <2>2, <3>2, <3>4
    <3> QED
      BY <3>3, <3>4
  <2>4. Backfill(x) = [state |-> NoState, rows |-> NoRows, walk |-> w, holed |-> FALSE]
    <3>1. Backfill(x) = [Dropped(x) EXCEPT !.walk = w]
      BY <1>2, <2>2, Zenon DEF Backfill
    <3>2. Dropped(x) = [state |-> NoState, rows |-> NoRows, walk |-> x.walk, holed |-> FALSE]
      <4>1. PICK h : h = (x.walk.pc # "none" /\ (x.holed \/ x.walk.next > 0))
        OBVIOUS
      <4>2. Dropped(x) = [x EXCEPT !.state = NoState, !.rows = NoRows, !.holed = h]
        BY <4>1, Zenon DEF Dropped
      <4>3. h = FALSE
        BY <1>2, <4>1
      <4> QED
        BY <2>1, <4>2, <4>3 DEF IndexRecords
    <3>3. PICK d : d = Dropped(x)
      OBVIOUS
    <3>4. d \in IndexRecords
      <4>1. x.walk \in WalkRecords
        BY <2>1, IndexFields
      <4> QED
        BY <3>2, <3>3, <4>1, NothingIs DEF IndexRecords
    <3>5. /\ Backfill(x) = [d EXCEPT !.walk = w]
          /\ d.state = NoState /\ d.rows = NoRows /\ d.holed = FALSE
      BY <3>1, <3>2, <3>3
    <3> QED
      BY <3>4, <3>5 DEF IndexRecords
  <2>5. PICK s \in StateRecords : s = NoState
    BY NothingIs
  <2>6. PICK r \in [Messages -> LinesRead] : r = NoRows
    BY NothingIs
  <2>7. PICK h \in BOOLEAN : h = FALSE
    OBVIOUS
  <2>8. PICK y : y = Backfill(x)
    OBVIOUS
  <2>9. IndexFits(y, id, t)
    <3>1. \A at \in 0..Len(t) : ~Says(s, id, at)
      BY <2>5, NoStateFits
    <3>2. y = [state |-> s, rows |-> r, walk |-> w, holed |-> h]
      BY <2>4, <2>5, <2>6, <2>7, <2>8
    <3>3. ~s.has => s = NoState
      BY <2>5
    <3> QED
      BY <2>3, <3>1, <3>2, <3>3, IndexFitsIs
  <2>10. ~Backfill(x).state.has
    BY <2>4, NothingIs
  <2> QED
    BY <2>8, <2>9, <2>10
<1> QED
  BY <1>1, <1>2

LEMMA ExtendFits ==
  ASSUME NEW x, NEW t \in Seq(Kinds), t = text[indexed], indexed \in 1..MaxFiles,
         IndexFits(x, indexed, t), NEW from \in Nat, NEW to \in Nat, from < to, to <= Len(t),
         Len(t) <= MaxLines, x.state.has => x.state.id = indexed
  PROVE  /\ IndexFits(Extend(x, from, to), indexed, t)
         /\ Extend(x, from, to).state.has => Extend(x, from, to).state.id = indexed
<1>1. x \in IndexRecords
  BY DEF IndexFits
<1>2. /\ x.state \in StateRecords /\ x.rows \in [Messages -> LinesRead] /\ x.walk \in WalkRecords
      /\ x.holed \in BOOLEAN /\ x.state.last \in Int /\ x.walk.at \in Nat /\ x.walk.next \in Nat
  BY <1>1, IndexFields
<1>3. CASE ~known
  <2>1. Extend(x, from, to) = x
    BY <1>3 DEF Extend
  <2> QED
    BY <2>1
<1>4. CASE known /\ 2 * from # x.state.off
  <2>1. Extend(x, from, to) = Backfill(Dropped(x))
    BY <1>4 DEF Extend
  <2>2. PICK d : d = Dropped(x)
    OBVIOUS
  <2>3. IndexFits(d, indexed, t) /\ d.state = NoState
    BY <2>2, DroppedFits
  <2>4. IndexFits(Backfill(d), indexed, t) /\ (Backfill(d).state.has => d.state = Backfill(d).state)
    BY <2>3, BackfillFits
  <2>5. ~Backfill(d).state.has
    BY <2>3, <2>4, NothingIs
  <2> QED
    BY <2>1, <2>2, <2>4, <2>5
<1>5. CASE known /\ 2 * from = x.state.off
  <2>1. PICK n \in Int : n = x.state.last + 1
    BY <1>2
  <2>2. PICK m : m = Msgs(t, from, to)
    OBVIOUS
  <2>3. Right(t, from, n, x.rows) /\ (~x.holed \/ ~x.state.has => Whole(n, x.rows))
    <3>1. CASE x.state.has
      <4>1. Says(x.state, indexed, from) /\ from \in 0..Len(t)
        BY <1>5, <3>1 DEF Says
      <4> QED
        BY <2>1, <3>1, <4>1 DEF IndexFits
    <3>2. CASE ~x.state.has
      <4>1. x.state = NoState
        BY <3>2 DEF IndexFits
      <4>2. from = 0 /\ n = 0
        BY <1>5, <2>1, <4>1, NothingIs
      <4>3. Right(t, from, n, x.rows)
        <5>1. \A i \in Messages : ~(i < n)
          BY <4>2 DEF Messages
        <5>2. n = Msgs(t, 0, from)
          BY <4>2, MsgsNone
        <5> QED
          BY <5>1, <5>2 DEF Right
      <4> QED
        BY <4>2, <4>3, WholeOfNone
    <3> QED
      BY <3>1, <3>2
  <2>4. n = Msgs(t, 0, from) /\ n \in Nat /\ m \in Nat
    BY <2>2, <2>3, MsgsIsNat DEF Right
  <2>5. PICK r : r = Numbered(indexed, from, to, n)
    OBVIOUS
  <2>6. RowsFor(r, t, from, to)
    <3>1. PICK f : f = indexed
      OBVIOUS
    <3>2. t = text[f] /\ from <= to /\ to <= MaxLines
      BY <3>1, IndexConstantsAssumption
    <3>3. r = Numbered(f, from, to, n)
      BY <2>5, <3>1
    <3> QED
      BY <2>4, <3>2, <3>3, NumberedIs
  <2>7. PICK marks \in [Messages -> LinesRead] : marks = Written(x.rows, r)
    BY <1>2, <2>6, WrittenTyped DEF RowsFor
  <2>8. Right(t, to, n + m, marks) /\ (Whole(n, x.rows) => Whole(n + m, marks))
    BY <1>2, <2>2, <2>3, <2>6, <2>7, WrittenExtends
  <2>9. n + m <= MaxLines
    <3>1. n + m = Msgs(t, 0, to)
      BY <2>8 DEF Right
    <3>2. Msgs(t, 0, to) <= to
      BY MsgsBounded
    <3> QED
      BY <2>4, <3>1, <3>2, IndexConstantsAssumption
  <2>10. PICK s : s = [has |-> TRUE, id |-> indexed, off |-> 2 * to, last |-> n + m - 1]
    OBVIOUS
  <2>11. s \in StateRecords /\ s.has /\ s.id = indexed /\ s.off = 2 * to /\ s.last + 1 = n + m
    <3>1. to \in LinesRead /\ n + m - 1 \in -1..(MaxLines - 1) /\ indexed \in 0..MaxFiles
      BY <2>4, <2>9, IndexConstantsAssumption DEF LinesRead
    <3>2. 2 * to \in {2 * a : a \in LinesRead}
      BY <3>1
    <3> QED
      BY <2>4, <2>10, <3>1, <3>2 DEF StateRecords
  <2>12. PICK h \in BOOLEAN : h = (x.holed /\ (x.state.has \/ x.walk.pc # "none"))
    OBVIOUS
  <2>13. PICK y : y = Extend(x, from, to)
    OBVIOUS
  <2>14. y = [state |-> s, rows |-> marks, walk |-> x.walk, holed |-> h]
    <3>1. Count(indexed, from, to) = m
      BY <2>2 DEF Count, Msgs, Among
    <3>2. s = [has |-> TRUE, id |-> indexed, off |-> 2 * to,
               last |-> x.state.last + Count(indexed, from, to)]
      <4>1. PICK last \in Int : last = x.state.last
        BY <1>2
      <4>2. PICK c \in Nat : c = Count(indexed, from, to)
        BY <2>4, <3>1
      <4>3. n = last + 1 /\ m = c
        BY <2>1, <3>1, <4>1, <4>2
      <4>4. last + c = n + m - 1
        BY <4>3
      <4> QED
        BY <2>10, <4>1, <4>2, <4>4
    <3>3. marks = Written(x.rows, Numbered(indexed, from, to, x.state.last + 1))
      BY <2>1, <2>5, <2>7
    <3>4. y = [x EXCEPT !.rows = marks, !.state = s, !.holed = h]
      BY <1>5, <2>12, <2>13, <3>2, <3>3, Zenon DEF Extend
    <3> QED
      BY <1>1, <3>4 DEF IndexRecords
  <2>15. ~h => ~x.holed \/ ~x.state.has
    BY <2>12
  <2>16. ~h /\ Walks(x.walk) => ~x.holed
    BY <2>12 DEF Walks
  <2>17. \A at \in 0..Len(t) : Says(s, indexed, at) =>
           Right(t, at, s.last + 1, marks) /\ (~h => Whole(s.last + 1, marks))
    <3> SUFFICES ASSUME NEW at \in 0..Len(t), Says(s, indexed, at)
                 PROVE  Right(t, at, s.last + 1, marks) /\ (~h => Whole(s.last + 1, marks))
      OBVIOUS
    <3>1. at = to
      BY <2>11 DEF Says
    <3>2. Right(t, at, s.last + 1, marks)
      BY <2>8, <2>11, <3>1
    <3>3. ~h => Whole(s.last + 1, marks)
      BY <2>3, <2>8, <2>11, <2>15, Zenon
    <3> QED
      BY <3>2, <3>3
  <2>18. PICK w \in WalkRecords : w = x.walk
    BY <1>2
  <2>19. ASSUME Walks(w), w.at <= Len(t)
         PROVE  Right(t, w.at, w.next, marks) /\ (~h => Whole(w.next, marks))
    <3>1. Right(t, w.at, w.next, x.rows) /\ (~x.holed => Whole(w.next, x.rows))
      BY <2>18, <2>19 DEF IndexFits
    <3>2. PICK at \in Nat, k \in Nat : at = w.at /\ k = w.next
      BY <1>2, <2>18
    <3>3. PICK o \in [Messages -> LinesRead] : o = x.rows
      BY <1>2
    <3>4. Right(t, at, k, o)
      BY <3>1, <3>2, <3>3
    <3>5. Right(t, at, k, marks) /\ (Whole(k, o) => Whole(k, marks))
      BY <2>6, <2>7, <3>3, <3>4, WrittenRight
    <3>6. ~h => ~x.holed
      BY <2>16, <2>18, <2>19
    <3> QED
      BY <3>1, <3>2, <3>3, <3>5, <3>6, Zenon
  <2>20. (Walks(w) => w.id = indexed) /\ (~Walks(w) => w.at = 0 /\ w.next = 0 /\ w.id = 0)
    BY <2>18 DEF IndexFits
  <2>21. IndexFits(y, indexed, t)
    <3>1. y = [state |-> s, rows |-> marks, walk |-> w, holed |-> h]
      BY <2>14, <2>18
    <3>2. ~s.has => s = NoState
      BY <2>11
    <3> QED
      BY <2>11, <2>17, <2>19, <2>20, <3>1, <3>2, IndexFitsIs
  <2>22. y.state.has => y.state.id = indexed
    BY <2>11, <2>14
  <2> QED
    BY <2>13, <2>21, <2>22
<1> QED
  BY <1>3, <1>4, <1>5

-----------------------------------------------------------------------------
(* The steps.                                                              *)

TailMay(t, x) ==
  /\ t \in TailRecords /\ (t.pc # "no" => t.on) /\ (t.pending => t.pc # "no")
  /\ t.on => (x.state.has => x.state.id = indexed)

LEMMA IndexIInvIs ==
  IndexIInv <=>
    /\ indexed \in 1..MaxFiles /\ text \in [1..MaxFiles -> Seq(Kinds)]
    /\ Len(text[indexed]) <= MaxLines /\ \A f \in 1..MaxFiles : f > indexed => text[f] = <<>>
    /\ torn \in BOOLEAN /\ known \in BOOLEAN
    /\ IndexFits(Index, indexed, text[indexed]) /\ state.id <= indexed
    /\ TailMay(tail, Index) /\ upsets \in Nat
<1>1. Index.state = state
  BY DEF Index
<1> QED
  BY <1>1 DEF IndexIInv, TailMay, PendingIsRead

LEMMA FileIs ==
  ASSUME IndexIInv
  PROVE  /\ indexed \in 1..MaxFiles /\ text[indexed] \in Seq(Kinds) /\ Len(text[indexed]) \in Nat
         /\ Len(text[indexed]) <= MaxLines
         /\ Index \in IndexRecords /\ IndexFits(Index, indexed, text[indexed])
         /\ Size = 2 * Len(text[indexed]) + (IF torn THEN 1 ELSE 0) /\ torn \in BOOLEAN
         /\ Index.state = state /\ Index.rows = indexRows /\ Index.walk = walk /\ Index.holed = holed
         /\ TailMay(tail, Index) /\ known \in BOOLEAN
  BY IndexIInvIs DEF Size, Index, IndexFits

LEMMA BecomesIs ==
  ASSUME NEW y \in IndexRecords, IndexBecomes(y)
  PROVE  Index' = y
  BY DEF IndexBecomes, Index, IndexRecords

\* The file stays, the index becomes one that fits.
LEMMA IndexMoves ==
  ASSUME IndexIInv, UNCHANGED <<indexed, text, torn>>, known' \in BOOLEAN,
         NEW y, IndexBecomes(y), IndexFits(y, indexed, text[indexed]),
         y.state.has => y.state.id <= indexed, TailMay(tail', y), upsets' \in Nat
  PROVE  IndexIInv'
<1>1. Index' = y
  BY BecomesIs DEF IndexFits
<1>2. state'.id <= indexed
  <2>1. state' = y.state
    BY DEF IndexBecomes
  <2>2. CASE y.state.has
    BY <2>1, <2>2
  <2>3. CASE ~y.state.has
    <3>1. y.state = NoState
      BY <2>3 DEF IndexFits
    <3> QED
      BY <2>1, <3>1, NothingIs, FileIs
  <2> QED
    BY <2>2, <2>3
<1>3. PICK t : t = text[indexed]
  OBVIOUS
<1>4. IndexFits(Index, indexed, text[indexed])'
  <2>1. IndexFits(y, indexed, t) /\ indexed' = indexed /\ (text[indexed])' = t
    BY <1>3
  <2> QED
    BY <1>1, <2>1 DEF IndexFits, Right, Whole, Says, Walks
<1>5. TailMay(tail, Index)'
  BY <1>1 DEF TailMay
<1>6. PendingIsRead' /\ tail' \in TailRecords /\ (tail'.on => (state'.has => state'.id = indexed'))
      /\ (tail'.pc # "no" => tail'.on)
  BY DEF TailMay, PendingIsRead, IndexBecomes
<1> QED
  BY <1>2, <1>4, <1>6 DEF IndexIInv

LEMMA IndexStays ==
  ASSUME IndexIInv, UNCHANGED <<indexed, text, torn, state, indexRows, walk, holed>>,
         known' \in BOOLEAN, TailMay(tail', Index), upsets' \in Nat
  PROVE  IndexIInv'
<1>1. PICK y : y = Index
  OBVIOUS
<1>2. IndexBecomes(y)
  BY <1>1 DEF IndexBecomes, Index
<1>3. IndexFits(y, indexed, text[indexed]) /\ (y.state.has => y.state.id <= indexed)
  BY <1>1, IndexIInvIs DEF Index
<1> QED
  BY <1>1, <1>2, <1>3, IndexMoves

\* The file grows behind what was read of it, or is cut.
LEMMA TextMoves ==
  ASSUME IndexIInv, UNCHANGED <<indexed, known, state, indexRows, walk, tail, holed>>,
         NEW u \in Seq(Kinds), text' = [text EXCEPT ![indexed] = u], Len(u) <= MaxLines,
         torn' \in BOOLEAN, upsets' \in Nat,
         \A l \in 1..Len(u) : l <= Len(text[indexed]) => text[indexed][l] = u[l],
         Len(u) <= Len(text[indexed]) \/ Noticed
  PROVE  IndexIInv'
<1>1. PICK t \in Seq(Kinds) : t = text[indexed]
  BY FileIs
<1>2. IndexFits(Index, indexed, t) /\ Index \in IndexRecords
  BY <1>1, FileIs
<1>3. ASSUME NEW at \in 0..Len(u), Says(Index.state, indexed, at)
      PROVE  at <= Len(t)
  <2>1. CASE Len(u) <= Len(t)
    BY <1>3, <2>1
  <2>2. CASE Noticed
    <3>1. state.has /\ state.id = indexed /\ state.off = 2 * at
      BY <1>3, FileIs DEF Says
    <3>2. 2 * at <= 2 * Len(t) + (IF torn THEN 1 ELSE 0)
      BY <1>1, <2>2, <3>1, FileIs DEF Noticed
    <3> QED
      BY <3>2, FileIs
  <2> QED
    BY <1>1, <2>1, <2>2
<1>4. ASSUME Walks(Index.walk), Index.walk.at <= Len(u)
      PROVE  Index.walk.at <= Len(t)
  <2>1. CASE Len(u) <= Len(t)
    <3>1. Index.walk.at \in Nat
      BY <1>2, IndexFields
    <3> QED
      BY <1>4, <2>1, <3>1
  <2>2. CASE Noticed
    <3>1. walk.pc # "none" /\ walk.id = indexed
      BY <1>2, <1>4, FileIs DEF IndexFits, Walks
    <3> QED
      BY <1>1, <2>2, <3>1, FileIs DEF Noticed
  <2> QED
    BY <1>1, <2>1, <2>2
<1>5. PICK x : x = Index
  OBVIOUS
<1>6. IndexFits(x, indexed, u)
  BY <1>1, <1>2, <1>3, <1>4, <1>5, FitsOtherText
<1>7. /\ text' \in [1..MaxFiles -> Seq(Kinds)] /\ (text[indexed])' = u
      /\ \A f \in 1..MaxFiles : f > indexed => text'[f] = <<>>
  BY IndexIInvIs
<1>8. Index' = x
  BY <1>5 DEF Index
<1>9. IndexFits(Index, indexed, text[indexed])'
  BY <1>6, <1>7, <1>8 DEF IndexFits, Right, Whole, Says, Walks
<1>10. /\ known' \in BOOLEAN /\ state'.id <= indexed' /\ tail' \in TailRecords
       /\ (tail.on => (state.has => state.id = indexed))' /\ (tail.pc # "no" => tail.on)'
       /\ PendingIsRead'
  BY DEF IndexIInv, PendingIsRead
<1> QED
  BY <1>7, <1>9, <1>10 DEF IndexIInv

LEMMA FileStepsKeep ==
  ASSUME IndexIInv
  PROVE  /\ \A kind \in {"msg", "side"} : AppendLine(kind) => IndexIInv'
         /\ AppendPart \/ Cut \/ Replace => IndexIInv'
<1>1. PICK t \in Seq(Kinds) : t = text[indexed]
  BY FileIs
<1>2. upsets \in Nat /\ text \in [1..MaxFiles -> Seq(Kinds)]
  BY DEF IndexIInv
<1>3. ASSUME NEW kind \in {"msg", "side"}, AppendLine(kind)
      PROVE  IndexIInv'
  <2>1. PICK u : u = Append(t, kind)
    OBVIOUS
  <2>2. u \in Seq(Kinds) /\ Len(u) = Len(t) + 1 /\ \A l \in 1..Len(u) : l <= Len(t) => t[l] = u[l]
    <3>1. kind \in Kinds
      BY DEF Kinds
    <3>2. \A l \in 1..Len(t) : u[l] = t[l]
      BY <2>1, <3>1
    <3>3. u \in Seq(Kinds) /\ Len(u) = Len(t) + 1
      BY <2>1, <3>1
    <3> QED
      BY <3>2, <3>3
  <2>3. text' = [text EXCEPT ![indexed] = u]
    BY <1>1, <1>3, <2>1 DEF AppendLine
  <2>4. Len(t) < MaxLines /\ Noticed /\ torn' = FALSE
        /\ UNCHANGED <<indexed, known, state, indexRows, walk, tail, holed, upsets>>
    BY <1>1, <1>3 DEF AppendLine
  <2>5. Len(u) <= MaxLines
    BY <2>2, <2>4, IndexConstantsAssumption
  <2>6. /\ UNCHANGED <<indexed, known, state, indexRows, walk, tail, holed>>
        /\ torn' \in BOOLEAN /\ upsets' \in Nat
    BY <1>2, <2>4
  <2>7. \A l \in 1..Len(u) : l <= Len(text[indexed]) => text[indexed][l] = u[l]
    BY <1>1, <2>2
  <2>8. Noticed
    BY <2>4
  <2> QED
    BY <2>2, <2>3, <2>5, <2>6, <2>7, <2>8, TextMoves
<1>4. ASSUME AppendPart
      PROVE  IndexIInv'
  <2>1. text' = [text EXCEPT ![indexed] = t] /\ torn' = TRUE
        /\ UNCHANGED <<indexed, known, state, indexRows, walk, tail, holed, upsets>>
    BY <1>1, <1>2, <1>4 DEF AppendPart
  <2>2. Len(t) <= MaxLines
    BY <1>1, FileIs
  <2>3. /\ UNCHANGED <<indexed, known, state, indexRows, walk, tail, holed>>
        /\ torn' \in BOOLEAN /\ upsets' \in Nat
    BY <1>2, <2>1
  <2>4. \A l \in 1..Len(t) : l <= Len(text[indexed]) => text[indexed][l] = t[l]
    BY <1>1
  <2>5. Len(t) <= Len(text[indexed])
    BY <1>1, FileIs
  <2> QED
    BY <2>1, <2>2, <2>3, <2>4, <2>5, TextMoves
<1>5. ASSUME Cut
      PROVE  IndexIInv'
  <2>1. PICK n \in 0..(Len(t) - 1) : text' = [text EXCEPT ![indexed] = SubSeq(t, 1, n)]
    BY <1>1, <1>5 DEF Cut
  <2>2. PICK u : u = SubSeq(t, 1, n)
    OBVIOUS
  <2>3. u \in Seq(Kinds) /\ Len(u) = n /\ \A l \in 1..n : u[l] = t[l]
    BY <2>2
  <2>4. torn' = FALSE /\ upsets' = upsets + 1
        /\ UNCHANGED <<indexed, known, state, indexRows, walk, tail, holed>>
    BY <1>5 DEF Cut
  <2>5. Len(u) <= Len(t) /\ Len(u) <= MaxLines
    BY <1>1, <2>3, FileIs, IndexConstantsAssumption
  <2>6. text' = [text EXCEPT ![indexed] = u]
    BY <2>1, <2>2
  <2>7. torn' \in BOOLEAN /\ upsets' \in Nat
    <3>1. upsets' = upsets + 1 /\ upsets \in Nat
      BY <1>2, <2>4
    <3>2. upsets' \in Nat
      BY <3>1
    <3> QED
      BY <2>4, <3>2
  <2>8. \A l \in 1..Len(u) : l <= Len(text[indexed]) => text[indexed][l] = u[l]
    BY <1>1, <2>3
  <2>9. Len(u) <= Len(text[indexed])
    BY <1>1, <2>5
  <2> QED
    BY <2>3, <2>4, <2>5, <2>6, <2>7, <2>8, <2>9, TextMoves
<1>6. ASSUME Replace
      PROVE  IndexIInv'
  <2>1. /\ indexed < MaxFiles /\ ~tail.on /\ walk.pc = "none" /\ indexed' = indexed + 1 /\ torn' = FALSE
        /\ UNCHANGED <<text, known, state, indexRows, walk, tail, holed, upsets>>
    BY <1>6 DEF Replace
  <2>2. indexed' \in 1..MaxFiles /\ text[indexed'] = <<>>
        /\ \A f \in 1..MaxFiles : f > indexed' => text[f] = <<>>
    BY <2>1, IndexConstantsAssumption DEF IndexIInv
  <2>3. state.id <= indexed /\ state.id \in Nat
    BY FileIs, IndexFields, IndexConstantsAssumption DEF IndexIInv
  <2>4. Index' = Index
    BY <2>1 DEF Index
  <2>5. ~Walks(Index.walk) /\ \A at : ~Says(Index.state, indexed', at)
    BY <2>1, <2>2, <2>3, FileIs DEF Walks, Says
  <2>6. IndexFits(Index, indexed', text[indexed'])
    BY <2>5, FileIs DEF IndexFits
  <2>7. IndexFits(Index, indexed, text[indexed])'
    BY <2>1, <2>4, <2>6 DEF IndexFits, Right, Whole, Says, Walks
  <2>8. state'.id <= indexed' /\ Len(text'[indexed']) <= MaxLines
    <3>1. text'[indexed'] = <<>> /\ Len(<<>>) = 0
      BY <2>1, <2>2
    <3>2. Len(text'[indexed']) <= MaxLines
      BY <3>1, IndexConstantsAssumption
    <3>3. indexed \in Int
      BY FileIs
    <3> QED
      BY <2>1, <2>3, <3>2, <3>3
  <2>9. tail' \in TailRecords /\ ~tail'.on /\ (tail'.pc # "no" => tail'.on) /\ PendingIsRead'
        /\ {torn', known'} \subseteq BOOLEAN /\ upsets' \in Nat
    BY <2>1 DEF IndexIInv, PendingIsRead
  <2> QED
    BY <1>2, <2>1, <2>2, <2>7, <2>8, <2>9 DEF IndexIInv
<1> QED
  BY <1>3, <1>4, <1>5, <1>6

LEMMA TailIs ==
  ASSUME NEW t \in TailRecords
  PROVE  t.on \in BOOLEAN /\ t.off \in LinesRead /\ t.off \in Nat /\ t.size \in Nat
         /\ t.pending \in BOOLEAN /\ t.pc \in {"no", "stat", "read"}
  BY DEF TailRecords, LinesRead

LEMMA NoTailMay ==
  ASSUME NEW x
  PROVE  TailMay(NoTail, x)
<1>1. 0 \in LinesRead
  BY IndexConstantsAssumption DEF LinesRead
<1> QED
  BY <1>1 DEF NoTail, TailMay, TailRecords

LEMMA AgainMay ==
  ASSUME NEW x, NEW t \in TailRecords, t.on, x.state.has => x.state.id = indexed
  PROVE  TailMay(Again(t), x)
<1>1. PICK pc : pc = IF t.pending THEN "stat" ELSE "no"
  OBVIOUS
<1>2. PICK a : a = Again(t)
  OBVIOUS
<1>3. a = [t EXCEPT !.pc = pc, !.pending = FALSE, !.size = 0]
  BY <1>1, <1>2 DEF Again
<1>4. a \in TailRecords /\ a.on = t.on /\ a.pending = FALSE
  BY <1>1, <1>3 DEF TailRecords
<1> QED
  BY <1>2, <1>4 DEF TailMay

LEMMA WatchKeeps ==
  ASSUME IndexIInv, Watch \/ Unwatch \/ Changed
  PROVE  IndexIInv'
<1>1. TailMay(tail, Index) /\ tail \in TailRecords
  BY FileIs DEF TailMay
<1>2. /\ UNCHANGED <<indexed, text, torn, known, state, indexRows, walk, holed, upsets>>
      /\ known \in BOOLEAN /\ upsets \in Nat
  BY FileIs DEF Watch, Unwatch, Changed, IndexIInv
<1>3. TailMay(tail', Index)
  <2>1. CASE Watch
    <3>1. Size \div 2 = Len(text[indexed]) /\ Len(text[indexed]) \in LinesRead
      BY <2>1, FileIs, IndexConstantsAssumption DEF Watch, LinesRead
    <3>2. tail' = [on |-> TRUE, off |-> Len(text[indexed]), pc |-> "no", size |-> 0, pending |-> FALSE]
      BY <2>1, <3>1 DEF Watch, NoTail
    <3>3. tail' \in TailRecords /\ tail'.pc = "no" /\ ~tail'.pending /\ tail'.on
      BY <3>1, <3>2 DEF TailRecords
    <3>4. state.has => state.id = indexed
      BY <2>1 DEF Watch
    <3> QED
      BY <3>3, <3>4, FileIs DEF TailMay
  <2>2. CASE Unwatch
    BY <2>2, NoTailMay DEF Unwatch
  <2>3. CASE Changed
    <3>1. CASE tail.pc # "no"
      <4>1. tail' = [tail EXCEPT !.pending = TRUE]
        BY <2>3, <3>1 DEF Changed
      <4>2. tail' \in TailRecords /\ tail'.on = tail.on /\ tail'.pc = tail.pc
        BY <1>1, <4>1 DEF TailRecords
      <4> QED
        BY <1>1, <3>1, <4>2 DEF TailMay
    <3>2. CASE tail.pc = "no"
      <4>1. tail' = [tail EXCEPT !.pc = "stat"] /\ tail.on
        BY <2>3, <3>2 DEF Changed
      <4>2. tail' \in TailRecords /\ tail'.on = tail.on /\ tail'.pc = "stat"
        BY <1>1, <4>1 DEF TailRecords
      <4> QED
        BY <1>1, <4>1, <4>2 DEF TailMay
    <3> QED
      BY <3>1, <3>2
  <2> QED
    BY <2>1, <2>2, <2>3
<1> QED
  BY <1>2, <1>3, IndexStays

LEMMA TailStatKeeps ==
  ASSUME IndexIInv, TailStat
  PROVE  IndexIInv'
<1>1. /\ tail.pc = "stat" /\ tail.on /\ tail \in TailRecords /\ TailMay(tail, Index)
      /\ state.has => state.id = indexed
  BY FileIs DEF TailStat, TailMay
<1>2. UNCHANGED <<indexed, text, torn, known, upsets>> /\ known \in BOOLEAN /\ upsets \in Nat
  BY FileIs DEF TailStat, IndexIInv
<1>3. PICK shrunk : shrunk = (Size < 2 * tail.off)
  OBVIOUS
<1>4. PICK from : from = IF shrunk THEN [tail EXCEPT !.off = 0] ELSE tail
  OBVIOUS
<1>5. from \in TailRecords /\ from.on
  <2>1. 0 \in LinesRead
    BY IndexConstantsAssumption DEF LinesRead
  <2> QED
    BY <1>1, <1>4, <2>1 DEF TailRecords
<1>6. /\ IF shrunk THEN IndexBecomes(Dropped(Index)) ELSE UNCHANGED <<state, indexRows, walk, holed>>
      /\ tail' = IF Size <= 2 * from.off THEN Again(from) ELSE [from EXCEPT !.pc = "read", !.size = Size]
  BY <1>3, <1>4, Zenon DEF TailStat
<1>10. shrunk \in BOOLEAN
  BY <1>3
<1>7. ASSUME NEW x, x.state.has => x.state.id = indexed
      PROVE  TailMay(tail', x)
  <2>1. CASE tail' = Again(from)
    BY <1>5, <1>7, <2>1, AgainMay
  <2>2. CASE tail' = [from EXCEPT !.pc = "read", !.size = Size]
    <3>0. Size \in Nat
      <4>1. PICK one : one = IF torn THEN 1 ELSE 0
        OBVIOUS
      <4>2. one \in Nat
        BY <4>1
      <4>3. Len(text[indexed]) \in Nat /\ Size = 2 * Len(text[indexed]) + one
        BY <4>1, FileIs
      <4> QED
        BY <4>2, <4>3
    <3>1. PICK size \in Nat : size = Size
      BY <3>0
    <3>2. tail' = [from EXCEPT !.pc = "read", !.size = size]
      BY <2>2, <3>1
    <3>3. tail' \in TailRecords /\ tail'.on /\ tail'.pc = "read"
      BY <1>5, <3>2 DEF TailRecords
    <3> QED
      BY <1>7, <3>3 DEF TailMay
  <2> QED
    BY <1>6, <2>1, <2>2
<1>8. CASE shrunk
  <2>1. PICK y : y = Dropped(Index)
    OBVIOUS
  <2>2. IndexFits(y, indexed, text[indexed]) /\ y.state = NoState
    <3>0. PICK t \in Seq(Kinds) : t = text[indexed]
      BY FileIs
    <3>1. PICK x : x = Index
      OBVIOUS
    <3>2. IndexFits(x, indexed, t)
      BY <3>0, <3>1, FileIs
    <3> QED
      BY <2>1, <3>0, <3>1, <3>2, DroppedFits
  <2>3. IndexBecomes(y) /\ ~y.state.has
    BY <1>6, <1>8, <2>1, <2>2, NothingIs
  <2>4. TailMay(tail', y)
    BY <1>7, <2>3
  <2> QED
    BY <1>2, <2>2, <2>3, <2>4, IndexMoves
<1>9. CASE ~shrunk
  <2>1. UNCHANGED <<state, indexRows, walk, holed>>
    BY <1>6, <1>9
  <2>2. TailMay(tail', Index)
    BY <1>1, <1>7, FileIs
  <2> QED
    BY <1>2, <2>1, <2>2, IndexStays
<1> QED
  BY <1>8, <1>9

LEMMA TailReadKeeps ==
  ASSUME IndexIInv, TailRead
  PROVE  IndexIInv'
<1>1. /\ tail.pc = "read" /\ tail.on /\ tail \in TailRecords
      /\ state.has => state.id = indexed
  BY FileIs DEF TailRead, TailMay
<1>2. UNCHANGED <<indexed, text, torn, upsets>> /\ known \in BOOLEAN /\ upsets \in Nat
  BY FileIs DEF TailRead, IndexIInv
<1>3. PICK to : to = Lower(tail.size \div 2, Len(text[indexed]))
  OBVIOUS
<1>4. to \in Int /\ to <= Len(text[indexed])
  BY <1>1, <1>3, TailIs, FileIs DEF Lower
<1>5. PICK read : read = (to > tail.off)
  OBVIOUS
<1>6. /\ IF read THEN IndexBecomes(Extend(Index, tail.off, to))
         ELSE UNCHANGED <<state, indexRows, walk, holed>>
      /\ known' = (known \/ (read /\ Count(indexed, tail.off, to) > 0))
      /\ tail' = Again([tail EXCEPT !.off = IF read THEN to ELSE @])
  BY <1>3, <1>5, Zenon DEF TailRead
<1>7. known' \in BOOLEAN /\ read \in BOOLEAN
  BY <1>5, <1>6
<1>8. tail.off \in Nat /\ tail.off \in LinesRead
  BY <1>1, TailIs
<1>9. ASSUME NEW x, x.state.has => x.state.id = indexed
      PROVE  TailMay(tail', x)
  <2>1. PICK off : off = IF read THEN to ELSE tail.off
    OBVIOUS
  <2>2. off \in LinesRead
    <3>1. read => to \in LinesRead
      <4>1. Len(text[indexed]) <= MaxLines /\ Len(text[indexed]) \in Nat
        BY FileIs
      <4>2. ASSUME read PROVE to > tail.off
        BY <1>5, <4>2
      <4> QED
        BY <1>4, <1>8, <4>1, <4>2, IndexConstantsAssumption DEF LinesRead
    <3> QED
      BY <1>8, <2>1, <3>1
  <2>3. PICK t : t = [tail EXCEPT !.off = off]
    OBVIOUS
  <2>4. t \in TailRecords /\ t.on
    BY <1>1, <2>2, <2>3 DEF TailRecords
  <2>5. tail' = Again(t)
    BY <1>6, <2>1, <2>3, Zenon
  <2> QED
    BY <1>9, <2>4, <2>5, AgainMay
<1>10. CASE read
  <2>1. PICK y : y = Extend(Index, tail.off, to)
    OBVIOUS
  <2>2. IndexFits(y, indexed, text[indexed]) /\ (y.state.has => y.state.id = indexed)
    <3>0. PICK t \in Seq(Kinds) : t = text[indexed]
      BY FileIs
    <3>5. PICK x : x = Index
      OBVIOUS
    <3>6. PICK from \in Nat : from = tail.off
      BY <1>8
    <3>1. x = Index /\ t = text[indexed] /\ from = tail.off
      BY <3>0, <3>5, <3>6
    <3>8. to > tail.off
      BY <1>5, <1>10
    <3>7. to \in Nat /\ to > tail.off
      BY <1>4, <1>8, <3>8
    <3>2. PICK k \in Nat : k = to
      BY <3>7
    <3>3. /\ indexed \in 1..MaxFiles /\ IndexFits(x, indexed, t) /\ from < k /\ k <= Len(t)
          /\ Len(t) <= MaxLines /\ (x.state.has => x.state.id = indexed)
      BY <1>1, <1>4, <3>1, <3>2, <3>7, FileIs
    <3>4. /\ IndexFits(Extend(x, from, k), indexed, t)
          /\ Extend(x, from, k).state.has => Extend(x, from, k).state.id = indexed
      BY <3>1, <3>3, ExtendFits
    <3> QED
      BY <2>1, <3>1, <3>2, <3>4
  <2>3. IndexBecomes(y)
    BY <1>6, <1>10, <2>1
  <2>4. TailMay(tail', y)
    BY <1>9, <2>2
  <2>5. y.state.has => y.state.id <= indexed
    BY <2>2, FileIs
  <2> QED
    BY <1>2, <1>7, <2>2, <2>3, <2>4, <2>5, IndexMoves
<1>11. CASE ~read
  <2>1. UNCHANGED <<state, indexRows, walk, holed>>
    BY <1>6, <1>11
  <2>2. TailMay(tail', Index)
    BY <1>1, <1>9, FileIs
  <2> QED
    BY <1>2, <1>7, <2>1, <2>2, IndexStays
<1> QED
  BY <1>10, <1>11

\* The file stays; the parts of the index are what fits.
LEMMA PartsMove ==
  ASSUME IndexIInv, UNCHANGED <<indexed, text, torn>>, known' \in BOOLEAN, upsets' \in Nat,
         tail' \in {tail, NoTail}, NEW t \in Seq(Kinds), t = text[indexed],
         NEW s \in StateRecords, s = state \/ s.id = indexed, ~s.has => s = NoState, state' = s,
         NEW r \in [Messages -> LinesRead], indexRows' = r, NEW w \in WalkRecords, walk' = w,
         NEW h \in BOOLEAN, holed' = h,
         \A at \in 0..Len(t) : Says(s, indexed, at) =>
           Right(t, at, s.last + 1, r) /\ (~h => Whole(s.last + 1, r)),
         Walks(w) =>
           /\ w.id = indexed
           /\ w.at <= Len(t) => Right(t, w.at, w.next, r) /\ (~h => Whole(w.next, r)),
         ~Walks(w) => w.at = 0 /\ w.next = 0 /\ w.id = 0
  PROVE  IndexIInv'
<1>1. PICK y : y = [state |-> s, rows |-> r, walk |-> w, holed |-> h]
  OBVIOUS
<1>2. PICK id : id = indexed
  OBVIOUS
<1>3. IndexFits(y, id, t)
  BY <1>1, <1>2, IndexFitsIs
<1>4. IndexBecomes(y) /\ y.state = s
  BY <1>1 DEF IndexBecomes
<1>5. state.id <= indexed /\ indexed \in Int /\ TailMay(tail, Index) /\ Index.state = state
  BY FileIs DEF IndexIInv
<1>6. y.state.has => y.state.id <= indexed
  BY <1>4, <1>5
<1>7. TailMay(tail', y)
  <2>1. CASE tail' = tail
    BY <1>4, <1>5, <2>1 DEF TailMay
  <2>2. CASE tail' = NoTail
    BY <2>2, NoTailMay
  <2> QED
    BY <2>1, <2>2
<1>8. IndexFits(y, indexed, text[indexed])
  BY <1>2, <1>3
<1> QED
  BY <1>4, <1>6, <1>7, <1>8, IndexMoves

\* What the state and the walk say, when the rows stay.
LEMMA PartsAre ==
  ASSUME IndexIInv
  PROVE  /\ state \in StateRecords /\ (~state.has => state = NoState) /\ state.last \in Int
         /\ indexRows \in [Messages -> LinesRead] /\ holed \in BOOLEAN
         /\ walk \in WalkRecords /\ walk.at \in Nat /\ walk.next \in Nat
         /\ text[indexed] \in Seq(Kinds) /\ Len(text[indexed]) <= MaxLines
         /\ \A at \in 0..Len(text[indexed]) : Says(state, indexed, at) =>
              /\ Right(text[indexed], at, state.last + 1, indexRows)
              /\ ~holed => Whole(state.last + 1, indexRows)
         /\ Walks(walk) =>
              /\ walk.id = indexed
              /\ walk.at <= Len(text[indexed]) =>
                   /\ Right(text[indexed], walk.at, walk.next, indexRows)
                   /\ ~holed => Whole(walk.next, indexRows)
         /\ ~Walks(walk) => walk.at = 0 /\ walk.next = 0 /\ walk.id = 0
         /\ known \in BOOLEAN /\ upsets \in Nat
<1>1. PICK x : x = Index
  OBVIOUS
<1>2. x \in IndexRecords /\ IndexFits(x, indexed, text[indexed])
  BY <1>1, FileIs
<1>3. x.state = state /\ x.rows = indexRows /\ x.walk = walk /\ x.holed = holed
  BY <1>1, FileIs
<1>4. /\ state \in StateRecords /\ state.last \in Int /\ indexRows \in [Messages -> LinesRead]
      /\ holed \in BOOLEAN /\ walk \in WalkRecords /\ walk.at \in Nat /\ walk.next \in Nat
  BY <1>2, <1>3, IndexFields
<1>5. upsets \in Nat
  BY DEF IndexIInv
<1>6. /\ text[indexed] \in Seq(Kinds) /\ Len(text[indexed]) <= MaxLines /\ known \in BOOLEAN
  BY FileIs
<1> QED
  BY <1>2, <1>3, <1>4, <1>5, <1>6 DEF IndexFits

LEMMA WalkOpens ==
  ASSUME IndexIInv, WalkOpen \/ WalkEof
  PROVE  IndexIInv'
<1>1. PICK t \in Seq(Kinds) : t = text[indexed]
  BY PartsAre
<1>2. /\ UNCHANGED <<indexed, text, torn, known, state, indexRows, tail, holed, upsets>>
      /\ known \in BOOLEAN /\ upsets \in Nat
  BY PartsAre DEF WalkOpen, WalkEof
<1>3. PICK w : w = walk'
  OBVIOUS
<1>4. w \in WalkRecords /\ Walks(w) /\ w.at = walk.at /\ w.next = walk.next /\ w.id = indexed
  <2>1. walk \in WalkRecords /\ indexed \in 0..MaxFiles
    BY PartsAre, FileIs
  <2>2. CASE WalkOpen
    BY <1>3, <2>1, <2>2 DEF WalkOpen, WalkRecords, Walks
  <2>3. CASE WalkEof
    <3>1. Walks(walk) /\ w = [walk EXCEPT !.pc = "close"]
      BY <1>3, <2>3 DEF WalkEof, Walks
    <3>2. walk.id = indexed
      BY <3>1, PartsAre
    <3> QED
      BY <2>1, <3>1, <3>2 DEF WalkRecords, Walks
  <2> QED
    BY <2>2, <2>3
<1>5. w.at <= Len(t) => Right(t, w.at, w.next, indexRows) /\ (~holed => Whole(w.next, indexRows))
  <2>1. CASE Walks(walk)
    BY <1>1, <1>4, <2>1, PartsAre
  <2>2. CASE ~Walks(walk)
    <3>1. walk.at = 0 /\ walk.next = 0
      BY <2>2, PartsAre
    <3>2. PICK at \in Nat, n \in Nat : at = 0 /\ n = 0
      OBVIOUS
    <3>3. n = Msgs(t, 0, at)
      BY <3>2, MsgsNone
    <3>4. Right(t, at, n, indexRows)
      <4>1. \A i \in Messages : ~(i < n)
        BY <3>2 DEF Messages
      <4> QED
        BY <3>3, <4>1 DEF Right
    <3>5. Whole(n, indexRows)
      BY <3>2, WholeOfNone
    <3> QED
      BY <1>4, <3>1, <3>2, <3>4, <3>5
  <2> QED
    BY <2>1, <2>2
<1>6. PICK s \in StateRecords, r \in [Messages -> LinesRead], h \in BOOLEAN :
        s = state /\ r = indexRows /\ h = holed
  BY PartsAre
<1>7. \A at \in 0..Len(t) : Says(s, indexed, at) =>
           Right(t, at, s.last + 1, r) /\ (~h => Whole(s.last + 1, r))
  BY <1>1, <1>6, PartsAre
<1>8. ~s.has => s = NoState
  BY <1>6, PartsAre
<1>9. w.at <= Len(t) => Right(t, w.at, w.next, r) /\ (~h => Whole(w.next, r))
  BY <1>5, <1>6
<1>10. /\ state' = s /\ indexRows' = r /\ walk' = w /\ holed' = h /\ tail' = tail
       /\ known' \in BOOLEAN /\ upsets' \in Nat
  BY <1>2, <1>3, <1>6
<1> QED
  BY <1>1, <1>2, <1>4, <1>6, <1>7, <1>8, <1>9, <1>10, PartsMove

LEMMA WalkStops ==
  ASSUME IndexIInv, WalkFails \/ Restart
  PROVE  IndexIInv'
<1>1. PICK t \in Seq(Kinds) : t = text[indexed]
  BY PartsAre
<1>2. /\ UNCHANGED <<indexed, text, torn, known, state, indexRows, holed>>
      /\ known \in BOOLEAN /\ walk' = NoWalk
  BY PartsAre DEF WalkFails, Restart
<1>3. upsets' \in Nat
  <2>1. upsets \in Nat /\ (upsets' = upsets \/ upsets' = upsets + 1)
    BY PartsAre DEF WalkFails, Restart
  <2> QED
    BY <2>1
<1>4. tail' \in {tail, NoTail}
  BY DEF WalkFails, Restart
<1>5. PICK w \in WalkRecords : w = NoWalk
  BY NothingIs
<1>6. PICK s \in StateRecords, r \in [Messages -> LinesRead], h \in BOOLEAN :
        s = state /\ r = indexRows /\ h = holed
  BY PartsAre
<1>7. \A at \in 0..Len(t) : Says(s, indexed, at) =>
           Right(t, at, s.last + 1, r) /\ (~h => Whole(s.last + 1, r))
  BY <1>1, <1>6, PartsAre
<1>8. ~s.has => s = NoState
  BY <1>6, PartsAre
<1>9. ~Walks(w) /\ w.at = 0 /\ w.next = 0 /\ w.id = 0
  BY <1>5, NothingIs
<1>10. state' = s /\ indexRows' = r /\ walk' = w /\ holed' = h /\ known' \in BOOLEAN
  BY <1>2, <1>5, <1>6
<1> QED
  BY <1>1, <1>2, <1>3, <1>4, <1>6, <1>7, <1>8, <1>9, <1>10, PartsMove

LEMMA WalkReaches ==
  ASSUME IndexIInv, WalkEnds
  PROVE  IndexIInv'
<1>1. PICK t \in Seq(Kinds) : t = text[indexed]
  BY PartsAre
<1>2. /\ UNCHANGED <<indexed, text, torn, known, indexRows, tail, holed, upsets>>
      /\ known \in BOOLEAN /\ walk' = NoWalk /\ Walks(walk) /\ upsets \in Nat
      /\ state' = [has |-> TRUE, id |-> walk.id, off |-> 2 * walk.at, last |-> walk.next - 1]
  BY PartsAre DEF WalkEnds, Walks
<1>3. walk.id = indexed
  BY <1>2, PartsAre
<1>4. PICK at \in LinesRead, n \in LinesRead : at = walk.at /\ n = walk.next
  <2>1. walk \in WalkRecords
    BY PartsAre
  <2> QED
    BY <2>1 DEF WalkRecords
<1>5. at \in Nat /\ n \in Nat /\ n <= MaxLines
  BY IndexConstantsAssumption DEF LinesRead
<1>6. PICK s : s = [has |-> TRUE, id |-> indexed, off |-> 2 * at, last |-> n - 1]
  OBVIOUS
<1>7. s \in StateRecords /\ s.has /\ s.id = indexed /\ s.off = 2 * at /\ s.last + 1 = n
  <2>1. 2 * at \in {2 * a : a \in LinesRead}
    BY <1>4
  <2>2. n - 1 \in -1..(MaxLines - 1) /\ indexed \in 0..MaxFiles
    BY <1>5, FileIs, IndexConstantsAssumption
  <2> QED
    BY <1>5, <1>6, <2>1, <2>2 DEF StateRecords
<1>8. PICK w \in WalkRecords : w = NoWalk
  BY NothingIs
<1>9. PICK r \in [Messages -> LinesRead], h \in BOOLEAN : r = indexRows /\ h = holed
  BY PartsAre
<1>10. \A a \in 0..Len(t) : Says(s, indexed, a) =>
           Right(t, a, s.last + 1, r) /\ (~h => Whole(s.last + 1, r))
  <2> SUFFICES ASSUME NEW a \in 0..Len(t), Says(s, indexed, a)
               PROVE  Right(t, a, s.last + 1, r) /\ (~h => Whole(s.last + 1, r))
    OBVIOUS
  <2>1. a = at
    BY <1>5, <1>7 DEF Says
  <2>2. walk.at <= Len(text[indexed])
    BY <1>1, <1>4, <2>1
  <2>3. Right(t, at, n, r) /\ (~h => Whole(n, r))
    BY <1>1, <1>2, <1>4, <1>9, <2>2, PartsAre
  <2> QED
    BY <1>7, <2>1, <2>3
<1>11. ~Walks(w) /\ w.at = 0 /\ w.next = 0 /\ w.id = 0
  BY <1>8, NothingIs
<1>12. /\ state' = s /\ indexRows' = r /\ walk' = w /\ holed' = h /\ tail' = tail
       /\ known' \in BOOLEAN /\ upsets' \in Nat
  BY <1>2, <1>3, <1>4, <1>6, <1>8, <1>9
<1> QED
  BY <1>1, <1>2, <1>7, <1>10, <1>11, <1>12, PartsMove

LEMMA WalkReads ==
  ASSUME IndexIInv, NEW to \in 1..MaxLines, WalkChunk(to)
  PROVE  IndexIInv'
<1>1. PICK t \in Seq(Kinds) : t = text[indexed]
  BY PartsAre
<1>2. /\ UNCHANGED <<indexed, text, torn, known, state, tail, holed, upsets>>
      /\ known \in BOOLEAN /\ upsets \in Nat /\ Walks(walk)
  BY PartsAre DEF WalkChunk, Walks
<1>3. walk.id = indexed
  BY <1>2, PartsAre
<1>4. PICK at \in Nat, n \in Nat : at = walk.at /\ n = walk.next
  BY PartsAre
<1>5. at < to /\ to <= Len(t)
  BY <1>1, <1>3, <1>4 DEF WalkChunk
<1>6. PICK s \in StateRecords, old \in [Messages -> LinesRead], h \in BOOLEAN :
        s = state /\ old = indexRows /\ h = holed
  BY PartsAre
<1>7. Right(t, at, n, old) /\ (~h => Whole(n, old))
  <2>1. walk.at <= Len(text[indexed])
    BY <1>1, <1>4, <1>5
  <2> QED
    BY <1>1, <1>2, <1>4, <1>6, <2>1, PartsAre
<1>8. PICK m \in Nat : m = Msgs(t, at, to)
  BY MsgsIsNat
<1>9. n = Msgs(t, 0, at)
  BY <1>7 DEF Right
<1>10. PICK f : f = indexed
  OBVIOUS
<1>11. PICK new : new = Numbered(f, at, to, n)
  OBVIOUS
<1>12. RowsFor(new, t, at, to)
  <2>1. t = text[f] /\ at <= to /\ to <= MaxLines /\ to \in Nat
    BY <1>1, <1>5, <1>10, IndexConstantsAssumption
  <2> QED
    BY <1>9, <1>11, <2>1, NumberedIs
<1>13. PICK r \in [Messages -> LinesRead] : r = Written(old, new)
  BY <1>12, WrittenTyped DEF RowsFor
<1>14. Right(t, to, n + m, r) /\ (Whole(n, old) => Whole(n + m, r))
  BY <1>5, <1>7, <1>8, <1>12, <1>13, WrittenExtends
<1>15. n + m \in LinesRead /\ to \in LinesRead
  <2>1. n + m = Msgs(t, 0, to)
    BY <1>14 DEF Right
  <2>2. Msgs(t, 0, to) <= to
    BY MsgsBounded
  <2> QED
    BY <2>1, <2>2, IndexConstantsAssumption DEF LinesRead
<1>16. PICK w : w = [walk EXCEPT !.at = to, !.next = n + m]
  OBVIOUS
<1>17. w \in WalkRecords /\ Walks(w) /\ w.id = indexed /\ w.at = to /\ w.next = n + m
  <2>1. walk \in WalkRecords
    BY PartsAre
  <2>2. w.pc = walk.pc /\ w.id = walk.id
    BY <1>16, <2>1 DEF WalkRecords
  <2> QED
    BY <1>2, <1>3, <1>15, <1>16, <2>1, <2>2 DEF WalkRecords, Walks
<1>18. walk' = w /\ indexRows' = r
  <2>1. Count(f, at, to) = m
    BY <1>1, <1>8, <1>10 DEF Count, Msgs, Among
  <2>2. walk.next + Count(walk.id, walk.at, to) = n + m
    BY <1>3, <1>4, <1>10, <2>1
  <2>3. walk' = [walk EXCEPT !.at = to, !.next = walk.next + Count(walk.id, walk.at, to)]
    BY DEF WalkChunk
  <2>4. indexRows' = Written(indexRows, Numbered(walk.id, walk.at, to, walk.next))
    BY DEF WalkChunk
  <2>5. walk' = w
    BY <1>16, <2>2, <2>3
  <2>6. indexRows' = r
    BY <1>3, <1>4, <1>6, <1>10, <1>11, <1>13, <2>4
  <2> QED
    BY <2>5, <2>6
<1>19. \A a \in 0..Len(t) : Says(s, indexed, a) =>
           Right(t, a, s.last + 1, r) /\ (~h => Whole(s.last + 1, r))
  <2> SUFFICES ASSUME NEW a \in 0..Len(t), Says(s, indexed, a)
               PROVE  Right(t, a, s.last + 1, r) /\ (~h => Whole(s.last + 1, r))
    OBVIOUS
  <2>1. Right(t, a, s.last + 1, old) /\ (~h => Whole(s.last + 1, old))
    BY <1>1, <1>6, PartsAre
  <2>2. PICK k : k = s.last + 1
    OBVIOUS
  <2>3. Right(t, a, k, old)
    BY <2>1, <2>2
  <2>4. Right(t, a, k, r) /\ (Whole(k, old) => Whole(k, r))
    BY <1>12, <1>13, <2>3, WrittenRight
  <2> QED
    BY <2>1, <2>2, <2>4
<1>20. ~s.has => s = NoState
  BY <1>6, PartsAre
<1>21. w.at <= Len(t) => Right(t, w.at, w.next, r) /\ (~h => Whole(w.next, r))
  BY <1>7, <1>14, <1>17
<1>22. /\ state' = s /\ holed' = h /\ tail' = tail
       /\ known' \in BOOLEAN /\ upsets' \in Nat /\ s = state
  BY <1>2, <1>6
<1> QED
  BY <1>1, <1>2, <1>17, <1>18, <1>19, <1>20, <1>21, <1>22, PartsMove

LEMMA DetailKeeps ==
  ASSUME IndexIInv, NEW from \in Messages, Detail(from)
  PROVE  IndexIInv'
<1>1. PICK t \in Seq(Kinds) : t = text[indexed]
  BY PartsAre
<1>2. PICK x : x = Index
  OBVIOUS
<1>3. PICK y : y = Backfill(x)
  OBVIOUS
<1>4. IndexFits(x, indexed, t) /\ x.state = state
  BY <1>1, <1>2, FileIs
<1>5. IndexFits(y, indexed, t) /\ (y.state.has => x.state = y.state)
  BY <1>3, <1>4, BackfillFits
<1>6. IndexBecomes(y) /\ UNCHANGED <<indexed, text, torn, known, tail, upsets>>
  BY <1>2, <1>3 DEF Detail
<1>7. known' \in BOOLEAN /\ upsets' \in Nat
  BY <1>6, PartsAre
<1>8. y.state.has => y.state.id <= indexed
  BY <1>4, <1>5 DEF IndexIInv
<1>9. TailMay(tail', y)
  <2>1. TailMay(tail, x)
    BY <1>2, FileIs
  <2> QED
    BY <1>5, <1>6, <2>1 DEF TailMay
<1> QED
  BY <1>1, <1>5, <1>6, <1>7, <1>8, <1>9, IndexMoves

LEMMA WipeKeeps ==
  ASSUME IndexIInv, Wipe
  PROVE  IndexIInv'
<1>1. PICK t \in Seq(Kinds) : t = text[indexed]
  BY PartsAre
<1>2. /\ UNCHANGED <<indexed, text, torn, state, walk, tail>> /\ known' = FALSE
      /\ indexRows' = NoRows
  BY DEF Wipe
<1>3. upsets' = upsets + 1 /\ upsets \in Nat
  BY PartsAre DEF Wipe
<1>4. upsets' \in Nat
  BY <1>3
<1>5. PICK s \in StateRecords, w \in WalkRecords : s = state /\ w = walk
  BY PartsAre
<1>6. PICK r \in [Messages -> LinesRead] : r = NoRows
  BY NothingIs
<1>7. PICK h : h = (holed \/ state.has \/ walk.next > 0)
  OBVIOUS
<1>8. h \in BOOLEAN /\ (~h => ~s.has)
  BY <1>5, <1>7
<1>9. ~h => w.next = 0
  <2>1. ASSUME ~h PROVE ~(walk.next > 0)
    BY <1>7, <2>1
  <2> QED
    BY <1>5, <2>1, PartsAre
<1>10. \A a \in 0..Len(t) : Says(s, indexed, a) =>
           Right(t, a, s.last + 1, r) /\ (~h => Whole(s.last + 1, r))
  <2> SUFFICES ASSUME NEW a \in 0..Len(t), Says(s, indexed, a)
               PROVE  Right(t, a, s.last + 1, r) /\ (~h => Whole(s.last + 1, r))
    OBVIOUS
  <2>1. Right(t, a, s.last + 1, indexRows)
    BY <1>1, <1>5, PartsAre
  <2>2. PICK k : k = s.last + 1
    OBVIOUS
  <2>3. k = Msgs(t, 0, a)
    BY <2>1, <2>2 DEF Right
  <2>4. Right(t, a, k, r)
    BY <1>6, <2>3, RightOfNone
  <2>5. s.has
    BY DEF Says
  <2> QED
    BY <1>8, <2>2, <2>4, <2>5
<1>11. ASSUME Walks(w), w.at <= Len(t)
       PROVE  Right(t, w.at, w.next, r) /\ (~h => Whole(w.next, r))
  <2>1. Right(t, w.at, w.next, indexRows)
    BY <1>1, <1>5, <1>11, PartsAre
  <2>2. PICK a \in Nat, k \in Nat : a = w.at /\ k = w.next
    BY <1>5, PartsAre
  <2>3. k = Msgs(t, 0, a)
    BY <2>1, <2>2 DEF Right
  <2>4. Right(t, a, k, r)
    BY <1>6, <2>3, RightOfNone
  <2>5. ~h => Whole(k, r)
    BY <1>9, <2>2, WholeOfNone
  <2> QED
    BY <2>2, <2>4, <2>5
<1>12. ~s.has => s = NoState
  BY <1>5, PartsAre
<1>13. (Walks(w) => w.id = indexed) /\ (~Walks(w) => w.at = 0 /\ w.next = 0 /\ w.id = 0)
  BY <1>5, PartsAre
<1>14. state' = s /\ indexRows' = r /\ walk' = w /\ tail' = tail /\ known' \in BOOLEAN /\ s = state
  BY <1>2, <1>5, <1>6
<1>15. holed' = h
  BY <1>7 DEF Wipe
<1> QED
  BY <1>1, <1>2, <1>4, <1>8, <1>10, <1>11, <1>12, <1>13, <1>14, <1>15, PartsMove

LEMMA UpsertKeeps ==
  ASSUME IndexIInv, Upserted
  PROVE  IndexIInv'
<1>1. /\ UNCHANGED <<indexed, text, torn, state, indexRows, walk, tail, holed, upsets>>
      /\ known' \in BOOLEAN /\ upsets \in Nat
  BY PartsAre DEF Upserted
<1>2. TailMay(tail', Index)
  BY <1>1, FileIs
<1> QED
  BY <1>1, <1>2, IndexStays

-----------------------------------------------------------------------------
(* The index of a transcript is true to it.                                *)

LEMMA IndexBegins ==
  IndexInit => IndexIInv
<1> SUFFICES ASSUME IndexInit PROVE IndexIInv
  OBVIOUS
<1>1. PICK t \in Seq(Kinds) : t = <<>> /\ Len(t) = 0
  <2>1. <<>> \in Seq(Kinds) /\ Len(<<>>) = 0
    OBVIOUS
  <2> QED
    BY <2>1
<1>2. /\ indexed = 1 /\ text = [f \in 1..MaxFiles |-> t] /\ torn = FALSE /\ known = FALSE
      /\ state = NoState /\ indexRows = NoRows /\ walk = NoWalk /\ tail = NoTail
      /\ holed = FALSE /\ upsets = 0
  BY <1>1 DEF IndexInit
<1>3. 1 \in 1..MaxFiles /\ text \in [1..MaxFiles -> Seq(Kinds)] /\ text[1] = t
      /\ \A f \in 1..MaxFiles : text[f] = <<>>
  BY <1>1, <1>2, IndexConstantsAssumption
<1>4. PICK s \in StateRecords, r \in [Messages -> LinesRead], w \in WalkRecords, h \in BOOLEAN :
        s = NoState /\ r = NoRows /\ w = NoWalk /\ h = FALSE
  BY NothingIs
<1>5. PICK y : y = Index
  OBVIOUS
<1>6. y = [state |-> s, rows |-> r, walk |-> w, holed |-> h]
  BY <1>2, <1>4, <1>5 DEF Index
<1>7. ~Walks(w) /\ w.at = 0 /\ w.next = 0 /\ w.id = 0 /\ ~s.has /\ s.id = 0
  BY <1>4, NothingIs
<1>8. \A at \in 0..Len(t) : ~Says(s, indexed, at)
  BY <1>4, NoStateFits
<1>9. PICK id : id = indexed
  OBVIOUS
<1>10. IndexFits(y, id, t)
  BY <1>4, <1>6, <1>7, <1>8, <1>9, IndexFitsIs
<1>11. IndexFits(Index, indexed, text[indexed])
  BY <1>2, <1>3, <1>5, <1>9, <1>10
<1>12. Len(text[indexed]) <= MaxLines
  BY <1>1, <1>2, <1>3, IndexConstantsAssumption
<1>13. TailMay(tail, Index)
  BY <1>2, NoTailMay
<1>14. state.id <= indexed
  BY <1>2, NothingIs
<1> QED
  BY <1>2, <1>3, <1>11, <1>12, <1>13, <1>14, IndexIInvIs

LEMMA IndexStep ==
  IndexIInv /\ [IndexNext]_indexVars => IndexIInv'
<1> SUFFICES ASSUME IndexIInv, [IndexNext]_indexVars PROVE IndexIInv'
  OBVIOUS
<1>1. CASE \E kind \in {"msg", "side"} : AppendLine(kind)
  BY <1>1, FileStepsKeep
<1>2. CASE AppendPart \/ Cut \/ Replace
  BY <1>2, FileStepsKeep
<1>3. CASE Watch \/ Unwatch \/ Changed
  BY <1>3, WatchKeeps
<1>4. CASE TailStat
  BY <1>4, TailStatKeeps
<1>5. CASE TailRead
  BY <1>5, TailReadKeeps
<1>6. CASE WalkOpen \/ WalkEof
  BY <1>6, WalkOpens
<1>7. CASE WalkEnds
  BY <1>7, WalkReaches
<1>8. CASE WalkFails \/ Restart
  BY <1>8, WalkStops
<1>9. CASE \E to \in 1..MaxLines : WalkChunk(to)
  BY <1>9, WalkReads
<1>10. CASE \E from \in Messages : Detail(from)
  BY <1>10, DetailKeeps
<1>11. CASE Upserted
  BY <1>11, UpsertKeeps
<1>12. CASE Wipe
  BY <1>12, WipeKeeps
<1>13. CASE UNCHANGED indexVars
  <2>1. /\ UNCHANGED <<indexed, text, torn, known, state, indexRows, walk, tail, holed, upsets>>
        /\ known \in BOOLEAN /\ upsets \in Nat
    BY <1>13, PartsAre DEF indexVars
  <2>2. TailMay(tail', Index)
    BY <2>1, FileIs
  <2> QED
    BY <2>1, <2>2, IndexStays
<1> QED
  BY <1>1, <1>2, <1>3, <1>4, <1>5, <1>6, <1>7, <1>8, <1>9, <1>10, <1>11, <1>12, <1>13 DEF IndexNext

LEMMA IndexImplies ==
  IndexIInv => IndexInv
<1> SUFFICES ASSUME IndexIInv PROVE IndexInv
  OBVIOUS
<1>1. PICK t \in Seq(Kinds) : t = text[indexed]
  BY PartsAre
<1>2. state \in StateRecords /\ state.last \in -1..(MaxLines - 1) /\ indexRows \in [Messages -> LinesRead]
  BY PartsAre DEF StateRecords
<1>3. ASSUME NEW from, Serves(from)
      PROVE  /\ Right(t, Len(t), state.last + 1, indexRows)
             /\ ~holed => Whole(state.last + 1, indexRows)
  <2>1. state.has /\ state.id = indexed /\ state.off = Size
    BY <1>3 DEF Serves
  <2>2. PICK a \in LinesRead : state.off = 2 * a
    BY <1>2 DEF StateRecords
  <2>3. a \in Nat /\ Len(t) \in Nat
    BY IndexConstantsAssumption DEF LinesRead
  <2>4. PICK one \in {0, 1} : one = IF torn THEN 1 ELSE 0
    OBVIOUS
  <2>5. 2 * a = 2 * Len(t) + one
    BY <1>1, <2>1, <2>2, <2>4 DEF Size
  <2>6. a = Len(t)
    BY <2>3, <2>5
  <2>7. Says(state, indexed, a) /\ a \in 0..Len(text[indexed])
    BY <1>1, <2>1, <2>2, <2>3, <2>6 DEF Says
  <2> QED
    BY <1>1, <2>6, <2>7, PartsAre
<1>4. ASSUME NEW a, NEW b
      PROVE  Count(indexed, a, b) = Msgs(t, a, b)
  BY <1>1 DEF Count, Msgs, Among
<1>5. \A i \in 0..state.last : i \in Messages /\ i < state.last + 1
  BY <1>2, IndexConstantsAssumption DEF Messages
<1>6. RowsAreTrue
  <2> SUFFICES ASSUME Serves(0), NEW i \in 0..state.last, indexRows[i] # 0
               PROVE  indexRows[i] <= Len(text[indexed]) /\ Nth(i, indexRows[i])
    BY DEF RowsAreTrue
  <2>1. i \in Messages /\ i < state.last + 1
    BY <1>5
  <2>2. Right(t, Len(t), state.last + 1, indexRows)
    BY <1>3
  <2>3. indexRows[i] <= Len(t) /\ t[indexRows[i]] = "msg" /\ Msgs(t, 0, indexRows[i] - 1) = i
    BY <2>1, <2>2 DEF Right
  <2>4. Count(indexed, 0, indexRows[i] - 1) = i
    BY <1>4, <2>3
  <2> QED
    BY <1>1, <2>3, <2>4 DEF Nth
<1>7. WholeUnlessHoled
  <2> SUFFICES ASSUME ~holed, NEW from \in Messages, Serves(from)
               PROVE  /\ state.last + 1 = Count(indexed, 0, Len(text[indexed]))
                      /\ \A i \in from..state.last : indexRows[i] # 0
    BY DEF WholeUnlessHoled, WindowIsWhole
  <2>1. Right(t, Len(t), state.last + 1, indexRows) /\ Whole(state.last + 1, indexRows)
    BY <1>3
  <2>2. state.last + 1 = Count(indexed, 0, Len(text[indexed]))
    BY <1>1, <1>4, <2>1 DEF Right
  <2>3. ASSUME NEW i \in from..state.last
        PROVE  indexRows[i] # 0
    <3>1. i \in 0..state.last
      BY <1>2, IndexConstantsAssumption DEF Messages
    <3> QED
      BY <1>5, <2>1, <3>1 DEF Whole
  <2> QED
    BY <2>2, <2>3
<1>8. PendingIsRead
  BY DEF IndexIInv
<1>9. IndexTypeOK
  <2>1. walk \in WalkRecords /\ tail \in TailRecords /\ indexed \in 1..MaxFiles
    BY PartsAre, FileIs DEF TailMay
  <2>2. walk.pc \in {"none", "open", "read", "close"} /\ tail.pc \in {"no", "stat", "read"}
    BY <2>1 DEF WalkRecords, TailRecords
  <2> QED
    BY <1>2, <2>1, <2>2 DEF IndexTypeOK, LinesRead
<1> QED
  BY <1>6, <1>7, <1>8, <1>9 DEF IndexInv

-----------------------------------------------------------------------------
(* The parts side by side.                                                 *)

LEMMA HistoryStep ==
  ASSUME [ServicesNext]_servicesVars
  PROVE  [CacheNext]_cacheVars /\ [IndexNext]_indexVars
<1>1. CASE UNCHANGED servicesVars
  BY <1>1 DEF servicesVars, historyGroup
<1>2. CASE ServicesNext
  BY <1>2, Zenon DEF ServicesNext, historyGroup
<1> QED
  BY <1>1, <1>2

\* Amid live tails, upserts, unlink events, scans and alerts, the row of a file on disk
\* is dropped only by its unlink event or by the human's word, no row goes but by that
\* word while an alert is pending, and a row that stays keeps its count and its deletion
\* (conversation-cache.ts, cacheIntegrityMonitor.ts).
THEOREM RowsOfFilesStay == ServicesSpec => RowsStay
<1>1. ServicesInit => CacheIInv
  BY CacheBegins DEF ServicesInit
<1>2. CacheIInv /\ [ServicesNext]_servicesVars => CacheIInv'
  BY HistoryStep, CacheStep
<1>3. CacheIInv /\ [ServicesNext]_servicesVars => [\A f \in CacheFiles : RowStays(f)]_cacheVars
  BY HistoryStep, CacheKeepsRows DEF RowsAreKept
<1> QED
  BY <1>1, <1>2, <1>3, PTL DEF ServicesSpec, RowsStay

\* Whoever adds and drops rows, the index that live tails go by names the rows there
\* are, and the alert that is pending is the one a restart finds in the file
\* (conversation-cache.ts, cacheIntegrityMonitor.ts).
THEOREM CacheHolds == ServicesSpec => []CacheInv
<1>1. ServicesInit => CacheIInv
  BY CacheBegins DEF ServicesInit
<1>2. CacheIInv /\ [ServicesNext]_servicesVars => CacheIInv'
  BY HistoryStep, CacheStep
<1>3. CacheIInv => CacheInv
  BY DEF CacheIInv
<1> QED
  BY <1>1, <1>2, <1>3, PTL DEF ServicesSpec

\* Whatever is appended, cut, replaced, deleted and read meanwhile, by a backfill, a live
\* tail or both: each row of the offset index names the line its message is on, and none
\* is missing unless rows were deleted under it (conversation-cache.ts,
\* conversationWatcher.ts).
THEOREM IndexHolds == ServicesSpec => []IndexInv
<1>1. ServicesInit => IndexIInv
  BY IndexBegins DEF ServicesInit
<1>2. IndexIInv /\ [ServicesNext]_servicesVars => IndexIInv'
  BY HistoryStep, IndexStep
<1>3. IndexIInv => IndexInv
  BY IndexImplies
<1> QED
  BY <1>1, <1>2, <1>3, PTL DEF ServicesSpec
==============================================================================
