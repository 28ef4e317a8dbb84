------------------------------ MODULE CacheRows -----------------------------
(***************************************************************************)
(* The rows of the conversation cache against the transcripts on disk, and *)
(* the monitor that asks a human before rows of missing files go           *)
(* (conversation-cache.ts, cacheIntegrityMonitor.ts).                      *)
(*                                                                         *)
(* Writers of a row: the live tail (updateFromLines), a parse of its file, *)
(* a scan of all files.  Droppers: an unlink event, the reconcile after a  *)
(* scan, the prune after the warm-up, a resolution of the alert.  A row is *)
(* named by its file and a file is its number of messages, the newest      *)
(* last.  One scan of all files and one resolution at a time.  Left out:   *)
(* aliases of a file, agent and subagent files, names.                     *)
(***************************************************************************)
EXTENDS Integers, FiniteSets, Sequences, SequencesExt

CONSTANTS
  CacheFiles,
  TailSize,      \* messages a tail keeps
  MinMissing,    \* THREADBASE_CACHE_ALERT_MIN_MISSING
  Storm,         \* STORM_THRESHOLD
  Budgets        \* how often a Happening may happen, as bounds

Happenings == {"messages", "disk", "scans", "warm-up", "parses", "hides", "resolutions", "reboots"}

ASSUME CacheRowsAssumption ==
  Budgets \subseteq [Happenings -> Nat] /\ TailSize \in Nat \ {0} /\ MinMissing \in Nat \ {0}

VARIABLES
  onDisk,    \* per file: whether it is there, and its messages
  cacheRow,  \* conversation_meta and conversation_tail
  fileIndex, \* fileIndex: the files whose row the live tail writes to
  loaded,    \* fileIndexLoaded
  tailAt,    \* per file: what its live tail has read, or NotTailed
  unlinked,  \* files whose unlink event is to come
  full,      \* the scan of all files under way
  pass,      \* per file: what a parse of it has read, or NotRead
  alert,     \* _pending: the missing files it names; empty for none
  saved,     \* the alert and the ignored ids in cache-alert.json
  deferred,  \* deferredUnlinks
  unlinks,   \* unlinkTimes within the window
  detecting, \* detections that wait for their backup
  resolving, \* the resolution that waits for its backup
  left       \* what the bounds leave

fileVars == <<onDisk, tailAt, unlinked>>
rowVars == <<cacheRow, fileIndex, loaded>>
readVars == <<full, pass>>
monitorVars == <<alert, saved, deferred, unlinks, detecting, resolving>>
cacheVars == <<fileVars, rowVars, readVars, monitorVars, left>>

NotTailed == -1
NotRead == -1
NoCacheRow == [in |-> FALSE, count |-> 0, upto |-> 0, tail |-> <<>>, hidden |-> FALSE,
               stamp |-> NotRead, meta |-> NotRead]
NoScan == [for |-> "none", todo |-> {}, known |-> {}, seen |-> [f \in CacheFiles |-> NotRead],
           owed |-> FALSE]
NoResolution == [action |-> "none", missing |-> {}, ids |-> {}]

Cached == {f \in CacheFiles : cacheRow[f].in}
Missing == {f \in Cached : ~onDisk[f].there}
Spend(what) == left[what] > 0 /\ left' = [left EXCEPT ![what] = @ - 1]
Larger(m, n) == IF m > n THEN m ELSE n

(* A cache of an earlier run, with its tails.                              *)
RowOf(n) == [NoCacheRow EXCEPT !.in = TRUE, !.count = n, !.upto = n, !.tail = <<n>>,
                             !.stamp = n, !.meta = n]

CacheInit ==
  /\ onDisk = [f \in CacheFiles |-> [there |-> TRUE, messages |-> 1]]
  /\ cacheRow \in {[f \in CacheFiles |-> NoCacheRow], [f \in CacheFiles |-> RowOf(1)]}
  /\ fileIndex = {} /\ loaded = FALSE
  /\ tailAt = [f \in CacheFiles |-> NotTailed] /\ unlinked = {}
  /\ full = NoScan /\ pass = [f \in CacheFiles |-> NotRead]
  /\ alert = {} /\ saved = [alert |-> {}, ignored |-> {}] /\ deferred = {} /\ unlinks = 0
  /\ detecting = {} /\ resolving = NoResolution
  /\ left \in Budgets

-----------------------------------------------------------------------------
(* The disk.                                                               *)

AppendMessage ==
  /\ Spend("messages")
  /\ \E f \in CacheFiles :
       onDisk[f].there /\ onDisk' = [onDisk EXCEPT ![f].messages = @ + 1]
  /\ UNCHANGED <<tailAt, unlinked, rowVars, readVars, monitorVars>>

Vanish ==
  /\ Spend("disk")
  /\ \E f \in CacheFiles :
       /\ onDisk[f].there
       /\ onDisk' = [onDisk EXCEPT ![f].there = FALSE]
       /\ unlinked' = unlinked \cup {f}
  /\ UNCHANGED <<tailAt, rowVars, readVars, monitorVars>>

(* A volume is mounted again.                                              *)
ComeBack ==
  /\ Spend("disk")
  /\ \E f \in CacheFiles :
       /\ ~onDisk[f].there
       /\ onDisk' = [onDisk EXCEPT ![f].there = TRUE]
  /\ UNCHANGED <<tailAt, unlinked, rowVars, readVars, monitorVars>>

-----------------------------------------------------------------------------
(* Writers of rows.                                                        *)

(* The tail opens at the end of the file.                                  *)
WatchFile ==
  /\ \E f \in CacheFiles :
       /\ onDisk[f].there /\ tailAt[f] = NotTailed
       /\ tailAt' = [tailAt EXCEPT ![f] = onDisk[f].messages]
  /\ UNCHANGED <<onDisk, unlinked, rowVars, readVars, monitorVars, left>>

(* updateFromLines.  classifyAppendedLines first gives a file without row  *)
(* a skeleton, which counts a message of its own, and the index its entry; *)
(* the index is loaded once.                                               *)
LastOf(s) == IF Len(s) > TailSize THEN SubSeq(s, Len(s) - TailSize + 1, Len(s)) ELSE s

WithLines(row, from, to) ==
  [row EXCEPT !.count = @ + (to - from), !.upto = Larger(@, to),
              !.tail = LastOf(@ \o [k \in 1..(to - from) |-> from + k])]

Skeleton(row) == IF row.in THEN row ELSE [NoCacheRow EXCEPT !.in = TRUE, !.count = 1]

UpdateFromLines ==
  /\ \E f \in CacheFiles :
       LET from == tailAt[f]
           to == onDisk[f].messages
           index == (IF loaded THEN fileIndex ELSE Cached) \cup {f}
       IN  /\ from # NotTailed /\ onDisk[f].there /\ from < to
           /\ tailAt' = [tailAt EXCEPT ![f] = to]
           /\ cacheRow' = [cacheRow EXCEPT ![f] = WithLines(Skeleton(@), from, to)]
           /\ fileIndex' = index /\ loaded' = TRUE
  /\ UNCHANGED <<onDisk, unlinked, readVars, monitorVars, left>>

(* Mutant: a rescan overwrites the count.                                  *)
UpsertedOver(row, seen, file) ==
  [row EXCEPT !.in = TRUE, !.count = seen, !.upto = seen, !.meta = seen,
              !.stamp = IF file.there THEN file.messages ELSE NotRead]

(* upsertFromScannerMeta: the count never goes back, the rest is what the  *)
(* parse saw, stamped with the file as it is by now.                       *)
UpsertedRow(row, seen, file) ==
  [row EXCEPT !.in = TRUE, !.count = Larger(@, seen), !.upto = seen, !.meta = seen,
              !.stamp = IF file.there THEN file.messages ELSE NotRead]

Upsert(seen, which) ==
  /\ cacheRow' = [f \in CacheFiles |->
       IF f \in which THEN UpsertedRow(cacheRow[f], seen[f], onDisk[f]) ELSE cacheRow[f]]
  /\ fileIndex' = IF loaded THEN fileIndex \cup which ELSE fileIndex
  /\ UNCHANGED loaded

(* refreshFile and the upsert that follows.                                *)
Parse ==
  /\ Spend("parses")
  /\ \E f \in CacheFiles :
       /\ onDisk[f].there /\ pass[f] = NotRead
       /\ pass' = [pass EXCEPT ![f] = onDisk[f].messages]
  /\ UNCHANGED <<fileVars, rowVars, full, monitorVars>>

UpsertParsed ==
  /\ \E f \in CacheFiles :
       /\ pass[f] # NotRead
       /\ Upsert(pass, {f})
       /\ pass' = [pass EXCEPT ![f] = NotRead]
  /\ UNCHANGED <<fileVars, full, monitorVars, left>>

(* softDeleteConversation                                                  *)
SoftDelete ==
  /\ Spend("hides")
  /\ \E f \in Cached : ~cacheRow[f].hidden /\ cacheRow' = [cacheRow EXCEPT ![f].hidden = TRUE]
  /\ UNCHANGED <<fileVars, fileIndex, loaded, readVars, monitorVars>>

-----------------------------------------------------------------------------
(* Droppers of rows, with their entries of the index.                      *)

(* Mutant: the index keeps the entries of the rows that go.                *)
WithoutRows(gone) ==
  /\ cacheRow' = [f \in CacheFiles |-> IF f \in gone THEN NoCacheRow ELSE cacheRow[f]]
  /\ UNCHANGED <<fileIndex, loaded>>

Without(gone) ==
  /\ cacheRow' = [f \in CacheFiles |-> IF f \in gone THEN NoCacheRow ELSE cacheRow[f]]
  /\ fileIndex' = fileIndex \ gone
  /\ UNCHANGED loaded

Invalidate(f) == Without({f})
ClearAll == cacheRow' = [f \in CacheFiles |-> NoCacheRow] /\ fileIndex' = {}

(* runDetection, over rows as they will be: many missing rows are backed   *)
(* up before the alert is raised.  kept is the alert in the file meanwhile.*)
Raise(new) == alert' = new /\ saved' = [saved EXCEPT !.alert = new]

Detect(missing, then, kept) ==
  LET new == missing \ saved.ignored
  IN  CASE Cardinality(new) >= MinMissing ->
             /\ detecting' = detecting \cup {[missing |-> new, then |-> then]}
             /\ saved' = [saved EXCEPT !.alert = kept] /\ UNCHANGED alert
        [] new = {} /\ alert = {} ->
             saved' = [saved EXCEPT !.alert = kept] /\ UNCHANGED <<alert, detecting>>
        [] OTHER -> Raise(new) /\ UNCHANGED detecting

(* handleJsonlDeleted: the tail goes; while an alert is pending the row    *)
(* stays, otherwise it goes, and a burst of them triggers a detection.     *)
HandleJsonlDeleted ==
  /\ \E f \in unlinked :
       /\ unlinked' = unlinked \ {f}
       /\ tailAt' = [tailAt EXCEPT ![f] = NotTailed]
       /\ IF alert # {}
          THEN deferred' = deferred \cup {f} /\ UNCHANGED <<rowVars, alert, saved, unlinks, detecting>>
          ELSE /\ Invalidate(f) /\ UNCHANGED deferred
               /\ IF unlinks + 1 < Storm
                  THEN unlinks' = unlinks + 1 /\ UNCHANGED <<alert, saved, detecting>>
                  ELSE unlinks' = 0 /\ Detect(Missing \ {f}, "storm", saved.alert)
  /\ UNCHANGED <<onDisk, readVars, resolving, left>>

WindowPasses ==
  /\ unlinks > 0 /\ unlinks' = 0
  /\ UNCHANGED <<fileVars, rowVars, readVars, alert, saved, deferred, detecting, resolving, left>>

(* The prune after the warm-up keeps rows with a tail, unless an alert is  *)
(* pending.                                                                *)
Ghosts(missing) == {f \in missing : cacheRow[f].tail = <<>>}

DetectionDone ==
  /\ \E d \in detecting :
       /\ detecting' = detecting \ {d}
       /\ Raise(d.missing)
  /\ UNCHANGED <<fileVars, rowVars, readVars, deferred, unlinks, resolving, left>>

-----------------------------------------------------------------------------
(* Scans of all files: the warm-up of a boot, a refresh a client asks for, *)
(* a background reconcile, the rebuild after a reset.                      *)

(* buildStatCache: a scan takes what the rows tell of a file, with the stamp*)
(* they give it, when it starts.  The scanner before is taken to know as    *)
(* much.  A rebuild waits for the scan under way.                           *)
ScanFor(what, table) ==
  full' = [NoScan EXCEPT !.for = what, !.todo = CacheFiles,
             !.known = {[file |-> f, stamp |-> table[f].stamp, meta |-> table[f].meta] :
                          f \in {g \in CacheFiles : table[g].stamp # NotRead}}]

ScanOver == IF full.owed THEN ScanFor("reset", cacheRow') ELSE full' = NoScan

StartScan ==
  /\ full = NoScan
  /\ \E what \in {"warm-up", "refresh", "background"} :
       ScanFor(what, cacheRow) /\ Spend(IF what = "warm-up" THEN "warm-up" ELSE "scans")
  /\ UNCHANGED <<fileVars, rowVars, pass, monitorVars>>

(* A file whose stamp has not changed is not parsed.                       *)
Unchanged(f) == {k \in full.known : k.file = f /\ k.stamp = onDisk[f].messages}

ScanFile ==
  /\ \E f \in full.todo :
       full' = [full EXCEPT
         !.todo = @ \ {f},
         !.seen[f] = IF ~onDisk[f].there THEN NotRead
                     ELSE IF Unchanged(f) # {} THEN (CHOOSE k \in Unchanged(f) : TRUE).meta
                     ELSE onDisk[f].messages]
  /\ UNCHANGED <<fileVars, rowVars, pass, monitorVars, left>>

Found == {f \in CacheFiles : full.seen[f] # NotRead}
Scanned(what) == full.for = what /\ full.todo = {}

(* changedSinceCached: the background skips a file whose stamp is right.   *)
ChangedSinceCached(f) == ~cacheRow[f].in \/ ~onDisk[f].there \/ cacheRow[f].stamp # onDisk[f].messages

(* reconcileFromDisk: what is gone from disk loses its row, tail or not,   *)
(* unless an alert is pending.                                             *)
ReconcileDisk ==
  /\ Scanned("refresh") \/ Scanned("background")
  /\ LET written == IF full.for = "background" THEN {f \in Found : ChangedSinceCached(f)} ELSE Found
         gone == IF alert # {} THEN {}
                 ELSE {f \in (Cached \cup written) \ Found : ~onDisk[f].there}
     IN  /\ cacheRow' = [f \in CacheFiles |->
              CASE f \in gone -> NoCacheRow
                [] f \in written -> UpsertedRow(cacheRow[f], full.seen[f], onDisk[f])
                [] OTHER -> cacheRow[f]]
         /\ fileIndex' = (IF loaded THEN fileIndex \cup written ELSE fileIndex) \ gone
  /\ ScanOver
  /\ UNCHANGED <<loaded, fileVars, pass, monitorVars, left>>

(* The warm-up upserts, fills the tails that are missing, and detects.     *)
WarmUpsert ==
  /\ Scanned("warm-up")
  /\ Upsert(full.seen, Found)
  /\ full' = [full EXCEPT !.for = "tails", !.todo = Found]
  /\ UNCHANGED <<fileVars, pass, monitorVars, left>>

PopulateTail ==
  /\ full.for = "tails"
  /\ \E f \in full.todo :
       /\ full' = [full EXCEPT !.todo = @ \ {f}]
       /\ cacheRow' = [cacheRow EXCEPT ![f].tail =
            IF cacheRow[f].in /\ @ = <<>> /\ onDisk[f].there
            THEN LastOf([k \in 1..onDisk[f].messages |-> k]) ELSE @]
  /\ UNCHANGED <<fileVars, fileIndex, loaded, pass, monitorVars, left>>

DetectAtBoot ==
  /\ Scanned("tails")
  /\ Detect(Missing, "warm-up", saved.alert)
  /\ full' = [full EXCEPT !.for = "prune"]
  /\ UNCHANGED <<fileVars, rowVars, pass, deferred, unlinks, resolving, left>>

PruneGhosts ==
  /\ full.for = "prune" /\ ~\E d \in detecting : d.then = "warm-up"
  /\ IF alert # {} THEN UNCHANGED rowVars ELSE Without(Ghosts(Missing))
  /\ ScanOver
  /\ UNCHANGED <<fileVars, pass, monitorVars, left>>

UpsertRebuilt ==
  /\ Scanned("reset")
  /\ Upsert(full.seen, Found)
  /\ ScanOver
  /\ UNCHANGED <<fileVars, pass, monitorVars, left>>

-----------------------------------------------------------------------------
(* Resolutions: claimed at once, applied after the backup.                 *)

Claim ==
  /\ alert # {} /\ resolving = NoResolution
  /\ Spend("resolutions")
  /\ \E action \in {"prune_all", "prune_selected", "reset_rescan"},
        ids \in SUBSET alert \ {{}} :
       /\ action # "prune_selected" => ids = alert
       /\ resolving' = [action |-> action, missing |-> alert, ids |-> ids]
  /\ alert' = {}
  /\ UNCHANGED <<fileVars, rowVars, readVars, saved, deferred, unlinks, detecting>>

Ignore ==
  /\ alert # {} /\ Spend("resolutions")
  /\ saved' = [alert |-> {}, ignored |-> saved.ignored \cup alert]
  /\ alert' = {} /\ deferred' = {}
  /\ UNCHANGED <<fileVars, rowVars, readVars, unlinks, detecting, resolving>>

Cleared == alert' = {} /\ saved' = [saved EXCEPT !.alert = {}] /\ deferred' = {}

(* Every id is verified against the disk, then the queue is applied.       *)
PruneAll ==
  /\ resolving.action = "prune_all"
  /\ Without({f \in resolving.missing : ~onDisk[f].there} \cup deferred)
  /\ Cleared /\ resolving' = NoResolution
  /\ UNCHANGED <<fileVars, readVars, unlinks, detecting, left>>

PruneSelected ==
  /\ resolving.action = "prune_selected"
  /\ Without(resolving.ids)
  /\ deferred' = deferred \ resolving.ids
  /\ Detect(Missing \ resolving.ids, "select", alert)
  /\ resolving' = NoResolution
  /\ UNCHANGED <<fileVars, readVars, unlinks, left>>

(* clearAll, and a scan in the background.                                 *)
ResetRescan ==
  /\ resolving.action = "reset_rescan"
  /\ ClearAll
  /\ IF full = NoScan THEN ScanFor("reset", cacheRow') ELSE full' = [full EXCEPT !.owed = TRUE]
  /\ Cleared /\ resolving' = NoResolution
  /\ UNCHANGED <<fileVars, loaded, pass, unlinks, detecting, left>>

(* Memory is lost; cache.db and cache-alert.json are not.                  *)
CacheReboot ==
  /\ left["reboots"] > 0
  /\ left' = [left EXCEPT !["reboots"] = @ - 1, !["warm-up"] = 1]
  /\ fileIndex' = {} /\ loaded' = FALSE
  /\ tailAt' = [f \in CacheFiles |-> NotTailed] /\ unlinked' = {}
  /\ full' = NoScan /\ pass' = [f \in CacheFiles |-> NotRead]
  /\ alert' = saved.alert /\ deferred' = {} /\ unlinks' = 0
  /\ detecting' = {} /\ resolving' = NoResolution
  /\ UNCHANGED <<onDisk, cacheRow, saved>>

CacheNext ==
  \/ AppendMessage \/ Vanish \/ ComeBack \/ WatchFile \/ UpdateFromLines \/ Parse \/ UpsertParsed
  \/ SoftDelete \/ HandleJsonlDeleted \/ WindowPasses \/ DetectionDone \/ StartScan \/ ScanFile
  \/ ReconcileDisk \/ WarmUpsert \/ PopulateTail \/ DetectAtBoot \/ PruneGhosts \/ UpsertRebuilt
  \/ Claim \/ Ignore \/ PruneAll \/ PruneSelected \/ ResetRescan \/ CacheReboot

CacheSpec == CacheInit /\ [][CacheNext]_cacheVars

-----------------------------------------------------------------------------
(* Properties.                                                             *)

(* Once loaded, the index the live tail goes by names the rows there are,  *)
(* whoever adds and drops them: scans, tails, unlinks, humans.             *)
IndexSound == loaded => fileIndex = Cached

(* The alert that is pending is the one a restart finds in the file.       *)
AlertSaved == alert # {} => saved.alert = alert

CacheInv == IndexSound /\ AlertSaved

(* A row of a file on disk goes only by the human's word or the event of   *)
(* its unlink; while an alert is pending no row goes but by that word; a   *)
(* row that stays keeps its count and its deletion.                        *)
RowStays(f) ==
  LET goes == cacheRow[f].in /\ ~cacheRow'[f].in
      stays == cacheRow[f].in /\ cacheRow'[f].in
  IN  /\ (goes /\ onDisk[f].there) => (resolving # NoResolution \/ f \in unlinked \ unlinked')
      /\ (goes /\ alert # {}) => resolving # NoResolution
      /\ stays => cacheRow'[f].count >= cacheRow[f].count
      /\ (stays /\ cacheRow[f].hidden) => cacheRow'[f].hidden

RowsStay == [][\A f \in CacheFiles : RowStays(f)]_cacheVars

(* Does not hold: rows the human chose to keep stay.  An ignored id only   *)
(* raises no alert; the next reconcile or unlink drops its row.            *)
IgnoredStay == [][\A f \in saved.ignored : cacheRow[f].in => cacheRow'[f].in]_cacheVars

(* Does not hold: the alert names rows there are, and none that is ignored.*)
(* A detection in flight names what a reconcile drops or a human ignores.  *)
AlertNamesRows == alert \subseteq Cached
IgnoredUnnamed == alert \cap saved.ignored = {}

(* Does not hold: a stamp that matches the file vouches for the row.  The  *)
(* stamp is of the upsert, the row of the parse before it.                 *)
StampTellsContent ==
  \A f \in Cached : (onDisk[f].there /\ cacheRow[f].stamp = onDisk[f].messages) =>
    cacheRow[f].upto = onDisk[f].messages

(* Does not hold: a tail lists a message once.                             *)
TailOnce == \A f \in Cached : \A k, l \in DOMAIN cacheRow[f].tail :
              k < l => cacheRow[f].tail[k] < cacheRow[f].tail[l]
=============================================================================
