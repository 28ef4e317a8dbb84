---------------------------- MODULE ScanRefresh ----------------------------
(***************************************************************************)
(* The scanner of transcripts and the refreshes of one file                *)
(* (src/src/scanner-manager.ts).                                           *)
(*                                                                         *)
(* Scanner instances replace one another: a request builds one where there *)
(* is none, a rescan scans a shadow and swaps it in.  A file is parsed     *)
(* again into the instance a request holds; a request that knows the file  *)
(* has just been written must be covered by a parse that starts after it.  *)
(***************************************************************************)
EXTENDS Integers, FiniteSets

CONSTANTS
  ScanCallers, \* requests that may be under way together
  MaxScanners, \* instances built
  MaxWrites    \* appends to the file

ASSUME ScanConstantsAssumption == MaxScanners \in Nat /\ MaxWrites \in Nat

VARIABLES
  disk,    \* the version of the file on disk
  scan,    \* per instance: its scan is "unbuilt", "running", "ok" or "failed"
  current, \* the instance that is served, 0 for none
  ready,   \* the instance whose scan scannerReady is the promise of, 0 for none
  path,    \* stalePaths names the file
  stale,   \* scannerStale
  settling, \* markStaleDebounced has a call pending
  caller,  \* per request: where it is, what it is, the instance it waits for or holds
  need,    \* per request: the version it knows to be written, 0 for a read
  file,    \* refreshState of the file
  parse,   \* per instance: the parse of the file it runs
  backward \* the state of the file has moved to an older instance

scanVars == <<disk, scan, current, ready, path, stale, settling, caller, need, file, parse, backward>>

Scanners == 1..MaxScanners

\* The background reconcile is single-flighted: a request like the others, but one.
Background == "background"
Requests == ScanCallers \cup {Background}
Ops == {"list", "turn", "read", "rescan", "fresh"}

Idle == [pc |-> "idle", op |-> "list", on |-> 0]
NoParse == [on |-> FALSE, saw |-> 0, for |-> {}]
NoFile == [on |-> 0, active |-> FALSE, recent |-> FALSE, queued |-> FALSE, waiting |-> {}]

ScanInit ==
  /\ disk = 0 /\ scan = [g \in Scanners |-> "unbuilt"] /\ current = 0 /\ ready = 0
  /\ path = FALSE /\ stale = FALSE /\ settling = FALSE
  /\ caller = [c \in Requests |-> Idle] /\ need = [c \in Requests |-> 0]
  /\ file = NoFile /\ parse = [g \in Scanners |-> NoParse] /\ backward = FALSE

Unbuilt == {g \in Scanners : scan[g] = "unbuilt"}
NextScanner == CHOOSE g \in Unbuilt : \A h \in Unbuilt : g <= h
-----------------------------------------------------------------------------
(* The coordinator: file and parse together, as functions of a request.    *)

Coordinator == [file |-> file, parse |-> parse, backward |-> backward]

\* startRefreshPass: the instance starts a parse, or hands out the one it is running.
StartPass(co, g, who) ==
  [co EXCEPT !.file.active = TRUE,
             !.parse[g] = IF @.on THEN [@ EXCEPT !.for = @ \cup who]
                          ELSE [on |-> TRUE, saw |-> disk, for |-> who]]

\* refreshStateFor: the work recorded against another instance is forgotten, but for the
\* pass that was owed.
StateFor(co, g) ==
  IF co.file.on = g THEN co
  ELSE LET moved == [co EXCEPT !.file = [NoFile EXCEPT !.on = g],
                               !.backward = @ \/ co.file.on > g]
       IN IF co.file.queued THEN StartPass(moved, g, co.file.waiting) ELSE moved

\* Mutant: a request that finds a pass running is content with it.
AfterWriteJoins(co, g, c) == StartPass(StateFor(co, g), g, {c})

\* refreshFileAfterWrite
AfterWrite(co, g, c) ==
  LET st == StateFor(co, g)
  IN IF st.file.active
     THEN [st EXCEPT !.file.queued = TRUE, !.file.waiting = @ \cup {c}]
     ELSE StartPass(st, g, {c})

\* refreshFileForRead
ForRead(co, g, c) ==
  LET st == StateFor(co, g)
  IN IF st.file.recent /\ ~st.file.active THEN st ELSE StartPass(st, g, {c})

\* finishRefreshPass: a pass of a state that was replaced settles its callers only.
Finish(co, g, fulfilled) ==
  LET settled == [co EXCEPT !.parse[g] = NoParse]
      mine == co.file.on = g /\ co.file.active
      ended == [settled EXCEPT !.file.active = FALSE, !.file.queued = FALSE,
                               !.file.waiting = {}, !.file.recent = @ \/ fulfilled]
  IN IF ~mine THEN settled
     ELSE IF co.file.queued THEN StartPass(ended, g, co.file.waiting) ELSE ended

Coordinate(co) == file' = co.file /\ parse' = co.parse /\ backward' = co.backward

\* The request still awaits a parse.
Parsed(c) == c \notin file.waiting /\ \A g \in Scanners : c \notin parse[g].for
-----------------------------------------------------------------------------
(* get() and the scans                                                     *)

\* What a request does with the instance it was given.
Use(c, g) ==
  LET op == caller[c].op
      owes == op \in {"turn", "files"}
  IN /\ caller' = [caller EXCEPT ![c] =
                     IF op = "read" THEN [pc |-> "holds", op |-> op, on |-> g]
                     ELSE IF owes THEN [pc |-> "parses", op |-> op, on |-> g] ELSE Idle]
     /\ need' = [need EXCEPT ![c] = IF owes THEN disk ELSE 0]
     /\ Coordinate(IF owes THEN AfterWrite(Coordinator, g, c) ELSE Coordinator)

\* A request builds the instance it is missing, and waits for its scan.
Build(c) ==
  /\ Unbuilt # {}
  /\ scan' = [scan EXCEPT ![NextScanner] = "running"]
  /\ current' = NextScanner /\ ready' = NextScanner
  /\ path' = FALSE /\ stale' = FALSE
  /\ caller' = [caller EXCEPT ![c] = [@ EXCEPT !.pc = "builds", !.on = NextScanner]]
  /\ UNCHANGED <<disk, settling, need, file, parse, backward>>

\* Where get() goes on when there is nothing to wait for, or a scan to await first.
Serve(c) ==
  \/ /\ caller[c].op \in {"read", "files"} /\ current # 0
     /\ Use(c, current)
     /\ UNCHANGED <<disk, scan, current, ready, path, stale, settling>>
  \/ /\ ~(caller[c].op \in {"read", "files"} /\ current # 0)
     /\ ready # 0
     /\ caller' = [caller EXCEPT ![c] = [@ EXCEPT !.pc = "waits", !.on = ready]]
     /\ UNCHANGED <<disk, scan, current, ready, path, stale, settling, need, file, parse, backward>>
  \/ /\ ~(caller[c].op \in {"read", "files"} /\ current # 0)
     /\ ready = 0
     /\ Build(c)

\* A request arrives; getFresh first drops what is there.
Ask(c, op) ==
  /\ caller[c].pc = "idle" /\ c \in ScanCallers
  /\ caller' = [caller EXCEPT ![c] = [pc |-> "asks", op |-> op, on |-> 0]]
  /\ current' = IF op = "fresh" THEN 0 ELSE current
  /\ ready' = IF op = "fresh" THEN 0 ELSE ready
  /\ UNCHANGED <<disk, scan, path, stale, settling, need, file, parse, backward>>

\* startBackgroundReconcile, for the files a directory event named or for the tree.
Reconcile ==
  /\ caller[Background].pc = "idle"
  /\ caller' = [caller EXCEPT ![Background] =
                  [pc |-> "asks", op |-> IF stale /\ path THEN "files" ELSE "rescan", on |-> 0]]
  /\ path' = (path /\ ~stale) /\ stale' = FALSE
  /\ UNCHANGED <<disk, scan, current, ready, settling, need, file, parse, backward>>

Proceed(c) == caller[c].pc = "asks" /\ caller[c].op # "rescan" /\ Serve(c)

\* The scan that was awaited is over; a rejection fails the request.
Waited(c) ==
  /\ caller[c].pc = "waits" /\ caller[c].op # "rescan" /\ scan[caller[c].on] # "running"
  /\ \/ /\ scan[caller[c].on] = "failed"
        /\ caller' = [caller EXCEPT ![c] = Idle]
        /\ UNCHANGED <<disk, scan, current, ready, path, stale, settling, need, file, parse, backward>>
     \/ /\ scan[caller[c].on] = "ok" /\ current = 0
        /\ Build(c)
     \/ /\ scan[caller[c].on] = "ok" /\ current # 0
        /\ ~stale \/ caller[c].op \in {"read", "files"}
        /\ Use(c, current)
        /\ UNCHANGED <<disk, scan, current, ready, path, stale, settling>>
     \/ \* Stale, and the files are known: they are parsed into the instance.
        /\ scan[caller[c].on] = "ok" /\ current # 0
        /\ stale /\ path /\ caller[c].op \notin {"read", "files"}
        /\ path' = FALSE /\ stale' = FALSE
        /\ caller' = [caller EXCEPT ![c] = [@ EXCEPT !.pc = "refreshes"]]
        /\ need' = [need EXCEPT ![c] = disk]
        /\ Coordinate(AfterWrite(Coordinator, current, c))
        /\ UNCHANGED <<disk, scan, current, ready, settling>>
     \/ \* Stale for reasons unknown: another instance.
        /\ scan[caller[c].on] = "ok" /\ current # 0
        /\ stale /\ ~path /\ caller[c].op \notin {"read", "files"}
        /\ Build(c)

\* The stale files have been parsed.
Refreshed(c) ==
  /\ caller[c].pc = "refreshes" /\ Parsed(c)
  /\ \/ current # 0 /\ Use(c, current) /\ UNCHANGED <<disk, scan, current, ready, path, stale, settling>>
     \/ current = 0 /\ Serve(c)

\* rescanForRefresh: after the scan under way, if there is one, a shadow is scanned.
Rescan(c) ==
  /\ caller[c].op = "rescan"
  /\ \/ /\ caller[c].pc = "asks" /\ ready # 0
        /\ caller' = [caller EXCEPT ![c] = [@ EXCEPT !.pc = "waits", !.on = ready]]
        /\ UNCHANGED <<scan, ready, path, stale>>
     \/ /\ caller[c].pc = "waits" /\ scan[caller[c].on] = "failed"
        /\ caller' = [caller EXCEPT ![c] = Idle]
        /\ UNCHANGED <<scan, ready, path, stale>>
     \/ /\ \/ caller[c].pc = "asks" /\ ready = 0
           \/ caller[c].pc = "waits" /\ scan[caller[c].on] = "ok"
        /\ Unbuilt # {}
        /\ scan' = [scan EXCEPT ![NextScanner] = "running"] /\ ready' = NextScanner
        /\ path' = FALSE /\ stale' = FALSE
        /\ caller' = [caller EXCEPT ![c] = [@ EXCEPT !.pc = "shadows", !.on = NextScanner]]
  /\ UNCHANGED <<disk, current, settling, need, file, parse, backward>>

\* A scan ends; the request that started it goes on before those that wait.
ScanEnds(g, outcome) ==
  /\ scan[g] = "running"
  /\ scan' = [scan EXCEPT ![g] = outcome]
  /\ \E c \in Requests :
       /\ caller[c].on = g /\ caller[c].pc \in {"builds", "shadows"}
       /\ IF caller[c].pc = "shadows"
          THEN /\ caller' = [caller EXCEPT ![c] = Idle]
               /\ current' = IF outcome = "ok" THEN g ELSE current
               /\ ready' = IF outcome = "ok" THEN ready ELSE 0
               /\ UNCHANGED <<need, file, parse, backward>>
          ELSE IF outcome = "failed"
          THEN /\ caller' = [caller EXCEPT ![c] = Idle]
               /\ current' = 0 /\ ready' = 0
               /\ UNCHANGED <<need, file, parse, backward>>
          ELSE /\ UNCHANGED <<current, ready>>
               /\ IF current = 0
                  THEN /\ caller' = [caller EXCEPT ![c] = [@ EXCEPT !.pc = "asks"]]
                       /\ UNCHANGED <<need, file, parse, backward>>
                  ELSE Use(c, current)
  /\ UNCHANGED <<disk, path, stale, settling>>
-----------------------------------------------------------------------------
\* findConversationByUuid, after it has read the snapshot of the instance it holds.
ReadRefresh(c) ==
  /\ caller[c].pc = "holds"
  /\ caller' = [caller EXCEPT ![c] = [@ EXCEPT !.pc = "parses"]]
  /\ Coordinate(ForRead(Coordinator, caller[c].on, c))
  /\ UNCHANGED <<disk, scan, current, ready, path, stale, settling, need>>

Answered(c) ==
  /\ caller[c].pc = "parses" /\ Parsed(c)
  /\ caller' = [caller EXCEPT ![c] = Idle] /\ need' = [need EXCEPT ![c] = 0]
  /\ UNCHANGED <<disk, scan, current, ready, path, stale, settling, file, parse, backward>>

\* The parse of an instance settles, with every pass that was handed it.
ParseEnds(g, fulfilled) ==
  /\ parse[g].on
  /\ Coordinate(Finish(Coordinator, g, fulfilled))
  /\ UNCHANGED <<disk, scan, current, ready, path, stale, settling, caller, need>>

\* REFRESH_TTL_MS have passed since the last parse.
Ages ==
  /\ file.recent /\ file' = [file EXCEPT !.recent = FALSE]
  /\ UNCHANGED <<disk, scan, current, ready, path, stale, settling, caller, need, parse, backward>>

\* The agent appends to the file, whether or not anybody is told.
FileGrows ==
  /\ disk < MaxWrites /\ disk' = disk + 1
  /\ UNCHANGED <<scan, current, ready, path, stale, settling, caller, need, file, parse, backward>>

\* The directory watcher names the file.
DirectoryEvent ==
  /\ disk > 0
  /\ path' = TRUE /\ settling' = TRUE
  /\ UNCHANGED <<disk, scan, current, ready, stale, caller, need, file, parse, backward>>

\* markStaleDebounced, once the directory is quiet.
Settle ==
  /\ settling /\ settling' = FALSE
  /\ IF ready # 0 THEN stale' = (stale \/ path) /\ UNCHANGED <<current, path>>
     ELSE current' = 0 /\ path' = FALSE /\ UNCHANGED stale
  /\ UNCHANGED <<disk, scan, ready, caller, need, file, parse, backward>>

\* markStaleOrDrop: a transcript was bound to a live session.
Bind ==
  /\ IF ready # 0 THEN stale' = TRUE /\ UNCHANGED current
     ELSE current' = 0 /\ UNCHANGED stale
  /\ UNCHANGED <<disk, scan, ready, path, settling, caller, need, file, parse, backward>>

\* adoptIfUnclaimed: the warm-up scan of listen() is over and nobody built an instance.
Adopt ==
  /\ ready = 0 /\ current = 0 /\ Unbuilt = Scanners
  /\ scan' = [scan EXCEPT ![1] = "ok"] /\ current' = 1 /\ ready' = 1
  /\ UNCHANGED <<disk, path, stale, settling, caller, need, file, parse, backward>>

ScanNext ==
  \/ \E c \in ScanCallers, op \in Ops : Ask(c, op)
  \/ Reconcile
  \/ \E c \in Requests :
       Proceed(c) \/ Waited(c) \/ Refreshed(c) \/ Rescan(c) \/ ReadRefresh(c) \/ Answered(c)
  \/ \E g \in Scanners, outcome \in {"ok", "failed"} : ScanEnds(g, outcome)
  \/ \E g \in Scanners, fulfilled \in BOOLEAN : ParseEnds(g, fulfilled)
  \/ Ages \/ FileGrows \/ DirectoryEvent \/ Settle \/ Bind \/ Adopt

ScanSpec == ScanInit /\ [][ScanNext]_scanVars
-----------------------------------------------------------------------------
ScanTypeOK ==
  /\ disk \in 0..MaxWrites /\ current \in 0..MaxScanners /\ ready \in 0..MaxScanners
  /\ file.on \in 0..MaxScanners /\ file.waiting \subseteq Requests
  /\ \A c \in Requests : caller[c].on \in 0..MaxScanners /\ need[c] \in 0..MaxWrites

\* The guarantee of a post-write refresh: the parse that covers it started when the file
\* already was what the request knows it to be (refreshFileAfterWrite).
CoveredByLaterParse ==
  \A g \in Scanners : \A c \in parse[g].for : need[c] <= parse[g].saw

\* It holds for as long as no read that kept an older instance over a swap has taken the
\* state of the file back to it.
PostWriteObserved == ~backward => CoveredByLaterParse

\* A pass that is owed is owed by a pass under way, whose end starts it: no request is
\* left waiting for a refresh that nobody will run (queueRefreshPass, finishRefreshPass).
QueuedIsDriven == file.queued => file.active /\ parse[file.on].on

\* A request that waits for a refresh is named by a pass, or by the queue that a pass
\* will drain.
NobodyForgotten == file.waiting # {} => file.queued

\* A file the watcher has named is refreshed at the next list, or the debounce that will
\* arm it is pending: the name is not kept with nothing left to act on it.
PathsAreArmed == path => stale \/ settling

ScanInv == ScanTypeOK /\ PostWriteObserved /\ QueuedIsDriven /\ NobodyForgotten /\ PathsAreArmed
=============================================================================
