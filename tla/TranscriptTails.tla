--------------------------- MODULE TranscriptTails ---------------------------
(***************************************************************************)
(* Which transcript belongs to which session, and who tails it.            *)
(*                                                                         *)
(* A fresh session seeks the file its provider writes at the first turn    *)
(* (SessionWatchers): Claude's is named after the session, a Codex rollout *)
(* or a Cursor run is recognised by its project and age.  Once found, what *)
(* is in it is sent to the clients and a tail is opened on the rest.  A    *)
(* resumed session looks its history up instead.  A transcript that no     *)
(* session of ours writes gets an external tail, evicted at a cap, swept   *)
(* when idle, released by the poll of sub-agents (ExternalTailManager).    *)
(* Both keep their tails in the same ConversationWatcher.                  *)
(*                                                                         *)
(* Lines are numbered; a file grows under the hands of another process at  *)
(* any moment, also between two file operations of one handler.  Whether a  *)
(* file was written recently enough (5 s, 10 s, 60 s), or a tail was idle  *)
(* for long, is left open.  Left out: deleted and truncated files, partial *)
(* lines, dead watch handles.                                              *)
(***************************************************************************)
EXTENDS Integers, FiniteSets, FiniteSetsExt, SequencesExt

CONSTANTS
  TailSessions,    \* sessions started in one project
  Transcripts,     \* the transcript files of the project
  Subagents,       \* those of them that sub-agents write
  MaxGrowth,       \* lines of all transcripts and resumes together
  MaxTails,        \* EXTERNAL_TAIL_MAX
  MaxResumes,      \* resumes of all sessions together
  MaxReads         \* reads of transcripts under way at once

VARIABLES
  provider,     \* of the sessions: "claude", "codex" or "cursor"
  running,      \* [TailSessions -> {"fresh", "live", "gone"}]
  asked,        \* the sessions with promptCount > 0
  seek,         \* "off", "on", or "mid": between the two halves of a binding
  boundRollout, \* boundConversationId
  lookup,       \* findConversationByUuid of a resumed session under way
  fileMap,      \* sessionFileMap, in insertion order
  tailResumes,
  written,      \* lines in each transcript, 0: it does not exist
  author,       \* who writes it
  born,         \* the sessions that had started when it was created
  offset,       \* ConversationWatcher.files: offset of the tail, or Closed
  reads,        \* reads under way
  tails,        \* externalTails, the least recently active first
  polled,       \* polledSubagents
  told,         \* <<s, f, n>>: line n of f was sent to the clients of s
  retold,       \* ... more than once
  hadTail       \* sessions whose file was tailed, or being read, when found

tailVars == <<provider, running, asked, seek, boundRollout, lookup,
              fileMap, tailResumes, written, author, born, offset, reads, tails,
              polled, told, retold, hadTail>>
seekVars == <<asked, seek, boundRollout, hadTail>>
diskVars == <<written, author, born>>
outsideVars == <<tails, polled>>

NoTranscript == "none"
Closed == -1
Outsider == "outsider"

Mapped(s) == {m.file : m \in {fileMap[i] : i \in {j \in DOMAIN fileMap : fileMap[j].session = s}}}
ManagedPath(f) == \E i \in DOMAIN fileMap : fileMap[i].file = f
Grows == MapThenSumSet(LAMBDA f : written[f], Transcripts) + tailResumes < MaxGrowth
TailOf(f) == f \in ToSet(tails)

\* Our process runs between two system calls of one handler.
MidBinding == \E s \in TailSessions : seek[s] = "mid"

(* sessionFileMap.set: a known session keeps its place.                    *)
MapSet(s, f) ==
  IF Mapped(s) = {} THEN Append(fileMap, [session |-> s, file |-> f])
  ELSE [i \in DOMAIN fileMap |->
          IF fileMap[i].session = s THEN [fileMap[i] EXCEPT !.file = f] ELSE fileMap[i]]

(* watch: a file that is tailed already keeps its tail and its offset.     *)
OpenTail(f) ==
  offset' = IF offset[f] = Closed THEN [offset EXCEPT ![f] = written[f]] ELSE offset

(* unwatch, of several files: a read under way goes on without its tail.   *)
CloseTails(gone) ==
  /\ offset' = [f \in Transcripts |-> IF f \in gone THEN Closed ELSE offset[f]]
  /\ reads' = {IF r.file \in gone THEN [r EXCEPT !.current = FALSE] ELSE r : r \in reads}

(* broadcastConversationLines of the lines in (from, upto] to a session.   *)
TellLines(s, f, from, upto) ==
  LET batch == {<<s, f, n>> : n \in (from + 1) .. upto}
  IN  told' = told \cup batch /\ retold' = retold \cup (told \cap batch)

-----------------------------------------------------------------------------
(* The providers and the file system.                                      *)

(* A turn, or some other program, creates a transcript.                    *)
FileAppears(f, who) ==
  /\ written[f] = 0 /\ Grows
  /\ who # Outsider => /\ running[who] = "live" /\ who \in asked
                       /\ \A g \in Transcripts : author[g] # who
  /\ f \in Subagents => who = Outsider
  /\ written' = [written EXCEPT ![f] = 1]
  /\ author' = [author EXCEPT ![f] = who]
  /\ born' = [born EXCEPT ![f] = {s \in TailSessions : running[s] # "fresh"}]
  /\ UNCHANGED <<provider, running, seekVars, lookup, fileMap, tailResumes, offset,
                 reads, outsideVars, told, retold>>

FileWritten(f) ==
  /\ written[f] > 0 /\ Grows
  /\ written' = [written EXCEPT ![f] = @ + 1]
  /\ UNCHANGED <<provider, running, seekVars, lookup, fileMap, tailResumes, author, born,
                 offset, reads, outsideVars, told, retold>>

-----------------------------------------------------------------------------
(* Sessions.                                                               *)

(* handleStart: the seek begins.                                           *)
StartSeeking(s) ==
  /\ running[s] = "fresh"
  /\ running' = [running EXCEPT ![s] = "live"]
  /\ seek' = [seek EXCEPT ![s] = "on"]
  /\ UNCHANGED <<provider, asked, boundRollout, hadTail, lookup, fileMap,
                 tailResumes, diskVars, offset, reads, outsideVars, told, retold>>

AskSession(s) ==
  /\ running[s] = "live" /\ s \notin asked
  /\ asked' = asked \cup {s}
  /\ UNCHANGED <<provider, running, seek, boundRollout, hadTail, lookup, fileMap, tailResumes,
                 diskVars, offset, reads, outsideVars, told, retold>>

(* resumeSession: the history is looked up, its lines are not sent again.  *)
ResumeTailed(s) ==
  LET history == IF provider = "claude" THEN {f \in Transcripts : author[f] = s}
                 ELSE {boundRollout[s]} \ {NoTranscript}
  IN  /\ running[s] = "gone" /\ tailResumes < MaxResumes /\ Grows
      /\ \E f \in history : lookup' = [lookup EXCEPT ![s] = f]
      /\ running' = [running EXCEPT ![s] = "live"]
      /\ tailResumes' = tailResumes + 1
      /\ UNCHANGED <<provider, seekVars, fileMap, diskVars, offset, reads, outsideVars,
                     told, retold>>

(* watchConversationFile: the answer is not compared with what happened    *)
(* to the session meanwhile.                                               *)
LookupAnswered(s) ==
  /\ lookup[s] # NoTranscript
  /\ lookup' = [lookup EXCEPT ![s] = NoTranscript]
  /\ \/ fileMap' = MapSet(s, lookup[s]) /\ OpenTail(lookup[s])
     \/ UNCHANGED <<fileMap, offset>>
  /\ UNCHANGED <<provider, running, seekVars, tailResumes, diskVars, reads, outsideVars, told,
                 retold>>

(* onStatusChange with status idle.                                        *)
TailedExits(s) ==
  /\ running[s] = "live"
  /\ running' = [running EXCEPT ![s] = "gone"]
  /\ fileMap' = SelectSeq(fileMap, LAMBDA m : m.session # s)
  /\ CloseTails(Mapped(s))
  /\ UNCHANGED <<provider, seekVars, lookup, tailResumes, diskVars, outsideVars, told, retold>>

-----------------------------------------------------------------------------
(* The seek: watchForJsonl, watchForCodexRollout, watchForCursorTranscript. *)

BoundElsewhere(s) == {boundRollout[o] : o \in TailSessions \ {s}}

Candidates(s) ==
  IF provider = "claude" THEN {f \in Transcripts : author[f] = s}
  ELSE {f \in Transcripts : written[f] > 0 /\ s \in born[f] /\ f \notin BoundElsewhere(s)}

(* The three order their checks differently: Claude looks for the file     *)
(* first, the others apply the deadline first, Cursor does nothing before  *)
(* the first turn.  The deadline runs from the last turn, for Codex from   *)
(* the start as well; it may pass between any two polls.                   *)
Looks(s) == provider # "cursor" \/ s \in asked
MayGiveUp(s) ==
  CASE provider = "claude" -> s \in asked /\ Candidates(s) = {}
    [] provider = "codex"  -> TRUE
    [] provider = "cursor" -> s \in asked

(* tryWire ends the watch: no process, or the deadline has passed.         *)
SeekEnds(s) ==
  /\ seek[s] = "on"
  /\ running[s] # "live" \/ MayGiveUp(s)
  /\ seek' = [seek EXCEPT ![s] = "off"]
  /\ UNCHANGED <<provider, running, asked, boundRollout, hadTail, lookup, fileMap, tailResumes,
                 diskVars, offset, reads, outsideVars, told, retold>>

(* tryWire finds the transcript.  Claude's is sent before its tail opens,  *)
(* the others' tails open first.                                           *)
SeekFinds(s) ==
  /\ seek[s] = "on" /\ running[s] = "live" /\ Looks(s)
  /\ \E f \in Candidates(s) :
       /\ fileMap' = MapSet(s, f)
       /\ hadTail' = IF offset[f] # Closed \/ \E r \in reads : r.file = f
                     THEN hadTail \cup {s} ELSE hadTail
       /\ IF provider = "claude"
          THEN TellLines(s, f, 0, written[f]) /\ UNCHANGED <<offset, boundRollout>>
          ELSE /\ OpenTail(f) /\ UNCHANGED <<told, retold>>
               /\ boundRollout' = [boundRollout EXCEPT ![s] = f]
  /\ seek' = [seek EXCEPT ![s] = "mid"]
  /\ UNCHANGED <<provider, running, asked, lookup, tailResumes, diskVars, reads,
                 outsideVars>>

(* The second half of the binding; the file may have grown in between.     *)
SeekBinds(s) ==
  /\ seek[s] = "mid"
  /\ \E f \in Mapped(s) :
       IF provider = "claude" THEN OpenTail(f) /\ UNCHANGED <<told, retold>>
       ELSE TellLines(s, f, 0, written[f]) /\ UNCHANGED offset
  /\ seek' = [seek EXCEPT ![s] = "off"]
  /\ UNCHANGED <<provider, running, asked, boundRollout, hadTail, lookup,
                 fileMap, tailResumes, diskVars, reads, outsideVars>>

-----------------------------------------------------------------------------
(* ConversationWatcher.readNewLines and what its lines do.                 *)

ReadBegins(f) ==
  /\ offset[f] \in 0 .. written[f] - 1
  /\ ~\E r \in reads : r.file = f /\ r.current
  /\ Cardinality(reads) < MaxReads
  /\ reads' = reads \cup {[file |-> f, from |-> offset[f], upto |-> written[f],
                           current |-> TRUE]}
  /\ UNCHANGED <<provider, running, seekVars, lookup, fileMap, tailResumes, diskVars, offset,
                 outsideVars, told, retold>>

(* onNewLines: the first session mapped to the file has the lines, without *)
(* one its external tail has been active.                                  *)
ReadEnds(r) ==
  LET f == r.file
      owner == SelectInSeq(fileMap, LAMBDA m : m.file = f)
  IN  /\ r \in reads
      /\ reads' = reads \ {r}
      /\ offset' = IF r.current THEN [offset EXCEPT ![f] = r.upto] ELSE offset
      /\ IF offset[f] # Closed /\ owner # 0
         THEN TellLines(fileMap[owner].session, f, r.from, r.upto)
         ELSE UNCHANGED <<told, retold>>
      /\ IF offset[f] # Closed /\ owner = 0 /\ TailOf(f)
         THEN tails' = Append(SelectSeq(tails, LAMBDA g : g # f), f)
         ELSE UNCHANGED tails
      /\ UNCHANGED <<provider, running, seekVars, lookup, fileMap, tailResumes, diskVars,
                     polled>>

-----------------------------------------------------------------------------
(* External tails.                                                         *)

\* Mutant: the least recent goes, whoever has it.
EvictedLeastRecent ==
  IF Len(tails) < MaxTails THEN [left |-> tails, closed |-> {}]
  ELSE [left |-> Tail(tails), closed |-> {Head(tails)}]

(* evictExternalTailsIfNeeded: the tails left, and the files it closes.  A *)
(* path a session has adopted is dropped without closing its tail.         *)
Evicted ==
  LET managed == SelectInSeq(tails, LAMBDA f : ManagedPath(f))
  IN  CASE Len(tails) < MaxTails -> [left |-> tails, closed |-> {}]
        [] Len(tails) >= MaxTails /\ managed # 0 ->
             [left |-> RemoveAt(tails, managed), closed |-> {}]
        [] OTHER -> [left |-> Tail(tails), closed |-> {Head(tails)}]

(* maybeAttachExternalTail, its evictions included.                        *)
Attaches(f) == ~TailOf(f) /\ ~ManagedPath(f)

(* sweepIdleExternalTails over the tails `ts`, those in `idle` idle.       *)
SweptClosed(ts, idle) == {g \in ToSet(ts) \cap idle : ~ManagedPath(g)}
SweptLeft(ts, idle) == SelectSeq(ts, LAMBDA g : ~ManagedPath(g) /\ g \notin idle)

(* What opening a tail on f and closing others does to the watcher.        *)
OpenAndClose(opened, closed) ==
  /\ offset' = [g \in Transcripts |->
                  IF g \in closed THEN Closed
                  ELSE IF g \in opened /\ offset[g] = Closed THEN written[g] ELSE offset[g]]
  /\ reads' = {IF r.file \in closed THEN [r EXCEPT !.current = FALSE] ELSE r : r \in reads}

(* onConversationChanged: an event of the directory watcher.               *)
DirectoryNews(f) ==
  /\ written[f] > 0
  /\ \E attach \in {offset[f] = Closed /\ Attaches(f), FALSE}, idle \in SUBSET (ToSet(tails) \ {f}) :
       LET made == IF attach THEN Append(Evicted.left, f) ELSE tails
           evicted == IF attach THEN Evicted.closed ELSE {}
       IN  /\ tails' = SweptLeft(made, idle)
           /\ OpenAndClose(IF attach THEN {f} ELSE {}, evicted \cup SweptClosed(made, idle))
  /\ UNCHANGED <<provider, running, seekVars, lookup, fileMap, tailResumes, diskVars, polled,
                 told, retold>>

(* attachSubagentTail: a client lists the children of a conversation.      *)
SubagentListed(f) ==
  /\ f \in Subagents /\ written[f] > 0
  /\ polled' = polled \cup {f}
  /\ \E attach \in {Attaches(f), FALSE} :
       IF attach
       THEN tails' = Append(Evicted.left, f) /\ OpenAndClose({f}, Evicted.closed)
       ELSE UNCHANGED <<tails, offset, reads>>
  /\ UNCHANGED <<provider, running, seekVars, lookup, fileMap, tailResumes, diskVars, told,
                 retold>>

(* pollSubagentTails: the tail of an agent that has finished is released,  *)
(* whoever has adopted its path; one that is not ours is only forgotten.   *)
SubagentPoll ==
  \E finished \in SUBSET polled :
    LET dropped == finished \cup {f \in polled : ~TailOf(f)}
    IN  /\ dropped # {}
        /\ polled' = polled \ dropped
        /\ tails' = SelectSeq(tails, LAMBDA f : f \notin dropped)
        /\ CloseTails(dropped \cap ToSet(tails))
        /\ UNCHANGED <<provider, running, seekVars, lookup, fileMap, tailResumes, diskVars,
                       told, retold>>

-----------------------------------------------------------------------------
TailInit ==
  /\ provider \in {"claude", "codex", "cursor"}
  /\ running = [s \in TailSessions |-> "fresh"]
  /\ asked = {}
  /\ seek = [s \in TailSessions |-> "off"]
  /\ boundRollout = [s \in TailSessions |-> NoTranscript] /\ lookup = boundRollout
  /\ fileMap = <<>> /\ tailResumes = 0
  /\ written = [f \in Transcripts |-> 0]
  /\ author = [f \in Transcripts |-> Outsider]
  /\ born = [f \in Transcripts |-> {}]
  /\ offset = [f \in Transcripts |-> Closed] /\ reads = {}
  /\ tails = <<>> /\ polled = {}
  /\ told = {} /\ retold = {} /\ hadTail = {}

TailNext ==
  \/ \E f \in Transcripts, who \in TailSessions \cup {Outsider} : FileAppears(f, who)
  \/ \E f \in Transcripts : FileWritten(f)
  \/ \E s \in TailSessions : SeekBinds(s)
  \/ /\ ~MidBinding
     /\ \/ \E s \in TailSessions :
             \/ StartSeeking(s) \/ AskSession(s) \/ ResumeTailed(s) \/ LookupAnswered(s)
             \/ TailedExits(s) \/ SeekEnds(s) \/ SeekFinds(s)
        \/ \E f \in Transcripts : ReadBegins(f) \/ DirectoryNews(f) \/ SubagentListed(f)
        \/ \E r \in reads : ReadEnds(r)
        \/ SubagentPoll

TailSpec == TailInit /\ [][TailNext]_tailVars

-----------------------------------------------------------------------------
(* Properties.                                                             *)

TailTypeOK ==
  /\ running \in [TailSessions -> {"fresh", "live", "gone"}]
  /\ seek \in [TailSessions -> {"off", "on", "mid"}]
  /\ \A f \in Transcripts : written[f] \in 0 .. MaxGrowth /\ offset[f] \in Closed .. written[f]
  /\ IsInjective(tails) /\ ToSet(tails) \subseteq Transcripts

(* No two sessions are bound to one rollout: each would resume the other's *)
(* conversation (boundElsewhere).                                          *)
RolloutsAreDistinct ==
  \A s, o \in TailSessions :
    s # o /\ boundRollout[s] # NoTranscript => boundRollout[s] # boundRollout[o]

(* A rollout whose tail opens before its lines are sent loses none: every  *)
(* line below the tail's offset has been sent to the session that found    *)
(* it, whatever else tailed or read the file (watchForCodexRollout).       *)
FoundWithoutGap ==
  \A s \in TailSessions, f \in Transcripts :
    (running[s] = "live" /\ f \in Mapped(s) /\ f = boundRollout[s] /\ tailResumes = 0
      /\ seek[s] = "off" /\ offset[f] # Closed)
      => \A n \in 1 .. offset[f] : <<s, f, n>> \in told

(* A transcript sent before its tail opens is not sent twice, unless an    *)
(* external tail was open on it, or still reading it (watchForJsonl).      *)
FoundWithoutEcho ==
  \A m \in retold : provider = "claude" => m[1] \in hadTail

(* What keeps the books of external tails never closes the tail of a live  *)
(* session: eviction and sweep drop adopted paths (sub-agents' apart, see  *)
(* SubagentsKeepTheirTails).                                               *)
KeepsTail(f) ==
  \A s \in TailSessions :
    running[s] = "live" /\ f \in Mapped(s) /\ seek[s] # "mid" => offset[f] # Closed
SessionsKeepTheirTails == \A f \in Transcripts \ Subagents : KeepsTail(f)

(* The watch handles of external tails are bounded (EXTERNAL_TAIL_MAX).    *)
TailsAreBounded == Len(tails) <= MaxTails

TailInv ==
  /\ TailTypeOK /\ RolloutsAreDistinct /\ FoundWithoutGap /\ FoundWithoutEcho
  /\ SessionsKeepTheirTails /\ TailsAreBounded

(* The same of a sub-agent's transcript that a session resumed: the poll   *)
(* of sub-agents closes its tail all the same.                             *)
SubagentsKeepTheirTails == \A f \in Subagents : KeepsTail(f)
=============================================================================
