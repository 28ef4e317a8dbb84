--------------------------- MODULE SessionRecord ----------------------------
(***************************************************************************)
(* What clients are told of one session: the record of the store           *)
(* (src/src/session-store.ts) beside the session of the runner it mirrors  *)
(* (src/src/pty-manager.ts, src/src/codex-pty-runner.ts), through the      *)
(* callbacks of src/src/server-wiring.ts.                                  *)
(*                                                                         *)
(* A Codex session has a phase while a turn runs, a Claude session a       *)
(* suggestion for the next prompt while it waits; both are read off the    *)
(* screen by a detection pass, which awaits the screen and may come back   *)
(* after its session ended and another took its id.  Which output ends or  *)
(* starts a turn is PtyTurn's and CodexTurn's: here a turn does either at  *)
(* any time.  Left out: the pty-host (PtyHostMirror), outside processes    *)
(* (ProcessDiscovery), names, counts and times.                            *)
(***************************************************************************)
EXTENDS Naturals

CONSTANT Hints   \* suggestions that Claude paints

VARIABLES
  agent,        \* "claude" or "codex"
  liveSession,  \* the session in the runner's map, or NoLive
  painted,      \* what its screen shows
  orphan,       \* the suggestion of an ended session a pass still carries, or NoPass
  stored,       \* the record of the store, or NoRecord
  awaited,      \* a handler waits for the outcome of the startup
  lastTold,     \* the lifecycle in the last session_update
  howEnded      \* history: how the last process ended

recordVars == <<agent, liveSession, painted, orphan, stored, awaited, lastTold, howEnded>>

None == "none"
NoPass == "no pass"
NoLive == [status |-> "gone"]
NoRecord == [status |-> "absent"]
Paintings == {"plain"} \cup (IF agent = "claude" THEN Hints ELSE {"working", "limit"})

Attached == liveSession # NoLive
Kept == stored # NoRecord

RecordInit ==
  /\ agent \in {"claude", "codex"}
  /\ liveSession = NoLive /\ painted = "plain" /\ orphan = NoPass
  /\ stored = NoRecord /\ awaited = FALSE /\ lastTold = None /\ howEnded = None

-----------------------------------------------------------------------------
(* The store.                                                              *)

\* managedToResponse
Lifecycle(r, attached) ==
  IF attached THEN "attached"
  ELSE IF r.stub \/ r.source = "shutdown" THEN "resumable"
  ELSE IF r.failed THEN "failed"
  ELSE IF ~r.completed THEN "starting"
  ELSE "completed"

\* Mutant: the record keeps what belongs to the status it leaves.
UpdatedBare(r, status) == [r EXCEPT !.status = status]

\* updateManaged, of a status.
Updated(r, status) ==
  [r EXCEPT !.status = status,
            !.phase = IF status = "running" THEN @ ELSE None,
            !.hint = IF status = "waiting" THEN @ ELSE None]

\* onStatusChange, on a record: a reason to fail is kept, unless a live session has got rid
\* of it; the frame of an exit does not count the runner that reports it.
StatusChanged(r, s, source) ==
  IF ~Kept THEN UNCHANGED <<stored, lastTold>>
  ELSE /\ stored' = [Updated(r, s.status) EXCEPT
                       !.source = source,
                       !.completed = (s.status = "idle"),
                       !.failed = s.failed \/ (@ /\ s.status = "idle")]
       /\ lastTold' = Lifecycle(stored', s.status # "idle")

\* addManaged, with what the runner made public of the session.
AddManaged(s) ==
  stored' = [status |-> s.status, source |-> "spawn", completed |-> FALSE,
             failed |-> s.failed, phase |-> s.phase, hint |-> s.hint, stub |-> FALSE]

\* onPhaseChange and onPromptSuggestionChange, on a real change.
Noted(phase, hint) ==
  [stored EXCEPT !.phase = IF phase = liveSession.phase THEN @ ELSE phase,
                 !.hint = IF hint = liveSession.hint THEN @ ELSE hint]

-----------------------------------------------------------------------------
(* The runner.                                                             *)

NewLive ==
  [status |-> "running", phase |-> None, hint |-> None, failed |-> FALSE, late |-> FALSE]

\* A start, a resume or a fork.  Codex may still refuse: the handler waits for it.
Spawn ==
  /\ ~Attached /\ ~awaited
  /\ liveSession' = NewLive /\ painted' = "plain" /\ AddManaged(NewLive)
  /\ awaited' = (agent = "codex") /\ howEnded' = None
  /\ UNCHANGED <<agent, orphan, lastTold>>

Paint ==
  /\ Attached /\ painted' \in Paintings
  /\ UNCHANGED <<agent, liveSession, orphan, stored, awaited, lastTold, howEnded>>

\* markReady: the turn, or the boot, is over, and with it the phase.
ReadySession(s) == [s EXCEPT !.status = "waiting", !.phase = None]

\* sendInput, sendKeys and beginSubmit: the suggestion is consumed, a turn may start late.
RunningSession(s) == [s EXCEPT !.status = "running", !.hint = None, !.late = TRUE]

Becomes(s, source) == liveSession' = s /\ StatusChanged(stored, s, source)

Ready ==
  /\ Attached /\ Becomes(ReadySession(liveSession), "signal")
  /\ awaited' = FALSE
  /\ UNCHANGED <<agent, painted, orphan, howEnded>>

SubmitText ==
  /\ Attached
  /\ IF liveSession.status = "waiting"
     THEN Becomes(RunningSession(liveSession), "user-input")
     ELSE /\ liveSession' = [liveSession EXCEPT !.late = TRUE]
          /\ UNCHANGED <<stored, lastTold>>
  /\ UNCHANGED <<agent, painted, orphan, awaited, howEnded>>

\* resumeLateTurn: a turn given up starts after all; the suggestion is left to a pass.
LateTurn ==
  /\ Attached /\ liveSession.status = "waiting" /\ liveSession.late
  /\ Becomes([liveSession EXCEPT !.status = "running", !.late = FALSE], "turn-signal")
  /\ UNCHANGED <<agent, painted, orphan, awaited, howEnded>>

\* parseAgentPhase: only Codex has one.
PhaseOn(scr) == IF agent = "codex" /\ scr = "working" THEN "working" ELSE None

\* readPromptSuggestion
HintOn(scr) == IF scr \in Hints THEN scr ELSE None

\* detectLivePrompts reads the phase while the session runs, the suggestion while it waits.
PhaseRead ==
  IF liveSession.status = "running" THEN PhaseOn(painted) ELSE liveSession.phase

ClaudePass ==
  /\ Attached /\ agent = "claude"
  /\ LET hint == IF liveSession.status = "waiting" THEN HintOn(painted) ELSE None
     IN  /\ stored' = IF Kept THEN Noted(PhaseRead, hint) ELSE stored
         /\ liveSession' = [liveSession EXCEPT !.phase = PhaseRead, !.hint = hint]
  /\ UNCHANGED <<agent, painted, orphan, awaited, lastTold, howEnded>>

LimitShown == painted = "limit"

\* handleBlockingPrompt: the usage limit gives the session a reason to fail, and settles
\* its turn.
BlockedPass ==
  IF liveSession.status = "running"
  THEN /\ Becomes(ReadySession([liveSession EXCEPT !.failed = TRUE]), "quiet-fallback")
       /\ awaited' = FALSE
  ELSE /\ liveSession' = [liveSession EXCEPT !.failed = TRUE]
       /\ UNCHANGED <<stored, awaited, lastTold>>

\* The rest of the pass: the phase; and a reason to fail that left the screen goes.
ClearPass ==
  LET s == [liveSession EXCEPT !.phase = PhaseRead, !.failed = FALSE]
  IN  /\ liveSession' = s /\ UNCHANGED awaited
      /\ IF liveSession.failed
         THEN StatusChanged(Noted(s.phase, s.hint), s, stored.source)
         ELSE /\ stored' = IF Kept THEN Noted(s.phase, s.hint) ELSE stored
              /\ UNCHANGED lastTold

CodexPass ==
  /\ Attached /\ agent = "codex"
  /\ IF LimitShown THEN BlockedPass ELSE ClearPass
  /\ UNCHANGED <<agent, painted, orphan, howEnded>>

\* The session leaves the map; a pass may be under way on it (bound: on one such session).
Ends(source, failed, how) ==
  /\ liveSession' = NoLive /\ painted' = "plain"
  /\ StatusChanged(stored, [liveSession EXCEPT !.status = "idle", !.failed = failed], source)
  /\ howEnded' = how
  /\ orphan' \in {orphan, liveSession.hint}
  /\ UNCHANGED agent

\* putOnHold
Hold == Attached /\ Ends("shutdown", liveSession.failed, "held") /\ UNCHANGED awaited

\* handleExit: an instant exit is diagnosed.
Exit ==
  /\ Attached /\ UNCHANGED awaited
  /\ \E instant \in BOOLEAN :
       LET failed == liveSession.failed \/ instant
       IN  Ends("process-exit", failed, IF failed THEN "failed" ELSE "completed")

\* failStartup: another client holds the rollout.
StartRefused ==
  /\ Attached /\ agent = "codex" /\ awaited
  /\ Ends("process-exit", TRUE, "failed") /\ UNCHANGED awaited

\* A pass of an ended session that comes back: it clears a suggestion it had.
OrphanLands ==
  /\ orphan # NoPass
  /\ orphan' = NoPass
  /\ stored' = IF Kept /\ orphan # None THEN [stored EXCEPT !.hint = None] ELSE stored
  /\ UNCHANGED <<agent, liveSession, painted, awaited, lastTold, howEnded>>

-----------------------------------------------------------------------------
(* The server.                                                             *)

\* waitForStartupOutcome: the session ended, and is forgotten unless it was started anew;
\* or its time is up.
StartupOver ==
  /\ awaited /\ awaited' = FALSE
  /\ stored' \in {stored} \cup (IF Attached THEN {} ELSE {NoRecord})
  /\ UNCHANGED <<agent, liveSession, painted, orphan, lastTold, howEnded>>

\* forgetSession: a stop that discards an empty session.
Forget ==
  /\ ~Attached /\ ~awaited /\ stored' = NoRecord
  /\ UNCHANGED <<agent, liveSession, painted, orphan, awaited, lastTold, howEnded>>

\* The streamer restarts: what the registry offers comes back as a stub.
Stub(source, failed, completed) ==
  [status |-> "idle", source |-> source, completed |-> completed, failed |-> failed,
   phase |-> None, hint |-> None, stub |-> TRUE]

StreamerRestart ==
  /\ liveSession' = NoLive /\ painted' = "plain" /\ orphan' = NoPass
  /\ \/ stored' = NoRecord
     \/ Kept /\ stored' \in {Stub(s, f, c) : s \in {"shutdown", None}, f, c \in BOOLEAN}
  /\ awaited' = FALSE /\ lastTold' = None /\ howEnded' = None
  /\ UNCHANGED agent

RecordNext ==
  \/ Spawn \/ Paint \/ Ready \/ SubmitText \/ LateTurn
  \/ ClaudePass \/ CodexPass \/ OrphanLands
  \/ Hold \/ Exit \/ StartRefused
  \/ StartupOver \/ Forget \/ StreamerRestart

RecordSpec == RecordInit /\ [][RecordNext]_recordVars

-----------------------------------------------------------------------------
(* Properties.                                                             *)

RecordTypeOK ==
  /\ Attached => /\ liveSession.status \in {"running", "waiting"}
                 /\ liveSession.hint \in Hints \cup {None}
  /\ Kept => stored.status \in {"running", "waiting", "idle"}
  /\ orphan \in Hints \cup {None, NoPass}

\* session-store.ts: clients are shown a phase only of a turn that runs and a suggestion
\* only in a session that waits for them, and neither of a session that is gone, however
\* its turns and its process end.
ShownInItsTime ==
  Kept => /\ stored.phase # None => Attached /\ liveSession.status = "running"
          /\ stored.hint # None => Attached /\ liveSession.status = "waiting"

\* server-wiring.ts: the phase shown is the one the runner reads, and no suggestion is
\* shown that the runner does not hold.
ShownAsRead ==
  Kept /\ Attached =>
    /\ stored.status = liveSession.status /\ stored.phase = liveSession.phase
    /\ stored.hint \in {liveSession.hint, None}

\* session-store.ts: of a session without a process, the lifecycle says how its last one
\* ended: on hold it can be resumed, a limit it recovered from is no failure, one that is
\* still up is, and none is reported to be starting.  The last frame said the same.
LifecycleIsTrue ==
  Kept /\ ~Attached =>
    IF stored.stub THEN Lifecycle(stored, FALSE) = "resumable"
    ELSE /\ Lifecycle(stored, FALSE) = IF howEnded = "held" THEN "resumable" ELSE howEnded
         /\ lastTold = Lifecycle(stored, FALSE)

RecordInv == RecordTypeOK /\ ShownInItsTime /\ ShownAsRead /\ LifecycleIsTrue

\* Does not hold: the suggestion shown is the one on the runner's session.  A late turn
\* takes it off the record only, and the runner, which reports changes, says nothing when
\* it reads the same one again; so does a pass that outlives its session.
HintsAgree == Kept /\ Attached => stored.hint = liveSession.hint
=============================================================================
