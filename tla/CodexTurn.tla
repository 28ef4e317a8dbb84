----------------------------- MODULE CodexTurn -----------------------------
(***************************************************************************)
(* One session of the Codex runner (src/src/codex-pty-runner.ts).          *)
(*                                                                         *)
(* Everything the runner knows it reads off the rendered screen and the    *)
(* title of the terminal: a pass starts at a chunk of output or after a    *)
(* silence, waits for the screen to be flushed, and then runs its          *)
(* detectors one after the other, each of which may type a text.  The maps *)
(* are keyed by the id, so a pass that outlives its process writes into    *)
(* what the next one inherits; that it is over by the time the next is     *)
(* spawned is assumed (a flush takes milliseconds).                        *)
(***************************************************************************)
EXTENDS Integers, Sequences, FiniteSets

CONSTANTS
  MaxCodexInputs, \* texts a user sends
  MaxCodexStarts  \* processes spawned

ASSUME CodexConstantsAssumption == MaxCodexInputs \in Nat /\ MaxCodexStarts \in Nat

VARIABLES
  codex,       \* what the runner keeps under the id of the session
  codexAlive,  \* the session is in the runner's map
  codexScreen, \* what the terminal shows
  codexTitle,  \* titleBusy: "unseen", "busy" or "idle"
  codexPass,   \* a detection pass under way: "none", "own" or "stale"
  codexStarts, \* processes spawned so far
  codexSent    \* texts sent so far

codexVars == <<codex, codexAlive, codexScreen, codexTitle, codexPass, codexStarts, codexSent>>

\* starting, working: the status bar blocks the composer; ready: its Ready marker; idle:
\* a prompt under a cut-off bar; blank: mid-paint; locked: another client owns the
\* rollout; the others: dialogs, of which tip is only a hint.
CodexScreens == {"starting", "working", "ready", "idle", "blank", "locked",
            "gate", "approval", "limit", "tip", "picker"}

\* The dialogs that hold input back.
Blocking == {"gate", "approval", "picker"}

\* codexScreenBlocksComposer, codexScreenShowsReady, codexScreenLooksIdle
BlocksComposer(scr) == scr \in {"starting", "working", "gate"}
ShowsReady(scr) == scr = "ready"
LooksIdle(scr) == scr \in {"ready", "idle", "approval", "picker"}

NoCodex(cards) ==
  [status |-> "none", source |-> "none", pending |-> FALSE, queue |-> <<>>, cards |-> cards,
   busy |-> FALSE, awaiting |-> "no", fallback |-> FALSE, fallbackReads |-> FALSE,
   watch |-> FALSE, watchReads |-> FALSE, submits |-> {}, later |-> <<>>]

CodexInit ==
  /\ codex = NoCodex({}) /\ codexAlive = FALSE
  /\ codexScreen = "blank" /\ codexTitle = "unseen" /\ codexPass = "none"
  /\ codexStarts = 0 /\ codexSent = 0
-----------------------------------------------------------------------------
(* What the handlers do to the record, as functions of it.                 *)

\* beginSubmit: a text is about to be written.
BeginSubmit(x) ==
  [x EXCEPT !.status = "running",
            !.source = IF x.status = "waiting" THEN "user-input" ELSE @,
            !.busy = FALSE, !.awaiting = "fresh"]

\* flushQueuedInputs: the first text is written now, the others by timers of their own.
Flush(x) ==
  IF x.pending \/ x.cards \cap Blocking # {} \/ x.queue = <<>>
  THEN x
  ELSE [BeginSubmit(x) EXCEPT !.queue = <<>>,
                              !.submits = @ \cup {Head(x.queue)},
                              !.later = @ \o Tail(x.queue)]

\* Mutant: the boot settles without driving the queue.
CodexReadyUnflushed(x, source) ==
  [x EXCEPT !.status = "waiting", !.source = source, !.pending = FALSE, !.watch = FALSE,
            !.fallback = @ /\ ~x.pending]

\* markReady: the boot is over, or the turn.
CodexReady(x, source) ==
  LET settled == [x EXCEPT !.status = "waiting", !.source = source, !.pending = FALSE,
                           !.watch = FALSE, !.fallback = @ /\ ~x.pending]
  IN IF x.pending THEN Flush(settled) ELSE settled

\* A dialog that blocks input is on screen, or has left it.  The runner may have
\* answered it from its remembered answers, or met it before: then no card is raised.
SeeCard(x, card, scr, raised) ==
  IF scr = card THEN [x EXCEPT !.cards = IF raised THEN @ \cup {card} ELSE @]
  ELSE IF card \in x.cards THEN Flush([x EXCEPT !.cards = @ \ {card}])
  ELSE x

\* A usage limit settles the turn; the soft hint counts only against a submitted text
\* whose turn has not started.
SeeLimit(x, scr) ==
  LET elevated == x.status = "running" /\ x.source = "user-input" /\ ~x.busy /\ ~x.pending
      shown == [x EXCEPT !.cards = @ \cup {"limit"}]
  IN CASE scr = "limit" \/ (scr = "tip" /\ elevated) ->
            IF x.status = "running"
            THEN CodexReady([shown EXCEPT !.busy = FALSE, !.awaiting = "no"], "quiet-fallback")
            ELSE shown
       [] scr = "tip" /\ ~elevated -> x
       [] OTHER -> [x EXCEPT !.cards = @ \ {"limit"}]

\* A busy signal starts the turn a submit waits for, late by up to LATE_TURN_START_MS.
TurnStarts(x, scr, title) ==
  IF (scr = "working" \/ title = "busy") /\ x.awaiting # "no"
  THEN IF x.status = "waiting" /\ x.awaiting = "fresh"
       THEN [x EXCEPT !.awaiting = "no", !.status = "running", !.source = "turn-signal"]
       ELSE [x EXCEPT !.awaiting = "no"]
  ELSE x

\* The turn has ended once it was seen to be busy; one that never was is given up when
\* the submit has gone stale.
TurnEnds(x, scr, title, stale) ==
  LET busy == scr = "working" \/ title = "busy"
      seen == IF busy THEN [x EXCEPT !.busy = TRUE, !.watch = FALSE] ELSE x
      ended == IF title = "unseen" THEN ShowsReady(scr) ELSE title = "idle"
  IN CASE x.status # "running" -> x
       [] x.status = "running" /\ ended /\ scr \notin Blocking /\ seen.busy ->
            CodexReady([seen EXCEPT !.busy = FALSE], "turn-signal")
       [] x.status = "running" /\ ~(ended /\ scr \notin Blocking /\ seen.busy) ->
            IF stale /\ ~seen.busy /\ ~BlocksComposer(scr) /\ seen.source = "user-input"
            THEN CodexReady(seen, "quiet-fallback") ELSE seen

\* The boot settles on the Ready marker alone.
Readiness(x, scr, title, stale) ==
  IF x.pending THEN IF ShowsReady(scr) THEN CodexReady(x, "prompt-marker") ELSE x
  ELSE TurnEnds(TurnStarts(x, scr, title), scr, title, stale)

Detected(x, scr, title, raised, stale) ==
  LET gates == SeeCard(x, "gate", scr, raised)
      approvals == SeeCard(gates, "approval", scr, TRUE)
      pickers == SeeCard(SeeLimit(approvals, scr), "picker", scr, TRUE)
  IN Readiness(pickers, scr, title, stale)
-----------------------------------------------------------------------------
\* launch, for a resume, a fresh session or a fork.
CodexLaunch ==
  /\ ~codexAlive /\ codexPass = "none" /\ codexStarts < MaxCodexStarts
  /\ codexAlive' = TRUE /\ codexStarts' = codexStarts + 1
  /\ codex' = [NoCodex(codex.cards) EXCEPT !.status = "running", !.source = "spawn",
                                           !.pending = TRUE, !.fallback = TRUE]
  /\ codexScreen' = "blank" /\ codexTitle' = "unseen"
  /\ UNCHANGED <<codexPass, codexSent>>

\* handleOutput: the chunk is rendered, its title noted, and a pass begins.  Codex
\* refuses a rollout while it boots.
CodexChunk(scr, title) ==
  /\ codexAlive /\ (scr = "locked" => codex.pending)
  /\ codexScreen' = scr /\ codexTitle' = title /\ codexPass' = "own"
  /\ UNCHANGED <<codex, codexAlive, codexStarts, codexSent>>

\* The checker that runs after QUIET_DETECT_MS of silence.
QuietCheck ==
  /\ codexAlive /\ codexPass = "none" /\ codexPass' = "own"
  /\ UNCHANGED <<codex, codexAlive, codexScreen, codexTitle, codexStarts, codexSent>>

\* The session leaves the runner: what is kept under its id is dropped, the cards too,
\* but for the picker's, which clearSessionDetectors does not name.
SessionGone ==
  /\ codexAlive' = FALSE
  /\ codex' = NoCodex(codex.cards \cap {"picker"})
  /\ codexPass' = IF codexPass = "own" THEN "stale" ELSE codexPass
  /\ codexTitle' = "unseen"
  /\ UNCHANGED <<codexScreen, codexStarts, codexSent>>

\* failStartup: the rollout is open in another client.
FailStartup ==
  /\ codexPass = "own" /\ codex.pending /\ codexScreen = "locked"
  /\ codexAlive' = FALSE /\ codexPass' = "none" /\ codexTitle' = "unseen"
  /\ codex' = NoCodex(codex.cards \cap {"picker"})
  /\ UNCHANGED <<codexScreen, codexStarts, codexSent>>

\* detectScreenState after its await.
CodexDetect(raised, stale) ==
  /\ codexPass = "own" /\ ~(codex.pending /\ codexScreen = "locked")
  /\ codexPass' = "none"
  /\ codex' = Detected(codex, codexScreen, codexTitle, raised, stale)
  /\ UNCHANGED <<codexAlive, codexScreen, codexTitle, codexStarts, codexSent>>

\* The same for a process that has gone meanwhile: its cards are raised, for nobody.
DetectStale(raised) ==
  /\ codexPass = "stale" /\ codexPass' = "none"
  /\ codex' = Detected(codex, codexScreen, "unseen", raised, FALSE)
  /\ UNCHANGED <<codexAlive, codexScreen, codexTitle, codexStarts, codexSent>>

\* handleExit, putOnHold
CodexExits == codexAlive /\ SessionGone
-----------------------------------------------------------------------------
\* tryReadyFallback, up to its reading of the screen, and after it.
CodexFallback ==
  /\ codex.fallback
  /\ codex' = [codex EXCEPT !.fallback = FALSE,
                 !.fallbackReads = codex.status = "running" /\ codex.pending]
  /\ UNCHANGED <<codexAlive, codexScreen, codexTitle, codexPass, codexStarts, codexSent>>

CodexFallbackReads ==
  /\ codex.fallbackReads
  /\ LET read == [codex EXCEPT !.fallbackReads = FALSE]
     IN codex' = CASE ~codex.pending -> read
                   [] codex.pending /\ LooksIdle(codexScreen) -> CodexReady(read, "timeout-fallback")
                   [] codex.pending /\ ~LooksIdle(codexScreen) -> [read EXCEPT !.fallback = TRUE]
  /\ UNCHANGED <<codexAlive, codexScreen, codexTitle, codexPass, codexStarts, codexSent>>

\* A terminal that never wrote anything settles at once.
CodexFallbackSilent ==
  /\ codex.fallback /\ codex.pending /\ codexScreen = "blank"
  /\ codex' = CodexReady([codex EXCEPT !.fallback = FALSE], "timeout-fallback")
  /\ UNCHANGED <<codexAlive, codexScreen, codexTitle, codexPass, codexStarts, codexSent>>

\* trySubmitStaleRecovery, likewise.
WatchFires ==
  /\ codex.watch
  /\ codex' = [codex EXCEPT !.watch = FALSE,
                 !.watchReads = codex.status = "running" /\ ~codex.busy
                                /\ codex.source = "user-input"]
  /\ UNCHANGED <<codexAlive, codexScreen, codexTitle, codexPass, codexStarts, codexSent>>

WatchReads ==
  /\ codex.watchReads
  /\ LET read == [codex EXCEPT !.watchReads = FALSE]
     IN codex' = CASE codex.status # "running" \/ codex.busy -> read
                   [] codex.status = "running" /\ ~codex.busy ->
                        IF BlocksComposer(codexScreen) THEN [read EXCEPT !.watch = TRUE]
                        ELSE CodexReady(read, "quiet-fallback")
  /\ UNCHANGED <<codexAlive, codexScreen, codexTitle, codexPass, codexStarts, codexSent>>

\* LATE_TURN_START_MS have passed since the submit.
StartIsLate ==
  /\ codex.awaiting = "fresh"
  /\ codex' = [codex EXCEPT !.awaiting = "late"]
  /\ UNCHANGED <<codexAlive, codexScreen, codexTitle, codexPass, codexStarts, codexSent>>
-----------------------------------------------------------------------------
\* sendInput: held back while booting or behind a dialog, else pasted.
CodexInput ==
  /\ codexAlive /\ codexSent < MaxCodexInputs
  /\ codexSent' = codexSent + 1
  /\ codex' = IF codex.pending \/ codex.cards \cap Blocking # {}
              THEN [codex EXCEPT !.queue = Append(@, codexSent')]
              ELSE [BeginSubmit(codex) EXCEPT !.submits = @ \cup {codexSent'}]
  /\ UNCHANGED <<codexAlive, codexScreen, codexTitle, codexPass, codexStarts>>

\* The timer of a flushed text, which does not look at the dialogs again.
FlushLater ==
  /\ codex.later # <<>>
  /\ codex' = [BeginSubmit(codex) EXCEPT !.later = Tail(@), !.submits = @ \cup {Head(codex.later)}]
  /\ UNCHANGED <<codexAlive, codexScreen, codexTitle, codexPass, codexStarts, codexSent>>

\* trySubmit: the terminal is quiet, or CODEX_SUBMIT_MAX_WAIT_MS have passed: Enter.
CodexSubmit(t) ==
  /\ t \in codex.submits
  /\ codex' = [codex EXCEPT !.submits = @ \ {t}, !.watch = TRUE]
  /\ UNCHANGED <<codexAlive, codexScreen, codexTitle, codexPass, codexStarts, codexSent>>

\* sendKeys: a key may submit or not.
CodexKeys ==
  /\ codexAlive
  /\ codex' = IF codex.status = "waiting"
              THEN [codex EXCEPT !.status = "running", !.source = "user-input",
                                 !.busy = FALSE, !.awaiting = "fresh", !.watch = TRUE]
              ELSE codex
  /\ UNCHANGED <<codexAlive, codexScreen, codexTitle, codexPass, codexStarts, codexSent>>

CodexNext ==
  \/ CodexLaunch \/ CodexExits \/ QuietCheck \/ FailStartup
  \/ \E scr \in CodexScreens, title \in {"busy", "idle", codexTitle} : CodexChunk(scr, title)
  \/ \E raised, stale \in BOOLEAN : CodexDetect(raised, stale)
  \/ \E raised \in BOOLEAN : DetectStale(raised)
  \/ CodexFallback \/ CodexFallbackReads \/ CodexFallbackSilent \/ WatchFires \/ WatchReads
  \/ StartIsLate \/ CodexInput \/ FlushLater \/ CodexKeys
  \/ \E t \in codex.submits : CodexSubmit(t)

CodexSpec == CodexInit /\ [][CodexNext]_codexVars
-----------------------------------------------------------------------------
CodexTypeOK ==
  /\ codex.status \in {"none", "running", "waiting"}
  /\ codex.cards \subseteq {"gate", "approval", "limit", "picker"}
  /\ codex.awaiting \in {"no", "fresh", "late"}
  /\ codexAlive = (codex.status # "none")
  /\ codexScreen \in CodexScreens /\ codexTitle \in {"unseen", "busy", "idle"}
  /\ codexPass \in {"none", "own", "stale"}

\* A boot that has not settled has a timer that will look at it again, or a look under
\* way: no boot is left for ever with its texts held back (armReadyFallback).
BootIsWatched == codex.pending => codex.fallback \/ codex.fallbackReads

\* A submit whose turn has not been seen is watched, until it starts or is given up:
\* a session does not stay running when the agent never got its Enter (armSubmitWatch).
SubmitIsWatched ==
  codex.status = "running" /\ codex.source = "user-input" /\ ~codex.busy =>
    codex.watch \/ codex.watchReads \/ codex.submits # {}

\* A text that was held back waits for a boot or behind a dialog whose end drives the
\* queue, never for nothing (sendInput, flushQueuedInputs).
HeldBackForAReason ==
  codex.queue # <<>> => codex.pending \/ codex.cards \cap Blocking # {}

CodexInv == CodexTypeOK /\ BootIsWatched /\ SubmitIsWatched /\ HeldBackForAReason
=============================================================================
