------------------------------ MODULE PtyTurn -------------------------------
(***************************************************************************)
(* How the Claude runner tells whether the agent works or waits for input  *)
(* (src/src/pty-manager.ts), for one booted session.                       *)
(*                                                                         *)
(* The prompt marker stays painted during a turn, so it says nothing while *)
(* a turn is open.  A turn opens when text is submitted, is confirmed by   *)
(* the busy signal in the terminal title, and ends by the idle signal,     *)
(* unless a gate is on the screen: the title goes idle for a gate too.  A  *)
(* turn that is never confirmed lapses after a grace period.               *)
(*                                                                         *)
(* Claude is external: what it is given to do it starts late, or never;    *)
(* it may open a gate; it may start working on its own.                    *)
(***************************************************************************)
EXTENDS Integers, FiniteSets

CONSTANTS
  Grace,       \* TURN_START_GRACE_MS, in ticks
  Late         \* LATE_TURN_START_MS, in ticks

ASSUME ConstantsAssumption == Grace \in Nat \ {0} /\ Late \in Nat /\ Grace <= Late

VARIABLES
  status,       \* "running" or "waiting_input"
  turn,         \* turnOpen: none, submitted, working, ending, held
  progressSeen, \* Claude has ever sent a signal
  awaiting,     \* awaitingStart: ticks since the submit, None when consumed
  graces,       \* start grace timers under way: the ticks each has left
  quiet,        \* the quiet checker is armed
  claude,       \* idle, starting, busy, gating, gate
  owed          \* Claude confirmed this turn and has had no new input since

turnVars == <<status, turn, progressSeen, awaiting, graces>>
vars == <<turnVars, quiet, claude, owed>>

None == -1

-----------------------------------------------------------------------------
\* openTurnOnSubmit: the timers of earlier turns go on.
OpenTurn ==
  /\ awaiting' = 0
  /\ IF progressSeen
       THEN /\ turn' = "submitted"
            /\ graces' = graces \cup {Grace}
       ELSE UNCHANGED <<turn, graces>>

\* What Claude makes of an input; it may be a command that starts no turn.
Given(c) ==
  CASE c = "idle"     -> {"idle", "starting"}
    [] c = "gate"     -> {"gate", "busy", "idle"}
    [] OTHER          -> {c}

\* sendInput and beginSubmit; the echo of the text is output.
SendInput ==
  /\ OpenTurn
  /\ status' = "running"
  /\ claude' \in Given(claude)
  /\ quiet' = TRUE /\ owed' = FALSE
  /\ UNCHANGED progressSeen

\* sendKeys: an answer to a gate, whose box is then erased.
SendKeys ==
  /\ claude = "gate"
  /\ claude' \in {"busy", "idle"}
  /\ IF status = "waiting_input"
       THEN status' = "running" /\ OpenTurn
       ELSE UNCHANGED <<status, turn, awaiting, graces>>
  /\ quiet' = TRUE /\ owed' = FALSE
  /\ UNCHANGED progressSeen

-----------------------------------------------------------------------------
(* handleOutput.                                                           *)

\* resumeLateTurn.
Resumed == awaiting \in 0..Late /\ status = "waiting_input"

\* trackProgress on a busy signal.
Busy ==
  /\ claude \in {"starting", "busy"}
  /\ claude' = "busy"
  /\ status' = IF Resumed THEN "running" ELSE status
  /\ awaiting' = None
  /\ turn' = "working" /\ progressSeen' = TRUE
  /\ owed' = (status' = "running")
  /\ quiet' = TRUE
  /\ UNCHANGED <<graces>>

\* Mutant: an idle signal says nothing to a turn that is open.
IdleIgnored ==
  /\ claude = "busy"
  /\ claude' \in {"idle", "gating"}
  /\ progressSeen' = TRUE
  /\ owed' = (owed /\ claude' = "gating")
  /\ quiet' = TRUE
  /\ UNCHANGED <<status, turn, awaiting, graces>>

\* trackProgress on an idle signal: Claude ended its turn, or is about to paint
\* a gate.
Idle ==
  /\ claude = "busy"
  /\ claude' \in {"idle", "gating"}
  /\ turn' = IF turn = "working" THEN "ending" ELSE turn
  /\ progressSeen' = TRUE
  /\ owed' = (owed /\ claude' = "gating")
  /\ quiet' = TRUE
  /\ UNCHANGED <<status, awaiting, graces>>

GatePaints ==
  /\ claude = "gating"
  /\ claude' = "gate" /\ quiet' = TRUE
  /\ UNCHANGED <<turnVars, owed>>

\* Mutant: the marker settles an open turn too.
MarkerAnytime ==
  /\ status' = "waiting_input"
  /\ quiet' = TRUE
  /\ UNCHANGED <<turn, progressSeen, awaiting, graces, claude, owed>>

\* A chunk that carries the prompt marker: markReady unless a turn is open.
Marker ==
  /\ status' = IF turn = "none" THEN "waiting_input" ELSE status
  /\ quiet' = TRUE
  /\ UNCHANGED <<turn, progressSeen, awaiting, graces, claude, owed>>

-----------------------------------------------------------------------------
(* Timers.                                                                 *)

\* recheckReadyFromScreen of a running session.
Recheck ==
  \/ /\ turn \in {"ending", "held"} /\ claude = "gate"
     /\ turn' = "held"
     /\ UNCHANGED <<status, awaiting, graces>>
  \/ /\ turn = "held" /\ claude # "gate"
     /\ OpenTurn
     /\ UNCHANGED status
  \/ /\ turn = "ending" /\ claude # "gate"
     /\ turn' = "none" /\ status' = "waiting_input"
     /\ UNCHANGED <<awaiting, graces>>
  \/ /\ turn = "none"
     /\ status' = "waiting_input"
     /\ UNCHANGED <<turn, awaiting, graces>>
  \/ /\ turn \in {"submitted", "working"}
     /\ UNCHANGED <<status, turn, awaiting, graces>>

\* handleQuiet, QUIET_DETECT_MS after the last output.  A gate is painted sooner
\* than that after the title went idle for it.
Quiet ==
  /\ quiet /\ claude # "gating"
  /\ quiet' = FALSE
  /\ IF status = "running" THEN Recheck
                           ELSE UNCHANGED <<status, turn, awaiting, graces>>
  /\ UNCHANGED <<progressSeen, claude, owed>>

\* The grace timer: it asks whether a turn is submitted, not which.
Lapse(g) ==
  /\ g \in graces /\ g = 0
  /\ graces' = graces \ {g}
  /\ IF turn = "submitted"
       THEN turn' = "none" /\ status' = "waiting_input"
       ELSE UNCHANGED <<turn, status>>
  /\ UNCHANGED <<progressSeen, awaiting, quiet, claude, owed>>

Tick ==
  /\ graces # {} \/ awaiting \in 0..Late
  /\ \A g \in graces : g > 0
  /\ graces' = {g - 1 : g \in graces}
  /\ awaiting' = IF awaiting \in 0..Late THEN awaiting + 1 ELSE awaiting
  /\ UNCHANGED <<status, turn, progressSeen, quiet, claude, owed>>

\* Claude starts working without having been asked.
OwnWork ==
  /\ claude = "idle" /\ claude' = "busy"
  /\ UNCHANGED <<turnVars, quiet, owed>>

Init ==
  /\ status = "waiting_input" /\ turn = "none" /\ progressSeen = FALSE
  /\ awaiting = None /\ graces = {}
  /\ quiet = FALSE /\ claude = "idle" /\ owed = FALSE

Next ==
  \/ SendInput \/ SendKeys \/ Busy \/ Idle \/ GatePaints \/ Marker
  \/ Quiet \/ Tick \/ OwnWork
  \/ \E g \in graces : Lapse(g)

Spec == Init /\ [][Next]_vars

FairSpec == Spec /\ WF_vars(Quiet) /\ WF_vars(Tick) /\ WF_vars(\E g \in graces : Lapse(g))

-----------------------------------------------------------------------------
(* Properties.                                                             *)

\* A session is in a turn it knows of: a submitted or held turn keeps it running,
\* and a submit is remembered, and timed, until it is confirmed.
TurnStates ==
  /\ status \in {"running", "waiting_input"}
  /\ turn \in {"none", "submitted", "working", "ending", "held"}
  /\ turn # "none" => progressSeen
  /\ turn \in {"submitted", "held"} => status = "running"
  /\ claude \in {"idle", "starting", "busy", "gating", "gate"}

TurnTimers ==
  /\ awaiting \in {None} \cup 0..Late + 1
  /\ graces \subseteq 0..Grace
  /\ turn = "submitted" => awaiting # None /\ graces # {}

TypeOK == TurnStates /\ TurnTimers

\* From the busy signal of a submitted turn until its idle signal, and through
\* every gate on the way, the session is not reported as waiting: no "finished"
\* push while the agent works (#1041).
NotFinishedWhileWorking == owed => status = "running"

\* A turn that Claude has left, or never started, is reported: the session does
\* not stay running.
EveryTurnEndIsReported ==
  (claude = "idle" /\ status = "running") ~> (claude # "idle" \/ status = "waiting_input")
=============================================================================
