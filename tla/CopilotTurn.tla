----------------------------- MODULE CopilotTurn -----------------------------
(***************************************************************************)
(* One session of the Copilot runner (src/src/copilot-pty-runner.ts).      *)
(*                                                                         *)
(* A chunk of output is parsed into the screen on a later tick; the busy   *)
(* row and the cards are looked for as each chunk is parsed, the end of    *)
(* the boot or of a turn once the output is quiet, and a submit that shows *)
(* no turn is given up by its watch.  Every callback carries its session,  *)
(* so a process that outlives its hold disturbs nothing: the id may be     *)
(* started again at once.                                                  *)
(*                                                                         *)
(* Copilot paints whatever it likes.  Left out: reads of the output,       *)
(* resizing, raw keys and cancel (they change nothing but the process).    *)
(***************************************************************************)
EXTENDS Integers, FiniteSets, FiniteSetsExt

CONSTANTS
  Cards,            \* contents of cards, a highlight included
  MaxCopilotStarts  \* processes spawned, as a bound

ASSUME CopilotAssumption == MaxCopilotStarts \in Nat

VARIABLES
  copilot,         \* what the runner keeps of the session
  copilotProcess,  \* the process of the session in the map, 0 for none
  copilotScreen,   \* the screen as parsed
  arrived,         \* output that is not parsed yet
  copilotStarting, \* startPromises
  copilotDisposed,
  copilotAlive,    \* processes that run
  copilotTold,     \* of these, the ones told to end
  copilotCard,     \* the card the server was told of
  copilotSpawned   \* processes spawned so far

copilotVars == <<copilot, copilotProcess, copilotScreen, arrived, copilotStarting,
                 copilotDisposed, copilotAlive, copilotTold, copilotCard, copilotSpawned>>
processVars == <<copilotStarting, copilotDisposed, copilotAlive, copilotTold, copilotSpawned>>

Nothing == "none"
\* working: the busy row; idle: the idle footer; painting: a card's footer without a
\* card that can be read; other: compose hints, dialogs of the sign-in.
CopilotScreens == {"other", "idle", "working", "painting"} \cup Cards
CardFooterShowing(scr) == scr = "painting" \/ scr \in Cards

NewCopilot == [status |-> "running", booting |-> TRUE, busy |-> FALSE, submitted |-> "no",
               watch |-> FALSE, quiet |-> FALSE, pass |-> FALSE, openCard |-> Nothing]
NoCopilot == [NewCopilot EXCEPT !.status = "idle", !.booting = FALSE]

CopilotInit ==
  /\ copilot = NoCopilot /\ copilotProcess = 0 /\ copilotScreen = "other"
  /\ arrived = Nothing /\ copilotStarting = FALSE /\ copilotDisposed = FALSE
  /\ copilotAlive = {} /\ copilotTold = {} /\ copilotCard = Nothing /\ copilotSpawned = 0

InMap == copilotProcess # 0

-----------------------------------------------------------------------------
(* start waits for the library; a caller that finds a session, or a start  *)
(* under way, gets that one.                                               *)
CopilotStart ==
  /\ ~InMap /\ ~copilotStarting /\ ~copilotDisposed
  /\ copilotStarting' = TRUE
  /\ UNCHANGED <<copilot, copilotProcess, copilotScreen, arrived, copilotDisposed,
                 copilotAlive, copilotTold, copilotCard, copilotSpawned>>

(* launch: a runner disposed of meanwhile refuses, and so may the spawn.   *)
CopilotLaunch ==
  /\ copilotStarting
  /\ copilotStarting' = FALSE
  /\ \/ /\ ~copilotDisposed /\ copilotSpawned < MaxCopilotStarts
        /\ copilotSpawned' = copilotSpawned + 1
        /\ copilotProcess' = copilotSpawned + 1
        /\ copilotAlive' = copilotAlive \cup {copilotSpawned + 1}
        /\ copilot' = NewCopilot /\ copilotScreen' = "other" /\ arrived' = Nothing
     \/ UNCHANGED <<copilot, copilotProcess, copilotScreen, arrived, copilotAlive,
                    copilotSpawned>>
  /\ UNCHANGED <<copilotDisposed, copilotTold, copilotCard>>

\* Bound: a chunk is parsed before the next one comes.
CopilotOutput ==
  /\ InMap /\ arrived = Nothing
  /\ arrived' \in CopilotScreens
  /\ copilot' = [copilot EXCEPT !.quiet = TRUE]
  /\ UNCHANGED <<copilotProcess, copilotScreen, processVars, copilotCard>>

(* detectBusy: a turn nobody announced, or one that started late.          *)
SeenBusy(x, scr) ==
  IF scr = "working" THEN [x EXCEPT !.busy = TRUE, !.status = "running"] ELSE x

(* detectCard: raised once per content, taken back when its footer goes.   *)
SeenCard(x, scr) ==
  IF ~CardFooterShowing(scr) THEN [x EXCEPT !.openCard = Nothing]
  ELSE IF scr = "painting" THEN x
  ELSE [x EXCEPT !.openCard = scr]

CopilotParse ==
  /\ InMap /\ arrived # Nothing
  /\ copilotScreen' = arrived /\ arrived' = Nothing
  /\ copilot' = SeenCard(SeenBusy(copilot, arrived), arrived)
  \* onPermissionChange: the server is told of a card, or that it is gone.
  /\ copilotCard' = copilot'.openCard
  /\ UNCHANGED <<copilotProcess, processVars>>

(* markReady                                                               *)
CopilotReady(x) ==
  [x EXCEPT !.busy = FALSE, !.submitted = "no", !.watch = FALSE, !.status = "waiting",
            !.booting = FALSE]

(* settleIfIdle: neither the busy row nor a card, and a turn that was      *)
(* busy, a boot at its footer, or a submit that has started nothing.       *)
Settled(x, stale) ==
  IF /\ x.status = "running" /\ copilotScreen # "working"
     /\ ~CardFooterShowing(copilotScreen)
     /\ \/ x.busy
        \/ x.booting /\ copilotScreen = "idle"
        \/ stale \/ x.submitted = "old"
  THEN CopilotReady(x) ELSE x

(* detectQuiet waits for what has arrived to be parsed.                    *)
CopilotQuiet ==
  /\ InMap /\ copilot.quiet
  /\ copilot' = [copilot EXCEPT !.quiet = FALSE, !.pass = TRUE]
  /\ UNCHANGED <<copilotProcess, copilotScreen, arrived, processVars, copilotCard>>

CopilotSettles ==
  /\ InMap /\ copilot.pass /\ arrived = Nothing
  /\ copilot' = Settled([copilot EXCEPT !.pass = FALSE], FALSE)
  /\ UNCHANGED <<copilotProcess, copilotScreen, arrived, processVars, copilotCard>>

(* sendInput                                                               *)
CopilotInput ==
  /\ InMap
  /\ copilot' = [copilot EXCEPT !.status = "running", !.submitted = "fresh", !.watch = TRUE]
  /\ UNCHANGED <<copilotProcess, copilotScreen, arrived, processVars, copilotCard>>

(* The watch of a submit, after COPILOT_SUBMIT_STALE_MS.                   *)
CopilotWatch ==
  /\ InMap /\ copilot.watch
  /\ LET x == [copilot EXCEPT !.watch = FALSE, !.submitted = "old"]
     IN  copilot' = IF x.busy THEN x ELSE Settled(x, TRUE)
  /\ UNCHANGED <<copilotProcess, copilotScreen, arrived, processVars, copilotCard>>

-----------------------------------------------------------------------------
(* finish: the session leaves the map, its card is taken back.             *)
CopilotFinish ==
  /\ copilotProcess' = 0 /\ copilot' = NoCopilot /\ copilotCard' = Nothing
  /\ copilotScreen' = "other" /\ arrived' = Nothing

(* putOnHold, and dispose, which does it to all and refuses what comes.    *)
CopilotHold ==
  /\ InMap
  /\ copilotTold' = copilotTold \cup {copilotProcess}
  /\ CopilotFinish
  /\ \/ UNCHANGED copilotDisposed
     \/ copilotDisposed' = TRUE
  /\ UNCHANGED <<copilotStarting, copilotAlive, copilotSpawned>>

DisposeIdle ==
  /\ ~InMap /\ ~copilotDisposed
  /\ copilotDisposed' = TRUE
  /\ UNCHANGED <<copilot, copilotProcess, copilotScreen, arrived, copilotStarting,
                 copilotAlive, copilotTold, copilotCard, copilotSpawned>>

\* Mutant: the exit of a process ends whatever session holds its id.
CopilotExitsById(p) ==
  /\ copilotAlive' = copilotAlive \ {p}
  /\ IF InMap THEN CopilotFinish
     ELSE UNCHANGED <<copilot, copilotProcess, copilotScreen, arrived, copilotCard>>
  /\ UNCHANGED <<copilotStarting, copilotDisposed, copilotTold, copilotSpawned>>

CopilotExits(p) ==
  /\ copilotAlive' = copilotAlive \ {p}
  /\ IF copilotProcess = p THEN CopilotFinish
     ELSE UNCHANGED <<copilot, copilotProcess, copilotScreen, arrived, copilotCard>>
  /\ UNCHANGED <<copilotStarting, copilotDisposed, copilotTold, copilotSpawned>>

CopilotNext ==
  \/ CopilotStart \/ CopilotLaunch \/ CopilotOutput \/ CopilotParse
  \/ CopilotQuiet \/ CopilotSettles \/ CopilotInput \/ CopilotWatch
  \/ CopilotHold \/ DisposeIdle
  \/ \E p \in copilotAlive : CopilotExits(p)

CopilotSpec == CopilotInit /\ [][CopilotNext]_copilotVars

-----------------------------------------------------------------------------
(* A session that is reported running has something on screen or under way *)
(* that will end it: it does not stay running for good.  A boot may wait   *)
(* for its user.                                                           *)
CopilotRunningIsWatched ==
  copilot.status = "running" /\ ~copilot.booting =>
    \/ copilot.watch \/ copilot.quiet \/ copilot.pass
    \/ copilotScreen = "working" \/ CardFooterShowing(copilotScreen)

(* It is not reported waiting while it shows that it works.                *)
CopilotWaitingMeansIdle == copilot.status = "waiting" => copilotScreen # "working"

(* The card the server holds is the one on screen, or one whose repaint is *)
(* not complete.                                                           *)
CardIsShown ==
  /\ copilotCard = copilot.openCard
  /\ copilotCard # Nothing => copilotScreen \in {copilotCard, "painting"}

(* The process of a session runs, and none runs that neither has a session *)
(* nor was told to end, however fast an id is started again.               *)
CopilotProcesses ==
  /\ InMap => copilotProcess \in copilotAlive
  /\ copilotAlive \ copilotTold \subseteq {copilotProcess}

(* copilot-pty-runner.ts: status, cards and processes of a session.        *)
CopilotInv ==
  /\ CopilotRunningIsWatched /\ CopilotWaitingMeansIdle /\ CardIsShown /\ CopilotProcesses
=============================================================================
