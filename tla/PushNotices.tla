------------------------------ MODULE PushNotices ------------------------------
(***************************************************************************)
(* What one session's status changes tell the phone: the ordinary          *)
(* notification ("finished", "needs you", "could not start") and the iOS   *)
(* Live Activity of the turn, with the sweep that replaces an activity     *)
(* before iOS ends it.  One funnel calls both notifiers for every status   *)
(* change and waits for neither, so every push is a task of its own: what  *)
(* a notifier does after an await happens at some later step, against      *)
(* whatever the session has become.                                        *)
(*                                                                         *)
(* The push services and the phone are external.  An activity is its own   *)
(* push token, the primary key of its row.                                 *)
(***************************************************************************)
EXTENDS Naturals, FiniteSets

CONSTANTS Activities,     \* push tokens of Live Activities of this session
          MaxTurns, MaxGates, MaxRestarts,   \* bounds of a run
          MaxBegun           \* turns, registrations and restarts, together

ASSUME PushAssumption ==
  /\ {MaxTurns, MaxGates, MaxRestarts, MaxBegun} \subseteq Nat
  /\ IsFiniteSet(Activities)

VARIABLES
  session,       \* [status, failed]: the session as the store has it, and failureReason
  ended,         \* its last turn ended on a "signal" or a "guess", goes on ("none"), or the
                 \* notifier did not see it begin ("unseen")
  turn,          \* turns begun, by the user or at the terminal
  gate,          \* gates and questions opened since the turn last ended, or 0
  notifier,      \* WaitingInputNotifier's five maps, for this session
  pushed,        \* turn -> "finished" pushes sent for it since it last began or resumed
  open,          \* LiveActivityNotifier.openActivity has the session
  sends,         \* APNs sends of the notifier under way: [kind, to]
  pushRow,       \* push_tokens: activity -> [state, stale, renewed]
  sweep,         \* the renewal scheduler's tick: [left, at, step]
  acts,          \* activity -> [fate, ends]: what was sent for it
  late,          \* a turn ended while the send that opens its activity was under way
  used           \* [gates, registrations, restarts] so far

pushVars == <<session, ended, turn, gate, notifier, pushed, open, sends, pushRow,
              sweep, acts, late, used>>

Statuses == {"running", "waiting_input", "idle"}
NoActs == [fate |-> "open", ends |-> 0]
NoSweep == [left |-> {}, at |-> {}, step |-> "none"]
FreshNotifier == [openTurn |-> 0, openPrompt |-> FALSE, readySeen |-> FALSE,
                  idleHandled |-> FALSE, pendingDone |-> 0]

\* Bound.
MayBegin == turn + used.registrations + used.restarts < MaxBegun

LiveStatus(status) == status \in {"running", "waiting_input"}

PushInit ==
  /\ session = [status |-> "running", failed |-> FALSE]
  /\ ended = "unseen" /\ turn = 0 /\ gate = 0
  /\ notifier = FreshNotifier
  /\ pushed = [t \in 1..MaxTurns |-> 0]
  /\ open = FALSE /\ sends = {} /\ late = FALSE
  /\ pushRow = [a \in Activities |-> [state |-> "none", stale |-> "none", renewed |-> FALSE]]
  /\ sweep = NoSweep
  /\ acts = [a \in Activities |-> NoActs]
  /\ used = [gates |-> 0, registrations |-> 0, restarts |-> 0]

(* listForSession: the session's activities that are delivery targets.     *)
Targets == {a \in Activities : pushRow[a].state = "live"}

-----------------------------------------------------------------------------
(* The notifications.                                                      *)

\* Mutant: a session that goes on with its turn is not seen to take it up again.
AfterRunningNewTurn(n, previous) ==
  [n EXCEPT !.pendingDone = 0, !.idleHandled = FALSE,
            !.openTurn = IF previous = "waiting_input" /\ turn' # turn THEN turn' ELSE @]

(* onStatusChange with status running: a pending "finished" is taken back, *)
(* and a turn is open when the session was waiting for input.              *)
AfterRunning(n, previous) ==
  [n EXCEPT !.pendingDone = 0, !.idleHandled = FALSE,
            !.openTurn = IF previous = "waiting_input" THEN turn' ELSE @]

\* Mutant: a repeated waiting_input finds the turn still open.
AfterWaitingKeepsTurn(n, source) ==
  [n EXCEPT !.openPrompt = FALSE, !.idleHandled = FALSE, !.readySeen = TRUE,
            !.pendingDone = IF n.openTurn # 0 /\ source = "signal"
                            THEN n.openTurn ELSE @]

(* onStatusChange with status waiting_input: the first one of an open turn *)
(* answers it, and "finished" waits out the settle time if a turn signal,  *)
(* and not a guess, ended the turn.                                        *)
AfterWaiting(n, source) ==
  [n EXCEPT !.openPrompt = FALSE, !.idleHandled = FALSE, !.readySeen = TRUE,
            !.openTurn = 0,
            !.pendingDone = IF n.openTurn # 0 /\ source = "signal"
                            THEN n.openTurn ELSE @]

(* onStatusChange with status idle: whatever was pending ended with the    *)
(* process.                                                                *)
AfterIdle(n) ==
  [n EXCEPT !.pendingDone = 0, !.openPrompt = FALSE, !.openTurn = 0,
            !.readySeen = FALSE, !.idleHandled = TRUE]

(* onPrompt(open): the push for a prompt replaces a pending "finished".    *)
AfterPrompt(n) ==
  IF n.openPrompt THEN n ELSE [n EXCEPT !.openPrompt = TRUE, !.pendingDone = 0]

-----------------------------------------------------------------------------
(* The Live Activity of a turn.                                            *)

Send(kind) == sends \cup {[kind |-> kind, to |-> Targets]}

(* LiveActivityNotifier.onStatusChange up to its first await.  endFor      *)
(* forgets the activity before it sends; startTurn remembers it after.     *)
LiveChange(status, previous) ==
  CASE status = "idle" \/ (status = "waiting_input" /\ previous = "running") ->
         /\ open' = FALSE
         /\ sends' = IF open THEN Send("end") ELSE sends
         /\ late' = (\E s \in sends : s.kind = "start")
    [] status = "running" /\ previous = "waiting_input" ->
         sends' = Send("start") /\ UNCHANGED <<open, late>>
    [] OTHER -> UNCHANGED <<open, sends, late>>

(* A push service answers a send.  Tokens it calls dead are retired; after *)
(* a start the activity counts as open, after an end every activity of the *)
(* session that is still a target is expired, the ones registered while    *)
(* the send was under way among them.                                      *)
Retired(rows, dead) ==
  [a \in Activities |-> IF a \in dead /\ rows[a].state # "none"
                        THEN [rows[a] EXCEPT !.state = "expired"] ELSE rows[a]]

SendAnswered ==
  \E s \in sends : \E dead \in SUBSET s.to :
    /\ sends' = sends \ {s}
    /\ open' = (open \/ s.kind = "start")
    /\ pushRow' = Retired(pushRow, IF s.kind = "end" THEN dead \cup Targets ELSE dead)
    /\ acts' = [a \in Activities |->
                  IF s.kind = "end" /\ a \in s.to \cap Targets
                  THEN [acts[a] EXCEPT !.fate = "closed"] ELSE acts[a]]
    /\ UNCHANGED <<session, ended, turn, gate, notifier, pushed, sweep, late, used>>

-----------------------------------------------------------------------------
(* What the session does: every transition and every repeated emit goes    *)
(* through the funnel, which updates the store and calls both notifiers.   *)

Funnel(status, source, failed) ==
  /\ session' = [status |-> status, failed |-> failed]
  /\ notifier' = CASE status = "running" -> AfterRunning(notifier, session.status)
                   [] status = "waiting_input" -> AfterWaiting(notifier, source)
                   [] OTHER -> AfterIdle(notifier)
  /\ LiveChange(status, session.status)
  /\ UNCHANGED <<pushRow, sweep, acts, used>>

(* The user's text is submitted, or a busy row shows a turn that somebody  *)
(* began at the terminal.                                                  *)
TurnBegins ==
  /\ session.status = "waiting_input" /\ turn < MaxTurns /\ MayBegin
  /\ turn' = turn + 1 /\ ended' = "none" /\ gate' = 0
  /\ Funnel("running", "user", FALSE)
  /\ UNCHANGED pushed

(* resumeLateTurn: the runner's busy signal comes when the turn has been   *)
(* taken to be over, and the same turn goes on.  Claude, Codex and Cursor  *)
(* ask that its text was submitted within the last half minute, Copilot    *)
(* asks nothing.                                                           *)
TurnResumes ==
  /\ session.status = "waiting_input" /\ turn # 0
  /\ ended' = "none" /\ UNCHANGED <<turn, gate>>
  /\ Funnel("running", "signal", FALSE)
  /\ pushed' = [pushed EXCEPT ![turn] = 0]

StatusWaits ==
  /\ session.status = "running"
  /\ ended' \in {"signal", "guess"} /\ gate' = 0
  /\ Funnel("waiting_input", ended', FALSE)
  /\ UNCHANGED <<turn, pushed>>

(* A usage limit that blocked the session leaves its screen: the status is *)
(* emitted again, without the failureReason.                               *)
StatusRepeats ==
  /\ session.status # "idle"
  /\ Funnel(session.status, ended, FALSE)
  /\ UNCHANGED <<ended, turn, gate, pushed>>

SessionExits ==
  /\ session.status # "idle"
  /\ gate' = 0
  /\ \E failed \in {FALSE, session.status = "running" /\ ~notifier.readySeen} :
       Funnel("idle", "exit", failed)
  /\ UNCHANGED <<ended, turn, pushed>>

(* A resume spawns the process again; the runner emits nothing until it    *)
(* reaches a prompt or exits.                                              *)
SessionResumed ==
  /\ session.status = "idle" /\ turn < MaxTurns
  /\ session' = [status |-> "running", failed |-> FALSE] /\ ended' = "unseen"
  /\ UNCHANGED <<turn, gate, notifier, pushed, open, sends, pushRow, sweep,
                 acts, late, used>>

GateOpens ==
  /\ LiveStatus(session.status) /\ used.gates < MaxGates
  /\ gate' = 1 /\ used' = [used EXCEPT !.gates = @ + 1]
  /\ notifier' = AfterPrompt(notifier)
  /\ UNCHANGED <<session, ended, turn, pushed, open, sends, pushRow, sweep, acts, late>>

GateCloses ==
  /\ LiveStatus(session.status) /\ notifier.openPrompt
  /\ notifier' = [notifier EXCEPT !.openPrompt = FALSE]
  /\ UNCHANGED <<session, ended, turn, gate, pushed, open, sends, pushRow, sweep,
                 acts, late, used>>

(* The settle timer fires.                                                 *)
DoneSettles ==
  /\ notifier.pendingDone # 0
  /\ notifier' = [notifier EXCEPT !.pendingDone = 0]
  /\ pushed' = [pushed EXCEPT ![notifier.pendingDone] = @ + 1]
  /\ UNCHANGED <<session, ended, turn, gate, open, sends, pushRow, sweep, acts, late, used>>

-----------------------------------------------------------------------------
(* Registrations and renewal.                                              *)

(* POST /api/push/register: the upsert makes the token live again, a new   *)
(* generation with a deadline of its own.                                  *)
RegisterActivity(a) ==
  /\ MayBegin
  /\ used' = [used EXCEPT !.registrations = @ + 1]
  /\ pushRow' = [pushRow EXCEPT ![a] = [state |-> "live", stale |-> "later", renewed |-> FALSE]]
  /\ acts' = [acts EXCEPT ![a] = NoActs]
  /\ UNCHANGED <<session, ended, turn, gate, notifier, pushed, open, sends, sweep, late>>

(* The phone unregisters, or its device is revoked: the row is deleted.    *)
DropActivity(a) ==
  /\ pushRow[a].state # "none"
  /\ pushRow' = [pushRow EXCEPT ![a] = [state |-> "none", stale |-> "none", renewed |-> FALSE]]
  /\ UNCHANGED <<session, ended, turn, gate, notifier, pushed, open, sends, sweep,
                 acts, late, used>>

(* The activity comes within the lead time of iOS's cap.                   *)
CapNears(a) ==
  /\ pushRow[a].stale = "later"
  /\ pushRow' = [pushRow EXCEPT ![a].stale = "due"]
  /\ UNCHANGED <<session, ended, turn, gate, notifier, pushed, open, sends, sweep,
                 acts, late, used>>

(* listRenewable, with the tick's own test of the deadline.  The statement *)
(* asks for a deadline and no claim; it does not ask that the row be       *)
(* unexpired.                                                              *)
Renewable == {a \in Activities : pushRow[a].stale = "due" /\ ~pushRow[a].renewed}

(* tick: the rows are read once and renewed one after another.             *)
SweepBegins ==
  /\ sweep.step = "none" /\ Renewable # {}
  /\ sweep' = [left |-> Renewable, at |-> {}, step |-> "next"]
  /\ UNCHANGED <<session, ended, turn, gate, notifier, pushed, open, sends, pushRow,
                 acts, late, used>>

(* claimRenewal: TRUE for the first caller of a row's generation.          *)
ClaimsRow(a) == pushRow[a].state # "none" /\ ~pushRow[a].renewed

Claimed(a) == IF pushRow[a].state = "none" THEN pushRow
              ELSE [pushRow EXCEPT ![a].renewed = TRUE]

SweepOn == IF sweep.left = {} THEN NoSweep ELSE [sweep EXCEPT !.at = {}, !.step = "next"]

(* renew, up to its first await: a session that is no longer live has its  *)
(* row claimed and expired, a live one is sent the end of the activity.    *)
SweepRow(a) ==
  /\ sweep.step = "next" /\ a \in sweep.left
  /\ IF ~LiveStatus(session.status) \/ ~ClaimsRow(a)
     THEN /\ pushRow' = IF LiveStatus(session.status) THEN pushRow ELSE Retired(Claimed(a), {a})
          /\ sweep' = IF sweep.left = {a} THEN NoSweep
                      ELSE [sweep EXCEPT !.left = @ \ {a}]
          /\ UNCHANGED acts
     ELSE /\ pushRow' = Claimed(a)
          /\ acts' = [acts EXCEPT ![a].ends = @ + 1]
          /\ sweep' = [left |-> sweep.left \ {a}, at |-> {a}, step |-> "ending"]
  /\ UNCHANGED <<session, ended, turn, gate, notifier, pushed, open, sends, late, used>>

(* The end was sent: the row is expired, and the phone's push-to-start     *)
(* token, if it registered one, is asked for a replacement when the        *)
(* session is still live.                                                  *)
SweepReplaces ==
  /\ sweep.step = "ending"
  /\ \E starters \in BOOLEAN : LET starts == starters /\ LiveStatus(session.status) IN
       /\ acts' = [a \in Activities |->
                     IF a \in sweep.at /\ starts /\ acts[a].fate = "closed"
                     THEN [acts[a] EXCEPT !.fate = "again"] ELSE acts[a]]
       /\ sweep' = IF starts THEN [sweep EXCEPT !.step = "starting"]
                   ELSE IF sweep.left = {} THEN NoSweep
                   ELSE [sweep EXCEPT !.at = {}, !.step = "next"]
  /\ pushRow' = Retired(pushRow, sweep.at)
  /\ UNCHANGED <<session, ended, turn, gate, notifier, pushed, open, sends, late, used>>

SweepMovesOn ==
  /\ sweep.step = "starting"
  /\ sweep' = SweepOn
  /\ UNCHANGED <<session, ended, turn, gate, notifier, pushed, open, sends, pushRow,
                 acts, late, used>>

(* The server restarts: what the notifiers remembered and the sends under  *)
(* way are gone, the rows are not.  A session kept by the pty-host goes on *)
(* in its status.                                                          *)
PushRestart ==
  /\ used.restarts < MaxRestarts /\ MayBegin
  /\ used' = [used EXCEPT !.restarts = @ + 1]
  /\ notifier' = FreshNotifier
  /\ open' = FALSE /\ sends' = {} /\ sweep' = NoSweep
  /\ ended' = IF session.status = "running" THEN "unseen" ELSE ended
  /\ UNCHANGED <<session, turn, gate, pushed, pushRow, acts, late>>

PushNext ==
  \/ TurnBegins \/ TurnResumes \/ StatusWaits \/ StatusRepeats
  \/ SessionExits \/ SessionResumed
  \/ GateOpens \/ GateCloses \/ DoneSettles \/ SendAnswered
  \/ \E a \in Activities : RegisterActivity(a) \/ DropActivity(a) \/ CapNears(a)
                           \/ SweepRow(a)
  \/ SweepBegins \/ SweepReplaces \/ SweepMovesOn \/ PushRestart

PushSpec == PushInit /\ [][PushNext]_pushVars

-----------------------------------------------------------------------------
PushTypeOK ==
  /\ session \in [status : Statuses, failed : BOOLEAN]
  /\ ended \in {"unseen", "none", "signal", "guess"} /\ turn \in 0..MaxTurns /\ gate \in 0..1
  /\ notifier \in [openTurn : 0..MaxTurns, openPrompt : BOOLEAN, readySeen : BOOLEAN,
                   idleHandled : BOOLEAN, pendingDone : 0..MaxTurns]
  /\ pushed \in [1..MaxTurns -> Nat]
  /\ open \in BOOLEAN /\ late \in BOOLEAN
  /\ sends \subseteq [kind : {"start", "end"}, to : SUBSET Activities]
  /\ pushRow \in [Activities -> [state : {"none", "live", "expired"},
                             stale : {"none", "later", "due"}, renewed : BOOLEAN]]
  /\ sweep.left \subseteq Activities /\ sweep.at \subseteq Activities
  /\ sweep.step \in {"none", "next", "ending", "starting"}

(* No turn is reported finished twice, however often its status is         *)
(* repeated, unless it was seen to go on in between; and a turn that is    *)
(* open or whose report is pending has not been reported.                  *)
FinishedOnce ==
  \A t \in 1..MaxTurns :
    pushed[t] + (IF t \in {notifier.openTurn, notifier.pendingDone} THEN 1 ELSE 0) <= 1

(* "Finished" only goes out for the last turn, for a session that still    *)
(* waits for input after a confirmed end, and for one that has asked       *)
(* nothing since: a turn that resumes takes its report back.               *)
FinishedStands ==
  notifier.pendingDone # 0 =>
    /\ notifier.pendingDone = turn
    /\ session.status = "waiting_input" /\ ended = "signal" /\ gate = 0

(* A turn that runs and was seen to begin, or to resume after it was taken *)
(* to be over or even reported, is owed the report of its end: its real    *)
(* end still sends "finished".                                             *)
RunningIsOwed ==
  session.status = "running" /\ ended = "none" => notifier.openTurn = turn

(* A registered activity is renewed at most once, over ticks, registrations*)
(* and restarts.                                                           *)
RenewedOnce == \A a \in Activities : acts[a].ends <= 1

(* The activity counts as open only while the turn runs, unless the turn   *)
(* ended while the send that opens it was under way.                       *)
OpenWhileRunning == open => session.status = "running" \/ late

PushInv ==
  /\ PushTypeOK /\ FinishedOnce /\ FinishedStands /\ RunningIsOwed
  /\ RenewedOnce /\ OpenWhileRunning

(* An activity that ended with its turn is not brought back by a renewal:  *)
(* what expiring its row is for.  Does not hold: listRenewable does not    *)
(* ask for expires_at.                                                     *)
EndedStaysEnded == \A a \in Activities : acts[a].fate # "again"
=============================================================================
