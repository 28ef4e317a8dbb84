----------------------------- MODULE HoldPolicy -----------------------------
(***************************************************************************)
(* Who may end the process of a session, and when: the grace timer and the *)
(* kill-on-idle latch of src/src/server.ts, the idle reaper, the stop      *)
(* endpoint (api/handlers/sessions.handlers.ts), and the sockets that      *)
(* watch the session.                                                      *)
(*                                                                         *)
(* One session id over any number of processes.  The timer and the latch   *)
(* belong to the id, not to a process: nothing clears the timer when the   *)
(* process ends.  The runner reports every change of status through one    *)
(* callback, which fires the latch, so a hold re-enters it: the latch sees *)
(* the idle status of every process that ends, whatever ended it.          *)
(***************************************************************************)
EXTENDS Integers

CONSTANTS
  Clients,     \* sockets that may watch the session
  MaxDefers    \* GRACE_MAX_DEFERS

ASSUME MaxDefersAssumption == MaxDefers \in Nat

VARIABLES
  pty,         \* none, running, waiting_input
  record,      \* what the store says: absent, live, held, exited
  used,        \* a prompt was submitted, or a conversation is cached
  deleted,     \* the conversation is soft-deleted
  grace,       \* ptyGraceTimers has a timer for the session
  defers,      \* ptyGraceDeferCounts
  latch,       \* holdWhenIdle: no request or one
  subscribed,  \* sessionSubscribers
  open,        \* sockets that are open
  sinceWatch,  \* expiries that found a running process, since the last subscribe
  inTurn       \* the same, since this turn began

store == <<record, used, deleted>>
sockets == <<subscribed, open>>
ghosts == <<sinceWatch, inTurn>>
holdVars == <<pty, store, grace, defers, latch, sockets, ghosts>>

LatchRequest == [ignoreWatchers : BOOLEAN, deleteAfter : BOOLEAN]

\* hasSessionSubscriber.
Watched == subscribed \cap open # {}

-----------------------------------------------------------------------------
(* The status callback.                                                    *)

\* maybeFireHoldWhenIdle, on waiting_input or idle.
Fires == \E l \in latch : l.ignoreWatchers \/ ~Watched

Deletes == Fires /\ \E l \in latch : l.deleteAfter

\* forgetIfEmptyUnused.
Forgotten(r) == IF used THEN r ELSE "absent"

\* The latch's hold, if it fires; the process is gone in every case.  It records
\* a hold over an exit it was fired by.
Ends(r) ==
  /\ pty' = "none"
  /\ latch' = {}
  /\ record' = IF Fires THEN Forgotten("held") ELSE r
  /\ deleted' = (deleted \/ Deletes)
  /\ inTurn' = 0

\* A hold that its caller follows by a forget and perhaps a soft delete.
Discarded(delete) ==
  /\ pty' = "none"
  /\ latch' = {}
  /\ record' = Forgotten("held")
  /\ deleted' = (deleted \/ delete \/ Deletes)
  /\ inTurn' = 0

-----------------------------------------------------------------------------
(* The process.                                                            *)

\* A start or a resume: it touches neither the timer nor the latch.
Resume ==
  /\ pty = "none"
  /\ pty' = "running" /\ record' = "live" /\ inTurn' = 0
  /\ UNCHANGED <<used, deleted, grace, defers, latch, sockets, sinceWatch>>

\* Text or keys.
Input ==
  /\ pty # "none"
  /\ pty' = "running"
  /\ used' \in {used, TRUE}
  /\ inTurn' = IF pty = "running" THEN inTurn ELSE 0
  /\ UNCHANGED <<record, deleted, grace, defers, latch, sockets, sinceWatch>>

\* The turn ends (markReady).
Settle ==
  /\ pty = "running"
  /\ IF Fires
       THEN Ends("held")
       ELSE /\ pty' = "waiting_input" /\ latch' = {} /\ inTurn' = 0
            /\ UNCHANGED <<record, deleted>>
  /\ UNCHANGED <<used, grace, defers, sockets, sinceWatch>>

\* handleExit: the callback runs while the session is still in the map.
Exit ==
  /\ pty # "none"
  /\ Ends("exited")
  /\ UNCHANGED <<used, grace, defers, sockets, sinceWatch>>

-----------------------------------------------------------------------------
(* Requests to end it.                                                     *)

\* hold_session, now or with "grace"; there may be no process.
HoldGrace ==
  /\ latch' = {}
  /\ grace' = TRUE
  /\ UNCHANGED <<pty, store, defers, sockets, ghosts>>

\* Mutant: the timer goes on beside the latch.
ArmBesideGrace(l) ==
  /\ pty # "none"
  /\ IF pty = "running"
       THEN latch' = {l} /\ UNCHANGED <<pty, record, deleted, inTurn>>
       ELSE Discarded(l.deleteAfter)
  /\ UNCHANGED <<used, grace, defers, sockets, sinceWatch>>

\* armHoldWhenIdle.  A settled session is held at once; the latch is dropped
\* before that, but there is none on a settled session.
Arm(l) ==
  /\ pty # "none"
  /\ grace' = FALSE /\ defers' = 0
  /\ IF pty = "running"
       THEN latch' = {l} /\ UNCHANGED <<pty, record, deleted, inTurn>>
       ELSE Discarded(l.deleteAfter)
  /\ UNCHANGED <<used, sockets, sinceWatch>>

\* hold_session with "waiting_input".
HoldWhenIdle == Arm([ignoreWatchers |-> FALSE, deleteAfter |-> FALSE])

\* handleStopSessionWhenIdle: it counts closed sockets that are not yet removed.
StopWhenIdle(l) ==
  /\ l.ignoreWatchers \/ subscribed = {}
  /\ Arm(l)

\* handleStopSession and handleKillSession.  The wait for the idle status is
\* over as soon as it begins.
StopNow(delete) ==
  /\ pty # "none"
  /\ Discarded(delete)
  /\ UNCHANGED <<used, grace, defers, sockets, sinceWatch>>

\* The expiry may defer to a turn under way.
Defers == defers < MaxDefers

\* Mutant: the defers are not counted.
Uncounted == defers

Counted == defers + 1

\* The ghosts stop counting one past the cap.
Bump(n) == IF n <= MaxDefers THEN n + 1 ELSE n

\* The timer of startGraceTimer expires.
Expire ==
  /\ grace
  /\ IF pty = "running" /\ Defers
       THEN /\ defers' = Counted
            /\ latch' = {}
            /\ inTurn' = Bump(inTurn)
            /\ UNCHANGED <<pty, store, grace, subscribed>>
       ELSE /\ grace' = FALSE /\ defers' = 0
            /\ subscribed' = {}
            /\ IF pty = "none"
                 THEN UNCHANGED <<pty, record, deleted, latch, inTurn>>
                 ELSE Ends("held")
            /\ UNCHANGED used
  /\ sinceWatch' = IF pty = "running" THEN Bump(sinceWatch) ELSE sinceWatch
  /\ UNCHANGED open

\* reapIdleSessions; the hours of silence are not modelled.
Reap ==
  /\ pty = "waiting_input"
  /\ Ends("held")
  /\ subscribed' = {}
  /\ UNCHANGED <<used, grace, defers, open, sinceWatch>>

-----------------------------------------------------------------------------
(* Watchers.                                                               *)

\* Mutant: a new watcher takes the timer off, and not the count.
SubscribeKeepingDefers(c) ==
  /\ c \in open
  /\ subscribed' = subscribed \cup {c}
  /\ grace' = FALSE
  /\ latch' = {l \in latch : l.ignoreWatchers}
  /\ sinceWatch' = 0
  /\ UNCHANGED <<pty, store, defers, open, inTurn>>

\* Mutant: a new watcher takes every latch off.
SubscribeCancelsAll(c) ==
  /\ c \in open
  /\ subscribed' = subscribed \cup {c}
  /\ grace' = FALSE /\ defers' = 0
  /\ latch' = {}
  /\ sinceWatch' = 0
  /\ UNCHANGED <<pty, store, open, inTurn>>

\* addSessionSubscriber.
Subscribe(c) ==
  /\ c \in open
  /\ subscribed' = subscribed \cup {c}
  /\ grace' = FALSE /\ defers' = 0
  /\ latch' = {l \in latch : l.ignoreWatchers}
  /\ sinceWatch' = 0
  /\ UNCHANGED <<pty, store, open, inTurn>>

\* removeSessionSubscriber.
Unsubscribe(c) ==
  /\ c \in open
  /\ subscribed' = subscribed \ {c}
  /\ UNCHANGED <<pty, store, grace, defers, latch, open, ghosts>>

Connect(c) ==
  /\ c \notin open \cup subscribed
  /\ open' = open \cup {c}
  /\ UNCHANGED <<pty, store, grace, defers, latch, subscribed, ghosts>>

\* The socket closes, and its close event follows.
Close(c) ==
  /\ c \in open
  /\ open' = open \ {c}
  /\ UNCHANGED <<pty, store, grace, defers, latch, subscribed, ghosts>>

\* handleWsClose: no timer starts because nobody watches.
HandleWsClose(c) ==
  /\ c \in subscribed \ open
  /\ subscribed' = subscribed \ {c}
  /\ UNCHANGED <<pty, store, grace, defers, latch, open, ghosts>>

-----------------------------------------------------------------------------
HoldInit ==
  /\ pty = "none" /\ record = "absent" /\ used \in BOOLEAN /\ deleted = FALSE
  /\ grace = FALSE /\ defers = 0 /\ latch = {}
  /\ subscribed = {} /\ open = {}
  /\ sinceWatch = 0 /\ inTurn = 0

HoldNext ==
  \/ Resume \/ Input \/ Settle \/ Exit
  \/ HoldGrace \/ HoldWhenIdle \/ Expire \/ Reap
  \/ \E l \in LatchRequest : StopWhenIdle(l)
  \/ \E delete \in BOOLEAN : StopNow(delete)
  \/ \E c \in Clients : \/ Subscribe(c) \/ Unsubscribe(c)
                        \/ Connect(c) \/ Close(c) \/ HandleWsClose(c)

HoldSpec == HoldInit /\ [][HoldNext]_holdVars

-----------------------------------------------------------------------------
(* Properties.                                                             *)

\* The state of the hold machinery: at most one request is latched, the defers
\* stay within their limit, and the ghosts stop counting one past it.
HoldStates ==
  /\ pty \in {"none", "running", "waiting_input"}
  /\ record \in {"absent", "live", "held", "exited"}
  /\ used \in BOOLEAN /\ deleted \in BOOLEAN /\ grace \in BOOLEAN
  /\ latch \subseteq LatchRequest /\ \A k, l \in latch : k = l
  /\ subscribed \subseteq Clients /\ open \subseteq Clients

HoldCounts ==
  /\ defers \in 0..MaxDefers
  /\ sinceWatch \in 0..MaxDefers + 1 /\ inTurn \in 0..MaxDefers + 1

HoldTypeOK == HoldStates /\ HoldCounts

\* The timer and the latch are never both armed (server.ts:455-457).
NeverBothArmed == ~(grace /\ latch # {})

\* A latch lives within the turn it waits for: a settled session, or one whose
\* process is gone, has none left that could end the next process.
LatchAwaitsTurn == latch # {} => pty = "running"

\* One request at a time, and none left over.
HoldsExclusive == NeverBothArmed /\ LatchAwaitsTurn

\* The expiry of a grace timer ends a turn under way.
GraceCut == Expire /\ pty = "running" /\ pty' = "none"

\* A turn under way ends by the exit of the process, by an explicit stop, by a
\* grace timer that has deferred to the limit, or as it settles under a latch
\* that nobody watches or that was told to ignore watchers.  The reaper, a
\* socket that closes and a watched latch never end it.
RunningEndsForAReason ==
  [][pty = "running" /\ pty' = "none"
       => \/ Exit
          \/ \E delete \in BOOLEAN : StopNow(delete)
          \/ GraceCut /\ sinceWatch >= MaxDefers
          \/ \E l \in latch : l.ignoreWatchers \/ ~Watched]_holdVars

\* A stop that ignores watchers is not undone by one who subscribes later: it
\* ends with its session, or a later request takes its place.
KillPromiseKept ==
  [][(\E l \in latch : l.ignoreWatchers) /\ latch' # latch
       => pty' = "none" \/ grace' \/ latch' # {}]_holdVars

\* A grace timer ends, by a hold or by a watcher: a session that never settles
\* does not keep its timer for ever.
GraceEnds == grace ~> ~grace

\* Does not hold: each turn has all of its defers.  The count is "Reset when a subscriber
\* reconnects or the PTY settles" (server.ts:452-453), but it outlives the turn that
\* earned it.
TurnsGetTheirDefers == [][GraceCut => inTurn = MaxDefers]_holdVars
=============================================================================
