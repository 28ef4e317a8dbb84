------------------------- MODULE PtySessionProofs --------------------------
(***************************************************************************)
(* The turn tracking of PtyTurn, for any grace period and any limit of     *)
(* late starts.                                                            *)
(*                                                                         *)
(* That no "finished" is reported while the agent works is not inductive:  *)
(* it needs to be known which turn a working agent is in.  OwedTurn says   *)
(* it: the turn is working while the agent is, ending while a gate is      *)
(* about to be painted, and ending or held while the gate is open.  None   *)
(* of these is settled by a marker, by the quiet checker or by a timer.    *)
(*                                                                         *)
(* HoldPolicy for any set of clients and any limit of defers: the grace    *)
(* timer and the kill-on-idle latch exclude each other, a latch does not   *)
(* outlive its turn, and the promises of a stop are kept.                  *)
(*                                                                         *)
(* NeverBothArmed and LatchAwaitsTurn are inductive with the types of the  *)
(* states: every step that sets one of the two clears the other, and every *)
(* step out of a running turn takes the latch with it.  The counts are an  *)
(* invariant of their own.                                                 *)
(*                                                                         *)
(* PtyInput for any number of processes, texts and waits.  Its properties  *)
(* need to be known where every text is on its way: the queue is in order, *)
(* what waits for its turn is behind what was typed and nearer the earlier *)
(* it came (FlushInOrder), and nothing was typed, nor is due to be, into a *)
(* process that still boots (NothingTypedYet).                             *)
(***************************************************************************)
EXTENDS PtyTurn, HoldPolicy, PtyInput, FiniteSetTheorems, TLAPS

-----------------------------------------------------------------------------
(* The turn tracking.                                                       *)

OwedTurn ==
  owed => /\ status = "running"
          /\ \/ turn = "working" /\ claude = "busy"
             \/ turn = "ending" /\ claude \in {"gating", "gate"}
             \/ turn = "held" /\ claude = "gate"

TurnInv == TurnStates /\ OwedTurn

-----------------------------------------------------------------------------
(* The states and what the session owes.                                   *)

LEMMA TurnStepInv == TurnInv /\ [Next]_vars => TurnInv'
<1> SUFFICES ASSUME TurnInv, [Next]_vars PROVE TurnInv'
  OBVIOUS
<1> USE DEF TurnInv, TurnStates, OwedTurn, turnVars
<1>1. CASE SendInput
  BY <1>1 DEF SendInput, OpenTurn, Given
<1>2. CASE SendKeys
  BY <1>2 DEF SendKeys, OpenTurn
<1>3. CASE Busy
  BY <1>3 DEF Busy
<1>4. CASE Idle
  BY <1>4 DEF Idle
<1>5. CASE GatePaints \/ OwnWork \/ Tick
  BY <1>5 DEF GatePaints, OwnWork, Tick
<1>6. CASE Marker
  BY <1>6 DEF Marker
<1>7. CASE Quiet
  <2>1. CASE status = "running"
    BY <1>7, <2>1 DEF Quiet, Recheck, OpenTurn
  <2>2. CASE status # "running"
    BY <1>7, <2>2 DEF Quiet
  <2> QED BY <2>1, <2>2
<1>8. CASE \E g \in graces : Lapse(g)
  BY <1>8 DEF Lapse
<1>9. CASE UNCHANGED vars
  BY <1>9 DEF vars
<1> QED
  BY <1>1, <1>2, <1>3, <1>4, <1>5, <1>6, <1>7, <1>8, <1>9 DEF Next

-----------------------------------------------------------------------------
(* The timers.                                                             *)

\* A submit arms a timer and starts the count.
LEMMA OpenTurnTimers ==
  ASSUME TurnTimers, OpenTurn
  PROVE  TurnTimers'
<1>1. awaiting' \in {None} \cup 0..Late + 1 /\ awaiting' # None
  BY ConstantsAssumption DEF ConstantsAssumption, OpenTurn, None
<1>2. graces' \subseteq 0..Grace
  <2>1. graces' \subseteq graces \cup {Grace}
    BY DEF OpenTurn
  <2>2. Grace \in 0..Grace
    BY ConstantsAssumption DEF ConstantsAssumption
  <2> QED BY <2>1, <2>2 DEF TurnTimers
<1>3. turn' = "submitted" => graces' # {}
  BY DEF OpenTurn, TurnTimers
<1> QED BY <1>1, <1>2, <1>3 DEF TurnTimers

LEMMA TickTimers ==
  ASSUME TurnTimers, Tick
  PROVE  TurnTimers'
<1>1. awaiting' \in {None} \cup 0..Late + 1 /\ (awaiting # None => awaiting' # None)
  BY ConstantsAssumption DEF ConstantsAssumption, Tick, TurnTimers, None
<1>2. graces' \subseteq 0..Grace
  <2> SUFFICES ASSUME NEW h \in graces' PROVE h \in 0..Grace
    OBVIOUS
  <2>1. PICK g \in graces : h = g - 1
    BY DEF Tick
  <2>2. g \in 0..Grace /\ g > 0
    BY DEF Tick, TurnTimers
  <2> QED BY <2>1, <2>2, ConstantsAssumption DEF ConstantsAssumption
<1>3. graces # {} => graces' # {}
  BY DEF Tick
<1> QED BY <1>1, <1>2, <1>3 DEF TurnTimers, Tick

LEMMA TimersStep == TurnInv /\ TurnTimers /\ [Next]_vars => TurnTimers'
<1> SUFFICES ASSUME TurnInv, TurnTimers, [Next]_vars PROVE TurnTimers'
  OBVIOUS
<1> DEFINE Same == UNCHANGED <<awaiting, graces>> /\ (turn' = "submitted" => turn = "submitted")
<1>0. ASSUME Same PROVE TurnTimers'
  BY <1>0 DEF TurnTimers
<1>1. CASE SendInput
  BY <1>1, OpenTurnTimers DEF SendInput
<1>2. CASE SendKeys
  <2>1. CASE status = "waiting_input"
    BY <1>2, <2>1, OpenTurnTimers DEF SendKeys
  <2>2. CASE status # "waiting_input"
    BY <1>2, <2>2, <1>0 DEF SendKeys
  <2> QED BY <2>1, <2>2
<1>3. CASE Busy
  BY <1>3 DEF Busy, TurnTimers
<1>4. CASE Idle \/ GatePaints \/ OwnWork \/ Marker
  BY <1>4, <1>0 DEF Idle, GatePaints, OwnWork, Marker, turnVars
<1>5. CASE Tick
  BY <1>5, TickTimers
<1>6. CASE Quiet
  <2>1. CASE OpenTurn
    BY <2>1, OpenTurnTimers
  <2>2. CASE ~OpenTurn
    BY <1>6, <2>2, <1>0 DEF Quiet, Recheck
  <2> QED BY <2>1, <2>2
<1>7. CASE \E g \in graces : Lapse(g)
  BY <1>7 DEF Lapse, TurnTimers
<1>8. CASE UNCHANGED vars
  BY <1>8, <1>0 DEF vars, turnVars
<1> QED
  BY <1>1, <1>2, <1>3, <1>4, <1>5, <1>6, <1>7, <1>8 DEF Next

-----------------------------------------------------------------------------
(* The theorems.                                                           *)

LEMMA TurnInitInv == Init => TurnInv /\ TurnTimers
<1> SUFFICES ASSUME Init PROVE TurnInv /\ TurnTimers
  OBVIOUS
<1>1. TurnInv
  BY DEF Init, TurnInv, TurnStates, OwedTurn
<1>2. TurnTimers
  BY DEF Init, TurnTimers
<1> QED BY <1>1, <1>2

\* The runner's view of a turn is consistent: a submitted or held turn keeps the
\* session running, and a submitted one has a timer that will let it lapse.
THEOREM TurnTyped == Spec => []TypeOK
<1>1. TurnInv /\ TurnTimers => TypeOK
  BY DEF TurnInv, TypeOK
<1>2. TurnInv /\ TurnTimers /\ [Next]_vars => TurnInv' /\ TurnTimers'
  BY TurnStepInv, TimersStep
<1> QED
  BY <1>1, <1>2, TurnInitInv, PTL DEF Spec

\* From the busy signal to the idle signal, through every gate, the session is
\* not reported as waiting for input (trackProgress, handleOutput,
\* recheckReadyFromScreen, the start grace), whatever the periods are.
THEOREM NoFalseFinish == Spec => []NotFinishedWhileWorking
<1>1. Init => TurnInv
  BY TurnInitInv
<1>2. TurnInv => NotFinishedWhileWorking
  BY DEF TurnInv, OwedTurn, NotFinishedWhileWorking
<1> QED
  BY <1>1, <1>2, TurnStepInv, PTL DEF Spec

-----------------------------------------------------------------------------
(* The hold policy.                                                         *)

HoldInv == HoldStates /\ NeverBothArmed /\ LatchAwaitsTurn

-----------------------------------------------------------------------------
(* The states.                                                             *)

\* A process that ends leaves a typed state and no latch.
LEMMA EndsState ==
  ASSUME HoldStates, NEW r \in {"held", "exited"}, Ends(r)
  PROVE  /\ pty' = "none" /\ latch' = {}
         /\ record' \in {"absent", "held", "exited"} /\ deleted' \in BOOLEAN
  BY DEF HoldStates, Ends, Forgotten, Deletes

LEMMA DiscardedState ==
  ASSUME HoldStates, NEW delete \in BOOLEAN, Discarded(delete)
  PROVE  /\ pty' = "none" /\ latch' = {}
         /\ record' \in {"absent", "held"} /\ deleted' \in BOOLEAN
  BY DEF HoldStates, Discarded, Forgotten, Deletes

\* Every way to arm the latch takes the timer off.
LEMMA ArmInv ==
  ASSUME HoldInv, NEW l \in LatchRequest, Arm(l)
  PROVE  HoldInv'
<1>1. CASE pty = "running"
  BY <1>1 DEF Arm, HoldInv, HoldStates, NeverBothArmed, LatchAwaitsTurn, sockets
<1>2. CASE pty # "running"
  <2>1. Discarded(l.deleteAfter) /\ l.deleteAfter \in BOOLEAN
    BY <1>2 DEF Arm, LatchRequest
  <2> QED
    BY <2>1, DiscardedState
    DEF Arm, HoldInv, HoldStates, NeverBothArmed, LatchAwaitsTurn, sockets
<1> QED BY <1>1, <1>2

LEMMA ExpireInv ==
  ASSUME HoldInv, Expire
  PROVE  HoldInv'
<1> USE DEF Expire, HoldInv, HoldStates, NeverBothArmed, LatchAwaitsTurn, store
<1>1. CASE pty = "running" /\ Defers
  BY <1>1
<1>2. CASE ~(pty = "running" /\ Defers) /\ pty = "none"
  BY <1>2
<1>3. CASE ~(pty = "running" /\ Defers) /\ pty # "none"
  BY <1>3, EndsState
<1> QED BY <1>1, <1>2, <1>3

LEMMA HoldStepInv == HoldInv /\ [HoldNext]_holdVars => HoldInv'
<1> SUFFICES ASSUME HoldInv, [HoldNext]_holdVars PROVE HoldInv'
  OBVIOUS
<1> USE DEF HoldInv, HoldStates, NeverBothArmed, LatchAwaitsTurn, store, sockets
<1>1. CASE Resume
  BY <1>1 DEF Resume
<1>2. CASE Input
  BY <1>2 DEF Input
<1>3. CASE Settle
  <2>1. CASE Fires
    BY <1>3, <2>1, EndsState DEF Settle
  <2>2. CASE ~Fires
    BY <1>3, <2>2 DEF Settle
  <2> QED BY <2>1, <2>2
<1>4. CASE Exit
  BY <1>4, EndsState DEF Exit
<1>5. CASE HoldGrace
  BY <1>5 DEF HoldGrace
<1>6. CASE HoldWhenIdle
  BY <1>6, ArmInv DEF HoldWhenIdle, LatchRequest
<1>7. CASE Expire
  BY <1>7, ExpireInv
<1>8. CASE Reap
  BY <1>8, EndsState DEF Reap
<1>9. CASE \E l \in LatchRequest : StopWhenIdle(l)
  BY <1>9, ArmInv DEF StopWhenIdle
<1>10. CASE \E delete \in BOOLEAN : StopNow(delete)
  BY <1>10, DiscardedState DEF StopNow
<1>11. CASE \E c \in Clients : Subscribe(c)
  BY <1>11 DEF Subscribe
<1>12. CASE \E c \in Clients : Unsubscribe(c) \/ HandleWsClose(c)
  BY <1>12 DEF Unsubscribe, HandleWsClose
<1>13. CASE \E c \in Clients : Connect(c) \/ Close(c)
  BY <1>13 DEF Connect, Close
<1>14. CASE UNCHANGED holdVars
  BY <1>14 DEF holdVars
<1> QED
  BY <1>1, <1>2, <1>3, <1>4, <1>5, <1>6, <1>7, <1>8, <1>9, <1>10, <1>11, <1>12, <1>13, <1>14
  DEF HoldNext

-----------------------------------------------------------------------------
(* The counts.                                                             *)

LEMMA BumpType ==
  ASSUME NEW n \in 0..MaxDefers + 1
  PROVE  Bump(n) \in 0..MaxDefers + 1
  BY MaxDefersAssumption DEF MaxDefersAssumption, Bump

\* A step leaves every count alone, clears it, or counts one expiry.
CountsMove ==
  /\ \/ defers' \in {defers, 0}
     \/ Defers /\ defers' = Counted
  /\ sinceWatch' \in {sinceWatch, 0, Bump(sinceWatch)}
  /\ inTurn' \in {inTurn, 0, Bump(inTurn)}

LEMMA StepCounts == [HoldNext]_holdVars => CountsMove
<1> SUFFICES ASSUME [HoldNext]_holdVars PROVE CountsMove
  OBVIOUS
<1> USE DEF CountsMove, ghosts
<1>1. CASE Resume \/ Input \/ HoldGrace
  BY <1>1 DEF Resume, Input, HoldGrace
<1>2. CASE Settle \/ Exit \/ Reap
  BY <1>2 DEF Settle, Exit, Reap, Ends
<1>3. ASSUME NEW l \in LatchRequest, Arm(l) PROVE CountsMove
  BY <1>3 DEF Arm, Discarded
<1>4. CASE HoldWhenIdle \/ \E l \in LatchRequest : StopWhenIdle(l)
  BY <1>3, <1>4 DEF HoldWhenIdle, StopWhenIdle, LatchRequest
<1>5. CASE \E delete \in BOOLEAN : StopNow(delete)
  BY <1>5 DEF StopNow, Discarded
<1>6. CASE Expire
  BY <1>6 DEF Expire, Ends
<1>7. CASE \E c \in Clients : Subscribe(c) \/ Unsubscribe(c) \/ HandleWsClose(c)
  BY <1>7 DEF Subscribe, Unsubscribe, HandleWsClose
<1>8. CASE \E c \in Clients : Connect(c) \/ Close(c)
  BY <1>8 DEF Connect, Close
<1>9. CASE UNCHANGED holdVars
  BY <1>9 DEF holdVars
<1> QED
  BY <1>1, <1>2, <1>4, <1>5, <1>6, <1>7, <1>8, <1>9 DEF HoldNext

LEMMA CountsStep == HoldCounts /\ [HoldNext]_holdVars => HoldCounts'
<1> SUFFICES ASSUME HoldCounts, CountsMove PROVE HoldCounts'
  BY StepCounts
<1>1. defers' \in 0..MaxDefers
  BY MaxDefersAssumption DEF MaxDefersAssumption, HoldCounts, CountsMove, Defers, Counted
<1>2. sinceWatch' \in 0..MaxDefers + 1 /\ inTurn' \in 0..MaxDefers + 1
  BY MaxDefersAssumption, BumpType DEF MaxDefersAssumption, HoldCounts, CountsMove
<1> QED BY <1>1, <1>2 DEF HoldCounts

-----------------------------------------------------------------------------
(* The theorems.                                                           *)

\* The state of the hold machinery is well formed: one request at most is
\* latched, and a session is deferred GRACE_MAX_DEFERS times at most.
THEOREM HoldTyped == HoldSpec => []HoldTypeOK
<1>1. HoldInit => HoldInv /\ HoldCounts
  <2>1. HoldInit => HoldInv
    BY DEF HoldInit, HoldInv, HoldStates, NeverBothArmed, LatchAwaitsTurn
  <2>2. HoldInit => HoldCounts
    BY MaxDefersAssumption DEF MaxDefersAssumption, HoldInit, HoldCounts
  <2> QED BY <2>1, <2>2
<1>2. HoldInv /\ HoldCounts /\ [HoldNext]_holdVars => HoldInv' /\ HoldCounts'
  BY HoldStepInv, CountsStep
<1>3. HoldInv /\ HoldCounts => HoldTypeOK
  BY DEF HoldInv, HoldTypeOK
<1> QED
  BY <1>1, <1>2, <1>3, PTL DEF HoldSpec

\* startGraceTimer and armHoldWhenIdle take each other off: whichever way
\* requests, expiries, watchers and exits follow each other, the timer and the
\* latch are never both armed, and a latch never outlives its turn.
THEOREM HoldsStayExclusive == HoldSpec => []HoldsExclusive
<1>1. HoldInit => HoldInv
  BY DEF HoldInit, HoldInv, HoldStates, NeverBothArmed, LatchAwaitsTurn
<1>2. HoldInv => HoldsExclusive
  BY DEF HoldInv, HoldsExclusive
<1> QED
  BY <1>1, <1>2, HoldStepInv, PTL DEF HoldSpec

\* A stop that ignores watchers (handleStopSessionWhenIdle) is kept: its latch
\* goes with the session, or a later request takes its place; no watcher who
\* comes later takes it off.
THEOREM PromisesKept == HoldSpec => KillPromiseKept
<1> DEFINE Kept == (\E l \in latch : l.ignoreWatchers) /\ latch' # latch
                     => pty' = "none" \/ grace' \/ latch' # {}
<1>1. ASSUME HoldNext, \E l \in latch : l.ignoreWatchers, latch' # latch
      PROVE  pty' = "none" \/ grace' \/ latch' # {}
  <2>1. Fires
    BY <1>1 DEF Fires
  <2>2. CASE Resume \/ Input
    BY <1>1, <2>2 DEF Resume, Input
  <2>3. CASE Settle \/ Exit \/ Reap
    BY <2>1, <2>3 DEF Settle, Exit, Reap, Ends
  <2>4. CASE HoldGrace
    BY <2>4 DEF HoldGrace
  <2>5. ASSUME NEW l \in LatchRequest, Arm(l)
        PROVE  pty' = "none" \/ latch' # {}
    BY <2>5 DEF Arm, Discarded
  <2>6. CASE HoldWhenIdle \/ \E l \in LatchRequest : StopWhenIdle(l)
    BY <2>5, <2>6 DEF HoldWhenIdle, StopWhenIdle, LatchRequest
  <2>7. CASE \E delete \in BOOLEAN : StopNow(delete)
    BY <2>7 DEF StopNow, Discarded
  <2>8. CASE Expire
    <3>1. CASE pty = "running" /\ Defers
      BY <2>8, <3>1 DEF Expire
    <3>2. CASE ~(pty = "running" /\ Defers) /\ pty = "none"
      BY <2>8, <3>2 DEF Expire
    <3>3. CASE ~(pty = "running" /\ Defers) /\ pty # "none"
      BY <2>8, <3>3 DEF Expire, Ends
    <3> QED BY <3>1, <3>2, <3>3
  <2>9. CASE \E c \in Clients : Subscribe(c)
    BY <1>1, <2>9 DEF Subscribe
  <2>10. CASE \E c \in Clients : \/ Unsubscribe(c) \/ HandleWsClose(c)
                                 \/ Connect(c) \/ Close(c)
    BY <1>1, <2>10 DEF Unsubscribe, HandleWsClose, Connect, Close
  <2> QED
    BY <1>1, <2>2, <2>3, <2>4, <2>6, <2>7, <2>8, <2>9, <2>10 DEF HoldNext
<1>2. [HoldNext]_holdVars => [Kept]_holdVars
  BY <1>1
<1> QED
  BY <1>2, PTL DEF HoldSpec, KillPromiseKept

\* The expiries since the last watcher account for every defer.
DefersAreSeen == defers <= sinceWatch

LEMMA DefersStep ==
  ASSUME HoldCounts, DefersAreSeen, [HoldNext]_holdVars
  PROVE  DefersAreSeen'
<1> USE MaxDefersAssumption DEF MaxDefersAssumption, HoldCounts, DefersAreSeen
<1>1. CASE Resume \/ Input \/ HoldGrace
  BY <1>1 DEF Resume, Input, HoldGrace, ghosts
<1>2. CASE Settle \/ Exit \/ Reap
  BY <1>2 DEF Settle, Exit, Reap
<1>3. ASSUME NEW l \in LatchRequest, Arm(l) PROVE DefersAreSeen'
  BY <1>3 DEF Arm
<1>4. CASE HoldWhenIdle \/ \E l \in LatchRequest : StopWhenIdle(l)
  BY <1>3, <1>4 DEF HoldWhenIdle, StopWhenIdle, LatchRequest
<1>5. CASE \E delete \in BOOLEAN : StopNow(delete)
  BY <1>5 DEF StopNow
<1>6. CASE Expire
  <2>1. sinceWatch' \in {sinceWatch, Bump(sinceWatch)} /\ sinceWatch <= sinceWatch'
    BY <1>6 DEF Expire, Bump
  <2>2. CASE pty = "running" /\ Defers
    BY <1>6, <2>2 DEF Expire, Defers, Counted, Bump
  <2>3. CASE ~(pty = "running" /\ Defers)
    <3>1. defers' = 0
      BY <1>6, <2>3 DEF Expire
    <3> QED
      BY <2>1, <3>1
  <2> QED
    BY <2>2, <2>3
<1>7. CASE \E c \in Clients : Subscribe(c) \/ Unsubscribe(c) \/ HandleWsClose(c)
  BY <1>7 DEF Subscribe, Unsubscribe, HandleWsClose, ghosts
<1>8. CASE \E c \in Clients : Connect(c) \/ Close(c)
  BY <1>8 DEF Connect, Close, ghosts
<1>9. CASE UNCHANGED holdVars
  BY <1>9 DEF holdVars, ghosts
<1> QED
  BY <1>1, <1>2, <1>4, <1>5, <1>6, <1>7, <1>8, <1>9 DEF HoldNext

\* A turn under way ends for a reason: its process exits, someone stops it, a latch that
\* may fire fires, or the grace timer has found it running as often as GRACE_MAX_DEFERS
\* allows since somebody last watched (startGraceTimer, maybeFireHoldWhenIdle).  The
\* reaper and closing sockets never do it.
THEOREM TurnsEndForAReason == HoldSpec => RunningEndsForAReason
<1> DEFINE Reason == \/ Exit
                     \/ \E delete \in BOOLEAN : StopNow(delete)
                     \/ GraceCut /\ sinceWatch >= MaxDefers
                     \/ \E l \in latch : l.ignoreWatchers \/ ~Watched
<1>1. ASSUME HoldCounts, DefersAreSeen, HoldNext, pty = "running", pty' = "none"
      PROVE  Reason
  <2> USE <1>1
  <2>1. CASE Resume \/ Input \/ HoldGrace \/ Reap
    BY <2>1 DEF Resume, Input, HoldGrace, Reap
  <2>2. CASE Settle
    BY <2>2 DEF Settle, Fires
  <2>3. CASE Exit \/ \E delete \in BOOLEAN : StopNow(delete)
    BY <2>3
  <2>4. ASSUME NEW l \in LatchRequest PROVE ~Arm(l)
    BY DEF Arm
  <2>5. CASE HoldWhenIdle \/ \E l \in LatchRequest : StopWhenIdle(l)
    BY <2>4, <2>5 DEF HoldWhenIdle, StopWhenIdle, LatchRequest
  <2>6. CASE Expire
    <3>1. ~Defers
      BY <2>6 DEF Expire
    <3>2. sinceWatch >= MaxDefers
      BY <3>1, MaxDefersAssumption
      DEF MaxDefersAssumption, Defers, HoldCounts, DefersAreSeen
    <3> QED
      BY <2>6, <3>2 DEF GraceCut
  <2>7. CASE \E c \in Clients : \/ Subscribe(c) \/ Unsubscribe(c) \/ HandleWsClose(c)
                                \/ Connect(c) \/ Close(c)
    BY <2>7 DEF Subscribe, Unsubscribe, HandleWsClose, Connect, Close
  <2> QED
    BY <2>1, <2>2, <2>3, <2>5, <2>6, <2>7 DEF HoldNext
<1>2. HoldInit => HoldCounts /\ DefersAreSeen
  BY MaxDefersAssumption DEF MaxDefersAssumption, HoldInit, HoldCounts, DefersAreSeen
<1>3. HoldCounts /\ DefersAreSeen /\ [HoldNext]_holdVars => HoldCounts' /\ DefersAreSeen'
  BY CountsStep, DefersStep
<1>4. HoldCounts /\ DefersAreSeen /\ [HoldNext]_holdVars
        => [pty = "running" /\ pty' = "none" => Reason]_holdVars
  BY <1>1
<1> QED
  BY <1>2, <1>3, <1>4, PTL DEF HoldSpec, RunningEndsForAReason

-----------------------------------------------------------------------------
(* Starting and typing.                                                    *)

\* A start that waits for its library is alone; a disposed runner holds no process.
StartsAlone ==
  /\ starts # 0 => current = 0 /\ procs < MaxStarts
  /\ disposed => current = 0

\* Of an id that is not started again too early: nobody runs untold but the process
\* that holds it, and where one holds it nobody else runs.
RunsAlone ==
  /\ alive \ told \subseteq {current}
  /\ current # 0 => alive \subseteq {current} /\ current \notin told
  /\ starts # 0 => alive = {}

\* What such a process has shown before it is taken for ready.
ShownFirst ==
  /\ \A p \in Procs : wire[p] # <<>> => p \in painted \cup gaveUp
  /\ current # 0 /\ ~pendingReady => current \in painted \cup gaveUp
  /\ current # 0 /\ marked => current \in painted

\* Nothing is typed into a process that was not spawned yet, nor into one that boots.
NothingTypedAhead ==
  /\ \A p \in Procs : procs < p => wire[p] = <<>>
  /\ \A f \in flushing : f.proc <= procs
  /\ \A s \in submits : s.proc <= procs
NothingTypedYet ==
  current # 0 /\ pendingReady =>
    /\ wire[current] = <<>>
    /\ \A f \in flushing : f.proc # current
    /\ \A s \in submits : s.proc # current

\* The texts in the queue, in the order they came.
QueueInOrder ==
  /\ Len(queue) <= Len(accepted)
  /\ \A j, k \in 1..Len(queue) : j < k => queue[j] < queue[k]
  /\ current # 0 =>
       \A k \in 1..Len(queue) : accepted[queue[k]].proc = current /\ accepted[queue[k]].queued

\* Those that wait for their turn, behind what was typed.
FlushInOrder ==
  /\ \A f \in flushing : accepted[f.input].proc = f.proc /\ accepted[f.input].queued
  /\ \A f, g \in flushing : f.proc = g.proc =>
       /\ f.input < g.input => f.left < g.left
       /\ f.input = g.input => f = g
  /\ \A f \in flushing : f.proc = current =>
       \A k \in 1..Len(wire[current]) : IsQueued(wire[current][k]) => wire[current][k] < f.input

InputIInv ==
  /\ InputTypeOK /\ StartsAlone /\ (~overlap => RunsAlone /\ ShownFirst)
  /\ NothingTypedAhead /\ NothingTypedYet /\ QueueInOrder /\ FlushInOrder
  /\ TextsStayHome /\ QueuedTextsInOrder

USE InputConstantsAssumption DEF InputConstantsAssumption, Procs, Enter

LEMMA InputBegins == InputInit => InputIInv
<1> SUFFICES ASSUME InputInit PROVE InputIInv
  OBVIOUS
<1>1. InputTypeOK
  BY DEF InputInit, InputTypeOK, Texts
<1>2. StartsAlone /\ RunsAlone /\ ShownFirst /\ NothingTypedAhead /\ NothingTypedYet /\ FlushInOrder
  BY DEF InputInit, StartsAlone, RunsAlone, ShownFirst, NothingTypedAhead, NothingTypedYet, FlushInOrder
<1>3. QueueInOrder /\ TextsStayHome /\ QueuedTextsInOrder
  BY DEF InputInit, QueueInOrder, TextsStayHome, QueuedTextsInOrder
<1> QED
  BY <1>1, <1>2, <1>3 DEF InputIInv

LEMMA InputFollows == InputIInv => InputInv
<1> SUFFICES ASSUME InputIInv PROVE InputInv
  OBVIOUS
<1>1. procs \in Nat /\ current \in Nat /\ 0 \notin alive
  BY DEF InputIInv, InputTypeOK
<1>2. OneProcessApart
  <2> SUFFICES ASSUME ~overlap PROVE Cardinality(alive \ told) <= 1
    BY DEF OneProcessApart, OneProcess
  <2>1. alive \ told \subseteq {current}
    BY DEF InputIInv, RunsAlone
  <2>2. IsFiniteSet({current}) /\ Cardinality({current}) = 1
    BY FS_Singleton
  <2> QED
    BY <2>1, <2>2, FS_Subset
<1>3. NothingOutlivesDispose
  BY <1>1 DEF InputIInv, StartsAlone, RunsAlone, NothingOutlivesDispose
<1>4. NothingTypedWhileBooting
  BY DEF InputIInv, ShownFirst, NothingTypedWhileBooting
<1> QED
  BY <1>2, <1>3, <1>4 DEF InputIInv, InputInv, QueuedInOrder

\* The steps that type nothing.
LEMMA StartKeeps ==
  ASSUME InputIInv, UNCHANGED overlap, Start \/ Refused \/ SpawnThrows
  PROVE  InputIInv'
<1>1. /\ UNCHANGED <<procs, alive, told, current, disposed, boot, typing>>
      /\ starts' \in 0..1
      /\ starts' # 0 => current = 0 /\ procs < MaxStarts /\ (~overlap => alive \subseteq {0})
  BY DEF InputIInv, InputTypeOK, StartsAlone, RunsAlone, Start, Refused, SpawnThrows
<1> USE <1>1 DEF InputIInv, boot, typing
<1>2. InputTypeOK'
  BY DEF InputTypeOK, Texts
<1>3. StartsAlone' /\ (~overlap' => RunsAlone' /\ ShownFirst')
  BY DEF InputTypeOK, StartsAlone, RunsAlone, ShownFirst
<1>4. NothingTypedAhead' /\ NothingTypedYet' /\ QueueInOrder' /\ FlushInOrder'
  BY DEF NothingTypedAhead, NothingTypedYet, QueueInOrder, FlushInOrder, IsQueued
<1>5. TextsStayHome' /\ QueuedTextsInOrder'
  BY DEF TextsStayHome, QueuedTextsInOrder, IsQueued
<1> QED
  BY <1>2, <1>3, <1>4, <1>5

LEMMA SpawnKeeps ==
  ASSUME InputIInv, UNCHANGED overlap, Spawn
  PROVE  InputIInv'
<1> USE DEF InputIInv, Spawn, typing
<1>1. procs \in Nat /\ procs < MaxStarts /\ starts = 1 /\ current = 0
  BY DEF InputTypeOK, StartsAlone
<1>2. InputTypeOK'
  BY <1>1, SMTT(40) DEF InputTypeOK, StartsAlone, Texts
<1>3. StartsAlone' /\ (~overlap' => RunsAlone' /\ ShownFirst')
  BY <1>1 DEF InputTypeOK, StartsAlone, RunsAlone, ShownFirst, NothingTypedAhead, NothingTypedYet
<1>4. NothingTypedAhead' /\ NothingTypedYet'
  BY <1>1, SMTT(30) DEF InputTypeOK, NothingTypedAhead, NothingTypedYet
<1>5. QueueInOrder'
  BY <1>1 DEF InputTypeOK, StartsAlone, QueueInOrder
<1>6. FlushInOrder'
  BY <1>1 DEF InputTypeOK, FlushInOrder, NothingTypedAhead, NothingTypedYet, IsQueued
<1>7. TextsStayHome' /\ QueuedTextsInOrder'
  BY DEF TextsStayHome, QueuedTextsInOrder, IsQueued
<1> QED
  BY <1>2, <1>3, <1>4, <1>5, <1>6, <1>7

\* The process that held the id is gone.
LEMMA EndKeeps ==
  ASSUME InputIInv, UNCHANGED overlap, UNCHANGED <<starts, procs, marked, painted, gaveUp>>,
         UNCHANGED <<accepted, flushing, submits, wire>>,
         current' = 0, told' \subseteq 1..procs, alive' \subseteq alive,
         ~overlap => alive' \ told' = {},
         disposed => disposed',
         \/ queue' = <<>>
         \/ queue' = queue /\ (queue # <<>> => disposed')
  PROVE  InputIInv'
<1> USE DEF InputIInv
<1>1. InputTypeOK'
  <2>1. Texts' = Texts /\ queue \in Seq(Texts)
    BY DEF InputTypeOK, Texts
  <2>2. queue' \in Seq(Texts)'
    <3>1. <<>> \in Seq(Texts)
      OBVIOUS
    <3> QED
      BY <2>1, <3>1
  <2>3. queue' # <<>> => disposed'
    OBVIOUS
  <2> QED
    BY <2>1, <2>2, <2>3 DEF InputTypeOK
<1>2. StartsAlone' /\ (~overlap' => RunsAlone' /\ ShownFirst')
  BY DEF InputTypeOK, StartsAlone, RunsAlone, ShownFirst
<1>3. NothingTypedAhead' /\ NothingTypedYet'
  BY DEF InputTypeOK, NothingTypedAhead, NothingTypedYet
<1>4. QueueInOrder'
  BY SMTT(30) DEF InputTypeOK, QueueInOrder
<1>5. FlushInOrder'
  BY DEF InputTypeOK, FlushInOrder, NothingTypedAhead, NothingTypedYet, IsQueued
<1>6. TextsStayHome' /\ QueuedTextsInOrder'
  BY DEF TextsStayHome, QueuedTextsInOrder, IsQueued
<1> QED
  BY <1>1, <1>2, <1>3, <1>4, <1>5, <1>6

LEMMA EndsKeep ==
  ASSUME InputIInv, UNCHANGED overlap, PutOnHold \/ Dispose \/ \E p \in Procs : HandleExit(p)
  PROVE  InputIInv'
<1>1. procs \in Nat /\ current \in 0..procs /\ alive \subseteq 1..procs /\ told \subseteq 1..procs
  BY DEF InputIInv, InputTypeOK
<1>2. ~overlap => alive \ told \subseteq {current} /\ (current # 0 => alive \subseteq {current})
  BY DEF InputIInv, RunsAlone
<1>3. queue # <<>> => disposed \/ current # 0
  BY DEF InputIInv, InputTypeOK
<1>4. CASE PutOnHold
  <2>1. alive' \ told' = (alive \ told) \ {current} /\ told' \subseteq 1..procs
    BY <1>1, <1>4 DEF PutOnHold
  <2>2. /\ UNCHANGED <<starts, procs, marked, painted, gaveUp>>
        /\ UNCHANGED <<accepted, flushing, submits, wire>>
        /\ current' = 0 /\ alive' = alive /\ disposed' = disposed /\ queue' = <<>>
    BY <1>4 DEF PutOnHold
  <2> QED
    BY <1>1, <1>2, <2>1, <2>2, EndKeeps
<1>5. CASE Dispose
  <2>1. alive' \ told' = (alive \ told) \ ({current} \ {0}) /\ told' \subseteq 1..procs
    BY <1>1, <1>5 DEF Dispose
  <2>2. /\ UNCHANGED <<starts, procs, marked, painted, gaveUp>>
        /\ UNCHANGED <<accepted, flushing, submits, wire>>
        /\ current' = 0 /\ alive' = alive /\ disposed' /\ queue' = queue
    BY <1>5 DEF Dispose
  <2>3. ASSUME ~overlap PROVE alive' \ told' = {}
    <3>1. alive \ told \subseteq {current}
      BY <1>2, <2>3
    <3>2. 0 \notin alive
      BY <1>1
    <3> QED
      BY <2>1, <3>1, <3>2
  <2> QED
    BY <1>1, <2>1, <2>2, <2>3, EndKeeps
<1>6. ASSUME NEW p \in Procs, HandleExit(p) PROVE InputIInv'
  <2>1. /\ UNCHANGED <<starts, procs, marked, painted, gaveUp>>
        /\ UNCHANGED <<accepted, flushing, submits, wire>>
        /\ current' = 0 /\ alive' = alive \ {p} /\ told' = told /\ disposed' = disposed
        /\ p \in alive
        /\ queue' = IF current = 0 THEN queue ELSE <<>>
    BY <1>6 DEF HandleExit
  <2>2. ASSUME ~overlap PROVE alive' \ told' = {}
    <3>1. alive \ told \subseteq {current} /\ (current # 0 => alive \subseteq {current})
      BY <1>2, <2>2
    <3>2. 0 \notin alive /\ alive' = alive \ {p} /\ told' = told /\ p \in alive
      BY <1>1, <2>1
    <3> QED
      BY <3>1, <3>2
  <2>3. queue' = <<>> \/ (queue' = queue /\ (queue # <<>> => disposed'))
    BY <1>3, <2>1
  <2> QED
    BY <1>1, <2>1, <2>2, <2>3, EndKeeps
<1> QED
  BY <1>4, <1>5, <1>6

\* What was typed before stays; what is typed is the process's own, and a queued text
\* comes behind those typed before it.
LEMMA TypingKeeps ==
  ASSUME InputIInv, current # 0, current' = current, NEW x \in {Enter} \cup Texts',
         Texts \subseteq Texts', \A i \in Texts : accepted'[i] = accepted[i],
         wire' = [wire EXCEPT ![current] = Append(@, x)],
         x # Enter => accepted'[x].proc = current,
         x # Enter /\ accepted'[x].queued =>
           \A k \in 1..Len(wire[current]) : IsQueued(wire[current][k]) => wire[current][k] < x
  PROVE  /\ wire' \in [Procs -> Seq({Enter} \cup Texts')]
         /\ TextsStayHome' /\ QueuedTextsInOrder'
         /\ \A p \in Procs : p # current => wire'[p] = wire[p]
         /\ Len(wire'[current]) = Len(wire[current]) + 1 /\ Len(wire[current]) \in Nat
         /\ wire'[current][Len(wire[current]) + 1] = x
         /\ \A k \in 1..Len(wire[current]) : wire'[current][k] = wire[current][k]
<1>1. current \in Procs /\ wire \in [Procs -> Seq({Enter} \cup Texts)]
  BY DEF InputIInv, InputTypeOK
<1> DEFINE w == wire[current]
           v == Append(w, x)
<1>2. w \in Seq({Enter} \cup Texts') /\ wire \in [Procs -> Seq({Enter} \cup Texts')]
  BY <1>1
<1>3. /\ v \in Seq({Enter} \cup Texts') /\ Len(v) = Len(w) + 1 /\ Len(w) \in Nat
      /\ v[Len(w) + 1] = x /\ \A k \in 1..Len(w) : v[k] = w[k]
  BY <1>2
<1>4. wire' = [wire EXCEPT ![current] = v]
  OBVIOUS
<1> HIDE DEF v
<1>5. wire'[current] = v /\ \A p \in Procs : p # current => wire'[p] = wire[p]
  BY <1>1, <1>4
<1>6. wire' \in [Procs -> Seq({Enter} \cup Texts')]
  BY <1>2, <1>3, <1>4
<1> HIDE DEF w
<1>7. \A p \in Procs : \A k \in 1..Len(wire[p]) :
        wire[p][k] # Enter => accepted'[wire[p][k]] = accepted[wire[p][k]]
  <2>1. \A p \in Procs : \A k \in 1..Len(wire[p]) : wire[p][k] \in {Enter} \cup Texts
    BY <1>1
  <2> QED
    BY <2>1
<1>8. TextsStayHome'
  <2> SUFFICES ASSUME NEW p \in Procs, NEW k \in 1..Len(wire'[p]), wire'[p][k] # Enter
               PROVE  accepted'[wire'[p][k]].proc = p
    BY DEF TextsStayHome
  <2>1. CASE p # current
    BY <1>5, <1>7, <2>1 DEF InputIInv, TextsStayHome
  <2>2. CASE p = current /\ k \in 1..Len(w)
    BY <1>3, <1>5, <1>7, <2>2 DEF InputIInv, TextsStayHome, w
  <2>3. CASE p = current /\ k = Len(w) + 1
    BY <1>3, <1>5, <2>3
  <2> QED
    BY <1>3, <1>5, <2>1, <2>2, <2>3
<1>9. QueuedTextsInOrder'
  <2> SUFFICES ASSUME NEW p \in Procs, NEW j \in 1..Len(wire'[p]), NEW k \in 1..Len(wire'[p]),
                      j < k, wire'[p][j] # Enter, accepted'[wire'[p][j]].queued,
                      wire'[p][k] # Enter, accepted'[wire'[p][k]].queued
               PROVE  wire'[p][j] < wire'[p][k]
    BY DEF QueuedTextsInOrder, IsQueued
  <2>1. CASE p # current
    <3>1. wire'[p] = wire[p]
      BY <1>5, <2>1
    <3>2. IsQueued(wire[p][j]) /\ IsQueued(wire[p][k])
      BY <1>7, <3>1, ZenonT(40) DEF IsQueued
    <3> QED
      BY <3>1, <3>2 DEF InputIInv, QueuedTextsInOrder
  <2>2. CASE p = current /\ k \in 1..Len(w)
    <3>1. j \in 1..Len(w) /\ wire'[p][j] = wire[p][j] /\ wire'[p][k] = wire[p][k]
      BY <1>3, <1>5, <2>2 DEF w
    <3>2. IsQueued(wire[p][j]) /\ IsQueued(wire[p][k])
      BY <1>7, <2>2, <3>1 DEF IsQueued, w
    <3> QED
      BY <2>2, <3>1, <3>2 DEF InputIInv, QueuedTextsInOrder, w
  <2>3. CASE p = current /\ k = Len(w) + 1
    <3>1. j \in 1..Len(w) /\ wire'[p][j] = wire[p][j] /\ wire'[p][k] = x
      BY <1>3, <1>5, <2>3 DEF w
    <3>2. IsQueued(wire[p][j])
      BY <1>7, <2>3, <3>1 DEF IsQueued, w
    <3> QED
      BY <2>3, <3>1, <3>2 DEF w
  <2> QED
    BY <1>3, <1>5, <2>1, <2>2, <2>3
<1> QED
  BY <1>3, <1>5, <1>6, <1>8, <1>9 DEF w

\* The Enter of a text, when its poll lets it.
LEMMA PollKeeps ==
  ASSUME InputIInv, UNCHANGED overlap, NEW s \in submits, Poll(s)
  PROVE  InputIInv'
<1> USE DEF InputIInv, boot, session
<1>1. /\ UNCHANGED <<session, boot, accepted, queue, flushing, recent, noisy>>
      /\ procs \in Nat /\ current \in 0..procs
      /\ s \in [proc : Procs, input : Texts, age : 0..MaxWait, due : BOOLEAN]
      /\ s.proc <= procs /\ (current # 0 /\ pendingReady => s.proc # current)
  BY DEF Poll, InputTypeOK, NothingTypedAhead, NothingTypedYet
<1>2. Again(s) \in [proc : Procs, input : Texts, age : 0..MaxWait, due : BOOLEAN]
      /\ Again(s).proc = s.proc
  BY <1>1 DEF Again
<1>3. submits' \subseteq submits \cup {Again(s)}
  BY DEF Poll
<1>4. CASE wire' = wire
  <2>1. InputTypeOK'
    BY <1>1, <1>2, <1>3, <1>4 DEF InputTypeOK, Texts
  <2>2. StartsAlone' /\ (~overlap' => RunsAlone' /\ ShownFirst')
    BY <1>1, <1>4 DEF StartsAlone, RunsAlone, ShownFirst
  <2>3. NothingTypedAhead' /\ NothingTypedYet'
    BY <1>1, <1>2, <1>3, <1>4 DEF NothingTypedAhead, NothingTypedYet
  <2>4. QueueInOrder' /\ FlushInOrder' /\ TextsStayHome' /\ QueuedTextsInOrder'
    BY <1>1, <1>4 DEF QueueInOrder, FlushInOrder, TextsStayHome, QueuedTextsInOrder, IsQueued
  <2> QED
    BY <2>1, <2>2, <2>3, <2>4
<1>5. CASE s.proc = current /\ wire' = [wire EXCEPT ![current] = Append(@, Enter)]
  <2>1. current # 0 /\ Enter \in {Enter} \cup Texts /\ ~IsQueued(Enter) /\ ~pendingReady
    BY <1>1, <1>5 DEF IsQueued
  <2>2. /\ wire' \in [Procs -> Seq({Enter} \cup Texts')]
        /\ TextsStayHome' /\ QueuedTextsInOrder'
        /\ \A p \in Procs : p # current => wire'[p] = wire[p]
        /\ Len(wire'[current]) = Len(wire[current]) + 1 /\ Len(wire[current]) \in Nat
        /\ wire'[current][Len(wire[current]) + 1] = Enter
        /\ \A k \in 1..Len(wire[current]) : wire'[current][k] = wire[current][k]
    <3>1. Texts' = Texts /\ accepted' = accepted /\ current' = current
      BY <1>1 DEF Texts
    <3> QED
      BY <1>5, <2>1, <3>1, TypingKeeps
  <2>3. InputTypeOK'
    BY <1>1, <1>2, <1>3, <2>2 DEF InputTypeOK, Texts
  <2>4. StartsAlone' /\ (~overlap' => RunsAlone' /\ ShownFirst')
    BY <1>1, <2>1, <2>2 DEF StartsAlone, RunsAlone, ShownFirst
  <2>5. NothingTypedAhead' /\ NothingTypedYet'
    <3>1. ASSUME NEW p \in Procs, procs < p PROVE wire'[p] = <<>>
      <4>1. p # current
        BY <1>1, <3>1
      <4>2. wire[p] = <<>>
        BY <3>1 DEF NothingTypedAhead
      <4> QED
        BY <2>2, <4>1, <4>2
    <3>2. \A t \in submits' : t.proc <= procs
      BY <1>1, <1>2, <1>3 DEF NothingTypedAhead
    <3> QED
      BY <1>1, <2>1, <3>1, <3>2 DEF NothingTypedAhead, NothingTypedYet
  <2>6. QueueInOrder'
    BY <1>1 DEF QueueInOrder
  <2>7. FlushInOrder'
    <3> SUFFICES ASSUME NEW f \in flushing, f.proc = current, NEW k \in 1..Len(wire'[current]),
                        IsQueued(wire'[current][k])
                 PROVE  wire'[current][k] < f.input
      BY <1>1 DEF FlushInOrder, IsQueued
    <3>1. k \in 1..Len(wire[current]) \/ wire'[current][k] = Enter
      BY <2>2
    <3>2. k \in 1..Len(wire[current]) /\ wire'[current][k] = wire[current][k]
      BY <2>1, <2>2, <3>1
    <3> QED
      BY <3>2 DEF FlushInOrder
  <2> QED
    BY <2>2, <2>3, <2>4, <2>5, <2>6, <2>7
<1> QED
  BY <1>4, <1>5 DEF Poll

\* sendInput, of a session that boots and of one that is ready.
LEMMA AcceptKeeps ==
  ASSUME InputIInv, NEW flag \in BOOLEAN, Accept(flag), current # 0, Len(accepted) < MaxInputs
  PROVE  /\ accepted' \in Seq([proc : Procs, queued : BOOLEAN])
         /\ Len(accepted') = Len(accepted) + 1 /\ Len(accepted) \in Nat
         /\ Texts \subseteq Texts' /\ Len(accepted) + 1 \in Texts'
         /\ \A i \in Texts : accepted'[i] = accepted[i]
         /\ accepted'[Len(accepted) + 1].proc = current
         /\ accepted'[Len(accepted) + 1].queued = flag
<1> DEFINE a == [proc |-> current, queued |-> flag]
<1>1. current \in Procs /\ accepted \in Seq([proc : Procs, queued : BOOLEAN])
  BY DEF InputIInv, InputTypeOK
<1>2. a \in [proc : Procs, queued : BOOLEAN] /\ a.proc = current /\ a.queued = flag
  BY <1>1
<1>3. accepted' = Append(accepted, a)
  BY DEF Accept
<1> HIDE DEF a
<1>4. /\ accepted' \in Seq([proc : Procs, queued : BOOLEAN])
      /\ Len(accepted') = Len(accepted) + 1 /\ Len(accepted) \in Nat
      /\ \A i \in 1..Len(accepted) : accepted'[i] = accepted[i]
      /\ accepted'[Len(accepted) + 1] = a
  BY <1>1, <1>2, <1>3
<1> QED
  BY <1>2, <1>4 DEF Texts

LEMMA QueueKeeps ==
  ASSUME InputIInv, UNCHANGED overlap, SendQueued
  PROVE  InputIInv'
<1> USE DEF InputIInv, boot, session
<1> DEFINE i == Len(accepted) + 1
<1>1. /\ UNCHANGED <<session, boot, flushing, submits, wire>>
      /\ current # 0 /\ pendingReady /\ Len(accepted) < MaxInputs
      /\ queue' = Append(queue, i) /\ Accept(TRUE)
  BY DEF SendQueued
<1>2. /\ accepted' \in Seq([proc : Procs, queued : BOOLEAN])
      /\ Len(accepted') = i /\ Len(accepted) \in Nat
      /\ Texts \subseteq Texts' /\ i \in Texts'
      /\ \A k \in Texts : accepted'[k] = accepted[k]
      /\ accepted'[i].proc = current
      /\ accepted'[i].queued
  BY <1>1, AcceptKeeps
<1>3. /\ queue \in Seq(Texts) /\ Len(queue) \in Nat /\ Len(queue) <= Len(accepted)
      /\ \A k \in 1..Len(queue) : queue[k] \in Texts
      /\ wire \in [Procs -> Seq({Enter} \cup Texts)]
      /\ \A p \in Procs : \A k \in 1..Len(wire[p]) : wire[p][k] \in {Enter} \cup Texts
  BY DEF InputTypeOK, QueueInOrder
<1>4. /\ queue' \in Seq(Texts') /\ Len(queue') = Len(queue) + 1
      /\ queue'[Len(queue) + 1] = i
      /\ \A k \in 1..Len(queue) : queue'[k] = queue[k]
  <2>1. queue \in Seq(Texts')
    BY <1>2, <1>3
  <2> QED
    BY <1>1, <1>2, <2>1
<1>5. InputTypeOK'
  <2>1. wire' \in [Procs -> Seq({Enter} \cup Texts')]
    BY <1>1, <1>2, <1>3
  <2>2. flushing' \subseteq [proc : Procs, input : Texts', left : 0..2 * MaxInputs]
    BY <1>1, <1>2 DEF InputTypeOK
  <2>3. submits' \subseteq [proc : Procs, input : Texts', age : 0..MaxWait, due : BOOLEAN]
    BY <1>1, <1>2 DEF InputTypeOK
  <2>4. queue' # <<>> => disposed' \/ (current' # 0 /\ pendingReady')
    BY <1>1
  <2>5. Len(accepted') <= MaxInputs
    BY <1>1, <1>2
  <2>6. /\ starts' \in 0..1 /\ procs' \in 0..MaxStarts
        /\ alive' \subseteq 1..procs' /\ told' \subseteq 1..procs'
        /\ current' \in {0, procs'}
        /\ painted' \subseteq 1..procs' /\ gaveUp' \subseteq 1..procs'
    BY <1>1 DEF InputTypeOK
  <2> QED
    BY <1>2, <1>4, <2>1, <2>2, <2>3, <2>4, <2>5, <2>6 DEF InputTypeOK
<1>6. StartsAlone' /\ (~overlap' => RunsAlone' /\ ShownFirst')
  BY <1>1 DEF StartsAlone, RunsAlone, ShownFirst
<1>7. NothingTypedAhead' /\ NothingTypedYet'
  BY <1>1 DEF NothingTypedAhead, NothingTypedYet
<1>8. QueueInOrder'
  <2>1. Len(queue') <= Len(accepted')
    BY <1>2, <1>3, <1>4
  <2>2. ASSUME NEW j \in 1..Len(queue'), NEW k \in 1..Len(queue'), j < k
        PROVE  queue'[j] < queue'[k]
    <3>1. j \in 1..Len(queue) /\ queue'[j] = queue[j] /\ queue[j] \in Texts
      BY <1>3, <1>4, <2>2
    <3>2. CASE k \in 1..Len(queue)
      BY <1>4, <2>2, <3>1, <3>2 DEF QueueInOrder
    <3>3. CASE k = Len(queue) + 1
      BY <1>2, <1>4, <3>1, <3>3, SMTT(30) DEF Texts
    <3> QED
      BY <1>3, <1>4, <3>2, <3>3
  <2>3. ASSUME NEW k \in 1..Len(queue')
        PROVE  accepted'[queue'[k]].proc = current' /\ accepted'[queue'[k]].queued
    <3>1. CASE k \in 1..Len(queue)
      <4>1. accepted[queue[k]].proc = current /\ accepted[queue[k]].queued
        BY <1>1, <3>1 DEF QueueInOrder
      <4>2. queue'[k] = queue[k] /\ accepted'[queue[k]] = accepted[queue[k]]
        BY <1>2, <1>3, <1>4, <3>1
      <4> QED
        BY <1>1, <4>1, <4>2
    <3>2. CASE k = Len(queue) + 1
      BY <1>1, <1>2, <1>4, <3>2
    <3> QED
      BY <1>3, <1>4, <3>1, <3>2
  <2> QED
    BY <2>1, <2>2, <2>3 DEF QueueInOrder
<1>9. FlushInOrder'
  <2>1. \A f \in flushing : accepted'[f.input] = accepted[f.input]
    BY <1>2 DEF InputTypeOK
  <2>2. ~ \E f \in flushing : f.proc = current
    BY <1>1 DEF NothingTypedYet
  <2> QED
    BY <1>1, <2>1, <2>2 DEF FlushInOrder
<1>10. TextsStayHome' /\ QueuedTextsInOrder'
  <2>1. \A p \in Procs : \A k \in 1..Len(wire[p]) :
           wire[p][k] # Enter => accepted'[wire[p][k]] = accepted[wire[p][k]]
    BY <1>2, <1>3
  <2> QED
    BY <1>1, <2>1, ZenonT(40) DEF TextsStayHome, QueuedTextsInOrder, IsQueued
<1> QED
  BY <1>5, <1>6, <1>7, <1>8, <1>9, <1>10

\* A text is pasted, and its Enter set up.
LEMMA PasteKeeps ==
  ASSUME InputIInv, UNCHANGED overlap, UNCHANGED <<session, boot, queue>>,
         current # 0, ~pendingReady, NEW x \in Texts',
         accepted' \in Seq([proc : Procs, queued : BOOLEAN]), Len(accepted') <= MaxInputs,
         Len(accepted) <= Len(accepted'), Texts \subseteq Texts',
         \A i \in Texts : accepted'[i] = accepted[i],
         accepted'[x].proc = current,
         wire' = [wire EXCEPT ![current] = Append(@, x)],
         submits' = submits \cup {Timer(current, x)}, flushing' \subseteq flushing,
         accepted'[x].queued =>
           /\ \A k \in 1..Len(wire[current]) : IsQueued(wire[current][k]) => wire[current][k] < x
           /\ \A g \in flushing' : g.proc = current => x < g.input
  PROVE  InputIInv'
<1> USE DEF InputIInv, boot, session
<1>1. procs \in Nat /\ current \in Procs /\ current <= procs
  BY DEF InputTypeOK
<1>2. /\ wire' \in [Procs -> Seq({Enter} \cup Texts')]
      /\ TextsStayHome' /\ QueuedTextsInOrder'
      /\ \A p \in Procs : p # current => wire'[p] = wire[p]
      /\ Len(wire'[current]) = Len(wire[current]) + 1 /\ Len(wire[current]) \in Nat
      /\ wire'[current][Len(wire[current]) + 1] = x
      /\ \A k \in 1..Len(wire[current]) : wire'[current][k] = wire[current][k]
  BY TypingKeeps
<1>3. /\ Timer(current, x) \in [proc : Procs, input : Texts', age : 0..MaxWait, due : BOOLEAN]
      /\ Timer(current, x).proc = current
  BY <1>1 DEF Timer
<1>4. InputTypeOK'
  <2>1. flushing' \subseteq [proc : Procs, input : Texts', left : 0..2 * MaxInputs]
    BY DEF InputTypeOK
  <2>2. submits' \subseteq [proc : Procs, input : Texts', age : 0..MaxWait, due : BOOLEAN]
    BY <1>3 DEF InputTypeOK
  <2>3. queue' \in Seq(Texts') /\ (queue' # <<>> => disposed' \/ (current' # 0 /\ pendingReady'))
    <3>1. queue \in Seq(Texts)
      BY DEF InputTypeOK
    <3>2. queue \in Seq(Texts')
      BY <3>1
    <3> QED
      BY <3>2 DEF InputTypeOK
  <2>4. /\ starts' \in 0..1 /\ procs' \in 0..MaxStarts
        /\ alive' \subseteq 1..procs' /\ told' \subseteq 1..procs'
        /\ current' \in {0, procs'}
        /\ painted' \subseteq 1..procs' /\ gaveUp' \subseteq 1..procs'
    BY DEF InputTypeOK
  <2> QED
    BY <1>2, <2>1, <2>2, <2>3, <2>4 DEF InputTypeOK
<1>5. StartsAlone' /\ (~overlap' => RunsAlone' /\ ShownFirst')
  BY <1>2 DEF StartsAlone, RunsAlone, ShownFirst
<1>6. NothingTypedAhead' /\ NothingTypedYet'
  <2>1. ASSUME NEW p \in Procs, procs < p PROVE wire'[p] = <<>>
    <3>1. p # current
      BY <1>1, <2>1
    <3>2. wire[p] = <<>>
      BY <2>1 DEF NothingTypedAhead
    <3> QED
      BY <1>2, <3>1, <3>2
  <2>2. \A t \in submits' : t.proc <= procs
    BY <1>1, <1>3 DEF NothingTypedAhead
  <2> QED
    BY <2>1, <2>2 DEF NothingTypedAhead, NothingTypedYet
<1>7. QueueInOrder'
  <2>1. Len(queue) <= Len(accepted')
    <3>1. queue \in Seq(Texts) /\ accepted \in Seq([proc : Procs, queued : BOOLEAN])
      BY DEF InputTypeOK
    <3>2. Len(queue) \in Nat /\ Len(accepted) \in Nat /\ Len(accepted') \in Nat
      BY <3>1
    <3>3. Len(queue) <= Len(accepted)
      BY DEF QueueInOrder
    <3> QED
      BY <3>2, <3>3
  <2>2. \A k \in 1..Len(queue) : accepted'[queue[k]] = accepted[queue[k]]
    <3>1. queue \in Seq(Texts)
      BY DEF InputTypeOK
    <3>2. \A k \in 1..Len(queue) : queue[k] \in Texts
      BY <3>1
    <3> QED
      BY <3>2
  <2> QED
    BY <2>1, <2>2 DEF QueueInOrder
<1>8. FlushInOrder'
  <2>1. \A f \in flushing : accepted'[f.input] = accepted[f.input]
    BY DEF InputTypeOK
  <2>2. ASSUME NEW f \in flushing', f.proc = current, NEW k \in 1..Len(wire'[current]),
               wire'[current][k] # Enter, accepted'[wire'[current][k]].queued
        PROVE  wire'[current][k] < f.input
    <3>1. CASE k = Len(wire[current]) + 1
      BY <1>2, <2>2, <3>1
    <3>2. CASE k \in 1..Len(wire[current])
      <4>1. wire'[current][k] = wire[current][k] /\ wire[current][k] \in Texts
        <5>1. wire[current] \in Seq({Enter} \cup Texts)
          BY <1>1 DEF InputTypeOK
        <5>2. wire[current][k] \in {Enter} \cup Texts
          BY <3>2, <5>1
        <5> QED
          BY <1>2, <2>2, <3>2, <5>2
      <4>2. IsQueued(wire[current][k])
        BY <2>2, <4>1 DEF IsQueued
      <4> QED
        BY <2>2, <3>2, <4>1, <4>2 DEF FlushInOrder
    <3> QED
      BY <1>2, <3>1, <3>2
  <2> QED
    BY <2>1, <2>2 DEF FlushInOrder, IsQueued
<1> QED
  BY <1>2, <1>4, <1>5, <1>6, <1>7, <1>8

LEMMA DirectKeeps ==
  ASSUME InputIInv, UNCHANGED overlap, SendDirect
  PROVE  InputIInv'
<1> DEFINE i == Len(accepted) + 1
<1>1. /\ UNCHANGED <<session, boot, queue, flushing>>
      /\ current # 0 /\ ~pendingReady /\ Len(accepted) < MaxInputs /\ Accept(FALSE)
      /\ wire' = [wire EXCEPT ![current] = Append(@, i)]
      /\ submits' = submits \cup {Timer(current, i)}
  BY DEF SendDirect
<1>2. /\ accepted' \in Seq([proc : Procs, queued : BOOLEAN])
      /\ Len(accepted') = i /\ Len(accepted) \in Nat
      /\ Texts \subseteq Texts' /\ i \in Texts'
      /\ \A k \in Texts : accepted'[k] = accepted[k]
      /\ accepted'[i].proc = current
      /\ ~accepted'[i].queued
  BY <1>1, AcceptKeeps
<1>3. Len(accepted) <= Len(accepted') /\ Len(accepted') <= MaxInputs
  BY <1>1, <1>2
<1> HIDE DEF i
<1> QED
  BY <1>1, <1>2, <1>3, PasteKeeps DEF session, boot

LEMMA FlushNextKeeps ==
  ASSUME InputIInv, UNCHANGED overlap, NEW f \in flushing, FlushNext(f)
  PROVE  InputIInv'
<1> USE DEF boot, session
<1>1. /\ f.left = 0 /\ flushing' = flushing \ {f}
      /\ UNCHANGED <<session, boot, accepted, queue>>
  BY DEF FlushNext
<1>2. Texts' = Texts
  BY <1>1 DEF Texts
<1>3. CASE f.proc = current
  <2>1. /\ f.input \in Texts /\ f.proc \in Procs /\ f.input \in Nat
        /\ accepted[f.input].proc = current /\ accepted[f.input].queued
    <3>1. f \in [proc : Procs, input : Texts, left : 0..2 * MaxInputs]
      BY DEF InputIInv, InputTypeOK
    <3>2. f.input \in Texts /\ f.proc \in Procs /\ f.input \in Nat
      BY <3>1 DEF Texts
    <3>3. accepted[f.input].proc = f.proc /\ accepted[f.input].queued
      BY DEF InputIInv, FlushInOrder
    <3> QED
      BY <1>3, <3>2, <3>3
  <2>2. current # 0
    BY <1>3, <2>1
  <2>3. ~pendingReady
    BY <1>3, <2>2 DEF InputIInv, NothingTypedYet
  <2>4. \A k \in 1..Len(wire[current]) : IsQueued(wire[current][k]) => wire[current][k] < f.input
    BY <1>3 DEF InputIInv, FlushInOrder
  <2>5. ASSUME NEW g \in flushing', g.proc = current PROVE f.input < g.input
    <3>1. g \in flushing /\ g # f /\ g.left \in Nat /\ g.input \in Nat
      <4>1. g \in [proc : Procs, input : Texts, left : 0..2 * MaxInputs]
        BY <1>1, <2>5 DEF InputIInv, InputTypeOK
      <4> QED
        BY <1>1, <2>5, <4>1 DEF Texts
    <3>2. g.input # f.input /\ (g.input < f.input => g.left < f.left)
      BY <1>3, <2>5, <3>1 DEF InputIInv, FlushInOrder
    <3> QED
      BY <1>1, <2>1, <3>1, <3>2
  <2>6. /\ wire' = [wire EXCEPT ![current] = Append(@, f.input)]
        /\ submits' = submits \cup {Timer(current, f.input)}
    BY <1>3 DEF FlushNext
  <2>7. accepted \in Seq([proc : Procs, queued : BOOLEAN]) /\ Len(accepted) <= MaxInputs
        /\ Len(accepted) \in Nat
    BY DEF InputIInv, InputTypeOK
  <2>8. /\ f.input \in Texts' /\ Texts \subseteq Texts' /\ flushing' \subseteq flushing
        /\ accepted' \in Seq([proc : Procs, queued : BOOLEAN]) /\ Len(accepted') <= MaxInputs
        /\ Len(accepted) <= Len(accepted') /\ \A i \in Texts : accepted'[i] = accepted[i]
        /\ accepted'[f.input].proc = current
    BY <1>1, <1>2, <2>1, <2>7
  <2>9. UNCHANGED <<session, boot, queue>>
    BY <1>1
  <2> QED
    BY <2>2, <2>3, <2>4, <2>5, <2>6, <2>8, <2>9, PasteKeeps
<1>4. CASE f.proc # current
  <2> USE DEF InputIInv
  <2>1. UNCHANGED <<wire, submits>>
    BY <1>4 DEF FlushNext
  <2>2. InputTypeOK'
    BY <1>1, <2>1 DEF InputTypeOK, Texts
  <2>3. StartsAlone' /\ (~overlap' => RunsAlone' /\ ShownFirst')
    BY <1>1, <2>1 DEF StartsAlone, RunsAlone, ShownFirst
  <2>4. NothingTypedAhead' /\ NothingTypedYet'
    BY <1>1, <2>1 DEF NothingTypedAhead, NothingTypedYet
  <2>5. QueueInOrder' /\ FlushInOrder' /\ TextsStayHome' /\ QueuedTextsInOrder'
    BY <1>1, <2>1 DEF QueueInOrder, FlushInOrder, TextsStayHome, QueuedTextsInOrder, IsQueued
  <2> QED
    BY <2>2, <2>3, <2>4, <2>5
<1> QED
  BY <1>3, <1>4

LEMMA ChunkKeeps ==
  ASSUME InputIInv, UNCHANGED overlap, NEW p \in Procs, Chunk(p)
  PROVE  InputIInv'
<1> USE DEF InputIInv, session
<1>1. /\ UNCHANGED <<session, pendingReady, gaveUp, accepted, queue, flushing, submits, wire>>
      /\ p \in alive /\ painted \subseteq painted' /\ painted' \subseteq painted \cup {p}
      /\ marked' => marked \/ (current # 0 /\ p \in painted')
  BY DEF Chunk
<1>2. InputTypeOK'
  BY <1>1 DEF InputTypeOK, Texts
<1>3. StartsAlone'
  BY <1>1 DEF StartsAlone
<1>4. ASSUME ~overlap PROVE RunsAlone' /\ ShownFirst'
  <2>1. RunsAlone /\ ShownFirst
    BY <1>4
  <2>2. current # 0 => p = current
    BY <1>1, <2>1 DEF RunsAlone
  <2> QED
    BY <1>1, <2>1, <2>2 DEF RunsAlone, ShownFirst
<1>5. NothingTypedAhead' /\ NothingTypedYet'
  BY <1>1 DEF NothingTypedAhead, NothingTypedYet
<1>6. QueueInOrder' /\ FlushInOrder' /\ TextsStayHome' /\ QueuedTextsInOrder'
  BY <1>1 DEF QueueInOrder, FlushInOrder, TextsStayHome, QueuedTextsInOrder, IsQueued
<1> QED
  BY <1>2, <1>3, <1>4, <1>5, <1>6

\* The session becomes ready: what was queued is typed, or waits for its turn.
LEMMA ReadyKeeps ==
  ASSUME InputIInv, UNCHANGED overlap, UNCHANGED <<session, accepted>>,
         current # 0, pendingReady, ~pendingReady', queue' = <<>>, Flushed,
         painted \subseteq painted', painted' \subseteq 1..procs,
         gaveUp \subseteq gaveUp', gaveUp' \subseteq 1..procs,
         ~overlap => current \in painted' \cup gaveUp' /\ (marked' => current \in painted')
  PROVE  InputIInv'
<1> USE DEF InputIInv, session
<1>1. /\ procs \in Nat /\ current \in Procs /\ current <= procs /\ Texts' = Texts
      /\ \A p \in Procs : wire[p] \in Seq({Enter} \cup Texts)
  BY DEF InputTypeOK, Texts
<1>2. /\ wire[current] = <<>>
      /\ \A f \in flushing : f.proc # current
      /\ \A s \in submits : s.proc # current
  BY DEF NothingTypedYet
<1>3. /\ starts' \in 0..1 /\ procs' \in 0..MaxStarts
      /\ alive' \subseteq 1..procs' /\ told' \subseteq 1..procs'
      /\ current' \in {0, procs'}
      /\ painted' \subseteq 1..procs' /\ gaveUp' \subseteq 1..procs'
      /\ accepted' \in Seq([proc : Procs, queued : BOOLEAN]) /\ Len(accepted') <= MaxInputs
  BY DEF InputTypeOK
<1>4. queue' \in Seq(Texts') /\ queue' = <<>>
  OBVIOUS
<1>5. StartsAlone'
  BY DEF StartsAlone
<1>6. QueueInOrder'
  <2>1. Len(accepted') \in Nat /\ Len(<<>>) = 0
    BY <1>3
  <2> QED
    BY <1>4, <2>1 DEF QueueInOrder
<1>7. CASE queue = <<>>
  <2>1. UNCHANGED <<flushing, submits, wire>>
    BY <1>7 DEF Flushed
  <2>2. InputTypeOK'
    BY <1>1, <1>3, <1>4, <2>1 DEF InputTypeOK
  <2>3. ~overlap' => RunsAlone' /\ ShownFirst'
    BY <2>1 DEF RunsAlone, ShownFirst
  <2>4. NothingTypedAhead' /\ NothingTypedYet'
    BY <2>1 DEF NothingTypedAhead, NothingTypedYet
  <2>5. FlushInOrder' /\ TextsStayHome' /\ QueuedTextsInOrder'
    BY <2>1 DEF FlushInOrder, TextsStayHome, QueuedTextsInOrder, IsQueued
  <2> QED
    BY <1>5, <1>6, <2>2, <2>3, <2>4, <2>5
<1>8. CASE queue # <<>>
  <2> DEFINE x == queue[1]
             late == {[proc |-> current, input |-> queue[k], left |-> 2 * (k - 1)] : k \in 2..Len(queue)}
  <2>1. queue \in Seq(Texts) /\ queue # <<>> /\ accepted \in Seq([proc : Procs, queued : BOOLEAN])
    BY <1>8 DEF InputTypeOK
  <2>2. /\ Len(queue) \in Nat /\ 1 \in 1..Len(queue) /\ Head(queue) = x
        /\ \A k \in 1..Len(queue) : queue[k] \in Texts /\ queue[k] \in Nat
        /\ Len(queue) <= MaxInputs
    <3>1. Len(queue) <= Len(accepted) /\ Len(accepted) <= MaxInputs
      BY DEF QueueInOrder, InputTypeOK
    <3>2. Len(queue) \in Nat /\ Len(accepted) \in Nat /\ Len(queue) # 0 /\ Head(queue) = x
      BY <2>1
    <3>3. \A k \in 1..Len(queue) : queue[k] \in Texts /\ queue[k] \in Nat
      BY <2>1 DEF Texts
    <3> QED
      BY <3>1, <3>2, <3>3
  <2>3. /\ wire' = [wire EXCEPT ![current] = Append(@, x)]
        /\ submits' = submits \cup {Timer(current, x)}
        /\ flushing' = flushing \cup late
    BY <1>8, <2>2 DEF Flushed
  <2>4. \A k \in 1..Len(queue) : accepted[queue[k]].proc = current /\ accepted[queue[k]].queued
    BY DEF QueueInOrder
  <2>5. \A j, k \in 1..Len(queue) : j < k => queue[j] < queue[k]
    BY DEF QueueInOrder
  <2>6. x \in Texts /\ accepted[x].proc = current /\ Len(wire[current]) = 0
    BY <1>2, <2>2, <2>4
  <2>7. /\ wire' \in [Procs -> Seq({Enter} \cup Texts')]
        /\ TextsStayHome' /\ QueuedTextsInOrder'
        /\ \A p \in Procs : p # current => wire'[p] = wire[p]
        /\ Len(wire'[current]) = 1 /\ wire'[current][1] = x
    <3>1. x \in {Enter} \cup Texts' /\ Texts \subseteq Texts' /\ accepted' = accepted /\ current' = current
      BY <1>1, <2>6
    <3> HIDE DEF x
    <3>2. \A k \in 1..Len(wire[current]) : IsQueued(wire[current][k]) => wire[current][k] < x
      BY <2>6
    <3>3. /\ wire' \in [Procs -> Seq({Enter} \cup Texts')]
          /\ TextsStayHome' /\ QueuedTextsInOrder'
          /\ \A p \in Procs : p # current => wire'[p] = wire[p]
          /\ Len(wire'[current]) = Len(wire[current]) + 1
          /\ wire'[current][Len(wire[current]) + 1] = x
      BY <2>3, <2>6, <3>1, <3>2, TypingKeeps
    <3> QED
      BY <2>6, <3>3
  <2>8. \A f \in late : \E k \in 2..Len(queue) :
           f = [proc |-> current, input |-> queue[k], left |-> 2 * (k - 1)]
    OBVIOUS
  <2>9. late \subseteq [proc : Procs, input : Texts, left : 0..2 * MaxInputs]
    <3> SUFFICES ASSUME NEW k \in 2..Len(queue)
                 PROVE  /\ queue[k] \in Texts
                        /\ 2 * (k - 1) \in 0..2 * MaxInputs
      BY <1>1
    <3> QED
      BY <2>2
  <2>10. Timer(current, x) \in [proc : Procs, input : Texts, age : 0..MaxWait, due : BOOLEAN]
         /\ Timer(current, x).proc = current
    BY <1>1, <2>6 DEF Timer
  <2> HIDE DEF x, late
  <2>11. InputTypeOK'
    <3>1. flushing' \subseteq [proc : Procs, input : Texts', left : 0..2 * MaxInputs]
      BY <1>1, <2>3, <2>9 DEF InputTypeOK
    <3>2. submits' \subseteq [proc : Procs, input : Texts', age : 0..MaxWait, due : BOOLEAN]
      BY <1>1, <2>3, <2>10 DEF InputTypeOK
    <3> QED
      BY <1>3, <1>4, <2>7, <3>1, <3>2 DEF InputTypeOK
  <2>12. ASSUME ~overlap PROVE RunsAlone' /\ ShownFirst'
    <3>1. RunsAlone /\ ShownFirst /\ current \in painted' \cup gaveUp' /\ (marked' => current \in painted')
      BY <2>12
    <3> QED
      BY <2>7, <3>1 DEF RunsAlone, ShownFirst
  <2>13. NothingTypedAhead' /\ NothingTypedYet'
    <3>1. ASSUME NEW p \in Procs, procs < p PROVE wire'[p] = <<>>
      <4>1. p # current
        BY <1>1, <3>1
      <4>2. wire[p] = <<>>
        BY <3>1 DEF NothingTypedAhead
      <4> QED
        BY <2>7, <4>1, <4>2
    <3>2. \A s \in submits' : s.proc <= procs
      BY <1>1, <2>3, <2>10 DEF NothingTypedAhead
    <3>3. \A f \in late : f.proc = current
      BY <2>8
    <3>4. \A f \in flushing' : f.proc <= procs
      BY <1>1, <2>3, <3>3 DEF NothingTypedAhead
    <3> QED
      BY <3>1, <3>2, <3>4 DEF NothingTypedAhead, NothingTypedYet
  <2>14. FlushInOrder'
    <3>1. ASSUME NEW f \in flushing'
          PROVE  accepted[f.input].proc = f.proc /\ accepted[f.input].queued
      <4>1. CASE f \in flushing
        BY <4>1 DEF FlushInOrder
      <4>2. CASE f \in late
        <5>1. PICK k \in 2..Len(queue) : f = [proc |-> current, input |-> queue[k], left |-> 2 * (k - 1)]
          BY <2>8, <4>2
        <5>2. f.input = queue[k] /\ f.proc = current /\ k \in 1..Len(queue)
          BY <2>2, <5>1
        <5> QED
          BY <2>4, <5>2
      <4> QED
        BY <2>3, <4>1, <4>2
    <3>2. ASSUME NEW f \in flushing', NEW g \in flushing', f.proc = g.proc
          PROVE  /\ f.input < g.input => f.left < g.left
                 /\ f.input = g.input => f = g
      <4>1. CASE f \in flushing /\ g \in flushing
        BY <3>2, <4>1 DEF FlushInOrder
      <4>2. CASE f \in late /\ g \in late
        <5>1. PICK j \in 2..Len(queue) : f = [proc |-> current, input |-> queue[j], left |-> 2 * (j - 1)]
          BY <2>8, <4>2
        <5>2. PICK k \in 2..Len(queue) : g = [proc |-> current, input |-> queue[k], left |-> 2 * (k - 1)]
          BY <2>8, <4>2
        <5>3. /\ f.input = queue[j] /\ f.left = 2 * (j - 1) /\ g.input = queue[k] /\ g.left = 2 * (k - 1)
              /\ j \in 1..Len(queue) /\ k \in 1..Len(queue) /\ queue[j] \in Nat /\ queue[k] \in Nat
          BY <2>2, <5>1, <5>2
        <5>4. j < k \/ j = k \/ k < j
          BY <5>3
        <5>5. CASE j < k
          BY <2>5, <5>3, <5>5
        <5>6. CASE j = k
          BY <5>1, <5>2, <5>3, <5>6
        <5>7. CASE k < j
          BY <2>5, <5>3, <5>7
        <5> QED
          BY <5>4, <5>5, <5>6, <5>7
      <4>3. \A h \in late : h.proc = current
        BY <2>8
      <4> QED
        BY <1>2, <2>3, <3>2, <4>1, <4>2, <4>3
    <3>3. ASSUME NEW f \in flushing', f.proc = current PROVE x < f.input
      <4>1. f \in late
        BY <1>2, <2>3, <3>3
      <4>2. PICK k \in 2..Len(queue) : f = [proc |-> current, input |-> queue[k], left |-> 2 * (k - 1)]
        BY <2>8, <4>1
      <4>3. f.input = queue[k] /\ k \in 1..Len(queue) /\ 1 < k
        BY <2>2, <4>2
      <4> QED
        BY <2>2, <2>5, <4>3 DEF x
    <3>4. \A k \in 1..Len(wire'[current]) : wire'[current][k] = x
      BY <2>7
    <3> QED
      BY <3>1, <3>2, <3>3, <3>4 DEF FlushInOrder
  <2> QED
    BY <1>5, <1>6, <2>7, <2>11, <2>12, <2>13, <2>14
<1> QED
  BY <1>7, <1>8

LEMMA MarkersKeep ==
  ASSUME InputIInv, UNCHANGED overlap,
         ScreenMarker \/ FallbackFires \/ \E p \in Procs : PromptMarker(p)
  PROVE  InputIInv'
<1>1. procs \in Nat /\ painted \subseteq 1..procs /\ gaveUp \subseteq 1..procs /\ alive \subseteq 1..procs
      /\ current \in 0..procs
  BY DEF InputIInv, InputTypeOK
<1>2. ASSUME ~overlap
      PROVE  /\ current # 0 => alive \subseteq {current}
             /\ current # 0 /\ marked => current \in painted
  BY <1>2 DEF InputIInv, RunsAlone, ShownFirst
<1>3. CASE ScreenMarker
  <2>1. /\ UNCHANGED <<session, accepted, painted, gaveUp, marked>>
        /\ current # 0 /\ marked /\ pendingReady /\ ~pendingReady' /\ queue' = <<>> /\ Flushed
    BY <1>3 DEF ScreenMarker, MarkReady
  <2> QED
    BY <1>1, <1>2, <2>1, ReadyKeeps
<1>4. CASE FallbackFires
  <2>1. /\ UNCHANGED <<session, accepted, painted, marked>>
        /\ current # 0 /\ pendingReady /\ ~pendingReady' /\ queue' = <<>> /\ Flushed
        /\ gaveUp' = gaveUp \cup {current}
    BY <1>4 DEF FallbackFires, MarkReady
  <2>2. gaveUp \subseteq gaveUp' /\ gaveUp' \subseteq 1..procs /\ current \in gaveUp'
    BY <1>1, <2>1
  <2> QED
    BY <1>1, <1>2, <2>1, <2>2, ReadyKeeps
<1>5. ASSUME NEW p \in Procs, PromptMarker(p) PROVE InputIInv'
  <2>1. /\ UNCHANGED <<session, accepted, gaveUp>>
        /\ current # 0 /\ pendingReady /\ ~pendingReady' /\ queue' = <<>> /\ Flushed
        /\ painted' = painted \cup {p} /\ p \in alive
    BY <1>5 DEF PromptMarker
  <2>2. painted \subseteq painted' /\ painted' \subseteq 1..procs
    BY <1>1, <2>1
  <2>3. ASSUME ~overlap PROVE current \in painted'
    BY <1>2, <2>1, <2>3
  <2> QED
    BY <1>1, <2>1, <2>2, <2>3, ReadyKeeps
<1> QED
  BY <1>3, <1>4, <1>5

LEMMA TickKeeps ==
  ASSUME InputIInv, UNCHANGED overlap, SubmitTick
  PROVE  InputIInv'
<1> USE DEF InputIInv, session, boot
<1> DEFINE Aged(s) == [s EXCEPT !.due = TRUE, !.age = Later(s.age)]
           Nearer(f) == [f EXCEPT !.left = f.left - 1]
<1>1. /\ UNCHANGED <<session, boot, accepted, queue, wire>>
      /\ \A f \in flushing : f.left > 0
      /\ submits' = {Aged(s) : s \in submits} /\ flushing' = {Nearer(f) : f \in flushing}
  BY DEF SubmitTick
<1>2. Texts' = Texts
  BY <1>1 DEF Texts
<1>3. ASSUME NEW s \in submits
      PROVE  /\ Aged(s) \in [proc : Procs, input : Texts, age : 0..MaxWait, due : BOOLEAN]
             /\ Aged(s).proc = s.proc
  <2>1. s \in [proc : Procs, input : Texts, age : 0..MaxWait, due : BOOLEAN]
    BY DEF InputTypeOK
  <2> DEFINE later == Later(s.age)
             half == [s EXCEPT !.due = TRUE]
  <2>2. later \in 0..MaxWait
    BY <2>1 DEF Later
  <2> HIDE DEF later
  <2>3. half \in [proc : Procs, input : Texts, age : 0..MaxWait, due : BOOLEAN] /\ half.proc = s.proc
    BY <2>1
  <2>4. [s EXCEPT !.due = TRUE, !.age = later] = [half EXCEPT !.age = later]
    BY <2>1
  <2> HIDE DEF half
  <2>5. [half EXCEPT !.age = later] \in [proc : Procs, input : Texts, age : 0..MaxWait, due : BOOLEAN]
        /\ [half EXCEPT !.age = later].proc = s.proc
    BY <2>2, <2>3
  <2> QED
    BY <2>4, <2>5 DEF later
<1>4. ASSUME NEW f \in flushing
      PROVE  /\ Nearer(f) \in [proc : Procs, input : Texts, left : 0..2 * MaxInputs]
             /\ Nearer(f).proc = f.proc /\ Nearer(f).input = f.input
             /\ Nearer(f).left = f.left - 1 /\ f.left \in Nat
  <2>1. f \in [proc : Procs, input : Texts, left : 0..2 * MaxInputs] /\ f.left > 0
    BY <1>1 DEF InputTypeOK
  <2>2. f.left \in Nat /\ f.left - 1 \in 0..2 * MaxInputs
    BY <2>1
  <2> QED
    BY <2>1, <2>2
<1> HIDE DEF Aged, Nearer
<1>5. InputTypeOK'
  <2>1. flushing' \subseteq [proc : Procs, input : Texts', left : 0..2 * MaxInputs]
    BY <1>1, <1>2, <1>4
  <2>2. submits' \subseteq [proc : Procs, input : Texts', age : 0..MaxWait, due : BOOLEAN]
    BY <1>1, <1>2, <1>3
  <2> QED
    BY <1>1, <1>2, <2>1, <2>2 DEF InputTypeOK
<1>6. StartsAlone' /\ (~overlap' => RunsAlone' /\ ShownFirst')
  BY <1>1 DEF StartsAlone, RunsAlone, ShownFirst
<1>7. NothingTypedAhead' /\ NothingTypedYet'
  <2>1. \A f \in flushing' : \E g \in flushing : f.proc = g.proc
    BY <1>1, <1>4
  <2>2. \A f \in submits' : \E g \in submits : f.proc = g.proc
    BY <1>1, <1>3
  <2> QED
    BY <1>1, <2>1, <2>2 DEF NothingTypedAhead, NothingTypedYet
<1>8. FlushInOrder'
  <2>1. ASSUME NEW f \in flushing', NEW g \in flushing', f.proc = g.proc
        PROVE  /\ f.input < g.input => f.left < g.left
               /\ f.input = g.input => f = g
    <3>1. PICK a \in flushing : f = Nearer(a)
      BY <1>1
    <3>2. PICK b \in flushing : g = Nearer(b)
      BY <1>1
    <3>3. /\ f.input = a.input /\ f.left = a.left - 1 /\ a.left \in Nat /\ f.proc = a.proc
          /\ g.input = b.input /\ g.left = b.left - 1 /\ b.left \in Nat /\ g.proc = b.proc
      BY <1>4, <3>1, <3>2
    <3>4. (a.input < b.input => a.left < b.left) /\ (a.input = b.input => a = b)
      BY <2>1, <3>3 DEF FlushInOrder
    <3> QED
      BY <3>1, <3>2, <3>3, <3>4
  <2>2. \A f \in flushing' : \E g \in flushing : f.proc = g.proc /\ f.input = g.input
    BY <1>1, <1>4
  <2> QED
    BY <1>1, <2>1, <2>2 DEF FlushInOrder, IsQueued
<1>9. QueueInOrder' /\ TextsStayHome' /\ QueuedTextsInOrder'
  BY <1>1 DEF QueueInOrder, TextsStayHome, QueuedTextsInOrder, IsQueued
<1> QED
  BY <1>5, <1>6, <1>7, <1>8, <1>9

\* For any number of processes, texts and waits: while the id is not started again too
\* early one process runs untold, none outlives a dispose and nothing is typed before
\* the prompt; and always a text reaches the process it was accepted for, those queued
\* during the boot once and in the order they came (PtyManager's sendInput,
\* flushQueuedInputs and writeSubmit).
THEOREM InputHolds == InputSpec => []InputInv
<1>1. InputInit => InputIInv
  BY InputBegins
<1>2. InputIInv /\ [InputNext]_inputVars => InputIInv'
  <2> SUFFICES ASSUME InputIInv, [InputNext]_inputVars
               PROVE  InputIInv'
    OBVIOUS
  <2>1. CASE InputNext
    <3>1. UNCHANGED overlap
      BY <2>1 DEF InputNext
    <3>2. CASE Start \/ Refused \/ SpawnThrows
      BY <3>1, <3>2, StartKeeps
    <3>3. CASE Spawn
      BY <3>1, <3>3, SpawnKeeps
    <3>4. CASE PutOnHold \/ Dispose \/ \E p \in Procs : HandleExit(p)
      BY <3>1, <3>4, EndsKeep
    <3>5. CASE SendQueued
      BY <3>1, <3>5, QueueKeeps
    <3>6. CASE SendDirect
      BY <3>1, <3>6, DirectKeeps
    <3>7. CASE \E p \in Procs : Chunk(p)
      BY <3>1, <3>7, ChunkKeeps
    <3>8. CASE ScreenMarker \/ FallbackFires \/ \E p \in Procs : PromptMarker(p)
      BY <3>1, <3>8, MarkersKeep
    <3>9. CASE SubmitTick
      BY <3>1, <3>9, TickKeeps
    <3>10. CASE \E s \in submits : Poll(s)
      BY <3>1, <3>10, PollKeeps
    <3>11. CASE \E f \in flushing : FlushNext(f)
      BY <3>1, <3>11, FlushNextKeeps
    <3> QED
      BY <2>1, <3>2, <3>3, <3>4, <3>5, <3>6, <3>7, <3>8, <3>9, <3>10, <3>11 DEF InputNext, Step, Timers
  <2>2. CASE UNCHANGED inputVars
    <3>1. UNCHANGED overlap /\ UNCHANGED <<session, boot, typing>>
      BY <2>2 DEF inputVars
    <3> USE DEF InputIInv, session, boot, typing
    <3>2. InputTypeOK'
      BY <3>1 DEF InputTypeOK, Texts
    <3>3. StartsAlone' /\ (~overlap' => RunsAlone' /\ ShownFirst')
      BY <3>1 DEF StartsAlone, RunsAlone, ShownFirst
    <3>4. NothingTypedAhead' /\ NothingTypedYet' /\ QueueInOrder' /\ FlushInOrder'
      BY <3>1 DEF NothingTypedAhead, NothingTypedYet, QueueInOrder, FlushInOrder, IsQueued
    <3>5. TextsStayHome' /\ QueuedTextsInOrder'
      BY <3>1 DEF TextsStayHome, QueuedTextsInOrder, IsQueued
    <3> QED
      BY <3>2, <3>3, <3>4, <3>5
  <2> QED
    BY <2>1, <2>2
<1>3. InputIInv => InputInv
  BY InputFollows
<1> QED
  BY <1>1, <1>2, <1>3, PTL DEF InputSpec
=============================================================================
