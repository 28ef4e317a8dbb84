------------------------------ MODULE PushDelivery ------------------------------
(***************************************************************************)
(* The push tokens of the phones and the ordinary notifications sent to    *)
(* them through Expo's relay (db/repositories/push.repository.ts,          *)
(* services/push/expoPushSender.ts, the routes under /api/push).           *)
(*                                                                         *)
(* A request is let in when its headers are there and acts when its body   *)
(* is; a send reads the rows once and posts them batch by batch, and what  *)
(* the relay answers is recorded by token: rows are registered, changed,   *)
(* taken over and erased meanwhile.                                        *)
(*                                                                         *)
(* Last, the quiet hours of a phone (services/push/notificationPrefs.ts),  *)
(* which share no state with the sends.                                    *)
(***************************************************************************)
EXTENDS Naturals, Sequences, FiniteSets, SequencesExt, FiniteSetsExt

CONSTANTS
  PushTokens, PushDevices,
  Deliveries,      \* sends under way at a time
  StreakLimit,     \* FAILURE_STREAK_LIMIT
  BatchSize,       \* EXPO_PUSH_BATCH_SIZE
  MaxPushCalls, MaxDeliveries, MaxErased   \* bounds of a run

ASSUME DeliveryAssumption ==
  /\ {StreakLimit, BatchSize} \subseteq Nat \ {0}
  /\ {MaxPushCalls, MaxDeliveries, MaxErased} \subseteq Nat
  /\ IsFiniteSet(PushTokens) /\ PushDevices # {}

VARIABLES
  tokenRow,    \* push_tokens, its rows of kind expo
  calls,       \* requests let in whose body is still to come: [by, op, token]
  erased,      \* devices that were revoked or erased
  living,      \* tokens of an app that is installed
  delivery,    \* the sends: [all, done, batch, left, dead]
  counted,     \* history: bad tickets in a row, by token
  tardy,        \* history: tokens registered for a device already erased
  overtaken,   \* history: tokens registered while a batch with them was under way
  spent        \* [calls, deliveries] so far

deliveryVars ==
  <<tokenRow, calls, erased, living, delivery, counted, tardy, overtaken, spent>>

NoOwner == "none"
Owner == "the shared key"      \* the api key, which names no device of its own
Unset == "unset"

Unregistered == [on |-> FALSE, device |-> NoOwner, prefs |-> Unset, streak |-> 0, revoked |-> FALSE]
NoDelivery == [all |-> <<>>, done |-> <<>>, batch |-> <<>>, left |-> <<>>, dead |-> {}]

DeliveryInit ==
  /\ tokenRow = [t \in PushTokens |-> Unregistered]
  /\ calls = {} /\ erased = {} /\ living = {}
  /\ delivery = [s \in Deliveries |-> NoDelivery]
  /\ counted = [t \in PushTokens |-> 0]
  /\ tardy = {} /\ overtaken = {}
  /\ spent = [calls |-> 0, deliveries |-> 0]

-----------------------------------------------------------------------------
(* The routes.                                                             *)

\* The middleware takes the device from the credential; a revoked one is refused.
CallAdmitted(by, op, t) ==
  /\ by \notin erased /\ spent.calls < MaxPushCalls
  /\ calls' = calls \cup {[by |-> by, op |-> op, token |-> t]}
  /\ spent' = [spent EXCEPT !.calls = @ + 1]
  /\ UNCHANGED <<tokenRow, erased, living, delivery, counted, tardy, overtaken>>

Done(call) == calls' = calls \ {call}

\* COALESCE(excluded, stored)
Stored(new, old) == IF new \in {NoOwner, Unset} THEN old ELSE new

\* The upsert: failures and a revocation are forgotten, the token is live again.
Upserted(row, device, prefs) ==
  [on |-> TRUE, streak |-> 0, revoked |-> FALSE,
   device |-> IF row.on THEN Stored(device, row.device) ELSE device,
   prefs |-> IF row.on THEN Stored(prefs, row.prefs) ELSE prefs]

\* Under the shared key the body may name a device, or none.
NamedBy(call) == IF call.by = Owner THEN PushDevices \cup {NoOwner} ELSE {call.by}

PostingOf(t) == {s \in Deliveries : t \in ToSet(delivery[s].batch)}

RegisterToken(call) ==
  LET t == call.token
  IN  /\ call.op = "register"
      /\ Done(call)
      /\ \E device \in NamedBy(call), prefs \in {Unset, "on", "muted"} :
           /\ tokenRow' = [tokenRow EXCEPT ![t] = Upserted(@, device, prefs)]
           /\ tardy' = IF tokenRow'[t].device \in erased THEN tardy \cup {t} ELSE tardy \ {t}
      /\ living' = living \cup {t}
      /\ counted' = [counted EXCEPT ![t] = 0]
      /\ overtaken' = IF PostingOf(t) = {} THEN overtaken \ {t} ELSE overtaken \cup {t}
      /\ UNCHANGED <<erased, delivery, spent>>

\* A device reaches its own rows and those of no device; the shared key any.
OwnsToken(by, row) == row.on /\ (by = Owner \/ row.device \in {by, NoOwner})

\* setPrefs: the delivery state of the row is left alone.
SetPrefs(call) ==
  /\ call.op = "prefs"
  /\ Done(call)
  /\ \E prefs \in {"on", "muted"} :
       tokenRow' = [tokenRow EXCEPT ![call.token].prefs =
                      IF OwnsToken(call.by, tokenRow[call.token]) THEN prefs ELSE @]
  /\ UNCHANGED <<erased, living, delivery, counted, tardy, overtaken, spent>>

Unregister(call) ==
  /\ call.op = "unregister"
  /\ Done(call)
  /\ tokenRow' = [tokenRow EXCEPT ![call.token] = IF OwnsToken(call.by, @) THEN Unregistered ELSE @]
  /\ UNCHANGED <<erased, living, delivery, counted, tardy, overtaken, spent>>

\* A device is revoked or erased: its rows go in the same turn.
EraseDevice(d) ==
  /\ d \notin erased /\ Cardinality(erased) < MaxErased
  /\ erased' = erased \cup {d}
  /\ tokenRow' = [t \in PushTokens |->
                    IF tokenRow[t].device = d THEN Unregistered ELSE tokenRow[t]]
  /\ UNCHANGED <<calls, living, delivery, counted, tardy, overtaken, spent>>

\* The app is removed from the phone.
AppGone(t) ==
  /\ living' = living \ {t} /\ t \in living
  /\ UNCHANGED <<tokenRow, calls, erased, delivery, counted, tardy, overtaken, spent>>

-----------------------------------------------------------------------------
(* The sends.                                                              *)

\* listDeliverable
Deliverable(t) ==
  /\ tokenRow[t].on /\ ~tokenRow[t].revoked /\ tokenRow[t].streak < StreakLimit

\* allows: no preferences mean everything on.
Allows(t) == tokenRow[t].prefs # "muted"

Unused(s) == delivery[s].left = <<>> /\ delivery[s].batch = <<>>

Begins(s, rows) ==
  /\ Unused(s) /\ spent.deliveries < MaxDeliveries
  /\ delivery' = [delivery EXCEPT ![s] = [NoDelivery EXCEPT !.all = rows, !.left = rows]]
  /\ spent' = [spent EXCEPT !.deliveries = @ + 1]
  /\ UNCHANGED <<tokenRow, calls, erased, living, counted, tardy, overtaken>>

\* send: the rows as they are now are the rows of the whole send.
Notify(s) ==
  LET rows == SetToSeq({t \in PushTokens : Deliverable(t) /\ Allows(t)})
  IN  rows # <<>> /\ Begins(s, rows)

\* sendTo, for the test of a token: whatever its preferences and its state.
TestPush(s, call) ==
  /\ call.op = "test" /\ Done(call)
  /\ Unused(s)
  /\ IF OwnsToken(call.by, tokenRow[call.token])
     THEN delivery' = [delivery EXCEPT ![s] = [NoDelivery EXCEPT
                         !.all = <<call.token>>, !.left = <<call.token>>]]
     ELSE UNCHANGED delivery
  /\ UNCHANGED <<tokenRow, erased, living, counted, tardy, overtaken, spent>>

\* Mutant: a batch is one short of where the next begins.
BatchShort(left) == SubSeq(left, 1, Min({BatchSize - 1, Len(left)}))

\* slice
Batch(left) == SubSeq(left, 1, Min({BatchSize, Len(left)}))
After(left) == SubSeq(left, BatchSize + 1, Len(left))

\* sendChunk, up to its await; the relay finds which tokens are dead.
PostBatch(s) ==
  LET d == delivery[s]
  IN  /\ d.batch = <<>> /\ d.left # <<>>
      /\ delivery' = [delivery EXCEPT ![s].batch = Batch(d.left), ![s].left = After(d.left),
                                      ![s].dead = ToSet(d.left) \ living]
      /\ UNCHANGED <<tokenRow, calls, erased, living, counted, tardy, overtaken, spent>>

\* recordSuccess, recordFailure; revoke for the one error that is for ever.
Recorded(row, ticket) ==
  CASE ~row.on -> row
    [] row.on /\ ticket = "ok" -> [row EXCEPT !.streak = 0]
    [] row.on /\ ticket = "dead" -> [row EXCEPT !.streak = @ + 1, !.revoked = TRUE]
    [] row.on /\ ticket \notin {"ok", "dead"} -> [row EXCEPT !.streak = @ + 1]

\* Mutant: the tickets are counted over the whole send.
TicketOverall(s, tickets, i) ==
  LET n == i + Len(delivery[s].done)
  IN  IF n \in DOMAIN tickets THEN tickets[n] ELSE "none"

\* The ticket of a row is the one at its place in the batch, if it got that far.
TicketOf(s, tickets, i) == IF i \in DOMAIN tickets THEN tickets[i] ELSE "none"

\* What the relay may answer: nothing or a refusal, else a ticket for each, maybe not all.
Answers(s) ==
  LET batch == delivery[s].batch
      fair == [i \in DOMAIN batch |->
                 IF batch[i] \in delivery[s].dead THEN {"dead"} ELSE {"ok", "error"}]
  IN  {<<>>} \cup {a \in [DOMAIN batch -> {"ok", "error", "dead"}] :
                     \A i \in DOMAIN batch : a[i] \in fair[i]}

\* How often a token was found bad in a row, whatever its row says.
CountedOf(t, answer, batch) ==
  IF answer # <<>> /\ answer[CHOOSE i \in DOMAIN batch : batch[i] = t] = "ok"
  THEN 0 ELSE counted[t] + 1

BatchAnswered(s) ==
  LET batch == delivery[s].batch
  IN  /\ batch # <<>>
      /\ \E answer \in Answers(s) :
           /\ tokenRow' = [t \in PushTokens |->
                 IF t \in ToSet(batch)
                 THEN Recorded(tokenRow[t],
                        TicketOf(s, answer, CHOOSE i \in DOMAIN batch : batch[i] = t))
                 ELSE tokenRow[t]]
           /\ counted' = [t \in PushTokens |->
                 IF t \in ToSet(batch) THEN CountedOf(t, answer, batch) ELSE counted[t]]
      /\ delivery' = [delivery EXCEPT ![s] =
                        IF delivery[s].left = <<>> THEN NoDelivery
                        ELSE [delivery[s] EXCEPT !.done = @ \o batch, !.batch = <<>>, !.dead = {}]]
      /\ UNCHANGED <<calls, erased, living, tardy, overtaken, spent>>

DeliveryNext ==
  \/ \E by \in PushDevices \cup {Owner}, t \in PushTokens,
        op \in {"register", "prefs", "unregister", "test"} : CallAdmitted(by, op, t)
  \/ \E call \in calls : RegisterToken(call) \/ SetPrefs(call) \/ Unregister(call)
  \/ \E call \in calls, s \in Deliveries : TestPush(s, call)
  \/ \E d \in PushDevices : EraseDevice(d)
  \/ \E t \in PushTokens : AppGone(t)
  \/ \E s \in Deliveries : Notify(s) \/ PostBatch(s) \/ BatchAnswered(s)

DeliverySpec == DeliveryInit /\ [][DeliveryNext]_deliveryVars
-----------------------------------------------------------------------------
(* Properties.                                                             *)

DeliveryTypeOK ==
  /\ tokenRow \in [PushTokens -> [on : BOOLEAN, device : PushDevices \cup {NoOwner},
                                 prefs : {Unset, "on", "muted"}, streak : Nat, revoked : BOOLEAN]]
  /\ erased \subseteq PushDevices /\ living \subseteq PushTokens
  /\ \A s \in Deliveries : delivery[s].dead \subseteq PushTokens

\* Every row a send began with is posted once, in one batch or another.
AllAreServed ==
  \A s \in Deliveries :
    delivery[s].all = delivery[s].done \o delivery[s].batch \o delivery[s].left

\* The streak that retires a token counts its own bad tickets in a row: no ticket, and
\* no batch that failed, is put down to another token.
StreaksAreOwn ==
  \A t \in PushTokens : tokenRow[t].on => tokenRow[t].streak = counted[t]

\* A token is revoked only if its app is gone, unless it was registered anew while a
\* batch with it was under way.
RetiredIsGone ==
  \A t \in PushTokens :
    tokenRow[t].on /\ tokenRow[t].revoked => t \notin living \/ t \in overtaken

\* A device that was revoked has no token left, but for those registered since, by a
\* request let in before or in its name under the shared key.
ErasedKeepsNothing ==
  \A t \in PushTokens : tokenRow[t].on /\ tokenRow[t].device \in erased => t \in tardy

\* Of the tokens and the sends.
DeliveryInv ==
  DeliveryTypeOK /\ AllAreServed /\ StreaksAreOwn /\ RetiredIsGone /\ ErasedKeepsNothing

\* Does not hold: the answer to a batch posted before revokes the token just registered,
\* whose registration says it is live again.
RegisteredStaysLive ==
  \A t \in PushTokens : tokenRow[t].on /\ tokenRow[t].revoked => t \notin living

\* Does not hold: the body of a registration let in before its device was revoked
\* arrives after, and a send that began before goes on to its tokens.
ErasedHearsNothing ==
  /\ \A t \in PushTokens : tokenRow[t].on => tokenRow[t].device \notin erased
  /\ \A s \in Deliveries : \A t \in ToSet(delivery[s].left) : tokenRow[t].on

-----------------------------------------------------------------------------
(* The quiet hours: a window of the day, the same for every day but for    *)
(* the days that have their own or none.  A window that ends before it     *)
(* starts runs over midnight and belongs to the day it starts on.  A week  *)
(* has WeekDays days of DayHours hours; the clock is the phone's.          *)
CONSTANTS WeekDays, DayHours

ASSUME QuietAssumption == {WeekDays, DayHours} \subseteq Nat \ {0}

VARIABLES
  quietHours,  \* [enabled, default, days]: days maps a day to its own window, or to none
  hour         \* of the week

quietVars == <<quietHours, hour>>

Hours == 0..(DayHours - 1)
Windows == [from : Hours, to : Hours]
NoWindow == [from |-> 0, to |-> 0]
NoQuietHours == [enabled |-> FALSE, default |-> NoWindow, days |-> [d \in {} |-> NoWindow]]
\* One day, or two in a row, have a window of their own; an empty window is none.
Overridden ==
  UNION {[days -> Windows] :
           days \in {{}} \cup {{d, e % WeekDays} : d \in 0..(WeekDays - 1), e \in 0..WeekDays}}

QuietInit ==
  /\ quietHours \in {NoQuietHours} \cup [enabled : {TRUE}, default : Windows, days : Overridden]
  /\ hour = 0

HourPasses == hour' = (hour + 1) % (WeekDays * DayHours) /\ UNCHANGED quietHours

QuietNext == HourPasses
QuietSpec == QuietInit /\ [][QuietNext]_quietVars

-----------------------------------------------------------------------------
\* localClock
Day == hour \div DayHours
Minutes == hour % DayHours

\* windowStartingOn
WindowStartingOn(day) ==
  IF day \in DOMAIN quietHours.days THEN quietHours.days[day] ELSE quietHours.default

\* Mutant: the tail of a night is looked up under the day it ends on.
YesterdayIsToday(day) == day

Yesterday(day) == (day + WeekDays - 1) % WeekDays

\* isQuietNow
IsQuietNow ==
  LET today == WindowStartingOn(Day)
      before == WindowStartingOn(Yesterday(Day))
  IN  /\ quietHours.enabled
      /\ \/ today.from < today.to /\ today.from <= Minutes /\ Minutes < today.to
         \/ today.from > today.to /\ today.from <= Minutes
         \/ before.from > before.to /\ Minutes < before.to

-----------------------------------------------------------------------------
\* The hours of the week a window covers that starts on this day.
Covered(day) ==
  LET w == WindowStartingOn(day)
      length == (w.to + DayHours - w.from) % DayHours
  IN  {(day * DayHours + w.from + n) % (WeekDays * DayHours) : n \in 0..(DayHours - 1)}
        \ {(day * DayHours + w.from + n) % (WeekDays * DayHours) : n \in length..(DayHours - 1)}

\* It is quiet exactly while a window runs that started today or yesterday, under the
\* entry of the day it started on, over midnight and over the end of the week.
QuietAsSet ==
  IsQuietNow <=> quietHours.enabled /\ \E day \in 0..(WeekDays - 1) : hour \in Covered(day)

\* Of the quiet hours.
QuietInv == QuietAsSet
=============================================================================
