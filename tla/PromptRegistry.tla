--------------------------- MODULE PromptRegistry ---------------------------
(***************************************************************************)
(* The in-memory registry of interactive prompts                           *)
(* (src/src/services/prompts/promptRegistry.ts).                           *)
(*                                                                         *)
(* A producer (a screen detector or a transcript watcher) opens a prompt,  *)
(* may revise it, and closes it.  A client answers it: the answer waits    *)
(* its turn in the prompt's queue, is checked, and is then written to the  *)
(* provider by an adapter, an asynchronous call during which every other   *)
(* operation of the registry may run.  A record that reached a terminal    *)
(* state is kept for a while, so that late answers and retries get a       *)
(* faithful reply, and is then evicted.                                    *)
(*                                                                         *)
(* An element of Entries is one PromptEntry object.  A prompt id names at  *)
(* most one entry at a time, but may name another one after an eviction,   *)
(* because the pty-host reuses its occurrence id while its detector sees   *)
(* the same content.                                                       *)
(***************************************************************************)
EXTENDS Integers, Sequences, FiniteSets, FiniteSetsExt

CONSTANTS
  Sessions,     \* sessions that own prompts
  PromptIds,    \* ids a prompt can be known by
  Entries,      \* records the registry can create
  Keys,         \* idempotency keys of answers
  Retention,    \* terminalRetentionMs, in clock ticks
  MaxRecords,   \* maxRecordsPerSession
  Lifetimes,    \* delays to a deadline a producer may ask for, in clock ticks
  NoEntry       \* the result of a lookup that finds nothing

ASSUME EntriesAssumption == IsFiniteSet(Entries) /\ NoEntry \notin Entries
ASSUME LimitsAssumption  == Retention \in Nat /\ MaxRecords \in Nat \ {0}
ASSUME LifetimesAssumption == Lifetimes \subseteq Nat

VARIABLES
  entry,     \* the records, by entry
  byId,      \* the map byId (and bySession: an entry is in both or in neither)
  task,      \* inFlight and outcomes of each entry, by idempotency key
  queue,     \* keys of an entry's answers that have not settled, oldest first
  sequence,  \* the sequence number of the last event published for a session
  clock      \* now()

vars == <<entry, byId, task, queue, sequence, clock>>

-----------------------------------------------------------------------------
(* States of a record and of an answer.                                    *)

Null == -1            \* an absent time

LiveStates     == {"open", "updated"}
TerminalStates == {"resolved", "cancelled", "expired", "unavailable"}

Record ==
  [pid : PromptIds, sess : Sessions, state : LiveStates \cup TerminalStates,
   rev : Nat, expiresAt : Int, terminalAt : Int,
   answering : BOOLEAN, deferred : BOOLEAN]

Unused == [state |-> "unused"]

Outcomes == {"ok", "refused", "mismatch", "terminal", "failed"}

\* none: the key was never used, or its outcome was pruned.
Task ==
  [st : {"none", "queued", "writing", "done"}, rev : Nat,
   outcome : Outcomes \cup {"pending"}, at : Int]

NoTask == [st |-> "none", rev |-> 0, outcome |-> "pending", at |-> Null]

Queued(r) == [NoTask EXCEPT !.st = "queued", !.rev = r]

Done(t, o) == [t EXCEPT !.st = "done", !.outcome = o, !.at = clock]

Created(e)  == entry[e].state # "unused"
Live(e)     == entry[e].state \in LiveStates
Terminal(e) == entry[e].state \in TerminalStates
Held(e)     == Created(e) /\ byId[entry[e].pid] = e

\* transition: the record a live record r becomes.
Settled(r, state) ==
  [r EXCEPT !.state = state, !.rev = @ + 1, !.terminalAt = clock]

\* expireIfDue on one record.
Due(e) == Live(e) /\ entry[e].expiresAt # Null /\ clock >= entry[e].expiresAt

-----------------------------------------------------------------------------
(* sweepExpired(s): every due record of the session expires, and every     *)
(* record that has been terminal for more than Retention is evicted.  The  *)
(* three operators give the registry after it.                             *)

Owned(s)      == {e \in Entries : Held(e) /\ entry[e].sess = s}
DueIn(s)      == {e \in Owned(s) : Due(e)}
Overdue(s)    == {e \in Owned(s) : Terminal(e) /\ clock - entry[e].terminalAt > Retention}

Without(ids, gone) == [p \in PromptIds |-> IF ids[p] \in gone THEN NoEntry ELSE ids[p]]

SweptEntry(s) == [e \in Entries |-> IF e \in DueIn(s) THEN Settled(entry[e], "expired") ELSE entry[e]]
SweptById(s)  == Without(byId, Overdue(s))
SweptSeq(s)   == sequence[s] + Cardinality(DueIn(s))

\* snapshot, get and the explicit sweep of the input route.
Sweep(s) ==
  /\ entry' = SweptEntry(s)
  /\ byId' = SweptById(s)
  /\ sequence' = [sequence EXCEPT ![s] = SweptSeq(s)]
  /\ UNCHANGED <<task, queue, clock>>

-----------------------------------------------------------------------------
(* Producers.                                                              *)

\* Mutant: the cap takes any record for evictable.
CapVictimsAnyRecord(ent, owned) ==
  LET excess == Cardinality(owned) - MaxRecords
  IN  {gone \in SUBSET owned :
         Cardinality(gone) = IF excess <= 0 THEN 0 ELSE excess}

\* enforceCap: the oldest terminal records go, as many as the cap asks for
\* and no live record ever.
CapVictims(ent, owned) ==
  LET terminal == {e \in owned : ent[e].state \in TerminalStates}
      excess   == Cardinality(owned) - MaxRecords
  IN  {gone \in SUBSET terminal :
         /\ Cardinality(gone) = IF excess <= 0 THEN 0
                                ELSE IF excess > Cardinality(terminal)
                                     THEN Cardinality(terminal) ELSE excess
         /\ \A g \in gone, t \in terminal \ gone : ent[g].terminalAt <= ent[t].terminalAt}

NewRecord(p, s, expiresAt) ==
  [pid |-> p, sess |-> s, state |-> "open", rev |-> 1, expiresAt |-> expiresAt,
   terminalAt |-> Null, answering |-> FALSE, deferred |-> FALSE]

\* createId: an id no record was ever given.
FreshId(p) == \A e \in Entries : Created(e) => entry[e].pid # p

\* open: the producer asks for id p.  A live holder of p is an error; a terminal
\* one keeps p and the new record gets a fresh id.
OpenAs(s, e, asked, p, expiresAt) ==
  LET ent == [SweptEntry(s) EXCEPT ![e] = NewRecord(p, s, expiresAt)]
      ids == [SweptById(s) EXCEPT ![p] = e]
      holder == SweptById(s)[asked]
  IN  /\ ~Created(e)
      /\ IF holder = NoEntry
           THEN p = asked
           ELSE /\ SweptEntry(s)[holder].state \in TerminalStates
                /\ FreshId(p)
      /\ \E gone \in CapVictims(ent, {x \in Entries : /\ ent[x].state # "unused"
                                                      /\ ids[ent[x].pid] = x
                                                      /\ ent[x].sess = s}) :
           byId' = Without(ids, gone)
      /\ entry' = ent
      /\ sequence' = [sequence EXCEPT ![s] = SweptSeq(s) + 1]
      /\ UNCHANGED <<task, queue, clock>>

Deadlines == {Null} \cup {clock + l : l \in Lifetimes}

Open(s, e) ==
  \E asked, p \in PromptIds, x \in Deadlines : OpenAs(s, e, asked, p, x)

Publish(s) == sequence' = [sequence EXCEPT ![s] = @ + 1]

Revised(r, expiresAt) ==
  [r EXCEPT !.state = "updated", !.rev = @ + 1, !.expiresAt = expiresAt]

\* update: a due record expires instead, and the producer's call fails.
Update(p, expiresAt) ==
  LET e == byId[p] IN
  /\ e # NoEntry
  /\ Live(e)
  /\ entry' = [entry EXCEPT ![e] =
                 IF Due(e) THEN Settled(@, "expired") ELSE Revised(@, expiresAt)]
  /\ Publish(entry[e].sess)
  /\ UNCHANGED <<byId, task, queue, clock>>

\* transition, as the callers outside the registry use it: a prompt replaced by
\* another or dismissed is cancelled, one answered on another route is resolved.
Transition(p, state) ==
  LET e == byId[p] IN
  /\ e # NoEntry
  /\ Live(e)
  /\ entry' = [entry EXCEPT ![e] = Settled(@, state)]
  /\ Publish(entry[e].sess)
  /\ UNCHANGED <<byId, task, queue, clock>>

\* providerClosed, the state after it: a close seen while an answer is being
\* written is only remembered.
AfterClose(ent, e) ==
  IF ent[e].answering
    THEN [ent EXCEPT ![e].deferred = TRUE]
    ELSE [ent EXCEPT ![e] = Settled(@, "cancelled")]

\* Mutant: providerClosed does not look at the state of the record.
ProviderClosedAlways(p) ==
  LET e == byId[p] IN
  /\ e # NoEntry
  /\ entry' = AfterClose(entry, e)
  /\ IF entry[e].answering THEN UNCHANGED sequence ELSE Publish(entry[e].sess)
  /\ UNCHANGED <<byId, task, queue, clock>>

ProviderClosed(p) ==
  LET e == byId[p] IN
  /\ e # NoEntry
  /\ Live(e)
  /\ entry' = AfterClose(entry, e)
  /\ IF entry[e].answering THEN UNCHANGED sequence ELSE Publish(entry[e].sess)
  /\ UNCHANGED <<byId, task, queue, clock>>

\* whileAnswering around a write that lands, and the legacy route's own
\* transition that follows it in the same turn of the event loop: the close the
\* write causes is dropped and the record is resolved, if it is still live.
LegacyAnswer(p) ==
  LET e == byId[p]
      closed == [entry[e] EXCEPT !.answering = FALSE, !.deferred = FALSE]
  IN
  /\ e # NoEntry
  /\ entry' = [entry EXCEPT ![e] = IF Live(e) THEN Settled(closed, "resolved") ELSE closed]
  /\ IF Live(e) THEN Publish(entry[e].sess) ELSE UNCHANGED sequence
  /\ UNCHANGED <<byId, task, queue, clock>>

\* invalidateSession: the session ended.
InvalidateSession(s) ==
  LET live == {e \in Owned(s) : Live(e)} IN
  /\ live # {}
  /\ entry' = [e \in Entries |-> IF e \in live THEN Settled(entry[e], "unavailable")
                                 ELSE entry[e]]
  /\ sequence' = [sequence EXCEPT ![s] = @ + Cardinality(live)]
  /\ UNCHANGED <<byId, task, queue, clock>>

\* The expiry timer of a record.
ExpiryTimer(e) ==
  /\ Due(e)
  /\ entry' = [entry EXCEPT ![e] = Settled(@, "expired")]
  /\ Publish(entry[e].sess)
  /\ UNCHANGED <<byId, task, queue, clock>>

-----------------------------------------------------------------------------
(* Answers.                                                                *)

\* pruneOutcomes.
Pruned(tasks) ==
  [k \in Keys |-> IF tasks[k].st = "done" /\ clock - tasks[k].at > Retention
                  THEN NoTask ELSE tasks[k]]

\* answer: a key that has an outcome replays it, a key in flight joins it, and
\* any other key is queued.  An answer for an unknown prompt, or for a prompt of
\* another session, only sweeps (Sweep).
Answer(s, p, k, r) ==
  LET e == SweptById(s)[p] IN
  /\ e # NoEntry
  /\ entry[e].sess = s
  /\ entry' = SweptEntry(s)
  /\ byId' = SweptById(s)
  /\ sequence' = [sequence EXCEPT ![s] = SweptSeq(s)]
  /\ LET tasks == Pruned(task[e])
         isNew == tasks[k].st = "none"
     IN  /\ task' = [task EXCEPT ![e] = IF isNew THEN [tasks EXCEPT ![k] = Queued(r)]
                                        ELSE tasks]
         /\ queue' = IF isNew THEN [queue EXCEPT ![e] = Append(@, k)] ELSE queue
  /\ UNCHANGED clock

\* The task at the head of an entry's queue settles with outcome o.
Finish(e, o) ==
  /\ task' = [task EXCEPT ![e][Head(queue[e])] = Done(@, o)]
  /\ queue' = [queue EXCEPT ![e] = Tail(@)]

HeadTask(e) == task[e][Head(queue[e])]

\* performAnswer up to the adapter call, when a check refuses the answer.  What
\* the responses say is data: validateResponses may refuse any of them.
Refuse(e) ==
  /\ queue[e] # <<>>
  /\ HeadTask(e).st = "queued"
  /\ \/ /\ Terminal(e)
        /\ Finish(e, "terminal")
        /\ UNCHANGED <<entry, sequence>>
     \/ /\ Due(e)
        /\ entry' = [entry EXCEPT ![e] = Settled(@, "expired")]
        /\ Publish(entry[e].sess)
        /\ Finish(e, "terminal")
     \/ /\ Live(e) /\ ~Due(e)
        /\ HeadTask(e).rev # entry[e].rev
        /\ Finish(e, "mismatch")
        /\ UNCHANGED <<entry, sequence>>
     \/ /\ Live(e) /\ ~Due(e)
        /\ HeadTask(e).rev = entry[e].rev
        /\ Finish(e, "refused")
        /\ UNCHANGED <<entry, sequence>>
  /\ UNCHANGED <<byId, clock>>

\* performAnswer calls the adapter.
BeginWrite(e) ==
  /\ queue[e] # <<>>
  /\ HeadTask(e).st = "queued"
  /\ Live(e)
  /\ ~Due(e)
  /\ HeadTask(e).rev = entry[e].rev
  /\ entry' = [entry EXCEPT ![e].answering = TRUE]
  /\ task' = [task EXCEPT ![e][Head(queue[e])].st = "writing"]
  /\ UNCHANGED <<byId, queue, sequence, clock>>

\* settle: the deferred close is applied to whatever entry the id names now.
SettleDeferred(ent, e) ==
  LET now == byId[ent[e].pid] IN
  IF entry[e].deferred /\ now # NoEntry /\ ent[now].state \in LiveStates
    THEN /\ entry' = AfterClose(ent, now)
         /\ IF ent[now].answering THEN UNCHANGED sequence ELSE Publish(ent[now].sess)
    ELSE /\ entry' = ent
         /\ UNCHANGED sequence

Writing(e) == queue[e] # <<>> /\ HeadTask(e).st = "writing"

\* The record once its adapter is done: the marker and the deferred close are gone.
Unmarked(e) == [entry[e] EXCEPT !.answering = FALSE, !.deferred = FALSE]

\* Mutant: the revision is not compared again after the adapter call.
WriteLandsAnyRevision(e) ==
  /\ Writing(e)
  /\ Live(e)
  /\ entry' = [entry EXCEPT ![e] = Settled(Unmarked(e), "resolved")]
  /\ Publish(entry[e].sess)
  /\ Finish(e, "ok")
  /\ UNCHANGED <<byId, clock>>

\* The write landed and nothing else happened to the prompt meanwhile.
WriteLands(e) ==
  /\ Writing(e)
  /\ Live(e)
  /\ HeadTask(e).rev = entry[e].rev
  /\ entry' = [entry EXCEPT ![e] = Settled(Unmarked(e), "resolved")]
  /\ Publish(entry[e].sess)
  /\ Finish(e, "ok")
  /\ UNCHANGED <<byId, clock>>

\* The adapter returned (either way) after the prompt was settled or revised.
WriteOvertaken(e) ==
  /\ Writing(e)
  /\ ~Live(e) \/ HeadTask(e).rev # entry[e].rev
  /\ Finish(e, IF Live(e) THEN "mismatch" ELSE "terminal")
  /\ SettleDeferred([entry EXCEPT ![e] = Unmarked(e)], e)
  /\ UNCHANGED <<byId, clock>>

\* Mutant: the answer that failed is queued again behind the others.
WriteFailsRequeued(e) ==
  /\ Writing(e)
  /\ queue' = [queue EXCEPT ![e] = Append(Tail(@), Head(@))]
  /\ task' = [task EXCEPT ![e][Head(queue[e])].st = "queued"]
  /\ SettleDeferred([entry EXCEPT ![e] = Unmarked(e)], e)
  /\ UNCHANGED <<byId, clock>>

\* The adapter threw, or refused without settling the prompt.
WriteFails(e) ==
  /\ Writing(e)
  /\ Finish(e, "failed")
  /\ SettleDeferred([entry EXCEPT ![e] = Unmarked(e)], e)
  /\ UNCHANGED <<byId, clock>>

\* The adapter refused and named the state the prompt is really in.
WriteFindsGone(e, state) ==
  /\ Writing(e)
  /\ Live(e)
  /\ HeadTask(e).rev = entry[e].rev
  /\ entry' = [entry EXCEPT ![e] = Settled(Unmarked(e), state)]
  /\ Publish(entry[e].sess)
  /\ Finish(e, "failed")
  /\ UNCHANGED <<byId, clock>>

Tick == clock' = clock + 1 /\ UNCHANGED <<entry, byId, task, queue, sequence>>

-----------------------------------------------------------------------------

Init ==
  /\ entry = [e \in Entries |-> Unused]
  /\ byId = [p \in PromptIds |-> NoEntry]
  /\ task = [e \in Entries |-> [k \in Keys |-> NoTask]]
  /\ queue = [e \in Entries |-> <<>>]
  /\ sequence = [s \in Sessions |-> 0]
  /\ clock = 0

Producer ==
  \/ \E s \in Sessions, e \in Entries : Open(s, e)
  \/ \E p \in PromptIds, x \in Deadlines : Update(p, x)
  \/ \E p \in PromptIds, state \in {"cancelled", "resolved"} : Transition(p, state)
  \/ \E p \in PromptIds : ProviderClosed(p) \/ LegacyAnswer(p)
  \/ \E s \in Sessions : InvalidateSession(s)

Client ==
  \/ \E s \in Sessions, p \in PromptIds, k \in Keys :
       \E r \in {entry[e].rev : e \in {x \in Entries : Created(x)}} :
         Answer(s, p, k, r)
  \/ \E s \in Sessions : Sweep(s)

\* The registry's own steps: what the event loop runs without being asked.
Settle(e) ==
  \/ Refuse(e)
  \/ BeginWrite(e)
  \/ WriteLands(e)
  \/ WriteOvertaken(e)
  \/ WriteFails(e)
  \/ \E state \in {"cancelled", "unavailable"} : WriteFindsGone(e, state)

Next ==
  \/ Producer
  \/ Client
  \/ \E e \in Entries : Settle(e) \/ ExpiryTimer(e)
  \/ Tick

Spec == Init /\ [][Next]_vars

\* Promise reactions run, and every adapter call returns.
FairSpec == Spec /\ \A e \in Entries : WF_vars(Settle(e))

-----------------------------------------------------------------------------
(* Properties.                                                             *)

\* Every variable stays within its type (the classes PromptEntry and Prompt).
TypeOK ==
  /\ entry \in [Entries -> Record \cup {Unused}]
  /\ byId \in [PromptIds -> Entries \cup {NoEntry}]
  /\ task \in [Entries -> [Keys -> Task]]
  /\ queue \in [Entries -> Seq(Keys)]
  /\ sequence \in [Sessions -> Nat]
  /\ clock \in Nat

\* A prompt that still wants an answer can be found under its id: neither the
\* retention sweep, nor the cap, nor a replayed occurrence id ever drops or
\* shadows a live record (open, sweepExpired, enforceCap).
LiveIsReachable == \A e \in Entries : Live(e) => Held(e)

\* An id names a record that carries it.
IdsNameRecords ==
  \A p \in PromptIds : byId[p] # NoEntry =>
    Created(byId[p]) /\ entry[byId[p]].pid = p

\* Answers are queued for existing records only.
QueuesHaveRecords == \A e \in Entries : queue[e] # <<>> => Created(e)

\* The inductive invariant behind TypeOK and LiveIsReachable.
RegistryInv == TypeOK /\ IdsNameRecords /\ QueuesHaveRecords /\ LiveIsReachable

\* Answers to one prompt are written one at a time: only the oldest answer that
\* has not settled can be with the adapter, and a record is marked as being
\* answered only while one is (answer, performAnswer).
OneWriterPerPrompt ==
  \A e \in Entries :
    /\ \A k \in Keys : task[e][k].st = "writing" => Writing(e) /\ k = Head(queue[e])
    /\ Created(e) /\ entry[e].answering => Writing(e)

\* A client that was told "ok" answered the very revision that was resolved, and
\* is the only one that was told so, however answers, retries, revisions and
\* other routes interleave (performAnswer's checks after the adapter call).
AnswerResolvesItsRevision ==
  \A e \in Entries, k \in Keys :
    task[e][k].outcome = "ok" =>
      /\ entry[e].state = "resolved"
      /\ entry[e].rev = task[e][k].rev + 1
      /\ \A other \in Keys \ {k} : task[e][other].outcome # "ok"

\* Subscribers see every revision of every prompt once: the sequence number of a
\* session is the number of revisions its prompts went through (publish).
EveryRevisionPublished ==
  \A s \in Sessions :
    sequence[s] = MapThenSumSet(LAMBDA e : entry[e].rev,
                                {e \in Entries : Created(e) /\ entry[e].sess = s})

\* Clients are told what is: one answer is written at a time, the subscribers learn of
\* it by the events, the answerer by its outcome.
ToldAsItIs == OneWriterPerPrompt /\ EveryRevisionPublished /\ AnswerResolvesItsRevision

\* A record that reached a terminal state never changes again: a late close, a
\* late answer, an expiry or the end of the session cannot rewrite it.
TerminalIsFinal ==
  [][\A e \in Entries : Terminal(e) =>
       /\ entry'[e].state = entry[e].state
       /\ entry'[e].rev = entry[e].rev]_vars

\* A close seen while an answer was being written is never lost: when the marker
\* goes, the record is terminal (performAnswer's settle, whileAnswering).
DeferredCloseSettles ==
  [][\A e \in Entries :
       Created(e) /\ entry[e].deferred /\ ~entry'[e].deferred => Terminal(e)']_vars

\* An answer that was accepted into a queue gets its outcome.
EveryAnswerSettles ==
  \A e \in Entries, k \in Keys :
    task[e][k].st \in {"queued", "writing"} ~> task[e][k].st \in {"none", "done"}

\* Neither a close nor an answer is lost in the queue behind an adapter call.
NothingIsLost == DeferredCloseSettles /\ EveryAnswerSettles
=============================================================================
