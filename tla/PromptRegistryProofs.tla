------------------------ MODULE PromptRegistryProofs ------------------------
(* Theorems about PromptRegistry, for every value of its constants.        *)
EXTENDS PromptRegistry, FiniteSetTheorems, WellFoundedInduction, TLAPS

-----------------------------------------------------------------------------
(* Type correctness.  TypeOK alone is not inductive: settling an answer    *)
(* reads the record of the entry whose queue it is in, so an answer must   *)
(* never be queued for an entry that does not exist.                       *)

\* transition yields a record whenever it is given one.
LEMMA SettledType ==
  ASSUME NEW r \in Record, NEW state \in TerminalStates, clock \in Nat
  PROVE  /\ Settled(r, state) \in Record
         /\ Settled(r, state).state = state
         /\ Settled(r, state).pid = r.pid
         /\ Settled(r, state).sess = r.sess
         /\ Settled(r, state).rev = r.rev + 1
<1>1. r.rev \in Nat /\ r.rev + 1 \in Nat
  BY DEF Record
<1>2. clock \in Int
  OBVIOUS
<1> QED
  BY <1>1, <1>2 DEF Settled, Record, TerminalStates, LiveStates

\* A record that exists has the fields of a prompt.
LEMMA CreatedRecord ==
  ASSUME TypeOK, NEW e \in Entries
  PROVE  /\ Created(e) <=> entry[e] \in Record
         /\ Live(e) => entry[e] \in Record
         /\ Terminal(e) => entry[e] \in Record
BY DEF TypeOK, Created, Live, Terminal, Record, Unused, LiveStates, TerminalStates

\* sweepExpired keeps the types of what it changes.
LEMMA SweepType ==
  ASSUME TypeOK, NEW s \in Sessions
  PROVE  /\ SweptEntry(s) \in [Entries -> Record \cup {Unused}]
         /\ SweptById(s) \in [PromptIds -> Entries \cup {NoEntry}]
         /\ SweptSeq(s) \in Nat
<1>1. \A e \in DueIn(s) : e \in Entries /\ entry[e] \in Record
  BY CreatedRecord DEF DueIn, Owned, Due
<1>2. SweptEntry(s) \in [Entries -> Record \cup {Unused}]
  <2>1. \A e \in DueIn(s) : Settled(entry[e], "expired") \in Record
    BY <1>1, SettledType DEF TypeOK, TerminalStates
  <2> QED
    BY <2>1 DEF SweptEntry, TypeOK
<1>3. SweptById(s) \in [PromptIds -> Entries \cup {NoEntry}]
  BY DEF SweptById, Without, TypeOK
<1>4. IsFiniteSet(DueIn(s))
  BY EntriesAssumption, FS_Subset DEF DueIn, Owned
<1>5. SweptSeq(s) \in Nat
  BY <1>4, FS_CardinalityType DEF SweptSeq, TypeOK
<1> QED
  BY <1>2, <1>3, <1>5

\* The initial state is well typed.
LEMMA InitType == Init => TypeOK
BY DEF Init, TypeOK, NoTask, Task, Null

\* Each kind of step keeps the types.
LEMMA ProducerType ==
  ASSUME TypeOK, Producer
  PROVE  TypeOK'
<1> USE DEF TypeOK
<1>1. ASSUME NEW s \in Sessions, NEW e \in Entries, Open(s, e)
      PROVE  TypeOK'
  <2>1. PICK asked \in PromptIds, p \in PromptIds, x \in Deadlines : OpenAs(s, e, asked, p, x)
    BY <1>1 DEF Open
  <2>2. x \in Int
    BY LifetimesAssumption DEF Deadlines, Null
  <2>3. NewRecord(p, s, x) \in Record
    BY <2>2 DEF NewRecord, Record, LiveStates, Null
  <2>4. entry' \in [Entries -> Record \cup {Unused}]
    BY <2>1, <2>3, SweepType DEF OpenAs
  <2>5. byId' \in [PromptIds -> Entries \cup {NoEntry}]
    BY <2>1, SweepType DEF OpenAs, Without
  <2>6. sequence' \in [Sessions -> Nat]
    BY <2>1, SweepType DEF OpenAs
  <2> QED
    BY <2>1, <2>4, <2>5, <2>6 DEF OpenAs
<1>2. ASSUME NEW p \in PromptIds, NEW x \in Deadlines, Update(p, x)
      PROVE  TypeOK'
  <2> DEFINE e == byId[p]
             revised == Revised(entry[e], x)
  <2>1. e \in Entries /\ entry[e] \in Record /\ entry[e].rev + 1 \in Nat
    BY <1>2, CreatedRecord DEF Update, Record
  <2>2. x \in Int
    BY LifetimesAssumption DEF Deadlines, Null
  <2>3. revised \in Record
    BY <2>1, <2>2 DEF Revised, Record, LiveStates, TerminalStates
  <2>4. Settled(entry[e], "expired") \in Record
    BY <2>1, SettledType DEF TerminalStates
  <2>5. entry[e].sess \in Sessions
    BY <2>1 DEF Record
  <2>6. entry' = [entry EXCEPT ![e] = IF Due(e) THEN Settled(entry[e], "expired") ELSE revised]
    BY <1>2 DEF Update
  <2>7. entry' \in [Entries -> Record \cup {Unused}]
    BY <2>1, <2>3, <2>4, <2>6
  <2> QED
    BY <1>2, <2>1, <2>5, <2>7 DEF Update, Publish
<1>3. ASSUME NEW p \in PromptIds, NEW state \in {"cancelled", "resolved"}, Transition(p, state)
      PROVE  TypeOK'
  <2> DEFINE e == byId[p]
  <2>1. e \in Entries /\ entry[e] \in Record
    BY <1>3, CreatedRecord DEF Transition
  <2>2. Settled(entry[e], state) \in Record
    BY <2>1, SettledType DEF TerminalStates
  <2>3. entry[e].sess \in Sessions
    BY <2>1 DEF Record
  <2> QED
    BY <1>3, <2>1, <2>2, <2>3 DEF Transition, Publish
<1>4. ASSUME NEW p \in PromptIds, ProviderClosed(p)
      PROVE  TypeOK'
  <2> DEFINE e == byId[p]
  <2>1. e \in Entries /\ entry[e] \in Record
    BY <1>4, CreatedRecord DEF ProviderClosed
  <2>2. Settled(entry[e], "cancelled") \in Record
    BY <2>1, SettledType DEF TerminalStates
  <2>3. [entry[e] EXCEPT !.deferred = TRUE] \in Record
    BY <2>1 DEF Record
  <2>4. entry[e].sess \in Sessions
    BY <2>1 DEF Record
  <2> QED
    BY <1>4, <2>1, <2>2, <2>3, <2>4 DEF ProviderClosed, AfterClose, Publish
<1>5. ASSUME NEW p \in PromptIds, LegacyAnswer(p)
      PROVE  TypeOK'
  <2> DEFINE e == byId[p]
             closed == [entry[e] EXCEPT !.answering = FALSE, !.deferred = FALSE]
  <2>1. e \in Entries
    BY <1>5 DEF LegacyAnswer
  <2>2. CASE entry[e] \in Record
    <3>1. closed \in Record
      BY <2>2 DEF Record
    <3>2. Settled(closed, "resolved") \in Record
      BY <3>1, SettledType DEF TerminalStates
    <3>3. entry[e].sess \in Sessions
      BY <2>2 DEF Record
    <3> QED
      BY <1>5, <2>1, <3>1, <3>2, <3>3 DEF LegacyAnswer, Publish
  <2>3. CASE entry[e] = Unused
    <3>1. closed = Unused
      BY <2>3 DEF Unused
    <3>2. ~Live(e)
      BY <2>3 DEF Live, Unused, LiveStates
    <3> QED
      BY <1>5, <2>1, <3>1, <3>2 DEF LegacyAnswer
  <2> QED
    BY <2>1, <2>2, <2>3
<1>6. ASSUME NEW s \in Sessions, InvalidateSession(s)
      PROVE  TypeOK'
  <2> DEFINE live == {e \in Owned(s) : Live(e)}
  <2>1. \A e \in live : e \in Entries /\ entry[e] \in Record
    BY CreatedRecord DEF Owned
  <2>2. \A e \in live : Settled(entry[e], "unavailable") \in Record
    BY <2>1, SettledType DEF TerminalStates
  <2>3. IsFiniteSet(live)
    BY EntriesAssumption, FS_Subset DEF Owned
  <2>4. Cardinality(live) \in Nat
    BY <2>3, FS_CardinalityType
  <2> QED
    BY <1>6, <2>1, <2>2, <2>4 DEF InvalidateSession
<1> QED
  BY <1>1, <1>2, <1>3, <1>4, <1>5, <1>6 DEF Producer

LEMMA AnswerType ==
  ASSUME TypeOK, NEW s \in Sessions, NEW p \in PromptIds, NEW k \in Keys,
         NEW r \in Nat, Answer(s, p, k, r)
  PROVE  TypeOK'
<1> DEFINE e == SweptById(s)[p]
           tasks == Pruned(task[e])
<1>1. e \in Entries
  BY SweepType DEF Answer
<1>2. task[e] \in [Keys -> Task]
  BY <1>1 DEF TypeOK
<1>3. NoTask \in Task /\ Queued(r) \in Task
  <2>1. NoTask \in Task
    BY DEF NoTask, Task, Null
  <2> QED
    BY <2>1 DEF Queued, Task
<1>4. tasks \in [Keys -> Task]
  BY <1>2, <1>3 DEF Pruned
<1>5. task' \in [Entries -> [Keys -> Task]]
  BY <1>1, <1>3, <1>4 DEF Answer, TypeOK
<1>6. queue' \in [Entries -> Seq(Keys)]
  BY <1>1 DEF Answer, TypeOK
<1> QED
  BY <1>5, <1>6, SweepType DEF Answer, TypeOK

\* The head of a non-empty queue is a key, and its task settles to a task.
LEMMA FinishType ==
  ASSUME TypeOK, NEW e \in Entries, NEW o \in Outcomes, queue[e] # <<>>, Finish(e, o)
  PROVE  /\ task' \in [Entries -> [Keys -> Task]]
         /\ queue' \in [Entries -> Seq(Keys)]
<1>1. queue[e] \in Seq(Keys)
  BY DEF TypeOK
<1>2. Head(queue[e]) \in Keys /\ Tail(queue[e]) \in Seq(Keys)
  BY <1>1
<1>3. HeadTask(e) \in Task
  BY <1>2 DEF TypeOK, HeadTask
<1>4. Done(HeadTask(e), o) \in Task
  <2>1. clock \in Int
    BY DEF TypeOK
  <2> QED
    BY <1>3, <2>1 DEF Done, Task
<1>5. task' = [task EXCEPT ![e][Head(queue[e])] = Done(HeadTask(e), o)]
  BY DEF Finish, HeadTask
<1> QED
  BY <1>2, <1>4, <1>5 DEF Finish, TypeOK

LEMMA SettleType ==
  ASSUME TypeOK, QueuesHaveRecords, NEW e \in Entries, Settle(e)
  PROVE  TypeOK'
<1>1. CASE Refuse(e)
  <2>1. queue[e] # <<>>
    BY <1>1 DEF Refuse
  <2>2. PICK o \in Outcomes : Finish(e, o)
    BY <1>1 DEF Refuse, Outcomes
  <2>3. \/ UNCHANGED <<entry, sequence>>
        \/ /\ Due(e)
           /\ entry' = [entry EXCEPT ![e] = Settled(entry[e], "expired")]
           /\ Publish(entry[e].sess)
    BY <1>1 DEF Refuse
  <2>4. entry' \in [Entries -> Record \cup {Unused}] /\ sequence' \in [Sessions -> Nat]
    <3>1. CASE UNCHANGED <<entry, sequence>>
      BY <3>1 DEF TypeOK
    <3>2. CASE /\ Due(e)
               /\ entry' = [entry EXCEPT ![e] = Settled(entry[e], "expired")]
               /\ Publish(entry[e].sess)
      <4>1. entry[e] \in Record
        BY <3>2, CreatedRecord DEF Due
      <4>2. Settled(entry[e], "expired") \in Record /\ entry[e].sess \in Sessions
        BY <4>1, SettledType DEF TypeOK, TerminalStates, Record
      <4> QED
        BY <3>2, <4>2 DEF TypeOK, Publish
    <3> QED
      BY <2>3, <3>1, <3>2
  <2> QED
    BY <1>1, <2>1, <2>2, <2>4, FinishType DEF Refuse, TypeOK
<1>2. CASE BeginWrite(e)
  <2>1. queue[e] \in Seq(Keys) /\ queue[e] # <<>>
    BY <1>2 DEF BeginWrite, TypeOK
  <2>2. Head(queue[e]) \in Keys
    BY <2>1
  <2>3. entry[e] \in Record /\ task[e][Head(queue[e])] \in Task
    BY <1>2, <2>2, CreatedRecord DEF BeginWrite, TypeOK
  <2>4. /\ [entry[e] EXCEPT !.answering = TRUE] \in Record
        /\ [task[e][Head(queue[e])] EXCEPT !.st = "writing"] \in Task
    BY <2>3 DEF Record, Task
  <2> QED
    BY <1>2, <2>2, <2>4 DEF BeginWrite, TypeOK
<1>3. ASSUME Writing(e)
      PROVE  queue[e] # <<>> /\ (Created(e) => Unmarked(e) \in Record)
  BY <1>3, CreatedRecord DEF Writing, Unmarked, Record
<1>4. ASSUME NEW state \in TerminalStates, NEW o \in Outcomes,
             Writing(e), Live(e), UNCHANGED <<byId, clock>>,
             entry' = [entry EXCEPT ![e] = Settled(Unmarked(e), state)],
             Publish(entry[e].sess), Finish(e, o)
      PROVE  TypeOK'
  <2>1. entry[e] \in Record /\ Unmarked(e) \in Record
    BY <1>3, <1>4, CreatedRecord DEF Live, Created
  <2>2. Settled(Unmarked(e), state) \in Record /\ entry[e].sess \in Sessions
    BY <2>1, SettledType DEF TypeOK, Record
  <2> QED
    BY <1>3, <1>4, <2>2, FinishType DEF TypeOK, Publish
<1>5. CASE WriteLands(e)
  BY <1>4, <1>5 DEF WriteLands, TerminalStates, Outcomes
<1>6. CASE \E state \in {"cancelled", "unavailable"} : WriteFindsGone(e, state)
  BY <1>4, <1>6 DEF WriteFindsGone, TerminalStates, Outcomes
<1>7. ASSUME NEW o \in Outcomes, Writing(e), Finish(e, o), Created(e),
             SettleDeferred([entry EXCEPT ![e] = Unmarked(e)], e),
             UNCHANGED <<byId, clock>>
      PROVE  TypeOK'
  <2> DEFINE ent == [entry EXCEPT ![e] = Unmarked(e)]
             now == byId[ent[e].pid]
  <2>1. ent \in [Entries -> Record \cup {Unused}]
    BY <1>3, <1>7 DEF TypeOK
  <2>2. CASE entry' = ent /\ UNCHANGED sequence
    BY <1>3, <1>7, <2>1, <2>2, FinishType DEF TypeOK
  <2>3. CASE /\ now # NoEntry
             /\ ent[now].state \in LiveStates
             /\ entry' = AfterClose(ent, now)
             /\ IF ent[now].answering THEN UNCHANGED sequence ELSE Publish(ent[now].sess)
    <3>1. ent[e] \in Record
      BY <1>3, <1>7 DEF TypeOK
    <3>2. now \in Entries
      BY <2>3, <3>1 DEF TypeOK, Record
    <3>3. ent[now] \in Record
      <4>1. ent[now] \in Record \cup {Unused}
        BY <2>1, <3>2
      <4>2. Unused.state \notin LiveStates
        BY DEF Unused, LiveStates
      <4> QED
        BY <2>3, <4>1, <4>2
    <3>4. /\ Settled(ent[now], "cancelled") \in Record
          /\ [ent[now] EXCEPT !.deferred = TRUE] \in Record
          /\ ent[now].sess \in Sessions
      BY <3>3, SettledType DEF TypeOK, TerminalStates, Record
    <3>5. entry' \in [Entries -> Record \cup {Unused}]
      BY <2>1, <2>3, <3>2, <3>4 DEF AfterClose
    <3>6. sequence' \in [Sessions -> Nat]
      BY <2>3, <3>4 DEF TypeOK, Publish
    <3> QED
      BY <1>3, <1>7, <3>5, <3>6, FinishType DEF TypeOK
  <2> QED
    BY <1>7, <2>2, <2>3 DEF SettleDeferred
<1>8. CASE WriteOvertaken(e)
  BY <1>7, <1>8 DEF WriteOvertaken, QueuesHaveRecords, Writing, Outcomes
<1>9. CASE WriteFails(e)
  BY <1>7, <1>9 DEF WriteFails, QueuesHaveRecords, Writing, Outcomes
<1> QED
  BY <1>1, <1>2, <1>5, <1>6, <1>8, <1>9 DEF Settle

-----------------------------------------------------------------------------
(* The invariant.                                                          *)

(* What a step other than open may do to a record, and so to the maps.     *)

Evolves(r, after) ==
  /\ r = Unused => after = Unused
  /\ r \in Record =>
       /\ after \in Record
       /\ after.pid = r.pid
       /\ after.sess = r.sess
       /\ r.state \in TerminalStates => after.state = r.state /\ after.rev = r.rev

\* transition is applied to live records only.
LEMMA SettledEvolves ==
  ASSUME NEW r \in Record, r.state \in LiveStates, NEW state \in TerminalStates, clock \in Nat
  PROVE  Evolves(r, Settled(r, state))
<1>1. r.state \notin TerminalStates
  BY DEF LiveStates, TerminalStates
<1> QED
  BY <1>1, SettledType DEF Evolves, Record, Unused

\* The markers of a record carry no part of its history.
LEMMA MarkersEvolve ==
  ASSUME NEW r \in Record, NEW a \in BOOLEAN, NEW d \in BOOLEAN
  PROVE  /\ [r EXCEPT !.answering = a, !.deferred = d] \in Record
         /\ [r EXCEPT !.answering = a] \in Record
         /\ [r EXCEPT !.deferred = d] \in Record
         /\ Evolves(r, [r EXCEPT !.answering = a, !.deferred = d])
         /\ Evolves(r, [r EXCEPT !.answering = a])
         /\ Evolves(r, [r EXCEPT !.deferred = d])
BY DEF Evolves, Record, Unused

LEMMA EvolvesReflexive ==
  ASSUME NEW r PROVE Evolves(r, r)
BY DEF Evolves

LEMMA EvolvesTransitive ==
  ASSUME NEW r, NEW mid, NEW after, r \in Record \cup {Unused},
         Evolves(r, mid), Evolves(mid, after)
  PROVE  Evolves(r, after)
BY DEF Evolves

\* Record and Unused are disjoint, so a record never becomes Unused again.
LEMMA UnusedIsNoRecord == Unused \notin Record
BY DEF Unused, Record, LiveStates, TerminalStates

LEMMA SweepEvolves ==
  ASSUME TypeOK, NEW s \in Sessions
  PROVE  \A e \in Entries : Evolves(entry[e], SweptEntry(s)[e])
<1> SUFFICES ASSUME NEW e \in Entries PROVE Evolves(entry[e], SweptEntry(s)[e])
  OBVIOUS
<1>1. CASE e \in DueIn(s)
  <2>1. entry[e] \in Record /\ entry[e].state \in LiveStates
    BY <1>1, CreatedRecord DEF DueIn, Due, Live
  <2>2. Evolves(entry[e], Settled(entry[e], "expired"))
    BY <2>1, SettledEvolves DEF TypeOK, TerminalStates
  <2> QED
    BY <1>1, <2>2 DEF SweptEntry
<1>2. CASE e \notin DueIn(s)
  BY <1>2, EvolvesReflexive DEF SweptEntry
<1> QED
  BY <1>1, <1>2

\* Changing one record by a step that evolves it.
LEMMA OneEvolves ==
  ASSUME TypeOK, NEW e \in Entries, NEW after, Evolves(entry[e], after),
         entry' = [entry EXCEPT ![e] = after]
  PROVE  \A x \in Entries : Evolves(entry[x], entry'[x])
BY EvolvesReflexive DEF TypeOK

\* Everything a producer does but open.
LEMMA ProducerEvolves ==
  ASSUME TypeOK, Producer, ~ \E s \in Sessions, e \in Entries : Open(s, e)
  PROVE  \A e \in Entries : Evolves(entry[e], entry'[e])
<1>1. ASSUME NEW e \in Entries, Live(e)
      PROVE  /\ entry[e] \in Record
             /\ \A state \in TerminalStates : Evolves(entry[e], Settled(entry[e], state))
  BY <1>1, CreatedRecord, SettledEvolves DEF Live, TypeOK
<1>2. ASSUME NEW p \in PromptIds, NEW x \in Deadlines, Update(p, x)
      PROVE  \A e \in Entries : Evolves(entry[e], entry'[e])
  <2> DEFINE e == byId[p]
             after == IF Due(e) THEN Settled(entry[e], "expired") ELSE Revised(entry[e], x)
  <2>1. e \in Entries /\ Live(e) /\ entry' = [entry EXCEPT ![e] = after]
    BY <1>2 DEF Update, TypeOK
  <2>2. x \in Int
    BY LifetimesAssumption DEF Deadlines, Null, TypeOK
  <2>3. Evolves(entry[e], Revised(entry[e], x))
    <3>1. entry[e] \in Record /\ entry[e].state \notin TerminalStates /\ entry[e].rev + 1 \in Nat
      BY <1>1, <2>1 DEF Live, LiveStates, TerminalStates, Record
    <3>2. Revised(entry[e], x) \in Record
      BY <2>2, <3>1 DEF Revised, Record, LiveStates, TerminalStates
    <3> QED
      BY <3>1, <3>2, UnusedIsNoRecord DEF Evolves, Revised, Record
  <2>4. Evolves(entry[e], after)
    BY <1>1, <2>1, <2>3 DEF TerminalStates
  <2> QED
    BY <2>1, <2>4, OneEvolves
<1>3. ASSUME NEW p \in PromptIds, NEW state \in {"cancelled", "resolved"}, Transition(p, state)
      PROVE  \A e \in Entries : Evolves(entry[e], entry'[e])
  BY <1>1, <1>3, OneEvolves DEF Transition, TypeOK, TerminalStates
<1>4. ASSUME NEW p \in PromptIds, ProviderClosed(p)
      PROVE  \A e \in Entries : Evolves(entry[e], entry'[e])
  <2>1. byId[p] \in Entries /\ Live(byId[p])
    BY <1>4 DEF ProviderClosed, TypeOK
  <2>2. Evolves(entry[byId[p]], [entry[byId[p]] EXCEPT !.deferred = TRUE])
    BY <1>1, <2>1, MarkersEvolve
  <2> QED
    BY <1>1, <1>4, <2>1, <2>2, OneEvolves DEF ProviderClosed, AfterClose, TerminalStates
<1>5. ASSUME NEW p \in PromptIds, LegacyAnswer(p)
      PROVE  \A e \in Entries : Evolves(entry[e], entry'[e])
  <2> DEFINE e == byId[p]
             closed == [entry[e] EXCEPT !.answering = FALSE, !.deferred = FALSE]
             after == IF Live(e) THEN Settled(closed, "resolved") ELSE closed
  <2>1. e \in Entries /\ entry' = [entry EXCEPT ![e] = after]
    BY <1>5 DEF LegacyAnswer, TypeOK
  <2>2. CASE entry[e] = Unused
    <3>1. closed = Unused
      BY <2>2 DEF Unused
    <3>2. ~Live(e)
      BY <2>2 DEF Unused, Live, LiveStates
    <3> QED
      BY <2>1, <2>2, <3>1, <3>2, OneEvolves, EvolvesReflexive
  <2>3. CASE entry[e] \in Record
    <3>1. closed \in Record /\ Evolves(entry[e], closed) /\ closed.state = entry[e].state
      BY <2>3, MarkersEvolve DEF Record
    <3>2. Live(e) => Evolves(closed, Settled(closed, "resolved"))
      BY <3>1, SettledEvolves DEF Live, TypeOK, TerminalStates
    <3>3. Evolves(entry[e], after)
      BY <2>3, <3>1, <3>2, EvolvesTransitive
    <3> QED
      BY <2>1, <3>3, OneEvolves
  <2> QED
    BY <2>1, <2>2, <2>3 DEF TypeOK
<1>6. ASSUME NEW s \in Sessions, InvalidateSession(s)
      PROVE  \A e \in Entries : Evolves(entry[e], entry'[e])
  BY <1>1, <1>6, EvolvesReflexive DEF InvalidateSession, Owned, TerminalStates
<1> QED
  BY <1>2, <1>3, <1>4, <1>5, <1>6 DEF Producer

LEMMA SettleEvolves ==
  ASSUME TypeOK, QueuesHaveRecords, NEW e \in Entries, Settle(e) \/ ExpiryTimer(e)
  PROVE  \A x \in Entries : Evolves(entry[x], entry'[x])
<1>1. ASSUME Live(e)
      PROVE  /\ entry[e] \in Record
             /\ Unmarked(e) \in Record
             /\ \A state \in TerminalStates :
                  /\ Evolves(entry[e], Settled(entry[e], state))
                  /\ Evolves(entry[e], Settled(Unmarked(e), state))
  <2>1. entry[e] \in Record
    BY <1>1, CreatedRecord
  <2>2. Unmarked(e) \in Record /\ Unmarked(e).state = entry[e].state
        /\ Evolves(entry[e], Unmarked(e))
    BY <2>1, MarkersEvolve DEF Unmarked, Record
  <2> QED
    BY <1>1, <2>1, <2>2, SettledEvolves, EvolvesTransitive DEF Live, TypeOK
<1>2. CASE Refuse(e) \/ ExpiryTimer(e)
  BY <1>1, <1>2, OneEvolves, EvolvesReflexive DEF Refuse, ExpiryTimer, Due, TerminalStates
<1>3. CASE BeginWrite(e)
  BY <1>1, <1>3, MarkersEvolve, OneEvolves DEF BeginWrite
<1>4. CASE WriteLands(e)
  BY <1>1, <1>4, OneEvolves DEF WriteLands, TerminalStates
<1>5. CASE \E state \in {"cancelled", "unavailable"} : WriteFindsGone(e, state)
  BY <1>1, <1>5, OneEvolves DEF WriteFindsGone, TerminalStates
<1>6. ASSUME Writing(e), SettleDeferred([entry EXCEPT ![e] = Unmarked(e)], e)
      PROVE  \A x \in Entries : Evolves(entry[x], entry'[x])
  <2> DEFINE ent == [entry EXCEPT ![e] = Unmarked(e)]
             now == byId[ent[e].pid]
  <2>1. entry[e] \in Record
    BY <1>6, CreatedRecord DEF Writing, QueuesHaveRecords
  <2>2. Unmarked(e) \in Record /\ Evolves(entry[e], Unmarked(e))
    BY <2>1, MarkersEvolve DEF Unmarked
  <2>3. ent \in [Entries -> Record \cup {Unused}] /\ ent[e] \in Record
    BY <2>2 DEF TypeOK
  <2>4. \A x \in Entries : Evolves(entry[x], ent[x])
    BY <2>2, EvolvesReflexive DEF TypeOK
  <2>5. CASE entry' = ent
    BY <2>4, <2>5
  <2>6. CASE now # NoEntry /\ ent[now].state \in LiveStates /\ entry' = AfterClose(ent, now)
    <3>1. now \in Entries
      BY <2>3, <2>6 DEF TypeOK, Record
    <3>2. ent[now] \in Record
      <4>1. ent[now] \in Record \cup {Unused}
        BY <2>3, <3>1
      <4>2. Unused.state \notin LiveStates
        BY DEF Unused, LiveStates
      <4> QED
        BY <2>6, <4>1, <4>2
    <3>3. /\ Evolves(ent[now], Settled(ent[now], "cancelled"))
          /\ Evolves(ent[now], [ent[now] EXCEPT !.deferred = TRUE])
      BY <2>6, <3>2, SettledEvolves, MarkersEvolve DEF TypeOK, TerminalStates
    <3>4. \A x \in Entries : Evolves(ent[x], entry'[x])
      BY <2>3, <2>6, <3>1, <3>3, EvolvesReflexive DEF AfterClose
    <3> QED
      BY <2>3, <2>4, <3>4, EvolvesTransitive DEF TypeOK
  <2> QED
    BY <1>6, <2>5, <2>6 DEF SettleDeferred
<1>7. CASE WriteOvertaken(e) \/ WriteFails(e)
  BY <1>6, <1>7 DEF WriteOvertaken, WriteFails
<1> QED
  BY <1>2, <1>3, <1>4, <1>5, <1>7 DEF Settle

-----------------------------------------------------------------------------
(* Every step but open evolves each record in place, forgets only ids of   *)
(* terminal records, and queues answers for existing records.              *)

LEMMA QuietStep ==
  ASSUME RegistryInv, Next, ~ \E s \in Sessions, e \in Entries : Open(s, e)
  PROVE  /\ \A e \in Entries : Evolves(entry[e], entry'[e])
         /\ \A p \in PromptIds : byId'[p] = byId[p]
              \/ (byId'[p] = NoEntry /\ byId[p] \in Entries /\ Terminal(byId[p]))
         /\ \A e \in Entries : queue'[e] # <<>> => queue[e] # <<>> \/ Created(e)
<1> DEFINE Goal ==
      /\ \A e \in Entries : Evolves(entry[e], entry'[e])
      /\ \A p \in PromptIds : byId'[p] = byId[p]
           \/ (byId'[p] = NoEntry /\ byId[p] \in Entries /\ Terminal(byId[p]))
      /\ \A e \in Entries : queue'[e] # <<>> => queue[e] # <<>> \/ Created(e)
<1> SUFFICES Goal
  OBVIOUS
<1> USE DEF RegistryInv
<1>1. CASE Producer
  <2>1. UNCHANGED <<byId, queue>>
    BY <1>1 DEF Producer, Update, Transition, ProviderClosed, LegacyAnswer, InvalidateSession
  <2> QED
    BY <1>1, <2>1, ProducerEvolves
<1>2. ASSUME NEW s \in Sessions, byId' = SweptById(s)
      PROVE  \A p \in PromptIds : byId'[p] = byId[p]
               \/ (byId'[p] = NoEntry /\ byId[p] \in Entries /\ Terminal(byId[p]))
  BY <1>2 DEF SweptById, Without, Overdue, Owned
<1>3. ASSUME NEW s \in Sessions, Sweep(s)
      PROVE  Goal
  BY <1>2, <1>3, SweepEvolves DEF Sweep
<1>4. ASSUME NEW s \in Sessions, NEW p \in PromptIds, NEW k \in Keys, NEW r, Answer(s, p, k, r)
      PROVE  Goal
  <2> DEFINE e == SweptById(s)[p]
  <2>1. e # NoEntry
    BY <1>4 DEF Answer
  <2>2. e = byId[p]
    BY <2>1 DEF SweptById, Without
  <2>3. Created(e)
    BY <2>1, <2>2 DEF IdsNameRecords
  <2>4. queue' = queue \/ queue' = [queue EXCEPT ![e] = Append(@, k)]
    BY <1>4 DEF Answer
  <2>5. \A x \in Entries : x # e => queue'[x] = queue[x]
    BY <2>4 DEF TypeOK
  <2>6. \A x \in Entries : queue'[x] # <<>> => queue[x] # <<>> \/ Created(x)
    BY <2>3, <2>5
  <2>7. entry' = SweptEntry(s) /\ byId' = SweptById(s)
    BY <1>4 DEF Answer
  <2> QED
    BY <1>2, <2>6, <2>7, SweepEvolves
<1>5. CASE Client
  BY <1>3, <1>4, <1>5 DEF Client
<1>6. ASSUME NEW e \in Entries, Settle(e) \/ ExpiryTimer(e)
      PROVE  Goal
  <2>1. UNCHANGED byId
    BY <1>6 DEF Settle, ExpiryTimer, Refuse, BeginWrite, WriteLands, WriteOvertaken,
                WriteFails, WriteFindsGone
  <2>2. CASE ExpiryTimer(e) \/ BeginWrite(e)
    BY <1>6, <2>1, <2>2, SettleEvolves DEF ExpiryTimer, BeginWrite
  <2>3. CASE ~(ExpiryTimer(e) \/ BeginWrite(e))
    <3>1. queue[e] # <<>> /\ \E o \in Outcomes : Finish(e, o)
      BY <1>6, <2>3 DEF Settle, Refuse, WriteLands, WriteOvertaken, WriteFails,
                        WriteFindsGone, Writing, Outcomes
    <3>2. queue' = [queue EXCEPT ![e] = Tail(queue[e])]
      BY <3>1 DEF Finish
    <3>3. \A x \in Entries : x # e => queue'[x] = queue[x]
      BY <3>2 DEF TypeOK
    <3>4. \A x \in Entries : queue'[x] # <<>> => queue[x] # <<>>
      BY <3>1, <3>3
    <3> QED
      BY <1>6, <2>1, <3>4, SettleEvolves
  <2> QED
    BY <2>2, <2>3
<1>7. CASE Tick
  BY <1>7, EvolvesReflexive DEF Tick
<1> QED
  BY <1>1, <1>5, <1>6, <1>7 DEF Next

\* open creates one record under an id no live record has.
LEMMA OpenStep ==
  ASSUME RegistryInv, NEW s \in Sessions, NEW e \in Entries, Open(s, e)
  PROVE  /\ entry[e] = Unused /\ Live(e)' /\ Held(e)'
         /\ \A x \in Entries \ {e} : Evolves(entry[x], entry'[x])
         /\ \A x \in Entries \ {e} : Live(x) => byId'[entry[x].pid] = x \/ Terminal(x)'
         /\ \A p \in PromptIds : byId'[p] \in {byId[p], NoEntry} \/ (byId'[p] = e /\ entry'[e].pid = p)
         /\ UNCHANGED <<queue, task>>
<1>1. PICK asked \in PromptIds, p \in PromptIds, x \in Deadlines : OpenAs(s, e, asked, p, x)
  BY DEF Open
<1> DEFINE new == NewRecord(p, s, x)
           ent == [SweptEntry(s) EXCEPT ![e] = new]
           ids == [SweptById(s) EXCEPT ![p] = e]
           owned == {y \in Entries : /\ ent[y].state # "unused"
                                     /\ ids[ent[y].pid] = y
                                     /\ ent[y].sess = s}
<1>2. PICK gone \in CapVictims(ent, owned) : byId' = Without(ids, gone)
  BY <1>1 DEF OpenAs
<1>3. entry' = ent /\ UNCHANGED <<queue, task>> /\ ~Created(e)
  BY <1>1 DEF OpenAs
<1>4. SweptEntry(s) \in [Entries -> Record \cup {Unused}]
  BY SweepType DEF RegistryInv
<1>5. SweptById(s) \in [PromptIds -> Entries \cup {NoEntry}]
  BY SweepType DEF RegistryInv
<1>6. ent[e] = new /\ \A y \in Entries \ {e} : ent[y] = SweptEntry(s)[y]
  BY <1>4
<1>7. new.state = "open" /\ new.pid = p
  BY DEF NewRecord
<1>8. gone \subseteq Entries \ {e} /\ \A y \in gone : ent[y].state \in TerminalStates
  <2>1. gone \subseteq {y \in owned : ent[y].state \in TerminalStates}
    BY <1>2 DEF CapVictims
  <2>2. ent[e].state \notin TerminalStates
    BY <1>6, <1>7 DEF TerminalStates
  <2> QED
    BY <2>1, <2>2
<1>9. \A q \in PromptIds : byId'[q] = IF ids[q] \in gone THEN NoEntry ELSE ids[q]
  BY <1>2 DEF Without
<1>10. ids[p] = e /\ \A q \in PromptIds \ {p} : ids[q] = SweptById(s)[q]
  BY <1>5
<1>11. \A q \in PromptIds : SweptById(s)[q] \in {byId[q], NoEntry}
  BY DEF SweptById, Without
<1>12. entry[e] = Unused
  BY <1>3 DEF Created, RegistryInv, TypeOK, Record, LiveStates, TerminalStates
<1>13. Live(e)' /\ Held(e)'
  <2>1. byId'[p] = e
    BY <1>8, <1>9, <1>10
  <2> QED
    BY <1>3, <1>6, <1>7, <2>1 DEF Live, Held, Created, LiveStates
<1>14. \A x1 \in Entries \ {e} : Evolves(entry[x1], entry'[x1])
  BY <1>3, <1>6, SweepEvolves DEF RegistryInv
<1>15. ASSUME NEW y \in Entries \ {e}, Live(y)
       PROVE  byId'[entry[y].pid] = y \/ Terminal(y)'
  <2>1. entry[y] \in Record /\ entry[y].pid \in PromptIds
    BY <1>15, CreatedRecord DEF RegistryInv, Record
  <2>2. byId[entry[y].pid] = y
    BY <1>15 DEF RegistryInv, LiveIsReachable, Held
  <2>3. y \notin Overdue(s)
    BY <1>15 DEF Overdue, Terminal, Live, LiveStates, TerminalStates
  <2>4. SweptById(s)[entry[y].pid] = y
    BY <2>1, <2>2, <2>3 DEF SweptById, Without
  <2>5. entry[y].pid # p
    <3>1. CASE SweptById(s)[asked] = NoEntry
      BY <1>1, <2>4, <3>1, EntriesAssumption DEF OpenAs
    <3>2. CASE SweptById(s)[asked] # NoEntry
      <4>1. FreshId(p)
        BY <1>1, <3>2 DEF OpenAs
      <4>2. Created(y)
        BY <1>15 DEF Live, Created, LiveStates
      <4> QED
        BY <4>1, <4>2 DEF FreshId
    <3> QED
      BY <3>1, <3>2
  <2>6. ids[entry[y].pid] = y
    BY <1>10, <2>1, <2>4, <2>5
  <2>7. y \in gone => Terminal(y)'
    BY <1>3, <1>8 DEF Terminal
  <2> QED
    BY <1>9, <2>1, <2>6, <2>7
<1>16. ASSUME NEW q \in PromptIds
       PROVE  byId'[q] \in {byId[q], NoEntry} \/ (byId'[q] = e /\ entry'[e].pid = q)
  BY <1>3, <1>6, <1>7, <1>9, <1>10, <1>11
<1> QED
  BY <1>3, <1>12, <1>13, <1>14, <1>15, <1>16

-----------------------------------------------------------------------------
(* The invariant is inductive.                                             *)

LEMMA InitInv == Init => RegistryInv
<1> SUFFICES ASSUME Init PROVE RegistryInv
  OBVIOUS
<1>1. \A e \in Entries : ~Live(e) /\ queue[e] = <<>>
  BY DEF Init, Live, Unused, LiveStates
<1>2. \A p \in PromptIds : byId[p] = NoEntry
  BY DEF Init
<1> QED
  BY <1>1, <1>2, InitType DEF RegistryInv, IdsNameRecords, QueuesHaveRecords, LiveIsReachable

LEMMA NextType ==
  ASSUME TypeOK, QueuesHaveRecords, Next
  PROVE  TypeOK'
<1>1. ASSUME NEW s \in Sessions, Sweep(s)
      PROVE  TypeOK'
  BY <1>1, SweepType DEF Sweep, TypeOK
<1>2. ASSUME NEW s \in Sessions, NEW p \in PromptIds, NEW k \in Keys,
             NEW e \in Entries, Created(e), Answer(s, p, k, entry[e].rev)
      PROVE  TypeOK'
  <2>1. entry[e].rev \in Nat
    BY <1>2, CreatedRecord DEF Record
  <2> QED
    BY <1>2, <2>1, AnswerType
<1>3. ASSUME NEW e \in Entries, ExpiryTimer(e)
      PROVE  TypeOK'
  <2>1. entry[e] \in Record
    BY <1>3, CreatedRecord DEF ExpiryTimer, Due
  <2>2. Settled(entry[e], "expired") \in Record /\ entry[e].sess \in Sessions
    BY <2>1, SettledType DEF TypeOK, TerminalStates, Record
  <2> QED
    BY <1>3, <2>2 DEF ExpiryTimer, TypeOK, Publish
<1>4. CASE Tick
  BY <1>4 DEF Tick, TypeOK
<1> QED
  BY <1>1, <1>2, <1>3, <1>4, ProducerType, SettleType DEF Next, Client

LEMMA NextInv ==
  ASSUME RegistryInv, [Next]_vars
  PROVE  RegistryInv'
<1>1. CASE UNCHANGED vars
  <2>1. UNCHANGED <<entry, byId, task, queue, sequence, clock>>
    BY <1>1 DEF vars
  <2> QED
    BY <2>1 DEF RegistryInv, TypeOK, IdsNameRecords, QueuesHaveRecords, LiveIsReachable,
                Created, Live, Held
<1>2. CASE Next /\ ~ \E s \in Sessions, e \in Entries : Open(s, e)
  <2>1. TypeOK'
    BY <1>2, NextType DEF RegistryInv
  <2>2. \A e \in Entries : (Created(e) => Created(e)' /\ entry'[e].pid = entry[e].pid)
                           /\ (Live(e)' => Live(e))
                           /\ (Terminal(e) => Terminal(e)')
    <3> SUFFICES ASSUME NEW e \in Entries
                 PROVE  /\ Created(e) => Created(e)' /\ entry'[e].pid = entry[e].pid
                        /\ Live(e)' => Live(e)
                        /\ Terminal(e) => Terminal(e)'
      OBVIOUS
    <3>1. Evolves(entry[e], entry'[e])
      BY <1>2, QuietStep
    <3>2. entry[e] \in Record \cup {Unused}
      BY DEF RegistryInv, TypeOK
    <3>3. CASE entry[e] = Unused
      BY <3>1, <3>3 DEF Evolves, Unused, Created, Live, Terminal, LiveStates, TerminalStates
    <3>4. CASE entry[e] \in Record
      BY <3>1, <3>4 DEF Evolves, Record, Created, Live, Terminal, LiveStates, TerminalStates
    <3> QED
      BY <3>2, <3>3, <3>4
  <2>3. IdsNameRecords'
    BY <1>2, <2>2, QuietStep, EntriesAssumption, SMTT(40) DEF RegistryInv, TypeOK, IdsNameRecords
  <2>4. QueuesHaveRecords'
    BY <1>2, <2>2, QuietStep DEF RegistryInv, QueuesHaveRecords
  <2>5. LiveIsReachable'
    <3> SUFFICES ASSUME NEW e \in Entries, Live(e)'
                 PROVE  Held(e)'
      BY DEF LiveIsReachable
    <3>1. Live(e) /\ Created(e) /\ Held(e)
      BY <2>2 DEF RegistryInv, LiveIsReachable, Held
    <3>2. byId[entry[e].pid] = e /\ ~Terminal(e)
      BY <3>1 DEF Held, Live, Terminal, LiveStates, TerminalStates
    <3>3. entry[e].pid \in PromptIds
      BY <3>1, CreatedRecord DEF RegistryInv, Record
    <3>4. byId'[entry[e].pid] = e
      BY <1>2, <3>2, <3>3, QuietStep
    <3> QED
      BY <2>2, <3>1, <3>4 DEF Held
  <2> QED
    BY <2>1, <2>3, <2>4, <2>5 DEF RegistryInv
<1>3. CASE Next /\ \E s \in Sessions, e \in Entries : Open(s, e)
  <2>1. PICK s \in Sessions, e \in Entries : Open(s, e)
    BY <1>3
  <2>2. TypeOK'
    BY <1>3, NextType DEF RegistryInv
  <2>3. \A x \in Entries \ {e} : (Created(x) => Created(x)' /\ entry'[x].pid = entry[x].pid)
                                 /\ (Live(x)' => Live(x))
    <3> SUFFICES ASSUME NEW x \in Entries \ {e}
                 PROVE  /\ Created(x) => Created(x)' /\ entry'[x].pid = entry[x].pid
                        /\ Live(x)' => Live(x)
      OBVIOUS
    <3>1. Evolves(entry[x], entry'[x])
      BY <2>1, OpenStep
    <3>2. entry[x] \in Record \cup {Unused}
      BY DEF RegistryInv, TypeOK
    <3>3. CASE entry[x] = Unused
      BY <3>1, <3>3 DEF Evolves, Unused, Created, Live, LiveStates
    <3>4. CASE entry[x] \in Record
      BY <3>1, <3>4 DEF Evolves, Record, Created, Live, LiveStates, TerminalStates
    <3> QED
      BY <3>2, <3>3, <3>4
  <2>4. entry[e] = Unused /\ ~Created(e) /\ Created(e)' /\ Live(e)' /\ Held(e)'
    BY <2>1, OpenStep DEF Created, Unused, Live, LiveStates
  <2>5. IdsNameRecords'
    <3> SUFFICES ASSUME NEW q \in PromptIds, byId'[q] # NoEntry
                 PROVE  Created(byId[q])' /\ entry'[byId'[q]].pid = q
      BY DEF IdsNameRecords
    <3>1. byId'[q] \in {byId[q], NoEntry} \/ (byId'[q] = e /\ entry'[e].pid = q)
      BY <2>1, OpenStep
    <3>2. CASE byId'[q] = e /\ entry'[e].pid = q
      BY <2>4, <3>2 DEF Created
    <3>3. CASE byId'[q] = byId[q]
      <4>1. byId[q] \in Entries \ {e} /\ Created(byId[q]) /\ entry[byId[q]].pid = q
        BY <2>4, <3>3 DEF RegistryInv, TypeOK, IdsNameRecords
      <4> QED
        BY <2>3, <3>3, <4>1 DEF Created
    <3> QED
      BY <3>1, <3>2, <3>3
  <2>6. QueuesHaveRecords'
    BY <2>1, <2>3, <2>4, OpenStep DEF RegistryInv, QueuesHaveRecords
  <2>7. LiveIsReachable'
    <3> SUFFICES ASSUME NEW x \in Entries, Live(x)'
                 PROVE  Held(x)'
      BY DEF LiveIsReachable
    <3>1. CASE x = e
      BY <2>4, <3>1
    <3>2. CASE x # e
      <4>1. Live(x) /\ Created(x)
        BY <2>3, <3>2 DEF Live, Created, LiveStates
      <4>2. ~Terminal(x)'
        BY DEF Live, Terminal, LiveStates, TerminalStates
      <4>3. byId'[entry[x].pid] = x
        BY <2>1, <3>2, <4>1, <4>2, OpenStep
      <4> QED
        BY <2>3, <3>2, <4>1, <4>3 DEF Held
    <3> QED
      BY <3>1, <3>2
  <2> QED
    BY <2>2, <2>5, <2>6, <2>7 DEF RegistryInv
<1> QED
  BY <1>1, <1>2, <1>3

\* The registry keeps its invariant in every behaviour.
THEOREM RegistryIsSafe == Spec => []RegistryInv
<1>1. RegistryInv /\ [Next]_vars => RegistryInv'
  BY NextInv
<1> QED
  BY InitInv, <1>1, PTL DEF Spec

\* Every variable of the registry keeps its type.
THEOREM TypeCorrect == Spec => []TypeOK
<1>1. RegistryInv => TypeOK
  BY DEF RegistryInv
<1> QED
  BY RegistryIsSafe, <1>1, PTL

\* No open prompt is ever lost: it stays reachable under its id, whatever the
\* retention sweep, the cap and replayed occurrence ids do.
THEOREM LivePromptsReachable == Spec => []LiveIsReachable
<1>1. RegistryInv => LiveIsReachable
  BY DEF RegistryInv
<1> QED
  BY RegistryIsSafe, <1>1, PTL

-----------------------------------------------------------------------------
(* A settled prompt stays settled.                                         *)

\* One step of TerminalIsFinal.
TerminalKept ==
  \A e \in Entries : Terminal(e) =>
    /\ entry'[e].state = entry[e].state
    /\ entry'[e].rev = entry[e].rev

LEMMA NextKeepsTerminal ==
  ASSUME RegistryInv, [Next]_vars
  PROVE  TerminalKept
<1> SUFFICES ASSUME NEW e \in Entries, Terminal(e)
             PROVE  entry'[e].state = entry[e].state /\ entry'[e].rev = entry[e].rev
  BY DEF TerminalKept
<1>1. entry[e] \in Record /\ entry[e].state \in TerminalStates
  BY CreatedRecord DEF RegistryInv, Terminal
<1>2. CASE UNCHANGED vars
  BY <1>2 DEF vars
<1>3. CASE Next /\ ~ \E s \in Sessions, x \in Entries : Open(s, x)
  BY <1>1, <1>3, QuietStep DEF Evolves
<1>4. ASSUME NEW s \in Sessions, NEW x \in Entries, Open(s, x)
      PROVE  entry'[e].state = entry[e].state /\ entry'[e].rev = entry[e].rev
  <2>1. x # e
    BY <1>1, <1>4, OpenStep, UnusedIsNoRecord
  <2> QED
    BY <1>1, <1>4, <2>1, OpenStep DEF Evolves
<1> QED
  BY <1>2, <1>3, <1>4

\* A prompt that was resolved, cancelled, expired or found unavailable never
\* changes again: late answers, late closes, expiry and the end of its session
\* leave it alone.
THEOREM SettledForGood == Spec => TerminalIsFinal
<1>1. RegistryInv /\ [Next]_vars => [TerminalKept]_vars
  BY NextKeepsTerminal
<1> QED
  BY RegistryIsSafe, <1>1, PTL DEF Spec, TerminalIsFinal, TerminalKept

-----------------------------------------------------------------------------
(* Sums over finite sets.  The induction theorems of the library take a    *)
(* predicate; these lemmas take the set of what satisfies it instead.      *)

\* Every set of natural numbers has a least element.
LEMMA HasLeast ==
  ASSUME NEW S, S \subseteq Nat, S # {}
  PROVE  \E n \in S : \A m \in S : ~(m < n)
<1> DEFINE R == OpToRel(<, Nat)
<1>1. \E n \in S : \A m \in S : ~(<<m, n>> \in R)
  BY NatLessThanWellFounded, WFMin, Zenon
<1>2. \A m \in Nat, n \in Nat : m < n => <<m, n>> \in R
  BY Zenon DEF OpToRel
<1> HIDE DEF R
<1> QED
  BY <1>1, <1>2

\* Induction over the natural numbers, of a set.
LEMMA CountsUp ==
  ASSUME NEW T, 0 \in T, \A n \in Nat : n \in T => n + 1 \in T
  PROVE  Nat \subseteq T
<1> SUFFICES ASSUME Nat \ T # {} PROVE FALSE
  OBVIOUS
<1>1. PICK n \in Nat \ T : \A m \in Nat \ T : ~(m < n)
  BY HasLeast
<1>2. n # 0 /\ n - 1 \in Nat /\ (n - 1) + 1 = n
  OBVIOUS
<1>3. n - 1 \in T
  BY <1>1, <1>2
<1> QED
  BY <1>2, <1>3

\* Induction over the subsets of a finite set, of a set of sets.
LEMMA GrowsByOne ==
  ASSUME NEW E, IsFiniteSet(E), NEW T, {} \in T,
         \A S \in SUBSET E : \A x \in E \ S : S \in T => S \cup {x} \in T
  PROVE  SUBSET E \subseteq T
<1> DEFINE N == {n \in Nat : \A S \in SUBSET E : Cardinality(S) = n => S \in T}
<1>0. \A S \in SUBSET E : IsFiniteSet(S) /\ Cardinality(S) \in Nat
  BY FS_Subset, FS_CardinalityType
<1>1. 0 \in N
  BY <1>0, FS_EmptySet
<1>2. ASSUME NEW n \in Nat, n \in N PROVE n + 1 \in N
  <2> SUFFICES ASSUME NEW S \in SUBSET E, Cardinality(S) = n + 1 PROVE S \in T
    OBVIOUS
  <2>1. S # {}
    BY FS_EmptySet
  <2>2. PICK x \in S : TRUE
    BY <2>1
  <2>3. S \ {x} \in SUBSET E /\ x \in E \ (S \ {x}) /\ (S \ {x}) \cup {x} = S
    BY <2>2
  <2>4. Cardinality(S \ {x}) = n
    <3>1. IsFiniteSet(S) /\ Cardinality(S) \in Nat
      BY <1>0
    <3>2. Cardinality(S \ {x}) = Cardinality(S) - 1
      BY <2>2, <3>1, FS_RemoveElement, Zenon
    <3> QED
      BY <3>1, <3>2
  <2>5. S \ {x} \in T
    BY <1>2, <2>3, <2>4
  <2> QED
    BY <2>3, <2>5
<1>3. Nat \subseteq N
  <2> HIDE DEF N
  <2> QED
    BY <1>1, <1>2, CountsUp
<1> QED
  BY <1>0, <1>3

\* What the fold of the community modules computes.
FirstOf(S) == CHOOSE x \in S : TRUE

IsTotal(g, w, E) ==
  /\ g \in [SUBSET E -> Nat]
  /\ \A S \in SUBSET E : g[S] = IF S = {} THEN 0 ELSE w[FirstOf(S)] + g[S \ {FirstOf(S)}]

LEMMA TotalExists ==
  ASSUME NEW E, IsFiniteSet(E), NEW w \in [E -> Nat]
  PROVE  \E g : IsTotal(g, w, E)
<1> DEFINE Upto(g, n) ==
      /\ g \in [SUBSET E -> Nat]
      /\ \A S \in SUBSET E : Cardinality(S) <= n =>
           g[S] = IF S = {} THEN 0 ELSE w[FirstOf(S)] + g[S \ {FirstOf(S)}]
    N == {n \in Nat : \E g : Upto(g, n)}
<1>0. \A S \in SUBSET E : IsFiniteSet(S) /\ Cardinality(S) \in Nat
  BY FS_Subset, FS_CardinalityType
<1>1. \A S \in SUBSET E : S # {} =>
        /\ FirstOf(S) \in S /\ S \ {FirstOf(S)} \in SUBSET E
        /\ Cardinality(S \ {FirstOf(S)}) = Cardinality(S) - 1 /\ Cardinality(S) # 0
  BY <1>0, FS_RemoveElement, FS_EmptySet DEF FirstOf
<1>2. 0 \in N
  <2> DEFINE g0 == [S \in SUBSET E |-> 0]
  <2>1. \A S \in SUBSET E : Cardinality(S) <= 0 => S = {}
    <3> SUFFICES ASSUME NEW S \in SUBSET E, Cardinality(S) <= 0, S # {} PROVE FALSE
      OBVIOUS
    <3>1. Cardinality(S) \in Nat /\ Cardinality(S) # 0
      BY <1>0, <1>1, Zenon
    <3> QED
      BY <3>1
  <2>2. Upto(g0, 0)
    <3>1. g0 \in [SUBSET E -> Nat] /\ \A S \in SUBSET E : g0[S] = 0
      OBVIOUS
    <3> HIDE DEF g0
    <3> QED
      BY <2>1, <3>1
  <2> HIDE DEF Upto, g0
  <2> QED
    BY <2>2
<1>3. ASSUME NEW n \in Nat, n \in N PROVE n + 1 \in N
  <2>1. PICK g : Upto(g, n)
    BY <1>3
  <2> DEFINE h == [S \in SUBSET E |-> IF S = {} THEN 0 ELSE w[FirstOf(S)] + g[S \ {FirstOf(S)}]]
  <2>2. h \in [SUBSET E -> Nat]
    <3>1. ASSUME NEW S \in SUBSET E, S # {}
          PROVE  w[FirstOf(S)] + g[S \ {FirstOf(S)}] \in Nat
      <4>1. FirstOf(S) \in E /\ S \ {FirstOf(S)} \in SUBSET E
        BY <1>1, <3>1
      <4>2. w[FirstOf(S)] \in Nat /\ g[S \ {FirstOf(S)}] \in Nat
        BY <2>1, <4>1
      <4> QED
        BY <4>2
    <3> QED
      BY <3>1
  <2>3. \A S \in SUBSET E : Cardinality(S) <= n => h[S] = g[S]
    BY <2>1
  <2>4. \A S \in SUBSET E : Cardinality(S) <= n + 1 /\ S # {} => h[S \ {FirstOf(S)}] = g[S \ {FirstOf(S)}]
    <3> HIDE DEF h
    <3> QED
      BY <1>0, <1>1, <2>3
  <2>5. Upto(h, n + 1)
    BY <2>2, <2>4
  <2> HIDE DEF Upto, h
  <2> QED
    BY <2>5
<1>4. Nat \subseteq N
  <2> HIDE DEF N
  <2> QED
    BY <1>2, <1>3, CountsUp
<1>5. PICK g : Upto(g, Cardinality(E))
  <2>1. Cardinality(E) \in N
    BY <1>0, <1>4
  <2> QED
    BY <2>1
<1>6. \A S \in SUBSET E : Cardinality(S) <= Cardinality(E)
  BY FS_Subset
<1>7. IsTotal(g, w, E)
  BY <1>5, <1>6 DEF IsTotal
<1> QED
  BY <1>7

\* Any element can be taken first.
LEMMA AnyFirst ==
  ASSUME NEW E, IsFiniteSet(E), NEW w \in [E -> Nat], NEW g, IsTotal(g, w, E)
  PROVE  \A S \in SUBSET E : \A x \in S : g[S] = w[x] + g[S \ {x}]
<1> DEFINE N == {n \in Nat : \A S \in SUBSET E : Cardinality(S) = n => \A x \in S : g[S] = w[x] + g[S \ {x}]}
<1>0. \A S \in SUBSET E : IsFiniteSet(S) /\ Cardinality(S) \in Nat
  BY FS_Subset, FS_CardinalityType
<1>1. \A S \in SUBSET E : \A x \in S :
        S \ {x} \in SUBSET E /\ Cardinality(S \ {x}) = Cardinality(S) - 1 /\ Cardinality(S) # 0
  BY <1>0, FS_RemoveElement, FS_EmptySet
<1>2. 0 \in N
  BY <1>1
<1>3. ASSUME NEW n \in Nat, n \in N PROVE n + 1 \in N
  <2> SUFFICES ASSUME NEW S \in SUBSET E, Cardinality(S) = n + 1, NEW x \in S PROVE g[S] = w[x] + g[S \ {x}]
    OBVIOUS
  <2> DEFINE f == FirstOf(S)
  <2>1. f \in S
    BY DEF FirstOf
  <2>2. g[S] = w[f] + g[S \ {f}]
    BY DEF IsTotal
  <2> HIDE DEF f
  <2>3. CASE x = f
    BY <2>2, <2>3
  <2>4. CASE x # f
    <3>1. Cardinality(S \ {f}) = n /\ Cardinality(S \ {x}) = n /\ x \in S \ {f} /\ f \in S \ {x}
          /\ S \ {f} \in SUBSET E /\ S \ {x} \in SUBSET E
      BY <1>1, <2>1, <2>4
    <3>2. g[S \ {f}] = w[x] + g[(S \ {f}) \ {x}] /\ g[S \ {x}] = w[f] + g[(S \ {x}) \ {f}]
      BY <1>3, <3>1
    <3>3. (S \ {f}) \ {x} = (S \ {x}) \ {f} /\ (S \ {x}) \ {f} \in SUBSET E
      OBVIOUS
    <3>4. w[x] \in Nat /\ w[f] \in Nat /\ g[(S \ {x}) \ {f}] \in Nat
      BY <2>1, <3>3 DEF IsTotal
    <3>5. g[(S \ {f}) \ {x}] = g[(S \ {x}) \ {f}]
      BY <3>3, Zenon
    <3>6. \A a, b, c \in Nat : a + (b + c) = b + (a + c)
      OBVIOUS
    <3>7. w[f] + (w[x] + g[(S \ {x}) \ {f}]) = w[x] + (w[f] + g[(S \ {x}) \ {f}])
      BY <3>4, <3>6, Zenon
    <3> QED
      BY <2>2, <3>2, <3>5, <3>7, Zenon
  <2> QED
    BY <2>3, <2>4
<1>4. Nat \subseteq N
  <2> HIDE DEF N
  <2> QED
    BY <1>2, <1>3, CountsUp
<1> QED
  BY <1>0, <1>4

RevisionSum(ent, S) == MapThenSumSet(LAMBDA x : ent[x].rev, S)

\* MapThenSumSet is that total.
LEMMA SumIsTotal ==
  ASSUME NEW E, IsFiniteSet(E), NEW w \in [E -> Nat], NEW g, IsTotal(g, w, E),
         NEW S \in SUBSET E, NEW ent, \A x \in S : ent[x].rev = w[x]
  PROVE  RevisionSum(ent, S) = g[S]
<1> DEFINE Body(i) == [s \in SUBSET S |-> IF s = {} THEN 0 ELSE ent[FirstOf(s)].rev + i[s \ {FirstOf(s)}]]
           it == CHOOSE i : i = Body(i)
           gs == [s \in SUBSET S |-> g[s]]
<1>1. RevisionSum(ent, S) = it[S]
  BY Zenon DEF RevisionSum, MapThenSumSet, MapThenFoldSet, FirstOf
<1>2. \A s \in SUBSET S : s \in SUBSET E /\ (s # {} =>
        s \ {FirstOf(s)} \in SUBSET S /\ ent[FirstOf(s)].rev = w[FirstOf(s)])
  BY DEF FirstOf
<1>3. gs = Body(gs)
  BY <1>2 DEF IsTotal
<1>4. it = Body(it)
  <2> HIDE DEF Body, gs
  <2> QED
    BY <1>3
<1>5. IsFiniteSet(S)
  BY FS_Subset
<1>6. \A s \in SUBSET S : s # {} =>
        /\ FirstOf(s) \in s /\ s \ {FirstOf(s)} \in SUBSET S
        /\ Cardinality(s \ {FirstOf(s)}) = Cardinality(s) - 1
  BY <1>5, FS_Subset, FS_RemoveElement DEF FirstOf
<1>7. \A s \in SUBSET S : Cardinality(s) \in Nat /\ (Cardinality(s) = 0 => s = {})
  BY <1>5, FS_Subset, FS_CardinalityType, FS_EmptySet
<1>8. it[{}] = 0 /\ \A s \in SUBSET S : s # {} => it[s] = w[FirstOf(s)] + it[s \ {FirstOf(s)}]
  <2> DEFINE f == it
  <2>1. f = Body(f)
    BY <1>4
  <2> HIDE DEF f
  <2>2. f[{}] = 0 /\ \A s \in SUBSET S : s # {} => f[s] = w[FirstOf(s)] + f[s \ {FirstOf(s)}]
    BY <1>2, <2>1
  <2> QED
    BY <2>2 DEF f
<1>9. g[{}] = 0 /\ \A s \in SUBSET S : s # {} => g[s] = w[FirstOf(s)] + g[s \ {FirstOf(s)}]
  BY <1>2 DEF IsTotal
<1> HIDE DEF it
<1> DEFINE N == {n \in Nat : \A s \in SUBSET S : Cardinality(s) = n => it[s] = g[s]}
<1>10. 0 \in N
  BY <1>7, <1>8, <1>9
<1>11. ASSUME NEW n \in Nat, n \in N PROVE n + 1 \in N
  <2> SUFFICES ASSUME NEW s \in SUBSET S, Cardinality(s) = n + 1 PROVE it[s] = g[s]
    OBVIOUS
  <2>1. s # {}
    BY FS_EmptySet
  <2>2. s \ {FirstOf(s)} \in SUBSET S /\ Cardinality(s \ {FirstOf(s)}) = n
    BY <1>6, <2>1
  <2>3. it[s \ {FirstOf(s)}] = g[s \ {FirstOf(s)}]
    BY <1>11, <2>2
  <2> QED
    BY <1>8, <1>9, <2>1, <2>3
<1>12. Nat \subseteq N
  <2> HIDE DEF N
  <2> QED
    BY <1>10, <1>11, CountsUp
<1>13. S \in SUBSET S /\ Cardinality(S) \in N
  BY <1>7, <1>12
<1> QED
  BY <1>1, <1>13

\* Elements of no weight do not count.
LEMMA ZeroesDropOut ==
  ASSUME NEW E, IsFiniteSet(E), NEW w \in [E -> Nat], NEW g, IsTotal(g, w, E),
         NEW S \in SUBSET E, \A x \in E \ S : w[x] = 0
  PROVE  g[E] = g[S]
<1> DEFINE T == {R \in SUBSET E : g[R] = g[R \cap S]}
<1>1. {} \in T
  <2>1. {} \cap S = {}
    OBVIOUS
  <2> QED
    BY <2>1
<1>2. ASSUME NEW R \in SUBSET E, NEW x \in E \ R, R \in T PROVE R \cup {x} \in T
  <2> DEFINE Q == R \cup {x}
  <2>1. Q \in SUBSET E /\ x \in Q /\ Q \ {x} = R
    OBVIOUS
  <2>2. g[Q] = w[x] + g[R]
    <3> HIDE DEF Q
    <3> QED
      BY <2>1, AnyFirst
  <2>3. g[R] = g[R \cap S] /\ g[R \cap S] \in Nat
    BY <1>2 DEF IsTotal
  <2>4. CASE x \in S
    <3> DEFINE Z == Q \cap S
    <3>1. Z \in SUBSET E /\ x \in Z /\ Z \ {x} = R \cap S
      BY <2>4
    <3> HIDE DEF Z
    <3>2. g[Z] = w[x] + g[R \cap S]
      BY <3>1, AnyFirst
    <3> QED
      BY <2>1, <2>2, <2>3, <3>2 DEF Z
  <2>5. CASE x \notin S
    <3>1. w[x] = 0 /\ Q \cap S = R \cap S
      BY <2>5
    <3> QED
      BY <2>1, <2>2, <2>3, <3>1
  <2> QED
    BY <2>4, <2>5
<1>3. SUBSET E \subseteq T
  <2> HIDE DEF T
  <2> QED
    BY <1>1, <1>2, GrowsByOne
<1>4. E \cap S = S /\ E \in T
  BY <1>3
<1> QED
  BY <1>4

\* Adding one to the elements of D adds the size of D to the total.
LEMMA TotalGrows ==
  ASSUME NEW E, IsFiniteSet(E), NEW w \in [E -> Nat], NEW g, IsTotal(g, w, E),
         NEW v \in [E -> Nat], NEW h, IsTotal(h, v, E), NEW D \in SUBSET E,
         \A x \in E : v[x] = w[x] + (IF x \in D THEN 1 ELSE 0)
  PROVE  h[E] = g[E] + Cardinality(D)
<1> DEFINE T == {R \in SUBSET E : h[R] = g[R] + Cardinality(R \cap D)}
<1>1. {} \in T
  <2>1. {} \cap D = {} /\ Cardinality({}) = 0
    BY FS_EmptySet
  <2>2. g[{}] = 0 /\ h[{}] = 0
    BY DEF IsTotal
  <2> QED
    BY <2>1, <2>2
<1>2. ASSUME NEW R \in SUBSET E, NEW x \in E \ R, R \in T PROVE R \cup {x} \in T
  <2> DEFINE Q == R \cup {x}
             n == Cardinality(R \cap D)
  <2>1. Q \in SUBSET E /\ x \in Q /\ Q \ {x} = R
    OBVIOUS
  <2>2. g[Q] = w[x] + g[R] /\ h[Q] = v[x] + h[R]
    <3> HIDE DEF Q
    <3>1. g[Q] = w[x] + g[R]
      BY <2>1, AnyFirst
    <3>2. h[Q] = v[x] + h[R]
      BY <2>1, AnyFirst
    <3> QED
      BY <3>1, <3>2
  <2>3. g[R] \in Nat /\ w[x] \in Nat /\ n \in Nat /\ IsFiniteSet(R \cap D)
    BY FS_Subset, FS_CardinalityType DEF IsTotal
  <2>4. h[R] = g[R] + n
    BY <1>2
  <2>5. Cardinality(Q \cap D) = n + (IF x \in D THEN 1 ELSE 0)
    <3>1. CASE x \in D
      <4>1. Q \cap D = (R \cap D) \cup {x} /\ x \notin R \cap D
        BY <3>1
      <4> QED
        BY <2>3, <3>1, <4>1, FS_AddElement
    <3>2. CASE x \notin D
      <4>1. Q \cap D = R \cap D
        BY <3>2
      <4> QED
        BY <2>3, <3>2, <4>1
    <3> QED
      BY <3>1, <3>2
  <2> HIDE DEF n, Q
  <2>6. h[Q] = g[Q] + Cardinality(Q \cap D)
    BY <2>2, <2>3, <2>4, <2>5
  <2> QED
    BY <2>1, <2>6 DEF Q
<1>3. SUBSET E \subseteq T
  <2> HIDE DEF T
  <2> QED
    BY <1>1, <1>2, GrowsByOne
<1>4. E \cap D = D /\ E \in T
  BY <1>3
<1> QED
  BY <1>4

\* The two together: one more in D, the size of D more in the sum.
LEMMA SumGrows ==
  ASSUME NEW E, IsFiniteSet(E), NEW before, NEW after,
         NEW A \in SUBSET E, NEW B \in SUBSET E, NEW D \in SUBSET E,
         \A x \in A : before[x].rev \in Nat, \A x \in B : after[x].rev \in Nat,
         \A x \in E : (IF x \in B THEN after[x].rev ELSE 0) =
                      (IF x \in A THEN before[x].rev ELSE 0) + (IF x \in D THEN 1 ELSE 0)
  PROVE  RevisionSum(after, B) =
           RevisionSum(before, A) + Cardinality(D)
<1> DEFINE w == [x \in E |-> IF x \in A THEN before[x].rev ELSE 0]
           v == [x \in E |-> IF x \in B THEN after[x].rev ELSE 0]
<1>1. w \in [E -> Nat] /\ \A x \in A : before[x].rev = w[x]
  OBVIOUS
<1>2. v \in [E -> Nat] /\ \A x \in B : after[x].rev = v[x]
  OBVIOUS
<1>3. (\A x \in E \ A : w[x] = 0) /\ (\A x \in E \ B : v[x] = 0)
  OBVIOUS
<1>4. \A x \in E : v[x] = w[x] + (IF x \in D THEN 1 ELSE 0)
  OBVIOUS
<1> HIDE DEF w, v
<1>5. PICK g : IsTotal(g, w, E)
  BY <1>1, TotalExists
<1>6. PICK h : IsTotal(h, v, E)
  BY <1>2, TotalExists
<1>7. RevisionSum(before, A) = g[E]
  <2>1. RevisionSum(before, A) = g[A]
    BY <1>1, <1>5, SumIsTotal
  <2>2. g[E] = g[A]
    BY <1>1, <1>3, <1>5, ZeroesDropOut
  <2> QED
    BY <2>1, <2>2
<1>8. RevisionSum(after, B) = h[E]
  <2>1. RevisionSum(after, B) = h[B]
    BY <1>2, <1>6, SumIsTotal
  <2>2. h[E] = h[B]
    BY <1>2, <1>3, <1>6, ZeroesDropOut
  <2> QED
    BY <2>1, <2>2
<1>9. h[E] = g[E] + Cardinality(D)
  BY <1>1, <1>2, <1>4, <1>5, <1>6, TotalGrows
<1> QED
  BY <1>7, <1>8, <1>9

LEMMA SumOfNone ==
  ASSUME NEW E, IsFiniteSet(E), NEW ent, NEW S \in SUBSET E, S = {}
  PROVE  RevisionSum(ent, S) = 0
<1> DEFINE w == [x \in E |-> 0]
<1>1. w \in [E -> Nat] /\ \A x \in S : ent[x].rev = w[x]
  OBVIOUS
<1> HIDE DEF w
<1>2. PICK g : IsTotal(g, w, E)
  BY <1>1, TotalExists
<1>3. RevisionSum(ent, S) = g[S]
  BY <1>1, <1>2, SumIsTotal
<1>4. g[S] = 0
  BY <1>1, <1>2 DEF IsTotal
<1> QED
  BY <1>3, <1>4

-----------------------------------------------------------------------------
(* Every revision is published.                                            *)

\* What a record adds to the sum of session s.
Counted(r, s) == IF r \in Record /\ r.sess = s THEN r.rev ELSE 0

\* The records of D, and no others, went through one more revision of session s, and
\* as many events were published for it.
Publishes(D, s) ==
  /\ sequence'[s] = sequence[s] + Cardinality(D)
  /\ \A e \in Entries : Counted(entry'[e], s) = Counted(entry[e], s) + (IF e \in D THEN 1 ELSE 0)

EachPublishes == \A s \in Sessions : \E D \in SUBSET Entries : Publishes(D, s)

\* A revised or settled record counts one more, in its own session.
LEMMA CountedRevision ==
  ASSUME NEW r \in Record, NEW after \in Record, after.sess = r.sess, NEW s,
         NEW n \in Nat, after.rev = r.rev + n
  PROVE  Counted(after, s) = Counted(r, s) + (IF r.sess = s THEN n ELSE 0)
BY DEF Counted, Record

\* Nothing published, nothing revised.
LEMMA NothingPublished ==
  ASSUME TypeOK, UNCHANGED sequence,
         \A e \in Entries, s \in Sessions : Counted(entry'[e], s) = Counted(entry[e], s)
  PROVE  EachPublishes
<1> SUFFICES ASSUME NEW s \in Sessions PROVE Publishes({}, s)
  BY DEF EachPublishes
<1>1. Cardinality({}) = 0 /\ sequence[s] \in Nat
  BY FS_EmptySet DEF TypeOK
<1>2. \A e \in Entries : Counted(entry[e], s) \in Nat
  BY DEF Counted, Record
<1> QED
  BY <1>1, <1>2 DEF Publishes

\* The records of D, all of session t, go through one revision each.
LEMMA SomePublished ==
  ASSUME TypeOK, NEW t \in Sessions, NEW D \in SUBSET Entries,
         sequence' = [sequence EXCEPT ![t] = sequence[t] + Cardinality(D)],
         \A e \in Entries, s \in Sessions :
           Counted(entry'[e], s) = Counted(entry[e], s) + (IF e \in D /\ s = t THEN 1 ELSE 0)
  PROVE  EachPublishes
<1> SUFFICES ASSUME NEW s \in Sessions PROVE \E B \in SUBSET Entries : Publishes(B, s)
  BY DEF EachPublishes
<1>1. Cardinality({}) = 0 /\ sequence[s] \in Nat
  BY FS_EmptySet DEF TypeOK
<1>2. \A e \in Entries : Counted(entry[e], s) \in Nat
  BY DEF Counted, Record
<1>3. CASE s = t
  <2>1. sequence'[s] = sequence[s] + Cardinality(D)
    BY <1>3 DEF TypeOK
  <2>2. Publishes(D, s)
    BY <1>3, <2>1 DEF Publishes
  <2> QED
    BY <2>2
<1>4. CASE s # t
  <2>1. sequence'[s] = sequence[s]
    BY <1>4 DEF TypeOK
  <2>2. Publishes({}, s)
    BY <1>1, <1>2, <1>4, <2>1 DEF Publishes
  <2> QED
    BY <2>2
<1> QED
  BY <1>3, <1>4

\* One record goes through one revision, the others are as they were.
LEMMA OnePublished ==
  ASSUME TypeOK, NEW e \in Entries, NEW after, NEW ent \in [Entries -> Record \cup {Unused}],
         \A x \in Entries, s \in Sessions : Counted(ent[x], s) = Counted(entry[x], s),
         ent[e] \in Record, after \in Record,
         after.sess = ent[e].sess, after.rev = ent[e].rev + 1,
         entry' = [ent EXCEPT ![e] = after], Publish(ent[e].sess)
  PROVE  EachPublishes
<1>1. ent[e].sess \in Sessions
  BY DEF Record
<1>2. Cardinality({e}) = 1
  BY FS_Singleton
<1>3. sequence' = [sequence EXCEPT ![ent[e].sess] = sequence[ent[e].sess] + Cardinality({e})]
  BY <1>2 DEF Publish
<1>4. ASSUME NEW x \in Entries, NEW s \in Sessions
      PROVE  Counted(entry'[x], s) =
               Counted(entry[x], s) + (IF x \in {e} /\ s = ent[e].sess THEN 1 ELSE 0)
  <2>1. CASE x = e
    <3>1. Counted(after, s) = Counted(ent[e], s) + (IF ent[e].sess = s THEN 1 ELSE 0)
      BY CountedRevision
    <3> QED
      BY <2>1, <3>1
  <2>2. CASE x # e
    <3>1. Counted(entry[x], s) \in Nat
      BY DEF Counted, Record
    <3> QED
      BY <2>2, <3>1
  <2> QED
    BY <2>1, <2>2
<1> DEFINE D == {e}
           t == ent[e].sess
<1>5. D \in SUBSET Entries
  OBVIOUS
<1> HIDE DEF D, t
<1> QED
  BY <1>1, <1>3, <1>4, <1>5, SomePublished DEF D, t

LEMMA OneSettled ==
  ASSUME TypeOK, NEW e \in Entries, NEW r \in Record, NEW state \in TerminalStates,
         entry[e] \in Record, r.sess = entry[e].sess, r.rev = entry[e].rev,
         entry' = [entry EXCEPT ![e] = Settled(r, state)], Publish(entry[e].sess)
  PROVE  EachPublishes
<1>1. clock \in Nat /\ entry \in [Entries -> Record \cup {Unused}]
  BY DEF TypeOK
<1>2. /\ Settled(r, state) \in Record
      /\ Settled(r, state).sess = entry[e].sess
      /\ Settled(r, state).rev = entry[e].rev + 1
  BY <1>1, SettledType
<1> HIDE DEF Settled
<1> DEFINE after == Settled(r, state)
<1> HIDE DEF after
<1> QED
  BY <1>1, <1>2, OnePublished DEF after

\* A record whose session and revision are kept counts as it did.
LEMMA CountedSame ==
  ASSUME NEW r \in Record, NEW after \in Record, after.sess = r.sess, after.rev = r.rev
  PROVE  \A s : Counted(after, s) = Counted(r, s)
BY DEF Counted, Record

\* A live record that is settled counts one more.
LEMMA SettledCount ==
  ASSUME TypeOK, NEW r \in Record, NEW state \in TerminalStates, NEW t
  PROVE  Counted(Settled(r, state), t) = Counted(r, t) + (IF r.sess = t THEN 1 ELSE 0)
<1> DEFINE after == Settled(r, state)
<1>1. after \in Record /\ after.sess = r.sess /\ after.rev = r.rev + 1
  BY SettledType DEF TypeOK
<1> HIDE DEF after
<1>2. Counted(after, t) = Counted(r, t) + (IF r.sess = t THEN 1 ELSE 0)
  BY <1>1, CountedRevision
<1> QED
  BY <1>2 DEF after

LEMMA DueRecords ==
  ASSUME TypeOK, NEW s \in Sessions
  PROVE  /\ DueIn(s) \in SUBSET Entries
         /\ \A e \in DueIn(s) : entry[e] \in Record /\ entry[e].sess = s
         /\ \A e \in Entries : SweptEntry(s)[e] =
              IF e \in DueIn(s) THEN Settled(entry[e], "expired") ELSE entry[e]
BY CreatedRecord DEF DueIn, Owned, Due, SweptEntry

LEMMA SweptCount ==
  ASSUME TypeOK, NEW s \in Sessions
  PROVE  \A e \in Entries, t \in Sessions :
           Counted(SweptEntry(s)[e], t) =
             Counted(entry[e], t) + (IF e \in DueIn(s) /\ t = s THEN 1 ELSE 0)
<1> SUFFICES ASSUME NEW e \in Entries, NEW t \in Sessions
             PROVE  Counted(SweptEntry(s)[e], t) =
                      Counted(entry[e], t) + (IF e \in DueIn(s) /\ t = s THEN 1 ELSE 0)
  OBVIOUS
<1>1. SweptEntry(s)[e] = IF e \in DueIn(s) THEN Settled(entry[e], "expired") ELSE entry[e]
  BY DueRecords
<1>2. Counted(entry[e], t) \in Nat
  BY DEF Counted, Record
<1>3. CASE e \in DueIn(s)
  <2>1. entry[e] \in Record /\ entry[e].sess = s
    BY <1>3, DueRecords
  <2>2. "expired" \in TerminalStates
    BY DEF TerminalStates
  <2>3. Counted(Settled(entry[e], "expired"), t) =
          Counted(entry[e], t) + (IF entry[e].sess = t THEN 1 ELSE 0)
    BY <2>1, <2>2, SettledCount
  <2> QED
    BY <1>1, <1>3, <2>1, <2>3
<1>4. CASE e \notin DueIn(s)
  BY <1>1, <1>2, <1>4
<1> QED
  BY <1>3, <1>4

LEMMA SweepPublishes ==
  ASSUME TypeOK, NEW s \in Sessions, entry' = SweptEntry(s),
         sequence' = [sequence EXCEPT ![s] = SweptSeq(s)]
  PROVE  EachPublishes
<1> DEFINE D == DueIn(s)
<1>1. \A e \in Entries, t \in Sessions :
        Counted(entry'[e], t) = Counted(entry[e], t) + (IF e \in D /\ t = s THEN 1 ELSE 0)
  BY SweptCount
<1>2. sequence' = [sequence EXCEPT ![s] = sequence[s] + Cardinality(D)]
  BY DEF SweptSeq
<1>3. D \in SUBSET Entries
  BY DueRecords
<1> HIDE DEF D
<1> QED
  BY <1>1, <1>2, <1>3, SomePublished

LEMMA InvalidatePublishes ==
  ASSUME TypeOK, NEW s \in Sessions, InvalidateSession(s)
  PROVE  EachPublishes
<1> DEFINE D == {e \in Owned(s) : Live(e)}
<1>1. D \in SUBSET Entries /\ \A e \in D : entry[e] \in Record /\ entry[e].sess = s
  BY CreatedRecord DEF Owned
<1>2. \A e \in Entries : entry'[e] = IF e \in D THEN Settled(entry[e], "unavailable") ELSE entry[e]
  BY DEF InvalidateSession
<1>3. sequence' = [sequence EXCEPT ![s] = sequence[s] + Cardinality(D)]
  BY DEF InvalidateSession
<1>4. "unavailable" \in TerminalStates
  BY DEF TerminalStates
<1> HIDE DEF D
<1>5. \A e \in Entries, t \in Sessions :
        Counted(entry'[e], t) = Counted(entry[e], t) + (IF e \in D /\ t = s THEN 1 ELSE 0)
  <2> SUFFICES ASSUME NEW e \in Entries, NEW t \in Sessions
               PROVE  Counted(entry'[e], t) = Counted(entry[e], t) + (IF e \in D /\ t = s THEN 1 ELSE 0)
    OBVIOUS
  <2>1. Counted(entry[e], t) \in Nat
    BY DEF Counted, Record
  <2>2. CASE e \in D
    BY <1>1, <1>2, <1>4, <2>2, SettledCount
  <2>3. CASE e \notin D
    BY <1>2, <2>1, <2>3
  <2> QED
    BY <2>2, <2>3
<1> QED
  BY <1>1, <1>3, <1>5, SomePublished

LEMMA OpenPublishes ==
  ASSUME RegistryInv, NEW s \in Sessions, NEW e \in Entries, Open(s, e)
  PROVE  EachPublishes
<1> USE DEF RegistryInv
<1>1. PICK asked \in PromptIds, p \in PromptIds, x \in Deadlines : OpenAs(s, e, asked, p, x)
  BY DEF Open
<1> DEFINE new == NewRecord(p, s, x)
           ent == SweptEntry(s)
           D == DueIn(s)
           B == D \cup {e}
<1>2. entry' = [ent EXCEPT ![e] = new] /\ ~Created(e)
  BY <1>1 DEF OpenAs
<1>3. ent \in [Entries -> Record \cup {Unused}]
  BY SweepType
<1>4. new \in Record /\ new.rev = 1 /\ new.sess = s
  <2>1. x \in Int
    BY LifetimesAssumption DEF Deadlines, Null, TypeOK
  <2> QED
    BY <2>1 DEF NewRecord, Record, LiveStates, Null
<1>5. D \in SUBSET Entries /\ e \notin D
  BY <1>2, DueRecords DEF DueIn, Due, Live, Created, LiveStates
<1>6. Cardinality(B) = Cardinality(D) + 1 /\ Cardinality(D) \in Nat
  <2>1. IsFiniteSet(D)
    BY <1>5, EntriesAssumption, FS_Subset
  <2> HIDE DEF D
  <2> QED
    BY <1>5, <2>1, FS_AddElement, FS_CardinalityType
<1>7. sequence' = [sequence EXCEPT ![s] = sequence[s] + Cardinality(B)]
  <2>1. sequence' = [sequence EXCEPT ![s] = (sequence[s] + Cardinality(D)) + 1]
    BY <1>1 DEF OpenAs, SweptSeq
  <2>2. (sequence[s] + Cardinality(D)) + 1 = sequence[s] + Cardinality(B)
    <3>1. sequence[s] \in Nat
      BY DEF TypeOK
    <3> HIDE DEF D, B
    <3> QED
      BY <1>6, <3>1
  <2> HIDE DEF D, B
  <2> QED
    BY <2>1, <2>2, Zenon
<1>8. \A y \in Entries, t \in Sessions :
        Counted(ent[y], t) = Counted(entry[y], t) + (IF y \in D /\ t = s THEN 1 ELSE 0)
  BY SweptCount
<1>9. \A t \in Sessions : Counted(entry[e], t) = 0
  BY <1>2, CreatedRecord DEF Counted
<1>10. \A t \in Sessions : Counted(new, t) = IF t = s THEN 1 ELSE 0
  BY <1>4 DEF Counted
<1> HIDE DEF new, ent, D
<1>11. \A y \in Entries, t \in Sessions :
        Counted(entry'[y], t) = Counted(entry[y], t) + (IF y \in B /\ t = s THEN 1 ELSE 0)
  <2> SUFFICES ASSUME NEW y \in Entries, NEW t \in Sessions
               PROVE  Counted(entry'[y], t) = Counted(entry[y], t) + (IF y \in B /\ t = s THEN 1 ELSE 0)
    OBVIOUS
  <2>1. CASE y = e
    <3>1. entry'[y] = new
      BY <1>2, <1>3, <2>1
    <3> QED
      BY <1>9, <1>10, <2>1, <3>1
  <2>2. CASE y # e
    <3>1. entry'[y] = ent[y] /\ (y \in B <=> y \in D)
      BY <1>2, <1>3, <2>2
    <3> QED
      BY <1>8, <3>1
  <2> QED
    BY <2>1, <2>2
<1>12. B \in SUBSET Entries
  BY <1>5
<1> HIDE DEF B
<1> QED
  BY <1>7, <1>11, <1>12, SomePublished

\* One record changes its markers only.
LEMMA MarkersPublish ==
  ASSUME TypeOK, NEW e \in Entries, NEW after, after \in Record, entry[e] \in Record,
         after.sess = entry[e].sess, after.rev = entry[e].rev,
         entry' = [entry EXCEPT ![e] = after], UNCHANGED sequence
  PROVE  EachPublishes
<1>1. \A s : Counted(after, s) = Counted(entry[e], s)
  BY CountedSame
<1>2. \A x \in Entries, s \in Sessions : Counted(entry'[x], s) = Counted(entry[x], s)
  BY <1>1 DEF TypeOK
<1> QED
  BY <1>2, NothingPublished

LEMMA ProducerPublishes ==
  ASSUME RegistryInv, Producer
  PROVE  EachPublishes
<1> USE DEF RegistryInv
<1>1. ASSUME NEW p \in PromptIds, NEW x \in Deadlines, Update(p, x)
      PROVE  EachPublishes
  <2> DEFINE e == byId[p]
             revised == Revised(entry[e], x)
  <2>1. e \in Entries /\ entry[e] \in Record /\ Publish(entry[e].sess)
    BY <1>1, CreatedRecord DEF Update, TypeOK
  <2>2. entry' = [entry EXCEPT ![e] = IF Due(e) THEN Settled(entry[e], "expired") ELSE revised]
    BY <1>1 DEF Update
  <2>3. CASE Due(e)
    <3>1. entry' = [entry EXCEPT ![e] = Settled(entry[e], "expired")]
      BY <2>2, <2>3
    <3> HIDE DEF e
    <3> QED
      BY <2>1, <3>1, OneSettled DEF TerminalStates
  <2>4. CASE ~Due(e)
    <3>1. entry' = [entry EXCEPT ![e] = revised]
      BY <2>2, <2>4
    <3>2. revised \in Record /\ revised.sess = entry[e].sess /\ revised.rev = entry[e].rev + 1
      <4>1. x \in Int
        BY LifetimesAssumption DEF Deadlines, Null, TypeOK
      <4>2. entry[e].rev \in Nat /\ entry[e].rev + 1 \in Nat
        BY <2>1 DEF Record
      <4> HIDE DEF e
      <4> QED
        BY <2>1, <4>1, <4>2 DEF Revised, Record, LiveStates, TerminalStates
    <3>3. entry \in [Entries -> Record \cup {Unused}]
      BY DEF TypeOK
    <3> HIDE DEF e, revised
    <3> QED
      BY <2>1, <3>1, <3>2, <3>3, OnePublished
  <2> QED
    BY <2>3, <2>4
<1>2. ASSUME NEW p \in PromptIds, NEW state \in {"cancelled", "resolved"}, Transition(p, state)
      PROVE  EachPublishes
  <2> DEFINE e == byId[p]
  <2>1. e \in Entries /\ entry[e] \in Record /\ Publish(entry[e].sess)
    BY <1>2, CreatedRecord DEF Transition, TypeOK
  <2>2. entry' = [entry EXCEPT ![e] = Settled(entry[e], state)] /\ state \in TerminalStates
    BY <1>2 DEF Transition, TerminalStates
  <2> HIDE DEF e
  <2> QED
    BY <2>1, <2>2, OneSettled
<1>3. ASSUME NEW p \in PromptIds, ProviderClosed(p)
      PROVE  EachPublishes
  <2> DEFINE e == byId[p]
  <2>1. e \in Entries /\ entry[e] \in Record
    BY <1>3, CreatedRecord DEF ProviderClosed, TypeOK
  <2>2. CASE entry[e].answering
    <3>1. entry' = [entry EXCEPT ![e] = [entry[e] EXCEPT !.deferred = TRUE]] /\ UNCHANGED sequence
      BY <1>3, <2>2 DEF ProviderClosed, AfterClose
    <3>2. /\ [entry[e] EXCEPT !.deferred = TRUE] \in Record
          /\ [entry[e] EXCEPT !.deferred = TRUE].sess = entry[e].sess
          /\ [entry[e] EXCEPT !.deferred = TRUE].rev = entry[e].rev
      BY <2>1 DEF Record
    <3> HIDE DEF e
    <3> QED
      BY <2>1, <3>1, <3>2, MarkersPublish
  <2>3. CASE ~entry[e].answering
    <3>1. entry' = [entry EXCEPT ![e] = Settled(entry[e], "cancelled")] /\ Publish(entry[e].sess)
      BY <1>3, <2>3 DEF ProviderClosed, AfterClose
    <3> HIDE DEF e
    <3> QED
      BY <2>1, <3>1, OneSettled DEF TerminalStates
  <2> QED
    BY <2>2, <2>3
<1>4. ASSUME NEW p \in PromptIds, LegacyAnswer(p)
      PROVE  EachPublishes
  <2> DEFINE e == byId[p]
             closed == [entry[e] EXCEPT !.answering = FALSE, !.deferred = FALSE]
  <2>1. e \in Entries /\ entry[e] \in Record
    BY <1>4, CreatedRecord DEF LegacyAnswer, IdsNameRecords, TypeOK
  <2>2. closed \in Record /\ closed.sess = entry[e].sess /\ closed.rev = entry[e].rev
    BY <2>1 DEF Record
  <2>3. CASE Live(e)
    <3>1. entry' = [entry EXCEPT ![e] = Settled(closed, "resolved")] /\ Publish(entry[e].sess)
      BY <1>4, <2>3 DEF LegacyAnswer
    <3> HIDE DEF e, closed
    <3> QED
      BY <2>1, <2>2, <3>1, OneSettled DEF TerminalStates
  <2>4. CASE ~Live(e)
    <3>1. entry' = [entry EXCEPT ![e] = closed] /\ UNCHANGED sequence
      BY <1>4, <2>4 DEF LegacyAnswer
    <3> HIDE DEF e, closed
    <3> QED
      BY <2>1, <2>2, <3>1, MarkersPublish
  <2> QED
    BY <2>3, <2>4
<1> QED
  BY <1>1, <1>2, <1>3, <1>4, OpenPublishes, InvalidatePublishes DEF Producer

\* A write that is over: the marker goes, and the deferred close may settle the record
\* its id names now.
LEMMA DeferredPublishes ==
  ASSUME RegistryInv, NEW e \in Entries, Writing(e),
         SettleDeferred([entry EXCEPT ![e] = Unmarked(e)], e)
  PROVE  EachPublishes
<1> USE DEF RegistryInv
<1> DEFINE ent == [entry EXCEPT ![e] = Unmarked(e)]
           now == byId[ent[e].pid]
<1>1. entry[e] \in Record
  BY CreatedRecord DEF QueuesHaveRecords, Writing
<1>2. Unmarked(e) \in Record /\ Unmarked(e).sess = entry[e].sess /\ Unmarked(e).rev = entry[e].rev
      /\ Unmarked(e).pid = entry[e].pid
  BY <1>1 DEF Unmarked, Record
<1>3. ent \in [Entries -> Record \cup {Unused}]
  BY <1>2 DEF TypeOK
<1>4. \A x \in Entries, s \in Sessions : Counted(ent[x], s) = Counted(entry[x], s)
  <2>1. \A s : Counted(Unmarked(e), s) = Counted(entry[e], s)
    BY <1>1, <1>2, CountedSame
  <2> HIDE DEF Unmarked
  <2> QED
    BY <2>1 DEF TypeOK
<1>5. CASE entry' = ent /\ UNCHANGED sequence
  BY <1>4, <1>5, NothingPublished
<1>6. CASE /\ now # NoEntry
           /\ ent[now].state \in LiveStates
           /\ entry' = AfterClose(ent, now)
           /\ IF ent[now].answering THEN UNCHANGED sequence ELSE Publish(ent[now].sess)
  <2>1. now \in Entries
    <3>1. ent[e].pid \in PromptIds
      BY <1>1, <1>2, <1>3 DEF Record
    <3> QED
      BY <1>6, <3>1 DEF TypeOK
  <2>2. ent[now] \in Record
    <3>1. ent[now] \in Record \cup {Unused}
      BY <1>3, <2>1
    <3>2. Unused.state \notin LiveStates
      BY DEF Unused, LiveStates
    <3> QED
      BY <1>6, <3>1, <3>2
  <2> HIDE DEF now, ent
  <2>3. CASE ent[now].answering
    <3> DEFINE after == [ent[now] EXCEPT !.deferred = TRUE]
    <3>1. after \in Record /\ after.sess = ent[now].sess /\ after.rev = ent[now].rev
      BY <2>2 DEF Record
    <3>2. entry' = [ent EXCEPT ![now] = after] /\ UNCHANGED sequence
      <4>1. entry' = [ent EXCEPT ![now].deferred = TRUE]
        BY <1>6, <2>3 DEF AfterClose
      <4> QED
        BY <1>6, <2>3, <4>1
    <3> HIDE DEF after
    <3>3. \A s : Counted(after, s) = Counted(ent[now], s)
      BY <2>2, <3>1, CountedSame
    <3>4. \A x \in Entries, s \in Sessions : Counted(entry'[x], s) = Counted(entry[x], s)
      BY <1>3, <1>4, <2>1, <3>2, <3>3
    <3> QED
      BY <3>2, <3>4, NothingPublished
  <2>4. CASE ~ent[now].answering
    <3> DEFINE after == Settled(ent[now], "cancelled")
    <3>1. after \in Record /\ after.sess = ent[now].sess /\ after.rev = ent[now].rev + 1
      BY <2>2, SettledType DEF TypeOK, TerminalStates
    <3>2. entry' = [ent EXCEPT ![now] = after] /\ Publish(ent[now].sess)
      BY <1>6, <2>4 DEF AfterClose
    <3> HIDE DEF after
    <3> QED
      BY <1>3, <1>4, <2>1, <2>2, <3>1, <3>2, OnePublished
  <2> QED
    BY <2>3, <2>4
<1> QED
  BY <1>5, <1>6 DEF SettleDeferred

LEMMA SettlePublishes ==
  ASSUME RegistryInv, NEW e \in Entries, Settle(e) \/ ExpiryTimer(e)
  PROVE  EachPublishes
<1> USE DEF RegistryInv
<1>1. CASE UNCHANGED <<entry, sequence>>
  BY <1>1, NothingPublished
<1>2. ASSUME Due(e), entry' = [entry EXCEPT ![e] = Settled(entry[e], "expired")],
             Publish(entry[e].sess)
      PROVE  EachPublishes
  <2>1. entry[e] \in Record
    BY <1>2, CreatedRecord DEF Due
  <2> QED
    BY <1>2, <2>1, OneSettled DEF TerminalStates
<1>3. CASE ExpiryTimer(e) \/ Refuse(e)
  BY <1>1, <1>2, <1>3 DEF ExpiryTimer, Refuse
<1>4. CASE BeginWrite(e)
  <2> DEFINE after == [entry[e] EXCEPT !.answering = TRUE]
  <2>1. entry[e] \in Record
    BY <1>4, CreatedRecord DEF BeginWrite
  <2>2. after \in Record /\ after.sess = entry[e].sess /\ after.rev = entry[e].rev
    BY <2>1 DEF Record
  <2>3. entry' = [entry EXCEPT ![e] = after] /\ UNCHANGED sequence
    BY <1>4 DEF BeginWrite
  <2> HIDE DEF after
  <2> QED
    BY <2>1, <2>2, <2>3, MarkersPublish
<1>5. ASSUME NEW state \in TerminalStates, Live(e), Publish(entry[e].sess),
             entry' = [entry EXCEPT ![e] = Settled(Unmarked(e), state)]
      PROVE  EachPublishes
  <2>1. entry[e] \in Record
    BY <1>5, CreatedRecord
  <2>2. Unmarked(e) \in Record /\ Unmarked(e).sess = entry[e].sess /\ Unmarked(e).rev = entry[e].rev
    BY <2>1 DEF Unmarked, Record
  <2> QED
    BY <1>5, <2>1, <2>2, OneSettled
<1>6. CASE WriteLands(e) \/ \E state \in {"cancelled", "unavailable"} : WriteFindsGone(e, state)
  BY <1>5, <1>6 DEF WriteLands, WriteFindsGone, TerminalStates
<1>7. CASE WriteOvertaken(e) \/ WriteFails(e)
  BY <1>7, DeferredPublishes DEF WriteOvertaken, WriteFails
<1> QED
  BY <1>3, <1>4, <1>6, <1>7 DEF Settle

LEMMA NextPublishes ==
  ASSUME RegistryInv, [Next]_vars
  PROVE  EachPublishes
<1> USE DEF RegistryInv
<1>1. CASE Tick \/ UNCHANGED vars
  BY <1>1, NothingPublished DEF Tick, vars
<1>2. CASE Client
  BY <1>2, SweepPublishes DEF Client, Answer, Sweep
<1> QED
  BY <1>1, <1>2, ProducerPublishes, SettlePublishes DEF Next

LEMMA RevisionsPublished ==
  ASSUME RegistryInv, EveryRevisionPublished, [Next]_vars
  PROVE  EveryRevisionPublished'
<1> SUFFICES ASSUME NEW s \in Sessions
             PROVE  sequence'[s] = MapThenSumSet(LAMBDA x : entry'[x].rev,
                      {x \in Entries : Created(x)' /\ entry'[x].sess = s})
  BY Zenon DEF EveryRevisionPublished, Created, MapThenSumSet, MapThenFoldSet
<1> DEFINE A == {x \in Entries : Created(x) /\ entry[x].sess = s}
           B == {x \in Entries : Created(x)' /\ entry'[x].sess = s}
<1>1. sequence[s] = RevisionSum(entry, A)
  BY Zenon DEF EveryRevisionPublished, RevisionSum
<1>2. PICK D \in SUBSET Entries : Publishes(D, s)
  BY NextPublishes DEF EachPublishes
<1>3. TypeOK /\ TypeOK'
  BY NextInv DEF RegistryInv
<1>4. \A x \in A : entry[x].rev \in Nat
  BY <1>3, CreatedRecord DEF Record
<1>5. \A x \in Entries : Created(x)' <=> entry'[x] \in Record
  BY <1>3 DEF TypeOK, Created, Record, Unused, LiveStates, TerminalStates
<1>6. \A x \in B : entry'[x].rev \in Nat
  BY <1>5 DEF Record
<1>7. \A x \in Entries : (IF x \in B THEN entry'[x].rev ELSE 0) =
                         (IF x \in A THEN entry[x].rev ELSE 0) + (IF x \in D THEN 1 ELSE 0)
  <2>1. \A x \in Entries : (IF x \in A THEN entry[x].rev ELSE 0) = Counted(entry[x], s)
    BY <1>3, CreatedRecord DEF Counted
  <2>2. \A x \in Entries : (IF x \in B THEN entry'[x].rev ELSE 0) = Counted(entry'[x], s)
    BY <1>5 DEF Counted
  <2> HIDE DEF A, B
  <2> QED
    BY <1>2, <2>1, <2>2 DEF Publishes
<1>8. A \in SUBSET Entries /\ B \in SUBSET Entries
  OBVIOUS
<1> HIDE DEF A, B
<1>9. RevisionSum(entry', B) = RevisionSum(entry, A) + Cardinality(D)
  BY <1>4, <1>6, <1>7, <1>8, EntriesAssumption, SumGrows
<1>10. sequence'[s] = RevisionSum(entry', B)
  BY <1>1, <1>2, <1>9 DEF Publishes
<1> QED
  BY <1>10, Zenon DEF RevisionSum, B

-----------------------------------------------------------------------------
(* One writer, and an "ok" for the revision that was resolved.             *)

\* OneWriterPerPrompt and AnswerResolvesItsRevision, of one entry.
OneWriter(e) ==
  /\ \A k \in Keys : task[e][k].st = "writing" => Writing(e) /\ k = Head(queue[e])
  /\ Created(e) /\ entry[e].answering => Writing(e)

OkIsTrue(e) ==
  \A k \in Keys : task[e][k].outcome = "ok" =>
    /\ entry[e].state = "resolved"
    /\ entry[e].rev = task[e][k].rev + 1
    /\ \A other \in Keys \ {k} : task[e][other].outcome # "ok"

LEMMA ByEntry ==
  /\ OneWriterPerPrompt <=> \A e \in Entries : OneWriter(e)
  /\ AnswerResolvesItsRevision <=> \A e \in Entries : OkIsTrue(e)
BY DEF OneWriterPerPrompt, OneWriter, AnswerResolvesItsRevision, OkIsTrue

\* A step that neither touches the answers of e nor marks it.
LEMMA UnansweredStep ==
  ASSUME RegistryInv, NEW e \in Entries, OneWriter(e), OkIsTrue(e), [Next]_vars,
         task'[e] = task[e], queue'[e] = queue[e],
         Created(e)' /\ entry'[e].answering => Created(e) /\ entry[e].answering
  PROVE  OneWriter(e)' /\ OkIsTrue(e)'
<1>1. Writing(e) => Writing(e)'
  BY DEF Writing, HeadTask
<1>2. OneWriter(e)'
  BY <1>1 DEF OneWriter, HeadTask
<1>3. Terminal(e) => entry'[e].state = entry[e].state /\ entry'[e].rev = entry[e].rev
  BY NextKeepsTerminal DEF TerminalKept
<1>4. OkIsTrue(e)'
  BY <1>3 DEF OkIsTrue, Terminal, TerminalStates
<1> QED
  BY <1>2, <1>4

\* What a settled or revised record has for a marker.
LEMMA MarkersKept ==
  ASSUME NEW r \in Record
  PROVE  /\ \A state : Settled(r, state).answering = r.answering
         /\ \A x : Revised(r, x).answering = r.answering
         /\ [r EXCEPT !.deferred = TRUE].answering = r.answering
         /\ [r EXCEPT !.answering = FALSE, !.deferred = FALSE].answering = FALSE
BY DEF Settled, Revised, Record

\* A step marks no record that was not marked.
NoNewMark == \A e \in Entries :
  Created(e)' /\ entry'[e].answering => Created(e) /\ entry[e].answering

LEMMA SweptMarks ==
  ASSUME TypeOK, NEW s \in Sessions, NEW e \in Entries,
         SweptEntry(s)[e].state # "unused", SweptEntry(s)[e].answering
  PROVE  Created(e) /\ entry[e].answering
<1>1. CASE e \in DueIn(s)
  <2>1. entry[e] \in Record
    BY <1>1, CreatedRecord DEF DueIn, Due
  <2> QED
    BY <1>1, <2>1, MarkersKept, CreatedRecord DEF SweptEntry
<1>2. CASE e \notin DueIn(s)
  BY <1>2 DEF SweptEntry, Created
<1> QED
  BY <1>1, <1>2

LEMMA UnansweredMarks ==
  ASSUME RegistryInv, Producer \/ (\E s \in Sessions : Sweep(s))
                      \/ (\E e \in Entries : ExpiryTimer(e)) \/ Tick
  PROVE  NoNewMark /\ task' = task /\ queue' = queue
<1> USE DEF RegistryInv
<1>1. task' = task /\ queue' = queue
  <2>1. CASE Producer
    <3>1. ASSUME NEW s \in Sessions, NEW e \in Entries, Open(s, e)
          PROVE  task' = task /\ queue' = queue
      <4>1. PICK asked \in PromptIds, p \in PromptIds, x \in Deadlines : OpenAs(s, e, asked, p, x)
        BY <3>1 DEF Open
      <4> QED
        BY <4>1 DEF OpenAs
    <3>2. CASE ~ \E s \in Sessions, e \in Entries : Open(s, e)
      BY <2>1, <3>2 DEF Producer, Update, Transition, ProviderClosed, LegacyAnswer, InvalidateSession
    <3> QED
      BY <3>1, <3>2
  <2>2. CASE (\E s \in Sessions : Sweep(s)) \/ (\E e \in Entries : ExpiryTimer(e)) \/ Tick
    BY <2>2 DEF Sweep, ExpiryTimer, Tick
  <2> QED
    BY <2>1, <2>2
<1>2. ASSUME NEW e \in Entries, NEW after, entry' = [entry EXCEPT ![e] = after],
             entry[e] \in Record, after.answering => entry[e].answering
      PROVE  NoNewMark
  BY <1>2, CreatedRecord DEF NoNewMark, Created, TypeOK
<1>3. ASSUME NEW s \in Sessions, NEW e \in Entries, Open(s, e) PROVE NoNewMark
  <2>1. PICK asked \in PromptIds, p \in PromptIds, x \in Deadlines : OpenAs(s, e, asked, p, x)
    BY <1>3 DEF Open
  <2> DEFINE new == NewRecord(p, s, x)
             ent == SweptEntry(s)
  <2>2. entry' = [ent EXCEPT ![e] = new] /\ ~new.answering
    BY <2>1 DEF OpenAs, NewRecord
  <2>3. ent \in [Entries -> Record \cup {Unused}]
    BY SweepType
  <2>4. \A y \in Entries : ent[y].state # "unused" /\ ent[y].answering => Created(y) /\ entry[y].answering
    BY SweptMarks
  <2> HIDE DEF new, ent
  <2> QED
    BY <2>2, <2>3, <2>4 DEF NoNewMark, Created
<1>4. ASSUME NEW s \in Sessions, Sweep(s) PROVE NoNewMark
  <2>1. entry' = SweptEntry(s)
    BY <1>4 DEF Sweep
  <2> QED
    BY <2>1, SweptMarks DEF NoNewMark, Created
<1>5. ASSUME NEW s \in Sessions, InvalidateSession(s) PROVE NoNewMark
  <2> SUFFICES ASSUME NEW e \in Entries, Created(e)', entry'[e].answering
               PROVE  Created(e) /\ entry[e].answering
    BY DEF NoNewMark
  <2>1. CASE e \in Owned(s) /\ Live(e)
    <3>1. entry[e] \in Record /\ entry'[e] = Settled(entry[e], "unavailable")
      BY <1>5, <2>1, CreatedRecord DEF InvalidateSession
    <3> QED
      BY <3>1, MarkersKept, CreatedRecord
  <2>2. CASE ~(e \in Owned(s) /\ Live(e))
    <3>1. entry'[e] = entry[e]
      BY <1>5, <2>2 DEF InvalidateSession
    <3> QED
      BY <3>1 DEF Created
  <2> QED
    BY <2>1, <2>2
<1>6. ASSUME NEW p \in PromptIds, NEW x \in Deadlines, Update(p, x) PROVE NoNewMark
  <2> DEFINE e == byId[p]
             after == IF Due(e) THEN Settled(entry[e], "expired") ELSE Revised(entry[e], x)
  <2>1. e \in Entries /\ entry[e] \in Record /\ entry' = [entry EXCEPT ![e] = after]
    BY <1>6, CreatedRecord DEF Update, TypeOK
  <2>2. after.answering = entry[e].answering
    BY <2>1, MarkersKept
  <2> HIDE DEF e, after
  <2> QED
    BY <1>2, <2>1, <2>2
<1>7. ASSUME NEW p \in PromptIds, NEW state, Transition(p, state) PROVE NoNewMark
  <2> DEFINE e == byId[p]
             after == Settled(entry[e], state)
  <2>1. e \in Entries /\ entry[e] \in Record /\ entry' = [entry EXCEPT ![e] = after]
    BY <1>7, CreatedRecord DEF Transition, TypeOK
  <2>2. after.answering = entry[e].answering
    BY <2>1, MarkersKept
  <2> HIDE DEF e, after
  <2> QED
    BY <1>2, <2>1, <2>2
<1>8. ASSUME NEW p \in PromptIds, ProviderClosed(p) PROVE NoNewMark
  <2> DEFINE e == byId[p]
             after == IF entry[e].answering THEN [entry[e] EXCEPT !.deferred = TRUE]
                      ELSE Settled(entry[e], "cancelled")
  <2>1. e \in Entries /\ entry[e] \in Record /\ entry' = [entry EXCEPT ![e] = after]
    BY <1>8, CreatedRecord DEF ProviderClosed, AfterClose, TypeOK
  <2>2. after.answering = entry[e].answering
    BY <2>1, MarkersKept
  <2> HIDE DEF e, after
  <2> QED
    BY <1>2, <2>1, <2>2
<1>9. ASSUME NEW p \in PromptIds, LegacyAnswer(p) PROVE NoNewMark
  <2> DEFINE e == byId[p]
             closed == [entry[e] EXCEPT !.answering = FALSE, !.deferred = FALSE]
             after == IF Live(e) THEN Settled(closed, "resolved") ELSE closed
  <2>1. e \in Entries /\ entry[e] \in Record /\ entry' = [entry EXCEPT ![e] = after]
    BY <1>9, CreatedRecord DEF LegacyAnswer, IdsNameRecords, TypeOK
  <2>2. closed \in Record /\ ~closed.answering
    BY <2>1 DEF Record
  <2>3. ~after.answering
    <3> HIDE DEF e, closed
    <3> QED
      BY <2>2, MarkersKept
  <2> HIDE DEF e, after
  <2> QED
    BY <1>2, <2>1, <2>3
<1>10. ASSUME NEW e \in Entries, ExpiryTimer(e) PROVE NoNewMark
  <2> DEFINE after == Settled(entry[e], "expired")
  <2>1. entry[e] \in Record /\ entry' = [entry EXCEPT ![e] = after]
    BY <1>10, CreatedRecord DEF ExpiryTimer, Due
  <2>2. after.answering = entry[e].answering
    BY <2>1, MarkersKept
  <2> HIDE DEF after
  <2> QED
    BY <1>2, <2>1, <2>2
<1>11. ASSUME Tick PROVE NoNewMark
  BY <1>11 DEF Tick, NoNewMark, Created
<1>12. ASSUME Producer PROVE NoNewMark
  BY <1>3, <1>5, <1>6, <1>7, <1>8, <1>9, <1>12 DEF Producer
<1>13. NoNewMark
  BY <1>4, <1>10, <1>11, <1>12
<1> QED
  BY <1>1, <1>13

\* Keys are distinct from what a queue of answers does not hold at its head.
LEMMA HeadKey ==
  ASSUME TypeOK, NEW e \in Entries, queue[e] # <<>>
  PROVE  /\ Head(queue[e]) \in Keys /\ Tail(queue[e]) \in Seq(Keys)
         /\ task[e] \in [Keys -> Task] /\ queue[e] \in Seq(Keys)
<1>1. queue[e] \in Seq(Keys) /\ task[e] \in [Keys -> Task]
  BY DEF TypeOK
<1> QED
  BY <1>1

\* The outcome of the answer at the head.
LEMMA FinishStep ==
  ASSUME TypeOK, NEW e \in Entries, NEW o, queue[e] # <<>>, Finish(e, o)
  PROVE  /\ \A k \in Keys : k # Head(queue[e]) => task'[e][k] = task[e][k]
         /\ task'[e][Head(queue[e])].st = "done"
         /\ task'[e][Head(queue[e])].outcome = o
         /\ task'[e][Head(queue[e])].rev = task[e][Head(queue[e])].rev
         /\ \A x \in Entries : x # e => task'[x] = task[x] /\ queue'[x] = queue[x]
<1> DEFINE h == Head(queue[e])
           done == Done(task[e][h], o)
<1>1. h \in Keys /\ task[e] \in [Keys -> Task]
  BY HeadKey
<1>2. done.st = "done" /\ done.outcome = o /\ done.rev = task[e][h].rev
  <2>1. task[e][h] \in Task
    BY <1>1
  <2> HIDE DEF h
  <2> QED
    BY <2>1 DEF Done, Task
<1>3. task' = [task EXCEPT ![e][h] = done] /\ queue' = [queue EXCEPT ![e] = Tail(queue[e])]
  BY DEF Finish
<1> HIDE DEF h, done
<1>4. \A k \in Keys : k # h => task'[e][k] = task[e][k]
  BY <1>1, <1>3 DEF TypeOK
<1>5. task'[e][h] = done
  BY <1>1, <1>3 DEF TypeOK
<1>6. \A x \in Entries : x # e => task'[x] = task[x] /\ queue'[x] = queue[x]
  BY <1>3 DEF TypeOK
<1> QED
  BY <1>2, <1>4, <1>5, <1>6 DEF h

\* An answer that settles with anything but ok, its record marked only if it is still
\* at the head.
LEMMA FinishOther ==
  ASSUME RegistryInv, NEW e \in Entries, OneWriter(e), OkIsTrue(e), [Next]_vars,
         queue[e] # <<>>, NEW o, o # "ok", Finish(e, o),
         ~(Created(e)' /\ entry'[e].answering)
  PROVE  OneWriter(e)' /\ OkIsTrue(e)'
<1> DEFINE h == Head(queue[e])
<1>1. h \in Keys
  BY HeadKey DEF RegistryInv
<1>2. /\ \A k \in Keys : k # h => task'[e][k] = task[e][k]
      /\ task'[e][h].st = "done" /\ task'[e][h].outcome = o
  BY FinishStep DEF RegistryInv
<1>3. \A k \in Keys : task'[e][k].st # "writing"
  BY <1>1, <1>2 DEF OneWriter
<1>4. OneWriter(e)'
  BY <1>3 DEF OneWriter
<1> HIDE DEF h
<1>5. Terminal(e) => entry'[e].state = entry[e].state /\ entry'[e].rev = entry[e].rev
  BY NextKeepsTerminal DEF TerminalKept
<1>6. OkIsTrue(e)'
  <2> SUFFICES ASSUME NEW k \in Keys, task'[e][k].outcome = "ok"
               PROVE  /\ entry'[e].state = "resolved"
                      /\ entry'[e].rev = task'[e][k].rev + 1
                      /\ \A other \in Keys \ {k} : task'[e][other].outcome # "ok"
    BY DEF OkIsTrue
  <2>1. k # h /\ task'[e][k] = task[e][k]
    BY <1>2
  <2>2. entry[e].state = "resolved" /\ entry[e].rev = task[e][k].rev + 1
        /\ \A other \in Keys \ {k} : task[e][other].outcome # "ok"
    BY <2>1 DEF OkIsTrue
  <2>3. \A other \in Keys \ {k} : task'[e][other].outcome # "ok"
    BY <1>2, <2>2
  <2> QED
    BY <1>5, <2>1, <2>2, <2>3 DEF Terminal, TerminalStates
<1> QED
  BY <1>4, <1>6

\* The answer that resolves the prompt.
LEMMA FinishOk ==
  ASSUME RegistryInv, NEW e \in Entries, OneWriter(e), OkIsTrue(e), WriteLands(e)
  PROVE  OneWriter(e)' /\ OkIsTrue(e)'
<1> DEFINE h == Head(queue[e])
           r == Unmarked(e)
           after == Settled(r, "resolved")
<1>1. queue[e] # <<>> /\ Live(e) /\ task[e][h].rev = entry[e].rev /\ entry' = [entry EXCEPT ![e] = after]
  BY DEF WriteLands, Writing, HeadTask
<1>2. h \in Keys
  BY <1>1, HeadKey DEF RegistryInv
<1>3. /\ \A k \in Keys : k # h => task'[e][k] = task[e][k]
      /\ task'[e][h].st = "done" /\ task'[e][h].outcome = "ok"
      /\ task'[e][h].rev = task[e][h].rev
  BY <1>1, FinishStep DEF RegistryInv, WriteLands
<1>4. r \in Record /\ r.rev = entry[e].rev /\ ~r.answering
  BY <1>1, CreatedRecord DEF Unmarked, Record, RegistryInv
<1>5. after.state = "resolved" /\ after.rev = entry[e].rev + 1 /\ ~after.answering
  <2> HIDE DEF r
  <2> QED
    BY <1>4, SettledType, MarkersKept DEF RegistryInv, TypeOK, TerminalStates
<1>6. entry'[e] = after
  BY <1>1 DEF RegistryInv, TypeOK
<1>7. \A k \in Keys : task[e][k].outcome # "ok"
  BY <1>1 DEF OkIsTrue, Live, LiveStates
<1>8. \A k \in Keys : task'[e][k].st # "writing"
  BY <1>2, <1>3 DEF OneWriter
<1> HIDE DEF h, r, after
<1>9. OneWriter(e)'
  BY <1>5, <1>6, <1>8 DEF OneWriter
<1>10. OkIsTrue(e)'
  BY <1>1, <1>2, <1>3, <1>5, <1>6, <1>7 DEF OkIsTrue
<1> QED
  BY <1>9, <1>10

\* The answer that is handed to the adapter.
LEMMA BeginStep ==
  ASSUME RegistryInv, NEW e \in Entries, OneWriter(e), OkIsTrue(e), BeginWrite(e)
  PROVE  OneWriter(e)' /\ OkIsTrue(e)'
<1> DEFINE h == Head(queue[e])
           begun == [task[e][h] EXCEPT !.st = "writing"]
<1>1. queue[e] # <<>> /\ task[e][h].st = "queued" /\ queue' = queue
  BY DEF BeginWrite, HeadTask
<1>2. h \in Keys /\ task[e] \in [Keys -> Task]
  BY <1>1, HeadKey DEF RegistryInv
<1>3. task' = [task EXCEPT ![e][h] = begun]
  <2>1. task' = [task EXCEPT ![e][h].st = "writing"]
    BY DEF BeginWrite
  <2> QED
    BY <2>1
<1>4. begun.st = "writing" /\ begun.outcome = task[e][h].outcome /\ begun.rev = task[e][h].rev
  <2>1. task[e][h] \in Task
    BY <1>2
  <2> HIDE DEF h
  <2> QED
    BY <2>1 DEF Task
<1>5. entry'[e].state = entry[e].state /\ entry'[e].rev = entry[e].rev
  <2>1. entry[e] \in Record
    BY CreatedRecord DEF BeginWrite, RegistryInv
  <2>2. entry'[e] = [entry[e] EXCEPT !.answering = TRUE]
    BY DEF BeginWrite, RegistryInv, TypeOK
  <2> QED
    BY <2>1, <2>2 DEF Record
<1>6. ~Writing(e)
  BY <1>1 DEF Writing, HeadTask
<1> HIDE DEF h, begun
<1>7. (\A k \in Keys : k # h => task'[e][k] = task[e][k]) /\ task'[e][h] = begun
  BY <1>2, <1>3 DEF RegistryInv, TypeOK
<1>8. \A k \in Keys : task[e][k].st # "writing"
  BY <1>6 DEF OneWriter
<1>9. Writing(e)'
  BY <1>1, <1>4, <1>7 DEF Writing, HeadTask, h
<1>10. OneWriter(e)'
  BY <1>1, <1>7, <1>8, <1>9 DEF OneWriter, h
<1>11. \A k \in Keys : task'[e][k].outcome = task[e][k].outcome /\ task'[e][k].rev = task[e][k].rev
  BY <1>2, <1>4, <1>7
<1>12. OkIsTrue(e)'
  BY <1>5, <1>11 DEF OkIsTrue
<1> QED
  BY <1>10, <1>12

\* The answer that is queued, joined or replayed.
LEMMA AnswerStep ==
  ASSUME RegistryInv, \A e \in Entries : OneWriter(e) /\ OkIsTrue(e), [Next]_vars,
         NEW s \in Sessions, NEW p \in PromptIds, NEW k \in Keys, NEW r, Answer(s, p, k, r)
  PROVE  \A e \in Entries : OneWriter(e)' /\ OkIsTrue(e)'
<1> SUFFICES ASSUME NEW x \in Entries PROVE OneWriter(x)' /\ OkIsTrue(x)'
  OBVIOUS
<1>1. Created(x)' /\ entry'[x].answering => Created(x) /\ entry[x].answering
  <2>1. entry' = SweptEntry(s)
    BY DEF Answer
  <2> QED
    BY <2>1, SweptMarks DEF Created, RegistryInv
<1> DEFINE e == SweptById(s)[p]
           tasks == Pruned(task[e])
           isNew == tasks[k].st = "none"
<1>2. e \in Entries
  BY SweepType DEF Answer, RegistryInv
<1>3. /\ task' = [task EXCEPT ![e] = IF isNew THEN [tasks EXCEPT ![k] = Queued(r)] ELSE tasks]
      /\ queue' = IF isNew THEN [queue EXCEPT ![e] = Append(queue[e], k)] ELSE queue
  BY DEF Answer
<1>4. task[e] \in [Keys -> Task] /\ queue[e] \in Seq(Keys)
  BY <1>2 DEF RegistryInv, TypeOK
<1>5. \A j \in Keys : tasks[j] = task[e][j] \/ (tasks[j] = NoTask /\ task[e][j].st = "done")
  BY DEF Pruned
<1>6. tasks = [j \in Keys |-> tasks[j]]
  BY DEF Pruned
<1> HIDE DEF e, tasks
<1>7. CASE x # e
  <2>1. task'[x] = task[x] /\ queue'[x] = queue[x]
    BY <1>3, <1>7 DEF RegistryInv, TypeOK
  <2> QED
    BY <1>1, <2>1, UnansweredStep
<1>8. CASE x = e
  <2>1. \A j \in Keys : \/ task'[x][j] = task[x][j]
                        \/ task'[x][j] = NoTask /\ task[x][j].st = "done"
                        \/ task'[x][j] = Queued(r) /\ task[x][j].st \in {"done", "none"} /\ isNew
    <3>1. task'[x] = IF isNew THEN [tasks EXCEPT ![k] = Queued(r)] ELSE tasks
      BY <1>2, <1>3, <1>8 DEF RegistryInv, TypeOK
    <3>2. CASE ~isNew
      BY <1>5, <1>8, <3>1, <3>2
    <3>3. CASE isNew
      <4>1. \A j \in Keys : task'[x][j] = IF j = k THEN Queued(r) ELSE tasks[j]
        BY <1>6, <3>1, <3>3
      <4>2. task[x][k].st \in {"done", "none"}
        BY <1>5, <1>8, <3>3
      <4> QED
        BY <1>5, <1>8, <3>3, <4>1, <4>2
    <3> QED
      BY <3>2, <3>3
  <2>2. NoTask.st = "none" /\ NoTask.outcome = "pending" /\ Queued(r).st = "queued" /\ Queued(r).outcome = "pending"
    BY DEF NoTask, Queued
  <2> HIDE DEF isNew
  <2>3. \A j \in Keys : (task'[x][j].st = "writing" => task[x][j].st = "writing")
                       /\ (task[x][j].st = "writing" => task'[x][j] = task[x][j])
                       /\ (task'[x][j].outcome = "ok" => task'[x][j] = task[x][j])
    BY <2>1, <2>2
  <2>4. queue[x] # <<>> => queue'[x] # <<>> /\ Head(queue'[x]) = Head(queue[x])
    <3>1. queue'[x] = queue[x] \/ queue'[x] = Append(queue[x], k)
      BY <1>2, <1>3, <1>8 DEF RegistryInv, TypeOK
    <3>2. queue[x] \in Seq(Keys)
      BY DEF RegistryInv, TypeOK
    <3> QED
      BY <3>1, <3>2
  <2>5. Writing(x) => Writing(x)' /\ Head(queue'[x]) = Head(queue[x])
    <3> SUFFICES ASSUME Writing(x) PROVE Writing(x)' /\ Head(queue'[x]) = Head(queue[x])
      OBVIOUS
    <3>1. queue[x] # <<>> /\ task[x][Head(queue[x])].st = "writing" /\ Head(queue[x]) \in Keys
      BY HeadKey DEF Writing, HeadTask, RegistryInv
    <3> QED
      BY <2>3, <2>4, <3>1 DEF Writing, HeadTask
  <2>6. OneWriter(x)'
    BY <1>1, <2>3, <2>5 DEF OneWriter
  <2>7. Terminal(x) => entry'[x].state = entry[x].state /\ entry'[x].rev = entry[x].rev
    BY NextKeepsTerminal DEF TerminalKept
  <2>8. OkIsTrue(x)'
    BY <2>3, <2>7 DEF OkIsTrue, Terminal, TerminalStates
  <2> QED
    BY <2>6, <2>8
<1> QED
  BY <1>7, <1>8

\* Once the adapter is done the record of the prompt is no longer marked, and the
\* deferred close marks no other.
LEMMA DeferredMarks ==
  ASSUME RegistryInv, NEW e \in Entries, Writing(e),
         SettleDeferred([entry EXCEPT ![e] = Unmarked(e)], e)
  PROVE  /\ ~(Created(e)' /\ entry'[e].answering)
         /\ \A x \in Entries \ {e} :
              Created(x)' /\ entry'[x].answering => Created(x) /\ entry[x].answering
<1> DEFINE ent == [entry EXCEPT ![e] = Unmarked(e)]
           now == byId[ent[e].pid]
<1>1. entry[e] \in Record
  BY CreatedRecord DEF QueuesHaveRecords, Writing, RegistryInv
<1>2. Unmarked(e) \in Record /\ ~Unmarked(e).answering
  BY <1>1 DEF Unmarked, Record
<1>3. ent \in [Entries -> Record \cup {Unused}] /\ ent[e] = Unmarked(e)
      /\ \A x \in Entries \ {e} : ent[x] = entry[x]
  BY <1>2 DEF RegistryInv, TypeOK
<1>4. CASE entry' = ent
  BY <1>2, <1>3, <1>4 DEF Created
<1>5. CASE /\ now # NoEntry
           /\ ent[now].state \in LiveStates
           /\ entry' = AfterClose(ent, now)
  <2> DEFINE after == IF ent[now].answering THEN [ent[now] EXCEPT !.deferred = TRUE]
                      ELSE Settled(ent[now], "cancelled")
  <2>1. ent[e].pid \in PromptIds
    BY <1>2, <1>3 DEF Record
  <2>2. now \in Entries
    BY <1>5, <2>1 DEF RegistryInv, TypeOK
  <2> HIDE DEF ent, now
  <2>3. ent[now] \in Record
    <3>1. Unused.state \notin LiveStates
      BY DEF Unused, LiveStates
    <3> QED
      BY <1>3, <1>5, <2>2, <3>1
  <2>4. entry' = [ent EXCEPT ![now] = after]
    BY <1>5 DEF AfterClose
  <2>5. after.answering = ent[now].answering
    BY <2>3, MarkersKept
  <2>6. ent[now].state # "unused"
    BY <2>3 DEF Record, LiveStates, TerminalStates
  <2> HIDE DEF after
  <2>7. \A x \in Entries : Created(x)' /\ entry'[x].answering => ent[x].answering /\ ent[x].state # "unused"
    BY <1>3, <2>2, <2>4, <2>5, <2>6 DEF Created
  <2> QED
    BY <1>2, <1>3, <2>7 DEF Created
<1> QED
  BY <1>4, <1>5 DEF SettleDeferred

\* Each step of an answer, for the entry it is about and for the others.
LEMMA SettleKeeps ==
  ASSUME RegistryInv, \A e \in Entries : OneWriter(e) /\ OkIsTrue(e), [Next]_vars,
         NEW e \in Entries, Settle(e)
  PROVE  \A x \in Entries : OneWriter(x)' /\ OkIsTrue(x)'
<1> USE DEF RegistryInv
<1>1. ASSUME NEW after, entry[e] \in Record, entry' = [entry EXCEPT ![e] = after]
      PROVE  \A x \in Entries \ {e} :
               Created(x)' /\ entry'[x].answering => Created(x) /\ entry[x].answering
  BY <1>1 DEF TypeOK, Created
<1>2. ASSUME NEW o, Finish(e, o), queue[e] # <<>>,
             \A x \in Entries \ {e} :
               Created(x)' /\ entry'[x].answering => Created(x) /\ entry[x].answering
      PROVE  \A x \in Entries \ {e} : OneWriter(x)' /\ OkIsTrue(x)'
  BY <1>2, FinishStep, UnansweredStep
<1>3. CASE Refuse(e)
  <2>1. PICK o : Finish(e, o) /\ o # "ok" /\ queue[e] # <<>> /\ HeadTask(e).st = "queued"
    BY <1>3 DEF Refuse
  <2>2. entry' = entry \/ (Due(e) /\ entry' = [entry EXCEPT ![e] = Settled(entry[e], "expired")])
    BY <1>3 DEF Refuse
  <2>3. ~Writing(e) /\ ~(Created(e) /\ entry[e].answering)
    BY <2>1 DEF OneWriter, Writing
  <2>4. \A x \in Entries : Created(x)' /\ entry'[x].answering => Created(x) /\ entry[x].answering
    <3>1. CASE entry' = entry
      BY <3>1 DEF Created
    <3>2. CASE Due(e) /\ entry' = [entry EXCEPT ![e] = Settled(entry[e], "expired")]
      <4>1. entry[e] \in Record
        BY <3>2, CreatedRecord DEF Due
      <4>2. Settled(entry[e], "expired").answering = entry[e].answering
        BY <4>1, MarkersKept
      <4> HIDE DEF Settled
      <4> QED
        BY <1>1, <3>2, <4>1, <4>2, CreatedRecord DEF TypeOK
    <3> QED
      BY <2>2, <3>1, <3>2
  <2> QED
    BY <1>2, <2>1, <2>3, <2>4, FinishOther
<1>4. CASE BeginWrite(e)
  <2> DEFINE after == [entry[e] EXCEPT !.answering = TRUE]
  <2>1. entry[e] \in Record /\ entry' = [entry EXCEPT ![e] = after]
    BY <1>4, CreatedRecord DEF BeginWrite
  <2> HIDE DEF after
  <2>2. \A x \in Entries \ {e} :
          Created(x)' /\ entry'[x].answering => Created(x) /\ entry[x].answering
    BY <1>1, <2>1
  <2>3. \A x \in Entries \ {e} : task'[x] = task[x] /\ queue'[x] = queue[x]
    BY <1>4 DEF BeginWrite, TypeOK
  <2> QED
    BY <1>4, <2>2, <2>3, BeginStep, UnansweredStep
<1>5. CASE WriteLands(e)
  <2> DEFINE after == Settled(Unmarked(e), "resolved")
  <2>1. entry[e] \in Record /\ entry' = [entry EXCEPT ![e] = after]
    BY <1>5, CreatedRecord DEF WriteLands
  <2> HIDE DEF after
  <2>2. Finish(e, "ok") /\ queue[e] # <<>>
    BY <1>5 DEF WriteLands, Writing
  <2> QED
    BY <1>1, <1>2, <1>5, <2>1, <2>2, FinishOk
<1>6. CASE WriteOvertaken(e) \/ WriteFails(e)
  <2>1. PICK o : Finish(e, o) /\ o # "ok"
    BY <1>6 DEF WriteOvertaken, WriteFails
  <2>2. queue[e] # <<>> /\ Writing(e) /\ SettleDeferred([entry EXCEPT ![e] = Unmarked(e)], e)
    BY <1>6 DEF WriteOvertaken, WriteFails, Writing
  <2> QED
    BY <1>2, <2>1, <2>2, DeferredMarks, FinishOther
<1>7. ASSUME NEW state \in {"cancelled", "unavailable"}, WriteFindsGone(e, state)
      PROVE  \A x \in Entries : OneWriter(x)' /\ OkIsTrue(x)'
  <2> DEFINE r == Unmarked(e)
             after == Settled(r, state)
  <2>1. entry[e] \in Record /\ entry' = [entry EXCEPT ![e] = after]
    BY <1>7, CreatedRecord DEF WriteFindsGone
  <2>2. ~after.answering
    <3>1. r \in Record /\ ~r.answering
      BY <2>1 DEF Unmarked, Record
    <3> HIDE DEF r
    <3> QED
      BY <3>1, MarkersKept
  <2> HIDE DEF after
  <2>3. Finish(e, "failed") /\ queue[e] # <<>>
    BY <1>7 DEF WriteFindsGone, Writing
  <2>4. ~(Created(e)' /\ entry'[e].answering)
    BY <2>1, <2>2 DEF TypeOK
  <2> QED
    BY <1>1, <1>2, <2>1, <2>3, <2>4, FinishOther
<1> QED
  BY <1>3, <1>4, <1>5, <1>6, <1>7 DEF Settle

LEMMA AnswersStayTrue ==
  ASSUME RegistryInv, OneWriterPerPrompt, AnswerResolvesItsRevision, [Next]_vars
  PROVE  OneWriterPerPrompt' /\ AnswerResolvesItsRevision'
<1> SUFFICES \A e \in Entries : OneWriter(e)' /\ OkIsTrue(e)'
  BY DEF OneWriterPerPrompt, OneWriter, AnswerResolvesItsRevision, OkIsTrue
<1>1. \A e \in Entries : OneWriter(e) /\ OkIsTrue(e)
  BY ByEntry
<1>2. ASSUME NoNewMark, task' = task, queue' = queue
      PROVE  \A e \in Entries : OneWriter(e)' /\ OkIsTrue(e)'
  BY <1>1, <1>2, UnansweredStep DEF NoNewMark
<1>3. CASE UNCHANGED vars
  <2>1. entry' = entry /\ task' = task /\ queue' = queue
    BY <1>3 DEF vars
  <2> QED
    BY <1>2, <2>1 DEF NoNewMark, Created
<1>4. CASE Producer \/ (\E s \in Sessions : Sweep(s)) \/ (\E e \in Entries : ExpiryTimer(e)) \/ Tick
  BY <1>2, <1>4, UnansweredMarks
<1>5. ASSUME NEW s \in Sessions, NEW p \in PromptIds, NEW k \in Keys, NEW r, Answer(s, p, k, r)
      PROVE  \A e \in Entries : OneWriter(e)' /\ OkIsTrue(e)'
  BY <1>1, <1>5, AnswerStep
<1>6. ASSUME NEW e \in Entries, Settle(e)
      PROVE  \A x \in Entries : OneWriter(x)' /\ OkIsTrue(x)'
  BY <1>1, <1>6, SettleKeeps
<1> QED
  BY <1>3, <1>4, <1>5, <1>6 DEF Next, Client

\* Nothing was asked, nothing was told.
LEMMA InitTold == Init => ToldAsItIs
<1> SUFFICES ASSUME Init PROVE ToldAsItIs
  OBVIOUS
<1>1. \A e \in Entries : ~Created(e)
  BY DEF Init, Created, Unused
<1>2. \A e \in Entries, k \in Keys : task[e][k].st = "none" /\ task[e][k].outcome = "pending"
  BY DEF Init, NoTask
<1>3. OneWriterPerPrompt /\ AnswerResolvesItsRevision
  BY <1>1, <1>2 DEF OneWriterPerPrompt, AnswerResolvesItsRevision
<1>4. EveryRevisionPublished
  <2> SUFFICES ASSUME NEW s \in Sessions
               PROVE  sequence[s] = MapThenSumSet(LAMBDA x : entry[x].rev,
                        {x \in Entries : Created(x) /\ entry[x].sess = s})
    BY Zenon DEF EveryRevisionPublished
  <2> DEFINE A == {x \in Entries : Created(x) /\ entry[x].sess = s}
  <2>1. A \in SUBSET Entries /\ A = {} /\ sequence[s] = 0
    BY <1>1 DEF Init
  <2>2. RevisionSum(entry, A) = 0
    <3> HIDE DEF A
    <3> QED
      BY <2>1, EntriesAssumption, SumOfNone
  <2>3. sequence[s] = RevisionSum(entry, A)
    BY <2>1, <2>2
  <2> QED
    BY <2>3, Zenon DEF RevisionSum
<1> QED
  BY <1>3, <1>4 DEF ToldAsItIs

\* Clients are told what is, however answers, retries, revisions, closes, expiries and
\* the end of a session interleave: one answer of a prompt is with the adapter at a
\* time; an answerer that was told "ok" answered the revision that was resolved and is
\* the only one; the events of a session number every revision of its prompts.
THEOREM AnswersAndEventsAreTrue == Spec => []ToldAsItIs
<1>1. Init => RegistryInv /\ ToldAsItIs
  BY InitInv, InitTold
<1>2. (RegistryInv /\ ToldAsItIs) /\ [Next]_vars => (RegistryInv /\ ToldAsItIs)'
  BY NextInv, RevisionsPublished, AnswersStayTrue DEF ToldAsItIs
<1>3. Spec => [](RegistryInv /\ ToldAsItIs)
  BY <1>1, <1>2, PTL DEF Spec
<1> QED
  BY <1>3, PTL
=============================================================================
