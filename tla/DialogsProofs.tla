---------------------------- MODULE DialogsProofs ----------------------------
(***************************************************************************)
(* Proofs about the dialogs of a session: its permission gates, in one     *)
(* process or across the pty-host, with any clients on any of the four     *)
(* routes, and its question menus, for any number of menus, dialogs,       *)
(* contents and requests.                                                  *)
(*                                                                         *)
(* The permission gates.  That no announcement throws is about ids:        *)
(* promptRegistry.open must never be asked for one whose record is live.   *)
(* A record whose gate is gone can stay live, while its answer is being    *)
(* written.  So it needs to be known of every occurrence id in the server  *)
(* that what was announced since, and what is on the socket, has it or a   *)
(* later one (Follows), and of a live record without its gate that all of  *)
(* it is later (Ahead): a close reached the server behind the last         *)
(* announcement of that id.  Raw keys break this: they drop a gate the     *)
(* host still shows.                                                       *)
(*                                                                         *)
(* That an accepted answer resolved its prompt, and is the only one, rests *)
(* on the mark of the record (answering): two requests are at one record   *)
(* only when the session is over (Apart), a close spares what is marked,   *)
(* and while a request awaits the screen and its gate is pending, the      *)
(* record is live (IsMarked).                                              *)
(*                                                                         *)
(* Two more rest on these.  LostAreDeferred: a live record other than the  *)
(* pending gate's is being answered, and the close that took its gate      *)
(* waits for the answer.  TextKept: composer text reaches a dialog only if *)
(* it was written before the server heard of the dialog.  For that one     *)
(* follows the announcement from the screen to the server: every message   *)
(* behind it shows the dialog (QueueBelieves), a close is behind it only   *)
(* while a key is on its way that will end the dialog, and so whoever      *)
(* looks at the gate or at the screen, before an await and after it, sees  *)
(* the dialog and writes no text (LooksAtGate, ServerBelieves).            *)
(*                                                                         *)
(* The question menus rest on MenusIInv.  That a pending question has a    *)
(* live record and its key is inductive once one adds where the question   *)
(* came from (PendingIsTrue), that all menus but the last have reached the *)
(* transcript (MenusInTurn), and that the key outlives the answer          *)
(* (AnsweredIsKnown), which is what keeps a repaint from asking again.     *)
(***************************************************************************)
EXTENDS MCDialogs, TLAPS

-----------------------------------------------------------------------------
(* The states.                                                             *)

States == {"open", "resolved", "cancelled", "unavailable"}
PromptRec == [state : States, occ : Nat, answering : BOOLEAN, deferred : BOOLEAN]
GateRec == [view : Views, prompt : Nat, occ : Nat, serial : Nat]
ServerRec == [gate : GateRec, prompts : Seq(PromptRec), serial : Nat, told : 0..Dialogs,
              ended : BOOLEAN, threw : BOOLEAN]
Places == {"idle", "reading", "rereading", "done"}
RequestRec == [pc : Places, prompt : Nat, view : Views, serial : Nat,
               result : {"none", "written", "refused"}]

\* The kinds of values the variables have.
SetupTypes == content \in [1..Dialogs -> Contents] /\ route \in [Requests -> Routes]

RunnerTypes ==
  /\ agent \in [alive : BOOLEAN, asking : 0..Dialogs, painted : 0..Dialogs, filled : BOOLEAN,
                last : 0..Dialogs, osc : BOOLEAN, hit : BOOLEAN]
  /\ runner \in [open : Views, closed : Contents \cup {None},
                 pass : {"none", "chunk", "permission", "waiting"}]

\* A message of the pty-host.
Message(m) ==
  /\ m.ev \in {"gate", "gone", "exit", "screen"}
  /\ m.ev = "gate" =>
       m.view \in Views \ {None} /\ m.occ \in Nat \ {0} /\ m.dialog \in 0..Dialogs
  /\ m.ev = "screen" => m.to \in Requests

\* Was the gate closed by one of the messages i to j?
Gone(i, j) == \E m \in i..j : up[m].ev = "gone"

\* The announcements behind message n, and those to come, that are not of occurrence k
\* are of later ones; so are all of them behind a close.
Follows(k, n) ==
  /\ k < host.next
  /\ \A j \in (n + 1)..Len(up) :
       up[j].ev = "gate" => up[j].occ >= k /\ (Gone(n + 1, j) => up[j].occ > k)
  /\ host.view # None => host.id >= k /\ (Gone(n + 1, Len(up)) => host.id > k)

\* Occurrence k is not announced again.
Ahead(k) ==
  /\ k < host.next
  /\ \A j \in 1..Len(up) : up[j].ev = "gate" => up[j].occ > k
  /\ host.view # None => host.id > k

HostTypes ==
  /\ host \in [view : Views, id : Nat, next : Nat]
  /\ host.id < host.next /\ (host.view # None => host.id # 0)
IsList(s) == s \in Seq({s[i] : i \in DOMAIN s})
QueueTypes == IsList(up) /\ \A i \in 1..Len(up) : Message(up[i])
HostedOnly == ~hosted => up = <<>>
InOrder == \A n \in 1..Len(up) : up[n].ev = "gate" => Follows(up[n].occ, n)

QueueInv == HostTypes /\ QueueTypes /\ HostedOnly /\ InOrder

-----------------------------------------------------------------------------
(* The messages of the pty-host.                                           *)

\* What is known of the announcements to come stays known.
Foreseen ==
  \A k \in Nat : (Follows(k, 0) => Follows(k, 0)') /\ (Ahead(k) => Ahead(k)')

LEMMA ScreenIsView ==
  ASSUME SetupTypes, RunnerTypes
  PROVE  Screen \in Contents \cup {None}
  BY DEF SetupTypes, RunnerTypes, Screen

LEMMA ListOf ==
  ASSUME NEW S, NEW s \in Seq(S)
  PROVE  IsList(s)
<1> DEFINE T == {s[i] : i \in DOMAIN s}
<1>1. \A i \in 1..Len(s) : s[i] \in T
  OBVIOUS
<1>2. s \in [1..Len(s) -> S] /\ Len(s) \in Nat
  OBVIOUS
<1> HIDE DEF T
<1>3. s \in Seq(T)
  BY <1>1, <1>2
<1> QED
  BY <1>3 DEF IsList, T

LEMMA Appending ==
  ASSUME QueueTypes, NEW m, up' = Append(up, m)
  PROVE  /\ Len(up') = Len(up) + 1 /\ up'[Len(up')] = m /\ IsList(up')
         /\ \A i \in 1..Len(up) : up'[i] = up[i]
         /\ Len(up) \in Nat
<1> DEFINE S == {up[i] : i \in DOMAIN up} \cup {m}
<1>1. up \in Seq(S) /\ m \in S
  BY DEF QueueTypes, IsList
<1> HIDE DEF S
<1>2. /\ Len(up') = Len(up) + 1 /\ up'[Len(up')] = m /\ up' \in Seq(S)
      /\ \A i \in 1..Len(up) : up'[i] = up[i]
  BY <1>1
<1>3. Len(up) \in Nat
  BY <1>1
<1>4. IsList(up')
  BY <1>2, ListOf
<1> QED
  BY <1>2, <1>3, <1>4

\* What a message does to the closes seen between two others.
LEMMA AppendsNoGate ==
  ASSUME QueueInv, NEW m, up' = Append(up, m), Message(m), m.ev # "gate",
         HostTypes', host'.next = host.next,
         host'.view # None => host'.view = host.view /\ host'.id = host.id /\ m.ev # "gone"
  PROVE  QueueTypes' /\ InOrder' /\ Foreseen
<1>1. /\ Len(up') = Len(up) + 1 /\ up'[Len(up')] = m /\ IsList(up')
      /\ \A i \in 1..Len(up) : up'[i] = up[i]
      /\ Len(up) \in Nat
  BY Appending DEF QueueInv
<1>2. ASSUME NEW k \in Nat, NEW n \in 0..Len(up), Follows(k, n)
      PROVE  Follows(k, n)'
  <2>1. \A j \in (n + 1)..Len(up) : Gone(n + 1, j)' <=> Gone(n + 1, j)
    BY <1>1 DEF Gone
  <2>2. ASSUME m.ev # "gone", Gone(n + 1, Len(up))'
        PROVE  Gone(n + 1, Len(up))
    BY <1>1, <2>2 DEF Gone
  <2>3. \A j \in (n + 1)..Len(up') :
          up'[j].ev = "gate" => up'[j].occ >= k /\ (Gone(n + 1, j)' => up'[j].occ > k)
    BY <1>1, <1>2, <2>1 DEF Follows
  <2> QED
    BY <1>1, <1>2, <2>2, <2>3 DEF Follows
<1>3. \A k \in Nat : Ahead(k) => Ahead(k)'
  BY <1>1 DEF Ahead
<1>4. QueueTypes'
  BY <1>1 DEF QueueInv, QueueTypes
<1>5. ASSUME NEW n \in 1..Len(up'), up'[n].ev = "gate"
      PROVE  Follows(up[n].occ, n)'
  <2>1. n \in 1..Len(up) /\ up'[n] = up[n]
    BY <1>1, <1>5
  <2>2. PICK k \in Nat : k = up[n].occ
    BY <1>5, <2>1 DEF QueueInv, QueueTypes, Message
  <2>3. Follows(k, n)
    BY <1>5, <2>1, <2>2 DEF QueueInv, InOrder
  <2>4. Follows(k, n)'
    BY <1>1, <1>2, <2>1, <2>3
  <2> QED
    BY <2>1, <2>2, <2>4
<1>6. InOrder'
  BY <1>5 DEF InOrder
<1>7. Foreseen
  BY <1>1, <1>2, <1>3 DEF Foreseen
<1> QED
  BY <1>4, <1>6, <1>7

\* An announcement, under the id its view has or under the next one.
LEMMA AppendsGate ==
  ASSUME QueueInv, NEW view \in Views \ {None}, NEW dlg \in 0..Dialogs, NEW id,
         id = IF host.view = view THEN host.id ELSE host.next,
         up' = Append(up, [ev |-> "gate", view |-> view, occ |-> id, dialog |-> dlg]),
         host' = [view |-> view, id |-> id,
                  next |-> IF id = host.next THEN host.next + 1 ELSE host.next]
  PROVE  HostTypes' /\ QueueTypes' /\ InOrder' /\ Foreseen
<1> DEFINE m == [ev |-> "gate", view |-> view, occ |-> id, dialog |-> dlg]
<1>20. host.id \in Nat /\ host.next \in Nat /\ host.id < host.next
  BY DEF QueueInv, HostTypes
<1>21. id = host.next \/ (host.view = view /\ id = host.id /\ id # 0)
  BY DEF QueueInv, HostTypes
<1>0. /\ host.id \in Nat /\ host.next \in Nat /\ host.id < host.next
      /\ id \in Nat \ {0} /\ (id = host.next \/ (host.view = view /\ id = host.id))
  BY <1>20, <1>21
<1>1. /\ host'.view = view /\ host'.id = id /\ host'.next \in Nat
      /\ host'.next >= host.next /\ id < host'.next /\ HostTypes'
  BY <1>0 DEF HostTypes
<1>2. Message(m) /\ m.ev = "gate" /\ m.occ = id
  BY <1>0 DEF Message
<1>3. up' = Append(up, m)
  OBVIOUS
<1> HIDE DEF m
<1>4. /\ Len(up') = Len(up) + 1 /\ up'[Len(up')] = m /\ IsList(up')
      /\ \A i \in 1..Len(up) : up'[i] = up[i]
      /\ Len(up) \in Nat
  BY <1>3, Appending DEF QueueInv
<1>22. up'[Len(up')].ev # "gone" /\ up'[Len(up')].occ = id
  BY <1>2, <1>4
<1>5. ASSUME NEW k \in Nat, NEW n \in 0..Len(up), Follows(k, n)
      PROVE  Follows(k, n)'
  <2>1. \A j \in (n + 1)..Len(up) : Gone(n + 1, j)' <=> Gone(n + 1, j)
    <3> SUFFICES ASSUME NEW j \in (n + 1)..Len(up)
                 PROVE  Gone(n + 1, j)' <=> Gone(n + 1, j)
      OBVIOUS
    <3>1. \A i \in (n + 1)..j : up'[i] = up[i]
      BY <1>4
    <3> QED
      BY <3>1 DEF Gone
  <2>2. ASSUME Gone(n + 1, Len(up))'
        PROVE  Gone(n + 1, Len(up))
    BY <1>22, <1>4, <2>2 DEF Gone
  <2>3. id >= k /\ (Gone(n + 1, Len(up)) => id > k) /\ k < host'.next
    BY <1>0, <1>1, <1>5 DEF Follows
  <2>4. \A j \in (n + 1)..Len(up) :
          up'[j].ev = "gate" => up'[j].occ >= k /\ (Gone(n + 1, j)' => up'[j].occ > k)
    BY <1>4, <1>5, <2>1 DEF Follows
  <2>6. \A j \in (n + 1)..Len(up') :
          up'[j].ev = "gate" => up'[j].occ >= k /\ (Gone(n + 1, j)' => up'[j].occ > k)
    <3> SUFFICES ASSUME NEW j \in (n + 1)..Len(up'), j = Len(up')
                 PROVE  up'[j].occ >= k /\ (Gone(n + 1, j)' => up'[j].occ > k)
      BY <1>4, <2>4
    <3>1. up'[j].occ = id
      BY <1>22
    <3>2. Gone(n + 1, j)' => Gone(n + 1, Len(up))
      BY <1>22, <1>4 DEF Gone
    <3> QED
      BY <2>3, <3>1, <3>2
  <2> QED
    BY <1>1, <2>2, <2>3, <2>6 DEF Follows
<1>6. ASSUME NEW k \in Nat, Ahead(k)
      PROVE  Ahead(k)'
  <2>1. id > k /\ k < host'.next
    BY <1>0, <1>1, <1>6 DEF Ahead
  <2>2. \A j \in 1..Len(up') : up'[j].ev = "gate" => up'[j].occ > k
    BY <1>2, <1>4, <1>6, <2>1 DEF Ahead
  <2> QED
    BY <1>1, <2>1, <2>2 DEF Ahead
<1>7. QueueTypes'
  BY <1>2, <1>4 DEF QueueInv, QueueTypes
<1>8. ASSUME NEW n \in 1..Len(up'), up'[n].ev = "gate"
      PROVE  Follows(up[n].occ, n)'
  <2>1. PICK k \in Nat : k = up'[n].occ
    BY <1>7, <1>8 DEF QueueTypes, Message
  <2>2. CASE n = Len(up')
    <3>1. k = id
      BY <1>2, <1>4, <2>1, <2>2
    <3>2. ~Gone(n + 1, Len(up))'
      BY <1>4, <2>2 DEF Gone
    <3> QED
      BY <1>0, <1>1, <1>4, <2>1, <2>2, <3>1, <3>2 DEF Follows
  <2>3. CASE n # Len(up')
    <3>1. n \in 1..Len(up) /\ up'[n] = up[n]
      BY <1>4, <2>3
    <3>2. Follows(k, n)
      BY <1>8, <2>1, <3>1 DEF QueueInv, InOrder
    <3>3. Follows(k, n)'
      BY <1>4, <1>5, <3>1, <3>2
    <3> QED
      BY <2>1, <3>3
  <2> QED
    BY <2>2, <2>3
<1>9. InOrder'
  BY <1>8 DEF InOrder
<1>10. Foreseen
  BY <1>4, <1>5, <1>6 DEF Foreseen
<1> QED
  BY <1>1, <1>7, <1>9, <1>10

\* A message is taken.
LEMMA Taking ==
  ASSUME QueueInv, up # <<>>, up' = Tail(up), UNCHANGED host
  PROVE  /\ QueueTypes' /\ InOrder' /\ Foreseen /\ Message(Head(up)) /\ Head(up) = up[1]
         /\ \A k \in Nat : Follows(k, 1) => Follows(k, 0)'
         /\ up[1].ev = "gone" => \A k \in Nat : Follows(k, 0) => Ahead(k)'
         /\ up[1].ev = "gate" => Follows(up[1].occ, 1)
         /\ up[1].ev = "gate" => \A k \in Nat : Follows(k, 0) => up[1].occ >= k
         /\ up[1].ev = "gate" => \A k \in Nat : Ahead(k) => up[1].occ > k
<1> DEFINE S == {up[i] : i \in DOMAIN up}
<1>1. up \in Seq(S)
  BY DEF QueueInv, QueueTypes, IsList
<1> HIDE DEF S
<1>2. /\ Len(up) \in Nat \ {0} /\ Len(up') = Len(up) - 1 /\ up' \in Seq(S)
      /\ \A i \in 1..Len(up') : up'[i] = up[i + 1]
      /\ Head(up) = up[1]
  BY <1>1
<1>4. IsList(up')
  BY <1>2, ListOf
<1>5. \A n, j \in Nat : j <= Len(up') => (Gone(n + 1, j)' => Gone(n + 2, j + 1))
  BY <1>2 DEF Gone
<1>6. \A n, j \in Nat : Gone(n + 2, j) => Gone(n + 1, j)
  BY DEF Gone
<1>7. ASSUME NEW k \in Nat, NEW n \in 0..Len(up'), Follows(k, n + 1)
      PROVE  Follows(k, n)'
  <2>1. ASSUME NEW j \in (n + 1)..Len(up'), up'[j].ev = "gate"
        PROVE  up'[j].occ >= k /\ (Gone(n + 1, j)' => up'[j].occ > k)
    <3>1. up'[j] = up[j + 1] /\ j + 1 \in (n + 2)..Len(up) /\ j \in Nat
      BY <1>2
    <3>2. Gone(n + 1, j)' => Gone(n + 2, j + 1)
      BY <1>5, <3>1
    <3> QED
      BY <1>7, <2>1, <3>1, <3>2 DEF Follows
  <2>2. Gone(n + 1, Len(up))' => Gone(n + 2, Len(up))
    BY <1>2, <1>5
  <2> QED
    BY <1>7, <2>1, <2>2 DEF Follows
<1>8. ASSUME NEW k \in Nat, Follows(k, 0)
      PROVE  Follows(k, 1)
  BY <1>2, <1>6, <1>8, SMTT(30) DEF Follows
<1>9. \A k \in Nat : Follows(k, 0) => Follows(k, 0)'
  BY <1>2, <1>7, <1>8
<1>10. ASSUME NEW k \in Nat, Ahead(k)
       PROVE  Ahead(k)'
  BY <1>2, <1>10 DEF Ahead
<1>11. QueueTypes' /\ Message(up[1])
  BY <1>2, <1>4 DEF QueueInv, QueueTypes
<1>12. ASSUME NEW n \in 1..Len(up'), up'[n].ev = "gate"
       PROVE  Follows(up[n].occ, n)'
  <2>1. PICK k \in Nat : k = up'[n].occ
    BY <1>11, <1>12 DEF QueueTypes, Message
  <2>2. n + 1 \in 1..Len(up) /\ up'[n] = up[n + 1]
    BY <1>2
  <2>3. Follows(k, n + 1)
    BY <1>12, <2>1, <2>2 DEF QueueInv, InOrder
  <2>4. Follows(k, n)'
    BY <1>7, <2>2, <2>3
  <2> QED
    BY <2>1, <2>4
<1>13. InOrder'
  BY <1>12 DEF InOrder
<1>14. ASSUME up[1].ev = "gone", NEW k \in Nat, Follows(k, 0)
       PROVE  Ahead(k)'
  <2>1. \A j \in 1..Len(up) : Gone(1, j)
    BY <1>14 DEF Gone
  <2> QED
    BY <1>2, <1>14, <2>1 DEF Follows, Ahead
<1>15. up[1].ev = "gate" => Follows(up[1].occ, 1)
  BY <1>2 DEF QueueInv, InOrder
<1>16. up[1].ev = "gate" => \A k \in Nat : Follows(k, 0) => up[1].occ >= k
  BY <1>2 DEF Follows
<1>17. up[1].ev = "gate" => \A k \in Nat : Ahead(k) => up[1].occ > k
  BY <1>2 DEF Ahead
<1>18. Foreseen
  BY <1>9, <1>10 DEF Foreseen
<1> QED
  BY <1>2, <1>7, <1>11, <1>13, <1>14, <1>15, <1>16, <1>17, <1>18

\* Nothing moves between the pty-host and the server.
LEMMA QueueStill ==
  ASSUME QueueInv, UNCHANGED <<host, up, hosted>>
  PROVE  QueueInv' /\ Foreseen
<1>1. \A k, n : Follows(k, n)' <=> Follows(k, n)
  BY DEF Follows, Gone
<1>2. \A k : Ahead(k)' <=> Ahead(k)
  BY DEF Ahead
<1>3. HostTypes' /\ QueueTypes' /\ HostedOnly'
  BY DEF QueueInv, HostTypes, QueueTypes, HostedOnly
<1>4. InOrder'
  BY <1>1 DEF QueueInv, InOrder
<1> QED
  BY <1>1, <1>2, <1>3, <1>4 DEF QueueInv, Foreseen

-----------------------------------------------------------------------------
(* What the operations do to the records.                                  *)

\* Records `new` for `old`: the same ones, those that are settled as they were.
Aged(old, new) ==
  /\ new \in Seq(PromptRec) /\ Len(new) = Len(old)
  /\ \A p \in 1..Len(old) :
       /\ new[p].occ = old[p].occ
       /\ old[p].state # "open" => new[p].state = old[p].state

\* Only record p, if any, differs.
OnlyAt(old, new, p) == \A q \in 1..Len(old) : q # p => new[q] = old[q]

LEMMA Putting ==
  ASSUME NEW ps \in Seq(PromptRec), NEW p \in 1..Len(ps), NEW x \in PromptRec
  PROVE  /\ [ps EXCEPT ![p] = x] \in Seq(PromptRec) /\ Len([ps EXCEPT ![p] = x]) = Len(ps)
         /\ [ps EXCEPT ![p] = x][p] = x
         /\ \A q \in 1..Len(ps) : q # p => [ps EXCEPT ![p] = x][q] = ps[q]
  OBVIOUS

LEMMA FieldsPut ==
  ASSUME NEW ps \in Seq(PromptRec), NEW p \in 1..Len(ps)
  PROVE  /\ \A s \in States : [ps EXCEPT ![p].state = s] = [ps EXCEPT ![p] = [ps[p] EXCEPT !.state = s]]
         /\ \A b \in BOOLEAN : [ps EXCEPT ![p].deferred = b] = [ps EXCEPT ![p] = [ps[p] EXCEPT !.deferred = b]]
         /\ \A b \in BOOLEAN : [ps EXCEPT ![p].answering = b] = [ps EXCEPT ![p] = [ps[p] EXCEPT !.answering = b]]
  OBVIOUS

LEMMA FieldsTyped ==
  ASSUME NEW x \in PromptRec
  PROVE  /\ \A s \in States : /\ [x EXCEPT !.state = s] \in PromptRec /\ [x EXCEPT !.state = s].state = s
                              /\ [x EXCEPT !.state = s].occ = x.occ
                              /\ [x EXCEPT !.state = s].answering = x.answering
         /\ \A b \in BOOLEAN : /\ [x EXCEPT !.deferred = b] \in PromptRec
                               /\ [x EXCEPT !.deferred = b].state = x.state
                               /\ [x EXCEPT !.deferred = b].occ = x.occ
                               /\ [x EXCEPT !.deferred = b].answering = x.answering
         /\ \A b \in BOOLEAN : /\ [x EXCEPT !.answering = b] \in PromptRec
                               /\ [x EXCEPT !.answering = b].state = x.state
                               /\ [x EXCEPT !.answering = b].occ = x.occ
                               /\ [x EXCEPT !.answering = b].answering = b
  BY DEF PromptRec, States

\* promptRegistry.transition settles the record, if it was open.
LEMMA TransitionedIs ==
  ASSUME NEW ps \in Seq(PromptRec), NEW p \in Nat, NEW s \in States \ {"open"},
         NEW new, new = Transitioned(ps, p, s)
  PROVE  /\ Aged(ps, new) /\ OnlyAt(ps, new, p)
         /\ p \in 1..Len(ps) => /\ ~Live(new, p) /\ new[p].answering = ps[p].answering
                                /\ Live(ps, p) => new[p].state = s
<1>1. CASE Live(ps, p)
  <2>1. p \in 1..Len(ps) /\ ps[p] \in PromptRec
    BY <1>1 DEF Live
  <2>2. PICK x \in PromptRec : x = [ps[p] EXCEPT !.state = s]
    BY <2>1, FieldsTyped
  <2>3. x.state = s /\ x.occ = ps[p].occ /\ x.answering = ps[p].answering
    BY <2>1, <2>2, FieldsTyped
  <2>4. new = [ps EXCEPT ![p] = x]
    BY <1>1, <2>1, <2>2, FieldsPut DEF Transitioned
  <2>5. /\ new \in Seq(PromptRec) /\ Len(new) = Len(ps) /\ new[p] = x
        /\ \A q \in 1..Len(ps) : q # p => new[q] = ps[q]
    BY <2>1, <2>4, Putting
  <2> QED
    BY <1>1, <2>1, <2>3, <2>5 DEF Aged, OnlyAt, Live
<1>2. CASE ~Live(ps, p)
  BY <1>2 DEF Transitioned, Aged, OnlyAt, Live
<1> QED
  BY <1>1, <1>2

\* promptRegistry.providerClosed leaves a record that is being answered open.
LEMMA ProviderClosedIs ==
  ASSUME NEW ps \in Seq(PromptRec), NEW p \in Nat, NEW new, new = ProviderClosed(ps, p)
  PROVE  /\ Aged(ps, new) /\ OnlyAt(ps, new, p)
         /\ p \in 1..Len(ps) => /\ new[p].answering = ps[p].answering
                                /\ Live(new, p) <=> Live(ps, p) /\ ps[p].answering
<1>1. CASE ~Live(ps, p)
  BY <1>1 DEF ProviderClosed, Aged, OnlyAt, Live
<1>2. CASE Live(ps, p) /\ ps[p].answering
  <2>1. p \in 1..Len(ps) /\ ps[p] \in PromptRec
    BY <1>2 DEF Live
  <2>2. PICK x \in PromptRec : x = [ps[p] EXCEPT !.deferred = TRUE]
    BY <2>1, FieldsTyped
  <2>3. x.state = ps[p].state /\ x.occ = ps[p].occ /\ x.answering = ps[p].answering
    BY <2>1, <2>2, FieldsTyped
  <2>4. new = [ps EXCEPT ![p] = x]
    BY <1>2, <2>1, <2>2, FieldsPut DEF ProviderClosed
  <2>5. /\ new \in Seq(PromptRec) /\ Len(new) = Len(ps) /\ new[p] = x
        /\ \A q \in 1..Len(ps) : q # p => new[q] = ps[q]
    BY <2>1, <2>4, Putting
  <2> QED
    BY <1>2, <2>1, <2>3, <2>5 DEF Aged, OnlyAt, Live
<1>3. CASE Live(ps, p) /\ ~ps[p].answering
  <2>1. new = Transitioned(ps, p, "cancelled") /\ "cancelled" \in States \ {"open"}
    BY <1>3 DEF ProviderClosed, States
  <2>2. /\ Aged(ps, new) /\ OnlyAt(ps, new, p)
        /\ p \in 1..Len(ps) => ~Live(new, p) /\ new[p].answering = ps[p].answering
    BY <2>1, TransitionedIs
  <2> QED
    BY <1>3, <2>2
<1> QED
  BY <1>1, <1>2, <1>3

\* The marks of an answer that is being written.
Unmarked(ps, p) == [ps EXCEPT ![p].answering = FALSE, ![p].deferred = FALSE]

LEMMA UnmarkedIs ==
  ASSUME NEW ps \in Seq(PromptRec), NEW p \in 1..Len(ps), NEW new, new = Unmarked(ps, p)
  PROVE  Aged(ps, new) /\ OnlyAt(ps, new, p) /\ new[p].state = ps[p].state
<1>1. ps[p] \in PromptRec
  OBVIOUS
<1>2. PICK x \in PromptRec : x = [ps[p] EXCEPT !.answering = FALSE]
  BY <1>1, FieldsTyped
<1>3. PICK y \in PromptRec : y = [x EXCEPT !.deferred = FALSE]
  BY <1>2, FieldsTyped
<1>4. y.state = ps[p].state /\ y.occ = ps[p].occ
  BY <1>1, <1>2, <1>3, FieldsTyped
<1>5. new = [ps EXCEPT ![p] = y]
  BY <1>2, <1>3 DEF Unmarked
<1>6. /\ new \in Seq(PromptRec) /\ Len(new) = Len(ps) /\ new[p] = y
      /\ \A q \in 1..Len(ps) : q # p => new[q] = ps[q]
  BY <1>5, Putting
<1> QED
  BY <1>4, <1>6 DEF Aged, OnlyAt

LEMMA AgedTwice ==
  ASSUME NEW a \in Seq(PromptRec), NEW b, NEW c, NEW p, Aged(a, b), Aged(b, c), OnlyAt(a, b, p), OnlyAt(b, c, p)
  PROVE  Aged(a, c) /\ OnlyAt(a, c, p)
  BY DEF Aged, OnlyAt

-----------------------------------------------------------------------------
(* The pending gate and the records.                                       *)

RawKeys == Used({"enter", "escape"})
Legacy == Used({"legacy"})

ServerTypes ==
  /\ server \in ServerRec
  /\ server.gate.prompt <= Len(server.prompts) /\ server.gate.serial <= server.serial

\* Without a pty-host there are no occurrence ids.
Unhosted ==
  ~hosted => /\ server.gate.occ = 0
             /\ \A p \in 1..Len(server.prompts) : server.prompts[p].occ = 0

\* The record of the pending gate has its id, or a fresh one.
RecordOfGate ==
  server.gate.prompt # 0 => server.prompts[server.gate.prompt].occ \in {0, server.gate.occ}

GateFollows == server.gate.occ # 0 => Follows(server.gate.occ, 0)

\* What is known of the id of an open record that is not the pending gate's: the gates
\* announced since have later ones, and unless raw keys took its gate, so do all to come.
Orphan(p) ==
  Live(server.prompts, p) /\ p # server.gate.prompt /\ server.prompts[p].occ # 0 =>
    /\ Follows(server.prompts[p].occ, 0)
    /\ server.gate.prompt # 0 => server.gate.occ > server.prompts[p].occ
    /\ ~RawKeys => Ahead(server.prompts[p].occ)
Orphans == \A p \in 1..Len(server.prompts) : Orphan(p)

NeverThrew == ~RawKeys => ~server.threw

ServerInv ==
  ServerTypes /\ Unhosted /\ RecordOfGate /\ GateFollows /\ Orphans /\ NeverThrew

\* No record is added.
ServerAges ==
  /\ server' \in ServerRec /\ Aged(server.prompts, server'.prompts)
  /\ server'.serial = server.serial /\ server'.threw = server.threw
  /\ server.ended => server'.ended

LEMMA AgedLive ==
  ASSUME NEW old \in Seq(PromptRec), NEW new, Aged(old, new), NEW p, Live(new, p)
  PROVE  Live(old, p)
  BY DEF Aged, Live

LEMMA GateStays ==
  ASSUME ServerInv, Foreseen, UNCHANGED <<hosted, route>>, ServerAges, server'.gate = server.gate
  PROVE  ServerInv'
<1> USE DEF ServerInv
<1>1. /\ server.prompts \in Seq(PromptRec) /\ server'.prompts \in Seq(PromptRec)
      /\ server.gate \in GateRec /\ Len(server'.prompts) = Len(server.prompts)
      /\ Len(server.prompts) \in Nat
  BY DEF ServerTypes, ServerAges, ServerRec, Aged
<1>2. \A p \in 1..Len(server.prompts) :
        /\ server'.prompts[p].occ = server.prompts[p].occ /\ server.prompts[p].occ \in Nat
        /\ Live(server.prompts, p)' => Live(server.prompts, p)
  <2>1. \A p \in 1..Len(server.prompts) : server.prompts[p] \in PromptRec
    BY <1>1
  <2>2. \A p \in 1..Len(server.prompts) : Live(server.prompts, p)' => Live(server.prompts, p)
    BY <1>1, AgedLive DEF ServerAges
  <2> QED
    BY <1>1, <2>1, <2>2 DEF ServerAges, Aged, PromptRec
<1>3. ServerTypes' /\ Unhosted' /\ RecordOfGate' /\ NeverThrew'
  <2>1. ServerTypes'
    BY <1>1 DEF ServerTypes, ServerAges
  <2>2. Unhosted'
    BY <1>1, <1>2 DEF Unhosted
  <2>3. RecordOfGate'
    BY <1>1, <1>2 DEF RecordOfGate, ServerTypes, GateRec
  <2>4. NeverThrew'
    BY DEF NeverThrew, ServerAges, RawKeys, Used
  <2> QED
    BY <2>1, <2>2, <2>3, <2>4
<1>4. GateFollows'
  BY <1>1 DEF GateFollows, Foreseen, GateRec
<1>5. ASSUME NEW p \in 1..Len(server.prompts)
      PROVE  Orphan(p)'
  <2>1. PICK k \in Nat : k = server.prompts[p].occ /\ k = server'.prompts[p].occ
    BY <1>2
  <2>2. SUFFICES ASSUME Live(server.prompts, p)', p # server.gate.prompt, k # 0
                 PROVE  /\ Follows(k, 0)'
                        /\ server.gate.prompt # 0 => server.gate.occ > k
                        /\ ~RawKeys => Ahead(k)'
    BY <2>1 DEF Orphan, RawKeys, Used
  <2>3. Live(server.prompts, p)
    BY <1>2, <2>2
  <2>4. /\ Follows(k, 0)
        /\ server.gate.prompt # 0 => server.gate.occ > k
        /\ ~RawKeys => Ahead(k)
    BY <2>1, <2>2, <2>3 DEF Orphans, Orphan
  <2> QED
    BY <2>4 DEF Foreseen
<1>6. Orphans'
  BY <1>1, <1>5 DEF Orphans
<1> QED
  BY <1>3, <1>4, <1>6

\* The pending gate is dropped; its record, if it stays open, is not announced again,
\* unless there are raw keys.
LEMMA GateGoes ==
  ASSUME ServerInv, Foreseen, UNCHANGED <<hosted, route>>, ServerAges, server'.gate = NoGate,
         \A k \in Nat : /\ server.gate.prompt # 0 /\ server.prompts[server.gate.prompt].occ = k
                        /\ k # 0 /\ Live(server'.prompts, server.gate.prompt) /\ ~RawKeys
                       => Ahead(k)'
  PROVE  ServerInv'
<1> USE DEF ServerInv
<1>1. /\ server.prompts \in Seq(PromptRec) /\ server'.prompts \in Seq(PromptRec)
      /\ server.gate \in GateRec /\ Len(server'.prompts) = Len(server.prompts)
      /\ Len(server.prompts) \in Nat /\ server.serial \in Nat
  BY DEF ServerTypes, ServerAges, ServerRec, Aged
<1>2. \A p \in 1..Len(server.prompts) :
        /\ server'.prompts[p].occ = server.prompts[p].occ /\ server.prompts[p].occ \in Nat
        /\ Live(server.prompts, p)' => Live(server.prompts, p)
  <2>1. \A p \in 1..Len(server.prompts) : server.prompts[p] \in PromptRec
    BY <1>1
  <2>2. \A p \in 1..Len(server.prompts) : Live(server.prompts, p)' => Live(server.prompts, p)
    BY <1>1, AgedLive DEF ServerAges
  <2> QED
    BY <1>1, <2>1, <2>2 DEF ServerAges, Aged, PromptRec
<1>3. server'.gate.prompt = 0 /\ server'.gate.occ = 0 /\ server'.gate.serial = 0
  BY DEF NoGate
<1>4. ServerTypes' /\ Unhosted' /\ RecordOfGate' /\ NeverThrew' /\ GateFollows'
  <2>1. ServerTypes'
    BY <1>1, <1>3 DEF ServerTypes, ServerAges
  <2>2. Unhosted'
    BY <1>1, <1>2, <1>3 DEF Unhosted
  <2>3. RecordOfGate' /\ GateFollows'
    BY <1>3 DEF RecordOfGate, GateFollows
  <2>4. NeverThrew'
    BY DEF NeverThrew, ServerAges, RawKeys, Used
  <2> QED
    BY <2>1, <2>2, <2>3, <2>4
<1>5. ASSUME NEW p \in 1..Len(server.prompts)
      PROVE  Orphan(p)'
  <2>1. PICK k \in Nat : k = server.prompts[p].occ /\ k = server'.prompts[p].occ
    BY <1>2
  <2>2. SUFFICES ASSUME Live(server.prompts, p)', k # 0
                 PROVE  Follows(k, 0)' /\ (~RawKeys => Ahead(k)')
    BY <1>3, <2>1 DEF Orphan, RawKeys, Used
  <2>3. Live(server.prompts, p)
    BY <1>2, <2>2
  <2>4. CASE p # server.gate.prompt
    BY <2>1, <2>2, <2>3, <2>4 DEF Orphans, Orphan, Foreseen
  <2>5. CASE p = server.gate.prompt
    <3>4. p # 0
      BY <1>1
    <3>0. server.gate.prompt # 0 /\ server.prompts[server.gate.prompt].occ = k /\ k # 0
      BY <2>1, <2>2, <2>5, <3>4
    <3>1. k = server.gate.occ
      BY <3>0 DEF RecordOfGate
    <3>2. Follows(k, 0)'
      BY <2>2, <3>1 DEF GateFollows, Foreseen
    <3>3. ~RawKeys => Ahead(k)'
      BY <2>2, <2>5, <3>0
    <3> QED
      BY <3>2, <3>3
  <2> QED
    BY <2>4, <2>5
<1>6. Orphans'
  BY <1>1, <1>5 DEF Orphans
<1> QED
  BY <1>4, <1>6

-----------------------------------------------------------------------------
(* A gate is announced.                                                    *)

\* The records of `old` are settled as they were, and marked as they were, in `new`, which
\* may have more.
Grown(old, new) ==
  /\ new \in Seq(PromptRec) /\ Len(new) >= Len(old)
  /\ \A p \in 1..Len(old) :
       /\ new[p].answering = old[p].answering
       /\ old[p].state # "open" => new[p].state = old[p].state

\* The pending gate stays, goes, or gives way to a new one.
GateMoves ==
  \/ server'.gate = server.gate \/ server'.gate = NoGate
  \/ /\ server'.gate.serial = server.serial + 1
     /\ server'.gate.prompt = 0 \/ server'.gate.prompt > Len(server.prompts)

\* What an announcement does to a gate that is not the pending one: the record of the
\* pending one is cancelled, and unless its own id is live the new one is pending.
GateRetired == Transitioned(server.prompts, server.gate.prompt, "cancelled")

Opening(view, occ) ==
  /\ server'.threw = server.threw /\ server'.serial = server.serial + 1
  /\ server'.gate.view = view /\ server'.gate.occ = occ /\ server'.gate.serial = server.serial + 1
  /\ \/ server'.gate.prompt = 0 /\ server'.prompts = GateRetired
     \/ /\ server'.gate.prompt = Len(GateRetired) + 1 /\ ~Throws(GateRetired, occ)
        /\ server'.prompts = Append(GateRetired, NewPrompt(OpenedAs(GateRetired, occ)))

Throwing(occ) ==
  /\ Throws(GateRetired, occ)
  /\ server'.prompts = GateRetired /\ server'.threw = TRUE /\ server'.serial = server.serial
  /\ server'.gate = server.gate

Repeating ==
  server'.prompts = server.prompts /\ server'.gate = server.gate
  /\ server'.serial = server.serial /\ server'.threw = server.threw

LEMMA NewPromptTyped ==
  ASSUME NEW occ \in Nat
  PROVE  NewPrompt(occ) \in PromptRec /\ NewPrompt(occ).occ = occ
  BY DEF NewPrompt, PromptRec, States

LEMMA ShowGateIs ==
  ASSUME ServerTypes, NEW view \in Views \ {None}, NEW occ \in Nat, NEW dlg \in 0..Dialogs,
         server' = ShowGate(server, view, occ, dlg)
  PROVE  /\ server'.ended = server.ended /\ server'.told \in 0..Dialogs
         /\ server' = [gate |-> server'.gate, prompts |-> server'.prompts, serial |-> server'.serial,
                       told |-> server'.told, ended |-> server'.ended, threw |-> server'.threw]
         /\ Repeating \/ Throwing(occ) \/ Opening(view, occ)
<1>1. /\ server = [gate |-> server.gate, prompts |-> server.prompts, serial |-> server.serial,
                  told |-> server.told, ended |-> server.ended, threw |-> server.threw]
      /\ server.told \in 0..Dialogs
  BY DEF ServerTypes, ServerRec
<1> DEFINE same  == server.gate.view = view /\ (occ = 0 \/ server.gate.occ = occ)
           opens == view # Blank
           recs  == IF opens THEN Append(GateRetired, NewPrompt(OpenedAs(GateRetired, occ))) ELSE GateRetired
           gate  == [view |-> view, prompt |-> IF opens THEN Len(recs) ELSE 0,
                     occ |-> occ, serial |-> server.serial + 1]
           told  == IF opens THEN dlg ELSE server.told
<1>2. CASE same
  <2>1. server' = [server EXCEPT !.told = told]
    BY <1>2 DEF ShowGate
  <2>2. told \in 0..Dialogs
    BY <1>1
  <2> HIDE DEF told
  <2> QED
    BY <1>1, <2>1, <2>2 DEF Repeating
<1>3. CASE ~same /\ opens /\ Throws(GateRetired, occ)
  <2>1. server' = [server EXCEPT !.prompts = GateRetired, !.threw = TRUE]
    BY <1>3 DEF ShowGate, GateRetired
  <2> QED
    BY <1>1, <1>3, <2>1 DEF Throwing
<1>4. CASE ~same /\ ~(opens /\ Throws(GateRetired, occ))
  <2>1. server' = [server EXCEPT !.prompts = recs, !.gate = gate, !.serial = server.serial + 1,
                                 !.told = told]
    BY <1>4 DEF ShowGate, GateRetired
  <2>2. told \in 0..Dialogs
    BY <1>1
  <2>3. /\ gate.view = view /\ gate.occ = occ /\ gate.serial = server.serial + 1
        /\ gate.prompt = IF opens THEN Len(recs) ELSE 0
    OBVIOUS
  <2>4. Len(Append(GateRetired, NewPrompt(OpenedAs(GateRetired, occ)))) = Len(GateRetired) + 1
    <3>1. GateRetired \in Seq(PromptRec)
      <4>1. server.prompts \in Seq(PromptRec) /\ server.gate.prompt \in Nat
        BY DEF ServerTypes, ServerRec, GateRec
      <4>2. "cancelled" \in States \ {"open"}
        BY DEF States
      <4>3. Aged(server.prompts, GateRetired)
        BY <4>1, <4>2, TransitionedIs DEF GateRetired
      <4> QED
        BY <4>3 DEF Aged
    <3>2. OpenedAs(GateRetired, occ) \in Nat
      BY DEF OpenedAs
    <3> QED
      BY <3>1, <3>2, NewPromptTyped
  <2>5. \/ gate.prompt = 0 /\ recs = GateRetired
        \/ /\ gate.prompt = Len(GateRetired) + 1 /\ ~Throws(GateRetired, occ)
           /\ recs = Append(GateRetired, NewPrompt(OpenedAs(GateRetired, occ)))
    BY <1>4, <2>3, <2>4
  <2> HIDE DEF told, gate, recs
  <2> QED
    BY <1>1, <2>1, <2>2, <2>3, <2>5 DEF Opening
<1> QED
  BY <1>2, <1>3, <1>4

LEMMA RetiredIs ==
  ASSUME ServerTypes
  PROVE  /\ Aged(server.prompts, GateRetired) /\ OnlyAt(server.prompts, GateRetired, server.gate.prompt)
         /\ GateRetired \in Seq(PromptRec) /\ Len(GateRetired) = Len(server.prompts)
         /\ Len(server.prompts) \in Nat /\ server.prompts \in Seq(PromptRec)
         /\ \A p \in 1..Len(server.prompts) :
              /\ GateRetired[p].occ = server.prompts[p].occ /\ server.prompts[p].occ \in Nat
              /\ GateRetired[p].answering = server.prompts[p].answering
              /\ Live(GateRetired, p) <=> Live(server.prompts, p) /\ p # server.gate.prompt
<1>1. server.prompts \in Seq(PromptRec) /\ server.gate.prompt \in Nat
  BY DEF ServerTypes, ServerRec, GateRec
<1>2. "cancelled" \in States \ {"open"}
  BY DEF States
<1>3. /\ Aged(server.prompts, GateRetired) /\ OnlyAt(server.prompts, GateRetired, server.gate.prompt)
      /\ server.gate.prompt \in 1..Len(server.prompts) =>
           /\ ~Live(GateRetired, server.gate.prompt)
           /\ GateRetired[server.gate.prompt].answering = server.prompts[server.gate.prompt].answering
  BY <1>1, <1>2, TransitionedIs DEF GateRetired
<1>4. \A p \in 1..Len(server.prompts) : server.prompts[p] \in PromptRec
  BY <1>1
<1>5. \A p \in 1..Len(server.prompts) : server.prompts[p].occ \in Nat
  BY <1>4 DEF PromptRec
<1> QED
  BY <1>1, <1>3, <1>5 DEF Aged, OnlyAt, Live

\* The announcement is of this occurrence, and what is known of the ones to come holds of it.
Announced(occ) ==
  IF hosted THEN /\ occ # 0 /\ Follows(occ, 0)'
                 /\ \A k \in Nat : (Follows(k, 0) => occ >= k) /\ (Ahead(k) => occ > k)
            ELSE occ = 0

LEMMA GateComes ==
  ASSUME ServerInv, Foreseen, UNCHANGED <<hosted, route>>, NEW view \in Views \ {None},
         NEW occ \in Nat, NEW dlg \in 0..Dialogs, Announced(occ),
         server' = ShowGate(server, view, occ, dlg)
  PROVE  /\ ServerInv' /\ Grown(server.prompts, server'.prompts) /\ GateMoves
         /\ server'.ended = server.ended /\ server'.serial \in {server.serial, server.serial + 1}
         /\ server'.gate = server.gate => server'.serial = server.serial
         /\ \A p \in 1..Len(server.prompts) :
              server'.gate.prompt = p /\ Live(server.prompts, p) => Live(server'.prompts, p)
<1> USE DEF ServerInv
<1>1. /\ server'.ended = server.ended /\ server'.told \in 0..Dialogs
      /\ server' = [gate |-> server'.gate, prompts |-> server'.prompts, serial |-> server'.serial,
                    told |-> server'.told, ended |-> server'.ended, threw |-> server'.threw]
      /\ Repeating \/ Throwing(occ) \/ Opening(view, occ)
  BY ShowGateIs
<1>2. /\ Aged(server.prompts, GateRetired) /\ OnlyAt(server.prompts, GateRetired, server.gate.prompt)
      /\ GateRetired \in Seq(PromptRec) /\ Len(GateRetired) = Len(server.prompts)
      /\ Len(server.prompts) \in Nat /\ server.prompts \in Seq(PromptRec)
      /\ \A p \in 1..Len(server.prompts) :
           /\ GateRetired[p].occ = server.prompts[p].occ /\ server.prompts[p].occ \in Nat
           /\ GateRetired[p].answering = server.prompts[p].answering
           /\ Live(GateRetired, p) <=> Live(server.prompts, p) /\ p # server.gate.prompt
  BY RetiredIs
<1>3. /\ server.gate \in GateRec /\ server.serial \in Nat /\ server.ended \in BOOLEAN
      /\ server.threw \in BOOLEAN /\ server.gate.prompt <= Len(server.prompts)
      /\ server.gate.prompt \in Nat /\ server.gate.occ \in Nat /\ server.gate.serial \in Nat
  BY DEF ServerTypes, ServerRec, GateRec
<1>4. CASE Repeating
  <2>1. server' \in ServerRec
    BY <1>1, <1>2, <1>3, <1>4 DEF Repeating, ServerRec
  <2>2. ServerAges
    BY <1>1, <1>2, <1>4, <2>1 DEF Repeating, ServerAges, Aged
  <2>3. ServerInv'
    BY <1>4, <2>2, GateStays DEF Repeating
  <2> QED
    BY <1>1, <1>2, <1>3, <1>4, <2>3 DEF Repeating, Grown, GateMoves
<1>5. CASE Throwing(occ)
  <2>1. PICK q \in 1..Len(server.prompts) : server.prompts[q].occ = occ /\ Live(GateRetired, q) /\ occ # 0
    BY <1>2, <1>5 DEF Throwing, Throws
  <2>2. hosted /\ Live(server.prompts, q) /\ q # server.gate.prompt
    BY <1>2, <2>1 DEF Announced
  <2>3. /\ server.gate.prompt # 0 => server.gate.occ > occ
        /\ ~RawKeys => Ahead(occ)
    BY <2>1, <2>2 DEF Orphans, Orphan
  <2>4. server.gate.prompt = 0
    <3>1. ASSUME server.gate.occ > occ
          PROVE  FALSE
      <4>1. server.gate.occ # 0
        BY <1>3, <3>1
      <4>2. Follows(server.gate.occ, 0)
        BY <4>1 DEF GateFollows
      <4>3. occ >= server.gate.occ
        BY <1>3, <2>2, <4>2 DEF Announced
      <4> QED
        BY <1>3, <3>1, <4>3
    <3> QED
      BY <2>3, <3>1
  <2>5. RawKeys
    BY <2>2, <2>3 DEF Announced
  <2>6. server' \in ServerRec
    BY <1>1, <1>2, <1>3, <1>5 DEF Throwing, ServerRec
  <2>7. \A p \in 1..Len(server.prompts) : server'.prompts[p] = server.prompts[p]
    BY <1>2, <1>5, <2>4 DEF Throwing, OnlyAt
  <2>8. ServerTypes' /\ Unhosted' /\ RecordOfGate' /\ NeverThrew'
    <3>1. ServerTypes'
      BY <1>2, <1>3, <1>5, <2>4, <2>6 DEF ServerTypes, Throwing
    <3>2. Unhosted' /\ RecordOfGate'
      BY <1>5, <2>2, <2>4 DEF Unhosted, RecordOfGate, Throwing
    <3>3. NeverThrew'
      BY <2>5 DEF NeverThrew, RawKeys, Used
    <3> QED
      BY <3>1, <3>2, <3>3
  <2>9. GateFollows'
    BY <1>3, <1>5 DEF GateFollows, Foreseen, Throwing
  <2>10. ASSUME NEW p \in 1..Len(server.prompts)
         PROVE  Orphan(p)'
    <3>1. PICK k \in Nat : k = server.prompts[p].occ /\ k = server'.prompts[p].occ
      BY <1>2, <2>7
    <3>2. SUFFICES ASSUME Live(server.prompts, p)', k # 0
                   PROVE  Follows(k, 0)'
      BY <1>5, <2>4, <2>5, <3>1 DEF Orphan, RawKeys, Used, Throwing
    <3>3. Live(server.prompts, p)
      BY <1>2, <1>5, <3>2 DEF Throwing
    <3>4. p # server.gate.prompt /\ Orphan(p)
      BY <1>2, <2>4 DEF Orphans
    <3>5. Follows(k, 0)
      BY <3>1, <3>2, <3>3, <3>4 DEF Orphan
    <3> QED
      BY <3>5 DEF Foreseen
  <2>11. Orphans'
    BY <1>2, <1>5, <2>10 DEF Orphans, Throwing
  <2>12. ServerInv'
    BY <2>8, <2>9, <2>11
  <2> QED
    BY <1>1, <1>2, <1>3, <1>5, <2>4, <2>12 DEF Throwing, Grown, GateMoves, Aged
<1>6. CASE Opening(view, occ)
  <2> DEFINE new == NewPrompt(OpenedAs(GateRetired, occ))
  <2>1. new \in PromptRec /\ new.occ \in {0, occ}
    BY NewPromptTyped DEF OpenedAs
  <2> HIDE DEF new
  <2>2. PICK n \in Nat : n = Len(server.prompts)
    BY <1>2
  <2>3. \/ server'.gate.prompt = 0 /\ server'.prompts = GateRetired
        \/ /\ server'.gate.prompt = n + 1 /\ ~Throws(GateRetired, occ)
           /\ server'.prompts = Append(GateRetired, new)
    BY <1>2, <1>6, <2>2 DEF Opening, new
  <2>4. /\ server'.prompts \in Seq(PromptRec) /\ Len(server'.prompts) \in {n, n + 1}
        /\ \A p \in 1..n : server'.prompts[p] = GateRetired[p]
        /\ server'.gate.prompt # 0 => /\ server'.gate.prompt = n + 1 /\ Len(server'.prompts) = n + 1
                                      /\ server'.prompts[n + 1] = new /\ ~Throws(GateRetired, occ)
        /\ server'.gate.prompt = 0 => Len(server'.prompts) = n
    <3>1. CASE server'.gate.prompt = 0
      BY <1>2, <2>2, <2>3, <3>1
    <3>2. CASE server'.gate.prompt # 0
      <4>1. server'.gate.prompt = n + 1 /\ ~Throws(GateRetired, occ) /\ server'.prompts = Append(GateRetired, new)
        BY <2>3, <3>2
      <4>2. /\ server'.prompts \in Seq(PromptRec) /\ Len(server'.prompts) = n + 1
            /\ server'.prompts[n + 1] = new /\ \A p \in 1..n : server'.prompts[p] = GateRetired[p]
        <5>1. PICK q : q = GateRetired
          OBVIOUS
        <5>2. q \in Seq(PromptRec) /\ Len(q) = n /\ new \in PromptRec
          BY <1>2, <2>1, <2>2, <5>1
        <5>3. /\ Append(q, new) \in Seq(PromptRec) /\ Len(Append(q, new)) = n + 1
              /\ Append(q, new)[n + 1] = new /\ \A p \in 1..n : Append(q, new)[p] = q[p]
          BY <5>2
        <5> QED
          BY <4>1, <5>1, <5>3
      <4> QED
        BY <3>2, <4>1, <4>2
    <3> QED
      BY <3>1, <3>2
  <2>5. /\ server'.gate.view = view /\ server'.gate.occ = occ
        /\ server'.gate.serial = server.serial + 1 /\ server'.serial = server.serial + 1
        /\ server'.threw = server.threw
    BY <1>6 DEF Opening
  <2>6. server'.gate = [view |-> view, prompt |-> server'.gate.prompt, occ |-> occ,
                       serial |-> server.serial + 1]
    <3>1. \/ server'.gate = server.gate
          \/ server'.gate = [view |-> view, prompt |-> server'.gate.prompt, occ |-> occ,
                             serial |-> server.serial + 1]
      BY <1>1, <1>3 DEF ShowGate, ServerTypes, ServerRec
    <3>2. server'.gate # server.gate
      BY <1>3, <2>5 DEF ServerTypes
    <3> QED
      BY <3>1, <3>2
  <2>7. server'.gate \in GateRec /\ server' \in ServerRec
    <3>1. server'.gate \in GateRec
      BY <1>3, <2>2, <2>4, <2>6, SMTT(40) DEF GateRec
    <3> QED
      BY <1>1, <1>3, <2>4, <2>5, <3>1 DEF ServerRec
  <2>8. ServerTypes'
    BY <1>3, <2>2, <2>4, <2>5, <2>7 DEF ServerTypes
  <2>9. \A p \in 1..n : server'.prompts[p].occ = server.prompts[p].occ
    BY <1>2, <2>2, <2>4
  <2>10. Unhosted'
    BY <2>1, <2>2, <2>4, <2>5, <2>9 DEF Unhosted, Announced
  <2>11. RecordOfGate'
    BY <2>1, <2>4, <2>5 DEF RecordOfGate
  <2>12. GateFollows'
    BY <2>5 DEF GateFollows, Announced
  <2>13. NeverThrew'
    BY <2>5 DEF NeverThrew, RawKeys, Used
  <2>14. ASSUME NEW p \in 1..Len(server'.prompts)
         PROVE  Orphan(p)'
    <3> SUFFICES ASSUME Live(server'.prompts, p), p # server'.gate.prompt, server'.prompts[p].occ # 0
                 PROVE  /\ Follows(server.prompts[p].occ, 0)'
                        /\ server'.gate.prompt # 0 => server'.gate.occ > server'.prompts[p].occ
                        /\ ~RawKeys => Ahead(server.prompts[p].occ)'
      BY DEF Orphan, RawKeys, Used
    <3>1. p \in 1..n
      BY <2>4
    <3>2. PICK k \in Nat : k = server.prompts[p].occ /\ k = server'.prompts[p].occ /\ k # 0
      BY <1>2, <2>2, <2>9, <3>1
    <3>3. Live(GateRetired, p)
      BY <1>2, <2>2, <2>4, <3>1 DEF Live
    <3>4. Live(server.prompts, p) /\ p # server.gate.prompt
      BY <1>2, <2>2, <3>1, <3>3
    <3>5. Follows(k, 0) /\ (~RawKeys => Ahead(k))
      BY <2>2, <3>1, <3>2, <3>4 DEF Orphans, Orphan
    <3>6. hosted /\ occ >= k
      BY <2>2, <3>1, <3>2, <3>5 DEF Unhosted, Announced
    <3>7. server'.gate.prompt # 0 => occ # k
      BY <1>2, <2>2, <2>4, <3>1, <3>2, <3>3 DEF Throws
    <3>8. server'.gate.prompt # 0 => occ > k
      BY <3>6, <3>7
    <3>9. Follows(k, 0)' /\ (~RawKeys => Ahead(k)')
      BY <3>5 DEF Foreseen
    <3> QED
      BY <2>5, <3>2, <3>8, <3>9
  <2>15. Orphans'
    BY <2>14 DEF Orphans
  <2>16. ServerInv'
    BY <2>8, <2>10, <2>11, <2>12, <2>13, <2>15
  <2>17. Grown(server.prompts, server'.prompts)
    BY <1>2, <2>2, <2>4, SMTT(40) DEF Grown, Aged
  <2>18. GateMoves
    BY <2>2, <2>4, <2>5 DEF GateMoves
  <2>19. \A p \in 1..Len(server.prompts) : server'.gate.prompt # p
    BY <2>2, <2>4
  <2> QED
    BY <1>1, <1>3, <2>5, <2>16, <2>17, <2>18, <2>19 DEF ServerTypes
<1> QED
  BY <1>1, <1>4, <1>5, <1>6

-----------------------------------------------------------------------------
(* The requests.                                                           *)

ByPrompt(r) == route[r] = "prompt"
Written(r) == req[r].result = "written"

\* The pending gate a text found is one without a record.
TextIsHeld(r) ==
  Reading(r) => /\ req[r].serial <= server.serial
                /\ route[r] = "text" /\ server.gate.serial = req[r].serial => server.gate.prompt = 0

\* A request names a record, and is over when it has written.
NamesRecord(r) ==
  /\ Reading(r) /\ route[r] # "text" => req[r].prompt \in 1..Len(server.prompts)
  /\ ByPrompt(r) /\ Written(r) => req[r].prompt \in 1..Len(server.prompts)
  /\ Written(r) => ~Reading(r)

\* A record is marked while its answer awaits the screen, and stays open as long as its
\* gate is pending.
IsMarked(r) ==
  ByPrompt(r) /\ Reading(r) /\ ~server.ended =>
    /\ Live(server.prompts, req[r].prompt) => server.prompts[req[r].prompt].answering
    /\ ~Legacy /\ server.gate.prompt = req[r].prompt => Live(server.prompts, req[r].prompt)

\* An answer that was written settled its record.
HasSettled(r) ==
  ByPrompt(r) /\ Written(r) =>
    /\ ~Live(server.prompts, req[r].prompt)
    /\ ~Legacy => server.prompts[req[r].prompt].state = "resolved"

Fine(r) == TextIsHeld(r) /\ NamesRecord(r) /\ IsMarked(r) /\ HasSettled(r)

\* Of two answers to one record, one awaits the screen or has been written, until the end.
Apart(q, r) ==
  /\ q # r /\ ByPrompt(q) /\ ByPrompt(r) /\ req[q].prompt = req[r].prompt
  /\ Reading(r) /\ (Reading(q) \/ Written(q))
  => server.ended

RequestInv ==
  /\ req \in [Requests -> RequestRec]
  /\ \A r \in Requests : Fine(r)
  /\ \A q, r \in Requests : Apart(q, r)
  /\ AnsweredOnce

\* What every step does to the server, but for the mark of record `at` (0: none).
ServerMoves(at) ==
  /\ Len(server'.prompts) >= Len(server.prompts)
  /\ \A p \in 1..Len(server.prompts) :
       /\ server.prompts[p].state # "open" => server'.prompts[p].state = server.prompts[p].state
       /\ p # at => server'.prompts[p].answering = server.prompts[p].answering
  /\ GateMoves /\ server'.serial >= server.serial
  /\ server.ended => server'.ended

\* A step spares request r: its record keeps its mark, and stays open while its gate is pending.
Spares(r, at) ==
  ByPrompt(r) /\ Reading(r) /\ ~server'.ended /\ Live(server.prompts, req[r].prompt) =>
    /\ req[r].prompt = at => server'.prompts[at].answering \/ ~Live(server'.prompts, at)
    /\ ~Legacy /\ server'.gate.prompt = req[r].prompt => Live(server'.prompts, req[r].prompt)

LEMMA StandsBy ==
  ASSUME ServerTypes, ServerTypes', UNCHANGED route, req \in [Requests -> RequestRec],
         NEW r \in Requests, Fine(r), req'[r] = req[r], NEW at \in Nat, ServerMoves(at), Spares(r, at)
  PROVE  Fine(r)'
<1>1. /\ server.serial \in Nat /\ server'.serial \in Nat /\ server.gate.prompt \in Nat
      /\ Len(server.prompts) \in Nat /\ Len(server'.prompts) \in Nat
      /\ server.gate.prompt <= Len(server.prompts) /\ req[r].serial \in Nat
      /\ server.gate.serial <= server.serial /\ server'.gate.prompt \in Nat
      /\ server.gate.serial \in Nat
  BY DEF ServerTypes, ServerRec, GateRec, RequestRec
<1>2. (Legacy)' <=> Legacy
  BY DEF Legacy, Used
<1>3. /\ (Reading(r))' <=> Reading(r)
      /\ (Written(r))' <=> Written(r)
      /\ (ByPrompt(r))' <=> ByPrompt(r)
  BY DEF Reading, Written, ByPrompt
<1>4. \/ server'.gate = server.gate
      \/ server'.gate.prompt = 0
      \/ server'.gate.prompt > Len(server.prompts) /\ server'.gate.serial = server.serial + 1
  BY DEF ServerMoves, GateMoves, NoGate
<1>5. TextIsHeld(r)'
  BY <1>1, <1>3, <1>4 DEF Fine, TextIsHeld, ServerMoves
<1>6. NamesRecord(r)'
  BY <1>1, <1>3 DEF Fine, NamesRecord, ServerMoves
<1>7. \A p \in 1..Len(server.prompts) : Live(server'.prompts, p) => Live(server.prompts, p)
  BY <1>1 DEF ServerMoves, Live
<1>8. IsMarked(r)'
  <2> SUFFICES ASSUME ByPrompt(r), Reading(r), ~server'.ended
               PROVE  /\ Live(server'.prompts, req[r].prompt) => server'.prompts[req[r].prompt].answering
                      /\ ~Legacy /\ server'.gate.prompt = req[r].prompt => Live(server'.prompts, req[r].prompt)
    BY <1>2, <1>3 DEF IsMarked
  <2>1. /\ req[r].prompt \in 1..Len(server.prompts) /\ ~server.ended
        /\ Live(server.prompts, req[r].prompt) => server.prompts[req[r].prompt].answering
        /\ ~Legacy /\ server.gate.prompt = req[r].prompt => Live(server.prompts, req[r].prompt)
    BY DEF Fine, NamesRecord, IsMarked, ByPrompt, ServerMoves
  <2>2. server'.gate.prompt = req[r].prompt => server.gate.prompt = req[r].prompt
    BY <1>1, <1>4, <2>1
  <2> QED
    BY <1>7, <2>1, <2>2 DEF ServerMoves, Spares
<1>9. HasSettled(r)'
  <2> SUFFICES ASSUME ByPrompt(r), Written(r)
               PROVE  /\ ~Live(server'.prompts, req[r].prompt)
                      /\ ~Legacy => server'.prompts[req[r].prompt].state = "resolved"
    BY <1>2, <1>3 DEF HasSettled
  <2>1. /\ req[r].prompt \in 1..Len(server.prompts)
        /\ ~Live(server.prompts, req[r].prompt)
        /\ ~Legacy => server.prompts[req[r].prompt].state = "resolved"
    BY DEF Fine, NamesRecord, HasSettled
  <2> QED
    BY <1>7, <2>1 DEF ServerMoves
<1> QED
  BY <1>5, <1>6, <1>8, <1>9 DEF Fine

\* No request moves.
LEMMA NobodyMoves ==
  ASSUME ServerTypes, ServerTypes', RequestInv, UNCHANGED <<route, req>>, NEW at \in Nat, ServerMoves(at),
         \A r \in Requests : Spares(r, at)
  PROVE  RequestInv'
<1>1. \A r \in Requests : Fine(r)'
  BY StandsBy DEF RequestInv
<1>2. \A q, r \in Requests : Apart(q, r)'
  BY DEF RequestInv, Apart, ByPrompt, Reading, Written, ServerMoves
<1>3. AnsweredOnce'
  BY DEF RequestInv, AnsweredOnce
<1> QED
  BY <1>1, <1>2, <1>3 DEF RequestInv

\* Request r moves, and no other is at its record until the end.
LEMMA OneMoves ==
  ASSUME ServerTypes, ServerTypes', RequestInv, UNCHANGED route, NEW r \in Requests, NEW x \in RequestRec,
         req' = [req EXCEPT ![r] = x], NEW at \in Nat, ServerMoves(at),
         \A q \in Requests \ {r} : Spares(q, at),
         Fine(r)',
         ByPrompt(r) /\ (Reading(r)' \/ Written(r)') =>
           \A q \in Requests \ {r} :
             ByPrompt(q) /\ req[q].prompt = x.prompt /\ (Reading(q) \/ Written(q)) => server.ended,
         ByPrompt(r) /\ Written(r)' => ~server.ended
  PROVE  RequestInv'
<1>1. /\ req' \in [Requests -> RequestRec] /\ req'[r] = x
      /\ \A q \in Requests \ {r} : req'[q] = req[q]
  BY DEF RequestInv
<1>2. \A q \in Requests \ {r} : Fine(q)'
  BY <1>1, StandsBy DEF RequestInv
<1>3. \A q \in Requests \ {r} : (Reading(q)' <=> Reading(q)) /\ (Written(q)' <=> Written(q))
  BY <1>1 DEF Reading, Written
<1>4. \A q \in Requests : ByPrompt(q)' <=> ByPrompt(q)
  BY DEF ByPrompt
<1>5. Written(r)' => ~Reading(r)'
  BY DEF Fine, NamesRecord
<1>6. ASSUME NEW q \in Requests, NEW s \in Requests
      PROVE  Apart(q, s)'
  <2>1. Apart(q, s)
    BY DEF RequestInv
  <2> QED
    BY <1>1, <1>3, <1>4, <2>1 DEF Apart, ServerMoves
<1>7. ASSUME NEW q \in Requests, NEW s \in Requests, q # s, ByPrompt(q)', ByPrompt(s)',
             Written(q)', Written(s)', req'[q].prompt = req'[s].prompt
      PROVE  FALSE
  <2>1. CASE q # r /\ s # r
    BY <1>1, <1>3, <1>4, <1>7, <2>1 DEF RequestInv, AnsweredOnce, ByPrompt, Written
  <2>2. CASE q = r
    BY <1>1, <1>3, <1>4, <1>7, <2>2
  <2>3. CASE s = r
    BY <1>1, <1>3, <1>4, <1>7, <2>3
  <2> QED
    BY <2>1, <2>2, <2>3
<1>8. AnsweredOnce'
  BY <1>7 DEF AnsweredOnce, ByPrompt, Written
<1> QED
  BY <1>1, <1>2, <1>6, <1>8 DEF RequestInv

-----------------------------------------------------------------------------
(* The operations on the server's state.                                   *)

\* Only the pending gate and the records change.
Mends(sv, nx) ==
  /\ nx \in ServerRec /\ Aged(sv.prompts, nx.prompts)
  /\ nx.serial = sv.serial /\ nx.threw = sv.threw /\ nx.ended = sv.ended

LEMMA MendsTwice ==
  ASSUME NEW a \in ServerRec, NEW b, NEW c, Mends(a, b), Mends(b, c)
  PROVE  Mends(a, c)
  BY DEF Mends, Aged

LEMMA PromptsPut ==
  ASSUME NEW sv \in ServerRec, NEW ps \in Seq(PromptRec), NEW nx, nx = [sv EXCEPT !.prompts = ps],
         Aged(sv.prompts, ps)
  PROVE  Mends(sv, nx) /\ nx.prompts = ps /\ nx.gate = sv.gate
  BY DEF Mends, ServerRec

LEMMA NoGateTyped == NoGate \in GateRec
  BY DEF NoGate, GateRec, Views

LEMMA GateTaken ==
  ASSUME NEW sv \in ServerRec, NEW ps \in Seq(PromptRec), Aged(sv.prompts, ps),
         NEW nx, nx = Dropped(sv, ps)
  PROVE  Mends(sv, nx) /\ nx.prompts = ps /\ nx.gate = NoGate
<1>1. NoGate \in GateRec
  BY NoGateTyped
<1>2. PICK g \in GateRec : g = NoGate
  BY <1>1
<1> QED
  BY <1>2 DEF Mends, ServerRec, Dropped

LEMMA AfterWriteIs ==
  ASSUME NEW sv \in ServerRec, NEW p \in 1..Len(sv.prompts), NEW nx, nx = AfterWrite(sv, p, "resolved")
  PROVE  /\ Mends(sv, nx) /\ nx.gate = sv.gate /\ OnlyAt(sv.prompts, nx.prompts, p)
         /\ ~Live(nx.prompts, p) /\ (Live(sv.prompts, p) => nx.prompts[p].state = "resolved")
<1>1. sv.prompts \in Seq(PromptRec) /\ p \in Nat /\ "resolved" \in States \ {"open"}
  BY DEF ServerRec, States
<1>2. PICK a : a = Unmarked(sv.prompts, p)
  OBVIOUS
<1>3. Aged(sv.prompts, a) /\ OnlyAt(sv.prompts, a, p) /\ a[p].state = sv.prompts[p].state
  BY <1>1, <1>2, UnmarkedIs
<1>4. PICK b : b = Transitioned(a, p, "resolved")
  OBVIOUS
<1>5. a \in Seq(PromptRec) /\ Len(a) = Len(sv.prompts)
  BY <1>3 DEF Aged
<1>6. /\ Aged(a, b) /\ OnlyAt(a, b, p) /\ ~Live(b, p) /\ (Live(a, p) => b[p].state = "resolved")
  BY <1>1, <1>4, <1>5, TransitionedIs
<1>7. Aged(sv.prompts, b) /\ OnlyAt(sv.prompts, b, p)
  BY <1>1, <1>3, <1>6, AgedTwice
<1>8. nx = [sv EXCEPT !.prompts = b] /\ b \in Seq(PromptRec)
  BY <1>2, <1>4, <1>6 DEF AfterWrite, Unmarked, Aged
<1>9. Mends(sv, nx) /\ nx.prompts = b /\ nx.gate = sv.gate
  BY <1>7, <1>8, PromptsPut
<1>10. Live(sv.prompts, p) => Live(a, p)
  BY <1>3, <1>5 DEF Live
<1> QED
  BY <1>6, <1>7, <1>9, <1>10

LEMMA AfterRefusalIs ==
  ASSUME NEW sv \in ServerRec, NEW p \in 1..Len(sv.prompts), NEW terminal \in BOOLEAN,
         NEW nx, nx = AfterRefusal(sv, p, terminal)
  PROVE  /\ Mends(sv, nx) /\ nx.gate = sv.gate /\ OnlyAt(sv.prompts, nx.prompts, p)
         /\ terminal => ~Live(nx.prompts, p)
<1>1. sv.prompts \in Seq(PromptRec) /\ p \in Nat /\ "cancelled" \in States \ {"open"}
  BY DEF ServerRec, States
<1>2. PICK a : a = Unmarked(sv.prompts, p)
  OBVIOUS
<1>3. Aged(sv.prompts, a) /\ OnlyAt(sv.prompts, a, p) /\ a[p].state = sv.prompts[p].state
  BY <1>1, <1>2, UnmarkedIs
<1>4. PICK b : b = Transitioned(a, p, "cancelled")
  OBVIOUS
<1>5. a \in Seq(PromptRec) /\ Len(a) = Len(sv.prompts)
  BY <1>3 DEF Aged
<1>6. Aged(a, b) /\ OnlyAt(a, b, p) /\ ~Live(b, p)
  BY <1>1, <1>4, <1>5, TransitionedIs
<1>7. Aged(sv.prompts, b) /\ OnlyAt(sv.prompts, b, p)
  BY <1>1, <1>3, <1>6, AgedTwice
<1>8. CASE terminal \/ sv.prompts[p].deferred
  <2>1. nx = [sv EXCEPT !.prompts = b] /\ b \in Seq(PromptRec)
    BY <1>2, <1>4, <1>6, <1>8 DEF AfterRefusal, Unmarked, Aged
  <2>2. Mends(sv, nx) /\ nx.prompts = b /\ nx.gate = sv.gate
    BY <1>7, <2>1, PromptsPut
  <2> QED
    BY <1>6, <1>7, <2>2
<1>9. CASE ~(terminal \/ sv.prompts[p].deferred)
  <2>1. nx = [sv EXCEPT !.prompts = a]
    BY <1>2, <1>9 DEF AfterRefusal, Unmarked
  <2>2. Mends(sv, nx) /\ nx.prompts = a /\ nx.gate = sv.gate
    BY <1>3, <1>5, <2>1, PromptsPut
  <2> QED
    BY <1>3, <1>9, <2>2
<1> QED
  BY <1>8, <1>9

LEMMA CloseGateIs ==
  ASSUME NEW sv \in ServerRec, NEW nx, nx = CloseGate(sv)
  PROVE  /\ Mends(sv, nx) /\ nx.gate = NoGate /\ OnlyAt(sv.prompts, nx.prompts, sv.gate.prompt)
         /\ \A p \in 1..Len(sv.prompts) :
              /\ nx.prompts[p].answering = sv.prompts[p].answering
              /\ Live(sv.prompts, p) /\ sv.prompts[p].answering => Live(nx.prompts, p)
<1>1. sv.prompts \in Seq(PromptRec) /\ sv.gate.prompt \in Nat
  BY DEF ServerRec, GateRec
<1>2. PICK a : a = ProviderClosed(sv.prompts, sv.gate.prompt)
  OBVIOUS
<1>3. /\ Aged(sv.prompts, a) /\ OnlyAt(sv.prompts, a, sv.gate.prompt)
      /\ sv.gate.prompt \in 1..Len(sv.prompts) =>
           /\ a[sv.gate.prompt].answering = sv.prompts[sv.gate.prompt].answering
           /\ Live(a, sv.gate.prompt) <=> Live(sv.prompts, sv.gate.prompt) /\ sv.prompts[sv.gate.prompt].answering
  BY <1>1, <1>2, ProviderClosedIs
<1>4. nx = Dropped(sv, a) /\ a \in Seq(PromptRec)
  BY <1>2, <1>3 DEF CloseGate, Dropped, Aged
<1>7. Aged(sv.prompts, a)
  BY <1>3
<1>5. Mends(sv, nx) /\ nx.prompts = a /\ nx.gate = NoGate
  BY <1>4, <1>7, GateTaken
<1>6. \A p \in 1..Len(sv.prompts) :
        /\ a[p].answering = sv.prompts[p].answering
        /\ Live(sv.prompts, p) /\ sv.prompts[p].answering => Live(a, p)
  BY <1>3 DEF OnlyAt, Aged, Live
<1> QED
  BY <1>3, <1>5, <1>6

LEMMA EndSessionIs ==
  ASSUME NEW sv \in ServerRec, NEW nx, nx = EndSession(sv)
  PROVE  /\ nx \in ServerRec /\ Aged(sv.prompts, nx.prompts)
         /\ nx.serial = sv.serial /\ nx.threw = sv.threw /\ nx.ended = TRUE /\ nx.gate = NoGate
         /\ \A p \in 1..Len(sv.prompts) :
              nx.prompts[p].answering = sv.prompts[p].answering /\ ~Live(nx.prompts, p)
<1>1. sv.prompts \in Seq(PromptRec) /\ \A p \in 1..Len(sv.prompts) : sv.prompts[p] \in PromptRec
  BY DEF ServerRec
<1> DEFINE a == [p \in 1..Len(sv.prompts) |->
                   IF sv.prompts[p].state = "open" THEN [sv.prompts[p] EXCEPT !.state = "unavailable"]
                   ELSE sv.prompts[p]]
<1>2. \A p \in 1..Len(sv.prompts) :
        /\ a[p] \in PromptRec /\ a[p].state # "open"
        /\ a[p].answering = sv.prompts[p].answering /\ a[p].occ = sv.prompts[p].occ
        /\ sv.prompts[p].state # "open" => a[p].state = sv.prompts[p].state
  <2> SUFFICES ASSUME NEW p \in 1..Len(sv.prompts)
               PROVE  /\ a[p] \in PromptRec /\ a[p].state # "open"
                      /\ a[p].answering = sv.prompts[p].answering /\ a[p].occ = sv.prompts[p].occ
                      /\ sv.prompts[p].state # "open" => a[p].state = sv.prompts[p].state
    OBVIOUS
  <2>1. sv.prompts[p] \in PromptRec /\ "unavailable" \in States
    BY <1>1 DEF States
  <2>2. a[p] = IF sv.prompts[p].state = "open" THEN [sv.prompts[p] EXCEPT !.state = "unavailable"]
               ELSE sv.prompts[p]
    OBVIOUS
  <2> HIDE DEF a
  <2> QED
    BY <2>1, <2>2, FieldsTyped
<1>3. a \in Seq(PromptRec) /\ Len(a) = Len(sv.prompts)
  <2>1. Len(sv.prompts) \in Nat
    BY <1>1
  <2>2. a \in [1..Len(sv.prompts) -> PromptRec]
    <3>1. a = [p \in 1..Len(sv.prompts) |-> a[p]]
      OBVIOUS
    <3> HIDE DEF a
    <3> QED
      BY <1>2, <3>1
  <2> HIDE DEF a
  <2> QED
    BY <2>1, <2>2
<1>4. nx = [sv EXCEPT !.gate = NoGate, !.ended = TRUE, !.prompts = a]
  BY DEF EndSession
<1> HIDE DEF a
<1>5. Aged(sv.prompts, a)
  BY <1>2, <1>3 DEF Aged
<1>6. PICK g \in GateRec : g = NoGate
  BY NoGateTyped
<1>7. nx \in ServerRec /\ nx.prompts = a /\ nx.gate = g /\ nx.ended = TRUE
      /\ nx.serial = sv.serial /\ nx.threw = sv.threw
  BY <1>3, <1>4, <1>6 DEF ServerRec
<1> QED
  BY <1>2, <1>3, <1>5, <1>6, <1>7 DEF Live

-----------------------------------------------------------------------------
(* Announcements, closes and the end: the records and the requests.        *)

GatesSafe == ServerInv /\ RequestInv

LEMMA AgedSelf ==
  ASSUME NEW ps \in Seq(PromptRec)
  PROVE  Aged(ps, ps)
  BY DEF Aged

LEMMA NamedRecord ==
  ASSUME RequestInv, NEW r \in Requests, Reading(r), route[r] # "text"
  PROVE  req[r].prompt \in 1..Len(server.prompts) /\ req[r].prompt # 0
<1>1. req[r].prompt \in 1..Len(server.prompts)
  BY DEF RequestInv, Fine, NamesRecord
<1> QED
  BY <1>1

LEMMA ServerStill ==
  ASSUME GatesSafe, Foreseen, UNCHANGED <<hosted, route, server, req>>
  PROVE  GatesSafe'
<1>1. ServerTypes /\ server \in ServerRec /\ server.prompts \in Seq(PromptRec) /\ server.serial \in Nat
  BY DEF GatesSafe, ServerInv, ServerTypes, ServerRec
<1>2. ServerAges
  BY <1>1, AgedSelf DEF ServerAges
<1>3. ServerInv'
  BY <1>2, GateStays DEF GatesSafe
<1>4. ServerMoves(0)
  BY <1>1 DEF ServerMoves, GateMoves
<1>5. \A r \in Requests : Spares(r, 0)
  <2> SUFFICES ASSUME NEW r \in Requests, ByPrompt(r), Reading(r)
               PROVE  Spares(r, 0)
    BY DEF Spares
  <2>1. req[r].prompt # 0
    BY NamedRecord DEF GatesSafe, ByPrompt
  <2> QED
    BY <2>1 DEF Spares
<1>6. ServerTypes'
  BY <1>3 DEF ServerInv
<1>7. RequestInv'
  BY <1>1, <1>4, <1>5, <1>6, NobodyMoves DEF GatesSafe
<1> QED
  BY <1>3, <1>7 DEF GatesSafe

LEMMA Shows ==
  ASSUME GatesSafe, Foreseen, UNCHANGED <<hosted, route, req>>, NEW view \in Views \ {None},
         NEW occ \in Nat, NEW dlg \in 0..Dialogs, Announced(occ),
         server' = ShowGate(server, view, occ, dlg)
  PROVE  GatesSafe'
<1>1. /\ ServerInv' /\ Grown(server.prompts, server'.prompts) /\ GateMoves
      /\ server'.ended = server.ended /\ server'.serial \in {server.serial, server.serial + 1}
      /\ server'.gate = server.gate => server'.serial = server.serial
      /\ \A p \in 1..Len(server.prompts) :
           server'.gate.prompt = p /\ Live(server.prompts, p) => Live(server'.prompts, p)
  BY GateComes DEF GatesSafe
<1>2. ServerTypes /\ server.serial \in Nat /\ ServerTypes'
  BY <1>1 DEF GatesSafe, ServerInv, ServerTypes, ServerRec
<1>3. ServerMoves(0)
  BY <1>1, <1>2 DEF ServerMoves, Grown
<1>4. \A r \in Requests : Spares(r, 0)
  <2> SUFFICES ASSUME NEW r \in Requests, ByPrompt(r), Reading(r)
               PROVE  Spares(r, 0)
    BY DEF Spares
  <2>1. req[r].prompt # 0 /\ req[r].prompt \in 1..Len(server.prompts)
    BY NamedRecord DEF GatesSafe, ByPrompt
  <2> QED
    BY <1>1, <2>1 DEF Spares
<1>5. RequestInv'
  BY <1>2, <1>3, <1>4, NobodyMoves DEF GatesSafe
<1> QED
  BY <1>1, <1>5 DEF GatesSafe

\* No gate is pending any more, and no mark is changed.
LEMMA Goes ==
  ASSUME GatesSafe, ServerInv', UNCHANGED <<route, req>>, ServerAges, server'.gate = NoGate,
         \A p \in 1..Len(server.prompts) : server'.prompts[p].answering = server.prompts[p].answering
  PROVE  GatesSafe'
<1>1. ServerTypes /\ server.serial \in Nat /\ ServerTypes'
  BY DEF GatesSafe, ServerInv, ServerTypes, ServerRec
<1>2. server.prompts \in Seq(PromptRec)
  BY DEF GatesSafe, ServerInv, ServerTypes, ServerRec
<1>3. ServerMoves(0)
  <2>1. Len(server'.prompts) = Len(server.prompts) /\ Len(server.prompts) \in Nat
    BY <1>2 DEF ServerAges, Aged
  <2>2. server'.serial >= server.serial
    BY <1>1 DEF ServerAges
  <2> QED
    BY <2>1, <2>2 DEF ServerMoves, ServerAges, Aged, GateMoves
<1>4. \A r \in Requests : Spares(r, 0)
  <2> SUFFICES ASSUME NEW r \in Requests, ByPrompt(r), Reading(r)
               PROVE  Spares(r, 0)
    BY DEF Spares
  <2>1. req[r].prompt # 0
    BY NamedRecord DEF GatesSafe, ByPrompt
  <2> QED
    BY <2>1 DEF Spares, NoGate
<1>5. RequestInv'
  BY <1>1, <1>3, <1>4, NobodyMoves DEF GatesSafe
<1> QED
  BY <1>5 DEF GatesSafe

\* Behind a close, the occurrence is not announced again.
LEMMA Closes ==
  ASSUME GatesSafe, Foreseen, UNCHANGED <<hosted, route, req>>, server' = CloseGate(server),
         hosted => \A k \in Nat : Follows(k, 0) => Ahead(k)'
  PROVE  GatesSafe'
<1>1. server \in ServerRec /\ server.gate.prompt <= Len(server.prompts) /\ server.gate.prompt \in Nat
  BY DEF GatesSafe, ServerInv, ServerTypes, ServerRec, GateRec
<1>2. /\ Mends(server, server') /\ server'.gate = NoGate
      /\ \A p \in 1..Len(server.prompts) : server'.prompts[p].answering = server.prompts[p].answering
  BY <1>1, CloseGateIs
<1>3. ServerAges
  BY <1>2 DEF Mends, ServerAges
<1>4. ASSUME NEW k \in Nat, server.gate.prompt # 0, server.prompts[server.gate.prompt].occ = k, k # 0
      PROVE  Ahead(k)'
  <2>1. k = server.gate.occ /\ Follows(k, 0)
    BY <1>4 DEF GatesSafe, ServerInv, RecordOfGate, GateFollows
  <2>2. server.gate.prompt \in 1..Len(server.prompts)
    <3>1. server.prompts \in Seq(PromptRec)
      BY <1>1 DEF ServerRec
    <3> QED
      BY <1>1, <1>4, <3>1
  <2>3. hosted
    BY <1>4, <2>2 DEF GatesSafe, ServerInv, Unhosted
  <2> QED
    BY <2>1, <2>3
<1>5. ServerInv'
  BY <1>2, <1>3, <1>4, GateGoes DEF GatesSafe
<1> QED
  BY <1>2, <1>3, <1>5, Goes

LEMMA Ends ==
  ASSUME GatesSafe, Foreseen, UNCHANGED <<hosted, route, req>>, server' = EndSession(server)
  PROVE  GatesSafe'
<1>1. server \in ServerRec /\ server.gate.prompt <= Len(server.prompts) /\ server.gate.prompt \in Nat
  BY DEF GatesSafe, ServerInv, ServerTypes, ServerRec, GateRec
<1>2. /\ server' \in ServerRec /\ Aged(server.prompts, server'.prompts)
      /\ server'.serial = server.serial /\ server'.threw = server.threw /\ server'.ended = TRUE
      /\ server'.gate = NoGate
      /\ \A p \in 1..Len(server.prompts) :
           server'.prompts[p].answering = server.prompts[p].answering /\ ~Live(server'.prompts, p)
  BY <1>1, EndSessionIs
<1>3. ServerAges
  BY <1>2 DEF ServerAges
<1>4. server.gate.prompt # 0 => ~Live(server'.prompts, server.gate.prompt)
  BY <1>1, <1>2 DEF Live, Aged
<1>5. ServerInv'
  BY <1>2, <1>3, <1>4, GateGoes DEF GatesSafe
<1> QED
  BY <1>2, <1>3, <1>5, Goes

-----------------------------------------------------------------------------
(* The runner's announcements.                                             *)

GatesIInv == SetupTypes /\ RunnerTypes /\ QueueInv /\ GatesSafe

\* What every step keeps but for the types of the agent and the runner.
Kept == QueueInv' /\ Foreseen /\ GatesSafe'

\* Nothing is announced.
LEMMA Silence ==
  ASSUME QueueInv, GatesSafe, UNCHANGED <<setup, req, up, host, server>>
  PROVE  Kept
<1>1. UNCHANGED <<hosted, route>>
  BY DEF setup
<1>2. QueueInv' /\ Foreseen
  BY <1>1, QueueStill
<1> QED
  BY <1>1, <1>2, ServerStill DEF Kept

LEMMA AnnounceKeeps ==
  ASSUME QueueInv, GatesSafe, RunnerTypes, NEW view \in Views \ {None}, Announce(view),
         UNCHANGED <<setup, req>>
  PROVE  Kept
<1>1. UNCHANGED <<hosted, route>> /\ agent.painted \in 0..Dialogs
  BY DEF setup, RunnerTypes
<1>2. CASE hosted
  <2>1. PICK id : id = IF host.view = view THEN host.id ELSE host.next
    OBVIOUS
  <2>2. /\ host' = [view |-> view, id |-> id,
                    next |-> IF id = host.next THEN host.next + 1 ELSE host.next]
        /\ up' = Append(up, [ev |-> "gate", view |-> view, occ |-> id, dialog |-> agent.painted])
        /\ UNCHANGED server
    BY <1>2, <2>1 DEF Announce
  <2>3. HostTypes' /\ QueueTypes' /\ InOrder' /\ Foreseen
    BY <1>1, <2>1, <2>2, AppendsGate
  <2>4. QueueInv'
    BY <1>1, <1>2, <2>3 DEF QueueInv, HostedOnly
  <2> QED
    BY <1>1, <2>2, <2>3, <2>4, ServerStill DEF Kept
<1>3. CASE ~hosted
  <2>1. server' = ShowGate(server, view, 0, agent.painted) /\ UNCHANGED <<host, up>>
    BY <1>3 DEF Announce
  <2>2. QueueInv' /\ Foreseen
    BY <1>1, <2>1, QueueStill
  <2>3. Announced(0)
    BY <1>3 DEF Announced
  <2>4. GatesSafe'
    BY <1>1, <2>1, <2>2, <2>3, Shows
  <2> QED
    BY <2>2, <2>4 DEF Kept
<1> QED
  BY <1>2, <1>3

LEMMA CloseKeeps ==
  ASSUME QueueInv, GatesSafe, AnnounceClose, UNCHANGED <<setup, req>>
  PROVE  Kept
<1>1. UNCHANGED <<hosted, route>>
  BY DEF setup
<1>2. CASE hosted
  <2>1. PICK m : m = [ev |-> "gone"]
    OBVIOUS
  <2>2. m.ev = "gone" /\ Message(m) /\ m.ev # "gate"
    BY <2>1 DEF Message
  <2>3. up' = Append(up, m) /\ UNCHANGED server /\ host' = [host EXCEPT !.view = None]
    BY <1>2, <2>1 DEF AnnounceClose
  <2>4. HostTypes' /\ host'.next = host.next /\ host'.view = None
    BY <2>3 DEF QueueInv, HostTypes, Views
  <2>5. QueueTypes' /\ InOrder' /\ Foreseen
    BY <2>2, <2>3, <2>4, AppendsNoGate
  <2>6. QueueInv'
    BY <1>1, <1>2, <2>4, <2>5 DEF QueueInv, HostedOnly
  <2> QED
    BY <1>1, <2>3, <2>5, <2>6, ServerStill DEF Kept
<1>3. CASE ~hosted
  <2>1. server' = CloseGate(server) /\ UNCHANGED <<host, up>>
    BY <1>3 DEF AnnounceClose
  <2>2. QueueInv' /\ Foreseen
    BY <1>1, <2>1, QueueStill
  <2>3. GatesSafe'
    BY <1>1, <1>3, <2>1, <2>2, Closes
  <2> QED
    BY <2>2, <2>3 DEF Kept
<1> QED
  BY <1>2, <1>3

LEMMA ExitKeeps ==
  ASSUME QueueInv, GatesSafe, Exit, UNCHANGED setup
  PROVE  Kept
<1>1. UNCHANGED <<hosted, route, req>>
  BY DEF setup, Exit
<1>2. CASE hosted
  <2>1. PICK m : m = [ev |-> "exit"]
    OBVIOUS
  <2>2. m.ev = "exit" /\ Message(m) /\ m.ev # "gate"
    BY <2>1 DEF Message
  <2>3. up' = Append(up, m) /\ UNCHANGED server /\ host' = [host EXCEPT !.view = None]
    BY <1>2, <2>1 DEF Exit
  <2>4. HostTypes' /\ host'.next = host.next /\ host'.view = None
    BY <2>3 DEF QueueInv, HostTypes, Views
  <2>5. QueueTypes' /\ InOrder' /\ Foreseen
    BY <2>2, <2>3, <2>4, AppendsNoGate
  <2>6. QueueInv'
    BY <1>1, <1>2, <2>4, <2>5 DEF QueueInv, HostedOnly
  <2> QED
    BY <1>1, <2>3, <2>5, <2>6, ServerStill DEF Kept
<1>3. CASE ~hosted
  <2>1. server' = EndSession(server) /\ UNCHANGED <<host, up>>
    BY <1>3 DEF Exit
  <2>2. QueueInv' /\ Foreseen
    BY <1>1, <2>1, QueueStill
  <2>3. GatesSafe'
    BY <1>1, <2>1, <2>2, Ends
  <2> QED
    BY <2>2, <2>3 DEF Kept
<1> QED
  BY <1>2, <1>3

\* A screen is sent behind the events that were sent already.
LEMMA SendsScreen ==
  ASSUME QueueInv, GatesSafe, hosted, NEW r \in Requests, ReadScreen(r), UNCHANGED setup
  PROVE  Kept
<1>1. UNCHANGED <<hosted, route, req, server, host>>
  BY DEF setup, ReadScreen
<1>2. PICK m : m = [ev |-> "screen", to |-> r, seen |-> Seen]
  OBVIOUS
<1>3. m.ev = "screen" /\ Message(m) /\ m.ev # "gate"
  BY <1>2 DEF Message
<1>4. up' = Append(up, m)
  BY <1>2 DEF ReadScreen
<1>5. HostTypes' /\ host'.next = host.next /\ host'.view = host.view /\ host'.id = host.id
  BY <1>1 DEF QueueInv, HostTypes
<1>6. QueueTypes' /\ InOrder' /\ Foreseen
  BY <1>3, <1>4, <1>5, AppendsNoGate
<1>7. QueueInv'
  BY <1>1, <1>5, <1>6 DEF QueueInv, HostedOnly
<1> QED
  BY <1>1, <1>6, <1>7, ServerStill DEF Kept

\* The passes of the detector.
LEMMA PassKeeps ==
  ASSUME GatesIInv, EndPass, UNCHANGED setup
  PROVE  Kept /\ RunnerTypes'
<1>1. QueueInv /\ GatesSafe /\ RunnerTypes /\ SetupTypes /\ UNCHANGED <<agent, req>>
  BY DEF GatesIInv, EndPass
<1>2. Screen \in Contents \cup {None}
  BY <1>1, ScreenIsView
<1>3. CASE ClaimByNotice
  <2>1. PICK view : view = IF Screen = None THEN Blank ELSE Screen
    OBVIOUS
  <2>2. view \in Views \ {None}
    BY <1>2, <2>1, ContentsAssumption DEF Views, ContentsAssumption
  <2>3. runner' = [runner EXCEPT !.open = view, !.pass = "none"] /\ Announce(view)
    BY <1>3, <2>1 DEF ClaimByNotice
  <2>4. Kept
    BY <1>1, <2>2, <2>3, AnnounceKeeps
  <2>5. RunnerTypes'
    BY <1>1, <2>2, <2>3 DEF RunnerTypes
  <2> QED
    BY <2>4, <2>5
<1>4. CASE CloseOpen
  <2>1. runner' = [open |-> None, closed |-> Screen, pass |-> "none"] /\ AnnounceClose
    BY <1>4 DEF CloseOpen
  <2>2. Kept
    BY <1>1, <2>1, CloseKeeps
  <2>3. RunnerTypes'
    BY <1>1, <1>2, <2>1 DEF RunnerTypes, Views
  <2> QED
    BY <2>2, <2>3
<1>5. CASE RefreshOpen \/ ClaimByPaint
  <2>1. Screen # None /\ runner' = [runner EXCEPT !.open = Screen, !.pass = "none"] /\ Announce(Screen)
    BY <1>5 DEF RefreshOpen, ClaimByPaint
  <2>2. Screen \in Views \ {None}
    BY <1>2, <2>1 DEF Views
  <2>3. Kept
    BY <1>1, <2>1, <2>2, AnnounceKeeps
  <2>4. RunnerTypes'
    BY <1>1, <2>1, <2>2 DEF RunnerTypes
  <2> QED
    BY <2>3, <2>4
<1>6. CASE PassIdle
  <2>1. UNCHANGED <<up, host, server>>
    BY <1>6 DEF PassIdle, Silent
  <2>2. Kept
    BY <1>1, <2>1, Silence
  <2>3. runner' = [runner EXCEPT !.pass = "none", !.closed = IF Screen = None THEN None ELSE @]
          \/ runner' = [runner EXCEPT !.pass = "none"]
    BY <1>6 DEF PassIdle
  <2>4. RunnerTypes'
    BY <1>1, <2>3 DEF RunnerTypes
  <2> QED
    BY <2>2, <2>4
<1> QED
  BY <1>3, <1>4, <1>5, <1>6 DEF EndPass

\* The keys that reach the pseudo-terminal.
LEMMA KeysKeep ==
  ASSUME GatesIInv, HostKeys, UNCHANGED setup
  PROVE  Kept /\ RunnerTypes'
<1>1. QueueInv /\ GatesSafe /\ RunnerTypes /\ UNCHANGED <<agent, req>>
  BY DEF GatesIInv, HostKeys
<1>2. Kept
  <2>1. AnnounceClose \/ Silent
    BY DEF HostKeys, Silent
  <2>2. CASE AnnounceClose
    BY <1>1, <2>2, CloseKeeps
  <2>3. CASE Silent
    BY <1>1, <2>3, Silence DEF Silent
  <2> QED
    BY <2>1, <2>2, <2>3
<1>3. runner' \in {runner, [runner EXCEPT !.open = None]}
  BY DEF HostKeys, RunnerAfter
<1>4. RunnerTypes'
  BY <1>1, <1>3 DEF RunnerTypes, Views
<1> QED
  BY <1>2, <1>4

-----------------------------------------------------------------------------
(* The routes up to their first await.                                     *)

\* The request's turn in the routes' code: what it is after it.
LEMMA BecomeIs ==
  ASSUME req \in [Requests -> RequestRec], NEW r \in Requests, NEW pc \in Places,
         NEW result \in {"none", "written", "refused"}, Become(r, pc, result)
  PROVE  \E x \in RequestRec :
           /\ req' = [req EXCEPT ![r] = x] /\ req'[r] = x
           /\ x.pc = pc /\ x.result = result /\ x.prompt = req[r].prompt /\ x.serial = req[r].serial
<1>1. req[r] \in RequestRec
  OBVIOUS
<1>2. PICK x : x = [req[r] EXCEPT !.pc = pc, !.result = result]
  OBVIOUS
<1>3. /\ x \in RequestRec
      /\ x.pc = pc /\ x.result = result /\ x.prompt = req[r].prompt /\ x.serial = req[r].serial
  BY <1>1, <1>2 DEF RequestRec
<1>4. req' = [req EXCEPT ![r] = x]
  BY <1>2 DEF Become
<1> QED
  BY <1>3, <1>4

LEMMA AwaitIs ==
  ASSUME req \in [Requests -> RequestRec], NEW r \in Requests, NEW p \in Nat, ServerTypes, Await(r, p)
  PROVE  \E x \in RequestRec :
           /\ req' = [req EXCEPT ![r] = x] /\ req'[r] = x
           /\ x.pc = "reading" /\ x.result = "none" /\ x.prompt = p /\ x.serial = server.gate.serial
<1>1. server.gate.view \in Views /\ server.gate.serial \in Nat
  BY DEF ServerTypes, ServerRec, GateRec
<1>2. PICK x : x = [pc |-> "reading", prompt |-> p, view |-> server.gate.view,
                    serial |-> server.gate.serial, result |-> "none"]
  OBVIOUS
<1>3. x \in RequestRec /\ x.pc = "reading" /\ x.result = "none" /\ x.prompt = p
      /\ x.serial = server.gate.serial
  BY <1>1, <1>2 DEF RequestRec, Places
<1>4. req' = [req EXCEPT ![r] = x]
  BY <1>2 DEF Await
<1> QED
  BY <1>3, <1>4

\* A request that is over without having written is fine.
LEMMA OverIsFine ==
  ASSUME NEW r \in Requests, req'[r].pc \notin {"reading", "rereading"}, req'[r].result # "written"
  PROVE  Fine(r)' /\ ~Reading(r)' /\ ~Written(r)'
  BY DEF Fine, TextIsHeld, NamesRecord, IsMarked, HasSettled, Reading, Written

\* So is one that has written, but for an answer to a prompt.
LEMMA WrittenIsFine ==
  ASSUME NEW r \in Requests, req'[r].pc = "done", route'[r] # "prompt"
  PROVE  Fine(r)' /\ ~Reading(r)' /\ ~ByPrompt(r)'
  BY DEF Fine, TextIsHeld, NamesRecord, IsMarked, HasSettled, Reading, Written, ByPrompt

\* A request moves and the server does not.
LEMMA Moves ==
  ASSUME GatesSafe, Foreseen, UNCHANGED <<hosted, route, server>>, NEW r \in Requests,
         NEW x \in RequestRec, req' = [req EXCEPT ![r] = x], Fine(r)',
         ByPrompt(r) => req'[r].pc # "reading" /\ req'[r].result # "written" /\ x.prompt = req[r].prompt
                        /\ (req'[r].pc = "rereading" => Reading(r))
  PROVE  GatesSafe'
<1>1. ServerTypes /\ server \in ServerRec /\ server.prompts \in Seq(PromptRec) /\ server.serial \in Nat
  BY DEF GatesSafe, ServerInv, ServerTypes, ServerRec
<1>2. ServerAges
  BY <1>1, AgedSelf DEF ServerAges
<1>3. ServerInv'
  BY <1>2, GateStays DEF GatesSafe
<1>4. ServerMoves(0)
  BY <1>1 DEF ServerMoves, GateMoves
<1>5. \A q \in Requests : Spares(q, 0)
  <2> SUFFICES ASSUME NEW q \in Requests, ByPrompt(q), Reading(q)
               PROVE  Spares(q, 0)
    BY DEF Spares
  <2>1. req[q].prompt # 0
    BY NamedRecord DEF GatesSafe, ByPrompt
  <2> QED
    BY <2>1 DEF Spares
<1>6. ServerTypes'
  BY <1>3 DEF ServerInv
<1>7. ByPrompt(r) => ~Written(r)' /\ (Reading(r)' => Reading(r))
  BY DEF Reading, Written
<1>8. ASSUME ByPrompt(r), Reading(r)' \/ Written(r)', NEW q \in Requests \ {r}, ByPrompt(q),
             req[q].prompt = x.prompt, Reading(q) \/ Written(q)
      PROVE  server.ended
  <2>1. Apart(q, r) /\ Reading(r) /\ req[q].prompt = req[r].prompt
    BY <1>7, <1>8 DEF GatesSafe, RequestInv
  <2> QED
    BY <1>8, <2>1 DEF Apart
<1>9. RequestInv'
  BY <1>1, <1>4, <1>5, <1>6, <1>7, <1>8, OneMoves DEF GatesSafe
<1> QED
  BY <1>3, <1>9 DEF GatesSafe

\* The mark of an answer that is being written.
Marked(ps, p) == [ps EXCEPT ![p].answering = TRUE]

LEMMA MarkedIs ==
  ASSUME NEW ps \in Seq(PromptRec), NEW p \in 1..Len(ps), NEW new, new = Marked(ps, p)
  PROVE  /\ Aged(ps, new) /\ OnlyAt(ps, new, p) /\ new[p].answering
         /\ \A q \in 1..Len(ps) : new[q].state = ps[q].state
<1>1. ps[p] \in PromptRec
  OBVIOUS
<1>2. PICK x \in PromptRec : x = [ps[p] EXCEPT !.answering = TRUE]
  BY <1>1, FieldsTyped
<1>3. x.state = ps[p].state /\ x.occ = ps[p].occ /\ x.answering = TRUE
  BY <1>1, <1>2, FieldsTyped
<1>4. new = [ps EXCEPT ![p] = x]
  BY <1>2 DEF Marked
<1>5. /\ new \in Seq(PromptRec) /\ Len(new) = Len(ps) /\ new[p] = x
      /\ \A q \in 1..Len(ps) : q # p => new[q] = ps[q]
  BY <1>4, Putting
<1> QED
  BY <1>3, <1>5 DEF Aged, OnlyAt

\* performAnswer: the record is marked, or the answer refused.
LEMMA BeginsPrompt ==
  ASSUME GatesSafe, Foreseen, UNCHANGED <<hosted, route>>, NEW r \in Requests, NEW p, BeginPrompt(r, p),
         req[r].pc = "idle"
  PROVE  GatesSafe'
<1>1. /\ ServerTypes /\ server \in ServerRec /\ server.prompts \in Seq(PromptRec)
      /\ server.serial \in Nat /\ server.gate.serial \in Nat /\ req \in [Requests -> RequestRec]
      /\ Len(server.prompts) \in Nat /\ server.gate.serial <= server.serial
  BY DEF GatesSafe, ServerInv, RequestInv, ServerTypes, ServerRec, GateRec
<1>2. p \in 1..Len(server.prompts) /\ ByPrompt(r) /\ ~server.prompts[p].answering
  BY DEF BeginPrompt, Known, ByPrompt
<1>3. p \in Nat /\ p # 0
  BY <1>1, <1>2
<1>4. CASE Live(server.prompts, p) /\ server.gate.prompt = p
  <2>1. server' = [server EXCEPT !.prompts[p].answering = TRUE] /\ Await(r, p)
    BY <1>4 DEF BeginPrompt
  <2>2. PICK ps : ps = Marked(server.prompts, p)
    OBVIOUS
  <2>3. /\ Aged(server.prompts, ps) /\ OnlyAt(server.prompts, ps, p) /\ ps[p].answering
        /\ \A q \in 1..Len(server.prompts) : ps[q].state = server.prompts[q].state
    BY <1>1, <1>2, <2>2, MarkedIs
  <2>4. server' = [server EXCEPT !.prompts = ps] /\ ps \in Seq(PromptRec) /\ Len(ps) = Len(server.prompts)
    BY <2>1, <2>2, <2>3 DEF Aged, Marked
  <2>5. Mends(server, server') /\ server'.prompts = ps /\ server'.gate = server.gate
    BY <1>1, <2>3, <2>4, PromptsPut
  <2>6. ServerAges
    BY <2>5 DEF Mends, ServerAges
  <2>7. ServerInv'
    BY <2>5, <2>6, GateStays DEF GatesSafe
  <2>8. PICK x \in RequestRec :
          /\ req' = [req EXCEPT ![r] = x] /\ req'[r] = x
          /\ x.pc = "reading" /\ x.result = "none" /\ x.prompt = p /\ x.serial = server.gate.serial
    BY <1>1, <1>3, <2>1, AwaitIs
  <2>9. ServerMoves(p)
    BY <1>1, <2>3, <2>4, <2>5, <2>6 DEF ServerMoves, ServerAges, GateMoves, OnlyAt
  <2>10. \A q \in Requests \ {r} : Spares(q, p)
    BY <2>3, <2>4, <2>5 DEF Spares, Live
  <2>11. Fine(r)'
    <3>1. ByPrompt(r)' /\ ~Written(r)' /\ route'[r] # "text"
      BY <1>2, <2>8 DEF ByPrompt, Written
    <3>2. TextIsHeld(r)'
      BY <1>1, <2>5, <2>8, <3>1 DEF TextIsHeld, Mends
    <3>3. NamesRecord(r)'
      BY <1>2, <2>4, <2>5, <2>8, <3>1 DEF NamesRecord
    <3>4. Live(server'.prompts, p) /\ server'.prompts[p].answering
      BY <1>2, <1>4, <2>3, <2>4, <2>5 DEF Live
    <3>5. IsMarked(r)'
      BY <2>8, <3>4 DEF IsMarked
    <3> QED
      BY <3>1, <3>2, <3>3, <3>5 DEF Fine, HasSettled
  <2>12. ~Written(r)'
    BY <2>8 DEF Written
  <2>13. ASSUME NEW q \in Requests \ {r}, ByPrompt(q), req[q].prompt = x.prompt, Reading(q) \/ Written(q)
         PROVE  server.ended
    <3>1. Fine(q) /\ req[q].prompt = p
      BY <2>8, <2>13 DEF GatesSafe, RequestInv
    <3>2. CASE Reading(q)
      BY <1>2, <1>4, <2>13, <3>1, <3>2 DEF Fine, IsMarked
    <3>3. CASE Written(q)
      BY <1>4, <2>13, <3>1, <3>3 DEF Fine, HasSettled
    <3> QED
      BY <2>13, <3>2, <3>3
  <2>14. ServerTypes' /\ RequestInv
    BY <2>7 DEF ServerInv, GatesSafe
  <2>15. RequestInv'
    BY <1>1, <1>3, <2>8, <2>9, <2>10, <2>11, <2>12, <2>13, <2>14, OneMoves
  <2> QED
    BY <2>7, <2>15 DEF GatesSafe
<1>5. CASE ~(Live(server.prompts, p) /\ server.gate.prompt = p)
  <2>1. server' = [server EXCEPT !.prompts = Transitioned(server.prompts, p, "unavailable")] /\ Refused(r)
    BY <1>5 DEF BeginPrompt
  <2>2. PICK ps : ps = Transitioned(server.prompts, p, "unavailable")
    OBVIOUS
  <2>3. "unavailable" \in States \ {"open"}
    BY DEF States
  <2>4. /\ Aged(server.prompts, ps) /\ OnlyAt(server.prompts, ps, p)
        /\ ps[p].answering = server.prompts[p].answering
    BY <1>1, <1>2, <1>3, <2>2, <2>3, TransitionedIs
  <2>5. server' = [server EXCEPT !.prompts = ps] /\ ps \in Seq(PromptRec) /\ Len(ps) = Len(server.prompts)
    BY <2>1, <2>2, <2>4 DEF Aged
  <2>6. Mends(server, server') /\ server'.prompts = ps /\ server'.gate = server.gate
    BY <1>1, <2>4, <2>5, PromptsPut
  <2>7. ServerAges
    BY <2>6 DEF Mends, ServerAges
  <2>8. ServerInv'
    BY <2>6, <2>7, GateStays DEF GatesSafe
  <2>9. PICK x \in RequestRec :
          /\ req' = [req EXCEPT ![r] = x] /\ req'[r] = x
          /\ x.pc = "done" /\ x.result = "refused" /\ x.prompt = req[r].prompt
    BY <1>1, <2>1, BecomeIs DEF Refused, Places
  <2>15. \A q \in 1..Len(server.prompts) : ps[q].answering = server.prompts[q].answering
    BY <2>4 DEF OnlyAt
  <2>10. ServerMoves(0)
    BY <1>1, <2>5, <2>6, <2>7, <2>15 DEF ServerMoves, ServerAges, GateMoves, Aged
  <2>11. ASSUME NEW q \in Requests \ {r}
         PROVE  Spares(q, 0)
    <3> SUFFICES ASSUME ByPrompt(q), Reading(q), Live(server.prompts, req[q].prompt)
                 PROVE  Spares(q, 0)
      BY DEF Spares
    <3>1. req[q].prompt # 0 /\ req[q].prompt \in 1..Len(server.prompts)
      BY NamedRecord DEF GatesSafe, ByPrompt
    <3>2. server.gate.prompt = req[q].prompt => req[q].prompt # p
      BY <1>5
    <3>3. req[q].prompt # p => Live(ps, req[q].prompt)
      BY <2>4, <2>5, <3>1 DEF OnlyAt, Live
    <3> QED
      BY <2>6, <3>1, <3>2, <3>3 DEF Spares
  <2>12. Fine(r)' /\ ~Reading(r)' /\ ~Written(r)'
    BY <2>9, OverIsFine
  <2>13. ServerTypes' /\ RequestInv
    BY <2>8 DEF ServerInv, GatesSafe
  <2>14. RequestInv'
    BY <1>1, <2>9, <2>10, <2>11, <2>12, <2>13, OneMoves
  <2> QED
    BY <2>8, <2>14 DEF GatesSafe
<1> QED
  BY <1>4, <1>5

\* The other routes leave the server alone until they have seen the screen.
LEMMA BeginsOther ==
  ASSUME GatesSafe, Foreseen, UNCHANGED <<hosted, route>>, NEW r \in Requests,
         \/ \E p \in 1..Len(server.prompts) : BeginLegacy(r, p) \/ BeginRawKey(r, p)
         \/ BeginText(r)
  PROVE  GatesSafe'
<1>1. /\ ServerTypes /\ server.prompts \in Seq(PromptRec) /\ Len(server.prompts) \in Nat
      /\ server.serial \in Nat /\ server.gate.serial \in Nat /\ req \in [Requests -> RequestRec]
      /\ server.gate.serial <= server.serial
  BY DEF GatesSafe, ServerInv, RequestInv, ServerTypes, ServerRec, GateRec
<1>2. ~ByPrompt(r) /\ ~ByPrompt(r)' /\ UNCHANGED server
  BY DEF ByPrompt, BeginLegacy, BeginRawKey, BeginText
<1>3. \/ Refused(r)
      \/ Become(r, "done", "written")
      \/ \E p \in 1..Len(server.prompts) : route[r] # "text" /\ Await(r, p)
      \/ route[r] = "text" /\ server.gate.prompt = 0 /\ Await(r, 0)
  BY DEF BeginLegacy, BeginRawKey, BeginText, WriteText
<1>4. CASE Refused(r) \/ Become(r, "done", "written")
  <2>1. PICK x \in RequestRec : req' = [req EXCEPT ![r] = x] /\ req'[r] = x /\ x.pc = "done"
    BY <1>1, <1>4, BecomeIs DEF Refused, Places
  <2>2. Fine(r)'
    BY <1>2, <2>1, WrittenIsFine DEF ByPrompt
  <2> QED
    BY <1>2, <2>1, <2>2, Moves
<1>5. ASSUME NEW p \in Nat, Await(r, p),
             \/ p \in 1..Len(server.prompts) /\ route[r] # "text"
             \/ p = 0 /\ server.gate.prompt = 0
             , route[r] # "text" => p # 0
      PROVE  GatesSafe'
  <2>1. PICK x \in RequestRec :
          /\ req' = [req EXCEPT ![r] = x] /\ req'[r] = x
          /\ x.pc = "reading" /\ x.result = "none" /\ x.prompt = p /\ x.serial = server.gate.serial
    BY <1>1, <1>5, AwaitIs
  <2>2. ~Written(r)'
    BY <2>1 DEF Written
  <2>3. TextIsHeld(r)'
    BY <1>1, <1>2, <1>5, <2>1 DEF TextIsHeld
  <2>4. NamesRecord(r)'
    BY <1>2, <1>5, <2>1, <2>2 DEF NamesRecord
  <2>5. Fine(r)'
    BY <1>2, <2>2, <2>3, <2>4 DEF Fine, IsMarked, HasSettled
  <2> QED
    BY <1>2, <2>1, <2>5, Moves
<1>6. CASE \E p \in 1..Len(server.prompts) : route[r] # "text" /\ Await(r, p)
  <2>1. PICK p \in 1..Len(server.prompts) : route[r] # "text" /\ Await(r, p)
    BY <1>6
  <2>2. p \in Nat /\ p # 0
    BY <1>1
  <2> QED
    BY <1>5, <2>1, <2>2
<1> QED
  BY <1>3, <1>4, <1>5, <1>6

-----------------------------------------------------------------------------
(* The routes after their await.                                           *)

\* An answer to a prompt: only its record changes, and its gate goes with it.
LEMMA PromptMoves ==
  ASSUME GatesSafe, Foreseen, UNCHANGED <<hosted, route>>, NEW r \in Requests, ByPrompt(r), Reading(r),
         NEW p \in Nat, p = req[r].prompt,
         Mends(server, server'), OnlyAt(server.prompts, server'.prompts, p),
         \/ server'.gate = server.gate
         \/ server'.gate = NoGate /\ server.gate.prompt = p /\ ~Live(server'.prompts, p),
         NEW result \in {"written", "refused"}, Become(r, "done", result),
         result = "written" => /\ ~server.ended /\ ~Live(server'.prompts, p)
                               /\ ~Legacy => server'.prompts[p].state = "resolved"
  PROVE  GatesSafe'
<1>1. /\ ServerTypes /\ server \in ServerRec /\ server.prompts \in Seq(PromptRec)
      /\ server.serial \in Nat /\ req \in [Requests -> RequestRec] /\ Len(server.prompts) \in Nat
      /\ RequestInv
  BY DEF GatesSafe, ServerInv, RequestInv, ServerTypes, ServerRec
<1>2. p \in 1..Len(server.prompts) /\ p # 0
  BY NamedRecord DEF GatesSafe, ByPrompt
<1>3. ServerAges /\ server'.ended = server.ended /\ Len(server'.prompts) = Len(server.prompts)
  BY DEF Mends, ServerAges, Aged
<1>4. ServerInv'
  <2>1. CASE server'.gate = server.gate
    BY <1>3, <2>1, GateStays DEF GatesSafe
  <2>2. CASE server'.gate = NoGate /\ ~Live(server'.prompts, server.gate.prompt)
    BY <1>3, <2>2, GateGoes DEF GatesSafe
  <2> QED
    BY <2>1, <2>2
<1>5. ServerMoves(p)
  <2>1. \A q \in 1..Len(server.prompts) :
          q # p => server'.prompts[q].answering = server.prompts[q].answering
    BY DEF OnlyAt
  <2> QED
    BY <1>1, <1>3, <2>1 DEF ServerMoves, ServerAges, GateMoves, Aged
<1>6. \A q \in Requests \ {r} :
        ByPrompt(q) /\ req[q].prompt = p /\ (Reading(q) \/ Written(q)) => server.ended
  BY <1>1 DEF RequestInv, Apart
<1>7. ASSUME NEW q \in Requests \ {r}
      PROVE  Spares(q, p)
  <2> SUFFICES ASSUME ByPrompt(q), Reading(q), ~server'.ended, Live(server.prompts, req[q].prompt)
               PROVE  /\ req[q].prompt # p
                      /\ server'.gate.prompt = req[q].prompt => Live(server'.prompts, req[q].prompt)
    BY DEF Spares
  <2>1. req[q].prompt # p /\ req[q].prompt \in 1..Len(server.prompts)
    BY <1>1, <1>3, <1>6, NamedRecord DEF ByPrompt
  <2> QED
    BY <1>3, <2>1 DEF OnlyAt, Live
<1>8. PICK x \in RequestRec :
        /\ req' = [req EXCEPT ![r] = x] /\ req'[r] = x
        /\ x.pc = "done" /\ x.result = result /\ x.prompt = req[r].prompt
  BY <1>1, BecomeIs DEF Places
<1>9. Fine(r)'
  <2>1. ~Reading(r)'
    BY <1>8 DEF Reading
  <2>2. (Legacy)' <=> Legacy
    BY DEF Legacy, Used
  <2>3. NamesRecord(r)'
    BY <1>2, <1>3, <1>8, <2>1 DEF NamesRecord
  <2>4. HasSettled(r)'
    BY <1>8, <2>2 DEF HasSettled, Written
  <2> QED
    BY <2>1, <2>3, <2>4 DEF Fine, TextIsHeld, IsMarked
<1>10. Written(r)' => ~server.ended
  BY <1>8 DEF Written
<1>11. ServerTypes'
  BY <1>4 DEF ServerInv
<1>12. RequestInv'
  BY <1>1, <1>5, <1>6, <1>7, <1>8, <1>9, <1>10, <1>11, OneMoves
<1> QED
  BY <1>4, <1>12 DEF GatesSafe

\* Another route: the pending gate stays or goes, and the prompts that answers await keep
\* their marks, but for the record `at` it settles.
LEMMA OtherMoves ==
  ASSUME GatesSafe, Foreseen, UNCHANGED <<hosted, route>>, NEW r \in Requests, ~ByPrompt(r),
         Mends(server, server'), NEW at \in Nat,
         \A p \in 1..Len(server.prompts) :
           p # at => server'.prompts[p].answering = server.prompts[p].answering,
         at # 0 => Legacy /\ (server'.ended \/ ~Live(server'.prompts, at)),
         \/ server'.gate = server.gate /\ (Legacy \/ server'.prompts = server.prompts)
         \/ /\ server'.gate = NoGate
            /\ \/ RawKeys \/ server.gate.prompt = 0 \/ ~Live(server'.prompts, server.gate.prompt)
               \/ ~hosted,
         NEW result \in {"written", "refused"}, Become(r, "done", result)
  PROVE  GatesSafe'
<1>1. /\ ServerTypes /\ server \in ServerRec /\ server.prompts \in Seq(PromptRec)
      /\ server.serial \in Nat /\ req \in [Requests -> RequestRec] /\ Len(server.prompts) \in Nat
      /\ RequestInv /\ server.gate.prompt \in Nat /\ server.gate.prompt <= Len(server.prompts)
  BY DEF GatesSafe, ServerInv, RequestInv, ServerTypes, ServerRec, GateRec
<1>2. ServerAges /\ server'.ended = server.ended /\ Len(server'.prompts) = Len(server.prompts)
  BY DEF Mends, ServerAges, Aged
<1>3. ~hosted /\ server.gate.prompt # 0 => server.prompts[server.gate.prompt].occ = 0
  <2>1. server.gate.prompt # 0 => server.gate.prompt \in 1..Len(server.prompts)
    BY <1>1
  <2> QED
    BY <2>1 DEF GatesSafe, ServerInv, Unhosted
<1>4. ServerInv'
  <2>1. CASE server'.gate = server.gate
    BY <1>2, <2>1, GateStays DEF GatesSafe
  <2>2. CASE /\ server'.gate = NoGate
             /\ \/ RawKeys \/ server.gate.prompt = 0 \/ ~Live(server'.prompts, server.gate.prompt)
                \/ ~hosted
    BY <1>2, <1>3, <2>2, GateGoes DEF GatesSafe
  <2> QED
    BY <2>1, <2>2
<1>5. ServerMoves(at)
  BY <1>1, <1>2 DEF ServerMoves, ServerAges, GateMoves, Aged
<1>6. ASSUME NEW q \in Requests \ {r}
      PROVE  Spares(q, at)
  <2> SUFFICES ASSUME ByPrompt(q), Reading(q), ~server'.ended, Live(server.prompts, req[q].prompt)
               PROVE  /\ req[q].prompt = at => ~Live(server'.prompts, at)
                      /\ ~Legacy /\ server'.gate.prompt = req[q].prompt => Live(server'.prompts, req[q].prompt)
    BY DEF Spares
  <2>1. req[q].prompt # 0
    BY <1>1, NamedRecord DEF ByPrompt
  <2>2. req[q].prompt = at => ~Live(server'.prompts, at)
    BY <2>1
  <2>3. NoGate.prompt = 0
    BY DEF NoGate
  <2> QED
    BY <2>1, <2>2, <2>3
<1>7. PICK x \in RequestRec : req' = [req EXCEPT ![r] = x] /\ req'[r] = x /\ x.pc = "done"
  BY <1>1, BecomeIs DEF Places
<1>8. Fine(r)' /\ ~Reading(r)' /\ ~ByPrompt(r)'
  BY <1>7, WrittenIsFine DEF ByPrompt
<1>9. ServerTypes'
  BY <1>4 DEF ServerInv
<1>10. RequestInv'
  BY <1>1, <1>5, <1>6, <1>7, <1>8, <1>9, OneMoves
<1> QED
  BY <1>4, <1>10 DEF GatesSafe

LEMMA AfterKeysIs ==
  ASSUME NEW sv \in ServerRec, NEW k, NEW nx, nx = ServerAfterKeys(sv, k)
  PROVE  nx = sv \/ (nx = CloseGate(sv) /\ ~hosted)
  BY DEF ServerAfterKeys

LEMMA MendsSelf ==
  ASSUME NEW sv \in ServerRec
  PROVE  Mends(sv, sv) /\ sv.prompts \in Seq(PromptRec)
  BY DEF Mends, Aged, ServerRec

LEMMA StaysOnlyAt ==
  ASSUME NEW a, NEW b, NEW c, NEW p, Len(a) = Len(b), OnlyAt(a, b, p), OnlyAt(b, c, p)
  PROVE  OnlyAt(a, c, p)
  BY DEF OnlyAt

\* The write of an answer: while its prompt's gate is pending, its own close is held back.
LEMMA WritesPrompt ==
  ASSUME GatesSafe, Foreseen, UNCHANGED <<hosted, route>>, NEW r \in Requests, ByPrompt(r), Reading(r),
         WritePrompt(r)
  PROVE  GatesSafe'
<1>1. /\ ServerTypes /\ server \in ServerRec /\ RequestInv
      /\ server.prompts \in Seq(PromptRec)
  BY DEF GatesSafe, ServerInv, ServerTypes, ServerRec
<1>2. PICK p : p = req[r].prompt
  OBVIOUS
<1>3. p \in 1..Len(server.prompts) /\ p \in Nat
  <2>1. p \in 1..Len(server.prompts)
    BY <1>1, <1>2, NamedRecord DEF ByPrompt
  <2> QED
    BY <2>1
<1>4. CASE server.gate.prompt = p /\ ~server.ended
  <2>1. PICK sv : sv = ServerAfterKeys(server, Keys(r))
    OBVIOUS
  <2>2. server' = AfterWrite(sv, p, "resolved") /\ Become(r, "done", "written")
    BY <1>2, <1>4, <2>1 DEF WritePrompt
  <2>3. sv = server \/ sv = CloseGate(server)
    BY <1>1, <2>1, AfterKeysIs
  <2>4. /\ Mends(server, sv) /\ OnlyAt(server.prompts, sv.prompts, p)
        /\ sv.gate \in {server.gate, NoGate}
        /\ Live(server.prompts, p) /\ server.prompts[p].answering => Live(sv.prompts, p)
    <3>1. CASE sv = server
      BY <1>1, <3>1, MendsSelf DEF OnlyAt
    <3>2. CASE sv = CloseGate(server)
      BY <1>1, <1>3, <1>4, <3>2, CloseGateIs
    <3> QED
      BY <2>3, <3>1, <3>2
  <2>5. sv \in ServerRec /\ Len(sv.prompts) = Len(server.prompts)
    BY <2>4 DEF Mends, Aged
  <2>6. /\ Mends(sv, server') /\ server'.gate = sv.gate /\ OnlyAt(sv.prompts, server'.prompts, p)
        /\ ~Live(server'.prompts, p) /\ (Live(sv.prompts, p) => server'.prompts[p].state = "resolved")
    BY <1>3, <2>2, <2>5, AfterWriteIs
  <2>7. Mends(server, server')
    BY <1>1, <2>4, <2>6, MendsTwice
  <2>8. OnlyAt(server.prompts, server'.prompts, p)
    BY <2>4, <2>5, <2>6, StaysOnlyAt
  <2>9. ~Legacy => Live(server.prompts, p) /\ server.prompts[p].answering
    BY <1>1, <1>2, <1>4 DEF RequestInv, Fine, IsMarked
  <2> QED
    BY <1>2, <1>3, <1>4, <2>2, <2>4, <2>6, <2>7, <2>8, <2>9, PromptMoves
<1>5. CASE ~(server.gate.prompt = p /\ ~server.ended)
  <2>1. server' = AfterRefusal(server, p, FALSE) /\ Become(r, "done", "refused")
    BY <1>2, <1>5 DEF WritePrompt, Refused
  <2>2. Mends(server, server') /\ server'.gate = server.gate /\ OnlyAt(server.prompts, server'.prompts, p)
    BY <1>1, <1>3, <2>1, AfterRefusalIs
  <2> QED
    BY <1>2, <1>3, <2>1, <2>2, PromptMoves
<1> QED
  BY <1>4, <1>5

\* permissionAnswerAdapter after its first look at the screen.
LEMMA ResumesPrompt ==
  ASSUME GatesSafe, Foreseen, UNCHANGED <<hosted, route>>, NEW r \in Requests, NEW seen,
         ResumePrompt(r, seen)
  PROVE  GatesSafe'
<1>1. /\ ServerTypes /\ server \in ServerRec /\ RequestInv
      /\ server.prompts \in Seq(PromptRec) /\ req \in [Requests -> RequestRec]
  BY DEF GatesSafe, ServerInv, ServerTypes, ServerRec, RequestInv
<1>2. ByPrompt(r) /\ Reading(r) /\ req[r].pc = "reading"
  BY DEF ResumePrompt, ByPrompt, Reading
<1>3. PICK p : p = req[r].prompt
  OBVIOUS
<1>4. p \in 1..Len(server.prompts) /\ p \in Nat
  <2>1. p \in 1..Len(server.prompts)
    BY <1>1, <1>2, <1>3, NamedRecord DEF ByPrompt
  <2> QED
    BY <2>1
<1>5. CASE StillOpen(r, seen)
  <2>1. WritePrompt(r)
    BY <1>5 DEF ResumePrompt
  <2> QED
    BY <1>2, <2>1, WritesPrompt
<1>6. CASE ~StillOpen(r, seen) /\ server.gate.prompt = p
  <2>1. Become(r, "rereading", "none") /\ UNCHANGED server
    BY <1>3, <1>6 DEF ResumePrompt
  <2>2. PICK x \in RequestRec :
          /\ req' = [req EXCEPT ![r] = x] /\ req'[r] = x
          /\ x.pc = "rereading" /\ x.result = "none" /\ x.prompt = req[r].prompt
          /\ x.serial = req[r].serial
    BY <1>1, <2>1, BecomeIs DEF Places
  <2>3. Fine(r)'
    <3>1. Fine(r)
      BY <1>1 DEF RequestInv
    <3>2. TextIsHeld(r)'
      BY <1>2, <2>1, <2>2, <3>1 DEF Fine, TextIsHeld
    <3>3. ~Written(r)'
      BY <2>2 DEF Written
    <3>4. NamesRecord(r)'
      BY <1>3, <1>4, <2>1, <2>2, <3>3 DEF NamesRecord
    <3>5. (Legacy)' <=> Legacy
      BY DEF Legacy, Used
    <3>6. IsMarked(r)'
      BY <1>2, <2>1, <2>2, <3>1, <3>5 DEF Fine, IsMarked, ByPrompt
    <3> QED
      BY <3>2, <3>3, <3>4, <3>6 DEF Fine, HasSettled
  <2> QED
    BY <1>2, <2>1, <2>2, <2>3, Moves
<1>7. CASE ~StillOpen(r, seen) /\ server.gate.prompt # p
  <2>1. server' = AfterRefusal(server, p, TRUE) /\ Become(r, "done", "refused")
    BY <1>3, <1>7 DEF ResumePrompt, Refused
  <2>2. Mends(server, server') /\ server'.gate = server.gate /\ OnlyAt(server.prompts, server'.prompts, p)
    BY <1>1, <1>4, <2>1, AfterRefusalIs
  <2> QED
    BY <1>2, <1>3, <1>4, <2>1, <2>2, PromptMoves
<1> QED
  BY <1>5, <1>6, <1>7

\* ... and after its second.
LEMMA ResumesPromptAgain ==
  ASSUME GatesSafe, Foreseen, UNCHANGED <<hosted, route>>, NEW r \in Requests, NEW seen,
         ResumePromptAgain(r, seen)
  PROVE  GatesSafe'
<1>1. /\ ServerTypes /\ server \in ServerRec /\ RequestInv
      /\ server.prompts \in Seq(PromptRec)
  BY DEF GatesSafe, ServerInv, ServerTypes, ServerRec
<1>2. ByPrompt(r) /\ Reading(r)
  BY DEF ResumePromptAgain, ByPrompt, Reading
<1>3. PICK p : p = req[r].prompt
  OBVIOUS
<1>4. p \in 1..Len(server.prompts) /\ p \in Nat
  <2>1. p \in 1..Len(server.prompts)
    BY <1>1, <1>2, <1>3, NamedRecord DEF ByPrompt
  <2> QED
    BY <2>1
<1>5. PICK sv : sv = IF seen = None /\ server.gate.prompt = p THEN Dropped(server, server.prompts)
                     ELSE server
  OBVIOUS
<1>6. server' = AfterRefusal(sv, p, TRUE) /\ Become(r, "done", "refused")
  BY <1>3, <1>5 DEF ResumePromptAgain, Refused
<1>7. /\ Mends(server, sv) /\ sv.prompts = server.prompts
      /\ sv.gate = server.gate \/ (sv.gate = NoGate /\ server.gate.prompt = p)
  <2>1. CASE sv = server
    BY <1>1, <2>1, MendsSelf
  <2>2. CASE sv = Dropped(server, server.prompts) /\ server.gate.prompt = p
    BY <1>1, <2>2, AgedSelf, GateTaken
  <2> QED
    BY <1>5, <2>1, <2>2
<1>8. sv \in ServerRec
  BY <1>7 DEF Mends
<1>9. /\ Mends(sv, server') /\ server'.gate = sv.gate /\ OnlyAt(sv.prompts, server'.prompts, p)
      /\ ~Live(server'.prompts, p)
  BY <1>4, <1>6, <1>7, <1>8, AfterRefusalIs
<1>10. Mends(server, server')
  BY <1>1, <1>7, <1>9, MendsTwice
<1> QED
  BY <1>2, <1>3, <1>4, <1>6, <1>7, <1>9, <1>10, PromptMoves

\* handlePermissionAnswer after its await.
LEMMA ResumesLegacy ==
  ASSUME GatesSafe, Foreseen, UNCHANGED <<hosted, route>>, NEW r \in Requests, NEW seen,
         ResumeLegacy(r, seen)
  PROVE  GatesSafe'
<1>1. /\ ServerTypes /\ server \in ServerRec /\ RequestInv /\ server.gate.prompt \in Nat
      /\ server.prompts \in Seq(PromptRec) /\ Len(server.prompts) \in Nat
  BY DEF GatesSafe, ServerInv, ServerTypes, ServerRec, GateRec
<1>2. ~ByPrompt(r) /\ Reading(r) /\ route[r] # "text" /\ Legacy
  BY DEF ResumeLegacy, ByPrompt, Reading, Legacy, Used
<1>3. PICK p : p = req[r].prompt
  OBVIOUS
<1>4. p \in 1..Len(server.prompts) /\ p \in Nat
  <2>1. p \in 1..Len(server.prompts)
    BY <1>1, <1>2, <1>3, NamedRecord
  <2> QED
    BY <2>1
<1>5. CASE StillOpen(r, seen) /\ server.ended
  <2>1. server' = AfterRefusal(server, p, FALSE) /\ Become(r, "done", "refused")
    BY <1>3, <1>5 DEF ResumeLegacy, WriteLegacy, Refused
  <2>2. Mends(server, server') /\ server'.gate = server.gate /\ OnlyAt(server.prompts, server'.prompts, p)
    BY <1>1, <1>4, <2>1, AfterRefusalIs
  <2>3. server'.ended
    BY <1>5, <2>2 DEF Mends
  <2>4. \A q \in 1..Len(server.prompts) :
          q # p => server'.prompts[q].answering = server.prompts[q].answering
    BY <2>2 DEF OnlyAt
  <2> QED
    BY <1>2, <1>4, <2>1, <2>2, <2>3, <2>4, OtherMoves
<1>6. CASE StillOpen(r, seen) /\ ~server.ended
  <2>1. PICK mk : mk = [server EXCEPT !.prompts[p].answering = TRUE]
    OBVIOUS
  <2>2. PICK ps : ps = Marked(server.prompts, p)
    OBVIOUS
  <2>3. Aged(server.prompts, ps) /\ OnlyAt(server.prompts, ps, p)
    BY <1>1, <1>4, <2>2, MarkedIs
  <2>4. mk = [server EXCEPT !.prompts = ps] /\ ps \in Seq(PromptRec) /\ Len(ps) = Len(server.prompts)
    BY <2>1, <2>2, <2>3 DEF Aged, Marked
  <2>5. Mends(server, mk) /\ mk.prompts = ps /\ mk.gate = server.gate
    BY <1>1, <2>3, <2>4, PromptsPut
  <2>6. mk \in ServerRec
    BY <2>5 DEF Mends
  <2>7. PICK sv : sv = ServerAfterKeys(mk, Keys(r))
    OBVIOUS
  <2>8. server' = AfterWrite(sv, p, "resolved") /\ Become(r, "done", "written")
    BY <1>3, <1>6, <2>1, <2>7 DEF ResumeLegacy, WriteLegacy
  <2>9. sv = mk \/ (sv = CloseGate(mk) /\ ~hosted)
    BY <2>6, <2>7, AfterKeysIs
  <2>10. /\ Mends(mk, sv)
         /\ sv.gate = mk.gate \/ (sv.gate = NoGate /\ ~hosted)
         /\ \A q \in 1..Len(mk.prompts) : sv.prompts[q].answering = mk.prompts[q].answering
    <3>1. CASE sv = mk
      BY <2>6, <3>1, MendsSelf
    <3>2. CASE sv = CloseGate(mk) /\ ~hosted
      BY <2>6, <3>2, CloseGateIs
    <3> QED
      BY <2>9, <3>1, <3>2
  <2>11. sv \in ServerRec /\ Len(sv.prompts) = Len(server.prompts)
    BY <2>4, <2>5, <2>10 DEF Mends, Aged
  <2>12. /\ Mends(sv, server') /\ server'.gate = sv.gate /\ OnlyAt(sv.prompts, server'.prompts, p)
         /\ ~Live(server'.prompts, p)
    BY <1>4, <2>8, <2>11, AfterWriteIs
  <2>13. Mends(mk, server')
    BY <2>6, <2>10, <2>12, MendsTwice
  <2>14. Mends(server, server')
    BY <1>1, <2>5, <2>13, MendsTwice
  <2>15. ASSUME NEW q \in 1..Len(server.prompts), q # p
         PROVE  server'.prompts[q].answering = server.prompts[q].answering
    <3>1. server'.prompts[q] = sv.prompts[q]
      BY <2>11, <2>12, <2>15 DEF OnlyAt
    <3>2. sv.prompts[q].answering = ps[q].answering
      BY <2>4, <2>5, <2>10
    <3>3. ps[q] = server.prompts[q]
      BY <2>3, <2>15 DEF OnlyAt
    <3> QED
      BY <3>1, <3>2, <3>3
  <2> QED
    BY <1>2, <1>4, <2>5, <2>8, <2>10, <2>12, <2>14, <2>15, OtherMoves
<1>7. CASE ~StillOpen(r, seen)
  <2>1. PICK ps : ps = Transitioned(server.prompts, server.gate.prompt, "cancelled")
    OBVIOUS
  <2>2. server' = Dropped(server, ps) /\ Become(r, "done", "refused")
    BY <1>7, <2>1 DEF ResumeLegacy, Refused
  <2>3. "cancelled" \in States \ {"open"}
    BY DEF States
  <2>4. /\ Aged(server.prompts, ps) /\ OnlyAt(server.prompts, ps, server.gate.prompt)
        /\ server.gate.prompt \in 1..Len(server.prompts) =>
             /\ ~Live(ps, server.gate.prompt)
             /\ ps[server.gate.prompt].answering = server.prompts[server.gate.prompt].answering
    BY <1>1, <2>1, <2>3, TransitionedIs
  <2>5. ps \in Seq(PromptRec)
    BY <2>4 DEF Aged
  <2>6. Mends(server, server') /\ server'.prompts = ps /\ server'.gate = NoGate
    BY <1>1, <2>2, <2>4, <2>5, GateTaken
  <2>7. \A q \in 1..Len(server.prompts) : server'.prompts[q].answering = server.prompts[q].answering
    BY <2>4, <2>6 DEF OnlyAt
  <2>8. server.gate.prompt = 0 \/ ~Live(server'.prompts, server.gate.prompt)
    <3>1. ServerTypes
      BY <1>1
    <3>2. server.gate.prompt # 0 => server.gate.prompt \in 1..Len(server.prompts)
      BY <1>1 DEF ServerTypes
    <3> QED
      BY <2>4, <2>6, <3>2
  <2> QED
    BY <1>2, <2>2, <2>6, <2>7, <2>8, OtherMoves
<1> QED
  BY <1>5, <1>6, <1>7

\* handleRawKey after its await: whatever is pending goes, announced again or not.
LEMMA ResumesRawKey ==
  ASSUME GatesSafe, Foreseen, UNCHANGED <<hosted, route>>, NEW r \in Requests, NEW seen,
         ResumeRawKey(r, seen)
  PROVE  GatesSafe'
<1>1. /\ ServerTypes /\ server \in ServerRec /\ RequestInv /\ server.prompts \in Seq(PromptRec)
  BY DEF GatesSafe, ServerInv, ServerTypes, ServerRec
<1>2. ~ByPrompt(r) /\ Reading(r) /\ route[r] # "text" /\ RawKeys
  BY DEF ResumeRawKey, ByPrompt, Reading, RawKeys, Used
<1>3. PICK p : p = req[r].prompt
  OBVIOUS
<1>4. p \in 1..Len(server.prompts) /\ p \in Nat
  <2>1. p \in 1..Len(server.prompts)
    BY <1>1, <1>2, <1>3, NamedRecord
  <2> QED
    BY <2>1
<1>5. ASSUME NEW sv, Mends(server, sv),
             \A q \in 1..Len(server.prompts) : sv.prompts[q].answering = server.prompts[q].answering,
             NEW state \in {"resolved", "cancelled"},
             server' = Dropped(sv, Transitioned(sv.prompts, p, state)),
             NEW result \in {"written", "refused"}, Become(r, "done", result)
      PROVE  GatesSafe'
  <2>1. sv \in ServerRec /\ sv.prompts \in Seq(PromptRec) /\ Len(sv.prompts) = Len(server.prompts)
    BY <1>5 DEF Mends, Aged
  <2>2. PICK ps : ps = Transitioned(sv.prompts, p, state)
    OBVIOUS
  <2>3. state \in States \ {"open"}
    BY DEF States
  <2>4. /\ Aged(sv.prompts, ps) /\ OnlyAt(sv.prompts, ps, p) /\ ps[p].answering = sv.prompts[p].answering
    BY <1>4, <2>1, <2>2, <2>3, TransitionedIs
  <2>5. ps \in Seq(PromptRec)
    BY <2>4 DEF Aged
  <2>6. Mends(sv, server') /\ server'.prompts = ps /\ server'.gate = NoGate
    BY <1>5, <2>1, <2>2, <2>4, <2>5, GateTaken
  <2>7. Mends(server, server')
    BY <1>1, <1>5, <2>6, MendsTwice
  <2>8. ASSUME NEW q \in 1..Len(server.prompts)
        PROVE  server'.prompts[q].answering = server.prompts[q].answering
    <3>1. ps[q].answering = sv.prompts[q].answering
      BY <2>1, <2>4 DEF OnlyAt
    <3> QED
      BY <1>5, <2>6, <3>1
  <2> QED
    BY <1>2, <1>5, <2>6, <2>7, <2>8, OtherMoves
<1>6. Mends(server, server)
  BY <1>1, MendsSelf
<1>7. CASE StillOpen(r, seen) /\ ~server.ended
  <2>1. PICK sv : sv = ServerAfterKeys(server, Keys(r))
    OBVIOUS
  <2>2. PICK state : state = IF route[r] = "enter" THEN "resolved" ELSE "cancelled"
    OBVIOUS
  <2>3. server' = Dropped(sv, Transitioned(sv.prompts, p, state)) /\ Become(r, "done", "written")
    BY <1>3, <1>7, <2>1, <2>2 DEF ResumeRawKey, WriteRawKey
  <2>4. sv = server \/ sv = CloseGate(server)
    BY <1>1, <2>1, AfterKeysIs
  <2>5. /\ Mends(server, sv)
        /\ \A q \in 1..Len(server.prompts) : sv.prompts[q].answering = server.prompts[q].answering
    <3>1. CASE sv = server
      BY <1>6, <3>1
    <3>2. CASE sv = CloseGate(server)
      BY <1>1, <3>2, CloseGateIs
    <3> QED
      BY <2>4, <3>1, <3>2
  <2>6. state \in {"resolved", "cancelled"}
    BY <2>2
  <2> QED
    BY <1>5, <2>3, <2>5, <2>6
<1>8. CASE UNCHANGED server /\ Refused(r)
  <2>1. Become(r, "done", "refused") /\ server' = server
    BY <1>8 DEF Refused
  <2> QED
    BY <1>2, <1>6, <2>1, OtherMoves
<1>9. CASE ~StillOpen(r, seen) /\ server.gate.prompt = p
  <2>1. server' = Dropped(server, Transitioned(server.prompts, p, "cancelled"))
    BY <1>3, <1>9 DEF ResumeRawKey
  <2>2. Become(r, "done", "refused")
    BY <1>9 DEF ResumeRawKey, Refused
  <2> QED
    BY <1>5, <1>6, <2>1, <2>2
<1>10. CASE ~StillOpen(r, seen) /\ server.gate.prompt # p
  BY <1>3, <1>8, <1>10 DEF ResumeRawKey
<1>11. StillOpen(r, seen) /\ server.ended => UNCHANGED server /\ Refused(r)
  BY DEF ResumeRawKey, WriteRawKey
<1> QED
  BY <1>7, <1>8, <1>9, <1>10, <1>11

\* handleSendInput: a gate without a record, if it is the one that was found.
LEMMA ResumesText ==
  ASSUME GatesSafe, Foreseen, UNCHANGED <<hosted, route>>, NEW r \in Requests, NEW seen,
         ResumeText(r, seen)
  PROVE  GatesSafe'
<1>1. /\ ServerTypes /\ server \in ServerRec /\ RequestInv /\ server.prompts \in Seq(PromptRec)
  BY DEF GatesSafe, ServerInv, ServerTypes, ServerRec
<1>2. ~ByPrompt(r) /\ Reading(r) /\ route[r] = "text"
  BY DEF ResumeText, ByPrompt, Reading
<1>3. PICK result \in {"written", "refused"} : Become(r, "done", result)
  BY DEF ResumeText, WriteText, Refused
<1>4. server' = server \/ (server' = Dropped(server, server.prompts) /\ server.gate.serial = req[r].serial)
  BY DEF ResumeText
<1>5. CASE server' = server
  <2>1. Mends(server, server')
    BY <1>1, <1>5, MendsSelf
  <2> QED
    BY <1>2, <1>3, <1>5, <2>1, OtherMoves
<1>6. CASE server' = Dropped(server, server.prompts) /\ server.gate.serial = req[r].serial
  <2>1. Mends(server, server') /\ server'.prompts = server.prompts /\ server'.gate = NoGate
    BY <1>1, <1>6, AgedSelf, GateTaken
  <2>2. server.gate.prompt = 0
    BY <1>1, <1>2, <1>6 DEF RequestInv, Fine, TextIsHeld
  <2> QED
    BY <1>2, <1>3, <2>1, <2>2, OtherMoves
<1> QED
  BY <1>4, <1>5, <1>6

LEMMA Resumes ==
  ASSUME GatesSafe, Foreseen, UNCHANGED <<hosted, route>>, NEW r \in Requests, NEW seen, Resume(r, seen)
  PROVE  GatesSafe'
  BY ResumesPrompt, ResumesPromptAgain, ResumesLegacy, ResumesRawKey, ResumesText DEF Resume

\* What a route leaves of the runner.
LEMMA RunnerAfterRoute ==
  ASSUME RunnerTypes, UNCHANGED agent,
         NothingSent \/ \E k : Sent(k)
  PROVE  RunnerTypes'
<1>1. runner' \in {runner, [runner EXCEPT !.open = None]}
  BY DEF NothingSent, Sent, RunnerAfter
<1> QED
  BY <1>1 DEF RunnerTypes, Views

LEMMA ResumeSends ==
  ASSUME NEW r, NEW seen, Resume(r, seen)
  PROVE  NothingSent \/ \E k : Sent(k)
  BY DEF Resume, ResumePrompt, ResumePromptAgain, ResumeLegacy, ResumeRawKey, ResumeText,
         WritePrompt, WriteLegacy, WriteRawKey, WriteText

-----------------------------------------------------------------------------
(* The invariant.                                                          *)

LEMMA GatesStart ==
  ASSUME Init
  PROVE  GatesIInv
<1> USE DEF Init
<1>1. SetupTypes
  BY DEF SetupTypes
<1>2. RunnerTypes
  BY DialogsAssumption DEF DialogsAssumption, RunnerTypes, Views
<1>3. QueueInv
  <2>1. HostTypes
    BY DEF HostTypes, Views
  <2>2. QueueTypes
    BY DEF QueueTypes, IsList
  <2>3. HostedOnly /\ InOrder
    BY DEF HostedOnly, InOrder
  <2> QED
    BY <2>1, <2>2, <2>3 DEF QueueInv
<1>4. /\ server.gate = NoGate /\ server.prompts = <<>> /\ server.serial = 0 /\ server.told = 0
      /\ server.ended = FALSE /\ server.threw = FALSE
      /\ NoGate.prompt = 0 /\ NoGate.occ = 0 /\ NoGate.serial = 0 /\ Len(server.prompts) = 0
  BY DEF NoGate
<1>5. ServerTypes
  <2>1. PICK g \in GateRec : g = NoGate
    BY NoGateTyped
  <2>2. <<>> \in Seq(PromptRec)
    OBVIOUS
  <2>3. 0 \in 0..Dialogs
    BY DialogsAssumption DEF DialogsAssumption
  <2>4. server = [gate |-> g, prompts |-> <<>>, serial |-> 0, told |-> 0, ended |-> FALSE, threw |-> FALSE]
    BY <2>1
  <2>5. server \in ServerRec
    BY <2>2, <2>3, <2>4 DEF ServerRec
  <2> QED
    BY <1>4, <2>5 DEF ServerTypes
<1>6. ServerInv
  BY <1>4, <1>5 DEF ServerInv, Unhosted, RecordOfGate, GateFollows, Orphans, NeverThrew
<1>7. RequestInv
  <2>1. req \in [Requests -> RequestRec]
    BY DEF RequestRec, Places, Views
  <2>2. \A r \in Requests : req[r].pc = "idle" /\ req[r].result = "none"
    OBVIOUS
  <2>3. \A r \in Requests : ~Reading(r) /\ ~Written(r)
    BY <2>2 DEF Reading, Written
  <2>4. AnsweredOnce
    BY <2>2 DEF AnsweredOnce
  <2> QED
    BY <2>1, <2>3, <2>4 DEF RequestInv, Fine, TextIsHeld, NamesRecord, IsMarked, HasSettled, Apart
<1> QED
  BY <1>1, <1>2, <1>3, <1>6, <1>7 DEF GatesIInv, GatesSafe

\* The agent's own steps.
LEMMA AgentKeeps ==
  ASSUME GatesIInv, UNCHANGED setup,
         \/ Raise \/ Paint \/ Dismiss \/ Erase \/ ReadKeys
         \/ \E notify \in {"chunk", "permission", "waiting"} : BeginPass(notify)
  PROVE  Kept /\ RunnerTypes'
<1>1. QueueInv /\ GatesSafe /\ RunnerTypes
  BY DEF GatesIInv
<1>2. UNCHANGED <<req, up, host, server>>
  BY DEF Raise, Paint, Dismiss, Erase, ReadKeys, BeginPass
<1>3. Kept
  BY <1>1, <1>2, Silence
<1>8. 0 \in 0..Dialogs
  BY DialogsAssumption DEF DialogsAssumption
<1>4. CASE Raise
  <2>1. agent.last + 1 \in 0..Dialogs
    BY <1>1, <1>4, DialogsAssumption DEF DialogsAssumption, Raise, RunnerTypes
  <2> QED
    BY <1>1, <1>3, <1>4, <2>1 DEF Raise, RunnerTypes
<1>5. CASE Paint \/ Dismiss \/ Erase
  <2>1. \/ agent' = [agent EXCEPT !.filled = TRUE] \/ agent' = [agent EXCEPT !.asking = 0]
        \/ agent' = [agent EXCEPT !.painted = 0, !.filled = FALSE]
    BY <1>5 DEF Paint, Dismiss, Erase
  <2>2. UNCHANGED runner
    BY <1>5 DEF Paint, Dismiss, Erase
  <2> QED
    BY <1>1, <1>3, <1>8, <2>1, <2>2 DEF RunnerTypes
<1>6. CASE ReadKeys
  <2>1. PICK b \in BOOLEAN : agent' = [agent EXCEPT !.asking = 0, !.hit = b]
    BY <1>6 DEF ReadKeys
  <2>2. UNCHANGED runner
    BY <1>6 DEF ReadKeys
  <2> QED
    BY <1>1, <1>3, <1>8, <2>1, <2>2 DEF RunnerTypes
<1>7. ASSUME NEW notify \in {"chunk", "permission", "waiting"}, BeginPass(notify)
      PROVE  RunnerTypes'
  <2>1. PICK b \in BOOLEAN : agent' = [agent EXCEPT !.osc = b]
    BY <1>1, <1>7 DEF BeginPass, RunnerTypes
  <2> QED
    BY <1>1, <1>7, <2>1 DEF BeginPass, RunnerTypes
<1> QED
  BY <1>3, <1>4, <1>5, <1>6, <1>7

\* The server takes a message.
LEMMA DeliverKeeps ==
  ASSUME GatesIInv, Deliver, UNCHANGED setup
  PROVE  Kept /\ RunnerTypes'
<1>1. QueueInv /\ GatesSafe /\ RunnerTypes /\ UNCHANGED <<hosted, route, agent, host>>
  BY DEF GatesIInv, Deliver, setup
<1>2. up # <<>> /\ up' = Tail(up)
  BY DEF Deliver
<1>3. /\ QueueTypes' /\ InOrder' /\ Foreseen /\ Message(Head(up)) /\ Head(up) = up[1]
      /\ \A k \in Nat : Follows(k, 1) => Follows(k, 0)'
      /\ up[1].ev = "gone" => \A k \in Nat : Follows(k, 0) => Ahead(k)'
      /\ up[1].ev = "gate" => Follows(up[1].occ, 1)
      /\ up[1].ev = "gate" => \A k \in Nat : Follows(k, 0) => up[1].occ >= k
      /\ up[1].ev = "gate" => \A k \in Nat : Ahead(k) => up[1].occ > k
  BY <1>1, <1>2, Taking
<1>4. hosted
  BY <1>1, <1>2 DEF QueueInv, HostedOnly
<1>5. QueueInv'
  BY <1>1, <1>3, <1>4 DEF QueueInv, HostTypes, HostedOnly
<1>6. PICK m : m = Head(up)
  OBVIOUS
<1>7. CASE m.ev = "gate" /\ server' = ShowGate(server, m.view, m.occ, m.dialog) /\ UNCHANGED req /\ NothingSent
  <2>1. PICK occ \in Nat \ {0} : occ = m.occ
    BY <1>3, <1>6, <1>7 DEF Message
  <2>2. m.view \in Views \ {None} /\ m.dialog \in 0..Dialogs
    BY <1>3, <1>6, <1>7 DEF Message
  <2>3. Follows(occ, 0)'
    BY <1>3, <1>6, <1>7, <2>1
  <2>4. Announced(occ)
    BY <1>3, <1>4, <1>6, <1>7, <2>1, <2>3 DEF Announced
  <2>5. GatesSafe'
    BY <1>1, <1>3, <1>7, <2>1, <2>2, <2>4, Shows
  <2> QED
    BY <1>1, <1>3, <1>5, <1>7, <2>5, RunnerAfterRoute DEF Kept
<1>8. CASE m.ev = "gone" /\ server' = CloseGate(server) /\ UNCHANGED req /\ NothingSent
  <2>1. GatesSafe'
    BY <1>1, <1>3, <1>6, <1>8, Closes
  <2> QED
    BY <1>1, <1>3, <1>5, <1>8, <2>1, RunnerAfterRoute DEF Kept
<1>9. CASE m.ev = "exit" /\ server' = EndSession(server) /\ UNCHANGED req /\ NothingSent
  <2>1. GatesSafe'
    BY <1>1, <1>3, <1>9, Ends
  <2> QED
    BY <1>1, <1>3, <1>5, <1>9, <2>1, RunnerAfterRoute DEF Kept
<1>10. CASE m.ev = "screen" /\ Resume(m.to, m.seen)
  <2>1. m.to \in Requests
    BY <1>3, <1>6, <1>10 DEF Message
  <2>2. GatesSafe'
    BY <1>1, <1>3, <1>10, <2>1, Resumes
  <2> QED
    BY <1>1, <1>3, <1>5, <1>10, <2>2, ResumeSends, RunnerAfterRoute DEF Kept
<1> QED
  BY <1>6, <1>7, <1>8, <1>9, <1>10 DEF Deliver

\* The clients' requests.
LEMMA BeginKeeps ==
  ASSUME GatesIInv, NEW r \in Requests, Begin(r), UNCHANGED setup
  PROVE  Kept /\ RunnerTypes'
<1>1. QueueInv /\ GatesSafe /\ RunnerTypes /\ UNCHANGED <<hosted, route, agent, host, up>>
  BY DEF GatesIInv, Begin, setup
<1>2. QueueInv' /\ Foreseen
  BY <1>1, QueueStill
<1>3. RunnerTypes'
  <2>1. NothingSent \/ \E k : Sent(k)
    BY DEF Begin, BeginText, WriteText
  <2> QED
    BY <1>1, <2>1, RunnerAfterRoute
<1>4. \/ \E p \in 1..Len(server.prompts) : BeginPrompt(r, p)
      \/ \E p \in 1..Len(server.prompts) : BeginLegacy(r, p) \/ BeginRawKey(r, p)
      \/ BeginText(r)
  BY DEF Begin
<1>5. CASE \E p \in 1..Len(server.prompts) : BeginPrompt(r, p)
  <2>1. req[r].pc = "idle"
    BY DEF Begin
  <2>2. GatesSafe'
    BY <1>1, <1>2, <1>5, <2>1, BeginsPrompt
  <2> QED
    BY <1>2, <1>3, <2>2 DEF Kept
<1>6. CASE \/ \E p \in 1..Len(server.prompts) : BeginLegacy(r, p) \/ BeginRawKey(r, p)
           \/ BeginText(r)
  <2>1. GatesSafe'
    BY <1>1, <1>2, <1>6, BeginsOther
  <2> QED
    BY <1>2, <1>3, <2>1 DEF Kept
<1> QED
  BY <1>4, <1>5, <1>6

LEMMA ReadKeeps ==
  ASSUME GatesIInv, NEW r \in Requests, ReadScreen(r), UNCHANGED setup
  PROVE  Kept /\ RunnerTypes'
<1>1. QueueInv /\ GatesSafe /\ RunnerTypes /\ UNCHANGED <<hosted, route, agent, host>>
  BY DEF GatesIInv, ReadScreen, setup
<1>2. CASE hosted
  <2>1. NothingSent
    BY <1>2 DEF ReadScreen
  <2> QED
    BY <1>1, <1>2, <2>1, SendsScreen, RunnerAfterRoute
<1>3. CASE ~hosted
  <2>1. Resume(r, Seen) /\ UNCHANGED up
    BY <1>3 DEF ReadScreen
  <2>2. QueueInv' /\ Foreseen
    BY <1>1, <2>1, QueueStill
  <2>3. GatesSafe'
    BY <1>1, <2>1, <2>2, Resumes
  <2>4. RunnerTypes'
    BY <1>1, <2>1, ResumeSends, RunnerAfterRoute
  <2> QED
    BY <2>2, <2>3, <2>4 DEF Kept
<1> QED
  BY <1>2, <1>3

LEMMA GatesStep ==
  ASSUME GatesIInv, [Next]_vars
  PROVE  GatesIInv'
<1>1. QueueInv /\ GatesSafe /\ RunnerTypes /\ SetupTypes /\ UNCHANGED setup
  BY DEF GatesIInv, Next, vars
<1>2. SetupTypes'
  BY <1>1 DEF SetupTypes, setup
<1>3. CASE UNCHANGED vars
  <2>1. UNCHANGED <<agent, runner, req, up, host, server>>
    BY <1>3 DEF vars
  <2>2. Kept
    BY <1>1, <2>1, Silence
  <2> QED
    BY <1>1, <1>2, <2>1, <2>2 DEF Kept, GatesIInv, RunnerTypes
<1>4. CASE Step
  <2> SUFFICES Kept /\ RunnerTypes'
    BY <1>2 DEF Kept, GatesIInv
  <2>1. CASE \/ Raise \/ Paint \/ Dismiss \/ Erase \/ ReadKeys
             \/ \E notify \in {"chunk", "permission", "waiting"} : BeginPass(notify)
    BY <1>1, <2>1, AgentKeeps
  <2>2. CASE EndPass
    BY <1>1, <2>2, PassKeeps
  <2>3. CASE HostKeys
    BY <1>1, <2>3, KeysKeep
  <2>4. CASE Exit
    <3>1. agent' = [agent EXCEPT !.alive = FALSE, !.asking = 0]
          /\ runner' = [runner EXCEPT !.open = None, !.closed = None]
      BY <2>4 DEF Exit
    <3>2. 0 \in 0..Dialogs
      BY DialogsAssumption DEF DialogsAssumption
    <3>3. RunnerTypes'
      BY <1>1, <3>1, <3>2 DEF RunnerTypes, Views
    <3> QED
      BY <1>1, <2>4, <3>3, ExitKeeps DEF GatesIInv
  <2>5. CASE Deliver
    BY <1>1, <2>5, DeliverKeeps
  <2>6. CASE \E r \in Requests : Begin(r) \/ ReadScreen(r)
    BY <1>1, <2>6, BeginKeeps, ReadKeeps
  <2> QED
    BY <1>4, <2>1, <2>2, <2>3, <2>4, <2>5, <2>6 DEF Step
<1> QED
  BY <1>3, <1>4 DEF Next

LEMMA GatesImply ==
  ASSUME GatesIInv
  PROVE  GatesInv
<1>1. /\ ServerTypes /\ server.prompts \in Seq(PromptRec) /\ RequestInv /\ QueueInv /\ RunnerTypes
      /\ server.gate \in GateRec /\ Len(server.prompts) \in Nat /\ NeverThrew
  BY DEF GatesIInv, GatesSafe, ServerInv, ServerTypes, ServerRec
<1>2. server.gate \in [view : Views, prompt : 0..Len(server.prompts), occ : Nat, serial : Nat]
  BY <1>1 DEF ServerTypes, GateRec
<1>3. \A p \in 1..Len(server.prompts) : server.prompts[p] \in PromptRec
  BY <1>1
<1>4. \A r \in Requests : /\ req[r].pc \in {"idle", "reading", "rereading", "done"}
                          /\ req[r].result \in {"none", "written", "refused"}
  BY <1>1 DEF RequestInv, RequestRec, Places
<1>5. TypeOK
  BY <1>1, <1>2, <1>3, <1>4 DEF TypeOK, PromptRec, States, RunnerTypes, QueueInv, HostTypes
<1>6. AnnouncementNeverThrows
  BY <1>1 DEF NeverThrew, RawKeys, AnnouncementNeverThrows
<1>7. AcceptedIsResolved
  BY <1>1 DEF RequestInv, Fine, HasSettled, Legacy, AcceptedIsResolved, ByPrompt, Written
<1>8. AnsweredOnce
  BY <1>1 DEF RequestInv
<1> QED
  BY <1>5, <1>6, <1>7, <1>8 DEF GatesInv

\* Permission gates, however long the agent asks and whatever answers interleave: no
\* announcement throws (but behind raw keys), an accepted answer resolved its prompt, and
\* no prompt is answered twice (handlePermissionChange, performAnswer).
THEOREM GatesHold == Spec => []GatesInv
<1>1. Init => GatesIInv
  BY GatesStart
<1>2. GatesIInv /\ [Next]_vars => GatesIInv'
  BY GatesStep
<1>3. GatesIInv => GatesInv
  BY GatesImply
<1> QED
  BY <1>1, <1>2, <1>3, PTL DEF Spec

-----------------------------------------------------------------------------
(* What a request does to gates it was not meant for.                      *)

\* An answer is written while its gate is pending.
Meant(r) ==
  route[r] = "prompt" /\ req[r].result # "written" /\ req'[r].result = "written"
    => server.gate.prompt = req[r].prompt

\* A gate that goes as a request moves is the one it names.
OwnGate(r) ==
  (/\ route[r] \in {"text", "prompt"}
   /\ Reading(r) /\ req'[r] # req[r] /\ Pending /\ server'.gate # server.gate)
     => IF route[r] = "text" THEN server.gate.serial = req[r].serial
                             ELSE server.gate.prompt = req[r].prompt

LEMMA BecomesOnly ==
  ASSUME req \in [Requests -> RequestRec], NEW q \in Requests, NEW pc, NEW result,
         Become(q, pc, result)
  PROVE  req'[q].result = result /\ \A r \in Requests \ {q} : req'[r] = req[r]
<1>1. req[q] \in RequestRec
  OBVIOUS
<1>2. PICK x : x = [req[q] EXCEPT !.pc = pc, !.result = result]
  OBVIOUS
<1>3. x.result = result
  BY <1>1, <1>2 DEF RequestRec
<1>4. req' = [req EXCEPT ![q] = x]
  BY <1>2 DEF Become
<1> QED
  BY <1>3, <1>4

\* The refusal of an answer spares the gate.
LEMMA RefusalSpares ==
  ASSUME GatesSafe, NEW p, NEW terminal, server' = AfterRefusal(server, p, terminal)
  PROVE  server'.gate = server.gate
  BY DEF AfterRefusal, GatesSafe, ServerInv, ServerTypes, ServerRec

LEMMA PromptSpares ==
  ASSUME GatesSafe, NEW q \in Requests, NEW seen, ResumePrompt(q, seen) \/ ResumePromptAgain(q, seen)
  PROVE  /\ req'[q].result = "written" \/ server'.gate # server.gate
              => server.gate.prompt = req[q].prompt
         /\ \A r \in Requests \ {q} : req'[r] = req[r]
<1>1. req \in [Requests -> RequestRec]
  BY DEF GatesSafe, RequestInv
<1> DEFINE p == req[q].prompt
<1>2. CASE server.gate.prompt = p
  BY <1>1, <1>2, BecomesOnly
  DEF ResumePrompt, ResumePromptAgain, WritePrompt, Refused
<1>3. CASE server.gate.prompt # p
  <2>1. Refused(q) /\ \E terminal \in BOOLEAN : server' = AfterRefusal(server, p, terminal)
    BY <1>3 DEF ResumePrompt, ResumePromptAgain, WritePrompt
  <2>2. server'.gate = server.gate
    BY <2>1, RefusalSpares
  <2> QED
    BY <1>1, <2>1, <2>2, BecomesOnly DEF Refused
<1> QED
  BY <1>2, <1>3

LEMMA TextSpares ==
  ASSUME GatesSafe, NEW q \in Requests, NEW seen, ResumeText(q, seen)
  PROVE  /\ server'.gate # server.gate => server.gate.serial = req[q].serial
         /\ \A r \in Requests \ {q} : req'[r] = req[r]
<1>1. req \in [Requests -> RequestRec]
  BY DEF GatesSafe, RequestInv
<1>2. server'.gate # server.gate => server.gate.serial = req[q].serial
  BY DEF ResumeText
<1>3. Become(q, "done", "written") \/ Become(q, "done", "refused")
  BY DEF ResumeText, WriteText, Refused
<1> QED
  BY <1>1, <1>2, <1>3, BecomesOnly

LEMMA OthersSpare ==
  ASSUME GatesSafe, NEW q \in Requests, NEW seen, ResumeLegacy(q, seen) \/ ResumeRawKey(q, seen)
  PROVE  \A r \in Requests \ {q} : req'[r] = req[r]
<1>1. req \in [Requests -> RequestRec]
  BY DEF GatesSafe, RequestInv
<1>2. Become(q, "done", "written") \/ Become(q, "done", "refused")
  BY DEF ResumeLegacy, ResumeRawKey, WriteLegacy, WriteRawKey, Refused
<1> QED
  BY <1>1, <1>2, BecomesOnly

LEMMA ResumeSpares ==
  ASSUME GatesSafe, NEW q \in Requests, NEW seen, Resume(q, seen), NEW r \in Requests
  PROVE  Meant(r) /\ OwnGate(r)
<1>1. CASE ResumePrompt(q, seen) \/ ResumePromptAgain(q, seen)
  <2>1. route[q] = "prompt"
    BY <1>1 DEF ResumePrompt, ResumePromptAgain
  <2> QED
    BY <1>1, <2>1, PromptSpares DEF Meant, OwnGate
<1>2. CASE ResumeText(q, seen)
  <2>1. route[q] = "text"
    BY <1>2 DEF ResumeText
  <2> QED
    BY <1>2, <2>1, TextSpares DEF Meant, OwnGate
<1>3. CASE ResumeLegacy(q, seen) \/ ResumeRawKey(q, seen)
  <2>1. route[q] \in {"legacy", "enter", "escape"}
    BY <1>3 DEF ResumeLegacy, ResumeRawKey
  <2> QED
    BY <1>3, <2>1, OthersSpare DEF Meant, OwnGate
<1> QED
  BY <1>1, <1>2, <1>3 DEF Resume

\* A request that begins reads no screen yet, and an answer that does writes nothing.
LEMMA BeginSpares ==
  ASSUME GatesSafe, NEW q \in Requests, Begin(q), NEW r \in Requests
  PROVE  Meant(r) /\ OwnGate(r)
<1>1. req \in [Requests -> RequestRec] /\ ServerTypes /\ ~Reading(q)
  BY DEF GatesSafe, RequestInv, ServerInv, Begin, Reading
<1>2. \A p : Await(q, p) => req'[q].result = "none" /\ \A s \in Requests \ {q} : req'[s] = req[s]
  BY <1>1 DEF Await
<1>3. CASE \E p \in 1..Len(server.prompts) : BeginPrompt(q, p)
  <2>1. req'[q].result \in {"none", "refused"} /\ \A s \in Requests \ {q} : req'[s] = req[s]
    BY <1>1, <1>2, <1>3, BecomesOnly DEF BeginPrompt, Refused
  <2> QED
    BY <1>1, <2>1 DEF Meant, OwnGate
<1>4. CASE \/ \E p \in 1..Len(server.prompts) : BeginLegacy(q, p) \/ BeginRawKey(q, p)
           \/ BeginText(q)
  <2>1. route[q] # "prompt" /\ \A s \in Requests \ {q} : req'[s] = req[s]
    BY <1>1, <1>2, <1>4, BecomesOnly
    DEF BeginLegacy, BeginRawKey, BeginText, WriteText, Refused
  <2> QED
    BY <1>1, <2>1 DEF Meant, OwnGate
<1> QED
  BY <1>3, <1>4 DEF Begin

LEMMA StepSpares ==
  ASSUME GatesIInv, Next, NEW r \in Requests
  PROVE  Meant(r) /\ OwnGate(r)
<1>1. GatesSafe /\ QueueInv
  BY DEF GatesIInv
<1>2. CASE UNCHANGED req
  BY <1>2 DEF Meant, OwnGate
<1>3. CASE \E q \in Requests : Begin(q)
  BY <1>1, <1>3, BeginSpares
<1>4. CASE \E q \in Requests : ReadScreen(q)
  <2>1. (\E q \in Requests : Resume(q, Seen)) \/ UNCHANGED req
    BY <1>4 DEF ReadScreen
  <2> QED
    BY <1>1, <1>2, <2>1, ResumeSpares
<1>5. CASE Deliver
  <2>1. UNCHANGED req \/ (Head(up).ev = "screen" /\ Resume(Head(up).to, Head(up).seen))
    BY <1>5 DEF Deliver
  <2>2. up # <<>>
    BY <1>5 DEF Deliver
  <2>3. Message(Head(up))
    BY <1>1, <2>2 DEF QueueInv, QueueTypes, IsList
  <2>4. Head(up).ev = "screen" => Head(up).to \in Requests
    BY <2>3 DEF Message
  <2> QED
    BY <1>1, <1>2, <2>1, <2>4, ResumeSpares
<1> QED
  BY <1>2, <1>3, <1>4, <1>5
  DEF Next, Step, Raise, Paint, Dismiss, Erase, ReadKeys, BeginPass, EndPass, HostKeys, Exit

\* Whatever was announced, closed or answered while a request awaited the screen, an
\* answer is written only while its gate is the pending one, and neither an answer nor
\* composer text retires a gate but its own (permissionAnswerAdapter, handleSendInput).
THEOREM AnswersKeepToTheirs == Spec => AnswersSpareOtherGates
<1>1. Init => GatesIInv
  BY GatesStart
<1>2. GatesIInv /\ [Next]_vars => GatesIInv'
  BY GatesStep
<1>3. GatesIInv /\ [Next]_vars
        => [\A r \in Requests :
              (route[r] = "prompt" /\ req[r].result # "written" /\ req'[r].result = "written")
                => server.gate.prompt = req[r].prompt]_vars
  BY StepSpares DEF Meant
<1>4. GatesIInv /\ [Next]_vars
        => [\A r \in Requests :
              (/\ route[r] \in {"text", "prompt"}
               /\ Reading(r) /\ req'[r] # req[r] /\ Pending /\ server'.gate # server.gate)
                => IF route[r] = "text" THEN server.gate.serial = req[r].serial
                                        ELSE server.gate.prompt = req[r].prompt]_vars
  BY StepSpares DEF OwnGate
<1> QED
  BY <1>1, <1>2, <1>3, <1>4, PTL DEF Spec, AnswersSpareOtherGates, KeysGoToNamedPrompt, SparesOtherGates

-----------------------------------------------------------------------------
(* The question menus.                                                     *)

MenuNumbers == 0..Menus
MenuRecords == [state : {"open", "cancelled", "unavailable", "resolved"}, rev : Nat,
                source : {"screen", "transcript"}, minted : {"screen", "transcript"},
                menu : MenuNumbers, writing : BOOLEAN]
Questions == [id : {NoId, ScreenId} \cup MenuNumbers, look : Looks \cup {NoLook},
              origin : {"none", "pty", "jsonl"}, prompt : Nat]
Asks == [phase : {"idle", "looking", "refused", "accepted"}, prompt : Nat, rev : Nat,
         wrote : BOOLEAN]

MenuTypes ==
  /\ look \in [MenuNumbers -> Looks] /\ writer \in {"own", "foreign", "contended"}
  /\ menu \in [asks : MenuNumbers, painted : MenuNumbers, last : MenuNumbers]
  /\ menu.asks \in {0, menu.last} /\ menu.painted \in {0, menu.last}
  /\ detecting \in BOOLEAN /\ ended \in BOOLEAN
  /\ lastScreenQuestionKey \in Looks \cup {NoLook}
  /\ pendingQuestionKey \in Looks \cup {NoLook}
  /\ pendingQuestion \in Questions /\ prompts \in Seq(MenuRecords)
  /\ flushes \subseteq MenuNumbers /\ timers \subseteq MenuNumbers
  /\ answered \subseteq MenuNumbers
  /\ ask \in [Askers -> Asks]

\* What is pending has a live record, asks what the record's menu asked, and came from
\* the transcript only if the record did.
PendingIsTrue ==
  pendingQuestion # NoQuestion =>
    /\ LiveRecord(pendingQuestion.prompt)
    /\ pendingQuestionKey = pendingQuestion.look
    /\ pendingQuestion.look = look[prompts[pendingQuestion.prompt].menu]
    /\ pendingQuestion.origin = "pty" \/ prompts[pendingQuestion.prompt].minted = "transcript"

\* Only menus that were shown are known of, and all but the last are in the transcript.
MenusInTurn ==
  /\ \A p \in DOMAIN prompts : prompts[p].menu <= menu.last
  /\ \A m \in answered : m <= menu.last
  /\ \A m \in 1..menu.last : m = menu.last \/ m \in flushes

\* An answered menu that is still painted is known by its key, and nothing is pending.
AnsweredIsKnown ==
  writer # "foreign" /\ ~ended /\ menu.painted # 0 /\ menu.painted \in answered =>
    pendingQuestion = NoQuestion /\ pendingQuestionKey = look[menu.painted]

\* A request that looks at the screen names a record.
LookersNameRecords ==
  \A r \in Askers : ask[r].phase = "looking" => ask[r].prompt \in DOMAIN prompts

MenusIInv == MenuTypes /\ PendingIsTrue /\ MenusInTurn /\ AnsweredIsKnown /\ LookersNameRecords

\* A menu that was answered is still painted.
AnsweredOnScreen ==
  writer # "foreign" /\ ~ended /\ menu.painted # 0 /\ menu.painted \in answered

\* What a step may never do, as NoPhantomQuestion and ScreenQuestionKept state it.
ShowsNoPhantom ==
  Len(prompts') > Len(prompts) /\ writer # "foreign" /\ ~ended =>
    LET m == prompts'[Len(prompts')].menu IN ~(m \in answered /\ m = menu.painted)
KeepsScreenQuestion ==
  pendingQuestion # NoQuestion /\ pendingQuestion'.id >= 0 =>
    \/ prompts[pendingQuestion.prompt].minted = "transcript"
    \/ pendingQuestion'.look = pendingQuestion.look

MenusGoOn == MenusIInv' /\ ShowsNoPhantom /\ KeepsScreenQuestion

-----------------------------------------------------------------------------
(* The records.                                                            *)

RecordStates == {"open", "cancelled", "unavailable", "resolved"}

\* The same records, of which only the state, the revision and the writer changed.
SameMenus(s, t) ==
  /\ t \in Seq(MenuRecords) /\ Len(t) = Len(s)
  /\ \A q \in 1..Len(s) : t[q].menu = s[q].menu /\ t[q].minted = s[q].minted

LEMMA RecordFields ==
  ASSUME NEW x \in MenuRecords, NEW st \in RecordStates, NEW b \in BOOLEAN
  PROVE  /\ [x EXCEPT !.state = st] \in MenuRecords
         /\ [x EXCEPT !.state = st].menu = x.menu /\ [x EXCEPT !.state = st].minted = x.minted
         /\ [x EXCEPT !.writing = b] \in MenuRecords
         /\ [x EXCEPT !.writing = b].menu = x.menu /\ [x EXCEPT !.writing = b].minted = x.minted
         /\ [x EXCEPT !.writing = b].state = x.state
         /\ [x EXCEPT !.state = st, !.writing = b] \in MenuRecords
         /\ [x EXCEPT !.state = st, !.writing = b].menu = x.menu
         /\ [x EXCEPT !.state = st, !.writing = b].minted = x.minted
  BY Zenon DEF MenuRecords, RecordStates

LEMMA SameOf ==
  ASSUME NEW s \in Seq(MenuRecords), NEW t, DOMAIN t = DOMAIN s, t = [q \in DOMAIN t |-> t[q]],
         \A q \in 1..Len(s) :
           t[q] \in MenuRecords /\ t[q].menu = s[q].menu /\ t[q].minted = s[q].minted
  PROVE  SameMenus(s, t)
<1>1. DOMAIN t = 1..Len(s) /\ Len(s) \in Nat
  OBVIOUS
<1>2. t \in [1..Len(s) -> MenuRecords]
  BY <1>1
<1>3. t \in Seq(MenuRecords) /\ Len(t) = Len(s)
  BY <1>1, <1>2
<1> QED
  BY <1>3 DEF SameMenus

LEMMA SameItself ==
  ASSUME NEW s \in Seq(MenuRecords)
  PROVE  SameMenus(s, s)
  BY DEF SameMenus

LEMMA RecordMarkedIs ==
  ASSUME NEW s \in Seq(MenuRecords), NEW p \in DOMAIN s, NEW x \in MenuRecords,
         x.menu = s[p].menu, x.minted = s[p].minted
  PROVE  /\ SameMenus(s, [s EXCEPT ![p] = x])
         /\ \A q \in DOMAIN s : [s EXCEPT ![p] = x][q] = IF q = p THEN x ELSE s[q]
<1> DEFINE t == [s EXCEPT ![p] = x]
<1>1. t \in Seq(MenuRecords) /\ Len(t) = Len(s)
  OBVIOUS
<1>2. \A q \in DOMAIN s : t[q] = IF q = p THEN x ELSE s[q]
  OBVIOUS
<1>3. \A q \in 1..Len(s) : q \in DOMAIN s
  OBVIOUS
<1>4. \A q \in 1..Len(s) : t[q].menu = s[q].menu /\ t[q].minted = s[q].minted
  BY <1>2, <1>3, Zenon
<1> QED
  BY <1>1, <1>2, <1>4, Zenon DEF SameMenus

LEMMA RecordRetiredIs ==
  ASSUME NEW s \in Seq(MenuRecords), NEW p, NEW st \in RecordStates
  PROVE  /\ SameMenus(s, Retired(s, p, st))
         /\ \A q \in DOMAIN s : q # p => Retired(s, p, st)[q] = s[q]
<1>1. CASE p \in DOMAIN s /\ s[p].state = "open"
  <2>1. Retired(s, p, st) = [s EXCEPT ![p] = [s[p] EXCEPT !.state = st]]
    BY <1>1, Zenon DEF Retired
  <2>2. s[p] \in MenuRecords
    BY <1>1
  <2>3. PICK x \in MenuRecords : /\ x = [s[p] EXCEPT !.state = st]
                                 /\ x.menu = s[p].menu /\ x.minted = s[p].minted
    BY <2>2, RecordFields, Zenon
  <2>4. /\ SameMenus(s, [s EXCEPT ![p] = x])
        /\ \A q \in DOMAIN s : [s EXCEPT ![p] = x][q] = IF q = p THEN x ELSE s[q]
    BY <1>1, <2>3, RecordMarkedIs
  <2> QED
    BY <2>1, <2>3, <2>4, Zenon
<1>2. CASE ~(p \in DOMAIN s /\ s[p].state = "open")
  <2>1. Retired(s, p, st) = s
    BY <1>2 DEF Retired
  <2> QED
    BY <2>1, SameItself
<1> QED
  BY <1>1, <1>2

LEMMA WritingIs ==
  ASSUME NEW s \in Seq(MenuRecords), NEW p \in DOMAIN s, NEW b \in BOOLEAN
  PROVE  /\ SameMenus(s, [s EXCEPT ![p].writing = b])
         /\ \A q \in DOMAIN s : [s EXCEPT ![p].writing = b][q].state = s[q].state
<1>1. s[p] \in MenuRecords
  OBVIOUS
<1>2. PICK x \in MenuRecords : /\ x = [s[p] EXCEPT !.writing = b]
                               /\ x.menu = s[p].menu /\ x.minted = s[p].minted
                               /\ x.state = s[p].state
  <2>1. "open" \in RecordStates
    BY DEF RecordStates
  <2> QED
    BY <1>1, <2>1, RecordFields, Zenon
<1>3. [s EXCEPT ![p].writing = b] = [s EXCEPT ![p] = x]
  BY <1>2, Zenon
<1>4. /\ SameMenus(s, [s EXCEPT ![p] = x])
      /\ \A q \in DOMAIN s : [s EXCEPT ![p] = x][q] = IF q = p THEN x ELSE s[q]
  BY <1>2, RecordMarkedIs
<1> QED
  BY <1>2, <1>3, <1>4, Zenon

LEMMA PerformedIs ==
  ASSUME MenuTypes, NEW r \in Askers, ask[r].prompt \in DOMAIN prompts, NEW st \in RecordStates
  PROVE  SameMenus(prompts, Performed(r, st))
<1> PICK p \in DOMAIN prompts : p = ask[r].prompt
  OBVIOUS
<1>1. prompts \in Seq(MenuRecords) /\ prompts[p] \in MenuRecords
  BY DEF MenuTypes
<1>2. CASE LiveRecord(p) /\ prompts[p].rev = ask[r].rev
  <2>1. PICK x \in MenuRecords : /\ x = [prompts[p] EXCEPT !.state = st, !.writing = FALSE]
                                 /\ x.menu = prompts[p].menu /\ x.minted = prompts[p].minted
    BY <1>1, RecordFields, ZenonT(40)
  <2>2. Performed(r, st) = [prompts EXCEPT ![p].state = st, ![p].writing = FALSE]
    BY <1>2, Zenon DEF Performed
  <2>3. [prompts EXCEPT ![p].state = st, ![p].writing = FALSE] = [prompts EXCEPT ![p] = x]
    BY <1>1, <2>1
  <2>4. SameMenus(prompts, [prompts EXCEPT ![p] = x])
    BY <1>1, <2>1, RecordMarkedIs, ZenonT(60)
  <2> QED
    BY <2>2, <2>3, <2>4, Zenon
<1>3. CASE ~(LiveRecord(p) /\ prompts[p].rev = ask[r].rev)
  <2>1. Performed(r, st) = [prompts EXCEPT ![p].writing = FALSE]
    BY <1>3, Zenon DEF Performed
  <2>2. SameMenus(prompts, [prompts EXCEPT ![p].writing = FALSE])
    BY <1>1, WritingIs
  <2> QED
    BY <2>1, <2>2, Zenon
<1> QED
  BY <1>2, <1>3

-----------------------------------------------------------------------------
(* Steps that open no question.                                            *)

LEMMA QuestionIs ==
  ASSUME MenusIInv
  PROVE  /\ prompts \in Seq(MenuRecords) /\ Len(prompts) \in Nat /\ DOMAIN prompts = 1..Len(prompts)
         /\ \A p \in DOMAIN prompts : prompts[p] \in MenuRecords /\ prompts[p].menu \in MenuNumbers
                                      /\ prompts[p].menu <= menu.last
         /\ pendingQuestion \in Questions /\ pendingQuestion.prompt \in Nat
         /\ menu.last \in MenuNumbers /\ MenuNumbers \subseteq Nat
         /\ pendingQuestion = NoQuestion => pendingQuestion.prompt \notin DOMAIN prompts
<1>1. MenuTypes /\ MenusInTurn
  BY DEF MenusIInv
<1>2. MenuNumbers \subseteq Nat
  BY MenusAssumption DEF MenuNumbers, MenusAssumption
<1>3. prompts \in Seq(MenuRecords) /\ Len(prompts) \in Nat /\ DOMAIN prompts = 1..Len(prompts)
  BY <1>1 DEF MenuTypes
<1>4. \A p \in DOMAIN prompts : prompts[p] \in MenuRecords
  BY <1>3
<1>5. \A x \in MenuRecords : x.menu \in MenuNumbers
  BY DEF MenuRecords
<1>6. pendingQuestion \in Questions /\ pendingQuestion.prompt \in Nat /\ menu.last \in MenuNumbers
  BY <1>1 DEF MenuTypes, Questions
<1>7. NoQuestion.prompt \notin DOMAIN prompts
  BY <1>3 DEF NoQuestion
<1> QED
  BY <1>1, <1>2, <1>3, <1>4, <1>5, <1>6, <1>7, Zenon DEF MenusInTurn

\* What a step leaves that touches neither the questions nor the menu shown.
LEMMA Keeps ==
  ASSUME MenusIInv, UNCHANGED questionSetup, SameMenus(prompts, prompts'),
         menu' \in [asks : MenuNumbers, painted : MenuNumbers, last : MenuNumbers],
         menu'.last = menu.last, menu'.asks \in {0, menu.last}, menu'.painted \in {0, menu.painted},
         flushes \subseteq flushes', flushes' \subseteq MenuNumbers, timers' \subseteq MenuNumbers,
         detecting' \in BOOLEAN, ended' \in BOOLEAN, ended => ended',
         lastScreenQuestionKey' \in Looks \cup {NoLook},
         ask' \in [Askers -> Asks],
         \A r \in Askers : ask'[r].phase = "looking" => ask'[r].prompt \in DOMAIN prompts,
         pendingQuestionKey' \in Looks \cup {NoLook},
         \A m \in answered' :
           \/ m \in answered
           \/ /\ m \in MenuNumbers /\ m <= menu.last /\ pendingQuestion' = NoQuestion
              /\ pendingQuestionKey' = look[m],
         \/ /\ pendingQuestion' = NoQuestion
            /\ \/ pendingQuestionKey' = pendingQuestionKey \/ ended' \/ menu'.painted = 0
               \/ answered' = {} \/ ~AnsweredOnScreen
         \/ /\ pendingQuestion' = pendingQuestion /\ pendingQuestionKey' = pendingQuestionKey
            /\ pendingQuestion # NoQuestion => prompts'[pendingQuestion.prompt].state = "open"
  PROVE  MenusGoOn
<1>1. /\ look' = look /\ writer' = writer
  BY DEF questionSetup
<1>2. /\ prompts' \in Seq(MenuRecords) /\ Len(prompts') = Len(prompts)
      /\ \A q \in 1..Len(prompts) : prompts'[q].menu = prompts[q].menu
                                    /\ prompts'[q].minted = prompts[q].minted
  BY DEF SameMenus
<1>3. /\ prompts \in Seq(MenuRecords) /\ Len(prompts) \in Nat /\ DOMAIN prompts = 1..Len(prompts)
      /\ DOMAIN prompts' = 1..Len(prompts)
      /\ MenuNumbers \subseteq Nat /\ menu.last \in MenuNumbers /\ pendingQuestion \in Questions
  BY <1>2, QuestionIs
<1>4. MenuTypes /\ PendingIsTrue /\ MenusInTurn /\ AnsweredIsKnown
  BY DEF MenusIInv
<1>5. NoQuestion \in Questions /\ NoQuestion.id = -1
  BY DEF NoQuestion, Questions, NoId
<1>6. answered' \subseteq MenuNumbers
  BY <1>4 DEF MenuTypes
<1>7. MenuTypes'
  <2>1. pendingQuestion' \in Questions
    BY <1>3, <1>5
  <2>2. menu'.painted \in {0, menu'.last} /\ menu'.asks \in {0, menu'.last}
    BY <1>4 DEF MenuTypes
  <2> QED
    BY <1>1, <1>2, <1>4, <1>6, <2>1, <2>2 DEF MenuTypes
<1>8. PendingIsTrue'
  <2> SUFFICES ASSUME pendingQuestion' # NoQuestion
               PROVE  PendingIsTrue'
    BY DEF PendingIsTrue
  <2>1. /\ pendingQuestion' = pendingQuestion /\ pendingQuestionKey' = pendingQuestionKey
        /\ prompts'[pendingQuestion.prompt].state = "open"
    OBVIOUS
  <2>2. /\ pendingQuestion.prompt \in DOMAIN prompts
        /\ pendingQuestionKey = pendingQuestion.look
        /\ pendingQuestion.look = look[prompts[pendingQuestion.prompt].menu]
        /\ pendingQuestion.origin = "pty" \/ prompts[pendingQuestion.prompt].minted = "transcript"
    BY <1>4, <2>1 DEF PendingIsTrue, LiveRecord
  <2> QED
    BY <1>1, <1>2, <1>3, <2>1, <2>2, Zenon DEF PendingIsTrue, LiveRecord
<1>9. MenusInTurn'
  <2>1. \A m \in answered' : m <= menu.last
    BY <1>4 DEF MenusInTurn
  <2>2. \A p \in DOMAIN prompts' : prompts'[p].menu <= menu.last
    BY <1>2, <1>3, <1>4 DEF MenusInTurn
  <2> QED
    BY <1>4, <2>1, <2>2 DEF MenusInTurn
<1>10. AnsweredIsKnown'
  <2> SUFFICES ASSUME writer # "foreign", ~ended', menu'.painted # 0, menu'.painted \in answered'
               PROVE  pendingQuestion' = NoQuestion /\ pendingQuestionKey' = look[menu'.painted]
    BY <1>1 DEF AnsweredIsKnown
  <2>1. menu'.painted = menu.painted /\ menu.painted # 0 /\ ~ended /\ answered' # {}
    OBVIOUS
  <2>2. CASE menu.painted \in answered
    BY <1>4, <2>1, <2>2 DEF AnsweredIsKnown, AnsweredOnScreen
  <2>3. CASE menu.painted \notin answered
    BY <2>1, <2>3
  <2> QED
    BY <2>2, <2>3
<1>11. LookersNameRecords'
  BY <1>3 DEF LookersNameRecords
<1>12. ShowsNoPhantom
  BY <1>2, <1>3 DEF ShowsNoPhantom
<1>13. KeepsScreenQuestion
  BY <1>5 DEF KeepsScreenQuestion
<1> QED
  BY <1>7, <1>8, <1>9, <1>10, <1>11, <1>12, <1>13 DEF MenusGoOn, MenusIInv

-----------------------------------------------------------------------------
(* A question is opened.                                                   *)

LEMMA Opens ==
  ASSUME MenusIInv, UNCHANGED questionSetup, UNCHANGED <<menu, ended, ask, answered>>,
         NEW m \in MenuNumbers, m <= menu.last,
         NEW id \in {ScreenId} \cup MenuNumbers, NEW origin, NEW source,
         \/ origin = "pty" /\ source = "screen" /\ id = ScreenId
         \/ origin = "jsonl" /\ source = "transcript"
            /\ (pendingQuestion # NoQuestion /\ pendingQuestion.origin = "pty" =>
                  pendingQuestion.look = look[m]),
         Opened(m, id, origin, source),
         flushes \subseteq flushes', flushes' \subseteq MenuNumbers, timers' \subseteq MenuNumbers,
         detecting' \in BOOLEAN, lastScreenQuestionKey' \in Looks \cup {NoLook},
         ~AnsweredOnScreen, m # 0 \/ writer = "foreign"
  PROVE  MenusGoOn
<1>1. /\ look' = look /\ writer' = writer
  BY DEF questionSetup
<1>2. /\ prompts \in Seq(MenuRecords) /\ Len(prompts) \in Nat /\ DOMAIN prompts = 1..Len(prompts)
      /\ MenuNumbers \subseteq Nat /\ menu.last \in MenuNumbers /\ pendingQuestion \in Questions
      /\ \A p \in DOMAIN prompts : prompts[p].menu <= menu.last
  BY QuestionIs
<1>3. MenuTypes /\ PendingIsTrue /\ MenusInTurn
  BY DEF MenusIInv
<1> DEFINE old == Retired(prompts, pendingQuestion.prompt, "cancelled")
           new == [state |-> "open", rev |-> 1, source |-> source, minted |-> source,
                   menu |-> m, writing |-> FALSE]
           shown == [id |-> id, look |-> look[m], origin |-> origin, prompt |-> Len(prompts) + 1]
<1>4. SameMenus(prompts, old)
  BY <1>2, RecordRetiredIs, Zenon DEF RecordStates
<1>5. new \in MenuRecords /\ new.state = "open" /\ new.menu = m /\ new.minted = source
  BY DEF MenuRecords
<1>6. look[m] \in Looks
  BY <1>3 DEF MenuTypes
<1>7. /\ shown \in Questions /\ shown.look = look[m] /\ shown.prompt = Len(prompts) + 1
      /\ shown.origin = origin /\ shown.id = id
  BY <1>2, <1>6 DEF Questions
<1>8. prompts' = Append(old, new) /\ pendingQuestion' = shown /\ pendingQuestionKey' = look[m]
  BY Zenon DEF Opened
<1> HIDE DEF old, new, shown
<1>9. old \in Seq(MenuRecords) /\ Len(old) = Len(prompts)
      /\ \A q \in 1..Len(prompts) : old[q].menu = prompts[q].menu /\ old[q].minted = prompts[q].minted
  BY <1>4 DEF SameMenus
<1>10. /\ prompts' \in Seq(MenuRecords) /\ Len(prompts') = Len(prompts) + 1
       /\ prompts'[Len(prompts) + 1] = new
       /\ \A q \in 1..Len(prompts) : prompts'[q] = old[q]
  BY <1>2, <1>5, <1>8, <1>9
<1>11. /\ DOMAIN prompts' = 1..(Len(prompts) + 1) /\ Len(prompts) + 1 \in DOMAIN prompts'
       /\ DOMAIN prompts \subseteq DOMAIN prompts'
  BY <1>2, <1>10
<1>12. MenuTypes'
  BY <1>1, <1>3, <1>6, <1>7, <1>8, <1>10 DEF MenuTypes
<1>13. PendingIsTrue'
  BY <1>1, <1>5, <1>7, <1>8, <1>10, <1>11 DEF PendingIsTrue, LiveRecord
<1>14. MenusInTurn'
  <2>1. \A p \in DOMAIN prompts' : prompts'[p].menu <= menu.last
    BY <1>2, <1>5, <1>9, <1>10, <1>11
  <2> QED
    BY <1>3, <2>1 DEF MenusInTurn
<1>15. AnsweredIsKnown'
  BY <1>1 DEF AnsweredIsKnown, AnsweredOnScreen
<1>16. LookersNameRecords'
  BY <1>11 DEF LookersNameRecords, MenusIInv
<1>17. ShowsNoPhantom
  BY <1>5, <1>10 DEF ShowsNoPhantom, AnsweredOnScreen
<1>18. KeepsScreenQuestion
  BY <1>3, <1>7, <1>8 DEF KeepsScreenQuestion, PendingIsTrue, ScreenId
<1> QED
  BY <1>12, <1>13, <1>14, <1>15, <1>16, <1>17, <1>18 DEF MenusGoOn, MenusIInv

-----------------------------------------------------------------------------
(* The steps.                                                              *)

\* What every step may say of the state it leaves.
LEMMA MenuFields ==
  ASSUME MenusIInv
  PROVE  /\ menu \in [asks : MenuNumbers, painted : MenuNumbers, last : MenuNumbers]
         /\ menu.asks \in {0, menu.last} /\ menu.painted \in {0, menu.last}
         /\ 0 \in MenuNumbers
         /\ flushes \subseteq MenuNumbers /\ timers \subseteq MenuNumbers
         /\ answered \subseteq MenuNumbers
         /\ detecting \in BOOLEAN /\ ended \in BOOLEAN
         /\ lastScreenQuestionKey \in Looks \cup {NoLook}
         /\ ask \in [Askers -> Asks]
         /\ \A r \in Askers : ask[r].phase = "looking" => ask[r].prompt \in DOMAIN prompts
         /\ pendingQuestionKey \in Looks \cup {NoLook}
         /\ SameMenus(prompts, prompts)
         /\ pendingQuestion # NoQuestion => prompts[pendingQuestion.prompt].state = "open"
  BY MenusAssumption, SameItself
  DEF MenusAssumption, MenuNumbers, MenusIInv, MenuTypes, LookersNameRecords, PendingIsTrue, LiveRecord

LEMMA ScreenSteps ==
  ASSUME MenusIInv, UNCHANGED questionSetup, EndMenu \/ EraseMenu
  PROVE  MenusGoOn
<1>1. /\ UNCHANGED <<detector, kept, transcript, ended, ask, answered>>
      /\ menu' = [menu EXCEPT !.asks = 0] \/ menu' = [menu EXCEPT !.painted = 0]
  BY DEF EndMenu, EraseMenu
<1>2. /\ menu' \in [asks : MenuNumbers, painted : MenuNumbers, last : MenuNumbers]
      /\ menu'.last = menu.last /\ menu'.asks \in {0, menu.last}
      /\ menu'.painted \in {0, menu.painted}
  BY <1>1, MenuFields
<1>3. UNCHANGED <<prompts, pendingQuestion, pendingQuestionKey, flushes, timers, detecting,
                  lastScreenQuestionKey, ended, ask, answered>>
  BY <1>1 DEF detector, kept, transcript
<1>4. SameMenus(prompts, prompts')
  BY <1>3, MenuFields
<1> QED
  BY <1>2, <1>3, <1>4, MenuFields, Keeps

LEMMA ShowStep ==
  ASSUME MenusIInv, UNCHANGED questionSetup, Show
  PROVE  MenusGoOn
<1>1. /\ UNCHANGED <<detector, kept, transcript, ended, ask, answered>>
      /\ menu.last < Menus /\ 1..menu.last \subseteq flushes
      /\ menu' = [asks |-> menu.last + 1, painted |-> menu.last + 1, last |-> menu.last + 1]
  BY DEF Show
<1>2. UNCHANGED <<prompts, pendingQuestion, pendingQuestionKey, flushes, timers, detecting,
                  lastScreenQuestionKey, ended, ask, answered, look, writer>>
  BY <1>1 DEF detector, kept, transcript, questionSetup
<1>3. menu.last \in Nat /\ menu.last + 1 \in MenuNumbers
  BY <1>1, QuestionIs, MenusAssumption DEF MenusAssumption, MenuNumbers
<1>4. MenuTypes /\ PendingIsTrue /\ MenusInTurn /\ LookersNameRecords
  BY DEF MenusIInv
<1>5. MenuTypes'
  BY <1>1, <1>2, <1>3, <1>4 DEF MenuTypes
<1>6. PendingIsTrue'
  BY <1>2, <1>4 DEF PendingIsTrue, LiveRecord
<1>7. MenusInTurn'
  <2>1. \A p \in DOMAIN prompts : prompts[p].menu \in Nat /\ prompts[p].menu <= menu.last
    BY QuestionIs
  <2>2. \A m \in answered : m \in Nat /\ m <= menu.last
    BY <1>4, QuestionIs DEF MenuTypes, MenusInTurn
  <2>3. menu'.last = menu.last + 1
    BY <1>1
  <2>4. \A m \in 1..menu'.last : m = menu'.last \/ m \in flushes
    BY <1>1, <1>3, <2>3
  <2> QED
    BY <1>2, <1>3, <2>1, <2>2, <2>3, <2>4 DEF MenusInTurn
<1>8. AnsweredIsKnown'
  <2>1. menu'.painted \notin answered
    BY <1>1, <1>3, <1>4 DEF MenusInTurn
  <2> QED
    BY <1>2, <2>1 DEF AnsweredIsKnown
<1>9. LookersNameRecords'
  BY <1>2, <1>4 DEF LookersNameRecords
<1>10. ShowsNoPhantom /\ KeepsScreenQuestion
  BY <1>2, QuestionIs DEF ShowsNoPhantom, KeepsScreenQuestion
<1> QED
  BY <1>5, <1>6, <1>7, <1>8, <1>9, <1>10 DEF MenusGoOn, MenusIInv

LEMMA AnnounceStep ==
  ASSUME MenusIInv, UNCHANGED questionSetup, AnnounceMenu
  PROVE  MenusGoOn
<1>1. /\ menu.painted # 0 /\ detecting' = FALSE
      /\ lastScreenQuestionKey' = look[menu.painted]
      /\ HandleLiveQuestion(menu.painted)
      /\ UNCHANGED <<menu, transcript, ended, ask, answered>>
  BY DEF AnnounceMenu
<1>2. /\ menu.painted \in MenuNumbers /\ menu.painted <= menu.last /\ look[menu.painted] \in Looks
  BY <1>1, MenuFields, QuestionIs DEF MenusIInv, MenuTypes
<1>3. UNCHANGED <<flushes, timers>>
  BY <1>1 DEF transcript
<1>4. CASE pendingQuestionKey = look[menu.painted]
  <2>1. UNCHANGED <<prompts, pendingQuestion, pendingQuestionKey>>
    BY <1>1, <1>4 DEF HandleLiveQuestion, kept
  <2>2. SameMenus(prompts, prompts')
    BY <2>1, MenuFields
  <2> QED
    BY <1>1, <1>2, <1>3, <2>1, <2>2, MenuFields, Keeps
<1>5. CASE pendingQuestionKey # look[menu.painted]
  <2>1. Opened(menu.painted, ScreenId, "pty", "screen")
    BY <1>1, <1>5 DEF HandleLiveQuestion
  <2>2. ~AnsweredOnScreen
    BY <1>5 DEF AnsweredOnScreen, MenusIInv, AnsweredIsKnown
  <2> QED
    BY <1>1, <1>2, <1>3, <2>1, <2>2, MenuFields, Opens
<1> QED
  BY <1>4, <1>5

LEMMA LiveQuestionGoneStep ==
  ASSUME MenusIInv, UNCHANGED questionSetup, LiveQuestionGone
  PROVE  MenusGoOn
<1>1. /\ menu.painted = 0 /\ detecting' = FALSE /\ lastScreenQuestionKey' = NoLook
      /\ prompts' = Retired(prompts, pendingQuestion.prompt, "cancelled")
      /\ pendingQuestion' = NoQuestion /\ pendingQuestionKey' = NoLook
      /\ UNCHANGED <<menu, flushes, timers, ended, ask, answered>>
  BY DEF LiveQuestionGone, transcript
<1>2. SameMenus(prompts, prompts')
  BY <1>1, QuestionIs, RecordRetiredIs DEF RecordStates
<1> QED
  BY <1>1, <1>2, MenuFields, Keeps

\* The transcript confirms the pending question.
LEMMA Revises ==
  ASSUME MenusIInv, UNCHANGED questionSetup,
         UNCHANGED <<menu, detecting, lastScreenQuestionKey, ended, ask, answered>>,
         NEW m \in MenuNumbers, pendingQuestion # NoQuestion, pendingQuestion.look = look[m],
         HandleJsonlQuestion(m),
         flushes \subseteq flushes', flushes' \subseteq MenuNumbers, timers' \subseteq MenuNumbers
  PROVE  MenusGoOn
<1>1. /\ prompts \in Seq(MenuRecords) /\ Len(prompts) \in Nat /\ DOMAIN prompts = 1..Len(prompts)
      /\ pendingQuestion \in Questions
      /\ \A p \in DOMAIN prompts : prompts[p].menu <= menu.last
  BY QuestionIs
<1>2. MenuTypes /\ PendingIsTrue /\ MenusInTurn /\ AnsweredIsKnown /\ LookersNameRecords
  BY DEF MenusIInv
<1>3. PICK p \in DOMAIN prompts : p = pendingQuestion.prompt
  BY <1>2 DEF PendingIsTrue, LiveRecord
<1>4. /\ prompts[p].state = "open" /\ pendingQuestionKey = pendingQuestion.look
      /\ pendingQuestion.look = look[prompts[p].menu]
      /\ pendingQuestion.origin = "pty" \/ prompts[p].minted = "transcript"
  BY <1>2, <1>3 DEF PendingIsTrue, LiveRecord
<1>5. /\ prompts' = IF prompts[p].source = "transcript" THEN prompts
                    ELSE [prompts EXCEPT ![p].rev = @ + 1, ![p].source = "transcript"]
      /\ pendingQuestion' = [pendingQuestion EXCEPT !.id = m] /\ pendingQuestionKey' = look[m]
  BY <1>3, Zenon DEF HandleJsonlQuestion
<1>6. SameMenus(prompts, prompts') /\ prompts'[p].state = "open"
  <2>1. CASE prompts[p].source = "transcript"
    BY <1>1, <1>4, <1>5, <2>1, SameItself
  <2>2. CASE prompts[p].source # "transcript"
    <3>1. prompts[p] \in MenuRecords
      BY <1>1
    <3>2. prompts[p].rev + 1 \in Nat
      BY <3>1 DEF MenuRecords
    <3>3. PICK x : x = [prompts[p] EXCEPT !.rev = prompts[p].rev + 1, !.source = "transcript"]
      OBVIOUS
    <3>4. /\ x \in MenuRecords /\ x.menu = prompts[p].menu /\ x.minted = prompts[p].minted
          /\ x.state = prompts[p].state
      BY <3>1, <3>2, <3>3, Zenon DEF MenuRecords
    <3>5. prompts' = [prompts EXCEPT ![p] = x]
      BY <1>1, <1>5, <2>2, <3>3
    <3>6. /\ SameMenus(prompts, [prompts EXCEPT ![p] = x])
          /\ \A q \in DOMAIN prompts : [prompts EXCEPT ![p] = x][q] = IF q = p THEN x ELSE prompts[q]
      BY <1>1, <3>4, RecordMarkedIs
    <3> QED
      BY <1>4, <3>4, <3>5, <3>6, Zenon
  <2> QED
    BY <2>1, <2>2
<1>7. /\ pendingQuestion' \in Questions /\ pendingQuestion'.look = pendingQuestion.look
      /\ pendingQuestion'.origin = pendingQuestion.origin /\ pendingQuestion'.prompt = p
  BY <1>1, <1>3, <1>5 DEF Questions
<1>8. /\ prompts' \in Seq(MenuRecords) /\ Len(prompts') = Len(prompts)
      /\ DOMAIN prompts' = DOMAIN prompts
      /\ \A q \in DOMAIN prompts : prompts'[q].menu = prompts[q].menu
                                    /\ prompts'[q].minted = prompts[q].minted
  BY <1>1, <1>6 DEF SameMenus
<1>9. /\ look' = look /\ writer' = writer
  BY DEF questionSetup
<1>10. MenuTypes'
  <2>1. pendingQuestionKey' \in Looks \cup {NoLook}
    BY <1>2, <1>5 DEF MenuTypes
  <2> QED
    BY <1>2, <1>7, <1>8, <1>9, <2>1 DEF MenuTypes
<1>11. PendingIsTrue'
  BY <1>3, <1>4, <1>5, <1>6, <1>7, <1>8, <1>9, Zenon DEF PendingIsTrue, LiveRecord
<1>12. MenusInTurn'
  BY <1>2, <1>8 DEF MenusInTurn
<1>13. AnsweredIsKnown'
  BY <1>2, <1>9 DEF AnsweredIsKnown
<1>14. LookersNameRecords'
  BY <1>2, <1>8 DEF LookersNameRecords
<1>15. ShowsNoPhantom /\ KeepsScreenQuestion
  BY <1>1, <1>7, <1>8 DEF ShowsNoPhantom, KeepsScreenQuestion
<1> QED
  BY <1>10, <1>11, <1>12, <1>13, <1>14, <1>15 DEF MenusGoOn, MenusIInv

LEMMA FlushStep ==
  ASSUME MenusIInv, UNCHANGED questionSetup, NEW m \in MenuNumbers, Flush(m)
  PROVE  MenusGoOn
<1>1. /\ m \notin flushes /\ (m = 0 => writer # "own") /\ m <= menu.last
      /\ flushes' = flushes \cup {m}
      /\ UNCHANGED <<menu, detecting, lastScreenQuestionKey, ended, ask, answered>>
  BY DEF Flush, detector, Foreign
<1>2. flushes \subseteq flushes' /\ flushes' \subseteq MenuNumbers
  BY <1>1, MenuFields
<1>3. CASE writer = "contended" \/ ForeignVsPty(m) \/ AnsweredLate(m)
  <2>1. UNCHANGED <<prompts, pendingQuestion, pendingQuestionKey, timers>>
    BY <1>3 DEF Flush, kept
  <2>2. SameMenus(prompts, prompts')
    BY <2>1, MenuFields
  <2> QED
    BY <1>1, <1>2, <2>1, <2>2, MenuFields, Keeps
<1>4. CASE ~(writer = "contended" \/ ForeignVsPty(m) \/ AnsweredLate(m))
  <2>1. HandleJsonlQuestion(m) /\ timers' = timers \cup {m}
    BY <1>4 DEF Flush
  <2>2. timers' \subseteq MenuNumbers
    BY <2>1, MenuFields
  <2>3. look[m] \in Looks
    BY DEF MenusIInv, MenuTypes
  <2>4. CASE pendingQuestion.look = look[m]
    <3>1. pendingQuestion # NoQuestion
      BY <2>3, <2>4, NoLookAssumption DEF NoQuestion, NoLookAssumption
    <3> QED
      BY <1>1, <1>2, <2>1, <2>2, <2>4, <3>1, Revises
  <2>5. CASE pendingQuestion.look # look[m]
    <3>1. Opened(m, m, "jsonl", "transcript")
      BY <2>1, <2>5 DEF HandleJsonlQuestion
    <3>2. ~(pendingQuestion # NoQuestion /\ pendingQuestion.origin = "pty")
      BY <1>4, <2>5 DEF ForeignVsPty
    <3>3. m # 0 \/ writer = "foreign"
      BY <1>1, <1>4 DEF MenusIInv, MenuTypes
    <3>4. ~AnsweredOnScreen
      <4> SUFFICES ASSUME AnsweredOnScreen
                   PROVE  FALSE
        OBVIOUS
      <4>1. /\ writer # "foreign" /\ menu.painted # 0 /\ pendingQuestion = NoQuestion
            /\ pendingQuestionKey = look[menu.painted]
        BY DEF AnsweredOnScreen, MenusIInv, AnsweredIsKnown
      <4>2. m # 0 /\ m \in 1..menu.last
        BY <1>1, <3>3, <4>1, QuestionIs
      <4>3. m = menu.last /\ menu.painted = menu.last
        BY <1>1, <4>1, <4>2, MenuFields DEF MenusIInv, MenusInTurn
      <4> QED
        BY <1>4, <4>1, <4>3 DEF AnsweredLate
    <3> QED
      BY <1>1, <1>2, <2>2, <3>1, <3>2, <3>3, <3>4, MenuFields, Opens
  <2> QED
    BY <2>4, <2>5
<1> QED
  BY <1>3, <1>4

LEMMA Late60Step ==
  ASSUME MenusIInv, UNCHANGED questionSetup, NEW t \in timers, Late60(t)
  PROVE  MenusGoOn
<1>1. /\ timers' = timers \ {t}
      /\ UNCHANGED <<menu, detecting, lastScreenQuestionKey, flushes, ended, ask, answered>>
  BY DEF Late60, detector
<1>2. CASE UNCHANGED kept
  <2>1. UNCHANGED <<prompts, pendingQuestion, pendingQuestionKey>>
    BY <1>2 DEF kept
  <2>2. SameMenus(prompts, prompts')
    BY <2>1, MenuFields
  <2>3. timers' \subseteq MenuNumbers
    BY <1>1, MenuFields
  <2> QED
    BY <1>1, <2>1, <2>2, <2>3, MenuFields, Keeps
<1>3. CASE /\ pendingQuestion.id = t /\ pendingQuestion # NoQuestion
           /\ prompts' = Retired(prompts, pendingQuestion.prompt, "cancelled")
           /\ pendingQuestion' = NoQuestion /\ pendingQuestionKey' = NoLook
  <2>1. SameMenus(prompts, prompts')
    BY <1>3, QuestionIs, RecordRetiredIs DEF RecordStates
  <2>2. ~AnsweredOnScreen
    BY <1>3 DEF MenusIInv, AnsweredIsKnown, AnsweredOnScreen
  <2>3. timers' \subseteq MenuNumbers
    BY <1>1, MenuFields
  <2> QED
    BY <1>1, <1>3, <2>1, <2>2, <2>3, MenuFields, Keeps
<1> QED
  BY <1>2, <1>3 DEF Late60, CancelPendingQuestion

\* A record a request looks at, and what a step may do to it.
LEMMA LookedAt ==
  ASSUME MenusIInv, NEW r \in Askers, ask[r].phase = "looking"
  PROVE  /\ ask[r].prompt \in DOMAIN prompts
         /\ \A st \in RecordStates : SameMenus(prompts, Performed(r, st))
         /\ \A st \in RecordStates : SameMenus(prompts, Retired(prompts, ask[r].prompt, st))
<1>1. ask[r].prompt \in DOMAIN prompts
  BY DEF MenusIInv, LookersNameRecords
<1> QED
  BY <1>1, PerformedIs, RecordRetiredIs, QuestionIs DEF MenusIInv

LEMMA TakeStep ==
  ASSUME MenusIInv, UNCHANGED questionSetup, NEW r \in Askers, NEW p \in DOMAIN prompts, Take(r, p)
  PROVE  MenusGoOn
<1>1. UNCHANGED <<menu, detecting, lastScreenQuestionKey, pendingQuestion, pendingQuestionKey,
                  flushes, timers, ended, answered>>
  BY DEF Take, detector, transcript
<1>2. /\ ask \in [Askers -> Asks] /\ ask[r] \in Asks
      /\ \A q \in Askers : ask[q].phase = "looking" => ask[q].prompt \in DOMAIN prompts
  BY MenuFields
<1>3. prompts \in Seq(MenuRecords) /\ p \in Nat /\ prompts[p] \in MenuRecords
  BY QuestionIs
<1>4. prompts[p].rev \in Nat /\ prompts[p].writing \in BOOLEAN
  BY <1>3 DEF MenuRecords
<1>5. CASE path[r] = "prompt" /\ pendingQuestion.prompt # p
  <2>1. /\ prompts' = Retired(prompts, p, "unavailable")
        /\ ask' = [ask EXCEPT ![r] = [ask[r] EXCEPT !.phase = "refused", !.prompt = p]]
    BY <1>5 DEF Take
  <2>2. PICK x : x = [ask[r] EXCEPT !.phase = "refused", !.prompt = p]
    OBVIOUS
  <2>3. x \in Asks /\ x.phase = "refused"
    BY <1>2, <1>3, <2>2, Zenon DEF Asks
  <2>4. /\ ask' \in [Askers -> Asks]
        /\ \A q \in Askers : ask'[q].phase = "looking" => ask'[q].prompt \in DOMAIN prompts
    BY <1>2, <2>1, <2>2, <2>3
  <2>5. /\ SameMenus(prompts, prompts')
        /\ \A q \in DOMAIN prompts : q # p => prompts'[q] = prompts[q]
    BY <1>3, <2>1, RecordRetiredIs DEF RecordStates
  <2>6. pendingQuestion # NoQuestion => prompts'[pendingQuestion.prompt].state = "open"
    BY <1>5, <2>5 DEF MenusIInv, PendingIsTrue, LiveRecord
  <2> QED
    BY <1>1, <2>4, <2>5, <2>6, MenuFields, Keeps
<1>6. CASE ~(path[r] = "prompt" /\ pendingQuestion.prompt # p)
  <2>1. PICK b \in BOOLEAN : b = (prompts[p].writing \/ path[r] = "prompt")
    BY Zenon
  <2>2. /\ prompts' = [prompts EXCEPT ![p].writing = b]
        /\ ask' = [ask EXCEPT ![r] = [ask[r] EXCEPT !.phase = "looking", !.prompt = p,
                                                    !.rev = prompts[p].rev]]
    <3>1. /\ prompts' = [prompts EXCEPT ![p].writing = @ \/ path[r] = "prompt"]
          /\ ask' = [ask EXCEPT ![r] = [@ EXCEPT !.phase = "looking", !.prompt = p,
                                                 !.rev = prompts[p].rev]]
      BY <1>6, Zenon DEF Take
    <3> QED
      BY <2>1, <3>1, Zenon
  <2>3. PICK x : x = [ask[r] EXCEPT !.phase = "looking", !.prompt = p, !.rev = prompts[p].rev]
    OBVIOUS
  <2>4. x \in Asks /\ x.prompt = p
    BY <1>2, <1>3, <1>4, <2>3, Zenon DEF Asks
  <2>5. /\ ask' \in [Askers -> Asks]
        /\ \A q \in Askers : ask'[q].phase = "looking" => ask'[q].prompt \in DOMAIN prompts
    BY <1>2, <2>2, <2>3, <2>4
  <2>6. /\ SameMenus(prompts, prompts')
        /\ \A q \in DOMAIN prompts : prompts'[q].state = prompts[q].state
    BY <1>3, <2>1, <2>2, WritingIs, ZenonT(60)
  <2>7. pendingQuestion # NoQuestion => prompts'[pendingQuestion.prompt].state = "open"
    BY <2>6 DEF MenusIInv, PendingIsTrue, LiveRecord
  <2> QED
    BY <1>1, <2>5, <2>6, <2>7, MenuFields, Keeps
<1> QED
  BY <1>5, <1>6

LEMMA Finishing ==
  ASSUME MenusIInv, NEW r \in Askers, NEW phase \in {"refused", "accepted"}, NEW wrote \in BOOLEAN,
         Finish(r, phase, wrote)
  PROVE  /\ ask' \in [Askers -> Asks]
         /\ \A q \in Askers : ask'[q].phase = "looking" => ask'[q].prompt \in DOMAIN prompts
<1>1. /\ ask \in [Askers -> Asks] /\ ask[r] \in Asks
      /\ \A q \in Askers : ask[q].phase = "looking" => ask[q].prompt \in DOMAIN prompts
  BY MenuFields
<1>2. PICK x : x = [ask[r] EXCEPT !.phase = phase, !.wrote = wrote]
  OBVIOUS
<1>3. x \in Asks /\ x.phase = phase
  BY <1>1, <1>2, Zenon DEF Asks
<1>4. ask' = [ask EXCEPT ![r] = x]
  BY <1>2, Zenon DEF Finish
<1> QED
  BY <1>1, <1>3, <1>4

LEMMA GoneStep ==
  ASSUME MenusIInv, UNCHANGED questionSetup, NEW r \in Askers, GoneForPrompt(r) \/ GoneForOthers(r)
  PROVE  MenusGoOn
<1>1. /\ ask[r].phase = "looking" /\ menu.painted = 0 /\ Finish(r, "refused", FALSE)
      /\ UNCHANGED <<menu, detecting, lastScreenQuestionKey, flushes, timers, ended, answered>>
  BY DEF GoneForPrompt, GoneForOthers, MenuStillOpen, detector, transcript
<1>2. /\ ask' \in [Askers -> Asks]
      /\ \A q \in Askers : ask'[q].phase = "looking" => ask'[q].prompt \in DOMAIN prompts
  BY <1>1, Finishing
<1>3. CASE UNCHANGED kept
  <2>1. UNCHANGED <<prompts, pendingQuestion, pendingQuestionKey>>
    BY <1>3 DEF kept
  <2>2. SameMenus(prompts, prompts')
    BY <2>1, MenuFields
  <2> QED
    BY <1>1, <1>2, <2>1, <2>2, MenuFields, Keeps
<1>4. CASE DropQuestion /\ (\/ prompts' = Performed(r, "cancelled")
                            \/ prompts' = Retired(prompts, ask[r].prompt, "cancelled"))
  <2>1. SameMenus(prompts, prompts')
    BY <1>1, <1>4, LookedAt DEF RecordStates
  <2>2. pendingQuestion' = NoQuestion /\ pendingQuestionKey' = NoLook
    BY <1>4 DEF DropQuestion
  <2> QED
    BY <1>1, <1>2, <2>1, <2>2, MenuFields, Keeps
<1> QED
  BY <1>3, <1>4, Zenon DEF GoneForPrompt, GoneForOthers

LEMMA RefuseKeysStep ==
  ASSUME MenusIInv, UNCHANGED questionSetup, NEW r \in Askers, RefuseKeys(r)
  PROVE  MenusGoOn
<1>1. /\ ask[r].phase = "looking" /\ Finish(r, "refused", FALSE)
      /\ UNCHANGED <<menu, detecting, lastScreenQuestionKey, pendingQuestion, pendingQuestionKey,
                     flushes, timers, ended, answered>>
  BY DEF RefuseKeys, detector, transcript
<1>2. /\ ask' \in [Askers -> Asks]
      /\ \A q \in Askers : ask'[q].phase = "looking" => ask'[q].prompt \in DOMAIN prompts
  BY <1>1, Finishing
<1>3. PICK p \in DOMAIN prompts : p = ask[r].prompt
  BY <1>1, LookedAt
<1>4. prompts \in Seq(MenuRecords) /\ prompts[p] \in MenuRecords
  BY QuestionIs
<1>5. prompts[p].writing \in BOOLEAN
  BY <1>4 DEF MenuRecords
<1>6. PICK b \in BOOLEAN : b = (IF path[r] = "prompt" THEN FALSE ELSE prompts[p].writing)
  BY <1>5
<1>7. prompts' = [prompts EXCEPT ![p].writing = b]
  <2>1. prompts' = [prompts EXCEPT ![ask[r].prompt].writing =
                      IF path[r] = "prompt" THEN FALSE ELSE @]
    BY Zenon DEF RefuseKeys
  <2>2. prompts' = [prompts EXCEPT ![p].writing = IF path[r] = "prompt" THEN FALSE ELSE prompts[p].writing]
    BY <1>3, <2>1, Zenon
  <2> QED
    BY <1>6, <2>2, Zenon
<1>8. /\ SameMenus(prompts, prompts')
      /\ \A q \in DOMAIN prompts : prompts'[q].state = prompts[q].state
  BY <1>4, <1>6, <1>7, WritingIs, ZenonT(60)
<1>9. pendingQuestion # NoQuestion => prompts'[pendingQuestion.prompt].state = "open"
  BY <1>8 DEF MenusIInv, PendingIsTrue, LiveRecord
<1> QED
  BY <1>1, <1>2, <1>8, <1>9, MenuFields, Keeps

LEMMA WriteKeysStep ==
  ASSUME MenusIInv, UNCHANGED questionSetup, NEW r \in Askers, WriteKeys(r)
  PROVE  MenusGoOn
<1>1. /\ ask[r].phase = "looking" /\ pendingQuestion' = NoQuestion
      /\ pendingQuestionKey' = (IF path[r] = "escape" THEN NoLook ELSE pendingQuestionKey)
      /\ UNCHANGED <<menu, detecting, lastScreenQuestionKey, flushes, timers, ended>>
  BY DEF WriteKeys, KeyAfter, detector, transcript
<1>2. PICK p \in DOMAIN prompts : p = ask[r].prompt
  BY <1>1, LookedAt
<1>3. PICK phase \in {"refused", "accepted"} : Finish(r, phase, TRUE)
  BY Zenon DEF WriteKeys
<1>4. /\ ask' \in [Askers -> Asks]
      /\ \A q \in Askers : ask'[q].phase = "looking" => ask'[q].prompt \in DOMAIN prompts
  BY <1>3, Finishing
<1>5. SameMenus(prompts, prompts')
  BY <1>1, LookedAt DEF WriteKeys, RecordStates
<1>6. \/ answered' = {}
      \/ answered' = answered
      \/ /\ pendingQuestion.prompt = p /\ path[r] # "escape"
         /\ answered' = answered \cup {prompts[p].menu}
  BY <1>2, Zenon DEF WriteKeys
<1>7. path[r] = "escape" => answered' = {}
  BY Zenon DEF WriteKeys
<1>8. \A m \in answered' :
        \/ m \in answered
        \/ /\ m \in MenuNumbers /\ m <= menu.last /\ pendingQuestion' = NoQuestion
           /\ pendingQuestionKey' = look[m]
  <2>1. CASE /\ pendingQuestion.prompt = p /\ path[r] # "escape"
             /\ answered' = answered \cup {prompts[p].menu}
    <3>1. pendingQuestion # NoQuestion
      BY <2>1, QuestionIs
    <3>2. pendingQuestionKey = look[prompts[p].menu]
      BY <2>1, <3>1 DEF MenusIInv, PendingIsTrue
    <3>3. prompts[p].menu \in MenuNumbers /\ prompts[p].menu <= menu.last
      BY QuestionIs
    <3> QED
      BY <1>1, <2>1, <3>2, <3>3
  <2> QED
    BY <1>6, <2>1
<1>9. pendingQuestionKey' = pendingQuestionKey \/ answered' = {}
  BY <1>1, <1>7
<1>10. pendingQuestionKey' \in Looks \cup {NoLook}
  BY <1>1, MenuFields
<1> QED
  BY <1>1, <1>4, <1>5, <1>8, <1>9, <1>10, MenuFields, Keeps

LEMMA EndQuestionsStep ==
  ASSUME MenusIInv, UNCHANGED questionSetup, EndQuestions
  PROVE  MenusGoOn
<1>1. /\ ended' = TRUE /\ pendingQuestion' = NoQuestion /\ pendingQuestionKey' = NoLook
      /\ lastScreenQuestionKey' = NoLook /\ detecting' \in BOOLEAN
      /\ UNCHANGED <<menu, flushes, timers, ask, answered>>
  BY DEF EndQuestions, DropQuestion, transcript
<1>2. prompts \in Seq(MenuRecords) /\ DOMAIN prompts = 1..Len(prompts)
  BY QuestionIs
<1>3. \A q \in DOMAIN prompts :
        /\ prompts'[q] \in MenuRecords
        /\ prompts'[q].menu = prompts[q].menu /\ prompts'[q].minted = prompts[q].minted
  <2> SUFFICES ASSUME NEW q \in DOMAIN prompts
               PROVE  /\ prompts'[q] \in MenuRecords
                      /\ prompts'[q].menu = prompts[q].menu /\ prompts'[q].minted = prompts[q].minted
    OBVIOUS
  <2>1. prompts[q] \in MenuRecords
    BY <1>2
  <2>2. \/ prompts'[q] = prompts[q]
        \/ prompts'[q] = [prompts[q] EXCEPT !.state = "cancelled"]
        \/ prompts'[q] = [prompts[q] EXCEPT !.state = "unavailable"]
    BY DEF EndQuestions
  <2>3. \A st \in {"cancelled", "unavailable"} :
          /\ [prompts[q] EXCEPT !.state = st] \in MenuRecords
          /\ [prompts[q] EXCEPT !.state = st].menu = prompts[q].menu
          /\ [prompts[q] EXCEPT !.state = st].minted = prompts[q].minted
    <3>1. \A st \in {"cancelled", "unavailable"} : st \in RecordStates
      BY DEF RecordStates
    <3> QED
      BY <2>1, <3>1, Zenon DEF MenuRecords, RecordStates
  <2> QED
    BY <2>1, <2>2, <2>3, Zenon
<1>4. DOMAIN prompts' = DOMAIN prompts /\ prompts' = [q \in DOMAIN prompts' |-> prompts'[q]]
  BY DEF EndQuestions
<1>5. SameMenus(prompts, prompts')
  BY <1>2, <1>3, <1>4, SameOf
<1> QED
  BY <1>1, <1>5, MenuFields, Keeps

LEMMA MenusBegin == QuestionsInit => MenusIInv
<1> SUFFICES ASSUME QuestionsInit
             PROVE  MenusIInv
  OBVIOUS
<1>1. 0 \in MenuNumbers /\ DOMAIN prompts = {} /\ prompts \in Seq(MenuRecords)
  BY MenusAssumption DEF MenusAssumption, MenuNumbers, QuestionsInit
<1>2. NoQuestion \in Questions
  BY DEF NoQuestion, Questions, NoId
<1>3. \A r \in Askers : ask[r] = [phase |-> "idle", prompt |-> 0, rev |-> 0, wrote |-> FALSE]
  BY DEF QuestionsInit
<1>4. ask \in [Askers -> Asks]
  BY DEF QuestionsInit, Asks
<1>5. MenuTypes
  BY <1>1, <1>2, <1>4 DEF QuestionsInit, MenuTypes, MenuNumbers
<1> QED
  BY <1>1, <1>3, <1>5
  DEF QuestionsInit, MenusIInv, PendingIsTrue, MenusInTurn, AnsweredIsKnown, LookersNameRecords

LEMMA MenusStep == MenusIInv /\ [QuestionsNext]_questionVars => MenusGoOn
<1> SUFFICES ASSUME MenusIInv, [QuestionsNext]_questionVars
             PROVE  MenusGoOn
  OBVIOUS
<1>1. CASE UNCHANGED questionVars
  <2>1. UNCHANGED <<questionSetup, menu, prompts, pendingQuestion, pendingQuestionKey, detecting,
                    lastScreenQuestionKey, flushes, timers, ended, ask, answered>>
    BY <1>1 DEF questionVars, detector, kept, transcript
  <2>2. SameMenus(prompts, prompts')
    BY <2>1, MenuFields
  <2> QED
    BY <2>1, <2>2, MenuFields, Keeps
<1>2. CASE QuestionsNext
  <2>1. UNCHANGED questionSetup /\ QuestionsStep
    BY <1>2 DEF QuestionsNext
  <2>2. \A m \in 0..Menus : Flush(m) => MenusGoOn
    BY <2>1, FlushStep DEF MenuNumbers
  <2> QED
    BY <2>1, <2>2, ScreenSteps, ShowStep, AnnounceStep, LiveQuestionGoneStep, Late60Step, TakeStep,
       GoneStep, RefuseKeysStep, WriteKeysStep, EndQuestionsStep, Zenon
    DEF QuestionsStep
<1> QED
  BY <1>1, <1>2

LEMMA MenusImply == MenusIInv => QuestionsInv
<1> SUFFICES ASSUME MenusIInv
             PROVE  QuestionsInv
  OBVIOUS
<1>1. QuestionsTypeOK
  <2>1. \A r \in Askers : ask[r] \in Asks
    BY DEF MenusIInv, MenuTypes
  <2> QED
    BY <2>1 DEF MenusIInv, MenuTypes, QuestionsTypeOK, MenuNumbers, Asks
<1> QED
  BY <1>1 DEF MenusIInv, PendingIsTrue, QuestionsInv

-----------------------------------------------------------------------------
(* What holds of the menus.                                                *)

\* However the transcript, the detector and the answers of clients interleave, a pending
\* question has a live record and the key of what it asks (handleLiveQuestion,
\* handleAskUserQuestion, the answer routes and the 60 s timer, which each change both).
THEOREM QuestionsHold == QuestionsSpec => []QuestionsInv
<1>1. QuestionsInit => MenusIInv
  BY MenusBegin
<1>2. MenusIInv /\ [QuestionsNext]_questionVars => MenusIInv'
  BY MenusStep DEF MenusGoOn
<1>3. MenusIInv => QuestionsInv
  BY MenusImply
<1> QED
  BY <1>1, <1>2, <1>3, PTL DEF QuestionsSpec

\* A menu that was answered and is still painted is not shown as a question again, be it by
\* a repaint that the detector reads or by the transcript that catches up (the content key
\* that outlives the answer, lastScreenQuestionKey and pendingQuestionKey).
THEOREM NoAnsweredMenuReturns == QuestionsSpec => NoPhantomQuestion
<1>1. QuestionsInit => MenusIInv
  BY MenusBegin
<1>2. MenusIInv /\ [QuestionsNext]_questionVars => MenusIInv'
  BY MenusStep DEF MenusGoOn
<1>3. MenusIInv /\ [QuestionsNext]_questionVars
        => [Len(prompts') > Len(prompts) /\ writer # "foreign" /\ ~ended =>
              LET m == prompts'[Len(prompts')].menu IN ~(m \in answered /\ m = menu.painted)]_questionVars
  BY MenusStep DEF MenusGoOn, ShowsNoPhantom
<1> QED
  BY <1>1, <1>2, <1>3, PTL DEF QuestionsSpec, NoPhantomQuestion

\* A question that was read off the screen is replaced by the transcript only with one that
\* asks the same (handleAskUserQuestion's adoption of the pending question).
THEOREM TranscriptKeepsScreen == QuestionsSpec => ScreenQuestionKept
<1>1. QuestionsInit => MenusIInv
  BY MenusBegin
<1>2. MenusIInv /\ [QuestionsNext]_questionVars => MenusIInv'
  BY MenusStep DEF MenusGoOn
<1>3. MenusIInv /\ [QuestionsNext]_questionVars
        => [pendingQuestion # NoQuestion /\ pendingQuestion'.id >= 0 =>
              \/ prompts[pendingQuestion.prompt].minted = "transcript"
              \/ pendingQuestion'.look = pendingQuestion.look]_questionVars
  BY MenusStep DEF MenusGoOn, KeepsScreenQuestion
<1> QED
  BY <1>1, <1>2, <1>3, PTL DEF QuestionsSpec, ScreenQuestionKept

-----------------------------------------------------------------------------
(* The records without a gate.                                             *)

\* A live record that is not the pending gate's is being answered, and a close waits for
\* the answer: whatever comes of the answer settles it.
Lost(sv) ==
  \A p \in 1..Len(sv.prompts) :
    Live(sv.prompts, p) /\ sv.gate.prompt # p =>
      sv.prompts[p].answering /\ sv.prompts[p].deferred

LostAreDeferred == ~RawKeys => Lost(server)

\* Only record p differs, and it is settled, pending or waiting for its answer.
LEMMA LostBut ==
  ASSUME NEW sv, NEW nx, Lost(sv), NEW p, Len(nx.prompts) = Len(sv.prompts),
         OnlyAt(sv.prompts, nx.prompts, p),
         nx.gate.prompt = sv.gate.prompt \/ sv.gate.prompt = p \/ sv.gate.prompt = 0,
         Live(nx.prompts, p) => \/ nx.gate.prompt = p
                                \/ nx.prompts[p].answering /\ nx.prompts[p].deferred
  PROVE  Lost(nx)
<1> SUFFICES ASSUME NEW q \in 1..Len(sv.prompts), Live(nx.prompts, q), nx.gate.prompt # q, q # p
             PROVE  nx.prompts[q].answering /\ nx.prompts[q].deferred
  BY DEF Lost
<1>1. nx.prompts[q] = sv.prompts[q] /\ Live(sv.prompts, q)
  BY DEF OnlyAt, Live
<1>2. sv.gate.prompt # q
  OBVIOUS
<1> QED
  BY <1>1, <1>2 DEF Lost

LEMMA DefersClose ==
  ASSUME NEW ps \in Seq(PromptRec), NEW p \in Nat, NEW new, new = ProviderClosed(ps, p), Live(new, p)
  PROVE  new[p].answering /\ new[p].deferred
<1>1. CASE ~Live(ps, p)
  BY <1>1 DEF ProviderClosed
<1>2. CASE Live(ps, p) /\ ps[p].answering
  <2>1. p \in 1..Len(ps) /\ ps[p] \in PromptRec
    BY <1>2 DEF Live
  <2>2. PICK x : x = [ps[p] EXCEPT !.deferred = TRUE]
    OBVIOUS
  <2>3. x \in PromptRec /\ x.answering = ps[p].answering /\ x.deferred = TRUE
    BY <2>1, <2>2, Zenon DEF PromptRec
  <2>4. new = [ps EXCEPT ![p] = x]
    BY <1>2, <2>1, <2>2, FieldsPut DEF ProviderClosed
  <2>5. new[p] = x
    BY <2>1, <2>3, <2>4, Putting
  <2> QED
    BY <1>2, <2>3, <2>5
<1>3. CASE Live(ps, p) /\ ~ps[p].answering
  <2>1. new = Transitioned(ps, p, "cancelled") /\ "cancelled" \in States \ {"open"}
    BY <1>3 DEF ProviderClosed, States
  <2>2. p \in 1..Len(ps) /\ ~Live(new, p)
    BY <1>3, <2>1, TransitionedIs DEF Live
  <2> QED
    BY <2>2
<1> QED
  BY <1>1, <1>2, <1>3

LEMMA LostByClose ==
  ASSUME NEW sv \in ServerRec, Lost(sv), NEW nx, nx = CloseGate(sv)
  PROVE  Lost(nx)
<1>1. /\ Mends(sv, nx) /\ nx.gate = NoGate /\ OnlyAt(sv.prompts, nx.prompts, sv.gate.prompt)
  BY CloseGateIs
<1>2. sv.prompts \in Seq(PromptRec) /\ sv.gate.prompt \in Nat
  BY DEF ServerRec, GateRec
<1>3. nx.prompts = ProviderClosed(sv.prompts, sv.gate.prompt)
  BY DEF CloseGate, ServerRec
<1>4. Live(nx.prompts, sv.gate.prompt) =>
        nx.prompts[sv.gate.prompt].answering /\ nx.prompts[sv.gate.prompt].deferred
  BY <1>2, <1>3, DefersClose
<1>5. Len(nx.prompts) = Len(sv.prompts)
  BY <1>1 DEF Mends, Aged
<1> QED
  BY <1>1, <1>4, <1>5, LostBut

\* Nothing waits for an answer that was written.
LEMMA LostByWrite ==
  ASSUME NEW sv \in ServerRec, Lost(sv), NEW p \in 1..Len(sv.prompts), NEW nx,
         nx = AfterWrite(sv, p, "resolved")
  PROVE  Lost(nx)
<1>1. /\ Mends(sv, nx) /\ nx.gate = sv.gate /\ OnlyAt(sv.prompts, nx.prompts, p)
      /\ ~Live(nx.prompts, p)
  BY AfterWriteIs
<1>2. Len(nx.prompts) = Len(sv.prompts)
  BY <1>1 DEF Mends, Aged
<1> QED
  BY <1>1, <1>2, LostBut

\* Nor for one that was refused: the close it held back comes now.
LEMMA LostByRefusal ==
  ASSUME NEW sv \in ServerRec, Lost(sv), NEW p \in 1..Len(sv.prompts), NEW terminal \in BOOLEAN,
         NEW nx, nx = AfterRefusal(sv, p, terminal)
  PROVE  Lost(nx)
<1>1. /\ Mends(sv, nx) /\ nx.gate = sv.gate /\ OnlyAt(sv.prompts, nx.prompts, p)
      /\ terminal => ~Live(nx.prompts, p)
  BY AfterRefusalIs
<1>2. Len(nx.prompts) = Len(sv.prompts) /\ (Live(nx.prompts, p) => Live(sv.prompts, p))
  BY <1>1 DEF Mends, Aged, Live
<1>3. ASSUME sv.prompts[p].deferred
      PROVE  ~Live(nx.prompts, p)
  <2>1. AfterRefusal(sv, p, terminal) = AfterRefusal(sv, p, TRUE)
    BY <1>3 DEF AfterRefusal
  <2>2. nx = AfterRefusal(sv, p, TRUE)
    BY <2>1
  <2> QED
    BY <2>2, AfterRefusalIs
<1>4. Live(nx.prompts, p) => sv.gate.prompt = p
  BY <1>2, <1>3 DEF Lost
<1> QED
  BY <1>1, <1>2, <1>4, LostBut

\* The pending gate goes with its record, or has none.
LEMMA LostByDrop ==
  ASSUME NEW sv \in ServerRec, Lost(sv), NEW ps, Aged(sv.prompts, ps), NEW p,
         OnlyAt(sv.prompts, ps, p), sv.gate.prompt \in {0, p}, ~Live(ps, p),
         NEW nx, nx = Dropped(sv, ps)
  PROVE  Lost(nx)
<1>1. Mends(sv, nx) /\ nx.prompts = ps /\ nx.gate = NoGate
  <2>1. ps \in Seq(PromptRec)
    BY DEF Aged
  <2> QED
    BY <2>1, GateTaken
<1> QED
  BY <1>1, LostBut DEF Aged

\* An announcement retires the record of the gate it replaces.
LEMMA LostByShow ==
  ASSUME ServerTypes, Lost(server), NEW view \in Views \ {None}, NEW occ \in Nat,
         NEW shown \in 0..Dialogs, server' = ShowGate(server, view, occ, shown)
  PROVE  Lost(server')
<1>1. /\ Aged(server.prompts, GateRetired) /\ OnlyAt(server.prompts, GateRetired, server.gate.prompt)
      /\ GateRetired \in Seq(PromptRec) /\ Len(GateRetired) = Len(server.prompts)
      /\ Len(server.prompts) \in Nat
      /\ \A p \in 1..Len(server.prompts) :
           Live(GateRetired, p) <=> Live(server.prompts, p) /\ p # server.gate.prompt
  BY RetiredIs
<1>2. \A p \in 1..Len(server.prompts) :
        Live(GateRetired, p) => GateRetired[p].answering /\ GateRetired[p].deferred
  BY <1>1 DEF Lost, OnlyAt
<1>3. CASE Repeating
  BY <1>3 DEF Repeating, Lost
<1>4. CASE server'.prompts = GateRetired
  BY <1>1, <1>2, <1>4 DEF Lost
<1>5. ASSUME NEW x \in PromptRec, server'.gate.prompt = Len(GateRetired) + 1,
             server'.prompts = Append(GateRetired, x)
      PROVE  Lost(server')
  <2>1. /\ Len(server'.prompts) = Len(GateRetired) + 1
        /\ \A q \in 1..Len(GateRetired) : server'.prompts[q] = GateRetired[q]
    BY <1>1, <1>5
  <2>2. \A q \in 1..Len(server'.prompts) : q # server'.gate.prompt =>
          /\ q \in 1..Len(server.prompts) /\ server'.prompts[q] = GateRetired[q]
          /\ Live(server'.prompts, q) <=> Live(GateRetired, q)
    BY <1>1, <1>5, <2>1 DEF Live
  <2> QED
    BY <1>2, <2>2 DEF Lost
<1>6. \A k \in Nat : NewPrompt(OpenedAs(GateRetired, occ)) \in PromptRec
  BY NewPromptTyped DEF OpenedAs
<1> QED
  BY <1>3, <1>4, <1>5, <1>6, ShowGateIs DEF Throwing, Opening

LEMMA LostByEnd ==
  ASSUME NEW sv \in ServerRec, NEW nx, nx = EndSession(sv)
  PROVE  Lost(nx)
<1>1. /\ Aged(sv.prompts, nx.prompts)
      /\ \A p \in 1..Len(sv.prompts) : ~Live(nx.prompts, p)
  BY EndSessionIs
<1> QED
  BY <1>1 DEF Aged, Lost

LEMMA LostByKeys ==
  ASSUME NEW sv \in ServerRec, Lost(sv), NEW keys, NEW nx, nx = ServerAfterKeys(sv, keys)
  PROVE  nx \in ServerRec /\ Len(nx.prompts) = Len(sv.prompts) /\ Lost(nx)
<1>1. nx = sv \/ nx = CloseGate(sv)
  BY DEF ServerAfterKeys
<1>2. nx = CloseGate(sv) => nx \in ServerRec /\ Len(nx.prompts) = Len(sv.prompts)
  BY CloseGateIs DEF Mends, Aged
<1> QED
  BY <1>1, <1>2, LostByClose

-----------------------------------------------------------------------------
(* The routes.                                                             *)

\* The answer to a prompt.
LEMMA PromptLoses ==
  ASSUME GatesSafe, Lost(server), NEW r \in Requests, NEW seen,
         ResumePrompt(r, seen) \/ ResumePromptAgain(r, seen)
  PROVE  Lost(server')
<1>1. server \in ServerRec /\ server.prompts \in Seq(PromptRec)
  BY DEF GatesSafe, ServerInv, ServerTypes, ServerRec
<1>2. PICK p \in 1..Len(server.prompts) : p = req[r].prompt
  <2>1. Reading(r) /\ route[r] # "text"
    BY DEF ResumePrompt, ResumePromptAgain, Reading
  <2> QED
    BY <2>1, NamedRecord DEF GatesSafe
<1>3. CASE server' = server
  BY <1>3
<1>4. ASSUME NEW sv, sv = ServerAfterKeys(server, Keys(r)), server' = AfterWrite(sv, p, "resolved")
      PROVE  Lost(server')
  <2>1. sv \in ServerRec /\ Len(sv.prompts) = Len(server.prompts) /\ Lost(sv)
    BY <1>1, <1>4, LostByKeys
  <2>2. p \in 1..Len(sv.prompts)
    BY <2>1
  <2> QED
    BY <1>4, <2>1, <2>2, LostByWrite
<1>5. ASSUME NEW terminal \in BOOLEAN, server' = AfterRefusal(server, p, terminal)
      PROVE  Lost(server')
  BY <1>1, <1>5, LostByRefusal
<1>6. ASSUME NEW sv, sv = Dropped(server, server.prompts), server.gate.prompt = p,
             server' = AfterRefusal(sv, p, TRUE)
      PROVE  Lost(server')
  <2>1. Mends(server, sv) /\ sv.prompts = server.prompts /\ sv.gate = NoGate
    BY <1>1, <1>6, AgedSelf, GateTaken
  <2>2. sv \in ServerRec /\ p \in 1..Len(sv.prompts)
    BY <2>1 DEF Mends
  <2>3. /\ Mends(sv, server') /\ server'.gate = sv.gate /\ OnlyAt(sv.prompts, server'.prompts, p)
        /\ ~Live(server'.prompts, p)
    <3>1. PICK terminal \in BOOLEAN : terminal = TRUE
      OBVIOUS
    <3>2. server' = AfterRefusal(sv, p, terminal)
      BY <1>6, <3>1
    <3> QED
      BY <2>2, <3>1, <3>2, AfterRefusalIs
  <2>4. Len(server'.prompts) = Len(server.prompts) /\ OnlyAt(server.prompts, server'.prompts, p)
    BY <2>1, <2>3 DEF Mends, Aged
  <2> QED
    BY <1>6, <2>3, <2>4, LostBut
<1> QED
  BY <1>2, <1>3, <1>4, <1>5, <1>6 DEF ResumePrompt, ResumePromptAgain, WritePrompt

LEMMA LegacyLoses ==
  ASSUME GatesSafe, Lost(server), NEW r \in Requests, NEW seen, ResumeLegacy(r, seen)
  PROVE  Lost(server')
<1>1. server \in ServerRec /\ server.prompts \in Seq(PromptRec) /\ server.gate.prompt \in Nat
  BY DEF GatesSafe, ServerInv, ServerTypes, ServerRec, GateRec
<1>2. PICK p \in 1..Len(server.prompts) : p = req[r].prompt
  <2>1. Reading(r) /\ route[r] # "text"
    BY DEF ResumeLegacy, Reading
  <2> QED
    BY <2>1, NamedRecord DEF GatesSafe
<1>3. CASE server.ended /\ StillOpen(r, seen)
  <2>1. server' = AfterRefusal(server, p, FALSE)
    BY <1>2, <1>3 DEF ResumeLegacy, WriteLegacy
  <2> QED
    BY <1>1, <2>1, LostByRefusal
<1>4. CASE ~server.ended /\ StillOpen(r, seen)
  <2>1. PICK marked : marked = [server EXCEPT !.prompts[p].answering = TRUE]
    OBVIOUS
  <2>2. PICK ps : ps = Marked(server.prompts, p)
    OBVIOUS
  <2>3. /\ Aged(server.prompts, ps) /\ OnlyAt(server.prompts, ps, p) /\ ps[p].answering
        /\ \A q \in 1..Len(server.prompts) : ps[q].state = server.prompts[q].state
    BY <1>1, <2>2, MarkedIs
  <2>4. marked = [server EXCEPT !.prompts = ps]
    BY <1>1, <2>1, <2>2 DEF Marked, ServerRec
  <2>5. ps \in Seq(PromptRec)
    BY <2>3 DEF Aged
  <2>6. Mends(server, marked) /\ marked.prompts = ps /\ marked.gate = server.gate
    BY <1>1, <2>3, <2>4, <2>5, PromptsPut
  <2>7. marked \in ServerRec /\ Len(marked.prompts) = Len(server.prompts)
    BY <2>6 DEF Mends, Aged
  <2>8. \A q \in 1..Len(server.prompts) :
          /\ Live(ps, q) => Live(server.prompts, q)
          /\ ps[q].deferred = server.prompts[q].deferred
          /\ server.prompts[q].answering => ps[q].answering
    <3>1. ps[p].deferred = server.prompts[p].deferred
      <4>1. server.prompts[p] \in PromptRec
        BY <1>1
      <4>2. PICK x : x = [server.prompts[p] EXCEPT !.answering = TRUE]
        OBVIOUS
      <4>3. x \in PromptRec /\ x.deferred = server.prompts[p].deferred
        BY <4>1, <4>2, Zenon DEF PromptRec
      <4>4. ps = [server.prompts EXCEPT ![p] = x]
        BY <1>1, <2>2, <4>2, FieldsPut DEF Marked
      <4> QED
        BY <1>1, <4>3, <4>4, Putting
    <3> QED
      BY <2>3, <3>1 DEF Live, Aged, OnlyAt
  <2>9. Lost(marked)
    BY <2>6, <2>7, <2>8 DEF Lost
  <2>10. PICK sv : sv = ServerAfterKeys(marked, Keys(r))
    OBVIOUS
  <2>11. sv \in ServerRec /\ Len(sv.prompts) = Len(marked.prompts) /\ Lost(sv)
    BY <2>7, <2>9, <2>10, LostByKeys
  <2>12. p \in 1..Len(sv.prompts)
    BY <2>7, <2>11
  <2>13. server' = AfterWrite(sv, p, "resolved")
    BY <1>2, <1>4, <2>1, <2>10 DEF ResumeLegacy, WriteLegacy
  <2> QED
    BY <2>11, <2>12, <2>13, LostByWrite
<1>5. CASE ~StillOpen(r, seen)
  <2>1. PICK ps : ps = Transitioned(server.prompts, server.gate.prompt, "cancelled")
    OBVIOUS
  <2>2. server' = Dropped(server, ps)
    BY <1>5, <2>1 DEF ResumeLegacy
  <2>3. "cancelled" \in States \ {"open"}
    BY DEF States
  <2>4. /\ Aged(server.prompts, ps) /\ OnlyAt(server.prompts, ps, server.gate.prompt)
        /\ server.gate.prompt \in 1..Len(server.prompts) => ~Live(ps, server.gate.prompt)
    BY <1>1, <2>1, <2>3, TransitionedIs
  <2>5. ~Live(ps, server.gate.prompt)
    BY <2>4 DEF Live, Aged
  <2> QED
    BY <1>1, <2>2, <2>4, <2>5, LostByDrop
<1> QED
  BY <1>3, <1>4, <1>5

LEMMA TextLoses ==
  ASSUME GatesSafe, Lost(server), NEW r \in Requests, NEW seen, ResumeText(r, seen)
  PROVE  Lost(server')
<1>1. server \in ServerRec /\ server.prompts \in Seq(PromptRec) /\ RequestInv
  BY DEF GatesSafe, ServerInv, ServerTypes, ServerRec
<1>2. server' = server \/ (server' = Dropped(server, server.prompts) /\ server.gate.serial = req[r].serial)
  BY DEF ResumeText
<1>3. CASE server' = Dropped(server, server.prompts) /\ server.gate.serial = req[r].serial
  <2>1. Reading(r) /\ route[r] = "text"
    BY DEF ResumeText, Reading
  <2>2. server.gate.prompt = 0
    BY <1>1, <1>3, <2>1 DEF RequestInv, Fine, TextIsHeld
  <2>3. ~Live(server.prompts, 0) /\ Aged(server.prompts, server.prompts)
        /\ OnlyAt(server.prompts, server.prompts, 0)
    BY <1>1, AgedSelf DEF Live, OnlyAt
  <2> QED
    BY <1>1, <1>3, <2>2, <2>3, LostByDrop
<1> QED
  BY <1>2, <1>3

LEMMA ResumeLoses ==
  ASSUME GatesSafe, ~RawKeys, Lost(server), NEW r \in Requests, NEW seen, Resume(r, seen)
  PROVE  Lost(server')
<1>1. ~ResumeRawKey(r, seen)
  BY DEF ResumeRawKey, RawKeys, Used
<1> QED
  BY <1>1, PromptLoses, LegacyLoses, TextLoses DEF Resume

LEMMA BeginLoses ==
  ASSUME GatesSafe, Lost(server), NEW r \in Requests, Begin(r)
  PROVE  Lost(server')
<1>1. server \in ServerRec /\ server.prompts \in Seq(PromptRec)
  BY DEF GatesSafe, ServerInv, ServerTypes, ServerRec
<1>2. CASE server' = server
  BY <1>2
<1>3. ASSUME NEW p \in 1..Len(server.prompts), BeginPrompt(r, p)
      PROVE  Lost(server')
  <2>1. p \in Nat
    BY <1>1
  <2>2. CASE Live(server.prompts, p) /\ server.gate.prompt = p
    <3>1. PICK ps : ps = Marked(server.prompts, p)
      OBVIOUS
    <3>2. Aged(server.prompts, ps) /\ OnlyAt(server.prompts, ps, p)
      BY <1>1, <3>1, MarkedIs
    <3>3. server' = [server EXCEPT !.prompts = ps]
      <4>1. server' = [server EXCEPT !.prompts[p].answering = TRUE]
        BY <1>3, <2>2 DEF BeginPrompt
      <4> QED
        BY <1>1, <3>1, <4>1 DEF Marked, ServerRec
    <3>4. ps \in Seq(PromptRec)
      BY <3>2 DEF Aged
    <3>5. Mends(server, server') /\ server'.prompts = ps /\ server'.gate = server.gate
      BY <1>1, <3>2, <3>3, <3>4, PromptsPut
    <3>6. Len(server'.prompts) = Len(server.prompts)
      BY <3>5 DEF Mends, Aged
    <3> QED
      BY <2>2, <3>2, <3>5, <3>6, LostBut
  <2>3. CASE ~(Live(server.prompts, p) /\ server.gate.prompt = p)
    <3>1. PICK ps : ps = Transitioned(server.prompts, p, "unavailable")
      OBVIOUS
    <3>2. "unavailable" \in States \ {"open"}
      BY DEF States
    <3>3. Aged(server.prompts, ps) /\ OnlyAt(server.prompts, ps, p) /\ ~Live(ps, p)
      BY <1>1, <2>1, <3>1, <3>2, TransitionedIs
    <3>4. server' = [server EXCEPT !.prompts = ps]
      BY <1>1, <1>3, <2>3, <3>1 DEF BeginPrompt, ServerRec
    <3>5. ps \in Seq(PromptRec)
      BY <3>3 DEF Aged
    <3>6. Mends(server, server') /\ server'.prompts = ps /\ server'.gate = server.gate
      BY <1>1, <3>3, <3>4, <3>5, PromptsPut
    <3>7. Len(server'.prompts) = Len(server.prompts)
      BY <3>6 DEF Mends, Aged
    <3> QED
      BY <3>3, <3>6, <3>7, LostBut
  <2> QED
    BY <2>2, <2>3
<1> QED
  BY <1>2, <1>3 DEF Begin, BeginLegacy, BeginRawKey, BeginText

\* A live record stays the pending gate's or is being answered, whatever the host announces
\* and the routes do.
LEMMA LostStep ==
  ASSUME GatesIInv, LostAreDeferred, [Next]_vars
  PROVE  LostAreDeferred'
<1>1. /\ GatesSafe /\ QueueInv /\ RunnerTypes /\ SetupTypes /\ ServerTypes /\ server \in ServerRec
      /\ UNCHANGED route
  BY DEF GatesIInv, GatesSafe, ServerInv, ServerTypes, Next, setup, vars
<1> SUFFICES ASSUME ~RawKeys, Lost(server)
             PROVE  Lost(server')
  <2>1. (RawKeys)' <=> RawKeys
    BY <1>1 DEF RawKeys, Used
  <2>2. (Lost(server))' <=> Lost(server')
    OBVIOUS
  <2> QED
    BY <2>1, <2>2 DEF LostAreDeferred
<1>2. CASE UNCHANGED server
  BY <1>2
<1>3. ASSUME NEW view \in Views \ {None}, Announce(view)
      PROVE  Lost(server')
  <2>1. CASE hosted
    BY <1>2, <1>3, <2>1 DEF Announce
  <2>2. CASE ~hosted
    <3>1. server' = ShowGate(server, view, 0, agent.painted) /\ agent.painted \in 0..Dialogs
      BY <1>1, <1>3, <2>2 DEF Announce, RunnerTypes
    <3> QED
      BY <1>1, <3>1, LostByShow
  <2> QED
    BY <2>1, <2>2
<1>4. CASE AnnounceClose
  <2>1. UNCHANGED server \/ server' = CloseGate(server)
    BY <1>4 DEF AnnounceClose
  <2> QED
    BY <1>1, <1>2, <2>1, LostByClose
<1>5. CASE EndPass
  <2>1. Screen \in Contents \cup {None}
    BY <1>1, ScreenIsView
  <2>2. ASSUME ClaimByNotice
        PROVE  \E view \in Views \ {None} : Announce(view)
    <3>1. PICK view : view = IF Screen = None THEN Blank ELSE Screen
      OBVIOUS
    <3>2. view \in Views \ {None}
      BY <2>1, <3>1, ContentsAssumption DEF Views, ContentsAssumption
    <3> QED
      BY <2>2, <3>1, <3>2 DEF ClaimByNotice
  <2>3. ASSUME RefreshOpen \/ ClaimByPaint
        PROVE  \E view \in Views \ {None} : Announce(view)
    <3>1. Screen \in Views \ {None} /\ Announce(Screen)
      BY <2>1, <2>3 DEF RefreshOpen, ClaimByPaint, Views
    <3> QED
      BY <3>1
  <2> QED
    BY <1>2, <1>3, <1>4, <1>5, <2>2, <2>3 DEF EndPass, CloseOpen, PassIdle, Silent
<1>6. CASE HostKeys
  BY <1>2, <1>4, <1>6 DEF HostKeys, Silent
<1>7. CASE Exit
  <2>1. UNCHANGED server \/ server' = EndSession(server)
    BY <1>7 DEF Exit
  <2> QED
    BY <1>1, <1>2, <2>1, LostByEnd
<1>8. CASE Deliver
  <2>1. PICK m : m = Head(up) /\ Message(m)
    <3>1. up # <<>>
      BY <1>8 DEF Deliver
    <3> QED
      BY <1>1, <3>1 DEF QueueInv, QueueTypes, IsList
  <2>2. CASE m.ev = "gate" /\ server' = ShowGate(server, m.view, m.occ, m.dialog)
    <3>1. m.view \in Views \ {None} /\ m.occ \in Nat /\ m.dialog \in 0..Dialogs
      BY <2>1, <2>2 DEF Message
    <3> QED
      BY <1>1, <2>2, <3>1, LostByShow
  <2>3. CASE server' = CloseGate(server)
    BY <1>1, <2>3, LostByClose
  <2>4. CASE server' = EndSession(server)
    BY <1>1, <2>4, LostByEnd
  <2>5. CASE m.ev = "screen" /\ Resume(m.to, m.seen)
    <3>1. m.to \in Requests
      BY <2>1, <2>5 DEF Message
    <3> QED
      BY <1>1, <2>5, <3>1, ResumeLoses
  <2> QED
    BY <1>8, <2>1, <2>2, <2>3, <2>4, <2>5 DEF Deliver
<1>9. ASSUME NEW r \in Requests, Begin(r) \/ ReadScreen(r)
      PROVE  Lost(server')
  <2>1. UNCHANGED server \/ Begin(r) \/ Resume(r, Seen)
    BY <1>9 DEF ReadScreen
  <2> QED
    BY <1>1, <1>2, <2>1, BeginLoses, ResumeLoses
<1>10. CASE Step
  BY <1>2, <1>5, <1>6, <1>7, <1>8, <1>9, <1>10
  DEF Step, Raise, Paint, Dismiss, Erase, ReadKeys, BeginPass
<1> QED
  BY <1>2, <1>10 DEF Next, vars

-----------------------------------------------------------------------------
(* Composer text and the dialogs that were announced.                      *)

\* No key is under way to the agent; the next one it reads.
Quiet == input = <<>> /\ down = <<>>
NextKey == IF input # <<>> THEN Head(input) ELSE Head(down)

\* What the agent asks for, and the announcement of it with its options.
Shown == content[agent.asking]
AnnouncesAsked(m) == m.ev = "gate" /\ m.view # Blank /\ m.dialog = agent.asking
Heard == server.told = agent.asking \/ \E i \in 1..Len(up) : AnnouncesAsked(up[i])

\* A message from behind the announcement: it shows the dialog, and a close has a key ahead
\* of it that the agent has not read.
Believed(m) ==
  /\ m.ev = "gate" => m.view = Shown
  /\ m.ev = "screen" => m.seen = Shown
  /\ m.ev # "exit"
  /\ m.ev = "gone" => ~Quiet
AllBelieved == \A j \in 1..Len(up) : Believed(up[j])

AgentPlain ==
  /\ agent.asking \in {0, agent.last} /\ agent.painted \in {0, agent.last}
  /\ agent.asking # 0 => agent.alive /\ agent.painted = agent.asking
  /\ server.told \in 0..agent.last
  /\ \A i \in 1..Len(up) : up[i].ev = "gate" => up[i].dialog \in 0..agent.last

KeysPlain ==
  /\ IsList(input) /\ IsList(down) /\ (~hosted => down = <<>>)
  /\ \A i \in 1..Len(input) : input[i].told \in 0..agent.last
  /\ \A i \in 1..Len(down) : down[i].told \in 0..agent.last

HeardIsShown == agent.asking # 0 /\ Heard => agent.filled /\ runner.pass # "waiting"
ServerBelieves ==
  agent.asking # 0 /\ server.told = agent.asking =>
    AllBelieved /\ (Quiet => server.gate.view = Shown)
QueueBelieves ==
  agent.asking # 0 =>
    \A i \in 1..Len(up) : AnnouncesAsked(up[i]) => \A j \in i..Len(up) : Believed(up[j])

\* The next key is no text that was written when the dialog was known.
TextIsLate ==
  agent.asking # 0 /\ ~Quiet => ~(NextKey.kind = "text" /\ NextKey.told = agent.asking)

\* A raw key remembers the view of the gate it found.
LooksAtGate ==
  \A r \in Requests :
    req[r].pc = "reading" /\ route[r] \in {"enter", "escape"} /\ server.gate.prompt = req[r].prompt
      => server.gate.view = req[r].view

TextKept ==
  /\ AgentPlain /\ KeysPlain /\ HeardIsShown /\ ServerBelieves /\ QueueBelieves /\ TextIsLate
  /\ LooksAtGate /\ ~agent.hit

-----------------------------------------------------------------------------
(* What the agent shows.                                                   *)

LEMMA AgentFields ==
  ASSUME SetupTypes, RunnerTypes
  PROVE  /\ agent.asking \in Nat /\ agent.last \in Nat /\ agent.painted \in Nat
         /\ agent.asking \in 0..Dialogs
         /\ agent.asking # 0 => Shown \in Contents /\ Shown # None /\ Shown # Blank
<1>1. /\ agent.asking \in 0..Dialogs /\ agent.last \in 0..Dialogs /\ agent.painted \in 0..Dialogs
  BY DEF RunnerTypes
<1>2. agent.asking # 0 => agent.asking \in 1..Dialogs
  BY <1>1, DialogsAssumption DEF DialogsAssumption
<1>3. agent.asking # 0 => Shown \in Contents
  BY <1>2 DEF Shown, SetupTypes
<1> QED
  BY <1>1, <1>3, ContentsAssumption, DialogsAssumption DEF ContentsAssumption, DialogsAssumption

\* A dialog that was announced with its options is what the scrapers see.
LEMMA HeardIsOnScreen ==
  ASSUME SetupTypes, RunnerTypes, AgentPlain, HeardIsShown, agent.asking # 0, Heard
  PROVE  Screen = Shown /\ Seen = Shown /\ Shown \notin {None, Blank} /\ runner.pass # "waiting"
<1>1. agent.filled /\ runner.pass # "waiting" /\ agent.painted = agent.asking /\ agent.alive
  BY DEF AgentPlain, HeardIsShown
<1> QED
  BY <1>1, AgentFields DEF Screen, Seen, Shown

LEMMA StillBelieved ==
  ASSUME NEW m, Believed(m), UNCHANGED content, agent'.asking = agent.asking, Quiet' => Quiet
  PROVE  Believed(m)'
  BY DEF Believed, Shown

\* The messages of the pty-host: none comes, one comes, one is taken.
LEMMA BelievedStays ==
  ASSUME UNCHANGED <<content, up>>, agent'.asking = agent.asking, Quiet' => Quiet
  PROVE  /\ QueueBelieves => QueueBelieves'
         /\ AllBelieved => AllBelieved'
<1>1. \A m : Believed(m) => Believed(m)'
  BY StillBelieved
<1>2. \A m : AnnouncesAsked(m)' <=> AnnouncesAsked(m)
  BY DEF AnnouncesAsked
<1> QED
  BY <1>1, <1>2 DEF QueueBelieves, AllBelieved

LEMMA BelievedGrows ==
  ASSUME QueueTypes, NEW m, up' = Append(up, m), UNCHANGED content, agent'.asking = agent.asking,
         agent.asking # 0, Quiet' => Quiet, QueueBelieves,
         Heard \/ AnnouncesAsked(m) => Believed(m)'
  PROVE  /\ QueueBelieves'
         /\ server.told = agent.asking /\ AllBelieved => AllBelieved'
         /\ (\E i \in 1..Len(up) : AnnouncesAsked(up[i]))' =>
              AnnouncesAsked(m) \/ \E i \in 1..Len(up) : AnnouncesAsked(up[i])
<1>1. /\ Len(up') = Len(up) + 1 /\ up'[Len(up')] = m
      /\ \A i \in 1..Len(up) : up'[i] = up[i]
      /\ Len(up) \in Nat
  BY Appending
<1>2. \A x : Believed(x) => Believed(x)'
  BY StillBelieved
<1>3. \A x : AnnouncesAsked(x)' <=> AnnouncesAsked(x)
  BY DEF AnnouncesAsked
<1>4. \A i \in 1..Len(up') : i = Len(up') \/ (i \in 1..Len(up) /\ up'[i] = up[i])
  BY <1>1
<1>5. QueueBelieves'
  <2> SUFFICES ASSUME NEW i \in 1..Len(up'), AnnouncesAsked(up[i])', NEW j \in i..Len(up')
               PROVE  Believed(up[j])'
    BY DEF QueueBelieves
  <2>1. AnnouncesAsked(up'[i])
    BY <1>3
  <2>2. Heard \/ AnnouncesAsked(m)
    BY <1>1, <1>4, <2>1 DEF Heard
  <2>3. CASE j = Len(up')
    BY <1>1, <2>2, <2>3
  <2>4. CASE j # Len(up')
    <3>1. i \in 1..Len(up) /\ up'[i] = up[i] /\ j \in i..Len(up) /\ up'[j] = up[j]
      BY <1>1, <2>4
    <3>2. Believed(up[j])
      BY <2>1, <3>1 DEF QueueBelieves
    <3> QED
      BY <1>2, <3>1, <3>2
  <2> QED
    BY <2>3, <2>4
<1>6. ASSUME server.told = agent.asking, AllBelieved
      PROVE  AllBelieved'
  <2>1. Believed(m)'
    BY <1>6 DEF Heard
  <2> QED
    BY <1>1, <1>2, <1>4, <1>6, <2>1 DEF AllBelieved
<1>7. ASSUME NEW i \in 1..Len(up'), AnnouncesAsked(up[i])'
      PROVE  AnnouncesAsked(m) \/ \E n \in 1..Len(up) : AnnouncesAsked(up[n])
  BY <1>1, <1>3, <1>4, <1>7
<1> QED
  BY <1>5, <1>6, <1>7

LEMMA BelievedTaken ==
  ASSUME QueueTypes, up # <<>>, up' = Tail(up), UNCHANGED content, agent'.asking = agent.asking,
         Quiet' => Quiet
  PROVE  /\ QueueBelieves => QueueBelieves'
         /\ AllBelieved => AllBelieved' /\ Believed(Head(up))
         /\ agent.asking # 0 /\ QueueBelieves /\ AnnouncesAsked(Head(up)) => AllBelieved' /\ Believed(Head(up))
         /\ \A i \in 1..Len(up') : i + 1 \in 1..Len(up) /\ up'[i] = up[i + 1]
         /\ Head(up) = up[1] /\ 1 \in 1..Len(up)
<1> DEFINE S == {up[i] : i \in DOMAIN up}
<1>1. up \in Seq(S)
  BY DEF QueueTypes, IsList
<1> HIDE DEF S
<1>2. /\ Len(up) \in Nat \ {0} /\ Len(up') = Len(up) - 1
      /\ \A i \in 1..Len(up') : up'[i] = up[i + 1]
      /\ Head(up) = up[1]
  BY <1>1
<1>3. \A x : Believed(x) => Believed(x)'
  BY StillBelieved
<1>4. \A x : AnnouncesAsked(x)' <=> AnnouncesAsked(x)
  BY DEF AnnouncesAsked
<1>5. \A i \in 1..Len(up') : i + 1 \in 1..Len(up) /\ up'[i] = up[i + 1]
  BY <1>2
<1>6. 1 \in 1..Len(up)
  BY <1>2
<1>7. ASSUME AllBelieved
      PROVE  AllBelieved' /\ Believed(Head(up))
  BY <1>2, <1>3, <1>5, <1>6, <1>7 DEF AllBelieved
<1>8. ASSUME agent.asking # 0, QueueBelieves, AnnouncesAsked(Head(up))
      PROVE  AllBelieved
  BY <1>2, <1>6, <1>8 DEF QueueBelieves, AllBelieved
<1>9. ASSUME QueueBelieves
      PROVE  QueueBelieves'
  <2> SUFFICES ASSUME agent.asking # 0, NEW i \in 1..Len(up'), AnnouncesAsked(up[i])',
                      NEW j \in i..Len(up')
               PROVE  Believed(up[j])'
    BY DEF QueueBelieves
  <2>1. AnnouncesAsked(up[i + 1]) /\ i + 1 \in 1..Len(up)
    BY <1>4, <1>5
  <2>2. j + 1 \in (i + 1)..Len(up) /\ up'[j] = up[j + 1]
    BY <1>2, <1>5
  <2>3. Believed(up[j + 1])
    BY <1>9, <2>1, <2>2 DEF QueueBelieves
  <2> QED
    BY <1>3, <2>2, <2>3
<1> QED
  BY <1>2, <1>5, <1>6, <1>7, <1>8, <1>9

-----------------------------------------------------------------------------
(* The keys.                                                               *)

LEMMA KeyAdded ==
  ASSUME NEW s, IsList(s), NEW k, NEW t, t = Append(s, k)
  PROVE  /\ IsList(t) /\ t # <<>> /\ Len(t) = Len(s) + 1 /\ Len(s) \in Nat /\ t[Len(t)] = k
         /\ \A i \in 1..Len(s) : t[i] = s[i]
         /\ s = <<>> => Head(t) = k
         /\ s # <<>> => Head(t) = Head(s)
<1> DEFINE S == {s[i] : i \in DOMAIN s} \cup {k}
<1>1. s \in Seq(S) /\ k \in S
  BY DEF IsList
<1> HIDE DEF S
<1>2. /\ t # <<>> /\ Len(t) = Len(s) + 1 /\ t \in Seq(S) /\ t[Len(t)] = k
      /\ \A i \in 1..Len(s) : t[i] = s[i]
  BY <1>1
<1>3. Head(t) = t[1] /\ Len(s) \in Nat
  BY <1>1, <1>2
<1>4. s # <<>> => Head(s) = s[1] /\ Len(s) > 0
  BY <1>1
<1>5. s = <<>> => Len(s) = 0
  OBVIOUS
<1>6. IsList(t)
  BY <1>2, ListOf
<1> QED
  BY <1>2, <1>3, <1>4, <1>5, <1>6

LEMMA KeyTaken ==
  ASSUME NEW s, IsList(s), s # <<>>, NEW t, t = Tail(s)
  PROVE  /\ IsList(t) /\ Len(t) = Len(s) - 1 /\ Len(s) \in Nat \ {0}
         /\ Head(s) = s[1] /\ 1 \in 1..Len(s)
         /\ \A i \in 1..Len(t) : i + 1 \in 1..Len(s) /\ t[i] = s[i + 1]
<1> DEFINE S == {s[i] : i \in DOMAIN s}
<1>1. s \in Seq(S)
  BY DEF IsList
<1> HIDE DEF S
<1>2. t \in Seq(S) /\ Len(t) = Len(s) - 1 /\ Len(s) \in Nat \ {0} /\ Head(s) = s[1]
      /\ \A i \in 1..Len(t) : t[i] = s[i + 1]
  BY <1>1
<1>3. IsList(t)
  BY <1>2, ListOf
<1> QED
  BY <1>2, <1>3

\* A key is sent, by a route that knows what the server was told.
LEMMA SendsKey ==
  ASSUME KeysPlain, AgentPlain, UNCHANGED <<agent, hosted>>, NEW k, Sent(k), k.told \in 0..agent.last,
         TextIsLate,
         agent.asking # 0 /\ k.kind = "text" /\ k.told = agent.asking => ~Quiet
  PROVE  KeysPlain' /\ TextIsLate' /\ ~Quiet' /\ runner'.pass = runner.pass
<1>0. agent.last = agent'.last /\ agent.asking = agent'.asking
  OBVIOUS
<1>1. CASE hosted
  <2>0. IsList(down)
    BY DEF KeysPlain
  <2>1. down' = Append(down, k) /\ input' = input /\ runner' = runner
    BY <1>1 DEF Sent
  <2>9. IsList(down') /\ down' # <<>> /\ Len(down') = Len(down) + 1 /\ Len(down) \in Nat
    BY <2>0, <2>1, KeyAdded
  <2>10. down'[Len(down')] = k /\ \A i \in 1..Len(down) : down'[i] = down[i]
    BY <2>0, <2>1, KeyAdded
  <2>11. (down = <<>> => Head(down') = k) /\ (down # <<>> => Head(down') = Head(down))
    BY <2>0, <2>1, KeyAdded
  <2>3. \A i \in 1..Len(down') : down'[i].told \in 0..agent.last
    BY <2>9, <2>10, <2>11 DEF KeysPlain
  <2>4. KeysPlain'
    BY <1>1, <2>1, <2>9, <2>10, <2>11, <2>3 DEF KeysPlain
  <2>5. ~Quiet'
    BY <2>9, <2>10, <2>11 DEF Quiet
  <2>6. Quiet => NextKey' = k
    BY <2>1, <2>9, <2>10, <2>11 DEF NextKey, Quiet
  <2>7. ~Quiet => NextKey' = NextKey
    BY <2>1, <2>9, <2>10, <2>11 DEF NextKey, Quiet
  <2> QED
    BY <1>0, <2>1, <2>4, <2>5, <2>6, <2>7 DEF TextIsLate
<1>2. CASE ~hosted
  <2>0. IsList(input)
    BY DEF KeysPlain
  <2>1. input' = Append(input, k) /\ down' = down /\ down = <<>> /\ runner' = RunnerAfter(k)
    BY <1>2 DEF Sent, KeysPlain
  <2>9. IsList(input') /\ input' # <<>> /\ Len(input') = Len(input) + 1 /\ Len(input) \in Nat
    BY <2>0, <2>1, KeyAdded
  <2>10. input'[Len(input')] = k /\ \A i \in 1..Len(input) : input'[i] = input[i]
    BY <2>0, <2>1, KeyAdded
  <2>11. (input = <<>> => Head(input') = k) /\ (input # <<>> => Head(input') = Head(input))
    BY <2>0, <2>1, KeyAdded
  <2>3. \A i \in 1..Len(input') : input'[i].told \in 0..agent.last
    BY <2>9, <2>10, <2>11 DEF KeysPlain
  <2>4. KeysPlain'
    BY <1>2, <2>1, <2>9, <2>10, <2>11, <2>3 DEF KeysPlain
  <2>5. ~Quiet'
    BY <2>9, <2>10, <2>11 DEF Quiet
  <2>6. Quiet => NextKey' = k
    BY <2>9, <2>10, <2>11 DEF NextKey, Quiet
  <2>7. ~Quiet => NextKey' = NextKey
    BY <2>1, <2>9, <2>10, <2>11 DEF NextKey, Quiet
  <2>8. runner'.pass = runner.pass
    BY <2>1 DEF RunnerAfter
  <2> QED
    BY <1>0, <2>4, <2>5, <2>6, <2>7, <2>8 DEF TextIsLate
<1> QED
  BY <1>1, <1>2

-----------------------------------------------------------------------------
(* What the server is told, and the gates that raw keys look at.           *)

Shaped(sv) ==
  sv = [gate |-> sv.gate, prompts |-> sv.prompts, serial |-> sv.serial,
        told |-> sv.told, ended |-> sv.ended, threw |-> sv.threw]

\* The server is told nothing, and its pending gate stays or goes.
Tells(sv, nx) == Shaped(nx) /\ nx.told = sv.told /\ nx.gate \in {sv.gate, NoGate}

LEMMA TellsNothing ==
  ASSUME NEW sv, Shaped(sv), NEW nx
  PROVE  /\ nx = CloseGate(sv) => Tells(sv, nx)
         /\ \A ps : nx = Dropped(sv, ps) => Tells(sv, nx)
         /\ \A ps : nx = [sv EXCEPT !.prompts = ps] => Tells(sv, nx)
         /\ \A p, terminal : nx = AfterRefusal(sv, p, terminal) => Tells(sv, nx)
         /\ \A p, state : nx = AfterWrite(sv, p, state) => Tells(sv, nx)
         /\ \A keys : nx = ServerAfterKeys(sv, keys) => Tells(sv, nx)
<1>1. \A ps : nx = [sv EXCEPT !.prompts = ps] => Tells(sv, nx) /\ nx.gate = sv.gate
  BY DEF Shaped, Tells
<1>2. \A ps : nx = Dropped(sv, ps) => Tells(sv, nx)
  BY DEF Shaped, Tells, Dropped
<1>3. ASSUME nx = CloseGate(sv)
      PROVE  Tells(sv, nx)
  <2>1. PICK ps : ps = ProviderClosed(sv.prompts, sv.gate.prompt)
    OBVIOUS
  <2>2. nx = Dropped(sv, ps)
    BY <1>3, <2>1 DEF CloseGate, Dropped
  <2> QED
    BY <1>2, <2>2
<1>4. \A p, terminal : nx = AfterRefusal(sv, p, terminal) => \E ps : nx = [sv EXCEPT !.prompts = ps]
  BY Zenon DEF AfterRefusal
<1>5. \A p, state : nx = AfterWrite(sv, p, state) => \E ps : nx = [sv EXCEPT !.prompts = ps]
  BY Zenon DEF AfterWrite
<1>6. \A keys : nx = ServerAfterKeys(sv, keys) => nx = sv \/ nx = CloseGate(sv)
  BY DEF ServerAfterKeys
<1>7. nx = sv => Tells(sv, nx)
  BY DEF Tells
<1> QED
  BY <1>1, <1>2, <1>3, <1>4, <1>5, <1>6, <1>7

LEMMA TellsOn ==
  ASSUME NEW a, NEW b, NEW c, Tells(a, b), Tells(b, c)
  PROVE  Tells(a, c)
  BY DEF Tells

\* An announcement is pending unless it throws, and tells of a dialog whose options it has.
LEMMA ToldIs ==
  ASSUME ServerTypes, NEW view, NEW occ, NEW shown, server' = ShowGate(server, view, occ, shown)
  PROVE  /\ server'.gate.view = view \/ (server'.gate = server.gate /\ server'.told = server.told)
         /\ server'.told = server.told \/ (server'.told = shown /\ view # Blank)
         /\ occ = 0 => server'.gate.view = view
<1>1. server = [gate |-> server.gate, prompts |-> server.prompts, serial |-> server.serial,
                told |-> server.told, ended |-> server.ended, threw |-> server.threw]
  BY DEF ServerTypes, ServerRec
<1> DEFINE same    == server.gate.view = view /\ (occ = 0 \/ server.gate.occ = occ)
           opens   == view # Blank
           renewed == IF opens THEN Append(GateRetired, NewPrompt(OpenedAs(GateRetired, occ))) ELSE GateRetired
           gate == [view |-> view, prompt |-> IF opens THEN Len(renewed) ELSE 0,
                       occ |-> occ, serial |-> server.serial + 1]
           told == IF opens THEN shown ELSE server.told
<1>2. CASE same
  <2>1. server' = [server EXCEPT !.told = told]
    BY <1>2 DEF ShowGate
  <2> HIDE DEF told
  <2>2. server'.gate = server.gate /\ server'.told = told
    BY <1>1, <2>1
  <2> QED
    BY <1>2, <2>2 DEF told
<1>3. CASE ~same /\ opens /\ Throws(GateRetired, occ)
  <2>1. server' = [server EXCEPT !.prompts = GateRetired, !.threw = TRUE]
    BY <1>3 DEF ShowGate, GateRetired
  <2>2. server'.gate = server.gate /\ server'.told = server.told
    BY <1>1, <2>1
  <2> QED
    BY <1>3, <2>2 DEF Throws
<1>4. CASE ~same /\ ~(opens /\ Throws(GateRetired, occ))
  <2>1. server' = [server EXCEPT !.prompts = renewed, !.gate = gate, !.serial = server.serial + 1, !.told = told]
    BY <1>4 DEF ShowGate, GateRetired
  <2> HIDE DEF renewed, gate, told
  <2>2. server'.gate = gate /\ server'.told = told
    BY <1>1, <2>1
  <2> QED
    BY <2>2 DEF gate, told
<1> QED
  BY <1>2, <1>3, <1>4

LEMMA LooksStay ==
  ASSUME LooksAtGate, RequestInv, ServerTypes, UNCHANGED route, GateMoves,
         \A r \in Requests : \/ req'[r] = req[r] \/ req'[r].pc # "reading"
                             \/ req'[r].view = server.gate.view /\ server'.gate = server.gate
  PROVE  LooksAtGate'
<1> SUFFICES ASSUME NEW r \in Requests, req'[r].pc = "reading", route[r] \in {"enter", "escape"},
                    server'.gate.prompt = req'[r].prompt
             PROVE  server'.gate.view = req'[r].view
  BY DEF LooksAtGate
<1>1. CASE req'[r] = req[r]
  <2>1. Reading(r) /\ route[r] # "text"
    BY <1>1 DEF Reading
  <2>2. req[r].prompt \in 1..Len(server.prompts) /\ req[r].prompt # 0
    BY <2>1, NamedRecord
  <2>3. server'.gate = server.gate
    BY <1>1, <2>2 DEF GateMoves, NoGate, ServerTypes, ServerRec
  <2> QED
    BY <1>1, <2>3 DEF LooksAtGate
<1> QED
  BY <1>1

-----------------------------------------------------------------------------
(* The routes.                                                             *)

\* What a route sends is its keys, and the server is told nothing.
LEMMA ResumeTells ==
  ASSUME GatesSafe, NEW r \in Requests, NEW seen, Resume(r, seen)
  PROVE  /\ Tells(server, server')
         /\ NothingSent \/ Sent(Keys(r))
<1>1. Shaped(server) /\ Tells(server, server)
  BY DEF GatesSafe, ServerInv, ServerTypes, ServerRec, Shaped, Tells
<1>2. NothingSent \/ Sent(Keys(r))
  BY DEF Resume, ResumePrompt, ResumePromptAgain, ResumeLegacy, ResumeRawKey, ResumeText,
         WritePrompt, WriteLegacy, WriteRawKey, WriteText
<1>3. ASSUME NEW sv, Tells(server, sv)
      PROVE  /\ server' = sv => Tells(server, server')
             /\ \A ps : server' = Dropped(sv, ps) => Tells(server, server')
             /\ \A p, terminal : server' = AfterRefusal(sv, p, terminal) => Tells(server, server')
             /\ \A p, state : server' = AfterWrite(sv, p, state) => Tells(server, server')
  <2>1. Shaped(sv)
    BY <1>3 DEF Tells
  <2>2. /\ \A ps : server' = Dropped(sv, ps) => Tells(sv, server')
        /\ \A p, terminal : server' = AfterRefusal(sv, p, terminal) => Tells(sv, server')
        /\ \A p, state : server' = AfterWrite(sv, p, state) => Tells(sv, server')
    BY <2>1, TellsNothing
  <2>3. Tells(sv, server') => Tells(server, server')
    BY <1>3, TellsOn
  <2> QED
    BY <1>3, <2>2, <2>3
<1>4. ASSUME NEW sv, sv = ServerAfterKeys(server, Keys(r))
      PROVE  Tells(server, sv)
  BY <1>1, <1>4, TellsNothing
<1>5. CASE ResumePrompt(r, seen)
  <2>1. PICK sv : sv = ServerAfterKeys(server, Keys(r))
    OBVIOUS
  <2>2. \/ server' = server
        \/ \E p, terminal : server' = AfterRefusal(server, p, terminal)
        \/ \E p, state : server' = AfterWrite(sv, p, state)
    BY <1>5, <2>1 DEF ResumePrompt, WritePrompt
  <2> QED
    BY <1>1, <1>2, <1>3, <1>4, <2>1, <2>2
<1>6. CASE ResumePromptAgain(r, seen)
  <2>1. PICK sv : /\ sv = server \/ sv = Dropped(server, server.prompts)
                  /\ server' = AfterRefusal(sv, req[r].prompt, TRUE)
    BY <1>6 DEF ResumePromptAgain
  <2>2. Tells(server, sv)
    BY <1>1, <2>1, TellsNothing
  <2> QED
    BY <1>2, <1>3, <2>1, <2>2
<1>7. CASE ResumeLegacy(r, seen)
  <2>1. PICK marked : marked = [server EXCEPT !.prompts[req[r].prompt].answering = TRUE]
    OBVIOUS
  <2>2. Tells(server, marked)
    <3>1. \E ps : marked = [server EXCEPT !.prompts = ps]
      BY <2>1, Zenon
    <3> QED
      BY <1>1, <3>1, TellsNothing
  <2>3. PICK sv : sv = ServerAfterKeys(marked, Keys(r))
    OBVIOUS
  <2>4. Tells(server, sv)
    <3>1. Shaped(marked)
      BY <2>2 DEF Tells
    <3>2. Tells(marked, sv)
      BY <2>3, <3>1, TellsNothing
    <3> QED
      BY <2>2, <3>2, TellsOn
  <2>5. \/ \E p, terminal : server' = AfterRefusal(server, p, terminal)
        \/ \E p, state : server' = AfterWrite(sv, p, state)
        \/ \E ps : server' = Dropped(server, ps)
    BY <1>7, <2>1, <2>3 DEF ResumeLegacy, WriteLegacy
  <2> QED
    BY <1>1, <1>2, <1>3, <2>4, <2>5
<1>8. CASE ResumeRawKey(r, seen)
  <2>1. PICK sv : sv = ServerAfterKeys(server, Keys(r))
    OBVIOUS
  <2>2. \/ server' = server \/ \E ps : server' = Dropped(server, ps)
        \/ \E ps : server' = Dropped(sv, ps)
    BY <1>8, <2>1 DEF ResumeRawKey, WriteRawKey
  <2> QED
    BY <1>1, <1>2, <1>3, <1>4, <2>1, <2>2
<1>9. CASE ResumeText(r, seen)
  <2>1. server' = server \/ server' = Dropped(server, server.prompts)
    BY <1>9 DEF ResumeText
  <2> QED
    BY <1>1, <1>2, <1>3, <2>1
<1> QED
  BY <1>2, <1>5, <1>6, <1>7, <1>8, <1>9 DEF Resume

LEMMA BeginTells ==
  ASSUME GatesSafe, NEW r \in Requests, Begin(r)
  PROVE  /\ server'.told = server.told /\ server'.gate = server.gate
         /\ NothingSent \/ (Sent(Keys(r)) /\ route[r] = "text" /\ ~Pending)
<1>1. server \in ServerRec
  BY DEF GatesSafe, ServerInv, ServerTypes
<1> QED
  BY <1>1 DEF Begin, BeginPrompt, BeginLegacy, BeginRawKey, BeginText, WriteText, ServerRec

\* A dialog that is on the screen and pending stays pending while nothing is sent, and keeps
\* text away.
LEMMA ResumeSparesShown ==
  ASSUME GatesSafe, LooksAtGate, ~Legacy, NEW r \in Requests, NEW seen, Resume(r, seen),
         server.gate.view = seen, seen # None
  PROVE  /\ server'.gate = server.gate \/ Sent(Keys(r))
         /\ route[r] = "text" => NothingSent
<1>1. ~ResumeLegacy(r, seen)
  BY DEF ResumeLegacy, Legacy, Used
<1>2. CASE ResumePrompt(r, seen)
  <2>1. route[r] = "prompt"
    BY <1>2 DEF ResumePrompt
  <2>2. \/ Sent(Keys(r)) \/ server' = server
        \/ \E terminal \in BOOLEAN : server' = AfterRefusal(server, req[r].prompt, terminal)
    BY <1>2 DEF ResumePrompt, WritePrompt
  <2> QED
    BY <2>1, <2>2, RefusalSpares
<1>3. CASE ResumePromptAgain(r, seen)
  <2>1. route[r] = "prompt" /\ server' = AfterRefusal(server, req[r].prompt, TRUE)
    BY <1>3 DEF ResumePromptAgain
  <2> QED
    BY <2>1, RefusalSpares
<1>4. CASE ResumeRawKey(r, seen)
  <2>1. route[r] \in {"enter", "escape"} /\ req[r].pc = "reading"
    BY <1>4 DEF ResumeRawKey
  <2>2. CASE StillOpen(r, seen)
    <3>1. Sent(Keys(r)) \/ server' = server
      BY <1>4, <2>2 DEF ResumeRawKey, WriteRawKey
    <3> QED
      BY <2>1, <3>1
  <2>3. CASE ~StillOpen(r, seen)
    <3>1. server.gate.view # req[r].view
      BY <2>3 DEF StillOpen
    <3>2. server.gate.prompt # req[r].prompt
      BY <2>1, <3>1 DEF LooksAtGate
    <3>3. server' = server
      BY <1>4, <2>3, <3>2 DEF ResumeRawKey
    <3> QED
      BY <2>1, <3>3
  <2> QED
    BY <2>2, <2>3
<1>5. CASE ResumeText(r, seen)
  <2>1. server' = server
    BY <1>5 DEF ResumeText
  <2>2. NothingSent
    BY <1>5, <2>1 DEF ResumeText
  <2> QED
    BY <2>1, <2>2
<1> QED
  BY <1>1, <1>2, <1>3, <1>4, <1>5 DEF Resume

\* A request that was resumed awaits no first look any more.
LEMMA ResumeMovesOn ==
  ASSUME RequestInv, NEW r \in Requests, NEW seen, Resume(r, seen)
  PROVE  req'[r].pc # "reading" /\ \A q \in Requests \ {r} : req'[q] = req[q]
<1>1. req \in [Requests -> RequestRec]
  BY DEF RequestInv
<1>2. PICK pc \in {"done", "rereading"}, result \in {"none", "written", "refused"} : Become(r, pc, result)
  <2>1. \/ Become(r, "done", "written") \/ Become(r, "done", "refused") \/ Become(r, "rereading", "none")
    BY DEF Resume, ResumePrompt, ResumePromptAgain, ResumeLegacy, ResumeRawKey, ResumeText,
           WritePrompt, WriteLegacy, WriteRawKey, WriteText, Refused
  <2> QED
    BY <2>1
<1>3. pc \in Places
  BY DEF Places
<1>4. PICK x \in RequestRec : req' = [req EXCEPT ![r] = x] /\ req'[r] = x /\ x.pc = pc
  BY <1>1, <1>2, <1>3, BecomeIs
<1> QED
  BY <1>1, <1>4

\* What a request that begins will look at is pending.
LEMMA BeginMoves ==
  ASSUME RequestInv, NEW r \in Requests, Begin(r)
  PROVE  /\ req'[r].pc # "reading" \/ req'[r].view = server.gate.view
         /\ \A q \in Requests \ {r} : req'[q] = req[q]
<1>1. req \in [Requests -> RequestRec]
  BY DEF RequestInv
<1>2. CASE Refused(r) \/ Become(r, "done", "written")
  <2>1. PICK result \in {"none", "written", "refused"} : Become(r, "done", result)
    BY <1>2 DEF Refused
  <2>2. "done" \in Places
    BY DEF Places
  <2>3. PICK x \in RequestRec : req' = [req EXCEPT ![r] = x] /\ req'[r] = x /\ x.pc = "done"
    BY <1>1, <2>1, <2>2, BecomeIs
  <2> QED
    BY <1>1, <2>3
<1>3. ASSUME NEW p, Await(r, p)
      PROVE  req'[r].view = server.gate.view /\ \A q \in Requests \ {r} : req'[q] = req[q]
  BY <1>1, <1>3 DEF Await
<1>4. Refused(r) \/ Become(r, "done", "written") \/ \E p : Await(r, p)
  BY DEF Begin, BeginPrompt, BeginLegacy, BeginRawKey, BeginText, WriteText
<1> QED
  BY <1>2, <1>3, <1>4

\* A request resumes; in front of a dialog that was told of, the screen shows it.
LEMMA ResumeKeepsText ==
  ASSUME GatesIInv, TextKept, ~Legacy, UNCHANGED <<setup, agent>>, NEW r \in Requests, NEW seen,
         Resume(r, seen), agent.asking # 0 /\ server.told = agent.asking => seen = Shown
  PROVE  /\ server'.told = server.told /\ runner'.pass = runner.pass /\ (Quiet' => Quiet)
         /\ KeysPlain' /\ TextIsLate' /\ LooksAtGate'
         /\ agent.asking # 0 /\ server.told = agent.asking /\ Quiet' => server'.gate.view = Shown
<1>1. /\ GatesSafe /\ RequestInv /\ ServerTypes /\ SetupTypes /\ RunnerTypes /\ UNCHANGED <<route, hosted>>
      /\ LooksAtGate /\ KeysPlain /\ AgentPlain /\ TextIsLate /\ server.told \in 0..agent.last
  BY DEF GatesIInv, GatesSafe, ServerInv, TextKept, setup, AgentPlain
<1>2. Tells(server, server') /\ (NothingSent \/ Sent(Keys(r)))
  BY <1>1, ResumeTells
<1>3. server'.told = server.told /\ server'.gate \in {server.gate, NoGate}
  BY <1>2 DEF Tells
<1>4. LooksAtGate'
  <2>1. GateMoves
    BY <1>3 DEF GateMoves
  <2>2. \A q \in Requests : req'[q] = req[q] \/ req'[q].pc # "reading"
    BY <1>1, ResumeMovesOn
  <2> QED
    BY <1>1, <2>1, <2>2, LooksStay
<1>5. ASSUME agent.asking # 0, server.told = agent.asking, Quiet
      PROVE  /\ server.gate.view = Shown /\ seen = Shown /\ seen # None
             /\ server'.gate = server.gate \/ Sent(Keys(r))
             /\ route[r] = "text" => NothingSent
  <2>1. server.gate.view = Shown /\ seen = Shown
    BY <1>5 DEF TextKept, ServerBelieves
  <2>2. seen # None
    BY <1>1, <1>5, <2>1, AgentFields
  <2> QED
    BY <1>1, <2>1, <2>2, ResumeSparesShown
<1>6. CASE NothingSent
  <2>1. UNCHANGED <<runner, input, down>>
    BY <1>6 DEF NothingSent
  <2>2. KeysPlain' /\ TextIsLate' /\ (Quiet' <=> Quiet) /\ runner'.pass = runner.pass
    BY <1>1, <2>1 DEF KeysPlain, TextIsLate, Quiet, NextKey
  <2>3. ASSUME agent.asking # 0, server.told = agent.asking, Quiet'
        PROVE  server'.gate.view = Shown
    <3>1. Quiet
      BY <2>2, <2>3
    <3>2. ~Sent(Keys(r))
      BY <2>1, <3>1, KeyAdded DEF Sent, Quiet
    <3> QED
      BY <1>5, <2>3, <3>1, <3>2
  <2> QED
    BY <1>3, <1>4, <2>2, <2>3
<1>7. CASE Sent(Keys(r)) /\ ~NothingSent
  <2>1. Keys(r).told = server.told /\ (Keys(r).kind = "text" => route[r] = "text")
    <3>1. route[r] \in Routes
      BY <1>1 DEF SetupTypes
    <3> QED
      BY <3>1 DEF Keys, Routes
  <2>2. agent.asking # 0 /\ Keys(r).kind = "text" /\ Keys(r).told = agent.asking => ~Quiet
    BY <1>5, <1>7, <2>1
  <2>3. PICK k : k = Keys(r)
    OBVIOUS
  <2>4. KeysPlain' /\ TextIsLate' /\ ~Quiet' /\ runner'.pass = runner.pass
    BY <1>1, <1>7, <2>1, <2>2, <2>3, SendsKey
  <2> QED
    BY <1>3, <1>4, <2>4
<1> QED
  BY <1>2, <1>6, <1>7

\* A request begins.
LEMMA BeginKeepsText ==
  ASSUME GatesIInv, TextKept, UNCHANGED <<setup, agent>>, NEW r \in Requests, Begin(r)
  PROVE  /\ server'.told = server.told /\ runner'.pass = runner.pass /\ (Quiet' => Quiet)
         /\ KeysPlain' /\ TextIsLate' /\ LooksAtGate'
         /\ agent.asking # 0 /\ server.told = agent.asking /\ Quiet' => server'.gate.view = Shown
<1>1. /\ GatesSafe /\ RequestInv /\ ServerTypes /\ SetupTypes /\ RunnerTypes /\ UNCHANGED <<route, hosted>>
      /\ LooksAtGate /\ KeysPlain /\ AgentPlain /\ TextIsLate /\ server.told \in 0..agent.last
  BY DEF GatesIInv, GatesSafe, ServerInv, TextKept, setup, AgentPlain
<1>2. /\ server'.told = server.told /\ server'.gate = server.gate
      /\ NothingSent \/ (Sent(Keys(r)) /\ route[r] = "text" /\ ~Pending)
  BY <1>1, BeginTells
<1>3. LooksAtGate'
  <2>1. GateMoves
    BY <1>2 DEF GateMoves
  <2>2. \A q \in Requests : \/ req'[q] = req[q] \/ req'[q].pc # "reading"
                            \/ req'[q].view = server.gate.view /\ server'.gate = server.gate
    BY <1>1, <1>2, BeginMoves
  <2> QED
    BY <1>1, <2>1, <2>2, LooksStay
<1>4. ASSUME agent.asking # 0, server.told = agent.asking, Quiet
      PROVE  server.gate.view = Shown /\ Pending
  <2>1. server.gate.view = Shown
    BY <1>4 DEF TextKept, ServerBelieves
  <2> QED
    BY <1>1, <1>4, <2>1, AgentFields DEF Pending
<1>5. CASE NothingSent
  <2>1. UNCHANGED <<runner, input, down>>
    BY <1>5 DEF NothingSent
  <2>2. KeysPlain' /\ TextIsLate' /\ (Quiet' <=> Quiet) /\ runner'.pass = runner.pass
    BY <1>1, <2>1 DEF KeysPlain, TextIsLate, Quiet, NextKey
  <2> QED
    BY <1>2, <1>3, <1>4, <2>2
<1>6. CASE Sent(Keys(r)) /\ ~Pending
  <2>1. Keys(r).told = server.told
    BY DEF Keys
  <2>2. agent.asking # 0 /\ Keys(r).kind = "text" /\ Keys(r).told = agent.asking => ~Quiet
    BY <1>4, <1>6, <2>1
  <2>3. PICK k : k = Keys(r)
    OBVIOUS
  <2>4. KeysPlain' /\ TextIsLate' /\ ~Quiet' /\ runner'.pass = runner.pass
    BY <1>1, <1>6, <2>1, <2>2, <2>3, SendsKey
  <2> QED
    BY <1>2, <1>3, <2>4
<1> QED
  BY <1>2, <1>5, <1>6

-----------------------------------------------------------------------------
(* The agent and the runner.                                               *)

\* What is left to show when the server and the keys stay as they are.
LEMMA AgentStep ==
  ASSUME TextKept, GatesIInv, UNCHANGED <<setup, host, up, down, server, req>>,
         input' = input \/ agent'.asking = 0, IsList(input'),
         \A i \in 1..Len(input') : input'[i].told \in 0..agent.last,
         agent'.last \in {agent.last, agent.last + 1},
         agent'.painted \in {0, agent'.last}, agent'.asking \in {0, agent'.last},
         agent'.asking # 0 => agent'.alive /\ agent'.painted = agent'.asking,
         \/ agent'.asking = 0 \/ agent'.asking = agent.last + 1
         \/ agent'.asking = agent.asking /\ (agent.filled /\ runner.pass # "waiting" =>
                                               agent'.filled /\ runner'.pass # "waiting"),
         ~agent'.hit
  PROVE  TextKept'
<1>1. /\ AgentPlain /\ KeysPlain /\ HeardIsShown /\ ServerBelieves /\ QueueBelieves /\ TextIsLate
      /\ LooksAtGate /\ RunnerTypes /\ agent.last \in Nat
      /\ QueueTypes
  BY DEF TextKept, GatesIInv, RunnerTypes, QueueInv
<1>2. agent'.last \in Nat /\ \A t : t \in 0..agent.last => t \in 0..agent'.last /\ t # agent.last + 1
  BY <1>1
<1>3. AgentPlain'
  BY <1>1, <1>2 DEF AgentPlain
<1>4. KeysPlain'
  BY <1>1, <1>2 DEF KeysPlain, setup
<1>5. LooksAtGate'
  BY <1>1 DEF LooksAtGate, setup
<1>6. CASE agent'.asking = 0
  BY <1>3, <1>4, <1>5, <1>6
  DEF TextKept, HeardIsShown, ServerBelieves, QueueBelieves, TextIsLate
<1>7. CASE agent'.asking = agent.last + 1 /\ agent'.asking # 0
  <2>1. ~(server'.told = agent'.asking)
    BY <1>1, <1>2, <1>7 DEF AgentPlain
  <2>2. \A i \in 1..Len(up) : ~(AnnouncesAsked(up[i])')
    BY <1>1, <1>2, <1>7 DEF AgentPlain, AnnouncesAsked
  <2>3. HeardIsShown' /\ ServerBelieves' /\ QueueBelieves'
    BY <2>1, <2>2 DEF HeardIsShown, Heard, ServerBelieves, QueueBelieves
  <2>4. TextIsLate'
    <3> SUFFICES ASSUME ~Quiet'
                 PROVE  NextKey'.told # agent'.asking
      BY DEF TextIsLate
    <3>1. input' # <<>> \/ down' # <<>>
      BY DEF Quiet
    <3>2. \/ NextKey' = input'[1] /\ 1 \in 1..Len(input')
          \/ NextKey' = down[1] /\ 1 \in 1..Len(down)
      <4>1. CASE input' # <<>>
        <5>1. PICK s : s = input'
          OBVIOUS
        <5>2. IsList(s) /\ s # <<>>
          BY <4>1, <5>1
        <5>3. Head(s) = s[1] /\ 1 \in 1..Len(s)
          BY <5>2, KeyTaken
        <5> QED
          BY <4>1, <5>1, <5>3 DEF NextKey
      <4>2. CASE input' = <<>>
        <5>1. down # <<>> /\ IsList(down) /\ NextKey' = Head(down)
          BY <1>1, <3>1, <4>2 DEF NextKey, KeysPlain
        <5>2. Head(down) = down[1] /\ 1 \in 1..Len(down)
          BY <5>1, KeyTaken
        <5> QED
          BY <5>1, <5>2
      <4> QED
        BY <4>1, <4>2
    <3>3. NextKey'.told \in 0..agent.last
      BY <1>1, <3>2 DEF KeysPlain
    <3> QED
      BY <1>2, <1>7, <3>3
  <2> QED
    BY <1>3, <1>4, <1>5, <2>3, <2>4 DEF TextKept
<1>8. CASE /\ agent'.asking = agent.asking /\ agent'.asking # 0
           /\ agent.filled /\ runner.pass # "waiting" => agent'.filled /\ runner'.pass # "waiting"
  <2>1. input' = input /\ UNCHANGED <<content, up>>
    BY <1>8 DEF setup
  <2>2. (Quiet' <=> Quiet) /\ NextKey' = NextKey
    BY <2>1 DEF Quiet, NextKey
  <2>3. QueueBelieves' /\ (AllBelieved => AllBelieved')
    BY <1>1, <1>8, <2>1, <2>2, BelievedStays
  <2>4. Heard' <=> Heard
    BY <1>8 DEF Heard, AnnouncesAsked
  <2>5. HeardIsShown'
    BY <1>1, <1>8, <2>4 DEF HeardIsShown
  <2>6. ServerBelieves'
    BY <1>1, <1>8, <2>1, <2>2, <2>3 DEF ServerBelieves, Shown
  <2>7. TextIsLate'
    BY <1>1, <1>8, <2>2 DEF TextIsLate
  <2> QED
    BY <1>3, <1>4, <1>5, <2>3, <2>5, <2>6, <2>7 DEF TextKept
<1> QED
  BY <1>6, <1>7, <1>8

LEMMA AgentKeepsText ==
  ASSUME GatesIInv, TextKept, UNCHANGED setup,
         \/ Raise \/ Paint \/ Dismiss \/ Erase \/ ReadKeys
         \/ \E notify \in {"chunk", "permission", "waiting"} : BeginPass(notify)
  PROVE  TextKept'
<1>1. /\ RunnerTypes /\ AgentPlain /\ KeysPlain /\ ~agent.hit /\ TextIsLate
      /\ UNCHANGED <<host, up, down, server, req>>
  BY DEF GatesIInv, TextKept, Raise, Paint, Dismiss, Erase, ReadKeys, BeginPass
<1>2. /\ agent.last \in Nat /\ agent.asking \in {0, agent.last} /\ agent.painted \in {0, agent.last}
      /\ agent.asking # 0 => agent.alive /\ agent.painted = agent.asking
      /\ IsList(input) /\ \A i \in 1..Len(input) : input[i].told \in 0..agent.last
  BY <1>1 DEF RunnerTypes, AgentPlain, KeysPlain
<1>3. agent = [alive |-> agent.alive, asking |-> agent.asking, painted |-> agent.painted,
               filled |-> agent.filled, last |-> agent.last, osc |-> agent.osc, hit |-> agent.hit]
  BY <1>1 DEF RunnerTypes
<1>4. CASE Raise
  <2>1. /\ agent'.asking = agent.last + 1 /\ agent'.painted = agent.last + 1
        /\ agent'.last = agent.last + 1 /\ agent'.hit = agent.hit /\ agent'.alive = agent.alive
        /\ agent.alive /\ input' = input
    BY <1>3, <1>4 DEF Raise
  <2> QED
    BY <1>1, <1>2, <2>1, AgentStep
<1>5. CASE Paint \/ Erase
  <2>1. /\ agent'.asking = agent.asking /\ agent'.last = agent.last /\ agent'.alive = agent.alive
        /\ agent'.hit = agent.hit /\ input' = input /\ runner' = runner
        /\ \/ agent'.painted = agent.painted /\ agent'.filled = TRUE
           \/ agent'.painted = 0 /\ agent.asking = 0
    BY <1>3, <1>5 DEF Paint, Erase
  <2> QED
    BY <1>1, <1>2, <2>1, AgentStep
<1>6. CASE Dismiss
  <2>1. /\ agent'.asking = 0 /\ agent'.last = agent.last /\ agent'.painted = agent.painted
        /\ agent'.hit = agent.hit /\ input' = input
    BY <1>3, <1>6 DEF Dismiss
  <2> QED
    BY <1>1, <1>2, <2>1, AgentStep
<1>7. CASE ReadKeys
  <2>1. input # <<>> /\ input' = Tail(input)
    BY <1>7 DEF ReadKeys
  <2>2. ~(Head(input).kind = "text" /\ agent.asking # 0 /\ Head(input).told = agent.asking)
    BY <1>1, <2>1 DEF TextIsLate, Quiet, NextKey
  <2>3. /\ agent'.asking = 0 /\ agent'.last = agent.last /\ agent'.painted = agent.painted
        /\ ~agent'.hit
    BY <1>1, <1>3, <1>7, <2>2 DEF ReadKeys
  <2>4. IsList(input') /\ \A i \in 1..Len(input') : i + 1 \in 1..Len(input) /\ input'[i] = input[i + 1]
    BY <1>2, <2>1, KeyTaken
  <2>5. \A i \in 1..Len(input') : input'[i].told \in 0..agent.last
    BY <1>2, <2>4
  <2> QED
    BY <1>1, <1>2, <2>3, <2>4, <2>5, AgentStep
<1>8. ASSUME NEW notify \in {"chunk", "permission", "waiting"}, BeginPass(notify)
      PROVE  TextKept'
  <2>1. /\ agent'.asking = agent.asking /\ agent'.last = agent.last /\ agent'.alive = agent.alive
        /\ agent'.painted = agent.painted /\ agent'.filled = agent.filled
        /\ agent'.hit = agent.hit /\ input' = input
    BY <1>3, <1>8 DEF BeginPass
  <2>2. agent.asking # 0 => runner'.pass # "waiting"
    BY <1>1, <1>8 DEF BeginPass, RunnerTypes
  <2> QED
    BY <1>1, <1>2, <2>1, <2>2, AgentStep
<1> QED
  BY <1>4, <1>5, <1>6, <1>7, <1>8

\* What is left to show when the agent and the keys stay as they are.
LEMMA RunnerStep ==
  ASSUME TextKept, GatesIInv, UNCHANGED <<setup, agent, input, down>>,
         runner'.pass \in {runner.pass, "none"}, LooksAtGate', server'.told \in 0..agent.last,
         \A i \in 1..Len(up') : up'[i].ev = "gate" => up'[i].dialog \in 0..agent.last,
         agent.asking # 0 => QueueBelieves',
         agent.asking # 0 /\ Heard' => agent.filled /\ (runner.pass = "waiting" => runner'.pass = "none"),
         agent.asking # 0 /\ server'.told = agent.asking =>
           AllBelieved' /\ (Quiet => server'.gate.view = Shown)
  PROVE  TextKept'
<1>1. AgentPlain' /\ KeysPlain' /\ TextIsLate' /\ (Quiet' <=> Quiet) /\ ~agent'.hit
  BY DEF TextKept, AgentPlain, KeysPlain, TextIsLate, Quiet, NextKey, setup
<1>2. HeardIsShown'
  BY DEF HeardIsShown
<1>3. QueueBelieves' /\ ServerBelieves'
  BY <1>1 DEF QueueBelieves, ServerBelieves, Shown, setup
<1> QED
  BY <1>1, <1>2, <1>3 DEF TextKept

\* The announcement of what is on the screen, or of a gate without options.
LEMMA AnnounceKeepsText ==
  ASSUME GatesIInv, TextKept, UNCHANGED <<setup, agent, input, down, req>>,
         NEW view \in Views \ {None}, Announce(view), runner'.pass = "none",
         view = Screen \/ (view = Blank /\ Screen = None)
  PROVE  TextKept'
<1>1. /\ AgentPlain /\ KeysPlain /\ HeardIsShown /\ ServerBelieves /\ QueueBelieves
      /\ LooksAtGate /\ RunnerTypes /\ SetupTypes /\ QueueTypes /\ ServerTypes /\ RequestInv
      /\ HostedOnly /\ agent.last \in Nat /\ UNCHANGED <<route, hosted, content>>
  BY DEF TextKept, GatesIInv, RunnerTypes, QueueInv, GatesSafe, ServerInv, setup
<1>2. /\ server.told \in 0..agent.last /\ agent.painted \in 0..agent.last
      /\ agent.asking # 0 => agent.painted = agent.asking
      /\ \A i \in 1..Len(up) : up[i].ev = "gate" => up[i].dialog \in 0..agent.last
  BY <1>1 DEF AgentPlain
<1>3. agent.asking # 0 /\ view # Blank => agent.filled /\ view = Shown
  BY <1>1, <1>2 DEF Screen, Shown
<1>4. agent.asking # 0 /\ Heard => view # Blank /\ agent.filled /\ view = Shown
  <2> SUFFICES ASSUME agent.asking # 0, Heard
               PROVE  view # Blank
    BY <1>3
  <2>1. Screen = Shown /\ Shown \notin {None, Blank}
    BY <1>1, HeardIsOnScreen
  <2> QED
    BY <2>1
<1>5. CASE hosted
  <2>1. PICK m : /\ up' = Append(up, m) /\ m.ev = "gate" /\ m.view = view /\ m.dialog = agent.painted
    <3>1. PICK id : up' = Append(up, [ev |-> "gate", view |-> view, occ |-> id, dialog |-> agent.painted])
      BY <1>5 DEF Announce
    <3> QED
      BY <3>1
  <2>2. server' = server
    BY <1>5 DEF Announce
  <2>3. LooksAtGate'
    BY <1>1, <2>2 DEF LooksAtGate
  <2>4. /\ Len(up') = Len(up) + 1 /\ up'[Len(up')] = m
        /\ \A i \in 1..Len(up) : up'[i] = up[i]
        /\ Len(up) \in Nat
    BY <1>1, <2>1, Appending
  <2>5. \A i \in 1..Len(up') : up'[i].ev = "gate" => up'[i].dialog \in 0..agent.last
    BY <1>2, <2>1, <2>4
  <2>6. ASSUME agent.asking # 0
        PROVE  /\ QueueBelieves'
               /\ server.told = agent.asking /\ AllBelieved => AllBelieved'
               /\ (\E i \in 1..Len(up) : AnnouncesAsked(up[i]))' =>
                    AnnouncesAsked(m) \/ \E i \in 1..Len(up) : AnnouncesAsked(up[i])
    <3>1. Quiet' <=> Quiet
      BY DEF Quiet
    <3>2. ASSUME Heard \/ AnnouncesAsked(m)
          PROVE  Believed(m)'
      <4>1. view = Shown
        BY <1>3, <1>4, <2>1, <2>6, <3>2 DEF AnnouncesAsked
      <4>2. Shown' = Shown
        BY <1>1 DEF Shown
      <4> QED
        BY <2>1, <4>1, <4>2 DEF Believed
    <3> QED
      BY <1>1, <2>1, <2>6, <3>1, <3>2, BelievedGrows
  <2>7. agent.asking # 0 /\ Heard' => agent.filled
    <3> SUFFICES ASSUME agent.asking # 0, Heard'
                 PROVE  agent.filled
      OBVIOUS
    <3>1. Heard \/ AnnouncesAsked(m)
      BY <2>2, <2>6 DEF Heard
    <3> QED
      BY <1>3, <1>4, <2>1, <3>1 DEF AnnouncesAsked
  <2>8. agent.asking # 0 /\ server'.told = agent.asking =>
           AllBelieved' /\ (Quiet => server'.gate.view = Shown)
    BY <1>1, <2>2, <2>6 DEF ServerBelieves
  <2> QED
    BY <1>2, <2>2, <2>3, <2>5, <2>6, <2>7, <2>8, RunnerStep
<1>6. CASE ~hosted
  <2>1. server' = ShowGate(server, view, 0, agent.painted) /\ up' = up /\ up = <<>> /\ Len(up) = 0
    BY <1>1, <1>6 DEF Announce, HostedOnly
  <2>2. /\ server'.gate.view = view
        /\ server'.told = server.told \/ (server'.told = agent.painted /\ view # Blank)
    BY <1>1, <2>1, ToldIs
  <2>3. LooksAtGate'
    <3>1. /\ agent.painted \in 0..Dialogs /\ 0 \in Nat
      BY <1>1 DEF RunnerTypes
    <3>2. Repeating \/ Throwing(0) \/ Opening(view, 0)
      BY <1>1, <2>1, <3>1, ShowGateIs
    <3>3. Len(GateRetired) = Len(server.prompts) /\ Len(server.prompts) \in Nat
      BY <1>1, RetiredIs
    <3>4. GateMoves
      BY <3>2, <3>3 DEF Repeating, Throwing, Opening, GateMoves
    <3> QED
      BY <1>1, <3>4, LooksStay
  <2>4. QueueBelieves' /\ AllBelieved'
    BY <2>1 DEF QueueBelieves, AllBelieved
  <2>5. agent.asking # 0 /\ Heard' => view # Blank
    <3> SUFFICES ASSUME agent.asking # 0, server'.told = agent.asking
                 PROVE  view # Blank
      BY <2>1 DEF Heard
    <3> QED
      BY <1>4, <2>2 DEF Heard
  <2>6. server'.told \in 0..agent.last
    BY <1>2, <2>2
  <2>7. server'.told = agent.asking => Heard'
    BY DEF Heard
  <2> QED
    BY <1>2, <1>3, <2>1, <2>2, <2>3, <2>4, <2>5, <2>6, <2>7, RunnerStep
<1> QED
  BY <1>5, <1>6

\* A detector pass.  It closes no gate of a dialog that was told of.
LEMMA PassKeepsText ==
  ASSUME GatesIInv, TextKept, UNCHANGED setup, EndPass
  PROVE  TextKept'
<1>1. /\ AgentPlain /\ KeysPlain /\ HeardIsShown /\ ServerBelieves /\ QueueBelieves
      /\ LooksAtGate /\ RunnerTypes /\ SetupTypes /\ QueueTypes /\ ServerTypes /\ RequestInv
      /\ HostedOnly /\ UNCHANGED <<route, hosted, content, agent, input, down, req>>
  BY DEF TextKept, GatesIInv, RunnerTypes, QueueInv, GatesSafe, ServerInv, setup, EndPass
<1>2. /\ server.told \in 0..agent.last
      /\ \A i \in 1..Len(up) : up[i].ev = "gate" => up[i].dialog \in 0..agent.last
  BY <1>1 DEF AgentPlain
<1>3. Screen \in Contents \cup {None}
  BY <1>1, ScreenIsView
<1>4. ASSUME ClaimByNotice \/ RefreshOpen \/ ClaimByPaint
      PROVE  \E view \in Views \ {None} :
               Announce(view) /\ runner'.pass = "none" /\ (view = Screen \/ (view = Blank /\ Screen = None))
  <2>1. CASE ClaimByNotice
    <3>1. PICK view : view = IF Screen = None THEN Blank ELSE Screen
      OBVIOUS
    <3>2. view \in Views \ {None}
      BY <1>3, <3>1, ContentsAssumption DEF Views, ContentsAssumption
    <3>3. Announce(view) /\ runner'.pass = "none"
      BY <1>1, <2>1, <3>1 DEF ClaimByNotice, RunnerTypes
    <3> QED
      BY <3>1, <3>2, <3>3
  <2>2. CASE RefreshOpen \/ ClaimByPaint
    <3>1. Screen \in Views \ {None} /\ Announce(Screen) /\ runner'.pass = "none"
      BY <1>1, <1>3, <2>2 DEF RefreshOpen, ClaimByPaint, Views, RunnerTypes
    <3> QED
      BY <3>1
  <2> QED
    BY <1>4, <2>1, <2>2
<1>5. CASE CloseOpen
  <2>1. runner'.pass = "none" /\ (runner.pass = "waiting" \/ Screen = None) /\ AnnounceClose
    BY <1>5 DEF CloseOpen
  <2>2. agent.asking # 0 => ~Heard
    BY <1>1, <2>1, HeardIsOnScreen
  <2>3. CASE hosted
    <3>1. PICK m : up' = Append(up, m) /\ m.ev = "gone"
      BY <2>1, <2>3 DEF AnnounceClose
    <3>2. server' = server
      BY <2>1, <2>3 DEF AnnounceClose
    <3>3. /\ Len(up') = Len(up) + 1 /\ up'[Len(up')] = m
          /\ \A i \in 1..Len(up) : up'[i] = up[i]
          /\ Len(up) \in Nat
      BY <1>1, <3>1, Appending
    <3>4. \A i \in 1..Len(up') : (i \in 1..Len(up) /\ up'[i] = up[i]) \/ up'[i].ev = "gone"
      BY <3>1, <3>3
    <3>5. \A i \in 1..Len(up') : up'[i].ev = "gate" => up'[i].dialog \in 0..agent.last
      BY <1>2, <3>4
    <3>6. agent.asking # 0 => ~Heard'
      <4>1. \A x : AnnouncesAsked(x)' <=> AnnouncesAsked(x)
        BY <1>1 DEF AnnouncesAsked
      <4> SUFFICES ASSUME agent.asking # 0, NEW i \in 1..Len(up'), AnnouncesAsked(up[i])'
                   PROVE  FALSE
        BY <1>1, <2>2, <3>2 DEF Heard
      <4>2. i \in 1..Len(up) /\ up'[i] = up[i]
        BY <3>4 DEF AnnouncesAsked
      <4> QED
        BY <2>2, <4>1, <4>2 DEF Heard
    <3>7. agent.asking # 0 => QueueBelieves' /\ server'.told # agent.asking
      BY <1>1, <3>6 DEF QueueBelieves, Heard
    <3>8. LooksAtGate'
      BY <1>1, <3>2 DEF LooksAtGate
    <3> QED
      BY <1>1, <1>2, <2>1, <3>2, <3>5, <3>6, <3>7, <3>8, RunnerStep
  <2>4. CASE ~hosted
    <3>1. server' = CloseGate(server) /\ up' = up
      BY <2>1, <2>4 DEF AnnounceClose
    <3>2. server'.told = server.told /\ server'.gate = NoGate
      BY <1>1, <3>1 DEF CloseGate, ServerTypes, ServerRec
    <3>3. GateMoves
      BY <3>2 DEF GateMoves
    <3>4. LooksAtGate'
      BY <1>1, <3>3, LooksStay
    <3>5. Heard' <=> Heard
      BY <1>1, <3>1, <3>2 DEF Heard, AnnouncesAsked
    <3>6. agent.asking # 0 => QueueBelieves' /\ server'.told # agent.asking
      BY <1>1, <2>2, <3>1, <3>5 DEF QueueBelieves, Heard
    <3> QED
      BY <1>1, <1>2, <2>1, <2>2, <3>1, <3>2, <3>4, <3>5, <3>6, RunnerStep
  <2> QED
    BY <2>3, <2>4
<1>6. CASE PassIdle
  <2>1. runner'.pass = "none" /\ UNCHANGED <<up, server>>
    BY <1>1, <1>6 DEF PassIdle, Silent, RunnerTypes
  <2>2. LooksAtGate'
    BY <1>1, <2>1 DEF LooksAtGate
  <2>3. Quiet' <=> Quiet
    BY <1>1 DEF Quiet
  <2>4. QueueBelieves' /\ (AllBelieved => AllBelieved')
    BY <1>1, <2>1, <2>3, BelievedStays
  <2>5. Heard' <=> Heard
    BY <1>1, <2>1 DEF Heard, AnnouncesAsked
  <2>6. agent.asking # 0 /\ server.told = agent.asking =>
           AllBelieved' /\ (Quiet => server.gate.view = Shown)
    BY <1>1, <2>4 DEF ServerBelieves
  <2>7. agent.asking # 0 /\ Heard' => agent.filled
    BY <1>1, <2>5 DEF HeardIsShown
  <2> QED
    BY <1>1, <1>2, <2>1, <2>2, <2>4, <2>6, <2>7, RunnerStep
<1> QED
  BY <1>1, <1>4, <1>5, <1>6, AnnounceKeepsText DEF EndPass

-----------------------------------------------------------------------------
(* The keys, the messages and the routes.                                  *)

\* A close that the agent's keys caused: they are still ahead of it.
LEMMA HostKeysKeepText ==
  ASSUME GatesIInv, TextKept, UNCHANGED setup, HostKeys
  PROVE  TextKept'
<1>1. /\ AgentPlain /\ KeysPlain /\ HeardIsShown /\ ServerBelieves /\ QueueBelieves /\ TextIsLate
      /\ LooksAtGate /\ RunnerTypes /\ QueueTypes /\ ~agent.hit
      /\ hosted /\ down # <<>> /\ down' = Tail(down)
      /\ UNCHANGED <<route, hosted, content, agent, req>>
  BY DEF TextKept, GatesIInv, QueueInv, setup, HostKeys
<1>2. /\ \A i \in 1..Len(up) : up[i].ev = "gate" => up[i].dialog \in 0..agent.last
      /\ IsList(down) /\ IsList(input)
  BY <1>1 DEF AgentPlain, KeysPlain
<1>3. PICK k, rest, grown : k = Head(down) /\ rest = down' /\ grown = input'
  OBVIOUS
<1>4. /\ IsList(rest) /\ k = down[1] /\ 1 \in 1..Len(down)
      /\ \A i \in 1..Len(rest) : i + 1 \in 1..Len(down) /\ rest[i] = down[i + 1]
  <2>1. IsList(down) /\ down # <<>> /\ rest = Tail(down)
    BY <1>1, <1>2, <1>3
  <2>2. IsList(rest) /\ Head(down) = down[1] /\ 1 \in 1..Len(down)
    BY <2>1, KeyTaken
  <2>3. \A i \in 1..Len(rest) : i + 1 \in 1..Len(down) /\ rest[i] = down[i + 1]
    BY <2>1, KeyTaken
  <2> QED
    BY <1>3, <2>2, <2>3
<1>5. server' = server
  BY <1>1 DEF HostKeys, AnnounceClose, Silent
<1>6. LooksAtGate'
  BY <1>1, <1>5 DEF LooksAtGate
<1>7. CASE agent.alive
  <2>0. input' = Append(input, Head(down)) /\ runner' = RunnerAfter(Head(down)) /\ (AnnounceClose \/ Silent)
    BY <1>7 DEF HostKeys
  <2>1. grown = Append(input, k) /\ runner'.pass = runner.pass
    BY <1>1, <1>3, <2>0 DEF RunnerAfter, RunnerTypes
  <2>9. IsList(input) /\ grown = Append(input, k)
    BY <1>2, <2>1
  <2>2. IsList(grown) /\ grown # <<>> /\ Len(grown) = Len(input) + 1 /\ Len(input) \in Nat
    BY <2>9, KeyAdded
  <2>3. grown[Len(grown)] = k /\ \A i \in 1..Len(input) : grown[i] = input[i]
    BY <2>9, KeyAdded
  <2>10. (input = <<>> => Head(grown) = k) /\ (input # <<>> => Head(grown) = Head(input))
    BY <2>9, KeyAdded
  <2>4. KeysPlain'
    <3>1. \A i \in 1..Len(grown) : grown[i].told \in 0..agent.last
      BY <1>1, <1>4, <2>2, <2>3 DEF KeysPlain
    <3>2. \A i \in 1..Len(rest) : rest[i].told \in 0..agent.last
      BY <1>1, <1>4 DEF KeysPlain
    <3> QED
      BY <1>1, <1>3, <1>4, <2>2, <3>1, <3>2 DEF KeysPlain
  <2>5. ~Quiet /\ ~Quiet' /\ NextKey' = NextKey
    BY <1>1, <1>3, <2>2, <2>10 DEF Quiet, NextKey
  <2>6. TextIsLate'
    BY <1>1, <2>5 DEF TextIsLate
  <2>7. CASE Silent
    <3>1. up' = up
      BY <2>7 DEF Silent
    <3>2. QueueBelieves' /\ (AllBelieved => AllBelieved')
      BY <1>1, <2>5, <3>1, BelievedStays
    <3>3. Heard' <=> Heard
      BY <1>1, <1>5, <3>1 DEF Heard, AnnouncesAsked
    <3>4. AgentPlain' /\ HeardIsShown' /\ ServerBelieves'
      BY <1>1, <1>5, <2>1, <2>5, <3>1, <3>2, <3>3 DEF AgentPlain, HeardIsShown, ServerBelieves
    <3> QED
      BY <1>1, <1>6, <2>4, <2>6, <3>2, <3>4 DEF TextKept
  <2>8. CASE AnnounceClose
    <3>1. PICK m : up' = Append(up, m) /\ m.ev = "gone"
      BY <1>1, <2>8 DEF AnnounceClose
    <3>2. /\ Len(up') = Len(up) + 1 /\ up'[Len(up')] = m
          /\ \A i \in 1..Len(up) : up'[i] = up[i]
          /\ Len(up) \in Nat
      BY <1>1, <3>1, Appending
    <3>3. AgentPlain'
      BY <1>1, <1>2, <1>5, <3>1, <3>2 DEF AgentPlain
    <3>4. Believed(m)' /\ ~AnnouncesAsked(m)
      BY <2>5, <3>1 DEF Believed, AnnouncesAsked
    <3>5. ASSUME agent.asking # 0
          PROVE  /\ QueueBelieves'
                 /\ server.told = agent.asking /\ AllBelieved => AllBelieved'
                 /\ (\E i \in 1..Len(up) : AnnouncesAsked(up[i]))' =>
                      AnnouncesAsked(m) \/ \E i \in 1..Len(up) : AnnouncesAsked(up[i])
      BY <1>1, <2>5, <3>1, <3>4, <3>5, BelievedGrows
    <3>6. agent.asking # 0 /\ Heard' => Heard
      BY <1>1, <1>5, <3>4, <3>5 DEF Heard
    <3>7. HeardIsShown' /\ ServerBelieves' /\ QueueBelieves'
      BY <1>1, <1>5, <2>1, <2>5, <3>5, <3>6 DEF HeardIsShown, ServerBelieves, QueueBelieves
    <3> QED
      BY <1>1, <1>6, <2>4, <2>6, <3>3, <3>7 DEF TextKept
  <2> QED
    BY <2>0, <2>7, <2>8
<1>8. CASE ~agent.alive
  <2>1. agent.asking = 0 /\ UNCHANGED <<input, up>>
    BY <1>1, <1>8 DEF HostKeys, AgentPlain
  <2>2. KeysPlain'
    <3>1. \A i \in 1..Len(rest) : rest[i].told \in 0..agent.last
      BY <1>1, <1>4 DEF KeysPlain
    <3> QED
      BY <1>1, <1>3, <1>4, <2>1, <3>1 DEF KeysPlain
  <2>3. AgentPlain'
    BY <1>1, <1>5, <2>1 DEF AgentPlain
  <2> QED
    BY <1>1, <1>6, <2>1, <2>2, <2>3
    DEF TextKept, HeardIsShown, ServerBelieves, QueueBelieves, TextIsLate
<1> QED
  BY <1>7, <1>8

LEMMA ExitKeepsText ==
  ASSUME GatesIInv, TextKept, UNCHANGED setup, Exit
  PROVE  TextKept'
<1>1. /\ AgentPlain /\ KeysPlain /\ LooksAtGate /\ RunnerTypes /\ QueueTypes /\ ServerTypes /\ RequestInv
      /\ ~agent.hit /\ UNCHANGED <<route, hosted, content, down, req>> /\ input' = <<>>
  BY DEF TextKept, GatesIInv, QueueInv, GatesSafe, ServerInv, setup, Exit
<1>2. /\ agent'.asking = 0 /\ agent'.last = agent.last /\ agent'.painted = agent.painted
      /\ agent'.hit = agent.hit /\ agent.last \in Nat
  BY DEF Exit, GatesIInv, RunnerTypes
<1>3. IsList(input') /\ Len(input') = 0
  BY <1>1 DEF IsList
<1>4. KeysPlain'
  BY <1>1, <1>2, <1>3 DEF KeysPlain
<1>5. /\ server'.told = server.told /\ LooksAtGate'
      /\ \A i \in 1..Len(up') : up'[i].ev = "gate" => up'[i].dialog \in 0..agent.last
  <2>1. CASE hosted
    <3>1. PICK m : up' = Append(up, m) /\ m.ev = "exit"
      BY <2>1 DEF Exit
    <3>2. /\ Len(up') = Len(up) + 1 /\ up'[Len(up')] = m
          /\ \A i \in 1..Len(up) : up'[i] = up[i]
          /\ Len(up) \in Nat
      BY <1>1, <3>1, Appending
    <3>3. server' = server
      BY <2>1 DEF Exit
    <3> QED
      BY <1>1, <3>1, <3>2, <3>3 DEF LooksAtGate, AgentPlain
  <2>2. CASE ~hosted
    <3>1. server' = EndSession(server) /\ up' = up
      BY <2>2 DEF Exit
    <3>2. server'.told = server.told /\ server'.gate = NoGate
      BY <1>1, <3>1 DEF EndSession, ServerTypes, ServerRec
    <3>3. GateMoves
      BY <3>2 DEF GateMoves
    <3> QED
      BY <1>1, <3>1, <3>2, <3>3, LooksStay DEF AgentPlain
  <2> QED
    BY <2>1, <2>2
<1>6. AgentPlain'
  BY <1>1, <1>2, <1>5 DEF AgentPlain
<1> QED
  BY <1>1, <1>2, <1>4, <1>5, <1>6
  DEF TextKept, HeardIsShown, ServerBelieves, QueueBelieves, TextIsLate

\* What is left to show when a request moves.
LEMMA RouteStep ==
  ASSUME TextKept, UNCHANGED <<setup, agent>>,
         server'.told = server.told, runner'.pass = runner.pass, KeysPlain', TextIsLate', LooksAtGate',
         \A i \in 1..Len(up') : up'[i].ev = "gate" => up'[i].dialog \in 0..agent.last,
         QueueBelieves', agent.asking # 0 /\ Heard' => Heard,
         AllBelieved => AllBelieved',
         agent.asking # 0 /\ server.told = agent.asking /\ Quiet' => server'.gate.view = Shown
  PROVE  TextKept'
<1>1. AgentPlain' /\ HeardIsShown' /\ ~agent'.hit
  BY DEF TextKept, AgentPlain, HeardIsShown
<1>2. ServerBelieves'
  BY DEF TextKept, ServerBelieves, Shown, setup
<1> QED
  BY <1>1, <1>2 DEF TextKept

LEMMA RequestKeepsText ==
  ASSUME GatesIInv, TextKept, ~Legacy, UNCHANGED setup, NEW r \in Requests, Begin(r) \/ ReadScreen(r)
  PROVE  TextKept'
<1>1. /\ AgentPlain /\ KeysPlain /\ HeardIsShown /\ ServerBelieves /\ QueueBelieves /\ TextIsLate
      /\ LooksAtGate /\ RunnerTypes /\ SetupTypes /\ QueueTypes
      /\ UNCHANGED <<route, hosted, content, agent>>
  BY DEF TextKept, GatesIInv, QueueInv, setup, Begin, ReadScreen
<1>2. \A i \in 1..Len(up) : up[i].ev = "gate" => up[i].dialog \in 0..agent.last
  BY <1>1 DEF AgentPlain
<1>3. CASE Begin(r) \/ (ReadScreen(r) /\ ~hosted)
  <2>1. up' = up
    BY <1>3 DEF Begin, ReadScreen
  <2>2. /\ server'.told = server.told /\ runner'.pass = runner.pass /\ (Quiet' => Quiet)
        /\ KeysPlain' /\ TextIsLate' /\ LooksAtGate'
        /\ agent.asking # 0 /\ server.told = agent.asking /\ Quiet' => server'.gate.view = Shown
    <3>1. CASE Begin(r)
      BY <1>1, <3>1, BeginKeepsText
    <3>2. CASE ReadScreen(r) /\ ~hosted
      <4>1. Resume(r, Seen)
        BY <3>2 DEF ReadScreen
      <4>2. agent.asking # 0 /\ server.told = agent.asking => Seen = Shown
        BY <1>1, HeardIsOnScreen DEF Heard
      <4>3. PICK seen : seen = Seen
        OBVIOUS
      <4> QED
        BY <1>1, <4>1, <4>2, <4>3, ResumeKeepsText
    <3> QED
      BY <1>3, <3>1, <3>2
  <2>3. QueueBelieves' /\ (AllBelieved => AllBelieved')
    BY <1>1, <2>1, <2>2, BelievedStays
  <2>4. Heard' <=> Heard
    BY <1>1, <2>1, <2>2 DEF Heard, AnnouncesAsked
  <2> QED
    BY <1>1, <1>2, <2>1, <2>2, <2>3, <2>4, RouteStep
<1>4. CASE ReadScreen(r) /\ hosted
  <2>1. UNCHANGED <<server, req, runner, input, down>>
    BY <1>4 DEF ReadScreen, NothingSent
  <2>2. PICK m : up' = Append(up, m) /\ m.ev = "screen" /\ m.seen = Seen
    BY <1>4 DEF ReadScreen
  <2>3. /\ Len(up') = Len(up) + 1 /\ up'[Len(up')] = m
        /\ \A i \in 1..Len(up) : up'[i] = up[i]
        /\ Len(up) \in Nat
    BY <1>1, <2>2, Appending
  <2>4. \A i \in 1..Len(up') : up'[i].ev = "gate" => up'[i].dialog \in 0..agent.last
    BY <1>2, <2>2, <2>3
  <2>5. LooksAtGate' /\ (Quiet' <=> Quiet)
    BY <1>1, <2>1 DEF LooksAtGate, Quiet
  <2>6. ASSUME agent.asking # 0
        PROVE  /\ QueueBelieves'
               /\ server.told = agent.asking /\ AllBelieved => AllBelieved'
               /\ (\E i \in 1..Len(up) : AnnouncesAsked(up[i]))' =>
                    AnnouncesAsked(m) \/ \E i \in 1..Len(up) : AnnouncesAsked(up[i])
    <3>1. ~AnnouncesAsked(m)
      BY <2>2 DEF AnnouncesAsked
    <3>2. ASSUME Heard
          PROVE  Believed(m)'
      <4>1. Seen = Shown
        BY <1>1, <2>6, <3>2, HeardIsOnScreen
      <4>2. Shown' = Shown
        BY <1>1 DEF Shown
      <4> QED
        BY <2>2, <4>1, <4>2 DEF Believed
    <3> QED
      BY <1>1, <2>2, <2>5, <2>6, <3>1, <3>2, BelievedGrows
  <2>7. agent.asking # 0 /\ Heard' => Heard
    <3> SUFFICES ASSUME agent.asking # 0, Heard'
                 PROVE  Heard
      OBVIOUS
    <3>1. ~AnnouncesAsked(m)
      BY <2>2 DEF AnnouncesAsked
    <3> QED
      BY <1>1, <2>1, <2>6, <3>1 DEF Heard
  <2>8. agent.asking # 0 /\ Heard' => agent.filled /\ (runner.pass = "waiting" => runner'.pass = "none")
    BY <1>1, <2>7 DEF HeardIsShown
  <2>9. agent.asking # 0 /\ server'.told = agent.asking =>
          AllBelieved' /\ (Quiet => server'.gate.view = Shown)
    BY <1>1, <2>1, <2>6 DEF ServerBelieves
  <2>10. server'.told \in 0..agent.last
    BY <1>1, <2>1 DEF AgentPlain
  <2> QED
    BY <1>1, <2>1, <2>4, <2>5, <2>6, <2>8, <2>9, <2>10, RunnerStep
<1> QED
  BY <1>3, <1>4

\* The server takes a message.
LEMMA DeliverKeepsText ==
  ASSUME GatesIInv, TextKept, ~Legacy, UNCHANGED setup, Deliver
  PROVE  TextKept'
<1>1. /\ AgentPlain /\ KeysPlain /\ HeardIsShown /\ ServerBelieves /\ QueueBelieves /\ TextIsLate
      /\ LooksAtGate /\ RunnerTypes /\ SetupTypes /\ QueueTypes /\ ServerTypes /\ RequestInv
      /\ UNCHANGED <<route, hosted, content, agent>> /\ up # <<>> /\ up' = Tail(up)
      /\ agent.last \in Nat
  BY DEF TextKept, GatesIInv, QueueInv, GatesSafe, ServerInv, RunnerTypes, setup, Deliver
<1>2. /\ \A i \in 1..Len(up) : up[i].ev = "gate" => up[i].dialog \in 0..agent.last
      /\ server.told \in 0..agent.last
  BY <1>1 DEF AgentPlain
<1>3. PICK m : m = Head(up)
  OBVIOUS
<1>4. m = up[1] /\ 1 \in 1..Len(up) /\ \A i \in 1..Len(up') : i + 1 \in 1..Len(up) /\ up'[i] = up[i + 1]
  <2>1. IsList(up)
    BY <1>1 DEF QueueTypes
  <2>2. PICK rest : rest = Tail(up)
    OBVIOUS
  <2>3. Head(up) = up[1] /\ 1 \in 1..Len(up)
    BY <1>1, <2>1, <2>2, KeyTaken
  <2>4. \A i \in 1..Len(rest) : i + 1 \in 1..Len(up) /\ rest[i] = up[i + 1]
    BY <1>1, <2>1, <2>2, KeyTaken
  <2> QED
    BY <1>1, <1>3, <2>2, <2>3, <2>4
<1>5. Message(m)
  BY <1>1, <1>4 DEF QueueTypes
<1>6. \A i \in 1..Len(up') : up'[i].ev = "gate" => up'[i].dialog \in 0..agent.last
  BY <1>2, <1>4
<1>7. ASSUME Quiet' => Quiet
      PROVE  /\ QueueBelieves'
             /\ AllBelieved => AllBelieved' /\ Believed(m)
             /\ agent.asking # 0 /\ AnnouncesAsked(m) => AllBelieved' /\ Believed(m)
  BY <1>1, <1>3, <1>7, BelievedTaken
<1>8. agent.asking # 0 /\ server.told = agent.asking => AllBelieved /\ (Quiet => server.gate.view = Shown)
  BY <1>1 DEF ServerBelieves
<1>9. ASSUME agent.asking # 0, NEW i \in 1..Len(up'), AnnouncesAsked(up[i])'
      PROVE  Heard
  <2>1. i + 1 \in 1..Len(up) /\ AnnouncesAsked(up[i + 1])
    BY <1>1, <1>4, <1>9 DEF AnnouncesAsked
  <2> QED
    BY <2>1 DEF Heard
<1>10. ASSUME NothingSent, LooksAtGate', server'.told \in 0..agent.last,
              agent.asking # 0 /\ server'.told = agent.asking =>
                /\ AllBelieved' /\ (Quiet => server'.gate.view = Shown)
                /\ server.told = agent.asking \/ AnnouncesAsked(m)
       PROVE  TextKept'
  <2>1. UNCHANGED <<input, down, runner>>
    BY <1>10 DEF NothingSent
  <2>2. Quiet' <=> Quiet
    BY <2>1 DEF Quiet
  <2>3. agent.asking # 0 /\ Heard' => Heard
    <3> SUFFICES ASSUME agent.asking # 0, Heard'
                 PROVE  Heard
      OBVIOUS
    <3>1. server'.told = agent.asking \/ \E i \in 1..Len(up') : AnnouncesAsked(up[i])'
      BY <1>1 DEF Heard
    <3>2. AnnouncesAsked(m) => Heard
      BY <1>4 DEF Heard
    <3> QED
      BY <1>9, <1>10, <3>1, <3>2 DEF Heard
  <2>4. agent.asking # 0 /\ Heard' => agent.filled /\ (runner.pass = "waiting" => runner'.pass = "none")
    BY <1>1, <2>3 DEF HeardIsShown
  <2>5. QueueBelieves'
    BY <1>7, <2>2
  <2> QED
    BY <1>1, <1>6, <1>10, <2>1, <2>4, <2>5, RunnerStep
<1>11. CASE m.ev = "gate" /\ server' = ShowGate(server, m.view, m.occ, m.dialog) /\ NothingSent /\ UNCHANGED req
  <2>1. m.view \in Views \ {None} /\ m.occ \in Nat /\ m.dialog \in 0..Dialogs /\ m.dialog \in 0..agent.last
    BY <1>2, <1>4, <1>5, <1>11 DEF Message
  <2>2. /\ server'.gate.view = m.view \/ (server'.gate = server.gate /\ server'.told = server.told)
        /\ server'.told = server.told \/ (server'.told = m.dialog /\ m.view # Blank)
    BY <1>1, <1>11, ToldIs
  <2>3. LooksAtGate'
    <3>1. PICK view, occ : view = m.view /\ occ = m.occ
      OBVIOUS
    <3>2. Repeating \/ Throwing(occ) \/ Opening(view, occ)
      BY <1>1, <1>11, <2>1, <3>1, ShowGateIs
    <3>3. Len(GateRetired) = Len(server.prompts) /\ Len(server.prompts) \in Nat
      BY <1>1, RetiredIs
    <3>4. GateMoves
      BY <3>2, <3>3 DEF Repeating, Throwing, Opening, GateMoves
    <3> QED
      BY <1>1, <1>11, <3>4, LooksStay
  <2>4. ASSUME agent.asking # 0, server'.told = agent.asking
        PROVE  /\ AllBelieved' /\ (Quiet => server'.gate.view = Shown)
               /\ server.told = agent.asking \/ AnnouncesAsked(m)
    <3>1. server.told = agent.asking \/ AnnouncesAsked(m)
      BY <1>11, <2>2, <2>4 DEF AnnouncesAsked
    <3>2. Quiet' => Quiet
      BY <1>11 DEF NothingSent, Quiet
    <3>3. AllBelieved' /\ Believed(m)
      BY <1>7, <1>8, <2>4, <3>1, <3>2
    <3>4. m.view = Shown
      BY <1>11, <3>3 DEF Believed
    <3> QED
      BY <1>8, <2>2, <2>4, <3>1, <3>3, <3>4
  <2>5. server'.told \in 0..agent.last
    BY <1>2, <2>1, <2>2
  <2> QED
    BY <1>10, <1>11, <2>3, <2>4, <2>5
<1>12. CASE /\ \/ m.ev = "gone" /\ server' = CloseGate(server)
               \/ m.ev = "exit" /\ server' = EndSession(server)
            /\ NothingSent /\ UNCHANGED req
  <2>1. server'.told = server.told /\ server'.gate = NoGate
    BY <1>1, <1>12 DEF CloseGate, EndSession, ServerTypes, ServerRec
  <2>2. GateMoves
    BY <2>1 DEF GateMoves
  <2>3. LooksAtGate'
    BY <1>1, <1>12, <2>2, LooksStay
  <2>4. ASSUME agent.asking # 0, server'.told = agent.asking
        PROVE  AllBelieved' /\ ~Quiet /\ server.told = agent.asking
    <3>1. Quiet' => Quiet
      BY <1>12 DEF NothingSent, Quiet
    <3>2. AllBelieved' /\ Believed(m)
      BY <1>7, <1>8, <2>1, <2>4, <3>1
    <3> QED
      BY <1>12, <2>1, <2>4, <3>2 DEF Believed
  <2> QED
    BY <1>2, <1>10, <1>12, <2>1, <2>3, <2>4
<1>13. CASE m.ev = "screen" /\ Resume(m.to, m.seen)
  <2>0. PICK r \in Requests : r = m.to
    BY <1>5, <1>13 DEF Message
  <2>1. PICK seen : r = m.to /\ seen = m.seen
    BY <2>0
  <2>2. agent.asking # 0 /\ server.told = agent.asking => seen = Shown
    <3> SUFFICES ASSUME agent.asking # 0, server.told = agent.asking
                 PROVE  seen = Shown
      OBVIOUS
    <3>1. Believed(m)
      BY <1>4, <1>8 DEF AllBelieved
    <3> QED
      BY <1>13, <2>1, <3>1 DEF Believed
  <2>3. Resume(r, seen)
    BY <1>13, <2>1
  <2>4. /\ server'.told = server.told /\ runner'.pass = runner.pass /\ (Quiet' => Quiet)
        /\ KeysPlain' /\ TextIsLate' /\ LooksAtGate'
        /\ agent.asking # 0 /\ server.told = agent.asking /\ Quiet' => server'.gate.view = Shown
    BY <1>1, <2>2, <2>3, ResumeKeepsText
  <2>5. QueueBelieves' /\ (AllBelieved => AllBelieved')
    BY <1>7, <2>4
  <2>6. agent.asking # 0 /\ Heard' => Heard
    <3> SUFFICES ASSUME agent.asking # 0, Heard'
                 PROVE  Heard
      OBVIOUS
    <3>1. server'.told = agent.asking \/ \E i \in 1..Len(up') : AnnouncesAsked(up[i])'
      BY <1>1 DEF Heard
    <3> QED
      BY <1>9, <2>4, <3>1 DEF Heard
  <2> QED
    BY <1>1, <1>6, <2>4, <2>5, <2>6, RouteStep
<1> QED
  BY <1>3, <1>11, <1>12, <1>13 DEF Deliver

\* Whatever the agent asks and whoever answers, text that the server takes reaches no dialog
\* it was told of.
LEMMA TextStep ==
  ASSUME GatesIInv, ~Legacy, TextKept, [Next]_vars
  PROVE  TextKept'
<1>1. CASE UNCHANGED vars
  <2>1. /\ UNCHANGED <<setup, agent, input, down, up, server, req>> /\ runner'.pass = runner.pass
        /\ UNCHANGED <<content, route, hosted>>
    BY <1>1 DEF vars, setup
  <2>2. /\ AgentPlain /\ KeysPlain /\ HeardIsShown /\ ServerBelieves /\ QueueBelieves /\ TextIsLate
        /\ LooksAtGate
    BY DEF TextKept
  <2>3. (Quiet' <=> Quiet) /\ NextKey' = NextKey /\ (Heard' <=> Heard)
    BY <2>1 DEF Quiet, NextKey, Heard, AnnouncesAsked
  <2>4. QueueBelieves' /\ (AllBelieved => AllBelieved')
    BY <2>1, <2>2, <2>3, BelievedStays
  <2>5. KeysPlain' /\ LooksAtGate' /\ TextIsLate'
    BY <2>1, <2>2, <2>3 DEF KeysPlain, LooksAtGate, TextIsLate
  <2>6. server.told = agent.asking /\ agent.asking # 0 /\ Quiet' => server.gate.view = Shown
    BY <2>2, <2>3 DEF ServerBelieves
  <2>7. \A i \in 1..Len(up) : up[i].ev = "gate" => up[i].dialog \in 0..agent.last
    BY <2>2 DEF AgentPlain
  <2> QED
    BY <2>1, <2>3, <2>4, <2>5, <2>6, <2>7, RouteStep
<1>2. CASE Step /\ UNCHANGED setup
  BY <1>2, AgentKeepsText, PassKeepsText, HostKeysKeepText, ExitKeepsText, DeliverKeepsText,
     RequestKeepsText DEF Step
<1> QED
  BY <1>1, <1>2 DEF Next

LEMMA TextStart ==
  ASSUME Init
  PROVE  TextKept
<1>1. /\ agent.asking = 0 /\ agent.last = 0 /\ agent.painted = 0 /\ ~agent.hit
      /\ server.told = 0 /\ up = <<>> /\ down = <<>> /\ input = <<>>
      /\ \A r \in Requests : req[r].pc = "idle"
  BY DEF Init
<1>2. IsList(<<>>) /\ Len(up) = 0 /\ Len(down) = 0 /\ Len(input) = 0
  BY <1>1 DEF IsList
<1> QED
  BY <1>1, <1>2
  DEF TextKept, AgentPlain, KeysPlain, HeardIsShown, ServerBelieves, QueueBelieves, TextIsLate, LooksAtGate

-----------------------------------------------------------------------------
(* What holds of the gates, and of the two together.                       *)

\* Without a request on the legacy route, which writes the text it is given whatever asks.
TextUnlessLegacy == ~Legacy => TextKept

GatesKept == GatesIInv /\ LostAreDeferred /\ TextUnlessLegacy

LEMMA GatesKeptStart == Init => GatesKept
<1> SUFFICES ASSUME Init
             PROVE  GatesKept
  OBVIOUS
<1>1. Len(server.prompts) = 0
  BY DEF Init
<1>2. LostAreDeferred
  BY <1>1 DEF LostAreDeferred, Lost
<1> QED
  BY <1>2, GatesStart, TextStart DEF GatesKept, TextUnlessLegacy

LEMMA GatesKeptStep == GatesKept /\ [Next]_vars => GatesKept'
<1> SUFFICES ASSUME GatesKept, [Next]_vars
             PROVE  GatesKept'
  OBVIOUS
<1>1. (Legacy)' <=> Legacy
  BY DEF Legacy, Used, Next, setup, vars
<1> QED
  BY <1>1, GatesStep, LostStep, TextStep DEF GatesKept, TextUnlessLegacy

LEMMA GatesKeptImply == GatesKept => OpenRecordIsPending /\ TextSparesAnnouncedDialogs
<1> SUFFICES ASSUME GatesKept
             PROVE  OpenRecordIsPending /\ TextSparesAnnouncedDialogs
  OBVIOUS
<1>1. OpenRecordIsPending
  BY DEF GatesKept, LostAreDeferred, Lost, RawKeys, OpenRecordIsPending
<1>2. TextSparesAnnouncedDialogs
  BY DEF GatesKept, TextUnlessLegacy, TextKept, Legacy, TextSparesAnnouncedDialogs
<1> QED
  BY <1>1, <1>2

\* However announcements, closes and answers interleave, a prompt that is live and that
\* nobody is answering is the pending gate's, so that a client can answer it
\* (handlePermissionChange, performAnswer), and composer text never reaches a dialog that
\* the server was told of (handleSendInput's second look at pendingPermission).
THEOREM GatesStayPending == Spec => [](OpenRecordIsPending /\ TextSparesAnnouncedDialogs)
<1>1. Init => GatesKept
  BY GatesKeptStart
<1>2. GatesKept /\ [Next]_vars => GatesKept'
  BY GatesKeptStep
<1>3. GatesKept => OpenRecordIsPending /\ TextSparesAnnouncedDialogs
  BY GatesKeptImply
<1> QED
  BY <1>1, <1>2, <1>3, PTL DEF Spec

\* A session that shows gates and menus: what the server holds as pending and the records
\* agree for both (pendingPermission and pendingQuestion in src/src/server.ts).
THEOREM DialogsHold == DialogSpec => []DialogsInv
<1>1. DialogInit => GatesKept /\ MenusIInv
  <2>1. DialogInit => Init /\ QuestionsInit
    BY DEF DialogInit, GatesOnly, PromptInit, RoutesInit, MenuInit
  <2> QED
    BY <2>1, GatesKeptStart, MenusBegin
<1>2. GatesKept /\ MenusIInv /\ [DialogNext]_dialogVars => (GatesKept /\ MenusIInv)'
  <2>1. [DialogNext]_dialogVars => [Next]_vars /\ [QuestionsNext]_questionVars
    BY DEF DialogNext, GatesNext, MCNext, MenusNext, dialogVars
  <2> QED
    BY <2>1, GatesKeptStep, MenusStep DEF MenusGoOn
<1>3. GatesKept /\ MenusIInv => DialogsInv
  BY GatesKeptImply, MenusImply DEF DialogsInv
<1> QED
  BY <1>1, <1>2, <1>3, PTL DEF DialogSpec
=============================================================================
