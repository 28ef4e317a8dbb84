------------------------------ MODULE WireProofs ------------------------------
(***************************************************************************)
(* What the two ends of a wire have of each other: the streamer's mirror   *)
(* of the pty-host, for any number of sessions, gates, messages and        *)
(* restarts, and the streams of the relay's tunnel, for any number of      *)
(* streams, windows and frames.                                            *)
(*                                                                         *)
(* That a settled mirror is the host's table is a fact about queues: what  *)
(* the mirror will be once everything on its way is handled.  The last     *)
(* message about a session that puts it in or takes it out says whether    *)
(* the mirror will have it (WillHave); it does so for what the host holds, *)
(* but for what a hold on its way will release (MirrorFollows).  The gates *)
(* are followed alike (GatesFollow), from the snapshots of the subscribe   *)
(* reply on.  A session whose start or end is told to nobody is left out   *)
(* of the one (Said), and one whose event an older reply is put over is    *)
(* left out of both (Kept).  They are inductive with what a status reply   *)
(* on its way says (ReplyAgrees), with what is on the wires in each phase  *)
(* of connect() (WireInv), with who asked for what is being started        *)
(* (PhaseInv), and with the fact that a gate has a session (GatesAreHeld). *)
(*                                                                         *)
(* That the relay puts together what the local server wrote is a fact      *)
(* about queues too: what its view will be once it has taken all that is   *)
(* under way to it (Final), which with what is still queued is what was    *)
(* written (ComesOut).  It is inductive with the windows (WindowKept) and  *)
(* with what may be on the wire to us (OpeningIsNew, ResetMeansClosed).    *)
(* Final, the sums of CreditConserved and the loop of flush are recursive: *)
(* recursion and induction are had from the well-foundedness of < first.   *)
(***************************************************************************)
EXTENDS PtyHostMirror, RelayTunnel, SequenceTheorems, WellFoundedInduction, TLAPS

Gates(n) == [HostSessions -> 0..n]

\* What travels, while the host has opened n gates.
Requests ==
  [req : {"status", "subscribe"}] \cup [req : {"spawn", "hold"}, s : HostSessions]
Events(n) ==
  [ev : {"status", "idle", "exit", "gone"}, s : HostSessions]
    \cup [ev : {"gate"}, s : HostSessions, occ : 1..n]
Answers == [re : {"spawned", "failed"}, s : HostSessions]
StatusReply == [re : {"status"}, held : SUBSET HostSessions]
SubscribeReply(n) == [re : {"subscribe"}, snap : Gates(n)]

\* The last message of `outs` or `ins` in q is of `ins`; none is of `outs`.
SaysSo(q, ins, outs) ==
  \E i \in 1..Len(q) : q[i] \in ins /\ \A j \in (i + 1)..Len(q) : q[j] \notin outs
Silent(q, outs) == \A j \in 1..Len(q) : q[j] \notin outs

\* Messages that put a session into the mirror, and take it out.
Puts(s)  == {[ev |-> "status", s |-> s], [re |-> "spawned", s |-> s]}
Takes(s) == {[ev |-> "idle", s |-> s], [ev |-> "exit", s |-> s]}

\* Messages that make n the gate of a session, and those that make it another one.
Shows(s, n) ==
  IF n = 0 THEN {[ev |-> "gone", s |-> s], [ev |-> "idle", s |-> s]}
           ELSE {[ev |-> "gate", s |-> s, occ |-> n]}
Unshows(s, n) ==
  ({[ev |-> "gone", s |-> s], [ev |-> "idle", s |-> s]}
     \cup [ev : {"gate"}, s : {s}, occ : Nat \ {0}]) \ Shows(s, n)

\* What the mirror starts from, and the gates.
Seeded == phase \in {"seeded", "subscribe", "restoring", "ready"}
Base == IF phase = "ready" THEN {s \in HostSessions : s \in mirror \/ call[s] = "answered"}
        ELSE seed.held
BaseGates == CASE phase = "ready"     -> shown
               [] phase = "restoring" -> seed.snap
               [] OTHER               -> Head(toStreamer).snap

Holds(q, s) == \E i \in 1..Len(q) : q[i] = [req |-> "hold", s |-> s]
HoldAsked(s) == Holds(toHost, s)

\* Once the messages of q are handled, a mirror that began as `base` has s, and gates that
\* began as `base` have n for s.
HasAfter(q, base, s) ==
  SaysSo(q, Puts(s), Takes(s)) \/ (s \in base /\ Silent(q, Takes(s)))
ShowsAfter(q, base, s, n) ==
  SaysSo(q, Shows(s, n), Unshows(s, n)) \/ (base[s] = n /\ Silent(q, Unshows(s, n)))

WillHave(s) == HasAfter(toStreamer, Base, s)

\* The sessions of which the mirror has been told, and those whose gates have been.
Said == HostSessions \ (missed \cup overwritten)
Kept == HostSessions \ overwritten

\* A status reply on its way says what the host holds.
ReplyAgrees ==
  phase = "status" /\ toStreamer # <<>> =>
    \A s \in HostSessions \ missed : s \in Head(toStreamer).held <=> s \in held

\* The mirror will be what the host holds, but for what it is asked to release.
MirrorFollows ==
  Seeded => \A s \in Said : /\ WillHave(s) => s \in held
                            /\ s \in held /\ ~HoldAsked(s) => WillHave(s)

\* The gates shown will be the host's.
GatesFollow ==
  subscribed => \A s \in Kept : ShowsAfter(toStreamer, BaseGates, s, snap[s])

\* What is on the wires in each phase of connect().
WireInv ==
  /\ phase \in {"off", "seeded", "closed"} => toHost = <<>> /\ toStreamer = <<>>
  /\ phase = "status" =>
       \/ toHost = <<[req |-> "status"]>> /\ toStreamer = <<>>
       \/ toHost = <<>> /\ \E h \in SUBSET HostSessions : toStreamer = <<[re |-> "status", held |-> h]>>
  /\ phase = "subscribe" =>
       \/ toHost = <<[req |-> "subscribe"]>> /\ toStreamer = <<>> /\ ~subscribed
       \/ /\ toHost = <<>> /\ subscribed
          /\ toStreamer # <<>> /\ Head(toStreamer) \in SubscribeReply(gates)
          /\ toStreamer \in Seq(SubscribeReply(gates) \cup Events(gates))
          /\ Tail(toStreamer) \in Seq(Events(gates))
  /\ phase = "restoring" => toHost = <<>> /\ toStreamer \in Seq(Events(gates)) /\ subscribed
  /\ phase = "ready" =>
       /\ toHost \in Seq([req : {"spawn", "hold"}, s : HostSessions])
       /\ toStreamer \in Seq(Events(gates) \cup Answers) /\ subscribed
  /\ phase \in {"off", "status", "seeded", "closed"} => ~subscribed

\* What the streamer knows before it is ready, and whose spawns are asked for.
PhaseInv ==
  /\ phase \in {"off", "status", "seeded", "subscribe"} =>
       shown = NoGates /\ call = NoCalls /\ asked = {} /\ overwritten = {}
  /\ phase = "restoring" => call = NoCalls /\ asked = {} /\ \A s \in Kept : shown[s] = 0
  /\ phase = "closed" => asked = {}

GatesAreHeld == \A s \in HostSessions : snap[s] # 0 => s \in held

MirrorIInv ==
  /\ MirrorTypeOK
  /\ WireInv /\ PhaseInv /\ GatesAreHeld /\ ReplyAgrees /\ MirrorFollows /\ GatesFollow

-----------------------------------------------------------------------------
(* Messages.                                                               *)

LEMMA SaysNothing ==
  ASSUME NEW ins, NEW outs
  PROVE  ~SaysSo(<<>>, ins, outs) /\ Silent(<<>>, outs)
  BY DEF SaysSo, Silent

LEMMA SaysAppend ==
  ASSUME NEW S, NEW q \in Seq(S), NEW m \in S, NEW ins, NEW outs
  PROVE  /\ SaysSo(Append(q, m), ins, outs) <=> m \in ins \/ (m \notin outs /\ SaysSo(q, ins, outs))
         /\ Silent(Append(q, m), outs) <=> Silent(q, outs) /\ m \notin outs
<1> DEFINE w == Append(q, m)
<1>1. Len(w) = Len(q) + 1 /\ w[Len(q) + 1] = m /\ Len(q) \in Nat
  OBVIOUS
<1>2. \A i \in 1..Len(q) : w[i] = q[i]
  OBVIOUS
<1> HIDE DEF w
<1>3. ASSUME SaysSo(w, ins, outs)
      PROVE  m \in ins \/ (m \notin outs /\ SaysSo(q, ins, outs))
  <2>1. PICK i \in 1..Len(w) : w[i] \in ins /\ \A j \in (i + 1)..Len(w) : w[j] \notin outs
    BY <1>3 DEF SaysSo
  <2>2. CASE i = Len(q) + 1
    BY <1>1, <2>1, <2>2
  <2>3. CASE i # Len(q) + 1
    <3>1. i \in 1..Len(q) /\ m \notin outs /\ q[i] \in ins
      BY <1>1, <1>2, <2>1, <2>3
    <3>2. \A j \in (i + 1)..Len(q) : q[j] \notin outs
      BY <1>1, <1>2, <2>1, <3>1
    <3> QED
      BY <3>1, <3>2 DEF SaysSo
  <2> QED
    BY <2>2, <2>3
<1>4. ASSUME m \in ins
      PROVE  SaysSo(w, ins, outs)
  <2>1. \A j \in (Len(q) + 1 + 1)..Len(w) : w[j] \notin outs
    BY <1>1
  <2>2. Len(q) + 1 \in 1..Len(w) /\ w[Len(q) + 1] \in ins
    BY <1>1, <1>4
  <2> QED
    BY <2>1, <2>2 DEF SaysSo
<1>5. ASSUME m \notin outs, SaysSo(q, ins, outs)
      PROVE  SaysSo(w, ins, outs)
  <2>1. PICK i \in 1..Len(q) : q[i] \in ins /\ \A j \in (i + 1)..Len(q) : q[j] \notin outs
    BY <1>5 DEF SaysSo
  <2>2. w[i] \in ins /\ i \in 1..Len(w)
    BY <1>1, <1>2, <2>1
  <2>3. \A j \in (i + 1)..Len(w) : w[j] \notin outs
    BY <1>1, <1>2, <1>5, <2>1
  <2> QED
    BY <2>2, <2>3 DEF SaysSo
<1>6. Silent(w, outs) <=> Silent(q, outs) /\ m \notin outs
  BY <1>1, <1>2 DEF Silent
<1> QED
  BY <1>3, <1>4, <1>5, <1>6 DEF w

LEMMA SaysTail ==
  ASSUME NEW S, NEW q \in Seq(S), q # <<>>, NEW ins, NEW outs
  PROVE  /\ SaysSo(q, ins, outs) <=>
              SaysSo(Tail(q), ins, outs) \/ (Head(q) \in ins /\ Silent(Tail(q), outs))
         /\ Silent(q, outs) <=> Head(q) \notin outs /\ Silent(Tail(q), outs)
<1> DEFINE w == Tail(q)
<1>1. Len(w) = Len(q) - 1 /\ Head(q) = q[1] /\ Len(q) \in Nat \ {0}
  OBVIOUS
<1>2. \A i \in 1..Len(w) : w[i] = q[i + 1]
  OBVIOUS
<1> HIDE DEF w
<1>3. ASSUME SaysSo(q, ins, outs)
      PROVE  SaysSo(w, ins, outs) \/ (Head(q) \in ins /\ Silent(w, outs))
  <2>1. PICK i \in 1..Len(q) : q[i] \in ins /\ \A j \in (i + 1)..Len(q) : q[j] \notin outs
    BY <1>3 DEF SaysSo
  <2>2. CASE i = 1
    BY <1>1, <1>2, <2>1, <2>2 DEF Silent
  <2>3. CASE i # 1
    <3>1. i - 1 \in 1..Len(w) /\ w[i - 1] \in ins
      BY <1>1, <1>2, <2>1, <2>3
    <3>2. \A j \in (i - 1 + 1)..Len(w) : w[j] \notin outs
      BY <1>1, <1>2, <2>1
    <3> QED
      BY <3>1, <3>2 DEF SaysSo
  <2> QED
    BY <2>2, <2>3
<1>4. ASSUME SaysSo(w, ins, outs)
      PROVE  SaysSo(q, ins, outs)
  <2>1. PICK i \in 1..Len(w) : w[i] \in ins /\ \A j \in (i + 1)..Len(w) : w[j] \notin outs
    BY <1>4 DEF SaysSo
  <2>2. i + 1 \in 1..Len(q) /\ q[i + 1] \in ins
    BY <1>1, <1>2, <2>1
  <2>3. \A j \in (i + 1 + 1)..Len(q) : q[j] \notin outs
    <3> SUFFICES ASSUME NEW j \in (i + 1 + 1)..Len(q)
                 PROVE  q[j] \notin outs
      OBVIOUS
    <3>1. j - 1 \in (i + 1)..Len(w) /\ j - 1 \in 1..Len(w) /\ j - 1 + 1 = j
      BY <1>1
    <3> QED
      BY <1>2, <2>1, <3>1
  <2> QED
    BY <2>2, <2>3 DEF SaysSo
<1>5. ASSUME Head(q) \in ins, Silent(w, outs)
      PROVE  SaysSo(q, ins, outs)
  <2>1. \A j \in (1 + 1)..Len(q) : q[j] \notin outs
    <3> SUFFICES ASSUME NEW j \in (1 + 1)..Len(q)
                 PROVE  q[j] \notin outs
      OBVIOUS
    <3>1. j - 1 \in 1..Len(w) /\ j - 1 + 1 = j
      BY <1>1
    <3> QED
      BY <1>2, <1>5, <3>1 DEF Silent
  <2> QED
    BY <1>1, <1>5, <2>1 DEF SaysSo
<1>6. Silent(q, outs) <=> Head(q) \notin outs /\ Silent(w, outs)
  <2>1. ASSUME Silent(q, outs)
        PROVE  Head(q) \notin outs /\ Silent(w, outs)
    BY <1>1, <1>2, <2>1 DEF Silent
  <2>2. ASSUME Head(q) \notin outs, Silent(w, outs)
        PROVE  Silent(q, outs)
    <3> SUFFICES ASSUME NEW j \in 1..Len(q)
                 PROVE  q[j] \notin outs
      BY DEF Silent
    <3>1. j = 1 \/ (j - 1 \in 1..Len(w) /\ j - 1 + 1 = j)
      BY <1>1
    <3> QED
      BY <1>1, <1>2, <2>2, <3>1 DEF Silent
  <2> QED
    BY <2>1, <2>2
<1> QED
  BY <1>3, <1>4, <1>5, <1>6 DEF w

\* What each message says of a session and its gate.
LEMMA MessageIs ==
  ASSUME NEW s, NEW x, NEW n, NEW k \in Nat \ {0}
  PROVE  /\ [ev |-> "status", s |-> x] \in Puts(s) <=> x = s
         /\ [re |-> "spawned", s |-> x] \in Puts(s) <=> x = s
         /\ [ev |-> "idle", s |-> x] \in Takes(s) <=> x = s
         /\ [ev |-> "exit", s |-> x] \in Takes(s) <=> x = s
         /\ \A e \in {"idle", "exit", "gone"} : [ev |-> e, s |-> x] \notin Puts(s)
         /\ \A e \in {"status", "gone"} : [ev |-> e, s |-> x] \notin Takes(s)
         /\ \A e \in {"idle", "gone"} : [ev |-> e, s |-> x] \in Unshows(s, k) <=> x = s
         /\ \A e \in {"idle", "gone"} : [ev |-> e, s |-> x] \in Shows(s, 0) <=> x = s
         /\ \A e \in {"idle", "gone"} : [ev |-> e, s |-> x] \notin Unshows(s, 0)
         /\ \A e \in {"idle", "gone"} : [ev |-> e, s |-> x] \notin Shows(s, k)
         /\ \A e \in {"status", "exit"} : [ev |-> e, s |-> x] \notin Unshows(s, n)
         /\ \A e \in {"status", "exit"} : [ev |-> e, s |-> x] \notin Shows(s, n)
<1>1. /\ [ev |-> "status", s |-> x] \in Puts(s) <=> x = s
      /\ [re |-> "spawned", s |-> x] \in Puts(s) <=> x = s
      /\ [ev |-> "idle", s |-> x] \in Takes(s) <=> x = s
      /\ [ev |-> "exit", s |-> x] \in Takes(s) <=> x = s
  BY DEF Puts, Takes
<1>2. /\ \A e \in {"idle", "exit", "gone"} : [ev |-> e, s |-> x] \notin Puts(s)
      /\ \A e \in {"status", "gone"} : [ev |-> e, s |-> x] \notin Takes(s)
  BY DEF Puts, Takes
<1>3. /\ \A e \in {"idle", "gone"} : [ev |-> e, s |-> x] \in Unshows(s, k) <=> x = s
      /\ \A e \in {"idle", "gone"} : [ev |-> e, s |-> x] \notin Shows(s, k)
  BY DEF Unshows, Shows
<1>4. /\ \A e \in {"idle", "gone"} : [ev |-> e, s |-> x] \in Shows(s, 0) <=> x = s
      /\ \A e \in {"idle", "gone"} : [ev |-> e, s |-> x] \notin Unshows(s, 0)
  BY DEF Unshows, Shows
<1>5. /\ \A e \in {"status", "exit"} : [ev |-> e, s |-> x] \notin Unshows(s, n)
      /\ \A e \in {"status", "exit"} : [ev |-> e, s |-> x] \notin Shows(s, n)
  BY DEF Unshows, Shows
<1> QED
  BY <1>1, <1>2, <1>3, <1>4, <1>5

LEMMA GateMessageIs ==
  ASSUME NEW s, NEW x, NEW k \in Nat \ {0}
  PROVE  /\ [ev |-> "gate", s |-> x, occ |-> k] \notin Puts(s)
         /\ [ev |-> "gate", s |-> x, occ |-> k] \notin Takes(s)
<1>1. PICK m : m = [ev |-> "gate", s |-> x, occ |-> k]
  OBVIOUS
<1>2. \A y, e : "occ" \notin DOMAIN [ev |-> e, s |-> y] /\ "occ" \notin DOMAIN [re |-> e, s |-> y]
  OBVIOUS
<1>3. \A y, e : m # [ev |-> e, s |-> y] /\ m # [re |-> e, s |-> y]
  BY <1>1, <1>2
<1>4. m \notin Puts(s) /\ m \notin Takes(s)
  BY <1>3 DEF Puts, Takes
<1> QED
  BY <1>1, <1>4

LEMMA GateMessageShows ==
  ASSUME NEW s, NEW x, NEW k \in Nat \ {0}, NEW n
  PROVE  /\ [ev |-> "gate", s |-> x, occ |-> k] \in Shows(s, n) <=> x = s /\ n = k
         /\ [ev |-> "gate", s |-> x, occ |-> k] \in Unshows(s, n) <=> x = s /\ n # k
<1>1. PICK m : m = [ev |-> "gate", s |-> x, occ |-> k]
  OBVIOUS
<1>2. \A y, e : "occ" \notin DOMAIN [ev |-> e, s |-> y]
  OBVIOUS
<1>3. \A y, e : m # [ev |-> e, s |-> y]
  BY <1>1, <1>2
<1>4. m \in Shows(s, n) <=> x = s /\ n = k
  BY <1>1, <1>3 DEF Shows
<1>5. m \in [ev : {"gate"}, s : {s}, occ : Nat \ {0}] <=> x = s
  BY <1>1
<1>6. m \in Unshows(s, n) <=> x = s /\ n # k
  BY <1>3, <1>4, <1>5 DEF Unshows
<1> QED
  BY <1>1, <1>4, <1>6

LEMMA AnswerIs ==
  ASSUME NEW s, NEW n, NEW m, "ev" \notin DOMAIN m
  PROVE  m \notin Takes(s) /\ m \notin Shows(s, n) /\ m \notin Unshows(s, n)
<1>1. \A y, e : m # [ev |-> e, s |-> y]
  OBVIOUS
<1>2. \A y, e, o : m # [ev |-> e, s |-> y, occ |-> o]
  OBVIOUS
<1>3. m \notin [ev : {"gate"}, s : {s}, occ : Nat \ {0}]
  OBVIOUS
<1> QED
  BY <1>1, <1>2, <1>3 DEF Takes, Shows, Unshows

LEMMA ReplyIs ==
  ASSUME NEW s, NEW n, NEW m, "ev" \notin DOMAIN m, "s" \notin DOMAIN m
  PROVE  m \notin Puts(s)
<1>1. \A y, e : m # [ev |-> e, s |-> y] /\ m # [re |-> e, s |-> y]
  OBVIOUS
<1> QED
  BY <1>1 DEF Puts

-----------------------------------------------------------------------------
(* What a queue of messages makes of the mirror and of the gates.          *)

LEMMA HasAppend ==
  ASSUME NEW S, NEW q \in Seq(S), NEW m, NEW base, NEW s
  PROVE  HasAfter(Append(q, m), base, s) <=> m \in Puts(s) \/ (m \notin Takes(s) /\ HasAfter(q, base, s))
<1>1. q \in Seq(S \cup {m}) /\ m \in S \cup {m}
  OBVIOUS
<1>2. SaysSo(Append(q, m), Puts(s), Takes(s))
        <=> m \in Puts(s) \/ (m \notin Takes(s) /\ SaysSo(q, Puts(s), Takes(s)))
  BY <1>1, SaysAppend
<1>3. Silent(Append(q, m), Takes(s)) <=> Silent(q, Takes(s)) /\ m \notin Takes(s)
  BY <1>1, SaysAppend
<1> QED
  BY <1>2, <1>3 DEF HasAfter

LEMMA ShowsAppend ==
  ASSUME NEW S, NEW q \in Seq(S), NEW m, NEW base, NEW s, NEW n
  PROVE  ShowsAfter(Append(q, m), base, s, n)
           <=> m \in Shows(s, n) \/ (m \notin Unshows(s, n) /\ ShowsAfter(q, base, s, n))
<1>1. q \in Seq(S \cup {m}) /\ m \in S \cup {m}
  OBVIOUS
<1>2. SaysSo(Append(q, m), Shows(s, n), Unshows(s, n))
        <=> m \in Shows(s, n) \/ (m \notin Unshows(s, n) /\ SaysSo(q, Shows(s, n), Unshows(s, n)))
  BY <1>1, SaysAppend
<1>3. Silent(Append(q, m), Unshows(s, n)) <=> Silent(q, Unshows(s, n)) /\ m \notin Unshows(s, n)
  BY <1>1, SaysAppend
<1> QED
  BY <1>2, <1>3 DEF ShowsAfter

\* The first message is handled: what it makes of the mirror is what it said of it.
LEMMA HasTail ==
  ASSUME NEW S, NEW q \in Seq(S), q # <<>>, NEW base, NEW next, NEW s,
         s \in next <=> Head(q) \in Puts(s) \/ (s \in base /\ Head(q) \notin Takes(s))
  PROVE  HasAfter(Tail(q), next, s) <=> HasAfter(q, base, s)
<1>1. SaysSo(q, Puts(s), Takes(s)) <=>
        SaysSo(Tail(q), Puts(s), Takes(s)) \/ (Head(q) \in Puts(s) /\ Silent(Tail(q), Takes(s)))
  BY SaysTail
<1>2. Silent(q, Takes(s)) <=> Head(q) \notin Takes(s) /\ Silent(Tail(q), Takes(s))
  BY SaysTail
<1> QED
  BY <1>1, <1>2 DEF HasAfter

LEMMA ShowsTail ==
  ASSUME NEW S, NEW q \in Seq(S), q # <<>>, NEW base, NEW next, NEW s, NEW n,
         Head(q) \in Shows(s, n) \/ (base[s] = n /\ Head(q) \notin Unshows(s, n)) => next[s] = n,
         ShowsAfter(q, base, s, n)
  PROVE  ShowsAfter(Tail(q), next, s, n)
<1>1. SaysSo(q, Shows(s, n), Unshows(s, n)) <=>
        \/ SaysSo(Tail(q), Shows(s, n), Unshows(s, n))
        \/ Head(q) \in Shows(s, n) /\ Silent(Tail(q), Unshows(s, n))
  BY SaysTail
<1>2. Silent(q, Unshows(s, n)) <=> Head(q) \notin Unshows(s, n) /\ Silent(Tail(q), Unshows(s, n))
  BY SaysTail
<1> QED
  BY <1>1, <1>2 DEF ShowsAfter

LEMMA HasAfterEach ==
  ASSUME NEW S, NEW q \in Seq(S), NEW base, NEW s, NEW x
  PROVE  /\ \A e \in {"idle", "exit"} :
              HasAfter(Append(q, [ev |-> e, s |-> x]), base, s) <=> x # s /\ HasAfter(q, base, s)
         /\ HasAfter(Append(q, [ev |-> "status", s |-> x]), base, s) <=> x = s \/ HasAfter(q, base, s)
         /\ HasAfter(Append(q, [ev |-> "gone", s |-> x]), base, s) <=> HasAfter(q, base, s)
         /\ \A k \in Nat \ {0} :
              HasAfter(Append(q, [ev |-> "gate", s |-> x, occ |-> k]), base, s) <=> HasAfter(q, base, s)
         /\ HasAfter(Append(q, [re |-> "spawned", s |-> x]), base, s) <=> x = s \/ HasAfter(q, base, s)
         /\ HasAfter(Append(q, [re |-> "failed", s |-> x]), base, s) <=> HasAfter(q, base, s)
<1>1. \A m : HasAfter(Append(q, m), base, s) <=> m \in Puts(s) \/ (m \notin Takes(s) /\ HasAfter(q, base, s))
  BY HasAppend
<1>2. \A e \in {"idle", "exit"} :
              HasAfter(Append(q, [ev |-> e, s |-> x]), base, s) <=> x # s /\ HasAfter(q, base, s)
  <2>1. \A e \in {"idle", "exit"} : [ev |-> e, s |-> x] \notin Puts(s) /\ ([ev |-> e, s |-> x] \in Takes(s) <=> x = s)
    BY DEF Puts, Takes
  <2> QED
    BY <1>1, <2>1
<1>3. /\ HasAfter(Append(q, [ev |-> "status", s |-> x]), base, s) <=> x = s \/ HasAfter(q, base, s)
      /\ HasAfter(Append(q, [ev |-> "gone", s |-> x]), base, s) <=> HasAfter(q, base, s)
  <2>1. /\ [ev |-> "status", s |-> x] \in Puts(s) <=> x = s
        /\ [ev |-> "status", s |-> x] \notin Takes(s)
        /\ [ev |-> "gone", s |-> x] \notin Puts(s) /\ [ev |-> "gone", s |-> x] \notin Takes(s)
    BY DEF Puts, Takes
  <2> QED
    BY <1>1, <2>1
<1>4. \A k \in Nat \ {0} : HasAfter(Append(q, [ev |-> "gate", s |-> x, occ |-> k]), base, s) <=> HasAfter(q, base, s)
  <2>1. \A k \in Nat \ {0} : [ev |-> "gate", s |-> x, occ |-> k] \notin Puts(s) /\ [ev |-> "gate", s |-> x, occ |-> k] \notin Takes(s)
    BY GateMessageIs, Zenon
  <2> QED
    BY <1>1, <2>1, Zenon
<1>5. /\ HasAfter(Append(q, [re |-> "spawned", s |-> x]), base, s) <=> x = s \/ HasAfter(q, base, s)
      /\ HasAfter(Append(q, [re |-> "failed", s |-> x]), base, s) <=> HasAfter(q, base, s)
  <2>1. /\ [re |-> "spawned", s |-> x] \in Puts(s) <=> x = s
        /\ [re |-> "failed", s |-> x] \notin Puts(s)
    BY DEF Puts
  <2>2. \A e : [re |-> e, s |-> x] \notin Takes(s)
    BY AnswerIs
  <2> QED
    BY <1>1, <2>1, <2>2
<1> QED
  BY <1>2, <1>3, <1>4, <1>5

LEMMA ShowsAfterEach ==
  ASSUME NEW S, NEW q \in Seq(S), NEW base, NEW s, NEW x, NEW n \in Nat
  PROVE  /\ \A e \in {"idle", "gone"} :
              ShowsAfter(Append(q, [ev |-> e, s |-> x]), base, s, n)
                <=> IF x = s THEN n = 0 ELSE ShowsAfter(q, base, s, n)
         /\ \A k \in Nat \ {0} : ShowsAfter(Append(q, [ev |-> "gate", s |-> x, occ |-> k]), base, s, n)
                <=> IF x = s THEN n = k ELSE ShowsAfter(q, base, s, n)
         /\ \A e \in {"status", "exit"} :
              ShowsAfter(Append(q, [ev |-> e, s |-> x]), base, s, n) <=> ShowsAfter(q, base, s, n)
         /\ \A e : ShowsAfter(Append(q, [re |-> e, s |-> x]), base, s, n) <=> ShowsAfter(q, base, s, n)
<1>1. \A m : ShowsAfter(Append(q, m), base, s, n)
               <=> m \in Shows(s, n) \/ (m \notin Unshows(s, n) /\ ShowsAfter(q, base, s, n))
  BY ShowsAppend
<1>2. \A e \in {"idle", "gone"} :
        /\ [ev |-> e, s |-> x] \in Shows(s, n) <=> x = s /\ n = 0
        /\ [ev |-> e, s |-> x] \in Unshows(s, n) <=> x = s /\ n # 0
  BY DEF Shows, Unshows
<1>3. \A e \in {"status", "exit"} : [ev |-> e, s |-> x] \notin Shows(s, n) /\ [ev |-> e, s |-> x] \notin Unshows(s, n)
  BY DEF Shows, Unshows
<1>4. \A e : [re |-> e, s |-> x] \notin Shows(s, n) /\ [re |-> e, s |-> x] \notin Unshows(s, n)
  BY AnswerIs
<1>5. \A k \in Nat \ {0} : ShowsAfter(Append(q, [ev |-> "gate", s |-> x, occ |-> k]), base, s, n)
                <=> IF x = s THEN n = k ELSE ShowsAfter(q, base, s, n)
  <2>1. \A k \in Nat \ {0} :
        /\ [ev |-> "gate", s |-> x, occ |-> k] \in Shows(s, n) <=> x = s /\ n = k
        /\ [ev |-> "gate", s |-> x, occ |-> k] \in Unshows(s, n) <=> x = s /\ n # k
    BY GateMessageShows, Zenon
  <2> QED
    BY <1>1, <2>1, Zenon
<1> QED
  BY <1>1, <1>2, <1>3, <1>4, <1>5

-----------------------------------------------------------------------------
(* The host.                                                               *)

Messages(n) == Events(n) \cup Answers \cup StatusReply \cup SubscribeReply(n)

LEMMA Widen ==
  ASSUME NEW X, NEW Y, X \subseteq Y, NEW q \in Seq(X)
  PROVE  q \in Seq(Y)
  OBVIOUS

LEMMA WiresAreLists ==
  ASSUME MirrorTypeOK, WireInv
  PROVE  toStreamer \in Seq(Messages(gates)) /\ toHost \in Seq(Requests)
<1>0. <<>> \in Seq(Messages(gates)) /\ <<>> \in Seq(Requests)
  OBVIOUS
<1>1. CASE phase \in {"off", "seeded", "closed"}
  BY <1>0, <1>1 DEF WireInv
<1>2. CASE phase = "status"
  <2>1. /\ [req |-> "status"] \in Requests
        /\ \A h \in SUBSET HostSessions : [re |-> "status", held |-> h] \in Messages(gates)
    BY DEF Requests, Messages, StatusReply
  <2>2. /\ <<[req |-> "status"]>> \in Seq(Requests)
        /\ \A h \in SUBSET HostSessions : <<[re |-> "status", held |-> h]>> \in Seq(Messages(gates))
    BY <2>1
  <2> QED
    BY <1>0, <1>2, <2>2 DEF WireInv
<1>3. CASE phase = "subscribe"
  <2>1. [req |-> "subscribe"] \in Requests
    BY DEF Requests
  <2>2. SubscribeReply(gates) \cup Events(gates) \subseteq Messages(gates)
    BY DEF Messages
  <2>3. <<[req |-> "subscribe"]>> \in Seq(Requests)
    BY <2>1
  <2>4. CASE toStreamer = <<>>
    BY <1>0, <1>3, <2>3, <2>4 DEF WireInv
  <2>5. CASE toStreamer # <<>>
    <3>1. toStreamer \in Seq(SubscribeReply(gates) \cup Events(gates)) /\ toHost = <<>>
      BY <1>3, <2>5 DEF WireInv
    <3> QED
      BY <1>0, <2>2, <3>1, Widen
  <2> QED
    BY <2>4, <2>5
<1>4. CASE phase = "restoring"
  <2>1. Events(gates) \subseteq Messages(gates)
    BY DEF Messages
  <2>2. toStreamer \in Seq(Events(gates)) /\ toHost = <<>>
    BY <1>4 DEF WireInv
  <2> QED
    BY <1>0, <2>1, <2>2, Widen
<1>5. CASE phase = "ready"
  <2>1. Events(gates) \cup Answers \subseteq Messages(gates)
    BY DEF Messages
  <2>2. [req : {"spawn", "hold"}, s : HostSessions] \subseteq Requests
    BY DEF Requests
  <2>3. /\ toHost \in Seq([req : {"spawn", "hold"}, s : HostSessions])
        /\ toStreamer \in Seq(Events(gates) \cup Answers)
    BY <1>5 DEF WireInv
  <2>4. toHost \in Seq(Requests)
    BY <2>2, <2>3, Widen
  <2>5. toStreamer \in Seq(Messages(gates))
    BY <2>1, <2>3, Widen
  <2> QED
    BY <2>4, <2>5
<1> QED
  BY <1>1, <1>2, <1>3, <1>4, <1>5 DEF MirrorTypeOK

LEMMA Grow ==
  ASSUME NEW n \in Nat, NEW k \in {n, n + 1}
  PROVE  /\ Events(n) \subseteq Events(k) /\ SubscribeReply(n) \subseteq SubscribeReply(k)
         /\ Gates(n) \subseteq Gates(k)
<1>1. 1..n \subseteq 1..k /\ 0..n \subseteq 0..k
  OBVIOUS
<1>2. Gates(n) \subseteq Gates(k)
  BY <1>1 DEF Gates
<1>3. SubscribeReply(n) \subseteq SubscribeReply(k)
  BY <1>2 DEF SubscribeReply
<1>4. Events(n) \subseteq Events(k)
  BY <1>1 DEF Events
<1> QED
  BY <1>2, <1>3, <1>4

LEMMA EmitsOnWires ==
  ASSUME MirrorTypeOK, WireInv, UNCHANGED <<subscribed, toHost, phase>>, gates' \in {gates, gates + 1},
         NEW evs \in Seq(Events(gates')), toStreamer' = Emitted(toStreamer, evs)
  PROVE  WireInv'
<1>1. gates \in Nat /\ Events(gates) \subseteq Events(gates') /\ SubscribeReply(gates) \subseteq SubscribeReply(gates')
  <2>1. gates \in Nat
    BY DEF MirrorTypeOK
  <2> QED
    BY <2>1, Grow
<1>2. CASE ~subscribed
  <2>1. toStreamer' = toStreamer /\ phase \notin {"restoring", "ready"}
    BY <1>2 DEF Emitted, WireInv
  <2> QED
    BY <1>2, <2>1 DEF WireInv
<1>3. CASE subscribed
  <2>1. toStreamer' = toStreamer \o evs /\ phase \notin {"off", "status", "seeded", "closed"}
    BY <1>3 DEF Emitted, WireInv
  <2>2. CASE phase = "subscribe"
    <3>0. /\ toHost = <<>> /\ toStreamer # <<>> /\ Head(toStreamer) \in SubscribeReply(gates)
          /\ toStreamer \in Seq(SubscribeReply(gates) \cup Events(gates))
          /\ Tail(toStreamer) \in Seq(Events(gates))
      BY <1>3, <2>2 DEF WireInv
    <3>9. SubscribeReply(gates) \cup Events(gates) \subseteq SubscribeReply(gates') \cup Events(gates')
      BY <1>1
    <3>1. /\ toHost = <<>> /\ toStreamer # <<>> /\ Head(toStreamer) \in SubscribeReply(gates)
          /\ toStreamer \in Seq(SubscribeReply(gates') \cup Events(gates'))
          /\ Tail(toStreamer) \in Seq(Events(gates'))
      BY <1>1, <3>0, <3>9, Widen
    <3>2. evs \in Seq(SubscribeReply(gates') \cup Events(gates'))
      OBVIOUS
    <3>3. /\ toStreamer' # <<>> /\ Head(toStreamer') = Head(toStreamer)
          /\ toStreamer' \in Seq(SubscribeReply(gates') \cup Events(gates'))
      BY <2>1, <3>1, <3>2
    <3>4. Tail(toStreamer') = Tail(toStreamer) \o evs
      BY <2>1, <3>1, <3>2
    <3>7. \A x, y \in Seq(Events(gates')) : x \o y \in Seq(Events(gates'))
      OBVIOUS
    <3>5. Tail(toStreamer') \in Seq(Events(gates'))
      BY <3>1, <3>4, <3>7
    <3>6. Head(toStreamer') \in SubscribeReply(gates') /\ toHost' = <<>> /\ subscribed' /\ phase' = "subscribe"
      BY <1>1, <1>3, <2>2, <3>1, <3>3
    <3> QED
      BY <3>3, <3>5, <3>6 DEF WireInv
  <2>3. CASE phase = "restoring"
    <3>0. toHost = <<>> /\ toStreamer \in Seq(Events(gates))
      BY <2>3 DEF WireInv
    <3>1. toHost = <<>> /\ toStreamer \in Seq(Events(gates'))
      BY <1>1, <3>0, Widen
    <3>2. toStreamer' \in Seq(Events(gates'))
      BY <2>1, <3>1
    <3> QED
      BY <1>3, <2>3, <3>1, <3>2 DEF WireInv
  <2>4. CASE phase = "ready"
    <3>0. /\ toHost \in Seq([req : {"spawn", "hold"}, s : HostSessions])
          /\ toStreamer \in Seq(Events(gates) \cup Answers)
      BY <2>4 DEF WireInv
    <3>9. Events(gates) \cup Answers \subseteq Events(gates') \cup Answers
      BY <1>1
    <3>1. /\ toHost \in Seq([req : {"spawn", "hold"}, s : HostSessions])
          /\ toStreamer \in Seq(Events(gates') \cup Answers)
      BY <3>0, <3>9, Widen
    <3>2. evs \in Seq(Events(gates') \cup Answers)
      OBVIOUS
    <3>3. toStreamer' \in Seq(Events(gates') \cup Answers)
      BY <2>1, <3>1, <3>2
    <3> QED
      BY <1>3, <2>4, <3>1, <3>3 DEF WireInv
  <2> QED
    BY <2>1, <2>2, <2>3, <2>4 DEF MirrorTypeOK
<1> QED
  BY <1>2, <1>3

\* The host tells its subscribers of something that happened to it.
LEMMA EmitStep ==
  ASSUME MirrorIInv, UNCHANGED <<starting, asked, subscribed, toHost, streamerVars>>,
         gates' \in {gates, gates + 1}, NEW evs \in Seq(Events(gates')),
         toStreamer' = Emitted(toStreamer, evs), MirrorTypeOK', GatesAreHeld',
         missed \subseteq missed',
         ~subscribed /\ Reported => \A s \in HostSessions \ missed' : s \in held' <=> s \in held,
         subscribed => \A s \in Kept :
           /\ s \notin missed' =>
                /\ HasAfter(toStreamer \o evs, Base, s) => s \in held'
                /\ s \in held' /\ ~HoldAsked(s) => HasAfter(toStreamer \o evs, Base, s)
           /\ ShowsAfter(toStreamer \o evs, BaseGates, s, snap'[s])
  PROVE  MirrorIInv'
<1>1. /\ MirrorTypeOK /\ WireInv /\ PhaseInv
      /\ UNCHANGED <<phase, seed, chunk, mirror, shown, call, overwritten>>
  BY DEF MirrorIInv, streamerVars
<1>2. Base' = Base /\ Kept' = Kept /\ Said' \subseteq Said /\ \A s : HoldAsked(s)' <=> HoldAsked(s)
  BY <1>1 DEF Base, HoldAsked, Kept, Said
<1>3. WireInv'
  BY <1>1, EmitsOnWires
<1>4. PhaseInv'
  BY <1>1, <1>2 DEF PhaseInv, NoGates, NoCalls
<1>5. CASE ~subscribed
  <2>1. toStreamer' = toStreamer
    BY <1>5 DEF Emitted
  <2>2. Seeded \/ (phase = "status" /\ toStreamer # <<>>) => Reported
    BY DEF Seeded, Reported
  <2>3. MirrorFollows'
    <3> SUFFICES ASSUME Seeded', NEW s \in Said'
                 PROVE  /\ WillHave(s)' => s \in held'
                        /\ s \in held' /\ ~HoldAsked(s)' => WillHave(s)'
      BY DEF MirrorFollows
    <3>1. Seeded /\ s \in Said /\ (s \in held' <=> s \in held) /\ (WillHave(s)' <=> WillHave(s))
      BY <1>1, <1>2, <1>5, <2>1, <2>2 DEF Seeded, WillHave, Said
    <3> QED
      BY <1>2, <3>1 DEF MirrorIInv, MirrorFollows
  <2>4. GatesFollow'
    BY <1>5 DEF GatesFollow
  <2>5. ReplyAgrees'
    <3> SUFFICES ASSUME phase = "status", toStreamer # <<>>, NEW s \in HostSessions \ missed'
                 PROVE  s \in Head(toStreamer).held <=> s \in held'
      BY <1>1, <2>1 DEF ReplyAgrees
    <3>1. s \in held' <=> s \in held
      BY <1>5, <2>2
    <3> QED
      BY <3>1 DEF MirrorIInv, ReplyAgrees
  <2> QED
    BY <1>1, <1>3, <1>4, <2>3, <2>4, <2>5 DEF MirrorIInv
<1>6. CASE subscribed
  <2>1. toStreamer' = toStreamer \o evs
    BY <1>6 DEF Emitted
  <2>2. MirrorFollows'
    BY <1>1, <1>2, <1>6, <2>1 DEF MirrorFollows, WillHave, Said, Kept
  <2>3. BaseGates' = BaseGates
    <3>1. CASE phase \in {"ready", "restoring"}
      BY <1>1, <3>1 DEF BaseGates
    <3>2. CASE phase = "subscribe"
      <4>1. toStreamer \in Seq(Messages(gates)) /\ toStreamer # <<>>
        BY <1>1, <1>6, <3>2, WiresAreLists DEF WireInv
      <4>2. Head(toStreamer \o evs) = Head(toStreamer)
        <5>1. toStreamer \in Seq(Messages(gates) \cup Events(gates')) /\ evs \in Seq(Messages(gates) \cup Events(gates'))
          BY <4>1, Widen
        <5> QED
          BY <4>1, <5>1
      <4> QED
        BY <1>1, <2>1, <3>2, <4>2 DEF BaseGates
    <3>3. phase \in {"ready", "restoring", "subscribe"}
      BY <1>1, <1>6 DEF MirrorTypeOK, WireInv
    <3> QED
      BY <3>1, <3>2, <3>3
  <2>4. GatesFollow'
    BY <1>2, <1>6, <2>1, <2>3 DEF GatesFollow
  <2>5. ReplyAgrees'
    BY <1>1, <1>6 DEF ReplyAgrees, WireInv
  <2> QED
    BY <1>1, <1>3, <1>4, <2>2, <2>4, <2>5 DEF MirrorIInv
<1> QED
  BY <1>5, <1>6

\* What is true of the mirror now, when the host has subscribers.
LEMMA Now ==
  ASSUME MirrorIInv, subscribed
  PROVE  /\ toStreamer \in Seq(Messages(gates)) /\ gates \in Nat
         /\ \A s \in HostSessions : snap[s] \in Nat
         /\ \A s \in Kept \ missed :
              /\ HasAfter(toStreamer, Base, s) => s \in held
              /\ s \in held /\ ~HoldAsked(s) => HasAfter(toStreamer, Base, s)
         /\ \A s \in Kept : s \in HostSessions /\ ShowsAfter(toStreamer, BaseGates, s, snap[s])
<1>1. Seeded
  BY DEF MirrorIInv, WireInv, Seeded, MirrorTypeOK
<1>2. toStreamer \in Seq(Messages(gates)) /\ gates \in Nat /\ \A s \in HostSessions : snap[s] \in Nat
  BY WiresAreLists DEF MirrorIInv, MirrorTypeOK
<1>3. Said = Kept \ missed
  BY DEF Said, Kept
<1> QED
  BY <1>1, <1>2, <1>3 DEF MirrorIInv, MirrorFollows, GatesFollow, WillHave, Kept

LEMMA OneEvent ==
  ASSUME MirrorIInv, UNCHANGED <<starting, asked, subscribed, toHost, streamerVars>>,
         gates' \in {gates, gates + 1}, NEW m \in Events(gates'),
         toStreamer' = Emitted(toStreamer, <<m>>), MirrorTypeOK', GatesAreHeld',
         missed \subseteq missed',
         ~subscribed /\ Reported => \A s \in HostSessions \ missed' : s \in held' <=> s \in held,
         subscribed => \A s \in Kept :
           /\ s \notin missed' =>
                /\ HasAfter(Append(toStreamer, m), Base, s) => s \in held'
                /\ s \in held' /\ ~HoldAsked(s) => HasAfter(Append(toStreamer, m), Base, s)
           /\ ShowsAfter(Append(toStreamer, m), BaseGates, s, snap'[s])
  PROVE  MirrorIInv'
<1>1. <<m>> \in Seq(Events(gates'))
  OBVIOUS
<1>2. subscribed => toStreamer \o <<m>> = Append(toStreamer, m)
  <2> SUFFICES ASSUME subscribed
               PROVE  toStreamer \o <<m>> = Append(toStreamer, m)
    OBVIOUS
  <2>1. toStreamer \in Seq(Messages(gates))
    BY Now
  <2> QED
    BY <2>1
<1> QED
  BY <1>1, <1>2, EmitStep

LEMMA StatusKeeps ==
  ASSUME MirrorIInv, NEW s \in HostSessions, HostStatus(s)
  PROVE  MirrorIInv'
<1> DEFINE m == [ev |-> "status", s |-> s]
<1>1. /\ s \in held /\ toStreamer' = Emitted(toStreamer, <<m>>)
      /\ UNCHANGED <<held, starting, asked, snap, gates, missed, subscribed, toHost, streamerVars>>
  BY DEF HostStatus, hostVars
<1>2. m \in Events(gates')
  BY DEF Events
<1>3. MirrorTypeOK' /\ GatesAreHeld'
  BY <1>1 DEF MirrorIInv, MirrorTypeOK, GatesAreHeld, streamerVars
<1>4. ASSUME subscribed, NEW x \in Kept
      PROVE  /\ x \notin missed' =>
                  /\ HasAfter(Append(toStreamer, m), Base, x) => x \in held'
                  /\ x \in held' /\ ~HoldAsked(x) => HasAfter(Append(toStreamer, m), Base, x)
             /\ ShowsAfter(Append(toStreamer, m), BaseGates, x, snap'[x])
  <2>0. toStreamer \in Seq(Messages(gates)) /\ x \in HostSessions /\ snap[x] \in Nat
    BY <1>4, Now
  <2>2. HasAfter(Append(toStreamer, m), Base, x) <=> s = x \/ HasAfter(toStreamer, Base, x)
    BY <2>0, HasAfterEach
  <2>3. ShowsAfter(Append(toStreamer, m), BaseGates, x, snap[x]) <=> ShowsAfter(toStreamer, BaseGates, x, snap[x])
    BY <2>0, ShowsAfterEach
  <2> QED
    BY <1>1, <1>4, <2>2, <2>3, Now
<1> HIDE DEF m
<1> QED
  BY <1>1, <1>2, <1>3, <1>4, OneEvent

LEMMA ExitKeeps ==
  ASSUME MirrorIInv, NEW s \in HostSessions, HostExit(s)
  PROVE  MirrorIInv'
<1> DEFINE m == [ev |-> "idle", s |-> s]
<1>1. /\ s \in held /\ toStreamer' = Emitted(toStreamer, <<m>>)
      /\ held' = held \ {s} /\ snap' = [snap EXCEPT ![s] = 0] /\ Unheard(s, subscribed)
      /\ UNCHANGED <<starting, asked, gates, subscribed, toHost, streamerVars>>
  BY DEF HostExit, HostEnds
<1>2. m \in Events(gates')
  BY DEF Events
<1>5. /\ missed \subseteq missed' /\ missed' \subseteq HostSessions
      /\ ~subscribed /\ Reported => s \in missed'
  BY <1>1 DEF Unheard, MirrorIInv, MirrorTypeOK
<1>3. MirrorTypeOK' /\ GatesAreHeld'
  BY <1>1, <1>5 DEF MirrorIInv, MirrorTypeOK, GatesAreHeld, streamerVars
<1>6. ~subscribed /\ Reported => \A x \in HostSessions \ missed' : x \in held' <=> x \in held
  BY <1>1, <1>5
<1>4. ASSUME subscribed, NEW x \in Kept
      PROVE  /\ x \notin missed' =>
                  /\ HasAfter(Append(toStreamer, m), Base, x) => x \in held'
                  /\ x \in held' /\ ~HoldAsked(x) => HasAfter(Append(toStreamer, m), Base, x)
             /\ ShowsAfter(Append(toStreamer, m), BaseGates, x, snap'[x])
  <2>0. toStreamer \in Seq(Messages(gates)) /\ x \in HostSessions /\ snap[x] \in Nat
    BY <1>4, Now
  <2>1. snap'[x] = IF x = s THEN 0 ELSE snap[x]
    BY <1>1, <2>0 DEF MirrorIInv, MirrorTypeOK
  <2>2. HasAfter(Append(toStreamer, m), Base, x) <=> s # x /\ HasAfter(toStreamer, Base, x)
    BY <2>0, HasAfterEach
  <2>3. \A n \in Nat : ShowsAfter(Append(toStreamer, m), BaseGates, x, n) <=>
                         IF s = x THEN n = 0 ELSE ShowsAfter(toStreamer, BaseGates, x, n)
    BY <2>0, ShowsAfterEach
  <2>4. ShowsAfter(Append(toStreamer, m), BaseGates, x, snap'[x])
    BY <1>4, <2>0, <2>1, <2>3, Now
  <2> QED
    BY <1>1, <1>4, <1>5, <2>2, <2>4, Now
<1> HIDE DEF m
<1> QED
  BY <1>1, <1>2, <1>3, <1>4, <1>5, <1>6, OneEvent

LEMMA ReapKeeps ==
  ASSUME MirrorIInv, NEW s \in HostSessions, ReapIdle(s)
  PROVE  MirrorIInv'
<1> DEFINE a == [ev |-> "idle", s |-> s]
           b == [ev |-> "exit", s |-> s]
           q == Append(toStreamer, a)
<1>1. /\ s \in held /\ toStreamer' = Emitted(toStreamer, <<a, b>>)
      /\ held' = held \ {s} /\ snap' = [snap EXCEPT ![s] = 0] /\ Unheard(s, subscribed)
      /\ UNCHANGED <<starting, asked, gates, subscribed, toHost, streamerVars>>
  BY DEF ReapIdle, HostEnds
<1>2. <<a, b>> \in Seq(Events(gates'))
  <2>1. a \in Events(gates') /\ b \in Events(gates')
    BY DEF Events
  <2> QED
    BY <2>1
<1>5. /\ missed \subseteq missed' /\ missed' \subseteq HostSessions
      /\ ~subscribed /\ Reported => s \in missed'
  BY <1>1 DEF Unheard, MirrorIInv, MirrorTypeOK
<1>3. MirrorTypeOK' /\ GatesAreHeld'
  BY <1>1, <1>5 DEF MirrorIInv, MirrorTypeOK, GatesAreHeld, streamerVars
<1>6. ~subscribed /\ Reported => \A x \in HostSessions \ missed' : x \in held' <=> x \in held
  BY <1>1, <1>5
<1>4. ASSUME subscribed, NEW x \in Kept
      PROVE  /\ x \notin missed' =>
                  /\ HasAfter(toStreamer \o <<a, b>>, Base, x) => x \in held'
                  /\ x \in held' /\ ~HoldAsked(x) => HasAfter(toStreamer \o <<a, b>>, Base, x)
             /\ ShowsAfter(toStreamer \o <<a, b>>, BaseGates, x, snap'[x])
  <2>0. toStreamer \in Seq(Messages(gates)) /\ x \in HostSessions /\ snap[x] \in Nat
    BY <1>4, Now
  <2>1. snap'[x] = IF x = s THEN 0 ELSE snap[x]
    BY <1>1, <2>0 DEF MirrorIInv, MirrorTypeOK
  <2>2. toStreamer \o <<a, b>> = Append(q, b)
    BY <2>0
  <2>3. q \in Seq(Messages(gates) \cup {a})
    BY <2>0
  <2>4. HasAfter(q, Base, x) <=> s # x /\ HasAfter(toStreamer, Base, x)
    BY <2>0, HasAfterEach
  <2>5. \A n \in Nat : ShowsAfter(q, BaseGates, x, n) <=>
                         IF s = x THEN n = 0 ELSE ShowsAfter(toStreamer, BaseGates, x, n)
    BY <2>0, ShowsAfterEach
  <2> HIDE DEF q
  <2>6. HasAfter(Append(q, b), Base, x) <=> s # x /\ HasAfter(q, Base, x)
    BY <2>3, HasAfterEach
  <2>7. \A n \in Nat : ShowsAfter(Append(q, b), BaseGates, x, n) <=> ShowsAfter(q, BaseGates, x, n)
    BY <2>3, ShowsAfterEach
  <2>8. ShowsAfter(Append(q, b), BaseGates, x, snap'[x])
    BY <1>4, <2>0, <2>1, <2>5, <2>7, Now
  <2>9. HasAfter(Append(q, b), Base, x) <=> s # x /\ HasAfter(toStreamer, Base, x)
    BY <2>4, <2>6
  <2> QED
    BY <1>1, <1>4, <1>5, <2>2, <2>8, <2>9, Now
<1> HIDE DEF a, b
<1> QED
  BY <1>1, <1>2, <1>3, <1>4, <1>5, <1>6, EmitStep

LEMMA GateKeeps ==
  ASSUME MirrorIInv, NEW s \in HostSessions, HostGate(s)
  PROVE  MirrorIInv'
<1>1. PICK k : k = gates + 1
  OBVIOUS
<1> DEFINE m == [ev |-> "gate", s |-> s, occ |-> k]
<1>2. /\ s \in held /\ toStreamer' = Emitted(toStreamer, <<m>>) /\ gates' = k /\ k <= MaxGates
      /\ held' = held /\ snap' = [snap EXCEPT ![s] = k] /\ k \in Nat \ {0}
      /\ UNCHANGED <<held, starting, asked, missed, subscribed, toHost, streamerVars>>
  <2>1. gates \in Nat /\ MaxGates \in Nat
    BY ConstantsAssumption DEF MirrorIInv, MirrorTypeOK, ConstantsAssumption
  <2> QED
    BY <1>1, <2>1 DEF HostGate
<1>3. m \in Events(gates')
  BY <1>2 DEF Events
<1>4. MirrorTypeOK' /\ GatesAreHeld'
  <2>1. 0..gates \subseteq 0..k /\ k \in 0..k
    BY <1>1, <1>2 DEF MirrorIInv, MirrorTypeOK
  <2>2. /\ snap' \in [HostSessions -> 0..k] /\ shown \in [HostSessions -> 0..k]
        /\ seed \in [held : SUBSET HostSessions, snap : [HostSessions -> 0..k]]
    BY <1>2, <2>1 DEF MirrorIInv, MirrorTypeOK
  <2>3. MirrorTypeOK'
    BY <1>2, <2>2 DEF MirrorIInv, MirrorTypeOK, streamerVars
  <2> QED
    BY <1>2, <2>3 DEF MirrorIInv, MirrorTypeOK, GatesAreHeld
<1>5. ASSUME subscribed, NEW x \in Kept
      PROVE  /\ x \notin missed' =>
                  /\ HasAfter(Append(toStreamer, m), Base, x) => x \in held'
                  /\ x \in held' /\ ~HoldAsked(x) => HasAfter(Append(toStreamer, m), Base, x)
             /\ ShowsAfter(Append(toStreamer, m), BaseGates, x, snap'[x])
  <2>0. toStreamer \in Seq(Messages(gates)) /\ x \in HostSessions /\ snap[x] \in Nat
    BY <1>5, Now
  <2>1. snap'[x] = IF x = s THEN k ELSE snap[x]
    BY <1>2, <2>0 DEF MirrorIInv, MirrorTypeOK
  <2>2. HasAfter(Append(toStreamer, m), Base, x) <=> HasAfter(toStreamer, Base, x)
    BY <1>2, <2>0, HasAfterEach
  <2>3. \A n \in Nat : ShowsAfter(Append(toStreamer, m), BaseGates, x, n) <=>
                         IF s = x THEN n = k ELSE ShowsAfter(toStreamer, BaseGates, x, n)
    BY <1>2, <2>0, ShowsAfterEach
  <2>4. ShowsAfter(Append(toStreamer, m), BaseGates, x, snap'[x])
    BY <1>2, <1>5, <2>0, <2>1, <2>3, Now
  <2> QED
    BY <1>2, <1>5, <2>2, <2>4, Now
<1> HIDE DEF m
<1> QED
  BY <1>1, <1>2, <1>3, <1>4, <1>5, OneEvent

LEMMA GateGoneKeeps ==
  ASSUME MirrorIInv, NEW s \in HostSessions, HostGateGone(s)
  PROVE  MirrorIInv'
<1> DEFINE m == [ev |-> "gone", s |-> s]
<1>1. /\ s \in held /\ toStreamer' = Emitted(toStreamer, <<m>>)
      /\ snap' = [snap EXCEPT ![s] = 0]
      /\ UNCHANGED <<held, starting, asked, gates, missed, subscribed, toHost, streamerVars>>
  BY DEF HostGateGone
<1>2. m \in Events(gates')
  BY DEF Events
<1>3. MirrorTypeOK' /\ GatesAreHeld'
  BY <1>1 DEF MirrorIInv, MirrorTypeOK, GatesAreHeld, streamerVars
<1>4. ASSUME subscribed, NEW x \in Kept
      PROVE  /\ x \notin missed' =>
                  /\ HasAfter(Append(toStreamer, m), Base, x) => x \in held'
                  /\ x \in held' /\ ~HoldAsked(x) => HasAfter(Append(toStreamer, m), Base, x)
             /\ ShowsAfter(Append(toStreamer, m), BaseGates, x, snap'[x])
  <2>0. toStreamer \in Seq(Messages(gates)) /\ x \in HostSessions /\ snap[x] \in Nat
    BY <1>4, Now
  <2>1. snap'[x] = IF x = s THEN 0 ELSE snap[x]
    BY <1>1, <2>0 DEF MirrorIInv, MirrorTypeOK
  <2>2. HasAfter(Append(toStreamer, m), Base, x) <=> HasAfter(toStreamer, Base, x)
    BY <2>0, HasAfterEach
  <2>3. \A n \in Nat : ShowsAfter(Append(toStreamer, m), BaseGates, x, n) <=>
                         IF s = x THEN n = 0 ELSE ShowsAfter(toStreamer, BaseGates, x, n)
    BY <2>0, ShowsAfterEach
  <2>4. ShowsAfter(Append(toStreamer, m), BaseGates, x, snap'[x])
    BY <1>4, <2>0, <2>1, <2>3, Now
  <2> QED
    BY <1>1, <1>4, <2>2, <2>4, Now
<1> HIDE DEF m
<1> QED
  BY <1>1, <1>2, <1>3, <1>4, OneEvent

-----------------------------------------------------------------------------
(* The host's answers.                                                     *)

LEMMA HoldsAppend ==
  ASSUME NEW S, NEW q \in Seq(S), NEW m, NEW s
  PROVE  Holds(Append(q, m), s) <=> Holds(q, s) \/ m = [req |-> "hold", s |-> s]
<1>1. PICK w : w = Append(q, m)
  OBVIOUS
<1>2. Len(w) = Len(q) + 1 /\ w[Len(q) + 1] = m /\ Len(q) \in Nat /\ \A i \in 1..Len(q) : w[i] = q[i]
  BY <1>1
<1>3. ASSUME Holds(w, s)
      PROVE  Holds(q, s) \/ m = [req |-> "hold", s |-> s]
  <2>1. PICK i \in 1..Len(w) : w[i] = [req |-> "hold", s |-> s]
    BY <1>3 DEF Holds
  <2>2. i = Len(q) + 1 \/ i \in 1..Len(q)
    BY <1>2
  <2> QED
    BY <1>2, <2>1, <2>2 DEF Holds
<1>4. ASSUME Holds(q, s) \/ m = [req |-> "hold", s |-> s]
      PROVE  Holds(w, s)
  <2>1. CASE Holds(q, s)
    <3>1. PICK i \in 1..Len(q) : q[i] = [req |-> "hold", s |-> s]
      BY <2>1 DEF Holds
    <3>2. i \in 1..Len(w) /\ w[i] = [req |-> "hold", s |-> s]
      BY <1>2, <3>1
    <3> QED
      BY <3>2 DEF Holds
  <2>2. CASE m = [req |-> "hold", s |-> s]
    <3>1. Len(q) + 1 \in 1..Len(w) /\ w[Len(q) + 1] = [req |-> "hold", s |-> s]
      BY <1>2, <2>2
    <3> QED
      BY <3>1 DEF Holds
  <2> QED
    BY <1>4, <2>1, <2>2
<1> QED
  BY <1>1, <1>3, <1>4

LEMMA HoldsTail ==
  ASSUME NEW S, NEW q \in Seq(S), q # <<>>, NEW s
  PROVE  Holds(q, s) => Holds(Tail(q), s) \/ Head(q) = [req |-> "hold", s |-> s]
<1>1. PICK w : w = Tail(q)
  OBVIOUS
<1>2. /\ Len(w) = Len(q) - 1 /\ Head(q) = q[1] /\ Len(q) \in Nat \ {0}
      /\ \A i \in 1..Len(w) : w[i] = q[i + 1]
  BY <1>1
<1> SUFFICES ASSUME Holds(q, s), Head(q) # [req |-> "hold", s |-> s]
             PROVE  Holds(w, s)
  BY <1>1
<1>3. PICK i \in 1..Len(q) : q[i] = [req |-> "hold", s |-> s]
  BY DEF Holds
<1>4. i - 1 \in 1..Len(w) /\ w[i - 1] = q[i]
  BY <1>2, <1>3
<1> QED
  BY <1>3, <1>4 DEF Holds

LEMMA HeadAndTail ==
  ASSUME NEW S, NEW q \in Seq(S), q # <<>>
  PROVE  Head(q) \in S /\ Tail(q) \in Seq(S)
  OBVIOUS

\* An empty queue, and one message.
LEMMA AfterNothing ==
  ASSUME NEW base, NEW s, NEW n
  PROVE  /\ HasAfter(<<>>, base, s) <=> s \in base
         /\ ShowsAfter(<<>>, base, s, n) <=> base[s] = n
  BY SaysNothing DEF HasAfter, ShowsAfter

LEMMA AfterOne ==
  ASSUME NEW m, NEW base, NEW s, NEW n
  PROVE  /\ HasAfter(<<m>>, base, s) <=> m \in Puts(s) \/ (m \notin Takes(s) /\ s \in base)
         /\ ShowsAfter(<<m>>, base, s, n) <=> m \in Shows(s, n) \/ (m \notin Unshows(s, n) /\ base[s] = n)
<1>1. <<m>> = Append(<<>>, m) /\ <<>> \in Seq({m})
  OBVIOUS
<1>2. HasAfter(Append(<<>>, m), base, s) <=> m \in Puts(s) \/ (m \notin Takes(s) /\ HasAfter(<<>>, base, s))
  BY <1>1, HasAppend
<1>3. ShowsAfter(Append(<<>>, m), base, s, n) <=> m \in Shows(s, n) \/ (m \notin Unshows(s, n) /\ ShowsAfter(<<>>, base, s, n))
  BY <1>1, ShowsAppend
<1> QED
  BY <1>1, <1>2, <1>3, AfterNothing

\* A request that arrives once the streamer is ready.
LEMMA ReadyRequest ==
  ASSUME MirrorIInv, toHost # <<>>, Head(toHost).req \in {"spawn", "hold"}
  PROVE  /\ phase = "ready" /\ subscribed /\ Seeded
         /\ toHost \in Seq([req : {"spawn", "hold"}, s : HostSessions])
         /\ Head(toHost) \in [req : {"spawn", "hold"}, s : HostSessions]
         /\ Tail(toHost) \in Seq([req : {"spawn", "hold"}, s : HostSessions])
         /\ toStreamer \in Seq(Events(gates) \cup Answers)
<1>1. phase = "ready"
  BY DEF MirrorIInv, MirrorTypeOK, WireInv
<1>2. toHost \in Seq([req : {"spawn", "hold"}, s : HostSessions])
  BY <1>1 DEF MirrorIInv, WireInv
<1>3. Head(toHost) \in [req : {"spawn", "hold"}, s : HostSessions] /\ Tail(toHost) \in Seq([req : {"spawn", "hold"}, s : HostSessions])
  BY <1>2, HeadAndTail
<1> QED
  BY <1>1, <1>2, <1>3 DEF MirrorIInv, WireInv, Seeded

LEMMA StatusTaken ==
  ASSUME MirrorIInv, HostTake, TakeStatus
  PROVE  MirrorIInv'
<1>1. /\ toHost # <<>> /\ toHost' = Tail(toHost) /\ Head(toHost).req = "status"
      /\ toStreamer' = Append(toStreamer, [re |-> "status", held |-> held])
      /\ UNCHANGED <<held, starting, asked, snap, gates, missed, subscribed>>
      /\ UNCHANGED <<phase, seed, chunk, mirror, shown, call, restarts, overwritten>>
  BY DEF HostTake, TakeStatus, hostVars, streamerVars
<1>2. phase # "ready"
  <2> SUFFICES ASSUME phase = "ready"
               PROVE  FALSE
    OBVIOUS
  <2>1. toHost \in Seq([req : {"spawn", "hold"}, s : HostSessions])
    BY DEF MirrorIInv, WireInv
  <2>2. Head(toHost) \in [req : {"spawn", "hold"}, s : HostSessions]
    BY <1>1, <2>1, HeadAndTail
  <2> QED
    BY <1>1, <2>2
<1>3. phase = "status" /\ toHost = <<[req |-> "status"]>> /\ toStreamer = <<>> /\ ~subscribed
  <2>1. phase \in {"status", "subscribe"}
    BY <1>1, <1>2 DEF MirrorIInv, MirrorTypeOK, WireInv
  <2>2. phase # "subscribe"
    <3>1. Head(<<[req |-> "subscribe"]>>).req # "status"
      OBVIOUS
    <3> QED
      BY <1>1, <3>1 DEF MirrorIInv, WireInv
  <2> QED
    BY <1>1, <2>1, <2>2 DEF MirrorIInv, WireInv
<1>4. toHost' = <<>> /\ toStreamer' = <<[re |-> "status", held |-> held]>>
  BY <1>1, <1>3
<1>5. WireInv'
  <2>1. held \in SUBSET HostSessions
    BY DEF MirrorIInv, MirrorTypeOK
  <2> QED
    BY <1>1, <1>3, <1>4, <2>1 DEF WireInv
<1>6. MirrorTypeOK' /\ PhaseInv' /\ GatesAreHeld'
  BY <1>1, <1>3 DEF MirrorIInv, MirrorTypeOK, PhaseInv, GatesAreHeld, NoGates, NoCalls
<1>7. MirrorFollows' /\ GatesFollow'
  BY <1>1, <1>3 DEF MirrorFollows, GatesFollow, Seeded
<1>8. ReplyAgrees'
  BY <1>1, <1>4 DEF ReplyAgrees
<1> QED
  BY <1>5, <1>6, <1>7, <1>8 DEF MirrorIInv

LEMMA SubscribeTaken ==
  ASSUME MirrorIInv, HostTake, TakeSubscribe
  PROVE  MirrorIInv'
<1> DEFINE m == [re |-> "subscribe", snap |-> snap]
<1>1. /\ toHost # <<>> /\ toHost' = Tail(toHost) /\ Head(toHost).req = "subscribe"
      /\ toStreamer' = Append(toStreamer, m) /\ subscribed' = TRUE
      /\ UNCHANGED <<held, starting, asked, snap, gates, missed>>
      /\ UNCHANGED <<phase, seed, chunk, mirror, shown, call, restarts, overwritten>>
  BY DEF HostTake, TakeSubscribe, hostVars, streamerVars
<1>2. phase # "ready"
  <2> SUFFICES ASSUME phase = "ready"
               PROVE  FALSE
    OBVIOUS
  <2>1. toHost \in Seq([req : {"spawn", "hold"}, s : HostSessions])
    BY DEF MirrorIInv, WireInv
  <2>2. Head(toHost) \in [req : {"spawn", "hold"}, s : HostSessions]
    BY <1>1, <2>1, HeadAndTail
  <2> QED
    BY <1>1, <2>2
<1>3. phase = "subscribe" /\ toHost = <<[req |-> "subscribe"]>> /\ toStreamer = <<>> /\ ~subscribed
  <2>1. phase \in {"status", "subscribe"}
    BY <1>1, <1>2 DEF MirrorIInv, MirrorTypeOK, WireInv
  <2>2. phase # "status"
    <3>1. Head(<<[req |-> "status"]>>).req # "subscribe"
      OBVIOUS
    <3> QED
      BY <1>1, <3>1 DEF MirrorIInv, WireInv
  <2> QED
    BY <1>1, <2>1, <2>2 DEF MirrorIInv, WireInv
<1>4. toHost' = <<>> /\ toStreamer' = <<m>>
  BY <1>1, <1>3
<1>5. m \in SubscribeReply(gates)
  BY DEF SubscribeReply, Gates, MirrorIInv, MirrorTypeOK
<1>6. WireInv'
  <2>1. /\ <<m>> # <<>> /\ Head(<<m>>) = m /\ Tail(<<m>>) = <<>>
        /\ <<m>> \in Seq(SubscribeReply(gates) \cup Events(gates)) /\ <<>> \in Seq(Events(gates))
    BY <1>5
  <2> QED
    BY <1>1, <1>3, <1>4, <1>5, <2>1 DEF WireInv
<1>7. MirrorTypeOK' /\ PhaseInv' /\ GatesAreHeld' /\ ReplyAgrees'
  BY <1>1, <1>3 DEF MirrorIInv, MirrorTypeOK, PhaseInv, GatesAreHeld, NoGates, NoCalls, ReplyAgrees
<1>8. \A x : m \notin Puts(x) /\ m \notin Takes(x) /\ \A n : m \notin Shows(x, n) /\ m \notin Unshows(x, n)
  <2>1. "ev" \notin DOMAIN m /\ "s" \notin DOMAIN m
    OBVIOUS
  <2> HIDE DEF m
  <2> QED
    BY <2>1, AnswerIs, ReplyIs
<1> HIDE DEF m
<1>9. \A x \in HostSessions : HasAfter(<<m>>, Base, x) <=> HasAfter(<<>>, Base, x)
  BY <1>8, AfterOne, AfterNothing
<1>10. MirrorFollows'
  <2>1. Seeded /\ Base' = Base /\ Said' = Said /\ \A x : ~HoldAsked(x)
    <3>1. \A x : [req |-> "subscribe"] # [req |-> "hold", s |-> x]
      OBVIOUS
    <3> QED
      BY <1>1, <1>3, <3>1 DEF Seeded, Base, Said, HoldAsked, Holds
  <2>2. \A x : ~HoldAsked(x)'
    BY <1>4 DEF HoldAsked, Holds
  <2>3. \A x \in Said : HasAfter(<<>>, Base, x) <=> x \in held
    BY <1>3, <2>1 DEF MirrorIInv, MirrorFollows, WillHave
  <2>4. \A x \in Said : x \in HostSessions
    BY DEF Said
  <2> QED
    BY <1>1, <1>4, <1>9, <2>1, <2>2, <2>3, <2>4 DEF MirrorFollows, WillHave
<1>11. GatesFollow'
  <2>1. BaseGates' = snap
    BY <1>1, <1>3, <1>4 DEF BaseGates, m
  <2>2. \A x \in HostSessions : ShowsAfter(<<m>>, snap, x, snap[x])
    BY <1>8, AfterOne
  <2> QED
    BY <1>1, <1>4, <2>1, <2>2 DEF GatesFollow, Kept
<1> QED
  BY <1>6, <1>7, <1>10, <1>11 DEF MirrorIInv

\* The host answers one session's request, or the end of its spawn, and asks for nothing.
LEMMA AnswerStep ==
  ASSUME MirrorIInv, phase = "ready", UNCHANGED <<snap, gates, missed, subscribed>>, UNCHANGED streamerVars,
         MirrorTypeOK', GatesAreHeld',
         toHost' \in Seq([req : {"spawn", "hold"}, s : HostSessions]),
         \A x \in HostSessions : HoldAsked(x)' <=> HoldAsked(x),
         NEW e \in {"spawned", "failed"}, NEW s \in HostSessions,
         toStreamer' = Append(toStreamer, [re |-> e, s |-> s]),
         held' = IF e = "spawned" THEN held \cup {s} ELSE held
  PROVE  MirrorIInv'
<1> DEFINE m == [re |-> e, s |-> s]
<1>0. UNCHANGED <<phase, seed, chunk, mirror, shown, call, overwritten>>
  BY DEF streamerVars
<1>1. /\ toStreamer \in Seq(Events(gates) \cup Answers) /\ subscribed /\ Seeded
      /\ toStreamer' = Append(toStreamer, m)
  BY DEF MirrorIInv, WireInv, Seeded
<1>2. m \in Answers
  BY DEF Answers
<1>3. toStreamer' \in Seq(Events(gates) \cup Answers)
  BY <1>1, <1>2
<1>4. WireInv'
  BY <1>0, <1>1, <1>3 DEF WireInv
<1>5. PhaseInv' /\ ReplyAgrees'
  BY <1>0 DEF PhaseInv, ReplyAgrees
<1>6. Base' = Base /\ BaseGates' = BaseGates /\ Said' = Said /\ Kept' = Kept
  BY <1>0 DEF Base, BaseGates, Said, Kept
<1>7. \A x \in HostSessions : HasAfter(Append(toStreamer, m), Base, x) <=>
          (e = "spawned" /\ x = s) \/ HasAfter(toStreamer, Base, x)
  <2>1. \A x \in HostSessions : HasAfter(Append(toStreamer, [re |-> "spawned", s |-> s]), Base, x) <=>
          x = s \/ HasAfter(toStreamer, Base, x)
    BY <1>1, HasAfterEach
  <2>2. \A x \in HostSessions : HasAfter(Append(toStreamer, [re |-> "failed", s |-> s]), Base, x) <=>
          HasAfter(toStreamer, Base, x)
    BY <1>1, HasAfterEach
  <2> QED
    BY <2>1, <2>2
<1>8. \A x \in Kept : ShowsAfter(Append(toStreamer, m), BaseGates, x, snap[x])
  <2>1. \A x \in Kept : snap[x] \in Nat /\ ShowsAfter(toStreamer, BaseGates, x, snap[x])
    BY <1>1, Now
  <2>2. \A x \in Kept : \A n \in Nat : ShowsAfter(Append(toStreamer, m), BaseGates, x, n) <=> ShowsAfter(toStreamer, BaseGates, x, n)
    BY <1>1, ShowsAfterEach
  <2> QED
    BY <2>1, <2>2
<1> HIDE DEF m
<1>9. MirrorFollows'
  <2>1. \A x \in Said : /\ x \in HostSessions
                        /\ HasAfter(toStreamer, Base, x) => x \in held
                        /\ x \in held /\ ~HoldAsked(x) => HasAfter(toStreamer, Base, x)
    BY <1>1, Now DEF Said, Kept
  <2> QED
    BY <1>1, <1>6, <1>7, <2>1 DEF MirrorFollows, WillHave
<1>10. GatesFollow'
  BY <1>1, <1>6, <1>8 DEF GatesFollow
<1> QED
  BY <1>0, <1>4, <1>5, <1>9, <1>10 DEF MirrorIInv

LEMMA SpawnTaken ==
  ASSUME MirrorIInv, HostTake, TakeSpawn
  PROVE  MirrorIInv'
<1>1. PICK s : s = Head(toHost).s
  OBVIOUS
<1>2. /\ toHost # <<>> /\ toHost' = Tail(toHost) /\ Head(toHost).req = "spawn"
      /\ UNCHANGED <<held, snap, gates, missed, subscribed>> /\ UNCHANGED streamerVars
      /\ IF s \in held
           THEN /\ toStreamer' = Append(toStreamer, [re |-> "spawned", s |-> s])
                /\ UNCHANGED <<starting, asked>>
           ELSE /\ starting' = starting \cup {s} /\ asked' = asked \cup {s}
                /\ UNCHANGED toStreamer
  BY <1>1 DEF HostTake, TakeSpawn
<1>3. /\ phase = "ready" /\ subscribed /\ Seeded
      /\ toHost \in Seq([req : {"spawn", "hold"}, s : HostSessions])
      /\ Head(toHost) \in [req : {"spawn", "hold"}, s : HostSessions]
      /\ Tail(toHost) \in Seq([req : {"spawn", "hold"}, s : HostSessions])
  BY <1>2, ReadyRequest
<1>4. s \in HostSessions
  BY <1>1, <1>3
<1>5. \A x \in HostSessions : HoldAsked(x) => HoldAsked(x)'
  <2>1. \A x : Head(toHost) # [req |-> "hold", s |-> x]
    BY <1>2
  <2> QED
    BY <1>2, <1>3, <2>1, HoldsTail DEF HoldAsked
<1>6. \A x \in HostSessions : HoldAsked(x)' => HoldAsked(x)
  <2> SUFFICES ASSUME NEW x \in HostSessions, Holds(Tail(toHost), x)
               PROVE  Holds(toHost, x)
    BY <1>2 DEF HoldAsked
  <2>1. PICK i \in 1..Len(Tail(toHost)) : Tail(toHost)[i] = [req |-> "hold", s |-> x]
    BY DEF Holds
  <2>2. i + 1 \in 1..Len(toHost) /\ toHost[i + 1] = Tail(toHost)[i]
    BY <1>2, <1>3
  <2> QED
    BY <2>1, <2>2 DEF Holds
<1>7. MirrorTypeOK' /\ GatesAreHeld'
  <2>2. asked' \subseteq starting' /\ starting' \subseteq HostSessions /\ starting' \cap held' = {}
    BY <1>2, <1>4 DEF MirrorIInv, MirrorTypeOK
  <2>3. MirrorTypeOK'
    BY <1>2, <2>2 DEF MirrorIInv, MirrorTypeOK, streamerVars
  <2> QED
    BY <1>2, <2>2, <2>3 DEF MirrorIInv, GatesAreHeld
<1>8. CASE s \in held
  <2>1. toStreamer' = Append(toStreamer, [re |-> "spawned", s |-> s]) /\ held' = held \cup {s}
    BY <1>2, <1>8
  <2> QED
    BY <1>2, <1>3, <1>4, <1>5, <1>6, <1>7, <2>1, AnswerStep
<1>9. CASE s \notin held
  <2>1. toStreamer' = toStreamer /\ UNCHANGED <<phase, seed, chunk, mirror, shown, call, overwritten>>
    BY <1>2, <1>9 DEF streamerVars
  <2>2. Base' = Base /\ BaseGates' = BaseGates /\ Said' = Said /\ Kept' = Kept
    BY <1>2, <2>1 DEF Base, BaseGates, Said, Kept
  <2>3. WireInv'
    BY <1>2, <1>3, <2>1 DEF MirrorIInv, WireInv
  <2>4. PhaseInv' /\ ReplyAgrees'
    BY <1>3, <2>1 DEF PhaseInv, ReplyAgrees
  <2>5. MirrorFollows' /\ GatesFollow'
    BY <1>2, <1>3, <1>5, <2>1, <2>2 DEF MirrorIInv, MirrorFollows, GatesFollow, WillHave, Said
  <2> QED
    BY <1>7, <2>1, <2>3, <2>4, <2>5 DEF MirrorIInv
<1> QED
  BY <1>8, <1>9

LEMMA HoldTaken ==
  ASSUME MirrorIInv, HostTake, TakeHold
  PROVE  MirrorIInv'
<1>1. PICK s : s = Head(toHost).s
  OBVIOUS
<1> DEFINE m == [ev |-> "idle", s |-> s]
<1>2. /\ toHost # <<>> /\ toHost' = Tail(toHost) /\ Head(toHost).req = "hold"
      /\ UNCHANGED <<starting, asked, gates, missed, subscribed>> /\ UNCHANGED streamerVars
      /\ held' = held \ {s} /\ snap' = [snap EXCEPT ![s] = 0]
      /\ toStreamer' = IF s \in held THEN Emitted(toStreamer, <<m>>) ELSE toStreamer
  BY <1>1 DEF HostTake, TakeHold
<1>3. /\ phase = "ready" /\ subscribed /\ Seeded
      /\ toHost \in Seq([req : {"spawn", "hold"}, s : HostSessions])
      /\ Head(toHost) \in [req : {"spawn", "hold"}, s : HostSessions]
      /\ Tail(toHost) \in Seq([req : {"spawn", "hold"}, s : HostSessions])
      /\ toStreamer \in Seq(Events(gates) \cup Answers)
  BY <1>2, ReadyRequest
<1>4. s \in HostSessions /\ Head(toHost) = [req |-> "hold", s |-> s]
  <2>1. PICK h : h = Head(toHost)
    OBVIOUS
  <2>2. h \in [req : {"spawn", "hold"}, s : HostSessions] /\ h.req = "hold" /\ h.s = s
    BY <1>1, <1>2, <1>3, <2>1
  <2>3. s \in HostSessions /\ h = [req |-> "hold", s |-> s]
    BY <2>2
  <2> QED
    BY <2>1, <2>3
<1>5. \A x \in HostSessions : HoldAsked(x) => HoldAsked(x)' \/ x = s
  <2>1. \A x : Head(toHost) = [req |-> "hold", s |-> x] => x = s
    BY <1>4
  <2> QED
    BY <1>2, <1>3, <2>1, HoldsTail DEF HoldAsked
<1>6. MirrorTypeOK' /\ GatesAreHeld'
  BY <1>2, <1>4 DEF MirrorIInv, MirrorTypeOK, GatesAreHeld, streamerVars
<1>7. UNCHANGED <<phase, seed, chunk, mirror, shown, call, overwritten>>
  BY <1>2 DEF streamerVars
<1>8. /\ PhaseInv' /\ ReplyAgrees' /\ Base' = Base /\ BaseGates' = BaseGates
      /\ Kept' = Kept /\ Said' = Kept \ missed
  BY <1>2, <1>3, <1>7 DEF MirrorIInv, PhaseInv, ReplyAgrees, Base, BaseGates, Kept, Said
<1>9. m \in Events(gates)
  BY <1>4 DEF Events
<1> HIDE DEF m
<1>10. toStreamer' = IF s \in held THEN Append(toStreamer, m) ELSE toStreamer
  <2>1. toStreamer \o <<m>> = Append(toStreamer, m)
    BY <1>3
  <2> QED
    BY <1>2, <1>3, <2>1 DEF Emitted
<1>11. WireInv'
  <2>1. Append(toStreamer, m) \in Seq(Events(gates) \cup Answers)
    BY <1>3, <1>9
  <2> QED
    BY <1>2, <1>3, <1>7, <1>10, <2>1 DEF WireInv
<1>12. \A x \in Kept :
          /\ x \notin missed =>
               /\ HasAfter(toStreamer', Base, x) => x \in held'
               /\ x \in held' /\ ~HoldAsked(x)' => HasAfter(toStreamer', Base, x)
          /\ ShowsAfter(toStreamer', BaseGates, x, snap'[x])
  <2> SUFFICES ASSUME NEW x \in Kept
               PROVE  /\ x \notin missed =>
                           /\ HasAfter(toStreamer', Base, x) => x \in held'
                           /\ x \in held' /\ ~HoldAsked(x)' => HasAfter(toStreamer', Base, x)
                      /\ ShowsAfter(toStreamer', BaseGates, x, snap'[x])
    OBVIOUS
  <2>0. x \in HostSessions
    BY DEF Kept
  <2>1. snap'[x] = (IF x = s THEN 0 ELSE snap[x]) /\ snap[x] \in Nat /\ (x \notin held => snap[x] = 0)
    BY <1>2, <2>0 DEF MirrorIInv, MirrorTypeOK, GatesAreHeld
  <2>2. HasAfter(Append(toStreamer, m), Base, x) <=> s # x /\ HasAfter(toStreamer, Base, x)
    BY <1>3, HasAfterEach DEF m
  <2>3. \A n \in Nat : ShowsAfter(Append(toStreamer, m), BaseGates, x, n) <=>
                         IF s = x THEN n = 0 ELSE ShowsAfter(toStreamer, BaseGates, x, n)
    BY <1>3, ShowsAfterEach DEF m
  <2>4. /\ x \notin missed =>
             /\ HasAfter(toStreamer, Base, x) => x \in held
             /\ x \in held /\ ~HoldAsked(x) => HasAfter(toStreamer, Base, x)
        /\ ShowsAfter(toStreamer, BaseGates, x, snap[x])
    BY <1>3, Now
  <2>5. ShowsAfter(toStreamer', BaseGates, x, snap'[x])
    BY <1>10, <2>1, <2>3, <2>4
  <2> QED
    BY <1>2, <1>5, <1>10, <2>0, <2>2, <2>4, <2>5
<1>13. MirrorFollows' /\ GatesFollow'
  BY <1>8, <1>12 DEF MirrorFollows, GatesFollow, WillHave
<1> QED
  BY <1>6, <1>8, <1>11, <1>13 DEF MirrorIInv

\* A spawn nobody waits for any more ends: its requester's connection is gone, and only a
\* status reply that is still to be given will tell the new one.
LEMMA UnaskedStep ==
  ASSUME MirrorIInv, NEW s \in HostSessions, s \notin asked,
         starting' = starting \ {s}, asked' = asked \ {s},
         held' \in {held, held \cup {s}}, toStreamer' = toStreamer,
         held' # held => Unheard(s, FALSE), held' = held => missed' = missed,
         UNCHANGED <<snap, gates, subscribed, toHost>>, UNCHANGED streamerVars
  PROVE  MirrorIInv'
<1>1. UNCHANGED <<phase, seed, chunk, mirror, shown, call, restarts, overwritten>> /\ asked' = asked
  BY DEF streamerVars
<1>2. /\ missed \subseteq missed' /\ missed' \subseteq HostSessions
      /\ Reported => \A x \in HostSessions \ missed' : x \in held' <=> x \in held
  BY DEF Unheard, MirrorIInv, MirrorTypeOK
<1>3. Seeded \/ (phase = "status" /\ toStreamer # <<>>) => Reported
  BY DEF Seeded, Reported
<1>4. MirrorTypeOK' /\ GatesAreHeld'
  BY <1>1, <1>2 DEF MirrorIInv, MirrorTypeOK, GatesAreHeld
<1>5. WireInv' /\ PhaseInv'
  BY <1>1 DEF MirrorIInv, WireInv, PhaseInv, Kept
<1>6. Base' = Base /\ BaseGates' = BaseGates /\ Kept' = Kept /\ Said' \subseteq Said
  BY <1>1, <1>2 DEF Base, BaseGates, Kept, Said
<1>7. MirrorFollows'
  <2> SUFFICES ASSUME Seeded', NEW x \in Said'
               PROVE  /\ WillHave(x)' => x \in held'
                      /\ x \in held' /\ ~HoldAsked(x)' => WillHave(x)'
    BY DEF MirrorFollows
  <2>1. /\ Seeded /\ x \in Said /\ (x \in held' <=> x \in held)
        /\ (WillHave(x)' <=> WillHave(x)) /\ (HoldAsked(x)' <=> HoldAsked(x))
    BY <1>1, <1>2, <1>3, <1>6 DEF Seeded, WillHave, HoldAsked, Said
  <2> QED
    BY <2>1 DEF MirrorIInv, MirrorFollows
<1>8. GatesFollow'
  BY <1>6 DEF MirrorIInv, GatesFollow
<1>9. ReplyAgrees'
  BY <1>1, <1>2, <1>3 DEF MirrorIInv, ReplyAgrees
<1> QED
  BY <1>4, <1>5, <1>7, <1>8, <1>9 DEF MirrorIInv

\* A spawn that is waited for was asked for on this connection, which is ready.
LEMMA AskedIs ==
  ASSUME MirrorIInv, asked # {}
  PROVE  phase = "ready" /\ toHost \in Seq([req : {"spawn", "hold"}, s : HostSessions])
<1>1. phase = "ready"
  BY DEF MirrorIInv, MirrorTypeOK, PhaseInv
<1> QED
  BY <1>1 DEF MirrorIInv, WireInv

LEMMA SpawnedKeeps ==
  ASSUME MirrorIInv, NEW s \in HostSessions, HostSpawned(s)
  PROVE  MirrorIInv'
<1>1. /\ s \in starting
      /\ starting' = starting \ {s} /\ asked' = asked \ {s} /\ held' = held \cup {s}
      /\ toStreamer' = IF s \in asked THEN Append(toStreamer, [re |-> "spawned", s |-> s]) ELSE toStreamer
      /\ Unheard(s, s \in asked)
      /\ UNCHANGED <<snap, gates, subscribed, toHost>> /\ UNCHANGED streamerVars
  BY DEF HostSpawned
<1>2. CASE s \in asked
  <2>1. missed' = missed /\ toStreamer' = Append(toStreamer, [re |-> "spawned", s |-> s])
    BY <1>1, <1>2 DEF Unheard
  <2>2. MirrorTypeOK' /\ GatesAreHeld'
    BY <1>1, <2>1 DEF MirrorIInv, MirrorTypeOK, GatesAreHeld, streamerVars
  <2>3. phase = "ready" /\ toHost' \in Seq([req : {"spawn", "hold"}, s : HostSessions])
    BY <1>1, <1>2, AskedIs
  <2>4. \A x \in HostSessions : HoldAsked(x)' <=> HoldAsked(x)
    BY <1>1 DEF HoldAsked
  <2> QED
    BY <1>1, <2>1, <2>2, <2>3, <2>4, AnswerStep
<1>3. CASE s \notin asked
  <2>1. held' # held /\ held' \in {held, held \cup {s}} /\ toStreamer' = toStreamer /\ Unheard(s, FALSE)
    BY <1>1, <1>3 DEF MirrorIInv, MirrorTypeOK, Unheard
  <2> QED
    BY <1>1, <1>3, <2>1, UnaskedStep
<1> QED
  BY <1>2, <1>3

LEMMA SpawnFailsKeeps ==
  ASSUME MirrorIInv, NEW s \in HostSessions, HostSpawnFails(s)
  PROVE  MirrorIInv'
<1>1. /\ s \in starting
      /\ starting' = starting \ {s} /\ asked' = asked \ {s} /\ held' = held /\ missed' = missed
      /\ toStreamer' = IF s \in asked THEN Append(toStreamer, [re |-> "failed", s |-> s]) ELSE toStreamer
      /\ UNCHANGED <<snap, gates, subscribed, toHost>> /\ UNCHANGED streamerVars
  BY DEF HostSpawnFails
<1>2. CASE s \in asked
  <2>1. toStreamer' = Append(toStreamer, [re |-> "failed", s |-> s])
    BY <1>1, <1>2
  <2>2. MirrorTypeOK' /\ GatesAreHeld'
    BY <1>1 DEF MirrorIInv, MirrorTypeOK, GatesAreHeld, streamerVars
  <2>3. phase = "ready" /\ toHost' \in Seq([req : {"spawn", "hold"}, s : HostSessions])
    BY <1>1, <1>2, AskedIs
  <2>4. \A x \in HostSessions : HoldAsked(x)' <=> HoldAsked(x)
    BY <1>1 DEF HoldAsked
  <2> QED
    BY <1>1, <2>1, <2>2, <2>3, <2>4, AnswerStep
<1>3. CASE s \notin asked
  BY <1>1, <1>3, UnaskedStep
<1> QED
  BY <1>2, <1>3

-----------------------------------------------------------------------------
(* The streamer.                                                           *)

LEMMA ConnectKeeps ==
  ASSUME MirrorIInv, Connect
  PROVE  MirrorIInv'
<1>1. /\ phase = "off" /\ phase' = "status" /\ toHost' = Append(toHost, [req |-> "status"])
      /\ toHost = <<>> /\ toStreamer = <<>>
      /\ UNCHANGED <<held, starting, asked, snap, gates, missed, subscribed>>
      /\ UNCHANGED <<toStreamer, seed, chunk, mirror, shown, call, restarts, overwritten>>
  BY DEF MirrorIInv, WireInv, Connect, hostVars
<1>2. toHost' = <<[req |-> "status"]>>
  BY <1>1
<1>3. MirrorTypeOK' /\ WireInv' /\ PhaseInv' /\ GatesAreHeld' /\ ReplyAgrees'
  BY <1>1, <1>2 DEF MirrorIInv, MirrorTypeOK, WireInv, PhaseInv, GatesAreHeld, NoGates, NoCalls,
         ReplyAgrees
<1>4. MirrorFollows' /\ GatesFollow'
  BY <1>1, <1>3 DEF WireInv, MirrorFollows, GatesFollow, Seeded
<1> QED
  BY <1>3, <1>4 DEF MirrorIInv

LEMMA SubscribeKeeps ==
  ASSUME MirrorIInv, Subscribe
  PROVE  MirrorIInv'
<1>1. /\ phase = "seeded" /\ phase' = "subscribe" /\ toHost' = Append(toHost, [req |-> "subscribe"])
      /\ toHost = <<>> /\ toStreamer = <<>> /\ ~subscribed
      /\ UNCHANGED <<held, starting, asked, snap, gates, missed, subscribed>>
      /\ UNCHANGED <<toStreamer, seed, chunk, mirror, shown, call, restarts, overwritten>>
  BY DEF MirrorIInv, WireInv, Subscribe, hostVars
<1>2. toHost' = <<[req |-> "subscribe"]>>
  BY <1>1
<1>3. MirrorTypeOK' /\ WireInv' /\ PhaseInv' /\ GatesAreHeld' /\ ReplyAgrees'
  BY <1>1, <1>2 DEF MirrorIInv, MirrorTypeOK, WireInv, PhaseInv, GatesAreHeld, NoGates, NoCalls,
         ReplyAgrees
<1>4. GatesFollow'
  BY <1>1, <1>3 DEF GatesFollow
<1>5. Base' = Base /\ Said' = Said /\ \A s : ~HoldAsked(s)
  BY <1>1 DEF Base, Said, HoldAsked, Holds
<1>6. MirrorFollows'
  BY <1>1, <1>5 DEF MirrorIInv, MirrorFollows, WillHave, Seeded
<1> QED
  BY <1>3, <1>4, <1>6 DEF MirrorIInv

LEMMA RestoreKeeps ==
  ASSUME MirrorIInv, Restore
  PROVE  MirrorIInv'
<1>1. /\ phase = "restoring" /\ phase' = "ready" /\ mirror' = seed.held /\ seed' = NoSeed
      /\ shown' = [s \in HostSessions |-> IF seed.snap[s] # 0 THEN seed.snap[s] ELSE shown[s]]
      /\ UNCHANGED <<held, starting, asked, snap, gates, missed, subscribed>>
      /\ UNCHANGED <<toHost, toStreamer, chunk, call, restarts, overwritten>>
  BY DEF Restore, hostVars
<1>2. /\ toHost = <<>> /\ toStreamer \in Seq(Events(gates)) /\ subscribed
      /\ call = NoCalls /\ shown \in [HostSessions -> 0..gates] /\ \A s \in Kept : shown[s] = 0
      /\ seed.held \subseteq HostSessions /\ seed.snap \in [HostSessions -> 0..gates]
  BY <1>1 DEF MirrorIInv, WireInv, PhaseInv, MirrorTypeOK
<1>3. shown' \in [HostSessions -> 0..gates] /\ \A s \in Kept : s \in HostSessions /\ shown'[s] = seed.snap[s]
  BY <1>1, <1>2 DEF Kept
<1>4. toStreamer \in Seq(Events(gates) \cup Answers) /\ <<>> \in Seq([req : {"spawn", "hold"}, s : HostSessions])
  BY <1>2, Widen
<1>9. NoSeed \in [held : SUBSET HostSessions, snap : [HostSessions -> 0..gates]]
  <2>1. gates \in Nat
    BY DEF MirrorIInv, MirrorTypeOK
  <2> QED
    BY <2>1 DEF NoSeed, NoGates
<1>5. MirrorTypeOK' /\ WireInv' /\ PhaseInv' /\ GatesAreHeld' /\ ReplyAgrees'
  BY <1>1, <1>2, <1>3, <1>4, <1>9
  DEF MirrorIInv, MirrorTypeOK, WireInv, PhaseInv, GatesAreHeld, ReplyAgrees
<1>6. Base' = Base
  <2>1. Base' = {s \in HostSessions : s \in seed.held \/ call[s] = "answered"}
    BY <1>1 DEF Base
  <2>2. \A s \in HostSessions : call[s] # "answered"
    BY <1>2 DEF NoCalls
  <2> QED
    BY <1>1, <1>2, <2>1, <2>2 DEF Base
<1>7. BaseGates = seed.snap /\ BaseGates' = shown' /\ Kept' = Kept /\ Said' = Said
  BY <1>1 DEF BaseGates, Kept, Said
<1>8. MirrorFollows' /\ GatesFollow'
  <2>1. MirrorFollows'
    BY <1>1, <1>6, <1>7 DEF MirrorIInv, MirrorFollows, WillHave, Seeded, HoldAsked
  <2>2. GatesFollow'
    BY <1>1, <1>2, <1>3, <1>7 DEF MirrorIInv, GatesFollow, ShowsAfter
  <2> QED
    BY <2>1, <2>2
<1> QED
  BY <1>5, <1>8 DEF MirrorIInv

LEMMA AdoptKeeps ==
  ASSUME MirrorIInv, NEW s \in HostSessions, Adopt(s)
  PROVE  MirrorIInv'
<1>1. /\ call[s] = "answered" /\ call' = [call EXCEPT ![s] = "none"] /\ mirror' = mirror \cup {s}
      /\ UNCHANGED <<held, starting, asked, snap, gates, missed, subscribed>>
      /\ UNCHANGED <<toHost, toStreamer, phase, seed, chunk, shown, restarts, overwritten>>
  BY DEF Adopt, hostVars
<1>2. phase \in {"ready", "closed"}
  BY <1>1 DEF MirrorIInv, PhaseInv, MirrorTypeOK, NoCalls
<1>3. MirrorTypeOK' /\ WireInv' /\ PhaseInv' /\ GatesAreHeld' /\ ReplyAgrees'
  BY <1>1, <1>2 DEF MirrorIInv, MirrorTypeOK, WireInv, PhaseInv, GatesAreHeld, ReplyAgrees
<1>4. Base' = Base /\ BaseGates' = BaseGates
  <2>1. \A x \in HostSessions : x \in mirror' \/ call'[x] = "answered" <=> x \in mirror \/ call[x] = "answered"
    BY <1>1 DEF MirrorIInv, MirrorTypeOK
  <2> QED
    BY <1>1, <2>1 DEF Base, BaseGates
<1>5. MirrorFollows' /\ GatesFollow'
  BY <1>1, <1>4 DEF MirrorIInv, MirrorFollows, GatesFollow, WillHave, Seeded, HoldAsked, Said, Kept
<1> QED
  BY <1>3, <1>5 DEF MirrorIInv

LEMMA StartKeeps ==
  ASSUME MirrorIInv, NEW s \in HostSessions, Start(s)
  PROVE  MirrorIInv'
<1> DEFINE m == [req |-> "spawn", s |-> s]
<1>1. /\ phase = "ready" /\ call[s] = "none" /\ call' = [call EXCEPT ![s] = "waiting"]
      /\ toHost' = Append(toHost, m)
      /\ UNCHANGED <<held, starting, asked, snap, gates, missed, subscribed>>
      /\ UNCHANGED <<toStreamer, phase, seed, chunk, mirror, shown, restarts, overwritten>>
  BY DEF Start, hostVars
<1>2. toHost \in Seq([req : {"spawn", "hold"}, s : HostSessions]) /\ m \in [req : {"spawn", "hold"}, s : HostSessions]
  BY <1>1 DEF MirrorIInv, WireInv
<1>3. toHost' \in Seq([req : {"spawn", "hold"}, s : HostSessions])
  BY <1>1, <1>2
<1>4. MirrorTypeOK' /\ WireInv' /\ PhaseInv' /\ GatesAreHeld' /\ ReplyAgrees'
  BY <1>1, <1>3 DEF MirrorIInv, MirrorTypeOK, WireInv, PhaseInv, GatesAreHeld, ReplyAgrees
<1>5. Base' = Base /\ BaseGates' = BaseGates
  <2>1. \A x \in HostSessions : call'[x] = "answered" <=> call[x] = "answered"
    BY <1>1 DEF MirrorIInv, MirrorTypeOK
  <2> QED
    BY <1>1, <2>1 DEF Base, BaseGates
<1>6. \A x \in HostSessions : HoldAsked(x)' <=> HoldAsked(x)
  <2>1. \A x : m # [req |-> "hold", s |-> x]
    OBVIOUS
  <2> QED
    BY <1>1, <1>2, <2>1, HoldsAppend DEF HoldAsked
<1>7. MirrorFollows' /\ GatesFollow'
  BY <1>1, <1>5, <1>6 DEF MirrorIInv, MirrorFollows, GatesFollow, WillHave, Seeded, Said, Kept
<1> QED
  BY <1>4, <1>7 DEF MirrorIInv

LEMMA HoldKeeps ==
  ASSUME MirrorIInv, NEW s \in HostSessions, Hold(s)
  PROVE  MirrorIInv'
<1> DEFINE m == [req |-> "hold", s |-> s]
<1>1. /\ phase = "ready" /\ s \in mirror /\ mirror' = mirror \ {s}
      /\ toHost' = Append(toHost, m)
      /\ UNCHANGED <<held, starting, asked, snap, gates, missed, subscribed>>
      /\ UNCHANGED <<toStreamer, phase, seed, chunk, shown, call, restarts, overwritten>>
  BY DEF Hold, hostVars
<1>2. toHost \in Seq([req : {"spawn", "hold"}, s : HostSessions]) /\ m \in [req : {"spawn", "hold"}, s : HostSessions]
  BY <1>1 DEF MirrorIInv, WireInv
<1>3. toHost' \in Seq([req : {"spawn", "hold"}, s : HostSessions])
  BY <1>1, <1>2
<1>4. MirrorTypeOK' /\ WireInv' /\ PhaseInv' /\ GatesAreHeld' /\ ReplyAgrees'
  BY <1>1, <1>3 DEF MirrorIInv, MirrorTypeOK, WireInv, PhaseInv, GatesAreHeld, ReplyAgrees
<1>5. BaseGates' = BaseGates /\ Base' \subseteq Base /\ \A x \in HostSessions : x # s => (x \in Base' <=> x \in Base)
  BY <1>1 DEF Base, BaseGates
<1>6. \A x \in HostSessions : HoldAsked(x)' <=> HoldAsked(x) \/ x = s
  <2>1. \A x : m = [req |-> "hold", s |-> x] <=> x = s
    OBVIOUS
  <2> QED
    BY <1>1, <1>2, <2>1, HoldsAppend DEF HoldAsked
<1>7. \A x \in HostSessions : /\ WillHave(x)' => WillHave(x)
                              /\ x # s /\ WillHave(x) => WillHave(x)'
  BY <1>1, <1>5 DEF WillHave, HasAfter
<1>8. MirrorFollows' /\ GatesFollow'
  <2>1. MirrorFollows'
    BY <1>1, <1>6, <1>7 DEF MirrorIInv, MirrorFollows, Seeded, Said
  <2> QED
    BY <1>1, <1>5, <2>1 DEF MirrorIInv, GatesFollow, Kept
<1> QED
  BY <1>4, <1>8 DEF MirrorIInv

LEMMA RestartKeeps ==
  ASSUME MirrorIInv, Restart
  PROVE  MirrorIInv'
<1>1. /\ restarts < MaxRestarts
      /\ restarts' = restarts + 1
      /\ phase' = "off" /\ chunk' = FALSE /\ subscribed' = FALSE /\ asked' = {}
      /\ toHost' = <<>> /\ toStreamer' = <<>>
      /\ seed' = NoSeed /\ missed' = {} /\ overwritten' = {}
      /\ mirror' = {} /\ shown' = NoGates /\ call' = NoCalls
      /\ UNCHANGED <<held, starting, snap, gates>>
  BY DEF Restart
<1>2. restarts \in Nat /\ MaxRestarts \in Nat /\ NoGates \in [HostSessions -> 0..gates]
  BY ConstantsAssumption DEF MirrorIInv, MirrorTypeOK, NoGates, ConstantsAssumption
<1>3. MirrorTypeOK'
  <2>1. restarts' \in 0..MaxRestarts
    BY <1>1, <1>2
  <2>2. seed' \in [held : SUBSET HostSessions, snap : [HostSessions -> 0..gates]]
    BY <1>1, <1>2 DEF NoSeed
  <2>3. call' \in [HostSessions -> {"none", "waiting", "answered"}] /\ shown' \in [HostSessions -> 0..gates]
    BY <1>1, <1>2 DEF NoCalls
  <2> QED
    BY <1>1, <2>1, <2>2, <2>3 DEF MirrorIInv, MirrorTypeOK
<1>4. WireInv' /\ PhaseInv' /\ GatesAreHeld' /\ ReplyAgrees'
  BY <1>1 DEF MirrorIInv, WireInv, PhaseInv, GatesAreHeld, NoGates, NoCalls, ReplyAgrees
<1>5. MirrorFollows' /\ GatesFollow'
  BY <1>1 DEF MirrorFollows, GatesFollow, Seeded
<1> QED
  BY <1>3, <1>4, <1>5 DEF MirrorIInv

LEMMA LossKeeps ==
  ASSUME MirrorIInv, ConnectionLost
  PROVE  MirrorIInv'
<1>1. /\ restarts < MaxRestarts
      /\ restarts' = restarts + 1
      /\ phase' = "closed" /\ chunk' = FALSE /\ subscribed' = FALSE /\ asked' = {}
      /\ toHost' = <<>> /\ toStreamer' = <<>>
      /\ call' = [s \in HostSessions |-> IF call[s] = "waiting" THEN "none" ELSE call[s]]
      /\ missed' = {} /\ overwritten' = {}
      /\ UNCHANGED <<held, starting, snap, gates, seed, mirror, shown>>
  BY DEF ConnectionLost
<1>2. restarts \in Nat /\ MaxRestarts \in Nat
  BY ConstantsAssumption DEF MirrorIInv, MirrorTypeOK, ConstantsAssumption
<1>3. MirrorTypeOK'
  <2>1. restarts' \in 0..MaxRestarts
    BY <1>1, <1>2
  <2>2. call' \in [HostSessions -> {"none", "waiting", "answered"}]
    BY <1>1 DEF MirrorIInv, MirrorTypeOK
  <2> QED
    BY <1>1, <2>1, <2>2 DEF MirrorIInv, MirrorTypeOK
<1>4. WireInv' /\ PhaseInv' /\ GatesAreHeld' /\ ReplyAgrees'
  BY <1>1 DEF MirrorIInv, WireInv, PhaseInv, GatesAreHeld, ReplyAgrees
<1>5. MirrorFollows' /\ GatesFollow'
  BY <1>1 DEF MirrorFollows, GatesFollow, Seeded
<1> QED
  BY <1>3, <1>4, <1>5 DEF MirrorIInv

\* A message is handled; what the mirror and the gates become agrees with it, for the
\* sessions it leaves kept.
LEMMA HandledStep ==
  ASSUME MirrorIInv, toStreamer # <<>>, toStreamer' = Tail(toStreamer),
         UNCHANGED <<held, starting, asked, snap, gates, missed, subscribed, toHost, restarts>>,
         MirrorTypeOK', WireInv', PhaseInv', phase' # "status", overwritten \subseteq overwritten',
         subscribed, NEW m, m = Head(toStreamer),
         \A s \in Kept' : s \in Base' <=> m \in Puts(s) \/ (s \in Base /\ m \notin Takes(s)),
         \A s \in Kept' : m \in Shows(s, snap[s])
           \/ (BaseGates[s] = snap[s] /\ m \notin Unshows(s, snap[s])) => BaseGates'[s] = snap[s]
  PROVE  MirrorIInv'
<1>1. toStreamer \in Seq(Messages(gates)) /\ Seeded
  BY Now DEF MirrorIInv, WireInv, Seeded, MirrorTypeOK
<1>2. Kept' \subseteq Kept /\ Said' \subseteq Said /\ Said' \subseteq Kept'
  BY DEF Kept, Said
<1>3. \A s \in Kept' : HasAfter(Tail(toStreamer), Base', s) <=> HasAfter(toStreamer, Base, s)
  BY <1>1, HasTail
<1>4. \A s \in Kept' : ShowsAfter(Tail(toStreamer), BaseGates', s, snap[s])
  <2>1. \A s \in Kept' : ShowsAfter(toStreamer, BaseGates, s, snap[s])
    BY <1>2, Now
  <2> QED
    BY <1>1, <2>1, ShowsTail
<1>5. MirrorFollows'
  BY <1>1, <1>2, <1>3 DEF MirrorIInv, MirrorFollows, WillHave, HoldAsked
<1>6. GatesFollow' /\ ReplyAgrees'
  BY <1>4 DEF GatesFollow, ReplyAgrees
<1> QED
  BY <1>5, <1>6 DEF MirrorIInv, GatesAreHeld

LEMMA StatusReplied ==
  ASSUME MirrorIInv, Deliver, phase = "status"
  PROVE  MirrorIInv'
<1>1. PICK m : m = Head(toStreamer)
  OBVIOUS
<1>2. /\ toStreamer # <<>> /\ toStreamer' = Tail(toStreamer)
      /\ chunk' \in IF Len(toStreamer) = 1 THEN {FALSE} ELSE BOOLEAN
      /\ HandleEvent(m) \/ HandleReply(m)
      /\ overwritten' = overwritten \cup {s \in HostSessions : Overwrites(m) /\ m.s = s}
      /\ UNCHANGED <<held, starting, asked, snap, gates, missed, subscribed, toHost, restarts>>
  BY <1>1 DEF Deliver, hostVars
<1>3. PICK h \in SUBSET HostSessions :
        toHost = <<>> /\ toStreamer = <<[re |-> "status", held |-> h]>> /\ ~subscribed
  BY <1>2 DEF MirrorIInv, WireInv
<1>4. m = [re |-> "status", held |-> h]
  BY <1>1, <1>3
<1>5. /\ phase' = "seeded" /\ seed' = [seed EXCEPT !.held = m.held] /\ call' = call
      /\ UNCHANGED <<mirror, shown>> /\ overwritten' = overwritten
  <2>1. "ev" \notin DOMAIN m /\ m.re = "status"
    BY <1>4
  <2> QED
    BY <1>2, <2>1 DEF HandleEvent, HandleReply, Overwrites
<1>6. toStreamer' = <<>> /\ chunk' = FALSE
  BY <1>2, <1>3
<1>7. MirrorTypeOK'
  BY <1>2, <1>4, <1>5, <1>6 DEF MirrorIInv, MirrorTypeOK
<1>8. WireInv' /\ PhaseInv' /\ GatesAreHeld' /\ ReplyAgrees'
  BY <1>2, <1>3, <1>5, <1>6
  DEF MirrorIInv, WireInv, PhaseInv, GatesAreHeld, NoGates, NoCalls, ReplyAgrees
<1>9. Base' = h
  BY <1>4, <1>5 DEF Base, MirrorIInv, MirrorTypeOK
<1>10. \A s : HasAfter(<<>>, Base', s) <=> s \in h
  BY <1>9, AfterNothing
<1>11. \A s \in HostSessions \ missed : s \in h <=> s \in held
  BY <1>1, <1>2, <1>4 DEF MirrorIInv, ReplyAgrees
<1>12. MirrorFollows' /\ GatesFollow'
  BY <1>2, <1>3, <1>6, <1>10, <1>11 DEF MirrorFollows, GatesFollow, WillHave, Said
<1> QED
  BY <1>7, <1>8, <1>12 DEF MirrorIInv

LEMMA SubscribeReplied ==
  ASSUME MirrorIInv, Deliver, phase = "subscribe"
  PROVE  MirrorIInv'
<1>1. PICK m : m = Head(toStreamer)
  OBVIOUS
<1>2. /\ toStreamer # <<>> /\ toStreamer' = Tail(toStreamer) /\ chunk' \in BOOLEAN
      /\ HandleEvent(m) \/ HandleReply(m)
      /\ overwritten' = overwritten \cup {s \in HostSessions : Overwrites(m) /\ m.s = s}
      /\ UNCHANGED <<held, starting, asked, snap, gates, missed, subscribed, toHost, restarts>>
  BY <1>1 DEF Deliver, hostVars
<1>3. /\ toHost = <<>> /\ subscribed /\ m \in SubscribeReply(gates)
      /\ Tail(toStreamer) \in Seq(Events(gates))
  BY <1>1, <1>2 DEF MirrorIInv, WireInv
<1>4. "ev" \notin DOMAIN m /\ "s" \notin DOMAIN m /\ m.re = "subscribe" /\ m.snap \in [HostSessions -> 0..gates]
  BY <1>3 DEF SubscribeReply, Gates
<1>5. /\ phase' = "restoring" /\ seed' = [seed EXCEPT !.snap = m.snap] /\ call' = call
      /\ UNCHANGED <<mirror, shown>> /\ overwritten' = overwritten
  BY <1>2, <1>4 DEF HandleEvent, HandleReply, Overwrites
<1>6. MirrorTypeOK'
  BY <1>2, <1>4, <1>5 DEF MirrorIInv, MirrorTypeOK
<1>7. WireInv' /\ PhaseInv'
  BY <1>2, <1>3, <1>5 DEF MirrorIInv, WireInv, PhaseInv, NoGates, Kept
<1>8. Base' = Base
  BY <1>5 DEF Base, MirrorIInv, MirrorTypeOK
<1>9. BaseGates' = BaseGates
  <2>1. seed'.snap = m.snap
    BY <1>5 DEF MirrorIInv, MirrorTypeOK
  <2> QED
    BY <1>1, <1>5, <2>1 DEF BaseGates
<1>10. \A s, n : m \notin Puts(s) /\ m \notin Takes(s) /\ m \notin Shows(s, n)
  BY <1>4, AnswerIs, ReplyIs
<1> QED
  BY <1>1, <1>2, <1>3, <1>5, <1>6, <1>7, <1>8, <1>9, <1>10, HandledStep

\* An event is about one session.
LEMMA EventIs ==
  ASSUME NEW n \in Nat, NEW m \in Events(n)
  PROVE  /\ "re" \notin DOMAIN m /\ "ev" \in DOMAIN m /\ m.s \in HostSessions
         /\ \A s \in HostSessions \ {m.s} : \A k \in Nat :
              /\ m \notin Puts(s) /\ m \notin Takes(s)
              /\ m \notin Shows(s, k) /\ m \notin Unshows(s, k)
<1>1. CASE m \in [ev : {"status", "idle", "exit", "gone"}, s : HostSessions]
  <2>1. PICK e \in {"status", "idle", "exit", "gone"}, x \in HostSessions : m = [ev |-> e, s |-> x]
    BY <1>1
  <2>2. "re" \notin DOMAIN m /\ "ev" \in DOMAIN m /\ m.s = x
    BY <2>1
  <2>3. ASSUME NEW s \in HostSessions \ {x}, NEW k \in Nat
        PROVE  /\ m \notin Puts(s) /\ m \notin Takes(s)
               /\ m \notin Shows(s, k) /\ m \notin Unshows(s, k)
    BY <2>1, <2>3 DEF Puts, Takes, Shows, Unshows
  <2> QED
    BY <2>2, <2>3
<1>2. CASE m \in [ev : {"gate"}, s : HostSessions, occ : 1..n]
  <2>1. PICK x \in HostSessions, o \in 1..n : m = [ev |-> "gate", s |-> x, occ |-> o]
    BY <1>2
  <2>2. "re" \notin DOMAIN m /\ "ev" \in DOMAIN m /\ m.s = x /\ o \in Nat \ {0}
    BY <2>1
  <2>3. ASSUME NEW s \in HostSessions \ {x}, NEW k \in Nat
        PROVE  /\ m \notin Puts(s) /\ m \notin Takes(s)
               /\ m \notin Shows(s, k) /\ m \notin Unshows(s, k)
    <3>1. m \notin Puts(s) /\ m \notin Takes(s)
      BY <2>1, <2>2, GateMessageIs, Zenon
    <3>2. /\ m \in Shows(s, k) <=> x = s /\ k = o
          /\ m \in Unshows(s, k) <=> x = s /\ k # o
      BY <2>1, <2>2, GateMessageShows
    <3> QED
      BY <2>3, <3>1, <3>2
  <2> QED
    BY <2>2, <2>3
<1> QED
  BY <1>1, <1>2 DEF Events

\* What a message makes of the mirror and the gates once the streamer is ready.
LEMMA EventHandled ==
  ASSUME NEW n \in Nat, NEW m \in Events(n), NEW mir, NEW sh \in [HostSessions -> 0..n],
         mir \subseteq HostSessions, mirror = mir, shown = sh,
         mirror' = MirrorAfter(m), shown' = ShownAfter(m)
  PROVE  /\ mirror' \subseteq HostSessions /\ shown' \in [HostSessions -> 0..n]
         /\ \A s \in HostSessions : s \in mirror' <=> m \in Puts(s) \/ (s \in mir /\ m \notin Takes(s))
         /\ \A s \in HostSessions : \A k \in Nat :
              m \in Shows(s, k) \/ (sh[s] = k /\ m \notin Unshows(s, k)) => shown'[s] = k
<1>1. CASE m \in [ev : {"status", "idle", "exit", "gone"}, s : HostSessions]
  <2>1. PICK e \in {"status", "idle", "exit", "gone"}, x \in HostSessions : m = [ev |-> e, s |-> x]
    BY <1>1
  <2>2. m.ev = e /\ m.s = x
    BY <2>1
  <2>3. \A s \in HostSessions : /\ m \in Puts(s) <=> e = "status" /\ x = s
                                /\ m \in Takes(s) <=> e \in {"idle", "exit"} /\ x = s
    BY <2>1 DEF Puts, Takes
  <2>4. \A s \in HostSessions : \A k \in Nat :
              /\ m \in Shows(s, k) <=> k = 0 /\ e \in {"gone", "idle"} /\ x = s
              /\ m \in Unshows(s, k) <=> k # 0 /\ e \in {"gone", "idle"} /\ x = s
    BY <2>1 DEF Shows, Unshows
  <2>5. mirror' = IF e = "status" THEN mir \cup {x} ELSE IF e \in {"idle", "exit"} THEN mir \ {x} ELSE mir
    BY <2>2 DEF MirrorAfter
  <2>6. shown' = IF e \in {"gone", "idle"} THEN [sh EXCEPT ![x] = 0] ELSE sh
    BY <2>2 DEF ShownAfter
  <2>7. \A s \in HostSessions : s \in mirror' <=> m \in Puts(s) \/ (s \in mir /\ m \notin Takes(s))
    BY <2>3, <2>5
  <2>8. \A s \in HostSessions : \A k \in Nat :
              m \in Shows(s, k) \/ (sh[s] = k /\ m \notin Unshows(s, k)) => shown'[s] = k
    BY <2>4, <2>6
  <2> QED
    BY <2>5, <2>6, <2>7, <2>8
<1>2. CASE m \in [ev : {"gate"}, s : HostSessions, occ : 1..n]
  <2>1. PICK x \in HostSessions, o \in 1..n : m = [ev |-> "gate", s |-> x, occ |-> o]
    BY <1>2
  <2>2. m.ev = "gate" /\ m.s = x /\ m.occ = o /\ o \in Nat \ {0}
    BY <2>1
  <2>3. \A s : m \notin Puts(s) /\ m \notin Takes(s)
    BY <2>1, <2>2, GateMessageIs, Zenon
  <2>4. ASSUME NEW s, NEW k
        PROVE  /\ m \in Shows(s, k) <=> x = s /\ k = o
               /\ m \in Unshows(s, k) <=> x = s /\ k # o
    BY <2>1, <2>2, GateMessageShows
  <2>5. mirror' = mir /\ shown' = [sh EXCEPT ![x] = o]
    BY <2>2 DEF MirrorAfter, ShownAfter
  <2>6. \A s \in HostSessions : \A k \in Nat :
              m \in Shows(s, k) \/ (sh[s] = k /\ m \notin Unshows(s, k)) => shown'[s] = k
    BY <2>4, <2>5
  <2> QED
    BY <2>3, <2>5, <2>6
<1> QED
  BY <1>1, <1>2 DEF Events

\* An event handled before Restore has run: what is seeded will be put over it.
LEMMA RestoringEvent ==
  ASSUME MirrorIInv, Deliver, phase = "restoring"
  PROVE  MirrorIInv'
<1>1. PICK m : m = Head(toStreamer)
  OBVIOUS
<1>2. /\ toStreamer # <<>> /\ toStreamer' = Tail(toStreamer) /\ chunk' \in BOOLEAN
      /\ HandleEvent(m) \/ HandleReply(m)
      /\ overwritten' = overwritten \cup {s \in HostSessions : Overwrites(m) /\ m.s = s}
      /\ UNCHANGED <<held, starting, asked, snap, gates, missed, subscribed, toHost, restarts>>
  BY <1>1 DEF Deliver, hostVars
<1>3. /\ toHost = <<>> /\ toStreamer \in Seq(Events(gates)) /\ subscribed /\ gates \in Nat
      /\ mirror \subseteq HostSessions /\ shown \in [HostSessions -> 0..gates]
  BY DEF MirrorIInv, WireInv, MirrorTypeOK
<1>4. m \in Events(gates) /\ Tail(toStreamer) \in Seq(Events(gates))
  BY <1>1, <1>2, <1>3, HeadAndTail
<1>5. PICK x : x = m.s
  OBVIOUS
<1>6. /\ "re" \notin DOMAIN m /\ "ev" \in DOMAIN m /\ x \in HostSessions
      /\ \A s \in HostSessions \ {x} : \A k \in Nat :
           /\ m \notin Puts(s) /\ m \notin Takes(s)
           /\ m \notin Shows(s, k) /\ m \notin Unshows(s, k)
  BY <1>3, <1>4, <1>5, EventIs
<1>7. /\ mirror' = MirrorAfter(m) /\ shown' = ShownAfter(m)
      /\ UNCHANGED <<phase, seed, call>>
  BY <1>2, <1>6 DEF HandleEvent, HandleReply
<1>8. overwritten' = overwritten \cup {x}
  <2>1. Overwrites(m)
    BY <1>6 DEF Overwrites
  <2> QED
    BY <1>2, <1>5, <1>6, <2>1
<1>9. mirror' \subseteq HostSessions /\ shown' \in [HostSessions -> 0..gates]
  <2>1. PICK mir, sh : mir = mirror /\ sh = shown
    OBVIOUS
  <2> QED
    BY <1>3, <1>4, <1>7, <2>1, EventHandled
<1>10. \A s \in HostSessions \ {x} : shown'[s] = shown[s]
  BY <1>3, <1>5, <1>7 DEF ShownAfter
<1>11. MirrorTypeOK'
  BY <1>2, <1>6, <1>7, <1>8, <1>9 DEF MirrorIInv, MirrorTypeOK
<1>12. WireInv'
  BY <1>2, <1>3, <1>4, <1>7 DEF WireInv
<1>13. PhaseInv'
  BY <1>2, <1>7, <1>8, <1>10 DEF MirrorIInv, PhaseInv, Kept
<1>14. Base' = Base /\ BaseGates' = BaseGates /\ Kept' \subseteq HostSessions \ {x}
  BY <1>7, <1>8 DEF Base, BaseGates, Kept
<1>15. \A s \in Kept' : snap[s] \in Nat
  BY <1>3, Now DEF Kept
<1> QED
  BY <1>1, <1>2, <1>3, <1>6, <1>7, <1>8, <1>11, <1>12, <1>13, <1>14, <1>15, HandledStep

LEMMA EventReplied ==
  ASSUME MirrorIInv, Deliver, phase = "ready", Head(toStreamer) \in Events(gates)
  PROVE  MirrorIInv'
<1>1. PICK m : m = Head(toStreamer)
  OBVIOUS
<1>2. /\ toStreamer # <<>> /\ toStreamer' = Tail(toStreamer) /\ chunk' \in BOOLEAN
      /\ HandleEvent(m) \/ HandleReply(m)
      /\ overwritten' = overwritten \cup {s \in HostSessions : Overwrites(m) /\ m.s = s}
      /\ UNCHANGED <<held, starting, asked, snap, gates, missed, subscribed, toHost, restarts>>
  BY <1>1 DEF Deliver, hostVars
<1>3. /\ toStreamer \in Seq(Events(gates) \cup Answers) /\ subscribed
      /\ toHost \in Seq([req : {"spawn", "hold"}, s : HostSessions])
      /\ mirror \subseteq HostSessions /\ shown \in [HostSessions -> 0..gates] /\ gates \in Nat
  BY DEF MirrorIInv, WireInv, MirrorTypeOK
<1>4. PICK x : x = m.s
  OBVIOUS
<1>5. /\ "re" \notin DOMAIN m /\ "ev" \in DOMAIN m /\ x \in HostSessions
      /\ \A s \in HostSessions \ {x} : m \notin Puts(s) /\ m \notin Takes(s)
  BY <1>1, <1>3, <1>4, EventIs
<1>6. /\ mirror' = MirrorAfter(m) /\ shown' = ShownAfter(m)
      /\ UNCHANGED <<phase, seed, call>>
  BY <1>2, <1>5 DEF HandleEvent, HandleReply
<1>7. /\ mirror' \subseteq HostSessions /\ shown' \in [HostSessions -> 0..gates]
      /\ \A s \in HostSessions : s \in mirror' <=> m \in Puts(s) \/ (s \in mirror /\ m \notin Takes(s))
      /\ \A s \in HostSessions : \A k \in Nat :
              m \in Shows(s, k) \/ (shown[s] = k /\ m \notin Unshows(s, k)) => shown'[s] = k
  <2>1. PICK mir, sh : mir = mirror /\ sh = shown
    OBVIOUS
  <2> QED
    BY <1>1, <1>3, <1>6, <2>1, EventHandled
<1>8. Tail(toStreamer) \in Seq(Events(gates) \cup Answers)
  BY <1>2, <1>3, HeadAndTail
<1>9. overwritten \subseteq overwritten' /\ overwritten' \subseteq HostSessions
  BY <1>2 DEF MirrorIInv, MirrorTypeOK
<1>10. MirrorTypeOK'
  BY <1>2, <1>6, <1>7, <1>9 DEF MirrorIInv, MirrorTypeOK
<1>11. WireInv'
  BY <1>2, <1>3, <1>6, <1>8 DEF WireInv
<1>12. PhaseInv'
  BY <1>6 DEF PhaseInv
<1>13. \A s \in Kept' : s \in HostSessions /\ ~(call[s] = "answered" /\ s = x)
  <2>1. call[x] = "answered" => x \in overwritten'
    BY <1>2, <1>4, <1>5 DEF Overwrites
  <2> QED
    BY <2>1 DEF Kept
<1>14. \A s \in Kept' : s \in Base' <=> m \in Puts(s) \/ (s \in Base /\ m \notin Takes(s))
  <2>1. \A s \in HostSessions : /\ s \in Base <=> s \in mirror \/ call[s] = "answered"
                                /\ s \in Base' <=> s \in mirror' \/ call[s] = "answered"
    BY <1>6 DEF Base
  <2> QED
    BY <1>5, <1>7, <1>13, <2>1
<1>15. \A s \in Kept' : m \in Shows(s, snap[s])
           \/ (BaseGates[s] = snap[s] /\ m \notin Unshows(s, snap[s])) => BaseGates'[s] = snap[s]
  <2>1. BaseGates = shown /\ BaseGates' = shown'
    BY <1>6 DEF BaseGates
  <2>2. \A s \in HostSessions : snap[s] \in Nat
    BY <1>3, Now
  <2> QED
    BY <1>7, <1>13, <2>1, <2>2
<1>16. phase' # "status"
  BY <1>6
<1> QED
  BY <1>1, <1>2, <1>3, <1>9, <1>10, <1>11, <1>12, <1>14, <1>15, <1>16, HandledStep

LEMMA AnswerReplied ==
  ASSUME MirrorIInv, Deliver, phase = "ready", Head(toStreamer) \in Answers
  PROVE  MirrorIInv'
<1>1. PICK m : m = Head(toStreamer)
  OBVIOUS
<1>2. PICK e \in {"spawned", "failed"}, x \in HostSessions : m = [re |-> e, s |-> x]
  BY <1>1 DEF Answers
<1>3. m.re = e /\ m.s = x /\ "ev" \notin DOMAIN m
  BY <1>2
<1>4. /\ toStreamer # <<>> /\ toStreamer' = Tail(toStreamer) /\ chunk' \in BOOLEAN
      /\ HandleEvent(m) \/ HandleReply(m)
      /\ overwritten' = overwritten \cup {s \in HostSessions : Overwrites(m) /\ m.s = s}
      /\ UNCHANGED <<held, starting, asked, snap, gates, missed, subscribed, toHost, restarts>>
  BY <1>1 DEF Deliver, hostVars
<1>5. /\ call' = [call EXCEPT ![x] = IF e = "spawned" THEN "answered"
                                     ELSE IF call[x] = "waiting" THEN "none" ELSE call[x]]
      /\ UNCHANGED <<phase, seed, mirror, shown>> /\ overwritten' = overwritten
  BY <1>3, <1>4 DEF HandleEvent, HandleReply, Overwrites
<1>6. /\ toStreamer \in Seq(Events(gates) \cup Answers) /\ subscribed
      /\ toHost \in Seq([req : {"spawn", "hold"}, s : HostSessions])
  BY DEF MirrorIInv, WireInv
<1>7. Tail(toStreamer) \in Seq(Events(gates) \cup Answers)
  BY <1>4, <1>6, HeadAndTail
<1>8. call' \in [HostSessions -> {"none", "waiting", "answered"}]
      /\ \A s \in HostSessions : call'[s] = "answered" <=> call[s] = "answered" \/ (e = "spawned" /\ s = x)
  BY <1>5 DEF MirrorIInv, MirrorTypeOK
<1>9. MirrorTypeOK'
  BY <1>4, <1>5, <1>8 DEF MirrorIInv, MirrorTypeOK
<1>10. WireInv'
  BY <1>4, <1>5, <1>6, <1>7 DEF WireInv
<1>11. PhaseInv' /\ phase' # "status" /\ Kept' \subseteq HostSessions
  BY <1>5 DEF PhaseInv, Kept
<1>12. \A s \in HostSessions : s \in Base' <=> m \in Puts(s) \/ (s \in Base /\ m \notin Takes(s))
  <2>1. \A s \in HostSessions : s \in Base' <=> s \in Base \/ (e = "spawned" /\ s = x)
    BY <1>5, <1>8 DEF Base
  <2>2. \A s \in HostSessions : m \in Puts(s) <=> e = "spawned" /\ s = x
    BY <1>2 DEF Puts
  <2>3. \A s \in HostSessions : m \notin Takes(s)
    BY <1>3, AnswerIs
  <2> QED
    BY <2>1, <2>2, <2>3
<1>13. BaseGates' = BaseGates /\ \A s, n : m \notin Shows(s, n)
  BY <1>3, <1>5, AnswerIs DEF BaseGates
<1> QED
  BY <1>1, <1>4, <1>5, <1>6, <1>9, <1>10, <1>11, <1>12, <1>13, HandledStep

LEMMA DeliverKeeps ==
  ASSUME MirrorIInv, Deliver
  PROVE  MirrorIInv'
<1>1. toStreamer # <<>>
  BY DEF Deliver
<1>2. phase \in {"status", "subscribe", "restoring", "ready"}
  BY <1>1 DEF MirrorIInv, MirrorTypeOK, WireInv
<1>3. CASE phase = "ready"
  <2>1. toStreamer \in Seq(Events(gates) \cup Answers)
    BY <1>3 DEF MirrorIInv, WireInv
  <2>2. Head(toStreamer) \in Events(gates) \cup Answers
    BY <1>1, <2>1, HeadAndTail
  <2> QED
    BY <1>3, <2>2, EventReplied, AnswerReplied
<1> QED
  BY <1>2, <1>3, StatusReplied, SubscribeReplied, RestoringEvent

-----------------------------------------------------------------------------
LEMMA MirrorStarts ==
  ASSUME MirrorInit
  PROVE  MirrorIInv
<1>1. MirrorTypeOK
  <2>1. gates = 0 /\ restarts = 0 /\ MaxGates \in Nat /\ MaxRestarts \in Nat
    BY ConstantsAssumption DEF MirrorInit, ConstantsAssumption
  <2>2. NoGates \in [HostSessions -> 0..gates]
    BY <2>1 DEF NoGates
  <2>3. gates \in 0..MaxGates /\ restarts \in 0..MaxRestarts
    BY <2>1
  <2>4. seed \in [held : SUBSET HostSessions, snap : [HostSessions -> 0..gates]]
    BY <2>2 DEF MirrorInit, NoSeed
  <2>5. call \in [HostSessions -> {"none", "waiting", "answered"}]
    BY DEF MirrorInit, NoCalls
  <2> QED
    BY <2>2, <2>3, <2>4, <2>5 DEF MirrorInit, MirrorTypeOK
<1>2. WireInv /\ PhaseInv /\ GatesAreHeld /\ ReplyAgrees
  BY DEF MirrorInit, WireInv, PhaseInv, GatesAreHeld, ReplyAgrees, NoGates
<1>3. MirrorFollows /\ GatesFollow
  BY DEF MirrorInit, MirrorFollows, GatesFollow, Seeded
<1> QED
  BY <1>1, <1>2, <1>3 DEF MirrorIInv

LEMMA MirrorStep ==
  ASSUME MirrorIInv, [MirrorNext]_mirrorVars
  PROVE  MirrorIInv'
<1>1. CASE HostTake
  BY <1>1, StatusTaken, SubscribeTaken, SpawnTaken, HoldTaken DEF HostTake
<1>2. ASSUME NEW s \in HostSessions, HostSpawned(s) \/ HostSpawnFails(s)
      PROVE  MirrorIInv'
  BY <1>2, SpawnedKeeps, SpawnFailsKeeps
<1>3. ASSUME NEW s \in HostSessions,
             \/ HostExit(s) \/ ReapIdle(s) \/ HostStatus(s)
             \/ HostGate(s) \/ HostGateGone(s)
      PROVE  MirrorIInv'
  BY <1>3, ExitKeeps, ReapKeeps, StatusKeeps, GateKeeps, GateGoneKeeps
<1>4. CASE Connect \/ Subscribe \/ Restore \/ Deliver \/ Restart \/ ConnectionLost
  BY <1>4, ConnectKeeps, SubscribeKeeps, RestoreKeeps, DeliverKeeps, RestartKeeps, LossKeeps
<1>5. ASSUME NEW s \in HostSessions, Adopt(s) \/ Start(s) \/ Hold(s)
      PROVE  MirrorIInv'
  BY <1>5, AdoptKeeps, StartKeeps, HoldKeeps
<1>6. CASE UNCHANGED mirrorVars
  <2>1. /\ UNCHANGED <<held, starting, asked, snap, gates, missed, subscribed, toHost, toStreamer>>
        /\ UNCHANGED <<phase, seed, chunk, mirror, shown, call, restarts, overwritten>>
    BY <1>6 DEF mirrorVars
  <2>2. MirrorTypeOK'
    BY <2>1 DEF MirrorIInv, MirrorTypeOK
  <2>3. WireInv' /\ PhaseInv' /\ GatesAreHeld' /\ ReplyAgrees'
    BY <2>1 DEF MirrorIInv, WireInv, PhaseInv, GatesAreHeld, ReplyAgrees, Kept, NoGates, NoCalls
  <2>4. /\ Base' = Base /\ BaseGates' = BaseGates /\ Kept' = Kept /\ Said' = Said
        /\ (Seeded' <=> Seeded) /\ \A s : HoldAsked(s)' <=> HoldAsked(s)
    BY <2>1 DEF Base, BaseGates, Seeded, HoldAsked, Kept, Said
  <2>5. MirrorFollows' /\ GatesFollow'
    BY <2>1, <2>4 DEF MirrorIInv, MirrorFollows, GatesFollow, WillHave
  <2> QED
    BY <2>2, <2>3, <2>5 DEF MirrorIInv
<1>7. CASE HostNext
  BY <1>1, <1>2, <1>3, <1>7 DEF HostNext
<1>8. CASE StreamerNext
  BY <1>4, <1>5, <1>8 DEF StreamerNext
<1> QED
  BY <1>6, <1>7, <1>8 DEF MirrorNext

LEMMA MirrorFollowed ==
  ASSUME MirrorIInv
  PROVE  MirrorInv
<1>1. ASSUME StartSettled
      PROVE  /\ \A s \in HostSessions \ (missed \cup overwritten) : s \in mirror <=> s \in held
             /\ \A s \in HostSessions \ overwritten : shown[s] = snap[s]
  <2>1. phase = "ready" /\ toHost = <<>> /\ toStreamer = <<>> /\ subscribed
        /\ \A s \in HostSessions : call[s] # "answered"
    BY <1>1 DEF StartSettled, Awaited, MirrorIInv, WireInv
  <2>2. /\ \A s \in HostSessions : s \in Base <=> s \in mirror
        /\ BaseGates = shown /\ \A s : ~HoldAsked(s)
    BY <2>1 DEF Base, BaseGates, HoldAsked, Holds
  <2>3. /\ \A s \in Kept \ missed : s \in Base <=> s \in held
        /\ \A s \in Kept : BaseGates[s] = snap[s]
    BY <2>1, <2>2, Now, AfterNothing
  <2> QED
    BY <2>2, <2>3 DEF Kept
<1> QED
  BY <1>1 DEF MirrorIInv, MirrorInv, MirrorIsFaithful, GatesAreFaithful

(***************************************************************************)
(* A settled streamer knows of the host's sessions and of their gates what *)
(* the host does, whatever was started, held, reaped or shown meanwhile,   *)
(* however the messages fell into chunks and however often the streamer    *)
(* restarted or lost the connection: the mirror that connect() seeds and   *)
(* handleEvent keeps (src/src/pty-host/remote-session-runner.ts) is the    *)
(* host's table.  Nothing is assumed of when sessions start and end.  What *)
(* is excepted is excepted session by session and for one connection, and  *)
(* the code excepts it: a start or an end that no message told of          *)
(* (`missed`: between the status reply and the subscription, or a start    *)
(* whose requester is gone) for the mirror alone, and an event handled     *)
(* before the code its chunk's reply resumes (`overwritten`) for both.     *)
(* That the first does leave the mirror wrong for good is the run          *)
(* mirror_gap.                                                             *)
(***************************************************************************)
THEOREM MirrorHolds == MirrorSpec => []MirrorInv
<1>1. MirrorInit => MirrorIInv
  BY MirrorStarts
<1>2. MirrorIInv /\ [MirrorNext]_mirrorVars => MirrorIInv'
  BY MirrorStep
<1>3. MirrorIInv => MirrorInv
  BY MirrorFollowed
<1> QED
  BY <1>1, <1>2, <1>3, PTL DEF MirrorSpec

-----------------------------------------------------------------------------
(* Induction and recursion over the natural numbers, for sets and          *)
(* functions rather than operators.                                        *)

Below == {ss \in Nat \X Nat : ss[1] < ss[2]}

LEMMA BelowIsWellFounded == IsWellFoundedOn(Below, Nat)
<1>1. Below = OpToRel(<, Nat)
  BY Zenon DEF OpToRel, Below
<1> QED
  BY <1>1, NatLessThanWellFounded, Zenon

LEMMA Induce ==
  ASSUME NEW S, 0 \in S, \A n \in Nat : n \in S => n + 1 \in S
  PROVE  \A n \in Nat : n \in S
<1> SUFFICES ASSUME NEW k \in Nat, k \notin S
             PROVE  FALSE
  OBVIOUS
<1> DEFINE T == {n \in Nat : n \notin S}
<1>1. PICK x \in T : \A y \in T : ~(<<y, x>> \in Below)
  BY BelowIsWellFounded, WFMin
<1>2. x \in Nat /\ x \notin S /\ \A y \in T : ~(y < x)
  BY <1>1 DEF Below
<1>3. x # 0 /\ x - 1 \in Nat /\ x - 1 < x /\ x - 1 + 1 = x
  BY <1>2
<1>4. x - 1 \in S
  BY <1>2, <1>3
<1> QED
  BY <1>2, <1>3, <1>4

\* The functions over 0..n that start with x and go on by F.
Starts(T, x, F, n) ==
  {f \in [0..n -> T] : f[0] = x /\ \A i \in 0..(n - 1) : f[i + 1] = F[i][f[i]]}

LEMMA StartsAgree ==
  ASSUME NEW T, NEW x \in T, NEW F \in [Nat -> [T -> T]], NEW n \in Nat, NEW m \in Nat,
         NEW f \in Starts(T, x, F, n), NEW g \in Starts(T, x, F, m), NEW k \in Nat, k <= n, k <= m
  PROVE  f[k] = g[k]
<1> DEFINE S == {i \in Nat : i <= n /\ i <= m => f[i] = g[i]}
<1>1. 0 \in S
  BY DEF Starts
<1>2. ASSUME NEW i \in Nat, i \in S
      PROVE  i + 1 \in S
  <2> SUFFICES ASSUME i + 1 <= n, i + 1 <= m
               PROVE  f[i + 1] = g[i + 1]
    OBVIOUS
  <2>1. f[i] = g[i] /\ i \in 0..(n - 1) /\ i \in 0..(m - 1)
    BY <1>2
  <2> QED
    BY <2>1 DEF Starts
<1> HIDE DEF S
<1>3. \A i \in Nat : i \in S
  BY <1>1, <1>2, Induce
<1> QED
  BY <1>3 DEF S

LEMMA StartsExist ==
  ASSUME NEW T, NEW x \in T, NEW F \in [Nat -> [T -> T]]
  PROVE  \A n \in Nat : Starts(T, x, F, n) # {}
<1> DEFINE S == {n \in Nat : Starts(T, x, F, n) # {}}
<1>1. 0 \in S
  <2>1. [i \in 0..0 |-> x] \in Starts(T, x, F, 0)
    BY DEF Starts
  <2> QED
    BY <2>1
<1>2. ASSUME NEW n \in Nat, n \in S
      PROVE  n + 1 \in S
  <2>1. PICK f : f \in Starts(T, x, F, n)
    BY <1>2
  <2>2. f \in [0..n -> T] /\ f[0] = x /\ \A i \in 0..(n - 1) : f[i + 1] = F[i][f[i]]
    BY <2>1 DEF Starts
  <2> DEFINE g == [i \in 0..(n + 1) |-> IF i = n + 1 THEN F[n][f[n]] ELSE f[i]]
  <2>3. F[n][f[n]] \in T
    BY <2>2
  <2>4. g \in [0..(n + 1) -> T] /\ g[0] = x
    BY <2>2, <2>3
  <2>5. \A i \in 0..(n + 1 - 1) : g[i + 1] = F[i][g[i]]
    BY <2>2
  <2> HIDE DEF g
  <2>6. g \in Starts(T, x, F, n + 1)
    BY <2>4, <2>5 DEF Starts
  <2> QED
    BY <2>6
<1> HIDE DEF S
<1>3. \A n \in Nat : n \in S
  BY <1>1, <1>2, Induce
<1> QED
  BY <1>3 DEF S

Orbit(f, x, F) == f[0] = x /\ \A n \in Nat : f[n + 1] = F[n][f[n]]

LEMMA Recursion ==
  ASSUME NEW T, NEW x \in T, NEW F \in [Nat -> [T -> T]]
  PROVE  \E f \in [Nat -> T] : Orbit(f, x, F)
<1> DEFINE upTo(n) == CHOOSE f : f \in Starts(T, x, F, n)
           f == [n \in Nat |-> upTo(n)[n]]
<1>1. \A n \in Nat : upTo(n) \in Starts(T, x, F, n)
  BY StartsExist
<1> HIDE DEF upTo
<1>2. \A n \in Nat : upTo(n)[n] \in T
  BY <1>1 DEF Starts
<1>3. f[0] = x
  BY <1>1 DEF Starts
<1>4. ASSUME NEW n \in Nat
      PROVE  f[n + 1] = F[n][f[n]]
  <2>1. upTo(n + 1) \in Starts(T, x, F, n + 1) /\ upTo(n) \in Starts(T, x, F, n)
    BY <1>1
  <2>2. upTo(n + 1)[n] = upTo(n)[n]
    BY <2>1, StartsAgree
  <2>3. upTo(n + 1)[n + 1] = F[n][upTo(n + 1)[n]]
    BY <2>1 DEF Starts
  <2> QED
    BY <2>2, <2>3
<1>5. f \in [Nat -> T]
  BY <1>2
<1> HIDE DEF f
<1> QED
  BY <1>3, <1>4, <1>5 DEF Orbit

-----------------------------------------------------------------------------
(* Folds of sequences.                                                     *)

\* What F makes of x with the members of w, in turn.
Fold(F, x, w) ==
  LET acc[k \in 0..Len(w)] == IF k = 0 THEN x ELSE F[<<acc[k - 1], w[k]>>]
  IN  acc[Len(w)]

Runs(F, x, w, acc) ==
  /\ DOMAIN acc = 0..Len(w) /\ acc[0] = x
  /\ \A k \in 1..Len(w) : acc[k] = F[<<acc[k - 1], w[k]>>]

LEMMA RunsExist ==
  ASSUME NEW T, NEW M, NEW x \in T, NEW F \in [T \X M -> T], NEW w \in Seq(M)
  PROVE  \E acc \in [0..Len(w) -> T] : Runs(F, x, w, acc)
<1> DEFINE G == [n \in Nat |-> [t \in T |-> IF n + 1 \in 1..Len(w) THEN F[<<t, w[n + 1]>>] ELSE t]]
<1>1. G \in [Nat -> [T -> T]]
  <2>1. \A n \in Nat : \A t \in T : (IF n + 1 \in 1..Len(w) THEN F[<<t, w[n + 1]>>] ELSE t) \in T
    OBVIOUS
  <2> QED
    BY <2>1
<1>2. \A n \in Nat : \A t \in T : n + 1 \in 1..Len(w) => G[n][t] = F[<<t, w[n + 1]>>]
  OBVIOUS
<1> HIDE DEF G
<1>3. PICK f \in [Nat -> T] : f[0] = x /\ \A n \in Nat : f[n + 1] = G[n][f[n]]
  <2>1. \E f \in [Nat -> T] : Orbit(f, x, G)
    BY <1>1, Recursion
  <2> QED
    BY <2>1 DEF Orbit
<1> DEFINE acc == [k \in 0..Len(w) |-> f[k]]
<1>4. acc \in [0..Len(w) -> T] /\ acc[0] = x
  <2>1. Len(w) \in Nat
    OBVIOUS
  <2>2. 0 \in 0..Len(w) /\ \A k \in 0..Len(w) : k \in Nat
    BY <2>1
  <2> QED
    BY <1>3, <2>2
<1>5. ASSUME NEW k \in 1..Len(w)
      PROVE  acc[k] = F[<<acc[k - 1], w[k]>>]
  <2>0. Len(w) \in Nat
    OBVIOUS
  <2>4. k - 1 \in Nat /\ k - 1 + 1 = k /\ k - 1 \in 0..Len(w) /\ k \in 0..Len(w)
    BY <2>0
  <2>1. k - 1 \in Nat /\ k - 1 + 1 = k /\ k - 1 \in 0..Len(w) /\ k \in 0..Len(w) /\ f[k - 1] \in T
    BY <1>3, <2>4
  <2>2. f[k] = G[k - 1][f[k - 1]]
    BY <1>3, <2>1
  <2>3. G[k - 1][f[k - 1]] = F[<<f[k - 1], w[k]>>]
    BY <1>2, <2>1
  <2> QED
    BY <2>1, <2>2, <2>3
<1> HIDE DEF acc
<1> QED
  BY <1>4, <1>5 DEF Runs

LEMMA RunsAgree ==
  ASSUME NEW F, NEW x, NEW w, NEW v, NEW f, NEW g, Runs(F, x, w, f), Runs(F, x, v, g),
         NEW n \in Nat, Len(w) \in Nat, Len(v) \in Nat, n <= Len(w), n <= Len(v),
         \A i \in 1..n : w[i] = v[i]
  PROVE  f[n] = g[n]
<1> DEFINE S == {i \in Nat : i <= n => f[i] = g[i]}
<1>1. 0 \in S
  BY DEF Runs
<1>2. ASSUME NEW i \in Nat, i \in S
      PROVE  i + 1 \in S
  <2> SUFFICES ASSUME i + 1 <= n
               PROVE  f[i + 1] = g[i + 1]
    OBVIOUS
  <2>1. PICK k : k = i + 1
    OBVIOUS
  <2>2. f[i] = g[i] /\ k \in 1..n /\ k \in 1..Len(w) /\ k \in 1..Len(v) /\ k - 1 = i
    BY <1>2, <2>1
  <2>3. f[k] = F[<<f[k - 1], w[k]>>] /\ g[k] = F[<<g[k - 1], v[k]>>]
    BY <2>2 DEF Runs
  <2> QED
    BY <2>1, <2>2, <2>3
<1> HIDE DEF S
<1>3. \A i \in Nat : i \in S
  BY <1>1, <1>2, Induce
<1> QED
  BY <1>3 DEF S

LEMMA FoldIs ==
  ASSUME NEW F, NEW x, NEW w, Len(w) \in Nat, NEW acc, Runs(F, x, w, acc)
  PROVE  Fold(F, x, w) = acc[Len(w)]
<1> DEFINE g == CHOOSE h : h = [k \in 0..Len(w) |-> IF k = 0 THEN x ELSE F[<<h[k - 1], w[k]>>]]
           a == [k \in 0..Len(w) |-> acc[k]]
<1>1. Fold(F, x, w) = g[Len(w)]
  BY DEF Fold
<1>2. a = [k \in 0..Len(w) |-> IF k = 0 THEN x ELSE F[<<a[k - 1], w[k]>>]]
  <2>1. \A k \in 1..Len(w) : acc[k] = F[<<acc[k - 1], w[k]>>] /\ k - 1 \in 0..Len(w)
    BY DEF Runs
  <2>2. \A k \in 0..Len(w) : a[k] = IF k = 0 THEN x ELSE F[<<a[k - 1], w[k]>>]
    BY <2>1 DEF Runs
  <2> QED
    BY <2>2
<1> HIDE DEF a
<1>3. g = [k \in 0..Len(w) |-> IF k = 0 THEN x ELSE F[<<g[k - 1], w[k]>>]]
  BY <1>2
<1> HIDE DEF g
<1>4. Runs(F, x, w, g)
  <2>2. DOMAIN g = 0..Len(w) /\ \A k \in 0..Len(w) : g[k] = IF k = 0 THEN x ELSE F[<<g[k - 1], w[k]>>]
    BY <1>3
  <2>0. 0 \in 0..Len(w)
    OBVIOUS
  <2>3. g[0] = x
    BY <2>0, <2>2
  <2>4. ASSUME NEW k \in 1..Len(w)
        PROVE  g[k] = F[<<g[k - 1], w[k]>>]
    <3>1. k \in 0..Len(w) /\ k # 0
      OBVIOUS
    <3> QED
      BY <2>2, <3>1
  <2> QED
    BY <2>2, <2>3, <2>4 DEF Runs
<1>5. g[Len(w)] = acc[Len(w)]
  BY <1>4, RunsAgree
<1> QED
  BY <1>1, <1>5

LEMMA FoldTyped ==
  ASSUME NEW T, NEW M, NEW x \in T, NEW F \in [T \X M -> T], NEW w \in Seq(M)
  PROVE  Fold(F, x, w) \in T
<1>1. PICK acc \in [0..Len(w) -> T] : Runs(F, x, w, acc)
  BY RunsExist
<1>2. Fold(F, x, w) = acc[Len(w)]
  BY <1>1, FoldIs
<1>3. Len(w) \in 0..Len(w)
  OBVIOUS
<1> QED
  BY <1>1, <1>2, <1>3

LEMMA FoldEmpty ==
  ASSUME NEW T, NEW M, NEW x \in T, NEW F \in [T \X M -> T]
  PROVE  Fold(F, x, <<>>) = x
<1>1. <<>> \in Seq(M) /\ Len(<<>>) = 0
  OBVIOUS
<1>2. PICK acc \in [0..Len(<<>>) -> T] : Runs(F, x, <<>>, acc)
  BY <1>1, RunsExist
<1>3. Fold(F, x, <<>>) = acc[Len(<<>>)]
  BY <1>1, <1>2, FoldIs
<1>4. acc[0] = x
  BY <1>2 DEF Runs
<1> QED
  BY <1>1, <1>3, <1>4

At(F, a, m) == F[<<a, m>>]
Steps(T, M) == [T \X M -> T]

LEMMA FoldAppend ==
  ASSUME NEW T, NEW M, NEW x \in T, NEW F \in Steps(T, M), NEW w \in Seq(M), NEW m \in M
  PROVE  Fold(F, x, Append(w, m)) = At(F, Fold(F, x, w), m)
<1>a. F \in [T \X M -> T]
  BY DEF Steps
<1> DEFINE v == Append(w, m)
<1>1. v \in Seq(M) /\ Len(v) = Len(w) + 1 /\ v[Len(v)] = m /\ Len(w) \in Nat
  OBVIOUS
<1>0. \A i \in 1..Len(w) : w[i] = v[i]
  OBVIOUS
<1> HIDE DEF v
<1>2. PICK f \in [0..Len(w) -> T] : Runs(F, x, w, f)
  BY <1>a, RunsExist
<1>3. PICK g \in [0..Len(v) -> T] : Runs(F, x, v, g)
  BY <1>1, <1>a, RunsExist
<1>4. Fold(F, x, w) = f[Len(w)]
  BY <1>2, FoldIs
<1>5. Fold(F, x, v) = g[Len(v)]
  BY <1>1, <1>3, FoldIs
<1>6. f[Len(w)] = g[Len(w)]
  <2>1. PICK n \in Nat : n = Len(w)
    BY <1>1
  <2>2. Len(v) \in Nat /\ n <= Len(w) /\ n <= Len(v) /\ \A i \in 1..n : w[i] = v[i]
    BY <1>0, <1>1, <2>1
  <2>3. Runs(F, x, w, f) /\ Runs(F, x, v, g) /\ Len(w) \in Nat
    BY <1>1, <1>2, <1>3
  <2>4. f[n] = g[n]
    BY <2>2, <2>3, RunsAgree
  <2> QED
    BY <2>1, <2>4
<1>7. PICK k : k = Len(v)
  OBVIOUS
<1>8. k \in 1..Len(v) /\ k - 1 = Len(w) /\ v[k] = m
  BY <1>1, <1>7
<1>9. g[k] = F[<<g[k - 1], v[k]>>]
  BY <1>3, <1>8 DEF Runs
<1> QED
  BY <1>4, <1>5, <1>6, <1>7, <1>8, <1>9 DEF v, At

LEMMA FoldHead ==
  ASSUME NEW T, NEW M, NEW x \in T, NEW F \in Steps(T, M), NEW w \in Seq(M), w # <<>>
  PROVE  Fold(F, x, w) = Fold(F, At(F, x, Head(w)), Tail(w))
<1>a. F \in [T \X M -> T]
  BY DEF Steps
<1> DEFINE v == Tail(w)
           y == F[<<x, Head(w)>>]
<1>1. v \in Seq(M) /\ Len(v) \in Nat /\ Len(w) = Len(v) + 1 /\ Head(w) = w[1] /\ Head(w) \in M
  BY HeadTailProperties
<1>2. \A i \in Nat : i + 1 \in 1..Len(v) => v[i + 1] = w[i + 2]
  BY <1>1
<1>3. y \in T
  BY <1>1, <1>a
<1> HIDE DEF v, y
<1>4. PICK f \in [0..Len(w) -> T] : Runs(F, x, w, f)
  BY <1>a, RunsExist
<1>5. PICK g \in [0..Len(v) -> T] : Runs(F, y, v, g)
  BY <1>1, <1>3, <1>a, RunsExist
<1> DEFINE S == {i \in Nat : i <= Len(v) => g[i] = f[i + 1]}
<1>6. 0 \in S
  <2>1. g[0] = y
    BY <1>5 DEF Runs
  <2>2. PICK k : k = 1
    OBVIOUS
  <2>3. k \in 1..Len(w) /\ k - 1 = 0
    BY <1>1, <2>2
  <2>4. f[k] = F[<<f[k - 1], w[k]>>] /\ f[0] = x
    BY <1>4, <2>3 DEF Runs
  <2>5. f[1] = y
    BY <1>1, <2>2, <2>3, <2>4 DEF y
  <2> QED
    BY <2>1, <2>5
<1>7. ASSUME NEW i \in Nat, i \in S
      PROVE  i + 1 \in S
  <2> SUFFICES ASSUME i + 1 <= Len(v)
               PROVE  g[i + 1] = f[i + 2]
    OBVIOUS
  <2>1. PICK k : k = i + 1
    OBVIOUS
  <2>2. PICK l : l = i + 2
    OBVIOUS
  <2>3. k \in 1..Len(v) /\ k - 1 = i /\ l \in 1..Len(w) /\ l - 1 = i + 1 /\ g[i] = f[i + 1]
    BY <1>1, <1>7, <2>1, <2>2
  <2>4. v[k] = w[l]
    BY <1>2, <2>1, <2>2, <2>3
  <2>5. g[k] = F[<<g[k - 1], v[k]>>]
    BY <1>5, <2>3 DEF Runs
  <2>6. f[l] = F[<<f[l - 1], w[l]>>]
    BY <1>4, <2>3 DEF Runs
  <2> QED
    BY <2>1, <2>2, <2>3, <2>4, <2>5, <2>6
<1> HIDE DEF S
<1>8. \A i \in Nat : i \in S
  BY <1>6, <1>7, Induce
<1>9. g[Len(v)] = f[Len(w)]
  BY <1>1, <1>8 DEF S
<1>10. Fold(F, x, w) = f[Len(w)]
  BY <1>4, FoldIs
<1>11. Fold(F, y, v) = g[Len(v)]
  BY <1>1, <1>3, <1>5, FoldIs
<1> QED
  BY <1>9, <1>10, <1>11 DEF v, y, At

LEMMA FoldKeeps ==
  ASSUME NEW T, NEW M, NEW x \in T, NEW F \in [T \X M -> T], NEW w \in Seq(M),
         NEW Q, x \in Q, \A t \in T : \A i \in 1..Len(w) : t \in Q => F[<<t, w[i]>>] \in Q
  PROVE  Fold(F, x, w) \in Q
<1>1. PICK f \in [0..Len(w) -> T] : Runs(F, x, w, f)
  BY RunsExist
<1>2. Fold(F, x, w) = f[Len(w)]
  BY <1>1, FoldIs
<1> DEFINE S == {i \in Nat : i <= Len(w) => f[i] \in Q}
<1>3. 0 \in S
  BY <1>1 DEF Runs
<1>4. ASSUME NEW i \in Nat, i \in S
      PROVE  i + 1 \in S
  <2> SUFFICES ASSUME i + 1 <= Len(w)
               PROVE  f[i + 1] \in Q
    OBVIOUS
  <2>1. PICK k : k = i + 1
    OBVIOUS
  <2>2. k \in 1..Len(w) /\ k - 1 = i /\ f[i] \in Q /\ i \in 0..Len(w)
    BY <1>4, <2>1
  <2>3. f[k] = F[<<f[k - 1], w[k]>>]
    BY <1>1, <2>2 DEF Runs
  <2>4. f[i] \in T
    BY <1>1, <2>2
  <2> QED
    BY <2>1, <2>2, <2>3, <2>4
<1> HIDE DEF S
<1>5. \A i \in Nat : i \in S
  BY <1>3, <1>4, Induce
<1>6. Len(w) \in Nat
  OBVIOUS
<1> QED
  BY <1>2, <1>5, <1>6 DEF S

-----------------------------------------------------------------------------
(* Sums.                                                                   *)

Plus == [p \in Nat \X Nat |-> p[1] + p[2]]

LEMMA PlusTyped ==
  /\ Plus \in [Nat \X Nat -> Nat]
  /\ \A a, b \in Nat : Plus[<<a, b>>] = a + b
BY DEF Plus

LEMMA SumIsFold ==
  ASSUME NEW w \in Seq(Nat)
  PROVE  SumOf(w) = Fold(Plus, 0, w)
<1> DEFINE g == CHOOSE h : h = [k \in 0..Len(w) |-> IF k = 0 THEN 0 ELSE h[k - 1] + w[k]]
<1>0. Len(w) \in Nat /\ 0 \in 0..Len(w)
  OBVIOUS
<1>1. SumOf(w) = g[Len(w)]
  BY DEF SumOf
<1>2. PICK a \in [0..Len(w) -> Nat] : Runs(Plus, 0, w, a)
  <2>1. 0 \in Nat
    OBVIOUS
  <2> QED
    BY <2>1, PlusTyped, RunsExist
<1>3. \A k \in 1..Len(w) : a[k] = a[k - 1] + w[k]
  <2> SUFFICES ASSUME NEW k \in 1..Len(w)
               PROVE  a[k] = a[k - 1] + w[k]
    OBVIOUS
  <2>1. k - 1 \in 0..Len(w) /\ w[k] \in Nat
    BY <1>0
  <2>2. a[k - 1] \in Nat
    BY <1>2, <2>1
  <2>3. a[k] = Plus[<<a[k - 1], w[k]>>]
    BY <1>2 DEF Runs
  <2> QED
    BY <2>1, <2>2, <2>3, PlusTyped
<1>4. a = [k \in 0..Len(w) |-> IF k = 0 THEN 0 ELSE a[k - 1] + w[k]]
  <2>1. \A k \in 0..Len(w) : a[k] = IF k = 0 THEN 0 ELSE a[k - 1] + w[k]
    BY <1>2, <1>3 DEF Runs
  <2> QED
    BY <2>1
<1>5. g = [k \in 0..Len(w) |-> IF k = 0 THEN 0 ELSE g[k - 1] + w[k]]
  BY <1>4
<1> HIDE DEF g
<1>6. g[0] = 0 /\ \A k \in 1..Len(w) : g[k] = g[k - 1] + w[k]
  <2>1. \A k \in 0..Len(w) : g[k] = IF k = 0 THEN 0 ELSE g[k - 1] + w[k]
    BY <1>5
  <2>2. g[0] = 0
    BY <1>0, <2>1
  <2>3. \A k \in 1..Len(w) : k \in 0..Len(w) /\ k # 0
    BY <1>0
  <2> QED
    BY <2>1, <2>2, <2>3
<1> DEFINE S == {i \in Nat : i <= Len(w) => g[i] = a[i]}
<1>7. 0 \in S
  BY <1>2, <1>6 DEF Runs
<1>8. ASSUME NEW i \in Nat, i \in S
      PROVE  i + 1 \in S
  <2> SUFFICES ASSUME i + 1 <= Len(w)
               PROVE  g[i + 1] = a[i + 1]
    OBVIOUS
  <2>1. PICK k : k = i + 1
    OBVIOUS
  <2>2. k \in 1..Len(w) /\ k - 1 = i /\ g[i] = a[i]
    BY <1>8, <2>1
  <2> QED
    BY <1>3, <1>6, <2>1, <2>2
<1> HIDE DEF S
<1>9. \A i \in Nat : i \in S
  BY <1>7, <1>8, Induce
<1>10. g[Len(w)] = a[Len(w)]
  BY <1>0, <1>9 DEF S
<1>11. Fold(Plus, 0, w) = a[Len(w)]
  <2>1. 0 \in Nat
    OBVIOUS
  <2> QED
    BY <1>2, <2>1, PlusTyped, FoldIs
<1> QED
  BY <1>1, <1>10, <1>11

\* A sum that starts at n is greater by n.
LEMMA SumFrom ==
  ASSUME NEW w \in Seq(Nat), NEW n \in Nat
  PROVE  Fold(Plus, n, w) = n + Fold(Plus, 0, w)
<1>0. 0 \in Nat /\ Len(w) \in Nat
  OBVIOUS
<1>1. PICK f \in [0..Len(w) -> Nat] : Runs(Plus, n, w, f)
  BY PlusTyped, RunsExist
<1>2. PICK g \in [0..Len(w) -> Nat] : Runs(Plus, 0, w, g)
  BY <1>0, PlusTyped, RunsExist
<1>3. Fold(Plus, n, w) = f[Len(w)]
  BY <1>1, PlusTyped, FoldIs
<1>4. Fold(Plus, 0, w) = g[Len(w)]
  BY <1>0, <1>2, PlusTyped, FoldIs
<1> DEFINE S == {i \in Nat : i <= Len(w) => f[i] = n + g[i]}
<1>5. 0 \in S
  BY <1>1, <1>2 DEF Runs
<1>6. ASSUME NEW i \in Nat, i \in S
      PROVE  i + 1 \in S
  <2> SUFFICES ASSUME i + 1 <= Len(w)
               PROVE  f[i + 1] = n + g[i + 1]
    OBVIOUS
  <2>1. PICK k : k = i + 1
    OBVIOUS
  <2>2. k \in 1..Len(w) /\ k - 1 = i /\ f[i] = n + g[i] /\ w[k] \in Nat /\ i \in 0..Len(w)
    BY <1>6, <2>1
  <2>3. f[i] \in Nat /\ g[i] \in Nat
    BY <1>1, <1>2, <2>2
  <2>4. f[k] = Plus[<<f[i], w[k]>>] /\ g[k] = Plus[<<g[i], w[k]>>]
    BY <1>1, <1>2, <2>2 DEF Runs
  <2>5. f[k] = f[i] + w[k] /\ g[k] = g[i] + w[k]
    BY <2>2, <2>3, <2>4, PlusTyped
  <2> QED
    BY <2>1, <2>2, <2>3, <2>5
<1> HIDE DEF S
<1>7. \A i \in Nat : i \in S
  BY <1>5, <1>6, Induce
<1> QED
  BY <1>0, <1>3, <1>4, <1>7 DEF S

LEMMA SumTyped == \A w \in Seq(Nat) : SumOf(w) \in Nat
<1> SUFFICES ASSUME NEW w \in Seq(Nat)
             PROVE  SumOf(w) \in Nat
  OBVIOUS
<1>1. 0 \in Nat
  OBVIOUS
<1>2. Fold(Plus, 0, w) \in Nat
  BY <1>1, PlusTyped, FoldTyped
<1> QED
  BY <1>2, SumIsFold

LEMMA SumAppend == \A w \in Seq(Nat), n \in Nat : SumOf(Append(w, n)) = SumOf(w) + n
<1> SUFFICES ASSUME NEW w \in Seq(Nat), NEW n \in Nat
             PROVE  SumOf(Append(w, n)) = SumOf(w) + n
  OBVIOUS
<1>1. 0 \in Nat /\ Append(w, n) \in Seq(Nat)
  OBVIOUS
<1>2. Fold(Plus, 0, Append(w, n)) = Plus[<<Fold(Plus, 0, w), n>>]
  <2>1. Plus \in Steps(Nat, Nat)
    BY PlusTyped DEF Steps
  <2>2. Fold(Plus, 0, Append(w, n)) = At(Plus, Fold(Plus, 0, w), n)
    <3>1. PICK N, m, z : N = Nat /\ m = n /\ z = 0
      OBVIOUS
    <3>2. Plus \in Steps(N, N) /\ w \in Seq(N) /\ m \in N /\ z \in N
      BY <2>1, <3>1
    <3>3. Fold(Plus, z, Append(w, m)) = At(Plus, Fold(Plus, z, w), m)
      BY <3>2, FoldAppend
    <3> QED
      BY <3>1, <3>3
  <2> QED
    BY <2>2 DEF At
<1>3. SumOf(Append(w, n)) = Plus[<<SumOf(w), n>>]
  BY <1>1, <1>2, SumIsFold
<1> QED
  BY <1>3, SumTyped, PlusTyped

LEMMA SumHead ==
  ASSUME NEW w \in Seq(Nat), w # <<>>
  PROVE  SumOf(w) = Head(w) + SumOf(Tail(w))
<1>1. 0 \in Nat /\ Head(w) \in Nat /\ Tail(w) \in Seq(Nat)
  OBVIOUS
<1>2. Plus[<<0, Head(w)>>] = Head(w)
  BY <1>1, PlusTyped
<1>3. Fold(Plus, 0, w) = Fold(Plus, Plus[<<0, Head(w)>>], Tail(w))
  <2>1. Plus \in Steps(Nat, Nat)
    BY PlusTyped DEF Steps
  <2>2. Fold(Plus, 0, w) = Fold(Plus, At(Plus, 0, Head(w)), Tail(w))
    <3>1. PICK N, z : N = Nat /\ z = 0
      OBVIOUS
    <3>2. Plus \in Steps(N, N) /\ w \in Seq(N) /\ z \in N
      BY <2>1, <3>1
    <3>3. Fold(Plus, z, w) = Fold(Plus, At(Plus, z, Head(w)), Tail(w))
      BY <3>2, FoldHead
    <3> QED
      BY <3>1, <3>3
  <2> QED
    BY <2>2 DEF At
<1>4. Fold(Plus, Head(w), Tail(w)) = Head(w) + Fold(Plus, 0, Tail(w))
  BY <1>1, SumFrom
<1> QED
  BY <1>1, <1>2, <1>3, <1>4, SumIsFold

LEMMA SumOfNothing == SumOf(<<>>) = 0
<1>1. 0 \in Nat /\ <<>> \in Seq(Nat)
  OBVIOUS
<1>2. Fold(Plus, 0, <<>>) = 0
  BY <1>1, PlusTyped, FoldEmpty
<1> QED
  BY <1>1, <1>2, SumIsFold

LEMMA SumOfZeros ==
  ASSUME NEW w \in Seq(Nat), \A i \in 1..Len(w) : w[i] = 0
  PROVE  SumOf(w) = 0
<1>1. 0 \in Nat /\ 0 \in {0}
  OBVIOUS
<1>2. \A t \in Nat : \A i \in 1..Len(w) : t \in {0} => Plus[<<t, w[i]>>] \in {0}
  BY PlusTyped
<1>3. Fold(Plus, 0, w) \in {0}
  BY <1>1, <1>2, PlusTyped, FoldKeeps
<1> QED
  BY <1>3, SumIsFold

FrameTypes == {"OPEN", "HEAD", "DATA", "WINDOW", "END", "RESET"}
Frames == [type : FrameTypes, id : RelayStreams, n : Nat, last : BOOLEAN]
RemoteStates == {"idle", "open", "headed", "closed"}
Remotes == [st : RemoteStates, credit : Nat, owes : Nat, part : Nat, got : Seq(Nat), sent : Nat,
            over : BOOLEAN]
Views == [st : RemoteStates, part : Nat, got : Seq(Nat), over : BOOLEAN]

-----------------------------------------------------------------------------
(* Bytes on a wire.                                                        *)

Share(f, type, id) == IF f.type = type /\ f.id = id THEN f.n ELSE 0
Shares(w, type, id) == [i \in 1..Len(w) |-> IF w[i].type = type /\ w[i].id = id THEN w[i].n ELSE 0]

LEMMA SharesTyped ==
  ASSUME NEW w \in Seq(Frames), NEW type, NEW id
  PROVE  /\ Shares(w, type, id) \in Seq(Nat)
         /\ Len(Shares(w, type, id)) = Len(w)
         /\ \A i \in 1..Len(w) : Shares(w, type, id)[i] = Share(w[i], type, id)
<1>1. \A i \in 1..Len(w) : w[i] \in Frames
  OBVIOUS
<1>2. \A i \in 1..Len(w) : (IF w[i].type = type /\ w[i].id = id THEN w[i].n ELSE 0) \in Nat
  BY <1>1 DEF Frames
<1>3. Len(w) \in Nat
  OBVIOUS
<1>4. Shares(w, type, id) \in Seq(Nat)
  BY <1>2, <1>3, IsASeq DEF Shares
<1>5. Len(Shares(w, type, id)) = Len(w)
  BY <1>3 DEF Shares
<1> QED
  BY <1>4, <1>5 DEF Shares, Share

LEMMA BytesTyped ==
  ASSUME NEW w \in Seq(Frames), NEW type, NEW id
  PROVE  Bytes(w, type, id) \in Nat
<1>1. Shares(w, type, id) \in Seq(Nat)
  BY SharesTyped
<1>2. SumOf(Shares(w, type, id)) \in Nat
  BY <1>1, SumTyped
<1> QED
  BY <1>2 DEF Bytes, Shares

LEMMA BytesAppend ==
  ASSUME NEW w \in Seq(Frames), NEW f \in Frames, NEW type, NEW id
  PROVE  Bytes(Append(w, f), type, id) = Bytes(w, type, id) + Share(f, type, id)
<1> DEFINE v == Append(w, f)
           a == Shares(w, type, id)
           b == Shares(v, type, id)
           n == Share(f, type, id)
<1>1. v \in Seq(Frames) /\ Len(v) = Len(w) + 1 /\ v[Len(w) + 1] = f /\ Len(w) \in Nat
  OBVIOUS
<1>2. \A i \in 1..Len(w) : v[i] = w[i]
  OBVIOUS
<1>3. n \in Nat
  BY DEF Frames, Share
<1> HIDE DEF v
<1>4. a \in Seq(Nat) /\ Len(a) = Len(w) /\ \A i \in 1..Len(w) : a[i] = Share(w[i], type, id)
  BY SharesTyped
<1>5. b \in Seq(Nat) /\ Len(b) = Len(v) /\ \A i \in 1..Len(v) : b[i] = Share(v[i], type, id)
  BY <1>1, SharesTyped
<1> HIDE DEF a, b
<1>6. b = Append(a, n)
  <2>1. \A i \in 1..Len(w) : b[i] = a[i]
    BY <1>1, <1>2, <1>4, <1>5
  <2>2. b[Len(w) + 1] = n
    <3>1. Len(w) + 1 \in 1..Len(v)
      BY <1>1
    <3> QED
      BY <1>1, <1>5, <3>1
  <2> HIDE DEF n
  <2>3. Append(a, n) \in Seq(Nat) /\ Len(Append(a, n)) = Len(w) + 1 /\ Append(a, n)[Len(w) + 1] = n
    BY <1>3, <1>4
  <2>4. \A i \in 1..Len(w) : Append(a, n)[i] = a[i]
    BY <1>3, <1>4
  <2>5. \A i \in 1..Len(b) : b[i] = Append(a, n)[i]
    BY <1>1, <1>5, <2>1, <2>2, <2>3, <2>4
  <2> QED
    BY <1>1, <1>5, <2>3, <2>5, SeqEqual
<1>7. SumOf(b) = SumOf(a) + n
  BY <1>3, <1>4, <1>6, SumAppend
<1> QED
  BY <1>7 DEF Bytes, Shares, a, b, v

LEMMA BytesHead ==
  ASSUME NEW w \in Seq(Frames), w # <<>>, NEW type, NEW id
  PROVE  Bytes(w, type, id) = Share(Head(w), type, id) + Bytes(Tail(w), type, id)
<1> DEFINE v == Tail(w)
           a == Shares(w, type, id)
           b == Shares(v, type, id)
<1>1. v \in Seq(Frames) /\ Len(v) = Len(w) - 1 /\ Len(w) \in Nat \ {0} /\ Head(w) = w[1]
  BY HeadTailProperties
<1>2. \A i \in 1..Len(v) : v[i] = w[i + 1]
  BY <1>1
<1> HIDE DEF v
<1>3. a \in Seq(Nat) /\ Len(a) = Len(w) /\ \A i \in 1..Len(w) : a[i] = Share(w[i], type, id)
  BY SharesTyped
<1>4. b \in Seq(Nat) /\ Len(b) = Len(v) /\ \A i \in 1..Len(v) : b[i] = Share(v[i], type, id)
  BY <1>1, SharesTyped
<1> HIDE DEF a, b
<1>5. a # <<>> /\ Head(a) = Share(Head(w), type, id)
  BY <1>1, <1>3
<1>6. Tail(a) \in Seq(Nat) /\ Len(Tail(a)) = Len(a) - 1
  BY <1>3, <1>5
<1>7. \A i \in 1..Len(Tail(a)) : Tail(a)[i] = a[i + 1]
  BY <1>3, <1>5
<1>8. b = Tail(a)
  <2>1. \A i \in 1..Len(b) : b[i] = Tail(a)[i]
    <3> SUFFICES ASSUME NEW i \in 1..Len(b)
                 PROVE  b[i] = Tail(a)[i]
      OBVIOUS
    <3>1. PICK k : k = i + 1
      OBVIOUS
    <3>2. i \in 1..Len(v) /\ i \in 1..Len(Tail(a)) /\ k \in 1..Len(w)
      BY <1>1, <1>3, <1>4, <1>6, <3>1
    <3>3. b[i] = Share(v[i], type, id) /\ v[i] = w[k] /\ a[k] = Share(w[k], type, id)
      BY <1>2, <1>3, <1>4, <3>1, <3>2
    <3> QED
      BY <1>7, <3>1, <3>2, <3>3
  <2>2. Len(b) = Len(Tail(a))
    BY <1>1, <1>3, <1>4, <1>6
  <2> HIDE DEF v
  <2> QED
    BY <1>4, <1>6, <2>1, <2>2, SeqEqual
<1>9. SumOf(a) = Head(a) + SumOf(Tail(a))
  BY <1>3, <1>5, SumHead
<1> QED
  BY <1>5, <1>8, <1>9 DEF Bytes, Shares, a, b, v

NoneOf(id, w) == \A k \in 1..Len(w) : w[k].id # id

LEMMA BytesOfNone ==
  ASSUME NEW w \in Seq(Frames), NEW type, NEW id, NoneOf(id, w)
  PROVE  Bytes(w, type, id) = 0
<1>1. Shares(w, type, id) \in Seq(Nat)
  BY SharesTyped
<1>2. \A i \in 1..Len(Shares(w, type, id)) : Shares(w, type, id)[i] = 0
  BY SharesTyped DEF NoneOf, Share
<1>3. SumOf(Shares(w, type, id)) = 0
  BY <1>1, <1>2, SumOfZeros
<1> QED
  BY <1>3 DEF Bytes, Shares

-----------------------------------------------------------------------------
(* The relay's view once it has taken what is on the wire.                 *)

Taken(r, f) ==
  IF r.st = "closed" THEN r
  ELSE CASE f.type = "HEAD" -> [r EXCEPT !.st = IF f.last THEN "headed" ELSE "closed"]
         [] f.type = "DATA" ->
              [r EXCEPT !.part = IF f.last THEN 0 ELSE @ + f.n,
                        !.got = IF f.last THEN Append(@, r.part + f.n) ELSE @]
         [] f.type = "WINDOW" -> r
         [] f.type = "END" -> [r EXCEPT !.st = "closed", !.over = TRUE]
         [] OTHER -> [r EXCEPT !.st = "closed"]

LEMMA TakenTyped ==
  ASSUME NEW r \in Views, NEW f \in Frames
  PROVE  Taken(r, f) \in Views
<1> USE DEF Views, RemoteStates
<1>1. CASE r.st = "closed"
  BY <1>1 DEF Taken
<1>2. CASE r.st # "closed" /\ f.type = "HEAD"
  BY <1>2 DEF Taken
<1>3. CASE r.st # "closed" /\ f.type = "DATA"
  <2>1. r.part + f.n \in Nat /\ f.last \in BOOLEAN
    BY DEF Frames
  <2>2. Append(r.got, r.part + f.n) \in Seq(Nat)
    BY <2>1
  <2>3. Taken(r, f) = [r EXCEPT !.part = IF f.last THEN 0 ELSE r.part + f.n,
                                !.got = IF f.last THEN Append(r.got, r.part + f.n) ELSE r.got]
    BY <1>3 DEF Taken
  <2>4. PICK p, g : /\ p = IF f.last THEN 0 ELSE r.part + f.n
                    /\ g = IF f.last THEN Append(r.got, r.part + f.n) ELSE r.got
    OBVIOUS
  <2>5. p \in Nat /\ g \in Seq(Nat)
    BY <2>1, <2>2, <2>4
  <2>6. Taken(r, f) = [r EXCEPT !.part = p, !.got = g]
    BY <2>3, <2>4
  <2> QED
    BY <2>5, <2>6
<1>4. CASE r.st # "closed" /\ f.type = "WINDOW"
  BY <1>4 DEF Taken
<1>5. CASE r.st # "closed" /\ f.type = "END"
  BY <1>5 DEF Taken
<1>6. CASE r.st # "closed" /\ f.type \notin {"HEAD", "DATA", "WINDOW", "END"}
  BY <1>6 DEF Taken
<1> QED
  BY <1>1, <1>2, <1>3, <1>4, <1>5, <1>6

Delivery(id) == [p \in Views \X Frames |-> IF p[2].id = id THEN Taken(p[1], p[2]) ELSE p[1]]
Final(id, r, w) == Fold(Delivery(id), r, w)

LEMMA DeliveryTyped ==
  ASSUME NEW id
  PROVE  /\ Delivery(id) \in [Views \X Frames -> Views]
         /\ \A r \in Views, f \in Frames :
              Delivery(id)[<<r, f>>] = IF f.id = id THEN Taken(r, f) ELSE r
BY TakenTyped DEF Delivery

LEMMA FinalTyped ==
  ASSUME NEW id, NEW r \in Views, NEW w \in Seq(Frames)
  PROVE  Final(id, r, w) \in Views
BY DeliveryTyped, FoldTyped DEF Final

LEMMA FinalAppend ==
  ASSUME NEW id, NEW r \in Views, NEW w \in Seq(Frames), NEW f \in Frames
  PROVE  Final(id, r, Append(w, f)) = IF f.id = id THEN Taken(Final(id, r, w), f) ELSE Final(id, r, w)
<1>1. Delivery(id) \in Steps(Views, Frames)
  BY DeliveryTyped DEF Steps
<1>2. Final(id, r, Append(w, f)) = At(Delivery(id), Final(id, r, w), f)
  BY <1>1, FoldAppend DEF Final
<1> QED
  BY <1>2, DeliveryTyped, FinalTyped DEF At

LEMMA FinalHead ==
  ASSUME NEW id, NEW r \in Views, NEW w \in Seq(Frames), w # <<>>
  PROVE  Final(id, r, w) = Final(id, IF Head(w).id = id THEN Taken(r, Head(w)) ELSE r, Tail(w))
<1>1. Delivery(id) \in Steps(Views, Frames)
  BY DeliveryTyped DEF Steps
<1>2. Final(id, r, w) = Final(id, At(Delivery(id), r, Head(w)), Tail(w))
  BY <1>1, FoldHead DEF Final
<1>3. Head(w) \in Frames
  BY HeadTailProperties
<1>4. At(Delivery(id), r, Head(w)) = IF Head(w).id = id THEN Taken(r, Head(w)) ELSE r
  BY <1>3, DeliveryTyped DEF At
<1> QED
  BY <1>2, <1>4

LEMMA FinalOfNone ==
  ASSUME NEW id, NEW r \in Views, NEW w \in Seq(Frames), NoneOf(id, w)
  PROVE  Final(id, r, w) = r
<1>1. \A t \in Views : \A i \in 1..Len(w) : t \in {r} => Delivery(id)[<<t, w[i]>>] \in {r}
  BY DeliveryTyped DEF NoneOf
<1>2. r \in {r} /\ Delivery(id) \in [Views \X Frames -> Views]
  BY DeliveryTyped
<1>3. Fold(Delivery(id), r, w) \in {r}
  BY <1>1, <1>2, FoldKeeps
<1> QED
  BY <1>3 DEF Final

LEMMA FinalOfClosed ==
  ASSUME NEW id, NEW r \in Views, NEW w \in Seq(Frames), r.st = "closed"
  PROVE  Final(id, r, w) = r
<1>0. \A f \in Frames : Taken(r, f) = r
  BY DEF Taken
<1>1. \A t \in Views : \A i \in 1..Len(w) : t \in {r} => Delivery(id)[<<t, w[i]>>] \in {r}
  BY <1>0, DeliveryTyped
<1>2. r \in {r} /\ Delivery(id) \in [Views \X Frames -> Views]
  BY DeliveryTyped
<1>3. Fold(Delivery(id), r, w) \in {r}
  BY <1>1, <1>2, FoldKeeps
<1> QED
  BY <1>3 DEF Final

Extends(v, u) == \E x \in Seq(Nat) : v = u \o x

LEMMA ExtendsFacts ==
  /\ \A u \in Seq(Nat) : Extends(u, u)
  /\ \A u, v \in Seq(Nat), n \in Nat : Extends(v, u) => Extends(Append(v, n), u)
  /\ \A u, v, w \in Seq(Nat) : Extends(v, u) /\ Extends(w, v) => Extends(w, u)
  /\ \A u, v \in Seq(Nat) : Extends(v, u) => IsPrefix(u, v)
<1>1. ASSUME NEW u \in Seq(Nat)
      PROVE  Extends(u, u)
  <2>1. <<>> \in Seq(Nat) /\ u = u \o <<>>
    BY ConcatEmptySeq, EmptySeq
  <2> QED
    BY <2>1 DEF Extends
<1>2. ASSUME NEW u \in Seq(Nat), NEW v \in Seq(Nat), NEW n \in Nat, Extends(v, u)
      PROVE  Extends(Append(v, n), u)
  <2>1. PICK x \in Seq(Nat) : v = u \o x
    BY <1>2 DEF Extends
  <2>2. Append(x, n) \in Seq(Nat) /\ <<n>> \in Seq(Nat)
    OBVIOUS
  <2>3. Append(v, n) = v \o <<n>> /\ Append(x, n) = x \o <<n>>
    BY AppendIsConcat
  <2>4. (u \o x) \o <<n>> = u \o (x \o <<n>>)
    BY <2>2, ConcatAssociative, SMTT(30)
  <2>5. Append(v, n) = u \o Append(x, n)
    BY <2>1, <2>3, <2>4
  <2> QED
    BY <2>2, <2>5 DEF Extends
<1>3. ASSUME NEW u \in Seq(Nat), NEW v \in Seq(Nat), NEW w \in Seq(Nat), Extends(v, u), Extends(w, v)
      PROVE  Extends(w, u)
  <2>1. PICK x \in Seq(Nat) : v = u \o x
    BY <1>3 DEF Extends
  <2>2. PICK y \in Seq(Nat) : w = v \o y
    BY <1>3 DEF Extends
  <2>3. x \o y \in Seq(Nat)
    OBVIOUS
  <2>4. (u \o x) \o y = u \o (x \o y)
    BY ConcatAssociative, SMTT(20)
  <2>5. w = u \o (x \o y)
    BY <2>1, <2>2, <2>4
  <2> QED
    BY <2>3, <2>5 DEF Extends
<1>4. ASSUME NEW u \in Seq(Nat), NEW v \in Seq(Nat), Extends(v, u)
      PROVE  IsPrefix(u, v)
  <2>1. PICK x \in Seq(Nat) : v = u \o x
    BY <1>4 DEF Extends
  <2>2. Len(u) <= Len(v) /\ \A i \in 1..Len(u) : v[i] = u[i]
    BY <2>1
  <2>3. SubSeq(u, 1, Len(u)) = SubSeq(v, 1, Len(u))
    BY <2>2
  <2> QED
    BY <2>2, <2>3 DEF IsPrefix
<1> QED
  BY <1>1, <1>2, <1>3, <1>4

LEMMA TakenGrows ==
  ASSUME NEW r \in Views, NEW f \in Frames
  PROVE  Extends(Taken(r, f).got, r.got)
<1>1. r.got \in Seq(Nat) /\ r.part + f.n \in Nat
  BY DEF Views, Frames
<1>2. Taken(r, f).got \in {r.got, Append(r.got, r.part + f.n)}
  <2>1. CASE r.st # "closed" /\ f.type = "DATA"
    <3>1. Taken(r, f) = [r EXCEPT !.part = IF f.last THEN 0 ELSE r.part + f.n,
                                  !.got = IF f.last THEN Append(r.got, r.part + f.n) ELSE r.got]
      BY <2>1 DEF Taken
    <3>2. Taken(r, f).got = IF f.last THEN Append(r.got, r.part + f.n) ELSE r.got
      BY <3>1 DEF Views
    <3> QED
      BY <3>2
  <2>2. CASE ~(r.st # "closed" /\ f.type = "DATA")
    BY <2>2 DEF Taken, Views
  <2> QED
    BY <2>1, <2>2
<1>3. Extends(r.got, r.got)
  BY <1>1, ExtendsFacts
<1>4. Extends(Append(r.got, r.part + f.n), r.got)
  BY <1>1, <1>3, ExtendsFacts
<1> QED
  BY <1>2, <1>3, <1>4

LEMMA FinalGrows ==
  ASSUME NEW id, NEW r \in Views, NEW w \in Seq(Frames)
  PROVE  Extends(Final(id, r, w).got, r.got)
<1> DEFINE Q == {t \in Views : Extends(t.got, r.got)}
<1>1. r \in Q
  BY ExtendsFacts DEF Views
<1>2. ASSUME NEW t \in Views, NEW f \in Frames, t \in Q
      PROVE  Delivery(id)[<<t, f>>] \in Q
  <2>1. Taken(t, f) \in Views /\ Extends(Taken(t, f).got, t.got)
    BY TakenTyped, TakenGrows
  <2>2. Taken(t, f).got \in Seq(Nat) /\ t.got \in Seq(Nat) /\ r.got \in Seq(Nat)
    BY <2>1 DEF Views
  <2>3. Extends(Taken(t, f).got, r.got)
    BY <1>2, <2>1, <2>2, ExtendsFacts
  <2> QED
    BY <1>2, <2>1, <2>3, DeliveryTyped
<1>3. \A t \in Views : \A i \in 1..Len(w) : t \in Q => Delivery(id)[<<t, w[i]>>] \in Q
  BY <1>2
<1> HIDE DEF Q
<1>4. Delivery(id) \in [Views \X Frames -> Views]
  BY DeliveryTyped
<1>5. Fold(Delivery(id), r, w) \in Q
  BY <1>1, <1>3, <1>4, FoldKeeps
<1> QED
  BY <1>5 DEF Final, Q

-----------------------------------------------------------------------------
(* What is true of a stream, of what both ends have and of what is on the  *)
(* two wires.                                                              *)

Streams ==
  [kind : {"http", "ws"}, local : {"opening", "open", "closed"}, credit : 0..Window,
   queue : Seq(Nat \ {0}), ending : BOOLEAN, inbound : Seq(Nat)]

Opens(id, w) == \E k \in 1..Len(w) : w[k].type = "OPEN" /\ w[k].id = id
Resets(id, w) == \E k \in 1..Len(w) : w[k].type = "RESET" /\ w[k].id = id
OpenComesFirst(id, w) ==
  \A k, j \in 1..Len(w) :
    w[k].id = id /\ w[k].type = "OPEN" /\ w[j].id = id /\ j # k => k < j /\ w[j].type # "OPEN"

\* What of the relay's view says what came out of a stream.
Core(r) == [st |-> r.st, part |-> r.part, got |-> r.got, over |-> r.over]

\* part and got, with the queue still to come, are what was written.
Joins(part, got, queue, w) ==
  IF queue = <<>> THEN part = 0 /\ w = got
  ELSE w = Append(got, part + Head(queue)) \o Tail(queue)

StreamTyped(s, r, w) == s \in Streams \cup {NoStream} /\ r \in Remotes /\ w \in Seq(Nat)

UnopenedIsNew(id, s, r, w, out, in) ==
  r.st = "idle" =>
    /\ r = NoRemote /\ s = NoStream /\ w = <<>>
    /\ NoneOf(id, out) /\ NoneOf(id, in)

OpeningIsNew(id, s, r, w, out, in) ==
  Opens(id, in) =>
    /\ s = NoStream /\ w = <<>> /\ NoneOf(id, out)
    /\ r.owes = 0 /\ r.part = 0 /\ r.got = <<>> /\ ~r.over
    /\ Bytes(in, "WINDOW", id) = 0 /\ r.credit + Bytes(in, "DATA", id) = Window

ResetMeansClosed(id, r, in) == Resets(id, in) => r.st = "closed"

UnansweredSentNothing(s) ==
  s # NoStream /\ s.local = "opening" => s.credit = Window /\ s.queue = <<>>

WindowKept(id, s, r, out, in) ==
  s # NoStream /\ r.st \in {"open", "headed"} =>
    /\ s.credit + Bytes(out, "DATA", id) + r.owes + Bytes(in, "WINDOW", id) = Window
    /\ r.credit + Bytes(in, "DATA", id) + SumOf(s.inbound) + Bytes(out, "WINDOW", id) = Window

\* v is the relay's view once it has taken what is on the wire.
ComesOut(id, s, v, w, in) ==
  /\ Extends(w, v.got)
  /\ v.over => v.got = w /\ v.st = "closed"
  /\ s # NoStream => ~v.over
  /\ s # NoStream /\ v.st # "closed" => Joins(v.part, v.got, s.queue, w)
  /\ s = NoStream => v.st \in {"idle", "closed"} \/ Opens(id, in)

StreamSound(id, s, r, w, out, in) ==
  /\ StreamTyped(s, r, w)
  /\ UnopenedIsNew(id, s, r, w, out, in)
  /\ OpeningIsNew(id, s, r, w, out, in)
  /\ OpenComesFirst(id, in)
  /\ ResetMeansClosed(id, r, in)
  /\ UnansweredSentNothing(s)
  /\ WindowKept(id, s, r, out, in)
  /\ ComesOut(id, s, Final(id, Core(r), out), w, in)
  /\ r.over => r.st = "closed"

TunnelSound ==
  /\ RelayTypeOK /\ AlwaysOneTunnel
  /\ tunnels \in Nat
  /\ tunnels = 0 => tunnel = "none" /\ ~retryArmed

RelayIInv ==
  /\ toRelay \in Seq(Frames) /\ toUs \in Seq(Frames)
  /\ DOMAIN stream = RelayStreams /\ DOMAIN remote = RelayStreams /\ DOMAIN wrote = RelayStreams
  /\ TunnelSound
  /\ \A id \in RelayStreams :
       StreamSound(id, stream[id], remote[id], wrote[id], toRelay, toUs)

LEMMA AppendToConcat ==
  ASSUME NEW S, NEW u \in Seq(S), NEW v \in Seq(S), NEW x \in S
  PROVE  u \o Append(v, x) = Append(u \o v, x)
<1>1. <<x>> \in Seq(S) /\ u \o v \in Seq(S)
  OBVIOUS
<1>2. Append(v, x) = v \o <<x>> /\ Append(u \o v, x) = (u \o v) \o <<x>>
  BY <1>1, AppendIsConcat
<1>3. (u \o v) \o <<x>> = u \o (v \o <<x>>)
  BY <1>1, ConcatAssociative, SMTT(30)
<1> QED
  BY <1>2, <1>3

LEMMA ConcatHead ==
  ASSUME NEW S, NEW u \in Seq(S), NEW v \in Seq(S), v # <<>>
  PROVE  Append(u, Head(v)) \o Tail(v) = u \o v
<1>1. Head(v) \in S /\ Tail(v) \in Seq(S)
  BY HeadTailProperties
<1>2. <<Head(v)>> \in Seq(S) /\ v = <<Head(v)>> \o Tail(v)
  <2>1. PICK x \in S : x = Head(v)
    BY <1>1
  <2>2. <<x>> \in Seq(S)
    OBVIOUS
  <2>3. v = <<x>> \o Tail(v)
    BY <1>1, <2>1
  <2> QED
    BY <2>1, <2>2, <2>3
<1>3. Append(u, Head(v)) = u \o <<Head(v)>>
  BY <1>1, AppendIsConcat
<1>4. (u \o <<Head(v)>>) \o Tail(v) = u \o (<<Head(v)>> \o Tail(v))
  BY <1>1, <1>2, ConcatAssociative, SMTT(30)
<1> QED
  BY <1>2, <1>3, <1>4

LEMMA PushFront ==
  ASSUME NEW S, NEW x \in S, NEW v \in Seq(S)
  PROVE  /\ <<x>> \o v \in Seq(S) /\ <<x>> \o v # <<>>
         /\ Head(<<x>> \o v) = x /\ Tail(<<x>> \o v) = v
<1>1. <<x>> \in Seq(S) /\ Len(<<x>>) = 1 /\ <<x>>[1] = x
  OBVIOUS
<1>2. <<x>> \o v \in Seq(S) /\ Len(<<x>> \o v) = 1 + Len(v)
  BY <1>1
<1>3. Head(<<x>> \o v) = x
  BY <1>1, <1>2
<1>4. <<x>> \o v # <<>>
  BY <1>2
<1>5. Tail(<<x>> \o v) = v
  <2> DEFINE t == Tail(<<x>> \o v)
  <2>1. t \in Seq(S) /\ Len(t) = Len(v)
    BY <1>2, <1>4
  <2>2. \A i \in 1..Len(t) : t[i] = v[i]
    BY <1>1, <1>2, <1>4
  <2> HIDE DEF t
  <2>3. t = v
    BY <2>1, <2>2, SeqEqual
  <2> QED
    BY <2>3 DEF t
<1> QED
  BY <1>2, <1>3, <1>4, <1>5

LEMMA MinOfThree ==
  ASSUME NEW a \in Nat, NEW b \in Nat, NEW c \in Nat
  PROVE  /\ Min({a, b, c}) \in {a, b, c}
         /\ Min({a, b, c}) <= a /\ Min({a, b, c}) <= b /\ Min({a, b, c}) <= c
<1>1. \E x \in {a, b, c} : \A y \in {a, b, c} : x <= y
  <2>1. CASE a <= b /\ a <= c
    BY <2>1
  <2>2. CASE b <= a /\ b <= c
    BY <2>2
  <2>3. CASE c <= a /\ c <= b
    BY <2>3
  <2> QED
    BY <2>1, <2>2, <2>3
<1> QED
  BY <1>1 DEF Min

-----------------------------------------------------------------------------
(* What was written, as the relay puts it together.                        *)

Chunk == Nat \ {0}

LEMMA JoinsExtends ==
  ASSUME NEW part \in Nat, NEW got \in Seq(Nat), NEW queue \in Seq(Chunk), NEW w \in Seq(Nat),
         Joins(part, got, queue, w)
  PROVE  Extends(w, got)
<1>1. CASE queue = <<>>
  BY <1>1, ExtendsFacts DEF Joins
<1>2. CASE queue # <<>>
  <2>1. Head(queue) \in Nat /\ Tail(queue) \in Seq(Nat)
    <3>1. Head(queue) \in Chunk /\ Tail(queue) \in Seq(Chunk)
      BY <1>2, HeadTailProperties
    <3>2. Chunk \subseteq Nat
      BY DEF Chunk
    <3> QED
      BY <3>1, <3>2, SeqMonotonic
  <2>2. PICK u : u = Append(got, part + Head(queue))
    OBVIOUS
  <2>3. u \in Seq(Nat) /\ Extends(u, got)
    <3>1. part + Head(queue) \in Nat
      BY <2>1
    <3>2. Extends(got, got)
      BY ExtendsFacts
    <3> QED
      BY <2>2, <3>1, <3>2, ExtendsFacts
  <2>4. w = u \o Tail(queue)
    BY <1>2, <2>2 DEF Joins
  <2>5. Extends(w, u)
    BY <2>1, <2>4 DEF Extends
  <2> QED
    BY <2>3, <2>5, ExtendsFacts
<1> QED
  BY <1>1, <1>2

LEMMA ChunksAreNumbers ==
  ASSUME NEW queue \in Seq(Chunk)
  PROVE  queue \in Seq(Nat)
<1>1. Chunk \subseteq Nat
  BY DEF Chunk
<1> QED
  BY <1>1, SeqMonotonic

LEMMA JoinsWhole ==
  ASSUME NEW part \in Nat, NEW got \in Seq(Nat), NEW queue \in Seq(Chunk), NEW w \in Seq(Nat),
         queue # <<>>, Joins(part, got, queue, w)
  PROVE  Joins(0, Append(got, part + Head(queue)), Tail(queue), w)
<1>1. Head(queue) \in Nat /\ Tail(queue) \in Seq(Nat)
  BY ChunksAreNumbers, HeadTailProperties
<1>2. PICK u : u = Append(got, part + Head(queue))
  OBVIOUS
<1>3. u \in Seq(Nat) /\ w = u \o Tail(queue)
  <2>1. part + Head(queue) \in Nat
    BY <1>1
  <2>2. w = Append(got, part + Head(queue)) \o Tail(queue)
    BY DEF Joins
  <2> QED
    BY <1>2, <2>1, <2>2
<1>4. CASE Tail(queue) = <<>>
  <2>1. u \o <<>> = u
    BY <1>3, ConcatEmptySeq
  <2> QED
    BY <1>2, <1>3, <1>4, <2>1 DEF Joins
<1>5. CASE Tail(queue) # <<>>
  <2>1. Append(u, Head(Tail(queue))) \o Tail(Tail(queue)) = u \o Tail(queue)
    BY <1>1, <1>3, <1>5, ConcatHead
  <2>2. 0 + Head(Tail(queue)) = Head(Tail(queue))
    BY <1>1, <1>5, HeadTailProperties
  <2> QED
    BY <1>2, <1>3, <1>5, <2>1, <2>2 DEF Joins
<1> QED
  BY <1>4, <1>5

LEMMA JoinsPart ==
  ASSUME NEW part \in Nat, NEW got \in Seq(Nat), NEW queue \in Seq(Chunk), NEW w \in Seq(Nat),
         queue # <<>>, NEW size \in Nat, size < Head(queue), Joins(part, got, queue, w)
  PROVE  Joins(part + size, got, <<Head(queue) - size>> \o Tail(queue), w)
<1>1. Head(queue) \in Nat /\ Tail(queue) \in Seq(Nat)
  BY ChunksAreNumbers, HeadTailProperties
<1>2. PICK left \in Nat : left = Head(queue) - size
  BY <1>1
<1>3. PICK q : q = <<left>> \o Tail(queue)
  OBVIOUS
<1>4. q # <<>> /\ Head(q) = left /\ Tail(q) = Tail(queue)
  BY <1>1, <1>3, PushFront
<1>5. part + size + left = part + Head(queue)
  BY <1>1, <1>2
<1>6. Joins(part + size, got, q, w)
  BY <1>4, <1>5 DEF Joins
<1> QED
  BY <1>2, <1>3, <1>6

LEMMA JoinsWrite ==
  ASSUME NEW part \in Nat, NEW got \in Seq(Nat), NEW queue \in Seq(Chunk), NEW w \in Seq(Nat),
         NEW n \in Chunk, Joins(part, got, queue, w)
  PROVE  Joins(part, got, Append(queue, n), Append(w, n))
<1>0. n \in Nat /\ Append(queue, n) # <<>>
  <2>1. n \in Nat
    BY DEF Chunk
  <2>2. Append(queue, n) # <<>>
    BY AppendProperties, SMTT(20)
  <2> QED
    BY <2>1, <2>2
<1>1. CASE queue = <<>>
  <2>1. Append(queue, n) = <<n>> /\ Head(<<n>>) = n /\ Tail(<<n>>) = <<>>
    BY <1>1
  <2>2. w = got /\ part + n = n
    BY <1>0, <1>1 DEF Joins
  <2>3. Append(got, n) \o <<>> = Append(got, n)
    BY <1>0, ConcatEmptySeq
  <2> QED
    BY <1>0, <2>1, <2>2, <2>3 DEF Joins
<1>2. CASE queue # <<>>
  <2>1. Head(queue) \in Nat /\ Tail(queue) \in Seq(Nat) /\ queue \in Seq(Nat)
    BY <1>2, ChunksAreNumbers, HeadTailProperties
  <2>2. Head(Append(queue, n)) = Head(queue) /\ Tail(Append(queue, n)) = Append(Tail(queue), n)
    BY <1>0, <1>2, <2>1, HeadTailAppend
  <2>3. PICK u : u = Append(got, part + Head(queue))
    OBVIOUS
  <2>4. u \in Seq(Nat)
    <3>1. part + Head(queue) \in Nat
      BY <2>1
    <3> QED
      BY <2>3, <3>1
  <2>5. w = u \o Tail(queue)
    BY <1>2, <2>3 DEF Joins
  <2>6. u \o Append(Tail(queue), n) = Append(u \o Tail(queue), n)
    <3>1. PICK N, m : N = Nat /\ m = n
      OBVIOUS
    <3>2. u \in Seq(N) /\ Tail(queue) \in Seq(N) /\ m \in N
      BY <1>0, <2>1, <2>4, <3>1
    <3>3. u \o Append(Tail(queue), m) = Append(u \o Tail(queue), m)
      BY <3>2, AppendToConcat
    <3> QED
      BY <3>1, <3>3
  <2> QED
    BY <1>0, <2>2, <2>3, <2>5, <2>6 DEF Joins
<1> QED
  BY <1>1, <1>2

-----------------------------------------------------------------------------
(* What a change of a wire leaves as it was for a stream.                  *)

Same(o, w, v) ==
  /\ NoneOf(o, w) => NoneOf(o, v)
  /\ \A type \in FrameTypes : Bytes(v, type, o) = Bytes(w, type, o)
  /\ \A r \in Views : Final(o, r, v) = Final(o, r, w)

LEMMA SameAfterAppend ==
  ASSUME NEW w \in Seq(Frames), NEW f \in Frames, NEW o, f.id # o
  PROVE  Same(o, w, Append(w, f))
<1>1. NoneOf(o, w) => NoneOf(o, Append(w, f))
  BY DEF NoneOf
<1>2. ASSUME NEW type \in FrameTypes
      PROVE  Bytes(Append(w, f), type, o) = Bytes(w, type, o)
  <2>1. Share(f, type, o) = 0
    BY DEF Share
  <2>2. Bytes(w, type, o) \in Nat
    BY BytesTyped
  <2> QED
    BY <2>1, <2>2, BytesAppend
<1>3. \A r \in Views : Final(o, r, Append(w, f)) = Final(o, r, w)
  BY FinalAppend
<1> QED
  BY <1>1, <1>2, <1>3 DEF Same

LEMMA SameAfterTail ==
  ASSUME NEW w \in Seq(Frames), w # <<>>, NEW o, Head(w).id # o
  PROVE  Same(o, w, Tail(w))
<1>0. Tail(w) \in Seq(Frames)
  OBVIOUS
<1>1. NoneOf(o, w) => NoneOf(o, Tail(w))
  BY DEF NoneOf
<1>2. ASSUME NEW type \in FrameTypes
      PROVE  Bytes(Tail(w), type, o) = Bytes(w, type, o)
  <2>1. Share(Head(w), type, o) = 0
    BY DEF Share
  <2>2. Bytes(Tail(w), type, o) \in Nat
    BY <1>0, BytesTyped
  <2> QED
    BY <2>1, <2>2, BytesHead
<1>3. \A r \in Views : Final(o, r, Tail(w)) = Final(o, r, w)
  BY FinalHead
<1> QED
  BY <1>1, <1>2, <1>3 DEF Same

LEMMA SameIsSame ==
  /\ \A o, w : Same(o, w, w)
  /\ \A o, u, v, w : Same(o, u, v) /\ Same(o, v, w) => Same(o, u, w)
BY DEF Same

-----------------------------------------------------------------------------
(* flush.                                                                  *)

Loops == [frames : Seq(Frames), queue : Seq(Chunk), credit : Nat]

Data(id, n, last) == Frame("DATA", id, n, last)
LastPiece(id, n) == Data(id, n, TRUE)
Piece(id, n) == Data(id, n, FALSE)
Size(f) == Min({Head(f.queue), f.credit, MaxPiece})

\* One round of the loop.
Round(id, f) ==
  LET size == Min({Head(f.queue), f.credit, MaxPiece})
      whole == size = Head(f.queue)
  IN  IF f.queue = <<>> \/ f.credit = 0
      THEN f
      ELSE [frames |-> Append(f.frames, Frame("DATA", id, size, whole)),
            queue |-> IF whole THEN Tail(f.queue)
                      ELSE <<Head(f.queue) - size>> \o Tail(f.queue),
            credit |-> f.credit - size]

LEMMA RoundIs ==
  ASSUME NEW id \in RelayStreams, NEW f \in Loops
  PROVE  \/ Round(id, f) = f
         \/ /\ f.queue # <<>>
            /\ \E size \in Nat :
                 /\ size <= f.credit
                 /\ \/ /\ size = Head(f.queue)
                       /\ Round(id, f) = [frames |-> Append(f.frames, LastPiece(id, size)),
                                          queue |-> Tail(f.queue), credit |-> f.credit - size]
                    \/ /\ size < Head(f.queue)
                       /\ Round(id, f) = [frames |-> Append(f.frames, Piece(id, size)),
                                          queue |-> <<Head(f.queue) - size>> \o Tail(f.queue),
                                          credit |-> f.credit - size]
<1>1. CASE f.queue = <<>> \/ f.credit = 0
  BY <1>1 DEF Round
<1>2. CASE ~(f.queue = <<>> \/ f.credit = 0)
  <2>1. Head(f.queue) \in Nat /\ f.credit \in Nat /\ MaxPiece \in Nat
    <3>1. f.queue \in Seq(Chunk)
      BY DEF Loops
    <3>2. f.queue \in Seq(Nat)
      BY <3>1, ChunksAreNumbers
    <3> QED
      BY <1>2, <3>2, RelayAssumption, HeadTailProperties DEF Loops
  <2>2. PICK a, b : a = Head(f.queue) /\ b = f.credit
    OBVIOUS
  <2>3. PICK size : size = Size(f)
    OBVIOUS
  <2>4. size \in Nat /\ size <= a /\ size <= b
    <3>1. a \in Nat /\ b \in Nat /\ MaxPiece \in Nat
      BY <2>1, <2>2
    <3>2. Min({a, b, MaxPiece}) \in {a, b, MaxPiece} /\ Min({a, b, MaxPiece}) <= a /\ Min({a, b, MaxPiece}) <= b
      BY <3>1, MinOfThree
    <3>3. size = Min({a, b, MaxPiece})
      BY <2>2, <2>3 DEF Size
    <3> QED
      BY <3>1, <3>2, <3>3
  <2>5. Round(id, f) =
          [frames |-> Append(f.frames, Frame("DATA", id, size, size = a)),
           queue |-> IF size = a THEN Tail(f.queue) ELSE <<a - size>> \o Tail(f.queue),
           credit |-> f.credit - size]
    BY <1>2, <2>2, <2>3 DEF Round, Size
  <2>6. CASE size = a
    <3>1. (size = a) = TRUE
      BY <2>6
    <3>2. Round(id, f) = [frames |-> Append(f.frames, LastPiece(id, size)),
                          queue |-> Tail(f.queue), credit |-> f.credit - size]
      BY <2>5, <3>1 DEF Data, LastPiece, Piece
    <3> QED
      BY <1>2, <2>2, <2>4, <2>6, <3>2
  <2>7. CASE size # a
    <3>1. (size = a) = FALSE
      BY <2>7
    <3>2. Round(id, f) = [frames |-> Append(f.frames, Piece(id, size)),
                          queue |-> <<a - size>> \o Tail(f.queue), credit |-> f.credit - size]
      BY <2>5, <2>7, <3>1 DEF Data, LastPiece, Piece
    <3>3. size < a
      BY <2>1, <2>2, <2>4, <2>7
    <3> QED
      BY <1>2, <2>2, <2>4, <3>2, <3>3
  <2> QED
    BY <2>6, <2>7
<1> QED
  BY <1>1, <1>2

LEMMA DataTyped ==
  ASSUME NEW id \in RelayStreams, NEW n \in Nat, NEW last \in BOOLEAN
  PROVE  /\ Data(id, n, last) \in Frames
         /\ Data(id, n, last).id = id /\ Data(id, n, last).type = "DATA"
         /\ Data(id, n, last).n = n /\ Data(id, n, last).last = last
BY DEF Data, Frame, Frames, FrameTypes

LEMMA PiecesTyped ==
  ASSUME NEW id \in RelayStreams, NEW n \in Nat
  PROVE  LastPiece(id, n) \in Frames /\ Piece(id, n) \in Frames
<1>1. \A last \in BOOLEAN : Data(id, n, last) \in Frames
  BY DataTyped
<1> QED
  BY <1>1, Zenon DEF LastPiece, Piece

LEMMA RoundTyped ==
  ASSUME NEW id \in RelayStreams, NEW f \in Loops
  PROVE  Round(id, f) \in Loops
<1>0. f.frames \in Seq(Frames) /\ f.queue \in Seq(Chunk) /\ f.credit \in Nat
  BY DEF Loops
<1>1. CASE Round(id, f) = f
  BY <1>1
<1>2. ASSUME f.queue # <<>>, NEW size \in Nat, size <= f.credit, size = Head(f.queue),
             Round(id, f) = [frames |-> Append(f.frames, LastPiece(id, size)),
                             queue |-> Tail(f.queue), credit |-> f.credit - size]
      PROVE  Round(id, f) \in Loops
  <2>1. Append(f.frames, LastPiece(id, size)) \in Seq(Frames)
    <3>1. PICK d : d = LastPiece(id, size)
      OBVIOUS
    <3>2. d \in Frames
      BY <3>1, PiecesTyped
    <3> QED
      BY <1>0, <3>1, <3>2
  <2>2. Tail(f.queue) \in Seq(Chunk) /\ f.credit - size \in Nat
    BY <1>0, <1>2
  <2>3. PICK fs, q, c : /\ fs = Append(f.frames, LastPiece(id, size))
                        /\ q = Tail(f.queue) /\ c = f.credit - size
    OBVIOUS
  <2>4. Round(id, f) = [frames |-> fs, queue |-> q, credit |-> c]
    BY <1>2, <2>3
  <2>5. fs \in Seq(Frames) /\ q \in Seq(Chunk) /\ c \in Nat
    BY <2>1, <2>2, <2>3
  <2> QED
    BY <2>4, <2>5 DEF Loops
<1>3. ASSUME f.queue # <<>>, NEW size \in Nat, size <= f.credit, size < Head(f.queue),
             Round(id, f) = [frames |-> Append(f.frames, Piece(id, size)),
                             queue |-> <<Head(f.queue) - size>> \o Tail(f.queue),
                             credit |-> f.credit - size]
      PROVE  Round(id, f) \in Loops
  <2>1. Append(f.frames, Piece(id, size)) \in Seq(Frames)
    <3>1. PICK d : d = Piece(id, size)
      OBVIOUS
    <3>2. d \in Frames
      BY <3>1, PiecesTyped
    <3> QED
      BY <1>0, <3>1, <3>2
  <2>2. Tail(f.queue) \in Seq(Chunk) /\ f.credit - size \in Nat /\ Head(f.queue) \in Chunk
    BY <1>0, <1>3
  <2>3. PICK left : left = Head(f.queue) - size
    OBVIOUS
  <2>4. left \in Chunk
    BY <1>3, <2>2, <2>3 DEF Chunk
  <2>5. <<left>> \o Tail(f.queue) \in Seq(Chunk)
    BY <2>2, <2>4, PushFront
  <2>6. PICK fs, q, c : /\ fs = Append(f.frames, Piece(id, size))
                        /\ q = <<Head(f.queue) - size>> \o Tail(f.queue) /\ c = f.credit - size
    OBVIOUS
  <2>7. Round(id, f) = [frames |-> fs, queue |-> q, credit |-> c]
    BY <1>3, <2>6
  <2>8. fs \in Seq(Frames) /\ q \in Seq(Chunk) /\ c \in Nat
    BY <2>1, <2>2, <2>3, <2>5, <2>6
  <2> QED
    BY <2>7, <2>8 DEF Loops
<1> QED
  BY <1>1, <1>2, <1>3, RoundIs

AtFirst(queue, credit) == [frames |-> <<>>, queue |-> queue, credit |-> credit]

LEMMA FlushedKeeps ==
  ASSUME NEW id \in RelayStreams, NEW queue \in Seq(Chunk), NEW credit \in Nat,
         NEW Q, AtFirst(queue, credit) \in Q,
         \A f \in Loops : f \in Q => Round(id, f) \in Q
  PROVE  Flushed(id, queue, credit) \in Q \cap Loops
<1> DEFINE body(h, n) == IF n = 0 THEN AtFirst(queue, credit) ELSE Round(id, h[n - 1])
           g == CHOOSE h : h = [n \in Nat |-> body(h, n)]
           F == [n \in Nat |-> [f \in Loops |-> Round(id, f)]]
<1>1. Flushed(id, queue, credit) = g[credit]
  BY DEF Flushed, AtFirst, Round
<1>2. AtFirst(queue, credit) \in Loops
  BY DEF AtFirst, Loops
<1>3. F \in [Nat -> [Loops -> Loops]]
  BY RoundTyped
<1>4. \A n \in Nat, f \in Loops : F[n][f] = Round(id, f)
  OBVIOUS
<1> HIDE DEF F
<1>5. PICK a \in [Nat -> Loops] : Orbit(a, AtFirst(queue, credit), F)
  BY <1>2, <1>3, Recursion
<1>6. \A n \in Nat : a[n] = body(a, n)
  <2> SUFFICES ASSUME NEW n \in Nat
               PROVE  a[n] = body(a, n)
    OBVIOUS
  <2>1. CASE n = 0
    BY <1>5, <2>1 DEF Orbit
  <2>2. CASE n # 0
    <3>1. PICK m \in Nat : m = n - 1
      BY <2>2
    <3>2. a[m + 1] = F[m][a[m]] /\ a[m] \in Loops
      BY <1>5, <3>1 DEF Orbit
    <3> QED
      BY <1>4, <2>2, <3>1, <3>2
  <2> QED
    BY <2>1, <2>2
<1>7. a = [n \in Nat |-> body(a, n)]
  BY <1>6
<1>8. g = [n \in Nat |-> body(g, n)]
  BY <1>7
<1> HIDE DEF g
<1>9. \A n \in Nat : g[n] = body(g, n)
  BY <1>8
<1> DEFINE S == {n \in Nat : g[n] \in Q \cap Loops}
<1>10. 0 \in S
  BY <1>2, <1>9
<1>11. ASSUME NEW n \in Nat, n \in S
       PROVE  n + 1 \in S
  <2>1. PICK k \in Nat : k = n + 1
    OBVIOUS
  <2>2. k # 0 /\ k - 1 = n
    BY <2>1
  <2>3. g[k] = Round(id, g[n])
    BY <1>9, <2>2
  <2>4. g[n] \in Loops /\ g[n] \in Q
    BY <1>11
  <2>5. g[k] \in Q \cap Loops
    BY <2>3, <2>4, RoundTyped
  <2> QED
    BY <2>1, <2>5
<1> HIDE DEF S
<1>12. \A n \in Nat : n \in S
  BY <1>10, <1>11, Induce
<1> QED
  BY <1>1, <1>12 DEF S

\* What the loop has done to the credit, to the other streams and to what comes out.
SendsCredit(id, queue, credit, out, t) ==
  /\ t.credit <= credit
  /\ t.credit + Bytes(out \o t.frames, "DATA", id) = credit + Bytes(out, "DATA", id)
  /\ Bytes(out \o t.frames, "WINDOW", id) = Bytes(out, "WINDOW", id)
  /\ queue = <<>> => t.queue = <<>> /\ t.credit = credit

SendsApart(id, out, t) == \A o \in RelayStreams : o # id => Same(o, out, out \o t.frames)

\* v and u are the relay's views at the end, before and after.
GoesOn(queue, w, v, u, rest) ==
  /\ u.st = v.st /\ u.over = v.over
  /\ v.st = "closed" => u = v
  /\ v.st # "closed" /\ Joins(v.part, v.got, queue, w) => Joins(u.part, u.got, rest, w)

LEMMA PieceFacts ==
  ASSUME NEW id \in RelayStreams, NEW n \in Nat
  PROVE  /\ LastPiece(id, n).id = id /\ LastPiece(id, n).type = "DATA" /\ LastPiece(id, n).n = n
         /\ LastPiece(id, n).last
         /\ Piece(id, n).id = id /\ Piece(id, n).type = "DATA" /\ Piece(id, n).n = n
         /\ ~Piece(id, n).last
BY DEF LastPiece, Piece, Data, Frame

LEMMA TakenData ==
  ASSUME NEW v \in Views, NEW f \in Frames, f.type = "DATA", v.st # "closed"
  PROVE  /\ Taken(v, f).st = v.st /\ Taken(v, f).over = v.over
         /\ f.last => Taken(v, f).part = 0 /\ Taken(v, f).got = Append(v.got, v.part + f.n)
         /\ ~f.last => Taken(v, f).part = v.part + f.n /\ Taken(v, f).got = v.got
<1>1. Taken(v, f) = [v EXCEPT !.part = IF f.last THEN 0 ELSE v.part + f.n,
                              !.got = IF f.last THEN Append(v.got, v.part + f.n) ELSE v.got]
  BY DEF Taken
<1>2. Taken(v, f).st = v.st /\ Taken(v, f).over = v.over
  BY <1>1 DEF Views
<1>3. /\ Taken(v, f).part = IF f.last THEN 0 ELSE v.part + f.n
      /\ Taken(v, f).got = IF f.last THEN Append(v.got, v.part + f.n) ELSE v.got
  BY <1>1 DEF Views
<1> QED
  BY <1>2, <1>3

LEMMA FramesAppend ==
  ASSUME NEW out \in Seq(Frames), NEW t \in Loops, NEW f \in Frames
  PROVE  /\ out \o t.frames \in Seq(Frames)
         /\ out \o Append(t.frames, f) = Append(out \o t.frames, f)
<1>1. PICK fs \in Seq(Frames) : fs = t.frames
  BY DEF Loops
<1>2. out \o Append(fs, f) = Append(out \o fs, f)
  BY AppendToConcat
<1>3. out \o fs \in Seq(Frames)
  OBVIOUS
<1> QED
  BY <1>1, <1>2, <1>3

LEMMA CreditRound ==
  ASSUME NEW id \in RelayStreams, NEW queue, NEW credit \in Nat, NEW out \in Seq(Frames),
         NEW t \in Loops, NEW f \in Frames, NEW size \in Nat, NEW q,
         f.id = id, f.type = "DATA", f.n = size, size <= t.credit, t.queue # <<>>,
         SendsCredit(id, queue, credit, out, t),
         NEW u, u.frames = Append(t.frames, f), u.queue = q, u.credit = t.credit - size
  PROVE  SendsCredit(id, queue, credit, out, u)
<1>1. t.frames \in Seq(Frames) /\ t.credit \in Nat
  BY DEF Loops
<1>2. PICK v \in Seq(Frames) : v = out \o t.frames
  BY FramesAppend
<1>3. out \o u.frames = Append(v, f)
  <2>1. out \o Append(t.frames, f) = Append(out \o t.frames, f)
    BY FramesAppend
  <2> QED
    BY <1>2, <2>1
<1>4. Share(f, "DATA", id) = size /\ Share(f, "WINDOW", id) = 0
  BY DEF Share
<1>5. Bytes(Append(v, f), "DATA", id) = Bytes(v, "DATA", id) + Share(f, "DATA", id)
  BY BytesAppend
<1>6. Bytes(Append(v, f), "WINDOW", id) = Bytes(v, "WINDOW", id) + Share(f, "WINDOW", id)
  BY BytesAppend
<1>7. Bytes(v, "DATA", id) \in Nat /\ Bytes(v, "WINDOW", id) \in Nat /\ Bytes(out, "DATA", id) \in Nat
  BY BytesTyped
<1>8. t.credit <= credit /\ t.credit + Bytes(v, "DATA", id) = credit + Bytes(out, "DATA", id)
      /\ Bytes(v, "WINDOW", id) = Bytes(out, "WINDOW", id) /\ queue # <<>>
  BY <1>2 DEF SendsCredit
<1>9. u.credit <= credit /\ u.credit + Bytes(Append(v, f), "DATA", id) = credit + Bytes(out, "DATA", id)
  <2>1. PICK a, b, c : a = t.credit /\ b = Bytes(v, "DATA", id) /\ c = Bytes(out, "DATA", id)
    OBVIOUS
  <2>2. a \in Nat /\ b \in Nat /\ c \in Nat /\ a <= credit /\ a + b = credit + c
    BY <1>1, <1>7, <1>8, <2>1
  <2>3. u.credit = a - size /\ Bytes(Append(v, f), "DATA", id) = b + size
    BY <1>4, <1>5, <2>1
  <2>4. credit \in Int
    BY <2>2
  <2> QED
    BY <2>1, <2>2, <2>3, <2>4, SMTT(40)
<1>10. Bytes(Append(v, f), "WINDOW", id) = Bytes(out, "WINDOW", id)
  BY <1>4, <1>6, <1>7, <1>8
<1> QED
  BY <1>3, <1>8, <1>9, <1>10 DEF SendsCredit

LEMMA ApartRound ==
  ASSUME NEW id \in RelayStreams, NEW out \in Seq(Frames), NEW t \in Loops, NEW f \in Frames,
         f.id = id, SendsApart(id, out, t), NEW u, u.frames = Append(t.frames, f)
  PROVE  SendsApart(id, out, u)
<1>1. t.frames \in Seq(Frames)
  BY DEF Loops
<1>2. PICK v \in Seq(Frames) : v = out \o t.frames
  BY FramesAppend
<1>3. out \o u.frames = Append(v, f)
  <2>1. out \o Append(t.frames, f) = Append(out \o t.frames, f)
    BY FramesAppend
  <2> QED
    BY <1>2, <2>1
<1>4. ASSUME NEW o \in RelayStreams, o # id
      PROVE  Same(o, out, Append(v, f))
  <2>1. Same(o, out, v)
    BY <1>2, <1>4 DEF SendsApart
  <2>2. Same(o, v, Append(v, f))
    BY <1>4, SameAfterAppend
  <2> QED
    BY <2>1, <2>2, SameIsSame
<1> QED
  BY <1>3, <1>4 DEF SendsApart

LEMMA WholeRound ==
  ASSUME NEW id \in RelayStreams, NEW queue \in Seq(Chunk), NEW w \in Seq(Nat), NEW t \in Loops,
         NEW size \in Nat, t.queue # <<>>, NEW v \in Views, NEW u \in Views,
         GoesOn(queue, w, v, u, t.queue)
  PROVE  /\ size = Head(t.queue) =>
              GoesOn(queue, w, v, Taken(u, LastPiece(id, size)), Tail(t.queue))
         /\ size < Head(t.queue) =>
              GoesOn(queue, w, v, Taken(u, Piece(id, size)), <<Head(t.queue) - size>> \o Tail(t.queue))
<1>0. t.queue \in Seq(Chunk) /\ u.part \in Nat /\ u.got \in Seq(Nat)
  BY DEF Loops, Views
<1>1. CASE v.st = "closed"
  <2>1. u = v /\ Taken(u, LastPiece(id, size)) = u /\ Taken(u, Piece(id, size)) = u
    BY <1>1 DEF GoesOn, Taken
  <2> QED
    BY <1>1, <2>1 DEF GoesOn
<1>2. CASE v.st # "closed"
  <2>1. u.st = v.st /\ u.over = v.over /\ u.st # "closed"
    BY <1>2 DEF GoesOn
  <2>2. Joins(v.part, v.got, queue, w) => Joins(u.part, u.got, t.queue, w)
    BY <1>2 DEF GoesOn
  <2>3. ASSUME size = Head(t.queue)
        PROVE  GoesOn(queue, w, v, Taken(u, LastPiece(id, size)), Tail(t.queue))
    <3>1. PICK f \in Frames : f = LastPiece(id, size)
      BY PiecesTyped
    <3>2. f.type = "DATA" /\ f.n = size /\ f.last
      BY <3>1, PieceFacts
    <3>3. Taken(u, f).st = u.st /\ Taken(u, f).over = u.over
      BY <2>1, <3>2, TakenData
    <3>4. Taken(u, f).part = 0 /\ Taken(u, f).got = Append(u.got, u.part + size)
      BY <2>1, <3>2, TakenData
    <3>5. Joins(u.part, u.got, t.queue, w) => Joins(0, Append(u.got, u.part + size), Tail(t.queue), w)
      BY <1>0, <2>3, JoinsWhole
    <3> QED
      BY <1>2, <2>1, <2>2, <3>1, <3>3, <3>4, <3>5 DEF GoesOn
  <2>4. ASSUME size < Head(t.queue)
        PROVE  GoesOn(queue, w, v, Taken(u, Piece(id, size)), <<Head(t.queue) - size>> \o Tail(t.queue))
    <3>1. PICK f \in Frames : f = Piece(id, size)
      BY PiecesTyped
    <3>2. f.type = "DATA" /\ f.n = size /\ ~f.last
      BY <3>1, PieceFacts
    <3>3. Taken(u, f).st = u.st /\ Taken(u, f).over = u.over
      BY <2>1, <3>2, TakenData
    <3>4. Taken(u, f).part = u.part + size /\ Taken(u, f).got = u.got
      BY <2>1, <3>2, TakenData
    <3>5. Joins(u.part, u.got, t.queue, w) =>
            Joins(u.part + size, u.got, <<Head(t.queue) - size>> \o Tail(t.queue), w)
      BY <1>0, <2>4, JoinsPart
    <3>6. PICK q : q = <<Head(t.queue) - size>> \o Tail(t.queue)
      OBVIOUS
    <3> QED
      BY <1>2, <2>1, <2>2, <3>1, <3>3, <3>4, <3>5, <3>6 DEF GoesOn
  <2> QED
    BY <2>3, <2>4
<1> QED
  BY <1>1, <1>2

LEMMA FinalOnward ==
  ASSUME NEW id \in RelayStreams, NEW out \in Seq(Frames), NEW r \in Views, NEW t \in Loops,
         NEW f \in Frames, f.id = id
  PROVE  Final(id, r, out \o Append(t.frames, f)) = Taken(Final(id, r, out \o t.frames), f)
<1>1. t.frames \in Seq(Frames)
  BY DEF Loops
<1>2. PICK v \in Seq(Frames) : v = out \o t.frames
  BY FramesAppend
<1>3. out \o Append(t.frames, f) = Append(v, f)
  BY <1>2, FramesAppend
<1>4. Final(id, r, Append(v, f)) = Taken(Final(id, r, v), f)
  BY FinalAppend
<1> QED
  BY <1>2, <1>3, <1>4

\* What write and grant hand to the wire.
LEMMA FlushSends ==
  ASSUME NEW id \in RelayStreams, NEW queue \in Seq(Chunk), NEW credit \in Nat,
         NEW out \in Seq(Frames), NEW r \in Views, NEW w \in Seq(Nat)
  PROVE  /\ Flushed(id, queue, credit) \in Loops
         /\ SendsCredit(id, queue, credit, out, Flushed(id, queue, credit))
         /\ SendsApart(id, out, Flushed(id, queue, credit))
         /\ GoesOn(queue, w, Final(id, r, out),
                   Final(id, r, out \o Flushed(id, queue, credit).frames),
                   Flushed(id, queue, credit).queue)
<1> DEFINE v == Final(id, r, out)
           Sending(t) == /\ SendsCredit(id, queue, credit, out, t)
                         /\ SendsApart(id, out, t)
                         /\ GoesOn(queue, w, v, Final(id, r, out \o t.frames), t.queue)
           Q == {t \in Loops : Sending(t)}
<1>1. AtFirst(queue, credit) \in Q
  <2>1. AtFirst(queue, credit) \in Loops
    BY DEF AtFirst, Loops
  <2>2. out \o <<>> = out
    BY ConcatEmptySeq
  <2>3. PICK s : s = AtFirst(queue, credit)
    OBVIOUS
  <2>4. s.frames = <<>> /\ s.queue = queue /\ s.credit = credit
    BY <2>3 DEF AtFirst
  <2>5. SendsCredit(id, queue, credit, out, s)
    BY <2>2, <2>4 DEF SendsCredit
  <2>6. SendsApart(id, out, s)
    BY <2>2, <2>4, SameIsSame DEF SendsApart
  <2>7. GoesOn(queue, w, v, Final(id, r, out \o s.frames), s.queue)
    BY <2>2, <2>4 DEF GoesOn
  <2> QED
    BY <2>1, <2>3, <2>5, <2>6, <2>7
<1>2. ASSUME NEW t \in Loops, t \in Q
      PROVE  Round(id, t) \in Q
  <2>0. SendsCredit(id, queue, credit, out, t) /\ SendsApart(id, out, t)
        /\ GoesOn(queue, w, v, Final(id, r, out \o t.frames), t.queue)
    BY <1>2
  <2>1. PICK u : u = Round(id, t)
    OBVIOUS
  <2>2. u \in Loops
    BY <2>1, RoundTyped
  <2>3. v \in Views /\ Final(id, r, out \o t.frames) \in Views
    <3>1. out \o t.frames \in Seq(Frames)
      BY DEF Loops
    <3> QED
      BY <3>1, FinalTyped
  <2> HIDE DEF v
  <2>4. CASE u = t
    BY <1>2, <2>1, <2>4
  <2>5. ASSUME t.queue # <<>>, NEW size \in Nat, size <= t.credit, size = Head(t.queue),
               u = [frames |-> Append(t.frames, LastPiece(id, size)),
                    queue |-> Tail(t.queue), credit |-> t.credit - size]
        PROVE  Sending(u)
    <3>1. PICK f \in Frames : f = LastPiece(id, size)
      BY PiecesTyped
    <3>2. f.id = id /\ f.type = "DATA" /\ f.n = size
      BY <3>1, PieceFacts
    <3>3. u.frames = Append(t.frames, f) /\ u.queue = Tail(t.queue) /\ u.credit = t.credit - size
      BY <2>5, <3>1
    <3>4. SendsCredit(id, queue, credit, out, u)
      BY <2>0, <2>5, <3>2, <3>3, CreditRound
    <3>5. SendsApart(id, out, u)
      BY <2>0, <3>2, <3>3, ApartRound
    <3>6. Final(id, r, out \o u.frames) = Taken(Final(id, r, out \o t.frames), f)
      BY <3>2, <3>3, FinalOnward
    <3>7. GoesOn(queue, w, v, Taken(Final(id, r, out \o t.frames), f), Tail(t.queue))
      BY <2>0, <2>3, <2>5, <3>1, WholeRound
    <3> QED
      BY <3>3, <3>4, <3>5, <3>6, <3>7
  <2>6. ASSUME t.queue # <<>>, NEW size \in Nat, size <= t.credit, size < Head(t.queue),
               u = [frames |-> Append(t.frames, Piece(id, size)),
                    queue |-> <<Head(t.queue) - size>> \o Tail(t.queue), credit |-> t.credit - size]
        PROVE  Sending(u)
    <3>1. PICK f \in Frames : f = Piece(id, size)
      BY PiecesTyped
    <3>2. f.id = id /\ f.type = "DATA" /\ f.n = size
      BY <3>1, PieceFacts
    <3>3. u.frames = Append(t.frames, f) /\ u.queue = <<Head(t.queue) - size>> \o Tail(t.queue)
          /\ u.credit = t.credit - size
      BY <2>6, <3>1
    <3>4. SendsCredit(id, queue, credit, out, u)
      BY <2>0, <2>6, <3>2, <3>3, CreditRound
    <3>5. SendsApart(id, out, u)
      BY <2>0, <3>2, <3>3, ApartRound
    <3>6. Final(id, r, out \o u.frames) = Taken(Final(id, r, out \o t.frames), f)
      BY <3>2, <3>3, FinalOnward
    <3>7. GoesOn(queue, w, v, Taken(Final(id, r, out \o t.frames), f), u.queue)
      BY <2>0, <2>3, <2>6, <3>1, <3>3, WholeRound
    <3> QED
      BY <3>4, <3>5, <3>6, <3>7
  <2> QED
    BY <2>1, <2>2, <2>4, <2>5, <2>6, RoundIs
<1> HIDE DEF Q
<1>3. Flushed(id, queue, credit) \in Q \cap Loops
  BY <1>1, <1>2, FlushedKeeps
<1> QED
  BY <1>3 DEF Q

SameIn(o, w, v) ==
  /\ NoneOf(o, w) => NoneOf(o, v)
  /\ Opens(o, v) <=> Opens(o, w)
  /\ Resets(o, v) => Resets(o, w)
  /\ OpenComesFirst(o, w) => OpenComesFirst(o, v)
  /\ \A type \in FrameTypes : Bytes(v, type, o) = Bytes(w, type, o)

LEMMA SameInAfterAppend ==
  ASSUME NEW w \in Seq(Frames), NEW f \in Frames, NEW o, f.id # o
  PROVE  SameIn(o, w, Append(w, f))
<1> DEFINE v == Append(w, f)
<1>1. Len(v) = Len(w) + 1 /\ v[Len(w) + 1] = f /\ Len(w) \in Nat /\ \A i \in 1..Len(w) : v[i] = w[i]
  OBVIOUS
<1>2. Same(o, w, v)
  BY SameAfterAppend
<1> HIDE DEF v
<1>3. \A k \in 1..Len(v) : v[k].id = o => k \in 1..Len(w) /\ v[k] = w[k]
  BY <1>1
<1>4. 1..Len(w) \subseteq 1..Len(v)
  BY <1>1
<1>5. Opens(o, v) <=> Opens(o, w)
  BY <1>1, <1>3, <1>4 DEF Opens
<1>6. Resets(o, v) => Resets(o, w)
  BY <1>3 DEF Resets
<1>7. OpenComesFirst(o, w) => OpenComesFirst(o, v)
  BY <1>3 DEF OpenComesFirst
<1> QED
  BY <1>2, <1>5, <1>6, <1>7 DEF SameIn, Same, v

LEMMA TailParts ==
  ASSUME NEW w \in Seq(Frames), w # <<>>
  PROVE  /\ Tail(w) \in Seq(Frames) /\ Len(w) \in Nat /\ Len(Tail(w)) = Len(w) - 1
         /\ Head(w) = w[1] /\ 1 \in 1..Len(w) /\ Head(w) \in Frames
         /\ \A i \in 1..Len(Tail(w)) : Tail(w)[i] = w[i + 1] /\ i + 1 \in 1..Len(w)
OBVIOUS

LEMMA SameInAfterTail ==
  ASSUME NEW w \in Seq(Frames), w # <<>>, NEW o, Head(w).id # o
  PROVE  SameIn(o, w, Tail(w))
<1> DEFINE v == Tail(w)
<1>1. Len(v) = Len(w) - 1 /\ Len(w) \in Nat /\ w[1] = Head(w)
      /\ \A i \in 1..Len(v) : v[i] = w[i + 1] /\ i + 1 \in 1..Len(w)
  BY TailParts
<1>2. Same(o, w, v)
  BY SameAfterTail
<1> HIDE DEF v
<1>3. \A k \in 1..Len(w) : w[k].id = o => k - 1 \in 1..Len(v) /\ v[k - 1] = w[k]
  <2> SUFFICES ASSUME NEW k \in 1..Len(w), w[k].id = o
               PROVE  k - 1 \in 1..Len(v) /\ v[k - 1] = w[k]
    OBVIOUS
  <2>1. k # 1
    BY <1>1
  <2>2. PICK i : i = k - 1
    OBVIOUS
  <2>3. i \in 1..Len(v) /\ i + 1 = k
    BY <1>1, <2>1, <2>2
  <2> QED
    BY <1>1, <2>2, <2>3
<1>4. Opens(o, v) <=> Opens(o, w)
  <2>1. Opens(o, v) => Opens(o, w)
    BY <1>1 DEF Opens
  <2>2. Opens(o, w) => Opens(o, v)
    BY <1>3 DEF Opens
  <2> QED
    BY <2>1, <2>2
<1>5. Resets(o, v) => Resets(o, w)
  BY <1>1 DEF Resets
<1>6. OpenComesFirst(o, w) => OpenComesFirst(o, v)
  <2> SUFFICES ASSUME OpenComesFirst(o, w),
                      NEW k \in 1..Len(v), NEW j \in 1..Len(v),
                      v[k].id = o, v[k].type = "OPEN", v[j].id = o, j # k
               PROVE  k < j /\ v[j].type # "OPEN"
    BY DEF OpenComesFirst
  <2>1. PICK kk, jj : kk = k + 1 /\ jj = j + 1
    OBVIOUS
  <2>2. kk \in 1..Len(w) /\ jj \in 1..Len(w) /\ v[k] = w[kk] /\ v[j] = w[jj] /\ jj # kk
    BY <1>1, <2>1
  <2>3. kk < jj /\ w[jj].type # "OPEN"
    BY <2>2 DEF OpenComesFirst
  <2> QED
    BY <2>1, <2>2, <2>3
<1> QED
  BY <1>2, <1>4, <1>5, <1>6 DEF SameIn, Same, v

\* What a change of the wires leaves as it was for a stream leaves it sound.
LEMMA SoundApart ==
  ASSUME NEW o, NEW s, NEW r, NEW w, NEW out, NEW in, NEW out2, NEW in2,
         StreamSound(o, s, r, w, out, in), Same(o, out, out2), SameIn(o, in, in2)
  PROVE  StreamSound(o, s, r, w, out2, in2)
<1>0. r \in Remotes /\ Core(r) \in Views
  BY DEF StreamSound, StreamTyped, Core, Views, Remotes
<1>1. StreamTyped(s, r, w) /\ UnansweredSentNothing(s) /\ (r.over => r.st = "closed")
  BY DEF StreamSound
<1>2. UnopenedIsNew(o, s, r, w, out2, in2)
  BY DEF StreamSound, UnopenedIsNew, Same, SameIn
<1>3. OpeningIsNew(o, s, r, w, out2, in2)
  <2>1. Bytes(in2, "WINDOW", o) = Bytes(in, "WINDOW", o) /\ Bytes(in2, "DATA", o) = Bytes(in, "DATA", o)
    BY DEF SameIn, FrameTypes
  <2>2. OpeningIsNew(o, s, r, w, out, in) /\ (Opens(o, in2) => Opens(o, in))
    BY DEF StreamSound, SameIn
  <2>3. NoneOf(o, out) => NoneOf(o, out2)
    BY DEF Same
  <2> QED
    BY <2>1, <2>2, <2>3 DEF OpeningIsNew
<1>4. OpenComesFirst(o, in2)
  BY DEF StreamSound, SameIn
<1>5. ResetMeansClosed(o, r, in2)
  BY DEF StreamSound, SameIn, ResetMeansClosed
<1>6. WindowKept(o, s, r, out2, in2)
  <2>1. Bytes(in2, "WINDOW", o) = Bytes(in, "WINDOW", o) /\ Bytes(in2, "DATA", o) = Bytes(in, "DATA", o)
    BY DEF SameIn, FrameTypes
  <2>2. Bytes(out2, "WINDOW", o) = Bytes(out, "WINDOW", o) /\ Bytes(out2, "DATA", o) = Bytes(out, "DATA", o)
    BY DEF Same, FrameTypes
  <2>3. WindowKept(o, s, r, out, in)
    BY DEF StreamSound
  <2> QED
    BY <2>1, <2>2, <2>3 DEF WindowKept
<1>7. ComesOut(o, s, Final(o, Core(r), out2), w, in2)
  <2>1. Final(o, Core(r), out2) = Final(o, Core(r), out)
    BY <1>0 DEF Same
  <2>2. ComesOut(o, s, Final(o, Core(r), out), w, in) /\ (Opens(o, in) => Opens(o, in2))
    BY DEF StreamSound, SameIn
  <2>3. PICK v : v = Final(o, Core(r), out)
    OBVIOUS
  <2>4. ComesOut(o, s, v, w, in2)
    BY <2>2, <2>3 DEF ComesOut
  <2> QED
    BY <2>1, <2>3, <2>4
<1> QED
  BY <1>1, <1>2, <1>3, <1>4, <1>5, <1>6, <1>7 DEF StreamSound

-----------------------------------------------------------------------------
(* The wire to us, for the stream of the frame.                            *)

LEMMA InTail ==
  ASSUME NEW id, NEW w \in Seq(Frames), w # <<>>, Head(w).id = id, OpenComesFirst(id, w)
  PROVE  /\ OpenComesFirst(id, Tail(w)) /\ ~NoneOf(id, w)
         /\ Resets(id, Tail(w)) => Resets(id, w)
         /\ ~Opens(id, Tail(w))
         /\ Head(w).type # "OPEN" => ~Opens(id, w)
         /\ Head(w).type = "OPEN" => Opens(id, w)
         /\ Head(w).type = "RESET" => Resets(id, w)
<1> DEFINE v == Tail(w)
<1>1. Len(v) = Len(w) - 1 /\ Len(w) \in Nat /\ w[1] = Head(w) /\ 1 \in 1..Len(w)
      /\ \A i \in 1..Len(v) : v[i] = w[i + 1] /\ i + 1 \in 1..Len(w)
  BY TailParts
<1> HIDE DEF v
<1>2. OpenComesFirst(id, v)
  <2> SUFFICES ASSUME NEW k \in 1..Len(v), NEW j \in 1..Len(v),
                      v[k].id = id, v[k].type = "OPEN", v[j].id = id, j # k
               PROVE  k < j /\ v[j].type # "OPEN"
    BY DEF OpenComesFirst
  <2>1. PICK kk, jj : kk = k + 1 /\ jj = j + 1
    OBVIOUS
  <2>2. kk \in 1..Len(w) /\ jj \in 1..Len(w) /\ v[k] = w[kk] /\ v[j] = w[jj] /\ jj # kk
    BY <1>1, <2>1
  <2>3. kk < jj /\ w[jj].type # "OPEN"
    BY <2>2 DEF OpenComesFirst
  <2> QED
    BY <2>1, <2>2, <2>3
<1>3. Resets(id, v) => Resets(id, w)
  BY <1>1 DEF Resets
<1>4. \A k \in 1..Len(w) : k # 1 => ~(w[k].type = "OPEN" /\ w[k].id = id)
  <2> SUFFICES ASSUME NEW k \in 1..Len(w), k # 1, w[k].type = "OPEN", w[k].id = id
               PROVE  FALSE
    OBVIOUS
  <2>1. k < 1
    BY <1>1 DEF OpenComesFirst
  <2> QED
    BY <2>1
<1>5. ~Opens(id, v)
  <2> SUFFICES ASSUME NEW k \in 1..Len(v), v[k].type = "OPEN", v[k].id = id
               PROVE  FALSE
    BY DEF Opens
  <2>1. PICK i : i = k + 1
    OBVIOUS
  <2>2. i \in 1..Len(w) /\ i # 1 /\ v[k] = w[i]
    BY <1>1, <2>1
  <2> QED
    BY <1>4, <2>2
<1>6. Head(w).type # "OPEN" => ~Opens(id, w)
  BY <1>1, <1>4 DEF Opens
<1>7. (Head(w).type = "OPEN" => Opens(id, w)) /\ (Head(w).type = "RESET" => Resets(id, w)) /\ ~NoneOf(id, w)
  BY <1>1 DEF Opens, Resets, NoneOf
<1> QED
  BY <1>2, <1>3, <1>5, <1>6, <1>7 DEF v

LEMMA InAppend ==
  ASSUME NEW id, NEW w \in Seq(Frames), NEW f \in Frames, f.id = id, OpenComesFirst(id, w),
         f.type # "OPEN" \/ NoneOf(id, w)
  PROVE  /\ OpenComesFirst(id, Append(w, f))
         /\ f.type # "OPEN" => (Opens(id, Append(w, f)) <=> Opens(id, w))
         /\ f.type = "OPEN" => Opens(id, Append(w, f))
         /\ Resets(id, Append(w, f)) => Resets(id, w) \/ f.type = "RESET"
<1> DEFINE v == Append(w, f)
<1>1. Len(v) = Len(w) + 1 /\ v[Len(w) + 1] = f /\ Len(w) \in Nat /\ \A i \in 1..Len(w) : v[i] = w[i]
  OBVIOUS
<1> HIDE DEF v
<1>2. PICK l : l = Len(w) + 1
  OBVIOUS
<1>3. l \in 1..Len(v) /\ v[l] = f /\ \A k \in 1..Len(v) : k # l => k \in 1..Len(w) /\ v[k] = w[k] /\ k < l
  BY <1>1, <1>2
<1>4. 1..Len(w) \subseteq 1..Len(v)
  BY <1>1
<1>5. OpenComesFirst(id, v)
  <2> SUFFICES ASSUME NEW k \in 1..Len(v), NEW j \in 1..Len(v),
                      v[k].id = id, v[k].type = "OPEN", v[j].id = id, j # k
               PROVE  k < j /\ v[j].type # "OPEN"
    BY DEF OpenComesFirst
  <2>1. CASE k # l /\ j # l
    BY <1>3, <2>1 DEF OpenComesFirst
  <2>2. CASE k = l
    <3>1. j \in 1..Len(w) /\ w[j].id = id /\ f.type = "OPEN"
      BY <1>3, <2>2
    <3> QED
      BY <3>1 DEF NoneOf
  <2>3. CASE j = l
    <3>1. k \in 1..Len(w) /\ w[k].id = id /\ k < l
      BY <1>3, <2>3
    <3>2. f.type # "OPEN"
      BY <3>1 DEF NoneOf
    <3> QED
      BY <1>3, <2>3, <3>1, <3>2
  <2> QED
    BY <2>1, <2>2, <2>3
<1>6. f.type # "OPEN" => (Opens(id, v) <=> Opens(id, w))
  BY <1>1, <1>3, <1>4 DEF Opens
<1>7. f.type = "OPEN" => Opens(id, v)
  BY <1>3 DEF Opens
<1>8. Resets(id, v) => Resets(id, w) \/ f.type = "RESET"
  BY <1>3 DEF Resets
<1> QED
  BY <1>5, <1>6, <1>7, <1>8 DEF v

LEMMA StreamsLive == \A s \in Streams : s # NoStream
<1> SUFFICES ASSUME NEW s \in Streams, s = NoStream
             PROVE  FALSE
  OBVIOUS
<1>1. s.kind \in {"http", "ws"}
  BY DEF Streams
<1>2. s.kind = "none"
  BY DEF NoStream
<1> QED
  BY <1>1, <1>2

LEMMA LiveFacts ==
  ASSUME NEW id, NEW s, NEW r, NEW w, NEW out, NEW in, StreamSound(id, s, r, w, out, in),
         s # NoStream
  PROVE  s \in Streams /\ r.st # "idle" /\ ~Opens(id, in)
BY DEF StreamSound, StreamTyped, UnopenedIsNew, OpeningIsNew

LEMMA CoreTyped ==
  ASSUME NEW r \in Remotes
  PROVE  /\ Core(r) \in Views /\ Core(r).st = r.st /\ Core(r).part = r.part
         /\ Core(r).got = r.got /\ Core(r).over = r.over
BY DEF Core, Views, Remotes

LEMMA NewSound ==
  ASSUME NEW id, Window \in Nat
  PROVE  StreamSound(id, NoStream, NoRemote, <<>>, <<>>, <<>>)
<1>1. NoRemote \in Remotes /\ NoRemote.st = "idle" /\ ~NoRemote.over /\ NoRemote.got = <<>>
  BY DEF NoRemote, Remotes, RemoteStates
<1>2. <<>> \in Seq(Frames) /\ <<>> \in Seq(Nat)
  OBVIOUS
<1>3. StreamTyped(NoStream, NoRemote, <<>>)
  BY <1>1, <1>2 DEF StreamTyped
<1>4. NoneOf(id, <<>>) /\ ~Opens(id, <<>>) /\ ~Resets(id, <<>>) /\ OpenComesFirst(id, <<>>)
  BY DEF NoneOf, Opens, Resets, OpenComesFirst
<1>5. Final(id, Core(NoRemote), <<>>) = Core(NoRemote)
  BY <1>1, <1>2, <1>4, CoreTyped, FinalOfNone
<1>6. Core(NoRemote).st = "idle" /\ ~Core(NoRemote).over /\ Core(NoRemote).got = <<>>
  BY <1>1, CoreTyped
<1>7. Extends(<<>>, <<>>)
  BY <1>2, ExtendsFacts
<1>8. ComesOut(id, NoStream, Core(NoRemote), <<>>, <<>>)
  BY <1>6, <1>7 DEF ComesOut
<1>9. UnopenedIsNew(id, NoStream, NoRemote, <<>>, <<>>, <<>>)
  BY <1>4 DEF UnopenedIsNew
<1>10. OpeningIsNew(id, NoStream, NoRemote, <<>>, <<>>, <<>>) /\ ResetMeansClosed(id, NoRemote, <<>>)
  BY <1>4 DEF OpeningIsNew, ResetMeansClosed
<1>11. UnansweredSentNothing(NoStream) /\ WindowKept(id, NoStream, NoRemote, <<>>, <<>>)
  BY DEF UnansweredSentNothing, WindowKept
<1> QED
  BY <1>1, <1>3, <1>4, <1>5, <1>8, <1>9, <1>10, <1>11 DEF StreamSound

-----------------------------------------------------------------------------
(* A stream that is let go of.                                             *)

LEMMA Gone ==
  ASSUME NEW id, NEW s, NEW r, NEW w, NEW out, NEW in, NEW out2, NEW in2,
         StreamSound(id, s, r, w, out, in), r.st # "idle",
         ~Opens(id, in2), OpenComesFirst(id, in2), Resets(id, in2) => Resets(id, in),
         NEW v, v = Final(id, Core(r), out2),
         v.st = "closed", Extends(w, v.got), v.over => v.got = w
  PROVE  StreamSound(id, NoStream, r, w, out2, in2)
<1>1. StreamTyped(NoStream, r, w) /\ (r.over => r.st = "closed") /\ ResetMeansClosed(id, r, in2)
  BY DEF StreamSound, StreamTyped, ResetMeansClosed
<1>2. UnopenedIsNew(id, NoStream, r, w, out2, in2) /\ OpeningIsNew(id, NoStream, r, w, out2, in2)
  BY DEF UnopenedIsNew, OpeningIsNew
<1>3. UnansweredSentNothing(NoStream) /\ WindowKept(id, NoStream, r, out2, in2)
  BY DEF UnansweredSentNothing, WindowKept
<1>4. ComesOut(id, NoStream, v, w, in2)
  BY DEF ComesOut
<1> QED
  BY <1>1, <1>2, <1>3, <1>4 DEF StreamSound

LEMMA TakenLast ==
  ASSUME NEW v \in Views, NEW f \in Frames
  PROVE  /\ f.type = "RESET" \/ (f.type = "HEAD" /\ ~f.last) =>
              Taken(v, f).st = "closed" /\ Taken(v, f).got = v.got /\ Taken(v, f).over = v.over
         /\ f.type = "END" =>
              Taken(v, f).st = "closed" /\ Taken(v, f).got = v.got
         /\ v.st = "closed" => Taken(v, f) = v
<1>1. ASSUME f.type = "RESET" \/ (f.type = "HEAD" /\ ~f.last)
      PROVE  Taken(v, f).st = "closed" /\ Taken(v, f).got = v.got /\ Taken(v, f).over = v.over
  BY <1>1 DEF Taken, Views
<1>2. ASSUME f.type = "END"
      PROVE  Taken(v, f).st = "closed" /\ Taken(v, f).got = v.got
  BY <1>2 DEF Taken, Views
<1> QED
  BY <1>1, <1>2 DEF Taken

LEMMA GoneWithReset ==
  ASSUME NEW id, NEW s, NEW r, NEW w, NEW out \in Seq(Frames), NEW in, NEW in2,
         StreamSound(id, s, r, w, out, in), r.st # "idle",
         ~Opens(id, in2), OpenComesFirst(id, in2), Resets(id, in2) => Resets(id, in),
         NEW f \in Frames, f.id = id, f.type = "RESET" \/ (f.type = "HEAD" /\ ~f.last)
  PROVE  StreamSound(id, NoStream, r, w, Append(out, f), in2)
<1>1. r \in Remotes
  BY DEF StreamSound, StreamTyped
<1>2. PICK v \in Views : v = Final(id, Core(r), out)
  BY <1>1, CoreTyped, FinalTyped
<1>3. ComesOut(id, s, v, w, in)
  BY <1>2 DEF StreamSound
<1>4. Final(id, Core(r), Append(out, f)) = Taken(v, f)
  BY <1>1, <1>2, CoreTyped, FinalAppend
<1>5. PICK u : u = Taken(v, f)
  OBVIOUS
<1>6. u.st = "closed" /\ u.got = v.got /\ u.over = v.over
  BY <1>5, TakenLast
<1>7. Extends(w, u.got) /\ (u.over => u.got = w)
  BY <1>3, <1>6 DEF ComesOut
<1> QED
  BY <1>4, <1>5, <1>6, <1>7, Gone

LEMMA GoneWithEnd ==
  ASSUME NEW id, NEW s, NEW r, NEW w, NEW out \in Seq(Frames), NEW in,
         StreamSound(id, s, r, w, out, in), s # NoStream, s.queue = <<>>,
         NEW f \in Frames, f.id = id, f.type = "END"
  PROVE  StreamSound(id, NoStream, r, w, Append(out, f), in)
<1>1. r \in Remotes /\ w \in Seq(Nat)
  BY DEF StreamSound, StreamTyped
<1>2. PICK v \in Views : v = Final(id, Core(r), out)
  BY <1>1, CoreTyped, FinalTyped
<1>3. ComesOut(id, s, v, w, in)
  BY <1>2 DEF StreamSound
<1>4. Final(id, Core(r), Append(out, f)) = Taken(v, f)
  BY <1>1, <1>2, CoreTyped, FinalAppend
<1>5. PICK u : u = Taken(v, f)
  OBVIOUS
<1>6. u.st = "closed" /\ u.got = v.got
  BY <1>5, TakenLast
<1>7. Extends(w, u.got)
  BY <1>3, <1>6 DEF ComesOut
<1>8. u.over => u.got = w
  <2>1. CASE v.st = "closed"
    BY <1>3, <1>5, <2>1, TakenLast DEF ComesOut
  <2>2. CASE v.st # "closed"
    BY <1>3, <1>6, <2>2 DEF ComesOut, Joins
  <2> QED
    BY <2>1, <2>2
<1>9. r.st # "idle" /\ ~Opens(id, in) /\ OpenComesFirst(id, in)
  BY LiveFacts DEF StreamSound
<1> QED
  BY <1>4, <1>5, <1>6, <1>7, <1>8, <1>9, Gone

\* A frame for a stream that is gone, or a reset.
LEMMA ArrivedTooLate ==
  ASSUME NEW id, NEW s, NEW r, NEW w, NEW out \in Seq(Frames), NEW in \in Seq(Frames),
         StreamSound(id, s, r, w, out, in), in # <<>>, Head(in).id = id, Head(in).type # "OPEN",
         s = NoStream \/ Head(in).type = "RESET"
  PROVE  StreamSound(id, NoStream, r, w, out, Tail(in))
<1>1. r \in Remotes
  BY DEF StreamSound, StreamTyped
<1>2. PICK v \in Views : v = Final(id, Core(r), out)
  BY <1>1, CoreTyped, FinalTyped
<1>3. ComesOut(id, s, v, w, in) /\ OpenComesFirst(id, in)
  BY <1>2 DEF StreamSound
<1>4. /\ OpenComesFirst(id, Tail(in)) /\ ~NoneOf(id, in) /\ ~Opens(id, Tail(in)) /\ ~Opens(id, in)
      /\ Resets(id, Tail(in)) => Resets(id, in)
  BY <1>3, InTail
<1>5. r.st # "idle"
  BY <1>4 DEF StreamSound, UnopenedIsNew
<1>6. v.st = "closed"
  <2>1. CASE Head(in).type = "RESET"
    <3>1. Resets(id, in)
      BY <1>3, <2>1, InTail
    <3>2. Core(r).st = "closed"
      BY <1>1, <3>1, CoreTyped DEF StreamSound, ResetMeansClosed
    <3> QED
      BY <1>1, <1>2, <3>2, CoreTyped, FinalOfClosed
  <2>2. CASE s = NoStream
    <3>1. v.st \in {"idle", "closed"}
      BY <1>3, <1>4, <2>2 DEF ComesOut
    <3>2. v.st # "idle"
      <4> DEFINE Q == {t \in Views : t.st # "idle"}
      <4>1. Core(r) \in Q
        BY <1>1, <1>5, CoreTyped
      <4>2. \A t \in Views : \A f \in Frames : t \in Q => Delivery(id)[<<t, f>>] \in Q
        <5> SUFFICES ASSUME NEW t \in Views, NEW f \in Frames, t.st # "idle"
                     PROVE  Delivery(id)[<<t, f>>] \in Q
          OBVIOUS
        <5>1. Taken(t, f).st # "idle"
          BY DEF Taken, Views
        <5> QED
          BY <5>1, TakenTyped, DeliveryTyped
      <4> HIDE DEF Q
      <4>3. \A t \in Views : \A i \in 1..Len(out) : t \in Q => Delivery(id)[<<t, out[i]>>] \in Q
        BY <4>2
      <4>4. Core(r) \in Views /\ Delivery(id) \in [Views \X Frames -> Views]
        BY <1>1, CoreTyped, DeliveryTyped
      <4>5. Fold(Delivery(id), Core(r), out) \in Q
        BY <4>1, <4>3, <4>4, FoldKeeps
      <4> QED
        BY <1>2, <4>5 DEF Q, Final
    <3> QED
      BY <3>1, <3>2
  <2> QED
    BY <2>1, <2>2
<1>7. Extends(w, v.got) /\ (v.over => v.got = w)
  BY <1>3 DEF ComesOut
<1> QED
  BY <1>2, <1>4, <1>5, <1>6, <1>7, Gone

\* write and grant: the credit and the queue are what they have become, the flush follows.
LEMMA FlushSound ==
  ASSUME NEW id \in RelayStreams, NEW s, NEW r, NEW w, NEW out \in Seq(Frames), NEW in \in Seq(Frames),
         StreamSound(id, s, r, w, out, in), s # NoStream,
         NEW f, f = Flushed(id, s.queue, s.credit)
  PROVE  /\ f \in Loops
         /\ out \o f.frames \in Seq(Frames)
         /\ SendsApart(id, out, f)
         /\ [s EXCEPT !.queue = f.queue, !.credit = f.credit].queue = f.queue
         /\ [s EXCEPT !.queue = f.queue, !.credit = f.credit] # NoStream
         /\ StreamSound(id, [s EXCEPT !.queue = f.queue, !.credit = f.credit], r, w,
                        out \o f.frames, in)
<1>1. s \in Streams /\ r.st # "idle" /\ ~Opens(id, in)
  BY LiveFacts
<1>2. r \in Remotes /\ w \in Seq(Nat)
  BY DEF StreamSound, StreamTyped
<1>3. s.queue \in Seq(Chunk) /\ s.credit \in Nat /\ s.credit <= Window
  BY <1>1, RelayAssumption DEF Streams, Chunk
<1>4. PICK v \in Views : v = Final(id, Core(r), out)
  BY <1>2, CoreTyped, FinalTyped
<1>5. ComesOut(id, s, v, w, in)
  BY <1>4 DEF StreamSound
<1>6. f \in Loops /\ SendsCredit(id, s.queue, s.credit, out, f) /\ SendsApart(id, out, f)
  BY <1>2, <1>3, CoreTyped, FlushSends
<1>7. GoesOn(s.queue, w, v, Final(id, Core(r), out \o f.frames), f.queue)
  BY <1>2, <1>3, <1>4, CoreTyped, FlushSends
<1>8. PICK out2 \in Seq(Frames) : out2 = out \o f.frames
  <2>1. PICK fs \in Seq(Frames) : fs = f.frames
    BY <1>6 DEF Loops
  <2>2. out \o fs \in Seq(Frames)
    OBVIOUS
  <2> QED
    BY <2>1, <2>2
<1>9. PICK u \in Views : u = Final(id, Core(r), out2)
  BY <1>2, CoreTyped, FinalTyped
<1>10. GoesOn(s.queue, w, v, u, f.queue)
  BY <1>7, <1>8, <1>9
<1>11. f.queue \in Seq(Chunk) /\ f.credit \in 0..Window
  BY <1>3, <1>6, RelayAssumption DEF Loops, SendsCredit
<1>12. PICK t \in Streams :
         /\ t = [s EXCEPT !.queue = f.queue, !.credit = f.credit]
         /\ t.queue = f.queue /\ t.credit = f.credit /\ t.kind = s.kind /\ t.local = s.local
         /\ t.ending = s.ending /\ t.inbound = s.inbound
  <2>1. PICK t : t = [s EXCEPT !.queue = f.queue, !.credit = f.credit]
    OBVIOUS
  <2>2. t \in Streams
    BY <1>1, <1>11, <2>1 DEF Streams, Chunk
  <2>3. t.queue = f.queue /\ t.credit = f.credit /\ t.kind = s.kind
    BY <1>1, <2>1 DEF Streams
  <2>4. t.local = s.local /\ t.ending = s.ending /\ t.inbound = s.inbound
    BY <1>1, <2>1 DEF Streams
  <2> QED
    BY <2>1, <2>2, <2>3, <2>4
<1>13. t # NoStream
  BY StreamsLive
<1>14. StreamSound(id, t, r, w, out2, in)
  <2>1. StreamTyped(t, r, w) /\ (r.over => r.st = "closed") /\ ResetMeansClosed(id, r, in)
        /\ OpenComesFirst(id, in)
    BY <1>2 DEF StreamSound, StreamTyped
  <2>2. UnopenedIsNew(id, t, r, w, out2, in) /\ OpeningIsNew(id, t, r, w, out2, in)
    BY <1>1 DEF UnopenedIsNew, OpeningIsNew
  <2>3. UnansweredSentNothing(t)
    BY <1>6, <1>12, <1>13 DEF UnansweredSentNothing, StreamSound, SendsCredit
  <2>4. WindowKept(id, t, r, out2, in)
    <3>1. SUFFICES ASSUME r.st \in {"open", "headed"}
                   PROVE  /\ t.credit + Bytes(out2, "DATA", id) + r.owes + Bytes(in, "WINDOW", id) = Window
                          /\ r.credit + Bytes(in, "DATA", id) + SumOf(t.inbound) + Bytes(out2, "WINDOW", id) = Window
      BY DEF WindowKept
    <3>2. /\ s.credit + Bytes(out, "DATA", id) + r.owes + Bytes(in, "WINDOW", id) = Window
          /\ r.credit + Bytes(in, "DATA", id) + SumOf(s.inbound) + Bytes(out, "WINDOW", id) = Window
      BY <3>1 DEF StreamSound, WindowKept
    <3>3. f.credit + Bytes(out2, "DATA", id) = s.credit + Bytes(out, "DATA", id)
      BY <1>6, <1>8 DEF SendsCredit
    <3>4. Bytes(out2, "WINDOW", id) = Bytes(out, "WINDOW", id)
      BY <1>6, <1>8 DEF SendsCredit
    <3>5. Bytes(out, "DATA", id) \in Nat /\ Bytes(out2, "DATA", id) \in Nat /\ Bytes(in, "WINDOW", id) \in Nat
      BY BytesTyped
    <3>6. r.owes \in Nat /\ f.credit \in Nat
      BY <1>2, <1>6 DEF Remotes, Loops
    <3>7. t.credit + Bytes(out2, "DATA", id) + r.owes + Bytes(in, "WINDOW", id) = Window
      BY <1>3, <1>12, <3>2, <3>3, <3>5, <3>6
    <3> QED
      BY <1>12, <3>2, <3>4, <3>7
  <2>5. ComesOut(id, t, u, w, in)
    <3>1. ~v.over /\ ~u.over /\ u.st = v.st
      BY <1>5, <1>10 DEF ComesOut, GoesOn
    <3>2. CASE v.st = "closed"
      BY <1>5, <1>10, <1>13, <3>1, <3>2 DEF ComesOut, GoesOn
    <3>3. CASE v.st # "closed"
      <4>1. Joins(u.part, u.got, f.queue, w)
        BY <1>5, <1>10, <3>3 DEF ComesOut, GoesOn
      <4>2. u.part \in Nat /\ u.got \in Seq(Nat)
        BY DEF Views
      <4>3. Extends(w, u.got)
        BY <1>2, <1>11, <4>1, <4>2, JoinsExtends
      <4> QED
        BY <1>12, <1>13, <3>1, <4>1, <4>3 DEF ComesOut
    <3> QED
      BY <3>2, <3>3
  <2> QED
    BY <1>9, <2>1, <2>2, <2>3, <2>4, <2>5 DEF StreamSound
<1> QED
  BY <1>6, <1>8, <1>12, <1>13, <1>14

-----------------------------------------------------------------------------
(* Frames of the relay.                                                    *)

LEMMA NewStreamIs ==
  ASSUME NEW kind \in {"http", "ws"}
  PROVE  /\ NewStream(kind) \in Streams
         /\ NewStream(kind).credit = Window /\ NewStream(kind).queue = <<>>
         /\ NewStream(kind).inbound = <<>> /\ NewStream(kind).local = "opening"
<1>1. Window \in 0..Window
  BY RelayAssumption
<1> QED
  BY <1>1 DEF NewStream, Streams

LEMMA OpenSound ==
  ASSUME NEW id, NEW s, NEW r, NEW w, NEW out \in Seq(Frames), NEW in \in Seq(Frames),
         StreamSound(id, s, r, w, out, in), in # <<>>, Head(in).id = id, Head(in).type = "OPEN",
         NEW kind \in {"http", "ws"}
  PROVE  /\ s = NoStream
         /\ StreamSound(id, NewStream(kind), r, w, out, Tail(in))
         /\ \A f \in Frames : f.id = id /\ f.type = "RESET" =>
              StreamSound(id, NoStream, r, w, Append(out, f), Tail(in))
<1>1. r \in Remotes /\ w \in Seq(Nat) /\ OpenComesFirst(id, in)
  BY DEF StreamSound, StreamTyped
<1>2. /\ OpenComesFirst(id, Tail(in)) /\ ~NoneOf(id, in) /\ ~Opens(id, Tail(in)) /\ Opens(id, in)
      /\ Resets(id, Tail(in)) => Resets(id, in)
  BY <1>1, InTail
<1>3. r.st # "idle"
  BY <1>2 DEF StreamSound, UnopenedIsNew
<1>4. /\ s = NoStream /\ w = <<>> /\ NoneOf(id, out)
      /\ r.owes = 0 /\ r.part = 0 /\ r.got = <<>> /\ ~r.over
      /\ Bytes(in, "WINDOW", id) = 0 /\ r.credit + Bytes(in, "DATA", id) = Window
  BY <1>2 DEF StreamSound, OpeningIsNew
<1>5. PICK t \in Streams : /\ t = NewStream(kind) /\ t.credit = Window /\ t.queue = <<>>
                           /\ t.inbound = <<>> /\ t.local = "opening"
  BY NewStreamIs
<1>6. t # NoStream
  BY StreamsLive
<1>7. StreamSound(id, t, r, w, out, Tail(in))
  <2>1. StreamTyped(t, r, w) /\ (r.over => r.st = "closed") /\ ResetMeansClosed(id, r, Tail(in))
    BY <1>1, <1>2, <1>5 DEF StreamSound, StreamTyped, ResetMeansClosed
  <2>2. UnopenedIsNew(id, t, r, w, out, Tail(in)) /\ OpeningIsNew(id, t, r, w, out, Tail(in))
    BY <1>2, <1>3 DEF UnopenedIsNew, OpeningIsNew
  <2>3. UnansweredSentNothing(t)
    BY <1>5 DEF UnansweredSentNothing
  <2>4. WindowKept(id, t, r, out, Tail(in))
    <3>1. Bytes(out, "DATA", id) = 0 /\ Bytes(out, "WINDOW", id) = 0
      BY <1>4, BytesOfNone
    <3>2. Bytes(in, "WINDOW", id) = Share(Head(in), "WINDOW", id) + Bytes(Tail(in), "WINDOW", id)
      BY BytesHead
    <3>3. Bytes(in, "DATA", id) = Share(Head(in), "DATA", id) + Bytes(Tail(in), "DATA", id)
      BY BytesHead
    <3>4. Share(Head(in), "WINDOW", id) = 0 /\ Share(Head(in), "DATA", id) = 0
      BY DEF Share
    <3>5. Bytes(Tail(in), "WINDOW", id) \in Nat /\ Bytes(Tail(in), "DATA", id) \in Nat
      BY TailParts, BytesTyped
    <3>6. SumOf(t.inbound) = 0 /\ r.credit \in Nat /\ Window \in Nat
      BY <1>1, <1>5, SumOfNothing, RelayAssumption DEF Remotes
    <3>7. t.credit + Bytes(out, "DATA", id) + r.owes + Bytes(Tail(in), "WINDOW", id) = Window
      BY <1>4, <1>5, <3>1, <3>2, <3>4, <3>5, <3>6
    <3>8. r.credit + Bytes(Tail(in), "DATA", id) + SumOf(t.inbound) + Bytes(out, "WINDOW", id) = Window
      BY <1>4, <3>1, <3>3, <3>4, <3>5, <3>6
    <3> QED
      BY <3>7, <3>8 DEF WindowKept
  <2>5. ComesOut(id, t, Final(id, Core(r), out), w, Tail(in))
    <3>1. Final(id, Core(r), out) = Core(r)
      BY <1>1, <1>4, CoreTyped, FinalOfNone
    <3>2. Core(r).got = <<>> /\ Core(r).part = 0 /\ ~Core(r).over
      BY <1>1, <1>4, CoreTyped
    <3>3. Extends(<<>>, <<>>)
      BY <1>1, <1>4, ExtendsFacts
    <3>4. Joins(0, <<>>, t.queue, w)
      BY <1>4, <1>5 DEF Joins
    <3>5. PICK v : v = Core(r)
      OBVIOUS
    <3>6. ComesOut(id, t, v, w, Tail(in))
      BY <1>4, <1>6, <3>2, <3>3, <3>4, <3>5 DEF ComesOut
    <3> QED
      BY <3>1, <3>5, <3>6
  <2> QED
    BY <1>2, <2>1, <2>2, <2>3, <2>4, <2>5 DEF StreamSound
<1>8. ASSUME NEW f \in Frames, f.id = id, f.type = "RESET"
      PROVE  StreamSound(id, NoStream, r, w, Append(out, f), Tail(in))
  BY <1>2, <1>3, <1>8, GoneWithReset
<1> QED
  BY <1>4, <1>5, <1>7, <1>8

LEMMA DroppedSound ==
  ASSUME NEW id, NEW s, NEW r, NEW w, NEW out \in Seq(Frames), NEW in \in Seq(Frames),
         StreamSound(id, s, r, w, out, in), in # <<>>, Head(in).id = id, s # NoStream,
         NEW f \in Frames, f.id = id, f.type = "RESET"
  PROVE  StreamSound(id, NoStream, r, w, Append(out, f), Tail(in))
<1>1. r.st # "idle" /\ OpenComesFirst(id, in)
  BY LiveFacts DEF StreamSound
<1>2. /\ OpenComesFirst(id, Tail(in)) /\ ~Opens(id, Tail(in))
      /\ Resets(id, Tail(in)) => Resets(id, in)
  BY <1>1, InTail
<1> QED
  BY <1>1, <1>2, GoneWithReset

\* A live stream takes a frame that is not a reset: what the frame carries goes to the credit or
\* to what is on its way to the next hop.
LEMMA TakesSound ==
  ASSUME NEW id, NEW s, NEW r, NEW w, NEW out \in Seq(Frames), NEW in \in Seq(Frames),
         StreamSound(id, s, r, w, out, in), in # <<>>, Head(in).id = id, s # NoStream,
         NEW t \in Streams, t.queue = s.queue, UnansweredSentNothing(t),
         r.st \in {"open", "headed"} =>
           /\ t.credit = s.credit + Share(Head(in), "WINDOW", id)
           /\ SumOf(t.inbound) = SumOf(s.inbound) + Share(Head(in), "DATA", id)
  PROVE  StreamSound(id, t, r, w, out, Tail(in))
<1>1. s \in Streams /\ r.st # "idle" /\ ~Opens(id, in) /\ OpenComesFirst(id, in)
  BY LiveFacts DEF StreamSound
<1>2. /\ OpenComesFirst(id, Tail(in)) /\ ~Opens(id, Tail(in))
      /\ Resets(id, Tail(in)) => Resets(id, in)
  BY <1>1, InTail
<1>3. t # NoStream
  BY StreamsLive
<1>4. StreamTyped(t, r, w) /\ (r.over => r.st = "closed") /\ ResetMeansClosed(id, r, Tail(in))
  BY <1>2 DEF StreamSound, StreamTyped, ResetMeansClosed
<1>5. UnopenedIsNew(id, t, r, w, out, Tail(in)) /\ OpeningIsNew(id, t, r, w, out, Tail(in))
  BY <1>1, <1>2 DEF UnopenedIsNew, OpeningIsNew
<1>6. WindowKept(id, t, r, out, Tail(in))
  <2>1. SUFFICES ASSUME r.st \in {"open", "headed"}
                 PROVE  /\ t.credit + Bytes(out, "DATA", id) + r.owes + Bytes(Tail(in), "WINDOW", id) = Window
                        /\ r.credit + Bytes(Tail(in), "DATA", id) + SumOf(t.inbound) + Bytes(out, "WINDOW", id) = Window
    BY DEF WindowKept
  <2>2. /\ s.credit + Bytes(out, "DATA", id) + r.owes + Bytes(in, "WINDOW", id) = Window
        /\ r.credit + Bytes(in, "DATA", id) + SumOf(s.inbound) + Bytes(out, "WINDOW", id) = Window
    BY <2>1 DEF StreamSound, WindowKept
  <2>3. PICK x, y : x = Share(Head(in), "WINDOW", id) /\ y = Share(Head(in), "DATA", id)
    OBVIOUS
  <2>4. x \in Nat /\ y \in Nat
    BY <2>3, TailParts DEF Share, Frames
  <2>5. Bytes(in, "WINDOW", id) = x + Bytes(Tail(in), "WINDOW", id)
    BY <2>3, BytesHead
  <2>6. Bytes(in, "DATA", id) = y + Bytes(Tail(in), "DATA", id)
    BY <2>3, BytesHead
  <2>7. Bytes(Tail(in), "WINDOW", id) \in Nat /\ Bytes(Tail(in), "DATA", id) \in Nat
    BY TailParts, BytesTyped
  <2>8. Bytes(out, "WINDOW", id) \in Nat /\ Bytes(out, "DATA", id) \in Nat
    BY BytesTyped
  <2>9. r.credit \in Nat /\ r.owes \in Nat /\ s.credit \in Nat /\ SumOf(s.inbound) \in Nat
    <3>1. s.inbound \in Seq(Nat) /\ s.credit \in Nat
      BY <1>1, RelayAssumption DEF Streams
    <3> QED
      BY <3>1, SumTyped DEF StreamSound, StreamTyped, Remotes
  <2>10. t.credit = s.credit + x /\ SumOf(t.inbound) = SumOf(s.inbound) + y
    BY <2>1, <2>3
  <2>11. PICK a, b, c, d : /\ a = s.credit /\ b = Bytes(out, "DATA", id) /\ c = r.owes
                           /\ d = Bytes(Tail(in), "WINDOW", id)
    OBVIOUS
  <2>12. (a + x) + b + c + d = Window
    <3>1. a \in Nat /\ b \in Nat /\ c \in Nat /\ d \in Nat
      BY <2>7, <2>8, <2>9, <2>11
    <3>2. a + b + c + (x + d) = Window
      BY <2>2, <2>5, <2>11
    <3> QED
      BY <2>4, <3>1, <3>2
  <2>13. t.credit + Bytes(out, "DATA", id) + r.owes + Bytes(Tail(in), "WINDOW", id) = Window
    BY <2>10, <2>11, <2>12
  <2>14. PICK e, g, h, k : /\ e = r.credit /\ g = Bytes(Tail(in), "DATA", id) /\ h = SumOf(s.inbound)
                           /\ k = Bytes(out, "WINDOW", id)
    OBVIOUS
  <2>15. e + g + (h + y) + k = Window
    <3>1. e \in Nat /\ g \in Nat /\ h \in Nat /\ k \in Nat
      BY <2>7, <2>8, <2>9, <2>14
    <3>2. e + (y + g) + h + k = Window
      BY <2>2, <2>6, <2>14
    <3> QED
      BY <2>4, <3>1, <3>2
  <2>16. r.credit + Bytes(Tail(in), "DATA", id) + SumOf(t.inbound) + Bytes(out, "WINDOW", id) = Window
    BY <2>10, <2>14, <2>15
  <2> QED
    BY <2>13, <2>16
<1>7. ComesOut(id, t, Final(id, Core(r), out), w, Tail(in))
  <2>1. PICK v : v = Final(id, Core(r), out)
    OBVIOUS
  <2>2. ComesOut(id, s, v, w, in)
    BY <2>1 DEF StreamSound
  <2>3. ComesOut(id, t, v, w, Tail(in))
    BY <1>3, <2>2 DEF ComesOut
  <2> QED
    BY <2>1, <2>3
<1> QED
  BY <1>2, <1>4, <1>5, <1>6, <1>7 DEF StreamSound

-----------------------------------------------------------------------------
(* What the local server does.                                             *)

\* A frame that carries no bytes out of the stream goes on its way.
LEMMA SaysSound ==
  ASSUME NEW id, NEW s, NEW r, NEW w, NEW out \in Seq(Frames), NEW in \in Seq(Frames),
         StreamSound(id, s, r, w, out, in), s # NoStream,
         NEW f \in Frames, f.id = id, f.type = "WINDOW" \/ (f.type = "HEAD" /\ f.last),
         NEW t \in Streams, t.queue = s.queue, t.credit = s.credit, UnansweredSentNothing(t),
         SumOf(s.inbound) = SumOf(t.inbound) + Share(f, "WINDOW", id), SumOf(t.inbound) \in Nat
  PROVE  StreamSound(id, t, r, w, Append(out, f), in)
<1>1. s \in Streams /\ r.st # "idle" /\ ~Opens(id, in) /\ OpenComesFirst(id, in)
  BY LiveFacts DEF StreamSound
<1>2. t # NoStream
  BY StreamsLive
<1>3. StreamTyped(t, r, w) /\ (r.over => r.st = "closed") /\ ResetMeansClosed(id, r, in)
  BY DEF StreamSound, StreamTyped
<1>4. UnopenedIsNew(id, t, r, w, Append(out, f), in) /\ OpeningIsNew(id, t, r, w, Append(out, f), in)
  BY <1>1 DEF UnopenedIsNew, OpeningIsNew
<1>5. WindowKept(id, t, r, Append(out, f), in)
  <2>1. SUFFICES ASSUME r.st \in {"open", "headed"}
                 PROVE  /\ t.credit + Bytes(Append(out, f), "DATA", id) + r.owes + Bytes(in, "WINDOW", id) = Window
                        /\ r.credit + Bytes(in, "DATA", id) + SumOf(t.inbound) + Bytes(Append(out, f), "WINDOW", id) = Window
    BY DEF WindowKept
  <2>2. /\ s.credit + Bytes(out, "DATA", id) + r.owes + Bytes(in, "WINDOW", id) = Window
        /\ r.credit + Bytes(in, "DATA", id) + SumOf(s.inbound) + Bytes(out, "WINDOW", id) = Window
    BY <2>1 DEF StreamSound, WindowKept
  <2>3. PICK y \in Nat : y = Share(f, "WINDOW", id)
    BY DEF Share, Frames
  <2>4. Share(f, "DATA", id) = 0
    BY DEF Share
  <2>5. Bytes(Append(out, f), "DATA", id) = Bytes(out, "DATA", id) + Share(f, "DATA", id)
    BY BytesAppend
  <2>6. Bytes(Append(out, f), "WINDOW", id) = Bytes(out, "WINDOW", id) + y
    BY <2>3, BytesAppend
  <2>7. Bytes(in, "WINDOW", id) \in Nat /\ Bytes(in, "DATA", id) \in Nat
    BY BytesTyped
  <2>8. Bytes(out, "WINDOW", id) \in Nat /\ Bytes(out, "DATA", id) \in Nat
    BY BytesTyped
  <2>9. r.credit \in Nat
    BY DEF StreamSound, StreamTyped, Remotes
  <2>10. t.credit + Bytes(Append(out, f), "DATA", id) + r.owes + Bytes(in, "WINDOW", id) = Window
    BY <2>2, <2>4, <2>5, <2>8
  <2>11. r.credit + Bytes(in, "DATA", id) + SumOf(t.inbound) + Bytes(Append(out, f), "WINDOW", id) = Window
    <3>1. PICK a, b, c, d : /\ a = r.credit /\ b = Bytes(in, "DATA", id) /\ c = SumOf(t.inbound)
                            /\ d = Bytes(out, "WINDOW", id)
      OBVIOUS
    <3>2. a \in Nat /\ b \in Nat /\ c \in Nat /\ d \in Nat
      BY <2>7, <2>8, <2>9, <3>1
    <3>3. SumOf(s.inbound) = c + y
      BY <2>3, <3>1
    <3>4. a + b + (c + y) + d = Window
      BY <2>2, <3>1, <3>3
    <3>5. a + b + c + (d + y) = Window
      BY <2>3, <3>2, <3>4
    <3> QED
      BY <2>6, <3>1, <3>5
  <2> QED
    BY <2>10, <2>11
<1>6. ComesOut(id, t, Final(id, Core(r), Append(out, f)), w, in)
  <2>0. r \in Remotes
    BY DEF StreamSound, StreamTyped
  <2>1. PICK v \in Views : v = Final(id, Core(r), out)
    BY <2>0, CoreTyped, FinalTyped
  <2>2. ComesOut(id, s, v, w, in)
    BY <2>1 DEF StreamSound
  <2>3. PICK u : u = Taken(v, f)
    OBVIOUS
  <2>4. Final(id, Core(r), Append(out, f)) = u
    BY <2>0, <2>1, <2>3, CoreTyped, FinalAppend
  <2>5. u.part = v.part /\ u.got = v.got /\ u.over = v.over /\ (v.st = "closed" => u.st = "closed")
    <3>1. CASE f.type = "WINDOW"
      BY <2>3, <3>1 DEF Taken
    <3>2. CASE f.type = "HEAD"
      <4>1. u = v \/ u = [v EXCEPT !.st = "headed"]
        BY <2>3, <3>2 DEF Taken
      <4>2. v.st = "closed" => u = v
        BY <2>3, TakenLast
      <4> QED
        BY <4>1, <4>2 DEF Views
    <3> QED
      BY <3>1, <3>2
  <2>6. ComesOut(id, t, u, w, in)
    BY <1>2, <2>2, <2>5 DEF ComesOut
  <2> QED
    BY <2>4, <2>6
<1> QED
  BY <1>1, <1>3, <1>4, <1>5, <1>6 DEF StreamSound

\* The stream is what it was for the relay.
LEMMA MarkedSound ==
  ASSUME NEW id, NEW s, NEW r, NEW w, NEW out, NEW in,
         StreamSound(id, s, r, w, out, in), s # NoStream,
         NEW t \in Streams, t.queue = s.queue, t.credit = s.credit, t.inbound = s.inbound,
         t.local # "opening"
  PROVE  StreamSound(id, t, r, w, out, in)
<1>1. s \in Streams /\ r.st # "idle" /\ ~Opens(id, in) /\ t # NoStream
  BY LiveFacts, StreamsLive
<1>2. StreamTyped(t, r, w) /\ (r.over => r.st = "closed") /\ ResetMeansClosed(id, r, in)
      /\ OpenComesFirst(id, in)
  BY DEF StreamSound, StreamTyped
<1>3. UnopenedIsNew(id, t, r, w, out, in) /\ OpeningIsNew(id, t, r, w, out, in)
      /\ UnansweredSentNothing(t)
  BY <1>1 DEF UnopenedIsNew, OpeningIsNew, UnansweredSentNothing
<1>4. WindowKept(id, t, r, out, in)
  BY <1>1 DEF StreamSound, WindowKept
<1>5. ComesOut(id, t, Final(id, Core(r), out), w, in)
  <2>1. PICK v : v = Final(id, Core(r), out)
    OBVIOUS
  <2>2. ComesOut(id, s, v, w, in)
    BY <2>1 DEF StreamSound
  <2>3. ComesOut(id, t, v, w, in)
    BY <1>1, <2>2 DEF ComesOut
  <2> QED
    BY <2>1, <2>3
<1> QED
  BY <1>2, <1>3, <1>4, <1>5 DEF StreamSound

\* More is written: it is queued before it is flushed.
LEMMA WrittenSound ==
  ASSUME NEW id, NEW s, NEW r, NEW w, NEW out \in Seq(Frames), NEW in,
         StreamSound(id, s, r, w, out, in), s # NoStream, s.local = "open", NEW n \in Chunk,
         NEW t \in Streams, t.queue = Append(s.queue, n), t.credit = s.credit,
         t.inbound = s.inbound, t.local = s.local
  PROVE  StreamSound(id, t, r, Append(w, n), out, in)
<1>1. s \in Streams /\ r.st # "idle" /\ ~Opens(id, in) /\ t # NoStream
  BY LiveFacts, StreamsLive
<1>0. n \in Nat /\ w \in Seq(Nat) /\ r \in Remotes /\ s.queue \in Seq(Chunk)
  BY <1>1 DEF StreamSound, StreamTyped, Streams, Chunk
<1>2. StreamTyped(t, r, Append(w, n)) /\ (r.over => r.st = "closed") /\ ResetMeansClosed(id, r, in)
      /\ OpenComesFirst(id, in)
  BY <1>0 DEF StreamSound, StreamTyped
<1>3. UnopenedIsNew(id, t, r, Append(w, n), out, in) /\ OpeningIsNew(id, t, r, Append(w, n), out, in)
      /\ UnansweredSentNothing(t)
  BY <1>1 DEF UnopenedIsNew, OpeningIsNew, UnansweredSentNothing
<1>4. WindowKept(id, t, r, out, in)
  BY <1>1 DEF StreamSound, WindowKept
<1>5. ComesOut(id, t, Final(id, Core(r), out), Append(w, n), in)
  <2>1. PICK v \in Views : v = Final(id, Core(r), out)
    BY <1>0, CoreTyped, FinalTyped
  <2>2. ComesOut(id, s, v, w, in)
    BY <2>1 DEF StreamSound
  <2>3. ~v.over /\ Extends(w, v.got)
    BY <2>2 DEF ComesOut
  <2>4. Extends(Append(w, n), v.got)
    BY <1>0, <2>3, ExtendsFacts DEF Views
  <2>5. v.st # "closed" => Joins(v.part, v.got, t.queue, Append(w, n))
    <3>1. v.part \in Nat /\ v.got \in Seq(Nat)
      BY DEF Views
    <3>2. v.st # "closed" => Joins(v.part, v.got, s.queue, w)
      BY <2>2 DEF ComesOut
    <3> QED
      BY <1>0, <3>1, <3>2, JoinsWrite
  <2>6. ComesOut(id, t, v, Append(w, n), in)
    BY <1>1, <2>3, <2>4, <2>5 DEF ComesOut
  <2> QED
    BY <2>1, <2>6
<1> QED
  BY <1>2, <1>3, <1>4, <1>5 DEF StreamSound

-----------------------------------------------------------------------------
(* What the relay does.                                                    *)

LEMMA RelayOpensSound ==
  ASSUME NEW id, NEW s, NEW r, NEW w, NEW out \in Seq(Frames), NEW in \in Seq(Frames),
         StreamSound(id, s, r, w, out, in), r.st = "idle",
         NEW f \in Frames, f.id = id, f.type = "OPEN",
         NEW q \in Remotes, q = [r EXCEPT !.st = "open"]
  PROVE  StreamSound(id, s, q, w, out, Append(in, f))
<1>1. r = NoRemote /\ s = NoStream /\ w = <<>> /\ NoneOf(id, out) /\ NoneOf(id, in)
      /\ OpenComesFirst(id, in)
  BY DEF StreamSound, UnopenedIsNew
<1>2. q.st = "open" /\ q.credit = Window /\ q.owes = 0 /\ q.part = 0 /\ q.got = <<>> /\ ~q.over
  BY <1>1 DEF NoRemote
<1>3. /\ OpenComesFirst(id, Append(in, f)) /\ Opens(id, Append(in, f))
      /\ ~Resets(id, Append(in, f))
  <2>1. ~Resets(id, in)
    BY <1>1 DEF NoneOf, Resets
  <2> QED
    BY <1>1, <2>1, InAppend
<1>4. Bytes(Append(in, f), "WINDOW", id) = 0 /\ Bytes(Append(in, f), "DATA", id) = 0
  <2>1. Bytes(in, "WINDOW", id) = 0 /\ Bytes(in, "DATA", id) = 0
    BY <1>1, BytesOfNone
  <2>2. Share(f, "WINDOW", id) = 0 /\ Share(f, "DATA", id) = 0
    BY DEF Share
  <2>3. Bytes(Append(in, f), "WINDOW", id) = Bytes(in, "WINDOW", id) + Share(f, "WINDOW", id)
    BY BytesAppend
  <2>4. Bytes(Append(in, f), "DATA", id) = Bytes(in, "DATA", id) + Share(f, "DATA", id)
    BY BytesAppend
  <2> QED
    BY <2>1, <2>2, <2>3, <2>4
<1>5. StreamTyped(s, q, w) /\ (q.over => q.st = "closed") /\ ResetMeansClosed(id, q, Append(in, f))
  BY <1>2, <1>3 DEF StreamSound, StreamTyped, ResetMeansClosed
<1>6. UnopenedIsNew(id, s, q, w, out, Append(in, f)) /\ OpeningIsNew(id, s, q, w, out, Append(in, f))
  <2>1. q.credit + Bytes(Append(in, f), "DATA", id) = Window
    BY <1>2, <1>4, RelayAssumption
  <2> QED
    BY <1>1, <1>2, <1>4, <2>1 DEF UnopenedIsNew, OpeningIsNew
<1>7. UnansweredSentNothing(s) /\ WindowKept(id, s, q, out, Append(in, f))
  BY <1>1 DEF UnansweredSentNothing, WindowKept
<1>8. ComesOut(id, s, Final(id, Core(q), out), w, Append(in, f))
  <2>1. PICK v : v = Core(q)
    OBVIOUS
  <2>2. Final(id, Core(q), out) = v
    BY <1>1, <2>1, CoreTyped, FinalOfNone
  <2>3. v.got = <<>> /\ ~v.over
    BY <1>2, <2>1, CoreTyped
  <2>4. Extends(<<>>, <<>>)
    <3>1. <<>> \in Seq(Nat)
      OBVIOUS
    <3> QED
      BY <3>1, ExtendsFacts
  <2>5. ComesOut(id, s, v, w, Append(in, f))
    BY <1>1, <1>3, <2>3, <2>4 DEF ComesOut
  <2> QED
    BY <2>2, <2>5
<1> QED
  BY <1>3, <1>5, <1>6, <1>7, <1>8 DEF StreamSound

\* DATA, WINDOW or END of the relay: what it carries was the relay's credit, or owed to us.
LEMMA RelaySendsSound ==
  ASSUME NEW id, NEW s, NEW r, NEW w, NEW out \in Seq(Frames), NEW in \in Seq(Frames),
         StreamSound(id, s, r, w, out, in), r.st \in {"open", "headed"},
         NEW f \in Frames, f.id = id, f.type \in {"DATA", "WINDOW", "END"},
         NEW q \in Remotes, Core(q) = Core(r),
         r.credit = q.credit + Share(f, "DATA", id), r.owes = q.owes + Share(f, "WINDOW", id)
  PROVE  StreamSound(id, s, q, w, out, Append(in, f))
<1>0. r \in Remotes
  BY DEF StreamSound, StreamTyped
<1>1. q.st = r.st /\ q.part = r.part /\ q.got = r.got /\ q.over = r.over
  BY <1>0, CoreTyped
<1>2. /\ OpenComesFirst(id, Append(in, f)) /\ (Opens(id, Append(in, f)) <=> Opens(id, in))
      /\ Resets(id, Append(in, f)) => Resets(id, in)
  <2>1. OpenComesFirst(id, in)
    BY DEF StreamSound
  <2> QED
    BY <2>1, InAppend
<1>3. StreamTyped(s, q, w) /\ (q.over => q.st = "closed") /\ ResetMeansClosed(id, q, Append(in, f))
      /\ UnansweredSentNothing(s)
  BY <1>1, <1>2 DEF StreamSound, StreamTyped, ResetMeansClosed
<1>4. UnopenedIsNew(id, s, q, w, out, Append(in, f))
  BY <1>1 DEF UnopenedIsNew
<1>5. PICK x, y : x = Share(f, "WINDOW", id) /\ y = Share(f, "DATA", id)
  OBVIOUS
<1>6. x \in Nat /\ y \in Nat
  BY <1>5 DEF Share, Frames
<1>7. Bytes(Append(in, f), "WINDOW", id) = Bytes(in, "WINDOW", id) + x
  BY <1>5, BytesAppend
<1>8. Bytes(Append(in, f), "DATA", id) = Bytes(in, "DATA", id) + y
  BY <1>5, BytesAppend
<1>9. Bytes(in, "WINDOW", id) \in Nat /\ Bytes(in, "DATA", id) \in Nat /\ q.credit \in Nat /\ q.owes \in Nat
  BY BytesTyped DEF Remotes
<1>10. r.credit = q.credit + y /\ r.owes = q.owes + x
  BY <1>5
<1>11. OpeningIsNew(id, s, q, w, out, Append(in, f))
  <2>1. SUFFICES ASSUME Opens(id, in)
                 PROVE  /\ s = NoStream /\ w = <<>> /\ NoneOf(id, out)
                        /\ q.owes = 0 /\ q.part = 0 /\ q.got = <<>> /\ ~q.over
                        /\ Bytes(Append(in, f), "WINDOW", id) = 0
                        /\ q.credit + Bytes(Append(in, f), "DATA", id) = Window
    BY <1>2 DEF OpeningIsNew
  <2>2. /\ s = NoStream /\ w = <<>> /\ NoneOf(id, out)
        /\ r.owes = 0 /\ r.part = 0 /\ r.got = <<>> /\ ~r.over
        /\ Bytes(in, "WINDOW", id) = 0 /\ r.credit + Bytes(in, "DATA", id) = Window
    BY <2>1 DEF StreamSound, OpeningIsNew
  <2>3. x = 0 /\ q.owes = 0
    BY <1>6, <1>9, <1>10, <2>2
  <2>4. Bytes(Append(in, f), "WINDOW", id) = 0
    BY <1>7, <2>2, <2>3
  <2>5. q.credit + Bytes(Append(in, f), "DATA", id) = Window
    BY <1>6, <1>8, <1>9, <1>10, <2>2
  <2> QED
    BY <1>1, <2>2, <2>3, <2>4, <2>5
<1>12. WindowKept(id, s, q, out, Append(in, f))
  <2>1. SUFFICES ASSUME s # NoStream
                 PROVE  /\ s.credit + Bytes(out, "DATA", id) + q.owes + Bytes(Append(in, f), "WINDOW", id) = Window
                        /\ q.credit + Bytes(Append(in, f), "DATA", id) + SumOf(s.inbound) + Bytes(out, "WINDOW", id) = Window
    BY DEF WindowKept
  <2>2. /\ s.credit + Bytes(out, "DATA", id) + r.owes + Bytes(in, "WINDOW", id) = Window
        /\ r.credit + Bytes(in, "DATA", id) + SumOf(s.inbound) + Bytes(out, "WINDOW", id) = Window
    BY <2>1 DEF StreamSound, WindowKept
  <2>3. Bytes(out, "WINDOW", id) \in Nat /\ Bytes(out, "DATA", id) \in Nat
    BY BytesTyped
  <2>4. s.credit \in Nat /\ SumOf(s.inbound) \in Nat
    <3>1. s \in Streams
      BY <2>1, LiveFacts
    <3>2. s.inbound \in Seq(Nat) /\ s.credit \in Nat
      BY <3>1, RelayAssumption DEF Streams
    <3> QED
      BY <3>2, SumTyped
  <2>5. s.credit + Bytes(out, "DATA", id) + q.owes + Bytes(Append(in, f), "WINDOW", id) = Window
    <3>1. q.owes + Bytes(Append(in, f), "WINDOW", id) = r.owes + Bytes(in, "WINDOW", id)
      BY <1>6, <1>7, <1>9, <1>10
    <3>2. PICK a, b, c, d : /\ a = s.credit /\ b = Bytes(out, "DATA", id) /\ c = q.owes
                            /\ d = Bytes(Append(in, f), "WINDOW", id)
      OBVIOUS
    <3>3. a \in Nat /\ b \in Nat /\ c \in Nat /\ d \in Nat
      BY <1>6, <1>7, <1>9, <2>3, <2>4, <3>2
    <3>4. PICK e, g : e = r.owes /\ g = Bytes(in, "WINDOW", id)
      OBVIOUS
    <3>5. e \in Nat /\ g \in Nat /\ c + d = e + g /\ a + b + e + g = Window
      BY <1>6, <1>9, <1>10, <2>2, <3>1, <3>2, <3>4
    <3>6. a + b + c + d = Window
      BY <3>3, <3>5
    <3> QED
      BY <3>2, <3>6
  <2>6. q.credit + Bytes(Append(in, f), "DATA", id) + SumOf(s.inbound) + Bytes(out, "WINDOW", id) = Window
    <3>1. q.credit + Bytes(Append(in, f), "DATA", id) = r.credit + Bytes(in, "DATA", id)
      BY <1>6, <1>8, <1>9, <1>10
    <3>2. PICK e, g : e = q.credit + Bytes(Append(in, f), "DATA", id) /\ g = r.credit + Bytes(in, "DATA", id)
      OBVIOUS
    <3>3. g + SumOf(s.inbound) + Bytes(out, "WINDOW", id) = Window
      BY <2>2, <3>2
    <3> QED
      BY <3>1, <3>2, <3>3
  <2> QED
    BY <2>5, <2>6
<1>13. ComesOut(id, s, Final(id, Core(q), out), w, Append(in, f))
  <2>1. PICK v : v = Final(id, Core(r), out)
    OBVIOUS
  <2>2. ComesOut(id, s, v, w, in)
    BY <2>1 DEF StreamSound
  <2>3. ComesOut(id, s, v, w, Append(in, f))
    BY <1>2, <2>2 DEF ComesOut
  <2> QED
    BY <2>1, <2>3
<1> QED
  BY <1>2, <1>3, <1>4, <1>11, <1>12, <1>13 DEF StreamSound

LEMMA RelayResetsSound ==
  ASSUME NEW id, NEW s, NEW r, NEW w, NEW out \in Seq(Frames), NEW in \in Seq(Frames),
         StreamSound(id, s, r, w, out, in), r.st \in {"open", "headed"},
         NEW f \in Frames, f.id = id, f.type = "RESET",
         NEW q \in Remotes, q = [r EXCEPT !.st = "closed"]
  PROVE  StreamSound(id, s, q, w, out, Append(in, f))
<1>0. r \in Remotes /\ w \in Seq(Nat) /\ ~r.over
  BY DEF StreamSound, StreamTyped
<1>1. q.st = "closed" /\ q.part = r.part /\ q.got = r.got /\ q.over = r.over
      /\ q.credit = r.credit /\ q.owes = r.owes
  BY <1>0 DEF Remotes
<1>2. OpenComesFirst(id, Append(in, f)) /\ (Opens(id, Append(in, f)) <=> Opens(id, in))
  <2>1. OpenComesFirst(id, in)
    BY DEF StreamSound
  <2> QED
    BY <2>1, InAppend
<1>3. StreamTyped(s, q, w) /\ ResetMeansClosed(id, q, Append(in, f)) /\ UnansweredSentNothing(s)
  BY <1>1 DEF StreamSound, StreamTyped, ResetMeansClosed
<1>4. UnopenedIsNew(id, s, q, w, out, Append(in, f)) /\ WindowKept(id, s, q, out, Append(in, f))
  BY <1>1 DEF UnopenedIsNew, WindowKept
<1>5. OpeningIsNew(id, s, q, w, out, Append(in, f))
  <2>1. Share(f, "WINDOW", id) = 0 /\ Share(f, "DATA", id) = 0
    BY DEF Share
  <2>2. Bytes(Append(in, f), "WINDOW", id) = Bytes(in, "WINDOW", id) + Share(f, "WINDOW", id)
    BY BytesAppend
  <2>3. Bytes(Append(in, f), "DATA", id) = Bytes(in, "DATA", id) + Share(f, "DATA", id)
    BY BytesAppend
  <2>4. Bytes(in, "WINDOW", id) \in Nat /\ Bytes(in, "DATA", id) \in Nat
    BY BytesTyped
  <2>5. Bytes(Append(in, f), "WINDOW", id) = Bytes(in, "WINDOW", id)
        /\ Bytes(Append(in, f), "DATA", id) = Bytes(in, "DATA", id)
    BY <2>1, <2>2, <2>3, <2>4
  <2> QED
    BY <1>1, <1>2, <2>5 DEF OpeningIsNew, StreamSound
<1>6. ComesOut(id, s, Final(id, Core(q), out), w, Append(in, f))
  <2>1. PICK v \in Views : v = Final(id, Core(r), out)
    BY <1>0, CoreTyped, FinalTyped
  <2>2. ComesOut(id, s, v, w, in)
    BY <2>1 DEF StreamSound
  <2>3. PICK u : u = Core(q)
    OBVIOUS
  <2>4. u.st = "closed" /\ u.got = r.got /\ ~u.over
    BY <1>0, <1>1, <2>3, CoreTyped
  <2>5. Final(id, Core(q), out) = u
    BY <2>3, <2>4, CoreTyped, FinalOfClosed
  <2>6. Extends(w, r.got)
    <3>1. r.got \in Seq(Nat) /\ v.got \in Seq(Nat) /\ Core(r).got = r.got /\ Core(r) \in Views
      BY <1>0, CoreTyped DEF Remotes, Views
    <3>2. Extends(v.got, r.got)
      BY <2>1, <3>1, FinalGrows
    <3>3. Extends(w, v.got)
      BY <2>2 DEF ComesOut
    <3> QED
      BY <1>0, <3>1, <3>2, <3>3, ExtendsFacts
  <2>7. ComesOut(id, s, u, w, Append(in, f))
    BY <2>4, <2>6 DEF ComesOut
  <2> QED
    BY <2>5, <2>7
<1> QED
  BY <1>0, <1>1, <1>2, <1>3, <1>4, <1>5, <1>6 DEF StreamSound

\* What the relay makes of a frame, as RelayTakes has it.
Told(r, f) ==
  IF r.st = "closed" THEN r
  ELSE CASE f.type = "HEAD" -> [r EXCEPT !.st = IF f.last THEN "headed" ELSE "closed"]
         [] f.type = "DATA" ->
              [r EXCEPT !.owes = @ + f.n,
                        !.part = IF f.last THEN 0 ELSE @ + f.n,
                        !.got = IF f.last THEN Append(@, r.part + f.n) ELSE @]
         [] f.type = "WINDOW" -> [r EXCEPT !.credit = @ + f.n]
         [] f.type = "END" -> [r EXCEPT !.st = "closed", !.over = TRUE]
         [] OTHER -> [r EXCEPT !.st = "closed"]

LEMMA CoreIs ==
  ASSUME NEW a \in Remotes, NEW v \in Views, a.st = v.st, a.part = v.part, a.got = v.got,
         a.over = v.over
  PROVE  Core(a) = v
BY DEF Core, Views

LEMMA ToldFacts ==
  ASSUME NEW r \in Remotes, NEW f \in Frames, NEW q, q = Told(r, f)
  PROVE  /\ q \in Remotes
         /\ Core(q) = Taken(Core(r), f)
         /\ r.st # "idle" => q.st # "idle"
         /\ (r.over => r.st = "closed") => (q.over => q.st = "closed")
         /\ r.st = "closed" => q.st = "closed"
         /\ q.st # "closed" =>
              /\ q.credit = r.credit + (IF f.type = "WINDOW" THEN f.n ELSE 0)
              /\ q.owes = r.owes + (IF f.type = "DATA" THEN f.n ELSE 0)
<1>0. PICK c \in Views : c = Core(r) /\ c.st = r.st /\ c.part = r.part /\ c.got = r.got /\ c.over = r.over
  BY CoreTyped
<1>1. CASE r.st = "closed"
  BY <1>0, <1>1 DEF Told, Taken
<1>2. CASE r.st # "closed" /\ f.type = "HEAD"
  <2>1. PICK t \in {"headed", "closed"} : t = IF f.last THEN "headed" ELSE "closed"
    OBVIOUS
  <2>2. q = [r EXCEPT !.st = t]
    BY <1>2, <2>1 DEF Told
  <2>3. q \in Remotes /\ q.st = t /\ q.part = r.part /\ q.got = r.got /\ q.over = r.over
        /\ q.credit = r.credit /\ q.owes = r.owes
    BY <2>2 DEF Remotes, RemoteStates
  <2>4. PICK u \in Views : u = Taken(c, f)
    BY TakenTyped
  <2>5. u = [c EXCEPT !.st = t]
    BY <1>0, <1>2, <2>1, <2>4 DEF Taken
  <2>6. u.st = t /\ u.part = c.part /\ u.got = c.got /\ u.over = c.over
    BY <2>5 DEF Views
  <2>7. Core(q) = u
    BY <1>0, <2>3, <2>6, CoreIs
  <2>8. q.credit \in Nat /\ q.owes \in Nat
    BY <2>3 DEF Remotes
  <2> QED
    BY <1>0, <1>2, <2>1, <2>3, <2>4, <2>7, <2>8
<1>3. CASE r.st # "closed" /\ f.type = "DATA"
  <2>1. f.n \in Nat /\ r.part \in Nat /\ r.got \in Seq(Nat) /\ r.owes \in Nat /\ r.credit \in Nat
    BY DEF Frames, Remotes
  <2>2. PICK p, g : /\ p = IF f.last THEN 0 ELSE r.part + f.n
                    /\ g = IF f.last THEN Append(r.got, r.part + f.n) ELSE r.got
    OBVIOUS
  <2>3. p \in Nat /\ g \in Seq(Nat)
    BY <2>1, <2>2
  <2>4. q = [r EXCEPT !.owes = r.owes + f.n, !.part = p, !.got = g]
    BY <1>3, <2>2 DEF Told
  <2>5. PICK m \in Nat : m = r.owes + f.n
    BY <2>1
  <2>6. q = [r EXCEPT !.owes = m, !.part = p, !.got = g]
    BY <2>4, <2>5
  <2>7. q \in Remotes
    BY <2>3, <2>6 DEF Remotes, RemoteStates
  <2>8. q.st = r.st /\ q.part = p /\ q.got = g /\ q.over = r.over /\ q.credit = r.credit /\ q.owes = m
    BY <2>6 DEF Remotes
  <2>9. PICK u \in Views : u = Taken(c, f)
    BY TakenTyped
  <2>10. u = [c EXCEPT !.part = p, !.got = g]
    BY <1>0, <1>3, <2>2, <2>9 DEF Taken
  <2>11. u.st = c.st /\ u.part = p /\ u.got = g /\ u.over = c.over
    BY <2>10 DEF Views
  <2>12. Core(q) = u
    BY <1>0, <2>7, <2>8, <2>11, CoreIs
  <2>13. q.credit = r.credit + (IF f.type = "WINDOW" THEN f.n ELSE 0)
         /\ q.owes = r.owes + (IF f.type = "DATA" THEN f.n ELSE 0)
    BY <1>3, <2>1, <2>5, <2>8
  <2> QED
    BY <1>0, <1>3, <2>7, <2>8, <2>9, <2>12, <2>13
<1>4. CASE r.st # "closed" /\ f.type = "WINDOW"
  <2>1. r.credit \in Nat /\ f.n \in Nat /\ r.owes \in Nat
    BY DEF Remotes, Frames
  <2>2. PICK m \in Nat : m = r.credit + f.n
    BY <2>1
  <2>3. q = [r EXCEPT !.credit = m]
    BY <1>4, <2>2 DEF Told
  <2>4. q \in Remotes
    BY <2>3 DEF Remotes, RemoteStates
  <2>5. q.st = r.st /\ q.part = r.part /\ q.got = r.got /\ q.over = r.over /\ q.credit = m /\ q.owes = r.owes
    BY <2>3 DEF Remotes
  <2>6. Taken(c, f) = c
    BY <1>4 DEF Taken
  <2>7. Core(q) = c
    BY <1>0, <2>4, <2>5, CoreIs
  <2> QED
    BY <1>0, <1>4, <2>1, <2>2, <2>4, <2>5, <2>6, <2>7
<1>5. CASE r.st # "closed" /\ f.type = "END"
  <2>1. q = [r EXCEPT !.st = "closed", !.over = TRUE]
    BY <1>5 DEF Told
  <2>2. q \in Remotes
    BY <2>1 DEF Remotes, RemoteStates
  <2>3. q.st = "closed" /\ q.part = r.part /\ q.got = r.got /\ q.over = TRUE
    BY <2>1 DEF Remotes
  <2>4. PICK u \in Views : u = Taken(c, f)
    BY TakenTyped
  <2>5. u = [c EXCEPT !.st = "closed", !.over = TRUE]
    BY <1>0, <1>5, <2>4 DEF Taken
  <2>6. u.st = "closed" /\ u.part = c.part /\ u.got = c.got /\ u.over = TRUE
    BY <2>5 DEF Views
  <2>7. Core(q) = u
    BY <1>0, <2>2, <2>3, <2>6, CoreIs
  <2> QED
    BY <1>0, <2>2, <2>3, <2>4, <2>7
<1>6. CASE r.st # "closed" /\ f.type \notin {"HEAD", "DATA", "WINDOW", "END"}
  <2>1. q = [r EXCEPT !.st = "closed"]
    BY <1>6 DEF Told
  <2>2. q \in Remotes
    BY <2>1 DEF Remotes, RemoteStates
  <2>3. q.st = "closed" /\ q.part = r.part /\ q.got = r.got /\ q.over = r.over
    BY <2>1 DEF Remotes
  <2>4. PICK u \in Views : u = Taken(c, f)
    BY TakenTyped
  <2>5. u = [c EXCEPT !.st = "closed"]
    BY <1>0, <1>6, <2>4 DEF Taken
  <2>6. u.st = "closed" /\ u.part = c.part /\ u.got = c.got /\ u.over = c.over
    BY <2>5 DEF Views
  <2>7. Core(q) = u
    BY <1>0, <2>2, <2>3, <2>6, CoreIs
  <2> QED
    BY <1>0, <2>2, <2>3, <2>4, <2>7
<1> QED
  BY <1>1, <1>2, <1>3, <1>4, <1>5, <1>6

\* The relay takes a frame of the stream off the wire.
LEMMA RelayTakesSound ==
  ASSUME NEW id, NEW s, NEW r, NEW w, NEW out \in Seq(Frames), NEW in \in Seq(Frames),
         StreamSound(id, s, r, w, out, in), out # <<>>, Head(out).id = id,
         NEW q, q = Told(r, Head(out))
  PROVE  StreamSound(id, s, q, w, Tail(out), in)
<1>1. PICK f \in Frames : f = Head(out)
  BY TailParts
<1>2. r \in Remotes /\ (r.over => r.st = "closed") /\ OpenComesFirst(id, in)
  BY DEF StreamSound, StreamTyped
<1>3. ~NoneOf(id, out)
  BY TailParts DEF NoneOf
<1>4. r.st # "idle" /\ ~Opens(id, in)
  BY <1>3 DEF StreamSound, UnopenedIsNew, OpeningIsNew
<1>5. q \in Remotes /\ q.st # "idle" /\ (q.over => q.st = "closed")
  BY <1>1, <1>2, <1>4, ToldFacts
<1>6. Core(q) = Taken(Core(r), f)
  BY <1>1, <1>2, ToldFacts
<1>7. /\ r.st = "closed" => q.st = "closed"
      /\ q.st # "closed" =>
              /\ q.credit = r.credit + (IF f.type = "WINDOW" THEN f.n ELSE 0)
              /\ q.owes = r.owes + (IF f.type = "DATA" THEN f.n ELSE 0)
  BY <1>1, <1>2, ToldFacts
<1>8. PICK rest \in Seq(Frames) : rest = Tail(out)
  BY TailParts
<1>9. StreamTyped(s, q, w) /\ ResetMeansClosed(id, q, in) /\ UnansweredSentNothing(s)
  BY <1>5, <1>7 DEF StreamSound, StreamTyped, ResetMeansClosed
<1>10. UnopenedIsNew(id, s, q, w, rest, in) /\ OpeningIsNew(id, s, q, w, rest, in)
  BY <1>4, <1>5 DEF UnopenedIsNew, OpeningIsNew
<1>11. WindowKept(id, s, q, rest, in)
  <2>1. SUFFICES ASSUME s # NoStream, q.st \in {"open", "headed"}
                 PROVE  /\ s.credit + Bytes(rest, "DATA", id) + q.owes + Bytes(in, "WINDOW", id) = Window
                        /\ q.credit + Bytes(in, "DATA", id) + SumOf(s.inbound) + Bytes(rest, "WINDOW", id) = Window
    BY DEF WindowKept
  <2>2. r.st \in {"open", "headed"}
    BY <1>2, <1>4, <1>7, <2>1 DEF Remotes, RemoteStates
  <2>3. /\ s.credit + Bytes(out, "DATA", id) + r.owes + Bytes(in, "WINDOW", id) = Window
        /\ r.credit + Bytes(in, "DATA", id) + SumOf(s.inbound) + Bytes(out, "WINDOW", id) = Window
    BY <2>1, <2>2 DEF StreamSound, WindowKept
  <2>4. PICK x, y : x = Share(f, "WINDOW", id) /\ y = Share(f, "DATA", id)
    OBVIOUS
  <2>5. x \in Nat /\ y \in Nat
    BY <2>4 DEF Share, Frames
  <2>6. q.credit = r.credit + x /\ q.owes = r.owes + y
    <3>1. x = (IF f.type = "WINDOW" THEN f.n ELSE 0) /\ y = (IF f.type = "DATA" THEN f.n ELSE 0)
      BY <1>1, <2>4 DEF Share
    <3>2. q.st # "closed"
      BY <2>1
    <3> QED
      BY <1>7, <3>1, <3>2
  <2>7. Bytes(out, "WINDOW", id) = x + Bytes(rest, "WINDOW", id)
    BY <1>1, <1>8, <2>4, BytesHead
  <2>8. Bytes(out, "DATA", id) = y + Bytes(rest, "DATA", id)
    BY <1>1, <1>8, <2>4, BytesHead
  <2>9. Bytes(rest, "WINDOW", id) \in Nat /\ Bytes(rest, "DATA", id) \in Nat
    BY BytesTyped
  <2>10. Bytes(in, "WINDOW", id) \in Nat /\ Bytes(in, "DATA", id) \in Nat
    BY BytesTyped
  <2>11. s.credit \in Nat /\ SumOf(s.inbound) \in Nat
    <3>1. s \in Streams
      BY <2>1, LiveFacts
    <3>2. s.inbound \in Seq(Nat) /\ s.credit \in Nat
      BY <3>1, RelayAssumption DEF Streams
    <3> QED
      BY <3>2, SumTyped
  <2>12. r.credit \in Nat /\ r.owes \in Nat
    BY <1>2 DEF Remotes
  <2>13. PICK a, b, c, d : /\ a = s.credit /\ b = Bytes(rest, "DATA", id) /\ c = r.owes
                           /\ d = Bytes(in, "WINDOW", id)
    OBVIOUS
  <2>14. a + b + (c + y) + d = Window
    <3>1. a \in Nat /\ b \in Nat /\ c \in Nat /\ d \in Nat
      BY <2>9, <2>10, <2>11, <2>12, <2>13
    <3>2. a + (y + b) + c + d = Window
      BY <2>3, <2>8, <2>13
    <3> QED
      BY <2>5, <3>1, <3>2
  <2>15. s.credit + Bytes(rest, "DATA", id) + q.owes + Bytes(in, "WINDOW", id) = Window
    BY <2>6, <2>13, <2>14
  <2>16. PICK e, g, h, k : /\ e = r.credit /\ g = Bytes(in, "DATA", id) /\ h = SumOf(s.inbound)
                           /\ k = Bytes(rest, "WINDOW", id)
    OBVIOUS
  <2>17. (e + x) + g + h + k = Window
    <3>1. e \in Nat /\ g \in Nat /\ h \in Nat /\ k \in Nat
      BY <2>9, <2>10, <2>11, <2>12, <2>16
    <3>2. e + g + h + (x + k) = Window
      BY <2>3, <2>7, <2>16
    <3> QED
      BY <2>5, <3>1, <3>2
  <2>18. q.credit + Bytes(in, "DATA", id) + SumOf(s.inbound) + Bytes(rest, "WINDOW", id) = Window
    BY <2>6, <2>16, <2>17
  <2> QED
    BY <2>15, <2>18
<1>12. ComesOut(id, s, Final(id, Core(q), rest), w, in)
  <2>1. PICK c \in Views : c = Core(r)
    BY <1>2, CoreTyped
  <2>2. Final(id, c, out) = Final(id, IF Head(out).id = id THEN Taken(c, Head(out)) ELSE c, Tail(out))
    BY FinalHead
  <2>3. Final(id, Core(q), rest) = Final(id, Core(r), out)
    BY <1>1, <1>6, <1>8, <2>1, <2>2
  <2> QED
    BY <2>3 DEF StreamSound
<1> QED
  BY <1>2, <1>5, <1>8, <1>9, <1>10, <1>11, <1>12 DEF StreamSound

-----------------------------------------------------------------------------
(* Steps of one stream.                                                    *)

\* g is f but for what it gives id.
OnlyOf(id, f, g, x) ==
  /\ DOMAIN g = RelayStreams /\ g[id] = x
  /\ \A o \in RelayStreams : o # id => g[o] = f[o]

LEMMA OnlyOfFacts ==
  ASSUME NEW id \in RelayStreams, NEW f, DOMAIN f = RelayStreams
  PROVE  /\ OnlyOf(id, f, f, f[id])
         /\ \A x : OnlyOf(id, f, [f EXCEPT ![id] = x], x)
BY DEF OnlyOf

Leaves(id, out, in, out2, in2) ==
  \A o \in RelayStreams : o # id => Same(o, out, out2) /\ SameIn(o, in, in2)

LEMMA FramesAre ==
  ASSUME NEW type \in FrameTypes, NEW id \in RelayStreams, NEW n \in Nat, NEW last \in BOOLEAN
  PROVE  /\ Frame(type, id, n, last) \in Frames
         /\ Frame(type, id, n, last).type = type /\ Frame(type, id, n, last).id = id
         /\ Frame(type, id, n, last).n = n /\ Frame(type, id, n, last).last = last
BY DEF Frame, Frames

LEMMA PlainsAre ==
  ASSUME NEW type \in FrameTypes, NEW id \in RelayStreams
  PROVE  /\ Plain(type, id) \in Frames
         /\ Plain(type, id).type = type /\ Plain(type, id).id = id
         /\ Plain(type, id).n = 0 /\ Plain(type, id).last
BY DEF Plain, Frame, Frames

LEMMA StreamMoves ==
  ASSUME RelayIInv, tunnel = "attached", UNCHANGED connectorVars,
         NEW id \in RelayStreams, NEW s, NEW r, NEW w,
         OnlyOf(id, stream, stream', s), OnlyOf(id, remote, remote', r), OnlyOf(id, wrote, wrote', w),
         toRelay' \in Seq(Frames), toUs' \in Seq(Frames),
         StreamSound(id, s, r, w, toRelay', toUs'),
         Leaves(id, toRelay, toUs, toRelay', toUs')
  PROVE  RelayIInv'
<1>1. ASSUME NEW o \in RelayStreams
      PROVE  StreamSound(o, stream'[o], remote'[o], wrote'[o], toRelay', toUs')
  <2>1. CASE o = id
    BY <2>1 DEF OnlyOf
  <2>2. CASE o # id
    <3>1. StreamSound(o, stream[o], remote[o], wrote[o], toRelay, toUs)
      BY DEF RelayIInv
    <3>2. stream'[o] = stream[o] /\ remote'[o] = remote[o] /\ wrote'[o] = wrote[o]
      BY <2>2 DEF OnlyOf
    <3>3. Same(o, toRelay, toRelay') /\ SameIn(o, toUs, toUs')
      BY <2>2 DEF Leaves
    <3> QED
      BY <3>1, <3>2, <3>3, SoundApart
  <2> QED
    BY <2>1, <2>2
<1>2. TunnelSound'
  <2>1. TunnelSound
    BY DEF RelayIInv
  <2>2. tunnel' = "attached" /\ UNCHANGED <<tunnel, retryArmed, relayStopped, tunnels>>
    BY DEF connectorVars
  <2>3. RelayTypeOK'
    <3>1. ASSUME NEW o \in RelayStreams, stream'[o] # NoStream
          PROVE  stream'[o].credit \in 0..Window
      BY <1>1, <3>1 DEF StreamSound, StreamTyped, Streams
    <3> QED
      BY <2>1, <2>2, <3>1 DEF TunnelSound, RelayTypeOK, Live
  <2>4. AlwaysOneTunnel'
    BY <2>1, <2>2 DEF TunnelSound, AlwaysOneTunnel
  <2> QED
    BY <2>1, <2>2, <2>3, <2>4 DEF TunnelSound
<1> QED
  BY <1>1, <1>2 DEF RelayIInv, OnlyOf

\* What RelayIInv says of one stream.
LEMMA OfStream ==
  ASSUME RelayIInv, NEW id \in RelayStreams
  PROVE  /\ StreamSound(id, stream[id], remote[id], wrote[id], toRelay, toUs)
         /\ toRelay \in Seq(Frames) /\ toUs \in Seq(Frames)
         /\ OnlyOf(id, stream, stream, stream[id]) /\ OnlyOf(id, remote, remote, remote[id])
         /\ OnlyOf(id, wrote, wrote, wrote[id])
         /\ \A x : OnlyOf(id, stream, [stream EXCEPT ![id] = x], x)
         /\ \A x : OnlyOf(id, remote, [remote EXCEPT ![id] = x], x)
         /\ \A x : OnlyOf(id, wrote, [wrote EXCEPT ![id] = x], x)
<1>1. DOMAIN stream = RelayStreams /\ DOMAIN remote = RelayStreams /\ DOMAIN wrote = RelayStreams
  BY DEF RelayIInv
<1> QED
  BY <1>1, OnlyOfFacts DEF RelayIInv

LEMMA LeavesFacts ==
  ASSUME NEW id \in RelayStreams, NEW out \in Seq(Frames), NEW in \in Seq(Frames)
  PROVE  /\ Leaves(id, out, in, out, in)
         /\ \A f \in Frames : f.id = id =>
              /\ Append(out, f) \in Seq(Frames) /\ Append(in, f) \in Seq(Frames)
              /\ Leaves(id, out, in, Append(out, f), in)
              /\ Leaves(id, out, in, out, Append(in, f))
         /\ in # <<>> /\ Head(in).id = id =>
              /\ Tail(in) \in Seq(Frames)
              /\ Leaves(id, out, in, out, Tail(in))
              /\ \A f \in Frames : f.id = id => Leaves(id, out, in, Append(out, f), Tail(in))
         /\ out # <<>> /\ Head(out).id = id =>
              Tail(out) \in Seq(Frames) /\ Leaves(id, out, in, Tail(out), in)
<1>1. ASSUME NEW o PROVE Same(o, out, out) /\ SameIn(o, in, in)
  BY SameIsSame DEF SameIn
<1>2. ASSUME NEW f \in Frames, f.id = id, NEW o \in RelayStreams, o # id
      PROVE  Same(o, out, Append(out, f)) /\ SameIn(o, in, Append(in, f))
  BY <1>2, SameAfterAppend, SameInAfterAppend
<1>3. ASSUME in # <<>>, Head(in).id = id, NEW o \in RelayStreams, o # id
      PROVE  SameIn(o, in, Tail(in))
  BY <1>3, SameInAfterTail
<1>4. ASSUME out # <<>>, Head(out).id = id, NEW o \in RelayStreams, o # id
      PROVE  Same(o, out, Tail(out))
  BY <1>4, SameAfterTail
<1>5. Leaves(id, out, in, out, in)
  BY <1>1 DEF Leaves
<1>6. ASSUME NEW f \in Frames, f.id = id
      PROVE  /\ Append(out, f) \in Seq(Frames) /\ Append(in, f) \in Seq(Frames)
             /\ Leaves(id, out, in, Append(out, f), in)
             /\ Leaves(id, out, in, out, Append(in, f))
  <2>1. Append(out, f) \in Seq(Frames) /\ Append(in, f) \in Seq(Frames)
    OBVIOUS
  <2> QED
    BY <1>1, <1>2, <1>6, <2>1 DEF Leaves
<1>7. ASSUME in # <<>>, Head(in).id = id
      PROVE  /\ Tail(in) \in Seq(Frames)
             /\ Leaves(id, out, in, out, Tail(in))
             /\ \A f \in Frames : f.id = id => Leaves(id, out, in, Append(out, f), Tail(in))
  <2>1. Tail(in) \in Seq(Frames)
    BY <1>7, TailParts
  <2>2. Leaves(id, out, in, out, Tail(in))
    BY <1>1, <1>3, <1>7 DEF Leaves
  <2>3. \A f \in Frames : f.id = id => Leaves(id, out, in, Append(out, f), Tail(in))
    BY <1>2, <1>3, <1>7 DEF Leaves
  <2> QED
    BY <2>1, <2>2, <2>3
<1>8. ASSUME out # <<>>, Head(out).id = id
      PROVE  Tail(out) \in Seq(Frames) /\ Leaves(id, out, in, Tail(out), in)
  <2>1. Tail(out) \in Seq(Frames)
    BY <1>8, TailParts
  <2> QED
    BY <1>1, <1>4, <1>8, <2>1 DEF Leaves
<1> QED
  BY <1>5, <1>6, <1>7, <1>8

LEMMA SendOnSound ==
  ASSUME RelayIInv, tunnel = "attached", UNCHANGED connectorVars,
         NEW id \in RelayStreams, stream[id] # NoStream, NEW queue, NEW credit,
         NEW t, t = [stream[id] EXCEPT !.queue = queue, !.credit = credit],
         NEW w, OnlyOf(id, wrote, wrote', w), remote' = remote,
         toUs' \in Seq(Frames), \A o \in RelayStreams : o # id => SameIn(o, toUs, toUs'),
         StreamSound(id, t, remote[id], w, toRelay, toUs'),
         SendOn(id, queue, credit)
  PROVE  RelayIInv'
<1>1. StreamSound(id, stream[id], remote[id], wrote[id], toRelay, toUs)
      /\ toRelay \in Seq(Frames) /\ OnlyOf(id, remote, remote, remote[id])
  BY OfStream
<1>2. stream[id] \in Streams
  BY <1>1, LiveFacts
<1>3. t.queue = queue /\ t.credit = credit /\ t.ending = stream[id].ending /\ t.kind = stream[id].kind
  BY <1>2 DEF Streams
<1>4. t # NoStream
  BY <1>2, <1>3 DEF Streams, NoStream
<1>5. PICK f : f = Flushed(id, queue, credit)
  OBVIOUS
<1>6. f = Flushed(id, t.queue, t.credit)
  BY <1>3, <1>5
<1>7. PICK u : u = [t EXCEPT !.queue = f.queue, !.credit = f.credit]
  OBVIOUS
<1>8. /\ toRelay \o f.frames \in Seq(Frames)
      /\ SendsApart(id, toRelay, f)
      /\ u.queue = f.queue /\ u # NoStream
  <2>1. toRelay \o f.frames \in Seq(Frames) /\ SendsApart(id, toRelay, f)
    BY <1>1, <1>4, <1>6, FlushSound
  <2>2. u.queue = f.queue /\ u.kind = stream[id].kind
    BY <1>2, <1>7 DEF Streams
  <2>3. u # NoStream
    BY <1>2, <2>2 DEF Streams, NoStream
  <2> QED
    BY <2>1, <2>2, <2>3
<1>9. StreamSound(id, u, remote[id], w, toRelay \o f.frames, toUs')
  BY <1>1, <1>4, <1>6, <1>7, FlushSound
<1>10. PICK out \in Seq(Frames) : out = toRelay \o f.frames
  BY <1>8
<1>11. \A o \in RelayStreams : o # id => Same(o, toRelay, out)
  BY <1>8, <1>10 DEF SendsApart
<1>12. CASE f.queue = <<>> /\ stream[id].ending
  <2>1. PICK e : e = Plain("END", id)
    OBVIOUS
  <2>2. e \in Frames /\ e.id = id /\ e.type = "END"
    BY <2>1, PlainsAre DEF FrameTypes
  <2>3. toRelay' = toRelay \o f.frames \o <<e>> /\ stream' = [stream EXCEPT ![id] = NoStream]
    BY <1>5, <1>12, <2>1 DEF SendOn
  <2>4. toRelay' = Append(out, e)
    BY <1>10, <2>2, <2>3, AppendIsConcat
  <2>5. OnlyOf(id, stream, stream', NoStream)
    BY <2>3, OfStream
  <2>6. StreamSound(id, NoStream, remote[id], w, toRelay', toUs')
    BY <1>8, <1>9, <1>10, <1>12, <2>2, <2>4, GoneWithEnd
  <2>7. toRelay' \in Seq(Frames)
    BY <2>2, <2>4
  <2>8. \A o \in RelayStreams : o # id => Same(o, toRelay, toRelay')
    BY <1>11, <2>2, <2>4, SameAfterAppend, SameIsSame
  <2>9. Leaves(id, toRelay, toUs, toRelay', toUs')
    BY <2>8 DEF Leaves
  <2> QED
    BY <1>1, <2>5, <2>6, <2>7, <2>9, StreamMoves
<1>13. CASE ~(f.queue = <<>> /\ stream[id].ending)
  <2>1. toRelay' = out
        /\ stream' = [stream EXCEPT ![id].queue = f.queue, ![id].credit = f.credit]
    BY <1>5, <1>10, <1>13 DEF SendOn
  <2>2. DOMAIN stream = RelayStreams
    BY DEF RelayIInv
  <2>3. stream'[id] = [[stream[id] EXCEPT !.queue = f.queue] EXCEPT !.credit = f.credit]
    BY <2>1, <2>2
  <2>4. stream'[id] = u
    <3>1. u = [[t EXCEPT !.queue = f.queue] EXCEPT !.credit = f.credit]
      BY <1>7
    <3> QED
      BY <1>2, <2>3, <3>1 DEF Streams
  <2>5. OnlyOf(id, stream, stream', u)
    BY <2>1, <2>2, <2>4 DEF OnlyOf
  <2>6. StreamSound(id, u, remote[id], w, toRelay', toUs')
    BY <1>9, <1>10, <2>1
  <2>7. toRelay' \in Seq(Frames)
    BY <2>1
  <2>8. Leaves(id, toRelay, toUs, toRelay', toUs')
    BY <1>11, <2>1 DEF Leaves
  <2> QED
    BY <1>1, <2>5, <2>6, <2>7, <2>8, StreamMoves
<1> QED
  BY <1>12, <1>13

-----------------------------------------------------------------------------
(* The steps of the relay.                                                 *)

LEMMA RelaySendsStep ==
  ASSUME RelayIInv, NEW id \in RelayStreams, NEW f \in Frames, f.id = id, RelaySends(id, f),
         NEW q, remote' = [remote EXCEPT ![id] = q],
         StreamSound(id, stream[id], q, wrote[id], toRelay, Append(toUs, f))
  PROVE  RelayIInv'
<1>1. tunnel = "attached" /\ toUs' = Append(toUs, f)
      /\ UNCHANGED <<connectorVars, toRelay, stream, wrote>>
  BY DEF RelaySends
<1>2. /\ toRelay \in Seq(Frames) /\ toUs \in Seq(Frames)
      /\ OnlyOf(id, stream, stream', stream[id]) /\ OnlyOf(id, wrote, wrote', wrote[id])
      /\ OnlyOf(id, remote, remote', q)
  BY <1>1, OfStream
<1>3. toUs' \in Seq(Frames) /\ Leaves(id, toRelay, toUs, toRelay', toUs')
  BY <1>1, <1>2, LeavesFacts
<1> QED
  BY <1>1, <1>2, <1>3, StreamMoves

LEMMA RelayOpensStep ==
  ASSUME RelayIInv, NEW id \in RelayStreams, RelayOpens(id)
  PROVE  RelayIInv'
<1>1. PICK f \in Frames : f = Plain("OPEN", id) /\ f.id = id /\ f.type = "OPEN"
  BY PlainsAre DEF FrameTypes
<1>2. StreamSound(id, stream[id], remote[id], wrote[id], toRelay, toUs)
      /\ toRelay \in Seq(Frames) /\ toUs \in Seq(Frames)
  BY OfStream
<1>3. remote[id] \in Remotes
  BY <1>2 DEF StreamSound, StreamTyped
<1>4. PICK q \in Remotes : q = [remote[id] EXCEPT !.st = "open"]
  BY <1>3 DEF Remotes, RemoteStates
<1>5. remote[id].st = "idle" /\ RelaySends(id, f) /\ remote' = [remote EXCEPT ![id] = q]
  BY <1>1, <1>4 DEF RelayOpens
<1>6. StreamSound(id, stream[id], q, wrote[id], toRelay, Append(toUs, f))
  BY <1>1, <1>2, <1>4, <1>5, RelayOpensSound
<1> QED
  BY <1>1, <1>5, <1>6, RelaySendsStep

LEMMA RelayResetsStep ==
  ASSUME RelayIInv, NEW id \in RelayStreams, RelayResets(id)
  PROVE  RelayIInv'
<1>1. PICK f \in Frames : f = Plain("RESET", id) /\ f.id = id /\ f.type = "RESET"
  BY PlainsAre DEF FrameTypes
<1>2. StreamSound(id, stream[id], remote[id], wrote[id], toRelay, toUs)
      /\ toRelay \in Seq(Frames) /\ toUs \in Seq(Frames)
  BY OfStream
<1>3. remote[id] \in Remotes
  BY <1>2 DEF StreamSound, StreamTyped
<1>4. PICK q \in Remotes : q = [remote[id] EXCEPT !.st = "closed"]
  BY <1>3 DEF Remotes, RemoteStates
<1>5. remote[id].st \in {"open", "headed"} /\ RelaySends(id, f) /\ remote' = [remote EXCEPT ![id] = q]
  BY <1>1, <1>4 DEF RelayResets
<1>6. StreamSound(id, stream[id], q, wrote[id], toRelay, Append(toUs, f))
  BY <1>1, <1>2, <1>4, <1>5, RelayResetsSound
<1> QED
  BY <1>1, <1>5, <1>6, RelaySendsStep

LEMMA RelayEndsStep ==
  ASSUME RelayIInv, NEW id \in RelayStreams, RelayEnds(id)
  PROVE  RelayIInv'
<1>1. PICK f \in Frames : f = Plain("END", id) /\ f.id = id /\ f.type = "END"
  BY PlainsAre DEF FrameTypes
<1>2. StreamSound(id, stream[id], remote[id], wrote[id], toRelay, toUs)
      /\ toRelay \in Seq(Frames) /\ toUs \in Seq(Frames)
  BY OfStream
<1>3. remote[id] \in Remotes /\ remote[id].st \in {"open", "headed"}
  BY <1>2 DEF StreamSound, StreamTyped, RelayEnds
<1>4. PICK q : q = [remote[id] EXCEPT !.sent = MaxChunks]
  OBVIOUS
<1>5. q \in Remotes /\ q.credit = remote[id].credit /\ q.owes = remote[id].owes
  BY <1>3, <1>4, RelayAssumption DEF Remotes
<1>6. Core(q) = Core(remote[id])
  BY <1>3, <1>4 DEF Remotes, Core
<1>7. RelaySends(id, f) /\ remote' = [remote EXCEPT ![id] = q]
  BY <1>1, <1>4 DEF RelayEnds
<1>8. Share(f, "DATA", id) = 0 /\ Share(f, "WINDOW", id) = 0
  BY <1>1 DEF Share
<1>9. /\ remote[id].credit = q.credit + Share(f, "DATA", id)
      /\ remote[id].owes = q.owes + Share(f, "WINDOW", id)
  BY <1>3, <1>5, <1>8 DEF Remotes
<1>10. StreamSound(id, stream[id], q, wrote[id], toRelay, Append(toUs, f))
  BY <1>1, <1>2, <1>3, <1>5, <1>6, <1>9, RelaySendsSound
<1> QED
  BY <1>1, <1>7, <1>10, RelaySendsStep

LEMMA RelayWritesStep ==
  ASSUME RelayIInv, NEW id \in RelayStreams, RelayWrites(id)
  PROVE  RelayIInv'
<1>1. StreamSound(id, stream[id], remote[id], wrote[id], toRelay, toUs)
      /\ toRelay \in Seq(Frames) /\ toUs \in Seq(Frames)
  BY OfStream
<1>2. remote[id] \in Remotes /\ remote[id].st \in {"open", "headed"}
  BY <1>1 DEF StreamSound, StreamTyped, RelayWrites
<1>3. remote[id].credit \in Nat /\ remote[id].owes \in Nat /\ remote[id].sent \in Nat
  BY <1>2 DEF Remotes
<1>4. PICK n : n = Min({remote[id].credit, MaxPiece})
  OBVIOUS
<1>5. n \in Nat /\ n <= remote[id].credit
  <2>1. MaxPiece \in Nat /\ {remote[id].credit, MaxPiece} = {remote[id].credit, MaxPiece, MaxPiece}
    BY RelayAssumption
  <2> QED
    BY <1>3, <1>4, <2>1, MinOfThree
<1>6. PICK f \in Frames : f = Frame("DATA", id, n, TRUE) /\ f.id = id /\ f.type = "DATA" /\ f.n = n
  <2>1. PICK type, last : type = "DATA" /\ last = TRUE
    OBVIOUS
  <2>2. PICK f : f = Frame(type, id, n, last)
    OBVIOUS
  <2>3. type \in FrameTypes /\ last \in BOOLEAN
    BY <2>1 DEF FrameTypes
  <2>4. f \in Frames /\ f.id = id /\ f.type = type /\ f.n = n
    BY <1>5, <2>2, <2>3, FramesAre
  <2> QED
    BY <2>1, <2>2, <2>4
<1>7. RelaySends(id, f) /\ remote' = [remote EXCEPT ![id].credit = @ - n, ![id].sent = @ + 1]
  BY <1>4, <1>6 DEF RelayWrites
<1>8. PICK c \in Nat : c = remote[id].credit - n
  BY <1>3, <1>5
<1>9. PICK m \in Nat : m = remote[id].sent + 1
  BY <1>3
<1>10. PICK q : q = [remote[id] EXCEPT !.credit = c, !.sent = m]
  OBVIOUS
<1>11. q \in Remotes /\ q.credit = c /\ q.owes = remote[id].owes
  BY <1>2, <1>10 DEF Remotes
<1>12. Core(q) = Core(remote[id])
  BY <1>2, <1>10 DEF Remotes, Core
<1>13. remote' = [remote EXCEPT ![id] = q]
  <2>1. DOMAIN remote = RelayStreams
    BY DEF RelayIInv
  <2> QED
    BY <1>7, <1>8, <1>9, <1>10, <2>1
<1>14. Share(f, "DATA", id) = n /\ Share(f, "WINDOW", id) = 0
  BY <1>6 DEF Share
<1>15. /\ remote[id].credit = q.credit + Share(f, "DATA", id)
       /\ remote[id].owes = q.owes + Share(f, "WINDOW", id)
  BY <1>3, <1>5, <1>8, <1>11, <1>14
<1>16. StreamSound(id, stream[id], q, wrote[id], toRelay, Append(toUs, f))
  BY <1>1, <1>2, <1>6, <1>11, <1>12, <1>15, RelaySendsSound
<1> QED
  BY <1>6, <1>7, <1>13, <1>16, RelaySendsStep

LEMMA RelayGrantsStep ==
  ASSUME RelayIInv, NEW id \in RelayStreams, RelayGrants(id)
  PROVE  RelayIInv'
<1>1. StreamSound(id, stream[id], remote[id], wrote[id], toRelay, toUs)
      /\ toRelay \in Seq(Frames) /\ toUs \in Seq(Frames)
  BY OfStream
<1>2. remote[id] \in Remotes /\ remote[id].st \in {"open", "headed"}
  BY <1>1 DEF StreamSound, StreamTyped, RelayGrants
<1>3. remote[id].credit \in Nat /\ remote[id].owes \in Nat
  BY <1>2 DEF Remotes
<1>4. PICK n \in 1..remote[id].owes :
        /\ RelaySends(id, Frame("WINDOW", id, n, TRUE))
        /\ remote' = [remote EXCEPT ![id].owes = @ - n]
  BY DEF RelayGrants
<1>5. n \in Nat /\ n <= remote[id].owes
  BY <1>3
<1>6. PICK f \in Frames : f = Frame("WINDOW", id, n, TRUE) /\ f.id = id /\ f.type = "WINDOW" /\ f.n = n
  <2>1. PICK type, last : type = "WINDOW" /\ last = TRUE
    OBVIOUS
  <2>2. PICK f : f = Frame(type, id, n, last)
    OBVIOUS
  <2>3. type \in FrameTypes /\ last \in BOOLEAN
    BY <2>1 DEF FrameTypes
  <2>4. f \in Frames /\ f.id = id /\ f.type = type /\ f.n = n
    BY <1>5, <2>2, <2>3, FramesAre
  <2> QED
    BY <2>1, <2>2, <2>4
<1>7. PICK c \in Nat : c = remote[id].owes - n
  BY <1>3, <1>5
<1>8. PICK q : q = [remote[id] EXCEPT !.owes = c]
  OBVIOUS
<1>9. q \in Remotes /\ q.credit = remote[id].credit /\ q.owes = c
  BY <1>2, <1>8 DEF Remotes
<1>10. Core(q) = Core(remote[id])
  BY <1>2, <1>8 DEF Remotes, Core
<1>11. RelaySends(id, f) /\ remote' = [remote EXCEPT ![id] = q]
  <2>1. DOMAIN remote = RelayStreams
    BY DEF RelayIInv
  <2> QED
    BY <1>4, <1>6, <1>7, <1>8, <2>1
<1>12. Share(f, "WINDOW", id) = n /\ Share(f, "DATA", id) = 0
  BY <1>6 DEF Share
<1>13. /\ remote[id].credit = q.credit + Share(f, "DATA", id)
       /\ remote[id].owes = q.owes + Share(f, "WINDOW", id)
  BY <1>3, <1>5, <1>7, <1>9, <1>12
<1>14. StreamSound(id, stream[id], q, wrote[id], toRelay, Append(toUs, f))
  BY <1>1, <1>2, <1>6, <1>9, <1>10, <1>13, RelaySendsSound
<1> QED
  BY <1>6, <1>11, <1>14, RelaySendsStep

LEMMA RelayTakesStep ==
  ASSUME RelayIInv, RelayTakes
  PROVE  RelayIInv'
<1>1. tunnel = "attached" /\ toRelay # <<>> /\ toRelay' = Tail(toRelay)
      /\ UNCHANGED <<connectorVars, toUs, stream, wrote>>
  BY DEF RelayTakes
<1>2. toRelay \in Seq(Frames) /\ toUs \in Seq(Frames)
  BY DEF RelayIInv
<1>3. PICK id \in RelayStreams : id = Head(toRelay).id
  BY <1>1, <1>2, TailParts DEF Frames
<1>4. PICK q : q = Told(remote[id], Head(toRelay))
  OBVIOUS
<1>5. remote' = [remote EXCEPT ![id] = q]
  BY <1>3, <1>4 DEF RelayTakes, Told
<1>6. /\ StreamSound(id, stream[id], remote[id], wrote[id], toRelay, toUs)
      /\ OnlyOf(id, stream, stream', stream[id]) /\ OnlyOf(id, wrote, wrote', wrote[id])
      /\ OnlyOf(id, remote, remote', q)
  BY <1>1, <1>5, OfStream
<1>7. StreamSound(id, stream[id], q, wrote[id], toRelay', toUs')
  BY <1>1, <1>2, <1>3, <1>4, <1>6, RelayTakesSound
<1>8. toRelay' \in Seq(Frames) /\ Leaves(id, toRelay, toUs, toRelay', toUs')
  BY <1>1, <1>2, <1>3, LeavesFacts
<1> QED
  BY <1>1, <1>2, <1>6, <1>7, <1>8, StreamMoves

-----------------------------------------------------------------------------
(* The steps of the local server.                                          *)

LEMMA LocalIs ==
  ASSUME RelayIInv, NEW id \in RelayStreams, Local(id)
  PROVE  /\ tunnel = "attached" /\ stream[id] # NoStream
         /\ UNCHANGED connectorVars /\ toUs' = toUs /\ remote' = remote
         /\ StreamSound(id, stream[id], remote[id], wrote[id], toRelay, toUs)
         /\ stream[id] \in Streams /\ remote[id].st # "idle"
         /\ ~Opens(id, toUs) /\ OpenComesFirst(id, toUs)
<1>1. tunnel = "attached" /\ stream[id] # NoStream
      /\ UNCHANGED connectorVars /\ toUs' = toUs /\ remote' = remote
  BY DEF Local, Live
<1>2. StreamSound(id, stream[id], remote[id], wrote[id], toRelay, toUs)
  BY OfStream
<1>3. stream[id] \in Streams /\ remote[id].st # "idle" /\ ~Opens(id, toUs)
  BY <1>1, <1>2, LiveFacts
<1> QED
  BY <1>1, <1>2, <1>3 DEF StreamSound

\* A step that sends one frame and leaves what was written as it was.
LEMMA LocalSays ==
  ASSUME RelayIInv, NEW id \in RelayStreams, Local(id), wrote' = wrote,
         NEW f \in Frames, f.id = id, toRelay' = Append(toRelay, f),
         NEW t, stream' = [stream EXCEPT ![id] = t],
         StreamSound(id, t, remote[id], wrote[id], Append(toRelay, f), toUs)
  PROVE  RelayIInv'
<1>1. tunnel = "attached" /\ UNCHANGED connectorVars /\ toUs' = toUs /\ remote' = remote
  BY LocalIs
<1>2. /\ toRelay \in Seq(Frames) /\ toUs \in Seq(Frames)
      /\ OnlyOf(id, stream, stream', t) /\ OnlyOf(id, wrote, wrote', wrote[id])
      /\ OnlyOf(id, remote, remote', remote[id])
  BY <1>1, OfStream
<1>3. toRelay' \in Seq(Frames) /\ Leaves(id, toRelay, toUs, toRelay', toUs')
  BY <1>1, <1>2, LeavesFacts
<1> QED
  BY <1>1, <1>2, <1>3, StreamMoves

LEMMA AnsweredStep ==
  ASSUME RelayIInv, NEW id \in RelayStreams, Answered(id)
  PROVE  RelayIInv'
<1>1. Local(id) /\ stream[id].local = "opening" /\ wrote' = wrote
      /\ toRelay' = Append(toRelay, Plain("HEAD", id))
      /\ stream' = [stream EXCEPT ![id].local = "open"]
  BY DEF Answered
<1>2. PICK f \in Frames : f = Plain("HEAD", id) /\ f.id = id /\ f.type = "HEAD" /\ f.last
  BY PlainsAre DEF FrameTypes
<1>3. PICK s \in Streams : s = stream[id]
  BY <1>1, LocalIs
<1>4. PICK t \in Streams : t = [s EXCEPT !.local = "open"]
  BY DEF Streams
<1>5. t.queue = s.queue /\ t.credit = s.credit /\ t.inbound = s.inbound /\ t.local = "open"
  BY <1>4 DEF Streams
<1>6. stream' = [stream EXCEPT ![id] = t]
  <2>1. DOMAIN stream = RelayStreams
    BY DEF RelayIInv
  <2> QED
    BY <1>1, <1>3, <1>4, <2>1
<1>7. Share(f, "WINDOW", id) = 0
  BY <1>2 DEF Share
<1>8. SumOf(t.inbound) \in Nat
  BY SumTyped DEF Streams
<1>9. SumOf(s.inbound) = SumOf(t.inbound) + Share(f, "WINDOW", id)
  BY <1>5, <1>7, <1>8
<1>10. UnansweredSentNothing(t)
  BY <1>5 DEF UnansweredSentNothing
<1>11. /\ toRelay \in Seq(Frames) /\ toUs \in Seq(Frames)
       /\ StreamSound(id, s, remote[id], wrote[id], toRelay, toUs) /\ s # NoStream
  BY <1>1, <1>3, OfStream, LocalIs
<1>12. StreamSound(id, t, remote[id], wrote[id], Append(toRelay, f), toUs)
  BY <1>2, <1>5, <1>8, <1>9, <1>10, <1>11, SaysSound
<1> QED
  BY <1>1, <1>2, <1>6, <1>12, LocalSays

LEMMA LocalDrainsStep ==
  ASSUME RelayIInv, NEW id \in RelayStreams, LocalDrains(id)
  PROVE  RelayIInv'
<1>1. Local(id) /\ stream[id].inbound # <<>> /\ wrote' = wrote
      /\ toRelay' = Append(toRelay, Frame("WINDOW", id, Head(stream[id].inbound), TRUE))
      /\ stream' = [stream EXCEPT ![id].inbound = Tail(@)]
  BY DEF LocalDrains
<1>2. PICK s \in Streams : s = stream[id]
  BY <1>1, LocalIs
<1>3. s.inbound \in Seq(Nat) /\ s.inbound # <<>>
  BY <1>1, <1>2 DEF Streams
<1>4. PICK n \in Nat, rest \in Seq(Nat) : n = Head(s.inbound) /\ rest = Tail(s.inbound)
  BY <1>3, HeadTailProperties
<1>5. PICK f \in Frames : f = Frame("WINDOW", id, n, TRUE) /\ f.id = id /\ f.type = "WINDOW" /\ f.n = n
  <2>1. PICK type, last : type = "WINDOW" /\ last = TRUE
    OBVIOUS
  <2>2. PICK f : f = Frame(type, id, n, last)
    OBVIOUS
  <2>3. type \in FrameTypes /\ last \in BOOLEAN
    BY <2>1 DEF FrameTypes
  <2>4. f \in Frames /\ f.id = id /\ f.type = type /\ f.n = n
    BY <2>2, <2>3, FramesAre
  <2> QED
    BY <2>1, <2>2, <2>4
<1>6. PICK t : t = [s EXCEPT !.inbound = rest]
  OBVIOUS
<1>7. t \in Streams /\ t.queue = s.queue /\ t.credit = s.credit /\ t.inbound = rest /\ t.local = s.local
  BY <1>6 DEF Streams
<1>8. stream' = [stream EXCEPT ![id] = t] /\ toRelay' = Append(toRelay, f)
  <2>1. DOMAIN stream = RelayStreams
    BY DEF RelayIInv
  <2> QED
    BY <1>1, <1>2, <1>4, <1>5, <1>6, <2>1
<1>9. SumOf(rest) \in Nat
  BY SumTyped
<1>10. SumOf(s.inbound) = n + SumOf(rest)
  BY <1>3, <1>4, SumHead
<1>11. Share(f, "WINDOW", id) = n
  BY <1>5 DEF Share
<1>12. SumOf(s.inbound) = SumOf(t.inbound) + Share(f, "WINDOW", id) /\ SumOf(t.inbound) \in Nat
  BY <1>7, <1>9, <1>10, <1>11
<1>13. /\ toRelay \in Seq(Frames) /\ toUs \in Seq(Frames)
       /\ StreamSound(id, s, remote[id], wrote[id], toRelay, toUs) /\ s # NoStream
  BY <1>1, <1>2, OfStream, LocalIs
<1>14. UnansweredSentNothing(t)
  BY <1>7, <1>13 DEF UnansweredSentNothing, StreamSound
<1>15. StreamSound(id, t, remote[id], wrote[id], Append(toRelay, f), toUs)
  BY <1>5, <1>7, <1>12, <1>13, <1>14, SaysSound
<1> QED
  BY <1>1, <1>5, <1>8, <1>15, LocalSays

LEMMA LocalFailsStep ==
  ASSUME RelayIInv, NEW id \in RelayStreams, LocalFails(id)
  PROVE  RelayIInv'
<1>1. Local(id) /\ wrote' = wrote /\ stream' = [stream EXCEPT ![id] = NoStream]
      /\ toRelay' = Append(toRelay, Plain("RESET", id))
  BY DEF LocalFails, Reset
<1>2. PICK f \in Frames : f = Plain("RESET", id) /\ f.id = id /\ f.type = "RESET"
  BY PlainsAre DEF FrameTypes
<1>3. /\ toRelay \in Seq(Frames) /\ remote[id].st # "idle"
      /\ StreamSound(id, stream[id], remote[id], wrote[id], toRelay, toUs)
      /\ ~Opens(id, toUs) /\ OpenComesFirst(id, toUs)
  BY <1>1, OfStream, LocalIs
<1>4. StreamSound(id, NoStream, remote[id], wrote[id], Append(toRelay, f), toUs)
  BY <1>2, <1>3, GoneWithReset
<1> QED
  BY <1>1, <1>2, <1>4, LocalSays

LEMMA SocketRefusedStep ==
  ASSUME RelayIInv, NEW id \in RelayStreams, SocketRefused(id)
  PROVE  RelayIInv'
<1>1. Local(id) /\ wrote' = wrote /\ stream' = [stream EXCEPT ![id] = NoStream]
      /\ toRelay' = Append(toRelay, Frame("HEAD", id, 0, FALSE))
  BY DEF SocketRefused
<1>2. PICK f \in Frames : f = Frame("HEAD", id, 0, FALSE) /\ f.id = id /\ f.type = "HEAD" /\ ~f.last
  <2>1. PICK type, n, last : type = "HEAD" /\ n = 0 /\ last = FALSE
    OBVIOUS
  <2>2. PICK f : f = Frame(type, id, n, last)
    OBVIOUS
  <2>3. type \in FrameTypes /\ n \in Nat /\ last \in BOOLEAN
    BY <2>1 DEF FrameTypes
  <2>4. f \in Frames /\ f.id = id /\ f.type = type /\ f.last = last
    BY <2>2, <2>3, FramesAre
  <2> QED
    BY <2>1, <2>2, <2>4
<1>3. /\ toRelay \in Seq(Frames) /\ remote[id].st # "idle"
      /\ StreamSound(id, stream[id], remote[id], wrote[id], toRelay, toUs)
      /\ ~Opens(id, toUs) /\ OpenComesFirst(id, toUs)
  BY <1>1, OfStream, LocalIs
<1>4. StreamSound(id, NoStream, remote[id], wrote[id], Append(toRelay, f), toUs)
  BY <1>2, <1>3, GoneWithReset
<1> QED
  BY <1>1, <1>2, <1>4, LocalSays

LEMMA LocalEndsStep ==
  ASSUME RelayIInv, NEW id \in RelayStreams, LocalEnds(id)
  PROVE  RelayIInv'
<1>1. Local(id) /\ wrote' = wrote /\ EndOfWritten(id) /\ stream[id].local = "open"
  BY DEF LocalEnds
<1>2. /\ toRelay \in Seq(Frames) /\ toUs \in Seq(Frames)
      /\ StreamSound(id, stream[id], remote[id], wrote[id], toRelay, toUs)
      /\ stream[id] # NoStream /\ stream[id] \in Streams
  BY <1>1, OfStream, LocalIs
<1>3. CASE stream[id].queue = <<>>
  <2>1. stream' = [stream EXCEPT ![id] = NoStream] /\ toRelay' = Append(toRelay, Plain("END", id))
    BY <1>1, <1>3 DEF EndOfWritten
  <2>2. PICK f \in Frames : f = Plain("END", id) /\ f.id = id /\ f.type = "END"
    BY PlainsAre DEF FrameTypes
  <2>3. StreamSound(id, NoStream, remote[id], wrote[id], Append(toRelay, f), toUs)
    BY <1>2, <1>3, <2>2, GoneWithEnd
  <2> QED
    BY <1>1, <2>1, <2>2, <2>3, LocalSays
<1>4. CASE stream[id].queue # <<>>
  <2>1. stream' = [stream EXCEPT ![id].ending = TRUE, ![id].local = "closed"] /\ toRelay' = toRelay
    BY <1>1, <1>4 DEF EndOfWritten
  <2>2. PICK s \in Streams : s = stream[id]
    BY <1>2
  <2>3. PICK t : t = [s EXCEPT !.ending = TRUE, !.local = "closed"]
    OBVIOUS
  <2>4. t \in Streams
    BY <2>3 DEF Streams
  <2>5. t.queue = s.queue /\ t.credit = s.credit /\ t.inbound = s.inbound /\ t.local = "closed"
    BY <2>3 DEF Streams
  <2>6. StreamSound(id, t, remote[id], wrote[id], toRelay, toUs)
    BY <1>2, <2>2, <2>4, <2>5, MarkedSound
  <2>7. OnlyOf(id, stream, stream', t)
    <3>1. DOMAIN stream = RelayStreams
      BY DEF RelayIInv
    <3> QED
      BY <2>1, <2>2, <2>3, <3>1 DEF OnlyOf
  <2>8. tunnel = "attached" /\ UNCHANGED connectorVars /\ toUs' = toUs /\ remote' = remote
    BY <1>1, LocalIs
  <2>9. OnlyOf(id, wrote, wrote', wrote[id]) /\ OnlyOf(id, remote, remote', remote[id])
    BY <1>1, <2>8, OfStream
  <2>10. Leaves(id, toRelay, toUs, toRelay', toUs')
    BY <1>2, <2>1, <2>8, LeavesFacts
  <2> QED
    BY <1>2, <2>1, <2>6, <2>7, <2>8, <2>9, <2>10, StreamMoves
<1> QED
  BY <1>3, <1>4

LEMMA LocalWritesStep ==
  ASSUME RelayIInv, NEW id \in RelayStreams, NEW n \in Chunks, LocalWrites(id, n)
  PROVE  RelayIInv'
<1>1. Local(id) /\ stream[id].local = "open"
      /\ SendOn(id, Append(stream[id].queue, n), stream[id].credit)
      /\ wrote' = [wrote EXCEPT ![id] = Append(@, n)]
  BY DEF LocalWrites
<1>2. /\ toRelay \in Seq(Frames) /\ toUs \in Seq(Frames)
      /\ StreamSound(id, stream[id], remote[id], wrote[id], toRelay, toUs)
      /\ stream[id] # NoStream /\ stream[id] \in Streams
  BY <1>1, OfStream, LocalIs
<1>3. n \in Chunk /\ n \in Nat
  BY RelayAssumption DEF Chunk
<1>4. PICK s \in Streams : s = stream[id]
  BY <1>2
<1>5. PICK queue : queue = Append(s.queue, n)
  OBVIOUS
<1>6. queue \in Seq(Nat \ {0})
  BY <1>3, <1>5 DEF Streams, Chunk
<1>7. PICK t : t = [s EXCEPT !.queue = queue, !.credit = s.credit]
  OBVIOUS
<1>8. t \in Streams
  BY <1>6, <1>7 DEF Streams
<1>9. t.queue = queue /\ t.credit = s.credit /\ t.inbound = s.inbound /\ t.local = s.local
  BY <1>7 DEF Streams
<1>10. PICK w : w = Append(wrote[id], n)
  OBVIOUS
<1>11. StreamSound(id, t, remote[id], w, toRelay, toUs)
  BY <1>1, <1>2, <1>3, <1>4, <1>5, <1>8, <1>9, <1>10, WrittenSound
<1>12. tunnel = "attached" /\ UNCHANGED connectorVars /\ toUs' = toUs /\ remote' = remote
  BY <1>1, LocalIs
<1>13. wrote' = [wrote EXCEPT ![id] = w]
  <2>1. DOMAIN wrote = RelayStreams
    BY DEF RelayIInv
  <2> QED
    BY <1>1, <1>10, <2>1
<1>14. OnlyOf(id, wrote, wrote', w)
  BY <1>13, OfStream
<1>15. \A o \in RelayStreams : o # id => SameIn(o, toUs, toUs')
  BY <1>12 DEF SameIn
<1>16. SendOn(id, queue, s.credit) /\ t = [stream[id] EXCEPT !.queue = queue, !.credit = s.credit]
  BY <1>1, <1>4, <1>5, <1>7
<1>17. PICK credit : credit = s.credit
  OBVIOUS
<1> QED
  BY <1>2, <1>11, <1>12, <1>14, <1>15, <1>16, <1>17, SendOnSound

-----------------------------------------------------------------------------
(* The frames of the relay.                                                *)

LEMMA ArrivedIs ==
  ASSUME RelayIInv, NEW type, Arrived(type)
  PROVE  /\ tunnel = "attached" /\ toUs # <<>> /\ Head(toUs).type = type
         /\ toUs' = Tail(toUs) /\ UNCHANGED connectorVars /\ remote' = remote /\ wrote' = wrote
         /\ Head(toUs) \in Frames /\ Head(toUs).id \in RelayStreams
<1>1. /\ tunnel = "attached" /\ toUs # <<>> /\ Head(toUs).type = type
      /\ toUs' = Tail(toUs) /\ UNCHANGED connectorVars /\ remote' = remote /\ wrote' = wrote
  BY DEF Arrived
<1>2. toUs \in Seq(Frames)
  BY DEF RelayIInv
<1>3. Head(toUs) \in Frames
  BY <1>1, <1>2, TailParts
<1> QED
  BY <1>1, <1>3 DEF Frames

\* The stream becomes t, nothing is said.
LEMMA ArrivalMoves ==
  ASSUME RelayIInv, NEW type, Arrived(type), NEW id, id = Head(toUs).id,
         NEW t, stream' = [stream EXCEPT ![id] = t] \/ (stream' = stream /\ t = stream[id]),
         toRelay' = toRelay,
         StreamSound(id, t, remote[id], wrote[id], toRelay, Tail(toUs))
  PROVE  RelayIInv'
<1>1. tunnel = "attached" /\ toUs # <<>> /\ toUs' = Tail(toUs) /\ UNCHANGED connectorVars
      /\ remote' = remote /\ wrote' = wrote /\ id \in RelayStreams
  BY ArrivedIs
<1>2. /\ toRelay \in Seq(Frames) /\ toUs \in Seq(Frames)
      /\ OnlyOf(id, wrote, wrote', wrote[id]) /\ OnlyOf(id, remote, remote', remote[id])
  BY <1>1, OfStream
<1>3. OnlyOf(id, stream, stream', t)
  BY <1>1, OfStream
<1>4. toUs' \in Seq(Frames) /\ Leaves(id, toRelay, toUs, toRelay', toUs')
  BY <1>1, <1>2, LeavesFacts
<1> QED
  BY <1>1, <1>2, <1>3, <1>4, StreamMoves

\* The stream becomes t, a frame is said.
LEMMA ArrivalAnswered ==
  ASSUME RelayIInv, NEW type, Arrived(type), NEW id, id = Head(toUs).id,
         NEW t, stream' = [stream EXCEPT ![id] = t] \/ (stream' = stream /\ t = stream[id]),
         NEW f \in Frames, f.id = id, toRelay' = Append(toRelay, f),
         StreamSound(id, t, remote[id], wrote[id], Append(toRelay, f), Tail(toUs))
  PROVE  RelayIInv'
<1>1. tunnel = "attached" /\ toUs # <<>> /\ toUs' = Tail(toUs) /\ UNCHANGED connectorVars
      /\ remote' = remote /\ wrote' = wrote /\ id \in RelayStreams
  BY ArrivedIs
<1>2. /\ toRelay \in Seq(Frames) /\ toUs \in Seq(Frames)
      /\ OnlyOf(id, wrote, wrote', wrote[id]) /\ OnlyOf(id, remote, remote', remote[id])
  BY <1>1, OfStream
<1>3. OnlyOf(id, stream, stream', t)
  BY <1>1, OfStream
<1>4. toUs' \in Seq(Frames) /\ toRelay' \in Seq(Frames)
  BY <1>1, <1>2, LeavesFacts
<1>5. Leaves(id, toRelay, toUs, toRelay', toUs')
  BY <1>1, <1>2, LeavesFacts
<1> QED
  BY <1>1, <1>2, <1>3, <1>4, <1>5, StreamMoves

LEMMA OnOpenStep ==
  ASSUME RelayIInv, NEW kind \in {"http", "ws"}, OnOpen(kind)
  PROVE  RelayIInv'
<1>1. PICK id : id = Head(toUs).id
  OBVIOUS
<1>2. PICK type : type = "OPEN"
  OBVIOUS
<1>3. Arrived(type)
  BY <1>2 DEF OnOpen
<1>4. toUs # <<>> /\ Head(toUs).type = "OPEN" /\ id \in RelayStreams
  BY <1>1, <1>2, <1>3, ArrivedIs
<1>5. /\ StreamSound(id, stream[id], remote[id], wrote[id], toRelay, toUs)
      /\ toRelay \in Seq(Frames) /\ toUs \in Seq(Frames)
  BY <1>4, OfStream
<1>6. PICK f \in Frames : f = Plain("RESET", id) /\ f.id = id /\ f.type = "RESET"
  BY <1>4, PlainsAre DEF FrameTypes
<1>7. stream[id] = NoStream
      /\ StreamSound(id, NewStream(kind), remote[id], wrote[id], toRelay, Tail(toUs))
  BY <1>1, <1>4, <1>5, OpenSound
<1>8. StreamSound(id, NoStream, remote[id], wrote[id], Append(toRelay, f), Tail(toUs))
  BY <1>1, <1>4, <1>5, <1>6, OpenSound
<1>9. \/ toRelay' = Append(toRelay, f) /\ stream' = stream
      \/ stream' = [stream EXCEPT ![id] = NewStream(kind)] /\ toRelay' = toRelay
  BY <1>1, <1>6 DEF OnOpen
<1>10. CASE toRelay' = Append(toRelay, f) /\ stream' = stream
  BY <1>1, <1>3, <1>6, <1>7, <1>8, <1>10, ArrivalAnswered
<1>11. CASE stream' = [stream EXCEPT ![id] = NewStream(kind)] /\ toRelay' = toRelay
  BY <1>1, <1>3, <1>7, <1>11, ArrivalMoves
<1> QED
  BY <1>9, <1>10, <1>11

LEMMA OnEndStep ==
  ASSUME RelayIInv, OnEnd
  PROVE  RelayIInv'
<1>1. PICK id, type : id = Head(toUs).id /\ type = "END"
  OBVIOUS
<1>2. Arrived(type) /\ stream' = stream /\ toRelay' = toRelay
  BY <1>1 DEF OnEnd
<1>3. toUs # <<>> /\ Head(toUs).type = "END" /\ id \in RelayStreams
  BY <1>1, <1>2, ArrivedIs
<1>4. /\ StreamSound(id, stream[id], remote[id], wrote[id], toRelay, toUs)
      /\ toRelay \in Seq(Frames) /\ toUs \in Seq(Frames)
  BY <1>3, OfStream
<1>5. StreamSound(id, stream[id], remote[id], wrote[id], toRelay, Tail(toUs))
  <2>1. CASE stream[id] = NoStream
    BY <1>1, <1>3, <1>4, <2>1, ArrivedTooLate
  <2>2. CASE stream[id] # NoStream
    <3>1. PICK s \in Streams : s = stream[id]
      BY <1>4, <2>2, LiveFacts
    <3>2. Share(Head(toUs), "WINDOW", id) = 0 /\ Share(Head(toUs), "DATA", id) = 0
      BY <1>3 DEF Share
    <3>3. s.credit \in Nat /\ SumOf(s.inbound) \in Nat
      BY SumTyped, RelayAssumption DEF Streams
    <3>4. /\ s.credit = s.credit + Share(Head(toUs), "WINDOW", id)
          /\ SumOf(s.inbound) = SumOf(s.inbound) + Share(Head(toUs), "DATA", id)
      BY <3>2, <3>3
    <3>5. UnansweredSentNothing(s)
      BY <1>4, <3>1 DEF StreamSound
    <3> QED
      BY <1>1, <1>3, <1>4, <2>2, <3>1, <3>4, <3>5, TakesSound
  <2> QED
    BY <2>1, <2>2
<1> QED
  BY <1>1, <1>2, <1>5, ArrivalMoves

LEMMA OnResetStep ==
  ASSUME RelayIInv, OnReset
  PROVE  RelayIInv'
<1>1. PICK id, type : id = Head(toUs).id /\ type = "RESET"
  OBVIOUS
<1>2. Arrived(type) /\ stream' = [stream EXCEPT ![id] = NoStream] /\ toRelay' = toRelay
  BY <1>1 DEF OnReset
<1>3. toUs # <<>> /\ Head(toUs).type = "RESET" /\ id \in RelayStreams
  BY <1>1, <1>2, ArrivedIs
<1>4. /\ StreamSound(id, stream[id], remote[id], wrote[id], toRelay, toUs)
      /\ toRelay \in Seq(Frames) /\ toUs \in Seq(Frames)
  BY <1>3, OfStream
<1>5. StreamSound(id, NoStream, remote[id], wrote[id], toRelay, Tail(toUs))
  BY <1>1, <1>3, <1>4, ArrivedTooLate
<1> QED
  BY <1>1, <1>2, <1>5, ArrivalMoves

LEMMA OnDataStep ==
  ASSUME RelayIInv, OnData
  PROVE  RelayIInv'
<1>1. PICK id, type, n : id = Head(toUs).id /\ type = "DATA" /\ n = Head(toUs).n
  OBVIOUS
<1>2. Arrived(type)
  BY <1>1 DEF OnData
<1>3. toUs # <<>> /\ Head(toUs).type = "DATA" /\ id \in RelayStreams /\ n \in Nat
  BY <1>1, <1>2, ArrivedIs DEF Frames
<1>4. /\ StreamSound(id, stream[id], remote[id], wrote[id], toRelay, toUs)
      /\ toRelay \in Seq(Frames) /\ toUs \in Seq(Frames)
  BY <1>3, OfStream
<1>5. CASE stream[id] = NoStream
  <2>1. stream' = stream /\ toRelay' = toRelay
    BY <1>1, <1>5 DEF OnData, Live
  <2>2. StreamSound(id, stream[id], remote[id], wrote[id], toRelay, Tail(toUs))
    BY <1>1, <1>3, <1>4, <1>5, ArrivedTooLate
  <2> QED
    BY <1>1, <1>2, <2>1, <2>2, ArrivalMoves
<1>6. CASE stream[id] # NoStream
  <2>1. \/ Reset(id)
        \/ stream' = [stream EXCEPT ![id].inbound = Append(@, n)] /\ toRelay' = toRelay
    BY <1>1, <1>6 DEF OnData, Live
  <2>2. CASE Reset(id)
    <3>1. PICK f \in Frames : f = Plain("RESET", id) /\ f.id = id /\ f.type = "RESET"
      BY <1>3, PlainsAre DEF FrameTypes
    <3>2. stream' = [stream EXCEPT ![id] = NoStream] /\ toRelay' = Append(toRelay, f)
      BY <2>2, <3>1 DEF Reset
    <3>3. StreamSound(id, NoStream, remote[id], wrote[id], Append(toRelay, f), Tail(toUs))
      BY <1>1, <1>3, <1>4, <1>6, <3>1, DroppedSound
    <3> QED
      BY <1>1, <1>2, <3>1, <3>2, <3>3, ArrivalAnswered
  <2>3. CASE stream' = [stream EXCEPT ![id].inbound = Append(@, n)] /\ toRelay' = toRelay
    <3>1. PICK s \in Streams : s = stream[id]
      BY <1>4, <1>6, LiveFacts
    <3>2. PICK more : more = Append(s.inbound, n)
      OBVIOUS
    <3>3. s.inbound \in Seq(Nat) /\ s.credit \in Nat /\ more \in Seq(Nat)
      BY <1>3, <3>2, RelayAssumption DEF Streams
    <3>4. PICK t : t = [s EXCEPT !.inbound = more]
      OBVIOUS
    <3>5. t \in Streams /\ t.queue = s.queue /\ t.credit = s.credit /\ t.local = s.local /\ t.inbound = more
      BY <3>3, <3>4 DEF Streams
    <3>6. UnansweredSentNothing(t)
      BY <1>4, <1>6, <3>1, <3>5 DEF UnansweredSentNothing, StreamSound
    <3>7. Share(Head(toUs), "WINDOW", id) = 0 /\ Share(Head(toUs), "DATA", id) = n
      BY <1>1, <1>3 DEF Share
    <3>8. SumOf(t.inbound) = SumOf(s.inbound) + n
      BY <1>3, <3>2, <3>3, <3>5, SumAppend
    <3>9. /\ t.credit = s.credit + Share(Head(toUs), "WINDOW", id)
          /\ SumOf(t.inbound) = SumOf(s.inbound) + Share(Head(toUs), "DATA", id)
      BY <3>3, <3>5, <3>7, <3>8
    <3>10. StreamSound(id, t, remote[id], wrote[id], toRelay, Tail(toUs))
      BY <1>1, <1>3, <1>4, <1>6, <3>1, <3>5, <3>6, <3>9, TakesSound
    <3>11. stream' = [stream EXCEPT ![id] = t]
      <4>1. DOMAIN stream = RelayStreams
        BY DEF RelayIInv
      <4> QED
        BY <2>3, <3>1, <3>2, <3>4, <4>1
    <3> QED
      BY <1>1, <1>2, <2>3, <3>10, <3>11, ArrivalMoves
  <2> QED
    BY <2>1, <2>2, <2>3
<1> QED
  BY <1>5, <1>6

LEMMA OnWindowStep ==
  ASSUME RelayIInv, OnWindow
  PROVE  RelayIInv'
<1>1. PICK id, type, n : id = Head(toUs).id /\ type = "WINDOW" /\ n = Head(toUs).n
  OBVIOUS
<1>2. Arrived(type)
  BY <1>1 DEF OnWindow
<1>3. toUs # <<>> /\ Head(toUs).type = "WINDOW" /\ id \in RelayStreams /\ n \in Nat
  BY <1>1, <1>2, ArrivedIs DEF Frames
<1>4. /\ StreamSound(id, stream[id], remote[id], wrote[id], toRelay, toUs)
      /\ toRelay \in Seq(Frames) /\ toUs \in Seq(Frames)
  BY <1>3, OfStream
<1>5. CASE stream[id] = NoStream
  <2>1. stream' = stream /\ toRelay' = toRelay
    BY <1>1, <1>5 DEF OnWindow, Live
  <2>2. StreamSound(id, stream[id], remote[id], wrote[id], toRelay, Tail(toUs))
    BY <1>1, <1>3, <1>4, <1>5, ArrivedTooLate
  <2> QED
    BY <1>1, <1>2, <2>1, <2>2, ArrivalMoves
<1>6. CASE stream[id] # NoStream
  <2>1. PICK s \in Streams : s = stream[id]
    BY <1>4, <1>6, LiveFacts
  <2>2. /\ s.credit \in Nat /\ s.credit <= Window /\ s.inbound \in Seq(Nat) /\ SumOf(s.inbound) \in Nat
        /\ Window \in Nat
    BY SumTyped, RelayAssumption DEF Streams
  <2>3. Share(Head(toUs), "WINDOW", id) = n /\ Share(Head(toUs), "DATA", id) = 0
    BY <1>1, <1>3 DEF Share
  <2>4. UnansweredSentNothing(s) /\ s # NoStream
    BY <1>4, <1>6, <2>1 DEF StreamSound
  <2>5. \/ s.kind = "http" /\ s.local = "opening" /\ stream' = stream /\ toRelay' = toRelay
        \/ Reset(id)
        \/ s.credit + n <= Window /\ SendOn(id, s.queue, s.credit + n)
    <3>1. \/ s.kind = "http" /\ s.local = "opening" /\ stream' = stream /\ toRelay' = toRelay
          \/ Reset(id)
          \/ ~(s.credit + n > Window) /\ SendOn(id, s.queue, s.credit + n)
      BY <1>1, <1>6, <2>1 DEF OnWindow, Live
    <3> QED
      BY <1>3, <2>2, <3>1
  <2>6. CASE s.kind = "http" /\ s.local = "opening" /\ stream' = stream /\ toRelay' = toRelay
    <3>1. ASSUME remote[id].st \in {"open", "headed"}
          PROVE  n = 0
      <4>1. s.credit = Window
        BY <2>4, <2>6 DEF UnansweredSentNothing
      <4>2. s.credit + Bytes(toRelay, "DATA", id) + remote[id].owes + Bytes(toUs, "WINDOW", id) = Window
        BY <1>4, <1>6, <2>1, <3>1 DEF StreamSound, WindowKept
      <4>3. PICK a, b, c : a = Bytes(toRelay, "DATA", id) /\ b = remote[id].owes /\ c = Bytes(Tail(toUs), "WINDOW", id)
        OBVIOUS
      <4>4. a \in Nat /\ b \in Nat /\ c \in Nat
        BY <1>3, <1>4, <4>3, BytesTyped, TailParts DEF StreamSound, StreamTyped, Remotes
      <4>5. Bytes(toUs, "WINDOW", id) = n + c
        BY <1>3, <1>4, <2>3, <4>3, BytesHead
      <4>6. Window + a + b + (n + c) = Window
        BY <4>1, <4>2, <4>3, <4>5
      <4> QED
        BY <1>3, <2>2, <4>4, <4>6
    <3>2. remote[id].st \in {"open", "headed"} =>
            /\ s.credit = s.credit + Share(Head(toUs), "WINDOW", id)
            /\ SumOf(s.inbound) = SumOf(s.inbound) + Share(Head(toUs), "DATA", id)
      BY <2>2, <2>3, <3>1
    <3>3. StreamSound(id, s, remote[id], wrote[id], toRelay, Tail(toUs))
      BY <1>1, <1>3, <1>4, <1>6, <2>1, <2>4, <3>2, TakesSound
    <3> QED
      BY <1>1, <1>2, <2>1, <2>6, <3>3, ArrivalMoves
  <2>7. CASE Reset(id)
    <3>1. PICK f \in Frames : f = Plain("RESET", id) /\ f.id = id /\ f.type = "RESET"
      BY <1>3, PlainsAre DEF FrameTypes
    <3>2. stream' = [stream EXCEPT ![id] = NoStream] /\ toRelay' = Append(toRelay, f)
      BY <2>7, <3>1 DEF Reset
    <3>3. StreamSound(id, NoStream, remote[id], wrote[id], Append(toRelay, f), Tail(toUs))
      BY <1>1, <1>3, <1>4, <1>6, <3>1, DroppedSound
    <3> QED
      BY <1>1, <1>2, <3>1, <3>2, <3>3, ArrivalAnswered
  <2>8. CASE s.credit + n <= Window /\ SendOn(id, s.queue, s.credit + n)
    <3>1. PICK credit \in 0..Window : credit = s.credit + n
      BY <1>3, <2>2, <2>8
    <3>2. PICK queue : queue = s.queue
      OBVIOUS
    <3>3. PICK t : t = [s EXCEPT !.queue = queue, !.credit = credit]
      OBVIOUS
    <3>4. t \in Streams
      BY <3>2, <3>3 DEF Streams
    <3>5. t.queue = s.queue /\ t.credit = credit /\ t.local = s.local /\ t.inbound = s.inbound
      BY <3>2, <3>3 DEF Streams
    <3>6. UnansweredSentNothing(t)
      <4>1. ASSUME s.local = "opening"
            PROVE  credit = Window /\ s.queue = <<>>
        <5>1. s.credit = Window /\ s.queue = <<>>
          BY <2>4, <4>1 DEF UnansweredSentNothing
        <5> QED
          BY <1>3, <2>2, <2>8, <3>1, <5>1
      <4> QED
        BY <3>5, <4>1 DEF UnansweredSentNothing
    <3>7. /\ t.credit = s.credit + Share(Head(toUs), "WINDOW", id)
          /\ SumOf(t.inbound) = SumOf(s.inbound) + Share(Head(toUs), "DATA", id)
      BY <2>2, <2>3, <3>1, <3>5
    <3>8. StreamSound(id, t, remote[id], wrote[id], toRelay, Tail(toUs))
      BY <1>1, <1>3, <1>4, <1>6, <2>1, <3>4, <3>5, <3>6, <3>7, TakesSound
    <3>9. tunnel = "attached" /\ toUs' = Tail(toUs) /\ UNCHANGED connectorVars
          /\ remote' = remote /\ wrote' = wrote
      BY <1>2, ArrivedIs
    <3>10. OnlyOf(id, wrote, wrote', wrote[id])
      BY <1>3, <3>9, OfStream
    <3>11. toUs' \in Seq(Frames) /\ \A o \in RelayStreams : o # id => SameIn(o, toUs, toUs')
      BY <1>1, <1>3, <1>4, <3>9, TailParts, SameInAfterTail
    <3>12. SendOn(id, queue, credit) /\ t = [stream[id] EXCEPT !.queue = queue, !.credit = credit]
      BY <2>1, <2>8, <3>1, <3>2, <3>3
    <3>13. StreamSound(id, t, remote[id], wrote[id], toRelay, toUs')
      BY <3>8, <3>9
    <3> QED
      BY <1>3, <1>6, <3>9, <3>10, <3>11, <3>12, <3>13, SendOnSound
  <2> QED
    BY <2>5, <2>6, <2>7, <2>8
<1> QED
  BY <1>5, <1>6

-----------------------------------------------------------------------------
(* The connector.                                                          *)

LEMMA RelayInitSound == RelayInit => RelayIInv
<1> SUFFICES ASSUME RelayInit PROVE RelayIInv
  OBVIOUS
<1>1. DOMAIN stream = RelayStreams /\ DOMAIN remote = RelayStreams /\ DOMAIN wrote = RelayStreams
  BY DEF RelayInit
<1>2. toRelay \in Seq(Frames) /\ toUs \in Seq(Frames)
  BY DEF RelayInit
<1>3. ASSUME NEW id \in RelayStreams
      PROVE  StreamSound(id, stream[id], remote[id], wrote[id], toRelay, toUs)
  BY NewSound, RelayAssumption DEF RelayInit
<1>4. TunnelSound
  <2>1. tunnel = "none" /\ ~retryArmed /\ retryArmed \in BOOLEAN /\ ~relayStopped
    BY DEF RelayInit
  <2>2. tunnels \in Nat /\ ~(tunnels > 0)
    BY DEF RelayInit
  <2>3. \A id \in RelayStreams : ~Live(id)
    BY DEF RelayInit, Live
  <2>4. Carried = {}
    BY <2>3 DEF Carried
  <2>5. RelayTypeOK
    BY <2>1, <2>3 DEF RelayTypeOK
  <2>6. AlwaysOneTunnel
    BY <2>1, <2>2, <2>4 DEF AlwaysOneTunnel
  <2> QED
    BY <2>1, <2>2, <2>5, <2>6 DEF TunnelSound
<1> QED
  BY <1>1, <1>2, <1>3, <1>4 DEF RelayIInv

\* The connector moves, the streams are as they were.
LEMMA ConnectorMoves ==
  ASSUME RelayIInv, UNCHANGED <<toRelay, toUs, stream, remote, wrote>>,
         tunnel' \in {"none", "dialing", "greeted", "attached", "terminated"},
         retryArmed' \in BOOLEAN, AlwaysOneTunnel', tunnels' \in Nat,
         tunnels' = 0 => tunnel' = "none" /\ ~retryArmed'
  PROVE  RelayIInv'
<1>1. TunnelSound
  BY DEF RelayIInv
<1>2. \A id \in RelayStreams : Live(id)' => stream'[id].credit \in 0..Window
  BY <1>1 DEF TunnelSound, RelayTypeOK, Live
<1>3. RelayTypeOK'
  BY <1>2 DEF RelayTypeOK
<1>4. TunnelSound'
  BY <1>3 DEF TunnelSound
<1> QED
  BY <1>4 DEF RelayIInv

LEMMA TunnelIs ==
  ASSUME RelayIInv
  PROVE  /\ tunnel \in {"none", "dialing", "greeted", "attached", "terminated"}
         /\ retryArmed \in BOOLEAN /\ tunnels \in Nat
         /\ tunnels = 0 => tunnel = "none" /\ ~retryArmed
         /\ tunnels > 0 /\ ~relayStopped => (retryArmed <=> tunnel = "none")
         /\ relayStopped => ~retryArmed
         /\ Carried # {} => tunnel \in {"attached", "terminated"}
BY DEF RelayIInv, TunnelSound, RelayTypeOK, AlwaysOneTunnel

LEMMA ConnectorSteps ==
  ASSUME RelayIInv,
         \/ StartConnector \/ TunnelOpens \/ Redials \/ StopConnector
         \/ \E authentic \in BOOLEAN : Message2(authentic)
  PROVE  RelayIInv'
<1>1. ASSUME UNCHANGED stream PROVE Carried' = Carried
  BY <1>1 DEF Carried, Live
<1>2. CASE StartConnector
  <2>1. UNCHANGED <<toRelay, toUs, stream, remote, wrote, retryArmed, relayStopped>>
        /\ tunnel = "none" /\ ~retryArmed /\ tunnel' = "dialing" /\ tunnels' = 1
    BY <1>2 DEF StartConnector
  <2>2. Carried' = {}
    BY <1>1, <2>1, TunnelIs
  <2>3. AlwaysOneTunnel'
    BY <2>1, <2>2 DEF AlwaysOneTunnel
  <2>4. tunnels' \in Nat /\ tunnels' # 0
    BY <2>1
  <2> QED
    BY <2>1, <2>3, <2>4, TunnelIs, ConnectorMoves
<1>3. CASE TunnelOpens
  <2>1. UNCHANGED <<toRelay, toUs, stream, remote, wrote, retryArmed, relayStopped, tunnels>>
        /\ tunnel = "dialing" /\ tunnel' = "greeted"
    BY <1>3 DEF TunnelOpens
  <2>2. Carried' = {} /\ tunnels # 0 /\ tunnels' \in Nat
    BY <1>1, <2>1, TunnelIs
  <2>3. AlwaysOneTunnel'
    BY <2>1, <2>2, TunnelIs DEF AlwaysOneTunnel
  <2> QED
    BY <2>1, <2>2, <2>3, TunnelIs, ConnectorMoves
<1>4. CASE Redials
  <2>1. UNCHANGED <<toRelay, toUs, stream, remote, wrote, relayStopped>>
        /\ retryArmed /\ ~retryArmed' /\ retryArmed' \in BOOLEAN
        /\ tunnel' = "dialing" /\ tunnels' = tunnels + 1
    BY <1>4 DEF Redials
  <2>2. tunnels # 0 /\ ~relayStopped
    BY <2>1, TunnelIs
  <2>3. tunnels > 0 /\ tunnels' \in Nat /\ tunnels' # 0
    BY <2>1, <2>2, TunnelIs
  <2>4. tunnel = "none"
    BY <2>1, <2>2, <2>3, TunnelIs
  <2>5. Carried' = {}
    BY <1>1, <2>1, <2>4, TunnelIs
  <2>6. AlwaysOneTunnel'
    BY <2>1, <2>5 DEF AlwaysOneTunnel
  <2> QED
    BY <2>1, <2>3, <2>6, ConnectorMoves
<1>5. CASE StopConnector
  <2>1. UNCHANGED <<toRelay, toUs, stream, remote, wrote, tunnels>>
        /\ relayStopped' /\ ~retryArmed' /\ retryArmed' \in BOOLEAN
        /\ tunnel' = IF tunnel = "none" THEN "none" ELSE "terminated"
    BY <1>5 DEF StopConnector
  <2>2. Carried' # {} => tunnel' = "terminated"
    BY <1>1, <2>1, TunnelIs
  <2>3. AlwaysOneTunnel'
    BY <2>1, <2>2 DEF AlwaysOneTunnel
  <2>4. tunnels' \in Nat /\ (tunnels' = 0 => tunnel' = "none")
    BY <2>1, TunnelIs
  <2> QED
    BY <2>1, <2>3, <2>4, ConnectorMoves
<1>6. CASE \E authentic \in BOOLEAN : Message2(authentic)
  <2>1. UNCHANGED <<toRelay, toUs, stream, remote, wrote, retryArmed, relayStopped, tunnels>>
        /\ tunnel = "greeted" /\ tunnel' \in {"attached", "terminated"}
    BY <1>6 DEF Message2
  <2>2. Carried' = {} /\ tunnels # 0 /\ tunnels' \in Nat
    BY <1>1, <2>1, TunnelIs
  <2>3. AlwaysOneTunnel'
    BY <2>1, <2>2, TunnelIs DEF AlwaysOneTunnel
  <2> QED
    BY <2>1, <2>2, <2>3, TunnelIs, ConnectorMoves
<1> QED
  BY <1>2, <1>3, <1>4, <1>5, <1>6

LEMMA TunnelClosesStep ==
  ASSUME RelayIInv, NEW code, TunnelCloses(code)
  PROVE  RelayIInv'
<1>1. /\ tunnel # "none" /\ tunnel' = "none" /\ stream' = [id \in RelayStreams |-> NoStream]
      /\ retryArmed' = ~relayStopped /\ toRelay' = <<>> /\ toUs' = <<>>
      /\ remote' = [id \in RelayStreams |-> NoRemote] /\ wrote' = [id \in RelayStreams |-> <<>>]
      /\ UNCHANGED <<relayStopped, tunnels>>
  BY DEF TunnelCloses
<1>2. DOMAIN stream' = RelayStreams /\ DOMAIN remote' = RelayStreams /\ DOMAIN wrote' = RelayStreams
  BY <1>1
<1>3. toRelay' \in Seq(Frames) /\ toUs' \in Seq(Frames)
  BY <1>1
<1>4. ASSUME NEW id \in RelayStreams
      PROVE  StreamSound(id, stream'[id], remote'[id], wrote'[id], toRelay', toUs')
  BY <1>1, NewSound, RelayAssumption
<1>5. \A id \in RelayStreams : ~Live(id)'
  BY <1>1 DEF Live
<1>6. Carried' = {}
  BY <1>5 DEF Carried
<1>7. retryArmed' \in BOOLEAN
  BY <1>1
<1>8. RelayTypeOK'
  BY <1>1, <1>5, <1>7 DEF RelayTypeOK
<1>9. AlwaysOneTunnel'
  BY <1>1, <1>6 DEF AlwaysOneTunnel
<1>10. tunnels' \in Nat /\ tunnels' # 0
  BY <1>1, TunnelIs
<1>11. TunnelSound'
  BY <1>8, <1>9, <1>10 DEF TunnelSound
<1> QED
  BY <1>2, <1>3, <1>4, <1>11 DEF RelayIInv

-----------------------------------------------------------------------------
LEMMA RelayIInvIsInductive == RelayIInv /\ [RelayNext]_relayVars => RelayIInv'
<1> SUFFICES ASSUME RelayIInv, [RelayNext]_relayVars
             PROVE  RelayIInv'
  OBVIOUS
<1>1. CASE \/ StartConnector \/ TunnelOpens \/ Redials \/ StopConnector
           \/ \E authentic \in BOOLEAN : Message2(authentic)
  BY <1>1, ConnectorSteps
<1>2. ASSUME NEW code \in {"auth", "protocol", "lost"}, TunnelCloses(code)
      PROVE  RelayIInv'
  BY <1>2, TunnelClosesStep
<1>3. ASSUME NEW kind \in {"http", "ws"}, OnOpen(kind)
      PROVE  RelayIInv'
  BY <1>3, OnOpenStep
<1>4. CASE OnData \/ OnWindow \/ OnEnd \/ OnReset \/ RelayTakes
  BY <1>4, OnDataStep, OnWindowStep, OnEndStep, OnResetStep, RelayTakesStep
<1>5. ASSUME NEW id \in RelayStreams,
             \/ Answered(id) \/ SocketRefused(id) \/ LocalEnds(id) \/ LocalFails(id)
             \/ LocalDrains(id)
      PROVE  RelayIInv'
  BY <1>5, AnsweredStep, SocketRefusedStep, LocalEndsStep, LocalFailsStep, LocalDrainsStep
<1>6. ASSUME NEW id \in RelayStreams, NEW n \in Chunks, LocalWrites(id, n)
      PROVE  RelayIInv'
  BY <1>6, LocalWritesStep
<1>7. ASSUME NEW id \in RelayStreams,
             \/ RelayOpens(id) \/ RelayWrites(id) \/ RelayGrants(id) \/ RelayEnds(id)
             \/ RelayResets(id)
      PROVE  RelayIInv'
  BY <1>7, RelayOpensStep, RelayWritesStep, RelayGrantsStep, RelayEndsStep, RelayResetsStep
<1>8. CASE UNCHANGED relayVars
  <2>1. UNCHANGED <<toRelay, toUs, stream, remote, wrote>>
        /\ UNCHANGED <<tunnel, retryArmed, relayStopped, tunnels>>
    BY <1>8 DEF relayVars
  <2>2. AlwaysOneTunnel
    BY DEF RelayIInv, TunnelSound
  <2>3. Carried' = Carried
    BY <2>1 DEF Carried, Live
  <2>4. AlwaysOneTunnel'
    BY <2>1, <2>2, <2>3 DEF AlwaysOneTunnel
  <2> QED
    BY <2>1, <2>4, TunnelIs, ConnectorMoves
<1> QED
  BY <1>1, <1>2, <1>3, <1>4, <1>5, <1>6, <1>7, <1>8 DEF RelayNext

LEMMA RelayIInvImplies == RelayIInv => RelayInv
<1> SUFFICES ASSUME RelayIInv PROVE RelayInv
  OBVIOUS
<1>1. RelayTypeOK /\ AlwaysOneTunnel
  BY DEF RelayIInv, TunnelSound
<1>2. CreditConserved
  <2> SUFFICES ASSUME NEW id \in RelayStreams, Live(id), remote[id].st \in {"open", "headed"}
               PROVE  /\ stream[id].credit + Bytes(toRelay, "DATA", id) + remote[id].owes
                           + Bytes(toUs, "WINDOW", id) = Window
                      /\ remote[id].credit + Bytes(toUs, "DATA", id) + Outstanding(id)
                           + Bytes(toRelay, "WINDOW", id) = Window
    BY DEF CreditConserved
  <2>1. StreamSound(id, stream[id], remote[id], wrote[id], toRelay, toUs)
    BY DEF RelayIInv
  <2>2. WindowKept(id, stream[id], remote[id], toRelay, toUs) /\ stream[id] # NoStream
    BY <2>1 DEF StreamSound, Live
  <2> QED
    BY <2>2 DEF WindowKept, Outstanding
<1>3. StreamsIntact
  <2> SUFFICES ASSUME NEW id \in RelayStreams
               PROVE  /\ IsPrefix(remote[id].got, wrote[id])
                      /\ remote[id].over => remote[id].got = wrote[id]
    BY DEF StreamsIntact
  <2>1. StreamSound(id, stream[id], remote[id], wrote[id], toRelay, toUs)
        /\ toRelay \in Seq(Frames)
    BY DEF RelayIInv
  <2>2. PICK r \in Remotes : r = remote[id] /\ (r.over => r.st = "closed")
    BY <2>1 DEF StreamSound, StreamTyped
  <2>3. PICK w \in Seq(Nat) : w = wrote[id]
    BY <2>1 DEF StreamSound, StreamTyped
  <2>4. PICK c \in Views : c = Core(r) /\ c.got = r.got /\ c.st = r.st /\ c.over = r.over
    BY CoreTyped
  <2>5. PICK v \in Views : v = Final(id, c, toRelay)
    BY <2>1, FinalTyped
  <2>6. ComesOut(id, stream[id], v, w, toUs)
    BY <2>1, <2>2, <2>3, <2>4, <2>5 DEF StreamSound
  <2>7. Extends(v.got, c.got) /\ c.got \in Seq(Nat) /\ v.got \in Seq(Nat)
    BY <2>1, <2>5, FinalGrows DEF Views
  <2>8. Extends(w, v.got)
    BY <2>6 DEF ComesOut
  <2>9. Extends(w, c.got)
    BY <2>7, <2>8, ExtendsFacts
  <2>10. IsPrefix(c.got, w)
    BY <2>7, <2>9, ExtendsFacts
  <2>11. ASSUME r.over
         PROVE  r.got = w
    <3>1. c.st = "closed" /\ c.over
      BY <2>2, <2>4, <2>11
    <3>2. v = c
      BY <2>1, <2>5, <3>1, FinalOfClosed
    <3> QED
      BY <2>4, <2>6, <3>1, <3>2 DEF ComesOut
  <2> QED
    BY <2>2, <2>3, <2>4, <2>10, <2>11
<1> QED
  BY <1>1, <1>2, <1>3 DEF RelayInv

\* RelayInv: a stream's credit is conserved, what the relay puts together is what the local
\* server wrote, and there is always one tunnel (createFlowSender and the connector).
THEOREM RelayHolds == RelaySpec => []RelayInv
<1>1. RelayInit => RelayIInv
  BY RelayInitSound
<1>2. RelayIInv /\ [RelayNext]_relayVars => RelayIInv'
  BY RelayIInvIsInductive
<1>3. RelayIInv => RelayInv
  BY RelayIInvImplies
<1> QED
  BY <1>1, <1>2, <1>3, PTL DEF RelaySpec
=============================================================================
