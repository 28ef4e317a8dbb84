------------------------ MODULE SecureTransportProofs ------------------------
(***************************************************************************)
(* RestChannel for every width of the bitmaps, any highest counter and any *)
(* requests: what is fresh is taken, what was taken can be answered, and   *)
(* the channel implements ReplayGuard.                                     *)
(*                                                                         *)
(* The bitmaps are indexed modulo the width, so a position says something  *)
(* of the one counter of the window that has it (BitsDiffer).  RestIInv    *)
(* says what: a set bit of the window is an admission, one of the sealer's *)
(* is a record, and what is outstanding was admitted, has no record and is *)
(* in the window.  The two marks are equal, which is why the sealer never  *)
(* refuses what the window admitted.                                       *)
(*                                                                         *)
(* SealedSockets for any contexts, sockets, cap and clocks: one socket per *)
(* context, nothing plain after the seal, revocation leaves nothing, the   *)
(* cap bounds the live contexts, and eviction spares those in use.         *)
(*                                                                         *)
(* The cap is a counting argument: eviction goes by a strict total order,  *)
(* so the ranks of those it spares are different numbers below the number  *)
(* of candidates (Survivors).  The sockets need to know that a ticket not  *)
(* yet spent has no socket (TicketUnspent), that an open socket is the     *)
(* hub's (OpenIsAttached), and that only what is open or closing has       *)
(* carried a plaintext frame (PlainWasOpen).                               *)
(***************************************************************************)
EXTENDS MCSecureTransport, FiniteSetTheorems, TLAPS

-----------------------------------------------------------------------------
(* The REST channel.                                                       *)

\* c is one of the Width counters up to the mark.
Inside(c, high) == c <= high /\ high < c + Width

-----------------------------------------------------------------------------
(* Arithmetic modulo the width.                                            *)

LEMMA BitTyped ==
  ASSUME NEW c \in Int
  PROVE  Bit(c) \in Positions
  BY WidthAssumption DEF WidthAssumption, Bit, Positions

LEMMA Quotient ==
  ASSUME NEW c \in Int
  PROVE  \E q \in Int : c = Width * q + Bit(c)
<1>1. c = Width * (c \div Width) + (c % Width) /\ c \div Width \in Int
  BY WidthAssumption DEF WidthAssumption
<1> QED BY <1>1 DEF Bit

LEMMA ProductIsNat ==
  ASSUME NEW n \in Nat, NEW d \in Nat
  PROVE  n * d \in Nat
  OBVIOUS

\* Multiples of the width are equal or at least a width apart.
LEMMA MultiplesApart ==
  ASSUME NEW p \in Int, NEW q \in Int
  PROVE  /\ Width * p \in Int /\ Width * q \in Int
         /\ p < q => Width * q - Width * p >= Width
         /\ p >= q => Width * q - Width * p <= 0
<1>1. Width \in Nat
  BY WidthAssumption DEF WidthAssumption
<1>2. CASE p < q
  <2>1. q - p - 1 \in Nat
    BY <1>2
  <2>2. Width * (q - p - 1) >= 0
    BY <1>1, <2>1, ProductIsNat
  <2>3. Width * (q - p - 1) = Width * q - Width * p - Width
    BY <1>1
  <2> QED BY <1>1, <1>2, <2>2, <2>3
<1>3. CASE p >= q
  <2>1. p - q \in Nat
    BY <1>3
  <2>2. Width * (p - q) >= 0
    BY <1>1, <2>1, ProductIsNat
  <2>3. Width * (p - q) = Width * p - Width * q
    BY <1>1
  <2> QED BY <1>1, <1>3, <2>2, <2>3
<1> QED BY <1>2, <1>3

\* Two counters less than a width apart have different positions.
LEMMA BitsDiffer ==
  ASSUME NEW i \in Int, NEW j \in Int, i < j, j < i + Width
  PROVE  Bit(i) # Bit(j)
<1> SUFFICES ASSUME Bit(i) = Bit(j) PROVE FALSE
  OBVIOUS
<1>1. PICK p \in Int : i = Width * p + Bit(i)
  BY Quotient
<1>2. PICK q \in Int : j = Width * q + Bit(j)
  BY Quotient
<1>3. Bit(i) \in Int /\ Width \in Nat /\ Width * p \in Int /\ Width * q \in Int
  BY BitTyped, MultiplesApart, WidthAssumption DEF WidthAssumption, Positions
<1>4. j - i = Width * q - Width * p
  <2> DEFINE a == Width * p  b == Width * q
  <2>1. i = a + Bit(i) /\ j = b + Bit(i) /\ a \in Int /\ b \in Int
    BY <1>1, <1>2, <1>3
  <2> HIDE DEF a, b
  <2>2. j - i = b - a
    BY <2>1, <1>3
  <2> QED BY <2>2 DEF a, b
<1> QED BY <1>3, <1>4, MultiplesApart

LEMMA OneOfWindow ==
  ASSUME NEW high \in Int, NEW i \in Int, NEW j \in Int, i # j, Inside(i, high), Inside(j, high)
  PROVE  Bit(i) # Bit(j)
<1>1. Width \in Nat
  BY WidthAssumption DEF WidthAssumption
<1>2. CASE i < j
  BY <1>1, <1>2, BitsDiffer DEF Inside
<1>3. CASE j < i
  BY <1>1, <1>3, BitsDiffer DEF Inside
<1> QED BY <1>2, <1>3

\* A slide to c clears the positions of the counters it passes, and of no other counter that
\* is in the window afterwards.
LEMMA Slide ==
  ASSUME NEW high \in -1..MaxCounter, NEW c \in Counters, c > high,
         NEW k \in Counters, Inside(k, c)
  PROVE  Bit(k) \in Covered(high, c) <=> k > high
<1>1. /\ Width \in Nat \ {0} /\ MaxCounter \in Nat
      /\ high \in Int /\ c \in Nat /\ k \in Nat /\ k <= c /\ c < k + Width
  BY WidthAssumption, MaxCounterAssumption
  DEF WidthAssumption, MaxCounterAssumption, Counters, Inside
<1>2. ASSUME k > high PROVE Bit(k) \in Covered(high, c)
  <2>1. k \in (high + 1)..c
    BY <1>1, <1>2
  <2> QED BY <1>1, <2>1, BitTyped DEF Covered
<1>3. ASSUME k <= high PROVE Bit(k) \notin Covered(high, c)
  <2>1. high >= 0 /\ c - high < Width
    BY <1>1, <1>3
  <2>2. Covered(high, c) = {Bit(j) : j \in (high + 1)..c}
    BY <1>1, <2>1 DEF Covered
  <2>3. ASSUME NEW j \in (high + 1)..c PROVE Bit(j) # Bit(k)
    BY <1>1, <1>3, BitsDiffer
  <2> QED BY <2>2, <2>3
<1> QED BY <1>1, <1>2, <1>3

LEMMA BelowIsOutside ==
  ASSUME NEW c \in Counters, NEW high \in -1..MaxCounter
  PROVE  ~BelowWindow(c, high) <=> high < c + Width
  BY WidthAssumption, MaxCounterAssumption
  DEF WidthAssumption, MaxCounterAssumption, Counters, BelowWindow

-----------------------------------------------------------------------------
(* The inductive invariant.                                                *)

RestTypes ==
  /\ RestTypeOK
  /\ admits \in [Counters -> {0, 1}] /\ records \in [Counters -> {0, 1}]

\* The bits of the window are the admissions.
WindowTracks ==
  /\ \A c \in Counters : c > highWater => admits[c] = 0
  /\ \A c \in Counters : Inside(c, highWater) => (Bit(c) \in seenBits <=> admits[c] = 1)

\* What is armed has no record and is in the window; a bit stands for a record.
Sound(armed, bits, mark, sealed) ==
  /\ \A c \in armed : sealed[c] = 0 /\ Inside(c, mark)
  /\ \A c \in Counters : Inside(c, mark) /\ Bit(c) \in bits => sealed[c] = 1

SealerTracks ==
  /\ acceptedHighWater = highWater
  /\ Sound(outstanding, answeredBits, acceptedHighWater, records)
  /\ \A c \in outstanding : admits[c] = 1
  /\ \A c \in Counters : records[c] = 1 => admits[c] = 1

Handling(r) == request[r].phase = "handling"

\* Requests being served have counters of their own, admitted and, in the window, armed.
ServedAreOwed ==
  /\ \A r \in Requests : Handling(r) =>
       /\ admits[request[r].counter] = 1
       /\ Inside(request[r].counter, highWater) => request[r].counter \in outstanding
  /\ \A r, s \in Requests : Handling(r) /\ Handling(s) /\ r # s => request[r].counter # request[s].counter

RestIInv == RestTypes /\ WindowTracks /\ SealerTracks /\ ServedAreOwed

-----------------------------------------------------------------------------
(* What the invariant says of one counter.                                 *)

LEMMA Marks ==
  ASSUME RestTypes
  PROVE  /\ highWater \in -1..MaxCounter /\ acceptedHighWater \in -1..MaxCounter
         /\ highWater \in Int /\ Width \in Nat \ {0} /\ MaxCounter \in Nat
         /\ Counters \subseteq Nat
  BY WidthAssumption, MaxCounterAssumption
  DEF WidthAssumption, MaxCounterAssumption, RestTypes, RestTypeOK, Counters

\* What the window admits is new to window and sealer, and the sealer takes it.
LEMMA AdmittedIsNew ==
  ASSUME RestIInv, NEW c \in Counters, Admits(c)
  PROVE  admits[c] = 0 /\ records[c] = 0 /\ c \notin outstanding /\ Accepts(c)
<1> USE DEF RestIInv
<1>1. c \in Int /\ highWater \in Int /\ admits[c] \in {0, 1} /\ records[c] \in {0, 1}
  BY Marks DEF RestTypes
<1>2. c > highWater \/ (Inside(c, highWater) /\ Bit(c) \notin seenBits)
  BY <1>1, Marks, BelowIsOutside DEF Admits, Inside
<1>3. admits[c] = 0
  BY <1>1, <1>2 DEF WindowTracks
<1>4. records[c] = 0 /\ c \notin outstanding
  BY <1>1, <1>3 DEF SealerTracks
<1>5. ~BelowWindow(c, acceptedHighWater)
  BY <1>1, <1>2, Marks, BelowIsOutside DEF SealerTracks, Inside
<1>6. ~IsAnswered(c)
  BY <1>1, <1>2, <1>4 DEF IsAnswered, SealerTracks, Sound, Inside
<1> QED BY <1>3, <1>4, <1>5, <1>6 DEF Accepts

LEMMA FreshIsAdmitted ==
  ASSUME RestIInv
  PROVE  FreshIsAdmissible
<1> SUFFICES ASSUME NEW c \in Counters, admits[c] = 0, ~BelowWindow(c, highWater) PROVE Admits(c)
  BY DEF FreshIsAdmissible
<1>1. c \in Int /\ highWater \in Int /\ highWater < c + Width
  BY Marks, BelowIsOutside DEF RestIInv
<1>2. CASE c > highWater
  BY <1>2 DEF Admits
<1>3. CASE ~(c > highWater)
  <2>1. Inside(c, highWater)
    BY <1>1, <1>3 DEF Inside
  <2>2. Bit(c) \notin seenBits
    BY <2>1 DEF RestIInv, WindowTracks
  <2> QED BY <2>2 DEF Admits
<1> QED BY <1>2, <1>3

LEMMA ServedIsArmed ==
  ASSUME RestIInv
  PROVE  OwedIsArmed
<1> SUFFICES ASSUME NEW r \in Requests, Handling(r),
                    ~BelowWindow(request[r].counter, acceptedHighWater)
             PROVE  request[r].counter \in outstanding
  BY DEF OwedIsArmed, Handling
<1> DEFINE c == request[r].counter
<1>1. c \in Counters
  BY DEF RestIInv, RestTypes, RestTypeOK
<1>2. admits[c] = 1
  BY DEF RestIInv, ServedAreOwed
<1>3. c \in Int /\ highWater \in Int /\ ~(c > highWater)
  BY <1>1, <1>2, Marks DEF RestIInv, WindowTracks
<1>4. highWater < c + Width
  BY <1>1, Marks, BelowIsOutside DEF RestIInv, SealerTracks
<1>5. Inside(c, highWater)
  BY <1>3, <1>4 DEF Inside
<1> QED BY <1>5 DEF RestIInv, ServedAreOwed

-----------------------------------------------------------------------------
(* The steps.                                                              *)

\* An admission moves the window and records itself in it.
LEMMA AdmitTracks ==
  ASSUME RestIInv, NEW c \in Counters, Admits(c), Admit(c)
  PROVE  /\ admits' = [admits EXCEPT ![c] = 1] /\ admits' \in [Counters -> {0, 1}]
         /\ highWater' = (IF c > highWater THEN c ELSE highWater)
         /\ highWater' \in -1..MaxCounter /\ seenBits' \in SUBSET Positions
         /\ highWater' >= highWater /\ Inside(c, highWater')
         /\ WindowTracks'
<1> USE DEF RestIInv
<1>1. /\ c \in Nat /\ highWater \in Int /\ highWater \in -1..MaxCounter
      /\ Width \in Nat \ {0} /\ MaxCounter \in Nat /\ c <= MaxCounter
  BY Marks DEF Counters
<1>2. admits[c] = 0
  BY AdmittedIsNew
<1>3. admits' = [admits EXCEPT ![c] = 1] /\ admits' \in [Counters -> {0, 1}]
  BY <1>2 DEF Admit, RestTypes
<1>4. highWater' = (IF c > highWater THEN c ELSE highWater)
  BY DEF Admit
<1>5. highWater' \in -1..MaxCounter /\ highWater' >= highWater
  BY <1>1, <1>4
<1>6. seenBits' \in SUBSET Positions
  BY <1>1, BitTyped DEF Admit, RestTypes, RestTypeOK
<1>7. Inside(c, highWater')
  <2>1. CASE c > highWater
    BY <1>1, <1>4, <2>1 DEF Inside
  <2>2. CASE ~(c > highWater)
    BY <1>1, <1>4, <2>2, BelowIsOutside DEF Inside, Admits
  <2> QED BY <2>1, <2>2
<1>8. ASSUME NEW k \in Counters, k > highWater' PROVE admits'[k] = 0
  <2>1. k > highWater /\ k # c /\ k \in Int
    BY <1>1, <1>4, <1>8, Marks
  <2> QED BY <1>3, <2>1 DEF WindowTracks
<1>9. ASSUME NEW k \in Counters, Inside(k, highWater'), k # c
      PROVE  Bit(k) \in seenBits' <=> admits'[k] = 1
  <2>1. k \in Int /\ Bit(k) # Bit(c)
    BY <1>1, <1>5, <1>7, <1>9, OneOfWindow, Marks
  <2>2. admits'[k] = admits[k]
    BY <1>3, <1>9 DEF RestTypes
  <2>3. CASE c > highWater
    <3>1. /\ highWater' = c /\ seenBits' = {Bit(c)} \cup (seenBits \ Covered(highWater, c))
      BY <1>4, <2>3 DEF Admit
    <3>2. Bit(k) \in Covered(highWater, c) <=> k > highWater
      BY <1>1, <1>9, <2>3, <3>1, Slide
    <3>3. CASE k > highWater
      BY <2>1, <2>2, <3>1, <3>2, <3>3 DEF WindowTracks
    <3>4. CASE ~(k > highWater)
      <4>1. Inside(k, highWater)
        BY <1>1, <1>9, <2>1, <3>1, <3>4, <2>3 DEF Inside
      <4> QED BY <2>1, <2>2, <3>1, <3>2, <3>4, <4>1 DEF WindowTracks
    <3> QED BY <3>3, <3>4
  <2>4. CASE ~(c > highWater)
    <3>1. highWater' = highWater /\ seenBits' = {Bit(c)} \cup seenBits
      BY <1>4, <2>4 DEF Admit
    <3> QED BY <1>9, <2>1, <2>2, <3>1 DEF WindowTracks
  <2> QED BY <2>3, <2>4
<1>10. Bit(c) \in seenBits' /\ admits'[c] = 1
  BY <1>3 DEF Admit, RestTypes
<1>11. WindowTracks'
  BY <1>8, <1>9, <1>10 DEF WindowTracks, Bit, Inside
<1> QED BY <1>3, <1>4, <1>5, <1>6, <1>7, <1>11

\* The sealer's view after an acceptance that is not answered yet.
LEMMA AcceptTracks ==
  ASSUME RestIInv, NEW c \in Counters, Admits(c)
  PROVE  LET mark == AdvancedMark(c)
         IN  /\ mark = (IF c > highWater THEN c ELSE highWater) /\ mark \in -1..MaxCounter
             /\ Inside(c, mark)
             /\ Armed(c) \in SUBSET Counters /\ AdvancedBits(c) \in SUBSET Positions
             /\ Sound(Armed(c), AdvancedBits(c), mark, records)
             /\ c \in Armed(c) /\ Armed(c) \subseteq outstanding \cup {c}
             /\ \A k \in outstanding : Inside(k, mark) => k \in Armed(c)
<1> USE DEF RestIInv
<1> DEFINE mark == AdvancedMark(c)
<1>1. /\ c \in Nat /\ highWater \in Int /\ highWater \in -1..MaxCounter
      /\ Width \in Nat \ {0} /\ MaxCounter \in Nat /\ c <= MaxCounter
  BY Marks DEF Counters
<1>2. mark = (IF c > highWater THEN c ELSE highWater)
  BY DEF AdvancedMark, SealerTracks
<1>3. mark \in -1..MaxCounter /\ mark \in Int /\ mark >= highWater
  BY <1>1, <1>2
<1>4. Inside(c, mark)
  <2>1. CASE c > highWater
    BY <1>1, <1>2, <2>1 DEF Inside
  <2>2. CASE ~(c > highWater)
    BY <1>1, <1>2, <2>2, BelowIsOutside DEF Inside, Admits
  <2> QED BY <2>1, <2>2
<1>5. outstanding \in SUBSET Counters /\ answeredBits \in SUBSET Positions
  BY DEF RestTypes, RestTypeOK
<1>6. \A k \in outstanding : k \in Armed(c) <=> (k = c \/ mark < k + Width)
  BY <1>3, <1>5, BelowIsOutside DEF Armed
<1>7. Armed(c) \subseteq outstanding \cup {c} /\ c \in Armed(c)
  BY DEF Armed
<1>8. ASSUME NEW k \in Armed(c) PROVE records[k] = 0 /\ Inside(k, mark)
  <2>1. CASE k = c
    BY <1>4, <2>1, AdmittedIsNew
  <2>2. CASE k # c
    <3>1. k \in outstanding /\ mark < k + Width
      BY <1>6, <1>7, <1>8, <2>2
    <3>2. records[k] = 0 /\ k <= highWater /\ k \in Int
      BY <1>5, <3>1, Marks DEF SealerTracks, Sound, Inside
    <3> QED BY <1>1, <1>3, <3>1, <3>2 DEF Inside
  <2> QED BY <2>1, <2>2
<1>9. ASSUME NEW k \in Counters, Inside(k, mark), Bit(k) \in AdvancedBits(c)
      PROVE  records[k] = 1
  <2>1. k \in Int
    BY Marks
  <2>2. CASE c > highWater
    <3>1. mark = c /\ Bit(k) \in answeredBits /\ Bit(k) \notin Covered(highWater, c)
      BY <1>2, <1>9, <2>2 DEF AdvancedBits, SealerTracks
    <3>2. k <= highWater
      BY <1>1, <1>9, <2>1, <2>2, <3>1, Slide
    <3>3. Inside(k, highWater)
      BY <1>1, <1>9, <2>1, <2>2, <3>1, <3>2 DEF Inside
    <3> QED BY <3>1, <3>3 DEF SealerTracks, Sound
  <2>3. CASE ~(c > highWater)
    <3>1. mark = highWater /\ Bit(k) \in answeredBits
      BY <1>2, <1>9, <2>3 DEF AdvancedBits, SealerTracks
    <3> QED BY <1>9, <3>1 DEF SealerTracks, Sound
  <2> QED BY <2>2, <2>3
<1>10. Sound(Armed(c), AdvancedBits(c), mark, records)
  BY <1>8, <1>9 DEF Sound
<1>11. \A k \in outstanding : Inside(k, mark) => k \in Armed(c)
  BY <1>6 DEF Inside
<1>12. Armed(c) \in SUBSET Counters /\ AdvancedBits(c) \in SUBSET Positions
  BY <1>5, <1>7 DEF AdvancedBits
<1> HIDE DEF mark
<1> QED BY <1>2, <1>3, <1>4, <1>7, <1>10, <1>11, <1>12 DEF mark

\* A seal is spent once and stands for one record.
LEMMA SealTracks ==
  ASSUME RestIInv, NEW c \in Counters, NEW spent, NEW mark \in Int,
         NEW armed \in SUBSET Counters, NEW bits \in SUBSET Positions,
         Sound(armed, bits, mark, records), SealOnce(spent, c, armed, bits)
  PROVE  /\ outstanding' \in SUBSET armed /\ armed \ {c} \subseteq outstanding'
         /\ answeredBits' \in SUBSET Positions /\ records' \in [Counters -> {0, 1}]
         /\ Sound(outstanding', answeredBits', mark, records')
         /\ \/ records' = records
            \/ c \in armed /\ records[c] = 0 /\ records' = [records EXCEPT ![c] = 1]
<1>1. records \in [Counters -> {0, 1}]
  BY DEF RestIInv, RestTypes
<1>2. CASE MaySeal(spent, c, armed)
  <2>1. c \in armed
    BY <1>2 DEF MaySeal
  <2>2. records[c] = 0 /\ Inside(c, mark)
    BY <2>1 DEF Sound
  <2>3. /\ outstanding' = armed \ {c} /\ answeredBits' = bits \cup {Bit(c)}
        /\ records' = [records EXCEPT ![c] = 1]
    BY <1>2, <2>2 DEF SealOnce
  <2>4. c \in Int /\ Bit(c) \in Positions
    BY Marks, BitTyped DEF RestIInv
  <2>5. records' \in [Counters -> {0, 1}]
    BY <1>1, <2>3
  <2>6. ASSUME NEW k \in outstanding' PROVE records'[k] = 0 /\ Inside(k, mark)
    BY <1>1, <2>3, <2>6 DEF Sound
  <2>7. ASSUME NEW k \in Counters, Inside(k, mark), Bit(k) \in answeredBits' PROVE records'[k] = 1
    <3>1. CASE k = c
      BY <1>1, <2>3, <3>1
    <3>2. CASE k # c
      <4>1. Bit(k) # Bit(c)
        BY <2>2, <2>4, <2>7, <3>2, OneOfWindow, Marks DEF RestIInv
      <4> QED BY <1>1, <2>3, <2>7, <3>2, <4>1 DEF Sound
    <3> QED BY <3>1, <3>2
  <2>8. Sound(outstanding', answeredBits', mark, records')
    BY <2>6, <2>7 DEF Sound
  <2> QED BY <2>1, <2>2, <2>3, <2>4, <2>5, <2>8
<1>3. CASE ~MaySeal(spent, c, armed)
  <2>1. outstanding' = armed /\ answeredBits' = bits /\ records' = records
    BY <1>3 DEF SealOnce
  <2> QED BY <1>1, <2>1
<1> QED BY <1>2, <1>3

\* A step in which request r stops being served, or never was, and at most the answer
\* owed to r is spent.
LEMMA ServedStayOwed ==
  ASSUME RestIInv, NEW r \in Requests, UNCHANGED <<admits, highWater>>,
         \A s \in Requests : s # r => request'[s] = request[s],
         ~Handling(r)',
         \/ UNCHANGED outstanding
         \/ Handling(r) /\ outstanding \ {request[r].counter} \subseteq outstanding'
  PROVE  ServedAreOwed'
<1> USE DEF RestIInv, ServedAreOwed
<1>1. ASSUME NEW s \in Requests, Handling(s)'
      PROVE  s # r /\ Handling(s) /\ request'[s] = request[s]
  BY <1>1 DEF Handling
<1>2. ASSUME NEW s \in Requests, Handling(s)', Inside(request'[s].counter, highWater)
      PROVE  request'[s].counter \in outstanding'
  <2>1. s # r /\ Handling(s) /\ request'[s] = request[s] /\ request[s].counter \in outstanding
    BY <1>1, <1>2
  <2> QED BY <2>1
<1>3. \A s \in Requests : Handling(s)' => admits'[request'[s].counter] = 1
  BY <1>1
<1>4. \A s, t \in Requests : Handling(s)' /\ Handling(t)' /\ s # t
        => request'[s].counter # request'[t].counter
  BY <1>1
<1> QED BY <1>2, <1>3, <1>4 DEF Inside, Handling

LEMMA RespondInv ==
  ASSUME RestIInv, NEW r \in Requests, NEW spent, UNCHANGED <<windowVars, acceptedHighWater, admits>>,
         SealOnce(spent, request[r].counter, outstanding, answeredBits),
         Handling(r) \/ spent = TRUE,
         request' \in [Requests -> [phase : {"idle", "body", "handling", "ended"}, counter : Counters]],
         contextLive' \in BOOLEAN,
         \A s \in Requests : s # r => request'[s] = request[s],
         ~Handling(r)'
  PROVE  RestIInv'
<1> DEFINE c == request[r].counter
<1>1. /\ c \in Counters /\ outstanding \in SUBSET Counters /\ answeredBits \in SUBSET Positions
      /\ acceptedHighWater \in Int /\ acceptedHighWater = highWater
      /\ UNCHANGED <<seenBits, highWater>>
  BY Marks DEF RestIInv, RestTypes, RestTypeOK, SealerTracks, windowVars
<1>2. /\ outstanding' \in SUBSET outstanding /\ outstanding \ {c} \subseteq outstanding'
      /\ answeredBits' \in SUBSET Positions /\ records' \in [Counters -> {0, 1}]
      /\ Sound(outstanding', answeredBits', acceptedHighWater, records')
      /\ \/ records' = records
         \/ c \in outstanding /\ records[c] = 0 /\ records' = [records EXCEPT ![c] = 1]
  BY <1>1, SealTracks DEF RestIInv, SealerTracks
<1>3. RestTypes'
  BY <1>1, <1>2 DEF RestIInv, RestTypes, RestTypeOK
<1>4. WindowTracks'
  BY <1>1 DEF RestIInv, WindowTracks, Inside, Bit
<1>5. SealerTracks'
  <2>1. \A k \in Counters : records'[k] = 1 => admits'[k] = 1
    BY <1>2 DEF RestIInv, RestTypes, SealerTracks
  <2> QED BY <1>1, <1>2, <2>1 DEF RestIInv, SealerTracks
<1>6. ServedAreOwed'
  <2>1. CASE Handling(r)
    BY <1>1, <1>2, <2>1, ServedStayOwed
  <2>2. CASE spent = TRUE
    <3>1. outstanding' = outstanding
      BY <2>2 DEF SealOnce, MaySeal
    <3> QED BY <1>1, <3>1, ServedStayOwed
  <2> QED BY <2>1, <2>2
<1> QED BY <1>3, <1>4, <1>5, <1>6 DEF RestIInv

\* What an unsealed request leaves behind, whichever verdict it meets.
UnsealEffect(r, verdict) ==
  LET c == request[r].counter
  IN  /\ admits[c] = 0 /\ records[c] = 0
      /\ admits' = [admits EXCEPT ![c] = 1]
      /\ records' = records \/ records' = [records EXCEPT ![c] = 1]
      /\ outstanding' \in SUBSET Armed(c) /\ Armed(c) \ {c} \subseteq outstanding'
      /\ verdict = "served" => c \in outstanding'
      /\ acceptedHighWater' = AdvancedMark(c)
      /\ answeredBits' \in SUBSET Positions /\ records' \in [Counters -> {0, 1}]
      /\ Sound(outstanding', answeredBits', AdvancedMark(c), records')

LEMMA UnsealTakes ==
  ASSUME RestIInv, NEW r \in Requests, NEW verdict \in Verdicts, Unseal(r, verdict)
  PROVE  UnsealEffect(r, verdict)
<1> DEFINE c == request[r].counter
<1>1. c \in Counters /\ Admits(c) /\ Admit(c)
  BY DEF RestIInv, RestTypes, RestTypeOK, Unseal
<1>2. admits[c] = 0 /\ records[c] = 0 /\ Accepts(c)
  BY <1>1, AdmittedIsNew
<1>3. admits' = [admits EXCEPT ![c] = 1]
  BY <1>1, AdmitTracks
<1>4. /\ AdvancedMark(c) \in Int /\ Armed(c) \in SUBSET Counters /\ AdvancedBits(c) \in SUBSET Positions
      /\ Sound(Armed(c), AdvancedBits(c), AdvancedMark(c), records) /\ c \in Armed(c)
  BY <1>1, AcceptTracks
<1>5. acceptedHighWater' = AdvancedMark(c)
  BY <1>2 DEF Unseal
<1>6. CASE RefusesSealed(verdict)
  <2>1. verdict # "served"
    BY <1>6 DEF RefusesSealed
  <2>2. PICK spent \in BOOLEAN : SealOnce(spent, c, Armed(c), AdvancedBits(c))
    BY <1>2, <1>6 DEF Unseal
  <2>3. /\ outstanding' \in SUBSET Armed(c) /\ Armed(c) \ {c} \subseteq outstanding'
        /\ answeredBits' \in SUBSET Positions /\ records' \in [Counters -> {0, 1}]
        /\ Sound(outstanding', answeredBits', AdvancedMark(c), records')
        /\ records' = records \/ records' = [records EXCEPT ![c] = 1]
    BY <1>1, <1>4, <2>2, SealTracks
  <2> QED BY <1>2, <1>3, <1>5, <2>1, <2>3 DEF UnsealEffect
<1>7. CASE ~RefusesSealed(verdict)
  <2>1. outstanding' = Armed(c) /\ answeredBits' = AdvancedBits(c) /\ records' = records
    BY <1>2, <1>7 DEF Unseal
  <2>2. records \in [Counters -> {0, 1}]
    BY DEF RestIInv, RestTypes
  <2> QED BY <1>2, <1>3, <1>4, <1>5, <2>1, <2>2 DEF UnsealEffect
<1> QED BY <1>6, <1>7

LEMMA CountsAreNats ==
  ASSUME NEW f \in [Counters -> {0, 1}]
  PROVE  f \in [Counters -> Nat]
  OBVIOUS

LEMMA UnsealInv ==
  ASSUME RestIInv, NEW r \in Requests, NEW verdict \in Verdicts, Unseal(r, verdict)
  PROVE  RestIInv'
<1> DEFINE c == request[r].counter
           mark == AdvancedMark(c)
<1>1. c \in Counters /\ Admits(c) /\ Admit(c)
  BY DEF RestIInv, RestTypes, RestTypeOK, Unseal
<1>2. /\ admits' = [admits EXCEPT ![c] = 1] /\ admits' \in [Counters -> {0, 1}]
      /\ highWater' = (IF c > highWater THEN c ELSE highWater)
      /\ highWater' \in -1..MaxCounter /\ seenBits' \in SUBSET Positions
      /\ highWater' >= highWater /\ WindowTracks'
  BY <1>1, AdmitTracks
<1>3. /\ mark = highWater' /\ mark \in -1..MaxCounter
      /\ Armed(c) \in SUBSET Counters /\ Armed(c) \subseteq outstanding \cup {c}
      /\ \A k \in outstanding : Inside(k, mark) => k \in Armed(c)
  BY <1>1, <1>2, AcceptTracks
<1>4. /\ admits[c] = 0 /\ outstanding' \in SUBSET Armed(c) /\ Armed(c) \ {c} \subseteq outstanding'
      /\ verdict = "served" => c \in outstanding'
      /\ acceptedHighWater' = mark
      /\ answeredBits' \in SUBSET Positions /\ records' \in [Counters -> {0, 1}]
      /\ records' = records \/ records' = [records EXCEPT ![c] = 1]
      /\ Sound(outstanding', answeredBits', mark, records')
  BY UnsealTakes DEF UnsealEffect
<1>5. /\ request' = [request EXCEPT ![r] = IF verdict = "served"
                                           THEN [phase |-> "handling", counter |-> c] ELSE Idle]
      /\ contextLive' \in BOOLEAN
  <2>1. Accepts(c)
    BY <1>1, AdmittedIsNew
  <2> QED BY <2>1 DEF Unseal
<1>6. RestTypes'
  <2>1. 0 \in Counters
    BY MaxCounterAssumption DEF MaxCounterAssumption, Counters
  <2>2. request' \in [Requests -> [phase : {"idle", "body", "handling", "ended"}, counter : Counters]]
    BY <1>1, <1>5, <2>1 DEF RestIInv, RestTypes, RestTypeOK, Idle
  <2>3. outstanding' \in SUBSET Counters
    BY <1>3, <1>4
  <2>4. admits' \in [Counters -> Nat] /\ records' \in [Counters -> Nat]
    BY <1>2, <1>4, CountsAreNats
  <2>5. acceptedHighWater' \in -1..MaxCounter
    BY <1>3, <1>4
  <2>6. /\ seenBits' \in SUBSET Positions /\ answeredBits' \in SUBSET Positions
        /\ highWater' \in -1..MaxCounter /\ contextLive' \in BOOLEAN
    BY <1>2, <1>4, <1>5
  <2>7. RestTypeOK'
    BY <2>2, <2>3, <2>4, <2>5, <2>6 DEF RestTypeOK
  <2> QED BY <1>2, <1>4, <2>7 DEF RestTypes
<1>7. SealerTracks'
  <2>1. \A k \in Counters : admits[k] = 1 => admits'[k] = 1
    BY <1>1, <1>2, <1>4 DEF RestIInv, RestTypes
  <2>2. admits'[c] = 1
    BY <1>1, <1>2 DEF RestIInv, RestTypes
  <2>3. \A k \in outstanding' : admits'[k] = 1
    BY <1>3, <1>4, <2>1, <2>2 DEF RestIInv, RestTypes, RestTypeOK, SealerTracks
  <2>4. \A k \in Counters : records'[k] = 1 => admits'[k] = 1
    BY <1>4, <2>1, <2>2 DEF RestIInv, RestTypes, SealerTracks
  <2> QED BY <1>3, <1>4, <2>3, <2>4 DEF SealerTracks
<1>8. ServedAreOwed'
  <2>1. ASSUME NEW s \in Requests, s # r, Handling(s)'
        PROVE  /\ Handling(s) /\ request'[s] = request[s] /\ request[s].counter # c
               /\ admits'[request[s].counter] = 1
               /\ Inside(request[s].counter, highWater') => request[s].counter \in outstanding'
    <3> DEFINE d == request[s].counter
    <3>1. Handling(s) /\ request'[s] = request[s] /\ d \in Counters
      BY <1>5, <2>1 DEF Handling, RestIInv, RestTypes, RestTypeOK
    <3>2. admits[d] = 1 /\ d # c
      BY <1>4, <3>1 DEF RestIInv, ServedAreOwed
    <3>3. admits'[d] = 1
      BY <1>2, <3>1, <3>2 DEF RestIInv, RestTypes
    <3>4. ASSUME Inside(d, highWater') PROVE d \in outstanding'
      <4>1. d <= highWater
        BY <3>1, <3>2, Marks DEF RestIInv, WindowTracks
      <4>2. d \in Int /\ highWater \in Int /\ highWater' \in Int /\ Width \in Int
        BY <1>2, <3>1, Marks DEF RestIInv
      <4>3. Inside(d, highWater)
        BY <1>2, <3>4, <4>1, <4>2 DEF Inside
      <4>4. d \in outstanding
        BY <3>1, <4>3 DEF RestIInv, ServedAreOwed
      <4> QED BY <1>3, <1>4, <3>2, <3>4, <4>4
    <3> QED BY <3>1, <3>2, <3>3, <3>4
  <2>2. ASSUME Handling(r)'
        PROVE  request'[r].counter = c /\ admits'[c] = 1 /\ c \in outstanding'
    <3>1. verdict = "served" /\ request'[r] = [phase |-> "handling", counter |-> c]
      BY <1>5, <2>2 DEF Handling, Idle, RestIInv, RestTypes, RestTypeOK
    <3> QED BY <1>1, <1>2, <1>4, <3>1 DEF RestIInv, RestTypes
  <2>3. ASSUME NEW s \in Requests, Handling(s)'
        PROVE  /\ admits'[request'[s].counter] = 1
               /\ Inside(request'[s].counter, highWater') => request'[s].counter \in outstanding'
    BY <2>1, <2>2, <2>3
  <2>4. ASSUME NEW s \in Requests, NEW t \in Requests, Handling(s)', Handling(t)', s # t
        PROVE  request'[s].counter # request'[t].counter
    <3>1. CASE s # r /\ t # r
      BY <2>1, <2>4, <3>1 DEF RestIInv, ServedAreOwed
    <3>2. CASE s = r \/ t = r
      BY <2>1, <2>2, <2>4, <3>2
    <3> QED BY <3>1, <3>2
  <2> QED BY <2>3, <2>4 DEF ServedAreOwed, Inside, Handling
<1> QED BY <1>2, <1>6, <1>7, <1>8 DEF RestIInv

\* A request that comes or is turned away, or a context that is destroyed, changes neither
\* window nor sealer.
LEMMA FrameInv ==
  ASSUME RestIInv, UNCHANGED <<windowVars, sealerVars, admits, records>>, contextLive' \in BOOLEAN,
         request' \in [Requests -> [phase : {"idle", "body", "handling", "ended"}, counter : Counters]],
         \A s \in Requests : Handling(s)' => request'[s] = request[s]
  PROVE  RestIInv'
<1>1. RestTypes' /\ WindowTracks' /\ SealerTracks'
  BY DEF windowVars, sealerVars, RestIInv, RestTypes, RestTypeOK, WindowTracks, SealerTracks, Sound,
         Inside, Bit
<1>2. \A s \in Requests : Handling(s)' => Handling(s)
  BY DEF Handling
<1>3. ServedAreOwed'
  BY <1>2 DEF windowVars, sealerVars, RestIInv, ServedAreOwed, Inside
<1> QED BY <1>1, <1>3 DEF RestIInv

LEMMA ReopenInv ==
  ASSUME RestIInv, ReopenContext
  PROVE  RestIInv'
<1>1. MaxCounter \in Nat /\ Width \in Nat
  BY WidthAssumption, MaxCounterAssumption DEF WidthAssumption, MaxCounterAssumption
<1>2. RestTypes'
  BY <1>1 DEF ReopenContext, RestIInv, RestTypes, RestTypeOK
<1>3. WindowTracks' /\ SealerTracks'
  BY <1>1 DEF ReopenContext, WindowTracks, SealerTracks, Sound, Inside, Counters
<1>4. \A r \in Requests : ~Handling(r)'
  BY DEF ReopenContext, Handling, Idle
<1>5. ServedAreOwed'
  BY <1>4 DEF ServedAreOwed
<1> QED BY <1>2, <1>3, <1>5 DEF RestIInv

LEMMA RestStep == RestIInv /\ [RestNext]_restVars => RestIInv'
<1> SUFFICES ASSUME RestIInv, [RestNext]_restVars PROVE RestIInv'
  OBVIOUS
<1> DEFINE Requested == [Requests -> [phase : {"idle", "body", "handling", "ended"}, counter : Counters]]
<1>1. request \in Requested /\ contextLive \in BOOLEAN /\ Idle \in [phase : {"idle"}, counter : Counters]
  BY MaxCounterAssumption DEF MaxCounterAssumption, RestIInv, RestTypes, RestTypeOK, Idle, Counters
<1>2. ASSUME NEW r \in Requests, NEW c \in Counters, Arrive(r, c) PROVE RestIInv'
  <2>1. request' \in Requested /\ \A s \in Requests : Handling(s)' => request'[s] = request[s]
    BY <1>1, <1>2 DEF Arrive, Handling
  <2> QED BY <1>1, <1>2, <2>1, FrameInv DEF Arrive
<1>3. ASSUME NEW r \in Requests, Refuse(r) PROVE RestIInv'
  <2>1. request' \in Requested /\ \A s \in Requests : Handling(s)' => request'[s] = request[s]
    BY <1>1, <1>3 DEF Refuse, Handling, Idle
  <2> QED BY <1>1, <1>3, <2>1, FrameInv DEF Refuse
<1>4. ASSUME NEW r \in Requests, Respond(r) PROVE RestIInv'
  <2>1. /\ request' \in Requested /\ ~Handling(r)'
        /\ \A s \in Requests : s # r => request'[s] = request[s]
    BY <1>1, <1>4 DEF Respond, Handling
  <2> QED BY <1>1, <1>4, <2>1, RespondInv DEF Respond, Handling
<1>5. ASSUME NEW r \in Requests, EndAgain(r) PROVE RestIInv'
  <2>1. /\ request' \in Requested /\ ~Handling(r)'
        /\ \A s \in Requests : s # r => request'[s] = request[s]
    BY <1>1, <1>5 DEF EndAgain, Handling, Idle
  <2> QED BY <1>1, <1>5, <2>1, RespondInv DEF EndAgain
<1>6. CASE DestroyContext
  BY <1>1, <1>6, FrameInv DEF DestroyContext
<1>7. CASE ReopenContext
  BY <1>7, ReopenInv
<1>8. CASE UNCHANGED restVars
  BY <1>1, <1>8, FrameInv DEF restVars
<1> QED
  BY <1>2, <1>3, <1>4, <1>5, <1>6, <1>7, <1>8, UnsealInv DEF RestNext

LEMMA RestBegins == RestInit => RestIInv
<1> SUFFICES ASSUME RestInit PROVE RestIInv
  OBVIOUS
<1>1. MaxCounter \in Nat /\ Width \in Nat
  BY WidthAssumption, MaxCounterAssumption DEF WidthAssumption, MaxCounterAssumption
<1>2. RestTypes
  BY <1>1 DEF RestInit, RestTypes, RestTypeOK, Idle, Counters
<1>3. WindowTracks /\ SealerTracks
  BY <1>1 DEF RestInit, WindowTracks, SealerTracks, Sound, Inside, Counters
<1>4. \A r \in Requests : ~Handling(r)
  BY DEF RestInit, Handling, Idle
<1>5. ServedAreOwed
  BY <1>4 DEF ServedAreOwed
<1> QED BY <1>2, <1>3, <1>5 DEF RestIInv

-----------------------------------------------------------------------------
(* The theorems.                                                           *)

\* rest-window.ts and RestResponseSealer: for every width, a counter never seen and not out of
\* the window is admitted, what is admitted can be answered (accept() after admit() never
\* throws), and what is served stays armed while it is in the window.
THEOREM RestHolds == RestSpec => []RestInv
<1>1. RestIInv => RestInv
  <2>1. RestIInv => AdmittedIsAnswerable
    BY AdmittedIsNew DEF AdmittedIsAnswerable
  <2> QED BY <2>1, FreshIsAdmitted, ServedIsArmed DEF RestInv, RestIInv, RestTypes
<1> QED
  BY <1>1, RestBegins, RestStep, PTL DEF RestSpec

\* No nonce is used twice: a counter of a context has one record sealed under it at most.
THEOREM NoncesAreFresh == RestSpec => []OneRecordPerCounter
<1>1. RestIInv => OneRecordPerCounter
  BY DEF RestIInv, RestTypes, OneRecordPerCounter
<1> QED
  BY <1>1, RestBegins, RestStep, PTL DEF RestSpec

\* Every step of window, sealer and middleware is a step of the abstract channel: a counter is
\* taken once, and answered once and only after it was taken.
THEOREM ChannelImplementsGuard == RestSpec => ImplementsReplayGuard
<1>1. RestInit => Guard!Init
  BY DEF RestInit, Guard!Init, Guard!None
<1>2. RestIInv /\ [RestNext]_restVars => [Guard!Next]_<<admits, records>>
  <2> SUFFICES ASSUME RestIInv, RestNext PROVE Guard!Next \/ UNCHANGED <<admits, records>>
    BY DEF restVars
  <2>1. ASSUME NEW r \in Requests, NEW v \in Verdicts, Unseal(r, v) PROVE Guard!Next
    <3> DEFINE c == request[r].counter
    <3>1. /\ c \in Counters /\ admits[c] = 0 /\ records[c] = 0
          /\ admits' = [admits EXCEPT ![c] = 1]
          /\ records' = records \/ records' = [records EXCEPT ![c] = 1]
      BY <2>1, UnsealTakes DEF UnsealEffect, RestIInv, RestTypes, RestTypeOK
    <3>2. Guard!Take(c) \/ Guard!TakeAndAnswer(c)
      BY <3>1 DEF Guard!Take, Guard!TakeAndAnswer
    <3> QED BY <3>1, <3>2 DEF Guard!Next
  <2>2. ASSUME NEW r \in Requests, Respond(r) \/ EndAgain(r)
        PROVE  Guard!Next \/ UNCHANGED <<admits, records>>
    <3> DEFINE c == request[r].counter
    <3>1. /\ c \in Counters /\ outstanding \in SUBSET Counters /\ answeredBits \in SUBSET Positions
          /\ acceptedHighWater \in Int
          /\ Sound(outstanding, answeredBits, acceptedHighWater, records)
      BY Marks DEF RestIInv, RestTypes, RestTypeOK, SealerTracks
    <3>2. PICK spent \in BOOLEAN : SealOnce(spent, c, outstanding, answeredBits)
      BY <2>2 DEF Respond, EndAgain
    <3>3. \/ records' = records
          \/ c \in outstanding /\ records[c] = 0 /\ records' = [records EXCEPT ![c] = 1]
      BY <3>1, <3>2, SealTracks
    <3>4. c \in outstanding => admits[c] = 1
      BY DEF RestIInv, SealerTracks
    <3>5. admits' = admits
      BY <2>2 DEF Respond, EndAgain
    <3> QED BY <3>1, <3>3, <3>4, <3>5 DEF Guard!Next, Guard!Answer
  <2>3. CASE ReopenContext
    BY <2>3 DEF ReopenContext, Guard!Next, Guard!Forget, Guard!None
  <2>4. CASE \/ DestroyContext
             \/ \E r \in Requests : Refuse(r) \/ \E c \in Counters : Arrive(r, c)
    BY <2>4 DEF DestroyContext, Refuse, Arrive
  <2> QED BY <2>1, <2>2, <2>3, <2>4 DEF RestNext
<1> QED
  BY <1>1, <1>2, RestBegins, RestStep, PTL DEF RestSpec, ImplementsReplayGuard, Guard!Spec

-----------------------------------------------------------------------------
(* The encrypted sockets.                                                  *)

Entry == [expires : 0..Lifetime, retire : Off..DrainTime, ticket : Off..TicketTTL, provisional : BOOLEAN]

RegistryOK ==
  /\ Registered \subseteq Contexts /\ IsFiniteSet(Registered) /\ OpenedInTurn
  /\ \A c \in Registered : registry[c] \in Entry

LiveContexts == {c \in Registered : registry[c].retire = Off}

-----------------------------------------------------------------------------
(* Eviction.                                                               *)

\* Eviction goes by a strict total order of the contexts held.
LEMMA EvictionOrders ==
  ASSUME RegistryOK, NEW c \in Registered, NEW d \in Registered
  PROVE  /\ ~EvictedBefore(c, c)
         /\ c # d => EvictedBefore(c, d) \/ EvictedBefore(d, c)
         /\ \A e \in Registered : EvictedBefore(c, d) /\ EvictedBefore(d, e) => EvictedBefore(c, e)
<1>1. \A x \in Registered : registry[x].provisional \in BOOLEAN
  BY DEF RegistryOK, Entry
<1>2. /\ ~Older(c, c)
      /\ c # d => Older(c, d) \/ Older(d, c)
      /\ \A e \in Registered : Older(c, d) /\ Older(d, e) => Older(c, e)
  BY DEF RegistryOK, OpenedInTurn, Older
<1> QED BY <1>1, <1>2 DEF EvictedBefore

\* Those of K that go before c.
Before(K, c) == {d \in K : EvictedBefore(d, c)}

LEMMA RankTyped ==
  ASSUME RegistryOK, NEW K \in SUBSET Registered, NEW c \in K
  PROVE  /\ IsFiniteSet(K) /\ Cardinality(K) \in Nat
         /\ IsFiniteSet(Before(K, c)) /\ Cardinality(Before(K, c)) \in Nat
         /\ Cardinality(Before(K, c)) < Cardinality(K)
<1>1. IsFiniteSet(K)
  BY FS_Subset DEF RegistryOK
<1>2. Before(K, c) \in SUBSET K /\ c \notin Before(K, c)
  BY EvictionOrders DEF Before
<1>3. IsFiniteSet(Before(K, c)) /\ Cardinality(Before(K, c)) <= Cardinality(K)
  BY <1>1, <1>2, FS_Subset
<1>4. Cardinality(K) # Cardinality(Before(K, c))
  BY <1>1, <1>2, FS_Subset
<1>5. Cardinality(K) \in Nat /\ Cardinality(Before(K, c)) \in Nat
  BY <1>1, <1>3, FS_CardinalityType
<1> QED BY <1>1, <1>3, <1>4, <1>5

\* What goes before another one has the lower rank.
LEMMA RankRises ==
  ASSUME RegistryOK, NEW K \in SUBSET Registered, NEW c \in K, NEW d \in K, EvictedBefore(c, d)
  PROVE  Cardinality(Before(K, c)) < Cardinality(Before(K, d))
<1>1. Before(K, c) \in SUBSET Before(K, d)
  BY EvictionOrders DEF Before
<1>2. c \in Before(K, d) /\ c \notin Before(K, c)
  BY EvictionOrders DEF Before
<1>3. IsFiniteSet(Before(K, d)) /\ Cardinality(Before(K, c)) \in Nat /\ Cardinality(Before(K, d)) \in Nat
  BY RankTyped
<1>4. Cardinality(Before(K, c)) <= Cardinality(Before(K, d))
  BY <1>1, <1>3, FS_Subset
<1>5. Cardinality(Before(K, d)) # Cardinality(Before(K, c))
  BY <1>1, <1>2, <1>3, FS_Subset
<1> QED BY <1>3, <1>4, <1>5

\* Eviction leaves room for the context that is being opened.
LEMMA Survivors ==
  ASSUME RegistryOK, NEW K \in SUBSET Registered
  PROVE  IsFiniteSet(K \ Victims(K)) /\ Cardinality(K \ Victims(K)) <= Cap - 1
<1> DEFINE n == Cardinality(K)
           left == K \ Victims(K)
           rank == [c \in left |-> Cardinality(Before(K, c))]
           low == n + 1 - Cap
<1>1. Cap \in Nat /\ Cap >= 1 /\ IsFiniteSet(K) /\ n \in Nat
  BY CapAssumption, FS_Subset, FS_CardinalityType DEF CapAssumption, RegistryOK
<1>2. \A c \in left : ~(Cardinality(Before(K, c)) < low)
  BY DEF Victims, Before
<1>3. CASE low <= 0
  <2>1. left \in SUBSET K
    OBVIOUS
  <2>2. IsFiniteSet(left) /\ Cardinality(left) <= n
    BY <1>1, <2>1, FS_Subset
  <2>3. Cardinality(left) \in Nat
    BY <2>2, FS_CardinalityType
  <2> QED BY <1>1, <1>3, <2>2, <2>3
<1>4. CASE low > 0
  <2>1. rank \in [left -> low..(n - 1)]
    <3> SUFFICES ASSUME NEW c \in left PROVE Cardinality(Before(K, c)) \in low..(n - 1)
      OBVIOUS
    <3>1. Cardinality(Before(K, c)) \in Nat /\ Cardinality(Before(K, c)) < n
      BY RankTyped
    <3> QED BY <1>1, <1>2, <3>1
  <2>2. ASSUME NEW c \in left, NEW d \in left, c # d PROVE rank[c] # rank[d]
    <3>1. EvictedBefore(c, d) \/ EvictedBefore(d, c)
      BY <2>2, EvictionOrders
    <3>2. Cardinality(Before(K, c)) \in Nat /\ Cardinality(Before(K, d)) \in Nat
      BY RankTyped
    <3>3. Cardinality(Before(K, c)) # Cardinality(Before(K, d))
      BY <3>1, <3>2, RankRises
    <3> QED BY <3>3
  <2>3. rank \in Injection(left, low..(n - 1))
    <3> HIDE DEF rank, left, low, n
    <3>1. DOMAIN rank = left
      BY <2>1
    <3> QED BY <2>1, <2>2, <3>1 DEF Injection, IsInjective
  <2>4. IsFiniteSet(low..(n - 1)) /\ Cardinality(low..(n - 1)) = Cap - 1
    <3>1. low \in Int /\ n - 1 \in Int /\ (IF low > n - 1 THEN 0 ELSE (n - 1) - low + 1) = Cap - 1
      BY <1>1
    <3> HIDE DEF low, n
    <3>2. \A a, b \in Int : /\ IsFiniteSet(a..b)
                            /\ Cardinality(a..b) = IF a > b THEN 0 ELSE b - a + 1
      BY FS_Interval
    <3> QED BY <3>1, <3>2
  <2>5. IsFiniteSet(left) /\ Cardinality(left) <= Cardinality(low..(n - 1))
    <3> HIDE DEF rank, left, low
    <3> QED BY <2>3, <2>4, FS_Injection
  <2> QED BY <2>4, <2>5
<1>5. low \in Int
  BY <1>1
<1> QED BY <1>3, <1>4, <1>5

\* Whoever makes room goes unused ones first.
LEMMA UnusedGoFirst ==
  ASSUME RegistryOK, NEW K \in SUBSET Registered, NEW c \in Victims(K), ~registry[c].provisional,
         NEW d \in K, registry[d].provisional
  PROVE  d \in Victims(K)
<1>1. c \in K /\ Cardinality(Before(K, c)) < Cardinality(K) + 1 - Cap
  BY DEF Victims, Before
<1>2. EvictedBefore(d, c)
  BY DEF EvictedBefore
<1>3. Cardinality(Before(K, d)) < Cardinality(Before(K, c))
  BY <1>1, <1>2, RankRises
<1>4. /\ Cardinality(Before(K, d)) \in Nat /\ Cardinality(Before(K, c)) \in Nat
      /\ Cardinality(K) \in Nat /\ Cap \in Nat
  BY <1>1, RankTyped, CapAssumption DEF CapAssumption
<1>5. Cardinality(Before(K, d)) < Cardinality(K) + 1 - Cap
  BY <1>1, <1>3, <1>4
<1> QED BY <1>5 DEF Victims, Before

-----------------------------------------------------------------------------
(* The registry.                                                           *)

\* A table that only loses contexts, or lets some retire, keeps its bound.
LEMMA RegistryShrinks ==
  ASSUME RegistryOK, CapBoundsLive, Registered' \subseteq Registered,
         \A c \in Registered' : registry'[c] \in Entry /\ (registry'[c].retire = Off => registry[c].retire = Off),
         openOrder' = openOrder \cap (Registered' \X Registered')
  PROVE  RegistryOK' /\ CapBoundsLive'
<1>1. Registered' \in SUBSET Registered /\ Registered' \subseteq Contexts
  BY DEF RegistryOK
<1>2. IsFiniteSet(Registered')
  BY <1>1, FS_Subset DEF RegistryOK
<1>3. OpenedInTurn'
  BY <1>1 DEF RegistryOK, OpenedInTurn
<1>4. LiveContexts' \in SUBSET LiveContexts
  BY <1>1 DEF LiveContexts
<1>5. IsFiniteSet(LiveContexts) /\ LiveContexts \in SUBSET Registered
  BY FS_Subset DEF RegistryOK, LiveContexts
<1>6. /\ IsFiniteSet(LiveContexts') /\ Cardinality(LiveContexts') <= Cardinality(LiveContexts)
      /\ Cardinality(LiveContexts) <= Cap
      /\ Cardinality(LiveContexts') \in Nat /\ Cardinality(LiveContexts) \in Nat
  <2>1. IsFiniteSet(LiveContexts') /\ Cardinality(LiveContexts') <= Cardinality(LiveContexts)
    BY <1>4, <1>5, FS_Subset
  <2>2. Cardinality(LiveContexts) <= Cap
    BY DEF CapBoundsLive, LiveContexts
  <2> QED BY <1>5, <2>1, <2>2, FS_CardinalityType
<1>7. Cardinality(LiveContexts') <= Cap
  BY <1>6, CapAssumption DEF CapAssumption
<1>8. CapBoundsLive'
  BY <1>7 DEF CapBoundsLive, LiveContexts
<1> QED BY <1>1, <1>2, <1>3, <1>8 DEF RegistryOK

\* What the steps that open nothing do to the table.
Reduces ==
  /\ RegistryOK' /\ CapBoundsLive' /\ Registered' \subseteq Registered
  /\ \A c \in Registered' : /\ registry'[c].ticket # Off => registry[c].ticket # Off
                            /\ registry'[c].retire = Off <=> registry[c].retire = Off

LEMMA Unchanging ==
  ASSUME RegistryOK, CapBoundsLive, UNCHANGED registryVars
  PROVE  Reduces
<1>1. registry' = registry /\ openOrder' = openOrder
  BY DEF registryVars
<1>2. Registered' = Registered
  BY <1>1 DEF Registered
<1>3. OpenedInTurn'
  <2> DEFINE InTurn(order, held) ==
        /\ order \subseteq held \X held
        /\ \A c, d \in held :
             /\ c # d => (<<c, d>> \in order <=> <<d, c>> \notin order)
             /\ <<c, c>> \notin order
             /\ \A e \in held : <<c, d>> \in order /\ <<d, e>> \in order => <<c, e>> \in order
  <2>1. InTurn(openOrder, Registered)
    BY DEF RegistryOK, OpenedInTurn
  <2>2. InTurn(openOrder', Registered') => OpenedInTurn'
    BY DEF OpenedInTurn
  <2> HIDE DEF InTurn
  <2> QED BY <1>1, <1>2, <2>1, <2>2
<1>4. CapBoundsLive'
  <2>1. \A c : registry'[c].retire = registry[c].retire
    BY <1>1
  <2>2. {c \in Registered' : registry'[c].retire = Off} = {c \in Registered : registry[c].retire = Off}
    BY <1>2, <2>1
  <2> QED BY <2>2 DEF CapBoundsLive
<1>5. RegistryOK'
  BY <1>1, <1>2, <1>3 DEF RegistryOK
<1> QED BY <1>1, <1>2, <1>4, <1>5 DEF Reduces

LEMMA Destroying ==
  ASSUME RegistryOK, CapBoundsLive, NEW D, Destroy(D)
  PROVE  Reduces /\ Registered' = Registered \ D
<1>1. Registered' = Registered \ D /\ \A c \in Registered' : registry'[c] = registry[c]
  BY DEF Destroy, Without, Restrict, Registered
<1>2. openOrder' = openOrder \cap (Registered' \X Registered')
  <2>1. openOrder \subseteq Registered \X Registered
    BY DEF RegistryOK, OpenedInTurn
  <2>2. openOrder' = {p \in openOrder : p[1] \notin D /\ p[2] \notin D}
    BY DEF Destroy
  <2> QED BY <1>1, <2>1, <2>2
<1>3. RegistryOK' /\ CapBoundsLive'
  BY <1>1, <1>2, RegistryShrinks DEF RegistryOK
<1> QED BY <1>1, <1>3 DEF Reduces

LEMMA Spending ==
  ASSUME RegistryOK, CapBoundsLive, NEW c \in Registered, registry' = Spent(c), UNCHANGED openOrder
  PROVE  Reduces /\ Registered' = Registered /\ registry'[c].ticket = Off
<1>1. Registered' = Registered /\ \A x \in Registered : x # c => registry'[x] = registry[x]
  BY DEF Spent, Registered
<1>2. /\ registry'[c] \in Entry /\ registry'[c].ticket = Off
      /\ registry'[c].retire = registry[c].retire
  <2> DEFINE e == registry[c]
             used == [e EXCEPT !.provisional = FALSE, !.expires = Lifetime]
  <2>1. e \in Entry
    BY DEF RegistryOK
  <2>2. Lifetime \in 0..Lifetime /\ Off \in Off..TicketTTL
    BY ClockAssumption DEF ClockAssumption, Off
  <2>3. used \in Entry /\ used.retire = e.retire
    BY <2>1, <2>2 DEF Entry
  <2>4. registry'[c] \in {[e EXCEPT !.ticket = Off], [used EXCEPT !.ticket = Off]}
    BY DEF Spent, MarkUsed, Registered
  <2> HIDE DEF used, e
  <2>5. \A x \in {e, used} : /\ [x EXCEPT !.ticket = Off] \in Entry /\ [x EXCEPT !.ticket = Off].ticket = Off
                             /\ [x EXCEPT !.ticket = Off].retire = e.retire
    BY <2>1, <2>2, <2>3 DEF Entry
  <2>6. e = registry[c]
    BY DEF e
  <2> QED BY <2>4, <2>5, <2>6
<1>3. openOrder' = openOrder \cap (Registered' \X Registered')
  BY <1>1 DEF RegistryOK, OpenedInTurn
<1>4. \A x \in Registered' : registry'[x] \in Entry /\ registry'[x].retire = registry[x].retire
  BY <1>1, <1>2 DEF RegistryOK
<1>5. RegistryOK' /\ CapBoundsLive'
  BY <1>1, <1>3, <1>4, RegistryShrinks
<1> QED BY <1>1, <1>2, <1>4, <1>5 DEF Reduces

LEMMA Ticking ==
  ASSUME RegistryOK, CapBoundsLive, Tick
  PROVE  Reduces
<1>1. Registered' = Registered /\ UNCHANGED openOrder
  BY DEF Tick, Registered
<1>2. ASSUME NEW c \in Registered
      PROVE  /\ registry'[c] \in Entry
             /\ registry'[c].retire = Off <=> registry[c].retire = Off
             /\ registry'[c].ticket = Off <=> registry[c].ticket = Off
  <2> DEFINE e == registry[c]
  <2>1. /\ e \in Entry /\ e.expires \in 0..Lifetime /\ e.retire \in Off..DrainTime
        /\ e.ticket \in Off..TicketTTL /\ e.provisional \in BOOLEAN
    BY DEF RegistryOK, Entry
  <2>2. /\ Running(e.expires) \in 0..Lifetime /\ Running(e.retire) \in Off..DrainTime
        /\ Running(e.ticket) \in Off..TicketTTL
        /\ Running(e.retire) = Off <=> e.retire = Off
        /\ Running(e.ticket) = Off <=> e.ticket = Off
    BY <2>1, ClockAssumption DEF ClockAssumption, Running, Off
  <2>3. registry'[c] = [e EXCEPT !.expires = Running(e.expires), !.retire = Running(e.retire),
                                 !.ticket = Running(e.ticket)]
    BY DEF Tick
  <2> HIDE DEF e
  <2>4. /\ registry'[c].expires = Running(e.expires) /\ registry'[c].retire = Running(e.retire)
        /\ registry'[c].ticket = Running(e.ticket)
    BY <2>1, <2>3 DEF Entry
  <2>5. registry'[c] \in Entry
    BY <2>1, <2>2, <2>3 DEF Entry
  <2> QED BY <2>2, <2>4, <2>5 DEF e
<1>3. openOrder' = openOrder \cap (Registered' \X Registered')
  BY <1>1 DEF RegistryOK, OpenedInTurn
<1>4. RegistryOK' /\ CapBoundsLive'
  BY <1>1, <1>2, <1>3, RegistryShrinks
<1> QED BY <1>1, <1>2, <1>4 DEF Reduces

Kept == {x \in Registered : ~PastDeadline(x)}
Candidates == {x \in Kept : registry[x].retire = Off}

\* An open sweeps the dead, drains the victims and lists the new context as the youngest.
LEMMA Opened ==
  ASSUME RegistryOK, NEW c \in Contexts, Open(c)
  PROVE  /\ c \notin Registered /\ Registered' = Kept \cup {c}
         /\ registry'[c] \in Entry /\ registry'[c].retire = Off
         /\ \A x \in Kept :
              /\ registry'[x] \in Entry
              /\ registry'[x].ticket # Off => registry[x].ticket # Off
              /\ registry'[x].retire = Off <=> registry[x].retire = Off /\ x \notin Victims(Candidates)
         /\ openOrder' = (openOrder \cap (Kept \X Kept)) \cup (Kept \X {c})
<1>1. c \notin Registered /\ Registered' = Kept \cup {c}
  BY DEF Open, Kept, Registered
<1>2. openOrder' = (openOrder \cap (Kept \X Kept)) \cup (Kept \X {c})
  BY DEF Open, Kept
<1>3. Lifetime \in Nat /\ DrainTime \in Nat \ {0} /\ TicketTTL \in Nat /\ TicketTTL <= Lifetime
  BY ClockAssumption DEF ClockAssumption
<1>4. registry'[c] = [expires |-> TicketTTL, retire |-> Off, ticket |-> TicketTTL, provisional |-> TRUE]
  BY DEF Open, Kept
<1>5. registry'[c] \in Entry /\ registry'[c].retire = Off
  <2>1. TicketTTL \in 0..Lifetime /\ Off \in Off..DrainTime /\ TicketTTL \in Off..TicketTTL
    BY <1>3 DEF Off
  <2> QED BY <1>4, <2>1 DEF Entry
<1>6. ASSUME NEW x \in Kept
      PROVE  /\ registry'[x] \in Entry
             /\ registry'[x].ticket # Off => registry[x].ticket # Off
             /\ registry'[x].retire = Off <=> registry[x].retire = Off /\ x \notin Victims(Candidates)
  <2> DEFINE e == registry[x]
             ticket == IF e.ticket = 0 THEN Off ELSE e.ticket
             retire == IF x \in Victims(Candidates) THEN DrainTime ELSE e.retire
  <2>1. x # c /\ x \in Registered /\ e \in Entry
    BY <1>1 DEF Kept, RegistryOK
  <2>2. registry'[x] = [e EXCEPT !.ticket = ticket, !.retire = retire]
    BY <2>1 DEF Open, Kept, Candidates
  <2>3. /\ e.ticket \in Off..TicketTTL /\ e.retire \in Off..DrainTime
    BY <2>1 DEF Entry
  <2>4. ticket \in Off..TicketTTL /\ retire \in Off..DrainTime /\ DrainTime # Off
    BY <1>3, <2>3 DEF Off
  <2>5. /\ ticket # Off => e.ticket # Off
        /\ retire = Off <=> e.retire = Off /\ x \notin Victims(Candidates)
    BY <2>4
  <2> HIDE DEF e, ticket, retire
  <2>6. registry'[x] \in Entry /\ registry'[x].ticket = ticket /\ registry'[x].retire = retire
    BY <2>1, <2>2, <2>4 DEF Entry
  <2> QED BY <2>5, <2>6 DEF e
<1> QED BY <1>1, <1>2, <1>5, <1>6

LEMMA Opening ==
  ASSUME RegistryOK, NEW c \in Contexts, Open(c)
  PROVE  RegistryOK' /\ CapBoundsLive'
<1>1. Kept \subseteq Registered /\ Candidates \in SUBSET Registered /\ c \notin Kept
  BY Opened DEF Kept, Candidates
<1>2. IsFiniteSet(Registered') /\ Registered' \subseteq Contexts
  <2>1. IsFiniteSet(Kept) /\ Kept \subseteq Contexts
    BY <1>1, FS_Subset DEF RegistryOK
  <2> QED BY <2>1, Opened, FS_AddElement
<1>3. OpenedInTurn'
  <2>1. Registered' = Kept \cup {c} /\ openOrder' = (openOrder \cap (Kept \X Kept)) \cup (Kept \X {c})
    BY Opened
  <2>2. openOrder' \subseteq Registered' \X Registered'
    BY <2>1
  <2>3. \A x, y \in Kept : <<x, y>> \in openOrder' <=> <<x, y>> \in openOrder
    BY <1>1, <2>1
  <2>4. \A x \in Kept : <<x, c>> \in openOrder' /\ <<c, x>> \notin openOrder'
    BY <1>1, <2>1
  <2>5. <<c, c>> \notin openOrder'
    BY <1>1, <2>1
  <2>6. ASSUME NEW x \in Registered', NEW y \in Registered'
        PROVE  /\ x # y => (<<x, y>> \in openOrder' <=> <<y, x>> \notin openOrder')
               /\ <<x, x>> \notin openOrder'
               /\ \A z \in Registered' :
                    <<x, y>> \in openOrder' /\ <<y, z>> \in openOrder' => <<x, z>> \in openOrder'
    <3>1. CASE x = c
      BY <2>1, <2>4, <2>5, <3>1
    <3>2. CASE x \in Kept /\ y = c
      BY <1>1, <2>1, <2>3, <2>4, <2>5, <3>2 DEF RegistryOK, OpenedInTurn
    <3>3. CASE x \in Kept /\ y \in Kept
      <4>1. ASSUME NEW z \in Registered', <<x, y>> \in openOrder', <<y, z>> \in openOrder'
            PROVE  <<x, z>> \in openOrder'
        <5>1. CASE z = c
          BY <2>4, <3>3, <5>1
        <5>2. CASE z \in Kept
          BY <1>1, <2>3, <3>3, <4>1, <5>2 DEF RegistryOK, OpenedInTurn
        <5> QED BY <2>1, <5>1, <5>2
      <4> QED BY <1>1, <2>3, <3>3, <4>1 DEF RegistryOK, OpenedInTurn
    <3> QED BY <2>1, <3>1, <3>2, <3>3
  <2> QED BY <2>2, <2>6 DEF OpenedInTurn
<1>4. LiveContexts' = (Candidates \ Victims(Candidates)) \cup {c}
  BY Opened DEF LiveContexts, Candidates
<1>5. Cardinality(LiveContexts') <= Cap
  <2> DEFINE left == Candidates \ Victims(Candidates)
  <2>1. IsFiniteSet(left) /\ Cardinality(left) <= Cap - 1 /\ c \notin left
    BY <1>1, Survivors DEF Candidates
  <2> HIDE DEF left
  <2>2. Cardinality(left \cup {c}) = Cardinality(left) + 1 /\ Cardinality(left) \in Nat
    BY <2>1, FS_AddElement, FS_CardinalityType
  <2>3. Cardinality(left \cup {c}) <= Cap
    BY <2>1, <2>2, CapAssumption DEF CapAssumption
  <2> QED BY <1>4, <2>3 DEF left
<1>6. CapBoundsLive'
  BY <1>5 DEF CapBoundsLive, LiveContexts
<1>7. \A x \in Registered' : registry'[x] \in Entry
  BY Opened
<1> QED BY <1>2, <1>3, <1>6, <1>7 DEF RegistryOK

-----------------------------------------------------------------------------
(* The inductive invariant.                                                *)

SocketTypes ==
  /\ deviceRevoked \in BOOLEAN
  /\ socket \in [Sockets -> [phase : {"none", "upgrading", "open", "closing"},
                             ctx : Contexts \cup {NoContext}]]
  /\ clients \subseteq Sockets /\ plainOn \subseteq Sockets
  /\ hubContext \in [Sockets -> Contexts \cup {NoContext}]
  /\ unprovenIn \in [Sockets -> Off..FirstFrame]
  /\ pingIn \in Off..PingEvery

\* No socket has come of a ticket that is still there.
TicketUnspent ==
  \A c \in Registered : registry[c].ticket # Off => \A s \in Sockets : socket[s].ctx # c

OpenIsAttached == \A s \in Sockets : socket[s].phase = "open" => hubContext[s] = socket[s].ctx

PlainWasOpen == \A s \in plainOn : socket[s].phase \in {"open", "closing"}

SocketsIInv ==
  /\ RegistryOK /\ CapBoundsLive /\ SocketTypes
  /\ TicketUnspent /\ OneSocketPerContext /\ OpenIsAttached
  /\ PlainWasOpen /\ SealedNeverPlain /\ AttachedIsSwept /\ RevocationCuts

-----------------------------------------------------------------------------
(* The steps.                                                              *)

\* Nothing happens to the sockets while the table shrinks, or time passes.
LEMMA ReducingInv ==
  ASSUME SocketsIInv, Reduces, UNCHANGED <<deviceRevoked, socket, clients, hubContext, plainOn>>,
         unprovenIn' \in [Sockets -> Off..FirstFrame],
         pingIn' \in Off..PingEvery, pingIn # Off => pingIn' # Off
  PROVE  SocketsIInv'
<1> USE DEF SocketsIInv
<1>1. SocketTypes' /\ OneSocketPerContext' /\ OpenIsAttached' /\ PlainWasOpen' /\ SealedNeverPlain'
  BY DEF SocketTypes, OneSocketPerContext, OpenIsAttached, PlainWasOpen, SealedNeverPlain
<1>2. TicketUnspent'
  BY DEF Reduces, TicketUnspent
<1>3. AttachedIsSwept'
  BY DEF AttachedIsSwept
<1>4. RevocationCuts'
  BY DEF Reduces, RevocationCuts
<1> QED BY <1>1, <1>2, <1>3, <1>4 DEF Reduces

\* Sockets that are closed take their contexts with them; the others stay as they are.
LEMMA ClosingInv ==
  ASSUME SocketsIInv, NEW closed \in SUBSET Sockets, NEW expired, CloseForE2ee(closed, expired),
         deviceRevoked' \in BOOLEAN,
         deviceRevoked' => \/ deviceRevoked
                           \/ /\ Registered \subseteq expired
                              /\ \A s \in Sockets : hubContext[s] # NoContext => s \in closed,
         clients' \in SUBSET Sockets, pingIn' \in Off..PingEvery,
         \A s \in Sockets : hubContext[s] # NoContext /\ s \notin closed => s \in clients' /\ pingIn' # Off,
         plainOn' \in SUBSET Sockets,
         \A s \in plainOn' : \/ s \in plainOn
                             \/ socket[s].phase \in {"open", "closing"} /\ socket[s].ctx = NoContext
  PROVE  SocketsIInv'
<1> USE DEF SocketsIInv
<1>1. Reduces /\ Registered' \subseteq Registered \ expired
  <2> DEFINE D == {hubContext[s] : s \in closed} \cup expired
  <2>1. Destroy(D)
    BY DEF CloseForE2ee
  <2> HIDE DEF D
  <2>2. Reduces /\ Registered' = Registered \ D
    BY <2>1, Destroying
  <2> QED BY <2>2 DEF D
<1>2. /\ \A s \in Sockets : socket'[s].ctx = socket[s].ctx
      /\ \A s \in closed : socket'[s].phase = "closing" /\ hubContext'[s] = NoContext
      /\ \A s \in Sockets \ closed : socket'[s] = socket[s] /\ hubContext'[s] = hubContext[s]
  BY DEF SocketTypes, CloseForE2ee
<1>3. SocketTypes'
  <2>1. \A s \in Sockets : socket'[s] \in [phase : {"none", "upgrading", "open", "closing"},
                                           ctx : Contexts \cup {NoContext}]
    BY DEF SocketTypes, CloseForE2ee
  <2>2. socket' \in [Sockets -> [phase : {"none", "upgrading", "open", "closing"},
                                 ctx : Contexts \cup {NoContext}]]
    BY <2>1 DEF CloseForE2ee
  <2>3. hubContext' \in [Sockets -> Contexts \cup {NoContext}]
    BY DEF SocketTypes, CloseForE2ee
  <2>4. Off \in Off..FirstFrame
    BY ClockAssumption DEF ClockAssumption, Off
  <2>5. unprovenIn' \in [Sockets -> Off..FirstFrame]
    BY <2>4 DEF SocketTypes, CloseForE2ee
  <2> QED BY <2>2, <2>3, <2>5 DEF SocketTypes
<1>4. TicketUnspent'
  BY <1>1, <1>2 DEF Reduces, TicketUnspent
<1>5. OneSocketPerContext'
  BY <1>2 DEF OneSocketPerContext
<1>6. OpenIsAttached'
  BY <1>2 DEF OpenIsAttached
<1>7. PlainWasOpen' /\ SealedNeverPlain'
  BY <1>2 DEF PlainWasOpen, SealedNeverPlain, SocketTypes
<1>8. AttachedIsSwept'
  BY <1>2 DEF AttachedIsSwept
<1>9. RevocationCuts'
  BY <1>1, <1>2 DEF RevocationCuts
<1> QED BY <1>1, <1>3, <1>4, <1>5, <1>6, <1>7, <1>8, <1>9 DEF Reduces

LEMMA SendInv ==
  ASSUME SocketsIInv, NEW to \in SUBSET clients, Send(to)
  PROVE  SocketsIInv'
<1> DEFINE failed == {s \in to : SendFails(s)}
<1>1. failed \in SUBSET Sockets /\ clients \subseteq Sockets
  BY DEF SocketsIInv, SocketTypes
<1>2. /\ CloseForE2ee(failed, {}) /\ UNCHANGED <<deviceRevoked, pingIn>>
      /\ clients' = clients \ (failed \cup {s \in to : socket[s].phase /= "open"})
      /\ plainOn' = plainOn \cup {s \in to : SendsPlain(s)}
  BY DEF Send
<1>3. \A s \in Sockets : hubContext[s] # NoContext /\ s \notin failed => s \in clients' /\ pingIn' # Off
  BY <1>2 DEF SocketsIInv, AttachedIsSwept, SendFails
<1>4. \A s \in plainOn' : \/ s \in plainOn
                          \/ socket[s].phase \in {"open", "closing"} /\ socket[s].ctx = NoContext
  BY <1>1, <1>2 DEF SocketsIInv, OpenIsAttached, SendsPlain
<1>5. /\ clients' \in SUBSET Sockets /\ plainOn' \in SUBSET Sockets
      /\ pingIn' \in Off..PingEvery /\ deviceRevoked' \in BOOLEAN
  BY <1>1, <1>2 DEF SocketsIInv, SocketTypes
<1> HIDE DEF failed
<1> QED BY <1>1, <1>2, <1>3, <1>4, <1>5, ClosingInv

LEMMA ReceiveInv ==
  ASSUME SocketsIInv, NEW s \in Sockets, NEW valid \in BOOLEAN, Receive(s, valid)
  PROVE  SocketsIInv'
<1> DEFINE c == hubContext[s]
           refused == c /= NoContext /\ (~valid \/ c \notin Registered)
<1>1. /\ socket[s].phase \in {"open", "closing"} /\ UNCHANGED <<deviceRevoked, pingIn>>
      /\ plainOn' = IF TakesPlain(s) THEN plainOn \cup {s} ELSE plainOn
  BY DEF Receive
<1>2. /\ plainOn' \in SUBSET Sockets
      /\ \A u \in plainOn' : \/ u \in plainOn
                             \/ socket[u].phase \in {"open", "closing"} /\ socket[u].ctx = NoContext
  BY <1>1 DEF TakesPlain, SocketsIInv, SocketTypes
<1>3. CASE refused
  <2>1. CloseForE2ee({s}, {}) /\ clients' = clients \ {s}
    BY <1>3 DEF Receive
  <2>2. \A u \in Sockets : hubContext[u] # NoContext /\ u \notin {s} => u \in clients' /\ pingIn' # Off
    BY <1>1, <2>1 DEF SocketsIInv, AttachedIsSwept
  <2>3. /\ clients' \in SUBSET Sockets /\ pingIn' \in Off..PingEvery
        /\ deviceRevoked' \in BOOLEAN /\ (deviceRevoked' => deviceRevoked) /\ {s} \in SUBSET Sockets
    BY <1>1, <2>1 DEF SocketsIInv, SocketTypes
  <2> QED BY <1>2, <2>1, <2>2, <2>3, ClosingInv
<1>4. CASE ~refused
  <2>1. unprovenIn' = [unprovenIn EXCEPT ![s] = Off] /\ UNCHANGED <<registryVars, socket, clients, hubContext>>
    BY <1>4 DEF Receive
  <2>2. Reduces
    BY <2>1, Unchanging DEF SocketsIInv
  <2>3. Off \in Off..FirstFrame
    BY ClockAssumption DEF ClockAssumption, Off
  <2>4. SocketTypes'
    BY <1>1, <1>2, <2>1, <2>3 DEF SocketsIInv, SocketTypes
  <2>5. TicketUnspent' /\ RevocationCuts'
    BY <1>1, <2>1, <2>2 DEF SocketsIInv, Reduces, TicketUnspent, RevocationCuts
  <2>6. OneSocketPerContext' /\ OpenIsAttached' /\ AttachedIsSwept'
    BY <1>1, <2>1 DEF SocketsIInv, OneSocketPerContext, OpenIsAttached, AttachedIsSwept
  <2>7. PlainWasOpen' /\ SealedNeverPlain'
    BY <1>2, <2>1 DEF SocketsIInv, PlainWasOpen, SealedNeverPlain
  <2> QED BY <2>2, <2>4, <2>5, <2>6, <2>7 DEF SocketsIInv, Reduces
<1> QED BY <1>3, <1>4

SocketStates == [phase : {"none", "upgrading", "open", "closing"}, ctx : Contexts \cup {NoContext}]

LEMMA Rephased ==
  ASSUME SocketTypes, NEW s \in Sockets, NEW p
  PROVE  [socket EXCEPT ![s].phase = p] = [socket EXCEPT ![s] = [phase |-> p, ctx |-> socket[s].ctx]]
<1>1. socket[s] \in SocketStates
  BY DEF SocketTypes, SocketStates
<1>2. \A u \in SocketStates : [u EXCEPT !.phase = p] = [phase |-> p, ctx |-> u.ctx]
  BY DEF SocketStates
<1> QED BY <1>1, <1>2

\* One socket moves on to x: with the context it had, or with that of a ticket spent just now.
LEMMA MovingInv ==
  ASSUME SocketsIInv, Reduces, NEW s \in Sockets, NEW x \in SocketStates,
         socket' = [socket EXCEPT ![s] = x], UNCHANGED deviceRevoked, SocketTypes',
         \/ x.ctx \in {NoContext, socket[s].ctx}
         \/ /\ x.ctx \in Registered /\ registry[x.ctx].ticket # Off
            /\ x.ctx \in Registered' => registry'[x.ctx].ticket = Off,
         x.phase = "open" => hubContext'[s] = x.ctx,
         s \in plainOn' => x.phase \in {"open", "closing"} /\ x.ctx = NoContext,
         \A u \in Sockets \ {s} : hubContext'[u] = hubContext[u] /\ (u \in plainOn' => u \in plainOn),
         \A u \in Sockets : hubContext'[u] # NoContext => u \in clients' /\ pingIn' # Off,
         deviceRevoked => hubContext'[s] = NoContext
  PROVE  SocketsIInv'
<1> USE DEF SocketsIInv
<1>1. /\ socket'[s] = x /\ \A u \in Sockets \ {s} : socket'[u] = socket[u]
      /\ Registered \subseteq Contexts /\ NoContext \notin Contexts
      /\ plainOn' \subseteq Sockets
  BY NoContextAssumption DEF NoContextAssumption, SocketTypes, RegistryOK
<1>2. TicketUnspent'
  <2> SUFFICES ASSUME NEW c \in Registered', registry'[c].ticket # Off, NEW u \in Sockets
               PROVE  socket'[u].ctx # c
    BY DEF TicketUnspent
  <2>1. c \in Registered /\ \A v \in Sockets : socket[v].ctx # c
    BY DEF Reduces, TicketUnspent
  <2> QED BY <1>1, <2>1
<1>3. OneSocketPerContext'
  <2>1. ASSUME NEW u \in Sockets, u # s, x.ctx # NoContext PROVE socket[u].ctx # x.ctx
    BY <2>1 DEF OneSocketPerContext, TicketUnspent
  <2> QED BY <1>1, <2>1 DEF OneSocketPerContext
<1>4. OpenIsAttached'
  BY <1>1 DEF OpenIsAttached
<1>5. PlainWasOpen' /\ SealedNeverPlain'
  BY <1>1 DEF PlainWasOpen, SealedNeverPlain
<1>6. AttachedIsSwept'
  BY DEF AttachedIsSwept
<1>7. RevocationCuts'
  BY DEF Reduces, RevocationCuts
<1> QED BY <1>2, <1>3, <1>4, <1>5, <1>6, <1>7 DEF Reduces

LEMMA UpgradingInv ==
  ASSUME SocketsIInv, NEW s \in Sockets, NEW x \in SocketStates, socket[s] = Gone, x.phase = "upgrading",
         socket' = [socket EXCEPT ![s] = x], UNCHANGED <<deviceRevoked, hubVars, plainOn>>, Reduces,
         \/ x.ctx = NoContext
         \/ /\ x.ctx \in Registered /\ registry[x.ctx].ticket # Off
            /\ registry'[x.ctx].ticket = Off
  PROVE  SocketsIInv'
<1>1. UNCHANGED <<deviceRevoked, clients, hubContext, unprovenIn, pingIn, plainOn>>
  BY DEF hubVars
<1>2. s \notin plainOn /\ hubContext'[s] = hubContext[s]
  BY <1>1 DEF SocketsIInv, PlainWasOpen, Gone
<1>3. SocketTypes'
  BY <1>1 DEF SocketsIInv, SocketTypes, SocketStates
<1>4. /\ \A u \in Sockets : hubContext'[u] # NoContext => u \in clients' /\ pingIn' # Off
      /\ deviceRevoked => hubContext'[s] = NoContext
  BY <1>1 DEF SocketsIInv, AttachedIsSwept, RevocationCuts
<1> QED BY <1>1, <1>2, <1>3, <1>4, MovingInv

LEMMA UpgradeInv ==
  ASSUME SocketsIInv, NEW s \in Sockets, NEW c \in Contexts, Upgrade(s, c)
  PROVE  SocketsIInv'
<1> DEFINE x == [phase |-> "upgrading", ctx |-> c]
<1>1. c \in Registered /\ registry' = Spent(c) /\ UNCHANGED openOrder /\ registry[c].ticket > 0
  BY DEF Upgrade
<1>2. registry[c].ticket # Off
  BY <1>1 DEF Off
<1>3. Reduces /\ registry'[c].ticket = Off
  BY <1>1, Spending DEF SocketsIInv
<1>4. x \in SocketStates /\ x.phase = "upgrading" /\ x.ctx = c
  BY DEF SocketStates
<1>5. socket[s] = Gone /\ socket' = [socket EXCEPT ![s] = x] /\ UNCHANGED <<deviceRevoked, hubVars, plainOn>>
  BY DEF Upgrade
<1> HIDE DEF x
<1> QED BY <1>1, <1>2, <1>3, <1>4, <1>5, UpgradingInv

LEMMA UpgradeLegacyInv ==
  ASSUME SocketsIInv, NEW s \in Sockets, UpgradeLegacy(s)
  PROVE  SocketsIInv'
<1> DEFINE x == [phase |-> "upgrading", ctx |-> NoContext]
<1>1. socket[s] = Gone /\ socket' = [socket EXCEPT ![s] = x] /\ UNCHANGED <<registryVars, deviceRevoked, hubVars, plainOn>>
  BY DEF UpgradeLegacy
<1>2. Reduces
  BY <1>1, Unchanging DEF SocketsIInv
<1>3. x \in SocketStates /\ x.phase = "upgrading" /\ x.ctx = NoContext
  BY DEF SocketStates
<1> HIDE DEF x
<1> QED BY <1>1, <1>2, <1>3, UpgradingInv

LEMMA LostInv ==
  ASSUME SocketsIInv, NEW s \in Sockets, NEW destroyed \in BOOLEAN, UpgradeLost(s, destroyed)
  PROVE  SocketsIInv'
<1>1. /\ socket[s].phase = "upgrading" /\ socket' = [socket EXCEPT ![s] = Gone]
      /\ UNCHANGED <<deviceRevoked, clients, hubContext, unprovenIn, pingIn, plainOn>>
  BY DEF UpgradeLost, hubVars
<1>2. Reduces
  BY Destroying DEF UpgradeLost, SocketsIInv
<1>3. Gone \in SocketStates /\ Gone.ctx = NoContext /\ Gone.phase = "none" /\ s \notin plainOn
  BY <1>1 DEF Gone, SocketStates, SocketsIInv, PlainWasOpen
<1>4. SocketTypes'
  BY <1>1, <1>3 DEF SocketsIInv, SocketTypes, SocketStates
<1>5. /\ \A u \in Sockets : hubContext'[u] # NoContext => u \in clients' /\ pingIn' # Off
      /\ deviceRevoked => hubContext'[s] = NoContext
  BY <1>1 DEF SocketsIInv, AttachedIsSwept, RevocationCuts
<1> QED BY <1>1, <1>2, <1>3, <1>4, <1>5, MovingInv

LEMMA OpensInv ==
  ASSUME SocketsIInv, NEW s \in Sockets, SocketOpens(s)
  PROVE  SocketsIInv'
<1> DEFINE c == socket[s].ctx
           dead == c /= NoContext /\ c \notin Registered
           x == [phase |-> IF dead THEN "closing" ELSE "open", ctx |-> c]
<1>1. c \in Contexts \cup {NoContext} /\ socket[s] = [phase |-> "upgrading", ctx |-> c]
  BY DEF SocketOpens, SocketsIInv, SocketTypes
<1>2. x \in SocketStates /\ socket' = [socket EXCEPT ![s] = x]
  <2>1. socket' = [socket EXCEPT ![s].phase = IF dead THEN "closing" ELSE "open"]
    BY DEF SocketOpens
  <2>2. x \in SocketStates
    BY <1>1 DEF SocketStates
  <2>3. \A p : [socket EXCEPT ![s].phase = p] = [socket EXCEPT ![s] = [phase |-> p, ctx |-> c]]
    BY Rephased DEF SocketsIInv
  <2> QED BY <2>1, <2>2, <2>3
<1>3. /\ clients' = IF dead THEN clients ELSE clients \cup {s}
      /\ hubContext' = [hubContext EXCEPT ![s] = IF dead THEN NoContext ELSE c]
      /\ unprovenIn' = [unprovenIn EXCEPT ![s] = IF dead \/ c = NoContext THEN Off ELSE FirstFrame]
      /\ pingIn' = IF pingIn = Off THEN PingEvery ELSE pingIn
      /\ plainOn' = IF c = NoContext THEN plainOn \cup {s} ELSE plainOn
      /\ UNCHANGED <<registryVars, deviceRevoked>>
  BY DEF SocketOpens
<1>4. Reduces
  BY <1>3, Unchanging DEF SocketsIInv
<1>5. s \notin plainOn
  BY <1>1 DEF SocketsIInv, PlainWasOpen
<1>6. hubContext'[s] = IF dead THEN NoContext ELSE c
  BY <1>3 DEF SocketsIInv, SocketTypes
<1>7. \A u \in Sockets \ {s} : hubContext'[u] = hubContext[u] /\ (u \in plainOn' => u \in plainOn)
  BY <1>3 DEF SocketsIInv, SocketTypes
<1>8. pingIn' # Off /\ pingIn' \in Off..PingEvery
  BY <1>3, ClockAssumption DEF ClockAssumption, Off, SocketsIInv, SocketTypes
<1>9. \A u \in Sockets : hubContext'[u] # NoContext => u \in clients' /\ pingIn' # Off
  BY <1>3, <1>6, <1>7, <1>8 DEF SocketsIInv, AttachedIsSwept
<1>10. deviceRevoked => hubContext'[s] = NoContext
  BY <1>6 DEF SocketsIInv, RevocationCuts
<1>11. SocketTypes'
  <2>1. Off \in Off..FirstFrame /\ FirstFrame \in Off..FirstFrame
    BY ClockAssumption DEF ClockAssumption, Off
  <2>2. unprovenIn' \in [Sockets -> Off..FirstFrame]
    BY <1>3, <2>1 DEF SocketsIInv, SocketTypes
  <2>3. hubContext' \in [Sockets -> Contexts \cup {NoContext}]
    BY <1>1, <1>3 DEF SocketsIInv, SocketTypes
  <2>4. clients' \subseteq Sockets /\ plainOn' \subseteq Sockets /\ deviceRevoked' \in BOOLEAN
    BY <1>3 DEF SocketsIInv, SocketTypes
  <2>5. socket' \in [Sockets -> SocketStates]
    BY <1>2 DEF SocketsIInv, SocketTypes, SocketStates
  <2> QED BY <1>8, <2>2, <2>3, <2>4, <2>5 DEF SocketTypes, SocketStates
<1>12. /\ x.ctx = socket[s].ctx
       /\ x.phase = "open" => hubContext'[s] = x.ctx
       /\ s \in plainOn' => x.phase \in {"open", "closing"} /\ x.ctx = NoContext
  BY <1>3, <1>5, <1>6
<1> HIDE DEF x, dead, c
<1> QED BY <1>2, <1>3, <1>4, <1>7, <1>9, <1>10, <1>11, <1>12, MovingInv

LEMMA LeavesInv ==
  ASSUME SocketsIInv, NEW s \in Sockets, PeerCloses(s) \/ CloseEvent(s)
  PROVE  SocketsIInv'
<1>1. CASE PeerCloses(s)
  <2> DEFINE x == [phase |-> "closing", ctx |-> socket[s].ctx]
  <2>1. /\ socket[s].phase = "open" /\ socket' = [socket EXCEPT ![s].phase = "closing"]
        /\ UNCHANGED <<registryVars, deviceRevoked, clients, hubContext, unprovenIn, pingIn, plainOn>>
    BY <1>1 DEF PeerCloses, hubVars
  <2>2. x \in SocketStates /\ socket' = [socket EXCEPT ![s] = x]
    BY <2>1, Rephased DEF SocketStates, SocketsIInv, SocketTypes
  <2>3. Reduces
    BY <2>1, Unchanging DEF SocketsIInv
  <2>4. SocketTypes'
    BY <2>1, <2>2 DEF SocketsIInv, SocketTypes, SocketStates
  <2>5. /\ \A u \in Sockets : hubContext'[u] # NoContext => u \in clients' /\ pingIn' # Off
        /\ deviceRevoked => hubContext'[s] = NoContext
        /\ s \in plainOn => socket[s].ctx = NoContext
    BY <2>1 DEF SocketsIInv, AttachedIsSwept, RevocationCuts, SealedNeverPlain
  <2>6. x.phase = "closing" /\ x.ctx = socket[s].ctx
    OBVIOUS
  <2> HIDE DEF x
  <2> QED BY <2>1, <2>2, <2>3, <2>4, <2>5, <2>6, MovingInv
<1>2. CASE CloseEvent(s)
  <2>1. /\ socket' = [socket EXCEPT ![s] = Gone] /\ UNCHANGED <<deviceRevoked, pingIn>>
        /\ clients' = clients \ {s} /\ plainOn' = plainOn \ {s}
        /\ hubContext' = [hubContext EXCEPT ![s] = NoContext]
        /\ unprovenIn' = [unprovenIn EXCEPT ![s] = Off]
    BY <1>2 DEF CloseEvent
  <2>2. Reduces
    BY <1>2, Destroying DEF CloseEvent, SocketsIInv
  <2>3. Gone \in SocketStates /\ Gone.ctx = NoContext /\ Gone.phase = "none"
    BY DEF Gone, SocketStates
  <2>4. /\ hubContext'[s] = NoContext
        /\ \A u \in Sockets \ {s} : hubContext'[u] = hubContext[u]
    BY <2>1 DEF SocketsIInv, SocketTypes
  <2>5. SocketTypes'
    <3>1. Off \in Off..FirstFrame
      BY ClockAssumption DEF ClockAssumption, Off
    <3> QED BY <2>1, <2>3, <3>1 DEF SocketsIInv, SocketTypes, SocketStates
  <2>6. \A u \in Sockets : hubContext'[u] # NoContext => u \in clients' /\ pingIn' # Off
    BY <2>1, <2>4 DEF SocketsIInv, AttachedIsSwept
  <2> QED BY <2>1, <2>2, <2>3, <2>4, <2>5, <2>6, MovingInv
<1> QED BY <1>1, <1>2

LEMMA OpenInv ==
  ASSUME SocketsIInv, NEW c \in Contexts, Open(c)
  PROVE  SocketsIInv'
<1>1. /\ UNCHANGED <<deviceRevoked, socket, clients, hubContext, unprovenIn, pingIn, plainOn>>
      /\ ~deviceRevoked /\ \A s \in Sockets : socket[s].ctx # c
  BY DEF Open, hubVars
<1>2. RegistryOK' /\ CapBoundsLive'
  BY Opening DEF SocketsIInv
<1>3. TicketUnspent'
  <2>1. \A x \in Registered' : x = c \/ (x \in Registered /\ (registry'[x].ticket # Off => registry[x].ticket # Off))
    BY Opened DEF SocketsIInv, Kept
  <2> QED BY <1>1, <2>1 DEF SocketsIInv, TicketUnspent
<1>4. SocketTypes' /\ OneSocketPerContext' /\ OpenIsAttached'
  BY <1>1 DEF SocketsIInv, SocketTypes, OneSocketPerContext, OpenIsAttached
<1>5. PlainWasOpen' /\ SealedNeverPlain' /\ AttachedIsSwept' /\ RevocationCuts'
  BY <1>1 DEF SocketsIInv, PlainWasOpen, SealedNeverPlain, AttachedIsSwept, RevocationCuts
<1> QED BY <1>2, <1>3, <1>4, <1>5 DEF SocketsIInv

LEMMA UnprovenFiresInv ==
  ASSUME SocketsIInv, NEW s \in Sockets, UnprovenFires(s)
  PROVE  SocketsIInv'
<1>1. /\ CloseForE2ee({s}, {}) /\ clients' = clients \ {s}
      /\ UNCHANGED <<deviceRevoked, pingIn, plainOn>>
  BY DEF UnprovenFires
<1>2. /\ clients' \in SUBSET Sockets /\ pingIn' \in Off..PingEvery /\ plainOn' \in SUBSET Sockets
      /\ deviceRevoked' \in BOOLEAN
  BY <1>1 DEF SocketsIInv, SocketTypes
<1>3. \A u \in Sockets : hubContext[u] # NoContext /\ u \notin {s} => u \in clients' /\ pingIn' # Off
  BY <1>1 DEF SocketsIInv, AttachedIsSwept
<1> QED BY <1>1, <1>2, <1>3, ClosingInv

LEMMA SweepInv ==
  ASSUME SocketsIInv, Sweep
  PROVE  SocketsIInv'
<1> DEFINE stale == {s \in clients : Stale(s)}
<1>1. /\ CloseForE2ee(stale, {}) /\ clients' = clients \ stale /\ UNCHANGED deviceRevoked
      /\ pingIn' = IF clients = {} THEN Off ELSE PingEvery
      /\ plainOn' = plainOn \cup {s \in clients : SendsPlain(s)}
  BY DEF Sweep
<1>2. PingEvery \in Off..PingEvery /\ Off \in Off..PingEvery /\ PingEvery # Off
  BY ClockAssumption DEF ClockAssumption, Off
<1>3. /\ clients' \in SUBSET Sockets /\ pingIn' \in Off..PingEvery /\ plainOn' \in SUBSET Sockets
      /\ deviceRevoked' \in BOOLEAN /\ stale \in SUBSET Sockets
  BY <1>1, <1>2 DEF SocketsIInv, SocketTypes
<1>4. \A s \in Sockets : hubContext[s] # NoContext /\ s \notin stale => s \in clients' /\ pingIn' # Off
  BY <1>1, <1>2 DEF SocketsIInv, AttachedIsSwept
<1>5. \A s \in plainOn' : \/ s \in plainOn
                          \/ socket[s].phase \in {"open", "closing"} /\ socket[s].ctx = NoContext
  BY <1>1 DEF SocketsIInv, SocketTypes, OpenIsAttached, SendsPlain
<1> HIDE DEF stale
<1> QED BY <1>1, <1>3, <1>4, <1>5, ClosingInv

LEMMA RevokeInv ==
  ASSUME SocketsIInv, Revoke
  PROVE  SocketsIInv'
<1> DEFINE owned == {s \in Sockets : hubContext[s] /= NoContext}
<1>1. /\ CloseForE2ee(owned, Registered) /\ clients' = clients \ owned
      /\ deviceRevoked' = TRUE /\ UNCHANGED <<pingIn, plainOn>>
  BY DEF Revoke
<1>2. /\ clients' \in SUBSET Sockets /\ pingIn' \in Off..PingEvery /\ plainOn' \in SUBSET Sockets
      /\ owned \in SUBSET Sockets /\ \A s \in Sockets : hubContext[s] # NoContext => s \in owned
  BY <1>1 DEF SocketsIInv, SocketTypes
<1> HIDE DEF owned
<1> QED BY <1>1, <1>2, ClosingInv

LEMMA SocketsStep == SocketsIInv /\ [SocketsNext]_socketVars => SocketsIInv'
<1> SUFFICES ASSUME SocketsIInv, [SocketsNext]_socketVars PROVE SocketsIInv'
  OBVIOUS
<1>1. ASSUME NEW c \in Contexts, UpgradeTooLate(c) \/ UpgradeUnproven(c) \/ UpgradeRefused(c)
      PROVE  SocketsIInv'
  <2>1. UNCHANGED <<deviceRevoked, socket, clients, hubContext, unprovenIn, pingIn, plainOn>>
    BY <1>1 DEF UpgradeTooLate, UpgradeUnproven, UpgradeRefused, hubVars
  <2>2. c \in Registered /\ (Destroy({c}) \/ (registry' = Spent(c) /\ UNCHANGED openOrder))
    BY <1>1 DEF UpgradeTooLate, UpgradeUnproven, UpgradeRefused
  <2>3. Reduces
    BY <2>2, Destroying, Spending DEF SocketsIInv
  <2> QED BY <2>1, <2>3, ReducingInv DEF SocketsIInv, SocketTypes
<1>2. CASE Tick
  <2>1. Reduces
    BY <1>2, Ticking DEF SocketsIInv
  <2>2. /\ unprovenIn' \in [Sockets -> Off..FirstFrame]
        /\ pingIn' \in Off..PingEvery /\ (pingIn # Off => pingIn' # Off)
    <3>1. \A i \in Int : \A x \in Off..i : Running(x) \in Off..i /\ (x # Off => Running(x) # Off)
      BY DEF Running, Off
    <3>2. FirstFrame \in Int /\ PingEvery \in Int
      BY ClockAssumption DEF ClockAssumption
    <3>3. \A s \in Sockets : Running(unprovenIn[s]) \in Off..FirstFrame
      BY <3>1, <3>2 DEF SocketsIInv, SocketTypes
    <3>4. pingIn \in Off..PingEvery
      BY DEF SocketsIInv, SocketTypes
    <3> QED BY <1>2, <3>1, <3>2, <3>3, <3>4 DEF Tick
  <2> QED BY <1>2, <2>1, <2>2, ReducingInv DEF Tick
<1>3. CASE Broadcast
  BY <1>3, SendInv DEF Broadcast
<1>4. CASE UNCHANGED socketVars
  <2>1. Reduces
    BY <1>4, Unchanging DEF SocketsIInv, socketVars
  <2> QED BY <1>4, <2>1, ReducingInv DEF socketVars, hubVars, SocketsIInv, SocketTypes
<1>5. ASSUME NEW s \in Sockets,
             \/ \E c \in Contexts : Upgrade(s, c)
             \/ \E d \in BOOLEAN : UpgradeLost(s, d)
             \/ \E v \in BOOLEAN : Receive(s, v)
             \/ UpgradeLegacy(s) \/ SocketOpens(s) \/ UnprovenFires(s) \/ PeerCloses(s) \/ CloseEvent(s)
      PROVE  SocketsIInv'
  <2>1. ASSUME NEW c \in Contexts, Upgrade(s, c) PROVE SocketsIInv'
    BY <2>1, UpgradeInv
  <2>2. ASSUME UpgradeLegacy(s) PROVE SocketsIInv'
    BY <2>2, UpgradeLegacyInv
  <2>3. ASSUME NEW d \in BOOLEAN, UpgradeLost(s, d) PROVE SocketsIInv'
    BY <2>3, LostInv
  <2>4. ASSUME NEW v \in BOOLEAN, Receive(s, v) PROVE SocketsIInv'
    BY <2>4, ReceiveInv
  <2> QED
    BY <1>5, <2>1, <2>2, <2>3, <2>4, OpensInv, LeavesInv, UnprovenFiresInv
<1> QED
  BY <1>1, <1>2, <1>3, <1>4, <1>5, OpenInv, SweepInv, RevokeInv DEF SocketsNext

LEMMA SocketsBegin == SocketsInit => SocketsIInv
<1> SUFFICES ASSUME SocketsInit PROVE SocketsIInv
  OBVIOUS
<1>1. Registered = {}
  BY DEF SocketsInit, Registered
<1>2. RegistryOK
  BY <1>1, FS_EmptySet DEF SocketsInit, RegistryOK, OpenedInTurn
<1>3. CapBoundsLive
  <2>1. {c \in Registered : registry[c].retire = Off} = {}
    BY <1>1
  <2>2. 0 <= Cap
    BY CapAssumption DEF CapAssumption
  <2> QED BY <2>1, <2>2, FS_EmptySet DEF CapBoundsLive
<1>4. SocketTypes
  <2>1. Off \in Off..FirstFrame /\ Off \in Off..PingEvery
    BY ClockAssumption DEF ClockAssumption, Off
  <2>2. Gone \in SocketStates
    BY DEF Gone, SocketStates
  <2> QED BY <2>1, <2>2 DEF SocketsInit, SocketTypes, SocketStates
<1>5. TicketUnspent /\ OneSocketPerContext /\ OpenIsAttached /\ PlainWasOpen
  BY <1>1 DEF SocketsInit, Gone, TicketUnspent, OneSocketPerContext, OpenIsAttached, PlainWasOpen
<1>6. SealedNeverPlain /\ AttachedIsSwept /\ RevocationCuts
  BY <1>1 DEF SocketsInit, SealedNeverPlain, AttachedIsSwept, RevocationCuts
<1> QED BY <1>2, <1>3, <1>4, <1>5, <1>6 DEF SocketsIInv

-----------------------------------------------------------------------------
(* Eviction as the device sees it.                                         *)

\* The step property of UsedOutlivesUnused.
SparesUsed ==
  \A c \in Registered \cap DOMAIN registry' :
    registry[c].retire = Off /\ registry'[c].retire /= Off
      /\ ~registry[c].provisional
    => \A d \in Registered \cap DOMAIN registry' :
         registry'[d].retire = Off => ~registry[d].provisional

LEMMA OnlyOpensEvict ==
  ASSUME RegistryOK, CapBoundsLive, [SocketsNext]_socketVars, \A c \in Contexts : ~Open(c)
  PROVE  Reduces
<1>1. ASSUME NEW D, Destroy(D) PROVE Reduces
  BY <1>1, Destroying
<1>2. ASSUME NEW c \in Registered, registry' = Spent(c), UNCHANGED openOrder PROVE Reduces
  BY <1>2, Spending
<1>3. ASSUME UNCHANGED registryVars PROVE Reduces
  BY <1>3, Unchanging
<1>4. ASSUME NEW c \in Contexts, UpgradeTooLate(c) \/ UpgradeUnproven(c) \/ UpgradeRefused(c) PROVE Reduces
  BY <1>1, <1>2, <1>4 DEF UpgradeTooLate, UpgradeUnproven, UpgradeRefused
<1>5. ASSUME NEW s \in Sockets, NEW c \in Contexts, Upgrade(s, c) PROVE Reduces
  BY <1>2, <1>5 DEF Upgrade
<1>6. ASSUME NEW s \in Sockets, NEW d \in BOOLEAN, UpgradeLost(s, d) PROVE Reduces
  BY <1>1, <1>6 DEF UpgradeLost
<1>7. ASSUME NEW closed, NEW expired, CloseForE2ee(closed, expired) PROVE Reduces
  BY <1>1, <1>7 DEF CloseForE2ee
<1>8. ASSUME NEW s \in Sockets, NEW v \in BOOLEAN, Receive(s, v) PROVE Reduces
  BY <1>3, <1>7, <1>8 DEF Receive
<1>9. ASSUME NEW s \in Sockets, CloseEvent(s) PROVE Reduces
  BY <1>1, <1>9 DEF CloseEvent
<1>10. ASSUME NEW s \in Sockets, UpgradeLegacy(s) \/ SocketOpens(s) \/ PeerCloses(s) PROVE Reduces
  BY <1>3, <1>10 DEF UpgradeLegacy, SocketOpens, PeerCloses
<1>11. ASSUME NEW s \in Sockets, UnprovenFires(s) PROVE Reduces
  BY <1>7, <1>11 DEF UnprovenFires
<1>12. ASSUME Broadcast \/ Sweep \/ Revoke PROVE Reduces
  BY <1>7, <1>12 DEF Broadcast, Send, Sweep, Revoke
<1>13. ASSUME Tick PROVE Reduces
  BY <1>13, Ticking
<1>14. ASSUME UNCHANGED socketVars PROVE Reduces
  BY <1>3, <1>14 DEF socketVars
<1> QED
  BY <1>4, <1>5, <1>6, <1>8, <1>9, <1>10, <1>11, <1>12, <1>13, <1>14 DEF SocketsNext

LEMMA EvictionStep == SocketsIInv /\ [SocketsNext]_socketVars => SparesUsed
<1> SUFFICES ASSUME SocketsIInv, [SocketsNext]_socketVars PROVE SparesUsed
  OBVIOUS
<1>1. RegistryOK /\ CapBoundsLive
  BY DEF SocketsIInv
<1>2. CASE \A c \in Contexts : ~Open(c)
  <2>1. Reduces
    BY <1>1, <1>2, OnlyOpensEvict
  <2> QED BY <2>1 DEF Reduces, SparesUsed, Registered
<1>3. ASSUME NEW opened \in Contexts, Open(opened) PROVE SparesUsed
  <2> SUFFICES ASSUME NEW c \in Registered \cap Registered', NEW d \in Registered \cap Registered',
                      registry[c].retire = Off, registry'[c].retire # Off, ~registry[c].provisional,
                      registry'[d].retire = Off, registry[d].provisional
               PROVE  FALSE
    BY DEF SparesUsed, Registered
  <2>1. c \in Kept /\ d \in Kept /\ Candidates \in SUBSET Registered
    BY <1>1, <1>3, Opened DEF Candidates, Kept
  <2>2. c \in Victims(Candidates) /\ registry[d].retire = Off /\ d \notin Victims(Candidates)
    BY <1>1, <1>3, <2>1, Opened
  <2>3. d \in Candidates
    BY <2>1, <2>2 DEF Candidates
  <2> QED BY <1>1, <2>1, <2>2, <2>3, UnusedGoFirst
<1> QED BY <1>2, <1>3

-----------------------------------------------------------------------------
(* The theorems.                                                           *)

\* context.ts and ws-hub.ts, for every cap and all clocks: a ticket leads to one socket, a
\* sealed socket carries nothing plain, the cap bounds the live contexts however often a
\* device opens, and the sweep visits every attached socket.
THEOREM SocketsHold == SocketsSpec => []SocketsInv
<1>1. SocketsIInv => SocketsInv
  BY DEF SocketsIInv, SocketsInv, SocketsTypeOK, RegistryOK, SocketTypes, Entry
<1> QED
  BY <1>1, SocketsBegin, SocketsStep, PTL DEF SocketsSpec

\* devices.routes.ts: a revocation leaves no context, no ticket and no attached socket, also
\* not that of an upgrade that had been authenticated before it.
THEOREM RevocationHolds == SocketsSpec => []RevocationCuts
<1>1. SocketsIInv => RevocationCuts
  BY DEF SocketsIInv
<1> QED
  BY <1>1, SocketsBegin, SocketsStep, PTL DEF SocketsSpec

\* context.ts evictionOrder(): for every cap, a context in use is drained to make room only
\* when no context that was never used is left to drain.
THEOREM EvictionSparesUsed == SocketsSpec => UsedOutlivesUnused
<1>1. SocketsIInv /\ [SocketsNext]_socketVars => [SparesUsed]_socketVars
  BY EvictionStep
<1> QED
  BY <1>1, SocketsBegin, SocketsStep, PTL DEF SocketsSpec, UsedOutlivesUnused, SparesUsed
=============================================================================
