--------------------------- MODULE NetworkProofs ---------------------------
(***************************************************************************)
(* Pairing, OpenAdmission, Updater, HostPressure, Handshake, PushNotices   *)
(* and PushDelivery for any phones, servers, devices, codes, versions,     *)
(* clients, tokens, weeks and limits.                                      *)
(*                                                                         *)
(* Pairing: TokenPairsOnce is not inductive: a code nobody spent, and every *)
(* code to come, must have registered nobody yet (UnspentPairedNobody).    *)
(* Admission: neither is OpensOnce: what opened a context must be in the   *)
(* cache or among what it let go (OpenedIsRemembered).                     *)
(* Updater: the invariant of the disk needs what a run knows at each of its *)
(* steps (RunSound) and which release a server that reports a version runs *)
(* (ServedSound): whatever was started before version.txt was published    *)
(* reports an older version than the run waits for.                        *)
(* Pressure: the invariant is inductive; the argument is that of the bars, *)
(* metric by metric (OneMetric), carried to the worst of them (Settled).   *)
(* Handshake: that two answers share no key needs what every chaining key  *)
(* was made of (AnsweredAs): the fresh keys of both sides stand in it at   *)
(* the place their pattern gives them (KeyShape), whoever wrote message 1. *)
(* Notices: the turn that may still be reported runs (OpenTurnRuns) and a  *)
(* prompt holds back no report (PromptHoldsBack); only a claimed activity  *)
(* was ended (UnclaimedHasNoEnd); a token the relay will call dead has no  *)
(* app by then, or was registered since (DeadAreGone); and the hour lies x *)
(* hours after the start of one day or of the next (HourAfter).            *)
(***************************************************************************)
EXTENDS MCNetwork, FiniteSetTheorems, SequenceTheorems, TLAPS

-----------------------------------------------------------------------------
(* Pairing.                                                                *)

Row == [st : {"absent", "live", "revoked"}, pinned : BOOLEAN]

PairingTypes ==
  /\ pairToken \in [no : 0..MaxTokens, used : BOOLEAN, old : BOOLEAN]
  /\ minted \in 0..MaxTokens
  /\ scanned \in [Phones -> 0..MaxTokens]
  /\ exchange \in [Exchanges -> {NoExchange} \union [phone : Phones, kind : Kinds, token : 0..MaxTokens]]
  /\ charges \in 0..Attempts
  /\ device \in [Phones -> Row]
  /\ toldPaired \in SUBSET Phones
  /\ paired \in [Tokens -> Nat]

Unspent(t) == t = pairToken.no /\ ~pairToken.used

\* The live code was minted, and what was not spent registered nobody.
UnspentPairedNobody ==
  /\ pairToken.no <= minted
  /\ \A t \in Tokens : t > minted \/ Unspent(t) => paired[t] = 0

PairingIInv == PairingTypes /\ UnspentPairedNobody /\ TokenPairsOnce /\ PairedIsPinned

-----------------------------------------------------------------------------
(* What is taken of a request is typed.                                    *)
LEMMA RequestTyped ==
  ASSUME PairingTypes, NEW q \in Exchanges, exchange[q] # NoExchange
  PROVE  exchange[q] \in [phone : Phones, kind : Kinds, token : 0..MaxTokens]
  BY DEF PairingTypes

LEMMA EndsTyped ==
  ASSUME PairingTypes, NEW q \in Exchanges, ExchangeEnds(q)
  PROVE  exchange' \in [Exchanges -> {NoExchange} \union [phone : Phones, kind : Kinds, token : 0..MaxTokens]]
  BY DEF PairingTypes, ExchangeEnds

LEMMA TokenTyped ==
  ASSUME PairingTypes
  PROVE  /\ pairToken.no \in 0..MaxTokens /\ pairToken.used \in BOOLEAN /\ pairToken.old \in BOOLEAN
         /\ NoToken \in [no : 0..MaxTokens, used : BOOLEAN, old : BOOLEAN]
         /\ NoToken.no = 0
  BY PairingAssumption DEF PairingTypes, PairingAssumption, NoToken

\* A token that is forgotten, or only ages, changes nothing of what the counts say.
LEMMA TokenGoes ==
  ASSUME PairingIInv, UNCHANGED <<minted, paired>>,
         \/ pairToken' \in {pairToken, NoToken}
         \/ pairToken' = [pairToken EXCEPT !.old = TRUE]
  PROVE  UnspentPairedNobody' /\ TokenPairsOnce' /\ pairToken' \in [no : 0..MaxTokens, used : BOOLEAN, old : BOOLEAN]
<1>1. pairToken' \in [no : 0..MaxTokens, used : BOOLEAN, old : BOOLEAN]
  BY TokenTyped DEF PairingIInv, PairingTypes
<1>2. \/ pairToken'.no = pairToken.no /\ (pairToken'.used <=> pairToken.used)
      \/ pairToken'.no = 0
  BY TokenTyped DEF PairingIInv, PairingTypes
<1>3. 0 <= minted /\ \A t \in Tokens : t # 0
  BY PairingAssumption DEF PairingIInv, PairingTypes, Tokens, PairingAssumption
<1>4. UnspentPairedNobody'
  <2>1. \A t \in Tokens : Unspent(t)' => Unspent(t)
    BY <1>2, <1>3 DEF Unspent
  <2> QED BY <1>2, <1>3, <2>1 DEF PairingIInv, UnspentPairedNobody
<1>5. TokenPairsOnce'
  BY DEF PairingIInv, TokenPairsOnce
<1> QED BY <1>1, <1>4, <1>5

LEMMA SpendInv ==
  ASSUME PairingIInv, NEW q \in Exchanges, Spend(q)
  PROVE  /\ pairToken' \in [no : 0..MaxTokens, used : BOOLEAN, old : BOOLEAN]
         /\ paired' \in [Tokens -> Nat]
         /\ UnspentPairedNobody' /\ TokenPairsOnce'
<1> DEFINE t == exchange[q].token
<1>1. t \in Tokens /\ t = pairToken.no /\ ~pairToken.used
  BY RequestTyped, TokenTyped, PairingAssumption
  DEF PairingIInv, Spend, ExchangeEnds, Usable, Tokens, PairingAssumption
<1>2. paired[t] = 0
  <2>1. Unspent(t)
    BY <1>1 DEF Unspent
  <2> QED BY <1>1, <2>1 DEF PairingIInv, UnspentPairedNobody
<1>3. paired' = [paired EXCEPT ![t] = 1]
  BY <1>2 DEF Spend
<1>4. /\ pairToken' \in [no : 0..MaxTokens, used : BOOLEAN, old : BOOLEAN]
      /\ pairToken'.no = pairToken.no /\ pairToken'.used = TRUE
  BY DEF PairingIInv, PairingTypes, Spend
<1>5. paired' \in [Tokens -> Nat]
  BY <1>3 DEF PairingIInv, PairingTypes
<1>6. TokenPairsOnce'
  BY <1>1, <1>3 DEF PairingIInv, PairingTypes, TokenPairsOnce
<1>7. t <= minted /\ minted' = minted /\ t \in Int /\ minted \in Int
  BY <1>1 DEF PairingIInv, PairingTypes, UnspentPairedNobody, Spend, ExchangeEnds, Tokens
<1>8. ASSUME NEW u \in Tokens, u > minted PROVE paired'[u] = 0
  BY <1>1, <1>3, <1>7, <1>8 DEF PairingIInv, PairingTypes, UnspentPairedNobody, Tokens
<1>9. UnspentPairedNobody'
  <2>1. ASSUME NEW u \in Tokens PROVE ~Unspent(u)'
    BY <1>4 DEF Unspent
  <2> QED BY <1>1, <1>4, <1>7, <1>8, <2>1 DEF UnspentPairedNobody
<1> QED BY <1>4, <1>5, <1>6, <1>9

\* A registration writes a live, pinned row, or leaves all rows and all promises alone.
LEMMA RegisterInv ==
  ASSUME PairingIInv, NEW q \in Exchanges, Register(q)
  PROVE  device' \in [Phones -> Row] /\ toldPaired' \in SUBSET Phones /\ PairedIsPinned'
<1>1. exchange[q] \in [phone : Phones, kind : Kinds, token : 0..MaxTokens]
  BY RequestTyped DEF PairingIInv, Register, Spend, ExchangeEnds
<1>2. CASE exchange[q].kind = "legacy"
  BY <1>2 DEF PairingIInv, PairingTypes, Register, RowOf, PairedIsPinned
<1>3. CASE exchange[q].kind # "legacy"
  BY <1>1, <1>3 DEF PairingIInv, PairingTypes, Register, RowOf, Row, PairedIsPinned
<1> QED BY <1>2, <1>3

LEMMA PairingStep == PairingIInv /\ [PairingNext]_pairingVars => PairingIInv'
<1> SUFFICES ASSUME PairingIInv, [PairingNext]_pairingVars PROVE PairingIInv'
  OBVIOUS
<1>1. CASE Mint
  <2>1. /\ minted \in Nat /\ minted' = minted + 1 /\ minted' \in 0..MaxTokens
    BY <1>1, PairingAssumption DEF PairingIInv, PairingTypes, Mint, PairingAssumption
  <2>2. pairToken' = [no |-> minted + 1, used |-> FALSE, old |-> FALSE]
    BY <1>1 DEF Mint, NoToken
  <2>3. \A t : Unspent(t)' => t = minted + 1
    BY <2>2 DEF Unspent
  <2>4. pairToken'.no = minted'
    BY <2>1, <2>2
  <2>5. UnspentPairedNobody'
    BY <1>1, <2>1, <2>3, <2>4 DEF Mint, PairingIInv, UnspentPairedNobody, Tokens
  <2>6. pairToken' \in [no : 0..MaxTokens, used : BOOLEAN, old : BOOLEAN]
    BY <2>1, <2>2
  <2> QED
    BY <1>1, <2>1, <2>5, <2>6 DEF Mint, PairingIInv, PairingTypes, TokenPairsOnce, PairedIsPinned
<1>2. CASE Expire
  BY <1>2, TokenGoes DEF Expire, PairingIInv, PairingTypes, PairedIsPinned
<1>3. CASE Regain
  <2>1. charges' \in 0..Attempts
    BY <1>3, PairingAssumption DEF Regain, PairingIInv, PairingTypes, PairingAssumption
  <2> QED
    BY <1>3, <2>1
    DEF Regain, PairingIInv, PairingTypes, UnspentPairedNobody, Unspent, TokenPairsOnce, PairedIsPinned
<1>4. CASE PairingRestart
  BY <1>4, TokenGoes, PairingAssumption
  DEF PairingRestart, PairingIInv, PairingTypes, PairedIsPinned, PairingAssumption
<1>5. ASSUME NEW p \in Phones, Scan(p) PROVE PairingIInv'
  BY <1>5, TokenTyped DEF Scan, PairingIInv, PairingTypes, UnspentPairedNobody, Unspent, TokenPairsOnce, PairedIsPinned
<1>6. ASSUME NEW p \in Phones, NEW entry \in Row, Unpair(p, entry) PROVE PairingIInv'
  BY <1>6 DEF Unpair, PairingIInv, PairingTypes, UnspentPairedNobody, Unspent, TokenPairsOnce, PairedIsPinned
<1>7. ASSUME NEW q \in Exchanges, NEW p \in Phones, NEW kind \in Kinds, ExchangeArrives(q, p, kind)
      PROVE  PairingIInv'
  <2>1. [phone |-> p, kind |-> kind, token |-> scanned[p]]
          \in [phone : Phones, kind : Kinds, token : 0..MaxTokens]
    BY DEF PairingIInv, PairingTypes
  <2>2. charges' \in 0..Attempts
    BY <1>7, PairingAssumption DEF ExchangeArrives, PairingIInv, PairingTypes, PairingAssumption
  <2> QED
    BY <1>7, <2>1, <2>2
    DEF ExchangeArrives, PairingIInv, PairingTypes, UnspentPairedNobody, Unspent, TokenPairsOnce, PairedIsPinned
<1>8. ASSUME NEW q \in Exchanges, Leaked(q) \/ Refused(q) PROVE PairingIInv'
  <2>1. ExchangeEnds(q) /\ pairToken' \in {pairToken, NoToken} /\ UNCHANGED <<device, toldPaired, paired>>
    BY <1>8 DEF Leaked, Refused
  <2> QED
    BY <2>1, EndsTyped, TokenGoes DEF ExchangeEnds, PairingIInv, PairingTypes, PairedIsPinned
<1>9. ASSUME NEW q \in Exchanges, Register(q) PROVE PairingIInv'
  <2>1. ExchangeEnds(q) /\ Spend(q)
    BY <1>9 DEF Register, Spend
  <2> QED
    BY <1>9, <2>1, EndsTyped, SpendInv, RegisterInv DEF ExchangeEnds, PairingIInv, PairingTypes
<1>10. ASSUME NEW q \in Exchanges, RegisterFails(q) PROVE PairingIInv'
  <2>1. ExchangeEnds(q) /\ Spend(q)
    BY <1>10 DEF RegisterFails, Spend
  <2> QED
    BY <1>10, <2>1, EndsTyped, SpendInv
    DEF RegisterFails, ExchangeEnds, PairingIInv, PairingTypes, PairedIsPinned
<1>11. CASE UNCHANGED pairingVars
  BY <1>11 DEF pairingVars, PairingIInv, PairingTypes, UnspentPairedNobody, Unspent, TokenPairsOnce, PairedIsPinned
<1>12. \A p \in Phones : NoDevice \in Row /\ [device[p] EXCEPT !.st = "revoked"] \in Row
  BY DEF PairingIInv, PairingTypes, Row, NoDevice
<1> QED
  BY <1>1, <1>2, <1>3, <1>4, <1>5, <1>6, <1>7, <1>8, <1>9, <1>10, <1>11, <1>12 DEF PairingNext

-----------------------------------------------------------------------------
\* handlePairExchange spends a code when it registers, and register pins the key of the row:
\* however exchanges interleave with new codes, removals and restarts, a code registers once,
\* and nobody who was told that it is paired can be met in plaintext.
THEOREM PairingHolds == PairingSpec => []PairingInv
<1>1. PairingInit => PairingIInv
  BY PairingAssumption
  DEF PairingInit, PairingIInv, PairingTypes, UnspentPairedNobody, Unspent, TokenPairsOnce, PairedIsPinned,
      PairingAssumption, NoToken, NoDevice, Row
<1>2. PairingIInv => PairingInv
  BY DEF PairingIInv, PairingTypes, Row, PairingInv, PairingTypeOK
<1> QED
  BY <1>1, <1>2, PairingStep, PTL DEF PairingSpec

-----------------------------------------------------------------------------
(* Admission to contexts.                                                  *)

AdmissionTypes ==
  /\ row \in [Devices -> BOOLEAN]
  /\ sender \in [Messages1 -> Devices \union {Nobody, Stranger}]
  /\ seen \in Seq(Messages1) /\ Len(seen) <= Remembered
  /\ evicted \in SUBSET Messages1
  /\ context \in [Messages1 -> Nat]
  /\ failures \in 0..Failures
  /\ charged \in [Devices -> 0..Opens]

OpenedIsRemembered == \A m \in Messages1 : context[m] > 0 => m \in Elements(seen) \union evicted

AdmissionIInv ==
  AdmissionTypes /\ OpenedIsRemembered /\ OpensOnce /\ ContextsAreOfDevices /\ SeenAreOfDevices

\* The cache keeps its bound and takes the new message in.
LEMMA Remembering ==
  ASSUME AdmissionTypes, NEW m \in Messages1
  PROVE  /\ RememberedWith(m) \in Seq(Messages1) /\ Len(RememberedWith(m)) <= Remembered
         /\ m \in Elements(RememberedWith(m))
         /\ Elements(RememberedWith(m)) \subseteq Elements(seen) \union {m}
<1>1. Remembered \in Nat /\ Remembered >= 1
  BY AdmissionAssumption DEF AdmissionAssumption
<1>2. CASE Len(seen) >= Remembered
  <2>1. seen # <<>> /\ Len(seen) = Remembered /\ Len(seen) \in Nat
    BY <1>1, <1>2 DEF AdmissionTypes
  <2> DEFINE rest == Tail(seen)
  <2>2. /\ rest \in Seq(Messages1) /\ Len(rest) = Len(seen) - 1
        /\ \A i \in 1..Len(rest) : rest[i] = seen[i + 1]
    BY <2>1 DEF AdmissionTypes
  <2>3. RememberedWith(m) = Append(rest, m)
    BY <1>2 DEF RememberedWith
  <2> HIDE DEF rest
  <2> QED BY <1>1, <2>1, <2>2, <2>3 DEF Elements
<1>3. CASE ~(Len(seen) >= Remembered)
  <2>1. seen \in Seq(Messages1) /\ Len(seen) \in Nat /\ Len(seen) + 1 <= Remembered
    BY <1>1, <1>3 DEF AdmissionTypes
  <2>2. RememberedWith(m) = Append(seen, m)
    BY <1>3 DEF RememberedWith
  <2> QED BY <1>1, <2>1, <2>2 DEF Elements
<1> QED BY <1>2, <1>3

LEMMA ElementsTyped ==
  ASSUME AdmissionTypes
  PROVE  Elements(seen) \in SUBSET Messages1
  BY DEF AdmissionTypes, Elements

LEMMA OpenContextInv ==
  ASSUME AdmissionIInv, NEW m \in Messages1, OpenContext(m)
  PROVE  AdmissionIInv'
<1>1. /\ m \notin Elements(seen) /\ sender[m] \in Devices /\ row[sender[m]]
      /\ UNCHANGED <<row, sender, failures>>
  BY DEF OpenContext, Named
<1>2. charged' \in [Devices -> 0..Opens]
  <2>1. charged' = [charged EXCEPT ![sender[m]] = @ + 1] /\ charged[sender[m]] < Opens
    BY <1>1 DEF OpenContext, Named, Charged
  <2> QED BY <1>1, <2>1, AdmissionAssumption DEF AdmissionIInv, AdmissionTypes, AdmissionAssumption
<1>3. /\ seen' \in Seq(Messages1) /\ Len(seen') <= Remembered
      /\ m \in Elements(seen') /\ Elements(seen') \subseteq Elements(seen) \union {m}
  <2>1. seen' = RememberedWith(m)
    BY DEF OpenContext
  <2> QED BY <2>1, Remembering DEF AdmissionIInv
<1>4. evicted' = evicted \union (Elements(seen) \ Elements(seen'))
  BY DEF OpenContext
<1>5. evicted' \in SUBSET Messages1
  BY <1>4, ElementsTyped DEF AdmissionIInv, AdmissionTypes
<1>6. /\ context' \in [Messages1 -> Nat]
      /\ \A n \in Messages1 : n # m => context'[n] = context[n]
      /\ context'[m] \in {context[m], context[m] + 1}
  BY DEF OpenContext, AdmissionIInv, AdmissionTypes
<1>7. AdmissionTypes'
  BY <1>1, <1>2, <1>3, <1>5, <1>6 DEF AdmissionIInv, AdmissionTypes
<1>8. OpenedIsRemembered'
  BY <1>3, <1>4, <1>6 DEF AdmissionIInv, OpenedIsRemembered
<1>9. OpensOnce'
  <2>1. m \notin evicted => context[m] = 0
    BY <1>1 DEF AdmissionIInv, AdmissionTypes, OpenedIsRemembered
  <2>2. context'[m] <= 1 \/ m \in evicted'
    BY <1>4, <1>6, <2>1
  <2>3. ASSUME NEW n \in Messages1, n # m PROVE context'[n] <= 1 \/ n \in evicted'
    BY <1>4, <1>6, <2>3 DEF AdmissionIInv, OpensOnce
  <2> QED BY <2>2, <2>3 DEF OpensOnce
<1>10. ContextsAreOfDevices'
  <2> DEFINE Open(n) == context[n] > 0
  <2>1. \A n \in Messages1 : n # m => (Open(n)' <=> Open(n))
    BY <1>6
  <2>2. \A n \in Messages1 : Open(n) => row[sender[n]]
    BY DEF AdmissionIInv, ContextsAreOfDevices
  <2> HIDE DEF Open
  <2>3. \A n \in Messages1 : Open(n)' => row'[sender'[n]]
    BY <1>1, <2>1, <2>2
  <2> QED BY <2>3 DEF ContextsAreOfDevices, Open
<1>11. SeenAreOfDevices'
  BY <1>1, <1>3, <1>4 DEF AdmissionIInv, SeenAreOfDevices
<1> QED BY <1>7, <1>8, <1>9, <1>10, <1>11 DEF AdmissionIInv

\* A removal cuts the contexts of the device, and of no other.
LEMMA RowRemovedInv ==
  ASSUME AdmissionIInv, NEW d \in Devices, RowRemoved(d)
  PROVE  AdmissionIInv'
<1>1. UNCHANGED <<sender, seen, evicted, failures, charged>> /\ row' = [row EXCEPT ![d] = FALSE]
  BY DEF RowRemoved
<1>2. /\ context' \in [Messages1 -> Nat]
      /\ \A m \in Messages1 : context'[m] = IF sender[m] = d THEN 0 ELSE context[m]
  BY DEF RowRemoved, AdmissionIInv, AdmissionTypes
<1>3. AdmissionTypes'
  BY <1>1, <1>2 DEF AdmissionIInv, AdmissionTypes
<1>4. OpenedIsRemembered' /\ OpensOnce'
  BY <1>1, <1>2 DEF AdmissionIInv, OpenedIsRemembered, OpensOnce, Elements
<1>5. ContextsAreOfDevices'
  <2>1. \A m \in Messages1 : context'[m] > 0 => sender[m] # d /\ context[m] > 0
    BY <1>2
  <2>2. \A m \in Messages1 : context[m] > 0 => sender[m] \in Devices
    BY DEF AdmissionIInv, OpenedIsRemembered, SeenAreOfDevices
  <2>3. \A e \in Devices : e # d => row'[e] = row[e]
    BY <1>1 DEF AdmissionIInv, AdmissionTypes
  <2> QED
    BY <1>1, <2>1, <2>2, <2>3 DEF AdmissionIInv, ContextsAreOfDevices
<1>6. SeenAreOfDevices'
  BY <1>1 DEF AdmissionIInv, SeenAreOfDevices, Elements
<1> QED BY <1>3, <1>4, <1>5, <1>6 DEF AdmissionIInv

\* Steps that leave contexts and cache alone.
LEMMA SendOpenInv ==
  ASSUME AdmissionIInv, NEW m \in Messages1, NEW d \in Devices \union {Stranger}, SendOpen(d, m)
  PROVE  AdmissionIInv'
<1>1. sender[m] = Nobody /\ Nobody \notin Devices
  BY DevicesAssumption DEF DevicesAssumption, SendOpen
<1>2. m \notin Elements(seen) \union evicted
  BY <1>1 DEF AdmissionIInv, SeenAreOfDevices
<1>3. ~(context[m] > 0)
  BY <1>2 DEF AdmissionIInv, OpenedIsRemembered
<1>4. sender' = [sender EXCEPT ![m] = d] /\ UNCHANGED <<row, seen, evicted, context, failures, charged>>
  BY DEF SendOpen
<1>5. AdmissionTypes' /\ OpenedIsRemembered' /\ OpensOnce'
  BY <1>4 DEF AdmissionIInv, AdmissionTypes, OpenedIsRemembered, OpensOnce, Elements
<1>6. SeenAreOfDevices'
  BY <1>2, <1>4 DEF AdmissionIInv, AdmissionTypes, SeenAreOfDevices, Elements
<1>7. ContextsAreOfDevices'
  BY <1>3, <1>4 DEF AdmissionIInv, AdmissionTypes, ContextsAreOfDevices
<1> QED BY <1>5, <1>6, <1>7 DEF AdmissionIInv

LEMMA AdmissionStep == AdmissionIInv /\ [AdmissionNext]_admissionVars => AdmissionIInv'
<1> SUFFICES ASSUME AdmissionIInv, [AdmissionNext]_admissionVars PROVE AdmissionIInv'
  OBVIOUS
<1>1. ASSUME UNCHANGED <<row, sender, seen, evicted, context>>
      PROVE  OpenedIsRemembered' /\ OpensOnce' /\ ContextsAreOfDevices' /\ SeenAreOfDevices'
  BY <1>1 DEF AdmissionIInv, OpenedIsRemembered, OpensOnce, ContextsAreOfDevices, SeenAreOfDevices, Elements
<1>2. CASE Garbage \/ \E m \in Messages1 : Replayed(m)
  <2>1. failures' \in 0..Failures
    BY <1>2, AdmissionAssumption
    DEF Garbage, Replayed, HasRoom, Fails, AdmissionIInv, AdmissionTypes, AdmissionAssumption
  <2> QED BY <1>1, <1>2, <2>1 DEF Garbage, Replayed, AdmissionIInv, AdmissionTypes
<1>3. ASSUME NEW m \in Messages1, Unknown(m) PROVE AdmissionIInv'
  <2>1. failures' \in 0..Failures
    BY <1>3, AdmissionAssumption
    DEF Unknown, Named, HasRoom, Fails, AdmissionIInv, AdmissionTypes, AdmissionAssumption
  <2>2. charged' \in [Devices -> 0..Opens]
    BY <1>3, AdmissionAssumption
    DEF Unknown, Named, Charged, AdmissionIInv, AdmissionTypes, AdmissionAssumption
  <2> QED BY <1>1, <1>3, <2>1, <2>2 DEF Unknown, AdmissionIInv, AdmissionTypes
<1>4. CASE SourceRegains
  <2>1. failures' \in 0..Failures
    BY <1>4, AdmissionAssumption DEF SourceRegains, AdmissionIInv, AdmissionTypes, AdmissionAssumption
  <2> QED BY <1>1, <1>4, <2>1 DEF SourceRegains, AdmissionIInv, AdmissionTypes
<1>5. ASSUME NEW d \in Devices, DeviceRegains(d) PROVE AdmissionIInv'
  <2>1. charged' \in [Devices -> 0..Opens]
    BY <1>5, AdmissionAssumption DEF DeviceRegains, AdmissionIInv, AdmissionTypes, AdmissionAssumption
  <2> QED BY <1>1, <1>5, <2>1 DEF DeviceRegains, AdmissionIInv, AdmissionTypes
<1>6. CASE AdmissionRestart
  <2>1. /\ seen' = <<>> /\ evicted' = {} /\ context' = [m \in Messages1 |-> 0]
        /\ failures' = 0 /\ charged' = [d \in Devices |-> 0] /\ UNCHANGED <<row, sender>>
    BY <1>6 DEF AdmissionRestart
  <2>2. Elements(seen') = {}
    BY <2>1 DEF Elements
  <2>3. AdmissionTypes'
    BY <2>1, AdmissionAssumption DEF AdmissionIInv, AdmissionTypes, AdmissionAssumption
  <2>4. OpenedIsRemembered' /\ OpensOnce' /\ ContextsAreOfDevices' /\ SeenAreOfDevices'
    BY <2>1, <2>2 DEF OpenedIsRemembered, OpensOnce, ContextsAreOfDevices, SeenAreOfDevices
  <2> QED BY <2>3, <2>4 DEF AdmissionIInv
<1>7. ASSUME NEW d \in Devices, RowRenewed(d) PROVE AdmissionIInv'
  <2>1. /\ row' = [row EXCEPT ![d] = TRUE]
        /\ UNCHANGED <<sender, seen, evicted, context, failures, charged>>
    BY <1>7 DEF RowRenewed
  <2>2. AdmissionTypes' /\ OpenedIsRemembered' /\ OpensOnce' /\ SeenAreOfDevices'
    BY <2>1
    DEF AdmissionIInv, AdmissionTypes, OpenedIsRemembered, OpensOnce, SeenAreOfDevices, Elements
  <2>3. \A e : row[e] => row'[e]
    BY <2>1 DEF AdmissionIInv, AdmissionTypes
  <2>4. ContextsAreOfDevices'
    BY <2>1, <2>3 DEF AdmissionIInv, ContextsAreOfDevices
  <2> QED BY <2>2, <2>4 DEF AdmissionIInv
<1>8. ASSUME NEW m \in Messages1, ContextEnds(m) PROVE AdmissionIInv'
  <2>1. /\ context[m] > 0 /\ context' = [context EXCEPT ![m] = @ - 1]
        /\ UNCHANGED <<row, sender, seen, evicted, failures, charged>>
    BY <1>8 DEF ContextEnds
  <2>2. /\ context' \in [Messages1 -> Nat]
        /\ \A n \in Messages1 : context'[n] <= context[n] /\ (context'[n] > 0 => context[n] > 0)
    BY <2>1 DEF AdmissionIInv, AdmissionTypes
  <2>3. AdmissionTypes' /\ OpenedIsRemembered' /\ SeenAreOfDevices'
    BY <2>1, <2>2 DEF AdmissionIInv, AdmissionTypes, OpenedIsRemembered, SeenAreOfDevices, Elements
  <2>4. OpensOnce'
    BY <2>1, <2>2 DEF AdmissionIInv, AdmissionTypes, OpensOnce
  <2>5. ContextsAreOfDevices'
    BY <2>1, <2>2 DEF AdmissionIInv, ContextsAreOfDevices
  <2> QED BY <2>3, <2>4, <2>5 DEF AdmissionIInv
<1>9. CASE UNCHANGED admissionVars
  BY <1>1, <1>9 DEF admissionVars, AdmissionIInv, AdmissionTypes
<1> QED
  BY <1>2, <1>3, <1>4, <1>5, <1>6, <1>7, <1>8, <1>9, OpenContextInv, RowRemovedInv, SendOpenInv
  DEF AdmissionNext

\* The replay cache (replay-cache.ts) and the cut of a removed device's contexts
\* (cutLiveContexts): while a message 1 is remembered it has opened one context at most, no
\* context is left of a device without a row, and what strangers send never ages the cache.
THEOREM AdmissionHolds == AdmissionSpec => []AdmissionInv
<1>1. AdmissionInit => AdmissionIInv
  <2> SUFFICES ASSUME AdmissionInit PROVE AdmissionIInv
    OBVIOUS
  <2>1. Elements(seen) = {}
    BY DEF AdmissionInit, Elements
  <2>2. AdmissionTypes
    BY AdmissionAssumption DEF AdmissionInit, AdmissionTypes, AdmissionAssumption
  <2>3. OpenedIsRemembered /\ OpensOnce /\ ContextsAreOfDevices /\ SeenAreOfDevices
    BY <2>1 DEF AdmissionInit, OpenedIsRemembered, OpensOnce, ContextsAreOfDevices, SeenAreOfDevices
  <2> QED BY <2>2, <2>3 DEF AdmissionIInv
<1>2. AdmissionIInv => AdmissionInv
  BY DEF AdmissionIInv, AdmissionTypes, AdmissionInv, AdmissionTypeOK
<1> QED
  BY <1>1, <1>2, AdmissionStep, PTL DEF AdmissionSpec

-----------------------------------------------------------------------------
(* The updater.                                                            *)

Directories == [version : Nat, code : Nat, n : Nat, whole : BOOLEAN, verified : BOOLEAN]
UpdaterPcs == {"idle", "checked", "fetched", "cleared", "downloaded", "unpacking", "stamped", "stopped",
               "current", "cli", "published", "restarted", "healthy"}
RunRecords == [pc : UpdaterPcs, force : BOOLEAN, own : Nat, target : Nat, code : Nat,
               tarball : {"none", "good", "bad"}, dir : Directories]

UpdaterTypes ==
  /\ latest \in Nat /\ versionTxt \in Nat /\ made \in Nat /\ windows \in BOOLEAN
  /\ dirs \subseteq Directories /\ current \in Directories
  /\ serving \in [dir : Directories, version : Nat, service : BOOLEAN]
  /\ upd \in RunRecords

Unpublished == {"checked", "fetched", "cleared", "downloaded", "unpacking", "stamped", "stopped", "current", "cli"}
PublishedOn == {"published", "restarted", "healthy"}
CliOn == {"cli"} \cup PublishedOn
CurrentOn == {"current"} \cup CliOn
PlacedOn == {"stamped", "stopped"} \cup CurrentOn
FetchedOn == {"fetched", "cleared", "downloaded", "unpacking"} \cup PlacedOn

\* What the run under way knows of the versions and has put on the disk.
RunSound ==
  /\ upd.pc \in Unpublished => versionTxt < upd.target /\ upd.target <= latest
  /\ upd.pc \in PublishedOn => versionTxt = upd.target /\ upd.target # 0
  /\ upd.pc \in FetchedOn => upd.target <= upd.code
  /\ upd.pc = "downloaded" => upd.tarball = "good"
  /\ upd.pc = "unpacking" => upd.dir.verified /\ ~upd.dir.whole /\ upd.dir.code = upd.code
  /\ upd.pc \in PlacedOn => upd.dir \in dirs /\ upd.dir.verified /\ upd.dir.whole /\ upd.dir.code = upd.code
  /\ upd.pc \in CurrentOn => current = upd.dir
  /\ upd.pc \in CliOn => cli = upd.dir

\* What serves was whole when it started, never newer than what is published, and
\* the new release if it says so.
ServedSound ==
  /\ serving # NoProcess => serving.dir \in dirs /\ serving.dir.whole
  /\ serving.version <= versionTxt
  /\ upd.pc \in {"published", "restarted"} /\ serving.version = upd.target => serving.dir = upd.dir

UpdaterIInv ==
  /\ UpdaterTypes /\ RunSound /\ ServedSound
  /\ LinksLead /\ VersionNotAhead /\ HealthIsTheNewOne

LEMMA Advancing ==
  ASSUME UpdaterTypes, NEW p \in UpdaterPcs, GoesTo(p)
  PROVE  /\ upd' \in RunRecords /\ upd'.pc = p
         /\ upd'.target = upd.target /\ upd'.code = upd.code /\ upd'.dir = upd.dir
         /\ upd'.tarball = upd.tarball
<1>1. upd \in RunRecords
  BY DEF UpdaterTypes
<1>2. \A u \in RunRecords :
        /\ [u EXCEPT !.pc = p] \in RunRecords /\ [u EXCEPT !.pc = p].pc = p
        /\ [u EXCEPT !.pc = p].target = u.target /\ [u EXCEPT !.pc = p].code = u.code
        /\ [u EXCEPT !.pc = p].dir = u.dir /\ [u EXCEPT !.pc = p].tarball = u.tarball
  BY DEF RunRecords
<1> QED BY <1>1, <1>2 DEF GoesTo

LEMMA NoDirTyped == /\ NoDir \in Directories /\ ~NoDir.whole
                    /\ Idle \in RunRecords /\ Idle.pc = "idle"
                    /\ NoProcess \in [dir : Directories, version : Nat, service : BOOLEAN]
                    /\ NoProcess.version = 0
  BY DEF NoDir, Dir, Directories, Idle, RunRecords, UpdaterPcs, NoProcess

\* A run that is given up leaves nothing to be kept.
LEMMA Abandoning ==
  ASSUME UpdaterIInv, Abandon, UNCHANGED <<windows, latest, versionTxt, made, cli, current, serving>>,
         dirs' \in SUBSET dirs, cli \in dirs', current \in dirs' \cup {NoDir},
         serving # NoProcess => serving.dir \in dirs'
  PROVE  UpdaterIInv'
<1>1. upd' \in RunRecords /\ upd'.pc = "idle"
  BY NoDirTyped DEF Abandon
<1>2. UpdaterTypes'
  BY <1>1 DEF UpdaterIInv, UpdaterTypes
<1>3. RunSound'
  BY <1>1 DEF RunSound, Unpublished, PublishedOn, CliOn, CurrentOn, PlacedOn, FetchedOn
<1>4. ServedSound' /\ HealthIsTheNewOne'
  BY <1>1 DEF UpdaterIInv, ServedSound, HealthIsTheNewOne, At
<1>5. LinksLead' /\ VersionNotAhead'
  BY DEF UpdaterIInv, LinksLead, VersionNotAhead
<1> QED BY <1>2, <1>3, <1>4, <1>5 DEF UpdaterIInv

\* The run goes on, the disk and the server stay as they are.
LEMMA RunGoesOn ==
  ASSUME UpdaterIInv, UNCHANGED <<windows, latest, diskVars, serving, made>>, upd' \in RunRecords, RunSound',
         upd'.pc \notin {"published", "restarted", "healthy"}
  PROVE  UpdaterIInv'
<1>1. UpdaterTypes'
  BY DEF UpdaterIInv, UpdaterTypes, diskVars
<1>2. ServedSound' /\ HealthIsTheNewOne'
  BY DEF UpdaterIInv, ServedSound, HealthIsTheNewOne, At, diskVars
<1>3. LinksLead' /\ VersionNotAhead'
  BY DEF UpdaterIInv, LinksLead, VersionNotAhead, diskVars
<1> QED BY <1>1, <1>2, <1>3 DEF UpdaterIInv

\* Around the run: releases come out, servers start, work and die.
LEMMA OutsideInv ==
  ASSUME UpdaterIInv, Release \/ ServerWorks \/ ServerDies \/ ServerStarts \/ UNCHANGED updaterVars
  PROVE  UpdaterIInv'
<1>1. UNCHANGED <<windows, diskVars, upd, made>> /\ latest' \in {latest, latest + 1} /\ latest \in Nat
  <2>1. latest \in Nat
    BY DEF UpdaterIInv, UpdaterTypes
  <2>2. CASE Release
    BY <2>1, <2>2 DEF Release
  <2>3. CASE ServerWorks
    BY <2>1, <2>3, Zenon DEF ServerWorks
  <2>4. CASE ServerDies
    BY <2>1, <2>4 DEF ServerDies
  <2>5. CASE ServerStarts
    BY <2>1, <2>5 DEF ServerStarts
  <2>6. CASE UNCHANGED updaterVars
    BY <2>1, <2>6 DEF updaterVars, diskVars
  <2> QED BY <2>2, <2>3, <2>4, <2>5, <2>6
<1>2. \/ serving' = serving
      \/ serving' = NoProcess
      \/ \E service \in BOOLEAN : serving' = Started(service)
  BY DEF Release, ServerWorks, ServerDies, ServerStarts, updaterVars
<1>3. cli \in Directories /\ cli \in dirs /\ cli.whole /\ versionTxt \in Nat
  BY DEF UpdaterIInv, UpdaterTypes, LinksLead
<1>4. serving' \in [dir : Directories, version : Nat, service : BOOLEAN]
  BY <1>2, <1>3, NoDirTyped DEF UpdaterIInv, UpdaterTypes, Started
<1>5. UpdaterTypes'
  BY <1>1, <1>4 DEF UpdaterIInv, UpdaterTypes, diskVars
<1>6. RunSound'
  <2>1. upd.target \in Nat
    BY DEF UpdaterIInv, UpdaterTypes, RunRecords
  <2>2. upd.pc \in Unpublished => upd.target <= latest'
    BY <1>1, <2>1 DEF UpdaterIInv, RunSound
  <2> QED BY <1>1, <2>2 DEF UpdaterIInv, RunSound, diskVars
<1>7. LinksLead' /\ VersionNotAhead'
  BY <1>1 DEF UpdaterIInv, LinksLead, VersionNotAhead, diskVars
<1>8. ServedSound' /\ HealthIsTheNewOne'
  <2>1. CASE serving' = serving
    BY <1>1, <2>1 DEF UpdaterIInv, ServedSound, HealthIsTheNewOne, At, diskVars
  <2>2. CASE serving' = NoProcess
    BY <1>1, <1>3, <2>2, NoDirTyped DEF UpdaterIInv, ServedSound, HealthIsTheNewOne, At, diskVars, RunSound, PublishedOn
  <2>3. ASSUME NEW service \in BOOLEAN, serving' = Started(service) PROVE ServedSound' /\ HealthIsTheNewOne'
    <3>1. serving'.dir = cli /\ serving'.version = versionTxt
      BY <2>3 DEF Started
    <3>2. upd.pc \in {"published", "restarted", "healthy"} => cli = upd.dir
      BY DEF UpdaterIInv, RunSound, CliOn, PublishedOn
    <3> QED BY <1>1, <1>3, <3>1, <3>2 DEF ServedSound, HealthIsTheNewOne, At, diskVars
  <2> QED BY <1>2, <2>1, <2>2, <2>3
<1> QED BY <1>5, <1>6, <1>7, <1>8 DEF UpdaterIInv

\* Up to the download: only the run itself changes.
LEMMA FetchingInv ==
  ASSUME UpdaterIInv, Check \/ FetchRelease \/ DeferCheck \/ Download \/ RunDies
  PROVE  UpdaterIInv'
<1>1. UNCHANGED <<windows, latest, diskVars, serving, made>>
  BY DEF Check, FetchRelease, DeferCheck, Download, RunDies
<1>2. /\ latest \in Nat /\ versionTxt \in Nat /\ upd \in RunRecords
  BY DEF UpdaterIInv, UpdaterTypes
<1>3. CASE Abandon
  BY <1>1, <1>3, Abandoning DEF diskVars, UpdaterIInv, LinksLead, ServedSound
<1>4. CASE ~Abandon
  <2>1. CASE Check
    <3>1. PICK force \in BOOLEAN, allowMajor \in BOOLEAN :
            /\ WouldInstall(versionTxt, latest, allowMajor)
            /\ upd' = [Idle EXCEPT !.pc = "checked", !.force = force, !.own = versionTxt, !.target = latest]
      BY <2>1 DEF Check
    <3>2. \A u \in RunRecords :
            LET v == [u EXCEPT !.pc = "checked", !.force = force, !.own = versionTxt, !.target = latest]
            IN  v \in RunRecords /\ v.pc = "checked" /\ v.target = latest
      BY <1>2 DEF RunRecords, UpdaterPcs
    <3>3. upd' \in RunRecords /\ upd'.pc = "checked" /\ upd'.target = latest
      BY <3>1, <3>2, NoDirTyped
    <3>4. RunSound'
      BY <1>1, <1>2, <3>1, <3>3 DEF RunSound, WouldInstall, diskVars, Unpublished, PublishedOn, CliOn, CurrentOn,
         PlacedOn, FetchedOn
    <3> QED BY <1>1, <3>3, <3>4, RunGoesOn
  <2>2. CASE FetchRelease
    <3>1. upd' = [upd EXCEPT !.pc = "fetched", !.code = latest] /\ upd.pc = "checked"
      BY <1>4, <2>2 DEF FetchRelease, At
    <3>2. \A u \in RunRecords :
            LET v == [u EXCEPT !.pc = "fetched", !.code = latest]
            IN  v \in RunRecords /\ v.pc = "fetched" /\ v.target = u.target /\ v.code = latest
      BY <1>2 DEF RunRecords, UpdaterPcs
    <3>3. upd' \in RunRecords /\ upd'.pc = "fetched" /\ upd'.target = upd.target /\ upd'.code = latest
      BY <1>2, <3>1, <3>2
    <3>4. RunSound'
      BY <1>1, <1>2, <3>1, <3>3 DEF UpdaterIInv, RunSound, diskVars, Unpublished, PublishedOn, CliOn, CurrentOn,
         PlacedOn, FetchedOn
    <3> QED BY <1>1, <3>3, <3>4, RunGoesOn
  <2>3. CASE DeferCheck
    <3>1. upd.pc = "fetched" /\ GoesTo("cleared")
      BY <1>4, <2>3 DEF DeferCheck, At
    <3>2. /\ upd' \in RunRecords /\ upd'.pc = "cleared" /\ upd'.target = upd.target /\ upd'.code = upd.code
      BY <3>1, Advancing DEF UpdaterIInv, UpdaterPcs
    <3>3. RunSound'
      BY <1>1, <3>1, <3>2 DEF UpdaterIInv, RunSound, diskVars, Unpublished, PublishedOn, CliOn, CurrentOn,
         PlacedOn, FetchedOn
    <3> QED BY <1>1, <3>2, <3>3, RunGoesOn
  <2>4. CASE Download
    <3>1. upd.pc = "cleared" /\ upd' = [upd EXCEPT !.pc = "downloaded", !.tarball = "good"]
      BY <1>4, <2>4 DEF Download, At
    <3>2. \A u \in RunRecords :
            LET v == [u EXCEPT !.pc = "downloaded", !.tarball = "good"]
            IN  /\ v \in RunRecords /\ v.pc = "downloaded" /\ v.target = u.target /\ v.code = u.code
                /\ v.tarball = "good"
      BY DEF RunRecords, UpdaterPcs
    <3>3. /\ upd' \in RunRecords /\ upd'.pc = "downloaded" /\ upd'.target = upd.target /\ upd'.code = upd.code
          /\ upd'.tarball = "good"
      BY <1>2, <3>1, <3>2
    <3>4. RunSound'
      BY <1>1, <3>1, <3>3 DEF UpdaterIInv, RunSound, diskVars, Unpublished, PublishedOn, CliOn, CurrentOn,
         PlacedOn, FetchedOn
    <3> QED BY <1>1, <3>3, <3>4, RunGoesOn
  <2>5. CASE RunDies
    BY <1>4, <2>5 DEF RunDies, Abandon
  <2> QED BY <2>1, <2>2, <2>3, <2>4, <2>5
<1> QED BY <1>3, <1>4

-----------------------------------------------------------------------------
(* The directories.                                                        *)

\* The directory a run fills is not one anything leads to.
LEMMA FillsItsOwn ==
  ASSUME UpdaterIInv, upd.pc = "unpacking"
  PROVE  /\ upd.dir # cli /\ (current # NoDir => upd.dir # current)
         /\ (serving # NoProcess => upd.dir # serving.dir)
  BY DEF UpdaterIInv, RunSound, LinksLead, ServedSound

LEMMA MakeDirInv ==
  ASSUME UpdaterIInv, MakeDir
  PROVE  UpdaterIInv'
<1> DEFINE dir == [Dir(upd.target, upd.code, made + 1) EXCEPT !.verified = upd.tarball = "good"]
<1>1. /\ upd \in RunRecords /\ upd.pc = "downloaded" /\ made \in Nat /\ upd.tarball = "good"
  BY DEF UpdaterIInv, UpdaterTypes, MakeDir, At, RunSound
<1>2. dir \in Directories /\ dir.verified /\ ~dir.whole /\ dir.code = upd.code
  <2>1. \A d \in Directories :
          LET v == [d EXCEPT !.verified = TRUE]
          IN  v \in Directories /\ v.verified /\ v.whole = d.whole /\ v.code = d.code
    BY DEF Directories
  <2>2. LET d == Dir(upd.target, upd.code, made + 1)
        IN  d \in Directories /\ ~d.whole /\ d.code = upd.code
    BY <1>1 DEF Dir, Directories, RunRecords
  <2>3. dir = [Dir(upd.target, upd.code, made + 1) EXCEPT !.verified = TRUE]
    BY <1>1
  <2> HIDE DEF dir
  <2> QED BY <2>1, <2>2, <2>3
<1>3. /\ dirs' = dirs \cup {dir} /\ upd' = [upd EXCEPT !.pc = "unpacking", !.dir = dir]
      /\ made' = made + 1 /\ UNCHANGED <<windows, latest, current, cli, versionTxt, serving>>
  BY DEF MakeDir
<1> HIDE DEF dir
<1>4. \A u \in RunRecords :
        LET v == [u EXCEPT !.pc = "unpacking", !.dir = dir]
        IN  /\ v \in RunRecords /\ v.pc = "unpacking" /\ v.target = u.target /\ v.code = u.code
            /\ v.dir = dir
  BY <1>2 DEF RunRecords, UpdaterPcs
<1>5. /\ upd' \in RunRecords /\ upd'.pc = "unpacking" /\ upd'.target = upd.target
      /\ upd'.code = upd.code /\ upd'.dir = dir
  BY <1>1, <1>3, <1>4
<1>6. UpdaterTypes'
  BY <1>1, <1>2, <1>3, <1>5 DEF UpdaterIInv, UpdaterTypes
<1>7. RunSound'
  BY <1>1, <1>2, <1>3, <1>5 DEF UpdaterIInv, RunSound, Unpublished, PublishedOn, CliOn, CurrentOn, PlacedOn,
     FetchedOn
<1>8. ServedSound' /\ HealthIsTheNewOne'
  BY <1>3, <1>5 DEF UpdaterIInv, ServedSound, HealthIsTheNewOne, At
<1>9. LinksLead' /\ VersionNotAhead'
  BY <1>3 DEF UpdaterIInv, LinksLead, VersionNotAhead
<1> QED BY <1>6, <1>7, <1>8, <1>9 DEF UpdaterIInv

LEMMA UnpackInv ==
  ASSUME UpdaterIInv, Unpack
  PROVE  UpdaterIInv'
<1>1. /\ upd \in RunRecords /\ upd.pc = "unpacking" /\ UNCHANGED <<windows, latest, current, cli, versionTxt, serving, made>>
  BY DEF UpdaterIInv, UpdaterTypes, Unpack, At
<1>2. CASE dirs' = dirs \ {upd.dir} /\ Abandon
  <2>1. cli \in dirs' /\ current \in dirs' \cup {NoDir} /\ (serving # NoProcess => serving.dir \in dirs')
    BY <1>1, <1>2, FillsItsOwn DEF UpdaterIInv, LinksLead, ServedSound
  <2> QED BY <1>1, <1>2, <2>1, Abandoning
<1>3. CASE ~(dirs' = dirs \ {upd.dir} /\ Abandon)
  <2> DEFINE full == [upd.dir EXCEPT !.whole = TRUE]
  <2>1. dirs' = (dirs \ {upd.dir}) \cup {full} /\ upd' = [upd EXCEPT !.pc = "stamped", !.dir = full]
    BY <1>3 DEF Unpack
  <2>2. upd.dir \in Directories /\ upd.dir.verified /\ upd.dir.code = upd.code
    BY <1>1 DEF UpdaterIInv, RunSound, RunRecords
  <2>3. \A d \in Directories :
          LET w == [d EXCEPT !.whole = TRUE]
          IN  w \in Directories /\ w.whole /\ w.verified = d.verified /\ w.code = d.code
    BY DEF Directories
  <2>4. full \in Directories /\ full.whole /\ full.verified /\ full.code = upd.code
    BY <2>2, <2>3
  <2> HIDE DEF full
  <2>5. \A u \in RunRecords :
          LET v == [u EXCEPT !.pc = "stamped", !.dir = full]
          IN  /\ v \in RunRecords /\ v.pc = "stamped" /\ v.target = u.target /\ v.code = u.code
              /\ v.dir = full
    BY <2>4 DEF RunRecords, UpdaterPcs
  <2>6. /\ upd' \in RunRecords /\ upd'.pc = "stamped" /\ upd'.target = upd.target
        /\ upd'.code = upd.code /\ upd'.dir = full
    BY <1>1, <2>1, <2>5
  <2>7. UpdaterTypes'
    BY <1>1, <2>1, <2>4, <2>6 DEF UpdaterIInv, UpdaterTypes
  <2>8. RunSound'
    BY <1>1, <2>1, <2>4, <2>6 DEF UpdaterIInv, RunSound, Unpublished, PublishedOn, CliOn, CurrentOn, PlacedOn,
       FetchedOn
  <2>9. ServedSound' /\ HealthIsTheNewOne'
    BY <1>1, <2>1, <2>6, FillsItsOwn DEF UpdaterIInv, ServedSound, HealthIsTheNewOne, At
  <2>10. LinksLead' /\ VersionNotAhead'
    BY <1>1, <2>1, FillsItsOwn DEF UpdaterIInv, LinksLead, VersionNotAhead
  <2> QED BY <2>7, <2>8, <2>9, <2>10 DEF UpdaterIInv
<1> QED BY <1>2, <1>3

\* What is kept of the old releases is on the disk, and the new release with it.
LEMMA PruneInv ==
  ASSUME UpdaterIInv, Prune
  PROVE  UpdaterIInv'
<1>1. /\ upd.pc = "healthy" /\ Abandon /\ UNCHANGED <<windows, latest, current, cli, versionTxt, serving, made>>
  BY DEF Prune, At
<1>2. PICK top \in Kept(upd.dir) : dirs' = top \cup {upd.dir}
  BY DEF Prune
<1>3. top \subseteq dirs
  BY <1>2 DEF Kept
<1>4. /\ upd.dir \in dirs /\ cli = upd.dir /\ current = upd.dir
      /\ (serving # NoProcess => serving.dir = upd.dir)
  BY <1>1 DEF UpdaterIInv, RunSound, HealthIsTheNewOne, At, PlacedOn, CurrentOn, CliOn, PublishedOn
<1> QED BY <1>1, <1>2, <1>3, <1>4, Abandoning

-----------------------------------------------------------------------------
(* The swap and the restart.                                               *)

LEMMA StopServiceInv ==
  ASSUME UpdaterIInv, StopService
  PROVE  UpdaterIInv'
<1>1. upd.pc = "stamped" /\ UNCHANGED <<windows, latest, diskVars, made>>
  BY DEF StopService, At
<1>2. \/ Abandon /\ serving' = serving
      \/ GoesTo("stopped") /\ serving' \in {serving, NoProcess}
  BY DEF StopService
<1>3. CASE Abandon /\ serving' = serving
  BY <1>1, <1>3, Abandoning DEF diskVars, UpdaterIInv, LinksLead, ServedSound
<1>4. CASE GoesTo("stopped") /\ serving' \in {serving, NoProcess}
  <2>1. /\ upd' \in RunRecords /\ upd'.pc = "stopped" /\ upd'.target = upd.target
        /\ upd'.code = upd.code /\ upd'.dir = upd.dir
    BY <1>4, Advancing DEF UpdaterIInv, UpdaterPcs
  <2>2. UpdaterTypes'
    BY <1>1, <1>4, <2>1, NoDirTyped DEF UpdaterIInv, UpdaterTypes, diskVars
  <2>3. RunSound'
    BY <1>1, <2>1 DEF UpdaterIInv, RunSound, diskVars, Unpublished, PublishedOn, CliOn, CurrentOn, PlacedOn,
       FetchedOn
  <2>4. versionTxt \in Nat
    BY DEF UpdaterIInv, UpdaterTypes
  <2>5. ServedSound' /\ HealthIsTheNewOne'
    BY <1>1, <1>4, <2>1, <2>4, NoDirTyped DEF UpdaterIInv, ServedSound, HealthIsTheNewOne, At, diskVars
  <2>6. LinksLead' /\ VersionNotAhead'
    BY <1>1 DEF UpdaterIInv, LinksLead, VersionNotAhead, diskVars
  <2> QED BY <2>2, <2>3, <2>5, <2>6 DEF UpdaterIInv
<1> QED BY <1>2, <1>3, <1>4

LEMMA RemoveCopyInv ==
  ASSUME UpdaterIInv, RemoveCopy
  PROVE  UpdaterIInv'
<1>1. upd.pc = "stopped" /\ windows /\ UNCHANGED <<windows, latest, dirs, cli, versionTxt, serving, made>>
  BY DEF RemoveCopy, At
<1>2. CASE Abandon /\ UNCHANGED current
  BY <1>1, <1>2, Abandoning DEF UpdaterIInv, LinksLead, ServedSound
<1>3. CASE current' = NoDir /\ UNCHANGED upd
  <2>1. UpdaterTypes'
    BY <1>1, <1>3, NoDirTyped DEF UpdaterIInv, UpdaterTypes
  <2>2. RunSound'
    BY <1>1, <1>3 DEF UpdaterIInv, RunSound, CliOn, CurrentOn, PublishedOn
  <2>3. ServedSound' /\ HealthIsTheNewOne'
    BY <1>1, <1>3 DEF UpdaterIInv, ServedSound, HealthIsTheNewOne, At
  <2>4. LinksLead' /\ VersionNotAhead'
    BY <1>1, <1>3 DEF UpdaterIInv, LinksLead, VersionNotAhead
  <2> QED BY <2>1, <2>2, <2>3, <2>4 DEF UpdaterIInv
<1> QED BY <1>2, <1>3 DEF RemoveCopy

\* `current`, then cli.js, then version.txt: each names the new release in its turn.
LEMMA SwapCurrentInv ==
  ASSUME UpdaterIInv, SwapCurrent
  PROVE  UpdaterIInv'
<1>1. /\ upd.pc = "stopped" /\ current' = upd.dir /\ GoesTo("current")
      /\ UNCHANGED <<windows, latest, dirs, cli, versionTxt, serving, made>>
  BY DEF SwapCurrent, At
<1>2. /\ upd' \in RunRecords /\ upd'.pc = "current" /\ upd'.target = upd.target
      /\ upd'.code = upd.code /\ upd'.dir = upd.dir
  BY <1>1, Advancing DEF UpdaterIInv, UpdaterPcs
<1>3. upd.dir \in dirs /\ upd.dir.whole
  BY <1>1 DEF UpdaterIInv, RunSound, PlacedOn
<1>4. UpdaterTypes'
  BY <1>1, <1>2, <1>3 DEF UpdaterIInv, UpdaterTypes
<1>5. RunSound'
  BY <1>1, <1>2 DEF UpdaterIInv, RunSound, Unpublished, PublishedOn, CliOn, CurrentOn, PlacedOn, FetchedOn
<1>6. ServedSound' /\ HealthIsTheNewOne'
  BY <1>1, <1>2 DEF UpdaterIInv, ServedSound, HealthIsTheNewOne, At
<1>7. LinksLead' /\ VersionNotAhead'
  BY <1>1, <1>3, NoDirTyped DEF UpdaterIInv, LinksLead, VersionNotAhead
<1> QED BY <1>4, <1>5, <1>6, <1>7 DEF UpdaterIInv

LEMMA SwapCliInv ==
  ASSUME UpdaterIInv, SwapCli
  PROVE  UpdaterIInv'
<1>1. /\ upd.pc = "current" /\ cli' = upd.dir /\ GoesTo("cli")
      /\ UNCHANGED <<windows, latest, dirs, current, versionTxt, serving, made>>
  BY DEF SwapCli, At
<1>2. /\ upd' \in RunRecords /\ upd'.pc = "cli" /\ upd'.target = upd.target
      /\ upd'.code = upd.code /\ upd'.dir = upd.dir
  BY <1>1, Advancing DEF UpdaterIInv, UpdaterPcs
<1>3. upd.dir \in dirs /\ upd.dir.whole /\ upd.dir.verified /\ upd.dir.code = upd.code
  BY <1>1 DEF UpdaterIInv, RunSound, PlacedOn, CurrentOn
<1>4. UpdaterTypes'
  BY <1>1, <1>2 DEF UpdaterIInv, UpdaterTypes
<1>5. RunSound'
  BY <1>1, <1>2 DEF UpdaterIInv, RunSound, Unpublished, PublishedOn, CliOn, CurrentOn, PlacedOn, FetchedOn
<1>6. ServedSound' /\ HealthIsTheNewOne'
  BY <1>1, <1>2 DEF UpdaterIInv, ServedSound, HealthIsTheNewOne, At
<1>7. VersionNotAhead'
  <2>1. versionTxt \in Nat /\ upd.target \in Nat /\ upd.code \in Nat
    BY DEF UpdaterIInv, UpdaterTypes, RunRecords
  <2>2. versionTxt < upd.target /\ upd.target <= upd.code
    BY <1>1 DEF UpdaterIInv, RunSound, Unpublished, FetchedOn, PlacedOn, CurrentOn
  <2> QED BY <1>1, <1>3, <2>1, <2>2 DEF VersionNotAhead
<1>8. LinksLead'
  BY <1>1, <1>3 DEF UpdaterIInv, LinksLead
<1> QED BY <1>4, <1>5, <1>6, <1>7, <1>8 DEF UpdaterIInv

\* Whatever serves was started before the publication and reports an older version.
LEMMA PublishInv ==
  ASSUME UpdaterIInv, PublishVersionTxt
  PROVE  UpdaterIInv'
<1>1. /\ upd.pc = "cli" /\ versionTxt' = upd.target /\ GoesTo("published")
      /\ UNCHANGED <<windows, latest, dirs, current, cli, serving, made>>
  BY DEF PublishVersionTxt, At
<1>2. /\ upd' \in RunRecords /\ upd'.pc = "published" /\ upd'.target = upd.target
      /\ upd'.code = upd.code /\ upd'.dir = upd.dir
  BY <1>1, Advancing DEF UpdaterIInv, UpdaterPcs
<1>3. /\ versionTxt \in Nat /\ upd.target \in Nat /\ upd.code \in Nat /\ serving.version \in Nat
  BY DEF UpdaterIInv, UpdaterTypes, RunRecords
<1>4. versionTxt < upd.target /\ upd.target <= upd.code /\ serving.version <= versionTxt
  BY <1>1 DEF UpdaterIInv, RunSound, ServedSound, Unpublished, FetchedOn, PlacedOn, CurrentOn, CliOn
<1>5. upd.dir \in dirs /\ upd.dir.code = upd.code /\ cli = upd.dir /\ current = upd.dir
  BY <1>1 DEF UpdaterIInv, RunSound, PlacedOn, CurrentOn, CliOn
<1>6. UpdaterTypes'
  BY <1>1, <1>2, <1>3 DEF UpdaterIInv, UpdaterTypes
<1>7. RunSound'
  BY <1>1, <1>2, <1>3, <1>4 DEF UpdaterIInv, RunSound, Unpublished, PublishedOn, CliOn, CurrentOn, PlacedOn,
     FetchedOn
<1>8. ServedSound' /\ HealthIsTheNewOne'
  <2>1. serving.version <= upd.target /\ serving.version # upd.target
    BY <1>3, <1>4
  <2> QED BY <1>1, <1>2, <2>1 DEF UpdaterIInv, ServedSound, HealthIsTheNewOne, At
<1>9. LinksLead' /\ VersionNotAhead'
  BY <1>1, <1>4, <1>5 DEF UpdaterIInv, LinksLead, VersionNotAhead
<1> QED BY <1>6, <1>7, <1>8, <1>9 DEF UpdaterIInv

LEMMA RestartServiceInv ==
  ASSUME UpdaterIInv, RestartService
  PROVE  UpdaterIInv'
<1>1. upd.pc = "published" /\ UNCHANGED <<windows, latest, diskVars, made>>
  BY DEF RestartService, At
<1>2. \/ Abandon /\ serving' = serving
      \/ GoesTo("restarted") /\ serving' \in {serving, Started(TRUE)}
  BY DEF RestartService
<1>3. CASE Abandon /\ serving' = serving
  BY <1>1, <1>3, Abandoning DEF diskVars, UpdaterIInv, LinksLead, ServedSound
<1>4. CASE GoesTo("restarted") /\ serving' \in {serving, Started(TRUE)}
  <2>1. /\ upd' \in RunRecords /\ upd'.pc = "restarted" /\ upd'.target = upd.target
        /\ upd'.code = upd.code /\ upd'.dir = upd.dir
    BY <1>4, Advancing DEF UpdaterIInv, UpdaterPcs
  <2>2. /\ cli \in Directories /\ cli \in dirs /\ cli.whole /\ versionTxt \in Nat /\ cli = upd.dir
    BY <1>1 DEF UpdaterIInv, UpdaterTypes, LinksLead, RunSound, CliOn, PublishedOn
  <2>3. Started(TRUE).dir = cli /\ Started(TRUE).version = versionTxt
        /\ Started(TRUE) \in [dir : Directories, version : Nat, service : BOOLEAN]
    BY <2>2 DEF Started
  <2>4. UpdaterTypes'
    BY <1>1, <1>4, <2>1, <2>3 DEF UpdaterIInv, UpdaterTypes, diskVars
  <2>5. RunSound'
    BY <1>1, <2>1 DEF UpdaterIInv, RunSound, diskVars, Unpublished, PublishedOn, CliOn, CurrentOn, PlacedOn,
       FetchedOn
  <2>6. ServedSound' /\ HealthIsTheNewOne'
    <3>1. CASE serving' = serving
      BY <1>1, <2>1, <3>1 DEF UpdaterIInv, ServedSound, HealthIsTheNewOne, At, diskVars
    <3>2. CASE serving' = Started(TRUE)
      <4>1. serving'.dir = cli /\ serving'.version = versionTxt /\ dirs' = dirs /\ versionTxt' = versionTxt
        BY <1>1, <2>3, <3>2 DEF diskVars
      <4> QED BY <2>1, <2>2, <4>1 DEF ServedSound, HealthIsTheNewOne, At
    <3> QED BY <1>4, <3>1, <3>2
  <2>7. LinksLead' /\ VersionNotAhead'
    BY <1>1 DEF UpdaterIInv, LinksLead, VersionNotAhead, diskVars
  <2> QED BY <2>4, <2>5, <2>6, <2>7 DEF UpdaterIInv
<1> QED BY <1>2, <1>3, <1>4

\* What reports the version published was started after it, from the new release.
LEMMA HealthInv ==
  ASSUME UpdaterIInv, WaitForRestartHealth
  PROVE  UpdaterIInv'
<1>1. upd.pc = "restarted" /\ UNCHANGED <<windows, latest, diskVars, serving, made>>
  BY DEF WaitForRestartHealth, At
<1>2. CASE Abandon
  BY <1>1, <1>2, Abandoning DEF diskVars, UpdaterIInv, LinksLead, ServedSound
<1>3. CASE ~Abandon
  <2>1. serving.version = upd.target /\ GoesTo("healthy")
    BY <1>3 DEF WaitForRestartHealth
  <2>2. /\ upd' \in RunRecords /\ upd'.pc = "healthy" /\ upd'.target = upd.target
        /\ upd'.code = upd.code /\ upd'.dir = upd.dir
    BY <2>1, Advancing DEF UpdaterIInv, UpdaterPcs
  <2>3. serving.dir = upd.dir
    BY <1>1, <2>1 DEF UpdaterIInv, ServedSound
  <2>4. UpdaterTypes'
    BY <1>1, <2>2 DEF UpdaterIInv, UpdaterTypes, diskVars
  <2>5. RunSound'
    BY <1>1, <2>2 DEF UpdaterIInv, RunSound, diskVars, Unpublished, PublishedOn, CliOn, CurrentOn, PlacedOn,
       FetchedOn
  <2>6. ServedSound' /\ HealthIsTheNewOne'
    BY <1>1, <2>2, <2>3 DEF UpdaterIInv, ServedSound, HealthIsTheNewOne, At, diskVars
  <2>7. LinksLead' /\ VersionNotAhead'
    BY <1>1 DEF UpdaterIInv, LinksLead, VersionNotAhead, diskVars
  <2> QED BY <2>4, <2>5, <2>6, <2>7 DEF UpdaterIInv
<1> QED BY <1>2, <1>3

-----------------------------------------------------------------------------
LEMMA UpdaterBegins == UpdaterInit => UpdaterIInv
<1> SUFFICES ASSUME UpdaterInit PROVE UpdaterIInv
  OBVIOUS
<1>1. FirstDir \in Directories /\ FirstDir.whole /\ FirstDir.verified /\ FirstDir.code = 1
  BY DEF FirstDir, Dir, Directories
<1> HIDE DEF FirstDir
<1>2. /\ latest = 1 /\ dirs = {FirstDir} /\ current = FirstDir /\ cli = FirstDir /\ versionTxt = 1
      /\ upd = Idle /\ made = 0 /\ windows \in BOOLEAN
  BY DEF UpdaterInit
<1>3. /\ serving \in [dir : Directories, version : Nat, service : BOOLEAN]
      /\ serving.dir = FirstDir /\ serving.version = 1
  <2>1. \A b \in BOOLEAN :
          /\ Started(b) \in [dir : Directories, version : Nat, service : BOOLEAN]
          /\ Started(b).dir = FirstDir /\ Started(b).version = 1
    BY <1>1, <1>2 DEF Started
  <2> QED BY <2>1 DEF UpdaterInit
<1>4. UpdaterTypes
  BY <1>1, <1>2, <1>3, NoDirTyped DEF UpdaterTypes
<1>5. RunSound
  BY <1>2, NoDirTyped DEF RunSound, Unpublished, PublishedOn, CliOn, CurrentOn, PlacedOn, FetchedOn
<1>6. ServedSound /\ HealthIsTheNewOne
  BY <1>1, <1>2, <1>3, NoDirTyped DEF ServedSound, HealthIsTheNewOne, At
<1>7. LinksLead /\ VersionNotAhead
  BY <1>1, <1>2, NoDirTyped DEF LinksLead, VersionNotAhead
<1> QED BY <1>4, <1>5, <1>6, <1>7 DEF UpdaterIInv

LEMMA UpdaterStep ==
  ASSUME UpdaterIInv, [UpdaterNext]_updaterVars
  PROVE  UpdaterIInv'
  BY OutsideInv, FetchingInv, MakeDirInv, UnpackInv, PruneInv, StopServiceInv, RemoveCopyInv, SwapCurrentInv,
     SwapCliInv, PublishInv, RestartServiceInv, HealthInv DEF UpdaterNext

(* Wherever a run of the updater dies, cli.js leads to a release that is   *)
(* whole and verified, version.txt claims no more than it runs, and what   *)
(* serves the port has the files it runs from: install.ts, swap.ts.        *)
THEOREM UpdaterHolds == UpdaterSpec => []UpdaterInv
<1>1. UpdaterIInv => UpdaterInv
  BY DEF UpdaterIInv, UpdaterInv, ServedSound, ServingKept
<1> QED BY <1>1, UpdaterBegins, UpdaterStep, PTL DEF UpdaterSpec

-----------------------------------------------------------------------------
(* The pressure of the host.                                               *)

Levels == {Ok, Elevated, Critical}
SampleSpace == [Metrics -> Readings \cup {Unread}]

\* One metric: the bars are in order, so a reading that led to a level still leads to
\* it from that level, and a worse level judges a reading no milder.
LEMMA OneMetric ==
  ASSUME NEW v \in Readings \cup {Unread}, NEW p \in Levels
  PROVE  /\ Schmitt(v, p) \in Levels
         /\ Schmitt(v, Schmitt(v, p)) = Schmitt(v, p)
         /\ Schmitt(v, p) = Critical => Schmitt(v, Critical) = Critical /\ v >= Bars.leaveCritical
         /\ Schmitt(v, p) = Elevated => Schmitt(v, Elevated) = Elevated /\ v >= Bars.leaveElevated
         /\ Schmitt(v, p) # Critical => v < Bars.enterCritical /\ Schmitt(v, Elevated) # Critical
                                        /\ Schmitt(v, Ok) # Critical
         /\ Schmitt(v, p) = Ok => Schmitt(v, Ok) = Ok /\ v < Bars.enterElevated
<1>1. v \in Int /\ p \in {0, 1, 2}
  BY DEF Readings, Unread, Levels, Ok, Elevated, Critical
<1>2. /\ Bars.leaveElevated = 1 /\ Bars.enterElevated = 2
      /\ Bars.leaveCritical = 2 /\ Bars.enterCritical = 3
  BY DEF Bars
<1>3. /\ Schmitt(v, 0) = (IF v >= 3 THEN 2 ELSE IF v >= 2 THEN 1 ELSE 0)
      /\ Schmitt(v, 1) = (IF v >= 3 THEN 2 ELSE IF v >= 1 THEN 1 ELSE 0)
      /\ Schmitt(v, 2) = (IF v >= 2 THEN 2 ELSE IF v >= 1 THEN 1 ELSE 0)
  BY <1>1, <1>2 DEF Schmitt, Ok, Elevated, Critical
<1>4. CASE p = 0
  BY <1>1, <1>2, <1>3, <1>4 DEF Levels, Ok, Elevated, Critical
<1>5. CASE p = 1
  BY <1>1, <1>2, <1>3, <1>5 DEF Levels, Ok, Elevated, Critical
<1>6. CASE p = 2
  BY <1>1, <1>2, <1>3, <1>6 DEF Levels, Ok, Elevated, Critical
<1> QED BY <1>1, <1>4, <1>5, <1>6

LEMMA LevelsInOrder ==
  \A a, b \in Levels :
    /\ a = Critical /\ a <= b => b = Critical
    /\ a # Ok /\ a <= b => b # Ok
    /\ b # Critical /\ a <= b => a # Critical
    /\ b = Ok /\ a <= b => a = Ok
  BY DEF Levels, Ok, Elevated, Critical

LEMMA WorstOfAll ==
  ASSUME NEW S, S \subseteq Levels, S # {}
  PROVE  Max(S) \in S /\ \A x \in S : x <= Max(S)
<1>1. \E x \in S : \A y \in S : x >= y
  <2>1. CASE Critical \in S
    <3>1. \A y \in S : Critical >= y
      BY DEF Levels, Ok, Elevated, Critical
    <3> QED BY <2>1, <3>1
  <2>2. CASE Critical \notin S /\ Elevated \in S
    BY <2>2 DEF Levels, Ok, Elevated, Critical
  <2>3. CASE Critical \notin S /\ Elevated \notin S
    <3>1. Ok \in S /\ \A y \in S : y = Ok
      BY <2>3, Zenon DEF Levels
    <3>2. \A y \in S : Ok >= y
      BY <3>1 DEF Ok
    <3> QED BY <3>1, <3>2
  <2> QED BY <2>1, <2>2, <2>3
<1>2. /\ (CHOOSE x \in S : \A y \in S : x >= y) \in S
      /\ \A y \in S : (CHOOSE x \in S : \A z \in S : x >= z) >= y
  BY <1>1
<1>3. Max(S) \in S /\ \A y \in S : Max(S) >= y
  BY <1>2 DEF Max
<1> QED BY <1>3 DEF Levels, Ok, Elevated, Critical

\* The level of the host is that of its worst metric.
LEMMA WorstMetric ==
  ASSUME NEW s \in SampleSpace, NEW p \in Levels
  PROVE  /\ LevelOf(s, p) \in Levels
         /\ \A m \in Metrics : Schmitt(s[m], p) <= LevelOf(s, p)
         /\ \E m \in Metrics : Schmitt(s[m], p) = LevelOf(s, p)
<1> DEFINE S == {Schmitt(s[m], p) : m \in Metrics}
<1>1. S \subseteq Levels
  BY OneMetric DEF SampleSpace
<1>2. S # {}
  BY DEF Metrics
<1>3. Max(S) \in S /\ \A x \in S : x <= Max(S)
  <2> HIDE DEF S
  <2> QED BY <1>1, <1>2, WorstOfAll
<1> QED BY <1>1, <1>3 DEF LevelOf

\* Judged again from the level it led to, a sample leads to that level.
LEMMA Settled ==
  ASSUME NEW s \in SampleSpace, NEW p \in Levels
  PROVE  LevelOf(s, LevelOf(s, p)) = LevelOf(s, p)
<1> SUFFICES ASSUME NEW l, l = LevelOf(s, p) PROVE LevelOf(s, l) = l
  OBVIOUS
<1>1. /\ l \in Levels /\ \A m \in Metrics : Schmitt(s[m], p) <= l
      /\ \E m \in Metrics : Schmitt(s[m], p) = l
  BY WorstMetric
<1>2. /\ LevelOf(s, l) \in Levels /\ \A m \in Metrics : Schmitt(s[m], l) <= LevelOf(s, l)
      /\ \E m \in Metrics : Schmitt(s[m], l) = LevelOf(s, l)
  BY <1>1, WorstMetric
<1>3. \A m \in Metrics : s[m] \in Readings \cup {Unread}
  BY DEF SampleSpace
<1>4. CASE l = Critical
  <2>1. PICK m \in Metrics : Schmitt(s[m], p) = Critical
    BY <1>1, <1>4
  <2>2. Schmitt(s[m], l) = Critical
    BY <1>3, <1>4, <2>1, OneMetric
  <2>3. LevelOf(s, l) = Critical
    BY <1>1, <1>2, <1>4, <2>2, LevelsInOrder
  <2> QED BY <1>4, <2>3
<1>5. CASE l = Elevated
  <2>1. \A m \in Metrics : Schmitt(s[m], p) \in Levels /\ Schmitt(s[m], p) # Critical
    <3>1. Elevated # Critical
      BY DEF Elevated, Critical
    <3> QED BY <1>1, <1>3, <1>5, <3>1, OneMetric, LevelsInOrder
  <2>2. \A m \in Metrics : Schmitt(s[m], Elevated) # Critical
    BY <1>3, <2>1, OneMetric
  <2>3. \E m \in Metrics : Schmitt(s[m], Elevated) = Elevated
    BY <1>1, <1>3, <1>5, OneMetric
  <2>4. LevelOf(s, l) # Critical
    BY <1>2, <1>5, <2>2
  <2>5. LevelOf(s, l) # Ok
    <3>1. Elevated # Ok /\ Elevated \in Levels
      BY DEF Elevated, Ok, Levels
    <3> QED BY <1>2, <1>5, <2>3, <3>1, LevelsInOrder
  <2> QED BY <1>2, <1>5, <2>4, <2>5 DEF Levels
<1>6. CASE l = Ok
  <2>1. \A m \in Metrics : Schmitt(s[m], p) = Ok
    BY <1>1, <1>3, <1>6, OneMetric, LevelsInOrder
  <2>2. \A m \in Metrics : Schmitt(s[m], Ok) = Ok
    BY <1>3, <2>1, OneMetric
  <2> QED BY <1>2, <1>6, <2>2
<1> QED BY <1>1, <1>4, <1>5, <1>6 DEF Levels

\* The level a sample leads to is earned by it.
LEMMA Earned ==
  ASSUME NEW s \in SampleSpace, NEW p \in Levels, NEW l, l = LevelOf(s, p)
  PROVE  /\ l = Critical => \E m \in Metrics : s[m] >= Bars.leaveCritical
         /\ l = Elevated => \E m \in Metrics : s[m] >= Bars.leaveElevated
         /\ l # Critical => \A m \in Metrics : s[m] < Bars.enterCritical
         /\ l = Ok => \A m \in Metrics : s[m] < Bars.enterElevated
<1>1. /\ l \in Levels /\ \A m \in Metrics : Schmitt(s[m], p) <= l
      /\ \E m \in Metrics : Schmitt(s[m], p) = l
  BY WorstMetric
<1>2. \A m \in Metrics : s[m] \in Readings \cup {Unread}
  BY DEF SampleSpace
<1>3. (l = Critical => \E m \in Metrics : s[m] >= Bars.leaveCritical)
      /\ (l = Elevated => \E m \in Metrics : s[m] >= Bars.leaveElevated)
  BY <1>1, <1>2, OneMetric
<1>4. l # Critical => \A m \in Metrics : s[m] < Bars.enterCritical
  <2> SUFFICES ASSUME l # Critical, NEW m \in Metrics PROVE s[m] < Bars.enterCritical
    OBVIOUS
  <2>1. Schmitt(s[m], p) \in Levels /\ Schmitt(s[m], p) <= l
    BY <1>1, <1>2, OneMetric
  <2>2. Schmitt(s[m], p) # Critical
    BY <1>1, <2>1 DEF Levels, Ok, Elevated, Critical
  <2> QED BY <1>2, <2>2, OneMetric
<1>5. l = Ok => \A m \in Metrics : s[m] < Bars.enterElevated
  <2> SUFFICES ASSUME l = Ok, NEW m \in Metrics PROVE s[m] < Bars.enterElevated
    OBVIOUS
  <2>1. Schmitt(s[m], p) \in Levels /\ Schmitt(s[m], p) <= l
    BY <1>1, <1>2, OneMetric
  <2>2. Schmitt(s[m], p) = Ok
    BY <2>1 DEF Levels, Ok, Elevated, Critical
  <2> QED BY <1>2, <2>2, OneMetric
<1> QED BY <1>3, <1>4, <1>5

LEMMA TickInv ==
  ASSUME PressureInv, Tick
  PROVE  PressureInv'
<1>1. PICK s \in Samples, many \in BOOLEAN :
        LET next == LevelOf(s, level)
            warning == IF next = Ok THEN NoWarning
                       ELSE [level |-> next, reasons |-> ReasonsOf(s, level, many)]
        IN  /\ sample' = s
            /\ level' = next
            /\ IF next = level THEN UNCHANGED <<lastWarning, shown>>
               ELSE lastWarning' = warning /\ shown' = Told(warning)
  BY DEF Tick
<1>2. s \in SampleSpace /\ level \in Levels
  <2>1. macFree \in Readings \cup {Unread} /\ level \in Levels
    BY DEF PressureInv, PressureType, Levels
  <2>2. /\ s = [memory |-> s.memory, event_loop |-> s.event_loop, load |-> s.load]
        /\ s.memory \in Readings \cup {Unread} /\ s.event_loop \in Readings \cup {Unread}
        /\ s.load \in Readings \cup {Unread}
    BY <2>1 DEF Samples, Readings
  <2>3. s \in SampleSpace
    BY <2>2 DEF SampleSpace, Metrics
  <2> QED BY <2>1, <2>3
<1>3. level' \in Levels /\ level' = LevelOf(s, level) /\ sample' = s
  BY <1>1, <1>2, WorstMetric
<1>4. NoFlicker'
  BY <1>2, <1>3, Settled DEF NoFlicker
<1>5. LevelEarned'
  BY <1>2, <1>3, Earned DEF LevelEarned
<1> DEFINE warning == IF level' = Ok THEN NoWarning
                      ELSE [level |-> level', reasons |-> ReasonsOf(s, level, many)]
<1>6. \/ level' = level /\ UNCHANGED <<lastWarning, shown>>
      \/ level' # level /\ lastWarning' = warning /\ shown' = Told(warning)
  BY <1>1
<1>7. warning \in Warnings /\ warning.level = level'
  <2>1. CASE level' = Ok
    BY <2>1 DEF Warnings, NoWarning
  <2>2. CASE level' # Ok
    <3>1. PICK m \in Metrics : Schmitt(s[m], level) = level'
      BY <1>2, <1>3, WorstMetric
    <3>2. m \in ReasonsOf(s, level, many) /\ m \notin {"agents"}
      BY <2>2, <3>1 DEF ReasonsOf, Metrics
    <3>3. ReasonsOf(s, level, many) \in (SUBSET (Metrics \cup {"agents"})) \ {{}, {"agents"}}
      <4>1. ReasonsOf(s, level, many) \subseteq Metrics \cup {"agents"}
        BY Zenon DEF ReasonsOf
      <4>2. ReasonsOf(s, level, many) # {} /\ ReasonsOf(s, level, many) # {"agents"}
        BY <3>2, Zenon
      <4> QED BY <4>1, <4>2
    <3>4. level' \in {Elevated, Critical}
      BY <1>3, <2>2 DEF Levels
    <3> QED BY <2>2, <3>3, <3>4 DEF Warnings
  <2> QED BY <2>1, <2>2
<1> HIDE DEF warning
<1>8. PressureType'
  <2>1. host' = host /\ ticking' = ticking /\ macFree' = macFree
        /\ macPending' \in BOOLEAN /\ cpuSeen' \in BOOLEAN
    BY Zenon DEF Tick
  <2>2. lastWarning' \in Warnings
    BY <1>6, <1>7 DEF PressureInv, PressureType
  <2>3. shown' \in [PressureClients -> Warnings \cup {Away}]
    BY <1>6, <1>7 DEF PressureInv, PressureType, Told
  <2>4. sample' \in [Metrics -> Readings \cup {Unread}] /\ level' \in {Ok, Elevated, Critical}
    BY <1>2, <1>3 DEF SampleSpace, Levels
  <2> QED BY <2>1, <2>2, <2>3, <2>4 DEF PressureInv, PressureType
<1>9. EveryoneWarned'
  <2>1. CASE level' = level /\ UNCHANGED <<lastWarning, shown>>
    BY <2>1 DEF PressureInv, EveryoneWarned
  <2>2. CASE lastWarning' = warning /\ shown' = Told(warning)
    BY <1>7, <2>2 DEF EveryoneWarned, Told
  <2> QED BY <1>6, <2>1, <2>2
<1> QED BY <1>4, <1>5, <1>8, <1>9 DEF PressureInv

\* Nothing but the tick changes the level, and whoever connects is told of it.
LEMMA BetweenTicks ==
  ASSUME PressureInv,
         \/ ProbeAnswers \/ StopsWatching \/ UNCHANGED pressureVars
         \/ \E c \in PressureClients : Connects(c) \/ Disconnects(c)
  PROVE  PressureInv'
<1>1. UNCHANGED <<level, lastWarning, sample>>
  BY DEF ProbeAnswers, StopsWatching, pressureVars, Connects, Disconnects
<1>2. NoFlicker' /\ LevelEarned'
  BY <1>1 DEF PressureInv, NoFlicker, LevelEarned
<1>3. /\ host' = host /\ ticking' \in BOOLEAN /\ macPending' \in BOOLEAN /\ cpuSeen' \in BOOLEAN
      /\ macFree' \in Readings \cup {Unread}
  BY Zenon DEF PressureInv, PressureType, ProbeAnswers, StopsWatching, pressureVars, Connects, Disconnects
<1>4. /\ shown' \in [PressureClients -> Warnings \cup {Away}]
      /\ \A c \in PressureClients : shown'[c] # Away => shown'[c] = shown[c] \/ shown'[c] = lastWarning
  BY DEF PressureInv, PressureType, ProbeAnswers, StopsWatching, pressureVars, Connects, Disconnects, Warnings
<1>5. \A c \in PressureClients : shown'[c] # Away => shown'[c] = lastWarning
  BY <1>4 DEF PressureInv, EveryoneWarned
<1>6. PressureType'
  BY <1>1, <1>3, <1>4 DEF PressureInv, PressureType
<1>7. EveryoneWarned'
  BY <1>1, <1>5 DEF PressureInv, EveryoneWarned
<1> QED BY <1>2, <1>6, <1>7 DEF PressureInv

LEMMA PressureBegins == PressureInit => PressureInv
<1> SUFFICES ASSUME PressureInit PROVE PressureInv
  OBVIOUS
<1>1. sample \in SampleSpace /\ level = Ok /\ \A m \in Metrics : sample[m] = 0
  BY DEF PressureInit, SampleSpace, Readings
<1>2. PressureType /\ EveryoneWarned
  <2>1. ticking \in BOOLEAN /\ macPending \in BOOLEAN /\ cpuSeen \in BOOLEAN
    BY Zenon DEF PressureInit
  <2> QED BY <1>1, <2>1 DEF PressureInit, PressureType, EveryoneWarned, SampleSpace, Warnings, NoWarning, Away
<1>3. \A m \in Metrics : Schmitt(sample[m], Ok) = Ok
  BY <1>1 DEF Schmitt, Bars, Ok, Critical
<1>4. NoFlicker
  BY <1>1, <1>3, WorstMetric DEF NoFlicker, Levels
<1>5. LevelEarned
  BY <1>1 DEF LevelEarned, Bars, Ok, Elevated, Critical
<1> QED BY <1>2, <1>4, <1>5 DEF PressureInv

(* The level of the host is earned by its last sample and settled by it,   *)
(* and whoever is connected shows it: host-pressure-monitor.ts.            *)
THEOREM PressureHolds == PressureSpec => []PressureInv
<1>1. PressureInv /\ [PressureNext]_pressureVars => PressureInv'
  BY TickInv, BetweenTicks DEF PressureNext
<1> QED BY <1>1, PressureBegins, PTL DEF PressureSpec

-----------------------------------------------------------------------------
(* The handshake.                                                          *)

\* A symmetric state, by its parts.
SymmetricState(h, ck, n) == [h |-> h, ck |-> ck, n |-> n]

LEMMA MixesHash ==
  \A h, ck, n, x : MixHash(SymmetricState(h, ck, n), x) = SymmetricState(Append(h, x), ck, n)
BY DEF MixHash, SymmetricState

LEMMA MixesKey ==
  \A h, ck, n, x : MixKey(SymmetricState(h, ck, n), x) = SymmetricState(h, Append(ck, x), 0)
<1> SUFFICES ASSUME NEW h, NEW ck, NEW n, NEW x
             PROVE  MixKey(SymmetricState(h, ck, n), x) = SymmetricState(h, Append(ck, x), 0)
  OBVIOUS
<1> DEFINE s == SymmetricState(h, ck, n)
           y == Append(ck, x)
<1>1. s = [h |-> h, ck |-> ck, n |-> n] /\ s.ck = ck
  BY DEF SymmetricState
<1>2. MixKey(s, x) = [s EXCEPT !.ck = y, !.n = 0]
  BY <1>1 DEF MixKey
<1> HIDE DEF s, y
<1>3. [s EXCEPT !.ck = y, !.n = 0] = [[s EXCEPT !.ck = y] EXCEPT !.n = 0]
  BY <1>1
<1>4. [[s EXCEPT !.ck = y] EXCEPT !.n = 0] = SymmetricState(h, y, 0)
  <2> DEFINE t == [s EXCEPT !.ck = y]
  <2>1. t = [h |-> h, ck |-> y, n |-> n]
    BY <1>1
  <2> HIDE DEF t
  <2>2. [t EXCEPT !.n = 0] = [h |-> h, ck |-> y, n |-> 0]
    BY <2>1
  <2> QED
    BY <2>2 DEF t, SymmetricState
<1> QED
  BY <1>2, <1>3, <1>4 DEF s, y

LEMMA MixesBoth ==
  \A h, ck, n, c : \E x, m : Mixed(SymmetricState(h, ck, n), c) = SymmetricState(Append(h, x), ck, m)
                             /\ x = <<"sealed", c.key, c.n, c.text>>
<1> SUFFICES ASSUME NEW h, NEW ck, NEW n, NEW c
             PROVE  \E x, m : Mixed(SymmetricState(h, ck, n), c) = SymmetricState(Append(h, x), ck, m)
                             /\ x = <<"sealed", c.key, c.n, c.text>>
  OBVIOUS
<1> DEFINE x == <<"sealed", c.key, c.n, c.text>>
           s == SymmetricState(Append(h, x), ck, n)
<1>1. MixHash(SymmetricState(h, ck, n), x) = s
  BY MixesHash
<1>2. Mixed(SymmetricState(h, ck, n), c) = [s EXCEPT !.n = s.n + 1]
  BY <1>1 DEF Mixed
<1> HIDE DEF x
<1>3. [s EXCEPT !.n = s.n + 1] = SymmetricState(Append(h, x), ck, s.n + 1)
  BY DEF SymmetricState
<1> HIDE DEF s
<1>4. Mixed(SymmetricState(h, ck, n), c) = SymmetricState(Append(h, x), ck, s.n + 1)
  BY <1>2, <1>3
<1> QED
  BY <1>4 DEF x

LEMMA MixedParts ==
  ASSUME NEW h, NEW ck, NEW n, NEW c
  PROVE  /\ Mixed(SymmetricState(h, ck, n), c).ck = ck
         /\ Mixed(SymmetricState(h, ck, n), c).h = Append(h, <<"sealed", c.key, c.n, c.text>>)
<1> DEFINE x == <<"sealed", c.key, c.n, c.text>>
           s == SymmetricState(Append(h, x), ck, n)
           t == Mixed(SymmetricState(h, ck, n), c)
<1>1. MixHash(SymmetricState(h, ck, n), x) = s
  BY MixesHash
<1>2. t = [s EXCEPT !.n = s.n + 1]
  BY <1>1 DEF Mixed
<1> HIDE DEF x, t
<1>3. t.ck = ck /\ t.h = Append(h, x)
  BY <1>2 DEF SymmetricState
<1> QED
  BY <1>3 DEF x, t

\* The transcript and the chaining key of both sides, step by step.
OpeningHash(pattern, rs, e) ==
  Append(Append(Append(<<Name(pattern)>>, <<"prologue", Prologue(pattern)>>), Public(rs)), Public(e))
OpeningKey(pattern, rs, e) == Append(Append(<<Name(pattern)>>, Public(e)), Dh(e, rs))
IdentifiedKey(pattern, rs, e, static) ==
  IF pattern = "IKpsk1" THEN Append(Append(OpeningKey(pattern, rs, e), Dh(static, rs)), Psk(rs))
  ELSE Append(OpeningKey(pattern, rs, e), Dh(static, rs))
AnsweredKey(ck, e, re, static) ==
  Append(Append(Append(ck, Public(e)), Dh(e, re)), Dh(e, static))

LEMMA OpeningIs ==
  ASSUME NEW pattern, NEW rs, NEW e
  PROVE  Opening(pattern, rs, e) =
           SymmetricState(OpeningHash(pattern, rs, e), OpeningKey(pattern, rs, e), 0)
<1>1. Initialised(pattern) = SymmetricState(<<Name(pattern)>>, <<Name(pattern)>>, 0)
  BY DEF Initialised, SymmetricState
<1> QED
  BY <1>1, MixesHash, MixesKey DEF Opening, OpeningHash, OpeningKey

LEMMA IdentifiedIs ==
  ASSUME NEW pattern, NEW rs, NEW e, NEW static, NEW c
  PROVE  \E h, n : Identified(Mixed(Opening(pattern, rs, e), c), pattern, static, rs) =
           SymmetricState(h, IdentifiedKey(pattern, rs, e, static), n)
<1>1. PICK h, n : Mixed(Opening(pattern, rs, e), c) = SymmetricState(h, OpeningKey(pattern, rs, e), n)
  BY OpeningIs, MixesBoth
<1>2. MixKey(SymmetricState(h, OpeningKey(pattern, rs, e), n), Dh(static, rs)) =
        SymmetricState(h, Append(OpeningKey(pattern, rs, e), Dh(static, rs)), 0)
  BY MixesKey
<1>3. CASE pattern = "IKpsk1"
  <2> DEFINE k == Append(OpeningKey(pattern, rs, e), Dh(static, rs))
  <2>1. MixKeyAndHash(SymmetricState(h, k, 0), Psk(rs)) =
          SymmetricState(Append(h, <<"tempH", Psk(rs)>>), Append(k, Psk(rs)), 0)
    BY MixesKey, MixesHash DEF MixKeyAndHash
  <2> QED
    BY <1>1, <1>2, <1>3, <2>1 DEF Identified, IdentifiedKey
<1>4. CASE pattern # "IKpsk1"
  BY <1>1, <1>2, <1>4 DEF Identified, IdentifiedKey
<1> QED
  BY <1>3, <1>4

LEMMA AnsweringIs ==
  \A h, ck, n, e, re, static : Answering(SymmetricState(h, ck, n), e, re, static) =
    SymmetricState(Append(h, Public(e)), AnsweredKey(ck, e, re, static), 0)
BY MixesHash, MixesKey DEF Answering, AnsweredKey

\* What message 1 carries.
LEMMA Message1Is ==
  ASSUME NEW pattern, NEW rs, NEW e, NEW static, NEW payload
  PROVE  LET m == Message1(pattern, rs, e, static, payload)
         IN  /\ m.e = e
             /\ m.static.ad = OpeningHash(pattern, rs, e) /\ m.static.key = OpeningKey(pattern, rs, e)
             /\ m.static.text = static
             /\ m.body.text = payload
             /\ \E h, n : m.sym = SymmetricState(h, IdentifiedKey(pattern, rs, e, static), n)
<1> DEFINE opening == Opening(pattern, rs, e)
           sealedStatic == Sealed(opening, static)
           s == Identified(Mixed(opening, sealedStatic), pattern, static, rs)
           body == Sealed(s, payload)
           m == Message1(pattern, rs, e, static, payload)
<1>1. m = [e |-> e, static |-> sealedStatic, body |-> body, sym |-> Mixed(s, body)]
  BY DEF Message1
<1>2. sealedStatic.ad = opening.h /\ sealedStatic.key = opening.ck /\ sealedStatic.text = static
  BY DEF Sealed
<1>3. opening.h = OpeningHash(pattern, rs, e) /\ opening.ck = OpeningKey(pattern, rs, e)
  BY OpeningIs DEF SymmetricState
<1>4. body.text = payload
  BY DEF Sealed
<1>5. PICK h, n : s = SymmetricState(h, IdentifiedKey(pattern, rs, e, static), n)
  BY IdentifiedIs
<1> HIDE DEF s, body, opening, sealedStatic
<1>6. \E g, k : Mixed(s, body) = SymmetricState(g, IdentifiedKey(pattern, rs, e, static), k)
  BY <1>5, MixesBoth
<1> HIDE DEF m
<1>7. m.e = e /\ m.static = sealedStatic /\ m.body = body /\ m.sym = Mixed(s, body)
  BY <1>1
<1> QED
  BY <1>2, <1>3, <1>4, <1>6, <1>7 DEF m

\* A responder that accepts message 1 is the one it was written for, and takes from it
\* what was put in.
LEMMA ResponderIs ==
  ASSUME NEW p, NEW rs, NEW e, NEW static, NEW payload, NEW pattern, NEW server,
         NEW m, m = Message1(p, rs, e, static, payload), Responder(pattern, server, m).ok
  PROVE  /\ pattern = p /\ server = rs
         /\ Responder(pattern, server, m).static = static
         /\ Responder(pattern, server, m).payload = payload
         /\ Responder(pattern, server, m).e = e
         /\ \E h, n : Responder(pattern, server, m).sym =
              SymmetricState(h, IdentifiedKey(pattern, server, e, static), n)
<1> DEFINE opening == Opening(pattern, server, e)
           s == Identified(Mixed(opening, m.static), pattern, static, server)
           r == Responder(pattern, server, m)
           opens == OpensWith(opening, m.static) /\ OpensWith(s, m.body)
<1>1. /\ m.e = e
      /\ m.static.ad = OpeningHash(p, rs, e) /\ m.static.key = OpeningKey(p, rs, e)
      /\ m.static.text = static
      /\ m.body.text = payload
  BY Message1Is
<1>2. r = [ok |-> opens, static |-> static, payload |-> m.body.text, e |-> m.e, sym |-> Mixed(s, m.body)]
  BY <1>1 DEF Responder
<1>3. PICK h, n : s = SymmetricState(h, IdentifiedKey(pattern, server, e, static), n)
  BY IdentifiedIs
<1>4. opening.h = OpeningHash(pattern, server, e)
  BY OpeningIs DEF SymmetricState
<1> HIDE DEF opening, s, opens
<1>5. r.ok = opens /\ r.static = static
      /\ r.payload = m.body.text /\ r.e = m.e /\ r.sym = Mixed(s, m.body)
  BY <1>2
<1>6. OpeningHash(p, rs, e) = OpeningHash(pattern, server, e)
  BY <1>1, <1>4, <1>5 DEF OpensWith, opens
<1>7. pattern = p /\ server = rs
  <2>1. \A a, b, c, d : Append(Append(Append(<<a>>, b), c), d)[1] = a
                        /\ Append(Append(Append(<<a>>, b), c), d)[3] = c
    OBVIOUS
  <2>2. Name(p) = Name(pattern) /\ Public(rs) = Public(server)
    BY <1>6, <2>1 DEF OpeningHash
  <2> QED
    BY <2>2 DEF Name, Public
<1>8. \E g, k : Mixed(s, m.body) = SymmetricState(g, IdentifiedKey(pattern, server, e, static), k)
  BY <1>3, MixesBoth
<1> HIDE DEF r
<1> QED
  BY <1>1, <1>5, <1>7, <1>8 DEF r

\* A sequence, of whatever it holds.
IsList(s) == s \in Seq({s[i] : i \in DOMAIN s})

LEMMA ListDomain ==
  ASSUME NEW s, IsList(s)
  PROVE  Len(s) \in Nat /\ DOMAIN s = 1 .. Len(s)
BY DEF IsList

LEMMA ListOf ==
  ASSUME NEW S, NEW s \in Seq(S)
  PROVE  IsList(s)
<1>1. s \in [1 .. Len(s) -> S] /\ Len(s) \in Nat
  OBVIOUS
<1>2. s \in [1 .. Len(s) -> {s[i] : i \in DOMAIN s}]
  BY <1>1
<1> QED
  BY <1>1, <1>2 DEF IsList

LEMMA EmptyList == IsList(<<>>) /\ DOMAIN <<>> = {} /\ Len(<<>>) = 0 /\ <<>> \in Seq({})
<1>1. <<>> \in Seq({}) /\ Len(<<>>) = 0
  OBVIOUS
<1>2. IsList(<<>>)
  BY <1>1, ListOf
<1>3. DOMAIN <<>> = 1 .. 0
  BY <1>1, <1>2, ListDomain
<1> QED
  BY <1>1, <1>2, <1>3

LEMMA ListAppend ==
  ASSUME NEW s, IsList(s), NEW x
  PROVE  /\ IsList(Append(s, x)) /\ Len(Append(s, x)) = Len(s) + 1
         /\ DOMAIN Append(s, x) = 1 .. Len(s) + 1
         /\ \A i \in DOMAIN s : Append(s, x)[i] = s[i]
         /\ Append(s, x)[Len(s) + 1] = x
<1> DEFINE S == {s[i] : i \in DOMAIN s} \cup {x}
<1>1. s \in Seq(S) /\ x \in S
  <2>1. s \in [1 .. Len(s) -> {s[i] : i \in DOMAIN s}] /\ Len(s) \in Nat
    BY DEF IsList
  <2>2. s \in [1 .. Len(s) -> S]
    BY <2>1
  <2> QED
    BY <2>1, <2>2
<1> HIDE DEF S
<1> DEFINE t == Append(s, x)
<1>2. t \in Seq(S) /\ Len(t) = Len(s) + 1 /\ t[Len(s) + 1] = x /\ Len(s) \in Nat
  BY <1>1
<1>3. \A i \in 1 .. Len(s) : t[i] = s[i]
  BY <1>1
<1>4. DOMAIN s = 1 .. Len(s) /\ DOMAIN t = 1 .. Len(s) + 1
  BY <1>1, <1>2
<1> HIDE DEF t
<1>5. IsList(t)
  BY <1>2, ListOf
<1> QED
  BY <1>2, <1>3, <1>4, <1>5 DEF t

LEMMA ListExcept ==
  ASSUME NEW s, IsList(s), NEW i \in DOMAIN s, NEW x
  PROVE  /\ IsList([s EXCEPT ![i] = x]) /\ DOMAIN [s EXCEPT ![i] = x] = DOMAIN s
         /\ Len([s EXCEPT ![i] = x]) = Len(s)
<1> DEFINE S == {s[k] : k \in DOMAIN s} \cup {x}
           t == [s EXCEPT ![i] = x]
<1>1. s \in [1 .. Len(s) -> S] /\ Len(s) \in Nat /\ x \in S
  BY DEF IsList
<1> HIDE DEF S
<1>2. t \in [1 .. Len(s) -> S]
  BY <1>1
<1>3. t \in Seq(S) /\ Len(t) = Len(s) /\ DOMAIN t = DOMAIN s
  BY <1>1, <1>2
<1> QED
  BY <1>3, ListOf

\* Where the chaining key of an answer names its pattern and its two fresh keys.
AnswerPlace(pattern) == IF pattern = "IKpsk1" THEN 6 ELSE 5

LEMMA KeyShape ==
  ASSUME NEW pattern, NEW rs, NEW e, NEW static, NEW re, NEW st, NEW key,
         key = AnsweredKey(IdentifiedKey(pattern, rs, e, static), re, e, st)
  PROVE  /\ key[1] = Name(pattern) /\ key[2] = Public(e)
         /\ key[AnswerPlace(pattern)] = Public(re)
<1>1. CASE pattern = "IKpsk1"
  <2>1. \A a, b, c, d, p, x, y, z :
          LET k == Append(Append(Append(Append(Append(Append(Append(<<a>>, b), c), d), p), x), y), z)
          IN  k[1] = a /\ k[2] = b /\ k[6] = x
    OBVIOUS
  <2> QED
    BY <1>1, <2>1 DEF AnsweredKey, IdentifiedKey, OpeningKey, AnswerPlace
<1>2. CASE pattern # "IKpsk1"
  <2>1. \A a, b, c, d, x, y, z :
          LET k == Append(Append(Append(Append(Append(Append(<<a>>, b), c), d), x), y), z)
          IN  k[1] = a /\ k[2] = b /\ k[5] = x
    OBVIOUS
  <2> QED
    BY <1>2, <2>1 DEF AnsweredKey, IdentifiedKey, OpeningKey, AnswerPlace
<1> QED
  BY <1>1, <1>2

LEMMA KeyAppend ==
  ASSUME NEW s, IsList(s), Len(s) >= 2, NEW x
  PROVE  IsList(Append(s, x)) /\ Len(Append(s, x)) >= 2 /\ Append(s, x)[2] = s[2]
<1>1. Len(s) \in Nat /\ 2 \in DOMAIN s
  BY ListDomain
<1> QED
  BY <1>1, ListAppend

LEMMA IdentifiedList ==
  ASSUME NEW pattern, NEW rs, NEW e, NEW static
  PROVE  LET k == IdentifiedKey(pattern, rs, e, static)
         IN  IsList(k) /\ Len(k) >= 2 /\ k[2] = Public(e)
<1>1. IsList(<<Name(pattern)>>) /\ Len(<<Name(pattern)>>) = 1
  <2>1. <<Name(pattern)>> \in Seq({Name(pattern)})
    OBVIOUS
  <2> QED
    BY <2>1, ListOf
<1> DEFINE k1 == <<Name(pattern)>>
           k2 == Append(k1, Public(e))
           k3 == Append(k2, Dh(e, rs))
           k4 == Append(k3, Dh(static, rs))
           k5 == Append(k4, Psk(rs))
<1> HIDE DEF k1
<1>2. IsList(k2) /\ Len(k2) = 2 /\ k2[2] = Public(e)
  BY <1>1, ListAppend, ListDomain DEF k1
<1> HIDE DEF k2
<1>3. IsList(k3) /\ Len(k3) >= 2 /\ k3[2] = Public(e)
  BY <1>2, KeyAppend
<1> HIDE DEF k3
<1>4. IsList(k4) /\ Len(k4) >= 2 /\ k4[2] = Public(e)
  BY <1>3, KeyAppend
<1> HIDE DEF k4
<1>5. IsList(k5) /\ Len(k5) >= 2 /\ k5[2] = Public(e)
  BY <1>4, KeyAppend
<1> HIDE DEF k5
<1>6. IdentifiedKey(pattern, rs, e, static) = IF pattern = "IKpsk1" THEN k5 ELSE k4
  BY DEF IdentifiedKey, OpeningKey, k1, k2, k3, k4, k5
<1> QED
  BY <1>4, <1>5, <1>6

\* What follows keeps what was mixed in before.
LEMMA AnsweredList ==
  ASSUME NEW ck, IsList(ck), Len(ck) >= 2, NEW e, NEW re, NEW static
  PROVE  LET k == AnsweredKey(ck, e, re, static) IN IsList(k) /\ Len(k) >= 2 /\ k[2] = ck[2]
<1> DEFINE k1 == Append(ck, Public(e))
           k2 == Append(k1, Dh(e, re))
           k3 == Append(k2, Dh(e, static))
<1>1. IsList(k1) /\ Len(k1) >= 2 /\ k1[2] = ck[2]
  BY KeyAppend
<1> HIDE DEF k1
<1>2. IsList(k2) /\ Len(k2) >= 2 /\ k2[2] = ck[2]
  BY <1>1, KeyAppend
<1> HIDE DEF k2
<1>3. IsList(k3) /\ Len(k3) >= 2 /\ k3[2] = ck[2]
  BY <1>2, KeyAppend
<1> QED
  BY <1>3 DEF AnsweredKey, k1, k2

-----------------------------------------------------------------------------
(* What every handshake, answer, record and reader was made of.            *)

\* The keys of an answer are the two halves of its body's key, and the transcript
\* that its body closes.
KeysOf(body) ==
  [clientToServer |-> <<"k1", body.key>>, serverToClient |-> <<"k2", body.key>>,
   handshakeHash |-> Append(body.ad, <<"sealed", body.key, body.n, body.text>>)]

\* Handshake i of a phone: what it began with, and the answer it holds keys of.
BegunAs(i) ==
  LET hs == started[i]
  IN  /\ hs = [phone |-> hs.phone, server |-> hs.server, pattern |-> hs.pattern, msg |-> hs.msg,
               sym |-> hs.sym, tries |-> hs.tries, keys |-> hs.keys, ctx |-> hs.ctx]
      /\ hs.msg = Message1(hs.pattern, hs.server, 2 * i, hs.phone, i)
      /\ hs.sym = SymmetricState(hs.sym.h, hs.sym.ck, hs.sym.n)
      /\ IsList(hs.sym.ck) /\ Len(hs.sym.ck) >= 2 /\ hs.sym.ck[2] = Public(2 * i)
      /\ \/ hs.keys = NoKeys /\ hs.ctx = 0
         \/ /\ hs.ctx \in DOMAIN answered
            /\ answered[hs.ctx].keys = hs.keys
            /\ answered[hs.ctx].request = i

\* Answer r of a server: the handshake it is of, and how its keys came about.
AnsweredAs(r) ==
  LET a == answered[r]
  IN  /\ a.request \in DOMAIN started
      /\ started[a.request].phone = a.static
      /\ started[a.request].server = a.server
      /\ started[a.request].pattern = a.pattern
      /\ a.msg.body.text = r
      /\ a.keys = KeysOf(a.msg.body)
      /\ a.msg.body.key = AnsweredKey(IdentifiedKey(a.pattern, a.server, 2 * a.request, a.static),
                                      2 * r + 1, 2 * a.request, a.static)

\* A record carries the key of its context.
FramedAs(f) ==
  /\ f = [ctx |-> f.ctx, direction |-> f.direction, channel |-> f.channel,
          counter |-> f.counter, key |-> f.key, target |-> f.target]
  /\ f.ctx \in Contexts /\ f.direction \in {"c2s", "s2c"} /\ f.counter \in Nat
  /\ f.key = KeyOf(answered[f.ctx].keys, f.direction)

\* The records of one direction of a context are numbered from zero on.
SameWay(ctx, direction) == {f \in frames : f.ctx = ctx /\ f.direction = direction}

FramesInv ==
  /\ IsFiniteSet(frames)
  /\ \A f \in frames : FramedAs(f) /\ f.counter < Cardinality(SameWay(f.ctx, f.direction))
  /\ \A f1, f2 \in frames : f1.ctx = f2.ctx =>
       /\ f1.channel = f2.channel
       /\ (f1.direction = f2.direction /\ f1.counter = f2.counter => f1 = f2)

\* What the ends of a context have unsealed.
ReadersInv ==
  /\ IsList(taken) /\ Len(taken) = Len(answered)
  /\ \A c \in DOMAIN taken :
       /\ taken[c] = [phone |-> taken[c].phone, server |-> taken[c].server]
       /\ IsList(taken[c].phone) /\ IsList(taken[c].server)

HandshakeIInv ==
  /\ IsList(started) /\ IsList(answered)
  /\ \A i \in DOMAIN started : BegunAs(i)
  /\ \A r \in DOMAIN answered : AnsweredAs(r)
  /\ FramesInv /\ ReadersInv /\ RecordsAsSealed

-----------------------------------------------------------------------------
LEMMA ManyAnswers ==
  ASSUME HandshakeIInv, NEW r1 \in DOMAIN answered, NEW r2 \in DOMAIN answered,
         answered[r1].msg.body.key = answered[r2].msg.body.key
  PROVE  r1 = r2
<1> DEFINE k1 == answered[r1].msg.body.key
           k2 == answered[r2].msg.body.key
           p1 == answered[r1].pattern
           p2 == answered[r2].pattern
<1>1. k1[1] = Name(p1) /\ k1[AnswerPlace(p1)] = Public(2 * r1 + 1)
  BY KeyShape DEF HandshakeIInv, AnsweredAs
<1>2. k2[1] = Name(p2) /\ k2[AnswerPlace(p2)] = Public(2 * r2 + 1)
  BY KeyShape DEF HandshakeIInv, AnsweredAs
<1>3. k1 = k2
  OBVIOUS
<1> HIDE DEF k1, k2, p1, p2
<1>4. p1 = p2
  <2>1. Name(p1) = Name(p2)
    BY <1>1, <1>2, <1>3
  <2> QED
    BY <2>1 DEF Name
<1>5. 2 * r1 + 1 = 2 * r2 + 1
  <2>1. Public(2 * r1 + 1) = Public(2 * r2 + 1)
    BY <1>1, <1>2, <1>3, <1>4
  <2> QED
    BY <2>1 DEF Public
<1>6. r1 \in Nat /\ r2 \in Nat
  BY ListDomain DEF HandshakeIInv
<1> QED
  BY <1>5, <1>6

LEMMA KeysDiffer ==
  ASSUME HandshakeIInv, NEW r1 \in DOMAIN answered, NEW r2 \in DOMAIN answered, r1 # r2,
         NEW d1 \in {"c2s", "s2c"}, NEW d2 \in {"c2s", "s2c"}
  PROVE  KeyOf(answered[r1].keys, d1) # KeyOf(answered[r2].keys, d2)
<1> DEFINE k1 == answered[r1].msg.body.key
           k2 == answered[r2].msg.body.key
<1>1. k1 # k2
  BY ManyAnswers
<1>2. /\ answered[r1].keys.clientToServer = <<"k1", k1>> /\ answered[r1].keys.serverToClient = <<"k2", k1>>
      /\ answered[r2].keys.clientToServer = <<"k1", k2>> /\ answered[r2].keys.serverToClient = <<"k2", k2>>
  <2>1. \A body : KeysOf(body).clientToServer = <<"k1", body.key>>
                   /\ KeysOf(body).serverToClient = <<"k2", body.key>>
    BY DEF KeysOf
  <2>2. /\ answered[r1].keys = KeysOf(answered[r1].msg.body)
        /\ answered[r2].keys = KeysOf(answered[r2].msg.body)
    BY DEF HandshakeIInv, AnsweredAs
  <2> QED
    BY <2>1, <2>2
<1> HIDE DEF k1, k2
<1> QED
  BY <1>1, <1>2 DEF KeyOf

LEMMA HandshakeFollows == HandshakeIInv => HandshakeInv
<1> SUFFICES ASSUME HandshakeIInv PROVE HandshakeInv
  OBVIOUS
<1>1. AnswersItsOwn
  BY DEF HandshakeIInv, AnsweredAs, AnswersItsOwn
<1>2. KeysAgree
  <2>1. ASSUME NEW i \in DOMAIN started, started[i].keys # NoKeys
        PROVE  /\ started[i].ctx \in DOMAIN answered
               /\ answered[started[i].ctx].keys = started[i].keys
               /\ answered[started[i].ctx].request = i
    BY <2>1 DEF HandshakeIInv, BegunAs
  <2>2. ASSUME NEW r1 \in DOMAIN answered, NEW r2 \in DOMAIN answered, r1 # r2
        PROVE  {KeyOf(answered[r1].keys, d) : d \in {"c2s", "s2c"}}
                 \cap {KeyOf(answered[r2].keys, d) : d \in {"c2s", "s2c"}} = {}
    BY <2>2, KeysDiffer
  <2> QED
    BY <2>1, <2>2 DEF KeysAgree
<1>3. NoncesOnce
  <2> SUFFICES ASSUME NEW f1 \in frames, NEW f2 \in frames, f1.key = f2.key,
                      f1.direction = f2.direction, f1.counter = f2.counter
               PROVE  f1 = f2
    BY DEF NoncesOnce
  <2>1. f1.ctx \in DOMAIN answered /\ f2.ctx \in DOMAIN answered
    BY DEF HandshakeIInv, FramesInv, FramedAs, Contexts
  <2>2. f1.ctx = f2.ctx
    <3>1. /\ f1.key = KeyOf(answered[f1.ctx].keys, f1.direction) /\ f1.direction \in {"c2s", "s2c"}
          /\ f2.key = KeyOf(answered[f2.ctx].keys, f2.direction) /\ f2.direction \in {"c2s", "s2c"}
      BY DEF HandshakeIInv, FramesInv, FramedAs
    <3> QED
      BY <2>1, <3>1, KeysDiffer
  <2> QED
    BY <2>2 DEF HandshakeIInv, FramesInv
<1> QED
  BY <1>1, <1>2, <1>3 DEF HandshakeInv, HandshakeIInv

LEMMA HandshakeBegins == HandshakeInit => HandshakeIInv
<1> SUFFICES ASSUME HandshakeInit PROVE HandshakeIInv
  OBVIOUS
<1>1. started = <<>> /\ answered = <<>> /\ frames = {} /\ taken = <<>>
  BY DEF HandshakeInit
<1>2. IsList(<<>>) /\ DOMAIN <<>> = {} /\ Len(<<>>) = 0
  BY EmptyList
<1>3. IsFiniteSet({}) /\ Contexts = {}
  BY <1>1, <1>2, FS_EmptySet DEF Contexts
<1> QED
  BY <1>1, <1>2, <1>3 DEF HandshakeIInv, FramesInv, ReadersInv, RecordsAsSealed

-----------------------------------------------------------------------------
(* One step.                                                               *)

LEMMA FramesKept ==
  ASSUME FramesInv, frames' = frames,
         \A c \in DOMAIN answered : c \in DOMAIN answered' /\ answered'[c] = answered[c]
  PROVE  FramesInv'
<1>1. \A c \in Contexts : c \in Contexts' /\ answered'[c] = answered[c]
  BY DEF Contexts
<1>2. \A f \in frames : FramedAs(f)'
  BY <1>1 DEF FramesInv, FramedAs
<1>3. \A c, d : SameWay(c, d)' = SameWay(c, d)
  BY DEF SameWay
<1> QED
  BY <1>2, <1>3 DEF FramesInv

LEMMA WriteKeeps ==
  ASSUME HandshakeIInv, WriteMessage1
  PROVE  HandshakeIInv'
<1> USE DEF HandshakeIInv
<1> SUFFICES ASSUME NEW id, id = Len(started) + 1
             PROVE  HandshakeIInv'
  OBVIOUS
<1>1. PICK phone \in Clients, server \in Servers, pattern \in Patterns :
        LET msg == Message1(pattern, server, 2 * id, phone, id)
        IN  started' = Append(started,
              [phone |-> phone, server |-> server, pattern |-> pattern, msg |-> msg,
               sym |-> msg.sym, tries |-> 0, keys |-> NoKeys, ctx |-> 0])
  BY DEF WriteMessage1
<1>2. UNCHANGED <<answered, frames, taken>>
  BY DEF WriteMessage1
<1> DEFINE msg == Message1(pattern, server, 2 * id, phone, id)
           hs == [phone |-> phone, server |-> server, pattern |-> pattern, msg |-> msg,
                  sym |-> msg.sym, tries |-> 0, keys |-> NoKeys, ctx |-> 0]
<1>3. msg.sym = SymmetricState(msg.sym.h, msg.sym.ck, msg.sym.n)
      /\ IsList(msg.sym.ck) /\ Len(msg.sym.ck) >= 2 /\ msg.sym.ck[2] = Public(2 * id)
  <2>1. PICK h, n : msg.sym = SymmetricState(h, IdentifiedKey(pattern, server, 2 * id, phone), n)
    BY Message1Is
  <2>2. IsList(IdentifiedKey(pattern, server, 2 * id, phone))
        /\ Len(IdentifiedKey(pattern, server, 2 * id, phone)) >= 2
        /\ IdentifiedKey(pattern, server, 2 * id, phone)[2] = Public(2 * id)
    BY IdentifiedList
  <2> HIDE DEF msg
  <2> QED
    BY <2>1, <2>2 DEF SymmetricState
<1>4. /\ IsList(started') /\ DOMAIN started' = 1 .. id
      /\ \A i \in DOMAIN started : i \in DOMAIN started' /\ started'[i] = started[i]
      /\ started'[id] = hs /\ Len(started) \in Nat /\ DOMAIN started = 1 .. Len(started)
  <2>1. started' = Append(started, hs)
    BY <1>1
  <2>2. Len(started) \in Nat /\ DOMAIN started = 1 .. Len(started)
    BY ListDomain
  <2> HIDE DEF hs
  <2>3. /\ IsList(Append(started, hs)) /\ DOMAIN Append(started, hs) = 1 .. Len(started) + 1
        /\ \A i \in DOMAIN started : Append(started, hs)[i] = started[i]
        /\ Append(started, hs)[Len(started) + 1] = hs
    BY ListAppend
  <2> QED
    BY <2>1, <2>2, <2>3
<1>5. BegunAs(id)'
  <2>1. /\ hs = [phone |-> hs.phone, server |-> hs.server, pattern |-> hs.pattern, msg |-> hs.msg,
                 sym |-> hs.sym, tries |-> hs.tries, keys |-> hs.keys, ctx |-> hs.ctx]
        /\ hs.msg = msg /\ hs.pattern = pattern /\ hs.server = server /\ hs.phone = phone
        /\ hs.sym = msg.sym /\ hs.keys = NoKeys /\ hs.ctx = 0
    <3> HIDE DEF msg
    <3> QED
      OBVIOUS
  <2>2. hs.msg = Message1(hs.pattern, hs.server, 2 * id, hs.phone, id)
    <3> HIDE DEF hs
    <3> QED
      BY <2>1
  <2> HIDE DEF hs, msg
  <2> QED
    BY <1>3, <1>4, <2>1, <2>2 DEF BegunAs
<1> HIDE DEF hs, msg
<1>6. \A i \in DOMAIN started : BegunAs(i)'
  BY <1>2, <1>4 DEF BegunAs
<1>7. \A i \in DOMAIN started' : BegunAs(i)'
  <2>1. \A i \in DOMAIN started' : i \in DOMAIN started \/ i = id
    BY <1>4
  <2> QED
    BY <1>5, <1>6, <2>1
<1>8. \A r \in DOMAIN answered' : AnsweredAs(r)'
  BY <1>2, <1>4 DEF AnsweredAs
<1>9. FramesInv'
  BY <1>2, FramesKept
<1>10. ReadersInv' /\ RecordsAsSealed'
  BY <1>2 DEF ReadersInv, RecordsAsSealed, Contexts
<1> QED
  BY <1>2, <1>4, <1>7, <1>8, <1>9, <1>10

LEMMA RespondKeeps ==
  ASSUME HandshakeIInv, Respond
  PROVE  HandshakeIInv'
<1> USE DEF HandshakeIInv
<1> SUFFICES ASSUME NEW id, id = Len(answered) + 1
             PROVE  HandshakeIInv'
  OBVIOUS
<1> DEFINE e == FreshEphemeral(id)
<1>1. PICK i \in DOMAIN started, server \in Servers, pattern \in Patterns :
        LET r == Responder(pattern, server, started[i].msg)
            s == Answering(r.sym, e, r.e, r.static)
            body == Sealed(s, id)
        IN  /\ r.ok
            /\ answered' = Append(answered,
                 [server |-> server, pattern |-> pattern, static |-> r.static,
                  request |-> r.payload, msg |-> [e |-> e, body |-> body],
                  keys |-> Keys(Mixed(s, body))])
            /\ taken' = Append(taken, NothingTaken)
  BY DEF Respond
<1>2. UNCHANGED <<started, frames>>
  BY DEF Respond
<1> DEFINE hs == started[i]
           r == Responder(pattern, server, hs.msg)
           s == Answering(r.sym, e, r.e, r.static)
           body == Sealed(s, id)
           keys == Keys(Mixed(s, body))
           a == [server |-> server, pattern |-> pattern, static |-> r.static,
                 request |-> r.payload, msg |-> [e |-> e, body |-> body], keys |-> keys]
<1>3. /\ pattern = hs.pattern /\ server = hs.server
      /\ r.static = hs.phone /\ r.payload = i /\ r.e = 2 * i
      /\ \E h, n : r.sym = SymmetricState(h, IdentifiedKey(pattern, server, 2 * i, hs.phone), n)
  <2>1. hs.msg = Message1(hs.pattern, hs.server, 2 * i, hs.phone, i)
    BY DEF BegunAs
  <2>2. Responder(pattern, server, hs.msg).ok
    BY <1>1
  <2> HIDE DEF hs
  <2> QED
    BY <2>1, <2>2, ResponderIs
<1> HIDE DEF r
<1>4. PICK h, k : s = SymmetricState(h, k, 0)
                  /\ k = AnsweredKey(IdentifiedKey(pattern, server, 2 * i, hs.phone), e, 2 * i, hs.phone)
  BY <1>3, AnsweringIs
<1>5. body = [ad |-> h, key |-> k, n |-> 0, text |-> id]
  <2>1. s.h = h /\ s.ck = k /\ s.n = 0
    BY <1>4 DEF SymmetricState
  <2> HIDE DEF s
  <2> QED
    BY <2>1 DEF Sealed
<1> HIDE DEF s
<1>6. keys = KeysOf(body)
  <2> HIDE DEF body
  <2>1. body.ad = h /\ body.key = k
    BY <1>5
  <2>3. Mixed(s, body).ck = k /\ Mixed(s, body).h = Append(h, <<"sealed", body.key, body.n, body.text>>)
    BY <1>4, MixedParts
  <2> QED
    BY <2>1, <2>3 DEF Keys, KeysOf
<1>7. body.key = k /\ body.text = id
  BY <1>5
<1> HIDE DEF body, keys
<1>8. /\ IsList(answered') /\ DOMAIN answered' = 1 .. id /\ Len(answered') = id
      /\ \A c \in DOMAIN answered : c \in DOMAIN answered' /\ answered'[c] = answered[c]
      /\ answered'[id] = a /\ Len(answered) \in Nat /\ DOMAIN answered = 1 .. Len(answered)
  <2>1. answered' = Append(answered, a)
    BY <1>1 DEF body, keys, s, r
  <2>2. Len(answered) \in Nat /\ DOMAIN answered = 1 .. Len(answered)
    BY ListDomain
  <2> HIDE DEF a
  <2>3. /\ IsList(Append(answered, a)) /\ DOMAIN Append(answered, a) = 1 .. Len(answered) + 1
        /\ Len(Append(answered, a)) = Len(answered) + 1
        /\ \A c \in DOMAIN answered : Append(answered, a)[c] = answered[c]
        /\ Append(answered, a)[Len(answered) + 1] = a
    BY ListAppend
  <2> QED
    BY <2>1, <2>2, <2>3
<1>9. AnsweredAs(id)'
  <2>1. /\ a.request = i /\ a.static = hs.phone /\ a.server = server /\ a.pattern = pattern
        /\ a.msg.body = body /\ a.keys = keys
    BY <1>3
  <2>2. e = 2 * id + 1
    BY DEF FreshEphemeral
  <2> HIDE DEF a, e
  <2>3. /\ a.msg.body.text = id /\ a.keys = KeysOf(a.msg.body)
        /\ a.msg.body.key = AnsweredKey(IdentifiedKey(a.pattern, a.server, 2 * a.request, a.static),
                                        2 * id + 1, 2 * a.request, a.static)
    BY <1>4, <1>6, <1>7, <2>1, <2>2
  <2>4. /\ a.request \in DOMAIN started
        /\ started[a.request].phone = a.static
        /\ started[a.request].server = a.server
        /\ started[a.request].pattern = a.pattern
    BY <1>3, <2>1
  <2> QED
    BY <1>2, <1>8, <2>3, <2>4 DEF AnsweredAs
<1> HIDE DEF a, e
<1>10. \A c \in DOMAIN answered : AnsweredAs(c)'
  BY <1>2, <1>8 DEF AnsweredAs
<1>11. \A c \in DOMAIN answered' : AnsweredAs(c)'
  <2>1. \A c \in DOMAIN answered' : c \in DOMAIN answered \/ c = id
    BY <1>8
  <2> QED
    BY <1>9, <1>10, <2>1
<1>12. \A j \in DOMAIN started' : BegunAs(j)'
  BY <1>2, <1>8 DEF BegunAs
<1>13. FramesInv'
  BY <1>2, <1>8, FramesKept
<1>14. /\ IsList(taken') /\ Len(taken') = id
       /\ DOMAIN taken = DOMAIN answered /\ DOMAIN taken' = 1 .. id
       /\ \A c \in DOMAIN taken : taken'[c] = taken[c]
       /\ taken'[id] = NothingTaken
  <2>1. taken' = Append(taken, NothingTaken)
    BY <1>1
  <2>2. IsList(taken) /\ Len(taken) = Len(answered)
    BY DEF ReadersInv
  <2> QED
    BY <1>8, <2>1, <2>2, ListDomain, ListAppend
<1>15. /\ NothingTaken = [phone |-> NothingTaken.phone, server |-> NothingTaken.server]
       /\ \A end \in {"phone", "server"} : NothingTaken[end] = <<>>
       /\ IsList(NothingTaken.phone) /\ IsList(NothingTaken.server)
  <2>1. <<>> \in Seq({}) /\ IsList(<<>>)
    BY EmptyList
  <2> QED
    BY <2>1 DEF NothingTaken
<1>16. ReadersInv'
  <2>1. \A c \in DOMAIN taken' : c \in DOMAIN taken \/ c = id
    BY <1>8, <1>14
  <2> QED
    BY <1>8, <1>14, <1>15, <2>1 DEF ReadersInv
<1>17. RecordsAsSealed'
  <2> SUFFICES ASSUME NEW c \in Contexts', NEW end \in {"phone", "server"}
               PROVE  LET got == taken'[c][end]
                          of == {f \in frames' : f.ctx = c /\ f.direction # Direction(end)}
                      IN  /\ \A x \in DOMAIN got :
                               got[x] \in of /\ (got[x].channel = "ws" => got[x].counter = x - 1)
                          /\ \A x, y \in DOMAIN got : got[x].counter = got[y].counter => x = y
    BY DEF RecordsAsSealed
  <2>1. CASE c \in DOMAIN answered
    <3>1. c \in Contexts /\ taken'[c] = taken[c]
      BY <1>8, <1>14, <2>1 DEF Contexts
    <3> QED
      BY <1>2, <3>1 DEF RecordsAsSealed
  <2>2. CASE c = id
    <3>1. taken'[c][end] = <<>> /\ DOMAIN <<>> = {}
      BY <1>14, <1>15, <2>2, EmptyList
    <3> QED
      BY <3>1
  <2>3. c \in DOMAIN answered \/ c = id
    BY <1>8 DEF Contexts
  <2> QED
    BY <2>1, <2>2, <2>3
<1> QED
  BY <1>2, <1>8, <1>11, <1>12, <1>13, <1>16, <1>17

\* A second message opens only in the handshake its answer is of.
LEMMA OpensItsOwn ==
  ASSUME HandshakeIInv, NEW i \in DOMAIN started, NEW r \in DOMAIN answered, NEW re, NEW e, NEW st,
         answered[r].msg.body.key = AnsweredKey(started[i].sym.ck, re, e, st)
  PROVE  answered[r].request = i
<1> DEFINE ck == started[i].sym.ck
           a == answered[r]
           id == IdentifiedKey(a.pattern, a.server, 2 * a.request, a.static)
<1>1. AnsweredAs(r) /\ BegunAs(i)
  BY DEF HandshakeIInv
<1>2. IsList(ck) /\ Len(ck) >= 2 /\ ck[2] = Public(2 * i)
  BY <1>1 DEF BegunAs
<1>3. IsList(id) /\ Len(id) >= 2 /\ id[2] = Public(2 * a.request)
  BY IdentifiedList
<1>4. a.msg.body.key = AnsweredKey(id, 2 * r + 1, 2 * a.request, a.static)
  BY <1>1 DEF AnsweredAs
<1> HIDE DEF ck, id
<1>5. AnsweredKey(ck, re, e, st)[2] = Public(2 * i)
  BY <1>2, AnsweredList
<1>6. AnsweredKey(id, 2 * r + 1, 2 * a.request, a.static)[2] = Public(2 * a.request)
  BY <1>3, AnsweredList
<1>7. 2 * i = 2 * a.request
  <2>1. Public(2 * i) = Public(2 * a.request)
    BY <1>4, <1>5, <1>6 DEF ck
  <2> QED
    BY <2>1 DEF Public
<1>8. i \in Nat /\ a.request \in Nat
  BY <1>1, ListDomain DEF AnsweredAs, HandshakeIInv
<1> HIDE DEF a
<1> QED
  BY <1>7, <1>8 DEF a

LEMMA ReadKeeps ==
  ASSUME HandshakeIInv, ReadMessage2
  PROVE  HandshakeIInv'
<1> USE DEF HandshakeIInv
<1>1. PICK i \in DOMAIN started, r \in DOMAIN answered :
        LET hs == started[i]
            msg == answered[r].msg
            s == Answering(hs.sym, msg.e, hs.msg.e, hs.phone)
        IN  started' = [started EXCEPT
              ![i] = IF OpensWith(s, msg.body)
                     THEN [hs EXCEPT !.keys = Keys(Mixed(s, msg.body)), !.ctx = msg.body.text]
                     ELSE [hs EXCEPT !.sym = s, !.tries = @ + 1]]
  BY DEF ReadMessage2
<1>2. UNCHANGED <<answered, frames, taken>>
  BY DEF ReadMessage2
<1> DEFINE hs == started[i]
           body == answered[r].msg.body
           s == Answering(hs.sym, answered[r].msg.e, hs.msg.e, hs.phone)
           opened == [hs EXCEPT !.keys = Keys(Mixed(s, body)), !.ctx = body.text]
           refused == [hs EXCEPT !.sym = s, !.tries = hs.tries + 1]
           next == IF OpensWith(s, body) THEN opened ELSE refused
<1>3. started' = [started EXCEPT ![i] = next]
  BY <1>1
<1>4. BegunAs(i) /\ AnsweredAs(r)
  OBVIOUS
<1>5. hs = [phone |-> hs.phone, server |-> hs.server, pattern |-> hs.pattern, msg |-> hs.msg,
            sym |-> hs.sym, tries |-> hs.tries, keys |-> hs.keys, ctx |-> hs.ctx]
  BY <1>4 DEF BegunAs
<1>6. PICK h, k : /\ s = SymmetricState(h, k, 0)
                  /\ k = AnsweredKey(hs.sym.ck, answered[r].msg.e, hs.msg.e, hs.phone)
                  /\ IsList(k) /\ Len(k) >= 2 /\ k[2] = Public(2 * i)
  <2>1. /\ hs.sym = SymmetricState(hs.sym.h, hs.sym.ck, hs.sym.n)
        /\ IsList(hs.sym.ck) /\ Len(hs.sym.ck) >= 2 /\ hs.sym.ck[2] = Public(2 * i)
    BY <1>4 DEF BegunAs
  <2> DEFINE ck == hs.sym.ck
             e == answered[r].msg.e
             re == hs.msg.e
             st == hs.phone
             k == AnsweredKey(ck, e, re, st)
             h == Append(hs.sym.h, Public(e))
  <2>2. s = SymmetricState(h, k, 0)
    BY <2>1, AnsweringIs
  <2>3. IsList(ck) /\ Len(ck) >= 2 /\ ck[2] = Public(2 * i)
    BY <2>1
  <2> HIDE DEF ck, e, re, st
  <2>4. IsList(k) /\ Len(k) >= 2 /\ k[2] = Public(2 * i)
    BY <2>3, AnsweredList
  <2> HIDE DEF h, k, s
  <2> QED
    BY <2>2, <2>4 DEF k, ck, e, re, st
<1> HIDE DEF s, hs, body
<1>7. /\ next = [phone |-> next.phone, server |-> next.server, pattern |-> next.pattern,
                 msg |-> next.msg, sym |-> next.sym, tries |-> next.tries, keys |-> next.keys,
                 ctx |-> next.ctx]
      /\ next.phone = hs.phone /\ next.server = hs.server /\ next.pattern = hs.pattern
      /\ next.msg = hs.msg
      /\ OpensWith(s, body) => /\ next.sym = hs.sym /\ next.keys = Keys(Mixed(s, body))
                               /\ next.ctx = body.text
      /\ ~ OpensWith(s, body) => next.sym = s /\ next.keys = hs.keys /\ next.ctx = hs.ctx
  <2>1. CASE OpensWith(s, body)
    <3> DEFINE keys == Keys(Mixed(s, body))
               ctx == body.text
               half == [hs EXCEPT !.keys = keys]
    <3>1. next = [hs EXCEPT !.keys = keys, !.ctx = ctx]
      BY <2>1
    <3> HIDE DEF keys, ctx
    <3>2. [hs EXCEPT !.keys = keys, !.ctx = ctx] = [half EXCEPT !.ctx = ctx]
      BY <1>5
    <3>3. half = [phone |-> hs.phone, server |-> hs.server, pattern |-> hs.pattern, msg |-> hs.msg,
                  sym |-> hs.sym, tries |-> hs.tries, keys |-> keys, ctx |-> hs.ctx]
      BY <1>5
    <3> HIDE DEF half, next
    <3>4. next = [phone |-> hs.phone, server |-> hs.server, pattern |-> hs.pattern, msg |-> hs.msg,
                  sym |-> hs.sym, tries |-> hs.tries, keys |-> keys, ctx |-> ctx]
      BY <3>1, <3>2, <3>3
    <3> QED
      BY <2>1, <3>4 DEF keys, ctx
  <2>2. CASE ~ OpensWith(s, body)
    <3> DEFINE tries == hs.tries + 1
               half == [hs EXCEPT !.sym = s]
    <3>1. next = [hs EXCEPT !.sym = s, !.tries = tries]
      BY <2>2
    <3> HIDE DEF tries
    <3>2. [hs EXCEPT !.sym = s, !.tries = tries] = [half EXCEPT !.tries = tries]
      BY <1>5
    <3>3. half = [phone |-> hs.phone, server |-> hs.server, pattern |-> hs.pattern, msg |-> hs.msg,
                  sym |-> s, tries |-> hs.tries, keys |-> hs.keys, ctx |-> hs.ctx]
      BY <1>5
    <3> HIDE DEF half, next
    <3>4. next = [phone |-> hs.phone, server |-> hs.server, pattern |-> hs.pattern, msg |-> hs.msg,
                  sym |-> s, tries |-> tries, keys |-> hs.keys, ctx |-> hs.ctx]
      BY <3>1, <3>2, <3>3
    <3> QED
      BY <2>2, <3>4
  <2> QED
    BY <2>1, <2>2
<1> HIDE DEF next
<1>8. /\ IsList(started') /\ DOMAIN started' = DOMAIN started /\ started'[i] = next
      /\ \A j \in DOMAIN started : j # i => started'[j] = started[j]
  <2>1. started \in [DOMAIN started -> {started[j] : j \in DOMAIN started}]
    BY DEF IsList
  <2> QED
    BY <1>3, <2>1, ListExcept
<1>9. BegunAs(i)'
  <2>1. next.msg = Message1(next.pattern, next.server, 2 * i, next.phone, i)
    BY <1>4, <1>7 DEF BegunAs, hs
  <2>2. /\ next.sym = SymmetricState(next.sym.h, next.sym.ck, next.sym.n)
        /\ IsList(next.sym.ck) /\ Len(next.sym.ck) >= 2 /\ next.sym.ck[2] = Public(2 * i)
    <3>1. CASE OpensWith(s, body)
      BY <1>4, <1>7, <3>1 DEF BegunAs, hs
    <3>2. CASE ~ OpensWith(s, body)
      <4>1. next.sym.ck = k /\ next.sym = SymmetricState(next.sym.h, next.sym.ck, next.sym.n)
        BY <1>6, <1>7, <3>2 DEF SymmetricState
      <4> QED
        BY <1>6, <4>1
    <3> QED
      BY <3>1, <3>2
  <2>3. \/ next.keys = NoKeys /\ next.ctx = 0
        \/ /\ next.ctx \in DOMAIN answered
           /\ answered[next.ctx].keys = next.keys
           /\ answered[next.ctx].request = i
    <3>1. CASE OpensWith(s, body)
      <4>1. body.ad = h /\ body.key = k
        BY <1>6, <3>1 DEF OpensWith, SymmetricState
      <4>2. Mixed(s, body).ck = k
            /\ Mixed(s, body).h = Append(h, <<"sealed", body.key, body.n, body.text>>)
        BY <1>6, MixedParts
      <4>3. Keys(Mixed(s, body)) = KeysOf(body)
        BY <4>1, <4>2 DEF Keys, KeysOf
      <4>4. answered[r].keys = KeysOf(body) /\ body.text = r
        BY <1>4 DEF AnsweredAs, body
      <4>5. answered[r].request = i
        BY <1>6, <4>1, OpensItsOwn DEF body, hs
      <4> QED
        BY <1>7, <3>1, <4>3, <4>4, <4>5
    <3>2. CASE ~ OpensWith(s, body)
      BY <1>4, <1>7, <3>2 DEF BegunAs, hs
    <3> QED
      BY <3>1, <3>2
  <2> QED
    BY <1>2, <1>7, <1>8, <2>1, <2>2, <2>3 DEF BegunAs
<1>10. \A j \in DOMAIN started' : BegunAs(j)'
  <2>1. \A j \in DOMAIN started : j # i => BegunAs(j)'
    BY <1>2, <1>8 DEF BegunAs
  <2> QED
    BY <1>8, <1>9, <2>1
<1>11. \A c \in DOMAIN answered' : AnsweredAs(c)'
  <2>1. \A j \in DOMAIN started : /\ started'[j].phone = started[j].phone
                                  /\ started'[j].server = started[j].server
                                  /\ started'[j].pattern = started[j].pattern
    BY <1>7, <1>8 DEF hs
  <2> QED
    BY <1>2, <1>8, <2>1 DEF AnsweredAs
<1>12. FramesInv'
  BY <1>2, FramesKept
<1>13. ReadersInv' /\ RecordsAsSealed'
  BY <1>2 DEF ReadersInv, RecordsAsSealed, Contexts
<1> QED
  BY <1>2, <1>8, <1>10, <1>11, <1>12, <1>13

\* Whatever keys an end holds for a context are those of the answer.
LEMMA HeldIsAnswered ==
  ASSUME HandshakeIInv, NEW ctx \in Contexts, NEW end, NEW keys \in Held(end, ctx)
  PROVE  keys = answered[ctx].keys
<1>1. ctx # 0
  <2>1. ctx \in 1 .. Len(answered) /\ Len(answered) \in Nat
    BY ListDomain DEF Contexts, HandshakeIInv
  <2> QED
    BY <2>1
<1>2. CASE end = "server"
  BY <1>2 DEF Held
<1>3. CASE end # "server"
  <2>1. PICK i \in DOMAIN started : started[i].ctx = ctx /\ keys = started[i].keys
    BY <1>3 DEF Held
  <2> QED
    BY <1>1, <2>1 DEF HandshakeIInv, BegunAs
<1> QED
  BY <1>2, <1>3

LEMMA SealKeeps ==
  ASSUME HandshakeIInv, Seal
  PROVE  HandshakeIInv'
<1> USE DEF HandshakeIInv
<1>1. PICK end \in {"phone", "server"}, ctx \in Contexts, channel \in {"ws", "rest"} :
        LET n == Cardinality(Sent(end, ctx, channel))
        IN  /\ \A f \in frames : f.ctx = ctx => f.channel = channel
            /\ \E keys \in Held(end, ctx), target \in ChannelTargets(channel) :
                 frames' = frames \cup {Record(end, ctx, channel, n, keys, target)}
  BY DEF Seal
<1>2. UNCHANGED <<started, answered, taken>>
  BY DEF Seal
<1> SUFFICES ASSUME NEW n, n = Cardinality(Sent(end, ctx, channel)),
                    NEW keys \in Held(end, ctx), NEW target,
                    frames' = frames \cup {Record(end, ctx, channel, n, keys, target)}
             PROVE  HandshakeIInv'
  BY <1>1
<1> DEFINE d == Direction(end)
           new == Record(end, ctx, channel, n, keys, target)
<1>3. keys = answered[ctx].keys
  BY HeldIsAnswered
<1>4. /\ new = [ctx |-> new.ctx, direction |-> new.direction, channel |-> new.channel,
                counter |-> new.counter, key |-> new.key, target |-> new.target]
      /\ new.ctx = ctx /\ new.direction = d /\ new.channel = channel /\ new.counter = n
      /\ new.key = KeyOf(keys, d)
  BY DEF Record
<1>5. frames' = frames \cup {new}
  OBVIOUS
<1> HIDE DEF new
<1>6. Sent(end, ctx, channel) = SameWay(ctx, d)
  BY <1>1 DEF Sent, SameWay
<1>7. d \in {"c2s", "s2c"}
  BY DEF Direction
<1> HIDE DEF d
<1>8. IsFiniteSet(frames) /\ IsFiniteSet(SameWay(ctx, d)) /\ n \in Nat
  <2>1. IsFiniteSet(frames) /\ SameWay(ctx, d) \subseteq frames
    BY DEF FramesInv, SameWay
  <2>2. IsFiniteSet(SameWay(ctx, d))
    BY <2>1, FS_Subset
  <2> QED
    BY <1>6, <2>1, <2>2, FS_CardinalityType
<1>9. \A f \in frames : f.ctx = ctx /\ f.direction = d => f.counter \in Nat /\ f.counter < n
  BY <1>6 DEF FramesInv, FramedAs
<1>10. new \notin SameWay(ctx, d) /\ new \notin frames
  <2>1. new \in frames => new.counter < n /\ new.counter \in Nat
    BY <1>4, <1>9
  <2> QED
    BY <1>4, <1>8, <2>1 DEF SameWay
<1>11. Contexts' = Contexts
  BY <1>2 DEF Contexts
<1>12. \A f \in frames' : FramedAs(f)'
  <2>1. \A f \in frames : FramedAs(f)'
    BY <1>2, <1>11 DEF FramesInv, FramedAs
  <2>2. FramedAs(new)'
    BY <1>2, <1>3, <1>4, <1>7, <1>8, <1>11 DEF FramedAs
  <2> QED
    BY <1>5, <2>1, <2>2
<1>13. \A f \in frames' : f.counter < Cardinality(SameWay(f.ctx, f.direction)')
  <2>1. SameWay(ctx, d)' = SameWay(ctx, d) \cup {new}
    BY <1>4, <1>5 DEF SameWay
  <2>2. Cardinality(SameWay(ctx, d)') = n + 1
    BY <1>6, <1>8, <1>10, <2>1, FS_AddElement
  <2>3. ASSUME NEW f \in frames', f.ctx = ctx, f.direction = d
        PROVE  f.counter < Cardinality(SameWay(f.ctx, f.direction)')
    <3>1. f = new \/ f \in frames
      BY <1>5
    <3>2. f.counter \in Nat /\ f.counter < n + 1
      BY <1>4, <1>8, <1>9, <2>3, <3>1
    <3> QED
      BY <2>2, <2>3, <3>2
  <2>4. ASSUME NEW f \in frames', ~ (f.ctx = ctx /\ f.direction = d)
        PROVE  f.counter < Cardinality(SameWay(f.ctx, f.direction)')
    <3>1. f \in frames
      BY <1>4, <1>5, <2>4
    <3>2. SameWay(f.ctx, f.direction)' = SameWay(f.ctx, f.direction)
      BY <1>4, <1>5, <2>4 DEF SameWay
    <3>3. f.counter < Cardinality(SameWay(f.ctx, f.direction))
      BY <3>1 DEF FramesInv
    <3> QED
      BY <3>2, <3>3
  <2> QED
    BY <2>3, <2>4
<1>14. ASSUME NEW f1 \in frames', NEW f2 \in frames', f1.ctx = f2.ctx
       PROVE  /\ f1.channel = f2.channel
              /\ (f1.direction = f2.direction /\ f1.counter = f2.counter => f1 = f2)
  <2>1. \A f \in frames : f.ctx = ctx =>
           f.channel = channel /\ ~ (f.direction = d /\ f.counter = n)
    BY <1>1, <1>8, <1>9
  <2>2. CASE f1 \in frames /\ f2 \in frames
    BY <1>14, <2>2 DEF FramesInv
  <2>3. CASE f1 = new /\ f2 \in frames
    BY <1>4, <1>14, <2>1, <2>3
  <2>4. CASE f1 \in frames /\ f2 = new
    BY <1>4, <1>14, <2>1, <2>4
  <2> QED
    BY <1>5, <2>2, <2>3, <2>4
<1>15. FramesInv'
  <2>1. IsFiniteSet(frames')
    BY <1>5, <1>8, FS_AddElement
  <2> QED
    BY <1>12, <1>13, <1>14, <2>1 DEF FramesInv
<1>16. RecordsAsSealed'
  <2> SUFFICES ASSUME NEW c \in Contexts', NEW reader \in {"phone", "server"}
               PROVE  LET got == taken'[c][reader]
                          of == {f \in frames' : f.ctx = c /\ f.direction # Direction(reader)}
                      IN  /\ \A x \in DOMAIN got :
                               got[x] \in of /\ (got[x].channel = "ws" => got[x].counter = x - 1)
                          /\ \A x, y \in DOMAIN got : got[x].counter = got[y].counter => x = y
    BY DEF RecordsAsSealed
  <2> DEFINE got == taken[c][reader]
             of == {f \in frames : f.ctx = c /\ f.direction # Direction(reader)}
  <2>1. /\ \A x \in DOMAIN got :
             got[x] \in of /\ (got[x].channel = "ws" => got[x].counter = x - 1)
        /\ \A x, y \in DOMAIN got : got[x].counter = got[y].counter => x = y
    BY <1>11 DEF RecordsAsSealed
  <2> QED
    BY <1>2, <1>5, <2>1
<1>17. ReadersInv'
  BY <1>2 DEF ReadersInv
<1>18. \A j \in DOMAIN started' : BegunAs(j)'
  BY <1>2 DEF BegunAs
<1>19. \A c \in DOMAIN answered' : AnsweredAs(c)'
  BY <1>2 DEF AnsweredAs
<1> QED
  BY <1>2, <1>15, <1>16, <1>17, <1>18, <1>19

LEMMA UnsealKeeps ==
  ASSUME HandshakeIInv, Unseal
  PROVE  HandshakeIInv'
<1> USE DEF HandshakeIInv
<1>1. PICK end \in {"phone", "server"}, ctx \in Contexts, f \in frames :
        \E target \in ChannelTargets(f.channel) :
          /\ OpenFrame(end, ctx, f.channel, f, target)
          /\ InSequence(taken[ctx][end], f)
          /\ taken' = [taken EXCEPT ![ctx][end] = Append(@, [f EXCEPT !.target = target])]
  BY DEF Unseal
<1>2. UNCHANGED <<started, answered, frames>>
  BY DEF Unseal
<1>3. PICK target : /\ OpenFrame(end, ctx, f.channel, f, target)
                    /\ InSequence(taken[ctx][end], f)
                    /\ taken' = [taken EXCEPT ![ctx][end] = Append(@, [f EXCEPT !.target = target])]
  BY <1>1
<1>4. /\ f.ctx = ctx /\ f.direction # Direction(end) /\ f.counter \in Nat
      /\ [f EXCEPT !.target = target] = f
  <2>1. FramedAs(f)
    BY DEF FramesInv
  <2>2. f.ctx = ctx /\ f.direction = Direction(Other(end)) /\ f.target = target
    BY <1>3 DEF OpenFrame
  <2>3. f = [ctx |-> f.ctx, direction |-> f.direction, channel |-> f.channel,
             counter |-> f.counter, key |-> f.key, target |-> f.target] /\ f.counter \in Nat
    BY <2>1 DEF FramedAs
  <2>4. Direction(Other(end)) # Direction(end)
    BY DEF Direction, Other
  <2> QED
    BY <2>2, <2>3, <2>4
<1> DEFINE got == taken[ctx][end]
           more == Append(got, f)
<1>5. /\ IsList(taken) /\ DOMAIN taken = DOMAIN answered
      /\ \A c \in DOMAIN taken :
           /\ taken[c] = [phone |-> taken[c].phone, server |-> taken[c].server]
           /\ IsList(taken[c].phone) /\ IsList(taken[c].server)
  BY ListDomain DEF ReadersInv
<1>6. ctx \in DOMAIN taken
  BY <1>5 DEF Contexts
<1>7. taken' = [taken EXCEPT ![ctx] = [taken[ctx] EXCEPT ![end] = more]]
  BY <1>3, <1>4
<1>8. IsList(got)
  BY <1>5, <1>6
<1>9. /\ IsList(more) /\ DOMAIN more = 1 .. Len(got) + 1 /\ Len(got) \in Nat
      /\ DOMAIN got = 1 .. Len(got)
      /\ \A k \in DOMAIN got : more[k] = got[k]
      /\ more[Len(got) + 1] = f
  BY <1>8, ListAppend, ListDomain
<1> DEFINE pair == [taken[ctx] EXCEPT ![end] = more]
<1>10. /\ pair = [phone |-> pair.phone, server |-> pair.server]
       /\ pair[end] = more
       /\ \A other \in {"phone", "server"} : other # end => pair[other] = taken[ctx][other]
       /\ IsList(pair.phone) /\ IsList(pair.server)
  <2>1. taken[ctx] = [phone |-> taken[ctx].phone, server |-> taken[ctx].server]
        /\ IsList(taken[ctx].phone) /\ IsList(taken[ctx].server)
    BY <1>5, <1>6
  <2> HIDE DEF more
  <2>2. CASE end = "phone"
    <3>1. pair = [phone |-> more, server |-> taken[ctx].server]
      BY <2>1, <2>2
    <3> HIDE DEF pair
    <3> QED
      BY <1>9, <2>1, <2>2, <3>1
  <2>3. CASE end = "server"
    <3>1. pair = [phone |-> taken[ctx].phone, server |-> more]
      BY <2>1, <2>3
    <3> HIDE DEF pair
    <3> QED
      BY <1>9, <2>1, <2>3, <3>1
  <2> QED
    BY <2>2, <2>3
<1> HIDE DEF pair, more
<1>11. /\ IsList(taken') /\ Len(taken') = Len(taken) /\ DOMAIN taken' = DOMAIN taken
       /\ taken'[ctx] = pair /\ \A c \in DOMAIN taken : c # ctx => taken'[c] = taken[c]
  <2>1. taken \in [DOMAIN taken -> {taken[c] : c \in DOMAIN taken}]
    BY <1>5 DEF IsList
  <2> QED
    BY <1>5, <1>6, <1>7, <2>1, ListExcept DEF pair
<1>12. ReadersInv'
  BY <1>2, <1>5, <1>10, <1>11 DEF ReadersInv
<1>13. Contexts' = Contexts
  BY <1>2 DEF Contexts
<1> DEFINE of == {g \in frames : g.ctx = ctx /\ g.direction # Direction(end)}
<1>14. /\ \A k \in DOMAIN got :
            got[k] \in of /\ (got[k].channel = "ws" => got[k].counter = k - 1)
       /\ \A k, l \in DOMAIN got : got[k].counter = got[l].counter => k = l
  BY DEF RecordsAsSealed
<1>15. f \in of /\ (f.channel = "ws" => f.counter = Len(got))
  BY <1>3, <1>4 DEF InSequence
<1>16. \A k \in DOMAIN got : got[k].counter # f.counter
  <2> SUFFICES ASSUME NEW k \in DOMAIN got PROVE got[k].counter # f.counter
    OBVIOUS
  <2>1. got[k].channel = f.channel
    BY <1>4, <1>14 DEF FramesInv
  <2>2. CASE f.channel = "ws"
    <3>1. got[k].counter = k - 1 /\ f.counter = Len(got) /\ k \in 1 .. Len(got) /\ Len(got) \in Nat
      BY <1>9, <1>14, <1>15, <2>1, <2>2
    <3> QED
      BY <3>1
  <2>3. CASE f.channel # "ws"
    BY <1>3, <2>3 DEF InSequence
  <2> QED
    BY <2>2, <2>3
<1>17. /\ \A k \in DOMAIN more :
            more[k] \in of /\ (more[k].channel = "ws" => more[k].counter = k - 1)
       /\ \A k, l \in DOMAIN more : more[k].counter = more[l].counter => k = l
  <2>1. \A k \in DOMAIN more : k \in DOMAIN got \/ k = Len(got) + 1
    BY <1>9
  <2>2. (Len(got) + 1) - 1 = Len(got)
    BY <1>9
  <2> HIDE DEF got, of
  <2>3. \A k \in DOMAIN more :
            more[k] \in of /\ (more[k].channel = "ws" => more[k].counter = k - 1)
    BY <1>9, <1>14, <1>15, <2>1, <2>2
  <2>4. ASSUME NEW k \in DOMAIN more, NEW l \in DOMAIN more, more[k].counter = more[l].counter
        PROVE  k = l
    BY <1>9, <1>14, <1>16, <2>1, <2>4
  <2> QED
    BY <2>3, <2>4
<1>18. RecordsAsSealed'
  <2> SUFFICES ASSUME NEW c \in Contexts', NEW reader \in {"phone", "server"}
               PROVE  LET g == taken'[c][reader]
                          fs == {x \in frames' : x.ctx = c /\ x.direction # Direction(reader)}
                      IN  /\ \A x \in DOMAIN g :
                               g[x] \in fs /\ (g[x].channel = "ws" => g[x].counter = x - 1)
                          /\ \A x, y \in DOMAIN g : g[x].counter = g[y].counter => x = y
    BY DEF RecordsAsSealed
  <2>1. CASE c = ctx /\ reader = end
    <3>1. taken'[c][reader] = more
      BY <1>10, <1>11, <2>1
    <3> HIDE DEF got
    <3> QED
      BY <1>2, <1>17, <2>1, <3>1
  <2>2. CASE ~ (c = ctx /\ reader = end)
    <3>1. taken'[c][reader] = taken[c][reader]
      <4>1. c \in DOMAIN taken
        BY <1>5, <1>13 DEF Contexts
      <4> QED
        BY <1>10, <1>11, <2>2, <4>1
    <3>2. c \in Contexts
      BY <1>13
    <3> DEFINE old == taken[c][reader]
               fs == {x \in frames : x.ctx = c /\ x.direction # Direction(reader)}
    <3>3. /\ \A x \in DOMAIN old :
               old[x] \in fs /\ (old[x].channel = "ws" => old[x].counter = x - 1)
          /\ \A x, y \in DOMAIN old : old[x].counter = old[y].counter => x = y
      BY <3>2 DEF RecordsAsSealed
    <3> QED
      BY <1>2, <3>1, <3>3
  <2> QED
    BY <2>1, <2>2
<1>19. FramesInv'
  BY <1>2, FramesKept
<1>20. \A j \in DOMAIN started' : BegunAs(j)'
  BY <1>2 DEF BegunAs
<1>21. \A c \in DOMAIN answered' : AnsweredAs(c)'
  BY <1>2 DEF AnsweredAs
<1> QED
  BY <1>2, <1>12, <1>18, <1>19, <1>20, <1>21

\* Whoever began it and whatever was retried: an answer is to the handshake begun with
\* its server and route, the two ends of a context share keys no other context has, no
\* counter of a key is sealed twice, and each end has unsealed what the other sealed to
\* it, once and for its own target (noise.ts, record.ts).
THEOREM HandshakeHolds == HandshakeSpec => []HandshakeInv
<1>1. HandshakeInit => HandshakeIInv
  BY HandshakeBegins
<1>2. HandshakeIInv /\ [HandshakeNext]_handshakeVars => HandshakeIInv'
  <2> SUFFICES ASSUME HandshakeIInv, [HandshakeNext]_handshakeVars
               PROVE  HandshakeIInv'
    OBVIOUS
  <2>1. CASE WriteMessage1
    BY <2>1, WriteKeeps
  <2>2. CASE Respond
    BY <2>2, RespondKeeps
  <2>3. CASE ReadMessage2
    BY <2>3, ReadKeeps
  <2>4. CASE Seal
    BY <2>4, SealKeeps
  <2>5. CASE Unseal
    BY <2>5, UnsealKeeps
  <2>6. CASE UNCHANGED handshakeVars
    <3>1. UNCHANGED <<started, answered, frames, taken>>
      BY <2>6 DEF handshakeVars
    <3>2. FramesInv'
      BY <3>1, FramesKept DEF HandshakeIInv
    <3>3. ReadersInv' /\ RecordsAsSealed'
      BY <3>1 DEF HandshakeIInv, ReadersInv, RecordsAsSealed, Contexts
    <3>4. (\A j \in DOMAIN started' : BegunAs(j)') /\ (\A c \in DOMAIN answered' : AnsweredAs(c)')
      BY <3>1 DEF HandshakeIInv, BegunAs, AnsweredAs
    <3> QED
      BY <3>1, <3>2, <3>3, <3>4 DEF HandshakeIInv
  <2> QED
    BY <2>1, <2>2, <2>3, <2>4, <2>5, <2>6 DEF HandshakeNext
<1>3. HandshakeIInv => HandshakeInv
  BY HandshakeFollows
<1> QED
  BY <1>1, <1>2, <1>3, PTL DEF HandshakeSpec

-----------------------------------------------------------------------------
(* PushNotices.                                                            *)

Notifiers == [openTurn : 0..MaxTurns, openPrompt : BOOLEAN, readySeen : BOOLEAN,
              idleHandled : BOOLEAN, pendingDone : 0..MaxTurns]
Endings == {"unseen", "none", "signal", "guess"}
PushSessions == [status : Statuses, failed : BOOLEAN]
PushRows == [state : {"none", "live", "expired"}, stale : {"none", "later", "due"}, renewed : BOOLEAN]
SweepRecords == [left : SUBSET Activities, at : SUBSET Activities,
                 step : {"none", "next", "ending", "starting"}]
ActivityStates == [fate : {"open", "closed", "again"}, ends : Nat]

\* The turn that may still be reported is the last one, and it runs.
OpenTurnRuns == notifier.openTurn # 0 => notifier.openTurn = turn /\ session.status = "running"

LaterUnpushed == \A t \in 1..MaxTurns : t > turn => pushed[t] = 0

PromptHoldsBack == notifier.openPrompt => notifier.pendingDone = 0

TurnsTold ==
  /\ session \in PushSessions /\ ended \in Endings
  /\ turn \in 0..MaxTurns /\ gate \in 0..1
  /\ notifier \in Notifiers /\ pushed \in [1..MaxTurns -> Nat]
  /\ FinishedOnce /\ FinishedStands /\ RunningIsOwed
  /\ OpenTurnRuns /\ LaterUnpushed /\ PromptHoldsBack

\* A send that will count the activity as open belongs to a turn that runs, or ended late.
StartsRun == (\E s \in sends : s.kind = "start") => session.status = "running" \/ late

LiveTold ==
  /\ session \in PushSessions
  /\ open \in BOOLEAN /\ late \in BOOLEAN
  /\ sends \subseteq [kind : {"start", "end"}, to : SUBSET Activities]
  /\ OpenWhileRunning /\ StartsRun

\* What no sweep has claimed was not ended by one.
UnclaimedHasNoEnd ==
  \A a \in Activities : pushRow[a].state # "none" /\ ~pushRow[a].renewed => acts[a].ends = 0

RowsTold ==
  /\ pushRow \in [Activities -> PushRows] /\ acts \in [Activities -> ActivityStates]
  /\ sweep \in SweepRecords
  /\ RenewedOnce /\ UnclaimedHasNoEnd

PushIInv == TurnsTold /\ LiveTold /\ RowsTold

-----------------------------------------------------------------------------
LEMMA PushBegins ==
  ASSUME PushInit
  PROVE  PushIInv
<1>0. MaxTurns \in Nat
  BY PushAssumption DEF PushAssumption
<1>1. TurnsTold
  BY <1>0 DEF PushInit, TurnsTold, PushSessions, Statuses, Notifiers, FreshNotifier, Endings,
              FinishedOnce, FinishedStands, RunningIsOwed, OpenTurnRuns, LaterUnpushed, PromptHoldsBack
<1>2. LiveTold
  BY DEF PushInit, LiveTold, PushSessions, Statuses, OpenWhileRunning, StartsRun
<1>3. RowsTold
  BY DEF PushInit, RowsTold, PushRows, ActivityStates, NoActs, NoSweep, SweepRecords, RenewedOnce, UnclaimedHasNoEnd
<1> QED
  BY <1>1, <1>2, <1>3 DEF PushIInv

-----------------------------------------------------------------------------
(* The notifications.                                                      *)

LEMMA NotifierFields ==
  ASSUME NEW n \in Notifiers
  PROVE  /\ n.openTurn \in 0..MaxTurns /\ n.pendingDone \in 0..MaxTurns
         /\ n.openPrompt \in BOOLEAN /\ n.readySeen \in BOOLEAN /\ n.idleHandled \in BOOLEAN
  BY Zenon DEF Notifiers

LEMMA AfterRunningIs ==
  ASSUME NEW n \in Notifiers, NEW previous, turn' \in 0..MaxTurns, 0 \in 0..MaxTurns
  PROVE  /\ AfterRunning(n, previous) \in Notifiers
         /\ AfterRunning(n, previous).openTurn
              = IF previous = "waiting_input" THEN turn' ELSE n.openTurn
         /\ AfterRunning(n, previous).openPrompt = n.openPrompt
         /\ AfterRunning(n, previous).pendingDone = 0
<1>1. PICK o \in 0..MaxTurns : o = IF previous = "waiting_input" THEN turn' ELSE n.openTurn
  BY NotifierFields
<1>2. AfterRunning(n, previous)
        = [n EXCEPT !.pendingDone = 0, !.idleHandled = FALSE, !.openTurn = o]
  BY <1>1, Zenon DEF AfterRunning, Notifiers
<1>3. PICK r : r = [n EXCEPT !.pendingDone = 0, !.idleHandled = FALSE, !.openTurn = o]
  OBVIOUS
<1>4. r \in Notifiers /\ r.openTurn = o /\ r.openPrompt = n.openPrompt /\ r.pendingDone = 0
  BY <1>3, Zenon DEF Notifiers
<1> QED
  BY <1>1, <1>2, <1>3, <1>4, Zenon

LEMMA AfterWaitingIs ==
  ASSUME NEW n \in Notifiers, NEW source, 0 \in 0..MaxTurns
  PROVE  /\ AfterWaiting(n, source) \in Notifiers
         /\ AfterWaiting(n, source).openTurn = 0
         /\ AfterWaiting(n, source).openPrompt = FALSE
         /\ AfterWaiting(n, source).pendingDone
              = IF n.openTurn # 0 /\ source = "signal" THEN n.openTurn ELSE n.pendingDone
<1>1. PICK p \in 0..MaxTurns :
        p = IF n.openTurn # 0 /\ source = "signal" THEN n.openTurn ELSE n.pendingDone
  BY NotifierFields
<1>2. AfterWaiting(n, source)
        = [n EXCEPT !.openPrompt = FALSE, !.idleHandled = FALSE, !.readySeen = TRUE,
                    !.openTurn = 0, !.pendingDone = p]
  BY <1>1, Zenon DEF AfterWaiting, Notifiers
<1>3. PICK r : r = [n EXCEPT !.openPrompt = FALSE, !.idleHandled = FALSE, !.readySeen = TRUE,
                             !.openTurn = 0, !.pendingDone = p]
  OBVIOUS
<1>4. r \in Notifiers /\ r.openTurn = 0 /\ r.openPrompt = FALSE /\ r.pendingDone = p
  BY <1>3, Zenon DEF Notifiers
<1> QED
  BY <1>1, <1>2, <1>3, <1>4, Zenon

LEMMA AfterIdleIs ==
  ASSUME NEW n \in Notifiers, 0 \in 0..MaxTurns
  PROVE  /\ AfterIdle(n) \in Notifiers /\ AfterIdle(n).openTurn = 0
         /\ AfterIdle(n).openPrompt = FALSE /\ AfterIdle(n).pendingDone = 0
<1>1. PICK r : r = AfterIdle(n)
  OBVIOUS
<1>2. r \in Notifiers /\ r.openTurn = 0 /\ r.openPrompt = FALSE /\ r.pendingDone = 0
  BY <1>1, Zenon DEF AfterIdle, Notifiers
<1> QED
  BY <1>1, <1>2, Zenon

\* What a step must keep of a notifier and of what it tells of, in numbers.
LEMMA StillTold ==
  ASSUME TurnsTold, pushed' = pushed,
         session' \in PushSessions, ended' \in Endings,
         turn' \in 0..MaxTurns, turn' >= turn, gate' \in 0..1, notifier' \in Notifiers,
         notifier'.openTurn # 0 => notifier'.openTurn = turn' /\ session'.status = "running"
                                   /\ (notifier'.openTurn = notifier.openTurn \/ turn' > turn),
         notifier'.pendingDone # 0 =>
           /\ notifier'.pendingDone \in {notifier.pendingDone, notifier.openTurn}
           /\ notifier'.pendingDone = turn' /\ session'.status = "waiting_input"
           /\ ended' = "signal" /\ gate' = 0,
         notifier'.openPrompt => notifier'.pendingDone = 0,
         session'.status = "running" /\ ended' = "none" => notifier'.openTurn = turn'
  PROVE  TurnsTold'
<1>1. MaxTurns \in Nat
  BY PushAssumption DEF PushAssumption
<1>2. LaterUnpushed'
  BY <1>1 DEF TurnsTold, LaterUnpushed
<1>3. FinishedOnce'
  <2> SUFFICES ASSUME NEW t \in 1..MaxTurns
               PROVE  pushed[t] + (IF t \in {notifier'.openTurn, notifier'.pendingDone} THEN 1 ELSE 0) <= 1
    BY DEF FinishedOnce
  <2>1. /\ pushed[t] \in Nat
        /\ pushed[t] + (IF t \in {notifier.openTurn, notifier.pendingDone} THEN 1 ELSE 0) <= 1
    BY DEF TurnsTold, FinishedOnce
  <2>2. CASE t \in {notifier'.openTurn, notifier'.pendingDone}
    <3>1. t # 0
      BY <1>1
    <3>2. t \in {notifier.openTurn, notifier.pendingDone} \/ (t = turn' /\ turn' > turn)
      BY <2>2, <3>1
    <3>3. CASE t \in {notifier.openTurn, notifier.pendingDone}
      BY <2>1, <2>2, <3>3
    <3>4. CASE t > turn
      <4>1. pushed[t] = 0
        BY <3>4 DEF TurnsTold, LaterUnpushed
      <4> QED
        BY <4>1, <2>2
    <3> QED
      BY <3>2, <3>3, <3>4
  <2>3. CASE t \notin {notifier'.openTurn, notifier'.pendingDone}
    BY <2>1, <2>3
  <2> QED
    BY <2>2, <2>3
<1>4. FinishedStands' /\ RunningIsOwed' /\ OpenTurnRuns' /\ PromptHoldsBack'
  BY DEF FinishedStands, RunningIsOwed, OpenTurnRuns, PromptHoldsBack
<1> QED
  BY <1>2, <1>3, <1>4 DEF TurnsTold

LEMMA TurnsTypes ==
  ASSUME TurnsTold
  PROVE  /\ 0 \in 0..MaxTurns /\ MaxTurns \in Nat
         /\ session.status \in Statuses /\ session.failed \in BOOLEAN
         /\ notifier.openTurn \in 0..MaxTurns /\ notifier.pendingDone \in 0..MaxTurns
         /\ notifier.openPrompt \in BOOLEAN
<1>1. MaxTurns \in Nat
  BY PushAssumption DEF PushAssumption
<1>2. session.status \in Statuses /\ session.failed \in BOOLEAN
  BY Zenon DEF TurnsTold, PushSessions
<1> QED
  BY <1>1, <1>2, NotifierFields DEF TurnsTold

LEMMA SessionsAre ==
  ASSUME NEW s \in Statuses, NEW b \in BOOLEAN
  PROVE  /\ [status |-> s, failed |-> b] \in PushSessions
         /\ [status |-> s, failed |-> b].status = s
  BY DEF PushSessions

LEMMA RunningTold ==
  ASSUME TurnsTold, TurnBegins \/ (StatusRepeats /\ session.status = "running")
  PROVE  TurnsTold'
<1>1. PICK previous \in Statuses :
        /\ previous = session.status /\ session' = [status |-> "running", failed |-> FALSE]
        /\ notifier' = AfterRunning(notifier, previous)
  BY TurnsTypes DEF TurnBegins, StatusRepeats, Funnel
<1>2. /\ turn' \in 0..MaxTurns /\ turn' >= turn /\ gate' \in 0..1 /\ pushed' = pushed
      /\ ended' \in Endings
      /\ previous = "waiting_input" => turn' > turn
      /\ previous # "waiting_input" => turn' = turn
  BY <1>1, TurnsTypes DEF TurnBegins, StatusRepeats, Funnel, TurnsTold, Endings
<1>3. session' \in PushSessions /\ session'.status = "running"
  BY <1>1, SessionsAre DEF Statuses
<1>4. /\ notifier' \in Notifiers /\ notifier'.pendingDone = 0
      /\ notifier'.openTurn = IF previous = "waiting_input" THEN turn' ELSE notifier.openTurn
  BY <1>1, <1>2, TurnsTypes, AfterRunningIs DEF TurnsTold
<1>5. notifier'.openTurn # 0 => notifier'.openTurn = turn' /\ session'.status = "running"
                                /\ (notifier'.openTurn = notifier.openTurn \/ turn' > turn)
  BY <1>2, <1>3, <1>4 DEF TurnsTold, OpenTurnRuns
<1>6. session'.status = "running" /\ ended' = "none" => notifier'.openTurn = turn'
  <2>1. CASE previous = "waiting_input"
    BY <1>4, <2>1
  <2>2. CASE previous # "waiting_input"
    <3>1. session.status = "running" /\ ended' = ended
      BY <1>1, <2>2 DEF TurnBegins, StatusRepeats
    <3> QED
      BY <1>2, <1>4, <2>2, <3>1 DEF TurnsTold, RunningIsOwed
  <2> QED
    BY <2>1, <2>2
<1> QED
  BY <1>2, <1>3, <1>4, <1>5, <1>6, StillTold

\* A turn that resumes is taken up anew: what was told of it, or was about to be, is of an
\* end that was none.
LEMMA ResumeTold ==
  ASSUME TurnsTold, TurnResumes
  PROVE  TurnsTold'
<1>1. PICK t \in 1..MaxTurns : t = turn
  BY TurnsTypes DEF TurnResumes, TurnsTold
<1>2. /\ session' = [status |-> "running", failed |-> FALSE]
      /\ notifier' = AfterRunning(notifier, "waiting_input")
      /\ ended' = "none" /\ turn' = t /\ gate' = gate /\ pushed' = [pushed EXCEPT ![t] = 0]
  BY <1>1 DEF TurnResumes, Funnel
<1>3. session' \in PushSessions /\ session'.status = "running"
  BY <1>2, SessionsAre DEF Statuses
<1>4. t \in 0..MaxTurns /\ turn' \in 0..MaxTurns /\ gate' \in 0..1 /\ ended' \in Endings
  BY <1>1, <1>2, TurnsTypes DEF TurnsTold, Endings
<1>5. /\ notifier' \in Notifiers /\ notifier'.pendingDone = 0 /\ notifier'.openTurn = turn'
  BY <1>2, <1>4, TurnsTypes, AfterRunningIs DEF TurnsTold
<1>6. /\ pushed' \in [1..MaxTurns -> Nat] /\ pushed'[t] = 0
      /\ \A u \in 1..MaxTurns : u # t => pushed'[u] = pushed[u]
  BY <1>2 DEF TurnsTold
<1>7. FinishedOnce'
  <2> SUFFICES ASSUME NEW u \in 1..MaxTurns
               PROVE  pushed'[u] + (IF u \in {notifier'.openTurn, notifier'.pendingDone} THEN 1 ELSE 0) <= 1
    BY DEF FinishedOnce
  <2>1. CASE u = t
    BY <1>6, <2>1
  <2>2. CASE u # t
    <3>1. pushed[u] \in Nat /\ pushed[u] + (IF u \in {notifier.openTurn, notifier.pendingDone} THEN 1 ELSE 0) <= 1
      BY DEF TurnsTold, FinishedOnce
    <3>2. u \notin {notifier'.openTurn, notifier'.pendingDone}
      BY <1>2, <1>5, <2>2, TurnsTypes
    <3> QED
      BY <1>6, <2>2, <3>1, <3>2
  <2> QED
    BY <2>1, <2>2
<1>8. LaterUnpushed'
  BY <1>1, <1>2, <1>6 DEF TurnsTold, LaterUnpushed
<1> QED
  BY <1>2, <1>3, <1>4, <1>5, <1>6, <1>7, <1>8
  DEF TurnsTold, FinishedStands, RunningIsOwed, OpenTurnRuns, PromptHoldsBack

LEMMA WaitingTold ==
  ASSUME TurnsTold, StatusWaits \/ (StatusRepeats /\ session.status = "waiting_input")
  PROVE  TurnsTold'
<1>1. PICK source \in Endings :
        /\ session' = [status |-> "waiting_input", failed |-> FALSE]
        /\ ended' = source /\ notifier' = AfterWaiting(notifier, source)
  BY DEF StatusWaits, StatusRepeats, Funnel, TurnsTold, Endings
<1>2. /\ turn' = turn /\ pushed' = pushed /\ gate' \in 0..1
      /\ session.status = "running" => gate' = 0
      /\ session.status # "running" => session.status = "waiting_input" /\ gate' = gate /\ ended' = ended
  BY DEF StatusWaits, StatusRepeats, Funnel, TurnsTold
<1>3. session' \in PushSessions /\ session'.status = "waiting_input"
  BY <1>1, SessionsAre DEF Statuses
<1>4. /\ notifier' \in Notifiers /\ notifier'.openTurn = 0 /\ notifier'.openPrompt = FALSE
      /\ notifier'.pendingDone
           = IF notifier.openTurn # 0 /\ source = "signal" THEN notifier.openTurn ELSE notifier.pendingDone
  BY <1>1, TurnsTypes, AfterWaitingIs DEF TurnsTold
<1>5. notifier'.pendingDone # 0 =>
           /\ notifier'.pendingDone \in {notifier.pendingDone, notifier.openTurn}
           /\ notifier'.pendingDone = turn' /\ session'.status = "waiting_input"
           /\ ended' = "signal" /\ gate' = 0
  <2>1. CASE notifier.openTurn # 0 /\ source = "signal"
    BY <1>1, <1>2, <1>3, <1>4, <2>1 DEF TurnsTold, OpenTurnRuns
  <2>2. CASE ~(notifier.openTurn # 0 /\ source = "signal")
    BY <1>1, <1>2, <1>3, <1>4, <2>2 DEF TurnsTold, FinishedStands
  <2> QED
    BY <2>1, <2>2
<1>6. turn' \in 0..MaxTurns /\ turn' >= turn /\ ended' \in Endings
  BY <1>1, <1>2 DEF TurnsTold
<1> QED
  BY <1>2, <1>3, <1>4, <1>5, <1>6, StillTold

LEMMA ExitTold ==
  ASSUME TurnsTold, SessionExits \/ SessionResumed
  PROVE  TurnsTold'
<1>1. CASE SessionExits
  <2>1. PICK failed \in BOOLEAN :
          session' = [status |-> "idle", failed |-> failed] /\ notifier' = AfterIdle(notifier)
    <3>1. PICK failed \in {FALSE, session.status = "running" /\ ~notifier.readySeen} :
            Funnel("idle", "exit", failed)
      BY <1>1, Zenon DEF SessionExits
    <3>2. failed \in BOOLEAN
      BY <3>1, Zenon
    <3> QED
      BY <3>1, <3>2 DEF Funnel
  <2>2. session' \in PushSessions /\ session'.status = "idle"
    BY <2>1, SessionsAre DEF Statuses
  <2>3. /\ notifier' \in Notifiers /\ notifier'.openTurn = 0 /\ notifier'.openPrompt = FALSE
        /\ notifier'.pendingDone = 0
    BY <2>1, TurnsTypes, AfterIdleIs DEF TurnsTold
  <2>4. /\ turn' = turn /\ pushed' = pushed /\ gate' = 0 /\ ended' \in Endings
        /\ turn' \in 0..MaxTurns /\ turn' >= turn
    BY <1>1 DEF SessionExits, Funnel, TurnsTold
  <2> QED
    BY <2>2, <2>3, <2>4, StillTold
<1>2. CASE SessionResumed
  <2>1. session' \in PushSessions /\ session'.status = "running" /\ session.status = "idle"
    BY <1>2, SessionsAre DEF SessionResumed, Statuses
  <2>2. /\ UNCHANGED <<turn, gate, notifier, pushed>>
        /\ ended' = "unseen" /\ ended' \in Endings
    BY <1>2 DEF SessionResumed, Endings
  <2>3. notifier.openTurn = 0 /\ notifier.pendingDone = 0
    BY <2>1, Zenon DEF TurnsTold, OpenTurnRuns, FinishedStands
  <2> QED
    BY <2>1, <2>2, <2>3
    DEF TurnsTold, FinishedOnce, FinishedStands, RunningIsOwed, OpenTurnRuns, LaterUnpushed, PromptHoldsBack
<1> QED
  BY <1>1, <1>2

LEMMA GateTold ==
  ASSUME TurnsTold, GateOpens \/ GateCloses
  PROVE  TurnsTold'
<1>1. CASE GateOpens
  <2>1. CASE notifier.openPrompt
    <3>1. notifier' = notifier
      BY <1>1, <2>1, Zenon DEF GateOpens, AfterPrompt
    <3>2. notifier.pendingDone = 0
      BY <2>1 DEF TurnsTold, PromptHoldsBack
    <3>3. UNCHANGED <<session, ended, turn, pushed>> /\ gate' = 1
      BY <1>1 DEF GateOpens
    <3> QED
      BY <3>1, <3>2, <3>3
      DEF TurnsTold, FinishedOnce, FinishedStands, RunningIsOwed, OpenTurnRuns, LaterUnpushed, PromptHoldsBack
  <2>2. CASE ~notifier.openPrompt
    <3>1. notifier' = [notifier EXCEPT !.openPrompt = TRUE, !.pendingDone = 0]
      BY <1>1, <2>2, Zenon DEF GateOpens, AfterPrompt
    <3>2. 0 \in 0..MaxTurns /\ notifier \in Notifiers
      BY TurnsTypes DEF TurnsTold
    <3>3. notifier' \in Notifiers /\ notifier'.pendingDone = 0 /\ notifier'.openTurn = notifier.openTurn
      BY <3>1, <3>2, Zenon DEF Notifiers
    <3>4. /\ UNCHANGED <<session, ended, turn, pushed>> /\ gate' = 1
          /\ turn' >= turn /\ turn' \in 0..MaxTurns /\ gate' \in 0..1
          /\ session' \in PushSessions /\ ended' \in Endings
      BY <1>1 DEF GateOpens, TurnsTold
    <3> QED
      BY <3>3, <3>4, StillTold DEF TurnsTold, RunningIsOwed, OpenTurnRuns
  <2> QED
    BY <2>1, <2>2
<1>2. CASE GateCloses
  <2>1. notifier' = [notifier EXCEPT !.openPrompt = FALSE]
    BY <1>2 DEF GateCloses
  <2>2. notifier \in Notifiers
    BY DEF TurnsTold
  <2>3. /\ notifier' \in Notifiers /\ ~notifier'.openPrompt
        /\ notifier'.pendingDone = notifier.pendingDone /\ notifier'.openTurn = notifier.openTurn
    BY <2>1, <2>2, Zenon DEF Notifiers
  <2>4. UNCHANGED <<session, ended, turn, gate, pushed>>
    BY <1>2 DEF GateCloses
  <2> QED
    BY <2>3, <2>4
    DEF TurnsTold, FinishedOnce, FinishedStands, RunningIsOwed, OpenTurnRuns, LaterUnpushed, PromptHoldsBack
<1> QED
  BY <1>1, <1>2

LEMMA DoneTold ==
  ASSUME TurnsTold, DoneSettles
  PROVE  TurnsTold'
<1>1. PICK p \in 1..MaxTurns : p = notifier.pendingDone
  BY TurnsTypes DEF DoneSettles
<1>2. /\ notifier' = [notifier EXCEPT !.pendingDone = 0]
      /\ pushed' = [pushed EXCEPT ![p] = @ + 1]
      /\ UNCHANGED <<session, ended, turn, gate>>
  BY <1>1 DEF DoneSettles
<1>3. notifier \in Notifiers /\ 0 \in 0..MaxTurns
  BY TurnsTypes DEF TurnsTold
<1>4. /\ notifier' \in Notifiers /\ notifier'.pendingDone = 0
      /\ notifier'.openTurn = notifier.openTurn /\ notifier'.openPrompt = notifier.openPrompt
  BY <1>2, <1>3, Zenon DEF Notifiers
<1>5. pushed[p] = 0 /\ p = turn /\ notifier.openTurn # p
  <2>1. pushed[p] \in Nat /\ pushed[p] + (IF p \in {notifier.openTurn, notifier.pendingDone} THEN 1 ELSE 0) <= 1
    BY DEF TurnsTold, FinishedOnce
  <2>2. pushed[p] = 0
    BY <1>1, <2>1
  <2>3. p = turn /\ session.status = "waiting_input"
    BY <1>1 DEF TurnsTold, FinishedStands
  <2>4. notifier.openTurn # p
    BY <2>3 DEF TurnsTold, OpenTurnRuns
  <2> QED
    BY <2>2, <2>3, <2>4
<1>6. /\ pushed' \in [1..MaxTurns -> Nat] /\ pushed'[p] = 1
      /\ \A t \in 1..MaxTurns : t # p => pushed'[t] = pushed[t]
  BY <1>2, <1>5 DEF TurnsTold
<1>7. FinishedOnce'
  <2> SUFFICES ASSUME NEW t \in 1..MaxTurns
               PROVE  pushed'[t] + (IF t \in {notifier'.openTurn, notifier'.pendingDone} THEN 1 ELSE 0) <= 1
    BY DEF FinishedOnce
  <2>1. CASE t = p
    BY <1>4, <1>5, <1>6, <2>1
  <2>2. CASE t # p
    <3>1. pushed[t] \in Nat /\ pushed[t] + (IF t \in {notifier.openTurn, notifier.pendingDone} THEN 1 ELSE 0) <= 1
      BY DEF TurnsTold, FinishedOnce
    <3> QED
      BY <1>4, <1>6, <2>2, <3>1
  <2> QED
    BY <2>1, <2>2
<1>8. LaterUnpushed'
  BY <1>2, <1>5, <1>6 DEF TurnsTold, LaterUnpushed
<1> QED
  BY <1>2, <1>4, <1>6, <1>7, <1>8 DEF TurnsTold, FinishedStands, RunningIsOwed, OpenTurnRuns, PromptHoldsBack

LEMMA RestartTold ==
  ASSUME TurnsTold, PushRestart
  PROVE  TurnsTold'
<1>1. /\ notifier' = FreshNotifier /\ UNCHANGED <<session, turn, gate, pushed>>
      /\ ended' = IF session.status = "running" THEN "unseen" ELSE ended
  BY DEF PushRestart
<1>2. /\ notifier' \in Notifiers /\ notifier'.pendingDone = 0 /\ notifier'.openTurn = 0
      /\ ~notifier'.openPrompt
  BY <1>1, TurnsTypes DEF Notifiers, FreshNotifier
<1>3. turn' >= turn /\ turn' \in 0..MaxTurns
  BY <1>1 DEF TurnsTold
<1>4. /\ session' \in PushSessions /\ ended' \in Endings /\ gate' \in 0..1
  BY <1>1 DEF TurnsTold, Endings
<1> QED
  BY <1>1, <1>2, <1>3, <1>4, StillTold

LEMMA NotifierKept ==
  ASSUME TurnsTold, UNCHANGED <<session, ended, turn, gate, notifier, pushed>>
  PROVE  TurnsTold'
  BY DEF TurnsTold, FinishedOnce, FinishedStands, RunningIsOwed, OpenTurnRuns, LaterUnpushed, PromptHoldsBack

-----------------------------------------------------------------------------
(* The Live Activity.                                                      *)

LEMMA SendIs ==
  ASSUME NEW k \in {"start", "end"}, sends \subseteq [kind : {"start", "end"}, to : SUBSET Activities]
  PROVE  /\ Send(k) \subseteq [kind : {"start", "end"}, to : SUBSET Activities]
         /\ k = "end" => \A s \in Send(k) : s.kind = "start" => s \in sends
  BY DEF Send, Targets

\* Whatever status the funnel brings, the activity is open only while the turn runs.
LEMMA LiveChanged ==
  ASSUME LiveTold, session' \in PushSessions, NEW status \in Statuses,
         session'.status = status, LiveChange(status, session.status),
         status = "running" => session.status # "idle"
  PROVE  LiveTold'
<1>1. session.status \in Statuses /\ (session.status # "idle" \/ status # "running")
  BY DEF LiveTold, PushSessions
<1>2. CASE status = "idle" \/ (status = "waiting_input" /\ session.status = "running")
  <2>1. /\ open' = FALSE /\ sends' = IF open THEN Send("end") ELSE sends
        /\ late' = (\E s \in sends : s.kind = "start")
    BY <1>2 DEF LiveChange
  <2>2. /\ sends' \subseteq [kind : {"start", "end"}, to : SUBSET Activities]
        /\ \A s \in sends' : s.kind = "start" => s \in sends
    BY <2>1, SendIs DEF LiveTold
  <2>3. (\E s \in sends' : s.kind = "start") => late'
    BY <2>1, <2>2
  <2>4. late' \in BOOLEAN /\ open' \in BOOLEAN
    BY <2>1
  <2> QED
    BY <2>1, <2>2, <2>3, <2>4, Zenon DEF LiveTold, OpenWhileRunning, StartsRun
<1>3. CASE status = "running" /\ session.status = "waiting_input"
  <2>1. sends' = Send("start") /\ UNCHANGED <<open, late>>
    BY <1>3 DEF LiveChange
  <2>2. sends' \subseteq [kind : {"start", "end"}, to : SUBSET Activities]
    BY <2>1, SendIs DEF LiveTold
  <2> QED
    BY <1>3, <2>1, <2>2, Zenon DEF LiveTold, OpenWhileRunning, StartsRun
<1>4. CASE /\ ~(status = "idle" \/ (status = "waiting_input" /\ session.status = "running"))
           /\ ~(status = "running" /\ session.status = "waiting_input")
  <2>1. UNCHANGED <<open, sends, late>>
    BY <1>4 DEF LiveChange
  <2>2. session.status \in Statuses
    BY Zenon DEF LiveTold, PushSessions
  <2>3. session.status = "running" => session'.status = "running"
    BY <1>4, <2>2 DEF Statuses
  <2> QED
    BY <2>1, <2>3, Zenon DEF LiveTold, OpenWhileRunning, StartsRun
<1> QED
  BY <1>2, <1>3, <1>4, Zenon

LEMMA StatusLive ==
  ASSUME TurnsTold, LiveTold,
         TurnBegins \/ TurnResumes \/ StatusWaits \/ StatusRepeats \/ SessionExits
  PROVE  LiveTold'
<1>1. session.status \in Statuses
  BY Zenon DEF LiveTold, PushSessions
<1>2. \E status \in Statuses, failed \in BOOLEAN :
        /\ session' = [status |-> status, failed |-> failed] /\ LiveChange(status, session.status)
        /\ status = "running" => session.status # "idle"
  <2>1. CASE TurnBegins
    <3>1. Funnel("running", "user", FALSE) /\ session.status = "waiting_input"
      BY <2>1 DEF TurnBegins
    <3> QED
      BY <3>1 DEF Funnel, Statuses
  <2>2. CASE StatusWaits
    <3>1. Funnel("waiting_input", ended', FALSE)
      BY <2>2 DEF StatusWaits
    <3> QED
      BY <3>1 DEF Funnel, Statuses
  <2>3. CASE StatusRepeats
    <3>1. Funnel(session.status, ended, FALSE) /\ session.status # "idle"
      BY <2>3 DEF StatusRepeats
    <3> QED
      BY <1>1, <3>1 DEF Funnel
  <2>4. CASE SessionExits
    <3>1. PICK failed \in {FALSE, session.status = "running" /\ ~notifier.readySeen} :
            Funnel("idle", "exit", failed)
      BY <2>4, Zenon DEF SessionExits
    <3>2. failed \in BOOLEAN
      BY <3>1, Zenon
    <3>3. session' = [status |-> "idle", failed |-> failed] /\ LiveChange("idle", session.status)
      BY <3>1, Zenon DEF Funnel
    <3>4. "idle" \in Statuses /\ "idle" # "running"
      BY DEF Statuses
    <3> QED
      BY <3>2, <3>3, <3>4, Zenon
  <2>5. CASE TurnResumes
    <3>1. Funnel("running", "signal", FALSE) /\ session.status = "waiting_input"
      BY <2>5 DEF TurnResumes
    <3> QED
      BY <3>1 DEF Funnel, Statuses
  <2> QED
    BY <2>1, <2>2, <2>3, <2>4, <2>5
<1>3. PICK status \in Statuses, failed \in BOOLEAN :
        /\ session' = [status |-> status, failed |-> failed] /\ LiveChange(status, session.status)
        /\ status = "running" => session.status # "idle"
  BY <1>2
<1>4. session' \in PushSessions /\ session'.status = status
  BY <1>3, SessionsAre
<1> QED
  BY <1>3, <1>4, LiveChanged

LEMMA SendLive ==
  ASSUME LiveTold, SendAnswered
  PROVE  LiveTold'
<1>1. PICK s \in sends : sends' = sends \ {s} /\ open' = (open \/ s.kind = "start")
                         /\ UNCHANGED <<session, late>>
  BY DEF SendAnswered
<1>2. open' \in BOOLEAN
  BY <1>1
<1>3. open' => open \/ \E x \in sends : x.kind = "start"
  BY <1>1
<1>4. (\E x \in sends' : x.kind = "start") => \E x \in sends : x.kind = "start"
  BY <1>1
<1> QED
  BY <1>1, <1>2, <1>3, <1>4 DEF LiveTold, OpenWhileRunning, StartsRun

LEMMA OtherLive ==
  ASSUME LiveTold, \/ SessionResumed \/ PushRestart
                   \/ UNCHANGED <<session, open, sends, late>>
  PROVE  LiveTold'
<1>1. CASE SessionResumed
  <2>1. session' \in PushSessions /\ session'.status = "running" /\ UNCHANGED <<open, sends, late>>
    BY <1>1, SessionsAre DEF SessionResumed, Statuses
  <2> QED
    BY <2>1 DEF LiveTold, OpenWhileRunning, StartsRun
<1>2. CASE PushRestart
  BY <1>2 DEF PushRestart, LiveTold, OpenWhileRunning, StartsRun
<1>3. CASE UNCHANGED <<session, open, sends, late>>
  BY <1>3 DEF LiveTold, OpenWhileRunning, StartsRun
<1> QED
  BY <1>1, <1>2, <1>3

-----------------------------------------------------------------------------
(* The rows and the sweep.                                                 *)

\* What a step must keep of an activity: a row that was claimed is not unclaimed but by
\* a registration, and only a claim ends it.
LEMMA RowsStillTold ==
  ASSUME RowsTold, pushRow' \in [Activities -> PushRows], acts' \in [Activities -> ActivityStates],
         sweep' \in SweepRecords,
         \A a \in Activities :
           /\ acts'[a].ends \in {0, acts[a].ends} \/ (acts[a].ends = 0 /\ acts'[a].ends = 1)
           /\ pushRow'[a].state # "none" /\ ~pushRow'[a].renewed =>
                acts'[a].ends = 0 \/ (/\ acts'[a].ends = acts[a].ends
                                      /\ pushRow[a].state # "none" /\ ~pushRow[a].renewed)
  PROVE  RowsTold'
<1>1. RenewedOnce'
  <2> SUFFICES ASSUME NEW a \in Activities
               PROVE  acts'[a].ends <= 1
    BY DEF RenewedOnce
  <2>1. acts[a].ends <= 1
    BY DEF RowsTold, RenewedOnce
  <2>2. acts'[a].ends \in {0, acts[a].ends} \/ acts'[a].ends = 1
    OBVIOUS
  <2> QED
    BY <2>1, <2>2
<1>2. UnclaimedHasNoEnd'
  BY DEF RowsTold, UnclaimedHasNoEnd
<1> QED
  BY <1>1, <1>2 DEF RowsTold

LEMMA RetiredIs ==
  ASSUME NEW rows \in [Activities -> PushRows], NEW dead
  PROVE  /\ Retired(rows, dead) \in [Activities -> PushRows]
         /\ \A a \in Activities : /\ Retired(rows, dead)[a].renewed = rows[a].renewed
                                  /\ Retired(rows, dead)[a].state = "none" <=> rows[a].state = "none"
<1>1. ASSUME NEW r \in PushRows
      PROVE  /\ [r EXCEPT !.state = "expired"] \in PushRows
             /\ [r EXCEPT !.state = "expired"].renewed = r.renewed
             /\ [r EXCEPT !.state = "expired"].state = "expired"
  BY <1>1, Zenon DEF PushRows
<1>2. \A a \in Activities : Retired(rows, dead)[a] = IF a \in dead /\ rows[a].state # "none"
                        THEN [rows[a] EXCEPT !.state = "expired"] ELSE rows[a]
  BY DEF Retired
<1>3. \A a \in Activities : Retired(rows, dead)[a] \in PushRows
  BY <1>1, <1>2
<1>4. Retired(rows, dead) \in [Activities -> PushRows]
  BY <1>3 DEF Retired
<1>5. ASSUME NEW a \in Activities
      PROVE  /\ Retired(rows, dead)[a].renewed = rows[a].renewed
             /\ Retired(rows, dead)[a].state = "none" <=> rows[a].state = "none"
  <2>1. CASE a \in dead /\ rows[a].state # "none"
    BY <1>1, <1>2, <2>1
  <2>2. CASE ~(a \in dead /\ rows[a].state # "none")
    <3>1. Retired(rows, dead)[a] = rows[a]
      BY <1>2, <2>2
    <3> QED
      BY <3>1
  <2> QED
    BY <2>1, <2>2
<1> QED
  BY <1>4, <1>5

LEMMA ActsFields ==
  ASSUME NEW x \in ActivityStates
  PROVE  /\ x.ends \in Nat
         /\ [x EXCEPT !.fate = "closed"] \in ActivityStates /\ [x EXCEPT !.fate = "closed"].ends = x.ends
         /\ [x EXCEPT !.fate = "again"] \in ActivityStates /\ [x EXCEPT !.fate = "again"].ends = x.ends
  BY Zenon DEF ActivityStates

LEMMA SendRows ==
  ASSUME RowsTold, SendAnswered
  PROVE  RowsTold'
<1>1. PICK s \in sends : \E dead \in SUBSET s.to :
        /\ pushRow' = Retired(pushRow, IF s.kind = "end" THEN dead \cup Targets ELSE dead)
        /\ acts' = [a \in Activities |->
                  IF s.kind = "end" /\ a \in s.to \cap Targets
                  THEN [acts[a] EXCEPT !.fate = "closed"] ELSE acts[a]]
        /\ UNCHANGED sweep
  BY Zenon DEF SendAnswered
<1>2. PICK gone : pushRow' = Retired(pushRow, gone)
  BY <1>1
<1>3. /\ pushRow' \in [Activities -> PushRows]
      /\ \A a \in Activities : /\ pushRow'[a].renewed = pushRow[a].renewed
                               /\ pushRow'[a].state = "none" <=> pushRow[a].state = "none"
  BY <1>2, RetiredIs DEF RowsTold
<1>4. \A a \in Activities : acts'[a] \in ActivityStates /\ acts'[a].ends = acts[a].ends
  <2> SUFFICES ASSUME NEW a \in Activities
               PROVE  acts'[a] \in ActivityStates /\ acts'[a].ends = acts[a].ends
    OBVIOUS
  <2>1. acts[a] \in ActivityStates
    BY DEF RowsTold
  <2>2. acts'[a] = acts[a] \/ acts'[a] = [acts[a] EXCEPT !.fate = "closed"]
    BY <1>1
  <2> QED
    BY <2>1, <2>2, ActsFields
<1>5. acts' \in [Activities -> ActivityStates]
  BY <1>1, <1>4
<1> QED
  BY <1>1, <1>3, <1>4, <1>5, RowsStillTold DEF RowsTold

LEMMA RegistrationRows ==
  ASSUME RowsTold, NEW a \in Activities, RegisterActivity(a) \/ DropActivity(a) \/ CapNears(a)
  PROVE  RowsTold'
<1>1. CASE RegisterActivity(a)
  <2> DEFINE new == [state |-> "live", stale |-> "later", renewed |-> FALSE]
  <2>1. pushRow' = [pushRow EXCEPT ![a] = new] /\ acts' = [acts EXCEPT ![a] = NoActs] /\ UNCHANGED sweep
    BY <1>1 DEF RegisterActivity
  <2>2. new \in PushRows /\ NoActs \in ActivityStates /\ NoActs.ends = 0
    BY DEF PushRows, ActivityStates, NoActs
  <2>3. pushRow' \in [Activities -> PushRows] /\ acts' \in [Activities -> ActivityStates]
    BY <2>1, <2>2 DEF RowsTold
  <2>4. /\ acts'[a].ends = 0
        /\ \A b \in Activities \ {a} : pushRow'[b] = pushRow[b] /\ acts'[b] = acts[b]
    BY <2>1, <2>2 DEF RowsTold
  <2> QED
    BY <2>1, <2>3, <2>4, RowsStillTold DEF RowsTold
<1>2. CASE DropActivity(a)
  <2> DEFINE new == [state |-> "none", stale |-> "none", renewed |-> FALSE]
  <2>1. pushRow' = [pushRow EXCEPT ![a] = new] /\ UNCHANGED <<acts, sweep>>
    BY <1>2 DEF DropActivity
  <2>2. new \in PushRows
    BY DEF PushRows
  <2>3. pushRow' \in [Activities -> PushRows]
    BY <2>1, <2>2 DEF RowsTold
  <2>4. /\ pushRow'[a].state = "none"
        /\ \A b \in Activities \ {a} : pushRow'[b] = pushRow[b]
    BY <2>1 DEF RowsTold
  <2> QED
    BY <2>1, <2>3, <2>4, RowsStillTold DEF RowsTold
<1>3. CASE CapNears(a)
  <2>1. pushRow' = [pushRow EXCEPT ![a].stale = "due"] /\ UNCHANGED <<acts, sweep>>
    BY <1>3 DEF CapNears
  <2>2. PICK r : r = [pushRow[a] EXCEPT !.stale = "due"]
    OBVIOUS
  <2>3. pushRow[a] \in PushRows
    BY DEF RowsTold
  <2>4. r \in PushRows /\ r.state = pushRow[a].state /\ r.renewed = pushRow[a].renewed
    BY <2>2, <2>3, Zenon DEF PushRows
  <2>5. pushRow' = [pushRow EXCEPT ![a] = r]
    BY <2>1, <2>2
  <2>6. /\ pushRow' \in [Activities -> PushRows] /\ pushRow'[a] = r
        /\ \A b \in Activities \ {a} : pushRow'[b] = pushRow[b]
    BY <2>4, <2>5 DEF RowsTold
  <2>7. \A b \in Activities : pushRow'[b].state = pushRow[b].state /\ pushRow'[b].renewed = pushRow[b].renewed
    BY <2>4, <2>6
  <2> QED
    BY <2>1, <2>6, <2>7, RowsStillTold DEF RowsTold
<1> QED
  BY <1>1, <1>2, <1>3

LEMMA ClaimedIs ==
  ASSUME RowsTold, NEW a \in Activities
  PROVE  /\ Claimed(a) \in [Activities -> PushRows]
         /\ pushRow[a].state # "none" => Claimed(a)[a].renewed
         /\ Claimed(a)[a].state = pushRow[a].state
         /\ \A b \in Activities \ {a} : Claimed(a)[b] = pushRow[b]
<1>1. CASE pushRow[a].state = "none"
  BY <1>1, Zenon DEF Claimed, RowsTold
<1>2. CASE pushRow[a].state # "none"
  <2>1. Claimed(a) = [pushRow EXCEPT ![a].renewed = TRUE]
    BY <1>2, Zenon DEF Claimed
  <2>2. PICK r : r = [pushRow[a] EXCEPT !.renewed = TRUE]
    OBVIOUS
  <2>3. pushRow[a] \in PushRows
    BY DEF RowsTold
  <2>4. r \in PushRows /\ r.state = pushRow[a].state /\ r.renewed
    BY <2>2, <2>3, Zenon DEF PushRows
  <2>5. Claimed(a) = [pushRow EXCEPT ![a] = r]
    BY <2>1, <2>2
  <2> QED
    BY <2>4, <2>5, Zenon DEF RowsTold
<1> QED
  BY <1>1, <1>2

LEMMA SweepRows ==
  ASSUME RowsTold, NEW a \in Activities, SweepRow(a)
  PROVE  RowsTold'
<1>1. CASE ~LiveStatus(session.status) \/ ~ClaimsRow(a)
  <2>1. /\ pushRow' = IF LiveStatus(session.status) THEN pushRow ELSE Retired(Claimed(a), {a})
        /\ sweep' = IF sweep.left = {a} THEN NoSweep ELSE [sweep EXCEPT !.left = @ \ {a}]
        /\ UNCHANGED acts /\ sweep.step = "next"
    BY <1>1, Zenon DEF SweepRow
  <2>2. sweep' \in SweepRecords
    <3>1. CASE sweep.left = {a}
      BY <2>1, <3>1 DEF NoSweep, SweepRecords
    <3>2. CASE sweep.left # {a}
      BY <2>1, <3>2 DEF RowsTold, SweepRecords
    <3> QED
      BY <3>1, <3>2
  <2>3. CASE LiveStatus(session.status)
    <3>1. pushRow' = pushRow
      BY <2>1, <2>3
    <3> QED
      BY <2>1, <2>2, <3>1 DEF RowsTold, RenewedOnce, UnclaimedHasNoEnd
  <2>4. CASE ~LiveStatus(session.status)
    <3>1. pushRow' = Retired(Claimed(a), {a})
      BY <2>1, <2>4, Zenon
    <3>2. PICK rows \in [Activities -> PushRows] :
            /\ rows = Claimed(a)
            /\ pushRow[a].state # "none" => rows[a].renewed
            /\ rows[a].state = pushRow[a].state
            /\ \A b \in Activities \ {a} : rows[b] = pushRow[b]
      BY ClaimedIs
    <3>3. /\ pushRow' \in [Activities -> PushRows]
          /\ \A b \in Activities : /\ pushRow'[b].renewed = rows[b].renewed
                                   /\ pushRow'[b].state = "none" <=> rows[b].state = "none"
      BY <3>1, <3>2, RetiredIs
    <3>4. \A b \in Activities : pushRow'[b].state # "none" /\ ~pushRow'[b].renewed =>
                                  pushRow[b].state # "none" /\ ~pushRow[b].renewed
      BY <3>2, <3>3
    <3> QED
      BY <2>1, <2>2, <3>3, <3>4, RowsStillTold DEF RowsTold
  <2> QED
    BY <2>3, <2>4
<1>2. CASE LiveStatus(session.status) /\ ClaimsRow(a)
  <2>1. /\ pushRow' = Claimed(a)
        /\ acts' = [acts EXCEPT ![a].ends = @ + 1]
        /\ sweep' = [left |-> sweep.left \ {a}, at |-> {a}, step |-> "ending"]
        /\ pushRow[a].state # "none" /\ ~pushRow[a].renewed
    BY <1>2, Zenon DEF SweepRow, ClaimsRow
  <2>2. acts[a] \in ActivityStates /\ acts[a].ends = 0
    BY <2>1 DEF RowsTold, UnclaimedHasNoEnd
  <2>3. PICK x : x = [acts[a] EXCEPT !.ends = 1]
    OBVIOUS
  <2>4. x \in ActivityStates /\ x.ends = 1
    BY <2>2, <2>3 DEF ActivityStates
  <2>5. acts' = [acts EXCEPT ![a] = x]
    <3>1. acts[a].ends + 1 = 1
      BY <2>2
    <3> QED
      BY <2>1, <2>3, <3>1, Zenon
  <2>6. /\ acts' \in [Activities -> ActivityStates] /\ acts'[a].ends = 1
        /\ \A b \in Activities \ {a} : acts'[b] = acts[b]
    BY <2>4, <2>5 DEF RowsTold
  <2>7. /\ pushRow' \in [Activities -> PushRows] /\ pushRow'[a].renewed
        /\ \A b \in Activities \ {a} : pushRow'[b] = pushRow[b]
    BY <2>1, ClaimedIs
  <2>8. sweep' \in SweepRecords
    BY <2>1 DEF RowsTold, SweepRecords
  <2> QED
    BY <2>2, <2>6, <2>7, <2>8, RowsStillTold DEF RowsTold
<1> QED
  BY <1>1, <1>2

LEMMA ReplaceRows ==
  ASSUME RowsTold, SweepReplaces
  PROVE  RowsTold'
<1>1. PICK starts \in BOOLEAN :
       /\ acts' = [a \in Activities |->
                     IF a \in sweep.at /\ starts /\ acts[a].fate = "closed"
                     THEN [acts[a] EXCEPT !.fate = "again"] ELSE acts[a]]
       /\ sweep' = IF starts THEN [sweep EXCEPT !.step = "starting"]
                   ELSE IF sweep.left = {} THEN NoSweep
                   ELSE [sweep EXCEPT !.at = {}, !.step = "next"]
  <2>1. PICK s \in BOOLEAN : LET starts == s /\ LiveStatus(session.status) IN
       /\ acts' = [a \in Activities |->
                     IF a \in sweep.at /\ starts /\ acts[a].fate = "closed"
                     THEN [acts[a] EXCEPT !.fate = "again"] ELSE acts[a]]
       /\ sweep' = IF starts THEN [sweep EXCEPT !.step = "starting"]
                   ELSE IF sweep.left = {} THEN NoSweep
                   ELSE [sweep EXCEPT !.at = {}, !.step = "next"]
    BY Zenon DEF SweepReplaces
  <2>2. PICK starts \in BOOLEAN : starts = (s /\ LiveStatus(session.status))
    BY Zenon
  <2> QED
    BY <2>1, <2>2, Zenon
<1>2. pushRow' = Retired(pushRow, sweep.at)
  BY DEF SweepReplaces
<1>3. /\ pushRow' \in [Activities -> PushRows]
      /\ \A a \in Activities : /\ pushRow'[a].renewed = pushRow[a].renewed
                               /\ pushRow'[a].state = "none" <=> pushRow[a].state = "none"
  BY <1>2, RetiredIs DEF RowsTold
<1>4. \A a \in Activities : acts'[a] \in ActivityStates /\ acts'[a].ends = acts[a].ends
  <2> SUFFICES ASSUME NEW a \in Activities
               PROVE  acts'[a] \in ActivityStates /\ acts'[a].ends = acts[a].ends
    OBVIOUS
  <2>1. acts[a] \in ActivityStates
    BY DEF RowsTold
  <2>2. acts'[a] = acts[a] \/ acts'[a] = [acts[a] EXCEPT !.fate = "again"]
    BY <1>1
  <2> QED
    BY <2>1, <2>2, ActsFields
<1>5. acts' \in [Activities -> ActivityStates]
  BY <1>1, <1>4
<1>6. sweep' \in SweepRecords
  <2>1. CASE starts
    BY <1>1, <2>1 DEF RowsTold, SweepRecords
  <2>2. CASE ~starts /\ sweep.left = {}
    BY <1>1, <2>2 DEF NoSweep, SweepRecords
  <2>3. CASE ~starts /\ sweep.left # {}
    BY <1>1, <2>3 DEF RowsTold, SweepRecords
  <2> QED
    BY <2>1, <2>2, <2>3
<1> QED
  BY <1>3, <1>4, <1>5, <1>6, RowsStillTold DEF RowsTold

LEMMA SweepMoves ==
  ASSUME RowsTold, \/ SweepBegins \/ SweepMovesOn \/ PushRestart
                   \/ UNCHANGED <<pushRow, acts, sweep>>
  PROVE  RowsTold'
<1>1. UNCHANGED <<pushRow, acts>>
  BY DEF SweepBegins, SweepMovesOn, PushRestart
<1>2. sweep' \in SweepRecords
  <2>1. CASE SweepBegins
    BY <2>1 DEF SweepBegins, Renewable, SweepRecords
  <2>2. CASE SweepMovesOn
    BY <2>2 DEF SweepMovesOn, SweepOn, NoSweep, RowsTold, SweepRecords
  <2>3. CASE PushRestart
    BY <2>3 DEF PushRestart, NoSweep, SweepRecords
  <2>4. CASE UNCHANGED <<pushRow, acts, sweep>>
    BY <2>4 DEF RowsTold
  <2> QED
    BY <2>1, <2>2, <2>3, <2>4
<1> QED
  BY <1>1, <1>2 DEF RowsTold, RenewedOnce, UnclaimedHasNoEnd

-----------------------------------------------------------------------------
LEMMA PushStep ==
  ASSUME PushIInv, [PushNext]_pushVars
  PROVE  PushIInv'
<1> USE DEF PushIInv
<1>1. TurnsTold'
  <2>1. CASE \/ TurnBegins \/ TurnResumes \/ StatusWaits \/ StatusRepeats \/ SessionExits \/ SessionResumed
             \/ GateOpens \/ GateCloses \/ DoneSettles \/ PushRestart
    <3>1. StatusRepeats => session.status \in {"running", "waiting_input"}
      BY TurnsTypes DEF StatusRepeats, Statuses
    <3> QED
      BY <2>1, <3>1, RunningTold, ResumeTold, WaitingTold, ExitTold, GateTold, DoneTold, RestartTold
  <2>2. CASE \/ SendAnswered \/ UNCHANGED pushVars
             \/ \E a \in Activities : RegisterActivity(a) \/ DropActivity(a) \/ CapNears(a)
                                      \/ SweepRow(a)
             \/ SweepBegins \/ SweepReplaces \/ SweepMovesOn
    <3>1. UNCHANGED <<session, ended, turn, gate, notifier, pushed>>
      BY <2>2 DEF pushVars, SendAnswered, RegisterActivity, DropActivity, CapNears, SweepRow,
                  SweepBegins, SweepReplaces, SweepMovesOn
    <3> QED
      BY <3>1, NotifierKept
  <2> QED
    BY <2>1, <2>2, Zenon DEF PushNext
<1>2. LiveTold'
  <2>1. CASE \/ TurnBegins \/ TurnResumes \/ StatusWaits \/ StatusRepeats \/ SessionExits \/ SessionResumed
             \/ PushRestart \/ SendAnswered
    BY <2>1, StatusLive, SendLive, OtherLive
  <2>2. CASE \/ GateOpens \/ GateCloses \/ DoneSettles \/ UNCHANGED pushVars
             \/ \E a \in Activities : RegisterActivity(a) \/ DropActivity(a) \/ CapNears(a)
                                      \/ SweepRow(a)
             \/ SweepBegins \/ SweepReplaces \/ SweepMovesOn
    <3>1. UNCHANGED <<session, open, sends, late>>
      BY <2>2 DEF pushVars, GateOpens, GateCloses, DoneSettles, RegisterActivity, DropActivity,
                  CapNears, SweepRow, SweepBegins, SweepReplaces, SweepMovesOn
    <3> QED
      BY <3>1, OtherLive
  <2> QED
    BY <2>1, <2>2, Zenon DEF PushNext
<1>3. RowsTold'
  <2>1. CASE \/ TurnBegins \/ TurnResumes \/ StatusWaits \/ StatusRepeats \/ SessionExits \/ SessionResumed
             \/ GateOpens \/ GateCloses \/ DoneSettles \/ UNCHANGED pushVars
    <3>1. UNCHANGED <<pushRow, acts, sweep>>
      BY <2>1 DEF pushVars, TurnBegins, TurnResumes, StatusWaits, StatusRepeats, SessionExits, Funnel,
                  SessionResumed, GateOpens, GateCloses, DoneSettles
    <3> QED
      BY <3>1, SweepMoves
  <2>2. CASE \/ SendAnswered \/ PushRestart
             \/ \E a \in Activities : RegisterActivity(a) \/ DropActivity(a) \/ CapNears(a)
                                      \/ SweepRow(a)
             \/ SweepBegins \/ SweepReplaces \/ SweepMovesOn
    BY <2>2, SendRows, RegistrationRows, SweepRows, ReplaceRows, SweepMoves
  <2> QED
    BY <2>1, <2>2, Zenon DEF PushNext
<1> QED
  BY <1>1, <1>2, <1>3

LEMMA PushImplies ==
  ASSUME PushIInv
  PROVE  PushInv
<1>1. PushTypeOK
  BY DEF PushIInv, TurnsTold, LiveTold, RowsTold, PushTypeOK, PushSessions, Endings, Notifiers, PushRows,
         SweepRecords
<1> QED
  BY <1>1 DEF PushIInv, TurnsTold, LiveTold, RowsTold, PushInv

-----------------------------------------------------------------------------
(* PushDelivery: the sends.                                                *)

TokenRows == [on : BOOLEAN, device : PushDevices \cup {NoOwner}, prefs : {Unset, "on", "muted"},
              streak : Nat, revoked : BOOLEAN]
PushCalls == [by : PushDevices \cup {Owner}, op : {"register", "prefs", "unregister", "test"},
          token : PushTokens]
DeliveryRecords == [all : Seq(PushTokens), done : Seq(PushTokens), batch : Seq(PushTokens),
          left : Seq(PushTokens), dead : SUBSET PushTokens]

DeliveryTypes ==
  /\ tokenRow \in [PushTokens -> TokenRows] /\ counted \in [PushTokens -> Nat]
  /\ calls \subseteq PushCalls /\ erased \subseteq PushDevices /\ living \subseteq PushTokens
  /\ delivery \in [Deliveries -> DeliveryRecords]

\* A token of a batch under way that the relay will call dead has no app by now, or was
\* registered since.
DeadAreGone ==
  \A s \in Deliveries : \A i \in DOMAIN delivery[s].batch :
    delivery[s].batch[i] \in delivery[s].dead =>
      delivery[s].batch[i] \notin living \/ delivery[s].batch[i] \in overtaken

DeliveryIInv ==
  /\ DeliveryTypes /\ AllAreServed /\ StreaksAreOwn /\ RetiredIsGone /\ ErasedKeepsNothing
  /\ DeadAreGone

-----------------------------------------------------------------------------
LEMMA NoDeliveryIs ==
  /\ NoDelivery \in DeliveryRecords
  /\ NoDelivery.all = NoDelivery.done \o NoDelivery.batch \o NoDelivery.left
  /\ NoDelivery.batch = <<>>
<1>1. <<>> \in Seq(PushTokens)
  OBVIOUS
<1>2. <<>> \o <<>> \o <<>> = <<>>
  BY <1>1, ConcatEmptySeq
<1> QED
  BY <1>1, <1>2 DEF NoDelivery, DeliveryRecords

LEMMA DeliveryBegins ==
  ASSUME DeliveryInit
  PROVE  DeliveryIInv
<1>1. DeliveryTypes
  BY NoDeliveryIs DEF DeliveryInit, DeliveryTypes, TokenRows, Unregistered
<1>2. AllAreServed /\ DeadAreGone
  BY NoDeliveryIs DEF DeliveryInit, AllAreServed, DeadAreGone
<1>3. StreaksAreOwn /\ RetiredIsGone /\ ErasedKeepsNothing
  BY DEF DeliveryInit, StreaksAreOwn, RetiredIsGone, ErasedKeepsNothing, Unregistered
<1> QED
  BY <1>1, <1>2, <1>3 DEF DeliveryIInv

-----------------------------------------------------------------------------
(* The routes.                                                             *)

LEMMA UpsertedIs ==
  ASSUME NEW held \in TokenRows, NEW owner \in PushDevices \cup {NoOwner},
         NEW prefs \in {Unset, "on", "muted"}
  PROVE  /\ Upserted(held, owner, prefs) \in TokenRows
         /\ Upserted(held, owner, prefs).streak = 0 /\ ~Upserted(held, owner, prefs).revoked
<1>1. held.device \in PushDevices \cup {NoOwner} /\ held.prefs \in {Unset, "on", "muted"}
  BY DEF TokenRows
<1>2. /\ (IF held.on THEN Stored(owner, held.device) ELSE owner) \in PushDevices \cup {NoOwner}
      /\ (IF held.on THEN Stored(prefs, held.prefs) ELSE prefs) \in {Unset, "on", "muted"}
  BY <1>1, Zenon DEF Stored
<1> QED
  BY <1>2 DEF Upserted, TokenRows

LEMMA UnregisteredIs == Unregistered \in TokenRows /\ ~Unregistered.on
  BY DEF Unregistered, TokenRows

LEMMA PrefsIs ==
  ASSUME NEW held \in TokenRows, NEW p \in {Unset, "on", "muted"}
  PROVE  /\ [held EXCEPT !.prefs = p] \in TokenRows
         /\ [held EXCEPT !.prefs = p].on = held.on /\ [held EXCEPT !.prefs = p].streak = held.streak
         /\ [held EXCEPT !.prefs = p].revoked = held.revoked
         /\ [held EXCEPT !.prefs = p].device = held.device
  BY Zenon DEF TokenRows

LEMMA CallsAre ==
  ASSUME DeliveryTypes, NEW call \in calls
  PROVE  call.token \in PushTokens /\ NamedBy(call) \subseteq PushDevices \cup {NoOwner}
<1>1. call.token \in PushTokens /\ call.by \in PushDevices \cup {Owner}
  BY DEF DeliveryTypes, PushCalls
<1> QED
  BY <1>1 DEF NamedBy

LEMMA RegisterKeeps ==
  ASSUME DeliveryIInv, NEW call \in calls, RegisterToken(call)
  PROVE  DeliveryIInv'
<1> USE DEF DeliveryIInv
<1>1. PICK t \in PushTokens : t = call.token
  BY CallsAre
<1>2. PICK owner \in PushDevices \cup {NoOwner}, prefs \in {Unset, "on", "muted"} :
        /\ tokenRow' = [tokenRow EXCEPT ![t] = Upserted(@, owner, prefs)]
        /\ tardy' = IF tokenRow'[t].device \in erased THEN tardy \cup {t} ELSE tardy \ {t}
  <2>1. \E owner \in NamedBy(call), prefs \in {Unset, "on", "muted"} :
           /\ tokenRow' = [tokenRow EXCEPT ![t] = Upserted(@, owner, prefs)]
           /\ tardy' = IF tokenRow'[t].device \in erased THEN tardy \cup {t} ELSE tardy \ {t}
    BY <1>1 DEF RegisterToken
  <2> QED
    BY <2>1, CallsAre
<1>3. /\ calls' = calls \ {call} /\ living' = living \cup {t} /\ counted' = [counted EXCEPT ![t] = 0]
      /\ overtaken' = IF PostingOf(t) = {} THEN overtaken \ {t} ELSE overtaken \cup {t}
      /\ UNCHANGED <<erased, delivery>>
  BY <1>1 DEF RegisterToken, Done
<1>4. PICK held \in TokenRows : /\ held = Upserted(tokenRow[t], owner, prefs)
                               /\ held.streak = 0 /\ ~held.revoked
  <2>1. tokenRow[t] \in TokenRows
    BY DEF DeliveryTypes
  <2> QED
    BY <2>1, UpsertedIs
<1>5. tokenRow' = [tokenRow EXCEPT ![t] = held]
  BY <1>2, <1>4
<1>6. DeliveryTypes'
  BY <1>3, <1>5 DEF DeliveryTypes
<1>7. AllAreServed'
  BY <1>3 DEF AllAreServed
<1>8. /\ tokenRow'[t] = held /\ counted'[t] = 0
      /\ \A u \in PushTokens \ {t} : tokenRow'[u] = tokenRow[u] /\ counted'[u] = counted[u]
  BY <1>3, <1>5 DEF DeliveryTypes
<1>9. StreaksAreOwn'
  BY <1>4, <1>8 DEF StreaksAreOwn
<1>10. \A u \in PushTokens \ {t} : /\ u \in living' <=> u \in living
                                   /\ u \in overtaken' <=> u \in overtaken
                                   /\ u \in tardy' <=> u \in tardy
  BY <1>2, <1>3
<1>11. RetiredIsGone'
  BY <1>4, <1>8, <1>10 DEF RetiredIsGone
<1>12. ErasedKeepsNothing'
  <2>1. tokenRow'[t].device \in erased => t \in tardy'
    BY <1>2
  <2> QED
    BY <1>3, <1>8, <1>10, <2>1 DEF ErasedKeepsNothing
<1>13. DeadAreGone'
  <2> SUFFICES ASSUME NEW s \in Deliveries, NEW i \in DOMAIN delivery[s].batch,
                      delivery[s].batch[i] \in delivery[s].dead
               PROVE  delivery[s].batch[i] \notin living' \/ delivery[s].batch[i] \in overtaken'
    BY <1>3 DEF DeadAreGone
  <2>1. delivery[s].batch[i] \notin living \/ delivery[s].batch[i] \in overtaken
    BY DEF DeadAreGone
  <2>2. CASE delivery[s].batch[i] = t
    <3>1. s \in PostingOf(t)
      BY <2>2 DEF PostingOf, ToSet
    <3> QED
      BY <1>3, <2>2, <3>1
  <2>3. CASE delivery[s].batch[i] # t
    BY <1>3, <2>1, <2>3
  <2> QED
    BY <2>2, <2>3
<1> QED
  BY <1>6, <1>7, <1>9, <1>11, <1>12, <1>13

\* A step that changes at most which rows there are and their preferences.
LEMMA RowsKept ==
  ASSUME DeliveryIInv, tokenRow' \in [PushTokens -> TokenRows], calls' \subseteq PushCalls,
         erased' \subseteq PushDevices, living' \subseteq living,
         UNCHANGED <<delivery, counted, tardy, overtaken>>,
         \A t \in PushTokens : tokenRow'[t].on =>
           /\ tokenRow[t].on /\ tokenRow'[t].streak = tokenRow[t].streak
           /\ tokenRow'[t].revoked = tokenRow[t].revoked
           /\ tokenRow'[t].device \in erased' =>
                tokenRow'[t].device = tokenRow[t].device /\ tokenRow[t].device \in erased
  PROVE  DeliveryIInv'
<1> USE DEF DeliveryIInv
<1>1. DeliveryTypes'
  BY DEF DeliveryTypes
<1>2. AllAreServed'
  BY DEF AllAreServed
<1>3. StreaksAreOwn' /\ RetiredIsGone' /\ ErasedKeepsNothing'
  BY Zenon DEF StreaksAreOwn, RetiredIsGone, ErasedKeepsNothing
<1>4. DeadAreGone'
  BY Zenon DEF DeadAreGone
<1> QED
  BY <1>1, <1>2, <1>3, <1>4

LEMMA PrefsKeep ==
  ASSUME DeliveryIInv, NEW call \in calls, SetPrefs(call) \/ Unregister(call)
  PROVE  DeliveryIInv'
<1> USE DEF DeliveryIInv
<1>1. PICK t \in PushTokens : t = call.token
  BY CallsAre
<1>2. tokenRow[t] \in TokenRows
  BY DEF DeliveryTypes
<1>3. PICK held \in TokenRows :
        /\ tokenRow' = [tokenRow EXCEPT ![t] = held]
        /\ held.on => /\ tokenRow[t].on /\ held.streak = tokenRow[t].streak
                     /\ held.revoked = tokenRow[t].revoked /\ held.device = tokenRow[t].device
  <2>1. CASE SetPrefs(call)
    <3>1. PICK prefs \in {"on", "muted"} :
            tokenRow' = [tokenRow EXCEPT ![t].prefs =
                           IF OwnsToken(call.by, tokenRow[t]) THEN prefs ELSE @]
      BY <1>1, <2>1 DEF SetPrefs
    <3>2. PICK p \in {Unset, "on", "muted"} :
            p = IF OwnsToken(call.by, tokenRow[t]) THEN prefs ELSE tokenRow[t].prefs
      <4>1. tokenRow[t].prefs \in {Unset, "on", "muted"}
        BY <1>2 DEF TokenRows
      <4> QED
        BY <4>1, Zenon
    <3>3. tokenRow' = [tokenRow EXCEPT ![t] = [tokenRow[t] EXCEPT !.prefs = p]]
      BY <3>1, <3>2, Zenon
    <3>4. PICK held \in TokenRows :
            /\ held = [tokenRow[t] EXCEPT !.prefs = p]
            /\ held.on = tokenRow[t].on /\ held.streak = tokenRow[t].streak
            /\ held.revoked = tokenRow[t].revoked /\ held.device = tokenRow[t].device
      BY <1>2, PrefsIs
    <3> QED
      BY <3>3, <3>4
  <2>2. CASE Unregister(call)
    <3>1. tokenRow' = [tokenRow EXCEPT ![t] = IF OwnsToken(call.by, @) THEN Unregistered ELSE @]
      BY <1>1, <2>2 DEF Unregister
    <3> QED
      BY <1>2, <3>1, UnregisteredIs
  <2> QED
    BY <2>1, <2>2
<1>4. /\ tokenRow' \in [PushTokens -> TokenRows] /\ tokenRow'[t] = held
      /\ \A u \in PushTokens \ {t} : tokenRow'[u] = tokenRow[u]
  BY <1>3 DEF DeliveryTypes
<1>5. UNCHANGED <<erased, living, delivery, counted, tardy, overtaken>> /\ calls' = calls \ {call}
  BY DEF SetPrefs, Unregister, Done
<1>6. calls' \subseteq PushCalls /\ erased' \subseteq PushDevices
  BY <1>5 DEF DeliveryTypes
<1> QED
  BY <1>3, <1>4, <1>5, <1>6, RowsKept

LEMMA OutsideKeeps ==
  ASSUME DeliveryIInv, \/ \E d \in PushDevices : EraseDevice(d)
                       \/ \E t \in PushTokens : AppGone(t)
                       \/ \E by \in PushDevices \cup {Owner}, t \in PushTokens,
                             op \in {"register", "prefs", "unregister", "test"} : CallAdmitted(by, op, t)
                       \/ UNCHANGED deliveryVars
  PROVE  DeliveryIInv'
<1> USE DEF DeliveryIInv
<1>1. CASE \E d \in PushDevices : EraseDevice(d)
  <2>1. PICK d \in PushDevices : EraseDevice(d)
    BY <1>1
  <2>2. /\ erased' = erased \cup {d}
        /\ tokenRow' = [t \in PushTokens |->
                          IF tokenRow[t].device = d THEN Unregistered ELSE tokenRow[t]]
        /\ UNCHANGED <<calls, living, delivery, counted, tardy, overtaken>>
    BY <2>1 DEF EraseDevice
  <2>3. tokenRow' \in [PushTokens -> TokenRows]
    BY <2>2, UnregisteredIs DEF DeliveryTypes
  <2>4. ASSUME NEW t \in PushTokens, tokenRow'[t].on
        PROVE  tokenRow'[t] = tokenRow[t] /\ tokenRow[t].device # d
    BY <2>2, <2>4, UnregisteredIs
  <2>5. calls' \subseteq PushCalls /\ erased' \subseteq PushDevices
    BY <2>2 DEF DeliveryTypes
  <2> QED
    BY <2>2, <2>3, <2>4, <2>5, RowsKept
<1>2. CASE \E t \in PushTokens : AppGone(t)
  <2>1. living' \subseteq living
        /\ UNCHANGED <<tokenRow, calls, erased, delivery, counted, tardy, overtaken>>
    BY <1>2 DEF AppGone
  <2>2. calls' \subseteq PushCalls /\ erased' \subseteq PushDevices /\ tokenRow' \in [PushTokens -> TokenRows]
    BY <2>1 DEF DeliveryTypes
  <2> QED
    BY <2>1, <2>2, RowsKept
<1>3. CASE \E by \in PushDevices \cup {Owner}, t \in PushTokens,
             op \in {"register", "prefs", "unregister", "test"} : CallAdmitted(by, op, t)
  <2>1. PICK by \in PushDevices \cup {Owner}, t \in PushTokens,
             op \in {"register", "prefs", "unregister", "test"} : CallAdmitted(by, op, t)
    BY <1>3
  <2>2. /\ calls' = calls \cup {[by |-> by, op |-> op, token |-> t]}
        /\ UNCHANGED <<tokenRow, erased, living, delivery, counted, tardy, overtaken>>
    BY <2>1 DEF CallAdmitted
  <2>3. calls' \subseteq PushCalls /\ erased' \subseteq PushDevices /\ tokenRow' \in [PushTokens -> TokenRows]
    BY <2>2 DEF DeliveryTypes, PushCalls
  <2> QED
    BY <2>2, <2>3, RowsKept
<1>4. CASE UNCHANGED deliveryVars
  <2>1. UNCHANGED <<tokenRow, calls, erased, living, delivery, counted, tardy, overtaken>>
    BY <1>4 DEF deliveryVars
  <2>2. calls' \subseteq PushCalls /\ erased' \subseteq PushDevices /\ tokenRow' \in [PushTokens -> TokenRows]
    BY <2>1 DEF DeliveryTypes
  <2> QED
    BY <2>1, <2>2, RowsKept
<1> QED
  BY <1>1, <1>2, <1>3, <1>4

-----------------------------------------------------------------------------
(* The sends.                                                              *)

\* A step of one send that touches no row keeps the rest, if the send is in order.
LEMMA SendKeeps ==
  ASSUME DeliveryIInv, NEW s \in Deliveries, NEW d \in DeliveryRecords, calls' \subseteq PushCalls,
         delivery' = [delivery EXCEPT ![s] = d],
         UNCHANGED <<tokenRow, erased, living, counted, tardy, overtaken>>,
         d.all = d.done \o d.batch \o d.left,
         \A i \in DOMAIN d.batch : d.batch[i] \in d.dead => d.batch[i] \notin living
  PROVE  DeliveryIInv'
<1> USE DEF DeliveryIInv
<1>1. /\ delivery' \in [Deliveries -> DeliveryRecords] /\ delivery'[s] = d
      /\ \A o \in Deliveries \ {s} : delivery'[o] = delivery[o]
  BY DEF DeliveryTypes
<1>2. DeliveryTypes'
  BY <1>1 DEF DeliveryTypes
<1>3. AllAreServed'
  BY <1>1, Zenon DEF AllAreServed
<1>4. StreaksAreOwn' /\ RetiredIsGone' /\ ErasedKeepsNothing'
  BY Zenon DEF StreaksAreOwn, RetiredIsGone, ErasedKeepsNothing
<1>5. DeadAreGone'
  BY <1>1, Zenon DEF DeadAreGone
<1> QED
  BY <1>2, <1>3, <1>4, <1>5

LEMMA SendIsFields ==
  ASSUME NEW d \in DeliveryRecords
  PROVE  /\ d.all \in Seq(PushTokens) /\ d.done \in Seq(PushTokens) /\ d.batch \in Seq(PushTokens)
         /\ d.left \in Seq(PushTokens) /\ d.dead \subseteq PushTokens
  BY Zenon DEF DeliveryRecords

LEMMA FreshSend ==
  ASSUME NEW rows \in Seq(PushTokens)
  PROVE  \E d \in DeliveryRecords : /\ d = [NoDelivery EXCEPT !.all = rows, !.left = rows]
                          /\ d.batch = <<>> /\ d.all = d.done \o d.batch \o d.left
<1>1. PICK d : d = [NoDelivery EXCEPT !.all = rows, !.left = rows]
  OBVIOUS
<1>2. /\ d \in DeliveryRecords /\ d.all = rows /\ d.left = rows
      /\ d.done = NoDelivery.done /\ d.batch = NoDelivery.batch
  BY <1>1, NoDeliveryIs, Zenon DEF DeliveryRecords
<1>3. d.done = <<>> /\ d.batch = <<>>
  BY <1>2 DEF NoDelivery
<1>4. <<>> \in Seq(PushTokens)
  OBVIOUS
<1>5. <<>> \o <<>> = <<>>
  BY <1>4, ConcatEmptySeq
<1>6. <<>> \o rows = rows
  BY ConcatEmptySeq
<1>7. d.all = d.done \o d.batch \o d.left
  BY <1>2, <1>3, <1>5, <1>6, Zenon
<1> QED
  BY <1>1, <1>2, <1>3, <1>7, Zenon

\* SetToSeq finds a sequence: a finite set has one.
LEMMA RowsInSequence ==
  ASSUME NEW S \in SUBSET PushTokens
  PROVE  SetToSeq(S) \in Seq(PushTokens)
<1>1. IsFiniteSet(S)
  BY DeliveryAssumption, FS_Subset DEF DeliveryAssumption
<1>2. Cardinality(S) \in Nat /\ ExistsBijection(1..Cardinality(S), S)
  BY <1>1, FS_CardinalityType
<1>3. \E f \in [1..Cardinality(S) -> S] : IsInjective(f)
  BY <1>2 DEF ExistsBijection, Bijection, Injection
<1>4. SetToSeq(S) \in [1..Cardinality(S) -> S]
  BY <1>3, Zenon DEF SetToSeq
<1> QED
  BY <1>2, <1>4

LEMMA BeginsKeep ==
  ASSUME DeliveryIInv, NEW s \in Deliveries,
         Notify(s) \/ \E call \in calls : TestPush(s, call)
  PROVE  DeliveryIInv'
<1>1. CASE Notify(s)
  <2>1. PICK rows \in Seq(PushTokens) : Begins(s, rows)
    <3>1. SetToSeq({t \in PushTokens : Deliverable(t) /\ Allows(t)}) \in Seq(PushTokens)
      BY RowsInSequence
    <3> QED
      BY <1>1, <3>1 DEF Notify
  <2>2. PICK d \in DeliveryRecords : /\ d = [NoDelivery EXCEPT !.all = rows, !.left = rows]
                           /\ d.batch = <<>> /\ d.all = d.done \o d.batch \o d.left
    BY FreshSend
  <2>3. /\ delivery' = [delivery EXCEPT ![s] = d] /\ calls' = calls
        /\ UNCHANGED <<tokenRow, erased, living, counted, tardy, overtaken>>
    BY <2>1, <2>2 DEF Begins
  <2>4. calls' \subseteq PushCalls
    BY <2>3 DEF DeliveryIInv, DeliveryTypes
  <2>5. \A i \in DOMAIN d.batch : FALSE
    BY <2>2
  <2> QED
    BY <2>2, <2>3, <2>4, <2>5, SendKeeps
<1>2. CASE \E call \in calls : TestPush(s, call)
  <2>1. PICK call \in calls : TestPush(s, call)
    BY <1>2
  <2>2. PICK t \in PushTokens : t = call.token
    BY CallsAre DEF DeliveryIInv
  <2>3. calls' = calls \ {call} /\ UNCHANGED <<tokenRow, erased, living, counted, tardy, overtaken>>
    BY <2>1 DEF TestPush, Done
  <2>4. calls' \subseteq PushCalls
    BY <2>3 DEF DeliveryIInv, DeliveryTypes
  <2>5. CASE OwnsToken(call.by, tokenRow[call.token])
    <3>0. <<t>> \in Seq(PushTokens)
      OBVIOUS
    <3>1. PICK rows \in Seq(PushTokens) : rows = <<t>>
      BY <3>0, Zenon
    <3>2. PICK d \in DeliveryRecords : /\ d = [NoDelivery EXCEPT !.all = rows, !.left = rows]
                             /\ d.batch = <<>> /\ d.all = d.done \o d.batch \o d.left
      BY FreshSend
    <3>3. delivery' = [delivery EXCEPT ![s] = d]
      BY <2>1, <2>2, <2>5, <3>1, <3>2, Zenon DEF TestPush
    <3>4. \A i \in DOMAIN d.batch : FALSE
      BY <3>2
    <3> QED
      BY <2>3, <2>4, <3>2, <3>3, <3>4, SendKeeps
  <2>6. CASE ~OwnsToken(call.by, tokenRow[call.token])
    <3>1. UNCHANGED delivery
      BY <2>1, <2>6, Zenon DEF TestPush
    <3>2. erased' \subseteq PushDevices /\ tokenRow' \in [PushTokens -> TokenRows]
      BY <2>3 DEF DeliveryIInv, DeliveryTypes
    <3> QED
      BY <2>3, <2>4, <3>1, <3>2, RowsKept
  <2> QED
    BY <2>5, <2>6
<1> QED
  BY <1>1, <1>2

LEMMA BatchIs ==
  ASSUME NEW left \in Seq(PushTokens)
  PROVE  /\ Batch(left) \in Seq(PushTokens) /\ After(left) \in Seq(PushTokens)
         /\ Batch(left) \o After(left) = left
         /\ \A i \in DOMAIN Batch(left) : Batch(left)[i] \in ToSet(left)
<1>1. BatchSize \in Nat \ {0} /\ Len(left) \in Nat
  BY DeliveryAssumption DEF DeliveryAssumption
<1>2. PICK m \in Nat : m = Min({BatchSize, Len(left)}) /\ m <= Len(left) /\ m <= BatchSize
                       /\ m \in {BatchSize, Len(left)}
  <2>1. \E x \in {BatchSize, Len(left)} : \A y \in {BatchSize, Len(left)} : x <= y
    BY <1>1
  <2>2. Min({BatchSize, Len(left)}) \in {BatchSize, Len(left)}
        /\ \A y \in {BatchSize, Len(left)} : Min({BatchSize, Len(left)}) <= y
    BY <2>1, Zenon DEF Min
  <2> QED
    BY <1>1, <2>2
<1>3. Batch(left) = SubSeq(left, 1, m)
  BY <1>2 DEF Batch
<1>4. After(left) = SubSeq(left, m + 1, Len(left))
  <2>1. CASE m = BatchSize
    BY <2>1 DEF After
  <2>2. CASE m = Len(left) /\ BatchSize >= Len(left)
    <3>1. SubSeq(left, BatchSize + 1, Len(left)) = <<>> /\ SubSeq(left, m + 1, Len(left)) = <<>>
      BY <1>1, <2>2, SubSeqEmpty
    <3> QED
      BY <3>1 DEF After
  <2> QED
    BY <1>1, <1>2, <2>1, <2>2
<1>5. \A i \in 1..Len(left) : left[i] \in PushTokens
  OBVIOUS
<1>6. Batch(left) \in Seq(PushTokens) /\ After(left) \in Seq(PushTokens)
  <2>1. 1 \in Int /\ m \in Int /\ m + 1 \in Int /\ Len(left) \in Int
    BY <1>1, <1>2
  <2>2. (\A i \in 1..m : left[i] \in PushTokens) /\ \A i \in m + 1..Len(left) : left[i] \in PushTokens
    <3>1. \A i \in 1..m : i \in 1..Len(left)
      BY <1>1, <1>2
    <3>2. \A i \in m + 1..Len(left) : i \in 1..Len(left)
      BY <1>1, <1>2
    <3> QED
      BY <1>5, <3>1, <3>2, Zenon
  <2>3. SubSeq(left, 1, m) \in Seq(PushTokens) /\ SubSeq(left, m + 1, Len(left)) \in Seq(PushTokens)
    BY <2>1, <2>2, SubSeqProperties
  <2> QED
    BY <1>3, <1>4, <2>3
<1>7. Batch(left) \o After(left) = left
  <2>1. SubSeq(left, 1, m) \o SubSeq(left, m + 1, Len(left)) = SubSeq(left, 1, Len(left))
    <3>1. 1 \in 1..Len(left) + 1 /\ m \in 1 - 1..Len(left) /\ Len(left) \in m..Len(left)
      BY <1>1, <1>2
    <3> QED
      BY <3>1, ConcatAdjacentSubSeq
  <2> QED
    BY <1>3, <1>4, <2>1, SubSeqFull
<1>8. \A i \in DOMAIN Batch(left) : Batch(left)[i] \in ToSet(left)
  <2>1. \A i \in DOMAIN SubSeq(left, 1, m) : SubSeq(left, 1, m)[i] = left[i] /\ i \in DOMAIN left
    BY <1>1, <1>2
  <2> QED
    BY <1>3, <2>1 DEF ToSet
<1> QED
  BY <1>6, <1>7, <1>8

LEMMA PostKeeps ==
  ASSUME DeliveryIInv, NEW s \in Deliveries, PostBatch(s)
  PROVE  DeliveryIInv'
<1>1. PICK d \in DeliveryRecords : d = delivery[s]
  BY DEF DeliveryIInv, DeliveryTypes
<1>2. /\ d.batch = <<>> /\ UNCHANGED <<tokenRow, calls, erased, living, counted, tardy, overtaken>>
      /\ delivery' = [delivery EXCEPT ![s].batch = Batch(d.left), ![s].left = After(d.left),
                                      ![s].dead = ToSet(d.left) \ living]
  BY <1>1 DEF PostBatch
<1>3. PICK b \in Seq(PushTokens), a \in Seq(PushTokens) :
        /\ b = Batch(d.left) /\ a = After(d.left) /\ b \o a = d.left
        /\ \A i \in DOMAIN b : b[i] \in ToSet(d.left)
  BY SendIsFields, BatchIs
<1>4. PICK g \in SUBSET PushTokens : g = ToSet(d.left) \ living
  <2>1. ToSet(d.left) \subseteq PushTokens
    BY SendIsFields DEF ToSet
  <2> QED
    BY <2>1
<1>5. PICK n : n = [d EXCEPT !.batch = b, !.left = a, !.dead = g]
  OBVIOUS
<1>6. n \in DeliveryRecords /\ n.all = d.all /\ n.done = d.done /\ n.batch = b /\ n.left = a /\ n.dead = g
  BY <1>5, Zenon DEF DeliveryRecords
<1>7. delivery' = [delivery EXCEPT ![s] = n]
  <2>1. delivery \in [Deliveries -> DeliveryRecords]
    BY DEF DeliveryIInv, DeliveryTypes
  <2>2. delivery' = [delivery EXCEPT ![s].batch = b, ![s].left = a, ![s].dead = g]
    BY <1>2, <1>3, <1>4, Zenon
  <2>3. delivery' = [delivery EXCEPT ![s] = [delivery[s] EXCEPT !.batch = b, !.left = a, !.dead = g]]
    BY <2>1, <2>2, Zenon
  <2> QED
    BY <1>1, <1>5, <2>3, Zenon
<1>8. n.all = n.done \o n.batch \o n.left
  <2>1. d.all = d.done \o d.batch \o d.left
    BY <1>1 DEF DeliveryIInv, AllAreServed
  <2>2. d.done \in Seq(PushTokens) /\ d.left \in Seq(PushTokens)
    BY SendIsFields
  <2>3. d.done \o <<>> = d.done
    BY <2>2, ConcatEmptySeq
  <2>4. (d.done \o b) \o a = d.done \o (b \o a)
    <3>1. PICK e \in Seq(PushTokens) : e = d.done
      BY <2>2
    <3>2. \A x, y, z \in Seq(PushTokens) : (x \o y) \o z = x \o (y \o z)
      BY ConcatAssociative, SMTT(30)
    <3> QED
      BY <3>1, <3>2, Zenon
  <2>5. d.all = d.done \o d.left
    BY <1>2, <2>1, <2>3, Zenon
  <2> QED
    BY <1>3, <1>6, <2>4, <2>5, Zenon
<1>9. \A i \in DOMAIN n.batch : n.batch[i] \in n.dead => n.batch[i] \notin living
  BY <1>4, <1>6
<1>10. calls' \subseteq PushCalls
  BY <1>2 DEF DeliveryIInv, DeliveryTypes
<1> QED
  BY <1>2, <1>6, <1>7, <1>8, <1>9, <1>10, SendKeeps

LEMMA RecordedIs ==
  ASSUME NEW held \in TokenRows, NEW ticket
  PROVE  /\ Recorded(held, ticket) \in TokenRows
         /\ Recorded(held, ticket).on = held.on /\ Recorded(held, ticket).device = held.device
         /\ held.on => Recorded(held, ticket).streak = IF ticket = "ok" THEN 0 ELSE held.streak + 1
         /\ ticket # "dead" => Recorded(held, ticket).revoked = held.revoked
<1>1. held.streak \in Nat /\ held.on \in BOOLEAN
  BY DEF TokenRows
<1>2. CASE ~held.on
  <2>1. Recorded(held, ticket) = held
    BY <1>2 DEF Recorded
  <2> QED
    BY <1>2, <2>1
<1>3. CASE held.on /\ ticket = "ok"
  <2>1. Recorded(held, ticket) = [held EXCEPT !.streak = 0]
    BY <1>3 DEF Recorded
  <2>2. 0 \in Nat
    OBVIOUS
  <2>3. [held EXCEPT !.streak = 0] \in TokenRows /\ [held EXCEPT !.streak = 0].on = held.on
        /\ [held EXCEPT !.streak = 0].device = held.device /\ [held EXCEPT !.streak = 0].streak = 0
        /\ [held EXCEPT !.streak = 0].revoked = held.revoked
    BY <2>2, Zenon DEF TokenRows
  <2> QED
    BY <1>3, <2>1, <2>3
<1>4. PICK n \in Nat : n = held.streak + 1
  BY <1>1
<1>5. CASE held.on /\ ticket = "dead"
  <2>1. PICK r : r = Recorded(held, ticket)
    OBVIOUS
  <2>2. r = [held EXCEPT !.streak = n, !.revoked = TRUE]
    BY <1>4, <1>5, <2>1 DEF Recorded
  <2>3. r \in TokenRows /\ r.on = held.on /\ r.device = held.device /\ r.streak = n
    BY <2>2, Zenon DEF TokenRows
  <2> QED
    BY <1>4, <1>5, <2>1, <2>3
<1>6. CASE held.on /\ ticket \notin {"ok", "dead"}
  <2>1. PICK r : r = Recorded(held, ticket)
    OBVIOUS
  <2>2. r = [held EXCEPT !.streak = n]
    BY <1>4, <1>6, <2>1 DEF Recorded
  <2>3. r \in TokenRows /\ r.on = held.on /\ r.device = held.device /\ r.streak = n
        /\ r.revoked = held.revoked
    BY <2>2, Zenon DEF TokenRows
  <2> QED
    BY <1>4, <1>6, <2>1, <2>3
<1> QED
  BY <1>1, <1>2, <1>3, <1>5, <1>6

LEMMA AnswerKeeps ==
  ASSUME DeliveryIInv, NEW s \in Deliveries, BatchAnswered(s)
  PROVE  DeliveryIInv'
<1> USE DEF DeliveryIInv
<1>1. PICK d \in DeliveryRecords : d = delivery[s]
  BY DEF DeliveryTypes
<1>2. PICK answer \in Answers(s) :
        /\ tokenRow' = [t \in PushTokens |->
              IF t \in ToSet(d.batch)
              THEN Recorded(tokenRow[t],
                     TicketOf(s, answer, CHOOSE i \in DOMAIN d.batch : d.batch[i] = t))
              ELSE tokenRow[t]]
        /\ counted' = [t \in PushTokens |->
              IF t \in ToSet(d.batch) THEN CountedOf(t, answer, d.batch) ELSE counted[t]]
  BY <1>1 DEF BatchAnswered
<1>3. /\ delivery' = [delivery EXCEPT ![s] =
                        IF d.left = <<>> THEN NoDelivery
                        ELSE [d EXCEPT !.done = @ \o d.batch, !.batch = <<>>, !.dead = {}]]
      /\ UNCHANGED <<calls, erased, living, tardy, overtaken>> /\ d.batch # <<>>
  BY <1>1 DEF BatchAnswered
\* What the answer says of a token of the batch.
<1>4. ASSUME NEW t \in PushTokens, t \in ToSet(d.batch)
      PROVE  \E ticket :
               /\ tokenRow'[t] = Recorded(tokenRow[t], ticket)
               /\ counted'[t] = IF ticket = "ok" THEN 0 ELSE counted[t] + 1
               /\ ticket = "dead" => t \notin living \/ t \in overtaken
  <2>1. PICK i : i = CHOOSE j \in DOMAIN d.batch : d.batch[j] = t
    OBVIOUS
  <2>2. i \in DOMAIN d.batch /\ d.batch[i] = t
    <3>1. \E j \in DOMAIN d.batch : d.batch[j] = t
      BY <1>4, Zenon DEF ToSet
    <3> QED
      BY <2>1, <3>1, Zenon
  <2>3. PICK ticket : ticket = TicketOf(s, answer, i)
    OBVIOUS
  <2>4. tokenRow'[t] = Recorded(tokenRow[t], ticket)
    BY <1>2, <1>4, <2>1, <2>3, Zenon
  <2>5. counted'[t] = IF answer # <<>> /\ answer[i] = "ok" THEN 0 ELSE counted[t] + 1
    BY <1>2, <1>4, <2>1, Zenon DEF CountedOf
  <2>6. CASE answer = <<>>
    <3>1. ticket = "none"
      BY <2>3, <2>6 DEF TicketOf
    <3> QED
      BY <2>4, <2>5, <2>6, <3>1
  <2>7. CASE answer # <<>>
    <3>1. /\ answer \in [DOMAIN d.batch -> {"ok", "error", "dead"}]
          /\ answer[i] \in IF d.batch[i] \in d.dead THEN {"dead"} ELSE {"ok", "error"}
      BY <1>1, <1>2, <2>2, <2>7 DEF Answers
    <3>2. ticket = answer[i]
      BY <2>2, <2>3, <3>1, Zenon DEF TicketOf
    <3>3. ticket = "dead" => d.batch[i] \in d.dead
      BY <3>1, <3>2
    <3>4. d.batch[i] \in d.dead => t \notin living \/ t \in overtaken
      BY <1>1, <2>2, Zenon DEF DeadAreGone
    <3> QED
      BY <2>4, <2>5, <2>7, <3>2, <3>3, <3>4, Zenon
  <2> QED
    BY <2>6, <2>7
<1>5. ASSUME NEW t \in PushTokens, t \notin ToSet(d.batch)
      PROVE  tokenRow'[t] = tokenRow[t] /\ counted'[t] = counted[t]
  BY <1>2, <1>5
<1>6. \A t \in PushTokens : tokenRow[t] \in TokenRows /\ counted[t] \in Nat
  BY DEF DeliveryTypes
<1>7. \A t \in PushTokens : tokenRow'[t] \in TokenRows /\ counted'[t] \in Nat
  <2> SUFFICES ASSUME NEW t \in PushTokens
               PROVE  tokenRow'[t] \in TokenRows /\ counted'[t] \in Nat
    OBVIOUS
  <2>1. CASE t \in ToSet(d.batch)
    <3>1. PICK ticket : /\ tokenRow'[t] = Recorded(tokenRow[t], ticket)
                        /\ counted'[t] = IF ticket = "ok" THEN 0 ELSE counted[t] + 1
      BY <1>4, <2>1
    <3> QED
      BY <1>6, <3>1, RecordedIs
  <2>2. CASE t \notin ToSet(d.batch)
    BY <1>5, <1>6, <2>2
  <2> QED
    BY <2>1, <2>2
<1>8. tokenRow' \in [PushTokens -> TokenRows] /\ counted' \in [PushTokens -> Nat]
  BY <1>2, <1>7
<1>9. PICK n \in DeliveryRecords : /\ delivery' = [delivery EXCEPT ![s] = n]
                         /\ n.batch = <<>> /\ n.all = n.done \o n.batch \o n.left
  <2>1. CASE d.left = <<>>
    BY <1>3, <2>1, NoDeliveryIs, Zenon
  <2>2. CASE d.left # <<>>
    <3>1. d.done \in Seq(PushTokens) /\ d.batch \in Seq(PushTokens) /\ d.left \in Seq(PushTokens)
      BY SendIsFields
    <3>2. PICK o \in Seq(PushTokens) : o = d.done \o d.batch
      <4>1. d.done \o d.batch \in Seq(PushTokens)
        BY <3>1, ConcatProperties
      <4> QED
        BY <4>1, Zenon
    <3>3. PICK n : n = [d EXCEPT !.done = o, !.batch = <<>>, !.dead = {}]
      OBVIOUS
    <3>4. <<>> \in Seq(PushTokens)
      OBVIOUS
    <3>5. n \in DeliveryRecords /\ n.all = d.all /\ n.done = o /\ n.batch = <<>> /\ n.left = d.left
      BY <3>3, <3>4, Zenon DEF DeliveryRecords
    <3>6. [d EXCEPT !.done = @ \o d.batch, !.batch = <<>>, !.dead = {}] = n
      BY <3>2, <3>3, Zenon DEF DeliveryRecords
    <3>7. delivery' = [delivery EXCEPT ![s] = n]
      BY <1>3, <2>2, <3>6, Zenon
    <3>8. d.all = o \o d.left
      BY <1>1, <3>2, Zenon DEF AllAreServed
    <3>9. o \o <<>> = o
      BY ConcatEmptySeq
    <3>10. n.all = n.done \o n.batch \o n.left
      BY <3>5, <3>8, <3>9, Zenon
    <3> QED
      BY <3>5, <3>7, <3>10, Zenon
  <2> QED
    BY <2>1, <2>2, Zenon
<1>10. /\ delivery' \in [Deliveries -> DeliveryRecords] /\ delivery'[s] = n
       /\ \A o \in Deliveries \ {s} : delivery'[o] = delivery[o]
  BY <1>9 DEF DeliveryTypes
<1>11. DeliveryTypes'
  BY <1>3, <1>8, <1>10 DEF DeliveryTypes
<1>12. AllAreServed'
  BY <1>9, <1>10, Zenon DEF AllAreServed
<1>13. DeadAreGone'
  <2>1. DOMAIN n.batch = {}
    BY <1>9
  <2> QED
    BY <1>3, <1>10, <2>1, Zenon DEF DeadAreGone
<1>14. ASSUME NEW t \in PushTokens
       PROVE  /\ tokenRow'[t].on => tokenRow'[t].streak = counted'[t]
              /\ tokenRow'[t].on /\ tokenRow'[t].revoked => t \notin living' \/ t \in overtaken'
              /\ tokenRow'[t].on /\ tokenRow'[t].device \in erased' => t \in tardy'
  <2>1. /\ tokenRow[t].on => tokenRow[t].streak = counted[t]
        /\ tokenRow[t].on /\ tokenRow[t].revoked => t \notin living \/ t \in overtaken
        /\ tokenRow[t].on /\ tokenRow[t].device \in erased => t \in tardy
    BY DEF StreaksAreOwn, RetiredIsGone, ErasedKeepsNothing
  <2>2. CASE t \in ToSet(d.batch)
    <3>1. PICK ticket : /\ tokenRow'[t] = Recorded(tokenRow[t], ticket)
                        /\ counted'[t] = IF ticket = "ok" THEN 0 ELSE counted[t] + 1
                        /\ ticket = "dead" => t \notin living \/ t \in overtaken
      BY <1>4, <2>2
    <3>2. PICK r : r = tokenRow'[t]
      OBVIOUS
    <3>3. /\ r.on = tokenRow[t].on /\ r.device = tokenRow[t].device
          /\ tokenRow[t].on => r.streak = IF ticket = "ok" THEN 0 ELSE tokenRow[t].streak + 1
          /\ ticket # "dead" => r.revoked = tokenRow[t].revoked
      BY <1>6, <3>1, <3>2, RecordedIs
    <3>4. r.on => r.streak = counted'[t]
      BY <2>1, <3>1, <3>3
    <3>5. r.on /\ r.revoked => t \notin living \/ t \in overtaken
      BY <2>1, <3>1, <3>3, Zenon
    <3>6. r.on /\ r.device \in erased => t \in tardy
      BY <2>1, <3>3, Zenon
    <3> QED
      BY <1>3, <3>2, <3>4, <3>5, <3>6, Zenon
  <2>3. CASE t \notin ToSet(d.batch)
    BY <1>3, <1>5, <2>1, <2>3, Zenon
  <2> QED
    BY <2>2, <2>3
<1>15. StreaksAreOwn' /\ RetiredIsGone' /\ ErasedKeepsNothing'
  BY <1>14, Zenon DEF StreaksAreOwn, RetiredIsGone, ErasedKeepsNothing
<1> QED
  BY <1>11, <1>12, <1>13, <1>15

LEMMA DeliveryStep ==
  ASSUME DeliveryIInv, [DeliveryNext]_deliveryVars
  PROVE  DeliveryIInv'
  BY RegisterKeeps, PrefsKeep, OutsideKeeps, BeginsKeep, PostKeeps, AnswerKeeps, Zenon
  DEF DeliveryNext

LEMMA DeliveryImplies ==
  ASSUME DeliveryIInv
  PROVE  DeliveryInv
<1>1. \A s \in Deliveries : delivery[s].dead \subseteq PushTokens
  BY SendIsFields DEF DeliveryIInv, DeliveryTypes
<1> QED
  BY <1>1 DEF DeliveryIInv, DeliveryTypes, DeliveryInv, DeliveryTypeOK, TokenRows

-----------------------------------------------------------------------------
(* PushDelivery: the quiet hours.                                          *)

WeekHours == WeekDays * DayHours
DaysOfWeek == 0..(WeekDays - 1)

\* The hour is one of the week, and every day has a window of its hours.
QuietIInv == hour \in 0..(WeekHours - 1) /\ \A day \in DaysOfWeek : WindowStartingOn(day) \in Windows

-----------------------------------------------------------------------------
(* Arithmetic of days and hours.                                           *)

LEMMA WeekIs ==
  /\ WeekDays \in Nat \ {0} /\ DayHours \in Nat \ {0} /\ WeekHours \in Nat \ {0}
<1>1. WeekDays \in Nat \ {0} /\ DayHours \in Nat \ {0}
  BY QuietAssumption DEF QuietAssumption
<1> QED
  BY <1>1 DEF WeekHours

LEMMA OnceAround ==
  ASSUME NEW m \in Nat \ {0}, NEW x \in Nat, x < m + m
  PROVE  x % m = IF x < m THEN x ELSE x - m
  OBVIOUS

LEMMA DivUnique ==
  ASSUME NEW m \in Nat \ {0}, NEW q \in Nat, NEW r \in 0..(m - 1)
  PROVE  (q * m + r) \div m = q /\ (q * m + r) % m = r
  OBVIOUS

LEMMA DivMod ==
  ASSUME NEW m \in Nat \ {0}, NEW x \in Nat
  PROVE  x = (x \div m) * m + (x % m) /\ x % m \in 0..(m - 1) /\ x \div m \in Nat
  OBVIOUS

LEMMA RowUnique ==
  ASSUME NEW m \in Nat \ {0}, NEW p \in Nat, NEW q \in Nat,
         NEW r \in 0..(m - 1), NEW s \in 0..(m - 1), p * m + r = q * m + s
  PROVE  p = q /\ r = s
  OBVIOUS

LEMMA InWeek ==
  ASSUME NEW q \in DaysOfWeek, NEW r \in 0..(DayHours - 1)
  PROVE  q * DayHours + r \in 0..(WeekHours - 1)
<1>1. q \in Nat /\ q + 1 <= WeekDays
  BY WeekIs DEF DaysOfWeek
<1>2. q * DayHours + DayHours <= WeekDays * DayHours
  BY <1>1, WeekIs
<1> QED
  BY <1>1, <1>2, WeekIs DEF WeekHours

LEMMA DayIs ==
  ASSUME hour \in 0..(WeekHours - 1)
  PROVE  Day \in DaysOfWeek /\ Minutes \in 0..(DayHours - 1) /\ hour = Day * DayHours + Minutes
<1>1. hour \in Nat /\ hour < WeekDays * DayHours
  BY WeekIs DEF WeekHours
<1>2. /\ hour = Day * DayHours + Minutes /\ Minutes \in 0..(DayHours - 1) /\ Day \in Nat
  BY <1>1, WeekIs, DivMod DEF Day, Minutes
<1>3. Day * DayHours < WeekDays * DayHours
  BY <1>1, <1>2, WeekIs
<1>4. Day < WeekDays
  BY <1>2, <1>3, WeekIs
<1> QED
  BY <1>2, <1>4, WeekIs DEF DaysOfWeek

LEMMA YesterdayIs ==
  ASSUME NEW day \in DaysOfWeek
  PROVE  /\ Yesterday(day) \in DaysOfWeek
         /\ Yesterday(day) = IF day = 0 THEN WeekDays - 1 ELSE day - 1
<1>1. day \in Nat /\ day < WeekDays /\ WeekDays \in Nat \ {0}
  BY WeekIs DEF DaysOfWeek
<1>2. PICK y \in Nat : y = day + WeekDays - 1 /\ y < WeekDays + WeekDays
  BY <1>1
<1>3. y % WeekDays = IF y < WeekDays THEN y ELSE y - WeekDays
  BY <1>1, <1>2, OnceAround
<1>4. Yesterday(day) = y % WeekDays
  BY <1>2 DEF Yesterday
<1> QED
  BY <1>1, <1>2, <1>3, <1>4 DEF DaysOfWeek

\* The hour that comes x hours after the start of a day is one of it, or of the next.
LEMMA HourAfter ==
  ASSUME hour \in 0..(WeekHours - 1), NEW day \in DaysOfWeek, NEW x \in 0..(DayHours + DayHours - 1)
  PROVE  (day * DayHours + x) % WeekHours = hour <=>
           \/ x = Minutes /\ Day = day
           \/ x = Minutes + DayHours /\ Yesterday(Day) = day
<1>1. /\ DayHours \in Nat \ {0} /\ WeekDays \in Nat \ {0} /\ WeekHours \in Nat \ {0}
      /\ day \in Nat /\ day < WeekDays /\ x \in Nat /\ x < DayHours + DayHours
  BY WeekIs DEF DaysOfWeek
<1>2. /\ Day \in Nat /\ Day < WeekDays /\ Minutes \in 0..(DayHours - 1)
      /\ hour = Day * DayHours + Minutes /\ Day \in DaysOfWeek
  BY <1>1, DayIs DEF DaysOfWeek
<1>3. Yesterday(Day) = IF Day = 0 THEN WeekDays - 1 ELSE Day - 1
  BY <1>2, YesterdayIs
<1>4. CASE x < DayHours
  <2>1. x \in 0..(DayHours - 1)
    BY <1>1, <1>4
  <2>2. day * DayHours + x \in 0..(WeekHours - 1)
    BY <2>1, InWeek
  <2>3. (day * DayHours + x) % WeekHours = day * DayHours + x
    <3>1. PICK y \in Nat : y = day * DayHours + x /\ y < WeekHours /\ y < WeekHours + WeekHours
      BY <1>1, <2>2
    <3>2. y % WeekHours = y
      BY <1>1, <3>1, OnceAround
    <3> QED
      BY <3>1, <3>2, Zenon
  <2>4. day * DayHours + x = hour <=> day = Day /\ x = Minutes
    BY <1>1, <1>2, <2>1, RowUnique
  <2>5. x # Minutes + DayHours
    BY <1>1, <1>2, <1>4
  <2> QED
    BY <2>3, <2>4, <2>5
<1>5. CASE x >= DayHours
  <2>1. PICK r \in 0..(DayHours - 1) : r = x - DayHours /\ x = r + DayHours
    BY <1>1, <1>5
  <2>2. day * DayHours + x = (day + 1) * DayHours + r
    BY <1>1, <2>1
  <2>3. x # Minutes
    BY <1>1, <1>2, <1>5
  <2>4. CASE day + 1 < WeekDays
    <3>1. day + 1 \in DaysOfWeek /\ day + 1 \in Nat
      BY <1>1, <2>4 DEF DaysOfWeek
    <3>2. (day + 1) * DayHours + r \in 0..(WeekHours - 1)
      BY <3>1, InWeek
    <3>3. ((day + 1) * DayHours + r) % WeekHours = (day + 1) * DayHours + r
      <4>1. PICK y \in Nat : y = (day + 1) * DayHours + r /\ y < WeekHours
                            /\ y < WeekHours + WeekHours
        BY <1>1, <3>2
      <4>2. y % WeekHours = y
        BY <1>1, <4>1, OnceAround
      <4> QED
        BY <4>1, <4>2, Zenon
    <3>4. (day + 1) * DayHours + r = hour <=> day + 1 = Day /\ r = Minutes
      BY <1>1, <1>2, <3>1, RowUnique
    <3>5. day + 1 = Day <=> Yesterday(Day) = day
      BY <1>1, <1>2, <1>3, <2>4
    <3>6. r = Minutes <=> x = Minutes + DayHours
      BY <1>1, <1>2, <2>1
    <3> QED
      BY <2>2, <2>3, <3>3, <3>4, <3>5, <3>6
  <2>5. CASE day + 1 = WeekDays
    <3>1. (day + 1) * DayHours + r = WeekHours + r
      BY <1>1, <2>5 DEF WeekHours
    <3>2. 0 \in DaysOfWeek /\ 0 * DayHours + r = r
      BY <1>1 DEF DaysOfWeek
    <3>3. r \in 0..(WeekHours - 1)
      BY <3>2, InWeek
    <3>4. (WeekHours + r) % WeekHours = r
      BY <1>1, <3>3, OnceAround
    <3>5. r = hour <=> 0 = Day /\ r = Minutes
      BY <1>1, <1>2, <3>2, RowUnique
    <3>6. 0 = Day <=> Yesterday(Day) = day
      BY <1>1, <1>2, <1>3, <2>5
    <3>7. r = Minutes <=> x = Minutes + DayHours
      BY <1>1, <1>2, <2>1
    <3> QED
      BY <2>2, <2>3, <3>1, <3>4, <3>5, <3>6, <3>7
  <2> QED
    BY <1>1, <2>4, <2>5
<1> QED
  BY <1>1, <1>4, <1>5

-----------------------------------------------------------------------------
(* The window of a day.                                                    *)

\* How far after the start of its window the hour is, if it is on that day or the next.
LEMMA CoveredIs ==
  ASSUME hour \in 0..(WeekHours - 1), NEW day \in DaysOfWeek, WindowStartingOn(day) \in Windows
  PROVE  hour \in Covered(day) <=>
           LET w == WindowStartingOn(day) IN
           \/ /\ Day = day
              /\ \/ w.from < w.to /\ w.from <= Minutes /\ Minutes < w.to
                 \/ w.from > w.to /\ w.from <= Minutes
           \/ Yesterday(Day) = day /\ w.from > w.to /\ Minutes < w.to
<1>1. PICK w \in Windows : w = WindowStartingOn(day)
  OBVIOUS
<1>2. /\ DayHours \in Nat \ {0} /\ day \in Nat /\ Minutes \in 0..(DayHours - 1)
      /\ w.from \in 0..(DayHours - 1) /\ w.to \in 0..(DayHours - 1)
  BY WeekIs, DayIs DEF DaysOfWeek, Windows, Hours
<1>3. PICK length \in 0..(DayHours - 1) :
        /\ length = (w.to + DayHours - w.from) % DayHours
        /\ length = IF w.from <= w.to THEN w.to - w.from ELSE w.to + DayHours - w.from
  <2>1. PICK y \in Nat : y = w.to + DayHours - w.from /\ y < DayHours + DayHours
    BY <1>2
  <2>2. y % DayHours = IF y < DayHours THEN y ELSE y - DayHours
    BY <1>2, <2>1, OnceAround
  <2>3. PICK length \in Int : length = y % DayHours
    BY <1>2, <2>1, <2>2
  <2>4. length \in 0..(DayHours - 1)
        /\ length = IF w.from <= w.to THEN w.to - w.from ELSE w.to + DayHours - w.from
    BY <1>2, <2>1, <2>2, <2>3
  <2>5. length = (w.to + DayHours - w.from) % DayHours
    BY <2>1, <2>3
  <2> QED
    BY <2>4, <2>5
<1>4. Covered(day) =
        {(day * DayHours + w.from + n) % WeekHours : n \in 0..(DayHours - 1)}
          \ {(day * DayHours + w.from + n) % WeekHours : n \in length..(DayHours - 1)}
  BY <1>1, <1>3, Zenon DEF Covered, WeekHours
<1>5. ASSUME NEW n \in 0..(DayHours - 1)
      PROVE  (day * DayHours + w.from + n) % WeekHours = hour <=>
               \/ n = Minutes - w.from /\ Day = day
               \/ n = Minutes + DayHours - w.from /\ Yesterday(Day) = day
  <2>1. PICK x \in 0..(DayHours + DayHours - 1) : x = w.from + n
    BY <1>2
  <2>2. day * DayHours + w.from + n = day * DayHours + x
    BY <1>2, <2>1
  <2>3. (day * DayHours + x) % WeekHours = hour <=>
           \/ x = Minutes /\ Day = day
           \/ x = Minutes + DayHours /\ Yesterday(Day) = day
    BY HourAfter
  <2>4. /\ x = Minutes <=> n = Minutes - w.from
        /\ x = Minutes + DayHours <=> n = Minutes + DayHours - w.from
    BY <1>2, <2>1
  <2> QED
    BY <2>2, <2>3, <2>4
<1>6. \A n \in length..(DayHours - 1) : n \in 0..(DayHours - 1)
  BY <1>2, <1>3
<1>7. hour \in Covered(day) <=>
        /\ \E n \in 0..(DayHours - 1) : \/ n = Minutes - w.from /\ Day = day
                                        \/ n = Minutes + DayHours - w.from /\ Yesterday(Day) = day
        /\ ~\E n \in length..(DayHours - 1) :
              \/ n = Minutes - w.from /\ Day = day
              \/ n = Minutes + DayHours - w.from /\ Yesterday(Day) = day
  BY <1>4, <1>5, <1>6
<1>8. hour \in Covered(day) <=>
        \/ Day = day /\ w.from <= Minutes /\ Minutes - w.from < length
        \/ Yesterday(Day) = day /\ Minutes < w.from /\ Minutes + DayHours - w.from < length
  BY <1>2, <1>3, <1>7
<1>9. Minutes - w.from < length /\ w.from <= Minutes <=>
        \/ w.from < w.to /\ w.from <= Minutes /\ Minutes < w.to
        \/ w.from > w.to /\ w.from <= Minutes
  BY <1>2, <1>3
<1>10. Minutes < w.from /\ Minutes + DayHours - w.from < length <=>
         w.from > w.to /\ Minutes < w.to
  BY <1>2, <1>3
<1> QED
  BY <1>1, <1>8, <1>9, <1>10

LEMMA QuietAsWindows ==
  ASSUME QuietIInv
  PROVE  QuietAsSet
<1>1. hour \in 0..(WeekHours - 1) /\ \A day \in DaysOfWeek : WindowStartingOn(day) \in Windows
  BY DEF QuietIInv
<1>2. Day \in DaysOfWeek /\ Yesterday(Day) \in DaysOfWeek
  BY <1>1, DayIs, YesterdayIs
<1>3. (\E day \in DaysOfWeek : hour \in Covered(day)) <=>
        LET today == WindowStartingOn(Day)
            before == WindowStartingOn(Yesterday(Day))
        IN  \/ today.from < today.to /\ today.from <= Minutes /\ Minutes < today.to
            \/ today.from > today.to /\ today.from <= Minutes
            \/ before.from > before.to /\ Minutes < before.to
  <2> DEFINE OnDay(day) ==
               LET w == WindowStartingOn(day) IN
               \/ w.from < w.to /\ w.from <= Minutes /\ Minutes < w.to
               \/ w.from > w.to /\ w.from <= Minutes
             AfterIt(day) ==
               LET w == WindowStartingOn(day) IN w.from > w.to /\ Minutes < w.to
  <2>1. \A day \in DaysOfWeek :
          hour \in Covered(day) <=> (Day = day /\ OnDay(day)) \/ (Yesterday(Day) = day /\ AfterIt(day))
    BY <1>1, CoveredIs
  <2> HIDE DEF OnDay, AfterIt
  <2>2. (\E day \in DaysOfWeek : hour \in Covered(day)) <=> OnDay(Day) \/ AfterIt(Yesterday(Day))
    BY <1>2, <2>1, Zenon
  <2> QED
    BY <2>2, Zenon DEF OnDay, AfterIt
<1> QED
  BY <1>3, Zenon DEF QuietAsSet, IsQuietNow, DaysOfWeek

LEMMA QuietBegins ==
  ASSUME QuietInit
  PROVE  QuietIInv
<1>1. hour \in 0..(WeekHours - 1)
  BY WeekIs DEF QuietInit
<1>2. quietHours.default \in Windows
      /\ \A day \in DOMAIN quietHours.days : quietHours.days[day] \in Windows
  <2>1. CASE quietHours = NoQuietHours
    BY <2>1, WeekIs DEF NoQuietHours, NoWindow, Windows, Hours
  <2>2. CASE quietHours \in [enabled : {TRUE}, default : Windows, days : Overridden]
    <3>1. quietHours.default \in Windows /\ quietHours.days \in Overridden
      BY <2>2
    <3>2. PICK D : quietHours.days \in [D -> Windows]
      BY <3>1 DEF Overridden
    <3> QED
      BY <3>1, <3>2
  <2> QED
    BY <2>1, <2>2 DEF QuietInit
<1> QED
  BY <1>1, <1>2 DEF QuietIInv, WindowStartingOn

LEMMA QuietStep ==
  ASSUME QuietIInv, [QuietNext]_quietVars
  PROVE  QuietIInv'
<1>1. quietHours' = quietHours
  BY DEF QuietNext, HourPasses, quietVars
<1>2. hour' \in 0..(WeekHours - 1)
  <2>1. CASE hour' = hour
    BY <2>1 DEF QuietIInv
  <2>2. CASE hour' = (hour + 1) % WeekHours
    <3>1. hour + 1 \in Nat
      BY WeekIs DEF QuietIInv
    <3> QED
      BY <2>2, <3>1, WeekIs, DivMod
  <2> QED
    BY <2>1, <2>2 DEF QuietNext, HourPasses, quietVars, WeekHours
<1> QED
  BY <1>1, <1>2 DEF QuietIInv, WindowStartingOn

-----------------------------------------------------------------------------
(* The notices.                                                            *)

NoticesIInv == PushIInv /\ DeliveryIInv /\ QuietIInv

\* A step of the whole is one of the pushes, of the sends and of the clock, or
\* leaves them as they are.
LEMMA NoticeParts ==
  ASSUME [NetworkNext]_networkVars
  PROVE  [PushNext]_pushVars /\ [DeliveryNext]_deliveryVars /\ [QuietNext]_quietVars
<1>1. CASE UNCHANGED networkVars
  BY <1>1, Zenon DEF networkVars, noticeGroup
<1>2. CASE NetworkNext
  <2>1. \/ PushNext /\ UNCHANGED <<deliveryVars, quietVars>>
        \/ DeliveryNext /\ UNCHANGED <<pushVars, quietVars>>
        \/ QuietNext /\ UNCHANGED <<pushVars, deliveryVars>>
        \/ UNCHANGED noticeGroup
    BY <1>2, Zenon DEF NetworkNext
  <2> QED
    BY <2>1, Zenon DEF noticeGroup
<1> QED
  BY <1>1, <1>2, Zenon

LEMMA NoticesStep == NoticesIInv /\ [NetworkNext]_networkVars => NoticesIInv'
<1> SUFFICES ASSUME NoticesIInv, [NetworkNext]_networkVars
             PROVE  NoticesIInv'
  OBVIOUS
<1>1. [PushNext]_pushVars /\ [DeliveryNext]_deliveryVars /\ [QuietNext]_quietVars
  BY NoticeParts
<1>2. PushIInv /\ DeliveryIInv /\ QuietIInv
  BY DEF NoticesIInv
<1>3. PushIInv'
  BY <1>1, <1>2, PushStep
<1>4. DeliveryIInv'
  BY <1>1, <1>2, DeliveryStep
<1>5. QuietIInv'
  BY <1>1, <1>2, QuietStep
<1> QED
  BY <1>3, <1>4, <1>5, Zenon DEF NoticesIInv

\* What a phone is told and when: a turn is reported finished at most once, and only
\* while its end stands (waitingInputNotifier.ts); a registered activity is renewed at
\* most once, whatever ticks, registrations and restarts lie between, and counts as open
\* only while its turn runs (liveActivityNotifier.ts, liveActivityRenewal.ts); a send
\* posts every row it began with once, a streak is the token's own, only a dead app's
\* token is revoked, and an erased device keeps none but what came late
\* (expoPushSender.ts, push.repository.ts); it is quiet exactly while a window runs that
\* began today or yesterday (isQuietNow, notificationPrefs.ts).
THEOREM NoticesHold == NetworkSpec => []NoticesInv
<1>1. NetworkInit => NoticesIInv
  BY PushBegins, DeliveryBegins, QuietBegins DEF NetworkInit, NoticesIInv
<1>2. NoticesIInv /\ [NetworkNext]_networkVars => NoticesIInv'
  BY NoticesStep
<1>3. NoticesIInv => NoticesInv
  BY PushImplies, DeliveryImplies, QuietAsWindows
     DEF NoticesIInv, NoticesInv, QuietInv
<1> QED
  BY <1>1, <1>2, <1>3, PTL DEF NetworkSpec
=============================================================================
