----------------------------- MODULE RestChannel -----------------------------
(***************************************************************************)
(* The sealed REST channel of one E2EE context: the receive window that    *)
(* judges an authenticated counter (src/src/e2ee/rest-window.ts), the      *)
(* sealer that owes it one response (RestResponseSealer in                 *)
(* src/src/e2ee/record.ts), and the middleware that runs a request between *)
(* the two (src/src/api/middleware/e2ee-envelope.middleware.ts).           *)
(*                                                                         *)
(* Node runs each block between two awaits to completion, so an action is  *)
(* one such block: the header rungs up to the body read, the unseal with   *)
(* the checks behind it, the handler's end().  The network may lose,       *)
(* reorder and repeat the client's frames, so a request may carry any      *)
(* counter at any time.                                                    *)
(***************************************************************************)
EXTENDS Integers, FiniteSets

CONSTANTS
  Width,        \* counters either bitmap remembers (1024 in the code)
  MaxCounter,   \* bound: the highest counter a client reaches
  Requests      \* requests the server may be running at once

ASSUME WidthAssumption == Width \in Nat \ {0}
ASSUME MaxCounterAssumption == MaxCounter \in Nat

VARIABLES
  seenBits,            \* positions of the receive window that are set
  highWater,           \* highest counter the window admitted, -1 for none
  answeredBits,        \* positions of the sealer's bitmap that are set
  acceptedHighWater,   \* highest counter the sealer accepted, -1 for none
  outstanding,         \* counters accepted and not yet answered
  contextLive,         \* the context is registered and keeps its keys
  request,             \* where each request is, and its counter
  admits,              \* history: times each counter was admitted
  records              \* history: records sealed under each counter

windowVars == <<seenBits, highWater>>
sealerVars == <<answeredBits, acceptedHighWater, outstanding>>
restVars == <<windowVars, sealerVars, contextLive, request, admits, records>>

Counters == 0..MaxCounter
Positions == 0..(Width - 1)
Idle == [phase |-> "idle", counter |-> 0]

RestTypeOK ==
  /\ seenBits \in SUBSET Positions
  /\ answeredBits \in SUBSET Positions
  /\ highWater \in -1..MaxCounter
  /\ acceptedHighWater \in -1..MaxCounter
  /\ outstanding \in SUBSET Counters
  /\ contextLive \in BOOLEAN
  /\ request \in [Requests -> [phase : {"idle", "body", "handling", "ended"},
                               counter : Counters]]
  /\ admits \in [Counters -> Nat]
  /\ records \in [Counters -> Nat]

RestInit ==
  /\ seenBits = {} /\ highWater = -1
  /\ answeredBits = {} /\ acceptedHighWater = -1 /\ outstanding = {}
  /\ contextLive = TRUE
  /\ request = [r \in Requests |-> Idle]
  /\ admits = [c \in Counters |-> 0]
  /\ records = [c \in Counters |-> 0]

-----------------------------------------------------------------------------
(* The arithmetic both bitmaps share: bits are indexed modulo the width,   *)
(* and a slide clears every position it newly covers.                      *)

Bit(c) == c % Width

BelowWindow(c, high) == high >= 0 /\ c + Width <= high

Covered(high, c) ==
  IF high < 0 \/ c - high >= Width
  THEN Positions
  ELSE {Bit(k) : k \in (high + 1)..c}

\* Mutant: The bit read without the range test in front of it.
AdmitsByBit(c) == c > highWater \/ Bit(c) \notin seenBits

\* The receive window: a counter above the mark is new; below the window it
\* cannot be judged; inside it the bit decides.
Admits(c) ==
  \/ c > highWater
  \/ ~BelowWindow(c, highWater) /\ Bit(c) \notin seenBits

Admit(c) ==
  /\ highWater' = IF c > highWater THEN c ELSE highWater
  /\ seenBits' = {Bit(c)} \cup (IF c > highWater
                                THEN seenBits \ Covered(highWater, c)
                                ELSE seenBits)
  /\ admits' = [admits EXCEPT ![c] = @ + 1]

\* The sealer: it re-tests the range itself, because above its mark a bit
\* still belongs to the counter one width earlier.
IsAnswered(c) ==
  /\ c <= acceptedHighWater
  /\ ~BelowWindow(c, acceptedHighWater)
  /\ Bit(c) \in answeredBits

Accepts(c) ==
  /\ c \notin outstanding
  /\ ~BelowWindow(c, acceptedHighWater)
  /\ ~IsAnswered(c)

AdvancedMark(c) == IF c > acceptedHighWater THEN c ELSE acceptedHighWater

AdvancedBits(c) ==
  IF c > acceptedHighWater
  THEN answeredBits \ Covered(acceptedHighWater, c)
  ELSE answeredBits

\* Mutant: Dropping a pending counter one position too early.
ArmedTooFew(c) ==
  {c} \cup {p \in outstanding : ~BelowWindow(p, AdvancedMark(c) + 1)}

\* Pending counters that slid out of the window are dropped.
Armed(c) ==
  {c} \cup {p \in outstanding : ~BelowWindow(p, AdvancedMark(c))}

-----------------------------------------------------------------------------
(* The middleware.                                                         *)

\* Rungs 1 to 7: the registry still holds the context when the headers are
\* read; the body is then awaited.  A request that finds no context is
\* refused in the clear and leaves nothing behind.
Arrive(r, c) ==
  /\ contextLive
  /\ request[r].phase = "idle"
  /\ request' = [request EXCEPT ![r] = [phase |-> "body", counter |-> c]]
  /\ UNCHANGED <<windowVars, sealerVars, contextLive, admits, records>>

\* A context destroyed during the body read refuses before its window is
\* consulted; a counter the window refuses commits nothing.  Either answer
\* is a plaintext one.
Refuse(r) ==
  /\ request[r].phase = "body"
  /\ ~contextLive \/ ~Admits(request[r].counter)
  /\ request' = [request EXCEPT ![r] = Idle]
  /\ UNCHANGED <<windowVars, sealerVars, contextLive, admits, records>>

\* Whether the counter may still be sealed under: the first end() of the
\* request, a live context, an acceptance nobody spent.
MaySeal(spent, c, armed) == ~spent /\ contextLive /\ c \in armed

\* Seal the one response owed for c, given what is armed and answered at
\* that point of the step, or answer a plaintext 500 if it may not be.  The
\* answered bit is set before the record exists.
SealOnce(spent, c, armed, bits) ==
  IF MaySeal(spent, c, armed)
  THEN /\ outstanding' = armed \ {c}
       /\ answeredBits' = bits \cup {Bit(c)}
       /\ records' = [records EXCEPT ![c] = @ + 1]
  ELSE /\ outstanding' = armed
       /\ answeredBits' = bits
       /\ UNCHANGED records

\* What comes of the context's device and its capabilities; then of X-TB-Seq.
ContextVerdicts == {"served", "refused", "revoked"}
Verdicts == ContextVerdicts \cup {"misnumbered"}

\* A refusal behind the acceptance is owed a sealed answer.
RefusesSealed(verdict) == verdict \in ContextVerdicts \ {"served"}

\* Rungs 8 to 13 in one uninterrupted turn: unseal, admit, accept, then one
\* of: the X-TB-Seq header names another counter (plaintext refusal, the
\* acceptance stays unspent); the context's device may not have what it
\* asks (sealed refusal, and a revoked device's context is destroyed after
\* the seal); the handler starts.
Unseal(r, verdict) ==
  LET c == request[r].counter
      armed == Armed(c)
      bits == AdvancedBits(c)
  IN  /\ request[r].phase = "body"
      /\ contextLive
      /\ Admits(c)
      /\ Admit(c)
      /\ IF ~Accepts(c)
         THEN /\ request' = [request EXCEPT ![r] = Idle]
              /\ UNCHANGED <<sealerVars, contextLive, records>>
         ELSE /\ acceptedHighWater' = AdvancedMark(c)
              /\ IF RefusesSealed(verdict)
                 THEN SealOnce(FALSE, c, armed, bits)
                 ELSE /\ outstanding' = armed
                      /\ answeredBits' = bits
                      /\ UNCHANGED records
              /\ request' = [request EXCEPT ![r] =
                               IF verdict = "served"
                               THEN [phase |-> "handling", counter |-> c]
                               ELSE Idle]
              /\ contextLive' = (verdict /= "revoked")

\* The handler ends its response for the first time.
Respond(r) ==
  /\ request[r].phase = "handling"
  /\ SealOnce(FALSE, request[r].counter, outstanding, answeredBits)
  /\ request' = [request EXCEPT ![r].phase = "ended"]
  /\ UNCHANGED <<windowVars, acceptedHighWater, contextLive, admits>>

\* A direct-write route is ended again by the server adapter, or its handler
\* threw after it had answered: the request's seal is already spent.
EndAgain(r) ==
  /\ request[r].phase = "ended"
  /\ SealOnce(TRUE, request[r].counter, outstanding, answeredBits)
  /\ request' = [request EXCEPT ![r] = Idle]
  /\ UNCHANGED <<windowVars, acceptedHighWater, contextLive, admits>>

\* Expiry, a cap eviction whose drain has passed, a revocation: the context
\* leaves the registry and its keys are gone, whatever runs on it.
DestroyContext ==
  /\ contextLive
  /\ contextLive' = FALSE
  /\ UNCHANGED <<windowVars, sealerVars, request, admits, records>>

\* The client opens another context: new keys, a new window, a new sealer.
\* Bound: it does so once the requests of the old one are over.
ReopenContext ==
  /\ ~contextLive
  /\ \A r \in Requests : request[r] = Idle
  /\ seenBits' = {} /\ highWater' = -1
  /\ answeredBits' = {} /\ acceptedHighWater' = -1 /\ outstanding' = {}
  /\ contextLive' = TRUE
  /\ admits' = [c \in Counters |-> 0]
  /\ records' = [c \in Counters |-> 0]
  /\ UNCHANGED request


RestNext ==
  \/ \E r \in Requests :
       \/ \E c \in Counters : Arrive(r, c)
       \/ Refuse(r)
       \/ \E v \in Verdicts : Unseal(r, v)
       \/ Respond(r)
       \/ EndAgain(r)
  \/ DestroyContext
  \/ ReopenContext

RestSpec == RestInit /\ [][RestNext]_restVars

-----------------------------------------------------------------------------
(* Properties.                                                             *)

\* A nonce is (key, counter): no counter of a context ever has two records
\* sealed under it, however requests repeat, overlap and end.
OneRecordPerCounter == \A c \in Counters : records[c] <= 1

\* The two bitmaps stay in step: whatever the window would admit, the sealer
\* can still answer (accept() after admit() never throws), so no accepted
\* request is one that can never be answered.
AdmittedIsAnswerable == \A c \in Counters : Admits(c) => Accepts(c)

\* A counter never seen, and not yet out of the window, is admitted: a slide
\* leaves no stale bit that would refuse it as the replay of another one.
FreshIsAdmissible ==
  \A c \in Counters :
    admits[c] = 0 /\ ~BelowWindow(c, highWater) => Admits(c)

\* A request being served still has its seal armed unless a whole window of
\* newer requests has passed it: concurrent requests never spend or drop
\* each other's answer.
OwedIsArmed ==
  \A r \in Requests :
    LET c == request[r].counter
    IN  request[r].phase = "handling" /\ ~BelowWindow(c, acceptedHighWater)
        => c \in outstanding

\* What is fresh is taken, what was taken can be answered, and stays so while it
\* is served.
RestInv == RestTypeOK /\ AdmittedIsAnswerable /\ FreshIsAdmissible /\ OwedIsArmed

\* What the channel promises whatever its bitmaps do: each counter is taken
\* at most once and answered at most once, and only after it was taken.
Guard == INSTANCE ReplayGuard WITH taken <- admits, answered <- records
ImplementsReplayGuard == Guard!Spec
=============================================================================
