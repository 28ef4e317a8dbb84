------------------------------ MODULE Pairing ------------------------------
(***************************************************************************)
(* How a device becomes known: the one live pair token                     *)
(* (src/src/pair-store.ts), the exchange that spends it                    *)
(* (handlePairExchange in src/src/server.ts) and the device registry.      *)
(*                                                                         *)
(* Cryptography is symbolic: a message 1 authenticates iff its sender has  *)
(* scanned the token that keys it.  Every phone has its static key from    *)
(* the start.  An answer may be lost, so a phone may send again whatever   *)
(* the server made of its last request.                                    *)
(***************************************************************************)
EXTENDS Integers

CONSTANTS
  Phones,
  Exchanges,       \* requests to /api/pair/exchange
  MaxTokens,       \* tokens minted
  Attempts,        \* exchanges in a minute
  MaxPairFaults    \* restarts, removals, and times the registry is gone

ASSUME PairingAssumption == Attempts \in Nat \ {0} /\ MaxTokens \in Nat /\ MaxPairFaults \in Nat

VARIABLES
  pairToken,        \* the pair token: [no, used, old]
  minted,
  scanned,     \* phone -> the token it scanned
  exchange,    \* request whose body is being read -> [phone, kind, token]
  charges,    \* exchanges of the last minute
  device,      \* phone -> its row, which is found by its static key
  toldPaired,        \* phones that have been told they are paired, since their row was removed
  paired,      \* token -> registrations under it
  pairFaults   \* bound

pairingVars == <<pairToken, minted, scanned, exchange, charges, device, toldPaired, paired, pairFaults>>

NoPhone == "none"
NoToken == [no |-> 0, used |-> FALSE, old |-> FALSE]
NoExchange == [phone |-> NoPhone, kind |-> "direct", token |-> 0]
NoDevice == [st |-> "absent", pinned |-> FALSE]
Tokens == 1..MaxTokens
\* By the sealed key alone, by a handshake, by one over the relay, and over the relay by a
\* client that sends the token along.
Kinds == {"legacy", "direct", "relay", "leaky"}

PairingInit ==
  /\ pairToken = NoToken /\ minted = 0 /\ scanned = [p \in Phones |-> 0]
  /\ exchange = [q \in Exchanges |-> NoExchange] /\ charges = 0
  /\ device = [p \in Phones |-> NoDevice] /\ toldPaired = {}
  /\ paired = [t \in Tokens |-> 0] /\ pairFaults = 0

\* Mutant: a token that has been used is good until it expires.
UsableTwice(t) == pairToken.no = t /\ t # 0 /\ ~pairToken.old

\* check of the token store: what wouldConsume and consume go by.
Usable(t) == pairToken.no = t /\ t # 0 /\ ~pairToken.old /\ ~pairToken.used
-----------------------------------------------------------------------------
(* The pair token                                                          *)

\* handlePairStart: a new token replaces the one before it, whatever became of that.
Mint ==
  /\ minted < MaxTokens /\ minted' = minted + 1
  /\ pairToken' = [NoToken EXCEPT !.no = minted + 1]
  /\ UNCHANGED <<scanned, exchange, charges, device, toldPaired, paired, pairFaults>>

Scan(p) ==
  /\ pairToken.no # 0 /\ scanned' = [scanned EXCEPT ![p] = pairToken.no]
  /\ UNCHANGED <<pairToken, minted, exchange, charges, device, toldPaired, paired, pairFaults>>

\* The token's time is up; the sweep forgets it.
Expire ==
  /\ pairToken.no # 0 /\ pairToken' = IF pairToken.old THEN NoToken ELSE [pairToken EXCEPT !.old = TRUE]
  /\ UNCHANGED <<minted, scanned, exchange, charges, device, toldPaired, paired, pairFaults>>
-----------------------------------------------------------------------------
(* The exchange                                                            *)

\* The attempt is charged before the body is read.
ExchangeArrives(q, p, kind) ==
  /\ exchange[q] = NoExchange /\ scanned[p] # 0
  /\ charges < Attempts /\ charges' = charges + 1
  /\ exchange' = [exchange EXCEPT ![q] = [phone |-> p, kind |-> kind, token |-> scanned[p]]]
  /\ UNCHANGED <<pairToken, minted, scanned, device, toldPaired, paired, pairFaults>>

Regain ==
  /\ charges > 0 /\ charges' = charges - 1
  /\ UNCHANGED <<pairToken, minted, scanned, exchange, device, toldPaired, paired, pairFaults>>

\* The rest of handlePairExchange runs without a break.
ExchangeEnds(q) ==
  /\ exchange[q] # NoExchange /\ exchange' = [exchange EXCEPT ![q] = NoExchange]
  /\ UNCHANGED <<minted, scanned, charges>>

\* A token that the relay has seen is dead.
Leaked(q) ==
  /\ ExchangeEnds(q) /\ exchange[q].kind = "leaky"
  /\ pairToken' = IF pairToken.no = exchange[q].token THEN NoToken ELSE pairToken
  /\ UNCHANGED <<device, toldPaired, paired, pairFaults>>

\* An unusable token, a message 1 keyed with another token than the live one, or a bad
\* payload or key: nothing is spent.  An expired token is forgotten.
Refused(q) ==
  /\ ExchangeEnds(q) /\ exchange[q].kind # "leaky"
  /\ pairToken' = IF pairToken.old /\ (pairToken.no = exchange[q].token \/ exchange[q].kind = "relay") THEN NoToken
             ELSE pairToken
  /\ UNCHANGED <<device, toldPaired, paired, pairFaults>>

\* register: the row of a static key is written anew and is live again; a legacy pairing
\* adds a row of its own, which is not looked at here.
RowOf(x) ==
  IF x.kind = "legacy" THEN device
  ELSE [device EXCEPT ![x.phone] = [st |-> "live", pinned |-> TRUE]]

\* The token is spent when all that can fail on the client's input has passed.
Spend(q) ==
  /\ ExchangeEnds(q) /\ exchange[q].kind # "leaky" /\ Usable(exchange[q].token)
  /\ pairToken' = [pairToken EXCEPT !.used = TRUE]
  /\ paired' = [paired EXCEPT ![exchange[q].token] = @ + 1]

\* A message 2 that could not be written, or an answer that is lost, tells the phone
\* nothing of its row.
Register(q) ==
  /\ Spend(q) /\ device' = RowOf(exchange[q])
  /\ toldPaired' \in {toldPaired, toldPaired \union {exchange[q].phone}}
  /\ exchange[q].kind = "legacy" => toldPaired' = toldPaired
  /\ UNCHANGED pairFaults

\* An encrypted pairing that cannot be registered fails; a legacy one goes on without a row.
RegisterFails(q) ==
  /\ Spend(q) /\ pairFaults < MaxPairFaults /\ pairFaults' = pairFaults + 1
  /\ UNCHANGED <<device, toldPaired>>
-----------------------------------------------------------------------------
\* POST /:id/revoke, and DELETE /:id of a revoked device or with force.
Unpair(p, row) ==
  /\ pairFaults < MaxPairFaults /\ pairFaults' = pairFaults + 1
  /\ device[p] # NoDevice /\ device' = [device EXCEPT ![p] = row] /\ toldPaired' = toldPaired \ {p}
  /\ UNCHANGED <<pairToken, minted, scanned, exchange, charges, paired>>

\* Only the devices survive a restart.
PairingRestart ==
  /\ pairFaults < MaxPairFaults /\ pairFaults' = pairFaults + 1
  /\ pairToken' = NoToken /\ exchange' = [q \in Exchanges |-> NoExchange] /\ charges' = 0
  /\ UNCHANGED <<minted, scanned, device, toldPaired, paired>>

PairingNext ==
  \/ Mint \/ Expire \/ Regain \/ PairingRestart
  \/ \E p \in Phones :
       \/ Scan(p) \/ Unpair(p, NoDevice)
       \/ Unpair(p, [device[p] EXCEPT !.st = "revoked"])
  \/ \E q \in Exchanges :
       \/ \E p \in Phones, kind \in Kinds : ExchangeArrives(q, p, kind)
       \/ Leaked(q) \/ Refused(q) \/ Register(q) \/ RegisterFails(q)

PairingSpec == PairingInit /\ [][PairingNext]_pairingVars
-----------------------------------------------------------------------------
PairingTypeOK ==
  /\ pairToken.no \in 0..MaxTokens /\ scanned \in [Phones -> 0..MaxTokens]
  /\ charges \in 0..Attempts
  /\ \A p \in Phones : device[p].st \in {"absent", "live", "revoked"}

\* Two devices that scan one code, or one that sends its request twice: a pair token
\* registers once, however the exchanges interleave with new codes and restarts.
TokenPairsOnce == \A t \in Tokens : paired[t] <= 1

\* A device that was told it is paired has a row, and plaintext is refused it, whatever it,
\* another phone with the same code or an old client does afterwards.
PairedIsPinned == \A p \in toldPaired : device[p] = [st |-> "live", pinned |-> TRUE]

PairingInv == PairingTypeOK /\ TokenPairsOnce /\ PairedIsPinned
=============================================================================
