------------------------------ MODULE Handshake -----------------------------
(***************************************************************************)
(* The handshakes of pairing (IKpsk1) and of /api/e2ee/open (IK), and the  *)
(* records sealed under the keys they yield (noise.ts, record.ts).         *)
(*                                                                         *)
(* Cryptography is symbolic: a chaining key and a transcript hash are the  *)
(* sequences of what was mixed into them, a ciphertext opens under exactly *)
(* the key, the nonce and the data it was sealed under.  Requests and      *)
(* responses may be retried, or reach another server, route or handshake   *)
(* of the phone; records may be lost, repeated or reordered on their way.  *)
(* Left out: sizes and encodings, and the redaction of keys in logs.  The  *)
(* window of REST counters is RestChannel's; here a counter is taken once. *)
(***************************************************************************)
EXTENDS Integers, Sequences, FiniteSets, SequencesExt

CONSTANTS
  Clients,     \* phones, each with its static key
  Servers,     \* servers, each with its static key and its pair token
  RequestLines, \* of REST requests
  MaxStarted,  \* handshakes begun, as a bound
  MaxAnswered, \* first messages answered, as a bound
  MaxCounter   \* MAX_COUNTER: a state seals this many records

VARIABLES
  started,   \* the handshakes of phones, as they were begun
  answered,  \* the handshakes of servers, as they were answered
  frames,    \* every record sealed
  taken      \* the records each end has unsealed, in order

handshakeVars == <<started, answered, frames, taken>>

-----------------------------------------------------------------------------
(* CipherState and SymmetricState.  Everything mixed is tagged.            *)

Name(pattern) == <<"name", pattern>>
Public(key) == <<"public", key>>
Dh(key1, key2) == <<"dh", {key1, key2}>>
Psk(token) == <<"psk", token>>

Initialised(pattern) ==
  [h |-> <<Name(pattern)>>, ck |-> <<Name(pattern)>>, n |-> 0]

MixHash(s, data) == [s EXCEPT !.h = Append(@, data)]
MixKey(s, ikm) == [s EXCEPT !.ck = Append(@, ikm), !.n = 0]
MixKeyAndHash(s, ikm) == MixHash(MixKey(s, ikm), <<"tempH", ikm>>)

Sealed(s, plaintext) == [ad |-> s.h, key |-> s.ck, n |-> s.n, text |-> plaintext]
OpensWith(s, c) == c.ad = s.h /\ c.key = s.ck /\ c.n = s.n

(* The hash takes the ciphertext; the nonce advances on success only.      *)
Mixed(s, c) == [MixHash(s, <<"sealed", c.key, c.n, c.text>>) EXCEPT !.n = @ + 1]

(* Split: the first key is the initiator's, whichever side calls.          *)
Keys(s) == [clientToServer |-> <<"k1", s.ck>>, serverToClient |-> <<"k2", s.ck>>,
            handshakeHash |-> s.h]
NoKeys == [clientToServer |-> <<>>, serverToClient |-> <<>>, handshakeHash |-> <<>>]

-----------------------------------------------------------------------------
(* The two messages.  A pattern has its prologue, and the pairing one its  *)
(* psk: the token of the server it goes to.                                *)

Patterns == {"IKpsk1", "IK"}
Prologue(pattern) == IF pattern = "IKpsk1" THEN "pair" ELSE "open"

(* Both sides up to `es`, and from the initiator's static key on.          *)
Opening(pattern, rs, e) ==
  LET s == MixHash(MixHash(Initialised(pattern), <<"prologue", Prologue(pattern)>>),
                   Public(rs))
  IN  MixKey(MixKey(MixHash(s, Public(e)), Public(e)), Dh(e, rs))
Identified(s, pattern, static, rs) ==
  IF pattern = "IKpsk1" THEN MixKeyAndHash(MixKey(s, Dh(static, rs)), Psk(rs))
  ELSE MixKey(s, Dh(static, rs))

Message1(pattern, rs, e, static, payload) ==
  LET opening == Opening(pattern, rs, e)
      sealedStatic == Sealed(opening, static)
      s == Identified(Mixed(opening, sealedStatic), pattern, static, rs)
      body == Sealed(s, payload)
  IN  [e |-> e, static |-> sealedStatic, body |-> body, sym |-> Mixed(s, body)]

(* The half-completed responder, or the refusal.                           *)
Responder(pattern, server, msg) ==
  LET opening == Opening(pattern, server, msg.e)
      static == msg.static.text
      s == Identified(Mixed(opening, msg.static), pattern, static, server)
  IN  [ok |-> OpensWith(opening, msg.static) /\ OpensWith(s, msg.body),
       static |-> static, payload |-> msg.body.text, e |-> msg.e,
       sym |-> Mixed(s, msg.body)]

(* `e`, `ee` and `se`; the initiator's static key against the fresh one.   *)
Answering(s, e, re, static) ==
  MixKey(MixKey(MixKey(MixHash(s, Public(e)), Public(e)), Dh(e, re)), Dh(e, static))

-----------------------------------------------------------------------------
(* Phones and servers.  Ephemeral keys are fresh: numbered in the order    *)
(* they are made, the phones' even and the servers' odd.                   *)

HandshakeInit == started = <<>> /\ answered = <<>> /\ frames = {} /\ taken = <<>>

\* Bound: which phone and which server meet first makes no difference.
FirstPhone == CHOOSE p \in Clients : TRUE
FirstServer == CHOOSE v \in Servers : TRUE

WriteMessage1 ==
  /\ Len(started) < MaxStarted
  /\ \E phone \in Clients, server \in Servers, pattern \in Patterns :
       LET id == Len(started) + 1
           msg == Message1(pattern, server, 2 * id, phone, id)
       IN  /\ id = 1 => phone = FirstPhone /\ server = FirstServer
           /\ started' = Append(started,
                [phone |-> phone, server |-> server, pattern |-> pattern, msg |-> msg,
                 sym |-> msg.sym, tries |-> 0, keys |-> NoKeys, ctx |-> 0])
  /\ UNCHANGED <<answered, frames, taken>>

(* A request reaches a route of a server: the one of its pattern answers   *)
(* with a fresh key and a fresh context, whose handle its payload tells.   *)
(* Pairing keeps no keys.  Request and response are one synchronous step.  *)
(* Mutant: the responder's ephemeral is pinned (read off a default).      *)
PinnedEphemeral(id) == 3

FreshEphemeral(id) == 2 * id + 1

(* The states of a new context: nothing unsealed by either end.            *)
NothingTaken == [phone |-> <<>>, server |-> <<>>]

Respond ==
  /\ Len(answered) < MaxAnswered
  /\ \E i \in DOMAIN started, server \in Servers, pattern \in Patterns :
       LET r == Responder(pattern, server, started[i].msg)
           id == Len(answered) + 1
           e == FreshEphemeral(id)
           s == Answering(r.sym, e, r.e, r.static)
           body == Sealed(s, id)
       IN  /\ r.ok
           /\ answered' = Append(answered,
                [server |-> server, pattern |-> pattern, static |-> r.static,
                 request |-> r.payload, msg |-> [e |-> e, body |-> body],
                 keys |-> Keys(Mixed(s, body))])
           /\ taken' = Append(taken, NothingTaken)
  /\ UNCHANGED <<started, frames>>

(* The phone reads a second message.  Its state has moved by then, so one  *)
(* that does not open ends the handshake: no later one opens either.       *)
ReadMessage2 ==
  /\ \E i \in DOMAIN started, r \in DOMAIN answered :
       LET hs == started[i]
           msg == answered[r].msg
           s == Answering(hs.sym, msg.e, hs.msg.e, hs.phone)
       IN  /\ hs.phone = answered[r].static
           /\ hs.keys = NoKeys /\ hs.tries < 2
           /\ started' = [started EXCEPT
                ![i] = IF OpensWith(s, msg.body)
                       THEN [hs EXCEPT !.keys = Keys(Mixed(s, msg.body)), !.ctx = msg.body.text]
                       ELSE [hs EXCEPT !.sym = s, !.tries = @ + 1]]
  /\ UNCHANGED <<answered, frames, taken>>

-----------------------------------------------------------------------------
(* The records of a context: answered[ctx] on the server, the handshake    *)
(* that was told the handle on the phone.                                  *)

(* The target a REST record is bound to, hashed from its request line; a   *)
(* socket's record has none.                                               *)
RestTargetHash(line) == <<"target", line>>
NoTarget == <<"none">>
Direction(end) == IF end = "phone" THEN "c2s" ELSE "s2c"
Other(end) == IF end = "phone" THEN "server" ELSE "phone"
ChannelTargets(channel) == IF channel = "ws" THEN {NoTarget}
                           ELSE {RestTargetHash(line) : line \in RequestLines}

(* The keys an end holds for a context.                                    *)
Held(end, ctx) ==
  IF end = "server" THEN {answered[ctx].keys}
  ELSE {started[i].keys : i \in {k \in DOMAIN started : started[k].ctx = ctx}}
KeyOf(keys, direction) ==
  IF direction = "c2s" THEN keys.clientToServer ELSE keys.serverToClient

Contexts == {r \in DOMAIN answered : answered[r].pattern = "IK"}
Sent(end, ctx, channel) ==
  {f \in frames : f.ctx = ctx /\ f.direction = Direction(end) /\ f.channel = channel}

(* A record: its header and target, all of them authenticated, and the key *)
(* it is sealed under.                                                     *)
Record(end, ctx, channel, n, keys, target) ==
  [ctx |-> ctx, direction |-> Direction(end), channel |-> channel, counter |-> n,
   key |-> KeyOf(keys, Direction(end)), target |-> target]

(* seal: the counter is the number of records sealed so far.  A socket     *)
(* has two directions; REST requests go one way.                           *)
Seal ==
  /\ \E end \in {"phone", "server"}, ctx \in Contexts, channel \in {"ws", "rest"} :
       LET n == Cardinality(Sent(end, ctx, channel))
       IN  /\ channel = "rest" => end = "phone"
           \* A context is of one kind.
           /\ \A f \in frames : f.ctx = ctx => f.channel = channel
           /\ n < MaxCounter
           /\ \E keys \in Held(end, ctx), target \in ChannelTargets(channel) :
                frames' = frames \cup {Record(end, ctx, channel, n, keys, target)}
  /\ UNCHANGED <<started, answered, taken>>

(* openFrame: addressed to the context, in its direction and channel, and  *)
(* sealed under its key for the request line it came with.                 *)
OpenFrame(end, ctx, channel, f, target) ==
  /\ f.ctx = ctx
  /\ f.direction = Direction(Other(end))
  /\ f.channel = channel
  /\ \E keys \in Held(end, ctx) : f.key = KeyOf(keys, Direction(Other(end)))
  /\ f.target = target

(* A socket takes the counter it expects and no other; REST takes any, but *)
(* none twice.  A record refused changes nothing.                          *)
InSequence(got, f) ==
  IF f.channel = "ws" THEN f.counter = Len(got)
  ELSE \A k \in DOMAIN got : got[k].counter # f.counter

Unseal ==
  /\ \E end \in {"phone", "server"}, ctx \in Contexts, f \in frames :
       \E target \in ChannelTargets(f.channel) :
         /\ OpenFrame(end, ctx, f.channel, f, target)
         /\ InSequence(taken[ctx][end], f)
         /\ taken' = [taken EXCEPT ![ctx][end] = Append(@, [f EXCEPT !.target = target])]
  /\ UNCHANGED <<started, answered, frames>>

HandshakeNext == WriteMessage1 \/ Respond \/ ReadMessage2 \/ Seal \/ Unseal

HandshakeSpec == HandshakeInit /\ [][HandshakeNext]_handshakeVars

-----------------------------------------------------------------------------
(* Properties.                                                             *)

(* The server answers only a handshake begun with it, on its own route and *)
(* under the static key it goes by.                                        *)
AnswersItsOwn ==
  \A r \in DOMAIN answered :
    LET a == answered[r]
    IN  /\ a.request \in DOMAIN started
        /\ started[a.request].phone = a.static
        /\ started[a.request].server = a.server
        /\ started[a.request].pattern = a.pattern

(* A phone that holds keys shares them, and the transcript, with the one   *)
(* answer to its handshake it was told the context of; no two answers      *)
(* share a key, a retried first message included.                          *)
KeysAgree ==
  /\ \A i \in DOMAIN started : started[i].keys # NoKeys =>
       /\ started[i].ctx \in DOMAIN answered
       /\ answered[started[i].ctx].keys = started[i].keys
       /\ answered[started[i].ctx].request = i
  /\ \A r1, r2 \in DOMAIN answered : r1 # r2 =>
       {KeyOf(answered[r1].keys, d) : d \in {"c2s", "s2c"}}
         \cap {KeyOf(answered[r2].keys, d) : d \in {"c2s", "s2c"}} = {}

(* No nonce is used twice under a key.                                     *)
NoncesOnce ==
  \A f1, f2 \in frames :
    f1.key = f2.key /\ f1.direction = f2.direction /\ f1.counter = f2.counter => f1 = f2

(* What an end has unsealed is what the other end sealed to it: on a       *)
(* socket in order and without gap or repeat, on REST each request once    *)
(* and for the request line it was sealed for.                             *)
RecordsAsSealed ==
  \A ctx \in Contexts, end \in {"phone", "server"} :
    LET got == taken[ctx][end]
        of == {f \in frames : f.ctx = ctx /\ f.direction # Direction(end)}
    IN  /\ \A k \in DOMAIN got :
             got[k] \in of /\ (got[k].channel = "ws" => got[k].counter = k - 1)
        /\ \A k, l \in DOMAIN got : got[k].counter = got[l].counter => k = l

HandshakeInv == AnswersItsOwn /\ KeysAgree /\ NoncesOnce /\ RecordsAsSealed
=============================================================================
