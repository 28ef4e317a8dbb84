---------------------------- MODULE SealedSockets ----------------------------
(***************************************************************************)
(* The encrypted WebSockets of one device: its contexts and tickets        *)
(* (E2eeContextRegistry, src/src/e2ee/context.ts), the upgrade that spends *)
(* a ticket (src/src/api/middleware/auth.middleware.ts, ws.routes.ts), the *)
(* hub that owns the sockets (src/src/ws-hub.ts) and the revocation that   *)
(* cuts them (devices.routes.ts).                                          *)
(*                                                                         *)
(* A ctxId is random and never comes back while anything refers to it, and *)
(* destroying a context removes it from the registry and invalidates its   *)
(* keys in one turn: "the context still has its keys" is "the registry     *)
(* holds it".  Every deadline is kept as the time that remains; a clock    *)
(* that reached zero is due, and a timer that is due may still fire late.  *)
(***************************************************************************)
EXTENDS Integers, FiniteSets, Functions

CONSTANTS
  Contexts,     \* context ids
  NoContext,    \* a socket without one: a legacy plaintext client
  Sockets,      \* sockets that may be upgrading or open at once
  Cap,          \* MAX_WS_CONTEXTS_PER_DEVICE
  TicketTTL,    \* TICKET_TTL_MS, also the life of a provisional context
  DrainTime,    \* CONTEXT_DRAIN_MS
  Lifetime,     \* WS_CONTEXT_TTL_MS
  FirstFrame,   \* WS_FIRST_FRAME_DEADLINE_MS
  PingEvery     \* PING_INTERVAL_MS

ASSUME CapAssumption == Cap \in Nat \ {0}
ASSUME ClockAssumption ==
  /\ {TicketTTL, DrainTime, Lifetime, FirstFrame, PingEvery} \subseteq Nat \ {0}
  /\ TicketTTL <= Lifetime
ASSUME NoContextAssumption == NoContext \notin Contexts

Off == -1   \* a clock that is not running

VARIABLES
  registry,        \* the contexts held: [expires, retire, ticket, provisional]
  openOrder,       \* the pairs of ids held whose first was opened before the second
  deviceRevoked,   \* the device row's revoked_at is set
  socket,          \* [phase, ctx]: what the socket was upgraded as
  clients,         \* the hub's set of clients
  hubContext,      \* the context the hub keeps for a socket
  unprovenIn,      \* the first-frame clock of each socket
  pingIn,          \* the maintenance sweep's clock
  plainOn          \* history: sockets that carried a plaintext frame

registryVars == <<registry, openOrder>>
hubVars == <<clients, hubContext, unprovenIn, pingIn>>
socketVars == <<registryVars, deviceRevoked, socket, hubVars, plainOn>>

Registered == DOMAIN registry
Gone == [phase |-> "none", ctx |-> NoContext]

\* Of two contexts one was opened before the other.
OpenedInTurn ==
  /\ openOrder \subseteq Registered \X Registered
  /\ \A c, d \in Registered :
       /\ c /= d => (<<c, d>> \in openOrder <=> <<d, c>> \notin openOrder)
       /\ <<c, c>> \notin openOrder
       /\ \A e \in Registered : <<c, d>> \in openOrder /\ <<d, e>> \in openOrder => <<c, e>> \in openOrder

SocketsTypeOK ==
  /\ Registered \subseteq Contexts
  /\ \A c \in Registered :
       registry[c] \in [expires : 0..Lifetime, retire : Off..DrainTime,
                        ticket : Off..TicketTTL, provisional : BOOLEAN]
  /\ IsFiniteSet(Registered) /\ OpenedInTurn
  /\ deviceRevoked \in BOOLEAN
  /\ socket \in [Sockets -> [phase : {"none", "upgrading", "open", "closing"},
                             ctx : Contexts \cup {NoContext}]]
  /\ clients \subseteq Sockets /\ plainOn \subseteq Sockets
  /\ hubContext \in [Sockets -> Contexts \cup {NoContext}]
  /\ unprovenIn \in [Sockets -> Off..FirstFrame]
  /\ pingIn \in Off..PingEvery

SocketsInit ==
  /\ registry = << >> /\ openOrder = {}
  /\ deviceRevoked = FALSE
  /\ socket = [s \in Sockets |-> Gone]
  /\ clients = {} /\ plainOn = {}
  /\ hubContext = [s \in Sockets |-> NoContext]
  /\ unprovenIn = [s \in Sockets |-> Off]
  /\ pingIn = Off

-----------------------------------------------------------------------------
(* The registry.                                                           *)

\* now >= deadline(), the earlier of expiry and retirement
PastDeadline(c) == registry[c].expires = 0 \/ registry[c].retire = 0

\* Drop a set of contexts, their keys and their tickets from a table.
Without(table, dropped) == Restrict(table, DOMAIN table \ dropped)

Destroy(dropped) ==
  /\ registry' = Without(registry, dropped)
  /\ openOrder' = {p \in openOrder : p[1] \notin dropped /\ p[2] \notin dropped}

\* First authenticated use: the full lifetime, measured from now, once.
MarkUsed(entry) ==
  IF entry.provisional
  THEN [entry EXCEPT !.provisional = FALSE, !.expires = Lifetime]
  ELSE entry

Older(c, d) == <<c, d>> \in openOrder

\* Mutant: Eviction by age alone.
EvictedByAge(c, d) == Older(c, d)

\* Eviction order: never-used contexts before used ones, then by age.
EvictedBefore(c, d) ==
  IF registry[c].provisional = registry[d].provisional
  THEN Older(c, d)
  ELSE registry[c].provisional

\* Those of the other live contexts that make room for the one being opened.
Victims(candidates) ==
  LET excess == Cardinality(candidates) + 1 - Cap
  IN  {c \in candidates :
         Cardinality({d \in candidates : EvictedBefore(d, c)}) < excess}

\* POST /api/e2ee/open, past the handshake: sweep the dead, drain whoever the
\* cap evicts, register the new context with its ticket.
Open(c) ==
  LET kept == {x \in Registered : ~PastDeadline(x)}
      victims == Victims({x \in kept : registry[x].retire = Off})
      opened == [expires |-> TicketTTL, retire |-> Off, ticket |-> TicketTTL,
                 provisional |-> TRUE]
      swept(x) ==
        [registry[x] EXCEPT
           !.ticket = IF @ = 0 THEN Off ELSE @,
           !.retire = IF x \in victims THEN DrainTime ELSE @]
  IN  /\ ~deviceRevoked
      /\ c \notin Registered
      /\ \A s \in Sockets : socket[s].ctx /= c
      /\ registry' = [x \in kept \cup {c} |-> IF x = c THEN opened ELSE swept(x)]
      /\ openOrder' = (openOrder \cap (kept \X kept)) \cup (kept \X {c})
      /\ UNCHANGED <<deviceRevoked, socket, hubVars, plainOn>>

-----------------------------------------------------------------------------
(* The upgrade.                                                            *)

\* Mutant: consumeTicket() leaves the ticket in the table.
SpentTwice(c) == [registry EXCEPT ![c] = MarkUsed(@)]

\* What spending c's ticket leaves in the registry: the ticket is gone
\* whether or not it was still valid, and a valid one marks the context used.
Spent(c) ==
  [registry EXCEPT ![c] =
     [IF @.ticket > 0 THEN MarkUsed(@) ELSE @ EXCEPT !.ticket = Off]]

\* authenticateContext: what the device's row says, and the credential that was
\* presented beside the ticket.  A store that cannot be read proves nothing.
ContextAuth ==
  {"no-device-store"} \cup
    (IF deviceRevoked THEN {"device-revoked"} ELSE {"ok", "credential-mismatch"})

\* A ticket that resolves authenticates the upgrade and the handler chain
\* runs on; the 101 and onOpen come later.
Upgrade(s, c) ==
  /\ socket[s] = Gone
  /\ c \in Registered
  /\ registry[c].ticket > 0
  /\ registry[c].retire /= 0
  /\ "ok" \in ContextAuth
  /\ registry' = Spent(c)
  /\ socket' = [socket EXCEPT ![s] = [phase |-> "upgrading", ctx |-> c]]
  /\ UNCHANGED <<openOrder, deviceRevoked, hubVars, plainOn>>

\* A ticket that expired is spent all the same, and its context is left to
\* the next sweep; one whose context has drained takes the context with it.
UpgradeTooLate(c) ==
  /\ c \in Registered
  /\ registry[c].ticket = 0 \/ (registry[c].ticket > 0 /\ registry[c].retire = 0)
  /\ IF registry[c].ticket = 0
     THEN registry' = Spent(c) /\ UNCHANGED openOrder
     ELSE Destroy({c})
  /\ UNCHANGED <<deviceRevoked, socket, hubVars, plainOn>>

\* The ticket resolves, the device is not proven.  Only the streamer's own record
\* destroys the context: a mismatch is what anyone can send.
UpgradeUnproven(c) ==
  /\ c \in Registered
  /\ registry[c].ticket > 0
  /\ registry[c].retire /= 0
  /\ \E reason \in ContextAuth \ {"ok"} :
       IF reason = "device-revoked"
       THEN Destroy({c})
       ELSE registry' = Spent(c) /\ UNCHANGED openOrder
  /\ UNCHANGED <<deviceRevoked, socket, hubVars, plainOn>>

\* Two tickets presented, or a principal without the capability: the ticket
\* is spent and the context it orphans is destroyed.
UpgradeRefused(c) ==
  /\ c \in Registered
  /\ registry[c].ticket > 0
  /\ Destroy({c})
  /\ UNCHANGED <<deviceRevoked, socket, hubVars, plainOn>>

\* A client on the shared key, or a device that was never pinned.
UpgradeLegacy(s) ==
  /\ socket[s] = Gone
  /\ socket' = [socket EXCEPT ![s] = [phase |-> "upgrading", ctx |-> NoContext]]
  /\ UNCHANGED <<registryVars, deviceRevoked, hubVars, plainOn>>

\* The connection is lost between the authentication and the 101: onOpen
\* never runs, or (destroyed) runs without a raw socket and gives the
\* context back.
UpgradeLost(s, destroyed) ==
  /\ socket[s].phase = "upgrading"
  /\ socket' = [socket EXCEPT ![s] = Gone]
  /\ Destroy(IF destroyed THEN {socket[s].ctx} ELSE {})
  /\ UNCHANGED <<deviceRevoked, hubVars, plainOn>>

-----------------------------------------------------------------------------
(* The hub.  A frame is sealed and sent in one turn.                       *)

\* closeForE2ee on a set of sockets: off the client list, a close frame sent,
\* the clock stopped and each socket's own context destroyed; also what the
\* registry found past its deadline while it looked (expired).
CloseForE2ee(closed, expired) ==
  /\ socket' = [s \in Sockets |->
       IF s \in closed THEN [socket[s] EXCEPT !.phase = "closing"] ELSE socket[s]]
  /\ hubContext' = [s \in Sockets |->
       IF s \in closed THEN NoContext ELSE hubContext[s]]
  /\ unprovenIn' = [s \in Sockets |-> IF s \in closed THEN Off ELSE unprovenIn[s]]
  /\ Destroy({hubContext[s] : s \in closed} \cup expired)

\* Sending to s must close it: its transport is not open, or its context has
\* lost its keys.
SendFails(s) ==
  /\ hubContext[s] /= NoContext
  /\ socket[s].phase /= "open" \/ hubContext[s] \notin Registered

\* Sending to s puts plaintext on the wire.
SendsPlain(s) == hubContext[s] = NoContext /\ socket[s].phase = "open"

\* onOpen: the hub takes the socket and its context, starts its clock, and
\* the session list is sent at once.
SocketOpens(s) ==
  LET c == socket[s].ctx
      dead == c /= NoContext /\ c \notin Registered
  IN  /\ socket[s].phase = "upgrading"
      /\ socket' = [socket EXCEPT ![s].phase = IF dead THEN "closing" ELSE "open"]
      /\ clients' = IF dead THEN clients ELSE clients \cup {s}
      /\ hubContext' = [hubContext EXCEPT ![s] = IF dead THEN NoContext ELSE c]
      /\ unprovenIn' = [unprovenIn EXCEPT ![s] =
                          IF dead \/ c = NoContext THEN Off ELSE FirstFrame]
      /\ pingIn' = IF pingIn = Off THEN PingEvery ELSE pingIn
      /\ plainOn' = IF c = NoContext THEN plainOn \cup {s} ELSE plainOn
      /\ UNCHANGED <<registryVars, deviceRevoked>>

\* broadcast, broadcastToClients and unicast to some of the clients
Send(to) ==
  LET failed == {s \in to : SendFails(s)}
  IN  /\ CloseForE2ee(failed, {})
      /\ clients' = clients \ (failed \cup {s \in to : socket[s].phase /= "open"})
      /\ plainOn' = plainOn \cup {s \in to : SendsPlain(s)}
      /\ UNCHANGED <<deviceRevoked, pingIn>>

Broadcast == clients /= {} /\ Send(clients)

\* Text in the clear is taken only from a socket that never held a context.
TakesPlain(s) == hubContext[s] = NoContext /\ socket[s].ctx = NoContext

\* A frame arrives, possibly one already in the buffer of a socket that was
\* closed.  A frame that does not unseal closes the socket.
Receive(s, valid) ==
  LET c == hubContext[s]
      refused == c /= NoContext /\ (~valid \/ c \notin Registered)
  IN  /\ socket[s].phase \in {"open", "closing"}
      /\ IF refused
         THEN /\ CloseForE2ee({s}, {})
              /\ clients' = clients \ {s}
         ELSE /\ unprovenIn' = [unprovenIn EXCEPT ![s] = Off]
              /\ UNCHANGED <<registryVars, socket, clients, hubContext>>
      /\ plainOn' = IF TakesPlain(s) THEN plainOn \cup {s} ELSE plainOn
      /\ UNCHANGED <<deviceRevoked, pingIn>>

\* The socket never proved it holds the keys.
UnprovenFires(s) ==
  /\ unprovenIn[s] = 0
  /\ CloseForE2ee({s}, {})
  /\ clients' = clients \ {s}
  /\ UNCHANGED <<deviceRevoked, pingIn, plainOn>>

PeerCloses(s) ==
  /\ socket[s].phase = "open"
  /\ socket' = [socket EXCEPT ![s].phase = "closing"]
  /\ UNCHANGED <<registryVars, deviceRevoked, hubVars, plainOn>>

\* 'close' or 'error': also what a pong timeout's terminate() ends in.
CloseEvent(s) ==
  /\ socket[s].phase \in {"open", "closing"}
  /\ socket' = [socket EXCEPT ![s] = Gone]
  /\ clients' = clients \ {s}
  /\ plainOn' = plainOn \ {s}
  /\ hubContext' = [hubContext EXCEPT ![s] = NoContext]
  /\ unprovenIn' = [unprovenIn EXCEPT ![s] = Off]
  /\ Destroy({hubContext[s]})
  /\ UNCHANGED <<deviceRevoked, pingIn>>

\* Mutant: The sweep looks the context up without its deadline.
StaleIfDestroyed(s) ==
  hubContext[s] /= NoContext /\ hubContext[s] \notin Registered

\* The maintenance sweep: stop when nobody is connected; close a socket whose
\* context the registry no longer answers for; ping the others.
Stale(s) ==
  /\ hubContext[s] /= NoContext
  /\ hubContext[s] \notin Registered \/ PastDeadline(hubContext[s])

Sweep ==
  LET stale == {s \in clients : Stale(s)}
  IN  /\ pingIn = 0
      /\ pingIn' = IF clients = {} THEN Off ELSE PingEvery
      /\ CloseForE2ee(stale, {})
      /\ clients' = clients \ stale
      /\ plainOn' = plainOn \cup {s \in clients : SendsPlain(s)}
      /\ UNCHANGED deviceRevoked

\* Mutant: Revocation closes only the sockets of the contexts it destroyed.
RevokeIndexed ==
  LET owned == {s \in Sockets : hubContext[s] \in Registered}
  IN  /\ deviceRevoked' = TRUE
      /\ CloseForE2ee(owned, Registered)
      /\ clients' = clients \ owned
      /\ UNCHANGED <<pingIn, plainOn>>

\* The device is revoked (again): its row, its contexts and tickets, and
\* every socket the hub owns for it.
Revoke ==
  LET owned == {s \in Sockets : hubContext[s] /= NoContext}
  IN  /\ deviceRevoked' = TRUE
      /\ CloseForE2ee(owned, Registered)
      /\ clients' = clients \ owned
      /\ UNCHANGED <<pingIn, plainOn>>

-----------------------------------------------------------------------------
Running(clock) == IF clock > 0 THEN clock - 1 ELSE clock

Tick ==
  /\ registry' = [c \in Registered |->
       [registry[c] EXCEPT !.expires = Running(@), !.retire = Running(@),
                           !.ticket = Running(@)]]
  /\ unprovenIn' = [s \in Sockets |-> Running(unprovenIn[s])]
  /\ pingIn' = Running(pingIn)
  /\ UNCHANGED <<openOrder, deviceRevoked, socket, clients, hubContext, plainOn>>

SocketsNext ==
  \/ \E c \in Contexts : Open(c) \/ UpgradeTooLate(c) \/ UpgradeUnproven(c) \/ UpgradeRefused(c)
  \/ \E s \in Sockets :
       \/ \E c \in Contexts : Upgrade(s, c)
       \/ \E d \in BOOLEAN : UpgradeLost(s, d)
       \/ \E v \in BOOLEAN : Receive(s, v)
       \/ UpgradeLegacy(s)
       \/ SocketOpens(s)
       \/ UnprovenFires(s)
       \/ PeerCloses(s)
       \/ CloseEvent(s)
  \/ Broadcast
  \/ Sweep
  \/ Revoke
  \/ Tick

\* Time passes and the sweep's interval fires; nothing is asked of the peer.
SocketsFairness == WF_socketVars(Tick) /\ WF_socketVars(Sweep)

SocketsSpec == SocketsInit /\ [][SocketsNext]_socketVars /\ SocketsFairness

-----------------------------------------------------------------------------
(* Properties.                                                             *)

\* A ticket authorises one socket: no context is ever behind two sockets, so
\* no two sockets count frames under one key.
OneSocketPerContext ==
  \A s, t \in Sockets :
    s /= t /\ socket[s].ctx /= NoContext => socket[s].ctx /= socket[t].ctx

\* However often a device re-opens, at most Cap of its contexts are live;
\* those above it are draining.
CapBoundsLive ==
  Cardinality({c \in Registered : registry[c].retire = Off}) <= Cap

\* A context in use is evicted only when no unused one could have been.
UsedOutlivesUnused ==
  [][\A c \in Registered \cap DOMAIN registry' :
       registry[c].retire = Off /\ registry'[c].retire /= Off
         /\ ~registry[c].provisional
       => \A d \in Registered \cap DOMAIN registry' :
            registry'[d].retire = Off => ~registry[d].provisional]_socketVars

\* A socket that spent a ticket never carries plaintext in either direction,
\* not even in what arrives after it was cut off.
SealedNeverPlain == \A s \in plainOn : socket[s].ctx = NoContext

\* Revocation reaches everything: no context, no ticket and no attached
\* socket survives it, including an upgrade that was past authentication.
RevocationCuts ==
  deviceRevoked => Registered = {} /\ \A s \in Sockets : hubContext[s] = NoContext

\* A socket with a context is one the sweep visits: on the client list, with
\* the sweep's timer running.
AttachedIsSwept ==
  \A s \in Sockets : hubContext[s] /= NoContext => s \in clients /\ pingIn /= Off

\* Contexts and sockets belong together: one socket per context, nothing plain
\* after the seal, no more live contexts than the cap, and every attached socket
\* is looked at by the sweep.
SocketsInv ==
  /\ SocketsTypeOK /\ CapBoundsLive /\ AttachedIsSwept
  /\ OneSocketPerContext /\ SealedNeverPlain

\* A socket does not outlive its context: past its deadline, or destroyed
\* under it, it is detached before long.
DeadContextCloses ==
  \A s \in Sockets :
    (/\ hubContext[s] /= NoContext
     /\ hubContext[s] \in Registered => PastDeadline(hubContext[s]))
    ~> hubContext[s] = NoContext
=============================================================================
