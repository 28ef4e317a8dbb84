----------------------------- MODULE RelayTunnel -----------------------------
(***************************************************************************)
(* The outbound tunnel to the relay and the streams it carries.            *)
(*                                                                         *)
(* The connector keeps one tunnel: it dials, greets, attaches when the     *)
(* relay proves its key, and dials again after a delay when the tunnel     *)
(* closes.  Each stream the relay opens is replayed on the local ingress   *)
(* as an HTTP request or a WebSocket.  In both directions of a stream the  *)
(* sender holds credit, the receiver grants it back (WINDOW) as bytes      *)
(* reach the next hop.                                                     *)
(*                                                                         *)
(* The relay keeps to the protocol and mirrors the flow control; it may    *)
(* reset, end or drop anything at any time.  Bytes are counted, not        *)
(* spelled.  Left out: headers and methods, close codes, pings (a missed   *)
(* pong is a tunnel that closes), the length of the delays.                *)
(***************************************************************************)
EXTENDS Integers, Sequences, FiniteSets, SequencesExt, FiniteSetsExt

CONSTANTS
  RelayStreams,  \* stream ids the relay uses on a tunnel
  Window,        \* STREAM_WINDOW_BYTES
  MaxPiece,      \* MAX_FRAME_PAYLOAD_BYTES, the largest DATA
  MaxStreams,    \* MAX_STREAMS
  Chunks,        \* sizes of what the local server writes at once
  MaxTunnels,    \* tunnels dialled, as a bound
  MaxChunks,     \* chunks of each stream and direction, as a bound
  MaxFrames      \* frames under way in each direction, as a bound

ASSUME RelayAssumption ==
  /\ Window \in Nat \ {0} /\ MaxPiece \in Nat \ {0} /\ Chunks \subseteq Nat \ {0}
  /\ MaxChunks \in Nat

VARIABLES
  tunnel,        \* "none", "dialing", "greeted", "attached" or "terminated"
  relayState,    \* the state told to diagnostics
  authFailed,
  retryArmed,    \* retryTimer
  relayStopped,
  tunnels,       \* tunnels dialled so far
  toRelay, toUs, \* frames under way
  stream,        \* the forwarder's streams
  remote,        \* the relay's view of each stream
  wrote          \* what the local server wrote to each stream

relayVars == <<tunnel, relayState, authFailed, retryArmed, relayStopped, tunnels,
               toRelay, toUs, stream, remote, wrote>>
connectorVars == <<tunnel, relayState, authFailed, retryArmed, relayStopped, tunnels>>

Frame(type, id, n, last) == [type |-> type, id |-> id, n |-> n, last |-> last]
Plain(type, id) == Frame(type, id, 0, TRUE)

NoStream == [kind |-> "none"]
NewStream(kind) ==
  [kind |-> kind, local |-> "opening", credit |-> Window, queue |-> <<>>, ending |-> FALSE,
   inbound |-> <<>>]
\* Bound: only the first stream carries data; the others compete for MaxStreams.
Loaded(id) == id = Min(RelayStreams)
Live(id) == stream[id] # NoStream
Carried == {id \in RelayStreams : Live(id)}

NoRemote == [st |-> "idle", credit |-> Window, owes |-> 0, part |-> 0, got |-> <<>>,
             sent |-> 0, over |-> FALSE]

SumOf(s) ==
  LET sum[k \in 0..Len(s)] == IF k = 0 THEN 0 ELSE sum[k - 1] + s[k]
  IN  sum[Len(s)]
Bytes(wire, type, id) ==
  SumOf([i \in 1..Len(wire) |->
           IF wire[i].type = type /\ wire[i].id = id THEN wire[i].n ELSE 0])

-----------------------------------------------------------------------------
(* createFlowSender.                                                       *)

(* flush: pieces of what is queued, as far as the credit goes.             *)
Flushed(id, queue, credit) ==
  LET after[n \in Nat] ==   \* the loop, n times round; each piece takes of the credit
        IF n = 0
        THEN [frames |-> <<>>, queue |-> queue, credit |-> credit]
        ELSE LET f == after[n - 1]
                 size == Min({Head(f.queue), f.credit, MaxPiece})
                 whole == size = Head(f.queue)
             IN  IF f.queue = <<>> \/ f.credit = 0
                 THEN f
                 ELSE [frames |-> Append(f.frames, Frame("DATA", id, size, whole)),
                       queue |-> IF whole THEN Tail(f.queue)
                                 ELSE <<Head(f.queue) - size>> \o Tail(f.queue),
                       credit |-> f.credit - size]
  IN  after[credit]

(* write and grant end in a flush; once nothing is queued the source is    *)
(* resumed and a stream that was ending ends.                              *)
SendOn(id, queue, credit) ==
  LET f == Flushed(id, queue, credit)
  IN  IF f.queue = <<>> /\ stream[id].ending
      THEN /\ toRelay' = toRelay \o f.frames \o <<Plain("END", id)>>
           /\ stream' = [stream EXCEPT ![id] = NoStream]
      ELSE /\ toRelay' = toRelay \o f.frames
           /\ stream' = [stream EXCEPT ![id].queue = f.queue, ![id].credit = f.credit]

\* Mutant: end does not wait for what is queued.
EndOfWrittenAtOnce(id) ==
  /\ stream' = [stream EXCEPT ![id] = NoStream]
  /\ toRelay' = Append(toRelay, Plain("END", id))

(* end: at once, or when everything written has been sent.                 *)
EndOfWritten(id) ==
  IF stream[id].queue = <<>>
  THEN /\ stream' = [stream EXCEPT ![id] = NoStream]
       /\ toRelay' = Append(toRelay, Plain("END", id))
  ELSE /\ stream' = [stream EXCEPT ![id].ending = TRUE, ![id].local = "closed"]
       /\ UNCHANGED toRelay

(* reset of a stream: destroyed, and the relay is told.                    *)
Reset(id) ==
  /\ stream' = [stream EXCEPT ![id] = NoStream]
  /\ toRelay' = Append(toRelay, Plain("RESET", id))

-----------------------------------------------------------------------------
(* The connector.                                                          *)

StartConnector ==
  /\ tunnel = "none" /\ ~retryArmed /\ ~relayStopped /\ tunnels = 0
  /\ tunnel' = "dialing" /\ tunnels' = 1
  /\ UNCHANGED <<relayState, authFailed, retryArmed, relayStopped, toRelay, toUs, stream,
                 remote, wrote>>

(* The socket opens; message 1 is sent.                                    *)
TunnelOpens ==
  /\ tunnel = "dialing" /\ tunnel' = "greeted"
  /\ UNCHANGED <<relayState, authFailed, retryArmed, relayStopped, tunnels, toRelay, toUs,
                 stream, remote, wrote>>

(* The first message is message 2: the confirmation is sent, or the relay  *)
(* does not hold the pinned key.                                           *)
Message2(authentic) ==
  /\ tunnel = "greeted"
  /\ IF authentic
     THEN tunnel' = "attached" /\ relayState' = "connected" /\ UNCHANGED authFailed
     ELSE tunnel' = "terminated" /\ authFailed' = TRUE /\ UNCHANGED relayState
  /\ UNCHANGED <<retryArmed, relayStopped, tunnels, toRelay, toUs, stream, remote, wrote>>

(* The socket is closed, by either side, the network or a missed pong: the *)
(* requests it carried are abandoned, a retry is scheduled.                *)
TunnelCloses(code) ==
  /\ tunnel # "none"
  /\ tunnel' = "none"
  /\ stream' = [id \in RelayStreams |-> NoStream]
  /\ relayState' = IF authFailed \/ code = "auth" THEN "authentication_failed"
                   ELSE IF code = "protocol" THEN "unsupported_protocol" ELSE "reconnecting"
  /\ retryArmed' = ~relayStopped /\ authFailed' = FALSE
  /\ toRelay' = <<>> /\ toUs' = <<>>
  /\ remote' = [id \in RelayStreams |-> NoRemote] /\ wrote' = [id \in RelayStreams |-> <<>>]
  /\ UNCHANGED <<relayStopped, tunnels>>

Redials ==
  /\ retryArmed /\ tunnels < MaxTunnels
  /\ retryArmed' = FALSE /\ tunnel' = "dialing" /\ tunnels' = tunnels + 1
  /\ UNCHANGED <<relayState, authFailed, relayStopped, toRelay, toUs, stream, remote, wrote>>

StopConnector ==
  /\ ~relayStopped /\ relayStopped' = TRUE /\ retryArmed' = FALSE
  /\ tunnel' = IF tunnel = "none" THEN "none" ELSE "terminated"
  /\ UNCHANGED <<relayState, authFailed, tunnels, toRelay, toUs, stream, remote, wrote>>

-----------------------------------------------------------------------------
(* The forwarder: frames of the relay.                                     *)

Arrived(type) ==
  /\ tunnel = "attached" /\ toUs # <<>> /\ Head(toUs).type = type
  /\ toUs' = Tail(toUs)
  /\ UNCHANGED <<connectorVars, remote, wrote>>

(* OPEN: refused over the cap, or what http.request or ws cannot send.     *)
OnOpen(kind) ==
  LET id == Head(toUs).id
  IN  /\ Arrived("OPEN")
      /\ IF Live(id) \/ Cardinality(Carried) >= MaxStreams
         THEN toRelay' = Append(toRelay, Plain("RESET", id)) /\ UNCHANGED stream
         ELSE \/ stream' = [stream EXCEPT ![id] = NewStream(kind)] /\ UNCHANGED toRelay
              \/ toRelay' = Append(toRelay, Plain("RESET", id)) /\ UNCHANGED stream

Outstanding(id) == SumOf(stream[id].inbound)

(* DATA: counted against what was granted, then written to the next hop; a *)
(* socket must be open by then.                                            *)
OnData ==
  LET f == Head(toUs)
  IN  /\ Arrived("DATA")
      /\ IF ~Live(f.id) THEN UNCHANGED <<stream, toRelay>>
         ELSE IF Outstanding(f.id) + f.n > Window
                 \/ (stream[f.id].kind = "ws" /\ stream[f.id].local # "open")
         THEN Reset(f.id)
         ELSE /\ stream' = [stream EXCEPT ![f.id].inbound = Append(@, f.n)]
              /\ UNCHANGED toRelay

(* WINDOW: nothing to grant to before the server has answered.             *)
OnWindow ==
  LET f == Head(toUs)
      s == stream[f.id]
  IN  /\ Arrived("WINDOW")
      /\ IF ~Live(f.id) \/ (s.kind = "http" /\ s.local = "opening")
         THEN UNCHANGED <<stream, toRelay>>
         ELSE IF s.credit + f.n > Window THEN Reset(f.id)
         ELSE SendOn(f.id, s.queue, s.credit + f.n)

(* END: the request body is complete, or the socket is closed as the       *)
(* client closed its own; the answer goes on.                              *)
OnEnd == Arrived("END") /\ UNCHANGED <<stream, toRelay>>

OnReset ==
  /\ Arrived("RESET")
  /\ stream' = [stream EXCEPT ![Head(toUs).id] = NoStream]
  /\ UNCHANGED toRelay

-----------------------------------------------------------------------------
(* The forwarder: what the local server does.                              *)

Local(id) ==
  /\ tunnel = "attached" /\ Live(id) /\ Len(toRelay) <= MaxFrames
  /\ UNCHANGED <<connectorVars, toUs, remote>>

(* The response, or the open socket.                                       *)
Answered(id) ==
  /\ Local(id) /\ stream[id].local = "opening"
  /\ stream' = [stream EXCEPT ![id].local = "open"]
  /\ toRelay' = Append(toRelay, Plain("HEAD", id))
  /\ UNCHANGED wrote

(* A socket is refused with a status.                                      *)
SocketRefused(id) ==
  /\ Local(id) /\ stream[id].local = "opening" /\ stream[id].kind = "ws"
  /\ stream' = [stream EXCEPT ![id] = NoStream]
  /\ toRelay' = Append(toRelay, Frame("HEAD", id, 0, FALSE))
  /\ UNCHANGED wrote

(* A response that is paused gives nothing; the messages of a paused       *)
(* socket that were parsed already still come.                             *)
LocalWrites(id, n) ==
  /\ Local(id) /\ stream[id].local = "open" /\ Loaded(id) /\ Len(wrote[id]) < MaxChunks
  /\ stream[id].kind = "http" => stream[id].queue = <<>>
  /\ SendOn(id, Append(stream[id].queue, n), stream[id].credit)
  /\ wrote' = [wrote EXCEPT ![id] = Append(@, n)]

(* The response is complete, or the socket closed.                         *)
LocalEnds(id) ==
  /\ Local(id) /\ stream[id].local = "open"
  /\ stream[id].kind = "http" => stream[id].queue = <<>>
  /\ EndOfWritten(id) /\ UNCHANGED wrote

LocalFails(id) == Local(id) /\ Reset(id) /\ UNCHANGED wrote

(* Bytes of the relay reached the next hop.                                *)
LocalDrains(id) ==
  /\ Local(id) /\ stream[id].inbound # <<>>
  /\ stream' = [stream EXCEPT ![id].inbound = Tail(@)]
  /\ toRelay' = Append(toRelay, Frame("WINDOW", id, Head(stream[id].inbound), TRUE))
  /\ UNCHANGED wrote

-----------------------------------------------------------------------------
(* The relay.                                                              *)

RelaySends(id, frame) ==
  /\ tunnel = "attached" /\ Len(toUs) < MaxFrames
  /\ toUs' = Append(toUs, frame)
  /\ UNCHANGED <<connectorVars, toRelay, stream, wrote>>

\* Bound: streams are opened on the first tunnel, in the order of their ids.
RelayOpens(id) ==
  /\ remote[id].st = "idle" /\ tunnels = 1
  /\ \A o \in RelayStreams : remote[o].st = "idle" => id <= o
  /\ RelaySends(id, Plain("OPEN", id))
  /\ remote' = [remote EXCEPT ![id].st = "open"]

RelayWrites(id) ==
  /\ remote[id].st \in {"open", "headed"} /\ Loaded(id)
  /\ remote[id].credit > 0 /\ remote[id].sent < MaxChunks
  /\ LET n == Min({remote[id].credit, MaxPiece})
     IN  /\ RelaySends(id, Frame("DATA", id, n, TRUE))
         /\ remote' = [remote EXCEPT ![id].credit = @ - n, ![id].sent = @ + 1]

(* Bytes we sent reached the client.                                       *)
RelayGrants(id) ==
  /\ remote[id].st = "headed" /\ remote[id].owes > 0
  /\ \E n \in 1..remote[id].owes :
       /\ RelaySends(id, Frame("WINDOW", id, n, TRUE))
       /\ remote' = [remote EXCEPT ![id].owes = @ - n]

RelayEnds(id) ==
  /\ remote[id].st \in {"open", "headed"} /\ remote[id].sent < MaxChunks
  /\ RelaySends(id, Plain("END", id))
  /\ remote' = [remote EXCEPT ![id].sent = MaxChunks]

RelayResets(id) ==
  /\ remote[id].st \in {"open", "headed"}
  /\ RelaySends(id, Plain("RESET", id))
  /\ remote' = [remote EXCEPT ![id].st = "closed"]

(* The relay takes a frame; one of a stream it has closed is dropped.      *)
RelayTakes ==
  LET f == Head(toRelay)
      r == remote[f.id]
  IN  /\ tunnel = "attached" /\ toRelay # <<>>
      /\ toRelay' = Tail(toRelay)
      /\ remote' = [remote EXCEPT ![f.id] =
           IF r.st = "closed" THEN r
           ELSE CASE f.type = "HEAD" -> [r EXCEPT !.st = IF f.last THEN "headed" ELSE "closed"]
                  [] f.type = "DATA" ->
                       [r EXCEPT !.owes = @ + f.n,
                                 !.part = IF f.last THEN 0 ELSE @ + f.n,
                                 !.got = IF f.last THEN Append(@, r.part + f.n) ELSE @]
                  [] f.type = "WINDOW" -> [r EXCEPT !.credit = @ + f.n]
                  [] f.type = "END" -> [r EXCEPT !.st = "closed", !.over = TRUE]
                  [] OTHER -> [r EXCEPT !.st = "closed"]]
      /\ UNCHANGED <<connectorVars, toUs, stream, wrote>>

-----------------------------------------------------------------------------
RelayInit ==
  /\ tunnel = "none" /\ relayState = "connecting" /\ authFailed = FALSE
  /\ retryArmed = FALSE /\ relayStopped = FALSE /\ tunnels = 0
  /\ toRelay = <<>> /\ toUs = <<>>
  /\ stream = [id \in RelayStreams |-> NoStream]
  /\ remote = [id \in RelayStreams |-> NoRemote]
  /\ wrote = [id \in RelayStreams |-> <<>>]

RelayNext ==
  \/ StartConnector \/ TunnelOpens \/ Redials \/ StopConnector
  \/ \E authentic \in BOOLEAN : Message2(authentic)
  \/ \E code \in {"auth", "protocol", "lost"} : TunnelCloses(code)
  \/ \E kind \in {"http", "ws"} : OnOpen(kind)
  \/ OnData \/ OnWindow \/ OnEnd \/ OnReset \/ RelayTakes
  \/ \E id \in RelayStreams :
       \/ Answered(id) \/ SocketRefused(id) \/ LocalEnds(id) \/ LocalFails(id)
       \/ LocalDrains(id) \/ \E n \in Chunks : LocalWrites(id, n)
       \/ RelayOpens(id) \/ RelayWrites(id) \/ RelayGrants(id) \/ RelayEnds(id)
       \/ RelayResets(id)

RelaySpec == RelayInit /\ [][RelayNext]_relayVars

-----------------------------------------------------------------------------
(* Properties.                                                             *)

RelayTypeOK ==
  /\ tunnel \in {"none", "dialing", "greeted", "attached", "terminated"}
  /\ retryArmed \in BOOLEAN
  /\ \A id \in RelayStreams : Live(id) => stream[id].credit \in 0..Window

(* Both directions of a stream that both ends carry: the credit held, the  *)
(* bytes under way, those not granted back yet and the grants under way    *)
(* make up the window.  So no grant and no DATA of the other end exceeds   *)
(* it, whatever is under way, and no stream stalls for lost credit.        *)
CreditConserved ==
  \A id \in RelayStreams :
    Live(id) /\ remote[id].st \in {"open", "headed"} =>
      /\ stream[id].credit + Bytes(toRelay, "DATA", id) + remote[id].owes
           + Bytes(toUs, "WINDOW", id) = Window
      /\ remote[id].credit + Bytes(toUs, "DATA", id) + Outstanding(id)
           + Bytes(toRelay, "WINDOW", id) = Window

(* What the relay has put together is what the local server wrote, message *)
(* by message and in order, and an END says that nothing is missing.       *)
StreamsIntact ==
  \A id \in RelayStreams :
    /\ IsPrefix(remote[id].got, wrote[id])
    /\ remote[id].over => remote[id].got = wrote[id]

(* Unless stopped, the connector has a tunnel or is about to dial one,     *)
(* never both; stopped, it does not dial.  No request outlives its tunnel. *)
AlwaysOneTunnel ==
  /\ tunnels > 0 /\ ~relayStopped => (retryArmed <=> tunnel = "none")
  /\ relayStopped => ~retryArmed
  /\ Carried # {} => tunnel \in {"attached", "terminated"}

RelayInv == RelayTypeOK /\ CreditConserved /\ StreamsIntact /\ AlwaysOneTunnel
=============================================================================
