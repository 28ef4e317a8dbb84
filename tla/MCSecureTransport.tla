-------------------------- MODULE MCSecureTransport --------------------------
(***************************************************************************)
(* Both halves of the secure transport for TLC.  A device's REST context   *)
(* and its socket contexts share no state (each has its own keys, window   *)
(* and deadline; DestroyContext in RestChannel stands for whatever the     *)
(* registry does to it), so every behaviour exercises one half, `half`,    *)
(* while the other stays in its initial state.                             *)
(***************************************************************************)
EXTENDS RestChannel, SealedSockets

VARIABLE half

transportVars == <<half, restVars, socketVars>>

TransportInit == half \in {"rest", "sockets"} /\ RestInit /\ SocketsInit

\* Bound: a plaintext client is the only socket while it is there.
LegacyAlone ==
  \A s, u \in Sockets :
    s /= u /\ socket'[s].phase /= "none" /\ socket'[s].ctx = NoContext
    => socket'[u] = Gone

TransportNext ==
  /\ UNCHANGED half
  /\ \/ half = "rest" /\ RestNext /\ UNCHANGED socketVars
     \/ half = "sockets" /\ SocketsNext /\ LegacyAlone /\ UNCHANGED restVars

OnSockets(A) == half = "sockets" /\ A /\ UNCHANGED <<half, restVars>>

\* SocketsFairness, of the half that runs.
TransportFairness ==
  /\ WF_transportVars(OnSockets(Tick))
  /\ WF_transportVars(OnSockets(Sweep))

TransportSpec == TransportInit /\ [][TransportNext]_transportVars /\ TransportFairness
=============================================================================
