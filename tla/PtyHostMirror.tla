--------------------------- MODULE PtyHostMirror ---------------------------
(***************************************************************************)
(* The streamer's mirror of the pty-host (src/src/pty-host/host.ts and     *)
(* remote-session-runner.ts).                                              *)
(*                                                                         *)
(* The host holds the sessions and outlives the streamer.  The streamer    *)
(* answers synchronous questions about them from a mirror, which it seeds  *)
(* with one status reply when it connects and keeps by the events the host *)
(* pushes to its subscribers.  Requests, replies and events travel in      *)
(* order.  The socket delivers chunks of messages: every message of a      *)
(* chunk is handled before the code that awaits a reply resumes.           *)
(*                                                                         *)
(* So the mirror can go wrong in two ways, which two histories keep apart, *)
(* session by session and until the next connection.  The start or the end *)
(* of a session may be told to nobody (`missed`): it falls between the     *)
(* status reply and the subscription, or the streamer that asked for the   *)
(* start is gone.  And an event may be handled before the code that a      *)
(* reply of the same chunk resumes, which then puts an older state back    *)
(* over it (`overwritten`).                                                *)
(***************************************************************************)
EXTENDS Integers, Sequences, FiniteSets

CONSTANTS
  HostSessions,    \* ids the streamer starts
  MaxWire,     \* messages in one direction, replies apart
  MaxGates,    \* permission gates the host's detectors open
  MaxRestarts  \* restarts of the streamer

ASSUME ConstantsAssumption ==
  /\ MaxWire \in Nat /\ MaxGates \in Nat /\ MaxRestarts \in Nat

VARIABLES
  held,        \* sessions the host holds
  starting,    \* sessions the host is spawning
  asked,       \* those of them whose requester is still connected
  snap,        \* the host's promptSnapshots: occurrence of each session's gate, 0 for none
  gates,       \* gates opened so far
  subscribed,  \* whether the streamer receives events
  toHost, toStreamer,
  phase,       \* connect(): off, status, seeded, subscribe, restoring, ready
  seed,        \* the status reply and the subscribe reply's snapshots
  chunk,       \* whether more of the current chunk is to be handled
  mirror,      \* RemoteSessionRunner.sessions
  shown,       \* the gate the server knows for each session, 0 for none
  call,        \* the streamer's start of each session
  restarts,
  missed,      \* history: sessions whose start or end no message tells this connection
  overwritten  \* history: sessions an event of which this connection put an older state over

hostVars == <<held, starting, asked, snap, gates, missed>>
streamerVars == <<phase, seed, chunk, mirror, shown, call, restarts, overwritten>>
mirrorVars == <<held, starting, asked, snap, gates, subscribed, toHost, toStreamer,
          phase, seed, chunk, mirror, shown, call, restarts, missed, overwritten>>

-----------------------------------------------------------------------------
(* The host.                                                               *)

NoGates == [s \in HostSessions |-> 0]
NoSeed == [held |-> {}, snap |-> NoGates]
NoCalls == [s \in HostSessions |-> "none"]

\* emit: to the subscribers only.
Emitted(q, evs) == IF subscribed THEN q \o evs ELSE q

\* The status reply has been given: a later change is for the events to tell.
Reported == ~(phase = "off" \/ (phase = "status" /\ toStreamer = <<>>))

\* A start or an end of s that `told` the streamer, or did not.
Unheard(s, told) == missed' = IF told \/ ~Reported THEN missed ELSE missed \cup {s}

\* status and subscribe.
TakeStatus ==
  /\ Head(toHost).req = "status"
  /\ toStreamer' = Append(toStreamer, [re |-> "status", held |-> held])
  /\ UNCHANGED <<hostVars, subscribed>>

TakeSubscribe ==
  /\ Head(toHost).req = "subscribe"
  /\ subscribed' = TRUE
  /\ toStreamer' = Append(toStreamer, [re |-> "subscribe", snap |-> snap])
  /\ UNCHANGED hostVars

\* spawn: a session the host holds is returned as it is, one it is starting is
\* waited for.
TakeSpawn ==
  /\ Head(toHost).req = "spawn"
  /\ LET s == Head(toHost).s
     IN  IF s \in held
           THEN /\ toStreamer' = Append(toStreamer, [re |-> "spawned", s |-> s])
                /\ UNCHANGED <<starting, asked>>
           ELSE /\ starting' = starting \cup {s} /\ asked' = asked \cup {s}
                /\ UNCHANGED toStreamer
  /\ UNCHANGED <<held, snap, gates, missed, subscribed>>

\* kill with hold: putOnHold and forget.
TakeHold ==
  /\ Head(toHost).req = "hold"
  /\ LET s == Head(toHost).s
     IN  /\ held' = held \ {s}
         /\ snap' = [snap EXCEPT ![s] = 0]
         /\ toStreamer' = IF s \in held THEN Emitted(toStreamer, <<[ev |-> "idle", s |-> s]>>)
                                        ELSE toStreamer
  /\ UNCHANGED <<starting, asked, gates, missed, subscribed>>

HostTake ==
  /\ toHost # <<>>
  /\ toHost' = Tail(toHost)
  /\ TakeStatus \/ TakeSubscribe \/ TakeSpawn \/ TakeHold
  /\ UNCHANGED streamerVars

\* The spawn under way ends; a requester that is gone gets no reply.
HostSpawned(s) ==
  /\ s \in starting
  /\ starting' = starting \ {s} /\ asked' = asked \ {s}
  /\ held' = held \cup {s}
  /\ toStreamer' = IF s \in asked THEN Append(toStreamer, [re |-> "spawned", s |-> s])
                                  ELSE toStreamer
  /\ Unheard(s, s \in asked)
  /\ UNCHANGED <<snap, gates, subscribed, toHost, streamerVars>>

HostSpawnFails(s) ==
  /\ s \in starting
  /\ starting' = starting \ {s} /\ asked' = asked \ {s}
  /\ toStreamer' = IF s \in asked THEN Append(toStreamer, [re |-> "failed", s |-> s])
                                  ELSE toStreamer
  /\ UNCHANGED <<held, snap, gates, missed, subscribed, toHost, streamerVars>>

\* Mutant: the reaper does not announce what it released.
HostEndsSilently(s, evs) ==
  /\ s \in held
  /\ held' = held \ {s} /\ Unheard(s, subscribed)
  /\ snap' = [snap EXCEPT ![s] = 0]
  /\ UNCHANGED <<starting, asked, gates, subscribed, toHost, toStreamer, streamerVars>>

\* A session ends: its process exits (an idle status), or the idle reaper
\* releases it (an idle status and an exit event).
HostEnds(s, evs) ==
  /\ s \in held
  /\ held' = held \ {s} /\ Unheard(s, subscribed)
  /\ snap' = [snap EXCEPT ![s] = 0]
  /\ toStreamer' = Emitted(toStreamer, evs)
  /\ UNCHANGED <<starting, asked, gates, subscribed, toHost, streamerVars>>

HostExit(s)  == HostEnds(s, <<[ev |-> "idle", s |-> s]>>)
ReapIdle(s)  == HostEnds(s, <<[ev |-> "idle", s |-> s], [ev |-> "exit", s |-> s]>>)

\* A change of status, or ready, of a session that goes on.
HostStatus(s) ==
  /\ s \in held
  /\ toStreamer' = Emitted(toStreamer, <<[ev |-> "status", s |-> s]>>)
  /\ UNCHANGED <<hostVars, subscribed, toHost, streamerVars>>

\* onPermissionChange: a new occurrence, or the end of it.
HostGate(s) ==
  /\ s \in held /\ gates < MaxGates
  /\ gates' = gates + 1
  /\ snap' = [snap EXCEPT ![s] = gates + 1]
  /\ toStreamer' = Emitted(toStreamer, <<[ev |-> "gate", s |-> s, occ |-> gates + 1]>>)
  /\ UNCHANGED <<held, starting, asked, missed, subscribed, toHost, streamerVars>>

HostGateGone(s) ==
  /\ s \in held /\ snap[s] # 0
  /\ snap' = [snap EXCEPT ![s] = 0]
  /\ toStreamer' = Emitted(toStreamer, <<[ev |-> "gone", s |-> s]>>)
  /\ UNCHANGED <<held, starting, asked, gates, missed, subscribed, toHost, streamerVars>>

-----------------------------------------------------------------------------
(* The streamer.                                                           *)

\* connect(), its three stretches between the awaits.
Connect ==
  /\ phase = "off"
  /\ phase' = "status"
  /\ toHost' = Append(toHost, [req |-> "status"])
  /\ UNCHANGED <<hostVars, subscribed, toStreamer, seed, chunk, mirror, shown, call, restarts,
                 overwritten>>

Subscribe ==
  /\ phase = "seeded" /\ ~chunk
  /\ phase' = "subscribe"
  /\ toHost' = Append(toHost, [req |-> "subscribe"])
  /\ UNCHANGED <<hostVars, subscribed, toStreamer, seed, chunk, mirror, shown, call, restarts,
                 overwritten>>

\* refreshMirror and restorePromptSnapshots.
Restore ==
  /\ phase = "restoring" /\ ~chunk
  /\ phase' = "ready"
  /\ mirror' = seed.held /\ seed' = NoSeed
  /\ shown' = [s \in HostSessions |-> IF seed.snap[s] # 0 THEN seed.snap[s] ELSE shown[s]]
  /\ UNCHANGED <<hostVars, subscribed, toHost, toStreamer, chunk, call, restarts,
                 overwritten>>

\* start, resumed after its reply.
Adopt(s) ==
  /\ call[s] = "answered" /\ ~chunk
  /\ call' = [call EXCEPT ![s] = "none"]
  /\ mirror' = mirror \cup {s}
  /\ UNCHANGED <<hostVars, subscribed, toHost, toStreamer, phase, seed, chunk, shown, restarts,
                 overwritten>>

Awaited == phase \in {"seeded", "restoring"} \/ \E s \in HostSessions : call[s] = "answered"

Start(s) ==
  /\ phase = "ready" /\ ~chunk /\ s \notin mirror /\ call[s] = "none"
  /\ call' = [call EXCEPT ![s] = "waiting"]
  /\ toHost' = Append(toHost, [req |-> "spawn", s |-> s])
  /\ UNCHANGED <<hostVars, subscribed, toStreamer, phase, seed, chunk, mirror, shown, restarts,
                 overwritten>>

\* putOnHold: the mirror drops the session before the host has heard of it.
Hold(s) ==
  /\ phase = "ready" /\ ~chunk /\ s \in mirror
  /\ mirror' = mirror \ {s}
  /\ toHost' = Append(toHost, [req |-> "hold", s |-> s])
  /\ UNCHANGED <<hostVars, subscribed, toStreamer, phase, seed, chunk, shown, call, restarts,
                 overwritten>>

\* handleEvent: a status that is not final puts the session (back) into the
\* mirror.  The end of a session takes its gate along.
MirrorAfter(m) ==
  CASE m.ev = "status"           -> mirror \cup {m.s}
    [] m.ev \in {"idle", "exit"} -> mirror \ {m.s}
    [] OTHER                     -> mirror

ShownAfter(m) ==
  CASE m.ev = "gate"             -> [shown EXCEPT ![m.s] = m.occ]
    [] m.ev \in {"gone", "idle"} -> [shown EXCEPT ![m.s] = 0]
    [] OTHER                     -> shown

HandleEvent(m) ==
  /\ "ev" \in DOMAIN m
  /\ mirror' = MirrorAfter(m)
  /\ shown' = ShownAfter(m)
  /\ UNCHANGED <<phase, seed, call>>

\* handleLine on a reply: the awaiting code is made ready, not run.  A request
\* fails once at most.
HandleReply(m) ==
  /\ "re" \in DOMAIN m
  /\ \/ /\ m.re = "status" /\ phase' = "seeded"
        /\ seed' = [seed EXCEPT !.held = m.held] /\ UNCHANGED call
     \/ /\ m.re = "subscribe" /\ phase' = "restoring"
        /\ seed' = [seed EXCEPT !.snap = m.snap] /\ UNCHANGED call
     \/ /\ m.re = "spawned" /\ call' = [call EXCEPT ![m.s] = "answered"]
        /\ UNCHANGED <<phase, seed>>
     \/ /\ m.re = "failed"
        /\ call' = [call EXCEPT ![m.s] = IF call[m.s] = "waiting" THEN "none" ELSE call[m.s]]
        /\ UNCHANGED <<phase, seed>>
  /\ UNCHANGED <<mirror, shown>>

\* An event that Restore or Adopt will put an older state over.
Overwrites(m) ==
  "ev" \in DOMAIN m /\ (phase = "restoring" \/ call[m.s] = "answered")

\* A message is the first of a chunk only when nothing resumable is left.
Deliver ==
  /\ toStreamer # <<>>
  /\ chunk \/ ~Awaited
  /\ LET m == Head(toStreamer)
     IN  /\ HandleEvent(m) \/ HandleReply(m)
         /\ overwritten' = overwritten \cup {s \in HostSessions : Overwrites(m) /\ m.s = s}
  /\ toStreamer' = Tail(toStreamer)
  /\ chunk' \in IF Len(toStreamer) = 1 THEN {FALSE} ELSE BOOLEAN
  /\ UNCHANGED <<hostVars, subscribed, toHost, restarts>>

\* The streamer goes away and comes back with nothing; what was on its socket is
\* lost, the sessions and the spawns under way are not.
Restart ==
  /\ phase # "off" /\ restarts < MaxRestarts
  /\ restarts' = restarts + 1
  /\ phase' = "off" /\ chunk' = FALSE /\ subscribed' = FALSE /\ asked' = {}
  /\ toHost' = <<>> /\ toStreamer' = <<>>
  /\ seed' = NoSeed
  /\ mirror' = {} /\ shown' = NoGates /\ call' = NoCalls
  /\ missed' = {} /\ overwritten' = {}
  /\ UNCHANGED <<held, starting, snap, gates>>

\* Mutant: a lost connection leaves its requests waiting.
ConnectionLostSilent ==
  /\ phase = "ready" /\ restarts < MaxRestarts
  /\ restarts' = restarts + 1
  /\ phase' = "closed" /\ chunk' = FALSE /\ subscribed' = FALSE /\ asked' = {}
  /\ toHost' = <<>> /\ toStreamer' = <<>>
  /\ missed' = {} /\ overwritten' = {}
  /\ UNCHANGED <<held, starting, snap, gates, seed, mirror, shown, call>>

\* handleClose: the socket drops under a streamer that goes on; every request
\* fails and the runner is of no more use.
ConnectionLost ==
  /\ phase = "ready" /\ restarts < MaxRestarts
  /\ restarts' = restarts + 1
  /\ phase' = "closed" /\ chunk' = FALSE /\ subscribed' = FALSE /\ asked' = {}
  /\ toHost' = <<>> /\ toStreamer' = <<>>
  /\ call' = [s \in HostSessions |-> IF call[s] = "waiting" THEN "none" ELSE call[s]]
  /\ missed' = {} /\ overwritten' = {}
  /\ UNCHANGED <<held, starting, snap, gates, seed, mirror, shown>>

-----------------------------------------------------------------------------
MirrorInit ==
  /\ held \in SUBSET HostSessions /\ starting = {} /\ asked = {}
  /\ snap = NoGates /\ gates = 0 /\ subscribed = FALSE
  /\ toHost = <<>> /\ toStreamer = <<>>
  /\ phase = "off" /\ seed = NoSeed /\ chunk = FALSE
  /\ mirror = {} /\ shown = NoGates /\ call = NoCalls
  /\ restarts = 0 /\ missed = {} /\ overwritten = {}

\* What fills the wires without having been asked for is bounded.
WireBounded == Len(toHost') <= MaxWire /\ Len(toStreamer') <= MaxWire

HostNext ==
  \/ HostTake
  \/ \E s \in HostSessions : HostSpawned(s) \/ HostSpawnFails(s)
  \/ /\ \E s \in HostSessions : \/ HostExit(s) \/ ReapIdle(s) \/ HostStatus(s)
                             \/ HostGate(s) \/ HostGateGone(s)
     /\ WireBounded

StreamerNext ==
  \/ Connect \/ Subscribe \/ Restore \/ Deliver \/ Restart \/ ConnectionLost
  \/ \E s \in HostSessions : Adopt(s) \/ (Start(s) /\ WireBounded) \/ (Hold(s) /\ WireBounded)

MirrorNext == HostNext \/ StreamerNext

MirrorSpec == MirrorInit /\ [][MirrorNext]_mirrorVars

\* The event loops of both processes go on, and a spawn ends one way or another.
Fairness ==
  /\ WF_mirrorVars(HostTake) /\ WF_mirrorVars(Deliver)
  /\ WF_mirrorVars(Subscribe) /\ WF_mirrorVars(Restore)
  /\ \A s \in HostSessions :
       WF_mirrorVars(HostSpawned(s) \/ HostSpawnFails(s)) /\ WF_mirrorVars(Adopt(s))

MirrorFairSpec == MirrorSpec /\ Fairness

-----------------------------------------------------------------------------
(* Properties.                                                             *)

\* Every part of the streamer that survives a message is of its type, and what
\* the host is starting it does not hold yet.
MirrorTypeOK ==
  /\ held \subseteq HostSessions /\ starting \subseteq HostSessions /\ asked \subseteq starting
  /\ starting \cap held = {}
  /\ snap \in [HostSessions -> 0..gates] /\ shown \in [HostSessions -> 0..gates]
  /\ gates \in 0..MaxGates /\ restarts \in 0..MaxRestarts
  /\ phase \in {"off", "status", "seeded", "subscribe", "restoring", "ready", "closed"}
  /\ subscribed \in BOOLEAN /\ chunk \in BOOLEAN
  /\ seed \in [held : SUBSET HostSessions, snap : [HostSessions -> 0..gates]]
  /\ mirror \subseteq HostSessions
  /\ missed \subseteq HostSessions /\ overwritten \subseteq HostSessions
  /\ call \in [HostSessions -> {"none", "waiting", "answered"}]

\* Nothing is on its way and nothing waits to be handled.
StartSettled ==
  /\ phase = "ready" /\ ~Awaited
  /\ toHost = <<>> /\ toStreamer = <<>> /\ starting = {}

\* A settled mirror has a session if and only if the host has it, unless the
\* session's start or end was told to nobody, or an event of it was overwritten
\* by a reply of its chunk: those are all the ways the mirror can be wrong.
MirrorIsFaithful ==
  StartSettled => \A s \in HostSessions \ (missed \cup overwritten) : s \in mirror <=> s \in held

\* A settled mirror invents no session (the comment on RemoteSessionRunner).  It
\* does: nothing repairs a mirror that missed the end of a session.
MirrorInventsNothing == StartSettled => mirror \subseteq held

\* A settled server knows every gate the host's detectors have open, and none
\* that they closed (restorePromptSnapshots, handleEvent), whatever started or
\* ended while it subscribed: only an overwritten event can make it wrong.
GatesAreFaithful ==
  StartSettled => \A s \in HostSessions \ overwritten : shown[s] = snap[s]

\* A settled streamer knows of the host's sessions and gates what the host does,
\* but for what it was not told or has overwritten.
MirrorInv == MirrorTypeOK /\ MirrorIsFaithful /\ GatesAreFaithful

\* A start that was asked for succeeds or fails: the host answers every request
\* and a lost connection fails those it loses.
EveryStartSettles == \A s \in HostSessions : call[s] = "waiting" ~> call[s] # "waiting"
=============================================================================
