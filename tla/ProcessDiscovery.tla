--------------------------- MODULE ProcessDiscovery ---------------------------
(***************************************************************************)
(* The agents that run on the host outside the streamer, as it finds them  *)
(* (discoverClaudeProcesses), lists them beside its own sessions           *)
(* (SessionStore.list) and ends them on request (handleTerminate).         *)
(*                                                                         *)
(* A sweep lists the processes, then asks what each of them runs: Claude   *)
(* says so in a file named by its pid, which may outlive it; Codex holds   *)
(* its rollout open; both may have said so on their command line. Pids are *)
(* reused, and sweeps overlap: the list shares one, a request to end a     *)
(* process has its own.                                                    *)
(***************************************************************************)
EXTENDS Integers, FiniteSets

CONSTANTS
  HostPids,  \* pids
  Chats,     \* conversations of Claude
  Rollouts,  \* conversations of Codex
  OwnChats,  \* conversations of Claude that sessions of ours may run
  HostBounds \* bounds: agents started, times a Claude changes its conversation, sweeps

ASSUME DiscoveryAssumption ==
  /\ Chats \cap Rollouts = {} /\ OwnChats \subseteq Chats
  /\ HostPids \subseteq Nat
  /\ HostBounds \subseteq [agents : Nat, moves : Nat, sweeps : Nat]

None == "none"

\* The id under which a Codex session starts here.
Placeholder == "placeholder"

Conversations == Chats \cup Rollouts
OwnIds == OwnChats \cup {Placeholder}

Free == [born |-> 0, codex |-> FALSE, argv |-> None, runs |-> None, ran |-> {}, of |-> None]
NoFile == [says |-> None, born |-> 0]
NoRow == [conversation |-> None, codex |-> FALSE, born |-> 0]
NoFlight == [stage |-> "idle", seen |-> [p \in HostPids |-> NoRow]]
NoSession == [state |-> "absent", bound |-> None]
NoKill == [ran |-> {}, reused |-> FALSE, ours |-> FALSE]
NoStop ==
  [stage |-> "idle", conversation |-> None, pid |-> 0, killed |-> NoKill,
   seen |-> [p \in HostPids |-> NoRow]]

VARIABLES
  ticks,       \* Linux: a process's start can be told to the tick
  agents,      \* the agent process of each pid: when it was born (the n-th), what its
               \* command line says, what it runs and has run, the session it is a child of
  registry,    \* Claude's file for each pid
  own,         \* the sessions of the store: live, stub (held, or of an earlier run), exited
  discovered,  \* the discovered processes of the store, by pid
  cacheFresh,  \* the last enumeration is younger than its 15 s, and not dropped
  flight,      \* the sweep the list requests share
  stop,        \* a request to end the process of a conversation, with the process that got SIGTERM
  bounds,      \* the bounds of this behaviour
  born, moves, sweeps

discoveryVars ==
  <<ticks, agents, registry, own, discovered, cacheFresh, flight, stop, bounds, born, moves,
    sweeps>>

storeVars == <<own, discovered, cacheFresh, flight, stop, sweeps>>
hostVars == <<ticks, agents, registry, bounds, born, moves>>

-----------------------------------------------------------------------------
(* The host.                                                               *)

Running(p) == agents[p] # Free

LiveChild(s) == \E p \in HostPids : agents[p].of = s

\* A Claude writes its file, an old version does not.
FileOf(p, a) == {registry[p]} \cup (IF a.codex THEN {} ELSE {[says |-> a.runs, born |-> a.born]})

\* A process takes a pid, the lowest free one so as not to tell the pids apart.
Born(p, a) ==
  /\ ~Running(p) /\ \A q \in HostPids : q < p => Running(q)
  /\ born < bounds.agents
  /\ born' = born + 1
  /\ agents' = [agents EXCEPT ![p] = a]
  /\ \E f \in FileOf(p, a) : registry' = [registry EXCEPT ![p] = f]
  /\ UNCHANGED <<ticks, bounds, moves>>

Agent(c, stated, s) ==
  [born |-> born + 1, codex |-> c \in Rollouts, argv |-> IF stated THEN c ELSE None,
   runs |-> c, ran |-> {c}, of |-> s]

\* Somebody starts an agent in a terminal, with the conversation stated or not.
OutsideStarts(p) ==
  /\ \E c \in Conversations, stated \in BOOLEAN : Born(p, Agent(c, stated, None))
  /\ UNCHANGED storeVars

\* A Claude is told to go on with another conversation, and says so in its file.
MovesOn(p) ==
  /\ Running(p) /\ ~agents[p].codex /\ moves < bounds.moves
  /\ moves' = moves + 1
  /\ \E c \in Chats \ {agents[p].runs} :
       LET a == [agents[p] EXCEPT !.runs = c, !.ran = @ \cup {c}]
       IN  /\ agents' = [agents EXCEPT ![p] = a]
           /\ \E f \in FileOf(p, a) : registry' = [registry EXCEPT ![p] = f]
  /\ UNCHANGED <<ticks, bounds, born>> /\ UNCHANGED storeVars

\* A process ends; a file it wrote may stay. A child of ours leaves its record.
ProcessEnds(p) ==
  /\ Running(p)
  /\ agents' = [agents EXCEPT ![p] = Free]
  /\ registry' \in {registry, [registry EXCEPT ![p] = NoFile]}
  /\ own' = [s \in OwnIds |-> IF s = agents[p].of /\ own[s].state = "live"
                              THEN [own[s] EXCEPT !.state = "exited"] ELSE own[s]]
  /\ UNCHANGED <<ticks, discovered, cacheFresh, flight, stop, bounds, born, moves, sweeps>>

-----------------------------------------------------------------------------
(* Our own sessions.                                                       *)

(* A start or a resume. Claude is given its id; Codex takes a rollout that *)
(* the session learns later.                                               *)
SessionStarts(s, p) ==
  /\ own[s].state # "live" /\ ~LiveChild(s)
  /\ \E c \in (IF s # Placeholder THEN {s}
               ELSE IF own[s].bound # None THEN {own[s].bound} ELSE Rollouts) :
       Born(p, Agent(c, s # Placeholder \/ own[s].bound # None, s))
  /\ own' = [own EXCEPT ![s].state = "live"]
  /\ cacheFresh' = FALSE
  /\ UNCHANGED <<discovered, flight, stop, sweeps>>

\* bindConversation: the session's rollout is known.
LearnsRollout(s, p) ==
  /\ agents[p].of = s /\ agents[p].codex
  /\ own[s].state = "live" /\ own[s].bound = None
  /\ own' = [own EXCEPT ![s].bound = agents[p].runs]
  /\ UNCHANGED hostVars /\ UNCHANGED <<discovered, cacheFresh, flight, stop, sweeps>>

\* putOnHold: the record is a stub at once, the process ends in its time.
Holds(s) ==
  /\ own[s].state = "live"
  /\ own' = [own EXCEPT ![s].state = "stub"]
  /\ UNCHANGED hostVars /\ UNCHANGED <<discovered, cacheFresh, flight, stop, sweeps>>

-----------------------------------------------------------------------------
(* A sweep.                                                                *)

\* The id a command line states: that of a resume.
Stated(p) == agents[p].argv

\* The processes there are.
Enumerated ==
  [p \in HostPids |-> [conversation |-> Stated(p), codex |-> agents[p].codex, born |-> agents[p].born]]

\* The file is another process's: its start has another tick.
OfAnother(p) == ticks /\ Running(p) /\ registry[p].born # agents[p].born

\* Mutant: Claude's file is believed whatever the start of the process.
RegisteredTrusting(p, row) == {registry[p].says} \ {None}

(* What Claude's file says of a pid that was listed as `row`; one older    *)
(* than the process is believed or not, for it has a minute of slack.      *)
Registered(p, row) ==
  IF OfAnother(p) THEN {}
  ELSE ({registry[p].says} \ {None}) \cup {f \in {None} : registry[p].born < row.born}

\* The one rollout a pid holds open, unless it cannot be told.
HeldOpen(p) == {None} \cup (IF agents[p].codex THEN {agents[p].runs} ELSE {})

(* The conversation of a process: Claude's file wins over the command      *)
(* line, a rollout held open stands in for it.                             *)
Names(p, row) ==
  IF row.codex THEN IF row.conversation # None THEN {row.conversation} ELSE HeldOpen(p)
  ELSE LET says == Registered(p, row)
       IN  IF says = {} THEN {row.conversation}
           ELSE {IF c = None THEN row.conversation ELSE c : c \in says}

\* The sweep `seen` with every process asked.
Asked(seen) ==
  {[p \in HostPids |-> [seen[p] EXCEPT !.conversation = says[p]]] :
     says \in {f \in [HostPids -> Conversations \cup {None}] :
                 \A p \in HostPids :
                   f[p] \in (IF seen[p] = NoRow THEN {None} ELSE Names(p, seen[p]))}}

(* A list request: served by the cache while it is fresh, by the sweep     *)
(* under way, or by a new one.                                             *)
ListRefreshes ==
  /\ ~cacheFresh /\ flight.stage = "idle" /\ sweeps < bounds.sweeps
  /\ sweeps' = sweeps + 1
  /\ flight' = [stage |-> "listed", seen |-> Enumerated]
  /\ UNCHANGED hostVars /\ UNCHANGED <<own, discovered, cacheFresh, stop>>

\* The last of the processes was asked: setDiscovered.
FlightLands ==
  /\ flight.stage = "listed"
  /\ discovered' \in Asked(flight.seen)
  /\ cacheFresh' = TRUE
  /\ flight' = NoFlight
  /\ UNCHANGED hostVars /\ UNCHANGED <<own, stop, sweeps>>

\* The enumeration fails: what was known stays.
FlightFails ==
  /\ flight.stage = "listed"
  /\ flight' = NoFlight
  /\ UNCHANGED hostVars /\ UNCHANGED <<own, discovered, cacheFresh, stop, sweeps>>

CacheAges ==
  /\ cacheFresh /\ cacheFresh' = FALSE
  /\ UNCHANGED hostVars /\ UNCHANGED <<own, discovered, flight, stop, sweeps>>

-----------------------------------------------------------------------------
(* The rows of the list.                                                   *)

IsStub(s) == own[s].state = "stub"

ConversationOf(s) == IF own[s].bound # None THEN own[s].bound ELSE s

\* Mutant: a session owns the conversation of its id only.
OwnsIdOnly(c) ==
  \E s \in OwnIds : own[s].state \in {"live", "exited"} /\ s = c

\* ownsConversation: a record with a process, or that ended by itself, under any of its ids.
Owns(c) ==
  \E s \in OwnIds : own[s].state \in {"live", "exited"} /\ c \in {s, own[s].bound}

HasDiscovered(c) == \E p \in HostPids : discovered[p].conversation = c /\ c # None

\* The outside process of a conversation gives way to a session, a stub to it.
OwnRows ==
  {[id |-> s, stands |-> ConversationOf(s), pid |-> 0] :
     s \in {t \in OwnIds : own[t].state # "absent" /\ ~(IsStub(t) /\ HasDiscovered(ConversationOf(t)))}}

\* One row for each conversation, of the first process that runs it.
ExternalRows ==
  {[id |-> c, stands |-> c, pid |-> CHOOSE p \in HostPids : discovered[p].conversation = c] :
     c \in {d \in Conversations : HasDiscovered(d) /\ ~Owns(d) /\ ~(\E r \in OwnRows : r.id = d)}}

-----------------------------------------------------------------------------
(* Ending a process outside.                                               *)

\* SIGTERM to a pid, whoever has it now.
Terminated(p, row) ==
  [ran |-> agents[p].ran, reused |-> agents[p].born # row.born,
   ours |-> agents[p].of # None /\ own[agents[p].of].state = "live"
            /\ agents[p].ran = {ConversationOf(agents[p].of)}]

Kills(c, p, row) ==
  stop' = [NoStop EXCEPT !.stage = "ending", !.conversation = c, !.pid = p,
                         !.killed = IF Running(p) THEN Terminated(p, row) ELSE NoKill]

\* handleTerminate sweeps for itself.
StopArrives(c) ==
  /\ stop.stage = "idle" /\ sweeps < bounds.sweeps
  /\ sweeps' = sweeps + 1
  /\ stop' = [NoStop EXCEPT !.stage = "listed", !.conversation = c, !.seen = Enumerated]
  /\ UNCHANGED hostVars /\ UNCHANGED <<own, discovered, cacheFresh, flight>>

StopAsks ==
  /\ stop.stage = "listed"
  /\ \E found \in Asked(stop.seen) : stop' = [stop EXCEPT !.stage = "asked", !.seen = found]
  /\ UNCHANGED hostVars /\ UNCHANGED <<own, discovered, cacheFresh, flight, sweeps>>

(* resolveExternalOwner: the sweep replaces what the store knows, then the *)
(* row is looked up in it. A session of ours refuses; a rollout without a  *)
(* row may still be held open by somebody.                                 *)
StopDecides ==
  /\ stop.stage = "asked"
  /\ LET c == stop.conversation
         found == {p \in HostPids : stop.seen[p].conversation = c}
         shown == c \in OwnIds /\ own[c].state # "absent" /\ ~(IsStub(c) /\ found # {})
     IN  IF shown \/ Owns(c) THEN stop' = NoStop
         ELSE IF found # {} THEN \E p \in found : Kills(c, p, stop.seen[p])
         ELSE stop' = (IF c \in Rollouts THEN [NoStop EXCEPT !.stage = "probing", !.conversation = c]
                       ELSE NoStop)
  /\ discovered' = stop.seen
  /\ cacheFresh' = FALSE
  /\ UNCHANGED hostVars /\ UNCHANGED <<own, flight, sweeps>>

(* resolveCodexRolloutOwner: whoever holds the rollout open now. Whether   *)
(* it is a session of ours was asked before the probe.                     *)
RolloutProbed ==
  /\ stop.stage = "probing"
  /\ LET holders == {p \in HostPids : agents[p].codex /\ agents[p].runs = stop.conversation}
     IN  IF holders = {} THEN stop' = NoStop
         ELSE \E p \in holders : Kills(stop.conversation, p, [NoRow EXCEPT !.born = agents[p].born])
  /\ UNCHANGED hostVars /\ UNCHANGED <<own, discovered, cacheFresh, flight, sweeps>>

\* The pid is gone: the row goes at once. Or it is not, within the wait.
StopSettles ==
  /\ stop.stage = "ending"
  /\ stop' = NoStop
  /\ \/ /\ ~Running(stop.pid)
        /\ discovered' = [discovered EXCEPT ![stop.pid] = NoRow]
        /\ cacheFresh' = FALSE
     \/ Running(stop.pid) /\ UNCHANGED <<discovered, cacheFresh>>
  /\ UNCHANGED hostVars /\ UNCHANGED <<own, flight, sweeps>>

-----------------------------------------------------------------------------
DiscoveryInit ==
  /\ ticks \in BOOLEAN
  /\ agents = [p \in HostPids |-> Free]
  /\ registry = [p \in HostPids |-> NoFile]
  /\ own = [s \in OwnIds |-> NoSession]
  /\ discovered = [p \in HostPids |-> NoRow]
  /\ cacheFresh = FALSE
  /\ flight = NoFlight /\ stop = NoStop
  /\ bounds \in HostBounds
  /\ born = 0 /\ moves = 0 /\ sweeps = 0

DiscoveryNext ==
  \/ \E p \in HostPids : OutsideStarts(p) \/ MovesOn(p) \/ ProcessEnds(p)
  \/ \E s \in OwnIds, p \in HostPids : SessionStarts(s, p) \/ LearnsRollout(s, p)
  \/ \E s \in OwnIds : Holds(s)
  \/ ListRefreshes \/ FlightLands \/ FlightFails \/ CacheAges
  \/ \E c \in Conversations : StopArrives(c)
  \/ StopAsks \/ StopDecides \/ RolloutProbed \/ StopSettles

DiscoverySpec == DiscoveryInit /\ [][DiscoveryNext]_discoveryVars

-----------------------------------------------------------------------------
DiscoveryType ==
  /\ ticks \in BOOLEAN /\ cacheFresh \in BOOLEAN
  /\ \A p \in HostPids :
       /\ agents[p].of \in OwnIds \cup {None} /\ agents[p].born \in 0 .. born
       /\ Running(p) => agents[p].runs \in agents[p].ran
       /\ registry[p].says \in Chats \cup {None} /\ registry[p].born \in 0 .. born
       /\ discovered[p].conversation \in Conversations \cup {None}
  /\ own \in [OwnIds -> [state : {"absent", "live", "stub", "exited"}, bound : Rollouts \cup {None}]]
  /\ flight.stage \in {"idle", "listed"}
  /\ stop.stage \in {"idle", "listed", "asked", "probing", "ending"}
  /\ bounds \in HostBounds
  /\ born \in 0 .. bounds.agents /\ moves \in 0 .. bounds.moves /\ sweeps \in 0 .. bounds.sweeps

(* Where the start of a process can be told to the tick, a request to end  *)
(* what runs a conversation ends a process that has run it, or one that    *)
(* took the pid after the sweep had listed it: no file of a dead process   *)
(* names its successor.                                                    *)
KillsWhoRanIt ==
  stop.stage = "ending" /\ stop.killed # NoKill /\ ticks =>
    stop.conversation \in stop.killed.ran \/ stop.killed.reused

(* A conversation is one row of the list, whatever stubs, bound sessions   *)
(* and outside processes know it by.                                       *)
OneRowEach ==
  \A r, q \in OwnRows \cup ExternalRows : r.stands = q.stands => r = q

(* The sweep sees our own children too. One that is live and never ran     *)
(* another conversation than its session's is not shown as an outside      *)
(* process, by whatever id the list or the sweep know it.                  *)
OwnChildrenHidden ==
  \A r \in ExternalRows :
    LET a == agents[r.pid]
    IN  a.born = discovered[r.pid].born /\ a.of # None /\ r.stands \in a.ran =>
          own[a.of].state # "live" \/ a.ran # {ConversationOf(a.of)}

DiscoveryInv == DiscoveryType /\ KillsWhoRanIt /\ OneRowEach /\ OwnChildrenHidden

(* Does not hold: a request to end an outside process never ends a live    *)
(* child of ours that only ran its session's conversation. The probe of a  *)
(* rollout asks whether it is ours before it awaits, and a resume may      *)
(* start in between; and any pid may change hands.                         *)
OwnChildrenSpared == stop.stage = "ending" => ~stop.killed.ours

(* Does not hold: a row that went with its process stays away. A sweep the *)
(* list had under way brings it back, and makes the cache of it fresh.     *)
DroppedStayAway ==
  [][\A p \in HostPids :
       discovered[p] = NoRow /\ ~Running(p) => discovered'[p] = NoRow]_discoveryVars

(* Does not hold: a record without a process does not shadow an outside    *)
(* process that runs its conversation. One whose agent ended by itself is  *)
(* no stub, and owns the conversation for as long as the server runs.      *)
DeadRecordsYield ==
  \A p \in HostPids :
    LET c == discovered[p].conversation
    IN  c # None /\ ~(\E s \in OwnIds : own[s].state = "live" /\ c \in {s, own[s].bound}) =>
          \E r \in ExternalRows : r.stands = c
=============================================================================
