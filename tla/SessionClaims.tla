---------------------------- MODULE SessionClaims ----------------------------
(***************************************************************************)
(* Who runs a conversation: resume, adopt and fork requests against the    *)
(* agents of this server and those started in a terminal.                  *)
(*                                                                         *)
(* One conversation.  A Claude session has one id; a Codex session is      *)
(* known to clients by a placeholder, "main", and to Codex by its rollout, *)
(* which is a legal id too.  A resume probes for other owners, awaits the  *)
(* discovery of processes, then starts an agent; an adopt stops the owner  *)
(* it finds first.  Every await lets other requests in.  The binding of    *)
(* the placeholder lives in the session store and in the registry row.     *)
(*                                                                         *)
(* Codex grants one writer per rollout and refuses the others after they   *)
(* have started.  Left out: project paths, extra directories, sub-agents,  *)
(* the windows of time (a write is recent until told otherwise).           *)
(***************************************************************************)
EXTENDS Integers, FiniteSets

CONSTANTS
  Claimants,     \* requests of clients
  Terminals,     \* agents that may be started in a terminal
  MaxAgentExits  \* exits of our agents, as a bound

VARIABLES
  claimProvider, \* "claude" or "codex"
  ours,          \* [ClaimIds -> number of our live agents]
  launching,     \* startPromises
  claimRow,      \* managed_sessions: bound_conversation_id of each id
  storeRecord,   \* session store: boundConversationId of each id
  carried,       \* boundConversationId of the object a start gave to its callers
  outside,       \* agents running in terminals
  lastWrite,     \* of the transcript: "old", "own" or "foreign"
  selfEnded,     \* selfPtyEndedAt
  contended,     \* contendedSessions
  agentExits,
  forks,         \* agents forked under the one idempotency key in use
  keyKnown,      \* IdempotencyStore has its result
  claim          \* the requests

claimVars == <<claimProvider, ours, launching, claimRow, storeRecord, carried,
               outside, lastWrite, selfEnded, contended, agentExits, forks, keyKnown, claim>>
tableVars == <<claimRow, storeRecord, carried>>
terminalVars == <<outside, lastWrite>>
forkVars == <<forks, keyKnown>>

ClaimIds == {"main", "rollout"}
Absent == "absent"
NoPid == "no pid"
Asked0 == [kind |-> "none", id |-> "main", phase |-> "idle", force |-> FALSE, pid |-> NoPid]

ClaimAt(q, phase) == claim[q].phase = phase
ClaimGoes(q, phase) == claim' = [claim EXCEPT ![q].phase = phase]
HasSession(id) == ours[id] > 0
Writers == Cardinality(outside) + ours["main"] + ours["rollout"]

(* resolveConversationTarget: what Codex calls the conversation.  A        *)
(* placeholder whose binding is nowhere cannot be found.                   *)
Resolves(id) ==
  \/ claimProvider = "claude" \/ id = "rollout"
  \/ claimRow[id] = "bound" \/ storeRecord[id] = "bound"

-----------------------------------------------------------------------------
(* Resume.                                                                 *)

(* resumeSession up to its first probe.                                    *)
ResumeArrives(q, id, force) ==
  /\ ClaimAt(q, "idle")
  /\ claimProvider = "claude" => id = "main"
  /\ claim' = [claim EXCEPT ![q] = [Asked0 EXCEPT !.kind = "resume", !.id = id, !.force = force,
       !.phase = IF HasSession(id) \/ ~Resolves(id) THEN "done"
                 ELSE IF claimProvider = "codex" THEN "probing" ELSE "listing"]]
  /\ UNCHANGED <<claimProvider, ours, launching, tableVars, terminalVars, selfEnded,
                 contended, agentExits, forkVars>>

(* findRolloutOwner: any process that holds the rollout open, our own      *)
(* agents' included; a look that fails finds none.                         *)
OwnerProbed(q) ==
  /\ ClaimAt(q, "probing")
  /\ \/ Writers > 0 /\ ClaimGoes(q, "done")
     \/ ClaimGoes(q, "listing")
  /\ UNCHANGED <<claimProvider, ours, launching, tableVars, terminalVars, selfEnded,
                 contended, agentExits, forkVars>>

(* conversationBusy, given the processes that were discovered: a write is  *)
(* not held against a session whose own agent ended after it.              *)
Busy(id, discovered) ==
  \/ lastWrite = "foreign" \/ (lastWrite = "own" /\ id \notin selfEnded)
  \/ discovered

(* The discovery may be late, stale or failed.  A forced resume goes on    *)
(* and is marked.                                                          *)
Discovered(q) ==
  /\ ClaimAt(q, "listing")
  /\ \E discovered \in BOOLEAN :
       LET busy == Busy(claim[q].id, discovered)
       IN  /\ ClaimGoes(q, IF busy /\ ~claim[q].force THEN "done" ELSE "starting")
           /\ contended' = IF busy /\ claim[q].force THEN contended \cup {claim[q].id} ELSE contended
  /\ UNCHANGED <<claimProvider, ours, launching, tableVars, terminalVars, selfEnded,
                 agentExits, forkVars>>

-----------------------------------------------------------------------------
(* Adopt: handleAdopt.                                                     *)

(* resolveExternalOwner finds a process that is not ours, by what was      *)
(* discovered or, for Codex, by who holds the rollout; or none.            *)
ExternalOwners == outside \cup {NoPid}
RolloutOwners == outside \cup {NoPid}

(* The owner is sent SIGTERM.                                              *)
AdoptArrives(q, id) ==
  /\ ClaimAt(q, "idle")
  /\ claimProvider = "claude" => id = "main"
  /\ \E pid \in (IF claimProvider = "codex" THEN RolloutOwners ELSE ExternalOwners) :
       claim' = [claim EXCEPT ![q] = [Asked0 EXCEPT !.kind = "adopt", !.id = id, !.pid = pid,
         !.phase = IF pid = NoPid \/ HasSession(id) \/ ~Resolves(id) THEN "done"
                   ELSE "killing"]]
  /\ UNCHANGED <<claimProvider, ours, launching, tableVars, terminalVars, selfEnded,
                 contended, agentExits, forkVars>>

(* waitForProcessExit: gone, or not within the time.                       *)
Exited(pid) == pid \notin outside

KillSettles(q) ==
  /\ ClaimAt(q, "killing")
  /\ ClaimGoes(q, IF Exited(claim[q].pid) THEN "starting" ELSE "done")
  /\ UNCHANGED <<claimProvider, ours, launching, tableVars, terminalVars, selfEnded,
                 contended, agentExits, forkVars>>

-----------------------------------------------------------------------------
(* start of the runners, for both.  Whoever shares a start is given the    *)
(* same session object, whoever finds the agent running a copy of its own. *)

\* Mutant: a start under way is not joined.
StartAgentAlone(q) ==
  /\ ClaimAt(q, "starting")
  /\ IF HasSession(claim[q].id)
     THEN ClaimGoes(q, "attached") /\ UNCHANGED launching
     ELSE ClaimGoes(q, "launching") /\ launching' = [launching EXCEPT ![claim[q].id] = TRUE]
  /\ UNCHANGED <<claimProvider, ours, tableVars, terminalVars, selfEnded, contended,
                 agentExits, forkVars>>

StartAgent(q) ==
  /\ ClaimAt(q, "starting")
  /\ IF HasSession(claim[q].id)
     THEN ClaimGoes(q, "attached") /\ UNCHANGED launching
     ELSE IF launching[claim[q].id]
     THEN ClaimGoes(q, "joined") /\ UNCHANGED launching
     ELSE ClaimGoes(q, "launching") /\ launching' = [launching EXCEPT ![claim[q].id] = TRUE]
  /\ UNCHANGED <<claimProvider, ours, tableVars, terminalVars, selfEnded, contended,
                 agentExits, forkVars>>

(* doStart spawns the agent, or throws; whoever joined it shares the end.  *)
AgentSpawns(q) ==
  LET id == claim[q].id
      sharing == {q} \cup {o \in Claimants : ClaimAt(o, "joined") /\ claim[o].id = id}
  IN  /\ ClaimAt(q, "launching")
      /\ launching' = [launching EXCEPT ![id] = FALSE]
      /\ \E spawned \in BOOLEAN :
           /\ ours' = IF spawned THEN [ours EXCEPT ![id] = @ + 1] ELSE ours
           /\ carried' = IF spawned THEN [carried EXCEPT ![id] = "unbound"] ELSE carried
           /\ claim' = [o \in Claimants |->
                        IF o \in sharing
                        THEN [claim[o] EXCEPT !.phase = IF spawned THEN "spawned" ELSE "done"]
                        ELSE claim[o]]
      /\ UNCHANGED <<claimProvider, claimRow, storeRecord, terminalVars, selfEnded,
                     contended, agentExits, forkVars>>

(* addManaged and recordSessionSpawn overwrite what they held with the     *)
(* session object.  A resume sets the binding on it first, an adopt does   *)
(* not.  A Codex resume waits for the agent's outcome.                     *)
AgentRecorded(q) ==
  LET id == claim[q].id
      binding == IF claimProvider = "codex" /\ id = "main" /\ claim[q].kind = "resume"
                 THEN "bound"
                 ELSE IF ClaimAt(q, "spawned") THEN carried[id] ELSE "unbound"
  IN  /\ ClaimAt(q, "spawned") \/ ClaimAt(q, "attached")
      /\ claimRow' = [claimRow EXCEPT ![id] = binding]
      /\ storeRecord' = [storeRecord EXCEPT ![id] = binding]
      /\ carried' = IF ClaimAt(q, "spawned") THEN [carried EXCEPT ![id] = binding] ELSE carried
      /\ ClaimGoes(q, IF claimProvider = "codex" /\ claim[q].kind = "resume" THEN "awaiting"
                 ELSE "done")
      /\ UNCHANGED <<claimProvider, ours, launching, terminalVars, selfEnded, contended,
                     agentExits, forkVars>>

(* waitForStartupOutcome: ready, or its time is up.                        *)
OutcomeReady(q) ==
  /\ ClaimAt(q, "awaiting")
  /\ ClaimGoes(q, "done")
  /\ UNCHANGED <<claimProvider, ours, launching, tableVars, terminalVars, selfEnded,
                 contended, agentExits, forkVars>>

(* abandonFailedStart: the session is forgotten, its row deleted.          *)
OutcomeFailed(q) ==
  LET id == claim[q].id
  IN  /\ ClaimAt(q, "failed")
      /\ ClaimGoes(q, "done")
      /\ claimRow' = [claimRow EXCEPT ![id] = Absent]
      /\ storeRecord' = [storeRecord EXCEPT ![id] = Absent]
      /\ selfEnded' = selfEnded \ {id} /\ contended' = contended \ {id}
      /\ UNCHANGED <<claimProvider, ours, launching, carried, terminalVars, agentExits, forkVars>>

-----------------------------------------------------------------------------
(* Agents.                                                                 *)

(* One of ours ends, refused by Codex or for any other reason: idle.       *)
AgentEnds(id) ==
  /\ HasSession(id) /\ agentExits < MaxAgentExits
  /\ agentExits' = agentExits + 1
  /\ ours' = [ours EXCEPT ![id] = @ - 1]
  /\ selfEnded' = selfEnded \cup {id} /\ contended' = contended \ {id}
  /\ lastWrite' = "own"
  /\ claim' = [q \in Claimants |-> IF ClaimAt(q, "awaiting") /\ claim[q].id = id
                               THEN [claim[q] EXCEPT !.phase = "failed"] ELSE claim[q]]
  /\ UNCHANGED <<claimProvider, launching, tableVars, outside, forkVars>>

(* Somebody opens the conversation in a terminal.                          *)
TerminalOpens(p) ==
  /\ p \notin outside
  /\ claimProvider = "codex" => Writers = 0
  /\ outside' = outside \cup {p} /\ lastWrite' = "foreign"
  /\ UNCHANGED <<claimProvider, ours, launching, tableVars, selfEnded, contended,
                 agentExits, forkVars, claim>>

TerminalCloses(p) ==
  /\ p \in outside
  /\ outside' = outside \ {p}
  /\ UNCHANGED <<claimProvider, ours, launching, tableVars, lastWrite, selfEnded, contended,
                 agentExits, forkVars, claim>>

WriteGrowsOld ==
  /\ lastWrite # "old" /\ lastWrite' = "old"
  /\ UNCHANGED <<claimProvider, ours, launching, tableVars, outside, selfEnded, contended,
                 agentExits, forkVars, claim>>

-----------------------------------------------------------------------------
(* Fork: handleFork with an idempotency key, Codex only.                   *)

ForkArrives(q) ==
  /\ ClaimAt(q, "idle") /\ claimProvider = "codex"
  /\ claim' = [claim EXCEPT ![q] = [Asked0 EXCEPT !.kind = "fork",
       !.phase = IF keyKnown \/ ~Resolves("main") THEN "done" ELSE "forking"]]
  /\ UNCHANGED <<claimProvider, ours, launching, tableVars, terminalVars, selfEnded,
                 contended, agentExits, forkVars>>

ForkStarts(q) ==
  /\ ClaimAt(q, "forking")
  /\ forks' = forks + 1
  /\ ClaimGoes(q, "forked")
  /\ UNCHANGED <<claimProvider, ours, launching, tableVars, terminalVars, selfEnded,
                 contended, agentExits, keyKnown>>

(* The result is remembered unless the start failed.                       *)
ForkSettles(q) ==
  /\ ClaimAt(q, "forked")
  /\ keyKnown' \in {keyKnown, TRUE}
  /\ ClaimGoes(q, "done")
  /\ UNCHANGED <<claimProvider, ours, launching, tableVars, terminalVars, selfEnded,
                 contended, agentExits, forks>>

-----------------------------------------------------------------------------
(* A client has used the conversation: a Codex placeholder is bound.       *)
ClaimInit ==
  /\ claimProvider \in {"claude", "codex"}
  /\ ours = [id \in ClaimIds |-> 0] /\ launching = [id \in ClaimIds |-> FALSE]
  /\ claimRow = [id \in ClaimIds |-> IF id = "main"
                                       THEN IF claimProvider = "codex" THEN "bound" ELSE "unbound"
                                       ELSE Absent]
  /\ storeRecord \in {claimRow, [id \in ClaimIds |-> Absent]}
  /\ carried = [id \in ClaimIds |-> "unbound"]
  /\ outside = {} /\ lastWrite = "old" /\ selfEnded = {} /\ contended = {}
  /\ agentExits = 0 /\ forks = 0 /\ keyKnown = FALSE
  /\ claim = [q \in Claimants |-> Asked0]

ClaimNext ==
  \/ \E q \in Claimants :
       \/ \E id \in ClaimIds, force \in BOOLEAN : ResumeArrives(q, id, force)
       \/ \E id \in ClaimIds : AdoptArrives(q, id)
       \/ OwnerProbed(q) \/ Discovered(q) \/ KillSettles(q) \/ StartAgent(q) \/ AgentSpawns(q)
       \/ AgentRecorded(q) \/ OutcomeReady(q) \/ OutcomeFailed(q)
       \/ ForkArrives(q) \/ ForkStarts(q) \/ ForkSettles(q)
  \/ \E id \in ClaimIds : AgentEnds(id)
  \/ \E p \in Terminals : TerminalOpens(p) \/ TerminalCloses(p)
  \/ WriteGrowsOld

ClaimSpec == ClaimInit /\ [][ClaimNext]_claimVars

-----------------------------------------------------------------------------
(* Properties.                                                             *)

ClaimTypeOK ==
  /\ ours \in [ClaimIds -> Nat]
  /\ claimRow \in [ClaimIds -> {Absent, "bound", "unbound"}]
  /\ \A q \in Claimants : claim[q].pid \in Terminals \cup {NoPid}

(* However many requests ask for it, a session has one agent: the check in *)
(* resumeSession is long stale when the runner's start is reached.         *)
OneAgentPerSession == \A id \in ClaimIds : ours[id] <= 1

(* Whoever joined a start is still owed its end.                           *)
JoinersAreServed ==
  \A q \in Claimants :
    ClaimAt(q, "joined") => \E o \in Claimants : ClaimAt(o, "launching") /\ claim[o].id = claim[q].id

ClaimInv == ClaimTypeOK /\ OneAgentPerSession /\ JoinersAreServed

(* A placeholder once bound to its rollout can be resumed ever after: no   *)
(* step takes the binding from the registry row.  Does not hold: an adopt  *)
(* records its session unbound, a refused start deletes the row.           *)
BindingSurvives == [][claimRow["main"] = "bound" => claimRow'["main"] = "bound"]_claimVars

(* An idempotency key forks once.  Does not hold: a retry that arrives     *)
(* while the first fork awaits its outcome finds no result to replay.      *)
ForkedOncePerKey == forks <= 1
=============================================================================
