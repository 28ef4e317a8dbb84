--------------------------- MODULE SessionsProofs ---------------------------
(***************************************************************************)
(* The sessions of the server, for any sessions, processes, requests,      *)
(* texts, turns and bounds.                                                *)
(*                                                                         *)
(* A session has one agent, and whoever joined a start is owed its end     *)
(* (SessionClaims).  The check that no agent runs is stale when the start  *)
(* is reached; what makes it safe is startPromises: an id has one launch   *)
(* at most (OneLauncher), the promise is there exactly as long             *)
(* (LaunchIsPromised), and no agent runs meanwhile (LaunchIsFirst).        *)
(*                                                                         *)
(* What a run left unfinished is offered again, and the row of a session   *)
(* that runs stays (SessionBoot): such a row is of this run and not yet    *)
(* complete (LiveIsNew), and no verdict in flight is about one that is     *)
(* owed (OwedIsSpared).  Clients are told the lifecycle of the session     *)
(* (SessionRecord): one that runs has a record of its own (AttachedIsKept).*)
(*                                                                         *)
(* The sessions of the other agents, for any number of texts, turns and    *)
(* starts: what the runners of Codex, Cursor and Copilot report, and the   *)
(* reports of a multi-agent session (AgentSessions).                       *)
(*                                                                         *)
(* A runner that says running has something that will end it.  For Codex   *)
(* and Copilot the record alone says what (CodexSound, HasAnEnd); for      *)
(* Cursor it depends on where the boot, the texts and the turn on screen   *)
(* are: what is submitted, on its way and held back is in the order it was *)
(* sent (TextsInOrder), and the record is behind the screen only where a   *)
(* look at it is still to come (CursorStatus).                             *)
(*                                                                         *)
(* A report is heard twice only when as many others came between as the    *)
(* LRU has room for: it keeps the reports in the order of their last       *)
(* deliveries (LruHolds).                                                  *)
(***************************************************************************)
EXTENDS MCServices, FiniteSetTheorems, TLAPS

Bindings == {Absent, "bound", "unbound"}
Phases == {"idle", "probing", "listing", "killing", "starting", "attached", "joined", "launching",
           "spawned", "awaiting", "failed", "forking", "forked", "done"}
Asked == [kind : {"none", "resume", "adopt", "fork"}, id : ClaimIds, phase : Phases,
          force : BOOLEAN, pid : Terminals \cup {NoPid}]

ClaimTypes ==
  /\ ours \in [ClaimIds -> Nat] /\ launching \in [ClaimIds -> BOOLEAN]
  /\ claimRow \in [ClaimIds -> Bindings] /\ storeRecord \in [ClaimIds -> Bindings]
  /\ carried \in [ClaimIds -> Bindings]
  /\ outside \subseteq Terminals
  /\ claim \in [Claimants -> Asked]

Launches(q, id) == ClaimAt(q, "launching") /\ claim[q].id = id

OneLauncher ==
  \A id \in ClaimIds : \A q, o \in Claimants : Launches(q, id) /\ Launches(o, id) => q = o

LaunchIsPromised ==
  \A id \in ClaimIds : launching[id] <=> \E q \in Claimants : Launches(q, id)

LaunchIsFirst == \A id \in ClaimIds : launching[id] => ours[id] = 0

ClaimIInv ==
  /\ ClaimTypes /\ OneLauncher /\ LaunchIsPromised /\ LaunchIsFirst
  /\ OneAgentPerSession /\ JoinersAreServed

-----------------------------------------------------------------------------
(* One request moves on, none of those that launch or wait for a launch.   *)

StillTyped ==
  /\ claimRow' \in [ClaimIds -> Bindings] /\ storeRecord' \in [ClaimIds -> Bindings]
  /\ carried' \in [ClaimIds -> Bindings] /\ outside' \subseteq Terminals

LEMMA TablesTyped ==
  ASSUME ClaimTypes, UNCHANGED <<tableVars, terminalVars>>
  PROVE  StillTyped
  BY DEF ClaimTypes, StillTyped, tableVars, terminalVars

LEMMA Moving ==
  ASSUME ClaimIInv, NEW q \in Claimants, NEW x \in Asked, claim' = [claim EXCEPT ![q] = x],
         claim[q].phase \notin {"launching", "joined"}, x.phase \notin {"launching", "joined"},
         UNCHANGED <<ours, launching>>, StillTyped
  PROVE  ClaimIInv'
<1> USE DEF ClaimIInv
<1>1. ClaimTypes'
  BY DEF ClaimTypes, StillTyped
<1>2. /\ claim'[q] = x /\ \A o \in Claimants \ {q} : claim'[o] = claim[o]
  BY DEF ClaimTypes
<1>3. \A o \in Claimants : \A id \in ClaimIds : Launches(o, id)' <=> Launches(o, id)
  BY <1>2 DEF Launches, ClaimAt
<1>4. \A o \in Claimants : ClaimAt(o, "joined")' => o # q /\ ClaimAt(o, "joined") /\ claim'[o].id = claim[o].id
  BY <1>2 DEF ClaimAt
<1>5. OneLauncher' /\ LaunchIsPromised'
  BY <1>3 DEF OneLauncher, LaunchIsPromised
<1>6. LaunchIsFirst' /\ OneAgentPerSession'
  BY DEF LaunchIsFirst, OneAgentPerSession
<1>7. JoinersAreServed'
  <2> SUFFICES ASSUME NEW o \in Claimants, ClaimAt(o, "joined")'
               PROVE  \E l \in Claimants : ClaimAt(l, "launching")' /\ claim'[l].id = claim'[o].id
    BY DEF JoinersAreServed
  <2>1. ClaimAt(o, "joined") /\ claim'[o].id = claim[o].id /\ claim[o].id \in ClaimIds
    BY <1>4 DEF ClaimTypes, Asked
  <2>2. PICK l \in Claimants : Launches(l, claim[o].id)
    BY <2>1 DEF JoinersAreServed, Launches
  <2>3. Launches(l, claim[o].id)'
    BY <1>2, <2>1, <2>2 DEF Launches, ClaimAt
  <2> QED BY <2>1, <2>3 DEF Launches
<1> QED BY <1>1, <1>5, <1>6, <1>7

\* Only the phase of q changes.
LEMMA Going ==
  ASSUME ClaimTypes, NEW q \in Claimants, NEW p \in Phases, ClaimGoes(q, p)
  PROVE  /\ claim' = [claim EXCEPT ![q] = [claim[q] EXCEPT !.phase = p]]
         /\ [claim[q] EXCEPT !.phase = p] \in Asked /\ [claim[q] EXCEPT !.phase = p].phase = p
         /\ [claim[q] EXCEPT !.phase = p].id = claim[q].id
<1>1. claim[q] \in Asked
  BY DEF ClaimTypes
<1>2. \A x \in Asked : /\ [x EXCEPT !.phase = p] \in Asked /\ [x EXCEPT !.phase = p].phase = p
                       /\ [x EXCEPT !.phase = p].id = x.id
  BY DEF Asked
<1>3. claim' = [claim EXCEPT ![q] = [claim[q] EXCEPT !.phase = p]]
  BY <1>1 DEF ClaimGoes
<1> QED BY <1>1, <1>2, <1>3

LEMMA QuietGoing ==
  ASSUME ClaimIInv, NEW q \in Claimants, NEW p \in Phases \ {"launching", "joined"}, ClaimGoes(q, p),
         claim[q].phase \notin {"launching", "joined"}, UNCHANGED <<ours, launching>>, StillTyped
  PROVE  ClaimIInv'
<1> DEFINE x == [claim[q] EXCEPT !.phase = p]
<1>1. claim' = [claim EXCEPT ![q] = x] /\ x \in Asked /\ x.phase = p
  BY Going DEF ClaimIInv
<1> HIDE DEF x
<1> QED BY <1>1, Moving

-----------------------------------------------------------------------------
(* The steps.                                                              *)

\* The requests as they arrive.
LEMMA Arrivals ==
  ASSUME NEW id \in ClaimIds, NEW p \in Phases
  PROVE  /\ \A force \in BOOLEAN : [Asked0 EXCEPT !.kind = "resume", !.id = id, !.force = force, !.phase = p]
                                     \in {x \in Asked : x.phase = p}
         /\ \A pid \in Terminals \cup {NoPid} :
              [Asked0 EXCEPT !.kind = "adopt", !.id = id, !.pid = pid, !.phase = p]
              \in {x \in Asked : x.phase = p}
         /\ [Asked0 EXCEPT !.kind = "fork", !.phase = p] \in {x \in Asked : x.phase = p}
<1>1. Asked0 \in Asked
  BY DEF Asked0, Asked, Phases, ClaimIds
<1>2. \A y \in Asked :
        /\ \A force \in BOOLEAN : [y EXCEPT !.kind = "resume", !.id = id, !.force = force, !.phase = p]
                                  \in {x \in Asked : x.phase = p}
        /\ \A pid \in Terminals \cup {NoPid} :
             [y EXCEPT !.kind = "adopt", !.id = id, !.pid = pid, !.phase = p]
             \in {x \in Asked : x.phase = p}
        /\ [y EXCEPT !.kind = "fork", !.phase = p] \in {x \in Asked : x.phase = p}
  BY DEF Asked
<1> QED BY <1>1, <1>2

\* A request arrives.
LEMMA Arriving ==
  ASSUME ClaimIInv, NEW q \in Claimants,
         \/ \E id \in ClaimIds, force \in BOOLEAN : ResumeArrives(q, id, force)
         \/ \E id \in ClaimIds : AdoptArrives(q, id)
         \/ ForkArrives(q)
  PROVE  ClaimIInv'
<1>1. /\ claim[q].phase = "idle" /\ UNCHANGED <<ours, launching>> /\ UNCHANGED <<tableVars, terminalVars>>
  BY DEF ResumeArrives, AdoptArrives, ForkArrives, ClaimAt
<1>2. PICK x \in Asked : claim' = [claim EXCEPT ![q] = x] /\ x.phase \notin {"launching", "joined"}
  <2>1. ASSUME NEW id \in ClaimIds, NEW force \in BOOLEAN, ResumeArrives(q, id, force)
        PROVE  \E x \in Asked : claim' = [claim EXCEPT ![q] = x] /\ x.phase \notin {"launching", "joined"}
    <3> DEFINE p == IF HasSession(id) \/ ~Resolves(id) THEN "done"
                    ELSE IF claimProvider = "codex" THEN "probing" ELSE "listing"
               x == [Asked0 EXCEPT !.kind = "resume", !.id = id, !.force = force, !.phase = p]
    <3>1. claim' = [claim EXCEPT ![q] = x]
      BY <2>1 DEF ResumeArrives
    <3>2. p \in {"done", "probing", "listing"}
      OBVIOUS
    <3> HIDE DEF p
    <3>3. p \in Phases
      BY <3>2 DEF Phases
    <3>4. x \in {y \in Asked : y.phase = p}
      BY <3>3, Arrivals, Zenon
    <3> HIDE DEF x
    <3> QED BY <3>1, <3>2, <3>4
  <2>2. ASSUME NEW id \in ClaimIds, AdoptArrives(q, id)
        PROVE  \E x \in Asked : claim' = [claim EXCEPT ![q] = x] /\ x.phase \notin {"launching", "joined"}
    <3>1. PICK pid \in outside \cup {NoPid} :
            claim' = [claim EXCEPT ![q] = [Asked0 EXCEPT !.kind = "adopt", !.id = id, !.pid = pid,
              !.phase = IF pid = NoPid \/ HasSession(id) \/ ~Resolves(id) THEN "done" ELSE "killing"]]
      BY <2>2 DEF AdoptArrives, RolloutOwners, ExternalOwners
    <3> DEFINE p == IF pid = NoPid \/ HasSession(id) \/ ~Resolves(id) THEN "done" ELSE "killing"
               x == [Asked0 EXCEPT !.kind = "adopt", !.id = id, !.pid = pid, !.phase = p]
    <3>2. claim' = [claim EXCEPT ![q] = x] /\ p \in {"done", "killing"}
      BY <3>1
    <3> HIDE DEF p
    <3>4. pid \in Terminals \cup {NoPid} /\ p \in Phases
      BY <3>2 DEF ClaimIInv, ClaimTypes, Phases
    <3>5. x \in {y \in Asked : y.phase = p}
      BY <3>4, Arrivals, Zenon
    <3> HIDE DEF x
    <3> QED BY <3>2, <3>5
  <2>3. ASSUME ForkArrives(q)
        PROVE  \E x \in Asked : claim' = [claim EXCEPT ![q] = x] /\ x.phase \notin {"launching", "joined"}
    <3> DEFINE p == IF keyKnown \/ ~Resolves("main") THEN "done" ELSE "forking"
               x == [Asked0 EXCEPT !.kind = "fork", !.phase = p]
    <3>1. claim' = [claim EXCEPT ![q] = x] /\ p \in {"done", "forking"}
      BY <2>3 DEF ForkArrives
    <3> HIDE DEF p
    <3>2. p \in Phases /\ "main" \in ClaimIds
      BY <3>1 DEF Phases, ClaimIds
    <3>3. x \in Asked /\ x.phase = p
      BY <3>2, Arrivals
    <3> HIDE DEF x
    <3> QED BY <3>1, <3>3
  <2> QED BY <2>1, <2>2, <2>3
<1>3. StillTyped
  BY <1>1, TablesTyped DEF ClaimIInv
<1> QED BY <1>1, <1>2, <1>3, Moving

\* The steps that ask, wait, and settle.
LEMMA Proceeding ==
  ASSUME ClaimIInv, NEW q \in Claimants,
         \/ OwnerProbed(q) \/ Discovered(q) \/ KillSettles(q)
         \/ OutcomeReady(q) \/ ForkStarts(q) \/ ForkSettles(q)
  PROVE  ClaimIInv'
<1>1. PICK p \in Phases \ {"launching", "joined"} : ClaimGoes(q, p)
  BY DEF OwnerProbed, Discovered, KillSettles, OutcomeReady, ForkStarts, ForkSettles, Phases
<1>2. /\ claim[q].phase \notin {"launching", "joined"}
      /\ UNCHANGED <<ours, launching>> /\ UNCHANGED <<tableVars, terminalVars>>
  BY DEF OwnerProbed, Discovered, KillSettles, OutcomeReady, ForkStarts, ForkSettles, ClaimAt
<1>3. StillTyped
  BY <1>2, TablesTyped DEF ClaimIInv
<1> QED BY <1>1, <1>2, <1>3, QuietGoing

\* The agent's records: the row, the store, the object of the start.
LEMMA Recording ==
  ASSUME ClaimIInv, NEW q \in Claimants, AgentRecorded(q) \/ OutcomeFailed(q)
  PROVE  ClaimIInv'
<1>1. claim[q] \in Asked /\ ClaimTypes
  BY DEF ClaimIInv, ClaimTypes
<1>2. CASE AgentRecorded(q)
  <2> DEFINE binding == IF claimProvider = "codex" /\ claim[q].id = "main" /\ claim[q].kind = "resume"
                        THEN "bound"
                        ELSE IF ClaimAt(q, "spawned") THEN carried[claim[q].id] ELSE "unbound"
  <2>1. binding \in Bindings
    BY <1>1 DEF Bindings, ClaimTypes, Asked
  <2>2. /\ claimRow' = [claimRow EXCEPT ![claim[q].id] = binding]
        /\ storeRecord' = [storeRecord EXCEPT ![claim[q].id] = binding]
        /\ carried' \in {carried, [carried EXCEPT ![claim[q].id] = binding]}
        /\ UNCHANGED <<ours, launching, terminalVars>> /\ claim[q].phase \notin {"launching", "joined"}
    BY <1>2 DEF AgentRecorded, ClaimAt
  <2>3. PICK p \in Phases \ {"launching", "joined"} : ClaimGoes(q, p)
    BY <1>2 DEF AgentRecorded, Phases
  <2> HIDE DEF binding
  <2>4. StillTyped
    BY <1>1, <2>1, <2>2 DEF StillTyped, ClaimTypes, terminalVars
  <2> QED BY <2>2, <2>3, <2>4, QuietGoing
<1>3. CASE OutcomeFailed(q)
  <2>1. /\ claimRow' = [claimRow EXCEPT ![claim[q].id] = Absent]
        /\ storeRecord' = [storeRecord EXCEPT ![claim[q].id] = Absent] /\ carried' = carried
        /\ UNCHANGED <<ours, launching, terminalVars>> /\ claim[q].phase \notin {"launching", "joined"}
    BY <1>3 DEF OutcomeFailed, ClaimAt
  <2>2. ClaimGoes(q, "done") /\ "done" \in Phases \ {"launching", "joined"}
    BY <1>3 DEF OutcomeFailed, Phases
  <2>3. StillTyped
    BY <1>1, <2>1 DEF StillTyped, ClaimTypes, terminalVars, Bindings
  <2> QED BY <2>1, <2>2, <2>3, QuietGoing
<1> QED BY <1>2, <1>3

\* A start attaches to the agent, joins a launch, or launches.
LEMMA Starting ==
  ASSUME ClaimIInv, NEW q \in Claimants, StartAgent(q)
  PROVE  ClaimIInv'
<1> DEFINE id == claim[q].id
<1>1. /\ claim[q].phase = "starting" /\ UNCHANGED <<ours, tableVars, terminalVars>>
      /\ {"attached", "joined", "launching"} \subseteq Phases
  BY DEF StartAgent, ClaimAt, Phases
<1>2. StillTyped /\ id \in ClaimIds /\ ClaimTypes
  BY <1>1, TablesTyped DEF ClaimIInv, ClaimTypes, Asked
<1>3. CASE HasSession(id)
  BY <1>1, <1>2, <1>3, QuietGoing DEF StartAgent
<1>4. CASE ~HasSession(id)
  <2>1. PICK x \in Asked : /\ claim' = [claim EXCEPT ![q] = x] /\ x.id = id
                          /\ IF launching[id] THEN x.phase = "joined" /\ launching' = launching
                             ELSE x.phase = "launching" /\ launching' = [launching EXCEPT ![id] = TRUE]
    <3>1. CASE launching[id]
      <4>1. ClaimGoes(q, "joined") /\ launching' = launching
        BY <1>4, <3>1 DEF StartAgent
      <4> DEFINE x == [claim[q] EXCEPT !.phase = "joined"]
      <4>2. claim' = [claim EXCEPT ![q] = x] /\ x \in Asked /\ x.phase = "joined" /\ x.id = id
        BY <1>1, <1>2, <4>1, Going
      <4> HIDE DEF x
      <4> QED BY <3>1, <4>1, <4>2
    <3>2. CASE ~launching[id]
      <4>1. ClaimGoes(q, "launching") /\ launching' = [launching EXCEPT ![id] = TRUE]
        BY <1>4, <3>2 DEF StartAgent
      <4> DEFINE x == [claim[q] EXCEPT !.phase = "launching"]
      <4>2. claim' = [claim EXCEPT ![q] = x] /\ x \in Asked /\ x.phase = "launching" /\ x.id = id
        BY <1>1, <1>2, <4>1, Going
      <4> HIDE DEF x
      <4> QED BY <3>2, <4>1, <4>2
    <3> QED BY <3>1, <3>2
  <2>2. claim'[q] = x /\ \A o \in Claimants \ {q} : claim'[o] = claim[o]
    BY <1>2, <2>1 DEF ClaimTypes
  <2>3. \A o \in Claimants : \A i \in ClaimIds :
          Launches(o, i)' <=> Launches(o, i) \/ (~launching[id] /\ o = q /\ i = id)
    BY <1>1, <2>1, <2>2 DEF Launches, ClaimAt
  <2>4. \A i \in ClaimIds : launching'[i] <=> launching[i] \/ (~launching[id] /\ i = id)
    BY <1>2, <2>1 DEF ClaimTypes
  <2>5. ~launching[id] => \A o \in Claimants : ~Launches(o, id)
    BY <1>2 DEF ClaimIInv, LaunchIsPromised
  <2>6. OneLauncher'
    BY <2>3, <2>5 DEF ClaimIInv, OneLauncher
  <2>7. LaunchIsPromised'
    BY <2>3, <2>4 DEF ClaimIInv, LaunchIsPromised
  <2>8. LaunchIsFirst' /\ OneAgentPerSession'
    <3>1. ours[id] = 0
      BY <1>2, <1>4 DEF HasSession, ClaimTypes
    <3> QED BY <1>1, <2>4, <3>1 DEF ClaimIInv, LaunchIsFirst, OneAgentPerSession
  <2>9. ClaimTypes'
    <3>1. claim' \in [Claimants -> Asked] /\ launching' \in [ClaimIds -> BOOLEAN]
      BY <1>2, <2>1 DEF ClaimTypes
    <3> QED BY <1>1, <1>2, <3>1 DEF ClaimTypes, StillTyped
  <2>10. JoinersAreServed'
    <3> SUFFICES ASSUME NEW o \in Claimants, ClaimAt(o, "joined")'
                 PROVE  \E l \in Claimants : Launches(l, claim[o].id)' /\ claim'[o].id = claim[o].id
      BY DEF JoinersAreServed, Launches
    <3>1. claim'[o].id = claim[o].id /\ claim[o].id \in ClaimIds
      BY <1>2, <2>1, <2>2 DEF ClaimTypes, Asked
    <3>2. \E l \in Claimants : Launches(l, claim[o].id)
      <4>1. CASE o = q
        BY <1>2, <2>1, <2>2, <4>1 DEF ClaimIInv, LaunchIsPromised, ClaimAt
      <4>2. CASE o # q
        BY <2>2, <4>2 DEF ClaimIInv, JoinersAreServed, ClaimAt, Launches
      <4> QED BY <4>1, <4>2
    <3> QED BY <2>3, <3>1, <3>2
  <2> QED BY <2>6, <2>7, <2>8, <2>9, <2>10 DEF ClaimIInv
<1> QED BY <1>3, <1>4

\* The launch ends, for everybody who shares it.
LEMMA Spawning ==
  ASSUME ClaimIInv, NEW q \in Claimants, AgentSpawns(q)
  PROVE  ClaimIInv'
<1> DEFINE id == claim[q].id
           sharing == {q} \cup {o \in Claimants : ClaimAt(o, "joined") /\ claim[o].id = id}
<1>1. ClaimTypes /\ id \in ClaimIds /\ Launches(q, id)
  BY DEF ClaimIInv, ClaimTypes, Asked, AgentSpawns, Launches
<1>2. PICK spawned \in BOOLEAN :
        /\ ours' = IF spawned THEN [ours EXCEPT ![id] = @ + 1] ELSE ours
        /\ carried' = IF spawned THEN [carried EXCEPT ![id] = "unbound"] ELSE carried
        /\ claim' = [o \in Claimants |->
                       IF o \in sharing
                       THEN [claim[o] EXCEPT !.phase = IF spawned THEN "spawned" ELSE "done"]
                       ELSE claim[o]]
  BY DEF AgentSpawns
<1>3. launching' = [launching EXCEPT ![id] = FALSE] /\ UNCHANGED <<claimRow, storeRecord, outside>>
  BY DEF AgentSpawns, terminalVars
<1>4. ours[id] = 0 /\ launching[id]
  BY <1>1 DEF ClaimIInv, LaunchIsPromised, LaunchIsFirst
<1> DEFINE p == IF spawned THEN "spawned" ELSE "done"
<1>5. p \in {"spawned", "done"}
  OBVIOUS
<1>6. ASSUME NEW o \in Claimants
      PROVE  /\ claim'[o] \in Asked /\ claim'[o].id = claim[o].id
             /\ o \in sharing => claim'[o].phase = p
             /\ o \notin sharing => claim'[o] = claim[o]
  <2> HIDE DEF p, sharing
  <2>1. claim'[o] = IF o \in sharing THEN [claim[o] EXCEPT !.phase = p] ELSE claim[o]
    BY <1>2 DEF p
  <2>2. p \in Phases /\ claim[o] \in Asked
    BY <1>1, <1>5 DEF Phases, ClaimTypes
  <2>3. \A x \in Asked : /\ [x EXCEPT !.phase = p] \in Asked /\ [x EXCEPT !.phase = p].phase = p
                         /\ [x EXCEPT !.phase = p].id = x.id
    BY <2>2 DEF Asked
  <2> QED BY <2>1, <2>2, <2>3
<1>7. ClaimTypes'
  <2>1. claim' \in [Claimants -> Asked]
    <3>1. claim' = [o \in Claimants |-> claim'[o]]
      BY <1>2
    <3> QED BY <1>6, <3>1
  <2>2. ours' \in [ClaimIds -> Nat] /\ launching' \in [ClaimIds -> BOOLEAN]
    BY <1>1, <1>2, <1>3 DEF ClaimTypes
  <2>3. carried' \in [ClaimIds -> Bindings]
    BY <1>1, <1>2 DEF ClaimTypes, Bindings
  <2> QED BY <1>1, <1>3, <2>1, <2>2, <2>3 DEF ClaimTypes
<1>8. \A o \in Claimants : \A i \in ClaimIds : Launches(o, i)' <=> Launches(o, i) /\ i # id
  <2> SUFFICES ASSUME NEW o \in Claimants, NEW i \in ClaimIds
               PROVE  Launches(o, i)' <=> Launches(o, i) /\ i # id
    OBVIOUS
  <2>1. CASE o \in sharing
    <3>1. Launches(o, i) => i = id
      BY <2>1 DEF Launches, ClaimAt
    <3>2. ~Launches(o, i)'
      BY <1>5, <1>6, <2>1 DEF Launches, ClaimAt
    <3> QED BY <3>1, <3>2
  <2>2. CASE o \notin sharing
    <3>1. Launches(o, i)' <=> Launches(o, i)
      BY <1>6, <2>2 DEF Launches, ClaimAt
    <3>2. Launches(o, id) => o = q
      BY <1>1 DEF ClaimIInv, OneLauncher
    <3> QED BY <2>2, <3>1, <3>2
  <2> QED BY <2>1, <2>2
<1>9. \A i \in ClaimIds : launching'[i] <=> launching[i] /\ i # id
  BY <1>1, <1>3 DEF ClaimTypes
<1> HIDE DEF p, sharing
<1>10. OneLauncher' /\ LaunchIsPromised'
  BY <1>8, <1>9 DEF ClaimIInv, OneLauncher, LaunchIsPromised
<1>11. LaunchIsFirst' /\ OneAgentPerSession'
  <2>1. \A i \in ClaimIds : i # id => ours'[i] = ours[i]
    BY <1>1, <1>2 DEF ClaimTypes
  <2>2. ours'[id] \in {0, 1}
    BY <1>1, <1>2, <1>4 DEF ClaimTypes
  <2> QED BY <1>9, <2>1, <2>2 DEF ClaimIInv, LaunchIsFirst, OneAgentPerSession
<1>12. JoinersAreServed'
  <2> SUFFICES ASSUME NEW o \in Claimants, ClaimAt(o, "joined")'
               PROVE  \E l \in Claimants : Launches(l, claim[o].id)' /\ claim'[o].id = claim[o].id
    BY DEF JoinersAreServed, Launches
  <2>1. o \notin sharing
    BY <1>5, <1>6 DEF ClaimAt
  <2>2. ClaimAt(o, "joined") /\ claim[o].id # id /\ claim'[o].id = claim[o].id /\ claim[o].id \in ClaimIds
    BY <1>1, <1>6, <2>1 DEF ClaimAt, ClaimTypes, Asked, sharing
  <2>3. \E l \in Claimants : Launches(l, claim[o].id)
    BY <2>2 DEF ClaimIInv, JoinersAreServed, Launches
  <2> QED BY <1>8, <2>2, <2>3
<1> QED BY <1>7, <1>10, <1>11, <1>12 DEF ClaimIInv

\* Our agents end, those in terminals come and go.
LEMMA AgentEnding ==
  ASSUME ClaimIInv, NEW id \in ClaimIds, AgentEnds(id)
  PROVE  ClaimIInv'
<1>1. ClaimTypes /\ ours[id] > 0 /\ ours' = [ours EXCEPT ![id] = @ - 1]
  BY DEF ClaimIInv, AgentEnds, HasSession
<1>2. /\ UNCHANGED <<launching, claimRow, storeRecord, carried, outside>>
      /\ claim' = [q \in Claimants |-> IF ClaimAt(q, "awaiting") /\ claim[q].id = id
                                      THEN [claim[q] EXCEPT !.phase = "failed"] ELSE claim[q]]
  BY DEF AgentEnds, tableVars
<1>3. ASSUME NEW o \in Claimants
      PROVE  /\ claim'[o] \in Asked /\ claim'[o].id = claim[o].id
             /\ \A p \in {"launching", "joined"} : ClaimAt(o, p)' <=> ClaimAt(o, p)
  <2>1. claim[o] \in Asked /\ "failed" \in Phases
    BY <1>1 DEF ClaimTypes, Phases
  <2>2. \A x \in Asked : /\ [x EXCEPT !.phase = "failed"] \in Asked /\ [x EXCEPT !.phase = "failed"].id = x.id
                         /\ [x EXCEPT !.phase = "failed"].phase = "failed"
    BY <2>1 DEF Asked
  <2>3. CASE ClaimAt(o, "awaiting") /\ claim[o].id = id
    <3>1. claim'[o] = [claim[o] EXCEPT !.phase = "failed"]
      BY <1>2, <2>3
    <3> QED BY <2>1, <2>2, <2>3, <3>1 DEF ClaimAt
  <2>4. CASE ~(ClaimAt(o, "awaiting") /\ claim[o].id = id)
    <3>1. claim'[o] = claim[o]
      BY <1>2, <2>4
    <3> QED BY <2>1, <3>1 DEF ClaimAt
  <2> QED BY <2>3, <2>4
<1>4. ClaimTypes'
  <2>1. claim' = [o \in Claimants |-> claim'[o]]
    BY <1>2
  <2>2. claim' \in [Claimants -> Asked]
    BY <1>3, <2>1
  <2>3. ours' \in [ClaimIds -> Nat]
    BY <1>1 DEF ClaimTypes
  <2> QED BY <1>1, <1>2, <2>2, <2>3 DEF ClaimTypes
<1>5. \A o \in Claimants : \A i \in ClaimIds : Launches(o, i)' <=> Launches(o, i)
  BY <1>3 DEF Launches
<1>6. OneLauncher' /\ LaunchIsPromised'
  BY <1>2, <1>5 DEF ClaimIInv, OneLauncher, LaunchIsPromised
<1>7. LaunchIsFirst' /\ OneAgentPerSession'
  <2>1. \A i \in ClaimIds : ours[i] \in Nat /\ (ours'[i] = ours[i] \/ (ours'[i] = ours[i] - 1 /\ ours[i] > 0))
    BY <1>1 DEF ClaimTypes
  <2>2. \A i \in ClaimIds : ours'[i] <= ours[i] /\ (ours[i] = 0 => ours'[i] = 0)
    BY <2>1
  <2> QED BY <1>2, <2>1, <2>2 DEF ClaimIInv, LaunchIsFirst, OneAgentPerSession
<1>8. JoinersAreServed'
  <2> SUFFICES ASSUME NEW o \in Claimants, ClaimAt(o, "joined")'
               PROVE  \E l \in Claimants : Launches(l, claim[o].id)' /\ claim'[o].id = claim[o].id
    BY DEF JoinersAreServed, Launches
  <2>1. ClaimAt(o, "joined") /\ claim'[o].id = claim[o].id /\ claim[o].id \in ClaimIds
    BY <1>1, <1>3 DEF ClaimTypes, Asked
  <2>2. \E l \in Claimants : Launches(l, claim[o].id)
    BY <2>1 DEF ClaimIInv, JoinersAreServed, Launches
  <2> QED BY <1>5, <2>1, <2>2
<1> QED BY <1>4, <1>6, <1>7, <1>8 DEF ClaimIInv

LEMMA ElsewhereInv ==
  ASSUME ClaimIInv, UNCHANGED <<ours, launching, tableVars, claim>>, outside' \subseteq Terminals
  PROVE  ClaimIInv'
  BY DEF ClaimIInv, ClaimTypes, OneLauncher, LaunchIsPromised, LaunchIsFirst, OneAgentPerSession,
         JoinersAreServed, Launches, ClaimAt, tableVars

LEMMA ClaimStep == ClaimIInv /\ [ClaimNext]_claimVars => ClaimIInv'
<1> SUFFICES ASSUME ClaimIInv, [ClaimNext]_claimVars PROVE ClaimIInv'
  OBVIOUS
<1>1. ASSUME NEW p \in Terminals, TerminalOpens(p) \/ TerminalCloses(p) PROVE ClaimIInv'
  <2>1. outside' \subseteq Terminals
    BY <1>1 DEF TerminalOpens, TerminalCloses, ClaimIInv, ClaimTypes
  <2> QED BY <1>1, <2>1, ElsewhereInv DEF TerminalOpens, TerminalCloses
<1>2. CASE WriteGrowsOld
  BY <1>2, ElsewhereInv DEF WriteGrowsOld, ClaimIInv, ClaimTypes
<1>3. CASE UNCHANGED claimVars
  BY <1>3, ElsewhereInv DEF claimVars, tableVars, ClaimIInv, ClaimTypes
<1>4. ASSUME NEW q \in Claimants,
             \/ \E id \in ClaimIds, force \in BOOLEAN : ResumeArrives(q, id, force)
             \/ \E id \in ClaimIds : AdoptArrives(q, id)
             \/ OwnerProbed(q) \/ Discovered(q) \/ KillSettles(q) \/ StartAgent(q) \/ AgentSpawns(q)
             \/ AgentRecorded(q) \/ OutcomeReady(q) \/ OutcomeFailed(q)
             \/ ForkArrives(q) \/ ForkStarts(q) \/ ForkSettles(q)
      PROVE  ClaimIInv'
  BY <1>4, Arriving, Proceeding, Recording, Starting, Spawning
<1> QED
  BY <1>1, <1>2, <1>3, <1>4, AgentEnding DEF ClaimNext

LEMMA ClaimBegins == ClaimInit => ClaimIInv
<1> SUFFICES ASSUME ClaimInit PROVE ClaimIInv
  OBVIOUS
<1>1. Asked0 \in Asked /\ Asked0.phase = "idle"
  BY DEF Asked0, Asked, Phases, ClaimIds
<1>2. claimRow \in [ClaimIds -> Bindings] /\ [id \in ClaimIds |-> Absent] \in [ClaimIds -> Bindings]
  BY DEF ClaimInit, Bindings
<1>3. ClaimTypes
  BY <1>1, <1>2 DEF ClaimInit, ClaimTypes, Bindings
<1>4. \A q \in Claimants : claim[q].phase = "idle"
  BY <1>1 DEF ClaimInit
<1>5. OneLauncher /\ LaunchIsPromised /\ LaunchIsFirst /\ OneAgentPerSession /\ JoinersAreServed
  BY <1>4 DEF ClaimInit, OneLauncher, LaunchIsPromised, LaunchIsFirst, OneAgentPerSession,
              JoinersAreServed, Launches, ClaimAt
<1> QED BY <1>3, <1>5 DEF ClaimIInv

\* sessions.handlers.ts and the runners' start(): however many requests ask for a session, in
\* whatever order their probes are answered, it has one agent, and no request waits for a start
\* that is not under way.
THEOREM ClaimsHold == ClaimSpec => []ClaimInv
<1>1. ClaimIInv => ClaimInv
  BY DEF ClaimIInv, ClaimInv, ClaimTypes, ClaimTypeOK, Bindings, Asked
<1> QED
  BY <1>1, ClaimBegins, ClaimStep, PTL DEF ClaimSpec

-----------------------------------------------------------------------------
(* The registry of the sessions over restarts.                             *)

Verdicts == {NoVerdict, "resumable", "failed", "detached", "orphaned"}

BootTypes ==
  /\ rows \in [BootSessions -> Rows \cup {NoRow}]
  /\ verdicts \in [BootSessions -> Verdicts]
  /\ probes \subseteq [id : BootSessions, row : Rows]
  /\ procs \in [Pids -> BootSessions \cup Strangers \cup {"none"}]
  /\ machine \in 0..MaxReboots /\ runs \in 0..MaxRuns /\ spawns \in 0..MaxSpawns
  /\ phase \in {"down", "probing", "resuming", "recovered"}
  /\ live \in [BootSessions -> Pids \cup {0}]
  /\ attempts \subseteq BootSessions /\ resumes \subseteq BootSessions
  /\ stubs \subseteq BootSessions /\ owed \subseteq BootSessions

\* Nothing of a run outlives it.
DownIsDown ==
  phase = "down" => probes = {} /\ resumes = {} /\ \A s \in BootSessions : ~Live(s)

\* The row of a session that runs is new, and complete only by a verdict.
LiveIsNew ==
  \A s \in BootSessions : HasRow(s) /\ Live(s) =>
    rows[s].age = 0 /\ (rows[s].done => rows[s].src = "reconcile")

\* What is owed does not run and keeps a row that is still offered.
Offerable(s) ==
  /\ HasRow(s) /\ ~Live(s) /\ Recoverable(rows[s])
  /\ rows[s].prompted /\ Resumable(s, rows[s]) /\ ~rows[s].failure

OwedIsOfferable == \A s \in owed : Offerable(s)

\* What the probes of it found, or may still find, leaves the row alone.
OwedIsSpared ==
  /\ \A q \in probes : q.id \in owed => q.row = rows[q.id]
  /\ phase \in {"down", "probing"} => \A s \in owed : verdicts[s] # "failed"

BootIInv ==
  /\ BootTypes /\ DownIsDown /\ LiveIsNew /\ OwedIsOfferable /\ OwedIsSpared
  /\ CutShortIsOffered /\ StubsHoldNoProcess

LEMMA ZeroAge == 0 \in 0..3
  OBVIOUS

LEMMA NoRowIsNone == NoRow \notin Rows
<1>1. SUFFICES ASSUME NoRow \in Rows PROVE FALSE
  OBVIOUS
<1>2. DOMAIN NoRow = {"pid"}
  BY DEF NoRow
<1>3. "age" \in DOMAIN NoRow
  BY <1>1 DEF Rows
<1> QED
  BY <1>2, <1>3

\* The parts that do not concern the rows move.
LEMMA RowsStill ==
  ASSUME BootIInv, BootTypes', UNCHANGED <<rows, live, phase, stubs, owed, probes, verdicts>>,
         phase = "down" => resumes' = {}
  PROVE  BootIInv'
<1>1. DownIsDown' /\ LiveIsNew' /\ StubsHoldNoProcess' /\ CutShortIsOffered'
  BY DEF BootIInv, DownIsDown, LiveIsNew, StubsHoldNoProcess, CutShortIsOffered, HasRow, Live
<1>2. OwedIsOfferable' /\ OwedIsSpared'
  BY DEF BootIInv, OwedIsOfferable, OwedIsSpared, Offerable, HasRow, Live
<1> QED
  BY <1>1, <1>2 DEF BootIInv

\* One session that is owed nothing moves, with its row.
LEMMA OneSession ==
  ASSUME BootIInv, Up, NEW s \in BootSessions, NEW r \in Rows \cup {NoRow}, NEW l \in Pids \cup {0},
         rows' = [rows EXCEPT ![s] = r], live' = [live EXCEPT ![s] = l],
         owed' = owed \ {s}, stubs \ {s} \subseteq stubs', stubs' \subseteq stubs,
         l # 0 => s \notin stubs',
         r # NoRow /\ l # 0 => r.age = 0 /\ (r.done => r.src = "reconcile"),
         UNCHANGED <<machine, phase, runs, probes, verdicts>>,
         procs' \in [Pids -> BootSessions \cup Strangers \cup {"none"}],
         spawns' \in 0..MaxSpawns, attempts' \subseteq BootSessions, resumes' \subseteq BootSessions
  PROVE  BootIInv'
<1>1. BootTypes'
  BY DEF BootIInv, BootTypes
<1>2. /\ rows'[s] = r /\ live'[s] = l
      /\ \A t \in BootSessions \ {s} : rows'[t] = rows[t] /\ live'[t] = live[t]
  BY DEF BootIInv, BootTypes
<1>3. DownIsDown'
  BY DEF DownIsDown, Up
<1>4. LiveIsNew'
  BY <1>2 DEF BootIInv, LiveIsNew, HasRow, Live
<1>5. StubsHoldNoProcess'
  BY <1>2 DEF BootIInv, BootTypes, StubsHoldNoProcess, Live
<1>6. \A t \in owed' : t \in BootSessions \ {s} /\ t \in owed
  BY DEF BootIInv, BootTypes
<1>7. OwedIsOfferable'
  BY <1>2, <1>6 DEF BootIInv, OwedIsOfferable, Offerable, HasRow, Live
<1>8. OwedIsSpared'
  BY <1>2, <1>6 DEF BootIInv, OwedIsSpared
<1>9. CutShortIsOffered'
  BY <1>2, <1>6 DEF BootIInv, CutShortIsOffered, OwedIsOfferable, Offerable, Live
<1> QED
  BY <1>1, <1>3, <1>4, <1>5, <1>7, <1>8, <1>9 DEF BootIInv

LEMMA SpawnedKeeps ==
  ASSUME BootIInv, Up, NEW s \in BootSessions, NEW p \in Pids, NEW bound \in BOOLEAN,
         NEW prompted \in BOOLEAN, spawns < MaxSpawns, Spawned(s, p, bound, prompted),
         UNCHANGED <<machine, phase, runs, probes, verdicts>>,
         attempts' \subseteq BootSessions, resumes' \subseteq BootSessions
  PROVE  BootIInv'
<1> USE DEF Spawned
<1>1. PICK r : r = [pid |-> p, token |-> IF s \in CodexSessions /\ ~bound THEN "project" ELSE "id",
                    boot |-> machine, status |-> "running", src |-> "spawn", done |-> FALSE,
                    failure |-> FALSE, prompted |-> prompted, bound |-> bound, age |-> 0]
  OBVIOUS
<1>2. machine \in 0..MaxReboots /\ spawns \in 0..MaxSpawns /\ MaxSpawns \in Nat
  BY BootConstantsAssumption DEF BootIInv, BootTypes, BootConstantsAssumption
<1>3. r \in Rows /\ r.age = 0 /\ r.done = FALSE
  BY <1>1, <1>2 DEF Rows
<1>4. rows' = [rows EXCEPT ![s] = r] /\ live' = [live EXCEPT ![s] = p]
  BY <1>1
<1>5. procs' \in [Pids -> BootSessions \cup Strangers \cup {"none"}]
  BY DEF BootIInv, BootTypes
<1>6. spawns' \in 0..MaxSpawns
  BY <1>2
<1> HIDE DEF Spawned
<1>7. owed' = owed \ {s} /\ stubs' = stubs \ {s}
  BY DEF Spawned
<1> QED
  BY <1>2, <1>3, <1>4, <1>5, <1>6, <1>7, OneSession

\* A session that runs is owed nothing and is no stub.
LEMMA LiveStands ==
  ASSUME BootIInv, NEW s \in BootSessions, Live(s)
  PROVE  s \notin owed /\ s \notin stubs /\ live[s] \in Pids
  BY DEF BootIInv, BootTypes, OwedIsOfferable, Offerable, StubsHoldNoProcess, Live

\* A live session moves in its row.
LEMMA LiveRowMoves ==
  ASSUME BootIInv, Up, NEW s \in BootSessions, Live(s), NEW r \in Rows,
         rows' = [rows EXCEPT ![s] = r], r.age = 0, r.done => r.src = "reconcile",
         UNCHANGED <<procs, machine, phase, runs, spawns, probes, verdicts, attempts, resumes,
                     live, stubs, owed>>
  PROVE  BootIInv'
<1>1. s \notin owed /\ s \notin stubs /\ live[s] \in Pids
  BY LiveStands
<1>2. live' = [live EXCEPT ![s] = live[s]] /\ owed' = owed \ {s} /\ stubs' = stubs \ {s}
  BY <1>1 DEF BootIInv, BootTypes
<1>3. /\ procs' \in [Pids -> BootSessions \cup Strangers \cup {"none"}]
      /\ spawns' \in 0..MaxSpawns /\ attempts' \subseteq BootSessions /\ resumes' \subseteq BootSessions
  BY DEF BootIInv, BootTypes
<1>4. s \notin stubs' /\ UNCHANGED <<machine, phase, runs, probes, verdicts>>
  BY <1>1
<1>5. PICK l \in Pids : l = live[s]
  BY <1>1
<1> QED
  BY <1>1, <1>2, <1>3, <1>4, <1>5, OneSession

\* A live session ends, whatever becomes of its row.
LEMMA LiveEnds ==
  ASSUME BootIInv, Up, NEW s \in BootSessions, Live(s), NEW r \in Rows \cup {NoRow},
         rows' = [rows EXCEPT ![s] = r], live' = [live EXCEPT ![s] = 0],
         procs' = [procs EXCEPT ![live[s]] = "none"], owed' = owed \ {s},
         UNCHANGED <<machine, phase, runs, spawns, probes, verdicts, attempts, resumes, stubs>>
  PROVE  BootIInv'
<1>1. procs' \in [Pids -> BootSessions \cup Strangers \cup {"none"}]
  BY LiveStands DEF BootIInv, BootTypes
<1>2. spawns' \in 0..MaxSpawns /\ attempts' \subseteq BootSessions /\ resumes' \subseteq BootSessions
  BY DEF BootIInv, BootTypes
<1>3. UNCHANGED <<machine, phase, runs, probes, verdicts>> /\ stubs' = stubs
  OBVIOUS
<1> QED
  BY <1>1, <1>2, <1>3, OneSession

LEMMA ResumesAreUp ==
  ASSUME BootIInv, NEW s \in resumes
  PROVE  Up
  BY DEF BootIInv, DownIsDown, Up

LEMMA SessionKeeps ==
  ASSUME BootIInv, NEW s \in BootSessions,
         \/ \E p \in Pids : StartSession(s, p) \/ CompleteResume(s, p)
         \/ AskResume(s) \/ RefuseResume(s)
         \/ \E status \in {"running", "waiting_input"}, f \in BOOLEAN : StatusChange(s, status, f)
         \/ RecordBinding(s) \/ AgentExits(s) \/ ForgetEmpty(s)
         \/ AutoResume(s)
  PROVE  BootIInv'
<1>1. BootTypes
  BY DEF BootIInv
<1>2. CASE \E p \in Pids : StartSession(s, p)
  <2>1. PICK p \in Pids : StartSession(s, p)
    BY <1>2
  <2>2. attempts' \subseteq BootSessions /\ resumes' \subseteq BootSessions
    BY <1>1, <2>1 DEF StartSession, BootTypes
  <2>3. Up /\ spawns < MaxSpawns /\ UNCHANGED <<machine, phase, runs, probes, verdicts>>
    BY <2>1 DEF StartSession
  <2>4. \E bound \in BOOLEAN, prompted \in BOOLEAN : Spawned(s, p, bound, prompted)
    BY <2>1, Zenon DEF StartSession
  <2> QED
    BY <2>2, <2>3, <2>4, SpawnedKeeps
<1>3. CASE \E p \in Pids : CompleteResume(s, p)
  <2>1. PICK p \in Pids : CompleteResume(s, p)
    BY <1>3
  <2>2. Up /\ UNCHANGED <<machine, phase, runs, probes, verdicts>>
    BY <2>1, ResumesAreUp DEF CompleteResume
  <2>3. attempts' \subseteq BootSessions /\ resumes' \subseteq BootSessions
    BY <1>1, <2>1 DEF CompleteResume, BootTypes
  <2>4. CASE Live(s)
    <3>1. UNCHANGED <<rows, procs, spawns, live, stubs, owed>>
      BY <2>1, <2>4 DEF CompleteResume
    <3>2. BootTypes'
      BY <1>1, <2>2, <2>3, <3>1 DEF BootTypes
    <3> QED
      BY <2>2, <3>1, <3>2, RowsStill DEF Up
  <2>5. CASE ~Live(s)
    <3>1. spawns < MaxSpawns /\ Spawned(s, p, TRUE, TRUE)
      BY <2>1, <2>5 DEF CompleteResume
    <3> QED
      BY <2>2, <2>3, <3>1, SpawnedKeeps
  <2> QED
    BY <2>4, <2>5
<1>4. CASE AskResume(s) \/ RefuseResume(s) \/ AutoResume(s)
  <2>1. UNCHANGED <<rows, procs, machine, phase, runs, spawns, probes, verdicts, live, stubs, owed>>
    BY <1>4 DEF AskResume, RefuseResume, AutoResume
  <2>2. attempts' \subseteq BootSessions /\ resumes' \subseteq BootSessions
    BY <1>1, <1>4 DEF AskResume, RefuseResume, AutoResume, BootTypes
  <2>3. BootTypes'
    BY <1>1, <2>1, <2>2 DEF BootTypes
  <2>4. phase # "down"
    BY <1>4, ResumesAreUp DEF AskResume, RefuseResume, AutoResume, Up
  <2> QED
    BY <2>1, <2>3, <2>4, RowsStill
<1>5. CASE \E status \in {"running", "waiting_input"}, f \in BOOLEAN : StatusChange(s, status, f)
  <2>1. PICK status \in {"running", "waiting_input"}, f \in BOOLEAN : StatusChange(s, status, f)
    BY <1>5
  <2>2. Up /\ Live(s) /\ rows[s] \in Rows
    BY <1>1, <2>1 DEF StatusChange, HasRow, BootTypes
  <2>3. PICK r : r = [rows[s] EXCEPT !.status = status, !.src = "transition", !.done = FALSE, !.age = 0,
                          !.prompted = @ \/ status = "running", !.failure = @ \/ f]
    OBVIOUS
  <2>4. r \in Rows
    BY <2>2, <2>3, ZeroAge, Zenon DEF Rows
  <2>7. r.age = 0 /\ (r.done => r.src = "reconcile")
    BY <2>2, <2>3, Zenon DEF Rows
  <2>5. rows' = [rows EXCEPT ![s] = r]
    BY <1>1, <2>1, <2>3 DEF StatusChange, BootTypes
  <2>6. UNCHANGED <<procs, machine, phase, runs, spawns, probes, verdicts, attempts, resumes,
                    live, stubs, owed>>
    BY <2>1 DEF StatusChange
  <2> QED
    BY <2>2, <2>4, <2>5, <2>6, <2>7, LiveRowMoves
<1>6. CASE RecordBinding(s)
  <2>1. Up /\ Live(s) /\ HasRow(s) /\ rows[s] \in Rows
    BY <1>1, <1>6 DEF RecordBinding, HasRow, BootTypes
  <2>2. PICK r : r = [rows[s] EXCEPT !.bound = TRUE]
    OBVIOUS
  <2>3. r \in Rows /\ r.age = rows[s].age /\ r.done = rows[s].done /\ r.src = rows[s].src
    BY <2>1, <2>2 DEF Rows
  <2>4. r.age = 0 /\ (r.done => r.src = "reconcile")
    BY <2>1, <2>3 DEF BootIInv, LiveIsNew
  <2>5. rows' = [rows EXCEPT ![s] = r]
    BY <1>1, <1>6, <2>2 DEF RecordBinding, BootTypes
  <2>6. UNCHANGED <<procs, machine, phase, runs, spawns, probes, verdicts, attempts, resumes,
                    live, stubs, owed>>
    BY <1>6 DEF RecordBinding
  <2> QED
    BY <2>1, <2>3, <2>4, <2>5, <2>6, LiveRowMoves
<1>7. CASE AgentExits(s)
  <2>1. Up /\ Live(s) /\ s \notin owed
    BY <1>7, LiveStands DEF AgentExits
  <2>2. \E r \in Rows \cup {NoRow} : rows' = [rows EXCEPT ![s] = r]
    <3>1. CASE HasRow(s)
      <4>1. rows[s] \in Rows
        BY <1>1, <3>1 DEF HasRow, BootTypes
      <4>2. PICK r : r = [rows[s] EXCEPT !.status = "idle", !.src = "exit", !.done = TRUE, !.age = 0]
        OBVIOUS
      <4>3. r \in Rows
        BY <4>1, <4>2, ZeroAge, Zenon DEF Rows
      <4>4. rows' = [rows EXCEPT ![s] = r]
        BY <1>1, <1>7, <3>1, <4>2 DEF AgentExits, BootTypes
      <4> QED
        BY <4>3, <4>4
    <3>2. CASE ~HasRow(s)
      BY <1>1, <1>7, <3>2 DEF AgentExits, BootTypes
    <3> QED
      BY <3>1, <3>2
  <2>3. owed' = owed \ {s}
    BY <1>7, <2>1 DEF AgentExits
  <2> QED
    BY <1>7, <2>1, <2>2, <2>3, LiveEnds DEF AgentExits
<1>8. CASE ForgetEmpty(s)
  BY <1>8, LiveEnds DEF ForgetEmpty
<1> QED
  BY <1>2, <1>3, <1>4, <1>5, <1>6, <1>7, <1>8

-----------------------------------------------------------------------------
(* A run ends, and while there is none.                                    *)

LEMMA RunEndsKeeps ==
  ASSUME BootIInv, RunEnds,
         rows' \in [BootSessions -> Rows \cup {NoRow}],
         procs' \in [Pids -> BootSessions \cup Strangers \cup {"none"}],
         \A s \in BootSessions : ~Live(s) => rows'[s] = rows[s],
         \A s \in BootSessions : CutShort(s) =>
           /\ rows'[s] # NoRow /\ Recoverable(rows'[s]) /\ rows'[s].prompted
           /\ Resumable(s, rows'[s]) /\ ~rows'[s].failure
  PROVE  BootIInv'
<1>1. BootTypes'
  BY DEF BootIInv, BootTypes, RunEnds, Verdicts
<1>2. \A s \in BootSessions : ~Live(s)'
  BY DEF RunEnds, Live
<1>3. DownIsDown' /\ LiveIsNew' /\ StubsHoldNoProcess' /\ CutShortIsOffered'
  BY <1>2 DEF DownIsDown, LiveIsNew, StubsHoldNoProcess, CutShortIsOffered, RunEnds
<1>4. ASSUME NEW s \in owed' PROVE Offerable(s)' /\ verdicts'[s] # "failed"
  <2>1. s \in BootSessions /\ (s \in owed \/ CutShort(s))
    BY <1>4 DEF RunEnds, BootIInv, BootTypes
  <2>2. verdicts'[s] # "failed"
    BY <2>1 DEF RunEnds, NoVerdict
  <2>3. CASE CutShort(s)
    BY <1>2, <2>1, <2>2, <2>3 DEF Offerable, HasRow
  <2>4. CASE s \in owed
    <3>1. ~Live(s) /\ Offerable(s)
      BY <2>4 DEF BootIInv, OwedIsOfferable, Offerable
    <3> QED
      BY <1>2, <2>1, <2>2, <3>1 DEF Offerable, HasRow
  <2> QED
    BY <2>1, <2>3, <2>4
<1>5. OwedIsOfferable' /\ OwedIsSpared'
  BY <1>4 DEF OwedIsOfferable, OwedIsSpared, RunEnds
<1> QED
  BY <1>1, <1>3, <1>5 DEF BootIInv

LEMMA RunsEnd ==
  ASSUME BootIInv, Crash \/ CleanClose
  PROVE  BootIInv'
<1>1. BootTypes
  BY DEF BootIInv
<1>2. ASSUME NEW s \in BootSessions, CutShort(s)
      PROVE  /\ rows[s] \in Rows /\ rows[s].age = 0 /\ ~rows[s].done /\ rows[s].prompted
             /\ Resumable(s, rows[s]) /\ ~rows[s].failure
  BY <1>1, <1>2 DEF CutShort, BootIInv, LiveIsNew, HasRow, BootTypes
<1>3. CASE Crash
  <2>1. RunEnds /\ UNCHANGED <<rows, procs>>
    BY <1>3 DEF Crash
  <2>2. \A s \in BootSessions : CutShort(s) =>
           /\ rows'[s] # NoRow /\ Recoverable(rows'[s]) /\ rows'[s].prompted
           /\ Resumable(s, rows'[s]) /\ ~rows'[s].failure
    BY <1>2, <2>1, NoRowIsNone DEF Recoverable
  <2> QED
    BY <1>1, <2>1, <2>2, RunEndsKeeps DEF BootTypes
<1>4. CASE CleanClose
  <2>1. RunEnds
    BY <1>4 DEF CleanClose
  <2>2. ASSUME NEW s \in BootSessions
        PROVE  /\ ~Live(s) \/ ~HasRow(s) => rows'[s] = rows[s]
               /\ Live(s) /\ HasRow(s) =>
                    rows'[s] = [rows[s] EXCEPT !.src = "shutdown", !.done = TRUE, !.age = 0]
    BY <1>4 DEF CleanClose
  <2>3. ASSUME NEW r \in Rows
        PROVE  [r EXCEPT !.src = "shutdown", !.done = TRUE, !.age = 0] \in Rows
    BY ZeroAge, Zenon DEF Rows
  <2>4. ASSUME NEW s \in BootSessions PROVE rows'[s] \in Rows \cup {NoRow}
    <3>1. rows[s] \in Rows \cup {NoRow}
      BY <1>1 DEF BootTypes
    <3>2. CASE Live(s) /\ HasRow(s)
      <4>1. rows[s] \in Rows
        BY <3>1, <3>2 DEF HasRow
      <4> QED
        BY <2>2, <2>3, <3>2, <4>1
    <3>3. CASE ~Live(s) \/ ~HasRow(s)
      BY <2>2, <3>1, <3>3
    <3> QED
      BY <3>2, <3>3
  <2>5. rows' \in [BootSessions -> Rows \cup {NoRow}]
    BY <1>4, <2>4 DEF CleanClose
  <2>6. procs' \in [Pids -> BootSessions \cup Strangers \cup {"none"}]
    BY <1>1, <1>4 DEF CleanClose, BootTypes
  <2>7. ASSUME NEW s \in BootSessions, CutShort(s)
        PROVE  /\ rows'[s] # NoRow /\ Recoverable(rows'[s]) /\ rows'[s].prompted
               /\ Resumable(s, rows'[s]) /\ ~rows'[s].failure
    <3>1. rows'[s] = [rows[s] EXCEPT !.src = "shutdown", !.done = TRUE, !.age = 0]
      BY <2>2, <2>7 DEF CutShort
    <3>2. rows[s] \in Rows /\ rows[s].prompted /\ Resumable(s, rows[s]) /\ ~rows[s].failure
      BY <1>2, <2>7
    <3>3. /\ rows'[s].src = "shutdown" /\ rows'[s].age = 0 /\ rows'[s].prompted = rows[s].prompted
          /\ rows'[s].bound = rows[s].bound /\ rows'[s].failure = rows[s].failure
      BY <3>1, <3>2, Zenon DEF Rows
    <3>4. rows'[s] # NoRow
      BY <2>3, <3>1, <3>2, NoRowIsNone
    <3>5. Recoverable(rows'[s])
      BY <3>3 DEF Recoverable
    <3> QED
      BY <3>2, <3>3, <3>4, <3>5 DEF Resumable
  <2> QED
    BY <2>1, <2>2, <2>5, <2>6, <2>7, RunEndsKeeps
<1> QED
  BY <1>3, <1>4

LEMMA MachineKeeps ==
  ASSUME BootIInv,
         \/ Reboot
         \/ \E p \in Pids : ProcessEnds(p) \/ \E x \in Strangers : StrangerStarts(p, x)
  PROVE  BootIInv'
<1>1. UNCHANGED <<rows, phase, runs, spawns, probes, verdicts, attempts, resumes, live, stubs, owed>>
  BY DEF Reboot, ProcessEnds, StrangerStarts
<1>2. /\ procs' \in [Pids -> BootSessions \cup Strangers \cup {"none"}]
      /\ machine' \in 0..MaxReboots
  BY BootConstantsAssumption
  DEF BootIInv, BootTypes, BootConstantsAssumption, Reboot, ProcessEnds, StrangerStarts
<1>3. BootTypes'
  BY <1>1, <1>2 DEF BootIInv, BootTypes
<1>4. phase = "down" => resumes' = {}
  BY <1>1 DEF BootIInv, DownIsDown
<1> QED
  BY <1>1, <1>3, <1>4, RowsStill

\* Time passes over a row.
LEMMA Older ==
  ASSUME NEW r \in Rows, r.age < 3, NEW x, x = [r EXCEPT !.age = @ + 1]
  PROVE  /\ x \in Rows
         /\ x.done = r.done /\ x.src = r.src /\ x.prompted = r.prompted /\ x.bound = r.bound
         /\ x.failure = r.failure
<1>1. r.age \in 0..3
  BY DEF Rows
<1> HIDE DEF Rows
<1>3. PICK a \in 0..3 : a = r.age + 1
  BY <1>1
<1>2. x = [r EXCEPT !.age = a]
  BY <1>3
<1> QED
  BY <1>2, Zenon DEF Rows

LEMMA TimeKeeps ==
  ASSUME BootIInv, TimePasses
  PROVE  BootIInv'
<1>1. BootTypes /\ phase = "down" /\ probes = {} /\ \A s \in BootSessions : ~Live(s)
  BY DEF BootIInv, DownIsDown, TimePasses
<1>2. ASSUME NEW s \in BootSessions
      PROVE  /\ rows'[s] \in Rows \cup {NoRow} /\ (HasRow(s) => rows'[s] \in Rows)
             /\ HasRow(s) => /\ rows'[s].done = rows[s].done /\ rows'[s].src = rows[s].src
                             /\ rows'[s].prompted = rows[s].prompted /\ rows'[s].bound = rows[s].bound
                             /\ rows'[s].failure = rows[s].failure
  <2>1. CASE HasRow(s) /\ rows[s].age < 3
    <3>1. rows[s] \in Rows
      BY <1>1, <2>1 DEF HasRow, BootTypes
    <3>2. rows'[s] = [rows[s] EXCEPT !.age = @ + 1]
      BY <2>1 DEF TimePasses
    <3> QED
      BY <2>1, <3>1, <3>2, Older
  <2>2. CASE ~(HasRow(s) /\ rows[s].age < 3)
    BY <1>1, <2>2 DEF TimePasses, HasRow, BootTypes
  <2> QED
    BY <2>1, <2>2
<1>3. rows' \in [BootSessions -> Rows \cup {NoRow}]
  BY <1>2 DEF TimePasses
<1>4. UNCHANGED <<procs, machine, phase, runs, spawns, probes, verdicts, attempts, resumes, live, stubs>>
      /\ owed' \subseteq owed
  BY DEF TimePasses
<1>5. BootTypes'
  BY <1>1, <1>3, <1>4 DEF BootTypes
<1>6. DownIsDown' /\ LiveIsNew' /\ StubsHoldNoProcess' /\ CutShortIsOffered'
  BY <1>1, <1>4 DEF BootIInv, DownIsDown, LiveIsNew, StubsHoldNoProcess, CutShortIsOffered, Live
<1>7. ASSUME NEW s \in owed' PROVE Offerable(s)'
  <2>1. s \in BootSessions /\ Offerable(s) /\ rows'[s].age <= 1
    BY <1>1, <1>4, <1>7 DEF TimePasses, BootIInv, OwedIsOfferable, BootTypes
  <2>2. rows'[s] # NoRow
    BY <1>2, <2>1, NoRowIsNone DEF Offerable
  <2> QED
    BY <1>2, <1>4, <2>1, <2>2 DEF Offerable, HasRow, Live, Recoverable, Resumable
<1>8. OwedIsOfferable' /\ OwedIsSpared'
  BY <1>1, <1>4, <1>7 DEF BootIInv, OwedIsOfferable, OwedIsSpared
<1> QED
  BY <1>5, <1>6, <1>8 DEF BootIInv

-----------------------------------------------------------------------------
(* The recovery of a boot.                                                 *)

LEMMA BootKeeps ==
  ASSUME BootIInv, Boot
  PROVE  BootIInv'
<1>1. BootTypes
  BY DEF BootIInv
<1>2. \A q \in probes' : q \in [id : BootSessions, row : Rows] /\ q.row = rows[q.id]
  BY <1>1 DEF Boot, BootTypes, HasRow
<1>3. UNCHANGED <<rows, procs, machine, spawns, verdicts, attempts, resumes, live, stubs, owed>>
      /\ phase = "down" /\ phase' = "probing"
  BY DEF Boot
<1>4. runs' \in 0..MaxRuns
  BY <1>1, BootConstantsAssumption DEF Boot, BootTypes, BootConstantsAssumption
<1>5. BootTypes'
  BY <1>1, <1>2, <1>3, <1>4 DEF BootTypes
<1>6. DownIsDown' /\ LiveIsNew' /\ StubsHoldNoProcess' /\ CutShortIsOffered'
  BY <1>3 DEF BootIInv, DownIsDown, LiveIsNew, StubsHoldNoProcess, CutShortIsOffered, HasRow, Live
<1>7. OwedIsOfferable' /\ OwedIsSpared'
  BY <1>2, <1>3 DEF BootIInv, OwedIsOfferable, OwedIsSpared, Offerable, HasRow, Live
<1> QED
  BY <1>5, <1>6, <1>7 DEF BootIInv

\* A row that is owed is not found to have failed.
LEMMA OwedNotFailed ==
  ASSUME BootIInv, NEW q \in probes
  PROVE  /\ q.id \in BootSessions /\ Classification(q.id, q.row) \in Verdicts
         /\ q.id \in owed => Classification(q.id, q.row) # "failed"
<1>1. q \in [id : BootSessions, row : Rows]
  BY DEF BootIInv, BootTypes
<1>2. Classification(q.id, q.row) \in Verdicts
  BY DEF Classification, ResumableOrFailed, Verdicts
<1>3. ASSUME q.id \in owed PROVE Classification(q.id, q.row) # "failed"
  <2>1. Resumable(q.id, q.row) /\ ~q.row.failure
    BY <1>3 DEF BootIInv, OwedIsSpared, OwedIsOfferable, Offerable
  <2> QED
    BY <2>1 DEF Classification, ResumableOrFailed
<1> QED
  BY <1>1, <1>2, <1>3

LEMMA ClassifyKeeps ==
  ASSUME BootIInv, NEW q \in probes, Classify(q)
  PROVE  BootIInv'
<1>1. BootTypes /\ phase = "probing"
  BY DEF BootIInv, Classify
<1>2. PICK v \in Verdicts : v = Classification(q.id, q.row)
  BY OwedNotFailed
<1>3. q.id \in BootSessions /\ (q.id \in owed => v # "failed")
  BY <1>2, OwedNotFailed
<1>4. verdicts' = [verdicts EXCEPT ![q.id] = v] /\ probes' = probes \ {q}
  BY <1>2 DEF Classify
<1>5. UNCHANGED <<rows, procs, machine, phase, runs, spawns, attempts, resumes, live, stubs, owed>>
  BY DEF Classify
<1>6. BootTypes'
  BY <1>1, <1>3, <1>4, <1>5 DEF BootTypes
<1>7. DownIsDown' /\ LiveIsNew' /\ StubsHoldNoProcess' /\ CutShortIsOffered'
  BY <1>1, <1>5 DEF BootIInv, DownIsDown, LiveIsNew, StubsHoldNoProcess, CutShortIsOffered, HasRow, Live
<1>8. OwedIsOfferable'
  BY <1>5 DEF BootIInv, OwedIsOfferable, Offerable, HasRow, Live
<1>9. OwedIsSpared'
  BY <1>1, <1>3, <1>4, <1>5 DEF BootIInv, OwedIsSpared, BootTypes
<1> QED
  BY <1>6, <1>7, <1>8, <1>9 DEF BootIInv

\* What a verdict makes of a row.
LEMMA ReconciledIs ==
  ASSUME BootTypes, NEW s \in BootSessions
  PROVE  /\ Reconciled(s) \in Rows \cup {NoRow} /\ (HasRow(s) => Reconciled(s) \in Rows)
         /\ Reconciled(s) = rows[s]
            \/ (/\ HasRow(s) /\ verdicts[s] = "failed"
                /\ Reconciled(s).age = 0 /\ Reconciled(s).src = "reconcile")
<1>1. CASE verdicts[s] = "failed" /\ HasRow(s)
  <2>1. rows[s] \in Rows
    BY <1>1 DEF BootTypes, HasRow
  <2>2. PICK r : r = [rows[s] EXCEPT !.status = "idle", !.src = "reconcile", !.done = TRUE, !.age = 0]
    OBVIOUS
  <2>3. r = Reconciled(s)
    BY <1>1, <2>2 DEF Reconciled
  <2>4. r \in Rows
    BY <2>1, <2>2, ZeroAge, Zenon DEF Rows
  <2>5. r.age = 0 /\ r.src = "reconcile"
    BY <2>1, <2>2, Zenon DEF Rows
  <2> QED
    BY <1>1, <2>3, <2>4, <2>5
<1>2. CASE ~(verdicts[s] = "failed" /\ HasRow(s))
  BY <1>2 DEF Reconciled, HasRow, BootTypes
<1> QED
  BY <1>1, <1>2

LEMMA RecoverKeeps ==
  ASSUME BootIInv, Recover
  PROVE  BootIInv'
<1>1. BootTypes /\ phase = "probing" /\ phase' = "resuming" /\ probes = {}
  BY DEF BootIInv, Recover
<1>2. UNCHANGED <<procs, machine, runs, spawns, probes, resumes, live, owed>>
  BY DEF Recover
<1>3. rows' = [s \in BootSessions |-> IF RehydrateDeletes(s, Reconciled(s)) THEN NoRow ELSE Reconciled(s)]
      /\ stubs' = stubs \cup {s \in BootSessions : Rehydrated(s, Reconciled(s))}
  BY DEF Recover
<1>4. attempts' \subseteq BootSessions
  BY DEF Recover
<1>5. verdicts' \in [BootSessions -> Verdicts]
  BY DEF Recover, Verdicts
<1>6. rows' \in [BootSessions -> Rows \cup {NoRow}]
  BY <1>1, <1>3, ReconciledIs
<1>7. stubs' \subseteq BootSessions
  BY <1>1, <1>3 DEF BootTypes
<1>8. BootTypes'
  BY <1>1, <1>2, <1>4, <1>5, <1>6, <1>7 DEF BootTypes
<1>9. LiveIsNew'
  <2>1. ASSUME NEW s \in BootSessions, HasRow(s)', Live(s)'
        PROVE  rows'[s].age = 0 /\ (rows'[s].done => rows'[s].src = "reconcile")
    <3>1. Live(s) /\ rows'[s] = Reconciled(s)
      BY <1>2, <1>3, <2>1 DEF Live, RehydrateDeletes
    <3>2. HasRow(s)
      BY <2>1, <3>1 DEF Reconciled, HasRow
    <3> QED
      BY <1>1, <3>1, <3>2, ReconciledIs DEF BootIInv, LiveIsNew
  <2> QED
    BY <2>1 DEF LiveIsNew
<1>10. StubsHoldNoProcess' /\ DownIsDown'
  BY <1>1, <1>2, <1>3 DEF BootIInv, StubsHoldNoProcess, Rehydrated, Live, DownIsDown
<1>11. ASSUME NEW s \in owed PROVE s \in BootSessions /\ Offerable(s)' /\ s \in stubs'
  <2>1. s \in BootSessions /\ Offerable(s) /\ verdicts[s] # "failed"
    BY <1>1, <1>11 DEF BootIInv, OwedIsOfferable, OwedIsSpared, BootTypes
  <2>2. Reconciled(s) = rows[s]
    BY <1>1, <2>1, ReconciledIs
  <2>3. rows'[s] = rows[s]
    BY <1>3, <2>1, <2>2 DEF RehydrateDeletes, NeverPrompted, Offerable
  <2>4. Rehydrated(s, rows[s])
    BY <2>1 DEF Rehydrated, Skipped, NeverPrompted, Offerable, HasRow
  <2>5. s \in stubs'
    BY <1>3, <2>1, <2>2, <2>4
  <2> QED
    BY <1>2, <2>1, <2>3, <2>5 DEF Offerable, HasRow, Live
<1>12. OwedIsOfferable' /\ OwedIsSpared' /\ CutShortIsOffered'
  BY <1>1, <1>2, <1>11 DEF OwedIsOfferable, OwedIsSpared, CutShortIsOffered
<1> QED
  BY <1>8, <1>9, <1>10, <1>12 DEF BootIInv

LEMMA PruneKeeps ==
  ASSUME BootIInv, Prune
  PROVE  BootIInv'
<1>1. BootTypes /\ phase = "resuming" /\ phase' = "recovered"
  BY DEF BootIInv, Prune
<1>2. UNCHANGED <<procs, machine, runs, spawns, probes, verdicts, attempts, resumes, live, stubs, owed>>
  BY DEF Prune
<1>3. rows' \in [BootSessions -> Rows \cup {NoRow}]
      /\ \A s \in BootSessions : rows'[s] = rows[s] \/ (rows'[s] = NoRow /\ rows[s].age = 3)
  BY <1>1 DEF Prune, BootTypes
<1>4. BootTypes'
  BY <1>1, <1>2, <1>3 DEF BootTypes
<1>5. DownIsDown' /\ LiveIsNew' /\ StubsHoldNoProcess'
  BY <1>1, <1>2, <1>3 DEF BootIInv, DownIsDown, LiveIsNew, StubsHoldNoProcess, HasRow, Live
<1>6. CutShortIsOffered'
  BY <1>1, <1>2 DEF BootIInv, CutShortIsOffered, Live
<1>7. ASSUME NEW s \in owed PROVE s \in BootSessions /\ rows'[s] = rows[s] /\ Offerable(s)
  BY <1>1, <1>3, <1>7 DEF BootIInv, OwedIsOfferable, Offerable, Recoverable, BootTypes
<1>8. OwedIsOfferable'
  BY <1>2, <1>7 DEF OwedIsOfferable, Offerable, HasRow, Live
<1>9. OwedIsSpared'
  BY <1>1, <1>2, <1>7 DEF BootIInv, OwedIsSpared, BootTypes
<1> QED
  BY <1>4, <1>5, <1>6, <1>8, <1>9 DEF BootIInv

LEMMA BootStarts ==
  ASSUME BootInit
  PROVE  BootIInv
<1>1. BootTypes
  BY BootConstantsAssumption DEF BootInit, BootTypes, BootConstantsAssumption, Verdicts, NoVerdict
<1> QED
  BY <1>1 DEF BootInit, BootIInv, DownIsDown, LiveIsNew, OwedIsOfferable, OwedIsSpared,
              CutShortIsOffered, StubsHoldNoProcess, Live

LEMMA BootStep ==
  ASSUME BootIInv, [BootNext]_bootVars
  PROVE  BootIInv'
<1>1. CASE UNCHANGED bootVars
  BY <1>1 DEF bootVars, BootIInv, BootTypes, DownIsDown, LiveIsNew, OwedIsOfferable, OwedIsSpared,
              CutShortIsOffered, StubsHoldNoProcess, Offerable, HasRow, Live
<1>2. CASE BootNext
  BY <1>2, SessionKeeps, RunsEnd, MachineKeeps, TimeKeeps, BootKeeps, ClassifyKeeps, RecoverKeeps,
     PruneKeeps DEF BootNext
<1> QED
  BY <1>1, <1>2

LEMMA BootImplies == BootIInv => BootInv
  BY DEF BootIInv, BootInv, BootTypes, BootTypeOK, Verdicts

LEMMA RowIsSome ==
  ASSUME NEW r \in Rows, NEW x, DOMAIN x = DOMAIN r
  PROVE  x # NoRow
<1>1. DOMAIN NoRow = {"pid"}
  BY DEF NoRow
<1>2. "age" \in DOMAIN r
  BY DEF Rows
<1> QED
  BY <1>1, <1>2

\* Neither the recovery of a boot nor retention takes the row of a session that runs by
\* then (rehydratePreviousSessions, pruneTerminalSessions).
THEOREM LiveRowsStay == BootSpec => RowOfLiveKept
<1>1. ASSUME BootIInv, BootNext, NEW s \in BootSessions, HasRow(s), Live(s), live'[s] = live[s]
      PROVE  rows'[s] # NoRow
  <2>1. BootTypes /\ rows[s] \in Rows /\ rows[s] # NoRow /\ rows[s].age = 0
    BY <1>1 DEF BootIInv, BootTypes, HasRow, LiveIsNew
  <2>2. CASE UNCHANGED rows
    BY <2>1, <2>2
  <2>3. CASE \E t \in BootSessions, p \in Pids : StartSession(t, p) \/ CompleteResume(t, p)
    BY <1>1, <2>1, <2>3 DEF StartSession, CompleteResume, Spawned, BootTypes
  <2>4. CASE \E t \in BootSessions, status \in {"running", "waiting_input"}, f \in BOOLEAN :
               StatusChange(t, status, f)
    <3>1. PICK t \in BootSessions, status \in {"running", "waiting_input"}, f \in BOOLEAN :
            StatusChange(t, status, f)
      BY <2>4
    <3>2. \A u \in BootSessions \ {t} : rows'[u] = rows[u]
      BY <2>1, <3>1 DEF StatusChange, BootTypes
    <3>3. DOMAIN rows'[t] = DOMAIN rows[t] /\ rows[t] \in Rows
      BY <2>1, <3>1 DEF StatusChange, BootTypes, HasRow
    <3> QED
      BY <2>1, <3>2, <3>3, RowIsSome
  <2>5. CASE \E t \in BootSessions : RecordBinding(t)
    <3>1. PICK t \in BootSessions : RecordBinding(t)
      BY <2>5
    <3>2. \A u \in BootSessions \ {t} : rows'[u] = rows[u]
      BY <2>1, <3>1 DEF RecordBinding, BootTypes
    <3>3. DOMAIN rows'[t] = DOMAIN rows[t] /\ rows[t] \in Rows
      BY <2>1, <3>1 DEF RecordBinding, BootTypes, HasRow
    <3> QED
      BY <2>1, <3>2, <3>3, RowIsSome
  <2>6. CASE \E t \in BootSessions : AgentExits(t) \/ ForgetEmpty(t)
    <3>1. PICK t \in BootSessions : AgentExits(t) \/ ForgetEmpty(t)
      BY <2>6
    <3>2. live'[t] = 0
      BY <2>1, <3>1 DEF AgentExits, ForgetEmpty, BootTypes
    <3>3. s # t
      BY <1>1, <3>2 DEF Live
    <3> QED
      BY <2>1, <3>1, <3>3 DEF AgentExits, ForgetEmpty, BootTypes
  <2>7. CASE Crash \/ CleanClose \/ TimePasses
    <3>1. ~TimePasses
      BY <1>1 DEF TimePasses, BootIInv, DownIsDown
    <3>2. live'[s] = 0
      BY <2>7, <3>1 DEF Crash, CleanClose, RunEnds
    <3> QED
      BY <1>1, <3>2 DEF Live
  <2>8. CASE Recover
    <3>1. rows'[s] = Reconciled(s)
      BY <1>1, <2>8 DEF Recover, RehydrateDeletes
    <3> QED
      BY <1>1, <2>1, <3>1, ReconciledIs, NoRowIsNone
  <2>9. CASE Prune
    BY <2>1, <2>9 DEF Prune
  <2> QED
    BY <1>1, <2>2, <2>3, <2>4, <2>5, <2>6, <2>7, <2>8, <2>9
    DEF BootNext, AskResume, RefuseResume, AutoResume, Reboot, ProcessEnds, StrangerStarts, Boot, Classify
<1>2. BootInit => BootIInv
  BY BootStarts
<1>3. BootIInv /\ [BootNext]_bootVars => BootIInv'
  BY BootStep
<1>4. BootIInv /\ [BootNext]_bootVars
        => [\A s \in BootSessions : HasRow(s) /\ Live(s) /\ live'[s] = live[s] => rows'[s] # NoRow]_bootVars
  BY <1>1
<1> QED
  BY <1>2, <1>3, <1>4, PTL DEF BootSpec, RowOfLiveKept

-----------------------------------------------------------------------------
(* What clients are told of a session.                                     *)

Sources == {"spawn", "signal", "user-input", "turn-signal", "quiet-fallback", "shutdown",
            "process-exit", None}
Lives == [status : {"running", "waiting"}, phase : {None, "working"}, hint : Hints \cup {None},
          failed : BOOLEAN, late : BOOLEAN]
Records == [status : {"running", "waiting", "idle"}, source : Sources, completed : BOOLEAN,
            failed : BOOLEAN, phase : {None, "working"}, hint : Hints \cup {None}, stub : BOOLEAN]

RecordTypes ==
  /\ agent \in {"claude", "codex"}
  /\ liveSession \in Lives \cup {NoLive}
  /\ stored \in Records \cup {NoRecord}
  /\ orphan \in Hints \cup {None, NoPass}

\* A session that runs has a record of its own, which knows of no failure that the
\* session does not have, and a phase only in a turn.
AttachedIsKept ==
  Attached => /\ Kept /\ ~stored.stub /\ (stored.failed => liveSession.failed)
              /\ liveSession.phase # None => liveSession.status = "running"

RecordIInv ==
  RecordTypes /\ AttachedIsKept /\ ShownInItsTime /\ ShownAsRead /\ LifecycleIsTrue

LEMMA NotLive == NoLive \notin Lives
  BY DEF NoLive, Lives

LEMMA NotRecord == NoRecord \notin Records
  BY DEF NoRecord, Records

\* updateManaged and onStatusChange, field by field.
LEMMA StatusFields ==
  ASSUME Kept, NEW r \in Records, NEW s, NEW source \in Sources,
         s.status \in {"running", "waiting", "idle"}, s.failed \in BOOLEAN,
         StatusChanged(r, s, source)
  PROVE  /\ stored' \in Records /\ stored'.status = s.status /\ stored'.source = source
         /\ stored'.completed <=> s.status = "idle"
         /\ stored'.failed <=> s.failed \/ (r.failed /\ s.status = "idle")
         /\ stored'.phase = IF s.status = "running" THEN r.phase ELSE None
         /\ stored'.hint = IF s.status = "waiting" THEN r.hint ELSE None
         /\ stored'.stub <=> r.stub
         /\ lastTold' = Lifecycle(stored', s.status # "idle")
<1>1. PICK u : u = Updated(r, s.status)
  OBVIOUS
<1>2. PICK ph \in {None, "working"}, hint \in Hints \cup {None} :
        /\ ph = IF s.status = "running" THEN r.phase ELSE None
        /\ hint = IF s.status = "waiting" THEN r.hint ELSE None
  BY DEF Records
<1>3. u = [r EXCEPT !.status = s.status, !.phase = ph, !.hint = hint]
  BY <1>1, <1>2 DEF Updated, Records
<1>4. /\ u \in Records /\ u.status = s.status /\ u.phase = ph /\ u.hint = hint
      /\ u.stub = r.stub /\ u.failed = r.failed
  BY <1>3, Zenon DEF Records
<1>5. PICK completed \in BOOLEAN, failed \in BOOLEAN :
        /\ completed = (s.status = "idle")
        /\ failed = (s.failed \/ (u.failed /\ s.status = "idle"))
  BY Zenon
<1>6. stored' = [u EXCEPT !.source = source, !.completed = completed, !.failed = failed]
  BY <1>1, <1>5, Zenon DEF StatusChanged
<1>7. /\ stored' \in Records /\ stored'.status = u.status /\ stored'.source = source
      /\ stored'.completed = completed /\ stored'.failed = failed
      /\ stored'.phase = u.phase /\ stored'.hint = u.hint /\ stored'.stub = u.stub
  BY <1>4, <1>6, Zenon DEF Records
<1>8. lastTold' = Lifecycle(stored', s.status # "idle")
  BY DEF StatusChanged
<1> QED
  BY <1>2, <1>4, <1>5, <1>7, <1>8

\* The session that runs, its record with it, takes another status.
LEMMA StatusKeeps ==
  ASSUME RecordIInv, Attached, NEW s \in Lives, NEW r \in Records, NEW source \in Sources,
         ~r.stub, s.phase # None => s.status = "running",
         r.phase = s.phase \/ (s.phase = None /\ s.status # "running"),
         s.status = "waiting" => r.hint \in {s.hint, None},
         liveSession' = s, StatusChanged(r, s, source),
         agent' = agent, orphan' \in Hints \cup {None, NoPass}
  PROVE  RecordIInv'
<1>1. s.status \in {"running", "waiting"} /\ s.failed \in BOOLEAN
  BY DEF Lives
<1>2. Kept
  BY DEF RecordIInv, AttachedIsKept
<1>3. /\ stored' \in Records /\ stored'.status = s.status
      /\ stored'.failed <=> s.failed
      /\ stored'.phase = IF s.status = "running" THEN r.phase ELSE None
      /\ stored'.hint = IF s.status = "waiting" THEN r.hint ELSE None
      /\ ~stored'.stub
  BY <1>1, <1>2, StatusFields
<1>4. Attached' /\ Kept'
  BY <1>3, NotLive, NotRecord DEF Attached, Kept
<1>5. RecordTypes'
  BY <1>3 DEF RecordIInv, RecordTypes
<1>6. AttachedIsKept'
  BY <1>3, <1>4 DEF AttachedIsKept
<1>7. ShownInItsTime' /\ ShownAsRead'
  BY <1>1, <1>3, <1>4 DEF ShownInItsTime, ShownAsRead
<1>8. LifecycleIsTrue'
  BY <1>4 DEF LifecycleIsTrue
<1> QED
  BY <1>5, <1>6, <1>7, <1>8 DEF RecordIInv

\* onPhaseChange and onPromptSuggestionChange.
LEMMA NotedIs ==
  ASSUME RecordIInv, Attached, NEW ph \in {None, "working"}, NEW hint \in Hints \cup {None}
  PROVE  /\ Noted(ph, hint) \in Records
         /\ Noted(ph, hint).phase = ph
         /\ Noted(ph, hint).hint = IF hint = liveSession.hint THEN stored.hint ELSE hint
         /\ Noted(ph, hint).status = stored.status
         /\ Noted(ph, hint).stub = stored.stub /\ Noted(ph, hint).failed = stored.failed
<1>1. stored \in Records /\ stored.phase = liveSession.phase
  BY DEF RecordIInv, RecordTypes, AttachedIsKept, Kept, ShownAsRead
<1>2. PICK h \in Hints \cup {None} : h = IF hint = liveSession.hint THEN stored.hint ELSE hint
  BY <1>1 DEF Records
<1>3. Noted(ph, hint) = [stored EXCEPT !.phase = ph, !.hint = h]
  BY <1>1, <1>2 DEF Noted
<1> QED
  BY <1>1, <1>2, <1>3, Zenon DEF Records

\* A session that runs moves without its status.
LEMMA NotesKeep ==
  ASSUME RecordIInv, Attached, NEW s \in Lives, NEW ph \in {None, "working"},
         NEW hint \in Hints \cup {None}, s.phase = ph, s.hint = hint, s.status = liveSession.status,
         stored' = Noted(ph, hint), stored.failed => s.failed,
         ph # None => s.status = "running",
         hint = liveSession.hint \/ hint = None \/ s.status = "waiting",
         liveSession' = s, agent' = agent, orphan' \in Hints \cup {None, NoPass}
  PROVE  RecordIInv'
<1>1. /\ stored' \in Records /\ stored'.phase = ph
      /\ stored'.hint = IF hint = liveSession.hint THEN stored.hint ELSE hint
      /\ stored'.status = stored.status
      /\ stored'.stub = stored.stub /\ stored'.failed = stored.failed
  BY NotedIs
<1>2. Attached' /\ Kept' /\ Kept
  BY <1>1, NotLive, NotRecord DEF Attached, Kept, RecordIInv, AttachedIsKept
<1>3. RecordTypes'
  BY <1>1 DEF RecordIInv, RecordTypes
<1>4. AttachedIsKept'
  BY <1>1, <1>2 DEF RecordIInv, AttachedIsKept
<1>5. ShownInItsTime' /\ ShownAsRead'
  BY <1>1, <1>2 DEF RecordIInv, ShownInItsTime, ShownAsRead
<1>6. LifecycleIsTrue'
  BY <1>2 DEF LifecycleIsTrue
<1> QED
  BY <1>3, <1>4, <1>5, <1>6 DEF RecordIInv

\* The session ends.
LEMMA EndsKeep ==
  ASSUME RecordIInv, Attached, NEW source \in {"shutdown", "process-exit"}, NEW failed \in BOOLEAN, NEW how,
         Ends(source, failed, how), stored.failed => failed,
         how = IF source = "shutdown" THEN "held" ELSE IF failed THEN "failed" ELSE "completed"
  PROVE  RecordIInv'
<1>1. liveSession \in Lives /\ stored \in Records /\ Kept /\ ~stored.stub
  BY DEF RecordIInv, RecordTypes, AttachedIsKept, Attached, Kept
<1>2. PICK s : s = [liveSession EXCEPT !.status = "idle", !.failed = failed]
  OBVIOUS
<1>3. s.status = "idle" /\ s.failed = failed
  BY <1>1, <1>2, Zenon DEF Lives
<1>4. StatusChanged(stored, s, source) /\ source \in Sources
  BY <1>2 DEF Ends, Sources
<1>5. /\ stored' \in Records /\ stored'.status = "idle" /\ stored'.source = source
      /\ stored'.completed
      /\ stored'.failed <=> failed
      /\ stored'.phase = None /\ stored'.hint = None
      /\ ~stored'.stub
      /\ lastTold' = Lifecycle(stored', FALSE)
  BY <1>1, <1>3, <1>4, StatusFields
<1>6. ~Attached' /\ Kept'
  BY <1>5, NotRecord DEF Ends, Attached, Kept
<1>7. RecordTypes'
  BY <1>1, <1>5 DEF RecordIInv, RecordTypes, Ends, Lives
<1>8. AttachedIsKept' /\ ShownInItsTime' /\ ShownAsRead'
  BY <1>5, <1>6 DEF AttachedIsKept, ShownInItsTime, ShownAsRead
<1>9. Lifecycle(stored', FALSE) = IF howEnded' = "held" THEN "resumable" ELSE howEnded'
  <2>1. howEnded' = how
    BY DEF Ends
  <2> QED
    BY <1>5, <2>1 DEF Lifecycle
<1>10. LifecycleIsTrue'
  BY <1>5, <1>6, <1>9 DEF LifecycleIsTrue
<1> QED
  BY <1>7, <1>8, <1>10 DEF RecordIInv

\* The phase is of a turn.
LEMMA PhaseReadIs ==
  ASSUME RecordIInv, Attached
  PROVE  /\ PhaseRead \in {None, "working"}
         /\ PhaseRead # None => liveSession.status = "running"
<1>1. liveSession \in Lives
  BY DEF RecordIInv, RecordTypes, Attached
<1> QED
  BY <1>1 DEF RecordIInv, AttachedIsKept, PhaseRead, PhaseOn, Lives

LEMMA HintReadIs ==
  ASSUME NEW scr
  PROVE  HintOn(scr) \in Hints \cup {None}
  BY DEF HintOn

\* ReadySession and RunningSession, field by field.
LEMMA SessionFields ==
  ASSUME NEW s \in Lives
  PROVE  /\ ReadySession(s) \in Lives /\ ReadySession(s).status = "waiting"
         /\ ReadySession(s).phase = None /\ ReadySession(s).hint = s.hint
         /\ RunningSession(s) \in Lives /\ RunningSession(s).status = "running"
         /\ RunningSession(s).phase = s.phase
  BY Zenon DEF ReadySession, RunningSession, Lives

LEMMA TurnsKeep ==
  ASSUME RecordIInv, Ready \/ SubmitText \/ LateTurn
  PROVE  RecordIInv'
<1>1. /\ Attached /\ liveSession \in Lives /\ stored \in Records /\ Kept /\ ~stored.stub
      /\ stored.phase = liveSession.phase /\ stored.hint \in {liveSession.hint, None}
      /\ liveSession.phase # None => liveSession.status = "running"
      /\ orphan \in Hints \cup {None, NoPass}
  BY DEF RecordIInv, RecordTypes, AttachedIsKept, Attached, Kept, ShownAsRead, Ready, SubmitText, LateTurn
<1>2. /\ ReadySession(liveSession) \in Lives /\ ReadySession(liveSession).status = "waiting"
      /\ ReadySession(liveSession).phase = None /\ ReadySession(liveSession).hint = liveSession.hint
      /\ RunningSession(liveSession) \in Lives /\ RunningSession(liveSession).status = "running"
      /\ RunningSession(liveSession).phase = liveSession.phase
  BY <1>1, SessionFields
<1>3. agent' = agent /\ orphan' = orphan /\ {"signal", "user-input", "turn-signal"} \subseteq Sources
  BY DEF Ready, SubmitText, LateTurn, Sources
<1>4. CASE Ready
  <2>1. liveSession' = ReadySession(liveSession)
        /\ StatusChanged(stored, ReadySession(liveSession), "signal")
    BY <1>4 DEF Ready, Becomes
  <2> QED
    BY <1>1, <1>2, <1>3, <2>1, StatusKeeps
<1>5. CASE SubmitText /\ liveSession.status = "waiting"
  <2>1. liveSession' = RunningSession(liveSession)
        /\ StatusChanged(stored, RunningSession(liveSession), "user-input")
    BY <1>5 DEF SubmitText, Becomes
  <2> QED
    BY <1>1, <1>2, <1>3, <2>1, StatusKeeps
<1>6. CASE SubmitText /\ liveSession.status # "waiting"
  <2>1. UNCHANGED <<stored, lastTold, howEnded>> /\ liveSession' = [liveSession EXCEPT !.late = TRUE]
    BY <1>6 DEF SubmitText
  <2>2. /\ liveSession' \in Lives /\ liveSession'.status = liveSession.status
        /\ liveSession'.phase = liveSession.phase /\ liveSession'.hint = liveSession.hint
        /\ liveSession'.failed = liveSession.failed
    BY <1>1, <2>1, Zenon DEF Lives
  <2>3. Attached' /\ Kept'
    BY <1>1, <2>1, <2>2, NotLive DEF Attached, Kept
  <2> QED
    BY <1>1, <1>3, <2>1, <2>2, <2>3
    DEF RecordIInv, RecordTypes, AttachedIsKept, ShownInItsTime, ShownAsRead, LifecycleIsTrue
<1>7. CASE LateTurn
  <2>1. PICK s : s = [liveSession EXCEPT !.status = "running", !.late = FALSE]
    OBVIOUS
  <2>2. s \in Lives /\ s.status = "running" /\ s.phase = liveSession.phase
    BY <1>1, <2>1, Zenon DEF Lives
  <2>3. liveSession' = s /\ StatusChanged(stored, s, "turn-signal")
    BY <1>7, <2>1 DEF LateTurn, Becomes
  <2> QED
    BY <1>1, <1>3, <2>2, <2>3, StatusKeeps
<1> QED
  BY <1>4, <1>5, <1>6, <1>7

LEMMA ClaudePassKeeps ==
  ASSUME RecordIInv, ClaudePass
  PROVE  RecordIInv'
<1>1. /\ Attached /\ liveSession \in Lives /\ Kept /\ (stored.failed => liveSession.failed)
      /\ orphan \in Hints \cup {None, NoPass} /\ agent' = agent /\ orphan' = orphan
  BY DEF RecordIInv, RecordTypes, AttachedIsKept, Attached, ClaudePass
<1>2. PICK ph \in {None, "working"} : ph = PhaseRead /\ (ph # None => liveSession.status = "running")
  BY <1>1, PhaseReadIs
<1>3. PICK hint \in Hints \cup {None} :
        /\ hint = IF liveSession.status = "waiting" THEN HintOn(painted) ELSE None
        /\ hint = None \/ liveSession.status = "waiting"
  BY HintReadIs
<1>4. PICK s : s = [liveSession EXCEPT !.phase = ph, !.hint = hint]
  OBVIOUS
<1>5. /\ s \in Lives /\ s.phase = ph /\ s.hint = hint
      /\ s.status = liveSession.status /\ s.failed = liveSession.failed
  BY <1>1, <1>4, Zenon DEF Lives
<1>6. liveSession' = s /\ stored' = Noted(ph, hint)
  BY <1>1, <1>2, <1>3, <1>4 DEF ClaudePass
<1> QED
  BY <1>1, <1>2, <1>3, <1>5, <1>6, NotesKeep

LEMMA CodexPassKeeps ==
  ASSUME RecordIInv, CodexPass
  PROVE  RecordIInv'
<1>1. /\ Attached /\ liveSession \in Lives /\ stored \in Records /\ Kept /\ ~stored.stub
      /\ (stored.failed => liveSession.failed)
      /\ stored.phase = liveSession.phase /\ stored.hint \in {liveSession.hint, None}
      /\ liveSession.phase # None => liveSession.status = "running"
      /\ orphan \in Hints \cup {None, NoPass} /\ agent' = agent /\ orphan' = orphan
  BY DEF RecordIInv, RecordTypes, AttachedIsKept, Attached, Kept, ShownAsRead, CodexPass
<1>2. CASE LimitShown /\ liveSession.status = "running"
  <2>1. PICK l : l = [liveSession EXCEPT !.failed = TRUE]
    OBVIOUS
  <2>2. l \in Lives /\ l.hint = liveSession.hint
    BY <1>1, <2>1, Zenon DEF Lives
  <2>3. /\ ReadySession(l) \in Lives /\ ReadySession(l).status = "waiting"
        /\ ReadySession(l).phase = None /\ ReadySession(l).hint = l.hint
    BY <2>2, SessionFields
  <2>4. liveSession' = ReadySession(l) /\ StatusChanged(stored, ReadySession(l), "quiet-fallback")
    BY <1>2, <2>1 DEF CodexPass, BlockedPass, Becomes
  <2>5. "quiet-fallback" \in Sources
    BY DEF Sources
  <2> QED
    BY <1>1, <2>2, <2>3, <2>4, <2>5, StatusKeeps
<1>3. CASE LimitShown /\ liveSession.status # "running"
  <2>1. liveSession' = [liveSession EXCEPT !.failed = TRUE] /\ UNCHANGED <<stored, lastTold, howEnded>>
    BY <1>3 DEF CodexPass, BlockedPass
  <2>2. /\ liveSession' \in Lives /\ liveSession'.status = liveSession.status
        /\ liveSession'.phase = liveSession.phase /\ liveSession'.hint = liveSession.hint
        /\ liveSession'.failed
    BY <1>1, <2>1, Zenon DEF Lives
  <2>3. Attached' /\ Kept'
    BY <1>1, <2>1, <2>2, NotLive DEF Attached, Kept
  <2> QED
    BY <1>1, <2>1, <2>2, <2>3
    DEF RecordIInv, RecordTypes, AttachedIsKept, ShownInItsTime, ShownAsRead, LifecycleIsTrue
<1>4. CASE ~LimitShown
  <2>1. PICK ph \in {None, "working"} : ph = PhaseRead /\ (ph # None => liveSession.status = "running")
    BY <1>1, PhaseReadIs
  <2>2. PICK s : s = [liveSession EXCEPT !.phase = ph, !.failed = FALSE]
    OBVIOUS
  <2>3. /\ s \in Lives /\ s.phase = ph /\ s.hint = liveSession.hint
        /\ s.status = liveSession.status /\ ~s.failed
    BY <1>1, <2>2, Zenon DEF Lives
  <2>4. liveSession' = s
    BY <1>4, <2>1, <2>2 DEF CodexPass, ClearPass
  <2>5. liveSession.hint \in Hints \cup {None}
    BY <1>1 DEF Lives
  <2>6. CASE liveSession.failed
    <3>1. StatusChanged(Noted(s.phase, s.hint), s, stored.source)
      BY <1>4, <2>1, <2>2, <2>6 DEF CodexPass, ClearPass
    <3>2. stored.source \in Sources
      BY <1>1 DEF Records
    <3>3. PICK r \in Records : /\ r = Noted(s.phase, s.hint) /\ r.phase = s.phase
                               /\ r.hint = stored.hint /\ r.stub = stored.stub
      BY <1>1, <2>3, <2>5, NotedIs
    <3> QED
      BY <1>1, <2>1, <2>3, <2>4, <3>1, <3>2, <3>3, StatusKeeps
  <2>7. CASE ~liveSession.failed
    <3>1. stored' = Noted(s.phase, s.hint)
      BY <1>1, <1>4, <2>1, <2>2, <2>7 DEF CodexPass, ClearPass
    <3> QED
      BY <1>1, <2>1, <2>3, <2>4, <2>5, <2>7, <3>1, NotesKeep
  <2> QED
    BY <2>6, <2>7
<1> QED
  BY <1>2, <1>3, <1>4

LEMMA SpawnKeeps ==
  ASSUME RecordIInv, Spawn
  PROVE  RecordIInv'
<1>1. NewLive \in Lives /\ NewLive.status = "running" /\ NewLive.phase = None /\ NewLive.hint = None
      /\ NewLive.failed = FALSE
  BY DEF NewLive, Lives
<1>2. /\ stored' \in Records /\ stored'.status = "running" /\ stored'.phase = None /\ stored'.hint = None
      /\ stored'.failed = FALSE /\ stored'.stub = FALSE
  BY <1>1 DEF Spawn, AddManaged, Records, Sources
<1>3. liveSession' = NewLive /\ orphan' = orphan /\ agent' = agent
  BY DEF Spawn
<1>4. Attached' /\ Kept'
  BY <1>1, <1>2, <1>3, NotLive, NotRecord DEF Attached, Kept
<1> QED
  BY <1>1, <1>2, <1>3, <1>4
  DEF RecordIInv, RecordTypes, AttachedIsKept, ShownInItsTime, ShownAsRead, LifecycleIsTrue

LEMMA EndingsKeep ==
  ASSUME RecordIInv, Hold \/ Exit \/ StartRefused
  PROVE  RecordIInv'
<1>1. /\ Attached /\ liveSession \in Lives /\ (stored.failed => liveSession.failed)
      /\ liveSession.failed \in BOOLEAN
  BY DEF RecordIInv, RecordTypes, AttachedIsKept, Attached, Hold, Exit, StartRefused, Lives
<1>2. CASE Hold
  BY <1>1, <1>2, EndsKeep DEF Hold
<1>3. CASE Exit
  <2>1. PICK instant \in BOOLEAN :
          Ends("process-exit", liveSession.failed \/ instant,
               IF liveSession.failed \/ instant THEN "failed" ELSE "completed")
    BY <1>3 DEF Exit
  <2>2. PICK failed \in BOOLEAN : failed = (liveSession.failed \/ instant)
    BY Zenon
  <2>3. Ends("process-exit", failed, IF failed THEN "failed" ELSE "completed")
    BY <2>1, <2>2, Zenon
  <2>4. stored.failed => failed
    BY <1>1, <2>2
  <2> QED
    BY <1>1, <2>3, <2>4, EndsKeep
<1>4. CASE StartRefused
  BY <1>1, <1>4, EndsKeep DEF StartRefused
<1> QED
  BY <1>2, <1>3, <1>4

LEMMA ServerKeeps ==
  ASSUME RecordIInv, Paint \/ OrphanLands \/ StartupOver \/ Forget \/ StreamerRestart
  PROVE  RecordIInv'
<1> USE DEF RecordIInv, RecordTypes, AttachedIsKept, ShownInItsTime, ShownAsRead, LifecycleIsTrue,
            Attached, Kept
<1>1. CASE Paint
  BY <1>1 DEF Paint
<1>2. CASE OrphanLands
  <2>1. UNCHANGED <<agent, liveSession, lastTold, howEnded>> /\ orphan' = NoPass
    BY <1>2 DEF OrphanLands
  <2>2. CASE UNCHANGED stored
    BY <2>1, <2>2
  <2>3. CASE ~UNCHANGED stored
    <3>1. stored \in Records /\ stored' = [stored EXCEPT !.hint = None]
      BY <1>2, <2>3 DEF OrphanLands
    <3>2. /\ stored' \in Records /\ stored'.hint = None /\ stored'.phase = stored.phase
          /\ stored'.status = stored.status /\ stored'.stub = stored.stub
          /\ stored'.failed = stored.failed /\ stored'.source = stored.source
          /\ stored'.completed = stored.completed
      BY <3>1, Zenon DEF Records
    <3>3. Lifecycle(stored', FALSE) = Lifecycle(stored, FALSE)
      BY <3>2, Zenon DEF Lifecycle
    <3>4. stored # NoRecord /\ stored' # NoRecord
      BY <3>1, <3>2, NotRecord
    <3> QED
      BY <2>1, <3>2, <3>3, <3>4
  <2> QED
    BY <2>2, <2>3
<1>3. CASE StartupOver \/ Forget
  <2>1. UNCHANGED <<agent, liveSession, orphan, lastTold, howEnded>>
        /\ (UNCHANGED stored \/ (~Attached /\ stored' = NoRecord))
    BY <1>3 DEF StartupOver, Forget
  <2> QED
    BY <2>1
<1>4. CASE StreamerRestart
  <2>1. liveSession' = NoLive /\ orphan' = NoPass /\ agent' = agent
    BY <1>4 DEF StreamerRestart
  <2>2. CASE stored' = NoRecord
    BY <2>1, <2>2
  <2>3. CASE stored' # NoRecord
    <3>1. \E s \in {"shutdown", None}, f, c \in BOOLEAN : stored' = Stub(s, f, c)
      BY <1>4, <2>3 DEF StreamerRestart
    <3>2. stored' \in Records /\ stored'.stub /\ stored'.phase = None /\ stored'.hint = None
      BY <3>1 DEF Stub, Records, Sources
    <3>3. Lifecycle(stored', FALSE) = "resumable"
      BY <3>2 DEF Lifecycle
    <3> QED
      BY <2>1, <3>2, <3>3, NotRecord
  <2> QED
    BY <2>2, <2>3
<1> QED
  BY <1>1, <1>2, <1>3, <1>4

LEMMA RecordStarts ==
  ASSUME RecordInit
  PROVE  RecordIInv
  BY DEF RecordInit, RecordIInv, RecordTypes, AttachedIsKept, ShownInItsTime, ShownAsRead,
         LifecycleIsTrue, Attached, Kept

LEMMA RecordStep ==
  ASSUME RecordIInv, [RecordNext]_recordVars
  PROVE  RecordIInv'
<1>1. CASE UNCHANGED recordVars
  BY <1>1 DEF recordVars, RecordIInv, RecordTypes, AttachedIsKept, ShownInItsTime, ShownAsRead,
              LifecycleIsTrue, Attached, Kept
<1>2. CASE RecordNext
  BY <1>2, SpawnKeeps, TurnsKeep, ClaudePassKeeps, CodexPassKeeps, EndingsKeep, ServerKeeps
  DEF RecordNext
<1> QED
  BY <1>1, <1>2

LEMMA RecordImplies ==
  ASSUME RecordIInv
  PROVE  RecordInv
<1>1. RecordTypeOK
  BY NotLive, NotRecord DEF RecordIInv, RecordTypes, RecordTypeOK, Attached, Kept, Lives, Records
<1> QED
  BY <1>1 DEF RecordIInv, RecordInv

-----------------------------------------------------------------------------
(* A session of Codex.                                                     *)

CodexSources == {"none", "spawn", "user-input", "turn-signal", "quiet-fallback", "prompt-marker",
                 "timeout-fallback"}
CodexRecords ==
  [status : {"none", "running", "waiting"}, source : CodexSources, pending : BOOLEAN,
   queue : Seq(Nat), cards : SUBSET {"gate", "approval", "limit", "picker"}, busy : BOOLEAN,
   awaiting : {"no", "fresh", "late"}, fallback : BOOLEAN, fallbackReads : BOOLEAN,
   watch : BOOLEAN, watchReads : BOOLEAN, submits : SUBSET Nat, later : Seq(Nat)]

\* What of the invariant is about the record alone, with what is kept of a session that
\* has gone: a boot is running, and nothing is due without a session.
CodexSound(x) ==
  /\ x \in CodexRecords
  /\ x.pending => x.status = "running" /\ (x.fallback \/ x.fallbackReads)
  /\ x.status = "running" /\ x.source = "user-input" /\ ~x.busy =>
       x.watch \/ x.watchReads \/ x.submits # {}
  /\ x.queue # <<>> => x.pending \/ x.cards \cap Blocking # {}
  /\ x.status = "none" => /\ x.queue = <<>> /\ x.later = <<>> /\ x.submits = {}
                          /\ x.awaiting = "no" /\ ~x.fallback /\ ~x.fallbackReads
                          /\ ~x.watch /\ ~x.watchReads

\* A handler turns the one into the other.
CodexTo(x, y) == CodexSound(y) /\ (y.status = "none" <=> x.status = "none")

CodexIInv ==
  /\ CodexSound(codex) /\ CodexTypeOK
  /\ codexSent \in Nat

LEMMA CodexTail ==
  ASSUME NEW s \in Seq(Nat), s # <<>>
  PROVE  Head(s) \in Nat /\ Tail(s) \in Seq(Nat)
  OBVIOUS

LEMMA JoinedTexts ==
  ASSUME NEW s \in Seq(Nat), NEW t \in Seq(Nat)
  PROVE  s \o t \in Seq(Nat)
  OBVIOUS

LEMMA BeginFields ==
  ASSUME NEW x \in CodexRecords
  PROVE  /\ BeginSubmit(x) \in CodexRecords /\ BeginSubmit(x).status = "running"
         /\ ~BeginSubmit(x).busy
         /\ BeginSubmit(x).pending = x.pending /\ BeginSubmit(x).queue = x.queue
         /\ BeginSubmit(x).cards = x.cards /\ BeginSubmit(x).fallback = x.fallback
         /\ BeginSubmit(x).fallbackReads = x.fallbackReads /\ BeginSubmit(x).watch = x.watch
         /\ BeginSubmit(x).watchReads = x.watchReads
         /\ BeginSubmit(x).submits = x.submits /\ BeginSubmit(x).later = x.later
<1>1. PICK src \in CodexSources : src = IF x.status = "waiting" THEN "user-input" ELSE x.source
  BY DEF CodexSources, CodexRecords
<1>2. PICK r : r = [x EXCEPT !.status = "running", !.source = src, !.busy = FALSE, !.awaiting = "fresh"]
  OBVIOUS
<1>3. BeginSubmit(x) = r
  BY <1>1, <1>2 DEF BeginSubmit
<1>4. r \in CodexRecords
  BY <1>2, Zenon DEF CodexRecords
<1>5. /\ r.status = "running" /\ r.busy = FALSE /\ r.pending = x.pending /\ r.queue = x.queue
      /\ r.cards = x.cards /\ r.fallback = x.fallback /\ r.fallbackReads = x.fallbackReads
      /\ r.watch = x.watch /\ r.watchReads = x.watchReads /\ r.submits = x.submits
      /\ r.later = x.later
  BY <1>2, Zenon DEF CodexRecords
<1> QED
  BY <1>3, <1>4, <1>5

\* A text goes to the terminal.
LEMMA SubmitKeeps ==
  ASSUME NEW x, CodexSound(x), x.status # "none", NEW q \in Seq(Nat), NEW l \in Seq(Nat),
         NEW s \in SUBSET Nat, s # {}, q # <<>> => q = x.queue
  PROVE  CodexTo(x, [BeginSubmit(x) EXCEPT !.queue = q, !.submits = s, !.later = l])
<1>1. x \in CodexRecords
  BY DEF CodexSound
<1>2. PICK b : b = BeginSubmit(x)
  OBVIOUS
<1>3. /\ b \in CodexRecords /\ b.status = "running" /\ ~b.busy
      /\ b.pending = x.pending /\ b.queue = x.queue
      /\ b.cards = x.cards /\ b.fallback = x.fallback /\ b.fallbackReads = x.fallbackReads
  BY <1>1, <1>2, BeginFields
<1>4. PICK r : r = [b EXCEPT !.queue = q, !.submits = s, !.later = l]
  OBVIOUS
<1>5. /\ r \in CodexRecords /\ r.status = "running" /\ r.pending = x.pending /\ r.queue = q
      /\ r.cards = x.cards /\ r.fallback = x.fallback /\ r.fallbackReads = x.fallbackReads
      /\ r.submits = s
  BY <1>3, <1>4, Zenon DEF CodexRecords
<1> QED
  BY <1>2, <1>4, <1>5 DEF CodexTo, CodexSound

\* flushQueuedInputs, of a record that may hold texts back for nothing.
LEMMA FlushKeeps ==
  ASSUME NEW x \in CodexRecords,
         x.queue = <<>> \/ x.pending \/ x.cards \cap Blocking # {} => CodexSound(x),
         x.pending => x.status = "running" /\ (x.fallback \/ x.fallbackReads),
         x.queue # <<>> => x.status # "none"
  PROVE  CodexTo(x, Flush(x))
<1>1. CASE x.pending \/ x.cards \cap Blocking # {} \/ x.queue = <<>>
  BY <1>1 DEF Flush, CodexTo
<1>2. CASE ~(x.pending \/ x.cards \cap Blocking # {} \/ x.queue = <<>>)
  <2>1. x.queue \in Seq(Nat) /\ x.later \in Seq(Nat) /\ x.submits \in SUBSET Nat
    BY DEF CodexRecords
  <2>2. Head(x.queue) \in Nat /\ Tail(x.queue) \in Seq(Nat)
    BY <1>2, <2>1, CodexTail
  <2>3. PICK s \in SUBSET Nat, l \in Seq(Nat) :
          s = x.submits \cup {Head(x.queue)} /\ l = x.later \o Tail(x.queue) /\ s # {}
    <3>1. x.later \o Tail(x.queue) \in Seq(Nat)
      BY <2>1, <2>2, JoinedTexts
    <3>2. x.submits \cup {Head(x.queue)} \in SUBSET Nat /\ x.submits \cup {Head(x.queue)} # {}
      BY <2>1, <2>2
    <3> QED
      BY <3>1, <3>2, Zenon
  <2>4. PICK b : b = BeginSubmit(x)
    OBVIOUS
  <2>5. /\ b \in CodexRecords /\ b.status = "running" /\ ~b.busy /\ b.pending = x.pending
        /\ b.submits = x.submits /\ b.later = x.later
    BY <2>4, BeginFields
  <2>6. PICK r : r = [b EXCEPT !.queue = <<>>, !.submits = s, !.later = l]
    OBVIOUS
  <2>7. Flush(x) = r
    <3>1. Flush(x) = [b EXCEPT !.queue = <<>>, !.submits = @ \cup {Head(x.queue)},
                               !.later = @ \o Tail(x.queue)]
      BY <1>2, <2>4 DEF Flush
    <3>2. @ = [b EXCEPT !.queue = <<>>, !.submits = b.submits \cup {Head(x.queue)},
                        !.later = b.later \o Tail(x.queue)]
      BY <2>5, Zenon DEF CodexRecords
    <3> QED
      BY <2>3, <2>5, <2>6, <3>1, <3>2
  <2>8. <<>> \in Seq(Nat)
    OBVIOUS
  <2>9. /\ r \in CodexRecords /\ r.status = "running" /\ r.pending = x.pending /\ r.queue = <<>>
        /\ r.submits = s
    BY <2>5, <2>6, <2>8, Zenon DEF CodexRecords
  <2> QED
    BY <1>2, <2>3, <2>7, <2>9 DEF CodexTo, CodexSound
<1> QED
  BY <1>1, <1>2

\* markReady, of a session that runs.
LEMMA ReadyKeeps ==
  ASSUME NEW x \in CodexRecords, NEW source \in CodexSources, x.status # "none",
         x.queue # <<>> => x.pending \/ x.cards \cap Blocking # {}
  PROVE  CodexTo(x, CodexReady(x, source))
<1>1. PICK f \in BOOLEAN : f = (x.fallback /\ ~x.pending)
  BY Zenon DEF CodexRecords
<1>2. PICK r : r = [x EXCEPT !.status = "waiting", !.source = source, !.pending = FALSE, !.watch = FALSE,
                             !.fallback = f]
  OBVIOUS
<1>3. /\ r \in CodexRecords /\ r.status = "waiting" /\ r.pending = FALSE /\ r.queue = x.queue
      /\ r.cards = x.cards
  BY <1>2, Zenon DEF CodexRecords
<1>4. CodexReady(x, source) = IF x.pending THEN Flush(r) ELSE r
  BY <1>1, <1>2 DEF CodexReady
<1>5. r.queue = <<>> \/ r.cards \cap Blocking # {} => CodexSound(r)
  BY <1>3 DEF CodexSound
<1>6. CodexTo(r, Flush(r))
  BY <1>3, <1>5, FlushKeeps
<1> QED
  BY <1>3, <1>4, <1>5, <1>6 DEF CodexTo

\* Nothing but the cards.
CardsOnly(x, r) ==
  /\ r \in CodexRecords /\ r.status = x.status /\ r.source = x.source /\ r.pending = x.pending
  /\ r.queue = x.queue /\ r.busy = x.busy /\ r.awaiting = x.awaiting /\ r.fallback = x.fallback
  /\ r.fallbackReads = x.fallbackReads /\ r.watch = x.watch /\ r.watchReads = x.watchReads
  /\ r.submits = x.submits /\ r.later = x.later

LEMMA SeeCardKeeps ==
  ASSUME NEW x, CodexSound(x), NEW card \in {"gate", "approval", "picker"}, NEW scr, NEW raised \in BOOLEAN
  PROVE  CodexTo(x, SeeCard(x, card, scr, raised))
<1>1. x \in CodexRecords /\ x.cards \in SUBSET {"gate", "approval", "limit", "picker"}
  BY DEF CodexSound, CodexRecords
<1>2. CASE scr = card
  <2>1. PICK c \in SUBSET {"gate", "approval", "limit", "picker"} :
          c = (IF raised THEN x.cards \cup {card} ELSE x.cards) /\ x.cards \subseteq c
    BY <1>1
  <2>2. PICK r : r = [x EXCEPT !.cards = c]
    OBVIOUS
  <2>3. SeeCard(x, card, scr, raised) = r
    BY <1>2, <2>1, <2>2 DEF SeeCard
  <2>4. CardsOnly(x, r)
    BY <1>1, <2>2, Zenon DEF CodexRecords, CardsOnly
  <2>5. r.cards = c
    BY <1>1, <2>2, Zenon DEF CodexRecords
  <2> QED
    BY <2>1, <2>3, <2>4, <2>5 DEF CodexTo, CodexSound, CardsOnly
<1>3. CASE scr # card /\ card \in x.cards
  <2>1. PICK c \in SUBSET {"gate", "approval", "limit", "picker"} : c = x.cards \ {card}
    BY <1>1
  <2>2. PICK r : r = [x EXCEPT !.cards = c]
    OBVIOUS
  <2>3. SeeCard(x, card, scr, raised) = Flush(r)
    BY <1>3, <2>1, <2>2 DEF SeeCard
  <2>4. CardsOnly(x, r)
    BY <1>1, <2>2, Zenon DEF CodexRecords, CardsOnly
  <2>5. r.queue = <<>> \/ r.pending \/ r.cards \cap Blocking # {} => CodexSound(r)
    BY <2>4 DEF CodexSound, CardsOnly
  <2>6. /\ r.pending => r.status = "running" /\ (r.fallback \/ r.fallbackReads)
        /\ r.queue # <<>> => r.status # "none"
    BY <2>4 DEF CodexSound, CardsOnly
  <2>7. r \in CodexRecords /\ r.status = x.status
    BY <2>4 DEF CardsOnly
  <2>8. CodexTo(r, Flush(r))
    BY <2>5, <2>6, <2>7, FlushKeeps
  <2> QED
    BY <2>3, <2>7, <2>8 DEF CodexTo
<1>4. CASE scr # card /\ card \notin x.cards
  BY <1>4 DEF SeeCard, CodexTo
<1> QED
  BY <1>2, <1>3, <1>4

LEMMA SeeLimitKeeps ==
  ASSUME NEW x, CodexSound(x), NEW scr
  PROVE  CodexTo(x, SeeLimit(x, scr))
<1>1. x \in CodexRecords /\ x.cards \in SUBSET {"gate", "approval", "limit", "picker"}
  BY DEF CodexSound, CodexRecords
<1>2. ASSUME NEW c \in SUBSET {"gate", "approval", "limit", "picker"}, c \cap Blocking = x.cards \cap Blocking
      PROVE  CodexTo(x, [x EXCEPT !.cards = c])
  <2>1. PICK r : r = [x EXCEPT !.cards = c]
    OBVIOUS
  <2>2. CardsOnly(x, r) /\ r.cards = c
    BY <1>1, <2>1, Zenon DEF CodexRecords, CardsOnly
  <2>3. r.cards \cap Blocking = x.cards \cap Blocking
    BY <1>2, <2>2
  <2>4. CodexTo(x, r)
    BY <2>2, <2>3 DEF CodexTo, CodexSound, CardsOnly
  <2> QED
    BY <2>1, <2>4
<1>3. PICK more \in SUBSET {"gate", "approval", "limit", "picker"},
           less \in SUBSET {"gate", "approval", "limit", "picker"} :
        /\ more = x.cards \cup {"limit"} /\ more \cap Blocking = x.cards \cap Blocking
        /\ less = x.cards \ {"limit"} /\ less \cap Blocking = x.cards \cap Blocking
  <2>1. (x.cards \cup {"limit"}) \in SUBSET {"gate", "approval", "limit", "picker"}
    BY <1>1
  <2>2. (x.cards \ {"limit"}) \in SUBSET {"gate", "approval", "limit", "picker"}
    BY <1>1
  <2>3. /\ (x.cards \cup {"limit"}) \cap Blocking = x.cards \cap Blocking
        /\ (x.cards \ {"limit"}) \cap Blocking = x.cards \cap Blocking
    BY DEF Blocking
  <2> QED
    BY <2>1, <2>2, <2>3, Zenon
<1>4. CodexTo(x, x)
  BY DEF CodexTo
<1>5. PICK shown : shown = [x EXCEPT !.cards = more]
  OBVIOUS
<1>6. CardsOnly(x, shown) /\ shown.cards = more
  BY <1>1, <1>5, Zenon DEF CodexRecords, CardsOnly
<1>7. CASE x.status = "running"
  <2>1. PICK r : r = [shown EXCEPT !.busy = FALSE, !.awaiting = "no"]
    OBVIOUS
  <2>2. /\ r \in CodexRecords /\ r.status = "running" /\ r.pending = x.pending /\ r.queue = x.queue
        /\ r.cards = more
    BY <1>6, <1>7, <2>1, Zenon DEF CodexRecords, CardsOnly
  <2>3. r.queue # <<>> => r.pending \/ r.cards \cap Blocking # {}
    BY <1>3, <2>2 DEF CodexSound
  <2>4. CodexTo(r, CodexReady(r, "quiet-fallback"))
    BY <2>2, <2>3, ReadyKeeps DEF CodexSources
  <2>5. CodexTo(x, CodexReady(r, "quiet-fallback"))
    BY <1>7, <2>2, <2>4 DEF CodexTo
  <2>6. CodexTo(x, [x EXCEPT !.cards = less])
    BY <1>2, <1>3
  <2>7. SeeLimit(x, scr) \in {CodexReady(r, "quiet-fallback"), x, [x EXCEPT !.cards = less]}
    BY <1>3, <1>5, <1>7, <2>1 DEF SeeLimit
  <2> QED
    BY <1>4, <2>5, <2>6, <2>7
<1>8. CASE x.status # "running"
  <2>1. CodexTo(x, [x EXCEPT !.cards = less]) /\ CodexTo(x, shown)
    BY <1>2, <1>3, <1>5
  <2>2. SeeLimit(x, scr) \in {shown, x, [x EXCEPT !.cards = less]}
    BY <1>3, <1>5, <1>8 DEF SeeLimit
  <2> QED
    BY <1>4, <2>1, <2>2
<1> QED
  BY <1>7, <1>8

LEMMA CodexToTrans ==
  ASSUME NEW x, NEW y, NEW z, CodexTo(x, y), CodexTo(y, z)
  PROVE  CodexTo(x, z)
  BY DEF CodexTo

\* A turn begins in a session that runs, or late in one that waits.
LEMMA TurnStartsKeeps ==
  ASSUME NEW x, CodexSound(x), ~x.pending, NEW scr, NEW title
  PROVE  CodexTo(x, TurnStarts(x, scr, title)) /\ ~TurnStarts(x, scr, title).pending
<1>1. x \in CodexRecords
  BY DEF CodexSound
<1>2. PICK a : a = [x EXCEPT !.awaiting = "no"]
  OBVIOUS
<1>3. /\ a \in CodexRecords /\ a.status = x.status /\ a.source = x.source /\ a.pending = x.pending
      /\ a.queue = x.queue /\ a.cards = x.cards /\ a.busy = x.busy /\ a.awaiting = "no"
      /\ a.fallback = x.fallback /\ a.fallbackReads = x.fallbackReads /\ a.watch = x.watch
      /\ a.watchReads = x.watchReads /\ a.submits = x.submits /\ a.later = x.later
  BY <1>1, <1>2, Zenon DEF CodexRecords
<1>4. CodexTo(x, a)
  BY <1>3 DEF CodexTo, CodexSound
<1>5. PICK b : b = [x EXCEPT !.awaiting = "no", !.status = "running", !.source = "turn-signal"]
  OBVIOUS
<1>6. "turn-signal" \in CodexSources
  BY DEF CodexSources
<1>7. /\ b \in CodexRecords /\ b.status = "running" /\ b.source = "turn-signal" /\ b.pending = x.pending
      /\ b.queue = x.queue /\ b.cards = x.cards
  BY <1>1, <1>5, <1>6, Zenon DEF CodexRecords
<1>8. x.status = "waiting" => CodexTo(x, b)
  BY <1>7 DEF CodexTo, CodexSound
<1>9. CodexTo(x, x)
  BY DEF CodexTo
<1>10. CASE (scr = "working" \/ title = "busy") /\ x.awaiting # "no"
            /\ x.status = "waiting" /\ x.awaiting = "fresh"
  <2>1. TurnStarts(x, scr, title) = b
    BY <1>5, <1>10 DEF TurnStarts
  <2> QED
    BY <1>7, <1>8, <1>10, <2>1
<1>11. CASE (scr = "working" \/ title = "busy") /\ x.awaiting # "no"
            /\ ~(x.status = "waiting" /\ x.awaiting = "fresh")
  <2>1. TurnStarts(x, scr, title) = a
    BY <1>2, <1>11 DEF TurnStarts
  <2> QED
    BY <1>3, <1>4, <2>1
<1>12. CASE ~((scr = "working" \/ title = "busy") /\ x.awaiting # "no")
  <2>1. TurnStarts(x, scr, title) = x
    BY <1>12 DEF TurnStarts
  <2> QED
    BY <1>9, <2>1
<1> QED
  BY <1>10, <1>11, <1>12

LEMMA TurnEndsKeeps ==
  ASSUME NEW x, CodexSound(x), ~x.pending, NEW scr, NEW title, NEW isStale
  PROVE  CodexTo(x, TurnEnds(x, scr, title, isStale))
<1>1. CASE x.status # "running"
  BY <1>1 DEF TurnEnds, CodexTo
<1>2. CASE x.status = "running"
  <2>1. x \in CodexRecords
    BY DEF CodexSound
  <2>2. PICK seen : seen = IF scr = "working" \/ title = "busy"
                           THEN [x EXCEPT !.busy = TRUE, !.watch = FALSE] ELSE x
    OBVIOUS
  <2>3. CodexTo(x, seen) /\ seen.status = "running"
    <3>1. PICK b : b = [x EXCEPT !.busy = TRUE, !.watch = FALSE]
      OBVIOUS
    <3>2. /\ b \in CodexRecords /\ b.status = x.status /\ b.pending = x.pending /\ b.busy
          /\ b.queue = x.queue /\ b.cards = x.cards
      BY <2>1, <3>1, Zenon DEF CodexRecords
    <3>3. CodexTo(x, b)
      BY <1>2, <3>2 DEF CodexTo, CodexSound
    <3> QED
      BY <1>2, <2>2, <3>1, <3>2, <3>3 DEF CodexTo
  <2>4. PICK gone : gone = [seen EXCEPT !.busy = FALSE]
    OBVIOUS
  <2>5. seen \in CodexRecords
    BY <2>3 DEF CodexTo, CodexSound
  <2>6. gone \in CodexRecords /\ gone.status = "running" /\ gone.pending = seen.pending
        /\ gone.queue = seen.queue /\ gone.cards = seen.cards
    BY <2>3, <2>4, <2>5, Zenon DEF CodexRecords
  <2>7. /\ seen.queue # <<>> => seen.pending \/ seen.cards \cap Blocking # {}
        /\ gone.queue # <<>> => gone.pending \/ gone.cards \cap Blocking # {}
    BY <2>3, <2>6 DEF CodexTo, CodexSound
  <2>8. CodexTo(gone, CodexReady(gone, "turn-signal"))
    BY <2>6, <2>7, ReadyKeeps DEF CodexSources
  <2>9. CodexTo(seen, CodexReady(seen, "quiet-fallback"))
    BY <2>3, <2>5, <2>7, ReadyKeeps DEF CodexSources
  <2>10. TurnEnds(x, scr, title, isStale) \in
           {CodexReady(gone, "turn-signal"), CodexReady(seen, "quiet-fallback"), seen}
    BY <1>2, <2>2, <2>4 DEF TurnEnds
  <2> QED
    BY <1>2, <2>3, <2>6, <2>8, <2>9, <2>10 DEF CodexTo
<1> QED
  BY <1>1, <1>2

LEMMA ReadinessKeeps ==
  ASSUME NEW x, CodexSound(x), NEW scr, NEW title, NEW isStale
  PROVE  CodexTo(x, Readiness(x, scr, title, isStale))
<1>1. CASE x.pending
  <2>1. x \in CodexRecords /\ x.status # "none"
        /\ (x.queue # <<>> => x.pending \/ x.cards \cap Blocking # {})
    BY <1>1 DEF CodexSound
  <2>2. CodexTo(x, CodexReady(x, "prompt-marker")) /\ CodexTo(x, x)
    BY <2>1, ReadyKeeps DEF CodexSources, CodexTo
  <2> QED
    BY <1>1, <2>2 DEF Readiness
<1>2. CASE ~x.pending
  <2>1. PICK y : y = TurnStarts(x, scr, title)
    OBVIOUS
  <2>2. CodexTo(x, y) /\ ~y.pending /\ CodexSound(y)
    BY <1>2, <2>1, TurnStartsKeeps DEF CodexTo
  <2>3. CodexTo(y, TurnEnds(y, scr, title, isStale))
    BY <2>2, TurnEndsKeeps
  <2> QED
    BY <1>2, <2>1, <2>2, <2>3, CodexToTrans DEF Readiness
<1> QED
  BY <1>1, <1>2

\* One pass over the screen, detector after detector.
LEMMA DetectedKeeps ==
  ASSUME NEW x, CodexSound(x), NEW scr, NEW title, NEW raised \in BOOLEAN, NEW isStale
  PROVE  CodexTo(x, Detected(x, scr, title, raised, isStale))
<1>1. PICK a : a = SeeCard(x, "gate", scr, raised)
  OBVIOUS
<1>2. CodexTo(x, a) /\ CodexSound(a)
  BY <1>1, SeeCardKeeps DEF CodexTo
<1>3. PICK b : b = SeeCard(a, "approval", scr, TRUE)
  OBVIOUS
<1>4. CodexTo(a, b) /\ CodexSound(b)
  BY <1>2, <1>3, SeeCardKeeps DEF CodexTo
<1>5. PICK c : c = SeeLimit(b, scr)
  OBVIOUS
<1>6. CodexTo(b, c) /\ CodexSound(c)
  BY <1>4, <1>5, SeeLimitKeeps DEF CodexTo
<1>7. PICK d : d = SeeCard(c, "picker", scr, TRUE)
  OBVIOUS
<1>8. CodexTo(c, d) /\ CodexSound(d)
  BY <1>6, <1>7, SeeCardKeeps DEF CodexTo
<1>9. CodexTo(d, Readiness(d, scr, title, isStale))
  BY <1>8, ReadinessKeeps
<1>10. Detected(x, scr, title, raised, isStale) = Readiness(d, scr, title, isStale)
  BY <1>1, <1>3, <1>5, <1>7 DEF Detected
<1> QED
  BY <1>2, <1>4, <1>6, <1>8, <1>9, <1>10 DEF CodexTo

-----------------------------------------------------------------------------

LEMMA NoCodexIs ==
  ASSUME NEW c \in SUBSET {"gate", "approval", "limit", "picker"}
  PROVE  CodexSound(NoCodex(c)) /\ NoCodex(c).status = "none"
<1>1. NoCodex(c) \in CodexRecords /\ NoCodex(c).status = "none"
  BY DEF NoCodex, CodexRecords, CodexSources
<1> QED
  BY <1>1 DEF CodexSound, NoCodex

\* The record moves, and whether there is a session stays.
LEMMA CodexMoves ==
  ASSUME CodexIInv, CodexTo(codex, codex'), codexAlive' = codexAlive, codexScreen' = codexScreen,
         codexTitle' = codexTitle, codexPass' \in {"none", "own", "stale"}, codexSent' \in Nat
  PROVE  CodexIInv'
<1>1. codex'.status \in {"none", "running", "waiting"} /\ codex'.awaiting \in {"no", "fresh", "late"}
      /\ codex'.cards \subseteq {"gate", "approval", "limit", "picker"}
  BY DEF CodexTo, CodexSound, CodexRecords
<1>2. codexAlive' = (codex'.status # "none")
  BY DEF CodexIInv, CodexTypeOK, CodexTo
<1> QED
  BY <1>1, <1>2 DEF CodexIInv, CodexTypeOK, CodexTo

LEMMA CodexPassesKeep ==
  ASSUME CodexIInv,
         \/ \E raised, isStale \in BOOLEAN : CodexDetect(raised, isStale)
         \/ \E raised \in BOOLEAN : DetectStale(raised)
  PROVE  CodexIInv'
<1>1. CodexSound(codex) /\ codexSent \in Nat
  BY DEF CodexIInv
<1>2. CASE \E raised, isStale \in BOOLEAN : CodexDetect(raised, isStale)
  <2>1. PICK raised \in BOOLEAN, isStale \in BOOLEAN : CodexDetect(raised, isStale)
    BY <1>2
  <2>2. CodexTo(codex, Detected(codex, codexScreen, codexTitle, raised, isStale))
    BY <1>1, DetectedKeeps
  <2> QED
    BY <1>1, <2>1, <2>2, CodexMoves DEF CodexDetect
<1>3. CASE \E raised \in BOOLEAN : DetectStale(raised)
  <2>1. PICK raised \in BOOLEAN : DetectStale(raised)
    BY <1>3
  <2>2. CodexTo(codex, Detected(codex, codexScreen, "unseen", raised, FALSE))
    BY <1>1, DetectedKeeps
  <2> QED
    BY <1>1, <2>1, <2>2, CodexMoves DEF DetectStale
<1> QED
  BY <1>2, <1>3

LEMMA CodexComesAndGoes ==
  ASSUME CodexIInv,
         \/ CodexLaunch \/ CodexExits \/ QuietCheck \/ FailStartup
         \/ \E scr \in CodexScreens, title \in {"busy", "idle", codexTitle} : CodexChunk(scr, title)
  PROVE  CodexIInv'
<1>1. /\ CodexSound(codex) /\ codexSent \in Nat /\ codexScreen \in CodexScreens
      /\ codexTitle \in {"unseen", "busy", "idle"} /\ codexPass \in {"none", "own", "stale"}
      /\ codex.cards \in SUBSET {"gate", "approval", "limit", "picker"}
  BY DEF CodexIInv, CodexTypeOK
<1>2. CASE CodexLaunch
  <2>1. PICK n : n = NoCodex(codex.cards)
    OBVIOUS
  <2>2. n \in CodexRecords /\ n.queue = <<>> /\ n.cards = codex.cards
    BY <1>1, <2>1, NoCodexIs DEF CodexSound, NoCodex
  <2>3. PICK r : r = [n EXCEPT !.status = "running", !.source = "spawn", !.pending = TRUE, !.fallback = TRUE]
    OBVIOUS
  <2>4. "spawn" \in CodexSources
    BY DEF CodexSources
  <2>5. r \in CodexRecords /\ r.status = "running" /\ r.source = "spawn" /\ r.fallback /\ r.queue = <<>>
    BY <2>2, <2>3, <2>4, Zenon DEF CodexRecords
  <2>6. CodexSound(r)
    BY <2>5 DEF CodexSound
  <2>7. /\ codex' = r /\ codexAlive' = TRUE /\ codexScreen' = "blank" /\ codexTitle' = "unseen"
        /\ codexPass' = codexPass /\ codexSent' = codexSent
    BY <1>2, <2>1, <2>3 DEF CodexLaunch
  <2>8. r.status \in {"none", "running", "waiting"} /\ r.awaiting \in {"no", "fresh", "late"}
        /\ r.cards \subseteq {"gate", "approval", "limit", "picker"}
    BY <2>5 DEF CodexRecords
  <2> QED
    BY <1>1, <2>5, <2>6, <2>7, <2>8 DEF CodexIInv, CodexTypeOK, CodexScreens
<1>3. CASE CodexExits \/ FailStartup
  <2>1. PICK r : r = NoCodex(codex.cards \cap {"picker"})
    OBVIOUS
  <2>2. (codex.cards \cap {"picker"}) \in SUBSET {"gate", "approval", "limit", "picker"}
    BY <1>1
  <2>3. CodexSound(r) /\ r.status = "none"
    BY <2>1, <2>2, NoCodexIs
  <2>4. /\ codex' = r /\ codexAlive' = FALSE /\ codexScreen' = codexScreen /\ codexTitle' = "unseen"
        /\ codexPass' \in {"none", "own", "stale"} /\ codexSent' = codexSent
    BY <1>1, <1>3, <2>1 DEF CodexExits, SessionGone, FailStartup
  <2>5. r.awaiting \in {"no", "fresh", "late"} /\ r.cards \subseteq {"gate", "approval", "limit", "picker"}
    BY <2>3 DEF CodexSound, CodexRecords
  <2> QED
    BY <1>1, <2>3, <2>4, <2>5 DEF CodexIInv, CodexTypeOK
<1>4. CASE QuietCheck
  BY <1>4 DEF QuietCheck, CodexIInv, CodexTypeOK
<1>5. CASE \E scr \in CodexScreens, title \in {"busy", "idle", codexTitle} : CodexChunk(scr, title)
  BY <1>1, <1>5 DEF CodexChunk, CodexIInv, CodexTypeOK
<1> QED
  BY <1>2, <1>3, <1>4, <1>5

\* The timers of a boot: as long as it has not settled, it will be looked at again.
LEMMA CodexBootKeeps ==
  ASSUME CodexIInv, CodexFallback \/ CodexFallbackReads \/ CodexFallbackSilent
  PROVE  CodexIInv'
<1>1. /\ CodexSound(codex) /\ codexSent \in Nat /\ codex \in CodexRecords
      /\ codex.status # "none"
      /\ codex.queue # <<>> => codex.pending \/ codex.cards \cap Blocking # {}
  BY DEF CodexIInv, CodexSound, CodexFallback, CodexFallbackReads, CodexFallbackSilent
<1>2. UNCHANGED <<codexAlive, codexScreen, codexTitle, codexPass, codexSent>>
      /\ codexPass' \in {"none", "own", "stale"}
  BY DEF CodexIInv, CodexTypeOK, CodexFallback, CodexFallbackReads, CodexFallbackSilent
<1>3. CASE CodexFallback
  <2>1. PICK readNow \in BOOLEAN : readNow = (codex.status = "running" /\ codex.pending)
    BY Zenon
  <2>2. PICK r : r = [codex EXCEPT !.fallback = FALSE, !.fallbackReads = readNow]
    OBVIOUS
  <2>3. /\ r \in CodexRecords /\ r.status = codex.status /\ r.source = codex.source
        /\ r.pending = codex.pending /\ r.fallbackReads = readNow /\ r.queue = codex.queue
        /\ r.cards = codex.cards /\ r.busy = codex.busy /\ r.watch = codex.watch
        /\ r.watchReads = codex.watchReads /\ r.submits = codex.submits
    BY <1>1, <2>2, Zenon DEF CodexRecords
  <2>4. CodexTo(codex, r)
    BY <1>1, <2>1, <2>3 DEF CodexTo, CodexSound
  <2>5. codex' = r
    BY <1>3, <2>1, <2>2 DEF CodexFallback
  <2> QED
    BY <1>1, <1>2, <2>4, <2>5, CodexMoves
<1>4. CASE CodexFallbackReads
  <2>1. PICK read : read = [codex EXCEPT !.fallbackReads = FALSE]
    OBVIOUS
  <2>2. /\ read \in CodexRecords /\ read.status = codex.status /\ read.source = codex.source
        /\ read.pending = codex.pending /\ read.queue = codex.queue
        /\ read.cards = codex.cards /\ read.busy = codex.busy /\ read.watch = codex.watch
        /\ read.watchReads = codex.watchReads /\ read.submits = codex.submits
    BY <1>1, <2>1, Zenon DEF CodexRecords
  <2>3. PICK again : again = [read EXCEPT !.fallback = TRUE]
    OBVIOUS
  <2>4. /\ again \in CodexRecords /\ again.status = codex.status /\ again.source = codex.source
        /\ again.pending = codex.pending /\ again.queue = codex.queue /\ again.fallback
        /\ again.cards = codex.cards /\ again.busy = codex.busy /\ again.watch = codex.watch
        /\ again.watchReads = codex.watchReads /\ again.submits = codex.submits
    BY <2>2, <2>3, Zenon DEF CodexRecords
  <2>5. CodexTo(codex, again)
    BY <1>1, <2>4 DEF CodexTo, CodexSound
  <2>6. ~codex.pending => CodexTo(codex, read)
    BY <1>1, <2>2 DEF CodexTo, CodexSound
  <2>7. CodexTo(read, CodexReady(read, "timeout-fallback"))
    BY <1>1, <2>2, ReadyKeeps DEF CodexSources
  <2>8. CodexTo(codex, CodexReady(read, "timeout-fallback"))
    BY <2>2, <2>7 DEF CodexTo
  <2>9. \/ codex' = read /\ ~codex.pending
        \/ codex' \in {again, CodexReady(read, "timeout-fallback")}
    BY <1>4, <2>1, <2>3 DEF CodexFallbackReads
  <2> QED
    BY <1>1, <1>2, <2>5, <2>6, <2>8, <2>9, CodexMoves
<1>5. CASE CodexFallbackSilent
  <2>1. PICK read : read = [codex EXCEPT !.fallback = FALSE]
    OBVIOUS
  <2>2. /\ read \in CodexRecords /\ read.status = codex.status /\ read.pending = codex.pending
        /\ read.queue = codex.queue /\ read.cards = codex.cards
    BY <1>1, <2>1, Zenon DEF CodexRecords
  <2>3. CodexTo(read, CodexReady(read, "timeout-fallback"))
    BY <1>1, <2>2, ReadyKeeps DEF CodexSources
  <2>4. codex' = CodexReady(read, "timeout-fallback")
    BY <1>5, <2>1 DEF CodexFallbackSilent
  <2>5. CodexTo(codex, codex')
    BY <2>2, <2>3, <2>4 DEF CodexTo
  <2> QED
    BY <1>1, <1>2, <2>5, CodexMoves
<1> QED
  BY <1>3, <1>4, <1>5

\* The watch of a submit: it stands until the turn is seen or given up.
LEMMA CodexWatchKeeps ==
  ASSUME CodexIInv, WatchFires \/ WatchReads \/ StartIsLate
  PROVE  CodexIInv'
<1>1. /\ CodexSound(codex) /\ codexSent \in Nat /\ codex \in CodexRecords
      /\ codex.status # "none"
      /\ codex.queue # <<>> => codex.pending \/ codex.cards \cap Blocking # {}
  BY DEF CodexIInv, CodexSound, WatchFires, WatchReads, StartIsLate
<1>2. UNCHANGED <<codexAlive, codexScreen, codexTitle, codexPass, codexSent>>
      /\ codexPass' \in {"none", "own", "stale"}
  BY DEF CodexIInv, CodexTypeOK, WatchFires, WatchReads, StartIsLate
<1>3. CASE WatchFires
  <2>1. PICK readNow \in BOOLEAN : readNow = (codex.status = "running" /\ ~codex.busy
                                          /\ codex.source = "user-input")
    BY Zenon
  <2>2. PICK r : r = [codex EXCEPT !.watch = FALSE, !.watchReads = readNow]
    OBVIOUS
  <2>3. /\ r \in CodexRecords /\ r.status = codex.status /\ r.source = codex.source
        /\ r.pending = codex.pending /\ r.watchReads = readNow /\ r.queue = codex.queue
        /\ r.cards = codex.cards /\ r.busy = codex.busy /\ r.fallback = codex.fallback
        /\ r.fallbackReads = codex.fallbackReads
    BY <1>1, <2>2, Zenon DEF CodexRecords
  <2>4. CodexTo(codex, r)
    BY <1>1, <2>1, <2>3 DEF CodexTo, CodexSound
  <2>5. codex' = r
    BY <1>3, <2>1, <2>2 DEF WatchFires
  <2> QED
    BY <1>1, <1>2, <2>4, <2>5, CodexMoves
<1>4. CASE WatchReads
  <2>1. PICK read : read = [codex EXCEPT !.watchReads = FALSE]
    OBVIOUS
  <2>2. /\ read \in CodexRecords /\ read.status = codex.status /\ read.source = codex.source
        /\ read.pending = codex.pending /\ read.queue = codex.queue
        /\ read.cards = codex.cards /\ read.busy = codex.busy /\ read.fallback = codex.fallback
        /\ read.fallbackReads = codex.fallbackReads
    BY <1>1, <2>1, Zenon DEF CodexRecords
  <2>3. PICK again : again = [read EXCEPT !.watch = TRUE]
    OBVIOUS
  <2>4. /\ again \in CodexRecords /\ again.status = codex.status /\ again.source = codex.source
        /\ again.pending = codex.pending /\ again.queue = codex.queue /\ again.watch
        /\ again.cards = codex.cards /\ again.fallback = codex.fallback
        /\ again.fallbackReads = codex.fallbackReads
    BY <2>2, <2>3, Zenon DEF CodexRecords
  <2>5. CodexTo(codex, again)
    BY <1>1, <2>4 DEF CodexTo, CodexSound
  <2>6. codex.status # "running" \/ codex.busy => CodexTo(codex, read)
    BY <1>1, <2>2 DEF CodexTo, CodexSound
  <2>7. CodexTo(read, CodexReady(read, "quiet-fallback"))
    BY <1>1, <2>2, ReadyKeeps DEF CodexSources
  <2>8. CodexTo(codex, CodexReady(read, "quiet-fallback"))
    BY <2>2, <2>7 DEF CodexTo
  <2>9. \/ codex' = read /\ (codex.status # "running" \/ codex.busy)
        \/ codex' \in {again, CodexReady(read, "quiet-fallback")}
    BY <1>4, <2>1, <2>3 DEF WatchReads
  <2> QED
    BY <1>1, <1>2, <2>5, <2>6, <2>8, <2>9, CodexMoves
<1>5. CASE StartIsLate
  <2>1. PICK r : r = [codex EXCEPT !.awaiting = "late"]
    OBVIOUS
  <2>2. /\ r \in CodexRecords /\ r.status = codex.status /\ r.source = codex.source
        /\ r.pending = codex.pending /\ r.watchReads = codex.watchReads /\ r.queue = codex.queue
        /\ r.cards = codex.cards /\ r.busy = codex.busy /\ r.fallback = codex.fallback
        /\ r.fallbackReads = codex.fallbackReads /\ r.watch = codex.watch /\ r.submits = codex.submits
    BY <1>1, <2>1, Zenon DEF CodexRecords
  <2>3. CodexTo(codex, r)
    BY <1>1, <2>2 DEF CodexTo, CodexSound
  <2>4. codex' = r
    BY <1>5, <2>1 DEF StartIsLate
  <2> QED
    BY <1>1, <1>2, <2>3, <2>4, CodexMoves
<1> QED
  BY <1>3, <1>4, <1>5

LEMMA AppendedText ==
  ASSUME NEW s \in Seq(Nat), NEW t \in Nat
  PROVE  Append(s, t) \in Seq(Nat)
  OBVIOUS

\* What the user sends, and the texts that follow a flushed one.
LEMMA CodexTextsKeep ==
  ASSUME CodexIInv,
         CodexInput \/ FlushLater \/ CodexKeys \/ \E t \in codex.submits : CodexSubmit(t)
  PROVE  CodexIInv'
<1>1. /\ CodexSound(codex) /\ codexSent \in Nat /\ codex \in CodexRecords
      /\ codexAlive = (codex.status # "none")
      /\ codex.queue \in Seq(Nat) /\ codex.later \in Seq(Nat) /\ codex.submits \in SUBSET Nat
  BY DEF CodexIInv, CodexTypeOK, CodexSound, CodexRecords
<1>2. /\ codexAlive' = codexAlive /\ codexScreen' = codexScreen /\ codexTitle' = codexTitle
      /\ codexPass' \in {"none", "own", "stale"}
  <2>1. codexPass \in {"none", "own", "stale"}
    BY DEF CodexIInv, CodexTypeOK
  <2>2. UNCHANGED <<codexAlive, codexScreen, codexTitle, codexPass>>
    <3>1. CASE CodexInput
      BY <3>1, Zenon DEF CodexInput
    <3>2. CASE FlushLater
      BY <3>2, Zenon DEF FlushLater
    <3>3. CASE CodexKeys
      BY <3>3, Zenon DEF CodexKeys
    <3>4. CASE \E t \in codex.submits : CodexSubmit(t)
      BY <3>4, Zenon DEF CodexSubmit
    <3> QED
      BY <3>1, <3>2, <3>3, <3>4
  <2> QED
    BY <2>1, <2>2
<1>3. PICK b : b = BeginSubmit(codex)
  OBVIOUS
<1>4. /\ b \in CodexRecords /\ b.queue = codex.queue /\ b.submits = codex.submits
      /\ b.later = codex.later
  BY <1>1, <1>3, BeginFields
<1>5. CASE CodexInput
  <2>1. codex.status # "none" /\ codexSent' = codexSent + 1 /\ codexSent' \in Nat
    <3>1. codexAlive /\ codexSent' = codexSent + 1
      BY <1>5, Zenon DEF CodexInput
    <3>2. codex.status # "none"
      BY <1>1, <3>1, Zenon
    <3> QED
      BY <1>1, <3>1, <3>2
  <2>2. CASE codex.pending \/ codex.cards \cap Blocking # {}
    <3>1. PICK q \in Seq(Nat) : q = Append(codex.queue, codexSent')
      BY <1>1, <2>1, AppendedText
    <3>2. PICK r : r = [codex EXCEPT !.queue = q]
      OBVIOUS
    <3>3. /\ r \in CodexRecords /\ r.status = codex.status /\ r.source = codex.source
          /\ r.pending = codex.pending /\ r.watchReads = codex.watchReads
          /\ r.cards = codex.cards /\ r.busy = codex.busy /\ r.fallback = codex.fallback
          /\ r.fallbackReads = codex.fallbackReads /\ r.watch = codex.watch
          /\ r.submits = codex.submits
      BY <1>1, <3>2, Zenon DEF CodexRecords
    <3>4. CodexTo(codex, r)
      BY <1>1, <2>1, <2>2, <3>3 DEF CodexTo, CodexSound
    <3>5. codex' = r
      BY <1>5, <2>2, <3>1, <3>2 DEF CodexInput
    <3> QED
      BY <1>2, <2>1, <3>4, <3>5, CodexMoves
  <2>3. CASE ~(codex.pending \/ codex.cards \cap Blocking # {})
    <3>1. PICK s \in SUBSET Nat : s = codex.submits \cup {codexSent'} /\ s # {}
      <4>1. (codex.submits \cup {codexSent'}) \in SUBSET Nat /\ codex.submits \cup {codexSent'} # {}
        BY <1>1, <2>1
      <4> QED
        BY <4>1, Zenon
    <3>2. codex' = [b EXCEPT !.submits = @ \cup {codexSent'}]
      BY <1>3, <1>5, <2>3 DEF CodexInput
    <3>3. @ = [b EXCEPT !.queue = codex.queue, !.submits = s, !.later = codex.later]
      <4>1. [b EXCEPT !.submits = @ \cup {codexSent'}]
              = [b EXCEPT !.queue = b.queue, !.submits = b.submits \cup {codexSent'},
                          !.later = b.later]
        BY <1>4, Zenon DEF CodexRecords
      <4> QED
        BY <1>4, <3>1, <4>1
    <3>4. CodexTo(codex, codex')
      <4>1. codex.queue # <<>> => codex.queue = codex.queue
        OBVIOUS
      <4>2. CodexTo(codex, [BeginSubmit(codex) EXCEPT !.queue = codex.queue, !.submits = s,
                                                      !.later = codex.later])
        <5>1. /\ CodexSound(codex) /\ codex.status # "none" /\ s # {} /\ s \in SUBSET Nat
              /\ codex.queue \in Seq(Nat) /\ codex.later \in Seq(Nat)
          BY <1>1, <2>1, <3>1, Zenon
        <5> QED
          BY <4>1, <5>1, SubmitKeeps, Zenon
      <4> QED
        BY <1>3, <3>2, <3>3, <4>2, Zenon
    <3> QED
      BY <1>2, <2>1, <3>4, CodexMoves
  <2> QED
    BY <2>2, <2>3
<1>6. CASE FlushLater
  <2>1. /\ Head(codex.later) \in Nat /\ Tail(codex.later) \in Seq(Nat) /\ codex.status # "none"
        /\ codexSent' = codexSent
    BY <1>1, <1>6, CodexTail DEF FlushLater, CodexSound
  <2>2. PICK s \in SUBSET Nat : s = codex.submits \cup {Head(codex.later)} /\ s # {}
    <3>1. (codex.submits \cup {Head(codex.later)}) \in SUBSET Nat
          /\ codex.submits \cup {Head(codex.later)} # {}
      BY <1>1, <2>1
    <3> QED
      BY <3>1, Zenon
  <2>3. codex' = [b EXCEPT !.later = Tail(@), !.submits = @ \cup {Head(codex.later)}]
    BY <1>3, <1>6 DEF FlushLater
  <2>4. @ = [b EXCEPT !.queue = codex.queue, !.submits = s, !.later = Tail(codex.later)]
    <3>1. [b EXCEPT !.later = Tail(@), !.submits = @ \cup {Head(codex.later)}]
            = [b EXCEPT !.queue = b.queue, !.submits = b.submits \cup {Head(codex.later)},
                        !.later = Tail(b.later)]
      BY <1>4, Zenon DEF CodexRecords
    <3> QED
      BY <1>4, <2>2, <3>1
  <2>5. CodexTo(codex, codex')
    <3>1. codex.queue # <<>> => codex.queue = codex.queue
      OBVIOUS
    <3>2. CodexTo(codex, [BeginSubmit(codex) EXCEPT !.queue = codex.queue, !.submits = s,
                                                    !.later = Tail(codex.later)])
      <4>1. /\ CodexSound(codex) /\ codex.status # "none" /\ s # {} /\ s \in SUBSET Nat
            /\ codex.queue \in Seq(Nat) /\ Tail(codex.later) \in Seq(Nat)
        BY <1>1, <2>1, <2>2, Zenon
      <4> QED
        BY <3>1, <4>1, SubmitKeeps, Zenon
    <3> QED
      BY <1>3, <2>3, <2>4, <3>2, Zenon
  <2> QED
    BY <1>1, <1>2, <2>1, <2>5, CodexMoves
<1>7. CASE CodexKeys
  <2>1. PICK r : r = [codex EXCEPT !.status = "running", !.source = "user-input",
                                   !.busy = FALSE, !.awaiting = "fresh", !.watch = TRUE]
    OBVIOUS
  <2>2. "user-input" \in CodexSources
    BY DEF CodexSources
  <2>3. /\ r \in CodexRecords /\ r.status = "running" /\ r.pending = codex.pending /\ r.watch
        /\ r.queue = codex.queue /\ r.cards = codex.cards
    BY <1>1, <2>1, <2>2, Zenon DEF CodexRecords
  <2>4. codex.status = "waiting" => CodexTo(codex, r)
    BY <1>1, <2>3 DEF CodexTo, CodexSound
  <2>5. CodexTo(codex, codex)
    BY <1>1 DEF CodexTo
  <2>6. codex' = IF codex.status = "waiting" THEN r ELSE codex
    BY <1>7, <2>1 DEF CodexKeys
  <2>7. codexSent' = codexSent
    BY <1>7 DEF CodexKeys
  <2> QED
    BY <1>1, <1>2, <2>4, <2>5, <2>6, <2>7, CodexMoves
<1>8. CASE \E t \in codex.submits : CodexSubmit(t)
  <2>1. PICK t \in codex.submits : CodexSubmit(t)
    BY <1>8
  <2>2. PICK s \in SUBSET Nat : s = codex.submits \ {t}
    <3>1. (codex.submits \ {t}) \in SUBSET Nat
      BY <1>1
    <3> QED
      BY <3>1, Zenon
  <2>3. PICK r : r = [codex EXCEPT !.submits = s, !.watch = TRUE]
    OBVIOUS
  <2>4. /\ r \in CodexRecords /\ r.status = codex.status /\ r.source = codex.source
        /\ r.pending = codex.pending /\ r.watchReads = codex.watchReads
        /\ r.cards = codex.cards /\ r.busy = codex.busy /\ r.fallback = codex.fallback
        /\ r.fallbackReads = codex.fallbackReads /\ r.watch /\ r.queue = codex.queue
    BY <1>1, <2>3, Zenon DEF CodexRecords
  <2>5. CodexTo(codex, r)
    BY <1>1, <2>1, <2>4 DEF CodexTo, CodexSound
  <2>6. codex' = r /\ codexSent' = codexSent
    <3>1. codex' = [codex EXCEPT !.submits = @ \ {t}, !.watch = TRUE] /\ codexSent' = codexSent
      BY <2>1, Zenon DEF CodexSubmit
    <3>2. [codex EXCEPT !.submits = @ \ {t}, !.watch = TRUE]
            = [codex EXCEPT !.submits = codex.submits \ {t}, !.watch = TRUE]
      BY <1>1, Zenon DEF CodexRecords
    <3> QED
      BY <2>2, <2>3, <3>1, <3>2
  <2> QED
    BY <1>1, <1>2, <2>5, <2>6, CodexMoves
<1> QED
  BY <1>5, <1>6, <1>7, <1>8

LEMMA CodexBegins == CodexInit => CodexIInv
<1>1. {} \in SUBSET {"gate", "approval", "limit", "picker"}
  OBVIOUS
<1>2. CodexSound(NoCodex({})) /\ NoCodex({}).status = "none"
  BY <1>1, NoCodexIs
<1>3. NoCodex({}).awaiting \in {"no", "fresh", "late"}
      /\ NoCodex({}).cards \subseteq {"gate", "approval", "limit", "picker"}
  BY DEF NoCodex
<1> SUFFICES ASSUME CodexInit PROVE CodexIInv
  OBVIOUS
<1>4. codex = NoCodex({}) /\ codexSent = 0 /\ codexAlive = FALSE
  BY Zenon DEF CodexInit
<1>5. codexAlive = (codex.status # "none")
  BY <1>2, <1>4
<1>6. /\ codexScreen \in CodexScreens /\ codexTitle \in {"unseen", "busy", "idle"}
      /\ codexPass \in {"none", "own", "stale"}
  BY Zenon DEF CodexInit, CodexScreens
<1>7. codex.status \in {"none", "running", "waiting"}
  BY <1>2, <1>4
<1> QED
  BY <1>2, <1>3, <1>4, <1>5, <1>6, <1>7 DEF CodexIInv, CodexTypeOK

LEMMA CodexStep == CodexIInv /\ [CodexNext]_codexVars => CodexIInv'
<1> SUFFICES ASSUME CodexIInv, [CodexNext]_codexVars PROVE CodexIInv'
  OBVIOUS
<1>1. CASE UNCHANGED codexVars
  BY <1>1 DEF codexVars, CodexIInv, CodexTypeOK
<1>2. CASE CodexNext
  BY <1>2, CodexPassesKeep, CodexComesAndGoes, CodexBootKeeps, CodexWatchKeeps, CodexTextsKeep
  DEF CodexNext
<1> QED
  BY <1>1, <1>2

LEMMA CodexImplies == CodexIInv => CodexInv
  BY DEF CodexIInv, CodexInv, CodexSound, BootIsWatched, SubmitIsWatched, HeldBackForAReason

-----------------------------------------------------------------------------
(* A session of Cursor.                                                    *)

CursorSources == {"none", "spawn", "user-input", "turn-signal", "prompt-marker", "timeout-fallback",
                  "quiet-fallback"}
CursorRecords ==
  [status : {"idle", "running", "waiting"}, source : CursorSources, pending : BOOLEAN,
   fallback : BOOLEAN, queue : Seq(Nat), later : Seq(Nat), watch : BOOLEAN, busy : BOOLEAN,
   awaiting : {"no", "fresh", "late"}, quiet : BOOLEAN, pass : BOOLEAN]
Programs ==
  [runs : BOOLEAN, up : BOOLEAN, compose : Seq(Nat), turn : {"none", "working", "card"},
   turns : Nat, submitted : Seq(Seq(Nat))]
SubmitRecords ==
  [text : Nat, step : {"cleared", "typed"}, echoed : BOOLEAN, flushed : BOOLEAN]
Overs == [submit : BOOLEAN, turn : BOOLEAN, boot : BOOLEAN]

CursorTypes ==
  /\ cursor \in CursorRecords /\ program \in Programs /\ submits \subseteq SubmitRecords
  /\ over \in Overs /\ sends \in Nat

\* A boot holds every text back, and only a boot does.
CursorBoots ==
  /\ cursor.status = "idle" => ~cursor.pending /\ submits = {} /\ cursor.later = <<>>
  /\ ~cursor.pending => cursor.queue = <<>>
  /\ cursor.pending => /\ cursor.status = "running" /\ cursor.source = "spawn" /\ cursor.fallback
                       /\ ~cursor.watch /\ ~cursor.pass
                       /\ submits = {} /\ cursor.later = <<>> /\ program.submitted = <<>>

\* One text is on its way, and the compose box holds it or nothing.
OneOnItsWay ==
  /\ \A s, t \in submits : s = t
  /\ \A s \in submits : program.compose = IF s.step = "cleared" THEN <<>> ELSE <<s.text>>

ComposeIsUp ==
  /\ program.compose # <<>> => program.up
  /\ cursor.status # "idle" /\ ~cursor.pending => program.up

\* The texts submitted, on their way, and held back are in the order they were sent.
SubmittedInOrder ==
  \A i \in DOMAIN program.submitted :
    /\ Len(program.submitted[i]) = 1 /\ program.submitted[i][1] <= sends
    /\ i > 1 => program.submitted[i - 1][1] < program.submitted[i][1]
    /\ \A s \in submits : program.submitted[i][1] < s.text
    /\ \A k \in DOMAIN cursor.later : program.submitted[i][1] < cursor.later[k]
OnTheirWayInOrder ==
  \A s \in submits : s.text <= sends /\ \A k \in DOMAIN cursor.later : s.text < cursor.later[k]
LaterInOrder ==
  \A k \in DOMAIN cursor.later :
    cursor.later[k] <= sends /\ \A m \in DOMAIN cursor.later : k < m => cursor.later[k] < cursor.later[m]
QueueInOrder ==
  \A k \in DOMAIN cursor.queue :
    cursor.queue[k] <= sends /\ \A m \in DOMAIN cursor.queue : k < m => cursor.queue[k] < cursor.queue[m]

TextsInOrder ==
  ~over.submit => /\ OneOnItsWay /\ ComposeIsUp
                  /\ SubmittedInOrder /\ OnTheirWayInOrder /\ LaterInOrder /\ QueueInOrder

\* What the status stands for.
CursorStatus ==
  /\ cursor.status # "idle" /\ ~over.turn /\ ~over.submit
       => program.turn = "none" \/ (cursor.status = "running" /\ cursor.busy)
  /\ cursor.status = "running" /\ ~cursor.pending => cursor.source \in {"user-input", "turn-signal"}
  /\ cursor.status = "waiting" /\ ~over.boot => ~cursor.busy
  /\ cursor.status = "running" /\ ~cursor.pending /\ cursor.source # "turn-signal" /\ ~over.boot
       => IF cursor.busy THEN program.turn # "none" \/ cursor.quiet \/ cursor.pass
          ELSE cursor.watch \/ submits # {}

CursorIInv == CursorTypes /\ CursorBoots /\ TextsInOrder /\ CursorStatus
-----------------------------------------------------------------------------
LEMMA PaintedFields ==
  ASSUME NEW x \in CursorRecords
  PROVE  /\ Painted(x) \in CursorRecords /\ Painted(x).quiet
         /\ Painted(x).status = x.status /\ Painted(x).source = x.source
         /\ Painted(x).pending = x.pending /\ Painted(x).fallback = x.fallback
         /\ Painted(x).queue = x.queue /\ Painted(x).later = x.later /\ Painted(x).watch = x.watch
         /\ Painted(x).busy = x.busy /\ Painted(x).awaiting = x.awaiting /\ Painted(x).pass = x.pass
<1>1. Painted(x) \in CursorRecords /\ Painted(x).quiet = TRUE
  BY Zenon DEF Painted, CursorRecords
<1> QED
  BY <1>1, Zenon DEF Painted, CursorRecords

LEMMA HintedFields ==
  ASSUME NEW x \in CursorRecords
  PROVE  /\ Hinted(x) \in CursorRecords /\ Hinted(x).quiet
         /\ Hinted(x).pending = x.pending /\ Hinted(x).fallback = x.fallback
         /\ Hinted(x).queue = x.queue /\ Hinted(x).later = x.later /\ Hinted(x).watch = x.watch
         /\ Hinted(x).pass = x.pass
         /\ x.status = "running" => /\ Hinted(x).status = "running" /\ Hinted(x).busy
                                    /\ Hinted(x).source = x.source
         /\ x.status = "waiting" /\ x.awaiting = "fresh"
              => /\ Hinted(x).status = "running" /\ Hinted(x).busy
                 /\ Hinted(x).source = "turn-signal"
         /\ x.status # "running" /\ ~(x.status = "waiting" /\ x.awaiting = "fresh")
              => /\ Hinted(x).status = x.status /\ Hinted(x).busy = x.busy
                 /\ Hinted(x).source = x.source
<1>1. CASE x.status = "running"
  <2>1. PICK r : r = [x EXCEPT !.busy = TRUE, !.awaiting = "no", !.quiet = TRUE]
    OBVIOUS
  <2>2. /\ r \in CursorRecords /\ r.quiet /\ r.pending = x.pending /\ r.fallback = x.fallback
        /\ r.queue = x.queue /\ r.later = x.later /\ r.watch = x.watch /\ r.pass = x.pass
        /\ r.status = x.status /\ r.busy /\ r.source = x.source
    BY <2>1, Zenon DEF CursorRecords
  <2>3. Hinted(x) = r
    BY <1>1, <2>1 DEF Hinted
  <2> QED
    BY <1>1, <2>2, <2>3
<1>2. CASE x.status = "waiting" /\ x.awaiting = "fresh"
  <2>1. PICK r : r = [x EXCEPT !.busy = TRUE, !.awaiting = "no", !.quiet = TRUE,
                               !.status = "running", !.source = "turn-signal"]
    OBVIOUS
  <2>2. "turn-signal" \in CursorSources
    BY DEF CursorSources
  <2>3. /\ r \in CursorRecords /\ r.quiet /\ r.pending = x.pending /\ r.fallback = x.fallback
        /\ r.queue = x.queue /\ r.later = x.later /\ r.watch = x.watch /\ r.pass = x.pass
        /\ r.status = "running" /\ r.busy /\ r.source = "turn-signal"
    BY <2>1, <2>2, Zenon DEF CursorRecords
  <2>4. Hinted(x) = r
    BY <1>2, <2>1 DEF Hinted
  <2> QED
    BY <1>2, <2>3, <2>4
<1>3. CASE x.status # "running" /\ ~(x.status = "waiting" /\ x.awaiting = "fresh")
  <2>1. PICK r : r = [x EXCEPT !.awaiting = "no", !.quiet = TRUE]
    OBVIOUS
  <2>2. /\ r \in CursorRecords /\ r.quiet /\ r.pending = x.pending /\ r.fallback = x.fallback
        /\ r.queue = x.queue /\ r.later = x.later /\ r.watch = x.watch /\ r.pass = x.pass
        /\ r.status = x.status /\ r.busy = x.busy /\ r.source = x.source
    BY <2>1, Zenon DEF CursorRecords
  <2>3. Hinted(x) = r
    BY <1>3, <2>1 DEF Hinted
  <2> QED
    BY <1>3, <2>2, <2>3
<1> QED
  BY <1>1, <1>2, <1>3

LEMMA BegunFields ==
  ASSUME NEW x \in CursorRecords
  PROVE  /\ BegunSubmit(x) \in CursorRecords /\ BegunSubmit(x).status = "running"
         /\ ~BegunSubmit(x).busy
         /\ BegunSubmit(x).source = IF x.status = "waiting" THEN "user-input" ELSE x.source
         /\ BegunSubmit(x).pending = x.pending /\ BegunSubmit(x).fallback = x.fallback
         /\ BegunSubmit(x).queue = x.queue /\ BegunSubmit(x).later = x.later
         /\ BegunSubmit(x).watch = x.watch /\ BegunSubmit(x).pass = x.pass
<1>1. PICK src \in CursorSources : src = IF x.status = "waiting" THEN "user-input" ELSE x.source
  BY DEF CursorSources, CursorRecords
<1>2. PICK r : r = [x EXCEPT !.status = "running", !.source = src, !.busy = FALSE]
  OBVIOUS
<1>3. BegunSubmit(x) = r
  BY <1>1, <1>2 DEF BegunSubmit
<1>4. /\ r \in CursorRecords /\ r.status = "running" /\ ~r.busy /\ r.source = src
      /\ r.pending = x.pending /\ r.fallback = x.fallback /\ r.queue = x.queue
      /\ r.later = x.later /\ r.watch = x.watch /\ r.pass = x.pass
  BY <1>2, Zenon DEF CursorRecords
<1> QED
  BY <1>1, <1>3, <1>4

LEMMA TailOfTexts ==
  ASSUME NEW s \in Seq(Nat), s # <<>>
  PROVE  /\ Head(s) \in Nat /\ Head(s) = s[1] /\ Tail(s) \in Seq(Nat) /\ 1 \in DOMAIN s
         /\ \A k \in DOMAIN Tail(s) : k + 1 \in DOMAIN s /\ Tail(s)[k] = s[k + 1] /\ k \in Nat /\ k >= 1
  OBVIOUS

\* writeSubmit
LEMMA WritesFields ==
  ASSUME CursorTypes, NEW textSent \in Nat, NEW flushed \in BOOLEAN, Writes(textSent, flushed)
  PROVE  /\ program' \in Programs /\ program'.compose = <<>> /\ program'.up = program.up
         /\ program'.turn = program.turn /\ program'.submitted = program.submitted
         /\ submits' \subseteq SubmitRecords
         /\ \E s \in SubmitRecords : /\ s.text = textSent /\ s.step = "cleared"
                                     /\ submits' = submits \cup {s}
<1>1. program' = [program EXCEPT !.compose = <<>>]
  BY DEF Writes
<1>2. <<>> \in Seq(Nat) /\ program \in Programs
  BY DEF CursorTypes
<1>3. /\ program' \in Programs /\ program'.compose = <<>> /\ program'.up = program.up
      /\ program'.turn = program.turn /\ program'.submitted = program.submitted
  BY <1>1, <1>2, Zenon DEF Programs
<1>4. PICK s : s = [text |-> textSent, step |-> "cleared", echoed |-> FALSE, flushed |-> flushed]
  OBVIOUS
<1>5. s \in SubmitRecords /\ s.text = textSent /\ s.step = "cleared"
  BY <1>4, Zenon DEF SubmitRecords
<1>6. submits' = submits \cup {s}
  BY <1>4 DEF Writes
<1> QED
  BY <1>3, <1>5, <1>6 DEF CursorTypes

\* markReady, without a text to send and with one.
LEMMA ReadyFields ==
  ASSUME NEW x \in CursorRecords, NEW source \in CursorSources, CursorReady(x, source), CursorTypes
  PROVE  \/ /\ x.pending => x.queue = <<>>
            /\ cursor' \in CursorRecords /\ cursor'.status = "waiting" /\ cursor'.source = source
            /\ ~cursor'.pending /\ ~cursor'.watch /\ cursor'.busy = x.busy
            /\ cursor'.queue = x.queue /\ cursor'.later = x.later
            /\ submits' = submits /\ program' = program
         \/ /\ x.pending /\ x.queue # <<>>
            /\ cursor' \in CursorRecords /\ cursor'.status = "running" /\ cursor'.source = "user-input"
            /\ ~cursor'.pending /\ ~cursor'.busy
            /\ cursor'.queue = <<>> /\ cursor'.later = Tail(x.queue)
            /\ Writes(Head(x.queue), TRUE)
<1>1. PICK fb \in BOOLEAN : fb = (x.fallback /\ ~x.pending)
  BY Zenon
<1>2. PICK readied : readied = [x EXCEPT !.status = "waiting", !.source = source, !.pending = FALSE,
                                     !.watch = FALSE, !.fallback = fb]
  OBVIOUS
<1>3. /\ readied \in CursorRecords /\ readied.status = "waiting" /\ readied.source = source
      /\ ~readied.pending /\ ~readied.watch /\ readied.busy = x.busy /\ readied.queue = x.queue
      /\ readied.later = x.later
  BY <1>2, Zenon DEF CursorRecords
<1>4. readied = [x EXCEPT !.status = "waiting", !.source = source, !.pending = FALSE,
                        !.watch = FALSE, !.fallback = @ /\ ~x.pending]
  <2>1. [x EXCEPT !.status = "waiting", !.source = source, !.pending = FALSE,
                        !.watch = FALSE, !.fallback = @ /\ ~x.pending]
         = [x EXCEPT !.status = "waiting", !.source = source, !.pending = FALSE,
                        !.watch = FALSE, !.fallback = (x.fallback /\ ~x.pending)]
    BY Zenon DEF CursorRecords
  <2> QED
    BY <1>1, <1>2, <2>1, Zenon
<1>5. CASE x.pending /\ x.queue # <<>>
  <2>1. x.queue \in Seq(Nat)
    BY DEF CursorRecords
  <2>2. PICK l \in Seq(Nat) : l = Tail(x.queue)
    BY <1>5, <2>1, TailOfTexts
  <2>3. PICK y : y = [readied EXCEPT !.queue = <<>>, !.later = l]
    OBVIOUS
  <2>4. <<>> \in Seq(Nat)
    OBVIOUS
  <2>5. /\ y \in CursorRecords /\ y.status = "waiting" /\ ~y.pending /\ y.queue = <<>> /\ y.later = l
    BY <1>3, <2>3, <2>4, Zenon DEF CursorRecords
  <2>6. cursor' = BegunSubmit(y) /\ Writes(Head(x.queue), TRUE)
    BY <1>4, <1>5, <2>2, <2>3, Zenon DEF CursorReady
  <2>7. /\ cursor' \in CursorRecords /\ cursor'.status = "running" /\ cursor'.source = "user-input"
        /\ ~cursor'.pending /\ ~cursor'.busy /\ cursor'.queue = <<>> /\ cursor'.later = l
    BY <2>5, <2>6, BegunFields
  <2> QED
    BY <1>5, <2>2, <2>6, <2>7, Zenon
<1>6. CASE ~(x.pending /\ x.queue # <<>>)
  <2>1. cursor' = readied /\ submits' = submits /\ program' = program
    BY <1>4, <1>6, Zenon DEF CursorReady
  <2> QED
    BY <1>3, <1>6, <2>1, Zenon
<1> QED
  BY <1>5, <1>6, Zenon

-----------------------------------------------------------------------------
\* A step that moves no text.
LEMMA TextsRest ==
  ASSUME TextsInOrder, submits' = submits, program'.compose = program.compose,
         program'.submitted = program.submitted, cursor'.queue = cursor.queue,
         cursor'.later = cursor.later, sends' = sends, program.up => program'.up,
         over.submit => over'.submit,
         ~over'.submit /\ cursor'.status # "idle" /\ ~cursor'.pending => program'.up
  PROVE  TextsInOrder'
<1> SUFFICES ASSUME ~over'.submit
             PROVE  /\ OneOnItsWay' /\ ComposeIsUp'
                    /\ SubmittedInOrder' /\ OnTheirWayInOrder' /\ LaterInOrder' /\ QueueInOrder'
  BY DEF TextsInOrder
<1>1. /\ OneOnItsWay /\ ComposeIsUp
      /\ SubmittedInOrder /\ OnTheirWayInOrder /\ LaterInOrder /\ QueueInOrder
  BY DEF TextsInOrder
<1>2. OneOnItsWay'
  BY <1>1, Zenon DEF OneOnItsWay
<1>3. ComposeIsUp'
  BY <1>1, Zenon DEF ComposeIsUp
<1>4. SubmittedInOrder'
  BY <1>1, Zenon DEF SubmittedInOrder
<1>5. OnTheirWayInOrder' /\ LaterInOrder' /\ QueueInOrder'
  BY <1>1, Zenon DEF OnTheirWayInOrder, LaterInOrder, QueueInOrder
<1> QED
  BY <1>2, <1>3, <1>4, <1>5

\* A text is written when nothing else is on its way, or the box no longer holds one text.
LEMMA WriteKeepsOrder ==
  ASSUME CursorTypes, CursorTypes', TextsInOrder, NEW s \in SubmitRecords, s.step = "cleared",
         submits' = submits \cup {s}, program'.compose = <<>>,
         program'.submitted = program.submitted, program'.up = program.up, cursor'.queue = <<>>,
         sends' = sends \/ sends' = sends + 1,
         over.submit => over'.submit,
         ~over'.submit =>
           /\ submits = {} /\ program.up /\ s.text <= sends'
           /\ \A i \in DOMAIN program.submitted : program.submitted[i][1] < s.text
           /\ \A k \in DOMAIN cursor'.later : s.text < cursor'.later[k]
           /\ LaterInOrder'
  PROVE  TextsInOrder'
<1> SUFFICES ASSUME ~over'.submit
             PROVE  /\ OneOnItsWay' /\ ComposeIsUp'
                    /\ SubmittedInOrder' /\ OnTheirWayInOrder' /\ LaterInOrder' /\ QueueInOrder'
  BY DEF TextsInOrder
<1>1. OneOnItsWay /\ ComposeIsUp /\ SubmittedInOrder
  BY DEF TextsInOrder
<1>2. /\ submits' = {s} /\ program.up /\ s.text <= sends' /\ LaterInOrder'
      /\ \A i \in DOMAIN program.submitted : program.submitted[i][1] < s.text
      /\ \A k \in DOMAIN cursor'.later : s.text < cursor'.later[k]
  OBVIOUS
<1>3. OneOnItsWay' /\ ComposeIsUp'
  BY <1>2 DEF OneOnItsWay, ComposeIsUp
<1>4. OnTheirWayInOrder'
  BY <1>2 DEF OnTheirWayInOrder
<1>5. QueueInOrder'
  BY DEF QueueInOrder
<1>6. SubmittedInOrder'
  <2> SUFFICES ASSUME NEW i \in DOMAIN program.submitted
               PROVE  /\ Len(program.submitted[i]) = 1 /\ program.submitted[i][1] <= sends'
                      /\ i > 1 => program.submitted[i - 1][1] < program.submitted[i][1]
                      /\ program.submitted[i][1] < s.text
                      /\ \A k \in DOMAIN cursor'.later : program.submitted[i][1] < cursor'.later[k]
    BY <1>2 DEF SubmittedInOrder
  <2>1. /\ Len(program.submitted[i]) = 1 /\ program.submitted[i][1] <= sends
        /\ i > 1 => program.submitted[i - 1][1] < program.submitted[i][1]
    BY <1>1 DEF SubmittedInOrder
  <2>2. program.submitted[i] \in Seq(Nat)
    BY DEF CursorTypes, Programs
  <2>3. program.submitted[i][1] \in Nat
    BY <2>1, <2>2
  <2>4. sends \in Nat /\ s.text \in Nat /\ cursor'.later \in Seq(Nat)
    BY DEF CursorTypes, SubmitRecords, CursorRecords
  <2>5. \A k \in DOMAIN cursor'.later : cursor'.later[k] \in Nat
    BY <2>4
  <2>6. program.submitted[i][1] < s.text
    BY <1>2
  <2>7. program.submitted[i][1] <= sends'
    BY <2>1, <2>3, <2>4
  <2>8. \A k \in DOMAIN cursor'.later : program.submitted[i][1] < cursor'.later[k]
    BY <1>2, <2>3, <2>4, <2>5, <2>6
  <2> QED
    BY <2>1, <2>6, <2>7, <2>8
<1> QED
  BY <1>2, <1>3, <1>4, <1>5, <1>6

\* The rest of an ordered sequence is ordered, behind its first.
LEMMA RestInOrder ==
  ASSUME NEW s \in Seq(Nat), NEW n \in Nat, s # <<>>,
         \A k \in DOMAIN s : s[k] <= n /\ \A m \in DOMAIN s : k < m => s[k] < s[m]
  PROVE  /\ \A k \in DOMAIN Tail(s) :
              Tail(s)[k] <= n /\ \A m \in DOMAIN Tail(s) : k < m => Tail(s)[k] < Tail(s)[m]
         /\ \A k \in DOMAIN Tail(s) : Head(s) < Tail(s)[k]
         /\ Head(s) <= n
<1>1. /\ Head(s) = s[1] /\ 1 \in DOMAIN s
      /\ \A k \in DOMAIN Tail(s) : k + 1 \in DOMAIN s /\ Tail(s)[k] = s[k + 1] /\ k \in Nat /\ k >= 1
  BY TailOfTexts
<1>2. PICK t : t = Tail(s)
  OBVIOUS
<1>3. ASSUME NEW k \in DOMAIN t PROVE t[k] <= n /\ s[1] < t[k]
  <2>1. k + 1 \in DOMAIN s /\ t[k] = s[k + 1] /\ 1 < k + 1
    BY <1>1, <1>2
  <2> QED
    BY <1>1, <2>1
<1>4. ASSUME NEW k \in DOMAIN t, NEW m \in DOMAIN t, k < m PROVE t[k] < t[m]
  <2>1. /\ k + 1 \in DOMAIN s /\ t[k] = s[k + 1] /\ m + 1 \in DOMAIN s /\ t[m] = s[m + 1]
        /\ k + 1 < m + 1
    BY <1>1, <1>2, <1>4
  <2> QED
    BY <2>1
<1>5. Head(s) <= n
  BY <1>1
<1> QED
  BY <1>1, <1>2, <1>3, <1>4, <1>5

\* The end of the boot.
LEMMA CursorReadyKeeps ==
  ASSUME CursorIInv, NEW x \in CursorRecords, NEW source \in CursorSources, CursorReady(x, source),
         x.status = cursor.status, x.pending = cursor.pending, x.queue = cursor.queue,
         x.later = cursor.later, cursor.status # "idle", over' \in Overs, sends' = sends,
         over.submit => over'.submit, over.turn => over'.turn, over.boot /\ ~x.pending => over'.boot,
         x.pending /\ ~over'.submit => program.up,
         ~over'.turn /\ ~over'.submit => program.turn = "none",
         ~over'.boot => ~x.busy
  PROVE  CursorIInv'
<1>1. CursorTypes /\ CursorBoots /\ TextsInOrder /\ CursorStatus
  BY DEF CursorIInv
<1>2. CASE /\ x.pending => x.queue = <<>>
           /\ cursor' \in CursorRecords /\ cursor'.status = "waiting" /\ cursor'.source = source
           /\ ~cursor'.pending /\ ~cursor'.watch /\ cursor'.busy = x.busy
           /\ cursor'.queue = x.queue /\ cursor'.later = x.later
           /\ submits' = submits /\ program' = program
  <2>1. CursorTypes'
    BY <1>1, <1>2 DEF CursorTypes
  <2>2. CursorBoots'
    <3>1. cursor'.queue = <<>>
      BY <1>1, <1>2 DEF CursorBoots
    <3> QED
      BY <1>2, <3>1 DEF CursorBoots
  <2>3. TextsInOrder'
    <3>1. ~over'.submit => program'.up
      BY <1>1, <1>2 DEF TextsInOrder, ComposeIsUp
    <3> QED
      BY <1>1, <1>2, <3>1, TextsRest
  <2>4. CursorStatus'
    BY <1>2 DEF CursorStatus
  <2> QED
    BY <2>1, <2>2, <2>3, <2>4 DEF CursorIInv
<1>3. CASE /\ x.pending /\ x.queue # <<>>
           /\ cursor' \in CursorRecords /\ cursor'.status = "running" /\ cursor'.source = "user-input"
           /\ ~cursor'.pending /\ ~cursor'.busy
           /\ cursor'.queue = <<>> /\ cursor'.later = Tail(x.queue)
           /\ Writes(Head(x.queue), TRUE)
  <2>1. x.queue \in Seq(Nat) /\ Head(x.queue) \in Nat /\ TRUE \in BOOLEAN
    BY <1>3, TailOfTexts DEF CursorRecords
  <2>2. /\ program' \in Programs /\ program'.compose = <<>> /\ program'.up = program.up
        /\ program'.turn = program.turn /\ program'.submitted = program.submitted
        /\ submits' \subseteq SubmitRecords
    BY <1>1, <1>3, <2>1, WritesFields
  <2>3. PICK s \in SubmitRecords : s.text = Head(x.queue) /\ s.step = "cleared"
                                   /\ submits' = submits \cup {s}
    BY <1>1, <1>3, <2>1, WritesFields
  <2>4. CursorTypes'
    BY <1>1, <1>3, <2>2 DEF CursorTypes
  <2>5. CursorBoots'
    BY <1>3 DEF CursorBoots
  <2>6. TextsInOrder'
    <3>1. submits = {} /\ program.submitted = <<>>
      BY <1>1, <1>3 DEF CursorBoots
    <3>2. ~over'.submit => QueueInOrder
      BY <1>1 DEF TextsInOrder
    <3>3. ~over'.submit => /\ LaterInOrder' /\ \A k \in DOMAIN cursor'.later : s.text < cursor'.later[k]
                           /\ s.text <= sends'
      <4>1. sends \in Nat
        BY <1>1 DEF CursorTypes
      <4>2. ~over'.submit =>
              /\ \A k \in DOMAIN Tail(x.queue) :
                   Tail(x.queue)[k] <= sends
                   /\ \A m \in DOMAIN Tail(x.queue) : k < m => Tail(x.queue)[k] < Tail(x.queue)[m]
              /\ \A k \in DOMAIN Tail(x.queue) : Head(x.queue) < Tail(x.queue)[k]
              /\ Head(x.queue) <= sends
        BY <1>3, <2>1, <3>2, <4>1, RestInOrder DEF QueueInOrder
      <4> QED
        BY <1>3, <2>3, <4>2, Zenon DEF LaterInOrder
    <3>4. \A i \in DOMAIN program.submitted : program.submitted[i][1] < s.text
      BY <3>1
    <3>5. ~over'.submit => program.up
      BY <1>3
    <3> QED
      BY <1>1, <1>3, <2>2, <2>3, <2>4, <3>1, <3>3, <3>4, <3>5, WriteKeepsOrder
  <2>7. CursorStatus'
    <3>1. submits' # {}
      BY <2>3
    <3> QED
      BY <1>3, <2>2, <3>1 DEF CursorStatus
  <2> QED
    BY <2>4, <2>5, <2>6, <2>7 DEF CursorIInv
<1> QED
  BY <1>1, <1>2, <1>3, ReadyFields

-----------------------------------------------------------------------------
\* What the program paints: the record moves as little as this.
CursorNoted(y) ==
  /\ y \in CursorRecords /\ y.pending = cursor.pending /\ y.fallback = cursor.fallback
  /\ y.queue = cursor.queue /\ y.later = cursor.later /\ y.watch = cursor.watch
  /\ y.pass = cursor.pass

\* A hint is what the record is busy with, or changes nothing of its status.
HintTaken ==
  /\ cursor.status \in {"running", "waiting"} /\ cursor'.status = "running" /\ cursor'.busy
  /\ cursor'.source = IF cursor.status = "running" THEN cursor.source ELSE "turn-signal"
HintNotTaken ==
  /\ cursor'.status = cursor.status /\ cursor'.source = cursor.source
  /\ cursor'.busy = cursor.busy
  /\ cursor.status # "idle" =>
       \/ program'.turn = program.turn \/ program'.turn = "none" \/ over'.turn
       \/ program.turn # "none"

LEMMA ScreenKeeps ==
  ASSUME CursorIInv, CursorNoted(cursor'), program' \in Programs,
         program'.compose = program.compose, program'.submitted = program.submitted,
         program.up => program'.up, submits' = submits, sends' = sends,
         over' \in Overs, over'.submit = over.submit, over.turn => over'.turn,
         over'.boot = over.boot, cursor.status # "idle" => cursor'.quiet,
         HintTaken \/ HintNotTaken
  PROVE  CursorIInv'
<1>1. CursorTypes /\ CursorBoots /\ TextsInOrder /\ CursorStatus
  BY DEF CursorIInv
<1>2. CursorTypes'
  BY <1>1 DEF CursorTypes, CursorNoted
<1>3. CursorBoots'
  BY <1>1 DEF CursorBoots, CursorNoted, HintTaken, HintNotTaken
<1>4. TextsInOrder'
  <2>1. ~over'.submit /\ cursor'.status # "idle" /\ ~cursor'.pending => program'.up
    BY <1>1 DEF TextsInOrder, ComposeIsUp, CursorNoted, HintTaken, HintNotTaken
  <2> QED
    BY <1>1, <2>1, TextsRest DEF CursorNoted
<1>5. CursorStatus'
  BY <1>1 DEF CursorStatus, CursorNoted, HintTaken, HintNotTaken
<1> QED
  BY <1>2, <1>3, <1>4, <1>5 DEF CursorIInv

LEMMA CursorScreenKeeps ==
  ASSUME CursorIInv, ProgramUp \/ TurnBegins \/ HintPainted \/ HintLeaves
  PROVE  CursorIInv'
<1>1. /\ cursor \in CursorRecords /\ program \in Programs /\ over \in Overs
  BY DEF CursorIInv, CursorTypes
<1>2. CASE ProgramUp
  <2>1. /\ program' = [program EXCEPT !.up = TRUE] /\ cursor' = IF Present THEN Painted(cursor) ELSE cursor
        /\ submits' = submits /\ sends' = sends /\ over' = over
    BY <1>2, Zenon DEF ProgramUp
  <2>2. /\ program' \in Programs /\ program'.compose = program.compose /\ program'.up
        /\ program'.submitted = program.submitted /\ program'.turn = program.turn
    BY <1>1, <2>1, Zenon DEF Programs
  <2>3. /\ CursorNoted(cursor') /\ cursor'.status = cursor.status /\ cursor'.source = cursor.source
        /\ cursor'.busy = cursor.busy
        /\ cursor.status # "idle" => cursor'.quiet
    BY <1>1, <2>1, PaintedFields DEF CursorNoted, Present
  <2>4. HintNotTaken
    BY <2>2, <2>3 DEF HintNotTaken
  <2> QED
    BY <1>1, <2>1, <2>2, <2>3, <2>4, ScreenKeeps
<1>3. CASE HintLeaves
  <2>1. PICK turn \in {"none", "card"} : program' = [program EXCEPT !.turn = turn]
    BY <1>3, Zenon DEF HintLeaves
  <2>2. /\ cursor' = IF Present THEN Painted(cursor) ELSE cursor
        /\ submits' = submits /\ sends' = sends /\ over' = over /\ program.turn # "none"
    BY <1>3, Zenon DEF HintLeaves
  <2>3. /\ program' \in Programs /\ program'.compose = program.compose /\ program'.up = program.up
        /\ program'.submitted = program.submitted /\ program'.turn \in {"none", "card"}
    BY <1>1, <2>1, Zenon DEF Programs
  <2>4. /\ CursorNoted(cursor') /\ cursor'.status = cursor.status /\ cursor'.source = cursor.source
        /\ cursor'.busy = cursor.busy
        /\ cursor.status # "idle" => cursor'.quiet
    BY <1>1, <2>2, PaintedFields DEF CursorNoted, Present
  <2>5. HintNotTaken
    BY <2>2, <2>4 DEF HintNotTaken
  <2> QED
    BY <1>1, <2>1, <2>2, <2>3, <2>4, <2>5, ScreenKeeps
<1>4. CASE HintPainted
  <2>1. /\ program' = [program EXCEPT !.turn = "working"]
        /\ cursor' = IF Present THEN Hinted(cursor) ELSE cursor
        /\ submits' = submits /\ sends' = sends /\ over' = over /\ program.turn # "none"
    BY <1>4, Zenon DEF HintPainted
  <2>2. /\ program' \in Programs /\ program'.compose = program.compose /\ program'.up = program.up
        /\ program'.submitted = program.submitted /\ program'.turn = "working"
    BY <1>1, <2>1, Zenon DEF Programs
  <2>3. /\ CursorNoted(cursor')
        /\ cursor.status # "idle" => cursor'.quiet
        /\ cursor.status = "running" => /\ cursor'.status = "running" /\ cursor'.busy
                                        /\ cursor'.source = cursor.source
        /\ cursor.status = "waiting" =>
             \/ cursor'.status = "running" /\ cursor'.busy /\ cursor'.source = "turn-signal"
             \/ cursor'.status = "waiting" /\ cursor'.busy = cursor.busy
                /\ cursor'.source = cursor.source
        /\ cursor.status = "idle" => cursor' = cursor
    BY <1>1, <2>1, HintedFields DEF CursorNoted, Present
  <2>4. cursor.status \in {"idle", "running", "waiting"}
    BY <1>1 DEF CursorRecords
  <2>5. HintTaken \/ HintNotTaken
    BY <2>1, <2>3, <2>4 DEF HintTaken, HintNotTaken
  <2> QED
    BY <1>1, <2>1, <2>2, <2>3, <2>5, ScreenKeeps
<1>5. CASE TurnBegins
  <2>1. PICK noted \in BOOLEAN : noted = (over.turn \/ cursor.awaiting # "fresh")
    BY Zenon
  <2>2. over' = [over EXCEPT !.turn = noted]
    <3>1. over' = [over EXCEPT !.turn = @ \/ cursor.awaiting # "fresh"]
      BY <1>5, Zenon DEF TurnBegins
    <3>2. @ = [over EXCEPT !.turn = (over.turn \/ cursor.awaiting # "fresh")]
      BY <1>1, Zenon DEF Overs
    <3> QED
      BY <2>1, <3>1, <3>2, Zenon
  <2>3. over' \in Overs /\ over'.submit = over.submit /\ over'.boot = over.boot /\ over'.turn = noted
    BY <1>1, <2>2, Zenon DEF Overs
  <2>4. PICK n : n = program.turns + 1
    OBVIOUS
  <2>5. program.turns \in Nat
    BY <1>1, Zenon DEF Programs
  <2>6. n \in Nat
    BY <2>4, <2>5
  <2>7. /\ program' = [program EXCEPT !.turn = "working", !.turns = @ + 1]
        /\ cursor' = IF Present THEN Hinted(cursor) ELSE cursor
        /\ submits' = submits /\ sends' = sends
    BY <1>5, Zenon DEF TurnBegins
  <2>8. program' = [program EXCEPT !.turn = "working", !.turns = n]
    BY <1>1, <2>4, <2>7, Zenon DEF Programs
  <2>9. /\ program' \in Programs /\ program'.compose = program.compose /\ program'.up = program.up
        /\ program'.submitted = program.submitted /\ program'.turn = "working"
    BY <1>1, <2>6, <2>8, Zenon DEF Programs
  <2>10. /\ CursorNoted(cursor')
         /\ cursor.status # "idle" => cursor'.quiet
         /\ cursor.status = "running" => /\ cursor'.status = "running" /\ cursor'.busy
                                         /\ cursor'.source = cursor.source
         /\ cursor.status = "waiting" =>
              \/ cursor'.status = "running" /\ cursor'.busy /\ cursor'.source = "turn-signal"
              \/ cursor'.status = "waiting" /\ cursor'.busy = cursor.busy
                 /\ cursor'.source = cursor.source /\ cursor.awaiting # "fresh"
         /\ cursor.status = "idle" => cursor' = cursor
    BY <1>1, <2>7, HintedFields DEF CursorNoted, Present
  <2>11. cursor.status \in {"idle", "running", "waiting"}
    BY <1>1 DEF CursorRecords
  <2>12. over.turn => over'.turn
    BY <2>1, <2>3
  <2>13. cursor.awaiting # "fresh" => over'.turn
    BY <2>1, <2>3
  <2>14. HintTaken \/ HintNotTaken
    BY <2>10, <2>11, <2>13 DEF HintTaken, HintNotTaken
  <2> QED
    BY <1>1, <2>3, <2>7, <2>9, <2>10, <2>12, <2>14, ScreenKeeps
<1> QED
  BY <1>2, <1>3, <1>4, <1>5

-----------------------------------------------------------------------------
\* The boot of the runner, and its passes over the screen.
LEMMA CursorBootKeeps ==
  ASSUME CursorIInv, NEW waitedLong \in BOOLEAN, ReadyFallback(waitedLong)
  PROVE  CursorIInv'
<1>1. /\ cursor \in CursorRecords /\ program \in Programs /\ over \in Overs /\ sends \in Nat
      /\ CursorBoots
  BY DEF CursorIInv, CursorTypes
<1>2. /\ cursor.status # "idle" /\ cursor.pending /\ CursorReady(cursor, "timeout-fallback")
      /\ sends' = sends
      /\ over' = [over EXCEPT !.submit = @ \/ ~program.up, !.turn = @ \/ program.turn # "none",
                              !.boot = cursor.busy]
  BY Zenon DEF ReadyFallback, Present
<1>3. PICK sb \in BOOLEAN, tb \in BOOLEAN, bb \in BOOLEAN :
        /\ sb = (over.submit \/ ~program.up) /\ tb = (over.turn \/ program.turn # "none")
        /\ bb = cursor.busy
  <2>1. cursor.busy \in BOOLEAN
    BY <1>1, Zenon DEF CursorRecords
  <2> QED
    BY <2>1, Zenon
<1>4. over' = [over EXCEPT !.submit = sb, !.turn = tb, !.boot = bb]
  <2>1. over' = [over EXCEPT !.submit = (over.submit \/ ~program.up),
                             !.turn = (over.turn \/ program.turn # "none"), !.boot = cursor.busy]
    BY <1>1, <1>2, Zenon DEF Overs
  <2> QED
    BY <1>3, <2>1, Zenon
<1>5. over' \in Overs /\ over'.submit = sb /\ over'.turn = tb /\ over'.boot = bb
  BY <1>1, <1>4, Zenon DEF Overs
<1>6. /\ over.submit => over'.submit
      /\ over.turn => over'.turn
      /\ ~over'.submit => program.up
      /\ ~over'.turn => program.turn = "none"
      /\ ~over'.boot => ~cursor.busy
  BY <1>3, <1>5, Zenon
<1>7. "timeout-fallback" \in CursorSources
  BY DEF CursorSources
<1>8. /\ over.boot /\ ~cursor.pending => over'.boot
      /\ cursor.pending /\ ~over'.submit => program.up
      /\ ~over'.turn /\ ~over'.submit => program.turn = "none"
  BY <1>2, <1>6, Zenon
<1> QED
  BY <1>1, <1>2, <1>5, <1>6, <1>7, <1>8, CursorReadyKeeps, Zenon

\* A step of the runner alone: the record moves, and nothing else.
LEMMA CursorAloneKeeps ==
  ASSUME CursorIInv, CursorTypes', CursorStatus', submits' = submits, program' = program,
         sends' = sends, over.submit => over'.submit,
         cursor'.queue = cursor.queue, cursor'.later = cursor.later,
         cursor'.pending = cursor.pending, cursor'.fallback = cursor.fallback,
         cursor'.status = "idle" <=> cursor.status = "idle",
         cursor.pending => /\ cursor'.status = "running" /\ cursor'.source = "spawn"
                           /\ ~cursor'.watch /\ ~cursor'.pass
  PROVE  CursorIInv'
<1>1. CursorTypes /\ CursorBoots /\ TextsInOrder
  BY DEF CursorIInv
<1>2. CursorBoots'
  BY <1>1 DEF CursorBoots
<1>3. TextsInOrder'
  <2>1. ~over'.submit /\ cursor'.status # "idle" /\ ~cursor'.pending => program'.up
    BY <1>1 DEF TextsInOrder, ComposeIsUp
  <2> QED
    BY <1>1, <2>1, TextsRest
<1> QED
  BY <1>2, <1>3 DEF CursorIInv

LEMMA QuietKeeps ==
  ASSUME CursorIInv, Quiet
  PROVE  CursorIInv'
<1>1. /\ cursor \in CursorRecords /\ program \in Programs /\ over \in Overs /\ sends \in Nat
      /\ CursorBoots /\ CursorTypes /\ CursorStatus
  BY DEF CursorIInv, CursorTypes
<1>2. PICK x : x = [cursor EXCEPT !.quiet = FALSE]
  OBVIOUS
<1>3. /\ x \in CursorRecords /\ x.status = cursor.status /\ x.source = cursor.source
      /\ x.pending = cursor.pending /\ x.fallback = cursor.fallback /\ x.queue = cursor.queue
      /\ x.later = cursor.later /\ x.watch = cursor.watch /\ x.busy = cursor.busy
      /\ x.pass = cursor.pass
  BY <1>1, <1>2, Zenon DEF CursorRecords
<1>4. /\ cursor.status # "idle" /\ sends' = sends
      /\ over' = [over EXCEPT !.turn = @ \/ (cursor.pending /\ program.turn # "none"),
                              !.boot = @ \/ (cursor.pending /\ cursor.busy)]
  BY Zenon DEF Quiet, Present
<1>5. PICK tb \in BOOLEAN, bb \in BOOLEAN :
        /\ tb = (over.turn \/ (cursor.pending /\ program.turn # "none"))
        /\ bb = (over.boot \/ (cursor.pending /\ cursor.busy))
  BY Zenon
<1>6. over' = [over EXCEPT !.turn = tb, !.boot = bb]
  <2>1. over' = [over EXCEPT !.turn = (over.turn \/ (cursor.pending /\ program.turn # "none")),
                             !.boot = (over.boot \/ (cursor.pending /\ cursor.busy))]
    BY <1>1, <1>4, Zenon DEF Overs
  <2> QED
    BY <1>5, <2>1, Zenon
<1>7. over' \in Overs /\ over'.submit = over.submit /\ over'.turn = tb /\ over'.boot = bb
  BY <1>1, <1>6, Zenon DEF Overs
<1>8. /\ over.submit => over'.submit
      /\ over.turn => over'.turn
      /\ over.boot => over'.boot
      /\ cursor.pending /\ ~over'.turn => program.turn = "none"
      /\ cursor.pending /\ ~over'.boot => ~cursor.busy
  BY <1>5, <1>7, Zenon
<1>9. CASE cursor.pending /\ program.up
  <2>1. CursorReady(x, "prompt-marker")
    BY <1>2, <1>3, <1>9, Zenon DEF Quiet
  <2>2. "prompt-marker" \in CursorSources
    BY DEF CursorSources
  <2>3. /\ over.boot /\ ~x.pending => over'.boot
        /\ x.pending /\ ~over'.submit => program.up
        /\ ~over'.turn /\ ~over'.submit => program.turn = "none"
        /\ ~over'.boot => ~x.busy
    BY <1>3, <1>8, <1>9
  <2> QED
    BY <1>3, <1>4, <1>7, <1>8, <2>1, <2>2, <2>3, CursorReadyKeeps, Zenon
<1>10. CASE cursor.pending /\ ~program.up
  <2>1. cursor' = x /\ submits' = submits /\ program' = program
    BY <1>2, <1>3, <1>10, Zenon DEF Quiet
  <2>2. CursorTypes'
    BY <1>1, <1>3, <1>4, <1>7, <2>1 DEF CursorTypes
  <2>3. CursorStatus'
    BY <1>1, <1>3, <1>8, <1>10, <2>1 DEF CursorStatus, CursorBoots
  <2>4. cursor.pending => /\ cursor'.status = "running" /\ cursor'.source = "spawn"
                          /\ ~cursor'.watch /\ ~cursor'.pass
    BY <1>1, <1>3, <2>1 DEF CursorBoots
  <2> QED
    BY <1>3, <1>4, <1>8, <2>1, <2>2, <2>3, <2>4, CursorAloneKeeps
<1>11. CASE ~cursor.pending
  <2>1. PICK ps \in BOOLEAN : ps = (x.status = "running" /\ x.busy)
    BY Zenon
  <2>2. cursor' = [x EXCEPT !.pass = ps] /\ submits' = submits /\ program' = program
    BY <1>2, <1>3, <1>11, <2>1, Zenon DEF Quiet
  <2>3. /\ cursor' \in CursorRecords /\ cursor'.status = cursor.status
        /\ cursor'.source = cursor.source
        /\ cursor'.pending = cursor.pending /\ cursor'.fallback = cursor.fallback
        /\ cursor'.queue = cursor.queue /\ cursor'.later = cursor.later
        /\ cursor'.watch = cursor.watch /\ cursor'.busy = cursor.busy /\ cursor'.pass = ps
    BY <1>3, <2>2, Zenon DEF CursorRecords
  <2>4. CursorTypes'
    BY <1>1, <1>4, <1>7, <2>2, <2>3 DEF CursorTypes
  <2>5. CursorStatus'
    BY <1>1, <1>3, <1>8, <1>11, <2>1, <2>2, <2>3 DEF CursorStatus
  <2> QED
    BY <1>4, <1>8, <1>11, <2>2, <2>3, <2>4, <2>5, CursorAloneKeeps
<1> QED
  BY <1>9, <1>10, <1>11

\* detectQuiet and the watch of a submit.
LEMMA CursorEndsKeep ==
  ASSUME CursorIInv, TurnCheck \/ SubmitWatch
  PROVE  CursorIInv'
<1>1. /\ cursor \in CursorRecords /\ program \in Programs /\ over \in Overs /\ sends \in Nat
      /\ CursorBoots /\ CursorTypes /\ CursorStatus
  BY DEF CursorIInv, CursorTypes
<1>2. /\ cursor.status # "idle" /\ sends' = sends /\ over' = over
      /\ ~cursor.pending
  <2>1. CASE TurnCheck
    BY <1>1, <2>1 DEF TurnCheck, Present, CursorBoots
  <2>2. CASE SubmitWatch
    BY <1>1, <2>2 DEF SubmitWatch, Present, CursorBoots
  <2> QED
    BY <2>1, <2>2
<1>3. CASE TurnCheck
  <2>1. PICK x : x = [cursor EXCEPT !.pass = FALSE]
    OBVIOUS
  <2>2. /\ x \in CursorRecords /\ x.status = cursor.status /\ x.source = cursor.source
        /\ x.pending = cursor.pending /\ x.fallback = cursor.fallback /\ x.queue = cursor.queue
        /\ x.later = cursor.later /\ x.watch = cursor.watch /\ x.busy = cursor.busy
        /\ x.quiet = cursor.quiet
    BY <1>1, <2>1, Zenon DEF CursorRecords
  <2>3. CASE x.status = "running" /\ x.busy /\ program.turn = "none"
    <3>1. PICK y : y = [x EXCEPT !.busy = FALSE]
      OBVIOUS
    <3>2. /\ y \in CursorRecords /\ y.status = cursor.status /\ y.pending = cursor.pending
          /\ y.queue = cursor.queue /\ y.later = cursor.later /\ ~y.busy
      BY <2>2, <3>1, Zenon DEF CursorRecords
    <3>3. CursorReady(y, "turn-signal")
      BY <1>3, <2>1, <2>3, <3>1, Zenon DEF TurnCheck
    <3>4. "turn-signal" \in CursorSources
      BY DEF CursorSources
    <3>5. /\ over.submit => over'.submit
          /\ over.turn => over'.turn
          /\ over.boot /\ ~y.pending => over'.boot
          /\ y.pending /\ ~over'.submit => program.up
          /\ ~over'.turn /\ ~over'.submit => program.turn = "none"
          /\ ~over'.boot => ~y.busy
      BY <1>2, <2>3, <3>2
    <3> QED
      BY <1>1, <1>2, <3>2, <3>3, <3>4, <3>5, CursorReadyKeeps, Zenon
  <2>4. CASE ~(x.status = "running" /\ x.busy /\ program.turn = "none")
    <3>1. cursor' = x /\ submits' = submits /\ program' = program
      BY <1>3, <2>1, <2>4, Zenon DEF TurnCheck
    <3>2. CursorTypes'
      BY <1>1, <1>2, <2>2, <3>1 DEF CursorTypes
    <3>3. CursorStatus'
      BY <1>1, <1>2, <2>2, <2>4, <3>1 DEF CursorStatus
    <3> QED
      BY <1>2, <2>2, <3>1, <3>2, <3>3, CursorAloneKeeps
  <2> QED
    BY <2>3, <2>4
<1>4. CASE SubmitWatch
  <2>1. PICK x : x = [cursor EXCEPT !.watch = FALSE]
    OBVIOUS
  <2>2. /\ x \in CursorRecords /\ x.status = cursor.status /\ x.source = cursor.source
        /\ x.pending = cursor.pending /\ x.fallback = cursor.fallback /\ x.queue = cursor.queue
        /\ x.later = cursor.later /\ x.busy = cursor.busy
        /\ x.quiet = cursor.quiet /\ x.pass = cursor.pass
    BY <1>1, <2>1, Zenon DEF CursorRecords
  <2>3. CASE x.status = "running" /\ x.source = "user-input" /\ ~x.busy
    <3>1. CursorReady(x, "quiet-fallback")
      BY <1>4, <2>1, <2>3, Zenon DEF SubmitWatch
    <3>2. "quiet-fallback" \in CursorSources
      BY DEF CursorSources
    <3>3. /\ over.submit => over'.submit
          /\ over.turn => over'.turn
          /\ over.boot /\ ~x.pending => over'.boot
          /\ x.pending /\ ~over'.submit => program.up
          /\ ~over'.boot => ~x.busy
      BY <1>2, <2>2, <2>3
    <3>4. ~over'.turn /\ ~over'.submit => program.turn = "none"
      BY <1>1, <1>2, <2>2, <2>3 DEF CursorStatus
    <3> QED
      BY <1>1, <1>2, <2>2, <3>1, <3>2, <3>3, <3>4, CursorReadyKeeps, Zenon
  <2>4. CASE ~(x.status = "running" /\ x.source = "user-input" /\ ~x.busy)
    <3>1. cursor' = x /\ submits' = submits /\ program' = program
      BY <1>4, <2>1, <2>4, Zenon DEF SubmitWatch
    <3>2. CursorTypes'
      BY <1>1, <1>2, <2>2, <3>1 DEF CursorTypes
    <3>3. CursorStatus'
      BY <1>1, <1>2, <2>2, <2>4, <3>1 DEF CursorStatus
    <3> QED
      BY <1>2, <2>2, <3>1, <3>2, <3>3, CursorAloneKeeps
  <2> QED
    BY <2>3, <2>4
<1> QED
  BY <1>3, <1>4

\* A key that may start a turn, and a start that is late.
LEMMA CursorKeysKeep ==
  ASSUME CursorIInv, SendKeys \/ LateStartLapses
  PROVE  CursorIInv'
<1>1. /\ cursor \in CursorRecords /\ program \in Programs /\ over \in Overs /\ sends \in Nat
      /\ CursorBoots /\ CursorTypes /\ CursorStatus
  BY DEF CursorIInv, CursorTypes
<1>2. CASE SendKeys
  <2>1. PICK x : x = [cursor EXCEPT !.status = "running", !.source = "user-input",
                              !.awaiting = "fresh", !.watch = TRUE]
    OBVIOUS
  <2>2. "user-input" \in CursorSources
    BY DEF CursorSources
  <2>3. /\ x \in CursorRecords /\ x.status = "running" /\ x.source = "user-input"
        /\ x.pending = cursor.pending /\ x.fallback = cursor.fallback /\ x.queue = cursor.queue
        /\ x.later = cursor.later /\ x.busy = cursor.busy /\ x.watch
    BY <1>1, <2>1, <2>2, Zenon DEF CursorRecords
  <2>4. /\ cursor' = x /\ submits' = submits /\ program' = program /\ sends' = sends /\ over' = over
        /\ cursor.status = "waiting" /\ ~cursor.pending
    BY <1>2, <2>1, Zenon DEF SendKeys
  <2>5. CursorTypes'
    BY <1>1, <2>3, <2>4 DEF CursorTypes
  <2>6. CursorStatus'
    BY <1>1, <2>3, <2>4 DEF CursorStatus
  <2> QED
    BY <2>3, <2>4, <2>5, <2>6, CursorAloneKeeps
<1>3. CASE LateStartLapses
  <2>1. PICK x : x = [cursor EXCEPT !.awaiting = "late"]
    OBVIOUS
  <2>2. /\ x \in CursorRecords /\ x.status = cursor.status /\ x.source = cursor.source
        /\ x.pending = cursor.pending /\ x.fallback = cursor.fallback /\ x.queue = cursor.queue
        /\ x.later = cursor.later /\ x.busy = cursor.busy /\ x.watch = cursor.watch
        /\ x.quiet = cursor.quiet /\ x.pass = cursor.pass
    BY <1>1, <2>1, Zenon DEF CursorRecords
  <2>3. /\ cursor' = x /\ submits' = submits /\ program' = program /\ sends' = sends /\ over' = over
    BY <1>3, <2>1, Zenon DEF LateStartLapses
  <2>4. CursorTypes'
    BY <1>1, <2>2, <2>3 DEF CursorTypes
  <2>5. CursorStatus'
    BY <1>1, <2>2, <2>3 DEF CursorStatus
  <2>6. cursor.pending => /\ cursor'.status = "running" /\ cursor'.source = "spawn"
                          /\ ~cursor'.watch /\ ~cursor'.pass
    BY <1>1, <2>2, <2>3 DEF CursorBoots
  <2> QED
    BY <2>2, <2>3, <2>4, <2>5, <2>6, CursorAloneKeeps
<1> QED
  BY <1>2, <1>3

\* The session leaves the runner, with its process or before it, and is started again.
LEMMA CursorComesAndGoes ==
  ASSUME CursorIInv, CursorHold \/ CursorExits \/ CursorStart
  PROVE  CursorIInv'
<1>1. /\ cursor \in CursorRecords /\ program \in Programs /\ over \in Overs /\ sends \in Nat
      /\ CursorBoots /\ TextsInOrder /\ submits \subseteq SubmitRecords
  BY DEF CursorIInv, CursorTypes
<1>2. <<>> \in Seq(Nat) /\ <<>> \in Seq(Seq(Nat)) /\ 0 \in Nat
  OBVIOUS
<1>3. /\ NoCursor \in CursorRecords /\ NoCursor.status = "idle" /\ ~NoCursor.pending
      /\ NoCursor.queue = <<>> /\ NoCursor.later = <<>>
  <2>1. NoCursor \in CursorRecords
    BY <1>2, Zenon DEF NoCursor, CursorRecords, CursorSources
  <2> QED
    BY <2>1 DEF NoCursor
<1>4. /\ NoProgram \in Programs /\ NoProgram.compose = <<>> /\ NoProgram.submitted = <<>>
      /\ NoProgram.turn = "none"
  <2>1. NoProgram \in Programs
    BY <1>2, Zenon DEF NoProgram, Programs
  <2> QED
    BY <2>1 DEF NoProgram
<1>5. CASE CursorHold \/ CursorExits
  <2>1. /\ cursor' = NoCursor /\ submits' = {} /\ program' \in {program, NoProgram}
        /\ sends' = sends /\ over' = over
    BY <1>5 DEF CursorHold, CursorExits
  <2>2. CursorTypes' /\ CursorBoots' /\ CursorStatus'
    BY <1>1, <1>3, <1>4, <2>1 DEF CursorTypes, CursorBoots, CursorStatus
  <2>3. TextsInOrder'
    <3> SUFFICES ASSUME ~over.submit
                 PROVE  /\ OneOnItsWay' /\ ComposeIsUp'
                        /\ SubmittedInOrder' /\ OnTheirWayInOrder' /\ LaterInOrder' /\ QueueInOrder'
      BY <2>1 DEF TextsInOrder
    <3>1. ComposeIsUp /\ SubmittedInOrder
      BY <1>1 DEF TextsInOrder
    <3>2. OneOnItsWay' /\ OnTheirWayInOrder'
      BY <2>1 DEF OneOnItsWay, OnTheirWayInOrder
    <3>3. ComposeIsUp'
      BY <1>3, <1>4, <2>1, <3>1 DEF ComposeIsUp
    <3>4. DOMAIN cursor'.later = {} /\ DOMAIN cursor'.queue = {}
      BY <1>3, <2>1
    <3>5. LaterInOrder' /\ QueueInOrder'
      BY <3>4, Zenon DEF LaterInOrder, QueueInOrder
    <3>6. SubmittedInOrder'
      <4>1. CASE program' = program
        BY <2>1, <3>1, <3>4, <4>1, Zenon DEF SubmittedInOrder
      <4>2. CASE program' = NoProgram
        <5>1. DOMAIN program'.submitted = {}
          BY <1>4, <4>2
        <5> QED
          BY <5>1, Zenon DEF SubmittedInOrder
      <4> QED
        BY <2>1, <4>1, <4>2
    <3> QED
      BY <3>2, <3>3, <3>5, <3>6
  <2> QED
    BY <2>2, <2>3 DEF CursorIInv
<1>6. CASE CursorStart
  <2>1. /\ cursor' = NewCursor /\ program' = [NoProgram EXCEPT !.runs = TRUE]
        /\ over' = NothingOver /\ submits' = submits /\ sends' = sends /\ cursor.status = "idle"
    BY <1>6, Zenon DEF CursorStart, Present
  <2>2. submits' = {}
    BY <1>1, <2>1 DEF CursorBoots
  <2>3. /\ cursor' \in CursorRecords /\ cursor'.status = "running" /\ cursor'.source = "spawn"
        /\ cursor'.pending /\ cursor'.fallback
    <3>1. "spawn" \in CursorSources
      BY DEF CursorSources
    <3> QED
      BY <1>3, <2>1, <3>1, Zenon DEF NewCursor, CursorRecords
  <2>4. /\ cursor'.queue = <<>> /\ cursor'.later = <<>> /\ ~cursor'.watch /\ ~cursor'.pass
    BY <1>3, <2>1, Zenon DEF NewCursor, NoCursor, CursorRecords
  <2>5. /\ program' \in Programs /\ program'.compose = <<>> /\ program'.submitted = <<>>
        /\ program'.turn = "none"
    BY <1>4, <2>1, Zenon DEF Programs
  <2>6. over' \in Overs
    BY <2>1, Zenon DEF NothingOver, Overs
  <2>7. CursorTypes' /\ CursorBoots' /\ CursorStatus'
    BY <1>1, <2>1, <2>2, <2>3, <2>4, <2>5, <2>6 DEF CursorTypes, CursorBoots, CursorStatus
  <2>8. TextsInOrder'
    <3>1. OneOnItsWay' /\ OnTheirWayInOrder' /\ ComposeIsUp'
      BY <2>2, <2>3, <2>5 DEF OneOnItsWay, OnTheirWayInOrder, ComposeIsUp
    <3>2. DOMAIN cursor'.later = {} /\ DOMAIN cursor'.queue = {} /\ DOMAIN program'.submitted = {}
      BY <2>4, <2>5
    <3>3. LaterInOrder' /\ QueueInOrder' /\ SubmittedInOrder'
      BY <3>2, Zenon DEF LaterInOrder, QueueInOrder, SubmittedInOrder
    <3> QED
      BY <3>1, <3>3 DEF TextsInOrder
  <2> QED
    BY <2>7, <2>8 DEF CursorIInv
<1> QED
  BY <1>5, <1>6

-----------------------------------------------------------------------------
\* A text is written after the boot, over nothing that is noted as over'.
LEMMA TextWritten ==
  ASSUME CursorIInv, NEW x \in CursorRecords, NEW textSent \in Nat, NEW flushed \in BOOLEAN,
         cursor' = BegunSubmit(x), Writes(textSent, flushed),
         cursor.status # "idle", ~cursor.pending, over' \in Overs,
         x.status = cursor.status, x.source = cursor.source, x.pending = cursor.pending,
         x.queue = cursor.queue, sends' \in Nat, sends' = sends \/ sends' = sends + 1,
         over.submit => over'.submit,
         ~over'.turn => program.turn = "none",
         ~over'.submit =>
           /\ submits = {} /\ textSent <= sends'
           /\ \A i \in DOMAIN program.submitted : program.submitted[i][1] < textSent
           /\ \A k \in DOMAIN x.later : textSent < x.later[k]
           /\ \A k \in DOMAIN x.later :
                x.later[k] <= sends' /\ \A m \in DOMAIN x.later : k < m => x.later[k] < x.later[m]
  PROVE  CursorIInv'
<1>1. CursorTypes /\ CursorBoots /\ TextsInOrder /\ CursorStatus
  BY DEF CursorIInv
<1>2. /\ cursor' \in CursorRecords /\ cursor'.status = "running" /\ ~cursor'.busy
      /\ cursor'.source = IF cursor.status = "waiting" THEN "user-input" ELSE cursor.source
      /\ ~cursor'.pending /\ cursor'.queue = cursor.queue /\ cursor'.later = x.later
  BY BegunFields
<1>3. /\ program' \in Programs /\ program'.compose = <<>> /\ program'.up = program.up
      /\ program'.turn = program.turn /\ program'.submitted = program.submitted
      /\ submits' \subseteq SubmitRecords
  BY <1>1, WritesFields
<1>4. PICK s \in SubmitRecords : s.text = textSent /\ s.step = "cleared" /\ submits' = submits \cup {s}
  BY <1>1, WritesFields
<1>5. CursorTypes'
  BY <1>2, <1>3 DEF CursorTypes
<1>6. cursor'.queue = <<>>
  BY <1>1, <1>2 DEF CursorBoots
<1>7. CursorBoots'
  BY <1>2, <1>6 DEF CursorBoots
<1>8. TextsInOrder'
  <2>1. ~over'.submit => program.up
    BY <1>1 DEF TextsInOrder, ComposeIsUp
  <2>2. ~over'.submit => LaterInOrder'
    BY <1>2, Zenon DEF LaterInOrder
  <2>3. ~over'.submit =>
          /\ submits = {} /\ program.up /\ s.text <= sends'
          /\ \A i \in DOMAIN program.submitted : program.submitted[i][1] < s.text
          /\ \A k \in DOMAIN cursor'.later : s.text < cursor'.later[k]
          /\ LaterInOrder'
    BY <1>2, <1>4, <2>1, <2>2, Zenon
  <2> QED
    BY <1>1, <1>3, <1>4, <1>5, <1>6, <2>3, WriteKeepsOrder
<1>9. CursorStatus'
  <2>1. cursor'.source \in {"user-input", "turn-signal"}
    <3>1. cursor.status \in {"running", "waiting"}
      BY <1>1 DEF CursorTypes, CursorRecords
    <3> QED
      BY <1>1, <1>2, <3>1 DEF CursorStatus
  <2>2. submits' # {}
    BY <1>4
  <2> QED
    BY <1>2, <1>3, <2>1, <2>2 DEF CursorStatus
<1> QED
  BY <1>5, <1>7, <1>8, <1>9 DEF CursorIInv

LEMMA TextQueued ==
  ASSUME NEW s \in Seq(Nat), NEW n \in Nat
  PROVE  /\ Append(s, n) \in Seq(Nat)
         /\ \A k \in DOMAIN Append(s, n) :
              k \in Nat /\ \/ k \in DOMAIN s /\ Append(s, n)[k] = s[k]
                           \/ k = Len(s) + 1 /\ Append(s, n)[k] = n
  OBVIOUS

\* sendInput
LEMMA SendInputKeeps ==
  ASSUME CursorIInv, SendInput
  PROVE  CursorIInv'
<1>1. /\ cursor \in CursorRecords /\ program \in Programs /\ over \in Overs /\ sends \in Nat
      /\ CursorTypes /\ CursorBoots /\ TextsInOrder /\ CursorStatus
  BY DEF CursorIInv, CursorTypes
<1>2. cursor.status # "idle" /\ sends' = sends + 1 /\ sends' \in Nat
  BY <1>1 DEF SendInput, Present
<1>3. CASE cursor.pending
  <2>1. cursor' = [cursor EXCEPT !.queue = Append(cursor.queue, sends + 1)]
    BY <1>1, <1>3, Zenon DEF SendInput, CursorRecords
  <2>2. submits' = submits /\ program' = program /\ over' = over
    BY <1>3 DEF SendInput
  <2>3. PICK q \in Seq(Nat) : q = Append(cursor.queue, sends + 1)
    <3>1. cursor.queue \in Seq(Nat) /\ sends + 1 \in Nat
      BY <1>1 DEF CursorRecords
    <3> QED
      BY <3>1, TextQueued
  <2>4. /\ cursor' \in CursorRecords /\ cursor'.status = cursor.status
        /\ cursor'.source = cursor.source /\ cursor'.pending = cursor.pending
        /\ cursor'.fallback = cursor.fallback /\ cursor'.later = cursor.later
        /\ cursor'.watch = cursor.watch /\ cursor'.busy = cursor.busy
        /\ cursor'.pass = cursor.pass /\ cursor'.quiet = cursor.quiet /\ cursor'.queue = q
    BY <1>1, <2>1, <2>3, Zenon DEF CursorRecords
  <2>5. CursorTypes'
    BY <1>1, <1>2, <2>2, <2>4 DEF CursorTypes
  <2>6. CursorBoots'
    BY <1>1, <1>3, <2>2, <2>4 DEF CursorBoots
  <2>7. CursorStatus'
    BY <1>1, <2>2, <2>4 DEF CursorStatus
  <2>8. TextsInOrder'
    <3> SUFFICES ASSUME ~over.submit
                 PROVE  /\ OneOnItsWay' /\ ComposeIsUp'
                        /\ SubmittedInOrder' /\ OnTheirWayInOrder' /\ LaterInOrder' /\ QueueInOrder'
      BY <2>2 DEF TextsInOrder
    <3>1. OneOnItsWay /\ ComposeIsUp /\ QueueInOrder
      BY <1>1 DEF TextsInOrder
    <3>2. submits' = {} /\ cursor'.later = <<>> /\ program'.submitted = <<>>
      BY <1>1, <1>3, <2>2, <2>4 DEF CursorBoots
    <3>3. DOMAIN cursor'.later = {} /\ DOMAIN program'.submitted = {}
      BY <3>2
    <3>4. OneOnItsWay' /\ OnTheirWayInOrder'
      BY <3>2 DEF OneOnItsWay, OnTheirWayInOrder
    <3>5. SubmittedInOrder' /\ LaterInOrder'
      BY <3>3, Zenon DEF SubmittedInOrder, LaterInOrder
    <3>6. ComposeIsUp'
      BY <2>2, <2>4, <3>1 DEF ComposeIsUp
    <3>7. QueueInOrder'
      <4>1. cursor.queue \in Seq(Nat)
        BY <1>1 DEF CursorRecords
      <4>2. \A k \in DOMAIN cursor.queue : cursor.queue[k] \in Nat
        BY <4>1
      <4>3. \A k \in DOMAIN q :
              k \in Nat /\ \/ k \in DOMAIN cursor.queue /\ q[k] = cursor.queue[k]
                           \/ k = Len(cursor.queue) + 1 /\ q[k] = sends + 1
        <5>1. sends + 1 \in Nat
          BY <1>1
        <5>2. \A k \in DOMAIN Append(cursor.queue, sends + 1) :
                k \in Nat /\ \/ /\ k \in DOMAIN cursor.queue
                                /\ Append(cursor.queue, sends + 1)[k] = cursor.queue[k]
                             \/ /\ k = Len(cursor.queue) + 1
                                /\ Append(cursor.queue, sends + 1)[k] = sends + 1
          BY <4>1, <5>1, TextQueued
        <5> QED
          BY <2>3, <5>2, Zenon
      <4>4. \A k \in DOMAIN cursor.queue : k <= Len(cursor.queue) /\ k \in Nat
        BY <4>1
      <4>5. PICK L \in Nat : L = Len(cursor.queue)
        BY <4>1
      <4>6. ASSUME NEW k \in DOMAIN q
            PROVE  q[k] <= sends + 1 /\ \A m \in DOMAIN q : k < m => q[k] < q[m]
        <5>1. CASE k \in DOMAIN cursor.queue /\ q[k] = cursor.queue[k]
          <6>1. q[k] \in Nat /\ q[k] <= sends
            BY <3>1, <4>2, <5>1 DEF QueueInOrder
          <6>2. ASSUME NEW m \in DOMAIN q, k < m PROVE q[k] < q[m]
            <7>1. CASE m \in DOMAIN cursor.queue /\ q[m] = cursor.queue[m]
              BY <3>1, <5>1, <6>2, <7>1, Zenon DEF QueueInOrder
            <7>2. CASE q[m] = sends + 1
              BY <1>1, <6>1, <7>2
            <7> QED
              BY <4>3, <7>1, <7>2
          <6> QED
            BY <1>1, <6>1, <6>2
        <5>2. CASE k = L + 1 /\ q[k] = sends + 1
          <6>1. ASSUME NEW m \in DOMAIN q, k < m PROVE FALSE
            <7>1. m <= L \/ m = L + 1
              BY <4>3, <4>4, <4>5
            <7>2. m \in Nat
              BY <4>3
            <7> QED
              BY <4>5, <5>2, <6>1, <7>1, <7>2
          <6> QED
            BY <1>1, <5>2, <6>1
        <5> QED
          BY <4>3, <4>5, <5>1, <5>2
      <4> QED
        BY <1>2, <2>4, <4>6 DEF QueueInOrder
    <3> QED
      BY <3>4, <3>5, <3>6, <3>7
  <2> QED
    BY <2>5, <2>6, <2>7, <2>8 DEF CursorIInv
<1>4. CASE ~cursor.pending
  <2>1. cursor' = BegunSubmit(cursor) /\ Writes(sends + 1, FALSE)
    BY <1>4 DEF SendInput
  <2>2. over' = [over EXCEPT !.submit = @ \/ submits # {} \/ cursor.later # <<>>,
                             !.turn = @ \/ program.turn # "none"]
    BY <1>4 DEF SendInput
  <2>3. PICK sb \in BOOLEAN, tb \in BOOLEAN :
          /\ sb = (over.submit \/ submits # {} \/ cursor.later # <<>>)
          /\ tb = (over.turn \/ program.turn # "none")
    BY Zenon
  <2>4. over' = [over EXCEPT !.submit = sb, !.turn = tb]
    <3>1. over' = [over EXCEPT !.submit = (over.submit \/ submits # {} \/ cursor.later # <<>>),
                               !.turn = (over.turn \/ program.turn # "none")]
      BY <1>1, <2>2, Zenon DEF Overs
    <3> QED
      BY <2>3, <3>1, Zenon
  <2>5. over' \in Overs /\ over'.submit = sb /\ over'.turn = tb
    BY <1>1, <2>4, Zenon DEF Overs
  <2>6. /\ over.submit => over'.submit
        /\ ~over'.turn => program.turn = "none"
        /\ ~over'.submit => submits = {} /\ cursor.later = <<>> /\ ~over.submit
    BY <2>3, <2>5, Zenon
  <2>7. ~over'.submit =>
          /\ submits = {} /\ sends + 1 <= sends'
          /\ \A i \in DOMAIN program.submitted : program.submitted[i][1] < sends + 1
          /\ \A k \in DOMAIN cursor.later : sends + 1 < cursor.later[k]
          /\ \A k \in DOMAIN cursor.later :
               cursor.later[k] <= sends'
               /\ \A m \in DOMAIN cursor.later : k < m => cursor.later[k] < cursor.later[m]
    <3> SUFFICES ASSUME ~over'.submit
                 PROVE  /\ submits = {} /\ sends + 1 <= sends' /\ DOMAIN cursor.later = {}
                        /\ \A i \in DOMAIN program.submitted : program.submitted[i][1] < sends + 1
      OBVIOUS
    <3>1. SubmittedInOrder /\ submits = {} /\ cursor.later = <<>>
      BY <1>1, <2>6 DEF TextsInOrder
    <3>2. ASSUME NEW i \in DOMAIN program.submitted PROVE program.submitted[i][1] < sends + 1
      <4>1. program.submitted[i] \in Seq(Nat) /\ Len(program.submitted[i]) = 1
        BY <1>1, <3>1 DEF Programs, SubmittedInOrder
      <4>2. program.submitted[i][1] \in Nat /\ program.submitted[i][1] <= sends
        BY <3>1, <4>1 DEF SubmittedInOrder
      <4> QED
        BY <1>1, <4>2
    <3> QED
      BY <1>1, <1>2, <3>1, <3>2
  <2>8. sends + 1 \in Nat /\ FALSE \in BOOLEAN
    BY <1>1
  <2> QED
    BY <1>1, <1>2, <1>4, <2>1, <2>5, <2>6, <2>7, <2>8, TextWritten
<1> QED
  BY <1>3, <1>4

\* flushQueuedInputs: the next text.
LEMMA FireNextKeeps ==
  ASSUME CursorIInv, FireNext
  PROVE  CursorIInv'
<1>1. /\ cursor \in CursorRecords /\ program \in Programs /\ over \in Overs /\ sends \in Nat
      /\ CursorTypes /\ CursorBoots /\ TextsInOrder /\ cursor.later \in Seq(Nat)
  BY DEF CursorIInv, CursorTypes, CursorRecords
<1>2. cursor.status # "idle" /\ cursor.later # <<>> /\ sends' = sends /\ ~cursor.pending
  BY <1>1 DEF FireNext, Present, CursorBoots
<1>3. PICK l \in Seq(Nat), h \in Nat : l = Tail(cursor.later) /\ h = Head(cursor.later)
  BY <1>1, <1>2, TailOfTexts
<1>4. PICK x : x = [cursor EXCEPT !.later = l]
  OBVIOUS
<1>5. /\ x \in CursorRecords /\ x.status = cursor.status /\ x.source = cursor.source
      /\ x.pending = cursor.pending /\ x.queue = cursor.queue /\ x.later = l
  BY <1>1, <1>4, Zenon DEF CursorRecords
<1>6. cursor' = BegunSubmit(x) /\ Writes(h, TRUE)
  <2>1. [cursor EXCEPT !.later = Tail(@)] = [cursor EXCEPT !.later = Tail(cursor.later)]
    BY <1>1, Zenon DEF CursorRecords
  <2> QED
    BY <1>3, <1>4, <2>1, Zenon DEF FireNext
<1>7. over' = [over EXCEPT !.submit = @ \/ submits # {}, !.turn = @ \/ program.turn # "none"]
  BY DEF FireNext
<1>8. PICK sb \in BOOLEAN, tb \in BOOLEAN :
        sb = (over.submit \/ submits # {}) /\ tb = (over.turn \/ program.turn # "none")
  BY Zenon
<1>9. over' = [over EXCEPT !.submit = sb, !.turn = tb]
  <2>1. over' = [over EXCEPT !.submit = (over.submit \/ submits # {}),
                             !.turn = (over.turn \/ program.turn # "none")]
    BY <1>1, <1>7, Zenon DEF Overs
  <2> QED
    BY <1>8, <2>1, Zenon
<1>10. over' \in Overs /\ over'.submit = sb /\ over'.turn = tb
  BY <1>1, <1>9, Zenon DEF Overs
<1>11. /\ over.submit => over'.submit
       /\ ~over'.turn => program.turn = "none"
       /\ ~over'.submit => submits = {} /\ ~over.submit
  BY <1>8, <1>10, Zenon
<1>12. ~over'.submit =>
         /\ submits = {} /\ h <= sends'
         /\ \A i \in DOMAIN program.submitted : program.submitted[i][1] < h
         /\ \A k \in DOMAIN x.later : h < x.later[k]
         /\ \A k \in DOMAIN x.later :
              x.later[k] <= sends' /\ \A m \in DOMAIN x.later : k < m => x.later[k] < x.later[m]
  <2> SUFFICES ASSUME ~over'.submit
               PROVE  /\ h <= sends
                      /\ \A i \in DOMAIN program.submitted : program.submitted[i][1] < h
                      /\ \A k \in DOMAIN l : h < l[k]
                      /\ \A k \in DOMAIN l :
                           l[k] <= sends /\ \A m \in DOMAIN l : k < m => l[k] < l[m]
    BY <1>2, <1>5, <1>11, Zenon
  <2>1. SubmittedInOrder /\ LaterInOrder
    BY <1>1, <1>11 DEF TextsInOrder
  <2>2. \A k \in DOMAIN cursor.later :
          cursor.later[k] <= sends
          /\ \A m \in DOMAIN cursor.later : k < m => cursor.later[k] < cursor.later[m]
    BY <2>1, Zenon DEF LaterInOrder
  <2>3. /\ \A k \in DOMAIN l : l[k] <= sends /\ \A m \in DOMAIN l : k < m => l[k] < l[m]
        /\ \A k \in DOMAIN l : h < l[k]
        /\ h <= sends
    BY <1>1, <1>2, <1>3, <2>2, RestInOrder
  <2>4. h = cursor.later[1] /\ 1 \in DOMAIN cursor.later
    BY <1>1, <1>2, <1>3, TailOfTexts
  <2>5. \A i \in DOMAIN program.submitted : program.submitted[i][1] < h
    BY <2>1, <2>4, Zenon DEF SubmittedInOrder
  <2> QED
    BY <2>3, <2>5
<1> QED
  BY <1>1, <1>2, <1>5, <1>6, <1>10, <1>11, <1>12, TextWritten

\* A text on its way is echoed or typed.
LEMMA OnItsWayKeeps ==
  ASSUME CursorIInv, NEW s \in submits, Echo(s) \/ Type(s)
  PROVE  CursorIInv'
<1>1. /\ cursor \in CursorRecords /\ program \in Programs /\ over \in Overs /\ sends \in Nat
      /\ CursorTypes /\ CursorBoots /\ TextsInOrder /\ CursorStatus
      /\ submits \subseteq SubmitRecords /\ s \in SubmitRecords
  BY DEF CursorIInv, CursorTypes
<1>2. cursor.status # "idle" /\ ~cursor.pending /\ cursor.queue = <<>>
  <2>1. submits # {}
    OBVIOUS
  <2> QED
    BY <1>1, <2>1 DEF CursorBoots
<1>3. sends' = sends /\ over' = over
  BY DEF Echo, Type
<1>4. /\ cursor' \in CursorRecords /\ cursor'.status = cursor.status
      /\ cursor'.source = cursor.source /\ cursor'.pending = cursor.pending
      /\ cursor'.queue = cursor.queue /\ cursor'.later = cursor.later
      /\ cursor'.watch = cursor.watch /\ cursor'.busy = cursor.busy
      /\ cursor'.pass = cursor.pass
      /\ cursor.quiet => cursor'.quiet
  <2>1. CASE Echo(s)
    <3>1. cursor' = Painted(cursor)
      BY <2>1 DEF Echo
    <3> QED
      BY <1>1, <3>1, PaintedFields
  <2>2. CASE Type(s)
    BY <1>1, <2>2 DEF Type
  <2> QED
    BY <2>1, <2>2
<1>5. PICK r \in SubmitRecords :
        /\ submits' = (submits \ {s}) \cup {r} /\ r.text = s.text
        /\ \/ r.step = s.step /\ program' = program
           \/ /\ s.step = "cleared" /\ r.step = "typed"
              /\ program' = [program EXCEPT !.compose = Append(program.compose, s.text)]
  <2>1. CASE Echo(s)
    <3>1. PICK r : r = [s EXCEPT !.echoed = TRUE]
      OBVIOUS
    <3>2. r \in SubmitRecords /\ r.text = s.text /\ r.step = s.step
      BY <1>1, <3>1, Zenon DEF SubmitRecords
    <3>3. submits' = (submits \ {s}) \cup {r} /\ program' = program
      BY <2>1, <3>1, Zenon DEF Echo
    <3> QED
      BY <3>2, <3>3, Zenon
  <2>2. CASE Type(s)
    <3>1. PICK r : r = [s EXCEPT !.step = "typed"]
      OBVIOUS
    <3>2. r \in SubmitRecords /\ r.text = s.text /\ r.step = "typed"
      BY <1>1, <3>1, Zenon DEF SubmitRecords
    <3>3. submits' = (submits \ {s}) \cup {r} /\ s.step = "cleared"
      BY <2>2, <3>1, Zenon DEF Type
    <3>4. program' = [program EXCEPT !.compose = Append(program.compose, s.text)]
      BY <1>1, <2>2, Zenon DEF Type, Programs
    <3> QED
      BY <3>2, <3>3, <3>4, Zenon
  <2> QED
    BY <2>1, <2>2
<1>6. /\ program' \in Programs /\ program'.up = program.up
      /\ program'.turn = program.turn /\ program'.submitted = program.submitted
      /\ \/ r.step = s.step /\ program'.compose = program.compose
         \/ /\ s.step = "cleared" /\ r.step = "typed"
            /\ program'.compose = Append(program.compose, s.text)
  <2>1. PICK c \in Seq(Nat) : c = Append(program.compose, s.text)
    <3>1. program.compose \in Seq(Nat) /\ s.text \in Nat
      BY <1>1, Zenon DEF Programs, SubmitRecords
    <3> QED
      BY <3>1, TextQueued
  <2>2. CASE program' = [program EXCEPT !.compose = c] /\ s.step = "cleared" /\ r.step = "typed"
    <3>1. /\ program' \in Programs /\ program'.up = program.up /\ program'.compose = c
          /\ program'.turn = program.turn /\ program'.submitted = program.submitted
      BY <1>1, <2>2, Zenon DEF Programs
    <3> QED
      BY <2>1, <2>2, <3>1, Zenon
  <2> QED
    BY <1>1, <1>5, <2>1, <2>2, Zenon
<1>7. CursorTypes'
  BY <1>1, <1>3, <1>4, <1>5, <1>6 DEF CursorTypes
<1>8. CursorBoots'
  BY <1>2, <1>4 DEF CursorBoots
<1>9. CursorStatus'
  <2>1. submits' # {}
    BY <1>5
  <2> QED
    BY <1>1, <1>2, <1>3, <1>4, <1>6, <2>1 DEF CursorStatus
<1>10. TextsInOrder'
  <2> SUFFICES ASSUME ~over.submit
               PROVE  /\ OneOnItsWay' /\ ComposeIsUp'
                      /\ SubmittedInOrder' /\ OnTheirWayInOrder' /\ LaterInOrder' /\ QueueInOrder'
    BY <1>3 DEF TextsInOrder
  <2>1. /\ OneOnItsWay /\ ComposeIsUp /\ SubmittedInOrder /\ OnTheirWayInOrder
        /\ LaterInOrder /\ QueueInOrder
    BY <1>1 DEF TextsInOrder
  <2>2. submits' = {r}
    BY <1>5, <2>1 DEF OneOnItsWay
  <2>3. program'.compose = IF r.step = "cleared" THEN <<>> ELSE <<r.text>>
    <3>1. program.compose = IF s.step = "cleared" THEN <<>> ELSE <<s.text>>
      BY <2>1 DEF OneOnItsWay
    <3>2. Append(<<>>, s.text) = <<s.text>>
      OBVIOUS
    <3> QED
      BY <1>5, <1>6, <3>1, <3>2
  <2>4. OneOnItsWay'
    BY <2>2, <2>3 DEF OneOnItsWay
  <2>5. ComposeIsUp'
    BY <1>2, <1>4, <1>6, <2>1 DEF ComposeIsUp
  <2>6. SubmittedInOrder'
    BY <1>3, <1>4, <1>5, <1>6, <2>1, <2>2, Zenon DEF SubmittedInOrder
  <2>7. OnTheirWayInOrder'
    BY <1>3, <1>4, <1>5, <2>1, <2>2 DEF OnTheirWayInOrder
  <2>8. LaterInOrder' /\ QueueInOrder'
    BY <1>3, <1>4, <2>1, Zenon DEF LaterInOrder, QueueInOrder
  <2> QED
    BY <2>4, <2>5, <2>6, <2>7, <2>8
<1> QED
  BY <1>7, <1>8, <1>9, <1>10 DEF CursorIInv

LEMMA SubmittedMore ==
  ASSUME NEW s \in Seq(Seq(Nat)), NEW t \in Seq(Nat)
  PROVE  \E u \in Seq(Seq(Nat)) :
           /\ u = Append(s, t)
           /\ \A i \in DOMAIN u :
                \/ i \in DOMAIN s /\ u[i] = s[i]
                \/ /\ u[i] = t
                   /\ i > 1 => i - 1 \in DOMAIN s /\ u[i - 1] = s[i - 1]
           /\ \A i \in DOMAIN s : i > 1 => i - 1 \in DOMAIN s /\ u[i - 1] = s[i - 1]
<1>1. PICK S : S = Seq(Nat)
  OBVIOUS
<1>2. s \in Seq(S) /\ t \in S
  BY <1>1
<1>3. PICK n \in Nat : n = Len(s)
  BY <1>2
<1>4. PICK u \in Seq(S) : u = Append(s, t)
  <2>1. Append(s, t) \in Seq(S)
    BY <1>2
  <2> QED
    BY <2>1, Zenon
<1>5. DOMAIN s = 1..n /\ DOMAIN u = 1..(n + 1)
  <2>1. Len(u) = n + 1 /\ Len(s) = n
    BY <1>2, <1>3, <1>4
  <2>2. DOMAIN s = 1..Len(s) /\ DOMAIN u = 1..Len(u)
    BY <1>2, <1>4
  <2> QED
    BY <2>1, <2>2, Zenon
<1>6. u[n + 1] = t
  BY <1>2, <1>3, <1>4
<1>7. \A i \in 1..n : u[i] = s[i]
  BY <1>2, <1>3, <1>4
<1>8. \A i \in 1..(n + 1) : \/ i \in 1..n
                            \/ i = n + 1 /\ (i > 1 => i - 1 \in 1..n)
  OBVIOUS
<1>9. \A i \in 1..n : i > 1 => i - 1 \in 1..n
  OBVIOUS
<1>10. \A i \in DOMAIN u :
         \/ i \in DOMAIN s /\ u[i] = s[i]
         \/ /\ u[i] = t
            /\ i > 1 => i - 1 \in DOMAIN s /\ u[i - 1] = s[i - 1]
  BY <1>5, <1>6, <1>7, <1>8, Zenon
<1>11. \A i \in DOMAIN s : i > 1 => i - 1 \in DOMAIN s /\ u[i - 1] = s[i - 1]
  BY <1>5, <1>7, <1>9, Zenon
<1> QED
  BY <1>1, <1>4, <1>10, <1>11, Zenon

\* trySubmit
LEMMA SubmitEntered ==
  ASSUME CursorIInv, NEW s \in submits, Submit(s)
  PROVE  CursorIInv'
<1>1. /\ cursor \in CursorRecords /\ program \in Programs /\ over \in Overs /\ sends \in Nat
      /\ CursorTypes /\ CursorBoots /\ TextsInOrder /\ CursorStatus
      /\ submits \subseteq SubmitRecords /\ s \in SubmitRecords
      /\ program.submitted \in Seq(Seq(Nat)) /\ program.compose \in Seq(Nat)
  BY DEF CursorIInv, CursorTypes, Programs
<1>2. cursor.status # "idle" /\ ~cursor.pending /\ cursor.queue = <<>>
  <2>1. submits # {}
    OBVIOUS
  <2> QED
    BY <1>1, <2>1 DEF CursorBoots
<1>3. sends' = sends /\ over' = over /\ s.step = "typed" /\ submits' = submits \ {s}
  BY DEF Submit
<1>4. /\ cursor' \in CursorRecords /\ cursor'.status = cursor.status
      /\ cursor'.source = cursor.source /\ cursor'.pending = cursor.pending
      /\ cursor'.queue = cursor.queue /\ cursor'.later = cursor.later
      /\ cursor'.watch /\ cursor'.busy = cursor.busy
      /\ cursor'.pass = cursor.pass /\ cursor'.quiet = cursor.quiet
  <2>1. cursor' = [cursor EXCEPT !.awaiting = "fresh", !.watch = TRUE]
    BY DEF Submit
  <2> QED
    BY <1>1, <2>1, Zenon DEF CursorRecords
<1>5. PICK c \in Seq(Nat) : c = IF s.echoed THEN <<>> ELSE program.compose
  <2>1. <<>> \in Seq(Nat)
    OBVIOUS
  <2> QED
    BY <1>1, <2>1, Zenon
<1>6. PICK all \in Seq(Seq(Nat)) :
        /\ all = Append(program.submitted, program.compose)
        /\ \A i \in DOMAIN all :
             \/ i \in DOMAIN program.submitted /\ all[i] = program.submitted[i]
             \/ /\ all[i] = program.compose
                /\ i > 1 => i - 1 \in DOMAIN program.submitted /\ all[i - 1] = program.submitted[i - 1]
        /\ \A i \in DOMAIN program.submitted :
             i > 1 => i - 1 \in DOMAIN program.submitted /\ all[i - 1] = program.submitted[i - 1]
  BY <1>1, SubmittedMore
<1>7. program' = [program EXCEPT !.submitted = all, !.compose = c]
  <2>1. program' = [program EXCEPT !.submitted = Append(program.submitted, program.compose),
                                   !.compose = IF s.echoed THEN <<>> ELSE program.compose]
    BY <1>1, Zenon DEF Submit, Programs
  <2> QED
    BY <1>5, <1>6, <2>1, Zenon
<1>8. /\ program' \in Programs /\ program'.up = program.up /\ program'.turn = program.turn
      /\ program'.submitted = all /\ program'.compose = c
  BY <1>1, <1>7, Zenon DEF Programs
<1>9. CursorTypes'
  BY <1>1, <1>3, <1>4, <1>8 DEF CursorTypes
<1>10. CursorBoots'
  BY <1>2, <1>4 DEF CursorBoots
<1>11. CursorStatus'
  BY <1>1, <1>2, <1>3, <1>4, <1>8 DEF CursorStatus
<1>12. TextsInOrder'
  <2> SUFFICES ASSUME ~over.submit
               PROVE  /\ OneOnItsWay' /\ ComposeIsUp'
                      /\ SubmittedInOrder' /\ OnTheirWayInOrder' /\ LaterInOrder' /\ QueueInOrder'
    BY <1>3 DEF TextsInOrder
  <2>1. /\ OneOnItsWay /\ ComposeIsUp /\ SubmittedInOrder /\ OnTheirWayInOrder
        /\ LaterInOrder /\ QueueInOrder
    BY <1>1 DEF TextsInOrder
  <2>2. submits' = {}
    BY <1>3, <2>1 DEF OneOnItsWay
  <2>3. OneOnItsWay' /\ OnTheirWayInOrder'
    BY <2>2 DEF OneOnItsWay, OnTheirWayInOrder
  <2>4. ComposeIsUp'
    BY <1>2, <1>4, <1>8, <2>1 DEF ComposeIsUp
  <2>5. LaterInOrder' /\ QueueInOrder'
    BY <1>3, <1>4, <2>1, Zenon DEF LaterInOrder, QueueInOrder
  <2>6. program.compose = <<s.text>>
    BY <1>3, <2>1 DEF OneOnItsWay
  <2>7. Len(program.compose) = 1 /\ program.compose[1] = s.text
    BY <2>6
  <2>10. /\ s.text <= sends
         /\ \A k \in DOMAIN cursor.later : s.text < cursor.later[k]
    BY <2>1, Zenon DEF OnTheirWayInOrder
  <2>11. ASSUME NEW i \in DOMAIN all
         PROVE  /\ Len(all[i]) = 1 /\ all[i][1] <= sends
                /\ i > 1 => all[i - 1][1] < all[i][1]
                /\ \A k \in DOMAIN cursor.later : all[i][1] < cursor.later[k]
    <3>1. CASE i \in DOMAIN program.submitted /\ all[i] = program.submitted[i]
      <4>1. /\ Len(all[i]) = 1 /\ all[i][1] <= sends
            /\ \A k \in DOMAIN cursor.later : all[i][1] < cursor.later[k]
        BY <2>1, <3>1, Zenon DEF SubmittedInOrder
      <4>2. i > 1 => all[i - 1][1] < all[i][1]
        BY <1>6, <2>1, <3>1, Zenon DEF SubmittedInOrder
      <4> QED
        BY <4>1, <4>2
    <3>2. CASE /\ all[i] = program.compose
               /\ i > 1 => i - 1 \in DOMAIN program.submitted /\ all[i - 1] = program.submitted[i - 1]
      <4>1. i > 1 => all[i - 1][1] < s.text
        BY <2>1, <3>2, Zenon DEF SubmittedInOrder
      <4> QED
        BY <2>7, <2>10, <3>2, <4>1, Zenon
    <3> QED
      BY <1>6, <3>1, <3>2, Zenon
  <2>12. SubmittedInOrder'
    BY <1>3, <1>4, <1>8, <2>2, <2>11, Zenon DEF SubmittedInOrder
  <2> QED
    BY <2>3, <2>4, <2>5, <2>12
<1> QED
  BY <1>9, <1>10, <1>11, <1>12 DEF CursorIInv

-----------------------------------------------------------------------------
LEMMA CursorBegins ==
  ASSUME CursorInit
  PROVE  CursorIInv
<1>1. /\ cursor = NoCursor /\ submits = {} /\ program = NoProgram /\ sends = 0
      /\ over = NothingOver
  BY DEF CursorInit
<1>2. <<>> \in Seq(Nat) /\ <<>> \in Seq(Seq(Nat)) /\ 0 \in Nat
  OBVIOUS
<1>3. cursor \in CursorRecords /\ program \in Programs /\ over \in Overs
  BY <1>1, <1>2, Zenon DEF NoCursor, CursorRecords, CursorSources, NoProgram, Programs,
                           NothingOver, Overs
<1>4. /\ cursor.status = "idle" /\ ~cursor.pending /\ cursor.queue = <<>> /\ cursor.later = <<>>
      /\ program.compose = <<>> /\ program.submitted = <<>>
  BY <1>1 DEF NoCursor, NoProgram
<1>5. CursorTypes /\ CursorBoots /\ CursorStatus
  BY <1>1, <1>3, <1>4 DEF CursorTypes, CursorBoots, CursorStatus
<1>6. DOMAIN cursor.later = {} /\ DOMAIN cursor.queue = {} /\ DOMAIN program.submitted = {}
  BY <1>4
<1>7. LaterInOrder /\ QueueInOrder /\ SubmittedInOrder
  BY <1>6, Zenon DEF LaterInOrder, QueueInOrder, SubmittedInOrder
<1>8. OneOnItsWay /\ OnTheirWayInOrder /\ ComposeIsUp
  BY <1>1, <1>4 DEF OneOnItsWay, OnTheirWayInOrder, ComposeIsUp
<1> QED
  BY <1>5, <1>7, <1>8 DEF CursorIInv, TextsInOrder

LEMMA CursorRests ==
  ASSUME CursorIInv, UNCHANGED cursorVars
  PROVE  CursorIInv'
<1>1. /\ cursor' = cursor /\ submits' = submits /\ program' = program /\ sends' = sends
      /\ over' = over
  BY DEF cursorVars
<1>2. CursorTypes' /\ CursorBoots' /\ CursorStatus'
  BY <1>1, Zenon DEF CursorIInv, CursorTypes, CursorBoots, CursorStatus
<1>3. TextsInOrder'
  <2>1. OneOnItsWay' = OneOnItsWay /\ ComposeIsUp' = ComposeIsUp
    BY <1>1, Zenon DEF OneOnItsWay, ComposeIsUp
  <2>2. /\ SubmittedInOrder' = SubmittedInOrder /\ OnTheirWayInOrder' = OnTheirWayInOrder
        /\ LaterInOrder' = LaterInOrder /\ QueueInOrder' = QueueInOrder
    BY <1>1, Zenon DEF SubmittedInOrder, OnTheirWayInOrder, LaterInOrder, QueueInOrder
  <2> QED
    BY <1>1, <2>1, <2>2, Zenon DEF CursorIInv, TextsInOrder
<1> QED
  BY <1>2, <1>3 DEF CursorIInv

LEMMA CursorStep ==
  ASSUME CursorIInv, [CursorNext]_cursorVars
  PROVE  CursorIInv'
<1>1. CASE CursorStart \/ CursorHold \/ CursorExits
  BY <1>1, CursorComesAndGoes
<1>2. CASE ReadyFallback(TRUE) \/ ReadyFallback(FALSE)
  BY <1>2, CursorBootKeeps
<1>3. CASE Quiet
  BY <1>3, QuietKeeps
<1>4. CASE TurnCheck \/ SubmitWatch
  BY <1>4, CursorEndsKeep
<1>5. CASE SendInput
  BY <1>5, SendInputKeeps
<1>6. CASE FireNext
  BY <1>6, FireNextKeeps
<1>7. CASE SendKeys \/ LateStartLapses
  BY <1>7, CursorKeysKeep
<1>8. CASE ProgramUp \/ TurnBegins \/ HintPainted \/ HintLeaves
  BY <1>8, CursorScreenKeeps
<1>9. CASE \E s \in submits : Echo(s) \/ Type(s) \/ Submit(s)
  BY <1>9, OnItsWayKeeps, SubmitEntered
<1>10. CASE UNCHANGED cursorVars
  BY <1>10, CursorRests
<1> QED
  BY <1>1, <1>2, <1>3, <1>4, <1>5, <1>6, <1>7, <1>8, <1>9, <1>10, Zenon DEF CursorNext

LEMMA CursorImplies ==
  ASSUME CursorIInv
  PROVE  CursorInv
<1>1. /\ CursorTypes /\ CursorBoots /\ TextsInOrder /\ CursorStatus
  BY DEF CursorIInv
<1>2. CursorRunningIsWatched
  BY <1>1 DEF CursorRunningIsWatched, CursorStatus, CursorBoots
<1>3. CursorWaitingMeansIdle
  BY <1>1 DEF CursorWaitingMeansIdle, CursorStatus
<1>4. OneTextPerSubmit
  BY <1>1, Zenon DEF OneTextPerSubmit, TextsInOrder, SubmittedInOrder, ComposeIsUp
<1> QED
  BY <1>2, <1>3, <1>4 DEF CursorInv

-----------------------------------------------------------------------------
(* A session of Copilot.                                                   *)

CopilotRecords ==
  [status : {"running", "waiting", "idle"}, booting : BOOLEAN, busy : BOOLEAN,
   submitted : {"no", "fresh", "old"}, watch : BOOLEAN, quiet : BOOLEAN, pass : BOOLEAN,
   openCard : Cards \cup {Nothing}]

CopilotTypes ==
  /\ copilot \in CopilotRecords
  /\ copilotScreen \in CopilotScreens /\ arrived \in CopilotScreens \cup {Nothing}
  /\ copilotSpawned \in Nat /\ copilotProcess \in 0..copilotSpawned
  /\ copilotAlive \subseteq 1..copilotSpawned /\ copilotTold \subseteq 1..copilotSpawned
  /\ copilotStarting => ~InMap

\* What arrived, and a turn that was seen, will be looked at when the output is quiet.
Footing == copilotScreen = "working" \/ CardFooterShowing(copilotScreen)
LookedAt ==
  /\ arrived # Nothing => copilot.quiet \/ copilot.pass
  /\ copilot.busy => copilot.status = "running" /\ (copilot.quiet \/ copilot.pass \/ Footing)

\* A turn under way was seen to work, or is a submit that will be given up.
HasAnEnd ==
  copilot.status = "running" /\ ~copilot.booting =>
    copilot.busy \/ copilot.watch \/ copilot.submitted = "old"

\* An id without a session.
GoneIsBare ==
  ~InMap => copilot = NoCopilot /\ arrived = Nothing /\ copilotCard = Nothing

CopilotIInv == CopilotTypes /\ LookedAt /\ HasAnEnd /\ GoneIsBare /\ CopilotInv

-----------------------------------------------------------------------------
\* The records of the runner, field by field.
LEMMA CopilotFields ==
  ASSUME NEW x \in CopilotRecords, NEW scr \in CopilotScreens
  PROVE  /\ CopilotReady(x) \in CopilotRecords
         /\ CopilotReady(x).status = "waiting" /\ ~CopilotReady(x).busy
         /\ CopilotReady(x).quiet = x.quiet /\ CopilotReady(x).pass = x.pass
         /\ CopilotReady(x).openCard = x.openCard
         /\ SeenBusy(x, scr) \in CopilotRecords
         /\ scr = "working" => SeenBusy(x, scr).busy /\ SeenBusy(x, scr).status = "running"
         /\ scr # "working" => SeenBusy(x, scr) = x
         /\ SeenBusy(x, scr).quiet = x.quiet /\ SeenBusy(x, scr).pass = x.pass
         /\ SeenBusy(x, scr).watch = x.watch /\ SeenBusy(x, scr).booting = x.booting
         /\ SeenBusy(x, scr).submitted = x.submitted
         /\ SeenCard(x, scr) \in CopilotRecords
         /\ SeenCard(x, scr).status = x.status /\ SeenCard(x, scr).busy = x.busy
         /\ SeenCard(x, scr).quiet = x.quiet /\ SeenCard(x, scr).pass = x.pass
         /\ SeenCard(x, scr).watch = x.watch /\ SeenCard(x, scr).booting = x.booting
         /\ SeenCard(x, scr).submitted = x.submitted
         /\ SeenCard(x, scr).openCard =
              IF ~CardFooterShowing(scr) THEN Nothing ELSE IF scr = "painting" THEN x.openCard ELSE scr
<1>1. CardFooterShowing(scr) /\ scr # "painting" => scr \in Cards
  BY DEF CardFooterShowing
<1>2. PICK r : r = [x EXCEPT !.busy = FALSE, !.submitted = "no", !.watch = FALSE, !.status = "waiting",
                             !.booting = FALSE]
  OBVIOUS
<1>3. /\ r \in CopilotRecords /\ r.status = "waiting" /\ ~r.busy /\ r.quiet = x.quiet
      /\ r.pass = x.pass /\ r.openCard = x.openCard
  BY <1>2, Zenon DEF CopilotRecords
<1>4. CopilotReady(x) = r
  BY <1>2 DEF CopilotReady
<1>5. PICK b : b = [x EXCEPT !.busy = TRUE, !.status = "running"]
  OBVIOUS
<1>6. /\ b \in CopilotRecords /\ b.busy /\ b.status = "running" /\ b.quiet = x.quiet /\ b.pass = x.pass
      /\ b.watch = x.watch /\ b.booting = x.booting /\ b.submitted = x.submitted
  BY <1>5, Zenon DEF CopilotRecords
<1>7. SeenBusy(x, scr) = IF scr = "working" THEN b ELSE x
  BY <1>5 DEF SeenBusy
<1>8. PICK card : card = IF ~CardFooterShowing(scr) THEN Nothing
                         ELSE IF scr = "painting" THEN x.openCard ELSE scr
  OBVIOUS
<1>9. card \in Cards \cup {Nothing} /\ x.openCard \in Cards \cup {Nothing}
  BY <1>1, <1>8 DEF CopilotRecords
<1>10. x = [x EXCEPT !.openCard = x.openCard]
  BY DEF CopilotRecords
<1>11. SeenCard(x, scr) = [x EXCEPT !.openCard = card]
  BY <1>8, <1>10 DEF SeenCard
<1>12. PICK c : c = [x EXCEPT !.openCard = card]
  OBVIOUS
<1>13. /\ c \in CopilotRecords /\ c.status = x.status /\ c.busy = x.busy /\ c.quiet = x.quiet
       /\ c.pass = x.pass /\ c.watch = x.watch /\ c.booting = x.booting
       /\ c.submitted = x.submitted /\ c.openCard = card
  BY <1>9, <1>12, Zenon DEF CopilotRecords
<1> QED
  BY <1>3, <1>4, <1>6, <1>7, <1>8, <1>11, <1>12, <1>13, Zenon

LEMMA NoCopilotIs ==
  /\ NoCopilot \in CopilotRecords /\ NoCopilot.status = "idle" /\ ~NoCopilot.busy
  /\ ~NoCopilot.quiet /\ ~NoCopilot.pass /\ ~NoCopilot.watch /\ NoCopilot.openCard = Nothing
  /\ NewCopilot \in CopilotRecords /\ NewCopilot.status = "running" /\ NewCopilot.booting
  /\ ~NewCopilot.busy /\ NewCopilot.openCard = Nothing
  BY DEF NoCopilot, NewCopilot, CopilotRecords

\* The processes stay while the record of a session moves.
LEMMA RecordMoves ==
  ASSUME CopilotIInv, InMap, UNCHANGED <<copilotProcess, processVars>>,
         copilot' \in CopilotRecords, copilotScreen' \in CopilotScreens,
         arrived' \in CopilotScreens \cup {Nothing},
         LookedAt', HasAnEnd', CopilotRunningIsWatched', CopilotWaitingMeansIdle', CardIsShown'
  PROVE  CopilotIInv'
  BY DEF CopilotIInv, CopilotTypes, GoneIsBare, CopilotInv, CopilotProcesses, processVars, InMap

LEMMA CopilotParseKeeps ==
  ASSUME CopilotIInv, CopilotParse
  PROVE  CopilotIInv'
<1>1. /\ copilot \in CopilotRecords /\ arrived \in CopilotScreens /\ InMap
      /\ copilot.quiet \/ copilot.pass
      /\ copilotCard = copilot.openCard /\ (copilotCard # Nothing => copilotScreen \in {copilotCard, "painting"})
  BY DEF CopilotIInv, CopilotTypes, CopilotParse, LookedAt, CopilotInv, CardIsShown
<1>2. PICK b : b = SeenBusy(copilot, arrived)
  OBVIOUS
<1>3. /\ b \in CopilotRecords
      /\ arrived = "working" => b.busy /\ b.status = "running"
      /\ arrived # "working" => b = copilot
      /\ b.quiet = copilot.quiet /\ b.pass = copilot.pass /\ b.watch = copilot.watch
      /\ b.booting = copilot.booting /\ b.submitted = copilot.submitted
  BY <1>1, <1>2, CopilotFields
<1>4. PICK c : c = SeenCard(b, arrived)
  OBVIOUS
<1>5. /\ c \in CopilotRecords /\ c.status = b.status /\ c.busy = b.busy /\ c.quiet = b.quiet
      /\ c.pass = b.pass /\ c.watch = b.watch /\ c.booting = b.booting /\ c.submitted = b.submitted
      /\ c.openCard = IF ~CardFooterShowing(arrived) THEN Nothing
                      ELSE IF arrived = "painting" THEN b.openCard ELSE arrived
  <2>1. arrived \in CopilotScreens /\ b \in CopilotRecords
    BY <1>1, <1>3
  <2>2. LET card == SeenCard(b, arrived)
        IN  /\ card \in CopilotRecords /\ card.status = b.status /\ card.busy = b.busy
            /\ card.quiet = b.quiet /\ card.pass = b.pass /\ card.watch = b.watch
            /\ card.booting = b.booting /\ card.submitted = b.submitted
            /\ card.openCard = IF ~CardFooterShowing(arrived) THEN Nothing
                               ELSE IF arrived = "painting" THEN b.openCard ELSE arrived
    BY <2>1, CopilotFields
  <2> QED
    BY <1>4, <2>2, Zenon
<1>6. /\ copilot' = c /\ copilotScreen' = arrived /\ arrived' = Nothing /\ copilotCard' = c.openCard
      /\ UNCHANGED <<copilotProcess, processVars>>
  BY <1>2, <1>4 DEF CopilotParse
<1>7. LookedAt'
  BY <1>1, <1>3, <1>5, <1>6 DEF CopilotIInv, LookedAt
<1>8. HasAnEnd'
  BY <1>3, <1>5, <1>6 DEF CopilotIInv, HasAnEnd
<1>9. CopilotRunningIsWatched' /\ CopilotWaitingMeansIdle'
  BY <1>1, <1>3, <1>5, <1>6 DEF CopilotRunningIsWatched, CopilotWaitingMeansIdle
<1>10. CardIsShown'
  BY <1>1, <1>3, <1>5, <1>6 DEF CardIsShown, CardFooterShowing
<1> QED
  BY <1>1, <1>5, <1>6, <1>7, <1>8, <1>9, <1>10, RecordMoves

\* Output, and what the runner does on its own or for its user.
LEMMA CopilotTurnKeeps ==
  ASSUME CopilotIInv, CopilotOutput \/ CopilotQuiet \/ CopilotSettles \/ CopilotInput \/ CopilotWatch
  PROVE  CopilotIInv'
<1>1. copilot \in CopilotRecords /\ InMap /\ copilotScreen \in CopilotScreens
  BY DEF CopilotIInv, CopilotTypes, CopilotOutput, CopilotQuiet, CopilotSettles, CopilotInput, CopilotWatch
<1> DEFINE Shown == LookedAt' /\ HasAnEnd' /\ CopilotRunningIsWatched' /\ CopilotWaitingMeansIdle'
                    /\ CardIsShown'
<1>2. CASE CopilotOutput
  <2>1. PICK x : x = [copilot EXCEPT !.quiet = TRUE]
    OBVIOUS
  <2>2. /\ x \in CopilotRecords /\ x.quiet /\ x.status = copilot.status /\ x.busy = copilot.busy
        /\ x.booting = copilot.booting /\ x.watch = copilot.watch /\ x.submitted = copilot.submitted
        /\ x.openCard = copilot.openCard
    BY <1>1, <2>1, Zenon DEF CopilotRecords
  <2>3. copilot' = x /\ arrived' \in CopilotScreens
        /\ UNCHANGED <<copilotScreen, copilotCard, copilotProcess, processVars>>
    BY <1>2, <2>1 DEF CopilotOutput
  <2>4. Shown
    BY <2>2, <2>3 DEF CopilotIInv, LookedAt, HasAnEnd, CopilotInv, CopilotRunningIsWatched,
                      CopilotWaitingMeansIdle, CardIsShown
  <2> QED
    BY <1>1, <2>2, <2>3, <2>4, RecordMoves
<1>3. CASE CopilotQuiet
  <2>1. PICK x : x = [copilot EXCEPT !.quiet = FALSE, !.pass = TRUE]
    OBVIOUS
  <2>2. /\ x \in CopilotRecords /\ x.pass /\ x.status = copilot.status /\ x.busy = copilot.busy
        /\ x.booting = copilot.booting /\ x.watch = copilot.watch /\ x.submitted = copilot.submitted
        /\ x.openCard = copilot.openCard
    BY <1>1, <2>1, Zenon DEF CopilotRecords
  <2>3. copilot' = x /\ UNCHANGED <<arrived, copilotScreen, copilotCard, copilotProcess, processVars>>
    BY <1>3, <2>1 DEF CopilotQuiet
  <2>4. Shown
    BY <2>2, <2>3 DEF CopilotIInv, LookedAt, HasAnEnd, CopilotInv, CopilotRunningIsWatched,
                      CopilotWaitingMeansIdle, CardIsShown, Footing
  <2> QED
    BY <1>1, <2>2, <2>3, <2>4, RecordMoves DEF CopilotIInv, CopilotTypes
<1>4. CASE CopilotInput
  <2>1. PICK x : x = [copilot EXCEPT !.status = "running", !.submitted = "fresh", !.watch = TRUE]
    OBVIOUS
  <2>2. /\ x \in CopilotRecords /\ x.pass = copilot.pass /\ x.quiet = copilot.quiet
        /\ x.status = "running" /\ x.busy = copilot.busy /\ x.watch /\ x.openCard = copilot.openCard
    BY <1>1, <2>1, Zenon DEF CopilotRecords
  <2>3. copilot' = x /\ UNCHANGED <<arrived, copilotScreen, copilotCard, copilotProcess, processVars>>
    BY <1>4, <2>1 DEF CopilotInput
  <2>4. Shown
    BY <2>2, <2>3 DEF CopilotIInv, LookedAt, HasAnEnd, CopilotInv, CopilotRunningIsWatched,
                      CopilotWaitingMeansIdle, CardIsShown, Footing
  <2> QED
    BY <1>1, <2>2, <2>3, <2>4, RecordMoves DEF CopilotIInv, CopilotTypes
<1>5. ASSUME NEW x \in CopilotRecords, x.status = copilot.status, x.busy = copilot.busy,
             x.booting = copilot.booting, x.quiet = copilot.quiet, x.openCard = copilot.openCard,
             NEW isStale \in BOOLEAN, copilot' = Settled(x, isStale),
             x.submitted = "old" \/ (x.watch = copilot.watch /\ x.submitted = copilot.submitted),
             arrived = Nothing \/ x.quiet \/ x.pass,
             x.pass = copilot.pass \/ (arrived = Nothing /\ ~isStale),
             x.busy => ~isStale \/ x.pass = copilot.pass,
             isStale => x.submitted = "old" /\ ~x.busy,
             UNCHANGED <<arrived, copilotScreen, copilotCard, copilotProcess, processVars>>
      PROVE  CopilotIInv'
  <2>1. CASE x.status = "running" /\ ~Footing /\ (x.busy \/ (x.booting /\ copilotScreen = "idle")
                                                 \/ isStale \/ x.submitted = "old")
    <3>1. copilot' = CopilotReady(x)
      BY <1>5, <2>1 DEF Settled, Footing
    <3>2. /\ copilot' \in CopilotRecords /\ copilot'.status = "waiting" /\ ~copilot'.busy
          /\ copilot'.quiet = x.quiet /\ copilot'.pass = x.pass /\ copilot'.openCard = x.openCard
      BY <1>1, <1>5, <3>1, CopilotFields, SMTT(40)
    <3>3. Shown
      BY <1>5, <2>1, <3>2 DEF CopilotIInv, LookedAt, HasAnEnd, CopilotInv, CopilotRunningIsWatched,
                      CopilotWaitingMeansIdle, CardIsShown, Footing
    <3> QED
      BY <1>1, <1>5, <3>2, <3>3, RecordMoves DEF CopilotIInv, CopilotTypes
  <2>2. CASE ~(x.status = "running" /\ ~Footing /\ (x.busy \/ (x.booting /\ copilotScreen = "idle")
                                                   \/ isStale \/ x.submitted = "old"))
    <3>1. copilot' = x
      BY <1>5, <2>2 DEF Settled, Footing
    <3>2. Shown
      BY <1>5, <2>2, <3>1 DEF CopilotIInv, LookedAt, HasAnEnd, CopilotInv, CopilotRunningIsWatched,
                      CopilotWaitingMeansIdle, CardIsShown, Footing
    <3> QED
      BY <1>1, <1>5, <3>1, <3>2, RecordMoves DEF CopilotIInv, CopilotTypes
  <2> QED
    BY <2>1, <2>2
<1>6. CASE CopilotSettles
  <2>1. PICK x : x = [copilot EXCEPT !.pass = FALSE]
    OBVIOUS
  <2>2. /\ x \in CopilotRecords /\ x.quiet = copilot.quiet /\ x.status = copilot.status
        /\ x.busy = copilot.busy /\ x.booting = copilot.booting /\ x.watch = copilot.watch
        /\ x.submitted = copilot.submitted /\ x.openCard = copilot.openCard
    BY <1>1, <2>1, Zenon DEF CopilotRecords
  <2>3. arrived = Nothing /\ copilot' = Settled(x, FALSE)
        /\ UNCHANGED <<arrived, copilotScreen, copilotCard, copilotProcess, processVars>>
    BY <1>6, <2>1 DEF CopilotSettles
  <2> QED
    BY <1>5, <2>2, <2>3
<1>7. CASE CopilotWatch
  <2>1. PICK x : x = [copilot EXCEPT !.watch = FALSE, !.submitted = "old"]
    OBVIOUS
  <2>2. /\ x \in CopilotRecords /\ x.quiet = copilot.quiet /\ x.pass = copilot.pass
        /\ x.status = copilot.status /\ x.busy = copilot.busy /\ x.booting = copilot.booting
        /\ x.submitted = "old" /\ x.openCard = copilot.openCard
    BY <1>1, <2>1, Zenon DEF CopilotRecords
  <2>3. copilot' = (IF x.busy THEN x ELSE Settled(x, TRUE))
        /\ UNCHANGED <<arrived, copilotScreen, copilotCard, copilotProcess, processVars>>
    BY <1>7, <2>1 DEF CopilotWatch
  <2>4. CASE ~x.busy
    <3>1. arrived = Nothing \/ x.quiet \/ x.pass
      BY <2>2 DEF CopilotIInv, LookedAt
    <3> QED
      BY <1>5, <2>2, <2>3, <2>4, <3>1
  <2>5. CASE x.busy
    <3>1. copilot' = x
      BY <2>3, <2>5
    <3>2. Shown
      BY <2>2, <2>3, <2>5, <3>1 DEF CopilotIInv, LookedAt, HasAnEnd, CopilotInv,
         CopilotRunningIsWatched, CopilotWaitingMeansIdle, CardIsShown, Footing
    <3> QED
      BY <1>1, <2>2, <2>3, <3>1, <3>2, RecordMoves DEF CopilotIInv, CopilotTypes
  <2> QED
    BY <2>4, <2>5
<1> QED
  BY <1>2, <1>3, <1>4, <1>6, <1>7

\* A session comes and goes.
LEMMA FinishKeeps ==
  ASSUME CopilotIInv, CopilotFinish, copilotAlive' \subseteq copilotAlive,
         copilotTold \subseteq copilotTold', copilotTold' \subseteq 1..copilotSpawned,
         copilotAlive' \ copilotTold' = {}, UNCHANGED copilotSpawned, copilotStarting' = copilotStarting
  PROVE  CopilotIInv'
<1>1. CopilotTypes'
  BY NoCopilotIs DEF CopilotIInv, CopilotTypes, CopilotFinish, CopilotScreens, InMap
<1>2. LookedAt' /\ HasAnEnd' /\ GoneIsBare'
  BY NoCopilotIs DEF LookedAt, HasAnEnd, GoneIsBare, CopilotFinish
<1>3. CopilotInv'
  BY NoCopilotIs DEF CopilotInv, CopilotRunningIsWatched, CopilotWaitingMeansIdle, CardIsShown,
     CopilotProcesses, CopilotFinish, InMap
<1> QED
  BY <1>1, <1>2, <1>3 DEF CopilotIInv

LEMMA CopilotComesAndGoes ==
  ASSUME CopilotIInv,
         \/ CopilotStart \/ CopilotLaunch \/ CopilotHold \/ DisposeIdle
         \/ \E p \in copilotAlive : CopilotExits(p)
  PROVE  CopilotIInv'
<1>1. CASE CopilotStart \/ DisposeIdle
  BY <1>1 DEF CopilotStart, DisposeIdle, CopilotIInv, CopilotTypes, LookedAt, HasAnEnd, GoneIsBare,
     CopilotInv, CopilotRunningIsWatched, CopilotWaitingMeansIdle, CardIsShown, CopilotProcesses, InMap,
     Footing
<1>2. CASE CopilotLaunch
  <2>1. ~InMap /\ copilotStarting' = FALSE
        /\ UNCHANGED <<copilotDisposed, copilotTold, copilotCard>>
    BY <1>2 DEF CopilotLaunch, CopilotIInv, CopilotTypes
  <2>2. CASE UNCHANGED <<copilot, copilotProcess, copilotScreen, arrived, copilotAlive, copilotSpawned>>
    BY <2>1, <2>2 DEF CopilotIInv, CopilotTypes, LookedAt, HasAnEnd, GoneIsBare, CopilotInv,
       CopilotRunningIsWatched, CopilotWaitingMeansIdle, CardIsShown, CopilotProcesses, InMap, Footing
  <2>3. CASE ~UNCHANGED <<copilot, copilotProcess, copilotScreen, arrived, copilotAlive, copilotSpawned>>
    <3>1. /\ copilotSpawned' = copilotSpawned + 1 /\ copilotProcess' = copilotSpawned + 1
          /\ copilotAlive' = copilotAlive \cup {copilotSpawned + 1}
          /\ copilot' = NewCopilot /\ copilotScreen' = "other" /\ arrived' = Nothing
      BY <1>2, <2>3 DEF CopilotLaunch
    <3>2. /\ copilotSpawned \in Nat /\ copilotAlive \subseteq 1..copilotSpawned
          /\ copilotTold \subseteq 1..copilotSpawned /\ copilotAlive \ copilotTold \subseteq {0}
          /\ copilotCard = Nothing
      BY <2>1 DEF CopilotIInv, CopilotTypes, CopilotInv, CopilotProcesses, InMap, GoneIsBare
    <3>3. CopilotTypes'
      BY <2>1, <3>1, <3>2, NoCopilotIs DEF CopilotTypes, CopilotScreens
    <3>4. CopilotProcesses' /\ InMap'
      BY <2>1, <3>1, <3>2 DEF CopilotProcesses, InMap
    <3>5. LookedAt' /\ HasAnEnd' /\ GoneIsBare'
      BY <3>1, <3>4, NoCopilotIs DEF LookedAt, HasAnEnd, GoneIsBare
    <3>6. CopilotRunningIsWatched' /\ CopilotWaitingMeansIdle' /\ CardIsShown'
      BY <2>1, <3>1, <3>2, NoCopilotIs DEF CopilotRunningIsWatched, CopilotWaitingMeansIdle, CardIsShown
    <3> QED
      BY <3>3, <3>4, <3>5, <3>6 DEF CopilotIInv, CopilotInv
  <2> QED
    BY <2>2, <2>3
<1>3. CASE CopilotHold
  <2>1. InMap /\ CopilotFinish /\ copilotTold' = copilotTold \cup {copilotProcess}
        /\ UNCHANGED <<copilotStarting, copilotAlive, copilotSpawned>>
    BY <1>3 DEF CopilotHold
  <2>2. copilotTold' \subseteq 1..copilotSpawned /\ copilotAlive' \ copilotTold' = {}
    BY <2>1 DEF CopilotIInv, CopilotTypes, CopilotInv, CopilotProcesses
  <2> QED
    BY <2>1, <2>2, FinishKeeps
<1>4. CASE \E p \in copilotAlive : CopilotExits(p)
  <2>1. PICK p \in copilotAlive : CopilotExits(p)
    BY <1>4
  <2>2. copilotAlive' = copilotAlive \ {p} /\ UNCHANGED <<copilotStarting, copilotTold, copilotSpawned>>
    BY <2>1 DEF CopilotExits
  <2>3. CASE copilotProcess = p
    <3>1. CopilotFinish
      BY <2>1, <2>3 DEF CopilotExits
    <3>2. copilotAlive' \ copilotTold' = {} /\ copilotTold' \subseteq 1..copilotSpawned
      BY <2>2, <2>3 DEF CopilotIInv, CopilotTypes, CopilotInv, CopilotProcesses
    <3> QED
      BY <2>2, <3>1, <3>2, FinishKeeps
  <2>4. CASE copilotProcess # p
    <3>1. UNCHANGED <<copilot, copilotProcess, copilotScreen, arrived, copilotCard>>
      BY <2>1, <2>4 DEF CopilotExits
    <3> QED
      BY <2>2, <2>4, <3>1 DEF CopilotIInv, CopilotTypes, LookedAt, HasAnEnd, GoneIsBare, CopilotInv,
       CopilotRunningIsWatched, CopilotWaitingMeansIdle, CardIsShown, CopilotProcesses, InMap, Footing
  <2> QED
    BY <2>3, <2>4
<1> QED
  BY <1>1, <1>2, <1>3, <1>4

LEMMA CopilotBegins == CopilotInit => CopilotIInv
  BY NoCopilotIs DEF CopilotInit, CopilotIInv, CopilotTypes, LookedAt, HasAnEnd, GoneIsBare, CopilotInv,
     CopilotRunningIsWatched, CopilotWaitingMeansIdle, CardIsShown, CopilotProcesses, InMap, CopilotScreens

LEMMA CopilotStep == CopilotIInv /\ [CopilotNext]_copilotVars => CopilotIInv'
<1> SUFFICES ASSUME CopilotIInv, [CopilotNext]_copilotVars PROVE CopilotIInv'
  OBVIOUS
<1>1. CASE UNCHANGED copilotVars
  BY <1>1 DEF copilotVars, CopilotIInv, CopilotTypes, LookedAt, HasAnEnd, GoneIsBare, CopilotInv,
     CopilotRunningIsWatched, CopilotWaitingMeansIdle, CardIsShown, CopilotProcesses, InMap, Footing
<1>2. CASE CopilotNext
  BY <1>2, CopilotParseKeeps, CopilotTurnKeeps, CopilotComesAndGoes DEF CopilotNext
<1> QED
  BY <1>1, <1>2

-----------------------------------------------------------------------------
(* A session of the multi-agent mode.                                      *)

AgentReports == [turn : AgentTurns, kind : EndKinds \cup {"stage"}]
Deliveries == [report : AgentReports, told : BOOLEAN]

\* The reports delivered after the j-th, and the ids more recent than the i-th.
ReportsAfter(h, j) == {h[k].report : k \in (j + 1)..Len(h)}
NewerIds(s, i) == {s[m] : m \in (i + 1)..Len(s)}

\* The LRU holds the reports in the order of their last deliveries, and one that it does
\* not hold was followed by as many others as it has room for.
LruHolds(s, h) ==
  /\ \A i, m \in DOMAIN s : s[i] = s[m] => i = m
  /\ \A i \in DOMAIN s : \E j \in DOMAIN h : h[j].report = s[i] /\ ReportsAfter(h, j) = NewerIds(s, i)
  /\ \A j \in DOMAIN h : (\A i \in DOMAIN s : s[i] # h[j].report)
       => Cardinality(ReportsAfter(h, j)) >= SeenCapacity

LEMMA ImageIsFinite ==
  ASSUME NEW S, NEW s \in Seq(S), NEW a \in Nat, NEW b \in Nat, a >= 1, b <= Len(s)
  PROVE  LET T == {s[k] : k \in a..b}
         IN IsFiniteSet(T) /\ (a <= b => Cardinality(T) <= b - a + 1) /\ (a > b => Cardinality(T) = 0)
<1> DEFINE T == {s[k] : k \in a..b}
           f == [k \in a..b |-> s[k]]
<1>1. f \in Surjection(a..b, T)
  BY DEF Surjection
<1>2. IsFiniteSet(a..b) /\ Cardinality(a..b) = IF a > b THEN 0 ELSE b - a + 1
  BY FS_Interval
<1>3. IsFiniteSet(T) /\ Cardinality(T) <= Cardinality(a..b)
  BY <1>1, <1>2, FS_Surjection
<1>4. Cardinality(T) \in Nat
  BY <1>3, FS_CardinalityType
<1> QED
  BY <1>2, <1>3, <1>4

LEMMA ReportsAreFinite ==
  ASSUME NEW h \in Seq(Deliveries), NEW j \in Nat
  PROVE  IsFiniteSet(ReportsAfter(h, j)) /\ Cardinality(ReportsAfter(h, j)) \in Nat
<1> DEFINE f == [k \in (j + 1)..Len(h) |-> h[k].report]
<1>1. f \in Surjection((j + 1)..Len(h), ReportsAfter(h, j))
  BY DEF Surjection, ReportsAfter
<1>2. IsFiniteSet((j + 1)..Len(h))
  BY FS_Interval
<1> QED
  BY <1>1, <1>2, FS_Surjection, FS_CardinalityType

\* One more delivery.
LEMMA OneMoreReport ==
  ASSUME NEW h \in Seq(Deliveries), NEW r \in Deliveries
  PROVE  /\ Append(h, r) \in Seq(Deliveries) /\ Len(Append(h, r)) = Len(h) + 1
         /\ \A k \in DOMAIN h : Append(h, r)[k] = h[k]
         /\ Append(h, r)[Len(h) + 1] = r
         /\ \A j \in DOMAIN h : ReportsAfter(Append(h, r), j) = ReportsAfter(h, j) \cup {r.report}
         /\ ReportsAfter(Append(h, r), Len(h) + 1) = {}
<1>1. PICK g : g = Append(h, r)
  OBVIOUS
<1>2. /\ g \in Seq(Deliveries) /\ Len(g) = Len(h) + 1 /\ g[Len(h) + 1] = r
      /\ \A k \in 1..Len(h) : g[k] = h[k]
  BY <1>1
<1>3. Len(h) \in Nat /\ DOMAIN h = 1..Len(h)
  OBVIOUS
<1>4. ASSUME NEW j \in 1..Len(h)
      PROVE  ReportsAfter(g, j) = ReportsAfter(h, j) \cup {r.report}
  <2>1. (j + 1)..Len(g) = ((j + 1)..Len(h)) \cup {Len(h) + 1}
    BY <1>2, <1>3
  <2>2. \A k \in (j + 1)..Len(h) : g[k] = h[k]
    BY <1>2, <1>3
  <2> QED
    BY <1>2, <2>1, <2>2 DEF ReportsAfter
<1>5. ReportsAfter(g, Len(h) + 1) = {}
  BY <1>2, <1>3 DEF ReportsAfter
<1> QED
  BY <1>1, <1>2, <1>3, <1>4, <1>5

\* t is s without its i-th id, with e as the most recent.
IdMoved(s, t, i, e) ==
  /\ Len(t) = Len(s)
  /\ \A m \in 1..Len(s) : t[m] = IF m < i THEN s[m] ELSE IF m < Len(s) THEN s[m + 1] ELSE e
  /\ \A m \in 1..Len(s) : s[m] = e => m = i
  /\ s[i] # e => i = 1 /\ Len(s) = SeenCapacity

\* hasSeen moves the i-th id, or the oldest, out of the way of e.
LEMMA IdMoves ==
  ASSUME NEW s \in Seq(AgentReports), NEW h \in Seq(Deliveries), NEW r \in Deliveries,
         NEW t \in Seq(AgentReports), NEW L \in Nat, Len(s) = L, NEW i \in 1..L,
         LruHolds(s, h), IdMoved(s, t, i, r.report)
  PROVE  LruHolds(t, Append(h, r))
<1> DEFINE e == r.report
<1>1. PICK g : g = Append(h, r)
  OBVIOUS
<1>2. /\ g \in Seq(Deliveries) /\ Len(g) = Len(h) + 1
      /\ \A k \in DOMAIN h : g[k] = h[k]
      /\ g[Len(h) + 1] = r
      /\ \A j \in DOMAIN h : ReportsAfter(g, j) = ReportsAfter(h, j) \cup {e}
      /\ ReportsAfter(g, Len(h) + 1) = {}
  BY <1>1, OneMoreReport
<1>3. /\ L \in Nat /\ Len(h) \in Nat /\ DOMAIN s = 1..L /\ DOMAIN t = 1..L
      /\ DOMAIN h = 1..Len(h) /\ DOMAIN g = 1..(Len(h) + 1)
  BY <1>2 DEF IdMoved
<1>4. /\ \A m \in 1..L : m < i => t[m] = s[m]
      /\ \A m \in 1..L : i <= m /\ m < L => t[m] = s[m + 1]
      /\ t[L] = e
  BY <1>3 DEF IdMoved
<1>9. \A m \in 1..L : s[m] = e => m = i
  BY DEF IdMoved
<1>5. \A m, p \in 1..L : t[m] = t[p] => m = p
  <2> SUFFICES ASSUME NEW m \in 1..L, NEW p \in 1..L, m < p PROVE t[m] # t[p]
    BY <1>3
  <2>1. \A x, y \in 1..L : s[x] = s[y] => x = y
    BY <1>3 DEF LruHolds
  <2>2. CASE p = L
    <3>1. m < i => s[m] # e
      BY <1>3, <1>9
    <3>2. i <= m => s[m + 1] # e
      BY <1>3, <1>9, <2>2
    <3> QED
      BY <1>3, <1>4, <2>2, <3>1, <3>2
  <2>3. CASE p < L
    <3>1. PICK x \in 1..L : t[m] = s[x] /\ ((x = m /\ m < i) \/ (x = m + 1 /\ i <= m))
      <4>1. CASE m < i
        BY <1>3, <1>4, <4>1
      <4>2. CASE i <= m
        <5>1. m + 1 \in 1..L /\ t[m] = s[m + 1]
          BY <1>3, <1>4, <2>3, <4>2
        <5> QED
          BY <4>2, <5>1, Zenon
      <4> QED
        BY <1>3, <4>1, <4>2
    <3>2. PICK y \in 1..L : t[p] = s[y] /\ ((y = p /\ p < i) \/ (y = p + 1 /\ i <= p))
      <4>1. CASE p < i
        BY <1>3, <1>4, <4>1
      <4>2. CASE i <= p
        <5>1. p + 1 \in 1..L /\ t[p] = s[p + 1]
          BY <1>3, <1>4, <2>3, <4>2
        <5> QED
          BY <4>2, <5>1, Zenon
      <4> QED
        BY <1>3, <4>1, <4>2
    <3>3. x # y
      BY <1>3, <3>1, <3>2
    <3> QED
      BY <2>1, <3>1, <3>2, <3>3
  <2> QED
    BY <1>3, <2>2, <2>3
<1>6. ASSUME NEW m \in 1..L
      PROVE  NewerIds(t, m) = IF m = L THEN {} ELSE IF m < i THEN (NewerIds(s, m) \ {s[i]}) \cup {e}
                                               ELSE NewerIds(s, m + 1) \cup {e}
  <2>1. CASE m = L
    BY <1>3, <2>1 DEF NewerIds
  <2>2. CASE m # L /\ i <= m
    <3>1. ASSUME NEW x \in NewerIds(t, m) PROVE x \in NewerIds(s, m + 1) \cup {e}
      <4>1. PICK p \in (m + 1)..L : x = t[p]
        BY <1>3, <3>1 DEF NewerIds
      <4>2. CASE p = L
        BY <1>4, <4>1, <4>2
      <4>3. CASE p < L
        <5>1. x = s[p + 1] /\ p + 1 \in (m + 2)..L
          BY <1>3, <1>4, <2>2, <4>1, <4>3
        <5> QED
          BY <1>3, <5>1 DEF NewerIds
      <4> QED
        BY <1>3, <4>1, <4>2, <4>3
    <3>2. ASSUME NEW x \in NewerIds(s, m + 1) PROVE x \in NewerIds(t, m)
      <4>1. PICK p \in (m + 2)..L : x = s[p]
        <5>1. (m + 1) + 1 = m + 2
          BY <1>3
        <5>2. PICK p \in ((m + 1) + 1)..L : x = s[p]
          BY <3>2 DEF NewerIds
        <5> QED
          BY <5>1, <5>2
      <4>2. x = t[p - 1] /\ p - 1 \in (m + 1)..L
        BY <1>3, <1>4, <2>2, <4>1
      <4> QED
        BY <1>3, <4>2 DEF NewerIds
    <3>3. e \in NewerIds(t, m)
      BY <1>3, <1>4, <2>2 DEF NewerIds
    <3> QED
      BY <1>3, <2>2, <3>1, <3>2, <3>3
  <2>3. CASE m # L /\ m < i
    <3>1. ASSUME NEW x \in NewerIds(t, m) PROVE x \in (NewerIds(s, m) \ {s[i]}) \cup {e}
      <4>1. PICK p \in (m + 1)..L : x = t[p]
        BY <1>3, <3>1 DEF NewerIds
      <4>2. CASE p = L
        BY <1>4, <4>1, <4>2
      <4>3. CASE p < L
        <5>1. PICK q \in (m + 1)..L : x = s[q] /\ q # i
          <6>1. CASE p < i
            <7>1. p \in (m + 1)..L /\ t[p] = s[p] /\ p # i
              BY <1>3, <1>4, <4>1, <6>1
            <7> QED
              BY <4>1, <7>1
          <6>2. CASE i <= p
            <7>1. p + 1 \in (m + 1)..L /\ t[p] = s[p + 1] /\ p + 1 # i
              BY <1>3, <1>4, <2>3, <4>1, <4>3, <6>2
            <7> QED
              BY <4>1, <7>1
          <6> QED
            BY <1>3, <4>1, <6>1, <6>2
        <5>2. s[q] # s[i]
          <6>1. q \in DOMAIN s /\ i \in DOMAIN s /\ q # i
            BY <1>3, <5>1
          <6> QED
            BY <6>1 DEF LruHolds
        <5> QED
          BY <1>3, <5>1, <5>2 DEF NewerIds
      <4> QED
        BY <1>3, <4>1, <4>2, <4>3
    <3>2. ASSUME NEW x \in NewerIds(s, m) \ {s[i]} PROVE x \in NewerIds(t, m)
      <4>1. PICK p \in (m + 1)..L : x = s[p] /\ p # i
        BY <1>3, <3>2 DEF NewerIds
      <4>2. PICK q \in (m + 1)..L : x = t[q]
        <5>1. CASE p < i
          BY <1>3, <1>4, <4>1, <5>1
        <5>2. CASE p > i
          <6>1. p - 1 \in (m + 1)..L /\ t[p - 1] = s[p]
            BY <1>3, <1>4, <2>3, <4>1, <5>2
          <6> QED
            BY <4>1, <6>1
        <5> QED
          BY <1>3, <4>1, <5>1, <5>2
      <4> QED
        BY <1>3, <4>2 DEF NewerIds
    <3>3. e \in NewerIds(t, m)
      BY <1>3, <1>4, <2>3 DEF NewerIds
    <3> QED
      BY <1>3, <2>3, <3>1, <3>2, <3>3
  <2> QED
    BY <1>3, <2>1, <2>2, <2>3
<1>7. ASSUME NEW m \in 1..L
      PROVE  \E j \in DOMAIN g : g[j].report = t[m] /\ ReportsAfter(g, j) = NewerIds(t, m)
  <2>1. CASE m = L
    <3>1. Len(h) + 1 \in DOMAIN g /\ g[Len(h) + 1].report = t[L]
      BY <1>2, <1>3, <1>4
    <3>2. ReportsAfter(g, Len(h) + 1) = NewerIds(t, L)
      <4>1. NewerIds(t, L) = {}
        BY <1>3 DEF NewerIds
      <4> QED
        BY <1>2, <4>1
    <3> QED
      BY <2>1, <3>1, <3>2
  <2>2. CASE m < i /\ m # L
    <3>1. s[i] = e
      BY <1>3, <2>2 DEF IdMoved
    <3>2. s[i] \in NewerIds(s, m)
      BY <1>3, <2>2 DEF NewerIds
    <3>3. PICK j \in DOMAIN h : h[j].report = s[m] /\ ReportsAfter(h, j) = NewerIds(s, m)
      BY <1>3 DEF LruHolds
    <3>4. NewerIds(t, m) = NewerIds(s, m) \cup {e}
      BY <1>6, <2>2, <3>1, <3>2
    <3>5. j \in DOMAIN g /\ g[j].report = t[m] /\ ReportsAfter(g, j) = NewerIds(t, m)
      BY <1>2, <1>3, <1>4, <2>2, <3>3, <3>4
    <3> QED
      BY <3>5
  <2>3. CASE i <= m /\ m # L
    <3>1. m + 1 \in DOMAIN s /\ t[m] = s[m + 1]
      BY <1>3, <1>4, <2>3
    <3>2. PICK j \in DOMAIN h : h[j].report = s[m + 1] /\ ReportsAfter(h, j) = NewerIds(s, m + 1)
      BY <3>1 DEF LruHolds
    <3>3. NewerIds(t, m) = NewerIds(s, m + 1) \cup {e}
      BY <1>3, <1>6, <2>3
    <3>4. j \in DOMAIN g /\ g[j].report = t[m] /\ ReportsAfter(g, j) = NewerIds(t, m)
      BY <1>2, <1>3, <3>1, <3>2, <3>3
    <3> QED
      BY <3>4
  <2> QED
    BY <1>3, <2>1, <2>2, <2>3
<1>8. ASSUME NEW j \in DOMAIN g, \A m \in DOMAIN t : t[m] # g[j].report
      PROVE  Cardinality(ReportsAfter(g, j)) >= SeenCapacity
  <2>1. j \in DOMAIN h /\ g[j] = h[j] /\ ReportsAfter(g, j) = ReportsAfter(h, j) \cup {e}
        /\ h[j].report # e
    <3>1. g[j].report # e
      <4>1. L \in DOMAIN t
        BY <1>3
      <4> QED
        BY <1>4, <1>8, <4>1
    <3> QED
      BY <1>2, <1>3, <3>1
  <2>2. /\ IsFiniteSet(ReportsAfter(g, j)) /\ Cardinality(ReportsAfter(g, j)) \in Nat
        /\ IsFiniteSet(ReportsAfter(h, j)) /\ Cardinality(ReportsAfter(h, j)) \in Nat
    BY <1>2, <1>3, ReportsAreFinite
  <2>3. SeenCapacity \in Nat
    BY AgentSessionsAssumption DEF AgentSessionsAssumption
  <2>4. CASE \A m \in DOMAIN s : s[m] # h[j].report
    <3>1. Cardinality(ReportsAfter(h, j)) >= SeenCapacity
      BY <2>1, <2>4 DEF LruHolds
    <3>2. ReportsAfter(h, j) \in SUBSET ReportsAfter(g, j)
      BY <2>1
    <3>3. Cardinality(ReportsAfter(h, j)) <= Cardinality(ReportsAfter(g, j))
      BY <2>2, <3>2, FS_Subset
    <3> QED
      BY <2>2, <2>3, <3>1, <3>3
  <2>5. CASE \E m \in DOMAIN s : s[m] = h[j].report
    <3>1. PICK m \in DOMAIN s : s[m] = h[j].report
      BY <2>5
    <3>2. m = i /\ i = 1 /\ L = SeenCapacity /\ s[1] = h[j].report
      <4>1. m < i => t[m] = s[m]
        BY <1>3, <1>4, <3>1
      <4>2. i < m => t[m - 1] = s[m] /\ m - 1 \in 1..L
        BY <1>3, <1>4, <3>1
      <4>3. m = i
        BY <1>3, <1>8, <2>1, <3>1, <4>1, <4>2
      <4>4. s[i] # e
        BY <2>1, <3>1, <4>3
      <4>5. i = 1 /\ L = SeenCapacity
        BY <4>4 DEF IdMoved
      <4> QED
        BY <3>1, <4>3, <4>5
    <3>3. PICK j0 \in DOMAIN h : h[j0].report = s[1] /\ ReportsAfter(h, j0) = NewerIds(s, 1)
      BY <1>3, <3>2 DEF LruHolds
    <3>4. j <= j0
      <4> SUFFICES ASSUME j > j0 PROVE FALSE
        BY <1>3, <2>1, <3>3
      <4>1. s[1] \in ReportsAfter(h, j0)
        BY <1>3, <2>1, <3>2, <3>3 DEF ReportsAfter
      <4>2. PICK p \in 2..L : s[p] = s[1]
        BY <3>3, <4>1 DEF NewerIds
      <4>3. 1 \in 1..L /\ p \in 1..L /\ p # 1
        BY <1>3, <4>2
      <4> QED
        BY <1>3, <4>2, <4>3 DEF LruHolds
    <3>5. {t[m1] : m1 \in 1..L} \in SUBSET ReportsAfter(g, j)
      <4>1. ReportsAfter(h, j0) \subseteq ReportsAfter(h, j)
        BY <1>3, <2>1, <3>3, <3>4 DEF ReportsAfter
      <4>2. ASSUME NEW p \in 1..L PROVE t[p] \in ReportsAfter(g, j)
        <5>1. CASE p = L
          BY <1>4, <2>1, <5>1
        <5>2. CASE p < L
          <6>1. t[p] = s[p + 1] /\ p + 1 \in 2..L
            BY <1>3, <1>4, <3>2, <5>2
          <6>2. t[p] \in NewerIds(s, 1)
            BY <6>1 DEF NewerIds
          <6> QED
            BY <2>1, <3>3, <4>1, <6>2
        <5> QED
          BY <1>3, <5>1, <5>2
      <4> QED
        BY <4>2
    <3>6. Cardinality({t[m1] : m1 \in 1..L}) = L
      <4> DEFINE T == {t[m1] : m1 \in 1..L}
                 f == [m1 \in 1..L |-> t[m1]]
      <4>1. f \in Surjection(1..L, T)
        BY DEF Surjection
      <4>2. f \in Injection(1..L, T)
        <5>1. f \in [1..L -> T] /\ DOMAIN f = 1..L
          OBVIOUS
        <5>2. \A x, y \in 1..L : f[x] = f[y] => x = y
          BY <1>5
        <5> HIDE DEF f
        <5> QED
          BY <5>1, <5>2, Zenon DEF Injection, IsInjective
      <4>3. IsFiniteSet(1..L) /\ Cardinality(1..L) = L
        <5>1. IsFiniteSet(1..L) /\ Cardinality(1..L) = IF 1 > L THEN 0 ELSE L - 1 + 1
          BY <1>3, FS_Interval
        <5> QED
          BY <1>3, <5>1
      <4> QED
        BY <4>1, <4>2, <4>3, FS_Surjection
    <3>7. Cardinality({t[m1] : m1 \in 1..L}) <= Cardinality(ReportsAfter(g, j))
      BY <2>2, <3>5, FS_Subset
    <3> QED
      BY <1>3, <2>2, <3>2, <3>6, <3>7
  <2> QED
    BY <2>4, <2>5
<1> QED
  BY <1>1, <1>3, <1>5, <1>7, <1>8 DEF LruHolds

\* hasSeen puts an id into room that is free.
LEMMA IdJoins ==
  ASSUME NEW s \in Seq(AgentReports), NEW h \in Seq(Deliveries), NEW r \in Deliveries,
         NEW L \in Nat, Len(s) = L, LruHolds(s, h), \A m \in 1..L : s[m] # r.report
  PROVE  LruHolds(Append(s, r.report), Append(h, r))
<1> DEFINE e == r.report
<1>1. PICK g : g = Append(h, r)
  OBVIOUS
<1>2. /\ g \in Seq(Deliveries) /\ Len(g) = Len(h) + 1
      /\ \A k \in DOMAIN h : g[k] = h[k]
      /\ g[Len(h) + 1] = r
      /\ \A j \in DOMAIN h : ReportsAfter(g, j) = ReportsAfter(h, j) \cup {e}
      /\ ReportsAfter(g, Len(h) + 1) = {}
  BY <1>1, OneMoreReport
<1>3. e \in AgentReports
  BY DEF Deliveries
<1>4. PICK t : t = Append(s, e)
  OBVIOUS
<1>5. /\ t \in Seq(AgentReports) /\ Len(t) = L + 1 /\ t[L + 1] = e
      /\ \A m \in 1..L : t[m] = s[m]
  BY <1>3, <1>4
<1>6. /\ Len(h) \in Nat /\ DOMAIN s = 1..L /\ DOMAIN t = 1..(L + 1)
      /\ DOMAIN h = 1..Len(h) /\ DOMAIN g = 1..(Len(h) + 1)
  BY <1>2, <1>5
<1>7. \A m, p \in 1..(L + 1) : t[m] = t[p] => m = p
  <2>1. \A m, p \in 1..L : s[m] = s[p] => m = p
    BY <1>6 DEF LruHolds
  <2> QED
    BY <1>5, <2>1
<1>8. ASSUME NEW m \in 1..L
      PROVE  NewerIds(t, m) = NewerIds(s, m) \cup {e}
  <2>1. (m + 1)..(L + 1) = ((m + 1)..L) \cup {L + 1}
    BY <1>6
  <2>2. \A k \in (m + 1)..L : t[k] = s[k]
    BY <1>5, <1>6
  <2> QED
    BY <1>5, <2>1, <2>2 DEF NewerIds
<1>9. NewerIds(t, L + 1) = {}
  BY <1>5 DEF NewerIds
<1>10. ASSUME NEW m \in 1..(L + 1)
       PROVE  \E j \in DOMAIN g : g[j].report = t[m] /\ ReportsAfter(g, j) = NewerIds(t, m)
  <2>1. CASE m = L + 1
    <3>1. Len(h) + 1 \in DOMAIN g /\ g[Len(h) + 1].report = t[m]
          /\ ReportsAfter(g, Len(h) + 1) = NewerIds(t, m)
      <4>1. Len(h) + 1 \in DOMAIN g /\ g[Len(h) + 1].report = t[m]
        BY <1>2, <1>5, <1>6, <2>1
      <4>2. ReportsAfter(g, Len(h) + 1) = NewerIds(t, m)
        BY <1>2, <1>9, <2>1, Zenon
      <4> QED
        BY <4>1, <4>2
    <3> QED
      BY <3>1
  <2>2. CASE m \in 1..L
    <3>1. PICK j \in DOMAIN h : h[j].report = s[m] /\ ReportsAfter(h, j) = NewerIds(s, m)
      BY <1>6, <2>2 DEF LruHolds
    <3>2. j \in DOMAIN g /\ g[j].report = t[m] /\ ReportsAfter(g, j) = NewerIds(t, m)
      <4>1. j \in DOMAIN g /\ g[j] = h[j] /\ t[m] = s[m]
        BY <1>2, <1>5, <1>6, <2>2
      <4>2. ReportsAfter(g, j) = NewerIds(s, m) \cup {e}
        BY <1>2, <3>1, Zenon
      <4>3. NewerIds(t, m) = NewerIds(s, m) \cup {e}
        BY <1>8, <2>2, Zenon
      <4> QED
        BY <3>1, <4>1, <4>2, <4>3, Zenon
    <3> QED
      BY <3>2
  <2> QED
    BY <1>6, <2>1, <2>2
<1>11. ASSUME NEW j \in DOMAIN g, \A m \in DOMAIN t : t[m] # g[j].report
       PROVE  Cardinality(ReportsAfter(g, j)) >= SeenCapacity
  <2>1. g[j].report # e
    <3>1. L + 1 \in DOMAIN t
      BY <1>6
    <3> QED
      BY <1>5, <1>11, <3>1
  <2>2. j \in DOMAIN h /\ g[j] = h[j] /\ ReportsAfter(g, j) = ReportsAfter(h, j) \cup {e}
    BY <1>2, <1>6, <2>1
  <2>3. \A m \in DOMAIN s : s[m] # h[j].report
    BY <1>5, <1>6, <1>11, <2>2
  <2>4. Cardinality(ReportsAfter(h, j)) >= SeenCapacity
    BY <2>2, <2>3 DEF LruHolds
  <2>5. /\ IsFiniteSet(ReportsAfter(g, j)) /\ Cardinality(ReportsAfter(g, j)) \in Nat
        /\ IsFiniteSet(ReportsAfter(h, j)) /\ Cardinality(ReportsAfter(h, j)) \in Nat
    BY <1>2, <1>6, ReportsAreFinite
  <2>6. Cardinality(ReportsAfter(h, j)) <= Cardinality(ReportsAfter(g, j))
    <3>1. ReportsAfter(h, j) \in SUBSET ReportsAfter(g, j)
      BY <2>2
    <3> QED
      BY <2>5, <3>1, FS_Subset
  <2>7. SeenCapacity \in Nat
    BY AgentSessionsAssumption DEF AgentSessionsAssumption
  <2> QED
    BY <2>4, <2>5, <2>6, <2>7
<1> QED
  BY <1>1, <1>4, <1>6, <1>7, <1>10, <1>11 DEF LruHolds

LEMMA RemovedId ==
  ASSUME NEW s \in Seq(AgentReports), NEW L \in Nat, Len(s) = L, NEW i \in 1..L
  PROVE  /\ RemoveAt(s, i) \in Seq(AgentReports) /\ Len(RemoveAt(s, i)) = L - 1
         /\ \A m \in 1..(L - 1) : RemoveAt(s, i)[m] = IF m < i THEN s[m] ELSE s[m + 1]
<1>1. PICK a, b, c : a = SubSeq(s, 1, i - 1) /\ b = SubSeq(s, i + 1, L) /\ c = a \o b
  OBVIOUS
<1>2. /\ a \in Seq(AgentReports) /\ Len(a) = i - 1 /\ \A m \in 1..(i - 1) : a[m] = s[m]
  BY <1>1
<1>3. /\ b \in Seq(AgentReports) /\ Len(b) = L - i /\ \A m \in 1..(L - i) : b[m] = s[m + i]
  BY <1>1, SMTT(30)
<1>4. RemoveAt(s, i) = c
  BY <1>1 DEF RemoveAt
<1>5. /\ c \in Seq(AgentReports) /\ Len(c) = L - 1
      /\ \A m \in 1..(L - 1) : c[m] = IF m <= i - 1 THEN a[m] ELSE b[m - (i - 1)]
  <2>1. c \in Seq(AgentReports) /\ Len(c) = Len(a) + Len(b)
    BY <1>1, <1>2, <1>3
  <2>2. \A m \in 1..(Len(a) + Len(b)) : c[m] = IF m <= Len(a) THEN a[m] ELSE b[m - Len(a)]
    <3>1. a \in Seq(AgentReports) /\ b \in Seq(AgentReports) /\ c = a \o b
      BY <1>1, <1>2, <1>3
    <3> QED
      BY <3>1
  <2>3. Len(a) = i - 1 /\ Len(a) + Len(b) = L - 1
    BY <1>2, <1>3
  <2> QED
    BY <2>1, <2>2, <2>3
<1>6. ASSUME NEW m \in 1..(L - 1) PROVE c[m] = IF m < i THEN s[m] ELSE s[m + 1]
  <2>1. CASE m < i
    BY <1>2, <1>5, <2>1
  <2>2. CASE i <= m
    <3>1. c[m] = b[m - (i - 1)] /\ m - (i - 1) \in 1..(L - i) /\ (m - (i - 1)) + i = m + 1
      BY <1>5, <2>2
    <3> QED
      BY <1>3, <2>2, <3>1
  <2> QED
    BY <2>1, <2>2
<1> QED
  BY <1>4, <1>5, <1>6

\* hasSeen, of the LRU.
LEMMA SeenKeeps ==
  ASSUME NEW r \in Deliveries, seenIds \in Seq(AgentReports), heard \in Seq(Deliveries),
         Len(seenIds) <= SeenCapacity, LruHolds(seenIds, heard)
  PROVE  /\ SeenAfter(r.report) \in Seq(AgentReports) /\ Len(SeenAfter(r.report)) <= SeenCapacity
         /\ LruHolds(SeenAfter(r.report), Append(heard, r))
<1> DEFINE e == r.report
<1>1. e \in AgentReports /\ SeenCapacity \in Nat \ {0}
  BY AgentSessionsAssumption DEF Deliveries, AgentSessionsAssumption
<1>2. PICK L \in Nat : Len(seenIds) = L
  OBVIOUS
<1>3. DOMAIN seenIds = 1..L
  BY <1>2
<1>4. CASE HasSeen(e)
  <2>1. PICK i \in 1..L : i = (CHOOSE k \in DOMAIN seenIds : seenIds[k] = e) /\ seenIds[i] = e
    BY <1>3, <1>4 DEF HasSeen
  <2>2. PICK others : others = RemoveAt(seenIds, i)
    OBVIOUS
  <2>3. /\ others \in Seq(AgentReports) /\ Len(others) = L - 1
        /\ \A m \in 1..(L - 1) : others[m] = IF m < i THEN seenIds[m] ELSE seenIds[m + 1]
    BY <1>2, <2>1, <2>2, RemovedId
  <2>4. PICK t : t = Append(others, e)
    OBVIOUS
  <2>5. /\ t \in Seq(AgentReports) /\ Len(t) = L /\ t[L] = e
        /\ \A m \in 1..(L - 1) : t[m] = others[m]
    BY <1>1, <2>1, <2>3, <2>4
  <2>6. SeenAfter(e) = t
    <3>1. SeenAfter(e) = Latest(t)
      BY <1>4, <2>1, <2>2, <2>4, Zenon DEF SeenAfter
    <3> QED
      BY <1>1, <1>2, <2>5, <3>1 DEF Latest
  <2>7. IdMoved(seenIds, t, i, e)
    <3>1. \A m \in 1..L : seenIds[m] = e => m = i
      BY <1>3, <2>1 DEF LruHolds
    <3>2. \A m \in 1..L : t[m] = IF m < i THEN seenIds[m] ELSE IF m < L THEN seenIds[m + 1] ELSE e
      BY <1>2, <2>1, <2>3, <2>5
    <3> QED
      BY <1>2, <2>1, <2>5, <3>1, <3>2 DEF IdMoved
  <2>8. LruHolds(t, Append(heard, r))
    BY <1>2, <2>5, <2>7, IdMoves
  <2> QED
    BY <1>2, <2>5, <2>6, <2>8
<1>5. CASE ~HasSeen(e)
  <2>1. \A m \in 1..L : seenIds[m] # e
    BY <1>3, <1>5 DEF HasSeen
  <2>2. PICK a : a = Append(seenIds, e)
    OBVIOUS
  <2>3. /\ a \in Seq(AgentReports) /\ Len(a) = L + 1 /\ a[L + 1] = e
        /\ \A m \in 1..L : a[m] = seenIds[m]
    BY <1>1, <1>2, <2>2
  <2>4. SeenAfter(e) = Latest(a)
    BY <1>5, <2>2 DEF SeenAfter
  <2>5. CASE L < SeenCapacity
    <3>1. SeenAfter(e) = a
      BY <1>1, <1>2, <2>3, <2>4, <2>5 DEF Latest
    <3>2. LruHolds(a, Append(heard, r))
      BY <1>2, <2>1, <2>2, IdJoins
    <3> QED
      BY <1>1, <1>2, <2>3, <2>5, <3>1, <3>2
  <2>6. CASE L = SeenCapacity
    <3>1. PICK t : t = Tail(a)
      OBVIOUS
    <3>2. /\ t \in Seq(AgentReports) /\ Len(t) = L /\ \A m \in 1..L : t[m] = a[m + 1]
      BY <1>1, <2>3, <2>6, <3>1
    <3>3. SeenAfter(e) = t
      BY <1>1, <2>3, <2>4, <2>6, <3>1 DEF Latest
    <3>4. IdMoved(seenIds, t, 1, e)
      <4>1. \A m \in 1..L : t[m] = IF m < L THEN seenIds[m + 1] ELSE e
        BY <1>1, <2>3, <2>6, <3>2
      <4>2. \A m \in 1..L : t[m] = IF m < 1 THEN seenIds[m] ELSE IF m < L THEN seenIds[m + 1] ELSE e
        BY <1>2, <4>1
      <4> QED
        BY <1>2, <2>1, <2>6, <3>2, <4>2 DEF IdMoved
    <3>5. 1 \in 1..L
      BY <1>1, <2>6
    <3>6. LruHolds(t, Append(heard, r))
      BY <1>2, <3>2, <3>4, <3>5, IdMoves
    <3> QED
      BY <1>1, <2>6, <3>2, <3>3, <3>6
  <2> QED
    BY <1>1, <1>2, <2>5, <2>6
<1> QED
  BY <1>4, <1>5

InputStates == {"none", "awaited", "full", "accepted", "failed"}

TurnTypes ==
  /\ currentTurnId \in 0..MaxAgentTurns /\ input \in [AgentTurns -> InputStates]
  /\ delivered \subseteq AgentTurns /\ outcome \in [AgentTurns -> {"none"} \cup EndKinds]

WebhookTypes ==
  /\ seenIds \in Seq(AgentReports) /\ Len(seenIds) <= SeenCapacity
  /\ heard \in Seq(Deliveries)
  /\ persisting \subseteq DOMAIN heard /\ persisted \subseteq DOMAIN heard
  /\ persisting \cap persisted = {}

\* What reaches the workers was asked for.
DeliveredWasAsked == \A t \in delivered : input[t] \in {"awaited", "accepted", "failed"}

\* What the workers report is so.
ReportsAreTrue ==
  \A j \in DOMAIN heard :
    /\ heard[j].report.turn \in delivered
    /\ heard[j].report.kind \in EndKinds => outcome[heard[j].report.turn] = heard[j].report.kind

AppendsAreAnswers == \A j \in persisting : heard[j].told /\ heard[j].report.kind = "answer"

\* RepeatsAreSilent, of any deliveries.
SilentIn(h) ==
  \A j \in DOMAIN h :
    h[j].told <=>
      ~\E i \in 1..(j - 1) :
         /\ h[i].report = h[j].report
         /\ Cardinality({h[k].report : k \in (i + 1)..(j - 1)}) < SeenCapacity

OrchestraIInv ==
  /\ TurnTypes /\ WebhookTypes /\ DeliveredWasAsked /\ ReportsAreTrue /\ AppendsAreAnswers
  /\ LockFollowsTurn /\ LruHolds(seenIds, heard) /\ RepeatsAreSilent

LEMMA SilenceIsOfTheDeliveries ==
  (RepeatsAreSilent <=> SilentIn(heard)) /\ (RepeatsAreSilent' <=> SilentIn(heard'))
  BY DEF RepeatsAreSilent, SilentIn

LEMMA OrchestraBegins == AgentsInit => OrchestraIInv
<1> SUFFICES ASSUME AgentsInit PROVE OrchestraIInv
  OBVIOUS
<1>1. TurnTypes
  BY AgentSessionsAssumption
  DEF AgentsInit, TurnTypes, AgentSessionsAssumption, NoTurn, InputStates
<1>2. WebhookTypes
  BY AgentSessionsAssumption DEF AgentsInit, WebhookTypes, AgentSessionsAssumption
<1>3. DeliveredWasAsked /\ ReportsAreTrue /\ AppendsAreAnswers /\ RepeatsAreSilent
  BY DEF AgentsInit, DeliveredWasAsked, ReportsAreTrue, AppendsAreAnswers, RepeatsAreSilent
<1>4. LockFollowsTurn
  BY DEF AgentsInit, LockFollowsTurn
<1>5. LruHolds(seenIds, heard)
  BY DEF AgentsInit, LruHolds
<1> QED
  BY <1>1, <1>2, <1>3, <1>4, <1>5 DEF OrchestraIInv

\* What a step that leaves the webhook alone has to show.
LEMMA WebhookRests ==
  ASSUME OrchestraIInv, UNCHANGED webhookVars, TurnTypes', DeliveredWasAsked', ReportsAreTrue',
         LockFollowsTurn'
  PROVE  OrchestraIInv'
<1>1. seenIds' = seenIds /\ heard' = heard /\ persisting' = persisting /\ persisted' = persisted
  BY DEF webhookVars
<1>2. WebhookTypes' /\ AppendsAreAnswers'
  BY <1>1, Zenon DEF OrchestraIInv, WebhookTypes, AppendsAreAnswers
<1>3. LruHolds(seenIds, heard)' /\ RepeatsAreSilent'
  BY <1>1, SilenceIsOfTheDeliveries DEF OrchestraIInv
<1> QED
  BY <1>2, <1>3 DEF OrchestraIInv

\* The start of the session.
LEMMA OrchestraStarts ==
  ASSUME OrchestraIInv,
         StartAgentSession \/ WorkflowStarts \/ \E ok \in BOOLEAN : StartSettles(ok)
  PROVE  OrchestraIInv'
<1>1. UNCHANGED <<currentTurnId, input, delivered, outcome, webhookVars>>
  BY DEF StartAgentSession, WorkflowStarts, StartSettles, workerVars, requestVars
<1>2. heard' = heard /\ persisted' = persisted
  BY <1>1 DEF webhookVars
<1>3. TurnTypes' /\ DeliveredWasAsked' /\ ReportsAreTrue'
  BY <1>1, <1>2 DEF OrchestraIInv, TurnTypes, DeliveredWasAsked, ReportsAreTrue
<1>4. LockFollowsTurn'
  BY <1>1, <1>2 DEF OrchestraIInv, LockFollowsTurn, Disowned
<1> QED
  BY <1>1, <1>3, <1>4, WebhookRests

\* The input takes the lock.
LEMMA InputKeeps ==
  ASSUME OrchestraIInv, NEW t \in AgentTurns, NEW tooLong \in BOOLEAN, AcceptInput(t, tooLong)
  PROVE  OrchestraIInv'
<1>1. /\ input[t] = "none" /\ currentTurnId = NoTurn
      /\ UNCHANGED <<delivered, outcome, webhookVars>>
  BY DEF AcceptInput, Fresh, workerVars
<1>2. heard' = heard /\ persisted' = persisted /\ delivered' = delivered /\ outcome' = outcome
  BY <1>1 DEF webhookVars
<1>3. PICK w \in {"full", "awaited"} : /\ input' = [input EXCEPT ![t] = w]
                                       /\ w = "awaited" => currentTurnId' = t
                                       /\ currentTurnId' \in {NoTurn, t}
  BY DEF AcceptInput, Guarded
<1>4. /\ t \notin delivered /\ input \in [AgentTurns -> InputStates] /\ input'[t] = w
      /\ \A u \in AgentTurns : u # t => input'[u] = input[u]
  BY <1>1, <1>3 DEF OrchestraIInv, TurnTypes, DeliveredWasAsked
<1>5. TurnTypes'
  <2>1. input' \in [AgentTurns -> InputStates]
    BY <1>3, <1>4 DEF InputStates
  <2>2. currentTurnId' \in 0..MaxAgentTurns
    BY <1>3, AgentSessionsAssumption DEF NoTurn, AgentTurns, AgentSessionsAssumption
  <2> QED
    BY <1>2, <2>1, <2>2 DEF OrchestraIInv, TurnTypes
<1>6. DeliveredWasAsked' /\ ReportsAreTrue'
  BY <1>2, <1>4 DEF OrchestraIInv, TurnTypes, DeliveredWasAsked, ReportsAreTrue
<1>7. LockFollowsTurn'
  <2> SUFFICES ASSUME Disowned' = {}, NEW u \in AgentTurns,
                      input'[u] \in {"awaited", "accepted"}, currentTurnId' # u
               PROVE  \E j \in DOMAIN heard' :
                        /\ heard'[j].told /\ heard'[j].report.turn = u /\ heard'[j].report.kind \in EndKinds
                        /\ heard'[j].report.kind = "answer" => j \in persisted'
    BY DEF LockFollowsTurn
  <2>1. u # t
    BY <1>3, <1>4
  <2>2. Disowned = {}
    BY <1>2, <1>4 DEF Disowned, OrchestraIInv, TurnTypes
  <2>3. currentTurnId # u /\ input[u] = input'[u]
    BY <1>1, <1>4, <2>1 DEF NoTurn, AgentTurns
  <2> QED
    BY <1>2, <2>2, <2>3 DEF OrchestraIInv, LockFollowsTurn
<1> QED
  BY <1>1, <1>5, <1>6, <1>7, WebhookRests

\* Its request is answered; a failure frees the lock, whoever holds it.
LEMMA SignalKeeps ==
  ASSUME OrchestraIInv, NEW t \in AgentTurns, NEW ok \in BOOLEAN, SignalSettles(t, ok)
  PROVE  OrchestraIInv'
<1>1. /\ input[t] = "awaited" /\ ok => t \in delivered
      /\ UNCHANGED <<delivered, outcome, webhookVars>>
  BY DEF SignalSettles, workerVars
<1>2. heard' = heard /\ persisted' = persisted /\ delivered' = delivered /\ outcome' = outcome
  BY DEF SignalSettles, workerVars, webhookVars
<1>3. PICK w \in {"accepted", "failed"} : /\ input' = [input EXCEPT ![t] = w]
                                          /\ w = "accepted" => currentTurnId' = currentTurnId
                                          /\ currentTurnId' \in {NoTurn, currentTurnId}
  BY DEF SignalSettles
<1>4. /\ input[t] = "awaited" /\ input \in [AgentTurns -> InputStates] /\ input'[t] = w
      /\ \A u \in AgentTurns : u # t => input'[u] = input[u]
  BY <1>3 DEF OrchestraIInv, TurnTypes, SignalSettles
<1>5. TurnTypes'
  <2>1. input' \in [AgentTurns -> InputStates]
    BY <1>3, <1>4 DEF InputStates
  <2>2. currentTurnId' \in 0..MaxAgentTurns
    BY <1>3, AgentSessionsAssumption DEF NoTurn, OrchestraIInv, TurnTypes, AgentSessionsAssumption
  <2> QED
    BY <1>2, <2>1, <2>2 DEF OrchestraIInv, TurnTypes
<1>6. DeliveredWasAsked' /\ ReportsAreTrue'
  BY <1>2, <1>4 DEF OrchestraIInv, TurnTypes, DeliveredWasAsked, ReportsAreTrue
<1>7. LockFollowsTurn'
  <2> SUFFICES ASSUME Disowned' = {}, NEW u \in AgentTurns,
                      input'[u] \in {"awaited", "accepted"}, currentTurnId' # u
               PROVE  \E j \in DOMAIN heard' :
                        /\ heard'[j].told /\ heard'[j].report.turn = u /\ heard'[j].report.kind \in EndKinds
                        /\ heard'[j].report.kind = "answer" => j \in persisted'
    BY DEF LockFollowsTurn
  <2>1. Disowned = {}
    BY <1>2, <1>4 DEF Disowned, OrchestraIInv, TurnTypes
  <2>2. currentTurnId # u
    <3>1. CASE w = "accepted"
      BY <1>3, <3>1
    <3>2. CASE w = "failed"
      <4>1. t \notin delivered
        BY <1>2, <1>4, <3>2 DEF Disowned
      <4>2. currentTurnId = t
        BY <1>4, <2>1, <4>1 DEF OrchestraIInv, LockFollowsTurn, ReportsAreTrue
      <4> QED
        BY <1>4, <3>2, <4>2
    <3> QED
      BY <3>1, <3>2
  <2>3. input[u] \in {"awaited", "accepted"}
    BY <1>4
  <2> QED
    BY <1>2, <2>1, <2>2, <2>3 DEF OrchestraIInv, LockFollowsTurn
<1> QED
  BY <1>5, <1>6, <1>7, WebhookRests DEF SignalSettles

\* The workflow and its workers.
LEMMA WorkersKeep ==
  ASSUME OrchestraIInv, NEW t \in AgentTurns,
         SignalArrives(t) \/ \E kind \in EndKinds : WorkerEnds(t, kind)
  PROVE  OrchestraIInv'
<1>1. UNCHANGED <<input, currentTurnId, heard, persisted>> /\ UNCHANGED webhookVars
  BY DEF SignalArrives, WorkerEnds, requestVars, webhookVars
<1>2. TurnTypes /\ DeliveredWasAsked /\ ReportsAreTrue /\ LockFollowsTurn
  BY DEF OrchestraIInv
<1>3. /\ TurnTypes' /\ DeliveredWasAsked' /\ ReportsAreTrue' /\ delivered \subseteq delivered'
  <2>1. CASE SignalArrives(t)
    <3>1. input[t] = "awaited" /\ delivered' = delivered \cup {t} /\ outcome' = outcome
      BY <2>1 DEF SignalArrives
    <3> QED
      BY <1>1, <1>2, <3>1 DEF TurnTypes, DeliveredWasAsked, ReportsAreTrue
  <2>2. CASE \E kind \in EndKinds : WorkerEnds(t, kind)
    <3>1. PICK kind \in EndKinds : WorkerEnds(t, kind)
      BY <2>2
    <3>2. outcome[t] = "none" /\ delivered' = delivered /\ outcome' = [outcome EXCEPT ![t] = kind]
      BY <3>1 DEF WorkerEnds, Running
    <3>3. TurnTypes' /\ DeliveredWasAsked'
      BY <1>1, <1>2, <3>2 DEF TurnTypes, DeliveredWasAsked
    <3>4. \A u \in AgentTurns : outcome[u] \in EndKinds => outcome'[u] = outcome[u]
      BY <1>2, <3>2 DEF TurnTypes, EndKinds
    <3>5. ReportsAreTrue'
      BY <1>1, <1>2, <3>2, <3>4 DEF TurnTypes, ReportsAreTrue
    <3> QED
      BY <3>2, <3>3, <3>5
  <2> QED
    BY <2>1, <2>2
<1>4. LockFollowsTurn'
  <2>1. Disowned' = {} => Disowned = {}
    BY <1>1, <1>3 DEF Disowned
  <2> QED
    BY <1>1, <1>2, <2>1 DEF LockFollowsTurn
<1> QED
  BY <1>1, <1>3, <1>4, WebhookRests

\* The answer of a turn is in the transcript, or could not be written there.
LEMMA AppendKeeps ==
  ASSUME OrchestraIInv, NEW i \in persisting, NEW ok \in BOOLEAN, AppendSettles(i, ok)
  PROVE  OrchestraIInv'
<1>1. /\ input' = input /\ delivered' = delivered /\ outcome' = outcome /\ heard' = heard
      /\ seenIds' = seenIds /\ persisting' = persisting \ {i}
      /\ persisted' \in {persisted, persisted \cup {i}}
      /\ currentTurnId' # currentTurnId =>
           /\ currentTurnId' = NoTurn /\ i \in persisted' /\ currentTurnId = heard[i].report.turn
  BY DEF AppendSettles, requestVars, workerVars, Freed
<1>2. TurnTypes'
  <2>1. currentTurnId' \in 0..MaxAgentTurns
    BY <1>1, AgentSessionsAssumption DEF NoTurn, OrchestraIInv, TurnTypes, AgentSessionsAssumption
  <2> QED
    BY <1>1, <2>1 DEF OrchestraIInv, TurnTypes
<1>3. WebhookTypes' /\ AppendsAreAnswers'
  <2>1. AppendsAreAnswers'
    BY <1>1, Zenon DEF OrchestraIInv, AppendsAreAnswers
  <2>2. WebhookTypes'
    BY <1>1 DEF OrchestraIInv, WebhookTypes
  <2> QED
    BY <2>1, <2>2
<1>4. DeliveredWasAsked' /\ ReportsAreTrue' /\ RepeatsAreSilent'
  <2>1. RepeatsAreSilent'
    BY <1>1, SilenceIsOfTheDeliveries DEF OrchestraIInv
  <2> QED
    BY <1>1, <2>1 DEF OrchestraIInv, DeliveredWasAsked, ReportsAreTrue
<1>5. LruHolds(seenIds, heard)'
  BY <1>1 DEF OrchestraIInv
<1>6. LockFollowsTurn'
  <2> SUFFICES ASSUME Disowned' = {}, NEW u \in AgentTurns,
                      input'[u] \in {"awaited", "accepted"}, currentTurnId' # u
               PROVE  \E j \in DOMAIN heard' :
                        /\ heard'[j].told /\ heard'[j].report.turn = u /\ heard'[j].report.kind \in EndKinds
                        /\ heard'[j].report.kind = "answer" => j \in persisted'
    BY DEF LockFollowsTurn
  <2>1. CASE currentTurnId = u
    <3>1. /\ i \in DOMAIN heard' /\ heard'[i].told /\ heard'[i].report.turn = u
          /\ heard'[i].report.kind = "answer" /\ i \in persisted'
      BY <1>1, <2>1 DEF OrchestraIInv, WebhookTypes, AppendsAreAnswers
    <3> QED
      BY <3>1 DEF EndKinds
  <2>2. CASE currentTurnId # u
    <3>1. Disowned = {}
      BY <1>1 DEF Disowned
    <3> QED
      BY <1>1, <2>2, <3>1 DEF OrchestraIInv, LockFollowsTurn
  <2> QED
    BY <2>1, <2>2
<1> QED
  BY <1>2, <1>3, <1>4, <1>5, <1>6 DEF OrchestraIInv

\* A report is told exactly when the LRU does not hold it, and so the deliveries stay
\* silent about repeats.
LEMMA SilenceKeeps ==
  ASSUME NEW r \in Deliveries, seenIds \in Seq(AgentReports), heard \in Seq(Deliveries),
         Len(seenIds) <= SeenCapacity, LruHolds(seenIds, heard), SilentIn(heard),
         r.told <=> ~HasSeen(r.report)
  PROVE  SilentIn(Append(heard, r))
<1>1. PICK n \in Nat : n = Len(heard)
  OBVIOUS
<1>2. PICK g : g = Append(heard, r)
  OBVIOUS
<1>3. /\ g \in Seq(Deliveries) /\ Len(g) = n + 1 /\ g[n + 1] = r
      /\ \A k \in 1..n : g[k] = heard[k]
      /\ DOMAIN heard = 1..n /\ DOMAIN g = 1..(n + 1)
  BY <1>1, <1>2
<1>4. \A i, j \in 1..(n + 1) :
        {g[k].report : k \in (i + 1)..(j - 1)} = {heard[k].report : k \in (i + 1)..(j - 1)}
  <2> SUFFICES ASSUME NEW i \in 1..(n + 1), NEW j \in 1..(n + 1)
               PROVE  {g[k].report : k \in (i + 1)..(j - 1)} = {heard[k].report : k \in (i + 1)..(j - 1)}
    OBVIOUS
  <2>1. \A k \in (i + 1)..(j - 1) : g[k] = heard[k]
    BY <1>3
  <2> QED
    BY <2>1
<1>5. ASSUME NEW j \in 1..n
      PROVE  g[j].told <=> ~\E i \in 1..(j - 1) :
               /\ g[i].report = g[j].report
               /\ Cardinality({g[k].report : k \in (i + 1)..(j - 1)}) < SeenCapacity
  <2>1. heard[j].told <=> ~\E i \in 1..(j - 1) :
          /\ heard[i].report = heard[j].report
          /\ Cardinality({heard[k].report : k \in (i + 1)..(j - 1)}) < SeenCapacity
    BY <1>3 DEF SilentIn
  <2>2. ASSUME NEW i \in 1..(j - 1)
        PROVE  /\ g[i] = heard[i]
               /\ {g[k].report : k \in (i + 1)..(j - 1)} = {heard[k].report : k \in (i + 1)..(j - 1)}
    <3>1. i \in 1..(n + 1) /\ j \in 1..(n + 1) /\ i \in 1..n
      BY <1>3
    <3> QED
      BY <1>3, <1>4, <3>1
  <2>3. g[j] = heard[j]
    BY <1>3
  <2> QED
    BY <2>1, <2>2, <2>3
<1>6. ASSUME NEW i \in 1..n
      PROVE  {g[k].report : k \in (i + 1)..n} = ReportsAfter(heard, i)
  <2>1. i \in 1..(n + 1) /\ n + 1 \in 1..(n + 1) /\ (n + 1) - 1 = n
    BY <1>3
  <2>2. {g[k].report : k \in (i + 1)..((n + 1) - 1)} = {heard[k].report : k \in (i + 1)..((n + 1) - 1)}
    BY <1>4, <2>1
  <2> QED
    BY <1>1, <2>1, <2>2 DEF ReportsAfter
<1>7. r.told <=> ~\E i \in 1..n :
        heard[i].report = r.report /\ Cardinality(ReportsAfter(heard, i)) < SeenCapacity
  <2>1. CASE HasSeen(r.report)
    <3>1. PICK m \in DOMAIN seenIds : seenIds[m] = r.report
      BY <2>1 DEF HasSeen
    <3>2. PICK i \in DOMAIN heard : heard[i].report = r.report /\ ReportsAfter(heard, i) = NewerIds(seenIds, m)
      BY <3>1 DEF LruHolds
    <3>3. Cardinality(NewerIds(seenIds, m)) < SeenCapacity
      <4>1. PICK L \in Nat : Len(seenIds) = L
        OBVIOUS
      <4>2. m \in 1..L /\ L <= SeenCapacity /\ SeenCapacity \in Nat
        BY <3>1, <4>1, AgentSessionsAssumption DEF AgentSessionsAssumption
      <4> DEFINE T == {seenIds[k] : k \in (m + 1)..L}
      <4>3. /\ m + 1 <= L => Cardinality(T) <= L - (m + 1) + 1
            /\ m + 1 > L => Cardinality(T) = 0
            /\ IsFiniteSet(T)
        <5>1. m + 1 \in Nat /\ m + 1 >= 1 /\ L <= Len(seenIds)
          BY <4>1, <4>2
        <5> QED
          BY <5>1, ImageIsFinite
      <4>4. Cardinality(T) \in Nat
        BY <4>3, FS_CardinalityType
      <4>5. NewerIds(seenIds, m) = T
        BY <4>1 DEF NewerIds
      <4> HIDE DEF T
      <4> QED
        BY <4>2, <4>3, <4>4, <4>5
    <3> QED
      BY <1>3, <2>1, <3>2, <3>3
  <2>2. CASE ~HasSeen(r.report)
    <3>1. ASSUME NEW i \in 1..n, heard[i].report = r.report
          PROVE  Cardinality(ReportsAfter(heard, i)) >= SeenCapacity
      <4>1. \A m \in DOMAIN seenIds : seenIds[m] # heard[i].report
        BY <2>2, <3>1 DEF HasSeen
      <4> QED
        BY <1>3, <4>1 DEF LruHolds
    <3>2. ASSUME NEW i \in 1..n PROVE Cardinality(ReportsAfter(heard, i)) \in Nat
      BY <1>1, ReportsAreFinite
    <3>3. SeenCapacity \in Nat
      BY AgentSessionsAssumption DEF AgentSessionsAssumption
    <3>4. \A i \in 1..n : heard[i].report = r.report
            => ~(Cardinality(ReportsAfter(heard, i)) < SeenCapacity)
      BY <3>1, <3>2, <3>3
    <3> QED
      BY <2>2, <3>4
  <2> QED
    BY <2>1, <2>2
<1>8. g[n + 1].told <=> ~\E i \in 1..n :
        /\ g[i].report = g[n + 1].report
        /\ Cardinality({g[k].report : k \in (i + 1)..n}) < SeenCapacity
  BY <1>3, <1>6, <1>7
<1>9. ASSUME NEW j \in 1..(n + 1)
      PROVE  g[j].told <=> ~\E i \in 1..(j - 1) :
               /\ g[i].report = g[j].report
               /\ Cardinality({g[k].report : k \in (i + 1)..(j - 1)}) < SeenCapacity
  <2>1. CASE j = n + 1
    <3>1. j - 1 = n
      BY <2>1
    <3> QED
      BY <1>8, <2>1, <3>1
  <2>2. CASE j \in 1..n
    BY <1>5, <2>2
  <2>3. j = n + 1 \/ j \in 1..n
    OBVIOUS
  <2> QED
    BY <2>1, <2>2, <2>3, Zenon
<1>10. SilentIn(g)
  <2>1. DOMAIN g = 1..(n + 1)
    BY <1>3
  <2> QED
    BY <1>9, <2>1, Zenon DEF SilentIn
<1> QED
  BY <1>2, <1>10

\* A report is delivered.
LEMMA ProgressKeeps ==
  ASSUME OrchestraIInv, NEW e \in Reports, ProgressArrives(e)
  PROVE  OrchestraIInv'
<1>1. /\ TurnTypes /\ WebhookTypes /\ DeliveredWasAsked /\ ReportsAreTrue /\ AppendsAreAnswers
      /\ LockFollowsTurn /\ LruHolds(seenIds, heard) /\ SilentIn(heard)
  BY SilenceIsOfTheDeliveries DEF OrchestraIInv
<1>2. /\ e \in AgentReports /\ e.turn \in delivered
      /\ e.kind \in EndKinds => outcome[e.turn] = e.kind
  <2>1. CASE e \in {ReportOf(t, "stage") : t \in {u \in delivered : \A v \in 1..(u - 1) : ~Running(v)}}
    BY <1>1, <2>1 DEF ReportOf, TurnTypes, AgentReports, EndKinds
  <2>2. CASE e \in {ReportOf(t, outcome[t]) : t \in {u \in delivered : ~Running(u)}}
    <3>1. PICK t \in delivered : ~Running(t) /\ e = ReportOf(t, outcome[t])
      BY <2>2
    <3>2. outcome[t] \in EndKinds
      BY <1>1, <3>1 DEF Running, TurnTypes
    <3> QED
      BY <1>1, <3>1, <3>2 DEF ReportOf, TurnTypes, AgentReports
  <2> QED
    BY <2>1, <2>2 DEF Reports
<1>3. PICK r : r = [report |-> e, told |-> ~HasSeen(e)]
  OBVIOUS
<1>4. r \in Deliveries /\ r.report = e /\ (r.told <=> ~HasSeen(e))
  BY <1>2, <1>3, Zenon DEF Deliveries
<1>5. PICK n \in Nat : n = Len(heard) /\ DOMAIN heard = 1..n
  BY <1>1 DEF WebhookTypes
<1>6. /\ seenIds' = SeenAfter(e) /\ heard' = Append(heard, r) /\ persisted' = persisted
      /\ input' = input /\ delivered' = delivered /\ outcome' = outcome
  BY <1>3 DEF ProgressArrives, requestVars, workerVars
<1>7. persisting' = IF r.told /\ e.kind = "answer" THEN persisting \cup {n + 1} ELSE persisting
  <2>1. persisting' = IF ~HasSeen(e) /\ e.kind = "answer"
                      THEN persisting \cup {Len(heard) + 1} ELSE persisting
    BY Zenon DEF ProgressArrives
  <2> QED
    BY <1>4, <1>5, <2>1
<1>8. /\ currentTurnId' # currentTurnId =>
           currentTurnId' = NoTurn /\ r.told /\ e.kind = "failure" /\ currentTurnId = e.turn
  <2>1. currentTurnId' = IF ~HasSeen(e) /\ e.kind = "failure" THEN Freed(e.turn) ELSE currentTurnId
    BY Zenon DEF ProgressArrives
  <2> QED
    BY <1>4, <2>1 DEF Freed
<1>9. PICK g : g = Append(heard, r)
  OBVIOUS
<1>10. /\ g \in Seq(Deliveries) /\ Len(g) = n + 1 /\ g[n + 1] = r
       /\ \A k \in 1..n : g[k] = heard[k]
       /\ DOMAIN g = 1..(n + 1)
  BY <1>1, <1>4, <1>5, <1>9 DEF WebhookTypes
<1>11. heard' = g
  BY <1>6, <1>9
<1>12. /\ seenIds' \in Seq(AgentReports) /\ Len(seenIds') <= SeenCapacity
       /\ LruHolds(seenIds', heard')
  BY <1>1, <1>4, <1>6, SeenKeeps DEF WebhookTypes
<1>13. SilentIn(heard')
  BY <1>1, <1>4, <1>6, SilenceKeeps DEF WebhookTypes
<1>14. TurnTypes'
  <2>1. currentTurnId' \in 0..MaxAgentTurns
    BY <1>1, <1>8, AgentSessionsAssumption DEF NoTurn, TurnTypes, AgentSessionsAssumption
  <2> QED
    BY <1>1, <1>6, <2>1 DEF TurnTypes
<1>15. WebhookTypes'
  <2>1. n + 1 \notin persisted /\ persisting \subseteq 1..n /\ persisted \subseteq 1..n
        /\ persisting \cap persisted = {}
    BY <1>1, <1>5 DEF WebhookTypes
  <2>2. persisting' \subseteq 1..(n + 1) /\ persisted' \subseteq 1..(n + 1)
    BY <1>6, <1>7, <2>1
  <2>3. persisting' \cap persisted' = {}
    BY <1>6, <1>7, <2>1
  <2> QED
    BY <1>10, <1>11, <1>12, <2>2, <2>3 DEF WebhookTypes
<1>16. DeliveredWasAsked'
  BY <1>1, <1>6 DEF DeliveredWasAsked
<1>17. ReportsAreTrue'
  <2> SUFFICES ASSUME NEW j \in 1..(n + 1)
               PROVE  /\ g[j].report.turn \in delivered
                      /\ g[j].report.kind \in EndKinds => outcome[g[j].report.turn] = g[j].report.kind
    BY <1>6, <1>10, <1>11 DEF ReportsAreTrue
  <2>1. CASE j = n + 1
    BY <1>2, <1>4, <1>10, <2>1
  <2>2. CASE j \in 1..n
    BY <1>1, <1>5, <1>10, <2>2 DEF ReportsAreTrue
  <2> QED
    BY <2>1, <2>2
<1>18. AppendsAreAnswers'
  <2> SUFFICES ASSUME NEW j \in persisting' PROVE g[j].told /\ g[j].report.kind = "answer"
    BY <1>11 DEF AppendsAreAnswers
  <2>1. CASE j \in persisting
    <3>1. j \in 1..n
      BY <1>1, <1>5, <2>1 DEF WebhookTypes
    <3> QED
      BY <1>1, <1>10, <2>1, <3>1 DEF AppendsAreAnswers
  <2>2. CASE j \notin persisting
    <3>1. j = n + 1 /\ r.told /\ e.kind = "answer"
      BY <1>7, <2>2
    <3> QED
      BY <1>4, <1>10, <3>1
  <2> QED
    BY <2>1, <2>2
<1>19. LockFollowsTurn'
  <2> SUFFICES ASSUME Disowned' = {}, NEW u \in AgentTurns,
                      input'[u] \in {"awaited", "accepted"}, currentTurnId' # u
               PROVE  \E j \in DOMAIN g :
                        /\ g[j].told /\ g[j].report.turn = u /\ g[j].report.kind \in EndKinds
                        /\ g[j].report.kind = "answer" => j \in persisted
    BY <1>6, <1>11 DEF LockFollowsTurn
  <2>1. CASE currentTurnId = u
    <3>1. /\ n + 1 \in DOMAIN g /\ g[n + 1].told /\ g[n + 1].report.turn = u
          /\ g[n + 1].report.kind = "failure"
      BY <1>4, <1>8, <1>10, <2>1
    <3> QED
      BY <3>1 DEF EndKinds
  <2>2. CASE currentTurnId # u
    <3>1. Disowned = {} /\ input[u] \in {"awaited", "accepted"}
      BY <1>6 DEF Disowned
    <3>2. PICK j \in DOMAIN heard :
            /\ heard[j].told /\ heard[j].report.turn = u /\ heard[j].report.kind \in EndKinds
            /\ heard[j].report.kind = "answer" => j \in persisted
      BY <1>1, <2>2, <3>1 DEF LockFollowsTurn
    <3>3. j \in DOMAIN g /\ g[j] = heard[j]
      BY <1>5, <1>10
    <3> QED
      BY <3>2, <3>3
  <2> QED
    BY <2>1, <2>2
<1> QED
  BY <1>12, <1>13, <1>14, <1>15, <1>16, <1>17, <1>18, <1>19, SilenceIsOfTheDeliveries
  DEF OrchestraIInv

LEMMA OrchestraStep == OrchestraIInv /\ [AgentsNext]_orchestraVars => OrchestraIInv'
<1> SUFFICES ASSUME OrchestraIInv, [AgentsNext]_orchestraVars PROVE OrchestraIInv'
  OBVIOUS
<1>1. CASE UNCHANGED orchestraVars
  <2>1. UNCHANGED <<currentTurnId, input, delivered, outcome, heard, persisted>>
        /\ UNCHANGED webhookVars
    BY <1>1 DEF orchestraVars, webhookVars
  <2>2. TurnTypes' /\ DeliveredWasAsked' /\ ReportsAreTrue'
    BY <2>1 DEF OrchestraIInv, TurnTypes, DeliveredWasAsked, ReportsAreTrue
  <2>3. LockFollowsTurn'
    BY <2>1 DEF OrchestraIInv, LockFollowsTurn, Disowned
  <2> QED
    BY <2>1, <2>2, <2>3, WebhookRests
<1>2. CASE AgentsNext
  BY <1>2, OrchestraStarts, InputKeeps, SignalKeeps, WorkersKeep, AppendKeeps, ProgressKeeps
  DEF AgentsNext
<1> QED
  BY <1>1, <1>2

LEMMA OrchestraImplies == OrchestraIInv => OrchestraInv
<1> SUFFICES ASSUME OrchestraIInv PROVE OrchestraInv
  OBVIOUS
<1>1. OrchestraTypeOK
  BY DEF OrchestraIInv, TurnTypes, WebhookTypes, OrchestraTypeOK
<1>2. OneTurnAtATime
  <2> SUFFICES ASSUME Disowned = {}
               PROVE  Cardinality({t \in AgentTurns : Running(t)}) <= 1
    BY DEF OneTurnAtATime
  <2>1. ASSUME NEW t \in AgentTurns, Running(t) PROVE t = currentTurnId
    <3>1. input[t] \in {"awaited", "accepted"}
      BY <2>1 DEF Running, Disowned, OrchestraIInv, DeliveredWasAsked
    <3>2. outcome[t] \notin EndKinds
      BY <2>1 DEF Running, EndKinds
    <3> QED
      BY <3>1, <3>2 DEF OrchestraIInv, LockFollowsTurn, ReportsAreTrue
  <2>2. {t \in AgentTurns : Running(t)} \in SUBSET {currentTurnId}
    BY <2>1
  <2>3. IsFiniteSet({currentTurnId}) /\ Cardinality({currentTurnId}) = 1
    BY FS_Singleton
  <2> QED
    BY <2>2, <2>3, FS_Subset
<1> QED
  BY <1>1, <1>2 DEF OrchestraIInv, OrchestraInv

-----------------------------------------------------------------------------
(* The parts side by side.                                                 *)

LEMMA SessionsStep ==
  ASSUME [ServicesNext]_servicesVars
  PROVE  /\ [BootNext]_bootVars /\ [RecordNext]_recordVars /\ [ClaimNext]_claimVars
         /\ [CodexNext]_codexVars /\ [CursorNext]_cursorVars /\ [CopilotNext]_copilotVars
         /\ [AgentsNext]_orchestraVars
<1>1. CASE UNCHANGED servicesVars
  BY <1>1 DEF servicesVars, sessionGroup
<1>2. CASE ServicesNext
  BY <1>2, Zenon DEF ServicesNext, sessionGroup
<1> QED
  BY <1>1, <1>2

\* Whatever the restarts and the machine do, what a run that was cut short owes is
\* offered again, a stub holds no process, and the lifecycle that clients are told is
\* the session's (session-registry-boot.ts, session-store.ts).
THEOREM StoreHolds == ServicesSpec => []StoreInv
<1>1. ServicesInit => BootIInv /\ RecordIInv
  BY BootStarts, RecordStarts DEF ServicesInit
<1>2. BootIInv /\ RecordIInv /\ [ServicesNext]_servicesVars => BootIInv' /\ RecordIInv'
  BY SessionsStep, BootStep, RecordStep
<1>3. BootIInv /\ RecordIInv => StoreInv
  BY BootImplies, RecordImplies DEF StoreInv
<1> QED
  BY <1>1, <1>2, <1>3, PTL DEF ServicesSpec

\* Whatever the agent and its user do, a session that is reported running has an end to
\* come, every Enter submits one text in the order they were sent, and the reports of a
\* multi-agent session are true, answered and heard once (codex-pty-runner.ts,
\* cursor-pty-runner.ts, copilot-pty-runner.ts, src/agents).
THEOREM AgentsHold == ServicesSpec => []AgentsInv
<1>1. ServicesInit => CodexIInv /\ CursorIInv /\ CopilotIInv /\ OrchestraIInv
  BY CodexBegins, CursorBegins, CopilotBegins, OrchestraBegins DEF ServicesInit
<1>2. CodexIInv /\ CursorIInv /\ CopilotIInv /\ OrchestraIInv /\ [ServicesNext]_servicesVars
        => CodexIInv' /\ CursorIInv' /\ CopilotIInv' /\ OrchestraIInv'
  BY SessionsStep, CodexStep, CursorStep, CopilotStep, OrchestraStep
<1>3. CodexIInv /\ CursorIInv /\ CopilotIInv /\ OrchestraIInv => AgentsInv
  BY CodexImplies, CursorImplies, OrchestraImplies DEF AgentsInv, CopilotIInv
<1> QED
  BY <1>1, <1>2, <1>3, PTL DEF ServicesSpec
=============================================================================
