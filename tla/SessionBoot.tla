---------------------------- MODULE SessionBoot ----------------------------
(***************************************************************************)
(* The durable session registry over the runs of the streamer              *)
(* (src/src/session-registry-boot.ts with services/sessions/ and the       *)
(* managed_sessions table): what one run writes about the sessions it      *)
(* spawned, and what the next one makes of it.                             *)
(*                                                                         *)
(* An agent outlives a streamer that crashes, and its pid may be taken by  *)
(* another process once it is gone.  The recovery of a boot runs beside    *)
(* the listener: clients start and resume sessions while it probes.  Time  *)
(* is the age of a row, in the windows the code has: 0 within 15 minutes   *)
(* (auto-resume), 1 within 7 days (rehydration), 2 within 30 days, 3 older *)
(* (retention).  Rows age while the streamer is down.                      *)
(***************************************************************************)
EXTENDS Integers, FiniteSets

CONSTANTS
  BootSessions,  \* session ids
  CodexSessions, \* those of Codex, whose rollout id is known only once bound
  Pids,          \* process ids of the machine
  AutoMax,       \* AUTO_RESUME_MAX
  MaxRuns,       \* boots of the streamer
  MaxReboots,    \* reboots of the machine
  MaxSpawns      \* agents spawned

ASSUME BootConstantsAssumption ==
  /\ CodexSessions \subseteq BootSessions
  /\ AutoMax \in Nat /\ MaxRuns \in Nat \ {0} /\ MaxReboots \in Nat /\ MaxSpawns \in Nat

VARIABLES
  rows,        \* managed_sessions
  procs,       \* what runs under each pid: "none", an agent, or a stranger
  machine,     \* the boot token of the machine
  phase,       \* "down", "probing", "resuming", "recovered"
  runs,        \* boots so far
  spawns,      \* agents spawned so far
  probes,      \* the rows listed at boot and not classified yet
  verdicts,    \* what the probes found, until it is applied
  attempts,    \* rows auto-resume will still try
  resumes,     \* resumes past the check for a running session
  live,        \* the pid of each session this run holds, 0 for none
  stubs,       \* sessions rehydrated into the store
  owed         \* sessions cut short whose rows could bring them back

bootVars == <<rows, procs, machine, phase, runs, spawns, probes, verdicts, attempts,
              resumes, live, stubs, owed>>

NoRow == [pid |-> -1]
NoVerdict == "none"

\* Other processes: one has the project path of a Codex session in its arguments.
Strangers == {"unrelated", "sameProject"}

Rows ==
  [pid: Pids, token: {"id", "project"}, boot: 0..MaxReboots,
   status: {"running", "waiting_input", "idle"},
   src: {"spawn", "transition", "exit", "shutdown", "reconcile"},
   done: BOOLEAN, failure: BOOLEAN, prompted: BOOLEAN, bound: BOOLEAN, age: 0..3]

HasRow(s) == rows[s] # NoRow
Live(s) == live[s] # 0
Up == phase # "down"
FreePids == {p \in Pids : procs[p] = "none"}

\* resumeIdForRow
Resumable(s, r) == s \in CodexSessions => r.bound

\* isPidAlive, then the recorded token among the arguments of the process.
Claims(s, r) ==
  procs[r.pid] = s \/ (r.token = "project" /\ procs[r.pid] = "sameProject")

\* The verdict of classifySession on a row that is not complete.
ResumableOrFailed(s, r) == IF Resumable(s, r) THEN "resumable" ELSE "failed"
Classification(s, r) ==
  CASE r.boot # machine -> ResumableOrFailed(s, r)
    [] r.boot = machine /\ procs[r.pid] = "none" ->
         IF r.failure THEN "failed" ELSE ResumableOrFailed(s, r)
    [] r.boot = machine /\ procs[r.pid] # "none" ->
         IF Claims(s, r) THEN "detached" ELSE "orphaned"

\* listRecoverable with its window
\* Mutant: only the rows the reconciler probes.
RecoverableOpen(r) == ~r.done /\ r.age <= 1
Recoverable(r) == (~r.done \/ r.src = "shutdown") /\ r.age <= 1

\* rehydrateSkipReason for a row listRecoverable gave: no transcript, or no id to
\* resume by.  The caller deletes the row of the first.
NeverPrompted(r) == ~r.prompted
Skipped(s, r) == NeverPrompted(r) \/ ~Resumable(s, r)

\* autoResumeSkipReason
AutoEligible(s, r) ==
  /\ r.src = "shutdown" /\ r.status # "idle" /\ r.age = 0
  /\ Resumable(s, r) /\ r.prompted
-----------------------------------------------------------------------------
BootInit ==
  /\ rows = [s \in BootSessions |-> NoRow]
  /\ procs = [p \in Pids |-> "none"]
  /\ machine = 0 /\ phase = "recovered" /\ runs = 1 /\ spawns = 0
  /\ probes = {} /\ verdicts = [s \in BootSessions |-> NoVerdict]
  /\ attempts = {} /\ resumes = {}
  /\ live = [s \in BootSessions |-> 0] /\ stubs = {} /\ owed = {}

\* ptyManager.start, addManaged over the stub, and recordSessionSpawn.
Spawned(s, p, bound, prompted) ==
  /\ procs' = [procs EXCEPT ![p] = s]
  /\ live' = [live EXCEPT ![s] = p]
  /\ stubs' = stubs \ {s}
  /\ owed' = owed \ {s}
  /\ spawns' = spawns + 1
  /\ rows' = [rows EXCEPT ![s] =
       [pid |-> p, token |-> IF s \in CodexSessions /\ ~bound THEN "project" ELSE "id",
        boot |-> machine, status |-> "running", src |-> "spawn", done |-> FALSE,
        failure |-> FALSE, prompted |-> prompted, bound |-> bound, age |-> 0]]

StartSession(s, p) ==
  /\ Up /\ ~Live(s) /\ ~HasRow(s) /\ s \notin stubs
  /\ p \in FreePids /\ spawns < MaxSpawns
  /\ Spawned(s, p, s \notin CodexSessions, FALSE)
  /\ UNCHANGED <<machine, phase, runs, probes, verdicts, attempts, resumes>>

\* resumeSession up to resolveConversationTarget: a running session is the answer,
\* and one without a transcript cannot be resumed.
AskResume(s) ==
  /\ Up /\ ~Live(s) /\ HasRow(s) /\ rows[s].prompted /\ Resumable(s, rows[s])
  /\ s \notin resumes /\ spawns < MaxSpawns
  /\ resumes' = resumes \cup {s}
  /\ UNCHANGED <<rows, procs, machine, phase, runs, spawns, probes, verdicts, attempts,
                 live, stubs, owed>>

\* The rest of resumeSession, past its awaits.  The collision check is best effort
\* and may be forced, so an agent that survived a crash does not rule this out.  A
\* session started meanwhile is joined by the runner.
CompleteResume(s, p) ==
  /\ s \in resumes
  /\ resumes' = resumes \ {s} /\ attempts' = attempts \ {s}
  /\ IF Live(s)
     THEN UNCHANGED <<rows, procs, spawns, live, stubs, owed>>
     ELSE p \in FreePids /\ spawns < MaxSpawns /\ Spawned(s, p, TRUE, TRUE)
  /\ UNCHANGED <<machine, phase, runs, probes, verdicts>>

\* conversation_busy
RefuseResume(s) ==
  /\ s \in resumes /\ ~Live(s)
  /\ resumes' = resumes \ {s} /\ attempts' = attempts \ {s}
  /\ UNCHANGED <<rows, procs, machine, phase, runs, spawns, probes, verdicts, live, stubs,
                 owed>>

\* onStatusChange of a live session, whose every write says that it is not complete.
\* A failure reason once written stays, a null does not clear it.
StatusChange(s, status, failure) ==
  /\ Up /\ Live(s) /\ HasRow(s)
  /\ rows' = [rows EXCEPT ![s].status = status, ![s].src = "transition",
                          ![s].done = FALSE, ![s].age = 0,
                          ![s].prompted = @ \/ status = "running",
                          ![s].failure = @ \/ failure]
  /\ UNCHANGED <<procs, machine, phase, runs, spawns, probes, verdicts, attempts, resumes,
                 live, stubs, owed>>

\* recordBinding, when the rollout of a prompted Codex session is found.
RecordBinding(s) ==
  /\ Up /\ Live(s) /\ HasRow(s) /\ s \in CodexSessions
  /\ rows[s].prompted /\ ~rows[s].bound
  /\ rows' = [rows EXCEPT ![s].bound = TRUE]
  /\ UNCHANGED <<procs, machine, phase, runs, spawns, probes, verdicts, attempts, resumes,
                 live, stubs, owed>>

\* The agent ends, or is put on hold: onStatusChange with a completion.
AgentExits(s) ==
  /\ Up /\ Live(s)
  /\ procs' = [procs EXCEPT ![live[s]] = "none"]
  /\ live' = [live EXCEPT ![s] = 0]
  /\ rows' = IF HasRow(s)
             THEN [rows EXCEPT ![s].status = "idle", ![s].src = "exit", ![s].done = TRUE,
                               ![s].age = 0]
             ELSE rows
  /\ UNCHANGED <<machine, phase, runs, spawns, probes, verdicts, attempts, resumes, stubs,
                 owed>>

\* Stopping a session nobody prompted: forgetSession takes its row with it.
ForgetEmpty(s) ==
  /\ Up /\ Live(s) /\ HasRow(s) /\ ~rows[s].prompted
  /\ procs' = [procs EXCEPT ![live[s]] = "none"]
  /\ live' = [live EXCEPT ![s] = 0]
  /\ rows' = [rows EXCEPT ![s] = NoRow]
  /\ owed' = owed \ {s}
  /\ UNCHANGED <<machine, phase, runs, spawns, probes, verdicts, attempts, resumes, stubs>>
-----------------------------------------------------------------------------
\* The run ends.  What it held is owed to the user at the next boot if the row as it
\* stands allows it: the agent was prompted, can be resumed by some id, and no
\* failure is on record.  A verdict that stamped the row while the session ran
\* (Recover below) has taken that away.
CutShort(s) ==
  /\ Live(s) /\ HasRow(s)
  /\ rows[s].prompted /\ Resumable(s, rows[s]) /\ ~rows[s].failure
  /\ rows[s].src # "reconcile"

RunEnds ==
  /\ Up /\ phase' = "down"
  /\ owed' = owed \cup {s \in BootSessions : CutShort(s)}
  /\ live' = [s \in BootSessions |-> 0]
  /\ stubs' = {} /\ probes' = {} /\ attempts' = {} /\ resumes' = {}
  /\ verdicts' = [s \in BootSessions |-> NoVerdict]
  /\ UNCHANGED <<machine, runs, spawns>>

\* A crash leaves the agents running and the rows as they are.
Crash == RunEnds /\ UNCHANGED <<rows, procs>>

\* close: recordShutdownState with the live status, then dispose kills the agents.
CleanClose ==
  /\ RunEnds
  /\ rows' = [s \in BootSessions |->
                IF Live(s) /\ HasRow(s)
                THEN [rows[s] EXCEPT !.src = "shutdown", !.done = TRUE, !.age = 0]
                ELSE rows[s]]
  /\ procs' = [p \in Pids |-> IF \E s \in BootSessions : live[s] = p THEN "none"
                                                                     ELSE procs[p]]

Reboot ==
  /\ phase = "down" /\ machine < MaxReboots
  /\ machine' = machine + 1
  /\ procs' = [p \in Pids |-> "none"]
  /\ UNCHANGED <<rows, phase, runs, spawns, probes, verdicts, attempts, resumes, live,
                 stubs, owed>>

\* A survivor ends by itself; a stranger comes and goes.
ProcessEnds(p) ==
  /\ procs[p] # "none" /\ (\A s \in BootSessions : live[s] # p)
  /\ procs' = [procs EXCEPT ![p] = "none"]
  /\ UNCHANGED <<rows, machine, phase, runs, spawns, probes, verdicts, attempts, resumes,
                 live, stubs, owed>>

StrangerStarts(p, x) ==
  /\ phase = "down" /\ p \in FreePids
  /\ procs' = [procs EXCEPT ![p] = x]
  /\ UNCHANGED <<rows, machine, phase, runs, spawns, probes, verdicts, attempts, resumes,
                 live, stubs, owed>>

TimePasses ==
  /\ phase = "down"
  /\ \E s \in BootSessions : HasRow(s) /\ rows[s].age < 3
  /\ rows' = [s \in BootSessions |->
                IF HasRow(s) /\ rows[s].age < 3 THEN [rows[s] EXCEPT !.age = @ + 1]
                                                ELSE rows[s]]
  /\ owed' = {s \in owed : HasRow(s) /\ rows'[s].age <= 1}
  /\ UNCHANGED <<procs, machine, phase, runs, spawns, probes, verdicts, attempts, resumes,
                 live, stubs>>
-----------------------------------------------------------------------------
\* listen: the probe set is read, and the recovery goes on beside the listener.
Boot ==
  /\ phase = "down" /\ runs < MaxRuns
  /\ phase' = "probing" /\ runs' = runs + 1
  /\ probes' = {[id |-> s, row |-> rows[s]] :
                  s \in {t \in BootSessions : HasRow(t) /\ ~rows[t].done}}
  /\ UNCHANGED <<rows, procs, machine, spawns, verdicts, attempts, resumes, live, stubs,
                 owed>>

\* classifySession of one row as it was listed.
Classify(q) ==
  /\ phase = "probing" /\ q \in probes
  /\ probes' = probes \ {q}
  /\ verdicts' = [verdicts EXCEPT ![q.id] = Classification(q.id, q.row)]
  /\ UNCHANGED <<rows, procs, machine, phase, runs, spawns, attempts, resumes, live,
                 stubs, owed>>

\* The end of reconcilePreviousSessions: a failed verdict completes the row.
Reconciled(s) ==
  IF verdicts[s] = "failed" /\ HasRow(s)
  THEN [rows[s] EXCEPT !.status = "idle", !.src = "reconcile", !.done = TRUE, !.age = 0]
  ELSE rows[s]

\* rehydratePreviousSessions: what is in the store is live and authoritative, the row
\* of an empty session goes, the rest become stubs.
\* Mutant: the store is not asked.
RehydrateDeletesUnasked(s, r) == r # NoRow /\ Recoverable(r) /\ NeverPrompted(r)
RehydrateDeletes(s, r) ==
  r # NoRow /\ Recoverable(r) /\ ~Live(s) /\ NeverPrompted(r)

Rehydrated(s, r) == r # NoRow /\ Recoverable(r) /\ ~Live(s) /\ ~Skipped(s, r)

\* All verdicts are in: they are applied, the list is rehydrated and the auto-resume
\* is planned over the same rows, at most AutoMax of them.
Recover ==
  /\ phase = "probing" /\ probes = {}
  /\ LET after == [s \in BootSessions |-> Reconciled(s)]
         eligible == {s \in BootSessions :
                        after[s] # NoRow /\ Recoverable(after[s]) /\ AutoEligible(s, after[s])}
     IN /\ rows' = [s \in BootSessions |->
                      IF RehydrateDeletes(s, after[s]) THEN NoRow ELSE after[s]]
        /\ stubs' = stubs \cup {s \in BootSessions : Rehydrated(s, after[s])}
        /\ \E plan \in SUBSET eligible :
             /\ Cardinality(plan) <= AutoMax
             /\ plan # eligible => Cardinality(plan) = AutoMax
             /\ attempts' = plan
  /\ phase' = "resuming"
  /\ verdicts' = [s \in BootSessions |-> NoVerdict]
  /\ UNCHANGED <<procs, machine, runs, spawns, probes, resumes, live, owed>>

\* One attempt, which goes the way of a client's resume and settles with it.
AutoResume(s) ==
  /\ phase = "resuming" /\ s \in attempts \ resumes
  /\ IF Live(s) \/ spawns = MaxSpawns
     THEN attempts' = attempts \ {s} /\ UNCHANGED resumes
     ELSE resumes' = resumes \cup {s} /\ UNCHANGED attempts
  /\ UNCHANGED <<rows, procs, machine, phase, runs, spawns, probes, verdicts, live, stubs,
                 owed>>

\* The attempts have settled: pruneTerminalSessions.
Prune ==
  /\ phase = "resuming" /\ attempts = {}
  /\ phase' = "recovered"
  /\ rows' = [s \in BootSessions |->
                IF HasRow(s) /\ rows[s].done /\ rows[s].age = 3 THEN NoRow ELSE rows[s]]
  /\ UNCHANGED <<procs, machine, runs, spawns, probes, verdicts, attempts, resumes, live,
                 stubs, owed>>

BootNext ==
  \/ \E s \in BootSessions :
       \/ \E p \in Pids : StartSession(s, p) \/ CompleteResume(s, p)
       \/ AskResume(s) \/ RefuseResume(s)
       \/ \E status \in {"running", "waiting_input"}, f \in BOOLEAN :
            StatusChange(s, status, f)
       \/ RecordBinding(s) \/ AgentExits(s) \/ ForgetEmpty(s)
       \/ AutoResume(s)
  \/ Crash \/ CleanClose \/ Reboot \/ TimePasses
  \/ \E p \in Pids : ProcessEnds(p) \/ \E x \in Strangers : StrangerStarts(p, x)
  \/ Boot \/ Recover \/ Prune
  \/ \E q \in probes : Classify(q)

BootSpec == BootInit /\ [][BootNext]_bootVars
-----------------------------------------------------------------------------
BootTypeOK ==
  /\ \A s \in BootSessions : rows[s] \in Rows \cup {NoRow}
  /\ procs \in [Pids -> BootSessions \cup Strangers \cup {"none"}]
  /\ machine \in 0..MaxReboots /\ runs \in 0..MaxRuns /\ spawns \in 0..MaxSpawns
  /\ phase \in {"down", "probing", "resuming", "recovered"}
  /\ live \in [BootSessions -> Pids \cup {0}]
  /\ \A s \in BootSessions : verdicts[s] \in
       {NoVerdict, "resumable", "failed", "detached", "orphaned"}
  /\ attempts \subseteq BootSessions /\ resumes \subseteq BootSessions
  /\ stubs \subseteq BootSessions /\ owed \subseteq BootSessions

\* Once the recovery of a boot has passed, every session that an earlier run of the
\* last seven days was cut short in is back in the list, live or as a stub, however
\* many crashes, clean closes and interrupted boots lie between
\* (SessionRegistryBoot.recordShutdownState, listRecoverable, rehydratePreviousSessions).
CutShortIsOffered ==
  phase \in {"resuming", "recovered"} =>
    \A s \in owed : Live(s) \/ s \in stubs

\* A stub never stands beside the live session of its id.
StubsHoldNoProcess == \A s \in stubs : ~Live(s)

BootInv == BootTypeOK /\ CutShortIsOffered /\ StubsHoldNoProcess

\* Neither the recovery of a boot nor retention takes the row of a session that runs
\* by then: the row goes only when the user stops a session nobody prompted
\* (rehydratePreviousSessions, pruneTerminalSessions, forgetSession).
RowOfLiveKept ==
  [][\A s \in BootSessions : HasRow(s) /\ Live(s) /\ live'[s] = live[s] => rows'[s] # NoRow]_bootVars
=============================================================================
