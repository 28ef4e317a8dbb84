---------------------------- MODULE AgentSessions ----------------------------
(***************************************************************************)
(* A session of the multi-agent mode: POST /api/sessions/start and         *)
(* /:id/input (src/src/agent/), which signal a workflow of Temporal, and   *)
(* the webhook its workers report to                                       *)
(* (src/src/api/routes/progress.routes.ts).                                *)
(*                                                                         *)
(* `currentTurnId` is the session's lock: one turn at a time.  A call to   *)
(* Temporal may fail though it was carried out, and a worker repeats a     *)
(* report whose answer it did not get, in any order with the others.       *)
(***************************************************************************)
EXTENDS Integers, Sequences, FiniteSets, SequencesExt

CONSTANTS
  MaxAgentTurns,   \* bound: inputs that get a turn id
  SeenCapacity,    \* dedupe.perSessionCapacity
  MaxReports       \* bound: deliveries of reports

ASSUME AgentSessionsAssumption ==
  MaxAgentTurns \in Nat /\ SeenCapacity \in Nat \ {0} /\ MaxReports \in Nat

VARIABLES
  startup,         \* of the session: "none", "awaited", "started", "failed"
  workflow,        \* does its workflow run?
  currentTurnId,   \* 0: null
  input,           \* turn -> what became of its request
  delivered,       \* turns whose signal reached the workflow
  outcome,         \* turn -> how it ended there
  seenIds,         \* the LRU of report ids, the most recent last
  heard,           \* history: [report, told] of each delivery that was judged
  persisting,      \* deliveries (indices of heard) whose append is awaited
  persisted        \* deliveries whose answer is in the transcript

orchestraVars == <<startup, workflow, currentTurnId, input, delivered, outcome,
                   seenIds, heard, persisting, persisted>>
requestVars == <<startup, input>>
workerVars == <<workflow, delivered, outcome>>
webhookVars == <<seenIds, heard, persisting, persisted>>

AgentTurns == 1..MaxAgentTurns
NoTurn == 0
EndKinds == {"answer", "failure"}   \* a done without content is told like a failure
ReportOf(t, kind) == [turn |-> t, kind |-> kind]
Running(t) == t \in delivered /\ outcome[t] = "none"

AgentsInit ==
  /\ startup = "none" /\ workflow = FALSE
  /\ currentTurnId = NoTurn /\ input = [t \in AgentTurns |-> "none"]
  /\ delivered = {} /\ outcome = [t \in AgentTurns |-> "none"]
  /\ seenIds = <<>> /\ heard = <<>> /\ persisting = {} /\ persisted = {}
-----------------------------------------------------------------------------
(* The requests of the clients.                                            *)

\* The record is in the store, its lock free, before the workflow is asked for.
StartAgentSession ==
  /\ startup = "none" /\ startup' = "awaited"
  /\ UNCHANGED <<currentTurnId, input, workerVars, webhookVars>>

\* A start that fails leaves the record where it is.
StartSettles(ok) ==
  /\ startup = "awaited" /\ (ok => workflow)
  /\ startup' = IF ok THEN "started" ELSE "failed"
  /\ UNCHANGED <<currentTurnId, input, workerVars, webhookVars>>

\* The next turn id: ids are fresh, and here in order.
Fresh(t) == input[t] = "none" /\ \A u \in 1..(t - 1) : input[u] # "none"

\* A signal over the payload limit is not sent.
Guarded(tooLong) == IF tooLong THEN "full" ELSE "awaited"

\* An input that finds the lock free takes it, and gives it back in the same step when
\* there is nothing to send.
AcceptInput(t, tooLong) ==
  /\ startup # "none" /\ currentTurnId = NoTurn /\ Fresh(t)
  /\ input' = [input EXCEPT ![t] = Guarded(tooLong)]
  /\ currentTurnId' = IF tooLong THEN NoTurn ELSE t
  /\ UNCHANGED <<startup, workerVars, webhookVars>>

\* 202, or 503: then the lock is freed, whoever holds it by now.
SignalSettles(t, ok) ==
  /\ input[t] = "awaited" /\ (ok => t \in delivered)
  /\ input' = [input EXCEPT ![t] = IF ok THEN "accepted" ELSE "failed"]
  /\ currentTurnId' = IF ok THEN currentTurnId ELSE NoTurn
  /\ UNCHANGED <<startup, workerVars, webhookVars>>
-----------------------------------------------------------------------------
(* Temporal and the workers: external.                                     *)

WorkflowStarts ==
  /\ startup = "awaited" /\ workflow' = TRUE
  /\ UNCHANGED <<requestVars, currentTurnId, delivered, outcome, webhookVars>>

SignalArrives(t) ==
  /\ input[t] = "awaited" /\ workflow /\ delivered' = delivered \cup {t}
  /\ UNCHANGED <<requestVars, currentTurnId, workflow, outcome, webhookVars>>

\* The workflow takes its turns one after the other.
WorkerEnds(t, kind) ==
  /\ Running(t) /\ \A u \in 1..(t - 1) : ~Running(u)
  /\ outcome' = [outcome EXCEPT ![t] = kind]
  /\ UNCHANGED <<requestVars, currentTurnId, workflow, delivered, webhookVars>>

\* What the workers have to report: the stages of the turns begun, the end of those ended.
Reports ==
  {ReportOf(t, "stage") : t \in {u \in delivered : \A v \in 1..(u - 1) : ~Running(v)}}
    \cup {ReportOf(t, outcome[t]) : t \in {u \in delivered : ~Running(u)}}
-----------------------------------------------------------------------------
(* The webhook.                                                            *)

Latest(s) == IF Len(s) > SeenCapacity THEN Tail(s) ELSE s

HasSeen(e) == \E i \in DOMAIN seenIds : seenIds[i] = e

\* hasSeen: what is asked for becomes the most recent, and the oldest goes.
SeenAfter(e) ==
  LET others == IF HasSeen(e)
                THEN RemoveAt(seenIds, CHOOSE i \in DOMAIN seenIds : seenIds[i] = e)
                ELSE seenIds
  IN Latest(Append(others, e))

\* Mutant: any end frees the lock.
FreedByAny(t) == NoTurn

\* Only the turn that holds the lock frees it.
Freed(t) == IF currentTurnId = t THEN NoTurn ELSE currentTurnId

\* A report is broadcast unless it was seen.  An answer is appended to the transcript
\* before its turn frees the lock; every other end frees it at once.
ProgressArrives(e) ==
  LET told == ~HasSeen(e)
      frees == told /\ e.kind = "failure"
      appends == told /\ e.kind = "answer"
  IN  /\ e \in Reports /\ Len(heard) < MaxReports
      /\ seenIds' = SeenAfter(e)
      /\ heard' = Append(heard, [report |-> e, told |-> told])
      /\ persisting' = IF appends THEN persisting \cup {Len(heard) + 1} ELSE persisting
      /\ currentTurnId' = IF frees THEN Freed(e.turn) ELSE currentTurnId
      /\ UNCHANGED <<requestVars, workerVars, persisted>>

\* An append that fails ends its request there.
AppendSettles(i, ok) ==
  /\ i \in persisting /\ persisting' = persisting \ {i}
  /\ persisted' = IF ok THEN persisted \cup {i} ELSE persisted
  /\ currentTurnId' = IF ok THEN Freed(heard[i].report.turn) ELSE currentTurnId
  /\ UNCHANGED <<requestVars, workerVars, seenIds, heard>>

AgentsNext ==
  \/ StartAgentSession \/ WorkflowStarts
  \/ \E ok \in BOOLEAN :
       \/ StartSettles(ok)
       \/ \E t \in AgentTurns : AcceptInput(t, ok) \/ SignalSettles(t, ok)
       \/ \E i \in persisting : AppendSettles(i, ok)
  \/ \E t \in AgentTurns :
       SignalArrives(t) \/ \E kind \in EndKinds : WorkerEnds(t, kind)
  \/ \E e \in Reports : ProgressArrives(e)

AgentsSpec == AgentsInit /\ [][AgentsNext]_orchestraVars
-----------------------------------------------------------------------------
OrchestraTypeOK ==
  /\ currentTurnId \in 0..MaxAgentTurns /\ Len(seenIds) <= SeenCapacity
  /\ persisting \cup persisted \subseteq DOMAIN heard
  /\ persisting \cap persisted = {}

\* Turns that run although their clients were told that they do not.
Disowned == {t \in delivered : input[t] = "failed"}

\* A second turn is never with the workers, however reports are repeated and reordered,
\* unless a signal was carried out whose call had failed.
OneTurnAtATime == Disowned = {} => Cardinality({t \in AgentTurns : Running(t)}) <= 1

\* A turn loses the lock by its own end, told to the clients, and once its answer is in
\* the transcript the next input's history is read from; with the same exception.
LockFollowsTurn ==
  Disowned = {} =>
    \A t \in AgentTurns : input[t] \in {"awaited", "accepted"} /\ currentTurnId # t =>
      \E j \in DOMAIN heard :
        /\ heard[j].told /\ heard[j].report.turn = t /\ heard[j].report.kind \in EndKinds
        /\ heard[j].report.kind = "answer" => j \in persisted

\* A report is told again only when as many others as the LRU holds came in between,
\* and none is swallowed that had not been told.
RepeatsAreSilent ==
  \A j \in DOMAIN heard :
    heard[j].told <=>
      ~\E i \in 1..(j - 1) :
         /\ heard[i].report = heard[j].report
         /\ Cardinality({heard[k].report : k \in (i + 1)..(j - 1)}) < SeenCapacity

\* The lock, and what the clients are told.
OrchestraInv == OrchestraTypeOK /\ OneTurnAtATime /\ LockFollowsTurn /\ RepeatsAreSilent

\* Does not hold: the lock of a turn whose end was told is freed.  A report is seen
\* before its answer is appended; when the append fails, the repeat is not looked at.
EndedIsFreed ==
  \A j \in DOMAIN heard :
    heard[j].told /\ heard[j].report.kind \in EndKinds /\ j \notin persisting
      => currentTurnId # heard[j].report.turn
=============================================================================
