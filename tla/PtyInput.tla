------------------------------ MODULE PtyInput ------------------------------
(***************************************************************************)
(* Starting, ending and typing into one session of the Claude runner       *)
(* (src/src/pty-manager.ts), for one session id.                           *)
(*                                                                         *)
(* The runner keeps everything it knows of a session under its id: the     *)
(* callbacks of a process look the session up by id when they fire, so the *)
(* output and the exit of a process reach whatever session holds the id by *)
(* then.  Text is pasted first; the Enter that submits it is written by a  *)
(* poll every SUBMIT_DELAY_MS, when the terminal has been quiet for one    *)
(* such step or SUBMIT_MAX_WAIT_MS have passed.  Time is counted in steps. *)
(*                                                                         *)
(* overlap tells whether the id may be started again while a process that  *)
(* was told to end still runs.  The server's probe for such a process is   *)
(* best effort: it reads a list that may be 15 s old, it gives up after a  *)
(* deadline, and force passes it.                                          *)
(***************************************************************************)
EXTENDS Integers, Sequences, FiniteSets, SequencesExt

CONSTANTS
  MaxStarts,  \* processes spawned
  MaxInputs,  \* texts accepted
  MaxWait     \* SUBMIT_MAX_WAIT_MS in steps of SUBMIT_DELAY_MS

ASSUME InputConstantsAssumption ==
  /\ MaxStarts \in Nat /\ MaxInputs \in Nat /\ MaxWait \in Nat

VARIABLES
  overlap,
  disposed,
  starts,       \* doStart calls that await loadPty
  procs,        \* processes spawned so far, named 1, 2, ...
  alive,        \* those that have not exited
  told,         \* those the runner has told to end
  current,      \* process of the session that holds the id, 0 for none
  pendingReady, \* the session is still booting
  fallback,     \* readyFallbackTimers
  marked,       \* the session's screen shows a prompt marker
  painted,      \* processes that have painted their prompt
  gaveUp,       \* processes whose boot fell back to the timer
  accepted,     \* texts sendInput took: the process meant, and whether it queued
  queue,        \* queuedInputs
  flushing,     \* queued texts waiting for their turn: [proc, input, left]
  submits,      \* pasted texts waiting for Enter: [proc, input, age, due]
  recent, noisy, \* output since the last step, and since the step before
  wire          \* what each process was written: texts, and Enter as 0

session == <<starts, procs, alive, told, current, disposed>>
boot == <<pendingReady, fallback, marked, painted, gaveUp>>
typing == <<accepted, queue, flushing, submits, recent, noisy, wire>>
inputVars == <<overlap, session, boot, typing>>

Procs == 1..MaxStarts
Enter == 0

-----------------------------------------------------------------------------
(* Starting.                                                               *)

\* start: a session that runs is returned, a start under way is shared; only the
\* first call goes on.
Start ==
  /\ ~disposed /\ current = 0 /\ starts = 0
  /\ overlap \/ alive \cap told = {}
  /\ procs < MaxStarts
  /\ starts' = 1
  /\ UNCHANGED <<procs, alive, told, current, disposed, boot, typing>>

Refused ==
  /\ starts > 0 /\ disposed
  /\ starts' = starts - 1
  /\ UNCHANGED <<procs, alive, told, current, disposed, boot, typing>>

\* doStart after its await, and the spawn that throws.
Spawn ==
  /\ starts > 0 /\ ~disposed
  /\ starts' = starts - 1
  /\ procs' = procs + 1 /\ current' = procs + 1
  /\ alive' = alive \cup {procs + 1}
  /\ pendingReady' = TRUE /\ fallback' = TRUE /\ marked' = FALSE
  /\ UNCHANGED <<told, disposed, painted, gaveUp, typing>>

SpawnThrows ==
  /\ starts > 0 /\ ~disposed
  /\ starts' = starts - 1
  /\ UNCHANGED <<procs, alive, told, current, disposed, boot, typing>>

-----------------------------------------------------------------------------
(* Ending.                                                                 *)

PutOnHold ==
  /\ current # 0
  /\ told' = told \cup {current} /\ current' = 0
  /\ pendingReady' = FALSE /\ fallback' = FALSE
  /\ queue' = <<>>
  /\ UNCHANGED <<starts, procs, alive, disposed, marked, painted, gaveUp,
                 accepted, flushing, submits, recent, noisy, wire>>

\* onExit and handleExit: whichever session holds the id is dropped.
HandleExit(p) ==
  /\ p \in alive
  /\ alive' = alive \ {p}
  /\ current' = 0
  /\ pendingReady' = FALSE /\ fallback' = FALSE
  /\ queue' = IF current = 0 THEN queue ELSE <<>>
  /\ UNCHANGED <<starts, procs, told, disposed, marked, painted, gaveUp,
                 accepted, flushing, submits, recent, noisy, wire>>

Dispose ==
  /\ ~disposed
  /\ disposed' = TRUE
  /\ told' = told \cup ({current} \ {0}) /\ current' = 0
  /\ fallback' = FALSE
  /\ recent' = FALSE /\ noisy' = FALSE
  /\ UNCHANGED <<starts, procs, alive, pendingReady, marked, painted, gaveUp,
                 accepted, queue, flushing, submits, wire>>

-----------------------------------------------------------------------------
(* Readiness and typing.                                                   *)

Timer(p, i) == [proc |-> p, input |-> i, age |-> 0, due |-> FALSE]

\* flushQueuedInputs: the first text at once, the others two steps apart.
Flushed ==
  IF queue = <<>>
    THEN UNCHANGED <<flushing, submits, wire>>
    ELSE /\ wire' = [wire EXCEPT ![current] = Append(@, Head(queue))]
         /\ submits' = submits \cup {Timer(current, Head(queue))}
         /\ flushing' = flushing \cup
              {[proc |-> current, input |-> queue[k], left |-> 2 * (k - 1)] : k \in 2..Len(queue)}

\* markReady of a session that boots.
MarkReady ==
  /\ pendingReady
  /\ pendingReady' = FALSE /\ fallback' = FALSE
  /\ queue' = <<>>
  /\ Flushed
  /\ UNCHANGED <<session, painted, accepted>>

\* handleOutput: a chunk without a marker, or one that a turn shown as open makes
\* of no account.
Chunk(p) ==
  /\ p \in alive
  /\ \E marker \in BOOLEAN :
       /\ painted' = IF marker THEN painted \cup {p} ELSE painted
       /\ marked' = (marked \/ (marker /\ current # 0))
  /\ recent' = (recent \/ current # 0) /\ noisy' = (noisy \/ current # 0)
  /\ UNCHANGED <<session, pendingReady, fallback, gaveUp, accepted, queue, flushing, submits,
                 wire>>

\* handleOutput: the prompt marker of a booting session.
PromptMarker(p) ==
  /\ p \in alive /\ current # 0 /\ pendingReady
  /\ pendingReady' = FALSE /\ fallback' = FALSE /\ marked' = TRUE
  /\ painted' = painted \cup {p}
  /\ queue' = <<>>
  /\ Flushed
  /\ recent' = TRUE /\ noisy' = TRUE
  /\ UNCHANGED <<session, gaveUp, accepted>>

\* handleQuiet and recheckReadyFromScreen.
ScreenMarker ==
  /\ current # 0 /\ marked
  /\ MarkReady
  /\ UNCHANGED <<marked, gaveUp, recent, noisy>>

\* armReadyFallback's timer.
FallbackFires ==
  /\ fallback /\ current # 0
  /\ MarkReady
  /\ gaveUp' = gaveUp \cup {current}
  /\ UNCHANGED <<marked, recent, noisy>>

Accept(queued) == accepted' = Append(accepted, [proc |-> current, queued |-> queued])

\* sendInput.
SendQueued ==
  /\ current # 0 /\ pendingReady /\ Len(accepted) < MaxInputs
  /\ Accept(TRUE)
  /\ queue' = Append(queue, Len(accepted) + 1)
  /\ UNCHANGED <<session, boot, flushing, submits, recent, noisy, wire>>

SendDirect ==
  /\ current # 0 /\ ~pendingReady /\ Len(accepted) < MaxInputs
  /\ Accept(FALSE)
  /\ wire' = [wire EXCEPT ![current] = Append(@, Len(accepted) + 1)]
  /\ submits' = submits \cup {Timer(current, Len(accepted) + 1)}
  /\ UNCHANGED <<session, boot, queue, flushing, recent, noisy>>

\* Mutant: the timer types into whatever session holds the id by now.
FlushNextUnchecked(f) ==
  /\ f \in flushing /\ f.left = 0
  /\ flushing' = flushing \ {f}
  /\ IF current # 0
       THEN /\ wire' = [wire EXCEPT ![current] = Append(@, f.input)]
            /\ submits' = submits \cup {Timer(current, f.input)}
       ELSE UNCHANGED <<wire, submits>>
  /\ UNCHANGED <<session, boot, accepted, queue, recent, noisy>>

\* A queued text's own timer: dropped when its session is gone.
FlushNext(f) ==
  /\ f \in flushing /\ f.left = 0
  /\ flushing' = flushing \ {f}
  /\ IF f.proc = current
       THEN /\ wire' = [wire EXCEPT ![current] = Append(@, f.input)]
            /\ submits' = submits \cup {Timer(current, f.input)}
       ELSE UNCHANGED <<wire, submits>>
  /\ UNCHANGED <<session, boot, accepted, queue, recent, noisy>>

Again(t) == [t EXCEPT !.due = FALSE]

\* Mutant: a terminal that is never quiet never gets its Enter.
PollUntilQuiet(t) ==
  /\ t \in submits /\ t.due
  /\ IF t.proc = current /\ noisy
       THEN submits' = (submits \ {t}) \cup {Again(t)} /\ UNCHANGED wire
       ELSE /\ submits' = submits \ {t}
            /\ wire' = IF t.proc = current THEN [wire EXCEPT ![current] = Append(@, Enter)]
                                           ELSE wire
  /\ UNCHANGED <<session, boot, accepted, queue, flushing, recent, noisy>>

\* trySubmit.
Poll(t) ==
  /\ t \in submits /\ t.due
  /\ IF t.proc = current /\ noisy /\ t.age < MaxWait
       THEN submits' = (submits \ {t}) \cup {Again(t)} /\ UNCHANGED wire
       ELSE /\ submits' = submits \ {t}
            /\ wire' = IF t.proc = current THEN [wire EXCEPT ![current] = Append(@, Enter)]
                                           ELSE wire
  /\ UNCHANGED <<session, boot, accepted, queue, flushing, recent, noisy>>

Later(n) == IF n < MaxWait THEN n + 1 ELSE n

\* One step of SUBMIT_DELAY_MS; the timers that are due fire before the next.
SubmitTick ==
  /\ submits # {} \/ flushing # {} \/ noisy
  /\ \A t \in submits : ~t.due
  /\ \A f \in flushing : f.left > 0
  /\ submits' = {[t EXCEPT !.due = TRUE, !.age = Later(t.age)] : t \in submits}
  /\ flushing' = {[f EXCEPT !.left = f.left - 1] : f \in flushing}
  /\ noisy' = recent /\ recent' = FALSE
  /\ UNCHANGED <<session, boot, accepted, queue, wire>>

-----------------------------------------------------------------------------
InputInit ==
  /\ overlap \in BOOLEAN
  /\ disposed = FALSE /\ starts = 0 /\ procs = 0 /\ alive = {} /\ told = {} /\ current = 0
  /\ pendingReady = FALSE /\ fallback = FALSE /\ marked = FALSE /\ painted = {} /\ gaveUp = {}
  /\ accepted = <<>> /\ queue = <<>> /\ flushing = {} /\ submits = {}
  /\ recent = FALSE /\ noisy = FALSE /\ wire = [p \in Procs |-> <<>>]

Timers ==
  \/ SubmitTick \/ ScreenMarker \/ FallbackFires
  \/ \E t \in submits : Poll(t)
  \/ \E f \in flushing : FlushNext(f)

Step ==
  \/ Start \/ Refused \/ Spawn \/ SpawnThrows
  \/ PutOnHold \/ Dispose \/ SendQueued \/ SendDirect
  \/ \E p \in Procs : HandleExit(p) \/ Chunk(p) \/ PromptMarker(p)
  \/ Timers

InputNext == Step /\ UNCHANGED overlap

InputSpec == InputInit /\ [][InputNext]_inputVars

\* Timers fire; a process may stay silent, and nobody need call anything.
InputFairSpec ==
  /\ InputSpec
  /\ WF_inputVars(SubmitTick /\ UNCHANGED overlap) /\ WF_inputVars(FallbackFires /\ UNCHANGED overlap)
  /\ WF_inputVars((\E t \in submits : Poll(t)) /\ UNCHANGED overlap)
  /\ WF_inputVars((\E f \in flushing : FlushNext(f)) /\ UNCHANGED overlap)

-----------------------------------------------------------------------------
(* Properties.                                                             *)

Texts == 1..Len(accepted)

\* Every variable keeps its type; the session that holds the id is the newest
\* process, and only it has texts in the queue.
InputTypeOK ==
  /\ starts \in 0..1 /\ procs \in 0..MaxStarts
  /\ alive \subseteq 1..procs /\ told \subseteq 1..procs
  /\ current \in {0, procs}
  /\ painted \subseteq 1..procs /\ gaveUp \subseteq 1..procs
  /\ accepted \in Seq([proc : Procs, queued : BOOLEAN]) /\ Len(accepted) <= MaxInputs
  /\ queue \in Seq(Texts)
  /\ queue # <<>> => disposed \/ (current # 0 /\ pendingReady)
  /\ flushing \subseteq [proc : Procs, input : Texts, left : 0..2 * MaxInputs]
  /\ submits \subseteq [proc : Procs, input : Texts, age : 0..MaxWait, due : BOOLEAN]
  /\ wire \in [Procs -> Seq({Enter} \cup Texts)]

\* A text is only ever typed into the process whose session took it, however
\* late its timers fire and whatever holds the id by then (writeSubmit's and
\* flushQueuedInputs' comparison with the session they captured).
TextsStayHome ==
  \A p \in Procs : \A k \in 1..Len(wire[p]) :
    wire[p][k] # Enter => accepted[wire[p][k]].proc = p

IsQueued(i) == i # Enter /\ accepted[i].queued

\* Texts sent during the boot are typed once each, in the order they arrived
\* (flushQueuedInputs).
QueuedTextsInOrder ==
  \A p \in Procs : \A j, k \in 1..Len(wire[p]) :
    j < k /\ IsQueued(wire[p][j]) /\ IsQueued(wire[p][k]) => wire[p][j] < wire[p][k]

\* A text reaches the process it was meant for, and only that, in its order.
QueuedInOrder == TextsStayHome /\ QueuedTextsInOrder

\* At most one process per id runs without having been told to end (the comment
\* in start on a second PTY).
OneProcess == Cardinality(alive \ told) <= 1

\* The same, of an id that is started again only after its process has exited:
\* callers that share a start, a hold and a dispose during its await.
OneProcessApart == ~overlap => OneProcess

\* A disposed runner leaves no process behind, not even one whose start was
\* waiting (refuseIfDisposed).  A session whose predecessor's exit dropped it is
\* not found by dispose.
NothingOutlivesDispose == ~overlap /\ disposed => alive \subseteq told

\* Nothing is typed into a process that has not shown its prompt, unless the
\* backstop gave up on it (sendInput's queue).  The output of a predecessor that
\* still runs would pass for its prompt.
NothingTypedWhileBooting ==
  ~overlap => \A p \in Procs : wire[p] # <<>> => p \in painted \cup gaveUp

\* The processes of an id are accounted for and nothing is typed too early: one
\* process runs untold, none outlives a dispose, and text waits for the prompt.
InputInv ==
  /\ InputTypeOK /\ OneProcessApart /\ NothingOutlivesDispose
  /\ NothingTypedWhileBooting /\ QueuedInOrder

Entered(i) ==
  LET w == wire[accepted[i].proc]
  IN  \E k, l \in 1..Len(w) : k < l /\ w[k] = i /\ w[l] = Enter

\* A text that was accepted is typed and submitted, or its session ends.
EveryTextIsSubmitted ==
  \A i \in 1..MaxInputs :
    i \in Texts ~> (i \in Texts /\ (Entered(i) \/ current # accepted[i].proc))
=============================================================================
