----------------------------- MODULE CursorTurn -----------------------------
(***************************************************************************)
(* One session of the Cursor runner (src/src/cursor-pty-runner.ts), with   *)
(* the terminal program it drives.                                         *)
(*                                                                         *)
(* A text is sent in three writes with delays between them: the compose    *)
(* line is cleared, the text is typed, and it is submitted once it was     *)
(* echoed, or after a while.  The turn is read off a hint that the program *)
(* repaints while it works, and takes down when it ends or asks.           *)
(*                                                                         *)
(* An id is started again only after its process has exited: the exit of   *)
(* one that was put on hold is looked up by the id and would end the new   *)
(* session.  Left out: reads of the output, resizing, the starts that      *)
(* share a launch (as in CopilotTurn).                                     *)
(***************************************************************************)
EXTENDS Integers, Sequences, FiniteSets, SequencesExt

CONSTANTS
  MaxCursorTexts,  \* texts sent, as a bound
  MaxCursorStarts, \* processes spawned, as a bound
  MaxCursorTurns   \* turns the program begins, as a bound

ASSUME CursorAssumption ==
  MaxCursorTexts \in Nat /\ MaxCursorStarts \in Nat /\ MaxCursorTurns \in Nat

VARIABLES
  cursor,        \* what the runner keeps of the session
  submits,       \* the texts on their way into the compose box
  program,       \* the terminal program: its boot, compose box and turn
  sends,         \* texts sent so far
  cursorStarts,  \* processes spawned so far
  over           \* what was sent or done over something under way

cursorVars == <<cursor, submits, program, sends, cursorStarts, over>>

(* awaiting: awaitingStart, "late" once LATE_TURN_START_MS have passed.    *)
NoCursor == [status |-> "idle", source |-> "none", pending |-> FALSE, fallback |-> FALSE,
             queue |-> <<>>, later |-> <<>>, watch |-> FALSE, busy |-> FALSE,
             awaiting |-> "no", quiet |-> FALSE, pass |-> FALSE]
NewCursor == [NoCursor EXCEPT !.status = "running", !.source = "spawn", !.pending = TRUE,
                              !.fallback = TRUE]
(* turn: "none", "working" (the hint is on screen) or "card".              *)
NoProgram == [runs |-> FALSE, up |-> FALSE, compose |-> <<>>, turn |-> "none", turns |-> 0,
              submitted |-> <<>>]

NothingOver == [submit |-> FALSE, turn |-> FALSE, boot |-> FALSE]

CursorInit ==
  /\ cursor = NoCursor /\ submits = {} /\ program = NoProgram
  /\ sends = 0 /\ cursorStarts = 0
  /\ over = NothingOver

Present == cursor.status # "idle"

-----------------------------------------------------------------------------
(* What the handlers do to the record, as functions of it.                 *)

(* beginSubmit                                                             *)
BegunSubmit(x) ==
  [x EXCEPT !.status = "running",
            !.source = IF x.status = "waiting" THEN "user-input" ELSE @,
            !.busy = FALSE]

(* writeSubmit: the clear is written at once.                              *)
Writes(text, flushed) ==
  /\ submits' = submits \cup {[text |-> text, step |-> "cleared", echoed |-> FALSE,
                               flushed |-> flushed]}
  /\ program' = [program EXCEPT !.compose = <<>>]

(* markReady; the end of the boot sends what was queued, one at a time.    *)
CursorReady(x, source) ==
  LET ready == [x EXCEPT !.status = "waiting", !.source = source, !.pending = FALSE,
                         !.watch = FALSE, !.fallback = @ /\ ~x.pending]
  IN  IF x.pending /\ x.queue # <<>>
      THEN /\ cursor' = BegunSubmit([ready EXCEPT !.queue = <<>>, !.later = Tail(x.queue)])
           /\ Writes(Head(x.queue), TRUE)
      ELSE cursor' = ready /\ UNCHANGED <<submits, program>>

(* handleOutput: the hint in a chunk, resumeLateTurn.                      *)
Hinted(x) ==
  IF x.status = "running" THEN [x EXCEPT !.busy = TRUE, !.awaiting = "no", !.quiet = TRUE]
  ELSE IF x.status = "waiting" /\ x.awaiting = "fresh"
  THEN [x EXCEPT !.busy = TRUE, !.awaiting = "no", !.quiet = TRUE,
                 !.status = "running", !.source = "turn-signal"]
  ELSE [x EXCEPT !.awaiting = "no", !.quiet = TRUE]
Painted(x) == [x EXCEPT !.quiet = TRUE]

-----------------------------------------------------------------------------
(* The terminal program.                                                   *)

(* The compose box comes up; with an opening prompt a turn begins with it. *)
ProgramUp ==
  /\ program.runs /\ ~program.up
  /\ program' = [program EXCEPT !.up = TRUE]
  /\ cursor' = IF Present THEN Painted(cursor) ELSE cursor
  /\ UNCHANGED <<submits, sends, cursorStarts, over>>

(* A turn begins: after a submit, or because somebody typed at the         *)
(* terminal.                                                               *)
TurnBegins ==
  /\ program.up /\ program.turn = "none" /\ program.turns < MaxCursorTurns
  /\ program' = [program EXCEPT !.turn = "working", !.turns = @ + 1]
  /\ cursor' = IF Present THEN Hinted(cursor) ELSE cursor
  /\ over' = [over EXCEPT !.turn = @ \/ cursor.awaiting # "fresh"]
  /\ UNCHANGED <<submits, sends, cursorStarts>>

(* The spinner, or an answered card.                                       *)
HintPainted ==
  /\ program.turn # "none"
  /\ program' = [program EXCEPT !.turn = "working"]
  /\ cursor' = IF Present THEN Hinted(cursor) ELSE cursor
  /\ UNCHANGED <<submits, sends, cursorStarts, over>>

HintLeaves ==
  /\ program.turn # "none"
  /\ \E turn \in {"none", "card"} : program' = [program EXCEPT !.turn = turn]
  /\ cursor' = IF Present THEN Painted(cursor) ELSE cursor
  /\ UNCHANGED <<submits, sends, cursorStarts, over>>

(* Output that shows a typed text, as the program repaints it.             *)
Echo(s) ==
  /\ Present /\ s.step = "typed" /\ ~s.echoed
  /\ submits' = (submits \ {s}) \cup {[s EXCEPT !.echoed = TRUE]}
  /\ cursor' = Painted(cursor)
  /\ UNCHANGED <<program, sends, cursorStarts, over>>

CursorExits ==
  /\ program.runs
  /\ program' = NoProgram
  /\ cursor' = NoCursor /\ submits' = {}
  /\ UNCHANGED <<sends, cursorStarts, over>>

-----------------------------------------------------------------------------
(* The runner.                                                             *)

(* launch                                                                  *)
CursorStart ==
  /\ ~Present /\ ~program.runs /\ cursorStarts < MaxCursorStarts
  /\ cursorStarts' = cursorStarts + 1
  /\ cursor' = NewCursor
  /\ program' = [NoProgram EXCEPT !.runs = TRUE]
  /\ over' = NothingOver
  /\ UNCHANGED <<submits, sends>>

(* The boot: quiet after its marker, or the fallback, which waits for the  *)
(* marker until CURSOR_READY_MAX_WAIT_MS.                                  *)
ReadyFallback(waitedLong) ==
  /\ Present /\ cursor.fallback /\ cursor.pending
  /\ program.up \/ waitedLong
  /\ CursorReady(cursor, "timeout-fallback")
  /\ over' = [over EXCEPT !.submit = @ \/ ~program.up, !.turn = @ \/ program.turn # "none",
                          !.boot = cursor.busy]
  /\ UNCHANGED <<sends, cursorStarts>>

Quiet ==
  /\ Present /\ cursor.quiet
  /\ LET x == [cursor EXCEPT !.quiet = FALSE]
     IN  IF x.pending
         THEN IF program.up THEN CursorReady(x, "prompt-marker")
              ELSE cursor' = x /\ UNCHANGED <<submits, program>>
         ELSE /\ cursor' = [x EXCEPT !.pass = x.status = "running" /\ x.busy]
              /\ UNCHANGED <<submits, program>>
  /\ over' = [over EXCEPT !.turn = @ \/ (cursor.pending /\ program.turn # "none"),
                          !.boot = @ \/ (cursor.pending /\ cursor.busy)]
  /\ UNCHANGED <<sends, cursorStarts>>

\* Mutant: a card ends the turn, as the hint has left the screen.
CardEndsTurn ==
  /\ Present /\ cursor.pass
  /\ LET x == [cursor EXCEPT !.pass = FALSE]
     IN  IF x.status = "running" /\ x.busy /\ program.turn # "working"
         THEN CursorReady([x EXCEPT !.busy = FALSE], "turn-signal")
         ELSE cursor' = x /\ UNCHANGED <<submits, program>>
  /\ UNCHANGED <<sends, cursorStarts, over>>

(* detectQuiet, once the screen is flushed: neither the hint nor a card.   *)
TurnCheck ==
  /\ Present /\ cursor.pass
  /\ LET x == [cursor EXCEPT !.pass = FALSE]
     IN  IF x.status = "running" /\ x.busy /\ program.turn = "none"
         THEN CursorReady([x EXCEPT !.busy = FALSE], "turn-signal")
         ELSE cursor' = x /\ UNCHANGED <<submits, program>>
  /\ UNCHANGED <<sends, cursorStarts, over>>

(* sendInput: queued during the boot, else written.                        *)
SendInput ==
  /\ Present /\ sends < MaxCursorTexts
  /\ sends' = sends + 1
  /\ IF cursor.pending
     THEN /\ cursor' = [cursor EXCEPT !.queue = Append(@, sends + 1)]
          /\ UNCHANGED <<submits, program, over>>
     ELSE /\ cursor' = BegunSubmit(cursor)
          /\ Writes(sends + 1, FALSE)
          /\ over' = [over EXCEPT !.submit = @ \/ submits # {} \/ cursor.later # <<>>,
                                  !.turn = @ \/ program.turn # "none"]
  /\ UNCHANGED cursorStarts

(* sendKeys: an answer to a card, an arrow, Escape.                        *)
SendKeys ==
  /\ Present /\ ~cursor.pending
  /\ cursor.status = "waiting"
  /\ cursor' = [cursor EXCEPT !.status = "running", !.source = "user-input",
                              !.awaiting = "fresh", !.watch = TRUE]
  /\ UNCHANGED <<submits, program, sends, cursorStarts, over>>

Type(s) ==
  /\ Present /\ s.step = "cleared"
  /\ submits' = (submits \ {s}) \cup {[s EXCEPT !.step = "typed"]}
  /\ program' = [program EXCEPT !.compose = Append(@, s.text)]
  /\ UNCHANGED <<cursor, sends, cursorStarts, over>>

(* trySubmit: after the echo, or CURSOR_SUBMIT_MAX_WAIT_MS; an Enter that  *)
(* beats the echo leaves the text in the compose box.                      *)
Submit(s) ==
  /\ Present /\ s.step = "typed"
  /\ program' = [program EXCEPT !.submitted = Append(@, program.compose),
                                !.compose = IF s.echoed THEN <<>> ELSE @]
  /\ cursor' = [cursor EXCEPT !.awaiting = "fresh", !.watch = TRUE]
  /\ submits' = submits \ {s}
  /\ UNCHANGED <<sends, cursorStarts, over>>

(* flushQueuedInputs: the next text, after the Enter of the one before.    *)
FireNext ==
  /\ Present /\ cursor.later # <<>> /\ ~\E s \in submits : s.flushed
  /\ cursor' = BegunSubmit([cursor EXCEPT !.later = Tail(@)])
  /\ Writes(Head(cursor.later), TRUE)
  /\ over' = [over EXCEPT !.submit = @ \/ submits # {}, !.turn = @ \/ program.turn # "none"]
  /\ UNCHANGED <<sends, cursorStarts>>

(* armSubmitWatch: a submit that has shown no turn is given up, but not    *)
(* one typed over a turn that had started late.                            *)
SubmitWatch ==
  /\ Present /\ cursor.watch
  /\ LET x == [cursor EXCEPT !.watch = FALSE]
     IN  IF x.status = "running" /\ x.source = "user-input" /\ ~x.busy
         THEN CursorReady(x, "quiet-fallback")
         ELSE cursor' = x /\ UNCHANGED <<submits, program>>
  /\ UNCHANGED <<sends, cursorStarts, over>>

(* LATE_TURN_START_MS pass; the watch of the submit has fired by then.     *)
LateStartLapses ==
  /\ Present /\ cursor.awaiting = "fresh" /\ ~cursor.watch
  /\ cursor' = [cursor EXCEPT !.awaiting = "late"]
  /\ UNCHANGED <<submits, program, sends, cursorStarts, over>>

(* putOnHold, dispose: what was queued is dropped, the timers are cleared. *)
CursorHold ==
  /\ Present
  /\ cursor' = NoCursor /\ submits' = {}
  /\ UNCHANGED <<program, sends, cursorStarts, over>>

CursorNext ==
  \/ CursorStart \/ ReadyFallback(TRUE) \/ ReadyFallback(FALSE) \/ Quiet \/ TurnCheck
  \/ SendInput \/ SendKeys \/ FireNext \/ SubmitWatch \/ LateStartLapses \/ CursorHold
  \/ ProgramUp \/ TurnBegins \/ HintPainted \/ HintLeaves \/ CursorExits
  \/ \E s \in submits : Echo(s) \/ Type(s) \/ Submit(s)

CursorSpec == CursorInit /\ [][CursorNext]_cursorVars

-----------------------------------------------------------------------------
(* A session that is reported running has a timer, a text or a turn on     *)
(* screen that will end it.  Left out are one that a late turn resumed, as *)
(* a text typed over that turn is given no end, and a boot that showed a   *)
(* turn, as it leaves turnBusy set and a key that changes nothing is then  *)
(* taken for a turn.                                                       *)
CursorRunningIsWatched ==
  cursor.status = "running" /\ cursor.source # "turn-signal" /\ ~over.boot =>
    \/ cursor.pending /\ cursor.fallback
    \/ cursor.watch \/ submits # {}
    \/ cursor.busy /\ (program.turn # "none" \/ cursor.quiet \/ cursor.pass)

(* While nothing was typed over a turn, nor at the terminal, a session is  *)
(* not reported waiting while a turn goes on or a card of it is open.      *)
CursorWaitingMeansIdle ==
  cursor.status = "waiting" /\ ~over.turn /\ ~over.submit => program.turn = "none"

(* Every Enter submits one text, in the order they were sent, whatever the *)
(* Enter before left in the compose box; and none is typed before the box  *)
(* is up.                                                                  *)
OneTextPerSubmit ==
  ~over.submit =>
    /\ \A i \in DOMAIN program.submitted :
         /\ Len(program.submitted[i]) = 1
         /\ i > 1 => program.submitted[i - 1][1] < program.submitted[i][1]
    /\ program.compose # <<>> => program.up

(* cursor-pty-runner.ts: the status and the texts of a session.            *)
CursorInv == CursorRunningIsWatched /\ CursorWaitingMeansIdle /\ OneTextPerSubmit
=============================================================================
