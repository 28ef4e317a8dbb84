--------------------------- MODULE QuestionMenus ---------------------------
(***************************************************************************)
(* The question menus (AskUserQuestion) of one Claude session, from the    *)
(* terminal and the transcript to the routes that answer them              *)
(* (src/src/api/handlers/sessions.handlers.ts, src/src/server.ts,          *)
(* src/src/server-wiring.ts, src/src/pty-manager.ts), with the runner in   *)
(* the server's process.                                                   *)
(*                                                                         *)
(* A menu reaches the server twice: the detector reads it off the screen,  *)
(* and later, or earlier, Claude writes it to the transcript, under the id *)
(* of its tool use.  The server keeps one question as pending, a record of *)
(* it in the registry, and the content key of the menu on the screen,      *)
(* which outlives the answer so that a repaint is not taken for a question *)
(* of its own.  Every route that answers awaits a look at the screen       *)
(* before it writes keys, and the session goes on while it waits.          *)
(*                                                                         *)
(* Someone else may write to the same transcript (a terminal outside the   *)
(* server): "contended" if the server knows, "foreign" if not.             *)
(***************************************************************************)
EXTENDS Integers, Sequences, FiniteSets

CONSTANTS
  Menus,       \* how many menus the agent shows, one after the other
  Looks,       \* what a menu can say
  Askers,      \* requests of clients
  NoLook       \* no menu

ASSUME MenusAssumption == Menus \in Nat
ASSUME NoLookAssumption == NoLook \notin Looks

VARIABLES
  look,         \* what each menu says, 0 for the other writer's question
  writer,       \* who writes to the transcript: own, foreign, contended
  path,         \* the route of each request
  menu,         \* the agent: the menu that asks, the one painted, the last one
  lastScreenQuestionKey,
  detecting,    \* a detector pass was under way at the exit
  pendingQuestion,
  pendingQuestionKey,
  prompts,      \* the registry's records, oldest first
  flushes,      \* menus written to the transcript
  timers,       \* tool uses whose 60 s timer runs
  ended,        \* the process exited
  ask,          \* the requests
  answered      \* history: menus answered while pending, and not escaped since

questionSetup == <<look, writer, path>>
detector == <<lastScreenQuestionKey, detecting>>
kept == <<pendingQuestion, pendingQuestionKey, prompts>>
transcript == <<flushes, timers>>
questionVars ==
  <<questionSetup, menu, detector, kept, transcript, ended, ask, answered>>

Foreign == 0

\* Ids of tool uses are those of the menus; the detector makes up its own.
NoId == -1
ScreenId == -2

NoQuestion == [id |-> NoId, look |-> NoLook, origin |-> "none", prompt |-> 0]

LiveRecord(p) == p \in DOMAIN prompts /\ prompts[p].state = "open"

-----------------------------------------------------------------------------
(* The records.                                                            *)

\* promptRegistry.transition behind a test of the state.
Retired(records, p, state) ==
  IF p \in DOMAIN records /\ records[p].state = "open"
    THEN [records EXCEPT ![p].state = state] ELSE records

\* A question is stored as pending: under a new record, the prior one replaced.
Opened(m, id, origin, source) ==
  /\ prompts' = Append(Retired(prompts, pendingQuestion.prompt, "cancelled"),
                       [state |-> "open", rev |-> 1, source |-> source, minted |-> source,
                        menu |-> m, writing |-> FALSE])
  /\ pendingQuestion' = [id |-> id, look |-> look[m], origin |-> origin,
                         prompt |-> Len(prompts) + 1]
  /\ pendingQuestionKey' = look[m]

\* cancelPendingQuestion: nothing without a pending question.
CancelPendingQuestion ==
  IF pendingQuestion = NoQuestion THEN UNCHANGED kept
  ELSE /\ prompts' = Retired(prompts, pendingQuestion.prompt, "cancelled")
       /\ pendingQuestion' = NoQuestion
       /\ pendingQuestionKey' = NoLook

-----------------------------------------------------------------------------
(* The agent.                                                              *)

\* Claude shows its next menu in place of whatever the screen showed.  A turn of
\* the model lies between two menus: the transcript has caught up by then.
Show ==
  /\ ~ended /\ menu.asks = 0 /\ menu.last < Menus
  /\ 1..menu.last \subseteq flushes
  /\ menu' = [asks |-> menu.last + 1, painted |-> menu.last + 1, last |-> menu.last + 1]
  /\ UNCHANGED <<detector, kept, transcript, ended, ask, answered>>

\* The menu has read an answer, or it was answered or dismissed at the keyboard.
EndMenu ==
  /\ ~ended /\ menu.asks # 0
  /\ menu' = [menu EXCEPT !.asks = 0]
  /\ UNCHANGED <<detector, kept, transcript, ended, ask, answered>>

EraseMenu ==
  /\ ~ended /\ menu.painted # 0 /\ menu.asks = 0
  /\ menu' = [menu EXCEPT !.painted = 0]
  /\ UNCHANGED <<detector, kept, transcript, ended, ask, answered>>

-----------------------------------------------------------------------------
(* The detector.  A pass knows nothing from before its await but that the  *)
(* session was there, so it is one step, and one may outlive the exit.     *)

Passes == ~ended \/ detecting

\* handleLiveQuestion: the content that is shown already changes nothing.
HandleLiveQuestion(m) ==
  IF pendingQuestionKey = look[m] THEN UNCHANGED kept
  ELSE Opened(m, ScreenId, "pty", "screen")

\* detectLivePrompts after its await, on a menu it can read.
AnnounceMenu ==
  /\ Passes /\ menu.painted # 0
  /\ lastScreenQuestionKey # look[menu.painted]
  /\ detecting' = FALSE
  /\ lastScreenQuestionKey' = look[menu.painted]
  /\ HandleLiveQuestion(menu.painted)
  /\ UNCHANGED <<menu, transcript, ended, ask, answered>>

\* onLiveQuestionGone: the footer is gone and the chunk had a prompt marker.
LiveQuestionGone ==
  /\ Passes /\ menu.painted = 0 /\ lastScreenQuestionKey # NoLook
  /\ detecting' = FALSE
  /\ lastScreenQuestionKey' = NoLook
  /\ prompts' = Retired(prompts, pendingQuestion.prompt, "cancelled")
  /\ pendingQuestion' = NoQuestion
  /\ pendingQuestionKey' = NoLook
  /\ UNCHANGED <<menu, transcript, ended, ask, answered>>

-----------------------------------------------------------------------------
(* The transcript.                                                         *)

\* The guards of processJsonlQuestions: the answered question arriving late, and
\* a question other than the one the own screen shows.
AnsweredLate(m) == pendingQuestion = NoQuestion /\ pendingQuestionKey = look[m]
ForeignVsPty(m) == pendingQuestion.origin = "pty" /\ pendingQuestion.look # look[m]

\* Mutant: a question the transcript confirms is taken for the transcript's own.
ConfirmedIsTranscripts(m) ==
  IF pendingQuestion.look = look[m]
    THEN /\ UNCHANGED prompts
         /\ pendingQuestion' = [pendingQuestion EXCEPT !.id = m, !.origin = "jsonl"]
         /\ pendingQuestionKey' = look[m]
    ELSE Opened(m, m, "jsonl", "transcript")

\* handleJsonlQuestion: the pending question is revised, or replaced.
HandleJsonlQuestion(m) ==
  IF pendingQuestion.look = look[m]
    THEN /\ prompts' = IF prompts[pendingQuestion.prompt].source = "transcript" THEN prompts
                       ELSE [prompts EXCEPT ![pendingQuestion.prompt].rev = @ + 1,
                                            ![pendingQuestion.prompt].source = "transcript"]
         /\ pendingQuestion' = [pendingQuestion EXCEPT !.id = m]
         /\ pendingQuestionKey' = look[m]
    ELSE Opened(m, m, "jsonl", "transcript")

\* processJsonlQuestions, for a batch with one question.
Flush(m) ==
  /\ ~ended /\ m \notin flushes
  /\ m = Foreign => writer # "own"
  /\ m <= menu.last
  /\ flushes' = flushes \cup {m}
  /\ IF writer = "contended" \/ ForeignVsPty(m) \/ AnsweredLate(m)
       THEN UNCHANGED <<kept, timers>>
       ELSE HandleJsonlQuestion(m) /\ timers' = timers \cup {m}
  /\ UNCHANGED <<menu, detector, ended, ask, answered>>

\* A timer of 60 s cancels the question it was set for.
Late60(t) ==
  /\ t \in timers
  /\ timers' = timers \ {t}
  /\ IF pendingQuestion.id = t THEN CancelPendingQuestion ELSE UNCHANGED kept
  /\ UNCHANGED <<menu, detector, flushes, ended, ask, answered>>

-----------------------------------------------------------------------------
(* The routes.                                                             *)

\* questionMenuStillOpen: a session without a process is not ours to veto.
MenuStillOpen == menu.painted # 0 \/ ended

\* A request takes a question up and awaits the screen.  The prompt route gets
\* here past the checks of performAnswer, which write nothing; the answers to one
\* record queue.  The other routes name the pending question.
Take(r, p) ==
  /\ ask[r].phase = "idle" /\ LiveRecord(p)
  /\ IF path[r] = "prompt" THEN ~prompts[p].writing ELSE pendingQuestion.prompt = p
  /\ IF path[r] = "prompt" /\ pendingQuestion.prompt # p
       THEN /\ prompts' = Retired(prompts, p, "unavailable")
            /\ ask' = [ask EXCEPT ![r] = [@ EXCEPT !.phase = "refused", !.prompt = p]]
       ELSE /\ prompts' = [prompts EXCEPT ![p].writing = @ \/ path[r] = "prompt"]
            /\ ask' = [ask EXCEPT ![r] = [@ EXCEPT !.phase = "looking", !.prompt = p,
                                                   !.rev = prompts[p].rev]]
  /\ UNCHANGED <<menu, detector, pendingQuestion, pendingQuestionKey, transcript,
                 ended, answered>>

\* performAnswer after the adapter: the answer counts for the revision it named.
Performed(r, state) ==
  LET p == ask[r].prompt
      counts == LiveRecord(p) /\ prompts[p].rev = ask[r].rev
  IN  IF counts THEN [prompts EXCEPT ![p].state = state, ![p].writing = FALSE]
                ELSE [prompts EXCEPT ![p].writing = FALSE]

Finish(r, phase, wrote) == ask' = [ask EXCEPT ![r] = [@ EXCEPT !.phase = phase, !.wrote = wrote]]

DropQuestion == pendingQuestion' = NoQuestion /\ pendingQuestionKey' = NoLook

\* The menu has gone: the prompt route drops whatever is pending.
GoneForPrompt(r) ==
  /\ ask[r].phase = "looking" /\ path[r] = "prompt" /\ ~MenuStillOpen
  /\ prompts' = Performed(r, "cancelled")
  /\ DropQuestion
  /\ Finish(r, "refused", FALSE)
  /\ UNCHANGED <<menu, detector, transcript, ended, answered>>

\* The same of /answer.  A raw key drops the question only if it is its own.
GoneForOthers(r) ==
  /\ ask[r].phase = "looking" /\ path[r] # "prompt" /\ ~MenuStillOpen
  /\ IF path[r] = "legacy" \/ pendingQuestion.prompt = ask[r].prompt
       THEN prompts' = Retired(prompts, ask[r].prompt, "cancelled") /\ DropQuestion
       ELSE UNCHANGED kept
  /\ Finish(r, "refused", FALSE)
  /\ UNCHANGED <<menu, detector, transcript, ended, answered>>

\* Another question is pending by now, or the process ended.
RefuseKeys(r) ==
  /\ ask[r].phase = "looking" /\ MenuStillOpen
  /\ ended \/ (path[r] = "prompt" /\ pendingQuestion.prompt # ask[r].prompt)
  /\ prompts' = [prompts EXCEPT ![ask[r].prompt].writing = IF path[r] = "prompt" THEN FALSE ELSE @]
  /\ Finish(r, "refused", FALSE)
  /\ UNCHANGED <<menu, detector, pendingQuestion, pendingQuestionKey, transcript,
                 ended, answered>>

\* Mutant: every answer forgets the key of the menu.
ForgottenKey(r) == NoLook

\* An answered menu keeps its key; an Escape answers nothing.
KeyAfter(r) == IF path[r] = "escape" THEN NoLook ELSE pendingQuestionKey

\* The keys are written; only the prompt route has looked at the pending question
\* again.
WriteKeys(r) ==
  /\ ask[r].phase = "looking" /\ MenuStillOpen /\ ~ended
  /\ path[r] = "prompt" => pendingQuestion.prompt = ask[r].prompt
  /\ LET p == ask[r].prompt
     IN  /\ IF path[r] = "prompt"
              THEN /\ prompts' = Performed(r, "resolved")
                   /\ Finish(r, IF prompts'[p].state = "resolved" THEN "accepted" ELSE "refused",
                             TRUE)
              ELSE /\ prompts' = Retired(prompts, p, IF path[r] = "escape" THEN "cancelled"
                                                                         ELSE "resolved")
                   /\ Finish(r, "accepted", TRUE)
         /\ answered' = IF path[r] = "escape" THEN {}
                        ELSE IF pendingQuestion.prompt = p THEN answered \cup {prompts[p].menu}
                        ELSE answered
  /\ pendingQuestion' = NoQuestion
  /\ pendingQuestionKey' = KeyAfter(r)
  /\ UNCHANGED <<menu, detector, transcript, ended>>

-----------------------------------------------------------------------------
(* The exit.                                                               *)

\* The idle status: the question, its key and every live record go.  A detector
\* pass may still await the screen.
EndQuestions ==
  /\ ~ended
  /\ ended' = TRUE
  /\ prompts' = [p \in DOMAIN prompts |->
                   IF prompts[p].state # "open" THEN prompts[p]
                   ELSE [prompts[p] EXCEPT !.state = IF p = pendingQuestion.prompt
                                                       THEN "cancelled" ELSE "unavailable"]]
  /\ DropQuestion
  /\ lastScreenQuestionKey' = NoLook /\ detecting' \in BOOLEAN
  /\ UNCHANGED <<menu, transcript, ask, answered>>

-----------------------------------------------------------------------------
QuestionsInit ==
  /\ look \in [0..Menus -> Looks]
  /\ writer \in {"own", "foreign", "contended"}
  /\ path \in [Askers -> {"prompt", "legacy", "enter", "escape"}]
  /\ menu = [asks |-> 0, painted |-> 0, last |-> 0]
  /\ lastScreenQuestionKey = NoLook /\ detecting = FALSE
  /\ pendingQuestion = NoQuestion /\ pendingQuestionKey = NoLook
  /\ prompts = <<>>
  /\ flushes = {} /\ timers = {}
  /\ ended = FALSE
  /\ ask = [r \in Askers |-> [phase |-> "idle", prompt |-> 0, rev |-> 0, wrote |-> FALSE]]
  /\ answered = {}

QuestionsStep ==
  \/ Show \/ EndMenu \/ EraseMenu
  \/ AnnounceMenu \/ LiveQuestionGone
  \/ \E m \in 0..Menus : Flush(m)
  \/ \E t \in timers : Late60(t)
  \/ \E r \in Askers, p \in DOMAIN prompts : Take(r, p)
  \/ \E r \in Askers : GoneForPrompt(r) \/ GoneForOthers(r) \/ RefuseKeys(r) \/ WriteKeys(r)
  \/ EndQuestions

QuestionsNext == UNCHANGED questionSetup /\ QuestionsStep

QuestionsSpec == QuestionsInit /\ [][QuestionsNext]_questionVars

-----------------------------------------------------------------------------
(* Properties.                                                             *)

QuestionsTypeOK ==
  /\ menu.asks \in {0, menu.last} /\ menu.painted \in {0, menu.last} /\ menu.last \in 0..Menus
  /\ {detecting, ended} \subseteq BOOLEAN
  /\ {lastScreenQuestionKey, pendingQuestionKey} \subseteq Looks \cup {NoLook}
  /\ flushes \cup timers \cup answered \subseteq 0..Menus
  /\ \A r \in Askers : ask[r].phase \in {"idle", "looking", "refused", "accepted"}

\* The pending question has a live record: a revision of it by the transcript,
\* which throws for a settled record, never throws in the file watcher.  It is
\* deduplicated by its own content.
QuestionsInv ==
  /\ QuestionsTypeOK
  /\ pendingQuestion # NoQuestion =>
       /\ LiveRecord(pendingQuestion.prompt)
       /\ pendingQuestionKey = pendingQuestion.look

\* In a session that runs, an answered menu is not shown as a new question while it
\* is still painted, be
\* it by a repaint or by the transcript that catches up.  (An Escape answers
\* nothing and shows it again on purpose; another writer can take its place.)
NoPhantomQuestion ==
  [][Len(prompts') > Len(prompts) /\ writer # "foreign" /\ ~ended =>
       LET m == prompts'[Len(prompts')].menu IN ~(m \in answered /\ m = menu.painted)]_questionVars

\* The transcript never puts another question in the place of one that was read
\* off the own screen, confirmed by the transcript since or not: its answer would
\* be typed into the menu the screen shows.
ScreenQuestionKept ==
  [][pendingQuestion # NoQuestion /\ pendingQuestion'.id >= 0 =>
       \/ prompts[pendingQuestion.prompt].minted = "transcript"
       \/ pendingQuestion'.look = pendingQuestion.look]_questionVars

\* A refused answer wrote nothing to the terminal.
RefusedWritesNothing ==
  \A r \in Askers : ask[r].phase = "refused" => ~ask[r].wrote
=============================================================================
