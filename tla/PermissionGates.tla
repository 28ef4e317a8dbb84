-------------------------- MODULE PermissionGates --------------------------
(***************************************************************************)
(* Permission gates of one session, from the agent's terminal to the       *)
(* routes that answer them (src/src/pty-manager.ts,                        *)
(* src/src/pty-host/host.ts, src/src/api/handlers/sessions.handlers.ts).   *)
(*                                                                         *)
(* The agent paints a dialog on its terminal.  A detector reads the screen *)
(* and announces what it sees as a gate; the server keeps the newest gate  *)
(* as pending and opens a prompt record for it.  A client answers through  *)
(* one of four routes; each of them awaits a look at the screen before it  *)
(* writes keys, and the session goes on while it waits.  The runner lives  *)
(* in the server's process, or (hosted) in the pty-host, behind a socket   *)
(* that keeps the order of the messages.                                   *)
(*                                                                         *)
(* A gate's view is its content key without the cursor: a moved cursor is  *)
(* the same gate shown again.  Records outlive the gates they are for (the *)
(* registry retains them for ten minutes), so none is evicted here; module *)
(* PromptRegistry has eviction.                                            *)
(***************************************************************************)
EXTENDS Integers, Sequences, FiniteSets

CONSTANTS
  Dialogs,    \* how many dialogs the agent may paint, one after the other
  Contents,   \* what a dialog can look like
  Requests,   \* requests of clients
  None,       \* no gate
  Blank       \* a gate announced before its options were painted

ASSUME DialogsAssumption == Dialogs \in Nat
ASSUME ContentsAssumption == {None, Blank} \cap Contents = {} /\ None # Blank

VARIABLES
  content,  \* the content of each dialog the agent will paint
  route,    \* the route each request takes
  hosted,   \* whether the runner lives in the pty-host
  agent,    \* the agent and its screen
  runner,   \* permissionOpen, closedGateKey and the detector pass under way
  host,     \* the pty-host's prompt snapshot and its next occurrence id
  up,       \* messages from the pty-host to the server, oldest first
  down,     \* keys on their way from the server to the pty-host
  input,    \* keys written to the pseudo-terminal, not read by the agent yet
  server,   \* pendingPermission, the prompt records, whether the session ended
  req       \* the requests

setup == <<content, route, hosted>>
vars == <<setup, agent, runner, host, up, down, input, server, req>>

-----------------------------------------------------------------------------
(* The screen and the gates.                                               *)

\* What the scrapers see: a box whose options are painted.
Screen == IF agent.painted # 0 /\ agent.filled THEN content[agent.painted] ELSE None

NoGate == [view |-> None, prompt |-> 0, occ |-> 0, serial |-> 0]

Pending == server.gate.view # None

Live(prompts, p) == p \in 1..Len(prompts) /\ prompts[p].state = "open"

\* promptRegistry.transition.
Transitioned(prompts, p, state) ==
  IF Live(prompts, p) THEN [prompts EXCEPT ![p].state = state] ELSE prompts

\* Mutant: a close is applied although an answer is being written.
ProviderClosedNow(prompts, p) == Transitioned(prompts, p, "cancelled")

\* promptRegistry.providerClosed: held back while an answer is being written.
ProviderClosed(prompts, p) ==
  IF ~Live(prompts, p) THEN prompts
  ELSE IF prompts[p].answering THEN [prompts EXCEPT ![p].deferred = TRUE]
  ELSE Transitioned(prompts, p, "cancelled")

NewPrompt(occ) == [state |-> "open", occ |-> occ, answering |-> FALSE, deferred |-> FALSE]

\* promptRegistry.open throws when the id it is asked for names a live record.
Throws(prompts, occ) ==
  occ # 0 /\ \E p \in 1..Len(prompts) : prompts[p].occ = occ /\ Live(prompts, p)

\* The id names the newest record opened under it; an older one keeps the id
\* only while it is retained, under which a fresh id is minted.
OpenedAs(prompts, occ) ==
  IF occ # 0 /\ \E p \in 1..Len(prompts) : prompts[p].occ = occ THEN 0 ELSE occ

\* Mutant: the record of the gate that is replaced stays open.
ShowGateKeepsPrior(sv, view, occ, dialog) ==
  LET same    == sv.gate.view = view /\ (occ = 0 \/ sv.gate.occ = occ)
      retired == sv.prompts
      opens   == view # Blank
      prompts == IF opens THEN Append(retired, NewPrompt(OpenedAs(retired, occ))) ELSE retired
      gate    == [view |-> view, prompt |-> IF opens THEN Len(prompts) ELSE 0,
                  occ |-> occ, serial |-> sv.serial + 1]
      told    == IF opens THEN dialog ELSE sv.told
  IN  IF same THEN [sv EXCEPT !.told = told]
      ELSE IF opens /\ Throws(retired, occ)
      THEN [sv EXCEPT !.prompts = retired, !.threw = TRUE]
      ELSE [sv EXCEPT !.prompts = prompts, !.gate = gate, !.serial = sv.serial + 1,
                      !.told = told]

\* handlePermissionChange(gate): the same gate shown again changes nothing, any
\* other one replaces the pending gate and its record.
ShowGate(sv, view, occ, dialog) ==
  LET same    == sv.gate.view = view /\ (occ = 0 \/ sv.gate.occ = occ)
      retired == Transitioned(sv.prompts, sv.gate.prompt, "cancelled")
      opens   == view # Blank
      prompts == IF opens THEN Append(retired, NewPrompt(OpenedAs(retired, occ))) ELSE retired
      gate    == [view |-> view, prompt |-> IF opens THEN Len(prompts) ELSE 0,
                  occ |-> occ, serial |-> sv.serial + 1]
      told    == IF opens THEN dialog ELSE sv.told
  IN  IF same THEN [sv EXCEPT !.told = told]
      ELSE IF opens /\ Throws(retired, occ)
      THEN [sv EXCEPT !.prompts = retired, !.threw = TRUE]
      ELSE [sv EXCEPT !.prompts = prompts, !.gate = gate, !.serial = sv.serial + 1,
                      !.told = told]

\* handlePermissionChange(null).
CloseGate(sv) ==
  [sv EXCEPT !.prompts = ProviderClosed(sv.prompts, sv.gate.prompt), !.gate = NoGate]

\* A route retires the pending gate itself.
Dropped(sv, prompts) == [sv EXCEPT !.prompts = prompts, !.gate = NoGate]

\* The exit of the session's process.
EndSession(sv) ==
  [sv EXCEPT !.gate = NoGate, !.ended = TRUE,
             !.prompts = [p \in 1..Len(sv.prompts) |->
                            IF sv.prompts[p].state = "open"
                              THEN [sv.prompts[p] EXCEPT !.state = "unavailable"]
                              ELSE sv.prompts[p]]]

-----------------------------------------------------------------------------
(* The agent.                                                              *)

\* A new dialog replaces whatever the screen shows; its options may paint later
\* and Claude's notification (OSC 777) comes later still.
Raise ==
  /\ agent.alive /\ agent.asking = 0 /\ agent.last < Dialogs
  /\ agent' = [agent EXCEPT !.asking = agent.last + 1, !.painted = agent.last + 1,
                            !.last = agent.last + 1, !.filled = FALSE, !.osc = TRUE]
  /\ UNCHANGED <<runner, host, up, down, input, server, req>>

Paint ==
  /\ agent.alive /\ agent.painted # 0 /\ ~agent.filled
  /\ agent' = [agent EXCEPT !.filled = TRUE]
  /\ UNCHANGED <<runner, host, up, down, input, server, req>>

\* The dialog ends without the server: the host's keyboard, a timeout.
Dismiss ==
  /\ agent.alive /\ agent.asking # 0
  /\ agent' = [agent EXCEPT !.asking = 0]
  /\ UNCHANGED <<runner, host, up, down, input, server, req>>

Erase ==
  /\ agent.alive /\ agent.painted # 0 /\ agent.asking = 0
  /\ agent' = [agent EXCEPT !.painted = 0, !.filled = FALSE]
  /\ UNCHANGED <<runner, host, up, down, input, server, req>>

\* The agent reads the keys written to it; the dialog it shows takes them, be
\* they an answer or composer text.
ReadKeys ==
  /\ agent.alive /\ input # <<>>
  /\ input' = Tail(input)
  /\ agent' = [agent EXCEPT !.asking = 0,
                 !.hit = @ \/ /\ Head(input).kind = "text" /\ agent.asking # 0
                              /\ Head(input).told = agent.asking]
  /\ UNCHANGED <<runner, host, up, down, server, req>>

-----------------------------------------------------------------------------
(* The runner: announcements to the server, keys from it.                  *)

\* onPermissionChange(gate).  The pty-host names the gate by an occurrence id
\* that it keeps while the view stays the same.
Announce(view) ==
  IF hosted
    THEN LET id == IF host.view = view THEN host.id ELSE host.next
         IN  /\ host' = [view |-> view, id |-> id,
                         next |-> IF id = host.next THEN host.next + 1 ELSE host.next]
             /\ up' = Append(up, [ev |-> "gate", view |-> view, occ |-> id,
                                  dialog |-> agent.painted])
             /\ UNCHANGED server
    ELSE /\ server' = ShowGate(server, view, 0, agent.painted)
         /\ UNCHANGED <<host, up>>

\* onPermissionChange(null).
AnnounceClose ==
  IF hosted
    THEN /\ host' = [host EXCEPT !.view = None]
         /\ up' = Append(up, [ev |-> "gone"])
         /\ UNCHANGED server
    ELSE server' = CloseGate(server) /\ UNCHANGED <<host, up>>

Silent == UNCHANGED <<host, up, server>>

\* detectLivePrompts up to its await: what the triggering chunk carried.
BeginPass(notify) ==
  /\ agent.alive /\ runner.pass = "none"
  /\ notify = "permission" => agent.osc
  /\ notify = "waiting" => agent.asking = 0
  /\ runner' = [runner EXCEPT !.pass = notify]
  /\ agent' = [agent EXCEPT !.osc = IF notify = "permission" THEN FALSE ELSE @]
  /\ UNCHANGED <<host, up, down, input, server, req>>

\* Claude says that it needs a permission: a gate, with or without its options.
ClaimByNotice ==
  LET view == IF Screen = None THEN Blank ELSE Screen
  IN  /\ runner.pass = "permission"
      /\ runner' = [runner EXCEPT !.open = view, !.pass = "none"]
      /\ Announce(view)

\* The turn ended, or a prompt marker is back and the box is gone.
CloseOpen ==
  /\ runner.pass # "permission" /\ runner.open # None
  /\ runner.pass = "waiting" \/ Screen = None
  /\ runner' = [open |-> None, closed |-> Screen, pass |-> "none"]
  /\ AnnounceClose

RefreshOpen ==
  /\ runner.pass = "chunk" /\ runner.open # None /\ Screen # None
  /\ runner' = [runner EXCEPT !.open = Screen, !.pass = "none"]
  /\ Announce(Screen)

\* A box painted ahead of its notification, unless it is the one just closed.
ClaimByPaint ==
  /\ runner.pass = "chunk" /\ runner.open = None
  /\ Screen \notin {None, runner.closed}
  /\ runner' = [runner EXCEPT !.open = Screen, !.pass = "none"]
  /\ Announce(Screen)

\* Nothing to announce: the suppression of a box that is gone is lifted, an
\* open gate with no marker in the chunk stays open.
PassIdle ==
  /\ \/ /\ runner.pass = "chunk" /\ runner.open = None /\ Screen \in {None, runner.closed}
        /\ runner' = [runner EXCEPT !.pass = "none",
                                    !.closed = IF Screen = None THEN None ELSE @]
     \/ /\ runner.pass = "waiting" /\ runner.open = None
        /\ runner' = [runner EXCEPT !.pass = "none"]
     \/ /\ runner.pass = "chunk" /\ runner.open # None /\ Screen = None
        /\ runner' = [runner EXCEPT !.pass = "none"]
  /\ Silent

\* detectLivePrompts after its await.  It does not look whether the session is
\* still there.
EndPass ==
  /\ ClaimByNotice \/ CloseOpen \/ RefreshOpen \/ ClaimByPaint \/ PassIdle
  /\ UNCHANGED <<agent, down, input, req>>

\* isPermissionAnswer: any option's keys answer any gate that has options.
Answers(open, keys) == keys.kind = "answer" /\ open \in Contents

\* sendKeys closes the gate it believes its bytes answer.
RunnerAfter(keys) == IF Answers(runner.open, keys) THEN [runner EXCEPT !.open = None] ELSE runner

\* sendKeys, called by a route: the server after it, the rest of the system after it.
ServerAfterKeys(sv, keys) ==
  IF ~hosted /\ Answers(runner.open, keys) THEN CloseGate(sv) ELSE sv

Sent(keys) ==
  IF hosted
    THEN down' = Append(down, keys) /\ UNCHANGED <<runner, input>>
    ELSE /\ input' = Append(input, keys)
         /\ runner' = RunnerAfter(keys)
         /\ UNCHANGED down

NothingSent == UNCHANGED <<runner, input, down>>

\* The pty-host takes a keys request.
HostKeys ==
  /\ hosted /\ down # <<>>
  /\ down' = Tail(down)
  /\ IF agent.alive
       THEN /\ input' = Append(input, Head(down))
            /\ runner' = RunnerAfter(Head(down))
            /\ IF Answers(runner.open, Head(down)) THEN AnnounceClose ELSE Silent
       ELSE UNCHANGED <<input, runner, host, up, server>>
  /\ UNCHANGED <<agent, req>>

\* handleExit.  A detector pass that awaits the screen is not cancelled.
Exit ==
  /\ agent.alive
  /\ agent' = [agent EXCEPT !.alive = FALSE, !.asking = 0]
  /\ input' = <<>>
  /\ runner' = [runner EXCEPT !.open = None, !.closed = None]
  /\ IF hosted
       THEN /\ up' = Append(up, [ev |-> "exit"])
            /\ host' = [host EXCEPT !.view = None]
            /\ UNCHANGED server
       ELSE server' = EndSession(server) /\ UNCHANGED <<host, up>>
  /\ UNCHANGED <<down, req>>

-----------------------------------------------------------------------------
(* The routes.  A request is idle, awaits the screen (reading), awaits it a *)
(* second time (rereading), or is done with a result.                      *)

Become(r, pc, result) == req' = [req EXCEPT ![r].pc = pc, ![r].result = result]

Await(r, p) ==
  req' = [req EXCEPT ![r] = [pc |-> "reading", prompt |-> p, view |-> server.gate.view,
                             serial |-> server.gate.serial, result |-> "none"]]

Refused(r) == Become(r, "done", "refused")

Keys(r) ==
  [kind |-> CASE route[r] \in {"prompt", "legacy"} -> "answer" [] OTHER -> route[r],
   told |-> server.told]

Known(p) == p \in 1..Len(server.prompts)

\* performAnswer's checks and the adapter up to its first await.  Answers to one
\* prompt run one at a time.
BeginPrompt(r, p) ==
  /\ route[r] = "prompt" /\ Known(p) /\ ~server.prompts[p].answering
  /\ IF Live(server.prompts, p) /\ server.gate.prompt = p
       THEN /\ server' = [server EXCEPT !.prompts[p].answering = TRUE]
            /\ Await(r, p)
       ELSE /\ server' = [server EXCEPT !.prompts = Transitioned(@, p, "unavailable")]
            /\ Refused(r)

\* handlePermissionAnswer up to its await.
BeginLegacy(r, p) ==
  /\ route[r] = "legacy" /\ Known(p)
  /\ IF server.gate.prompt = p THEN Await(r, p) ELSE Refused(r)
  /\ UNCHANGED server

\* handleRawKey up to its await.
BeginRawKey(r, p) ==
  /\ route[r] \in {"enter", "escape"} /\ Known(p)
  /\ IF ~server.ended /\ Live(server.prompts, p) /\ server.gate.prompt = p
       THEN Await(r, p) ELSE Refused(r)
  /\ UNCHANGED server

\* The composer text's arbitration: only a gate without options asks the screen.
WriteText(r) ==
  IF server.ended
    THEN Refused(r) /\ NothingSent
    ELSE Become(r, "done", "written") /\ Sent(Keys(r))

BeginText(r) ==
  /\ route[r] = "text"
  /\ \/ Pending /\ server.gate.prompt = 0 /\ Await(r, 0) /\ NothingSent
     \/ Pending /\ server.gate.prompt # 0 /\ Refused(r) /\ NothingSent
     \/ ~Pending /\ WriteText(r)
  /\ UNCHANGED server

Begin(r) ==
  /\ req[r].pc = "idle"
  /\ \/ /\ \E p \in 1..Len(server.prompts) :
             BeginPrompt(r, p) \/ BeginLegacy(r, p) \/ BeginRawKey(r, p)
        /\ NothingSent
     \/ BeginText(r)
  /\ UNCHANGED <<agent, host, up>>

\* performAnswer after a refusal of the adapter: the record is settled by the
\* refusal (terminal) or by a close that came meanwhile.
AfterRefusal(sv, p, terminal) ==
  LET prompts == [sv.prompts EXCEPT ![p].answering = FALSE, ![p].deferred = FALSE]
  IN  [sv EXCEPT !.prompts = IF terminal \/ sv.prompts[p].deferred
                               THEN Transitioned(prompts, p, "cancelled") ELSE prompts]

\* performAnswer after the write: a close deferred by it is dropped.
AfterWrite(sv, p, state) ==
  [sv EXCEPT !.prompts = Transitioned([sv.prompts EXCEPT ![p].answering = FALSE,
                                                         ![p].deferred = FALSE], p, state)]

\* permissionGateStillOpen: a screen that cannot be read does not veto.
StillOpen(r, seen) == seen = "unreadable" \/ seen = req[r].view

\* Mutant: the pending gate is not looked at again before the write.
WritePromptUnchecked(r) ==
  LET p == req[r].prompt
  IN  IF ~server.ended
        THEN /\ server' = AfterWrite(ServerAfterKeys(server, Keys(r)), p, "resolved")
             /\ Become(r, "done", "written") /\ Sent(Keys(r))
        ELSE /\ server' = AfterRefusal(server, p, FALSE)
             /\ Refused(r) /\ NothingSent

WritePrompt(r) ==
  LET p == req[r].prompt
  IN  IF server.gate.prompt = p /\ ~server.ended
        THEN /\ server' = AfterWrite(ServerAfterKeys(server, Keys(r)), p, "resolved")
             /\ Become(r, "done", "written") /\ Sent(Keys(r))
        ELSE /\ server' = AfterRefusal(server, p, FALSE)
             /\ Refused(r) /\ NothingSent

\* permissionAnswerAdapter after its first await.
ResumePrompt(r, seen) ==
  /\ route[r] = "prompt" /\ req[r].pc = "reading"
  /\ IF StillOpen(r, seen) THEN WritePrompt(r)
     ELSE /\ IF server.gate.prompt = req[r].prompt
               THEN Become(r, "rereading", "none") /\ UNCHANGED server
               ELSE server' = AfterRefusal(server, req[r].prompt, TRUE) /\ Refused(r)
          /\ NothingSent

\* ... and after its second: no gate is painted at all.
ResumePromptAgain(r, seen) ==
  LET p == req[r].prompt
      cleared == IF seen = None /\ server.gate.prompt = p
                   THEN Dropped(server, server.prompts) ELSE server
  IN  /\ route[r] = "prompt" /\ req[r].pc = "rereading"
      /\ server' = AfterRefusal(cleared, p, TRUE)
      /\ Refused(r) /\ NothingSent

\* handlePermissionAnswer after its await: what is pending now is not compared
\* with the gate the client named.
WriteLegacy(r) ==
  LET p == req[r].prompt
      marked == [server EXCEPT !.prompts[p].answering = TRUE]
  IN  IF server.ended
        THEN server' = AfterRefusal(server, p, FALSE) /\ Refused(r) /\ NothingSent
        ELSE /\ server' = AfterWrite(ServerAfterKeys(marked, Keys(r)), p, "resolved")
             /\ Become(r, "done", "written") /\ Sent(Keys(r))

ResumeLegacy(r, seen) ==
  /\ route[r] = "legacy" /\ req[r].pc = "reading"
  /\ IF StillOpen(r, seen) THEN WriteLegacy(r)
     ELSE /\ server' = Dropped(server, Transitioned(server.prompts, server.gate.prompt, "cancelled"))
          /\ Refused(r) /\ NothingSent

\* handleRawKey after its await: a refusal spares another gate, a success drops
\* whatever is pending.
WriteRawKey(r) ==
  LET state == IF route[r] = "enter" THEN "resolved" ELSE "cancelled"
      sv    == ServerAfterKeys(server, Keys(r))
  IN  IF server.ended
        THEN UNCHANGED server /\ Refused(r) /\ NothingSent
        ELSE /\ server' = Dropped(sv, Transitioned(sv.prompts, req[r].prompt, state))
             /\ Become(r, "done", "written") /\ Sent(Keys(r))

ResumeRawKey(r, seen) ==
  /\ route[r] \in {"enter", "escape"} /\ req[r].pc = "reading"
  /\ IF StillOpen(r, seen) THEN WriteRawKey(r)
     ELSE /\ server' = IF server.gate.prompt = req[r].prompt
                         THEN Dropped(server, Transitioned(server.prompts, req[r].prompt, "cancelled"))
                         ELSE server
          /\ Refused(r) /\ NothingSent

\* handleSendInput after the look at the screen for a gate without options.
ResumeText(r, seen) ==
  /\ route[r] = "text" /\ req[r].pc = "reading"
  /\ LET stale == seen = None /\ server.gate.serial = req[r].serial
     IN  /\ server' = IF stale THEN Dropped(server, server.prompts) ELSE server
         /\ IF server'.gate.view = None
              THEN WriteText(r)
              ELSE Refused(r) /\ NothingSent

Resume(r, seen) ==
  \/ ResumePrompt(r, seen) \/ ResumePromptAgain(r, seen)
  \/ ResumeLegacy(r, seen) \/ ResumeRawKey(r, seen) \/ ResumeText(r, seen)

\* getOutputLines: a session that is gone has no screen.
Seen == IF agent.alive THEN Screen ELSE "unreadable"

Reading(r) == req[r].pc \in {"reading", "rereading"}

\* In one process the answer is acted on at once; the pty-host sends it behind
\* the events it has already sent.
ReadScreen(r) ==
  /\ Reading(r)
  /\ IF hosted
       THEN /\ \A i \in 1..Len(up) : up[i].ev = "screen" => up[i].to # r
            /\ up' = Append(up, [ev |-> "screen", to |-> r, seen |-> Seen])
            /\ UNCHANGED <<server, req>> /\ NothingSent
       ELSE Resume(r, Seen) /\ UNCHANGED up
  /\ UNCHANGED <<agent, host>>

\* The server takes the next message of the pty-host.
Deliver ==
  /\ up # <<>>
  /\ up' = Tail(up)
  /\ LET m == Head(up)
     IN  \/ /\ m.ev = "gate" /\ server' = ShowGate(server, m.view, m.occ, m.dialog)
            /\ UNCHANGED req /\ NothingSent
         \/ /\ m.ev = "gone" /\ server' = CloseGate(server)
            /\ UNCHANGED req /\ NothingSent
         \/ /\ m.ev = "exit" /\ server' = EndSession(server)
            /\ UNCHANGED req /\ NothingSent
         \/ m.ev = "screen" /\ Resume(m.to, m.seen)
  /\ UNCHANGED <<agent, host>>

-----------------------------------------------------------------------------
Routes == {"prompt", "legacy", "enter", "escape", "text"}

Init ==
  /\ content \in [1..Dialogs -> Contents] /\ route \in [Requests -> Routes]
  /\ hosted \in BOOLEAN
  /\ agent = [alive |-> TRUE, asking |-> 0, painted |-> 0, filled |-> FALSE, last |-> 0,
              osc |-> FALSE, hit |-> FALSE]
  /\ runner = [open |-> None, closed |-> None, pass |-> "none"]
  /\ host = [view |-> None, id |-> 0, next |-> 1]
  /\ up = <<>> /\ down = <<>> /\ input = <<>>
  /\ server = [gate |-> NoGate, prompts |-> <<>>, serial |-> 0, told |-> 0, ended |-> FALSE,
               threw |-> FALSE]
  /\ req = [r \in Requests |-> [pc |-> "idle", prompt |-> 0, view |-> None, serial |-> 0,
                                result |-> "none"]]

Step ==
  \/ Raise \/ Paint \/ Dismiss \/ Erase \/ ReadKeys
  \/ \E notify \in {"chunk", "permission", "waiting"} : BeginPass(notify)
  \/ EndPass \/ HostKeys \/ Exit \/ Deliver
  \/ \E r \in Requests : Begin(r) \/ ReadScreen(r)

Next == Step /\ UNCHANGED setup

Spec == Init /\ [][Next]_vars

-----------------------------------------------------------------------------
(* Properties.                                                             *)

Views == Contents \cup {None, Blank}

Used(routes) == \E r \in Requests : route[r] \in routes

\* The variables keep their types.
TypeOK ==
  /\ agent \in [alive : BOOLEAN, asking : 0..Dialogs, painted : 0..Dialogs, filled : BOOLEAN,
                last : 0..Dialogs, osc : BOOLEAN, hit : BOOLEAN]
  /\ runner \in [open : Views, closed : Contents \cup {None},
                 pass : {"none", "chunk", "permission", "waiting"}]
  /\ host \in [view : Views, id : Nat, next : Nat]
  /\ server.gate \in [view : Views, prompt : 0..Len(server.prompts), occ : Nat, serial : Nat]
  /\ \A p \in 1..Len(server.prompts) :
       server.prompts[p] \in [state : {"open", "resolved", "cancelled", "unavailable"},
                              occ : Nat, answering : BOOLEAN, deferred : BOOLEAN]
  /\ \A r \in Requests : /\ req[r].pc \in {"idle", "reading", "rereading", "done"}
                         /\ req[r].result \in {"none", "written", "refused"}

\* An open record that no answer is being written for is the pending gate's: a
\* prompt that clients still see as open can be answered, and text is kept off
\* its dialog.  Announcements, closes, refusals and writes all touch the pair.
\* Raw keys are left out: handleRawKey drops a gate that replaced the one it
\* answered and leaves its record open.
OpenRecordIsPending ==
  ~Used({"enter", "escape"}) =>
  \A p \in 1..Len(server.prompts) :
    Live(server.prompts, p) /\ ~server.prompts[p].answering => server.gate.prompt = p

\* Keys written for a prompt go out while that prompt's gate is the pending one,
\* whatever was announced while the request awaited the screen
\* (permissionAnswerAdapter's second look at pendingPermission).
KeysGoToNamedPrompt ==
  [][\A r \in Requests :
       (route[r] = "prompt" /\ req[r].result # "written" /\ req'[r].result = "written")
         => server.gate.prompt = req[r].prompt]_vars

\* The same of the legacy route, which checks the gate that a client names for this.
LegacyKeysGoToNamedPrompt ==
  [][\A r \in Requests :
       (route[r] = "legacy" /\ req[r].result # "written" /\ req'[r].result = "written")
         => server.gate.prompt = req[r].prompt]_vars

\* A request that is refused, or that writes, retires no gate but the one it
\* names; text names the gate it found without options.
SparesOtherGates ==
  [][\A r \in Requests :
       (/\ route[r] \in {"text", "prompt"}
        /\ Reading(r) /\ req'[r] # req[r] /\ Pending /\ server'.gate # server.gate)
         => IF route[r] = "text" THEN server.gate.serial = req[r].serial
                                 ELSE server.gate.prompt = req[r].prompt]_vars

\* Keys and refusals alike leave alone the gates they were not meant for.
AnswersSpareOtherGates == KeysGoToNamedPrompt /\ SparesOtherGates

\* An answer reported as accepted resolved its record: the close that its own
\* keys cause does not cancel it (whileAnswering, performAnswer).
AcceptedIsResolved ==
  ~Used({"legacy"}) =>
  \A r \in Requests :
    route[r] = "prompt" /\ req[r].result = "written"
      => server.prompts[req[r].prompt].state = "resolved"

\* One prompt is answered at most once, however many clients answer it.
AnsweredOnce ==
  \A q, r \in Requests :
    (/\ q # r /\ route[q] = "prompt" /\ route[r] = "prompt"
     /\ req[q].result = "written" /\ req[r].result = "written")
      => req[q].prompt # req[r].prompt

\* Composer text never lands on a dialog that had been announced to the server,
\* with its options, before the text was accepted.  The legacy route is left
\* out: its refusal drops a gate that replaced the one it names.
TextSparesAnnouncedDialogs == ~Used({"legacy"}) => ~agent.hit

\* No announcement throws: the callback that delivers it has nothing above it
\* that would catch.  A host that announces a gate again, under the id it has, finds
\* its record pending or settled.  Raw keys are left out, see RepaintNeverThrows.
AnnouncementNeverThrows == ~Used({"enter", "escape"}) => ~server.threw

\* A repaint is opened under a fresh id when the streamer has dropped the gate on its
\* own, which "leaves that id terminal" (the comment in promptRegistry.open).
RepaintNeverThrows == ~server.threw

\* Announcements and answers settle: every announcement is taken, an answer that
\* was accepted resolved its prompt, and no prompt is answered twice.
GatesInv == TypeOK /\ AnnouncementNeverThrows /\ AcceptedIsResolved /\ AnsweredOnce
=============================================================================
