------------------------------ MODULE MCDialogs ------------------------------
(***************************************************************************)
(* The dialogs of a session for TLC: permission gates and question menus   *)
(* on small instances.  The two do not share state here (a session that    *)
(* shows both keeps two pending entries), so every behaviour exercises one *)
(* of the two, `dialog`, while the other stays in its initial state.       *)
(***************************************************************************)
EXTENDS PermissionGates, QuestionMenus, TLC

CONSTANTS
  c1, c2,          \* contents of dialogs
  r1, r2,          \* requests
  MaxUp            \* messages the pty-host may have under way

VARIABLES
  dialog,          \* what the behaviour exercises, "gates" or "menus"
  twoAskers        \* whether two requests answer one menu

dialogVars == <<dialog, twoAskers, vars, questionVars>>

-----------------------------------------------------------------------------
(* Permission gates: at most two dialogs, two clients.                     *)

\* Two dialogs that look the same, and two that differ.
Dialogue == content[1] = c1

RouteOrder == <<"text", "prompt", "enter", "escape", "legacy">>
Rank(name) == CHOOSE k \in 1..5 : RouteOrder[k] = name

\* Which request is which does not matter.
Ordered == Rank(route[r1]) <= Rank(route[r2])

\* Clients that answer by prompt id or send text to a runner in the server's
\* process; two that answer identical gates of a runner in the pty-host.
PromptInit ==
  /\ Init /\ Dialogue /\ Ordered /\ route[r2] = "prompt"
  /\ IF hosted THEN content[2] = c1 /\ route[r1] = "prompt"
               ELSE route[r1] \in {"text", "prompt"}

\* Text against each other route, and the two routes that answer a prompt, with
\* the runner in the server's process.
RoutesInit ==
  /\ Init /\ Dialogue /\ Ordered /\ ~hosted
  /\ IF route[r2] = "legacy" THEN route[r1] \in {"text", "prompt"}
                             ELSE route[r1] = "text" /\ route[r2] # "text"

\* Two clients on the legacy route.
LegacyInit == Init /\ Dialogue /\ hosted /\ \A r \in Requests : route[r] = "legacy"

\* A raw Enter, and text, to a runner in the pty-host whose dialogs look alike.
RawKeyInit ==
  /\ Init /\ hosted /\ \A d \in 1..Dialogs : content[d] = c1
  /\ route[r1] = "enter" /\ route[r2] = "text"

\* Of two requests on one route, nor does it matter which begins.
InTurn ==
  route[r1] = route[r2] /\ req'[r2].pc # "idle" => req'[r1].pc # "idle"

MCNext == Next /\ Len(up') <= MaxUp /\ InTurn

-----------------------------------------------------------------------------
(* Question menus.                                                         *)

PathOrder == <<"prompt", "legacy", "enter", "escape">>
PathRank(name) == CHOOSE k \in 1..4 : PathOrder[k] = name

\* Two requests over one menu, in a transcript of one's own, or one request over
\* two menus.  Which look and which request is which does not matter, nor what
\* another writer asks where there is none; what it asks looks like the last menu.
MenuInit ==
  /\ QuestionsInit
  /\ look[1] = c1
  /\ look[0] = IF writer = "own" THEN c1 ELSE look[2]
  /\ IF twoAskers THEN writer = "own" /\ look[2] = c1 /\ PathRank(path[r1]) <= PathRank(path[r2])
                  ELSE path[r2] = "prompt"

MenuBound == IF twoAskers THEN menu'.last <= 1 ELSE ask'[r2].phase = "idle"

Parked == /\ content = [d \in 1..Dialogs |-> c1] /\ ~hosted
          /\ route = [r \in Requests |-> "text"]

-----------------------------------------------------------------------------
(* The two together.                                                       *)

GatesOnly ==
  /\ dialog = "gates" /\ twoAskers = FALSE
  /\ QuestionsInit
  /\ look = [m \in 0..Menus |-> c1] /\ writer = "own" /\ path = [r \in Askers |-> "prompt"]

GatesNext == MCNext /\ UNCHANGED <<dialog, twoAskers, questionVars>>

LegacySpec == GatesOnly /\ LegacyInit /\ [][GatesNext]_dialogVars

RawKeySpec == GatesOnly /\ RawKeyInit /\ [][GatesNext]_dialogVars

DialogInit ==
  \/ GatesOnly /\ (PromptInit \/ RoutesInit)
  \/ dialog = "menus" /\ twoAskers \in BOOLEAN /\ Init /\ Parked /\ MenuInit

MenusNext == QuestionsNext /\ MenuBound /\ UNCHANGED <<dialog, twoAskers, vars>>

DialogNext == (dialog = "gates" /\ GatesNext) \/ (dialog = "menus" /\ MenusNext)

DialogSpec == DialogInit /\ [][DialogNext]_dialogVars

\* What the server holds as pending and the records agree, for permission gates
\* and for questions.
DialogsInv == OpenRecordIsPending /\ TextSparesAnnouncedDialogs /\ QuestionsInv
=============================================================================
