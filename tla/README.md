# A TLA+ model of the threadbase streamer

The streamer runs coding agents (Claude Code, Codex, Cursor, Copilot) in
pseudo-terminals and lets phones and desktops watch and drive them over HTTP and
WebSockets. It is one Node process, optionally with a second one (the pty-host)
that keeps the terminals alive across restarts. Paths below are relative to the
repository's `src/`.

Node runs every block between two awaits, timers or callbacks to completion. The
hard part of the program is therefore not data races but what happens *between*
such blocks: a prompt that is replaced while its answer looks at the screen, a
timer that outlives the process it was set for, a reply that is older than the
events it is followed by. The modules make each such block one action.

## The system

| component | state | operations | modelled in |
|---|---|---|---|
| prompt registry (`services/prompts/promptRegistry.ts`) | records with revision, state, deadline; per record a queue of answers, in-flight and remembered outcomes; event sequence per session | open, update, transition, providerClosed, answer (queued, around an awaited adapter), invalidateSession, sweep, expiry timer, cap | `PromptRegistry` |
| permission gates (`pty-manager.ts`, `pty-host/host.ts`, `api/handlers/sessions.handlers.ts`) | what the runner believes is on the screen, the pending gate of the server, the record, keys under way | detector passes, announce, close, four answer routes, composer text, exit | `PermissionGates` |
| question menus (same files, `server.ts`, `server-wiring.ts`) | pending question, its content key, the record, 60 s timers | detector and transcript announcements, re-sync, prompt, `/answer` and raw-key routes, gone, exit | `QuestionMenus` |
| pty-host and its mirror (`pty-host/host.ts`, `remote-session-runner.ts`) | sessions held, prompt snapshots, subscriber; the streamer's mirror of them | spawn, hold, exit, status, subscribe, gate events, disconnect, restart | `PtyHostMirror` |
| Claude runner, input (`pty-manager.ts`) | session map, shared starts, boot queue, submit polls | start, spawn, hold, exit, dispose, queue, flush, paste, Enter | `PtyInput` |
| Claude runner, turns (`pty-manager.ts`) | status, turn phase, start graces, quiet checker | submit, busy and idle signals, late start, gates, lapse, quiet | `PtyTurn` |
| hold policy (`server.ts`, `sessions.handlers.ts`) | grace timer, kill-on-idle latch, defer count, watchers, store record | hold, stop, subscribe, status callback, expiry, reaper, exit, resume | `HoldPolicy` |
| sealed REST (`e2ee/rest-window.ts`, `e2ee/record.ts`, `api/middleware/e2ee-envelope.middleware.ts`) | receive window, answered bitmap, outstanding counters | unseal, seal once, abandon, destroy | `RestChannel`, abstractly `ReplayGuard` |
| encrypted sockets (`e2ee/context.ts`, `auth.middleware.ts`, `ws.routes.ts`, `ws-hub.ts`, `devices.routes.ts`) | contexts with tickets and deadlines, sockets, the hub's clients | open, upgrade, first frame, send, rekey by re-open, sweep, revoke, close | `SealedSockets` |
| handshake and admission (`e2ee/noise.ts`, `e2ee/record.ts`, `e2ee.routes.ts`, `replay-cache.ts`, `rate-limit.ts`) | handshake states, record counters, replay cache, budgets | both messages, seal and unseal, `/open`, eviction | `Handshake`, `OpenAdmission` |
| pairing (`pair-store.ts`, `server.ts`, `devices.repository.ts`) | the live code, device rows | mint, exchange in its steps, remove | `Pairing` |
| other runners (`codex-`, `cursor-`, `copilot-pty-runner.ts`) | boot, queue, turn, cards, timers of one session | chunks, passes over the screen, submits, watches, hold, exit | `CodexTurn`, `CursorTurn`, `CopilotTurn` |
| sessions at boot (`session-registry-boot.ts`, `managed_sessions`) | rows over restarts, verdicts, stubs | spawn, transition, probe, rehydrate, auto-resume, retention, crash | `SessionBoot` |
| claims (`sessions.handlers.ts`) | requests and their probes, bindings, idempotency keys | resume, adopt, fork, terminate | `SessionClaims` |
| session store (`session-store.ts`, `server-wiring.ts`) | the record clients are shown of a session | start, status, phase and suggestion callbacks, exit, forget, restart | `SessionRecord` |
| multi-agent sessions (`sessions.handlers.ts`, `agent-*`) | the turn that holds the lock, reports seen, history | start, send, report, fail | `AgentSessions` |
| outside processes and the list (`process-discovery.ts`, `processSessionIds.ts`, `session-store.ts`) | the sweep and its cache, rows | sweep, list, page, terminate | `ProcessDiscovery`, `SessionPages` |
| transcripts (`session-watchers.ts`, `external-tails.ts`, `conversationWatcher.ts`) | who seeks, owns and tails a file | seek, bind, tail, evict, sweep | `TranscriptTails` |
| conversation cache (`scanner-manager.ts`, `conversation-cache.ts`, `services/cache-integrity/`, `inheritedHistory.ts`) | scanners, refresh passes, offset index, rows, alert of missing files, fork links | scan, refresh, tail, backfill, reconcile, detect, resolve, inherit | `ScanRefresh`, `OffsetIndex`, `CacheRows`, `ForkHistory` |
| push (`services/push/`, `push.repository.ts`) | notifiers, activities, tokens, preferences | status changes, sends, renewals, registrations, receipts, quiet hours | `PushNotices`, `PushDelivery` |
| relay (`relay/`) | tunnel, streams, credit | dial, attach, frames, close | `RelayTunnel` |
| updater (`updater/`) | release directories, links, `version.txt` | check, download, verify, swap, restart, prune | `Updater` |
| host pressure (`services/host-pressure/`) | level, last warning | sample, tell | `HostPressure` |

How they interact: a runner reports by callbacks (status, gate, question, ready)
wired in `server-wiring.ts`. The status callback drives the hold policy and, on
exit, settles every prompt. Gate and question callbacks fill the server's two
pending entries and open records in the registry; a client's answer goes through
the registry to an adapter that awaits the screen and writes keys to the runner.
With the pty-host, the callbacks and the keys travel over a socket and the
runner's synchronous questions are answered from the mirror. Every client frame,
sealed or not, passes the authentication middleware and the hub. Through the
relay's tunnel the same requests reach a local ingress. Beside the terminals, file
watchers report what the agents write to their transcripts; the lines go to the
clients, the offset index and the cache's rows, and to the scanners that parse the
files anew. Requests to start, resume, adopt, fork or terminate a conversation
meet agents that run in other terminals, which a sweep over the processes finds.
Each status change also goes to the push notifiers, and into the row that the next
boot recovers the session from.

What makes each correct:

* registry: one writer per record, an answer resolves the revision it was given
  for, a settled record stays settled, no event is skipped, every answer gets an
  outcome;
* gates and menus: keys reach the dialog the client saw, once; pending entry and
  record agree; an answered dialog is not shown again; composer text does not
  answer a dialog;
* mirror: it invents and forgets no session, and every start ends;
* runners: one process per id, texts stay in their session, in order and apart, a
  session whose agent works is not reported finished, and none stays running
  without anything that will look at it again;
* hold policy: nobody who was promised otherwise loses a session, timer and latch
  do not contradict each other, a request to hold takes effect in the end;
* secure transport: every counter is taken and answered once, one socket per
  context, no plaintext after the seal, revocation cuts everything; an answer of
  the handshake has keys of its own, a message 1 opens one context;
* pairing: a code pairs once, and what a phone was told is true of its row;
* boot and claims: a session cut short is offered again, the row of a live one
  stays, one agent per session whoever asks, a request that joined a start gets
  its end;
* list: one row each, no outside row for an agent of ours, nothing is killed
  for a conversation it never ran, a session that stays is delivered once;
* transcripts and cache: every line once to its session, rows and index true to
  the files, a refresh asked for is run, no row goes while a human is being asked;
* push: each turn end is told once and stands, a card is renewed once, what the
  relay answers is put down to the right token;
* relay: credit is conserved, streams arrive whole;
* updater: a run that dies leaves a service that starts, and none prunes the
  release that runs;
* host pressure: no flicker, no level nobody earned, every client knows.


## Not modelled

* **The rest of the session store and the facade over the runners**: names, counts,
  times; the facade finds the runner of an id.
* **Lifecycle of the service** (dev takeover, launchd, markers): it shells out to the
  service manager of the platform. Its races are listed under *Seen while modelling*.
* **Authentication of clients and capabilities**: lookups without state of their own;
  the upgrade, which has state, is in `SealedSockets`.
* **Parsers of transcripts and screens**: pure functions over terminal text; the
  modules that consume them take any result.
* **Browsing, uploads, search, backup, diagnostics, projects**: request and response
  over files and SQL without protocol state.
* **Assembly, configuration, migrations**: construction; the callbacks wired there are
  part of the actions that call them.
* **Ciphers**: symbolic wherever a property needs them.
* **Pinned versions and the dry run of the updater**: they choose the version, or only
  report it; a run that installs is modelled whole.

Parts of modelled components that are left out are named in the header of the module
and in the notes of `PROJECT.json`.

## Modules

`X` is a component, `MCX` an instance of one or several for TLC. The theorems are in
eight modules, each about the components of one subsystem: `PromptRegistryProofs`,
`DialogsProofs` (gates and menus), `PtySessionProofs` (input, turns, holds),
`WireProofs` (the mirror of the pty-host, the relay's tunnel),
`SecureTransportProofs` (REST channel, encrypted sockets), `NetworkProofs` (pairing,
admission, handshake, updater, host pressure, notices), `SessionsProofs` (registry at boot,
claims, session record; Codex, Cursor, Copilot, multi-agent mode) and `HistoryProofs`
(cache, offset index).

**PromptRegistry.** An `entry` is a JavaScript record object; `byId` is the map
from ids to records, so a record may be written to after its id names another
one. `task[e][k]` is the in-flight or remembered outcome of idempotency key `k`.
`performAnswer` is split at its only await: `Refuse` and `BeginWrite` before it;
`WriteLands`, `WriteOvertaken`, `WriteFails`, `WriteFindsGone` after it. Time is a
counter; a deadline that is due is either swept by the next operation or found by
its timer (`ExpiryTimer`), which may be late.

**PermissionGates.** One session, in one process or with the runner behind the
pty-host's socket (`hosted`). The agent paints dialogs late, notifies later,
erases them after they ended. A detector pass is two steps (`BeginPass`,
`EndPass`) since the chunk that started it is old when the screen arrives. Each
route (prompt, legacy, Enter/Escape, text) is split at its await. Contents are
model values; two dialogs may look alike. The Claude side (`Raise`, `Paint`,
`Dismiss`, `Erase`, `ReadKeys`) is external.

**QuestionMenus.** One session with the runner in the server's process. A menu is
announced by the screen and by the transcript, in either order. `writer` tells
whether someone else writes the transcript, known to the server or not. The
record is `prompts`, with the revision a transcript confirmation raises. A
detector pass carries nothing but the session's existence across its await, so it
is one step, and one more may run after the exit. One assumption about Claude: a
menu has reached the transcript before the next one is shown (a turn of the model
lies between).

**PtyHostMirror.** Host and streamer with a FIFO in each direction. `connect()` is
split at every await: status, seed, subscribe, restore, and a chunk carries any number of
messages, all handled before the awaiting code goes on. Two things make a mirror wrong,
and two histories keep them, session by session and for one connection. `missed`: the
start or end of the session was told to nobody, because it fell between the status reply
and the subscription, or because the streamer that asked for the start is gone.
`overwritten`: an event of the session was handled before the code that a reply of the
same chunk resumes (`Restore`, `Adopt`), which puts the older state over it.
`MirrorIsFaithful` says that a settled mirror is right about every other session, and
`GatesAreFaithful` that the gates are right about every session not overwritten, a missed
one included. The run `mirror_gap` shows that a missed end does leave the mirror wrong for
good. A request fails once at most: its entry in `pending` is gone after that.

**PtyInput.** The session map is keyed by id while callbacks belong to processes:
`HandleExit(p)`, `Chunk(p)` and `PromptMarker(p)` find whichever session holds the id. Time is counted
in steps of `SUBMIT_DELAY_MS`; polls and flushes are separate timers. `overlap`
says whether an id can be started again before its last process exited; the
server's probe against this is best effort.

**PtyTurn.** Turn tracking of one booted session. `turn` is the code's `turnOpen`; `graces` is a set of timers because a new submit leaves older
ones running. Claude is external: it may start late, never, by itself, or open a
gate; its busy and idle signals are assumed to arrive in order.

**HoldPolicy.** One id over any number of processes. Timer and latch belong to
the id. `Ends` is the status callback of an end, which fires the latch and may
record a hold over it. Status changes are free: what decides them is in `PtyTurn`.

**RestChannel** and **ReplayGuard.** Bitmaps are sets of positions modulo `Width`,
with the high-water mark and the same clearing of positions as the code, so an
aliasing mistake shows. The middleware is split at the body read and at the
handler. `ReplayGuard` is the abstract channel: taken at most once, answered at
most once and only after it was taken. `RestChannel` implements it (property
`ImplementsReplayGuard`, `INSTANCE ReplayGuard WITH taken <- ..., answered <- ...`).

**SealedSockets.** Contexts of one device from `/open` to destruction with their
clocks, the upgrade that spends a ticket (split where the middleware hands over to
the route, where the 101 can fail), the hub's first-frame clock, maintenance sweep
and revocation. Clocks hold the time that remains; zero is due.

**SessionRecord.** The record of the store beside the session of the runner it
mirrors. A detection pass may outlive its session (`orphan`). `ShownInItsTime`: a
phase or a suggestion is shown only while there is one; `ShownAsRead`: it is the
runner's; `LifecycleIsTrue`: what a gone session says about how it ended.

**SessionBoot.** Rows of `managed_sessions` over crashes, clean closes, reboots of the
machine and reused pids; the recovery of a boot runs beside the listener.
`CutShortIsOffered`, `StubsHoldNoProcess`, and the action property `RowOfLiveKept`.
The cap on what one boot offers (`REHYDRATE_MAX`) is left out: one session never
reaches it.

**CodexTurn, CursorTurn, CopilotTurn.** One session of each runner. Their maps are
keyed by id (Codex, Cursor) or their callbacks carry the session (Copilot), and each
knows its turn from the screen alone. `BootIsWatched`, `SubmitIsWatched`,
`RunningIsWatched`: nothing stays running that no timer or pass will look at again.
`HeldBackForAReason`, `OneTextPerSubmit`, `WaitingMeansIdle`, `CardIsShown`.

**SessionClaims.** Requests to resume, adopt and fork one conversation, each split at
its awaits, against agents of ours and of other terminals. `OneAgentPerSession`,
`JoinersAreServed`.

**AgentSessions.** The lock of the multi-agent mode (`currentTurnId`), a start or signal
that may fail though it was carried out, and reports that repeat in any order.
`OneTurnAtATime`, `LockFollowsTurn`, `RepeatsAreSilent`.

**TranscriptTails.** Seek, bind and tail; files grow between any two operations.
`RolloutsAreDistinct`, `FoundWithoutGap`, `FoundWithoutEcho`, `SessionsKeepTheirTails`,
`TailsAreBounded`.

**ScanRefresh.** Scanner instances that replace one another and the refreshes of one
file. `PostWriteObserved`: a refresh after a write is covered by a parse that starts
after it; `QueuedIsDriven`, `NobodyForgotten`, `PathsAreArmed`.

**OffsetIndex.** Rows and file state of the index of one transcript. `RowsAreTrue`,
`WholeUnlessHoled`, `PendingIsRead`.

**CacheRows.** Rows against files on disk, and the alert before rows of missing files
go. `IndexSound`, `AlertSaved`, and the action property `RowsStay`: no row is dropped
while a human is being asked about it, but by the resolution.

**ForkHistory.** Links of forked rollouts and the prefixes they inherit.
`HistoryIsInherited`, `MissingIsGone`, `PrefixesAreFrozen`.

**Pairing.** The one live code and the device rows; cryptography is symbolic.
`TokenPairsOnce`, `PairedIsPinned`.

**OpenAdmission** and **Handshake.** Budgets and replay cache of `/open`: `OpensOnce`,
`ContextsAreOfDevices`, `SeenAreOfDevices`. Both handshakes and the records under their
keys: `AnswersItsOwn`, `KeysAgree`, `NoncesOnce`, `RecordsAsSealed`.

**RelayTunnel.** Tunnel, streams and credit. `CreditConserved`, `StreamsIntact`,
`AlwaysOneTunnel`.

**PushNotices, PushDelivery.** Notifications and activities of a session
(`FinishedOnce`, `FinishedStands`, `RunningIsOwed`, `RenewedOnce`, `OpenWhileRunning`), where a
turn whose end was guessed, and maybe told, resumes without a new message of the user
(`TurnResumes`, as Claude, Cursor and Copilot do on a busy signal); their tokens
(`AllAreServed`, `StreaksAreOwn`, `RetiredIsGone`, `ErasedKeepsNothing`), and when none
are wanted (`QuietAsSet`, checked against the definition of a window).

**Updater.** One run of `update` that may die between any two system calls.
`LinksLead`, `VersionNotAhead`, `ServingKept`, `HealthIsTheNewOne`.

**HostPressure.** Bars per platform and the level told. `NoFlicker`, `LevelEarned`,
`EveryoneWarned`.

**ProcessDiscovery** and **SessionPages.** Sweeps over pids that change hands:
`KillsWhoRanIt`, `OneRowEach`, `OwnChildrenHidden`. Pages of a list that changes:
`SteadyDeliveredOnce`.

`MCSessions`, `MCSecureTransport`, `MCDialogs`, `MCPromptRegistry`, `MCServices`
and `MCNetwork` put parts that share no state into one run: a variable chosen at the
start says which part a behaviour exercises while the others stay in an initial state,
so the parts add up instead of multiplying. `MCServices` has twelve parts, `MCNetwork`
eleven; `StoreInv`, `AgentsInv`, `HistoryInv`, `NoticesInv` and `ListInv` are the
conjunctions of the invariants of the parts they name, each looked at in the behaviours
of its part.

## Runs

| run | what it shows | bounds |
|---|---|---|
| `registry` | types, reachability of live records, what clients are told is what is, finality; every answer settles | one record with two idempotency keys, revisions up to 3, a deadline of one tick, clock to 2; or two records over two ids, cap 1, retention 0 |
| `dialogs` | accepted means resolved, keys go to the named prompt and once, a refusal or composer text spares other gates, open records are pending; question and record agree, no phantom, own-screen questions stay | two dialogs, alike or not; two requests; two messages on the socket; menus: two requests over one menu or one over two |
| `mirror` | what the mirror and the gates can be wrong about, and nothing else; every start is answered | one session, two gates, two restarts, three messages each way, chunks of any length; the theorem is for any number of sessions |
| `secure_transport` | window and sealer agree, an owed answer stays armed, `ReplayGuard` is implemented; one socket per context, no plaintext after the seal, revocation, eviction order, dead contexts close | width 3, counters 0..5, two requests; three contexts, two sockets, cap 2, clocks of one or two |
| `sessions` | no false finish, every turn end is reported; timer and latch exclude each other, running sessions end for a reason, promises to kill are kept, graces end; texts stay home, in order and are submitted | grace 2 and late start 4 ticks; two watchers, the code's limit of four defers; two processes, two texts, two callers, a poll of two steps |
| `services` | the invariants of the parts of `MCServices`; rows of live sessions and rows under an alert stay | registry: one Codex session, two pids, three runs, one reboot, two spawns; record: two suggestions; agents: two texts, one or two starts, two cards; claims: two requests, one terminal; workflow: two turns, four reports, an LRU of two; tails: two sessions, two transcripts; scan: two scanners, two writes; index: two lines, two files, one upset; cache: two files and the budgets of `CacheBudgets`; forks: three rollouts of two lines |
| `network` | the invariants of the parts of `MCNetwork` | pairing: two phones, two codes, two exchanges at a time, one attempt before the next is regained; admission: two devices and a stranger, three messages, two remembered; handshake: two phones, two servers, two handshakes and answers; relay: two streams, window 2, chunks up to 3; push: one activity, two turns that may resume, one gate, one restart, three turns, registrations and restarts in all; delivery: two tokens, two sends in batches of one; quiet hours: every window of a week of three days of three hours; updater: releases up to 3, two kept, one death; pressure: one client, three platforms; discovery: two pids, two conversations; pages: three ids, two keys |
| `legacy_answer_after_close` | the legacy route writes to a gate that is gone | two dialogs, two legacy clients |
| `question_resynced_mid_answer` | a refused answer did write its keys | one menu, one client |
| `mirror_gap` | a session that ended between status and subscription stays in the mirror | one session |
| `pty_predecessor_exit` | the exit of a held process drops its successor | three processes |
| `raw_key_drops_replacement` | a raw Enter drops the gate that replaced the one it answered, and the host's repaint throws | two dialogs alike, a raw Enter and a text, three messages on the socket |

Why these bounds are enough to be interesting: two of everything that can be
confused with its like (dialogs of the same look, requests, records on one id,
processes on one id, contexts of one device, pids, phones), one more than every limit
(three contexts with a cap of two, counters over two widths, a chunk larger than the
relay's window, revisions past the answered one, one more expiry than defers), and time
long enough for every timer to be late relative to every other. Each property of a
passing run has at least one mutation of the code that breaks it on these bounds. The
operators commented `Mutant:` are these mutations; no specification uses them.

Runs with `CHECK_DEADLOCK FALSE`: the dialogs, mirror and single-component violation
runs, where the system really stops when the dialogs or starts of the bound are used up
and the session has ended, and `services` and `network`, whose parts end with their
counts or are really over (a paired phone, an exhausted handshake). `registry`,
`secure_transport` and `sessions` are checked for deadlock.

**Fairness.** `registry`: promise reactions run and an adapter call returns
(`Settle`). `mirror`: the event loops go on and a spawn ends either way; nothing
says that the socket stays up. `sessions`: the quiet checker, the clock and the timers
of the runner fire, a process may stay silent; a grace timer of the hold policy expires
unless requests replace it for ever (weak fairness of `Expire`: it is enabled while the
timer is armed, and `setTimeout` fires). `secure_transport`: time passes and the hub's
interval fires. `services` and `network` state safety only: what their parts must
eventually do depends on files, agents, services and networks that owe nothing. No
client, agent or network is assumed to do anything.

## What is proved

TLAPS proves the theorems below for every value of the constants: any clients, ids,
sockets, processes, widths, limits and periods, and behaviours of any length. Each
invariant follows from a stronger one that is inductive; what the stronger one adds is
the reason why the code is right, so it is named here. TLC checked each of them on the
instance of its run first.

| module | theorem | states | inductive invariant, and what it adds |
|---|---|---|---|
| `PromptRegistryProofs` | `RegistryIsSafe`, `TypeCorrect`, `LivePromptsReachable` | `RegistryInv` and its parts | `RegistryInv` itself: `IdsNameRecords` (what an id names was created under it) and `QueuesHaveRecords` (only created records have queued answers) are what `LiveIsReachable` needs, because a queue outlives the id of its record |
| | `SettledForGood` | `TerminalIsFinal` | the same |
| | `AnswersAndEventsAreTrue` | `ToldAsItIs` | an event numbers every revision of a session's prompts: each step publishes as many events as it raises revisions, a sum over the records (finite by `EntriesAssumption`) |
| `DialogsProofs` | `GatesHold` | `GatesInv` | `GatesIInv`: of every occurrence id in the server, what was announced since and what is on the socket has it or a later one (`Follows`), and only later ones if its record is live without its gate (`Ahead`); two requests are at one record only when the session is over (`Apart`); a record marked as being answered is spared by a close (`IsMarked`) |
| | `AnswersKeepToTheirs` | `AnswersSpareOtherGates` | the same: the request's own gate is the pending one when its keys are written |
| | `GatesStayPending` | `OpenRecordIsPending`, `TextSparesAnnouncedDialogs` | `GatesIInv` with two more. `LostAreDeferred`: a live record whose gate is gone is being answered, and the close waits for the answer. `TextKept`: behind the announcement of a dialog every message shows it (`QueueBelieves`), a close among them only while a key is on its way that ends the dialog, so a route that looks before its await and after it sees the dialog and writes no text (`ServerBelieves`, `LooksAtGate`) |
| | `QuestionsHold` | `QuestionsInv` | `MenusIInv`: what is pending asks what its record's menu asked and comes from where the record does (`PendingIsTrue`); all menus but the last are in the transcript (`MenusInTurn`); an answered menu still painted is known by its key (`AnsweredIsKnown`) |
| | `NoAnsweredMenuReturns`, `TranscriptKeepsScreen` | `NoPhantomQuestion`, `ScreenQuestionKept` | the same, step by step |
| | `DialogsHold` | `DialogsInv` | the two together |
| `WireProofs` | `MirrorHolds` | `MirrorInv` | `MirrorIInv`: of every session that was told of (`Said`), the last message under way about it, or what the mirror starts from, says what the host holds but for what a hold under way will release (`MirrorFollows`); the gates of every session not overwritten (`Kept`) alike, from the snapshots of the subscribe reply on (`GatesFollow`); what a status reply under way says (`ReplyAgrees`), what is on the wires in each phase of `connect()` (`WireInv`) and who asked for what is being started (`PhaseInv`) |
| | `RelayHolds` | `RelayInv` | `RelayIInv`: the relay's view of a stream once it has taken what is under way to it (`Final`), with what is still queued, is what the local server wrote (`ComesOut`); every byte of a window is with one end, on a wire or in a queue (`WindowKept`); on the wire to us an OPEN comes first and finds a stream nothing was said of (`OpeningIsNew`), and after a RESET nothing is expected (`ResetMeansClosed`) |
| `PtySessionProofs` | `TurnTyped`, `NoFalseFinish` | types, `NotFinishedWhileWorking` | `TurnInv`: `OwedTurn`, which phase the turn is in while Claude works, is about to paint a gate, or has one open. Without it the lapse of a timer would close a turn that is merely submitted while Claude works |
| | `HoldTyped`, `HoldsStayExclusive`, `PromisesKept` | types, `HoldsExclusive`, `KillPromiseKept` | `HoldInv`: every step that arms the timer or the latch takes off the other, every step out of a running turn takes the latch with it |
| | `TurnsEndForAReason` | `RunningEndsForAReason` | `DefersAreSeen`: the defer count never exceeds the expiries since somebody last watched |
| | `InputHolds` | `InputInv` | `InputIInv`: where every text is on its way (`QueueInOrder`, `FlushInOrder`), what a booting process was not yet sent (`NothingTypedYet`), and who may run (`StartsAlone`, `RunsAlone`) |
| `SecureTransportProofs` | `RestHolds`, `NoncesAreFresh` | `RestInv`, one record per counter | `RestIInv`: what a set bit of the window and of the sealer's bitmap says of the one counter of the window that has its position (`WindowTracks`, `SealerTracks`), and that the two marks are equal |
| | `ChannelImplementsGuard` | `ImplementsReplayGuard` | the refinement: every step takes or answers a counter of `ReplayGuard`, or stutters |
| | `SocketsHold`, `RevocationHolds` | `SocketsInv`, `RevocationCuts` | `SocketsIInv`: a ticket not yet spent has no socket (`TicketUnspent`), an open socket is the hub's (`OpenIsAttached`), only what was open carried a plaintext frame (`PlainWasOpen`); the cap is a counting argument over the order of eviction (`Survivors`) |
| | `EvictionSparesUsed` | `UsedOutlivesUnused` | the same order (`UnusedGoFirst`) |
| `NetworkProofs` | `PairingHolds` | `PairingInv` | `PairingIInv`: a code nobody spent, and every code to come, has registered nobody (`UnspentPairedNobody`) |
| | `AdmissionHolds` | `AdmissionInv` | `AdmissionIInv`: a message 1 that opened a context is in the cache or among what it let go (`OpenedIsRemembered`) |
| | `HandshakeHolds` | `HandshakeInv` | `HandshakeIInv`: what every chaining key was made of (`BegunAs`, `AnsweredAs`, over the shape of symbolic keys, `KeyShape`), what every record and reader of a direction holds (`FramesInv`, `ReadersInv`) |
| | `UpdaterHolds` | `UpdaterInv` | `UpdaterIInv`: what a run knows at each of its steps (`RunSound`), and that whatever was started before `version.txt` was published reports an older version than the run waits for (`ServedSound`) |
| | `PressureHolds` | `PressureInv` | `PressureInv` itself, metric by metric, carried to the worst of them |
| | `NoticesHold` | `NoticesInv` | `PushIInv`: the turn that may still be reported is the last one and runs, a turn that runs, resumed after it was told finished or not, is owed its end (`RunningIsOwed`), an open prompt holds no report back (`OpenTurnRuns`, `PromptHoldsBack`), what opens an activity belongs to a turn that runs or ended late (`StartsRun`), and no sweep ended an activity it had not claimed (`UnclaimedHasNoEnd`); `DeliveryIInv`: a token of a batch under way that the relay will call dead has no app by then, or was registered since (`DeadAreGone`); `QuietIInv` with the arithmetic of the week: the walk over today's and yesterday's window finds the hours of the windows as sets (`HourAfter`, `CoveredIs`) |
| `SessionsProofs` | `ClaimsHold` | `ClaimInv` | `ClaimIInv`: an id has one launch at most, is promised exactly as long, and has no agent meanwhile (`OneLauncher`, `LaunchIsPromised`, `LaunchIsFirst`) |
| | `StoreHolds` | `StoreInv` | `BootIInv`: the row of a session that runs is of this run and not yet complete (`LiveIsNew`), what is owed keeps a row that is offered, and no verdict or probe in flight is against it (`OwedIsOfferable`, `OwedIsSpared`); `RecordIInv`: a session that runs has a record of its own that knows of no failure the session does not have (`AttachedIsKept`) |
| | `LiveRowsStay` | `RowOfLiveKept` | `BootIInv`, step by step |
| | `AgentsHold` | `AgentsInv` | `CodexIInv`, `CopilotIInv`: what the record alone must say for its session to have an end to come (`CodexSound`, `HasAnEnd`), and that what was painted will be looked at (`LookedAt`); `CursorIInv`: what is submitted, on its way and held back is in the order it was sent (`TextsInOrder`); `OrchestraIInv`: the LRU holds the reports by their last deliveries, and one that it does not hold was followed by as many others as it has room for (`LruHolds`) |
| `HistoryProofs` | `RowsOfFilesStay` | `RowsStay` | `CacheIInv`, step by step: what every writer of a row keeps of it (`RowsAreKept`) |
| | `CacheHolds` | `CacheInv`, the cache's part of `HistoryInv` | `CacheIInv`: the records of the rows, of the files and of the scan under way with their fields (`CacheTypes`); the index follows from `RowsAreKept` |
| | `IndexHolds` | `IndexInv`, the index's part of `HistoryInv` | `IndexIInv`: for each prefix of the file that the state or a walk speaks of, the rows name the lines of its messages, whatever the file grows to (`IndexFits`), and the state a tail goes on from is of the file it tails (`TailMay`) |

Assumptions are the named `ASSUME`s of the modules and nothing else: finite sets of
records, natural limits, widths, caps, attempts and releases kept of at least one, a
grace period no longer than the late-start limit, special values (`None`, `NoEntry`,
`NoContext`, `Stranger`) that are not members of the sets they are told apart from. TLC
evaluates them on every run.

The proofs changed the models where they could not be reasoned about. `CASE` with guards
that overlap says nothing about order, where the code's chains of `if` do
(`HostPressure`, `SessionRecord`, `CacheRows`): those are `IF`s now. The claim that no
announcement throws was false behind raw keys on a pty-host session, which the bounds of
the run had not shown: it now excludes them, and the run `raw_key_drops_replacement`
shows the case. The claim that a settled mirror is the host's was false of a start whose
requester is gone when it succeeds, which takes a lost connection and a restart: the
history `missed` has it, and nothing is assumed of when sessions start and end.

`RelayInv` is about data of any length: sums over frames, what a sequence of frames makes
of a view, a loop. The induction theorems of the library take an operator, which the
provers cannot instantiate, so `WireProofs` first proves induction over sets
(`Induce`, from the well-foundedness of `<`), that a function given by recursion exists
(`Recursion`), and from both the laws of a fold over a sequence (`FoldAppend`,
`FoldHead`, `FoldKeeps`); `SumOf` and `Flushed` of the model are such functions.

What stays with the model checker:

* Liveness (`NothingIsLost`, `EveryStartSettles`, `EveryTextIsSubmitted`,
  `EveryTurnEndIsReported`, `GraceEnds`, `DeadContextCloses`): the prover does no
  reasoning about ENABLED.
* `TailInv`: it rests on `SelectSeq`, which is recursive and opaque to the prover.
* `HistoryInv` as a whole: `ForkInv`, its part about forks, is about histories flattened
  and filtered (`FlattenSeq`, `SelectSeq`), which the prover cannot see into. The parts
  about the cache and the index are proved; `ScanInv` is not yet.
* `ListInv`: not yet proved.

## Findings

Five runs show the program doing something its own comments exclude; `PROJECT.json`
quotes the lines. In short:

* the legacy permission route does not look at the pending gate again after its
  await; the prompt route does;
* the question adapter looks at the prompt id again but not at its revision, so a
  transcript confirmation in between turns a written answer into
  `prompt_revision_mismatch` and leaves a live record without a pending question;
* the mirror is seeded with a status reply older than its subscription;
* exit and data callbacks find sessions by id, so a held process that exits late
  takes its successor out of the map;
* a raw key drops the pending gate without comparing it, so a gate that came while the
  key was on its way is gone, and the next repaint of its dialog finds no record to
  update (`raw_key_drops_replacement`; found by a proof that needed the opposite).

## What does not hold

Modules keep, with the comment "Does not hold", statements that one would expect and TLC
refutes, each at the bounds of its run unless said otherwise. They are not runs of
their own.

| statement | what happens | text of the repository |
|---|---|---|
| `EndedIsFreed` (`AgentSessions`) | a `done` report is noted as seen before its answer is appended; an append that fails leaves the worker's repeat "deduped", and the turn keeps the lock: every input gets 429. A failed signal frees the lock whoever holds it, though it may have been carried out | `docs/multi-agent-mode.md` on `currentTurnId` and on 429 |
| `BindingSurvives`, `ForkedOncePerKey` (`SessionClaims`, `Claimants = {r1, r2}`) | an adopt records no `boundConversationId` and the row's is nulled; a Codex resume refused after its spawn deletes row and binding; the idempotency key of a fork is noted after the outcome | comments of `resumeSession` and `handleFork` |
| `TurnsGetTheirDefers` (`HoldPolicy`) | the defer count survives the turn that earned it, and the next turn is cut short by it | comment at `server.ts:452` |
| `HintsAgree` (`SessionRecord`) | a late turn takes the suggestion off the record only, and it is not shown again while it stands | none |
| `EndedStaysEnded` (`PushNotices`; one activity, two turns, no gate, one registration, no restart) | a renewal starts an activity again that the turn ended: `listRenewable` ignores `expires_at` | `liveActivityNotifier.ts:95`, `liveActivitySender.ts:179` |
| `RegisteredStaysLive`, `ErasedHearsNothing` (`PushDelivery`) | a late `DeviceNotRegistered` revokes a token registered anew; a registration admitted before its device was revoked leaves a row behind; a send goes on to rows it read before | upsert comment; `devices.routes.ts:48` |
| `OwnChildrenSpared`, `DroppedStayAway`, `DeadRecordsYield` (`ProcessDiscovery`) | ownership is asked before the awaits and the pid changes hands; an older sweep lists the dropped row again; a dead record hides the outside process | `session-store.ts:113`, `session-store.test.ts` |
| `ReasonsAreCurrent`, `ClearedByReadings` (`HostPressure`) | one previous level for all metrics: one between its leave and enter bars keeps the level another earned | comment "Enter a level at the more extreme bar" |
| `NeverTwice` (`SessionPages`) | a session that moves is delivered on two pages | documented as racy |
| `IgnoredStay`, `AlertNamesRows`, `IgnoredUnnamed`, `StampTellsContent`, `TailOnce` (`CacheRows`) | ignored rows go at the next reconcile; rows go while the alert's backup is awaited; a detection under way names ids ignored meanwhile; a parse is stamped with the file as it is now; the tail repeats lines | `docs/superpowers/specs/2026-07-18-cache-integrity-alert-design.md:49` |
| `SubagentsKeepTheirTails` (`TranscriptTails`) | the poll of sub-agents closes the tail of a path a session has adopted | none |
| `WindowIsWhole` (`OffsetIndex`; two lines, one file, one upset) | a wipe during a backfill leaves the window short | `conversations.handlers.ts:1402` "so the response is never wrong" |
| `CoveredByLaterParse` (`ScanRefresh`; two callers, one write) | a refresh joins a pass of an instance that has been replaced | `scanner-manager.ts:402` |
| `NeverSilentlyShort` (`ForkHistory`; one reader) | chains deeper than eight are answered short without a reason; so is one whose source went between prefix and link | comment in `inheritedHistory.ts` |

## Seen while modelling

Without a text of the repository, or a property, to hold them against.

* *Gates and menus.* An exit can overlap a detector pass, which then announces a gate or
  a question for a session that has ended. The `!stillOpen` branches drop whatever
  question is pending, not the one they looked for. A transcript question the screen
  shows later keeps the origin `jsonl`, and an undetected second writer can replace it.
  An answered menu that left the screen before its transcript line arrives is shown
  again.
* *Claude runner, holds.* A grace timer outlives its process, and a latch that fires on
  an exit records a hold over a crash; a grace period of zero expires at once.
  Start-grace timers of earlier turns can lapse a later one. Two queued texts can be
  submitted as one when the first waits long for silence.
* *Codex.* `openPicker` and its card survive the exit; a second flushed text is typed
  without rechecking dialogs; closing one dialog flushes before the next one of the same
  pass is registered. A failed fresh start stays listed, a failed resume is forgotten.
* *Cursor.* Callbacks are looked up by id; a text typed over a late-resumed turn gets no
  end; direct sends within the submit window clear or join one another; the fallback
  reports the turn of an opening prompt as waiting.
* *Copilot.* `sendInput` has no boot queue, and its watch can settle "ready" at boot.
* *Registry at boot.* `rehydrateSkipReason` says rows with a `failureReason` are still
  offered, while the reconcile completes failed rows, which `listRecoverable` leaves out;
  a failed verdict may stamp the row of a session resumed while the probes ran.
* *Claims.* The contended mark stays if the forced start throws; an adopt kills only the
  one owner it found; `selfPtyEndedAt` takes an outside agent's earlier writes for an
  echo of ours.
* *Tails.* A session that ends during the awaits of a bind still gets its tail; a stale
  external entry blocks the next one for up to five minutes; dump-then-watch of Claude
  may lose a line; two Codex or Cursor sessions of one project may bind each other's.
* *Scanner, index, cache.* Two rescans that await one scanner both go on; a failing one
  drops its stale paths; `extendMessageIndex` ignores the file's identity; the cap of
  1000 missing files is applied on save; deferred unlinks are applied though the file is
  back; skeleton rows count one too many.
* *Forks.* A link asked for before its first line is written is cached as "not a fork".
* *Multi-agent.* Answers are appended under the session's id while a resumed session
  reads its conversation's; a start answered 503 leaves its record running.
* *Sockets.* An upgrade lost between its ticket and its 101, or refused for a mismatched
  credential or an unreadable store, leaves a promoted context that counts against the
  cap. The pty-host's orphan reaper counts sessions held, not spawns under way; two
  hosts that both find nothing can delete each other's socket.
* *Pairing, admission.* A sealed pairing whose registration fails spends its code; replay
  cache and budgets are lost on restart.
* *Relay.* A handshake after the socket opens has no timeout; data that arrives after the
  local server closed resets the stream and drops what was queued.
* *Push.* A crash after a claim loses the renewal; a turn ended by guess and confirmed
  late is never told; preferences stay with a token that changes devices.
* *Updater.* Nothing excludes two updaters; a release published between check and fetch
  is installed under the policy of the one before; on Windows a throw after the stop
  leaves the service down, and the link is missing between `rm` and `rename`.
* *Service.* Two takeovers overwrite one another's marker, and the loser's exit leaves
  it to a dead pid; the takeover's first signal handler exits without a clean shutdown;
  `docs/guides/prod-dev-lifecycle.md` keeps a hold of a dead pid that the code clears.
* *Discovery.* A registry file is believed for 60 s off Linux; a child of ours that has
  switched conversation is listed as external.

## Plan

1. Done: every component of the table above; what is left out is named under *Not
   modelled* and in the headers of the modules.
2. Proofs: done for the registry, the gates, the runner's input, turns and holds, the
   secure transport, pairing, updater, host pressure, notices, the registry at boot,
   claims, the session record, the agents other than Claude, the cache and the index of
   conversations. Left, in this order: the scanner (`ScanInv`), the list and the tails.
3. An abstract prompt (shown, answered once, gone) that both the gate and the menu
   paths refine.
