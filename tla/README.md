# Cicero: TLA+ models and proofs

Cicero is a voice assistant that runs as a daemon: browsers on a web socket, a
local microphone, Telegram and phone calls speak to one set of agents. What is
hard in it is not what a turn says but who owns it: turns that displace each
other, work that outlives the turn that asked for it, processes that start while
others stop, and news that finds nobody at home. This directory models those
parts in TLA+, checks them with TLC on small instances and proves the most
important results for every size with TLAPS.

Contents: [the system](#the-system), [the modules](#the-modules),
[what each run checks](#what-each-run-checks),
[fairness](#fairness), [what is proved](#what-is-proved),
[findings](#findings), [observations](#observations),
[what is not modelled](#what-is-not-modelled),
[plan](#plan), [how to run it](#how-to-run-it).

## The system

One JavaScript process, one thread. A method runs to completion between two
`await`s, so within the daemon an action of a model is the stretch between two
awaits and what interleaves is the order of events: frames of sockets, timers,
settled promises. Between processes (`daemon-pid.ts`) an action is one system
call. Source paths below are relative to the repository's `src/`.

| Component | State it keeps | Operations | Talks to | Hard behaviour | Correct when |
|---|---|---|---|---|---|
| Turn coordinator, `turn-coordinator.ts` | leases, the foreground turn per session, owners by turn id, recent ids, one controller per session | `start`, `emit`, `complete`, `fail`, `abort`, `abortAll`, `supersessionSignal` | called by every input surface; calls sinks | turns displace each other; ids are evicted and reused; deliveries settle after the end | one foreground turn per session, one terminal event per sink, maps exact |
| Daemon pid marker, `daemon-pid.ts` | a file naming pid and identity | claim, retire a stale marker, release, stop | other starters, through the file system | races of system calls, crashes, reuse of pids | one daemon serves, a crash blocks nobody, `stop` hits only the daemon |
| Daemon start and stop, `daemon.ts`, `process-lifecycle.ts`, `index.ts` | the parts that run, the pass of a cleanup, the command's exit | start with rollback, stop in stages, retry, signal | every part | a signal or a stop at any await of the start | what was started is stopped before the marker goes |
| Speech provider slots, `backends/hot-swap.ts` | generations with leases, retired and quarantined ones, a swap under way | `acquire`, `release`, `swap`, `stop` | managed child processes, the configuration | a stop in the middle of a swap; stops that hang, fail, are retried | no provider is stopped under a lease, no child outlives a confirmed stop |
| Managed servers, `backends/managed-server.ts`, `stt/faster-whisper.ts` | a handle, its supervisor, a queue of lifecycle calls | launch, adopt, revive, stop, terminate | the process tree of a server | a server dies, is revived and stopped at once; a reap fails | one tree at a time, the last stop wins, nothing hangs |
| Conversation lifecycle, `web-voice/server.ts`, `daemon.ts` | clients, grace timer, remembered ending, jobs, microphone, local turn | open, bye, close, grace timeout, job release, the daemon's departure check | sockets, microphone, the brain's deferred work | reconnects, endings while jobs run, three kinds of surface | deferred work is dropped when its conversation is over and never before |
| Notifications, `web-voice/server.ts` | the park, the drain and its latch, clients | `dispatchNotify`, `flushParked`, open, close, stop | the daemon's renderer, clients | renders await while clients come and go | nothing is lost, repeated, stranded or said after stop |
| Turn queue and admission, `web-voice/server.ts` | per socket: current and pending turn, its loop, its speculation; active jobs, background tasks | `queueTurn`, `acquireJob`, `abortSpec`, `close`, `stop` | handlers, coordinator, speculator | superseded handlers wind down, speculations change owner, one limit for all | the newest turn of a socket is the one that speaks; work is charged once; stop leaves nothing |
| Speculation, `web-voice/speculative.ts`, `brain/speculative-permissions.ts` | transcript, token buffer, permission hold | claim, adopt, abort, timeout | STT, brain | claimed, adopted or aborted while it starts | nothing speaks or acts before adoption; what is adopted is whole |
| Web replies, `web-voice/turn.ts` | the reader, filler, notices, slices, the parked reply | stream, cap, park, hand back, cut | brain, synthesis, page | a filler, notices, a watchdog and an interruption beside the reader | sentences are heard in order and accounted for, the floor comes back |
| Sentence coalescing, `speaker/coalesce.ts` | a bounded queue, two sleepers | push, take, cancel, close | brain, synthesis | lost wakeups; a source that cannot be interrupted | whole and in order, nothing waits for more |
| Audio pacing, `web-voice/audio-pacing.ts`, `makeSink` of `web-voice/server.ts` | outstanding clips, credit, one waiter | wait, track, acknowledge, time out | client's playback | acknowledgement against stall deadline | paced by what is played, `done` comes last |
| Switchboard, `brain/switchboard.ts` | pinned lane, pending transfer, voices, lane starts and stops | transfer, release, roll call, start, stop, restart | the brains of the lanes, conversation lifecycle | cold starts outlive turns and conversations; lifecycle calls overtake each other | a lane is pinned only by a live request; no agent outlives a stop |
| Brains, `brain/*.ts` | sessions of external agents, the fallback tier, approval gates | send, stream, abort, restart, approve | agent subprocesses | restarts inside turns, approvals that time out | one agent answers one prompt; an approval is for what was asked |
| Local microphone, `daemon.ts`, `listener/clap-listener.ts`, `listener/dictation.ts` | who records, what is to be resumed | voice mode, dictation, clap, reconciliation, stop | recorder processes | handoffs that overlap or fail | one recorder, given back to hands-free use |
| Listener, `listener/conversational.ts`, `listener/vad-recorder.ts` | activation epoch, captures in flight | activate, capture, barge in, confirm | recorder, STT, dispatch | captures of an earlier activation return late | no stale capture becomes a turn, an active listener listens |
| Speaker, `speaker/streaming-tts.ts`, `platform/system-tts.ts` | claim, pinned provider, player, fallback voice | speak, interrupt, stop | provider slots, player processes | a superseded turn goes on until it notices; a player cannot be ended | one voice at a time, every turn ends |
| Morning briefing, `notify/overnight-store.ts`, `notify/briefing-scheduler.ts`, `daemon.ts` | the queue file, the status file, a run | append, claim the day, send, acknowledge | Telegram, web server, the file system | crash between delivery and acknowledgement | news is kept until it is told, once a day |
| Watch over the board, `notify/kanban-watch.ts`, `notify/board-realtime.ts` | what was announced, the reminders' file, a timer, the feed | poll, event, nudge, stop | the board's server, notifications | events and stops in the middle of a poll | a long wait is fresh, never deaf, no reminder repeated |
| Everything else | | | | configuration, setup, command line, pages, dashboards, adapters to terminals and platforms, clients of speech services, separate Python programs | |

How they meet: every input surface asks the coordinator for a lease and speaks
through it; the web server additionally queues turns per socket, charges jobs,
and reports to the daemon when a conversation may be over; the daemon asks all
surfaces and, if none is live, tells the switchboard to drop deferred work; turns
take leases on the current speech providers, which a reconfiguration swaps under
them and which own the servers they launched; replies are merged, rendered and
paced on their way to a speaker or a page; the notifier hands notices to the web
server, which parks what nobody heard.

## The modules

| Module | Models | Kind |
|---|---|---|
| `TurnOwnership` | what the coordinator promises: a seat per session, each turn ends once | abstract specification |
| `TurnCoordinator` | `turn-coordinator.ts`, all of it | component; implements `TurnOwnership` |
| `DaemonPid` | `daemon-pid.ts`, by system call | component |
| `DaemonLifecycle` | start and stop of `daemon.ts` with `process-lifecycle.ts` and `index.ts` | composition of the three |
| `ProviderSlot` | `backends/hot-swap.ts`, by await | component |
| `ManagedServer` | `backends/managed-server.ts` as `stt/faster-whisper.ts` uses it, with `serialized-lifecycle.ts` | component |
| `ConversationEnd` | the conversation lifecycle of `web-voice/server.ts` with the departure check of `daemon.ts` | composition of the two |
| `NotifyPark` | `dispatchNotify` and the park of `web-voice/server.ts` | component |
| `WebTurnQueue` | turn queue, admission, speculation ownership and shutdown of `web-voice/server.ts` | component |
| `Speculation` | `web-voice/speculative.ts`, `brain/speculative-permissions.ts`, the adoption in `web-voice/turn.ts` | composition of the three |
| `WebReply` | `streamReply` of `web-voice/turn.ts` | component |
| `Coalescer` | `speaker/coalesce.ts` | component |
| `AudioPacing` | `web-voice/audio-pacing.ts` with `makeSink` of `web-voice/server.ts` | composition of the two |
| `Switchboard` | `brain/switchboard.ts` | component |
| `AcpBrain` | `brain/acp.ts` with its stored session and the spoken confirmation | component |
| `Microphone` | the microphone's owners in `daemon.ts`, `listener/clap-listener.ts`, `listener/dictation.ts` | composition of the three |
| `Listener` | `listener/conversational.ts`, `listener/vad-recorder.ts` | composition of the two |
| `StreamingSpeaker` | `speaker/streaming-tts.ts`, `speaker/tts-speaker.ts`, `platform/system-tts.ts` | composition of the three |
| `MorningBriefing` | `notify/overnight-store.ts`, `notify/briefing-scheduler.ts`, the run in `daemon.ts` | composition of the three |
| `KanbanWatch` | `notify/kanban-watch.ts`, `notify/board-realtime.ts`, `notify/nudge-state-store.ts` | composition of the three |
| `MCTurnCoordinator`, `MCDaemon`, `MCConversation`, `MCTurnPath`, `MCSwitchboard`, `MCNotifyPark`, `MCConversationEnd` | | instances for TLC |
| `TurnCoordinatorProofs`, `DaemonPidProofs`, `ProviderSlotProofs`, `ConversationEndProofs`, `NotifyParkProofs`, `WebTurnQueueProofs`, `SwitchboardProofs`, `AcpBrainProofs` | | theorems |

Variables carry the names of the fields they stand for. Where several fields
change only together they are one variable: `swap` and `stop` in `ProviderSlot`
are where these two methods stand and what they hold locally; `loop` in
`WebTurnQueue` is where the `while` of `queueTurn` waits. History variables
(marked in each `VARIABLES`) are written by actions and read only by properties.
Operators whose comment begins with "Mutant" are the definitions next to them
with a plausible bug; each property is violated when its mutant stands in, which
shows that the property says something about the code.

**TurnCoordinator.** One action per method, its listeners and sinks included.
`Start` has three outcomes: born aborted, background, foreground. The foreground
case aborts the captures and the turn it displaces, forgets the oldest id,
and may be cancelled by its own signal while it does so. Output is counted in
units; `Delivered` and `DeliveryFails` settle the promise of an earlier `emit`,
after which the turn may have ended. Left out: inputs refused for their size,
which change nothing, and sinks that call back into the coordinator from inside
`start`.

**DaemonPid.** A process instance stands for its identity, its token and the
inode of its marker. `Claim` is the loop of the claim with its eight attempts
(`MaxAttempts`), one step per `link`, read, identity lookup, hard link, `lstat`
and `unlink`; `Release...` the same of the release, `Stop` the stop command.
Another program may take a pid that became free. With `PidfdWorks` the stop
command holds a kernel handle; without, it signals the number, which may by then
be another program's (`daemon-pid.ts:555`). Left out: identity lookups that fail,
which refuse the claim, and the reuse of inodes.

**DaemonLifecycle.** `StartupStep` is the chain of awaits of `startComponents`,
`CleanupStep` the stages of `stop`, `CommandContinues` the command line. The parts
are one of each kind of ownership: the marker; control and web ingress; a
recognizer, which keeps the handle of a process that would not go, and the language
model, which like the voices drops it; the brain; dictation; and the tone detector,
for the helpers whose failed stop is only logged. What each does inside is another
module's. A release may fail everywhere the code awaits one. `abandoned` holds the
parts that would not go and that no cleanup waits for, `missed` the parts that came
up behind their cleanup. A part left by the first run is in the way of the second:
its marker refuses the claim, its web listener holds the port. Left out: a
`stop()` of the idle daemon, which asks the owners of a microphone again (3665),
and the process of a load that has not ended, which is cancelled and reaped on its
own.

**ProviderSlot.** A provider stands for its generation. `SwapNext` and
`StopNext` move the two methods from await to await; `CleanupNext` the release
of a retired generation; `Spawns`, `StartReturns`, `StartFails`,
`WarmupSettles`, `ProviderStops`, `ProviderStopFails` are the provider's side,
which may hang anywhere. A second swap during a swap is refused and stops a
candidate that was never started; that is left out.

**ManagedServer.** Two activities share a handle: the call at the head of the
provider's queue (`Provides`) and the supervisor that revives a server that died
(`Supervises`). Children are told apart, so that a tree that survives its handle
is still there (`lost`).

**ConversationEnd.** `Departed` is `noteInputSurfaceDeparted`, `EndNow` is
`endConversationNow`, `Released` is `releaseJob`. Deferred work is named by the
conversation whose turn asked for it, so that "dropped too late" and "dropped too
early" can be told apart; what the brain does with it is the switchboard's.

**NotifyPark.** `Quiet` says that microtasks run before the next event;
`drain = "pass"` is the drain between two awaits. A notice is a model value with a
clip or without, for anyone or also kept for the call. `credit` counts requests
to drain that no pass has served; requests that one pass will serve count once.

**WebTurnQueue.** `QueueTurn` admits a turn, ends the leases of both turns of its
socket and runs into the loop if it is idle (`Take`); `HandlerSettles`,
`Released` and `EndTurn` are the `finally` blocks; `Cleared` is the wait for a
speculation of another input. A speculation is what its owner sees of it:
live, aborting, uncertain (its abort failed), gone. Protocol 2 only: with
protocol 1 a verdict that arrives after the close of its socket is still acted
on, and that speculation stays until its five seconds without a claim are over.
A socket that said goodbye is one that sends nothing until it closes. Left out:
live captures and their deferred aborts, barge-in transcription, the latency
ledger, replayed turn ids (refused before any state changes).

**Speculation.** The probe's side is transcription, start of the brain, the pump
into the buffer, the tone and the hold on permissions; the final turn's side is
claim, check, veto, adoption, streaming. Either may be aborted at every await.

**WebReply.** A sentence is its number, a clip is sent or waits for credit. The
reader, the filler, the notices and the watchdog are activities of their own
that meet at the page; `Completed` and `CompletedOrCut` are the two ends.

**Coalescer.** A sentence is its length; the drain, the reader and the cancel
signal are the three actors.

**AudioPacing.** Times are relative to now and run by `Tick`. The gate's waiter,
the chain of sends, the handler's return and `done` are as in the code.

**Switchboard.** A public call is an accepted turn. `pending` is the deferred
transfer with who owns it, `laneStarts` and `laneStops` are the lifecycles of the
lanes' agents, `ops` the calls of `start`, `stop` and `restart` in order,
`primaryStops` the queue of the front desk's stops. `proc` is external: what
runs. Which outcome an utterance has is chosen, so no phrase is matched.

**AcpBrain.** One agent process with its session; turns hold a lock, `start`,
`stop`, `restart`, `discardSession` and the restart after a turn that ignores its
cancellation run beside them; a guarded tool asks for spoken consent.

**Microphone.** A recorder of each owner is free, held or being released;
`Task`s are the requests under way, with what they still wait for.

**Listener.** An activation is a number, its loop stands at an await; the
recorder is shared by all loops and by the one-shot capture of a confirmation.

**StreamingSpeaker.** A turn claims the speaker by a new epoch and goes on after
it was overtaken until it notices; a process that is told to end may fail to.

**MorningBriefing.** News are numbered; the two files survive a stop or a crash,
which may come at every await of a run.

**KanbanWatch.** A poll takes the board apart one task at a time, with an await
at each lookup and announcement; the feed's event asks for the next poll.

## What each run checks

Every run is exhaustive for its instance. Components that share no state are
checked in one run, one behavior exploring one of them: the variable `part`,
chosen at the start, says which, and the others keep their initial state. So the
states of a run are the sum of its parts' (a state with symmetry where the
configuration states it), and the fairness of a part is conditioned on it.

| Run | Part and its instance | States | Properties |
|---|---|---|---|
| `turn_ownership` | owners: 3 turns, 2 sessions, 2 ids of which 1 is remembered, 1 capture; no output but a clip too long | 94 k | `OwnershipExact`, `SupersededIffOvertaken`, `ImplementsOwnership` |
| | output: 2 turns of a session, 4 events, 2 deliveries in flight, budgets of one text and two clips | 117 k | `OutcomeExact` |
| `daemon` | marker: 3 starters, or 2 and another program, 3 pids, 2 attempts, 1 crash | 223 k | `MarkerIsTrue`, `StopHitsOnlyTheDaemon`, `LiveMarkerKept` |
| | microphone: 6 requests by voice mode, dictation and shutdown, one failing reap or recorder | 281 k | `MicrophoneIsShared` |
| | briefing: 4 news over 2 days, a queue of 2, 2 ends of the daemon, 1 failed write | 81 k | `BriefingIsExact` |
| `conversation` | conversation: 2 browsers, 2 jobs, 3 conversations, microphone, recordings that wait | 45 k | `DebtIsExact`, `ReportedWorkEnds`, `NeverDroppedUnderneath`, `SettledStartInheritsNothing` |
| | agent: 3 lifecycle calls and fewer with more turns, failures, a resumed session | 803 k | `SessionIsSound`, `ConsentIsExact` |
| | pacing: a protocol-2 turn with its clips, stall and deadline | 175 k | `CreditAndOrder` |
| | merge: sentences of lengths 1, 2 and 4, 4 of them, a call of 4 characters, a queue of 4 | 17 k | `MergedFaithfully` |
| | watch: 2 tasks, one of which waits for the other, 2 moves, or an end of the daemon with a move or a fault | 320 k | `WatchKeepsUp` |
| `notify_park` | 2 notices, a browser, a call, a park of 1; a third notice while at most one client is connected | 1.6 M | `ParkIsExact`, `ParkKeepsWhatIsOwed` |
| `turn_path` | queue: 2 browsers, 3 turns, 2 speculations, 2 jobs, 1 background task | 359 k | `NewestTurnOwns`, `ChargesExact`, `StopLeavesNothing` |
| | guess: one speculation and the final turn that may adopt it | 9 k | `AdoptionIsWhole` |
| | listener: 2 activations, a grace round, one unusual thing, 3 interrupt modes with or without the clap | 370 k | `MicrophoneGivenBack`, `ActivationsAreApart` |
| `switchboard` | switchboard: 2 lanes; 3 turns; 2 in a conversation that ends; 2 around a lifecycle call, or 1 when the conversation ends too; a turn and a job around one, a job across three | 101 k | `NothingFromOldTurns`, `NothingLeftAfterStop`, `LaneStartsNeverOverlap`, `StopNeverHostage` |
| | slot: 3 providers, 1 cancellable candidate; both follow and a stop or a lease, or one follows and up to 3 of them | 75 k | `SlotHolds`, `StopSettles` |
| | server: 5 launches or revivals, 5 calls, 2 faults | 24 k | `TreesAccounted`, `NothingHangs` |
| | voice: 2 turns of 2 sentences with an interruption or a process that does not end, or of 1 with that and an interruption or a stop | 96 k | `SpeechAccounted`, `TurnsEnd` |
| | reply: 2 sentences, chunks of up to 2, a parked reply of 1; 1 notice, or a repeated filler and a failure | 107 k | `ReplyIsWhole`, `FloorComesBack` |
| | daemon: 2 starts, 3 calls of stop, 2 parts that fail or will not go | 219 k | `EndsAreReal`, `SignalEnds` |

Six runs violate one property each, a sentence of the repository that the code
does not keep: `daemon_pid_stale_race`, `conversation_start_in_grace`,
`conversation_mic_departs`, `audio_done_lost`, `speculation_swallowed`,
`listener_deaf`; see [findings](#findings).

What the properties say, conjunct by conjunct:

- `OwnershipExact`: the coordinator's maps name exactly the running turns,
  although ids are evicted and reused. `SupersededIffOvertaken`: a capture is
  aborted if and only if a foreground turn of its session started since.
  `OutcomeExact`: one terminal event per sink, the signal agrees with the
  outcome, what was emitted is within the budget.
- `MarkerIsTrue`: the marker names the daemon that serves, and a crash never
  blocks the next start. `LiveMarkerKept`: no step removes a live daemon's marker
  but in the race of finding 1. `StopHitsOnlyTheDaemon`.
- `MicrophoneIsShared`: one recorder, none after stop, and hands-free use resumes
  when nothing else wants the device (but where a preempted dictation is renewed
  five presses long, see observations).
- `BriefingIsExact`: news is kept until it is told or newer ones push it out, a
  day is briefed once, what was told is told again only where the daemon ended or
  a write failed between delivery and acknowledgement.
- `DebtIsExact`: an ending is remembered only while its jobs run and nobody is
  attached or expected.
  `ReportedWorkEnds`: work of an ended conversation is dropped when everything
  that could adopt it is gone (but for jobs whose end nothing reports).
  `NeverDroppedUnderneath`: never earlier.
  `SettledStartInheritsNothing`: a conversation that starts after the last one
  settled inherits no deferred work, unless its grace period overlapped a job
  (finding 2).
- `SessionIsSound`: one agent process, one prompt at a time, and a session that
  was forgotten stays forgotten. `ConsentIsExact`: the agent does what was
  approved, and only that.
- `CreditAndOrder`: what is sent is bounded by what was played; `done` is sent
  after every clip; a wait fails only if no clip was acknowledged in time.
  `MergedFaithfully`: sentences are merged whole and in order,
  nothing waits for more text, the queue is bounded.
- `WatchKeepsUp`: a long wait begins with a fresh board, the watch always has a
  poll or a timer, reminders count on after a restart.
- `ParkIsExact`: the park and the work of the drain are bounded, what is held is
  unheard, and held for a reason. `ParkKeepsWhatIsOwed`: a notice leaves only by
  the park's rules, and nothing is published after shutdown began.
- `NewestTurnOwns`: only the newest turn of a socket speaks. `ChargesExact`: jobs
  are charged once and within the limit. `StopLeavesNothing`: stop resolves when
  no handler, job, task or speculation is left.
- `AdoptionIsWhole`: an adopted answer is heard whole and in order, and only an
  adopted speculation acts. `ActivationsAreApart`: nothing of an earlier
  activation is dispatched, and an active listener listens unless its recorder
  was cut: by an armed clap (finding 6) or a confirmation asked while the loop
  hears. `MicrophoneGivenBack`: no capture outlives its activation, but one whose
  recorder could not be reaped.
- `NothingFromOldTurns`: an ask for a lane dies with its turn, its caller or the
  conversation, and the voices on the line are the latest turn's.
  `NothingLeftAfterStop`, `LaneStartsNeverOverlap`, `StopNeverHostage`.
- `SlotHolds`: a leased provider runs, a confirmed stop leaves no child, the
  configuration names the current provider. `StopSettles`.
- `TreesAccounted`: one server tree, and the last stop wins. `NothingHangs`.
- `SpeechAccounted`: one voice at a time, a confirmed stop is silence, a render
  has its provider pinned. `TurnsEnd`.
- `ReplyIsWhole`: sentences are heard in order and accounted for, what is
  remembered is what was spoken, nothing comes after the end. `FloorComesBack`.
- `EndsAreReal`: nothing that still has an owner outlives the marker, whatever
  releases fail; the command exits after its cleanup. What came up behind its
  cleanup (`missed`) and what a cleanup gave up (`abandoned`) is excepted, see
  [observations](#observations). `SignalEnds`.

Type invariants (`TypeOK`) are stated in the modules and are no property of a run:
those of the coordinator, the conversation, the marker, the park and the
switchboard are proved, and the types that the proofs of the turn queue need are
part of its invariants.

Why the bounds are enough. What a coordinator's sinks hear does not decide who
owns the foreground, so ownership is checked with turns that say nothing and
output with two turns. Three turns let a running turn be displaced by one that is
itself displaced, with a third of another session as bystander, and one remembered
id makes an id of a running turn leave the memory. Three starters are two that
race and one that serves or crashed; another program matters for the number it
takes, for which two starters are enough. A second crash only repeats the first
from a state that is already reached. Three providers are the live one, a
candidate that becomes live and a candidate that meets it as the old one; two
calls of `stop` are a call and its retry. Two browsers and two jobs allow a job
that outlives its socket beside one that keeps the limit; three conversations
allow stale work to survive the next one. A park of one overflows with two notices
and the third is in the drain, for which one client is enough; two clients, of
which one goes while the other comes, need two notices. Three turns on two sockets
are a current, a pending and a replacing one, or a run on one socket beside the
other; two speculations are one that is replaced by the other. Two lanes are the
one asked for and the one on the line; three lifecycle calls are one that runs,
one that overtakes it and one that overtakes both. Where an instance is cut to
keep its run short, the theorems below cover what is cut: those of ownership, the
marker, the park, the switchboard and the slot hold for every size. No theorem
covers the speaker and the watch, where events are combined in pairs only (an
interruption with a failure, an end of the daemon with a move). A sentence
length of 1, 2 and 4 with a limit of 4 merges, fills and overflows a call. Two
activations are the one that listens and the one it replaced. Deadlock is not
checked (`CHECK_DEADLOCK FALSE`): bounded instances of all of these may stop,
because turns, notices and processes are used once or because the server stopped.

The bounds that are the model's and not the code's are named in the modules:
`MaxEvents`, `MaxInFlight`, `MaxCrashes`, `MaxLeases`, `MaxStops`,
`MaxConversations`, `MaxSpawns`, `MaxCalls`, `MaxFaults`, `MaxStarts`,
`MaxSentences`, `MaxChunk`, `MaxNews`, `MaxDays`, `MaxPresses`, `Budgets` and the
like. The limits of the code (`MaxRecent`, `MaxText`, `MaxAudio`,
`MaxClip`, `MaxAttempts`, `MaxJobs`, `MaxBackground`, `ParkMax`, `MaxItems`,
`MaxRevivals`, `MaxParked`) are parameters with smaller values.

## Fairness

Where a specification claims that something happens, its fairness is what the
code's own deadlines give, and it is repeated for the part in `MCSwitchboard`.
Each claim has the form `[]<>P`: from every state on, `P` comes.

- `StopSettles`: timers and promise callbacks of the slot's `stop` run
  (`StopNext`), the disposal of a candidate moves on when it is done or its
  deadline has passed, and a start that was cancelled returns, which the code
  enforces for cancellable providers by killing the child. Nothing is assumed of
  `provider.stop()`, a warm-up, saving the configuration or a lease: they may take
  for ever, and every wait for them has a deadline.
- `StopNeverHostage`: stops of agents settle, because a microtask runs and a
  child's end has a deadline. A start or a restart may hang for ever.
- `NothingHangs`: probes, readiness, termination, the drain of stderr and the
  back-off are bounded by timers.
- `TurnsEnd`: brains and providers have deadlines, players end, and the
  termination of a process is bounded. One weak fairness stands for them all.
- `FloorComesBack`: synthesis, the page's acknowledgement and timers end by their
  own deadlines. Nothing is assumed of the brain or of the user.
- `SignalEnds`: every await of the start and of the cleanup ends by its own
  deadline. Only the background tasks (`drainBackgroundTasks`) have none: they are
  told to stop and are taken to heed it.

`DoneArrives`, the liveness part of finding 4, is stated as a state predicate and
its run needs no fairness. The other modules state safety and action properties
only, and their specifications have no fairness.

## What is proved

Every theorem holds for every value of the constants under the assumptions the
modules name. They say no more than the code does: `None` is nothing of the kind
it stands in for, limits are natural numbers (a claim has more than one attempt,
`DaemonPid!LimitAssumption`), sets that are counted are finite (sockets,
speculations, notices, lanes), and the provider a slot begins with is one of its
providers (`ProviderSlot!SlotAssumption`, `AcpBrain!AcpAssumption`; the instances
in `MCSwitchboard` and `MCConversation` are checked to satisfy these two). One
theorem has a hypothesis of its own: `StopAlwaysHitsTheDaemon` takes the platform
to hand out process handles (`PidfdWorks`), without which `cicero stop` signals a
number.

| Module | Theorem | Statement |
|---|---|---|
| `TurnCoordinatorProofs` | `TypeCorrect` | `Spec => []TypeOK` |
| | `OwnershipAlwaysExact` | `Spec => []OwnershipExact` |
| | `ForegroundIsSingle` | `Spec => []SingleForeground` |
| | `CapturesAlwaysSuperseded` | `Spec => []SupersededIffOvertaken` |
| | `OutcomeAlwaysExact` | `Spec => []OutcomeExact` |
| | `CoordinatorImplementsOwnership` | `Spec => ImplementsOwnership` |
| `DaemonPidProofs` | `MarkerTypes` | `Spec => []TypeOK` |
| | `MarkerAlwaysTrue` | `Spec => []MarkerIsTrue` |
| | `LiveMarkerAlwaysKept` | `Spec => LiveMarkerKept` |
| | `StopAlwaysHitsTheDaemon` | `PidfdWorks` and `Spec` imply `[]StopHitsOnlyTheDaemon` |
| `ProviderSlotProofs` | `SlotTypeCorrect` | `Spec => []TypeOK` |
| | `SlotAlwaysHolds` | `Spec => []SlotHolds` |
| `ConversationEndProofs` | `LifecycleTypes` | `Spec => []TypeOK` |
| | `DebtAlwaysExact` | `Spec => []DebtIsExact` |
| | `WorkNeverDroppedUnderneath` | `Spec => NeverDroppedUnderneath` |
| | `ReportedWorkAlwaysEnds` | `Spec => []ReportedWorkEnds` |
| | `SettledStartNeverInherits` | `Spec => SettledStartInheritsNothing` |
| `NotifyParkProofs` | `ParkTypes` | `Spec => []TypeOK` |
| | `ParkAlwaysExact` | `Spec => []ParkIsExact` |
| | `ParkAlwaysKeepsWhatIsOwed` | `Spec => ParkKeepsWhatIsOwed` |
| `WebTurnQueueProofs` | `NewestTurnAlwaysOwns` | `Spec => []NewestTurnOwns` |
| | `OneTurnAtATime` | `Spec => []OneTurnPerSocket` |
| | `ChargesAlwaysExact` | `Spec => []ChargesExact` |
| | `StopAlwaysLeavesNothing` | `Spec => []StopLeavesNothing` |
| `SwitchboardProofs` | `SwitchboardTypes` | `Spec => []TypeOK` |
| | `NothingEverFromOldTurns` | `Spec => []NothingFromOldTurns` |
| | `NothingEverLeftAfterStop` | `Spec => []NothingLeftAfterStop` |
| | `LaneStartsAlwaysApart` | `Spec => LaneStartsNeverOverlap` |
| `AcpBrainProofs` | `SessionAlwaysSound` | `Spec => []SessionIsSound` |
| | `ConsentAlwaysExact` | `Spec => []ConsentIsExact` |

Few of these properties are inductive. What each proof adds, and why:

*Coordinator.* `OwnershipExact` is inductive next to `TypeOK` and `FreshLeases`: a
lease that `start` has not returned yet has no outcome and an open signal,
without which a new lease entered into the maps could be an ended one. The hard
case is a foreground start whose id was evicted while its turn ran: the old turn
with that key sits in the same session's seat, because only background turns
have no seat and their ids are never reused, so it is the displaced turn and
leaves the owners map in the same step. What a capture sees follows from
`GenerationsExact` (a session's controller fired exactly if a foreground turn
came after it was made), what a sink hears from the maps: a turn that has ended
is in none, so no method finds it again. The refinement needs the same
invariant: whoever is displaced is running, so the step is one of
`TurnOwnership`.

*Pid marker.* A starter unlinks whatever is at the path when it gets there. That
this is safe is the sum of two facts: the record it read is of a process that is
gone for good (`Stale`; pids are reused, identities are not), and the path still
holds that record (`MarkerOwned`). The second fails exactly when two claims
recover from a crash together, which is finding 1 and the exception in the
properties. Without a crash no starter gets that far, as every marker is of a
live process (`NobodyDied`). A claim that met nobody gets by with two attempts,
one to retire and one to publish, which is why more than one is assumed. For the
stop command `StopKnows` keeps what its handle refers to.

*Slot.* That a confirmed stop leaves no child says nothing about the swap it met,
so the invariant says where the candidate of a swap is at each await
(`SwapPlaces`) and whose it is: either the swap owns it and nobody else has
touched it, or the slot is closed and `stop` took it over (`CandidateOwned`).
A start that is still open can spawn a child that no provider knows yet; such a
candidate is behind its startup barrier once it is quarantined
(`StartupPlaces`). `StopCalls` then says what a call of `stop` that has not failed
still waits for: every generation that serves or has served, whatever is
quarantined, and the barrier of a start that has not returned. When it has
waited for all of these, nothing has a child, and nobody is left who could spawn
one. That a lease keeps its generation running needs that the live generation is
retired only when the slot is closed, and that a drained one has no lease
(`GenerationPlaces`).

*Conversation.* `DebtIsExact` is inductive next to `TypeOK`; the work is in the
number of jobs, a cardinality that changes by one when a job starts or settles.
That deferred work is never dropped under a live surface is a statement about
steps: each call of the departure check passes what the server would answer, and
that answer is the state after the step. That nothing is left when everybody has
gone is not inductive: a turn that still runs may defer work after the last
client left, so the invariant (`WatchedOver`) says who will ask again: a
client's close, the grace timer, a job's release, a local surface's end.

*Turn queue.* `NewestTurnOwns` needs that the turns a socket holds were admitted
by it (`OwnTurns`), that an idle loop holds no turn, and that a loop which waits
for its speculation to go has already ended its turn (`EndedFirst`): without it,
the pending turn could be taken over a running one. `ChargesExact` needs to know
which sets the counters count (`ChargeInv`). A sum over the sockets would take an
induction over data, which is out of reach, so the probes in flight are the
elements of one set (`AwaitedProbes`), added and removed one at a time.
`StopLeavesNothing` rests on both: `stop` resolves when no job is charged, and by
then every speculation was aborted (`AbortedFirst`), has an owner that will end
it, and nothing is admitted any more (`StoppedForGood`).

*Park.* What is held is unheard because a notice is held once, was not dispatched
before, and the park has room for what a drain puts back (`ItemInv`). The work of
the drain is bounded because a request stands behind every pass still to come
(`Credited`), and no notice is stranded because a request that came during a pass
is not forgotten (`Served`). The reason a notice waits has to survive a client
that is blocked, so `Excused` is stronger than the property. The notices that
leave together leave from a least index on; its existence is the
well-foundedness of the naturals.

*Switchboard.* An ask outlives its turn in `pendingTransfer` and its lane's start
outlives both. `AskInv` says, for each await of `pinLane`, what is recorded: at
the awaits themselves the ask is the turn's own or was called off together with
its conversation, and a turn that finds its lane up was not called off. `LineInv`
says that a line from a cold ask that was never used is known as one of a
deferred transfer, which is what lets `dropDeferredWork` give it back. That
nothing runs after a stop is `ProcInv`: of every agent that runs somebody knows
(`started`), or its stop is under way, or it is one the code itself gave up on.
This takes that operations other than `stop` run in the order of their calls and
the board opens only when all are over (`OpInv`), that every stop in flight is
waited for by somebody who has not settled (`StopInv`), and that while the board
is closed no turn runs and every lane start is retired (`ClosedInv`). Lane
starts never overlap for the same reasons: whoever starts one found the board
open, so every operation has settled, and with it every stop.

*Agent.* `SessionIsSound` is about one process, one prompt and one stored session,
and its invariant has a part for each, besides one for `stop`. `RuntimePlaces`
says who disposes of which process: the current one nobody, any other that is not
gone is killed by the stop operation or by the start that failed. So whoever
passes the guards of `ensureStarted` finds that none lives, and the process it
spawns is the only one (`OneAlive`). `StopCalls` says that while a last `stop` or
`discardSession` waits, any process that lives is the one it waits for, and that
none lives when it has gone on. For the prompt, the turns of a runtime are ordered
by the gates they wait for: of two that were admitted and whose gates are closed
one waits for the other, and a turn that was prompted waits for nobody whose gate
is closed (`LockInv`). A gate is opened with its prompt still open only by a
disposal, after which no turn of that runtime is prompted again. For the pointer,
whatever was forgotten is neither in the file nor in a write that has begun,
unless `skipStoredSession` keeps the next start from reading it; and the one write
that a start waits for is of its own pointer epoch (`PointerInv`). Without the
last, a start could clear the flag on the word of another's write.
`ConsentIsExact` needs only that a pending gate and a granted one are gates of the
runtime that is current, that the granted one was approved and that neither has
let a call through; every change of the runtime clears both.

Proving changed two models. The history variable `credit` of `NotifyPark` was
capped at 2, which was enough for the two clients of the run and false for more;
it was redefined. `Switchboard!TypeOK` bounded conversations by 9 and left the
shape of `ops` open; it is now the full type, and `NoneAssumption` states what
had been tacit.

Model-checked only:

- liveness under fairness, which the prover cannot do: `StopNeverHostage`,
  `StopSettles`, `NothingHangs`, `TurnsEnd`, `FloorComesBack`, `SignalEnds`;
- the properties of the other components: `TreesAccounted`, `SpeechAccounted`,
  `ReplyIsWhole`, `EndsAreReal`, `CreditAndOrder`, `MergedFaithfully`,
  `WatchKeepsUp`, `MicrophoneIsShared`, `BriefingIsExact`, `AdoptionIsWhole`,
  `MicrophoneGivenBack`, `ActivationsAreApart`. The sums of lengths and durations
  in `Coalescer` and `AudioPacing` are folds, so their proofs would be inductions
  over data, which the prover cannot do. The others have no such obstacle; their
  inductive invariants have not been written yet.

## Findings

Each is a run that violates a property quoting the repository.

1. `daemon_pid_stale_race`, `daemon-pid.ts:425`. Two starters retire the marker of
   a crashed daemon at the same time. One compares inodes, the other unlinks and
   publishes its own, the first unlinks that. The comment at line 416 says the
   comparison prevents this. In every other case it does (`LiveMarkerKept`).
2. `conversation_start_in_grace`, `web-voice/server.ts:1827`. An operator starts
   anew during the grace period while the old socket's job still settles. The
   ending is reported as an ordinary one, declined because of that job, and its
   memory is then cleared, so the old deferred transfer reaches the new
   conversation. The branch below for a remembered ending reports a definitive one
   for exactly this reason.
3. `conversation_mic_departs`, `daemon.ts:2798`. An ending the daemon notices itself
   (the microphone is put down) and declines because a web job runs is not
   remembered; nothing asks again when that job settles.
4. `audio_done_lost`, `web-voice/server.ts:1291`. `done()` waits for clips that wait
   for credit, but the handler does not wait for `done()`. Once it returns, its
   turn is no longer current, the sink is dead, and the clip and the `done` on
   which the page resumes listening are dropped.
5. `speculation_swallowed`, `web-voice/turn.ts:1021`. A refusal that aborts a
   speculation while the final turn is between `transcript()` and `adopt()` makes
   the turn return without transcript, reply, error or a second try. One await
   earlier or later it is handled.
6. `listener_deaf`, `listener/conversational.ts:1232`. With voice mode put down
   during a reply the clap stays armed; in the next activation a double clap ends
   the capture that listens and with it the loop: voice mode is on and nobody
   listens.

## Observations

Met while modelling. No run claims them; the models have the behavior, and where a
property would fail for it, it excepts the case by a variable named here.

Turns and replies:

- The recording that waited for an earlier final starts a turn on a socket that
  has said goodbye (`web-voice/server.ts:2320`); `ReportedWorkEnds` excepts it.
- A speculation's failed abort is memoized (`web-voice/speculative.ts:364`), so the
  retry of `stop()` reads the same failure.
- An adopted reply longer than the token buffer meets its limit in mid-reply.
- A notice's clip is not awaited (`web-voice/turn.ts:1420`): a third waiting clip
  makes `sendAudio` throw (`web-voice/server.ts:407`) and fails the turn, while the
  comment there says an optional notice cannot fail the reply.
- In protocol 2 what was played includes filler texts, so a turn interrupted
  during its filler stores the filler as its recovery; one interrupted after
  `done`, while clips still play, stores none.
- If the hand-back line fails to render, the reply is neither awaited nor delivered;
  only the poll every 200 ms cancels the brain.

Brains and switchboard:

- Overlapping calls of `restart()` drop a lane from `started`, and one whose
  `primary.restart()` fails does not call `cleanupStalePrimary`: both leave agents
  no stop knows of (`unreaped`). The cleanup of a late lane start shares a
  `stopLane` that is under way and may miss what came up meanwhile.
- A queued spoken "yes" approves a gate that was armed after it was said
  (`brain/acp.ts:1483` says otherwise). A discard whose reap fails rejects before
  it clears the file.
- Fallback ladder, not modelled: a superseded turn puts back the tier it saw, a
  discarded turn sets `lastServed`, a tier that starts during `stop()` comes up
  after it.

Conversation and notices:

- `stop()` clears the park, while the comment at `web-voice/server.ts:921` speaks
  of the next daemon lifetime. The park may hold one more than its limit while a
  drain puts a notice back.
- More than 40 news of a night push the oldest out untold (`docs/notifications.md:248`
  says otherwise). A quarantined status file may brief the same day twice, and so
  may a failed acknowledgement. A voice brief that was only parked counts as told.
- `stop()` of the board's watch in mid-poll skips saving the reminders (`missed`).
  An abort during the last announcement of a poll is not noticed.

Microphone and listener:

- Dictation is preempted by voice mode only as of the beginning of a reconciliation
  (`daemon.ts:3490`, comment at 3437): five presses make both want the recorder
  (`renewed`). Off, on, off and on during one reconciliation leaves the clap armed
  in voice mode; a `clap.stop()` that fails there leaves voice mode wanted;
  dictation in the startup window leaves the clap disarmed.
- `listenOnce` while the loop hears cancels that capture (`cut`), which ends the
  loop with voice mode on, or turns it off as a failure of the microphone.
- A barge-in whose transcript is empty or superseded leaves `pendingRecovery`
  (`daemon.ts:2732`) to a later turn. A reply that ends while another turn's
  confirmation records kills that capture.

Providers, processes and voices:

- A launch that fails and whose reap fails leaves a child without a handle
  (`lost`), and the provider may start another;
  `tests/backends/managed-provider-stop.test.ts:194` says it fails closed. Ten providers drop their handle even when the stop fails
  (`tts/kokoro.ts:132`), so that a retried stop is told that all is released. A start
  queued behind a stop is not cancelled by a later stop. A supervisor that gave up
  stays active, so that a `start()` does nothing.
- Without a pidfd `cicero stop` signals a number. A group id that is reused after
  its leader was reaped is not recognised.
- The fallback voice is stopped for good by a retry of an output's release, against
  `tts-speaker.ts:33`. A new `speakStream` does not stop the current player: two
  overlap and the older handle is lost (`orphaned`), against
  `docs/architecture.md:39`. A rejected `player.exited` counts as an ordinary
  failure. `playing` stays true after a stream's error.

Daemon:

- `stop()` takes a snapshot of its ingress (`daemon.ts:3698`) while the control
  server may still start (1171): that server then outlives the marker
  (`missed`), against the comment at 3791. The same holds of a tone detector
  that loads during the rest of a shutdown (3889).
- Cleanups whose failure is only logged leave their part behind the marker
  (`abandoned`). A web handler that is not over within the deadline keeps itself and
  its listener (`web-voice/server.ts:2527`), against the comment at 3834, "each
  ingress releases its own socket on timeout";
  `tests/daemon-lifecycle.test.ts:1133` asserts that the daemon is idle then. A
  control handler may stay too, without its socket. A tone detector that is not
  reaped loses its handle (`ser/emotion2vec.ts:141`).
- A provider that drops its handle keeps the marker for one failed `stop()`; the
  retry has nothing to stop, completes and removes the marker with the process
  alive, against the comment at 3965, "keep the lease until the exact retained slot
  confirms release on a later stop()".
- A marker that cannot be removed stays behind an idle daemon (3987), and this
  process can then not start another.
- A revocation reaches only the launches in flight; the loop then starts the next
  provider. A signal that cancels a required provider's start ends as an error.
  The comment near 3949 says the signal path stops once; `index.ts:83` stops again.

## What is not modelled

`PROJECT.json` lists every component with its reason. In short:

- *Not planned, no state of their own*: configuration, setup and command line,
  dashboard, web client page, terminals and platforms, voices, actions and their
  reload, runtime control, routing and compute tools, proactive notifications'
  texts, agent sidecar hooks, web voice transport, clients of speech and language
  services, separate programs.
- *Represented by what their users see of them*: owned processes (a process that is
  told to end ends, fails to or takes its time), the server manager and the other
  managed providers (one provider of each kind), the wiring of the daemon.
- *Left out of the modelled parts*: live captures and barge-in transcription; the
  fallback ladder and the brains other than ACP; the recorder without voice
  activity and the stream of the echo-cancelling helper; `speak()` of a whole text
  and the splitting of a stream into sentences; fast paths before a reply; launches
  in docker; protocol 1.

## Plan

Done: the modules above and the proofs about eight of them. Left, by importance:

1. Proofs about `Speculation` (`AdoptionIsWhole`), then `ManagedServer` and
   `DaemonLifecycle`, whose invariants say who owns which process, as that of
   `AcpBrain` does.
2. The fallback ladder (`brain/fallback.ts`), for the one hazard no property covers.
3. The recorder without voice activity, local command turns, live captures.

## How to run it

    tlc -workers 2 -config MCTurnPath.cfg MCTurnPath
    tlapm WebTurnQueueProofs.tla

A run takes up to a minute or two, and so does a proof module.
