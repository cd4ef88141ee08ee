--------------------------- MODULE MCSwitchboard ---------------------------
(***************************************************************************)
(* Those that must end what they began, for TLC: the switchboard with the  *)
(* agents of its lanes, the slot with a speech provider, the provider with *)
(* the server it launched, the speaker with its players, the reply to a    *)
(* browser, and the daemon that starts and stops them all.  A behavior     *)
(* explores one part; the others keep their initial state.                 *)
(*                                                                         *)
(* The switchboard has two lanes.  Three turns; two of a conversation that *)
(* ends; two around a stop or a restart, or one when the conversation      *)
(* ends too; a turn and a job around one; a job across three lifecycle     *)
(* calls.  The slot has the first provider, a candidate that can be        *)
(* cancelled and one that cannot: both follow each other and the slot is   *)
(* stopped once or a lease taken, or one follows with up to three of them. *)
(* The server is launched or revived five times.  Two replies are spoken,  *)
(* of one sentence or two, with an interruption, a stop or a process that  *)
(* does not end.  A browser hears a reply of two sentences.  The daemon is *)
(* started twice.                                                          *)
(***************************************************************************)
EXTENDS Switchboard

CONSTANTS coder, scout, job1, none, p0, p1, p2, t1, t2

MCLane == {coder, scout}
MCJob == {job1}
MCBudgets == {[turns |-> 3, jobs |-> 0, ops |-> 0, drops |-> 0],
              [turns |-> 2, jobs |-> 0, ops |-> 0, drops |-> 1],
              [turns |-> 2, jobs |-> 0, ops |-> 1, drops |-> 0],
              [turns |-> 1, jobs |-> 0, ops |-> 1, drops |-> 1],
              [turns |-> 1, jobs |-> 1, ops |-> 1, drops |-> 0],
              [turns |-> 0, jobs |-> 1, ops |-> 3, drops |-> 0]}
Replies == {[sentences |-> 2, interrupts |-> 1, stops |-> 0, faults |-> 0],
            [sentences |-> 2, interrupts |-> 0, stops |-> 0, faults |-> 1],
            [sentences |-> 1, interrupts |-> 1, stops |-> 0, faults |-> 1],
            [sentences |-> 1, interrupts |-> 0, stops |-> 1, faults |-> 1]}

\* A notice, or a filler that is repeated and something that fails.
Interludes == {[reassurances |-> 0, notices |-> 1, faults |-> 0],
               [reassurances |-> 1, notices |-> 0, faults |-> 1]}

VARIABLES
    part,
    \* ProviderSlot; its own started and stopping are those of providers
    startup, child, handle, cancelled, providerStops, released, current, retired,
    quarantined, barrier, retiring, leases, drained, cleanup, stopped, closed, config, swap,
    candidatesStarted, stop,
    \* ManagedServer
    tree, terminating, lost, managed, serving, failed, queue, op, sup, serverCalls,
    serverFaults, intent,
    \* StreamingSpeaker
    epoch, claim, turnCancel, turn, pinned, playing, player, unreleased, releasing,
    releaseFailed, orphaned, outFailed, outStop, tail, voice, silenced, silencing, replies,
    \* WebReply
    setup, interludes, produced, reader, rest, call, firstSentence, firstAudio, notices,
    noticing, noticed, toolNoticeSent, filler, fillerCancelled, fillers, awaited, sounded,
    main, parked, detached, background, aborted, turnAborted, ended, spoken, gated, parkedTexts, silent, said,
    lastReply, recovered, mishaps,
    \* DaemonLifecycle
    daemon, shutdown, run, bringUp, startResult, pass, early, dictationFailed, held, alive,
    loading, late, cli, asked, calls, faults, abandoned, escaped

slotVars == <<startup, child, handle, cancelled, providerStops, released, current, retired,
              quarantined, barrier, retiring, leases, drained, cleanup, stopped, closed,
              config, swap, candidatesStarted, stop>>
serverVars == <<tree, terminating, lost, managed, serving, failed, queue, op, sup,
                serverCalls, serverFaults, intent>>
speakerVars == <<epoch, claim, turnCancel, turn, pinned, playing, player, unreleased,
                 releasing, releaseFailed, orphaned, outFailed, outStop, tail, voice,
                 silenced, silencing, replies>>
replyVars == <<setup, interludes, produced, reader, rest, call, firstSentence, firstAudio,
               notices, noticing, noticed, toolNoticeSent, filler, fillerCancelled, fillers, awaited,
               sounded, main, parked, detached, background, aborted, turnAborted, ended,
               spoken, gated, parkedTexts, silent, said, lastReply, recovered, mishaps>>
daemonVars == <<daemon, shutdown, run, bringUp, startResult, pass, early, dictationFailed,
                held, alive, loading, late, cli, asked, calls, faults, abandoned, escaped>>
ownerVars == <<vars, part, slotVars, serverVars, speakerVars, replyVars, daemonVars>>

Slot == INSTANCE ProviderSlot WITH
    Provider <- {p0, p1, p2}, Initial <- p0, Cancellable <- {p1}, None <- none,
    MaxLeases <- 2, MaxStops <- 2, stopping <- providerStops, started <- candidatesStarted
ASSUME SlotAssumption == Slot!SlotAssumption

Server == INSTANCE ManagedServer WITH
    MaxSpawns <- 5, MaxCalls <- 5, MaxFaults <- 2, MaxRevivals <- 3,
    active <- serving, calls <- serverCalls, faults <- serverFaults

Voice == INSTANCE StreamingSpeaker WITH
    Turn <- {t1, t2}, None <- none, Budgets <- Replies,
    current <- playing, stopped <- silenced, stop <- silencing, budget <- replies

WebTurn == INSTANCE WebReply WITH
    MaxSentences <- 2, MaxChunk <- 2, MaxParked <- 1, Budgets <- Interludes,
    budget <- interludes, pending <- awaited, faults <- mishaps

Daemon == INSTANCE DaemonLifecycle WITH
    MaxStarts <- 2, MaxCalls <- 3, MaxFaults <- 2,
    lifecycle <- daemon, stopRequested <- shutdown, startup <- bringUp, missed <- escaped

\* What is asked of the slot: candidates, calls of stop() and leases.  Two
\* candidates leave room for one call or one lease.
SlotLoad ==
    LET used == {p \in {p0, p1, p2} : startup[p] # "new" \/ p = swap.candidate}
    IN  (IF used = {p0, p1, p2} THEN 4 ELSE Cardinality(used))
        + stop.calls + leases[p0] + leases[p1] + leases[p2]

OwnersInit ==
    /\ Init /\ Slot!Init /\ Server!Init /\ Voice!Init /\ WebTurn!Init /\ Daemon!Init
    /\ part \in {"switchboard", "slot", "server", "voice", "reply", "daemon"}
    /\ part # "switchboard" => budget.turns = 3
    /\ part # "voice" => replies.sentences = 2 /\ replies.faults = 0
    /\ part # "reply" => /\ setup = [park |-> FALSE, cap |-> 0, control |-> FALSE]
                         /\ interludes.notices = 1
                         /\ filler = "off"
    /\ part # "daemon" => cli = "none"

OwnersNext ==
    \/ part = "switchboard" /\ Next
       /\ UNCHANGED <<part, slotVars, serverVars, speakerVars, replyVars, daemonVars>>
    \/ part = "slot" /\ Slot!Next /\ SlotLoad' <= 5
       /\ UNCHANGED <<part, vars, serverVars, speakerVars, replyVars, daemonVars>>
    \/ part = "server" /\ Server!Next
       /\ UNCHANGED <<part, vars, slotVars, speakerVars, replyVars, daemonVars>>
    \/ part = "voice" /\ Voice!Next
       /\ UNCHANGED <<part, vars, slotVars, serverVars, replyVars, daemonVars>>
    \/ part = "reply" /\ WebTurn!Next
       /\ UNCHANGED <<part, vars, slotVars, serverVars, speakerVars, daemonVars>>
    \/ part = "daemon" /\ Daemon!Next
       /\ UNCHANGED <<part, vars, slotVars, serverVars, speakerVars, replyVars>>

\* The fairness of each module, for the part that moves.
Agents == \E ok, missed \in BOOLEAN : PrimaryStopSettles(ok, missed)
AgentOf(l) == \E ok, missed \in BOOLEAN : LaneStopSettles(l, ok, missed)
Switching(A) == part = "switchboard" /\ A
Swapping(A) == part = "slot" /\ A
Serving(A) == part = "server" /\ A
Speaking(A) == part = "voice" /\ A
Answering(A) == part = "reply" /\ A
Living(A) == part = "daemon" /\ A
OwnersFairness ==
    /\ WF_vars(Switching(Resumes))
    /\ WF_vars(Switching(Asks /\ (Acknowledges \/ Classifies \/ ResolvePending)))
    /\ WF_vars(Switching(Agents))
    /\ \A l \in Lane : WF_vars(Switching(AgentOf(l)))
    /\ WF_slotVars(Swapping(Slot!StopNext))
    /\ WF_slotVars(Swapping(Slot!SwapDisposed \/ (swap.step = "disposing" /\ Slot!SwapTimesOut)))
    /\ WF_slotVars(Swapping(p1 \in cancelled /\ Slot!StartFails(p1)))
    /\ WF_serverVars(Serving(Server!Provides))
    /\ WF_serverVars(Serving(Server!Supervises))
    /\ WF_serverVars(Serving(Server!Terminates))
    /\ WF_speakerVars(Speaking(Voice!Moves))
    /\ WF_replyVars(Answering(WebTurn!Speaks))
    /\ WF_daemonVars(Living(Daemon!StartupStep))
    /\ WF_daemonVars(Living(Daemon!CleanupStep))
    /\ WF_daemonVars(Living(Daemon!CommandContinues))

OwnersSpec == OwnersInit /\ [][OwnersNext]_ownerVars /\ OwnersFairness

\* The properties of the other parts, each stated in its module.
SlotHolds == Slot!SlotHolds
StopSettles == Slot!StopSettles
TreesAccounted == Server!TreesAccounted
NothingHangs == Server!NothingHangs
SpeechAccounted == Voice!SpeechAccounted
TurnsEnd == Voice!TurnsEnd
ReplyIsWhole == WebTurn!ReplyIsWhole
FloorComesBack == WebTurn!FloorComesBack
EndsAreReal == Daemon!EndsAreReal
SignalEnds == Daemon!SignalEnds
=============================================================================
