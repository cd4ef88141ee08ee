---------------------------- MODULE Switchboard ----------------------------
(***************************************************************************)
(* The front desk and its lanes, src/src/brain/switchboard.ts.             *)
(*                                                                         *)
(* A public call is an accepted turn; a newer one supersedes it.  A turn   *)
(* may pin the conversation to a lane, whose agent starts on its first pin *)
(* and outlives the turn that asked.  The ask is remembered in             *)
(* pendingTransfer until somebody's turn resolves it or the conversation   *)
(* ends (dropDeferredWork).  start() and restart() queue behind each       *)
(* other; stop() waits for neither: what it overtakes is retired and       *)
(* cleans up after itself.                                                 *)
(*                                                                         *)
(* One action is what JavaScript runs between two awaits.  A settled       *)
(* promise resumes its waiters before the next outside event, so those     *)
(* wait until the model is Quiet.  An aborted turn throws at its next      *)
(* instruction and changes nothing more: it is "dead" at once.  The        *)
(* matching of phrases, personas, memos and briefings are left out; which  *)
(* outcome an utterance has is chosen.                                     *)
(***************************************************************************)
EXTENDS Integers, Sequences, FiniteSets, SequencesExt

CONSTANTS
    Lane,      \* names of the lanes
    Job,       \* unattended background turns that name a lane
    None,      \* no lane, turn, record
    Budgets,   \* bounds of the model: turns, jobs, lifecycle calls, drops
    CanCall    \* whether the daemon installed its dial-back handler

FrontDesk == "front desk"
ASSUME LaneAssumption == Lane # {} /\ IsFiniteSet(Lane) /\ FrontDesk \notin Lane
ASSUME BudgetAssumption == Budgets \subseteq [turns : Nat, jobs : Nat, ops : Nat, drops : Nat]

VARIABLES
    acceptedTurnSequence,
    acceptedTurn,\* None, or where it stands, its kind, the lane it pins, the generation pinLane saw
    pending,     \* pendingTransfer: lane, origin, owner, disposition
    active,      \* the pinned lane
    activeFromDeferredTransfer,
    deferredGeneration,
    rollcall,    \* the voice lease: its turn, sealed, voices left, lanes that spoke
    started, laneStarts, laneStops,
    stopping,
    ops,         \* calls of start(), stop() and restart(), in order
    primaryStops,\* freshPrimaryStop's queue: for each call, the operations that wait for it
    jobs,        \* sendBackground: where each job stands and its lane
    proc,        \* external: what runs of each lane's agent and of the front desk's
    budget,
    \* History, read by no action.
    pin,         \* of the pin: generation it was asked in, asked while the lane was down, used
    unreaped     \* agents that may be left: a stop failed on them or missed a lane, or a restart failed

turnVars == <<acceptedTurnSequence, acceptedTurn>>
pinVars == <<active, activeFromDeferredTransfer, pin>>
laneVars == <<started, laneStarts, laneStops>>
opVars == <<stopping, ops, primaryStops>>
procVars == <<proc, unreaped>>
vars == <<turnVars, pinVars, pending, laneVars, opVars, procVars, jobs,
          deferredGeneration, rollcall, budget>>

Running == {"routing", "planning", "pinLoop", "pinUp", "pinDown"}  \* between two awaits
Live == Running \cup {"classifying", "briefing", "dialing", "pinRetired", "pinStart", "answering", "standup"}
LaneStarts == [retired : BOOLEAN, stage : {"starting", "reaping"}]
Turns == [pc : Live, kind : {"spoken", "transferTo", "dial"}, lane : Lane \cup {None},
          gen : Nat, asked : Nat, cold : BOOLEAN]
Transfers == [lane : Lane, origin : {"conversation", "programmatic"}, owner : Nat,
              disposition : {"owned", "awaiting-successor"}, asked : Nat]
Rollcalls == [turn : Nat, sealed : BOOLEAN, voices : Nat, said : Nat]
Ops == [kind : {"start", "stop", "restart"},
        stage : {"queued", "primary", "reaping", "lanes", "lane", "laneReaping", "draining", "done"},
        todo : SUBSET Lane, waits : SUBSET Lane, at : Lane \cup {None}, failed : BOOLEAN]

ASSUME NoneAssumption == None \notin Lane \cup LaneStarts \cup Turns \cup Transfers \cup Rollcalls

TypeOK ==
    /\ acceptedTurnSequence \in Nat /\ acceptedTurn \in Turns \cup {None}
    /\ pending \in Transfers \cup {None} /\ rollcall \in Rollcalls \cup {None}
    /\ active \in Lane \cup {None} /\ activeFromDeferredTransfer \in BOOLEAN
    /\ deferredGeneration \in Nat /\ budget \in Budgets
    /\ pin \in [asked : Nat, cold : BOOLEAN, used : BOOLEAN]
    /\ started \subseteq Lane /\ stopping \in BOOLEAN
    /\ laneStarts \in [Lane -> LaneStarts \cup {None}] /\ laneStops \in [Lane -> BOOLEAN]
    /\ ops \in Seq(Ops) /\ primaryStops \in Seq(SUBSET Nat)
    /\ jobs \in [Job -> [pc : {"new", "loop", "waitStart", "waitRetired", "done"}, lane : Lane \cup {None}]]
    /\ proc \in [Lane \cup {FrontDesk} -> {"down", "up", "late"}] /\ unreaped \subseteq Lane \cup {FrontDesk}

NoPin == [asked |-> 0, cold |-> FALSE, used |-> FALSE]

\* After the daemon's start().
Init ==
    /\ acceptedTurnSequence = 0 /\ acceptedTurn = None /\ pending = None
    /\ active = None /\ activeFromDeferredTransfer = FALSE /\ deferredGeneration = 0
    /\ rollcall = None
    /\ started = {} /\ laneStarts = [l \in Lane |-> None] /\ laneStops = [l \in Lane |-> FALSE]
    /\ stopping = FALSE /\ ops = <<>> /\ primaryStops = <<>>
    /\ jobs = [j \in Job |-> [pc |-> "new", lane |-> None]]
    /\ proc = [x \in Lane \cup {FrontDesk} |-> IF x = FrontDesk THEN "up" ELSE "down"]
    /\ budget \in Budgets
    /\ pin = NoPin /\ unreaped = {}

At(c) == acceptedTurn # None /\ acceptedTurn.pc = c

Quiet ==
    /\ \A c \in Running : ~At(c)
    /\ \A j \in Job : jobs[j].pc # "loop"

(***************************************************************************)
(* Accepted turns                                                          *)
(***************************************************************************)

\* What the abort listeners of ownPendingTransfer make of pending p when the
\* signal of turn t or of its caller is aborted.
AfterAbort(p, t) ==
    IF p = None \/ p.owner # t \/ p.disposition # "owned" THEN p
    ELSE IF p.origin = "programmatic" THEN None
    ELSE [p EXCEPT !.disposition = "awaiting-successor"]

\* adoptPendingTransfer
Adopted(p, t) ==
    IF p = None \/ p.owner = t THEN p ELSE [p EXCEPT !.owner = t, !.disposition = "owned"]

\* The accepted turn goes on to c.
Goto(c) == acceptedTurn' = [acceptedTurn EXCEPT !.pc = c] /\ UNCHANGED acceptedTurnSequence

\* It settles with its reply; its voices stay for the player.
Reply == acceptedTurn' = None /\ UNCHANGED acceptedTurnSequence

Voices(t) == rollcall # None /\ rollcall.turn = t

\* abortAcceptedTurn and the listeners that run with it.
Abort ==
    /\ acceptedTurn' = None /\ UNCHANGED acceptedTurnSequence
    /\ pending' = AfterAbort(pending, acceptedTurnSequence)
    /\ rollcall' = IF Voices(acceptedTurnSequence) THEN None ELSE rollcall

\* cancelCurrentTurn: a lifecycle call also discards the voices of a turn that
\* is over.  Every caller but start(), before which there are none, clears the
\* pending transfer too.
CancelCurrentTurn == acceptedTurn' = None /\ rollcall' = None /\ UNCHANGED acceptedTurnSequence

\* Mutant: a new turn discards the voices of a running turn only.
AcceptKeepsVoices(k) ==
    /\ Quiet /\ ~stopping /\ acceptedTurnSequence < budget.turns
    /\ acceptedTurnSequence' = acceptedTurnSequence + 1
    /\ acceptedTurn' = [pc |-> IF k = "spoken" THEN "routing" ELSE "briefing", kind |-> k,
                        lane |-> None, gen |-> 0, asked |-> 0, cold |-> FALSE]
    /\ LET kept == IF acceptedTurn = None THEN pending ELSE AfterAbort(pending, acceptedTurnSequence)
       IN pending' = IF k = "spoken" THEN Adopted(kept, acceptedTurnSequence') ELSE kept
    /\ rollcall' = IF acceptedTurn # None THEN None ELSE rollcall
    /\ UNCHANGED <<pinVars, laneVars, opVars, procVars, jobs, deferredGeneration, budget>>

\* beginAcceptedTurn: the previous turn is superseded, and its voices go; a
\* spoken turn then adopts the ask that is left (controlPlane), a programmatic
\* one resolves its lane and is briefed.
Accept(k) ==
    /\ Quiet /\ ~stopping /\ acceptedTurnSequence < budget.turns
    /\ acceptedTurnSequence' = acceptedTurnSequence + 1
    /\ acceptedTurn' = [pc |-> IF k = "spoken" THEN "routing" ELSE "briefing", kind |-> k,
                        lane |-> None, gen |-> 0, asked |-> 0, cold |-> FALSE]
    /\ LET kept == IF acceptedTurn = None THEN pending ELSE AfterAbort(pending, acceptedTurnSequence)
       IN pending' = IF k = "spoken" THEN Adopted(kept, acceptedTurnSequence') ELSE kept
    /\ rollcall' = None
    /\ UNCHANGED <<pinVars, laneVars, opVars, procVars, jobs, deferredGeneration, budget>>

notTurn == <<pinVars, laneVars, opVars, procVars, jobs, deferredGeneration, budget>>

\* The caller of turn t aborts its signal: this ends the turn while it runs, and
\* its voices and its ask even after it has answered.
CallerAborts(t) ==
    /\ Quiet
    /\ IF t = acceptedTurnSequence /\ acceptedTurn # None THEN Abort
       ELSE /\ Voices(t) \/ pending # AfterAbort(pending, t)
            /\ pending' = AfterAbort(pending, t)
            /\ rollcall' = IF Voices(t) THEN None ELSE rollcall
            /\ UNCHANGED turnVars
    /\ UNCHANGED notTurn

\* An await of the turn fails, or its consumer stops; the turn is aborted.
Fails ==
    /\ Quiet /\ (At("classifying") \/ At("dialing") \/ At("answering") \/ At("standup"))
    /\ Abort
    /\ UNCHANGED notTurn

\* A reply that touches nothing here: a relayed confirmation, voicemail, the
\* roster, the answer of the dial-back handler; transferTo without a lane.
Acknowledges ==
    /\ At("routing") \/ (Quiet /\ (At("dialing") \/ At("briefing")))
    /\ Reply
    /\ UNCHANGED <<notTurn, pending, rollcall>>

(***************************************************************************)
(* What an utterance asks for, by its wording or by the classifier         *)
(***************************************************************************)

\* planSwitchboardIntent acts on a transfer only when the lane could be pinned.
Unavailable(l) == laneStops[l] \/ (laneStarts[l] # None /\ laneStarts[l].retired)

Asks == At("routing") \/ At("planning")

Classifies ==
    /\ At("routing") /\ Goto("classifying")
    /\ UNCHANGED <<notTurn, pending, rollcall>>

Classified ==
    /\ Quiet /\ At("classifying") /\ Goto("planning")
    /\ UNCHANGED <<notTurn, pending, rollcall>>

\* beginRollcall with one voice per lane; a reply of the front desk may also
\* turn out to be the phrase that asks for it (replyTrigger).
DoRollcall ==
    /\ Asks \/ (Quiet /\ At("answering") /\ active = None)
    /\ rollcall' = [turn |-> acceptedTurnSequence, sealed |-> TRUE, voices |-> Cardinality(Lane), said |-> Cardinality(Lane)]
    /\ Reply
    /\ UNCHANGED <<notTurn, pending>>

StartStandup ==
    /\ Asks \/ (Quiet /\ At("answering") /\ active = None)
    /\ rollcall' = [turn |-> acceptedTurnSequence, sealed |-> FALSE, voices |-> 1, said |-> 0]
    /\ Goto("standup")
    /\ UNCHANGED <<notTurn, pending>>

\* runStandup speaks the answer of the next lane.
StandupSpeaks ==
    /\ Quiet /\ At("standup")
    /\ rollcall.said < Cardinality(Lane)
    /\ rollcall' = [rollcall EXCEPT !.said = @ + 1, !.voices = @ + 1]
    /\ UNCHANGED <<notTurn, turnVars, pending>>

\* finishRollcall seals the queue after the last, unless it is empty by then.
StandupEnds ==
    /\ Quiet /\ At("standup") /\ rollcall.said = Cardinality(Lane)
    /\ rollcall' = IF rollcall.voices = 0 THEN None ELSE [rollcall EXCEPT !.sealed = TRUE]
    /\ Reply
    /\ UNCHANGED <<notTurn, pending>>

\* activeLaneVoice: the player takes the voice of the next sentence.
TakeVoice ==
    /\ Quiet /\ rollcall # None /\ rollcall.voices > 0
    /\ rollcall' = IF rollcall.sealed /\ rollcall.voices = 1 THEN None
                   ELSE [rollcall EXCEPT !.voices = @ - 1]
    /\ UNCHANGED <<notTurn, turnVars, pending>>

\* discardControlTurnVoices: the player gives up on a control turn; a standup
\* that still runs is cancelled.
DiscardVoices ==
    /\ Quiet /\ rollcall # None
    /\ IF rollcall.sealed THEN rollcall' = None /\ UNCHANGED <<turnVars, pending>>
       ELSE Abort
    /\ UNCHANGED notTurn

\* The dial-back handler is called inside this turn.
Dial ==
    /\ Asks /\ CanCall
    /\ acceptedTurn' = [acceptedTurn EXCEPT !.pc = "dialing", !.kind = "dial"]
    /\ UNCHANGED acceptedTurnSequence
    /\ UNCHANGED <<notTurn, pending, rollcall>>

\* pinLane is entered: by a spoken utterance, by the transferTo of a caller, or
\* by that of the dial-back handler on this turn.
AsksForLane(l) ==
    /\ \/ At("routing")
       \/ At("planning") /\ l # active /\ ~Unavailable(l)
       \/ Quiet /\ (At("briefing") \/ At("dialing"))
    /\ acceptedTurn' = [acceptedTurn EXCEPT !.pc = "pinLoop", !.lane = l, !.gen = deferredGeneration,
                                              !.asked = deferredGeneration, !.cold = l \notin started]
    /\ UNCHANGED acceptedTurnSequence
    /\ UNCHANGED <<notTurn, pending, rollcall>>

(***************************************************************************)
(* Pins and releases                                                       *)
(***************************************************************************)

\* releaseActiveLane
ReleaseActiveLane ==
    /\ pending' = None /\ active' = None /\ activeFromDeferredTransfer' = FALSE /\ pin' = NoPin

\* doRelease; with nobody on the line it calls off the transfer to come.
DoRelease ==
    /\ Asks /\ (active # None \/ pending # None)
    /\ ReleaseActiveLane /\ Reply
    /\ UNCHANGED <<laneVars, opVars, procVars, jobs, deferredGeneration, rollcall, budget>>

\* dropDeferredWork, from a transport whose conversation ended.
DropDeferredWork ==
    /\ Quiet /\ deferredGeneration < budget.drops
    /\ deferredGeneration' = deferredGeneration + 1
    /\ IF activeFromDeferredTransfer THEN ReleaseActiveLane ELSE pending' = None /\ UNCHANGED pinVars
    /\ UNCHANGED <<turnVars, laneVars, opVars, procVars, jobs, rollcall, budget>>

\* pinLane has its answer; the dial-back handler goes on with its call.
EndPin == IF acceptedTurn.kind = "dial" THEN Goto("dialing") ELSE Reply

CalledOff == acceptedTurn.gen # deferredGeneration

\* "Never mind", or "I couldn't reach": the ask is over without a pin.
GiveUp == EndPin /\ pending' = None /\ UNCHANGED <<pinVars, laneVars, jobs>>

\* The pin is taken.
Conclude ==
    /\ activeFromDeferredTransfer' = (pending # None /\ pending.lane = acceptedTurn.lane)
    /\ pending' = None /\ active' = acceptedTurn.lane
    /\ pin' = [asked |-> acceptedTurn.asked, cold |-> acceptedTurn.cold, used |-> FALSE]
    /\ EndPin
    /\ UNCHANGED <<laneVars, jobs>>

Fresh == [retired |-> FALSE, stage |-> "starting"]

\* startLane: joins the start in flight.
StartLane(l) == laneStarts' = [laneStarts EXCEPT ![l] = IF @ = None THEN Fresh ELSE @]

\* setPendingTransfer; the ask is recorded before the wait.
SetPending ==
    pending' = [lane |-> acceptedTurn.lane, owner |-> acceptedTurnSequence, disposition |-> "owned", asked |-> acceptedTurn.asked,
                origin |-> IF acceptedTurn.kind = "spoken" THEN "conversation" ELSE "programmatic"]

\* The loop of pinLane.
PinLoop ==
    /\ At("pinLoop")
    /\ LET l == acceptedTurn.lane
       IN \/ l \in started /\ Conclude
          \/ l \notin started /\ CalledOff /\ GiveUp
          \/ /\ l \notin started /\ ~CalledOff
             /\ IF laneStarts[l] # None /\ laneStarts[l].retired
                THEN Goto("pinRetired") /\ UNCHANGED <<pending, laneStarts>>
                ELSE Goto("pinStart") /\ SetPending /\ StartLane(l)
             /\ UNCHANGED <<pinVars, started, laneStops, jobs>>
    /\ UNCHANGED <<opVars, procVars, deferredGeneration, rollcall, budget>>

\* Mutant: the drop is not looked at after the wait.
PinResumesAnyway ==
    /\ \/ At("pinUp") /\ Conclude
       \/ At("pinDown") /\ GiveUp
    /\ UNCHANGED <<opVars, procVars, deferredGeneration, rollcall, budget>>

\* The start pinLane waited for is over.
PinResumes ==
    /\ \/ At("pinUp") /\ ~CalledOff /\ Conclude
       \/ At("pinUp") /\ CalledOff /\ GiveUp
       \/ At("pinDown") /\ GiveUp
    /\ UNCHANGED <<opVars, procVars, deferredGeneration, rollcall, budget>>

\* resolvePendingTransfer: an utterance that is no command still answers for
\* the transfer in flight before it reaches a brain.
ResolvePending ==
    /\ At("planning")
    /\ \/ pending = None /\ Goto("answering") /\ UNCHANGED pending
       \/ pending # None /\ active = pending.lane /\ pending' = None
          /\ Goto("answering")
       \/ /\ pending # None /\ active # pending.lane /\ pending.lane \in started
          /\ acceptedTurn' = [acceptedTurn EXCEPT !.pc = "pinLoop", !.lane = pending.lane, !.cold = TRUE,
                                       !.gen = deferredGeneration, !.asked = pending.asked]
          /\ UNCHANGED <<acceptedTurnSequence, pending>>
       \/ /\ pending # None /\ active # pending.lane /\ pending.lane \notin started
          /\ Reply
          /\ pending' = IF laneStarts[pending.lane] = None \/ laneStarts[pending.lane].retired
                        THEN None ELSE pending
    /\ UNCHANGED <<notTurn, rollcall>>

\* The brain on the line answers; recordExchange makes a pinned lane one that
\* was used, unless the answer is empty.
BrainAnswers ==
    /\ Quiet /\ At("answering") /\ Reply
    /\ \/ UNCHANGED pinVars
       \/ /\ active # None /\ activeFromDeferredTransfer' = FALSE
          /\ pin' = [pin EXCEPT !.used = TRUE] /\ UNCHANGED active
    /\ UNCHANGED <<pending, rollcall, laneVars, opVars, procVars, jobs, deferredGeneration, budget>>

(***************************************************************************)
(* Lanes and background jobs                                               *)
(***************************************************************************)

\* What runs of lane l after its agent came up; a stop in flight may miss it.
Came(l) == IF laneStops[l] THEN "late" ELSE "up"

\* stopLane: joins the stop in flight.
StopLanes(ls) == laneStops' = [l \in Lane |-> laneStops[l] \/ l \in ls]

\* Whoever waits for the start of lane l is resumed.
ResumeStarters(l, up) ==
    /\ IF At("pinStart") /\ acceptedTurn.lane = l THEN Goto(IF up THEN "pinUp" ELSE "pinDown")
       ELSE IF At("pinRetired") /\ acceptedTurn.lane = l THEN Goto("pinLoop")
       ELSE UNCHANGED turnVars
    /\ jobs' = [j \in Job |->
          CASE jobs[j].lane = l /\ jobs[j].pc = "waitStart" -> [jobs[j] EXCEPT !.pc = IF up THEN "loop" ELSE "done"]
            [] jobs[j].lane = l /\ jobs[j].pc = "waitRetired" -> [jobs[j] EXCEPT !.pc = "loop"]
            [] OTHER -> jobs[j]]

\* Mutant: a retired start that comes up after all is forgotten.
LaneStartForgets(l) ==
    /\ Quiet /\ laneStarts[l] # None /\ laneStarts[l].stage = "starting"
    /\ proc' = [proc EXCEPT ![l] = Came(l)]
    /\ laneStarts' = [laneStarts EXCEPT ![l] = None]
    /\ started' = IF laneStarts[l].retired THEN started ELSE started \cup {l}
    /\ ResumeStarters(l, ~laneStarts[l].retired) /\ UNCHANGED laneStops
    /\ UNCHANGED <<pinVars, pending, opVars, unreaped, deferredGeneration, rollcall, budget>>

LaneStartOk(l) ==
    /\ Quiet /\ laneStarts[l] # None /\ laneStarts[l].stage = "starting"
    /\ proc' = [proc EXCEPT ![l] = Came(l)]
    /\ IF laneStarts[l].retired
       THEN /\ laneStarts' = [laneStarts EXCEPT ![l].stage = "reaping"] /\ StopLanes({l})
            /\ UNCHANGED <<started, turnVars, jobs>>
       ELSE /\ laneStarts' = [laneStarts EXCEPT ![l] = None] /\ started' = started \cup {l}
            /\ ResumeStarters(l, TRUE) /\ UNCHANGED laneStops
    /\ UNCHANGED <<pinVars, pending, opVars, unreaped, deferredGeneration, rollcall, budget>>

\* Mutant: a failed start is over before its partial agent is stopped.
LaneStartFailsEarly(l) ==
    /\ Quiet /\ laneStarts[l] # None /\ laneStarts[l].stage = "starting"
    /\ proc' \in {proc, [proc EXCEPT ![l] = Came(l)]}
    /\ laneStarts' = [laneStarts EXCEPT ![l] = None] /\ StopLanes({l})
    /\ ResumeStarters(l, FALSE)
    /\ UNCHANGED <<started, pinVars, pending, opVars, unreaped, deferredGeneration, rollcall, budget>>

\* A start that fails may leave a partial agent, which is stopped first.
LaneStartFails(l) ==
    /\ Quiet /\ laneStarts[l] # None /\ laneStarts[l].stage = "starting"
    /\ proc' \in {proc, [proc EXCEPT ![l] = Came(l)]}
    /\ laneStarts' = [laneStarts EXCEPT ![l].stage = "reaping"] /\ StopLanes({l})
    /\ UNCHANGED <<turnVars, jobs, started, pinVars, pending, opVars, unreaped, deferredGeneration, rollcall, budget>>

\* A stop of x settles: an agent it found is gone if it succeeds, one that came
\* up meanwhile may be missed.
Stopped(x, ok, missed) ==
    /\ missed => ok /\ proc[x] = "late"
    /\ LET left == proc[x] # "down" /\ (~ok \/ missed)
       IN /\ proc' = [proc EXCEPT ![x] = IF left THEN "up" ELSE "down"]
          /\ unreaped' = CASE ~left -> unreaped \ {x}
                         [] missed /\ x = FrontDesk -> unreaped
                         [] OTHER -> unreaped \cup {x}

\* The operations that waited for the stop of lane l go on, and so does the
\* start whose agent it was.
LaneStopSettles(l, ok, missed) ==
    /\ Quiet /\ laneStops[l] /\ laneStops' = [laneStops EXCEPT ![l] = FALSE]
    /\ Stopped(l, ok, missed)
    /\ ops' = [i \in DOMAIN ops |-> IF ops[i].stage = "queued" THEN ops[i] ELSE [ops[i] EXCEPT !.waits = @ \ {l}]]
    /\ IF laneStarts[l] # None /\ laneStarts[l].stage = "reaping"
       THEN laneStarts' = [laneStarts EXCEPT ![l] = None] /\ ResumeStarters(l, FALSE)
       ELSE UNCHANGED <<laneStarts, turnVars, jobs>>
    /\ UNCHANGED <<pinVars, pending, started, stopping, primaryStops,
                   deferredGeneration, rollcall, budget>>

notJob == <<turnVars, pinVars, pending, started, laneStops, opVars, procVars, deferredGeneration, rollcall, budget>>

SendBackground(j, l) ==
    /\ Quiet /\ ~stopping /\ jobs[j].pc = "new"
    /\ Cardinality({k \in Job : jobs[k].pc # "new"}) < budget.jobs
    /\ jobs' = [jobs EXCEPT ![j] = [pc |-> "loop", lane |-> l]]
    /\ UNCHANGED <<notJob, laneStarts>>

\* The loop of sendBackground: it is refused while stopping, sends on a lane
\* that runs, waits for a retired start to be cleaned up, and else starts it.
JobLoop(j) ==
    /\ jobs[j].pc = "loop"
    /\ LET l == jobs[j].lane
           retired == laneStarts[l] # None /\ laneStarts[l].retired
       IN IF stopping \/ l \in started
          THEN jobs' = [jobs EXCEPT ![j].pc = "done"] /\ UNCHANGED laneStarts
          ELSE /\ jobs' = [jobs EXCEPT ![j].pc = IF retired THEN "waitRetired" ELSE "waitStart"]
               /\ IF retired THEN UNCHANGED laneStarts ELSE StartLane(l)
    /\ UNCHANGED notJob

(***************************************************************************)
(* start(), stop(), restart()                                              *)
(***************************************************************************)

Current(i) == i = Len(ops)
Retired == [l \in Lane |-> IF laneStarts[l] = None THEN None ELSE [laneStarts[l] EXCEPT !.retired = TRUE]]
Pending == {l \in Lane : laneStarts[l] # None}
Call(k, s, todo, waits) ==
    ops' = Append(ops, [kind |-> k, stage |-> s, todo |-> todo, waits |-> waits, at |-> None, failed |-> FALSE])

\* The daemon starts it again only after a stop.
CallStart ==
    /\ Quiet /\ Len(ops) < budget.ops /\ ops # <<>> /\ Last(ops).kind = "stop"
    /\ stopping' = TRUE /\ CancelCurrentTurn /\ Call("start", "queued", {}, {})
    /\ UNCHANGED <<pinVars, pending, laneVars, procVars, primaryStops, jobs, deferredGeneration, budget>>

\* freshPrimaryStop for operation i; stopPrimary shares the last one.
FreshPrimaryStop(i) == primaryStops' = Append(primaryStops, {i})
StopPrimary(i) ==
    IF primaryStops = <<>> THEN FreshPrimaryStop(i)
    ELSE primaryStops' = [primaryStops EXCEPT ![Len(primaryStops)] = @ \cup {i}]

\* Routing is reset at once, and cleanup does not wait for what it overtakes.
CallStop ==
    /\ Quiet /\ Len(ops) < budget.ops
    /\ stopping' = TRUE /\ CancelCurrentTurn
    /\ laneStarts' = Retired
    /\ ReleaseActiveLane /\ started' = {}
    /\ StopPrimary(Len(ops) + 1) /\ StopLanes(started \cup Pending)
    /\ Call("stop", "reaping", {}, started \cup Pending)
    /\ UNCHANGED <<procVars, jobs, deferredGeneration, budget>>

\* A reset; the daemon does not reset a switchboard it has stopped.
CallRestart ==
    /\ Quiet /\ Len(ops) < budget.ops /\ (ops # <<>> => Last(ops).kind # "stop")
    /\ stopping' = TRUE /\ CancelCurrentTurn /\ pending' = None
    /\ laneStarts' = Retired /\ Call("restart", "queued", started, Pending)
    /\ UNCHANGED <<pinVars, started, laneStops, procVars, primaryStops, jobs, deferredGeneration, budget>>

notOp == <<turnVars, pending, deferredGeneration, rollcall, jobs, budget, laneStarts>>

\* A settled operation leaves nothing behind.
Stage(i, s) == ops' = [ops EXCEPT ![i] =
    IF s = "done" THEN [@ EXCEPT !.stage = s, !.todo = {}, !.at = None, !.failed = FALSE] ELSE [@ EXCEPT !.stage = s]]

\* The lifecycle barrier: everything called before i is over, cleanup included.
Ready(i) == \A j \in 1 .. i - 1 : ops[j].stage = "done"

\* A queued operation begins, or finds a later call and does nothing.
OpBegins(i) ==
    /\ ops[i].stage = "queued" /\ Ready(i)
    /\ CASE ~Current(i) -> Stage(i, "done") /\ UNCHANGED laneStops
         [] ops[i].kind = "start" -> Stage(i, "primary") /\ UNCHANGED laneStops
         [] OTHER -> Stage(i, "primary") /\ StopLanes(ops[i].waits)
    /\ UNCHANGED <<notOp, pinVars, started, stopping, primaryStops, procVars>>

CamePrimary == [proc EXCEPT ![FrontDesk] = IF primaryStops = <<>> THEN "up" ELSE "late"]

\* primary.start() or restart() settles.  One that failed to start, or that
\* a later call overtook, is reaped by a stop of its own; a failed restart is not.
PrimarySettles(i, ok) ==
    /\ Quiet /\ ops[i].stage = "primary"
    /\ IF ok THEN proc' = CamePrimary ELSE proc' \in {proc, CamePrimary}
    /\ IF ok /\ Current(i)
       THEN /\ IF ops[i].kind = "start" THEN Stage(i, "done") /\ stopping' = FALSE
                                        ELSE Stage(i, "lanes") /\ UNCHANGED stopping
            /\ UNCHANGED primaryStops
       ELSE IF ops[i].kind = "start" \/ ok
       THEN Stage(i, "reaping") /\ FreshPrimaryStop(i) /\ UNCHANGED stopping
       ELSE ops' = [ops EXCEPT ![i] = [@ EXCEPT !.stage = "draining", !.failed = TRUE]] /\ UNCHANGED <<stopping, primaryStops>>
    /\ unreaped' = IF ~ok /\ ops[i].kind = "restart" THEN unreaped \cup {FrontDesk} ELSE unreaped
    /\ UNCHANGED <<notOp, pinVars, started, laneStops>>

PrimaryStopSettles(ok, missed) ==
    /\ Quiet /\ primaryStops # <<>>
    /\ primaryStops' = Tail(primaryStops)
    /\ Stopped(FrontDesk, ok, missed)
    /\ UNCHANGED <<notOp, pinVars, started, laneStops, stopping, ops>>

\* Mutant: stop() queues behind what was called before it.
ReapedInOrder(i) ==
    /\ ops[i].kind = "restart" \/ ops[i].waits = {}
    /\ \A k \in DOMAIN primaryStops : i \notin primaryStops[k]
    /\ Ready(i)

\* Every primary stop and every lane i waited for has settled.
Reaped(i) ==
    /\ ops[i].kind = "restart" \/ ops[i].waits = {}
    /\ \A k \in DOMAIN primaryStops : i \notin primaryStops[k]

OpReaped(i) ==
    /\ ops[i].stage = "reaping" /\ Reaped(i)
    /\ Stage(i, IF ops[i].kind = "restart" THEN "draining" ELSE "done")
    /\ UNCHANGED <<notOp, pinVars, started, laneStops, stopping, primaryStops, procVars>>

\* restart() takes the lanes that ran one by one.
RestartsLane(i, l) ==
    /\ ops[i].stage = "lanes" /\ Current(i) /\ l \in ops[i].todo
    /\ ops' = [ops EXCEPT ![i] = [@ EXCEPT !.stage = "lane", !.at = l]]
    /\ UNCHANGED <<notOp, pinVars, started, laneStops, stopping, primaryStops, procVars>>

\* It ends when they are through, or when a later call overtook it.
RestartsNoMore(i) ==
    /\ ops[i].stage = "lanes" /\ (~Current(i) \/ ops[i].todo = {})
    /\ Stage(i, "draining")
    /\ UNCHANGED <<notOp, pinVars, started, laneStops, stopping, primaryStops, procVars>>

\* The restart of a lane settles.  A late one is stopped again; a failed one
\* loses its line.  A lane whose restart failed under an earlier, overlapping call
\* is restarted here all the same: it runs, and started does not know.
LaneRestarted(i, ok) ==
    LET l == ops[i].at
        reap == ~ok \/ ~Current(i)
        lost == ~ok /\ active = l
    IN /\ Quiet /\ ops[i].stage = "lane"
       /\ IF ok THEN proc' = [proc EXCEPT ![l] = Came(l)] ELSE proc' \in {proc, [proc EXCEPT ![l] = Came(l)]}
       /\ ops' = [ops EXCEPT ![i] = [ops[i] EXCEPT !.stage = IF reap THEN "laneReaping" ELSE "lanes",
                      !.todo = IF Current(i) THEN @ \ {l} ELSE {}, !.waits = IF reap THEN @ \cup {l} ELSE @]]
       /\ IF reap THEN StopLanes({l}) ELSE UNCHANGED laneStops
       /\ started' = IF ok THEN started ELSE started \ {l}
       /\ active' = IF lost THEN None ELSE active
       /\ activeFromDeferredTransfer' = (activeFromDeferredTransfer /\ ~lost)
       /\ unreaped' = IF ~reap /\ l \notin started THEN unreaped \cup {l} ELSE unreaped
       /\ UNCHANGED <<notOp, pin, stopping, primaryStops>>

LaneReaped(i) ==
    /\ ops[i].stage = "laneReaping" /\ ops[i].at \notin ops[i].waits
    /\ Stage(i, "lanes")
    /\ UNCHANGED <<notOp, pinVars, started, laneStops, stopping, primaryStops, procVars>>

\* The starts it retired are cleaned up; the board reopens unless overtaken.
RestartEnds(i) ==
    /\ ops[i].stage = "draining" /\ ops[i].waits = {}
    /\ Stage(i, "done")
    /\ stopping' = (stopping /\ (ops[i].failed \/ ~Current(i)))
    /\ UNCHANGED <<notOp, pinVars, started, laneStops, primaryStops, procVars>>

(***************************************************************************)
(* The specification                                                       *)
(***************************************************************************)

\* What runs between two awaits.
Resumes ==
    \/ PinLoop \/ PinResumes
    \/ \E j \in Job : JobLoop(j)
    \/ \E i \in DOMAIN ops : OpBegins(i) \/ OpReaped(i) \/ RestartsNoMore(i) \/ LaneReaped(i) \/ RestartEnds(i)

Next ==
    \/ \E k \in {"spoken", "transferTo"} : Accept(k)
    \/ \E t \in 1 .. acceptedTurnSequence : CallerAborts(t)
    \/ Fails \/ Acknowledges \/ Classifies \/ Classified \/ ResolvePending
    \/ DoRollcall \/ StartStandup \/ StandupSpeaks \/ StandupEnds \/ Dial \/ DoRelease \/ BrainAnswers
    \/ \E l \in Lane : AsksForLane(l)
    \/ TakeVoice \/ DiscardVoices \/ DropDeferredWork
    \/ \E l \in Lane : LaneStartOk(l) \/ LaneStartFails(l)
                       \/ \E ok, missed \in BOOLEAN : LaneStopSettles(l, ok, missed)
    \/ \E j \in Job, l \in Lane : SendBackground(j, l)
    \/ CallStart \/ CallStop \/ CallRestart
    \/ \E i \in DOMAIN ops : \/ \E ok \in BOOLEAN : PrimarySettles(i, ok) \/ LaneRestarted(i, ok)
                           \/ \E l \in Lane : RestartsLane(i, l)
    \/ \E ok, missed \in BOOLEAN : PrimaryStopSettles(ok, missed)
    \/ Resumes

\* Only the stops of agents are sure to settle, and with them what runs
\* between two awaits; a start or a restart may hang for ever.
Fairness ==
    /\ WF_vars(Resumes)
    /\ WF_vars(Asks /\ (Acknowledges \/ Classifies \/ ResolvePending))
    /\ WF_vars(\E ok, missed \in BOOLEAN : PrimaryStopSettles(ok, missed))
    /\ \A l \in Lane : WF_vars(\E ok, missed \in BOOLEAN : LaneStopSettles(l, ok, missed))

Spec == Init /\ [][Next]_vars /\ Fairness

(***************************************************************************)
(* Properties                                                              *)
(***************************************************************************)

\* dropDeferredWork is final: whatever is starting then pins nobody later, and
\* a line that came of a cold start and was never used is given back.  Only an
\* ask made since may pin; a line that was up when asked for, or that has
\* answered, stays.
DropIsFinal ==
    /\ pending # None => pending.asked = deferredGeneration
    /\ active # None => pin.asked = deferredGeneration \/ pin.used \/ ~pin.cold

\* The ask of a caller of transferTo, or of the dial-back handler, dies with the
\* turn it was made on: no later utterance completes it.
ProgrammaticDiesWithCaller ==
    pending # None /\ pending.origin = "programmatic" =>
        /\ pending.owner = acceptedTurnSequence
        /\ At("pinStart") \/ At("pinUp") \/ At("pinDown")

\* A transfer serves who asked for it: it outlives neither the turn of its
\* caller nor the conversation it was asked for in.
AskDiesWithItsTurn == DropIsFinal /\ ProgrammaticDiesWithCaller

\* The voices wait for the sentences of the newest turn, and a standup that has
\* not ended owns its queue: no older turn can add to a newer one's voices.
VoiceOfLatestTurn ==
    /\ rollcall # None => rollcall.turn = acceptedTurnSequence
    /\ At("standup") <=> rollcall # None /\ ~rollcall.sealed

\* No older turn moves the user to a lane or speaks into a newer one's voices.
NothingFromOldTurns == AskDiesWithItsTurn /\ VoiceOfLatestTurn

\* A lane's agent is started only when no earlier start, stop or restart of it
\* is unsettled.
LaneStartsNeverOverlap ==
    [][\A l \in Lane : laneStarts[l] = None /\ laneStarts'[l] # None =>
          ~laneStops[l] /\ ~\E i \in DOMAIN ops : ops[i].stage = "lane" /\ ops[i].at = l]_vars

\* When everything that a last stop() overtook has settled, no agent runs:
\* what came up after it was stopped again.  Left over is only what a stop
\* failed on, a lane that came up during its own stop, and what restart()
\* forgot: a front desk whose restart failed, a lane of an overlapping restart.
NothingLeftAfterStop ==
    ops # <<>> /\ Last(ops).kind = "stop" /\ primaryStops = <<>>
        /\ (\A i \in DOMAIN ops : ops[i].stage = "done")
        /\ (\A l \in Lane : ~laneStops[l] /\ laneStarts[l] = None)
    => /\ \A x \in Lane \cup {FrontDesk} : proc[x] = "down" \/ x \in unreaped
       /\ active = None /\ pending = None /\ started = {} /\ acceptedTurn = None

\* Every stop() returns although a start or restart it overtook never settles.
StopNeverHostage ==
    []<>(\A i \in DOMAIN ops : ops[i].kind = "stop" => ops[i].stage = "done")
=============================================================================
