------------------------------ MODULE Listener ------------------------------
(***************************************************************************)
(* The conversational listener, src/listener/conversational.ts, with the   *)
(* voice-activity recorder that hears for it, src/listener/vad-recorder.ts.*)
(*                                                                         *)
(* Each activation runs a loop: hear a turn, understand it, ask whether it *)
(* was addressed to Cicero, dispatch it, and listen over the reply for an  *)
(* interruption.  All of them, and the one-shot capture of a spoken        *)
(* confirmation, share one recorder.  Voice mode may be put down and up    *)
(* again at each await of a loop, which then goes on beside the next one.  *)
(*                                                                         *)
(* An action is one stretch between two awaits.  What an await gives in    *)
(* the end (a recording, a transcript, a verdict) is any it can give.      *)
(***************************************************************************)
EXTENDS Naturals, FiniteSets

CONSTANTS
    MaxActivations,   \* bound: how often voice mode goes on
    GraceAttempts,    \* turnGraceAttempts, 2
    MaxUnusual        \* bound: confirmations, turns of other surfaces, failed reaps

VARIABLES
    mode,         \* "duplex", "barge" or "plain": how a reply can be interrupted
    clapEnds,     \* clapDeactivateEnabled
    ear,          \* what the calls below read and write
    shot,         \* the one-shot capture
    unusual,
    \* History, read by no action.
    stale,        \* something left the listener on behalf of an ended activation
    cut           \* a capture that nobody meant to end ended the loop

vars == <<mode, clapEnds, ear, shot, unusual, stale, cut>>

Activation == 1..MaxActivations
NoCapture == [by |-> "nobody", of |-> 0, at |-> "none", cancelled |-> FALSE, got |-> "none"]
NoShot == [at |-> "none", of |-> 0, waits |-> {}, failed |-> FALSE]

(***************************************************************************)
(*   active, count     active; count stands for activationEpoch            *)
(*   proc              VadRecorder.proc: "stuck" when its reap failed      *)
(*   capture           VadRecorder.activeCapture: for whom, how it ends    *)
(*   release           captureRelease: what it waits for                   *)
(*   detecting, armed  detectingBargeIn, the recorder's clapEnabled        *)
(*   loop              where each activation's loop awaits: the grace      *)
(*                     rounds of its turn, whether the signal it took for  *)
(*                     the utterance fired, whether its callback settled   *)
(* A call that the code makes inside another is an operator from one such  *)
(* record to the next.                                                     *)
(***************************************************************************)
Init ==
    /\ mode \in {"duplex", "barge", "plain"}
    /\ clapEnds \in BOOLEAN
    /\ ear = [active |-> FALSE, count |-> 0, proc |-> "none", capture |-> NoCapture,
              release |-> [waits |-> {}, failed |-> FALSE], detecting |-> FALSE,
              armed |-> clapEnds,
              loop |-> [a \in Activation |->
                         [at |-> "none", tries |-> 0, round |-> 0, signalled |-> FALSE,
                          waits |-> {}, done |-> TRUE]]]
    /\ shot = NoShot
    /\ unusual = 0
    /\ stale = FALSE /\ cut = FALSE

Current(e, a) == e.active /\ e.count = a
At(e, a, stage) == [e EXCEPT !.loop[a].at = stage]

(***************************************************************************)
(* The recorder                                                            *)
(***************************************************************************)

\* terminateRecorder() shares an attempt that runs and retries one that failed.
Terminate(e) == [e EXCEPT !.proc = IF @ = "none" THEN @ ELSE "closing"]
VadStop(e) == [Terminate(e) EXCEPT !.capture.cancelled = e.capture # NoCapture]

\* What VadRecorder.stop() waits for.
Waits(e) == {w \in {"capture", "reap"} :
                 IF w = "capture" THEN e.capture # NoCapture ELSE e.proc = "closing"}

RequestAudioCaptureStop(e) ==
    LET n == VadStop(e) IN [n EXCEPT !.release = [waits |-> Waits(n), failed |-> FALSE]]

\* Its callback has the daemon request the release once more.
Deactivate(e) ==
    IF ~e.active THEN e
    ELSE RequestAudioCaptureStop([e EXCEPT !.active = FALSE, !.detecting = FALSE])

CanCapture(e) == e.capture = NoCapture /\ e.proc = "none"
Capture(e, by, a) ==
    [e EXCEPT !.proc = "open",
              !.capture = [NoCapture EXCEPT !.by = by, !.of = a, !.at = "gate"]]

(***************************************************************************)
(* The loop of an activation                                               *)
(***************************************************************************)

\* recordUntilSilence(): a recorder that cannot be opened turns voice mode off.
Hear(e, a) ==
    IF CanCapture(e) THEN At(Capture(e, "turn", a), a, "hear")
    ELSE At(Deactivate(e), a, "ended")

NextTurn(e, a) ==
    IF Current(e, a)
    THEN Hear([e EXCEPT !.loop[a].round = 0, !.loop[a].signalled = FALSE], a)
    ELSE At(e, a, "ended")

\* A turn was captured and understood.
TurnEnds(e, a, said) ==
    CASE e.loop[a].signalled \/ said = "nothing" -> NextTurn(e, a)
      [] ~e.loop[a].signalled /\ said = "bye" -> At(Deactivate(e), a, "ended")
      [] OTHER -> At(e, a, "judge")

\* detectBargeIn(), or a nap where there is nothing to detect with.
Detect(e, a) ==
    CASE ~Current(e, a) -> At(e, a, "ended")
      [] Current(e, a) /\ (shot # NoShot \/ ~CanCapture(e)) -> At(e, a, "nap")
      [] OTHER -> At(Capture(e, "barge", a), a, "detect")

\* A reply begins; runFullDuplexTurn() arms the clap that interrupts it.
Reply(e, a) ==
    LET begun == [e EXCEPT !.loop[a].done = FALSE, !.loop[a].signalled = FALSE] IN
    CASE mode = "plain" -> At(begun, a, "wait")
      [] mode = "barge" -> Detect(begun, a)
      [] OTHER -> Detect([begun EXCEPT !.detecting = TRUE, !.armed = TRUE], a)

\* The end of runFullDuplexTurn(), which a loop that is not current leaves out.
Disarm(e) == [e EXCEPT !.detecting = FALSE, !.armed = clapEnds]

\* The detection over a reply is over; full duplex listens on at once.
ReplyOver(e, a) ==
    CASE ~Current(e, a) -> At(e, a, "ended")
      [] Current(e, a) /\ mode = "duplex" -> NextTurn(Disarm(e), a)
      [] OTHER -> At(e, a, "settle")

(***************************************************************************)
(* Voice mode on and off                                                   *)
(***************************************************************************)

\* The daemon activates once the last release is confirmed.
Activate ==
    /\ ~ear.active /\ ear.count < MaxActivations
    /\ ear.release = [waits |-> {}, failed |-> FALSE]
    /\ ear' = [ear EXCEPT !.active = TRUE, !.count = @ + 1,
                          !.loop[ear.count + 1].at = "handoff",
                          !.loop[ear.count + 1].tries = 1]
    /\ UNCHANGED <<mode, clapEnds, shot, unusual, stale, cut>>

PutDown ==
    /\ ear.active
    /\ ear' = Deactivate(ear)
    /\ UNCHANGED <<mode, clapEnds, shot, unusual, stale, cut>>

\* releaseAudioCapture(): the next handoff of the daemon tries a failed release again.
ReleaseAgain ==
    /\ ~ear.active /\ ear.release.failed
    /\ ear' = RequestAudioCaptureStop(ear)
    /\ UNCHANGED <<mode, clapEnds, shot, unusual, stale, cut>>

\* The captures of earlier activations that were in flight when this one began.
PriorCaptures(a) ==
    \/ \E b \in Activation : b < a /\ ear.loop[b].at \in {"hear", "stt"}
    \/ ear.capture.by = "barge" /\ ear.capture.of < a
    \/ shot # NoShot /\ shot.of < a

HandoffEnds(a) ==
    /\ ear.loop[a].at = "handoff" /\ ~PriorCaptures(a)
    /\ ear' = At(ear, a, IF Current(ear, a) THEN "health" ELSE "ended")
    /\ UNCHANGED <<mode, clapEnds, shot, unusual, stale, cut>>

\* Two attempts, then voice mode is given up.
HandoffTimesOut(a) ==
    /\ ear.loop[a].at = "handoff" /\ PriorCaptures(a)
    /\ ear' = CASE ~Current(ear, a) -> At(ear, a, "ended")
                [] Current(ear, a) /\ ear.loop[a].tries = 1 ->
                     [RequestAudioCaptureStop(ear) EXCEPT !.loop[a].tries = 2]
                [] OTHER -> At(Deactivate(ear), a, "ended")
    /\ UNCHANGED <<mode, clapEnds, shot, unusual, stale, cut>>

\* initTurnDetection() has its answer.
DetectorAnswers(a) ==
    /\ ear.loop[a].at = "health"
    /\ ear' = NextTurn(ear, a)
    /\ UNCHANGED <<mode, clapEnds, shot, unusual, stale, cut>>

(***************************************************************************)
(* The recorder's end of a capture                                         *)
(***************************************************************************)

\* The gate closes after speech or a silence, the stream ends, or two claps
\* land; a capture that was stopped ends with its stream.
GateEnds ==
    /\ ear.capture.at = "gate"
    /\ \E got \in {"ok", "silent", "error", "clap"} :
         /\ ear.capture.cancelled => got = "silent"
         /\ got = "clap" => ear.armed
         /\ ear' = [Terminate(ear) EXCEPT !.capture.at = "reap", !.capture.got = got]
    /\ UNCHANGED <<mode, clapEnds, shot, unusual, stale, cut>>

\* Whoever waited for the capture or for the reap no longer does.
NoLonger(e, w) ==
    [e EXCEPT !.release.waits = @ \ {w},
              !.loop = [a \in Activation |-> [@[a] EXCEPT !.waits = @ \ {w}]]]

ReapEnds(reaped) ==
    /\ ear.proc = "closing"
    /\ reaped \/ unusual < MaxUnusual
    /\ unusual' = unusual + IF reaped THEN 0 ELSE 1
    /\ ear' = [NoLonger(ear, "reap") EXCEPT
                 !.proc = IF reaped THEN "none" ELSE "stuck",
                 !.release.failed = @ \/ (~reaped /\ "reap" \in ear.release.waits)]
    /\ shot' = [shot EXCEPT !.waits = @ \ {"reap"},
                            !.failed = @ \/ (~reaped /\ "reap" \in shot.waits)]
    /\ UNCHANGED <<mode, clapEnds, stale, cut>>

\* onClapGesture(): over a reply it interrupts, which ends that reply.
ClapGesture(e) == IF ~e.detecting /\ clapEnds THEN Deactivate(e) ELSE e

\* Mutant: silence is taken for the end of the conversation.
TurnHearsNothing(e, a, result, said) ==
    CASE ~Current(e, a) \/ result = "cancelled" -> At(e, a, "ended")
      [] Current(e, a) /\ result = "error" -> At(Deactivate(e), a, "ended")
      [] Current(e, a) /\ result = "silent" -> At(e, a, "ended")
      [] OTHER -> At(e, a, "stt")

\* captureTurnSegments() with a recording; a pause before any speech is none.
TurnHears(e, a, result, said) ==
    CASE ~Current(e, a) \/ result = "cancelled" -> At(e, a, "ended")
      [] Current(e, a) /\ result = "error" -> At(Deactivate(e), a, "ended")
      [] Current(e, a) /\ result = "silent" ->
           IF e.loop[a].round > 0 THEN TurnEnds(e, a, said) ELSE Hear(e, a)
      [] OTHER -> At(e, a, "stt")

\* The legacy detector interrupts here, before anything is understood.
BargeHears(e, a, result) ==
    CASE e.loop[a].at # "detect" -> e
      [] e.loop[a].at = "detect" /\ ~Current(e, a) -> At(e, a, "ended")
      [] e.loop[a].at = "detect" /\ Current(e, a) /\ result = "ok" ->
           At([e EXCEPT !.loop[a].signalled = FALSE], a, "stt2")
      [] OTHER -> At(e, a, "nap")

ShotHears(e, result) ==
    IF Current(e, shot.of) /\ result = "ok" THEN [shot EXCEPT !.at = "stt"] ELSE NoShot

CaptureEnds ==
    LET c == ear.capture
        clapped == c.got = "clap" /\ ~c.cancelled /\ ear.proc # "stuck"
        result == CASE ear.proc = "stuck" -> "error"
                    [] ear.proc # "stuck" /\ (c.cancelled \/ clapped) -> "cancelled"
                    [] OTHER -> c.got
        freed == [NoLonger(ear, "capture") EXCEPT !.capture = NoCapture]
        e == IF clapped THEN ClapGesture(freed) ELSE freed
    IN  /\ c.at = "reap" /\ ear.proc # "closing"
        /\ CASE c.by = "turn" ->
                  /\ \E said \in {"nothing", "bye", "words"} :
                       ear' = TurnHears(e, c.of, result, said)
                  /\ shot' = [shot EXCEPT !.waits = @ \ {"capture"}]
             [] c.by = "barge" ->
                  /\ ear' = BargeHears(e, c.of, result)
                  /\ shot' = [shot EXCEPT !.waits = @ \ {"capture"}]
             [] OTHER -> ear' = e /\ shot' = ShotHears(e, result)
        /\ cut' = (cut \/ (c.by = "turn" /\ clapped /\ ~clapEnds))
        /\ UNCHANGED <<mode, clapEnds, unusual, stale>>

(***************************************************************************)
(* What becomes of an utterance                                            *)
(***************************************************************************)

\* transcribe() and predict() have answered; the turn may not be over yet.
Understood(a) ==
    /\ ear.loop[a].at = "stt"
    /\ \/ /\ ~Current(ear, a)
          /\ ear' = At(ear, a, "ended")
       \/ /\ Current(ear, a)
          /\ \E said \in {"nothing", "bye", "words"} : ear' = TurnEnds(ear, a, said)
       \/ /\ Current(ear, a) /\ ~ear.loop[a].signalled
          /\ ear.loop[a].round < GraceAttempts
          /\ ear' = Hear([ear EXCEPT !.loop[a].round = @ + 1], a)
    /\ UNCHANGED <<mode, clapEnds, shot, unusual, stale, cut>>

\* Mutants: the verdict's activation, or its signal, is not looked at again.
MayDispatchLate(a) == ~ear.loop[a].signalled
MayDispatchOvertaken(a) == Current(ear, a)

\* addressedToMe() has its verdict, and nothing happened meanwhile.
MayDispatch(a) == Current(ear, a) /\ ~ear.loop[a].signalled

Dispatches(a) == stale' = (stale \/ ~Current(ear, a) \/ ear.loop[a].signalled)

Judged(a) ==
    /\ ear.loop[a].at = "judge"
    /\ \/ /\ ear' = NextTurn(ear, a)
          /\ UNCHANGED stale
       \/ /\ MayDispatch(a) /\ Dispatches(a)
          /\ ear' = Reply(ear, a)
    /\ UNCHANGED <<mode, clapEnds, shot, unusual, cut>>

\* Another surface begins a turn: turnSupersessionSignal.
Overtake ==
    LET taken == {a \in Activation :
                    \/ ear.loop[a].at \in {"stt", "judge", "stt2", "judge2"}
                    \/ ear.loop[a].at = "hear" /\ ear.loop[a].round > 0}
    IN  /\ unusual < MaxUnusual /\ taken # {}
        /\ unusual' = unusual + 1
        /\ ear' = [ear EXCEPT !.loop = [a \in Activation |->
                     [@[a] EXCEPT !.signalled = @ \/ a \in taken]]]
        /\ UNCHANGED <<mode, clapEnds, shot, stale, cut>>

(***************************************************************************)
(* A reply, and what interrupts it                                         *)
(***************************************************************************)

CallbackSettles(a) ==
    /\ ~ear.loop[a].done
    /\ ear' = [ear EXCEPT !.loop[a].done = TRUE]
    /\ UNCHANGED <<mode, clapEnds, shot, unusual, stale, cut>>

\* The reply won the race: the detector is stopped, and its recording dropped.
ReplyWins(a) ==
    /\ ear.loop[a].done /\ ear.loop[a].at \in {"wait", "detect"}
    /\ ear' = IF ear.loop[a].at = "wait" THEN ReplyOver(ear, a)
              ELSE LET n == VadStop(ear) IN
                   [At(n, a, "leftover") EXCEPT !.loop[a].waits = Waits(n)]
    /\ ear.loop[a].at = "detect" => Current(ear, a)
    /\ UNCHANGED <<mode, clapEnds, shot, unusual, stale, cut>>

LeftoverGone(a) ==
    /\ ear.loop[a].at = "leftover" /\ ear.loop[a].waits = {}
    /\ ear' = ReplyOver(ear, a)
    /\ UNCHANGED <<mode, clapEnds, shot, unusual, stale, cut>>

Rested(a) ==
    /\ ear.loop[a].at \in {"nap", "settle"}
    /\ ear' = IF ear.loop[a].at = "nap" THEN Detect(ear, a) ELSE NextTurn(ear, a)
    /\ UNCHANGED <<mode, clapEnds, shot, unusual, stale, cut>>

\* An echo or a backchannel leaves a full-duplex reply alone; a legacy one that
\* was interrupted for nothing is over; "stop" ends both.
BargeUnderstood(a) ==
    /\ ear.loop[a].at = "stt2"
    /\ \/ ~Current(ear, a) /\ ear' = At(ear, a, "ended")
       \/ Current(ear, a) /\ ear.loop[a].signalled /\ ear' = Detect(ear, a)
       \/ /\ MayDispatch(a)
          /\ \/ ear' = IF mode = "duplex" THEN Detect(ear, a) ELSE ReplyOver(ear, a)
             \/ ear' = ReplyOver(ear, a)
             \/ ear' = At(ear, a, "judge2")
    /\ UNCHANGED <<mode, clapEnds, shot, unusual, stale, cut>>

\* The replacement takes the window over, unless it is done at once.
BargeJudged(a) ==
    /\ ear.loop[a].at = "judge2"
    /\ \/ ear' = Detect(ear, a) /\ UNCHANGED stale
       \/ /\ MayDispatch(a) /\ Dispatches(a)
          /\ ear' \in {Reply(ear, a), ReplyOver([ear EXCEPT !.loop[a].done = TRUE], a)}
    /\ UNCHANGED <<mode, clapEnds, shot, unusual, cut>>

(***************************************************************************)
(* A spoken confirmation, listenOnce()                                     *)
(***************************************************************************)

ListenOnce ==
    LET e == VadStop(ear) IN
    /\ shot = NoShot /\ unusual < MaxUnusual
    /\ unusual' = unusual + 1
    /\ ear' = e
    /\ shot' = [NoShot EXCEPT !.at = "handoff", !.of = IF ear.active THEN ear.count ELSE 0,
                              !.waits = Waits(e)]
    /\ cut' = (cut \/ ear.capture.by = "turn")
    /\ UNCHANGED <<mode, clapEnds, stale>>

\* Mutant: the activation is not looked at once the handoff is through.
ShotMayOpenLate == TRUE
ShotMayOpen == Current(ear, shot.of)

\* Its turn may be gone by now, or the handoff took too long.
ShotOpens ==
    /\ shot.at = "handoff" /\ shot.waits = {}
    /\ \/ shot' = NoShot /\ UNCHANGED ear
       \/ /\ ShotMayOpen /\ ~shot.failed /\ CanCapture(ear)
          /\ ear' = Capture(ear, "shot", shot.of)
          /\ shot' = [shot EXCEPT !.at = "hear"]
    /\ UNCHANGED <<mode, clapEnds, unusual, stale, cut>>

\* A transcript that arrives after its activation answers nothing.
ShotUnderstood ==
    /\ shot.at = "stt"
    /\ shot' = NoShot
    /\ UNCHANGED <<mode, clapEnds, ear, unusual, stale, cut>>

Next ==
    \/ Activate \/ PutDown \/ ReleaseAgain
    \/ \E a \in Activation :
         \/ HandoffEnds(a) \/ HandoffTimesOut(a) \/ DetectorAnswers(a)
         \/ Understood(a) \/ Judged(a) \/ CallbackSettles(a) \/ ReplyWins(a)
         \/ LeftoverGone(a) \/ Rested(a) \/ BargeUnderstood(a) \/ BargeJudged(a)
    \/ GateEnds \/ (\E reaped \in BOOLEAN : ReapEnds(reaped)) \/ CaptureEnds
    \/ Overtake \/ ListenOnce \/ ShotOpens \/ ShotUnderstood

Spec == Init /\ [][Next]_vars

(***************************************************************************)
(* Properties                                                              *)
(***************************************************************************)

TypeOK ==
    /\ ear.active \in BOOLEAN /\ ear.count \in 0..MaxActivations
    /\ ear.proc \in {"none", "open", "closing", "stuck"}
    /\ ear.capture.by \in {"nobody", "turn", "barge", "shot"}
    /\ ear.capture.at \in {"none", "gate", "reap"}
    /\ shot.at \in {"none", "handoff", "hear", "stt"}

\* Once a release is confirmed and voice mode is off, no recorder of the listener
\* runs and none will be opened: whoever waited for the release may open one.
MicrophoneGivenBack ==
    ~ear.active /\ ear.release = [waits |-> {}, failed |-> FALSE]
        => ear.proc = "none" /\ ear.capture = NoCapture

\* As long as voice mode is on, somebody listens.  The code promises it
\* (conversational.ts:268): a clap outside its two windows must not "cancel the
\* capture and break the listen loop".
ListensWhileActive == ear.active => ear.loop[ear.count].at # "ended"

\* The same but for two captures that end the loop unnoticed, a confirmation that
\* is asked for while the loop hears and a clap that an earlier reply left armed;
\* and no utterance that was heard in an earlier activation, or that another
\* surface overtook, becomes a turn.
ActivationsAreApart ==
    /\ ~stale
    /\ cut \/ ListensWhileActive
=============================================================================
