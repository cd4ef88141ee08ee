----------------------------- MODULE Microphone -----------------------------
(***************************************************************************)
(* Who has the local microphone, src/daemon.ts with the owners it hands it *)
(* to: the clap listener, the conversational listener's recorder, the      *)
(* echo-cancelling helper, and dictation.  Each opens a recorder process   *)
(* of its own on one capture device.                                       *)
(*                                                                         *)
(* Voice mode, dictation and the shutdown run side by side.  An action is  *)
(* one stretch between two awaits; Quiet says that whoever a settled       *)
(* promise resumes goes on before the next event.                          *)
(***************************************************************************)
EXTENDS Naturals, Sequences, FiniteSets

CONSTANTS
    MaxPresses,     \* bound: hotkeys, claps, spoken endings, dashboard requests
    MaxFaults       \* bound: reaps that fail, recorders that die

VARIABLES
    mic,            \* what the calls below read and write, see Microphone
    running,        \* this.running /\ ~this.stopRequested
    idle,           \* lifecycle = "idle"
    transitions,    \* reconciliations queued on voiceTransition
    task,           \* where a reconciliation, dictation and stop() wait
    dictation,      \* DictationState of the listener, "gone" once the daemon let go of it
    dictating,      \* its running
    presses, faults,
    renewed         \* history: voice mode was asked for anew during a reconciliation

vars == <<mic, running, idle, transitions, task, dictation, dictating, presses, faults,
          renewed>>

Owner == {"clap", "talk", "aec", "dictation"}

\* Something that waits: for reaps, for a handoff.
Over == [at |-> "over", waits |-> {}, on |-> 0, failed |-> FALSE]

(***************************************************************************)
(* The microphone.                                                         *)
(*   device     the recorder of each owner: "stuck" when its reap failed   *)
(*   hub        the helper's state, "none" where it is not configured      *)
(*   hubWanted, clapWanted   desiredRunning of the helper and of clap      *)
(*   active     conversational.active                                      *)
(*   desired    voiceDesiredActive                                         *)
(*   holds      dictationHoldsMicrophone                                   *)
(*   handoffs   every voiceInputHandoff so far; it is the last one         *)
(* A call that the code makes inside another is an operator from one such  *)
(* record to the next.                                                     *)
(***************************************************************************)

Init ==
    /\ \E h \in {"none", "stopped"} :
         mic = [device |-> [o \in Owner |-> IF o = "clap" THEN "open" ELSE "free"],
                hub |-> h, hubWanted |-> FALSE, clapWanted |-> TRUE, active |-> FALSE,
                desired |-> FALSE, holds |-> FALSE, handoffs |-> <<>>]
    /\ running = TRUE /\ idle = FALSE /\ transitions = 0
    /\ task = [reconcile |-> Over, dictation |-> Over, stop |-> Over]
    /\ dictation = "idle" /\ dictating = TRUE
    /\ presses = 0 /\ faults = 0 /\ renewed = FALSE

Closing(m, os) == {o \in os : m.device[o] = "closing"}

\* terminateDirectChild() on what these owners still have.
Terminate(m, os) ==
    [m EXCEPT !.device = [o \in Owner |-> IF o \in os /\ @[o] \in {"open", "stuck"}
                                          THEN "closing" ELSE @[o]]]
ClapStop(m) == [Terminate(m, {"clap"}) EXCEPT !.clapWanted = FALSE]
AecStop(m) == [Terminate(m, {"aec"}) EXCEPT !.hubWanted = FALSE,
                                            !.hub = IF @ = "none" THEN @ ELSE "stopped"]

\* Waits for the handoff before it, however that ends.
AddHandoff(m, os) ==
    [m EXCEPT !.handoffs = Append(@, [at |-> "release", waits |-> Closing(m, os),
                                      on |-> Len(@), failed |-> FALSE])]
BeginVoiceInputHandoff(m) == AddHandoff(AecStop(Terminate(m, {"talk"})), {"talk", "aec"})

HandleVoiceDeactivated(m) == BeginVoiceInputHandoff([m EXCEPT !.desired = FALSE])
\* ConversationalListener.deactivate() and its callback.
Deactivate(m) ==
    IF m.active THEN HandleVoiceDeactivated(Terminate([m EXCEPT !.active = FALSE], {"talk"}))
    ELSE m

(***************************************************************************)
(* Waiting                                                                 *)
(***************************************************************************)

Settled(i) == mic.handoffs[i].at \in {"ok", "failed"}
Ready(t) ==
    /\ t.at \notin {"over", "ok", "failed"}
    /\ t.failed \/ (t.waits = {} /\ (t.on # 0 => Settled(t.on)))
Rejected(t) == t.failed \/ (t.on # 0 /\ mic.handoffs[t.on].at = "failed")

Await(at, m, os) == [Over EXCEPT !.at = at, !.waits = Closing(m, os)]
AwaitHandoff(at, m) == [Over EXCEPT !.at = at, !.on = Len(m.handoffs)]

\* The helper's first frame or its end resumes a start; a shutdown drains the
\* recorder that dictation is releasing, and the voice lifecycle.
Resumes(t) ==
    CASE t.at = "ready" -> mic.hub # "starting"
      [] t.at = "drain" -> Ready(t) /\ task.dictation.at # "finish"
      [] t.at = "voice" -> /\ Ready(t) /\ transitions = 0
                           /\ mic.handoffs = <<>> \/ Settled(Len(mic.handoffs))
      [] OTHER -> Ready(t)
Quiet ==
    /\ transitions > 0 => task.reconcile # Over
    /\ \A w \in DOMAIN task : ~Resumes(task[w])
    /\ \A i \in DOMAIN mic.handoffs : ~Ready(mic.handoffs[i])

(***************************************************************************)
(* A handoff: release, then re-arm clap if voice is still wanted idle      *)
(***************************************************************************)

\* Mutant: the shutdown is not looked at.
WantsClapAlways == ~mic.desired /\ ~mic.holds
WantsClap == running /\ ~mic.desired /\ ~mic.holds
Opened(m, o) == [m EXCEPT !.device[o] = "open"]

HandoffEnds(i, m, at) == mic' = [m EXCEPT !.handoffs[i].at = at]
HandoffWaits(i, m, at) ==
    mic' = [m EXCEPT !.handoffs[i] = [Await(at, m, {"clap"}) EXCEPT !.on = m.handoffs[i].on]]

\* ClapListener.start(): a recorder that is left over is reaped first.
Rearm(i) ==
    LET m == [mic EXCEPT !.clapWanted = TRUE]
    IN  CASE m.device["clap"] = "open" -> HandoffEnds(i, m, "ok")
          [] m.device["clap"] = "free" -> HandoffEnds(i, Opened(m, "clap"), "ok")
          [] OTHER -> HandoffWaits(i, Terminate(m, {"clap"}), "arm")

\* clap.start() is over; what became stale meanwhile is undone.
Armed(i) ==
    LET m == IF ~mic.handoffs[i].failed /\ mic.clapWanted THEN Opened(mic, "clap") ELSE mic
    IN  IF WantsClap THEN HandoffEnds(i, m, "ok")
        ELSE IF m.device["clap"] = "free" THEN HandoffEnds(i, ClapStop(m), "ok")
        ELSE HandoffWaits(i, ClapStop(m), "disarm")

HandoffStep(i) ==
    /\ Ready(mic.handoffs[i])
    /\ \/ /\ mic.handoffs[i].at = "release" /\ mic.handoffs[i].failed
          /\ HandoffEnds(i, mic, "failed")
       \/ /\ mic.handoffs[i].at = "release" /\ ~mic.handoffs[i].failed
          /\ IF WantsClap THEN Rearm(i) ELSE HandoffEnds(i, mic, "ok")
       \/ mic.handoffs[i].at = "arm" /\ Armed(i)
       \/ /\ mic.handoffs[i].at = "disarm"
          /\ HandoffEnds(i, mic, IF mic.handoffs[i].failed THEN "failed" ELSE "ok")
    /\ UNCHANGED <<running, idle, transitions, task, dictation, dictating, presses, faults,
                   renewed>>

(***************************************************************************)
(* Voice mode                                                              *)
(***************************************************************************)

others == <<running, idle, dictation, dictating, presses, faults, renewed>>

Waits(w, t) == task' = [task EXCEPT ![w] = t]
\* The reconciliation returns; the next in the queue may begin.
Reconciled(m) ==
    /\ mic' = m /\ Waits("reconcile", Over) /\ transitions' = transitions - 1
ReconcileWaits(m, t) == mic' = m /\ Waits("reconcile", t) /\ UNCHANGED transitions

ReconcileBegins ==
    /\ transitions > 0 /\ task.reconcile = Over
    /\ \/ (~running \/ (mic.desired /\ mic.active)) /\ Reconciled(mic)
       \/ /\ running /\ mic.desired /\ ~mic.active /\ mic.holds
          /\ Reconciled([mic EXCEPT !.desired = FALSE])
       \/ /\ running /\ mic.desired /\ ~mic.active /\ ~mic.holds
          /\ ReconcileWaits(mic, AwaitHandoff("handoff", mic))
       \/ /\ running /\ ~mic.desired
          /\ LET m == Deactivate(mic)
             IN  ReconcileWaits(m, AwaitHandoff("settle", m))
    /\ UNCHANGED others

\* The commit point of an activation.
Commit(m, released) ==
    \/ ~running /\ Reconciled(m)
    \/ running /\ m.desired /\ released /\ Reconciled([m EXCEPT !.active = TRUE])
    \/ running /\ m.desired /\ ~released /\ Reconciled([m EXCEPT !.desired = FALSE])
    \/ /\ running /\ ~m.desired
       /\ ReconcileWaits(AecStop(m), Await("settle", AecStop(m), {"aec"}))

\* AecAudioHub.startHelper().
AecSpawn(m) ==
    /\ mic' = [Opened(m, "aec") EXCEPT !.hub = "starting"]
    /\ Waits("reconcile", [Over EXCEPT !.at = "ready"]) /\ UNCHANGED transitions
\* AecAudioHub.start(): an earlier helper is reaped first.
AecStart(m0) ==
    LET m == Terminate([m0 EXCEPT !.hubWanted = TRUE], {"aec"})
    IN  IF m.device["aec"] = "closing"
        THEN ReconcileWaits(m, Await("cleanup", m, {"aec"})) ELSE AecSpawn(m)

AecStarted ==
    IF running /\ mic.desired THEN Commit(mic, TRUE)
    ELSE ReconcileWaits(AecStop(mic), Await("settle", AecStop(mic), {"aec"}))
AecRejected == ReconcileWaits(AecStop(mic), Await("fallback", AecStop(mic), {"aec"}))

ReconcileStep ==
    LET t == task.reconcile
        wanted == running /\ mic.desired
    IN  /\ t # Over /\ Resumes(t)
        /\ \/ t.at = "settle" /\ Reconciled(mic)
           \/ t.at = "handoff" /\ Rejected(t) /\ Reconciled([mic EXCEPT !.desired = FALSE])
           \/ t.at = "handoff" /\ ~Rejected(t) /\ ~wanted /\ Reconciled(mic)
           \/ /\ t.at = "handoff" /\ ~Rejected(t) /\ wanted
              /\ ReconcileWaits(ClapStop(mic), Await("clap", ClapStop(mic), {"clap"}))
           \/ t.at = "clap" /\ (Rejected(t) \/ ~wanted) /\ Reconciled(mic)
           \/ /\ t.at = "clap" /\ ~Rejected(t) /\ wanted
              /\ IF mic.hub = "stopped" THEN AecStart(mic) ELSE Commit(mic, TRUE)
           \/ t.at = "cleanup" /\ Rejected(t) /\ AecRejected
           \/ /\ t.at = "cleanup" /\ ~Rejected(t)
              /\ IF mic.hubWanted THEN AecSpawn(mic) ELSE AecStarted
           \/ t.at = "ready" /\ mic.hub = "running" /\ AecStarted
           \/ /\ t.at = "ready" /\ mic.hub = "stopped"
              /\ ReconcileWaits(mic, Await("dying", mic, {"aec"}))
           \/ t.at = "dying" /\ AecRejected
           \/ t.at = "fallback" /\ Commit(mic, ~t.failed)
        /\ UNCHANGED others

Press == Quiet /\ presses < MaxPresses /\ presses' = presses + 1

\* setVoiceMode(), by hotkey, dashboard or double clap.
SetVoiceMode(on) ==
    LET m == [mic EXCEPT !.desired = on]
        hands == ~mic.active /\ (on => ~mic.desired)
    IN  /\ Press
        /\ IF on /\ ~running
           THEN mic' = [mic EXCEPT !.desired = FALSE] /\ UNCHANGED <<transitions, renewed>>
           ELSE /\ mic' = IF hands THEN BeginVoiceInputHandoff(m) ELSE m
                /\ transitions' = transitions + 1
                /\ renewed' = (renewed \/ (on /\ ~mic.desired /\ task.reconcile # Over))
        /\ UNCHANGED <<running, idle, task, dictation, dictating, faults>>

events == <<running, idle, transitions, task, dictation, dictating, presses, faults, renewed>>

\* "Stop listening", a clap, a capture that fails, a release that stays busy.
ListenerDeactivates ==
    /\ Press /\ mic.active /\ mic' = Deactivate(mic)
    /\ UNCHANGED <<running, idle, transitions, task, dictation, dictating, faults, renewed>>

\* A raw capture; where a helper was, only once it is confirmed gone.
CaptureOpens ==
    /\ Quiet /\ mic.active /\ mic.device["talk"] = "free" /\ mic.hub # "running"
    /\ \/ mic.device["aec"] = "free" /\ mic' = Opened(mic, "talk")
       \/ mic.device["aec"] = "stuck" /\ mic' = Terminate(mic, {"aec"})
    /\ UNCHANGED events
CaptureEnds ==
    /\ Quiet /\ mic.active /\ mic.device["talk"] = "open"
    /\ mic' = Terminate(mic, {"talk"}) /\ UNCHANGED events

Fault == faults < MaxFaults /\ faults' = faults + 1

AecReady ==
    /\ Quiet /\ mic.hub = "starting" /\ mic' = [mic EXCEPT !.hub = "running"]
    /\ UNCHANGED events
\* failProcess(): the helper exits, or gives no frame in time.
AecFails ==
    /\ Quiet /\ mic.hub \in {"starting", "running"} /\ Fault
    /\ mic' = [Terminate(mic, {"aec"}) EXCEPT !.hub = "stopped"]
    /\ UNCHANGED <<running, idle, transitions, task, dictation, dictating, presses, renewed>>
ClapEnds ==
    /\ Quiet /\ mic.device["clap"] = "open" /\ Fault
    /\ mic' = Terminate(mic, {"clap"})
    /\ UNCHANGED <<running, idle, transitions, task, dictation, dictating, presses, renewed>>

\* A reap ends; everybody who waits for it learns how.
Reaped(o, ok) ==
    LET hears(t) == [t EXCEPT !.waits = @ \ {o}, !.failed = @ \/ (o \in t.waits /\ ~ok)]
    IN  /\ Quiet /\ mic.device[o] = "closing"
        /\ IF ok THEN UNCHANGED faults ELSE Fault
        /\ mic' = [mic EXCEPT !.device[o] = IF ok THEN "free" ELSE "stuck",
                              !.handoffs = [i \in DOMAIN @ |-> hears(@[i])]]
        /\ task' = [w \in DOMAIN task |-> hears(task[w])]
        /\ UNCHANGED <<running, idle, transitions, dictation, dictating, presses, renewed>>

(***************************************************************************)
(* Dictation                                                               *)
(***************************************************************************)

dictationRest == <<running, idle, transitions, presses, faults, renewed, dictating>>
DictationGoes(m, t, state) ==
    /\ mic' = m /\ Waits("dictation", t)
    /\ dictation' = IF dictation = "gone" THEN dictation ELSE state

\* Mutant: the device is given back without a handoff.
GiveBackQuietly(m) == [m EXCEPT !.holds = FALSE]
GiveBack(m) == BeginVoiceInputHandoff([m EXCEPT !.holds = FALSE])

\* Mutant: voice mode is pre-empted.
TakeMicrophoneAnyway ==
    LET m == BeginVoiceInputHandoff([mic EXCEPT !.holds = TRUE])
    IN  DictationGoes(m, AwaitHandoff("handoff", m), "starting")
\* acquireDictationMicrophone() up to its first await.
TakeMicrophone ==
    IF mic.desired \/ mic.active THEN DictationGoes(mic, Over, "idle")
    ELSE LET m == BeginVoiceInputHandoff([mic EXCEPT !.holds = TRUE])
         IN  DictationGoes(m, AwaitHandoff("handoff", m), "starting")

Toggle ==
    /\ Press /\ dictating
    /\ \/ /\ dictation = "idle" /\ mic.device["dictation"] = "stuck"
          /\ LET m == Terminate(mic, {"dictation"})
             IN  DictationGoes(m, Await("reap", m, {"dictation"}), "starting")
       \/ dictation = "idle" /\ mic.device["dictation"] = "free" /\ TakeMicrophone
       \/ /\ dictation = "recording" /\ mic.device["dictation"] = "open"
          /\ LET m == Terminate(mic, {"dictation"})
             IN  DictationGoes(m, Await("finish", m, {"dictation"}), "transcribing")
    /\ UNCHANGED <<running, idle, transitions, faults, renewed, dictating>>

DictationStep ==
    LET t == task.dictation
    IN  /\ Resumes(t)
        /\ \/ t.at = "reap" /\ t.failed /\ DictationGoes(mic, Over, "idle")
           \/ /\ t.at = "reap" /\ ~t.failed
              /\ LET m == GiveBack(mic)
                 IN  DictationGoes(m, AwaitHandoff("given", m), "starting")
           \/ t.at = "given" /\ TakeMicrophone
           \/ /\ t.at \in {"handoff", "clap"} /\ Rejected(t)
              /\ DictationGoes(GiveBack(mic), Over, "idle")
           \/ /\ t.at = "handoff" /\ ~Rejected(t)
              /\ DictationGoes(ClapStop(mic), Await("clap", ClapStop(mic), {"clap"}), "starting")
           \/ /\ t.at = "clap" /\ ~Rejected(t)
              /\ IF dictating THEN DictationGoes(Opened(mic, "dictation"), Over, "recording")
                 ELSE DictationGoes(GiveBack(mic), Over, "idle")
           \* The recorder is retained, and with it the microphone.
           \/ t.at = "finish" /\ t.failed /\ DictationGoes(mic, Over, "idle")
           \/ /\ t.at = "finish" /\ ~t.failed
              /\ LET m == GiveBack(mic)
                 IN  DictationGoes(m, AwaitHandoff("back", m), "transcribing")
           \/ t.at = "back" /\ DictationGoes(mic, Over, dictation)
        /\ UNCHANGED dictationRest

TranscriptArrives ==
    /\ Quiet /\ dictation = "transcribing" /\ task.dictation = Over /\ dictation' = "idle"
    /\ UNCHANGED <<mic, running, idle, transitions, task, dictating, presses, faults, renewed>>

(***************************************************************************)
(* stop() of the daemon                                                    *)
(***************************************************************************)

StopGoes(m, t) == mic' = m /\ Waits("stop", t)

Stop ==
    /\ Press /\ task.stop = Over /\ ~idle
    /\ LET m == BeginVoiceInputHandoff(Deactivate(ClapStop([mic EXCEPT !.desired = FALSE])))
       IN  StopGoes(AddHandoff(m, {"clap"}), [Over EXCEPT !.at = "ingress"])
    /\ running' = FALSE
    /\ UNCHANGED <<idle, transitions, dictation, dictating, faults, renewed>>

\* Every owner that is left once more, after a shutdown that could not confirm a
\* release.
StopAgain ==
    /\ Press /\ task.stop = Over /\ idle
    /\ LET m == Terminate(AecStop(ClapStop(mic)), {"talk"})
       IN  StopGoes(m, Await("idle", m, Owner))
    /\ UNCHANGED <<running, idle, transitions, dictation, dictating, faults, renewed>>

\* The ends of DictationListener.stop(): a recorder that is gone is handed back.
HandBack ==
    LET held == mic.holds /\ task.dictation.at \notin {"handoff", "clap"}
        m == IF held THEN GiveBack(mic) ELSE mic
    IN  StopGoes(m, IF held THEN AwaitHandoff("voice", m) ELSE [Over EXCEPT !.at = "voice"])
Retry(at) ==
    LET m == Terminate(mic, {"dictation"})
    IN  StopGoes(m, Await(at, m, {"dictation"}))

\* DictationListener.stop(), after the ingress has drained or was given up.  A
\* recorder that is retained is reaped again before and after the drain.
StopDictation ==
    LET t == task.stop
        stuck == mic.device["dictation"] = "stuck"
    IN  /\ Resumes(t)
        /\ \/ /\ t.at = "ingress" /\ dictating' = FALSE
              /\ IF dictation = "recording"
                 THEN Retry("release") /\ dictation' = "idle"
                 ELSE StopGoes(mic, [Over EXCEPT !.at = "release"]) /\ UNCHANGED dictation
           \/ /\ t.at = "release" /\ UNCHANGED <<dictation, dictating>>
              /\ IF stuck THEN Retry("drain") ELSE StopGoes(mic, [Over EXCEPT !.at = "drain"])
           \/ /\ t.at = "drain" /\ UNCHANGED <<dictation, dictating>>
              /\ IF stuck THEN Retry("last") ELSE StopGoes(mic, [Over EXCEPT !.at = "last"])
           \/ /\ t.at = "last" /\ dictation' = (IF stuck THEN "idle" ELSE "gone")
              /\ UNCHANGED dictating
              /\ IF stuck THEN StopGoes(mic, [Over EXCEPT !.at = "voice"]) ELSE HandBack
        /\ UNCHANGED <<running, idle, transitions, presses, faults, renewed>>

\* The voice lifecycle drains, then each owner is stopped in its turn.  With the
\* recorder of a dictation unconfirmed, the shutdown fails and is to be repeated.
StopAudio ==
    LET t == task.stop
        then(at, m, os) == StopGoes(m, Await(at, m, os))
    IN  /\ Resumes(t)
        /\ \/ t.at = "voice" /\ then("clap", ClapStop(mic), {"clap"}) /\ UNCHANGED idle
           \/ t.at = "clap" /\ then("talk", Terminate(mic, {"talk"}), {"talk"}) /\ UNCHANGED idle
           \/ t.at = "talk" /\ then("aec", AecStop(mic), {"aec"}) /\ UNCHANGED idle
           \/ t.at = "aec" /\ StopGoes(mic, Over) /\ idle' = (dictation = "gone")
           \/ t.at = "idle" /\ StopGoes(mic, Over) /\ UNCHANGED idle
        /\ UNCHANGED <<running, transitions, dictation, dictating, presses, faults, renewed>>

Next ==
    \/ \E i \in DOMAIN mic.handoffs : HandoffStep(i)
    \/ ReconcileBegins \/ ReconcileStep \/ DictationStep \/ StopDictation \/ StopAudio
    \/ \E on \in BOOLEAN : SetVoiceMode(on)
    \/ ListenerDeactivates \/ CaptureOpens \/ CaptureEnds
    \/ AecReady \/ AecFails \/ ClapEnds
    \/ \E o \in Owner, ok \in BOOLEAN : Reaped(o, ok)
    \/ Toggle \/ TranscriptArrives \/ Stop \/ StopAgain

Spec == Init /\ [][Next]_vars

-----------------------------------------------------------------------------
Task == [at : STRING, waits : SUBSET Owner, on : Nat, failed : BOOLEAN]
TypeOK ==
    /\ mic.device \in [Owner -> {"free", "open", "closing", "stuck"}]
    /\ mic.hub \in {"none", "stopped", "starting", "running"}
    /\ \A b \in {mic.hubWanted, mic.clapWanted, mic.active, mic.desired, mic.holds} : b \in BOOLEAN
    /\ \A i \in DOMAIN mic.handoffs : mic.handoffs[i] \in Task
    /\ running \in BOOLEAN /\ idle \in BOOLEAN /\ transitions \in 0 .. MaxPresses
    /\ \A w \in {"reconcile", "dictation", "stop"} : task[w] \in Task
    /\ dictation \in {"idle", "starting", "recording", "transcribing", "gone"} /\ dictating \in BOOLEAN
    /\ presses \in 0 .. MaxPresses /\ faults \in 0 .. MaxFaults /\ renewed \in BOOLEAN

Recorders == {o \in Owner : mic.device[o] # "free"}

\* The capture device has one recorder process at a time, also while one dies
\* slowly or cannot be confirmed gone; voice mode that is asked for anew while an
\* activation is on its way is excepted, see the README.
OneRecorder == ~renewed => Cardinality(Recorders) <= 1

\* A shutdown that succeeded has left no recorder but one whose reap failed, and
\* nothing that was in flight opens one later.
StopFreesMicrophone ==
    idle => \A o \in Owner : mic.device[o] = "free" \/ (faults > 0 /\ mic.device[o] # "open")

\* One recorder at a time while the daemon runs, and none after it.
RecorderAccounted == OneRecorder /\ StopFreesMicrophone

\* When nothing is in flight, the clap recorder listens unless voice mode or a
\* dictation has the device: no order of requests leaves the gesture dead, the
\* device claimed by nobody, or a request for voice mode forgotten.
HandsFreeResumes ==
    /\ running /\ faults = 0 /\ ~renewed /\ Quiet /\ transitions = 0
    /\ \A w \in DOMAIN task : task[w] = Over
    /\ \A i \in DOMAIN mic.handoffs : Settled(i)
    => /\ mic.active = mic.desired
       /\ mic.holds = (dictation = "recording")
       /\ (mic.device["clap"] = "open") = ~(mic.active \/ mic.holds)

\* Both: never two recorders, and never none for longer than something is in flight.
MicrophoneIsShared == RecorderAccounted /\ HandsFreeResumes
=============================================================================
