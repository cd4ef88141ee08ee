-------------------------- MODULE DaemonLifecycle --------------------------
(***************************************************************************)
(* The daemon comes up and goes down: start with its rollback and stop in  *)
(* stages of src/daemon.ts, and the command line that runs it until a      *)
(* signal, src/process-lifecycle.ts and src/index.ts.                      *)
(*                                                                         *)
(* startComponents is a chain of awaits, each bringing a part up; stop may *)
(* come at any of them.  What each part does inside is other modules'.     *)
(* A cleanup that fails is only logged, or keeps the shutdown from its end;*)
(* the tone detector stands for the helpers whose failure is only logged.  *)
(***************************************************************************)
EXTENDS Naturals, FiniteSets

CONSTANTS
    MaxStarts,      \* bound: runs of the daemon in one process
    MaxCalls,       \* bound: calls of stop() by a host that embeds the daemon
    MaxFaults       \* bound: starts and releases that fail by themselves

VARIABLES
    lifecycle, stopRequested,
    run,            \* how often it was started
    startup,        \* the await startComponents is at, "rollback", or "none"
    startResult,    \* how the promise of the last start() settled
    pass,           \* where stopInternal is; stopPromise is set unless "none"
    early,          \* the ingress this pass stops
    dictationFailed,
    held,           \* the fields of the daemon that refer to a part
    alive,          \* by run: the parts that are there
    loading, late,  \* runs whose tone detector loads; which are to be stopped when it has
    cli,            \* the start command, "none" when a host embeds the daemon
    asked,          \* by caller of stop(): what became of it
    calls, faults,
    abandoned,      \* by run: parts that would not go and nothing waits for
    missed          \* history, by run: parts that came up behind their own cleanup

startVars == <<lifecycle, stopRequested, startup, startResult, pass, early>>
behindVars == <<late, abandoned, missed>>
partVars == <<held, alive, loading, behindVars>>
callVars == <<run, cli, asked, calls>>
vars == <<startVars, dictationFailed, partVars, callVars, faults>>

Run == 1..MaxStarts
Part == {"marker", "control", "llm", "stt", "brain", "dictation", "web", "tone"}
Ingress == {"control", "web"}
Provider == {"llm", "stt"}
\* A recognizer keeps the handle of a process that would not go; the language
\* model, like the voices, drops it and has nothing to stop the next time.
Keepers == {"stt"}
Caller == {"signal", "again", "host"}

Init ==
    /\ lifecycle = "idle" /\ stopRequested = FALSE /\ run = 0
    /\ startup = "none" /\ startResult = "none" /\ pass = "none" /\ early = {}
    /\ dictationFailed = FALSE /\ held = {} /\ alive = [r \in Run |-> {}]
    /\ loading = {} /\ late = {} /\ cli \in {"none", "before"}
    /\ asked = [w \in Caller |-> "no"] /\ calls = 0 /\ faults = 0
    /\ abandoned = [r \in Run |-> {}] /\ missed = [r \in Run |-> {}]

Up(parts) == alive' = [alive EXCEPT ![run] = @ \cup parts]
Down(parts) == alive' = [alive EXCEPT ![run] = @ \ parts]
Abandons(parts) == abandoned' = [abandoned EXCEPT ![run] = @ \cup parts]

\* Left over from an earlier run of this process.
Occupied(p) == \E r \in Run : r < run /\ p \in alive[r]

\* What goes wrong without a shutdown to blame is counted.
Fails(blameless) ==
    /\ blameless \/ faults < MaxFaults
    /\ faults' = IF blameless THEN faults ELSE faults + 1

(***************************************************************************)
(* Start.                                                                  *)
(***************************************************************************)

Start ==
    /\ lifecycle = "idle" /\ startup = "none" /\ run < MaxStarts
    /\ lifecycle' = "starting" /\ stopRequested' = FALSE /\ run' = run + 1
    /\ startup' = "claim" /\ startResult' = "pending"
    /\ UNCHANGED <<pass, early, dictationFailed, partVars, asked, calls, faults>>

\* Mutant: a rollback waits for the start to end, as stop does.
RollbackWaits == "starting"
\* A rollback is the end of the start it would wait for.
RollbackBegins == "ingress"

\* startComponents throws: stop() was waiting for that, or start rolls back.
Rejects(outcome) ==
    IF stopRequested
    THEN /\ startup' = "none" /\ startResult' = outcome /\ pass' = "ingress"
         /\ UNCHANGED <<lifecycle, stopRequested, early>>
    ELSE /\ startup' = "rollback" /\ stopRequested' = TRUE /\ lifecycle' = "stopping"
         /\ pass' = RollbackBegins /\ early' = held \cap Ingress
         /\ UNCHANGED startResult

\* assertStartupActive after an await, then on to the next one.
Continues(next) ==
    IF stopRequested THEN Rejects("cancelled")
    ELSE startup' = next
         /\ UNCHANGED <<lifecycle, stopRequested, startResult, pass, early>>

\* The control server listens before its descriptor is written.
ClaimReturns ==
    /\ startup = "claim" /\ ~Occupied("marker") /\ held' = held \cup {"marker"}
    /\ Up({"marker"} \cup IF stopRequested THEN {} ELSE {"control"})
    /\ Continues("control")
    /\ UNCHANGED <<loading, behindVars, faults>>

ControlReturns ==
    /\ startup = "control" /\ held' = held \cup {"control"}
    /\ missed' = [missed EXCEPT ![run] = @ \cup IF stopRequested THEN {"control"} ELSE {}]
    /\ Continues("llm")
    /\ UNCHANGED <<alive, loading, late, abandoned, faults>>

\* A marker that could not be removed names this process, which is running.
ClaimFails ==
    /\ startup \in {"claim", "control"} /\ Fails(startup = "claim" /\ Occupied("marker"))
    /\ Down({"control"}) /\ Rejects("failed")
    /\ UNCHANGED <<held, loading, behindVars>>

\* One provider after another, without a look at the shutdown in between.
Launched ==
    IF startup = "llm"
    THEN startup' = "stt" /\ UNCHANGED <<lifecycle, stopRequested, startResult, pass, early>>
    ELSE Continues("brain")

LaunchReturns ==
    /\ startup \in Provider /\ Up({startup}) /\ Launched
    /\ UNCHANGED <<held, loading, behindVars, faults>>

\* The language model may be missing, and a recognizer that is not configured.
\* Nobody has the handle of a process that the failed launch could not reap.
LaunchFails ==
    /\ startup \in Provider
    /\ \/ Fails(stopRequested) /\ UNCHANGED <<alive, abandoned>>
       \/ Fails(FALSE) /\ Up({startup}) /\ Abandons({startup})
    /\ Launched \/ (startup = "stt" /\ Rejects("failed"))
    /\ UNCHANGED <<held, loading, late, missed>>

\* Dictation comes up next, and a press may start it at once.
BrainReturns ==
    /\ startup = "brain" /\ Up({"brain"})
    /\ held' = held \cup {"brain"} \cup IF stopRequested THEN {} ELSE {"dictation"}
    /\ Continues("tls")
    /\ UNCHANGED <<loading, behindVars, faults>>

\* It does not start, or starts and is not ready; readiness heeds the shutdown.
BrainFails ==
    /\ startup = "brain" /\ Fails(stopRequested)
    /\ \E up \in SUBSET {"brain"} : Up(up)
    /\ held' = held \cup {"brain"}
    /\ \E outcome \in {"failed"} \cup IF stopRequested THEN {"cancelled"} ELSE {} :
         Rejects(outcome)
    /\ UNCHANGED <<loading, behindVars>>

\* The certificate is there: the web server starts, and the tone detector loads.
TlsReturns ==
    /\ startup = "tls" /\ Continues("local")
    /\ \/ stopRequested /\ UNCHANGED <<held, alive, loading>>
       \/ /\ ~stopRequested /\ ~Occupied("web")
          /\ held' = held \cup {"web", "tone"} /\ Up({"web"}) /\ loading' = loading \cup {run}
    /\ UNCHANGED <<behindVars, faults>>

\* No certificate; or no server, its port being taken, when the load has begun.
TlsFails ==
    /\ startup = "tls" /\ Rejects(IF stopRequested THEN "cancelled" ELSE "failed")
    /\ \/ Fails(stopRequested) /\ UNCHANGED <<held, loading>>
       \/ /\ ~stopRequested /\ Fails(Occupied("web"))
          /\ held' = held \cup {"tone"} /\ loading' = loading \cup {run}
    /\ UNCHANGED <<alive, behindVars>>

\* Turn detector, listeners, clap: the last awaits before "running".
LocalReturns ==
    /\ startup = "local"
    /\ IF stopRequested THEN Rejects("cancelled")
       ELSE /\ lifecycle' = "running" /\ startup' = "none" /\ startResult' = "ok"
            /\ UNCHANGED <<stopRequested, pass, early>>
    /\ UNCHANGED <<partVars, faults>>

LocalFails ==
    /\ startup = "local" /\ Fails(stopRequested) /\ Rejects("failed")
    /\ UNCHANGED partVars

StartupStep ==
    /\ \/ ClaimReturns \/ ControlReturns \/ ClaimFails \/ LaunchReturns \/ LaunchFails
       \/ BrainReturns \/ BrainFails \/ TlsReturns \/ TlsFails \/ LocalReturns \/ LocalFails
    /\ UNCHANGED <<dictationFailed, callVars>>

(***************************************************************************)
(* Stop.                                                                   *)
(***************************************************************************)

StopBegins == IF startup # "none" THEN "starting" ELSE "ingress"

\* stop() called by w: it joins the cleanup under way or begins one, which ends
\* admission at once and waits for a start to come to its end.
Stop(w) ==
    /\ asked' = [asked EXCEPT ![w] = IF lifecycle = "idle" THEN "ok" ELSE "pending"]
    /\ IF lifecycle = "idle" \/ pass # "none" THEN UNCHANGED startVars
       ELSE /\ stopRequested' = TRUE /\ lifecycle' = "stopping"
            /\ early' = held \cap Ingress /\ pass' = StopBegins
            /\ UNCHANGED <<startup, startResult>>
    /\ UNCHANGED <<dictationFailed, partVars, run, faults>>

\* The cleanup is over: whoever waits for it hears how, a rollback's start too.
Ends(outcome) ==
    /\ pass' = "none"
    /\ asked' = [w \in Caller |-> IF asked[w] = "pending" THEN outcome ELSE asked[w]]
    /\ IF startup = "rollback" THEN startup' = "none" /\ startResult' = "failed"
       ELSE UNCHANGED <<startup, startResult>>

\* A listener with a handler that is not over within the deadline stays, and the
\* shutdown goes on; a later one asks it again.
DrainIngress ==
    /\ pass = "ingress" /\ pass' = "dictation"
    /\ \E stuck \in SUBSET (early \cap alive[run]) :
         /\ IF stuck = {} THEN UNCHANGED faults ELSE Fails(FALSE)
         /\ Down(early \ stuck)
         /\ abandoned' = [abandoned EXCEPT ![run] = (@ \ early) \cup stuck]
    /\ UNCHANGED <<lifecycle, startup, startResult, asked, dictationFailed, held, late>>

\* A listener whose recorder would not go is kept for the retry.
StopDictation ==
    /\ pass = "dictation" /\ pass' = "tone"
    /\ \/ /\ Down({"dictation"}) /\ held' = held \ {"dictation"} /\ dictationFailed' = FALSE
          /\ UNCHANGED faults
       \/ /\ "dictation" \in alive[run] /\ Fails(FALSE) /\ dictationFailed' = TRUE
          /\ UNCHANGED <<alive, held>>
    /\ UNCHANGED <<lifecycle, startup, startResult, asked, late, abandoned>>

\* A detector that still loads is not waited for.  One that would not go has its
\* handle dropped: the next shutdown has nothing to stop.
StopTone ==
    /\ pass = "tone" /\ pass' = "turns"
    /\ IF "tone" \in held /\ run \in loading
       THEN late' = late \cup {run} /\ UNCHANGED <<alive, abandoned, faults>>
       ELSE /\ \/ Down({"tone"} \ abandoned[run]) /\ UNCHANGED <<abandoned, faults>>
               \/ /\ "tone" \in alive[run] \ abandoned[run] /\ Fails(FALSE)
                  /\ Abandons({"tone"}) /\ UNCHANGED alive
            /\ UNCHANGED late
    /\ UNCHANGED <<lifecycle, startup, startResult, asked, dictationFailed, held>>

\* Speakers, the brain, local turns.  If one is not over the providers stay.
StopTurns ==
    /\ pass = "turns"
    /\ \/ /\ Down({"brain"}) /\ pass' = "providers"
          /\ UNCHANGED <<startup, startResult, asked, faults>>
       \/ Fails(FALSE) /\ Ends("failed") /\ UNCHANGED alive
    /\ UNCHANGED <<lifecycle, dictationFailed, held, late, abandoned>>

\* Mutant: an unconfirmed release is logged like any other cleanup.
CompleteAnyway(confirmed) == ~dictationFailed
Complete(confirmed) == confirmed /\ ~dictationFailed

\* Every provider that has a handle is stopped; the marker goes only if every
\* release was confirmed, and may itself not go.
StopProviders ==
    /\ pass = "providers"
    /\ LET owned == (alive[run] \cap Provider) \ abandoned[run] IN
       \E stuck \in SUBSET owned, kept \in SUBSET (alive[run] \cap {"marker"}) :
         /\ IF stuck \cup kept = {} THEN UNCHANGED faults ELSE Fails(FALSE)
         /\ Abandons(stuck \ Keepers)
         /\ IF Complete(stuck = {})
            THEN /\ Ends("ok") /\ lifecycle' = "idle" /\ held' = {}
                 /\ Down((owned \cup {"marker"}) \ (stuck \cup kept))
            ELSE /\ kept = {} /\ Ends("failed") /\ Down(owned \ stuck)
                 /\ UNCHANGED <<lifecycle, held>>
    /\ UNCHANGED <<dictationFailed, late>>

CleanupStep ==
    /\ DrainIngress \/ StopDictation \/ StopTone \/ StopTurns \/ StopProviders
    /\ UNCHANGED <<stopRequested, early, loading, missed, run, cli, calls>>

(***************************************************************************)
(* The parts and the callers.                                              *)
(***************************************************************************)

Dictates ==
    /\ "dictation" \in held /\ ~stopRequested
    /\ \/ "dictation" \notin alive[run] /\ Up({"dictation"})
       \/ Down({"dictation"})
    /\ UNCHANGED <<startVars, dictationFailed, held, loading, behindVars, callVars, faults>>

\* The load of run r ends.  The callback of a cleanup that met it stops it,
\* unless this provider is in service: then the load may be a later run's.  Its
\* process may stay when a failed load or that callback cannot reap it.
ToneLoads(r) ==
    LET serves == r = run /\ "tone" \in held /\ lifecycle # "idle" IN
    /\ r \in loading /\ loading' = loading \ {r}
    /\ \/ UNCHANGED <<alive, abandoned, missed, faults>>
       \/ /\ alive' = [alive EXCEPT ![r] = @ \cup {"tone"}]
          /\ \/ /\ r \in late => serves
                /\ missed' = [missed EXCEPT ![r] = @ \cup IF r \in late THEN {"tone"} ELSE {}]
                /\ UNCHANGED <<abandoned, faults>>
             \/ /\ Fails(FALSE) /\ abandoned' = [abandoned EXCEPT ![r] = @ \cup {"tone"}]
                /\ UNCHANGED missed
    /\ UNCHANGED <<startVars, dictationFailed, held, late, callVars>>

\* A handler ends after all, or a process dies.
AbandonedGoes(r) ==
    /\ \E p \in abandoned[r] :
         /\ alive' = [alive EXCEPT ![r] = @ \ {p}]
         /\ abandoned' = [abandoned EXCEPT ![r] = @ \ {p}]
    /\ UNCHANGED <<startVars, dictationFailed, held, loading, late, missed, callVars, faults>>

HostStarts == cli = "none" /\ Start /\ UNCHANGED cli

HostStops ==
    /\ cli = "none" /\ calls < MaxCalls /\ calls' = calls + 1
    /\ Stop("host") /\ UNCHANGED cli

CommandStarts == cli = "before" /\ Start /\ cli' = "racing"

Signal ==
    /\ cli \in {"racing", "waiting"} /\ asked["signal"] = "no"
    /\ Stop("signal") /\ UNCHANGED <<cli, calls>>

\* runUntilShutdown follows whichever settles first, start or the signal's stop.
Cancelled == cli = "racing" /\ startResult \in {"ok", "cancelled"} /\ cli' = "waiting"
Stopped == cli \in {"racing", "waiting"} /\ asked["signal"] = "ok" /\ cli' = "exit 0"
Reported == cli = "retrying" /\ asked["again"] \in {"ok", "failed"} /\ cli' = "exit 1"

\* Mutant: an error ends the command at once.
GivesUp == cli' = "exit 1" /\ UNCHANGED <<startVars, dictationFailed, partVars, run, asked, faults>>
\* On an error the command stops the daemon once more before it reports it.
StopsAgain == cli' = "retrying" /\ Stop("again")

CommandContinues ==
    /\ \/ /\ Cancelled \/ Stopped \/ Reported
          /\ UNCHANGED <<startVars, dictationFailed, partVars, run, asked, faults>>
       \/ /\ \/ cli = "racing" /\ startResult = "failed"
             \/ cli \in {"racing", "waiting"} /\ asked["signal"] = "failed"
          /\ StopsAgain
    /\ UNCHANGED calls

Next ==
    \/ StartupStep \/ CleanupStep \/ Dictates
    \/ \E r \in Run : ToneLoads(r) \/ AbandonedGoes(r)
    \/ HostStarts \/ HostStops \/ CommandStarts \/ Signal \/ CommandContinues

\* Every await of a start and of a cleanup ends, by its own deadline if need be.
Fairness == WF_vars(StartupStep) /\ WF_vars(CleanupStep) /\ WF_vars(CommandContinues)

Spec == Init /\ [][Next]_vars /\ Fairness

(***************************************************************************)
(* Properties.                                                             *)
(***************************************************************************)

TypeOK ==
    /\ lifecycle \in {"idle", "starting", "running", "stopping"}
    /\ stopRequested \in BOOLEAN /\ dictationFailed \in BOOLEAN
    /\ run \in 0..MaxStarts /\ calls \in 0..MaxCalls /\ faults \in 0..MaxFaults
    /\ startup \in {"none", "claim", "control", "llm", "stt", "brain", "tls", "local",
                    "rollback"}
    /\ startResult \in {"none", "pending", "ok", "cancelled", "failed"}
    /\ pass \in {"none", "starting", "ingress", "dictation", "tone", "turns", "providers"}
    /\ early \subseteq Ingress /\ held \subseteq Part
    /\ alive \in [Run -> SUBSET Part] /\ missed \in [Run -> SUBSET {"control", "tone"}]
    /\ abandoned \in [Run -> SUBSET ({"tone"} \cup Ingress \cup Provider)]
    /\ loading \subseteq Run /\ late \subseteq Run
    /\ cli \in {"none", "before", "racing", "waiting", "retrying", "exit 0", "exit 1"}
    /\ asked \in [Caller -> {"no", "pending", "ok", "failed"}]

\* The marker is the fence: no other daemon can claim it while a part of a run
\* lives that somebody still owns: the brain, dictation, a provider with its
\* handle, and each part whose cleanup met it and did not fail.  Not so with what
\* came up behind its cleanup, the control server or the tone detector, though
\* "cleanup still owns everything it created" (daemon.ts:3792); nor with what a
\* shutdown gave up: a listener that did not drain, though "each ingress releases
\* its own socket on timeout" (3834), a detector, and a provider without a handle,
\* for which the retry of a stop() that failed vouches.  See the README.
NothingOutlivesMarker ==
    \A r \in Run : "marker" \notin alive[r] => alive[r] \subseteq missed[r] \cup abandoned[r]

\* The command does not end underneath a start or a cleanup, and reports success
\* only when a cleanup was completed.
ExitWaits ==
    /\ cli \in {"exit 0", "exit 1"} => pass = "none" /\ startup = "none"
    /\ cli = "exit 0" => lifecycle = "idle"

\* What reports the end of a daemon, its marker and its command, tells the truth.
EndsAreReal == NothingOutlivesMarker /\ ExitWaits

\* A signal ends the command, whatever the daemon was doing: start, rollback and
\* stop never wait for each other.
SignalEnds == []<>(asked["signal"] # "no" => cli \in {"exit 0", "exit 1"})
=============================================================================
