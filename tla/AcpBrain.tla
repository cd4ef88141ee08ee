------------------------------ MODULE AcpBrain ------------------------------
(***************************************************************************)
(* One agent over the Agent Client Protocol, src/brain/acp.ts: the         *)
(* process and session it owns, the lock that serialises turns on that     *)
(* session, the pointer that lets a later start resume it, and the spoken  *)
(* confirmation of guarded tools.                                          *)
(*                                                                         *)
(* start(), stop(), restart(), discardSession() and the restart after a    *)
(* turn that ignores its cancellation run side by side.  An action is one  *)
(* stretch between two awaits; Quiet says that whoever a settled promise   *)
(* resumes goes on before the next event.                                  *)
(***************************************************************************)
EXTENDS Naturals, Sequences, FiniteSets, FiniteSetsExt

CONSTANTS
    Turn,           \* turns of sendStream()
    Operation,      \* guarded operations, by their key
    None,
    MaxPending,     \* maxPendingTurns
    MaxRuntimes,    \* bound: processes spawned
    Budgets         \* bounds: calls, turns, compactions among them, gates and faults

\* A process is known by its number, from 1; 0 and None stand for no turn.
AcpAssumption == MaxRuntimes \in Nat /\ 0 \notin Turn /\ None \notin Turn

VARIABLES
    runtimes,       \* every AcpRuntime, by its generation
    runtime,        \* this.runtime, 0 for null
    desiredRunning, lifecycleEpoch,
    startOperation, \* the runtime it starts, 0 for null
    stopOperation,  \* the runtime it disposes of, 0 for null
    calls,          \* the lifecycle calls, those of a cancellation under its turn
    stopped,        \* history: a stop is over, and nothing was asked for since
    budget,
    \* The stored session.
    file,           \* the session the file names, 0 for none
    writes,         \* sessionPointerWrite: writes under way, oldest first
    skipStored,     \* skipStoredSession
    pointerEpoch,
    \* Turns.
    turnAt,         \* where each sendStream() is
    raw,            \* the turns that are idle compactions
    reserved,       \* the runtime each turn was admitted on
    prior,          \* the turns whose release it waits for
    released,       \* turns whose gate is open
    prompt,         \* the prompt of each turn
    cancellation,   \* of each turn
    callerAborted,  \* turns whose caller has aborted them
    retried,        \* turns that were prompted twice
    \* Confirmations; a gate is known by its nonce.
    pendingGate, grantedGate,
    gates,          \* history: what each gate was armed for
    approved,       \* history: the gates a person approved
    allowed,        \* history: the guarded calls that were allowed
    forgotten       \* history: sessions that were discarded or restarted away

lifecycleVars == <<desiredRunning, lifecycleEpoch, stopped>>
operationVars == <<runtimes, runtime, startOperation, stopOperation>>
pointerVars == <<file, writes, skipStored, pointerEpoch>>
turnVars == <<turnAt, raw, reserved, prior, prompt, callerAborted, retried>>
lockVars == <<released, cancellation>>
consentVars == <<pendingGate, grantedGate>>
gateVars == <<gates, approved, allowed>>
vars == <<lifecycleVars, operationVars, pointerVars, turnVars, lockVars, consentVars,
          gateVars, calls, budget, forgotten>>

\* Something fails that the code does not decide.
Fault == budget.faults > 0 /\ budget' = [budget EXCEPT !.faults = @ - 1]

Generation == 1 .. MaxRuntimes
Call == 1 .. Max({b.calls : b \in Budgets})
NoRuntime == [start |-> "none", epoch |-> 0, pointer |-> 0, session |-> 0,
              dispose |-> "no", active |-> None]
NoCall == [kind |-> "none", at |-> "none", epoch |-> 0, stops |-> 0, starts |-> 0,
           failed |-> FALSE]

Init ==
    /\ runtimes = [g \in Generation |-> NoRuntime] /\ runtime = 0
    /\ desiredRunning = FALSE /\ lifecycleEpoch = 0
    /\ startOperation = 0 /\ stopOperation = 0
    /\ calls = [c \in Call \cup Turn |-> NoCall] /\ stopped = FALSE
    /\ budget \in Budgets
    /\ file = 0 /\ writes = <<>> /\ skipStored = FALSE /\ pointerEpoch = 0
    /\ turnAt = [t \in Turn |-> "new"] /\ raw = {} /\ reserved = [t \in Turn |-> 0]
    /\ prior = [t \in Turn |-> {}] /\ released = {} /\ prompt = [t \in Turn |-> "none"]
    /\ cancellation = [t \in Turn |-> "none"] /\ callerAborted = {} /\ retried = {}
    /\ pendingGate = 0 /\ grantedGate = 0
    /\ gates = <<>> /\ approved = {} /\ allowed = <<>> /\ forgotten = {}

ShouldRun(e) == desiredRunning /\ lifecycleEpoch = e
Disposed(g) == runtimes[g].dispose \in {"over", "failed"}
Started(g) == runtimes[g].start \in {"ok", "failed"}
Spawned == {g \in Generation : runtimes[g].start # "none"}

\* pendingReservations: a reservation is over once its turn and all before it are.
Reserved == {t \in Turn : reserved[t] # 0}
Waiting == {t \in Reserved : ~(prior[t] \cup {t} \subseteq released)}

(***************************************************************************)
(* Ending a runtime                                                        *)
(***************************************************************************)

\* active.cancel(): a prompt that is still open is waited for.
Cancels(t) ==
    cancellation' = IF t # None /\ prompt[t] = "open" /\ cancellation[t] = "none"
                    THEN [cancellation EXCEPT ![t] = "waiting"] ELSE cancellation

InvalidateTurnReservations == released' = Reserved
ClearConfirmationState == pendingGate' = 0 /\ grantedGate' = 0

\* disposeRuntime() up to its first await, on the runtimes as the caller leaves them.
Dispose(rs, g) ==
    LET first == rs[g].dispose = "no"
    IN  /\ runtimes' = IF first
                       THEN [rs EXCEPT ![g].dispose = "killing", ![g].session = 0,
                                       ![g].active = None]
                       ELSE rs
        /\ IF first /\ runtime = g
           THEN runtime' = 0 /\ InvalidateTurnReservations /\ ClearConfirmationState
           ELSE UNCHANGED <<runtime, released, consentVars>>
        /\ IF first THEN Cancels(rs[g].active) ELSE UNCHANGED cancellation

\* The process tree is reaped, or the reap fails.
DisposeEnds(g) ==
    /\ runtimes[g].dispose = "killing"
    /\ \/ runtimes' = [runtimes EXCEPT ![g].dispose = "over"] /\ UNCHANGED budget
       \/ runtimes' = [runtimes EXCEPT ![g].dispose = "failed"] /\ Fault
    /\ stopOperation' = IF stopOperation = g THEN 0 ELSE stopOperation
    /\ UNCHANGED <<lifecycleVars, runtime, startOperation, pointerVars, turnVars,
                   lockVars, consentVars, gateVars, calls, forgotten>>

\* handleUnexpectedRuntimeExit(): the agent exits or breaks the protocol.
RuntimeExits(g) ==
    /\ g \in Spawned /\ runtimes[g].dispose = "no" /\ Fault
    /\ Dispose(runtimes, g)
    /\ stopOperation' = IF stopOperation = 0 THEN g ELSE stopOperation
    /\ UNCHANGED <<lifecycleVars, startOperation, pointerVars, turnVars, gateVars, calls,
                   forgotten>>

\* stopCurrentRuntime() up to its first await, for the call c.
StopCurrentRuntime(c, call) ==
    LET waits == [call EXCEPT !.at = "stop", !.starts = startOperation]
    IN  /\ calls' = [calls EXCEPT ![c] =
                       [waits EXCEPT !.stops = IF stopOperation # 0 THEN stopOperation
                                               ELSE runtime]]
        /\ UNCHANGED startOperation
        /\ IF stopOperation = 0 /\ runtime # 0
           THEN Dispose(runtimes, runtime) /\ stopOperation' = runtime
           ELSE /\ IF stopOperation = 0 THEN InvalidateTurnReservations
                   ELSE UNCHANGED released
                /\ UNCHANGED <<runtimes, runtime, stopOperation, cancellation, consentVars>>

(***************************************************************************)
(* The lifecycle calls                                                     *)
(***************************************************************************)

SetDesiredRunning(desired, force) ==
    LET new == force \/ desiredRunning # desired
    IN  /\ desiredRunning' = desired
        /\ lifecycleEpoch' = IF new THEN lifecycleEpoch + 1 ELSE lifecycleEpoch
        /\ stopped' = (stopped /\ ~new)

Asks(kind) == [NoCall EXCEPT !.kind = kind, !.epoch = lifecycleEpoch']
NextCall == Min({c \in Call : calls[c] = NoCall})
Calls ==
    /\ budget.calls > 0 /\ budget' = [budget EXCEPT !.calls = @ - 1]
    /\ UNCHANGED <<file, writes, turnVars, gateVars>>
ForgetSession ==
    /\ skipStored' = TRUE /\ pointerEpoch' = pointerEpoch + 1
    /\ forgotten' = Spawned

Start ==
    /\ Calls /\ SetDesiredRunning(TRUE, FALSE)
    /\ calls' = [calls EXCEPT ![NextCall] = [Asks("start") EXCEPT !.at = "ensure"]]
    /\ UNCHANGED <<operationVars, skipStored, pointerEpoch, forgotten, lockVars,
                   consentVars>>

Stop ==
    /\ Calls /\ SetDesiredRunning(FALSE, FALSE)
    /\ StopCurrentRuntime(NextCall, Asks("stop"))
    /\ UNCHANGED <<skipStored, pointerEpoch, forgotten>>

Restart ==
    /\ Calls /\ SetDesiredRunning(TRUE, TRUE) /\ ForgetSession
    /\ StopCurrentRuntime(NextCall, Asks("restart"))

DiscardSession ==
    /\ Calls /\ SetDesiredRunning(FALSE, FALSE) /\ ForgetSession
    /\ StopCurrentRuntime(NextCall, Asks("discard"))

\* What the call waits for has settled.
Resumes(c) ==
    LET call == calls[c]
    IN  \/ call.at = "stop" /\ (call.stops # 0 => Disposed(call.stops))
                            /\ (call.starts # 0 => Started(call.starts))
        \/ call.at = "pointer" /\ \A i \in DOMAIN writes : c \notin writes[i].waiters
        \/ call.at = "ensure"
        \/ call.at = "ensureStart" /\ Started(call.starts)
        \/ call.at = "ensureStop" /\ Disposed(call.stops)

Goes(c, call, at) ==
    /\ calls' = [calls EXCEPT ![c] = IF at = "over" THEN NoCall ELSE [call EXCEPT !.at = at]]
    /\ stopped' = (stopped \/ /\ at = "over" /\ call.kind \in {"stop", "discard"}
                              /\ call.epoch = lifecycleEpoch)
resumeRest == <<desiredRunning, lifecycleEpoch, turnVars, lockVars, gateVars, budget, forgotten>>

\* stopCurrentRuntime() is over; a restart goes on to clear the pointer even if it failed.
Stopped(c) ==
    LET call == calls[c]
        fails == call.stops # 0 /\ runtimes[call.stops].dispose = "failed"
    IN  /\ call.at = "stop" /\ Resumes(c)
        /\ Goes(c, [call EXCEPT !.failed = fails, !.stops = 0, !.starts = 0],
                CASE call.kind = "restart" -> "pointer"
                  [] call.kind = "discard" /\ ~fails -> "pointer"
                  [] call.kind = "recover" /\ ~fails -> "ensure"
                  [] OTHER -> "over")
        /\ writes' = [i \in DOMAIN writes |-> [writes[i] EXCEPT !.waiters = @ \cup {c}]]
        /\ UNCHANGED <<resumeRest, operationVars, file, skipStored, pointerEpoch, consentVars>>

PointerSettled(c) ==
    /\ calls[c].at = "pointer" /\ Resumes(c) /\ Goes(c, calls[c], "clear")
    /\ UNCHANGED <<resumeRest, operationVars, pointerVars, consentVars>>

\* clearAcpSession().
PointerCleared(c) ==
    /\ calls[c].at = "clear" /\ file' = 0
    /\ Goes(c, calls[c], IF calls[c].kind = "restart" /\ ~calls[c].failed THEN "ensure" ELSE "over")
    /\ UNCHANGED <<resumeRest, operationVars, writes, skipStored, pointerEpoch,
                   consentVars>>

\* Another call's operation has settled: it is looked at afresh.
EnsureAgain(c) ==
    /\ calls[c].at \in {"ensureStart", "ensureStop"} /\ Resumes(c)
    /\ LET call == calls[c]
           throws == IF call.at = "ensureStop" THEN runtimes[call.stops].dispose = "failed"
                     ELSE /\ runtimes[call.starts].start = "failed"
                          /\ runtimes[call.starts].epoch = call.epoch
       IN  Goes(c, [call EXCEPT !.stops = 0, !.starts = 0], IF throws THEN "over" ELSE "ensure")
    /\ UNCHANGED <<resumeRest, operationVars, pointerVars, consentVars>>

\* ensureStarted(): nothing to do, or somebody else's operation to wait for.
EnsureWaits(c) ==
    /\ calls[c].at = "ensure"
    /\ LET call == calls[c]
           idle == ~ShouldRun(call.epoch) \/ (runtime # 0 /\ runtimes[runtime].session # 0)
       IN  \/ idle /\ Goes(c, call, "over")
           \/ ~idle /\ startOperation # 0
              /\ Goes(c, [call EXCEPT !.starts = startOperation], "ensureStart")
           \/ ~idle /\ startOperation = 0 /\ stopOperation # 0
              /\ Goes(c, [call EXCEPT !.stops = stopOperation], "ensureStop")
    /\ UNCHANGED <<resumeRest, operationVars, pointerVars, consentVars>>

\* startOwnedRuntime() up to its first await.
StartOwnedRuntime(c) ==
    LET g == Cardinality(Spawned) + 1
    IN  /\ g \in Generation
        /\ runtimes' = [runtimes EXCEPT ![g] =
                          [NoRuntime EXCEPT !.start = "open", !.epoch = calls[c].epoch]]
        /\ runtime' = g /\ startOperation' = g /\ ClearConfirmationState
        /\ Goes(c, [calls[c] EXCEPT !.starts = g], "ensureStart")
        /\ UNCHANGED <<resumeRest, pointerVars, stopOperation>>

\* Mutant: a stop that still reaps the last agent is not waited for.
EnsureStartsOverStop(c) ==
    /\ calls[c].at = "ensure" /\ ShouldRun(calls[c].epoch)
    /\ runtime # 0 => runtimes[runtime].session = 0
    /\ startOperation = 0
    /\ StartOwnedRuntime(c)

\* ensureStarted() starts a runtime.
EnsureStarts(c) ==
    /\ calls[c].at = "ensure" /\ ShouldRun(calls[c].epoch)
    /\ runtime # 0 => runtimes[runtime].session = 0
    /\ startOperation = 0 /\ stopOperation = 0
    /\ StartOwnedRuntime(c)

(***************************************************************************)
(* startOwnedRuntime()                                                     *)
(***************************************************************************)

startRest == <<lifecycleVars, stopOperation, turnVars, gateVars, calls, forgotten>>

\* The handshake fails, or times out, or its agent is stopped.
StartFails(g) ==
    /\ runtimes[g].start = "open"
    /\ IF Disposed(g) THEN UNCHANGED budget ELSE Fault
    /\ Dispose([runtimes EXCEPT ![g].start = "failing"], g)
    /\ UNCHANGED <<startRest, startOperation, pointerVars>>

\* saveSessionPointer(), for a start or for a turn that has ended.
Saves(session, waiters) ==
    /\ writes' = Append(writes, [session |-> session, epoch |-> pointerEpoch, begun |-> FALSE,
                                 waiters |-> waiters])
    /\ UNCHANGED <<file, skipStored, pointerEpoch>>
Saved(g) ==
    runtimes[g].start = "save" /\ \A i \in DOMAIN writes : 0 \notin writes[i].waiters

\* initialize() and openAcpSession(): the stored session is loaded, or a new one
\* made.  A start that was superseded meanwhile is undone.
SessionOpens(g) ==
    /\ runtimes[g].start = "open"
    /\ \E restored \in {file # 0 /\ ~skipStored, FALSE} :
       LET session == IF restored THEN file ELSE g
           opened == [runtimes EXCEPT ![g].session = session]
           superseded == runtime # g \/ runtimes[g].dispose # "no" \/ ~ShouldRun(runtimes[g].epoch)
       IN  IF superseded
           THEN /\ Dispose([opened EXCEPT ![g].start = "failing"], g)
                /\ UNCHANGED <<startOperation, pointerVars>>
           ELSE /\ UNCHANGED <<runtime, lockVars, consentVars>>
                /\ IF restored
                   THEN /\ runtimes' = [opened EXCEPT ![g].start = "ok", ![g].epoch = 0]
                        /\ startOperation' = 0 /\ UNCHANGED pointerVars
                   ELSE /\ runtimes' = [opened EXCEPT ![g].start = "save",
                                          ![g].pointer = pointerEpoch]
                        /\ Saves(session, {0}) /\ UNCHANGED startOperation
    /\ UNCHANGED <<startRest, budget>>

\* Mutant: a session that was discarded while it was saved counts as stored.
PointerSavedForGood(g) ==
    /\ Saved(g)
    /\ runtimes' = [runtimes EXCEPT ![g].start = "ok", ![g].epoch = 0, ![g].pointer = 0]
    /\ startOperation' = 0
    /\ skipStored' = FALSE
    /\ UNCHANGED <<startRest, budget, runtime, file, writes, pointerEpoch, lockVars,
                   consentVars>>

\* The pointer to a new session is saved.
PointerSaved(g) ==
    /\ Saved(g)
    /\ runtimes' = [runtimes EXCEPT ![g].start = "ok", ![g].epoch = 0, ![g].pointer = 0]
    /\ startOperation' = 0
    /\ skipStored' = (skipStored /\ ~(/\ runtimes[g].pointer = pointerEpoch /\ runtime = g
                                      /\ runtimes[g].dispose = "no" /\ ShouldRun(runtimes[g].epoch)))
    /\ UNCHANGED <<startRest, budget, runtime, file, writes, pointerEpoch, lockVars,
                   consentVars>>

\* It could not be saved: the start fails.
PointerNotSaved(g) ==
    /\ runtimes[g].start = "unsaved"
    /\ Dispose([runtimes EXCEPT ![g].start = "failing"], g)
    /\ UNCHANGED <<startRest, budget, startOperation, pointerVars>>

\* The runtime of a failed start is gone.
StartFailed(g) ==
    /\ runtimes[g].start = "failing" /\ Disposed(g)
    /\ runtimes' = [runtimes EXCEPT ![g].start = "failed"] /\ startOperation' = 0
    /\ UNCHANGED <<startRest, budget, runtime, pointerVars, lockVars, consentVars>>

\* A write starts unless the session was forgotten since it was asked for.
WriteBegins ==
    /\ writes # <<>> /\ ~writes[1].begun
    /\ IF writes[1].epoch = pointerEpoch
       THEN writes' = [writes EXCEPT ![1].begun = TRUE]
       ELSE writes' = Tail(writes)
    /\ UNCHANGED <<lifecycleVars, operationVars, file, skipStored, pointerEpoch, turnVars,
                   lockVars, consentVars, gateVars, calls, budget, forgotten>>

WriteEnds ==
    /\ writes # <<>> /\ writes[1].begun
    /\ file' = writes[1].session /\ writes' = Tail(writes)
    /\ UNCHANGED <<lifecycleVars, operationVars, skipStored, pointerEpoch, turnVars,
                   lockVars, consentVars, gateVars, calls, budget, forgotten>>

WriteFails ==
    /\ writes # <<>> /\ writes[1].begun /\ Fault /\ writes' = Tail(writes)
    /\ runtimes' = IF 0 \in writes[1].waiters
                   THEN [runtimes EXCEPT ![startOperation].start = "unsaved"] ELSE runtimes
    /\ UNCHANGED <<lifecycleVars, runtime, startOperation, stopOperation, file,
                   skipStored, pointerEpoch, turnVars, lockVars, consentVars, gateVars,
                   calls, forgotten>>

(***************************************************************************)
(* Turns                                                                   *)
(***************************************************************************)

notTurns == <<lifecycleVars, startOperation, stopOperation, forgotten>>
turnRest == <<notTurns, raw, budget>>
Turns(t, where) == turnAt' = [turnAt EXCEPT ![t] = where]
Release(t) == released' = released \cup {t}

\* turnStream() up to its first await.  A compaction takes no slot and starts
\* only when nothing else is there.
Reserve(t, compacts) ==
    /\ turnAt[t] = "new" /\ Cardinality(Reserved) < budget.turns
    /\ runtime # 0 /\ runtimes[runtime].session # 0
    /\ IF compacts
       THEN /\ Waiting = {} /\ runtimes[runtime].active = None
            /\ budget.compactions > 0 /\ budget' = [budget EXCEPT !.compactions = @ - 1]
            /\ raw' = raw \cup {t}
       ELSE Cardinality(Waiting \ raw) < MaxPending /\ UNCHANGED <<raw, budget>>
    /\ Turns(t, "waiting")
    /\ reserved' = [reserved EXCEPT ![t] = runtime]
    /\ prior' = [prior EXCEPT ![t] = Reserved \ released]
    /\ UNCHANGED <<notTurns, runtimes, runtime, pointerVars, prompt, callerAborted,
                   retried, lockVars, consentVars, gateVars, calls>>

\* It waited, and was aborted or lost its session meanwhile.
Gives(t) ==
    /\ turnAt[t] = "waiting"
    /\ t \notin callerAborted => prior[t] \subseteq released /\ runtime # reserved[t]
    /\ Turns(t, "over") /\ Release(t)
    /\ UNCHANGED <<turnRest, runtimes, runtime, pointerVars, reserved, prior, prompt,
                   callerAborted, retried, cancellation, consentVars, gateVars, calls>>

\* resolvePendingConfirmation(), for the gate whose nonce is echoed.
Resolve(nonce, yes) ==
    /\ pendingGate' = 0
    /\ grantedGate' = IF yes THEN pendingGate ELSE 0
    /\ approved' = IF yes THEN approved \cup {nonce} ELSE approved
    /\ UNCHANGED <<gates, allowed>>

Prompts(t) ==
    /\ runtimes' = [runtimes EXCEPT ![reserved[t]].active = t]
    /\ prompt' = [prompt EXCEPT ![t] = "open"]

\* It is its turn: what was said may answer the gate that is pending.
Acquire(t) ==
    /\ turnAt[t] = "waiting" /\ prior[t] \subseteq released
    /\ t \notin callerAborted /\ runtime = reserved[t]
    /\ \/ UNCHANGED <<consentVars, gateVars>>
       \/ t \notin raw /\ pendingGate # 0 /\ \E yes \in BOOLEAN : Resolve(pendingGate, yes)
    /\ Prompts(t) /\ Turns(t, "streaming")
    /\ UNCHANGED <<turnRest, runtime, pointerVars, reserved, prior, callerAborted,
                   retried, lockVars, calls>>

\* The agent answers the prompt.
PromptSettles(t) ==
    /\ prompt[t] = "open" /\ ~Disposed(reserved[t])
    /\ \E how \in {"ended", "cancelled", "failed"} :
          /\ prompt' = [prompt EXCEPT ![t] = how]
          /\ IF how = "ended" \/ (how = "cancelled" /\ cancellation[t] # "none")
             THEN UNCHANGED budget ELSE Fault
          /\ IF how = "ended" /\ cancellation[t] = "none" /\ runtime = reserved[t]
             THEN Saves(runtimes[runtime].session, {}) ELSE UNCHANGED pointerVars
    /\ UNCHANGED <<notTurns, raw, runtimes, runtime, turnAt, reserved, prior,
                   callerAborted, retried, lockVars, consentVars, gateVars, calls>>

\* Its caller aborts the turn.
CallerAborts(t) ==
    /\ turnAt[t] \in {"waiting", "streaming"} /\ t \notin callerAborted
    /\ callerAborted' = callerAborted \cup {t} /\ Cancels(t)
    /\ UNCHANGED <<turnRest, runtimes, runtime, pointerVars, turnAt, reserved, prior,
                   prompt, retried, released, consentVars, gateVars, calls>>

\* The lock is free for the next turn once this one's cancellation is over.
Leaves(t, cancels) ==
    IF cancels[t] = "waiting"
    THEN Turns(t, "releasing") /\ UNCHANGED released
    ELSE Turns(t, "over") /\ Release(t)

\* The stream ends: all is read, or it was cancelled, or its consumer returns.
StreamEnds(t) ==
    /\ turnAt[t] = "streaming" /\ Cancels(t)
    /\ runtimes' = [runtimes EXCEPT ![reserved[t]].active = IF @ = t THEN None ELSE @]
    /\ Leaves(t, cancellation')
    /\ UNCHANGED <<turnRest, runtime, pointerVars, reserved, prior, prompt, callerAborted,
                   retried, consentVars, gateVars, calls>>

\* A stale cancel ended a turn nobody cancelled: it is prompted once more.
Retry(t) ==
    /\ turnAt[t] = "streaming" /\ prompt[t] = "cancelled" /\ cancellation[t] = "none"
    /\ t \notin callerAborted \cup retried /\ runtime = reserved[t]
    /\ retried' = retried \cup {t} /\ Prompts(t)
    /\ UNCHANGED <<turnRest, runtime, pointerVars, turnAt, reserved, prior, callerAborted,
                   lockVars, consentVars, gateVars, calls>>

\* The lock goes with the cancellation if the stream has ended.
CancellationOver(t) ==
    /\ cancellation' = [cancellation EXCEPT ![t] = "over"]
    /\ IF turnAt[t] = "releasing" THEN Turns(t, "over") /\ Release(t)
       ELSE UNCHANGED <<turnAt, released>>

\* The prompt has settled, or its agent is gone: restarted, if it had to be.
CancellationSettles(t) ==
    /\ cancellation[t] = "waiting" /\ calls[t] = NoCall
    /\ prompt[t] # "open" \/ Disposed(reserved[t])
    /\ CancellationOver(t)
    /\ UNCHANGED <<turnRest, runtimes, runtime, pointerVars, reserved, prior, prompt,
                   callerAborted, retried, consentVars, gateVars, calls>>

\* The agent ignores the cancellation: its session is restarted, unless it is
\* on its way out already.
CancellationTimesOut(t) ==
    /\ cancellation[t] = "waiting" /\ calls[t] = NoCall
    /\ prompt[t] = "open" /\ ~Disposed(reserved[t])
    /\ \/ /\ runtime = reserved[t] /\ desiredRunning
          /\ StopCurrentRuntime(t, [NoCall EXCEPT !.kind = "recover", !.epoch = lifecycleEpoch])
          /\ UNCHANGED turnAt
       \/ /\ ~(runtime = reserved[t] /\ desiredRunning)
          /\ CancellationOver(t) /\ UNCHANGED <<operationVars, consentVars, calls>>
    /\ UNCHANGED <<lifecycleVars, budget, forgotten, pointerVars, raw, reserved, prior,
                   prompt, callerAborted, retried, gateVars>>

(***************************************************************************)
(* Confirmations                                                           *)
(***************************************************************************)

consentRest == <<lifecycleVars, operationVars, pointerVars, turnVars, lockVars, calls, budget,
                 forgotten>>

\* requestPermission() and confirmGate(), for the turn that runs: the one
\* operation that was approved is allowed once, any other is denied and asked
\* about.
RequestPermission(t, operation) ==
    /\ runtime # 0 /\ runtimes[runtime].active = t /\ prompt[t] = "open"
    /\ cancellation[t] = "none"
    /\ grantedGate' = 0
    /\ IF grantedGate # 0 /\ gates[grantedGate].operation = operation
       THEN /\ allowed' = Append(allowed, [gate |-> grantedGate, operation |-> operation,
                                          runtime |-> runtime])
            /\ UNCHANGED <<pendingGate, gates>>
       ELSE /\ Len(gates) < budget.gates
            /\ gates' = Append(gates, [operation |-> operation, runtime |-> runtime])
            /\ pendingGate' = Len(gates) + 1 /\ UNCHANGED allowed
    /\ UNCHANGED <<consentRest, approved>>

\* Mutant: any answer resolves the gate that is pending.
ConfirmAnyNonce(nonce, yes) ==
    /\ pendingGate # 0 /\ nonce # 0 /\ Resolve(nonce, yes)
    /\ UNCHANGED consentRest

\* Another surface answers the gate it names; an old nonce changes nothing.
Confirm(nonce, yes) ==
    /\ pendingGate = nonce /\ nonce # 0 /\ Resolve(nonce, yes)
    /\ UNCHANGED consentRest

\* CONFIRM_PENDING_MS or CONFIRM_GRANT_MS has passed.
ConsentExpires ==
    /\ \/ pendingGate # 0 /\ pendingGate' = 0 /\ UNCHANGED grantedGate
       \/ grantedGate # 0 /\ grantedGate' = 0 /\ UNCHANGED pendingGate
    /\ UNCHANGED <<consentRest, gateVars>>

Quiet == \A c \in Call \cup Turn : ~Resumes(c)

Continues(c) ==
    Stopped(c) \/ PointerSettled(c) \/ EnsureAgain(c) \/ EnsureWaits(c) \/ EnsureStarts(c)

Next ==
    \/ \E c \in Call \cup Turn : Continues(c)
    \/ Quiet /\ (Start \/ Stop \/ Restart \/ DiscardSession)
    \/ Quiet /\ (WriteBegins \/ WriteEnds \/ WriteFails \/ ConsentExpires)
    \/ Quiet /\ \E c \in Call \cup Turn : PointerCleared(c)
    \/ Quiet /\ \E g \in Generation :
          \/ DisposeEnds(g) \/ RuntimeExits(g) \/ StartFails(g)
          \/ SessionOpens(g) \/ PointerSaved(g) \/ PointerNotSaved(g) \/ StartFailed(g)
    \/ Quiet /\ \E t \in Turn :
          \/ \E compacts \in BOOLEAN : Reserve(t, compacts)
          \/ Gives(t) \/ Acquire(t) \/ PromptSettles(t) \/ CallerAborts(t)
          \/ StreamEnds(t) \/ Retry(t) \/ CancellationSettles(t) \/ CancellationTimesOut(t)
          \/ \E operation \in Operation : RequestPermission(t, operation)
    \/ Quiet /\ \E nonce \in DOMAIN gates, yes \in BOOLEAN : Confirm(nonce, yes)

Spec == Init /\ [][Next]_vars

\* The brain never has two agents at a time, and once a stop is over that
\* nothing has followed, it has none.  A process that could not be reaped is
\* reported and given up.
OneAgent ==
    /\ Cardinality({g \in Spawned : ~Disposed(g)}) <= 1
    /\ stopped => \A g \in Spawned : Disposed(g)

\* The agent never has two prompts of a session open: a turn that was
\* cancelled gives up the lock only when its prompt has settled or the session
\* is gone.
OnePrompt ==
    \A t, u \in Turn :
        prompt[t] = "open" /\ prompt[u] = "open" /\ reserved[t] = reserved[u] => t = u

\* Whatever starts, stops, cancels and restarts it, one agent answers one prompt.
SessionIsSerial == OneAgent /\ OnePrompt

\* A session that was discarded or restarted away is never resumed, whatever
\* writes of its pointer were under way.
ForgottenStays ==
    runtime # 0 /\ runtimes[runtime].start \in {"save", "ok"}
        => runtimes[runtime].session \notin forgotten

\* Both: one agent, one prompt, and the session the person believes it has.
SessionIsSound == SessionIsSerial /\ ForgottenStays

\* A guarded call is allowed once for each approval, and only if it is the call
\* the person was asked about, in the session that asked.
ConsentIsExact ==
    /\ \A i \in DOMAIN allowed :
          /\ allowed[i].gate \in approved
          /\ gates[allowed[i].gate].operation = allowed[i].operation
          /\ gates[allowed[i].gate].runtime = allowed[i].runtime
    /\ \A i, j \in DOMAIN allowed : allowed[i].gate = allowed[j].gate => i = j
=============================================================================
