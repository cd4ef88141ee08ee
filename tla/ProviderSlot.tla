---------------------------- MODULE ProviderSlot ----------------------------
(***************************************************************************)
(* The slot that owns the live speech provider and swaps it while turns    *)
(* run, src/backends/hot-swap.ts.                                          *)
(*                                                                         *)
(* Three activities interleave at their awaits: callers that lease the     *)
(* current generation, one swap() that prepares a candidate and cuts over, *)
(* and stop(), which may land anywhere in a swap and be tried again.       *)
(* provider.stop() may take for ever or fail, so every wait for it has a   *)
(* deadline; the stop itself goes on behind the deadline.                  *)
(*                                                                         *)
(* A provider stands for its generation.  A managed provider spawns a      *)
(* child in start() and publishes the handle that stop() needs only when   *)
(* start() returns.                                                        *)
(***************************************************************************)
EXTENDS Integers, FiniteSets

CONSTANTS
    Provider,     \* the provider objects
    Initial,      \* the provider the slot is made with
    Cancellable,  \* those whose startup can be cancelled
    None,
    MaxLeases,    \* bound of the model: leases of one generation at a time
    MaxStops      \* bound of the model: calls of stop()

\* What an instance assumes of its constants.
SlotAssumption ==
    /\ Initial \in Provider /\ Cancellable \subseteq Provider /\ None \notin Provider
    /\ MaxLeases \in Nat /\ MaxStops \in Nat

VARIABLES
    \* The providers.
    startup,      \* "new", "starting", "warming" or "settled"
    child,        \* the providers whose child process exists
    handle,       \* those that have published the handle of their child
    cancelled,    \* those whose startup was cancelled
    stopping,     \* ProviderSlot.providerStops
    released,     \* ProviderSlot.releasedProviders
    \* The generations.
    current, retired, quarantined,
    barrier,      \* quarantined entries that carry a startup promise
    retiring,     \* generations whose retired flag is set
    leases,
    drained,      \* generations whose drain promise is resolved
    cleanup,      \* generation.cleanup: "none", "draining" or "stopping"
    stopped,
    \* The slot.
    closed, config,
    swap,         \* where swap() stands, its candidate, who owns it, what it waits for
    started,      \* candidates whose started promise is resolved
    stop          \* where stop() stands, what it waits for, whether all went well

providerVars == <<startup, child, handle, cancelled>>
releaseVars == <<stopping, released>>
ownerVars == <<current, retired, quarantined, barrier>>
generationVars == <<retiring, leases, drained, cleanup, stopped>>
vars == <<providerVars, releaseVars, ownerVars, generationVars,
          closed, config, swap, started, stop>>

SwapSteps == {"idle", "drain", "drainGeneration", "drainQuarantined", "starting",
              "prepared", "persisted", "failing", "disposing", "oldCleanup"}
StopSteps == {"idle", "disposals", "waiting"}
Idle == [step |-> "idle", candidate |-> None, owned |-> FALSE, waits |-> None]

Init ==
    /\ startup = [p \in Provider |-> IF p = Initial THEN "settled" ELSE "new"]
    /\ child = {Initial} /\ handle = {Initial} /\ cancelled = {}
    /\ stopping = {} /\ released = {}
    /\ current = Initial /\ retired = {} /\ quarantined = {} /\ barrier = {}
    /\ retiring = {} /\ leases = [p \in Provider |-> 0] /\ drained = {}
    /\ cleanup = [p \in Provider |-> "none"] /\ stopped = {}
    /\ closed = FALSE /\ config = Initial
    /\ swap = Idle /\ started = {}
    /\ stop = [step |-> "idle", calls |-> 0, generations |-> {}, barriers |-> {},
               quarantine |-> {}, failed |-> FALSE, confirmed |-> FALSE]

-----------------------------------------------------------------------------
(* Leases *)

Acquire ==
    /\ ~ closed /\ leases[current] < MaxLeases
    /\ leases' = [leases EXCEPT ![current] = @ + 1]
    /\ UNCHANGED <<providerVars, releaseVars, ownerVars, retiring, drained, cleanup,
                   stopped, closed, config, swap, started, stop>>

\* Mutant: the last release resolves the drain of a generation still in use.
ReleaseDrains(p) ==
    /\ leases[p] > 0
    /\ leases' = [leases EXCEPT ![p] = @ - 1]
    /\ drained' = IF leases[p] = 1 THEN drained \cup {p} ELSE drained
    /\ UNCHANGED <<providerVars, releaseVars, ownerVars, retiring, cleanup,
                   stopped, closed, config, swap, started, stop>>

Release(p) ==
    /\ leases[p] > 0
    /\ leases' = [leases EXCEPT ![p] = @ - 1]
    /\ drained' = IF p \in retiring /\ leases[p] = 1 THEN drained \cup {p} ELSE drained
    /\ UNCHANGED <<providerVars, releaseVars, ownerVars, retiring, cleanup,
                   stopped, closed, config, swap, started, stop>>

-----------------------------------------------------------------------------
(* stopProvider(): one stop at a time for a provider, joined by whoever asks *)

\* Asking for the stop of a provider that was released is no work.
BeginStops(ps) == stopping' = stopping \cup (ps \ released) /\ UNCHANGED released

\* Retired flags, and the drains that are resolved at once.
Retire(ps) ==
    /\ retiring' = retiring \cup ps
    /\ drained' = drained \cup {p \in ps : leases[p] = 0}

\* beginGenerationCleanup(): joins the one that runs.
BeginCleanups(ps) ==
    cleanup' = [p \in Provider |->
                  IF p \in ps /\ cleanup[p] = "none" /\ p \notin stopped THEN "draining"
                  ELSE cleanup[p]]

\* stopGeneration() once the leases are gone, and when the provider is released.
Drained(p) ==
    /\ cleanup[p] = "draining" /\ p \in drained
    /\ cleanup' = [cleanup EXCEPT ![p] = "stopping"]
    /\ BeginStops({p})
    /\ UNCHANGED <<providerVars, ownerVars, retiring, leases, drained, stopped,
                   closed, config, swap, started, stop>>

GenerationStopped(p) ==
    /\ cleanup[p] = "stopping" /\ p \in released
    /\ cleanup' = [cleanup EXCEPT ![p] = "none"]
    /\ stopped' = stopped \cup {p}
    /\ retired' = retired \ {p}
    /\ UNCHANGED <<providerVars, releaseVars, current, quarantined, barrier,
                   retiring, leases, drained, closed, config, swap, started, stop>>

\* A wait of swap() for p fails: during the drain the preparation fails; after
\* the cutover the swap reports an unconfirmed cleanup and is over.  A failed
\* disposal quarantines the candidate.
SwapWaitFails(p) ==
    IF swap.waits # p THEN UNCHANGED <<swap, started, quarantined, barrier>>
    ELSE /\ swap' = IF swap.step \in {"drainGeneration", "drainQuarantined"}
                    THEN [swap EXCEPT !.step = "failing", !.waits = None]
                    ELSE Idle
         /\ started' = IF swap.step \in {"drainGeneration", "drainQuarantined"}
                       THEN started \cup {swap.candidate} ELSE started
         /\ IF swap.step = "disposing"
            THEN quarantined' = quarantined \cup {p} /\ barrier' = barrier \cup {p}
            ELSE UNCHANGED <<quarantined, barrier>>

\* The waits of stop() that fail; quarantined entries stay quarantined.
StopWaitFails(ps) ==
    stop' = [stop EXCEPT
               !.generations = @ \ ps, !.quarantine = @ \ ps,
               !.failed = @ \/ ps \cap (stop.generations \cup stop.quarantine) # {}]

\* provider.stop() returns: the child is gone if its handle had been published.
ProviderStops(p) ==
    /\ p \in stopping
    /\ stopping' = stopping \ {p}
    /\ released' = released \cup {p}
    /\ child' = IF p \in handle THEN child \ {p} ELSE child
    /\ UNCHANGED <<startup, handle, cancelled, ownerVars, generationVars, closed,
                   config, swap, started, stop>>

\* provider.stop() fails: everyone who waits for it fails.
ProviderStopFails(p) ==
    /\ p \in stopping
    /\ stopping' = stopping \ {p}
    /\ cleanup' = [cleanup EXCEPT ![p] = IF @ = "stopping" THEN "none" ELSE @]
    /\ SwapWaitFails(p)
    /\ StopWaitFails({p})
    /\ UNCHANGED <<providerVars, released, current, retired, retiring, leases, drained,
                   stopped, closed, config>>

\* The deadline of stopProvider() inside stopGeneration(): the cleanup fails and
\* with it those who wait for it; the stop goes on.
CleanupTimesOut(p) ==
    /\ cleanup[p] = "stopping" /\ p \in stopping
    /\ cleanup' = [cleanup EXCEPT ![p] = "none"]
    /\ IF swap.step \in {"drainGeneration", "oldCleanup"}
       THEN SwapWaitFails(p)
       ELSE UNCHANGED <<swap, started, quarantined, barrier>>
    /\ stop' = [stop EXCEPT !.generations = @ \ {p}, !.failed = @ \/ p \in stop.generations]
    /\ UNCHANGED <<providerVars, releaseVars, current, retired, retiring, leases, drained,
                   stopped, closed, config>>

-----------------------------------------------------------------------------
(* swap() *)

\* swap() on a slot that is open and not swapping: the candidate is registered.
SwapBegins(c) ==
    /\ swap.step = "idle" /\ ~ closed /\ startup[c] = "new"
    /\ c \notin {current} \cup retired \cup quarantined \cup released
    /\ swap' = [step |-> "drain", candidate |-> c, owned |-> TRUE, waits |-> None]
    /\ UNCHANGED <<providerVars, releaseVars, ownerVars, generationVars, closed, config,
                   started, stop>>

\* cleanupRetired(): every retired generation, then every quarantined provider
\* except the candidate itself, one after the other.
SwapDrains ==
    /\ swap.step = "drain"
    /\ IF retired # {}
       THEN \E p \in retired :
              /\ swap' = [swap EXCEPT !.step = "drainGeneration", !.waits = p]
              /\ BeginCleanups({p})
              /\ UNCHANGED <<releaseVars, barrier>>
       ELSE \E p \in quarantined \ {swap.candidate} :
              /\ swap' = [swap EXCEPT !.step = "drainQuarantined", !.waits = p]
              /\ barrier' = barrier \ {p}
              /\ BeginStops({p})
              /\ UNCHANGED cleanup
    /\ UNCHANGED <<providerVars, current, retired, quarantined, retiring, leases, drained,
                   stopped, closed, config, started, stop>>

SwapDrained ==
    /\ \/ swap.step = "drainGeneration" /\ swap.waits \in stopped /\ UNCHANGED quarantined
       \/ /\ swap.step = "drainQuarantined" /\ swap.waits \in released
          /\ quarantined' = quarantined \ {swap.waits}
    /\ swap' = [swap EXCEPT !.step = "drain", !.waits = None]
    /\ UNCHANGED <<providerVars, releaseVars, current, retired, barrier, generationVars,
                   closed, config, started, stop>>

\* The deadline of a wait for a generation or for the stop of a provider.
SwapTimesOut ==
    /\ swap.waits \notin {None} \cup
         (IF swap.step \in {"drainGeneration", "oldCleanup"} THEN stopped ELSE released)
    /\ SwapWaitFails(swap.waits)
    /\ UNCHANGED <<providerVars, releaseVars, current, retired, generationVars, closed,
                   config, stop>>

\* Nothing is left to drain: start(), unless the slot was closed meanwhile.
SwapStarts ==
    /\ swap.step = "drain" /\ retired = {} /\ quarantined \subseteq {swap.candidate}
    /\ IF closed
       THEN /\ swap' = [swap EXCEPT !.step = "failing"]
            /\ started' = started \cup {swap.candidate}
            /\ UNCHANGED startup
       ELSE /\ swap' = [swap EXCEPT !.step = "starting"]
            /\ startup' = [startup EXCEPT ![swap.candidate] = "starting"]
            /\ UNCHANGED started
    /\ UNCHANGED <<child, handle, cancelled, releaseVars, ownerVars, generationVars,
                   closed, config, stop>>

\* start() spawns the child, then publishes its handle and returns.  After a
\* cancellation it spawns nothing.
Spawns(c) ==
    /\ startup[c] = "starting" /\ c \notin cancelled /\ c \notin child
    /\ child' = child \cup {c}
    /\ UNCHANGED <<startup, handle, cancelled, releaseVars, ownerVars, generationVars,
                   closed, config, swap, started, stop>>

StartReturns(c) ==
    /\ startup[c] = "starting" /\ c \in child /\ c \notin cancelled
    /\ handle' = handle \cup {c}
    /\ startup' = [startup EXCEPT ![c] = "warming"]
    /\ UNCHANGED <<child, cancelled, releaseVars, ownerVars, generationVars,
                   closed, config, swap, started, stop>>

\* start() fails, and takes its child along.
StartFails(c) ==
    /\ startup[c] = "starting"
    /\ child' = child \ {c}
    /\ startup' = [startup EXCEPT ![c] = "settled"]
    /\ started' = started \cup {c}
    /\ swap' = [swap EXCEPT !.step = "failing"]
    /\ UNCHANGED <<handle, cancelled, releaseVars, ownerVars, generationVars, closed,
                   config, stop>>

WarmupSettles(c, ok) ==
    /\ startup[c] = "warming"
    /\ startup' = [startup EXCEPT ![c] = "settled"]
    /\ started' = started \cup {c}
    /\ swap' = [swap EXCEPT !.step = IF ok THEN "prepared" ELSE "failing"]
    /\ UNCHANGED <<child, handle, cancelled, releaseVars, ownerVars, generationVars,
                   closed, config, stop>>

\* Mutant: the selection is written before the last check.
RefusedAfterWriting ==
    /\ swap.step = "prepared"
    /\ config' = swap.candidate
    /\ swap' = [swap EXCEPT !.step = "failing"]
    /\ UNCHANGED <<providerVars, releaseVars, ownerVars, generationVars, closed, started, stop>>

\* The health check, the caller's signal, the final validation or persist()
\* refuses; a slot that was closed meanwhile refuses too.
SwapRefused ==
    /\ swap.step = "prepared"
    /\ swap' = [swap EXCEPT !.step = "failing"]
    /\ UNCHANGED <<providerVars, releaseVars, ownerVars, generationVars, closed, config,
                   started, stop>>

\* persist() writes the selection.  The slot was open before the awaits of the
\* validation and of persist(), and may be closed when they return.
SwapPersists ==
    /\ swap.step = "prepared"
    /\ config' = swap.candidate
    /\ swap' = [swap EXCEPT !.step = "persisted"]
    /\ UNCHANGED <<providerVars, releaseVars, ownerVars, generationVars, closed, started, stop>>

\* The cutover: new leases take the candidate, the old generation is retired
\* and cleaned up within the deadline.  A closed slot disposes of the candidate.
SwapCutsOver ==
    /\ swap.step = "persisted"
    /\ IF closed
       THEN /\ swap' = [swap EXCEPT !.step = "failing"]
            /\ UNCHANGED <<current, retired, retiring, drained, cleanup>>
       ELSE /\ current' = swap.candidate /\ retired' = retired \cup {current}
            /\ swap' = [swap EXCEPT !.step = "oldCleanup", !.owned = FALSE, !.waits = current]
            /\ Retire({current}) /\ BeginCleanups({current})
    /\ UNCHANGED <<providerVars, releaseVars, quarantined, barrier, leases, stopped,
                   closed, config, started, stop>>

SwapCompletes ==
    /\ swap.step = "oldCleanup" /\ swap.waits \in stopped
    /\ swap' = Idle
    /\ UNCHANGED <<providerVars, releaseVars, ownerVars, generationVars, closed, config,
                   started, stop>>

\* claimCandidate(): whoever owns the candidate disposes of it.
SwapDisposes ==
    /\ swap.step = "failing"
    /\ IF swap.owned
       THEN /\ swap' = [swap EXCEPT !.step = "disposing", !.owned = FALSE,
                                    !.waits = swap.candidate]
            /\ BeginStops({swap.candidate})
       ELSE swap' = Idle /\ UNCHANGED releaseVars
    /\ UNCHANGED <<providerVars, ownerVars, generationVars, closed, config, started, stop>>

SwapDisposed ==
    /\ swap.step = "disposing" /\ swap.candidate \in released
    /\ swap' = Idle
    /\ UNCHANGED <<providerVars, releaseVars, ownerVars, generationVars, closed, config,
                   started, stop>>

-----------------------------------------------------------------------------
(* stop() *)

\* Mutant: stop() does not look at the candidate of a swap in flight.
StopIgnoresCandidate ==
    /\ stop.step = "idle" /\ stop.calls < MaxStops
    /\ closed' = TRUE
    /\ stop' = [stop EXCEPT !.step = "disposals", !.calls = @ + 1,
                            !.failed = FALSE, !.confirmed = FALSE]
    /\ UNCHANGED <<providerVars, releaseVars, ownerVars, generationVars, config, swap, started>>

\* The slot closes; a candidate nobody disposes of yet is claimed into quarantine.
StopBegins ==
    /\ stop.step = "idle" /\ stop.calls < MaxStops
    /\ closed' = TRUE
    /\ stop' = [stop EXCEPT !.step = "disposals", !.calls = @ + 1,
                            !.failed = FALSE, !.confirmed = FALSE]
    /\ IF swap.owned
       THEN /\ swap' = [swap EXCEPT !.owned = FALSE]
            /\ quarantined' = quarantined \cup {swap.candidate}
            /\ barrier' = barrier \cup {swap.candidate}
       ELSE UNCHANGED <<swap, quarantined, barrier>>
    /\ UNCHANGED <<providerVars, releaseVars, current, retired, generationVars, config, started>>

\* Once no disposal is under way: every generation is retired and cleaned up,
\* every quarantined provider stopped, after its startup has been cancelled
\* where it can be.
StopSnapshots ==
    LET generations == {current} \cup retired
        waiting == quarantined \cap barrier
    IN  /\ stop.step = "disposals" /\ swap.step # "disposing"
        /\ Retire(generations) /\ BeginCleanups(generations)
        /\ cancelled' = cancelled \cup (waiting \cap Cancellable)
        /\ BeginStops(quarantined \ waiting)
        /\ stop' = [stop EXCEPT !.step = "waiting", !.generations = generations,
                                !.barriers = waiting, !.quarantine = quarantined \ waiting]
        /\ UNCHANGED <<startup, child, handle, ownerVars, leases, stopped, closed, config,
                       swap, started>>

\* The startup of a quarantined candidate has settled.
BarrierSettles(p) ==
    /\ p \in stop.barriers /\ p \in started
    /\ stop' = [stop EXCEPT !.barriers = @ \ {p}, !.quarantine = @ \cup {p}]
    /\ barrier' = barrier \ {p}
    /\ BeginStops({p})
    /\ UNCHANGED <<providerVars, current, retired, quarantined, generationVars, closed,
                   config, swap, started>>

\* Mutant: the startup of a provider that cannot be cancelled has no deadline.
BarrierWaits(p) ==
    /\ p \in stop.barriers /\ p \notin started
    /\ p \in Cancellable /\ startup[p] # "starting"
    /\ stop' = [stop EXCEPT !.barriers = @ \ {p}, !.quarantine = @ \cup {p}]
    /\ BeginStops({p})
    /\ UNCHANGED <<providerVars, ownerVars, generationVars, closed, config, swap, started>>

\* It misses the deadline.  A cancelled start() is over promptly, so a provider
\* that can be cancelled hangs in its warmup or was never started: it is stopped
\* anyway.  The others cannot be reaped yet, and stay quarantined.
BarrierTimesOut(p) ==
    /\ p \in stop.barriers /\ p \notin started
    /\ p \in Cancellable => startup[p] # "starting"
    /\ stop' = IF p \in Cancellable
               THEN [stop EXCEPT !.barriers = @ \ {p}, !.quarantine = @ \cup {p}]
               ELSE [stop EXCEPT !.barriers = @ \ {p}, !.failed = TRUE]
    /\ BeginStops({p} \cap Cancellable)
    /\ UNCHANGED <<providerVars, ownerVars, generationVars, closed, config, swap, started>>

\* What stop() waited for is done, or misses its deadline.
StopProgress(p) ==
    /\ \/ /\ p \in stop.generations /\ p \in stopped
          /\ stop' = [stop EXCEPT !.generations = @ \ {p}]
          /\ UNCHANGED <<quarantined, barrier>>
       \/ /\ p \in stop.quarantine /\ p \in released
          /\ stop' = [stop EXCEPT !.quarantine = @ \ {p}]
          /\ quarantined' = quarantined \ {p} /\ barrier' = barrier \ {p}
    /\ UNCHANGED <<providerVars, releaseVars, current, retired, generationVars, closed,
                   config, swap, started>>

StopTimesOut(p) ==
    /\ p \in (stop.generations \ stopped) \cup (stop.quarantine \ released)
    /\ StopWaitFails({p})
    /\ UNCHANGED <<providerVars, releaseVars, ownerVars, generationVars, closed, config,
                   swap, started>>

StopReturns ==
    /\ stop.step = "waiting"
    /\ stop.generations = {} /\ stop.barriers = {} /\ stop.quarantine = {}
    /\ stop' = [stop EXCEPT !.step = "idle", !.confirmed = ~ stop.failed]
    /\ UNCHANGED <<providerVars, releaseVars, ownerVars, generationVars, closed, config,
                   swap, started>>

-----------------------------------------------------------------------------

SwapNext ==
    \/ SwapDrains \/ SwapDrained \/ SwapTimesOut \/ SwapStarts \/ SwapRefused
    \/ SwapPersists \/ SwapCutsOver \/ SwapCompletes \/ SwapDisposes \/ SwapDisposed

StopNext ==
    \/ StopSnapshots \/ StopReturns
    \/ \E p \in Provider :
          BarrierSettles(p) \/ BarrierTimesOut(p) \/ StopProgress(p) \/ StopTimesOut(p)

CleanupNext(p) == Drained(p) \/ GenerationStopped(p) \/ CleanupTimesOut(p)

Next ==
    \/ Acquire
    \/ SwapNext
    \/ StopBegins \/ StopNext
    \/ \E p \in Provider :
          \/ Release(p) \/ SwapBegins(p)
          \/ CleanupNext(p) \/ ProviderStops(p) \/ ProviderStopFails(p)
          \/ Spawns(p) \/ StartReturns(p) \/ StartFails(p)
          \/ \E ok \in BOOLEAN : WarmupSettles(p, ok)

\* Timers and promise callbacks run; a cancelled start() returns.  Nothing is
\* assumed of provider.stop(), of a warmup, of persist() or of a lease.
Fairness ==
    /\ WF_vars(StopNext)
    /\ WF_vars(SwapDisposed \/ (swap.step = "disposing" /\ SwapTimesOut))
    /\ \A p \in Cancellable : WF_vars(p \in cancelled /\ StartFails(p))

Spec == Init /\ [][Next]_vars /\ Fairness

-----------------------------------------------------------------------------

TypeOK ==
    /\ startup \in [Provider -> {"new", "starting", "warming", "settled"}]
    /\ child \subseteq Provider /\ handle \subseteq Provider /\ cancelled \subseteq Provider
    /\ stopping \subseteq Provider /\ released \subseteq Provider
    /\ current \in Provider /\ retired \subseteq Provider
    /\ barrier \subseteq quarantined /\ quarantined \subseteq Provider
    /\ retiring \subseteq Provider /\ drained \subseteq retiring
    /\ leases \in [Provider -> 0..MaxLeases]
    /\ cleanup \in [Provider -> {"none", "draining", "stopping"}]
    /\ stopped \subseteq Provider
    /\ closed \in BOOLEAN /\ config \in Provider
    /\ swap \in [step : SwapSteps, candidate : Provider \cup {None}, owned : BOOLEAN,
                 waits : Provider \cup {None}]
    /\ started \subseteq Provider
    /\ stop \in [step : StopSteps, calls : 0..MaxStops, generations : SUBSET Provider,
                 barriers : SUBSET Provider, quarantine : SUBSET Provider,
                 failed : BOOLEAN, confirmed : BOOLEAN]

\* A generation is never stopped under a turn that holds a lease on it, neither
\* by a swap nor by a shutdown ("Acquired generations remain valid until their
\* caller releases them").
LeasedKeepsRunning ==
    \A p \in Provider : leases[p] > 0 => p \notin stopping \cup released

\* Every child has an owner that a later stop() will find: it is a generation,
\* quarantined, or the candidate a swap still answers for.
NoOrphan ==
    \A p \in child :
        \/ p \in {current} \cup retired \cup quarantined
        \/ p = swap.candidate

\* Once stop() has reported a confirmed release no child process exists, and
\* none appears later, although a swap was starting one when stop() was called;
\* until then no child is lost.
ConfirmedStopLeavesNothing == NoOrphan /\ (stop.confirmed => child = {})

\* A swap that has not cut over leaves the configured provider the live one,
\* except while it commits and when a shutdown came in between.
ConfigMatchesCurrent == config # current => closed \/ swap.step = "persisted"

\* A lease keeps its generation running, a confirmed stop leaves nothing, and what
\* is configured is what serves.
SlotHolds == LeasedKeepsRunning /\ ConfirmedStopLeavesNothing /\ ConfigMatchesCurrent

\* A shutdown comes to its end although providers may hang in their stop.
StopSettles == []<>(stop.step = "idle")
=============================================================================
