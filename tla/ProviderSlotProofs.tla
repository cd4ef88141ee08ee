------------------------- MODULE ProviderSlotProofs -------------------------
(***************************************************************************)
(* Proofs about ProviderSlot, for every set of providers, whichever of     *)
(* them can be cancelled, and any number of leases and of stops.           *)
(*                                                                         *)
(* SlotHolds is about the end of a stop() that met a swap() in flight, so  *)
(* its proof needs to know where the candidate of a swap can be at each    *)
(* step, who has to dispose of it, and what a call of stop() that has not  *)
(* failed still waits for.                                                 *)
(***************************************************************************)
EXTENDS ProviderSlot, TLAPS

-----------------------------------------------------------------------------
(* The inductive invariant *)

\* The generations that stop() retires, and those a lease may be on.
Generations == {current} \cup retired
Served == {current} \cup retiring

\* The steps of swap() that have a candidate which does not serve.
BeforeCutover == {"drain", "drainGeneration", "drainQuarantined", "starting", "prepared",
                  "persisted", "failing", "disposing"}

\* What swap() waits for and where its candidate is, by its step.
SwapPlaces ==
    /\ swap.step = "idle" => swap = Idle
    /\ swap.step # "idle" => swap.candidate \in Provider
    /\ swap.step \in BeforeCutover =>
         swap.candidate \notin Served /\ swap.candidate \notin retired
    /\ swap.step = "oldCleanup" => swap.candidate = current
    /\ swap.waits # None <=>
         swap.step \in {"drainGeneration", "drainQuarantined", "disposing", "oldCleanup"}
    /\ swap.step = "disposing" => swap.waits = swap.candidate
    /\ swap.step = "drainQuarantined" =>
         swap.waits # swap.candidate /\ swap.waits \notin barrier
    /\ swap.step = "persisted" => config = swap.candidate

\* Either swap() owns its candidate and nobody else has touched it, or stop()
\* has closed the slot and taken the candidate over.
CandidateOwned ==
    /\ swap.owned =>
         /\ swap.step \in BeforeCutover \ {"disposing"}
         /\ swap.candidate \notin stopping \cup released \cup quarantined
         /\ ~ closed
    /\ swap.step \in BeforeCutover \ {"disposing"} /\ ~ swap.owned =>
         closed /\ swap.candidate \in quarantined \cup released

\* Only the candidate of a swap starts; nobody stops it while start() runs, and
\* a quarantined one is behind its startup barrier.
StartupPlaces ==
    /\ \A p \in Provider : startup[p] \in {"starting", "warming"} =>
          p = swap.candidate /\ swap.step = "starting" /\ p \notin started
    /\ \A p \in Provider : startup[p] = "starting" =>
          p \notin stopping \cup released /\ (p \in quarantined => p \in barrier)
    /\ swap.step \in {"drain", "drainGeneration", "drainQuarantined"} =>
          swap.candidate \notin started
    /\ \A p \in started : startup[p] = "new" =>
          \/ p \in released \cup quarantined
          \/ p = swap.candidate /\ swap.step \in {"failing", "disposing"}
    /\ \A p \in child : p \in handle \/ startup[p] = "starting"

\* What is being stopped is quarantined, retiring, or disposed of by its swap;
\* what was released has no child.
StopPlaces ==
    /\ \A p \in stopping :
         \/ p \in quarantined \cup retiring
         \/ p = swap.candidate /\ swap.step = "disposing"
    /\ stopping \cap released = {}
    /\ released \cap child = {}
    /\ stopped \subseteq released

\* The live generation is retired only by a shutdown, and a lease is on a
\* generation that serves or has served.
GenerationPlaces ==
    /\ retired \subseteq retiring
    /\ retiring \subseteq {current} \cup retired \cup released
    /\ current \in retiring => closed
    /\ current \notin retired
    /\ quarantined \cap (Served \cup retired) = {}
    /\ \A p \in Provider : p \in drained => leases[p] = 0
    /\ \A p \in Provider : leases[p] > 0 => p \in Served
    /\ current \in released => closed

\* A call of stop() that has not failed still waits for whatever is not released,
\* and for the start() that may yet spawn a child.
StopCalls ==
    /\ stop.calls > 0 <=> closed
    /\ stop.step # "idle" => closed
    /\ stop.confirmed => closed
    /\ stop.step = "waiting" => swap.step # "disposing"
    /\ stop.barriers \cup stop.quarantine \subseteq quarantined \cup released
    /\ stop.step = "waiting" /\ ~ stop.failed =>
         /\ Generations \subseteq stop.generations \cup released
         /\ quarantined \subseteq stop.barriers \cup stop.quarantine \cup released
         /\ \A p \in Provider : startup[p] = "starting" => p \in stop.barriers
    /\ stop.confirmed => \A p \in Provider : startup[p] # "starting"

Inv == /\ TypeOK /\ SwapPlaces /\ CandidateOwned /\ StartupPlaces /\ StopPlaces
       /\ GenerationPlaces /\ StopCalls /\ SlotHolds

\* The records of TypeOK.
SwapRecords == [step : SwapSteps, candidate : Provider \cup {None}, owned : BOOLEAN,
                waits : Provider \cup {None}]
StopRecords == [step : StopSteps, calls : 0..MaxStops, generations : SUBSET Provider,
                barriers : SUBSET Provider, quarantine : SUBSET Provider,
                failed : BOOLEAN, confirmed : BOOLEAN]

-----------------------------------------------------------------------------
(* Leases and cleanups *)

\* A lease is taken on the live generation of an open slot, which nobody is
\* stopping.
LEMMA AcquireKeeps ==
    ASSUME SlotAssumption, Inv, Acquire
    PROVE  Inv'
<1> USE DEF SlotAssumption, Inv, Acquire, providerVars, releaseVars, ownerVars
<1>1. TypeOK'
  BY DEF TypeOK
<1>2. SwapPlaces' /\ CandidateOwned' /\ StartupPlaces' /\ StopPlaces' /\ StopCalls'
  BY DEF SwapPlaces, Served, CandidateOwned, StartupPlaces, StopPlaces, StopCalls
<1>3. GenerationPlaces'
  BY DEF TypeOK, GenerationPlaces, Served
<1>4. SlotHolds'
  BY DEF SwapPlaces, StopPlaces, GenerationPlaces, Served, BeforeCutover, SlotHolds,
         LeasedKeepsRunning, ConfirmedStopLeavesNothing, NoOrphan, ConfigMatchesCurrent
<1> QED BY <1>1, <1>2, <1>3, <1>4

LEMMA ReleaseKeeps ==
    ASSUME SlotAssumption, Inv, NEW p \in Provider, Release(p)
    PROVE  Inv'
<1> USE DEF SlotAssumption, Inv, Release, providerVars, releaseVars, ownerVars
<1>1. TypeOK'
  BY DEF TypeOK
<1>2. SwapPlaces' /\ CandidateOwned' /\ StartupPlaces' /\ StopPlaces' /\ StopCalls'
  BY DEF SwapPlaces, Served, CandidateOwned, StartupPlaces, StopPlaces, StopCalls, Generations
<1>3. GenerationPlaces'
  BY DEF TypeOK, GenerationPlaces, Served
<1>4. SlotHolds'
  BY DEF SlotHolds, LeasedKeepsRunning, ConfirmedStopLeavesNothing, NoOrphan,
         ConfigMatchesCurrent
<1> QED BY <1>1, <1>2, <1>3, <1>4

\* A generation is stopped only after its last lease is gone.
LEMMA DrainedKeeps ==
    ASSUME SlotAssumption, Inv, NEW p \in Provider, Drained(p)
    PROVE  Inv'
<1> USE DEF SlotAssumption, Inv, Drained, providerVars, ownerVars, BeginStops
<1>1. TypeOK'
  BY DEF TypeOK
<1>2. SwapPlaces' /\ GenerationPlaces' /\ StopCalls'
  BY DEF SwapPlaces, Served, GenerationPlaces, StopCalls, Generations
<1>3. CandidateOwned'
  BY DEF TypeOK, SwapPlaces, CandidateOwned, Served
<1>4. StartupPlaces'
  BY DEF TypeOK, SwapPlaces, StartupPlaces, Served, BeforeCutover
<1>5. StopPlaces'
  BY DEF TypeOK, StopPlaces
<1>6. SlotHolds'
  BY DEF GenerationPlaces, SlotHolds, LeasedKeepsRunning, ConfirmedStopLeavesNothing, NoOrphan,
         ConfigMatchesCurrent
<1> QED BY <1>1, <1>2, <1>3, <1>4, <1>5, <1>6

LEMMA GenerationStoppedKeeps ==
    ASSUME SlotAssumption, Inv, NEW p \in Provider, GenerationStopped(p)
    PROVE  Inv'
<1> USE DEF SlotAssumption, Inv, GenerationStopped, providerVars, releaseVars
<1>1. TypeOK'
  BY DEF TypeOK
<1>2. /\ SwapPlaces' /\ CandidateOwned' /\ StartupPlaces'
      /\ StopPlaces' /\ GenerationPlaces' /\ StopCalls'
  BY DEF SwapPlaces, Served, CandidateOwned, StartupPlaces, StopPlaces, GenerationPlaces,
         StopCalls, Generations
<1>3. SlotHolds'
  BY DEF StopPlaces, SlotHolds, LeasedKeepsRunning, ConfirmedStopLeavesNothing, NoOrphan,
         ConfigMatchesCurrent
<1> QED BY <1>1, <1>2, <1>3

\* The child goes with its handle; nothing that still starts is being stopped.
LEMMA ProviderStopsKeeps ==
    ASSUME SlotAssumption, Inv, NEW p \in Provider, ProviderStops(p)
    PROVE  Inv'
<1> USE DEF SlotAssumption, Inv, ProviderStops, ownerVars, generationVars
<1>1. TypeOK'
  BY DEF TypeOK
<1>2. SwapPlaces' /\ CandidateOwned' /\ StartupPlaces' /\ StopCalls'
  BY DEF SwapPlaces, Served, CandidateOwned, StartupPlaces, StopCalls, Generations
<1>3. StopPlaces'
  BY DEF StartupPlaces, StopPlaces
<1>4. GenerationPlaces'
  BY DEF SwapPlaces, StopPlaces, GenerationPlaces, Served, BeforeCutover
<1>5. SlotHolds'
  BY DEF SlotHolds, LeasedKeepsRunning, ConfirmedStopLeavesNothing, NoOrphan,
         ConfigMatchesCurrent
<1> QED BY <1>1, <1>2, <1>3, <1>4, <1>5

\* What SwapWaitFails does, by the step that waits.
LEMMA SwapWaitEffect ==
    ASSUME SlotAssumption, TypeOK, SwapPlaces, NEW p \in Provider, SwapWaitFails(p)
    PROVE  \/ swap.waits # p /\ UNCHANGED <<swap, started, quarantined, barrier>>
           \/ /\ swap.waits = p /\ swap.step \in {"drainGeneration", "drainQuarantined"}
              /\ swap' = [step |-> "failing", candidate |-> swap.candidate,
                          owned |-> swap.owned, waits |-> None]
              /\ started' = started \cup {swap.candidate}
              /\ UNCHANGED <<quarantined, barrier>>
           \/ /\ swap.waits = p /\ swap.step = "disposing" /\ p = swap.candidate
              /\ swap' = Idle /\ started' = started
              /\ quarantined' = quarantined \cup {p} /\ barrier' = barrier \cup {p}
           \/ /\ swap.waits = p /\ swap.step = "oldCleanup"
              /\ swap' = Idle
              /\ UNCHANGED <<started, quarantined, barrier>>
<1>1. CASE swap.waits # p
  BY <1>1 DEF SwapWaitFails
<1>2. CASE swap.waits = p
  <2>1. swap.step \in {"drainGeneration", "drainQuarantined", "disposing", "oldCleanup"}
    BY <1>2 DEF SlotAssumption, SwapPlaces
  <2>2. swap = [step |-> swap.step, candidate |-> swap.candidate,
                owned |-> swap.owned, waits |-> swap.waits]
    BY DEF TypeOK
  <2> QED BY <1>2, <2>1, <2>2 DEF SwapWaitFails, SwapPlaces
<1> QED BY <1>1, <1>2

\* A failed wait of swap() keeps what is said of the swap, its candidate and the
\* generations, whoever made it fail.
LEMMA SwapWaitKeeps ==
    ASSUME SlotAssumption, Inv, NEW p \in Provider, SwapWaitFails(p),
           stopping' \in SUBSET stopping,
           UNCHANGED <<providerVars, released, current, retired, retiring, leases, drained,
                       stopped, closed, config>>
    PROVE  /\ SwapPlaces' /\ CandidateOwned' /\ StartupPlaces' /\ StopPlaces'
           /\ GenerationPlaces' /\ LeasedKeepsRunning' /\ NoOrphan' /\ ConfigMatchesCurrent'
           /\ swap' \in SwapRecords /\ started' \subseteq Provider
           /\ quarantined' \subseteq Provider /\ barrier' \subseteq quarantined'
           /\ quarantined \subseteq quarantined'
           /\ closed /\ swap.step # "disposing" => quarantined' = quarantined
           /\ swap'.step = "disposing" => swap.step = "disposing"
<1> USE DEF SlotAssumption, providerVars, Served, BeforeCutover
<1>0. /\ TypeOK /\ SwapPlaces /\ CandidateOwned /\ StartupPlaces /\ StopPlaces
      /\ GenerationPlaces /\ LeasedKeepsRunning /\ NoOrphan /\ ConfigMatchesCurrent
  BY DEF Inv, SlotHolds, ConfirmedStopLeavesNothing
<1>1. CASE swap.waits # p /\ UNCHANGED <<swap, started, quarantined, barrier>>
  BY <1>1, <1>0 DEF TypeOK, SwapRecords, SwapPlaces, CandidateOwned, StartupPlaces, StopPlaces,
     GenerationPlaces, LeasedKeepsRunning, NoOrphan, ConfigMatchesCurrent
<1>2. CASE /\ swap.waits = p /\ swap.step \in {"drainGeneration", "drainQuarantined"}
           /\ swap' = [step |-> "failing", candidate |-> swap.candidate,
                       owned |-> swap.owned, waits |-> None]
           /\ started' = started \cup {swap.candidate}
           /\ UNCHANGED <<quarantined, barrier>>
  <2>1. SwapPlaces' /\ CandidateOwned'
    BY <1>2, <1>0 DEF TypeOK, SwapPlaces, CandidateOwned
  <2>2. StartupPlaces'
    BY <1>2, <1>0 DEF TypeOK, SwapPlaces, CandidateOwned, StartupPlaces
  <2>3. StopPlaces' /\ GenerationPlaces'
    BY <1>2, <1>0 DEF TypeOK, SwapPlaces, StopPlaces, GenerationPlaces
  <2>4. LeasedKeepsRunning' /\ NoOrphan' /\ ConfigMatchesCurrent'
    BY <1>2, <1>0 DEF LeasedKeepsRunning, NoOrphan, ConfigMatchesCurrent
  <2> QED BY <1>2, <1>0, <2>1, <2>2, <2>3, <2>4 DEF TypeOK, SwapSteps, SwapRecords, SwapPlaces
<1>3. CASE /\ swap.waits = p /\ swap.step = "disposing" /\ p = swap.candidate
           /\ swap' = Idle /\ started' = started
           /\ quarantined' = quarantined \cup {p} /\ barrier' = barrier \cup {p}
  <2> USE DEF Idle
  <2>1. SwapPlaces' /\ CandidateOwned'
    BY <1>3, <1>0 DEF TypeOK, SwapPlaces, CandidateOwned
  <2>2. StartupPlaces'
    BY <1>3, <1>0 DEF TypeOK, SwapPlaces, CandidateOwned, StartupPlaces
  <2>3. StopPlaces' /\ GenerationPlaces'
    BY <1>3, <1>0 DEF TypeOK, SwapPlaces, StopPlaces, GenerationPlaces
  <2>4. LeasedKeepsRunning' /\ NoOrphan' /\ ConfigMatchesCurrent'
    BY <1>3, <1>0 DEF LeasedKeepsRunning, NoOrphan, ConfigMatchesCurrent
  <2> QED BY <1>3, <1>0, <2>1, <2>2, <2>3, <2>4 DEF TypeOK, SwapSteps, SwapRecords, SwapPlaces
<1>4. CASE /\ swap.waits = p /\ swap.step = "oldCleanup" /\ swap' = Idle
           /\ UNCHANGED <<started, quarantined, barrier>>
  <2> USE DEF Idle
  <2>1. SwapPlaces' /\ CandidateOwned'
    BY <1>4, <1>0 DEF TypeOK, SwapPlaces, CandidateOwned
  <2>2. StartupPlaces'
    BY <1>4, <1>0 DEF TypeOK, SwapPlaces, CandidateOwned, StartupPlaces
  <2>3. StopPlaces' /\ GenerationPlaces'
    BY <1>4, <1>0 DEF TypeOK, SwapPlaces, StopPlaces, GenerationPlaces
  <2>4. LeasedKeepsRunning' /\ NoOrphan' /\ ConfigMatchesCurrent'
    BY <1>4, <1>0 DEF LeasedKeepsRunning, NoOrphan, ConfigMatchesCurrent, SwapPlaces
  <2> QED BY <1>4, <1>0, <2>1, <2>2, <2>3, <2>4 DEF TypeOK, SwapSteps, SwapRecords, SwapPlaces
<1> QED BY <1>0, <1>1, <1>2, <1>3, <1>4, SwapWaitEffect

LEMMA ProviderStopFailsKeeps ==
    ASSUME SlotAssumption, Inv, NEW p \in Provider, ProviderStopFails(p)
    PROVE  Inv'
<1> USE DEF SlotAssumption, Inv, ProviderStopFails
<1>1. SwapWaitFails(p) /\ stopping' \in SUBSET stopping
  OBVIOUS
<1>2. /\ SwapPlaces' /\ CandidateOwned' /\ StartupPlaces' /\ StopPlaces' /\ GenerationPlaces'
      /\ LeasedKeepsRunning' /\ NoOrphan' /\ ConfigMatchesCurrent'
  BY <1>1, SwapWaitKeeps
<1>3. TypeOK'
  BY <1>1, SwapWaitKeeps DEF TypeOK, SwapRecords, StopWaitFails, providerVars
<1>4. StopCalls'
  BY <1>1, SwapWaitKeeps DEF StopCalls, Generations, StopWaitFails, providerVars, TypeOK
<1>5. SlotHolds'
  BY <1>2 DEF SlotHolds, ConfirmedStopLeavesNothing, StopWaitFails, providerVars, TypeOK
<1> QED BY <1>2, <1>3, <1>4, <1>5

LEMMA CleanupTimesOutKeeps ==
    ASSUME SlotAssumption, Inv, NEW p \in Provider, CleanupTimesOut(p)
    PROVE  Inv'
<1> USE DEF SlotAssumption, Inv, CleanupTimesOut, providerVars, releaseVars
<1>1. CASE UNCHANGED <<swap, started, quarantined, barrier>>
  <2>1. SwapPlaces' /\ CandidateOwned' /\ StartupPlaces'
    BY <1>1 DEF SwapPlaces, CandidateOwned, StartupPlaces, Served
  <2>2. StopPlaces' /\ GenerationPlaces'
    BY <1>1 DEF StopPlaces, GenerationPlaces, Served
  <2>3. LeasedKeepsRunning' /\ NoOrphan' /\ ConfigMatchesCurrent'
    BY <1>1 DEF SlotHolds, LeasedKeepsRunning, ConfirmedStopLeavesNothing, NoOrphan,
       ConfigMatchesCurrent
  <2>4. TypeOK'
    BY <1>1 DEF TypeOK
  <2>5. StopCalls'
    BY <1>1 DEF StopCalls, Generations, TypeOK
  <2>6. SlotHolds'
    BY <2>3 DEF SlotHolds, ConfirmedStopLeavesNothing, TypeOK
  <2> QED BY <2>1, <2>2, <2>4, <2>5, <2>6
<1>2. CASE SwapWaitFails(p)
  <2>1. stopping' \in SUBSET stopping
    OBVIOUS
  <2>2. /\ SwapPlaces' /\ CandidateOwned' /\ StartupPlaces' /\ StopPlaces'
        /\ GenerationPlaces' /\ LeasedKeepsRunning' /\ NoOrphan' /\ ConfigMatchesCurrent'
    BY <1>2, <2>1, SwapWaitKeeps
  <2>3. TypeOK'
    BY <1>2, <2>1, SwapWaitKeeps DEF TypeOK, SwapRecords
  <2>4. StopCalls'
    BY <1>2, <2>1, SwapWaitKeeps DEF StopCalls, Generations, TypeOK
  <2>5. SlotHolds'
    BY <2>2 DEF SlotHolds, ConfirmedStopLeavesNothing, TypeOK
  <2> QED BY <2>2, <2>3, <2>4, <2>5
<1> QED BY <1>1, <1>2

-----------------------------------------------------------------------------
(* swap() *)

\* A new candidate is nobody's generation and nobody's quarantined provider.
LEMMA SwapBeginsKeeps ==
    ASSUME SlotAssumption, Inv, NEW p \in Provider, SwapBegins(p)
    PROVE  Inv'
<1> USE DEF SlotAssumption, Inv, SwapBegins, providerVars, releaseVars, ownerVars, generationVars
<1>1. /\ swap'.step = "drain" /\ swap'.candidate = p /\ swap'.owned = TRUE /\ swap'.waits = None
      /\ swap.step = "idle" /\ swap = Idle
  BY DEF SwapPlaces
<1>2. /\ p \notin stopping \cup released \cup quarantined \cup retired \cup {current}
      /\ p \notin retiring
  BY <1>1 DEF GenerationPlaces, StopPlaces
<1>3. TypeOK'
  BY DEF TypeOK, SwapSteps
<1>4. SwapPlaces'
  BY <1>1, <1>2 DEF SwapPlaces, Served, BeforeCutover
<1>5. CandidateOwned'
  BY <1>1, <1>2 DEF CandidateOwned, Served, BeforeCutover
<1>6. StartupPlaces'
  BY <1>1, <1>2 DEF StartupPlaces, Idle
<1>7. SlotHolds'
  BY <1>1, <1>2 DEF SlotHolds, LeasedKeepsRunning, ConfirmedStopLeavesNothing, NoOrphan, ConfigMatchesCurrent, Idle, TypeOK
<1>8. StopPlaces'
  BY <1>1, <1>2 DEF StopPlaces
<1>9. GenerationPlaces'
  BY <1>1, <1>2 DEF GenerationPlaces, Served
<1>10. StopCalls'
  BY <1>1, <1>2 DEF StopCalls, Generations
<1> QED BY <1>3, <1>4, <1>5, <1>6, <1>7, <1>8, <1>9, <1>10

LEMMA SwapDrainsKeeps ==
    ASSUME SlotAssumption, Inv, SwapDrains
    PROVE  Inv'
<1> USE DEF SlotAssumption, Inv, providerVars
<1>1. CASE retired # {}
  <2>1. PICK p \in retired : /\ swap' = [swap EXCEPT !.step = "drainGeneration", !.waits = p]
                             /\ BeginCleanups({p})
                             /\ UNCHANGED <<stopping, released, barrier>>
    BY <1>1 DEF SwapDrains, releaseVars
  <2>2. /\ swap.step = "drain" /\ swap'.step = "drainGeneration" /\ swap'.waits = p /\ p \in Provider
        /\ swap'.candidate = swap.candidate /\ swap'.owned = swap.owned
        /\ UNCHANGED <<startup, child, handle, cancelled, current, retired, quarantined, retiring,
                       leases, drained, stopped, closed, config, started, stop>>
    BY <2>1 DEF SwapDrains, TypeOK
  <2>3. TypeOK'
    BY <2>1, <2>2 DEF TypeOK, SwapSteps, BeginCleanups
  <2>4. SwapPlaces' /\ CandidateOwned' /\ StartupPlaces'
    BY <2>1, <2>2 DEF SwapPlaces, CandidateOwned, StartupPlaces, Served, BeforeCutover
  <2>5. StopPlaces' /\ GenerationPlaces' /\ StopCalls'
    BY <2>1, <2>2 DEF StopPlaces, GenerationPlaces, StopCalls, Served, Generations
  <2>6. SlotHolds'
    BY <2>1, <2>2 DEF SlotHolds, LeasedKeepsRunning, ConfirmedStopLeavesNothing, NoOrphan,
       ConfigMatchesCurrent
  <2> QED BY <2>3, <2>4, <2>5, <2>6
<1>2. CASE retired = {}
  <2>1. PICK p \in quarantined \ {swap.candidate} :
              /\ swap' = [swap EXCEPT !.step = "drainQuarantined", !.waits = p]
              /\ barrier' = barrier \ {p}
              /\ stopping' = stopping \cup ({p} \ released) /\ UNCHANGED <<released, cleanup>>
    BY <1>2 DEF SwapDrains, BeginStops
  <2>2. /\ swap.step = "drain" /\ swap'.step = "drainQuarantined" /\ swap'.waits = p /\ p \in Provider
        /\ swap'.candidate = swap.candidate /\ swap'.owned = swap.owned
        /\ UNCHANGED <<startup, child, handle, cancelled, current, retired, quarantined, retiring,
                       leases, drained, stopped, closed, config, started, stop>>
    BY <2>1 DEF SwapDrains, TypeOK
  <2>7. /\ p \in quarantined /\ p # swap.candidate /\ startup[p] \notin {"starting", "warming"}
        /\ p \notin Served \cup retired /\ leases[p] = 0
    BY <2>1, <2>2 DEF StartupPlaces, GenerationPlaces, TypeOK, SwapPlaces
  <2>3. TypeOK'
    BY <2>1, <2>2, <2>7 DEF TypeOK, SwapSteps
  <2>4. SwapPlaces' /\ CandidateOwned' /\ StartupPlaces'
    BY <2>1, <2>2, <2>7 DEF SwapPlaces, CandidateOwned, StartupPlaces, Served, BeforeCutover
  <2>5. StopPlaces' /\ GenerationPlaces' /\ StopCalls'
    BY <2>1, <2>2, <2>7 DEF StopPlaces, GenerationPlaces, StopCalls, Served, Generations
  <2>6. SlotHolds'
    BY <2>1, <2>2, <2>7 DEF SlotHolds, LeasedKeepsRunning, ConfirmedStopLeavesNothing, NoOrphan,
       ConfigMatchesCurrent
  <2> QED BY <2>3, <2>4, <2>5, <2>6
<1> QED BY <1>1, <1>2

LEMMA SwapDrainedKeeps ==
    ASSUME SlotAssumption, Inv, SwapDrained
    PROVE  Inv'
<1> USE DEF SlotAssumption, Inv, SwapDrained, providerVars, releaseVars, generationVars
<1>1. TypeOK'
  BY DEF TypeOK, SwapPlaces, SwapSteps
<1>2. StartupPlaces' /\ StopPlaces' /\ GenerationPlaces' /\ StopCalls'
  BY DEF StartupPlaces, StopPlaces, GenerationPlaces, Served, StopCalls, Generations
<1>3. SwapPlaces'
  BY DEF SwapPlaces, Served, BeforeCutover
<1>4. CandidateOwned'
  BY DEF CandidateOwned, BeforeCutover
<1>5. SlotHolds'
  BY DEF StopPlaces, SlotHolds, LeasedKeepsRunning, ConfirmedStopLeavesNothing, NoOrphan,
         ConfigMatchesCurrent
<1> QED BY <1>1, <1>2, <1>3, <1>4, <1>5

LEMMA SwapTimesOutKeeps ==
    ASSUME SlotAssumption, Inv, SwapTimesOut
    PROVE  Inv'
<1> USE DEF SlotAssumption, Inv, SwapTimesOut
<1>0. PICK p \in Provider : p = swap.waits
  BY DEF TypeOK
<1>1. SwapWaitFails(p) /\ stopping' \in SUBSET stopping
  BY <1>0 DEF releaseVars
<1>2. /\ SwapPlaces' /\ CandidateOwned' /\ StartupPlaces' /\ StopPlaces' /\ GenerationPlaces'
      /\ LeasedKeepsRunning' /\ NoOrphan' /\ ConfigMatchesCurrent'
  BY <1>1, SwapWaitKeeps DEF generationVars, releaseVars
<1>3. TypeOK'
  BY <1>1, SwapWaitKeeps DEF TypeOK, SwapRecords, generationVars, releaseVars, providerVars
<1>4. StopCalls'
  BY <1>1, SwapWaitKeeps DEF StopCalls, Generations, providerVars, TypeOK, generationVars, releaseVars
<1>5. SlotHolds'
  BY <1>2 DEF SlotHolds, ConfirmedStopLeavesNothing, providerVars
<1> QED BY <1>2, <1>3, <1>4, <1>5

LEMMA SwapStartsKeeps ==
    ASSUME SlotAssumption, Inv, SwapStarts
    PROVE  Inv'
<1> USE DEF SlotAssumption, Inv, SwapStarts, releaseVars, ownerVars, generationVars
<1>1. TypeOK'
  BY DEF TypeOK, CandidateOwned, BeforeCutover, SwapSteps
<1>2. StopPlaces' /\ GenerationPlaces'
  BY DEF StopPlaces, GenerationPlaces, Served
<1>3. SwapPlaces'
  BY DEF TypeOK, SwapPlaces, Served, BeforeCutover
<1>4. CandidateOwned'
  BY DEF TypeOK, CandidateOwned, BeforeCutover
<1>5. StartupPlaces'
  BY DEF TypeOK, CandidateOwned, StartupPlaces, BeforeCutover
<1>6. StopCalls'
  BY DEF TypeOK, StopCalls, Generations
<1>7. SlotHolds'
  BY DEF TypeOK, SlotHolds, LeasedKeepsRunning, ConfirmedStopLeavesNothing, NoOrphan,
         ConfigMatchesCurrent
<1> QED BY <1>1, <1>2, <1>3, <1>4, <1>5, <1>6, <1>7

\* A child appears only under a start() that no confirmed stop has overlooked.
LEMMA SpawnsKeeps ==
    ASSUME SlotAssumption, Inv, NEW p \in Provider, Spawns(p)
    PROVE  Inv'
<1> USE DEF SlotAssumption, Inv, Spawns, releaseVars, ownerVars, generationVars
<1>1. TypeOK'
  BY DEF TypeOK
<1>2. SwapPlaces' /\ CandidateOwned' /\ StartupPlaces' /\ GenerationPlaces' /\ StopCalls'
  BY DEF SwapPlaces, Served, CandidateOwned, StartupPlaces, GenerationPlaces, StopCalls,
         Generations
<1>3. StopPlaces'
  BY DEF StartupPlaces, StopPlaces
<1>4. SlotHolds'
  BY DEF StartupPlaces, StopCalls, SlotHolds, LeasedKeepsRunning, ConfirmedStopLeavesNothing,
         NoOrphan, ConfigMatchesCurrent
<1> QED BY <1>1, <1>2, <1>3, <1>4

LEMMA StartReturnsKeeps ==
    ASSUME SlotAssumption, Inv, NEW p \in Provider, StartReturns(p)
    PROVE  Inv'
<1> USE DEF SlotAssumption, Inv, StartReturns, releaseVars, ownerVars, generationVars
<1>1. TypeOK'
  BY DEF TypeOK
<1>2. /\ SwapPlaces' /\ CandidateOwned' /\ StartupPlaces'
      /\ StopPlaces' /\ GenerationPlaces' /\ StopCalls'
  BY DEF SwapPlaces, Served, CandidateOwned, StartupPlaces, StopPlaces, GenerationPlaces,
         StopCalls, Generations
<1>3. SlotHolds'
  BY DEF SlotHolds, LeasedKeepsRunning, ConfirmedStopLeavesNothing, NoOrphan,
         ConfigMatchesCurrent
<1> QED BY <1>1, <1>2, <1>3

LEMMA StartFailsKeeps ==
    ASSUME SlotAssumption, Inv, NEW p \in Provider, StartFails(p)
    PROVE  Inv'
<1> USE DEF SlotAssumption, Inv, StartFails, releaseVars, ownerVars, generationVars
<1>1. TypeOK'
  BY DEF TypeOK, SwapSteps
<1>2. GenerationPlaces' /\ StopCalls'
  BY DEF GenerationPlaces, Served, StopCalls, Generations
<1>3. SwapPlaces'
  BY DEF SwapPlaces, StartupPlaces, Served, BeforeCutover
<1>4. CandidateOwned'
  BY DEF CandidateOwned, StartupPlaces, BeforeCutover
<1>5. StartupPlaces'
  BY DEF TypeOK, StartupPlaces
<1>6. StopPlaces'
  BY DEF StartupPlaces, StopPlaces
<1>7. SlotHolds'
  BY DEF StartupPlaces, SlotHolds, LeasedKeepsRunning, ConfirmedStopLeavesNothing, NoOrphan,
         ConfigMatchesCurrent
<1> QED BY <1>1, <1>2, <1>3, <1>4, <1>5, <1>6, <1>7

LEMMA WarmupSettlesKeeps ==
    ASSUME SlotAssumption, Inv, NEW p \in Provider, NEW ok \in BOOLEAN, WarmupSettles(p, ok)
    PROVE  Inv'
<1> USE DEF SlotAssumption, Inv, WarmupSettles, releaseVars, ownerVars, generationVars
<1>1. TypeOK'
  BY DEF TypeOK, SwapSteps
<1>2. GenerationPlaces' /\ StopCalls'
  BY DEF GenerationPlaces, Served, StopCalls, Generations
<1>3. SwapPlaces'
  BY DEF SwapPlaces, StartupPlaces, Served, BeforeCutover
<1>4. CandidateOwned'
  BY DEF CandidateOwned, StartupPlaces, BeforeCutover
<1>5. StartupPlaces'
  BY DEF TypeOK, StartupPlaces
<1>6. StopPlaces'
  BY DEF StartupPlaces, StopPlaces
<1>7. SlotHolds'
  BY DEF StartupPlaces, SlotHolds, LeasedKeepsRunning, ConfirmedStopLeavesNothing, NoOrphan,
         ConfigMatchesCurrent
<1> QED BY <1>1, <1>2, <1>3, <1>4, <1>5, <1>6, <1>7

LEMMA SwapRefusedKeeps ==
    ASSUME SlotAssumption, Inv, SwapRefused
    PROVE  Inv'
<1> USE DEF SlotAssumption, Inv, SwapRefused, providerVars, releaseVars, ownerVars,
           generationVars
<1>1. TypeOK'
  BY DEF TypeOK, SwapSteps
<1>2. StartupPlaces' /\ StopPlaces' /\ GenerationPlaces' /\ StopCalls'
  BY DEF StartupPlaces, StopPlaces, GenerationPlaces, Served, StopCalls, Generations
<1>3. SwapPlaces'
  BY DEF SwapPlaces, Served, BeforeCutover
<1>4. CandidateOwned'
  BY DEF CandidateOwned, BeforeCutover
<1>5. SlotHolds'
  BY DEF SlotHolds, LeasedKeepsRunning, ConfirmedStopLeavesNothing, NoOrphan,
         ConfigMatchesCurrent
<1> QED BY <1>1, <1>2, <1>3, <1>4, <1>5

LEMMA SwapPersistsKeeps ==
    ASSUME SlotAssumption, Inv, SwapPersists
    PROVE  Inv'
<1> USE DEF SlotAssumption, Inv, SwapPersists, providerVars, releaseVars, ownerVars,
           generationVars
<1>1. TypeOK'
  BY DEF TypeOK, SwapPlaces, SwapSteps
<1>2. StartupPlaces' /\ StopPlaces' /\ GenerationPlaces' /\ StopCalls'
  BY DEF StartupPlaces, StopPlaces, GenerationPlaces, Served, StopCalls, Generations
<1>3. SwapPlaces'
  BY DEF SwapPlaces, Served, BeforeCutover
<1>4. CandidateOwned'
  BY DEF CandidateOwned, BeforeCutover
<1>5. SlotHolds'
  BY DEF SlotHolds, LeasedKeepsRunning, ConfirmedStopLeavesNothing, NoOrphan,
         ConfigMatchesCurrent
<1> QED BY <1>1, <1>2, <1>3, <1>4, <1>5

\* The candidate of an open slot takes over; the old generation keeps its leases.
LEMMA SwapCutsOverKeeps ==
    ASSUME SlotAssumption, Inv, SwapCutsOver
    PROVE  Inv'
<1> USE DEF SlotAssumption, Inv, SwapCutsOver, providerVars, releaseVars
<1>1. CASE closed
  <2>1. /\ swap.step = "persisted" /\ swap'.step = "failing" /\ swap'.waits = swap.waits
        /\ swap'.candidate = swap.candidate /\ swap'.owned = swap.owned
        /\ UNCHANGED <<current, retired, retiring, drained, cleanup>>
    BY <1>1 DEF TypeOK
  <2>3. TypeOK'
    BY <1>1, <2>1 DEF TypeOK, SwapSteps
  <2>4. SwapPlaces' /\ CandidateOwned' /\ StartupPlaces'
    BY <2>1 DEF SwapPlaces, CandidateOwned, StartupPlaces, Served, BeforeCutover
  <2>5. StopPlaces' /\ GenerationPlaces' /\ StopCalls'
    BY <2>1 DEF StopPlaces, GenerationPlaces, StopCalls, Served, Generations
  <2>6. SlotHolds'
    BY <1>1, <2>1 DEF SlotHolds, LeasedKeepsRunning, ConfirmedStopLeavesNothing, NoOrphan,
       ConfigMatchesCurrent
  <2> QED BY <2>3, <2>4, <2>5, <2>6
<1>2. CASE ~ closed
  <2>1. /\ swap.step = "persisted" /\ swap'.step = "oldCleanup" /\ swap'.waits = current
        /\ swap'.candidate = swap.candidate /\ swap'.owned = FALSE
        /\ current' = swap.candidate /\ retired' = retired \cup {current}
        /\ retiring' = retiring \cup {current}
        /\ drained' = drained \cup {p \in {current} : leases[p] = 0}
    BY ZenonT(60), <1>2 DEF TypeOK, Retire
  <2>2. /\ swap.candidate \in Provider /\ swap.candidate \notin Served /\ swap.candidate \notin retired
        /\ swap.candidate \notin stopping \cup released \cup quarantined
        /\ config = swap.candidate /\ startup[swap.candidate] \notin {"starting", "warming"}
    BY <1>2, <2>1 DEF SwapPlaces, CandidateOwned, StartupPlaces, BeforeCutover
  <2>3. TypeOK'
    <3>1. swap' \in [step : SwapSteps, candidate : Provider \cup {None}, owned : BOOLEAN,
                     waits : Provider \cup {None}]
      BY <1>2, <2>1 DEF TypeOK, SwapSteps
    <3>2. cleanup' \in [Provider -> {"none", "draining", "stopping"}]
      BY <1>2 DEF TypeOK, BeginCleanups
    <3>3. /\ current' \in Provider /\ retired' \subseteq Provider
          /\ retiring' \subseteq Provider /\ drained' \subseteq retiring'
      BY <2>1, <2>2 DEF TypeOK
    <3> QED BY <3>1, <3>2, <3>3, <1>2 DEF TypeOK
  <2>4. SwapPlaces' /\ CandidateOwned' /\ StartupPlaces'
    BY <2>1, <2>2 DEF SwapPlaces, CandidateOwned, StartupPlaces, Served, BeforeCutover, TypeOK
  <2>5. StopPlaces' /\ StopCalls'
    BY <1>2, <2>1, <2>2 DEF StopPlaces, StopCalls, Served, Generations
  <2>7. GenerationPlaces'
    BY <1>2, <2>1, <2>2 DEF GenerationPlaces, Served, TypeOK
  <2>6. SlotHolds'
    BY <1>2, <2>1, <2>2 DEF SlotHolds, LeasedKeepsRunning, ConfirmedStopLeavesNothing, NoOrphan,
       ConfigMatchesCurrent
  <2> QED BY <2>3, <2>4, <2>5, <2>6, <2>7
<1> QED BY <1>1, <1>2

LEMMA SwapCompletesKeeps ==
    ASSUME SlotAssumption, Inv, SwapCompletes
    PROVE  Inv'
<1> USE DEF SlotAssumption, Inv, SwapCompletes, providerVars, releaseVars, ownerVars,
           generationVars, Idle
<1>1. TypeOK'
  BY DEF TypeOK, SwapSteps
<1>2. StartupPlaces' /\ StopPlaces' /\ GenerationPlaces' /\ StopCalls'
  BY DEF StartupPlaces, StopPlaces, GenerationPlaces, Served, StopCalls, Generations
<1>3. SwapPlaces'
  BY DEF SwapPlaces, BeforeCutover
<1>4. CandidateOwned'
  BY DEF CandidateOwned, BeforeCutover
<1>5. SlotHolds'
  BY DEF SwapPlaces, SlotHolds, LeasedKeepsRunning, ConfirmedStopLeavesNothing, NoOrphan,
         ConfigMatchesCurrent
<1> QED BY <1>1, <1>2, <1>3, <1>4, <1>5

\* Only the owner of the candidate disposes of it.
LEMMA SwapDisposesKeeps ==
    ASSUME SlotAssumption, Inv, SwapDisposes
    PROVE  Inv'
<1> USE DEF SlotAssumption, Inv, SwapDisposes, providerVars, ownerVars, generationVars
<1>1. CASE swap.owned
  <2>1. /\ swap.step = "failing" /\ swap'.step = "disposing" /\ swap'.waits = swap.candidate
        /\ swap'.candidate = swap.candidate /\ swap'.owned = FALSE
        /\ stopping' = stopping \cup ({swap.candidate} \ released) /\ UNCHANGED released
    BY <1>1 DEF TypeOK, BeginStops
  <2>2. /\ swap.candidate \in Provider /\ swap.candidate \notin Served /\ swap.candidate \notin retired
        /\ swap.candidate \notin stopping \cup released \cup quarantined /\ ~ closed
        /\ leases[swap.candidate] = 0 /\ startup[swap.candidate] \notin {"starting", "warming"}
    BY <1>1, <2>1 DEF SwapPlaces, CandidateOwned, StartupPlaces, GenerationPlaces, BeforeCutover, TypeOK
  <2>3. TypeOK'
    BY <1>1, <2>1, <2>2 DEF TypeOK, SwapSteps
  <2>4. SwapPlaces' /\ CandidateOwned' /\ StartupPlaces'
    BY <2>1, <2>2 DEF SwapPlaces, CandidateOwned, StartupPlaces, Served, BeforeCutover
  <2>5. StopPlaces' /\ GenerationPlaces'
    BY <2>1, <2>2 DEF StopPlaces, GenerationPlaces, Served
  <2>7. StopCalls'
    BY <2>1, <2>2 DEF StopCalls, Generations
  <2>6. SlotHolds'
    BY <2>1, <2>2 DEF SlotHolds, LeasedKeepsRunning, ConfirmedStopLeavesNothing, NoOrphan,
       ConfigMatchesCurrent
  <2> QED BY <2>3, <2>4, <2>5, <2>6, <2>7
<1>2. CASE ~ swap.owned
  <2> USE DEF releaseVars, Idle
  <2>1. /\ swap.step = "failing" /\ swap'.step = "idle" /\ swap' = Idle /\ UNCHANGED <<stopping, released>>
        /\ swap'.candidate = None /\ closed /\ swap.candidate \in quarantined \cup released
    BY <1>2 DEF TypeOK, CandidateOwned, BeforeCutover
  <2>3. TypeOK'
    BY <1>2, <2>1 DEF TypeOK, SwapSteps
  <2>4. SwapPlaces' /\ CandidateOwned' /\ StartupPlaces'
    BY <2>1 DEF SwapPlaces, CandidateOwned, StartupPlaces, Served, BeforeCutover
  <2>5. StopPlaces' /\ GenerationPlaces' /\ StopCalls'
    BY <2>1 DEF StopPlaces, GenerationPlaces, StopCalls, Served, Generations
  <2>6. SlotHolds'
    BY <2>1 DEF SlotHolds, LeasedKeepsRunning, ConfirmedStopLeavesNothing, NoOrphan,
       ConfigMatchesCurrent, StopPlaces
  <2> QED BY <2>3, <2>4, <2>5, <2>6
<1> QED BY <1>1, <1>2

LEMMA SwapDisposedKeeps ==
    ASSUME SlotAssumption, Inv, SwapDisposed
    PROVE  Inv'
<1> USE DEF SlotAssumption, Inv, SwapDisposed, providerVars, releaseVars, ownerVars,
           generationVars, Idle
<1>1. TypeOK'
  BY DEF TypeOK, SwapSteps
<1>2. StartupPlaces' /\ StopPlaces' /\ GenerationPlaces' /\ StopCalls'
  BY DEF StartupPlaces, StopPlaces, GenerationPlaces, Served, StopCalls
<1>3. SwapPlaces'
  BY DEF SwapPlaces, BeforeCutover
<1>4. CandidateOwned'
  BY DEF CandidateOwned, BeforeCutover
<1>5. SlotHolds'
  BY DEF StopPlaces, SlotHolds, LeasedKeepsRunning, ConfirmedStopLeavesNothing, NoOrphan,
         ConfigMatchesCurrent
<1> QED BY <1>1, <1>2, <1>3, <1>4, <1>5

-----------------------------------------------------------------------------
(* stop() *)

LEMMA StopBeginsTypes ==
    ASSUME SlotAssumption, Inv, StopBegins PROVE TypeOK'
<1> USE DEF SlotAssumption, StopBegins, providerVars, releaseVars, generationVars
<1>0. TypeOK /\ SwapPlaces /\ CandidateOwned
  BY DEF Inv
<1>1. stop' \in StopRecords
  <2>1. stop.calls + 1 \in 0..MaxStops
    BY <1>0 DEF TypeOK
  <2>2. /\ stop'.step = "disposals" /\ stop' = [stop EXCEPT !.step = "disposals", !.calls = stop.calls + 1,
                            !.failed = FALSE, !.confirmed = FALSE]
    BY <1>0 DEF TypeOK
  <2> QED BY <1>0, <2>1, <2>2 DEF TypeOK, StopSteps, StopRecords
<1>2. CASE swap.owned
  <2>1. /\ swap' = [swap EXCEPT !.owned = FALSE] /\ swap.candidate \in Provider
        /\ quarantined' = quarantined \cup {swap.candidate}
        /\ barrier' = barrier \cup {swap.candidate}
    BY <1>0, <1>2 DEF SwapPlaces, CandidateOwned, BeforeCutover
  <2>2. swap' \in [step : SwapSteps, candidate : Provider \cup {None}, owned : BOOLEAN,
                 waits : Provider \cup {None}]
    BY <1>0, <2>1 DEF TypeOK
  <2> QED BY <1>0, <1>1, <2>1, <2>2 DEF TypeOK, StopRecords
<1>3. CASE ~ swap.owned
  BY <1>0, <1>1, <1>3 DEF TypeOK, StopRecords
<1> QED BY <1>2, <1>3

\* stop() claims the candidate of a swap in flight.
LEMMA StopBeginsKeeps ==
    ASSUME SlotAssumption, Inv, StopBegins
    PROVE  Inv'
<1> USE DEF SlotAssumption, Inv, StopBegins, providerVars, releaseVars, generationVars
<1>1. TypeOK'
  BY StopBeginsTypes
<1>2. StopPlaces'
  BY DEF StopPlaces
<1>3. SwapPlaces'
  BY DEF TypeOK, SwapPlaces, CandidateOwned, Served, BeforeCutover
<1>4. CandidateOwned'
  BY DEF TypeOK, CandidateOwned
<1>5. StartupPlaces'
  BY DEF TypeOK, StartupPlaces
<1>6. GenerationPlaces'
  BY DEF SwapPlaces, CandidateOwned, GenerationPlaces, Served
<1>7. StopCalls'
  BY DEF TypeOK, StopCalls
<1>8. SlotHolds'
  BY DEF SlotHolds, LeasedKeepsRunning, ConfirmedStopLeavesNothing, NoOrphan,
         ConfigMatchesCurrent
<1> QED BY <1>1, <1>2, <1>3, <1>4, <1>5, <1>6, <1>7, <1>8

LEMMA StopSnapshotsTypes ==
    ASSUME SlotAssumption, Inv, StopSnapshots PROVE TypeOK'
<1> USE DEF SlotAssumption, StopSnapshots, ownerVars
<1>0. TypeOK
  BY DEF Inv
<1>1. stop' \in StopRecords
  BY <1>0 DEF TypeOK, StopSteps, StopRecords
<1>2. cleanup' \in [Provider -> {"none", "draining", "stopping"}]
  BY <1>0 DEF TypeOK, BeginCleanups
<1>3. /\ retiring' \subseteq Provider /\ drained' \subseteq retiring'
      /\ cancelled' \subseteq Provider /\ stopping' \subseteq Provider /\ released' = released
  BY <1>0 DEF TypeOK, Retire, BeginStops
<1> QED BY <1>0, <1>1, <1>2, <1>3 DEF TypeOK, StopRecords

LEMMA StopSnapshotsKeeps ==
    ASSUME SlotAssumption, Inv, StopSnapshots
    PROVE  Inv'
<1> USE DEF SlotAssumption, Inv, StopSnapshots, ownerVars, BeginStops, Retire, BeginCleanups
<1>1. TypeOK'
  BY StopSnapshotsTypes
<1>2. SwapPlaces' /\ CandidateOwned' /\ StartupPlaces' /\ StopPlaces'
  BY DEF SwapPlaces, Served, CandidateOwned, StartupPlaces, StopPlaces
<1>3. GenerationPlaces'
  BY DEF GenerationPlaces, StopCalls, Served
<1>4. StopCalls'
  BY DEF CandidateOwned, StartupPlaces, StopCalls, Generations, BeforeCutover
<1>5. SlotHolds'
  BY DEF GenerationPlaces, SlotHolds, LeasedKeepsRunning, ConfirmedStopLeavesNothing, NoOrphan,
         ConfigMatchesCurrent
<1> QED BY <1>1, <1>2, <1>3, <1>4, <1>5

LEMMA BarrierSettlesTypes ==
    ASSUME SlotAssumption, Inv, NEW p \in Provider, BarrierSettles(p) PROVE TypeOK'
<1> USE DEF SlotAssumption, BarrierSettles, providerVars, generationVars
<1>0. TypeOK
  BY DEF Inv
<1>1. stop' \in StopRecords
  BY <1>0 DEF TypeOK, StopSteps, StopRecords
<1>2. barrier' \subseteq quarantined /\ stopping' \subseteq Provider /\ released' = released
  BY <1>0 DEF TypeOK, BeginStops
<1> QED BY <1>0, <1>1, <1>2 DEF TypeOK, StopRecords

LEMMA BarrierSettlesKeeps ==
    ASSUME SlotAssumption, Inv, NEW p \in Provider, BarrierSettles(p)
    PROVE  Inv'
<1> USE DEF SlotAssumption, Inv, BarrierSettles, providerVars, generationVars, BeginStops
<1>1. TypeOK'
  BY BarrierSettlesTypes
<1>2. SwapPlaces' /\ StartupPlaces' /\ GenerationPlaces'
  BY DEF SwapPlaces, Served, StartupPlaces, GenerationPlaces
<1>3. CandidateOwned'
  BY DEF CandidateOwned, StopCalls
<1>4. StopPlaces'
  BY DEF StopPlaces, StopCalls
<1>5. StopCalls'
  BY DEF StartupPlaces, StopCalls, Generations
<1>6. SlotHolds'
  BY DEF GenerationPlaces, StopCalls, SlotHolds, LeasedKeepsRunning, ConfirmedStopLeavesNothing,
         NoOrphan, ConfigMatchesCurrent
<1> QED BY <1>1, <1>2, <1>3, <1>4, <1>5, <1>6

LEMMA BarrierTimesOutTypes ==
    ASSUME SlotAssumption, Inv, NEW p \in Provider, BarrierTimesOut(p) PROVE TypeOK'
<1> USE DEF SlotAssumption, BarrierTimesOut, providerVars, ownerVars, generationVars
<1>0. TypeOK
  BY DEF Inv
<1>1. stop' \in StopRecords
  <2>1. CASE p \in Cancellable
    BY <1>0, <2>1 DEF TypeOK, StopRecords
  <2>2. CASE p \notin Cancellable
    BY <1>0, <2>2 DEF TypeOK, StopRecords
  <2> QED BY <2>1, <2>2
<1>2. stopping' \subseteq Provider /\ released' = released
  BY <1>0 DEF TypeOK, BeginStops
<1> QED BY <1>0, <1>1, <1>2 DEF TypeOK, StopRecords

\* A provider that cannot be cancelled stays quarantined and fails the stop.
LEMMA BarrierTimesOutKeeps ==
    ASSUME SlotAssumption, Inv, NEW p \in Provider, BarrierTimesOut(p)
    PROVE  Inv'
<1> USE DEF SlotAssumption, Inv, BarrierTimesOut, providerVars, ownerVars, generationVars,
           BeginStops
<1>1. TypeOK'
  BY BarrierTimesOutTypes
<1>2. SwapPlaces' /\ StartupPlaces' /\ GenerationPlaces' /\ StopCalls'
  BY DEF SwapPlaces, Served, StartupPlaces, GenerationPlaces, StopCalls, Generations
<1>3. CandidateOwned'
  BY DEF CandidateOwned, StopCalls
<1>4. StopPlaces'
  BY DEF StopPlaces, StopCalls
<1>5. SlotHolds'
  BY DEF GenerationPlaces, StopCalls, SlotHolds, LeasedKeepsRunning, ConfirmedStopLeavesNothing,
         NoOrphan, ConfigMatchesCurrent
<1> QED BY <1>1, <1>2, <1>3, <1>4, <1>5

LEMMA StopProgressKeeps ==
    ASSUME SlotAssumption, Inv, NEW p \in Provider, StopProgress(p)
    PROVE  Inv'
<1> USE DEF SlotAssumption, Inv, StopProgress, providerVars, releaseVars, generationVars
<1>1. TypeOK'
  BY DEF TypeOK
<1>2. SwapPlaces' /\ CandidateOwned' /\ StartupPlaces' /\ StopPlaces' /\ GenerationPlaces'
  BY DEF SwapPlaces, Served, CandidateOwned, StartupPlaces, StopPlaces, GenerationPlaces
<1>3. StopCalls'
  BY DEF TypeOK, StopPlaces, StopCalls, Generations
<1>4. SlotHolds'
  BY DEF TypeOK, StopPlaces, SlotHolds, LeasedKeepsRunning, ConfirmedStopLeavesNothing,
         NoOrphan, ConfigMatchesCurrent
<1> QED BY <1>1, <1>2, <1>3, <1>4

LEMMA StopTimesOutTypes ==
    ASSUME SlotAssumption, Inv, NEW p \in Provider, StopTimesOut(p) PROVE TypeOK'
<1> USE DEF SlotAssumption, StopTimesOut, providerVars, releaseVars, ownerVars, generationVars
<1>0. TypeOK
  BY DEF Inv
<1>1. stop' \in StopRecords
  BY <1>0 DEF TypeOK, StopWaitFails, StopRecords
<1> QED BY <1>0, <1>1 DEF TypeOK, StopRecords

LEMMA StopTimesOutKeeps ==
    ASSUME SlotAssumption, Inv, NEW p \in Provider, StopTimesOut(p)
    PROVE  Inv'
<1> USE DEF SlotAssumption, Inv, StopTimesOut, providerVars, releaseVars, ownerVars,
           generationVars, StopWaitFails
<1>1. TypeOK'
  BY StopTimesOutTypes
<1>2. SwapPlaces' /\ CandidateOwned' /\ StartupPlaces' /\ StopPlaces' /\ GenerationPlaces'
  BY DEF SwapPlaces, Served, CandidateOwned, StartupPlaces, StopPlaces, GenerationPlaces
<1>3. StopCalls'
  BY DEF TypeOK, StopCalls
<1>4. SlotHolds'
  BY DEF SlotHolds, LeasedKeepsRunning, ConfirmedStopLeavesNothing, NoOrphan,
         ConfigMatchesCurrent
<1> QED BY <1>1, <1>2, <1>3, <1>4

LEMMA StopReturnsTypes ==
    ASSUME SlotAssumption, Inv, StopReturns PROVE TypeOK'
<1> USE DEF SlotAssumption, StopReturns, providerVars, releaseVars, ownerVars, generationVars
<1>0. TypeOK
  BY DEF Inv
<1>1. stop' \in StopRecords
  <2>1. (~ stop.failed) \in BOOLEAN
    OBVIOUS
  <2> QED BY <1>0, <2>1 DEF TypeOK, StopRecords, StopSteps
<1> QED BY <1>0, <1>1 DEF TypeOK, StopRecords

\* A stop that did not fail has released every generation and every quarantined
\* candidate, and nothing is starting: no child is left to own.
LEMMA StopReturnsHolds ==
    ASSUME SlotAssumption, Inv, StopReturns PROVE SlotHolds'
<1> USE DEF SlotAssumption, StopReturns, providerVars, releaseVars, ownerVars, generationVars
<1>1. stop'.confirmed = ~ stop.failed
  BY DEF Inv, TypeOK
<1>2. LeasedKeepsRunning' /\ NoOrphan' /\ ConfigMatchesCurrent'
  BY DEF Inv, SlotHolds, LeasedKeepsRunning, NoOrphan, ConfirmedStopLeavesNothing, ConfigMatchesCurrent
<1>3. ASSUME ~ stop.failed, NEW p \in child PROVE FALSE
  <2>1. p \notin released
    BY <1>3 DEF Inv, StopPlaces
  <2>2. p \notin {current} \cup retired \cup quarantined
    BY <1>3, <2>1 DEF Inv, StopCalls, Generations
  <2>3. p = swap.candidate
    BY <2>2, <1>3 DEF Inv, SlotHolds, ConfirmedStopLeavesNothing, NoOrphan
  <2>4. closed /\ swap.step # "disposing" /\ p \in Provider
    BY <1>3 DEF Inv, StopCalls, TypeOK
  <2>5. swap.step \in BeforeCutover \ {"disposing"} => p \in quarantined \cup released
    BY <2>3, <2>4 DEF Inv, CandidateOwned
  <2>6. swap.step \notin BeforeCutover
    BY <2>1, <2>2, <2>4, <2>5 DEF BeforeCutover
  <2>7. swap.step = "idle" \/ swap.step = "oldCleanup"
    BY <2>6 DEF Inv, TypeOK, SwapSteps, BeforeCutover
  <2> QED BY <2>2, <2>3, <2>4, <2>7 DEF Inv, SwapPlaces, Idle
<1>4. stop'.confirmed => child = {}
  BY <1>1, <1>3
<1> QED BY <1>2, <1>4 DEF SlotHolds, ConfirmedStopLeavesNothing

LEMMA StopReturnsKeeps ==
    ASSUME SlotAssumption, Inv, StopReturns
    PROVE  Inv'
<1> USE DEF SlotAssumption, Inv, StopReturns, providerVars, releaseVars, ownerVars,
           generationVars
<1>1. TypeOK'
  BY StopReturnsTypes
<1>2. SwapPlaces' /\ CandidateOwned' /\ StartupPlaces' /\ StopPlaces' /\ GenerationPlaces'
  BY DEF SwapPlaces, Served, CandidateOwned, StartupPlaces, StopPlaces, GenerationPlaces
<1>3. StopCalls'
  BY DEF TypeOK, StopCalls
<1>4. SlotHolds'
  BY StopReturnsHolds
<1> QED BY <1>1, <1>2, <1>3, <1>4

-----------------------------------------------------------------------------
(* The theorems *)

LEMMA InitInv ==
    ASSUME SlotAssumption, Init
    PROVE  Inv
<1> USE DEF SlotAssumption, Inv, Init, Idle
<1>1. TypeOK
  <2>1. swap \in SwapRecords /\ stop \in StopRecords
    BY DEF SwapSteps, StopSteps, SwapRecords, StopRecords
  <2>2. /\ startup \in [Provider -> {"new", "starting", "warming", "settled"}]
        /\ cleanup \in [Provider -> {"none", "draining", "stopping"}]
        /\ leases \in [Provider -> 0..MaxLeases]
    OBVIOUS
  <2> QED BY ZenonT(60), <2>1, <2>2 DEF TypeOK, SwapRecords, StopRecords
<1>2. /\ SwapPlaces /\ CandidateOwned /\ StartupPlaces /\ StopPlaces /\ GenerationPlaces
      /\ StopCalls
  BY DEF SwapPlaces, CandidateOwned, StartupPlaces, StopPlaces, GenerationPlaces, StopCalls,
         Served, Generations, BeforeCutover
<1>3. SlotHolds
  BY DEF SlotHolds, LeasedKeepsRunning, ConfirmedStopLeavesNothing, NoOrphan,
         ConfigMatchesCurrent
<1> QED BY <1>1, <1>2, <1>3

LEMMA StutterKeeps ==
    ASSUME SlotAssumption, Inv, UNCHANGED vars
    PROVE  Inv'
<1> USE DEF Inv, vars, providerVars, releaseVars, ownerVars, generationVars
<1>1. TypeOK' /\ StopCalls'
  BY DEF TypeOK, StopCalls, Generations
<1>2. SwapPlaces' /\ CandidateOwned' /\ StartupPlaces' /\ StopPlaces' /\ GenerationPlaces'
  BY DEF SwapPlaces, CandidateOwned, StartupPlaces, StopPlaces, GenerationPlaces, Served
<1>3. SlotHolds'
  BY DEF SlotHolds, LeasedKeepsRunning, ConfirmedStopLeavesNothing, NoOrphan,
         ConfigMatchesCurrent
<1> QED BY <1>1, <1>2, <1>3

LEMMA SwapNextKeeps ==
    ASSUME SlotAssumption, Inv, SwapNext
    PROVE  Inv'
BY SwapDrainsKeeps, SwapDrainedKeeps, SwapTimesOutKeeps, SwapStartsKeeps, SwapRefusedKeeps,
   SwapPersistsKeeps, SwapCutsOverKeeps, SwapCompletesKeeps, SwapDisposesKeeps,
   SwapDisposedKeeps DEF SwapNext

LEMMA StopNextKeeps ==
    ASSUME SlotAssumption, Inv, StopNext
    PROVE  Inv'
BY StopSnapshotsKeeps, StopReturnsKeeps, BarrierSettlesKeeps, BarrierTimesOutKeeps,
   StopProgressKeeps, StopTimesOutKeeps DEF StopNext

LEMMA NextKeeps ==
    ASSUME SlotAssumption, Inv, [Next]_vars
    PROVE  Inv'
<1>1. CASE SwapNext \/ StopNext \/ UNCHANGED vars
  BY <1>1, SwapNextKeeps, StopNextKeeps, StutterKeeps
<1>2. CASE Acquire \/ StopBegins
  BY <1>2, AcquireKeeps, StopBeginsKeeps
<1>3. ASSUME NEW p \in Provider,
             Release(p) \/ SwapBegins(p) \/ ProviderStops(p) \/ ProviderStopFails(p)
      PROVE  Inv'
  BY <1>3, ReleaseKeeps, SwapBeginsKeeps, ProviderStopsKeeps, ProviderStopFailsKeeps
<1>4. ASSUME NEW p \in Provider, CleanupNext(p)
      PROVE  Inv'
  BY <1>4, DrainedKeeps, GenerationStoppedKeeps, CleanupTimesOutKeeps DEF CleanupNext
<1>5. ASSUME NEW p \in Provider, Spawns(p) \/ StartReturns(p) \/ StartFails(p)
      PROVE  Inv'
  BY <1>5, SpawnsKeeps, StartReturnsKeeps, StartFailsKeeps
<1>6. ASSUME NEW p \in Provider, NEW ok \in BOOLEAN, WarmupSettles(p, ok)
      PROVE  Inv'
  BY <1>6, WarmupSettlesKeeps
<1> QED BY <1>1, <1>2, <1>3, <1>4, <1>5, <1>6 DEF Next

LEMMA SlotInvariant ==
    ASSUME SlotAssumption
    PROVE  Spec => []Inv
<1>1. Init => Inv
  BY InitInv
<1>2. Inv /\ [Next]_vars => Inv'
  BY NextKeeps
<1> QED BY <1>1, <1>2, PTL DEF Spec

\* The slot's state stays well-typed: what is resolved as drained is retiring, and
\* what carries a startup barrier is quarantined.
THEOREM SlotTypeCorrect ==
    ASSUME SlotAssumption
    PROVE  Spec => []TypeOK
<1>1. Inv => TypeOK
  BY DEF Inv
<1> QED BY <1>1, SlotInvariant, PTL

\* However the leases, one swap and the calls of stop() interleave, and whichever
\* stops hang, fail or come late: no generation is stopped under a lease, every
\* child has an owner, a confirmed stop leaves none, and what is configured serves.
THEOREM SlotAlwaysHolds ==
    ASSUME SlotAssumption
    PROVE  Spec => []SlotHolds
<1>1. Inv => SlotHolds
  BY DEF Inv
<1> QED BY <1>1, SlotInvariant, PTL
=============================================================================
