--------------------------- MODULE AcpBrainProofs ---------------------------
(***************************************************************************)
(* Proofs about AcpBrain, for any number of processes, turns and calls:    *)
(* one agent at a time and one prompt on it, a session that was discarded  *)
(* is never resumed, and a guarded call is allowed once and only if it is  *)
(* the one that was approved.                                              *)
(*                                                                         *)
(* The invariant of the session has four parts.  RunsInv says who disposes *)
(* of which process, so that whoever starts one knows that no other lives. *)
(* StopCalls says what the last stop still waits for.  LockInv orders the  *)
(* turns of a runtime by the gates they wait for.  PointerInv says that a  *)
(* session that was forgotten is neither stored nor about to be, unless    *)
(* the next start will not read it.                                        *)
(***************************************************************************)
EXTENDS AcpBrain, SequenceTheorems, FiniteSetTheorems, TLAPS

-----------------------------------------------------------------------------
(* The session: one agent at a time *)

\* A process that runs, or may still.
Alive(g) == g \in Spawned /\ ~Disposed(g)
\* The steps of a start that is not over.
StartSteps == {"open", "save", "unsaved", "failing"}

RuntimeRecords ==
    [start : StartSteps \cup {"none", "ok", "failed"}, epoch : Nat, pointer : Nat,
     session : Nat, dispose : {"no", "killing", "over", "failed"}, active : Turn \cup {None}]
CallRecords ==
    [kind : {"none", "start", "stop", "restart", "discard", "recover"},
     at : {"none", "stop", "pointer", "clear", "ensure", "ensureStart", "ensureStop"},
     epoch : Nat, stops : Generation \cup {0}, starts : Generation \cup {0}, failed : BOOLEAN]
WriteRecords ==
    [session : Nat, epoch : Nat, begun : BOOLEAN, waiters : SUBSET (Call \cup Turn \cup {0})]

SessionTypes ==
    /\ runtimes \in [Generation -> RuntimeRecords]
    /\ runtime \in Generation \cup {0}
    /\ startOperation \in Generation \cup {0} /\ stopOperation \in Generation \cup {0}
    /\ desiredRunning \in BOOLEAN /\ stopped \in BOOLEAN /\ lifecycleEpoch \in Nat
    /\ calls \in [Call \cup Turn -> CallRecords]
    /\ file \in Nat /\ pointerEpoch \in Nat /\ skipStored \in BOOLEAN
    /\ writes \in Seq(WriteRecords)

\* Runtimes are numbered in the order they were spawned.
SpawnOrder == \E n \in 0 .. MaxRuntimes : Spawned = 1 .. n

\* Whose disposal is whose: the runtime is the one nobody disposes of, a stop
\* operation kills another, and so does a start that fails.
RuntimePlaces ==
    /\ runtime # 0 => Alive(runtime) /\ runtimes[runtime].dispose = "no" /\ desiredRunning
    /\ stopOperation # 0 => runtimes[stopOperation].dispose = "killing"
    /\ \A g \in Generation :
         /\ runtimes[g].dispose = "no" => g = runtime \/ g \notin Spawned
         /\ runtimes[g].dispose = "killing" =>
              g = stopOperation \/ runtimes[g].start = "failing"
         /\ runtimes[g].dispose # "no" => g \in Spawned
         /\ runtimes[g].start \in StartSteps <=> g = startOperation
         /\ runtimes[g].start = "failed" => Disposed(g)
         /\ runtimes[g].start = "failing" => runtimes[g].dispose # "no"
         /\ runtimes[g].start \in {"save", "unsaved", "ok"} /\ runtimes[g].dispose = "no" =>
              runtimes[g].session # 0

OneAlive == \A g, h \in Generation : Alive(g) /\ Alive(h) => g = h

\* Ours(i) is the write that the start waits for.
StartWrites ==
    /\ \A i \in DOMAIN writes : 0 \in writes[i].waiters =>
         startOperation # 0 /\ runtimes[startOperation].start = "save"
    /\ \A i, j \in DOMAIN writes : 0 \in writes[i].waiters /\ 0 \in writes[j].waiters => i = j

\* A call that stops for good and that nothing has followed.
Final(c) == calls[c].kind \in {"stop", "discard"} /\ calls[c].epoch = lifecycleEpoch

StopCalls ==
    /\ \A c \in Call \cup Turn :
         /\ calls[c].epoch <= lifecycleEpoch
         /\ calls[c].kind \in {"stop", "discard"} => calls[c].at \in {"stop", "pointer", "clear"}
         /\ Final(c) => ~desiredRunning
         /\ Final(c) /\ calls[c].at = "stop" =>
              \A g \in Generation : Alive(g) =>
                 g = calls[c].stops \/ (g = calls[c].starts /\ runtimes[g].start = "failing")
         /\ Final(c) /\ calls[c].at # "stop" => \A g \in Generation : ~Alive(g)
    /\ stopped => ~desiredRunning /\ \A g \in Generation : ~Alive(g)

-----------------------------------------------------------------------------
(* The stored session: what was forgotten stays forgotten *)

\* Nothing that is stored, or about to be, was forgotten.
Clean ==
    /\ file \notin forgotten
    /\ \A i \in DOMAIN writes : writes[i].begun => writes[i].session \notin forgotten

PointerInv ==
    /\ forgotten \subseteq Spawned
    /\ runtime # 0 => runtime \notin forgotten /\ runtimes[runtime].session \notin forgotten
    /\ \A g \in Generation : runtimes[g].pointer <= pointerEpoch
    /\ \A i \in DOMAIN writes :
         /\ writes[i].epoch <= pointerEpoch
         /\ writes[i].begun => i = 1
         /\ writes[i].epoch = pointerEpoch => writes[i].session \notin forgotten
         /\ 0 \in writes[i].waiters => writes[i].epoch = runtimes[startOperation].pointer
    /\ ~skipStored => Clean
    /\ \A g \in Generation :
         /\ Saved(g) /\ runtimes[g].pointer = pointerEpoch => Clean

-----------------------------------------------------------------------------
(* The lock: one prompt of a session at a time *)

\* It has been prompted, and holds the lock.
Prompted(t) == turnAt[t] \in {"streaming", "releasing"}

TurnTypes ==
    /\ turnAt \in [Turn -> {"new", "waiting", "streaming", "releasing", "over"}]
    /\ reserved \in [Turn -> Generation \cup {0}]
    /\ prior \in [Turn -> SUBSET Turn] /\ released \subseteq Reserved
    /\ prompt \in [Turn -> {"none", "open", "ended", "cancelled", "failed"}]
    /\ cancellation \in [Turn -> {"none", "waiting", "over"}]

LockPlaces ==
    /\ \A t \in Turn :
         /\ turnAt[t] = "new" <=> reserved[t] = 0
         /\ reserved[t] # 0 => reserved[t] \in Spawned
         /\ turnAt[t] \in {"new", "waiting"} => prompt[t] = "none" /\ cancellation[t] = "none"
         /\ Prompted(t) => prior[t] \subseteq released
         /\ reserved[t] = runtime /\ reserved[t] # 0 =>
              /\ turnAt[t] # "over" => t \notin released
              /\ prompt[t] = "open" => Prompted(t) /\ cancellation[t] # "over"
              /\ turnAt[t] = "releasing" => cancellation[t] = "waiting"
    /\ \A t, u \in Reserved : t # u => \/ t \in prior[u] \/ u \in prior[t]
                                       \/ t \in released \/ u \in released

-----------------------------------------------------------------------------
(* What the steps do to the agents *)

RunInv == SessionTypes /\ SpawnOrder /\ RuntimePlaces /\ OneAlive

\* What disposeRuntime() does to the runtimes: one that was not disposed of loses
\* its session and its place, another stays as it is.
LEMMA DisposeEffect ==
    ASSUME NEW rs \in [Generation -> RuntimeRecords], NEW g \in Generation, Dispose(rs, g)
    PROVE  /\ runtimes' \in [Generation -> RuntimeRecords]
           /\ \A h \in Generation : /\ runtimes'[h].start = rs[h].start
                                    /\ runtimes'[h].epoch = rs[h].epoch
                                    /\ runtimes'[h].pointer = rs[h].pointer
           /\ \A h \in Generation \ {g} : runtimes'[h] = rs[h]
           /\ rs[g].dispose = "no" =>
                /\ runtimes'[g].dispose = "killing" /\ runtimes'[g].session = 0
                /\ runtime' = IF runtime = g THEN 0 ELSE runtime
           /\ rs[g].dispose # "no" => runtimes' = rs /\ runtime' = runtime
<1>1. CASE rs[g].dispose = "no"
  <2>1. runtimes' = [rs EXCEPT ![g] = [rs[g] EXCEPT !.dispose = "killing", !.session = 0,
                                                    !.active = None]]
    BY <1>1 DEF Dispose
  <2>2. [rs[g] EXCEPT !.dispose = "killing", !.session = 0, !.active = None] \in RuntimeRecords
    BY DEF RuntimeRecords
  <2> QED BY <1>1, <2>1, <2>2 DEF Dispose, RuntimeRecords
<1>2. CASE rs[g].dispose # "no"
  BY <1>2 DEF Dispose
<1> QED BY <1>1, <1>2

\* A step that starts no process spawns none.
LEMMA SameSpawned ==
    ASSUME \A g \in Generation : runtimes'[g].start = "none" <=> runtimes[g].start = "none"
    PROVE  Spawned' = Spawned
BY DEF Spawned

\* Nothing that RunInv speaks of changes, but for the prompt that is active.
LEMMA SessionStays ==
    ASSUME RunInv,
           runtimes' \in [Generation -> RuntimeRecords],
           \A g \in Generation : /\ runtimes'[g].start = runtimes[g].start
                                 /\ runtimes'[g].dispose = runtimes[g].dispose
                                 /\ runtimes'[g].session = runtimes[g].session,
           UNCHANGED <<runtime, startOperation, stopOperation>>,
           desiredRunning' \in BOOLEAN, desiredRunning => desiredRunning',
           SessionTypes'
    PROVE  RunInv'
<1>1. Spawned' = Spawned
  BY SameSpawned
<1>2. SpawnOrder'
  BY <1>1 DEF RunInv, SpawnOrder
<1>3. OneAlive'
  BY <1>1 DEF RunInv, OneAlive, Alive, Disposed
<1>4. RuntimePlaces'
  <2>1. RuntimePlaces /\ SessionTypes
    BY DEF RunInv
  <2>2. runtime' # 0 => Alive(runtime)' /\ runtimes'[runtime'].dispose = "no" /\ desiredRunning'
    BY <1>1, <2>1 DEF RuntimePlaces, Alive, Disposed, SessionTypes
  <2>3. stopOperation' # 0 => runtimes'[stopOperation'].dispose = "killing"
    BY <2>1 DEF RuntimePlaces, SessionTypes
  <2> QED BY <1>1, <2>1, <2>2, <2>3 DEF RuntimePlaces, Disposed
<1> QED BY <1>2, <1>3, <1>4 DEF RunInv

\* A runtime is disposed of by a stop operation, or by the start that fails.
LEMMA DisposeKeeps ==
    ASSUME RunInv, NEW rs \in [Generation -> RuntimeRecords], NEW g \in Generation, Dispose(rs, g),
           \A h \in Generation \ {g} : rs[h] = runtimes[h],
           rs[g].dispose = runtimes[g].dispose,
           g \in Spawned,
           \/ rs[g].start = runtimes[g].start /\ stopOperation' = g
              /\ runtimes[g].dispose = "no"
           \/ /\ runtimes[g].start \in StartSteps /\ rs[g].start = "failing"
              /\ UNCHANGED stopOperation,
           UNCHANGED startOperation,
           desiredRunning' = desiredRunning \/ runtime' = 0,
           SessionTypes'
    PROVE  RunInv'
<1>0. SessionTypes /\ SpawnOrder /\ RuntimePlaces /\ OneAlive
  BY DEF RunInv
<1>1. /\ \A h \in Generation \ {g} : runtimes'[h] = runtimes[h]
      /\ runtimes'[g].start = rs[g].start
      /\ runtimes'[g].dispose = IF runtimes[g].dispose = "no" THEN "killing"
                                ELSE runtimes[g].dispose
      /\ runtime' = IF runtimes[g].dispose = "no" /\ runtime = g THEN 0 ELSE runtime
  BY DisposeEffect
<1>2. Spawned' = Spawned
  BY <1>1, SameSpawned DEF Spawned, StartSteps
<1>3. SpawnOrder'
  BY <1>2, <1>0 DEF SpawnOrder
<1>4. OneAlive'
  BY <1>0, <1>1, <1>2 DEF OneAlive, Alive, Disposed
<1>5. runtime' # 0 => Alive(runtime)' /\ runtimes'[runtime'].dispose = "no" /\ desiredRunning'
  BY <1>0, <1>1, <1>2 DEF RuntimePlaces, Alive, Disposed, SessionTypes
<1>6. stopOperation' # 0 => runtimes'[stopOperation'].dispose = "killing"
  BY <1>0, <1>1 DEF RuntimePlaces, SessionTypes
<1>7. ASSUME NEW h \in Generation
      PROVE  /\ runtimes'[h].dispose = "no" => h = runtime' \/ h \notin Spawned'
             /\ runtimes'[h].dispose # "no" => h \in Spawned'
             /\ runtimes'[h].start \in StartSteps <=> h = startOperation'
             /\ runtimes'[h].start = "failed" => Disposed(h)'
             /\ runtimes'[h].start = "failing" => runtimes'[h].dispose # "no"
             /\ runtimes'[h].start \in {"save", "unsaved", "ok"} /\ runtimes'[h].dispose = "no" =>
                  runtimes'[h].session # 0
  BY <1>0, <1>1, <1>2 DEF RuntimePlaces, SessionTypes, Disposed, StartSteps
<1>8. ASSUME NEW h \in Generation, runtimes'[h].dispose = "killing"
      PROVE  h = stopOperation' \/ runtimes'[h].start = "failing"
  <2>1. CASE h = g
    BY <1>0, <1>1, <1>8, <2>1 DEF RuntimePlaces, SessionTypes
  <2>2. CASE h # g
    BY <1>0, <1>1, <1>8, <2>2 DEF RuntimePlaces, OneAlive, Alive, Disposed, SessionTypes
  <2> QED BY <2>1, <2>2
<1> QED BY <1>3, <1>4, <1>5, <1>6, <1>7, <1>8 DEF RunInv, RuntimePlaces

\* stopCurrentRuntime() leaves no runtime in place.
LEMMA StopCurrentRuntimeKeeps ==
    ASSUME RunInv, NEW c, NEW call, StopCurrentRuntime(c, call), SessionTypes'
    PROVE  RunInv' /\ runtime' = 0
<1>0. SessionTypes /\ RuntimePlaces /\ OneAlive
  BY DEF RunInv
<1>1. CASE stopOperation = 0 /\ runtime # 0
  <2>1. /\ runtime \in Generation /\ runtimes[runtime].dispose = "no" /\ runtime \in Spawned
        /\ Dispose(runtimes, runtime) /\ stopOperation' = runtime /\ startOperation' = startOperation
    BY <1>0, <1>1 DEF StopCurrentRuntime, SessionTypes, RuntimePlaces, Alive
  <2>2. runtime' = 0
    BY <1>0, <2>1, DisposeEffect DEF SessionTypes
  <2> QED BY <1>0, <2>1, <2>2, DisposeKeeps DEF SessionTypes
<1>2. CASE ~ (stopOperation = 0 /\ runtime # 0)
  <2>1. UNCHANGED <<runtimes, runtime, stopOperation, startOperation>>
    BY <1>2 DEF StopCurrentRuntime
  <2>2. runtime = 0
    <3>1. SUFFICES ASSUME runtime # 0, stopOperation # 0 PROVE FALSE
      BY <1>2
    <3>2. Alive(stopOperation) /\ Alive(runtime) /\ runtime # stopOperation
      BY <1>0, <3>1 DEF RuntimePlaces, Alive, Disposed, SessionTypes
    <3> QED BY <1>0, <3>1, <3>2 DEF OneAlive, SessionTypes
  <2>3. Spawned' = Spawned
    BY <2>1 DEF Spawned
  <2>4. SpawnOrder' /\ OneAlive'
    BY <2>1, <2>3 DEF RunInv, SpawnOrder, OneAlive, Alive, Disposed
  <2>5. RuntimePlaces'
    BY <1>0, <2>1, <2>2, <2>3 DEF RuntimePlaces, Alive, Disposed
  <2> QED BY <2>1, <2>2, <2>4, <2>5 DEF RunInv
<1> QED BY <1>1, <1>2

\* startOwnedRuntime() runs when no agent is alive, so its own is the only one.
LEMMA StartOwnedRuntimeKeeps ==
    ASSUME AcpAssumption, RunInv, NEW c, StartOwnedRuntime(c), ShouldRun(calls[c].epoch),
           runtime # 0 => runtimes[runtime].session = 0,
           startOperation = 0, stopOperation = 0, SessionTypes'
    PROVE  /\ RunInv' /\ runtime' \notin Spawned /\ runtime = 0
           /\ Spawned' = Spawned \cup {runtime'} /\ runtime' \in Generation
           /\ \A h \in Generation : ~Alive(h)
           /\ \A h \in Generation : Alive(h)' <=> h = runtime'
           /\ runtimes'[runtime'].session = 0
<1>0. SessionTypes /\ RuntimePlaces /\ OneAlive /\ SpawnOrder
  BY DEF RunInv
<1>1. runtime = 0
  BY <1>0 DEF RuntimePlaces, SessionTypes, StartSteps, RuntimeRecords, Alive, Spawned
<1>2. ASSUME NEW h \in Generation PROVE ~Alive(h)
  <2>1. runtimes[h].dispose \in {"no", "killing", "over", "failed"} /\ h # 0
    BY <1>0 DEF SessionTypes, RuntimeRecords, Generation
  <2>2. runtimes[h].start # "failing"
    BY <1>0, <2>1 DEF RuntimePlaces, StartSteps
  <2> QED BY <1>0, <1>1, <2>1, <2>2 DEF RuntimePlaces, Alive, Disposed
<1>3. PICK n \in 0 .. MaxRuntimes : Spawned = 1 .. n
  BY <1>0 DEF SpawnOrder
<1>4. Cardinality(Spawned) = n
  BY <1>3, FS_Interval DEF AcpAssumption
<1>5. /\ runtime' = n + 1 /\ startOperation' = n + 1 /\ UNCHANGED stopOperation
      /\ n + 1 \in Generation /\ desiredRunning' = desiredRunning /\ desiredRunning
      /\ runtimes' = [runtimes EXCEPT ![n + 1] =
                        [NoRuntime EXCEPT !.start = "open", !.epoch = calls[c].epoch]]
  BY <1>4 DEF StartOwnedRuntime, ShouldRun, resumeRest
<1>6. /\ runtimes'[n + 1].start = "open" /\ runtimes'[n + 1].dispose = "no"
      /\ runtimes'[n + 1].session = 0
      /\ \A h \in Generation \ {n + 1} : runtimes'[h] = runtimes[h]
      /\ n + 1 \notin Spawned
  BY <1>0, <1>3, <1>5 DEF SessionTypes, NoRuntime, AcpAssumption
<1>7. Spawned' = Spawned \cup {n + 1}
  BY <1>5, <1>6 DEF Spawned
<1>8. SpawnOrder'
  <2>1. n + 1 \in 0 .. MaxRuntimes /\ Spawned' = 1 .. (n + 1)
    BY <1>3, <1>5, <1>7 DEF AcpAssumption, Generation
  <2> QED BY <2>1 DEF SpawnOrder
<1>9. \A h \in Generation : Alive(h)' <=> h = n + 1
  BY <1>2, <1>5, <1>6, <1>7 DEF Alive, Disposed
<1>10. OneAlive'
  BY <1>9 DEF OneAlive
<1>11. RuntimePlaces'
  <2>1. runtime' # 0 => Alive(runtime)' /\ runtimes'[runtime'].dispose = "no" /\ desiredRunning'
    BY <1>5, <1>6, <1>9
  <2>2. \A h \in Generation \ {n + 1} :
          runtimes[h].start \notin StartSteps /\ (h \in Spawned => Disposed(h))
    BY <1>0, <1>2 DEF RuntimePlaces, Alive, Generation
  <2> QED BY <1>0, <1>5, <1>6, <1>7, <2>1, <2>2 DEF RuntimePlaces, Disposed, StartSteps
<1> QED BY <1>1, <1>2, <1>5, <1>6, <1>7, <1>8, <1>9, <1>10, <1>11 DEF RunInv

RunsInv == RunInv /\ StartWrites

\* The types of what a lifecycle call writes.
LEMMA GoesTypes ==
    ASSUME SessionTypes, NEW c \in Call \cup Turn, NEW call \in CallRecords,
           NEW at \in {"over", "stop", "pointer", "clear", "ensure", "ensureStart", "ensureStop"},
           Goes(c, call, at), UNCHANGED <<desiredRunning, lifecycleEpoch>>
    PROVE  /\ calls' \in [Call \cup Turn -> CallRecords] /\ stopped' \in BOOLEAN
           /\ desiredRunning' \in BOOLEAN /\ lifecycleEpoch' \in Nat
<1>1. (IF at = "over" THEN NoCall ELSE [call EXCEPT !.at = at]) \in CallRecords
  BY DEF CallRecords, NoCall
<1>2. stopped' \in BOOLEAN
  BY DEF Goes, SessionTypes
<1> QED BY <1>1, <1>2 DEF Goes, SessionTypes

\* A lifecycle call that goes on by itself.
LEMMA QuietCallKeeps ==
    ASSUME RunsInv, NEW c \in Call \cup Turn, NEW call \in CallRecords,
           NEW at \in {"over", "stop", "pointer", "clear", "ensure", "ensureStart", "ensureStop"},
           Goes(c, call, at), UNCHANGED <<desiredRunning, lifecycleEpoch>>,
           UNCHANGED operationVars, UNCHANGED <<skipStored, pointerEpoch>>, file' \in Nat,
           writes' \in Seq(WriteRecords), DOMAIN writes' = DOMAIN writes,
           \A i \in DOMAIN writes : 0 \in writes'[i].waiters => 0 \in writes[i].waiters
    PROVE  RunsInv'
<1>1. SessionTypes'
  BY GoesTypes DEF RunsInv, RunInv, SessionTypes, operationVars
<1>2. RunInv'
  BY <1>1, SessionStays DEF RunsInv, RunInv, operationVars, SessionTypes
<1>3. StartWrites'
  BY DEF RunsInv, StartWrites, operationVars
<1> QED BY <1>2, <1>3 DEF RunsInv

\* A call whose stop is over goes on, and waits for the writes of the pointer.
LEMMA StoppedKeeps ==
    ASSUME AcpAssumption, RunsInv, NEW c \in Call \cup Turn, Stopped(c)
    PROVE  RunsInv'
<1> DEFINE call == calls[c]
           fails == call.stops # 0 /\ runtimes[call.stops].dispose = "failed"
           next == [call EXCEPT !.failed = fails, !.stops = 0, !.starts = 0]
           at == CASE call.kind = "restart" -> "pointer"
                  [] call.kind = "discard" /\ ~fails -> "pointer"
                  [] call.kind = "recover" /\ ~fails -> "ensure"
                  [] OTHER -> "over"
<1>1. call \in CallRecords
  BY DEF RunsInv, RunInv, SessionTypes
<1>2. fails \in BOOLEAN
  OBVIOUS
<1> HIDE DEF fails
<1>3. next \in CallRecords
  BY <1>1, <1>2 DEF CallRecords, next
<1>4. at \in {"over", "pointer", "ensure"}
  OBVIOUS
<1>5. Goes(c, next, at) /\ writes' = [i \in DOMAIN writes |-> [writes[i] EXCEPT !.waiters = @ \cup {c}]]
      /\ UNCHANGED <<resumeRest, operationVars, file, skipStored, pointerEpoch>>
  BY DEF Stopped, fails
<1> HIDE DEF next, at
<1>6. /\ writes' \in Seq(WriteRecords) /\ DOMAIN writes' = DOMAIN writes
      /\ \A i \in DOMAIN writes : 0 \in writes'[i].waiters => 0 \in writes[i].waiters
  <2>1. writes \in Seq(WriteRecords) /\ DOMAIN writes = 1 .. Len(writes) /\ Len(writes) \in Nat
    BY LenProperties DEF RunsInv, RunInv, SessionTypes
  <2>2. c # 0
    BY DEF AcpAssumption, Call
  <2>3. ASSUME NEW i \in 1 .. Len(writes)
        PROVE  /\ writes'[i] \in WriteRecords
               /\ 0 \in writes'[i].waiters => 0 \in writes[i].waiters
    <3>1. writes[i] \in WriteRecords
      BY <2>1, ElementOfSeq
    <3>2. writes'[i] = [writes[i] EXCEPT !.waiters = writes[i].waiters \cup {c}]
      BY <1>5, <2>1
    <3>3. writes[i].waiters \cup {c} \in SUBSET (Call \cup Turn \cup {0})
      BY <3>1 DEF WriteRecords
    <3> QED BY <2>2, <3>1, <3>2, <3>3 DEF WriteRecords
  <2>4. writes' \in [1 .. Len(writes) -> WriteRecords]
    BY <1>5, <2>1, <2>3
  <2> QED BY SMTT(30), <1>5, <2>1, <2>3, <2>4, SeqDef
<1> QED BY <1>3, <1>4, <1>5, <1>6, QuietCallKeeps DEF resumeRest, RunsInv, RunInv, SessionTypes

\* A call that goes on and starts nothing.
LEMMA QuietContinuesKeep ==
    ASSUME RunsInv, NEW c \in Call \cup Turn,
           PointerSettled(c) \/ PointerCleared(c) \/ EnsureAgain(c) \/ EnsureWaits(c)
    PROVE  RunsInv'
<1>0. SessionTypes /\ calls[c] \in CallRecords
  BY DEF RunsInv, RunInv, SessionTypes
<1>1. CASE PointerSettled(c)
  BY <1>0, <1>1, QuietCallKeeps DEF PointerSettled, resumeRest, pointerVars, SessionTypes
<1>2. CASE PointerCleared(c)
  BY <1>0, <1>2, QuietCallKeeps DEF PointerCleared, resumeRest, SessionTypes
<1>3. CASE EnsureAgain(c)
  <2>1. [calls[c] EXCEPT !.stops = 0, !.starts = 0] \in CallRecords
    BY <1>0 DEF CallRecords
  <2> QED BY <1>0, <1>3, <2>1, QuietCallKeeps
             DEF EnsureAgain, resumeRest, pointerVars, SessionTypes
<1>4. CASE EnsureWaits(c)
  <2>1. /\ [calls[c] EXCEPT !.starts = startOperation] \in CallRecords
        /\ [calls[c] EXCEPT !.stops = stopOperation] \in CallRecords
    BY <1>0 DEF CallRecords, SessionTypes
  <2> QED BY <1>0, <1>4, <2>1, QuietCallKeeps
             DEF EnsureWaits, resumeRest, pointerVars, SessionTypes
<1> QED BY <1>1, <1>2, <1>3, <1>4

\* A call that starts a runtime.
LEMMA EnsureStartsKeeps ==
    ASSUME AcpAssumption, RunsInv, NEW c \in Call \cup Turn, EnsureStarts(c)
    PROVE  /\ RunsInv' /\ runtime' \notin Spawned /\ runtime = 0
           /\ Spawned' = Spawned \cup {runtime'} /\ runtime' \in Generation
           /\ \A h \in Generation : ~Alive(h)
           /\ \A h \in Generation : Alive(h)' <=> h = runtime'
           /\ runtimes'[runtime'].session = 0
<1>0. SessionTypes /\ calls[c] \in CallRecords
  BY DEF RunsInv, RunInv, SessionTypes
<1>1. PICK g \in Generation :
        /\ runtimes' = [runtimes EXCEPT ![g] =
                          [NoRuntime EXCEPT !.start = "open", !.epoch = calls[c].epoch]]
        /\ runtime' = g /\ startOperation' = g
        /\ Goes(c, [calls[c] EXCEPT !.starts = g], "ensureStart")
        /\ UNCHANGED <<resumeRest, pointerVars, stopOperation>>
  BY DEF EnsureStarts, StartOwnedRuntime
<1>2. [NoRuntime EXCEPT !.start = "open", !.epoch = calls[c].epoch] \in RuntimeRecords
  BY <1>0 DEF NoRuntime, RuntimeRecords, CallRecords, StartSteps
<1>3. [calls[c] EXCEPT !.starts = g] \in CallRecords
  BY <1>0 DEF CallRecords
<1>4. SessionTypes'
  BY <1>0, <1>1, <1>2, <1>3, GoesTypes DEF SessionTypes, resumeRest, pointerVars
<1>5. StartWrites'
  BY <1>1 DEF EnsureStarts, RunsInv, StartWrites, pointerVars
<1> QED BY <1>4, <1>5, StartOwnedRuntimeKeeps DEF EnsureStarts, RunsInv

\* What a call of stopCurrentRuntime() leaves of the calls.
LEMMA StopCurrentRuntimeTypes ==
    ASSUME SessionTypes, NEW c, NEW call \in CallRecords, StopCurrentRuntime(c, call)
    PROVE  /\ calls' \in [Call \cup Turn -> CallRecords]
           /\ runtimes' \in [Generation -> RuntimeRecords]
           /\ runtime' \in Generation \cup {0} /\ stopOperation' \in Generation \cup {0}
           /\ startOperation' = startOperation
           /\ \A g \in Generation : /\ runtimes'[g].start = runtimes[g].start
                                    /\ runtimes'[g].epoch = runtimes[g].epoch
                                    /\ runtimes'[g].pointer = runtimes[g].pointer
<1>1. calls' \in [Call \cup Turn -> CallRecords]
  <2>1. [[call EXCEPT !.at = "stop", !.starts = startOperation] EXCEPT
            !.stops = IF stopOperation # 0 THEN stopOperation ELSE runtime] \in CallRecords
    BY DEF CallRecords, SessionTypes
  <2> QED BY <2>1 DEF StopCurrentRuntime, SessionTypes
<1>2. CASE stopOperation = 0 /\ runtime # 0
  <2>1. /\ runtime \in Generation /\ Dispose(runtimes, runtime) /\ stopOperation' = runtime
        /\ startOperation' = startOperation
    BY <1>2 DEF StopCurrentRuntime, SessionTypes
  <2> QED BY <1>1, <2>1, DisposeEffect DEF SessionTypes
<1>3. CASE ~ (stopOperation = 0 /\ runtime # 0)
  BY <1>1, <1>3 DEF StopCurrentRuntime, SessionTypes
<1> QED BY <1>2, <1>3

\* setDesiredRunning() begins a new epoch, or changes nothing.
LEMMA SetDesiredTypes ==
    ASSUME SessionTypes, NEW desired \in BOOLEAN, NEW force \in BOOLEAN,
           SetDesiredRunning(desired, force)
    PROVE  /\ desiredRunning' = desired /\ stopped' \in BOOLEAN /\ lifecycleEpoch' \in Nat
           /\ lifecycleEpoch <= lifecycleEpoch'
           /\ stopped' => stopped /\ desiredRunning' = desiredRunning /\ lifecycleEpoch' = lifecycleEpoch
           /\ lifecycleEpoch' # lifecycleEpoch => lifecycleEpoch < lifecycleEpoch' /\ ~stopped'
           /\ lifecycleEpoch' = lifecycleEpoch => desired = desiredRunning
<1>0. desiredRunning' = desired /\ lifecycleEpoch \in Nat /\ stopped \in BOOLEAN
  BY DEF SetDesiredRunning, SessionTypes
<1>1. CASE force \/ desiredRunning # desired
  <2>1. lifecycleEpoch' = lifecycleEpoch + 1
    BY <1>1 DEF SetDesiredRunning
  <2>2. stopped' = FALSE
    BY <1>1 DEF SetDesiredRunning
  <2>3. lifecycleEpoch' \in Nat /\ lifecycleEpoch < lifecycleEpoch' /\ lifecycleEpoch' # lifecycleEpoch
        /\ lifecycleEpoch <= lifecycleEpoch'
    BY <1>0, <2>1
  <2> QED BY <1>0, <2>2, <2>3
<1>2. CASE ~ (force \/ desiredRunning # desired)
  <2>1. lifecycleEpoch' = lifecycleEpoch
    BY <1>2 DEF SetDesiredRunning
  <2>4. ~force /\ desiredRunning = desired
    BY <1>2
  <2>5. stopped' \in BOOLEAN /\ (stopped' => stopped)
    BY <1>0 DEF SetDesiredRunning
  <2>2. stopped' \in BOOLEAN /\ (stopped' => stopped) /\ desired = desiredRunning
    BY <2>4, <2>5
  <2>3. lifecycleEpoch' \in Nat /\ lifecycleEpoch <= lifecycleEpoch'
    BY <1>0, <2>1
  <2> QED BY <1>0, <2>1, <2>2, <2>3
<1> QED BY <1>1, <1>2

\* The calls that are asked for are calls.
LEMMA AsksTypes ==
    ASSUME lifecycleEpoch' \in Nat, NEW kind \in {"start", "stop", "restart", "discard"}
    PROVE  /\ Asks(kind) \in CallRecords
           /\ Asks(kind) = [NoCall EXCEPT !.kind = kind, !.epoch = lifecycleEpoch']
           /\ [Asks(kind) EXCEPT !.at = "ensure"] \in CallRecords
BY DEF Asks, NoCall, CallRecords

\* start(), stop(), restart() and discardSession() up to their first await.
LEMMA LifecycleKeeps ==
    ASSUME RunsInv, Start \/ Stop \/ Restart \/ DiscardSession
    PROVE  RunsInv' /\ (Stop \/ Restart \/ DiscardSession => runtime' = 0)
<1>0. SessionTypes /\ RunInv /\ StartWrites
  BY DEF RunsInv, RunInv
<1>1. ASSUME Start PROVE RunsInv'
  <2>1. /\ SetDesiredRunning(TRUE, FALSE) /\ Asks("start") \in CallRecords
        /\ lifecycleEpoch' \in Nat /\ stopped' \in BOOLEAN /\ desiredRunning' = TRUE
    BY <1>0, <1>1, SetDesiredTypes, AsksTypes DEF Start
  <2>2. calls' \in [Call \cup Turn -> CallRecords]
    BY <1>0, <1>1, <2>1, AsksTypes DEF Start, SessionTypes
  <2>3. UNCHANGED <<runtimes, runtime, startOperation, stopOperation, file, writes, skipStored,
                    pointerEpoch>>
    BY <1>1 DEF Start, Calls, operationVars
  <2>4. SessionTypes'
    BY <1>0, <2>1, <2>2, <2>3 DEF SessionTypes
  <2>5. RunInv'
    BY <1>0, <2>1, <2>3, <2>4, SessionStays DEF SessionTypes
  <2> QED BY <1>0, <1>1, <2>3, <2>5 DEF RunsInv, StartWrites
<1>2. ASSUME Stop \/ Restart \/ DiscardSession
      PROVE  RunsInv' /\ runtime' = 0
  <2>1. PICK kind \in {"stop", "restart", "discard"}, desired \in BOOLEAN, force \in BOOLEAN :
          /\ SetDesiredRunning(desired, force)
          /\ StopCurrentRuntime(NextCall, Asks(kind))
    BY <1>2 DEF Stop, Restart, DiscardSession
  <2>2. /\ lifecycleEpoch' \in Nat /\ stopped' \in BOOLEAN /\ desiredRunning' \in BOOLEAN
        /\ Asks(kind) \in CallRecords
    BY <1>0, <2>1, SetDesiredTypes, AsksTypes
  <2>3. /\ UNCHANGED <<file, writes>> /\ skipStored' \in BOOLEAN /\ pointerEpoch' \in Nat
    <3>1. UNCHANGED <<file, writes>>
      BY <1>2 DEF Stop, Restart, DiscardSession, Calls
    <3>2. skipStored' = skipStored \/ skipStored' = TRUE
      BY <1>2 DEF Stop, Restart, DiscardSession, ForgetSession
    <3>3. pointerEpoch' = pointerEpoch \/ pointerEpoch' = pointerEpoch + 1
      BY <1>2 DEF Stop, Restart, DiscardSession, ForgetSession
    <3>4. skipStored' \in BOOLEAN
      BY <1>0, <3>2 DEF SessionTypes
    <3>5. pointerEpoch' \in Nat
      BY <1>0, <3>3 DEF SessionTypes
    <3> QED BY <3>1, <3>4, <3>5
  <2>4. SessionTypes'
    BY <1>0, <2>1, <2>2, <2>3, StopCurrentRuntimeTypes DEF SessionTypes
  <2>5. RunInv' /\ runtime' = 0
    BY <1>0, <2>1, <2>4, StopCurrentRuntimeKeeps
  <2>6. StartWrites'
    BY <1>0, <2>1, <2>2, <2>3, StopCurrentRuntimeTypes DEF StartWrites, SessionTypes
  <2> QED BY <2>5, <2>6 DEF RunsInv
<1> QED BY <1>1, <1>2

\* The writes but the first.
LEMMA WriteTails ==
    ASSUME writes \in Seq(WriteRecords), writes # <<>>
    PROVE  /\ Tail(writes) \in Seq(WriteRecords) /\ writes[1] \in WriteRecords
           /\ 1 \in DOMAIN writes
           /\ \A i \in DOMAIN Tail(writes) : /\ i \in Nat /\ i + 1 \in DOMAIN writes /\ i # 0
                                             /\ Tail(writes)[i] = writes[i + 1]
BY HeadTailProperties, ElementOfSeq

\* A write of the pointer begins, ends or fails, and with it the start that waits for it.
LEMMA WritesKeep ==
    ASSUME RunsInv, WriteBegins \/ WriteEnds \/ WriteFails
    PROVE  RunsInv'
<1>0. SessionTypes /\ RunInv /\ StartWrites /\ RuntimePlaces
  BY DEF RunsInv, RunInv
<1>1. CASE WriteBegins /\ writes[1].epoch = pointerEpoch
  <2>1. /\ writes' = [writes EXCEPT ![1].begun = TRUE] /\ writes[1] \in WriteRecords
        /\ 1 \in DOMAIN writes
        /\ UNCHANGED <<lifecycleVars, operationVars, file, skipStored, pointerEpoch, calls>>
    BY <1>0, <1>1, WriteTails DEF WriteBegins, SessionTypes
  <2>2. /\ writes' \in Seq(WriteRecords) /\ DOMAIN writes' = DOMAIN writes
        /\ \A i \in DOMAIN writes : writes'[i].waiters = writes[i].waiters
    <3>1. [writes[1] EXCEPT !.begun = TRUE] \in WriteRecords
      BY <2>1 DEF WriteRecords
    <3>2. writes' = [writes EXCEPT ![1] = [writes[1] EXCEPT !.begun = TRUE]]
      BY <2>1
    <3> QED BY SMTT(30), <1>0, <2>1, <3>1, <3>2, ExceptSeq DEF SessionTypes, WriteRecords
  <2>3. SessionTypes'
    BY <1>0, <2>1, <2>2 DEF SessionTypes, lifecycleVars, operationVars
  <2>4. RunInv'
    BY <1>0, <2>1, <2>3, SessionStays DEF SessionTypes, lifecycleVars, operationVars
  <2>5. StartWrites'
    BY <1>0, <2>1, <2>2 DEF StartWrites, operationVars
  <2> QED BY <2>4, <2>5 DEF RunsInv
<1>2. CASE ~ (WriteBegins /\ writes[1].epoch = pointerEpoch)
  <2>1. /\ writes # <<>> /\ writes' = Tail(writes) /\ file' \in Nat
        /\ UNCHANGED <<lifecycleVars, runtime, startOperation, stopOperation, skipStored,
                       pointerEpoch, calls>>
    BY <1>0, <1>2, WriteTails
       DEF WriteBegins, WriteEnds, WriteFails, operationVars, SessionTypes, WriteRecords
  <2>2. /\ writes' \in Seq(WriteRecords) /\ writes[1] \in WriteRecords /\ 1 \in DOMAIN writes
        /\ \A i \in DOMAIN writes' : /\ i \in Nat /\ i + 1 \in DOMAIN writes /\ i # 0
                                     /\ writes'[i] = writes[i + 1]
    BY <1>0, <2>1, WriteTails DEF SessionTypes
  <2>3. CASE WriteFails /\ 0 \in writes[1].waiters
    <3>1. /\ startOperation \in Generation /\ runtimes[startOperation].start = "save"
          /\ runtimes' = [runtimes EXCEPT ![startOperation] =
                            [runtimes[startOperation] EXCEPT !.start = "unsaved"]]
      BY <1>0, <2>2, <2>3 DEF WriteFails, StartWrites, SessionTypes
    <3>2. /\ runtimes' \in [Generation -> RuntimeRecords]
          /\ runtimes'[startOperation].start = "unsaved"
          /\ runtimes'[startOperation].dispose = runtimes[startOperation].dispose
          /\ runtimes'[startOperation].session = runtimes[startOperation].session
          /\ \A h \in Generation \ {startOperation} : runtimes'[h] = runtimes[h]
      BY <1>0, <3>1 DEF SessionTypes, RuntimeRecords, StartSteps
    <3>3. SessionTypes'
      BY <1>0, <2>1, <2>2, <3>2 DEF SessionTypes, lifecycleVars
    <3>4. Spawned' = Spawned
      BY <3>1, <3>2 DEF Spawned
    <3>5. SpawnOrder' /\ OneAlive'
      BY <1>0, <3>2, <3>4 DEF RunInv, SpawnOrder, OneAlive, Alive, Disposed
    <3>6. RuntimePlaces'
      <4>1. runtime' # 0 => Alive(runtime)' /\ runtimes'[runtime'].dispose = "no" /\ desiredRunning'
        BY <1>0, <2>1, <3>2, <3>4 DEF RuntimePlaces, Alive, Disposed, SessionTypes, lifecycleVars
      <4>2. stopOperation' # 0 => runtimes'[stopOperation'].dispose = "killing"
        BY <1>0, <2>1, <3>2 DEF RuntimePlaces, SessionTypes
      <4> QED BY <1>0, <2>1, <3>1, <3>2, <3>4, <4>1, <4>2 DEF RuntimePlaces, Disposed, StartSteps
    <3>7. StartWrites'
      BY <1>0, <2>2, <2>3 DEF StartWrites
    <3> QED BY <3>3, <3>5, <3>6, <3>7 DEF RunsInv, RunInv
  <2>4. CASE ~ (WriteFails /\ 0 \in writes[1].waiters)
    <3>1. runtimes' = runtimes
      BY <1>2, <2>4 DEF WriteBegins, WriteEnds, WriteFails, operationVars
    <3>2. SessionTypes'
      BY <1>0, <2>1, <2>2, <3>1 DEF SessionTypes, lifecycleVars
    <3>3. RunInv'
      BY <1>0, <2>1, <3>1, <3>2, SessionStays DEF SessionTypes, lifecycleVars
    <3>4. StartWrites'
      BY <1>0, <2>1, <2>2, <3>1 DEF StartWrites
    <3> QED BY <3>3, <3>4 DEF RunsInv
  <2> QED BY <2>3, <2>4
<1> QED BY <1>1, <1>2

\* A process tree is reaped, or given up.
LEMMA RuntimeEnds ==
    ASSUME RunsInv, NEW g \in Generation, DisposeEnds(g)
    PROVE  RunsInv'
<1>0. SessionTypes /\ SpawnOrder /\ RuntimePlaces /\ OneAlive /\ StartWrites
  BY DEF RunsInv, RunInv
<1>1. /\ runtimes[g].dispose = "killing" /\ stopOperation' = IF stopOperation = g THEN 0 ELSE stopOperation
      /\ UNCHANGED <<lifecycleVars, runtime, startOperation, pointerVars, calls>>
      /\ runtimes' = [runtimes EXCEPT ![g].dispose = "over"]
         \/ runtimes' = [runtimes EXCEPT ![g].dispose = "failed"]
  BY DEF DisposeEnds
<1>2. /\ runtimes' \in [Generation -> RuntimeRecords]
      /\ runtimes'[g].dispose \in {"over", "failed"}
      /\ \A h \in Generation \ {g} : runtimes'[h] = runtimes[h]
      /\ runtimes'[g].start = runtimes[g].start
      /\ runtimes'[g].pointer = runtimes[g].pointer
      /\ runtimes'[g].session = runtimes[g].session
  <2>1. runtimes[g] \in RuntimeRecords
    BY <1>0 DEF SessionTypes
  <2>2. /\ [runtimes[g] EXCEPT !.dispose = "over"] \in RuntimeRecords
        /\ [runtimes[g] EXCEPT !.dispose = "failed"] \in RuntimeRecords
    BY <2>1 DEF RuntimeRecords
  <2>3. CASE runtimes' = [runtimes EXCEPT ![g].dispose = "over"]
    BY <1>0, <2>1, <2>2, <2>3 DEF SessionTypes, RuntimeRecords
  <2>4. CASE runtimes' = [runtimes EXCEPT ![g].dispose = "failed"]
    BY <1>0, <2>1, <2>2, <2>4 DEF SessionTypes, RuntimeRecords
  <2> QED BY <1>1, <2>3, <2>4
<1>3. SessionTypes'
  BY <1>0, <1>1, <1>2 DEF SessionTypes, lifecycleVars, pointerVars
<1>4. Spawned' = Spawned
  BY <1>2, SameSpawned
<1>5. SpawnOrder'
  BY <1>0, <1>4 DEF SpawnOrder
<1>6. OneAlive' /\ \A h \in Generation : Alive(h)' => Alive(h) /\ h # g
  BY <1>0, <1>2, <1>4 DEF OneAlive, Alive, Disposed
<1>7. RuntimePlaces'
  <2>1. runtime' # 0 => Alive(runtime)' /\ runtimes'[runtime'].dispose = "no" /\ desiredRunning'
    BY <1>0, <1>1, <1>2, <1>4 DEF RuntimePlaces, Alive, Disposed, SessionTypes, lifecycleVars
  <2>2. stopOperation' # 0 => runtimes'[stopOperation'].dispose = "killing"
    BY <1>0, <1>1, <1>2 DEF RuntimePlaces, SessionTypes
  <2>3. g # runtime
    <3>1. SUFFICES ASSUME g = runtime PROVE FALSE
      OBVIOUS
    <3>2. runtime # 0
      BY <3>1 DEF Generation
    <3> QED BY <1>0, <1>1, <3>1, <3>2 DEF RuntimePlaces
  <2> QED BY <1>0, <1>1, <1>2, <1>4, <2>1, <2>2, <2>3 DEF RuntimePlaces, Disposed
<1>8. StartWrites'
  BY <1>0, <1>1, <1>2 DEF StartWrites, pointerVars, SessionTypes
<1> QED BY <1>3, <1>5, <1>6, <1>7, <1>8 DEF RunsInv, RunInv

\* An agent that exits by itself is disposed of by a stop operation: there is none yet.
LEMMA RuntimeExitsKeeps ==
    ASSUME RunsInv, NEW g \in Generation, RuntimeExits(g)
    PROVE  RunsInv'
<1>0. SessionTypes /\ RunInv /\ StartWrites /\ RuntimePlaces /\ OneAlive
  BY DEF RunsInv, RunInv
<1>1. /\ g \in Spawned /\ runtimes[g].dispose = "no" /\ Dispose(runtimes, g)
      /\ UNCHANGED <<lifecycleVars, startOperation, pointerVars, calls>>
  BY DEF RuntimeExits
<1>2. stopOperation' = g
  <2>1. stopOperation # 0 => FALSE
    <3>1. SUFFICES ASSUME stopOperation # 0 PROVE FALSE
      OBVIOUS
    <3>2. Alive(stopOperation) /\ Alive(g) /\ g # stopOperation /\ stopOperation \in Generation
      BY <1>0, <1>1, <3>1 DEF RuntimePlaces, Alive, Disposed, SessionTypes
    <3> QED BY <1>0, <3>2 DEF OneAlive
  <2> QED BY <2>1 DEF RuntimeExits
<1>3. SessionTypes'
  BY <1>0, <1>1, <1>2, DisposeEffect DEF SessionTypes, lifecycleVars, pointerVars
<1>4. RunInv'
  BY <1>0, <1>1, <1>2, <1>3, DisposeKeeps DEF SessionTypes, lifecycleVars
<1>5. StartWrites'
  BY <1>0, <1>1, DisposeEffect DEF StartWrites, pointerVars, SessionTypes
<1> QED BY <1>4, <1>5 DEF RunsInv

\* A start that fails disposes of its runtime.
LEMMA FailingKeeps ==
    ASSUME RunsInv, NEW g \in Generation, NEW session \in Nat,
           Dispose([runtimes EXCEPT ![g] = [runtimes[g] EXCEPT !.start = "failing",
                                              !.session = session]], g),
           runtimes[g].start \in {"open", "unsaved"},
           UNCHANGED <<lifecycleVars, startOperation, stopOperation, pointerVars, calls>>
    PROVE  RunsInv'
<1>0. SessionTypes /\ RunInv /\ StartWrites /\ RuntimePlaces
  BY DEF RunsInv, RunInv
<1> DEFINE failing == [runtimes[g] EXCEPT !.start = "failing", !.session = session]
           rs == [runtimes EXCEPT ![g] = failing]
<1>1. failing \in RuntimeRecords /\ failing.start = "failing" /\ failing.dispose = runtimes[g].dispose
  BY <1>0 DEF SessionTypes, RuntimeRecords, StartSteps
<1> HIDE DEF failing
<1>2. /\ rs \in [Generation -> RuntimeRecords] /\ rs[g] = failing
      /\ \A h \in Generation \ {g} : rs[h] = runtimes[h]
  BY <1>0, <1>1 DEF SessionTypes
<1>3. Dispose(rs, g)
  BY DEF failing
<1> HIDE DEF rs
<1>4. SessionTypes'
  BY <1>0, <1>2, <1>3, DisposeEffect DEF SessionTypes, lifecycleVars, pointerVars
<1>5. g \in Spawned /\ runtimes[g].start \in StartSteps /\ g = startOperation
  BY <1>0 DEF Spawned, StartSteps, RuntimePlaces
<1>6. RunInv'
  BY <1>0, <1>1, <1>2, <1>3, <1>4, <1>5, DisposeKeeps DEF lifecycleVars
<1>7. StartWrites'
  BY <1>0, <1>5 DEF StartWrites, pointerVars
<1> QED BY <1>6, <1>7 DEF RunsInv

\* The handshake fails, or the pointer could not be saved.
LEMMA StartFailsKeeps ==
    ASSUME RunsInv, NEW g \in Generation, StartFails(g) \/ PointerNotSaved(g)
    PROVE  RunsInv'
<1>1. runtimes[g] \in RuntimeRecords
  BY DEF RunsInv, RunInv, SessionTypes
<1>2. [runtimes EXCEPT ![g].start = "failing"]
       = [runtimes EXCEPT ![g] = [runtimes[g] EXCEPT !.start = "failing",
                                                     !.session = runtimes[g].session]]
  BY <1>1 DEF RuntimeRecords
<1>3. /\ Dispose([runtimes EXCEPT ![g].start = "failing"], g)
      /\ runtimes[g].start \in {"open", "unsaved"}
      /\ UNCHANGED <<lifecycleVars, startOperation, stopOperation, pointerVars, calls>>
  BY DEF StartFails, PointerNotSaved, startRest
<1>4. runtimes[g].session \in Nat
  BY <1>1 DEF RuntimeRecords
<1> QED BY <1>2, <1>3, <1>4, FailingKeeps

\* The start of a runtime is over.
LEMMA StartOverKeeps ==
    ASSUME RunsInv, NEW g \in Generation, NEW record \in RuntimeRecords,
           runtimes' = [runtimes EXCEPT ![g] = record], startOperation' = 0,
           runtimes[g].start \in StartSteps,
           \A i \in DOMAIN writes : 0 \notin writes[i].waiters,
           record.dispose = runtimes[g].dispose,
           \/ record.start = "failed" /\ Disposed(g)
           \/ record.start = "ok" /\ (record.dispose = "no" => record.session # 0)
              /\ runtimes[g].start # "failing",
           UNCHANGED <<lifecycleVars, runtime, stopOperation, file, writes, pointerEpoch, calls>>,
           skipStored' \in BOOLEAN
    PROVE  RunsInv'
<1>0. SessionTypes /\ SpawnOrder /\ RuntimePlaces /\ OneAlive /\ StartWrites
  BY DEF RunsInv, RunInv
<1>1. /\ runtimes' \in [Generation -> RuntimeRecords] /\ runtimes'[g] = record
      /\ \A h \in Generation \ {g} : runtimes'[h] = runtimes[h]
  BY <1>0 DEF SessionTypes
<1>2. SessionTypes'
  BY <1>0, <1>1 DEF SessionTypes, lifecycleVars
<1>3. Spawned' = Spawned /\ g = startOperation /\ g \in Spawned
  BY <1>0, <1>1 DEF Spawned, StartSteps, RuntimePlaces
<1>4. SpawnOrder' /\ OneAlive'
  BY <1>0, <1>1, <1>3 DEF SpawnOrder, OneAlive, Alive, Disposed
<1>5. RuntimePlaces'
  <2>1. runtime' # 0 => Alive(runtime)' /\ runtimes'[runtime'].dispose = "no" /\ desiredRunning'
    BY <1>0, <1>1, <1>3 DEF RuntimePlaces, Alive, Disposed, SessionTypes, lifecycleVars
  <2>2. stopOperation' # 0 => runtimes'[stopOperation'].dispose = "killing"
    BY <1>0, <1>1 DEF RuntimePlaces, SessionTypes
  <2>3. ASSUME NEW h \in Generation
        PROVE  /\ runtimes'[h].start \in StartSteps <=> h = startOperation'
               /\ runtimes'[h].start = "failed" => Disposed(h)'
               /\ runtimes'[h].start = "failing" => runtimes'[h].dispose # "no"
               /\ runtimes'[h].start \in {"save", "unsaved", "ok"} /\ runtimes'[h].dispose = "no" =>
                    runtimes'[h].session # 0
    BY <1>0, <1>1, <1>3 DEF RuntimePlaces, Disposed, StartSteps, Generation
  <2>4. ASSUME NEW h \in Generation
        PROVE  /\ runtimes'[h].dispose = "no" => h = runtime' \/ h \notin Spawned'
               /\ runtimes'[h].dispose = "killing" =>
                    h = stopOperation' \/ runtimes'[h].start = "failing"
               /\ runtimes'[h].dispose # "no" => h \in Spawned'
    BY <1>0, <1>1, <1>3 DEF RuntimePlaces, Disposed
  <2> QED BY <2>1, <2>2, <2>3, <2>4 DEF RuntimePlaces
<1>6. StartWrites'
  BY DEF StartWrites
<1> QED BY <1>2, <1>4, <1>5, <1>6 DEF RunsInv, RunInv

\* The pointer is saved, or the runtime of a failed start is gone.
LEMMA StartOverSteps ==
    ASSUME RunsInv, NEW g \in Generation, PointerSaved(g) \/ StartFailed(g)
    PROVE  RunsInv'
<1>0. SessionTypes /\ RuntimePlaces /\ StartWrites /\ runtimes[g] \in RuntimeRecords
  BY DEF RunsInv, RunInv, SessionTypes
<1>1. CASE PointerSaved(g)
  <2> DEFINE record == [runtimes[g] EXCEPT !.start = "ok", !.epoch = 0, !.pointer = 0]
  <2>1. /\ record \in RuntimeRecords /\ record.start = "ok"
        /\ record.dispose = runtimes[g].dispose /\ record.session = runtimes[g].session
    BY <1>0 DEF RuntimeRecords
  <2>2. /\ runtimes' = [runtimes EXCEPT ![g] = record] /\ startOperation' = 0
        /\ runtimes[g].start = "save" /\ \A i \in DOMAIN writes : 0 \notin writes[i].waiters
        /\ UNCHANGED <<lifecycleVars, runtime, stopOperation, file, writes, pointerEpoch, calls>>
    BY <1>0, <1>1 DEF PointerSaved, Saved, startRest, SessionTypes
  <2>3. skipStored' \in BOOLEAN
    BY <1>1, <1>0 DEF PointerSaved, SessionTypes
  <2>4. record.dispose = "no" => record.session # 0
    BY <1>0, <2>1, <2>2 DEF RuntimePlaces
  <2> HIDE DEF record
  <2> QED BY <2>1, <2>2, <2>3, <2>4, StartOverKeeps DEF StartSteps
<1>2. CASE StartFailed(g)
  <2> DEFINE record == [runtimes[g] EXCEPT !.start = "failed"]
  <2>1. /\ record \in RuntimeRecords /\ record.start = "failed"
        /\ record.dispose = runtimes[g].dispose
    BY <1>0 DEF RuntimeRecords
  <2>2. /\ runtimes' = [runtimes EXCEPT ![g] = record] /\ startOperation' = 0
        /\ runtimes[g].start = "failing" /\ Disposed(g)
        /\ UNCHANGED <<lifecycleVars, runtime, stopOperation, file, writes, pointerEpoch, calls, skipStored>>
    BY <1>2 DEF StartFailed, startRest, pointerVars
  <2>3. \A i \in DOMAIN writes : 0 \notin writes[i].waiters
    BY <1>0, <2>2 DEF StartWrites, RuntimePlaces, StartSteps
  <2> HIDE DEF record
  <2> QED BY <1>0, <2>1, <2>2, <2>3, StartOverKeeps DEF StartSteps, SessionTypes
<1> QED BY <1>1, <1>2

\* A write joins the others.
LEMMA WriteAppended ==
    ASSUME writes \in Seq(WriteRecords), NEW record \in WriteRecords,
           writes' = Append(writes, record)
    PROVE  /\ writes' \in Seq(WriteRecords) /\ Len(writes) \in Nat
           /\ DOMAIN writes = 1 .. Len(writes) /\ DOMAIN writes' = 1 .. (Len(writes) + 1)
           /\ \A i \in DOMAIN writes : i \in DOMAIN writes' /\ writes'[i] = writes[i]
           /\ writes'[Len(writes) + 1] = record
           /\ \A i \in DOMAIN writes' : i \in DOMAIN writes \/ i = Len(writes) + 1
<1>1. Len(writes) \in Nat /\ DOMAIN writes = 1 .. Len(writes)
  BY LenProperties
<1>2. /\ writes' \in Seq(WriteRecords) /\ Len(writes') = Len(writes) + 1
      /\ \A i \in 1 .. Len(writes) : writes'[i] = writes[i]
      /\ writes'[Len(writes) + 1] = record
  BY AppendProperties
<1>3. DOMAIN writes' = 1 .. (Len(writes) + 1)
  BY <1>2, LenProperties
<1> QED BY <1>1, <1>2, <1>3

Superseded(g) == runtime # g \/ runtimes[g].dispose # "no" \/ ~ShouldRun(runtimes[g].epoch)

\* What opening a session does: the start fails, is over, or saves its pointer.
LEMMA SessionOpensEffect ==
    ASSUME RunsInv, NEW g \in Generation, SessionOpens(g)
    PROVE  /\ runtimes[g].start = "open"
           /\ UNCHANGED <<lifecycleVars, stopOperation, calls, forgotten>>
           /\ \/ \E session \in Nat :
                   /\ Dispose([runtimes EXCEPT ![g] = [runtimes[g] EXCEPT !.start = "failing",
                                                         !.session = session]], g)
                   /\ UNCHANGED <<startOperation, pointerVars>>
              \/ /\ ~Superseded(g) /\ file # 0 /\ ~skipStored
                 /\ runtimes' = [runtimes EXCEPT ![g] = [runtimes[g] EXCEPT !.start = "ok",
                                   !.session = file, !.epoch = 0]]
                 /\ startOperation' = 0
                 /\ UNCHANGED <<runtime, lockVars, pointerVars>>
              \/ /\ ~Superseded(g)
                 /\ runtimes' = [runtimes EXCEPT ![g] = [runtimes[g] EXCEPT !.start = "save",
                                   !.session = g, !.pointer = pointerEpoch]]
                 /\ writes' = Append(writes, [session |-> g, epoch |-> pointerEpoch,
                                              begun |-> FALSE, waiters |-> {0}])
                 /\ UNCHANGED <<runtime, lockVars, startOperation, file, skipStored, pointerEpoch>>
<1>0. runtimes \in [Generation -> RuntimeRecords] /\ file \in Nat
  BY DEF RunsInv, RunInv, SessionTypes
<1>1. PICK restored \in {file # 0 /\ ~skipStored, FALSE} :
        LET session == IF restored THEN file ELSE g
            opened == [runtimes EXCEPT ![g].session = session]
        IN  IF Superseded(g)
            THEN /\ Dispose([opened EXCEPT ![g].start = "failing"], g)
                 /\ UNCHANGED <<startOperation, pointerVars>>
            ELSE /\ UNCHANGED <<runtime, lockVars, consentVars>>
                 /\ IF restored
                    THEN /\ runtimes' = [opened EXCEPT ![g].start = "ok", ![g].epoch = 0]
                         /\ startOperation' = 0 /\ UNCHANGED pointerVars
                    ELSE /\ runtimes' = [opened EXCEPT ![g].start = "save",
                                           ![g].pointer = pointerEpoch]
                         /\ Saves(session, {0}) /\ UNCHANGED startOperation
  BY DEF SessionOpens, Superseded
<1> DEFINE session == IF restored THEN file ELSE g
           opened == [runtimes EXCEPT ![g].session = session]
<1>2. session \in Nat
  BY <1>0 DEF Generation
<1> HIDE DEF session
<1>3. /\ [opened EXCEPT ![g].start = "failing"]
            = [runtimes EXCEPT ![g] = [runtimes[g] EXCEPT !.start = "failing", !.session = session]]
      /\ [opened EXCEPT ![g].start = "ok", ![g].epoch = 0]
            = [runtimes EXCEPT ![g] = [runtimes[g] EXCEPT !.start = "ok", !.session = session,
                                                          !.epoch = 0]]
      /\ [opened EXCEPT ![g].start = "save", ![g].pointer = pointerEpoch]
            = [runtimes EXCEPT ![g] = [runtimes[g] EXCEPT !.start = "save", !.session = session,
                                                          !.pointer = pointerEpoch]]
  BY <1>0 DEF RuntimeRecords
<1> HIDE DEF opened
<1>4. runtimes[g].start = "open" /\ UNCHANGED <<lifecycleVars, stopOperation, calls, forgotten>>
  BY DEF SessionOpens, startRest
<1>5. CASE Superseded(g)
  <2>1. Dispose([opened EXCEPT ![g].start = "failing"], g) /\ UNCHANGED <<startOperation, pointerVars>>
    BY <1>1, <1>5 DEF opened, session
  <2> QED BY <1>2, <1>3, <1>4, <2>1
<1>6. CASE ~Superseded(g) /\ restored
  <2>1. /\ runtimes' = [opened EXCEPT ![g].start = "ok", ![g].epoch = 0]
        /\ startOperation' = 0 /\ UNCHANGED <<runtime, lockVars, pointerVars>>
    BY <1>1, <1>6 DEF opened, session
  <2>2. session = file /\ file # 0 /\ ~skipStored
    BY <1>1, <1>6 DEF session
  <2> QED BY <1>3, <1>4, <1>6, <2>1, <2>2
<1>7. CASE ~Superseded(g) /\ ~restored
  <2>1. /\ runtimes' = [opened EXCEPT ![g].start = "save", ![g].pointer = pointerEpoch]
        /\ Saves(session, {0}) /\ UNCHANGED <<runtime, lockVars, startOperation>>
    BY <1>1, <1>7 DEF opened, session
  <2>2. session = g
    BY <1>7 DEF session
  <2> QED BY <1>3, <1>4, <1>7, <2>1, <2>2 DEF Saves
<1> QED BY <1>5, <1>6, <1>7

\* A session opens: the start fails, is over, or saves its pointer.
LEMMA SessionOpensKeeps ==
    ASSUME RunsInv, NEW g \in Generation, SessionOpens(g)
    PROVE  RunsInv'
<1>0. /\ SessionTypes /\ SpawnOrder /\ RuntimePlaces /\ OneAlive /\ StartWrites
      /\ runtimes[g] \in RuntimeRecords /\ g \in Nat /\ g # 0
  BY DEF RunsInv, RunInv, SessionTypes, Generation
<1>1. /\ runtimes[g].start = "open" /\ g = startOperation /\ g \in Spawned
      /\ UNCHANGED <<lifecycleVars, stopOperation, calls>>
  BY <1>0, SessionOpensEffect DEF RuntimePlaces, StartSteps, Spawned
<1>2. \A i \in DOMAIN writes : 0 \notin writes[i].waiters
  BY <1>0, <1>1 DEF StartWrites
<1>3. ASSUME NEW session \in Nat,
             Dispose([runtimes EXCEPT ![g] = [runtimes[g] EXCEPT !.start = "failing",
                                                !.session = session]], g),
             UNCHANGED <<startOperation, pointerVars>>
      PROVE  RunsInv'
  BY <1>1, <1>3, FailingKeeps
<1>4. ASSUME file # 0, startOperation' = 0, UNCHANGED <<runtime, pointerVars>>,
             runtimes' = [runtimes EXCEPT ![g] = [runtimes[g] EXCEPT !.start = "ok",
                             !.session = file, !.epoch = 0]]
      PROVE  RunsInv'
  <2> DEFINE record == [runtimes[g] EXCEPT !.start = "ok", !.session = file, !.epoch = 0]
  <2>1. /\ record \in RuntimeRecords /\ record.start = "ok"
        /\ record.dispose = runtimes[g].dispose /\ record.session = file
    BY <1>0 DEF RuntimeRecords, SessionTypes
  <2>2. runtimes' = [runtimes EXCEPT ![g] = record]
    BY <1>4
  <2> HIDE DEF record
  <2> QED BY <1>0, <1>1, <1>2, <1>4, <2>1, <2>2, StartOverKeeps
             DEF StartSteps, pointerVars, SessionTypes
<1>5. ASSUME runtimes' = [runtimes EXCEPT ![g] = [runtimes[g] EXCEPT !.start = "save",
                             !.session = g, !.pointer = pointerEpoch]],
             writes' = Append(writes, [session |-> g, epoch |-> pointerEpoch,
                                       begun |-> FALSE, waiters |-> {0}]),
             UNCHANGED <<runtime, startOperation, file, skipStored, pointerEpoch>>
      PROVE  RunsInv'
  <2> DEFINE record == [runtimes[g] EXCEPT !.start = "save", !.session = g, !.pointer = pointerEpoch]
             write == [session |-> g, epoch |-> pointerEpoch, begun |-> FALSE, waiters |-> {0}]
  <2>1. /\ record \in RuntimeRecords /\ record.start = "save"
        /\ record.dispose = runtimes[g].dispose /\ record.session = g
    BY <1>0 DEF RuntimeRecords, SessionTypes, StartSteps
  <2>2. write \in WriteRecords
    BY <1>0 DEF WriteRecords, SessionTypes
  <2>3. runtimes' = [runtimes EXCEPT ![g] = record] /\ writes' = Append(writes, write)
    BY <1>5
  <2> HIDE DEF record, write
  <2>4. /\ runtimes' \in [Generation -> RuntimeRecords] /\ runtimes'[g] = record
        /\ \A h \in Generation \ {g} : runtimes'[h] = runtimes[h]
    BY <1>0, <2>1, <2>3 DEF SessionTypes
  <2>5. /\ writes' \in Seq(WriteRecords)
        /\ \A i \in DOMAIN writes : writes'[i] = writes[i]
        /\ \A i \in DOMAIN writes' : i \in DOMAIN writes \/ i = Len(writes) + 1
    BY <1>0, <2>2, <2>3, WriteAppended DEF SessionTypes
  <2>6. SessionTypes'
    BY <1>0, <1>1, <1>5, <2>4, <2>5 DEF SessionTypes, lifecycleVars
  <2>7. Spawned' = Spawned
    BY <1>1, <2>1, <2>4 DEF Spawned
  <2>8. SpawnOrder' /\ OneAlive'
    BY <1>0, <2>1, <2>4, <2>7 DEF SpawnOrder, OneAlive, Alive, Disposed
  <2>9. RuntimePlaces'
    <3>1. runtime' # 0 => Alive(runtime)' /\ runtimes'[runtime'].dispose = "no" /\ desiredRunning'
      BY <1>0, <1>1, <1>5, <2>1, <2>4, <2>7
         DEF RuntimePlaces, Alive, Disposed, SessionTypes, lifecycleVars
    <3>2. stopOperation' # 0 => runtimes'[stopOperation'].dispose = "killing"
      BY <1>0, <1>1, <2>1, <2>4 DEF RuntimePlaces, SessionTypes
    <3> QED BY <1>0, <1>1, <1>5, <2>1, <2>4, <2>7, <3>1, <3>2
               DEF RuntimePlaces, Disposed, StartSteps
  <2>10. StartWrites'
    BY <1>0, <1>1, <1>2, <1>5, <2>1, <2>4, <2>5 DEF StartWrites
  <2> QED BY <2>6, <2>8, <2>9, <2>10 DEF RunsInv, RunInv
<1> QED BY <1>3, <1>4, <1>5, SessionOpensEffect

\* The steps of turns, but for the restart of an agent that ignores a cancellation.
Restarts(t) == CancellationTimesOut(t) /\ runtime = reserved[t] /\ desiredRunning
TurnStep(t) ==
    \/ \E compacts \in BOOLEAN : Reserve(t, compacts)
    \/ Gives(t) \/ Acquire(t) \/ PromptSettles(t) \/ CallerAborts(t) \/ StreamEnds(t) \/ Retry(t)
    \/ CancellationSettles(t)
    \/ CancellationTimesOut(t) /\ ~(runtime = reserved[t] /\ desiredRunning)
    \/ \E operation \in Operation : RequestPermission(t, operation)
ConsentStep == ConsentExpires \/ \E nonce \in DOMAIN gates, yes \in BOOLEAN : Confirm(nonce, yes)

\* What the steps of turns leave of the session.
SessionRests ==
    UNCHANGED <<lifecycleVars, runtime, startOperation, stopOperation, file, skipStored,
                pointerEpoch, calls, forgotten>>

\* A step of a turn changes of the session only which prompt is active, and asks
\* at most for a write of the runtime's own session, for which nobody waits.
LEMMA TurnStepLeaves ==
    ASSUME SessionTypes, TurnTypes, LockPlaces, NEW t \in Turn, TurnStep(t)
    PROVE  /\ SessionRests
           /\ runtimes' \in [Generation -> RuntimeRecords]
           /\ \A g \in Generation : /\ runtimes'[g].start = runtimes[g].start
                                    /\ runtimes'[g].dispose = runtimes[g].dispose
                                    /\ runtimes'[g].session = runtimes[g].session
                                    /\ runtimes'[g].epoch = runtimes[g].epoch
                                    /\ runtimes'[g].pointer = runtimes[g].pointer
           /\ \/ UNCHANGED writes
              \/ /\ runtime # 0
                 /\ writes' = Append(writes, [session |-> runtimes[runtime].session,
                                              epoch |-> pointerEpoch, begun |-> FALSE,
                                              waiters |-> {}])
<1>0. runtimes \in [Generation -> RuntimeRecords]
  BY DEF SessionTypes
<1>1. CASE \E compacts \in BOOLEAN : Reserve(t, compacts)
  BY <1>0, <1>1 DEF Reserve, SessionRests, notTurns, pointerVars, lifecycleVars
<1>2. CASE Gives(t) \/ CallerAborts(t) \/ CancellationSettles(t)
  BY <1>0, <1>2
     DEF Gives, CallerAborts, CancellationSettles, SessionRests, turnRest, notTurns,
         pointerVars, lifecycleVars
<1>3. CASE Acquire(t) \/ Retry(t)
  <2>1. /\ runtimes' = [runtimes EXCEPT ![reserved[t]].active = t]
        /\ SessionRests /\ UNCHANGED writes
    BY <1>3
       DEF Acquire, Retry, Prompts, SessionRests, turnRest, notTurns, pointerVars, lifecycleVars
  <2>2. ASSUME NEW g \in Generation
        PROVE [runtimes[g] EXCEPT !.active = t] \in RuntimeRecords
    BY <1>0 DEF RuntimeRecords
  <2> QED BY <1>0, <2>1, <2>2 DEF RuntimeRecords
<1>4. CASE StreamEnds(t)
  <2>1. PICK active \in Turn \cup {None} :
           /\ reserved[t] \in Generation
           /\ runtimes' = [runtimes EXCEPT ![reserved[t]] = [runtimes[reserved[t]] EXCEPT !.active = active]]
           /\ SessionRests /\ UNCHANGED writes
    <3>1. reserved[t] \in Generation
      BY <1>4 DEF StreamEnds, TurnTypes, LockPlaces
    <3>2. runtimes[reserved[t]] \in RuntimeRecords
      BY <1>0, <3>1
    <3>3. SessionRests /\ UNCHANGED writes
      BY <1>4 DEF StreamEnds, SessionRests, turnRest, notTurns, pointerVars, lifecycleVars
    <3>4. runtimes' = [runtimes EXCEPT ![reserved[t]] = [runtimes[reserved[t]] EXCEPT !.active =
                         IF runtimes[reserved[t]].active = t THEN None ELSE runtimes[reserved[t]].active]]
      BY <1>4 DEF StreamEnds
    <3>5. (IF runtimes[reserved[t]].active = t THEN None ELSE runtimes[reserved[t]].active) \in Turn \cup {None}
      BY <3>2 DEF RuntimeRecords
    <3> QED BY <3>1, <3>3, <3>4, <3>5
  <2>2. [runtimes[reserved[t]] EXCEPT !.active = active] \in RuntimeRecords
    BY <1>0, <2>1 DEF RuntimeRecords
  <2> QED BY <1>0, <2>1, <2>2 DEF RuntimeRecords
<1>5. CASE PromptSettles(t)
  <2>1. SessionRests /\ UNCHANGED runtimes
    BY <1>5 DEF PromptSettles, Saves, SessionRests, notTurns, pointerVars, lifecycleVars
  <2>2. \/ UNCHANGED writes
        \/ /\ runtime = reserved[t]
           /\ writes' = Append(writes, [session |-> runtimes[runtime].session,
                                        epoch |-> pointerEpoch, begun |-> FALSE, waiters |-> {}])
    BY <1>5 DEF PromptSettles, Saves, pointerVars
  <2>3. reserved[t] # 0
    BY <1>5 DEF PromptSettles, LockPlaces, TurnTypes
  <2> QED BY <1>0, <2>1, <2>2, <2>3
<1>6. CASE CancellationTimesOut(t) /\ ~(runtime = reserved[t] /\ desiredRunning)
  BY <1>0, <1>6 DEF CancellationTimesOut, SessionRests, operationVars, pointerVars, lifecycleVars
<1>7. CASE \E operation \in Operation : RequestPermission(t, operation)
  BY <1>0, <1>7
     DEF RequestPermission, consentRest, SessionRests, operationVars, pointerVars, lifecycleVars
<1> QED BY <1>1, <1>2, <1>3, <1>4, <1>5, <1>6, <1>7 DEF TurnStep

\* So it keeps the agents.
LEMMA TurnStepKeepsRuns ==
    ASSUME RunsInv, TurnTypes, LockPlaces, NEW t \in Turn, TurnStep(t)
    PROVE  RunsInv'
<1>0. SessionTypes /\ RunInv /\ StartWrites
  BY DEF RunsInv, RunInv
<1>1. /\ SessionRests /\ runtimes' \in [Generation -> RuntimeRecords]
      /\ \A g \in Generation : /\ runtimes'[g].start = runtimes[g].start
                               /\ runtimes'[g].dispose = runtimes[g].dispose
                               /\ runtimes'[g].session = runtimes[g].session
      /\ \/ UNCHANGED writes
         \/ /\ runtime # 0
            /\ writes' = Append(writes, [session |-> runtimes[runtime].session,
                                         epoch |-> pointerEpoch, begun |-> FALSE, waiters |-> {}])
  BY <1>0, TurnStepLeaves
<1>2. /\ writes' \in Seq(WriteRecords)
      /\ \A i \in DOMAIN writes' : 0 \in writes'[i].waiters =>
           i \in DOMAIN writes /\ 0 \in writes[i].waiters
  <2>1. CASE UNCHANGED writes
    BY <1>0, <2>1 DEF SessionTypes
  <2>2. CASE /\ runtime # 0
             /\ writes' = Append(writes, [session |-> runtimes[runtime].session,
                                          epoch |-> pointerEpoch, begun |-> FALSE, waiters |-> {}])
    <3> DEFINE write == [session |-> runtimes[runtime].session, epoch |-> pointerEpoch,
                         begun |-> FALSE, waiters |-> {}]
    <3>1. write \in WriteRecords /\ write.waiters = {}
      BY <1>0, <2>2 DEF SessionTypes, WriteRecords, RuntimeRecords
    <3> HIDE DEF write
    <3>2. writes' = Append(writes, write)
      BY <2>2 DEF write
    <3> QED BY <1>0, <3>1, <3>2, WriteAppended DEF SessionTypes
  <2> QED BY <1>1, <2>1, <2>2
<1>3. SessionTypes'
  BY <1>0, <1>1, <1>2 DEF SessionTypes, SessionRests, lifecycleVars
<1>4. RunInv'
  BY <1>0, <1>1, <1>3, SessionStays DEF SessionRests, lifecycleVars, SessionTypes
<1>5. StartWrites'
  BY <1>0, <1>1, <1>2 DEF StartWrites, SessionRests, SessionTypes
<1> QED BY <1>4, <1>5 DEF RunsInv

\* The restart of an agent that ignores a cancellation is a lifecycle call of its turn.
LEMMA RestartsEffect ==
    ASSUME RunsInv, NEW t \in Turn, Restarts(t)
    PROVE  \E call \in CallRecords :
             /\ call.kind = "recover" /\ call.epoch = lifecycleEpoch
             /\ StopCurrentRuntime(t, call)
             /\ UNCHANGED <<lifecycleVars, pointerVars, forgotten, turnVars>>
             /\ cancellation[t] = "waiting" /\ prompt[t] = "open" /\ ~Disposed(reserved[t])
<1>1. [NoCall EXCEPT !.kind = "recover", !.epoch = lifecycleEpoch] \in CallRecords
  BY DEF NoCall, CallRecords, RunsInv, RunInv, SessionTypes
<1> QED BY <1>1 DEF Restarts, CancellationTimesOut, NoCall, turnVars

\* It stops the runtime as the others do.
LEMMA RestartsKeepsRuns ==
    ASSUME RunsInv, NEW t \in Turn, Restarts(t)
    PROVE  RunsInv'
<1>0. SessionTypes /\ RunInv /\ StartWrites
  BY DEF RunsInv, RunInv
<1>1. PICK call \in CallRecords : /\ StopCurrentRuntime(t, call)
                                  /\ UNCHANGED <<lifecycleVars, pointerVars>>
  BY RestartsEffect
<1>2. SessionTypes'
  BY <1>0, <1>1, StopCurrentRuntimeTypes DEF SessionTypes, lifecycleVars, pointerVars
<1>3. RunInv'
  BY <1>0, <1>1, <1>2, StopCurrentRuntimeKeeps
<1>4. StartWrites'
  BY <1>0, <1>1, StopCurrentRuntimeTypes DEF StartWrites, SessionTypes, pointerVars
<1> QED BY <1>3, <1>4 DEF RunsInv

\* What does not touch the session keeps it.
LEMMA RestKeepsRuns ==
    ASSUME RunsInv, UNCHANGED <<lifecycleVars, operationVars, pointerVars, calls>>
    PROVE  RunsInv'
<1>0. SessionTypes /\ RunInv /\ StartWrites
  BY DEF RunsInv, RunInv
<1>1. SessionTypes'
  BY <1>0 DEF SessionTypes, lifecycleVars, operationVars, pointerVars
<1>2. RunInv'
  BY <1>0, <1>1, SessionStays DEF SessionTypes, lifecycleVars, operationVars, pointerVars
<1> QED BY <1>0, <1>2 DEF RunsInv, StartWrites, operationVars, pointerVars

\* The steps of the brain, one by one.
LEMMA NextSteps ==
    ASSUME [Next]_vars
    PROVE  \/ \E c \in Call \cup Turn : Stopped(c)
           \/ \E c \in Call \cup Turn :
                PointerSettled(c) \/ PointerCleared(c) \/ EnsureAgain(c) \/ EnsureWaits(c)
           \/ \E c \in Call \cup Turn : EnsureStarts(c)
           \/ Start \/ Stop \/ Restart \/ DiscardSession
           \/ WriteBegins \/ WriteEnds \/ WriteFails
           \/ \E g \in Generation : DisposeEnds(g)
           \/ \E g \in Generation : RuntimeExits(g)
           \/ \E g \in Generation : StartFails(g) \/ PointerNotSaved(g)
           \/ \E g \in Generation : SessionOpens(g)
           \/ \E g \in Generation : PointerSaved(g) \/ StartFailed(g)
           \/ \E t \in Turn : TurnStep(t)
           \/ \E t \in Turn : Restarts(t)
           \/ ConsentStep \/ UNCHANGED vars
BY DEF Next, Continues, TurnStep, Restarts, ConsentStep

\* Every step keeps at most one agent alive.
LEMMA RunsStep ==
    ASSUME AcpAssumption, RunsInv, TurnTypes, LockPlaces, [Next]_vars
    PROVE  RunsInv'
<1>1. ASSUME NEW c \in Call \cup Turn, Stopped(c) PROVE RunsInv'
  BY <1>1, StoppedKeeps
<1>2. ASSUME NEW c \in Call \cup Turn,
             PointerSettled(c) \/ PointerCleared(c) \/ EnsureAgain(c) \/ EnsureWaits(c)
      PROVE RunsInv'
  BY <1>2, QuietContinuesKeep
<1>3. ASSUME NEW c \in Call \cup Turn, EnsureStarts(c) PROVE RunsInv'
  BY <1>3, EnsureStartsKeeps
<1>4. CASE Start \/ Stop \/ Restart \/ DiscardSession
  BY <1>4, LifecycleKeeps
<1>5. CASE WriteBegins \/ WriteEnds \/ WriteFails
  BY <1>5, WritesKeep
<1>6. ASSUME NEW g \in Generation, DisposeEnds(g) PROVE RunsInv'
  BY <1>6, RuntimeEnds
<1>7. ASSUME NEW g \in Generation, RuntimeExits(g) PROVE RunsInv'
  BY <1>7, RuntimeExitsKeeps
<1>8. ASSUME NEW g \in Generation, StartFails(g) \/ PointerNotSaved(g) PROVE RunsInv'
  BY <1>8, StartFailsKeeps
<1>9. ASSUME NEW g \in Generation, SessionOpens(g) PROVE RunsInv'
  BY <1>9, SessionOpensKeeps
<1>10. ASSUME NEW g \in Generation, PointerSaved(g) \/ StartFailed(g) PROVE RunsInv'
  BY <1>10, StartOverSteps
<1>11. ASSUME NEW t \in Turn, TurnStep(t) PROVE RunsInv'
  BY <1>11, TurnStepKeepsRuns
<1>12. ASSUME NEW t \in Turn, Restarts(t) PROVE RunsInv'
  BY <1>12, RestartsKeepsRuns
<1>13. CASE ConsentStep \/ UNCHANGED vars
  BY <1>13, RestKeepsRuns DEF ConsentStep, ConsentExpires, Confirm, consentRest, vars
<1> QED BY <1>1, <1>2, <1>3, <1>4, <1>5, <1>6, <1>7, <1>8, <1>9, <1>10, <1>11, <1>12, <1>13, NextSteps

\* At first nothing was spawned.
LEMMA RunsInit ==
    ASSUME AcpAssumption, Init
    PROVE  RunsInv
<1>1. NoRuntime \in RuntimeRecords /\ NoRuntime.start = "none" /\ NoRuntime.dispose = "no"
  BY DEF NoRuntime, RuntimeRecords
<1>2. NoCall \in CallRecords
  BY DEF NoCall, CallRecords
<1>3. SessionTypes
  BY <1>1, <1>2, EmptySeq DEF Init, SessionTypes
<1>4. \A g \in Generation : runtimes[g] = NoRuntime
  BY DEF Init
<1>5. Spawned = {}
  BY <1>1, <1>4 DEF Spawned
<1>6. SpawnOrder
  <2>1. 0 \in 0 .. MaxRuntimes /\ Spawned = 1 .. 0
    BY <1>5 DEF AcpAssumption
  <2> QED BY <2>1 DEF SpawnOrder
<1>7. RuntimePlaces /\ OneAlive
  BY <1>1, <1>4, <1>5 DEF Init, RuntimePlaces, OneAlive, Alive, StartSteps, Generation
<1>8. StartWrites
  BY DEF Init, StartWrites
<1> QED BY <1>3, <1>6, <1>7, <1>8 DEF RunsInv, RunInv

-----------------------------------------------------------------------------
(* What the last stop waits for *)

\* A step that leaves the calls alone and starts nothing.
LEMMA StopCallsStay ==
    ASSUME SessionTypes, StopCalls, UNCHANGED <<lifecycleVars, calls>>,
           \A g \in Generation : Alive(g)' => Alive(g) /\
              (runtimes[g].start = "failing" => runtimes'[g].start = "failing")
    PROVE  StopCalls'
BY DEF StopCalls, Final, lifecycleVars

\* One call changes: it ends, it was no stop, or it goes on when nothing is alive.
LEMMA StopCallsGo ==
    ASSUME SessionTypes, StopCalls, NEW c \in Call \cup Turn, NEW call \in CallRecords, 
           calls' = [calls EXCEPT ![c] = call], UNCHANGED <<desiredRunning, lifecycleEpoch>>,
           call.epoch <= lifecycleEpoch,
           \/ call.kind \notin {"stop", "discard"}
           \/ /\ call.kind = calls[c].kind /\ call.epoch = calls[c].epoch
              /\ call.at \in {"pointer", "clear"}
              /\ calls[c].epoch = lifecycleEpoch => \A g \in Generation : ~Alive(g),
           stopped' => stopped \/ (Final(c) /\ \A g \in Generation : ~Alive(g)),
           \/ UNCHANGED <<runtimes>> \/ desiredRunning,
           \A g \in Generation : Alive(g)' => Alive(g) \/ desiredRunning
    PROVE  StopCalls'
<1>1. \A d \in Call \cup Turn : calls'[d] = IF d = c THEN call ELSE calls[d]
  BY DEF SessionTypes
<1>2. CASE desiredRunning
  <2>1. ~stopped /\ \A d \in Call \cup Turn : ~Final(d)
    BY <1>2 DEF StopCalls
  <2>2. ~stopped'
    BY <2>1
  <2>3. \A d \in Call \cup Turn : ~Final(d)'
    BY <1>1, <2>1 DEF Final
  <2> QED BY <1>1, <2>2, <2>3 DEF StopCalls
<1>3. CASE ~desiredRunning
  <2>1. runtimes' = runtimes /\ \A g \in Generation : Alive(g)' => Alive(g)
    BY <1>3
  <2>2. ASSUME NEW d \in Call \cup Turn
        PROVE  /\ calls'[d].epoch <= lifecycleEpoch'
               /\ calls'[d].kind \in {"stop", "discard"} => calls'[d].at \in {"stop", "pointer", "clear"}
               /\ Final(d)' => ~desiredRunning'
               /\ Final(d)' /\ calls'[d].at = "stop" =>
                    \A g \in Generation : Alive(g)' =>
                      g = calls'[d].stops \/ (g = calls'[d].starts /\ runtimes'[g].start = "failing")
               /\ Final(d)' /\ calls'[d].at # "stop" => \A g \in Generation : ~Alive(g)'
    <3>1. CASE d = c
      BY <1>1, <1>3, <2>1, <3>1 DEF StopCalls, Final
    <3>2. CASE d # c
      BY <1>1, <1>3, <2>1, <3>2 DEF StopCalls, Final
    <3> QED BY <3>1, <3>2
  <2>3. stopped' => ~desiredRunning' /\ \A g \in Generation : ~Alive(g)'
    BY <1>3, <2>1 DEF StopCalls
  <2> QED BY <2>2, <2>3 DEF StopCalls
<1> QED BY <1>2, <1>3

\* What a call that goes on has become.
LEMMA GoesGo ==
    ASSUME SessionTypes, StopCalls, NEW c \in Call \cup Turn, NEW call \in CallRecords,
           NEW at \in {"over", "pointer", "clear", "ensure", "ensureStart", "ensureStop"},
           Goes(c, call, at), UNCHANGED <<desiredRunning, lifecycleEpoch>>,
           call.kind = calls[c].kind, call.epoch = calls[c].epoch,
           \/ call.kind \notin {"stop", "discard"}
           \/ /\ at \in {"over", "pointer", "clear"}
              /\ Final(c) => \A g \in Generation : ~Alive(g),
           \/ UNCHANGED <<runtimes>> \/ desiredRunning,
           \A g \in Generation : Alive(g)' => Alive(g) \/ desiredRunning
    PROVE  StopCalls'
<1> DEFINE next == IF at = "over" THEN NoCall ELSE [call EXCEPT !.at = at]
<1>1. /\ next \in CallRecords
      /\ next.kind = IF at = "over" THEN "none" ELSE call.kind
      /\ next.epoch = IF at = "over" THEN 0 ELSE call.epoch
      /\ at # "over" => next.at = at
  BY DEF NoCall, CallRecords
<1>2. calls' = [calls EXCEPT ![c] = next]
  BY DEF Goes
<1> HIDE DEF next
<1>3. calls[c].epoch <= lifecycleEpoch /\ 0 <= lifecycleEpoch
  BY DEF StopCalls, SessionTypes
<1>4. next.epoch <= lifecycleEpoch
  BY <1>1, <1>3
<1>5. \/ next.kind \notin {"stop", "discard"}
      \/ /\ next.kind = calls[c].kind /\ next.epoch = calls[c].epoch
         /\ next.at \in {"pointer", "clear"}
         /\ calls[c].epoch = lifecycleEpoch => \A g \in Generation : ~Alive(g)
  BY <1>1 DEF Final
<1>6. stopped' => stopped \/ (Final(c) /\ \A g \in Generation : ~Alive(g))
  <2>1. stopped' => stopped \/ (call.kind \in {"stop", "discard"} /\ call.epoch = lifecycleEpoch)
    BY Zenon DEF Goes
  <2> QED BY <2>1 DEF Final
<1> QED BY <1>1, <1>2, <1>4, <1>5, <1>6, StopCallsGo

\* When a stop resumes, what it waited for is gone, and that is all there was.
LEMMA StoppedStops ==
    ASSUME RunsInv, StopCalls, NEW c \in Call \cup Turn, Stopped(c)
    PROVE  StopCalls'
<1> DEFINE call == calls[c]
           fails == call.stops # 0 /\ runtimes[call.stops].dispose = "failed"
           next == [call EXCEPT !.failed = fails, !.stops = 0, !.starts = 0]
           at == CASE call.kind = "restart" -> "pointer"
                  [] call.kind = "discard" /\ ~fails -> "pointer"
                  [] call.kind = "recover" /\ ~fails -> "ensure"
                  [] OTHER -> "over"
<1>0. call \in CallRecords /\ SessionTypes
  BY DEF RunsInv, RunInv, SessionTypes
<1>1. fails \in BOOLEAN
  OBVIOUS
<1>2. at \in {"over", "pointer", "ensure"} /\ (call.kind \in {"stop", "discard"} => at # "ensure")
  OBVIOUS
<1>3. Goes(c, next, at) /\ UNCHANGED <<desiredRunning, lifecycleEpoch, runtimes, runtime>>
      /\ call.at = "stop" /\ (call.stops # 0 => Disposed(call.stops))
      /\ (call.starts # 0 => Started(call.starts))
  BY DEF Stopped, resumeRest, operationVars, Resumes
<1> HIDE DEF fails, at
<1>4. next \in CallRecords /\ next.kind = call.kind /\ next.epoch = call.epoch
  BY <1>0, <1>1 DEF CallRecords
<1> HIDE DEF next
<1>5. Final(c) => \A g \in Generation : ~Alive(g)
  <2>1. SUFFICES ASSUME Final(c), NEW g \in Generation, Alive(g) PROVE FALSE
    OBVIOUS
  <2>2. g = call.stops \/ (g = call.starts /\ runtimes[g].start = "failing")
    BY <1>3, <2>1 DEF StopCalls
  <2>3. g # 0
    BY DEF Generation
  <2> QED BY <1>3, <2>1, <2>2, <2>3 DEF Alive, Started
<1>6. \A g \in Generation : Alive(g)' => Alive(g)
  BY <1>3 DEF Alive, Spawned, Disposed
<1> QED BY <1>0, <1>2, <1>3, <1>4, <1>5, <1>6, GoesGo

\* The other steps of a call that start nothing.
LEMMA QuietContinuesStop ==
    ASSUME RunsInv, StopCalls, NEW c \in Call \cup Turn,
           PointerSettled(c) \/ PointerCleared(c) \/ EnsureAgain(c) \/ EnsureWaits(c)
    PROVE  StopCalls'
<1>0. SessionTypes /\ calls[c] \in CallRecords
  BY DEF RunsInv, RunInv, SessionTypes
<1>1. /\ UNCHANGED <<desiredRunning, lifecycleEpoch, runtimes>>
      /\ \A g \in Generation : Alive(g)' => Alive(g)
  BY DEF PointerSettled, PointerCleared, EnsureAgain, EnsureWaits, resumeRest, operationVars,
         Alive, Spawned, Disposed
<1>2. CASE PointerSettled(c) \/ PointerCleared(c)
  <2>1. Final(c) => \A g \in Generation : ~Alive(g)
    BY <1>2 DEF PointerSettled, PointerCleared, StopCalls
  <2>2. CASE PointerSettled(c)
    BY <1>0, <1>1, <2>1, <2>2, GoesGo DEF PointerSettled
  <2>3. CASE PointerCleared(c)
    <3>1. CASE calls[c].kind = "restart" /\ ~calls[c].failed
      <4>1. Goes(c, calls[c], "ensure")
        BY <2>3, <3>1 DEF PointerCleared
      <4> QED BY <1>0, <1>1, <3>1, <4>1, GoesGo
    <3>2. CASE ~ (calls[c].kind = "restart" /\ ~calls[c].failed)
      <4>1. Goes(c, calls[c], "over")
        BY <2>3, <3>2 DEF PointerCleared
      <4> QED BY <1>0, <1>1, <2>1, <4>1, GoesGo
    <3> QED BY <3>1, <3>2
  <2> QED BY <1>2, <2>2, <2>3
<1>3. CASE EnsureAgain(c) \/ EnsureWaits(c)
  <2>1. calls[c].kind \notin {"stop", "discard"}
    BY <1>3 DEF EnsureAgain, EnsureWaits, StopCalls
  <2>2. \A call \in CallRecords, at \in {"over", "ensure", "ensureStart", "ensureStop"} :
          call.kind = calls[c].kind /\ call.epoch = calls[c].epoch /\ Goes(c, call, at) => StopCalls'
    BY <1>0, <1>1, <2>1, GoesGo
  <2>3. CASE EnsureAgain(c)
    <3> DEFINE next == [calls[c] EXCEPT !.stops = 0, !.starts = 0]
    <3>1. next \in CallRecords /\ next.kind = calls[c].kind /\ next.epoch = calls[c].epoch
      BY <1>0 DEF CallRecords
    <3>2. Goes(c, next, "over") \/ Goes(c, next, "ensure")
      BY <2>3 DEF EnsureAgain
    <3> HIDE DEF next
    <3> QED BY <2>2, <3>1, <3>2
  <2>4. CASE EnsureWaits(c)
    <3> DEFINE starts == [calls[c] EXCEPT !.starts = startOperation]
               stops == [calls[c] EXCEPT !.stops = stopOperation]
    <3>1. /\ starts \in CallRecords /\ starts.kind = calls[c].kind /\ starts.epoch = calls[c].epoch
          /\ stops \in CallRecords /\ stops.kind = calls[c].kind /\ stops.epoch = calls[c].epoch
      BY <1>0 DEF CallRecords, SessionTypes
    <3>2. Goes(c, calls[c], "over") \/ Goes(c, starts, "ensureStart") \/ Goes(c, stops, "ensureStop")
      BY <2>4 DEF EnsureWaits
    <3> HIDE DEF starts, stops
    <3> QED BY <1>0, <2>2, <3>1, <3>2
  <2> QED BY <1>3, <2>3, <2>4
<1> QED BY <1>2, <1>3

\* A runtime is started for a call that nothing has superseded: no stop is the last word.
LEMMA EnsureStartsStops ==
    ASSUME AcpAssumption, RunsInv, StopCalls, NEW c \in Call \cup Turn, EnsureStarts(c)
    PROVE  StopCalls'
<1>0. SessionTypes /\ calls[c] \in CallRecords
  BY DEF RunsInv, RunInv, SessionTypes
<1>1. /\ calls[c].kind \notin {"stop", "discard"} /\ desiredRunning
      /\ UNCHANGED <<desiredRunning, lifecycleEpoch>>
      /\ \E g \in Generation : Goes(c, [calls[c] EXCEPT !.starts = g], "ensureStart")
  BY DEF EnsureStarts, StopCalls, ShouldRun, StartOwnedRuntime, resumeRest
<1>2. PICK g \in Generation : Goes(c, [calls[c] EXCEPT !.starts = g], "ensureStart")
  BY <1>1
<1> DEFINE next == [calls[c] EXCEPT !.starts = g]
<1>3. next \in CallRecords /\ next.kind = calls[c].kind /\ next.epoch = calls[c].epoch
  BY <1>0 DEF CallRecords
<1>4. Goes(c, next, "ensureStart")
  BY <1>2
<1> HIDE DEF next
<1> QED BY <1>0, <1>1, <1>3, <1>4, GoesGo

\* What a call waits for that has begun to stop the runtime.
LEMMA StopCurrentRuntimeWaits ==
    ASSUME RunInv, NEW c, NEW call \in CallRecords, StopCurrentRuntime(c, call)
    PROVE  \E record \in CallRecords :
             /\ record.kind = call.kind /\ record.epoch = call.epoch /\ record.at = "stop"
             /\ calls' = [calls EXCEPT ![c] = record]
             /\ \A g \in Generation : Alive(g)' =>
                  /\ Alive(g)
                  /\ g = record.stops \/ (g = record.starts /\ runtimes'[g].start = "failing")
             /\ \A g \in Generation : runtimes'[g].start = runtimes[g].start
<1>0. SessionTypes /\ RuntimePlaces /\ OneAlive
  BY DEF RunInv
<1> DEFINE record == [[call EXCEPT !.at = "stop", !.starts = startOperation] EXCEPT
                         !.stops = IF stopOperation # 0 THEN stopOperation ELSE runtime]
<1>1. /\ record \in CallRecords /\ record.kind = call.kind /\ record.epoch = call.epoch
      /\ record.at = "stop" /\ record.starts = startOperation
      /\ record.stops = IF stopOperation # 0 THEN stopOperation ELSE runtime
  BY <1>0 DEF CallRecords, SessionTypes
<1>2. calls' = [calls EXCEPT ![c] = record]
  BY DEF StopCurrentRuntime
<1> HIDE DEF record
<1>3. ASSUME NEW g \in Generation, Alive(g)
      PROVE  g = record.stops \/ (g = record.starts /\ runtimes[g].start = "failing")
  <2>0. g # 0 /\ runtimes[g].dispose \in {"no", "killing"} /\ g \in Spawned
    BY <1>0, <1>3 DEF Generation, SessionTypes, RuntimeRecords, Alive, Disposed
  <2>1. CASE runtimes[g].dispose = "no"
    <3>1. g = runtime
      BY <1>0, <2>0, <2>1 DEF RuntimePlaces
    <3>2. stopOperation = 0
      <4>1. SUFFICES ASSUME stopOperation # 0 PROVE FALSE
        OBVIOUS
      <4>2. stopOperation \in Generation /\ Alive(stopOperation) /\ stopOperation # g
        BY <1>0, <2>1, <4>1 DEF RuntimePlaces, Alive, Disposed, SessionTypes
      <4> QED BY <1>0, <1>3, <4>2 DEF OneAlive
    <3> QED BY <1>1, <3>1, <3>2
  <2>2. CASE runtimes[g].dispose = "killing"
    BY <1>0, <1>1, <2>0, <2>2 DEF RuntimePlaces, StartSteps
  <2> QED BY <2>0, <2>1, <2>2
<1>4. \A g \in Generation : (Alive(g)' => Alive(g)) /\ runtimes'[g].start = runtimes[g].start
  <2>1. CASE stopOperation = 0 /\ runtime # 0
    <3>1. /\ runtime \in Generation /\ Dispose(runtimes, runtime)
      BY <1>0, <2>1 DEF StopCurrentRuntime, SessionTypes
    <3> QED BY <1>0, <3>1, DisposeEffect DEF SessionTypes, Alive, Spawned, Disposed
  <2>2. CASE ~ (stopOperation = 0 /\ runtime # 0)
    BY <2>2 DEF StopCurrentRuntime, Alive, Spawned, Disposed
  <2> QED BY <2>1, <2>2
<1> QED BY <1>1, <1>2, <1>3, <1>4

\* A new call: it begins an epoch, or is a stop like the one before it.
LEMMA LifecycleStops ==
    ASSUME RunsInv, StopCalls, Start \/ Stop \/ Restart \/ DiscardSession
    PROVE  StopCalls'
<1>0. SessionTypes /\ RunInv
  BY DEF RunsInv, RunInv
<1>1. CASE Start
  <2>1. SetDesiredRunning(TRUE, FALSE)
    BY <1>1 DEF Start
  <2>2. /\ lifecycleEpoch' \in Nat /\ desiredRunning' = TRUE /\ lifecycleEpoch <= lifecycleEpoch'
        /\ stopped' => stopped /\ lifecycleEpoch' = lifecycleEpoch
        /\ lifecycleEpoch' # lifecycleEpoch => lifecycleEpoch < lifecycleEpoch'
        /\ lifecycleEpoch' = lifecycleEpoch => desiredRunning
    BY <1>0, <2>1, SetDesiredTypes
  <2> DEFINE record == [Asks("start") EXCEPT !.at = "ensure"]
  <2>3. record.kind = "start" /\ record.epoch = lifecycleEpoch'
    BY DEF Asks, NoCall
  <2>4. calls' = [calls EXCEPT ![NextCall] = record]
    BY <1>1 DEF Start
  <2> HIDE DEF record
  <2>5. ASSUME NEW d \in Call \cup Turn
        PROVE  /\ calls'[d].epoch <= lifecycleEpoch' /\ ~Final(d)'
               /\ calls'[d].kind \in {"stop", "discard"} => calls'[d].at \in {"stop", "pointer", "clear"}
    <3>1. calls'[d] = record \/ calls'[d] = calls[d]
      BY <1>0, <2>4 DEF SessionTypes
    <3>2. CASE calls'[d] = record
      BY <2>2, <2>3, <3>2 DEF Final
    <3>3. CASE calls'[d] = calls[d]
      <4>1. calls[d].epoch \in Nat /\ lifecycleEpoch \in Nat
        BY <1>0 DEF SessionTypes, CallRecords
      <4>2. calls[d].epoch <= lifecycleEpoch /\ (Final(d) => ~desiredRunning)
        BY DEF StopCalls
      <4>3. calls[d].kind \in {"stop", "discard"} => calls[d].at \in {"stop", "pointer", "clear"}
        BY DEF StopCalls
      <4>4. ~Final(d)'
        BY <2>2, <3>3, <4>1, <4>2 DEF Final
      <4> QED BY <2>2, <3>3, <4>1, <4>2, <4>3, <4>4
    <3> QED BY <3>1, <3>2, <3>3
  <2>6. ~stopped'
    BY <2>2 DEF StopCalls
  <2> QED BY <2>5, <2>6 DEF StopCalls
<1>2. ASSUME Stop \/ Restart \/ DiscardSession PROVE StopCalls'
  <2>1. PICK kind \in {"stop", "restart", "discard"}, desired \in BOOLEAN, force \in BOOLEAN :
          /\ SetDesiredRunning(desired, force)
          /\ StopCurrentRuntime(NextCall, Asks(kind))
          /\ kind # "restart" => desired = FALSE
    BY <1>2 DEF Stop, Restart, DiscardSession
  <2>2. /\ lifecycleEpoch' \in Nat /\ desiredRunning' = desired /\ lifecycleEpoch <= lifecycleEpoch'
        /\ stopped' => stopped /\ lifecycleEpoch' = lifecycleEpoch /\ desiredRunning' = desiredRunning
        /\ lifecycleEpoch' # lifecycleEpoch => lifecycleEpoch < lifecycleEpoch'
        /\ lifecycleEpoch' = lifecycleEpoch => desired = desiredRunning
    BY <1>0, <2>1, SetDesiredTypes
  <2>3. Asks(kind) \in CallRecords /\ Asks(kind).kind = kind /\ Asks(kind).epoch = lifecycleEpoch'
    <3>1. Asks(kind) \in CallRecords
      BY <2>2, AsksTypes
    <3>2. Asks(kind).kind = kind /\ Asks(kind).epoch = lifecycleEpoch'
      BY DEF Asks, NoCall
    <3> QED BY <3>1, <3>2
  <2>4. PICK record \in CallRecords :
             /\ record.kind = kind /\ record.epoch = lifecycleEpoch' /\ record.at = "stop"
             /\ calls' = [calls EXCEPT ![NextCall] = record]
             /\ \A g \in Generation : Alive(g)' =>
                  /\ Alive(g)
                  /\ g = record.stops \/ (g = record.starts /\ runtimes'[g].start = "failing")
             /\ \A g \in Generation : runtimes'[g].start = runtimes[g].start
    BY <1>0, <2>1, <2>3, StopCurrentRuntimeWaits
  <2>5. ASSUME NEW d \in Call \cup Turn
        PROVE  /\ calls'[d].epoch <= lifecycleEpoch'
               /\ calls'[d].kind \in {"stop", "discard"} => calls'[d].at \in {"stop", "pointer", "clear"}
               /\ Final(d)' => ~desiredRunning'
               /\ Final(d)' /\ calls'[d].at = "stop" =>
                    \A g \in Generation : Alive(g)' =>
                      g = calls'[d].stops \/ (g = calls'[d].starts /\ runtimes'[g].start = "failing")
               /\ Final(d)' /\ calls'[d].at # "stop" => \A g \in Generation : ~Alive(g)'
    <3>1. calls'[d] = record \/ calls'[d] = calls[d]
      BY <1>0, <2>4 DEF SessionTypes
    <3>2. CASE calls'[d] = record
      BY <2>1, <2>2, <2>4, <3>2 DEF Final
    <3>3. CASE calls'[d] = calls[d]
      <4>1. calls[d].epoch \in Nat /\ lifecycleEpoch \in Nat
        BY <1>0 DEF SessionTypes, CallRecords
      <4>2. calls[d].epoch <= lifecycleEpoch
        BY DEF StopCalls
      <4>3. calls[d].kind \in {"stop", "discard"} => calls[d].at \in {"stop", "pointer", "clear"}
        BY DEF StopCalls
      <4>4. Final(d)' => Final(d) /\ lifecycleEpoch' = lifecycleEpoch
        BY <2>2, <3>3, <4>1, <4>2 DEF Final
      <4>5. Final(d)' => ~desiredRunning'
        BY <2>2, <4>4 DEF StopCalls
      <4>6. Final(d)' /\ calls'[d].at = "stop" =>
              \A g \in Generation : Alive(g)' =>
                 g = calls'[d].stops \/ (g = calls'[d].starts /\ runtimes'[g].start = "failing")
        BY <2>4, <3>3, <4>4 DEF StopCalls
      <4>7. Final(d)' /\ calls'[d].at # "stop" => \A g \in Generation : ~Alive(g)'
        BY <2>4, <3>3, <4>4 DEF StopCalls
      <4>8. calls'[d].epoch <= lifecycleEpoch'
        BY <2>2, <3>3, <4>1, <4>2
      <4> QED BY <3>3, <4>3, <4>5, <4>6, <4>7, <4>8
    <3> QED BY <3>1, <3>2, <3>3
  <2>6. stopped' => ~desiredRunning' /\ \A g \in Generation : ~Alive(g)'
    BY <2>2, <2>4 DEF StopCalls
  <2> QED BY <2>5, <2>6 DEF StopCalls
<1> QED BY <1>1, <1>2

\* A disposal ends no life that has not ended: what is alive afterwards was.
LEMMA DisposeAlive ==
    ASSUME SessionTypes, NEW rs \in [Generation -> RuntimeRecords], NEW g \in Generation,
           Dispose(rs, g), \A h \in Generation \ {g} : rs[h] = runtimes[h],
           rs[g].dispose = runtimes[g].dispose,
           rs[g].start = runtimes[g].start \/ runtimes[g].start \in {"open", "unsaved"},
           UNCHANGED <<lifecycleVars, calls>>, StopCalls
    PROVE  StopCalls'
<1>1. \A h \in Generation :
         /\ Alive(h)' => Alive(h)
         /\ runtimes[h].start = "failing" => runtimes'[h].start = "failing"
  BY DisposeEffect DEF Alive, Spawned, Disposed
<1> QED BY <1>1, StopCallsStay

\* The steps of a runtime start none, and a start that fails stays so until its
\* runtime is gone.
LEMMA StepStops ==
    ASSUME RunsInv, StopCalls, NEW g \in Generation,
           \/ DisposeEnds(g) \/ RuntimeExits(g) \/ StartFails(g) \/ PointerNotSaved(g)
           \/ SessionOpens(g) \/ PointerSaved(g) \/ StartFailed(g)
    PROVE  StopCalls'
<1>0. SessionTypes /\ runtimes \in [Generation -> RuntimeRecords] /\ runtimes[g] \in RuntimeRecords
  BY DEF RunsInv, RunInv, SessionTypes
<1>1. CASE DisposeEnds(g) \/ PointerSaved(g) \/ StartFailed(g)
  <2>1. UNCHANGED <<lifecycleVars, calls>>
    BY <1>1 DEF DisposeEnds, PointerSaved, StartFailed, startRest
  <2>2. PICK record :
           /\ runtimes' = [runtimes EXCEPT ![g] = record]
           /\ record.start # "none" => runtimes[g].start # "none"
           /\ record.dispose \notin {"over", "failed"} => runtimes[g].dispose \notin {"over", "failed"}
           /\ runtimes[g].start = "failing" =>
                record.start = "failing" \/ record.dispose \in {"over", "failed"}
    <3>1. CASE DisposeEnds(g)
      <4>1. \A dispose \in {"over", "failed"} :
              /\ [runtimes[g] EXCEPT !.dispose = dispose].start = runtimes[g].start
              /\ [runtimes[g] EXCEPT !.dispose = dispose].dispose = dispose
        BY <1>0 DEF RuntimeRecords
      <4>2. \E dispose \in {"over", "failed"} :
              runtimes' = [runtimes EXCEPT ![g] = [runtimes[g] EXCEPT !.dispose = dispose]]
        BY <3>1 DEF DisposeEnds
      <4> QED BY <4>1, <4>2
    <3>2. CASE PointerSaved(g)
      <4> DEFINE record == [runtimes[g] EXCEPT !.start = "ok", !.epoch = 0, !.pointer = 0]
      <4>1. record.start = "ok" /\ record.dispose = runtimes[g].dispose
        BY <1>0 DEF RuntimeRecords
      <4>2. runtimes' = [runtimes EXCEPT ![g] = record] /\ runtimes[g].start = "save"
        BY <1>0, <3>2 DEF PointerSaved, Saved
      <4> HIDE DEF record
      <4> QED BY <4>1, <4>2
    <3>3. CASE StartFailed(g)
      <4> DEFINE record == [runtimes[g] EXCEPT !.start = "failed"]
      <4>1. record.start = "failed" /\ record.dispose = runtimes[g].dispose
        BY <1>0 DEF RuntimeRecords
      <4>2. /\ runtimes' = [runtimes EXCEPT ![g] = record] /\ runtimes[g].start = "failing"
            /\ runtimes[g].dispose \in {"over", "failed"}
        BY <3>3 DEF StartFailed, Disposed
      <4> HIDE DEF record
      <4> QED BY <4>1, <4>2
    <3> QED BY <1>1, <3>1, <3>2, <3>3
  <2>3. \A h \in Generation : runtimes'[h] = IF h = g THEN record ELSE runtimes[h]
    BY <1>0, <2>2
  <2>4. ASSUME NEW h \in Generation, Alive(h)'
        PROVE  Alive(h) /\ (runtimes[h].start = "failing" => runtimes'[h].start = "failing")
    BY <2>2, <2>3, <2>4 DEF Alive, Spawned, Disposed
  <2> QED BY <1>0, <2>1, <2>4, StopCallsStay
<1>2. CASE RuntimeExits(g)
  <2>1. Dispose(runtimes, g) /\ UNCHANGED <<lifecycleVars, calls>>
    BY <1>2 DEF RuntimeExits
  <2> QED BY <1>0, <2>1, DisposeAlive
<1>3. ASSUME NEW session \in Nat,
             Dispose([runtimes EXCEPT ![g] = [runtimes[g] EXCEPT !.start = "failing",
                                                !.session = session]], g),
             UNCHANGED <<lifecycleVars, calls>>,
             runtimes[g].start \in {"open", "unsaved"}
      PROVE  StopCalls'
  <2> DEFINE failing == [runtimes[g] EXCEPT !.start = "failing", !.session = session]
             rs == [runtimes EXCEPT ![g] = failing]
  <2>1. failing \in RuntimeRecords /\ failing.dispose = runtimes[g].dispose
    BY <1>0 DEF RuntimeRecords, StartSteps
  <2> HIDE DEF failing
  <2>2. /\ rs \in [Generation -> RuntimeRecords] /\ rs[g] = failing
        /\ \A h \in Generation \ {g} : rs[h] = runtimes[h]
    BY <1>0, <2>1
  <2>3. Dispose(rs, g)
    BY <1>3 DEF failing
  <2> HIDE DEF rs
  <2> QED BY <1>0, <1>3, <2>1, <2>2, <2>3, DisposeAlive
<1>4. CASE StartFails(g) \/ PointerNotSaved(g)
  <2>1. [runtimes EXCEPT ![g].start = "failing"]
         = [runtimes EXCEPT ![g] = [runtimes[g] EXCEPT !.start = "failing",
                                                       !.session = runtimes[g].session]]
    BY <1>0 DEF RuntimeRecords
  <2>2. /\ Dispose([runtimes EXCEPT ![g].start = "failing"], g)
        /\ runtimes[g].start \in {"open", "unsaved"} /\ UNCHANGED <<lifecycleVars, calls>>
    BY <1>4 DEF StartFails, PointerNotSaved, startRest
  <2>3. runtimes[g].session \in Nat
    BY <1>0 DEF RuntimeRecords
  <2> QED BY <1>3, <2>1, <2>2, <2>3
<1>5. CASE SessionOpens(g)
  <2>1. /\ runtimes[g].start = "open" /\ UNCHANGED <<lifecycleVars, calls>>
        /\ \/ \E session \in Nat :
                 Dispose([runtimes EXCEPT ![g] = [runtimes[g] EXCEPT !.start = "failing",
                                                       !.session = session]], g)
           \/ \E record : /\ runtimes' = [runtimes EXCEPT ![g] = record]
                          /\ record.dispose = runtimes[g].dispose
    <3>1. /\ [runtimes[g] EXCEPT !.start = "ok", !.session = file, !.epoch = 0].dispose = runtimes[g].dispose
          /\ [runtimes[g] EXCEPT !.start = "save", !.session = g, !.pointer = pointerEpoch].dispose
               = runtimes[g].dispose
      BY <1>0 DEF RuntimeRecords
    <3> QED BY <1>5, <3>1, SessionOpensEffect
  <2>2. CASE \E session \in Nat :
               Dispose([runtimes EXCEPT ![g] = [runtimes[g] EXCEPT !.start = "failing",
                                                       !.session = session]], g)
    BY <1>3, <2>1, <2>2
  <2>3. CASE \E record : /\ runtimes' = [runtimes EXCEPT ![g] = record]
                         /\ record.dispose = runtimes[g].dispose
    <3>1. \A h \in Generation : /\ h # g => runtimes'[h] = runtimes[h]
                                /\ runtimes'[h].dispose = runtimes[h].dispose
      BY <1>0, <2>3
    <3>2. \A h \in Generation : Alive(h)' => Alive(h) /\
             (runtimes[h].start = "failing" => runtimes'[h].start = "failing")
      BY <2>1, <3>1 DEF Alive, Spawned, Disposed
    <3> QED BY <1>0, <2>1, <3>2, StopCallsStay
  <2> QED BY <2>1, <2>2, <2>3
<1> QED BY <1>1, <1>2, <1>4, <1>5

\* So do the writes of the pointer.
LEMMA WritesStop ==
    ASSUME RunsInv, StopCalls, WriteBegins \/ WriteEnds \/ WriteFails
    PROVE  StopCalls'
<1>0. SessionTypes /\ StartWrites
  BY DEF RunsInv, RunInv
<1>1. UNCHANGED <<lifecycleVars, calls>>
  BY DEF WriteBegins, WriteEnds, WriteFails
<1>2. \/ UNCHANGED runtimes
      \/ /\ startOperation \in Generation /\ runtimes[startOperation].start = "save"
         /\ runtimes' = [runtimes EXCEPT ![startOperation] =
                           [runtimes[startOperation] EXCEPT !.start = "unsaved"]]
  BY <1>0, WriteTails
     DEF WriteBegins, WriteEnds, WriteFails, operationVars, StartWrites, SessionTypes
<1>3. \A h \in Generation : Alive(h)' => Alive(h) /\
         (runtimes[h].start = "failing" => runtimes'[h].start = "failing")
  <2>1. CASE UNCHANGED runtimes
    BY <2>1 DEF Alive, Spawned, Disposed
  <2>2. CASE ~UNCHANGED runtimes
    <3>1. /\ \A h \in Generation \ {startOperation} : runtimes'[h] = runtimes[h]
          /\ runtimes'[startOperation].dispose = runtimes[startOperation].dispose
      BY <1>0, <1>2, <2>2 DEF SessionTypes, RuntimeRecords
    <3> QED BY <1>2, <2>2, <3>1 DEF Alive, Spawned, Disposed
  <2> QED BY <2>1, <2>2
<1> QED BY <1>0, <1>1, <1>3, StopCallsStay

\* And the steps of turns, of which one restarts the agent.
LEMMA TurnsStop ==
    ASSUME RunsInv, TurnTypes, LockPlaces, StopCalls, NEW t \in Turn, TurnStep(t) \/ Restarts(t)
    PROVE  StopCalls'
<1>0. SessionTypes /\ RunInv
  BY DEF RunsInv, RunInv
<1>1. CASE TurnStep(t)
  <2>1. /\ UNCHANGED <<lifecycleVars, calls>>
        /\ \A g \in Generation : /\ runtimes'[g].start = runtimes[g].start
                                 /\ runtimes'[g].dispose = runtimes[g].dispose
    BY <1>0, <1>1, TurnStepLeaves DEF SessionRests
  <2>2. \A h \in Generation : Alive(h)' => Alive(h) /\
           (runtimes[h].start = "failing" => runtimes'[h].start = "failing")
    BY <2>1 DEF Alive, Spawned, Disposed
  <2> QED BY <1>0, <2>1, <2>2, StopCallsStay
<1>2. CASE Restarts(t)
  <2>1. PICK call \in CallRecords :
             /\ call.kind = "recover" /\ call.epoch = lifecycleEpoch
             /\ StopCurrentRuntime(t, call) /\ UNCHANGED lifecycleVars
    BY <1>2, RestartsEffect
  <2>2. PICK record \in CallRecords :
             /\ record.kind = "recover" /\ record.epoch = lifecycleEpoch
             /\ calls' = [calls EXCEPT ![t] = record]
             /\ \A g \in Generation : Alive(g)' => Alive(g)
    BY <1>0, <2>1, StopCurrentRuntimeWaits
  <2>3. UNCHANGED <<desiredRunning, lifecycleEpoch, stopped>> /\ desiredRunning
    BY <1>2, <2>1 DEF lifecycleVars, Restarts
  <2>4. record.epoch <= lifecycleEpoch
    BY <1>0, <2>2 DEF SessionTypes
  <2> QED BY <1>0, <2>2, <2>3, <2>4, StopCallsGo
<1> QED BY <1>1, <1>2

\* Every step keeps what the last stop waits for.
LEMMA StopsStep ==
    ASSUME AcpAssumption, RunsInv, TurnTypes, LockPlaces, StopCalls, [Next]_vars
    PROVE  StopCalls'
<1>1. ASSUME NEW c \in Call \cup Turn, Stopped(c) PROVE StopCalls'
  BY <1>1, StoppedStops
<1>2. ASSUME NEW c \in Call \cup Turn,
             PointerSettled(c) \/ PointerCleared(c) \/ EnsureAgain(c) \/ EnsureWaits(c)
      PROVE StopCalls'
  BY <1>2, QuietContinuesStop
<1>3. ASSUME NEW c \in Call \cup Turn, EnsureStarts(c) PROVE StopCalls'
  BY <1>3, EnsureStartsStops
<1>4. CASE Start \/ Stop \/ Restart \/ DiscardSession
  BY <1>4, LifecycleStops
<1>5. CASE WriteBegins \/ WriteEnds \/ WriteFails
  BY <1>5, WritesStop
<1>6. ASSUME NEW g \in Generation,
             \/ DisposeEnds(g) \/ RuntimeExits(g) \/ StartFails(g) \/ PointerNotSaved(g)
             \/ SessionOpens(g) \/ PointerSaved(g) \/ StartFailed(g)
      PROVE StopCalls'
  BY <1>6, StepStops
<1>7. ASSUME NEW t \in Turn, TurnStep(t) \/ Restarts(t) PROVE StopCalls'
  BY <1>7, TurnsStop
<1>8. CASE ConsentStep \/ UNCHANGED vars
  <2>1. UNCHANGED <<lifecycleVars, calls, runtimes>>
    BY <1>8 DEF ConsentStep, ConsentExpires, Confirm, consentRest, vars, operationVars
  <2> QED BY <2>1, StopCallsStay DEF RunsInv, RunInv, Alive, Spawned, Disposed
<1> QED BY <1>1, <1>2, <1>3, <1>4, <1>5, <1>6, <1>7, <1>8, NextSteps

\* At first nobody has called.
LEMMA StopsInit ==
    ASSUME Init
    PROVE  StopCalls
<1>1. \A c \in Call \cup Turn : calls[c] = NoCall
  BY DEF Init
<1>2. stopped = FALSE /\ lifecycleEpoch = 0
  BY DEF Init
<1> QED BY <1>1, <1>2 DEF StopCalls, NoCall, Final

\* One agent at a time, and none after the last stop.
LEMMA AgentIsOne ==
    ASSUME RunsInv, StopCalls
    PROVE  OneAgent
<1> DEFINE alive == {g \in Spawned : ~Disposed(g)}
<1>1. \A g, h \in alive : g = h
  BY DEF RunsInv, RunInv, OneAlive, Alive, Spawned
<1>2. Cardinality(alive) <= 1
  <2>1. CASE alive = {}
    BY <2>1, FS_EmptySet
  <2>2. CASE alive # {}
    <3>1. PICK g : alive = {g}
      BY <1>1, <2>2
    <3>2. Cardinality({g}) = 1
      BY FS_Singleton
    <3> QED BY <3>1, <3>2
  <2> QED BY <2>1, <2>2
<1>3. stopped => \A g \in Spawned : Disposed(g)
  BY DEF StopCalls, Alive, Spawned
<1> QED BY <1>2, <1>3 DEF OneAgent

-----------------------------------------------------------------------------
(* The lock *)

LockInv == TurnTypes /\ LockPlaces /\ OnePrompt

\* One prompt on the runtime that lives follows from the lock.
LiveOnePrompt ==
    \A t, u \in Turn :
        /\ prompt[t] = "open" /\ prompt[u] = "open"
        /\ reserved[t] = reserved[u] /\ reserved[t] = runtime
        => t = u

\* The lock serialises the prompts of the runtime that lives: of two turns on it one
\* waits for the release of the other, and a turn with an open prompt has not released.
LEMMA LockSerialises == LockPlaces => LiveOnePrompt
<1>1. SUFFICES ASSUME LockPlaces, NEW t \in Turn, NEW u \in Turn,
                      prompt[t] = "open", prompt[u] = "open", reserved[t] = reserved[u],
                      reserved[t] = runtime, t # u
               PROVE  FALSE
  BY DEF LiveOnePrompt
<1>2. turnAt[t] # "new" /\ turnAt[u] # "new" /\ reserved[t] # 0 /\ reserved[u] # 0
  BY <1>1 DEF LockPlaces
<1>3. Prompted(t) /\ Prompted(u) /\ t \notin released /\ u \notin released
  BY <1>1, <1>2 DEF LockPlaces, Prompted
<1>4. prior[t] \subseteq released /\ prior[u] \subseteq released
  BY <1>1, <1>3 DEF LockPlaces
<1>5. t \in Reserved /\ u \in Reserved
  BY <1>2 DEF Reserved
<1>6. \/ t \in prior[u] \/ u \in prior[t] \/ t \in released \/ u \in released
  BY <1>1, <1>5 DEF LockPlaces
<1> QED BY <1>3, <1>4, <1>6

\* What the steps of the session leave of the lock: the runtime stays, or
\* another one comes that nobody has reserved, or it goes, and every gate opens.
LEMMA LockRests ==
    ASSUME TurnTypes, LockPlaces, OnePrompt,
           UNCHANGED <<turnAt, reserved, prior, prompt>>,
           \/ UNCHANGED <<lockVars, runtime>>
           \/ UNCHANGED <<lockVars>> /\ runtime' \notin Spawned
           \/ /\ runtime' = 0 /\ released' \in {released, Reserved}
              /\ cancellation' \in [Turn -> {"none", "waiting", "over"}]
              /\ \A t \in Turn : \/ cancellation'[t] = cancellation[t]
                                 \/ prompt[t] = "open",
           Spawned \subseteq Spawned'
    PROVE  LockInv'
<1>0. /\ turnAt' = turnAt /\ reserved' = reserved /\ prior' = prior /\ prompt' = prompt
      /\ Reserved' = Reserved
  BY DEF Reserved
<1>1. /\ released' \subseteq Reserved /\ released \subseteq released'
      /\ cancellation' \in [Turn -> {"none", "waiting", "over"}]
  BY DEF TurnTypes, lockVars
<1>2. TurnTypes'
  BY <1>0, <1>1 DEF TurnTypes
<1>3. ASSUME NEW t \in Turn
      PROVE  /\ turnAt'[t] = "new" <=> reserved'[t] = 0
             /\ reserved'[t] # 0 => reserved'[t] \in Spawned'
             /\ turnAt'[t] \in {"new", "waiting"} => prompt'[t] = "none" /\ cancellation'[t] = "none"
             /\ Prompted(t)' => prior'[t] \subseteq released'
  <2>1. turnAt[t] \in {"new", "waiting"} => prompt[t] = "none" /\ cancellation[t] = "none"
    BY DEF LockPlaces
  <2>2. cancellation'[t] = cancellation[t] \/ prompt[t] = "open"
    BY DEF lockVars
  <2>3. Prompted(t)' => prior'[t] \subseteq released'
    BY <1>0, <1>1 DEF LockPlaces, Prompted
  <2> QED BY <1>0, <2>1, <2>2, <2>3 DEF LockPlaces
<1>4. ASSUME NEW t \in Turn, reserved'[t] = runtime', reserved'[t] # 0
      PROVE  /\ turnAt'[t] # "over" => t \notin released'
             /\ prompt'[t] = "open" => Prompted(t)' /\ cancellation'[t] # "over"
             /\ turnAt'[t] = "releasing" => cancellation'[t] = "waiting"
  <2>1. UNCHANGED <<released, cancellation, runtime>>
    BY <1>0, <1>4 DEF LockPlaces, lockVars
  <2> QED BY <1>0, <1>4, <2>1 DEF LockPlaces, Prompted
<1>5. \A t, u \in Reserved' : t # u => \/ t \in prior'[u] \/ u \in prior'[t]
                                       \/ t \in released' \/ u \in released'
  BY <1>0, <1>1 DEF LockPlaces
<1>6. LockPlaces'
  BY <1>3, <1>4, <1>5 DEF LockPlaces
<1>7. OnePrompt'
  BY <1>0 DEF OnePrompt
<1> QED BY <1>2, <1>6, <1>7 DEF LockInv

\* A disposal opens every gate and takes the runtime away.
LEMMA DisposeLocks ==
    ASSUME SessionTypes, RuntimePlaces, TurnTypes, LockPlaces, OnePrompt,
           NEW rs \in [Generation -> RuntimeRecords], NEW g \in Generation, g \in Spawned,
           Dispose(rs, g), rs[g].dispose = runtimes[g].dispose,
           UNCHANGED turnVars, Spawned' = Spawned
    PROVE  LockInv'
<1>1. CASE rs[g].dispose = "no"
  <2>1. g = runtime
    BY <1>1 DEF RuntimePlaces
  <2>2. runtime' = 0 /\ released' = Reserved /\ Cancels(rs[g].active)
    BY <1>1, <2>1 DEF Dispose, InvalidateTurnReservations
  <2>3. rs[g].active \in Turn \cup {None}
    BY DEF RuntimeRecords
  <2> DEFINE a == rs[g].active
  <2>4. \/ cancellation' = cancellation
        \/ /\ prompt[a] = "open" /\ a # None
           /\ cancellation' = [cancellation EXCEPT ![a] = "waiting"]
    BY <2>2 DEF Cancels
  <2> HIDE DEF a
  <2>5. /\ cancellation' \in [Turn -> {"none", "waiting", "over"}]
        /\ \A t \in Turn : cancellation'[t] = cancellation[t] \/ prompt[t] = "open"
    BY <2>4 DEF TurnTypes
  <2> QED BY <2>2, <2>5, LockRests DEF turnVars
<1>2. CASE rs[g].dispose # "no"
  <2>1. UNCHANGED <<runtime, lockVars>>
    BY <1>2 DEF Dispose, lockVars
  <2> QED BY <2>1, LockRests DEF turnVars
<1> QED BY <1>1, <1>2

\* So does stopCurrentRuntime().
LEMMA StopCurrentRuntimeLocks ==
    ASSUME RunInv, TurnTypes, LockPlaces, OnePrompt, NEW c, NEW call, StopCurrentRuntime(c, call),
           UNCHANGED turnVars
    PROVE  LockInv'
<1>0. SessionTypes /\ RuntimePlaces /\ OneAlive
  BY DEF RunInv
<1>1. CASE stopOperation = 0 /\ runtime # 0
  <2>1. runtime \in Generation /\ Dispose(runtimes, runtime) /\ runtime \in Spawned
    BY <1>0, <1>1 DEF StopCurrentRuntime, SessionTypes, RuntimePlaces, Alive
  <2>2. Spawned' = Spawned
    BY <1>0, <2>1, DisposeEffect, SameSpawned DEF SessionTypes
  <2> QED BY <1>0, <2>1, <2>2, DisposeLocks DEF SessionTypes
<1>2. CASE ~ (stopOperation = 0 /\ runtime # 0)
  <2>1. UNCHANGED <<runtimes, runtime, cancellation>> /\ released' \in {released, Reserved}
    BY <1>2 DEF StopCurrentRuntime, InvalidateTurnReservations
  <2>2. runtime = 0
    <3>1. SUFFICES ASSUME runtime # 0, stopOperation # 0 PROVE FALSE
      BY <1>2
    <3>2. Alive(stopOperation) /\ Alive(runtime) /\ runtime # stopOperation
      BY <1>0, <3>1 DEF RuntimePlaces, Alive, Disposed, SessionTypes
    <3> QED BY <1>0, <3>1, <3>2 DEF OneAlive, SessionTypes
  <2>3. Spawned' = Spawned
    BY <2>1 DEF Spawned
  <2>4. cancellation' \in [Turn -> {"none", "waiting", "over"}]
    BY <2>1 DEF TurnTypes
  <2> QED BY <2>1, <2>2, <2>3, <2>4, LockRests DEF turnVars
<1> QED BY <1>1, <1>2

\* The steps that do not touch the turns.
LEMMA SessionStepLocks ==
    ASSUME AcpAssumption, RunsInv, LockInv, [Next]_vars,
           \A t \in Turn : ~TurnStep(t)
    PROVE  LockInv'
<1>0. /\ SessionTypes /\ RunInv /\ RuntimePlaces /\ TurnTypes /\ LockPlaces /\ OnePrompt
      /\ runtimes \in [Generation -> RuntimeRecords]
  BY DEF RunsInv, RunInv, LockInv, SessionTypes
<1>1. ASSUME UNCHANGED <<turnVars, lockVars, runtime>>,
             \A g \in Generation : runtimes'[g].start = "none" => runtimes[g].start = "none"
      PROVE  LockInv'
  <2>1. Spawned \subseteq Spawned'
    BY <1>1 DEF Spawned
  <2> QED BY <1>0, <1>1, <2>1, LockRests DEF turnVars
<1>2. ASSUME NEW c \in Call \cup Turn, Stopped(c) \/ PointerSettled(c) \/ PointerCleared(c)
                                        \/ EnsureAgain(c) \/ EnsureWaits(c)
      PROVE  LockInv'
  BY <1>1, <1>2 DEF Stopped, PointerSettled, PointerCleared, EnsureAgain, EnsureWaits,
                    resumeRest, operationVars
<1>3. ASSUME NEW c \in Call \cup Turn, EnsureStarts(c) PROVE LockInv'
  <2>1. runtime' \notin Spawned /\ Spawned \subseteq Spawned'
    BY <1>3, EnsureStartsKeeps
  <2>2. UNCHANGED <<turnVars, lockVars>>
    BY <1>3 DEF EnsureStarts, StartOwnedRuntime, resumeRest
  <2> QED BY <1>0, <2>1, <2>2, LockRests DEF turnVars
<1>4. CASE Start \/ Stop \/ Restart \/ DiscardSession
  <2>1. CASE Start
    BY <1>1, <2>1 DEF Start, Calls, operationVars
  <2>2. CASE Stop \/ Restart \/ DiscardSession
    <3>1. /\ UNCHANGED turnVars
          /\ \E call : StopCurrentRuntime(NextCall, call)
      BY <2>2 DEF Stop, Restart, DiscardSession, Calls
    <3> QED BY <1>0, <3>1, StopCurrentRuntimeLocks
  <2> QED BY <1>4, <2>1, <2>2
<1>5. CASE WriteBegins \/ WriteEnds \/ WriteFails
  <2>1. UNCHANGED <<turnVars, lockVars, runtime>>
    BY <1>5 DEF WriteBegins, WriteEnds, WriteFails, operationVars
  <2>2. \/ UNCHANGED runtimes
        \/ runtimes' = [runtimes EXCEPT ![startOperation].start = "unsaved"]
    BY <1>5 DEF WriteBegins, WriteEnds, WriteFails, operationVars
  <2>3. \A g \in Generation : runtimes'[g].start = "none" => runtimes[g].start = "none"
    BY <1>0, <2>2 DEF RuntimeRecords
  <2> QED BY <1>1, <2>1, <2>3
<1>6. ASSUME NEW g \in Generation, DisposeEnds(g) PROVE LockInv'
  <2>1. UNCHANGED <<turnVars, lockVars, runtime>>
    BY <1>6 DEF DisposeEnds
  <2>2. \E dispose \in {"over", "failed"} : runtimes' = [runtimes EXCEPT ![g].dispose = dispose]
    BY <1>6 DEF DisposeEnds
  <2>3. \A h \in Generation : runtimes'[h].start = "none" => runtimes[h].start = "none"
    BY <1>0, <2>2 DEF RuntimeRecords
  <2> QED BY <1>1, <2>1, <2>3
<1>7. ASSUME NEW g \in Generation, RuntimeExits(g) PROVE LockInv'
  <2>1. Dispose(runtimes, g) /\ g \in Spawned /\ UNCHANGED turnVars
    BY <1>7 DEF RuntimeExits
  <2>2. Spawned' = Spawned
    BY <1>0, <2>1, DisposeEffect, SameSpawned
  <2> QED BY <1>0, <2>1, <2>2, DisposeLocks
<1>8. ASSUME NEW g \in Generation, NEW session \in Nat,
             Dispose([runtimes EXCEPT ![g] = [runtimes[g] EXCEPT !.start = "failing",
                                                !.session = session]], g),
             runtimes[g].start # "none", UNCHANGED turnVars
      PROVE  LockInv'
  <2> DEFINE failing == [runtimes[g] EXCEPT !.start = "failing", !.session = session]
             rs == [runtimes EXCEPT ![g] = failing]
  <2>1. failing \in RuntimeRecords /\ failing.dispose = runtimes[g].dispose /\ failing.start = "failing"
    BY <1>0 DEF RuntimeRecords, StartSteps
  <2> HIDE DEF failing
  <2>2. /\ rs \in [Generation -> RuntimeRecords] /\ rs[g] = failing
        /\ \A h \in Generation \ {g} : rs[h] = runtimes[h]
    BY <1>0, <2>1
  <2>3. Dispose(rs, g)
    BY <1>8 DEF failing
  <2> HIDE DEF rs
  <2>4. Spawned' = Spawned /\ g \in Spawned
    BY <1>8, <2>1, <2>2, <2>3, DisposeEffect DEF Spawned
  <2> QED BY <1>0, <1>8, <2>1, <2>2, <2>3, <2>4, DisposeLocks
<1>9. ASSUME NEW g \in Generation, StartFails(g) \/ PointerNotSaved(g) PROVE LockInv'
  <2>1. [runtimes EXCEPT ![g].start = "failing"]
         = [runtimes EXCEPT ![g] = [runtimes[g] EXCEPT !.start = "failing",
                                                       !.session = runtimes[g].session]]
    BY <1>0 DEF RuntimeRecords
  <2>2. /\ Dispose([runtimes EXCEPT ![g].start = "failing"], g)
        /\ runtimes[g].start # "none" /\ UNCHANGED turnVars
    BY <1>9 DEF StartFails, PointerNotSaved, startRest
  <2>3. runtimes[g].session \in Nat
    BY <1>0 DEF RuntimeRecords
  <2> QED BY <1>8, <2>1, <2>2, <2>3
<1>10. ASSUME NEW g \in Generation, SessionOpens(g) PROVE LockInv'
  <2>1. UNCHANGED turnVars /\ runtimes[g].start # "none"
    BY <1>10 DEF SessionOpens, startRest
  <2>2. CASE \E session \in Nat :
               Dispose([runtimes EXCEPT ![g] = [runtimes[g] EXCEPT !.start = "failing",
                                                !.session = session]], g)
    BY <1>8, <2>1, <2>2
  <2>3. ASSUME UNCHANGED <<runtime, lockVars>>,
               \E record : runtimes' = [runtimes EXCEPT ![g] = record] /\ record.start # "none"
        PROVE  LockInv'
    <3>1. \A h \in Generation : runtimes'[h].start = "none" => runtimes[h].start = "none"
      BY <1>0, <2>3
    <3> QED BY <1>1, <2>1, <2>3, <3>1
  <2>4. /\ [runtimes[g] EXCEPT !.start = "ok", !.session = file, !.epoch = 0].start = "ok"
        /\ [runtimes[g] EXCEPT !.start = "save", !.session = g, !.pointer = pointerEpoch].start = "save"
    BY <1>0 DEF RuntimeRecords
  <2>5. CASE /\ UNCHANGED <<runtime, lockVars>>
             /\ \/ runtimes' = [runtimes EXCEPT ![g] = [runtimes[g] EXCEPT !.start = "ok",
                                   !.session = file, !.epoch = 0]]
                \/ runtimes' = [runtimes EXCEPT ![g] = [runtimes[g] EXCEPT !.start = "save",
                                   !.session = g, !.pointer = pointerEpoch]]
    BY <2>3, <2>4, <2>5
  <2> QED BY <1>10, <2>2, <2>5, SessionOpensEffect
<1>11. ASSUME NEW g \in Generation, PointerSaved(g) \/ StartFailed(g) PROVE LockInv'
  <2>1. UNCHANGED <<turnVars, lockVars, runtime>> /\ runtimes[g].start # "none"
    BY <1>11 DEF PointerSaved, StartFailed, startRest, Saved
  <2>2. \A h \in Generation \ {g} : runtimes'[h] = runtimes[h]
    BY <1>0, <1>11 DEF PointerSaved, StartFailed
  <2>3. \A h \in Generation : runtimes'[h].start = "none" => runtimes[h].start = "none"
    <3>1. [runtimes[g] EXCEPT !.start = "failed"].start = "failed"
          /\ [runtimes[g] EXCEPT !.start = "ok", !.epoch = 0, !.pointer = 0].start = "ok"
      BY <1>0 DEF RuntimeRecords
    <3>2. runtimes'[g].start \in {"ok", "failed"}
      BY <1>0, <1>11, <3>1 DEF PointerSaved, StartFailed
    <3> QED BY <2>2, <3>2
  <2> QED BY <1>1, <2>1, <2>3
<1>12. ASSUME NEW t \in Turn, Restarts(t) PROVE LockInv'
  <2>1. UNCHANGED turnVars /\ \E call : StopCurrentRuntime(t, call)
    BY <1>12, RestartsEffect
  <2> QED BY <1>0, <2>1, StopCurrentRuntimeLocks
<1>13. CASE ConsentStep \/ UNCHANGED vars
  BY <1>1, <1>13 DEF ConsentStep, ConsentExpires, Confirm, consentRest, vars, operationVars
<1> QED BY <1>2, <1>3, <1>4, <1>5, <1>6, <1>7, <1>9, <1>10, <1>11, <1>12, <1>13, NextSteps

\* A step of the turn t: nothing of another turn changes but that gates open,
\* and a prompt that opens is t's, on the runtime.
LEMMA TurnLocks ==
    ASSUME TurnTypes, LockPlaces, OnePrompt, TurnTypes', NEW t \in Turn,
           UNCHANGED <<runtime, Spawned>>,
           \A u \in Turn \ {t} : /\ turnAt'[u] = turnAt[u] /\ reserved'[u] = reserved[u]
                                 /\ prior'[u] = prior[u] /\ prompt'[u] = prompt[u]
                                 /\ cancellation'[u] = cancellation[u],
           released' \in {released, released \cup {t}},
           turnAt'[t] # "new" /\ reserved'[t] # 0 /\ reserved'[t] \in Spawned,
           prior'[t] = prior[t] \/ (turnAt[t] = "new" /\ Reserved \ released \subseteq prior'[t]),
           turnAt[t] # "new" => reserved'[t] = reserved[t] /\ prior'[t] = prior[t],
           turnAt'[t] = "waiting" => prompt'[t] = "none" /\ cancellation'[t] = "none",
           Prompted(t)' => prior'[t] \subseteq released,
           reserved'[t] = runtime =>
              /\ turnAt'[t] # "over" => t \notin released'
              /\ prompt'[t] = "open" => Prompted(t)' /\ cancellation'[t] # "over"
              /\ turnAt'[t] = "releasing" => cancellation'[t] = "waiting",
           prompt'[t] = "open" => prompt[t] = "open" \/ reserved'[t] = runtime,
           turnAt[t] = "new" => Reserved \ released \subseteq prior'[t]
    PROVE  LockInv'
<1>1. ASSUME NEW u \in Turn
      PROVE  /\ turnAt'[u] = "new" <=> reserved'[u] = 0
             /\ reserved'[u] # 0 => reserved'[u] \in Spawned'
             /\ turnAt'[u] \in {"new", "waiting"} => prompt'[u] = "none" /\ cancellation'[u] = "none"
             /\ Prompted(u)' => prior'[u] \subseteq released'
             /\ reserved'[u] = runtime' /\ reserved'[u] # 0 =>
                  /\ turnAt'[u] # "over" => u \notin released'
                  /\ prompt'[u] = "open" => Prompted(u)' /\ cancellation'[u] # "over"
                  /\ turnAt'[u] = "releasing" => cancellation'[u] = "waiting"
  <2>1. CASE u = t
    BY <2>1
  <2>2. CASE u # t
    BY <2>2 DEF LockPlaces, Prompted
  <2> QED BY <2>1, <2>2
<1>2. ASSUME NEW u \in Reserved', NEW w \in Reserved', u # w
      PROVE  u \in prior'[w] \/ w \in prior'[u] \/ u \in released' \/ w \in released'
  <2>1. CASE u # t /\ w # t
    BY <1>2, <2>1 DEF LockPlaces, Reserved
  <2>2. ASSUME NEW v \in Reserved', v # t
        PROVE  t \in prior'[v] \/ v \in prior'[t] \/ t \in released' \/ v \in released'
    <3>1. v \in Reserved
      BY <2>2 DEF Reserved
    <3>2. CASE turnAt[t] = "new"
      BY <3>1, <3>2
    <3>3. CASE turnAt[t] # "new"
      <4>1. t \in Reserved
        BY <3>3 DEF Reserved, LockPlaces
      <4> QED BY <2>2, <3>1, <3>3, <4>1 DEF LockPlaces, Reserved
    <3> QED BY <3>2, <3>3
  <2> QED BY <1>2, <2>1, <2>2
<1>3. LockPlaces'
  BY <1>1, <1>2 DEF LockPlaces
<1>4. OnePrompt'
  <2>1. SUFFICES ASSUME NEW u \in Turn, NEW w \in Turn, prompt'[u] = "open", prompt'[w] = "open",
                        reserved'[u] = reserved'[w]
                 PROVE  u = w
    BY DEF OnePrompt
  <2>2. CASE reserved'[u] = runtime'
    <3>1. LockPlaces' => LiveOnePrompt'
      BY LockSerialises, PTL
    <3> QED BY <1>3, <2>1, <2>2, <3>1 DEF LiveOnePrompt
  <2>3. CASE reserved'[u] # runtime'
    <3>1. \A x \in {u, w} : prompt[x] = "open" /\ reserved[x] = reserved'[x]
      <4>1. SUFFICES ASSUME NEW x \in {u, w} PROVE prompt[x] = "open" /\ reserved[x] = reserved'[x]
        OBVIOUS
      <4>2. CASE x # t
        BY <2>1, <4>2
      <4>3. CASE x = t
        <5>1. prompt[t] = "open"
          BY <2>1, <2>3, <4>3
        <5>2. turnAt[t] # "new"
          BY <5>1 DEF LockPlaces
        <5> QED BY <4>3, <5>1, <5>2
      <4> QED BY <4>2, <4>3
    <3> QED BY <2>1, <3>1 DEF OnePrompt
  <2> QED BY <2>2, <2>3
<1> QED BY <1>3, <1>4 DEF LockInv

\* Every step of a turn keeps the lock.
LEMMA TurnStepLocks ==
    ASSUME AcpAssumption, RunsInv, LockInv, NEW t \in Turn, TurnStep(t)
    PROVE  LockInv'
<1>0. /\ SessionTypes /\ RunInv /\ RuntimePlaces /\ TurnTypes /\ LockPlaces /\ OnePrompt
  BY DEF RunsInv, RunInv, LockInv
<1>1. UNCHANGED <<runtime, Spawned>>
  BY <1>0, TurnStepLeaves, SameSpawned DEF SessionRests
<1>2. CASE \E compacts \in BOOLEAN : Reserve(t, compacts)
  <2>1. /\ turnAt[t] = "new" /\ runtime # 0
        /\ turnAt' = [turnAt EXCEPT ![t] = "waiting"] /\ reserved' = [reserved EXCEPT ![t] = runtime]
        /\ prior' = [prior EXCEPT ![t] = Reserved \ released]
        /\ UNCHANGED <<prompt, lockVars>>
    BY <1>2 DEF Reserve, Turns
  <2>2. prompt[t] = "none" /\ cancellation[t] = "none" /\ reserved[t] = 0 /\ t \notin released
    BY <1>0, <2>1 DEF LockPlaces, TurnTypes, Reserved
  <2>3. runtime \in Spawned /\ runtime \in Generation
    BY <1>0, <2>1 DEF RuntimePlaces, Alive, SessionTypes
  <2>4. /\ turnAt'[t] = "waiting" /\ reserved'[t] = runtime /\ prior'[t] = Reserved \ released
        /\ prompt'[t] = "none" /\ cancellation'[t] = "none" /\ released' = released
        /\ \A u \in Turn \ {t} : /\ turnAt'[u] = turnAt[u] /\ reserved'[u] = reserved[u]
                                 /\ prior'[u] = prior[u] /\ prompt'[u] = prompt[u]
                                 /\ cancellation'[u] = cancellation[u]
    BY <1>0, <2>1, <2>2 DEF TurnTypes, lockVars
  <2>5. TurnTypes'
    <3>1. released' \subseteq Reserved'
      <4>1. SUFFICES ASSUME NEW u \in released PROVE u \in Turn /\ reserved'[u] # 0
        BY <2>4 DEF Reserved
      <4>2. u \in Turn /\ reserved[u] # 0 /\ u # t
        BY <1>0, <2>2, <4>1 DEF TurnTypes, Reserved
      <4> QED BY <2>4, <4>2
    <3>2. Reserved \ released \in SUBSET Turn
      BY DEF Reserved
    <3> QED BY <1>0, <2>1, <2>3, <3>1, <3>2 DEF TurnTypes, lockVars
  <2> QED BY <1>0, <1>1, <2>1, <2>2, <2>3, <2>4, <2>5, TurnLocks DEF Prompted
<1>3. ASSUME turnAt[t] # "new", UNCHANGED <<reserved, prior>>, TurnTypes',
             \A u \in Turn \ {t} : /\ turnAt'[u] = turnAt[u] /\ prompt'[u] = prompt[u]
                                   /\ cancellation'[u] = cancellation[u],
             released' \in {released, released \cup {t}}, turnAt'[t] # "new",
             turnAt'[t] = "waiting" => prompt'[t] = "none" /\ cancellation'[t] = "none",
             Prompted(t)' => prior[t] \subseteq released,
             reserved[t] = runtime =>
                /\ turnAt'[t] # "over" => t \notin released'
                /\ prompt'[t] = "open" => Prompted(t)' /\ cancellation'[t] # "over"
                /\ turnAt'[t] = "releasing" => cancellation'[t] = "waiting",
             prompt'[t] = "open" => prompt[t] = "open" \/ reserved[t] = runtime
      PROVE  LockInv'
  BY <1>0, <1>1, <1>3, TurnLocks DEF LockPlaces
<1>4. CASE turnAt[t] # "new" /\ UNCHANGED <<turnAt, prompt, lockVars, reserved, prior>>
  BY <1>0, <1>3, <1>4 DEF LockPlaces, lockVars, TurnTypes, Reserved, Prompted
<1>5. CASE Gives(t)
  <2>1. /\ turnAt[t] = "waiting" /\ turnAt' = [turnAt EXCEPT ![t] = "over"]
        /\ released' = released \cup {t} /\ UNCHANGED <<prompt, cancellation, reserved, prior>>
    BY <1>5 DEF Gives, Turns, Release
  <2>2. prompt[t] = "none" /\ reserved[t] # 0
    BY <1>0, <2>1 DEF LockPlaces
  <2>3. TurnTypes'
    BY <1>0, <2>1, <2>2 DEF TurnTypes, Reserved
  <2>4. turnAt'[t] = "over" /\ \A u \in Turn \ {t} : turnAt'[u] = turnAt[u]
    BY <1>0, <2>1 DEF TurnTypes
  <2> QED BY <1>3, <2>1, <2>2, <2>3, <2>4 DEF Prompted
<1>6. CASE Acquire(t) \/ Retry(t)
  <2>1. /\ turnAt[t] \in {"waiting", "streaming"} /\ turnAt' = [turnAt EXCEPT ![t] = "streaming"]
        /\ prompt' = [prompt EXCEPT ![t] = "open"] /\ UNCHANGED <<lockVars, reserved, prior>>
        /\ runtime = reserved[t] /\ cancellation[t] = "none" /\ prior[t] \subseteq released
    <3>1. CASE Acquire(t)
      BY <1>0, <3>1 DEF Acquire, Turns, Prompts, LockPlaces
    <3>2. CASE Retry(t)
      BY <1>0, <3>2 DEF Retry, Prompts, LockPlaces, Prompted, TurnTypes
    <3> QED BY <1>6, <3>1, <3>2
  <2>2. t \notin released
    BY <1>0, <2>1 DEF LockPlaces
  <2>3. TurnTypes'
    BY <1>0, <2>1 DEF TurnTypes, Reserved, lockVars
  <2>4. /\ turnAt'[t] = "streaming" /\ prompt'[t] = "open"
        /\ \A u \in Turn \ {t} : turnAt'[u] = turnAt[u] /\ prompt'[u] = prompt[u]
    BY <1>0, <2>1 DEF TurnTypes
  <2> QED BY <1>3, <2>1, <2>2, <2>3, <2>4 DEF Prompted, lockVars
<1>7. CASE PromptSettles(t)
  <2>1. /\ prompt[t] = "open" /\ UNCHANGED <<turnAt, reserved, prior, lockVars>>
        /\ \E how \in {"ended", "cancelled", "failed"} : prompt' = [prompt EXCEPT ![t] = how]
    BY <1>7 DEF PromptSettles
  <2>2. turnAt[t] \notin {"new", "waiting"}
    BY <1>0, <2>1 DEF LockPlaces
  <2>3. TurnTypes'
    BY <1>0, <2>1 DEF TurnTypes, Reserved, lockVars
  <2>4. prompt'[t] # "open" /\ \A u \in Turn \ {t} : prompt'[u] = prompt[u]
    BY <1>0, <2>1 DEF TurnTypes
  <2> QED BY <1>0, <1>3, <2>1, <2>2, <2>3, <2>4 DEF LockPlaces, Prompted, lockVars
<1>8. CASE CallerAborts(t)
  <2>1. /\ turnAt[t] \in {"waiting", "streaming"} /\ Cancels(t)
        /\ UNCHANGED <<turnAt, reserved, prior, prompt, released>>
    BY <1>8 DEF CallerAborts
  <2>2. /\ cancellation' \in [Turn -> {"none", "waiting", "over"}]
        /\ \A u \in Turn \ {t} : cancellation'[u] = cancellation[u]
        /\ cancellation'[t] = cancellation[t]
           \/ (prompt[t] = "open" /\ cancellation'[t] = "waiting")
    BY <1>0, <2>1 DEF Cancels, TurnTypes
  <2>3. TurnTypes'
    BY <1>0, <2>1, <2>2 DEF TurnTypes, Reserved
  <2> QED BY <1>0, <1>3, <2>1, <2>2, <2>3 DEF LockPlaces, Prompted
<1>9. CASE StreamEnds(t)
  <2>1. /\ turnAt[t] = "streaming" /\ Cancels(t) /\ UNCHANGED <<reserved, prior, prompt>>
        /\ Leaves(t, cancellation')
    BY <1>9 DEF StreamEnds
  <2>2. /\ cancellation' \in [Turn -> {"none", "waiting", "over"}]
        /\ \A u \in Turn \ {t} : cancellation'[u] = cancellation[u]
        /\ cancellation'[t] = cancellation[t] \/ (prompt[t] = "open" /\ cancellation'[t] = "waiting")
    BY <1>0, <2>1 DEF Cancels, TurnTypes
  <2>3. \/ /\ cancellation'[t] = "waiting" /\ released' = released
           /\ turnAt' = [turnAt EXCEPT ![t] = "releasing"]
        \/ /\ cancellation'[t] # "waiting" /\ released' = released \cup {t}
           /\ turnAt' = [turnAt EXCEPT ![t] = "over"]
    BY <2>1 DEF Leaves, Turns, Release
  <2>4. TurnTypes'
    BY <1>0, <2>1, <2>2, <2>3 DEF TurnTypes, Reserved, LockPlaces
  <2>5. /\ turnAt'[t] = IF cancellation'[t] = "waiting" THEN "releasing" ELSE "over"
        /\ \A u \in Turn \ {t} : turnAt'[u] = turnAt[u]
    BY <1>0, <2>3 DEF TurnTypes
  <2>6. prior[t] \subseteq released
    BY <1>0, <2>1 DEF LockPlaces, Prompted
  <2>7. reserved[t] = runtime /\ prompt[t] = "open" => cancellation'[t] = "waiting"
    <3>1. SUFFICES ASSUME reserved[t] = runtime, prompt[t] = "open" PROVE cancellation'[t] = "waiting"
      OBVIOUS
    <3>2. cancellation[t] # "over" /\ reserved[t] # 0
      BY <1>0, <2>1, <3>1 DEF LockPlaces
    <3> QED BY <1>0, <2>1, <3>1, <3>2 DEF Cancels, TurnTypes, AcpAssumption
  <2>8. reserved[t] = runtime => t \notin released
    BY <1>0, <2>1 DEF LockPlaces
  <2> QED BY <1>3, <2>1, <2>2, <2>3, <2>4, <2>5, <2>6, <2>7, <2>8 DEF Prompted
<1>10. ASSUME cancellation[t] = "waiting", CancellationOver(t), UNCHANGED <<reserved, prior, prompt>>,
              reserved[t] = runtime => prompt[t] # "open"
       PROVE  LockInv'
  <2>1. cancellation' = [cancellation EXCEPT ![t] = "over"]
    BY <1>10 DEF CancellationOver
  <2>2. \/ /\ turnAt[t] = "releasing" /\ released' = released \cup {t}
           /\ turnAt' = [turnAt EXCEPT ![t] = "over"]
        \/ turnAt[t] # "releasing" /\ UNCHANGED <<turnAt, released>>
    BY <1>10 DEF CancellationOver, Turns, Release
  <2>3. turnAt[t] \notin {"new", "waiting"} /\ reserved[t] # 0
    BY <1>0, <1>10 DEF LockPlaces
  <2>4. TurnTypes'
    BY <1>0, <1>10, <2>1, <2>2, <2>3 DEF TurnTypes, Reserved
  <2>5. /\ cancellation'[t] = "over" /\ \A u \in Turn \ {t} : cancellation'[u] = cancellation[u]
        /\ turnAt'[t] = IF turnAt[t] = "releasing" THEN "over" ELSE turnAt[t]
        /\ \A u \in Turn \ {t} : turnAt'[u] = turnAt[u]
    BY <1>0, <2>1, <2>2 DEF TurnTypes
  <2>6. Prompted(t)' => prior[t] \subseteq released
    BY <1>0, <2>5 DEF LockPlaces, Prompted
  <2>7. reserved[t] = runtime =>
          /\ turnAt'[t] # "over" => t \notin released'
          /\ turnAt'[t] # "releasing"
    BY <1>0, <2>2, <2>3, <2>5 DEF LockPlaces
  <2>8. turnAt'[t] \notin {"new", "waiting"}
    BY <2>3, <2>5
  <2>9. released' \in {released, released \cup {t}}
    BY <2>2
  <2> QED BY <1>3, <1>10, <2>3, <2>4, <2>5, <2>6, <2>7, <2>8, <2>9
<1>11. CASE CancellationSettles(t)
  <2>1. /\ cancellation[t] = "waiting" /\ CancellationOver(t) /\ UNCHANGED <<reserved, prior, prompt>>
        /\ prompt[t] # "open" \/ Disposed(reserved[t])
    BY <1>11 DEF CancellationSettles
  <2>2. reserved[t] # 0
    BY <1>0, <2>1 DEF LockPlaces
  <2>3. reserved[t] = runtime => ~Disposed(reserved[t])
    BY <1>0, <2>2 DEF RuntimePlaces, Alive
  <2> QED BY <1>10, <2>1, <2>3
<1>12. CASE CancellationTimesOut(t) /\ ~(runtime = reserved[t] /\ desiredRunning)
  <2>1. /\ cancellation[t] = "waiting" /\ CancellationOver(t) /\ UNCHANGED <<reserved, prior, prompt>>
    BY <1>12 DEF CancellationTimesOut
  <2>2. reserved[t] # 0
    BY <1>0, <2>1 DEF LockPlaces
  <2>3. reserved[t] # runtime
    BY <1>0, <1>12, <2>2 DEF RuntimePlaces
  <2> QED BY <1>10, <2>1, <2>3
<1>13. CASE \E operation \in Operation : RequestPermission(t, operation)
  <2>1. prompt[t] = "open" /\ UNCHANGED <<turnAt, prompt, lockVars, reserved, prior>>
    BY <1>13 DEF RequestPermission, consentRest, turnVars
  <2>2. turnAt[t] # "new"
    BY <1>0, <2>1 DEF LockPlaces
  <2> QED BY <1>4, <2>1, <2>2
<1> QED BY <1>2, <1>5, <1>6, <1>7, <1>8, <1>9, <1>11, <1>12, <1>13 DEF TurnStep

\* Every step keeps the lock.
LEMMA LockStep ==
    ASSUME AcpAssumption, RunsInv, LockInv, [Next]_vars
    PROVE  LockInv'
<1>1. CASE \E t \in Turn : TurnStep(t)
  BY <1>1, TurnStepLocks
<1>2. CASE \A t \in Turn : ~TurnStep(t)
  BY <1>2, SessionStepLocks
<1> QED BY <1>1, <1>2

\* At first no turn has come.
LEMMA LockInit ==
    ASSUME Init
    PROVE  LockInv
BY DEF Init, LockInv, TurnTypes, LockPlaces, OnePrompt, Reserved, Prompted

-----------------------------------------------------------------------------
(* The stored session *)

\* The pointer and its writes stay; what happens to the runtimes forgets nothing.
LEMMA PointerRests ==
    ASSUME PointerInv, SessionTypes,
           UNCHANGED <<writes, skipStored, pointerEpoch, forgotten>>, file' \in {file, 0},
           Spawned \subseteq Spawned',
           runtime' # 0 => runtime' \notin forgotten /\ runtimes'[runtime'].session \notin forgotten,
           \A g \in Generation :
              /\ runtimes'[g].pointer <= pointerEpoch
              /\ runtimes'[g].start = "save" =>
                   runtimes[g].start = "save" /\ runtimes'[g].pointer = runtimes[g].pointer,
           \A i \in DOMAIN writes : 0 \in writes[i].waiters =>
              runtimes'[startOperation'].pointer = runtimes[startOperation].pointer
    PROVE  PointerInv'
<1>1. 0 \notin forgotten
  BY DEF PointerInv, Spawned, Generation
<1>2. Clean => Clean'
  BY <1>1 DEF Clean
<1>3. \A g \in Generation : Saved(g)' => Saved(g) /\ runtimes'[g].pointer = runtimes[g].pointer
  BY DEF Saved
<1>4. ASSUME NEW g \in Generation, Saved(g)', runtimes'[g].pointer = pointerEpoch'
      PROVE  Clean'
  BY <1>2, <1>3, <1>4 DEF PointerInv
<1>5. ~skipStored' => Clean'
  BY <1>2 DEF PointerInv
<1>6. \A i \in DOMAIN writes' :
         /\ writes'[i].epoch <= pointerEpoch'
         /\ writes'[i].begun => i = 1
         /\ writes'[i].epoch = pointerEpoch' => writes'[i].session \notin forgotten'
         /\ 0 \in writes'[i].waiters => writes'[i].epoch = runtimes'[startOperation'].pointer
  BY DEF PointerInv
<1>7. forgotten' \subseteq Spawned'
  BY DEF PointerInv
<1> QED BY <1>4, <1>5, <1>6, <1>7 DEF PointerInv

\* A disposal, too.
LEMMA DisposePointers ==
    ASSUME PointerInv, SessionTypes, RuntimePlaces,
           NEW rs \in [Generation -> RuntimeRecords], NEW g \in Generation, g \in Spawned,
           Dispose(rs, g), rs[g].dispose = runtimes[g].dispose, rs[g].pointer = runtimes[g].pointer,
           rs[g].start = runtimes[g].start \/ rs[g].start = "failing",
           \A h \in Generation \ {g} : rs[h] = runtimes[h],
           UNCHANGED <<pointerVars, forgotten, startOperation>>,
           startOperation \in Generation \/ \A i \in DOMAIN writes : 0 \notin writes[i].waiters
    PROVE  PointerInv'
<1>1. /\ \A h \in Generation : /\ runtimes'[h].start = rs[h].start
                               /\ runtimes'[h].pointer = runtimes[h].pointer
      /\ \A h \in Generation \ {g} : runtimes'[h] = runtimes[h]
  BY DisposeEffect
<1>2. Spawned \subseteq Spawned'
  BY <1>1 DEF Spawned
<1>3. runtime' = 0 \/ (runtime' = runtime /\ runtime # g /\ runtime \in Generation)
  <2>1. CASE rs[g].dispose = "no"
    BY <2>1, DisposeEffect DEF RuntimePlaces, SessionTypes
  <2>2. CASE rs[g].dispose # "no"
    BY <2>2, DisposeEffect DEF RuntimePlaces, SessionTypes
  <2> QED BY <2>1, <2>2
<1>4. runtime' # 0 => runtime' \notin forgotten /\ runtimes'[runtime'].session \notin forgotten
  BY <1>1, <1>3 DEF PointerInv
<1>5. \A h \in Generation :
        /\ runtimes'[h].pointer <= pointerEpoch
        /\ runtimes'[h].start = "save" =>
             runtimes[h].start = "save" /\ runtimes'[h].pointer = runtimes[h].pointer
  BY <1>1 DEF PointerInv
<1> QED BY <1>1, <1>2, <1>4, <1>5, PointerRests DEF pointerVars

\* A write that a start waits for has its start.
LEMMA StartOfWrites ==
    ASSUME SessionTypes, StartWrites
    PROVE  startOperation \in Generation \/ \A i \in DOMAIN writes : 0 \notin writes[i].waiters
BY DEF SessionTypes, StartWrites

\* stopCurrentRuntime() leaves the pointer alone.
LEMMA StopCurrentRuntimePointers ==
    ASSUME RunsInv, PointerInv, NEW c, NEW call, StopCurrentRuntime(c, call),
           UNCHANGED <<pointerVars, forgotten>>
    PROVE  PointerInv'
<1>0. /\ SessionTypes /\ RuntimePlaces /\ OneAlive
      /\ startOperation \in Generation \/ \A i \in DOMAIN writes : 0 \notin writes[i].waiters
  BY StartOfWrites DEF RunsInv, RunInv
<1>1. CASE stopOperation = 0 /\ runtime # 0
  <2>1. /\ runtime \in Generation /\ Dispose(runtimes, runtime) /\ runtime \in Spawned
        /\ UNCHANGED startOperation
    BY <1>0, <1>1 DEF StopCurrentRuntime, SessionTypes, RuntimePlaces, Alive
  <2> QED BY <1>0, <2>1, DisposePointers DEF SessionTypes
<1>2. CASE ~ (stopOperation = 0 /\ runtime # 0)
  <2>1. UNCHANGED <<runtimes, runtime, startOperation>>
    BY <1>2 DEF StopCurrentRuntime
  <2>2. Spawned \subseteq Spawned'
    BY <2>1 DEF Spawned
  <2> QED BY <1>0, <2>1, <2>2, PointerRests DEF pointerVars, PointerInv
<1> QED BY <1>1, <1>2

\* Whoever forgets the session leaves no runtime that has it, and no write.
LEMMA ForgetPointers ==
    ASSUME RunsInv, PointerInv, Restart \/ DiscardSession
    PROVE  PointerInv'
<1>0. SessionTypes
  BY DEF RunsInv, RunInv
<1>1. /\ skipStored' = TRUE /\ pointerEpoch' = pointerEpoch + 1 /\ forgotten' = Spawned
      /\ UNCHANGED writes
  BY DEF Restart, DiscardSession, ForgetSession, Calls
<1>2. PICK kind \in {"restart", "discard"}, desired \in BOOLEAN, force \in BOOLEAN :
        SetDesiredRunning(desired, force) /\ StopCurrentRuntime(NextCall, Asks(kind))
  BY DEF Restart, DiscardSession
<1>3. Asks(kind) \in CallRecords
  BY <1>0, <1>2, SetDesiredTypes, AsksTypes
<1>4. /\ runtime' = 0 /\ startOperation' = startOperation
      /\ \A g \in Generation : /\ runtimes'[g].start = runtimes[g].start
                               /\ runtimes'[g].pointer = runtimes[g].pointer
  <2>1. runtime' = 0
    BY LifecycleKeeps
  <2> QED BY <1>0, <1>2, <1>3, <2>1, StopCurrentRuntimeTypes
<1>5. Spawned' = Spawned
  BY <1>4, SameSpawned
<1>6. \A g \in Generation : /\ runtimes[g].pointer \in Nat
                            /\ runtimes[g].pointer <= pointerEpoch
  BY <1>0 DEF PointerInv, SessionTypes, RuntimeRecords
<1>7. pointerEpoch \in Nat
  BY <1>0 DEF SessionTypes
<1>8. \A g \in Generation : /\ runtimes'[g].pointer <= pointerEpoch'
                            /\ runtimes'[g].pointer # pointerEpoch'
  BY <1>1, <1>4, <1>6, <1>7
<1>9. ASSUME NEW i \in DOMAIN writes
      PROVE  /\ writes[i].epoch <= pointerEpoch' /\ writes[i].epoch # pointerEpoch'
             /\ writes[i].begun => i = 1
             /\ 0 \in writes[i].waiters => writes[i].epoch = runtimes'[startOperation'].pointer
  <2>1. writes[i].epoch \in Nat
    <3>1. Len(writes) \in Nat /\ DOMAIN writes = 1 .. Len(writes)
      BY <1>0, LenProperties DEF SessionTypes
    <3>2. writes[i] \in WriteRecords
      BY <1>0, <3>1, ElementOfSeq DEF SessionTypes
    <3> QED BY <3>2 DEF WriteRecords
  <2>2. writes[i].epoch <= pointerEpoch /\ (writes[i].begun => i = 1)
    BY DEF PointerInv
  <2>3. 0 \in writes[i].waiters => writes[i].epoch = runtimes'[startOperation'].pointer
    BY <1>0, <1>4, StartOfWrites DEF RunsInv, PointerInv
  <2> QED BY <1>1, <1>7, <2>1, <2>2, <2>3
<1> QED BY <1>1, <1>4, <1>5, <1>8, <1>9 DEF PointerInv

\* A write begins, ends or fails.
LEMMA WritePointers ==
    ASSUME RunsInv, PointerInv, WriteBegins \/ WriteEnds \/ WriteFails
    PROVE  PointerInv'
<1>0. SessionTypes /\ StartWrites /\ RuntimePlaces /\ 0 \notin forgotten
  BY DEF RunsInv, RunInv, PointerInv, Spawned, Generation
<1>1. CASE WriteBegins /\ writes[1].epoch = pointerEpoch
  <2>1. /\ writes' = [writes EXCEPT ![1].begun = TRUE] /\ writes[1] \in WriteRecords
        /\ 1 \in DOMAIN writes
        /\ UNCHANGED <<operationVars, file, skipStored, pointerEpoch, forgotten>>
    BY <1>0, <1>1, WriteTails DEF WriteBegins, SessionTypes
  <2>2. /\ DOMAIN writes' = DOMAIN writes
        /\ \A i \in DOMAIN writes : /\ writes'[i].waiters = writes[i].waiters
                                    /\ writes'[i].epoch = writes[i].epoch
                                    /\ writes'[i].session = writes[i].session
                                    /\ i # 1 => writes'[i] = writes[i]
    <3>1. writes' = [writes EXCEPT ![1] = [writes[1] EXCEPT !.begun = TRUE]]
      BY <2>1
    <3> QED BY <2>1, <3>1, ExceptSeq DEF WriteRecords
  <2>3. writes[1].session \notin forgotten
    BY <1>1, <2>1 DEF PointerInv
  <2>4. \A i \in DOMAIN writes : i # 1 => ~writes[i].begun
    BY DEF PointerInv
  <2>5. Clean => Clean'
    BY <2>1, <2>2, <2>3, <2>4 DEF Clean
  <2>6. Spawned' = Spawned /\ runtimes' = runtimes /\ runtime' = runtime /\ startOperation' = startOperation
    BY <2>1 DEF Spawned, operationVars
  <2>7. \A g \in Generation : Saved(g)' => Saved(g)
    BY <2>2, <2>6 DEF Saved
  <2>8. \A i \in DOMAIN writes' :
         /\ writes'[i].epoch <= pointerEpoch'
         /\ writes'[i].begun => i = 1
         /\ writes'[i].epoch = pointerEpoch' => writes'[i].session \notin forgotten'
         /\ 0 \in writes'[i].waiters => writes'[i].epoch = runtimes'[startOperation'].pointer
    BY <2>1, <2>2, <2>4, <2>6 DEF PointerInv
  <2>9. ~skipStored' => Clean'
    BY <2>1, <2>5 DEF PointerInv
  <2>10. \A g \in Generation : Saved(g)' /\ runtimes'[g].pointer = pointerEpoch' => Clean'
    BY <2>1, <2>5, <2>6, <2>7 DEF PointerInv
  <2> QED BY <2>1, <2>6, <2>8, <2>9, <2>10 DEF PointerInv
<1>2. CASE ~ (WriteBegins /\ writes[1].epoch = pointerEpoch)
  <2>1. /\ writes # <<>> /\ writes' = Tail(writes)
        /\ UNCHANGED <<runtime, startOperation, skipStored, pointerEpoch, forgotten>>
        /\ file' = file \/ (file' = writes[1].session /\ writes[1].begun)
    BY <1>2 DEF WriteBegins, WriteEnds, WriteFails, operationVars
  <2>2. /\ 1 \in DOMAIN writes
        /\ \A i \in DOMAIN writes' : /\ i \in Nat /\ i + 1 \in DOMAIN writes /\ i # 0
                                     /\ writes'[i] = writes[i + 1]
        /\ \A i \in DOMAIN writes : i # 1 =>
             \E j \in DOMAIN writes' : writes'[j] = writes[i]
    <3>1. /\ 1 \in DOMAIN writes
          /\ \A i \in DOMAIN writes' : /\ i \in Nat /\ i + 1 \in DOMAIN writes /\ i # 0
                                       /\ writes'[i] = writes[i + 1]
      BY <1>0, <2>1, WriteTails DEF SessionTypes
    <3>2. ASSUME NEW i \in DOMAIN writes, i # 1
          PROVE  \E j \in DOMAIN writes' : writes'[j] = writes[i]
      <4>1. /\ Len(writes) \in Nat /\ DOMAIN writes = 1 .. Len(writes)
            /\ DOMAIN writes' = 1 .. (Len(writes) - 1)
        BY <1>0, <2>1, HeadTailProperties, LenProperties DEF SessionTypes
      <4>2. i - 1 \in DOMAIN writes'
        BY <3>2, <4>1
      <4>3. writes'[i - 1] = writes[i]
        BY <3>1, <3>2, <4>1, <4>2
      <4> QED BY <4>2, <4>3
    <3> QED BY <3>1, <3>2
  <2>3. \A i \in DOMAIN writes' : ~writes'[i].begun
    <3>1. SUFFICES ASSUME NEW i \in DOMAIN writes', writes'[i].begun PROVE FALSE
      OBVIOUS
    <3>2. i \in Nat /\ i # 0 /\ i + 1 = 1
      BY <2>2, <3>1 DEF PointerInv
    <3> QED BY <3>2
  <2>4. /\ \A g \in Generation : /\ runtimes'[g].pointer = runtimes[g].pointer
                                 /\ runtimes'[g].session = runtimes[g].session
                                 /\ runtimes'[g].start = "save" => runtimes[g].start = "save"
                                 /\ runtimes'[g].start = "none" <=> runtimes[g].start = "none"
        /\ UNCHANGED runtimes \/ (0 \in writes[1].waiters /\ WriteFails /\ startOperation \in Generation
                                   /\ runtimes'[startOperation].start = "unsaved")
    <3>1. CASE UNCHANGED runtimes
      BY <3>1
    <3>2. CASE ~UNCHANGED runtimes
      <4>1. /\ WriteFails /\ 0 \in writes[1].waiters
            /\ runtimes' = [runtimes EXCEPT ![startOperation] =
                              [runtimes[startOperation] EXCEPT !.start = "unsaved"]]
        BY <3>2 DEF WriteBegins, WriteEnds, WriteFails, operationVars
      <4>2. startOperation \in Generation /\ runtimes[startOperation].start = "save"
        BY <1>0, <2>2, <4>1 DEF StartWrites, SessionTypes
      <4> QED BY <1>0, <4>1, <4>2 DEF SessionTypes, RuntimeRecords
    <3> QED BY <3>1, <3>2
  <2>5. Spawned' = Spawned
    BY <2>4 DEF Spawned
  <2>6. Clean => Clean'
    <3>1. SUFFICES ASSUME Clean PROVE file' \notin forgotten
      BY <2>1, <2>3 DEF Clean
    <3> QED BY <2>1, <2>2, <3>1 DEF Clean
  <2>7. ASSUME NEW g \in Generation, Saved(g)', runtimes'[g].pointer = pointerEpoch'
        PROVE  Clean'
    <3>1. runtimes[g].start = "save" /\ runtimes[g].pointer = pointerEpoch /\ g = startOperation
      BY <1>0, <2>1, <2>4, <2>7 DEF Saved, RuntimePlaces, StartSteps
    <3>2. CASE 0 \in writes[1].waiters
      <4>1. writes[1].epoch = pointerEpoch /\ writes[1].session \notin forgotten
        BY <2>2, <3>1, <3>2 DEF PointerInv
      <4>2. WriteEnds
        <5>1. ~WriteBegins
          BY <1>2, <4>1
        <5>2. ~WriteFails
          <6>1. SUFFICES ASSUME WriteFails PROVE runtimes'[g].start # "save"
            BY <2>7 DEF Saved
          <6> QED BY <1>0, <3>1, <3>2, <6>1 DEF WriteFails, SessionTypes, RuntimeRecords
        <5> QED BY <5>1, <5>2
      <4>3. file' = writes[1].session
        BY <4>2 DEF WriteEnds
      <4> QED BY <2>1, <2>3, <4>1, <4>3 DEF Clean
    <3>3. CASE 0 \notin writes[1].waiters
      <4>1. \A i \in DOMAIN writes : 0 \notin writes[i].waiters
        BY <2>2, <2>7, <3>3 DEF Saved
      <4>2. Saved(g)
        BY <3>1, <4>1 DEF Saved
      <4> QED BY <2>6, <3>1, <4>2 DEF PointerInv
    <3> QED BY <3>2, <3>3
  <2>8. \A i \in DOMAIN writes' :
         /\ writes'[i].epoch <= pointerEpoch'
         /\ writes'[i].begun => i = 1
         /\ writes'[i].epoch = pointerEpoch' => writes'[i].session \notin forgotten'
         /\ 0 \in writes'[i].waiters => writes'[i].epoch = runtimes'[startOperation'].pointer
    <3>1. SUFFICES ASSUME NEW i \in DOMAIN writes'
                   PROVE  /\ writes'[i].epoch <= pointerEpoch
                          /\ writes'[i].epoch = pointerEpoch => writes'[i].session \notin forgotten
                          /\ 0 \in writes'[i].waiters => writes'[i].epoch = runtimes'[startOperation].pointer
      BY <2>1, <2>3
    <3>2. i + 1 \in DOMAIN writes /\ writes'[i] = writes[i + 1]
      BY <2>2, <3>1
    <3>3. 0 \in writes'[i].waiters => startOperation \in Generation
      BY <1>0, <3>2 DEF StartWrites, SessionTypes
    <3> QED BY <2>4, <3>2, <3>3 DEF PointerInv
  <2>9. ~skipStored' => Clean'
    BY <2>1, <2>6 DEF PointerInv
  <2>10. runtime' # 0 => runtime' \notin forgotten' /\ runtimes'[runtime'].session \notin forgotten'
    BY <1>0, <2>1, <2>4 DEF PointerInv, SessionTypes
  <2> QED BY <2>1, <2>4, <2>5, <2>7, <2>8, <2>9, <2>10 DEF PointerInv
<1> QED BY <1>1, <1>2

\* A write of the runtime's session joins the others.
LEMMA AppendPointers ==
    ASSUME PointerInv, SessionTypes, NEW record \in WriteRecords,
           writes' = Append(writes, record), record.epoch = pointerEpoch, ~record.begun,
           record.session \notin forgotten,
           UNCHANGED <<file, skipStored, pointerEpoch, forgotten, runtime, startOperation>>,
           Spawned' = Spawned,
           runtime # 0 => runtimes'[runtime].session \notin forgotten,
           \A g \in Generation : runtimes'[g].pointer <= pointerEpoch,
           \/ /\ 0 \in record.waiters /\ \A i \in DOMAIN writes : 0 \notin writes[i].waiters
              /\ runtimes'[startOperation].pointer = pointerEpoch
           \/ /\ 0 \notin record.waiters
              /\ \A g \in Generation : /\ runtimes'[g].start = runtimes[g].start
                                       /\ runtimes'[g].pointer = runtimes[g].pointer
              /\ startOperation \in Generation \/ \A i \in DOMAIN writes : 0 \notin writes[i].waiters
    PROVE  PointerInv'
<1>1. /\ Len(writes) \in Nat
      /\ \A i \in DOMAIN writes : i \in DOMAIN writes' /\ writes'[i] = writes[i]
      /\ Len(writes) + 1 \in DOMAIN writes' /\ writes'[Len(writes) + 1] = record
      /\ \A i \in DOMAIN writes' : i \in DOMAIN writes \/ i = Len(writes) + 1
  BY WriteAppended DEF SessionTypes
<1>2. Clean => Clean'
  BY <1>1 DEF Clean
<1>3. ASSUME NEW g \in Generation, Saved(g)', runtimes'[g].pointer = pointerEpoch'
      PROVE  Clean'
  BY <1>1, <1>2, <1>3 DEF PointerInv, Saved
<1>4. ASSUME NEW i \in DOMAIN writes'
      PROVE  /\ writes'[i].epoch <= pointerEpoch'
             /\ writes'[i].begun => i = 1
             /\ writes'[i].epoch = pointerEpoch' => writes'[i].session \notin forgotten'
             /\ 0 \in writes'[i].waiters => writes'[i].epoch = runtimes'[startOperation'].pointer
  <2>1. CASE i \in DOMAIN writes
    BY <1>1, <2>1 DEF PointerInv
  <2>2. CASE i = Len(writes) + 1
    <3>1. pointerEpoch <= pointerEpoch
      BY DEF SessionTypes
    <3> QED BY <1>1, <2>2, <3>1
  <2> QED BY <1>1, <2>1, <2>2
<1>5. ~skipStored' => Clean'
  BY <1>2 DEF PointerInv
<1>6. runtime' # 0 => runtime' \notin forgotten' /\ runtimes'[runtime'].session \notin forgotten'
  BY DEF PointerInv
<1> QED BY <1>3, <1>4, <1>5, <1>6 DEF PointerInv

\* A start resumes what is stored only when it was not forgotten, and saves its own.
LEMMA SessionOpensPointers ==
    ASSUME RunsInv, PointerInv, NEW g \in Generation, SessionOpens(g)
    PROVE  PointerInv'
<1>0. /\ SessionTypes /\ RuntimePlaces /\ StartWrites /\ runtimes[g] \in RuntimeRecords
      /\ runtimes \in [Generation -> RuntimeRecords] /\ file \in Nat /\ pointerEpoch \in Nat
      /\ g \in Nat /\ g # 0
  BY DEF RunsInv, RunInv, SessionTypes, Generation
<1>1. /\ runtimes[g].start = "open" /\ g = startOperation /\ g \in Spawned
      /\ UNCHANGED forgotten
  BY <1>0, SessionOpensEffect DEF RuntimePlaces, StartSteps, Spawned
<1>2. \A i \in DOMAIN writes : 0 \notin writes[i].waiters
  BY <1>0, <1>1 DEF StartWrites
<1>3. ASSUME NEW session \in Nat,
             Dispose([runtimes EXCEPT ![g] = [runtimes[g] EXCEPT !.start = "failing",
                                                !.session = session]], g),
             UNCHANGED <<startOperation, pointerVars>>
      PROVE  PointerInv'
  <2> DEFINE failing == [runtimes[g] EXCEPT !.start = "failing", !.session = session]
             rs == [runtimes EXCEPT ![g] = failing]
  <2>1. /\ failing \in RuntimeRecords /\ failing.dispose = runtimes[g].dispose
        /\ failing.start = "failing" /\ failing.pointer = runtimes[g].pointer
    BY <1>0 DEF RuntimeRecords, StartSteps
  <2> HIDE DEF failing
  <2>2. /\ rs \in [Generation -> RuntimeRecords] /\ rs[g] = failing
        /\ \A h \in Generation \ {g} : rs[h] = runtimes[h]
    BY <1>0, <2>1
  <2>3. Dispose(rs, g)
    BY <1>3 DEF failing
  <2> HIDE DEF rs
  <2> QED BY <1>0, <1>1, <1>2, <1>3, <2>1, <2>2, <2>3, DisposePointers
<1>4. ASSUME ~Superseded(g), ~skipStored, startOperation' = 0,
             UNCHANGED <<runtime, pointerVars>>,
             runtimes' = [runtimes EXCEPT ![g] = [runtimes[g] EXCEPT !.start = "ok",
                             !.session = file, !.epoch = 0]]
      PROVE  PointerInv'
  <2>1. /\ \A h \in Generation \ {g} : runtimes'[h] = runtimes[h]
        /\ runtimes'[g].start = "ok" /\ runtimes'[g].session = file
        /\ runtimes'[g].pointer = runtimes[g].pointer
    BY <1>0, <1>4 DEF RuntimeRecords
  <2>2. Spawned \subseteq Spawned'
    BY <2>1 DEF Spawned
  <2>3. runtime = g
    BY <1>4 DEF Superseded
  <2>4. file \notin forgotten
    BY <1>4 DEF PointerInv, Clean
  <2> QED BY <1>0, <1>1, <1>2, <1>4, <2>1, <2>2, <2>3, <2>4, PointerRests
             DEF PointerInv, pointerVars
<1>5. ASSUME ~Superseded(g),
             runtimes' = [runtimes EXCEPT ![g] = [runtimes[g] EXCEPT !.start = "save",
                             !.session = g, !.pointer = pointerEpoch]],
             writes' = Append(writes, [session |-> g, epoch |-> pointerEpoch,
                                       begun |-> FALSE, waiters |-> {0}]),
             UNCHANGED <<runtime, startOperation, file, skipStored, pointerEpoch>>
      PROVE  PointerInv'
  <2> DEFINE write == [session |-> g, epoch |-> pointerEpoch, begun |-> FALSE, waiters |-> {0}]
  <2>1. /\ write \in WriteRecords /\ write.epoch = pointerEpoch /\ ~write.begun
        /\ write.session = g /\ 0 \in write.waiters
    BY <1>0 DEF WriteRecords
  <2>2. writes' = Append(writes, write)
    BY <1>5
  <2> HIDE DEF write
  <2>3. /\ \A h \in Generation \ {g} : runtimes'[h] = runtimes[h]
        /\ runtimes'[g].start = "save" /\ runtimes'[g].session = g
        /\ runtimes'[g].pointer = pointerEpoch
    BY <1>0, <1>5 DEF RuntimeRecords
  <2>4. Spawned' = Spawned
    BY <1>1, <2>3 DEF Spawned
  <2>5. runtime = g /\ g \notin forgotten
    BY <1>0, <1>5 DEF Superseded, PointerInv
  <2>6. \A h \in Generation : runtimes'[h].pointer <= pointerEpoch
    <3>1. pointerEpoch <= pointerEpoch
      BY <1>0
    <3>2. \A h \in Generation : runtimes[h].pointer <= pointerEpoch
      BY DEF PointerInv
    <3> QED BY <2>3, <3>1, <3>2
  <2> QED BY <1>0, <1>1, <1>2, <1>5, <2>1, <2>2, <2>3, <2>4, <2>5, <2>6, AppendPointers
<1> QED BY <1>3, <1>4, <1>5, SessionOpensEffect

\* The save of a pointer that is not stale makes what is stored the runtime's own.
LEMMA PointerSavedPointers ==
    ASSUME RunsInv, PointerInv, NEW g \in Generation, PointerSaved(g)
    PROVE  PointerInv'
<1>0. /\ SessionTypes /\ runtimes[g] \in RuntimeRecords /\ runtimes \in [Generation -> RuntimeRecords]
      /\ pointerEpoch \in Nat /\ skipStored \in BOOLEAN
  BY DEF RunsInv, RunInv, SessionTypes
<1>1. /\ Saved(g) /\ startOperation' = 0
      /\ UNCHANGED <<runtime, file, writes, pointerEpoch, forgotten>>
      /\ runtimes' = [runtimes EXCEPT ![g] = [runtimes[g] EXCEPT !.start = "ok", !.epoch = 0, !.pointer = 0]]
  BY <1>0 DEF PointerSaved, startRest
<1>2. ~skipStored' => ~skipStored \/ runtimes[g].pointer = pointerEpoch
  BY <1>0 DEF PointerSaved
<1>3. /\ \A h \in Generation \ {g} : runtimes'[h] = runtimes[h]
      /\ runtimes'[g].start = "ok" /\ runtimes'[g].pointer = 0
      /\ runtimes'[g].session = runtimes[g].session
  BY <1>0, <1>1 DEF RuntimeRecords
<1>4. Spawned' = Spawned
  BY <1>1, <1>3 DEF Spawned, Saved
<1>5. ~skipStored' => Clean'
  <2>1. ~skipStored' => Clean
    BY <1>1, <1>2 DEF PointerInv
  <2> QED BY <1>1, <2>1 DEF Clean
<1>6. ASSUME NEW h \in Generation, Saved(h)', runtimes'[h].pointer = pointerEpoch'
      PROVE  Clean'
  <2>1. h # g /\ Saved(h) /\ runtimes[h].pointer = pointerEpoch
    BY <1>1, <1>3, <1>6 DEF Saved
  <2> QED BY <1>1, <2>1 DEF PointerInv, Clean
<1>7. \A h \in Generation : runtimes'[h].pointer <= pointerEpoch'
  BY <1>0, <1>1, <1>3 DEF PointerInv
<1>8. \A i \in DOMAIN writes' :
         /\ writes'[i].epoch <= pointerEpoch'
         /\ writes'[i].begun => i = 1
         /\ writes'[i].epoch = pointerEpoch' => writes'[i].session \notin forgotten'
         /\ 0 \in writes'[i].waiters => writes'[i].epoch = runtimes'[startOperation'].pointer
  BY <1>1 DEF PointerInv, Saved
<1>9. runtime' # 0 => runtime' \notin forgotten' /\ runtimes'[runtime'].session \notin forgotten'
  BY <1>0, <1>1, <1>3 DEF PointerInv, SessionTypes
<1> QED BY <1>1, <1>4, <1>5, <1>6, <1>7, <1>8, <1>9 DEF PointerInv

\* A call that waits for the writes changes none of them.
LEMMA StoppedPointers ==
    ASSUME AcpAssumption, RunsInv, PointerInv, NEW c \in Call \cup Turn, Stopped(c)
    PROVE  PointerInv'
<1>1. /\ UNCHANGED <<operationVars, file, skipStored, pointerEpoch, forgotten>>
      /\ writes' = [i \in DOMAIN writes |-> [writes[i] EXCEPT !.waiters = @ \cup {c}]]
  BY DEF Stopped, resumeRest
<1>2. c # 0
  BY DEF AcpAssumption, Call
<1>3. ASSUME NEW i \in DOMAIN writes
      PROVE  /\ writes'[i].session = writes[i].session /\ writes'[i].epoch = writes[i].epoch
             /\ writes'[i].begun <=> writes[i].begun
             /\ 0 \in writes'[i].waiters <=> 0 \in writes[i].waiters
  <2>1. Len(writes) \in Nat /\ DOMAIN writes = 1 .. Len(writes)
    BY LenProperties DEF RunsInv, RunInv, SessionTypes
  <2>2. writes[i] \in WriteRecords
    BY <2>1, ElementOfSeq DEF RunsInv, RunInv, SessionTypes
  <2>3. writes'[i] = [writes[i] EXCEPT !.waiters = writes[i].waiters \cup {c}]
    BY <1>1
  <2> QED BY <1>2, <2>2, <2>3 DEF WriteRecords
<1>4. DOMAIN writes' = DOMAIN writes
  BY <1>1
<1>5. /\ Clean => Clean'
      /\ \A g \in Generation : Saved(g)' => Saved(g)
      /\ Spawned' = Spawned
  <2>1. Clean => Clean'
    <3>1. SUFFICES ASSUME Clean, NEW i \in DOMAIN writes, writes'[i].begun
                   PROVE  writes'[i].session \notin forgotten
      BY <1>1, <1>4 DEF Clean, operationVars
    <3>2. writes[i].begun /\ writes'[i].session = writes[i].session
      BY <1>3, <3>1
    <3> QED BY <3>1, <3>2 DEF Clean
  <2>2. \A g \in Generation : Saved(g)' => Saved(g)
    BY <1>1, <1>3, <1>4 DEF Saved, operationVars
  <2>3. Spawned' = Spawned
    BY <1>1 DEF Spawned, operationVars
  <2> QED BY <2>1, <2>2, <2>3
<1>6. \A i \in DOMAIN writes' :
         /\ writes'[i].epoch <= pointerEpoch'
         /\ writes'[i].begun => i = 1
         /\ writes'[i].epoch = pointerEpoch' => writes'[i].session \notin forgotten'
         /\ 0 \in writes'[i].waiters => writes'[i].epoch = runtimes'[startOperation'].pointer
  BY <1>1, <1>3, <1>4 DEF PointerInv, operationVars
<1>7. /\ ~skipStored' => Clean'
      /\ \A g \in Generation : Saved(g)' /\ runtimes'[g].pointer = pointerEpoch' => Clean'
  BY <1>1, <1>5 DEF PointerInv, operationVars
<1> QED BY <1>1, <1>5, <1>6, <1>7 DEF PointerInv, operationVars

\* A turn that has ended saves the session of the runtime, which was not forgotten.
LEMMA TurnPointers ==
    ASSUME RunsInv, TurnTypes, LockPlaces, PointerInv, NEW t \in Turn, TurnStep(t)
    PROVE  PointerInv'
<1>0. /\ SessionTypes /\ pointerEpoch \in Nat
      /\ startOperation \in Generation \/ \A i \in DOMAIN writes : 0 \notin writes[i].waiters
  BY StartOfWrites DEF RunsInv, RunInv, SessionTypes
<1>1. /\ UNCHANGED <<runtime, startOperation, file, skipStored, pointerEpoch, forgotten>>
      /\ \A g \in Generation : /\ runtimes'[g].start = runtimes[g].start
                               /\ runtimes'[g].session = runtimes[g].session
                               /\ runtimes'[g].pointer = runtimes[g].pointer
      /\ \/ UNCHANGED writes
         \/ /\ runtime # 0
            /\ writes' = Append(writes, [session |-> runtimes[runtime].session,
                                         epoch |-> pointerEpoch, begun |-> FALSE, waiters |-> {}])
  BY <1>0, TurnStepLeaves DEF SessionRests
<1>2. Spawned' = Spawned
  BY <1>1, SameSpawned
<1>3. runtime # 0 => runtime \in Generation /\ runtimes'[runtime].session = runtimes[runtime].session
                       /\ runtimes[runtime].session \notin forgotten /\ runtime \notin forgotten
  BY <1>0, <1>1 DEF PointerInv, SessionTypes
<1>4. CASE UNCHANGED writes
  BY <1>0, <1>1, <1>2, <1>3, <1>4, PointerRests DEF PointerInv
<1>5. CASE /\ runtime # 0
           /\ writes' = Append(writes, [session |-> runtimes[runtime].session,
                                        epoch |-> pointerEpoch, begun |-> FALSE, waiters |-> {}])
  <2> DEFINE write == [session |-> runtimes[runtime].session, epoch |-> pointerEpoch,
                       begun |-> FALSE, waiters |-> {}]
  <2>1. runtimes[runtime] \in RuntimeRecords
    BY <1>0, <1>3, <1>5 DEF SessionTypes
  <2>2. /\ write \in WriteRecords /\ write.epoch = pointerEpoch /\ ~write.begun
        /\ write.session = runtimes[runtime].session /\ 0 \notin write.waiters
    BY <1>0, <2>1 DEF WriteRecords, RuntimeRecords
  <2>3. writes' = Append(writes, write)
    BY <1>5
  <2> HIDE DEF write
  <2>4. \A g \in Generation : runtimes'[g].pointer <= pointerEpoch
    BY <1>1 DEF PointerInv
  <2> QED BY <1>0, <1>1, <1>2, <1>3, <1>5, <2>2, <2>3, <2>4, AppendPointers
<1> QED BY <1>1, <1>4, <1>5

\* Every step keeps what was forgotten out of what is stored.
LEMMA PointerStep ==
    ASSUME AcpAssumption, RunsInv, TurnTypes, LockPlaces, PointerInv, [Next]_vars
    PROVE  PointerInv'
<1>0. /\ SessionTypes /\ RuntimePlaces /\ StartWrites /\ runtimes \in [Generation -> RuntimeRecords]
      /\ startOperation \in Generation \/ \A i \in DOMAIN writes : 0 \notin writes[i].waiters
  BY StartOfWrites DEF RunsInv, RunInv, SessionTypes
<1>1. ASSUME UNCHANGED <<runtimes, runtime, startOperation, writes, skipStored, pointerEpoch, forgotten>>,
             file' \in {file, 0}
      PROVE  PointerInv'
  BY <1>0, <1>1, PointerRests DEF PointerInv, Spawned
<1>2. ASSUME NEW c \in Call \cup Turn, Stopped(c) PROVE PointerInv'
  BY <1>2, StoppedPointers
<1>3. ASSUME NEW c \in Call \cup Turn,
             PointerSettled(c) \/ PointerCleared(c) \/ EnsureAgain(c) \/ EnsureWaits(c)
      PROVE PointerInv'
  BY <1>1, <1>3 DEF PointerSettled, PointerCleared, EnsureAgain, EnsureWaits, resumeRest,
                    operationVars, pointerVars
<1>4. ASSUME NEW c \in Call \cup Turn, EnsureStarts(c) PROVE PointerInv'
  <2>1. /\ runtime' \notin Spawned /\ Spawned \subseteq Spawned' /\ runtime' \in Generation
        /\ runtimes'[runtime'].session = 0
    BY <1>4, EnsureStartsKeeps
  <2>2. /\ UNCHANGED <<file, writes, skipStored, pointerEpoch, forgotten>> /\ startOperation = 0
    BY <1>4 DEF EnsureStarts, StartOwnedRuntime, resumeRest, pointerVars
  <2>3. /\ runtimes'[runtime'].start = "open" /\ runtimes'[runtime'].pointer = 0
        /\ \A h \in Generation \ {runtime'} : runtimes'[h] = runtimes[h]
    BY <1>0, <1>4, <2>1 DEF EnsureStarts, StartOwnedRuntime, NoRuntime
  <2>4. runtime' \notin forgotten /\ 0 \notin forgotten
    BY <2>1 DEF PointerInv, Spawned, Generation
  <2>5. pointerEpoch \in Nat /\ \A i \in DOMAIN writes : 0 \notin writes[i].waiters
    BY <1>0, <2>2 DEF SessionTypes, StartWrites
  <2>6. \A h \in Generation :
          /\ runtimes'[h].pointer <= pointerEpoch
          /\ runtimes'[h].start = "save" =>
               runtimes[h].start = "save" /\ runtimes'[h].pointer = runtimes[h].pointer
    BY <2>3, <2>5 DEF PointerInv
  <2> QED BY <1>0, <2>1, <2>2, <2>4, <2>5, <2>6, PointerRests
<1>5. CASE Start
  BY <1>1, <1>5 DEF Start, Calls, operationVars
<1>6. CASE Stop
  <2>1. UNCHANGED <<pointerVars, forgotten>> /\ \E call : StopCurrentRuntime(NextCall, call)
    BY <1>6 DEF Stop, Calls, pointerVars
  <2> QED BY <2>1, StopCurrentRuntimePointers
<1>7. CASE Restart \/ DiscardSession
  BY <1>7, ForgetPointers
<1>8. CASE WriteBegins \/ WriteEnds \/ WriteFails
  BY <1>8, WritePointers
<1>9. ASSUME NEW g \in Generation, DisposeEnds(g) PROVE PointerInv'
  <2>1. /\ UNCHANGED <<runtime, startOperation, writes, file, skipStored, pointerEpoch, forgotten>>
        /\ \E dispose \in {"over", "failed"} : runtimes' = [runtimes EXCEPT ![g].dispose = dispose]
    BY <1>9 DEF DisposeEnds, pointerVars
  <2>2. \A h \in Generation : /\ runtimes'[h].start = runtimes[h].start
                              /\ runtimes'[h].session = runtimes[h].session
                              /\ runtimes'[h].pointer = runtimes[h].pointer
    BY <1>0, <2>1 DEF RuntimeRecords
  <2>3. Spawned' = Spawned
    BY <2>2, SameSpawned
  <2>4. runtime # 0 => runtime \notin forgotten /\ runtimes'[runtime].session \notin forgotten
    BY <1>0, <2>2 DEF PointerInv, SessionTypes
  <2> QED BY <1>0, <2>1, <2>2, <2>3, <2>4, PointerRests DEF PointerInv
<1>10. ASSUME NEW g \in Generation, RuntimeExits(g) PROVE PointerInv'
  <2>1. Dispose(runtimes, g) /\ g \in Spawned /\ UNCHANGED <<pointerVars, forgotten, startOperation>>
    BY <1>10 DEF RuntimeExits
  <2> QED BY <1>0, <2>1, DisposePointers
<1>11. ASSUME NEW g \in Generation, StartFails(g) \/ PointerNotSaved(g) PROVE PointerInv'
  <2> DEFINE rs == [runtimes EXCEPT ![g].start = "failing"]
  <2>1. /\ rs \in [Generation -> RuntimeRecords] /\ rs[g].dispose = runtimes[g].dispose
        /\ rs[g].pointer = runtimes[g].pointer /\ rs[g].start = "failing"
        /\ \A h \in Generation \ {g} : rs[h] = runtimes[h]
    BY <1>0 DEF RuntimeRecords, StartSteps
  <2>2. Dispose(rs, g) /\ g \in Spawned /\ UNCHANGED <<pointerVars, forgotten, startOperation>>
    BY <1>11 DEF StartFails, PointerNotSaved, startRest, Spawned
  <2> HIDE DEF rs
  <2> QED BY <1>0, <2>1, <2>2, DisposePointers
<1>12. ASSUME NEW g \in Generation, SessionOpens(g) PROVE PointerInv'
  BY <1>12, SessionOpensPointers
<1>13. ASSUME NEW g \in Generation, PointerSaved(g) PROVE PointerInv'
  BY <1>13, PointerSavedPointers
<1>14. ASSUME NEW g \in Generation, StartFailed(g) PROVE PointerInv'
  <2>1. /\ UNCHANGED <<runtime, writes, file, skipStored, pointerEpoch, forgotten>>
        /\ runtimes[g].start = "failing" /\ g = startOperation
        /\ runtimes' = [runtimes EXCEPT ![g].start = "failed"]
    BY <1>0, <1>14 DEF StartFailed, startRest, pointerVars, RuntimePlaces, StartSteps
  <2>2. /\ \A h \in Generation : /\ runtimes'[h].session = runtimes[h].session
                                 /\ runtimes'[h].pointer = runtimes[h].pointer
                                 /\ h # g => runtimes'[h] = runtimes[h]
        /\ runtimes'[g].start = "failed"
    BY <1>0, <2>1 DEF RuntimeRecords
  <2>3. Spawned' = Spawned /\ \A i \in DOMAIN writes : 0 \notin writes[i].waiters
    BY <1>0, <2>1, <2>2 DEF Spawned, StartWrites
  <2>4. runtime # 0 => runtime \notin forgotten /\ runtimes'[runtime].session \notin forgotten
    BY <1>0, <2>2 DEF PointerInv, SessionTypes
  <2> QED BY <1>0, <2>1, <2>2, <2>3, <2>4, PointerRests DEF PointerInv
<1>15. ASSUME NEW t \in Turn, TurnStep(t) PROVE PointerInv'
  BY <1>15, TurnPointers
<1>16. ASSUME NEW t \in Turn, Restarts(t) PROVE PointerInv'
  <2>1. UNCHANGED <<pointerVars, forgotten>> /\ \E call : StopCurrentRuntime(t, call)
    BY <1>16, RestartsEffect
  <2> QED BY <2>1, StopCurrentRuntimePointers
<1>17. CASE ConsentStep \/ UNCHANGED vars
  BY <1>1, <1>17
     DEF ConsentStep, ConsentExpires, Confirm, consentRest, vars, operationVars, pointerVars
<1> QED BY <1>2, <1>3, <1>4, <1>5, <1>6, <1>7, <1>8, <1>9, <1>10, <1>11, <1>12, <1>13, <1>14,
           <1>15, <1>16, <1>17, NextSteps

\* At first nothing is stored and nothing was forgotten.
LEMMA PointerInit ==
    ASSUME Init
    PROVE  PointerInv
<1>1. \A g \in Generation : runtimes[g] = NoRuntime
  BY DEF Init
<1>2. /\ forgotten = {} /\ runtime = 0 /\ writes = <<>> /\ pointerEpoch = 0 /\ skipStored = FALSE
  BY DEF Init
<1>3. Clean
  BY <1>2 DEF Clean
<1> QED BY <1>1, <1>2, <1>3 DEF PointerInv, NoRuntime

-----------------------------------------------------------------------------
SessionInv == RunsInv /\ StopCalls /\ PointerInv /\ LockInv

\* However starts, stops, restarts, discards, turns, cancellations and writes of the
\* pointer interleave, whichever of them fail: at most one agent is alive and none after
\* the last stop, a session never has two prompts open, and the session of the runtime
\* is one that nobody has discarded or restarted away.
THEOREM SessionAlwaysSound ==
    ASSUME AcpAssumption
    PROVE  Spec => []SessionIsSound
<1>1. Init => SessionInv
  BY RunsInit, StopsInit, PointerInit, LockInit DEF SessionInv
<1>2. SessionInv /\ [Next]_vars => SessionInv'
  <2>1. SUFFICES ASSUME SessionInv, [Next]_vars PROVE SessionInv'
    OBVIOUS
  <2>2. RunsInv /\ StopCalls /\ PointerInv /\ LockInv /\ TurnTypes /\ LockPlaces
    BY <2>1 DEF SessionInv, LockInv
  <2>3. RunsInv'
    BY <2>1, <2>2, RunsStep
  <2>4. StopCalls'
    BY <2>1, <2>2, StopsStep
  <2>5. PointerInv'
    BY <2>1, <2>2, PointerStep
  <2>6. LockInv'
    BY <2>1, <2>2, LockStep
  <2> QED BY <2>3, <2>4, <2>5, <2>6 DEF SessionInv
<1>3. SessionInv => SessionIsSound
  <2>1. SUFFICES ASSUME SessionInv PROVE SessionIsSound
    OBVIOUS
  <2>2. OneAgent /\ OnePrompt
    BY <2>1, AgentIsOne DEF SessionInv, LockInv
  <2>3. ForgottenStays
    BY <2>1 DEF SessionInv, PointerInv, ForgottenStays
  <2> QED BY <2>2, <2>3 DEF SessionIsSound, SessionIsSerial
<1> QED BY <1>1, <1>2, <1>3, PTL DEF Spec

-----------------------------------------------------------------------------
(* Confirmations *)

\* A gate that is pending or granted is one of this session; the granted one was
\* approved, and neither has let a call through.
Untouched(g) == \A i \in DOMAIN allowed : allowed[i].gate # g

ConsentTypes ==
    /\ runtime \in Generation \cup {0}
    /\ gates \in Seq([operation : Operation, runtime : Generation])
    /\ allowed \in Seq([gate : Nat, operation : Operation, runtime : Generation])
    /\ pendingGate \in 0 .. Len(gates) /\ grantedGate \in 0 .. Len(gates)

GatesOfSession ==
    /\ \A i \in DOMAIN allowed : allowed[i].gate \in DOMAIN gates
    /\ pendingGate # 0 => /\ gates[pendingGate].runtime = runtime
                          /\ Untouched(pendingGate) /\ pendingGate # grantedGate
    /\ grantedGate # 0 => /\ gates[grantedGate].runtime = runtime
                          /\ grantedGate \in approved /\ Untouched(grantedGate)

ConsentInv == ConsentTypes /\ GatesOfSession /\ ConsentIsExact

\* The steps that give no answer to a gate: either the session stays, or its
\* confirmations go with it.
SessionStep ==
    /\ UNCHANGED gateVars
    /\ \/ UNCHANGED <<runtime, consentVars>>
       \/ runtime' \in Generation \cup {0} /\ ClearConfirmationState

\* A step that answers no gate lets no call through.
LEMMA SessionStepKeeps ==
    ASSUME ConsentInv, SessionStep
    PROVE  ConsentInv'
<1> USE DEF ConsentInv, SessionStep, gateVars, consentVars, ClearConfirmationState
<1>1. ConsentTypes'
  BY DEF ConsentTypes
<1>2. GatesOfSession'
  BY DEF ConsentTypes, GatesOfSession, Untouched
<1>3. ConsentIsExact'
  BY DEF ConsentIsExact
<1> QED BY <1>1, <1>2, <1>3

\* A disposal clears the confirmations with the runtime.
LEMMA DisposeIsSessionStep ==
    ASSUME NEW rs, NEW g, Dispose(rs, g), UNCHANGED gateVars
    PROVE  SessionStep
BY DEF Dispose, SessionStep, ClearConfirmationState

\* So does stopCurrentRuntime().
LEMMA StopCurrentRuntimeIsSessionStep ==
    ASSUME NEW c, NEW call, StopCurrentRuntime(c, call), UNCHANGED gateVars
    PROVE  SessionStep
BY DisposeIsSessionStep DEF StopCurrentRuntime, SessionStep

\* A call that goes on answers no gate.
LEMMA ContinuesIsSessionStep ==
    ASSUME NEW c, Continues(c)
    PROVE  SessionStep
<1> USE DEF SessionStep, resumeRest, operationVars
<1>1. CASE Stopped(c) \/ PointerSettled(c) \/ EnsureAgain(c) \/ EnsureWaits(c)
  BY <1>1 DEF Stopped, PointerSettled, EnsureAgain, EnsureWaits
<1>2. CASE EnsureStarts(c)
  BY <1>2 DEF EnsureStarts, StartOwnedRuntime
<1> QED BY <1>1, <1>2 DEF Continues

\* Nor does a new call.
LEMMA CallsAreSessionSteps ==
    ASSUME Start \/ Stop \/ Restart \/ DiscardSession
    PROVE  SessionStep
<1>1. CASE Start
  BY <1>1 DEF Start, Calls, SessionStep, operationVars
<1>2. CASE Stop \/ Restart \/ DiscardSession
  BY <1>2, StopCurrentRuntimeIsSessionStep DEF Stop, Restart, DiscardSession, Calls
<1> QED BY <1>1, <1>2

\* Nor do the steps of a runtime.
LEMMA RuntimesAreSessionSteps ==
    ASSUME NEW g \in Generation,
           \/ DisposeEnds(g) \/ RuntimeExits(g) \/ StartFails(g)
           \/ SessionOpens(g) \/ PointerSaved(g) \/ PointerNotSaved(g) \/ StartFailed(g)
    PROVE  SessionStep
<1> USE DEF startRest
<1>1. CASE DisposeEnds(g) \/ PointerSaved(g) \/ StartFailed(g)
  BY <1>1 DEF DisposeEnds, PointerSaved, StartFailed, SessionStep
<1>2. CASE RuntimeExits(g) \/ StartFails(g) \/ PointerNotSaved(g)
  BY <1>2, DisposeIsSessionStep DEF RuntimeExits, StartFails, PointerNotSaved
<1>3. CASE SessionOpens(g)
  <2>1. UNCHANGED gateVars
    BY <1>3 DEF SessionOpens
  <2>2. \/ \E rs : Dispose(rs, g)
        \/ UNCHANGED <<runtime, consentVars>>
    BY <1>3 DEF SessionOpens
  <2> QED BY <2>1, <2>2, DisposeIsSessionStep DEF SessionStep
<1> QED BY <1>1, <1>2, <1>3

\* Nor do the steps of turns that neither begin to stream nor ask.
LEMMA TurnsAreSessionSteps ==
    ASSUME NEW t \in Turn,
           \/ \E compacts \in BOOLEAN : Reserve(t, compacts)
           \/ Gives(t) \/ PromptSettles(t) \/ CallerAborts(t) \/ StreamEnds(t)
           \/ Retry(t) \/ CancellationSettles(t) \/ CancellationTimesOut(t)
    PROVE  SessionStep
<1>1. CASE CancellationTimesOut(t)
  BY <1>1, StopCurrentRuntimeIsSessionStep
     DEF CancellationTimesOut, SessionStep, operationVars, gateVars
<1>2. CASE \E compacts \in BOOLEAN : Reserve(t, compacts)
  BY <1>2 DEF Reserve, SessionStep
<1>3. CASE Gives(t) \/ PromptSettles(t) \/ CallerAborts(t)
  BY <1>3 DEF Gives, PromptSettles, CallerAborts, SessionStep
<1>4. CASE StreamEnds(t) \/ Retry(t) \/ CancellationSettles(t)
  BY <1>4 DEF StreamEnds, Retry, CancellationSettles, SessionStep
<1> QED BY <1>1, <1>2, <1>3, <1>4

\* Nor do the writes of the pointer.
LEMMA WritesAreSessionSteps ==
    ASSUME \/ WriteBegins \/ WriteEnds \/ WriteFails \/ UNCHANGED vars
           \/ \E c \in Call \cup Turn : PointerCleared(c)
    PROVE  SessionStep
BY DEF WriteBegins, WriteEnds, WriteFails, PointerCleared, vars, SessionStep, operationVars,
       resumeRest

\* An answer moves the gate it names out of pending.
LEMMA ResolveKeeps ==
    ASSUME ConsentInv, NEW yes \in BOOLEAN, pendingGate # 0, Resolve(pendingGate, yes),
           UNCHANGED runtime
    PROVE  ConsentInv'
<1> USE DEF ConsentInv, Resolve
<1>1. ConsentTypes'
  BY DEF ConsentTypes
<1>2. GatesOfSession'
  BY DEF ConsentTypes, GatesOfSession, Untouched
<1>3. ConsentIsExact'
  BY DEF ConsentIsExact
<1> QED BY <1>1, <1>2, <1>3

\* A gate that expires is gone, and its approval with it.
LEMMA ExpiresKeeps ==
    ASSUME ConsentInv, ConsentExpires
    PROVE  ConsentInv'
<1> USE DEF ConsentInv, ConsentExpires, consentRest, operationVars, gateVars
<1>1. ConsentTypes'
  BY DEF ConsentTypes
<1>2. GatesOfSession'
  BY DEF ConsentTypes, GatesOfSession, Untouched
<1>3. ConsentIsExact'
  BY DEF ConsentIsExact
<1> QED BY <1>1, <1>2, <1>3

\* The call that was approved uses up the grant.
LEMMA AllowedKeeps ==
    ASSUME ConsentInv, NEW t \in Turn, NEW operation \in Operation,
           RequestPermission(t, operation),
           grantedGate # 0 /\ gates[grantedGate].operation = operation
    PROVE  ConsentInv'
<1> DEFINE entry == [gate |-> grantedGate, operation |-> operation, runtime |-> runtime]
<1>1. /\ allowed' = Append(allowed, entry) /\ grantedGate' = 0
      /\ UNCHANGED <<pendingGate, gates, approved, runtime>> /\ runtime # 0
  BY DEF RequestPermission, consentRest, operationVars
<1>2. entry \in [gate : Nat, operation : Operation, runtime : Generation]
  BY <1>1 DEF ConsentInv, ConsentTypes
<1>3. /\ DOMAIN allowed' = DOMAIN allowed \cup {Len(allowed) + 1}
      /\ \A i \in DOMAIN allowed : allowed'[i] = allowed[i]
      /\ allowed'[Len(allowed) + 1] = entry /\ Len(allowed) + 1 \notin DOMAIN allowed
  BY <1>1, <1>2, AppendProperties DEF ConsentInv, ConsentTypes
<1>4. ConsentTypes'
  BY <1>1, <1>2, AppendProperties DEF ConsentInv, ConsentTypes
<1>5. entry.gate = grantedGate /\ entry.operation = operation /\ entry.runtime = runtime
  OBVIOUS
<1> HIDE DEF entry
<1>6. grantedGate \in DOMAIN gates
  BY DEF ConsentInv, ConsentTypes
<1>7. GatesOfSession'
  BY <1>1, <1>3, <1>5, <1>6 DEF ConsentInv, GatesOfSession, Untouched
<1>8. ConsentIsExact'
  <2>1. ASSUME NEW i \in DOMAIN allowed'
        PROVE  /\ allowed'[i].gate \in approved
               /\ gates[allowed'[i].gate].operation = allowed'[i].operation
               /\ gates[allowed'[i].gate].runtime = allowed'[i].runtime
    BY <2>1, <1>3, <1>5 DEF ConsentInv, GatesOfSession, ConsentIsExact
  <2>2. ASSUME NEW i \in DOMAIN allowed', NEW j \in DOMAIN allowed',
               allowed'[i].gate = allowed'[j].gate
        PROVE  i = j
    BY <2>2, <1>3, <1>5 DEF ConsentInv, GatesOfSession, Untouched, ConsentIsExact
  <2> QED BY <1>1, <2>1, <2>2 DEF ConsentIsExact
<1> QED BY <1>4, <1>7, <1>8 DEF ConsentInv

\* Any other call is asked about, and the grant is gone.
LEMMA AskedKeeps ==
    ASSUME ConsentInv, NEW t \in Turn, NEW operation \in Operation,
           RequestPermission(t, operation),
           ~ (grantedGate # 0 /\ gates[grantedGate].operation = operation)
    PROVE  ConsentInv'
<1> DEFINE gate == [operation |-> operation, runtime |-> runtime]
<1>1. /\ gates' = Append(gates, gate) /\ grantedGate' = 0 /\ pendingGate' = Len(gates) + 1
      /\ UNCHANGED <<allowed, approved, runtime>> /\ runtime # 0
  BY DEF RequestPermission, consentRest, operationVars
<1>2. gate \in [operation : Operation, runtime : Generation]
  BY <1>1 DEF ConsentInv, ConsentTypes
<1>3. /\ DOMAIN gates' = DOMAIN gates \cup {Len(gates) + 1}
      /\ \A i \in DOMAIN gates : gates'[i] = gates[i]
      /\ gates'[Len(gates) + 1] = gate /\ Len(gates) + 1 \notin DOMAIN gates
      /\ Len(gates') = Len(gates) + 1 /\ Len(gates) \in Nat
  BY <1>1, <1>2, AppendProperties DEF ConsentInv, ConsentTypes
<1>4. ConsentTypes'
  BY <1>1, <1>2, <1>3, AppendProperties DEF ConsentInv, ConsentTypes
<1>5. gate.runtime = runtime
  OBVIOUS
<1> HIDE DEF gate
<1>7. GatesOfSession'
  BY <1>1, <1>3, <1>5 DEF ConsentInv, GatesOfSession, Untouched
<1>8. ConsentIsExact'
  BY <1>1, <1>3 DEF ConsentInv, GatesOfSession, ConsentIsExact
<1> QED BY <1>4, <1>7, <1>8 DEF ConsentInv

\* Every step keeps the consent exact.
LEMMA ConsentNext ==
    ASSUME ConsentInv, [Next]_vars
    PROVE  ConsentInv'
<1>1. ASSUME NEW c \in Call \cup Turn, Continues(c) PROVE ConsentInv'
  BY <1>1, ContinuesIsSessionStep, SessionStepKeeps
<1>2. CASE \/ Start \/ Stop \/ Restart \/ DiscardSession
  BY <1>2, CallsAreSessionSteps, SessionStepKeeps
<1>3. CASE \/ WriteBegins \/ WriteEnds \/ WriteFails \/ UNCHANGED vars
           \/ \E c \in Call \cup Turn : PointerCleared(c)
  BY <1>3, WritesAreSessionSteps, SessionStepKeeps
<1>4. CASE ConsentExpires
  BY <1>4, ExpiresKeeps
<1>5. CASE \E g \in Generation :
              \/ DisposeEnds(g) \/ RuntimeExits(g) \/ StartFails(g)
              \/ SessionOpens(g) \/ PointerSaved(g) \/ PointerNotSaved(g) \/ StartFailed(g)
  BY <1>5, RuntimesAreSessionSteps, SessionStepKeeps
<1>6. CASE \E t \in Turn :
              \/ \E compacts \in BOOLEAN : Reserve(t, compacts)
              \/ Gives(t) \/ PromptSettles(t) \/ CallerAborts(t) \/ StreamEnds(t)
              \/ Retry(t) \/ CancellationSettles(t) \/ CancellationTimesOut(t)
  BY <1>6, TurnsAreSessionSteps, SessionStepKeeps
<1>7. ASSUME NEW t \in Turn, Acquire(t) PROVE ConsentInv'
  <2>1. UNCHANGED runtime
    BY <1>7 DEF Acquire
  <2>2. CASE UNCHANGED <<consentVars, gateVars>>
    BY <2>1, <2>2, SessionStepKeeps DEF SessionStep
  <2>3. CASE pendingGate # 0 /\ \E yes \in BOOLEAN : Resolve(pendingGate, yes)
    BY <2>1, <2>3, ResolveKeeps
  <2> QED BY <1>7, <2>2, <2>3 DEF Acquire
<1>8. ASSUME NEW t \in Turn, NEW operation \in Operation, RequestPermission(t, operation)
      PROVE  ConsentInv'
  BY <1>8, AllowedKeeps, AskedKeeps
<1>9. ASSUME NEW nonce \in DOMAIN gates, NEW yes \in BOOLEAN, Confirm(nonce, yes)
      PROVE  ConsentInv'
  BY <1>9, ResolveKeeps DEF Confirm, consentRest, operationVars
<1> QED BY <1>1, <1>2, <1>3, <1>4, <1>5, <1>6, <1>7, <1>8, <1>9 DEF Next

\* No guarded call is allowed but the one that was approved, in the session that
\* asked, and once; whatever starts, stops, times out and answers meanwhile.
THEOREM ConsentAlwaysExact == Spec => []ConsentIsExact
<1>1. Init => ConsentInv
  BY DEF Init, ConsentInv, ConsentTypes, GatesOfSession, ConsentIsExact, Untouched
<1>2. ConsentInv /\ [Next]_vars => ConsentInv'
  BY ConsentNext
<1>3. ConsentInv => ConsentIsExact
  BY DEF ConsentInv
<1> QED BY <1>1, <1>2, <1>3, PTL DEF Spec
=============================================================================
