--------------------------- MODULE DaemonPidProofs ---------------------------
(***************************************************************************)
(* Proofs about DaemonPid, for any number of starters, other programs,     *)
(* pids, attempts and crashes: the marker names the daemon that serves,    *)
(* recovery from a crash is never refused, a live marker is removed by its *)
(* own process alone, and stop signals nothing but the daemon.             *)
(*                                                                         *)
(* The heart of the invariant is what a starter may rely on at the last    *)
(* step of its removal of a stale marker, when it unlinks whatever is at   *)
(* the path.  The record it read is of a process that is gone for good     *)
(* (Stale).  That the path still holds this record then is MarkerOwned; it *)
(* fails only when two claims recover from a crash at the same time, and   *)
(* without a crash no starter gets that far, because every marker is of a  *)
(* process that is alive (NobodyDied).                                     *)
(***************************************************************************)
EXTENDS DaemonPid, TLAPS

\* A process that serves, or is about to remove its own marker.
Owning == {"serving", "releasePin", "releaseCompare", "releaseUnlink"}

\* The steps at which a starter knows a record it wants to retire.
Retiring == {"identify", "reread", "reidentify", "pin", "compare", "unlink"}

\* A process runs once, with a pid that no other live process has.
RunsOnce ==
    /\ \A p \in Starter : pc[p] = "off" <=> pid[p] = None
    /\ \A p \in Starter : p \notin alive <=> pc[p] \in {"off", "refused", "ended"}
    /\ \A p \in alive : pid[p] \in Pid
    /\ \A p, q \in alive : pid[p] = pid[q] => p = q

\* Records are of processes that were started; a starter never meets its own.
RecordsAreReal ==
    /\ marker # None => pc[marker] # "off"
    /\ \A p \in Starter :
          /\ seen[p] # None => pc[seen[p]] # "off"
          /\ pc[p] = "off" => seen[p] = None
          /\ pc[p] \in ClaimSteps => marker # p /\ seen[p] # p
          /\ pc[p] \in Retiring => seen[p] # None

\* Whose record is about to be unlinked is gone.
Stale == \A p \in Starter : pc[p] \in {"pin", "compare", "unlink"} => seen[p] \notin alive

\* Unless claims recover from a crash together, who serves or releases owns the
\* marker, and who unlinks it finds what was inspected.
MarkerOwned ==
    ~RivalRecovery => \A p \in Starter :
        /\ pc[p] \in Owning => marker = p
        /\ pc[p] \in Owning \ {"serving"} => seen[p] = p
        /\ pc[p] \in {"releaseCompare", "releaseUnlink"} => pinned[p] = p
        /\ pc[p] = "unlink" => marker = seen[p]

\* Without a crash every marker is of a process that is alive.
NobodyDied == crashes = 0 => marker = None \/ marker \in alive

OneClaim == ~rivals => \A p, q \in Starter : Claiming(p) /\ Claiming(q) => p = q

\* A starter that met nobody is alone with the marker of a dead process, and
\* retires it in its first attempt.
Alone ==
    \A p \in Starter : pc[p] \in ClaimSteps /\ p \notin contended =>
        /\ \A q \in Starter \cap alive : q = p
        /\ attempts[p] = 1 \/ (attempts[p] = 2 /\ pc[p] = "create" /\ marker = None)
        /\ pc[p] = "read" => marker # None
        /\ pc[p] \in Retiring => marker = seen[p]
        /\ pc[p] \in {"compare", "unlink"} => pinned[p] = marker

\* stop has read a record of a process that was started.  The handle it opened
\* is that process if that process is alive, and is it after the check.
StopKnows ==
    /\ stop.step = "idle" => signaled = None
    /\ stop.step \notin {"idle", "over"} => stop.seen \in Starter /\ pc[stop.seen] # "off"
    /\ stop.step \notin {"idle", "over"} => signaled = None
    /\ PidfdWorks /\ stop.step = "check" =>
          stop.fd # None /\ (stop.seen \in alive => stop.fd = stop.seen)
    /\ PidfdWorks /\ stop.step = "kill" => stop.fd = stop.seen

MarkerInv ==
    /\ TypeOK /\ RunsOnce /\ RecordsAreReal /\ Stale /\ MarkerOwned /\ NobodyDied
    /\ OneClaim /\ Alone /\ CrashNeverBlocks

-----------------------------------------------------------------------------

LEMMA MarkerInitially == Init => MarkerInv /\ StopKnows
<1> SUFFICES ASSUME Init PROVE MarkerInv /\ StopKnows
  OBVIOUS
<1> USE ProcessAssumption, LimitAssumption
    DEF Init, Process, Steps, ClaimSteps, ReleaseSteps, StopSteps
<1>1. TypeOK
  <2>1. rivals \in BOOLEAN
    BY Zenon
  <2> QED BY <2>1 DEF TypeOK
<1>2. RunsOnce /\ RecordsAreReal /\ Stale
  BY DEF RunsOnce, RecordsAreReal, Stale, Retiring
<1>3. MarkerOwned /\ NobodyDied /\ OneClaim
  BY DEF MarkerOwned, NobodyDied, OneClaim, Claiming, Owning
<1>4. Alone /\ CrashNeverBlocks /\ StopKnows
  BY DEF Alone, CrashNeverBlocks, StopKnows
<1> QED BY <1>1, <1>2, <1>3, <1>4 DEF MarkerInv

\* A starter begins: whoever it meets is no longer alone, nor is it.
LEMMA StartKeeps ==
    ASSUME MarkerInv, NEW p \in Starter, Start(p)
    PROVE  MarkerInv'
<1> USE ProcessAssumption, LimitAssumption
    DEF MarkerInv, Start, Overlap, claimVars, Process, Steps, ClaimSteps, ReleaseSteps
<1>1. TypeOK'
  BY DEF TypeOK, FreePids
<1>2. RunsOnce'
  BY DEF TypeOK, RunsOnce, FreePids
<1>3. RecordsAreReal' /\ Stale'
  BY DEF TypeOK, RunsOnce, RecordsAreReal, Stale, Retiring
<1>4. MarkerOwned' /\ NobodyDied'
  BY DEF TypeOK, MarkerOwned, NobodyDied, RivalRecovery, Owning
<1>5. OneClaim'
  <2>1. ~rivals' => ~rivals /\ ~\E q \in Starter : Claiming(q)
    OBVIOUS
  <2>2. \A q \in Starter \ {p} : Claiming(q)' => Claiming(q)
    BY DEF TypeOK, Claiming
  <2> QED BY <2>1, <2>2 DEF OneClaim
<1>6. Alone' /\ CrashNeverBlocks'
  BY DEF TypeOK, RunsOnce, Alone, CrashNeverBlocks, Retiring
<1> QED BY <1>1, <1>2, <1>3, <1>4, <1>5, <1>6

\* One step of a starter that is alive: it goes on, or it ends.
Goes(p) ==
    \/ /\ \E s \in Steps \ {"off", "refused", "ended"} : pc' = [pc EXCEPT ![p] = s]
       /\ alive' = alive
    \/ /\ \E s \in {"refused", "ended"} : pc' = [pc EXCEPT ![p] = s]
       /\ alive' = alive \ {p}

\* What holds of every step of a claim or a release: a claim stays the only one.
LEMMA GoingOnKeeps ==
    ASSUME MarkerInv, NEW p \in Starter, p \in alive, Goes(p),
           pc[p] \notin ClaimSteps => pc'[p] \notin ClaimSteps,
           UNCHANGED <<pid, contended, rivals>>
    PROVE  RunsOnce' /\ OneClaim'
<1> USE DEF MarkerInv, TypeOK, Goes, Process, Steps, ClaimSteps, ReleaseSteps
<1>1. RunsOnce'
  BY DEF RunsOnce
<1>2. \A q \in Starter : Claiming(q)' => Claiming(q)
  BY DEF Claiming, RunsOnce
<1>3. OneClaim'
  BY <1>2 DEF OneClaim
<1> QED BY <1>1, <1>3

LEMMA ClaimKeeps ==
    ASSUME MarkerInv, NEW p \in Starter, Claim(p)
    PROVE  MarkerInv'
<1> USE ProcessAssumption, LimitAssumption
    DEF MarkerInv, claimVars, historyVars, Goto, Step, Retry, Refuse, At
<1>1. RunsOnce' /\ OneClaim'
  <2>1. p \in alive /\ Goes(p) /\ pc[p] \in ClaimSteps /\ UNCHANGED <<pid, contended, rivals>>
    BY DEF Claim, Create, Read, Identify, Reread, Reidentify, Pin, Compare, Unlink, Goes,
           Steps, ClaimSteps, ReleaseSteps
  <2> QED BY <2>1, GoingOnKeeps
<1>2. CASE Create(p)
  <2> USE <1>2 DEF Create
  <2>1. TypeOK'
    BY DEF TypeOK, Steps, ClaimSteps, ReleaseSteps
  <2>2. RecordsAreReal' /\ Stale'
    BY DEF TypeOK, RecordsAreReal, Stale, Retiring, ClaimSteps
  <2>3. MarkerOwned' /\ NobodyDied'
    BY DEF TypeOK, RecordsAreReal, MarkerOwned, NobodyDied, RivalRecovery, Owning, Retiring
  <2>4. Alone' /\ CrashNeverBlocks'
    BY DEF TypeOK, Alone, CrashNeverBlocks, ClaimSteps, Retiring
  <2> QED BY <1>1, <2>1, <2>2, <2>3, <2>4
<1>3. CASE Read(p)
  <2> USE <1>3 DEF Read
  <2>1. TypeOK'
    BY DEF TypeOK, Steps, ClaimSteps
  <2>2. RecordsAreReal' /\ Stale'
    BY DEF TypeOK, RecordsAreReal, Stale, Retiring, ClaimSteps
  <2>3. MarkerOwned' /\ NobodyDied'
    BY DEF TypeOK, MarkerOwned, NobodyDied, RivalRecovery, Owning
  <2>4. Alone' /\ CrashNeverBlocks'
    BY DEF TypeOK, Alone, CrashNeverBlocks, ClaimSteps
  <2> QED BY <1>1, <2>1, <2>2, <2>3, <2>4
<1>4. CASE Identify(p)
  <2> USE <1>4 DEF Identify
  <2>1. TypeOK'
    BY DEF TypeOK, Steps, ClaimSteps
  <2>2. RecordsAreReal' /\ Stale'
    BY DEF TypeOK, RecordsAreReal, Stale, Retiring, ClaimSteps
  <2>3. MarkerOwned' /\ NobodyDied'
    BY DEF TypeOK, RecordsAreReal, MarkerOwned, NobodyDied, RivalRecovery, Owning, ClaimSteps
  <2>4. Alone' /\ CrashNeverBlocks'
    BY DEF TypeOK, RecordsAreReal, Alone, CrashNeverBlocks, ClaimSteps, Retiring, IsRunning,
       ProcessWithPidOf
  <2> QED BY <1>1, <2>1, <2>2, <2>3, <2>4
<1>5. CASE Reread(p)
  <2> USE <1>5 DEF Reread
  <2>1. TypeOK'
    BY DEF TypeOK, Steps, ClaimSteps
  <2>2. RecordsAreReal' /\ Stale'
    BY DEF TypeOK, RecordsAreReal, Stale, Retiring, ClaimSteps
  <2>3. MarkerOwned' /\ NobodyDied'
    BY DEF TypeOK, RecordsAreReal, MarkerOwned, NobodyDied, RivalRecovery, Owning, ClaimSteps
  <2>4. Alone' /\ CrashNeverBlocks'
    BY DEF TypeOK, Alone, CrashNeverBlocks, ClaimSteps, Retiring
  <2> QED BY <1>1, <2>1, <2>2, <2>3, <2>4
<1>6. CASE Reidentify(p)
  <2> USE <1>6 DEF Reidentify
  <2>1. TypeOK'
    BY DEF TypeOK, Steps, ClaimSteps
  <2>2. RecordsAreReal' /\ Stale'
    BY DEF TypeOK, RecordsAreReal, Stale, Retiring, ClaimSteps, IsRunning, ProcessWithPidOf
  <2>3. MarkerOwned' /\ NobodyDied'
    BY DEF TypeOK, RecordsAreReal, MarkerOwned, NobodyDied, RivalRecovery, Owning, ClaimSteps
  <2>4. Alone' /\ CrashNeverBlocks'
    BY DEF TypeOK, RecordsAreReal, Alone, CrashNeverBlocks, ClaimSteps, Retiring, IsRunning,
       ProcessWithPidOf
  <2> QED BY <1>1, <2>1, <2>2, <2>3, <2>4
<1>7. CASE Pin(p)
  <2> USE <1>7 DEF Pin
  <2>1. TypeOK'
    BY DEF TypeOK, Steps, ClaimSteps
  <2>2. RecordsAreReal' /\ Stale'
    BY DEF TypeOK, RecordsAreReal, Stale, Retiring, ClaimSteps
  <2>3. MarkerOwned' /\ NobodyDied'
    BY DEF TypeOK, MarkerOwned, NobodyDied, RivalRecovery, Owning
  <2>4. Alone' /\ CrashNeverBlocks'
    BY DEF TypeOK, Alone, CrashNeverBlocks, ClaimSteps, Retiring
  <2> QED BY <1>1, <2>1, <2>2, <2>3, <2>4
<1>8. CASE Compare(p)
  <2> USE <1>8 DEF Compare
  <2>1. TypeOK'
    BY DEF TypeOK, Steps, ClaimSteps
  <2>2. RecordsAreReal' /\ Stale'
    BY DEF TypeOK, RecordsAreReal, Stale, Retiring, ClaimSteps
  <2>3. MarkerOwned' /\ NobodyDied'
    BY DEF TypeOK, RecordsAreReal, MarkerOwned, NobodyDied, RivalRecovery, Owning, ClaimSteps
  <2>4. Alone' /\ CrashNeverBlocks'
    BY DEF TypeOK, Alone, CrashNeverBlocks, ClaimSteps, Retiring
  <2> QED BY <1>1, <2>1, <2>2, <2>3, <2>4
<1>9. CASE Unlink(p)
  <2> USE <1>9 DEF Unlink
  <2>1. TypeOK'
    BY DEF TypeOK, Steps, ClaimSteps
  <2>2. RecordsAreReal' /\ Stale'
    BY DEF TypeOK, RecordsAreReal, Stale, Retiring
  <2>3. MarkerOwned' /\ NobodyDied'
    <3>1. seen[p] # None /\ seen[p] \notin alive /\ marker # p
      BY DEF RecordsAreReal, Stale, Retiring, ClaimSteps
    <3>2. ~RivalRecovery => marker = seen[p] /\ ~rivals
      BY <3>1 DEF TypeOK, MarkerOwned, NobodyDied, RivalRecovery
    <3>3. ~RivalRecovery => \A q \in Starter : pc[q] = "unlink" => q = p
      BY <3>2 DEF OneClaim, RunsOnce, Claiming, ClaimSteps
    <3>4. ~RivalRecovery => \A q \in Starter : pc[q] \notin Owning
      BY <3>1 DEF MarkerOwned, Owning, RunsOnce
    <3>5. RivalRecovery' = RivalRecovery /\ marker' = None
      BY DEF RivalRecovery
    <3>6. \A q \in Starter \ {p} : pc'[q] = pc[q]
      BY DEF TypeOK
    <3>7. pc'[p] \in {"create", "refused"}
      BY DEF TypeOK
    <3> QED BY <3>3, <3>4, <3>5, <3>6, <3>7 DEF MarkerOwned, NobodyDied, Owning
  <2>4. Alone' /\ CrashNeverBlocks'
    BY DEF TypeOK, Alone, CrashNeverBlocks, ClaimSteps, Retiring
  <2> QED BY <1>1, <2>1, <2>2, <2>3, <2>4
<1> QED BY <1>2, <1>3, <1>4, <1>5, <1>6, <1>7, <1>8, <1>9 DEF Claim

\* The steps of release().
Releasing(p) == Release(p) \/ ReleasePin(p) \/ ReleaseCompare(p) \/ ReleaseUnlink(p)

LEMMA ReleaseKeeps ==
    ASSUME MarkerInv, NEW p \in Starter, Releasing(p)
    PROVE  MarkerInv'
<1> USE ProcessAssumption, LimitAssumption
    DEF MarkerInv, claimVars, historyVars, Goto, Step, End, At
<1>1. /\ p \in alive /\ pc[p] \in Owning /\ pc'[p] \in Owning \cup {"ended"}
      /\ UNCHANGED <<pid, attempts, crashes, contended, rivals>>
  BY DEF Releasing, Release, ReleasePin, ReleaseCompare, ReleaseUnlink, Owning, TypeOK
<1>2. Goes(p)
  BY DEF Releasing, Release, ReleasePin, ReleaseCompare, ReleaseUnlink, Goes, Steps, ReleaseSteps
<1>3. RunsOnce' /\ OneClaim'
  BY <1>1, <1>2, GoingOnKeeps DEF Owning, ClaimSteps
\* A starter that claims while p runs has met p.
<1>4. Alone' /\ CrashNeverBlocks'
  <2>1. \A q \in Starter \ {p} : pc[q] \in ClaimSteps => q \in contended
    BY <1>1 DEF Alone
  <2>2. \A q \in Starter \ {p} : pc'[q] = pc[q]
    BY <1>2 DEF Goes, TypeOK
  <2> QED BY <1>1, <2>2 DEF Alone, CrashNeverBlocks, Owning, ClaimSteps
<1>5. CASE Release(p)
  <2> USE <1>5 DEF Release
  <2>1. TypeOK'
    BY DEF TypeOK, Steps, ReleaseSteps
  <2>2. RecordsAreReal' /\ Stale'
    BY DEF TypeOK, RecordsAreReal, Stale, Retiring, ClaimSteps
  <2>3. MarkerOwned' /\ NobodyDied'
    BY DEF TypeOK, MarkerOwned, NobodyDied, RivalRecovery, Owning
  <2> QED BY <1>3, <1>4, <2>1, <2>2, <2>3
<1>6. CASE ReleasePin(p)
  <2> USE <1>6 DEF ReleasePin
  <2>1. TypeOK'
    BY DEF TypeOK, Steps, ReleaseSteps
  <2>2. RecordsAreReal' /\ Stale'
    BY DEF TypeOK, RecordsAreReal, Stale, Retiring, ClaimSteps
  <2>3. MarkerOwned' /\ NobodyDied'
    BY DEF TypeOK, MarkerOwned, NobodyDied, RivalRecovery, Owning
  <2> QED BY <1>3, <1>4, <2>1, <2>2, <2>3
<1>7. CASE ReleaseCompare(p)
  <2> USE <1>7 DEF ReleaseCompare
  <2>1. TypeOK'
    BY DEF TypeOK, Steps, ReleaseSteps
  <2>2. RecordsAreReal' /\ Stale'
    BY DEF TypeOK, RecordsAreReal, Stale, Retiring, ClaimSteps
  <2>3. MarkerOwned' /\ NobodyDied'
    BY DEF TypeOK, MarkerOwned, NobodyDied, RivalRecovery, Owning
  <2> QED BY <1>3, <1>4, <2>1, <2>2, <2>3
<1>8. CASE ReleaseUnlink(p)
  <2> USE <1>8 DEF ReleaseUnlink
  <2>1. TypeOK'
    BY DEF TypeOK, Steps
  <2>2. RecordsAreReal' /\ Stale'
    BY DEF RecordsAreReal, Stale, Retiring, ClaimSteps
  <2>3. MarkerOwned' /\ NobodyDied'
    BY DEF TypeOK, Stale, MarkerOwned, NobodyDied, RivalRecovery, Owning
  <2> QED BY <1>3, <1>4, <2>1, <2>2, <2>3
<1> QED BY <1>5, <1>6, <1>7, <1>8 DEF Releasing

LEMMA CrashKeeps ==
    ASSUME MarkerInv, NEW p \in Starter, Crash(p)
    PROVE  MarkerInv'
<1> USE ProcessAssumption, LimitAssumption DEF MarkerInv, Crash, claimVars, historyVars
<1>1. Goes(p) /\ p \in alive /\ pc'[p] \notin ClaimSteps
  BY DEF Goes, TypeOK, ClaimSteps
<1>2. RunsOnce' /\ OneClaim'
  BY <1>1, GoingOnKeeps
<1>3. TypeOK'
  BY DEF TypeOK, Steps
<1>4. RecordsAreReal' /\ Stale'
  BY DEF RecordsAreReal, Stale, ClaimSteps, Retiring
<1>5. MarkerOwned' /\ NobodyDied'
  BY DEF TypeOK, MarkerOwned, NobodyDied, RivalRecovery, Owning
<1>6. Alone' /\ CrashNeverBlocks'
  BY DEF Alone, CrashNeverBlocks, ClaimSteps
<1> QED BY <1>2, <1>3, <1>4, <1>5, <1>6

\* Other programs, and the stop command, leave the claims alone.
LEMMA OthersKeep ==
    ASSUME MarkerInv,
           Stop \/ \E p \in Stranger : StrangerStarts(p) \/ StrangerEnds(p)
    PROVE  MarkerInv'
<1> USE ProcessAssumption, LimitAssumption DEF MarkerInv, claimVars, historyVars
<1>1. ASSUME NEW p \in Stranger, StrangerStarts(p) PROVE MarkerInv'
  <2> USE <1>1 DEF StrangerStarts, Process
  <2>1. TypeOK' /\ RunsOnce'
    BY DEF TypeOK, RunsOnce, FreePids
  <2>2. RecordsAreReal' /\ Stale'
    BY DEF TypeOK, RecordsAreReal, Stale
  <2>3. MarkerOwned' /\ NobodyDied' /\ OneClaim'
    BY DEF TypeOK, MarkerOwned, NobodyDied, RivalRecovery, OneClaim, Claiming
  <2>4. Alone' /\ CrashNeverBlocks'
    BY DEF Alone, CrashNeverBlocks
  <2> QED BY <2>1, <2>2, <2>3, <2>4
<1>2. ASSUME NEW p \in Stranger, StrangerEnds(p) PROVE MarkerInv'
  <2> USE <1>2 DEF StrangerEnds, Process
  <2>1. TypeOK' /\ RunsOnce'
    BY DEF TypeOK, RunsOnce
  <2>2. RecordsAreReal' /\ Stale'
    BY DEF TypeOK, RecordsAreReal, Stale
  <2>3. MarkerOwned' /\ NobodyDied' /\ OneClaim'
    BY DEF TypeOK, MarkerOwned, NobodyDied, RivalRecovery, OneClaim, Claiming
  <2>4. Alone' /\ CrashNeverBlocks'
    BY DEF Alone, CrashNeverBlocks
  <2> QED BY <2>1, <2>2, <2>3, <2>4
<1>3. ASSUME Stop PROVE MarkerInv'
  <2> USE <1>3 DEF Stop, StopRead, StopIdentify, StopReread, StopReidentify, StopOpen, StopCheck,
                   StopSignal, StopAt, StopGoto, StopOnly
  <2>1. UNCHANGED <<pid, alive, marker, pc, attempts, seen, pinned, crashes, contended, rivals>>
    OBVIOUS
  <2>2. stop' \in [step : StopSteps, seen : Starter \cup {None}, fd : Process \cup {None}]
    <3>1. CASE StopOpen
      BY ZenonT(60), <3>1 DEF TypeOK, StopSteps, ProcessWithPidOf
    <3>2. CASE StopRead
      BY <3>2 DEF TypeOK, StopSteps
    <3>3. CASE ~StopOpen /\ ~StopRead
      <4>1. \E s \in StopSteps : stop' = [stop EXCEPT !.step = s]
        BY <3>3 DEF StopSteps
      <4> QED BY <4>1 DEF TypeOK
    <3> QED BY <3>1, <3>2, <3>3
  <2>3. signaled' \in Process \cup {None}
    BY DEF TypeOK, ProcessWithPidOf
  <2>4. TypeOK'
    BY <2>1, <2>2, <2>3 DEF TypeOK
  <2>5. RunsOnce' /\ RecordsAreReal' /\ Stale' /\ MarkerOwned' /\ NobodyDied'
    BY ZenonT(60), <2>1 DEF RunsOnce, RecordsAreReal, Stale, MarkerOwned, NobodyDied, RivalRecovery
  <2>6. OneClaim' /\ Alone' /\ CrashNeverBlocks'
    BY <2>1 DEF OneClaim, Claiming, Alone, CrashNeverBlocks
  <2> QED BY <2>4, <2>5, <2>6
<1> QED BY <1>1, <1>2, <1>3

LEMMA MarkerStep == MarkerInv /\ [Next]_vars => MarkerInv'
<1> SUFFICES ASSUME MarkerInv, [Next]_vars PROVE MarkerInv'
  OBVIOUS
<1>1. CASE Next
  BY <1>1, StartKeeps, ClaimKeeps, CrashKeeps, ReleaseKeeps, OthersKeep DEF Next, Releasing
<1>2. CASE UNCHANGED vars
  <2> USE <1>2 DEF MarkerInv, vars
  <2>1. TypeOK'
    BY DEF TypeOK
  <2>2. RunsOnce' /\ RecordsAreReal' /\ Stale' /\ NobodyDied'
    BY DEF RunsOnce, RecordsAreReal, Stale, NobodyDied
  <2>3. MarkerOwned' /\ OneClaim' /\ Alone' /\ CrashNeverBlocks'
    BY DEF MarkerOwned, RivalRecovery, OneClaim, Claiming, Alone, CrashNeverBlocks
  <2> QED BY <2>1, <2>2, <2>3
<1> QED BY <1>1, <1>2

\* What the theorems follow from.
LEMMA MarkerInvariant == Spec => []MarkerInv
<1>1. Init => MarkerInv
  BY MarkerInitially
<1> QED BY <1>1, MarkerStep, PTL DEF Spec

\* The types of the model, whoever starts, ends or crashes.
THEOREM MarkerTypes == Spec => []TypeOK
<1>1. MarkerInv => TypeOK
  BY DEF MarkerInv
<1> QED BY <1>1, MarkerInvariant, PTL

\* claimDaemonPidFile: the marker names the daemon that serves, so that there is
\* one, unless two claims recovered from a crash together; and a start that met
\* no other starter is never refused.
THEOREM MarkerAlwaysTrue == Spec => []MarkerIsTrue
<1>1. MarkerInv => MarkerIsTrue
  BY DEF MarkerInv, MarkerIsTrue, MarkerOwned, MarkerNamesTheDaemon, Serving, Owning
<1> QED BY <1>1, MarkerInvariant, PTL

\* unlinkSnapshot: unless two claims recovered from a crash together, the marker
\* of a process that is alive is removed by that process alone.
THEOREM LiveMarkerAlwaysKept == Spec => LiveMarkerKept
<1>1. MarkerInv /\ [Next]_vars => [LiveMarkerRemoved => RivalRecovery]_vars
  <2> SUFFICES ASSUME MarkerInv, Next, LiveMarkerRemoved, ~RivalRecovery PROVE FALSE
    OBVIOUS
  <2> USE DEF MarkerInv, LiveMarkerRemoved
  <2>1. ASSUME NEW p \in Starter, Create(p) PROVE FALSE
    BY <2>1 DEF Create
  <2>2. ASSUME NEW p \in Starter, Unlink(p) PROVE FALSE
    BY <2>2 DEF Unlink, At, MarkerOwned, Stale
  <2>3. ASSUME NEW p \in Starter, ReleaseUnlink(p) PROVE FALSE
    BY <2>3 DEF ReleaseUnlink, At, MarkerOwned, Owning
  <2>4. \/ \E p \in Starter : Create(p) \/ Unlink(p) \/ ReleaseUnlink(p)
        \/ UNCHANGED marker
    BY DEF Next, Claim, Start, Crash, Read, Identify, Reread, Reidentify, Pin, Compare,
           Release, ReleasePin, ReleaseCompare, StrangerStarts, StrangerEnds, Stop, StopRead,
           StopIdentify, StopReread, StopReidentify, StopOpen, StopCheck, StopSignal, StopOnly
  <2> QED BY <2>1, <2>2, <2>3, <2>4
<1> QED BY <1>1, MarkerInvariant, PTL DEF Spec, LiveMarkerKept

-----------------------------------------------------------------------------

\* Processes begin, go on and end while stop is at work: the one it has read of
\* was started, and is not started again.
LEMMA ProcessesKeepStop ==
    ASSUME MarkerInv, StopKnows, MarkerInv', UNCHANGED <<stop, signaled>>,
           \A p \in Starter : pc[p] # "off" => pc'[p] # "off",
           \A p \in Starter : p \in alive' \ alive => pc[p] = "off"
    PROVE  StopKnows'
BY DEF StopKnows

LEMMA StopStep == MarkerInv /\ StopKnows /\ [Next]_vars => StopKnows'
<1> SUFFICES ASSUME MarkerInv, StopKnows, [Next]_vars PROVE StopKnows'
  OBVIOUS
<1> USE ProcessAssumption
<1>1. CASE UNCHANGED vars
  BY <1>1 DEF vars, StopKnows
<1>2. ASSUME NEW p \in Starter, Start(p) \/ Claim(p) \/ Crash(p) \/ Releasing(p)
      PROVE  StopKnows'
  <2>1. /\ UNCHANGED <<stop, signaled>>
        /\ pc'[p] # "off" /\ \A q \in Starter \ {p} : pc'[q] = pc[q]
        /\ alive' \subseteq alive \cup {p} /\ (p \in alive' \ alive => pc[p] = "off")
    BY <1>2 DEF MarkerInv, TypeOK, Start, Claim, Crash, Releasing, Create, Read, Identify, Reread,
        Reidentify, Pin, Compare, Unlink, Release, ReleasePin, ReleaseCompare, ReleaseUnlink,
        Retry, Refuse, Step, End, Goto, At
  <2> QED BY <2>1, MarkerStep, ProcessesKeepStop
<1>3. ASSUME NEW p \in Stranger, StrangerStarts(p) \/ StrangerEnds(p) PROVE StopKnows'
  <2>1. UNCHANGED <<stop, signaled, pc>> /\ alive' \subseteq alive \cup {p}
    BY <1>3 DEF StrangerStarts, StrangerEnds
  <2> QED BY <2>1, MarkerStep, ProcessesKeepStop
<1>4. CASE Stop
  <2> USE <1>4 DEF MarkerInv, TypeOK, StopKnows, StopAt, StopGoto, StopOnly, StopSteps
  <2>1. CASE StopRead
    BY <2>1 DEF StopRead, RecordsAreReal
  <2>2. CASE StopIdentify \/ StopReread \/ StopReidentify
    BY <2>2 DEF StopIdentify, StopReread, StopReidentify
  <2>3. CASE StopOpen
    <3>1. CASE ProcessWithPidOf(stop.seen) = {}
      BY <2>3, <3>1 DEF StopOpen
    <3>2. ASSUME NEW q \in ProcessWithPidOf(stop.seen), stop' = [stop EXCEPT !.step = "check", !.fd = q]
          PROVE  StopKnows'
      <4>1. q # None /\ (stop.seen \in alive => q = stop.seen)
        BY <3>2 DEF ProcessWithPidOf, RunsOnce, Process
      <4>2. stop'.step = "check" /\ stop'.seen = stop.seen /\ stop'.fd = q
        BY <3>2
      <4> QED BY <2>3, <4>1, <4>2 DEF StopOpen
    <3> QED BY <2>3, <3>1, <3>2 DEF StopOpen
  <2>4. CASE StopCheck
    BY <2>4 DEF StopCheck, IsRunning, ProcessWithPidOf
  <2>5. CASE StopSignal
    BY <2>5 DEF StopSignal
  <2> QED BY <2>1, <2>2, <2>3, <2>4, <2>5 DEF Stop
<1> QED BY <1>1, <1>2, <1>3, <1>4 DEF Next, Releasing

\* stopDaemonFromPidFile with the kernel's process handles: whatever happens to
\* the pid meanwhile, no process is signalled but the one the marker named.
THEOREM StopAlwaysHitsTheDaemon ==
    ASSUME PidfdWorks
    PROVE  Spec => []StopHitsOnlyTheDaemon
<1> DEFINE Hits == StopKnows /\ StopHitsOnlyTheDaemon
<1>1. Init => Hits
  BY MarkerInitially DEF Init, StopHitsOnlyTheDaemon
<1>2. MarkerInv /\ Hits /\ [Next]_vars => Hits'
  <2> SUFFICES ASSUME MarkerInv, Hits, [Next]_vars PROVE StopHitsOnlyTheDaemon'
    BY StopStep
  <2>1. CASE StopRead
    BY <2>1 DEF StopRead, StopAt, StopKnows, StopHitsOnlyTheDaemon
  <2>2. CASE StopSignal
    BY <2>2, ProcessAssumption, PidfdWorks
       DEF StopSignal, StopAt, StopGoto, StopKnows, MarkerInv, TypeOK,
       StopHitsOnlyTheDaemon
  <2>3. CASE ~StopRead /\ ~StopSignal
    <3>1. signaled' = signaled /\ stop'.seen = stop.seen
      BY <2>3
         DEF Next, vars, Start, Claim, Crash, Create, Read, Identify, Reread, Reidentify, Pin,
         Compare, Unlink, Release, ReleasePin, ReleaseCompare, ReleaseUnlink, StrangerStarts,
         StrangerEnds, Stop, StopIdentify, StopReread, StopReidentify, StopOpen, StopCheck,
         StopGoto, MarkerInv, TypeOK
    <3> QED BY <3>1 DEF StopHitsOnlyTheDaemon
  <2> QED BY <2>1, <2>2, <2>3
<1> QED BY <1>1, <1>2, MarkerInvariant, PTL DEF Spec
==============================================================================
