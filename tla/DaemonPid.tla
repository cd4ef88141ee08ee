----------------------------- MODULE DaemonPid -----------------------------
(***************************************************************************)
(* The marker file that keeps a user from running two daemons,             *)
(* src/daemon-pid.ts.                                                      *)
(*                                                                         *)
(* A starter publishes the marker with link(), which refuses an existing   *)
(* path.  A marker whose process is gone is stale: the starter removes it  *)
(* and tries again.  The daemon removes its own marker when it ends, and   *)
(* `cicero stop` signals the process the marker names, found by its pid.   *)
(* Between two file-system calls any other process may run, end or crash,  *)
(* and a pid that became free may be given to a new process.               *)
(*                                                                         *)
(* A process instance stands for its identity (pid and start time), for    *)
(* its token and for the inode of the marker it publishes: all are its own.*)
(***************************************************************************)
EXTENDS Integers, FiniteSets

CONSTANTS
    Starter,      \* process instances that run claimDaemonPidFile
    Stranger,     \* process instances of other programs
    Pid,          \* process ids, reused once their process is gone
    None,
    MaxAttempts,  \* the attempts of a claim, 8
    MaxCrashes,   \* bound of the model: processes that end without a release
    PidfdWorks    \* stop has the kernel's process handles (Linux) or not

ASSUME ProcessAssumption ==
    /\ Starter \cap Stranger = {} /\ None \notin Starter \cup Stranger \cup Pid
\* A claim with a single attempt could not claim after it retired a stale marker.
ASSUME LimitAssumption ==
    /\ MaxAttempts \in Nat /\ MaxAttempts > 1 /\ MaxCrashes \in Nat /\ PidfdWorks \in BOOLEAN

Process == Starter \cup Stranger

VARIABLES
    pid,       \* the pid of a process that was started, None before
    alive,     \* the processes that exist
    marker,    \* the process whose record the marker path holds, None if absent
    pc,        \* where each starter stands in its claim or release
    attempts,  \* claim attempts begun
    seen,      \* the record each starter read last
    pinned,    \* the record each starter hard-linked
    crashes,
    stop,      \* the stop command: where it stands, the record it read, its handle
    signaled,  \* the process it signalled
    \* History, read by no action.
    contended, \* starters that met another one, in its claim or serving
    rivals     \* two claims ran at the same time

vars == <<pid, alive, marker, pc, attempts, seen, pinned, crashes, stop, signaled,
          contended, rivals>>
historyVars == <<contended, rivals>>
claimVars == <<seen, pinned>>

\* The steps of unlinkSnapshot belong to a claim or to a release.
ClaimSteps == {"create", "read", "identify", "reread", "reidentify", "pin", "compare", "unlink"}
ReleaseSteps == {"release", "releasePin", "releaseCompare", "releaseUnlink"}
Steps == ClaimSteps \cup ReleaseSteps \cup {"off", "serving", "refused", "ended"}
StopSteps == {"idle", "identify1", "read2", "identify2", "open", "check", "kill", "over"}

Claiming(p) == p \in alive /\ pc[p] \in ClaimSteps
Serving(p) == p \in alive /\ pc[p] = "serving"

\* processIdentity(): the process that has the pid of p now, if any.
ProcessWithPidOf(p) == {q \in alive : pid[q] = pid[p]}

\* Mutant: any process with the pid counts.
PidInUse(p) == ProcessWithPidOf(p) # {}

\* Mutant: a process that serves is not recognised.
NotServing(p) == p \in ProcessWithPidOf(p) /\ pc[p] # "serving"

IsRunning(p) == p \in ProcessWithPidOf(p)

\* Claims that overlap: a process that starts, and those it meets.
Overlap(p) ==
    LET others == {q \in Starter \ {p} : q \in alive /\ pc[q] \in Steps \ {"off"}}
    IN  IF others = {} THEN {} ELSE {p} \cup others

Init ==
    /\ pid = [p \in Process |-> None]
    /\ alive = {}
    /\ marker = None
    /\ pc = [p \in Starter |-> "off"]
    /\ attempts = [p \in Starter |-> 0]
    /\ seen = [p \in Starter |-> None]
    /\ pinned = [p \in Starter |-> None]
    /\ crashes = 0
    /\ stop = [step |-> "idle", seen |-> None, fd |-> None]
    /\ signaled = None
    /\ contended = {} /\ rivals = FALSE

-----------------------------------------------------------------------------
(* Processes *)

FreePids == Pid \ {pid[q] : q \in alive}

\* A starter begins with its own identity and its first attempt.
Start(p) ==
    /\ pc[p] = "off"
    /\ \E i \in FreePids : pid' = [pid EXCEPT ![p] = i]
    /\ alive' = alive \cup {p}
    /\ pc' = [pc EXCEPT ![p] = "create"]
    /\ attempts' = [attempts EXCEPT ![p] = 1]
    /\ contended' = contended \cup Overlap(p)
    /\ rivals' = (rivals \/ \E q \in Starter : Claiming(q))
    /\ UNCHANGED <<marker, claimVars, crashes, stop, signaled>>

StrangerStarts(p) ==
    /\ pid[p] = None
    /\ \E i \in FreePids : pid' = [pid EXCEPT ![p] = i]
    /\ alive' = alive \cup {p}
    /\ UNCHANGED <<marker, pc, attempts, claimVars, crashes, stop, signaled, historyVars>>

StrangerEnds(p) ==
    /\ p \in alive
    /\ alive' = alive \ {p}
    /\ UNCHANGED <<pid, marker, pc, attempts, claimVars, crashes, stop, signaled, historyVars>>

\* A starter dies between two steps; its marker stays.
Crash(p) ==
    /\ p \in alive /\ crashes < MaxCrashes
    /\ crashes' = crashes + 1
    /\ alive' = alive \ {p}
    /\ pc' = [pc EXCEPT ![p] = "ended"]
    /\ UNCHANGED <<pid, marker, attempts, claimVars, stop, signaled, historyVars>>

-----------------------------------------------------------------------------
(* claimDaemonPidFile *)

At(p, step) == p \in alive /\ pc[p] = step
Goto(p, step) == pc' = [pc EXCEPT ![p] = step]

\* The next attempt, or the error after the last one, which ends the process.
Retry(p) ==
    IF attempts[p] < MaxAttempts
    THEN /\ attempts' = [attempts EXCEPT ![p] = @ + 1]
         /\ Goto(p, "create")
         /\ UNCHANGED alive
    ELSE /\ Goto(p, "refused")
         /\ alive' = alive \ {p}
         /\ UNCHANGED attempts

Refuse(p) ==
    /\ Goto(p, "refused")
    /\ alive' = alive \ {p}
    /\ UNCHANGED attempts

Step(p, step) == Goto(p, step) /\ UNCHANGED <<alive, attempts>>

\* Mutant: the record is renamed to the path, which replaces what is there.
CreateOver(p) ==
    /\ At(p, "create")
    /\ marker' = p /\ Step(p, "serving")
    /\ UNCHANGED <<pid, claimVars, crashes, stop, signaled, historyVars>>

\* createPidRecord(): link() publishes the whole record or finds the path taken.
Create(p) ==
    /\ At(p, "create")
    /\ IF marker = None
       THEN marker' = p /\ Step(p, "serving")
       ELSE UNCHANGED marker /\ Step(p, "read")
    /\ UNCHANGED <<pid, claimVars, crashes, stop, signaled, historyVars>>

\* inspectDaemonPidFile(): read the record, then look its process up.
Read(p) ==
    /\ At(p, "read")
    /\ seen' = [seen EXCEPT ![p] = marker]
    /\ IF marker = None THEN Retry(p) ELSE Step(p, "identify")
    /\ UNCHANGED <<pid, marker, pinned, crashes, stop, signaled, historyVars>>

Identify(p) ==
    /\ At(p, "identify")
    /\ IF IsRunning(seen[p]) THEN Refuse(p) ELSE Step(p, "reread")
    /\ UNCHANGED <<pid, marker, claimVars, crashes, stop, signaled, historyVars>>

\* retireStaleRecord(): the same record must still be there, and still be stale.
Reread(p) ==
    /\ At(p, "reread")
    /\ IF marker # seen[p] THEN Retry(p) ELSE Step(p, "reidentify")
    /\ UNCHANGED <<pid, marker, claimVars, crashes, stop, signaled, historyVars>>

Reidentify(p) ==
    /\ At(p, "reidentify")
    /\ IF IsRunning(seen[p]) THEN Retry(p) ELSE Step(p, "pin")
    /\ UNCHANGED <<pid, marker, claimVars, crashes, stop, signaled, historyVars>>

\* unlinkSnapshot(): pin the inode at the path with a hard link, compare it
\* with the one that was read and with the path, then unlink the path.
Pin(p) ==
    /\ At(p, "pin")
    /\ pinned' = [pinned EXCEPT ![p] = marker]
    /\ IF marker = None THEN Retry(p) ELSE Step(p, "compare")
    /\ UNCHANGED <<pid, marker, seen, crashes, stop, signaled, historyVars>>

Compare(p) ==
    /\ At(p, "compare")
    /\ IF pinned[p] # seen[p] \/ marker # pinned[p] THEN Retry(p) ELSE Step(p, "unlink")
    /\ UNCHANGED <<pid, marker, claimVars, crashes, stop, signaled, historyVars>>

\* Whatever is at the path by now.
Unlink(p) ==
    /\ At(p, "unlink")
    /\ marker' = None
    /\ Retry(p)
    /\ UNCHANGED <<pid, claimVars, crashes, stop, signaled, historyVars>>

-----------------------------------------------------------------------------
(* release(): the daemon ends, by itself or after a signal *)

End(p) == Goto(p, "ended") /\ alive' = alive \ {p} /\ UNCHANGED attempts

Release(p) ==
    /\ At(p, "serving")
    /\ seen' = [seen EXCEPT ![p] = marker]
    /\ IF marker # p THEN End(p) ELSE Step(p, "releasePin")
    /\ UNCHANGED <<pid, marker, pinned, crashes, stop, signaled, historyVars>>

ReleasePin(p) ==
    /\ At(p, "releasePin")
    /\ pinned' = [pinned EXCEPT ![p] = marker]
    /\ IF marker = None THEN End(p) ELSE Step(p, "releaseCompare")
    /\ UNCHANGED <<pid, marker, seen, crashes, stop, signaled, historyVars>>

ReleaseCompare(p) ==
    /\ At(p, "releaseCompare")
    /\ IF pinned[p] # seen[p] \/ marker # pinned[p] THEN End(p) ELSE Step(p, "releaseUnlink")
    /\ UNCHANGED <<pid, marker, claimVars, crashes, stop, signaled, historyVars>>

ReleaseUnlink(p) ==
    /\ At(p, "releaseUnlink")
    /\ marker' = None
    /\ End(p)
    /\ UNCHANGED <<pid, claimVars, crashes, stop, signaled, historyVars>>

-----------------------------------------------------------------------------
(* stopDaemonFromPidFile *)

StopAt(step) == stop.step = step
StopGoto(step) == stop' = [stop EXCEPT !.step = step]
StopOnly == UNCHANGED <<pid, alive, marker, pc, attempts, claimVars, crashes, historyVars>>

StopRead ==
    /\ StopAt("idle")
    /\ stop' = [step |-> IF marker = None THEN "over" ELSE "identify1",
                seen |-> marker, fd |-> None]
    /\ StopOnly /\ UNCHANGED signaled

StopIdentify ==
    /\ StopAt("identify1")
    /\ StopGoto(IF IsRunning(stop.seen) THEN "read2" ELSE "over")
    /\ StopOnly /\ UNCHANGED signaled

\* Re-read: only the same record, whose process still runs, is signalled.
StopReread ==
    /\ StopAt("read2")
    /\ StopGoto(IF marker = stop.seen THEN "identify2" ELSE "over")
    /\ StopOnly /\ UNCHANGED signaled

StopReidentify ==
    /\ StopAt("identify2")
    /\ StopGoto(IF ~ IsRunning(stop.seen) THEN "over"
                ELSE IF PidfdWorks THEN "open" ELSE "check")
    /\ StopOnly /\ UNCHANGED signaled

\* pidfd_open(): the handle is the process that has the pid now.
StopOpen ==
    /\ StopAt("open")
    /\ IF ProcessWithPidOf(stop.seen) = {}
       THEN StopGoto("over")
       ELSE \E q \in ProcessWithPidOf(stop.seen) :
                stop' = [stop EXCEPT !.step = "check", !.fd = q]
    /\ StopOnly /\ UNCHANGED signaled

\* Mutant: the identity is not checked again once the handle is open.
StopNoCheck ==
    /\ StopAt("check")
    /\ StopGoto("kill")
    /\ StopOnly /\ UNCHANGED signaled

\* identityStillMatches(), after the handle was opened or before kill().
StopCheck ==
    /\ StopAt("check")
    /\ StopGoto(IF IsRunning(stop.seen) THEN "kill" ELSE "over")
    /\ StopOnly /\ UNCHANGED signaled

\* The signal goes to the handle, or to whatever process has the number.
StopSignal ==
    /\ StopAt("kill")
    /\ StopGoto("over")
    /\ IF stop.fd # None
       THEN signaled' = IF stop.fd \in alive THEN stop.fd ELSE signaled
       ELSE IF ProcessWithPidOf(stop.seen) = {}
            THEN UNCHANGED signaled
            ELSE \E q \in ProcessWithPidOf(stop.seen) : signaled' = q
    /\ StopOnly

-----------------------------------------------------------------------------

Claim(p) ==
    \/ Create(p) \/ Read(p) \/ Identify(p) \/ Reread(p) \/ Reidentify(p)
    \/ Pin(p) \/ Compare(p) \/ Unlink(p)

Stop ==
    \/ StopRead \/ StopIdentify \/ StopReread \/ StopReidentify
    \/ StopOpen \/ StopCheck \/ StopSignal

Next ==
    \/ \E p \in Starter :
          \/ Start(p) \/ Claim(p) \/ Crash(p)
          \/ Release(p) \/ ReleasePin(p) \/ ReleaseCompare(p) \/ ReleaseUnlink(p)
    \/ \E p \in Stranger : StrangerStarts(p) \/ StrangerEnds(p)
    \/ Stop

Spec == Init /\ [][Next]_vars

-----------------------------------------------------------------------------

TypeOK ==
    /\ pid \in [Process -> Pid \cup {None}]
    /\ alive \subseteq Process
    /\ marker \in Starter \cup {None}
    /\ pc \in [Starter -> Steps]
    /\ attempts \in [Starter -> 0..MaxAttempts]
    /\ seen \in [Starter -> Starter \cup {None}]
    /\ pinned \in [Starter -> Starter \cup {None}]
    /\ crashes \in 0..MaxCrashes
    /\ stop \in [step : StopSteps, seen : Starter \cup {None}, fd : Process \cup {None}]
    /\ signaled \in Process \cup {None}
    /\ contended \subseteq Starter /\ rivals \in BOOLEAN

\* Two starters that claim at once after a crash may both retire its marker.
RivalRecovery == rivals /\ crashes > 0

\* While a daemon serves, the marker names it: no second daemon serves, every
\* other starter is refused, and stop finds the one there is.  It is so however
\* many starters race, and after every crash from which one starter recovers.
MarkerNamesTheDaemon ==
    ~ RivalRecovery => \A p \in Starter : Serving(p) => marker = p

\* A start that met no other starter is never refused: neither a marker that a
\* crashed daemon left behind nor the reuse of its pid by another program
\* blocks the recovery.
CrashNeverBlocks == \A p \in Starter : pc[p] = "refused" => p \in contended

\* The marker keeps every other starter out while a daemon serves, and only then.
MarkerIsTrue == MarkerNamesTheDaemon /\ CrashNeverBlocks

\* stop signals nothing but the process instance its marker named, however
\* quickly that process ends and its pid is given away.
StopHitsOnlyTheDaemon == signaled # None => signaled = stop.seen

\* The marker of a process that is alive is removed by that process alone.
LiveMarkerRemoved ==
    marker # None /\ marker' # marker /\ marker \in alive /\ pc[marker] # "releaseUnlink"

\* A starter removes the marker it inspected, never that of another process
\* that is alive ("If another starter replaces the path, the inode comparison
\* fails and we leave its marker alone").
LiveMarkerStays == [][~ LiveMarkerRemoved]_vars

\* The same but for a recovery with rivals.
LiveMarkerKept == [][LiveMarkerRemoved => RivalRecovery]_vars
=============================================================================
