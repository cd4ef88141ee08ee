--------------------------- MODULE ManagedServer ---------------------------
(***************************************************************************)
(* A speech server the daemon launches, supervises and stops:              *)
(* src/backends/managed-server.ts, as a provider that keeps its handle     *)
(* until the release is confirmed uses it (stt/faster-whisper.ts), behind  *)
(* its queue of lifecycle calls (serialized-lifecycle.ts).                 *)
(*                                                                         *)
(* Two activities share the handle: the call at the head of the queue, and *)
(* the supervisor, which revives a server that died.  Both may be waiting  *)
(* for the same process tree to be gone, and the wait may fail.            *)
(***************************************************************************)
EXTENDS Integers, Sequences, FiniteSets

CONSTANTS
    MaxSpawns,    \* bound of the model: processes there will ever be
    MaxCalls,     \* bound of the model: calls of start() and stop()
    MaxFaults,    \* bound of the model: trees that will not go, observations that fail
    MaxRevivals   \* REVIVE_BACKOFF_MS.length

Child == 1..MaxSpawns
Nobody == 0

VARIABLES
    tree,         \* per process: "unborn", "up", "dead" (its workers may live on), "gone"
    terminating,  \* processes whose termination runs
    lost,         \* processes a launch could not reap: nobody has their handle
    managed,      \* the provider's handle
    active,       \* FasterWhisperProvider.active
    failed,       \* FasterWhisperProvider.cleanupFailure is set
    queue,        \* SerializedLifecycle: the calls that have not settled
    op,           \* where the call at the head of the queue stands
    sup,          \* the supervisor
    calls, faults, intent

vars == <<tree, terminating, lost, managed, active, failed, queue, op, sup, calls, faults,
          intent>>

NoHandle == [held |-> FALSE, owned |-> FALSE, proc |-> Nobody]
NoOp == [step |-> "idle", child |-> Nobody, cancelled |-> FALSE]
NoSupervisor == [step |-> "none", proc |-> Nobody, attempt |-> 0, aborted |-> FALSE]

Init ==
    /\ tree = [c \in Child |-> "unborn"] /\ terminating = {} /\ lost = {}
    /\ managed = NoHandle /\ active = FALSE /\ failed = FALSE
    /\ queue = <<>> /\ op = NoOp /\ sup = NoSupervisor
    /\ calls = 0 /\ faults = 0 /\ intent = "none"

Unborn == {c \in Child : tree[c] = "unborn"}
Newborn == CHOOSE c \in Unborn : \A d \in Unborn : c <= d

\* releaseManagedProcess(): only the very process the handle names.
Released(c) == IF managed.proc = c THEN [managed EXCEPT !.proc = Nobody] ELSE managed

-----------------------------------------------------------------------------
(* The provider's calls: in order, and only neighbours of a kind are one *)

Enqueue(kind) ==
    queue' = IF queue # <<>> /\ queue[Len(queue)] = kind THEN queue ELSE Append(queue, kind)

CallStart ==
    /\ calls < MaxCalls
    /\ Enqueue("start") /\ calls' = calls + 1 /\ intent' = "start"
    /\ UNCHANGED <<tree, terminating, lost, managed, active, failed, op, sup, faults>>

\* stop() cancels the launch that is under way before it waits for its turn.
CallStop ==
    /\ calls < MaxCalls
    /\ Enqueue("stop") /\ calls' = calls + 1 /\ intent' = "stop"
    /\ op' = [op EXCEPT !.cancelled = op.step # "idle" /\ Head(queue) = "start"]
    /\ UNCHANGED <<tree, terminating, lost, managed, active, failed, sup, faults>>

Settled == queue' = Tail(queue) /\ op' = NoOp

-----------------------------------------------------------------------------
(* start() *)

StartBegins ==
    /\ op.step = "idle" /\ queue # <<>> /\ Head(queue) = "start"
    /\ IF failed \/ active THEN Settled
       ELSE op' = [op EXCEPT !.step = "probing"] /\ UNCHANGED queue
    /\ UNCHANGED <<tree, terminating, lost, managed, active, failed, sup, calls, faults, intent>>

\* A healthy server that somebody else started is used and never stopped.
Adopts ==
    /\ op.step = "probing"
    /\ managed' = [NoHandle EXCEPT !.held = TRUE] /\ active' = TRUE /\ Settled
    /\ UNCHANGED <<tree, terminating, lost, failed, sup, calls, faults, intent>>

\* Cancelled before the launch, or there is no binary, or the spawn throws.
NeverLaunched ==
    /\ op.step = "probing"
    /\ Settled
    /\ UNCHANGED <<tree, terminating, lost, managed, active, failed, sup, calls, faults, intent>>

Launches ==
    /\ op.step = "probing" /\ ~ op.cancelled /\ Unborn # {}
    /\ tree' = [tree EXCEPT ![Newborn] = "up"]
    /\ op' = [op EXCEPT !.step = "launching", !.child = Newborn]
    /\ UNCHANGED <<terminating, lost, managed, active, failed, queue, sup, calls, faults, intent>>

\* The probe that answers may have been sent before the launch was cancelled.
LaunchHealthy ==
    /\ op.step = "launching" /\ tree[op.child] = "up"
    /\ managed' = [held |-> TRUE, owned |-> TRUE, proc |-> op.child] /\ active' = TRUE
    /\ sup' = [NoSupervisor EXCEPT !.step = "watching", !.proc = op.child]
    /\ Settled
    /\ UNCHANGED <<tree, terminating, lost, failed, calls, faults, intent>>

\* It exited, it took too long, or it was cancelled.
LaunchFails ==
    /\ op.step = "launching"
    /\ terminating' = terminating \cup {op.child}
    /\ op' = [op EXCEPT !.step = "reaping"]
    /\ UNCHANGED <<tree, lost, managed, active, failed, queue, sup, calls, faults, intent>>

\* The last lines of its stderr are read within a bound.
LaunchDrained ==
    /\ op.step = "stderr" /\ Head(queue) = "start"
    /\ Settled
    /\ UNCHANGED <<tree, terminating, lost, managed, active, failed, sup, calls, faults, intent>>

-----------------------------------------------------------------------------
(* stop(): stopManagedServer() and what the provider remembers of it *)

\* Mutant: the supervisor is not told.
StopBeginsQuietly ==
    /\ op.step = "idle" /\ queue # <<>> /\ Head(queue) = "stop"
    /\ IF ~ managed.held \/ ~ managed.owned
       THEN /\ managed' = NoHandle /\ active' = FALSE /\ failed' = FALSE /\ Settled
            /\ UNCHANGED terminating
       ELSE /\ op' = [op EXCEPT !.child = managed.proc,
                                !.step = IF managed.proc = Nobody THEN "supervisor"
                                         ELSE "reaping"]
            /\ terminating' = terminating \cup ({managed.proc} \ {Nobody})
            /\ UNCHANGED <<queue, managed, active, failed>>
    /\ UNCHANGED <<tree, lost, sup, calls, faults, intent>>

StopBegins ==
    /\ op.step = "idle" /\ queue # <<>> /\ Head(queue) = "stop"
    /\ IF ~ managed.held \/ ~ managed.owned
       THEN /\ managed' = NoHandle /\ active' = FALSE /\ failed' = FALSE /\ Settled
            /\ UNCHANGED <<terminating, sup>>
       ELSE /\ sup' = [sup EXCEPT !.aborted = sup.step # "none"]
            /\ op' = [op EXCEPT !.child = managed.proc,
                                !.step = IF managed.proc = Nobody THEN "supervisor"
                                         ELSE "reaping"]
            /\ terminating' = terminating \cup ({managed.proc} \ {Nobody})
            /\ UNCHANGED <<queue, managed, active, failed>>
    /\ UNCHANGED <<tree, lost, calls, faults, intent>>

StopDrained ==
    /\ op.step = "stderr" /\ Head(queue) = "stop"
    /\ op' = [op EXCEPT !.step = "supervisor"]
    /\ UNCHANGED <<tree, terminating, lost, managed, active, failed, queue, sup, calls, faults,
                   intent>>

\* Mutant: the handle is dropped whether or not the process is gone.
StopDropsHandle ==
    /\ op.step \in {"supervisor", "failing"} /\ sup.step = "none"
    /\ managed' = NoHandle
    /\ failed' = FALSE /\ active' = FALSE /\ Settled
    /\ UNCHANGED <<tree, terminating, lost, sup, calls, faults, intent>>

\* Whether it went well or not, stop() waits until the supervisor has returned.
StopSettlesAfter ==
    /\ op.step \in {"supervisor", "failing"} /\ sup.step = "none"
    /\ managed' = IF op.step = "supervisor" THEN NoHandle ELSE managed
    /\ failed' = (op.step = "failing") /\ active' = FALSE /\ Settled
    /\ UNCHANGED <<tree, terminating, lost, sup, calls, faults, intent>>

-----------------------------------------------------------------------------
(* The process tree: one termination at a time, shared by all who wait for it *)

Dies(c) ==
    /\ tree[c] = "up" /\ c \notin terminating
    /\ tree' = [tree EXCEPT ![c] = "dead"]
    /\ UNCHANGED <<terminating, lost, managed, active, failed, queue, op, sup, calls, faults,
                   intent>>

OpWaits(c) == op.step = "reaping" /\ op.child = c
SupervisorWaits(c) == sup.step \in {"reaping", "blind", "reapingRevival"} /\ sup.proc = c

\* terminateOwnedProcessTree() proves that the whole tree is gone.
Gone(c) ==
    /\ c \in terminating
    /\ tree' = [tree EXCEPT ![c] = "gone"] /\ terminating' = terminating \ {c}
    /\ op' = IF OpWaits(c) THEN [op EXCEPT !.step = "stderr"] ELSE op
    /\ sup' = IF ~ SupervisorWaits(c) THEN sup
              ELSE IF sup.step = "blind" THEN NoSupervisor
              ELSE [sup EXCEPT !.step = "stderr",
                               !.attempt = IF sup.step = "reapingRevival" THEN @ + 1 ELSE @]
    /\ managed' = IF OpWaits(c) \/ (SupervisorWaits(c) /\ sup.step # "blind")
                  THEN Released(c) ELSE managed
    /\ UNCHANGED <<lost, active, failed, queue, calls, faults, intent>>

\* It cannot: a launch rejects, a stop will reject, the supervisor gives up.
NotGone(c) ==
    /\ c \in terminating /\ faults < MaxFaults
    /\ faults' = faults + 1 /\ terminating' = terminating \ {c}
    /\ sup' = IF SupervisorWaits(c) THEN NoSupervisor ELSE sup
    /\ IF OpWaits(c) /\ Head(queue) = "start"
       THEN lost' = lost \cup {c} /\ Settled
       ELSE /\ op' = IF OpWaits(c) THEN [op EXCEPT !.step = "failing"] ELSE op
            /\ UNCHANGED <<lost, queue>>
    /\ UNCHANGED <<tree, managed, active, failed, calls, intent>>

-----------------------------------------------------------------------------
(* The supervisor *)

Ends == sup' = NoSupervisor

\* An abort ends it wherever it waits; what it spawned is left to the stop.
SupervisorStops ==
    /\ sup.aborted /\ sup.step \in {"watching", "stderr", "backoff", "reviving"}
    /\ Ends
    /\ UNCHANGED <<tree, terminating, lost, managed, active, failed, queue, op, calls, faults,
                   intent>>

\* The launcher is gone, its workers may not be: the tree is reaped first.
SeesExit ==
    /\ sup.step = "watching" /\ ~ sup.aborted /\ tree[sup.proc] # "up"
    /\ terminating' = terminating \cup {sup.proc}
    /\ sup' = [sup EXCEPT !.step = "reaping"]
    /\ UNCHANGED <<tree, lost, managed, active, failed, queue, op, calls, faults, intent>>

\* The wait for the exit rejects: no revival, whatever becomes of the tree.
LosesSight ==
    /\ sup.step = "watching" /\ ~ sup.aborted /\ faults < MaxFaults
    /\ faults' = faults + 1
    /\ terminating' = terminating \cup {sup.proc}
    /\ sup' = [sup EXCEPT !.step = "blind"]
    /\ UNCHANGED <<tree, lost, managed, active, failed, queue, op, calls, intent>>

SupervisorDrained ==
    /\ sup.step = "stderr" /\ ~ sup.aborted
    /\ IF sup.attempt >= MaxRevivals THEN Ends ELSE sup' = [sup EXCEPT !.step = "backoff"]
    /\ UNCHANGED <<tree, terminating, lost, managed, active, failed, queue, op, calls, faults,
                   intent>>

\* Mutant: it names it once it is healthy, as a launch does.
RevivesUnseen ==
    /\ sup.step = "backoff" /\ ~ sup.aborted /\ Unborn # {}
    /\ tree' = [tree EXCEPT ![Newborn] = "up"]
    /\ sup' = [sup EXCEPT !.step = "reviving", !.proc = Newborn]
    /\ UNCHANGED <<terminating, lost, managed, active, failed, queue, op, calls, faults, intent>>

\* The handle names the new process in the turn that spawns it.
Revives ==
    /\ sup.step = "backoff" /\ ~ sup.aborted /\ Unborn # {}
    /\ tree' = [tree EXCEPT ![Newborn] = "up"]
    /\ managed' = [managed EXCEPT !.proc = Newborn]
    /\ sup' = [sup EXCEPT !.step = "reviving", !.proc = Newborn]
    /\ UNCHANGED <<terminating, lost, active, failed, queue, op, calls, faults, intent>>

RevivalThrows ==
    /\ sup.step = "backoff" /\ ~ sup.aborted
    /\ Ends
    /\ UNCHANGED <<tree, terminating, lost, managed, active, failed, queue, op, calls, faults,
                   intent>>

RevivalHealthy ==
    /\ sup.step = "reviving" /\ ~ sup.aborted /\ tree[sup.proc] = "up"
    /\ sup' = [sup EXCEPT !.step = "watching", !.attempt = 0]
    /\ UNCHANGED <<tree, terminating, lost, managed, active, failed, queue, op, calls, faults,
                   intent>>

RevivalFails ==
    /\ sup.step = "reviving" /\ ~ sup.aborted
    /\ terminating' = terminating \cup {sup.proc}
    /\ sup' = [sup EXCEPT !.step = "reapingRevival"]
    /\ UNCHANGED <<tree, lost, managed, active, failed, queue, op, calls, faults, intent>>

-----------------------------------------------------------------------------
Provides ==
    \/ StartBegins \/ Adopts \/ NeverLaunched \/ Launches \/ LaunchHealthy \/ LaunchFails
    \/ LaunchDrained \/ StopBegins \/ StopDrained \/ StopSettlesAfter

Supervises ==
    \/ SupervisorStops \/ SeesExit \/ SupervisorDrained \/ Revives \/ RevivalThrows
    \/ RevivalHealthy \/ RevivalFails

Terminates == \E c \in Child : Gone(c) \/ NotGone(c)

Next ==
    \/ CallStart \/ CallStop \/ Provides \/ Supervises \/ Terminates \/ LosesSight
    \/ \E c \in Child : Dies(c)

\* Every wait has a deadline: probes, readiness, the termination of a tree, the
\* drain of stderr and the delay before a revival.
Fairness == WF_vars(Provides) /\ WF_vars(Supervises) /\ WF_vars(Terminates)

Spec == Init /\ [][Next]_vars /\ Fairness

-----------------------------------------------------------------------------
TypeOK ==
    /\ tree \in [Child -> {"unborn", "up", "dead", "gone"}]
    /\ terminating \subseteq Child /\ lost \subseteq Child
    /\ managed \in [held : BOOLEAN, owned : BOOLEAN, proc : Child \cup {Nobody}]
    /\ active \in BOOLEAN /\ failed \in BOOLEAN
    /\ queue \in Seq({"start", "stop"})
    /\ op.step \in {"idle", "probing", "launching", "reaping", "stderr", "supervisor", "failing"}
    /\ sup.step \in {"none", "watching", "reaping", "blind", "stderr", "backoff", "reviving",
                     "reapingRevival"}

Alive == {c \in Child : tree[c] \in {"up", "dead"}}

\* What a launch could not reap is the exception, see the README.
OneTree == Cardinality(Alive \ lost) <= 1

\* Start, stop, start and stop in any order and at any time end as the last of
\* them asked: nothing runs, and nothing will be revived.
LastStopWins ==
    queue = <<>> /\ intent = "stop" /\ ~ failed =>
        Alive \subseteq lost /\ sup.step = "none" /\ ~ active

\* Two servers never fight for one port and one GPU, through crashes, failed
\* revivals and stops that could not be confirmed; and a confirmed stop that was
\* asked for last leaves nothing behind.
TreesAccounted == OneTree /\ LastStopWins

\* Every call settles, and a server that died is revived, given up or stopped.
NothingHangs ==
    []<>(queue = <<>> /\ ~ (sup.step = "watching" /\ tree[sup.proc] = "dead"))
=============================================================================
