---------------------------- MODULE WebTurnQueue ----------------------------
(***************************************************************************)
(* The turns of the browsers of the web voice server and the work it       *)
(* admits for them, src/web-voice/server.ts.                               *)
(*                                                                         *)
(* Each socket keeps the turn its handler runs and the newest one that     *)
(* waits; a new turn ends the lease of both and takes the place of the     *)
(* latter, and one loop per socket serves them in turn.  A speculation     *)
(* that a probe started before the turn arrived belongs to the socket      *)
(* until a turn adopts it or it is aborted.  Loops, probes, requests,      *)
(* background tasks and speculations are charged against one limit, and    *)
(* stop() waits until nothing is charged.                                  *)
(*                                                                         *)
(* An action is one stretch between two awaits: admission runs into the    *)
(* loop of an idle socket, and a turn that ends into the next one.         *)
(***************************************************************************)
EXTENDS Integers, FiniteSets

CONSTANTS
    Socket,        \* connections, of protocol 2
    Turn,          \* turns by their ids, which a socket accepts once
    Speculation,
    None,
    MaxJobs,       \* MAX_CONCURRENT_WEB_JOBS
    MaxBackground  \* MAX_BACKGROUND_WEB_JOBS

ASSUME NoneAssumption == None \notin Turn \cup Speculation
ASSUME SetAssumption == IsFiniteSet(Socket) /\ IsFiniteSet(Speculation)
ASSUME LimitAssumption == MaxJobs \in Nat \ {0} /\ MaxBackground \in Nat

VARIABLES
    sockets,    \* the connections that are there
    accepting,
    lease,      \* per turn: "new", "running", or how it ended
    ownerOf,    \* the socket a turn was admitted on
    pending,    \* per socket: the turn that waits
    current,    \* per socket: the turn whose handler was started last
    loop,       \* per socket: "idle", or what its loop waits for
    specOf,     \* per socket: the speculation no turn has taken yet
    handed,     \* per socket: the speculation its loop has taken
    spec,       \* per speculation: "new", "live", "aborting", "uncertain" or "gone"
    jobs,       \* activeJobs
    probes,     \* per socket: probes whose verdict is awaited
    requests,   \* HTTP requests and notifications under way
    background, \* the number of background tasks
    stop        \* "no", "draining", "failed" or "done"

vars == <<sockets, accepting, lease, ownerOf, pending, current, loop, specOf, handed,
          spec, jobs, probes, requests, background, stop>>
turnVars == <<lease, ownerOf, pending, current, loop, handed>>
specVars == <<specOf, spec>>
serverVars == <<sockets, accepting, stop>>
countVars == <<probes, requests, background>>

Busy(s) == loop[s] # "idle"
Live == {"live", "aborting", "uncertain"}
LiveSpecs == {p \in Speculation : spec[p] \in Live}
OwnedWork == jobs + background + Cardinality(LiveSpecs)

Init ==
    /\ sockets = Socket /\ accepting = TRUE
    /\ lease = [t \in Turn |-> "new"]
    /\ ownerOf = [t \in Turn |-> None]
    /\ pending = [s \in Socket |-> None] /\ current = [s \in Socket |-> None]
    /\ loop = [s \in Socket |-> "idle"]
    /\ specOf = [s \in Socket |-> None] /\ handed = [s \in Socket |-> None]
    /\ spec = [p \in Speculation |-> "new"]
    /\ jobs = 0
    /\ probes = [s \in Socket |-> 0] /\ requests = 0 /\ background = 0
    /\ stop = "no"

-----------------------------------------------------------------------------
(* Admission and leases *)

\* acquireJob(): transferred counts a speculation that the job will consume.
JobFree(transferred) == accepting /\ OwnedWork - transferred < MaxJobs

\* Mutant: the turn that waits is not ended.
AbortCurrent(ts) == [t \in Turn |->
    IF t \in ts /\ lease[t] = "running" /\ (\E s \in Socket : current[s] = t)
    THEN "aborted" ELSE lease[t]]

\* lease.abort() of the turns ts that run.
AbortedLeases(ts) ==
    [t \in Turn |-> IF t \in ts /\ lease[t] = "running" THEN "aborted" ELSE lease[t]]

TurnsOf(s) == {pending[s], current[s]} \ {None}

\* abortSpec(): join the abort that runs, or start or repeat it.  One that has
\* closed is charged anew, but its abort is the settled one of its closing and
\* frees it before any other event.
AbortedSpecs(ps) ==
    [p \in Speculation |-> IF p \in ps /\ spec[p] # "gone" THEN "aborting" ELSE spec[p]]

-----------------------------------------------------------------------------
(* The loop of a socket *)

\* Start on turn t: it adopts the socket's speculation if that is its own, and
\* otherwise waits for its abort before the handler is called.
Take(s, t, adopt) ==
    LET mine == specOf[s] IN
    /\ current' = [current EXCEPT ![s] = t]
    /\ pending' = [pending EXCEPT ![s] = None]
    /\ specOf' = [specOf EXCEPT ![s] = None]
    /\ handed' = [handed EXCEPT ![s] = mine]
    /\ IF mine = None \/ adopt
       THEN loop' = [loop EXCEPT ![s] = "handling"] /\ UNCHANGED spec
       ELSE /\ loop' = [loop EXCEPT ![s] = "clearing"]
            /\ spec' = AbortedSpecs({mine})

\* The handler has settled and its speculation is gone: the turn that waits is
\* next, or the loop gives its job back.
EndTurn(s) ==
    IF pending[s] # None
    THEN /\ \E adopt \in BOOLEAN : Take(s, pending[s], adopt)
         /\ UNCHANGED jobs
    ELSE /\ current' = [current EXCEPT ![s] = None]
         /\ handed' = [handed EXCEPT ![s] = None]
         /\ loop' = [loop EXCEPT ![s] = "idle"]
         /\ jobs' = jobs - 1
         /\ UNCHANGED <<pending, specVars>>

\* queueTurn(): admit t, end what it replaces, and serve it if the loop is idle.
QueueTurn(s, t) ==
    LET transferred == IF specOf[s] \in LiveSpecs THEN 1 ELSE 0 IN
    /\ s \in sockets /\ accepting
    /\ lease[t] = "new"
    /\ lease' = [AbortedLeases(TurnsOf(s)) EXCEPT ![t] = "running"]
    /\ ownerOf' = [ownerOf EXCEPT ![t] = s]
    /\ IF Busy(s)
       THEN /\ pending' = [pending EXCEPT ![s] = t]
            /\ UNCHANGED <<current, loop, handed, specVars, jobs>>
       ELSE /\ JobFree(transferred)
            /\ jobs' = jobs + 1
            /\ \E adopt \in BOOLEAN : Take(s, t, adopt)
    /\ UNCHANGED <<serverVars, countVars>>

\* The abort of a speculation of another input has settled; call the handler.
Cleared(s) ==
    /\ loop[s] = "clearing" /\ spec[handed[s]] # "aborting"
    /\ handed' = [handed EXCEPT ![s] = None]
    /\ loop' = [loop EXCEPT ![s] = "handling"]
    /\ UNCHANGED <<serverVars, countVars, lease, ownerOf, pending, current, specVars, jobs>>

\* The handler reports the end of its turn and goes on.
HandlerReports(s, outcome) ==
    /\ loop[s] = "handling" /\ lease[current[s]] = "running"
    /\ lease' = [lease EXCEPT ![current[s]] = outcome]
    /\ UNCHANGED <<serverVars, countVars, ownerOf, pending, current, loop, handed, specVars, jobs>>

\* The handler does not use the speculation it was given, or stops reading it.
HandlerDeclines(s) ==
    /\ loop[s] = "handling" /\ handed[s] # None
    /\ spec' = AbortedSpecs({handed[s]})
    /\ UNCHANGED <<serverVars, countVars, turnVars, specOf, jobs>>

\* The handler returns or throws; its turn ends if it has not, and the
\* speculation it was given is aborted, adopted or not.
HandlerSettles(s, outcome) ==
    /\ loop[s] = "handling"
    /\ lease' = IF lease[current[s]] = "running"
                THEN [lease EXCEPT ![current[s]] = outcome] ELSE lease
    /\ IF handed[s] = None
       THEN EndTurn(s)
       ELSE /\ loop' = [loop EXCEPT ![s] = "releasing"]
            /\ spec' = AbortedSpecs({handed[s]})
            /\ UNCHANGED <<pending, current, handed, specOf, jobs>>
    /\ UNCHANGED <<serverVars, countVars, ownerOf>>

Released(s) ==
    /\ loop[s] = "releasing" /\ spec[handed[s]] # "aborting"
    /\ EndTurn(s)
    /\ UNCHANGED <<serverVars, countVars, lease, ownerOf>>

\* abort: the client names the turn that runs or the one that waits.
ClientAborts(s, t) ==
    /\ s \in sockets /\ accepting
    /\ t \in TurnsOf(s)
    /\ lease' = AbortedLeases({t})
    /\ pending' = [pending EXCEPT ![s] = IF @ = t THEN None ELSE @]
    /\ UNCHANGED <<serverVars, countVars, ownerOf, current, loop, handed, specVars, jobs>>

-----------------------------------------------------------------------------
(* Speculations *)

ProbeStarts(s) ==
    /\ s \in sockets /\ JobFree(0)
    /\ jobs' = jobs + 1
    /\ probes' = [probes EXCEPT ![s] = @ + 1]
    /\ UNCHANGED <<serverVars, turnVars, specVars, requests, background>>

ProbeEnds(s) ==
    /\ probes[s] > 0
    /\ jobs' = jobs - 1
    /\ probes' = [probes EXCEPT ![s] = @ - 1]

\* The verdict says the speaker is done: speculate in place of the socket's
\* earlier speculation, in the job's last step.
Speculates(s, p) ==
    /\ ProbeEnds(s)
    /\ s \in sockets /\ accepting /\ ~ Busy(s)
    /\ spec[p] = "new"
    /\ specOf' = [specOf EXCEPT ![s] = p]
    /\ spec' = [AbortedSpecs({specOf[s]}) EXCEPT ![p] = "live"]
    /\ UNCHANGED <<serverVars, turnVars, requests, background>>

\* The speculator declines: the earlier speculation goes all the same.
SpeculatesNothing(s) ==
    /\ ProbeEnds(s)
    /\ s \in sockets /\ accepting /\ ~ Busy(s)
    /\ specOf' = [specOf EXCEPT ![s] = None]
    /\ spec' = AbortedSpecs({specOf[s]})
    /\ UNCHANGED <<serverVars, turnVars, requests, background>>

\* It says no, or is too late, or fails.
ProbeRefuses(s) ==
    /\ ProbeEnds(s)
    /\ UNCHANGED <<serverVars, turnVars, specVars, requests, background>>

\* A speculation ends by itself: nobody claimed it in time, its buffer is full
\* or it must not act.  A failure of its cleanup leaves it charged.
SpecCloses(p, ok) ==
    /\ spec[p] = "live"
    /\ spec' = [spec EXCEPT ![p] = IF ok THEN "gone" ELSE "uncertain"]
    /\ UNCHANGED <<serverVars, countVars, turnVars, specOf, jobs>>

SpecAborted(p, ok) ==
    /\ spec[p] = "aborting"
    /\ spec' = [spec EXCEPT ![p] = IF ok THEN "gone" ELSE "uncertain"]
    /\ UNCHANGED <<serverVars, countVars, turnVars, specOf, jobs>>

-----------------------------------------------------------------------------
(* Requests and background tasks *)

RequestStarts ==
    /\ JobFree(0)
    /\ jobs' = jobs + 1 /\ requests' = requests + 1
    /\ UNCHANGED <<serverVars, turnVars, specVars, probes, background>>

RequestEnds ==
    /\ requests > 0
    /\ jobs' = jobs - 1 /\ requests' = requests - 1
    /\ UNCHANGED <<serverVars, turnVars, specVars, probes, background>>

\* trackBackground(): a handler leaves work behind while the server accepts it.
BackgroundStarts(s) ==
    /\ loop[s] = "handling"
    /\ accepting /\ background < MaxBackground
    /\ background' = background + 1
    /\ UNCHANGED <<serverVars, turnVars, specVars, jobs, probes, requests>>

BackgroundEnds ==
    /\ background > 0
    /\ background' = background - 1
    /\ UNCHANGED <<serverVars, turnVars, specVars, jobs, probes, requests>>

-----------------------------------------------------------------------------
(* The end of a socket and of the server *)

\* Mutant: the job of the socket's loop is given back before its handler settles.
CloseGivesJobBack(s) ==
    /\ s \in sockets
    /\ sockets' = sockets \ {s}
    /\ lease' = AbortedLeases(TurnsOf(s))
    /\ pending' = [pending EXCEPT ![s] = None]
    /\ specOf' = [specOf EXCEPT ![s] = None]
    /\ spec' = AbortedSpecs({specOf[s]})
    /\ jobs' = IF Busy(s) THEN jobs - 1 ELSE jobs
    /\ UNCHANGED <<accepting, stop, ownerOf, current, loop, handed, countVars>>

\* close(): the handler goes on until it settles.
Close(s) ==
    /\ s \in sockets
    /\ sockets' = sockets \ {s}
    /\ lease' = AbortedLeases(TurnsOf(s))
    /\ pending' = [pending EXCEPT ![s] = None]
    /\ specOf' = [specOf EXCEPT ![s] = None]
    /\ spec' = AbortedSpecs({specOf[s]})
    /\ UNCHANGED <<accepting, stop, ownerOf, current, loop, handed, jobs, countVars>>

\* Mutant: speculations are aborted but not waited for.
DrainedButSpecs == jobs = 0 /\ background = 0

\* isDrained()
Drained == jobs = 0 /\ background = 0 /\ LiveSpecs = {}

\* stop(), or its retry after the deadline: no new work, every lease aborted,
\* sockets terminated or left to their close, every speculation aborted.
StopBegins ==
    /\ stop \in {"no", "failed"}
    /\ stop' = "draining" /\ accepting' = FALSE
    /\ lease' = AbortedLeases(Turn)
    /\ pending' = [s \in Socket |-> None]
    /\ specOf' = [s \in Socket |-> None]
    /\ spec' = AbortedSpecs(LiveSpecs)
    /\ \E kept \in SUBSET sockets : sockets' = kept
    /\ UNCHANGED <<ownerOf, current, loop, handed, jobs, countVars>>

StopResolves ==
    /\ stop = "draining" /\ Drained
    /\ stop' = "done"
    /\ UNCHANGED <<sockets, accepting, turnVars, specVars, jobs, countVars>>

\* The deadline, an abort that failed, or the listener.
StopRejects ==
    /\ stop = "draining"
    /\ stop' = "failed"
    /\ UNCHANGED <<sockets, accepting, turnVars, specVars, jobs, countVars>>

-----------------------------------------------------------------------------

Next ==
    \/ \E s \in Socket :
          \/ \E t \in Turn : QueueTurn(s, t) \/ ClientAborts(s, t)
          \/ \E o \in {"done", "error"} : HandlerReports(s, o) \/ HandlerSettles(s, o)
          \/ HandlerDeclines(s) \/ Cleared(s) \/ Released(s)
          \/ ProbeStarts(s) \/ ProbeRefuses(s) \/ SpeculatesNothing(s)
          \/ \E p \in Speculation : Speculates(s, p)
          \/ BackgroundStarts(s) \/ Close(s)
    \/ \E p \in Speculation, ok \in BOOLEAN : SpecCloses(p, ok) \/ SpecAborted(p, ok)
    \/ RequestStarts \/ RequestEnds \/ BackgroundEnds
    \/ StopBegins \/ StopResolves \/ StopRejects

Spec == Init /\ [][Next]_vars

-----------------------------------------------------------------------------

TypeOK ==
    /\ sockets \subseteq Socket /\ accepting \in BOOLEAN
    /\ lease \in [Turn -> {"new", "running", "done", "error", "aborted"}]
    /\ ownerOf \in [Turn -> Socket \cup {None}]
    /\ pending \in [Socket -> Turn \cup {None}] /\ current \in [Socket -> Turn \cup {None}]
    /\ loop \in [Socket -> {"idle", "clearing", "handling", "releasing"}]
    /\ specOf \in [Socket -> Speculation \cup {None}]
    /\ handed \in [Socket -> Speculation \cup {None}]
    /\ spec \in [Speculation -> Live \cup {"new", "gone"}]
    /\ jobs \in 0..MaxJobs
    /\ probes \in [Socket -> 0..MaxJobs] /\ requests \in 0..MaxJobs
    /\ background \in 0..MaxBackground
    /\ stop \in {"no", "draining", "failed", "done"}

\* A turn that runs is the newest of its socket, and its socket can still reach
\* it to end it: it waits, or it is the current one and nothing waits.
NewestTurnOwns ==
    \A t \in Turn : lease[t] = "running" =>
        LET s == ownerOf[t] IN
        IF pending[s] = None THEN current[s] = t ELSE pending[s] = t

\* The probes whose verdict is awaited: a socket's are told apart by a number.
AwaitedProbes == UNION {{s} \X (1..probes[s]) : s \in Socket}

\* Each job is given back exactly once: by the loop of a socket when nothing
\* waits any more, by a probe, by a request.
ChargedOnce ==
    jobs = Cardinality({s \in Socket : Busy(s)}) + requests + Cardinality(AwaitedProbes)

\* The work a turn or a probe may hand over to each other never exceeds the
\* limit by more than the one speculation whose slot a turn takes over.
AdmissionBound == jobs + Cardinality(LiveSpecs) <= MaxJobs + 1

\* The count of jobs is that of the work under way, and it keeps to the limit.
ChargesExact == ChargedOnce /\ AdmissionBound

\* No speculation is left to itself: its socket is there and may still adopt or
\* abort it, a loop has it, its abort runs or has failed, or stop() will repeat
\* it.
SpeculationOwned ==
    \A p \in Speculation : spec[p] = "live" =>
        \E s \in Socket : (specOf[s] = p /\ s \in sockets) \/ handed[s] = p

\* When stop() resolves, no handler, no turn and no speculation is left, and
\* none begins; until then no speculation is lost.
StopLeavesNothing ==
    /\ SpeculationOwned
    /\ stop = "done" =>
          /\ \A s \in Socket : ~ Busy(s) /\ pending[s] = None
          /\ \A t \in Turn : lease[t] # "running"
          /\ LiveSpecs = {}
=============================================================================
