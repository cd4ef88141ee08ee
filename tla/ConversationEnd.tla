-------------------------- MODULE ConversationEnd --------------------------
(***************************************************************************)
(* When a conversation is over: the lifecycle the web voice server keeps   *)
(* (src/web-voice/server.ts) and the daemon's decision to drop the work    *)
(* its brain deferred for that conversation (src/daemon.ts).               *)
(*                                                                         *)
(* Every browser, the microphone and the local command turns are surfaces  *)
(* of one assistant.  A dropped socket starts a grace period, a goodbye    *)
(* ends the conversation if it was the last client, and the daemon drops   *)
(* the deferred work (a cold transfer still starting) unless some surface, *)
(* or a job it left running, can still adopt it.  An ending that came      *)
(* while a job ran is remembered and reported again when the job settles.  *)
(***************************************************************************)
EXTENDS Integers, FiniteSets

CONSTANTS
    Socket,           \* connections; one is used again once its job settled
    MaxJobs,          \* MAX_CONCURRENT_WEB_JOBS
    MaxConversations, \* bound of the model: conversations begun
    LocalSurface,     \* a microphone and local command turns exist
    LiveStt           \* a recording may wait for an earlier final transcript

ASSUME SocketAssumption == IsFiniteSet(Socket)
ASSUME LimitAssumption ==
    /\ MaxJobs \in Nat \ {0} /\ MaxConversations \in Nat \ {0}
    /\ LocalSurface \in BOOLEAN /\ LiveStt \in BOOLEAN

VARIABLES
    sock,     \* per socket: "closed", "attached" (a client) or "departed" (goodbye)
    timer,    \* the grace period runs
    owed,     \* endReportedDuringJob
    job,      \* per socket: its turn, "none", "waiting", "running" or "aborted"
    requests, \* jobs of HTTP requests, notifications and history reads
    accepting,
    mic,      \* voiceDesiredActive
    turn,     \* a local command turn runs
    deferred, \* the work the brain holds: of a conversation, another kind, or Nothing
    \* History, read by no action's guard but the bound of the model.
    conversation, \* the conversation a client that attaches now takes part in
    joined,       \* per socket: the conversation it attached to
    unreported    \* jobs run that no ending will be reported for

vars == <<sock, timer, owed, job, requests, accepting, mic, turn, deferred,
          conversation, joined, unreported>>
localVars == <<mic, turn>>
workVars == <<deferred, unreported>>
historyVars == <<conversation, joined>>

Conversations == 1..MaxConversations
Nothing == 0
ApiWork == -1    \* of a request that belongs to no web conversation
LocalWork == -2  \* of a local command turn

Clients == {s \in Socket : sock[s] = "attached"}
SocketJobs == {s \in Socket : job[s] \in {"running", "aborted"}}
ActiveJobs == Cardinality(SocketJobs) + requests

Init ==
    /\ sock = [s \in Socket |-> "closed"]
    /\ timer = FALSE /\ owed = FALSE
    /\ job = [s \in Socket |-> "none"]
    /\ requests = 0
    /\ accepting = TRUE
    /\ mic = FALSE /\ turn = FALSE
    /\ deferred = Nothing
    /\ conversation = 1
    /\ joined = [s \in Socket |-> 1]
    /\ unreported = FALSE

-----------------------------------------------------------------------------
(* The daemon's decision *)

\* Mutant: a job of the server does not keep the conversation alive.
LiveWithoutJobs(clients, grace, jobs) ==
    mic' \/ turn' \/ clients # {} \/ grace

\* anyInputSurfaceActive(): the arguments are what the server would answer now.
Live(clients, grace, jobs) ==
    mic' \/ turn' \/ jobs > 0 \/ clients # {} \/ grace

\* noteInputSurfaceDeparted(): drop the deferred work unless a surface is live.
Departed(clients, grace, jobs) ==
    IF Live(clients, grace, jobs)
    THEN UNCHANGED workVars
    ELSE deferred' = Nothing /\ unreported' = FALSE

\* The same, noticed by the daemon: what jobs of the server decline is not
\* remembered, and none of them is under a debt that will report it.
LocalDeparted ==
    IF Live(Clients, timer, ActiveJobs)
    THEN /\ UNCHANGED deferred
         /\ unreported' = (unreported
               \/ ~ (mic' \/ turn' \/ timer \/ owed \/ Clients # {}))
    ELSE deferred' = Nothing /\ unreported' = FALSE

\* Mutant: the ending is not remembered.
EndForgotten(clients, jobs) ==
    /\ timer' = FALSE /\ UNCHANGED owed
    /\ Departed(clients, FALSE, jobs)

\* endConversationNow(): what the daemon declines now is remembered.
EndNow(clients, jobs) ==
    /\ timer' = FALSE
    /\ owed' = (jobs > 0 \/ owed)
    /\ Departed(clients, FALSE, jobs)

\* endConversationNow(true): older jobs cannot own the conversation any more.
EndDefinitively == timer' = FALSE /\ Departed({}, FALSE, 0)

-----------------------------------------------------------------------------
(* Sockets *)

\* Mutant: only a running grace period is ended by a new conversation.
OpenForgetsDebt(s, resume) ==
    LET fresh == ~ resume /\ Clients = {} IN
    /\ UNCHANGED localVars
    /\ accepting
    /\ sock[s] = "closed" /\ job[s] = "none"
    /\ fresh => conversation < MaxConversations
    /\ IF fresh /\ timer
       THEN Departed({}, FALSE, ActiveJobs) /\ timer' = FALSE
       ELSE UNCHANGED <<workVars, timer>>
    /\ owed' = FALSE
    /\ sock' = [sock EXCEPT ![s] = "attached"]
    /\ conversation' = IF fresh THEN conversation + 1 ELSE conversation
    /\ joined' = [joined EXCEPT ![s] = conversation']
    /\ UNCHANGED <<job, requests, accepting>>

\* open(): a page that resumes, or an operator who pressed Start.
Open(s, resume) ==
    LET fresh == ~ resume /\ Clients = {} IN
    /\ UNCHANGED localVars
    /\ accepting
    /\ sock[s] = "closed" /\ job[s] = "none"
    /\ fresh => conversation < MaxConversations
    /\ IF fresh /\ timer THEN Departed({}, FALSE, ActiveJobs) /\ timer' = FALSE
       ELSE IF fresh /\ owed THEN EndDefinitively
       ELSE UNCHANGED <<workVars, timer>>
    /\ owed' = FALSE
    /\ sock' = [sock EXCEPT ![s] = "attached"]
    /\ conversation' = IF fresh THEN conversation + 1 ELSE conversation
    /\ joined' = [joined EXCEPT ![s] = conversation']
    /\ UNCHANGED <<job, requests, accepting>>

\* bye: the operator stopped; the socket is closed later.
Bye(s) ==
    /\ UNCHANGED localVars
    /\ accepting
    /\ sock[s] = "attached"
    /\ sock' = [sock EXCEPT ![s] = "departed"]
    /\ IF Clients = {s} THEN EndNow({}, ActiveJobs) ELSE UNCHANGED <<timer, owed, workVars>>
    /\ UNCHANGED <<job, requests, accepting, historyVars>>

\* abortTurn(); a recording that waits finds its socket gone.
Aborted(state) ==
    IF state = "running" THEN "aborted" ELSE IF state = "waiting" THEN "none" ELSE state

\* close(): the turn is aborted, its job goes on until the handler settles.
\* The last client that did not say goodbye leaves a grace period behind.
Close(s) ==
    /\ accepting
    /\ sock[s] # "closed"
    /\ sock' = [sock EXCEPT ![s] = "closed"]
    /\ job' = [job EXCEPT ![s] = Aborted(@)]
    /\ timer' = (timer \/ Clients = {s})
    /\ UNCHANGED <<owed, requests, accepting, localVars, workVars, historyVars>>

\* The grace period is over; a client that came back keeps the conversation.
GraceEnds ==
    /\ UNCHANGED localVars
    /\ timer
    /\ IF Clients = {} THEN EndNow({}, ActiveJobs) ELSE timer' = FALSE /\ UNCHANGED <<owed, workVars>>
    /\ UNCHANGED <<sock, job, requests, accepting, historyVars>>

-----------------------------------------------------------------------------
(* Jobs *)

\* Mutant: the latch is not consumed.
ReleasedInDebt(jobs) ==
    IF jobs = 0 /\ owed /\ Clients = {} /\ ~ timer
    THEN UNCHANGED <<owed, timer>> /\ Departed({}, FALSE, 0)
    ELSE UNCHANGED <<owed, timer, workVars>>

\* releaseJob(): an ending that came while jobs ran is reported again.
Released(jobs) ==
    IF jobs = 0 /\ owed /\ Clients = {} /\ ~ timer
    THEN owed' = FALSE /\ Departed({}, FALSE, 0) /\ UNCHANGED timer
    ELSE UNCHANGED <<owed, timer, workVars>>

\* A recording that waits for an earlier final; nothing is charged yet.
RecordingWaits(s) ==
    /\ LiveStt /\ accepting
    /\ sock[s] = "attached" /\ job[s] = "none"
    /\ job' = [job EXCEPT ![s] = "waiting"]
    /\ UNCHANGED <<sock, timer, owed, requests, accepting, localVars, workVars, historyVars>>

\* queueTurn(): a frame of a client, or a recording whose wait is over, which
\* only asks whether the socket still exists.
TurnStarts(s) ==
    /\ accepting
    /\ \/ sock[s] = "attached" /\ job[s] = "none"
       \/ sock[s] # "closed" /\ job[s] = "waiting"
    /\ IF ActiveJobs < MaxJobs
       THEN job' = [job EXCEPT ![s] = "running"]
       ELSE job[s] = "waiting" /\ job' = [job EXCEPT ![s] = "none"]
    /\ unreported' = (unreported \/ (sock[s] = "departed" /\ ActiveJobs < MaxJobs))
    /\ UNCHANGED <<sock, timer, owed, requests, accepting, localVars, deferred, historyVars>>

\* A turn that was not aborted asks for a transfer to a lane still starting.
TurnDefers(s) ==
    /\ job[s] = "running"
    /\ deferred' = joined[s] /\ UNCHANGED unreported
    /\ UNCHANGED <<sock, timer, owed, job, requests, accepting, localVars, historyVars>>

TurnSettles(s) ==
    /\ UNCHANGED localVars
    /\ job[s] \in {"running", "aborted"}
    /\ job' = [job EXCEPT ![s] = "none"]
    /\ Released(ActiveJobs - 1)
    /\ UNCHANGED <<sock, requests, accepting, historyVars>>

RequestStarts ==
    /\ accepting /\ ActiveJobs < MaxJobs
    /\ requests' = requests + 1
    /\ UNCHANGED <<sock, timer, owed, job, accepting, localVars, workVars, historyVars>>

RequestDefers ==
    /\ accepting /\ requests > 0
    /\ deferred' = ApiWork /\ UNCHANGED unreported
    /\ UNCHANGED <<sock, timer, owed, job, requests, accepting, localVars, historyVars>>

RequestSettles ==
    /\ UNCHANGED localVars
    /\ requests > 0
    /\ requests' = requests - 1
    /\ Released(ActiveJobs - 1)
    /\ UNCHANGED <<sock, job, accepting, historyVars>>

\* stop(): the ending is reported with the sockets still there, then they go.
Stop ==
    /\ accepting
    /\ accepting' = FALSE
    /\ UNCHANGED <<localVars, requests, historyVars>>
    /\ EndNow(Clients, ActiveJobs)
    /\ sock' = [s \in Socket |-> "closed"]
    /\ job' = [s \in Socket |-> Aborted(job[s])]

-----------------------------------------------------------------------------
(* The microphone and local command turns *)

\* Nothing of the server changes.
LocalOnly == UNCHANGED <<sock, timer, owed, job, requests, accepting, historyVars>>

MicOn ==
    /\ LocalSurface /\ ~ mic
    /\ mic' = TRUE
    /\ LocalOnly /\ UNCHANGED <<turn, workVars>>

\* handleVoiceDeactivated().
MicOff ==
    /\ mic
    /\ mic' = FALSE /\ UNCHANGED turn
    /\ LocalDeparted
    /\ LocalOnly

\* dispatchCommand().
LocalTurnStarts ==
    /\ LocalSurface /\ ~ turn
    /\ turn' = TRUE
    /\ LocalOnly /\ UNCHANGED <<mic, workVars>>

LocalTurnDefers ==
    /\ turn
    /\ deferred' = LocalWork /\ UNCHANGED unreported
    /\ LocalOnly /\ UNCHANGED localVars

LocalTurnSettles ==
    /\ turn
    /\ turn' = FALSE /\ UNCHANGED mic
    /\ LocalDeparted
    /\ LocalOnly

-----------------------------------------------------------------------------

Next ==
    \/ \E s \in Socket :
          \/ \E resume \in BOOLEAN : Open(s, resume)
          \/ Bye(s) \/ Close(s)
          \/ RecordingWaits(s) \/ TurnStarts(s) \/ TurnDefers(s) \/ TurnSettles(s)
    \/ GraceEnds \/ RequestStarts \/ RequestDefers \/ RequestSettles \/ Stop
    \/ MicOn \/ MicOff \/ LocalTurnStarts \/ LocalTurnDefers \/ LocalTurnSettles

Spec == Init /\ [][Next]_vars

-----------------------------------------------------------------------------

TypeOK ==
    /\ sock \in [Socket -> {"closed", "attached", "departed"}]
    /\ timer \in BOOLEAN /\ owed \in BOOLEAN
    /\ job \in [Socket -> {"none", "waiting", "running", "aborted"}]
    /\ requests \in 0..MaxJobs
    /\ accepting \in BOOLEAN /\ mic \in BOOLEAN /\ turn \in BOOLEAN
    /\ deferred \in Conversations \cup {Nothing, ApiWork, LocalWork}
    /\ conversation \in Conversations
    /\ joined \in [Socket -> Conversations] /\ unreported \in BOOLEAN

\* An ending is remembered only while the jobs it waits for run and nobody has
\* come back ("Keeping either debt would let a later, unrelated socketless turn
\* pay it and lose its own deferred work").
DebtIsExact == owed => ActiveJobs > 0 /\ Clients = {} /\ ~ timer

\* Deferred work is never dropped while a surface could still adopt it: no
\* client is left, or the client that joins begins a new conversation; the
\* microphone is off and no local turn runs; and the server's jobs are done,
\* unless a new conversation says they are too old to count.
NeverDroppedUnderneath ==
    [][deferred # Nothing /\ deferred' = Nothing
          => /\ Clients' = {} \/ (Clients = {} /\ conversation' # conversation)
             /\ ~ mic' /\ ~ turn'
             /\ ActiveJobs' = 0 \/ conversation' # conversation]_vars

\* Nobody can adopt deferred work: no client, no local surface, no job is left.
NobodyLeft ==
    accepting /\ Clients = {} /\ ~ timer /\ ActiveJobs = 0 /\ ~ mic /\ ~ turn

\* Once nobody is left, nothing a web conversation deferred is left either: it
\* would steer whatever is said next ("only when the last surface and its
\* owned work are done").
NoStaleWork == NobodyLeft => deferred \notin Conversations

\* The same, but for the jobs whose end nothing reports: those that ran when
\* the daemon noticed a departure itself, and turns on a departed socket.
ReportedWorkEnds == NobodyLeft /\ ~ unreported => deferred \notin Conversations

\* A conversation that begins with nobody attached inherits nothing of the one
\* before it, unless a local surface carries that one on.
Inherits ==
    conversation' # conversation /\ deferred' \in Conversations /\ ~ mic /\ ~ turn

StartInheritsNothing == [][~ Inherits]_vars

\* The same, but for a grace period that overlaps a job of the old conversation,
\* and for jobs whose end nothing reports.
SettledStartInheritsNothing ==
    [][Inherits => unreported \/ (timer /\ ActiveJobs > 0)]_vars
=============================================================================
