----------------------------- MODULE NotifyPark -----------------------------
(***************************************************************************)
(* Proactive notifications of the web voice server: dispatchNotify() and   *)
(* the park of those nobody heard, src/web-voice/server.ts.                *)
(*                                                                         *)
(* A notice is rendered and sent to every client.  One that no client took *)
(* is parked, at most ParkMax of them, and drained when a client connects; *)
(* a notice may also be kept for the call client although a browser heard  *)
(* it.  A notice parked without a clip is rendered when it is drained.     *)
(* Rendering awaits, so clients come and go and further notices arrive in  *)
(* the middle of a dispatch and of a drain; between two awaits the code    *)
(* runs alone, which is what the drain's step "pass" stands for.           *)
(***************************************************************************)
EXTENDS Integers, Sequences, SequencesExt, FiniteSets

CONSTANTS
    Notice,      \* what is announced
    Client,      \* devices that connect
    CallClient,  \* those of them that are on a call
    ParkMax,     \* PARK_MAX
    LazyRender,  \* onNotifyRender is there
    None         \* no notice is being drained

Item == [notice : Notice, clip : BOOLEAN, call : BOOLEAN, old : BOOLEAN]

ASSUME ParkAssumption ==
    CallClient \subseteq Client /\ ParkMax \in Nat \ {0} /\ LazyRender \in BOOLEAN
ASSUME NoneAssumption == None \notin Item

VARIABLES
    clients,   \* connected
    blocked,   \* clients whose socket takes no notice now
    reading,   \* clients whose history is read before their drain starts
    asking,    \* notices the daemon is asked to render: whether lazily and for the call
    stage,     \* per notice: "new", "asking", "late" (rendered after all) or "done"
    parked,    \* the parked items, oldest first
    drain,     \* "off", "pass" (it runs) or "rendering"
    current,   \* the item whose clip the drain awaits
    requested, \* flushRequested
    queued,    \* drains started whose microtask did not run yet
    full,      \* the background tasks are at their limit
    stopped,
    \* History, read by no action.
    heard,     \* which client heard which notice
    excused,   \* parked notices that wait for the next connection for a reason
    credit,    \* requests to drain that no pass has served yet
    unserved   \* one of them came since the last pass began

vars == <<clients, blocked, reading, asking, stage, parked, drain, current, requested,
          queued, full, stopped, heard, excused, credit, unserved>>
clientVars == <<clients, blocked, reading>>
requestVars == <<credit, unserved>>
drainVars == <<drain, current, requested, queued, requestVars>>

\* Nothing else runs while the drain is between two awaits.  An event of a
\* socket or a timer also waits for the microtask of a drain just started.
Yielded == drain # "pass"
Quiet == Yielded /\ queued = 0

Taking == clients \ blocked
Eligible(item, c) == item.call => c \in CallClient
Notices(items) == {item.notice : item \in ToSet(items)}

NotAsked == [lazy |-> FALSE, call |-> FALSE]

Init ==
    /\ clients = {} /\ blocked = {} /\ reading = {}
    /\ asking = [n \in Notice |-> NotAsked]
    /\ stage = [n \in Notice |-> "new"]
    /\ parked = <<>>
    /\ drain = "off" /\ current = None /\ requested = FALSE /\ queued = 0
    /\ full = FALSE /\ stopped = FALSE
    /\ heard = {} /\ excused = {} /\ credit = 0 /\ unserved = FALSE

-----------------------------------------------------------------------------
(* Clients *)

\* A request to drain.  Those that one pass will serve count once.
Asked ==
    /\ credit' = IF credit <= queued' THEN credit + 1 ELSE credit
    /\ unserved' = TRUE /\ excused' = {}

\* Mutant: a running drain is not told of the new client.
FlushUnlatched ==
    IF drain # "off"
    THEN UNCHANGED <<queued, requested>> /\ Asked
    ELSE IF stopped \/ full
         THEN UNCHANGED <<queued, requested, requestVars>> /\ excused' = Notices(parked)
         ELSE queued' = queued + 1 /\ UNCHANGED requested /\ Asked

\* startParkedFlush(): latch onto the drain that runs, or start one if stop()
\* can own it.  Every parked notice has its chance again.
StartFlush ==
    IF drain # "off"
    THEN requested' = TRUE /\ UNCHANGED queued /\ Asked
    ELSE IF stopped \/ full
         THEN UNCHANGED <<queued, requested, requestVars>> /\ excused' = Notices(parked)
         ELSE queued' = queued + 1 /\ UNCHANGED requested /\ Asked

\* open(): with a history to read first, if a job can be had for it.
Connect(c, history) ==
    /\ Quiet /\ ~ stopped
    /\ c \notin clients \cup reading
    /\ clients' = clients \cup {c} /\ blocked' = blocked \ {c}
    /\ IF history
       THEN reading' = reading \cup {c} /\ UNCHANGED <<requested, queued, excused, requestVars>>
       ELSE StartFlush /\ UNCHANGED reading
    /\ UNCHANGED <<asking, stage, parked, drain, current, full, stopped, heard>>

HistoryRead(c) ==
    /\ Yielded
    /\ c \in reading
    /\ reading' = reading \ {c}
    /\ IF ~ stopped /\ c \in clients
       THEN StartFlush
       ELSE UNCHANGED <<requested, queued, excused, requestVars>>
    /\ UNCHANGED <<clients, blocked, asking, stage, parked, drain, current, full, stopped, heard>>

Disconnect(c) ==
    /\ Quiet
    /\ c \in clients
    /\ clients' = clients \ {c} /\ blocked' = blocked \ {c}
    /\ UNCHANGED <<reading, asking, stage, parked, drainVars, full, stopped, heard, excused>>

\* sendJson() fails for a socket that is dying or has too much buffered.
Block(c) ==
    /\ Quiet
    /\ c \in clients
    /\ blocked' = IF c \in blocked THEN blocked \ {c} ELSE blocked \cup {c}
    /\ UNCHANGED <<clients, reading, asking, stage, parked, drainVars, full, stopped, heard, excused>>

-----------------------------------------------------------------------------
(* dispatchNotify *)

\* parked.push(), and shift() when that is one too many.
Park(item) ==
    LET all == Append(parked, item)
    IN  parked' = IF Len(all) > ParkMax THEN Tail(all) ELSE all

Dispatched(n) ==
    /\ stage' = [stage EXCEPT ![n] = "done"]
    /\ asking' = [asking EXCEPT ![n] = NotAsked]

\* Send it to every client.  If nobody took it, or it is to be kept for the
\* call and no call is connected, park it.
Publish(n, clip, call) ==
    /\ Dispatched(n)
    /\ heard' = heard \cup {<<n, c>> : c \in Taking}
    /\ IF Taking = {} \/ (call /\ clients \cap CallClient = {})
       THEN /\ Park([notice |-> n, clip |-> clip, call |-> call, old |-> FALSE])
            /\ excused' = IF clients = {} THEN excused ELSE excused \cup {n}
       ELSE UNCHANGED <<parked, excused>>

\* Quiet hours, a failure or shutdown: it is neither sent nor parked.
Forgone(n) == Dispatched(n) /\ UNCHANGED <<heard, parked, excused>>

\* A text-only notice goes out at once; its clip is the empty one.
NotifyText(n) ==
    /\ Quiet /\ ~ stopped
    /\ stage[n] = "new"
    /\ Publish(n, TRUE, FALSE)
    /\ UNCHANGED <<clientVars, drainVars, full, stopped>>

\* Ask the daemon; with nobody connected it need not render.
Notify(n, call) ==
    /\ Quiet /\ ~ stopped
    /\ stage[n] = "new"
    /\ stage' = [stage EXCEPT ![n] = "asking"]
    /\ asking' = [asking EXCEPT ![n] = [lazy |-> clients = {} /\ LazyRender, call |-> call]]
    /\ UNCHANGED <<clientVars, parked, drainVars, full, stopped, heard, excused>>

\* Mutant: shutdown is not asked after when the daemon answers.
AnsweredAnyway(n, rendered) ==
    /\ Yielded /\ stage[n] = "asking"
    /\ Publish(n, rendered, asking[n].call)
    /\ UNCHANGED <<clientVars, drainVars, full, stopped>>

\* The daemon answers with a clip or, if it was told to skip it, without one.
\* For clients that came meanwhile it is rendered after all.
Answered(n, rendered) ==
    /\ Yielded /\ stage[n] = "asking"
    /\ rendered \/ asking[n].lazy
    /\ IF stopped THEN Forgone(n)
       ELSE IF rendered \/ clients = {} THEN Publish(n, rendered, asking[n].call)
       ELSE /\ stage' = [stage EXCEPT ![n] = "late"]
            /\ UNCHANGED <<asking, heard, parked, excused>>
    /\ UNCHANGED <<clientVars, drainVars, full, stopped>>

\* Quiet hours defer it to the briefing, the daemon fails, or the caller is gone.
NotAnswered(n) ==
    /\ Yielded /\ stage[n] \in {"asking", "late"}
    /\ Forgone(n)
    /\ UNCHANGED <<clientVars, drainVars, full, stopped>>

\* The late render ends; without a clip the notice goes out as text.
LateRendered(n, ok) ==
    /\ Yielded /\ stage[n] = "late"
    /\ IF stopped THEN Forgone(n) ELSE Publish(n, ok, asking[n].call)
    /\ UNCHANGED <<clientVars, drainVars, full, stopped>>

-----------------------------------------------------------------------------
(* The drain *)

\* Mutant: the latched request is not taken back.
PassNeverEnds(left, failed) ==
    LET again == requested /\ left # <<>> /\ clients # {} /\ ~ stopped IN
    /\ drain' = IF again THEN "pass" ELSE "off"
    /\ UNCHANGED requested
    /\ credit' = IF again THEN credit - 1 ELSE queued
    /\ current' = None
    /\ parked' = left
    /\ unserved' = (unserved /\ ~ again)
    /\ excused' = IF failed /\ ~ unserved THEN excused \cup Notices(left) ELSE excused

\* flushParked(): the pass is over; a latched request grants another one.
PassEnds(left, failed) ==
    LET again == requested /\ left # <<>> /\ clients # {} /\ ~ stopped IN
    /\ drain' = IF again THEN "pass" ELSE "off"
    /\ requested' = (requested /\ ~ again)
    /\ credit' = IF again THEN credit - 1 ELSE queued
    /\ current' = None
    /\ parked' = left
    /\ unserved' = (unserved /\ ~ again)
    /\ excused' = IF failed /\ ~ unserved THEN excused \cup Notices(left) ELSE excused

\* A drain that finds another one running latches and is done.
FlushBegins ==
    /\ Yielded /\ queued > 0
    /\ queued' = queued - 1
    /\ IF drain # "off"
       THEN requested' = TRUE /\ UNCHANGED <<drain, requestVars>>
       ELSE /\ requested' = FALSE /\ drain' = "pass"
            /\ credit' = credit - 1 /\ unserved' = FALSE
    /\ UNCHANGED <<clientVars, asking, stage, parked, current, full, stopped, heard, excused>>

\* The item to drain next: one for the call if a call is connected, else the
\* oldest that anybody may take.
Urgent == IF clients \cap CallClient = {} THEN {} ELSE {i \in DOMAIN parked : parked[i].call}
Ordinary == {i \in DOMAIN parked : ~ parked[i].call}
NextIndex ==
    LET from == IF Urgent # {} THEN Urgent ELSE Ordinary
    IN  CHOOSE i \in from : \A j \in from : i <= j
NothingToDrain == stopped \/ clients = {} \/ Urgent \cup Ordinary = {}

\* The first client that takes it; if none does it is parked again, at the head.
Deliver(item, rest) ==
    LET takers == {c \in Taking : Eligible(item, c)} IN
    IF takers = {}
    THEN PassEnds(<<item>> \o rest, TRUE) /\ UNCHANGED heard
    ELSE /\ \E c \in takers : heard' = heard \cup {<<item.notice, c>>}
         /\ drain' = "pass" /\ parked' = rest /\ current' = None
         /\ UNCHANGED <<requested, excused, requestVars>>

\* Render the item, if its time to live did not pass in the park.
Take(item, rest) ==
    /\ parked' = rest
    /\ IF item.old THEN UNCHANGED <<drain, current>> ELSE drain' = "rendering" /\ current' = item
    /\ UNCHANGED <<requested, heard, excused, requestVars>>

\* One round of drainParkedPass()'s loop, up to its await.
Pass ==
    /\ drain = "pass"
    /\ IF NothingToDrain
       THEN PassEnds(parked, FALSE) /\ UNCHANGED heard
       ELSE LET item == parked[NextIndex]
                rest == RemoveAt(parked, NextIndex)
            IN  IF item.old \/ ~ item.clip THEN Take(item, rest) ELSE Deliver(item, rest)
    /\ UNCHANGED <<clientVars, asking, stage, queued, full, stopped>>

\* Mutant: a failed render drops the notice.
RenderLosesNotice(ok) ==
    /\ drain = "rendering"
    /\ IF ok /\ ~ stopped
       THEN Deliver([current EXCEPT !.clip = TRUE], parked)
       ELSE PassEnds(parked, ~ ok) /\ UNCHANGED heard
    /\ UNCHANGED <<clientVars, asking, stage, queued, full, stopped>>

\* The clip of the item being drained is there, or is not.
Rendered(ok) ==
    LET item == [current EXCEPT !.clip = ok] IN
    /\ drain = "rendering"
    /\ IF ok /\ ~ stopped
       THEN Deliver(item, parked)
       ELSE PassEnds(<<item>> \o parked, ~ ok) /\ UNCHANGED heard
    /\ UNCHANGED <<clientVars, asking, stage, queued, full, stopped>>

-----------------------------------------------------------------------------

\* An item grows too old for the park, and the background tasks fill up.
Age(i) ==
    /\ Quiet
    /\ ~ parked[i].old
    /\ parked' = [parked EXCEPT ![i].old = TRUE]
    /\ UNCHANGED <<clientVars, asking, stage, drainVars, full, stopped, heard, excused>>

Fill ==
    /\ Quiet
    /\ full' = ~ full
    /\ UNCHANGED <<clientVars, asking, stage, parked, drainVars, stopped, heard, excused>>

\* stop(): the park is emptied and every socket goes; one whose termination
\* fails stays a client until its close is confirmed.
Stop ==
    /\ Quiet /\ ~ stopped
    /\ stopped' = TRUE
    /\ parked' = <<>>
    /\ \E kept \in SUBSET clients : clients' = kept /\ blocked' = blocked \cap kept
    /\ UNCHANGED <<reading, asking, stage, drainVars, full, heard, excused>>

Next ==
    \/ \E c \in Client :
          \/ \E history \in BOOLEAN : Connect(c, history)
          \/ HistoryRead(c) \/ Disconnect(c) \/ Block(c)
    \/ \E n \in Notice :
          \/ NotifyText(n) \/ NotAnswered(n)
          \/ \E b \in BOOLEAN : Notify(n, b) \/ Answered(n, b) \/ LateRendered(n, b)
    \/ \E i \in DOMAIN parked : Age(i)
    \/ FlushBegins \/ Pass \/ \E ok \in BOOLEAN : Rendered(ok)
    \/ Fill \/ Stop

Spec == Init /\ [][Next]_vars

-----------------------------------------------------------------------------

TypeOK ==
    /\ clients \subseteq Client /\ blocked \subseteq clients /\ reading \subseteq Client
    /\ asking \in [Notice -> [lazy : BOOLEAN, call : BOOLEAN]]
    /\ stage \in [Notice -> {"new", "asking", "late", "done"}]
    /\ parked \in Seq(Item)
    /\ drain \in {"off", "pass", "rendering"} /\ current \in Item \cup {None}
    /\ requested \in BOOLEAN /\ queued \in Nat
    /\ full \in BOOLEAN /\ stopped \in BOOLEAN
    /\ heard \subseteq Notice \X Client /\ excused \subseteq Notice
    /\ credit \in Int /\ unserved \in BOOLEAN

InDrain == IF current = None THEN {} ELSE {current}
HeldItems == ToSet(parked) \cup InDrain
Held == {item.notice : item \in HeldItems}

\* Neither the park nor the work of the drain grows without bound. A drain puts
\* back the notice it failed to deliver while new ones filled its place: the
\* park holds one more than ParkMax, never two. And a pass serves a request
\* ("Each latched request grants at most one re-pass, so a permanently failing
\* render cannot hot-loop").
DrainBounded ==
    /\ Len(parked) + Cardinality(InDrain) <= ParkMax + 1
    /\ credit >= 0

\* No interleaving of drains, renders and sockets loses a parked notice or
\* doubles it: it waits once, in the park or in the drain, until a client hears
\* it, it is too old, newer ones push it out or the server stops.
NothingVanishes ==
    [][\A item \in HeldItems :
          \/ item.notice \in Held' \/ item.old \/ stopped'
          \/ Len(parked) >= ParkMax /\ item = Head(parked)
          \/ \E c \in Client : <<item.notice, c>> \in heard' \ heard]_vars

\* A notice still held was heard by nobody, unless it is kept for the call, and
\* then by no call client: draining it repeats nothing to anyone.
HeldIsUnheard ==
    \A item \in HeldItems, c \in Client :
        <<item.notice, c>> \in heard => item.call /\ c \notin CallClient

\* When no drain runs or waits to run, a parked notice that a connected client
\* would take waits for a reason: its render or its delivery failed since the
\* last connection, or the drain of that connection was declined.
NoStranding ==
    drain = "off" /\ queued = 0 /\ ~ stopped =>
        \A item \in ToSet(parked), c \in Taking \ reading :
            Eligible(item, c) => item.notice \in excused

\* What is held has not been heard, and is held for a reason.
HeldForAReason == HeldIsUnheard /\ NoStranding

\* The park holds what it should and no more.
ParkIsExact == DrainBounded /\ HeldForAReason

\* Nothing is published once shutdown has begun.
SilentAfterStop == [][stopped => heard' = heard]_vars

\* Both: what is owed is kept until it is told or nobody can be told any more.
ParkKeepsWhatIsOwed == NothingVanishes /\ SilentAfterStop
=============================================================================
