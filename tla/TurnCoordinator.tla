-------------------------- MODULE TurnCoordinator --------------------------
(***************************************************************************)
(* The owner of interactive turns, src/turn-coordinator.ts.                *)
(*                                                                         *)
(* A turn is accepted by start(), which hands its caller a TurnLease; the  *)
(* lease is the only way to the turn's event sink and ends exactly once.   *)
(* A session has one foreground turn: accepting another one aborts it,     *)
(* together with the captures that are still listening for a turn of that  *)
(* session.  Background work is owned too, but displaces nothing.          *)
(*                                                                         *)
(* JavaScript runs every method below to completion, so a method is one    *)
(* action, the listeners and sinks it calls synchronously included.  What  *)
(* interleaves is the order of the calls, made by web sockets, Telegram,   *)
(* the local microphone and the turn pipelines, and the promises a sink    *)
(* returns, which settle in a step of their own (Delivered, DeliveryFails).*)
(***************************************************************************)
EXTENDS Integers, Sequences, FiniteSets

CONSTANTS
    Lease,       \* the TurnLease objects start() may create
    Session,     \* session ids
    TurnId,      \* turn ids, chosen by the clients or by the server
    Capture,     \* captures that observe supersessionSignal()
    None,        \* no lease
    MaxRecent,   \* MAX_RECENT_TURN_IDS
    MaxText,     \* MAX_OUTPUT_TEXT_CHARS, in units
    MaxAudio,    \* MAX_OUTPUT_AUDIO_BYTES, in units
    MaxClip,     \* MAX_EVENT_AUDIO_BYTES, in units
    MaxEvents,   \* bound of the model: output events
    MaxInFlight  \* bound of the model: unsettled deliveries of one lease

ASSUME LeaseAssumption == None \notin Lease /\ None \notin Session
ASSUME BoundAssumption ==
    /\ MaxRecent \in Nat \ {0}
    /\ MaxText \in Nat /\ MaxAudio \in Nat /\ MaxClip \in Nat
    /\ MaxEvents \in Nat /\ MaxInFlight \in Nat

Lane == {"foreground", "background"}

\* An input that passes the size checks at the head of start(); the others
\* throw before they touch any state.
Request == [session : Session, turn : TurnId, lane : Lane]

Key == Session \X TurnId
Outcome == {"done", "error", "aborted"}
Event == {"output"} \cup Outcome
NoRequest == [session |-> None]
NoCapture == [session |-> None]

VARIABLES
    request,        \* the request of each lease that start() returned
    terminal,       \* TurnLease.terminal, "null" while the turn runs
    signalAborted,  \* the leases whose controller has been aborted
    output,         \* outputTextChars and outputAudioBytes of each lease
    inFlight,       \* deliveries of each lease whose promise is unsettled
    foreground,     \* TurnCoordinator.foreground
    owners,         \* TurnCoordinator.owners
    seenIds,        \* TurnCoordinator.seenIds
    recentIds,      \* TurnCoordinator.recentIds
    generation,     \* the current controller of foregroundGenerations, 0 for none
    fired,          \* the generations whose controller has been aborted
    capture,        \* the generation a capture observes
    \* History, read by no action.
    events,         \* what the sink of each lease was called with
    overtaken       \* captures whose session admitted a foreground turn since

leaseVars == <<request, terminal, signalAborted, output, inFlight>>
ownerVars == <<foreground, owners>>
idVars == <<seenIds, recentIds>>
captureVars == <<generation, fired, capture, overtaken>>
vars == <<leaseVars, ownerVars, idVars, captureVars, events>>

-----------------------------------------------------------------------------

Accepted(l) == request[l] # NoRequest
KeyOf(r) == <<r.session, r.turn>>

\* Mutant: only the signal is looked at, so a completed turn stays active.
ActiveUntilAborted(l) == Accepted(l) /\ l \notin signalAborted

\* TurnLease.active.
Active(l) == Accepted(l) /\ terminal[l] = "null" /\ l \notin signalAborted

\* finish() for the leases ls, all of them active: the outcome is set, the
\* lease leaves the two maps where it is the entry, and only then is the sink
\* called.  Its exceptions are swallowed.
OwnersWithout(ls) == [k \in Key |-> IF owners[k] \in ls THEN None ELSE owners[k]]

ForegroundWithout(ls) ==
    [s \in Session |-> IF foreground[s] \in ls THEN None ELSE foreground[s]]
TerminalWith(ls, o) == [l \in Lease |-> IF l \in ls THEN o ELSE terminal[l]]
EventsWith(ls, o) == [l \in Lease |-> IF l \in ls THEN Append(events[l], o) ELSE events[l]]

Leave(ls, o) ==
    /\ terminal' = TerminalWith(ls, o)
    /\ owners' = OwnersWithout(ls)
    /\ foreground' = ForegroundWithout(ls)

Finish(ls, o) ==
    /\ Leave(ls, o)
    /\ events' = EventsWith(ls, o)
    /\ UNCHANGED <<request, idVars, captureVars>>

\* abort() of the leases ls: the controller first, then the outcome.
Abort(ls) ==
    /\ Finish(ls, "aborted")
    /\ signalAborted' = signalAborted \cup ls
    /\ UNCHANGED <<output, inFlight>>

\* fail(): the sink hears of the error before the controller is aborted, and
\* both happen in the same call.
Fail(l) ==
    /\ Finish({l}, "error")
    /\ signalAborted' = signalAborted \cup {l}

-----------------------------------------------------------------------------

Init ==
    /\ request = [l \in Lease |-> NoRequest]
    /\ terminal = [l \in Lease |-> "null"]
    /\ signalAborted = {}
    /\ output = [l \in Lease |-> [text |-> 0, audio |-> 0]]
    /\ inFlight = [l \in Lease |-> 0]
    /\ foreground = [s \in Session |-> None]
    /\ owners = [k \in Key |-> None]
    /\ seenIds = {}
    /\ recentIds = <<>>
    /\ generation = [s \in Session |-> 0]
    /\ fired = {}
    /\ capture = [c \in Capture |-> NoCapture]
    /\ events = [l \in Lease |-> <<>>]
    /\ overtaken = {}

\* supersessionSignal(): a capture starts to observe its session, whose
\* controller is created on the first call.
Observe(c, s) ==
    /\ capture[c] = NoCapture
    /\ LET g == IF generation[s] = 0 THEN 1 ELSE generation[s]
       IN  /\ generation' = [generation EXCEPT ![s] = g]
           /\ capture' = [capture EXCEPT ![c] = [session |-> s, generation |-> g]]
    /\ UNCHANGED <<leaseVars, ownerVars, idVars, fired, overtaken, events>>

\* The capture ends, whether or not it became a turn.
Forget(c) ==
    /\ capture[c] # NoCapture
    /\ capture' = [capture EXCEPT ![c] = NoCapture]
    /\ overtaken' = overtaken \ {c}
    /\ UNCHANGED <<leaseVars, ownerVars, idVars, generation, fired, events>>

\* start() with a request whose signal is already aborted: the lease is born
\* aborted, and displaces nothing.
StartCancelled(l, r) ==
    /\ ~ Accepted(l)
    /\ request' = [request EXCEPT ![l] = r]
    /\ terminal' = [terminal EXCEPT ![l] = "aborted"]
    /\ signalAborted' = signalAborted \cup {l}
    /\ events' = [events EXCEPT ![l] = <<"aborted">>]
    /\ UNCHANGED <<output, inFlight, ownerVars, idVars, captureVars>>

\* seenIds and recentIds forget the oldest key once there are too many.
Remember(k) ==
    LET recent == Append(recentIds, k)
        full == Len(recent) > MaxRecent
    IN  /\ recentIds' = IF full THEN Tail(recent) ELSE recent
        /\ seenIds' = IF full THEN (seenIds \cup {k}) \ {Head(recent)}
                              ELSE seenIds \cup {k}

\* Mutant: the controller is aborted but never replaced.
SupersedeForGood(s) ==
    /\ fired' = IF generation[s] = 0 THEN fired ELSE fired \cup {<<s, generation[s]>>}
    /\ overtaken' = overtaken \cup {c \in Capture : capture[c].session = s}
    /\ UNCHANGED <<generation, capture>>

\* The controller of the session is aborted and replaced, if anyone asked for it.
SupersedeCaptures(s) ==
    /\ IF generation[s] = 0
       THEN UNCHANGED <<generation, fired>>
       ELSE /\ fired' = fired \cup {<<s, generation[s]>>}
            /\ generation' = [generation EXCEPT ![s] = @ + 1]
    /\ overtaken' = overtaken \cup {c \in Capture : capture[c].session = s}
    /\ UNCHANGED capture

\* Mutant: start() lets the older turn run on.
NobodyDisplaced(s) == {}

\* The foreground turn that start() aborts to make room.
Displaced(s) == {l \in Lease : foreground[s] = l}

\* start() of a foreground turn.  Its own signal may fire while the displaced
\* work is told to stop (cancelled): the new lease is then born aborted and
\* owns nothing, although the old one is gone.
StartForeground(l, r, cancelled) ==
    LET s == r.session
        old == Displaced(s)
    IN  /\ ~ Accepted(l)
        /\ r.lane = "foreground"
        /\ KeyOf(r) \notin seenIds
        /\ \A m \in Lease : Accepted(m) /\ request[m].lane = "background"
                                => KeyOf(request[m]) # KeyOf(r)
        /\ cancelled => (generation[s] # 0 \/ old # {})
        /\ SupersedeCaptures(s)
        /\ Remember(KeyOf(r))
        /\ request' = [request EXCEPT ![l] = r]
        /\ signalAborted' = signalAborted \cup old \cup (IF cancelled THEN {l} ELSE {})
        /\ terminal' = [TerminalWith(old, "aborted") EXCEPT
                          ![l] = IF cancelled THEN "aborted" ELSE "null"]
        /\ events' = [EventsWith(old, "aborted") EXCEPT
                          ![l] = IF cancelled THEN <<"aborted">> ELSE <<>>]
        /\ owners' = [OwnersWithout(old) EXCEPT
                          ![KeyOf(r)] = IF cancelled THEN @ ELSE l]
        /\ foreground' = [ForegroundWithout(old) EXCEPT
                          ![s] = IF cancelled THEN @ ELSE l]
        /\ UNCHANGED <<output, inFlight>>

\* start() of background work.  ownBackground() numbers its turn ids, so no
\* other turn ever has one of them.
StartBackground(l, r) ==
    /\ ~ Accepted(l)
    /\ r.lane = "background"
    /\ KeyOf(r) \notin seenIds
    /\ \A m \in Lease : Accepted(m) => KeyOf(request[m]) # KeyOf(r)
    /\ Remember(KeyOf(r))
    /\ request' = [request EXCEPT ![l] = r]
    /\ owners' = [owners EXCEPT ![KeyOf(r)] = l]
    /\ UNCHANGED <<terminal, signalAborted, output, inFlight, foreground,
                   captureVars, events>>

-----------------------------------------------------------------------------

\* What the budget allows: a clip by its size and by the sum of all clips, text
\* by what is left.  Audio is counted before it is checked, text once it fits.
AudioFits(l, a) == a <= MaxClip /\ output[l].audio + a <= MaxAudio
TextFits(l, t) == t <= MaxText - output[l].text

Emitted ==
    {e \in Lease \X (1 .. MaxEvents) :
        LET sent == events[e[1]] IN e[2] <= Len(sent) /\ sent[e[2]] = "output"}

\* emit() of an event the budget allows; the sink answers at once (pending
\* FALSE) or with a promise.
Emit(l, t, a, pending) ==
    /\ Active(l)
    /\ Cardinality(Emitted) < MaxEvents
    /\ AudioFits(l, a) /\ TextFits(l, t)
    /\ pending => inFlight[l] < MaxInFlight
    /\ output' = [output EXCEPT ![l] = [text |-> @.text + t, audio |-> @.audio + a]]
    /\ inFlight' = [inFlight EXCEPT ![l] = IF pending THEN @ + 1 ELSE @]
    /\ events' = [events EXCEPT ![l] = Append(@, "output")]
    /\ UNCHANGED <<request, terminal, signalAborted, ownerVars, idVars, captureVars>>

\* emit() of an event over the budget: the turn fails instead.
EmitOverBudget(l, t, a) ==
    /\ Active(l)
    /\ ~ (AudioFits(l, a) /\ TextFits(l, t))
    /\ output' = [output EXCEPT ![l].audio = @ + a]
    /\ Fail(l)
    /\ UNCHANGED inFlight

\* emit() whose sink throws: the sink was called, and the turn fails.
EmitThrows(l, t, a) ==
    /\ Active(l)
    /\ Cardinality(Emitted) < MaxEvents
    /\ AudioFits(l, a) /\ TextFits(l, t)
    /\ output' = [output EXCEPT ![l] = [text |-> @.text + t, audio |-> @.audio + a]]
    /\ Leave({l}, "error")
    /\ events' = [events EXCEPT ![l] = @ \o <<"output", "error">>]
    /\ signalAborted' = signalAborted \cup {l}
    /\ UNCHANGED <<request, inFlight, idVars, captureVars>>

\* The promise of a delivery resolves.
Delivered(l) ==
    /\ inFlight[l] > 0
    /\ inFlight' = [inFlight EXCEPT ![l] = @ - 1]
    /\ UNCHANGED <<request, terminal, signalAborted, output, ownerVars, idVars,
                   captureVars, events>>

\* It rejects: fail(), which is nothing when the turn has ended meanwhile.
DeliveryFails(l) ==
    /\ inFlight[l] > 0
    /\ inFlight' = [inFlight EXCEPT ![l] = @ - 1]
    /\ UNCHANGED output
    /\ IF Active(l)
       THEN Fail(l)
       ELSE UNCHANGED <<request, terminal, signalAborted, ownerVars, idVars,
                        captureVars, events>>

\* Mutant: complete() does not ask whether the turn has ended.
CompleteAgain(l) ==
    /\ Accepted(l) /\ terminal[l] # "done"
    /\ Finish({l}, "done")
    /\ UNCHANGED <<signalAborted, output, inFlight>>

\* complete(), and settle() of a pipeline that returned without a word: the
\* signal of a turn that has not ended is never aborted between two calls.
Complete(l) ==
    /\ Accepted(l) /\ terminal[l] = "null"
    /\ Finish({l}, "done")
    /\ UNCHANGED <<signalAborted, output, inFlight>>

\* fail() by the pipeline.
PipelineFails(l) ==
    /\ Active(l)
    /\ Fail(l)
    /\ UNCHANGED <<output, inFlight>>

\* abort(): by the owner of the lease, or because the request's signal fires.
AbortLease(l) == Active(l) /\ Abort({l})

AbortForeground(s) == foreground[s] # None /\ Abort({foreground[s]})

AbortAll ==
    LET owned == {l \in Lease : \E k \in Key : owners[k] = l}
    IN  owned # {} /\ Abort(owned)

-----------------------------------------------------------------------------

Start(l) ==
    \E r \in Request :
        \/ StartCancelled(l, r)
        \/ \E cancelled \in BOOLEAN : StartForeground(l, r, cancelled)
        \/ StartBackground(l, r)

Output(l) ==
    \E t \in 0..(MaxText + 1), a \in 0..(MaxAudio + 1) :
        \/ \E pending \in BOOLEAN : Emit(l, t, a, pending)
        \/ EmitOverBudget(l, t, a)
        \/ EmitThrows(l, t, a)

Next ==
    \/ \E c \in Capture : Forget(c) \/ \E s \in Session : Observe(c, s)
    \/ \E l \in Lease :
          \/ Start(l)
          \/ Output(l)
          \/ Delivered(l)
          \/ DeliveryFails(l)
          \/ Complete(l)
          \/ PipelineFails(l)
          \/ AbortLease(l)
    \/ \E s \in Session : AbortForeground(s)
    \/ AbortAll

Spec == Init /\ [][Next]_vars

-----------------------------------------------------------------------------

TypeOK ==
    /\ request \in [Lease -> Request \cup {NoRequest}]
    /\ terminal \in [Lease -> Outcome \cup {"null"}]
    /\ signalAborted \subseteq Lease
    /\ output \in [Lease -> [text : Nat, audio : Nat]]
    /\ inFlight \in [Lease -> Nat]
    /\ foreground \in [Session -> Lease \cup {None}]
    /\ owners \in [Key -> Lease \cup {None}]
    /\ seenIds \subseteq Key
    /\ recentIds \in Seq(Key) /\ Len(recentIds) <= MaxRecent
    /\ generation \in [Session -> Nat]
    /\ fired \subseteq Session \X Nat
    /\ capture \in [Capture -> [session : Session, generation : Nat] \cup {NoCapture}]
    /\ events \in [Lease -> Seq(Event)]
    /\ overtaken \subseteq Capture

\* Two turns that hold the foreground of the same session never run at once,
\* whatever the order in which sockets, Telegram and the microphone start them
\* ("foreground admission per session").
SingleForeground ==
    \A l, m \in Lease :
        /\ Active(l) /\ request[l].lane = "foreground"
        /\ Active(m) /\ request[m].lane = "foreground"
        /\ request[l].session = request[m].session
        => l = m

\* The maps that barge-in and shutdown work from name exactly the turns that
\* run: a running turn that is missing from them could never be stopped, and
\* an ended one that stays would be displaced a second time.  It must survive
\* the eviction of a running turn's id and a cancellation inside start().
OwnershipExact ==
    \A l \in Lease :
        /\ Active(l) => /\ owners[KeyOf(request[l])] = l
                        /\ request[l].lane = "foreground"
                               => foreground[request[l].session] = l
        /\ \A k \in Key : owners[k] = l => Active(l) /\ KeyOf(request[l]) = k
        /\ \A s \in Session : foreground[s] = l =>
              /\ Active(l)
              /\ request[l].session = s
              /\ request[l].lane = "foreground"

\* A sink hears one terminal event, the outcome of its turn, as the last thing
\* it ever hears: late output of a superseded turn and late delivery failures
\* are dropped.
OneTerminalEvent ==
    \A l \in Lease :
        LET n == Len(events[l])
        IN  /\ \A i \in 1..n : events[l][i] # "output" => i = n
            /\ terminal[l] # "null" => n > 0 /\ events[l][n] = terminal[l]
            /\ terminal[l] = "null" => \A i \in 1..n : events[l][i] = "output"

\* The controller a provider watches and the outcome its caller reads agree:
\* only a turn that was completed has an open signal after its end.
SignalMatchesOutcome ==
    \A l \in Lease : l \in signalAborted <=> terminal[l] \in {"error", "aborted"}

\* A turn that has not failed stayed within its output budget.
WithinBudget ==
    \A l \in Lease : terminal[l] # "error" =>
        output[l].text <= MaxText /\ output[l].audio <= MaxAudio

\* What the pipeline and the provider of a turn see agrees with what its sink
\* was sent, also when a delivery fails late or a clip is one too many, and the
\* sink hears of one end.
OutcomeExact == OneTerminalEvent /\ SignalMatchesOutcome /\ WithinBudget

\* A capture sees its signal aborted exactly when a foreground turn of its
\* session was admitted after it began to observe: never because of one that
\* was admitted before, never not at all.
SupersededIffOvertaken ==
    \A c \in Capture : capture[c] # NoCapture =>
        (<<capture[c].session, capture[c].generation>> \in fired <=> c \in overtaken)

-----------------------------------------------------------------------------

\* Seen from its callers, the coordinator is the seat of TurnOwnership: no turn
\* ends twice or runs again, a foreground turn ends the one it displaces in the
\* step that accepts it, and nothing else takes the foreground away.
Ownership == INSTANCE TurnOwnership WITH
    Turn <- Lease,
    seat <- foreground,
    state <- [l \in Lease |-> IF ~ Accepted(l) THEN "new"
                              ELSE IF terminal[l] = "null" THEN "running"
                              ELSE terminal[l]]

ImplementsOwnership == Ownership!Spec
=============================================================================
