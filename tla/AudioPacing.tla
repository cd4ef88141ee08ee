---------------------------- MODULE AudioPacing ----------------------------
(***************************************************************************)
(* How the audio of one protocol-2 turn is paced: AudioPlaybackGate        *)
(* (web-voice/audio-pacing.ts) and the sink that feeds it (makeSink in     *)
(* web-voice/server.ts).  A clip goes out when the browser's               *)
(* acknowledgements leave room for it.  Its producer waits until then, and *)
(* fails when the browser stalls.                                          *)
(*                                                                         *)
(* Times are relative to now.  A time in the past stays at -Past, which no *)
(* guard tells from an earlier one.                                        *)
(***************************************************************************)
EXTENDS Naturals, Integers, Sequences, SequencesExt

CONSTANTS
    Duration,       \* how long clips last
    MaxMs,          \* MAX_UNPLAYED_AUDIO_MS
    MaxClips,       \* MAX_UNACKED_AUDIO_CLIPS
    StallMs,        \* AUDIO_ACK_STALL_MS
    Early,          \* how much earlier than Date.now() says a timer may fire
    MaxAudio        \* bound: clips the reply is made of

\* The smallest limits the code works with.
PacingAssumption ==
    /\ Duration \subseteq Nat \ {0} /\ Duration # {}
    /\ {MaxMs, MaxClips, StallMs, Early, MaxAudio} \subseteq Nat
    /\ MaxClips > 0 /\ StallMs > 0

VARIABLES
    outstanding,    \* outstanding: clips sent and not acknowledged
    waiter,         \* waiter: the deadline and the timer of the producer, or NoWaiter
    chain,          \* the calls behind pendingAudio, oldest first
    credited,       \* the wait of the oldest call is over, the clip not yet out
    sink,           \* its turn is "current", was "left" by its handler, or "aborted"
    doneRequested,  \* done() was called, and waits for the chain
    ended,          \* the message that ends the turn for the browser
    taken,          \* history: number of clips that were given to it
    delivered,      \* history: number of clips that went out
    progress,       \* history: when playback last made progress
    impatient       \* history: a wait was failed although playback was in time

vars == <<outstanding, waiter, chain, credited, sink, doneRequested, ended,
          taken, delivered, progress, impatient>>

Past == StallMs + 2
NoWaiter == [deadline |-> 0, timer |-> -1]
Later(a, b) == IF a > b THEN a ELSE b

UnplayedMs(clips) == FoldLeft(LAMBDA sum, clip : sum + clip.ms, 0, clips)

Init ==
    /\ outstanding = <<>> /\ waiter = NoWaiter /\ chain = <<>> /\ credited = FALSE
    /\ sink = "current" /\ doneRequested = FALSE /\ ended = "none"
    /\ taken = 0 /\ delivered = 0 /\ progress = 0 /\ impatient = FALSE

HasCapacity(ms, clips) ==
    \/ clips = <<>>
    \/ Len(clips) < MaxClips /\ UnplayedMs(clips) + ms <= MaxMs

\* expectedPlaybackEndMs
PlaybackEnd(clips) == IF clips = <<>> THEN 0 ELSE Last(clips).end

\* track()
Track(ms, clips) ==
    Append(clips, [ms |-> ms, end |-> Later(0, PlaybackEnd(clips)) + ms])

Armed(clips) ==
    LET deadline == PlaybackEnd(clips) + StallMs
    IN  [deadline |-> deadline, timer |-> Later(1, deadline + 1)]

TypeOK ==
    /\ outstanding \in Seq([ms : Duration, end : Int])
    /\ waiter \in [deadline : Int, timer : Int]
    /\ chain \in Seq(Duration) /\ Len(chain) <= 2
    /\ {credited, doneRequested, impatient} \subseteq BOOLEAN
    /\ sink \in {"current", "left", "aborted"} /\ ended \in {"none", "done", "error"}
    /\ taken \in 0 .. MaxAudio /\ delivered \in 0 .. taken

\* live(): the turn is current and not aborted.
Live == sink = "current"

\* No microtask is left: the call that is due, or done(), has been resumed.
Quiet ==
    /\ chain = <<>> \/ waiter # NoWaiter
    /\ chain = <<>> /\ doneRequested /\ Live => ended # "none"

historyVars == <<progress, impatient>>

(***************************************************************************)
(* The sink                                                                *)
(***************************************************************************)

\* deliver(): the clip goes out and is tracked.  Playback that had nothing left
\* starts with it.
Deliver(ms) ==
    /\ outstanding' = Track(ms, outstanding)
    /\ delivered' = delivered + 1
    /\ progress' = IF outstanding = <<>> THEN 0 ELSE progress

\* sendAudio(): the reply, a filler and a notice call it independently.  A clip
\* goes out at once, waits for credit, or queues behind the calls that wait.
SendAudio(ms) ==
    /\ Live /\ ~doneRequested /\ ended = "none"
    /\ taken < MaxAudio /\ Len(chain) < 2
    /\ taken' = taken + 1
    /\ IF chain = <<>> /\ HasCapacity(ms, outstanding)
       THEN Deliver(ms) /\ UNCHANGED <<chain, waiter>>
       ELSE /\ chain' = Append(chain, ms)
            /\ waiter' = IF chain = <<>> THEN Armed(outstanding) ELSE waiter
            /\ UNCHANGED <<outstanding, delivered, progress>>
    /\ UNCHANGED <<credited, sink, doneRequested, ended, impatient>>

\* Every call of the chain rejects, and the turn ends with an error: the lease
\* fails over an audio event that was not delivered, and done() reports it.
Reject ==
    /\ chain' = <<>> /\ waiter' = NoWaiter /\ credited' = FALSE
    /\ ended' = IF Live /\ ended = "none" THEN "error" ELSE ended
    /\ sink' = IF Live /\ ~doneRequested THEN "aborted" ELSE sink

\* A third call while two wait, or a socket that takes no more: sendAudio() throws.
SendAudioThrows ==
    /\ Live /\ ~doneRequested /\ ended = "none" /\ taken < MaxAudio
    /\ \/ Len(chain) = 2
       \/ chain = <<>> /\ \E ms \in Duration : HasCapacity(ms, outstanding)
    /\ taken' = taken + 1
    /\ Reject
    /\ UNCHANGED <<outstanding, doneRequested, delivered, historyVars>>

\* The oldest call goes on: its clip goes out if the turn is still live, or it
\* waits for credit.
SendSnapshot ==
    /\ chain # <<>> /\ waiter = NoWaiter
    /\ LET ms == Head(chain) IN
       IF ~Live
       THEN chain' = Tail(chain) /\ credited' = FALSE
            /\ UNCHANGED <<outstanding, waiter, delivered, progress>>
       ELSE IF credited \/ HasCapacity(ms, outstanding)
       THEN chain' = Tail(chain) /\ credited' = FALSE /\ Deliver(ms) /\ UNCHANGED waiter
       ELSE waiter' = Armed(outstanding)
            /\ UNCHANGED <<chain, credited, outstanding, delivered, progress>>
    /\ UNCHANGED <<sink, doneRequested, ended, taken, impatient>>

\* Its clip is due and the socket takes no more.
DeliverThrows ==
    /\ chain # <<>> /\ waiter = NoWaiter /\ Live
    /\ credited \/ HasCapacity(Head(chain), outstanding)
    /\ Reject
    /\ UNCHANGED <<outstanding, doneRequested, taken, delivered, historyVars>>

\* Mutant: "done" does not wait for the clips that have no credit yet.
DoneAtOnce ==
    /\ Live /\ ~doneRequested /\ ended = "none"
    /\ doneRequested' = TRUE /\ ended' = "done"
    /\ UNCHANGED <<outstanding, waiter, chain, credited, sink, taken, delivered, historyVars>>

\* done(): waits for the calls that wait.
Done ==
    /\ Live /\ ~doneRequested /\ ended = "none"
    /\ doneRequested' = TRUE
    /\ ended' = IF chain = <<>> THEN "done" ELSE ended
    /\ UNCHANGED <<outstanding, waiter, chain, credited, sink, taken, delivered, historyVars>>

\* The chain behind done() has settled.
DoneSettles ==
    /\ doneRequested /\ chain = <<>> /\ Live /\ ended = "none"
    /\ ended' = "done"
    /\ UNCHANGED <<outstanding, waiter, chain, credited, sink, doneRequested, taken, delivered, historyVars>>

\* The handler returns after done(): the turn is no longer the current one,
\* although nothing aborted it.
HandlerReturns ==
    /\ Quiet /\ doneRequested /\ Live
    /\ sink' = "left"
    /\ UNCHANGED <<outstanding, waiter, chain, credited, doneRequested, ended, taken, delivered, historyVars>>

\* The operator barges in, the socket closes, the server stops.
Abort ==
    /\ Live /\ ended = "none"
    /\ sink' = "aborted" /\ chain' = <<>> /\ waiter' = NoWaiter /\ credited' = FALSE
    /\ UNCHANGED <<outstanding, doneRequested, ended, taken, delivered, historyVars>>

(***************************************************************************)
(* The gate                                                                *)
(***************************************************************************)

\* The clips left are expected to play from now on.
Rebased(clips) ==
    [i \in DOMAIN clips |-> [clips[i] EXCEPT !.end = UnplayedMs(SubSeq(clips, 1, i))]]

\* Mutant: the deadline of the waiting producer is not rebased.
AcknowledgeKeepsDeadline(i) ==
    LET left == Rebased(RemoveAt(outstanding, i))
        served == waiter # NoWaiter /\ HasCapacity(Head(chain), left)
    IN  /\ Quiet
        /\ outstanding' = left
        /\ waiter' = IF served THEN NoWaiter ELSE waiter
        /\ credited' = (credited \/ served)
        /\ progress' = 0
        /\ UNCHANGED <<chain, sink, doneRequested, ended, taken, delivered, impatient>>

\* acknowledge(): one clip is played or dropped.
Acknowledge(i) ==
    LET left == Rebased(RemoveAt(outstanding, i))
    IN  /\ Quiet
        /\ outstanding' = left
        /\ IF waiter = NoWaiter THEN UNCHANGED <<waiter, credited>>
           ELSE IF HasCapacity(Head(chain), left)
           THEN waiter' = NoWaiter /\ credited' = TRUE
           ELSE waiter' = Armed(left) /\ UNCHANGED credited
        /\ progress' = 0
        /\ UNCHANGED <<chain, sink, doneRequested, ended, taken, delivered, impatient>>

\* timeout(): a timer that fires early is armed again.
Timeout ==
    /\ waiter # NoWaiter /\ waiter.timer <= Early
    /\ IF waiter.deadline >= 0
       THEN /\ waiter' = [waiter EXCEPT !.timer = waiter.deadline + 1]
            /\ UNCHANGED <<chain, credited, sink, ended, impatient>>
       ELSE /\ Reject
            /\ impatient' = (impatient \/ -progress <= UnplayedMs(outstanding) + StallMs)
    /\ UNCHANGED <<outstanding, doneRequested, taken, delivered, progress>>

Earlier(t) == Later(-Past, t - 1)

\* Time passes; a timer that is due fires first.
Tick ==
    /\ Quiet
    /\ waiter # NoWaiter => waiter.timer > 0
    /\ outstanding' = [i \in DOMAIN outstanding |->
                         [outstanding[i] EXCEPT !.end = Earlier(@)]]
    /\ waiter' = IF waiter = NoWaiter THEN waiter
                 ELSE [deadline |-> Earlier(waiter.deadline), timer |-> waiter.timer - 1]
    /\ progress' = Later(-(Past + MaxAudio * MaxMs), progress - 1)
    /\ UNCHANGED <<chain, credited, sink, doneRequested, ended, taken, delivered, impatient>>

Next ==
    \/ \E ms \in Duration : SendAudio(ms)
    \/ \E i \in DOMAIN outstanding : Acknowledge(i)
    \/ SendAudioThrows \/ SendSnapshot \/ DeliverThrows \/ Done \/ DoneSettles \/ HandlerReturns
    \/ Abort \/ Timeout \/ Tick

Spec == Init /\ [][Next]_vars

\* The gate follows the browser.  A producer waits only while there is no room
\* for its clip, under a timer that outlasts no deadline; what is out stays
\* within the credit, a long clip on its own apart; and a wait is failed only if
\* no clip was acknowledged for longer than all that was out takes to play, and
\* the stall on top.
PacedByPlayback ==
    /\ waiter # NoWaiter =>
          /\ chain # <<>> /\ ~HasCapacity(Head(chain), outstanding)
          /\ waiter.timer <= Later(1, waiter.deadline + 1)
    /\ Len(outstanding) <= MaxClips
    /\ UnplayedMs(outstanding) <= MaxMs \/ Len(outstanding) = 1
    /\ ~impatient

\* "done" tells the browser that no clip follows: it comes after every clip of
\* the reply, and never after one of them failed.
DoneComesLast == ended = "done" => chain = <<>> /\ delivered = taken

\* Clips go out as the browser plays them, all of them before the end.
CreditAndOrder == PacedByPlayback /\ DoneComesLast

\* "done waits behind an audio frame blocked on v2 credit"
\* (tests/web-voice/playback-bounds.test.ts:118): a turn that nobody aborted
\* ends for the browser, with "done" or an error, once its audio has settled.
DoneArrives == sink = "left" /\ chain = <<>> => ended # "none"
=============================================================================
