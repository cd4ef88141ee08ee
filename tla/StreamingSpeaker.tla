-------------------------- MODULE StreamingSpeaker --------------------------
(***************************************************************************)
(* The daemon's own voice: src/speaker/streaming-tts.ts on top of          *)
(* tts-speaker.ts, with the system voice it falls back to                  *)
(* (platform/system-tts.ts).  The echo-cancelling hub is not configured.   *)
(*                                                                         *)
(* A turn claims the speaker by a new epoch, reads one sentence ahead of   *)
(* the one it plays and renders it through a provider it has pinned.  A    *)
(* sentence is played by a process of its own, or spoken by the system     *)
(* voice when its render or its player failed.  A turn that was overtaken  *)
(* or interrupted goes on until it notices.  A process that is told to end *)
(* may fail to.  Turns stand for their players: each has one at a time.    *)
(***************************************************************************)
EXTENDS Integers, Sequences, FiniteSets

CONSTANTS
    Turn,           \* the calls of speakStream()
    None,
    Budgets         \* bounds of the model: sentences, interruptions, calls of stop(), and
                    \* processes that do not end or are not seen to

VARIABLES
    epoch, claim,   \* StreamingTTSSpeaker.epoch, and the epoch of each turn
    turnCancel,     \* the turn whose abort the speaker holds
    turn,           \* where each turn stands
    pinned,         \* turns that hold a generation of the provider
    current,        \* StreamingTTSSpeaker.currentPlayer
    player,         \* turns whose player is alive
    unreleased,     \* players told to end and not known to have ended
    releasing,      \* those whose termination runs
    releaseFailed,  \* playerReleaseFailure is set
    outFailed,      \* TTSSpeaker.outputReleaseFailure is set
    outStop,        \* TTSSpeaker.outputStopTask runs
    tail,           \* TTSSpeaker.fallbackOutputTail
    voice,          \* SystemSpeaker: its child, and what it remembers
    stopped, stop,  \* TTSSpeaker.stopped, and the call of stop()
    orphaned,       \* players the speaker lost hold of
    budget          \* what is left of one of Budgets

turnVars == <<epoch, claim, turnCancel, turn, pinned>>
playerVars == <<current, player, unreleased, releasing, releaseFailed, orphaned>>
outputVars == <<outFailed, outStop, tail, voice>>
stopVars == <<stopped, stop>>
vars == <<turnVars, playerVars, outputVars, stopVars, budget>>

NotStarted == [step |-> "idle", aborted |-> FALSE, read |-> "none", chained |-> FALSE,
               render |-> "none", joined |-> FALSE]

Init ==
    /\ epoch = 0 /\ claim = [t \in Turn |-> 0] /\ turnCancel = None
    /\ turn = [t \in Turn |-> NotStarted] /\ pinned = {}
    /\ current = None /\ player = {} /\ unreleased = {} /\ releasing = {}
    /\ releaseFailed = FALSE /\ orphaned = {}
    /\ outFailed = FALSE /\ outStop = FALSE /\ tail = <<>>
    /\ voice = [child |-> None, ending |-> FALSE, stopped |-> FALSE, failed |-> FALSE]
    /\ stopped = FALSE /\ stop = "none"
    /\ budget \in Budgets

Owns(t) == epoch = claim[t]
Stale(t) == ~ Owns(t) \/ turn[t].aborted
At(t, step) == turn[t].step = step
Spent(what) == [budget EXCEPT ![what] = @ - 1]
Only(t) == IF t = None THEN {} ELSE {t}

-----------------------------------------------------------------------------
(* Where a turn may go *)

\* supersedeTurn(): the epoch and the abort of whoever had the speaker.
Aborting(ts) == [t \in Turn |-> IF t \in ts THEN [turn[t] EXCEPT !.aborted = TRUE] ELSE turn[t]]

\* The end of the body of speakStream(): unless the source is finished, abort.
Drains(s, finished) ==
    [s EXCEPT !.step = "draining", !.aborted = @ \/ ~ finished]
Cancels(t) == turnCancel' = IF turnCancel = t THEN None ELSE turnCancel

\* A sentence was played, or its player made way.
AfterPlay(t, s) == IF Stale(t) THEN Drains(s, FALSE) ELSE [s EXCEPT !.step = "next"]

\* waitForPlayerRelease() first tries again what was not confirmed before.
RetriesReleases ==
    /\ releasing' = unreleased
    /\ releaseFailed' = (releaseFailed /\ unreleased \subseteq releasing)

\* stopOutputs(): the system voice is stopped, for good.
StopsOutputs ==
    /\ outStop' = TRUE
    /\ voice' = IF outStop THEN voice
                ELSE [voice EXCEPT !.stopped = TRUE, !.ending = voice.child # None]

-----------------------------------------------------------------------------
(* speakStream() up to its first sentence *)

\* Mutant: a new turn does not end the one before.
ClaimShares(t) ==
    /\ At(t, "idle")
    /\ IF stopped
       THEN /\ turn' = [turn EXCEPT ![t].step = "done"]
            /\ UNCHANGED <<epoch, claim, turnCancel, orphaned>>
       ELSE /\ claim' = [claim EXCEPT ![t] = epoch]
            /\ turn' = [turn EXCEPT ![t].step = "claiming"]
            /\ turnCancel' = t
            /\ orphaned' = orphaned \cup Only(current)
            /\ UNCHANGED epoch
    /\ UNCHANGED <<pinned, current, player, unreleased, releasing, releaseFailed, outputVars,
                   stopVars, budget>>

\* The player of the turn before is left to play to its end: nobody holds it.
Claim(t) ==
    /\ At(t, "idle")
    /\ IF stopped
       THEN /\ turn' = [turn EXCEPT ![t].step = "done"]
            /\ UNCHANGED <<epoch, claim, turnCancel, orphaned>>
       ELSE /\ epoch' = epoch + 1 /\ claim' = [claim EXCEPT ![t] = epoch + 1]
            /\ turn' = [Aborting(Only(turnCancel)) EXCEPT ![t].step = "claiming"]
            /\ turnCancel' = t
            /\ orphaned' = orphaned \cup Only(current)
    /\ UNCHANGED <<pinned, current, player, unreleased, releasing, releaseFailed, outputVars,
                   stopVars, budget>>

\* retryUnconfirmedOutputRelease(), here and wherever the fallback is waited for.
Waits(t) == At(t, "claiming") \/ ((At(t, "waiting") \/ At(t, "admitting")) /\ tail = <<>> /\ ~ stopped)
Retries(t) ==
    /\ Waits(t) /\ outFailed /\ ~ turn[t].joined
    /\ turn' = [turn EXCEPT ![t].joined = TRUE]
    /\ StopsOutputs
    /\ UNCHANGED <<epoch, claim, turnCancel, pinned, playerVars, outFailed, tail, stopVars,
                   budget>>

ClaimConfirmed(t) ==
    /\ At(t, "claiming") /\ ~ outFailed /\ ~ turn[t].joined
    /\ turn' = [turn EXCEPT ![t].step = "waiting"]
    /\ UNCHANGED <<epoch, claim, turnCancel, pinned, playerVars, outputVars, stopVars,
                   budget>>

\* The fallback has spoken: pin a generation and read the first sentence.
Begins(t) ==
    /\ At(t, "waiting") /\ (stopped \/ (tail = <<>> /\ ~ outFailed /\ ~ turn[t].joined))
    /\ IF stopped \/ Stale(t)
       THEN /\ turn' = [turn EXCEPT ![t].step = "done"] /\ Cancels(t) /\ UNCHANGED pinned
       ELSE /\ turn' = [turn EXCEPT ![t].step = "first", ![t].read = "pending"]
            /\ pinned' = pinned \cup {t} /\ UNCHANGED turnCancel
    /\ UNCHANGED <<epoch, claim, playerVars, outputVars, stopVars, budget>>

-----------------------------------------------------------------------------
(* Reading and rendering one sentence ahead *)

ReadSettles(t, what) ==
    /\ turn[t].read = "pending"
    /\ what \in {"text", "end", "error"} /\ (what = "text" => budget.sentences > 0)
    /\ turn[t].aborted => what # "text"
    /\ turn' = [turn EXCEPT ![t].read = what]
    /\ budget' = IF what = "text" THEN Spent("sentences") ELSE budget
    /\ UNCHANGED <<epoch, claim, turnCancel, pinned, playerVars, outputVars, stopVars>>

First(t) ==
    /\ At(t, "first") /\ turn[t].read # "pending"
    /\ LET s == turn[t] IN
       IF s.read = "text"
       THEN turn' = [turn EXCEPT ![t] =
                IF Stale(t) THEN Drains([s EXCEPT !.read = "none", !.render = "pending"], FALSE)
                ELSE [s EXCEPT !.read = "pending", !.render = "pending", !.step = "rendering"]]
       ELSE turn' = [turn EXCEPT ![t] =
                Drains([s EXCEPT !.read = "none"], s.read = "end" /\ ~ Stale(t))]
    /\ IF turn'[t].step = "draining" THEN Cancels(t) ELSE UNCHANGED turnCancel
    /\ UNCHANGED <<epoch, claim, pinned, playerVars, outputVars, stopVars, budget>>

RenderSettles(t, ok) ==
    /\ turn[t].render = "pending"
    /\ turn' = [turn EXCEPT ![t].render = IF ok THEN "ok" ELSE "failed"]
    /\ UNCHANGED <<epoch, claim, turnCancel, pinned, playerVars, outputVars, stopVars,
                   budget>>

\* The clip is there: the sentence ahead may be rendered while this one plays.
Rendered(t) ==
    /\ At(t, "rendering") /\ turn[t].render \in {"ok", "failed"}
    /\ LET s == [turn[t] EXCEPT !.render = "none"] IN
       IF Stale(t)
       THEN turn' = [turn EXCEPT ![t] = Drains(s, FALSE)] /\ Cancels(t)
            /\ UNCHANGED <<releasing, releaseFailed>>
       ELSE IF turn[t].render = "ok"
       THEN turn' = [turn EXCEPT ![t] = [s EXCEPT !.chained = TRUE, !.step = "admitting"]]
            /\ UNCHANGED <<turnCancel, releasing, releaseFailed>>
       ELSE turn' = [turn EXCEPT ![t] = [s EXCEPT !.chained = TRUE, !.step = "making way"]]
            /\ RetriesReleases /\ UNCHANGED turnCancel
    /\ UNCHANGED <<epoch, claim, pinned, current, player, unreleased, orphaned, outputVars,
                   stopVars, budget>>

LooksAhead(t) ==
    /\ turn[t].chained /\ turn[t].read = "text"
    /\ turn' = [turn EXCEPT ![t].read = "ahead",
                            ![t].render = IF Stale(t) THEN @ ELSE "pending"]
    /\ UNCHANGED <<epoch, claim, turnCancel, pinned, playerVars, outputVars, stopVars,
                   budget>>

NextSentence(t) ==
    /\ At(t, "next") /\ turn[t].read \in {"ahead", "end", "error"}
    /\ LET s == [turn[t] EXCEPT !.chained = FALSE] IN
       turn' = [turn EXCEPT ![t] =
           IF Stale(t) \/ s.read # "ahead" THEN Drains(s, s.read = "end" /\ ~ Stale(t))
           ELSE [s EXCEPT !.read = "pending", !.step = "rendering"]]
    /\ IF turn'[t].step = "draining" THEN Cancels(t) ELSE UNCHANGED turnCancel
    /\ UNCHANGED <<epoch, claim, pinned, playerVars, outputVars, stopVars, budget>>

\* Mutant: the pin is given back when the reads have settled.
DrainsHastily(t) ==
    /\ At(t, "draining")
    /\ turn[t].chained => turn[t].read \notin {"pending", "text"}
    /\ turn' = [turn EXCEPT ![t].step = "done"] /\ pinned' = pinned \ {t}
    /\ UNCHANGED <<epoch, claim, turnCancel, playerVars, outputVars, stopVars, budget>>

\* Mutant: a turn whose source failed keeps its generation.
DrainsLeaking(t) ==
    /\ At(t, "draining") /\ turn[t].render # "pending"
    /\ turn[t].chained => turn[t].read \notin {"pending", "text"}
    /\ turn' = [turn EXCEPT ![t].step = "done"]
    /\ pinned' = IF turn[t].read = "error" THEN pinned ELSE pinned \ {t}
    /\ UNCHANGED <<epoch, claim, turnCancel, playerVars, outputVars, stopVars, budget>>

\* The look-ahead and its render settle before the pin is given back.
Drained(t) ==
    /\ At(t, "draining") /\ turn[t].render # "pending"
    /\ turn[t].chained => turn[t].read \notin {"pending", "text"}
    /\ turn' = [turn EXCEPT ![t].step = "done"] /\ pinned' = pinned \ {t}
    /\ UNCHANGED <<epoch, claim, turnCancel, playerVars, outputVars, stopVars, budget>>

-----------------------------------------------------------------------------
(* Playing a sentence *)

\* The fallback has made way: wait for players that were told to end.
Admitted(t) ==
    /\ At(t, "admitting") /\ (stopped \/ (tail = <<>> /\ ~ outFailed /\ ~ turn[t].joined))
    /\ IF ~ Owns(t)
       THEN turn' = [turn EXCEPT ![t] = Drains(@, FALSE)] /\ Cancels(t)
            /\ UNCHANGED <<releasing, releaseFailed>>
       ELSE turn' = [turn EXCEPT ![t].step = "releasing"] /\ RetriesReleases
            /\ UNCHANGED turnCancel
    /\ UNCHANGED <<epoch, claim, pinned, current, player, unreleased, orphaned, outputVars,
                   stopVars, budget>>

StartsPlayer(t) ==
    /\ IF Owns(t)
       THEN /\ turn' = [turn EXCEPT ![t].step = "playing"]
            /\ player' = player \cup {t} /\ current' = t /\ UNCHANGED turnCancel
       ELSE turn' = [turn EXCEPT ![t] = Drains(@, FALSE)] /\ Cancels(t)
            /\ UNCHANGED <<player, current>>
    /\ UNCHANGED <<epoch, claim, pinned, unreleased, releasing, releaseFailed, orphaned,
                   outputVars, stopVars, budget>>

\* Mutant: it does not wait.
PlaysOver(t) == At(t, "releasing") /\ StartsPlayer(t)

\* Nobody the speaker stopped still has the device: the player starts.
Plays(t) ==
    /\ At(t, "releasing") /\ releasing = {} /\ (releaseFailed => ~ Owns(t))
    /\ StartsPlayer(t)

\* Somebody may: the turn ends, and every output is suspect.
Refused(t) ==
    /\ (At(t, "releasing") /\ Owns(t)) \/ At(t, "making way")
    /\ releasing = {} /\ releaseFailed
    /\ turn' = [turn EXCEPT ![t] = Drains(@, FALSE)] /\ Cancels(t)
    /\ outFailed' = TRUE
    /\ UNCHANGED <<epoch, claim, pinned, playerVars, outStop, tail, voice, stopVars,
                   budget>>

PlayerEnds(t) ==
    /\ t \in player
    /\ player' = player \ {t}
    /\ UNCHANGED <<turnVars, current, unreleased, releasing, releaseFailed, orphaned, outputVars,
                   stopVars, budget>>

\* A player that ended well, or that was stopped, is done; otherwise the system
\* voice says the sentence.
Played(t, ok) ==
    /\ At(t, "playing") /\ t \notin player
    /\ current' = IF Owns(t) THEN None ELSE current
    /\ IF ok \/ ~ Owns(t)
       THEN /\ turn' = [turn EXCEPT ![t] = AfterPlay(t, @)]
            /\ IF Stale(t) THEN Cancels(t) ELSE UNCHANGED turnCancel
            /\ UNCHANGED <<releasing, releaseFailed>>
       ELSE /\ turn' = [turn EXCEPT ![t].step = "making way"]
            /\ RetriesReleases /\ UNCHANGED turnCancel
    /\ UNCHANGED <<epoch, claim, pinned, player, unreleased, orphaned, outputVars, stopVars,
                   budget>>

ReleaseConfirmed(p) ==
    /\ p \in releasing
    /\ player' = player \ {p}
    /\ releasing' = releasing \ {p} /\ unreleased' = unreleased \ {p}
    /\ releaseFailed' = (releaseFailed /\ unreleased # {p})
    /\ UNCHANGED <<turnVars, current, orphaned, outputVars, stopVars, budget>>

ReleaseFails(p) ==
    /\ p \in releasing /\ p \in player /\ budget.faults > 0
    /\ budget' = Spent("faults")
    /\ releasing' = releasing \ {p} /\ releaseFailed' = TRUE
    /\ UNCHANGED <<turnVars, current, player, unreleased, orphaned, outputVars, stopVars>>

-----------------------------------------------------------------------------
(* The system voice: one sentence at a time, and never next to a player *)

Queues(t) ==
    /\ At(t, "making way") /\ releasing = {} /\ ~ releaseFailed
    /\ IF ~ Owns(t)
       THEN turn' = [turn EXCEPT ![t] = AfterPlay(t, @)] /\ Cancels(t) /\ UNCHANGED tail
       ELSE turn' = [turn EXCEPT ![t].step = "queued"] /\ tail' = Append(tail, t)
            /\ UNCHANGED turnCancel
    /\ UNCHANGED <<epoch, claim, pinned, playerVars, outFailed, outStop, voice, stopVars,
                   budget>>

\* The end of a sentence of the system voice, said or not.
Said(t) ==
    /\ tail' = Tail(tail)
    /\ turn' = [turn EXCEPT ![t] = AfterPlay(t, @)]
    /\ IF Stale(t) THEN Cancels(t) ELSE UNCHANGED turnCancel

\* It cannot be told whether the voice still speaks: the turn ends.
Uncertain(t) ==
    /\ tail' = Tail(tail) /\ outFailed' = TRUE
    /\ turn' = [turn EXCEPT ![t] = Drains(@, FALSE)] /\ Cancels(t)

\* A voice that was stopped says nothing, and nobody is told.
Speaks(t) ==
    /\ At(t, "queued") /\ Head(tail) = t
    /\ \/ /\ ~ stopped /\ (outFailed \/ (~ voice.stopped /\ voice.failed))
          /\ Uncertain(t) /\ UNCHANGED voice
       \/ /\ stopped \/ (~ outFailed /\ voice.stopped)
          /\ Said(t) /\ UNCHANGED <<outFailed, voice>>
       \/ /\ ~ stopped /\ ~ outFailed /\ ~ voice.stopped /\ ~ voice.failed
          /\ voice' = [voice EXCEPT !.child = t]
          /\ turn' = [turn EXCEPT ![t].step = "speaking"]
          /\ UNCHANGED <<turnCancel, tail, outFailed>>
       \* It cannot be started.
       \/ /\ ~ stopped /\ ~ outFailed /\ ~ voice.stopped /\ ~ voice.failed
          /\ Said(t) /\ UNCHANGED <<outFailed, voice>>
    /\ UNCHANGED <<epoch, claim, pinned, playerVars, outStop, stopVars, budget>>

VoiceEnds(t) ==
    /\ At(t, "speaking") /\ ~ voice.ending
    /\ voice' = [voice EXCEPT !.child = None]
    /\ Said(t)
    /\ UNCHANGED <<epoch, claim, pinned, playerVars, outFailed, outStop, stopVars, budget>>

\* Its exit cannot be observed: this very child is told to end.
VoiceLost(t) ==
    /\ At(t, "speaking") /\ ~ voice.ending /\ budget.faults > 0
    /\ budget' = Spent("faults") /\ voice' = [voice EXCEPT !.ending = TRUE]
    /\ UNCHANGED <<turnVars, playerVars, outFailed, outStop, tail, stopVars>>

VoiceReleased ==
    /\ voice.ending
    /\ voice' = [voice EXCEPT !.child = None, !.ending = FALSE, !.failed = FALSE]
    /\ IF At(voice.child, "speaking") THEN Said(voice.child) ELSE UNCHANGED <<turn, turnCancel, tail>>
    /\ UNCHANGED <<epoch, claim, pinned, playerVars, outFailed, outStop, stopVars, budget>>

VoiceStuck ==
    /\ voice.ending /\ budget.faults > 0
    /\ budget' = Spent("faults")
    /\ voice' = [voice EXCEPT !.ending = FALSE, !.failed = TRUE]
    /\ IF At(voice.child, "speaking") THEN Uncertain(voice.child)
       ELSE UNCHANGED <<turn, turnCancel, tail, outFailed>>
    /\ UNCHANGED <<epoch, claim, pinned, playerVars, outStop, stopVars>>

\* stopOutputs() settles for all who wait for it.
OutputsStop ==
    /\ outStop /\ ~ voice.ending
    /\ outStop' = FALSE
    /\ LET ok == voice.child = None
           After(t) == CASE ~ turn[t].joined -> turn[t]
                         [] turn[t].joined /\ ok -> [turn[t] EXCEPT !.joined = FALSE]
                         [] turn[t].joined /\ ~ ok /\ At(t, "admitting") ->
                                [turn[t] EXCEPT !.joined = FALSE, !.step = "making way"]
                         [] OTHER ->
                                [turn[t] EXCEPT !.joined = FALSE, !.step = "done", !.aborted = TRUE]
       IN /\ outFailed' = (outFailed /\ ~ ok)
          /\ turn' = [t \in Turn |-> After(t)]
          /\ turnCancel' = IF turnCancel # None /\ turn'[turnCancel].step = "done" THEN None
                           ELSE turnCancel
          /\ stop' = IF stop # "stopping" THEN stop ELSE IF ok THEN "outputs" ELSE "failing"
          /\ IF \E t \in Turn : turn[t].joined /\ ~ ok /\ At(t, "admitting")
             THEN RetriesReleases ELSE UNCHANGED <<releasing, releaseFailed>>
    /\ UNCHANGED <<epoch, claim, pinned, current, player, unreleased, orphaned, tail, voice,
                   stopped, budget>>

-----------------------------------------------------------------------------
(* Interruption and stop *)

Interrupt ==
    /\ budget.interrupts > 0 /\ budget' = Spent("interrupts")
    /\ epoch' = epoch + 1 /\ turn' = Aborting(Only(turnCancel)) /\ turnCancel' = None
    /\ unreleased' = unreleased \cup Only(current) /\ releasing' = releasing \cup Only(current)
    /\ current' = None
    /\ UNCHANGED <<claim, pinned, player, releaseFailed, orphaned, outputVars, stopVars>>

\* The signal of the caller reaches the turn, not its player.
Abort(t) ==
    /\ budget.interrupts > 0 /\ budget' = Spent("interrupts")
    /\ ~ At(t, "idle") /\ ~ At(t, "done") /\ ~ turn[t].aborted
    /\ turn' = Aborting({t})
    /\ UNCHANGED <<epoch, claim, turnCancel, pinned, playerVars, outputVars, stopVars>>

\* Mutant: the player at hand is not told to end.
StopForgetsPlayer ==
    /\ budget.stops > 0 /\ stop \in {"none", "failed"} /\ budget' = Spent("stops")
    /\ epoch' = epoch + 1 /\ turn' = Aborting(Only(turnCancel)) /\ turnCancel' = None
    /\ current' = None /\ releasing' = unreleased
    /\ releaseFailed' = (releaseFailed /\ unreleased \subseteq releasing)
    /\ stopped' = TRUE /\ stop' = "stopping" /\ StopsOutputs
    /\ UNCHANGED <<claim, pinned, player, unreleased, orphaned, outFailed, tail>>

Stop ==
    /\ budget.stops > 0 /\ stop \in {"none", "failed"} /\ budget' = Spent("stops")
    /\ epoch' = epoch + 1 /\ turn' = Aborting(Only(turnCancel)) /\ turnCancel' = None
    /\ current' = None
    /\ unreleased' = unreleased \cup Only(current) /\ releasing' = unreleased'
    /\ releaseFailed' = (releaseFailed /\ unreleased \subseteq releasing)
    /\ stopped' = TRUE /\ stop' = "stopping" /\ StopsOutputs
    /\ UNCHANGED <<claim, pinned, player, orphaned, outFailed, tail>>

StopSettles ==
    /\ stop \in {"outputs", "failing"} /\ releasing = {}
    /\ stop' = IF stop = "outputs" /\ ~ releaseFailed THEN "confirmed" ELSE "failed"
    /\ UNCHANGED <<turnVars, playerVars, outputVars, stopped, budget>>

-----------------------------------------------------------------------------
\* What a turn does next when nothing it waits for is missing.
Goes(t) ==
    \/ Retries(t) \/ ClaimConfirmed(t) \/ Begins(t) \/ First(t) \/ Rendered(t) \/ LooksAhead(t)
    \/ NextSentence(t) \/ Drained(t) \/ Admitted(t) \/ Plays(t) \/ Refused(t)
    \/ \E ok \in BOOLEAN : Played(t, ok)
    \/ Queues(t) \/ Speaks(t)

Reads(t) == \E what \in {"text", "end", "error"} : ReadSettles(t, what)
Renders(t) == \E ok \in BOOLEAN : RenderSettles(t, ok)
Releases(p) == ReleaseConfirmed(p) \/ ReleaseFails(p)
VoiceGoes == VoiceReleased \/ VoiceStuck \/ OutputsStop

\* Brains and providers have deadlines, a player and the voice come to an end, a
\* termination is bounded: something of this happens as long as it can.
Moves ==
    \/ \E t \in Turn :
        Goes(t) \/ Reads(t) \/ Renders(t) \/ PlayerEnds(t) \/ Releases(t) \/ VoiceEnds(t)
        \/ VoiceLost(t)
    \/ VoiceGoes \/ StopSettles

Next == Moves \/ (\E t \in Turn : Claim(t) \/ Abort(t)) \/ Interrupt \/ Stop

Fairness == WF_vars(Moves)

Spec == Init /\ [][Next]_vars /\ Fairness

-----------------------------------------------------------------------------
TypeOK ==
    /\ epoch \in Nat /\ claim \in [Turn -> Nat] /\ turnCancel \in Turn \cup {None}
    /\ pinned \subseteq Turn /\ current \in Turn \cup {None} /\ player \subseteq Turn
    /\ unreleased \subseteq Turn /\ releasing \subseteq unreleased /\ orphaned \subseteq Turn
    /\ tail \in Seq(Turn) /\ voice.child \in Turn \cup {None}
    /\ stop \in {"none", "stopping", "outputs", "failing", "confirmed", "failed"}

Heard == (player \ orphaned) \cup Only(voice.child)

\* Two voices are never heard at once, whatever overtakes, interrupts or fails,
\* but for a player whose turn another turn overtook: see the README.
VoicesDisjoint ==
    /\ Cardinality(player \ orphaned) <= 1
    /\ player \subseteq orphaned \/ voice.child = None

\* A stop that was confirmed leaves nothing to be heard.
StopSilences == stop = "confirmed" => Heard = {}

\* A generation of the provider is not given back while something renders on it:
\* a swap that waits for it would kill its server in the middle of a render.
PinCoversRenders == \A t \in Turn : turn[t].render = "pending" => t \in pinned

\* What can be heard is one voice that a stop reaches, and what renders is pinned.
SpeechAccounted == VoicesDisjoint /\ StopSilences /\ PinCoversRenders

\* Every turn ends and gives its generation back, and every stop settles.
TurnsEnd ==
    []<>(/\ \A t \in Turn : At(t, "idle") \/ At(t, "done")
         /\ pinned = {} /\ stop \in {"none", "confirmed", "failed"})
=============================================================================
