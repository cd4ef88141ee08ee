---------------------------- MODULE Speculation ----------------------------
(***************************************************************************)
(* One speculative turn and the final turn that may adopt it:              *)
(* makeSpeculator (web-voice/speculative.ts), the permissions it holds     *)
(* back (brain/speculative-permissions.ts) and the adoption in             *)
(* streamWebTurn (web-voice/turn.ts).                                      *)
(*                                                                         *)
(* The probe's tail is transcribed and the brain answers it into a buffer  *)
(* while the operator may still be speaking.  The final recording claims   *)
(* the speculation, checks it, adopts it and streams the buffer; or it     *)
(* goes the normal way.  JavaScript runs each piece between two awaits to  *)
(* its end, so each is one action.                                         *)
(***************************************************************************)
EXTENDS Naturals

CONSTANTS
    MaxTokens,      \* MAX_SPECULATIVE_TOKEN_ITEMS
    MaxHeld         \* MAX_HELD_PERMISSIONS

VARIABLES
    stt,            \* transcriptPromise: "running", "dry" or "text"
    start,          \* brainStarted: where it waits
    tone,           \* tonePending: "off", "running" or "drained"
    pump,           \* pumpDone: "none", "running", "finalizing" or "settled"
    tokens,         \* items of the TokenBuffer
    end,            \* how the buffer ended, or "open"
    aborted,        \* aborted
    claimed,        \* claimed
    timer,          \* the claim timeout is armed
    abortTask,      \* abortTask: "none", what it awaits, or "drained"
    hold,           \* state of the permission hold: pending, adopted, cancelled
    held,           \* permission requests that wait in it
    turn,           \* where the final turn is
    signal,         \* deps.signal of the final turn is aborted
    read,           \* tokens the final turn has consumed
    outcome,        \* how the final turn goes out
    finished,       \* history: the brain ended the reply by itself
    accepted,       \* history: the recording passed coverage, transcript and veto
    granted         \* history: permission requests that were granted

specVars == <<stt, start, tone, pump, tokens, end, aborted, claimed, timer,
              abortTask, hold, held, finished, granted>>
turnVars == <<turn, signal, read, outcome, accepted>>
vars == <<specVars, turnVars>>

TypeOK ==
    /\ stt \in {"running", "dry", "text"}
    /\ start \in {"waiting", "tone", "context", "settled"}
    /\ tone \in {"off", "running", "drained"}
    /\ pump \in {"none", "running", "finalizing", "settled"}
    /\ tokens \in 0 .. MaxTokens /\ held \in 0 .. MaxHeld
    /\ end \in {"open", "clean", "refused", "limit", "failed"}
    /\ {aborted, claimed, timer, signal, finished, accepted} \subseteq BOOLEAN
    /\ abortTask \in {"none", "start", "tone", "pump", "drained"}
    /\ hold \in {"pending", "adopted", "cancelled"}
    /\ turn \in {"none", "dropping", "transcript", "live", "veto", "streaming",
                 "closing", "over"}
    /\ read \in 0 .. tokens
    /\ outcome \in {"none", "spoken", "answered", "rerun", "error", "vetoed",
                    "cancelled", "silent"}
    /\ granted \in 0 .. MaxHeld + 1

\* A live partial may be the transcript; tone classification is optional.
Init ==
    /\ stt \in {"running", "text"} /\ tone \in {"off", "running"}
    /\ start = "waiting" /\ pump = "none" /\ tokens = 0 /\ end = "open"
    /\ aborted = FALSE /\ claimed = FALSE /\ timer = TRUE /\ abortTask = "none"
    /\ hold = "pending" /\ held = 0 /\ granted = 0
    /\ turn = "none" /\ signal = FALSE /\ read = 0 /\ outcome = "none"
    /\ finished = FALSE /\ accepted = FALSE
abortVars == <<aborted, timer, abortTask, hold, held>>

\* doAbort(): idempotent; every held request is cancelled.
DoAbort ==
    /\ aborted' = TRUE /\ timer' = FALSE
    /\ abortTask' = IF abortTask = "none" THEN "start" ELSE abortTask
    /\ hold' = IF hold = "pending" THEN "cancelled" ELSE hold
    /\ held' = 0

\* end(): the first one wins.
EndBuffer(how) == end' = IF end = "open" THEN how ELSE end

(***************************************************************************)
(* The speculation                                                         *)
(***************************************************************************)

\* The tail is transcribed; a failure reads as nothing heard.
SttSettles ==
    /\ stt = "running" /\ stt' \in {"dry", "text"}
    /\ UNCHANGED <<start, tone, pump, tokens, end, claimed, abortVars, finished, granted, turnVars>>

ToneDrains ==
    /\ tone = "running" /\ tone' = "drained"
    /\ UNCHANGED <<stt, start, pump, tokens, end, claimed, abortVars, finished, granted, turnVars>>

\* brainStarted after each of its waits: for the transcript (local is the fast
\* path above the brain), for the tone or its grace, for the context.
BrainStarts(local) ==
    /\ \/ start = "waiting" /\ stt # "running"
          /\ start' = IF aborted \/ stt = "dry" \/ local THEN "settled" ELSE "tone"
       \/ start = "tone" /\ start' = IF aborted THEN "settled" ELSE "context"
       \/ start = "context" /\ start' = "settled"
    /\ pump' = IF start = "context" /\ ~aborted THEN "running" ELSE pump
    /\ UNCHANGED <<stt, tone, tokens, end, claimed, abortVars, finished, granted, turnVars>>

\* A token of the reply.  The one that was awaited when the speculation was
\* aborted is still kept; one too many aborts it.
PumpToken ==
    /\ pump = "running"
    /\ IF tokens < MaxTokens
       THEN /\ tokens' = tokens + 1
            /\ pump' = IF aborted THEN "finalizing" ELSE "running"
            /\ UNCHANGED <<end, abortVars>>
       ELSE /\ EndBuffer("limit") /\ DoAbort
            /\ pump' = "finalizing" /\ UNCHANGED tokens
    /\ UNCHANGED <<stt, start, tone, claimed, finished, granted, turnVars>>

\* Mutant: the refusal is not handed to a consumer that has claimed the buffer.
PumpRefusesQuietly ==
    /\ pump = "running" /\ pump' = "finalizing"
    /\ DoAbort /\ UNCHANGED end
    /\ UNCHANGED <<stt, start, tone, tokens, claimed, finished, granted, turnVars>>

\* A wrapper of the brain refuses to act speculatively.
PumpRefuses ==
    /\ pump = "running" /\ pump' = "finalizing"
    /\ IF claimed THEN EndBuffer("refused") ELSE UNCHANGED end
    /\ DoAbort
    /\ UNCHANGED <<stt, start, tone, tokens, claimed, finished, granted, turnVars>>

PumpFails ==
    /\ pump = "running" /\ pump' = "finalizing"
    /\ EndBuffer("failed")
    /\ UNCHANGED <<stt, start, tone, tokens, claimed, abortVars, finished, granted, turnVars>>

\* The reply is complete, or the pump sees the abort.
PumpReturns ==
    /\ pump = "running" /\ pump' = "finalizing"
    /\ finished' \in {TRUE, FALSE} /\ (~finished' => aborted)
    /\ UNCHANGED <<stt, start, tone, tokens, end, claimed, abortVars, granted, turnVars>>

\* The source's finalizer has completed.
PumpSettles ==
    /\ pump = "finalizing" /\ pump' = "settled"
    /\ EndBuffer("clean")
    /\ UNCHANGED <<stt, start, tone, tokens, claimed, abortVars, finished, granted, turnVars>>

\* defer(): the agent asks for a permission.  A refusal changes nothing.
Defer ==
    /\ pump = "running" /\ granted <= MaxHeld
    /\ \/ hold = "adopted" /\ granted' = granted + 1 /\ UNCHANGED held
       \/ hold = "pending" /\ held < MaxHeld /\ held' = held + 1 /\ UNCHANGED granted
    /\ UNCHANGED <<stt, start, tone, pump, tokens, end, aborted, claimed, timer, abortTask,
                   hold, finished, turnVars>>

\* Nobody claimed it in time.
ClaimTimeout ==
    /\ timer /\ DoAbort
    /\ UNCHANGED <<stt, start, tone, pump, tokens, end, claimed, finished, granted, turnVars>>

\* abortTask: brainStarted, the tone, then the pump brainStarted may have made.
AbortDrains ==
    /\ \/ abortTask = "start" /\ start = "settled" /\ abortTask' = "tone"
       \/ abortTask = "tone" /\ tone # "running" /\ abortTask' = "pump"
       \/ abortTask = "pump" /\ pump \in {"none", "settled"} /\ abortTask' = "drained"
    /\ UNCHANGED <<stt, start, tone, pump, tokens, end, aborted, claimed, timer,
                   hold, held, finished, granted, turnVars>>

(***************************************************************************)
(* The final turn                                                          *)
(***************************************************************************)

notTurn == <<stt, start, tone, pump, tokens, end, finished>>

\* The turn goes on at pc, and the speculation with it.
Goes(pc) == turn' = pc /\ UNCHANGED <<abortVars, outcome>>

\* Nothing of the speculation can be used: the normal way, once it is gone.
Drop == turn' = "dropping" /\ DoAbort /\ UNCHANGED outcome

\* The outcome is settled; the speculation's cleanup barrier is left.
Settle(how) == turn' = "closing" /\ outcome' = how /\ DoAbort

\* The server drops the speculation: another turn or probe, the socket, stop().
Superseded ==
    /\ turn = "none" /\ turn' = "over" /\ outcome' = "cancelled" /\ DoAbort
    /\ UNCHANGED <<notTurn, claimed, granted, signal, read, accepted>>

\* The final recording.  The filter of incomplete utterances comes before any
\* claim; covered: it says no more than the tail did.
FinalArrives(incomplete, covered) ==
    /\ turn = "none"
    /\ CASE incomplete -> Drop /\ UNCHANGED claimed
         [] ~incomplete /\ aborted -> Settle("answered") /\ UNCHANGED claimed
         [] OTHER ->
              /\ claimed' = TRUE
              /\ IF covered
                 THEN /\ turn' = "transcript" /\ timer' = FALSE
                      /\ UNCHANGED <<aborted, abortTask, hold, held, outcome>>
                 ELSE Drop
    /\ UNCHANGED <<notTurn, granted, signal, read, accepted>>

\* The operator barges in: a claimed speculation is aborted at once.
BargeIn ==
    /\ turn \notin {"none", "closing", "over"} /\ ~signal
    /\ signal' = TRUE /\ DoAbort
    /\ UNCHANGED <<notTurn, claimed, granted, turn, read, outcome, accepted>>

\* transcript() resolves once the brain started, and with nothing when aborted.
GetsTranscript ==
    /\ turn = "transcript" /\ start = "settled"
    /\ IF signal THEN Settle("cancelled")
       ELSE IF aborted \/ stt # "text" THEN Drop ELSE Goes("live")
    /\ UNCHANGED <<notTurn, claimed, granted, signal, read, accepted>>

\* The live transcript of the whole recording has to agree.
LiveSettles(same) ==
    /\ turn = "live"
    /\ IF signal THEN Settle("cancelled")
       ELSE IF same THEN Goes("veto") ELSE Drop
    /\ UNCHANGED <<notTurn, claimed, granted, signal, read, accepted>>

\* The veto, then adopt().  A speculation that never reached the brain lends
\* only its transcript.  One that was aborted meanwhile ends the turn.
Dispatches(allowed) ==
    /\ turn = "veto"
    /\ CASE ~allowed -> Settle("vetoed") /\ UNCHANGED <<granted, accepted>>
         [] allowed /\ signal -> Settle("cancelled") /\ UNCHANGED <<granted, accepted>>
         [] allowed /\ ~signal /\ aborted -> Settle("silent") /\ UNCHANGED <<granted, accepted>>
         [] OTHER ->
              /\ accepted' = TRUE /\ granted' = granted + held
              /\ IF pump = "none"
                 THEN Settle("answered")
                 ELSE /\ hold' = "adopted" /\ held' = 0 /\ turn' = "streaming"
                      /\ UNCHANGED <<aborted, timer, abortTask, outcome>>
    /\ UNCHANGED <<notTurn, claimed, signal, read>>

ReadToken ==
    /\ turn = "streaming" /\ ~signal /\ read < tokens
    /\ read' = read + 1
    /\ UNCHANGED <<specVars, turn, signal, outcome, accepted>>

\* The buffer is at its end, or the turn was aborted.  A refusal is answered on
\* the normal path, any other error is reported.
StreamEnds ==
    /\ turn = "streaming"
    /\ IF signal THEN Settle("cancelled")
       ELSE /\ read = tokens /\ end # "open"
            /\ Settle(CASE end = "clean" -> "spoken" [] end = "refused" -> "rerun"
                         [] OTHER -> "error")
    /\ UNCHANGED <<notTurn, claimed, granted, signal, read, accepted>>

\* The awaited abort has drained.
Closes ==
    /\ abortTask = "drained"
    /\ \/ turn = "dropping" /\ turn' = "over"
          /\ outcome' = IF signal THEN "cancelled" ELSE "answered"
       \/ turn = "closing" /\ turn' = "over" /\ UNCHANGED outcome
    /\ UNCHANGED <<specVars, signal, read, accepted>>

Next ==
    \/ SttSettles \/ ToneDrains \/ \E local \in BOOLEAN : BrainStarts(local)
    \/ PumpToken \/ PumpRefuses \/ PumpFails \/ PumpReturns \/ PumpSettles
    \/ Defer \/ ClaimTimeout \/ AbortDrains
    \/ Superseded \/ \E incomplete, covered \in BOOLEAN : FinalArrives(incomplete, covered)
    \/ BargeIn \/ GetsTranscript \/ \E same \in BOOLEAN : LiveSettles(same)
    \/ \E allowed \in BOOLEAN : Dispatches(allowed)
    \/ ReadToken \/ StreamEnds \/ Closes

Spec == Init /\ [][Next]_vars

\* A buffer that ended without an error is a whole reply: whatever else cuts it
\* short (a refusal, the limit, a failure, the operator) is told apart, and
\* only a refusal is answered once more.
AnswerIsWhole ==
    /\ outcome = "spoken" => finished /\ read = tokens
    /\ outcome = "rerun" => ~finished /\ aborted

\* A speculation acts on nothing before the final recording passed coverage,
\* transcript and veto; and once its abort has drained, the brain it started
\* late, the tone and every held request are over as well.
OnlyAdoptedActs ==
    /\ granted > 0 => accepted
    /\ abortTask = "drained" =>
          /\ start = "settled" /\ tone # "running" /\ pump \in {"none", "settled"}
          /\ held = 0

\* What the operator hears of a speculation is a whole reply, and what it does
\* it does once adopted.
AdoptionIsWhole == AnswerIsWhole /\ OnlyAdoptedActs

\* "a clean EOF would read as a finished turn -- the requested call would never
\* be placed at all. Surface the refusal so the adopted path can re-run the
\* utterance" (web-voice/speculative.ts:325): no turn is dropped without a word.
NothingSwallowed == outcome # "silent"
=============================================================================
