------------------------------ MODULE WebReply ------------------------------
(***************************************************************************)
(* One spoken reply of the web voice page: streamReply() of                *)
(* web-voice/turn.ts, from the call of the brain to the end of its turn.   *)
(*                                                                         *)
(* A reader takes the sentences of the brain, tells them to the page and   *)
(* gives it their audio.  Beside it a filler covers the silence before the *)
(* first of them, notices of the brain are spoken one after the other, and *)
(* a watchdog gives the floor back when nothing has been said for long:    *)
(* the reply is then parked, collected in the background and announced.    *)
(* The user interrupts, or what goes to the page fails, at any time.       *)
(*                                                                         *)
(* A clip goes out at once, or waits for the page to acknowledge earlier   *)
(* ones (AudioPacing); a turn has two such clips at most.                  *)
(***************************************************************************)
EXTENDS Naturals, Sequences, FiniteSets, SequencesExt

CONSTANTS
    MaxSentences,   \* bound: sentences of the reply
    MaxChunk,       \* bound: sentences that arrive together
    MaxParked,      \* MAX_PARKED_REPLY_CHARS, in sentences
    Budgets         \* bounds: records of reassurances (maxReassurances), notices of the
                    \* brain, faults of the brain, of synthesis and of the page

VARIABLES
    setup,          \* park: parking is configured; cap: of tldr, or 0; control: its turn
    produced,       \* sentences the brain has given
    reader,         \* "reading", "chunk", "slices", "ready", "rendering", "sending",
                    \* "over", "failed"
    rest, call,     \* what is left of the chunk; the sentences of one call of synthesis
    firstSentence, firstAudio,
    notices,        \* notices that have not been spoken
    noticing,       \* the first of them is being rendered
    noticed,        \* number of notices taken
    toolNoticeSent,
    filler,         \* "off", "armed", "sending"
    fillerCancelled,
    fillers,        \* number of fillers spoken
    pending,        \* whose clips wait for credit
    sounded,        \* some clip has gone out
    main,           \* "watching", "awaiting", "line", "lineSending", "cancelled", "holding",
                    \* "coda", "codaRendering", "codaSending", "failing", "leaving", "returned"
    parked, detached,
    background,     \* what happened to the parked reply: "none", "delivered", "dropped"
    aborted,        \* the signal of the turn
    turnAborted,    \* turnAbort: the brain has been told to stop
    ended,          \* the end of the turn for the page: "none", "done", "error", "aborted"
    spoken, gated, parkedTexts,
    silent,         \* history: sentences without audio
    said,           \* history: what the page was told, in its order
    lastReply, recovered,
    budget,         \* one of Budgets
    faults

readerVars == <<produced, reader, rest, call, firstSentence, spoken, gated, parkedTexts, silent>>
noticeVars == <<notices, noticing, noticed, toolNoticeSent>>
fillerVars == <<filler, fillers>>
mainVars == <<main, parked, detached, background, lastReply, recovered>>
cutVars == <<aborted, turnAborted, ended, faults>>
vars == <<setup, budget, readerVars, firstAudio, noticeVars, fillerVars, fillerCancelled, pending,
          sounded, mainVars, cutVars, said>>

Init ==
    /\ setup \in [park : BOOLEAN, cap : 0 .. 1, control : BOOLEAN]
    /\ setup.control => setup.cap = 0
    /\ budget \in Budgets
    /\ produced = 0 /\ reader = "reading" /\ rest = <<>> /\ call = <<>>
    /\ firstSentence = FALSE /\ firstAudio = FALSE
    /\ notices = 0 /\ noticing = FALSE /\ noticed = 0 /\ toolNoticeSent = FALSE
    /\ filler \in {"off", "armed"} /\ fillerCancelled = FALSE /\ fillers = 0
    /\ pending = <<>> /\ sounded = FALSE
    /\ main = IF setup.park THEN "watching" ELSE "awaiting"
    /\ parked = FALSE /\ detached = FALSE /\ background = "none"
    /\ aborted = FALSE /\ turnAborted = FALSE /\ ended = "none"
    /\ spoken = <<>> /\ gated = <<>> /\ parkedTexts = <<>> /\ silent = {}
    /\ said = <<>> /\ lastReply = <<>> /\ recovered = <<>> /\ faults = 0

ReaderDone == reader \in {"over", "failed"}
NoticesIdle == notices = 0
NoticeClosed == main \notin {"watching", "awaiting", "line", "lineSending", "cancelled", "holding"}

\* abortFromTransport listens until the turn is left, or its background has ended.
Listening == main # "returned" \/ (detached /\ background = "none")

Fault == faults < budget.faults /\ faults' = faults + 1

\* A failure of its own, or one that something else explains.
FaultUnless(explained) == IF explained THEN UNCHANGED faults ELSE Fault

\* The turn's signal aborts, for a new turn, a shutdown or its own failure.
CutWith(how) ==
    /\ aborted' = TRUE
    /\ turnAborted' = (turnAborted \/ Listening)
    /\ ended' = IF ended = "none" THEN how ELSE ended

\* lease.fail(): the page is told, then the signal aborts.
Fails == ended = "none" /\ CutWith("error")

FillerStopped == fillerCancelled \/ aborted

(***************************************************************************)
(* What goes to the page.                                                  *)
(***************************************************************************)

\* sink.sentence(), of a turn that has not ended.
Tells(what) == said' = IF ended = "none" THEN said \o what ELSE said

\* The text exceeds what a turn may say: it is not said, and the turn fails.
OverBudget == Fault /\ Fails /\ UNCHANGED <<said, pending, sounded>>

\* sink.audio(): the clip goes out or waits; that of an ended turn goes nowhere.
Sends(who) ==
    /\ IF ended # "none" THEN UNCHANGED <<pending, sounded>>
       ELSE \/ pending = <<>> /\ sounded' = TRUE /\ UNCHANGED pending
            \/ sounded /\ Len(pending) < 2 /\ pending' = Append(pending, who)
               /\ UNCHANGED sounded
    /\ UNCHANGED cutVars

\* A third clip that would wait, or a socket that takes no more: the turn fails.
Throws ==
    /\ FaultUnless(Len(pending) = 2)
    /\ Fails
    /\ UNCHANGED <<pending, sounded>>

Waits(who) == who \in Range(pending)

\* An acknowledgement leaves room for the clip that has waited longest.
Credit ==
    /\ pending # <<>> /\ ~aborted
    /\ pending' = Tail(pending)
    /\ UNCHANGED <<setup, budget, readerVars, firstAudio, noticeVars, fillerVars, fillerCancelled,
                   sounded, mainVars, cutVars, said>>

\* The page stalls, or its socket takes no more.
Stalls ==
    /\ pending # <<>> /\ Fault /\ Fails
    /\ UNCHANGED <<setup, budget, readerVars, firstAudio, noticeVars, fillerVars, fillerCancelled,
                   pending, sounded, mainVars, said>>

\* The clips of an aborted turn are refused, whoever waits for them.
Rejects ==
    /\ pending # <<>> /\ aborted
    /\ pending' = <<>>
    /\ reader' = IF Waits("reply") THEN "failed" ELSE reader
    /\ main' = IF Waits("line") \/ Waits("coda") THEN "failing" ELSE main
    /\ filler' = IF Waits("filler") THEN "off" ELSE filler
    /\ UNCHANGED <<setup, budget, produced, rest, call, firstSentence, spoken, gated, parkedTexts,
                   silent, firstAudio, noticeVars, fillers, fillerCancelled, sounded, parked,
                   detached, background, lastReply, recovered, cutVars, said>>

\* The user interrupts, or the server shuts down.
Abort ==
    /\ ~aborted /\ Listening /\ CutWith("aborted")
    /\ UNCHANGED <<setup, budget, readerVars, firstAudio, noticeVars, fillerVars, fillerCancelled,
                   pending, sounded, mainVars, faults, said>>

(***************************************************************************)
(* The filler.                                                             *)
(***************************************************************************)

\* Mutant: the filler goes on.
KeepFiller == UNCHANGED fillerCancelled

\* cancelFiller(): there is no filler any more.
CancelFiller == fillerCancelled' = TRUE

FillerFires ==
    /\ filler = "armed" /\ ~FillerStopped
    /\ \/ OverBudget /\ filler' = "off" /\ UNCHANGED fillerCancelled
       \/ Tells(<<<<"filler", 0>>>>) /\ Sends("filler") /\ filler' = "sending"
          /\ UNCHANGED fillerCancelled
       \/ Tells(<<<<"filler", 0>>>>) /\ Throws /\ filler' = "off" /\ CancelFiller
    /\ UNCHANGED <<setup, budget, readerVars, firstAudio, noticeVars, fillers, mainVars>>

\* continueFiller(): reassurances follow while there is one to say.
FillerSent ==
    /\ filler = "sending" /\ ~Waits("filler")
    /\ IF FillerStopped THEN filler' = "off" /\ UNCHANGED fillers
       ELSE /\ fillers' = fillers + 1
            /\ filler' \in IF fillers >= budget.reassurances THEN {"off"} ELSE {"armed", "off"}
    /\ UNCHANGED <<setup, budget, readerVars, firstAudio, noticeVars, fillerCancelled, pending,
                   sounded, mainVars, cutVars, said>>

(***************************************************************************)
(* Notices.                                                                *)
(***************************************************************************)

NoticeStopped == NoticeClosed \/ aborted \/ turnAborted \/ parked

\* onNotice(): the brain has something to say; of its tools only into silence.
Notice(tool) ==
    /\ ~ReaderDone /\ noticed < budget.notices /\ ~NoticeStopped
    /\ tool => ~toolNoticeSent /\ ~firstSentence /\ ~firstAudio /\ fillers = 0
    /\ noticed' = noticed + 1 /\ notices' = notices + 1
    /\ toolNoticeSent' = (toolNoticeSent \/ tool)
    /\ CancelFiller
    /\ UNCHANGED <<setup, budget, readerVars, firstAudio, noticing, fillerVars, pending, sounded,
                   mainVars, cutVars, said>>

NoticeStarts ==
    /\ notices > 0 /\ ~noticing
    /\ IF NoticeStopped THEN notices' = notices - 1 /\ UNCHANGED noticing
       ELSE noticing' = TRUE /\ UNCHANGED notices
    /\ UNCHANGED <<setup, budget, readerVars, firstAudio, noticed, toolNoticeSent, fillerVars,
                   fillerCancelled, pending, sounded, mainVars, cutVars, said>>

\* Mutant: a notice that has been rendered is spoken whatever happened meanwhile.
NoticeHeldBackNever == FALSE

\* A notice that was rendered for a reply that has since been parked or cut.
NoticeHeldBack == NoticeStopped

\* Its clip is not waited for.
NoticeRendered ==
    /\ noticing
    /\ noticing' = FALSE /\ notices' = notices - 1
    /\ \/ /\ FaultUnless(NoticeHeldBack)    \* held back, or not rendered
          /\ UNCHANGED <<firstAudio, pending, sounded, aborted, turnAborted, ended, said>>
       \/ ~NoticeHeldBack /\ OverBudget /\ UNCHANGED firstAudio
       \/ /\ ~NoticeHeldBack /\ Tells(<<<<"notice", 0>>>>)
          /\ Sends("notice") /\ firstAudio' = TRUE
       \/ /\ ~NoticeHeldBack /\ Tells(<<<<"notice", 0>>>>)
          /\ Throws /\ UNCHANGED firstAudio
    /\ UNCHANGED <<setup, budget, readerVars, noticed, toolNoticeSent, fillerVars, fillerCancelled,
                   mainVars>>

(***************************************************************************)
(* The reader.                                                             *)
(***************************************************************************)

\* It leaves the brain's stream, which stops the brain.
Leaves(how) == reader' = how /\ turnAborted' = TRUE

ReadUnchanged == UNCHANGED <<setup, budget, noticeVars, fillerVars, mainVars>>

\* Sentences arrive.  Those of a parked reply are kept up to a limit.
Chunk(n) ==
    LET sentences == [i \in 1..n |-> produced + i] IN
    /\ reader = "reading" /\ produced + n <= MaxSentences
    /\ produced' = produced + n
    /\ CancelFiller
    /\ IF parked
       THEN LET room == MaxParked - Len(parkedTexts) IN
            /\ parkedTexts' = parkedTexts \o SubSeq(sentences, 1, IF n <= room THEN n ELSE room)
            /\ IF n > room THEN Leaves("over") ELSE UNCHANGED <<reader, turnAborted>>
            /\ UNCHANGED <<rest, firstSentence>>
       ELSE IF aborted THEN Leaves("over") /\ UNCHANGED <<rest, firstSentence, parkedTexts>>
       ELSE /\ reader' = "chunk" /\ rest' = sentences /\ firstSentence' = TRUE
            /\ UNCHANGED <<parkedTexts, turnAborted>>
    /\ UNCHANGED <<call, spoken, gated, silent, firstAudio, pending, sounded, aborted, ended,
                   faults, said>>
    /\ ReadUnchanged

\* Mutant: only a parked reply is left.
ParkedOnly == parked

\* The floor belongs to somebody else, or the page is gone.
NobodyListens == aborted \/ parked

\* abortable(): the brain's silence is left every 200 ms if nobody listens any
\* more, or once a parked reply has taken too long.
Poll ==
    /\ reader = "reading" /\ NobodyListens
    /\ Leaves("over")
    /\ UNCHANGED <<produced, rest, call, firstSentence, spoken, gated, parkedTexts, silent,
                   firstAudio, fillerCancelled, pending, sounded, aborted, ended, faults, said>>
    /\ ReadUnchanged

BrainEnds ==
    /\ reader = "reading" /\ reader' = "over"
    /\ UNCHANGED <<produced, rest, call, firstSentence, spoken, gated, parkedTexts, silent,
                   firstAudio, fillerCancelled, pending, sounded, cutVars, said>>
    /\ ReadUnchanged

\* It fails by itself, or because it was told to stop.
BrainFails ==
    /\ reader = "reading" /\ Leaves("failed")
    /\ FaultUnless(turnAborted)
    /\ UNCHANGED <<produced, rest, call, firstSentence, spoken, gated, parkedTexts, silent,
                   firstAudio, fillerCancelled, pending, sounded, aborted, ended, said>>
    /\ ReadUnchanged

\* The sentences of a chunk are told once the notices before them are spoken.
ChunkTold ==
    /\ reader = "chunk" /\ NoticesIdle
    /\ \/ aborted /\ Leaves("over") /\ UNCHANGED <<aborted, ended, faults, said, pending, sounded>>
       \/ ~aborted /\ OverBudget /\ reader' = "over"
       \/ ~aborted /\ Tells([i \in DOMAIN rest |-> <<"sentence", rest[i]>>])
          /\ reader' = "slices" /\ UNCHANGED <<cutVars, pending, sounded>>
    /\ UNCHANGED <<produced, rest, call, firstSentence, spoken, gated, parkedTexts, silent,
                   firstAudio, fillerCancelled>>
    /\ ReadUnchanged

\* Mutant: what had no audio takes room as well.
RoomOfAll == setup.cap - Len(spoken) - Cardinality(silent)

\* How many sentences may still be spoken before the rest is gated.
Room == setup.cap - Len(spoken)

Smaller(a, b) == IF a < b THEN a ELSE b

\* One sentence of a control turn, as many as the cap allows, or all of them.
CallSize ==
    IF setup.control THEN 1
    ELSE IF setup.cap > 0 THEN Smaller(Room, Len(rest)) ELSE Len(rest)

Slice ==
    /\ reader = "slices"
    /\ IF rest = <<>> THEN reader' = "reading" /\ UNCHANGED <<rest, call, gated>>
       ELSE IF setup.cap > 0 /\ Room <= 0
       THEN gated' = gated \o rest /\ rest' = <<>> /\ reader' = "reading" /\ UNCHANGED call
       ELSE /\ call' = SubSeq(rest, 1, CallSize)
            /\ rest' = SubSeq(rest, CallSize + 1, Len(rest))
            /\ reader' = "ready" /\ UNCHANGED gated
    /\ UNCHANGED <<produced, firstSentence, spoken, parkedTexts, silent, firstAudio,
                   fillerCancelled, pending, sounded, cutVars, said>>
    /\ ReadUnchanged

Render ==
    /\ reader = "ready" /\ NoticesIdle /\ reader' = "rendering"
    /\ UNCHANGED <<produced, rest, call, firstSentence, spoken, gated, parkedTexts, silent,
                   firstAudio, fillerCancelled, pending, sounded, cutVars, said>>
    /\ ReadUnchanged

RenderFails ==
    /\ reader = "rendering" /\ Leaves("failed")
    /\ FaultUnless(aborted)
    /\ UNCHANGED <<produced, rest, call, firstSentence, spoken, gated, parkedTexts, silent,
                   firstAudio, fillerCancelled, pending, sounded, aborted, ended, said>>
    /\ ReadUnchanged

\* It is rendered, perhaps into no audio at all.
Rendered ==
    /\ reader = "rendering"
    /\ \/ /\ aborted /\ Leaves("over")
          /\ UNCHANGED <<silent, firstAudio, pending, sounded, aborted, ended, faults>>
       \/ /\ ~aborted /\ reader' = "slices" /\ silent' = silent \cup Range(call)
          /\ UNCHANGED <<firstAudio, pending, sounded, cutVars>>
       \/ /\ ~aborted /\ reader' = "sending" /\ firstAudio' = TRUE
          /\ Sends("reply") /\ UNCHANGED silent
       \/ /\ ~aborted /\ reader' = "failed" /\ firstAudio' = TRUE
          /\ Throws /\ UNCHANGED silent
    /\ UNCHANGED <<produced, rest, call, firstSentence, spoken, gated, parkedTexts,
                   fillerCancelled, said>>
    /\ ReadUnchanged

ReplySent ==
    /\ reader = "sending" /\ ~Waits("reply")
    /\ spoken' = spoken \o call /\ reader' = "slices"
    /\ UNCHANGED <<produced, rest, call, firstSentence, gated, parkedTexts, silent, firstAudio,
                   fillerCancelled, pending, sounded, cutVars, said>>
    /\ ReadUnchanged

(***************************************************************************)
(* The turn.                                                               *)
(***************************************************************************)

TurnUnchanged ==
    UNCHANGED <<setup, budget, readerVars, noticeVars, fillerVars>>

\* Mutant: a notice that was spoken does not count as something said.
SilentSoFarForNotices == ~firstSentence /\ ~aborted

\* Nothing has been said: the floor can be given back.
SilentSoFar == ~firstSentence /\ ~firstAudio /\ ~aborted

\* The watchdog: a reply that has taken too long is parked, and the page told so.
Watchdog ==
    /\ main = "watching" /\ ~ReaderDone
    /\ IF SilentSoFar
       THEN /\ parked' = TRUE /\ CancelFiller
            /\ \/ OverBudget /\ main' = "cancelled"
               \/ Tells(<<<<"line", 0>>>>) /\ main' = "line" /\ UNCHANGED <<pending, sounded, cutVars>>
       ELSE /\ main' = "awaiting"
            /\ UNCHANGED <<parked, fillerCancelled, said, pending, sounded, cutVars>>
    /\ UNCHANGED <<firstAudio, detached, background, lastReply, recovered>>
    /\ TurnUnchanged

LineRendered ==
    /\ main = "line"
    /\ \/ /\ FaultUnless(aborted)           \* synthesis fails
          /\ main' = "failing" /\ UNCHANGED <<pending, sounded, aborted, turnAborted, ended>>
       \/ main' = "lineSending" /\ (Sends("line") \/ UNCHANGED <<pending, sounded, cutVars>>)
       \/ main' = "failing" /\ Throws
    /\ UNCHANGED <<firstAudio, fillerCancelled, parked, detached, background, lastReply,
                   recovered, said>>
    /\ TurnUnchanged

\* The turn is done; the reply goes on in the background, or the turn is held
\* for it if the server has no room.
HandBack ==
    /\ main = "lineSending" /\ ~Waits("line")
    /\ ended' = IF ended = "none" THEN "done" ELSE ended
    /\ detached' = TRUE
    /\ main' \in {"leaving", "holding"}
    /\ UNCHANGED <<firstAudio, fillerCancelled, pending, sounded, parked, background, aborted,
                   turnAborted, faults, lastReply, recovered, said>>
    /\ TurnUnchanged

\* The background has the whole reply, or what there is of it.
BackgroundEnds ==
    /\ detached /\ background = "none" /\ ReaderDone
    /\ background' = IF aborted THEN "dropped" ELSE "delivered"
    /\ main' = IF main = "holding" THEN "leaving" ELSE main
    /\ UNCHANGED <<firstAudio, fillerCancelled, pending, sounded, parked, detached, cutVars,
                   lastReply, recovered, said>>
    /\ TurnUnchanged

\* The hand-back itself was cut.
Cancelled ==
    /\ main = "cancelled" /\ ReaderDone
    /\ main' = IF reader = "failed" THEN "failing" ELSE "leaving"
    /\ UNCHANGED <<firstAudio, fillerCancelled, pending, sounded, parked, detached, background,
                   cutVars, lastReply, recovered, said>>
    /\ TurnUnchanged

\* What was spoken can be repeated, and the page is told that the turn is over.
Finishes ==
    /\ lastReply' = IF aborted THEN lastReply ELSE spoken
    /\ ended' = IF ended = "none" THEN "done" ELSE ended
    /\ main' = "leaving"

\* The reader is through, or failed.  A reply that was gated gets a coda.
StreamOver ==
    /\ main \in {"watching", "awaiting"} /\ ReaderDone
    /\ \/ reader = "failed" /\ main' = "failing" /\ UNCHANGED <<lastReply, ended>>
       \/ reader = "over" /\ NoticesIdle /\ gated # <<>> /\ ~aborted
          /\ main' = "coda" /\ UNCHANGED <<lastReply, ended>>
       \/ reader = "over" /\ NoticesIdle /\ (gated = <<>> \/ aborted) /\ Finishes
    /\ UNCHANGED <<firstAudio, fillerCancelled, pending, sounded, parked, detached, background,
                   aborted, turnAborted, faults, recovered, said>>
    /\ TurnUnchanged

\* It has been summarised.
CodaTold ==
    /\ main = "coda"
    /\ \/ OverBudget /\ main' = "leaving"
       \/ /\ Tells(<<<<"coda", 0>>>>) /\ main' = IF aborted THEN "leaving" ELSE "codaRendering"
          /\ UNCHANGED <<pending, sounded, cutVars>>
    /\ UNCHANGED <<firstAudio, fillerCancelled, parked, detached, background, lastReply, recovered>>
    /\ TurnUnchanged

CodaRendered ==
    /\ main = "codaRendering"
    /\ \/ /\ FaultUnless(aborted)
          /\ main' = "failing" /\ UNCHANGED <<lastReply, pending, sounded, aborted, turnAborted, ended>>
       \/ Finishes /\ UNCHANGED <<pending, sounded, aborted, turnAborted, faults>>
       \/ ~aborted /\ main' = "codaSending" /\ Sends("coda") /\ UNCHANGED lastReply
       \/ ~aborted /\ main' = "failing" /\ Throws /\ UNCHANGED lastReply
    /\ UNCHANGED <<firstAudio, fillerCancelled, parked, detached, background, recovered, said>>
    /\ TurnUnchanged

CodaSent ==
    /\ main = "codaSending" /\ ~Waits("coda") /\ Finishes
    /\ UNCHANGED <<firstAudio, fillerCancelled, pending, sounded, parked, detached, background,
                   aborted, turnAborted, faults, recovered, said>>
    /\ TurnUnchanged

\* Mutant: what was spoken of a cut reply is forgotten.
CompletedOrCut == ended # "none"

\* completed: the reply was spoken to its end, or handed over.
Completed == ended = "done"

\* The turn is left once the notice that is being rendered is through.  What was
\* spoken of a reply that was cut can be resumed.
Leave ==
    /\ main \in {"leaving", "failing"} /\ NoticesIdle
    /\ main' = "returned" /\ CancelFiller
    /\ recovered' = IF Completed \/ detached THEN recovered ELSE spoken
    /\ IF main = "failing" /\ ended = "none"
       THEN aborted' = TRUE /\ ended' = "error"
       ELSE UNCHANGED <<aborted, ended>>
    /\ UNCHANGED <<firstAudio, pending, sounded, parked, detached, background, turnAborted,
                   faults, lastReply, said>>
    /\ TurnUnchanged

Speaks ==
    \/ Credit \/ Rejects \/ FillerSent \/ NoticeStarts \/ NoticeRendered
    \/ Poll \/ ChunkTold \/ Slice \/ Render \/ RenderFails \/ Rendered \/ ReplySent
    \/ Watchdog \/ LineRendered \/ HandBack \/ BackgroundEnds \/ Cancelled \/ StreamOver
    \/ CodaTold \/ CodaRendered \/ CodaSent \/ Leave

Next ==
    \/ Speaks
    \/ Stalls \/ Abort \/ FillerFires \/ BrainEnds \/ BrainFails
    \/ \E tool \in BOOLEAN : Notice(tool)
    \/ \E n \in 1 .. MaxChunk : Chunk(n)

\* Synthesis and the page end or fail by their own deadlines, and timers fire.
\* Nothing is assumed of the brain, nor of the user.
Fairness == WF_vars(Speaks)

Spec == Init /\ [][Next]_vars /\ Fairness

TypeOK ==
    /\ setup \in [park : BOOLEAN, cap : 0 .. 1, control : BOOLEAN]
    /\ produced \in 0 .. MaxSentences
    /\ reader \in {"reading", "chunk", "slices", "ready", "rendering", "sending", "over", "failed"}
    /\ {rest, call, spoken, gated, parkedTexts, lastReply, recovered} \subseteq Seq(1 .. produced)
    /\ silent \subseteq 1 .. produced
    /\ {firstSentence, firstAudio, noticing, toolNoticeSent, fillerCancelled, sounded, parked,
        detached, aborted, turnAborted} \subseteq BOOLEAN
    /\ noticed \in 0 .. budget.notices /\ notices \in 0 .. noticed
    /\ filler \in {"off", "armed", "sending"} /\ fillers \in 0 .. 1 + budget.reassurances
    /\ pending \in Seq({"filler", "notice", "reply", "line", "coda"}) /\ Len(pending) <= 2
    /\ background \in {"none", "delivered", "dropped"}
    /\ ended \in {"none", "done", "error", "aborted"} /\ faults \in 0 .. budget.faults

InOrder(sentences) == \A i, j \in DOMAIN sentences : i < j => sentences[i] < sentences[j]

\* The page hears fillers only before anything of the reply, the sentences in
\* their order, the coda at their end; a reply that was given back is announced
\* by its line alone, never in the middle of one.
HeardInOrder ==
    \A i, j \in DOMAIN said : i < j =>
        /\ said[j][1] = "filler" => said[i][1] = "filler"
        /\ said[i][1] \notin {"line", "coda"}
        /\ said[j][1] = "line" => said[i][1] = "filler"
        /\ said[i][1] = "sentence" /\ said[j][1] = "sentence" => said[i][2] < said[j][2]

\* Each sentence the brain gave is spoken, has no audio, is gated behind the cap
\* or parked, and only one of these; none is lost unless the turn was cut.
SentencesAccounted ==
    LET Gone == {Range(spoken), silent, Range(gated), Range(parkedTexts)} IN
    /\ \A A, B \in Gone : A = B \/ A \cap B = {}
    /\ {spoken, gated, parkedTexts} \subseteq {s \in {spoken, gated, parkedTexts} : InOrder(s)}
    /\ \A s \in Range(spoken), g \in Range(gated) : s < g
    /\ gated # <<>> => Len(spoken) = setup.cap
    /\ reader \in {"reading", "over"} /\ ~turnAborted => UNION Gone = 1 .. produced

\* A parked reply is announced whole, unless it is cut, once its turn is done;
\* what is kept to be repeated was spoken to the end, what is kept to be resumed
\* is all that was spoken of a reply that was cut.
KeptAsSpoken ==
    /\ background = "delivered" => parked /\ ended = "done" /\ spoken = <<>>
    /\ background = "delivered" /\ ~turnAborted => parkedTexts = [i \in 1..produced |-> i]
    /\ lastReply # <<>> => ended = "done" /\ lastReply = spoken
    /\ main = "returned" /\ ended \in {"error", "aborted"} /\ ~detached => recovered = spoken
    /\ recovered # <<>> => ended # "done" \/ aborted

\* Nothing is rendered or said for a turn that has returned its provider.
NothingAfter ==
    main = "returned" =>
        /\ reader \in {"reading", "over", "failed"} /\ NoticesIdle
        /\ filler = "armed" => FillerStopped

ReplyIsWhole == HeardInOrder /\ SentencesAccounted /\ KeptAsSpoken /\ NothingAfter

\* A turn that is cut ends, whatever the brain does, and the brain is told to
\* stop; one that may be parked never leaves the user in silence.
FloorComesBack ==
    /\ []<>(aborted => main = "returned" /\ ReaderDone)
    /\ []<>(setup.park => main = "returned" \/ firstSentence \/ firstAudio)
=============================================================================
