----------------------------- MODULE Coalescer -----------------------------
(***************************************************************************)
(* Sentences on their way to synthesis, src/speaker/coalesce.ts: the       *)
(* sentences that have arrived are merged into one call, none is waited    *)
(* for.                                                                    *)
(*                                                                         *)
(* A drain reads the source ahead into a queue of bounded size; the        *)
(* speaker takes what is queued, merges it, and asks again when it has     *)
(* spoken.  Each of the two sleeps until the other wakes it.  A source     *)
(* that is being read cannot be interrupted, so a turn is cancelled past   *)
(* it, by a signal that wakes both.                                        *)
(***************************************************************************)
EXTENDS Naturals, Sequences, SequencesExt

CONSTANTS
    Length,             \* how long sentences are
    MaxChars,           \* options.maxChars
    PassthroughFirst,   \* options.passthroughFirst
    MaxQueuedChars,     \* MAX_QUEUED_CHARS
    MaxSentences        \* bound of the model

VARIABLES
    text,       \* the sentences read so far, as their lengths; a sentence is its number
    drain,      \* "checking", "asleep" until woken, "reading" the source, "over"
    queued,
    handed,     \* the batch the speaker has, which counts as retained
    closed, cancelled,
    speaker,    \* "speaking" a chunk (at first: none), "asleep", "woken", "ready" to
                \* merge, "closing", "over"
    batch,      \* what is left of it to merge
    chunks      \* history: what the speaker was given

vars == <<text, drain, queued, handed, closed, cancelled, speaker, batch, chunks>>

Init ==
    /\ text = <<>> /\ drain = "checking" /\ queued = <<>> /\ handed = <<>>
    /\ closed = FALSE /\ cancelled = FALSE
    /\ speaker = "speaking" /\ batch = <<>> /\ chunks = <<>>

Chars(sentences) == FoldLeft(LAMBDA sum, s : sum + text[s], 0, sentences)

\* Sentences are joined by a blank.
MergedLength(sentences) == Chars(sentences) + Len(sentences) - 1

Done == drain = "over"

\* wakeConsumer() and wakeProducer(): whoever sleeps looks again.
WakeSpeaker == speaker' = IF speaker = "asleep" THEN "woken" ELSE speaker
WakeDrain == drain' = IF drain = "asleep" THEN "checking" ELSE drain

(***************************************************************************)
(* The drain.                                                              *)
(***************************************************************************)

\* Mutant: a batch that was handed out is not counted.
RetainedWithoutBatch == Chars(queued)

Retained == Chars(queued) + Chars(handed)

\* It stops to read while too much is retained.
Checks ==
    /\ drain = "checking"
    /\ IF closed \/ cancelled
       THEN drain' = "over" /\ WakeSpeaker
       ELSE /\ drain' = IF Retained >= MaxQueuedChars THEN "asleep" ELSE "reading"
            /\ UNCHANGED speaker
    /\ UNCHANGED <<text, queued, handed, closed, cancelled, batch, chunks>>

\* A sentence; one that was being read when the queue was closed is dropped.
Reads(length) ==
    /\ drain = "reading" /\ Len(text) < MaxSentences
    /\ WakeSpeaker
    /\ IF closed \/ cancelled
       THEN drain' = "over" /\ UNCHANGED <<text, queued>>
       ELSE /\ text' = Append(text, length)
            /\ queued' = Append(queued, Len(text'))
            /\ drain' = "checking"
    /\ UNCHANGED <<handed, closed, cancelled, batch, chunks>>

\* The source ends, or throws: the speaker is told once all that was read is spoken.
SourceEnds ==
    /\ drain = "reading" /\ drain' = "over" /\ WakeSpeaker
    /\ UNCHANGED <<text, queued, handed, closed, cancelled, batch, chunks>>

(***************************************************************************)
(* The speaker.                                                            *)
(***************************************************************************)

\* What take() finds: nothing yet, the end, or all that is queued.
Looks ==
    IF cancelled \/ (Done /\ queued = <<>>)
    THEN speaker' = "closing" /\ UNCHANGED <<queued, batch>>
    ELSE IF queued = <<>>
    THEN speaker' = "asleep" /\ UNCHANGED <<queued, batch>>
    ELSE speaker' = "ready" /\ batch' = queued /\ queued' = <<>>

\* Mutant: the drain is not woken.
TakeAlone ==
    /\ speaker = "speaking" /\ batch = <<>>
    /\ Looks
    /\ handed' = IF speaker' = "ready" THEN queued ELSE <<>>
    /\ UNCHANGED <<text, drain, closed, cancelled, chunks>>

\* take(): the last batch has been spoken, so the drain may go on.
Take ==
    /\ speaker = "speaking" /\ batch = <<>>
    /\ Looks
    /\ handed' = IF speaker' = "ready" THEN queued ELSE <<>>
    /\ IF handed # <<>> THEN WakeDrain ELSE UNCHANGED drain
    /\ UNCHANGED <<text, closed, cancelled, chunks>>

TakesAgain ==
    /\ speaker = "woken"
    /\ Looks
    /\ handed' = IF speaker' = "ready" THEN queued ELSE handed
    /\ UNCHANGED <<text, drain, closed, cancelled, chunks>>

\* Sentences that go out in one call: the first ones alone, then as many as fit.
Together(n) ==
    IF Len(chunks) < PassthroughFirst THEN n = 1
    ELSE n = 1 \/ MergedLength(SubSeq(batch, 1, n)) <= MaxChars

\* coalesceSentenceGroups() yields the longest chunk.
Yields ==
    /\ speaker \in {"ready", "speaking"} /\ batch # <<>>
    /\ \E n \in DOMAIN batch :
          /\ \A m \in DOMAIN batch : (m <= n) = (\A k \in 1..m : Together(k))
          /\ chunks' = Append(chunks, SubSeq(batch, 1, n))
          /\ batch' = SubSeq(batch, n + 1, Len(batch))
    /\ speaker' = "speaking"
    /\ UNCHANGED <<text, drain, queued, handed, closed, cancelled>>

\* The speaker abandons the reply between two chunks.
Abandons ==
    /\ speaker = "speaking" /\ chunks # <<>>
    /\ speaker' = "closing"
    /\ UNCHANGED <<text, drain, queued, handed, closed, cancelled, batch, chunks>>

\* The turn is cancelled; the listener is gone once the queue is closed.
Cancel ==
    /\ ~cancelled /\ speaker # "over"
    /\ cancelled' = TRUE
    /\ WakeSpeaker /\ WakeDrain
    /\ UNCHANGED <<text, queued, handed, closed, batch, chunks>>

\* close(): the drain is told, and waited for.
Close ==
    /\ speaker = "closing" /\ ~closed
    /\ closed' = TRUE /\ WakeDrain
    /\ UNCHANGED <<text, queued, handed, cancelled, speaker, batch, chunks>>

\* The drain has ended, or 250 ms have passed while it reads.
Closed ==
    /\ speaker = "closing" /\ closed /\ drain \in {"over", "reading"}
    /\ speaker' = "over"
    /\ UNCHANGED <<text, drain, queued, handed, closed, cancelled, batch, chunks>>

Next ==
    \/ Checks \/ SourceEnds \/ Take \/ TakesAgain \/ Yields \/ Abandons \/ Cancel \/ Close \/ Closed
    \/ \E length \in Length : Reads(length)

Spec == Init /\ [][Next]_vars

TypeOK ==
    /\ text \in Seq(Length)
    /\ drain \in {"checking", "asleep", "reading", "over"}
    /\ speaker \in {"asleep", "woken", "ready", "speaking", "closing", "over"}
    /\ {closed, cancelled} \subseteq BOOLEAN
    /\ {queued, handed, batch} \subseteq Seq(DOMAIN text) /\ chunks \in Seq(Seq(DOMAIN text))

\* Whatever is merged, the speaker gets the sentences in their order, each once,
\* none of them kept back; calls are no longer than allowed unless a sentence
\* is, and the first ones are not merged.
WholeAndInOrder ==
    /\ FlattenSeq(chunks) \o batch \o queued = [i \in DOMAIN text |-> i]
    /\ \A c \in DOMAIN chunks :
          Len(chunks[c]) > 1 => c > PassthroughFirst /\ MergedLength(chunks[c]) <= MaxChars

\* The speaker sleeps only while nothing has arrived, and the drain only while
\* too much is retained: neither misses what it should be woken for.
NeverWaits ==
    /\ speaker = "asleep" => queued = <<>> /\ ~Done /\ ~cancelled
    /\ drain = "asleep" => Retained >= MaxQueuedChars /\ ~closed /\ ~cancelled

\* What is read ahead, with the batch the speaker has, exceeds the cap by less
\* than a sentence.
RetentionBounded ==
    \E longest \in Length :
        /\ \A length \in Length : length <= longest
        /\ Chars(queued) + Chars(handed) < MaxQueuedChars + longest

\* All three: what the speaker merges is the reply, and nothing waits for more.
MergedFaithfully == WholeAndInOrder /\ NeverWaits /\ RetentionBounded
=============================================================================
