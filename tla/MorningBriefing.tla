-------------------------- MODULE MorningBriefing --------------------------
(***************************************************************************)
(* The news of the night and the briefing that tells it in the morning:    *)
(* src/notify/overnight-store.ts, src/notify/briefing-scheduler.ts and the *)
(* briefing's run in src/daemon.ts.                                        *)
(*                                                                         *)
(* News is appended to a file that keeps the newest MaxItems.  Once a day, *)
(* while the briefing's window is open, the scheduler claims the day in a  *)
(* second file, reads the news, sends it over its channels and, if one of  *)
(* them accepted it, removes from the file what it had read.  The daemon   *)
(* may be stopped or killed at every await of that and started again.      *)
(* Both files are replaced by a rename, and neither is damaged.            *)
(***************************************************************************)
EXTENDS Integers, Sequences, SequencesExt, FiniteSets

CONSTANTS
    MaxItems,   \* MAX_ITEMS, 40
    Channel,    \* over which the briefing goes: "telegram", "voice"
    MaxNews, MaxDays, MaxEnds, MaxFaults    \* bounds of the model

VARIABLES
    now,       \* the day, and where it stands to the window of the briefing
    queue,     \* overnight.json: the news, oldest first
    status,    \* briefing-status.json: the day claimed last, and how it went
    up,        \* the scheduler exists
    stopping,  \* its scope is aborted
    run,       \* what tick() does
    news,      \* how many were queued so far
    ends,      \* how often the daemon ended
    lapses,    \* writes that failed
    \* History, read by no action.
    told,      \* news in a briefing that a channel accepted
    sends,     \* how many briefings were sent on each day
    again      \* told by a briefing that was cut off before it could say so

vars == <<now, queue, status, up, stopping, run, news, ends, lapses, told, sends, again>>
history == <<told, sends, again>>
world == <<now, news, ends>>

NoRun == [step |-> "idle"]

Init ==
    /\ now = [day |-> 1, time |-> "before"] /\ queue = <<>>
    /\ status = [day |-> 0, phase |-> "none"]
    /\ up = TRUE /\ stopping = FALSE /\ run = NoRun
    /\ news = 0 /\ ends = 0 /\ lapses = 0
    /\ told = {} /\ sends = [d \in 1..MaxDays |-> 0] /\ again = {}

Step(s) == run' = [run EXCEPT !.step = s]

-----------------------------------------------------------------------------
(* The news *)

Newest(items) == SubSeq(items, 1 + (IF Len(items) > MaxItems THEN Len(items) - MaxItems ELSE 0),
                        Len(items))

Enqueue ==
    /\ up /\ news < MaxNews
    /\ news' = news + 1
    /\ queue' = Newest(Append(queue, news + 1))
    /\ UNCHANGED <<now, status, up, stopping, run, ends, lapses, history>>

Ack(ids) == queue' = SelectSeq(queue, LAMBDA n : n \notin ids)

-----------------------------------------------------------------------------
(* The scheduler *)

\* What a tick decides is decided with the time at which it began.
Tick ==
    /\ up /\ ~stopping /\ run = NoRun /\ now.time # "before"
    /\ run' = [step |-> "reading", day |-> now.day, time |-> now.time, items |-> {},
               left |-> {}, accepted |-> {}, phase |-> "claimed"]
    /\ UNCHANGED <<world, queue, status, up, stopping, lapses, history>>

ReadsStatus ==
    /\ run.step = "reading"
    /\ run' = IF stopping \/ status.day = run.day \/ run.time = "quiet" THEN NoRun
              ELSE [run EXCEPT !.step = "claiming",
                               !.phase = IF run.time = "closed" THEN "missed" ELSE "claimed"]
    /\ UNCHANGED <<world, queue, status, up, stopping, lapses, history>>

\* Claims the day in memory only.
ClaimsInMemory ==
    /\ run.step = "claiming"
    /\ run' = IF status.day = run.day \/ run.phase = "missed" THEN NoRun
              ELSE [run EXCEPT !.step = "claimed"]
    /\ UNCHANGED <<world, queue, status, up, stopping, lapses, history>>

Claims ==
    /\ run.step = "claiming"
    /\ status' = IF status.day = run.day THEN status ELSE [day |-> run.day, phase |-> run.phase]
    /\ run' = IF status.day = run.day \/ run.phase = "missed" THEN NoRun
              ELSE [run EXCEPT !.step = "claimed"]
    /\ UNCHANGED <<world, queue, up, stopping, lapses, history>>

\* beforeDelivery(): a stop ends the run without a word, a closed window misses the day.
Gate(next) ==
    run' = IF stopping THEN NoRun
           ELSE IF now.day # run.day \/ now.time # "open"
           THEN [run EXCEPT !.step = "completing", !.phase = "missed"]
           ELSE next

Begins ==
    /\ run.step = "claimed" /\ Gate([run EXCEPT !.step = "peeking"])
    /\ UNCHANGED <<world, queue, status, up, stopping, lapses, history>>

Peeks ==
    /\ run.step = "peeking"
    /\ run' = [run EXCEPT !.step = "composing", !.items = ToSet(queue)]
    /\ UNCHANGED <<world, queue, status, up, stopping, lapses, history>>

\* The board and the health record are read in between.
Sends ==
    /\ run.step = "composing"
    /\ Gate([run EXCEPT !.step = "sending", !.left = Channel])
    /\ sends' = IF run'.step = "sending" THEN [sends EXCEPT ![run.day] = @ + 1] ELSE sends
    /\ UNCHANGED <<world, queue, status, up, stopping, lapses, told, again>>

\* Removes the news only when every channel accepted it.
OutcomeOfAll(r) ==
    IF r.left # {} THEN r
    ELSE IF r.accepted = Channel THEN [r EXCEPT !.step = "acking", !.phase = "delivered"]
    ELSE IF stopping THEN NoRun
    ELSE [r EXCEPT !.step = "completing", !.phase = "failed"]

\* What follows the last channel.
Outcome(r) ==
    IF r.left # {} THEN r
    ELSE IF r.accepted # {}
    THEN [r EXCEPT !.step = "acking",
                   !.phase = IF r.accepted = Channel THEN "delivered" ELSE "partial"]
    ELSE IF stopping THEN NoRun
    ELSE [r EXCEPT !.step = "completing", !.phase = "failed"]

\* A text that went out after the stop counts as aborted.
Accepts(c) ==
    /\ run.step = "sending" /\ c \in run.left
    /\ LET counts == c # "telegram" \/ ~stopping IN
       /\ run' = Outcome([run EXCEPT !.left = @ \ {c},
                                     !.accepted = IF counts THEN @ \cup {c} ELSE @])
       /\ again' = IF counts THEN again ELSE again \cup run.items
    /\ told' = told \cup run.items
    /\ UNCHANGED <<world, queue, status, up, stopping, lapses, sends>>

Rejects(c) ==
    /\ run.step = "sending" /\ c \in run.left
    /\ run' = Outcome([run EXCEPT !.left = @ \ {c}])
    /\ UNCHANGED <<world, queue, status, up, stopping, lapses, history>>

\* After a stop the day's claim stays as it is.
Done(phase) ==
    run' = IF stopping THEN NoRun ELSE [run EXCEPT !.step = "completing", !.phase = phase]

\* Clears the whole queue, with what arrived while the briefing was sent.
AcksEverything ==
    /\ run.step = "acking" /\ Ack(ToSet(queue)) /\ Done(run.phase)
    /\ UNCHANGED <<world, status, up, stopping, lapses, history>>

Acks ==
    /\ run.step = "acking" /\ Ack(run.items) /\ Done(run.phase)
    /\ UNCHANGED <<world, status, up, stopping, lapses, history>>

AckFails ==
    /\ run.step = "acking" /\ lapses < MaxFaults /\ lapses' = lapses + 1
    /\ Done("failed") /\ again' = again \cup run.items
    /\ UNCHANGED <<world, queue, status, up, stopping, told, sends>>

Completes ==
    /\ run.step = "completing"
    /\ status' = IF status.day = run.day THEN [status EXCEPT !.phase = run.phase] ELSE status
    /\ run' = NoRun
    /\ UNCHANGED <<world, queue, up, stopping, lapses, history>>

-----------------------------------------------------------------------------
(* The daemon and the day *)

Stop ==
    /\ up /\ ~stopping /\ ends < MaxEnds /\ stopping' = TRUE
    /\ UNCHANGED <<world, queue, status, up, run, lapses, history>>

\* What a run had told and not yet removed when the process ended.
CutOff == IF run.step \in {"sending", "acking"} THEN run.items \cap told ELSE {}

\* The process ends after stop(), which waits for the run, or in the middle of it.
Ends ==
    /\ up /\ ends < MaxEnds
    /\ up' = FALSE /\ stopping' = FALSE /\ run' = NoRun /\ ends' = ends + 1
    /\ again' = again \cup CutOff
    /\ UNCHANGED <<now, queue, status, news, lapses, told, sends>>

Starts ==
    /\ ~up /\ up' = TRUE
    /\ UNCHANGED <<world, queue, status, stopping, run, lapses, history>>

\* Quiet hours may end or begin within the window.
Passes ==
    \/ /\ now.time # "closed"
       /\ \E t \in {"quiet", "open", "closed"} \ {now.time} : now' = [now EXCEPT !.time = t]
       /\ UNCHANGED <<queue, status, up, stopping, run, news, ends, lapses, history>>
    \/ /\ now.day < MaxDays /\ now' = [day |-> now.day + 1, time |-> "before"]
       /\ UNCHANGED <<queue, status, up, stopping, run, news, ends, lapses, history>>

Next ==
    \/ Enqueue \/ Tick \/ ReadsStatus \/ Claims \/ Begins \/ Peeks \/ Sends
    \/ \E c \in Channel : Accepts(c) \/ Rejects(c)
    \/ Acks \/ AckFails \/ Completes \/ Stop \/ Ends \/ Starts \/ Passes

Spec == Init /\ [][Next]_vars

-----------------------------------------------------------------------------
(* Properties *)

\* News stays queued until a briefing with it was accepted; short of that only
\* MaxItems newer ones push it out, whenever the daemon ends.
KeptUntilTold == \A n \in 1..news : n \in ToSet(queue) \/ n \in told \/ news - n >= MaxItems

\* "A restart can catch up, but never double-send": one briefing a day.
OncePerDay == \A d \in 1..MaxDays : sends[d] <= 1

\* What was told is not told again, but for a briefing that was cut off between
\* the acceptance and the removal of its news.
NotToldAgain ==
    told \cap ToSet(queue)
        \subseteq again \cup (IF run.step \in {"sending", "acking"} THEN run.items ELSE {})

\* The briefing across stops, crashes and restarts: the news of the night is
\* neither lost nor told twice, and no day has two briefings.
BriefingIsExact == KeptUntilTold /\ OncePerDay /\ NotToldAgain

=============================================================================
