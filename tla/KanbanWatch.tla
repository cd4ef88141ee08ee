---------------------------- MODULE KanbanWatch ----------------------------
(***************************************************************************)
(* The watch over the agents' board: src/notify/kanban-watch.ts, with the  *)
(* feed of board-realtime.ts and the file of nudge-state-store.ts.         *)
(*                                                                         *)
(* A poll reads the whole board, announces the tasks that changed into a   *)
(* status worth speaking about, reminds of those nobody has started, and   *)
(* writes the reminders' numbers to a file.  While the feed is connected   *)
(* polls are rare, and an event asks for one; else they come at an         *)
(* interval.  Every await of a poll may see events, a stop or the end of   *)
(* the process.  The parents of a task are looked up one by one, as for a  *)
(* board whose list leaves them out.                                       *)
(***************************************************************************)
EXTENDS Integers, FiniteSets

CONSTANTS
    Task,
    Parents,      \* the tasks each one waits for
    NudgeAfter,   \* how long a task may wait before the first reminder
    GapMax,       \* and the longest time between two
    GateRecheck,  \* GATE_RECHECK_MS
    MaxLookups,   \* MAX_GATE_LOOKUPS_PER_POLL, 16
    MaxTime, Budgets    \* bounds of the model: moves of tasks, ends of the process, faults

VARIABLES
    board,    \* the status of each task
    push,     \* the feed is connected
    event,    \* it has an event to deliver
    clock,
    up,       \* the process lives
    running, timer, refreshPending, poll, lastReadSucceeded,
    last,     \* lastSnapshot
    known, seeded, nudged, loaded, dirty,
    file,     \* the numbers of reminders and when the next is due
    budget,   \* what may still happen, of one of the Budgets
    \* History, read by no action.
    sent,     \* the number of the last reminder of each task's wait
    missed    \* a poll was cut off, or the file not written or read

feedVars == <<push, event>>
timing == <<running, timer, refreshPending>>
reminders == <<nudged, loaded, dirty>>
vars == <<board, feedVars, clock, up, timing, poll, lastReadSucceeded, last, known, seeded,
          reminders, file, budget, sent, missed>>

Spend(what) == budget' = [budget EXCEPT ![what] = @ - 1]

NoPoll == [step |-> "idle"]
NoNudge == [count |-> 0, nextAt |-> 0]

\* Between two awaits the poll runs alone.
Yielded == poll.step # "loop"

NoTasks == [t \in Task |-> "absent"]
NewPoll == [step |-> "listing", list |-> NoTasks, left |-> {}, lookups |-> 0,
            aborted |-> FALSE]

Init ==
    /\ board = [t \in Task |-> "todo"] /\ push = FALSE /\ event = FALSE /\ clock = 0
    /\ up = TRUE /\ running = TRUE /\ timer = "none" /\ refreshPending = FALSE
    /\ poll = NewPoll /\ lastReadSucceeded = FALSE
    /\ last = NoTasks /\ known = [t \in Task |-> "none"] /\ seeded = FALSE
    /\ nudged = [t \in Task |-> NoNudge] /\ loaded = FALSE /\ dirty = FALSE
    /\ file = [t \in Task |-> NoNudge]
    /\ budget \in Budgets
    /\ sent = [t \in Task |-> 0] /\ missed = FALSE

-----------------------------------------------------------------------------
(* When to poll *)

\* An event during a poll is taken to be in its read.
RequestRefreshUnlessPolling ==
    /\ refreshPending' = (refreshPending \/ poll = NoPoll)
    /\ timer' = IF refreshPending \/ poll # NoPoll THEN timer ELSE "soon"

RequestRefresh ==
    /\ refreshPending' = TRUE
    /\ timer' = IF refreshPending \/ poll # NoPoll THEN timer ELSE "soon"

LaunchScheduledPoll ==
    /\ refreshPending' = FALSE /\ timer' = "none" /\ poll' = NewPoll
    /\ lastReadSucceeded' = FALSE

TimerFires ==
    /\ running /\ timer # "none" /\ LaunchScheduledPoll
    /\ UNCHANGED <<board, feedVars, clock, up, running, last, known, seeded, reminders, file,
                   budget, sent, missed>>

\* Waits for the feed after a failed read, connected or not.
FinishTrusting(read) ==
    /\ poll' = NoPoll
    /\ timer' = IF ~running \/ (push /\ ~read) THEN "none"
                ELSE IF push /\ read /\ ~refreshPending THEN "long" ELSE "soon"
    /\ UNCHANGED <<running, refreshPending>>

\* finishScheduledPoll(), with what the poll knows of its read.
Finish(read) ==
    /\ poll' = NoPoll
    /\ timer' = IF ~running THEN "none"
                ELSE IF push /\ read /\ ~refreshPending THEN "long" ELSE "soon"
    /\ UNCHANGED <<running, refreshPending>>

FeedChanges(ready) ==
    /\ Yielded /\ running /\ push # ready
    /\ push' = ready /\ event' = FALSE /\ RequestRefresh
    /\ UNCHANGED <<board, clock, up, running, poll, lastReadSucceeded, last, known, seeded,
                   reminders, file, budget, sent, missed>>

FeedDelivers ==
    /\ Yielded /\ running /\ event /\ event' = FALSE /\ RequestRefresh
    /\ UNCHANGED <<board, push, clock, up, running, poll, lastReadSucceeded, last, known,
                   seeded, reminders, file, budget, sent, missed>>

-----------------------------------------------------------------------------
(* A poll *)

Step(s) == poll' = [poll EXCEPT !.step = s]
Stays == UNCHANGED timing

\* The command reads the board, and its output arrives later.
CommandReads ==
    /\ poll.step = "listing"
    /\ poll' = [poll EXCEPT !.step = "listed", !.list = board]
    /\ UNCHANGED <<board, feedVars, clock, up, timing, lastReadSucceeded, last, known, seeded,
                   reminders, file, budget, sent, missed>>

ListFails ==
    /\ poll.step \in {"listing", "listed"} /\ (poll.aborted \/ budget.faults > 0)
    /\ IF poll.aborted THEN UNCHANGED budget ELSE Spend("faults")
    /\ Finish(FALSE)
    /\ UNCHANGED <<board, feedVars, clock, up, lastReadSucceeded, last, known, seeded,
                   reminders, file, sent, missed>>

OnBoard(list) == {t \in Task : list[t] # "absent"}

ListArrives ==
    /\ poll.step = "listed" /\ ~poll.aborted
    /\ last' = poll.list /\ loaded' = TRUE
    /\ poll' = [poll EXCEPT !.step = IF loaded THEN "loop" ELSE "loading",
                            !.left = OnBoard(poll.list)]
    /\ UNCHANGED <<board, feedVars, clock, up, timing, lastReadSucceeded, known, seeded, nudged,
                   dirty, file, budget, sent, missed>>

Loads(ok) ==
    /\ poll.step = "loading" /\ (ok \/ budget.faults > 0)
    /\ nudged' = IF ok THEN file ELSE nudged
    /\ missed' = (missed \/ ~ok)
    /\ IF ok THEN UNCHANGED budget ELSE Spend("faults")
    /\ IF poll.aborted THEN Finish(FALSE) ELSE Step("loop") /\ Stays
    /\ UNCHANGED <<board, feedVars, clock, up, lastReadSucceeded, last, known, seeded, loaded,
                   dirty, file, sent>>

\* A new number is not marked to be written.
SetNudgeQuietly(t, state) == nudged' = [nudged EXCEPT ![t] = state] /\ UNCHANGED dirty

SetNudge(t, state) == nudged' = [nudged EXCEPT ![t] = state] /\ dirty' = TRUE

Forget(tasks) ==
    /\ nudged' = [t \in Task |-> IF t \in tasks THEN NoNudge ELSE nudged[t]]
    /\ dirty' = (dirty \/ \E t \in tasks : nudged[t] # NoNudge)
    /\ sent' = [t \in Task |-> IF t \in tasks THEN 0 ELSE sent[t]]

Due(t) == clock >= NudgeAfter /\ clock >= nudged[t].nextAt

\* A task that was started, or is done: the reminders stop, and it may be news.
Resolved(t) ==
    /\ poll.list[t] # "todo" /\ Forget({t})
    /\ poll' = [poll EXCEPT !.left = @ \ {t},
                            !.step = IF /\ seeded /\ poll.list[t] = "done"
                                        /\ known[t] # "done"
                                     THEN "announcing" ELSE "loop"]

\* One that waits: not yet due, due but over the budget of lookups, or looked up.
Waits(t) ==
    /\ poll.list[t] = "todo" /\ UNCHANGED sent
    /\ IF ~Due(t)
       THEN poll' = [poll EXCEPT !.left = @ \ {t}] /\ UNCHANGED <<nudged, dirty>>
       ELSE IF poll.lookups >= MaxLookups
       THEN /\ poll' = [poll EXCEPT !.left = @ \ {t}]
            /\ SetNudge(t, [count |-> nudged[t].count, nextAt |-> clock])
       ELSE /\ poll' = [step |-> "gate", list |-> poll.list, left |-> poll.left \ {t},
                        lookups |-> poll.lookups + 1, aborted |-> FALSE, task |-> t, at |-> clock]
            /\ UNCHANGED <<nudged, dirty>>

Visit(t) ==
    /\ poll.step = "loop" /\ t \in poll.left
    /\ known' = [known EXCEPT ![t] = poll.list[t]]
    /\ Resolved(t) \/ Waits(t)
    /\ UNCHANGED <<board, feedVars, clock, up, timing, lastReadSucceeded, last, seeded, loaded,
                   file, budget, missed>>

Loop == [step |-> "loop", list |-> poll.list, left |-> poll.left, lookups |-> poll.lookups,
         aborted |-> FALSE]

Gap(count) == LET doubled == NudgeAfter * 2 ^ count
                  longest == IF NudgeAfter > GapMax THEN NudgeAfter ELSE GapMax
              IN IF doubled < longest THEN doubled ELSE longest

\* A lookup that fails finds no parents.
GateAnswers(found) ==
    /\ poll.step = "gate"
    /\ LET t == poll.task
           count == nudged[t].count
           gated == found /\ \E p \in Parents[t] \ {t} : poll.list[p] \notin {"absent", "done"}
       IN IF poll.aborted THEN Finish(FALSE) /\ UNCHANGED <<nudged, dirty, sent>>
          ELSE IF gated
          THEN /\ SetNudge(t, [count |-> count, nextAt |-> poll.at + GateRecheck])
               /\ poll' = Loop /\ Stays /\ UNCHANGED sent
          ELSE /\ SetNudge(t, [count |-> count + 1, nextAt |-> poll.at + Gap(count)])
               /\ sent' = [sent EXCEPT ![t] = count + 1]
               /\ Step("nudging") /\ Stays
    /\ UNCHANGED <<board, feedVars, clock, up, lastReadSucceeded, last, known, seeded, loaded,
                   file, budget, missed>>

\* Delivered or not, the loop goes on.
NudgeEnds ==
    /\ poll.step = "nudging"
    /\ IF poll.aborted THEN Finish(FALSE) ELSE poll' = Loop /\ Stays
    /\ UNCHANGED <<board, feedVars, clock, up, lastReadSucceeded, last, known, seeded, reminders,
                   file, budget, sent, missed>>

\* An abort is noticed by an announcement that fails, and by the next task.
AnnounceEnds(ok) ==
    /\ poll.step = "announcing"
    /\ IF poll.aborted /\ (~ok \/ poll.left # {}) THEN Finish(FALSE) ELSE Step("loop") /\ Stays
    /\ UNCHANGED <<board, feedVars, clock, up, lastReadSucceeded, last, known, seeded, reminders,
                   file, budget, sent, missed>>

SaveNudgeState ==
    /\ poll.step = "loop" /\ poll.left = {}
    /\ seeded' = TRUE /\ lastReadSucceeded' = TRUE
    /\ LET off == Task \ OnBoard(poll.list)
           unsaved == dirty \/ \E t \in off : nudged[t] # NoNudge
       IN /\ nudged' = [t \in Task |-> IF t \in off THEN NoNudge ELSE nudged[t]]
          /\ sent' = [t \in Task |-> IF t \in off THEN 0 ELSE sent[t]]
          /\ dirty' = FALSE
          /\ IF unsaved THEN poll' = [step |-> "saving", aborted |-> FALSE] /\ Stays
             ELSE Finish(TRUE)
    /\ UNCHANGED <<board, feedVars, clock, up, last, known, loaded, file, budget, missed>>

\* The file gets the numbers as they were when the write was asked for; no
\* other poll changes them before it ends.
Saves(ok) ==
    /\ poll.step = "saving" /\ (ok \/ budget.faults > 0)
    /\ file' = IF ok THEN nudged ELSE file
    /\ dirty' = (dirty \/ ~ok)
    /\ IF ok THEN UNCHANGED budget ELSE Spend("faults")
    /\ Finish(lastReadSucceeded)
    /\ UNCHANGED <<board, feedVars, clock, up, lastReadSucceeded, last, known, seeded, nudged,
                   loaded, sent, missed>>

-----------------------------------------------------------------------------
(* The process, the board and time *)

Stop ==
    /\ Yielded /\ running /\ budget.ends > 0
    /\ running' = FALSE /\ timer' = "none" /\ refreshPending' = FALSE
    /\ push' = FALSE /\ event' = FALSE
    /\ poll' = IF poll = NoPoll THEN poll ELSE [poll EXCEPT !.aborted = TRUE]
    /\ UNCHANGED <<board, clock, up, lastReadSucceeded, last, known, seeded, reminders, file,
                   budget, sent, missed>>

\* stop() waits for the poll; the process may also just end.
Ends ==
    /\ Yielded /\ up /\ budget.ends > 0
    /\ up' = FALSE /\ Spend("ends")
    /\ running' = FALSE /\ timer' = "none" /\ refreshPending' = FALSE
    /\ push' = FALSE /\ event' = FALSE /\ poll' = NoPoll
    /\ missed' = (missed \/ dirty \/ poll.step = "saving")
    /\ lastReadSucceeded' = FALSE /\ last' = NoTasks
    /\ known' = [t \in Task |-> "none"] /\ seeded' = FALSE
    /\ nudged' = [t \in Task |-> NoNudge] /\ loaded' = FALSE /\ dirty' = FALSE
    /\ UNCHANGED <<board, clock, file, sent>>

Starts ==
    /\ ~up /\ up' = TRUE /\ running' = TRUE /\ LaunchScheduledPoll
    /\ UNCHANGED <<board, feedVars, clock, last, known, seeded, reminders, file, budget,
                   sent, missed>>

\* A task waits, is worked on, is finished or leaves the board; a connected feed says so.
BoardMoves(t, status) ==
    /\ Yielded /\ budget.moves > 0 /\ board[t] # status
    /\ board' = [board EXCEPT ![t] = status] /\ Spend("moves")
    /\ event' = push
    /\ UNCHANGED <<push, clock, up, timing, poll, lastReadSucceeded, last, known, seeded, reminders,
                   file, sent, missed>>

Passes ==
    /\ Yielded /\ clock < MaxTime /\ clock' = clock + 1
    /\ UNCHANGED <<board, feedVars, up, timing, poll, lastReadSucceeded, last, known, seeded,
                   reminders, file, budget, sent, missed>>

Next ==
    \/ TimerFires \/ FeedDelivers \/ \E ready \in BOOLEAN : FeedChanges(ready)
    \/ CommandReads \/ ListFails \/ ListArrives \/ \E ok \in BOOLEAN : Loads(ok)
    \/ \E t \in Task : Visit(t)
    \/ \E found \in BOOLEAN : GateAnswers(found)
    \/ NudgeEnds \/ \E ok \in BOOLEAN : AnnounceEnds(ok)
    \/ SaveNudgeState \/ \E ok \in BOOLEAN : Saves(ok)
    \/ Stop \/ Ends \/ Starts \/ Passes
    \/ \E t \in Task, status \in {"absent", "todo", "doing", "done"} : BoardMoves(t, status)

Spec == Init /\ [][Next]_vars

-----------------------------------------------------------------------------
(* Properties *)

\* The watch that trusts the feed and waits long has nothing to catch up with:
\* the last board it read, every task of it taken in, is the board, or an event
\* that says otherwise is on its way.
LongWaitIsFresh ==
    timer = "long" =>
        /\ push /\ lastReadSucceeded
        /\ event \/ last = board
        /\ \A t \in OnBoard(last) : known[t] = last[t]

\* A running watch always has a poll before it.
NeverDeaf == running => timer # "none" \/ poll # NoPoll

\* Reminders go on counting across restarts: after one that cut no poll off, the
\* watch knows the number of the last reminder of every wait.
CountsSurvive ==
    loaded /\ poll.step # "loading" /\ ~missed => \A t \in Task : nudged[t].count = sent[t]

\* The watch over the board: no event is lost to a poll in progress, a lost feed
\* or a failed read, and no restart begins the reminders anew.
WatchKeepsUp == LongWaitIsFresh /\ NeverDeaf /\ CountsSurvive
=============================================================================
