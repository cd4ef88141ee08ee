--------------------------- MODULE MCConversation ---------------------------
(***************************************************************************)
(* A conversation and what it is about, for TLC: when it ends, the agent's *)
(* session that answers it, the sentences merged for synthesis, the pacing *)
(* of their audio, and the watch over the board, which begins one.  A      *)
(* behavior explores one part; the others keep their initial state.        *)
(*                                                                         *)
(* The board: two tasks, one of which waits for the other, two changes of  *)
(* them, or an end of the daemon with one or with a lookup that fails.     *)
(***************************************************************************)
EXTENDS ConversationEnd, TLC

CONSTANTS None, child, parent

VARIABLES
    part,
    \* AcpBrain
    runtimes, runtime, desiredRunning, lifecycleEpoch, startOperation, stopOperation, calls,
    stopped, budget, file, writes, skipStored, pointerEpoch, turnAt, raw, reserved, prior,
    released, prompt, cancellation, callerAborted, retried, pendingGate, grantedGate, gates,
    approved, allowed, forgotten,
    \* AudioPacing
    outstanding, waiter, chain, credited, sink, doneRequested, ended, taken, delivered,
    progress, impatient,
    \* Coalescer
    text, drain, queued, handed, closed, cancelled, speaker, batch, chunks,
    \* KanbanWatch
    board, push, event, clock, watcher, polling, pause, refreshPending, poll,
    lastReadSucceeded, last, known, seeded, nudged, loaded, dirty, numbers, chances, sent,
    missed

agentVars == <<runtimes, runtime, desiredRunning, lifecycleEpoch, startOperation,
               stopOperation, calls, stopped, budget, file, writes, skipStored, pointerEpoch,
               turnAt, raw, reserved, prior, released, prompt, cancellation, callerAborted,
               retried, pendingGate, grantedGate, gates, approved, allowed, forgotten>>
pacingVars == <<outstanding, waiter, chain, credited, sink, doneRequested, ended, taken,
                delivered, progress, impatient>>
mergeVars == <<text, drain, queued, handed, closed, cancelled, speaker, batch, chunks>>
watchVars == <<board, push, event, clock, watcher, polling, pause, refreshPending, poll,
               lastReadSucceeded, last, known, seeded, nudged, loaded, dirty, numbers, chances,
               sent, missed>>
pathVars == <<vars, part, agentVars, pacingVars, mergeVars, watchVars>>

\* Three lifecycle calls; two turns, of which one may be a compaction or ask for
\* a confirmation; a turn around a stop or a restart; a turn that asks twice.
AgentBudgets ==
    {[calls |-> 3, turns |-> 0, compactions |-> 0, gates |-> 0, faults |-> 1],
     [calls |-> 1, turns |-> 2, compactions |-> 1, gates |-> 0, faults |-> 0],
     [calls |-> 1, turns |-> 2, compactions |-> 0, gates |-> 1, faults |-> 0],
     [calls |-> 2, turns |-> 1, compactions |-> 0, gates |-> 0, faults |-> 0],
     [calls |-> 1, turns |-> 1, compactions |-> 0, gates |-> 2, faults |-> 1]}
\* The model values of the sockets serve as turns.
Agent == INSTANCE AcpBrain WITH
    Turn <- Socket, Operation <- {"operation"}, MaxPending <- 2, MaxRuntimes <- 3,
    Budgets <- AgentBudgets
ASSUME AgentAssumption == Agent!AcpAssumption

\* Clips that fit, fill and exceed the credit.
Pacing == INSTANCE AudioPacing WITH
    Duration <- {1, 2, 5}, MaxMs <- 4, MaxClips <- 3, StallMs <- 2, Early <- 1, MaxAudio <- 5

\* Sentences of which two fit a call, or one, and that fill the queue.
Merge == INSTANCE Coalescer WITH
    Length <- {1, 2, 4}, MaxChars <- 4, PassthroughFirst <- 1, MaxQueuedChars <- 4,
    MaxSentences <- 4

BoardTask == {child, parent}
BoardBudgets == {[moves |-> 2, ends |-> 0, faults |-> 0],
                 [moves |-> 1, ends |-> 1, faults |-> 0],
                 [moves |-> 0, ends |-> 1, faults |-> 1]}
Watch == INSTANCE KanbanWatch WITH
    Task <- BoardTask, Parents <- [t \in BoardTask |-> IF t = child THEN {parent} ELSE {}],
    NudgeAfter <- 1, GapMax <- 2, GateRecheck <- 1, MaxLookups <- 1, MaxTime <- 2,
    Budgets <- BoardBudgets, up <- watcher, running <- polling, file <- numbers,
    budget <- chances, timer <- pause

PathInit ==
    /\ Init /\ Agent!Init /\ Pacing!Init /\ Merge!Init /\ Watch!Init
    /\ part \in {"conversation", "agent", "pacing", "merge", "watch"}
    /\ part # "watch" => chances.moves = 2
    /\ part # "agent" => budget.calls = 3

PathNext ==
    \/ part = "conversation" /\ Next
       /\ UNCHANGED <<part, agentVars, pacingVars, mergeVars, watchVars>>
    \/ part = "agent" /\ Agent!Next
       /\ UNCHANGED <<part, vars, pacingVars, mergeVars, watchVars>>
    \/ part = "pacing" /\ Pacing!Next
       /\ UNCHANGED <<part, vars, agentVars, mergeVars, watchVars>>
    \/ part = "merge" /\ Merge!Next
       /\ UNCHANGED <<part, vars, agentVars, pacingVars, watchVars>>
    \/ part = "watch" /\ Watch!Next
       /\ UNCHANGED <<part, vars, agentVars, pacingVars, mergeVars>>

PathSpec == PathInit /\ [][PathNext]_pathVars

\* The properties of the other parts, each stated in its module.
SessionIsSound == Agent!SessionIsSound
ConsentIsExact == Agent!ConsentIsExact
CreditAndOrder == Pacing!CreditAndOrder
MergedFaithfully == Merge!MergedFaithfully
WatchKeepsUp == Watch!WatchKeepsUp

Symmetry == Permutations(Socket)
=============================================================================
