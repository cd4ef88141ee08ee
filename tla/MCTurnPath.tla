----------------------------- MODULE MCTurnPath -----------------------------
(***************************************************************************)
(* What a spoken turn passes on its way to the agent, for TLC: the local   *)
(* listener that hears it, the queue that admits one of a browser and the  *)
(* speculation it may adopt.  A behavior explores one part; the others     *)
(* keep their initial state.                                               *)
(***************************************************************************)
EXTENDS WebTurnQueue, TLC

VARIABLES
    part,
    \* Speculation
    stt, start, tone, pump, tokens, end, aborted, claimed, timer, abortTask, hold, held,
    turn, signal, read, outcome, finished, accepted, granted,
    \* Listener
    mode, clapEnds, ear, shot, unusual, stale, cut

guessVars == <<stt, start, tone, pump, tokens, end, aborted, claimed, timer, abortTask, hold,
               held, turn, signal, read, outcome, finished, accepted, granted>>
earVars == <<mode, clapEnds, ear, shot, unusual, stale, cut>>
pathVars == <<vars, part, guessVars, earVars>>

Guess == INSTANCE Speculation WITH MaxTokens <- 2, MaxHeld <- 1

\* Voice mode twice, and one thing out of the ordinary.
Ears == INSTANCE Listener WITH MaxActivations <- 2, GraceAttempts <- 1, MaxUnusual <- 1

PathInit ==
    /\ Init /\ Guess!Init /\ Ears!Init
    /\ part \in {"queue", "guess", "listener"}
    /\ part # "guess" => stt = "text" /\ tone = "off"
    /\ part # "listener" => mode = "plain" /\ ~clapEnds

PathNext ==
    \/ part = "queue" /\ Next /\ UNCHANGED <<part, guessVars, earVars>>
    \/ part = "guess" /\ Guess!Next /\ UNCHANGED <<part, vars, earVars>>
    \/ part = "listener" /\ Ears!Next /\ UNCHANGED <<part, vars, guessVars>>

PathSpec == PathInit /\ [][PathNext]_pathVars

\* The properties of the other parts, each stated in its module.
AdoptionIsWhole == Guess!AdoptionIsWhole
MicrophoneGivenBack == Ears!MicrophoneGivenBack
ActivationsAreApart == Ears!ActivationsAreApart

\* The elements of each set are alike in every part.
Symmetry == Permutations(Socket) \cup Permutations(Turn) \cup Permutations(Speculation)
=============================================================================
