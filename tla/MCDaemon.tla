------------------------------ MODULE MCDaemon ------------------------------
(***************************************************************************)
(* What the daemon does by itself, for TLC: the pid marker, the local      *)
(* microphone and the briefing of the morning.  A behavior explores one    *)
(* part; the others keep their initial state.                              *)
(*                                                                         *)
(* The marker: three starters, or two and another program that may get a   *)
(* freed pid.  The briefing: four news over two days, two of which fit the *)
(* queue, two ends of the daemon.                                          *)
(***************************************************************************)
EXTENDS DaemonPid, TLC

VARIABLES
    part,
    \* Microphone
    mic, running, idle, transitions, task, dictation, dictating, presses, faults, renewed,
    \* MorningBriefing
    now, queue, status, up, stopping, run, news, ends, lapses, told, sends, again

micVars == <<mic, running, idle, transitions, task, dictation, dictating, presses, faults,
             renewed>>
newsVars == <<now, queue, status, up, stopping, run, news, ends, lapses, told, sends, again>>
daemonVars == <<vars, part, micVars, newsVars>>

\* Long enough for voice mode to go on, off and on again around a dictation.
Mic == INSTANCE Microphone WITH MaxPresses <- 6, MaxFaults <- 1

Briefing == INSTANCE MorningBriefing WITH
    MaxItems <- 2, Channel <- {"telegram", "voice"}, MaxNews <- 4, MaxDays <- 2,
    MaxEnds <- 2, MaxFaults <- 1

\* One of the processes is never started.
Few == \E p \in Process : pid[p] = None

DaemonInit ==
    /\ Init /\ Mic!Init /\ Briefing!Init
    /\ part \in {"marker", "microphone", "briefing"}
    /\ part # "microphone" => mic.hub = "none"

DaemonNext ==
    \/ part = "marker" /\ Next /\ Few' /\ UNCHANGED <<part, micVars, newsVars>>
    \/ part = "microphone" /\ Mic!Next /\ UNCHANGED <<part, vars, newsVars>>
    \/ part = "briefing" /\ Briefing!Next /\ UNCHANGED <<part, vars, micVars>>

DaemonSpec == DaemonInit /\ [][DaemonNext]_daemonVars

\* The properties of the other parts, each stated in its module.
MicrophoneIsShared == Mic!MicrophoneIsShared
BriefingIsExact == Briefing!BriefingIsExact

\* Starters are alike, and so are pids.
Symmetry == Permutations(Starter) \cup Permutations(Pid)
=============================================================================
