--------------------------- MODULE TurnOwnership ---------------------------
(***************************************************************************)
(* What the turn coordinator promises its callers, without the ids, keys,  *)
(* maps and signals it uses to keep the promise: a session has one seat,   *)
(* the turn that takes it ends whoever held it, in the same step; a turn   *)
(* ends once, in one of three ways, and gives its seat back as it ends.    *)
(***************************************************************************)
CONSTANTS Turn, Session, None

VARIABLES
    state,  \* "new", "running", or how the turn ended
    seat    \* the running foreground turn of each session

vars == <<state, seat>>

Ended == {"done", "error", "aborted"}

Init ==
    /\ state = [t \in Turn |-> "new"]
    /\ seat = [s \in Session |-> None]

\* The turns of ts, all running, end in the way o and leave their seats.
StateAfter(ts, o) == [t \in Turn |-> IF t \in ts THEN o ELSE state[t]]
SeatAfter(ts) == [s \in Session |-> IF seat[s] \in ts THEN None ELSE seat[s]]

End(ts, o) ==
    /\ \A t \in ts : state[t] = "running"
    /\ state' = StateAfter(ts, o)
    /\ seat' = SeatAfter(ts)

\* Background work runs without a seat.
Join(t) ==
    /\ state[t] = "new"
    /\ state' = [state EXCEPT ![t] = "running"]
    /\ UNCHANGED seat

\* A turn that was cancelled before it was accepted displaces nobody.
Refuse(t) ==
    /\ state[t] = "new"
    /\ state' = [state EXCEPT ![t] = "aborted"]
    /\ UNCHANGED seat

Holder(s) == {t \in Turn : seat[s] = t}

\* A foreground turn takes the seat of s; it may be cancelled while the turn it
\* displaces is told so, and then the seat stays empty.
Sit(t, s) ==
    /\ state[t] = "new"
    /\ state' = [StateAfter(Holder(s), "aborted") EXCEPT ![t] = "running"]
    /\ seat' = [SeatAfter(Holder(s)) EXCEPT ![s] = t]

SitCancelled(t, s) ==
    /\ state[t] = "new"
    /\ state' = [StateAfter(Holder(s), "aborted") EXCEPT ![t] = "aborted"]
    /\ seat' = SeatAfter(Holder(s))

Next ==
    \/ \E t \in Turn :
          \/ Join(t) \/ Refuse(t)
          \/ \E s \in Session : Sit(t, s) \/ SitCancelled(t, s)
    \/ \E ts \in SUBSET Turn, o \in Ended : End(ts, o)

Spec == Init /\ [][Next]_vars

\* Whoever sits is running, and sits once.
SeatsAreRunning ==
    \A s \in Session : seat[s] # None =>
        /\ state[seat[s]] = "running"
        /\ \A r \in Session : seat[r] = seat[s] => r = s
=============================================================================
