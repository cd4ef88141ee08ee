------------------------- MODULE MCTurnCoordinator -------------------------
(***************************************************************************)
(* Instances of TurnCoordinator for TLC.  A behavior explores one part:    *)
(* who owns the foreground when every lease is used and nothing is said    *)
(* that the budget allows, or what two turns of one session may say when   *)
(* nobody else is around.                                                  *)
(***************************************************************************)
EXTENDS TurnCoordinator, TLC

VARIABLE part  \* "owners" or "output"

partVars == <<vars, part>>

PartInit == Init /\ part \in {"owners", "output"}

\* No output reaches a sink; a turn may still fail over a clip that is too long.
NothingIsSaid ==
    /\ Emitted' = {}
    /\ \A l \in Lease : output'[l].text = 0 /\ output'[l].audio \in {0, MaxAudio + 1}

\* Two turns of one session, and no capture.
TwoTurns ==
    LET used == {l \in Lease : Accepted(l)'} IN
    /\ Cardinality(used) <= 2
    /\ \A l, m \in used : request'[l].session = request'[m].session
    /\ capture' = capture

PartNext ==
    /\ Next /\ UNCHANGED part
    /\ part = "owners" => NothingIsSaid
    /\ part = "output" => TwoTurns

PartSpec == PartInit /\ [][PartNext]_partVars

\* Leases, turn ids and sessions are interchangeable: the model only compares
\* them for equality.
Symmetry == Permutations(Lease) \cup Permutations(Session) \cup Permutations(TurnId)
=============================================================================
