---------------------------- MODULE MCNotifyPark ----------------------------
(***************************************************************************)
(* Small instances of the notification park.  Two notices meet any         *)
(* clients; a third is sent while at most one is connected at a time.      *)
(***************************************************************************)
EXTENDS NotifyPark, TLC

Few == Cardinality(clients) <= 1 \/ Cardinality({n \in Notice : stage[n] # "new"}) <= 2

ParkSpec == Init /\ [][Next /\ Few']_vars

\* Notices are interchangeable.
Symmetry == Permutations(Notice)
=============================================================================
