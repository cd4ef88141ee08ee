------------------------- MODULE WebTurnQueueProofs -------------------------
(***************************************************************************)
(* Proofs about WebTurnQueue, whatever the number of sockets, turns,       *)
(* speculations and jobs: the newest turn of a socket is the only one      *)
(* whose lease runs, every job is given back once, and stop() leaves       *)
(* nothing behind.                                                         *)
(*                                                                         *)
(* NewestTurnOwns is not inductive.  A handler that settles may leave the  *)
(* loop for the next turn only because its own lease has ended, which      *)
(* EndedFirst says of the time its speculation takes to go; and the turns  *)
(* a socket holds are its own, which OwnTurns says.                        *)
(*                                                                         *)
(* ChargesExact needs to know which sets the counters count (ChargeInv).   *)
(* The probes in flight are counted as the elements of AwaitedProbes, one  *)
(* at a time, because a sum over the sockets would need an induction.      *)
(* StopLeavesNothing needs both: stop() resolves when no job is charged,   *)
(* and by then every speculation was aborted (AbortedFirst).               *)
(***************************************************************************)
EXTENDS WebTurnQueue, FiniteSetTheorems, TLAPS

\* The types of what the invariant is about.
TurnTypes ==
    /\ lease \in [Turn -> {"new", "running", "done", "error", "aborted"}]
    /\ ownerOf \in [Turn -> Socket \cup {None}]
    /\ pending \in [Socket -> Turn \cup {None}]
    /\ current \in [Socket -> Turn \cup {None}]
    /\ loop \in [Socket -> {"idle", "clearing", "handling", "releasing"}]

\* A turn that waits or is served was admitted on that socket.
OwnTurns ==
    \A s \in Socket : \A t \in TurnsOf(s) : t \in Turn /\ ownerOf[t] = s /\ lease[t] # "new"

\* A loop that waits for its speculation to go has ended its turn, and a loop
\* that serves nothing has no turn.
EndedFirst ==
    \A s \in Socket :
        /\ loop[s] = "releasing" => current[s] # None /\ lease[current[s]] # "running"
        /\ loop[s] \in {"clearing", "handling"} => current[s] # None
        /\ loop[s] = "idle" => current[s] = None /\ pending[s] = None

\* A turn that runs was admitted by a socket.
Admitted == \A t \in Turn : lease[t] = "running" => ownerOf[t] \in Socket

IInv == TurnTypes /\ OwnTurns /\ EndedFirst /\ Admitted /\ NewestTurnOwns

-----------------------------------------------------------------------------

\* A step that ends leases and lets go of the turns that wait keeps it all.
LEMMA AbortsKeep ==
    ASSUME IInv, NEW S \in SUBSET Socket, NEW T \in SUBSET Turn,
           \A s \in S : pending[s] # None => pending[s] \in T,
           \A s \in S : current[s] # None /\ pending[s] # None /\ pending[s] \in T
                        => current[s] \in T \/ lease[current[s]] # "running",
           lease' = AbortedLeases(T),
           pending' = [s \in Socket |-> IF s \in S THEN None ELSE pending[s]],
           UNCHANGED <<ownerOf, current, loop>>
    PROVE  IInv'
<1> USE NoneAssumption DEF IInv, TurnTypes, AbortedLeases
<1>1. \A t \in Turn : lease'[t] = IF t \in T /\ lease[t] = "running" THEN "aborted" ELSE lease[t]
  OBVIOUS
<1>2. TurnTypes'
  OBVIOUS
<1>3. OwnTurns'
  BY <1>1 DEF OwnTurns, TurnsOf
<1>4. EndedFirst'
  BY <1>1 DEF EndedFirst
<1>5. Admitted'
  BY <1>1 DEF Admitted
<1>6. NewestTurnOwns'
  BY <1>1 DEF NewestTurnOwns, Admitted
<1> QED BY <1>2, <1>3, <1>4, <1>5, <1>6

\* A socket whose own turn has ended takes the turn that waits, or goes idle.
LEMMA EndTurnKeeps ==
    ASSUME IInv, NEW s \in Socket, Busy(s), lease[current[s]] # "running",
           EndTurn(s), UNCHANGED <<lease, ownerOf>>
    PROVE  IInv'
<1> USE NoneAssumption DEF IInv, TurnTypes
<1>1. CASE pending[s] # None
  <2>1. /\ current' = [current EXCEPT ![s] = pending[s]]
        /\ pending' = [pending EXCEPT ![s] = None]
        /\ \E l \in {"clearing", "handling"} : loop' = [loop EXCEPT ![s] = l]
    BY <1>1 DEF EndTurn, Take
  <2>2. TurnTypes' /\ OwnTurns'
    BY <1>1, <2>1 DEF OwnTurns, TurnsOf
  <2>3. EndedFirst' /\ Admitted'
    BY <1>1, <2>1 DEF EndedFirst, Admitted
  <2>4. NewestTurnOwns'
    BY <1>1, <2>1 DEF NewestTurnOwns, Admitted
  <2> QED BY <2>2, <2>3, <2>4
<1>2. CASE pending[s] = None
  <2>1. /\ current' = [current EXCEPT ![s] = None]
        /\ loop' = [loop EXCEPT ![s] = "idle"] /\ pending' = pending
    BY <1>2 DEF EndTurn
  <2>2. TurnTypes' /\ OwnTurns'
    BY <1>2, <2>1 DEF OwnTurns, TurnsOf
  <2>3. EndedFirst' /\ Admitted'
    BY <1>2, <2>1 DEF EndedFirst, Admitted
  <2>4. NewestTurnOwns'
    BY <1>2, <2>1 DEF NewestTurnOwns, Admitted
  <2> QED BY <2>2, <2>3, <2>4
<1> QED BY <1>1, <1>2

\* A new turn ends both turns of its socket, and no other.
LEMMA QueueTurnKeeps ==
    ASSUME IInv, NEW s \in Socket, NEW t \in Turn, QueueTurn(s, t)
    PROVE  IInv'
<1> USE NoneAssumption DEF IInv, TurnTypes
<1>1. /\ lease[t] = "new" /\ ownerOf' = [ownerOf EXCEPT ![t] = s]
      /\ lease' = [AbortedLeases(TurnsOf(s)) EXCEPT ![t] = "running"]
  BY DEF QueueTurn
<1>2. /\ t \notin TurnsOf(s)
      /\ \A r \in Socket : t # pending[r] /\ t # current[r]
  BY <1>1 DEF OwnTurns, TurnsOf
<1>3. \A u \in Turn : lease'[u] = IF u = t THEN "running"
                                  ELSE IF u \in TurnsOf(s) /\ lease[u] = "running"
                                       THEN "aborted" ELSE lease[u]
  BY <1>1 DEF AbortedLeases
<1>4. lease' \in [Turn -> {"new", "running", "done", "error", "aborted"}]
      /\ ownerOf' \in [Turn -> Socket \cup {None}]
  BY <1>1 DEF AbortedLeases
<1>5. Admitted'
  BY <1>1, <1>3 DEF Admitted
\* The turns that run after it on this socket: t alone.
<1>6. \A u \in Turn : lease'[u] = "running" /\ ownerOf'[u] = s => u = t
  BY <1>1, <1>3, <1>5 DEF NewestTurnOwns, TurnsOf
<1>7. \A u \in Turn : lease'[u] = "running" /\ u # t =>
          lease[u] = "running" /\ ownerOf'[u] = ownerOf[u] /\ ownerOf[u] # s /\ ownerOf[u] \in Socket
  BY <1>1, <1>3, <1>6, <1>5 DEF Admitted
<1>8. CASE Busy(s)
  <2>1. pending' = [pending EXCEPT ![s] = t] /\ UNCHANGED <<current, loop>>
    BY <1>8 DEF QueueTurn
  <2>2. TurnTypes'
    BY <1>4, <2>1
  <2>3. OwnTurns'
    <3> SUFFICES ASSUME NEW r \in Socket, NEW u \in TurnsOf(r)'
                 PROVE  u \in Turn /\ ownerOf'[u] = r /\ lease'[u] # "new"
      BY DEF OwnTurns
    <3>1. (u = t /\ r = s) \/ (u \in TurnsOf(r) /\ u # t)
      BY <1>2, <2>1 DEF TurnsOf
    <3>2. u \in TurnsOf(r) => u \in Turn /\ ownerOf[u] = r /\ lease[u] # "new"
      BY DEF OwnTurns
    <3> QED BY <1>1, <1>3, <3>1, <3>2
  <2>4. EndedFirst'
    BY <1>2, <1>3, <1>8, <2>1 DEF EndedFirst, Busy, OwnTurns, TurnsOf
  <2>5. NewestTurnOwns'
    BY <1>1, <1>7, <2>1 DEF NewestTurnOwns
  <2> QED BY <1>5, <2>2, <2>3, <2>4, <2>5
<1>9. CASE ~ Busy(s)
  <2>1. /\ current' = [current EXCEPT ![s] = t]
        /\ pending' = [pending EXCEPT ![s] = None]
        /\ \E l \in {"clearing", "handling"} : loop' = [loop EXCEPT ![s] = l]
    BY <1>9 DEF QueueTurn, Take
  <2>2. TurnTypes'
    BY <1>4, <2>1
  <2>3. OwnTurns'
    <3> SUFFICES ASSUME NEW r \in Socket, NEW u \in TurnsOf(r)'
                 PROVE  u \in Turn /\ ownerOf'[u] = r /\ lease'[u] # "new"
      BY DEF OwnTurns
    <3>1. (u = t /\ r = s) \/ (u \in TurnsOf(r) /\ u # t)
      BY <1>2, <2>1 DEF TurnsOf
    <3>2. u \in TurnsOf(r) => u \in Turn /\ ownerOf[u] = r /\ lease[u] # "new"
      BY DEF OwnTurns
    <3> QED BY <1>1, <1>3, <3>1, <3>2
  <2>4. EndedFirst'
    BY <1>2, <1>3, <1>9, <2>1 DEF EndedFirst, OwnTurns, TurnsOf
  <2>5. NewestTurnOwns'
    BY <1>1, <1>7, <2>1 DEF NewestTurnOwns
  <2> QED BY <1>5, <2>2, <2>3, <2>4, <2>5
<1> QED BY <1>8, <1>9

\* The end a handler reports is the end of the turn it was called for.
LEMMA OutcomeKeeps ==
    ASSUME IInv, NEW s \in Socket, NEW outcome \in {"done", "error"}, current[s] # None,
           lease' = IF lease[current[s]] = "running"
                    THEN [lease EXCEPT ![current[s]] = outcome] ELSE lease,
           UNCHANGED <<ownerOf, pending, current>>,
           \/ loop' = loop
           \/ loop' = [loop EXCEPT ![s] = "releasing"] /\ loop[s] = "handling"
    PROVE  IInv' /\ lease'[current[s]] # "running"
<1> USE NoneAssumption DEF IInv, TurnTypes
<1>1. /\ current[s] \in Turn
      /\ \A t \in Turn : lease'[t] # lease[t] => lease'[t] = outcome /\ lease[t] = "running"
      /\ lease'[current[s]] # "running"
  OBVIOUS
<1>2. TurnTypes'
  OBVIOUS
<1>3. OwnTurns'
  BY <1>1 DEF OwnTurns, TurnsOf
<1>4. EndedFirst'
  BY <1>1 DEF EndedFirst
<1>5. Admitted' /\ NewestTurnOwns'
  BY <1>1 DEF Admitted, NewestTurnOwns
<1> QED BY <1>1, <1>2, <1>3, <1>4, <1>5

\* A handler that settles ends its turn and then lets the next one run.
LEMMA SettlesKeeps ==
    ASSUME IInv, NEW s \in Socket, NEW outcome \in {"done", "error"}, HandlerSettles(s, outcome)
    PROVE  IInv'
<1> USE NoneAssumption DEF IInv, TurnTypes
<1>1. /\ lease' = IF lease[current[s]] = "running"
                   THEN [lease EXCEPT ![current[s]] = outcome] ELSE lease
      /\ ownerOf' = ownerOf /\ loop[s] = "handling" /\ current[s] # None
  BY DEF HandlerSettles, EndedFirst
<1>2. CASE handed[s] # None
  BY <1>1, <1>2, OutcomeKeeps DEF HandlerSettles
<1>3. CASE handed[s] = None /\ pending[s] # None
  <2>1. /\ current' = [current EXCEPT ![s] = pending[s]]
        /\ pending' = [pending EXCEPT ![s] = None]
        /\ \E l \in {"clearing", "handling"} : loop' = [loop EXCEPT ![s] = l]
    BY <1>3 DEF HandlerSettles, EndTurn, Take
  <2>2. TurnTypes'
    BY <1>1, <1>3, <2>1
  <2>3. OwnTurns'
    BY <1>1, <1>3, <2>1 DEF OwnTurns, TurnsOf
  <2>4. EndedFirst'
    BY <1>1, <1>3, <2>1 DEF EndedFirst, OwnTurns, TurnsOf
  <2>5. Admitted' /\ NewestTurnOwns'
    BY <1>1, <1>3, <2>1 DEF Admitted, NewestTurnOwns
  <2> QED BY <2>2, <2>3, <2>4, <2>5
<1>4. CASE handed[s] = None /\ pending[s] = None
  <2>1. /\ current' = [current EXCEPT ![s] = None]
        /\ loop' = [loop EXCEPT ![s] = "idle"] /\ pending' = pending
    BY <1>4 DEF HandlerSettles, EndTurn
  <2>2. TurnTypes'
    BY <1>1, <1>4, <2>1
  <2>3. OwnTurns'
    BY <1>1, <1>4, <2>1 DEF OwnTurns, TurnsOf
  <2>4. EndedFirst'
    BY <1>1, <1>4, <2>1 DEF EndedFirst, OwnTurns, TurnsOf
  <2>5. Admitted' /\ NewestTurnOwns'
    BY <1>1, <1>4, <2>1 DEF Admitted, NewestTurnOwns
  <2> QED BY <2>2, <2>3, <2>4, <2>5
<1> QED BY <1>2, <1>3, <1>4

\* Steps that leave the turns alone.
LEMMA QuietKeeps ==
    ASSUME IInv, UNCHANGED <<lease, ownerOf, pending, current, loop>>
    PROVE  IInv'
BY DEF IInv, TurnTypes, OwnTurns, EndedFirst, Admitted, NewestTurnOwns, TurnsOf

-----------------------------------------------------------------------------

\* Every step keeps the invariant: one case for every action of Next.
LEMMA NextKeeps == IInv /\ [Next]_vars => IInv'
<1> SUFFICES ASSUME IInv, [Next]_vars PROVE IInv'
  OBVIOUS
<1>1. ASSUME NEW s \in Socket, NEW t \in Turn, QueueTurn(s, t) PROVE IInv'
  BY <1>1, QueueTurnKeeps
<1>2. ASSUME NEW s \in Socket, NEW t \in Turn, ClientAborts(s, t) PROVE IInv'
  <2> DEFINE S == IF pending[s] = t THEN {s} ELSE {}
  <2>1. ASSUME NEW r \in S, current[r] # None, pending[r] = t
        PROVE  current[r] \in {t} \/ lease[current[r]] # "running"
    <3>1. r \in Socket /\ current[r] \in Turn /\ ownerOf[current[r]] = r /\ pending[r] # None
      BY <2>1, NoneAssumption DEF IInv, TurnTypes, OwnTurns, TurnsOf
    <3> QED BY <2>1, <3>1 DEF IInv, NewestTurnOwns
  <2>2. pending' = [r \in Socket |-> IF r \in S THEN None ELSE pending[r]]
    BY <1>2 DEF ClientAborts, IInv, TurnTypes
  <2>3. lease' = AbortedLeases({t}) /\ UNCHANGED <<ownerOf, current, loop>>
    BY <1>2 DEF ClientAborts
  <2>4. S \in SUBSET Socket /\ {t} \in SUBSET Turn /\ \A r \in S : pending[r] \in {t}
    OBVIOUS
  <2> HIDE DEF S
  <2> QED BY <2>1, <2>2, <2>3, <2>4, AbortsKeep
<1>3. ASSUME NEW s \in Socket, NEW o \in {"done", "error"}, HandlerReports(s, o) PROVE IInv'
  BY <1>3, OutcomeKeeps DEF HandlerReports, IInv, EndedFirst
<1>4. ASSUME NEW s \in Socket, NEW o \in {"done", "error"}, HandlerSettles(s, o) PROVE IInv'
  BY <1>4, SettlesKeeps
<1>5. ASSUME NEW s \in Socket, Cleared(s) PROVE IInv'
  BY <1>5 DEF Cleared, IInv, TurnTypes, OwnTurns, EndedFirst, Admitted, NewestTurnOwns, TurnsOf
<1>6. ASSUME NEW s \in Socket, Released(s) PROVE IInv'
  BY <1>6, EndTurnKeeps DEF Released, IInv, EndedFirst, Busy
<1>7. ASSUME NEW s \in Socket,
             \/ HandlerDeclines(s) \/ ProbeStarts(s) \/ ProbeRefuses(s) \/ SpeculatesNothing(s)
             \/ BackgroundStarts(s) \/ \E p \in Speculation : Speculates(s, p)
      PROVE  IInv'
  BY <1>7, QuietKeeps DEF HandlerDeclines, ProbeStarts, ProbeRefuses, SpeculatesNothing,
                          BackgroundStarts, Speculates, turnVars
<1>8. ASSUME NEW s \in Socket, Close(s) PROVE IInv'
  <2> DEFINE S == {s}
             T == TurnsOf(s)
  <2>1. S \in SUBSET Socket /\ T \in SUBSET Turn
    BY NoneAssumption DEF TurnsOf, IInv, TurnTypes
  <2>2. pending' = [r \in Socket |-> IF r \in S THEN None ELSE pending[r]]
    BY <1>8 DEF Close, IInv, TurnTypes
  <2>3. \A r \in S : pending[r] # None => pending[r] \in T
    BY DEF TurnsOf
  <2>4. \A r \in S : current[r] # None => current[r] \in T
    BY DEF TurnsOf
  <2>5. lease' = AbortedLeases(T) /\ UNCHANGED <<ownerOf, current, loop>>
    BY <1>8 DEF Close
  <2> HIDE DEF S, T
  <2> QED BY <2>1, <2>2, <2>3, <2>4, <2>5, AbortsKeep
<1>9. ASSUME NEW p \in Speculation, NEW ok \in BOOLEAN, SpecCloses(p, ok) \/ SpecAborted(p, ok)
      PROVE  IInv'
  BY <1>9, QuietKeeps DEF SpecCloses, SpecAborted, turnVars
<1>10. CASE RequestStarts \/ RequestEnds \/ BackgroundEnds \/ StopResolves \/ StopRejects
  BY <1>10, QuietKeeps DEF RequestStarts, RequestEnds, BackgroundEnds, StopResolves,
                           StopRejects, turnVars
<1>11. CASE StopBegins
  <2>1. \A s \in Socket : /\ pending[s] # None => pending[s] \in Turn
                          /\ current[s] # None => current[s] \in Turn
    BY DEF IInv, TurnTypes
  <2>2. /\ lease' = AbortedLeases(Turn) /\ UNCHANGED <<ownerOf, current, loop>>
        /\ pending' = [s \in Socket |-> IF s \in Socket THEN None ELSE pending[s]]
    BY <1>11 DEF StopBegins
  <2> QED BY <2>1, <2>2, AbortsKeep
<1>12. CASE UNCHANGED vars
  BY <1>12, QuietKeeps DEF vars
<1> QED BY <1>1, <1>2, <1>3, <1>4, <1>5, <1>6, <1>7, <1>8, <1>9, <1>10, <1>11, <1>12 DEF Next

\* A server begins in it.
LEMMA InitKeeps == Init => IInv
BY NoneAssumption
   DEF Init, IInv, TurnTypes, OwnTurns, EndedFirst, Admitted, NewestTurnOwns, TurnsOf

\* The newest turn of a socket is the only one that runs, and the socket can
\* reach it to end it: queueTurn(), close(), stop() and an abort miss none.
THEOREM NewestTurnAlwaysOwns == Spec => []NewestTurnOwns
<1>1. IInv => NewestTurnOwns
  BY DEF IInv
<1> QED BY <1>1, InitKeeps, NextKeeps, PTL DEF Spec

\* A browser has one turn that runs.
OneTurnPerSocket ==
    \A t, u \in Turn : lease[t] = "running" /\ lease[u] = "running" /\ ownerOf[t] = ownerOf[u]
                     => t = u

\* Two turns of a browser never run at once, so that a superseded handler that
\* winds down cannot speak over the new one.
THEOREM OneTurnAtATime == Spec => []OneTurnPerSocket
<1>1. NewestTurnOwns => OneTurnPerSocket
  BY DEF NewestTurnOwns, OneTurnPerSocket
<1> QED BY <1>1, NewestTurnAlwaysOwns, PTL

-----------------------------------------------------------------------------
(* What is charged. *)

BusySockets == {s \in Socket : Busy(s)}

\* The types of what the charges are about.
ChargeTypes ==
    /\ loop \in [Socket -> {"idle", "clearing", "handling", "releasing"}]
    /\ specOf \in [Socket -> Speculation \cup {None}]
    /\ handed \in [Socket -> Speculation \cup {None}]
    /\ spec \in [Speculation -> Live \cup {"new", "gone"}]
    /\ probes \in [Socket -> Nat] /\ requests \in Nat /\ background \in Nat
    /\ jobs \in Nat
    /\ accepting \in BOOLEAN /\ stop \in {"no", "draining", "failed", "done"}
    /\ sockets \subseteq Socket

\* A speculation that a socket or a loop holds has been started.
HeldStarted ==
    \A s \in Socket : /\ specOf[s] # None => spec[specOf[s]] # "new"
                      /\ handed[s] # None => spec[handed[s]] # "new"

ChargeInv ==
    /\ ChargeTypes /\ HeldStarted
    /\ IsFiniteSet(AwaitedProbes) /\ ChargesExact

\* A probe more, and a probe less.
LEMMA ProbeCount ==
    ASSUME ChargeTypes, NEW s \in Socket, IsFiniteSet(AwaitedProbes)
    PROVE  /\ probes' = [probes EXCEPT ![s] = @ + 1] =>
                 /\ IsFiniteSet(AwaitedProbes')
                 /\ Cardinality(AwaitedProbes') = Cardinality(AwaitedProbes) + 1
           /\ probes[s] > 0 /\ probes' = [probes EXCEPT ![s] = @ - 1] =>
                 /\ IsFiniteSet(AwaitedProbes')
                 /\ Cardinality(AwaitedProbes') = Cardinality(AwaitedProbes) - 1
                 /\ Cardinality(AwaitedProbes) > 0
<1> USE DEF ChargeTypes
<1>1. \A x : x \in AwaitedProbes <=> \E r \in Socket : \E i \in 1..probes[r] : x = <<r, i>>
  BY DEF AwaitedProbes
<1>2. \A x : x \in AwaitedProbes' <=> \E r \in Socket : \E i \in 1..probes'[r] : x = <<r, i>>
  BY DEF AwaitedProbes
<1>3. ASSUME probes' = [probes EXCEPT ![s] = @ + 1]
      PROVE  /\ IsFiniteSet(AwaitedProbes')
             /\ Cardinality(AwaitedProbes') = Cardinality(AwaitedProbes) + 1
  <2> DEFINE new == <<s, probes[s] + 1>>
  <2>1. new \notin AwaitedProbes
    BY <1>1
  <2>2. AwaitedProbes' = AwaitedProbes \cup {new}
    <3>1. \A r \in Socket, i \in Int :
             i \in 1..probes'[r] <=> i \in 1..probes[r] \/ (r = s /\ i = probes[s] + 1)
      BY <1>3
    <3> QED BY <1>1, <1>2, <3>1
  <2> QED BY <2>1, <2>2, FS_AddElement
<1>4. ASSUME probes[s] > 0, probes' = [probes EXCEPT ![s] = @ - 1]
      PROVE  /\ IsFiniteSet(AwaitedProbes')
             /\ Cardinality(AwaitedProbes') = Cardinality(AwaitedProbes) - 1
             /\ Cardinality(AwaitedProbes) > 0
  <2> DEFINE old == <<s, probes[s]>>
  <2>1. old \in AwaitedProbes
    BY <1>1, <1>4
  <2>2. AwaitedProbes' = AwaitedProbes \ {old}
    <3>1. \A r \in Socket, i \in Int :
             i \in 1..probes'[r] <=> i \in 1..probes[r] /\ ~(r = s /\ i = probes[s])
      BY <1>4
    <3> QED BY <1>1, <1>2, <3>1
  <2>3. Cardinality(AwaitedProbes) \in Nat /\ Cardinality(AwaitedProbes) # 0
    BY <2>1, FS_CardinalityType, FS_EmptySet
  <2> QED BY <2>1, <2>2, <2>3, FS_RemoveElement
<1> QED BY <1>3, <1>4

\* Aborting speculations that were started leaves them charged until they go.
LEMMA AbortsStayCharged ==
    ASSUME ChargeTypes, NEW ps, \A p \in ps \cap Speculation : spec[p] # "new",
           spec' = AbortedSpecs(ps)
    PROVE  /\ spec' \in [Speculation -> Live \cup {"new", "gone"}]
           /\ LiveSpecs' = LiveSpecs
           /\ \A p \in Speculation : spec[p] = "new" <=> spec'[p] = "new"
BY DEF ChargeTypes, AbortedSpecs, LiveSpecs, Live

\* A socket that takes a turn hands over its speculation, or aborts it.
LEMMA TakeCharges ==
    ASSUME ChargeTypes, HeldStarted, NEW s \in Socket, NEW t, NEW adopt \in BOOLEAN,
           Take(s, t, adopt)
    PROVE  /\ spec' \in [Speculation -> Live \cup {"new", "gone"}]
           /\ specOf' \in [Socket -> Speculation \cup {None}]
           /\ handed' \in [Socket -> Speculation \cup {None}]
           /\ loop' \in [Socket -> {"idle", "clearing", "handling", "releasing"}]
           /\ BusySockets' = BusySockets \cup {s}
           /\ LiveSpecs' = LiveSpecs /\ HeldStarted'
<1> USE NoneAssumption DEF ChargeTypes
<1>1. /\ specOf' = [specOf EXCEPT ![s] = None] /\ handed' = [handed EXCEPT ![s] = specOf[s]]
      /\ \E l \in {"handling", "clearing"} : loop' = [loop EXCEPT ![s] = l]
      /\ spec' = spec \/ spec' = AbortedSpecs({specOf[s]})
  BY DEF Take
<1>2. /\ spec' \in [Speculation -> Live \cup {"new", "gone"}] /\ LiveSpecs' = LiveSpecs
      /\ \A p \in Speculation : spec[p] = "new" <=> spec'[p] = "new"
  <2>1. CASE spec' = spec
    BY <2>1 DEF LiveSpecs
  <2>2. CASE spec' = AbortedSpecs({specOf[s]})
    BY <2>2, AbortsStayCharged DEF HeldStarted
  <2> QED BY <1>1, <2>1, <2>2
<1>3. HeldStarted'
  BY <1>1, <1>2 DEF HeldStarted
<1>4. BusySockets' = BusySockets \cup {s}
  BY <1>1 DEF BusySockets, Busy
<1> QED BY <1>1, <1>2, <1>3, <1>4

\* Cardinalities that the charges are made of.
LEMMA ChargeCounts ==
    ASSUME ChargeTypes
    PROVE  /\ IsFiniteSet(BusySockets) /\ Cardinality(BusySockets) \in Nat
           /\ IsFiniteSet(LiveSpecs) /\ Cardinality(LiveSpecs) \in Nat
           /\ IsFiniteSet(AwaitedProbes) => Cardinality(AwaitedProbes) \in Nat
BY SetAssumption, FS_Subset, FS_CardinalityType DEF BusySockets, LiveSpecs

\* The charges as a sum of numbers, and the limit they keep.
LEMMA ChargeSum ==
    ASSUME ChargeInv
    PROVE  /\ jobs = Cardinality(BusySockets) + requests + Cardinality(AwaitedProbes)
           /\ jobs + Cardinality(LiveSpecs) <= MaxJobs + 1
           /\ jobs \in Nat /\ requests \in Nat /\ background \in Nat /\ MaxJobs \in Nat
           /\ Cardinality(BusySockets) \in Nat /\ Cardinality(AwaitedProbes) \in Nat
           /\ Cardinality(LiveSpecs) \in Nat
<1>1. jobs = Cardinality(BusySockets) + requests + Cardinality(AwaitedProbes)
  BY DEF ChargeInv, ChargesExact, ChargedOnce, BusySockets
<1> QED BY <1>1, ChargeCounts, LimitAssumption
           DEF ChargeInv, ChargesExact, AdmissionBound, ChargeTypes

\* Nothing is charged anew and nothing given back.
LEMMA QuietCharges ==
    ASSUME ChargeInv, ChargeTypes', HeldStarted', BusySockets' = BusySockets,
           UNCHANGED <<probes, requests, jobs>>, LiveSpecs' \subseteq LiveSpecs
    PROVE  ChargeInv'
<1>1. AwaitedProbes' = AwaitedProbes
  BY DEF AwaitedProbes
<1>2. Cardinality(LiveSpecs') <= Cardinality(LiveSpecs) /\ Cardinality(LiveSpecs') \in Nat
  BY ChargeCounts, FS_Subset, FS_CardinalityType DEF ChargeInv
<1>3. ChargedOnce'
  BY <1>1 DEF ChargeInv, ChargesExact, ChargedOnce, BusySockets
<1>4. AdmissionBound'
  BY <1>2, ChargeCounts, LimitAssumption DEF ChargeInv, ChargeTypes, ChargesExact, AdmissionBound
<1> QED BY <1>1, <1>3, <1>4 DEF ChargeInv, ChargesExact

\* A loop that is through serves the turn that waits or gives its job back.
LEMMA EndTurnCharges ==
    ASSUME ChargeInv, NEW s \in Socket, Busy(s), EndTurn(s),
           UNCHANGED <<probes, requests, background, accepting, stop, sockets>>
    PROVE  ChargeInv'
<1> USE DEF ChargeInv
<1>1. CASE pending[s] # None
  <2>1. PICK adopt \in BOOLEAN : Take(s, pending[s], adopt)
    BY <1>1 DEF EndTurn
  <2>2. jobs' = jobs /\ BusySockets' = BusySockets
    BY <1>1, <2>1, TakeCharges DEF EndTurn, BusySockets
  <2>3. ChargeTypes' /\ HeldStarted' /\ LiveSpecs' = LiveSpecs
    BY <2>1, <2>2, TakeCharges DEF ChargeTypes
  <2> QED BY <2>2, <2>3, QuietCharges
<1>2. CASE pending[s] = None
  <2>1. /\ loop' = [loop EXCEPT ![s] = "idle"] /\ handed' = [handed EXCEPT ![s] = None]
        /\ jobs' = jobs - 1 /\ UNCHANGED <<specOf, spec>>
    BY <1>2 DEF EndTurn, specVars
  <2>2. BusySockets' = BusySockets \ {s} /\ s \in BusySockets
    BY <2>1 DEF ChargeTypes, BusySockets, Busy
  <2>3. Cardinality(BusySockets') = Cardinality(BusySockets) - 1 /\ Cardinality(BusySockets) > 0
    BY <2>2, ChargeCounts, FS_RemoveElement, FS_EmptySet
  <2>4. AwaitedProbes' = AwaitedProbes /\ LiveSpecs' = LiveSpecs
    BY <2>1 DEF AwaitedProbes, LiveSpecs
  <2>5. jobs > 0 /\ ChargedOnce'
    BY <2>1, <2>3, <2>4, ChargeCounts DEF ChargesExact, ChargedOnce, BusySockets, ChargeTypes
  <2>6. ChargeTypes'
    BY <2>1, <2>5 DEF ChargeTypes
  <2>7. HeldStarted'
    BY <2>1 DEF ChargeTypes, HeldStarted
  <2>8. AdmissionBound'
    BY <2>1, <2>4, ChargeCounts, LimitAssumption DEF ChargesExact, AdmissionBound, ChargeTypes
  <2> QED BY <2>4, <2>5, <2>6, <2>7, <2>8 DEF ChargesExact
<1> QED BY <1>1, <1>2

\* A turn takes a job of its own, and at most the slot of its speculation.
LEMMA QueueTurnCharges ==
    ASSUME ChargeInv, NEW s \in Socket, NEW t \in Turn, QueueTurn(s, t)
    PROVE  ChargeInv'
<1> USE DEF ChargeInv
<1>1. UNCHANGED <<probes, requests, background, accepting, stop, sockets>>
  BY DEF QueueTurn, countVars, serverVars
<1>2. CASE Busy(s)
  <2>1. UNCHANGED <<loop, handed, specOf, spec, jobs>>
    BY <1>2 DEF QueueTurn, specVars
  <2>2. ChargeTypes' /\ HeldStarted' /\ BusySockets' = BusySockets /\ LiveSpecs' = LiveSpecs
    BY <1>1, <2>1 DEF ChargeTypes, HeldStarted, BusySockets, Busy, LiveSpecs
  <2> QED BY <1>1, <2>1, <2>2, QuietCharges
<1>3. CASE ~Busy(s)
  <2> DEFINE transferred == IF specOf[s] \in LiveSpecs THEN 1 ELSE 0
  <2>1. JobFree(transferred) /\ jobs' = jobs + 1
    BY <1>3 DEF QueueTurn
  <2>2. PICK adopt \in BOOLEAN : Take(s, t, adopt)
    BY <1>3 DEF QueueTurn
  <2>3. ChargeTypes' /\ HeldStarted' /\ LiveSpecs' = LiveSpecs
        /\ BusySockets' = BusySockets \cup {s}
    BY <1>1, <2>1, <2>2, TakeCharges DEF ChargeTypes
  <2>4. s \notin BusySockets
    BY <1>3 DEF BusySockets
  <2>5. Cardinality(BusySockets') = Cardinality(BusySockets) + 1
    BY <2>3, <2>4, ChargeCounts, FS_AddElement
  <2>6. AwaitedProbes' = AwaitedProbes
    BY <1>1 DEF AwaitedProbes
  <2>7. ChargedOnce'
    BY <1>1, <2>1, <2>5, <2>6, ChargeCounts
       DEF ChargesExact, ChargedOnce, BusySockets, ChargeTypes
  <2>8. AdmissionBound'
    <3>1. jobs + background + Cardinality(LiveSpecs) - transferred < MaxJobs
      BY <2>1, ChargeSum DEF JobFree, OwnedWork
    <3>2. transferred \in {0, 1}
      OBVIOUS
    <3> HIDE DEF transferred
    <3> QED BY <2>1, <2>3, <3>1, <3>2, ChargeSum DEF AdmissionBound
  <2> QED BY <2>3, <2>6, <2>7, <2>8 DEF ChargesExact
<1> QED BY <1>2, <1>3

\* A job that ends with the verdict of its probe; a speculation takes its slot.
LEMMA ProbeCharges ==
    ASSUME ChargeInv, NEW s \in Socket,
           \/ ProbeRefuses(s) \/ SpeculatesNothing(s)
           \/ \E p \in Speculation : Speculates(s, p)
    PROVE  ChargeInv'
<1> USE NoneAssumption DEF ChargeInv
<1>1. /\ probes[s] > 0 /\ jobs' = jobs - 1 /\ probes' = [probes EXCEPT ![s] = @ - 1]
      /\ UNCHANGED <<requests, background, accepting, stop, sockets, loop, handed>>
  BY DEF ProbeRefuses, SpeculatesNothing, Speculates, ProbeEnds, serverVars, turnVars
<1>2. /\ IsFiniteSet(AwaitedProbes')
      /\ Cardinality(AwaitedProbes') = Cardinality(AwaitedProbes) - 1
      /\ Cardinality(AwaitedProbes) > 0
  BY <1>1, ProbeCount
<1>3. BusySockets' = BusySockets
  BY <1>1 DEF BusySockets, Busy
<1>4. jobs > 0 /\ jobs' = Cardinality(BusySockets') + requests' + Cardinality(AwaitedProbes')
  BY <1>1, <1>2, <1>3, ChargeSum
<1> DEFINE SpecsStayHeld ==
      /\ spec' \in [Speculation -> Live \cup {"new", "gone"}]
      /\ specOf' \in [Socket -> Speculation \cup {None}] /\ HeldStarted'
      /\ Cardinality(LiveSpecs') <= Cardinality(LiveSpecs) + 1
<1>5. SpecsStayHeld
  <2>1. CASE ProbeRefuses(s)
    BY <1>1, <2>1, ChargeCounts DEF ProbeRefuses, specVars, ChargeTypes, HeldStarted, LiveSpecs
  <2>2. CASE SpeculatesNothing(s)
    <3>1. specOf' = [specOf EXCEPT ![s] = None] /\ spec' = AbortedSpecs({specOf[s]})
      BY <2>2 DEF SpeculatesNothing
    <3>2. /\ spec' \in [Speculation -> Live \cup {"new", "gone"}] /\ LiveSpecs' = LiveSpecs
          /\ \A p \in Speculation : spec[p] = "new" <=> spec'[p] = "new"
      BY <3>1, AbortsStayCharged DEF HeldStarted
    <3>3. specOf' \in [Socket -> Speculation \cup {None}] /\ HeldStarted'
      BY <1>1, <3>1, <3>2 DEF ChargeTypes, HeldStarted
    <3> QED BY <3>2, <3>3, ChargeSum
  <2>3. ASSUME NEW p \in Speculation, Speculates(s, p)
        PROVE  SpecsStayHeld
    <3>1. /\ spec[p] = "new" /\ specOf' = [specOf EXCEPT ![s] = p]
          /\ spec' = [AbortedSpecs({specOf[s]}) EXCEPT ![p] = "live"]
      BY <2>3 DEF Speculates
    <3>2. /\ spec' \in [Speculation -> Live \cup {"new", "gone"}]
          /\ LiveSpecs' = LiveSpecs \cup {p}
          /\ \A q \in Speculation : spec'[q] = "new" => spec[q] = "new" /\ q # p
      BY <3>1 DEF ChargeTypes, HeldStarted, AbortedSpecs, LiveSpecs, Live
    <3>3. Cardinality(LiveSpecs') <= Cardinality(LiveSpecs) + 1
      <4>1. IsFiniteSet(LiveSpecs) /\ Cardinality(LiveSpecs) \in Nat
        BY ChargeCounts
      <4>2. p \notin LiveSpecs
        BY <3>1 DEF LiveSpecs, Live
      <4>3. Cardinality(LiveSpecs \cup {p}) = Cardinality(LiveSpecs) + 1
        BY <4>1, <4>2, FS_AddElement
      <4> QED BY <3>2, <4>1, <4>3
    <3>4. specOf' \in [Socket -> Speculation \cup {None}] /\ HeldStarted'
      BY ZenonT(60), <1>1, <3>1, <3>2 DEF ChargeTypes, HeldStarted
    <3> QED BY <3>2, <3>3, <3>4
  <2> QED BY <2>1, <2>2, <2>3
<1>6. ChargeTypes'
  <2>1. jobs' \in Nat /\ probes' \in [Socket -> Nat] /\ requests' \in Nat
    BY <1>1, <1>4 DEF ChargeTypes
  <2> QED BY <1>1, <1>5, <2>1 DEF ChargeTypes
<1>7. Cardinality(LiveSpecs') \in Nat
  BY <1>6, SetAssumption, FS_Subset, FS_CardinalityType DEF LiveSpecs
<1>8. jobs' + Cardinality(LiveSpecs') <= MaxJobs + 1
  BY <1>1, <1>4, <1>5, <1>7, ChargeSum
<1> QED BY <1>2, <1>4, <1>5, <1>6, <1>8
        DEF ChargesExact, ChargedOnce, AdmissionBound, BusySockets

\* A probe or a request takes a job that is free.
LEMMA JobStartCharges ==
    ASSUME ChargeInv,
           RequestStarts \/ RequestEnds \/ \E s \in Socket : ProbeStarts(s)
    PROVE  ChargeInv'
<1> USE DEF ChargeInv
<1>1. UNCHANGED <<background, accepting, stop, sockets, loop, specOf, handed, spec>>
  BY DEF RequestStarts, RequestEnds, ProbeStarts, serverVars, turnVars, specVars
<1>2. BusySockets' = BusySockets /\ LiveSpecs' = LiveSpecs /\ HeldStarted'
  BY <1>1 DEF BusySockets, Busy, LiveSpecs, HeldStarted
<1>3. ASSUME jobs' = jobs + 1, JobFree(0) PROVE AdmissionBound'
  BY <1>2, <1>3, ChargeCounts, LimitAssumption
     DEF JobFree, OwnedWork, AdmissionBound, ChargeTypes
<1>4. CASE RequestStarts
  <2>1. jobs' = jobs + 1 /\ requests' = requests + 1 /\ JobFree(0) /\ probes' = probes
    BY <1>4 DEF RequestStarts
  <2>2. AwaitedProbes' = AwaitedProbes
    BY <2>1 DEF AwaitedProbes
  <2>3. ChargedOnce'
    BY <1>2, <2>1, <2>2, ChargeCounts DEF ChargesExact, ChargedOnce, BusySockets, ChargeTypes
  <2>4. ChargeTypes'
    BY <1>1, <2>1 DEF ChargeTypes
  <2> QED BY <1>2, <1>3, <2>1, <2>2, <2>3, <2>4 DEF ChargesExact
<1>5. CASE RequestEnds
  <2>1. jobs' = jobs - 1 /\ requests > 0 /\ requests' = requests - 1 /\ probes' = probes
    BY <1>5 DEF RequestEnds
  <2>2. AwaitedProbes' = AwaitedProbes
    BY <2>1 DEF AwaitedProbes
  <2>3. jobs > 0 /\ ChargedOnce'
    BY <1>2, <2>1, <2>2, ChargeCounts DEF ChargesExact, ChargedOnce, BusySockets, ChargeTypes
  <2>4. ChargeTypes'
    BY <1>1, <2>1, <2>3 DEF ChargeTypes
  <2>5. AdmissionBound'
    BY <1>2, <2>1, ChargeCounts, LimitAssumption DEF ChargesExact, AdmissionBound, ChargeTypes
  <2> QED BY <1>2, <2>2, <2>3, <2>4, <2>5 DEF ChargesExact
<1>6. ASSUME NEW s \in Socket, ProbeStarts(s) PROVE ChargeInv'
  <2>1. /\ jobs' = jobs + 1 /\ JobFree(0) /\ requests' = requests
        /\ probes' = [probes EXCEPT ![s] = @ + 1]
    BY <1>6 DEF ProbeStarts
  <2>2. IsFiniteSet(AwaitedProbes') /\ Cardinality(AwaitedProbes') = Cardinality(AwaitedProbes) + 1
    BY <2>1, ProbeCount
  <2>3. ChargedOnce'
    BY SMTT(30), <1>2, <2>1, <2>2, ChargeCounts DEF ChargesExact, ChargedOnce, BusySockets, ChargeTypes
  <2>4. ChargeTypes'
    BY <1>1, <2>1 DEF ChargeTypes
  <2> QED BY <1>2, <1>3, <2>1, <2>2, <2>3, <2>4 DEF ChargesExact
<1> QED BY <1>4, <1>5, <1>6

\* Every step keeps the charges exact: one case for every action of Next.
LEMMA ChargeStep == ChargeInv /\ [Next]_vars => ChargeInv'
<1> SUFFICES ASSUME ChargeInv, [Next]_vars PROVE ChargeInv'
  OBVIOUS
<1>1. ASSUME NEW s \in Socket, NEW t \in Turn, QueueTurn(s, t) PROVE ChargeInv'
  BY <1>1, QueueTurnCharges
<1>2. ASSUME NEW s \in Socket, NEW o \in {"done", "error"}, HandlerSettles(s, o) PROVE ChargeInv'
  <2>1. Busy(s) /\ UNCHANGED <<probes, requests, background, accepting, stop, sockets>>
    BY <1>2 DEF HandlerSettles, Busy, serverVars, countVars
  <2>2. CASE handed[s] = None
    BY <1>2, <2>1, <2>2, EndTurnCharges DEF HandlerSettles
  <2>3. CASE handed[s] # None
    <3>1. /\ loop' = [loop EXCEPT ![s] = "releasing"] /\ spec' = AbortedSpecs({handed[s]})
          /\ UNCHANGED <<handed, specOf, jobs>>
      BY <1>2, <2>3 DEF HandlerSettles
    <3>2. /\ spec' \in [Speculation -> Live \cup {"new", "gone"}] /\ LiveSpecs' = LiveSpecs
          /\ \A p \in Speculation : spec[p] = "new" <=> spec'[p] = "new"
      BY <2>3, <3>1, AbortsStayCharged DEF ChargeInv, HeldStarted
    <3>3. ChargeTypes' /\ HeldStarted' /\ BusySockets' = BusySockets
      BY SMTT(30), <2>1, <3>1, <3>2, NoneAssumption
         DEF ChargeInv, ChargeTypes, HeldStarted, BusySockets, Busy
    <3> QED BY <2>1, <3>1, <3>2, <3>3, QuietCharges
  <2> QED BY <2>2, <2>3
<1>3. ASSUME NEW s \in Socket, Released(s) PROVE ChargeInv'
  BY <1>3, EndTurnCharges DEF Released, Busy, serverVars, countVars
<1>4. ASSUME NEW s \in Socket,
             \/ ProbeRefuses(s) \/ SpeculatesNothing(s)
             \/ \E p \in Speculation : Speculates(s, p)
      PROVE  ChargeInv'
  BY <1>4, ProbeCharges
<1>5. ASSUME RequestStarts \/ RequestEnds \/ \E s \in Socket : ProbeStarts(s) PROVE ChargeInv'
  BY <1>5, JobStartCharges
\* Speculations are aborted, and nothing else is charged or given back.
<1>6. ASSUME NEW ps, \A p \in ps \cap Speculation : spec[p] # "new",
             spec' = AbortedSpecs(ps), UNCHANGED <<loop, handed, jobs, probes, requests, background>>,
             \A s \in Socket : specOf'[s] \in {specOf[s], None},
             specOf' \in [Socket -> Speculation \cup {None}],
             stop' \in {"no", "draining", "failed", "done"}, accepting' \in BOOLEAN,
             sockets' \subseteq Socket
      PROVE  ChargeInv'
  <2>1. /\ spec' \in [Speculation -> Live \cup {"new", "gone"}] /\ LiveSpecs' = LiveSpecs
        /\ \A p \in Speculation : spec[p] = "new" <=> spec'[p] = "new"
    BY <1>6, AbortsStayCharged DEF ChargeInv
  <2>2. ChargeTypes'
    BY <1>6, <2>1 DEF ChargeInv, ChargeTypes
  <2>3. HeldStarted' /\ BusySockets' = BusySockets
    BY <1>6, <2>1, NoneAssumption DEF ChargeInv, ChargeTypes, HeldStarted, BusySockets, Busy
  <2> QED BY <1>6, <2>1, <2>2, <2>3, QuietCharges
<1>7. ASSUME NEW s \in Socket, HandlerDeclines(s) PROVE ChargeInv'
  <2>1. \A p \in {handed[s]} \cap Speculation : spec[p] # "new"
    BY NoneAssumption DEF ChargeInv, HeldStarted
  <2> QED BY <1>7, <2>1, <1>6
             DEF HandlerDeclines, serverVars, countVars, turnVars, ChargeInv, ChargeTypes
<1>8. ASSUME NEW s \in Socket, Close(s) PROVE ChargeInv'
  <2>1. \A p \in {specOf[s]} \cap Speculation : spec[p] # "new"
    BY NoneAssumption DEF ChargeInv, HeldStarted
  <2>2. specOf' = [specOf EXCEPT ![s] = None] /\ spec' = AbortedSpecs({specOf[s]})
        /\ sockets' = sockets \ {s}
        /\ UNCHANGED <<loop, handed, jobs, probes, requests, background, stop, accepting>>
    BY <1>8 DEF Close, countVars
  <2> QED BY <2>1, <2>2, <1>6 DEF ChargeInv, ChargeTypes
<1>9. CASE StopBegins
  <2>1. \A p \in LiveSpecs \cap Speculation : spec[p] # "new"
    BY DEF LiveSpecs, Live
  <2>2. specOf' = [s \in Socket |-> None] /\ spec' = AbortedSpecs(LiveSpecs)
        /\ sockets' \subseteq sockets /\ stop' = "draining" /\ accepting' = FALSE
        /\ UNCHANGED <<loop, handed, jobs, probes, requests, background>>
    BY <1>9 DEF StopBegins, countVars
  <2> QED BY <2>1, <2>2, <1>6 DEF ChargeInv, ChargeTypes
<1>10. ASSUME NEW p \in Speculation, NEW ok \in BOOLEAN, SpecCloses(p, ok) \/ SpecAborted(p, ok)
       PROVE  ChargeInv'
  <2>1. /\ spec[p] \in Live /\ UNCHANGED <<loop, handed, specOf, jobs, probes, requests>>
        /\ UNCHANGED <<background, stop, accepting, sockets>>
        /\ \E x \in {"gone", "uncertain"} : spec' = [spec EXCEPT ![p] = x]
    BY <1>10 DEF SpecCloses, SpecAborted, turnVars, serverVars, countVars, Live
  <2>2. ChargeTypes' /\ HeldStarted' /\ BusySockets' = BusySockets /\ LiveSpecs' \subseteq LiveSpecs
    BY <2>1, NoneAssumption
       DEF ChargeInv, ChargeTypes, HeldStarted, BusySockets, Busy, LiveSpecs, Live
  <2> QED BY <2>1, <2>2, QuietCharges
<1>11. ASSUME NEW s \in Socket, Cleared(s) PROVE ChargeInv'
  <2>1. /\ handed' = [handed EXCEPT ![s] = None] /\ loop' = [loop EXCEPT ![s] = "handling"]
        /\ loop[s] = "clearing"
        /\ UNCHANGED <<specOf, spec, jobs, probes, requests, background, stop, accepting, sockets>>
    BY <1>11 DEF Cleared, serverVars, countVars, specVars
  <2>2. ChargeTypes' /\ HeldStarted' /\ BusySockets' = BusySockets /\ LiveSpecs' = LiveSpecs
    BY <2>1, NoneAssumption
       DEF ChargeInv, ChargeTypes, HeldStarted, BusySockets, Busy, LiveSpecs
  <2> QED BY <2>1, <2>2, QuietCharges
\* Steps that charge nothing.
<1>12. ASSUME UNCHANGED <<sockets, loop, handed, specOf, spec, jobs, probes, requests>>,
              background' \in Nat, accepting' \in BOOLEAN,
              stop' \in {"no", "draining", "failed", "done"}
       PROVE  ChargeInv'
  <2>1. ChargeTypes' /\ HeldStarted' /\ BusySockets' = BusySockets /\ LiveSpecs' = LiveSpecs
    BY <1>12 DEF ChargeInv, ChargeTypes, HeldStarted, BusySockets, Busy, LiveSpecs
  <2> QED BY <1>12, <2>1, QuietCharges
<1>13. ASSUME NEW s \in Socket, NEW t \in Turn, ClientAborts(s, t) PROVE ChargeInv'
  BY <1>13, <1>12 DEF ClientAborts, serverVars, countVars, specVars, ChargeInv, ChargeTypes
<1>14. ASSUME NEW s \in Socket, NEW o \in {"done", "error"}, HandlerReports(s, o) PROVE ChargeInv'
  BY <1>14, <1>12 DEF HandlerReports, serverVars, countVars, specVars, ChargeInv, ChargeTypes
<1>15. ASSUME NEW s \in Socket, BackgroundStarts(s) PROVE ChargeInv'
  BY <1>15, <1>12 DEF BackgroundStarts, serverVars, turnVars, specVars, ChargeInv, ChargeTypes
<1>16. CASE BackgroundEnds
  BY <1>16, <1>12 DEF BackgroundEnds, serverVars, turnVars, specVars, ChargeInv, ChargeTypes
<1>17. CASE StopResolves \/ StopRejects
  BY <1>17, <1>12
     DEF StopResolves, StopRejects, countVars, turnVars, specVars, ChargeInv, ChargeTypes
<1>18. CASE UNCHANGED vars
  BY <1>18, <1>12 DEF vars, ChargeInv, ChargeTypes
<1> QED BY <1>1, <1>2, <1>3, <1>4, <1>5, <1>7, <1>8, <1>9, <1>10, <1>11, <1>13, <1>14, <1>15,
           <1>16, <1>17, <1>18 DEF Next

\* The charges are exact in every state.
LEMMA ChargeInvariant == Spec => []ChargeInv
<1>1. Init => ChargeInv
  <2> SUFFICES ASSUME Init PROVE ChargeInv
    OBVIOUS
  <2>1. AwaitedProbes = {} /\ {s \in Socket : Busy(s)} = {} /\ LiveSpecs = {}
    BY DEF Init, AwaitedProbes, Busy, LiveSpecs, Live
  <2>2. ChargesExact /\ IsFiniteSet(AwaitedProbes)
    BY <2>1, FS_EmptySet, LimitAssumption
       DEF Init, ChargesExact, ChargedOnce, AdmissionBound
  <2>3. ChargeTypes /\ HeldStarted
    BY DEF Init, ChargeTypes, HeldStarted
  <2> QED BY <2>2, <2>3 DEF ChargeInv
<1> QED BY <1>1, ChargeStep, PTL DEF Spec

\* Every job is given back exactly once, and a turn that takes over the slot of
\* its speculation is the only way past the limit: acquireJob(), releaseJob().
THEOREM ChargesAlwaysExact == Spec => []ChargesExact
<1>1. ChargeInv => ChargesExact
  BY DEF ChargeInv
<1> QED BY <1>1, ChargeInvariant, PTL

-----------------------------------------------------------------------------
(* What stop() waits for. *)

\* A loop that waits for its speculation has one, which is not live any more; an
\* idle one has none.
AbortedFirst ==
    \A s \in Socket :
        /\ loop[s] \in {"clearing", "releasing"} =>
              handed[s] # None /\ spec[handed[s]] # "live"
        /\ loop[s] = "idle" => handed[s] = None

\* Once stop() has begun no work is accepted, and once it has resolved none is left.
StoppedForGood ==
    /\ stop # "no" => ~accepting
    /\ stop = "done" => jobs = 0 /\ LiveSpecs = {}

StopInv == AbortedFirst /\ SpeculationOwned /\ StoppedForGood

\* An aborted speculation is not live, and the others are as they were.
LEMMA AbortsEnd ==
    ASSUME ChargeTypes, NEW ps, spec' = AbortedSpecs(ps)
    PROVE  \A p \in Speculation : spec'[p] = "live" <=> spec[p] = "live" /\ p \notin ps
BY DEF ChargeTypes, AbortedSpecs, Live

\* A socket that takes a turn leaves every live speculation an owner.
LEMMA TakeOwned ==
    ASSUME ChargeInv, AbortedFirst, SpeculationOwned, NEW s \in Socket, NEW t,
           NEW adopt \in BOOLEAN, Take(s, t, adopt), UNCHANGED sockets,
           handed[s] # None => spec[handed[s]] # "live"
    PROVE  AbortedFirst' /\ SpeculationOwned'
<1> USE NoneAssumption DEF ChargeInv, ChargeTypes
<1>1. specOf' = [specOf EXCEPT ![s] = None] /\ handed' = [handed EXCEPT ![s] = specOf[s]]
  BY DEF Take
<1>2. CASE spec' = spec /\ loop' = [loop EXCEPT ![s] = "handling"]
  BY <1>1, <1>2 DEF AbortedFirst, SpeculationOwned
<1>3. CASE /\ spec' = AbortedSpecs({specOf[s]}) /\ loop' = [loop EXCEPT ![s] = "clearing"]
           /\ specOf[s] # None
  <2>1. \A p \in Speculation : spec'[p] = "live" <=> spec[p] = "live" /\ p # specOf[s]
    BY <1>3, AbortsEnd
  <2> QED BY SMTT(30), <1>1, <1>3, <2>1 DEF AbortedFirst, SpeculationOwned
<1> QED BY <1>2, <1>3 DEF Take

\* So does a loop that is through with its turn.
LEMMA EndTurnOwned ==
    ASSUME ChargeInv, AbortedFirst, SpeculationOwned, NEW s \in Socket, EndTurn(s),
           UNCHANGED sockets, handed[s] # None => spec[handed[s]] # "live"
    PROVE  AbortedFirst' /\ SpeculationOwned'
<1>1. CASE pending[s] # None
  BY <1>1, TakeOwned DEF EndTurn
<1>2. CASE pending[s] = None
  BY <1>2, NoneAssumption
     DEF EndTurn, specVars, ChargeInv, ChargeTypes, AbortedFirst, SpeculationOwned
<1> QED BY <1>1, <1>2

\* Every step leaves every live speculation an owner.
LEMMA OwnedStep == ChargeInv /\ AbortedFirst /\ SpeculationOwned /\ [Next]_vars
                   => AbortedFirst' /\ SpeculationOwned'
<1> SUFFICES ASSUME ChargeInv, AbortedFirst, SpeculationOwned, [Next]_vars
             PROVE  AbortedFirst' /\ SpeculationOwned'
  OBVIOUS
<1> USE NoneAssumption
\* The steps that touch neither a loop nor a speculation.
<1>1. ASSUME UNCHANGED <<sockets, loop, handed, specOf, spec>>
      PROVE  AbortedFirst' /\ SpeculationOwned'
  BY <1>1 DEF AbortedFirst, SpeculationOwned
<1>2. ASSUME NEW s \in Socket, NEW t \in Turn, QueueTurn(s, t)
      PROVE  AbortedFirst' /\ SpeculationOwned'
  <2>1. CASE Busy(s)
    BY <1>1, <1>2, <2>1 DEF QueueTurn, serverVars, specVars
  <2>2. CASE ~Busy(s)
    BY <1>2, <2>2, TakeOwned DEF QueueTurn, serverVars, Busy, AbortedFirst
  <2> QED BY <2>1, <2>2
<1>3. ASSUME NEW s \in Socket, NEW o \in {"done", "error"}, HandlerSettles(s, o)
      PROVE  AbortedFirst' /\ SpeculationOwned'
  <2>1. CASE handed[s] = None
    BY <1>3, <2>1, EndTurnOwned DEF HandlerSettles, serverVars
  <2>2. CASE handed[s] # None
    <3>1. /\ spec' = AbortedSpecs({handed[s]}) /\ loop' = [loop EXCEPT ![s] = "releasing"]
          /\ UNCHANGED <<sockets, specOf, handed>>
      BY <1>3, <2>2 DEF HandlerSettles, serverVars
    <3>2. \A p \in Speculation : spec'[p] = "live" <=> spec[p] = "live" /\ p # handed[s]
      BY <3>1, AbortsEnd DEF ChargeInv
    <3> QED BY <2>2, <3>1, <3>2 DEF AbortedFirst, SpeculationOwned, ChargeInv, ChargeTypes
  <2> QED BY <2>1, <2>2
<1>4. ASSUME NEW s \in Socket, Released(s) PROVE AbortedFirst' /\ SpeculationOwned'
  BY <1>4, EndTurnOwned DEF Released, serverVars, AbortedFirst
<1>5. ASSUME NEW s \in Socket, Cleared(s) PROVE AbortedFirst' /\ SpeculationOwned'
  BY <1>5
     DEF Cleared, serverVars, specVars, AbortedFirst, SpeculationOwned, ChargeInv, ChargeTypes
\* Speculations are aborted, among them all that a socket lets go of.
<1>6. ASSUME NEW ps, spec' = AbortedSpecs(ps), UNCHANGED <<loop, handed>>,
             \A s \in Socket : specOf[s] \in ps \/ (specOf'[s] = specOf[s] /\ (s \in sockets => s \in sockets'))
      PROVE  AbortedFirst' /\ SpeculationOwned'
  <2>1. \A p \in Speculation : spec'[p] = "live" <=> spec[p] = "live" /\ p \notin ps
    BY <1>6, AbortsEnd DEF ChargeInv
  <2> QED BY <1>6, <2>1 DEF AbortedFirst, SpeculationOwned, ChargeInv, ChargeTypes
<1>7. ASSUME NEW s \in Socket, HandlerDeclines(s) PROVE AbortedFirst' /\ SpeculationOwned'
  BY <1>6, <1>7 DEF HandlerDeclines, serverVars, turnVars
<1>8. ASSUME NEW s \in Socket, SpeculatesNothing(s) PROVE AbortedFirst' /\ SpeculationOwned'
  <2>1. /\ spec' = AbortedSpecs({specOf[s]}) /\ specOf' = [specOf EXCEPT ![s] = None]
        /\ UNCHANGED <<loop, handed, sockets>>
    BY <1>8 DEF SpeculatesNothing, serverVars, turnVars
  <2> QED BY <1>6, <2>1 DEF ChargeInv, ChargeTypes
<1>9. ASSUME NEW s \in Socket, NEW p \in Speculation, Speculates(s, p)
      PROVE  AbortedFirst' /\ SpeculationOwned'
  <2>1. /\ spec' = [AbortedSpecs({specOf[s]}) EXCEPT ![p] = "live"] /\ spec[p] = "new"
        /\ specOf' = [specOf EXCEPT ![s] = p] /\ s \in sockets
        /\ UNCHANGED <<loop, handed, sockets>>
    BY <1>9 DEF Speculates, serverVars, turnVars
  <2>2. \A q \in Speculation \ {p} : spec'[q] = "live" <=> spec[q] = "live" /\ q # specOf[s]
    BY <2>1 DEF ChargeInv, ChargeTypes, AbortedSpecs, Live
  <2>3. \A r \in Socket : handed[r] # p
    BY <2>1 DEF ChargeInv, HeldStarted
  <2> QED BY SMTT(30), <2>1, <2>2, <2>3 DEF AbortedFirst, SpeculationOwned, ChargeInv, ChargeTypes
<1>10. ASSUME NEW s \in Socket, Close(s) PROVE AbortedFirst' /\ SpeculationOwned'
  <2>1. /\ spec' = AbortedSpecs({specOf[s]}) /\ specOf' = [specOf EXCEPT ![s] = None]
        /\ sockets' = sockets \ {s} /\ UNCHANGED <<loop, handed>>
    BY <1>10 DEF Close
  <2> QED BY <1>6, <2>1 DEF ChargeInv, ChargeTypes
<1>11. CASE StopBegins
  <2>1. spec' = AbortedSpecs(LiveSpecs) /\ handed' = handed /\ loop' = loop
    BY <1>11 DEF StopBegins
  <2>2. \A p \in Speculation : spec'[p] # "live"
    BY <2>1, AbortsEnd DEF ChargeInv, LiveSpecs, Live
  <2> QED BY <2>1, <2>2 DEF AbortedFirst, SpeculationOwned, ChargeInv, ChargeTypes
<1>12. ASSUME NEW p \in Speculation, NEW ok \in BOOLEAN, SpecCloses(p, ok) \/ SpecAborted(p, ok)
       PROVE  AbortedFirst' /\ SpeculationOwned'
  <2>1. /\ UNCHANGED <<loop, handed, specOf, sockets>>
        /\ \E x \in {"gone", "uncertain"} : spec' = [spec EXCEPT ![p] = x]
    BY <1>12 DEF SpecCloses, SpecAborted, turnVars, serverVars
  <2> QED BY <2>1 DEF AbortedFirst, SpeculationOwned, ChargeInv, ChargeTypes
<1>13. ASSUME NEW s \in Socket, \/ ProbeStarts(s) \/ ProbeRefuses(s) \/ BackgroundStarts(s)
                                \/ \E t \in Turn : ClientAborts(s, t)
                                \/ \E o \in {"done", "error"} : HandlerReports(s, o)
       PROVE  AbortedFirst' /\ SpeculationOwned'
  BY <1>1, <1>13 DEF ProbeStarts, ProbeRefuses, BackgroundStarts, ClientAborts, HandlerReports,
                     serverVars, turnVars, specVars
<1>14. CASE RequestStarts \/ RequestEnds \/ BackgroundEnds \/ StopResolves \/ StopRejects
  BY <1>1, <1>14 DEF RequestStarts, RequestEnds, BackgroundEnds, StopResolves, StopRejects,
                     serverVars, turnVars, specVars
<1>15. CASE UNCHANGED vars
  BY <1>1, <1>15 DEF vars
<1> QED BY <1>2, <1>3, <1>4, <1>5, <1>7, <1>8, <1>9, <1>10, <1>11, <1>12, <1>13, <1>14, <1>15
        DEF Next

\* With no job left there is neither a loop nor a probe nor a request to give one back.
LEMMA NoJobNothingBusy ==
    ASSUME ChargeInv, jobs = 0
    PROVE  /\ requests = 0
           /\ \A s \in Socket : ~Busy(s) /\ probes[s] = 0
<1>1. /\ Cardinality(BusySockets) = 0 /\ requests = 0 /\ Cardinality(AwaitedProbes) = 0
  BY ChargeSum
<1>2. BusySockets = {} /\ AwaitedProbes = {}
  BY <1>1, ChargeCounts, FS_EmptySet DEF ChargeInv
<1>3. ASSUME NEW s \in Socket, probes[s] # 0 PROVE FALSE
  <2>1. <<s, 1>> \in AwaitedProbes
    BY <1>3 DEF AwaitedProbes, ChargeInv, ChargeTypes
  <2> QED BY <1>2, <2>1
<1> QED BY <1>1, <1>2, <1>3 DEF BusySockets

\* What stop() has reached stays so.
LEMMA StoppedStep == ChargeInv /\ StoppedForGood /\ [Next]_vars => StoppedForGood'
<1> SUFFICES ASSUME ChargeInv, StoppedForGood, [Next]_vars PROVE StoppedForGood'
  OBVIOUS
<1>1. CASE stop = "done"
  <2>1. ~accepting /\ jobs = 0 /\ LiveSpecs = {} /\ \A p \in Speculation : spec[p] \notin Live
    BY <1>1 DEF StoppedForGood, LiveSpecs
  <2>2. requests = 0 /\ \A s \in Socket : loop[s] = "idle" /\ ~(probes[s] > 0)
    BY <2>1, NoJobNothingBusy DEF Busy, ChargeInv, ChargeTypes
  <2>3. ASSUME UNCHANGED <<stop, accepting, jobs, spec>> PROVE StoppedForGood'
    BY <2>3 DEF StoppedForGood, LiveSpecs
  <2>4. ASSUME NEW s \in Socket, Close(s) PROVE StoppedForGood'
    <3>1. \A p \in {specOf[s]} \cap Speculation : spec[p] # "new"
      BY NoneAssumption DEF ChargeInv, HeldStarted
    <3>2. spec' = AbortedSpecs({specOf[s]}) /\ UNCHANGED <<stop, accepting, jobs>>
      BY <2>4 DEF Close
    <3>3. LiveSpecs' = LiveSpecs
      BY <3>1, <3>2, AbortsStayCharged DEF ChargeInv
    <3> QED BY <3>2, <3>3 DEF StoppedForGood
  <2>5. ASSUME NEW s \in Socket, NEW t \in Turn, ClientAborts(s, t) PROVE FALSE
    BY <2>1, <2>5 DEF ClientAborts
  <2>6. ASSUME NEW s \in Socket, ~Close(s)
        PROVE  ~ \/ \E t \in Turn : QueueTurn(s, t) \/ ClientAborts(s, t)
                 \/ \E o \in {"done", "error"} : HandlerReports(s, o) \/ HandlerSettles(s, o)
                 \/ HandlerDeclines(s) \/ Cleared(s) \/ Released(s)
                 \/ ProbeStarts(s) \/ ProbeRefuses(s) \/ SpeculatesNothing(s)
                 \/ \E p \in Speculation : Speculates(s, p)
                 \/ BackgroundStarts(s)
    BY <2>1, <2>2, <2>5
       DEF QueueTurn, HandlerReports, HandlerSettles, HandlerDeclines, Cleared, Released,
           ProbeStarts, ProbeRefuses, SpeculatesNothing, Speculates, ProbeEnds, BackgroundStarts,
           JobFree
  <2>7. ASSUME NEW p \in Speculation, NEW ok \in BOOLEAN, SpecCloses(p, ok) \/ SpecAborted(p, ok)
        PROVE  FALSE
    BY <2>1, <2>7 DEF SpecCloses, SpecAborted, Live
  <2>8. ~RequestStarts /\ ~RequestEnds /\ ~StopBegins /\ ~StopResolves /\ ~StopRejects
    BY <1>1, <2>1, <2>2
       DEF RequestStarts, RequestEnds, JobFree, StopBegins, StopResolves, StopRejects
  <2>9. CASE BackgroundEnds \/ UNCHANGED vars
    BY <2>3, <2>9 DEF BackgroundEnds, vars, serverVars, specVars
  <2> QED BY <2>4, <2>6, <2>7, <2>8, <2>9 DEF Next
<1>2. CASE stop # "done"
  <2>1. CASE StopResolves
    BY <2>1 DEF StopResolves, Drained, StoppedForGood, specVars, LiveSpecs
  <2>2. CASE StopBegins \/ StopRejects
    BY <2>2 DEF StopBegins, StopRejects, StoppedForGood
  <2>3. CASE ~StopResolves /\ ~StopBegins /\ ~StopRejects
    <3>1. UNCHANGED <<stop, accepting>>
      BY <2>3 DEF Next, vars, QueueTurn, ClientAborts, HandlerReports, HandlerSettles,
         HandlerDeclines, Cleared, Released, ProbeStarts, ProbeRefuses, SpeculatesNothing,
         Speculates, BackgroundStarts, Close, SpecCloses, SpecAborted, RequestStarts, RequestEnds,
         BackgroundEnds, serverVars
    <3> QED BY <1>2, <3>1 DEF StoppedForGood
  <2> QED BY <2>1, <2>2, <2>3
<1> QED BY <1>1, <1>2

\* stop() resolves only when no handler, no turn and no speculation is left, and
\* nothing begins afterwards; until then every live speculation has an owner.
THEOREM StopAlwaysLeavesNothing == Spec => []StopLeavesNothing
<1>1. Init => StopInv
  BY DEF Init, StopInv, AbortedFirst, SpeculationOwned, StoppedForGood
<1>2. ChargeInv /\ StopInv /\ [Next]_vars => StopInv'
  BY OwnedStep, StoppedStep DEF StopInv
<1>3. IInv /\ ChargeInv /\ StopInv => StopLeavesNothing
  <2> SUFFICES ASSUME IInv, ChargeInv, StopInv, stop = "done"
               PROVE  /\ \A s \in Socket : ~Busy(s) /\ pending[s] = None
                      /\ \A t \in Turn : lease[t] # "running"
                      /\ LiveSpecs = {}
    BY DEF StopLeavesNothing, StopInv
  <2>1. jobs = 0 /\ LiveSpecs = {}
    BY DEF StopInv, StoppedForGood
  <2>2. \A s \in Socket : ~Busy(s) /\ pending[s] = None /\ current[s] = None
    BY <2>1, NoJobNothingBusy DEF IInv, EndedFirst, Busy
  <2>3. \A t \in Turn : lease[t] # "running"
    BY <2>2, NoneAssumption DEF IInv, Admitted, NewestTurnOwns
  <2> QED BY <2>1, <2>2, <2>3
<1> QED BY <1>1, <1>2, <1>3, InitKeeps, NextKeeps, ChargeInvariant, PTL DEF Spec
=============================================================================
