----------------------- MODULE TurnCoordinatorProofs -----------------------
(***************************************************************************)
(* Theorems about the turn coordinator for any number of leases, sessions, *)
(* turn ids and captures and any limits.  OwnershipExact is inductive next *)
(* to the types; that a session has one running foreground turn follows    *)
(* from it.  What a capture sees needs to know which controllers fired     *)
(* (GenerationsExact), and what a sink hears that only running turns end,  *)
(* which the maps say.                                                     *)
(***************************************************************************)
EXTENDS TurnCoordinator, SequenceTheorems, TLAPS

\* What ending some turns does to the types of the state it writes.
LEMMA FinishTypes ==
    ASSUME TypeOK, NEW ls \in SUBSET Lease, NEW o \in Outcome
    PROVE  /\ TerminalWith(ls, o) \in [Lease -> Outcome \cup {"null"}]
           /\ OwnersWithout(ls) \in [Key -> Lease \cup {None}]
           /\ ForegroundWithout(ls) \in [Session -> Lease \cup {None}]
           /\ EventsWith(ls, o) \in [Lease -> Seq(Event)]
  <1>1. TerminalWith(ls, o) \in [Lease -> Outcome \cup {"null"}]
    BY DEF TypeOK, TerminalWith
  <1>2. OwnersWithout(ls) \in [Key -> Lease \cup {None}]
    BY DEF TypeOK, OwnersWithout
  <1>3. ForegroundWithout(ls) \in [Session -> Lease \cup {None}]
    BY DEF TypeOK, ForegroundWithout
  <1>4. EventsWith(ls, o) \in [Lease -> Seq(Event)]
    <2>1. o \in Event
      BY DEF Event
    <2>2. \A l \in Lease : events[l] \in Seq(Event)
      BY DEF TypeOK
    <2>3. \A l \in Lease : Append(events[l], o) \in Seq(Event)
      BY <2>1, <2>2
    <2>4. QED
      BY <2>2, <2>3 DEF EventsWith
  <1>5. QED
    BY <1>1, <1>2, <1>3, <1>4

\* The ids that are remembered keep their types and their bound.
LEMMA RememberTypes ==
    ASSUME TypeOK, NEW k \in Key, Remember(k)
    PROVE  /\ seenIds' \subseteq Key
           /\ recentIds' \in Seq(Key) /\ Len(recentIds') <= MaxRecent
  <1> DEFINE recent == Append(recentIds, k)
  <1> recentIds \in Seq(Key)
    BY DEF TypeOK
  <1>1. recent \in Seq(Key) /\ Len(recent) = Len(recentIds) + 1 /\ recent # <<>>
    BY AppendProperties
  <1>2. Len(recentIds) \in Nat /\ Len(recentIds) <= MaxRecent /\ MaxRecent \in Nat
    BY BoundAssumption DEF TypeOK
  <1>3. Tail(recent) \in Seq(Key) /\ Len(Tail(recent)) = Len(recentIds)
    BY <1>1, <1>2, HeadTailProperties
  <1>4. recentIds' = IF Len(recent) > MaxRecent THEN Tail(recent) ELSE recent
    BY DEF Remember
  <1>5. recentIds' \in Seq(Key) /\ Len(recentIds') <= MaxRecent
    BY <1>1, <1>2, <1>3, <1>4
  <1>6. seenIds' \subseteq Key
    BY DEF Remember, TypeOK
  <1>7. QED
    BY <1>5, <1>6

\* The generation of a session only grows.
LEMMA SupersedeTypes ==
    ASSUME TypeOK, NEW s \in Session, SupersedeCaptures(s)
    PROVE  /\ generation' \in [Session -> Nat]
           /\ fired' \subseteq Session \X Nat
           /\ capture' = capture
           /\ overtaken' \subseteq Capture
  <1>1. generation \in [Session -> Nat] /\ fired \subseteq Session \X Nat
    BY DEF TypeOK
  <1>2. generation' \in [Session -> Nat]
    BY <1>1 DEF SupersedeCaptures
  <1>3. fired' \subseteq Session \X Nat
    BY <1>1 DEF SupersedeCaptures
  <1>4. capture' = capture /\ overtaken' \subseteq Capture
    BY DEF SupersedeCaptures, TypeOK
  <1>5. QED
    BY <1>2, <1>3, <1>4

\* Every action keeps the types.
LEMMA TypeStep == TypeOK /\ [Next]_vars => TypeOK'
  <1> SUFFICES ASSUME TypeOK, [Next]_vars PROVE TypeOK'
    OBVIOUS
  <1> USE DEF Outcome
  <1>1. ASSUME NEW c \in Capture, NEW s \in Session, Observe(c, s) PROVE TypeOK'
    <2>1. generation \in [Session -> Nat]
          /\ capture \in [Capture -> [session : Session, generation : Nat] \cup {NoCapture}]
      BY DEF TypeOK
    <2>2. generation' \in [Session -> Nat]
          /\ capture' \in [Capture -> [session : Session, generation : Nat] \cup {NoCapture}]
      BY <1>1, <2>1 DEF Observe
    <2>3. QED
      BY <1>1, <2>2 DEF Observe, TypeOK, leaseVars, ownerVars, idVars
  <1>2. ASSUME NEW c \in Capture, Forget(c) PROVE TypeOK'
    BY <1>2 DEF Forget, TypeOK, leaseVars, ownerVars, idVars
  <1>3. ASSUME NEW ls \in SUBSET Lease, Abort(ls) PROVE TypeOK'
    BY <1>3, FinishTypes DEF Abort, Finish, Leave, TypeOK, idVars, captureVars
  <1>4. ASSUME NEW l \in Lease, Fail(l),
               output' \in [Lease -> [text : Nat, audio : Nat]],
               inFlight' \in [Lease -> Nat]
        PROVE  TypeOK'
    BY <1>4, FinishTypes DEF Fail, Finish, Leave, TypeOK, idVars, captureVars
  <1>5. ASSUME NEW l \in Lease, NEW r \in Request, StartCancelled(l, r) PROVE TypeOK'
    BY <1>5 DEF StartCancelled, TypeOK, idVars, captureVars, ownerVars, Event
  <1>6. ASSUME NEW l \in Lease, NEW r \in Request, NEW cancelled \in BOOLEAN,
               StartForeground(l, r, cancelled)
        PROVE  TypeOK'
    <2> DEFINE s == r.session
               old == Displaced(s)
    <2>1. s \in Session /\ KeyOf(r) \in Key /\ old \in SUBSET Lease
      BY DEF Request, KeyOf, Key, Displaced
    <2>2. SupersedeCaptures(s) /\ Remember(KeyOf(r))
      BY <1>6 DEF StartForeground
    <2>3. request' \in [Lease -> Request \cup {NoRequest}] /\ signalAborted' \subseteq Lease
      BY <1>6, <2>1 DEF StartForeground, TypeOK
    <2>4. /\ terminal' \in [Lease -> Outcome \cup {"null"}]
          /\ events' \in [Lease -> Seq(Event)]
      <3>1. /\ TerminalWith(old, "aborted") \in [Lease -> Outcome \cup {"null"}]
            /\ EventsWith(old, "aborted") \in [Lease -> Seq(Event)]
        BY <2>1, FinishTypes
      <3>2. terminal' \in [Lease -> Outcome \cup {"null"}]
        BY <1>6, <3>1 DEF StartForeground
      <3>3. <<>> \in Seq(Event) /\ <<"aborted">> \in Seq(Event)
        BY DEF Event
      <3>4. events' \in [Lease -> Seq(Event)]
        BY <1>6, <3>1, <3>3 DEF StartForeground
      <3>5. QED
        BY <3>2, <3>4
    <2>5. owners' \in [Key -> Lease \cup {None}]
      BY <1>6, <2>1, FinishTypes DEF StartForeground
    <2>6. foreground' \in [Session -> Lease \cup {None}]
      BY <1>6, <2>1, FinishTypes DEF StartForeground
    <2>7. /\ output' \in [Lease -> [text : Nat, audio : Nat]]
          /\ inFlight' \in [Lease -> Nat]
      BY <1>6 DEF StartForeground, TypeOK
    <2>8. capture' \in [Capture -> [session : Session, generation : Nat] \cup {NoCapture}]
      BY <2>1, <2>2, SupersedeTypes DEF TypeOK
    <2>9. QED
      BY <2>1, <2>2, <2>3, <2>4, <2>5, <2>6, <2>7, <2>8, RememberTypes, SupersedeTypes DEF TypeOK
  <1>7. ASSUME NEW l \in Lease, NEW r \in Request, StartBackground(l, r) PROVE TypeOK'
    <2>1. KeyOf(r) \in Key
      BY DEF Request, KeyOf, Key
    <2>2. Remember(KeyOf(r))
      BY <1>7 DEF StartBackground
    <2>3. request' \in [Lease -> Request \cup {NoRequest}]
      BY <1>7 DEF StartBackground, TypeOK
    <2>4. owners' \in [Key -> Lease \cup {None}]
      BY <1>7, <2>1 DEF StartBackground, TypeOK
    <2>5. QED
      BY <1>7, <2>1, <2>2, <2>3, <2>4, RememberTypes DEF StartBackground, TypeOK, captureVars
  <1>8. ASSUME NEW l \in Lease, NEW t \in Nat, NEW a \in Nat, NEW pending \in BOOLEAN,
               Emit(l, t, a, pending)
        PROVE  TypeOK'
    <2>1. output' \in [Lease -> [text : Nat, audio : Nat]] /\ inFlight' \in [Lease -> Nat]
      BY SMTT(30), <1>8 DEF Emit, TypeOK
    <2>2. events' \in [Lease -> Seq(Event)]
      BY <1>8 DEF Emit, TypeOK, Event
    <2>3. QED
      BY <1>8, <2>1, <2>2 DEF Emit, TypeOK, idVars, captureVars, ownerVars
  <1>9. ASSUME NEW l \in Lease, NEW t \in Nat, NEW a \in Nat, EmitOverBudget(l, t, a)
        PROVE  TypeOK'
    <2>1. output' \in [Lease -> [text : Nat, audio : Nat]] /\ inFlight' \in [Lease -> Nat]
      <3>1. output \in [Lease -> [text : Nat, audio : Nat]]
            /\ output' = [output EXCEPT ![l].audio = @ + a]
        BY <1>9 DEF EmitOverBudget, TypeOK
      <3>2. [output[l] EXCEPT !.audio = @ + a] \in [text : Nat, audio : Nat]
        BY <3>1
      <3>3. output' \in [Lease -> [text : Nat, audio : Nat]]
        BY <3>1, <3>2
      <3>4. QED
        BY <1>9, <3>3 DEF EmitOverBudget, TypeOK
    <2>2. QED
      BY <1>4, <1>9, <2>1 DEF EmitOverBudget
  <1>10. ASSUME NEW l \in Lease, NEW t \in Nat, NEW a \in Nat, EmitThrows(l, t, a)
         PROVE  TypeOK'
    <2>1. output' \in [Lease -> [text : Nat, audio : Nat]]
      BY <1>10 DEF EmitThrows, TypeOK
    <2>2. events' \in [Lease -> Seq(Event)]
      <3>1. <<"output", "error">> \in Seq(Event)
        BY DEF Event
      <3>2. events[l] \o <<"output", "error">> \in Seq(Event)
        BY <3>1, ConcatProperties DEF TypeOK
      <3>3. QED
        BY <1>10, <3>2 DEF EmitThrows, TypeOK
    <2>3. QED
      BY ZenonT(60), <1>10, <2>1, <2>2, FinishTypes
         DEF EmitThrows, Leave, TypeOK, idVars, captureVars
  <1>11. ASSUME NEW l \in Lease, Delivered(l) PROVE TypeOK'
    BY <1>11 DEF Delivered, TypeOK, idVars, captureVars, ownerVars
  <1>12. ASSUME NEW l \in Lease, DeliveryFails(l) PROVE TypeOK'
    <2>1. output' \in [Lease -> [text : Nat, audio : Nat]] /\ inFlight' \in [Lease -> Nat]
      <3>1. inFlight' = [inFlight EXCEPT ![l] = @ - 1] /\ inFlight[l] > 0 /\ output' = output
        BY <1>12 DEF DeliveryFails
      <3>2. QED
        BY <3>1 DEF TypeOK
    <2>2. CASE Active(l)
      BY <1>4, <1>12, <2>1, <2>2 DEF DeliveryFails
    <2>3. CASE ~ Active(l)
      BY <1>12, <2>1, <2>3 DEF DeliveryFails, TypeOK, idVars, captureVars, ownerVars
    <2>4. QED
      BY <2>2, <2>3
  <1>13. ASSUME NEW l \in Lease, Complete(l) PROVE TypeOK'
    BY <1>13, FinishTypes DEF Complete, Finish, Leave, TypeOK, idVars, captureVars
  <1>14. ASSUME NEW l \in Lease, PipelineFails(l) PROVE TypeOK'
    BY <1>4, <1>14 DEF PipelineFails, TypeOK
  <1>15. CASE UNCHANGED vars
    BY <1>15 DEF TypeOK, vars, leaseVars, ownerVars, idVars, captureVars
  <1>16. ASSUME NEW l \in Lease, AbortLease(l) PROVE TypeOK'
    BY <1>3, <1>16 DEF AbortLease
  <1>17. ASSUME NEW s \in Session, AbortForeground(s) PROVE TypeOK'
    <2>1. {foreground[s]} \in SUBSET Lease
      BY <1>17 DEF AbortForeground, TypeOK
    <2>2. QED
      BY <1>3, <1>17, <2>1 DEF AbortForeground
  <1>18. CASE AbortAll
    BY <1>3, <1>18 DEF AbortAll
  <1>19. ASSUME NEW l \in Lease, Start(l) PROVE TypeOK'
    BY <1>5, <1>6, <1>7, <1>19 DEF Start
  <1>20. ASSUME NEW l \in Lease, Output(l) PROVE TypeOK'
    <2>1. 0..(MaxText + 1) \subseteq Nat /\ 0..(MaxAudio + 1) \subseteq Nat
      OBVIOUS
    <2>2. QED
      BY <1>8, <1>9, <1>10, <1>20, <2>1 DEF Output
  <1>21. QED
    BY <1>1, <1>2, <1>11, <1>12, <1>13, <1>14, <1>15, <1>16, <1>17, <1>18, <1>19, <1>20
       DEF Next

\* The state always has its types, and no more than MaxRecent ids are kept.
THEOREM TypeCorrect == Spec => []TypeOK
  <1>1. Init => TypeOK
    BY LeaseAssumption, BoundAssumption DEF Init, TypeOK
  <1>2. QED
    BY <1>1, TypeStep, PTL DEF Spec

-----------------------------------------------------------------------------

\* The three parts of OwnershipExact, for one lease.
Owned(l) == Active(l) => /\ owners[KeyOf(request[l])] = l
                         /\ request[l].lane = "foreground"
                                => foreground[request[l].session] = l
OwnerRuns(l) == \A k \in Key : owners[k] = l => Active(l) /\ KeyOf(request[l]) = k
SeatRuns(l) == \A s \in Session : foreground[s] = l =>
                  /\ Active(l)
                  /\ request[l].session = s
                  /\ request[l].lane = "foreground"

\* A lease that start() has not returned yet has not ended.  OwnershipExact
\* needs it where a new lease is entered into the maps.
FreshLeases == \A l \in Lease : ~ Accepted(l) => terminal[l] = "null" /\ l \notin signalAborted

\* The inductive invariant.
IInv == TypeOK /\ FreshLeases /\ OwnershipExact

\* Ending running turns, or turns that ended before, leaves the maps exact:
\* what ends leaves them, and nothing else does.
LEMMA FinishOwnership ==
    ASSUME IInv,
           NEW ls \in SUBSET {l \in Lease : Accepted(l)}, NEW o \in Outcome,
           Leave(ls, o), request' = request,
           signalAborted \subseteq signalAborted', signalAborted' \subseteq signalAborted \cup ls
    PROVE  FreshLeases' /\ OwnershipExact'
  <1> USE DEF IInv, TypeOK
  <1>1. \A l \in Lease : Active(l)' <=> Active(l) /\ l \notin ls
    BY DEF Leave, TerminalWith, Active, Accepted, Outcome
  <1>2. request' = request
    OBVIOUS
  <1>3. \A k \in Key : owners'[k] = IF owners[k] \in ls THEN None ELSE owners[k]
    BY DEF Leave, OwnersWithout
  <1>4. \A s \in Session :
           foreground'[s] = IF foreground[s] \in ls THEN None ELSE foreground[s]
    BY DEF Leave, ForegroundWithout
  <1>5. FreshLeases'
    BY DEF FreshLeases, Leave, TerminalWith, Accepted
  <1>6. ASSUME NEW l \in Lease PROVE Owned(l)' /\ OwnerRuns(l)' /\ SeatRuns(l)'
    <2>1. Owned(l) /\ OwnerRuns(l) /\ SeatRuns(l)
      BY DEF OwnershipExact, Owned, OwnerRuns, SeatRuns
    <2>2. Owned(l)'
      <3>1. Active(l) => request[l].session \in Session /\ KeyOf(request[l]) \in Key
        BY DEF Active, Accepted, Request, KeyOf, Key
      <3>2. QED
        BY <1>1, <1>2, <1>3, <1>4, <2>1, <3>1 DEF Owned, KeyOf
    <2>3. OwnerRuns(l)'
      BY <1>1, <1>2, <1>3, <2>1, LeaseAssumption DEF OwnerRuns, KeyOf
    <2>4. SeatRuns(l)'
      BY <1>1, <1>2, <1>4, <2>1, LeaseAssumption DEF SeatRuns
    <2>5. QED
      BY <2>2, <2>3, <2>4
  <1>7. QED
    BY <1>5, <1>6 DEF OwnershipExact, Owned, OwnerRuns, SeatRuns

\* A lease that start() returns aborted changes nothing for the others.
LEMMA CancelledOwnership ==
    ASSUME IInv, NEW l \in Lease, NEW r \in Request, StartCancelled(l, r)
    PROVE  FreshLeases' /\ OwnershipExact'
  <1> USE DEF IInv, TypeOK
  <1>1. ~ Active(l) /\ ~ Active(l)'
    BY DEF StartCancelled, Active
  <1>2. \A m \in Lease : m # l => (Active(m)' <=> Active(m)) /\ request'[m] = request[m]
    BY DEF StartCancelled, Active, Accepted
  <1>3. owners' = owners /\ foreground' = foreground
    BY DEF StartCancelled, ownerVars
  <1>4. FreshLeases'
    <2>1. r # NoRequest
      BY LeaseAssumption DEF Request, NoRequest
    <2>2. request'[l] = r
      BY DEF StartCancelled
    <2>3. QED
      BY <2>1, <2>2 DEF FreshLeases, Accepted, StartCancelled
  <1>5. ASSUME NEW m \in Lease PROVE Owned(m)' /\ OwnerRuns(m)' /\ SeatRuns(m)'
    <2>1. Owned(m) /\ OwnerRuns(m) /\ SeatRuns(m)
      BY DEF OwnershipExact, Owned, OwnerRuns, SeatRuns
    <2>2. QED
      BY <1>1, <1>2, <1>3, <2>1 DEF Owned, OwnerRuns, SeatRuns, KeyOf
  <1>6. QED
    BY <1>4, <1>5 DEF OwnershipExact, Owned, OwnerRuns, SeatRuns

\* A new background turn has a key of its own, so it displaces no entry.
LEMMA BackgroundOwnership ==
    ASSUME IInv, NEW l \in Lease, NEW r \in Request, StartBackground(l, r)
    PROVE  FreshLeases' /\ OwnershipExact'
  <1> USE DEF IInv, TypeOK
  <1>1. KeyOf(r) \in Key /\ r # NoRequest
    BY LeaseAssumption DEF KeyOf, Key, Request, NoRequest
  <1>2. ~ Active(l) /\ request'[l] = r /\ r.lane = "background"
    BY DEF StartBackground, Active
  <1>3. \A m \in Lease : m # l => (Active(m)' <=> Active(m)) /\ request'[m] = request[m]
    BY DEF StartBackground, Active, Accepted
  <1>4. foreground' = foreground /\ owners' = [owners EXCEPT ![KeyOf(r)] = l]
    BY DEF StartBackground
  <1>5. \A m \in Lease : Active(m) => KeyOf(request[m]) # KeyOf(r) /\ KeyOf(request[m]) \in Key
    BY DEF StartBackground, Active, Accepted, KeyOf, Key, Request
  <1>6. terminal' = terminal /\ signalAborted' = signalAborted
    BY DEF StartBackground
  <1>7. Active(l)'
    BY <1>1, <1>2, <1>6 DEF Active, Accepted, FreshLeases, StartBackground
  <1>8. FreshLeases'
    BY <1>6 DEF FreshLeases, Accepted, StartBackground
  <1>9. ASSUME NEW m \in Lease, m # l PROVE Owned(m)' /\ OwnerRuns(m)' /\ SeatRuns(m)'
    <2>1. Owned(m) /\ OwnerRuns(m) /\ SeatRuns(m)
      BY DEF OwnershipExact, Owned, OwnerRuns, SeatRuns
    <2>2. QED
      BY <1>1, <1>3, <1>4, <1>5, <1>9, <2>1 DEF Owned, OwnerRuns, SeatRuns, KeyOf
  <1>10. Owned(l)' /\ OwnerRuns(l)' /\ SeatRuns(l)'
    <2>1. OwnerRuns(l) /\ SeatRuns(l)
      BY DEF OwnershipExact, OwnerRuns, SeatRuns
    <2>2. Owned(l)'
      BY <1>1, <1>2, <1>4, <1>7 DEF Owned, KeyOf
    <2>3. OwnerRuns(l)'
      BY <1>1, <1>2, <1>4, <1>7, <2>1 DEF OwnerRuns, KeyOf
    <2>4. SeatRuns(l)'
      BY <1>2, <1>4, <2>1 DEF SeatRuns
    <2>5. QED
      BY <2>2, <2>3, <2>4
  <1>11. QED
    BY <1>8, <1>9, <1>10 DEF OwnershipExact, Owned, OwnerRuns, SeatRuns

\* A new foreground turn: a running turn that has its key, evicted long ago,
\* sits in its session's seat and is therefore the turn it displaces.
LEMMA ForegroundOwnership ==
    ASSUME IInv, NEW l \in Lease, NEW r \in Request, NEW cancelled \in BOOLEAN,
           StartForeground(l, r, cancelled)
    PROVE  FreshLeases' /\ OwnershipExact'
  <1> DEFINE old == Displaced(r.session)
  <1> USE DEF IInv, TypeOK
  <1>1. /\ KeyOf(r) \in Key /\ r.session \in Session /\ r # NoRequest
        /\ r.lane = "foreground"
    BY LeaseAssumption DEF KeyOf, Key, Request, NoRequest, StartForeground
  <1>2. ~ Active(l) /\ request'[l] = r
    BY DEF StartForeground, Active
  <1>3. \A m \in old : Active(m) /\ request[m].session = r.session
    BY <1>1 DEF OwnershipExact, Displaced
  <1>4. l \notin old
    BY <1>2, <1>3
  <1>5. /\ terminal' = [TerminalWith(old, "aborted") EXCEPT
                          ![l] = IF cancelled THEN "aborted" ELSE "null"]
        /\ signalAborted' = signalAborted \cup old \cup (IF cancelled THEN {l} ELSE {})
    BY DEF StartForeground
  <1>6. \A m \in Lease : m # l =>
            /\ request'[m] = request[m]
            /\ terminal'[m] = IF m \in old THEN "aborted" ELSE terminal[m]
            /\ m \in signalAborted' <=> m \in signalAborted \/ m \in old
    BY <1>5 DEF StartForeground, TerminalWith
  <1>7. \A m \in Lease : m # l => (Active(m)' <=> Active(m) /\ m \notin old)
    BY <1>6 DEF Active, Accepted
  <1>8. Active(l)' <=> ~ cancelled
    <2>1. terminal'[l] = IF cancelled THEN "aborted" ELSE "null"
      BY <1>5 DEF TerminalWith
    <2>2. l \in signalAborted' <=> cancelled
      <3>1. l \notin signalAborted
        BY DEF FreshLeases, StartForeground
      <3>2. QED
        BY <1>4, <1>5, <3>1
    <2>3. QED
      BY <1>1, <1>2, <2>1, <2>2 DEF Active, Accepted
  <1>9. \A k \in Key : owners'[k] =
            IF k = KeyOf(r) /\ ~ cancelled THEN l
            ELSE IF owners[k] \in old THEN None ELSE owners[k]
    BY <1>1 DEF StartForeground, OwnersWithout
  <1>10. \A s \in Session : foreground'[s] =
            IF s = r.session /\ ~ cancelled THEN l
            ELSE IF foreground[s] \in old THEN None ELSE foreground[s]
    BY <1>1 DEF StartForeground, ForegroundWithout
  <1>11. FreshLeases'
    <2>1. \A m \in Lease : m # l /\ ~ Accepted(m) => m \notin old
      BY <1>3 DEF Active
    <2>2. QED
      BY <1>1, <1>2, <1>6, <2>1 DEF FreshLeases, Accepted
  <1>12. ASSUME NEW m \in Lease, m # l PROVE Owned(m)' /\ OwnerRuns(m)' /\ SeatRuns(m)'
    <2>1. Owned(m) /\ OwnerRuns(m) /\ SeatRuns(m)
      BY DEF OwnershipExact, Owned, OwnerRuns, SeatRuns
    <2>2. Active(m) => /\ request[m].session \in Session /\ KeyOf(request[m]) \in Key
                       /\ request[m].lane \in Lane
      BY DEF Active, Accepted, Request, KeyOf, Key
    <2>3. ASSUME Active(m), request[m].lane = "foreground", request[m].session = r.session
          PROVE  m \in old
      BY <2>1, <2>3 DEF Owned, Displaced
    <2>4. ASSUME Active(m), KeyOf(request[m]) = KeyOf(r)
          PROVE  m \in old
      <3>1. request[m].session = r.session
        BY <2>4 DEF KeyOf
      <3>2. request[m].lane # "background"
        BY <2>4 DEF StartForeground, Active
      <3>3. QED
        BY <2>2, <2>3, <2>4, <3>1, <3>2 DEF Lane
    <2>5. Owned(m)'
      <3> SUFFICES ASSUME Active(m)'
                   PROVE  /\ owners'[KeyOf(request'[m])] = m
                          /\ request'[m].lane = "foreground"
                                 => foreground'[request'[m].session] = m
        BY DEF Owned, KeyOf
      <3>1. Active(m) /\ m \notin old /\ request'[m] = request[m]
        BY <1>6, <1>7, <1>12
      <3>2. owners[KeyOf(request[m])] = m /\ KeyOf(request[m]) # KeyOf(r)
        BY <2>1, <2>4, <3>1 DEF Owned
      <3>3. owners'[KeyOf(request[m])] = m
        BY <1>9, <2>2, <3>1, <3>2
      <3>4. request[m].lane = "foreground" => foreground'[request[m].session] = m
        BY <1>10, <2>1, <2>2, <2>3, <3>1 DEF Owned
      <3>5. QED
        BY <3>1, <3>3, <3>4
    <2>6. OwnerRuns(m)'
      BY <1>6, <1>7, <1>9, <1>12, <2>1, LeaseAssumption DEF OwnerRuns, KeyOf
    <2>7. SeatRuns(m)'
      <3> SUFFICES ASSUME NEW s \in Session, foreground'[s] = m
                   PROVE  /\ Active(m)'
                          /\ request'[m].session = s
                          /\ request'[m].lane = "foreground"
        BY DEF SeatRuns
      <3>1. foreground[s] = m /\ m \notin old
        BY <1>10, <1>12, LeaseAssumption
      <3>2. Active(m) /\ request[m].session = s /\ request[m].lane = "foreground"
        BY <2>1, <3>1 DEF SeatRuns
      <3>3. QED
        BY <1>6, <1>7, <1>12, <3>1, <3>2
    <2>8. QED
      BY <2>5, <2>6, <2>7
  <1>13. Owned(l)' /\ OwnerRuns(l)' /\ SeatRuns(l)'
    <2>1. OwnerRuns(l) /\ SeatRuns(l)
      BY DEF OwnershipExact, OwnerRuns, SeatRuns
    <2>2. Owned(l)'
      BY <1>1, <1>2, <1>8, <1>9, <1>10 DEF Owned, KeyOf
    <2>3. OwnerRuns(l)'
      BY <1>1, <1>2, <1>8, <1>9, <2>1, LeaseAssumption DEF OwnerRuns, KeyOf
    <2>4. SeatRuns(l)'
      BY <1>1, <1>2, <1>8, <1>10, <2>1, LeaseAssumption DEF SeatRuns
    <2>5. QED
      BY <2>2, <2>3, <2>4
  <1>14. QED
    BY <1>11, <1>12, <1>13 DEF OwnershipExact, Owned, OwnerRuns, SeatRuns

\* Steps that write neither a request, an outcome, a signal nor a map.
LEMMA QuietOwnership ==
    ASSUME IInv, UNCHANGED <<request, terminal, signalAborted, ownerVars>>
    PROVE  FreshLeases' /\ OwnershipExact'
  BY DEF IInv, FreshLeases, OwnershipExact, Active, Accepted, KeyOf, ownerVars

\* Every step keeps the maps exact.
LEMMA OwnershipStep == IInv /\ [Next]_vars => IInv'
  <1> SUFFICES ASSUME IInv, [Next]_vars PROVE FreshLeases' /\ OwnershipExact'
    BY TypeStep DEF IInv
  <1>1. ASSUME NEW ls \in SUBSET {l \in Lease : Accepted(l)}, Abort(ls)
        PROVE  FreshLeases' /\ OwnershipExact'
    BY <1>1, FinishOwnership DEF Abort, Finish, Outcome
  <1>2. ASSUME NEW l \in Lease, Accepted(l), Fail(l)
        PROVE  FreshLeases' /\ OwnershipExact'
    BY <1>2, FinishOwnership DEF Fail, Finish, Outcome
  <1>3. ASSUME NEW c \in Capture, Forget(c) \/ \E s \in Session : Observe(c, s)
        PROVE  FreshLeases' /\ OwnershipExact'
    BY <1>3, QuietOwnership DEF Forget, Observe, leaseVars
  <1>4. ASSUME NEW l \in Lease, Start(l) PROVE FreshLeases' /\ OwnershipExact'
    BY <1>4, CancelledOwnership, ForegroundOwnership, BackgroundOwnership DEF Start
  <1>5. ASSUME NEW l \in Lease, Output(l) PROVE FreshLeases' /\ OwnershipExact'
    <2>1. ASSUME NEW t, NEW a, NEW pending, Emit(l, t, a, pending)
          PROVE  FreshLeases' /\ OwnershipExact'
      BY <2>1, QuietOwnership DEF Emit
    <2>2. ASSUME NEW t, NEW a, EmitOverBudget(l, t, a)
          PROVE  FreshLeases' /\ OwnershipExact'
      BY <1>2, <2>2 DEF EmitOverBudget, Active
    <2>3. ASSUME NEW t, NEW a, EmitThrows(l, t, a)
          PROVE  FreshLeases' /\ OwnershipExact'
      BY <2>3, FinishOwnership DEF EmitThrows, Active, Outcome
    <2>4. QED
      BY <1>5, <2>1, <2>2, <2>3 DEF Output
  <1>6. ASSUME NEW l \in Lease, Delivered(l) PROVE FreshLeases' /\ OwnershipExact'
    BY <1>6, QuietOwnership DEF Delivered
  <1>7. ASSUME NEW l \in Lease, DeliveryFails(l) PROVE FreshLeases' /\ OwnershipExact'
    BY <1>2, <1>7, QuietOwnership DEF DeliveryFails, Active
  <1>8. ASSUME NEW l \in Lease, Complete(l) PROVE FreshLeases' /\ OwnershipExact'
    BY <1>8, FinishOwnership DEF Complete, Finish, Outcome
  <1>9. ASSUME NEW l \in Lease, PipelineFails(l) PROVE FreshLeases' /\ OwnershipExact'
    BY <1>2, <1>9 DEF PipelineFails, Active
  <1>10. ASSUME NEW l \in Lease, AbortLease(l) PROVE FreshLeases' /\ OwnershipExact'
    BY <1>1, <1>10 DEF AbortLease, Active
  <1>11. ASSUME NEW s \in Session, AbortForeground(s) PROVE FreshLeases' /\ OwnershipExact'
    <2>1. foreground[s] \in Lease /\ Accepted(foreground[s])
      BY <1>11 DEF AbortForeground, IInv, TypeOK, OwnershipExact, Active
    <2>2. QED
      BY <1>1, <1>11, <2>1 DEF AbortForeground
  <1>12. CASE AbortAll
    BY <1>1, <1>12 DEF AbortAll, IInv, OwnershipExact, Active
  <1>13. CASE UNCHANGED vars
    BY <1>13, QuietOwnership DEF vars, leaseVars
  <1>14. QED
    BY <1>3, <1>4, <1>5, <1>6, <1>7, <1>8, <1>9, <1>10, <1>11, <1>12, <1>13 DEF Next

\* Next to the types, the maps are exact in every state.
LEMMA OwnershipInvariant == Spec => []IInv
  <1>1. Init => IInv
    <2>1. Init => TypeOK
      BY LeaseAssumption, BoundAssumption DEF Init, TypeOK
    <2>2. Init => FreshLeases /\ OwnershipExact
      BY LeaseAssumption DEF Init, FreshLeases, OwnershipExact, Active, Accepted
    <2>3. QED
      BY <2>1, <2>2 DEF IInv
  <1>2. QED
    BY <1>1, OwnershipStep, PTL DEF Spec

\* The maps of the coordinator name exactly the turns that run, always.
THEOREM OwnershipAlwaysExact == Spec => []OwnershipExact
  <1>1. IInv => OwnershipExact
    BY DEF IInv
  <1>2. QED
    BY <1>1, OwnershipInvariant, PTL

\* Two foreground turns of a session never run at once.
THEOREM ForegroundIsSingle == Spec => []SingleForeground
  <1>1. OwnershipExact => SingleForeground
    BY DEF OwnershipExact, SingleForeground
  <1>2. QED
    BY <1>1, OwnershipAlwaysExact, PTL

-----------------------------------------------------------------------------
(* Captures *)

\* The generations whose controllers fired are those before the current one,
\* and a capture observes one that exists.
GenerationsExact ==
    /\ \A s \in Session, g \in Nat : <<s, g>> \in fired <=> 1 <= g /\ g < generation[s]
    /\ \A c \in Capture : capture[c] # NoCapture =>
          /\ 1 <= capture[c].generation
          /\ capture[c].generation <= generation[capture[c].session]
    /\ \A c \in overtaken : capture[c] # NoCapture

CaptureInv == GenerationsExact /\ SupersededIffOvertaken

\* A capture that observes has a session.
LEMMA CaptureTypes ==
    ASSUME TypeOK, NEW c \in Capture, capture[c] # NoCapture
    PROVE  capture[c].session \in Session /\ capture[c].generation \in Nat
  BY DEF TypeOK

\* A foreground turn fires the controller that every capture of its session
\* observes, unless an earlier turn has, and no other one.
LEMMA SupersedeExact ==
    ASSUME TypeOK, CaptureInv, NEW s \in Session, SupersedeCaptures(s)
    PROVE  CaptureInv'
  <1> USE DEF CaptureInv, GenerationsExact
  <1>1. generation \in [Session -> Nat] /\ fired \subseteq Session \X Nat /\ capture' = capture
    BY DEF TypeOK, SupersedeCaptures
  <1>2. overtaken' = overtaken \cup {c \in Capture : capture[c].session = s}
    BY DEF SupersedeCaptures
  <1>3. \A c \in Capture : capture[c].session = s => capture[c] # NoCapture
    BY LeaseAssumption DEF NoCapture
  <1>4. CASE generation[s] = 0
    <2>1. generation' = generation /\ fired' = fired
      BY <1>4 DEF SupersedeCaptures
    <2>2. \A c \in Capture : capture[c].session # s
      BY <1>3, <1>4, CaptureTypes
    <2>3. overtaken' = overtaken
      BY <1>2, <2>2
    <2> QED BY <1>1, <2>1, <2>3 DEF SupersededIffOvertaken
  <1>5. CASE generation[s] # 0
    <2>1. /\ fired' = fired \cup {<<s, generation[s]>>}
          /\ generation' = [generation EXCEPT ![s] = @ + 1]
      BY <1>5 DEF SupersedeCaptures
    <2>2. \A t \in Session, g \in Nat :
             <<t, g>> \in fired' <=> 1 <= g /\ g < generation'[t]
      <3> TAKE t \in Session, g \in Nat
      <3>1. CASE t = s
        BY <1>1, <1>5, <2>1, <3>1
      <3>2. CASE t # s
        BY <1>1, <2>1, <3>2
      <3> QED BY <3>1, <3>2
    <2>3. \A c \in Capture : capture[c] # NoCapture =>
             /\ 1 <= capture[c].generation
             /\ capture[c].generation <= generation'[capture[c].session]
      BY <1>1, <2>1, CaptureTypes
    <2>4. \A c \in overtaken' : capture[c] # NoCapture
      BY <1>2, <1>3
    <2>5. ASSUME NEW c \in Capture, capture[c] # NoCapture
          PROVE  <<capture[c].session, capture[c].generation>> \in fired' <=> c \in overtaken'
      <3>1. capture[c].session \in Session /\ capture[c].generation \in Nat
        BY <2>5, CaptureTypes
      <3>2. CASE capture[c].session = s
        <4>1. c \in overtaken'
          BY <1>2, <3>2
        <4>2. capture[c].generation < generation'[s]
          BY <1>1, <2>1, <2>5, <3>1, <3>2
        <4> QED BY <2>2, <2>5, <3>1, <3>2, <4>1, <4>2
      <3>3. CASE capture[c].session # s
        <4>1. c \in overtaken' <=> c \in overtaken
          BY <1>2, <3>3
        <4>2. <<capture[c].session, capture[c].generation>> \in fired'
              <=> <<capture[c].session, capture[c].generation>> \in fired
          BY <2>1, <3>3
        <4> QED BY <2>5, <4>1, <4>2 DEF SupersededIffOvertaken
      <3> QED BY <3>2, <3>3
    <2> QED BY <1>1, <2>2, <2>3, <2>4, <2>5 DEF SupersededIffOvertaken
  <1> QED BY <1>4, <1>5

\* A capture that begins observes a controller that has not fired.
LEMMA ObserveExact ==
    ASSUME TypeOK, CaptureInv, NEW c \in Capture, NEW s \in Session, Observe(c, s)
    PROVE  CaptureInv'
  <1> DEFINE g == IF generation[s] = 0 THEN 1 ELSE generation[s]
  <1> USE DEF CaptureInv, GenerationsExact
  <1>1. generation \in [Session -> Nat] /\ g \in Nat /\ 1 <= g
    BY DEF TypeOK
  <1>2. /\ generation' = [generation EXCEPT ![s] = g]
        /\ capture' = [capture EXCEPT ![c] = [session |-> s, generation |-> g]]
        /\ capture[c] = NoCapture /\ fired' = fired /\ overtaken' = overtaken
    BY DEF Observe
  <1>3. capture'[c] = [session |-> s, generation |-> g]
        /\ \A d \in Capture : d # c => capture'[d] = capture[d]
    BY <1>2 DEF TypeOK
  <1>4. generation'[s] = g /\ \A t \in Session : t # s => generation'[t] = generation[t]
    BY <1>1, <1>2
  <1> HIDE DEF g
  <1>5. \A t \in Session, n \in Nat : <<t, n>> \in fired' <=> 1 <= n /\ n < generation'[t]
    <2> TAKE t \in Session, n \in Nat
    <2>1. CASE t = s
      BY <1>1, <1>2, <1>4, <2>1 DEF g
    <2>2. CASE t # s
      BY <1>1, <1>2, <1>4, <2>2
    <2> QED BY <2>1, <2>2
  <1>6. c \notin overtaken
    BY <1>2
  <1>7. ASSUME NEW d \in Capture, d # c, capture[d] # NoCapture
        PROVE  /\ 1 <= capture[d].generation
               /\ capture[d].generation <= generation'[capture[d].session]
    <2>1. capture[d].session \in Session /\ capture[d].generation \in Nat
      BY <1>7, CaptureTypes
    <2> QED BY <1>1, <1>4, <1>7, <2>1 DEF g
  <1>8. GenerationsExact'
    BY <1>1, <1>2, <1>3, <1>4, <1>5, <1>6, <1>7
  <1>9. SupersededIffOvertaken'
    <2>1. <<s, g>> \notin fired
      BY <1>1, <1>2, <1>4, <1>5
    <2> QED BY <1>2, <1>3, <1>6, <2>1 DEF SupersededIffOvertaken
  <1> QED BY <1>8, <1>9

\* Every step keeps the captures right: only start() and a capture itself matter.
LEMMA CaptureStep == TypeOK /\ CaptureInv /\ [Next]_vars => CaptureInv'
  <1> SUFFICES ASSUME TypeOK, CaptureInv, [Next]_vars PROVE CaptureInv'
    OBVIOUS
  <1>1. ASSUME UNCHANGED captureVars PROVE CaptureInv'
    BY <1>1 DEF captureVars, CaptureInv, GenerationsExact, SupersededIffOvertaken
  <1>2. ASSUME NEW c \in Capture, NEW s \in Session, Observe(c, s) PROVE CaptureInv'
    BY <1>2, ObserveExact
  <1>3. ASSUME NEW c \in Capture, Forget(c) PROVE CaptureInv'
    <2>1. /\ generation' = generation /\ fired' = fired /\ overtaken' = overtaken \ {c}
          /\ capture'[c] = NoCapture
          /\ \A d \in Capture : d # c => capture'[d] = capture[d]
      BY <1>3 DEF Forget, TypeOK
    <2> QED BY <2>1 DEF CaptureInv, GenerationsExact, SupersededIffOvertaken, TypeOK
  <1>4. ASSUME NEW l \in Lease, Start(l) PROVE CaptureInv'
    <2>1. ASSUME NEW r \in Request, NEW cancelled \in BOOLEAN, StartForeground(l, r, cancelled)
          PROVE  CaptureInv'
      BY <2>1, SupersedeExact DEF StartForeground, Request
    <2> QED BY <1>1, <1>4, <2>1 DEF Start, StartCancelled, StartBackground
  <1>5. ASSUME NEW l \in Lease,
               Output(l) \/ Delivered(l) \/ DeliveryFails(l) \/ Complete(l) \/ PipelineFails(l)
               \/ AbortLease(l)
        PROVE  CaptureInv'
    BY <1>1, <1>5 DEF Output, Emit, EmitOverBudget, EmitThrows, Delivered, DeliveryFails, Complete,
                      PipelineFails, AbortLease, Abort, Fail, Finish
  <1>6. CASE (\E s \in Session : AbortForeground(s)) \/ AbortAll
    BY <1>1, <1>6 DEF AbortForeground, AbortAll, Abort, Finish
  <1>7. CASE UNCHANGED vars
    BY <1>1, <1>7 DEF vars
  <1> QED BY <1>2, <1>3, <1>4, <1>5, <1>6, <1>7 DEF Next

\* A capture's signal fires exactly when a foreground turn of its session was
\* admitted after it began to observe.
THEOREM CapturesAlwaysSuperseded == Spec => []SupersededIffOvertaken
  <1>1. Init => CaptureInv
    BY DEF Init, CaptureInv, GenerationsExact, SupersededIffOvertaken
  <1>2. CaptureInv => SupersededIffOvertaken
    BY DEF CaptureInv
  <1>3. QED
    BY <1>1, <1>2, CaptureStep, TypeCorrect, PTL DEF Spec

-----------------------------------------------------------------------------
(* What a sink hears *)

\* What was sent, for a turn with this outcome.
EndsOnce(sent, outcome) ==
    LET n == Len(sent)
    IN  /\ \A i \in 1..n : sent[i] # "output" => i = n
        /\ outcome # "null" => n > 0 /\ sent[n] = outcome
        /\ outcome = "null" => \A i \in 1..n : sent[i] = "output"

OutcomeInv == IInv /\ OutcomeExact

\* One more event after nothing but output.
LEMMA AppendedEvent ==
    ASSUME NEW sent \in Seq(Event), EndsOnce(sent, "null")
    PROVE  /\ EndsOnce(Append(sent, "output"), "null")
           /\ \A o \in Outcome : EndsOnce(Append(sent, o), o)
  <1>1. \A e \in Event : /\ Len(Append(sent, e)) = Len(sent) + 1
                         /\ Append(sent, e)[Len(sent) + 1] = e
                         /\ \A i \in 1..Len(sent) : Append(sent, e)[i] = sent[i]
    BY AppendProperties
  <1>2. Len(sent) \in Nat /\ \A i \in 1..Len(sent) : sent[i] = "output"
    BY LenProperties DEF EndsOnce
  <1>3. QED
    BY <1>1, <1>2 DEF EndsOnce, Event, Outcome

\* Ending running turns tells each of their sinks once, and their providers
\* unless they are done; a turn that fails may be over its budget.
LEMMA FinishOutcome ==
    ASSUME IInv, OutcomeExact, NEW ls \in SUBSET {l \in Lease : Active(l)}, NEW o \in Outcome,
           terminal' = TerminalWith(ls, o), events' = EventsWith(ls, o),
           signalAborted' = IF o = "done" THEN signalAborted ELSE signalAborted \cup ls,
           \A l \in Lease : (l \in ls /\ o = "error") \/ output'[l] = output[l]
    PROVE  OutcomeExact'
  <1> USE DEF IInv, TypeOK, OutcomeExact
  <1>1. \A l \in Lease : /\ terminal'[l] = IF l \in ls THEN o ELSE terminal[l]
                         /\ events'[l] = IF l \in ls THEN Append(events[l], o) ELSE events[l]
    BY DEF TerminalWith, EventsWith
  <1>2. \A l \in ls : terminal[l] = "null"
    BY DEF Active
  <1>3. OneTerminalEvent'
    <2>1. \A l \in Lease : EndsOnce(events[l], terminal[l])
      BY DEF OneTerminalEvent, EndsOnce
    <2>2. ASSUME NEW l \in Lease PROVE EndsOnce(events'[l], terminal'[l])
      <3>1. CASE l \in ls
        <4>1. events[l] \in Seq(Event) /\ EndsOnce(events[l], "null")
          BY <1>2, <2>1, <3>1
        <4>2. EndsOnce(Append(events[l], o), o)
          BY <4>1, AppendedEvent
        <4> QED BY <1>1, <3>1, <4>2
      <3>2. CASE l \notin ls
        BY <1>1, <2>1, <3>2
      <3> QED BY <3>1, <3>2
    <2> QED BY <2>2 DEF OneTerminalEvent, EndsOnce
  <1>4. SignalMatchesOutcome'
    BY <1>1, <1>2 DEF SignalMatchesOutcome, Outcome
  <1>5. WithinBudget'
    BY <1>1, <1>2 DEF WithinBudget
  <1> QED BY <1>3, <1>4, <1>5

\* Steps that write neither an outcome, a signal, an event nor a count.
LEMMA QuietOutcome ==
    ASSUME OutcomeExact, UNCHANGED <<terminal, signalAborted, events, output>>
    PROVE  OutcomeExact'
  BY DEF OutcomeExact, OneTerminalEvent, SignalMatchesOutcome, WithinBudget

\* A lease that start() returns has heard nothing, or that it is aborted.
LEMMA StartOutcome ==
    ASSUME IInv, OutcomeExact, NEW l \in Lease, ~ Accepted(l),
           NEW old \in SUBSET {m \in Lease : Active(m)}, NEW cancelled \in BOOLEAN,
           terminal' = [TerminalWith(old, "aborted") EXCEPT
                          ![l] = IF cancelled THEN "aborted" ELSE "null"],
           events' = [EventsWith(old, "aborted") EXCEPT
                          ![l] = IF cancelled THEN <<"aborted">> ELSE <<>>],
           signalAborted' = signalAborted \cup old \cup (IF cancelled THEN {l} ELSE {}),
           output' = output
    PROVE  OutcomeExact'
  <1> USE DEF IInv, TypeOK, OutcomeExact
  <1>1. l \notin old
    BY DEF Active
  <1>2. /\ terminal'[l] = (IF cancelled THEN "aborted" ELSE "null")
        /\ events'[l] = (IF cancelled THEN <<"aborted">> ELSE <<>>)
        /\ terminal[l] = "null" /\ l \notin signalAborted
    BY DEF TerminalWith, EventsWith, FreshLeases
  <1>3. \A m \in Lease : m # l =>
            /\ terminal'[m] = IF m \in old THEN "aborted" ELSE terminal[m]
            /\ events'[m] = IF m \in old THEN Append(events[m], "aborted") ELSE events[m]
    BY DEF TerminalWith, EventsWith
  <1>4. \A m \in old : terminal[m] = "null"
    BY DEF Active
  <1>5. OneTerminalEvent'
    <2>1. \A m \in Lease : EndsOnce(events[m], terminal[m])
      BY DEF OneTerminalEvent, EndsOnce
    <2>2. ASSUME NEW m \in Lease, m # l PROVE EndsOnce(events'[m], terminal'[m])
      <3>1. CASE m \in old
        <4>1. events[m] \in Seq(Event) /\ EndsOnce(events[m], "null")
          BY <1>4, <2>1, <3>1
        <4>2. EndsOnce(Append(events[m], "aborted"), "aborted")
          BY <4>1, AppendedEvent DEF Outcome
        <4> QED BY <1>3, <2>2, <3>1, <4>2
      <3>2. CASE m \notin old
        BY <1>3, <2>1, <2>2, <3>2
      <3> QED BY <3>1, <3>2
    <2>3. EndsOnce(events'[l], terminal'[l])
      <3>1. EndsOnce(<<"aborted">>, "aborted") /\ EndsOnce(<<>>, "null")
        BY DEF EndsOnce
      <3> QED BY <1>2, <3>1
    <2>4. \A m \in Lease : EndsOnce(events'[m], terminal'[m])
      BY <2>2, <2>3
    <2> QED BY <2>4 DEF OneTerminalEvent, EndsOnce
  <1>6. SignalMatchesOutcome'
    <2>1. l \in signalAborted' <=> terminal'[l] \in {"error", "aborted"}
      BY <1>1, <1>2
    <2>2. \A m \in Lease : m # l =>
             (m \in signalAborted' <=> terminal'[m] \in {"error", "aborted"})
      BY <1>3, <1>4 DEF SignalMatchesOutcome
    <2> QED BY <2>1, <2>2 DEF SignalMatchesOutcome
  <1>7. WithinBudget'
    BY <1>2, <1>3, <1>4 DEF WithinBudget
  <1> QED BY <1>5, <1>6, <1>7

\* Output goes to the sink of a turn that runs, and within its budget.
LEMMA OutputOutcome ==
    ASSUME IInv, OutcomeExact, NEW l \in Lease, NEW t \in Nat, NEW a \in Nat,
           (\E pending \in BOOLEAN : Emit(l, t, a, pending)) \/ EmitOverBudget(l, t, a)
               \/ EmitThrows(l, t, a)
    PROVE  OutcomeExact'
  <1> USE DEF IInv, TypeOK
  <1>1. terminal[l] = "null" /\ l \notin signalAborted /\ {l} \in SUBSET {m \in Lease : Active(m)}
    BY DEF Emit, EmitOverBudget, EmitThrows, Active
  <1>2. EndsOnce(events[l], "null") /\ events[l] \in Seq(Event)
    BY <1>1 DEF OutcomeExact, OneTerminalEvent, EndsOnce
  <1>3. ASSUME NEW pending \in BOOLEAN, Emit(l, t, a, pending) PROVE OutcomeExact'
    <2>1. OneTerminalEvent'
      <3>1. events' = [events EXCEPT ![l] = Append(@, "output")] /\ terminal' = terminal
        BY <1>3 DEF Emit
      <3>2. \A m \in Lease : EndsOnce(events[m], terminal[m])
        BY DEF OutcomeExact, OneTerminalEvent, EndsOnce
      <3>3. \A m \in Lease : EndsOnce(events'[m], terminal'[m])
        BY <1>1, <1>2, <3>1, <3>2, AppendedEvent
      <3> QED BY <3>3 DEF OneTerminalEvent, EndsOnce
    <2>2. SignalMatchesOutcome'
      BY <1>3 DEF Emit, OutcomeExact, SignalMatchesOutcome
    <2>3. WithinBudget'
      <3>1. output[l].text + t <= MaxText /\ output[l].audio + a <= MaxAudio
        BY <1>3, BoundAssumption DEF Emit, AudioFits, TextFits
      <3>2. /\ output'[l].text = output[l].text + t /\ output'[l].audio = output[l].audio + a
            /\ \A m \in Lease : m # l => output'[m] = output[m]
            /\ terminal' = terminal
        BY <1>3 DEF Emit
      <3> QED BY <3>1, <3>2 DEF OutcomeExact, WithinBudget
    <2> QED BY <2>1, <2>2, <2>3 DEF OutcomeExact
  <1>4. CASE EmitOverBudget(l, t, a)
    <2>1. /\ terminal' = TerminalWith({l}, "error") /\ events' = EventsWith({l}, "error")
          /\ signalAborted' = signalAborted \cup {l}
      BY <1>4 DEF EmitOverBudget, Fail, Finish, Leave
    <2>2. \A m \in Lease : m \in {l} \/ output'[m] = output[m]
      BY <1>4 DEF EmitOverBudget
    <2> QED BY <1>1, <2>1, <2>2, FinishOutcome DEF Outcome
  <1>5. CASE EmitThrows(l, t, a)
    <2>1. /\ terminal' = TerminalWith({l}, "error")
          /\ events' = [events EXCEPT ![l] = @ \o <<"output", "error">>]
          /\ signalAborted' = signalAborted \cup {l}
          /\ \A m \in Lease : m # l => output'[m] = output[m]
      BY <1>5 DEF EmitThrows, Leave
    <2>2. /\ terminal'[l] = "error"
          /\ \A m \in Lease : m # l => terminal'[m] = terminal[m] /\ events'[m] = events[m]
      BY <2>1 DEF TerminalWith
    <2>3. EndsOnce(events'[l], "error")
      <3>1. <<"output", "error">> \in Seq(Event)
        BY DEF Event, Outcome
      <3>2. events'[l] = events[l] \o <<"output", "error">>
        BY <2>1
      <3>3. /\ Len(events'[l]) = Len(events[l]) + 2
            /\ \A i \in 1..Len(events[l]) : events'[l][i] = events[l][i]
            /\ events'[l][Len(events[l]) + 1] = "output"
            /\ events'[l][Len(events[l]) + 2] = "error"
        BY <1>2, <3>1, <3>2, ConcatProperties
      <3>4. /\ Len(events[l]) \in Nat
            /\ \A i \in 1..Len(events[l]) : events[l][i] = "output"
        BY <1>2, LenProperties DEF EndsOnce
      <3>5. ASSUME NEW i \in 1..Len(events'[l]), events'[l][i] # "output"
            PROVE  i = Len(events'[l])
        <4>1. \A n \in Nat : \A j \in 1..(n + 2) : j \in 1..n \/ j = n + 1 \/ j = n + 2
          OBVIOUS
        <4>2. i \in 1..Len(events[l]) \/ i = Len(events[l]) + 1 \/ i = Len(events[l]) + 2
          BY <3>3, <3>4, <4>1
        <4> QED BY <3>3, <3>4, <3>5, <4>2
      <3> QED BY <3>3, <3>4, <3>5 DEF EndsOnce
    <2>4. OneTerminalEvent'
      <3>1. \A m \in Lease : EndsOnce(events[m], terminal[m])
        BY DEF OutcomeExact, OneTerminalEvent, EndsOnce
      <3>2. \A m \in Lease : EndsOnce(events'[m], terminal'[m])
        BY <2>2, <2>3, <3>1
      <3> QED BY <3>2 DEF OneTerminalEvent, EndsOnce
    <2>5. SignalMatchesOutcome'
      BY <2>1, <2>2 DEF OutcomeExact, SignalMatchesOutcome
    <2>6. WithinBudget'
      BY <2>1, <2>2 DEF OutcomeExact, WithinBudget
    <2> QED BY <2>4, <2>5, <2>6 DEF OutcomeExact
  <1> QED BY <1>3, <1>4, <1>5

\* Every step keeps what the sinks heard right.
LEMMA OutcomeStep == OutcomeInv /\ [Next]_vars => OutcomeInv'
  <1> SUFFICES ASSUME IInv, OutcomeExact, [Next]_vars PROVE OutcomeExact'
    BY OwnershipStep DEF OutcomeInv
  <1>1. ASSUME NEW ls \in SUBSET {l \in Lease : Active(l)}, Abort(ls) PROVE OutcomeExact'
    BY <1>1, FinishOutcome DEF Abort, Finish, Leave, Outcome
  <1>2. ASSUME NEW l \in Lease, Active(l), Fail(l), UNCHANGED output PROVE OutcomeExact'
    <2>1. {l} \in SUBSET {m \in Lease : Active(m)}
      BY <1>2
    <2> QED BY <1>2, <2>1, FinishOutcome DEF Fail, Finish, Leave, Outcome
  <1>3. ASSUME NEW l \in Lease, NEW r \in Request, StartCancelled(l, r) PROVE OutcomeExact'
    <2>1. TerminalWith({}, "aborted") = terminal /\ EventsWith({}, "aborted") = events
      BY DEF TerminalWith, EventsWith, IInv, TypeOK
    <2>2. /\ terminal' = [TerminalWith({}, "aborted") EXCEPT
                            ![l] = IF TRUE THEN "aborted" ELSE "null"]
          /\ events' = [EventsWith({}, "aborted") EXCEPT
                            ![l] = IF TRUE THEN <<"aborted">> ELSE <<>>]
          /\ signalAborted' = signalAborted \cup {} \cup (IF TRUE THEN {l} ELSE {})
      BY <1>3, <2>1 DEF StartCancelled
    <2> QED BY <1>3, <2>2, StartOutcome DEF StartCancelled
  <1>4. ASSUME NEW l \in Lease, NEW r \in Request, NEW cancelled \in BOOLEAN,
               StartForeground(l, r, cancelled)
        PROVE  OutcomeExact'
    <2>1. Displaced(r.session) \in SUBSET {m \in Lease : Active(m)}
      BY DEF IInv, OwnershipExact, Displaced, Request
    <2> QED BY <1>4, <2>1, StartOutcome DEF StartForeground
  <1>5. ASSUME NEW l \in Lease, Start(l) PROVE OutcomeExact'
    BY <1>3, <1>4, <1>5, QuietOutcome DEF Start, StartBackground
  <1>6. ASSUME NEW l \in Lease, Output(l) PROVE OutcomeExact'
    <2>1. 0..(MaxText + 1) \subseteq Nat /\ 0..(MaxAudio + 1) \subseteq Nat
      OBVIOUS
    <2> QED BY <1>6, <2>1, OutputOutcome DEF Output
  <1>7. ASSUME NEW l \in Lease, Delivered(l) PROVE OutcomeExact'
    BY <1>7, QuietOutcome DEF Delivered
  <1>8. ASSUME NEW l \in Lease, DeliveryFails(l) PROVE OutcomeExact'
    BY <1>2, <1>8, QuietOutcome DEF DeliveryFails
  <1>9. ASSUME NEW l \in Lease, Complete(l) PROVE OutcomeExact'
    <2>1. l \notin signalAborted
      BY <1>9 DEF Complete, OutcomeExact, SignalMatchesOutcome
    <2>2. {l} \in SUBSET {m \in Lease : Active(m)}
      BY <1>9, <2>1 DEF Complete, Active
    <2> QED BY <1>9, <2>2, FinishOutcome DEF Complete, Finish, Leave, Outcome
  <1>10. ASSUME NEW l \in Lease, PipelineFails(l) PROVE OutcomeExact'
    BY <1>2, <1>10 DEF PipelineFails
  <1>11. ASSUME NEW l \in Lease, AbortLease(l) PROVE OutcomeExact'
    BY <1>1, <1>11 DEF AbortLease
  <1>12. ASSUME NEW s \in Session, AbortForeground(s) PROVE OutcomeExact'
    <2>1. {foreground[s]} \in SUBSET {l \in Lease : Active(l)}
      BY <1>12 DEF AbortForeground, IInv, TypeOK, OwnershipExact
    <2> QED BY <1>1, <1>12, <2>1 DEF AbortForeground
  <1>13. CASE AbortAll
    BY <1>1, <1>13 DEF AbortAll, IInv, OwnershipExact
  <1>14. CASE (\E c \in Capture : Forget(c) \/ \E s \in Session : Observe(c, s)) \/ UNCHANGED vars
    BY <1>14, QuietOutcome DEF Forget, Observe, vars, leaseVars
  <1> QED BY <1>5, <1>6, <1>7, <1>8, <1>9, <1>10, <1>11, <1>12, <1>13, <1>14 DEF Next

\* A sink hears one end, the outcome of its turn, as the last thing; the
\* provider's signal agrees with it; and a turn that has not failed stayed
\* within its budget.
THEOREM OutcomeAlwaysExact == Spec => []OutcomeExact
  <1>1. Init => OutcomeExact
    BY BoundAssumption DEF Init, OutcomeExact, OneTerminalEvent, SignalMatchesOutcome, WithinBudget
  <1>2. OutcomeInv => OutcomeExact
    BY DEF OutcomeInv
  <1>3. QED
    BY <1>1, <1>2, OutcomeStep, OwnershipInvariant, PTL DEF Spec, OutcomeInv

-----------------------------------------------------------------------------
(***************************************************************************)
(* The refinement of TurnOwnership: every step of the coordinator is a     *)
(* step of the abstract specification, or leaves what its callers see      *)
(* alone.  The mapping reads the state of a turn off its request and its   *)
(* outcome and its seat off the foreground map; that a displaced lease is  *)
(* a running one, and that a lease not yet returned has no outcome, is     *)
(* what the inductive invariant is needed for.                             *)
(***************************************************************************)

\* The state of one turn in the mapping of Ownership.
StateOf(l) == IF ~ Accepted(l) THEN "new"
              ELSE IF terminal[l] = "null" THEN "running" ELSE terminal[l]

MappedState == [l \in Lease |-> StateOf(l)]

\* Turns that run and leave the maps end in the abstract specification.
LEMMA LeaveEnds ==
    ASSUME TypeOK, NEW ls \in SUBSET Lease, NEW o \in Outcome, Leave(ls, o), request' = request,
           \A l \in ls : Accepted(l) /\ terminal[l] = "null"
    PROVE  Ownership!Next
<1>1. \A l \in ls : StateOf(l) = "running"
  BY DEF StateOf
<1>2. \A l \in Lease : StateOf(l)' = IF l \in ls THEN o ELSE StateOf(l)
  BY DEF StateOf, Leave, TerminalWith, Accepted, Outcome
<1>3. MappedState' = [l \in Lease |-> IF l \in ls THEN o ELSE MappedState[l]]
  BY <1>2 DEF MappedState
<1>4. foreground' = [s \in Session |-> IF foreground[s] \in ls THEN None ELSE foreground[s]]
  BY DEF Leave, ForegroundWithout
<1>5. Ownership!End(ls, o)
  BY <1>1, <1>3, <1>4
     DEF Ownership!End, Ownership!StateAfter, Ownership!SeatAfter, MappedState, StateOf
<1> QED BY <1>5 DEF Ownership!Next, Ownership!Ended, Outcome

\* Steps that write neither a request, an outcome nor the foreground.
LEMMA QuietStutters ==
    ASSUME UNCHANGED <<request, terminal, foreground>>
    PROVE  UNCHANGED Ownership!vars
BY DEF Ownership!vars, Accepted

LEMMA CancelledRefuses ==
    ASSUME IInv, NEW l \in Lease, NEW r \in Request, StartCancelled(l, r)
    PROVE  Ownership!Next
<1>1. r # NoRequest
  BY LeaseAssumption DEF Request, NoRequest
<1>2. \A m \in Lease : StateOf(m)' = IF m = l THEN "aborted" ELSE StateOf(m)
  BY <1>1 DEF StateOf, StartCancelled, Accepted, IInv, TypeOK
<1>3. MappedState' = [MappedState EXCEPT ![l] = "aborted"]
  BY <1>2 DEF MappedState
<1>4. MappedState[l] = "new" /\ foreground' = foreground
  BY DEF MappedState, StateOf, StartCancelled, ownerVars
<1>5. Ownership!Refuse(l)
  BY <1>3, <1>4 DEF Ownership!Refuse, MappedState, StateOf
<1> QED BY <1>5 DEF Ownership!Next

LEMMA BackgroundJoins ==
    ASSUME IInv, NEW l \in Lease, NEW r \in Request, StartBackground(l, r)
    PROVE  Ownership!Next
<1>1. r # NoRequest
  BY LeaseAssumption DEF Request, NoRequest
<1>2. terminal[l] = "null"
  BY DEF IInv, FreshLeases, StartBackground
<1>3. \A m \in Lease : StateOf(m)' = IF m = l THEN "running" ELSE StateOf(m)
  BY <1>1, <1>2 DEF StateOf, StartBackground, Accepted, IInv, TypeOK
<1>4. MappedState' = [MappedState EXCEPT ![l] = "running"]
  BY <1>3 DEF MappedState
<1>5. MappedState[l] = "new" /\ foreground' = foreground
  BY DEF MappedState, StateOf, StartBackground
<1>6. Ownership!Join(l)
  BY <1>4, <1>5 DEF Ownership!Join, MappedState, StateOf
<1> QED BY <1>6 DEF Ownership!Next

LEMMA ForegroundSits ==
    ASSUME IInv, NEW l \in Lease, NEW r \in Request, NEW cancelled \in BOOLEAN,
           StartForeground(l, r, cancelled)
    PROVE  Ownership!Next
<1> DEFINE s == r.session
           old == Displaced(s)
           o == IF cancelled THEN "aborted" ELSE "running"
<1>1. r # NoRequest /\ s \in Session
  BY LeaseAssumption DEF Request, NoRequest
<1>2. \A m \in old : m \in Lease /\ Accepted(m) /\ m # l
  BY <1>1 DEF IInv, OwnershipExact, Displaced, Active, StartForeground
<1>3. \A m \in Lease : StateOf(m)' = IF m = l THEN o
                                     ELSE IF m \in old THEN "aborted" ELSE StateOf(m)
  <2>1. /\ request' = [request EXCEPT ![l] = r]
        /\ terminal' = [TerminalWith(old, "aborted") EXCEPT
                          ![l] = IF cancelled THEN "aborted" ELSE "null"]
    BY DEF StartForeground
  <2>2. \A m \in Lease : m # l => /\ request'[m] = request[m]
                                  /\ terminal'[m] = IF m \in old THEN "aborted" ELSE terminal[m]
    BY <2>1 DEF TerminalWith
  <2>3. request'[l] = r /\ terminal'[l] = IF cancelled THEN "aborted" ELSE "null"
    BY <2>1 DEF TerminalWith, IInv, TypeOK
  <2> QED BY <1>1, <1>2, <2>2, <2>3 DEF StateOf, Accepted
<1>4. MappedState' = [[m \in Lease |-> IF m \in old THEN "aborted" ELSE MappedState[m]]
                        EXCEPT ![l] = o]
  BY <1>3 DEF MappedState
<1>5. MappedState[l] = "new"
  BY DEF MappedState, StateOf, StartForeground
<1>6. old = {m \in Lease : foreground[s] = m}
  BY DEF Displaced
<1>7. CASE cancelled
  <2>1. foreground' = ForegroundWithout(old)
    BY <1>1, <1>7 DEF StartForeground, ForegroundWithout
  <2>2. Ownership!SitCancelled(l, s)
    BY <1>4, <1>5, <1>6, <1>7, <2>1
       DEF Ownership!SitCancelled, Ownership!StateAfter, Ownership!SeatAfter,
           Ownership!Holder, MappedState, StateOf, ForegroundWithout
  <2> QED BY <1>1, <2>2 DEF Ownership!Next
<1>8. CASE ~ cancelled
  <2>1. foreground' = [ForegroundWithout(old) EXCEPT ![s] = l]
    BY <1>1, <1>8 DEF StartForeground
  <2>2. Ownership!Sit(l, s)
    BY <1>4, <1>5, <1>6, <1>8, <2>1
       DEF Ownership!Sit, Ownership!StateAfter, Ownership!SeatAfter,
           Ownership!Holder, MappedState, StateOf, ForegroundWithout
  <2> QED BY <1>1, <2>2 DEF Ownership!Next
<1> QED BY <1>7, <1>8

-----------------------------------------------------------------------------

LEMMA StepRefines == IInv /\ [Next]_vars => [Ownership!Next]_Ownership!vars
<1> SUFFICES ASSUME IInv, [Next]_vars PROVE Ownership!Next \/ UNCHANGED Ownership!vars
  OBVIOUS
<1>1. ASSUME NEW ls \in SUBSET Lease, \A l \in ls : Active(l), Abort(ls)
      PROVE  Ownership!Next
  BY <1>1, LeaveEnds DEF Abort, Finish, Outcome, Active, IInv
<1>2. ASSUME NEW l \in Lease, Active(l), Fail(l) PROVE Ownership!Next
  BY <1>2, LeaveEnds DEF Fail, Finish, Outcome, Active, IInv
<1>3. ASSUME NEW c \in Capture, Forget(c) \/ \E s \in Session : Observe(c, s)
      PROVE  UNCHANGED Ownership!vars
  BY <1>3, QuietStutters DEF Forget, Observe, leaseVars, ownerVars
<1>4. ASSUME NEW l \in Lease, Start(l) PROVE Ownership!Next
  BY <1>4, CancelledRefuses, ForegroundSits, BackgroundJoins DEF Start
<1>5. ASSUME NEW l \in Lease, Output(l) PROVE Ownership!Next \/ UNCHANGED Ownership!vars
  <2>1. ASSUME NEW t, NEW a, NEW pending, Emit(l, t, a, pending)
        PROVE  UNCHANGED Ownership!vars
    BY <2>1, QuietStutters DEF Emit, ownerVars
  <2>2. ASSUME NEW t, NEW a, EmitOverBudget(l, t, a) PROVE Ownership!Next
    BY <1>2, <2>2 DEF EmitOverBudget
  <2>3. ASSUME NEW t, NEW a, EmitThrows(l, t, a) PROVE Ownership!Next
    BY <2>3, LeaveEnds DEF EmitThrows, Active, Outcome, IInv
  <2> QED BY <1>5, <2>1, <2>2, <2>3 DEF Output
<1>6. ASSUME NEW l \in Lease, Delivered(l) PROVE UNCHANGED Ownership!vars
  BY <1>6, QuietStutters DEF Delivered, ownerVars
<1>7. ASSUME NEW l \in Lease, DeliveryFails(l)
      PROVE  Ownership!Next \/ UNCHANGED Ownership!vars
  BY <1>2, <1>7, QuietStutters DEF DeliveryFails, ownerVars
<1>8. ASSUME NEW l \in Lease, Complete(l) PROVE Ownership!Next
  BY <1>8, LeaveEnds DEF Complete, Finish, Outcome, IInv
<1>9. ASSUME NEW l \in Lease, PipelineFails(l) PROVE Ownership!Next
  BY <1>2, <1>9 DEF PipelineFails
<1>10. ASSUME NEW l \in Lease, AbortLease(l) PROVE Ownership!Next
  BY <1>1, <1>10 DEF AbortLease
<1>11. ASSUME NEW s \in Session, AbortForeground(s) PROVE Ownership!Next
  <2>1. foreground[s] \in Lease /\ Active(foreground[s])
    BY <1>11 DEF AbortForeground, IInv, TypeOK, OwnershipExact
  <2> QED BY <1>1, <1>11, <2>1 DEF AbortForeground
<1>12. CASE AbortAll
  BY <1>1, <1>12 DEF AbortAll, IInv, OwnershipExact
<1>13. CASE UNCHANGED vars
  BY <1>13, QuietStutters DEF vars, leaseVars, ownerVars
<1> QED
  BY <1>3, <1>4, <1>5, <1>6, <1>7, <1>8, <1>9, <1>10, <1>11, <1>12, <1>13 DEF Next

\* The coordinator keeps the promise of TurnOwnership: no turn ends twice or
\* runs again, and the turn that takes a session's foreground ends the one that
\* held it, in the same step.
THEOREM CoordinatorImplementsOwnership == Spec => ImplementsOwnership
<1>1. Init => IInv
  <2>1. Init => TypeOK
    BY LeaseAssumption, BoundAssumption DEF Init, TypeOK
  <2>2. Init => FreshLeases /\ OwnershipExact
    BY LeaseAssumption DEF Init, FreshLeases, OwnershipExact, Active, Accepted
  <2> QED BY <2>1, <2>2 DEF IInv
<1>2. Init => Ownership!Init
  BY DEF Init, Ownership!Init, Accepted
<1> QED BY <1>1, <1>2, OwnershipStep, StepRefines, PTL DEF Spec, ImplementsOwnership, Ownership!Spec
=============================================================================
