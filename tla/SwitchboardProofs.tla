------------------------- MODULE SwitchboardProofs -------------------------
(***************************************************************************)
(* Proofs about Switchboard, whatever the number of lanes, of background   *)
(* jobs, of turns and of lifecycle calls.                                  *)
(*                                                                         *)
(* None of the properties is inductive.  What becomes of a transfer        *)
(* depends on where its turn waits (AskInv), and on a line that was never  *)
(* used being known as one of a deferred transfer (LineInv).  That nothing *)
(* runs after a stop depends on somebody being left to stop what runs      *)
(* (ProcInv), which takes the order of the lifecycle calls (OpInv), what   *)
(* they wait for (StopInv), and that nothing begins behind a stop          *)
(* (ClosedInv).                                                            *)
(***************************************************************************)
EXTENDS Switchboard, SequenceTheorems, FiniteSetTheorems, TLAPS

-----------------------------------------------------------------------------
(* The inductive invariant *)

\* Operations run in the order of their calls, but for stop(), and the board is
\* open only when all are over.
OpInv ==
    /\ \A i \in 1..Len(ops) : ops[i].stage # "queued" /\ ops[i].kind # "stop" => Ready(i)
    /\ ~stopping => \A i \in 1..Len(ops) : ops[i].stage = "done"
    /\ \A i \in 1..Len(ops) :
          /\ ops[i].kind = "start" => ops[i].waits = {} /\ ops[i].stage \in {"queued", "primary", "reaping", "done"}
          /\ ops[i].kind = "stop" => ops[i].stage \in {"reaping", "done"}
          /\ ops[i].stage \in {"lane", "laneReaping"} => ops[i].at \in Lane

\* An operation that began waits for the stop of lane l.
Awaits(i, l) == l \in ops[i].waits /\ ops[i].stage \notin {"queued", "done"}
Claimed(l) == \E i \in 1..Len(ops) : Awaits(i, l)
Reaping(l) == laneStarts[l] # None /\ laneStarts[l].stage = "reaping"

\* A stop in flight is waited for.
StopInv ==
    /\ \A l \in Lane : laneStops[l] => Reaping(l) \/ Claimed(l)
    /\ \A k \in 1..Len(primaryStops) :
          /\ primaryStops[k] # {}
          /\ \A i \in primaryStops[k] : i \in 1..Len(ops) /\ ops[i].stage = "reaping"

\* The last lifecycle call was stop().
StopLast == ops # <<>> /\ Last(ops).kind = "stop"

RetiredStart(l) == laneStarts[l] # None /\ laneStarts[l].retired

\* While the board is closed no turn runs and no lane is started.
ClosedInv ==
    /\ stopping => acceptedTurn = None /\ \A l \in Lane : laneStarts[l] # None => RetiredStart(l)
    /\ \A l \in Lane : laneStarts[l] # None => l \notin started
    /\ StopLast => stopping /\ active = None /\ pending = None /\ started = {}

\* Of what runs, somebody knows, or is about to stop it.
ProcInv ==
    /\ \A l \in Lane : proc[l] # "down" => l \in started \/ laneStops[l] \/ l \in unreaped
    /\ proc[FrontDesk] # "down" => FrontDesk \in unreaped \/ primaryStops # <<>> \/ ~StopLast
    /\ proc[FrontDesk] = "late" => FrontDesk \in unreaped \/ Len(primaryStops) >= 2

\* While a start is awaited the ask is recorded, until the conversation ends.
Pins == {"pinStart", "pinUp", "pinDown"}
Pinning == Pins \cup {"pinLoop", "pinRetired"}
Recorded(turn) ==
    /\ pending # None /\ pending.lane = turn.lane /\ pending.asked = turn.asked
    /\ pending.owner = acceptedTurnSequence /\ pending.disposition = "owned"

AskInv ==
    acceptedTurn # None =>
    /\ acceptedTurn.pc \in Pinning =>
          /\ acceptedTurn.lane \in Lane
          /\ acceptedTurn.asked = acceptedTurn.gen /\ acceptedTurn.gen <= deferredGeneration
    /\ acceptedTurn.pc \in Pins => IF CalledOff THEN pending = None ELSE Recorded(acceptedTurn)
    /\ acceptedTurn.pc = "pinLoop" /\ acceptedTurn.lane \in started =>
          /\ ~CalledOff
          /\ acceptedTurn.cold => pending # None /\ pending.lane = acceptedTurn.lane
    /\ acceptedTurn.pc = "pinRetired" => RetiredStart(acceptedTurn.lane)

\* A line that was down when it was asked for, and was never used, is one of a
\* deferred transfer.
LineInv == active # None /\ ~activeFromDeferredTransfer => pin.used \/ ~pin.cold

IInv == TypeOK /\ OpInv /\ StopInv /\ ClosedInv /\ ProcInv /\ AskInv /\ LineInv /\ NothingFromOldTurns

-----------------------------------------------------------------------------
(* Steps of turns *)

\* What a turn does to nothing but itself, its ask and its voices keeps the rest.
LEMMA TurnFrame ==
    ASSUME IInv, UNCHANGED notTurn,
           acceptedTurnSequence' \in Nat, acceptedTurn' \in Turns \cup {None},
           pending' \in Transfers \cup {None}, rollcall' \in Rollcalls \cup {None},
           stopping => acceptedTurn' = None, StopLast => pending' = None,
           AskInv', NothingFromOldTurns'
    PROVE  IInv'
<1> USE DEF IInv, notTurn, pinVars, laneVars, opVars, procVars
<1>1. TypeOK'
  BY DEF TypeOK
<1>2. OpInv' /\ StopInv'
  BY DEF OpInv, Ready, StopInv, Reaping, Claimed, Awaits
<1>3. StopLast' = StopLast /\ \A l \in Lane : RetiredStart(l)' = RetiredStart(l)
  BY DEF StopLast, RetiredStart
<1>4. ClosedInv'
  BY <1>3 DEF ClosedInv
<1>5. ProcInv'
  BY <1>3 DEF ProcInv
<1>6. LineInv'
  BY DEF LineInv
<1> QED BY <1>1, <1>2, <1>4, <1>5, <1>6

\* A transfer that is left changes at most its owner, and belongs to no caller.
Handed == pending' # None => pending # None /\ pending'.asked = pending.asked /\ pending'.origin # "programmatic"

\* The same where the turn ends, or goes on to where it asks for no lane.
LEMMA PlainTurn ==
    ASSUME IInv, UNCHANGED notTurn,
           acceptedTurnSequence' \in Nat, acceptedTurn' \in Turns \cup {None},
           pending' \in Transfers \cup {None}, rollcall' \in Rollcalls \cup {None},
           stopping => acceptedTurn' = None,
           acceptedTurn' # None => acceptedTurn'.pc \notin Pinning,
           Handed, VoiceOfLatestTurn'
    PROVE  IInv'
<1>1. AskInv'
  BY DEF AskInv, Pinning
<1>2. DropIsFinal'
  BY DEF IInv, NothingFromOldTurns, AskDiesWithItsTurn, DropIsFinal, Handed, notTurn, pinVars
<1>3. ProgrammaticDiesWithCaller'
  BY DEF ProgrammaticDiesWithCaller, Handed
<1>4. NothingFromOldTurns'
  BY <1>2, <1>3 DEF NothingFromOldTurns, AskDiesWithItsTurn
<1>5. StopLast => pending' = None
  BY DEF IInv, ClosedInv, Handed
<1> QED BY <1>1, <1>4, <1>5, TurnFrame

\* What is left of a transfer when turn t is aborted.
LEMMA Aborting ==
    ASSUME IInv, NEW t \in Nat
    PROVE  /\ AfterAbort(pending, t) \in Transfers \cup {None}
           /\ AfterAbort(pending, t) # None =>
                 /\ pending # None /\ AfterAbort(pending, t).asked = pending.asked
                 /\ AfterAbort(pending, t).origin = pending.origin
           /\ t = acceptedTurnSequence /\ AfterAbort(pending, t) # None => pending.origin # "programmatic"
<1>1. pending \in Transfers \cup {None}
  BY DEF IInv, TypeOK
<1>2. AfterAbort(pending, t) \in Transfers \cup {None}
  BY <1>1 DEF AfterAbort, Transfers
<1>3. AfterAbort(pending, t) # None =>
        /\ pending # None /\ AfterAbort(pending, t).asked = pending.asked
        /\ AfterAbort(pending, t).origin = pending.origin
  BY <1>1 DEF AfterAbort, Transfers
<1>4. ASSUME t = acceptedTurnSequence, AfterAbort(pending, t) # None, pending.origin = "programmatic"
      PROVE  FALSE
  <2>1. pending # None /\ pending \in Transfers
    BY <1>1, <1>3, <1>4
  <2>2. pending.owner = t /\ (At("pinStart") \/ At("pinUp") \/ At("pinDown"))
    BY <1>4, <2>1 DEF IInv, NothingFromOldTurns, AskDiesWithItsTurn, ProgrammaticDiesWithCaller
  <2>3. acceptedTurn # None /\ acceptedTurn.pc \in Pins
    BY <2>2 DEF At, Pins
  <2>4. pending.disposition = "owned"
    BY <2>1, <2>3 DEF IInv, AskInv, Recorded
  <2> QED BY <1>4, <2>1, <2>2, <2>4 DEF AfterAbort
<1> QED BY <1>2, <1>3, <1>4

\* A turn that runs is one of an open board.
LEMMA Open ==
    ASSUME IInv, acceptedTurn # None
    PROVE  ~stopping /\ ~StopLast /\ acceptedTurn \in Turns
BY DEF IInv, ClosedInv, TypeOK

\* Where the turn does not wait for a lane, no ask of a caller is left.
LEMMA NoCaller ==
    ASSUME IInv, acceptedTurn = None \/ acceptedTurn.pc \notin Pins
    PROVE  pending # None => pending.origin # "programmatic"
BY DEF IInv, NothingFromOldTurns, AskDiesWithItsTurn, ProgrammaticDiesWithCaller, At, Pins

LEMMA AbortPreserves ==
    ASSUME IInv, Abort, UNCHANGED notTurn
    PROVE  IInv'
<1>1. acceptedTurnSequence \in Nat /\ rollcall \in Rollcalls \cup {None}
  BY DEF IInv, TypeOK
<1>2. pending' \in Transfers \cup {None} /\ Handed
  BY <1>1, Aborting DEF Abort, Handed
<1>3. VoiceOfLatestTurn'
  BY DEF Abort, Voices, VoiceOfLatestTurn, IInv, NothingFromOldTurns, At
<1>4. rollcall' \in Rollcalls \cup {None}
  BY <1>1 DEF Abort
<1> QED BY <1>1, <1>2, <1>3, <1>4, PlainTurn DEF Abort

LEMMA AcceptPreserves ==
    ASSUME IInv, NEW k \in {"spoken", "transferTo"}, Accept(k)
    PROVE  IInv'
<1> DEFINE kept == IF acceptedTurn = None THEN pending ELSE AfterAbort(pending, acceptedTurnSequence)
<1>1. acceptedTurnSequence \in Nat /\ pending \in Transfers \cup {None} /\ None \notin Turns
  BY NoneAssumption DEF IInv, TypeOK
<1>2. acceptedTurn' \in Turns /\ acceptedTurn'.pc \in {"routing", "briefing"}
  BY DEF Accept, Turns, Live, Running
<1>3. kept \in Transfers \cup {None} /\ kept # None =>
         /\ pending # None /\ kept.asked = pending.asked /\ kept.origin # "programmatic"
  BY <1>1, Aborting, NoCaller
<1>4. kept \in Transfers \cup {None}
  BY <1>1, Aborting
<1> HIDE DEF kept
<1>5. pending' = (IF k = "spoken" THEN Adopted(kept, acceptedTurnSequence') ELSE kept)
  BY DEF Accept, kept
<1>6. acceptedTurnSequence' \in Nat /\ acceptedTurnSequence' # acceptedTurnSequence
  BY <1>1 DEF Accept
<1>7. pending' \in Transfers \cup {None}
  BY <1>4, <1>5, <1>6 DEF Adopted, Transfers
<1>8. Handed
  BY <1>3, <1>4, <1>5 DEF Handed, Adopted, Transfers
<1>9. rollcall' = None /\ ~stopping /\ UNCHANGED notTurn
  BY DEF Accept, notTurn
<1>10. VoiceOfLatestTurn'
  BY <1>2, <1>9 DEF VoiceOfLatestTurn, At
<1> QED BY <1>1, <1>2, <1>6, <1>7, <1>8, <1>9, <1>10, PlainTurn DEF Pinning, Pins

\* A caller that gives up on a turn that is over, or on one that never was.
LEMMA CallerAbortsPreserves ==
    ASSUME IInv, NEW t \in 1..acceptedTurnSequence, CallerAborts(t)
    PROVE  IInv'
<1>1. acceptedTurnSequence \in Nat /\ rollcall \in Rollcalls \cup {None} /\ pending \in Transfers \cup {None}
  BY DEF IInv, TypeOK
<1>2. CASE t = acceptedTurnSequence /\ acceptedTurn # None
  BY <1>2, AbortPreserves DEF CallerAborts
<1>3. CASE ~(t = acceptedTurnSequence /\ acceptedTurn # None)
  <2>1. /\ pending' = AfterAbort(pending, t) /\ rollcall' = (IF Voices(t) THEN None ELSE rollcall)
        /\ UNCHANGED turnVars /\ UNCHANGED notTurn
    BY <1>3 DEF CallerAborts
  <2>2. VoiceOfLatestTurn'
    BY <1>3, <2>1 DEF IInv, NothingFromOldTurns, VoiceOfLatestTurn, Voices, At, turnVars
  <2>3. pending' \in Transfers \cup {None} /\ rollcall' \in Rollcalls \cup {None}
    BY <1>1, <2>1, Aborting
  <2>4. CASE acceptedTurn # None /\ acceptedTurn.pc \in Pinning
    <3>1. acceptedTurn.pc \in Pins => pending' = pending
      BY <1>3, <2>1, <2>4 DEF IInv, AskInv, Recorded, AfterAbort, CalledOff
    <3>2. acceptedTurn.pc \notin Pins /\ pending # None => pending.origin # "programmatic"
      BY NoCaller
    <3>3. pending' # None => /\ pending # None /\ pending'.lane = pending.lane
                             /\ pending'.asked = pending.asked /\ pending'.origin = pending.origin
      BY <1>1, <2>1 DEF AfterAbort, Transfers
    <3>4. AskInv'
      <4>1. CASE acceptedTurn.pc = "pinLoop"
        <5>1. Quiet
          BY DEF CallerAborts
        <5> QED BY <4>1, <5>1, <2>4 DEF Quiet, At, Running
      <4>2. CASE acceptedTurn.pc # "pinLoop"
        BY <2>1, <2>4, <3>1, <4>2 DEF IInv, AskInv, Recorded, CalledOff, RetiredStart, turnVars, notTurn, laneVars, pinVars
      <4> QED BY <4>1, <4>2
    <3>5. NothingFromOldTurns'
      <4>1. DropIsFinal'
        BY <2>1, <3>3 DEF IInv, NothingFromOldTurns, AskDiesWithItsTurn, DropIsFinal, notTurn, pinVars
      <4>2. ProgrammaticDiesWithCaller'
        BY <2>1, <3>1, <3>2, <3>3 DEF IInv, NothingFromOldTurns, AskDiesWithItsTurn, ProgrammaticDiesWithCaller, turnVars, At
      <4> QED BY <2>2, <4>1, <4>2 DEF NothingFromOldTurns, AskDiesWithItsTurn
    <3>6. StopLast => pending' = None
      BY <3>3 DEF IInv, ClosedInv
    <3>7. acceptedTurnSequence' \in Nat /\ acceptedTurn' \in Turns \cup {None} /\ (stopping => acceptedTurn' = None)
      BY <2>1 DEF IInv, TypeOK, ClosedInv, turnVars
    <3> QED BY <2>1, <2>3, <3>4, <3>5, <3>6, <3>7, TurnFrame
  <2>5. CASE ~(acceptedTurn # None /\ acceptedTurn.pc \in Pinning)
    <3>1. Handed
      BY <1>1, <2>1, <2>5, Aborting, NoCaller DEF Handed, Pinning
    <3>2. /\ acceptedTurnSequence' \in Nat /\ acceptedTurn' \in Turns \cup {None}
          /\ stopping => acceptedTurn' = None
          /\ acceptedTurn' # None => acceptedTurn'.pc \notin Pinning
      BY <2>1, <2>5 DEF IInv, TypeOK, ClosedInv, turnVars
    <3> QED BY <2>1, <2>2, <2>3, <3>1, <3>2, PlainTurn
  <2> QED BY <2>4, <2>5
<1> QED BY <1>2, <1>3

LEMMA FailsPreserves ==
    ASSUME IInv, Fails
    PROVE  IInv'
BY AbortPreserves DEF Fails

\* The turn goes on to c, or ends, and touches nothing else.
LEMMA Onward ==
    ASSUME IInv, acceptedTurn # None, acceptedTurn.pc \notin Pins,
           NEW c \in Live, c \notin Pinning, Goto(c) \/ Reply,
           UNCHANGED notTurn, UNCHANGED pending,
           rollcall' \in Rollcalls \cup {None}, VoiceOfLatestTurn'
    PROVE  IInv'
<1>1. acceptedTurn \in Turns /\ ~stopping
  BY Open
<1>2. acceptedTurnSequence \in Nat /\ pending \in Transfers \cup {None}
  BY DEF IInv, TypeOK
<1>3. acceptedTurn' \in Turns \cup {None} /\ (acceptedTurn' # None => acceptedTurn'.pc \notin Pinning)
  BY <1>1 DEF Goto, Reply, Turns
<1>4. Handed
  BY NoCaller DEF Handed
<1> QED BY <1>1, <1>2, <1>3, <1>4, PlainTurn DEF Goto, Reply

LEMMA AcknowledgesPreserves ==
    ASSUME IInv, Acknowledges
    PROVE  IInv'
<1>1. acceptedTurn # None /\ acceptedTurn.pc \in {"routing", "dialing", "briefing"}
  BY DEF Acknowledges, At
<1>2. Reply /\ UNCHANGED <<notTurn, pending, rollcall>>
  BY DEF Acknowledges
<1>3. VoiceOfLatestTurn'
  BY <1>1, <1>2 DEF IInv, NothingFromOldTurns, VoiceOfLatestTurn, At, Reply
<1>4. rollcall' \in Rollcalls \cup {None}
  BY <1>2 DEF IInv, TypeOK
<1>5. "answering" \in Live /\ "answering" \notin Pinning
  BY DEF Live, Pinning, Pins
<1> QED BY <1>1, <1>2, <1>3, <1>4, <1>5, Onward DEF Pins

LEMMA ClassifiesPreserves ==
    ASSUME IInv, Classifies \/ Classified
    PROVE  IInv'
<1>1. acceptedTurn # None /\ acceptedTurn.pc \in {"routing", "classifying"}
  BY DEF Classifies, Classified, At
<1>2. PICK c \in {"classifying", "planning"} : Goto(c) /\ UNCHANGED <<notTurn, pending, rollcall>>
  BY DEF Classifies, Classified
<1>3. VoiceOfLatestTurn'
  BY <1>1, <1>2, NoneAssumption, Open DEF IInv, NothingFromOldTurns, VoiceOfLatestTurn, At, Goto, Turns
<1>4. rollcall' \in Rollcalls \cup {None}
  BY <1>2 DEF IInv, TypeOK
<1>5. c \in Live /\ c \notin Pinning
  BY DEF Live, Running, Pinning, Pins
<1> QED BY <1>1, <1>2, <1>3, <1>4, <1>5, Onward DEF Pins

LEMMA RollcallTypes ==
    ASSUME IInv
    PROVE  /\ Cardinality(Lane) \in Nat
           /\ \A s \in BOOLEAN, v, n \in Nat :
                 [turn |-> acceptedTurnSequence, sealed |-> s, voices |-> v, said |-> n] \in Rollcalls
           /\ None \notin Rollcalls
<1>1. Cardinality(Lane) \in Nat
  BY LaneAssumption, FS_CardinalityType
<1> QED BY <1>1, NoneAssumption DEF IInv, TypeOK, Rollcalls

LEMMA RollcallPreserves ==
    ASSUME IInv, DoRollcall \/ StartStandup
    PROVE  IInv'
<1>1. acceptedTurn # None /\ acceptedTurn.pc \in {"routing", "planning", "answering"}
  BY DEF DoRollcall, StartStandup, Asks, At
<1>2. "standup" \in Live /\ "standup" \notin Pinning /\ acceptedTurn \in Turns
  BY <1>1, Open DEF Live, Pinning, Pins
<1>3. UNCHANGED <<notTurn, pending>> /\ (Goto("standup") \/ Reply)
  BY DEF DoRollcall, StartStandup
<1>4. rollcall' \in Rollcalls
  BY RollcallTypes DEF DoRollcall, StartStandup
<1>5. VoiceOfLatestTurn'
  <2>1. CASE DoRollcall
    BY <2>1 DEF DoRollcall, VoiceOfLatestTurn, At, Reply
  <2>2. CASE StartStandup
    <3>1. acceptedTurn'.pc = "standup" /\ acceptedTurn' # None
      BY <1>2, <2>2, NoneAssumption DEF StartStandup, Goto, Turns
    <3>2. rollcall' # None /\ ~rollcall'.sealed /\ rollcall'.turn = acceptedTurnSequence'
      BY <1>4, <2>2, RollcallTypes DEF StartStandup, Goto
    <3> QED BY <3>1, <3>2 DEF VoiceOfLatestTurn, At
  <2> QED BY <2>1, <2>2
<1> QED BY <1>1, <1>2, <1>3, <1>4, <1>5, Onward DEF Pins

\* A step of the voices alone.
LEMMA VoicesOnly ==
    ASSUME IInv, UNCHANGED notTurn, UNCHANGED turnVars, UNCHANGED pending,
           rollcall' \in Rollcalls \cup {None}, VoiceOfLatestTurn'
    PROVE  IInv'
<1>1. AskInv'
  BY DEF IInv, AskInv, Recorded, CalledOff, RetiredStart, turnVars, notTurn, laneVars
<1>2. NothingFromOldTurns'
  BY DEF IInv, NothingFromOldTurns, AskDiesWithItsTurn, DropIsFinal, ProgrammaticDiesWithCaller,
         At, turnVars, notTurn, pinVars
<1>3. /\ acceptedTurnSequence' \in Nat /\ acceptedTurn' \in Turns \cup {None} /\ pending' \in Transfers \cup {None}
      /\ stopping => acceptedTurn' = None
      /\ StopLast => pending' = None
  BY DEF IInv, TypeOK, ClosedInv, turnVars
<1> QED BY <1>1, <1>2, <1>3, TurnFrame

LEMMA StandupPreserves ==
    ASSUME IInv, StandupSpeaks \/ StandupEnds
    PROVE  IInv'
<1>1. /\ acceptedTurn # None /\ acceptedTurn.pc = "standup"
      /\ rollcall # None /\ ~rollcall.sealed /\ rollcall.turn = acceptedTurnSequence
  BY DEF StandupSpeaks, StandupEnds, IInv, NothingFromOldTurns, VoiceOfLatestTurn, At
<1>2. rollcall \in Rollcalls /\ None \notin Rollcalls
  BY <1>1, NoneAssumption DEF IInv, TypeOK
<1>3. CASE StandupSpeaks
  <2>1. rollcall' = [rollcall EXCEPT !.said = @ + 1, !.voices = @ + 1] /\ UNCHANGED <<notTurn, turnVars, pending>>
    BY <1>3 DEF StandupSpeaks
  <2> DEFINE said == rollcall.said + 1
             voices == rollcall.voices + 1
  <2>2. said \in Nat /\ voices \in Nat
    BY <1>2 DEF Rollcalls
  <2>2a. rollcall' = [rollcall EXCEPT !.said = said, !.voices = voices]
    BY <2>1
  <2> HIDE DEF said, voices
  <2>2b. rollcall' \in Rollcalls /\ ~rollcall'.sealed /\ rollcall'.turn = acceptedTurnSequence
    BY <1>1, <1>2, <2>2, <2>2a DEF Rollcalls
  <2>3. VoiceOfLatestTurn'
    BY <1>1, <1>2, <2>1, <2>2b DEF VoiceOfLatestTurn, At, turnVars
  <2> QED BY <2>1, <2>2b, <2>3, VoicesOnly
<1>4. CASE StandupEnds
  <2>1. Reply /\ UNCHANGED <<notTurn, pending>> /\ rollcall' = (IF rollcall.voices = 0 THEN None ELSE [rollcall EXCEPT !.sealed = TRUE])
    BY <1>4 DEF StandupEnds
  <2>2. rollcall' = None \/ (rollcall' \in Rollcalls /\ rollcall'.sealed /\ rollcall'.turn = acceptedTurnSequence)
    BY <1>1, <1>2, <2>1 DEF Rollcalls
  <2>3. VoiceOfLatestTurn'
    BY <2>1, <2>2 DEF VoiceOfLatestTurn, At, Reply
  <2>4. "answering" \in Live /\ "answering" \notin Pinning
    BY DEF Live, Pinning, Pins
  <2> QED BY <1>1, <2>1, <2>2, <2>3, <2>4, Onward DEF Pins
<1> QED BY <1>3, <1>4

LEMMA VoicesPreserve ==
    ASSUME IInv, TakeVoice \/ DiscardVoices
    PROVE  IInv'
<1>1. rollcall # None /\ rollcall \in Rollcalls /\ None \notin Rollcalls
  BY NoneAssumption DEF TakeVoice, DiscardVoices, IInv, TypeOK
<1>2. VoiceOfLatestTurn
  BY DEF IInv, NothingFromOldTurns
<1>3. CASE TakeVoice
  <2>1. UNCHANGED <<notTurn, turnVars, pending>> /\ rollcall.voices > 0
    BY <1>3 DEF TakeVoice
  <2>2. CASE rollcall.sealed /\ rollcall.voices = 1
    <3>1. rollcall' = None
      BY <1>3, <2>2 DEF TakeVoice
    <3>2. VoiceOfLatestTurn'
      BY <1>2, <2>1, <2>2, <3>1 DEF VoiceOfLatestTurn, At, turnVars
    <3> QED BY <2>1, <3>1, <3>2, VoicesOnly
  <2>3. CASE ~(rollcall.sealed /\ rollcall.voices = 1)
    <3>1. rollcall' = [rollcall EXCEPT !.voices = @ - 1]
      BY <1>3, <2>3 DEF TakeVoice
    <3>2. rollcall' \in Rollcalls /\ rollcall'.sealed = rollcall.sealed /\ rollcall'.turn = rollcall.turn
      BY <1>1, <2>1, <3>1 DEF Rollcalls
    <3>3. VoiceOfLatestTurn'
      BY <1>1, <1>2, <2>1, <3>2 DEF VoiceOfLatestTurn, At, turnVars
    <3> QED BY <2>1, <3>2, <3>3, VoicesOnly
  <2> QED BY <2>2, <2>3
<1>4. CASE DiscardVoices
  <2>1. CASE rollcall.sealed
    <3>1. rollcall' = None /\ UNCHANGED <<notTurn, turnVars, pending>>
      BY <1>4, <2>1 DEF DiscardVoices
    <3>2. VoiceOfLatestTurn'
      BY <1>2, <2>1, <3>1 DEF VoiceOfLatestTurn, At, turnVars
    <3> QED BY <3>1, <3>2, VoicesOnly
  <2>2. CASE ~rollcall.sealed
    BY <1>4, <2>2, AbortPreserves DEF DiscardVoices
  <2> QED BY <2>1, <2>2
<1> QED BY <1>3, <1>4

LEMMA DialPreserves ==
    ASSUME IInv, Dial
    PROVE  IInv'
<1>1. acceptedTurn # None /\ acceptedTurn.pc \in {"routing", "planning"}
  BY DEF Dial, Asks, At
<1>2. acceptedTurn \in Turns /\ ~stopping /\ None \notin Turns
  BY <1>1, Open, NoneAssumption
<1>3. /\ acceptedTurn' = [acceptedTurn EXCEPT !.pc = "dialing", !.kind = "dial"]
      /\ UNCHANGED <<notTurn, acceptedTurnSequence, pending, rollcall>>
  BY DEF Dial
<1>4. acceptedTurn' \in Turns /\ acceptedTurn'.pc = "dialing"
  BY <1>2, <1>3 DEF Turns, Live
<1>5. VoiceOfLatestTurn'
  BY <1>1, <1>2, <1>3, <1>4 DEF IInv, NothingFromOldTurns, VoiceOfLatestTurn, At
<1>6. Handed
  BY <1>1, <1>3, NoCaller DEF Handed, Pins
<1>7. acceptedTurnSequence \in Nat /\ pending \in Transfers \cup {None} /\ rollcall \in Rollcalls \cup {None}
  BY DEF IInv, TypeOK
<1> QED BY <1>2, <1>3, <1>4, <1>5, <1>6, <1>7, PlainTurn DEF Pinning, Pins

-----------------------------------------------------------------------------
(* Steps that ask for a lane, and those that release it *)

TurnTypes ==
    /\ acceptedTurnSequence \in Nat /\ acceptedTurn \in Turns \cup {None}
    /\ pending \in Transfers \cup {None} /\ rollcall \in Rollcalls \cup {None}
    /\ active \in Lane \cup {None} /\ activeFromDeferredTransfer \in BOOLEAN
    /\ deferredGeneration \in Nat /\ pin \in [asked : Nat, cold : BOOLEAN, used : BOOLEAN]

JobTypes == jobs \in [Job -> [pc : {"new", "loop", "waitStart", "waitRetired", "done"}, lane : Lane \cup {None}]]

\* No start begins, or that of a lane that is down.
MayStart ==
    \/ UNCHANGED laneStarts
    \/ ~stopping /\ \E l \in Lane \ started : StartLane(l)

LEMMA StartTypes ==
    ASSUME IInv, MayStart
    PROVE  /\ laneStarts' \in [Lane -> LaneStarts \cup {None}]
           /\ \A l \in Lane :
                 /\ laneStarts[l] # None => laneStarts'[l] = laneStarts[l]
                 /\ laneStarts'[l] # None => laneStarts[l] # None \/ (~stopping /\ l \notin started)
<1>1. laneStarts \in [Lane -> LaneStarts \cup {None}] /\ Fresh \in LaneStarts
  BY DEF IInv, TypeOK, Fresh, LaneStarts
<1> QED BY <1>1 DEF MayStart, StartLane

\* A step that may begin a start and ends none keeps what belongs to lanes,
\* agents and lifecycle calls.
LEMMA BoardFrame ==
    ASSUME IInv, UNCHANGED <<opVars, procVars, budget, started, laneStops>>, MayStart,
           TurnTypes', JobTypes',
           stopping => acceptedTurn' = None, StopLast => pending' = None /\ active' = None,
           AskInv', LineInv', NothingFromOldTurns'
    PROVE  IInv'
<1>1. TypeOK'
  BY StartTypes DEF IInv, TypeOK, TurnTypes, JobTypes, opVars, procVars
<1>2. OpInv'
  BY DEF IInv, OpInv, Ready, opVars
<1>2a. \A l \in Lane :
        /\ laneStarts[l] # None => laneStarts'[l] = laneStarts[l]
        /\ laneStarts'[l] # None => laneStarts[l] # None \/ (~stopping /\ l \notin started)
  BY StartTypes
<1>3. ASSUME NEW l \in Lane
      PROVE  (Reaping(l) => Reaping(l)') /\ (Claimed(l) => Claimed(l)')
  <2>1. Reaping(l) => Reaping(l)'
    BY <1>2a DEF Reaping
  <2>2. Claimed(l) => Claimed(l)'
    BY DEF Claimed, Awaits, opVars
  <2> QED BY <2>1, <2>2
<1>4. StopInv'
  BY <1>3 DEF IInv, StopInv, opVars
<1>5. StopLast' = StopLast
  BY DEF StopLast, opVars
<1>6. ASSUME stopping, NEW l \in Lane, laneStarts'[l] # None
      PROVE  RetiredStart(l)'
  <2>1. laneStarts' = laneStarts
    BY <1>6 DEF MayStart
  <2> QED BY <1>6, <2>1 DEF IInv, ClosedInv, RetiredStart
<1>7. ClosedInv'
  BY <1>5, <1>6, <1>2a DEF IInv, ClosedInv, opVars
<1>8. ProcInv'
  BY <1>5 DEF IInv, ProcInv, opVars, procVars
<1> QED BY <1>1, <1>2, <1>4, <1>7, <1>8 DEF IInv

LEMMA Types ==
    ASSUME IInv
    PROVE  TurnTypes /\ JobTypes
BY DEF IInv, TypeOK, TurnTypes, JobTypes

\* The turn at an await of its pin, and no standup of it.
LEMMA NoStandup ==
    ASSUME IInv, acceptedTurn # None, acceptedTurn.pc # "standup",
           rollcall' = rollcall, acceptedTurnSequence' = acceptedTurnSequence,
           acceptedTurn' # None => acceptedTurn'.pc # "standup"
    PROVE  VoiceOfLatestTurn'
BY DEF IInv, NothingFromOldTurns, VoiceOfLatestTurn, At

LEMMA EndPinMoves ==
    ASSUME IInv, acceptedTurn # None, EndPin
    PROVE  /\ acceptedTurn' \in Turns \cup {None} /\ acceptedTurnSequence' = acceptedTurnSequence
           /\ acceptedTurn' # None => acceptedTurn'.pc = "dialing"
<1>1. acceptedTurn \in Turns
  BY Open
<1> QED BY <1>1 DEF EndPin, Goto, Reply, Turns, Live

\* The ask is over without a pin.
LEMMA GivenUp ==
    ASSUME IInv, acceptedTurn # None, acceptedTurn.pc \in Pinning, GiveUp,
           UNCHANGED <<opVars, procVars, deferredGeneration, rollcall, budget>>
    PROVE  IInv'
<1>1. ~stopping /\ ~StopLast /\ TurnTypes /\ JobTypes /\ EndPin
  BY Open, Types DEF GiveUp
<1>2. pending' = None /\ UNCHANGED <<pinVars, laneVars, jobs>>
  BY DEF GiveUp
<1>3. TurnTypes' /\ JobTypes'
  BY <1>1, <1>2, EndPinMoves DEF TurnTypes, JobTypes, pinVars
<1>4. AskInv'
  BY <1>1, EndPinMoves DEF AskInv, Pinning, Pins
<1>5. LineInv'
  BY <1>2 DEF IInv, LineInv, pinVars
<1>6. VoiceOfLatestTurn'
  BY <1>1, EndPinMoves, NoStandup DEF Pinning, Pins
<1>7. NothingFromOldTurns'
  BY <1>2, <1>6 DEF IInv, NothingFromOldTurns, AskDiesWithItsTurn, DropIsFinal, ProgrammaticDiesWithCaller, pinVars
<1>8. MayStart
  BY <1>2 DEF MayStart, laneVars
<1> QED BY <1>1, <1>2, <1>3, <1>4, <1>5, <1>7, <1>8, BoardFrame DEF laneVars

\* The pin is taken, in the conversation it was asked for in.
LEMMA Concluded ==
    ASSUME IInv, acceptedTurn # None, acceptedTurn.pc \in Pinning, ~CalledOff, Conclude,
           acceptedTurn.cold => pending # None /\ pending.lane = acceptedTurn.lane,
           UNCHANGED <<opVars, procVars, deferredGeneration, rollcall, budget>>
    PROVE  IInv'
<1>1. ~stopping /\ ~StopLast /\ TurnTypes /\ JobTypes /\ EndPin /\ acceptedTurn \in Turns
  BY Open, Types DEF Conclude
<1>2. /\ activeFromDeferredTransfer' = (pending # None /\ pending.lane = acceptedTurn.lane)
      /\ pending' = None /\ active' = acceptedTurn.lane
      /\ pin' = [asked |-> acceptedTurn.asked, cold |-> acceptedTurn.cold, used |-> FALSE]
      /\ UNCHANGED <<laneVars, jobs>>
  BY DEF Conclude
<1>3. acceptedTurn.lane \in Lane /\ acceptedTurn.asked = deferredGeneration
  BY DEF IInv, AskInv, CalledOff
<1>4. pin' \in [asked : Nat, cold : BOOLEAN, used : BOOLEAN] /\ pin'.asked = deferredGeneration /\ pin'.cold = acceptedTurn.cold
  BY <1>1, <1>2, <1>3 DEF Turns
<1>5. activeFromDeferredTransfer' \in BOOLEAN
  BY <1>2
<1>6. TurnTypes' /\ JobTypes'
  BY <1>1, <1>2, <1>3, <1>4, <1>5, EndPinMoves DEF TurnTypes, JobTypes
<1>7. AskInv'
  BY <1>1, EndPinMoves DEF AskInv, Pinning, Pins
<1>8. LineInv'
  BY <1>2, <1>4 DEF LineInv
<1>9. VoiceOfLatestTurn'
  BY <1>1, EndPinMoves, NoStandup DEF Pinning, Pins
<1>10. NothingFromOldTurns'
  BY <1>2, <1>4, <1>9 DEF NothingFromOldTurns, AskDiesWithItsTurn, DropIsFinal, ProgrammaticDiesWithCaller
<1>11. MayStart
  BY <1>2 DEF MayStart, laneVars
<1> QED BY <1>1, <1>2, <1>6, <1>7, <1>8, <1>10, <1>11, BoardFrame DEF laneVars

LEMMA PinResumesPreserves ==
    ASSUME IInv, PinResumes
    PROVE  IInv'
<1>1. acceptedTurn # None /\ acceptedTurn.pc \in {"pinUp", "pinDown"}
  BY DEF PinResumes, At
<1>2. acceptedTurn.pc \in Pins /\ acceptedTurn.pc \in Pinning
  BY <1>1 DEF Pins, Pinning
<1>3. ~CalledOff => pending # None /\ pending.lane = acceptedTurn.lane
  BY <1>1, <1>2 DEF IInv, AskInv, Recorded
<1> QED BY <1>1, <1>2, <1>3, GivenUp, Concluded DEF PinResumes

LEMMA PinLoopPreserves ==
    ASSUME IInv, PinLoop
    PROVE  IInv'
<1> DEFINE l == acceptedTurn.lane
<1>1. acceptedTurn # None /\ acceptedTurn.pc = "pinLoop"
  BY DEF PinLoop, At
<1>2. acceptedTurn.pc \in Pinning /\ acceptedTurn.pc \notin Pins
  BY <1>1 DEF Pinning, Pins
<1>3. acceptedTurn \in Turns /\ ~stopping /\ ~StopLast /\ None \notin Turns \cup Transfers \cup LaneStarts
  BY <1>1, Open, NoneAssumption
<1>4. UNCHANGED <<opVars, procVars, deferredGeneration, rollcall, budget>>
  BY DEF PinLoop
<1>5. l \in Lane /\ acceptedTurn.asked = acceptedTurn.gen
  BY <1>1, <1>2 DEF IInv, AskInv
<1>6. CASE l \in started /\ Conclude
  <2>1. ~CalledOff /\ (acceptedTurn.cold => pending # None /\ pending.lane = acceptedTurn.lane)
    BY <1>1, <1>6 DEF IInv, AskInv
  <2> QED BY <1>1, <1>2, <1>4, <1>6, <2>1, Concluded
<1>7. CASE CalledOff /\ GiveUp
  BY <1>1, <1>2, <1>4, <1>7, GivenUp
<1>8. CASE l \notin started /\ ~CalledOff /\ RetiredStart(l) /\ Goto("pinRetired")
           /\ UNCHANGED <<pending, laneStarts, pinVars, started, laneStops, jobs>>
  <2>1. acceptedTurn' \in Turns /\ acceptedTurn' = [acceptedTurn EXCEPT !.pc = "pinRetired"] /\ acceptedTurn'.pc = "pinRetired"
    BY <1>3, <1>8 DEF Goto, Turns, Live
  <2>2. acceptedTurn'.lane = l /\ acceptedTurn'.asked = acceptedTurn.asked /\ acceptedTurn'.gen = acceptedTurn.gen
    BY <1>3, <2>1 DEF Turns
  <2>3. acceptedTurnSequence' = acceptedTurnSequence
    BY <1>8 DEF Goto
  <2>4. TurnTypes' /\ JobTypes' /\ MayStart
    BY <1>4, <1>8, <2>1, <2>3, Types DEF TurnTypes, JobTypes, pinVars, MayStart
  <2>5a. deferredGeneration' = deferredGeneration /\ acceptedTurn.gen <= deferredGeneration
    BY <1>1, <1>2, <1>4 DEF IInv, AskInv
  <2>6. AskInv'
    <3>1. RetiredStart(acceptedTurn.lane)'
      BY <2>2, <1>8 DEF RetiredStart
    <3> QED BY <1>5, <2>1, <2>2, <2>5a, <3>1 DEF AskInv, Pins
  <2>7. LineInv'
    BY <1>8 DEF IInv, LineInv, pinVars
  <2>8. VoiceOfLatestTurn'
    BY <1>1, <1>4, <2>1, <2>3, NoStandup
  <2>9. pending # None => pending.origin # "programmatic"
    BY <1>2, NoCaller
  <2>10. NothingFromOldTurns'
    BY <1>4, <1>8, <2>8, <2>9 DEF IInv, NothingFromOldTurns, AskDiesWithItsTurn, DropIsFinal, ProgrammaticDiesWithCaller, pinVars
  <2> QED BY <1>3, <1>4, <1>8, <2>4, <2>6, <2>7, <2>10, BoardFrame
<1>9. CASE l \notin started /\ ~CalledOff /\ Goto("pinStart") /\ SetPending /\ StartLane(l)
           /\ UNCHANGED <<pinVars, started, laneStops, jobs>>
  <2>1. acceptedTurn' \in Turns /\ acceptedTurn' = [acceptedTurn EXCEPT !.pc = "pinStart"] /\ acceptedTurn'.pc = "pinStart"
    BY <1>3, <1>9 DEF Goto, Turns, Live
  <2>2. acceptedTurn'.lane = l /\ acceptedTurn'.asked = acceptedTurn.asked /\ acceptedTurn'.gen = acceptedTurn.gen
    BY <1>3, <2>1 DEF Turns
  <2>3. acceptedTurnSequence' = acceptedTurnSequence /\ acceptedTurnSequence \in Nat
    BY <1>9 DEF Goto, IInv, TypeOK
  <2>4. /\ pending' \in Transfers /\ pending'.lane = l /\ pending'.owner = acceptedTurnSequence
        /\ pending'.disposition = "owned" /\ pending'.asked = acceptedTurn.asked
    BY <1>3, <1>5, <1>9, <2>3 DEF SetPending, Transfers, Turns
  <2>5. TurnTypes' /\ JobTypes' /\ MayStart
    BY <1>3, <1>4, <1>5, <1>9, <2>1, <2>3, <2>4, Types DEF TurnTypes, JobTypes, pinVars, MayStart
  <2>6. deferredGeneration' = deferredGeneration /\ acceptedTurn.gen = deferredGeneration
    BY <1>4, <1>9 DEF CalledOff
  <2>6a. acceptedTurn.gen <= deferredGeneration
    BY <1>1, <1>2 DEF IInv, AskInv
  <2>7. AskInv'
    <3>1. pending' # None
      BY <1>3, <2>4
    <3>2. Recorded(acceptedTurn)'
      BY <2>2, <2>3, <2>4, <3>1 DEF Recorded
    <3> QED BY <1>5, <2>1, <2>2, <2>6, <2>6a, <3>2 DEF AskInv, CalledOff
  <2>8. LineInv'
    BY <1>9 DEF IInv, LineInv, pinVars
  <2>9. VoiceOfLatestTurn'
    BY <1>1, <1>4, <2>1, <2>3, NoStandup
  <2>10. DropIsFinal'
    BY <1>4, <1>5, <1>9, <2>4, <2>6 DEF IInv, NothingFromOldTurns, AskDiesWithItsTurn, DropIsFinal, pinVars
  <2>11. ProgrammaticDiesWithCaller'
    BY <1>3, <2>1, <2>3, <2>4 DEF ProgrammaticDiesWithCaller, At
  <2> QED BY <1>3, <1>4, <1>9, <2>5, <2>7, <2>8, <2>9, <2>10, <2>11, BoardFrame DEF NothingFromOldTurns, AskDiesWithItsTurn
<1> QED BY <1>6, <1>7, <1>8, <1>9 DEF PinLoop, RetiredStart

LEMMA ResolvePendingPreserves ==
    ASSUME IInv, ResolvePending
    PROVE  IInv'
<1>1. acceptedTurn # None /\ acceptedTurn.pc = "planning" /\ UNCHANGED <<notTurn, rollcall>>
  BY DEF ResolvePending, At
<1>2. acceptedTurn \in Turns /\ ~stopping /\ ~StopLast /\ None \notin Turns
  BY <1>1, Open, NoneAssumption
<1>3. TurnTypes
  BY Types
<1>4. CASE acceptedTurn' = None \/ Goto("answering")
  <2>1. acceptedTurnSequence' = acceptedTurnSequence /\ (pending' = pending \/ pending' = None)
    BY <1>4, <1>2 DEF ResolvePending, Goto, Reply
  <2>2. acceptedTurn' \in Turns \cup {None} /\ (acceptedTurn' # None => acceptedTurn'.pc = "answering")
    BY <1>2, <1>4 DEF Goto, Turns, Live
  <2>3. VoiceOfLatestTurn'
    BY <1>1, <2>1, <2>2, NoStandup
  <2>4. Handed
    BY <1>1, <2>1, NoCaller DEF Handed, Pins
  <2> QED BY <1>1, <1>2, <1>3, <2>1, <2>2, <2>3, <2>4, PlainTurn DEF TurnTypes, Pinning, Pins
<1>5. CASE /\ pending # None /\ pending.lane \in started
           /\ acceptedTurn' = [acceptedTurn EXCEPT !.pc = "pinLoop", !.lane = pending.lane, !.cold = TRUE,
                                       !.gen = deferredGeneration, !.asked = pending.asked]
           /\ UNCHANGED <<acceptedTurnSequence, pending>>
  <2>1. pending \in Transfers /\ pending.lane \in Lane /\ pending.asked \in Nat /\ deferredGeneration \in Nat
    BY <1>3, <1>5 DEF TurnTypes, Transfers
  <2>2. pending.asked = deferredGeneration
    BY <1>5 DEF IInv, NothingFromOldTurns, AskDiesWithItsTurn, DropIsFinal
  <2>3. /\ acceptedTurn' \in Turns /\ acceptedTurn'.pc = "pinLoop" /\ acceptedTurn'.lane = pending.lane
        /\ acceptedTurn'.gen = deferredGeneration /\ acceptedTurn'.asked = deferredGeneration
    BY <1>2, <1>5, <2>1, <2>2 DEF Turns, Live, Running
  <2>4. AskInv'
    BY <1>1, <1>5, <2>1, <2>3 DEF AskInv, Pins, CalledOff, notTurn
  <2>5. VoiceOfLatestTurn'
    BY <1>1, <1>5, <2>3, NoStandup
  <2>6. pending.origin # "programmatic"
    BY <1>1, <1>5, NoCaller DEF Pins
  <2>7. NothingFromOldTurns'
    BY <1>1, <1>5, <2>5, <2>6 DEF IInv, NothingFromOldTurns, AskDiesWithItsTurn, DropIsFinal, ProgrammaticDiesWithCaller, notTurn, pinVars
  <2> QED BY <1>1, <1>2, <1>3, <1>5, <2>3, <2>4, <2>7, TurnFrame DEF TurnTypes
<1> QED BY <1>4, <1>5 DEF ResolvePending, Reply

LEMMA AsksForLanePreserves ==
    ASSUME IInv, NEW l \in Lane, AsksForLane(l)
    PROVE  IInv'
<1>1. acceptedTurn # None /\ acceptedTurn.pc \in {"routing", "planning", "briefing", "dialing"}
  BY DEF AsksForLane, At
<1>2. acceptedTurn \in Turns /\ ~stopping /\ ~StopLast /\ None \notin Turns
  BY <1>1, Open, NoneAssumption
<1>3. TurnTypes
  BY Types
<1>4. /\ acceptedTurn' = [acceptedTurn EXCEPT !.pc = "pinLoop", !.lane = l, !.gen = deferredGeneration,
                                              !.asked = deferredGeneration, !.cold = l \notin started]
      /\ UNCHANGED <<acceptedTurnSequence, notTurn, pending, rollcall>>
  BY DEF AsksForLane
<1>5. deferredGeneration \in Nat /\ (l \notin started) \in BOOLEAN
  BY <1>3 DEF TurnTypes
<1>6. /\ acceptedTurn' \in Turns /\ acceptedTurn'.pc = "pinLoop" /\ acceptedTurn'.lane = l
      /\ acceptedTurn'.gen = deferredGeneration /\ acceptedTurn'.asked = deferredGeneration
  BY <1>2, <1>4, <1>5 DEF Turns, Live, Running
<1>6a. acceptedTurn'.cold => l \notin started
  BY <1>2, <1>4, <1>5 DEF Turns
<1>6b. started' = started /\ deferredGeneration' = deferredGeneration
  BY <1>4 DEF notTurn, laneVars
<1>7. AskInv'
  BY <1>4, <1>5, <1>6, <1>6a, <1>6b DEF AskInv, Pins, CalledOff
<1>8. VoiceOfLatestTurn'
  BY <1>1, <1>4, <1>6, NoStandup
<1>9. pending # None => pending.origin # "programmatic"
  BY <1>1, NoCaller DEF Pins
<1>10. NothingFromOldTurns'
  BY <1>4, <1>8, <1>9 DEF IInv, NothingFromOldTurns, AskDiesWithItsTurn, DropIsFinal, ProgrammaticDiesWithCaller, notTurn, pinVars
<1> QED BY <1>2, <1>3, <1>4, <1>6, <1>7, <1>10, TurnFrame DEF TurnTypes

LEMMA NoPinTypes == NoPin \in [asked : Nat, cold : BOOLEAN, used : BOOLEAN]
BY DEF NoPin

LEMMA DoReleasePreserves ==
    ASSUME IInv, DoRelease
    PROVE  IInv'
<1>1. acceptedTurn # None /\ acceptedTurn.pc \in {"routing", "planning"}
  BY DEF DoRelease, Asks, At
<1>2. /\ pending' = None /\ active' = None /\ activeFromDeferredTransfer' = FALSE /\ pin' = NoPin
      /\ acceptedTurn' = None /\ acceptedTurnSequence' = acceptedTurnSequence
      /\ UNCHANGED <<laneVars, opVars, procVars, jobs, deferredGeneration, rollcall, budget>>
  BY DEF DoRelease, ReleaseActiveLane, Reply
<1>3. TurnTypes' /\ JobTypes'
  BY <1>2, Types, NoPinTypes DEF TurnTypes, JobTypes
<1>4. AskInv' /\ LineInv'
  BY <1>2 DEF AskInv, LineInv
<1>5. VoiceOfLatestTurn'
  BY <1>1, <1>2, NoStandup
<1>6. NothingFromOldTurns'
  BY <1>2, <1>5 DEF NothingFromOldTurns, AskDiesWithItsTurn, DropIsFinal, ProgrammaticDiesWithCaller
<1> QED BY <1>2, <1>3, <1>4, <1>6, BoardFrame DEF MayStart, laneVars

LEMMA DropPreserves ==
    ASSUME IInv, DropDeferredWork
    PROVE  IInv'
<1> DEFINE gen == deferredGeneration + 1
<1>1. /\ pending' = None /\ Quiet
      /\ UNCHANGED <<turnVars, laneVars, opVars, procVars, jobs, rollcall, budget>>
  BY DEF DropDeferredWork, ReleaseActiveLane
<1>2. deferredGeneration \in Nat /\ gen \in Nat /\ deferredGeneration < gen /\ deferredGeneration' = gen
  BY Types DEF TurnTypes, DropDeferredWork
<1> HIDE DEF gen
<1>3. \/ active' = None /\ activeFromDeferredTransfer' = FALSE /\ pin' = NoPin
      \/ ~activeFromDeferredTransfer /\ UNCHANGED pinVars
  BY DEF DropDeferredWork, ReleaseActiveLane
<1>4. TurnTypes' /\ JobTypes'
  BY <1>1, <1>2, <1>3, Types, NoPinTypes DEF TurnTypes, JobTypes, turnVars, pinVars
<1>5. acceptedTurn # None => acceptedTurn.pc # "pinLoop"
  BY <1>1 DEF Quiet, Running, At
<1>6. ASSUME acceptedTurn # None, acceptedTurn.pc \in Pinning
      PROVE  acceptedTurn.gen \in Nat /\ acceptedTurn.gen <= gen /\ acceptedTurn.gen # gen
  <2>1. acceptedTurn.gen \in Nat /\ acceptedTurn.gen <= deferredGeneration
    BY <1>6, Open DEF IInv, AskInv, Turns
  <2> QED BY <1>2, <2>1
<1>7. AskInv'
  BY <1>1, <1>2, <1>5, <1>6 DEF IInv, AskInv, CalledOff, RetiredStart, turnVars, laneVars, Pinning
<1>8. LineInv'
  BY <1>3 DEF IInv, LineInv, pinVars
<1>9. VoiceOfLatestTurn'
  BY <1>1 DEF IInv, NothingFromOldTurns, VoiceOfLatestTurn, At, turnVars
<1>10. NothingFromOldTurns'
  BY <1>1, <1>3, <1>9 DEF IInv, LineInv, NothingFromOldTurns, AskDiesWithItsTurn, DropIsFinal, ProgrammaticDiesWithCaller, pinVars
<1>11. /\ stopping => acceptedTurn' = None
       /\ StopLast => pending' = None /\ active' = None
  BY <1>1, <1>3 DEF IInv, ClosedInv, turnVars, pinVars
<1> QED BY <1>1, <1>4, <1>7, <1>8, <1>10, <1>11, BoardFrame DEF MayStart, laneVars

LEMMA BrainAnswersPreserves ==
    ASSUME IInv, BrainAnswers
    PROVE  IInv'
<1>1. /\ acceptedTurn # None /\ acceptedTurn.pc = "answering"
      /\ acceptedTurn' = None /\ acceptedTurnSequence' = acceptedTurnSequence
      /\ UNCHANGED <<pending, rollcall, laneVars, opVars, procVars, jobs, deferredGeneration, budget>>
  BY DEF BrainAnswers, At, Reply
<1>2. \/ UNCHANGED pinVars
      \/ activeFromDeferredTransfer' = FALSE /\ pin' = [pin EXCEPT !.used = TRUE] /\ UNCHANGED active
  BY DEF BrainAnswers
<1>3. \/ UNCHANGED pinVars
      \/ /\ pin' \in [asked : Nat, cold : BOOLEAN, used : BOOLEAN] /\ pin'.used
         /\ activeFromDeferredTransfer' = FALSE /\ UNCHANGED active
  BY <1>2, Types DEF TurnTypes
<1>4. TurnTypes' /\ JobTypes'
  BY <1>1, <1>3, Types DEF TurnTypes, JobTypes, pinVars
<1>5. AskInv' /\ LineInv'
  BY <1>1, <1>3 DEF IInv, AskInv, LineInv, pinVars
<1>6. VoiceOfLatestTurn'
  BY <1>1, NoStandup
<1>7. pending # None => pending.origin # "programmatic"
  BY <1>1, NoCaller DEF Pins
<1>8. NothingFromOldTurns'
  BY <1>1, <1>3, <1>6, <1>7 DEF IInv, NothingFromOldTurns, AskDiesWithItsTurn, DropIsFinal, ProgrammaticDiesWithCaller, pinVars
<1>9. ~StopLast
  BY <1>1, Open
<1> QED BY <1>1, <1>4, <1>5, <1>8, <1>9, BoardFrame DEF MayStart, laneVars

-----------------------------------------------------------------------------
(* Steps of lanes and background jobs *)

LEMMA SendBackgroundPreserves ==
    ASSUME IInv, NEW j \in Job, NEW l \in Lane, SendBackground(j, l)
    PROVE  IInv'
<1>1. UNCHANGED notJob /\ UNCHANGED laneStarts /\ jobs' = [jobs EXCEPT ![j] = [pc |-> "loop", lane |-> l]]
  BY DEF SendBackground
<1>2. JobTypes' /\ TurnTypes'
  BY <1>1, Types DEF JobTypes, TurnTypes, notJob, turnVars, pinVars
<1>3. AskInv' /\ LineInv'
  BY <1>1 DEF IInv, AskInv, Recorded, CalledOff, RetiredStart, LineInv, notJob, turnVars, pinVars
<1>4. NothingFromOldTurns'
  BY <1>1 DEF IInv, NothingFromOldTurns, AskDiesWithItsTurn, DropIsFinal, ProgrammaticDiesWithCaller,
              VoiceOfLatestTurn, At, notJob, turnVars, pinVars
<1>5. /\ stopping => acceptedTurn' = None
      /\ StopLast => pending' = None /\ active' = None
  BY <1>1 DEF IInv, ClosedInv, notJob, turnVars, pinVars
<1> QED BY <1>1, <1>2, <1>3, <1>4, <1>5, BoardFrame DEF MayStart, notJob

LEMMA JobLoopPreserves ==
    ASSUME IInv, NEW j \in Job, JobLoop(j)
    PROVE  IInv'
<1> DEFINE l == jobs[j].lane
<1>1. UNCHANGED notJob /\ jobs[j].pc = "loop"
  BY DEF JobLoop
<1>2. PICK c \in {"done", "waitRetired", "waitStart"} : jobs' = [jobs EXCEPT ![j].pc = c]
  BY DEF JobLoop
<1>3. JobTypes' /\ TurnTypes'
  BY <1>1, <1>2, Types DEF JobTypes, TurnTypes, notJob, turnVars, pinVars
<1>4. l \in Lane \cup {None}
  BY Types DEF JobTypes
<1>5. MayStart
  <2>1. CASE UNCHANGED laneStarts
    BY <2>1 DEF MayStart
  <2>2. CASE ~stopping /\ l \notin started /\ StartLane(l)
    <3>1. l \in Lane \/ laneStarts' = laneStarts
      BY <1>4, <2>2, NoneAssumption DEF StartLane, IInv, TypeOK
    <3> QED BY <2>2, <3>1 DEF MayStart
  <2> QED BY <2>1, <2>2 DEF JobLoop
<1>6. \A m \in Lane : RetiredStart(m) => RetiredStart(m)'
  BY <1>5, StartTypes DEF RetiredStart
<1>7. AskInv' /\ LineInv'
  BY <1>1, <1>6 DEF IInv, AskInv, Recorded, CalledOff, LineInv, notJob, turnVars, pinVars, Pinning
<1>8. NothingFromOldTurns'
  BY <1>1 DEF IInv, NothingFromOldTurns, AskDiesWithItsTurn, DropIsFinal, ProgrammaticDiesWithCaller,
              VoiceOfLatestTurn, At, notJob, turnVars, pinVars
<1>9. /\ stopping => acceptedTurn' = None
      /\ StopLast => pending' = None /\ active' = None
  BY <1>1 DEF IInv, ClosedInv, notJob, turnVars, pinVars
<1> QED BY <1>1, <1>3, <1>5, <1>7, <1>8, <1>9, BoardFrame DEF notJob

\* Whoever waited for lane l goes on as the ask was recorded.
LEMMA Resumed ==
    ASSUME IInv, Quiet, NEW l \in Lane, NEW up \in BOOLEAN, ResumeStarters(l, up),
           \A m \in Lane \ {l} : laneStarts'[m] = laneStarts[m],
           started' \subseteq started \cup {l}, RetiredStart(l) => l \notin started',
           UNCHANGED <<pinVars, pending, deferredGeneration, rollcall>>
    PROVE  /\ TurnTypes' /\ JobTypes' /\ AskInv' /\ LineInv' /\ NothingFromOldTurns'
           /\ acceptedTurn = None => acceptedTurn' = None
<1> DEFINE waits == acceptedTurn # None /\ acceptedTurn.lane = l /\ acceptedTurn.pc \in {"pinStart", "pinRetired"}
<1>1. JobTypes'
  BY Types DEF ResumeStarters, JobTypes
<1>2. LineInv' /\ DropIsFinal'
  BY DEF IInv, LineInv, NothingFromOldTurns, AskDiesWithItsTurn, DropIsFinal, pinVars
<1>3. CASE ~waits
  <2>1. UNCHANGED turnVars
    BY <1>3 DEF ResumeStarters, At
  <2>2. TurnTypes'
    BY <2>1, Types DEF TurnTypes, turnVars, pinVars
  <2>3. acceptedTurn # None => acceptedTurn.pc # "pinLoop"
    BY DEF Quiet, Running, At
  <2>4. acceptedTurn # None /\ acceptedTurn.pc = "pinRetired" => RetiredStart(acceptedTurn.lane)'
    BY <1>3, <2>1 DEF IInv, AskInv, Pinning, RetiredStart, turnVars
  <2>5. AskInv'
    BY <2>1, <2>3, <2>4 DEF IInv, AskInv, Recorded, CalledOff, turnVars
  <2>6. NothingFromOldTurns'
    BY <1>2, <2>1 DEF IInv, NothingFromOldTurns, AskDiesWithItsTurn, ProgrammaticDiesWithCaller, VoiceOfLatestTurn, At, turnVars
  <2> QED BY <1>1, <1>2, <2>1, <2>2, <2>5, <2>6 DEF turnVars
<1>4. CASE waits
  <2>1. acceptedTurn \in Turns /\ None \notin Turns
    BY <1>4, Open, NoneAssumption
  <2>2. PICK c \in {"pinUp", "pinDown", "pinLoop"} :
           /\ Goto(c)
           /\ acceptedTurn.pc = "pinStart" <=> c # "pinLoop"
    BY <1>4 DEF ResumeStarters, At
  <2>3. /\ acceptedTurn' \in Turns /\ acceptedTurn'.pc = c /\ acceptedTurn'.lane = acceptedTurn.lane
        /\ acceptedTurn'.asked = acceptedTurn.asked /\ acceptedTurn'.gen = acceptedTurn.gen
        /\ acceptedTurnSequence' = acceptedTurnSequence
    BY <2>1, <2>2 DEF Goto, Turns, Live, Running
  <2>4. TurnTypes'
    BY <2>3, Types DEF TurnTypes, pinVars
  <2>5. c = "pinLoop" => acceptedTurn.lane \notin started'
    BY <1>4, <2>2 DEF IInv, AskInv
  <2>6. /\ acceptedTurn.lane \in Lane /\ acceptedTurn.asked = acceptedTurn.gen
        /\ acceptedTurn.gen <= deferredGeneration
    BY <1>4 DEF IInv, AskInv, Pinning, Pins
  <2>7. c \in Pins => IF CalledOff THEN pending = None ELSE Recorded(acceptedTurn)
    BY <1>4, <2>2 DEF IInv, AskInv, Pins
  <2>7a. CalledOff' <=> CalledOff
    BY <2>3 DEF CalledOff
  <2>7b. Recorded(acceptedTurn) => Recorded(acceptedTurn)'
    BY <2>3 DEF Recorded
  <2>8. AskInv'
    BY <2>3, <2>5, <2>6, <2>7, <2>7a, <2>7b DEF AskInv, Pins
  <2>9. VoiceOfLatestTurn'
    BY <1>4, <2>3, NoStandup
  <2>10. ProgrammaticDiesWithCaller'
    <3>1. CASE acceptedTurn.pc = "pinStart"
      BY <2>1, <2>2, <2>3, <3>1 DEF IInv, NothingFromOldTurns, AskDiesWithItsTurn, ProgrammaticDiesWithCaller, At
    <3>2. CASE acceptedTurn.pc # "pinStart"
      BY <1>4, <3>2, NoCaller DEF ProgrammaticDiesWithCaller, Pins
    <3> QED BY <3>1, <3>2
  <2> QED BY <1>1, <1>2, <1>4, <2>4, <2>8, <2>9, <2>10 DEF NothingFromOldTurns, AskDiesWithItsTurn
<1> QED BY <1>3, <1>4

\* Where nobody is resumed.
LEMMA NotResumed ==
    ASSUME IInv, Quiet, UNCHANGED <<turnVars, jobs, started>>,
           \A m \in Lane : RetiredStart(m) => RetiredStart(m)',
           UNCHANGED <<pinVars, pending, deferredGeneration, rollcall>>
    PROVE  TurnTypes' /\ JobTypes' /\ AskInv' /\ LineInv' /\ NothingFromOldTurns'
<1>1. TurnTypes' /\ JobTypes'
  BY Types DEF TurnTypes, JobTypes, turnVars, pinVars
<1>2. AskInv' /\ LineInv'
  BY DEF IInv, AskInv, Recorded, CalledOff, LineInv, turnVars, pinVars, Pinning
<1>3. NothingFromOldTurns'
  BY DEF IInv, NothingFromOldTurns, AskDiesWithItsTurn, DropIsFinal, ProgrammaticDiesWithCaller,
         VoiceOfLatestTurn, At, turnVars, pinVars
<1> QED BY <1>1, <1>2, <1>3

LEMMA CameTypes ==
    ASSUME IInv, NEW l \in Lane
    PROVE  [proc EXCEPT ![l] = Came(l)] \in [Lane \cup {FrontDesk} -> {"down", "up", "late"}]
BY DEF IInv, TypeOK, Came

\* An agent that came up too late, or in part, is stopped before its start ends.
LEMMA LaneReapingPreserves ==
    ASSUME IInv, Quiet, NEW l \in Lane, laneStarts[l] # None, laneStarts[l].stage = "starting",
           proc' \in {proc, [proc EXCEPT ![l] = Came(l)]},
           laneStarts' = [laneStarts EXCEPT ![l].stage = "reaping"], StopLanes({l}),
           UNCHANGED <<turnVars, jobs, started, pinVars, pending, opVars, unreaped, deferredGeneration, rollcall, budget>>
    PROVE  IInv'
<1>1. laneStarts \in [Lane -> LaneStarts \cup {None}] /\ laneStops \in [Lane -> BOOLEAN] /\ None \notin LaneStarts
  BY NoneAssumption DEF IInv, TypeOK
<1>2. laneStarts[l] \in LaneStarts
  BY <1>1
<1>3. /\ laneStarts'[l] \in LaneStarts /\ laneStarts'[l].retired = laneStarts[l].retired
      /\ laneStarts'[l].stage = "reaping"
      /\ \A m \in Lane \ {l} : laneStarts'[m] = laneStarts[m]
      /\ laneStarts' \in [Lane -> LaneStarts \cup {None}]
  BY <1>1, <1>2 DEF LaneStarts
<1>4. \A m \in Lane : /\ RetiredStart(m)' <=> RetiredStart(m)
                      /\ laneStarts'[m] # None <=> laneStarts[m] # None
  BY <1>1, <1>3 DEF RetiredStart
<1>5. TurnTypes' /\ JobTypes' /\ AskInv' /\ LineInv' /\ NothingFromOldTurns'
  BY <1>4, NotResumed
<1>6. /\ laneStops' \in [Lane -> BOOLEAN] /\ laneStops'[l]
      /\ \A m \in Lane \ {l} : laneStops'[m] <=> laneStops[m]
  BY <1>1 DEF StopLanes
<1>7. proc' \in [Lane \cup {FrontDesk} -> {"down", "up", "late"}]
  BY CameTypes DEF IInv, TypeOK
<1>8. TypeOK'
  BY <1>3, <1>5, <1>6, <1>7 DEF IInv, TypeOK, TurnTypes, JobTypes, opVars
<1>9. OpInv'
  BY DEF IInv, OpInv, Ready, opVars
<1>10. StopInv'
  <2>1. \A m \in Lane : Claimed(m) => Claimed(m)'
    BY DEF Claimed, Awaits, opVars
  <2>2. \A m \in Lane \ {l} : Reaping(m) => Reaping(m)'
    BY <1>3 DEF Reaping
  <2>3. Reaping(l)'
    BY <1>1, <1>3 DEF Reaping
  <2> QED BY <1>6, <2>1, <2>2, <2>3 DEF IInv, StopInv, opVars
<1>11. ClosedInv'
  BY <1>4 DEF IInv, ClosedInv, StopLast, turnVars, opVars, pinVars
<1>12. ProcInv'
  <2>1. proc'[FrontDesk] = proc[FrontDesk] /\ \A m \in Lane \ {l} : proc'[m] = proc[m]
    BY LaneAssumption DEF IInv, TypeOK
  <2> QED BY <1>6, <2>1 DEF IInv, ProcInv, StopLast, opVars
<1> QED BY <1>5, <1>8, <1>9, <1>10, <1>11, <1>12 DEF IInv

LEMMA LaneStartOkPreserves ==
    ASSUME IInv, NEW l \in Lane, LaneStartOk(l)
    PROVE  IInv'
<1>1. CASE laneStarts[l].retired
  BY <1>1, LaneReapingPreserves DEF LaneStartOk
<1>2. CASE ~laneStarts[l].retired
  <2>1. /\ Quiet /\ laneStarts[l] # None /\ laneStarts[l].stage = "starting"
        /\ proc' = [proc EXCEPT ![l] = Came(l)]
        /\ laneStarts' = [laneStarts EXCEPT ![l] = None] /\ started' = started \cup {l}
        /\ ResumeStarters(l, TRUE)
        /\ UNCHANGED <<laneStops, pinVars, pending, opVars, unreaped, deferredGeneration, rollcall, budget>>
    BY <1>2 DEF LaneStartOk
  <2>2. ~stopping /\ ~StopLast
    BY <1>2, <2>1 DEF IInv, ClosedInv, RetiredStart
  <2>3. /\ laneStarts' \in [Lane -> LaneStarts \cup {None}] /\ laneStarts'[l] = None
        /\ \A m \in Lane \ {l} : laneStarts'[m] = laneStarts[m]
    BY <2>1 DEF IInv, TypeOK
  <2>4. /\ TurnTypes' /\ JobTypes' /\ AskInv' /\ LineInv' /\ NothingFromOldTurns'
    BY <1>2, <2>1, <2>3, Resumed DEF RetiredStart
  <2>5. TypeOK'
    BY <2>1, <2>3, <2>4, CameTypes DEF IInv, TypeOK, TurnTypes, JobTypes, opVars
  <2>6. OpInv'
    BY <2>1 DEF IInv, OpInv, Ready, opVars
  <2>7. StopInv'
    <3>1. \A m \in Lane : Claimed(m) => Claimed(m)'
      BY <2>1 DEF Claimed, Awaits, opVars
    <3>2. \A m \in Lane : Reaping(m) => Reaping(m)'
      BY <2>1, <2>3 DEF Reaping
    <3> QED BY <2>1, <3>1, <3>2 DEF IInv, StopInv, opVars
  <2>8. ClosedInv'
    BY <2>1, <2>2, <2>3 DEF IInv, ClosedInv, StopLast, opVars
  <2>9. ProcInv'
    <3>1. proc'[FrontDesk] = proc[FrontDesk] /\ \A m \in Lane \ {l} : proc'[m] = proc[m]
      BY <2>1, LaneAssumption DEF IInv, TypeOK
    <3> QED BY <2>1, <3>1 DEF IInv, ProcInv, StopLast, opVars
  <2> QED BY <2>4, <2>5, <2>6, <2>7, <2>8, <2>9 DEF IInv
<1> QED BY <1>1, <1>2

LEMMA LaneStartFailsPreserves ==
    ASSUME IInv, NEW l \in Lane, LaneStartFails(l)
    PROVE  IInv'
BY LaneReapingPreserves DEF LaneStartFails

-----------------------------------------------------------------------------
(* Steps of the lifecycle operations *)

\* An operation that goes on leaves the others as they are.
LEMMA OpStep ==
    ASSUME ops \in Seq(Ops), NEW i \in 1..Len(ops), NEW o \in Ops, o.kind = ops[i].kind,
           ops' = [ops EXCEPT ![i] = o]
    PROVE  /\ ops' \in Seq(Ops) /\ Len(ops') = Len(ops) /\ ops'[i] = o
           /\ \A j \in 1..Len(ops) : j # i => ops'[j] = ops[j]
           /\ StopLast' <=> StopLast
<1>1. /\ ops' \in Seq(Ops) /\ Len(ops') = Len(ops) /\ ops'[i] = o
      /\ \A j \in 1..Len(ops) : j # i => ops'[j] = ops[j]
  BY DEF Ops
<1>2. ops # <<>> /\ ops' # <<>> /\ Len(ops) \in 1..Len(ops)
  BY <1>1
<1>3. ops'[Len(ops)].kind = ops[Len(ops)].kind
  BY <1>1, <1>2
<1> QED BY <1>1, <1>2, <1>3 DEF StopLast, Last

\* Steps that leave turns, jobs and the starts of lanes alone, and take no lane in.
LEMMA OpFrame ==
    ASSUME IInv, UNCHANGED notOp, pin' = pin, started' \subseteq started,
           \/ UNCHANGED <<active, activeFromDeferredTransfer>>
           \/ active' = None /\ activeFromDeferredTransfer' = FALSE,
           stopping' \in BOOLEAN, stopping' => stopping, StopLast' => StopLast /\ stopping',
           ops' \in Seq(Ops), primaryStops' \in Seq(SUBSET Nat), laneStops' \in [Lane -> BOOLEAN],
           proc' \in [Lane \cup {FrontDesk} -> {"down", "up", "late"}],
           unreaped' \subseteq Lane \cup {FrontDesk},
           OpInv', StopInv', ProcInv'
    PROVE  IInv'
<1> USE DEF notOp, turnVars
<1>1. TypeOK'
  BY DEF IInv, TypeOK
<1>2. ClosedInv'
  <2>1. \A l \in Lane : RetiredStart(l)' <=> RetiredStart(l)
    BY DEF RetiredStart
  <2> QED BY <2>1 DEF IInv, ClosedInv
<1>3. AskInv'
  BY DEF IInv, AskInv, Recorded, CalledOff, RetiredStart
<1>4. LineInv'
  BY DEF IInv, LineInv
<1>5. NothingFromOldTurns'
  BY DEF IInv, NothingFromOldTurns, AskDiesWithItsTurn, DropIsFinal, ProgrammaticDiesWithCaller, VoiceOfLatestTurn, At
<1> QED BY <1>1, <1>2, <1>3, <1>4, <1>5 DEF IInv

\* A step of one operation: what it must see to.
LEMMA OpMoves ==
    ASSUME IInv, UNCHANGED notOp, pin' = pin, started' \subseteq started,
           \/ UNCHANGED <<active, activeFromDeferredTransfer>>
           \/ active' = None /\ activeFromDeferredTransfer' = FALSE,
           NEW i \in 1..Len(ops), NEW o \in Ops, ops' = [ops EXCEPT ![i] = o],
           o.kind = ops[i].kind, ops[i].stage # "done",
           ops[i].stage = "queued" => Ready(i),
           o.kind = "start" => o.waits = {} /\ o.stage \in {"queued", "primary", "reaping", "done"},
           o.kind = "stop" => o.stage \in {"reaping", "done"},
           o.stage \in {"lane", "laneReaping"} => o.at \in Lane,
           stopping' \in BOOLEAN, ~stopping' => Current(i) /\ o.kind # "stop" /\ o.stage = "done",
           laneStops' \in [Lane -> BOOLEAN],
           \A l \in Lane : laneStops'[l] => laneStops[l] \/ (l \in o.waits /\ o.stage \notin {"queued", "done"}),
           \A l \in Lane : Awaits(i, l) => l \in o.waits /\ o.stage \notin {"queued", "done"},
           primaryStops' \in Seq(SUBSET Nat),
           \A k \in 1..Len(primaryStops') :
              /\ primaryStops'[k] # {}
              /\ \A h \in primaryStops'[k] :
                    /\ h \in 1..Len(ops)
                    /\ h = i => o.stage = "reaping"
                    /\ h # i => ops[h].stage = "reaping",
           proc' \in [Lane \cup {FrontDesk} -> {"down", "up", "late"}],
           unreaped' \subseteq Lane \cup {FrontDesk},
           ProcInv'
    PROVE  IInv'
<1>1. ops \in Seq(Ops) /\ stopping
  BY DEF IInv, TypeOK, OpInv
<1>2. /\ ops' \in Seq(Ops) /\ Len(ops') = Len(ops) /\ ops'[i] = o
      /\ \A j \in 1..Len(ops) : j # i => ops'[j] = ops[j]
      /\ StopLast' <=> StopLast
  BY <1>1, OpStep
<1>3. StopLast' => StopLast /\ stopping'
  <2>1. StopLast /\ Current(i) => ops[i].kind = "stop"
    BY DEF StopLast, Last, Current
  <2> QED BY <1>2, <2>1
<1>4. ASSUME NEW j \in 1..Len(ops), Ready(j)
      PROVE  Ready(j)'
  <2>1. ~(i \in 1..(j - 1))
    BY <1>4 DEF Ready
  <2>2. \A h \in 1..(j - 1) : ops'[h] = ops[h]
    BY <1>1, <1>2, <2>1
  <2> QED BY <1>4, <2>2 DEF Ready
<1>5. OpInv'
  <2>1. \A j \in 1..Len(ops) : ops'[j].stage # "queued" /\ ops'[j].kind # "stop" => Ready(j)'
    <3>1. ops[i].kind # "stop" => Ready(i)
      BY DEF IInv, OpInv
    <3> QED BY <1>2, <1>4, <3>1 DEF IInv, OpInv
  <2>2. ASSUME ~stopping', NEW j \in 1..Len(ops)
        PROVE  ops'[j].stage = "done"
    <3>1. i = Len(ops) /\ o.stage = "done" /\ Ready(i)
      BY <2>2 DEF Current, IInv, OpInv
    <3>2. j # i => j \in 1..(i - 1)
      BY <1>1, <3>1
    <3> QED BY <1>2, <3>1, <3>2 DEF Ready
  <2>3. \A j \in 1..Len(ops) :
          /\ ops'[j].kind = "start" => ops'[j].waits = {} /\ ops'[j].stage \in {"queued", "primary", "reaping", "done"}
          /\ ops'[j].kind = "stop" => ops'[j].stage \in {"reaping", "done"}
          /\ ops'[j].stage \in {"lane", "laneReaping"} => ops'[j].at \in Lane
    BY <1>2 DEF IInv, OpInv
  <2> QED BY <1>2, <2>1, <2>2, <2>3 DEF OpInv
<1>6. StopInv'
  <2>1. ASSUME NEW l \in Lane, laneStops'[l]
        PROVE  Reaping(l)' \/ Claimed(l)'
    <3>1. CASE l \in o.waits /\ o.stage \notin {"queued", "done"}
      BY <1>2, <3>1 DEF Claimed, Awaits
    <3>2. CASE laneStops[l] /\ Reaping(l)
      BY <3>2 DEF Reaping, notOp
    <3>3. CASE laneStops[l] /\ Claimed(l)
      <4>1. PICK j \in 1..Len(ops) : Awaits(j, l)
        BY <3>3 DEF Claimed
      <4>2. Awaits(j, l)'
        BY <1>2, <4>1 DEF Awaits
      <4> QED BY <1>2, <4>2 DEF Claimed
    <3> QED BY <2>1, <3>1, <3>2, <3>3 DEF IInv, StopInv
  <2>2. \A k \in 1..Len(primaryStops') :
          /\ primaryStops'[k] # {}
          /\ \A h \in primaryStops'[k] : h \in 1..Len(ops') /\ ops'[h].stage = "reaping"
    BY <1>2
  <2> QED BY <2>1, <2>2 DEF StopInv
<1> QED BY <1>1, <1>2, <1>3, <1>5, <1>6, OpFrame

\* The record of an operation at its next stage.
Onto(i, s) == IF s = "done" THEN [ops[i] EXCEPT !.stage = s, !.todo = {}, !.at = None, !.failed = FALSE]
             ELSE [ops[i] EXCEPT !.stage = s]
Stages == {"queued", "primary", "reaping", "lanes", "lane", "laneReaping", "draining", "done"}

LEMMA Staged ==
    ASSUME IInv, NEW i \in 1..Len(ops), NEW s \in Stages, Stage(i, s)
    PROVE  /\ Onto(i, s) \in Ops /\ Onto(i, s).kind = ops[i].kind /\ Onto(i, s).stage = s
           /\ Onto(i, s).waits = ops[i].waits
           /\ s # "done" => Onto(i, s).at = ops[i].at
           /\ ops' = [ops EXCEPT ![i] = Onto(i, s)]
           /\ ops[i] \in Ops
<1>1. ops \in Seq(Ops) /\ ops[i] \in Ops
  BY DEF IInv, TypeOK
<1>2. /\ Onto(i, s) \in Ops /\ Onto(i, s).kind = ops[i].kind /\ Onto(i, s).stage = s
      /\ Onto(i, s).waits = ops[i].waits
      /\ s # "done" => Onto(i, s).at = ops[i].at
  <2>1. CASE s = "done"
    BY <1>1, <2>1 DEF Onto, Ops
  <2>2. CASE s # "done"
    BY <1>1, <2>2 DEF Onto, Ops, Stages
  <2> QED BY <2>1, <2>2
<1>3. ops' = [ops EXCEPT ![i] = Onto(i, s)]
  BY <1>1 DEF Stage, Onto
<1> QED BY <1>1, <1>2, <1>3

\* Who waits for the front desk to stop is reaping.
LEMMA Reapers ==
    ASSUME IInv, NEW i \in 1..Len(ops), NEW o
    PROVE  \A k \in 1..Len(primaryStops) :
              /\ primaryStops[k] # {}
              /\ \A h \in primaryStops[k] :
                    /\ h \in 1..Len(ops)
                    /\ h = i => ops[i].stage = "reaping"
                    /\ h # i => ops[h].stage = "reaping"
BY DEF IInv, StopInv

LEMMA OpTypes ==
    ASSUME IInv
    PROVE  /\ laneStops \in [Lane -> BOOLEAN] /\ primaryStops \in Seq(SUBSET Nat) /\ stopping \in BOOLEAN
           /\ proc \in [Lane \cup {FrontDesk} -> {"down", "up", "late"}]
           /\ unreaped \subseteq Lane \cup {FrontDesk} /\ ops \in Seq(Ops) /\ Len(ops) \in Nat
BY DEF IInv, TypeOK

LEMMA BusyClosed ==
    ASSUME IInv, NEW i \in 1..Len(ops), ops[i].stage # "done"
    PROVE  stopping = TRUE
BY DEF IInv, TypeOK, OpInv

LEMMA OpBeginsPreserves ==
    ASSUME IInv, NEW i \in 1..Len(ops), OpBegins(i)
    PROVE  IInv'
<1>1. /\ ops[i].stage = "queued" /\ Ready(i) /\ ops[i] \in Ops
      /\ UNCHANGED <<notOp, pinVars, started, stopping, primaryStops, procVars>>
  BY OpTypes DEF OpBegins
<1>2. ops[i].kind # "stop" /\ (ops[i].kind = "start" => ops[i].waits = {})
  BY <1>1 DEF IInv, OpInv
<1>3. PICK s \in {"done", "primary"} :
         /\ Stage(i, s)
         /\ laneStops' \in [Lane -> BOOLEAN]
         /\ \A l \in Lane : laneStops[l] => laneStops'[l]
         /\ \A l \in Lane : laneStops'[l] => laneStops[l] \/ (s = "primary" /\ l \in ops[i].waits)
  <2>1. CASE ~Current(i)
    BY <2>1, OpTypes DEF OpBegins
  <2>2. CASE Current(i) /\ ops[i].kind = "start"
    BY <2>2, OpTypes DEF OpBegins
  <2>3. CASE Current(i) /\ ops[i].kind # "start"
    <3>1. Stage(i, "primary") /\ StopLanes(ops[i].waits)
      BY <2>3 DEF OpBegins
    <3>2. laneStops' = [l \in Lane |-> laneStops[l] \/ l \in ops[i].waits]
      BY <3>1 DEF StopLanes
    <3> QED BY <3>1, <3>2, OpTypes
  <2> QED BY <2>1, <2>2, <2>3
<1>4. s \in Stages
  BY DEF Stages
<1>5. /\ Onto(i, s) \in Ops /\ Onto(i, s).kind = ops[i].kind /\ Onto(i, s).stage = s
      /\ Onto(i, s).waits = ops[i].waits
      /\ ops' = [ops EXCEPT ![i] = Onto(i, s)]
  BY <1>3, <1>4, Staged
<1>6. StopLast' <=> StopLast
  BY <1>5, OpStep, OpTypes
<1>7. ProcInv'
  BY <1>1, <1>3, <1>6 DEF IInv, ProcInv, procVars
<1>8. stopping' = TRUE
  BY <1>1, BusyClosed
<1>9. \A l \in Lane : ~Awaits(i, l)
  BY <1>1 DEF Awaits
<1>10. \A k \in 1..Len(primaryStops') :
          /\ primaryStops'[k] # {}
          /\ \A h \in primaryStops'[k] :
                /\ h \in 1..Len(ops)
                /\ h = i => Onto(i, s).stage = "reaping"
                /\ h # i => ops[h].stage = "reaping"
  BY <1>1 DEF IInv, StopInv
<1> HIDE DEF Onto
<1> QED BY <1>1, <1>2, <1>3, <1>5, <1>7, <1>8, <1>9, <1>10, OpTypes, OpMoves DEF pinVars, procVars

\* An operation goes on and nothing else changes.
LEMMA StageOnly ==
    ASSUME IInv, NEW i \in 1..Len(ops), NEW s \in Stages, Stage(i, s), s \notin {"queued", "primary"},
           UNCHANGED <<notOp, pinVars, started, laneStops, primaryStops, procVars>>,
           ops[i].stage \notin {"queued", "done"},
           ops[i].kind = "start" => s \in {"reaping", "done"}, ops[i].kind = "stop" => s \in {"reaping", "done"},
           s \in {"lane", "laneReaping"} => ops[i].at \in Lane,
           s = "done" => ops[i].waits = {},
           stopping' \in BOOLEAN, ~stopping' => Current(i) /\ ops[i].kind # "stop" /\ s = "done",
           \A k \in 1..Len(primaryStops) : i \notin primaryStops[k]
    PROVE  IInv'
<1>1. /\ Onto(i, s) \in Ops /\ Onto(i, s).kind = ops[i].kind /\ Onto(i, s).stage = s
      /\ Onto(i, s).waits = ops[i].waits /\ (s # "done" => Onto(i, s).at = ops[i].at)
      /\ ops' = [ops EXCEPT ![i] = Onto(i, s)]
  BY Staged
<1>2. StopLast' <=> StopLast
  BY <1>1, OpStep, OpTypes
<1>3. ProcInv'
  BY <1>2 DEF IInv, ProcInv, procVars
<1>4. ops[i].kind = "start" => ops[i].waits = {}
  BY DEF IInv, OpInv
<1>5. \A k \in 1..Len(primaryStops') :
          /\ primaryStops'[k] # {}
          /\ \A h \in primaryStops'[k] :
                /\ h \in 1..Len(ops)
                /\ h = i => Onto(i, s).stage = "reaping"
                /\ h # i => ops[h].stage = "reaping"
  BY DEF IInv, StopInv
<1>6. \A l \in Lane : Awaits(i, l) => l \in Onto(i, s).waits /\ Onto(i, s).stage \notin {"queued", "done"}
  BY <1>1 DEF Awaits
<1> HIDE DEF Onto
<1> QED BY ZenonT(60), <1>1, <1>3, <1>4, <1>5, <1>6, OpTypes, OpMoves DEF pinVars, procVars

\* The front desk stops for operations that are reaping.
LEMMA NotReaping ==
    ASSUME IInv, NEW i \in 1..Len(ops), ops[i].stage # "reaping"
    PROVE  \A k \in 1..Len(primaryStops) : i \notin primaryStops[k]
BY DEF IInv, StopInv

LEMMA OpReapedPreserves ==
    ASSUME IInv, NEW i \in 1..Len(ops), OpReaped(i)
    PROVE  IInv'
<1>1. /\ ops[i].stage = "reaping" /\ Reaped(i)
      /\ UNCHANGED <<notOp, pinVars, started, laneStops, stopping, primaryStops, procVars>>
  BY DEF OpReaped
<1>2. PICK s \in {"draining", "done"} : Stage(i, s) /\ (s = "draining" <=> ops[i].kind = "restart")
  BY DEF OpReaped
<1>3. stopping' = TRUE
  BY <1>1, BusyClosed
<1>4. \A k \in 1..Len(primaryStops) : i \notin primaryStops[k]
  BY <1>1, OpTypes DEF Reaped
<1>5. s = "done" => ops[i].waits = {}
  BY <1>1, <1>2 DEF Reaped
<1>6. s \in Stages
  BY DEF Stages
<1> QED BY <1>1, <1>2, <1>3, <1>4, <1>5, <1>6, StageOnly

LEMMA RestartMovesPreserve ==
    ASSUME IInv, NEW i \in 1..Len(ops), RestartsNoMore(i) \/ LaneReaped(i) \/ RestartEnds(i)
    PROVE  IInv'
<1>1. /\ ops[i].stage \in {"lanes", "laneReaping", "draining"}
      /\ UNCHANGED <<notOp, pinVars, started, laneStops, primaryStops, procVars>>
  BY DEF RestartsNoMore, LaneReaped, RestartEnds
<1>2. ops[i].kind \notin {"start", "stop"}
  BY <1>1 DEF IInv, OpInv
<1>3. \A k \in 1..Len(primaryStops) : i \notin primaryStops[k]
  BY <1>1, NotReaping
<1>4. stopping = TRUE
  BY <1>1, BusyClosed
<1>5. CASE RestartsNoMore(i) \/ LaneReaped(i)
  <2>1. PICK s \in {"draining", "lanes"} : Stage(i, s) /\ stopping' = stopping
    BY <1>5 DEF RestartsNoMore, LaneReaped
  <2>2. s \in Stages
    BY DEF Stages
  <2> QED BY <1>1, <1>2, <1>3, <1>4, <2>1, <2>2, StageOnly
<1>6. CASE RestartEnds(i)
  <2>1. Stage(i, "done") /\ ops[i].waits = {} /\ stopping' = (stopping /\ (ops[i].failed \/ ~Current(i)))
    BY <1>6 DEF RestartEnds
  <2>2. stopping' \in BOOLEAN /\ (~stopping' => Current(i))
    BY <1>4, <2>1
  <2>3. "done" \in Stages
    BY DEF Stages
  <2> QED BY <1>1, <1>2, <1>3, <2>1, <2>2, <2>3, StageOnly
<1> QED BY <1>5, <1>6

LEMMA RestartsLanePreserves ==
    ASSUME IInv, NEW i \in 1..Len(ops), NEW l \in Lane, RestartsLane(i, l)
    PROVE  IInv'
<1> DEFINE o == [ops[i] EXCEPT !.stage = "lane", !.at = l]
<1>1. /\ ops[i].stage = "lanes" /\ ops[i] \in Ops
      /\ UNCHANGED <<notOp, pinVars, started, laneStops, stopping, primaryStops, procVars>>
      /\ ops' = [ops EXCEPT ![i] = o]
  BY OpTypes DEF RestartsLane
<1>2. o \in Ops /\ o.kind = ops[i].kind /\ o.stage = "lane" /\ o.at = l /\ o.waits = ops[i].waits
  BY <1>1 DEF Ops
<1>3. ops[i].kind \notin {"start", "stop"}
  BY <1>1 DEF IInv, OpInv
<1> HIDE DEF o
<1>4. StopLast' <=> StopLast
  BY <1>1, <1>2, OpStep, OpTypes
<1>5. ProcInv'
  BY <1>1, <1>4 DEF IInv, ProcInv, procVars
<1>6. \A k \in 1..Len(primaryStops') :
          /\ primaryStops'[k] # {}
          /\ \A h \in primaryStops'[k] :
                /\ h \in 1..Len(ops)
                /\ h = i => o.stage = "reaping"
                /\ h # i => ops[h].stage = "reaping"
  BY <1>1 DEF IInv, StopInv
<1>7. stopping' = TRUE
  BY <1>1, BusyClosed
<1>8. \A m \in Lane : Awaits(i, m) => m \in o.waits /\ o.stage \notin {"queued", "done"}
  BY <1>2 DEF Awaits
<1> QED BY <1>1, <1>2, <1>3, <1>5, <1>6, <1>7, <1>8, OpTypes, OpMoves DEF pinVars, procVars

LEMMA LaneRestartedPreserves ==
    ASSUME IInv, NEW i \in 1..Len(ops), NEW ok \in BOOLEAN, LaneRestarted(i, ok)
    PROVE  IInv'
<1> DEFINE l == ops[i].at
           reap == ~ok \/ ~Current(i)
           o == [ops[i] EXCEPT !.stage = IF reap THEN "laneReaping" ELSE "lanes",
                      !.todo = IF Current(i) THEN @ \ {l} ELSE {}, !.waits = IF reap THEN @ \cup {l} ELSE @]
<1>1. /\ ops[i].stage = "lane" /\ ops[i] \in Ops
      /\ UNCHANGED <<notOp, pin, stopping, primaryStops>>
      /\ ops' = [ops EXCEPT ![i] = o]
  BY OpTypes DEF LaneRestarted
<1>2. l \in Lane /\ ops[i].kind \notin {"start", "stop"}
  BY <1>1 DEF IInv, OpInv
<1>3. /\ o \in Ops /\ o.kind = ops[i].kind /\ o.stage = (IF reap THEN "laneReaping" ELSE "lanes")
      /\ o.at = l /\ o.waits = (IF reap THEN ops[i].waits \cup {l} ELSE ops[i].waits)
  <2>1. ops[i].todo \in SUBSET Lane /\ ops[i].waits \in SUBSET Lane
    BY <1>1 DEF Ops
  <2> QED BY <1>1, <1>2, <2>1 DEF Ops
<1>4. /\ proc' \in [Lane \cup {FrontDesk} -> {"down", "up", "late"}]
      /\ proc'[FrontDesk] = proc[FrontDesk] /\ \A m \in Lane \ {l} : proc'[m] = proc[m]
  <2>1. proc' = proc \/ proc' = [proc EXCEPT ![l] = Came(l)]
    BY DEF LaneRestarted
  <2> QED BY <1>2, <2>1, CameTypes, OpTypes, LaneAssumption
<1>5. /\ started' = (IF ok THEN started ELSE started \ {l})
      /\ unreaped' = IF ~reap /\ l \notin started THEN unreaped \cup {l} ELSE unreaped
  BY DEF LaneRestarted
<1>6. /\ laneStops' \in [Lane -> BOOLEAN]
      /\ \A m \in Lane : laneStops[m] => laneStops'[m]
      /\ \A m \in Lane : laneStops'[m] => laneStops[m] \/ (reap /\ m = l)
      /\ reap => laneStops'[l]
  <2>1. laneStops' = (IF reap THEN [m \in Lane |-> laneStops[m] \/ m \in {l}] ELSE laneStops)
    BY DEF LaneRestarted, StopLanes
  <2> QED BY <1>2, <2>1, OpTypes
<1>7. \/ UNCHANGED <<active, activeFromDeferredTransfer>>
      \/ active' = None /\ activeFromDeferredTransfer' = FALSE
  <2>1. /\ active' = (IF ~ok /\ active = l THEN None ELSE active)
        /\ activeFromDeferredTransfer' = (activeFromDeferredTransfer /\ ~(~ok /\ active = l))
    BY DEF LaneRestarted
  <2>2. activeFromDeferredTransfer \in BOOLEAN
    BY DEF IInv, TypeOK
  <2> QED BY <2>1, <2>2
<1>8. StopLast' <=> StopLast
  BY <1>1, <1>3, OpStep, OpTypes
<1>9. ProcInv'
  <2>1. ASSUME NEW m \in Lane, proc'[m] # "down"
        PROVE  m \in started' \/ laneStops'[m] \/ m \in unreaped'
    <3>1. CASE m # l
      BY <1>4, <1>5, <1>6, <2>1, <3>1 DEF IInv, ProcInv
    <3>2. CASE m = l
      BY <1>5, <1>6, <3>2
    <3> QED BY <3>1, <3>2
  <2>2. FrontDesk \in unreaped => FrontDesk \in unreaped'
    BY <1>5
  <2> QED BY <1>1, <1>4, <1>8, <2>1, <2>2 DEF IInv, ProcInv
<1>10. stopping' = TRUE
  BY <1>1, BusyClosed
<1>11. \A m \in Lane : Awaits(i, m) => m \in o.waits /\ o.stage \notin {"queued", "done"}
  BY <1>3 DEF Awaits
<1>12. \A m \in Lane : laneStops'[m] => laneStops[m] \/ (m \in o.waits /\ o.stage \notin {"queued", "done"})
  BY <1>3, <1>6
<1>13. o.stage \in {"lanes", "laneReaping"} /\ o.at \in Lane
  BY <1>2, <1>3
<1> HIDE DEF o, reap, l
<1>14. \A k \in 1..Len(primaryStops') :
          /\ primaryStops'[k] # {}
          /\ \A h \in primaryStops'[k] :
                /\ h \in 1..Len(ops)
                /\ h = i => o.stage = "reaping"
                /\ h # i => ops[h].stage = "reaping"
  BY <1>1 DEF IInv, StopInv
<1>15. unreaped' \subseteq Lane \cup {FrontDesk} /\ started' \subseteq started
  BY <1>2, <1>5, OpTypes
<1>16. o.kind \notin {"start", "stop"} /\ o.kind = ops[i].kind /\ o \in Ops
  BY <1>2, <1>3
<1> QED BY <1>1, <1>4, <1>6, <1>7, <1>9, <1>10, <1>11, <1>12, <1>13, <1>14, <1>15, <1>16, OpTypes, OpMoves

\* A front desk that comes up while its stop is in flight may be missed by it.
LEMMA CamePrimaryTypes ==
    ASSUME IInv
    PROVE  /\ CamePrimary \in [Lane \cup {FrontDesk} -> {"down", "up", "late"}]
           /\ CamePrimary[FrontDesk] = (IF primaryStops = <<>> THEN "up" ELSE "late")
           /\ \A l \in Lane : CamePrimary[l] = proc[l]
BY OpTypes, LaneAssumption DEF CamePrimary

LEMMA PrimarySettlesPreserves ==
    ASSUME IInv, NEW i \in 1..Len(ops), NEW ok \in BOOLEAN, PrimarySettles(i, ok)
    PROVE  IInv'
<1>1. /\ ops[i].stage = "primary" /\ ops[i] \in Ops /\ i \in Nat
      /\ UNCHANGED <<notOp, pinVars, started, laneStops>>
      /\ unreaped' = IF ~ok /\ ops[i].kind = "restart" THEN unreaped \cup {FrontDesk} ELSE unreaped
  BY OpTypes DEF PrimarySettles
<1>2. /\ ops[i].kind \in {"start", "restart"} /\ Ready(i) /\ stopping = TRUE
      /\ ops[i].kind = "start" => ops[i].waits = {}
  BY <1>1, BusyClosed DEF IInv, OpInv, Ops
<1>3. /\ proc' \in [Lane \cup {FrontDesk} -> {"down", "up", "late"}]
      /\ \A l \in Lane : proc'[l] = proc[l]
      /\ proc' = CamePrimary \/ (~ok /\ proc' = proc)
      /\ unreaped' \subseteq Lane \cup {FrontDesk} /\ unreaped \subseteq unreaped'
  BY <1>1, CamePrimaryTypes, OpTypes DEF PrimarySettles
<1>4. \A k \in 1..Len(primaryStops) :
         /\ primaryStops[k] # {} /\ i \notin primaryStops[k]
         /\ \A h \in primaryStops[k] : h \in 1..Len(ops) /\ ops[h].stage = "reaping"
  BY <1>1 DEF IInv, StopInv
<1>5. CASE ok /\ Current(i)
  <2>1. primaryStops = <<>>
    <3>1. ASSUME NEW k \in 1..Len(primaryStops)
          PROVE  FALSE
      <4>1. PICK h \in primaryStops[k] : TRUE
        BY <1>4
      <4>2. h \in 1..Len(ops) /\ ops[h].stage = "reaping" /\ h # i
        BY <1>4, <4>1
      <4>3. h \in 1..(i - 1)
        BY <1>5, <4>2, OpTypes DEF Current
      <4> QED BY <1>2, <4>2, <4>3 DEF Ready
    <3> QED BY <3>1, OpTypes, EmptySeq
  <2>2. PICK s \in {"done", "lanes"} :
           /\ Stage(i, s) /\ primaryStops' = primaryStops
           /\ s = "done" <=> ops[i].kind = "start"
           /\ stopping' = (s = "lanes")
    BY <1>2, <1>5 DEF PrimarySettles
  <2>3. s \in Stages
    BY DEF Stages
  <2>4. /\ Onto(i, s) \in Ops /\ Onto(i, s).kind = ops[i].kind /\ Onto(i, s).stage = s
        /\ Onto(i, s).waits = ops[i].waits
        /\ ops' = [ops EXCEPT ![i] = Onto(i, s)]
    BY <2>2, <2>3, Staged
  <2> HIDE DEF Onto
  <2>5. ~StopLast' /\ ~StopLast
    <3>1. ~StopLast
      BY <1>2, <1>5 DEF StopLast, Last, Current
    <3> QED BY <2>4, <3>1, OpStep, OpTypes
  <2>6. ProcInv'
    BY <1>1, <1>3, <1>5, <2>1, <2>5, CamePrimaryTypes DEF IInv, ProcInv
  <2>7. \A l \in Lane : Awaits(i, l) => l \in Onto(i, s).waits /\ Onto(i, s).stage \notin {"queued", "done"}
    BY <1>2, <2>2, <2>4 DEF Awaits
  <2>8. \A k \in 1..Len(primaryStops') :
           /\ primaryStops'[k] # {}
           /\ \A h \in primaryStops'[k] :
                 /\ h \in 1..Len(ops)
                 /\ h = i => Onto(i, s).stage = "reaping"
                 /\ h # i => ops[h].stage = "reaping"
    BY <1>4, <2>2
  <2>9. stopping' \in BOOLEAN /\ (~stopping' => Current(i) /\ Onto(i, s).kind # "stop" /\ Onto(i, s).stage = "done")
    BY <1>2, <1>5, <2>2, <2>4
  <2>10. Onto(i, s).kind = "start" => Onto(i, s).waits = {} /\ Onto(i, s).stage = "done"
    BY <1>2, <2>2, <2>4
  <2> QED BY <1>1, <1>2, <1>3, <2>2, <2>4, <2>6, <2>7, <2>8, <2>9, <2>10, OpTypes, OpMoves DEF pinVars
<1>6. CASE ~(ok /\ Current(i)) /\ (ops[i].kind = "start" \/ ok)
  <2>1. Stage(i, "reaping") /\ primaryStops' = Append(primaryStops, {i}) /\ stopping' = stopping
    BY <1>6 DEF PrimarySettles, FreshPrimaryStop
  <2>2. "reaping" \in Stages
    BY DEF Stages
  <2> DEFINE o == Onto(i, "reaping")
  <2>3. o \in Ops /\ o.kind = ops[i].kind /\ o.stage = "reaping" /\ o.waits = ops[i].waits /\ ops' = [ops EXCEPT ![i] = o]
    BY <2>1, <2>2, Staged
  <2> HIDE DEF o
  <2>4. /\ primaryStops' \in Seq(SUBSET Nat) /\ Len(primaryStops') = Len(primaryStops) + 1
        /\ primaryStops'[Len(primaryStops) + 1] = {i}
        /\ \A k \in 1..Len(primaryStops) : primaryStops'[k] = primaryStops[k]
        /\ Len(primaryStops) \in Nat /\ (primaryStops # <<>> => Len(primaryStops) >= 1)
    <3>1. {i} \in SUBSET Nat /\ primaryStops \in Seq(SUBSET Nat)
      BY <1>1, OpTypes
    <3>2. Len(primaryStops) \in Nat /\ (primaryStops # <<>> => Len(primaryStops) # 0)
      BY <3>1, EmptySeq
    <3> QED BY <2>1, <3>1, <3>2, AppendProperties
  <2>5. \A k \in 1..Len(primaryStops') :
           /\ primaryStops'[k] # {}
           /\ \A h \in primaryStops'[k] :
                 /\ h \in 1..Len(ops)
                 /\ h = i => o.stage = "reaping"
                 /\ h # i => ops[h].stage = "reaping"
    <3>1. ASSUME NEW k \in 1..Len(primaryStops')
          PROVE  k \in 1..Len(primaryStops) \/ primaryStops'[k] = {i}
      BY <2>4
    <3> QED BY <1>4, <2>3, <2>4, <3>1
  <2>6. primaryStops' # <<>>
    BY <2>4
  <2>7. proc'[FrontDesk] = "late" => FrontDesk \in unreaped' \/ Len(primaryStops') >= 2
    <3>1. CASE proc' = proc
      <4>1. proc'[FrontDesk] = "late" => FrontDesk \in unreaped \/ Len(primaryStops) >= 2
        BY <3>1 DEF IInv, ProcInv
      <4> QED BY <1>3, <2>4, <4>1
    <3>2. CASE proc' = CamePrimary
      <4>1. proc'[FrontDesk] = "late" => primaryStops # <<>>
        BY <3>2, CamePrimaryTypes
      <4> QED BY <2>4, <4>1
    <3> QED BY <1>3, <3>1, <3>2
  <2>8. ProcInv'
    BY <1>1, <1>3, <2>6, <2>7 DEF IInv, ProcInv
  <2>9. \A l \in Lane : Awaits(i, l) => l \in o.waits /\ o.stage \notin {"queued", "done"}
    BY <2>3 DEF Awaits
  <2>10. stopping' = TRUE /\ o.kind # "stop" /\ (o.kind = "start" => o.waits = {})
    BY <1>2, <2>1, <2>3
  <2> QED BY <1>1, <1>3, <2>3, <2>4, <2>5, <2>8, <2>9, <2>10, OpTypes, OpMoves DEF pinVars
<1>7. CASE ~ok /\ ops[i].kind # "start"
  <2> DEFINE o == [ops[i] EXCEPT !.stage = "draining", !.failed = TRUE]
  <2>1. ops' = [ops EXCEPT ![i] = o] /\ primaryStops' = primaryStops /\ stopping' = stopping
    BY <1>7 DEF PrimarySettles
  <2>2. o \in Ops /\ o.kind = ops[i].kind /\ o.stage = "draining" /\ o.waits = ops[i].waits
    BY <1>1 DEF Ops
  <2> HIDE DEF o
  <2>3. FrontDesk \in unreaped'
    BY <1>1, <1>2, <1>7
  <2>4. ProcInv'
    BY <1>1, <1>3, <2>3 DEF IInv, ProcInv
  <2>5. \A k \in 1..Len(primaryStops') :
           /\ primaryStops'[k] # {}
           /\ \A h \in primaryStops'[k] :
                 /\ h \in 1..Len(ops)
                 /\ h = i => o.stage = "reaping"
                 /\ h # i => ops[h].stage = "reaping"
    BY <1>4, <2>1
  <2>6. \A l \in Lane : Awaits(i, l) => l \in o.waits /\ o.stage \notin {"queued", "done"}
    BY <2>2 DEF Awaits
  <2>7. stopping' = TRUE /\ o.kind \notin {"start", "stop"}
    BY <1>2, <1>7, <2>1, <2>2
  <2> QED BY <1>1, <1>3, <2>1, <2>2, <2>4, <2>5, <2>6, <2>7, OpTypes, OpMoves DEF pinVars
<1> QED BY <1>2, <1>5, <1>6, <1>7

-----------------------------------------------------------------------------
(* Stops that settle *)

\* What a stop leaves is known to be left, but for a front desk a second stop is
\* on its way to.
LEMMA StoppedAgents ==
    ASSUME IInv, NEW x \in Lane \cup {FrontDesk}, NEW ok \in BOOLEAN, NEW missed \in BOOLEAN,
           Stopped(x, ok, missed)
    PROVE  /\ proc' \in [Lane \cup {FrontDesk} -> {"down", "up", "late"}]
           /\ unreaped' \subseteq Lane \cup {FrontDesk}
           /\ \A y \in (Lane \cup {FrontDesk}) \ {x} :
                 proc'[y] = proc[y] /\ (y \in unreaped' <=> y \in unreaped)
           /\ proc'[x] \in {"down", "up"}
           /\ \/ proc'[x] = "down" \/ x \in unreaped'
              \/ x = FrontDesk /\ proc[x] = "late" /\ unreaped' = unreaped
<1> DEFINE left == proc[x] # "down" /\ (~ok \/ missed)
<1>1. /\ missed => ok /\ proc[x] = "late"
      /\ proc' = [proc EXCEPT ![x] = IF left THEN "up" ELSE "down"]
      /\ unreaped' = CASE ~left -> unreaped \ {x}
                     [] missed /\ x = FrontDesk -> unreaped
                     [] OTHER -> unreaped \cup {x}
  BY DEF Stopped
<1>2. proc' \in [Lane \cup {FrontDesk} -> {"down", "up", "late"}] /\ proc'[x] = (IF left THEN "up" ELSE "down")
  BY <1>1, OpTypes
<1>3. \A y \in (Lane \cup {FrontDesk}) \ {x} : proc'[y] = proc[y]
  BY <1>1, OpTypes
<1>4. CASE ~left
  BY <1>1, <1>2, <1>3, <1>4, OpTypes
<1>5. CASE left
  <2>1. unreaped' = (IF missed /\ x = FrontDesk THEN unreaped ELSE unreaped \cup {x})
    BY <1>1, <1>5
  <2> QED BY <1>1, <1>2, <1>3, <1>5, <2>1, OpTypes
<1> QED BY <1>4, <1>5

LEMMA PrimaryStopSettlesPreserves ==
    ASSUME IInv, NEW ok \in BOOLEAN, NEW missed \in BOOLEAN, PrimaryStopSettles(ok, missed)
    PROVE  IInv'
<1>1. /\ primaryStops # <<>> /\ primaryStops' = Tail(primaryStops) /\ Stopped(FrontDesk, ok, missed)
      /\ UNCHANGED <<notOp, pinVars, started, laneStops, stopping, ops>>
  BY DEF PrimaryStopSettles
<1>2. /\ primaryStops' \in Seq(SUBSET Nat) /\ Len(primaryStops') = Len(primaryStops) - 1
      /\ \A k \in 1..Len(primaryStops') : primaryStops'[k] = primaryStops[k + 1]
      /\ Len(primaryStops) \in Nat
  BY <1>1, OpTypes, HeadTailProperties
<1>3. /\ proc' \in [Lane \cup {FrontDesk} -> {"down", "up", "late"}]
      /\ unreaped' \subseteq Lane \cup {FrontDesk}
      /\ \A y \in Lane : proc'[y] = proc[y] /\ (y \in unreaped' <=> y \in unreaped)
      /\ proc'[FrontDesk] \in {"down", "up"}
      /\ \/ proc'[FrontDesk] = "down" \/ FrontDesk \in unreaped'
         \/ proc[FrontDesk] = "late" /\ unreaped' = unreaped
  BY <1>1, StoppedAgents, LaneAssumption
<1>4. StopLast' <=> StopLast
  BY <1>1 DEF StopLast
<1>5. ProcInv'
  <2>1. proc[FrontDesk] = "late" => FrontDesk \in unreaped \/ Len(primaryStops) >= 2
    BY DEF IInv, ProcInv
  <2>2. Len(primaryStops) >= 2 => primaryStops' # <<>>
    BY <1>2
  <2>3. \A l \in Lane : proc'[l] # "down" => l \in started' \/ laneStops'[l] \/ l \in unreaped'
    BY <1>1, <1>3 DEF IInv, ProcInv
  <2> QED BY <1>3, <2>1, <2>2, <2>3 DEF ProcInv
<1>6. OpInv'
  BY <1>1 DEF IInv, OpInv, Ready
<1>7. StopInv'
  <2>1. \A l \in Lane : laneStops'[l] => Reaping(l)' \/ Claimed(l)'
    BY <1>1 DEF IInv, StopInv, Reaping, Claimed, Awaits, notOp
  <2>2. \A k \in 1..Len(primaryStops') : k + 1 \in 1..Len(primaryStops)
    BY <1>2
  <2> QED BY <1>1, <1>2, <2>1, <2>2 DEF IInv, StopInv
<1>8. StopLast' => StopLast /\ stopping'
  BY <1>1, <1>4 DEF IInv, ClosedInv
<1> QED BY <1>1, <1>2, <1>3, <1>5, <1>6, <1>7, <1>8, OpTypes, OpFrame DEF pinVars

\* What waited for the stop of lane l.
LEMMA Unclaimed ==
    ASSUME IInv, NEW l \in Lane,
           ops' = [i \in DOMAIN ops |-> IF ops[i].stage = "queued" THEN ops[i] ELSE [ops[i] EXCEPT !.waits = @ \ {l}]]
    PROVE  /\ ops' \in Seq(Ops) /\ Len(ops') = Len(ops)
           /\ \A i \in 1..Len(ops) :
                 /\ ops'[i].kind = ops[i].kind /\ ops'[i].stage = ops[i].stage /\ ops'[i].at = ops[i].at
                 /\ ops'[i].waits = IF ops[i].stage = "queued" THEN ops[i].waits ELSE ops[i].waits \ {l}
           /\ StopLast' <=> StopLast
<1>1. ops \in Seq(Ops) /\ \A i \in 1..Len(ops) : ops[i] \in Ops
  BY OpTypes
<1>2. ASSUME NEW i \in 1..Len(ops)
      PROVE  /\ ops'[i] \in Ops
             /\ ops'[i].kind = ops[i].kind /\ ops'[i].stage = ops[i].stage /\ ops'[i].at = ops[i].at
             /\ ops'[i].waits = IF ops[i].stage = "queued" THEN ops[i].waits ELSE ops[i].waits \ {l}
  <2>1. DOMAIN ops = 1..Len(ops)
    BY <1>1
  <2>2. ops[i] \in Ops /\ ops[i].waits \in SUBSET Lane
    BY <1>1 DEF Ops
  <2>3. CASE ops[i].stage = "queued"
    <3>1. ops'[i] = ops[i]
      BY <2>1, <2>3
    <3> QED BY <2>2, <2>3, <3>1
  <2>4. CASE ops[i].stage # "queued"
    <3>1. ops'[i] = [ops[i] EXCEPT !.waits = ops[i].waits \ {l}]
      BY <2>1, <2>4
    <3> QED BY <2>2, <2>4, <3>1 DEF Ops
  <2> QED BY <2>3, <2>4
<1>3. DOMAIN ops' = 1..Len(ops)
  BY <1>1
<1>4. ops' \in Seq(Ops) /\ Len(ops') = Len(ops)
  <2>1. ops' = [i \in 1..Len(ops) |-> ops'[i]]
    BY <1>1, <1>3
  <2>2. ops' \in [1..Len(ops) -> Ops]
    BY <1>2, <2>1
  <2> QED BY <1>1, <2>2
<1>5. StopLast' <=> StopLast
  <2>1. ops # <<>> <=> Len(ops) \in 1..Len(ops)
    BY <1>1
  <2>2. ops' # <<>> <=> ops # <<>>
    BY <1>1, <1>4
  <2> QED BY <1>2, <1>4, <2>1, <2>2 DEF StopLast, Last
<1> QED BY <1>2, <1>4, <1>5

LEMMA LaneStopSettlesPreserves ==
    ASSUME IInv, NEW l \in Lane, NEW ok \in BOOLEAN, NEW missed \in BOOLEAN, LaneStopSettles(l, ok, missed)
    PROVE  IInv'
<1>1. /\ Quiet /\ laneStops' = [laneStops EXCEPT ![l] = FALSE] /\ Stopped(l, ok, missed)
      /\ UNCHANGED <<pinVars, pending, started, stopping, primaryStops, deferredGeneration, rollcall, budget>>
  BY DEF LaneStopSettles
<1>2. /\ ops' \in Seq(Ops) /\ Len(ops') = Len(ops)
      /\ \A i \in 1..Len(ops) :
            /\ ops'[i].kind = ops[i].kind /\ ops'[i].stage = ops[i].stage /\ ops'[i].at = ops[i].at
            /\ ops'[i].waits = IF ops[i].stage = "queued" THEN ops[i].waits ELSE ops[i].waits \ {l}
      /\ StopLast' <=> StopLast
  BY Unclaimed DEF LaneStopSettles
<1>3. /\ laneStarts' \in [Lane -> LaneStarts \cup {None}]
      /\ \A m \in Lane \ {l} : laneStarts'[m] = laneStarts[m]
      /\ laneStarts'[l] = laneStarts[l] \/ laneStarts'[l] = None
  BY DEF LaneStopSettles, IInv, TypeOK
<1>4. /\ TurnTypes' /\ JobTypes' /\ AskInv' /\ LineInv' /\ NothingFromOldTurns'
      /\ acceptedTurn = None => acceptedTurn' = None
  <2>1. CASE laneStarts' = [laneStarts EXCEPT ![l] = None] /\ ResumeStarters(l, FALSE) /\ laneStarts[l] # None
    <3>1. l \notin started
      BY <2>1 DEF IInv, ClosedInv
    <3>2. started' \subseteq started \cup {l} /\ l \notin started'
      BY <1>1, <3>1
    <3> QED BY <1>1, <1>3, <2>1, <3>2, Resumed
  <2>2. CASE UNCHANGED <<laneStarts, turnVars, jobs>>
    <3>1. \A m \in Lane : RetiredStart(m) => RetiredStart(m)'
      BY <2>2 DEF RetiredStart
    <3> QED BY <1>1, <2>2, <3>1, NotResumed DEF turnVars
  <2> QED BY <2>1, <2>2 DEF LaneStopSettles
<1>5. laneStops' \in [Lane -> BOOLEAN] /\ ~laneStops'[l] /\ \A m \in Lane \ {l} : laneStops'[m] = laneStops[m]
  BY <1>1, OpTypes
<1>6. /\ proc' \in [Lane \cup {FrontDesk} -> {"down", "up", "late"}]
      /\ unreaped' \subseteq Lane \cup {FrontDesk}
      /\ \A y \in (Lane \cup {FrontDesk}) \ {l} : proc'[y] = proc[y] /\ (y \in unreaped' <=> y \in unreaped)
      /\ proc'[l] = "down" \/ l \in unreaped'
  BY <1>1, StoppedAgents, LaneAssumption
<1>7. TypeOK'
  BY <1>1, <1>2, <1>3, <1>4, <1>5, <1>6 DEF IInv, TypeOK, TurnTypes, JobTypes
<1>8. OpInv'
  <2>1. ASSUME NEW i \in 1..Len(ops), Ready(i)
        PROVE  Ready(i)'
    <3>1. \A j \in 1..(i - 1) : j \in 1..Len(ops)
      BY OpTypes
    <3> QED BY <1>2, <2>1, <3>1 DEF Ready
  <2>2. \A i \in 1..Len(ops) : ops'[i].stage # "queued" /\ ops'[i].kind # "stop" => Ready(i)'
    BY <1>2, <2>1 DEF IInv, OpInv
  <2>3. ~stopping' => \A i \in 1..Len(ops) : ops'[i].stage = "done"
    BY <1>1, <1>2 DEF IInv, OpInv
  <2>4. \A i \in 1..Len(ops) :
          /\ ops'[i].kind = "start" => ops'[i].waits = {} /\ ops'[i].stage \in {"queued", "primary", "reaping", "done"}
          /\ ops'[i].kind = "stop" => ops'[i].stage \in {"reaping", "done"}
          /\ ops'[i].stage \in {"lane", "laneReaping"} => ops'[i].at \in Lane
    BY <1>2 DEF IInv, OpInv
  <2> QED BY <1>2, <2>2, <2>3, <2>4 DEF OpInv
<1>9. StopInv'
  <2>1. ASSUME NEW m \in Lane, laneStops'[m]
        PROVE  Reaping(m)' \/ Claimed(m)'
    <3>1. m # l /\ laneStops[m] /\ laneStarts'[m] = laneStarts[m]
      BY <1>3, <1>5, <2>1
    <3>2. Reaping(m) => Reaping(m)'
      BY <3>1 DEF Reaping
    <3>3. ASSUME Claimed(m)
          PROVE  Claimed(m)'
      <4>1. PICK i \in 1..Len(ops) : Awaits(i, m)
        BY <3>3 DEF Claimed
      <4>2. Awaits(i, m)'
        BY <1>2, <3>1, <4>1 DEF Awaits
      <4> QED BY <1>2, <4>2 DEF Claimed
    <3> QED BY <3>1, <3>2, <3>3 DEF IInv, StopInv
  <2>2. \A k \in 1..Len(primaryStops') :
          /\ primaryStops'[k] # {}
          /\ \A i \in primaryStops'[k] : i \in 1..Len(ops') /\ ops'[i].stage = "reaping"
    BY <1>1, <1>2 DEF IInv, StopInv
  <2> QED BY <2>1, <2>2 DEF StopInv
<1>10. ClosedInv'
  <2>1. \A m \in Lane : RetiredStart(m) /\ laneStarts'[m] # None => RetiredStart(m)'
    BY <1>3 DEF RetiredStart
  <2>2. \A m \in Lane : laneStarts'[m] # None => laneStarts[m] # None
    BY <1>3
  <2> QED BY <1>1, <1>2, <1>4, <2>1, <2>2 DEF IInv, ClosedInv, pinVars
<1>11. ProcInv'
  <2>1. \A m \in Lane : proc'[m] # "down" => m \in started' \/ laneStops'[m] \/ m \in unreaped'
    BY <1>1, <1>5, <1>6 DEF IInv, ProcInv
  <2>2. proc'[FrontDesk] = proc[FrontDesk] /\ (FrontDesk \in unreaped' <=> FrontDesk \in unreaped)
    BY <1>6, LaneAssumption
  <2> QED BY <1>1, <1>2, <2>1, <2>2 DEF IInv, ProcInv
<1> QED BY <1>4, <1>7, <1>8, <1>9, <1>10, <1>11 DEF IInv

-----------------------------------------------------------------------------
(* Lifecycle calls *)

LEMMA Called ==
    ASSUME IInv, NEW o \in Ops, ops' = Append(ops, o), stopping' = TRUE,
           o.stage \in {"queued", "reaping"}, o.stage = "reaping" <=> o.kind = "stop",
           o.kind = "start" => o.waits = {}
    PROVE  /\ ops' \in Seq(Ops) /\ Len(ops') = Len(ops) + 1 /\ ops'[Len(ops) + 1] = o
           /\ \A j \in 1..Len(ops) : ops'[j] = ops[j]
           /\ OpInv'
           /\ \A l \in Lane : Claimed(l) => Claimed(l)'
           /\ StopLast' <=> o.kind = "stop"
<1>1. /\ ops' \in Seq(Ops) /\ Len(ops') = Len(ops) + 1 /\ ops'[Len(ops) + 1] = o
      /\ \A j \in 1..Len(ops) : ops'[j] = ops[j]
      /\ Len(ops) \in Nat
  BY OpTypes, AppendProperties
<1>2. ASSUME NEW j \in 1..Len(ops')
      PROVE  (j \in 1..Len(ops) /\ ops'[j] = ops[j]) \/ (j = Len(ops) + 1 /\ ops'[j] = o)
  BY <1>1
<1>3. OpInv'
  <2>1. ASSUME NEW j \in 1..Len(ops), Ready(j)
        PROVE  Ready(j)'
    <3>1. \A h \in 1..(j - 1) : h \in 1..Len(ops)
      BY <1>1
    <3> QED BY <1>1, <2>1, <3>1 DEF Ready
  <2>2. ASSUME NEW j \in 1..Len(ops'), ops'[j].stage # "queued", ops'[j].kind # "stop"
        PROVE  Ready(j)'
    <3>1. j \in 1..Len(ops) /\ ops'[j] = ops[j]
      BY <1>2, <2>2
    <3> QED BY <2>1, <2>2, <3>1 DEF IInv, OpInv
  <2>3. \A j \in 1..Len(ops') :
          /\ ops'[j].kind = "start" => ops'[j].waits = {} /\ ops'[j].stage \in {"queued", "primary", "reaping", "done"}
          /\ ops'[j].kind = "stop" => ops'[j].stage \in {"reaping", "done"}
          /\ ops'[j].stage \in {"lane", "laneReaping"} => ops'[j].at \in Lane
    BY <1>2 DEF IInv, OpInv
  <2> QED BY <2>2, <2>3 DEF OpInv
<1>4. ASSUME NEW l \in Lane, Claimed(l)
      PROVE  Claimed(l)'
  <2>1. PICK j \in 1..Len(ops) : Awaits(j, l)
    BY <1>4 DEF Claimed
  <2>2. j \in 1..Len(ops') /\ Awaits(j, l)'
    BY <1>1, <2>1 DEF Awaits
  <2> QED BY <2>2 DEF Claimed
<1>5. StopLast' <=> o.kind = "stop"
  BY <1>1 DEF StopLast, Last
<1> QED BY <1>1, <1>3, <1>4, <1>5

\* Nobody speaks after the call.
LEMMA Cancelled ==
    ASSUME IInv, CancelCurrentTurn, pending' = None, UNCHANGED <<jobs, deferredGeneration>>,
           \/ UNCHANGED pinVars
           \/ active' = None /\ activeFromDeferredTransfer' = FALSE /\ pin' = NoPin
    PROVE  TurnTypes' /\ JobTypes' /\ AskInv' /\ LineInv' /\ NothingFromOldTurns'
<1>1. acceptedTurn' = None /\ rollcall' = None /\ acceptedTurnSequence' = acceptedTurnSequence
  BY DEF CancelCurrentTurn
<1>2. TurnTypes' /\ JobTypes'
  BY <1>1, Types, NoPinTypes DEF TurnTypes, JobTypes, pinVars
<1>3. AskInv' /\ LineInv'
  BY <1>1 DEF IInv, AskInv, LineInv, pinVars
<1>4. NothingFromOldTurns'
  BY <1>1 DEF IInv, NothingFromOldTurns, AskDiesWithItsTurn, DropIsFinal, ProgrammaticDiesWithCaller,
              VoiceOfLatestTurn, At, pinVars
<1> QED BY <1>2, <1>3, <1>4

\* Every start in flight is told to clean up after itself.
LEMMA RetiresAll ==
    ASSUME IInv, laneStarts' = Retired
    PROVE  /\ laneStarts' \in [Lane -> LaneStarts \cup {None}]
           /\ \A l \in Lane :
                 /\ laneStarts'[l] # None <=> laneStarts[l] # None
                 /\ laneStarts'[l] # None => RetiredStart(l)'
                 /\ Reaping(l) => Reaping(l)'
<1>1. laneStarts \in [Lane -> LaneStarts \cup {None}] /\ None \notin LaneStarts
  BY NoneAssumption DEF IInv, TypeOK
<1>2. ASSUME NEW l \in Lane
      PROVE  /\ laneStarts'[l] \in LaneStarts \cup {None}
             /\ laneStarts'[l] # None <=> laneStarts[l] # None
             /\ laneStarts'[l] # None => RetiredStart(l)'
             /\ Reaping(l) => Reaping(l)'
  <2>1. CASE laneStarts[l] = None
    <3>1. laneStarts'[l] = None
      BY <2>1 DEF Retired
    <3> QED BY <2>1, <3>1 DEF Reaping
  <2>2. CASE laneStarts[l] # None
    <3>1. laneStarts[l] \in LaneStarts /\ laneStarts'[l] = [laneStarts[l] EXCEPT !.retired = TRUE]
      BY <1>1, <2>2 DEF Retired
    <3>2. laneStarts'[l] \in LaneStarts /\ laneStarts'[l].retired /\ laneStarts'[l].stage = laneStarts[l].stage
      BY <3>1 DEF LaneStarts
    <3>3. laneStarts'[l] # None
      BY <1>1, <3>2
    <3> QED BY <2>2, <3>2, <3>3 DEF RetiredStart, Reaping
  <2> QED BY <2>1, <2>2
<1>3. laneStarts' \in [Lane -> LaneStarts \cup {None}]
  BY <1>2 DEF Retired
<1> QED BY <1>2, <1>3

LEMMA CallStartPreserves ==
    ASSUME IInv, CallStart
    PROVE  IInv'
<1> DEFINE o == [kind |-> "start", stage |-> "queued", todo |-> {}, waits |-> {}, at |-> None, failed |-> FALSE]
<1>1. /\ stopping' = TRUE /\ CancelCurrentTurn /\ ops' = Append(ops, o) /\ StopLast
      /\ UNCHANGED <<pinVars, pending, laneVars, procVars, primaryStops, jobs, deferredGeneration, budget>>
  BY DEF CallStart, Call, StopLast
<1>2. o \in Ops /\ o.kind = "start" /\ o.stage = "queued" /\ o.waits = {}
  BY DEF Ops
<1> HIDE DEF o
<1>3. /\ ops' \in Seq(Ops) /\ Len(ops') = Len(ops) + 1 /\ \A j \in 1..Len(ops) : ops'[j] = ops[j]
      /\ OpInv' /\ ~StopLast'
      /\ \A l \in Lane : Claimed(l) => Claimed(l)'
  BY <1>1, <1>2, Called
<1>4. pending' = None /\ stopping
  BY <1>1 DEF IInv, ClosedInv
<1>5. TurnTypes' /\ JobTypes' /\ AskInv' /\ LineInv' /\ NothingFromOldTurns'
  BY <1>1, <1>4, Cancelled
<1>6. TypeOK'
  BY <1>1, <1>3, <1>5 DEF IInv, TypeOK, TurnTypes, JobTypes, laneVars, procVars
<1>7. StopInv'
  <2>1. \A l \in Lane : Reaping(l) => Reaping(l)'
    BY <1>1 DEF Reaping, laneVars
  <2>2. 1..Len(ops) \subseteq 1..Len(ops')
    BY <1>3, OpTypes
  <2> QED BY <1>1, <1>3, <2>1, <2>2 DEF IInv, StopInv, laneVars
<1>8. ClosedInv'
  <2>1. acceptedTurn' = None
    BY <1>1 DEF CancelCurrentTurn
  <2>2. \A l \in Lane : RetiredStart(l) => RetiredStart(l)'
    BY <1>1 DEF RetiredStart, laneVars
  <2> QED BY <1>1, <1>3, <1>4, <2>1, <2>2 DEF IInv, ClosedInv, laneVars
<1>9. ProcInv'
  BY <1>1, <1>3 DEF IInv, ProcInv, laneVars, procVars
<1> QED BY <1>3, <1>5, <1>6, <1>7, <1>8, <1>9 DEF IInv

LEMMA CallRestartPreserves ==
    ASSUME IInv, CallRestart
    PROVE  IInv'
<1> DEFINE o == [kind |-> "restart", stage |-> "queued", todo |-> started, waits |-> Pending, at |-> None, failed |-> FALSE]
<1>1. /\ stopping' = TRUE /\ CancelCurrentTurn /\ ops' = Append(ops, o) /\ pending' = None /\ laneStarts' = Retired
      /\ UNCHANGED <<pinVars, started, laneStops, procVars, primaryStops, jobs, deferredGeneration, budget>>
      /\ ops # <<>> => Last(ops).kind # "stop"
  BY DEF CallRestart, Call
<1>2. o \in Ops /\ o.kind = "restart" /\ o.stage = "queued"
  BY DEF Ops, Pending, IInv, TypeOK
<1> HIDE DEF o
<1>3. /\ ops' \in Seq(Ops) /\ Len(ops') = Len(ops) + 1 /\ \A j \in 1..Len(ops) : ops'[j] = ops[j]
      /\ OpInv' /\ ~StopLast'
      /\ \A l \in Lane : Claimed(l) => Claimed(l)'
  BY <1>1, <1>2, Called
<1>4. TurnTypes' /\ JobTypes' /\ AskInv' /\ LineInv' /\ NothingFromOldTurns'
  BY <1>1, Cancelled
<1>5. /\ laneStarts' \in [Lane -> LaneStarts \cup {None}]
      /\ \A l \in Lane :
            /\ laneStarts'[l] # None <=> laneStarts[l] # None
            /\ laneStarts'[l] # None => RetiredStart(l)'
            /\ Reaping(l) => Reaping(l)'
  BY <1>1, RetiresAll
<1>6. TypeOK'
  BY <1>1, <1>3, <1>4, <1>5 DEF IInv, TypeOK, TurnTypes, JobTypes, procVars
<1>7. StopInv'
  <2>1. 1..Len(ops) \subseteq 1..Len(ops')
    BY <1>3, OpTypes
  <2> QED BY <1>1, <1>3, <1>5, <2>1 DEF IInv, StopInv
<1>8. ClosedInv'
  BY <1>1, <1>3, <1>5 DEF IInv, ClosedInv, CancelCurrentTurn
<1>9. ProcInv'
  BY <1>1, <1>3 DEF IInv, ProcInv, procVars
<1> QED BY <1>3, <1>4, <1>6, <1>7, <1>8, <1>9 DEF IInv

LEMMA CallStopPreserves ==
    ASSUME IInv, CallStop
    PROVE  IInv'
<1>0. PICK n \in Nat : n = Len(ops) + 1
  BY OpTypes
<1> DEFINE o == [kind |-> "stop", stage |-> "reaping", todo |-> {}, waits |-> started \cup Pending, at |-> None, failed |-> FALSE]
<1>1. /\ stopping' = TRUE /\ CancelCurrentTurn /\ ops' = Append(ops, o) /\ pending' = None /\ laneStarts' = Retired
      /\ active' = None /\ activeFromDeferredTransfer' = FALSE /\ pin' = NoPin /\ started' = {}
      /\ StopPrimary(n) /\ StopLanes(started \cup Pending)
      /\ UNCHANGED <<procVars, jobs, deferredGeneration, budget>>
  BY <1>0 DEF CallStop, Call, ReleaseActiveLane
<1>2. o \in Ops /\ o.kind = "stop" /\ o.stage = "reaping" /\ o.waits = started \cup Pending
  BY DEF Ops, Pending, IInv, TypeOK
<1> HIDE DEF o
<1>3. /\ ops' \in Seq(Ops) /\ Len(ops') = n /\ ops'[n] = o /\ \A j \in 1..Len(ops) : ops'[j] = ops[j]
      /\ OpInv' /\ StopLast'
      /\ \A l \in Lane : Claimed(l) => Claimed(l)'
  BY <1>0, <1>1, <1>2, Called
<1>4. TurnTypes' /\ JobTypes' /\ AskInv' /\ LineInv' /\ NothingFromOldTurns'
  BY <1>1, Cancelled
<1>5. /\ laneStarts' \in [Lane -> LaneStarts \cup {None}]
      /\ \A l \in Lane :
            /\ laneStarts'[l] # None => RetiredStart(l)'
            /\ Reaping(l) => Reaping(l)'
  BY <1>1, RetiresAll
<1>6. /\ laneStops' \in [Lane -> BOOLEAN]
      /\ \A l \in Lane : laneStops'[l] <=> laneStops[l] \/ l \in started \cup Pending
  BY <1>1, OpTypes DEF StopLanes
<1>7. /\ n \in Nat /\ n \in 1..Len(ops') /\ Len(ops) \in Nat
  BY <1>0, <1>3, OpTypes
<1>8. /\ primaryStops' \in Seq(SUBSET Nat) /\ primaryStops' # <<>> /\ Len(primaryStops') >= Len(primaryStops)
      /\ \A k \in 1..Len(primaryStops') :
            \/ primaryStops'[k] = {n}
            \/ k \in 1..Len(primaryStops) /\ primaryStops'[k] \in {primaryStops[k], primaryStops[k] \cup {n}}
  <2>1. primaryStops \in Seq(SUBSET Nat) /\ Len(primaryStops) \in Nat
    BY OpTypes
  <2>2. CASE primaryStops = <<>>
    <3>1. primaryStops' = Append(primaryStops, {n})
      BY <1>1, <2>2 DEF StopPrimary, FreshPrimaryStop
    <3>2. {n} \in SUBSET Nat
      BY <1>7
    <3>3. /\ primaryStops' \in Seq(SUBSET Nat) /\ Len(primaryStops') = Len(primaryStops) + 1
          /\ primaryStops'[Len(primaryStops) + 1] = {n}
          /\ Len(primaryStops) = 0
      BY <2>1, <2>2, <3>1, <3>2, AppendProperties
    <3> QED BY <3>3
  <2>3. CASE primaryStops # <<>>
    <3> DEFINE last == Len(primaryStops)
    <3>1. primaryStops' = [primaryStops EXCEPT ![last] = primaryStops[last] \cup {n}]
      BY <1>1, <2>3 DEF StopPrimary
    <3>2. last \in 1..Len(primaryStops) /\ primaryStops[last] \in SUBSET Nat
      BY <2>1, <2>3
    <3>3. primaryStops[last] \cup {n} \in SUBSET Nat
      BY <1>7, <3>2
    <3>4. primaryStops' \in Seq(SUBSET Nat) /\ Len(primaryStops') = Len(primaryStops)
      BY <2>1, <3>1, <3>2, <3>3
    <3>5. \A k \in 1..Len(primaryStops) : primaryStops'[k] \in {primaryStops[k], primaryStops[k] \cup {n}}
      BY <2>1, <3>1, <3>2
    <3>6. primaryStops' # <<>>
      BY <3>2, <3>4
    <3> QED BY <2>1, <3>4, <3>5, <3>6
  <2> QED BY <2>2, <2>3
<1>9. TypeOK'
  BY <1>1, <1>3, <1>4, <1>5, <1>6, <1>8 DEF IInv, TypeOK, TurnTypes, JobTypes, procVars
<1>10. StopInv'
  <2>1. ASSUME NEW l \in Lane, laneStops'[l]
        PROVE  Reaping(l)' \/ Claimed(l)'
    <3>1. CASE l \in started \cup Pending
      <4>1. Awaits(n, l)'
        BY <1>2, <1>3, <3>1 DEF Awaits
      <4> QED BY <1>7, <4>1 DEF Claimed
    <3>2. CASE laneStops[l]
      BY <1>3, <1>5, <3>2 DEF IInv, StopInv
    <3> QED BY <1>6, <2>1, <3>1, <3>2
  <2>2. ASSUME NEW k \in 1..Len(primaryStops')
        PROVE  /\ primaryStops'[k] # {}
               /\ \A i \in primaryStops'[k] : i \in 1..Len(ops') /\ ops'[i].stage = "reaping"
    <3>1. n \in 1..Len(ops') /\ ops'[n].stage = "reaping"
      BY <1>2, <1>3, <1>7
    <3>2. \A i \in 1..Len(ops) : i \in 1..Len(ops') /\ ops'[i] = ops[i]
      BY <1>0, <1>3, <1>7
    <3>3. CASE primaryStops'[k] = {n}
      BY <3>1, <3>3
    <3>4. CASE k \in 1..Len(primaryStops) /\ primaryStops'[k] \in {primaryStops[k], primaryStops[k] \cup {n}}
      <4>1. primaryStops[k] # {} /\ \A i \in primaryStops[k] : i \in 1..Len(ops) /\ ops[i].stage = "reaping"
        BY <3>4 DEF IInv, StopInv
      <4> QED BY <3>1, <3>2, <3>4, <4>1
    <3> QED BY <1>8, <3>3, <3>4
  <2> QED BY <2>1, <2>2 DEF StopInv
<1>11. ClosedInv'
  BY <1>1, <1>5 DEF ClosedInv, CancelCurrentTurn
<1>12. ProcInv'
  <2>1. \A l \in Lane : proc'[l] # "down" => laneStops'[l] \/ l \in unreaped'
    BY <1>1, <1>6 DEF IInv, ProcInv, procVars
  <2>2. proc'[FrontDesk] = "late" => FrontDesk \in unreaped' \/ Len(primaryStops') >= 2
    BY <1>1, <1>8, OpTypes DEF IInv, ProcInv, procVars
  <2> QED BY <1>8, <2>1, <2>2 DEF ProcInv
<1> QED BY <1>3, <1>4, <1>9, <1>10, <1>11, <1>12 DEF IInv

-----------------------------------------------------------------------------
(* Every step *)

LEMMA InitHolds ==
    ASSUME Init
    PROVE  IInv
<1>1. /\ acceptedTurnSequence = 0 /\ acceptedTurn = None /\ pending = None /\ rollcall = None
      /\ active = None /\ activeFromDeferredTransfer = FALSE /\ deferredGeneration = 0
      /\ started = {} /\ laneStarts = [l \in Lane |-> None] /\ laneStops = [l \in Lane |-> FALSE]
      /\ stopping = FALSE /\ ops = <<>> /\ primaryStops = <<>> /\ pin = NoPin /\ unreaped = {}
  BY DEF Init
<1>2. Len(ops) = 0 /\ Len(primaryStops) = 0 /\ ops \in Seq(Ops) /\ primaryStops \in Seq(SUBSET Nat)
  BY <1>1
<1>3. /\ proc \in [Lane \cup {FrontDesk} -> {"down", "up", "late"}]
      /\ \A l \in Lane : proc[l] = "down"
      /\ proc[FrontDesk] = "up"
  BY LaneAssumption DEF Init
<1>4. TypeOK
  <2>1. jobs \in [Job -> [pc : {"new", "loop", "waitStart", "waitRetired", "done"}, lane : Lane \cup {None}]]
    BY DEF Init
  <2>2. budget \in Budgets
    BY DEF Init
  <2> QED BY <1>1, <1>2, <1>3, <2>1, <2>2, NoPinTypes DEF TypeOK
<1>5. OpInv /\ StopInv
  BY <1>1, <1>2 DEF OpInv, StopInv
<1>6. ClosedInv /\ ProcInv
  BY <1>1, <1>2, <1>3 DEF ClosedInv, ProcInv, StopLast
<1>7. AskInv /\ LineInv /\ NothingFromOldTurns
  BY <1>1 DEF AskInv, LineInv, NothingFromOldTurns, AskDiesWithItsTurn, DropIsFinal,
              ProgrammaticDiesWithCaller, VoiceOfLatestTurn, At
<1> QED BY <1>4, <1>5, <1>6, <1>7 DEF IInv

LEMMA StutterPreserves ==
    ASSUME IInv, UNCHANGED vars
    PROVE  IInv'
<1>1. UNCHANGED notTurn /\ UNCHANGED turnVars /\ UNCHANGED pending /\ UNCHANGED rollcall
  BY DEF vars, notTurn
<1>2. VoiceOfLatestTurn' /\ rollcall' \in Rollcalls \cup {None}
  BY <1>1 DEF IInv, TypeOK, NothingFromOldTurns, VoiceOfLatestTurn, At, turnVars
<1> QED BY <1>1, <1>2, VoicesOnly

\* What runs between two awaits.
LEMMA ResumesPreserve ==
    ASSUME IInv, Resumes
    PROVE  IInv'
<1>1. DOMAIN ops = 1..Len(ops)
  BY OpTypes
<1>2. CASE PinLoop
  BY <1>2, PinLoopPreserves
<1>3. CASE PinResumes
  BY <1>3, PinResumesPreserves
<1>4. ASSUME NEW j \in Job, JobLoop(j) PROVE IInv'
  BY <1>4, JobLoopPreserves
<1>5. ASSUME NEW i \in 1..Len(ops), OpBegins(i) PROVE IInv'
  BY <1>5, OpBeginsPreserves
<1>6. ASSUME NEW i \in 1..Len(ops), OpReaped(i) PROVE IInv'
  BY <1>6, OpReapedPreserves
<1>7. ASSUME NEW i \in 1..Len(ops), RestartsNoMore(i) \/ LaneReaped(i) \/ RestartEnds(i) PROVE IInv'
  BY <1>7, RestartMovesPreserve
<1> QED BY <1>1, <1>2, <1>3, <1>4, <1>5, <1>6, <1>7 DEF Resumes

LEMMA StepPreserves ==
    ASSUME IInv, [Next]_vars
    PROVE  IInv'
<1>0. DOMAIN ops = 1..Len(ops)
  BY OpTypes
<1>1. ASSUME NEW k \in {"spoken", "transferTo"}, Accept(k) PROVE IInv'
  BY <1>1, AcceptPreserves
<1>2. ASSUME NEW t \in 1..acceptedTurnSequence, CallerAborts(t) PROVE IInv'
  BY <1>2, CallerAbortsPreserves
<1>3. CASE Fails \/ Acknowledges \/ Classifies \/ Classified \/ ResolvePending
  BY <1>3, FailsPreserves, AcknowledgesPreserves, ClassifiesPreserves, ResolvePendingPreserves
<1>4. CASE DoRollcall \/ StartStandup \/ StandupSpeaks \/ StandupEnds \/ Dial \/ DoRelease \/ BrainAnswers
  BY <1>4, RollcallPreserves, StandupPreserves, DialPreserves, DoReleasePreserves, BrainAnswersPreserves
<1>5. ASSUME NEW l \in Lane, AsksForLane(l) PROVE IInv'
  BY <1>5, AsksForLanePreserves
<1>6. CASE TakeVoice \/ DiscardVoices \/ DropDeferredWork
  BY <1>6, VoicesPreserve, DropPreserves
<1>7. ASSUME NEW l \in Lane, LaneStartOk(l) \/ LaneStartFails(l) PROVE IInv'
  BY <1>7, LaneStartOkPreserves, LaneStartFailsPreserves
<1>8. ASSUME NEW l \in Lane, NEW ok \in BOOLEAN, NEW missed \in BOOLEAN, LaneStopSettles(l, ok, missed) PROVE IInv'
  BY <1>8, LaneStopSettlesPreserves
<1>9. ASSUME NEW j \in Job, NEW l \in Lane, SendBackground(j, l) PROVE IInv'
  BY <1>9, SendBackgroundPreserves
<1>10. CASE CallStart \/ CallStop \/ CallRestart
  BY <1>10, CallStartPreserves, CallStopPreserves, CallRestartPreserves
<1>11. ASSUME NEW i \in 1..Len(ops), NEW ok \in BOOLEAN, PrimarySettles(i, ok) \/ LaneRestarted(i, ok) PROVE IInv'
  BY <1>11, PrimarySettlesPreserves, LaneRestartedPreserves
<1>12. ASSUME NEW i \in 1..Len(ops), NEW l \in Lane, RestartsLane(i, l) PROVE IInv'
  BY <1>12, RestartsLanePreserves
<1>13. ASSUME NEW ok \in BOOLEAN, NEW missed \in BOOLEAN, PrimaryStopSettles(ok, missed) PROVE IInv'
  BY <1>13, PrimaryStopSettlesPreserves
<1>14. CASE Resumes
  BY <1>14, ResumesPreserve
<1>15. CASE UNCHANGED vars
  BY <1>15, StutterPreserves
<1> QED
  BY <1>0, <1>1, <1>2, <1>3, <1>4, <1>5, <1>6, <1>7, <1>8, <1>9, <1>10, <1>11, <1>12, <1>13, <1>14, <1>15 DEF Next

\* The invariant holds in every reachable state.
LEMMA Invariance == Spec => []IInv
<1>1. Init => IInv
  BY InitHolds
<1>2. IInv /\ [Next]_vars => IInv'
  BY StepPreserves
<1> QED BY <1>1, <1>2, PTL DEF Spec

-----------------------------------------------------------------------------
(* The theorems *)

\* Every variable of the switchboard keeps its type, whatever the lanes, jobs
\* and calls.
THEOREM SwitchboardTypes == Spec => []TypeOK
<1>1. IInv => TypeOK
  BY DEF IInv
<1> QED BY <1>1, Invariance, PTL

\* No older turn moves the user to a lane (dropDeferredWork, ownPendingTransfer)
\* or speaks into a newer one's voices (beginRollcall, finishRollcall).
THEOREM NothingEverFromOldTurns == Spec => []NothingFromOldTurns
<1>1. IInv => NothingFromOldTurns
  BY DEF IInv
<1> QED BY <1>1, Invariance, PTL

\* When all that a last stop() overtook has settled, no agent runs but those the
\* code itself gave up on, and the routing is reset.
THEOREM NothingEverLeftAfterStop == Spec => []NothingLeftAfterStop
<1>1. ASSUME IInv
      PROVE  NothingLeftAfterStop
  <2> SUFFICES ASSUME StopLast, primaryStops = <<>>, \A l \in Lane : ~laneStops[l]
               PROVE  /\ \A x \in Lane \cup {FrontDesk} : proc[x] = "down" \/ x \in unreaped
                      /\ active = None /\ pending = None /\ started = {} /\ acceptedTurn = None
    BY DEF NothingLeftAfterStop, StopLast
  <2>1. stopping /\ active = None /\ pending = None /\ started = {} /\ acceptedTurn = None
    BY <1>1 DEF IInv, ClosedInv
  <2>2. \A l \in Lane : proc[l] = "down" \/ l \in unreaped
    BY <1>1, <2>1 DEF IInv, ProcInv
  <2>3. proc[FrontDesk] = "down" \/ FrontDesk \in unreaped
    BY <1>1 DEF IInv, ProcInv
  <2> QED BY <2>1, <2>2, <2>3
<1> QED BY <1>1, Invariance, PTL

\* Only a turn and a background job start a lane, and neither while the board is
\* closed.
LEMMA StartsWhileOpen ==
    ASSUME IInv, [Next]_vars, stopping, NEW l \in Lane, laneStarts[l] = None
    PROVE  laneStarts'[l] = None
<1>0. laneStarts \in [Lane -> LaneStarts \cup {None}] /\ acceptedTurn = None
  BY DEF IInv, TypeOK, ClosedInv
<1>1. CASE \/ \E k \in {"spoken", "transferTo"} : Accept(k)
           \/ \E t \in 1..acceptedTurnSequence : CallerAborts(t)
           \/ Fails \/ Acknowledges \/ Classifies \/ Classified \/ ResolvePending
  BY <1>0, <1>1 DEF Accept, CallerAborts, Fails, Acknowledges, Classifies, Classified, ResolvePending, notTurn, laneVars, At
<1>2. CASE \/ DoRollcall \/ StartStandup \/ StandupSpeaks \/ StandupEnds \/ Dial \/ DoRelease \/ BrainAnswers
           \/ \E k \in Lane : AsksForLane(k)
           \/ PinLoop \/ PinResumes
  BY <1>0, <1>2 DEF DoRollcall, StartStandup, StandupSpeaks, StandupEnds, Dial, DoRelease, BrainAnswers, AsksForLane,
                    PinLoop, PinResumes, Asks, At
<1>3. CASE TakeVoice \/ DiscardVoices \/ DropDeferredWork
  BY <1>0, <1>3 DEF TakeVoice, DiscardVoices, DropDeferredWork, notTurn, laneVars
<1>4. ASSUME NEW k \in Lane, LaneStartOk(k) \/ LaneStartFails(k) PROVE laneStarts'[l] = None
  <2>1. \/ laneStarts' = [laneStarts EXCEPT ![k].stage = "reaping"]
        \/ laneStarts' = [laneStarts EXCEPT ![k] = None]
    BY <1>4 DEF LaneStartOk, LaneStartFails
  <2>2. laneStarts[k] # None
    BY <1>4 DEF LaneStartOk, LaneStartFails
  <2> QED BY <1>0, <2>1, <2>2
<1>5. ASSUME NEW k \in Lane, NEW ok \in BOOLEAN, NEW missed \in BOOLEAN, LaneStopSettles(k, ok, missed)
      PROVE  laneStarts'[l] = None
  <2>1. laneStarts' = [laneStarts EXCEPT ![k] = None] \/ laneStarts' = laneStarts
    BY <1>5 DEF LaneStopSettles
  <2> QED BY <1>0, <2>1
<1>6. ASSUME NEW j \in Job, NEW k \in Lane, SendBackground(j, k) PROVE laneStarts'[l] = None
  BY <1>6 DEF SendBackground
<1>7. ASSUME NEW j \in Job, JobLoop(j) PROVE laneStarts'[l] = None
  BY <1>7 DEF JobLoop
<1>8. CASE CallStart \/ CallStop \/ CallRestart
  BY <1>8 DEF CallStart, CallStop, CallRestart, Retired, laneVars
<1>9. ASSUME NEW i \in DOMAIN ops, NEW ok \in BOOLEAN, PrimarySettles(i, ok) \/ LaneRestarted(i, ok)
      PROVE  laneStarts'[l] = None
  BY <1>9 DEF PrimarySettles, LaneRestarted, notOp
<1>10. ASSUME NEW i \in DOMAIN ops, NEW k \in Lane, RestartsLane(i, k) PROVE laneStarts'[l] = None
  BY <1>10 DEF RestartsLane, notOp
<1>11. ASSUME NEW ok \in BOOLEAN, NEW missed \in BOOLEAN, PrimaryStopSettles(ok, missed) PROVE laneStarts'[l] = None
  BY <1>11 DEF PrimaryStopSettles, notOp
<1>12. ASSUME NEW i \in DOMAIN ops,
              OpBegins(i) \/ OpReaped(i) \/ RestartsNoMore(i) \/ LaneReaped(i) \/ RestartEnds(i)
       PROVE  laneStarts'[l] = None
  BY <1>12 DEF OpBegins, OpReaped, RestartsNoMore, LaneReaped, RestartEnds, notOp
<1>13. CASE UNCHANGED vars
  BY <1>13 DEF vars, laneVars
<1> QED
  BY <1>1, <1>2, <1>3, <1>4, <1>5, <1>6, <1>7, <1>8, <1>9, <1>10, <1>11, <1>12, <1>13 DEF Next, Resumes

\* While the board is open nothing of a lane is unsettled that its next start
\* would not find.
LEMMA NothingUnsettled ==
    ASSUME IInv, ~stopping, NEW l \in Lane, laneStarts[l] = None
    PROVE  ~laneStops[l] /\ ~\E i \in DOMAIN ops : ops[i].stage = "lane" /\ ops[i].at = l
<1>1. DOMAIN ops = 1..Len(ops) /\ \A i \in 1..Len(ops) : ops[i].stage = "done"
  BY OpTypes DEF IInv, OpInv
<1>2. ~Claimed(l) /\ ~Reaping(l)
  BY <1>1 DEF Claimed, Awaits, Reaping
<1> QED BY <1>1, <1>2 DEF IInv, StopInv

\* A lane's agent is started (startLane) only when no earlier start, stop or
\* restart of it is unsettled.
THEOREM LaneStartsAlwaysApart == Spec => LaneStartsNeverOverlap
<1>1. ASSUME IInv, [Next]_vars
      PROVE  \A l \in Lane : laneStarts[l] = None /\ laneStarts'[l] # None =>
                ~laneStops[l] /\ ~\E i \in DOMAIN ops : ops[i].stage = "lane" /\ ops[i].at = l
  <2> SUFFICES ASSUME NEW l \in Lane, laneStarts[l] = None, laneStarts'[l] # None
               PROVE  ~laneStops[l] /\ ~\E i \in DOMAIN ops : ops[i].stage = "lane" /\ ops[i].at = l
    OBVIOUS
  <2>1. ~stopping
    BY <1>1, StartsWhileOpen
  <2> QED BY <1>1, <2>1, NothingUnsettled
<1> QED BY <1>1, Invariance, PTL DEF Spec, LaneStartsNeverOverlap
=============================================================================
