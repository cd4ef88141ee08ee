----------------------- MODULE ConversationEndProofs -----------------------
(***************************************************************************)
(* The types of the conversation lifecycle, and that an ending is          *)
(* remembered exactly while it may still have to be reported; that work is *)
(* dropped only once nobody is left to adopt it, and that it is dropped    *)
(* then.  The last one is not inductive: a turn that still runs may defer  *)
(* work after the last client left, which WatchedOver accounts for.        *)
(***************************************************************************)
EXTENDS ConversationEnd, FiniteSetTheorems, TLAPS

\* How the settling of a job changes the number of them.
LEMMA SocketJobsFinite == IsFiniteSet(SocketJobs) /\ Cardinality(SocketJobs) \in Nat
BY SocketAssumption, FS_Subset, FS_CardinalityType DEF SocketJobs

LEMMA JobLeaves ==
    ASSUME TypeOK, NEW s \in Socket, job[s] \in {"running", "aborted"},
           job' = [job EXCEPT ![s] = "none"], UNCHANGED requests
    PROVE  ActiveJobs' = ActiveJobs - 1 /\ ActiveJobs' \in Nat
<1>1. SocketJobs' = SocketJobs \ {s} /\ s \in SocketJobs
  BY DEF SocketJobs, TypeOK
<1>2. IsFiniteSet(SocketJobs') /\ Cardinality(SocketJobs') = Cardinality(SocketJobs) - 1
  BY <1>1, SocketJobsFinite, FS_RemoveElement
<1>3. Cardinality(SocketJobs') \in Nat /\ requests \in Nat
  BY <1>2, FS_CardinalityType, LimitAssumption DEF TypeOK
<1> QED BY <1>2, <1>3, SocketJobsFinite DEF ActiveJobs

LEMMA JobArrives ==
    ASSUME TypeOK, NEW s \in Socket, job[s] \in {"none", "waiting"},
           job' = [job EXCEPT ![s] = "running"], UNCHANGED requests
    PROVE  ActiveJobs' = ActiveJobs + 1
<1>1. SocketJobs' = SocketJobs \cup {s} /\ s \notin SocketJobs
  BY DEF SocketJobs, TypeOK
<1>2. Cardinality(SocketJobs') = Cardinality(SocketJobs) + 1
  BY <1>1, SocketJobsFinite, FS_AddElement
<1> QED BY <1>2, SocketJobsFinite DEF ActiveJobs, TypeOK

LEMMA JobsStay ==
    ASSUME UNCHANGED requests, SocketJobs' = SocketJobs
    PROVE  ActiveJobs' = ActiveJobs
BY DEF ActiveJobs

LEMMA ActiveJobsType == ASSUME TypeOK PROVE ActiveJobs \in Nat
BY SocketJobsFinite, LimitAssumption DEF ActiveJobs, TypeOK

-----------------------------------------------------------------------------
(* Types *)

LEMMA DepartedType ==
    ASSUME TypeOK, NEW C, NEW g, NEW n, Departed(C, g, n)
    PROVE  /\ deferred' \in Conversations \cup {Nothing, ApiWork, LocalWork}
           /\ unreported' \in BOOLEAN
BY DEF Departed, workVars, TypeOK

LEMMA InitTypeOK == Init => TypeOK
<1>1. 1 \in Conversations /\ 0 \in 0..MaxJobs
  BY LimitAssumption DEF Conversations
<1> QED BY <1>1 DEF Init, TypeOK

LEMMA NextTypeOK == TypeOK /\ [Next]_vars => TypeOK'
<1> SUFFICES ASSUME TypeOK, [Next]_vars PROVE TypeOK'
  OBVIOUS
<1> USE DEF TypeOK, localVars, historyVars, workVars
<1>1. ASSUME NEW s \in Socket, NEW resume \in BOOLEAN, Open(s, resume) PROVE TypeOK'
  <2>1. conversation' \in Conversations
    BY <1>1, LimitAssumption DEF Open, Conversations
  <2>2. /\ timer' \in BOOLEAN /\ unreported' \in BOOLEAN
       /\ deferred' \in Conversations \cup {Nothing, ApiWork, LocalWork}
    BY <1>1, DepartedType DEF Open, EndDefinitively
  <2> QED BY <1>1, <2>1, <2>2 DEF Open
<1>2. ASSUME NEW s \in Socket, Bye(s) PROVE TypeOK'
  BY <1>2 DEF Bye, EndNow, Departed
<1>3. ASSUME NEW s \in Socket, Close(s) PROVE TypeOK'
  BY <1>3 DEF Close, Aborted
<1>4. ASSUME NEW s \in Socket, RecordingWaits(s) PROVE TypeOK'
  BY <1>4 DEF RecordingWaits
<1>5. ASSUME NEW s \in Socket, TurnStarts(s) PROVE TypeOK'
  BY <1>5 DEF TurnStarts
<1>6. ASSUME NEW s \in Socket, TurnDefers(s) PROVE TypeOK'
  BY <1>6 DEF TurnDefers
<1>7. ASSUME NEW s \in Socket, TurnSettles(s) PROVE TypeOK'
  BY <1>7 DEF TurnSettles, Released, Departed
<1>8. CASE GraceEnds
  BY <1>8 DEF GraceEnds, EndNow, Departed
<1>9. CASE RequestStarts
  <2>1. requests < MaxJobs
    BY <1>9, SocketJobsFinite, LimitAssumption DEF RequestStarts, ActiveJobs
  <2> QED BY <1>9, <2>1, LimitAssumption DEF RequestStarts
<1>10. CASE RequestDefers
  BY <1>10 DEF RequestDefers
<1>11. CASE RequestSettles
  <2>1. requests' \in 0..MaxJobs
    BY <1>11, LimitAssumption DEF RequestSettles
  <2> QED BY <1>11, <2>1 DEF RequestSettles, Released, Departed
<1>12. CASE Stop
  BY <1>12 DEF Stop, Aborted, EndNow, Departed
<1>13. CASE MicOn \/ MicOff \/ LocalTurnStarts \/ LocalTurnDefers \/ LocalTurnSettles
  BY <1>13 DEF MicOn, MicOff, LocalTurnStarts, LocalTurnDefers, LocalTurnSettles,
               LocalOnly, LocalDeparted
<1>14. CASE UNCHANGED vars
  BY <1>14 DEF vars
<1> QED BY <1>1, <1>2, <1>3, <1>4, <1>5, <1>6, <1>7, <1>8, <1>9, <1>10, <1>11, <1>12,
           <1>13, <1>14 DEF Next

\* The state keeps its types: no more requests run than jobs are admitted.
THEOREM LifecycleTypes == Spec => []TypeOK
BY InitTypeOK, NextTypeOK, PTL DEF Spec

-----------------------------------------------------------------------------
(* The remembered ending *)

\* A release pays the debt with the last job and leaves it otherwise.
LEMMA ReleaseKeepsDebtExact ==
    ASSUME TypeOK, DebtIsExact, Released(ActiveJobs - 1), UNCHANGED Clients,
           ActiveJobs' = ActiveJobs - 1, ActiveJobs' \in Nat
    PROVE  DebtIsExact'
<1>1. CASE owed /\ ActiveJobs - 1 = 0
  <2>1. ~ owed'
    BY <1>1 DEF Released, DebtIsExact
  <2> QED BY <2>1 DEF DebtIsExact
<1>2. CASE owed /\ ActiveJobs - 1 # 0
  <2>1. owed' = owed /\ timer' = timer
    BY <1>2 DEF Released
  <2>2. ActiveJobs' > 0
    BY <1>2, ActiveJobsType
  <2> QED BY <1>2, <2>1, <2>2 DEF DebtIsExact
<1>3. CASE ~ owed
  <2>1. ~ owed'
    BY <1>3 DEF Released
  <2> QED BY <2>1 DEF DebtIsExact
<1> QED BY <1>1, <1>2, <1>3

LEMMA InitDebt == Init => DebtIsExact
BY DEF Init, DebtIsExact

LEMMA NextDebt == TypeOK /\ DebtIsExact /\ [Next]_vars => DebtIsExact'
<1> SUFFICES ASSUME TypeOK, DebtIsExact, [Next]_vars PROVE DebtIsExact'
  OBVIOUS
<1> USE DEF DebtIsExact, localVars, historyVars
<1>a. ActiveJobs \in Nat
  BY ActiveJobsType
<1>b. owed \in BOOLEAN /\ timer \in BOOLEAN
  BY DEF TypeOK
<1>1. ASSUME NEW s \in Socket, NEW resume \in BOOLEAN, Open(s, resume) PROVE DebtIsExact'
  BY <1>1 DEF Open
<1>2. ASSUME NEW s \in Socket, Bye(s) PROVE DebtIsExact'
  <2>1. ActiveJobs' = ActiveJobs
    BY <1>2, JobsStay DEF Bye, SocketJobs
  <2>2. s \in Clients
    BY <1>2 DEF Bye, Clients
  <2>3. Clients = {s} => Clients' = {}
    BY <1>2 DEF Bye, Clients, TypeOK
  <2> QED BY <1>2, <1>a, <2>1, <2>2, <2>3 DEF Bye, EndNow
<1>3. ASSUME NEW s \in Socket, Close(s) PROVE DebtIsExact'
  <2>1. SocketJobs' = SocketJobs
    BY <1>3 DEF Close, Aborted, SocketJobs, TypeOK
  <2>2. ActiveJobs' = ActiveJobs
    BY <1>3, <2>1, JobsStay DEF Close
  <2>3. Clients' \subseteq Clients
    BY <1>3 DEF Close, Clients, TypeOK
  <2> QED BY <1>3, <2>2, <2>3 DEF Close
<1>4. ASSUME NEW s \in Socket, RecordingWaits(s) PROVE DebtIsExact'
  <2>1. s \in Clients
    BY <1>4 DEF RecordingWaits, Clients
  <2> QED BY <1>4, <2>1 DEF RecordingWaits
<1>5. ASSUME NEW s \in Socket, TurnStarts(s) PROVE DebtIsExact'
  <2>1. Clients' = Clients
    BY <1>5 DEF TurnStarts, Clients
  <2>2. CASE ActiveJobs < MaxJobs
    <3>1. ActiveJobs' = ActiveJobs + 1
      BY <1>5, <2>2, JobArrives DEF TurnStarts
    <3> QED BY <1>5, <1>a, <2>1, <3>1 DEF TurnStarts
  <2>3. CASE ~ (ActiveJobs < MaxJobs)
    <3>1. SocketJobs' = SocketJobs
      BY <1>5, <2>3 DEF TurnStarts, SocketJobs, TypeOK
    <3>2. ActiveJobs' = ActiveJobs
      BY <1>5, <3>1, JobsStay DEF TurnStarts
    <3> QED BY <1>5, <2>1, <3>2 DEF TurnStarts
  <2> QED BY <2>2, <2>3
<1>6. ASSUME NEW s \in Socket, TurnDefers(s) PROVE DebtIsExact'
  BY <1>6, JobsStay DEF TurnDefers, SocketJobs, Clients
<1>7. ASSUME NEW s \in Socket, TurnSettles(s) PROVE DebtIsExact'
  <2>1. ActiveJobs' = ActiveJobs - 1 /\ ActiveJobs' \in Nat
    BY <1>7, JobLeaves DEF TurnSettles
  <2>2. Clients' = Clients
    BY <1>7 DEF TurnSettles, Clients
  <2> QED BY <1>7, <2>1, <2>2, ReleaseKeepsDebtExact DEF TurnSettles
<1>8. CASE GraceEnds
  <2>1. ActiveJobs' = ActiveJobs
    BY <1>8, JobsStay DEF GraceEnds, SocketJobs
  <2>2. Clients' = Clients
    BY <1>8 DEF GraceEnds, Clients
  <2> QED BY <1>8, <1>a, <2>1, <2>2 DEF GraceEnds, EndNow
<1>9. CASE RequestStarts
  <2>1. ActiveJobs' = ActiveJobs + 1 /\ Clients' = Clients
    BY <1>9, SocketJobsFinite, LimitAssumption
       DEF RequestStarts, ActiveJobs, SocketJobs, Clients, TypeOK
  <2> QED BY <1>9, <1>a, <2>1 DEF RequestStarts
<1>10. CASE RequestDefers
  BY <1>10, JobsStay DEF RequestDefers, SocketJobs, Clients
<1>11. CASE RequestSettles
  <2>1. ActiveJobs' = ActiveJobs - 1 /\ ActiveJobs' \in Nat /\ Clients' = Clients
    BY <1>11, SocketJobsFinite, LimitAssumption
       DEF RequestSettles, ActiveJobs, SocketJobs, Clients, TypeOK
  <2> QED BY <1>11, <2>1, ReleaseKeepsDebtExact DEF RequestSettles
<1>12. CASE Stop
  <2>1. SocketJobs' = SocketJobs
    BY <1>12 DEF Stop, Aborted, SocketJobs, TypeOK
  <2>2. ActiveJobs' = ActiveJobs
    BY <1>12, <2>1, JobsStay DEF Stop
  <2>3. Clients' = {}
    BY <1>12 DEF Stop, Clients
  <2> QED BY <1>12, <1>a, <2>2, <2>3 DEF Stop, EndNow
<1>13. CASE MicOn \/ MicOff \/ LocalTurnStarts \/ LocalTurnDefers \/ LocalTurnSettles
  <2>1. UNCHANGED <<owed, timer, requests, job, sock>>
    BY <1>13 DEF MicOn, MicOff, LocalTurnStarts, LocalTurnDefers, LocalTurnSettles, LocalOnly
  <2> QED BY <2>1, JobsStay DEF SocketJobs, Clients
<1>14. CASE UNCHANGED vars
  BY <1>14, JobsStay DEF vars, SocketJobs, Clients
<1> QED BY <1>1, <1>2, <1>3, <1>4, <1>5, <1>6, <1>7, <1>8, <1>9, <1>10, <1>11, <1>12,
           <1>13, <1>14 DEF Next

\* An ending is remembered only while the jobs it waits for run and nobody has
\* come back, for any number of sockets, jobs and conversations.
THEOREM DebtAlwaysExact == Spec => []DebtIsExact
<1>1. Init => TypeOK /\ DebtIsExact
  BY InitTypeOK, InitDebt
<1>2. TypeOK /\ DebtIsExact /\ [Next]_vars => TypeOK' /\ DebtIsExact'
  BY NextTypeOK, NextDebt
<1> QED BY <1>1, <1>2, PTL DEF Spec

-----------------------------------------------------------------------------
(* Dropped work *)

Drops == deferred # Nothing /\ deferred' = Nothing

\* Nobody is left to adopt the deferred work, or it is too old to be adopted.
Justified ==
    /\ Clients' = {} \/ (Clients = {} /\ conversation' # conversation)
    /\ ~ mic' /\ ~ turn'
    /\ ActiveJobs' = 0 \/ conversation' # conversation

\* A drop of noteInputSurfaceDeparted() found no live surface.
LEMMA DepartedDrops ==
    ASSUME NEW C, NEW g, NEW n, Departed(C, g, n), Drops
    PROVE  ~ Live(C, g, n)
BY DEF Departed, Drops, workVars

\* A release that drops reports the debt of the last job.
LEMMA ReleasedDrops ==
    ASSUME NEW n, Released(n), Drops
    PROVE  n = 0 /\ Clients = {} /\ ~ mic' /\ ~ turn'
BY DepartedDrops DEF Released, Drops, workVars, Live

LEMMA NextDrops == TypeOK /\ [Next]_vars => (Drops => Justified)
<1> SUFFICES ASSUME TypeOK, [Next]_vars, Drops PROVE Justified
  OBVIOUS
<1> USE DEF Justified, localVars, historyVars
<1>a. ActiveJobs \in Nat
  BY ActiveJobsType
<1>1. ASSUME NEW s \in Socket, NEW resume \in BOOLEAN, Open(s, resume) PROVE Justified
  <2>1. /\ ~ resume /\ Clients = {} /\ UNCHANGED <<mic, turn>>
        /\ \E n \in {0, ActiveJobs} : Departed({}, FALSE, n)
    BY <1>1 DEF Open, Drops, workVars, EndDefinitively
  <2>2. ~ mic' /\ ~ turn'
    BY <2>1, DepartedDrops DEF Live
  <2>3. conversation' = conversation + 1 /\ conversation \in Nat
    BY <1>1, <2>1, LimitAssumption DEF Open, TypeOK, Conversations
  <2> QED BY <2>1, <2>2, <2>3
<1>2. ASSUME NEW s \in Socket, Bye(s) PROVE Justified
  <2>1. Clients = {s} /\ Departed({}, FALSE, ActiveJobs)
    BY <1>2 DEF Bye, EndNow, Drops, workVars
  <2>2. Clients' = {}
    BY <1>2, <2>1 DEF Bye, Clients, TypeOK
  <2>3. ActiveJobs' = ActiveJobs
    BY <1>2, JobsStay DEF Bye, SocketJobs
  <2>4. ~ Live({}, FALSE, ActiveJobs)
    BY <2>1, DepartedDrops
  <2> QED BY <1>a, <2>2, <2>3, <2>4 DEF Live
<1>3. ASSUME NEW s \in Socket,
             Close(s) \/ RecordingWaits(s) \/ TurnStarts(s) \/ TurnDefers(s)
      PROVE  FALSE
  BY <1>3 DEF Close, RecordingWaits, TurnStarts, TurnDefers, Drops, workVars, TypeOK,
              Conversations, Nothing
<1>4. ASSUME NEW s \in Socket, TurnSettles(s) PROVE Justified
  <2>1. ActiveJobs' = ActiveJobs - 1 /\ Clients' = Clients
    BY <1>4, JobLeaves DEF TurnSettles, Clients
  <2> QED BY <1>4, <2>1, ReleasedDrops DEF TurnSettles
<1>5. CASE GraceEnds
  <2>1. Clients = {} /\ Departed({}, FALSE, ActiveJobs)
    BY <1>5 DEF GraceEnds, EndNow, Drops, workVars
  <2>2. ActiveJobs' = ActiveJobs /\ Clients' = Clients
    BY <1>5, JobsStay DEF GraceEnds, SocketJobs, Clients
  <2>3. ~ Live({}, FALSE, ActiveJobs)
    BY <2>1, DepartedDrops
  <2> QED BY <1>a, <2>1, <2>2, <2>3 DEF Live
<1>6. CASE RequestStarts \/ RequestDefers
  BY <1>6 DEF RequestStarts, RequestDefers, Drops, workVars, ApiWork, Nothing
<1>7. CASE RequestSettles
  <2>1. ActiveJobs' = ActiveJobs - 1 /\ Clients' = Clients
    BY <1>7, SocketJobsFinite, LimitAssumption
       DEF RequestSettles, ActiveJobs, SocketJobs, Clients, TypeOK
  <2> QED BY <1>7, <2>1, ReleasedDrops DEF RequestSettles
<1>8. CASE Stop
  <2>1. Departed(Clients, FALSE, ActiveJobs)
    BY <1>8 DEF Stop, EndNow
  <2>2. SocketJobs' = SocketJobs
    BY <1>8 DEF Stop, Aborted, SocketJobs, TypeOK
  <2>3. ActiveJobs' = ActiveJobs
    BY <1>8, <2>2, JobsStay DEF Stop
  <2>4. Clients' = {}
    BY <1>8 DEF Stop, Clients
  <2>5. ~ Live(Clients, FALSE, ActiveJobs)
    BY <2>1, DepartedDrops
  <2> QED BY <1>a, <2>3, <2>4, <2>5 DEF Live
<1>9. CASE MicOn \/ LocalTurnStarts \/ LocalTurnDefers
  BY <1>9 DEF MicOn, LocalTurnStarts, LocalTurnDefers, Drops, workVars, LocalWork, Nothing
<1>10. CASE MicOff \/ LocalTurnSettles
  <2>1. ~ Live(Clients, timer, ActiveJobs)
    BY <1>10 DEF MicOff, LocalTurnSettles, LocalDeparted, Drops
  <2>2. ActiveJobs' = ActiveJobs /\ Clients' = Clients
    BY <1>10, JobsStay DEF MicOff, LocalTurnSettles, LocalOnly, SocketJobs, Clients
  <2> QED BY <1>a, <2>1, <2>2 DEF Live
<1>11. CASE UNCHANGED vars
  BY <1>11 DEF vars, Drops
<1> QED BY <1>1, <1>2, <1>3, <1>4, <1>5, <1>6, <1>7, <1>8, <1>9, <1>10, <1>11 DEF Next

\* Deferred work is dropped only when no client, microphone, local turn or job
\* is left that could adopt it, or a new conversation has made it too old.
THEOREM WorkNeverDroppedUnderneath == Spec => NeverDroppedUnderneath
<1>1. TypeOK /\ [Next]_vars => [Drops => Justified]_vars
  BY NextDrops
<1> QED BY <1>1, LifecycleTypes, PTL DEF Spec, NeverDroppedUnderneath, Drops, Justified

-----------------------------------------------------------------------------
(* Reported endings *)

SomeTurnRuns == \E s \in Socket : job[s] = "running"

\* Whatever a web conversation deferred, or may still defer, is watched over: a
\* client, a grace period, a local surface or a remembered ending will report
\* that the conversation is over, unless a job runs whose end nothing reports.
WatchedOver ==
    accepting /\ ~ unreported /\ (deferred \in Conversations \/ SomeTurnRuns)
    => Clients # {} \/ timer \/ owed \/ mic \/ turn

\* An ending finds something live or drops what was deferred.
LEMMA DepartedWatches ==
    ASSUME NEW C, NEW g, NEW n, Departed(C, g, n)
    PROVE  Live(C, g, n) \/ deferred' \notin Conversations
BY DEF Departed, Conversations, Nothing

\* No job is left: no turn runs.
LEMMA NoJobNoTurn == TypeOK /\ ActiveJobs = 0 => ~ SomeTurnRuns
<1> SUFFICES ASSUME TypeOK, ActiveJobs = 0 PROVE ~ SomeTurnRuns
  OBVIOUS
<1>1. Cardinality(SocketJobs) = 0
  BY SocketJobsFinite, LimitAssumption DEF ActiveJobs, TypeOK
<1>2. SocketJobs = {}
  BY <1>1, SocketJobsFinite, FS_EmptySet
<1> QED BY <1>2 DEF SocketJobs, SomeTurnRuns

\* After the last client has gone, the debt watches over the jobs that are left.
LEMMA EndWatches ==
    ASSUME TypeOK, EndNow({}, ActiveJobs), UNCHANGED <<job, localVars>>
    PROVE  WatchedOver'
<1>a. ActiveJobs \in Nat
  BY ActiveJobsType
<1>1. CASE ActiveJobs > 0
  BY <1>1 DEF EndNow, WatchedOver
<1>2. CASE ActiveJobs = 0
  <2>1. ~ SomeTurnRuns'
    BY <1>2, NoJobNoTurn DEF SomeTurnRuns
  <2>2. Live({}, FALSE, ActiveJobs) \/ deferred' \notin Conversations
    BY DepartedWatches DEF EndNow
  <2>3. mic' \/ turn' \/ deferred' \notin Conversations
    BY <1>2, <2>2 DEF Live
  <2> QED BY <2>1, <2>3 DEF WatchedOver
<1> QED BY <1>a, <1>1, <1>2

\* The last job pays the debt, and drops what nobody else watches over.
LEMMA ReleaseWatches ==
    ASSUME TypeOK, DebtIsExact, WatchedOver, Released(ActiveJobs - 1), ActiveJobs' = ActiveJobs - 1,
           TypeOK', SomeTurnRuns' => SomeTurnRuns, UNCHANGED <<sock, accepting, localVars>>
    PROVE  WatchedOver'
<1>a. Clients' = Clients
  BY DEF Clients
<1>1. CASE ActiveJobs - 1 = 0 /\ owed /\ Clients = {} /\ ~ timer
  <2>1. ~ SomeTurnRuns'
    <3>1. ActiveJobs' = 0
      BY <1>1
    <3>2. (TypeOK /\ ActiveJobs = 0 => ~ SomeTurnRuns)'
      BY NoJobNoTurn, PTL
    <3> QED BY <3>1, <3>2
  <2>2. Departed({}, FALSE, 0)
    BY <1>1 DEF Released
  <2>3. Live({}, FALSE, 0) \/ deferred' \notin Conversations
    BY <2>2, DepartedWatches
  <2>4. mic' \/ turn' \/ deferred' \notin Conversations
    BY <2>3 DEF Live
  <2> QED BY <2>1, <2>4 DEF WatchedOver
<1>2. CASE ~ (ActiveJobs - 1 = 0 /\ owed /\ Clients = {} /\ ~ timer)
  BY <1>2, <1>a DEF Released, WatchedOver, workVars, localVars
<1> QED BY <1>1, <1>2

LEMMA InitWatched == Init => WatchedOver
BY DEF Init, WatchedOver, SomeTurnRuns, Conversations, Nothing

\* Every step leaves the deferred work watched over.
LEMMA NextWatched == TypeOK /\ DebtIsExact /\ WatchedOver /\ [Next]_vars => WatchedOver'
<1> SUFFICES ASSUME TypeOK, DebtIsExact, WatchedOver, [Next]_vars PROVE WatchedOver'
  OBVIOUS
<1> USE DEF localVars, historyVars
<1>a. TypeOK'
  BY NextTypeOK
<1>1. ASSUME NEW s \in Socket, NEW resume \in BOOLEAN, Open(s, resume) PROVE WatchedOver'
  <2>1. s \in Clients'
    BY <1>1 DEF Open, Clients, TypeOK
  <2> QED BY <2>1 DEF WatchedOver
<1>2. ASSUME NEW s \in Socket, Bye(s) PROVE WatchedOver'
  <2>1. CASE Clients = {s}
    BY <1>2, <2>1, EndWatches DEF Bye
  <2>2. CASE Clients # {s}
    <3>1. Clients' = Clients \ {s} /\ s \in Clients
      BY <1>2 DEF Bye, Clients, TypeOK
    <3> QED BY <2>2, <3>1 DEF WatchedOver
  <2> QED BY <2>1, <2>2
<1>3. ASSUME NEW s \in Socket, Close(s) PROVE WatchedOver'
  <2>1. SomeTurnRuns' => SomeTurnRuns
    BY <1>3 DEF Close, Aborted, SomeTurnRuns, TypeOK
  <2>2. Clients # {} => Clients' # {} \/ timer'
    <3>1. Clients' = Clients \ {s}
      BY <1>3 DEF Close, Clients, TypeOK
    <3> QED BY <1>3, <3>1 DEF Close
  <2> QED BY <1>3, <2>1, <2>2 DEF Close, WatchedOver, workVars
<1>4. ASSUME NEW s \in Socket, RecordingWaits(s) PROVE WatchedOver'
  <2>1. SomeTurnRuns' => SomeTurnRuns
    BY <1>4 DEF RecordingWaits, SomeTurnRuns, TypeOK
  <2> QED BY <1>4, <2>1 DEF RecordingWaits, WatchedOver, workVars, Clients
<1>5. ASSUME NEW s \in Socket, TurnStarts(s) PROVE WatchedOver'
  <2>1. CASE sock[s] = "attached"
    BY <1>5, <2>1 DEF TurnStarts, WatchedOver, Clients
  <2>2. CASE sock[s] = "departed" /\ ActiveJobs < MaxJobs
    BY <1>5, <2>2 DEF TurnStarts, WatchedOver
  <2>3. CASE ~ (ActiveJobs < MaxJobs)
    <3>1. SomeTurnRuns' => SomeTurnRuns
      BY <1>5, <2>3 DEF TurnStarts, SomeTurnRuns, TypeOK
    <3> QED BY <1>5, <2>3, <3>1 DEF TurnStarts, WatchedOver, Clients
  <2> QED BY <1>5, <2>1, <2>2, <2>3 DEF TurnStarts, TypeOK
<1>6. ASSUME NEW s \in Socket, TurnDefers(s) PROVE WatchedOver'
  <2>1. SomeTurnRuns
    BY <1>6 DEF TurnDefers, SomeTurnRuns
  <2> QED BY <1>6, <2>1 DEF TurnDefers, WatchedOver, Clients
<1>7. ASSUME NEW s \in Socket, TurnSettles(s) PROVE WatchedOver'
  <2>1. ActiveJobs' = ActiveJobs - 1
    BY <1>7, JobLeaves DEF TurnSettles
  <2>2. SomeTurnRuns' => SomeTurnRuns
    BY <1>7 DEF TurnSettles, SomeTurnRuns, TypeOK
  <2> QED BY <1>7, <1>a, <2>1, <2>2, ReleaseWatches DEF TurnSettles
<1>8. CASE GraceEnds
  <2>1. CASE Clients = {}
    BY <1>8, <2>1, EndWatches DEF GraceEnds
  <2>2. CASE Clients # {}
    BY <1>8, <2>2 DEF GraceEnds, WatchedOver, Clients
  <2> QED BY <2>1, <2>2
<1>9. CASE RequestStarts
  BY <1>9 DEF RequestStarts, WatchedOver, workVars, Clients, SomeTurnRuns
<1>10. CASE RequestDefers
  BY <1>10, LimitAssumption
     DEF RequestDefers, WatchedOver, Clients, SomeTurnRuns, ApiWork, Conversations
<1>11. CASE RequestSettles
  <2>1. ActiveJobs' = ActiveJobs - 1 /\ (SomeTurnRuns' => SomeTurnRuns)
    BY <1>11, SocketJobsFinite, LimitAssumption
       DEF RequestSettles, ActiveJobs, SocketJobs, SomeTurnRuns, TypeOK
  <2> QED BY <1>11, <1>a, <2>1, ReleaseWatches DEF RequestSettles
<1>12. CASE Stop
  BY <1>12 DEF Stop, WatchedOver
<1>13. CASE MicOn \/ LocalTurnStarts \/ LocalTurnDefers
  BY <1>13 DEF MicOn, LocalTurnStarts, LocalTurnDefers, LocalOnly, WatchedOver
<1>14. CASE MicOff \/ LocalTurnSettles
  <2>1. UNCHANGED <<Clients, ActiveJobs, SomeTurnRuns, timer, owed, accepting>> /\ LocalDeparted
    BY <1>14
       DEF MicOff, LocalTurnSettles, LocalOnly, Clients, ActiveJobs, SocketJobs, SomeTurnRuns
  <2>2. CASE Live(Clients, timer, ActiveJobs)
    BY <2>1, <2>2 DEF LocalDeparted, WatchedOver, TypeOK
  <2>3. CASE ~ Live(Clients, timer, ActiveJobs)
    <3>1. ActiveJobs = 0
      BY <2>3, ActiveJobsType DEF Live
    <3>2. deferred' \notin Conversations
      BY <2>1, <2>3 DEF LocalDeparted, Conversations, Nothing
    <3> QED BY <2>1, <3>1, <3>2, NoJobNoTurn DEF WatchedOver
  <2> QED BY <2>2, <2>3
<1>15. CASE UNCHANGED vars
  BY <1>15 DEF vars, WatchedOver, Clients, SomeTurnRuns
<1> QED BY <1>1, <1>2, <1>3, <1>4, <1>5, <1>6, <1>7, <1>8, <1>9, <1>10, <1>11, <1>12,
           <1>13, <1>14, <1>15 DEF Next

\* What the two theorems below rest on.
LEMMA WatchInvariant == Spec => [](TypeOK /\ DebtIsExact /\ WatchedOver)
<1>1. Init => TypeOK /\ DebtIsExact /\ WatchedOver
  BY InitTypeOK, InitDebt, InitWatched
<1>2. TypeOK /\ DebtIsExact /\ WatchedOver /\ [Next]_vars => (TypeOK /\ DebtIsExact /\ WatchedOver)'
  BY NextTypeOK, NextDebt, NextWatched
<1> QED BY <1>1, <1>2, PTL DEF Spec

\* Once no client, grace period, local surface or job is left, what a web
\* conversation deferred is gone, but for jobs whose end nothing reports.
THEOREM ReportedWorkAlwaysEnds == Spec => []ReportedWorkEnds
<1>1. TypeOK /\ DebtIsExact /\ WatchedOver => ReportedWorkEnds
  BY ActiveJobsType DEF ReportedWorkEnds, NobodyLeft, WatchedOver, DebtIsExact
<1> QED BY <1>1, WatchInvariant, PTL

\* A conversation that begins with nobody attached finds nothing of the one
\* before it, but for a grace period that overlaps a job of that one.
THEOREM SettledStartNeverInherits == Spec => SettledStartInheritsNothing
<1> DEFINE Excused == unreported \/ (timer /\ ActiveJobs > 0)
<1>1. TypeOK /\ DebtIsExact /\ WatchedOver /\ [Next]_vars => [Inherits => Excused]_vars
  <2> SUFFICES ASSUME TypeOK, DebtIsExact, WatchedOver, Next, Inherits PROVE Excused
    OBVIOUS
  <2>1. PICK s \in Socket, resume \in BOOLEAN : Open(s, resume)
    BY DEF Next, Inherits, Bye, Close, RecordingWaits, TurnStarts, TurnDefers, TurnSettles,
           GraceEnds, RequestStarts, RequestDefers, RequestSettles, Stop, MicOn, MicOff,
           LocalTurnStarts, LocalTurnDefers, LocalTurnSettles, LocalOnly, historyVars
  <2>2. accepting /\ ~ resume /\ Clients = {} /\ ~ mic' /\ ~ turn'
    BY <2>1 DEF Open, Inherits, localVars
  <2>3. CASE timer
    <3>1. Departed({}, FALSE, ActiveJobs)
      BY <2>1, <2>2, <2>3 DEF Open
    <3>2. Live({}, FALSE, ActiveJobs) \/ deferred' \notin Conversations
      BY <3>1, DepartedWatches
    <3> QED BY <2>2, <2>3, <3>2 DEF Inherits, Live
  <2>4. CASE ~ timer /\ owed
    <3>1. Departed({}, FALSE, 0)
      BY <2>1, <2>2, <2>4 DEF Open, EndDefinitively
    <3>2. Live({}, FALSE, 0) \/ deferred' \notin Conversations
      BY <3>1, DepartedWatches
    <3> QED BY <2>2, <3>2 DEF Inherits, Live
  <2>5. CASE ~ timer /\ ~ owed
    <3>1. deferred' = deferred
      BY <2>1, <2>2, <2>5 DEF Open, workVars
    <3> QED BY <2>2, <2>5, <3>1 DEF WatchedOver, Inherits
  <2> QED BY <2>3, <2>4, <2>5
<1> QED BY <1>1, WatchInvariant, PTL DEF Spec, SettledStartInheritsNothing
=============================================================================
