--------------------- MODULE TradingAgentsService_proofs ---------------------
(***************************************************************************)
(* What each transaction of RunRepository and each step of                  *)
(* TradingAgentsService preserve, for every value of the constants: their   *)
(* types, the daily lock, and the facts about threads, registry and reports *)
(* that TradingAgentsRuns_proofs builds its invariants from.  The lemmas    *)
(* speak of the operators, not of a specification: TradingAgentsRuns_proofs *)
(* cites them for the actions that make these steps.                        *)
(***************************************************************************)
EXTENDS TradingAgentsService, TLAPS

-----------------------------------------------------------------------------
(* The transactions of the repository.                                      *)

\* The MAX(sequence) of get_run_for_worker is a natural number.
LEMMA LastSequenceType ==
    ASSUME NEW r \in Runs, RepositoryTypeOK
    PROVE  LastSequence(r) \in Nat
<1>1. events[r] \subseteq Nat
  BY DEF RepositoryTypeOK
<1>2. CASE \E n \in events[r] : \A m \in events[r] : m <= n
  <2>1. PICK n \in events[r] : \A m \in events[r] : m <= n
    BY <1>2
  <2>2. LastSequence(r) \in events[r]
    BY <1>2, Zenon DEF LastSequence
  <2>3. QED
    BY <1>1, <2>2
<1>3. CASE ~\E n \in events[r] : \A m \in events[r] : m <= n
  BY <1>3 DEF LastSequence
<1>4. QED
  BY <1>2, <1>3

\* Every transaction leaves the tables well typed.  Only the values that a
\* caller passes in need a type: an UPDATE for an unknown id changes nothing.
LEMMA RepositoryTypes ==
    ASSUME RepositoryTypeOK
    PROVE  /\ \A r \in Runs, d \in AssetDays :
                CreateRun(r, d) => RepositoryTypeOK'
           /\ \A r : \A s \in Statuses : TransitionRun(r, s) => RepositoryTypeOK'
           /\ \A r : \A n \in Nat : AppendEvent(r, n) => RepositoryTypeOK'
           /\ \A r : \A e \in Executions : StoreArtifact(r, e) => RepositoryTypeOK'
           /\ \A r : \A s \in Snapshots : StoreEvidence(r, s) => RepositoryTypeOK'
           /\ ExpireStaleRunningRuns => RepositoryTypeOK'
           /\ \A r : FallSilent(r) => RepositoryTypeOK'
           /\ UNCHANGED repositoryVars => RepositoryTypeOK'
<1> USE DEF RepositoryTypeOK
<1>1. ASSUME NEW r \in Runs, NEW d \in AssetDays, CreateRun(r, d)
      PROVE  RepositoryTypeOK'
  BY <1>1 DEF CreateRun, Statuses, Active
<1>2. ASSUME NEW r, NEW s \in Statuses, TransitionRun(r, s)
      PROVE  RepositoryTypeOK'
  BY <1>2 DEF TransitionRun
<1>3. ASSUME NEW r, NEW n \in Nat, AppendEvent(r, n)
      PROVE  RepositoryTypeOK'
  <2>1. events' \in [Runs -> SUBSET Nat]
    <3>1. CASE events' = [events EXCEPT ![r] = @ \cup {n}]
      BY <3>1
    <3>2. CASE events' = events
      BY <3>2
    <3>3. QED
      BY <1>3, <3>1, <3>2 DEF AppendEvent
  <2>2. silent' \in [Runs -> BOOLEAN]
    BY <1>3 DEF AppendEvent
  <2>3. QED
    BY <1>3, <2>1, <2>2 DEF AppendEvent
<1>4. ASSUME NEW r, NEW e \in Executions, StoreArtifact(r, e)
      PROVE  RepositoryTypeOK'
  BY <1>4 DEF StoreArtifact
<1>5. ASSUME NEW r, NEW s \in Snapshots, StoreEvidence(r, s)
      PROVE  RepositoryTypeOK'
  BY <1>5 DEF StoreEvidence
<1>6. ASSUME ExpireStaleRunningRuns
      PROVE  RepositoryTypeOK'
  BY <1>6 DEF ExpireStaleRunningRuns, Expired, Statuses, Terminal
<1>7. ASSUME NEW r, FallSilent(r)
      PROVE  RepositoryTypeOK'
  BY <1>7 DEF FallSilent
<1>8. ASSUME UNCHANGED repositoryVars
      PROVE  RepositoryTypeOK'
  BY <1>8 DEF repositoryVars
<1>9. QED
  BY <1>1, <1>2, <1>3, <1>4, <1>5, <1>6, <1>7, <1>8

\* The day of a run that exists is one of the owner's, and holds its lock.
\* This is what makes the conflict of create_run's INSERT strong enough.
RunsHoldTheirDay ==
    \A r \in Runs : Exists(r) => day[r] \in AssetDays /\ dailyRun[day[r]] = r

\* No transaction but the INSERT of create_run makes a run exist, and none
\* makes one disappear, gives it another day or takes its lock.
KeepsRuns == /\ \A r \in Runs : Exists(r)' <=> Exists(r)
             /\ UNCHANGED <<day, dailyRun>>

\* The transactions other than create_run's keep the runs, the days and the
\* daily locks as they are.
LEMMA OnlyCreateRunInserts ==
    ASSUME RepositoryTypeOK
    PROVE  /\ \A r : \A s \in Statuses : TransitionRun(r, s) => KeepsRuns
           /\ \A r, n : AppendEvent(r, n) => KeepsRuns
           /\ \A r, e : StoreArtifact(r, e) => KeepsRuns
           /\ \A r, s : StoreEvidence(r, s) => KeepsRuns
           /\ ExpireStaleRunningRuns => KeepsRuns
           /\ \A r : FallSilent(r) => KeepsRuns
           /\ UNCHANGED repositoryVars => KeepsRuns
<1> USE DEF RepositoryTypeOK, KeepsRuns, Exists
<1>1. \A r : \A s \in Statuses : TransitionRun(r, s) => KeepsRuns
  BY DEF TransitionRun, Statuses, Active, Terminal
<1>2. \A r, n : AppendEvent(r, n) => KeepsRuns
  BY DEF AppendEvent
<1>3. \A r, e : StoreArtifact(r, e) => KeepsRuns
  BY DEF StoreArtifact
<1>4. \A r, s : StoreEvidence(r, s) => KeepsRuns
  BY DEF StoreEvidence
<1>5. ExpireStaleRunningRuns => KeepsRuns
  BY DEF ExpireStaleRunningRuns, Expired
<1>6. \A r : FallSilent(r) => KeepsRuns
  BY DEF FallSilent
<1>7. UNCHANGED repositoryVars => KeepsRuns
  BY DEF repositoryVars
<1>8. QED
  BY <1>1, <1>2, <1>3, <1>4, <1>5, <1>6, <1>7

\* RunsHoldTheirDay survives the INSERT, because the INSERT meets the lock of
\* any other run of its day, and everything that keeps the runs.
LEMMA DailyLockIsKept ==
    ASSUME RepositoryTypeOK, RunsHoldTheirDay
    PROVE  /\ \A r \in Runs, d \in AssetDays :
                CreateRun(r, d) => RunsHoldTheirDay'
           /\ KeepsRuns => RunsHoldTheirDay'
<1>1. ASSUME NEW r \in Runs, NEW d \in AssetDays, CreateRun(r, d)
      PROVE  RunsHoldTheirDay'
  <2> SUFFICES ASSUME NEW x \in Runs, Exists(x)'
               PROVE  (day[x] \in AssetDays /\ dailyRun[day[x]] = x)'
    BY DEF RunsHoldTheirDay
  <2>1. CASE x = r
    BY <1>1, <2>1 DEF CreateRun, RepositoryTypeOK
  <2>2. CASE x # r
    <3>1. Exists(x) /\ day'[x] = day[x]
      BY <1>1, <2>2 DEF CreateRun, Exists, RepositoryTypeOK
    <3>2. day[x] \in AssetDays /\ dailyRun[day[x]] = x
      BY <3>1 DEF RunsHoldTheirDay
    <3>3. dailyRun[d] = None /\ x # None
      BY <1>1, NoneAssumption DEF CreateRun, DailyRunExists
    <3>4. dailyRun'[day[x]] = dailyRun[day[x]]
      BY <1>1, <3>2, <3>3 DEF CreateRun, RepositoryTypeOK
    <3>5. QED
      BY <3>1, <3>2, <3>4
  <2>3. QED
    BY <2>1, <2>2
<1>2. ASSUME KeepsRuns
      PROVE  RunsHoldTheirDay'
  BY <1>2 DEF KeepsRuns, RunsHoldTheirDay
<1>3. QED
  BY <1>1, <1>2

\* No transaction but transition_run to "succeeded" and the INSERT of
\* store_artifact publishes a run.
PublishesNothing == /\ \A r \in Runs : status'[r] = "succeeded" => status[r] = "succeeded"
                    /\ artifact' = artifact

\* The transactions other than those two leave the set of succeeded runs no
\* larger and the artifact rows as they are.
LEMMA OtherTransactionsPublishNothing ==
    ASSUME RepositoryTypeOK
    PROVE  /\ \A r \in Runs : \A d : CreateRun(r, d) => PublishesNothing
           /\ \A r, s : s # "succeeded" /\ TransitionRun(r, s) => PublishesNothing
           /\ \A r, n : AppendEvent(r, n) => PublishesNothing
           /\ \A r, s : StoreEvidence(r, s) => PublishesNothing
           /\ ExpireStaleRunningRuns => PublishesNothing
           /\ \A r : FallSilent(r) => PublishesNothing
           /\ UNCHANGED repositoryVars => PublishesNothing
<1> USE DEF RepositoryTypeOK, PublishesNothing
<1>1. \A r \in Runs : \A d : CreateRun(r, d) => PublishesNothing
  BY DEF CreateRun
<1>2. \A r, s : s # "succeeded" /\ TransitionRun(r, s) => PublishesNothing
  BY DEF TransitionRun
<1>3. ExpireStaleRunningRuns => PublishesNothing
  BY DEF ExpireStaleRunningRuns, Expired
<1>4. QED
  BY <1>1, <1>2, <1>3 DEF AppendEvent, StoreEvidence, FallSilent, repositoryVars

-----------------------------------------------------------------------------
(* The steps of the service.                                                *)

\* A thread that was started has a run, only a started thread sends, and a
\* progress callback is answered without a second transaction.
ServiceShape ==
    /\ \A e \in Executions : execution[e].pc # "free" => execution[e].run \in Runs
    /\ \A e \in Executions : sending[e] # Idle => execution[e].pc # "free"
    /\ \A c \in callbacks : c.stage = "apply" => c.kind \notin ProgressKinds

ServiceInv == ServiceTypeOK /\ ServiceShape

\* Sending a callback keeps the types, whoever sends it.
LEMMA PostTypes ==
    ASSUME ServiceInv, NEW e \in Executions, execution[e].pc # "free",
           NEW kind \in CallbackKinds, NEW n \in Nat, NEW a \in {1, 2},
           Post(e, kind, n, a)
    PROVE  /\ sending' \in [Executions -> {Idle} \cup
                  [kind: CallbackKinds, sequence: Nat, attempt: {1, 2}]]
           /\ callbacks' \in SUBSET Callback
           /\ \A x \in Executions \ {e} : sending'[x] = sending[x]
           /\ \A c \in callbacks' : c.stage = "apply" => c.kind \notin ProgressKinds
<1>1. execution[e].run \in Runs
  BY DEF ServiceInv, ServiceShape
<1> DEFINE new == [run |-> execution[e].run, from |-> e, kind |-> kind,
                   sequence |-> n, attempt |-> a, stage |-> "append"]
<1>2. new \in Callback /\ new.stage = "append"
  BY <1>1 DEF Callback
<1>3. callbacks' = callbacks \cup {new}
  BY DEF Post
<1>4. [kind |-> kind, sequence |-> n, attempt |-> a]
        \in [kind: CallbackKinds, sequence: Nat, attempt: {1, 2}]
  OBVIOUS
<1> HIDE DEF new
<1>5. QED
  BY <1>2, <1>3, <1>4 DEF Post, ServiceInv, ServiceTypeOK, ServiceShape

\* The same for a publish of the main thread or of the heartbeat.
LEMMA PublishTypes ==
    ASSUME ServiceInv, NEW e \in Executions, execution[e].pc # "free",
           NEW kind \in CallbackKinds, Publish(e, kind)
    PROVE  /\ sending' \in [Executions -> {Idle} \cup
                  [kind: CallbackKinds, sequence: Nat, attempt: {1, 2}]]
           /\ callbacks' \in SUBSET Callback
           /\ \A x \in Executions \ {e} : sending'[x] = sending[x]
           /\ \A c \in callbacks' : c.stage = "apply" => c.kind \notin ProgressKinds
<1>1. execution[e].sequence + 1 \in Nat
  BY DEF ServiceInv, ServiceTypeOK, ExecutionRecord
<1>2. Post(e, kind, execution[e].sequence + 1, 1)
  BY DEF Publish
<1>3. QED
  BY <1>1, <1>2, PostTypes

\* A step that moves thread e on, without taking its run away, keeps the types
\* when what it sends does.
LEMMA ThreadStepTypes ==
    ASSUME ServiceInv, NEW e \in Executions, execution[e].pc # "free",
           execution' \in [Executions -> ExecutionRecord],
           execution'[e].pc # "free", execution'[e].run = execution[e].run,
           \A x \in Executions \ {e} : execution'[x] = execution[x],
           activeRuns' \in [Runs -> Executions \cup {None}],
           report' \in [Runs -> Executions \cup {None}],
           \/ UNCHANGED <<sending, callbacks>>
           \/ /\ sending' \in [Executions -> {Idle} \cup
                    [kind: CallbackKinds, sequence: Nat, attempt: {1, 2}]]
              /\ callbacks' \in SUBSET Callback
              /\ \A x \in Executions \ {e} : sending'[x] = sending[x]
              /\ \A c \in callbacks' : c.stage = "apply" => c.kind \notin ProgressKinds
    PROVE  ServiceInv'
<1>1. ServiceTypeOK'
  BY DEF ServiceInv, ServiceTypeOK
<1>2. ServiceShape'
  BY DEF ServiceInv, ServiceShape
<1>3. QED
  BY <1>1, <1>2 DEF ServiceInv

\* Each step of a thread of the service keeps the types.
LEMMA ThreadTypes ==
    ASSUME ServiceInv, NEW e \in Executions
    PROVE  /\ PublishRunning(e) => ServiceInv'
           /\ EnterGraph(e) => ServiceInv'
           /\ GraphChunk(e) => ServiceInv'
           /\ GraphEnd(e) => ServiceInv'
           /\ SaveNativeReport(e) => ServiceInv'
           /\ PublishArtifact(e) => ServiceInv'
           /\ RunFails(e) => ServiceInv'
           /\ PublishTerminal(e) => ServiceInv'
           /\ Finish(e) => ServiceInv'
           /\ Heartbeat(e) => ServiceInv'
<1> DEFINE Publishes(kind, pc) == /\ execution[e].pc # "free"
                                  /\ PublishAndGoto(e, kind, pc)
<1>1. execution \in [Executions -> ExecutionRecord]
  BY DEF ServiceInv, ServiceTypeOK
<1>2. execution[e] \in ExecutionRecord
  BY <1>1
<1>3. ASSUME execution[e].pc # "free"
      PROVE  execution[e].run \in Runs
  BY <1>3 DEF ServiceInv, ServiceShape
<1>4. /\ activeRuns \in [Runs -> Executions \cup {None}]
      /\ report \in [Runs -> Executions \cup {None}]
  BY DEF ServiceInv, ServiceTypeOK
<1>5. ASSUME NEW kind \in CallbackKinds, NEW pc \in ExecutionStates \ {"free"},
             Publishes(kind, pc)
      PROVE  ServiceInv'
  <2>1. /\ execution' \in [Executions -> ExecutionRecord]
        /\ execution'[e].pc # "free"
        /\ execution'[e].run = execution[e].run
        /\ \A x \in Executions \ {e} : execution'[x] = execution[x]
    BY <1>1, <1>2, <1>5 DEF PublishAndGoto, ExecutionRecord
  <2>2. Publish(e, kind)
    BY <1>5 DEF PublishAndGoto
  <2>3. QED
    BY <1>4, <1>5, <2>1, <2>2, PublishTypes, ThreadStepTypes DEF PublishAndGoto
<1>6. ASSUME NEW pc \in ExecutionStates \ {"free"}, execution[e].pc # "free",
             Goto(e, pc)
      PROVE  /\ execution' \in [Executions -> ExecutionRecord]
             /\ execution'[e].pc # "free"
             /\ execution'[e].run = execution[e].run
             /\ \A x \in Executions \ {e} : execution'[x] = execution[x]
  BY <1>1, <1>2, <1>6 DEF Goto, ExecutionRecord
<1>7. PublishRunning(e) => ServiceInv'
  BY <1>5 DEF PublishRunning, CallbackKinds, ExecutionStates
<1>8. EnterGraph(e) => ServiceInv'
  BY <1>4, <1>6, ThreadStepTypes DEF EnterGraph, ExecutionStates
<1>9. ASSUME GraphChunk(e)
      PROVE  ServiceInv'
  <2>1. execution[e].pc = "graph"
    BY <1>9 DEF GraphChunk
  <2>2. CASE execution[e].cancelled
    BY <1>4, <1>6, <1>9, <2>1, <2>2, ThreadStepTypes DEF GraphChunk, ExecutionStates
  <2>3. CASE ~execution[e].cancelled
    <3>1. Publish(e, "chunk")
      BY <1>9, <2>3 DEF GraphChunk
    <3>2. /\ execution' \in [Executions -> ExecutionRecord]
          /\ execution'[e].pc # "free"
          /\ execution'[e].run = execution[e].run
          /\ \A x \in Executions \ {e} : execution'[x] = execution[x]
      BY <1>1, <1>2, <1>9, <2>1, <2>3 DEF GraphChunk, ExecutionRecord
    <3>3. "chunk" \in CallbackKinds
      BY DEF CallbackKinds, ProgressKinds
    <3>4. activeRuns' = activeRuns /\ report' = report
      BY <1>9 DEF GraphChunk
    <3>5. QED
      BY <1>4, <2>1, <3>1, <3>2, <3>3, <3>4, PublishTypes, ThreadStepTypes
  <2>4. QED
    BY <2>2, <2>3
<1>10. GraphEnd(e) => ServiceInv'
  BY <1>4, <1>6, ThreadStepTypes DEF GraphEnd, ExecutionStates
<1>11. SaveNativeReport(e) => ServiceInv'
  BY <1>4, <1>6, ThreadStepTypes DEF SaveNativeReport, ExecutionStates
<1>12. PublishArtifact(e) => ServiceInv'
  BY <1>5 DEF PublishArtifact, CallbackKinds, ExecutionStates
<1>13. RunFails(e) => ServiceInv'
  BY <1>4, <1>6, ThreadStepTypes DEF RunFails, ExecutionStates
<1>14. PublishTerminal(e) => ServiceInv'
  BY <1>5 DEF PublishTerminal, CallbackKinds, TerminalKinds, Terminal, ExecutionStates
<1>15. Finish(e) => ServiceInv'
  BY <1>4, <1>6, ThreadStepTypes DEF Finish, ExecutionStates
<1>16. ASSUME Heartbeat(e)
       PROVE  ServiceInv'
  <2>1. /\ execution[e].pc # "free"
        /\ execution' \in [Executions -> ExecutionRecord]
        /\ execution'[e].pc # "free"
        /\ execution'[e].run = execution[e].run
        /\ \A x \in Executions \ {e} : execution'[x] = execution[x]
    BY <1>1, <1>2, <1>16 DEF Heartbeat, Live, ExecutionRecord
  <2>2. Publish(e, "heartbeat") /\ "heartbeat" \in CallbackKinds
    BY <1>16 DEF Heartbeat, CallbackKinds, ProgressKinds
  <2>3. UNCHANGED <<activeRuns, checkpoint, report>>
    BY <1>16 DEF Heartbeat
  <2>4. QED
    BY <1>4, <2>1, <2>2, <2>3, PublishTypes, ThreadStepTypes
<1>17. QED
  BY <1>7, <1>8, <1>9, <1>10, <1>11, <1>12, <1>13, <1>14, <1>15, <1>16

\* So do the endpoints, the callback handlers, the network and a restart.
LEMMA EndpointTypes ==
    ASSUME ServiceInv
    PROVE  /\ \A r \in Runs, n \in Nat, s \in Snapshots \cup {None} :
                Submit(r, n, s) => ServiceInv'
           /\ \A r : AlreadyRunning(r) => ServiceInv'
           /\ \A r \in Runs : RequestCancel(r) => ServiceInv'
           /\ \A r : ClearCheckpoint(r) => ServiceInv'
           /\ ServiceRestart => ServiceInv'
           /\ UNCHANGED serviceVars => ServiceInv'
<1> USE DEF ServiceInv, ServiceTypeOK, ServiceShape
<1>1. ASSUME NEW r \in Runs, NEW n \in Nat, NEW s \in Snapshots \cup {None},
             NEW e \in Executions, execution[e].pc = "free",
             activeRuns' = [activeRuns EXCEPT ![r] = e],
             execution' = [execution EXCEPT ![e] =
                [pc |-> "start", run |-> r, sequence |-> n,
                 cancelled |-> FALSE, evidence |-> s,
                 chunks |-> 0, heartbeats |-> 0]],
             UNCHANGED <<sending, callbacks, checkpoint, report>>
      PROVE  ServiceInv'
  <2> DEFINE started == [pc |-> "start", run |-> r, sequence |-> n,
                         cancelled |-> FALSE, evidence |-> s,
                         chunks |-> 0, heartbeats |-> 0]
  <2>1. started \in ExecutionRecord /\ started.pc # "free" /\ started.run = r
    BY DEF ExecutionRecord, ExecutionStates
  <2>2. execution' = [execution EXCEPT ![e] = started]
    BY <1>1
  <2> HIDE DEF started
  <2>3. ServiceTypeOK'
    BY <1>1, <2>1, <2>2
  <2>4. ServiceShape'
    BY <1>1, <2>1, <2>2
  <2>5. QED
    BY <2>3, <2>4
<1>2. ASSUME NEW r, AlreadyRunning(r)
      PROVE  ServiceInv'
  BY <1>2 DEF AlreadyRunning, serviceVars
<1>3. ASSUME NEW r \in Runs, RequestCancel(r)
      PROVE  ServiceInv'
  <2>1. CASE activeRuns[r] = None
    BY <1>3, <2>1 DEF RequestCancel
  <2>2. CASE activeRuns[r] # None
    <3>1. activeRuns[r] \in Executions
      BY <2>2
    <3>2. execution' = [execution EXCEPT ![activeRuns[r]].cancelled = TRUE]
      BY <1>3, <2>2 DEF RequestCancel
    <3>3. execution' \in [Executions -> ExecutionRecord]
      <4> DEFINE told == [execution[activeRuns[r]] EXCEPT !.cancelled = TRUE]
      <4>1. execution[activeRuns[r]] \in ExecutionRecord
        BY <3>1
      <4>2. told \in ExecutionRecord
        BY <4>1 DEF ExecutionRecord
      <4>3. execution' = [execution EXCEPT ![activeRuns[r]] = told]
        BY <3>2
      <4> HIDE DEF told
      <4>4. QED
        BY <3>1, <4>2, <4>3
    <3>4. \A e \in Executions : /\ execution'[e].pc = execution[e].pc
                                /\ execution'[e].run = execution[e].run
      BY <3>1, <3>2 DEF ExecutionRecord
    <3>5. UNCHANGED <<activeRuns, sending, callbacks, checkpoint, report>>
      BY <1>3 DEF RequestCancel
    <3>6. QED
      BY <3>3, <3>4, <3>5
  <2>3. QED
    BY <2>1, <2>2
<1>4. ASSUME NEW r, ClearCheckpoint(r)
      PROVE  ServiceInv'
  BY <1>4 DEF ClearCheckpoint
<1>5. ASSUME ServiceRestart
      PROVE  ServiceInv'
  <2>1. /\ execution' \in [Executions -> ExecutionRecord]
        /\ \A e \in Executions : /\ execution'[e].run = execution[e].run
                                 /\ execution'[e].pc = "free" <=>
                                      execution[e].pc = "free"
    <3> SUFFICES ASSUME NEW e \in Executions
                 PROVE  /\ execution'[e] \in ExecutionRecord
                        /\ execution'[e].run = execution[e].run
                        /\ execution'[e].pc = "free" <=> execution[e].pc = "free"
      BY <1>5 DEF ServiceRestart
    <3>1. execution[e] \in ExecutionRecord
      OBVIOUS
    <3>2. QED
      BY <1>5, <3>1 DEF ServiceRestart, Live, ExecutionRecord, ExecutionStates
  <2>2. QED
    BY <1>5, <2>1 DEF ServiceRestart
<1>6. ASSUME UNCHANGED serviceVars
      PROVE  ServiceInv'
  BY <1>6 DEF serviceVars
<1>7. QED
  BY <1>1, <1>2, <1>3, <1>4, <1>5, <1>6 DEF Submit

\* A callback is handled in two transactions or lost; either leaves the
\* requests, the answers awaited and the threads well formed.
LEMMA CallbackTypes ==
    ASSUME ServiceInv
    PROVE  /\ \A c \in callbacks : CallbackAppend(c) => ServiceInv'
           /\ \A c \in callbacks : CallbackApply(c) => ServiceInv'
           /\ \A c : LoseCallback(c) => ServiceInv'
           /\ \A e \in Executions : NoAnswer(e) => ServiceInv'
<1>1. ASSUME NEW c \in callbacks, Answer(c),
             UNCHANGED <<activeRuns, execution, checkpoint, report>>
      PROVE  ServiceInv'
  BY <1>1 DEF Answer, ServiceInv, ServiceTypeOK, ServiceShape
<1>2. ASSUME NEW c \in callbacks, CallbackAppend(c)
      PROVE  ServiceInv'
  <2>1. UNCHANGED <<activeRuns, execution, checkpoint, report>>
    BY <1>2 DEF CallbackAppend
  <2>2. CASE c.kind \in ProgressKinds
    BY <1>1, <1>2, <2>1, <2>2 DEF CallbackAppend
  <2>3. CASE c.kind \notin ProgressKinds
    <3> DEFINE applied == [c EXCEPT !.stage = "apply"]
    <3>1. c \in Callback
      BY DEF ServiceInv, ServiceTypeOK
    <3>2. applied \in Callback /\ applied.kind = c.kind
      BY <3>1 DEF Callback
    <3>3. callbacks' = (callbacks \ {c}) \cup {applied} /\ UNCHANGED sending
      BY <1>2, <2>3 DEF CallbackAppend
    <3> HIDE DEF applied
    <3>4. QED
      BY <2>1, <2>3, <3>2, <3>3 DEF ServiceInv, ServiceTypeOK, ServiceShape
  <2>4. QED
    BY <2>2, <2>3
<1>3. ASSUME NEW c \in callbacks, CallbackApply(c)
      PROVE  ServiceInv'
  BY <1>1, <1>3 DEF CallbackApply
<1>4. ASSUME NEW c, LoseCallback(c)
      PROVE  ServiceInv'
  BY <1>4 DEF LoseCallback, ServiceInv, ServiceTypeOK, ServiceShape
<1>5. ASSUME NEW e \in Executions, NoAnswer(e)
      PROVE  ServiceInv'
  <2>1. /\ execution[e].pc # "free"
        /\ sending[e] \in [kind: CallbackKinds, sequence: Nat, attempt: {1, 2}]
        /\ UNCHANGED <<activeRuns, execution, checkpoint, report>>
    BY <1>5 DEF NoAnswer, ServiceInv, ServiceTypeOK, ServiceShape
  <2>2. CASE sending[e].attempt = 1
    <3>1. Post(e, sending[e].kind, sending[e].sequence, 2)
      BY <1>5, <2>2 DEF NoAnswer
    <3>2. sending[e].kind \in CallbackKinds /\ sending[e].sequence \in Nat
      BY <2>1
    <3>3. /\ sending' \in [Executions -> {Idle} \cup
                [kind: CallbackKinds, sequence: Nat, attempt: {1, 2}]]
          /\ callbacks' \in SUBSET Callback
          /\ \A x \in Executions \ {e} : sending'[x] = sending[x]
          /\ \A c \in callbacks' : c.stage = "apply" => c.kind \notin ProgressKinds
      BY <2>1, <3>1, <3>2, PostTypes
    <3>4. QED
      BY <2>1, <3>3 DEF ServiceInv, ServiceTypeOK, ServiceShape
  <2>3. CASE sending[e].attempt # 1
    <3>1. sending' = [sending EXCEPT ![e] = Idle] /\ UNCHANGED callbacks
      BY <1>5, <2>3 DEF NoAnswer
    <3>2. QED
      BY <2>1, <3>1 DEF ServiceInv, ServiceTypeOK, ServiceShape
  <2>4. QED
    BY <2>2, <2>3
<1>6. QED
  BY <1>2, <1>3, <1>4, <1>5

\* The registry knows every living thread under the run that it executes.
ThreadsAreRegistered ==
    \A e \in Executions : Live(e) => activeRuns[execution[e].run] = e

\* submit() registers a new thread only where none is registered, and every
\* other step leaves the entry of a thread that lives on alone.
LEMMA RegistryIsKept ==
    ASSUME ServiceInv, ThreadsAreRegistered
    PROVE  /\ \A r \in Runs, n \in Nat, s \in Snapshots \cup {None} :
                Submit(r, n, s) => ThreadsAreRegistered'
           /\ \A r \in Runs : RequestCancel(r) => ThreadsAreRegistered'
           /\ \A r : ClearCheckpoint(r) => ThreadsAreRegistered'
           /\ ServiceRestart => ThreadsAreRegistered'
           /\ \A e \in Executions : Finish(e) => ThreadsAreRegistered'
           /\ \A e \in Executions, pc \in ExecutionStates :
                /\ execution[e].pc \notin {"free", "dead"}
                /\ Goto(e, pc)
                /\ UNCHANGED activeRuns
                => ThreadsAreRegistered'
           /\ \A e \in Executions : \A kind, pc :
                /\ execution[e].pc \notin {"free", "dead"}
                /\ PublishAndGoto(e, kind, pc)
                => ThreadsAreRegistered'
           /\ \A e \in Executions : GraphChunk(e) => ThreadsAreRegistered'
           /\ \A e \in Executions : Heartbeat(e) => ThreadsAreRegistered'
           /\ UNCHANGED <<activeRuns, execution>> => ThreadsAreRegistered'
<1> USE DEF ThreadsAreRegistered, Live
<1>1. /\ execution \in [Executions -> ExecutionRecord]
      /\ activeRuns \in [Runs -> Executions \cup {None}]
      /\ \A e \in Executions : Live(e) => execution[e].run \in Runs
      /\ None \notin Executions
  BY NoneAssumption DEF ServiceInv, ServiceTypeOK, ServiceShape
<1>2. ASSUME UNCHANGED activeRuns, \A e \in Executions :
               /\ execution'[e].run = execution[e].run
               /\ execution'[e].pc \notin {"free", "dead"} => Live(e)
      PROVE  ThreadsAreRegistered'
  BY <1>2
<1>3. ASSUME NEW r \in Runs, NEW n \in Nat, NEW s \in Snapshots \cup {None},
             Submit(r, n, s)
      PROVE  ThreadsAreRegistered'
  <2>1. PICK e \in Executions :
          /\ activeRuns' = [activeRuns EXCEPT ![r] = e]
          /\ execution' = [execution EXCEPT ![e] =
                [pc |-> "start", run |-> r, sequence |-> n,
                 cancelled |-> FALSE, evidence |-> s,
                 chunks |-> 0, heartbeats |-> 0]]
    BY <1>3 DEF Submit
  <2>2. activeRuns[r] = None
    BY <1>3 DEF Submit
  <2> SUFFICES ASSUME NEW x \in Executions, Live(x)'
               PROVE  (activeRuns[execution[x].run] = x)'
    OBVIOUS
  <2>3. CASE x = e
    BY <1>1, <2>1, <2>3
  <2>4. CASE x # e
    <3>1. execution'[x] = execution[x] /\ Live(x)
      BY <1>1, <2>1, <2>4
    <3>2. activeRuns[execution[x].run] = x
      BY <3>1
    <3>3. execution[x].run # r
      BY <1>1, <2>2, <3>2
    <3>4. QED
      BY <1>1, <2>1, <3>1, <3>2, <3>3
  <2>5. QED
    BY <2>3, <2>4
<1>4. ASSUME NEW r \in Runs, RequestCancel(r)
      PROVE  ThreadsAreRegistered'
  <2>1. CASE activeRuns[r] = None
    BY <1>2, <1>4, <2>1 DEF RequestCancel
  <2>2. CASE activeRuns[r] # None
    <3>1. activeRuns[r] \in Executions
      BY <1>1, <2>2
    <3>2. \A e \in Executions : /\ execution'[e].pc = execution[e].pc
                                /\ execution'[e].run = execution[e].run
      BY <1>1, <1>4, <2>2, <3>1 DEF RequestCancel, ExecutionRecord
    <3>3. QED
      BY <1>2, <1>4, <3>2 DEF RequestCancel
  <2>3. QED
    BY <2>1, <2>2
<1>5. ASSUME NEW r, ClearCheckpoint(r)
      PROVE  ThreadsAreRegistered'
  BY <1>2, <1>5 DEF ClearCheckpoint
<1>6. ASSUME ServiceRestart
      PROVE  ThreadsAreRegistered'
  <2> SUFFICES ASSUME NEW e \in Executions
               PROVE  ~Live(e)'
    OBVIOUS
  <2>1. execution[e] \in ExecutionRecord
    BY <1>1
  <2>2. QED
    BY <1>6, <2>1 DEF ServiceRestart, ExecutionRecord
<1>7. ASSUME NEW e \in Executions, Finish(e)
      PROVE  ThreadsAreRegistered'
  <2> SUFFICES ASSUME NEW x \in Executions, Live(x)'
               PROVE  (activeRuns[execution[x].run] = x)'
    OBVIOUS
  <2>1. x # e /\ execution'[x] = execution[x]
    BY <1>1, <1>7 DEF Finish, Goto, ExecutionRecord
  <2>2. activeRuns[execution[x].run] = x /\ execution[x].run \in Runs
    BY <1>1, <2>1
  <2>3. activeRuns'[execution[x].run] = activeRuns[execution[x].run]
    BY <1>7, <2>1, <2>2 DEF Finish
  <2>4. QED
    BY <2>1, <2>2, <2>3
<1>8. ASSUME NEW e \in Executions, NEW pc, Live(e), Goto(e, pc), UNCHANGED activeRuns
      PROVE  ThreadsAreRegistered'
  BY <1>1, <1>2, <1>8 DEF Goto, ExecutionRecord
<1>9. ASSUME NEW e \in Executions, NEW kind, NEW pc, Live(e),
             PublishAndGoto(e, kind, pc)
      PROVE  ThreadsAreRegistered'
  BY <1>1, <1>2, <1>9 DEF PublishAndGoto, ExecutionRecord
<1>10. ASSUME NEW e \in Executions, GraphChunk(e)
       PROVE  ThreadsAreRegistered'
  <2>1. CASE execution[e].cancelled
    BY <1>8, <1>10, <2>1 DEF GraphChunk
  <2>2. CASE ~execution[e].cancelled
    BY <1>1, <1>2, <1>10, <2>2 DEF GraphChunk, ExecutionRecord
  <2>3. QED
    BY <2>1, <2>2
<1>11. ASSUME NEW e \in Executions, Heartbeat(e)
       PROVE  ThreadsAreRegistered'
  BY <1>1, <1>2, <1>11 DEF Heartbeat, ExecutionRecord
<1>12. ASSUME UNCHANGED <<activeRuns, execution>>
       PROVE  ThreadsAreRegistered'
  BY <1>12
<1>13. QED
  BY <1>3, <1>4, <1>5, <1>6, <1>7, <1>8, <1>9, <1>10, <1>11, <1>12
=============================================================================
