----------------------- MODULE TradingAgentsRuns_proofs -----------------------
(***************************************************************************)
(* Theorems of TradingAgentsRuns, for every number of runs, days, clients,  *)
(* workers, executions and failures.  TypeInv is inductive by itself; Inv   *)
(* adds to it what each safety property needs.                              *)
(***************************************************************************)
EXTENDS TradingAgentsRuns, TradingAgentsService_proofs

HandlerRecord == [pc: {"idle", "write", "enqueue"},
                  op: OperationNames \cup {"none"},
                  run: Runs \cup {None}, day: AssetDays \cup {None}]

WorkerRecord == [pc: {"idle", "cancelRow", "evidence", "mark", "post", "fail", "done"},
                 kind: TaskKinds \cup {"none"}, run: Runs \cup {None},
                 sequence: Nat, evidence: Snapshots \cup {None}]

GatewayTypeOK == /\ handler \in [Clients -> HandlerRecord]
                 /\ requests \in Nat
                 /\ faults \in Nat

CeleryTypeOK == /\ queue \in [Runs -> [TaskKinds -> Nat]]
                /\ worker \in [Workers -> WorkerRecord]

\* A create request holds the day it was sent for, and a task its run.
GatewayShape ==
    /\ \A c \in Clients : handler[c].pc = "write" /\ handler[c].op = "create"
                            => handler[c].day \in AssetDays
    /\ \A w \in Workers : worker[w].pc # "idle" => worker[w].run \in Runs

TypeInv == /\ RepositoryTypeOK
           /\ ServiceInv
           /\ GatewayTypeOK
           /\ CeleryTypeOK
           /\ GatewayShape

\* With the type of the checkpoints, which rests on the rows' days and is added
\* below, the inductive invariant implies the type invariant the runs check.
LEMMA TypeInvImpliesTypeOK == TypeInv /\ CheckpointTypeOK => TypeOK
BY DEF TypeInv, TypeOK, ServiceInv, GatewayTypeOK, CeleryTypeOK, HandlerRecord,
       WorkerRecord

\* An empty database, an idle service and an empty queue are well typed.
LEMMA InitTypeInv == Init => TypeInv
<1> SUFFICES ASSUME Init
             PROVE  TypeInv
  OBVIOUS
<1>1. RepositoryTypeOK
  BY DEF Init, RepositoryInit, RepositoryTypeOK
<1>2. ServiceInv
  <2>1. execution \in [Executions -> ExecutionRecord]
    BY DEF Init, ServiceInit, ExecutionRecord, ExecutionStates
  <2>2. QED
    BY <2>1 DEF Init, ServiceInit, ServiceInv, ServiceTypeOK, ServiceShape
<1>3. GatewayTypeOK /\ CeleryTypeOK /\ GatewayShape
  BY DEF Init, GatewayTypeOK, CeleryTypeOK, GatewayShape, HandlerRecord,
         WorkerRecord, NoRequest, NoTask
<1>4. QED
  BY <1>1, <1>2, <1>3 DEF TypeInv

-----------------------------------------------------------------------------
(* Helpers on the records of handlers and workers.                          *)

\* A failure counts as one more.
LEMMA FaultsType ==
    ASSUME GatewayTypeOK
    PROVE  /\ \A kind : Fault(kind) => faults' \in Nat
           /\ NoFault => faults' \in Nat
BY DEF GatewayTypeOK, Fault, NoFault

\* A task that goes on to another step keeps its run, kind and sequence.
LEMMA WorkerAtTypes ==
    ASSUME CeleryTypeOK, NEW w \in Workers,
           NEW pc \in {"cancelRow", "evidence", "mark", "post", "fail", "done"},
           worker[w].pc # "idle", WorkerAt(w, pc), UNCHANGED queue
    PROVE  /\ CeleryTypeOK'
           /\ \A x \in Workers : /\ worker'[x].run = worker[x].run
                                 /\ worker'[x].pc # "idle" => worker[x].pc # "idle"
BY DEF CeleryTypeOK, WorkerAt, WorkerRecord

\* A handler whose request is answered, or that goes on to enqueue.
LEMMA HandlerTypes ==
    ASSUME TypeInv, NEW c \in Clients, UNCHANGED <<requests, faults>>,
           \/ handler' = [handler EXCEPT ![c] = NoRequest]
           \/ handler' = [handler EXCEPT ![c].pc = "enqueue"]
           \/ \E r \in Runs : handler' = [handler EXCEPT ![c].pc = "enqueue", ![c].run = r]
           \/ UNCHANGED handler
    PROVE  /\ GatewayTypeOK'
           /\ \A x \in Clients : handler'[x].pc = "write" => handler'[x] = handler[x]
BY DEF TypeInv, GatewayTypeOK, HandlerRecord, NoRequest

\* The guards that put a task or a request where it is.
LEMMA WorkerStepTypes ==
    ASSUME TypeInv, NEW w \in Workers,
           NEW pc \in {"cancelRow", "evidence", "mark", "post", "fail", "done"},
           worker[w].pc # "idle", WorkerAt(w, pc), UNCHANGED <<queue, handler>>
    PROVE  CeleryTypeOK' /\ GatewayShape'
<1>1. /\ CeleryTypeOK'
      /\ \A x \in Workers : /\ worker'[x].run = worker[x].run
                            /\ worker'[x].pc # "idle" => worker[x].pc # "idle"
  BY WorkerAtTypes DEF TypeInv
<1>2. QED
  BY <1>1 DEF TypeInv, GatewayShape

\* One more task of a kind is on the queue.
LEMMA EnqueueType ==
    ASSUME CeleryTypeOK, NEW r, NEW kind, Enqueue(r, kind)
    PROVE  queue' \in [Runs -> [TaskKinds -> Nat]]
<1>1. queue' = [x \in Runs |-> IF x = r THEN [queue[r] EXCEPT ![kind] = @ + 1]
                                        ELSE queue[x]]
  BY DEF Enqueue, CeleryTypeOK
<1>2. ASSUME r \in Runs
      PROVE  [queue[r] EXCEPT ![kind] = @ + 1] \in [TaskKinds -> Nat]
  <2>1. queue[r] \in [TaskKinds -> Nat]
    BY <1>2 DEF CeleryTypeOK
  <2>2. kind \in TaskKinds => queue[r][kind] + 1 \in Nat
    BY <2>1
  <2>3. QED
    BY <2>1, <2>2
<1>3. QED
  BY <1>1, <1>2 DEF CeleryTypeOK

\* Whatever a task prepares, it goes to one of three steps.
LEMMA PrepareType ==
    \A kind, r, s : Prepare(kind, r, s) \in {"evidence", "mark", "post"}
BY DEF Prepare

-----------------------------------------------------------------------------
(* Type correctness: one step per action of Next.                           *)

\* The routes.
LEMMA HandlersKeepTypeInv ==
    ASSUME TypeInv, NEW c \in Clients
    PROVE  /\ \A d \in AssetDays : BeginCreate(c, d) => TypeInv'
           /\ \A r \in Runs, op \in OperationNames \ {"create"} :
                BeginControl(c, op, r) => TypeInv'
           /\ HandlerStep(c) => TypeInv'
           /\ EnqueueFails(c) => TypeInv'
           /\ HandlerLost(c) => TypeInv'
<1> USE DEF TypeInv
<1>1. ASSUME NEW d \in AssetDays, BeginCreate(c, d)
      PROVE  TypeInv'
  <2>1. GatewayTypeOK' /\ GatewayShape'
    BY <1>1 DEF BeginCreate, Call, GatewayTypeOK, GatewayShape, HandlerRecord,
                OperationNames, celeryVars
  <2>2. RepositoryTypeOK'
    BY <1>1, RepositoryTypes DEF BeginCreate, Call
  <2>3. QED
    BY <1>1, <2>1, <2>2, EndpointTypes DEF BeginCreate, CeleryTypeOK, celeryVars
<1>2. ASSUME NEW r \in Runs, NEW op \in OperationNames \ {"create"},
             BeginControl(c, op, r)
      PROVE  TypeInv'
  <2>1. CASE handler' = handler
    <3>1. GatewayTypeOK' /\ GatewayShape'
      BY <1>2, <2>1 DEF BeginControl, Call, GatewayTypeOK, GatewayShape, celeryVars
    <3>2. QED
      BY <1>2, <3>1, RepositoryTypes, EndpointTypes
      DEF BeginControl, Call, CeleryTypeOK, celeryVars
  <2>2. CASE handler' = [handler EXCEPT ![c] =
                 [pc |-> IF op = "clear" THEN "enqueue" ELSE "write",
                  op |-> op, run |-> r, day |-> None]]
    <3>1. GatewayTypeOK' /\ GatewayShape'
      BY <1>2, <2>2 DEF BeginControl, Call, GatewayTypeOK, GatewayShape,
                        HandlerRecord, celeryVars
    <3>2. QED
      BY <1>2, <3>1, RepositoryTypes, EndpointTypes
      DEF BeginControl, Call, CeleryTypeOK, celeryVars
  <2>3. QED
    BY <1>2, <2>1, <2>2 DEF BeginControl
<1>3. ASSUME InsertRun(c)
      PROVE  TypeInv'
  <2>1. PICK r \in Runs : /\ CreateRun(r, handler[c].day)
                          /\ handler' = [handler EXCEPT ![c].pc = "enqueue",
                                                        ![c].run = r]
    BY <1>3 DEF InsertRun
  <2>2. handler[c].day \in AssetDays
    BY <1>3 DEF InsertRun, GatewayShape
  <2>3. RepositoryTypeOK'
    BY <2>1, <2>2, RepositoryTypes
  <2>4. GatewayTypeOK' /\ GatewayShape'
    BY <1>3, <2>1, HandlerTypes DEF InsertRun, GatewayShape, celeryVars
  <2>5. QED
    BY <1>3, <2>3, <2>4, EndpointTypes DEF InsertRun, CeleryTypeOK, celeryVars
<1>4. ASSUME ReuseDailyRun(c)
      PROVE  TypeInv'
  <2>1. GatewayTypeOK' /\ GatewayShape'
    BY <1>4, HandlerTypes DEF ReuseDailyRun, GatewayShape, celeryVars
  <2>2. QED
    BY <1>4, <2>1, RepositoryTypes, EndpointTypes
    DEF ReuseDailyRun, CeleryTypeOK, celeryVars
<1>5. ASSUME WriteControl(c)
      PROVE  TypeInv'
  <2>1. GatewayTypeOK' /\ GatewayShape'
    BY <1>5, HandlerTypes DEF WriteControl, GatewayShape, celeryVars
  <2>2. RepositoryTypeOK'
    BY <1>5, RepositoryTypes DEF WriteControl, Statuses, Active, Terminal
  <2>3. QED
    BY <1>5, <2>1, <2>2, EndpointTypes DEF WriteControl, CeleryTypeOK, celeryVars
<1>6. ASSUME EnqueueTask(c)
      PROVE  TypeInv'
  <2>1. GatewayTypeOK' /\ GatewayShape'
    BY <1>6, HandlerTypes DEF EnqueueTask, GatewayShape
  <2>2. CeleryTypeOK'
    BY <1>6, EnqueueType DEF EnqueueTask, CeleryTypeOK
  <2>3. QED
    BY <1>6, <2>1, <2>2, RepositoryTypes, EndpointTypes DEF EnqueueTask
<1>7. ASSUME EnqueueFails(c)
      PROVE  TypeInv'
  <2>1. GatewayTypeOK' /\ GatewayShape'
    BY <1>7, FaultsType
    DEF EnqueueFails, GatewayTypeOK, GatewayShape, HandlerRecord, NoRequest, celeryVars
  <2>2. RepositoryTypeOK'
    BY <1>7, RepositoryTypes DEF EnqueueFails, Statuses, Active, Terminal
  <2>3. QED
    BY <1>7, <2>1, <2>2, EndpointTypes DEF EnqueueFails, CeleryTypeOK, celeryVars
<1>8. ASSUME HandlerLost(c)
      PROVE  TypeInv'
  <2>1. GatewayTypeOK' /\ GatewayShape'
    BY <1>8, FaultsType
    DEF HandlerLost, GatewayTypeOK, GatewayShape, HandlerRecord, NoRequest, celeryVars
  <2>2. QED
    BY <1>8, <2>1, RepositoryTypes, EndpointTypes DEF HandlerLost, CeleryTypeOK, celeryVars
<1>9. QED
  BY <1>1, <1>2, <1>3, <1>4, <1>5, <1>6, <1>7, <1>8 DEF HandlerStep

\* The tasks.
LEMMA WorkersKeepTypeInv ==
    ASSUME TypeInv, NEW w \in Workers
    PROVE  /\ \A r \in Runs, kind \in TaskKinds : StartTask(w, r, kind) => TypeInv'
           /\ WorkerStep(w) => TypeInv'
           /\ WorkerLost(w) => TypeInv'
<1> USE DEF TypeInv
<1>1. worker \in [Workers -> WorkerRecord]
  BY DEF CeleryTypeOK
<1>2. \A kinds : /\ Surrender(w, kinds) => \E pc \in {"fail", "done"} : WorkerAt(w, pc)
  BY DEF Surrender
<1>3. ASSUME NEW r \in Runs, NEW kind \in TaskKinds, StartTask(w, r, kind)
      PROVE  TypeInv'
  <2> DEFINE pc == CASE kind = "run" /\ status[r] \in Terminal -> "done"
                     [] kind = "cancel" -> "cancelRow"
                     [] OTHER -> Prepare(kind, r, evidence[r])
             task == [pc |-> pc, kind |-> kind, run |-> r,
                      sequence |-> LastSequence(r), evidence |-> evidence[r]]
  <2>1. pc \in {"done", "cancelRow", "evidence", "mark", "post"}
    BY PrepareType
  <2>2. evidence[r] \in Snapshots \cup {None} /\ LastSequence(r) \in Nat
    BY LastSequenceType DEF RepositoryTypeOK
  <2> HIDE DEF pc
  <2>3. task \in WorkerRecord /\ task.run \in Runs
    BY <2>1, <2>2 DEF WorkerRecord
  <2>4. worker' = [worker EXCEPT ![w] = task]
    BY <1>3 DEF StartTask, pc
  <2>5. queue' \in [Runs -> [TaskKinds -> Nat]]
    <3>1. queue[r][kind] \in Nat /\ queue[r][kind] > 0
      BY <1>3 DEF StartTask, CeleryTypeOK
    <3>2. queue[r][kind] - 1 \in Nat
      BY <3>1
    <3>3. queue' = [queue EXCEPT ![r] = [queue[r] EXCEPT ![kind] = queue[r][kind] - 1]]
      BY <1>3 DEF StartTask
    <3>4. QED
      BY <3>2, <3>3 DEF CeleryTypeOK
  <2> HIDE DEF task
  <2>6. CeleryTypeOK'
    BY <2>3, <2>4, <2>5 DEF CeleryTypeOK
  <2>7. GatewayTypeOK' /\ GatewayShape'
    BY <1>3, <2>3, <2>4, <1>1 DEF StartTask, GatewayTypeOK, GatewayShape, gatewayVars
  <2>8. QED
    BY <1>3, <2>6, <2>7, RepositoryTypes, EndpointTypes DEF StartTask
<1>4. ASSUME CancelRow(w)
      PROVE  TypeInv'
  <2>1. RepositoryTypeOK'
    BY <1>4, RepositoryTypes DEF CancelRow, Statuses, Active, Terminal
  <2>2. CeleryTypeOK' /\ GatewayShape'
    BY <1>4, WorkerStepTypes, PrepareType DEF CancelRow, gatewayVars
  <2>3. QED
    BY <1>4, <2>1, <2>2, EndpointTypes DEF CancelRow, GatewayTypeOK, gatewayVars
<1>5. ASSUME BuildEvidence(w)
      PROVE  TypeInv'
  <2>1. PICK s \in Snapshots :
          /\ StoreEvidence(worker[w].run, s)
          /\ worker' = [worker EXCEPT ![w].evidence = s,
                          ![w].pc = Prepare(worker[w].kind, worker[w].run, s)]
    BY <1>5 DEF BuildEvidence
  <2>2. RepositoryTypeOK'
    BY <2>1, RepositoryTypes
  <2>3. /\ worker' \in [Workers -> WorkerRecord]
        /\ \A x \in Workers : /\ worker'[x].run = worker[x].run
                              /\ worker'[x].pc # "idle" => worker[x].pc # "idle"
    <3> DEFINE pc == Prepare(worker[w].kind, worker[w].run, s)
               built == [worker[w] EXCEPT !.evidence = s, !.pc = pc]
    <3>1. pc \in {"evidence", "mark", "post"}
      BY PrepareType
    <3> HIDE DEF pc
    <3>2. worker[w] \in WorkerRecord
      BY <1>1
    <3>3. built \in WorkerRecord /\ built.run = worker[w].run
      BY <3>1, <3>2 DEF WorkerRecord
    <3>4. worker' = [worker EXCEPT ![w] = built]
      BY <2>1 DEF pc
    <3>5. worker[w].pc # "idle"
      BY <1>5 DEF BuildEvidence
    <3> HIDE DEF built
    <3>6. QED
      BY <1>1, <3>3, <3>4, <3>5
  <2>4. CeleryTypeOK' /\ GatewayShape'
    BY <1>5, <2>3 DEF BuildEvidence, CeleryTypeOK, GatewayShape, gatewayVars
  <2>5. QED
    BY <1>5, <2>2, <2>4, EndpointTypes DEF BuildEvidence, GatewayTypeOK, gatewayVars
<1>6. ASSUME EvidenceUnavailable(w)
      PROVE  TypeInv'
  <2>1. CeleryTypeOK' /\ GatewayShape'
    BY <1>2, <1>6, WorkerStepTypes DEF EvidenceUnavailable, gatewayVars
  <2>2. QED
    BY <1>6, <2>1, FaultsType, RepositoryTypes, EndpointTypes
    DEF EvidenceUnavailable, GatewayTypeOK, gatewayVars
<1>7. ASSUME MarkRunning(w)
      PROVE  TypeInv'
  <2>1. RepositoryTypeOK'
    BY <1>7, RepositoryTypes DEF MarkRunning, Statuses, Active, Terminal
  <2>2. CeleryTypeOK' /\ GatewayShape'
    BY <1>7, WorkerStepTypes DEF MarkRunning, gatewayVars
  <2>3. QED
    BY <1>7, <2>1, <2>2, EndpointTypes DEF MarkRunning, GatewayTypeOK, gatewayVars
<1>8. ASSUME worker[w].pc = "post"
      PROVE  /\ worker[w].run \in Runs
             /\ EndpointAccepts(w) => ServiceInv'
  BY <1>1, <1>8, EndpointTypes DEF EndpointAccepts, GatewayShape, WorkerRecord
<1>9. ASSUME PostAccepted(w)
      PROVE  TypeInv'
  <2>1. worker[w].pc = "post"
    BY <1>9 DEF PostAccepted, EndpointAccepts, Posting
  <2>2. ServiceInv'
    BY <1>8, <1>9, <2>1, EndpointTypes DEF PostAccepted
  <2>3. CeleryTypeOK' /\ GatewayShape'
    BY <1>9, <2>1, WorkerStepTypes DEF PostAccepted, gatewayVars
  <2>4. QED
    BY <1>9, <2>2, <2>3, RepositoryTypes DEF PostAccepted, GatewayTypeOK, gatewayVars
<1>10. ASSUME PostRejected(w)
       PROVE  TypeInv'
  <2>1. CeleryTypeOK' /\ GatewayShape'
    BY <1>2, <1>10, WorkerStepTypes DEF PostRejected, gatewayVars
  <2>2. QED
    BY <1>10, <2>1, FaultsType, RepositoryTypes, EndpointTypes
    DEF PostRejected, GatewayTypeOK, gatewayVars
<1>11. ASSUME PostUnavailable(w)
       PROVE  TypeInv'
  <2>1. ServiceInv'
    BY <1>8, <1>11, EndpointTypes DEF PostUnavailable
  <2>2. CeleryTypeOK' /\ GatewayShape'
    BY <1>2, <1>11, WorkerStepTypes DEF PostUnavailable, gatewayVars
  <2>3. QED
    BY <1>11, <2>1, <2>2, FaultsType, RepositoryTypes
    DEF PostUnavailable, GatewayTypeOK, gatewayVars
<1>12. ASSUME FailRun(w)
       PROVE  TypeInv'
  <2>1. RepositoryTypeOK'
    BY <1>12, RepositoryTypes DEF FailRun, Statuses, Terminal
  <2>2. CeleryTypeOK' /\ GatewayShape'
    BY <1>12, WorkerStepTypes DEF FailRun, gatewayVars
  <2>3. QED
    BY <1>12, <2>1, <2>2, EndpointTypes DEF FailRun, GatewayTypeOK, gatewayVars
<1>13. ASSUME worker' = [worker EXCEPT ![w] = NoTask], UNCHANGED handler,
              queue' \in [Runs -> [TaskKinds -> Nat]]
       PROVE  CeleryTypeOK' /\ GatewayShape'
  BY <1>1, <1>13 DEF CeleryTypeOK, GatewayShape, NoTask, WorkerRecord
<1>14. ASSUME Acknowledge(w)
       PROVE  TypeInv'
  BY <1>13, <1>14, RepositoryTypes, EndpointTypes
  DEF Acknowledge, CeleryTypeOK, GatewayTypeOK, gatewayVars
<1>15. ASSUME WorkerLost(w)
       PROVE  TypeInv'
  BY <1>13, <1>15, EnqueueType, FaultsType, RepositoryTypes, EndpointTypes
  DEF WorkerLost, GatewayTypeOK, gatewayVars
<1>16. QED
  BY <1>3, <1>4, <1>5, <1>6, <1>7, <1>9, <1>10, <1>11, <1>12, <1>14, <1>15
  DEF WorkerStep

\* The service, its callbacks and time.
LEMMA ServiceKeepsTypeInv ==
    ASSUME TypeInv
    PROVE  /\ \A e \in Executions : MainThread(e) => TypeInv'
           /\ \A e \in Executions : HeartbeatThread(e) => TypeInv'
           /\ \A e \in Executions : CallbackTimeout(e) => TypeInv'
           /\ \A c \in callbacks : HandleCallback(c) => TypeInv'
           /\ \A c \in callbacks : CallbackLost(c) => TypeInv'
           /\ Poll => TypeInv'
           /\ Restart => TypeInv'
           /\ \A r \in Runs : Silence(r) => TypeInv'
           /\ UNCHANGED vars => TypeInv'
<1> USE DEF TypeInv
<1>1. ASSUME UNCHANGED <<gatewayVars, celeryVars>>, faults' \in Nat,
             RepositoryTypeOK', ServiceInv'
      PROVE  TypeInv'
  BY <1>1 DEF GatewayTypeOK, CeleryTypeOK, GatewayShape, gatewayVars, celeryVars
<1>2. faults \in Nat
  BY DEF GatewayTypeOK
<1>3. ASSUME NEW e \in Executions, MainThread(e)
      PROVE  TypeInv'
  <2>1. ServiceInv'
    BY <1>3, ThreadTypes DEF MainThread
  <2>2. QED
    BY <1>1, <1>2, <1>3, <2>1, RepositoryTypes DEF MainThread
<1>4. ASSUME NEW e \in Executions, HeartbeatThread(e)
      PROVE  TypeInv'
  BY <1>1, <1>2, <1>4, ThreadTypes, RepositoryTypes DEF HeartbeatThread
<1>5. ASSUME NEW e \in Executions, CallbackTimeout(e)
      PROVE  TypeInv'
  BY <1>1, <1>5, FaultsType, CallbackTypes, RepositoryTypes DEF CallbackTimeout
<1>6. ASSUME NEW c \in callbacks, HandleCallback(c)
      PROVE  TypeInv'
  <2>1. c \in Callback
    BY DEF ServiceInv, ServiceTypeOK
  <2>2. CASE CallbackAppend(c)
    <3>1. RepositoryTypeOK'
      BY <2>1, <2>2, RepositoryTypes DEF CallbackAppend, Callback
    <3>2. QED
      BY <1>1, <1>2, <1>6, <2>2, <3>1, CallbackTypes DEF HandleCallback
  <2>3. CASE CallbackApply(c)
    <3>1. c.kind \notin ProgressKinds
      BY <2>3 DEF CallbackApply, ServiceInv, ServiceShape
    <3>2. c.kind = "artifact" \/ c.kind \in Statuses
      BY <2>1, <3>1 DEF Callback, CallbackKinds, TerminalKinds, Statuses, Active
    <3>3. RepositoryTypeOK'
      BY <2>1, <2>3, <3>2, RepositoryTypes DEF CallbackApply, Callback
    <3>4. QED
      BY <1>1, <1>2, <1>6, <2>3, <3>3, CallbackTypes DEF HandleCallback
  <2>4. QED
    BY <1>6, <2>2, <2>3 DEF HandleCallback
<1>7. ASSUME NEW c \in callbacks, CallbackLost(c)
      PROVE  TypeInv'
  BY <1>1, <1>7, FaultsType, CallbackTypes, RepositoryTypes DEF CallbackLost, NetworkFault
<1>8. ASSUME Poll
      PROVE  TypeInv'
  BY <1>1, <1>2, <1>8, RepositoryTypes, EndpointTypes DEF Poll
<1>9. ASSUME Restart
      PROVE  TypeInv'
  BY <1>1, <1>9, FaultsType, RepositoryTypes, EndpointTypes DEF Restart
<1>10. ASSUME NEW r \in Runs, Silence(r)
       PROVE  TypeInv'
  BY <1>1, <1>10, FaultsType, RepositoryTypes, EndpointTypes DEF Silence
<1>11. ASSUME UNCHANGED vars
       PROVE  TypeInv'
  BY <1>1, <1>2, <1>11, RepositoryTypes, EndpointTypes DEF vars
<1>12. QED
  BY <1>3, <1>4, <1>5, <1>6, <1>7, <1>8, <1>9, <1>10, <1>11

\* Every step of every party keeps the system well typed.
LEMMA NextTypeInv == TypeInv /\ [Next]_vars => TypeInv'
BY HandlersKeepTypeInv, WorkersKeepTypeInv, ServiceKeepsTypeInv DEF Next

\* So the strengthened type invariant holds in every reachable state.
LEMMA SpecTypeInv == Spec => []TypeInv
BY InitTypeInv, NextTypeInv, PTL DEF Spec

-----------------------------------------------------------------------------
(* One run of an asset and day.                                             *)

\* Of all actions only InsertRun does anything to a run but move its status.
LEMMA OnlyInsertRunInserts ==
    ASSUME TypeInv, [Next]_vars
    PROVE  \/ KeepsRuns
           \/ \E r \in Runs, d \in AssetDays : CreateRun(r, d)
<1> USE OnlyCreateRunInserts DEF TypeInv
<1>1. {"queued", "running", "cancelled", "failed"} \subseteq Statuses
  BY DEF Statuses, Active, Terminal
<1>2. ASSUME NEW c \in Clients
      PROVE  /\ \A d \in AssetDays : BeginCreate(c, d) => KeepsRuns
             /\ \A r \in Runs : \A op : BeginControl(c, op, r) => KeepsRuns
             /\ EnqueueFails(c) \/ HandlerLost(c) => KeepsRuns
             /\ ReuseDailyRun(c) => KeepsRuns
             /\ WriteControl(c) => KeepsRuns
             /\ EnqueueTask(c) => KeepsRuns
  BY <1>1 DEF BeginCreate, BeginControl, Call, EnqueueFails, HandlerLost, ReuseDailyRun,
              WriteControl, EnqueueTask
<1>3. ASSUME NEW c \in Clients, InsertRun(c)
      PROVE  \E r \in Runs, d \in AssetDays : CreateRun(r, d)
  BY <1>3 DEF InsertRun, GatewayShape
<1>4. ASSUME NEW w \in Workers
      PROVE  /\ \A r \in Runs, kind \in TaskKinds : StartTask(w, r, kind) => KeepsRuns
             /\ WorkerLost(w) => KeepsRuns
             /\ WorkerStep(w) => KeepsRuns
  <2>1. CancelRow(w) \/ MarkRunning(w) \/ FailRun(w) => KeepsRuns
    BY <1>1 DEF CancelRow, MarkRunning, FailRun
  <2>2. BuildEvidence(w) => KeepsRuns
    BY DEF BuildEvidence
  <2>3. EvidenceUnavailable(w) \/ PostAccepted(w) \/ PostRejected(w)
          \/ PostUnavailable(w) \/ Acknowledge(w) => KeepsRuns
    BY DEF EvidenceUnavailable, PostAccepted, PostRejected, PostUnavailable,
           Acknowledge
  <2>4. QED
    BY <2>1, <2>2, <2>3 DEF StartTask, WorkerLost, WorkerStep
<1>5. ASSUME NEW e \in Executions
      PROVE  MainThread(e) \/ HeartbeatThread(e) \/ CallbackTimeout(e) => KeepsRuns
  BY DEF MainThread, HeartbeatThread, CallbackTimeout
<1>6. ASSUME NEW c \in callbacks
      PROVE  HandleCallback(c) \/ CallbackLost(c) => KeepsRuns
  <2>1. c \in Callback
    BY DEF ServiceInv, ServiceTypeOK
  <2>2. CallbackAppend(c) => KeepsRuns
    BY DEF CallbackAppend
  <2>3. CallbackApply(c) => c.kind = "artifact" \/ c.kind \in Statuses
    BY <2>1 DEF CallbackApply, ServiceInv, ServiceShape, Callback, CallbackKinds,
                TerminalKinds, Statuses, Active
  <2>4. CallbackApply(c) => KeepsRuns
    BY <2>3 DEF CallbackApply
  <2>5. QED
    BY <2>2, <2>4 DEF HandleCallback, CallbackLost
<1>7. Poll \/ Restart \/ (\E r \in Runs : Silence(r)) => KeepsRuns
  BY DEF Poll, Restart, Silence
<1>8. UNCHANGED vars => KeepsRuns
  BY DEF vars
<1>9. QED
  BY <1>2, <1>3, <1>4, <1>5, <1>6, <1>7, <1>8 DEF Next, HandlerStep

\* Two runs of one day would both hold its lock, which names one run.
LEMMA HoldingADayIsExclusive == RunsHoldTheirDay => OneRunPerDay
BY DEF RunsHoldTheirDay, OneRunPerDay

\* Every run holds the lock of its day in every reachable state.
LEMMA SpecDays == Spec => []RunsHoldTheirDay
<1>1. Init => RunsHoldTheirDay
  BY DEF Init, RepositoryInit, RunsHoldTheirDay, Exists
<1>2. TypeInv /\ RunsHoldTheirDay /\ [Next]_vars => RunsHoldTheirDay'
  BY OnlyInsertRunInserts, DailyLockIsKept DEF TypeInv
<1>3. QED
  BY <1>1, <1>2, SpecTypeInv, PTL DEF Spec

\* The persistent daily lock: two requests that both passed the early reuse
\* checks of POST /runs never leave two runs of one asset and day behind.
THEOREM DailyRunIsUnique == Spec => []OneRunPerDay
BY SpecDays, HoldingADayIsExclusive, PTL

-----------------------------------------------------------------------------
(* One execution of a run.                                                  *)

\* What each action of Next does to the service is a step of the service or
\* nothing: the routes, most of a task's steps and time leave it alone.  These
\* are its steps while every callback gets an answer in time ...
AnsweredStep ==
    \/ \E r \in Runs, n \in Nat, s \in Snapshots \cup {None} : Submit(r, n, s)
    \/ \E r \in Runs : RequestCancel(r) \/ ClearCheckpoint(r)
    \/ \E e \in Executions : \/ PublishRunning(e)  \/ EnterGraph(e)       \/ GraphChunk(e)
                             \/ GraphEnd(e)        \/ SaveNativeReport(e) \/ PublishArtifact(e)
                             \/ RunFails(e)        \/ PublishTerminal(e)  \/ Finish(e)
                             \/ Heartbeat(e)
                             \/ AnswerLost(e) /\ NoAnswer(e)
    \/ \E c \in callbacks : CallbackAppend(c) \/ CallbackApply(c)
    \/ ServiceRestart
    \/ UNCHANGED serviceVars

\* ... to which a network that loses callbacks adds one, and one that answers
\* them late another.
TimelyStep == AnsweredStep \/ \E c \in callbacks : LoseCallback(c)
ServiceStep == TimelyStep \/ \E e \in Executions : NoAnswer(e)

\* No callback is lost or answered late.
CallbacksAnswered == {"lost", "slow"} \cap Faults = {}

\* Whatever party moves, the service does one of the things listed above, and
\* a POST is given up or repeated only when its request is gone, unless the
\* network may fail.
LEMMA NextIsServiceStep ==
    ASSUME TypeInv, [Next]_vars
    PROVE  /\ ServiceStep
           /\ CallbacksAnswered => AnsweredStep
           /\ "slow" \notin Faults => TimelyStep
<1>1. ASSUME NEW c \in Clients
      PROVE  /\ \A d \in AssetDays : BeginCreate(c, d) => UNCHANGED serviceVars
             /\ \A r \in Runs : \A op : BeginControl(c, op, r) => UNCHANGED serviceVars
             /\ HandlerStep(c) \/ EnqueueFails(c) \/ HandlerLost(c)
                  => UNCHANGED serviceVars
  BY DEF BeginCreate, BeginControl, HandlerStep, InsertRun, ReuseDailyRun,
         WriteControl, EnqueueTask, EnqueueFails, HandlerLost
<1>2. ASSUME NEW w \in Workers
      PROVE  /\ \A r \in Runs : \A kind : StartTask(w, r, kind) => UNCHANGED serviceVars
             /\ WorkerLost(w) => UNCHANGED serviceVars
             /\ WorkerStep(w) => AnsweredStep
  <2>1. (\/ CancelRow(w)   \/ BuildEvidence(w) \/ EvidenceUnavailable(w)
         \/ MarkRunning(w) \/ PostRejected(w)  \/ FailRun(w)
         \/ Acknowledge(w))
           => UNCHANGED serviceVars
    BY DEF CancelRow, BuildEvidence, EvidenceUnavailable, MarkRunning,
           PostRejected, FailRun, Acknowledge
  <2>2. worker[w].pc = "post" =>
          /\ worker[w].run \in Runs
          /\ worker[w].sequence \in Nat
          /\ worker[w].evidence \in Snapshots \cup {None}
    BY DEF TypeInv, CeleryTypeOK, GatewayShape, WorkerRecord
  <2>3. PostAccepted(w) \/ PostUnavailable(w) => AnsweredStep
    BY <2>2 DEF PostAccepted, PostUnavailable, EndpointAccepts, Posting,
                AlreadyRunning, AnsweredStep
  <2>4. QED
    BY <2>1, <2>3 DEF StartTask, WorkerLost, WorkerStep, AnsweredStep
<1>3. ASSUME NEW e \in Executions
      PROVE  /\ MainThread(e) \/ HeartbeatThread(e) => AnsweredStep
             /\ CallbackTimeout(e) => ServiceStep
             /\ CallbackTimeout(e) /\ "slow" \notin Faults => AnsweredStep
  <2>1. MainThread(e) \/ HeartbeatThread(e) => AnsweredStep
    BY DEF MainThread, HeartbeatThread, AnsweredStep
  <2>2. CallbackTimeout(e) => NoAnswer(e) /\ ("slow" \notin Faults => AnswerLost(e))
    BY DEF CallbackTimeout, Fault
  <2>3. CallbackTimeout(e) /\ "slow" \notin Faults => AnsweredStep
    BY <2>2 DEF AnsweredStep
  <2>4. CallbackTimeout(e) => ServiceStep
    BY <2>2 DEF ServiceStep
  <2>5. QED
    BY <2>1, <2>3, <2>4
<1>4. ASSUME NEW c \in callbacks
      PROVE  /\ HandleCallback(c) => AnsweredStep
             /\ CallbackLost(c) => TimelyStep /\ ~CallbacksAnswered
  BY DEF HandleCallback, CallbackLost, AnsweredStep, TimelyStep, CallbacksAnswered,
         Fault, NetworkFault
<1>5. Poll \/ (\E r \in Runs : Silence(r)) \/ UNCHANGED vars => UNCHANGED serviceVars
  BY DEF Poll, Silence, vars
<1>6. Restart => AnsweredStep
  BY DEF Restart, AnsweredStep
<1>7. QED
  BY <1>1, <1>2, <1>3, <1>4, <1>5, <1>6 DEF Next, AnsweredStep, TimelyStep, ServiceStep, CallbacksAnswered

\* The registry stays exact through every step of the service.
LEMMA ServiceStepKeepsRegistry ==
    ASSUME TypeInv, ThreadsAreRegistered, ServiceStep
    PROVE  ThreadsAreRegistered'
<1> USE RegistryIsKept DEF TypeInv
<1>1. ASSUME NEW e \in Executions,
             \/ PublishRunning(e)  \/ EnterGraph(e)       \/ GraphChunk(e)
             \/ GraphEnd(e)        \/ SaveNativeReport(e) \/ PublishArtifact(e)
             \/ RunFails(e)        \/ PublishTerminal(e)  \/ Finish(e)
             \/ Heartbeat(e)       \/ NoAnswer(e)
      PROVE  ThreadsAreRegistered'
  <2>1. PublishRunning(e) \/ PublishArtifact(e) \/ PublishTerminal(e)
          => ThreadsAreRegistered'
    BY DEF PublishRunning, PublishArtifact, PublishTerminal
  <2>2. EnterGraph(e) \/ GraphEnd(e) \/ SaveNativeReport(e) \/ RunFails(e)
          => ThreadsAreRegistered'
    BY DEF EnterGraph, GraphEnd, SaveNativeReport, RunFails, ExecutionStates
  <2>3. NoAnswer(e) => ThreadsAreRegistered'
    BY DEF NoAnswer
  <2>4. QED
    BY <1>1, <2>1, <2>2, <2>3
<1>2. ASSUME NEW c \in callbacks, CallbackAppend(c) \/ CallbackApply(c) \/ LoseCallback(c)
      PROVE  ThreadsAreRegistered'
  BY <1>2 DEF CallbackAppend, CallbackApply, LoseCallback
<1>3. UNCHANGED serviceVars => ThreadsAreRegistered'
  BY DEF serviceVars
<1>4. QED
  BY <1>1, <1>2, <1>3 DEF ServiceStep, TimelyStep, AnsweredStep

\* Hence active_runs names every living thread in every reachable state.
LEMMA SpecRegistry == Spec => []ThreadsAreRegistered
<1>1. Init => ThreadsAreRegistered
  BY DEF Init, ServiceInit, ThreadsAreRegistered, Live
<1>2. TypeInv /\ ThreadsAreRegistered /\ [Next]_vars => ThreadsAreRegistered'
  BY NextIsServiceStep, ServiceStepKeepsRegistry
<1>3. QED
  BY <1>1, <1>2, SpecTypeInv, PTL DEF Spec

\* Mutual exclusion: no redelivery, resume, cancellation or restart ever has
\* two threads of the service execute one run.
THEOREM ExecutionIsExclusive == Spec => []OneExecutionPerRun
<1>1. ThreadsAreRegistered => OneExecutionPerRun
  BY DEF ThreadsAreRegistered, OneExecutionPerRun
<1>2. QED
  BY <1>1, SpecRegistry, PTL

\* A checkpoint is written by a chunk of a thread's graph and dropped at its
\* end or by the endpoint, at the request of a task.
LEMMA OnlyGraphsAndTasksTouchCheckpoints ==
    ASSUME TypeInv, [Next]_vars
    PROVE  \/ \E e \in Executions : GraphChunk(e) \/ GraphEnd(e)
           \/ \E w \in Workers : Clears(w) /\ ClearCheckpoint(worker[w].run)
           \/ UNCHANGED checkpoint
<1> USE DEF serviceVars
<1>1. ASSUME NEW c \in Clients
      PROVE  /\ \A d \in AssetDays : BeginCreate(c, d) => UNCHANGED checkpoint
             /\ \A r \in Runs : \A op : BeginControl(c, op, r) => UNCHANGED checkpoint
             /\ HandlerStep(c) \/ EnqueueFails(c) \/ HandlerLost(c)
                  => UNCHANGED checkpoint
  BY DEF BeginCreate, BeginControl, HandlerStep, InsertRun, ReuseDailyRun,
         WriteControl, EnqueueTask, EnqueueFails, HandlerLost
<1>2. ASSUME NEW w \in Workers
      PROVE  /\ \A r \in Runs : \A kind : StartTask(w, r, kind) => UNCHANGED checkpoint
             /\ WorkerLost(w) => UNCHANGED checkpoint
             /\ WorkerStep(w) => \/ Clears(w) /\ ClearCheckpoint(worker[w].run)
                                 \/ UNCHANGED checkpoint
  <2>1. (\/ CancelRow(w)   \/ BuildEvidence(w) \/ EvidenceUnavailable(w)
         \/ MarkRunning(w) \/ PostRejected(w)  \/ FailRun(w)
         \/ Acknowledge(w))
           => UNCHANGED checkpoint
    BY DEF CancelRow, BuildEvidence, EvidenceUnavailable, MarkRunning,
           PostRejected, FailRun, Acknowledge
  <2>2. EndpointAccepts(w) => \/ Posting(w, {"clear"}) /\ ClearCheckpoint(worker[w].run)
                              \/ UNCHANGED checkpoint
    BY DEF EndpointAccepts, Submit, AlreadyRunning, RequestCancel
  <2>3. PostAccepted(w) \/ PostUnavailable(w) => worker'[w].pc # "post"
    <3>1. worker \in [Workers -> WorkerRecord]
      BY DEF TypeInv, CeleryTypeOK
    <3>2. QED
      BY <3>1 DEF PostAccepted, PostUnavailable, Surrender, WorkerAt, WorkerRecord
  <2>4. PostAccepted(w) \/ PostUnavailable(w)
          => \/ Clears(w) /\ ClearCheckpoint(worker[w].run)
             \/ UNCHANGED checkpoint
    BY <2>2, <2>3 DEF PostAccepted, PostUnavailable, Clears, ClearCheckpoint
  <2>5. QED
    BY <2>1, <2>4 DEF StartTask, WorkerLost, WorkerStep
<1>3. ASSUME NEW e \in Executions
      PROVE  /\ MainThread(e) => GraphChunk(e) \/ GraphEnd(e) \/ UNCHANGED checkpoint
             /\ HeartbeatThread(e) \/ CallbackTimeout(e) => UNCHANGED checkpoint
  BY DEF MainThread, HeartbeatThread, CallbackTimeout, PublishRunning, EnterGraph,
         SaveNativeReport, PublishArtifact, RunFails, PublishTerminal, Finish,
         Heartbeat, NoAnswer, PublishAndGoto
<1>4. ASSUME NEW c \in callbacks
      PROVE  HandleCallback(c) \/ CallbackLost(c) => UNCHANGED checkpoint
  BY DEF HandleCallback, CallbackLost, CallbackAppend, CallbackApply, LoseCallback
<1>5. Poll \/ Restart \/ (\E r \in Runs : Silence(r)) \/ UNCHANGED vars
        => UNCHANGED checkpoint
  BY DEF Poll, Restart, ServiceRestart, Silence, vars
<1>6. QED
  BY <1>1, <1>2, <1>3, <1>4, <1>5 DEF Next

\* A living thread loses its checkpoint at the end of its own stream only, for
\* the endpoint refuses a registered run, or to another run that shares it: of
\* two runs of one instrument, day and graph neither knows of the other.
THEOREM CheckpointIsTheThreads == Spec => CheckpointOutlivesItsGraph
<1> DEFINE Taken(e) == \/ StreamEnds(e)
                       \/ \E x \in Executions :
                            /\ StreamEnds(x)
                            /\ SharesCheckpoint(execution[x].run, execution[e].run)
                       \/ \E w \in Workers :
                            /\ Clears(w)
                            /\ SharesCheckpoint(worker[w].run, execution[e].run)
           Kept == \A e \in Executions :
                     LET r == execution[e].run
                     IN  Live(e) /\ CheckpointOf(r) \in checkpoint \ checkpoint'
                           => \/ StreamEnds(e)
                              \/ \E x \in Executions :
                                   StreamEnds(x) /\ SharesCheckpoint(execution[x].run, r)
                              \/ \E w \in Workers :
                                   Clears(w) /\ SharesCheckpoint(worker[w].run, r)
<1>1. ASSUME TypeInv, ThreadsAreRegistered, [Next]_vars
      PROVE  Kept
  <2> SUFFICES ASSUME NEW e \in Executions, Live(e),
                      CheckpointOf(execution[e].run) \in checkpoint \ checkpoint'
               PROVE  Taken(e)
    OBVIOUS
  <2>1. activeRuns[execution[e].run] = e /\ e # None
    BY <1>1, NoneAssumption DEF ThreadsAreRegistered
  <2>2. ASSUME NEW x \in Executions, GraphEnd(x)
        PROVE  Taken(e)
    <3>1. execution \in [Executions -> ExecutionRecord]
      BY <1>1 DEF TypeInv, ServiceInv, ServiceTypeOK
    <3>2. StreamEnds(x) /\ Live(x)
      BY <2>2, <3>1 DEF GraphEnd, Goto, StreamEnds, Live, ExecutionRecord
    <3>3. CheckpointOf(execution[x].run) = CheckpointOf(execution[e].run)
      BY <2>2 DEF GraphEnd
    <3>4. execution[x].run = execution[e].run => x = e
      BY <1>1, <2>1, <3>2 DEF ThreadsAreRegistered
    <3>5. QED
      BY <3>2, <3>3, <3>4 DEF SharesCheckpoint
  <2>3. ASSUME NEW w \in Workers, Clears(w), ClearCheckpoint(worker[w].run)
        PROVE  Taken(e)
    <3>1. CheckpointOf(worker[w].run) = CheckpointOf(execution[e].run)
      BY <2>3 DEF ClearCheckpoint
    <3>2. worker[w].run # execution[e].run
      BY <2>1, <2>3 DEF ClearCheckpoint
    <3>3. QED
      BY <2>3, <3>1, <3>2 DEF SharesCheckpoint
  <2>4. ~(\E x \in Executions : GraphChunk(x)) /\ ~UNCHANGED checkpoint
    BY DEF GraphChunk
  <2>5. QED
    BY <1>1, <2>2, <2>3, <2>4, OnlyGraphsAndTasksTouchCheckpoints
<1>2. TypeInv /\ ThreadsAreRegistered /\ [Next]_vars => [Kept]_vars
  BY <1>1
<1>3. QED
  BY <1>2, SpecTypeInv, SpecRegistry, PTL DEF Spec, CheckpointOutlivesItsGraph

-----------------------------------------------------------------------------
(* A published run has its report.                                          *)

Publications == {"artifact", "succeeded"}

\* Whoever announces a report, or has yet to, comes after its writing: the
\* thread, the callback it waits for, and every copy of it still under way.
ReportsAreWritten ==
    /\ \A e \in Executions : execution[e].pc \in {"artifact", "succeed"}
                               => report[execution[e].run] # None
    /\ \A e \in Executions : sending[e].kind \in Publications
                               => report[execution[e].run] # None
    /\ \A c \in callbacks  : c.kind \in Publications => report[c.run] # None

ReportInv == ReportsAreWritten /\ PublishedRunsHaveReport

\* No step takes a report from the volume.
LEMMA ReportsStay ==
    ASSUME TypeInv, ServiceStep
    PROVE  \A r \in Runs : report[r] # None => report'[r] # None
<1>1. /\ report \in [Runs -> Executions \cup {None}]
      /\ None \notin Executions
  BY NoneAssumption DEF TypeInv, ServiceInv, ServiceTypeOK
<1>2. \A e \in Executions : SaveNativeReport(e) =>
        \A r \in Runs : report[r] # None => report'[r] # None
  BY <1>1 DEF SaveNativeReport
<1>3. (\E e \in Executions : SaveNativeReport(e)) \/ UNCHANGED report
  BY DEF ServiceStep, TimelyStep, AnsweredStep, Submit, RequestCancel, ClearCheckpoint, PublishRunning,
         EnterGraph, GraphChunk, GraphEnd, PublishArtifact, RunFails,
         PublishTerminal, Finish, Heartbeat, NoAnswer, PublishAndGoto,
         CallbackAppend, CallbackApply, LoseCallback, ServiceRestart, serviceVars
<1>4. QED
  BY <1>2, <1>3

\* A thread that publishes announces a report only from "artifact" or
\* "succeed"; the same holds of the second attempt of a POST.
LEMMA PostKeepsReports ==
    ASSUME TypeInv, ReportsAreWritten, NEW e \in Executions,
           NEW kind \in CallbackKinds, NEW n \in Nat, NEW a \in {1, 2},
           Post(e, kind, n, a), UNCHANGED report,
           kind \in Publications => report[execution[e].run] # None,
           \A x \in Executions :
             /\ execution'[x].run = execution[x].run
             /\ execution'[x].pc \in {"artifact", "succeed"}
                  => execution[x].pc \in {"artifact", "succeed"}
    PROVE  ReportsAreWritten'
<1> DEFINE new == [run |-> execution[e].run, from |-> e, kind |-> kind,
                   sequence |-> n, attempt |-> a, stage |-> "append"]
           sent == [kind |-> kind, sequence |-> n, attempt |-> a]
<1>1. /\ callbacks' = callbacks \cup {new}
      /\ sending' = [sending EXCEPT ![e] = sent]
  BY DEF Post
<1>2. new.run = execution[e].run /\ new.kind = kind /\ sent.kind = kind
  OBVIOUS
<1> HIDE DEF new, sent
<1>3. DOMAIN sending = Executions
  BY DEF TypeInv, ServiceInv, ServiceTypeOK
<1>4. QED
  BY <1>1, <1>2, <1>3 DEF ReportsAreWritten

\* Through every step of the service, what is announced has been written.
LEMMA ServiceStepKeepsReports ==
    ASSUME TypeInv, ReportsAreWritten, ServiceStep
    PROVE  ReportsAreWritten'
<1> USE DEF ReportsAreWritten
<1>1. /\ execution \in [Executions -> ExecutionRecord]
      /\ DOMAIN sending = Executions
      /\ report \in [Runs -> Executions \cup {None}]
      /\ None \notin Executions
      /\ \A e \in Executions : sending[e] # Idle => execution[e].pc # "free"
      /\ \A e \in Executions : execution[e].pc # "free" => execution[e].run \in Runs
      /\ \A c \in callbacks : c.run \in Runs
  BY NoneAssumption DEF TypeInv, ServiceInv, ServiceTypeOK, ServiceShape, Callback
<1>2. ASSUME UNCHANGED <<sending, callbacks, report>>, \A e \in Executions :
               /\ execution'[e].run = execution[e].run
               /\ execution'[e].pc \in {"artifact", "succeed"}
                    => execution[e].pc \in {"artifact", "succeed"}
      PROVE  ReportsAreWritten'
  BY <1>2
<1>3. ASSUME NEW e \in Executions, NEW pc, pc \notin {"artifact", "succeed"},
             Goto(e, pc), UNCHANGED <<sending, callbacks, report>>
      PROVE  ReportsAreWritten'
  BY <1>1, <1>2, <1>3 DEF Goto, ExecutionRecord
<1>4. ASSUME NEW e \in Executions, NEW kind \in CallbackKinds, Publish(e, kind),
             UNCHANGED report, execution[e].pc # "free",
             kind \in Publications => execution[e].pc \in {"artifact", "succeed"},
             \A x \in Executions :
               /\ execution'[x].run = execution[x].run
               /\ execution'[x].pc \in {"artifact", "succeed"}
                    => execution[x].pc \in {"artifact", "succeed"}
      PROVE  ReportsAreWritten'
  <2>1. Post(e, kind, execution[e].sequence + 1, 1)
    BY <1>4 DEF Publish
  <2>2. execution[e].sequence + 1 \in Nat
    BY <1>1 DEF ExecutionRecord
  <2>3. QED
    BY <1>4, <2>1, <2>2, PostKeepsReports
<1>5. ASSUME NEW e \in Executions, NEW kind \in CallbackKinds, NEW pc,
             PublishAndGoto(e, kind, pc), execution[e].pc # "free",
             kind \in Publications => execution[e].pc \in {"artifact", "succeed"},
             pc \in {"artifact", "succeed"}
               => execution[e].pc \in {"artifact", "succeed"}
      PROVE  ReportsAreWritten'
  <2>1. \A x \in Executions :
          /\ execution'[x].run = execution[x].run
          /\ execution'[x].pc \in {"artifact", "succeed"}
               => execution[x].pc \in {"artifact", "succeed"}
    BY <1>1, <1>5 DEF PublishAndGoto, ExecutionRecord
  <2>2. QED
    BY <1>4, <1>5, <2>1 DEF PublishAndGoto
<1>6. ASSUME NEW r \in Runs, NEW n \in Nat, NEW s \in Snapshots \cup {None},
             Submit(r, n, s)
      PROVE  ReportsAreWritten'
  <2>1. PICK e \in Executions :
          /\ execution[e].pc = "free"
          /\ execution' = [execution EXCEPT ![e] =
                [pc |-> "start", run |-> r, sequence |-> n,
                 cancelled |-> FALSE, evidence |-> s,
                 chunks |-> 0, heartbeats |-> 0]]
    BY <1>6 DEF Submit
  <2>2. sending[e].kind = "none"
    BY <1>1, <2>1 DEF Idle
  <2>3. UNCHANGED <<sending, callbacks, report>>
    BY <1>6 DEF Submit
  <2>4. /\ execution'[e].pc = "start"
        /\ \A x \in Executions \ {e} : execution'[x] = execution[x]
    BY <1>1, <2>1
  <2>5. QED
    BY <2>2, <2>3, <2>4 DEF Publications
<1>7. ASSUME NEW r \in Runs, RequestCancel(r)
      PROVE  ReportsAreWritten'
  <2>1. \A e \in Executions : /\ execution'[e].pc = execution[e].pc
                              /\ execution'[e].run = execution[e].run
    <3>1. execution' = execution \/ \E x \in Executions :
            execution' = [execution EXCEPT ![x].cancelled = TRUE]
      BY <1>7 DEF RequestCancel, TypeInv, ServiceInv, ServiceTypeOK
    <3>2. QED
      BY <1>1, <3>1 DEF ExecutionRecord
  <2>2. QED
    BY <1>2, <1>7, <2>1 DEF RequestCancel
<1>8. ASSUME NEW e \in Executions,
             PublishRunning(e) \/ PublishArtifact(e) \/ PublishTerminal(e)
      PROVE  ReportsAreWritten'
  BY <1>5, <1>8 DEF PublishRunning, PublishArtifact, PublishTerminal, Publications,
                    CallbackKinds, TerminalKinds, Terminal
<1>9. ASSUME NEW e \in Executions,
             EnterGraph(e) \/ GraphEnd(e) \/ RunFails(e) \/ Finish(e)
      PROVE  ReportsAreWritten'
  BY <1>3, <1>9 DEF EnterGraph, GraphEnd, RunFails, Finish
<1>10. ASSUME NEW e \in Executions, GraphChunk(e)
       PROVE  ReportsAreWritten'
  <2>1. CASE execution[e].cancelled
    BY <1>3, <1>10, <2>1 DEF GraphChunk
  <2>2. CASE ~execution[e].cancelled
    <3>1. \A x \in Executions :
            /\ execution'[x].run = execution[x].run
            /\ execution'[x].pc = execution[x].pc
      BY <1>1, <1>10, <2>2 DEF GraphChunk, ExecutionRecord
    <3>2. Publish(e, "chunk") /\ UNCHANGED report /\ execution[e].pc = "graph"
      BY <1>10, <2>2 DEF GraphChunk
    <3>3. QED
      BY <1>4, <3>1, <3>2 DEF CallbackKinds, ProgressKinds, Publications
  <2>3. QED
    BY <2>1, <2>2
<1>11. ASSUME NEW e \in Executions, Heartbeat(e)
       PROVE  ReportsAreWritten'
  <2>1. \A x \in Executions :
          /\ execution'[x].run = execution[x].run
          /\ execution'[x].pc = execution[x].pc
    BY <1>1, <1>11 DEF Heartbeat, ExecutionRecord
  <2>2. QED
    BY <1>4, <1>11, <2>1
    DEF Heartbeat, Live, CallbackKinds, ProgressKinds, Publications
<1>12. ASSUME NEW e \in Executions, SaveNativeReport(e)
       PROVE  ReportsAreWritten'
  <2>1. \A x \in Executions :
          /\ execution'[x].run = execution[x].run
          /\ x # e => execution'[x].pc = execution[x].pc
    BY <1>1, <1>12 DEF SaveNativeReport, Goto, ExecutionRecord
  <2>2. /\ report'[execution[e].run] = e
        /\ \A r \in Runs : report[r] # None => report'[r] # None
    BY <1>1, <1>12 DEF SaveNativeReport
  <2>3. \A x \in Executions : sending[x].kind \in Publications
                                => execution[x].run \in Runs
    BY <1>1 DEF Idle, Publications
  <2>4. \A x \in Executions : execution[x].pc \in {"artifact", "succeed"}
                                => execution[x].run \in Runs
    BY <1>1
  <2>5. UNCHANGED <<sending, callbacks>>
    BY <1>12 DEF SaveNativeReport
  <2>6. QED
    BY <1>1, <2>1, <2>2, <2>3, <2>4, <2>5
<1>13. ASSUME NEW e \in Executions, NoAnswer(e)
       PROVE  ReportsAreWritten'
  <2>1. sending[e] \in [kind: CallbackKinds, sequence: Nat, attempt: {1, 2}]
    BY <1>13 DEF NoAnswer, TypeInv, ServiceInv, ServiceTypeOK
  <2>2. UNCHANGED <<execution, report>>
    BY <1>13 DEF NoAnswer
  <2>3. CASE sending[e].attempt = 1
    <3>1. Post(e, sending[e].kind, sending[e].sequence, 2)
      BY <1>13, <2>3 DEF NoAnswer
    <3>2. QED
      BY <2>1, <2>2, <3>1, PostKeepsReports
  <2>4. CASE sending[e].attempt # 1
    BY <1>1, <1>13, <2>2, <2>4 DEF NoAnswer, Idle, Publications
  <2>5. QED
    BY <2>3, <2>4
<1>14. ASSUME NEW c \in callbacks,
              CallbackAppend(c) \/ CallbackApply(c) \/ LoseCallback(c)
       PROVE  ReportsAreWritten'
  <2>1. UNCHANGED <<execution, report>>
    BY <1>14 DEF CallbackAppend, CallbackApply, LoseCallback
  <2>2. sending' = sending \/ \E x \in Executions : sending' = [sending EXCEPT ![x] = Idle]
    BY <1>14 DEF CallbackAppend, CallbackApply, LoseCallback, Answer, TypeInv,
                 ServiceInv, ServiceTypeOK, Callback
  <2>3. \A x \in Executions : sending'[x].kind \in Publications
                                => sending[x].kind \in Publications
    BY <1>1, <2>2 DEF Idle, Publications
  <2>4. \A d \in callbacks' : \E b \in callbacks : d.kind = b.kind /\ d.run = b.run
    <3>1. callbacks' = callbacks \ {c}
            \/ callbacks' = (callbacks \ {c}) \cup {[c EXCEPT !.stage = "apply"]}
      BY <1>14 DEF CallbackAppend, CallbackApply, LoseCallback, Answer
    <3>2. c \in Callback
      BY DEF TypeInv, ServiceInv, ServiceTypeOK
    <3>3. /\ [c EXCEPT !.stage = "apply"].kind = c.kind
          /\ [c EXCEPT !.stage = "apply"].run = c.run
      BY <3>2 DEF Callback
    <3>4. QED
      BY <3>1, <3>3
  <2>5. QED
    BY <2>1, <2>3, <2>4
<1>15. ASSUME ServiceRestart
       PROVE  ReportsAreWritten'
  <2>1. \A x \in Executions : execution'[x].pc \notin {"artifact", "succeed"}
    BY <1>1, <1>15 DEF ServiceRestart, Live, ExecutionRecord
  <2>2. QED
    BY <1>15, <2>1 DEF ServiceRestart, Idle, Publications
<1>16. (\E r \in Runs : ClearCheckpoint(r)) \/ UNCHANGED serviceVars
         => ReportsAreWritten'
  BY DEF ClearCheckpoint, serviceVars
<1>17. QED
  BY <1>6, <1>7, <1>8, <1>9, <1>10, <1>11, <1>12, <1>13, <1>14, <1>15, <1>16
  DEF ServiceStep, TimelyStep, AnsweredStep

\* A run is published only by a callback that announces a written report.
LEMMA OnlyCallbacksPublish ==
    ASSUME TypeInv, [Next]_vars
    PROVE  \/ PublishesNothing
           \/ \E c \in callbacks :
                /\ CallbackApply(c)
                /\ c.kind \in Publications
<1> USE OtherTransactionsPublishNothing DEF TypeInv
<1>1. ASSUME NEW c \in Clients
      PROVE  /\ \A d \in AssetDays : BeginCreate(c, d) => PublishesNothing
             /\ \A r \in Runs : \A op : BeginControl(c, op, r) => PublishesNothing
             /\ EnqueueFails(c) \/ HandlerLost(c) => PublishesNothing
             /\ HandlerStep(c) => PublishesNothing
  <2>1. /\ \A d \in AssetDays : BeginCreate(c, d) => PublishesNothing
        /\ \A r \in Runs : \A op : BeginControl(c, op, r) => PublishesNothing
    BY DEF BeginCreate, BeginControl, Call
  <2>2. InsertRun(c) \/ ReuseDailyRun(c) \/ EnqueueTask(c) => PublishesNothing
    BY DEF InsertRun, ReuseDailyRun, EnqueueTask
  <2>3. WriteControl(c) \/ EnqueueFails(c) \/ HandlerLost(c) => PublishesNothing
    BY DEF WriteControl, EnqueueFails, HandlerLost
  <2>4. QED
    BY <2>1, <2>2, <2>3 DEF HandlerStep
<1>2. ASSUME NEW w \in Workers
      PROVE  /\ \A r \in Runs, kind \in TaskKinds : StartTask(w, r, kind) => PublishesNothing
             /\ WorkerLost(w) => PublishesNothing
             /\ WorkerStep(w) => PublishesNothing
  <2>1. CancelRow(w) \/ MarkRunning(w) \/ FailRun(w) => PublishesNothing
    BY DEF CancelRow, MarkRunning, FailRun
  <2>2. BuildEvidence(w) => PublishesNothing
    BY DEF BuildEvidence
  <2>3. EvidenceUnavailable(w) \/ PostAccepted(w) \/ PostRejected(w)
          \/ PostUnavailable(w) \/ Acknowledge(w) => PublishesNothing
    BY DEF EvidenceUnavailable, PostAccepted, PostRejected, PostUnavailable,
           Acknowledge
  <2>4. QED
    BY <2>1, <2>2, <2>3 DEF StartTask, WorkerLost, WorkerStep
<1>3. ASSUME NEW e \in Executions
      PROVE  MainThread(e) \/ HeartbeatThread(e) \/ CallbackTimeout(e) => PublishesNothing
  BY DEF MainThread, HeartbeatThread, CallbackTimeout
<1>4. ASSUME NEW c \in callbacks, HandleCallback(c) \/ CallbackLost(c),
             ~(CallbackApply(c) /\ c.kind \in Publications)
      PROVE  PublishesNothing
  <2>1. CallbackAppend(c) => PublishesNothing
    BY DEF CallbackAppend
  <2>2. CallbackApply(c) => PublishesNothing
    BY <1>4 DEF CallbackApply, Publications
  <2>3. QED
    BY <1>4, <2>1, <2>2 DEF HandleCallback, CallbackLost
<1>5. Poll \/ Restart \/ (\E r \in Runs : Silence(r)) \/ UNCHANGED vars
        => PublishesNothing
  BY DEF Poll, Restart, Silence, vars
<1>6. QED
  BY <1>1, <1>2, <1>3, <1>4, <1>5 DEF Next, HandleCallback

\* A step that publishes a run finds its report on the volume.
LEMMA NextKeepsPublished ==
    ASSUME TypeInv, ReportInv, [Next]_vars
    PROVE  PublishedRunsHaveReport'
<1> SUFFICES ASSUME NEW r \in Runs, status'[r] = "succeeded" \/ artifact'[r] # None
             PROVE  report'[r] # None
  BY DEF PublishedRunsHaveReport
<1> USE DEF ReportInv
<1>1. report[r] # None => report'[r] # None
  BY NextIsServiceStep, ReportsStay
<1>2. CASE PublishesNothing
  BY <1>1, <1>2 DEF PublishesNothing, PublishedRunsHaveReport
<1>3. ASSUME NEW c \in callbacks, CallbackApply(c), c.kind \in Publications
      PROVE  report'[r] # None
  <2>1. CASE c.run = r
    BY <1>1, <1>3, <2>1 DEF ReportsAreWritten
  <2>2. CASE c.run # r
    <3>1. status'[r] = status[r] /\ artifact'[r] = artifact[r]
      BY <1>3, <2>2 DEF CallbackApply, StoreArtifact, TransitionRun, TypeInv,
                        RepositoryTypeOK
    <3>2. QED
      BY <1>1, <3>1 DEF PublishedRunsHaveReport
  <2>3. QED
    BY <2>1, <2>2
<1>4. QED
  BY <1>2, <1>3, OnlyCallbacksPublish

\* Nothing is published that was not written: delayed, repeated or stray
\* callbacks, resumes and restarts notwithstanding.
THEOREM PublishedRunsAreWritten == Spec => []PublishedRunsHaveReport
<1>1. Init => ReportInv
  BY DEF Init, RepositoryInit, ServiceInit, ReportInv, ReportsAreWritten,
         PublishedRunsHaveReport, Publications, Idle
<1>2. TypeInv /\ ReportInv /\ [Next]_vars => ReportInv'
  BY NextIsServiceStep, ServiceStepKeepsReports, NextKeepsPublished DEF ReportInv
<1>3. Spec => []ReportInv
  BY <1>1, <1>2, SpecTypeInv, PTL DEF Spec
<1>4. QED
  BY <1>3, PTL DEF ReportInv

-----------------------------------------------------------------------------
(* The graph reasons over the evidence stored with its run.  The argument   *)
(* follows a snapshot from the row to the task that read or stored it and   *)
(* from there to the thread that the task submits; the row keeps what it    *)
(* has because store_evidence refuses any other snapshot.                   *)

\* Requests past their check, tasks and threads are of runs that have a row.
RunsHaveRows ==
    /\ \A c \in Clients :
         (\/ handler[c].pc = "enqueue"
          \/ handler[c].pc = "write" /\ handler[c].op # "create")
           => handler[c].run \in Runs /\ Exists(handler[c].run)
    /\ \A r \in Runs, kind \in TaskKinds : queue[r][kind] > 0 => Exists(r)
    /\ \A w \in Workers : worker[w].pc # "idle" => Exists(worker[w].run)
    /\ \A e \in Executions : Live(e) => Exists(execution[e].run)

\* Only VNStock runs have a snapshot, and no run has one before its INSERT.
EvidenceIsOfVietnam ==
    \A r \in Runs : evidence[r] # None => Exists(r) /\ IsVietnam(r)

\* A task carries the stored snapshot or none, and posts a VNStock run with it.
TaskEvidence(w) ==
    LET r == worker[w].run
    IN  worker[w].pc # "idle" =>
          /\ worker[w].evidence # None => worker[w].evidence = evidence[r]
          /\ worker[w].pc = "evidence" => IsVietnam(r)
          /\ worker[w].pc \in {"mark", "post"} /\ IsVietnam(r)
               => worker[w].evidence # None

EvidenceInv == /\ RunsHaveRows
               /\ EvidenceIsOfVietnam
               /\ \A w \in Workers : TaskEvidence(w)
               /\ ExecutesStoredEvidence

-----------------------------------------------------------------------------
(* What the steps do to rows and threads.                                   *)

\* Rows that exist stay, of the same day.
RowsStay == \A r \in Runs : Exists(r) => Exists(r)' /\ day'[r] = day[r]

\* No step deletes a run or moves it to another day.
LEMMA NextKeepsRows ==
    ASSUME TypeInv, [Next]_vars
    PROVE  RowsStay
<1>1. KeepsRuns => RowsStay
  BY DEF KeepsRuns, RowsStay
<1>2. ASSUME NEW r \in Runs, NEW d \in AssetDays, CreateRun(r, d)
      PROVE  RowsStay
  BY <1>2 DEF CreateRun, RowsStay, Exists, TypeInv, RepositoryTypeOK
<1>3. QED
  BY <1>1, <1>2, OnlyInsertRunInserts

\* Evidence is written by the task that has built it and by nobody else.
LEMMA OnlyTasksStoreEvidence ==
    ASSUME [Next]_vars
    PROVE  \/ UNCHANGED evidence
           \/ \E w \in Workers : BuildEvidence(w)
<1>1. ASSUME NEW c \in Clients
      PROVE  /\ \A d \in AssetDays : BeginCreate(c, d) => UNCHANGED evidence
             /\ \A r \in Runs : \A op : BeginControl(c, op, r) => UNCHANGED evidence
             /\ EnqueueFails(c) \/ HandlerLost(c) \/ HandlerStep(c) => UNCHANGED evidence
  BY DEF BeginCreate, BeginControl, Call, EnqueueFails, HandlerLost, HandlerStep,
         InsertRun, ReuseDailyRun, WriteControl, EnqueueTask, CreateRun,
         TransitionRun, ExpireStaleRunningRuns, repositoryVars
<1>2. ASSUME NEW w \in Workers
      PROVE  /\ \A r \in Runs : \A kind : StartTask(w, r, kind) => UNCHANGED evidence
             /\ WorkerLost(w) => UNCHANGED evidence
             /\ WorkerStep(w) /\ ~BuildEvidence(w) => UNCHANGED evidence
  BY DEF StartTask, WorkerLost, WorkerStep, CancelRow, EvidenceUnavailable,
         MarkRunning, PostAccepted, PostRejected, PostUnavailable, FailRun,
         Acknowledge, TransitionRun, repositoryVars
<1>3. ASSUME NEW e \in Executions
      PROVE  MainThread(e) \/ HeartbeatThread(e) \/ CallbackTimeout(e) => UNCHANGED evidence
  BY DEF MainThread, HeartbeatThread, CallbackTimeout, repositoryVars
<1>4. ASSUME NEW c \in callbacks
      PROVE  HandleCallback(c) \/ CallbackLost(c) => UNCHANGED evidence
  BY DEF HandleCallback, CallbackLost, CallbackAppend, CallbackApply, AppendEvent,
         StoreArtifact, TransitionRun, repositoryVars
<1>5. Poll \/ Restart \/ (\E r \in Runs : Silence(r)) \/ UNCHANGED vars
        => UNCHANGED evidence
  BY DEF Poll, Restart, Silence, ExpireStaleRunningRuns, FallSilent, repositoryVars, vars
<1>6. QED
  BY <1>1, <1>2, <1>3, <1>4, <1>5 DEF Next

\* A thread that lives after a step lived before it, with the same input.
ThreadsKeepInput ==
    \A e \in Executions : Live(e)' =>
        /\ Live(e)
        /\ execution'[e].run = execution[e].run
        /\ execution'[e].evidence = execution[e].evidence

\* No step of the service but the start of a thread gives one its input.
LEMMA OnlySubmitStartsThreads ==
    ASSUME TypeInv
    PROVE  /\ \A r \in Runs : RequestCancel(r) => ThreadsKeepInput
           /\ \A r \in Runs : ClearCheckpoint(r) => ThreadsKeepInput
           /\ \A e \in Executions : MainThread(e) => ThreadsKeepInput
           /\ \A e \in Executions : Heartbeat(e) => ThreadsKeepInput
           /\ \A e \in Executions : NoAnswer(e) => ThreadsKeepInput
           /\ \A c \in callbacks :
                CallbackAppend(c) \/ CallbackApply(c) \/ LoseCallback(c) => ThreadsKeepInput
           /\ ServiceRestart => ThreadsKeepInput
           /\ UNCHANGED serviceVars => ThreadsKeepInput
<1> USE DEF ThreadsKeepInput, Live
<1>1. /\ execution \in [Executions -> ExecutionRecord]
      /\ activeRuns \in [Runs -> Executions \cup {None}]
  BY DEF TypeInv, ServiceInv, ServiceTypeOK
<1>2. execution' = execution => ThreadsKeepInput
  OBVIOUS
<1>3. ASSUME NEW e \in Executions, NEW pc, Live(e), Goto(e, pc)
      PROVE  ThreadsKeepInput
  BY <1>1, <1>3 DEF Goto, ExecutionRecord
<1>4. ASSUME NEW e \in Executions, NEW kind, NEW pc, Live(e), PublishAndGoto(e, kind, pc)
      PROVE  ThreadsKeepInput
  BY <1>1, <1>4 DEF PublishAndGoto, ExecutionRecord
<1>5. ASSUME NEW r \in Runs, RequestCancel(r)
      PROVE  ThreadsKeepInput
  <2>1. CASE activeRuns[r] = None
    BY <1>5, <2>1 DEF RequestCancel
  <2>2. CASE activeRuns[r] # None
    <3>1. activeRuns[r] \in Executions
      BY <1>1, <2>2
    <3>2. QED
      BY <1>1, <1>5, <2>2, <3>1 DEF RequestCancel, ExecutionRecord
  <2>3. QED
    BY <2>1, <2>2
<1>6. ASSUME NEW e \in Executions, MainThread(e)
      PROVE  ThreadsKeepInput
  <2>1. PublishRunning(e) \/ PublishArtifact(e) \/ PublishTerminal(e) => ThreadsKeepInput
    BY <1>4 DEF PublishRunning, PublishArtifact, PublishTerminal
  <2>2. EnterGraph(e) \/ GraphEnd(e) \/ SaveNativeReport(e) \/ RunFails(e) \/ Finish(e)
          => ThreadsKeepInput
    BY <1>3 DEF EnterGraph, GraphEnd, SaveNativeReport, RunFails, Finish
  <2>3. ASSUME GraphChunk(e)
        PROVE  ThreadsKeepInput
    <3>1. CASE execution[e].cancelled
      BY <1>3, <2>3, <3>1 DEF GraphChunk
    <3>2. CASE ~execution[e].cancelled
      BY <1>1, <2>3, <3>2 DEF GraphChunk, ExecutionRecord
    <3>3. QED
      BY <3>1, <3>2
  <2>4. QED
    BY <1>6, <2>1, <2>2, <2>3 DEF MainThread
<1>7. ASSUME NEW e \in Executions, Heartbeat(e)
      PROVE  ThreadsKeepInput
  BY <1>1, <1>7 DEF Heartbeat, ExecutionRecord
<1>8. ASSUME ServiceRestart
      PROVE  ThreadsKeepInput
  <2> SUFFICES ASSUME NEW e \in Executions
               PROVE  ~Live(e)'
    OBVIOUS
  <2>1. execution[e] \in ExecutionRecord
    BY <1>1
  <2>2. QED
    BY <1>8, <2>1 DEF ServiceRestart, ExecutionRecord
<1>9. QED
  BY <1>2, <1>5, <1>6, <1>7, <1>8
  DEF ClearCheckpoint, NoAnswer, CallbackAppend, CallbackApply, LoseCallback, serviceVars

\* A thread starts with the run and the evidence of a task that posts it.
LEMMA TasksStartThreads ==
    ASSUME TypeInv, [Next]_vars
    PROVE  \/ ThreadsKeepInput
           \/ \E w \in Workers :
                /\ worker[w].pc = "post"
                /\ UNCHANGED repositoryVars
                /\ Submit(worker[w].run, worker[w].sequence, worker[w].evidence)
<1> USE OnlySubmitStartsThreads
<1>1. ASSUME NEW c \in Clients
      PROVE  /\ \A d \in AssetDays : BeginCreate(c, d) => UNCHANGED serviceVars
             /\ \A r \in Runs : \A op : BeginControl(c, op, r) => UNCHANGED serviceVars
             /\ HandlerStep(c) \/ EnqueueFails(c) \/ HandlerLost(c)
                  => UNCHANGED serviceVars
  BY DEF BeginCreate, BeginControl, HandlerStep, InsertRun, ReuseDailyRun,
         WriteControl, EnqueueTask, EnqueueFails, HandlerLost
<1>2. ASSUME NEW w \in Workers
      PROVE  /\ \A r \in Runs : \A kind : StartTask(w, r, kind) => UNCHANGED serviceVars
             /\ WorkerLost(w) => UNCHANGED serviceVars
             /\ WorkerStep(w) =>
                  \/ ThreadsKeepInput
                  \/ /\ worker[w].pc = "post"
                     /\ UNCHANGED repositoryVars
                     /\ Submit(worker[w].run, worker[w].sequence, worker[w].evidence)
  <2>1. (\/ CancelRow(w)   \/ BuildEvidence(w) \/ EvidenceUnavailable(w)
         \/ MarkRunning(w) \/ PostRejected(w)  \/ FailRun(w)
         \/ Acknowledge(w))
           => UNCHANGED serviceVars
    BY DEF CancelRow, BuildEvidence, EvidenceUnavailable, MarkRunning,
           PostRejected, FailRun, Acknowledge
  <2>2. worker[w].pc = "post" => worker[w].run \in Runs
    BY DEF TypeInv, GatewayShape
  <2>3. EndpointAccepts(w) =>
          \/ ThreadsKeepInput
          \/ /\ worker[w].pc = "post"
             /\ Submit(worker[w].run, worker[w].sequence, worker[w].evidence)
    BY <2>2 DEF EndpointAccepts, Posting, AlreadyRunning
  <2>4. QED
    BY <2>1, <2>3 DEF StartTask, WorkerLost, WorkerStep, PostAccepted, PostUnavailable
<1>3. ASSUME NEW e \in Executions
      PROVE  MainThread(e) \/ HeartbeatThread(e) \/ CallbackTimeout(e) => ThreadsKeepInput
  BY DEF HeartbeatThread, CallbackTimeout
<1>4. ASSUME NEW c \in callbacks
      PROVE  HandleCallback(c) \/ CallbackLost(c) => ThreadsKeepInput
  BY DEF HandleCallback, CallbackLost
<1>5. Poll \/ (\E r \in Runs : Silence(r)) \/ UNCHANGED vars => UNCHANGED serviceVars
  BY DEF Poll, Silence, vars
<1>6. Restart => ThreadsKeepInput
  BY DEF Restart
<1>7. QED
  BY <1>1, <1>2, <1>3, <1>4, <1>5, <1>6 DEF Next

-----------------------------------------------------------------------------
(* Requests, tasks and threads are of runs with a row.                      *)

HandlerHasRow(c) ==
    (\/ handler[c].pc = "enqueue"
     \/ handler[c].pc = "write" /\ handler[c].op # "create")
      => handler[c].run \in Runs /\ Exists(handler[c].run)

\* A request goes on with a run that it found, or that it has inserted.
LEMMA HandlersKeepRows ==
    ASSUME TypeInv, RunsHaveRows, [Next]_vars
    PROVE  \A c \in Clients : HandlerHasRow(c)'
<1>1. RowsStay /\ (\A c \in Clients : HandlerHasRow(c))
  BY NextKeepsRows DEF RunsHaveRows, HandlerHasRow
<1>2. DOMAIN handler = Clients /\ \A c \in Clients : handler[c] \in HandlerRecord
  BY DEF TypeInv, GatewayTypeOK
<1>3. \A c \in Clients : handler'[c] = handler[c] => HandlerHasRow(c)'
  BY <1>1 DEF HandlerHasRow, RowsStay
<1>4. ASSUME NEW c \in Clients, handler' = [handler EXCEPT ![c] = NoRequest]
      PROVE  \A x \in Clients : HandlerHasRow(x)'
  BY <1>2, <1>3, <1>4 DEF HandlerHasRow, NoRequest
<1>5. ASSUME NEW c \in Clients, NEW d \in AssetDays, BeginCreate(c, d)
      PROVE  \A x \in Clients : HandlerHasRow(x)'
  <2>1. CASE UNCHANGED handler
    BY <1>3, <2>1
  <2>2. CASE handler' = [handler EXCEPT ![c] =
                 [pc |-> "write", op |-> "create", run |-> None, day |-> d]]
    BY <1>2, <1>3, <2>2 DEF HandlerHasRow
  <2>3. QED
    BY <1>5, <2>1, <2>2 DEF BeginCreate
<1>6. ASSUME NEW c \in Clients, NEW r \in Runs, NEW op, BeginControl(c, op, r)
      PROVE  \A x \in Clients : HandlerHasRow(x)'
  <2>1. CASE UNCHANGED handler
    BY <1>3, <2>1
  <2>2. CASE handler' = [handler EXCEPT ![c] =
                 [pc |-> IF op = "clear" THEN "enqueue" ELSE "write",
                  op |-> op, run |-> r, day |-> None]]
    <3>1. Exists(r)'
      BY <1>1, <1>6 DEF BeginControl, RowsStay
    <3>2. QED
      BY <1>2, <1>3, <2>2, <3>1 DEF HandlerHasRow
  <2>3. QED
    BY <1>6, <2>1, <2>2 DEF BeginControl
<1>7. ASSUME NEW c \in Clients, InsertRun(c)
      PROVE  \A x \in Clients : HandlerHasRow(x)'
  <2>1. PICK r \in Runs : /\ CreateRun(r, handler[c].day)
                          /\ handler' = [handler EXCEPT ![c].pc = "enqueue",
                                                        ![c].run = r]
    BY <1>7 DEF InsertRun
  <2>2. Exists(r)'
    BY <2>1 DEF CreateRun, Exists, TypeInv, RepositoryTypeOK
  <2>3. QED
    BY <1>2, <1>3, <2>1, <2>2 DEF HandlerHasRow, HandlerRecord
<1>8. ASSUME NEW c \in Clients, WriteControl(c)
      PROVE  \A x \in Clients : HandlerHasRow(x)'
  <2>1. handler[c].run \in Runs /\ Exists(handler[c].run)'
    BY <1>1, <1>8 DEF WriteControl, HandlerHasRow, RowsStay
  <2>2. handler' = [handler EXCEPT ![c].pc = "enqueue"]
    BY <1>8 DEF WriteControl
  <2>3. handler'[c].run = handler[c].run
    BY <1>2, <2>2 DEF HandlerRecord
  <2>4. QED
    BY <1>2, <1>3, <2>1, <2>2, <2>3 DEF HandlerHasRow
<1>9. ASSUME NEW c \in Clients,
             \/ ReuseDailyRun(c) \/ EnqueueTask(c) \/ EnqueueFails(c) \/ HandlerLost(c)
      PROVE  \A x \in Clients : HandlerHasRow(x)'
  BY <1>4, <1>9 DEF ReuseDailyRun, EnqueueTask, EnqueueFails, HandlerLost
<1>10. ASSUME NEW w \in Workers
       PROVE  /\ \A r \in Runs : \A kind : StartTask(w, r, kind) => UNCHANGED handler
              /\ WorkerStep(w) \/ WorkerLost(w) => UNCHANGED handler
  BY DEF StartTask, WorkerStep, WorkerLost, CancelRow, BuildEvidence,
         EvidenceUnavailable, MarkRunning, PostAccepted, PostRejected,
         PostUnavailable, FailRun, Acknowledge, gatewayVars
<1>11. (\/ Poll \/ Restart
        \/ \E e \in Executions : MainThread(e) \/ HeartbeatThread(e) \/ CallbackTimeout(e)
        \/ \E c \in callbacks : HandleCallback(c) \/ CallbackLost(c)
        \/ \E r \in Runs : Silence(r)
        \/ UNCHANGED vars)
          => UNCHANGED handler
  BY DEF Poll, Restart, MainThread, HeartbeatThread, CallbackTimeout, HandleCallback,
         CallbackLost, Silence, gatewayVars, vars
<1>12. QED
  BY <1>3, <1>5, <1>6, <1>7, <1>8, <1>9, <1>10, <1>11 DEF Next, HandlerStep

\* Tasks are queued by requests and by lost workers, for the run they have.
LEMMA QueueKeepsRows ==
    ASSUME TypeInv, RunsHaveRows, [Next]_vars
    PROVE  \A r \in Runs, kind \in TaskKinds : queue'[r][kind] > 0 => Exists(r)'
<1>1. RowsStay
  BY NextKeepsRows
<1>2. queue \in [Runs -> [TaskKinds -> Nat]]
  BY DEF TypeInv, CeleryTypeOK
<1>3. ASSUME NEW r \in Runs, NEW kind, Exists(r), Enqueue(r, kind)
      PROVE  \A x \in Runs, k \in TaskKinds : queue'[x][k] > 0 => Exists(x)'
  BY <1>1, <1>2, <1>3 DEF Enqueue, RunsHaveRows, RowsStay
<1>4. ASSUME NEW c \in Clients, EnqueueTask(c)
      PROVE  \A x \in Runs, k \in TaskKinds : queue'[x][k] > 0 => Exists(x)'
  BY <1>3, <1>4 DEF EnqueueTask, RunsHaveRows
<1>5. ASSUME NEW w \in Workers, WorkerLost(w)
      PROVE  \A x \in Runs, k \in TaskKinds : queue'[x][k] > 0 => Exists(x)'
  BY <1>3, <1>5 DEF WorkerLost, RunsHaveRows, TypeInv, GatewayShape
<1>6. ASSUME NEW w \in Workers, NEW r \in Runs, NEW kind \in TaskKinds,
             StartTask(w, r, kind)
      PROVE  \A x \in Runs, k \in TaskKinds : queue'[x][k] > 0 => Exists(x)'
  <2>1. queue' = [queue EXCEPT ![r][kind] = @ - 1] /\ Exists(r)
    BY <1>6 DEF StartTask, RunsHaveRows
  <2>2. \A x \in Runs : x # r => queue'[x] = queue[x]
    BY <1>2, <2>1
  <2>3. QED
    BY <1>1, <2>1, <2>2 DEF RunsHaveRows, RowsStay
<1>7. UNCHANGED queue
        => \A x \in Runs, k \in TaskKinds : queue'[x][k] > 0 => Exists(x)'
  BY <1>1 DEF RunsHaveRows, RowsStay
<1>8. ASSUME NEW c \in Clients
      PROVE  /\ \A d \in AssetDays : BeginCreate(c, d) => UNCHANGED queue
             /\ \A r \in Runs : \A op : BeginControl(c, op, r) => UNCHANGED queue
             /\ EnqueueFails(c) \/ HandlerLost(c) => UNCHANGED queue
             /\ HandlerStep(c) /\ ~EnqueueTask(c) => UNCHANGED queue
  BY DEF BeginCreate, BeginControl, EnqueueFails, HandlerLost, HandlerStep, InsertRun,
         ReuseDailyRun, WriteControl, celeryVars
<1>9. \A w \in Workers : WorkerStep(w) => UNCHANGED queue
  BY DEF WorkerStep, CancelRow, BuildEvidence, EvidenceUnavailable, MarkRunning,
         PostAccepted, PostRejected, PostUnavailable, FailRun, Acknowledge
<1>10. (\/ Poll \/ Restart
        \/ \E e \in Executions : MainThread(e) \/ HeartbeatThread(e) \/ CallbackTimeout(e)
        \/ \E c \in callbacks : HandleCallback(c) \/ CallbackLost(c)
        \/ \E r \in Runs : Silence(r)
        \/ UNCHANGED vars)
          => UNCHANGED queue
  BY DEF Poll, Restart, MainThread, HeartbeatThread, CallbackTimeout, HandleCallback,
         CallbackLost, Silence, celeryVars, vars
<1>11. QED
  BY <1>4, <1>5, <1>6, <1>7, <1>8, <1>9, <1>10 DEF Next

-----------------------------------------------------------------------------
(* The snapshot of a row, of its tasks and of its thread.                   *)

\* A stored snapshot stays: the UPDATE wants NULL or the same checksum.
LEMMA StoredEvidenceStays ==
    ASSUME TypeInv, [Next]_vars
    PROVE  \A r \in Runs : evidence[r] # None => evidence'[r] = evidence[r]
<1>1. ASSUME NEW w \in Workers, BuildEvidence(w)
      PROVE  \A r \in Runs : evidence[r] # None => evidence'[r] = evidence[r]
  BY <1>1 DEF BuildEvidence, StoreEvidence, EvidenceAccepts, TypeInv, RepositoryTypeOK
<1>2. QED
  BY <1>1, OnlyTasksStoreEvidence

\* Only a task that found its run to be of VNStock builds a snapshot.
LEMMA EvidenceStaysVietnams ==
    ASSUME TypeInv, EvidenceInv, [Next]_vars
    PROVE  EvidenceIsOfVietnam'
<1>1. /\ RowsStay
      /\ \A r \in Runs : evidence[r] # None => Exists(r) /\ IsVietnam(r)
  BY NextKeepsRows DEF EvidenceInv, EvidenceIsOfVietnam
<1>2. CASE UNCHANGED evidence
  BY <1>1, <1>2 DEF EvidenceIsOfVietnam, RowsStay, IsVietnam
<1>3. ASSUME NEW w \in Workers, BuildEvidence(w)
      PROVE  EvidenceIsOfVietnam'
  <2>1. worker[w].pc = "evidence"
    BY <1>3 DEF BuildEvidence
  <2>2. Exists(worker[w].run) /\ IsVietnam(worker[w].run)
    BY <2>1 DEF EvidenceInv, RunsHaveRows, TaskEvidence
  <2>3. \A r \in Runs : r # worker[w].run => evidence'[r] = evidence[r]
    BY <1>3 DEF BuildEvidence, StoreEvidence, TypeInv, RepositoryTypeOK
  <2>4. QED
    BY <1>1, <2>2, <2>3 DEF EvidenceIsOfVietnam, RowsStay, IsVietnam
<1>4. QED
  BY <1>2, <1>3, OnlyTasksStoreEvidence

TaskInv(w) == /\ worker[w].pc # "idle" => Exists(worker[w].run)
              /\ TaskEvidence(w)

\* A task keeps to the snapshot it read, builds one where it has to, and does
\* not post a VNStock run before it has one.
LEMMA TasksKeepEvidence ==
    ASSUME TypeInv, EvidenceInv, [Next]_vars
    PROVE  \A w \in Workers : TaskInv(w)'
<1>1. /\ RowsStay
      /\ \A r \in Runs : evidence[r] # None => evidence'[r] = evidence[r]
      /\ \A w \in Workers : TaskInv(w)
  BY NextKeepsRows, StoredEvidenceStays DEF EvidenceInv, RunsHaveRows, TaskInv
<1>2. /\ \A w \in Workers : worker[w] \in WorkerRecord
      /\ DOMAIN worker = Workers
      /\ \A w \in Workers : worker[w].pc # "idle" => worker[w].run \in Runs
  BY DEF TypeInv, CeleryTypeOK, GatewayShape
<1>3. \A w \in Workers : worker'[w] = worker[w] => TaskInv(w)'
  BY <1>1, <1>2 DEF TaskInv, TaskEvidence, RowsStay, IsVietnam
<1>4. ASSUME NEW w \in Workers, worker' = [worker EXCEPT ![w] = NoTask]
      PROVE  \A x \in Workers : TaskInv(x)'
  BY <1>2, <1>3, <1>4 DEF TaskInv, TaskEvidence, NoTask
\* A step to pc that needs no more of the snapshot than the step before it.
<1>5. ASSUME NEW w \in Workers, NEW pc, WorkerAt(w, pc), worker[w].pc # "idle",
             pc = "evidence" => IsVietnam(worker[w].run),
             pc \in {"mark", "post"} /\ IsVietnam(worker[w].run)
               => worker[w].evidence # None
      PROVE  \A x \in Workers : TaskInv(x)'
  <2>1. \A x \in Workers : x # w => worker'[x] = worker[x]
    BY <1>2, <1>5 DEF WorkerAt
  <2>2. /\ worker'[w].pc = pc
        /\ worker'[w].run = worker[w].run
        /\ worker'[w].evidence = worker[w].evidence
    BY <1>2, <1>5 DEF WorkerAt, WorkerRecord
  <2>3. TaskInv(w)'
    BY <1>1, <1>2, <1>5, <2>2 DEF TaskInv, TaskEvidence, RowsStay, IsVietnam
  <2>4. QED
    BY <1>3, <2>1, <2>3
<1>6. \A kind, r, s : /\ Prepare(kind, r, s) = "evidence" => IsVietnam(r)
                      /\ Prepare(kind, r, s) \in {"mark", "post"} /\ IsVietnam(r)
                           => s # None
  BY DEF Prepare, IsVietnam
<1>7. ASSUME NEW w \in Workers, NEW r \in Runs, NEW kind \in TaskKinds,
             StartTask(w, r, kind)
      PROVE  \A x \in Workers : TaskInv(x)'
  <2> DEFINE pc == CASE kind = "run" /\ status[r] \in Terminal -> "done"
                     [] kind = "cancel" -> "cancelRow"
                     [] OTHER -> Prepare(kind, r, evidence[r])
             task == [pc |-> pc, kind |-> kind, run |-> r,
                      sequence |-> LastSequence(r), evidence |-> evidence[r]]
  <2>1. pc \in {"done", "cancelRow"} \/ pc = Prepare(kind, r, evidence[r])
    OBVIOUS
  <2> HIDE DEF pc
  <2>2. task.pc = pc /\ task.run = r /\ task.evidence = evidence[r]
    OBVIOUS
  <2>3. worker' = [worker EXCEPT ![w] = task]
    BY <1>7 DEF StartTask, pc
  <2> HIDE DEF task
  <2>4. worker'[w] = task /\ \A x \in Workers : x # w => worker'[x] = worker[x]
    BY <1>2, <2>3
  <2>5. UNCHANGED <<status, day, evidence>> /\ queue[r][kind] > 0
    BY <1>7 DEF StartTask, repositoryVars
  <2>6. Exists(r)
    BY <2>5 DEF EvidenceInv, RunsHaveRows
  <2>7. TaskInv(w)'
    BY <1>6, <2>1, <2>2, <2>4, <2>5, <2>6 DEF TaskInv, TaskEvidence, Exists, IsVietnam
  <2>8. QED
    BY <1>3, <2>4, <2>7
<1>8. ASSUME NEW w \in Workers, BuildEvidence(w)
      PROVE  \A x \in Workers : TaskInv(x)'
  <2>1. PICK s \in Snapshots :
          /\ StoreEvidence(worker[w].run, s)
          /\ worker' = [worker EXCEPT ![w].evidence = s,
                          ![w].pc = Prepare(worker[w].kind, worker[w].run, s)]
    BY <1>8 DEF BuildEvidence
  <2>2. /\ worker'[w].run = worker[w].run
        /\ worker'[w].evidence = s
        /\ worker'[w].pc = Prepare(worker[w].kind, worker[w].run, s)
        /\ \A x \in Workers : x # w => worker'[x] = worker[x]
    BY <1>2, <2>1 DEF WorkerRecord
  <2>3. worker[w].pc = "evidence"
    BY <1>8 DEF BuildEvidence
  <2>4. /\ evidence'[worker[w].run] = s
        /\ UNCHANGED <<status, day>>
        /\ s # None
    BY <1>2, <2>1, <2>3, NoneAssumption DEF StoreEvidence, TypeInv, RepositoryTypeOK
  <2>5. Exists(worker[w].run)
    BY <1>1, <2>3 DEF TaskInv
  <2>6. TaskInv(w)'
    BY <1>6, <2>2, <2>4, <2>5 DEF TaskInv, TaskEvidence, Exists, IsVietnam
  <2>7. QED
    BY <1>3, <2>2, <2>6
<1>9. ASSUME NEW w \in Workers, CancelRow(w)
      PROVE  \A x \in Workers : TaskInv(x)'
  BY <1>5, <1>6, <1>9 DEF CancelRow
<1>10. ASSUME NEW w \in Workers, MarkRunning(w)
       PROVE  \A x \in Workers : TaskInv(x)'
  BY <1>1, <1>5, <1>10 DEF MarkRunning, TaskInv, TaskEvidence
<1>11. ASSUME NEW w \in Workers, NEW pc \in {"fail", "done"}, WorkerAt(w, pc),
              worker[w].pc # "idle"
       PROVE  \A x \in Workers : TaskInv(x)'
  BY <1>5, <1>11
<1>12. ASSUME NEW w \in Workers,
              \/ EvidenceUnavailable(w) \/ PostAccepted(w) \/ PostRejected(w)
              \/ PostUnavailable(w) \/ FailRun(w)
       PROVE  \A x \in Workers : TaskInv(x)'
  BY <1>11, <1>12 DEF EvidenceUnavailable, PostAccepted, PostRejected, PostUnavailable,
                      EndpointAccepts, Posting, FailRun, Surrender
<1>13. ASSUME NEW w \in Workers, Acknowledge(w) \/ WorkerLost(w)
       PROVE  \A x \in Workers : TaskInv(x)'
  BY <1>4, <1>13 DEF Acknowledge, WorkerLost
<1>14. ASSUME NEW c \in Clients
       PROVE  /\ \A d \in AssetDays : BeginCreate(c, d) => UNCHANGED worker
              /\ \A r \in Runs : \A op : BeginControl(c, op, r) => UNCHANGED worker
              /\ EnqueueFails(c) \/ HandlerLost(c) \/ HandlerStep(c) => UNCHANGED worker
  BY DEF BeginCreate, BeginControl, EnqueueFails, HandlerLost, HandlerStep, InsertRun,
         ReuseDailyRun, WriteControl, EnqueueTask, celeryVars
<1>15. (\/ Poll \/ Restart
        \/ \E e \in Executions : MainThread(e) \/ HeartbeatThread(e) \/ CallbackTimeout(e)
        \/ \E c \in callbacks : HandleCallback(c) \/ CallbackLost(c)
        \/ \E r \in Runs : Silence(r)
        \/ UNCHANGED vars)
          => UNCHANGED worker
  BY DEF Poll, Restart, MainThread, HeartbeatThread, CallbackTimeout, HandleCallback,
         CallbackLost, Silence, celeryVars, vars
<1>16. QED
  BY <1>3, <1>7, <1>8, <1>9, <1>10, <1>12, <1>13, <1>14, <1>15 DEF Next, WorkerStep

\* What is true of a thread's row and evidence when it starts stays true.
LEMMA ThreadsKeepEvidence ==
    ASSUME TypeInv, EvidenceInv, [Next]_vars
    PROVE  \A e \in Executions : Live(e)' =>
             /\ Exists(execution[e].run)'
             /\ (execution[e].evidence = evidence[execution[e].run])'
             /\ (IsVietnam(execution[e].run) <=> evidence[execution[e].run] # None)'
<1>1. /\ RowsStay
      /\ \A r \in Runs : evidence[r] # None => evidence'[r] = evidence[r]
      /\ EvidenceIsOfVietnam'
  BY NextKeepsRows, StoredEvidenceStays, EvidenceStaysVietnams
<1>2. /\ execution \in [Executions -> ExecutionRecord]
      /\ \A e \in Executions : Live(e) => execution[e].run \in Runs
  BY DEF TypeInv, ServiceInv, ServiceTypeOK, ServiceShape, Live
<1>3. ASSUME NEW e \in Executions, NEW r \in Runs, NEW s,
             Exists(r), s = evidence[r], IsVietnam(r) <=> evidence[r] # None,
             execution'[e].run = r, execution'[e].evidence = s
      PROVE  /\ Exists(execution[e].run)'
             /\ (execution[e].evidence = evidence[execution[e].run])'
             /\ (IsVietnam(execution[e].run) <=> evidence[execution[e].run] # None)'
  <2>1. Exists(r)' /\ (IsVietnam(r)' <=> IsVietnam(r))
    BY <1>1, <1>3 DEF RowsStay, IsVietnam
  <2>2. evidence'[r] = s
    <3>1. CASE s = None
      BY <1>1, <1>3, <2>1, <3>1 DEF EvidenceIsOfVietnam
    <3>2. CASE s # None
      BY <1>1, <1>3, <3>2
    <3>3. QED
      BY <3>1, <3>2
  <2>3. QED
    BY <1>3, <2>1, <2>2 DEF Exists, IsVietnam
<1>4. ASSUME ThreadsKeepInput, NEW e \in Executions, Live(e)'
      PROVE  /\ Exists(execution[e].run)'
             /\ (execution[e].evidence = evidence[execution[e].run])'
             /\ (IsVietnam(execution[e].run) <=> evidence[execution[e].run] # None)'
  <2>1. /\ Live(e)
        /\ execution'[e].run = execution[e].run
        /\ execution'[e].evidence = execution[e].evidence
    BY <1>4 DEF ThreadsKeepInput
  <2>2. /\ execution[e].run \in Runs
        /\ Exists(execution[e].run)
        /\ execution[e].evidence = evidence[execution[e].run]
        /\ IsVietnam(execution[e].run) <=> evidence[execution[e].run] # None
    BY <1>2, <2>1 DEF EvidenceInv, RunsHaveRows, ExecutesStoredEvidence
  <2>3. QED
    BY <1>3, <2>1, <2>2
<1>5. ASSUME NEW w \in Workers, worker[w].pc = "post",
             Submit(worker[w].run, worker[w].sequence, worker[w].evidence),
             NEW e \in Executions, Live(e)'
      PROVE  /\ Exists(execution[e].run)'
             /\ (execution[e].evidence = evidence[execution[e].run])'
             /\ (IsVietnam(execution[e].run) <=> evidence[execution[e].run] # None)'
  <2> DEFINE r == worker[w].run
             s == worker[w].evidence
  <2>1. PICK x \in Executions :
          execution' = [execution EXCEPT ![x] =
                [pc |-> "start", run |-> r, sequence |-> worker[w].sequence,
                 cancelled |-> FALSE, evidence |-> s,
                 chunks |-> 0, heartbeats |-> 0]]
    BY <1>5 DEF Submit
  <2>2. r \in Runs /\ Exists(r)
    BY <1>5 DEF TypeInv, GatewayShape, EvidenceInv, RunsHaveRows
  <2>3. s = evidence[r] /\ (IsVietnam(r) <=> evidence[r] # None)
    BY <1>5, <2>2 DEF EvidenceInv, EvidenceIsOfVietnam, TaskEvidence
  <2>4. CASE e = x
    BY <1>2, <1>3, <2>1, <2>2, <2>3, <2>4
  <2>5. CASE e # x
    <3>1. execution'[e] = execution[e]
      BY <1>2, <2>1, <2>5
    <3>2. /\ execution[e].run \in Runs
          /\ Exists(execution[e].run)
          /\ execution[e].evidence = evidence[execution[e].run]
          /\ IsVietnam(execution[e].run) <=> evidence[execution[e].run] # None
      BY <1>2, <1>5, <3>1 DEF EvidenceInv, RunsHaveRows, ExecutesStoredEvidence, Live
    <3>3. QED
      BY <1>3, <3>1, <3>2
  <2>6. QED
    BY <2>4, <2>5
<1>6. QED
  BY <1>4, <1>5, TasksStartThreads

\* Every request, task and thread is of a run with a row, and works from the
\* snapshot of that row, in every reachable state.
LEMMA SpecEvidence == Spec => []EvidenceInv
<1>1. Init => EvidenceInv
  BY DEF Init, RepositoryInit, ServiceInit, EvidenceInv, RunsHaveRows,
         EvidenceIsOfVietnam, TaskEvidence, ExecutesStoredEvidence, NoRequest, NoTask, Live
<1>2. TypeInv /\ EvidenceInv /\ [Next]_vars => EvidenceInv'
  <2> SUFFICES ASSUME TypeInv, EvidenceInv, [Next]_vars
               PROVE  EvidenceInv'
    OBVIOUS
  <2>1. RunsHaveRows
    BY DEF EvidenceInv
  <2>2. RunsHaveRows'
    BY <2>1, HandlersKeepRows, QueueKeepsRows, TasksKeepEvidence, ThreadsKeepEvidence
    DEF RunsHaveRows, HandlerHasRow, TaskInv
  <2>3. (\A w \in Workers : TaskEvidence(w))'
    BY TasksKeepEvidence DEF TaskInv
  <2>4. ExecutesStoredEvidence'
    BY ThreadsKeepEvidence DEF ExecutesStoredEvidence
  <2>5. QED
    BY <2>2, <2>3, <2>4, EvidenceStaysVietnams DEF EvidenceInv
<1>3. QED
  BY <1>1, <1>2, SpecTypeInv, PTL DEF Spec

\* Whatever tasks are repeated, cancelled or raced by another one, and whatever
\* the providers return to each, no thread executes other evidence than the
\* row's, and no VNStock run is executed without.
THEOREM EvidenceIsStored == Spec => []ExecutesStoredEvidence
BY SpecEvidence, PTL DEF EvidenceInv

-----------------------------------------------------------------------------
(* Type correctness.                                                        *)

\* A thread checkpoints under the thread id of its run's asset and day, which a
\* run has from its INSERT on.
LEMMA CheckpointsHaveThreadIds ==
    ASSUME TypeInv, RunsHaveRows, RunsHoldTheirDay, CheckpointTypeOK, [Next]_vars
    PROVE  CheckpointTypeOK'
<1>1. ASSUME NEW e \in Executions, GraphChunk(e)
      PROVE  CheckpointTypeOK'
  <2>1. Live(e) /\ execution[e].run \in Runs
    BY <1>1 DEF GraphChunk, Live, TypeInv, ServiceInv, ServiceShape
  <2>2. day[execution[e].run] \in AssetDays
    BY <2>1 DEF RunsHaveRows, RunsHoldTheirDay
  <2>3. CheckpointOf(execution[e].run) \in ThreadIds
    BY <2>2, ThreadIdAssumption DEF CheckpointOf
  <2>4. QED
    BY <1>1, <2>3 DEF GraphChunk, CheckpointTypeOK
<1>2. ASSUME NEW e \in Executions, GraphEnd(e)
      PROVE  CheckpointTypeOK'
  BY <1>2 DEF GraphEnd, CheckpointTypeOK
<1>3. ASSUME NEW r, ClearCheckpoint(r)
      PROVE  CheckpointTypeOK'
  BY <1>3 DEF ClearCheckpoint, CheckpointTypeOK
<1>4. UNCHANGED checkpoint => CheckpointTypeOK'
  BY DEF CheckpointTypeOK
<1>5. QED
  BY <1>1, <1>2, <1>3, <1>4, OnlyGraphsAndTasksTouchCheckpoints

\* Type correctness of the whole system: every row, callback, task, thread and
\* checkpoint stays what the code takes it for, whatever fails.
THEOREM TypeCorrect == Spec => []TypeOK
<1>1. Init => CheckpointTypeOK
  BY DEF Init, ServiceInit, CheckpointTypeOK
<1>2. TypeInv /\ EvidenceInv /\ RunsHoldTheirDay /\ CheckpointTypeOK /\ [Next]_vars
        => CheckpointTypeOK'
  BY CheckpointsHaveThreadIds DEF EvidenceInv
<1>3. Spec => []CheckpointTypeOK
  BY <1>1, <1>2, SpecTypeInv, SpecEvidence, SpecDays, PTL DEF Spec
<1>4. QED
  BY <1>3, SpecTypeInv, TypeInvImpliesTypeOK, PTL

-----------------------------------------------------------------------------
(* A succeeded run is listed, as long as every callback gets its answer.    *)
(* The thread's publishes go through publish_lock one at a time, so its     *)
(* artifact has been stored before "succeeded" is sent; the invariant says  *)
(* where the artifact is until then.                                        *)

\* A callback is of the run of the thread that sent it.
CallbacksAreOfThreads ==
    \A c \in callbacks : /\ execution[c.from].pc # "free"
                         /\ execution[c.from].run = c.run

\* The thread waits for the answer to its artifact, which is still to come.
ArtifactUnderWay(e) == /\ sending[e].kind = "artifact"
                       /\ \E c \in callbacks : c.from = e /\ Awaited(c)

\* Whoever announces a success, or has yet to, comes after the artifact's row.
ArtifactsAreFiled ==
    /\ \A e \in Executions : execution[e].pc = "succeed"
         => artifact[execution[e].run] # None \/ ArtifactUnderWay(e)
    /\ \A e \in Executions : sending[e].kind = "succeeded"
         => artifact[execution[e].run] # None
    /\ \A c \in callbacks  : c.kind = "succeeded" => artifact[c.run] # None

FiledInv == CallbacksAreOfThreads /\ ArtifactsAreFiled

\* An artifact's row stays when it has been inserted.
ArtifactsStay == \A r \in Runs : artifact[r] # None => artifact'[r] # None

\* No step takes an artifact from its run: the second INSERT does nothing.
LEMMA NextKeepsArtifacts ==
    ASSUME TypeInv, [Next]_vars
    PROVE  ArtifactsStay
<1>1. PublishesNothing => ArtifactsStay
  BY DEF PublishesNothing, ArtifactsStay
<1>2. ASSUME NEW c \in callbacks, CallbackApply(c), c.kind \in Publications
      PROVE  ArtifactsStay
  BY <1>2 DEF CallbackApply, StoreArtifact, TransitionRun, ArtifactsStay, TypeInv,
              RepositoryTypeOK
<1>3. QED
  BY <1>1, <1>2, OnlyCallbacksPublish

\* A thread that is started keeps its run, and none comes to its success but
\* those in the set.
KeepsThreads(arriving) ==
    \A x \in Executions :
      /\ execution[x].pc # "free" => /\ execution'[x].pc # "free"
                                     /\ execution'[x].run = execution[x].run
      /\ execution'[x].pc = "succeed" => execution[x].pc = "succeed" \/ x \in arriving

\* A step that sends and answers nothing.
LEMMA SilentStepKeepsFiled ==
    ASSUME TypeInv, FiledInv, ArtifactsStay, KeepsThreads({}),
           UNCHANGED <<sending, callbacks>>
    PROVE  FiledInv'
<1>1. /\ \A e \in Executions : sending[e] # Idle => execution[e].pc # "free"
      /\ \A e \in Executions : execution[e].pc # "free" => execution[e].run \in Runs
      /\ \A c \in callbacks : c.run \in Runs /\ c.from \in Executions
  BY DEF TypeInv, ServiceInv, ServiceTypeOK, ServiceShape, Callback
<1>2. CallbacksAreOfThreads'
  BY <1>1 DEF FiledInv, CallbacksAreOfThreads, KeepsThreads
<1>3. \A e \in Executions : ArtifactUnderWay(e)' <=> ArtifactUnderWay(e)
  BY DEF ArtifactUnderWay, Awaited
<1>4. ASSUME NEW e \in Executions, execution'[e].pc = "succeed"
      PROVE  artifact'[execution'[e].run] # None \/ ArtifactUnderWay(e)'
  <2>1. execution[e].pc = "succeed" /\ execution'[e].run = execution[e].run
    BY <1>4 DEF KeepsThreads
  <2>2. QED
    BY <1>1, <1>3, <2>1 DEF FiledInv, ArtifactsAreFiled, ArtifactsStay
<1>5. ASSUME NEW e \in Executions, sending'[e].kind = "succeeded"
      PROVE  artifact'[execution'[e].run] # None
  <2>1. sending[e].kind = "succeeded" /\ sending[e] # Idle
    BY <1>5 DEF Idle
  <2>2. QED
    BY <1>1, <2>1 DEF FiledInv, ArtifactsAreFiled, ArtifactsStay, KeepsThreads
<1>6. \A c \in callbacks' : c.kind = "succeeded" => artifact'[c.run] # None
  BY <1>1 DEF FiledInv, ArtifactsAreFiled, ArtifactsStay
<1>7. ArtifactsAreFiled'
  BY <1>4, <1>5, <1>6 DEF ArtifactsAreFiled
<1>8. QED
  BY <1>2, <1>7 DEF FiledInv

\* A POST by a thread that was not waiting for its artifact: it comes to its
\* success only by sending that artifact, and announces it only afterwards.
LEMMA PostKeepsFiled ==
    ASSUME TypeInv, FiledInv, ArtifactsStay, NEW e \in Executions,
           NEW kind \in CallbackKinds, NEW n \in Nat, NEW a \in {1, 2},
           Post(e, kind, n, a), execution[e].pc # "free", ~ArtifactUnderWay(e),
           KeepsThreads(IF kind = "artifact" THEN {e} ELSE {}),
           kind = "succeeded" => artifact[execution[e].run] # None
    PROVE  FiledInv'
<1> DEFINE new == [run |-> execution[e].run, from |-> e, kind |-> kind,
                   sequence |-> n, attempt |-> a, stage |-> "append"]
           sent == [kind |-> kind, sequence |-> n, attempt |-> a]
<1>1. /\ callbacks' = callbacks \cup {new}
      /\ sending' = [sending EXCEPT ![e] = sent]
  BY DEF Post
<1>2. /\ new.run = execution[e].run /\ new.from = e /\ new.kind = kind
      /\ new.sequence = sent.sequence /\ new.attempt = sent.attempt
      /\ sent.kind = kind
  OBVIOUS
<1> HIDE DEF new, sent
<1>3. /\ DOMAIN sending = Executions
      /\ \A x \in Executions : sending[x] # Idle => execution[x].pc # "free"
      /\ \A x \in Executions : execution[x].pc # "free" => execution[x].run \in Runs
      /\ \A c \in callbacks : c.run \in Runs /\ c.from \in Executions
  BY DEF TypeInv, ServiceInv, ServiceTypeOK, ServiceShape, Callback
<1>4. /\ sending'[e] = sent
      /\ \A x \in Executions \ {e} : sending'[x] = sending[x]
  BY <1>1, <1>3
<1>5. CallbacksAreOfThreads'
  BY <1>1, <1>2, <1>3 DEF FiledInv, CallbacksAreOfThreads, KeepsThreads
<1>6. \A x \in Executions \ {e} : ArtifactUnderWay(x) => ArtifactUnderWay(x)'
  BY <1>1, <1>4 DEF ArtifactUnderWay, Awaited
<1>7. kind = "artifact" => ArtifactUnderWay(e)'
  BY <1>1, <1>2, <1>4 DEF ArtifactUnderWay, Awaited
<1>8. ASSUME NEW x \in Executions, execution'[x].pc = "succeed"
      PROVE  artifact'[execution'[x].run] # None \/ ArtifactUnderWay(x)'
  <2>1. CASE execution[x].pc = "succeed"
    <3>1. execution'[x].run = execution[x].run /\ execution[x].run \in Runs
      BY <1>3, <2>1 DEF KeepsThreads
    <3>2. QED
      BY <1>6, <2>1, <3>1 DEF FiledInv, ArtifactsAreFiled, ArtifactsStay
  <2>2. CASE execution[x].pc # "succeed"
    BY <1>7, <1>8, <2>2 DEF KeepsThreads
  <2>3. QED
    BY <2>1, <2>2
<1>9. ASSUME NEW x \in Executions, sending'[x].kind = "succeeded"
      PROVE  artifact'[execution'[x].run] # None
  <2>1. /\ execution[x].pc # "free"
        /\ artifact[execution[x].run] # None
    BY <1>2, <1>3, <1>4, <1>9 DEF FiledInv, ArtifactsAreFiled, Idle
  <2>2. QED
    BY <1>3, <2>1 DEF ArtifactsStay, KeepsThreads
<1>10. ASSUME NEW c \in callbacks', c.kind = "succeeded"
       PROVE  artifact'[c.run] # None
  BY <1>1, <1>2, <1>3, <1>10 DEF FiledInv, ArtifactsAreFiled, ArtifactsStay
<1>11. ArtifactsAreFiled'
  BY <1>8, <1>9, <1>10 DEF ArtifactsAreFiled
<1>12. QED
  BY <1>5, <1>11 DEF FiledInv

\* An answer: the artifact that its thread waited for has its row by now.
LEMMA AnswerKeepsFiled ==
    ASSUME TypeInv, RunsHaveRows, FiledInv, ArtifactsStay, UNCHANGED execution,
           NEW c \in callbacks, Answer(c),
           c.kind = "artifact" /\ Exists(c.run) => artifact'[c.run] # None
    PROVE  FiledInv'
<1>1. /\ DOMAIN sending = Executions
      /\ \A x \in Executions : sending[x] # Idle => execution[x].pc # "free"
      /\ \A x \in Executions : execution[x].pc # "free" => execution[x].run \in Runs
      /\ \A d \in callbacks : d.run \in Runs /\ d.from \in Executions
  BY DEF TypeInv, ServiceInv, ServiceTypeOK, ServiceShape, Callback
<1>2. callbacks' = callbacks \ {c}
  BY DEF Answer
<1>3. \A x \in Executions : \/ sending'[x] = sending[x]
                            \/ sending'[x] = Idle /\ x = c.from /\ Awaited(c)
  BY <1>1 DEF Answer
<1>4. CallbacksAreOfThreads'
  BY <1>2 DEF FiledInv, CallbacksAreOfThreads
<1>5. ASSUME NEW e \in Executions, execution'[e].pc = "succeed"
      PROVE  artifact'[execution'[e].run] # None \/ ArtifactUnderWay(e)'
  <2>1. /\ execution[e].pc = "succeed"
        /\ execution[e].run \in Runs
        /\ Exists(execution[e].run)
    BY <1>1, <1>5 DEF RunsHaveRows, Live
  <2>2. CASE artifact[execution[e].run] # None
    BY <2>1, <2>2 DEF ArtifactsStay
  <2>3. CASE ArtifactUnderWay(e)
    <3>1. PICK d \in callbacks : d.from = e /\ Awaited(d)
      BY <2>3 DEF ArtifactUnderWay
    <3>2. CASE c.from = e /\ Awaited(c)
      <4>1. c.kind = "artifact"
        BY <2>3, <3>2 DEF ArtifactUnderWay, Awaited
      <4>2. c.run = execution[e].run
        BY <3>2 DEF FiledInv, CallbacksAreOfThreads
      <4>3. QED
        BY <2>1, <4>1, <4>2
    <3>3. CASE ~(c.from = e /\ Awaited(c))
      <4>1. d \in callbacks' /\ sending'[e] = sending[e]
        BY <1>2, <1>3, <3>1, <3>3
      <4>2. QED
        BY <2>3, <3>1, <4>1 DEF ArtifactUnderWay, Awaited
    <3>4. QED
      BY <3>2, <3>3
  <2>4. QED
    BY <2>1, <2>2, <2>3 DEF FiledInv, ArtifactsAreFiled
<1>6. ASSUME NEW e \in Executions, sending'[e].kind = "succeeded"
      PROVE  artifact'[execution'[e].run] # None
  <2>1. sending[e].kind = "succeeded" /\ sending[e] # Idle
    BY <1>3, <1>6 DEF Idle
  <2>2. QED
    BY <1>1, <2>1 DEF FiledInv, ArtifactsAreFiled, ArtifactsStay
<1>7. \A d \in callbacks' : d.kind = "succeeded" => artifact'[d.run] # None
  BY <1>1, <1>2 DEF FiledInv, ArtifactsAreFiled, ArtifactsStay
<1>8. ArtifactsAreFiled'
  BY <1>5, <1>6, <1>7 DEF ArtifactsAreFiled
<1>9. QED
  BY <1>4, <1>8 DEF FiledInv

\* The two transactions of a callback.
LEMMA CallbackKeepsFiled ==
    ASSUME TypeInv, RunsHaveRows, FiledInv, ArtifactsStay,
           NEW c \in callbacks, CallbackAppend(c) \/ CallbackApply(c)
    PROVE  FiledInv'
<1>1. /\ c \in Callback
      /\ UNCHANGED execution
      /\ \A d \in callbacks : d.run \in Runs
  BY DEF CallbackAppend, CallbackApply, TypeInv, ServiceInv, ServiceTypeOK, Callback
<1>2. ASSUME CallbackAppend(c), c.kind \in ProgressKinds
      PROVE  FiledInv'
  BY <1>1, <1>2, AnswerKeepsFiled DEF CallbackAppend, ProgressKinds
<1>3. ASSUME CallbackAppend(c), c.kind \notin ProgressKinds
      PROVE  FiledInv'
  <2> DEFINE applied == [c EXCEPT !.stage = "apply"]
  <2>1. /\ applied.run = c.run /\ applied.from = c.from /\ applied.kind = c.kind
        /\ applied.sequence = c.sequence /\ applied.attempt = c.attempt
    BY <1>1 DEF Callback
  <2>2. callbacks' = (callbacks \ {c}) \cup {applied} /\ UNCHANGED sending
    BY <1>3 DEF CallbackAppend
  <2> HIDE DEF applied
  <2>3. CallbacksAreOfThreads'
    BY <1>1, <2>1, <2>2 DEF FiledInv, CallbacksAreOfThreads
  <2>4. Awaited(applied)' <=> Awaited(c)
    BY <2>1, <2>2 DEF Awaited
  <2>5. \A e \in Executions : ArtifactUnderWay(e) => ArtifactUnderWay(e)'
    <3>1. \A d \in callbacks : d # c => d \in callbacks' /\ (Awaited(d)' <=> Awaited(d))
      BY <2>2 DEF Awaited
    <3>2. QED
      BY <2>1, <2>2, <2>4, <3>1 DEF ArtifactUnderWay
  <2>6. \A e \in Executions : execution[e].pc \in {"succeed"} \/ sending[e] # Idle
                                => execution[e].run \in Runs
    BY DEF TypeInv, ServiceInv, ServiceShape
  <2>7. ArtifactsAreFiled'
    BY <1>1, <2>1, <2>2, <2>5, <2>6 DEF FiledInv, ArtifactsAreFiled, ArtifactsStay, Idle
  <2>8. QED
    BY <2>3, <2>7 DEF FiledInv
<1>4. ASSUME CallbackApply(c)
      PROVE  FiledInv'
  <2>1. c.kind = "artifact" /\ Exists(c.run) => artifact'[c.run] # None
    <3>1. /\ artifact \in [Runs -> Executions \cup {None}]
          /\ None \notin Executions
          /\ c.run \in Runs /\ c.from \in Executions
      BY <1>1, NoneAssumption DEF TypeInv, RepositoryTypeOK, Callback
    <3>2. QED
      BY <1>4, <3>1 DEF CallbackApply, StoreArtifact
  <2>2. QED
    BY <1>1, <1>4, <2>1, AnswerKeepsFiled DEF CallbackApply
<1>5. QED
  BY <1>2, <1>3, <1>4

\* Through every step of the service whose callbacks are answered, the thread's
\* artifact is filed before its success is announced.
LEMMA AnsweredStepKeepsFiled ==
    ASSUME TypeInv, RunsHaveRows, FiledInv, ArtifactsStay, AnsweredStep
    PROVE  FiledInv'
<1>1. /\ execution \in [Executions -> ExecutionRecord]
      /\ \A e \in Executions : sending[e] # Idle => execution[e].pc # "free"
  BY DEF TypeInv, ServiceInv, ServiceTypeOK, ServiceShape
<1>2. ASSUME NEW e \in Executions, NEW pc, pc \notin {"succeed", "free"},
             Goto(e, pc), UNCHANGED <<sending, callbacks>>
      PROVE  FiledInv'
  <2>1. KeepsThreads({})
    BY <1>1, <1>2 DEF Goto, ExecutionRecord, KeepsThreads
  <2>2. QED
    BY <1>2, <2>1, SilentStepKeepsFiled
<1>3. ASSUME NEW e \in Executions, NEW kind \in CallbackKinds, Publish(e, kind),
             execution[e].pc # "free",
             kind = "succeeded" => execution[e].pc = "succeed",
             KeepsThreads(IF kind = "artifact" THEN {e} ELSE {})
      PROVE  FiledInv'
  <2>1. Post(e, kind, execution[e].sequence + 1, 1)
    BY <1>3 DEF Publish
  <2>2. execution[e].sequence + 1 \in Nat
    BY <1>1 DEF ExecutionRecord
  <2>3. ~ArtifactUnderWay(e)
    BY <1>3 DEF Publish, ArtifactUnderWay, Idle
  <2>4. kind = "succeeded" => artifact[execution[e].run] # None
    BY <1>3, <2>3 DEF FiledInv, ArtifactsAreFiled
  <2>5. QED
    BY <1>3, <2>1, <2>2, <2>3, <2>4, PostKeepsFiled
<1>4. ASSUME NEW e \in Executions, NEW kind \in CallbackKinds, NEW pc,
             PublishAndGoto(e, kind, pc), execution[e].pc # "free", pc # "free",
             kind = "succeeded" => execution[e].pc = "succeed",
             pc = "succeed" => kind = "artifact"
      PROVE  FiledInv'
  <2>1. KeepsThreads(IF kind = "artifact" THEN {e} ELSE {})
    BY <1>1, <1>4 DEF PublishAndGoto, ExecutionRecord, KeepsThreads
  <2>2. QED
    BY <1>3, <1>4, <2>1 DEF PublishAndGoto
<1>5. ASSUME NEW r \in Runs, NEW n \in Nat, NEW s \in Snapshots \cup {None},
             Submit(r, n, s)
      PROVE  FiledInv'
  <2>1. PICK e \in Executions :
          /\ execution[e].pc = "free"
          /\ execution' = [execution EXCEPT ![e] =
                [pc |-> "start", run |-> r, sequence |-> n,
                 cancelled |-> FALSE, evidence |-> s,
                 chunks |-> 0, heartbeats |-> 0]]
    BY <1>5 DEF Submit
  <2>2. /\ execution'[e].pc = "start"
        /\ \A x \in Executions \ {e} : execution'[x] = execution[x]
    BY <1>1, <2>1
  <2>3. KeepsThreads({})
    BY <2>1, <2>2 DEF KeepsThreads
  <2>4. UNCHANGED <<sending, callbacks>>
    BY <1>5 DEF Submit
  <2>5. QED
    BY <2>3, <2>4, SilentStepKeepsFiled
<1>6. ASSUME NEW r \in Runs, RequestCancel(r)
      PROVE  FiledInv'
  <2>1. execution' = execution \/ \E x \in Executions :
          execution' = [execution EXCEPT ![x].cancelled = TRUE]
    BY <1>6 DEF RequestCancel, TypeInv, ServiceInv, ServiceTypeOK
  <2>2. KeepsThreads({})
    BY <1>1, <2>1 DEF ExecutionRecord, KeepsThreads
  <2>3. UNCHANGED <<sending, callbacks>>
    BY <1>6 DEF RequestCancel
  <2>4. QED
    BY <2>2, <2>3, SilentStepKeepsFiled
<1>7. ASSUME NEW e \in Executions,
             PublishRunning(e) \/ PublishArtifact(e) \/ PublishTerminal(e)
      PROVE  FiledInv'
  BY <1>4, <1>7 DEF PublishRunning, PublishArtifact, PublishTerminal, CallbackKinds,
                    TerminalKinds, Terminal
<1>8. ASSUME NEW e \in Executions,
             \/ EnterGraph(e) \/ GraphEnd(e) \/ SaveNativeReport(e) \/ RunFails(e)
             \/ Finish(e)
      PROVE  FiledInv'
  BY <1>2, <1>8 DEF EnterGraph, GraphEnd, SaveNativeReport, RunFails, Finish
<1>9. ASSUME NEW e \in Executions, GraphChunk(e)
      PROVE  FiledInv'
  <2>1. CASE execution[e].cancelled
    BY <1>2, <1>9, <2>1 DEF GraphChunk
  <2>2. CASE ~execution[e].cancelled
    <3>1. KeepsThreads({})
      BY <1>1, <1>9, <2>2 DEF GraphChunk, ExecutionRecord, KeepsThreads
    <3>2. Publish(e, "chunk") /\ execution[e].pc = "graph"
      BY <1>9, <2>2 DEF GraphChunk
    <3>3. QED
      BY <1>3, <3>1, <3>2 DEF CallbackKinds, ProgressKinds
  <2>3. QED
    BY <2>1, <2>2
<1>10. ASSUME NEW e \in Executions, Heartbeat(e)
       PROVE  FiledInv'
  <2>1. KeepsThreads({})
    BY <1>1, <1>10 DEF Heartbeat, ExecutionRecord, KeepsThreads
  <2>2. Publish(e, "heartbeat") /\ execution[e].pc # "free"
    BY <1>10 DEF Heartbeat, Live
  <2>3. QED
    BY <1>3, <2>1, <2>2 DEF CallbackKinds, ProgressKinds
<1>11. ASSUME NEW e \in Executions, AnswerLost(e), NoAnswer(e)
       PROVE  FiledInv'
  <2>1. /\ sending[e] \in [kind: CallbackKinds, sequence: Nat, attempt: {1, 2}]
        /\ sending[e] # Idle
        /\ UNCHANGED execution
        /\ execution[e].pc # "free"
    BY <1>1, <1>11 DEF NoAnswer, TypeInv, ServiceInv, ServiceTypeOK
  <2>2. ~ArtifactUnderWay(e)
    BY <1>11 DEF AnswerLost, ArtifactUnderWay
  <2>3. \A set : KeepsThreads(set)
    BY <2>1 DEF KeepsThreads
  <2>4. sending[e].kind = "succeeded" => artifact[execution[e].run] # None
    BY DEF FiledInv, ArtifactsAreFiled
  <2>5. CASE sending[e].attempt = 1
    <3>1. Post(e, sending[e].kind, sending[e].sequence, 2)
      BY <1>11, <2>5 DEF NoAnswer
    <3>2. QED
      BY <2>1, <2>2, <2>3, <2>4, <3>1, PostKeepsFiled
  <2>6. CASE sending[e].attempt # 1
    <3>1. sending' = [sending EXCEPT ![e] = Idle] /\ UNCHANGED callbacks
      BY <1>11, <2>6 DEF NoAnswer
    <3>2. /\ sending'[e] = Idle
          /\ \A x \in Executions \ {e} : sending'[x] = sending[x]
      BY <3>1 DEF TypeInv, ServiceInv, ServiceTypeOK
    <3>3. CallbacksAreOfThreads'
      BY <2>1, <3>1 DEF FiledInv, CallbacksAreOfThreads
    <3>4. \A x \in Executions \ {e} : ArtifactUnderWay(x) => ArtifactUnderWay(x)'
      BY <3>1, <3>2 DEF ArtifactUnderWay, Awaited
    <3>5. /\ \A x \in Executions : execution[x].pc \in {"succeed"} \/ sending[x] # Idle
                                     => execution[x].run \in Runs
          /\ \A c \in callbacks : c.run \in Runs
      BY DEF TypeInv, ServiceInv, ServiceTypeOK, ServiceShape, Callback
    <3>6. ArtifactsAreFiled'
      BY <2>1, <2>2, <3>1, <3>2, <3>4, <3>5
      DEF FiledInv, ArtifactsAreFiled, ArtifactsStay, Idle
    <3>7. QED
      BY <3>3, <3>6 DEF FiledInv
  <2>7. QED
    BY <2>5, <2>6
<1>12. ASSUME ServiceRestart
       PROVE  FiledInv'
  <2>1. \A x \in Executions : /\ execution'[x].run = execution[x].run
                              /\ execution[x].pc # "free" => execution'[x].pc # "free"
                              /\ execution'[x].pc # "succeed"
    BY <1>1, <1>12 DEF ServiceRestart, Live, ExecutionRecord
  <2>2. /\ \A x \in Executions : sending'[x] = Idle
        /\ UNCHANGED callbacks
    BY <1>12 DEF ServiceRestart
  <2>3. \A c \in callbacks : c.run \in Runs /\ c.from \in Executions
    BY DEF TypeInv, ServiceInv, ServiceTypeOK, Callback
  <2>4. QED
    BY <2>1, <2>2, <2>3
    DEF FiledInv, CallbacksAreOfThreads, ArtifactsAreFiled, ArtifactsStay, Idle
<1>13. (\E r \in Runs : ClearCheckpoint(r)) \/ UNCHANGED serviceVars => FiledInv'
  <2>1. UNCHANGED execution => KeepsThreads({})
    BY DEF KeepsThreads
  <2>2. QED
    BY <2>1, SilentStepKeepsFiled DEF ClearCheckpoint, serviceVars
<1>14. QED
  BY <1>5, <1>6, <1>7, <1>8, <1>9, <1>10, <1>11, <1>12, <1>13, CallbackKeepsFiled
  DEF AnsweredStep

\* A run succeeds only by the callback of a thread whose artifact is filed.
LEMMA NextKeepsListed ==
    ASSUME TypeInv, FiledInv, SucceededRunsAreListed, [Next]_vars
    PROVE  SucceededRunsAreListed'
<1> SUFFICES ASSUME NEW r \in Runs, status'[r] = "succeeded"
             PROVE  artifact'[r] # None
  BY DEF SucceededRunsAreListed
<1>1. artifact[r] # None => artifact'[r] # None
  BY NextKeepsArtifacts DEF ArtifactsStay
<1>2. CASE PublishesNothing
  BY <1>1, <1>2 DEF PublishesNothing, SucceededRunsAreListed
<1>3. ASSUME NEW c \in callbacks, CallbackApply(c), c.kind \in Publications
      PROVE  artifact'[r] # None
  <2>1. CASE c.run = r /\ c.kind = "succeeded"
    BY <1>1, <2>1 DEF FiledInv, ArtifactsAreFiled
  <2>2. CASE c.run # r \/ c.kind = "artifact"
    <3>1. status'[r] = status[r]
      BY <1>3, <2>2 DEF CallbackApply, StoreArtifact, TransitionRun, TypeInv,
                        RepositoryTypeOK
    <3>2. QED
      BY <1>1, <3>1 DEF SucceededRunsAreListed
  <2>3. QED
    BY <1>3, <2>1, <2>2 DEF Publications
<1>4. QED
  BY <1>2, <1>3, OnlyCallbacksPublish

\* As long as every callback gets its answer, whatever else fails, each run
\* that is succeeded is in the owner's list of reports.
THEOREM SuccessIsListed ==
    ASSUME CallbacksAnswered
    PROVE  Spec => []SucceededRunsAreListed
<1>1. Init => FiledInv /\ SucceededRunsAreListed
  BY DEF Init, RepositoryInit, ServiceInit, FiledInv, CallbacksAreOfThreads,
         ArtifactsAreFiled, SucceededRunsAreListed, Idle
<1>2. ASSUME TypeInv, EvidenceInv, FiledInv, SucceededRunsAreListed, [Next]_vars
      PROVE  FiledInv' /\ SucceededRunsAreListed'
  BY <1>2, NextIsServiceStep, NextKeepsArtifacts, AnsweredStepKeepsFiled, NextKeepsListed
  DEF EvidenceInv
<1>3. Spec => [](FiledInv /\ SucceededRunsAreListed)
  BY <1>1, <1>2, SpecTypeInv, SpecEvidence, PTL DEF Spec
<1>4. QED
  BY <1>3, PTL

-----------------------------------------------------------------------------
(* A succeeded run stays succeeded, while runs are only created and no task *)
(* is repeated, no answer late and no accepted task taken for a failed one. *)
(* A run is then in one hand at a time: that of the request that inserted   *)
(* it, of the queue, of a task, and at last of a thread.  Whatever else     *)
(* writes a status lacks the run when its thread has announced the success. *)

\* Runs are created and never resumed, cancelled or cleared, and each is
\* handed on at most once.
HandedOnOnce == /\ Operations \subseteq {"create"}
                /\ {"worker", "slow", "unavailable"} \cap Faults = {}

\* Every request and task is the creation of a run.
CreationsOnly ==
    /\ \A c \in Clients : handler[c].pc # "idle" => handler[c].op = "create"
    /\ \A r \in Runs, kind \in TaskKinds : queue[r][kind] > 0 => kind = "run"
    /\ \A w \in Workers : worker[w].pc # "idle"
         => worker[w].kind = "run" /\ worker[w].pc # "cancelRow"

Places  == {"handler", "queue", "worker", "service"}
Parties == Clients \cup Workers \cup Executions \cup {None}

\* Party p, at that place, is the one to do something to run r.
Holds(place, p, r) ==
    \/ /\ place = "handler" /\ p \in Clients
       /\ handler[p].pc = "enqueue" /\ handler[p].run = r
    \/ /\ place = "queue" /\ p = None
       /\ queue[r]["run"] > 0
    \/ /\ place = "worker" /\ p \in Workers
       /\ worker[p].pc \notin {"idle", "done"} /\ worker[p].run = r
    \/ /\ place = "service" /\ p \in Executions
       /\ execution[p].pc # "free" /\ execution[p].run = r

OneHolder ==
    \A r \in Runs :
      /\ queue[r]["run"] <= 1
      /\ \A k1, k2 \in Places, p1, p2 \in Parties :
           Holds(k1, p1, r) /\ Holds(k2, p2, r) => k1 = k2 /\ p1 = p2

ThreadsHaveRows ==
    \A e \in Executions : execution[e].pc # "free" => Exists(execution[e].run)

\* A thread has at most one callback under way: the one whose answer it waits
\* for, or one that was under way when the service stopped.
OneCallback ==
    /\ CallbacksAreOfThreads
    /\ \A c \in callbacks : \/ Awaited(c)
                            \/ execution[c.from].pc = "dead" /\ sending[c.from] = Idle
    /\ \A c, d \in callbacks : c.from = d.from => c = d
    /\ \A e \in Executions : sending[e].kind \in Terminal => execution[e].pc = "terminal"

\* The thread of run r has announced its end, and nothing is left of what it
\* announced before.
Settled(r) ==
    /\ \E e \in Executions : /\ execution[e].run = r
                             /\ execution[e].pc \in {"terminal", "dead"}
                             /\ MainIdle(e)
    /\ \A c \in callbacks : c.run = r => c.kind = "heartbeat"

SuccessIsSettled == \A r \in Runs : status[r] = "succeeded" => Settled(r)

FinalInv == /\ CreationsOnly
            /\ OneHolder
            /\ ThreadsHaveRows
            /\ OneCallback
            /\ SuccessIsSettled

\* No request, task or delivery is of another kind, so none of these happens.
LEMMA CreationsExclude ==
    ASSUME HandedOnOnce, CreationsOnly
    PROVE  /\ \A c \in Clients, r \in Runs, op \in OperationNames \ {"create"} :
                ~BeginControl(c, op, r)
           /\ \A c \in Clients : ~WriteControl(c)
           /\ \A w \in Workers : ~CancelRow(w) /\ ~PostUnavailable(w) /\ ~WorkerLost(w)
BY DEF HandedOnOnce, CreationsOnly, BeginControl, Call, WriteControl, CancelRow,
       PostUnavailable, WorkerLost, Fault

\* A worker goes on with its task, takes one or is done with it.
LEMMA NextKeepsCreations ==
    ASSUME TypeInv, HandedOnOnce, CreationsOnly, [Next]_vars
    PROVE  CreationsOnly'
<1>1. /\ handler \in [Clients -> HandlerRecord]
      /\ queue \in [Runs -> [TaskKinds -> Nat]]
      /\ worker \in [Workers -> WorkerRecord]
  BY DEF TypeInv, GatewayTypeOK, CeleryTypeOK
<1> DEFINE H(h) == h.pc # "idle" => h.op = "create"
           W(t) == t.pc # "idle" => t.kind = "run" /\ t.pc # "cancelRow"
           Q(q) == \A r \in Runs, kind \in TaskKinds : q[r][kind] > 0 => kind = "run"
<1>2. (\A c \in Clients : H(handler[c])) /\ (\A w \in Workers : W(worker[w])) /\ Q(queue)
  BY DEF CreationsOnly
<1>3. ASSUME NEW c \in Clients
      PROVE  /\ \A d \in AssetDays : BeginCreate(c, d) => CreationsOnly'
             /\ HandlerStep(c) \/ EnqueueFails(c) \/ HandlerLost(c) => CreationsOnly'
  <2>1. ASSUME NEW h, handler' = [handler EXCEPT ![c] = h], H(h)
        PROVE  \A x \in Clients : H(handler'[x])
    BY <1>1, <1>2, <2>1
  <2>2. H(NoRequest) /\ NoRequest.pc = "idle"
    BY DEF NoRequest
  <2>3. ASSUME NEW d \in AssetDays, BeginCreate(c, d)
        PROVE  CreationsOnly'
    <3>1. \A x \in Clients : H(handler'[x])
      BY <1>2, <2>1, <2>3 DEF BeginCreate
    <3>2. QED
      BY <1>2, <2>3, <3>1 DEF BeginCreate, celeryVars, CreationsOnly
  <2>4. ASSUME InsertRun(c)
        PROVE  CreationsOnly'
    <3>1. \A x \in Clients : H(handler'[x])
      BY <1>1, <1>2, <2>4 DEF InsertRun, HandlerRecord
    <3>2. QED
      BY <1>2, <2>4, <3>1 DEF InsertRun, celeryVars, CreationsOnly
  <2>5. ASSUME ReuseDailyRun(c) \/ EnqueueFails(c) \/ HandlerLost(c)
        PROVE  CreationsOnly'
    <3>1. \A x \in Clients : H(handler'[x])
      BY <2>1, <2>2, <2>5 DEF ReuseDailyRun, EnqueueFails, HandlerLost
    <3>2. QED
      BY <1>2, <2>5, <3>1
      DEF ReuseDailyRun, EnqueueFails, HandlerLost, celeryVars, CreationsOnly
  <2>6. ASSUME EnqueueTask(c)
        PROVE  CreationsOnly'
    <3>1. \A x \in Clients : H(handler'[x])
      BY <2>1, <2>2, <2>6 DEF EnqueueTask
    <3>2. Enqueue(handler[c].run, "run")
      BY <1>2, <2>6 DEF EnqueueTask
    <3>3. Q(queue')
      BY <1>1, <1>2, <3>2 DEF Enqueue
    <3>4. QED
      BY <1>2, <2>6, <3>1, <3>3 DEF EnqueueTask, CreationsOnly
  <2>7. QED
    BY <2>3, <2>4, <2>5, <2>6, CreationsExclude DEF HandlerStep
<1>4. ASSUME NEW w \in Workers
      PROVE  /\ \A r \in Runs, kind \in TaskKinds : StartTask(w, r, kind) => CreationsOnly'
             /\ WorkerStep(w) => CreationsOnly'
  <2>1. ASSUME NEW t, worker' = [worker EXCEPT ![w] = t], W(t),
               UNCHANGED <<queue, handler>>
        PROVE  CreationsOnly'
    <3>1. \A x \in Workers : W(worker'[x])
      BY <1>1, <1>2, <2>1
    <3>2. QED
      BY <1>2, <2>1, <3>1 DEF CreationsOnly
  <2>2. ASSUME NEW pc, WorkerAt(w, pc), pc # "cancelRow", worker[w].pc # "idle",
               UNCHANGED <<queue, handler>>
        PROVE  CreationsOnly'
    <3>1. \A x \in Workers : W(worker'[x])
      BY <1>1, <1>2, <2>2 DEF WorkerAt, WorkerRecord
    <3>2. QED
      BY <1>2, <2>2, <3>1 DEF CreationsOnly
  <2>3. ASSUME NEW r \in Runs, NEW kind \in TaskKinds, StartTask(w, r, kind)
        PROVE  CreationsOnly'
    <3> DEFINE pc == CASE kind = "run" /\ status[r] \in Terminal -> "done"
                       [] kind = "cancel" -> "cancelRow"
                       [] OTHER -> Prepare(kind, r, evidence[r])
               task == [pc |-> pc, kind |-> kind, run |-> r,
                        sequence |-> LastSequence(r), evidence |-> evidence[r]]
    <3>1. kind = "run"
      BY <2>3, <1>2 DEF StartTask
    <3>2. pc # "cancelRow"
      BY <3>1, PrepareType
    <3> HIDE DEF pc
    <3>3. W(task)
      BY <3>1, <3>2
    <3>4. worker' = [worker EXCEPT ![w] = task] /\ UNCHANGED handler
      BY <2>3 DEF StartTask, pc, gatewayVars
    <3>5. Q(queue')
      BY <1>1, <1>2, <2>3, <3>1 DEF StartTask
    <3> HIDE DEF task
    <3>6. \A x \in Workers : W(worker'[x])
      BY <1>1, <1>2, <3>3, <3>4
    <3>7. QED
      BY <1>2, <3>4, <3>5, <3>6 DEF CreationsOnly
  <2>4. ASSUME BuildEvidence(w)
        PROVE  CreationsOnly'
    <3>1. PICK s \in Snapshots :
            worker' = [worker EXCEPT ![w].evidence = s,
                            ![w].pc = Prepare(worker[w].kind, worker[w].run, s)]
      BY <2>4 DEF BuildEvidence
    <3> DEFINE pc == Prepare(worker[w].kind, worker[w].run, s)
               built == [worker[w] EXCEPT !.evidence = s, !.pc = pc]
    <3>2. pc # "cancelRow"
      BY PrepareType
    <3> HIDE DEF pc
    <3>3. worker[w] \in WorkerRecord /\ worker[w].pc # "idle"
      BY <1>1, <2>4 DEF BuildEvidence
    <3>4. W(built)
      BY <1>2, <3>2, <3>3 DEF WorkerRecord
    <3>5. worker' = [worker EXCEPT ![w] = built] /\ UNCHANGED <<queue, handler>>
      BY <2>4, <3>1 DEF pc, BuildEvidence, gatewayVars
    <3> HIDE DEF built
    <3>6. QED
      BY <2>1, <3>4, <3>5
  <2>5. ASSUME \/ EvidenceUnavailable(w) \/ PostAccepted(w) \/ PostRejected(w)
               \/ FailRun(w) \/ MarkRunning(w)
        PROVE  CreationsOnly'
    BY <2>2, <2>5 DEF EvidenceUnavailable, PostAccepted, EndpointAccepts, Posting,
                      PostRejected, FailRun, MarkRunning, Surrender, gatewayVars
  <2>6. ASSUME Acknowledge(w)
        PROVE  CreationsOnly'
    BY <2>1, <2>6 DEF Acknowledge, NoTask, gatewayVars
  <2>7. QED
    BY <2>3, <2>4, <2>5, <2>6, CreationsExclude DEF WorkerStep
<1>5. (\/ Poll \/ Restart
       \/ \E e \in Executions : MainThread(e) \/ HeartbeatThread(e) \/ CallbackTimeout(e)
       \/ \E c \in callbacks : HandleCallback(c) \/ CallbackLost(c)
       \/ \E r \in Runs : Silence(r)
       \/ UNCHANGED vars)
         => UNCHANGED <<handler, queue, worker>>
  BY DEF Poll, Restart, MainThread, HeartbeatThread, CallbackTimeout, HandleCallback,
         CallbackLost, Silence, gatewayVars, celeryVars, vars
<1>6. UNCHANGED <<handler, queue, worker>> => CreationsOnly'
  BY DEF CreationsOnly
<1>7. QED
  BY <1>3, <1>4, <1>5, <1>6, CreationsExclude DEF Next

-----------------------------------------------------------------------------
(* A run is in one hand.                                                    *)

\* A step starts no thread and gives none another run.
SameThreads == \A e \in Executions :
                 /\ execution'[e].pc # "free" <=> execution[e].pc # "free"
                 /\ execution[e].pc # "free" => execution'[e].run = execution[e].run

\* No step of the service but submit() starts a thread.
LEMMA OtherStepsKeepThreads ==
    ASSUME TypeInv
    PROVE  /\ \A e \in Executions : MainThread(e) => SameThreads
           /\ \A e \in Executions : Heartbeat(e) => SameThreads
           /\ ServiceRestart => SameThreads
           /\ UNCHANGED execution => SameThreads
<1>1. execution \in [Executions -> ExecutionRecord]
  BY DEF TypeInv, ServiceInv, ServiceTypeOK
<1>2. UNCHANGED execution => SameThreads
  BY DEF SameThreads
<1>3. ASSUME NEW e \in Executions, NEW pc, execution[e].pc # "free", pc # "free",
             Goto(e, pc)
      PROVE  SameThreads
  BY <1>1, <1>3 DEF Goto, ExecutionRecord, SameThreads
<1>4. ASSUME NEW e \in Executions, NEW kind, NEW pc, execution[e].pc # "free",
             pc # "free", PublishAndGoto(e, kind, pc)
      PROVE  SameThreads
  BY <1>1, <1>4 DEF PublishAndGoto, ExecutionRecord, SameThreads
<1>5. ASSUME NEW e \in Executions, MainThread(e)
      PROVE  SameThreads
  <2>1. PublishRunning(e) \/ PublishArtifact(e) \/ PublishTerminal(e) => SameThreads
    BY <1>4 DEF PublishRunning, PublishArtifact, PublishTerminal
  <2>2. EnterGraph(e) \/ GraphEnd(e) \/ SaveNativeReport(e) \/ RunFails(e) \/ Finish(e)
          => SameThreads
    BY <1>3 DEF EnterGraph, GraphEnd, SaveNativeReport, RunFails, Finish
  <2>3. ASSUME GraphChunk(e)
        PROVE  SameThreads
    <3>1. CASE execution[e].cancelled
      BY <1>3, <2>3, <3>1 DEF GraphChunk
    <3>2. CASE ~execution[e].cancelled
      BY <1>1, <2>3, <3>2 DEF GraphChunk, ExecutionRecord, SameThreads
    <3>3. QED
      BY <3>1, <3>2
  <2>4. QED
    BY <1>5, <2>1, <2>2, <2>3 DEF MainThread
<1>6. \A e \in Executions : Heartbeat(e) => SameThreads
  BY <1>1 DEF Heartbeat, Live, ExecutionRecord, SameThreads
<1>7. ServiceRestart => SameThreads
  BY <1>1 DEF ServiceRestart, Live, ExecutionRecord, SameThreads
<1>8. QED
  BY <1>2, <1>5, <1>6, <1>7

\* A thread starts for the run of a task that posts it and is then done with it.
LEMMA TasksHandOver ==
    ASSUME TypeInv, HandedOnOnce, CreationsOnly, [Next]_vars
    PROVE  \/ SameThreads
           \/ \E w \in Workers :
                /\ worker[w].pc = "post"
                /\ UNCHANGED <<repositoryVars, handler, queue>>
                /\ WorkerAt(w, "done")
                /\ Submit(worker[w].run, worker[w].sequence, worker[w].evidence)
<1> USE OtherStepsKeepThreads
<1>1. ASSUME NEW c \in Clients
      PROVE  /\ \A d \in AssetDays : BeginCreate(c, d) => UNCHANGED execution
             /\ HandlerStep(c) \/ EnqueueFails(c) \/ HandlerLost(c)
                  => UNCHANGED execution
  BY DEF BeginCreate, HandlerStep, InsertRun, ReuseDailyRun,
         WriteControl, EnqueueTask, EnqueueFails, HandlerLost, serviceVars
<1>2. ASSUME NEW w \in Workers
      PROVE  /\ \A r \in Runs : \A kind : StartTask(w, r, kind) => UNCHANGED execution
             /\ WorkerStep(w) =>
                  \/ UNCHANGED execution
                  \/ /\ worker[w].pc = "post"
                     /\ UNCHANGED <<repositoryVars, handler, queue>>
                     /\ WorkerAt(w, "done")
                     /\ Submit(worker[w].run, worker[w].sequence, worker[w].evidence)
  <2>1. (\/ BuildEvidence(w) \/ EvidenceUnavailable(w) \/ MarkRunning(w)
         \/ PostRejected(w)  \/ FailRun(w)             \/ Acknowledge(w))
           => UNCHANGED execution
    BY DEF BuildEvidence, EvidenceUnavailable, MarkRunning, PostRejected, FailRun,
           Acknowledge, serviceVars
  <2>2. EndpointAccepts(w) =>
          \/ UNCHANGED execution
          \/ /\ worker[w].pc = "post"
             /\ Submit(worker[w].run, worker[w].sequence, worker[w].evidence)
    BY DEF EndpointAccepts, Posting, AlreadyRunning, CreationsOnly, serviceVars
  <2>3. PostAccepted(w) =>
          \/ UNCHANGED execution
          \/ /\ worker[w].pc = "post"
             /\ UNCHANGED <<repositoryVars, handler, queue>>
             /\ WorkerAt(w, "done")
             /\ Submit(worker[w].run, worker[w].sequence, worker[w].evidence)
    BY <2>2 DEF PostAccepted, gatewayVars
  <2>4. QED
    BY <2>1, <2>3, CreationsExclude DEF StartTask, WorkerStep, serviceVars
<1>3. ASSUME NEW e \in Executions
      PROVE  MainThread(e) \/ HeartbeatThread(e) \/ CallbackTimeout(e) => SameThreads
  BY DEF HeartbeatThread, CallbackTimeout, NoAnswer
<1>4. ASSUME NEW c \in callbacks
      PROVE  HandleCallback(c) \/ CallbackLost(c) => UNCHANGED execution
  BY DEF HandleCallback, CallbackLost, CallbackAppend, CallbackApply, LoseCallback
<1>5. Poll \/ (\E r \in Runs : Silence(r)) \/ UNCHANGED vars => UNCHANGED execution
  BY DEF Poll, Silence, serviceVars, vars
<1>6. Restart => SameThreads
  BY DEF Restart
<1>7. QED
  BY <1>1, <1>2, <1>3, <1>4, <1>5, <1>6, CreationsExclude DEF Next

\* Each started thread's run has a row, since the task's had one.
LEMMA NextKeepsThreadsRows ==
    ASSUME TypeInv, HandedOnOnce, CreationsOnly, RunsHaveRows, ThreadsHaveRows,
           [Next]_vars
    PROVE  ThreadsHaveRows'
<1>1. RowsStay
  BY NextKeepsRows
<1>2. /\ execution \in [Executions -> ExecutionRecord]
      /\ \A e \in Executions : execution[e].pc # "free" => execution[e].run \in Runs
  BY DEF TypeInv, ServiceInv, ServiceTypeOK, ServiceShape
<1>3. CASE SameThreads
  BY <1>1, <1>2, <1>3 DEF SameThreads, ThreadsHaveRows, RowsStay
<1>4. ASSUME NEW w \in Workers, worker[w].pc = "post",
             Submit(worker[w].run, worker[w].sequence, worker[w].evidence)
      PROVE  ThreadsHaveRows'
  <2>1. PICK x \in Executions :
          execution' = [execution EXCEPT ![x] =
                [pc |-> "start", run |-> worker[w].run, sequence |-> worker[w].sequence,
                 cancelled |-> FALSE, evidence |-> worker[w].evidence,
                 chunks |-> 0, heartbeats |-> 0]]
    BY <1>4 DEF Submit
  <2>2. worker[w].run \in Runs /\ Exists(worker[w].run)
    BY <1>4 DEF TypeInv, GatewayShape, RunsHaveRows
  <2>3. /\ execution'[x].run = worker[w].run
        /\ \A e \in Executions \ {x} : execution'[e] = execution[e]
    BY <1>2, <2>1
  <2>4. QED
    BY <1>1, <1>2, <2>2, <2>3 DEF ThreadsHaveRows, RowsStay
<1>5. QED
  BY <1>3, <1>4, TasksHandOver

\* Nobody gets the run who did not have it, or one party at most has it now.
Kept(r) == \A place \in Places, p \in Parties : Holds(place, p, r)' => Holds(place, p, r)
MovedTo(k, x, r) == \A place \in Places, p \in Parties :
                      Holds(place, p, r)' => place = k /\ p = x

\* One hand stays one hand when each run is kept or moved.
LEMMA HoldersStayOne ==
    ASSUME OneHolder,
           \A r \in Runs :
             /\ queue'[r]["run"] <= 1
             /\ Kept(r) \/ \E k \in Places, x \in Parties : MovedTo(k, x, r)
    PROVE  OneHolder'
<1> SUFFICES ASSUME NEW r \in Runs,
                    NEW k1 \in Places, NEW k2 \in Places,
                    NEW p1 \in Parties, NEW p2 \in Parties,
                    Holds(k1, p1, r)', Holds(k2, p2, r)'
             PROVE  k1 = k2 /\ p1 = p2
  BY DEF OneHolder
<1>1. CASE Kept(r)
  BY <1>1 DEF Kept, OneHolder
<1>2. ASSUME NEW k \in Places, NEW x \in Parties, MovedTo(k, x, r)
      PROVE  k1 = k2 /\ p1 = p2
  BY <1>2 DEF MovedTo
<1>3. QED
  BY <1>1, <1>2

\* Where a run can be, its row is: nobody holds a run that is not inserted.
LEMMA HoldersHaveRows ==
    ASSUME RunsHaveRows, ThreadsHaveRows
    PROVE  \A r \in Runs, place \in Places, p \in Parties : Holds(place, p, r) => Exists(r)
BY DEF RunsHaveRows, ThreadsHaveRows, Holds, TaskKinds

\* Through the routes, a run goes from its request to the queue.
LEMMA HandlersKeepOneHolder ==
    ASSUME TypeInv, HandedOnOnce, CreationsOnly, RunsHaveRows, ThreadsHaveRows,
           OneHolder, NEW c \in Clients
    PROVE  /\ \A d \in AssetDays : BeginCreate(c, d) => OneHolder'
           /\ HandlerStep(c) \/ EnqueueFails(c) \/ HandlerLost(c) => OneHolder'
<1>1. /\ handler \in [Clients -> HandlerRecord]
      /\ queue \in [Runs -> [TaskKinds -> Nat]]
      /\ \A r \in Runs : queue[r]["run"] <= 1
  BY DEF TypeInv, GatewayTypeOK, CeleryTypeOK, OneHolder
<1>2. ASSUME NEW h, handler' = [handler EXCEPT ![c] = h], h.pc # "enqueue",
             UNCHANGED <<queue, worker, execution>>
      PROVE  OneHolder'
  <2>1. \A x \in Clients : handler'[x].pc = "enqueue" => handler'[x] = handler[x]
    BY <1>1, <1>2
  <2>2. \A r \in Runs : Kept(r)
    BY <1>2, <2>1 DEF Kept, Holds
  <2>3. QED
    BY <1>1, <1>2, <2>2, HoldersStayOne
<1>3. ASSUME UNCHANGED <<handler, queue, worker, execution>>
      PROVE  OneHolder'
  <2>1. \A r \in Runs : Kept(r)
    BY <1>3 DEF Kept, Holds
  <2>2. QED
    BY <1>1, <1>3, <2>1, HoldersStayOne
<1>4. ASSUME NEW d \in AssetDays, BeginCreate(c, d)
      PROVE  OneHolder'
  <2>1. UNCHANGED <<queue, worker, execution>>
    BY <1>4 DEF BeginCreate, celeryVars, serviceVars
  <2> DEFINE sent == [pc |-> "write", op |-> "create", run |-> None, day |-> d]
  <2>2. handler' = handler \/ handler' = [handler EXCEPT ![c] = sent]
    BY <1>4 DEF BeginCreate
  <2>3. sent.pc # "enqueue"
    OBVIOUS
  <2> HIDE DEF sent
  <2>4. QED
    BY <1>2, <1>3, <2>1, <2>2, <2>3
<1>5. ASSUME ReuseDailyRun(c) \/ EnqueueFails(c) \/ HandlerLost(c)
      PROVE  OneHolder'
  <2>1. /\ handler' = [handler EXCEPT ![c] = NoRequest]
        /\ UNCHANGED <<queue, worker, execution>>
    BY <1>5 DEF ReuseDailyRun, EnqueueFails, HandlerLost, celeryVars, serviceVars
  <2>2. NoRequest.pc # "enqueue"
    BY DEF NoRequest
  <2>3. QED
    BY <1>2, <2>1, <2>2
<1>6. ASSUME InsertRun(c)
      PROVE  OneHolder'
  <2>1. PICK r \in Runs : /\ CreateRun(r, handler[c].day)
                          /\ handler' = [handler EXCEPT ![c].pc = "enqueue", ![c].run = r]
    BY <1>6 DEF InsertRun
  <2>2. /\ handler'[c].run = r
        /\ \A x \in Clients \ {c} : handler'[x] = handler[x]
    BY <1>1, <2>1 DEF HandlerRecord
  <2>3. UNCHANGED <<queue, worker, execution>>
    BY <1>6 DEF InsertRun, celeryVars, serviceVars
  <2>4. \A place \in Places, p \in Parties : ~Holds(place, p, r)
    BY <2>1, HoldersHaveRows DEF CreateRun
  <2>5. MovedTo("handler", c, r)
    BY <2>2, <2>3, <2>4 DEF MovedTo, Holds
  <2>6. \A x \in Runs \ {r} : Kept(x)
    BY <2>2, <2>3 DEF Kept, Holds
  <2>7. "handler" \in Places /\ c \in Parties
    BY DEF Places, Parties
  <2>8. QED
    BY <1>1, <2>3, <2>5, <2>6, <2>7, HoldersStayOne
<1>7. ASSUME EnqueueTask(c)
      PROVE  OneHolder'
  <2>1. /\ handler[c].pc = "enqueue"
        /\ Enqueue(handler[c].run, "run")
        /\ handler' = [handler EXCEPT ![c] = NoRequest]
        /\ UNCHANGED <<worker, execution>>
    BY <1>7 DEF EnqueueTask, CreationsOnly, serviceVars
  <2>2. PICK r \in Runs : r = handler[c].run
    BY <2>1 DEF RunsHaveRows
  <2>3. Holds("handler", c, r)
    BY <2>1, <2>2 DEF Holds
  <2>4. /\ {"handler", "queue"} \subseteq Places
        /\ {c, None} \subseteq Parties
    BY DEF Places, Parties
  <2>5. \A place \in Places, p \in Parties : Holds(place, p, r) => place = "handler" /\ p = c
    BY <2>2, <2>3, <2>4 DEF OneHolder
  <2>6. queue[r]["run"] = 0
    <3>1. ~Holds("queue", None, r)
      BY <2>4, <2>5
    <3>2. queue[r]["run"] \in Nat
      BY <1>1, <2>2 DEF TaskKinds
    <3>3. QED
      BY <3>1, <3>2 DEF Holds
  <2>7. queue'[r]["run"] <= 1 /\ \A x \in Runs \ {r} : queue'[x] = queue[x]
    BY <1>1, <2>1, <2>2, <2>6 DEF Enqueue, TaskKinds
  <2>8. \A x \in Clients : handler'[x].pc = "enqueue" => x # c /\ handler'[x] = handler[x]
    BY <1>1, <2>1 DEF NoRequest
  <2>9. MovedTo("queue", None, r)
    <3> SUFFICES ASSUME NEW place \in Places, NEW p \in Parties, Holds(place, p, r)'
                 PROVE  place = "queue" /\ p = None
      BY DEF MovedTo
    <3>1. CASE place = "handler"
      BY <2>5, <2>8, <3>1 DEF Holds
    <3>2. CASE place # "handler"
      BY <2>1, <2>5, <3>2 DEF Holds
    <3>3. QED
      BY <3>1, <3>2
  <2>10. \A x \in Runs \ {r} : Kept(x)
    BY <2>1, <2>7, <2>8 DEF Kept, Holds
  <2>11. QED
    BY <1>1, <2>4, <2>7, <2>9, <2>10, HoldersStayOne
<1>8. QED
  BY <1>4, <1>5, <1>6, <1>7, CreationsExclude DEF HandlerStep

\* From the queue it goes to a task, and from the task to a thread or nowhere.
LEMMA WorkersKeepOneHolder ==
    ASSUME TypeInv, HandedOnOnce, CreationsOnly, OneHolder, NEW w \in Workers
    PROVE  /\ \A r \in Runs, kind \in TaskKinds : StartTask(w, r, kind) => OneHolder'
           /\ WorkerStep(w) => OneHolder'
<1>1. /\ worker \in [Workers -> WorkerRecord]
      /\ queue \in [Runs -> [TaskKinds -> Nat]]
      /\ execution \in [Executions -> ExecutionRecord]
      /\ \A r \in Runs : queue[r]["run"] <= 1
      /\ worker[w].pc # "idle" => worker[w].run \in Runs
  BY DEF TypeInv, CeleryTypeOK, GatewayShape, ServiceInv, ServiceTypeOK, OneHolder
<1>2. /\ {"queue", "worker", "service"} \subseteq Places
      /\ Workers \cup Executions \cup {None} \subseteq Parties
  BY DEF Places, Parties
\* The task goes on, or drops its run.
<1>3. ASSUME NEW t, worker' = [worker EXCEPT ![w] = t],
             t.pc \notin {"idle", "done"}
               => worker[w].pc \notin {"idle", "done"} /\ t.run = worker[w].run,
             UNCHANGED <<handler, queue, execution>>
      PROVE  OneHolder'
  <2>1. \A x \in Workers : worker'[x].pc \notin {"idle", "done"} =>
          worker[x].pc \notin {"idle", "done"} /\ worker'[x].run = worker[x].run
    BY <1>1, <1>3
  <2>2. \A r \in Runs : Kept(r)
    BY <1>3, <2>1 DEF Kept, Holds
  <2>3. QED
    BY <1>1, <1>3, <2>2, HoldersStayOne
<1>4. ASSUME NEW pc, WorkerAt(w, pc), worker[w].pc \notin {"idle", "done"},
             UNCHANGED <<handler, queue, execution>>
      PROVE  OneHolder'
  <2> DEFINE t == [worker[w] EXCEPT !.pc = pc]
  <2>1. t.run = worker[w].run
    BY <1>1 DEF WorkerRecord
  <2>2. worker' = [worker EXCEPT ![w] = t]
    BY <1>4 DEF WorkerAt
  <2> HIDE DEF t
  <2>3. QED
    BY <1>3, <1>4, <2>1, <2>2
<1>5. ASSUME NEW r \in Runs, NEW kind \in TaskKinds, StartTask(w, r, kind)
      PROVE  OneHolder'
  <2> DEFINE pc == CASE kind = "run" /\ status[r] \in Terminal -> "done"
                     [] kind = "cancel" -> "cancelRow"
                     [] OTHER -> Prepare(kind, r, evidence[r])
             task == [pc |-> pc, kind |-> kind, run |-> r,
                      sequence |-> LastSequence(r), evidence |-> evidence[r]]
  <2>1. task.run = r
    OBVIOUS
  <2>2. worker' = [worker EXCEPT ![w] = task]
    BY <1>5 DEF StartTask
  <2> HIDE DEF task
  <2>3. /\ worker'[w].run = r
        /\ \A x \in Workers \ {w} : worker'[x] = worker[x]
    BY <1>1, <2>1, <2>2
  <2>4. /\ kind = "run"
        /\ queue[r]["run"] > 0
        /\ queue' = [queue EXCEPT ![r]["run"] = @ - 1]
        /\ UNCHANGED <<handler, execution>>
    BY <1>5 DEF StartTask, CreationsOnly, gatewayVars, serviceVars
  <2>5. queue'[r]["run"] = 0 /\ \A x \in Runs \ {r} : queue'[x] = queue[x]
    <3>1. queue[r]["run"] = 1
      BY <1>1, <2>4 DEF TaskKinds
    <3>2. QED
      BY <1>1, <2>4, <3>1 DEF TaskKinds
  <2>6. Holds("queue", None, r)
    BY <2>4 DEF Holds
  <2>7. \A place \in Places, p \in Parties : Holds(place, p, r) => place = "queue"
    BY <1>2, <2>6 DEF OneHolder
  <2>8. MovedTo("worker", w, r)
    <3> SUFFICES ASSUME NEW place \in Places, NEW p \in Parties, Holds(place, p, r)'
                 PROVE  place = "worker" /\ p = w
      BY DEF MovedTo
    <3>1. CASE place = "worker"
      BY <2>3, <2>7, <3>1 DEF Holds
    <3>2. CASE place # "worker"
      BY <2>4, <2>5, <2>7, <3>2 DEF Holds
    <3>3. QED
      BY <3>1, <3>2
  <2>9. \A x \in Runs \ {r} : Kept(x)
    BY <2>3, <2>4, <2>5 DEF Kept, Holds
  <2>10. QED
    BY <1>1, <1>2, <2>5, <2>8, <2>9, HoldersStayOne
<1>6. ASSUME BuildEvidence(w)
      PROVE  OneHolder'
  <2>1. PICK s \in Snapshots :
          worker' = [worker EXCEPT ![w].evidence = s,
                          ![w].pc = Prepare(worker[w].kind, worker[w].run, s)]
    BY <1>6 DEF BuildEvidence
  <2> DEFINE built == [worker[w] EXCEPT !.evidence = s,
                         !.pc = Prepare(worker[w].kind, worker[w].run, s)]
  <2>2. worker' = [worker EXCEPT ![w] = built]
    BY <2>1
  <2>3. built.run = worker[w].run
    BY <1>1 DEF WorkerRecord
  <2>4. worker[w].pc = "evidence" /\ UNCHANGED <<handler, queue, execution>>
    BY <1>6 DEF BuildEvidence, gatewayVars, serviceVars
  <2> HIDE DEF built
  <2>5. QED
    BY <1>3, <2>2, <2>3, <2>4
<1>7. ASSUME \/ EvidenceUnavailable(w) \/ MarkRunning(w) \/ PostRejected(w) \/ FailRun(w)
      PROVE  OneHolder'
  BY <1>4, <1>7 DEF EvidenceUnavailable, MarkRunning, PostRejected, FailRun, Surrender,
                    gatewayVars, serviceVars
<1>8. ASSUME Acknowledge(w)
      PROVE  OneHolder'
  BY <1>3, <1>8 DEF Acknowledge, NoTask, gatewayVars, serviceVars
<1>9. ASSUME PostAccepted(w)
      PROVE  OneHolder'
  <2>1. /\ worker[w].pc = "post" /\ worker[w].kind = "run"
        /\ WorkerAt(w, "done")
        /\ UNCHANGED <<handler, queue>>
    BY <1>9 DEF PostAccepted, EndpointAccepts, Posting, CreationsOnly, gatewayVars
  <2>2. CASE UNCHANGED execution
    BY <1>4, <2>1, <2>2
  <2>3. ASSUME Submit(worker[w].run, worker[w].sequence, worker[w].evidence)
        PROVE  OneHolder'
    <3> PICK r \in Runs : r = worker[w].run
      BY <1>1, <2>1
    <3>1. PICK e \in Executions :
            execution' = [execution EXCEPT ![e] =
                [pc |-> "start", run |-> r, sequence |-> worker[w].sequence,
                 cancelled |-> FALSE, evidence |-> worker[w].evidence,
                 chunks |-> 0, heartbeats |-> 0]]
      BY <2>3 DEF Submit
    <3>2. /\ execution'[e].run = r
          /\ \A x \in Executions \ {e} : execution'[x] = execution[x]
      BY <1>1, <3>1
    <3>3. Holds("worker", w, r)
      BY <2>1 DEF Holds
    <3>4. \A place \in Places, p \in Parties : Holds(place, p, r) => place = "worker" /\ p = w
      BY <1>2, <3>3 DEF OneHolder
    <3>5. /\ worker'[w].pc = "done"
          /\ \A x \in Workers \ {w} : worker'[x] = worker[x]
      BY <1>1, <2>1 DEF WorkerAt, WorkerRecord
    <3>6. MovedTo("service", e, r)
      <4> SUFFICES ASSUME NEW place \in Places, NEW p \in Parties, Holds(place, p, r)'
                   PROVE  place = "service" /\ p = e
        BY DEF MovedTo
      <4>1. CASE place = "service"
        BY <3>2, <3>4, <4>1 DEF Holds
      <4>2. CASE place = "worker"
        BY <3>4, <3>5, <4>2 DEF Holds
      <4>3. CASE place \in {"handler", "queue"}
        BY <2>1, <3>4, <4>3 DEF Holds
      <4>4. QED
        BY <4>1, <4>2, <4>3 DEF Places
    <3>7. \A x \in Runs \ {r} : Kept(x)
      BY <2>1, <3>2, <3>5 DEF Kept, Holds
    <3>8. QED
      BY <1>1, <1>2, <2>1, <3>6, <3>7, HoldersStayOne
  <2>4. QED
    BY <1>9, <2>1, <2>2, <2>3
    DEF PostAccepted, EndpointAccepts, Posting, AlreadyRunning, serviceVars
<1>10. QED
  BY <1>5, <1>6, <1>7, <1>8, <1>9, CreationsExclude DEF WorkerStep

\* So no step puts a run into two hands.
LEMMA NextKeepsOneHolder ==
    ASSUME TypeInv, HandedOnOnce, CreationsOnly, RunsHaveRows, ThreadsHaveRows,
           OneHolder, [Next]_vars
    PROVE  OneHolder'
<1>1. (\/ Poll \/ Restart
       \/ \E e \in Executions : MainThread(e) \/ HeartbeatThread(e) \/ CallbackTimeout(e)
       \/ \E c \in callbacks : HandleCallback(c) \/ CallbackLost(c)
       \/ \E r \in Runs : Silence(r)
       \/ UNCHANGED vars)
         => UNCHANGED <<handler, queue, worker>> /\ SameThreads
  <2>1. (\/ Poll \/ Restart
         \/ \E e \in Executions : MainThread(e) \/ HeartbeatThread(e) \/ CallbackTimeout(e)
         \/ \E c \in callbacks : HandleCallback(c) \/ CallbackLost(c)
         \/ \E r \in Runs : Silence(r)
         \/ UNCHANGED vars)
           => UNCHANGED <<handler, queue, worker>>
    BY DEF Poll, Restart, MainThread, HeartbeatThread, CallbackTimeout, HandleCallback,
           CallbackLost, Silence, gatewayVars, celeryVars, vars
  <2>2. Poll \/ (\E r \in Runs : Silence(r)) \/ UNCHANGED vars => UNCHANGED execution
    BY DEF Poll, Silence, serviceVars, vars
  <2>3. \A c \in callbacks : HandleCallback(c) \/ CallbackLost(c) => UNCHANGED execution
    BY DEF HandleCallback, CallbackLost, CallbackAppend, CallbackApply, LoseCallback
  <2>4. \A e \in Executions : MainThread(e) \/ HeartbeatThread(e) \/ CallbackTimeout(e)
                                => SameThreads
    BY OtherStepsKeepThreads DEF HeartbeatThread, CallbackTimeout, NoAnswer
  <2>5. Restart => SameThreads
    BY OtherStepsKeepThreads DEF Restart
  <2>6. QED
    BY <2>1, <2>2, <2>3, <2>4, <2>5, OtherStepsKeepThreads
<1>2. ASSUME UNCHANGED <<handler, queue, worker>>, SameThreads
      PROVE  OneHolder'
  <2>1. \A r \in Runs : Kept(r)
    BY <1>2 DEF Kept, Holds, SameThreads
  <2>2. \A r \in Runs : queue'[r]["run"] <= 1
    BY <1>2 DEF OneHolder
  <2>3. QED
    BY <2>1, <2>2, HoldersStayOne
<1>3. QED
  BY <1>1, <1>2, HandlersKeepOneHolder, WorkersKeepOneHolder, CreationsExclude DEF Next

-----------------------------------------------------------------------------
(* What a thread has under way.                                             *)

\* Started threads keep their run, an ended one stays ended, and one that has
\* sent its last word ends only after the answer to it.
ThreadsGoOn ==
    \A x \in Executions :
      /\ execution[x].pc # "free" => /\ execution'[x].pc # "free"
                                     /\ execution'[x].run = execution[x].run
      /\ execution[x].pc = "dead" => execution'[x].pc = "dead"
      /\ execution[x].pc = "terminal" =>
           /\ execution'[x].pc \in {"terminal", "dead"}
           /\ ~MainIdle(x) => execution'[x].pc = "terminal"

\* Thread e may send a callback of this kind: nothing of it is under way, its
\* last word is its last step, and after that it has only heartbeats to send.
MaySend(e, kind) ==
    /\ execution[e].pc # "free"
    /\ \A c \in callbacks : c.from # e
    /\ kind \in Terminal => execution'[e].pc = "terminal"
    /\ execution[e].pc \in {"terminal", "dead"} /\ MainIdle(e) => kind = "heartbeat"

\* What a step does to the callbacks and to those who wait for their answers.
DeliveryStep ==
    \/ UNCHANGED <<sending, callbacks>>
    \/ \E e \in Executions, kind \in CallbackKinds, n \in Nat, a \in {1, 2} :
         MaySend(e, kind) /\ Post(e, kind, n, a)
    \/ \E c \in callbacks :
         \/ Answer(c)
         \/ /\ callbacks' = (callbacks \ {c}) \cup {[c EXCEPT !.stage = "apply"]}
            /\ UNCHANGED sending
         \/ /\ callbacks' = callbacks \ {c}
            /\ UNCHANGED sending
    \/ \E e \in Executions :
         /\ AnswerLost(e) /\ sending[e] # Idle
         /\ sending' = [sending EXCEPT ![e] = Idle]
         /\ UNCHANGED callbacks

\* With no answer late, a thread sends when nothing of it is under way.
LEMMA TimelyStepDelivers ==
    ASSUME TypeInv, OneCallback, TimelyStep
    PROVE  ServiceRestart \/ (ThreadsGoOn /\ DeliveryStep)
<1>1. /\ execution \in [Executions -> ExecutionRecord]
      /\ \A e \in Executions : sending[e] # Idle =>
           /\ execution[e].pc # "free"
           /\ sending[e] \in [kind: CallbackKinds, sequence: Nat, attempt: {1, 2}]
      /\ callbacks \subseteq Callback
  BY DEF TypeInv, ServiceInv, ServiceTypeOK, ServiceShape
<1>2. ASSUME NEW e \in Executions, NEW pc, execution[e].pc \notin {"free", "dead", "terminal"},
             pc # "free", Goto(e, pc), UNCHANGED <<sending, callbacks>>
      PROVE  ThreadsGoOn /\ DeliveryStep
  BY <1>1, <1>2 DEF Goto, ExecutionRecord, ThreadsGoOn, DeliveryStep
<1>3. ASSUME NEW e \in Executions, Live(e), NEW kind \in CallbackKinds, Publish(e, kind)
      PROVE  /\ \A c \in callbacks : c.from # e
             /\ \E n \in Nat, a \in {1, 2} : Post(e, kind, n, a)
  <2>1. execution[e].sequence + 1 \in Nat
    BY <1>1 DEF ExecutionRecord
  <2>2. ASSUME NEW c \in callbacks, c.from = e
        PROVE  FALSE
    <3>1. Awaited(c)
      BY <1>3, <2>2 DEF OneCallback, Live
    <3>2. c.kind = "none"
      BY <1>3, <2>2, <3>1 DEF Awaited, Publish, Idle
    <3>3. QED
      BY <1>1, <3>2 DEF Callback, CallbackKinds, ProgressKinds, TerminalKinds, Terminal
  <2>3. QED
    BY <1>3, <2>1, <2>2 DEF Publish
<1>4. ASSUME NEW e \in Executions, NEW kind \in CallbackKinds, NEW pc,
             execution[e].pc \notin {"free", "dead", "terminal"}, pc # "free",
             kind \in Terminal => pc = "terminal",
             PublishAndGoto(e, kind, pc)
      PROVE  ThreadsGoOn /\ DeliveryStep
  <2>1. ThreadsGoOn /\ execution'[e].pc = pc
    BY <1>1, <1>4 DEF PublishAndGoto, ExecutionRecord, ThreadsGoOn
  <2>2. /\ \A c \in callbacks : c.from # e
        /\ \E n \in Nat, a \in {1, 2} : Post(e, kind, n, a)
    BY <1>3, <1>4 DEF PublishAndGoto, Live
  <2>3. MaySend(e, kind)
    BY <1>4, <2>1, <2>2 DEF MaySend
  <2>4. QED
    BY <2>1, <2>2, <2>3 DEF DeliveryStep
<1>5. ASSUME NEW e \in Executions,
             PublishRunning(e) \/ PublishArtifact(e) \/ PublishTerminal(e)
      PROVE  ThreadsGoOn /\ DeliveryStep
  BY <1>4, <1>5 DEF PublishRunning, PublishArtifact, PublishTerminal, CallbackKinds,
                    TerminalKinds, Terminal
<1>6. ASSUME NEW e \in Executions,
             EnterGraph(e) \/ GraphEnd(e) \/ SaveNativeReport(e) \/ RunFails(e)
      PROVE  ThreadsGoOn /\ DeliveryStep
  BY <1>2, <1>6 DEF EnterGraph, GraphEnd, SaveNativeReport, RunFails
<1>7. ASSUME NEW e \in Executions, Finish(e)
      PROVE  ThreadsGoOn /\ DeliveryStep
  BY <1>1, <1>7 DEF Finish, Goto, ExecutionRecord, ThreadsGoOn, DeliveryStep
<1>8. ASSUME NEW e \in Executions, NEW kind \in ProgressKinds, Publish(e, kind), Live(e),
             kind = "chunk" => execution[e].pc = "graph",
             \A x \in Executions : /\ execution'[x].run = execution[x].run
                                   /\ execution'[x].pc = execution[x].pc
      PROVE  ThreadsGoOn /\ DeliveryStep
  <2>1. ThreadsGoOn
    BY <1>8 DEF ThreadsGoOn
  <2>2. kind \in CallbackKinds /\ kind \notin Terminal
    BY DEF CallbackKinds, ProgressKinds, Terminal
  <2>3. MaySend(e, kind)
    BY <1>3, <1>8, <2>2 DEF MaySend, Live, ProgressKinds
  <2>4. QED
    BY <1>3, <1>8, <2>1, <2>2, <2>3 DEF DeliveryStep
<1>9. ASSUME NEW e \in Executions, GraphChunk(e)
      PROVE  ThreadsGoOn /\ DeliveryStep
  <2>1. CASE execution[e].cancelled
    BY <1>2, <1>9, <2>1 DEF GraphChunk
  <2>2. CASE ~execution[e].cancelled
    <3>1. \A x \in Executions : /\ execution'[x].run = execution[x].run
                                /\ execution'[x].pc = execution[x].pc
      BY <1>1, <1>9, <2>2 DEF GraphChunk, ExecutionRecord
    <3>2. Publish(e, "chunk") /\ execution[e].pc = "graph"
      BY <1>9, <2>2 DEF GraphChunk
    <3>3. QED
      BY <1>8, <3>1, <3>2 DEF ProgressKinds, Live
  <2>3. QED
    BY <2>1, <2>2
<1>10. ASSUME NEW e \in Executions, Heartbeat(e)
       PROVE  ThreadsGoOn /\ DeliveryStep
  <2>1. \A x \in Executions : /\ execution'[x].run = execution[x].run
                              /\ execution'[x].pc = execution[x].pc
    BY <1>1, <1>10 DEF Heartbeat, ExecutionRecord
  <2>2. QED
    BY <1>8, <1>10, <2>1 DEF Heartbeat, ProgressKinds
<1>11. UNCHANGED execution => ThreadsGoOn
  BY DEF ThreadsGoOn
<1>12. ASSUME NEW e \in Executions, AnswerLost(e), NoAnswer(e)
       PROVE  ThreadsGoOn /\ DeliveryStep
  <2>1. /\ sending[e] \in [kind: CallbackKinds, sequence: Nat, attempt: {1, 2}]
        /\ sending[e] # Idle /\ execution[e].pc # "free"
        /\ UNCHANGED execution
    BY <1>1, <1>12 DEF NoAnswer
  <2>2. \A c \in callbacks : c.from # e
    BY <1>12, <2>1 DEF AnswerLost, OneCallback
  <2>3. MaySend(e, sending[e].kind)
    <3>1. sending[e].kind \in Terminal => execution'[e].pc = "terminal"
      BY <2>1 DEF OneCallback
    <3>2. MainIdle(e) => sending[e].kind = "heartbeat"
      BY <2>1 DEF MainIdle, CallbackKinds, ProgressKinds, TerminalKinds, Terminal
    <3>3. QED
      BY <2>1, <2>2, <3>1, <3>2 DEF MaySend
  <2>4. CASE sending[e].attempt = 1
    <3>1. Post(e, sending[e].kind, sending[e].sequence, 2)
      BY <1>12, <2>4 DEF NoAnswer
    <3>2. sending[e].kind \in CallbackKinds /\ sending[e].sequence \in Nat
      BY <2>1
    <3>3. DeliveryStep
      BY <2>3, <3>1, <3>2 DEF DeliveryStep
    <3>4. QED
      BY <1>11, <2>1, <3>3
  <2>5. CASE sending[e].attempt # 1
    <3>1. DeliveryStep
      BY <1>12, <2>1, <2>5 DEF NoAnswer, DeliveryStep
    <3>2. QED
      BY <1>11, <2>1, <3>1
  <2>6. QED
    BY <2>4, <2>5
<1>13. ASSUME NEW c \in callbacks,
              CallbackAppend(c) \/ CallbackApply(c) \/ LoseCallback(c)
       PROVE  ThreadsGoOn /\ DeliveryStep
  <2>1. DeliveryStep
    BY <1>13 DEF CallbackAppend, CallbackApply, LoseCallback, DeliveryStep
  <2>2. QED
    BY <1>11, <1>13, <2>1 DEF CallbackAppend, CallbackApply, LoseCallback
<1>14. ASSUME NEW r \in Runs, NEW n \in Nat, NEW s \in Snapshots \cup {None},
              Submit(r, n, s)
       PROVE  ThreadsGoOn /\ DeliveryStep
  <2>1. PICK e \in Executions :
          /\ execution[e].pc = "free"
          /\ execution' = [execution EXCEPT ![e] =
                [pc |-> "start", run |-> r, sequence |-> n,
                 cancelled |-> FALSE, evidence |-> s,
                 chunks |-> 0, heartbeats |-> 0]]
    BY <1>14 DEF Submit
  <2>2. \A x \in Executions \ {e} : execution'[x] = execution[x]
    BY <1>1, <2>1
  <2>3. ThreadsGoOn
    BY <2>1, <2>2 DEF ThreadsGoOn
  <2>4. QED
    BY <1>14, <2>3 DEF Submit, DeliveryStep
<1>15. ASSUME NEW r \in Runs, RequestCancel(r)
       PROVE  ThreadsGoOn /\ DeliveryStep
  <2>1. execution' = execution \/ \E x \in Executions :
          execution' = [execution EXCEPT ![x].cancelled = TRUE]
    BY <1>15 DEF RequestCancel, TypeInv, ServiceInv, ServiceTypeOK
  <2>2. ThreadsGoOn
    BY <1>1, <2>1 DEF ExecutionRecord, ThreadsGoOn
  <2>3. QED
    BY <1>15, <2>2 DEF RequestCancel, DeliveryStep
<1>16. (\E r \in Runs : ClearCheckpoint(r)) \/ UNCHANGED serviceVars
         => ThreadsGoOn /\ DeliveryStep
  BY <1>11 DEF ClearCheckpoint, serviceVars, DeliveryStep
<1>17. QED
  BY <1>5, <1>6, <1>7, <1>9, <1>10, <1>12, <1>13, <1>14, <1>15, <1>16
  DEF TimelyStep, AnsweredStep

\* So it never has a second one under way.
LEMMA TimelyStepKeepsOneCallback ==
    ASSUME TypeInv, OneCallback, TimelyStep
    PROVE  OneCallback'
<1>1. /\ execution \in [Executions -> ExecutionRecord]
      /\ DOMAIN sending = Executions
      /\ callbacks \subseteq Callback
      /\ \A c \in callbacks : c.from \in Executions
  BY DEF TypeInv, ServiceInv, ServiceTypeOK, Callback
<1>2. \A x \in Executions : sending[x].kind \in Terminal => ~MainIdle(x)
  BY DEF MainIdle, Terminal
\* What is left of the callbacks keeps its thread.
<1>3. ASSUME ThreadsGoOn, callbacks' \subseteq callbacks,
             \A x \in Executions :
               \/ sending'[x] = sending[x]
               \/ sending'[x] = Idle /\ \A c \in callbacks' : c.from # x
      PROVE  OneCallback'
  <2>1. CallbacksAreOfThreads'
    BY <1>1, <1>3 DEF ThreadsGoOn, OneCallback, CallbacksAreOfThreads
  <2>2. ASSUME NEW c \in callbacks'
        PROVE  Awaited(c)' \/ (execution'[c.from].pc = "dead" /\ sending'[c.from] = Idle)
    <3>1. c \in callbacks /\ c.from \in Executions /\ sending'[c.from] = sending[c.from]
      BY <1>1, <1>3
    <3>2. QED
      BY <1>3, <3>1 DEF ThreadsGoOn, OneCallback, Awaited
  <2>3. \A e \in Executions : sending'[e].kind \in Terminal => execution'[e].pc = "terminal"
    BY <1>2, <1>3 DEF ThreadsGoOn, OneCallback, Idle, Terminal
  <2>4. QED
    BY <1>3, <2>1, <2>2, <2>3 DEF OneCallback
<1>4. ASSUME ThreadsGoOn, UNCHANGED <<sending, callbacks>>
      PROVE  OneCallback'
  BY <1>3, <1>4
<1>5. ASSUME ThreadsGoOn, NEW e \in Executions, NEW kind \in CallbackKinds,
             NEW n \in Nat, NEW a \in {1, 2}, MaySend(e, kind), Post(e, kind, n, a)
      PROVE  OneCallback'
  <2>a. PICK sent : sent = [kind |-> kind, sequence |-> n, attempt |-> a]
    OBVIOUS
  <2>b. PICK new : new = [run |-> execution[e].run, from |-> e, kind |-> kind,
                          sequence |-> n, attempt |-> a, stage |-> "append"]
    OBVIOUS
  <2>1. /\ callbacks' = callbacks \cup {new}
        /\ sending' = [sending EXCEPT ![e] = sent]
    BY <1>5, <2>a, <2>b DEF Post
  <2>2. /\ new.run = execution[e].run /\ new.from = e /\ new.kind = kind
        /\ new.sequence = sent.sequence /\ new.attempt = sent.attempt
        /\ sent.kind = kind
    BY <2>a, <2>b
  <2>3. /\ sending'[e] = sent
        /\ \A x \in Executions \ {e} : sending'[x] = sending[x]
    BY <1>1, <2>1
  <2>4. CallbacksAreOfThreads'
    <3>1. /\ execution[e].pc # "free"
          /\ \A x \in Executions : execution[x].pc # "free" =>
               execution'[x].pc # "free" /\ execution'[x].run = execution[x].run
      BY <1>5 DEF MaySend, ThreadsGoOn
    <3>2. \A c \in callbacks : execution[c.from].pc # "free" /\ execution[c.from].run = c.run
      BY DEF OneCallback, CallbacksAreOfThreads
    <3>3. QED
      BY <1>1, <2>1, <2>2, <3>1, <3>2 DEF CallbacksAreOfThreads
  <2>5. Awaited(new)'
    BY <2>2, <2>3 DEF Awaited
  <2>6. ASSUME NEW c \in callbacks
        PROVE  Awaited(c)' \/ (execution'[c.from].pc = "dead" /\ sending'[c.from] = Idle)
    <3>1. c.from \in Executions \ {e} /\ sending'[c.from] = sending[c.from]
      BY <1>1, <1>5, <2>3 DEF MaySend
    <3>2. QED
      BY <1>5, <3>1 DEF ThreadsGoOn, OneCallback, Awaited
  <2>7. \A c, d \in callbacks' : c.from = d.from => c = d
    BY <1>5, <2>1, <2>2 DEF MaySend, OneCallback
  <2>8. \A x \in Executions : sending'[x].kind \in Terminal => execution'[x].pc = "terminal"
    <3>1. kind \in Terminal => execution'[e].pc = "terminal"
      BY <1>5 DEF MaySend
    <3>2. \A x \in Executions : sending[x].kind \in Terminal => execution'[x].pc = "terminal"
      BY <1>2, <1>5 DEF ThreadsGoOn, OneCallback
    <3>3. QED
      BY <2>2, <2>3, <3>1, <3>2
  <2>9. QED
    BY <2>1, <2>4, <2>5, <2>6, <2>7, <2>8 DEF OneCallback
<1>6. ASSUME ThreadsGoOn, NEW c \in callbacks, Answer(c)
      PROVE  OneCallback'
  <2>1. callbacks' = callbacks \ {c} /\ \A d \in callbacks' : d.from # c.from
    BY <1>6 DEF Answer, OneCallback
  <2>2. \A x \in Executions : \/ sending'[x] = sending[x]
                              \/ sending'[x] = Idle /\ x = c.from
    BY <1>1, <1>6 DEF Answer
  <2>3. QED
    BY <1>3, <1>6, <2>1, <2>2
<1>7. ASSUME ThreadsGoOn, NEW c \in callbacks, UNCHANGED sending,
             callbacks' = (callbacks \ {c}) \cup {[c EXCEPT !.stage = "apply"]}
      PROVE  OneCallback'
  <2> DEFINE applied == [c EXCEPT !.stage = "apply"]
  <2>1. /\ applied.run = c.run /\ applied.from = c.from /\ applied.kind = c.kind
        /\ applied.sequence = c.sequence /\ applied.attempt = c.attempt
    BY <1>1 DEF Callback
  <2>2. callbacks' = (callbacks \ {c}) \cup {applied}
    BY <1>7
  <2> HIDE DEF applied
  <2>3. CallbacksAreOfThreads'
    BY <1>1, <1>7, <2>1, <2>2 DEF ThreadsGoOn, OneCallback, CallbacksAreOfThreads
  <2>4. ASSUME NEW d \in callbacks
        PROVE  Awaited(d)' \/ (execution'[d.from].pc = "dead" /\ sending'[d.from] = Idle)
    BY <1>1, <1>7 DEF ThreadsGoOn, OneCallback, Awaited
  <2>5. Awaited(applied)' <=> Awaited(c)'
    BY <2>1 DEF Awaited
  <2>6. \A b, d \in callbacks' : b.from = d.from => b = d
    BY <2>1, <2>2 DEF OneCallback
  <2>7. \A x \in Executions : sending'[x].kind \in Terminal => execution'[x].pc = "terminal"
    BY <1>2, <1>7 DEF ThreadsGoOn, OneCallback
  <2>8. QED
    BY <2>1, <2>2, <2>3, <2>4, <2>5, <2>6, <2>7 DEF OneCallback
<1>8. ASSUME ThreadsGoOn, NEW e \in Executions, AnswerLost(e), sending[e] # Idle,
             sending' = [sending EXCEPT ![e] = Idle], UNCHANGED callbacks
      PROVE  OneCallback'
  <2>1. \A c \in callbacks : c.from # e
    BY <1>8 DEF AnswerLost, OneCallback
  <2>2. \A x \in Executions : sending'[x] = sending[x] \/ (sending'[x] = Idle /\ x = e)
    BY <1>1, <1>8
  <2>3. QED
    BY <1>3, <1>8, <2>1, <2>2
<1>9. ASSUME ServiceRestart
      PROVE  OneCallback'
  <2>1. \A x \in Executions : /\ execution'[x].run = execution[x].run
                              /\ execution[x].pc # "free" => execution'[x].pc = "dead"
    BY <1>1, <1>9 DEF ServiceRestart, Live, ExecutionRecord
  <2>2. (\A x \in Executions : sending'[x] = Idle) /\ UNCHANGED callbacks
    BY <1>9 DEF ServiceRestart
  <2>3. QED
    BY <1>1, <2>1, <2>2 DEF OneCallback, CallbacksAreOfThreads, Idle, Terminal
<1>10. ASSUME ThreadsGoOn, NEW c \in callbacks, callbacks' = callbacks \ {c},
              UNCHANGED sending
       PROVE  OneCallback'
  BY <1>3, <1>10
<1>11. QED
  BY <1>4, <1>5, <1>6, <1>7, <1>8, <1>9, <1>10, TimelyStepDelivers DEF DeliveryStep

\* A settled run stays settled: its thread sends heartbeats at most, and no
\* other thread is of the run.
LEMMA SettledStays ==
    ASSUME TypeInv, OneHolder, OneCallback, NEW r \in Runs, Settled(r), TimelyStep
    PROVE  Settled(r)'
<1>1. PICK e \in Executions : /\ execution[e].run = r
                              /\ execution[e].pc \in {"terminal", "dead"}
                              /\ MainIdle(e)
  BY DEF Settled
<1>2. \A x \in Executions : execution[x].pc # "free" /\ execution[x].run = r => x = e
  BY <1>1 DEF OneHolder, Holds, Places, Parties
<1>3. /\ execution \in [Executions -> ExecutionRecord]
      /\ DOMAIN sending = Executions
      /\ callbacks \subseteq Callback
  BY DEF TypeInv, ServiceInv, ServiceTypeOK
<1>4. \A c \in callbacks : c.run = r => c.kind = "heartbeat"
  BY DEF Settled
<1>5. CASE ServiceRestart
  <2>1. execution'[e].run = r /\ execution'[e].pc = "dead"
    BY <1>1, <1>3, <1>5 DEF ServiceRestart, Live, ExecutionRecord
  <2>2. sending'[e].kind = "none" /\ UNCHANGED callbacks
    BY <1>5 DEF ServiceRestart, Idle
  <2>3. QED
    BY <1>4, <2>1, <2>2 DEF Settled, MainIdle
<1>6. CASE ThreadsGoOn /\ DeliveryStep
  <2>1. execution'[e].run = r /\ execution'[e].pc \in {"terminal", "dead"}
    BY <1>1, <1>6 DEF ThreadsGoOn
  <2>2. ASSUME sending'[e].kind \in {"none", "heartbeat"},
               \A c \in callbacks' : c.run = r => c.kind = "heartbeat"
        PROVE  Settled(r)'
    BY <2>1, <2>2 DEF Settled, MainIdle
  <2>3. sending[e].kind \in {"none", "heartbeat"}
    BY <1>1 DEF MainIdle
  <2>4. CASE UNCHANGED <<sending, callbacks>>
    BY <1>4, <2>2, <2>3, <2>4
  <2>5. ASSUME NEW x \in Executions, NEW kind \in CallbackKinds, NEW n \in Nat,
               NEW a \in {1, 2}, MaySend(x, kind), Post(x, kind, n, a)
        PROVE  Settled(r)'
    <3>1. PICK sent : sent = [kind |-> kind, sequence |-> n, attempt |-> a]
      OBVIOUS
    <3>2. PICK new : new = [run |-> execution[x].run, from |-> x, kind |-> kind,
                            sequence |-> n, attempt |-> a, stage |-> "append"]
      OBVIOUS
    <3>3. /\ callbacks' = callbacks \cup {new}
          /\ sending' = [sending EXCEPT ![x] = sent]
      BY <2>5, <3>1, <3>2 DEF Post
    <3>4. /\ new.run = execution[x].run /\ new.kind = kind
          /\ sent.kind = kind
      BY <3>1, <3>2
    <3>5. x = e => kind = "heartbeat"
      BY <1>1, <2>5 DEF MaySend
    <3>6. x # e => execution[x].run # r
      BY <1>2, <2>5 DEF MaySend
    <3>7. sending'[e].kind \in {"none", "heartbeat"}
      BY <1>3, <2>3, <3>3, <3>4, <3>5
    <3>8. \A c \in callbacks' : c.run = r => c.kind = "heartbeat"
      BY <1>4, <3>3, <3>4, <3>5, <3>6
    <3>9. QED
      BY <2>2, <3>7, <3>8
  <2>6. ASSUME NEW c \in callbacks, Answer(c)
        PROVE  Settled(r)'
    <3>1. sending'[e].kind \in {"none", "heartbeat"}
      BY <1>3, <2>3, <2>6 DEF Answer, Idle
    <3>2. QED
      BY <1>4, <2>2, <2>6, <3>1 DEF Answer
  <2>7. ASSUME NEW c \in callbacks, UNCHANGED sending,
               \/ callbacks' = (callbacks \ {c}) \cup {[c EXCEPT !.stage = "apply"]}
               \/ callbacks' = callbacks \ {c}
        PROVE  Settled(r)'
    <3>1. PICK applied : applied = [c EXCEPT !.stage = "apply"]
      OBVIOUS
    <3>2. applied.run = c.run /\ applied.kind = c.kind
      BY <1>3, <3>1 DEF Callback
    <3>3. \A d \in callbacks' : d \in callbacks \/ d = applied
      BY <2>7, <3>1
    <3>4. \A d \in callbacks' : d.run = r => d.kind = "heartbeat"
      BY <1>4, <3>2, <3>3
    <3>5. QED
      BY <2>2, <2>3, <2>7, <3>4
  <2>8. ASSUME NEW x \in Executions, sending' = [sending EXCEPT ![x] = Idle],
               UNCHANGED callbacks
        PROVE  Settled(r)'
    <3>1. sending'[e].kind \in {"none", "heartbeat"}
      BY <1>3, <2>3, <2>8 DEF Idle
    <3>2. QED
      BY <1>4, <2>2, <2>8, <3>1
  <2>9. QED
    BY <1>6, <2>4, <2>5, <2>6, <2>7, <2>8 DEF DeliveryStep
<1>7. QED
  BY <1>5, <1>6, TimelyStepDelivers

\* The callback that makes a run succeed is all that was left of its thread's.
LEMMA SuccessSettles ==
    ASSUME TypeInv, OneHolder, OneCallback, NEW c \in callbacks, CallbackApply(c),
           c.kind = "succeeded"
    PROVE  Settled(c.run)'
<1>1. /\ c.from \in Executions /\ c.run \in Runs
      /\ execution[c.from].pc # "free" /\ execution[c.from].run = c.run
  BY DEF OneCallback, CallbacksAreOfThreads, TypeInv, ServiceInv, ServiceTypeOK, Callback
<1>2. UNCHANGED execution /\ Answer(c)
  BY DEF CallbackApply
<1>3. execution[c.from].pc \in {"terminal", "dead"}
  BY <1>1 DEF OneCallback, Awaited, Terminal
<1>4. sending'[c.from] = Idle
  <2>1. CASE Awaited(c)
    BY <1>1, <1>2, <2>1 DEF Answer, TypeInv, ServiceInv, ServiceTypeOK
  <2>2. CASE ~Awaited(c)
    BY <1>1, <1>2, <2>2 DEF Answer, OneCallback
  <2>3. QED
    BY <2>1, <2>2
<1>5. ASSUME NEW d \in callbacks', d.run = c.run
      PROVE  d.kind = "heartbeat"
  <2>1. d \in callbacks /\ d # c
    BY <1>2, <1>5 DEF Answer
  <2>2. /\ d.from \in Executions
        /\ execution[d.from].pc # "free" /\ execution[d.from].run = c.run
    BY <1>5, <2>1 DEF OneCallback, CallbacksAreOfThreads, TypeInv, ServiceInv,
                      ServiceTypeOK, Callback
  <2>3. d.from = c.from
    BY <1>1, <2>2 DEF OneHolder, Holds, Places, Parties
  <2>4. QED
    BY <2>1, <2>3 DEF OneCallback
<1>6. QED
  BY <1>1, <1>2, <1>3, <1>4, <1>5 DEF Settled, MainIdle, Idle

\* So whenever a run is succeeded, nothing is left but heartbeats.
LEMMA NextKeepsSettled ==
    ASSUME TypeInv, OneHolder, OneCallback, SuccessIsSettled, TimelyStep, [Next]_vars
    PROVE  SuccessIsSettled'
<1> SUFFICES ASSUME NEW r \in Runs, status'[r] = "succeeded"
             PROVE  Settled(r)'
  BY DEF SuccessIsSettled
<1>1. CASE status[r] = "succeeded"
  BY <1>1, SettledStays DEF SuccessIsSettled
<1>2. CASE status[r] # "succeeded"
  <2>1. ~PublishesNothing
    BY <1>2 DEF PublishesNothing
  <2>2. PICK c \in callbacks : CallbackApply(c) /\ c.kind \in Publications
    BY <2>1, OnlyCallbacksPublish
  <2>3. c.kind = "succeeded" /\ c.run = r
    BY <1>2, <2>2 DEF CallbackApply, StoreArtifact, TransitionRun, TypeInv,
                      RepositoryTypeOK, Publications
  <2>4. QED
    BY <2>2, <2>3, SuccessSettles
<1>3. QED
  BY <1>1, <1>2

\* A party that writes a status has the run in its hand, and a thread has it.
LEMMA NextKeepsSuccess ==
    ASSUME TypeInv, HandedOnOnce, CreationsOnly, OneHolder, SuccessIsSettled,
           [Next]_vars, NEW r \in Runs, status[r] = "succeeded"
    PROVE  status'[r] = "succeeded"
<1>1. status \in [Runs -> Statuses \cup {"absent"}]
  BY DEF TypeInv, RepositoryTypeOK
<1>2. PICK e \in Executions : Holds("service", e, r)
  <2>1. PICK x \in Executions : /\ execution[x].run = r
                                /\ execution[x].pc \in {"terminal", "dead"}
    BY DEF SuccessIsSettled, Settled
  <2>2. QED
    BY <2>1 DEF Holds
<1>3. /\ \A c \in Clients : ~Holds("handler", c, r)
      /\ \A w \in Workers : ~Holds("worker", w, r)
  BY <1>2 DEF OneHolder, Places, Parties
<1>4. ExpireStaleRunningRuns => status'[r] = "succeeded"
  BY DEF ExpireStaleRunningRuns, Expired
<1>5. \A x, s : TransitionRun(x, s) /\ x # r => status'[r] = "succeeded"
  BY <1>1 DEF TransitionRun
<1>6. UNCHANGED repositoryVars => status'[r] = "succeeded"
  BY DEF repositoryVars
<1>7. ASSUME NEW c \in Clients
      PROVE  /\ \A d \in AssetDays : BeginCreate(c, d) => status'[r] = "succeeded"
             /\ HandlerStep(c) \/ EnqueueFails(c) \/ HandlerLost(c)
                  => status'[r] = "succeeded"
  <2>1. \A d \in AssetDays : BeginCreate(c, d) => status'[r] = "succeeded"
    BY <1>4 DEF BeginCreate, Call
  <2>2. InsertRun(c) => status'[r] = "succeeded"
    BY <1>1 DEF InsertRun, CreateRun, Exists
  <2>3. ReuseDailyRun(c) \/ EnqueueTask(c) \/ HandlerLost(c) => status'[r] = "succeeded"
    BY <1>4, <1>6 DEF ReuseDailyRun, EnqueueTask, HandlerLost
  <2>4. EnqueueFails(c) => status'[r] = "succeeded"
    <3>1. handler[c].pc = "enqueue" => handler[c].run # r
      BY <1>3 DEF Holds
    <3>2. QED
      BY <1>5, <1>6, <3>1 DEF EnqueueFails
  <2>5. QED
    BY <2>1, <2>2, <2>3, <2>4, CreationsExclude DEF HandlerStep
<1>8. ASSUME NEW w \in Workers
      PROVE  /\ \A x \in Runs, kind \in TaskKinds :
                  StartTask(w, x, kind) => status'[r] = "succeeded"
             /\ WorkerStep(w) => status'[r] = "succeeded"
  <2>1. worker[w].pc \in {"mark", "fail"} => worker[w].run # r
    BY <1>3 DEF Holds
  <2>2. MarkRunning(w) \/ FailRun(w) => status'[r] = "succeeded"
    BY <1>5, <2>1 DEF MarkRunning, FailRun
  <2>3. BuildEvidence(w) => status'[r] = "succeeded"
    BY DEF BuildEvidence, StoreEvidence
  <2>4. EvidenceUnavailable(w) \/ PostAccepted(w) \/ PostRejected(w) \/ Acknowledge(w)
          => status'[r] = "succeeded"
    BY <1>6 DEF EvidenceUnavailable, PostAccepted, PostRejected, Acknowledge
  <2>5. QED
    BY <1>6, <2>2, <2>3, <2>4, CreationsExclude DEF StartTask, WorkerStep
<1>9. ASSUME NEW x \in Executions, MainThread(x) \/ HeartbeatThread(x) \/ CallbackTimeout(x)
      PROVE  status'[r] = "succeeded"
  BY <1>6, <1>9 DEF MainThread, HeartbeatThread, CallbackTimeout
<1>10. ASSUME NEW c \in callbacks, HandleCallback(c) \/ CallbackLost(c)
       PROVE  status'[r] = "succeeded"
  <2>1. CallbackAppend(c) \/ CallbackLost(c) => status'[r] = "succeeded"
    BY <1>6 DEF CallbackAppend, AppendEvent, CallbackLost
  <2>2. CallbackApply(c) => c.run # r
    <3>1. c.run = r => c.kind = "heartbeat"
      BY DEF SuccessIsSettled, Settled
    <3>2. c.stage = "apply" => c.kind # "heartbeat"
      BY DEF TypeInv, ServiceInv, ServiceShape, ProgressKinds
    <3>3. QED
      BY <3>1, <3>2 DEF CallbackApply
  <2>3. CallbackApply(c) => status'[r] = "succeeded"
    BY <1>5, <2>2 DEF CallbackApply, StoreArtifact
  <2>4. QED
    BY <1>10, <2>1, <2>3 DEF HandleCallback
<1>11. Poll \/ Restart \/ (\E x \in Runs : Silence(x)) \/ UNCHANGED vars
         => status'[r] = "succeeded"
  BY <1>4, <1>6 DEF Poll, Restart, Silence, FallSilent, vars
<1>12. QED
  BY <1>7, <1>8, <1>9, <1>10, <1>11, CreationsExclude DEF Next

\* While runs are created only, and no task is repeated, no callback answered
\* late and no accepted task taken for a failed one, a success is the last word
\* on a run.  Otherwise it need not be: a cancellation or the start of a resume
\* that was under way, a redelivered task, a late callback, or a task that took
\* a lost answer for a refusal writes over whatever the row says.
THEOREM SuccessIsFinal ==
    ASSUME HandedOnOnce
    PROVE  Spec => SucceededIsFinal
<1> DEFINE Final == \A r \in Runs : status[r] = "succeeded" => status'[r] = "succeeded"
<1>1. Init => FinalInv
  <2>1. Init => CreationsOnly
    BY DEF Init, CreationsOnly, NoRequest, NoTask, TaskKinds
  <2>2. ASSUME Init
        PROVE  OneHolder
    <3>1. \A r \in Runs : queue[r]["run"] = 0
      BY <2>2 DEF Init, TaskKinds
    <3>2. \A c \in Clients : handler[c].pc = "idle"
      BY <2>2 DEF Init, NoRequest
    <3>3. \A w \in Workers : worker[w].pc = "idle"
      BY <2>2 DEF Init, NoTask
    <3>4. \A e \in Executions : execution[e].pc = "free"
      BY <2>2 DEF Init, ServiceInit
    <3>5. \A r \in Runs, place \in Places, p \in Parties : ~Holds(place, p, r)
      BY <3>1, <3>2, <3>3, <3>4 DEF Holds
    <3>6. \A r \in Runs : queue[r]["run"] <= 1
      <4>1. 0 <= 1
        OBVIOUS
      <4>2. QED
        BY <3>1, <4>1, Zenon
    <3>7. QED
      BY <3>5, <3>6, Zenon DEF OneHolder
  <2>3. Init => ThreadsHaveRows
    BY DEF Init, ServiceInit, ThreadsHaveRows
  <2>4. Init => OneCallback
    BY DEF Init, ServiceInit, OneCallback, CallbacksAreOfThreads, Idle, Terminal
  <2>5. Init => SuccessIsSettled
    BY DEF Init, RepositoryInit, SuccessIsSettled
  <2>6. QED
    BY <2>1, <2>2, <2>3, <2>4, <2>5 DEF FinalInv
<1>2. ASSUME TypeInv, RunsHaveRows, FinalInv, [Next]_vars
      PROVE  FinalInv' /\ [Final]_vars
  <2>1. TimelyStep
    BY <1>2, NextIsServiceStep DEF HandedOnOnce
  <2>2. CreationsOnly' /\ OneHolder' /\ ThreadsHaveRows'
    BY <1>2, NextKeepsCreations, NextKeepsOneHolder, NextKeepsThreadsRows DEF FinalInv
  <2>3. OneCallback' /\ SuccessIsSettled'
    BY <1>2, <2>1, TimelyStepKeepsOneCallback, NextKeepsSettled DEF FinalInv
  <2>4. Final
    BY <1>2, NextKeepsSuccess DEF FinalInv
  <2>5. QED
    BY <2>2, <2>3, <2>4 DEF FinalInv
<1>3. Spec => []RunsHaveRows
  <2>1. EvidenceInv => RunsHaveRows
    BY DEF EvidenceInv
  <2>2. QED
    BY <2>1, SpecEvidence, PTL
<1>4. QED
  BY <1>1, <1>2, <1>3, SpecTypeInv, PTL DEF Spec, SucceededIsFinal
=============================================================================
