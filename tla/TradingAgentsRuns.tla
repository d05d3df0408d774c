-------------------------- MODULE TradingAgentsRuns --------------------------
(***************************************************************************)
(* The life of a TradingAgents run across its four parties:                 *)
(*   - the Flask routes (app/routes/trading_agents.py), which read a row,   *)
(*     write it and enqueue a task in separate steps;                       *)
(*   - the Celery tasks (app/tasks/trading_agents.py) on an at-least-once   *)
(*     queue (task_acks_late, task_reject_on_worker_lost);                  *)
(*   - the private service, TradingAgentsService;                           *)
(*   - PostgreSQL, RunRepository.                                           *)
(* Failures are the members of Faults; MaxFaults bounds how many happen.    *)
(***************************************************************************)
EXTENDS TradingAgentsService

CONSTANTS Clients,      \* API request handlers running at one time
          Workers,      \* Celery worker slots
          Operations,   \* the API operations users may call
          MaxRequests,  \* bound: API calls made
          MaxQueued,    \* bound: equal tasks queued at one time
          Faults,       \* the kinds of failure that may happen
          MaxFaults     \* bound: failures in a behaviour

OperationNames == {"create", "cancel", "resume", "clear"}
TaskKinds      == {"run", "cancel", "resume", "clear"}
FaultKinds     == {"gateway", "broker", "provider", "rejected", "unavailable", "worker",
                   "restart", "lost", "slow", "outage"}

ASSUME ConfigurationAssumption ==
    /\ Operations \subseteq OperationNames
    /\ Faults \subseteq FaultKinds
    /\ {MaxRequests, MaxQueued, MaxFaults} \subseteq Nat

VARIABLES
    handler,   \* the API request each client handler is in
    requests,  \* API calls made so far
    queue,     \* tasks waiting in Redis, by run and kind
    worker,    \* the task each worker executes
    faults     \* failures so far

gatewayVars == <<handler, requests>>
celeryVars  == <<queue, worker>>
vars == <<repositoryVars, serviceVars, gatewayVars, celeryVars, faults>>

NoRequest == [pc |-> "idle", op |-> "none", run |-> None, day |-> None]
NoTask    == [pc |-> "idle", kind |-> "none", run |-> None,
              sequence |-> 0, evidence |-> None]

TypeOK ==
    /\ RepositoryTypeOK
    /\ ServiceTypeOK
    /\ CheckpointTypeOK
    /\ handler \in [Clients -> [pc: {"idle", "write", "enqueue"},
                                op: OperationNames \cup {"none"},
                                run: Runs \cup {None},
                                day: AssetDays \cup {None}]]
    /\ requests \in Nat
    /\ queue \in [Runs -> [TaskKinds -> Nat]]
    /\ worker \in [Workers -> [pc: {"idle", "cancelRow", "evidence", "mark",
                                    "post", "fail", "done"},
                               kind: TaskKinds \cup {"none"},
                               run: Runs \cup {None}, sequence: Nat,
                               evidence: Snapshots \cup {None}]]
    /\ faults \in Nat

Init ==
    /\ RepositoryInit
    /\ ServiceInit
    /\ handler  = [c \in Clients |-> NoRequest]
    /\ requests = 0
    /\ queue    = [r \in Runs |-> [k \in TaskKinds |-> 0]]
    /\ worker   = [w \in Workers |-> NoTask]
    /\ faults   = 0

Fault(kind) == kind \in Faults /\ faults < MaxFaults /\ faults' = faults + 1
NoFault     == UNCHANGED faults

\* One failure of the network may take both attempts of a callback.
NetworkFault(attempt) ==
    IF attempt = 1 THEN Fault("lost") ELSE "lost" \in Faults /\ NoFault

Enqueue(r, kind) ==
    /\ queue[r][kind] < MaxQueued
    /\ queue' = [queue EXCEPT ![r][kind] = @ + 1]

-----------------------------------------------------------------------------
(* Flask routes.  A read expires stale runs first and acts on what it saw   *)
(* then; the write and the enqueue that follow are steps of their own.      *)
Call(c, op) ==
    /\ op \in Operations
    /\ handler[c].pc = "idle"
    /\ requests < MaxRequests
    /\ requests' = requests + 1
    /\ ExpireStaleRunningRuns

(* POST /runs: an existing run of the asset and day is answered as reused.   *)
BeginCreate(c, d) ==
    /\ Call(c, "create")
    /\ handler' = IF \E r \in Runs : day[r] = d THEN handler
                  ELSE [handler EXCEPT ![c] =
                          [pc |-> "write", op |-> "create", run |-> None, day |-> d]]
    /\ UNCHANGED <<serviceVars, celeryVars, faults>>

InsertRun(c) ==
    /\ handler[c].pc = "write" /\ handler[c].op = "create"
    /\ \E r \in Runs :
         /\ CreateRun(r, handler[c].day)
         /\ handler' = [handler EXCEPT ![c].pc = "enqueue", ![c].run = r]
    /\ UNCHANGED <<serviceVars, requests, celeryVars, faults>>

(* The INSERT conflicts: daily_run_exists, answered from the day's run.      *)
ReuseDailyRun(c) ==
    /\ handler[c].pc = "write" /\ handler[c].op = "create"
    /\ DailyRunExists(handler[c].day)
    /\ ExpireStaleRunningRuns
    /\ handler' = [handler EXCEPT ![c] = NoRequest]
    /\ UNCHANGED <<serviceVars, requests, celeryVars, faults>>

(* POST /runs/{id}/resume, cancel and clear-checkpoint.                      *)
MayStart(op, s) ==
    CASE op = "cancel" -> s \in Active
      [] op = "resume" -> s \in {"failed", "cancelled"}
      [] op = "clear"  -> s \in Terminal

BeginControl(c, op, r) ==
    /\ Exists(r)
    /\ Call(c, op)
    /\ handler' = IF MayStart(op, Expired[r])
                    THEN [handler EXCEPT ![c] =
                            [pc |-> IF op = "clear" THEN "enqueue" ELSE "write",
                             op |-> op, run |-> r, day |-> None]]
                    ELSE handler
    /\ UNCHANGED <<serviceVars, celeryVars, faults>>

WriteControl(c) ==
    /\ handler[c].pc = "write" /\ handler[c].op \in {"cancel", "resume"}
    /\ TransitionRun(handler[c].run,
                     IF handler[c].op = "cancel" THEN "cancelled" ELSE "queued")
    /\ handler' = [handler EXCEPT ![c].pc = "enqueue"]
    /\ UNCHANGED <<serviceVars, requests, celeryVars, faults>>

EnqueueTask(c) ==
    /\ handler[c].pc = "enqueue"
    /\ Enqueue(handler[c].run,
               IF handler[c].op = "create" THEN "run" ELSE handler[c].op)
    /\ handler' = [handler EXCEPT ![c] = NoRequest]
    /\ UNCHANGED <<repositoryVars, serviceVars, requests, worker, faults>>

(* The broker is down.  Only create_run repairs the row.                     *)
\* Mutant: create_run's except block forgets the row.
EnqueueFailsSilently(c) ==
    /\ handler[c].pc = "enqueue"
    /\ Fault("broker")
    /\ handler' = [handler EXCEPT ![c] = NoRequest]
    /\ UNCHANGED <<repositoryVars, serviceVars, requests, celeryVars>>

EnqueueFails(c) ==
    /\ handler[c].pc = "enqueue"
    /\ Fault("broker")
    /\ IF handler[c].op = "create" THEN TransitionRun(handler[c].run, "failed")
                                   ELSE UNCHANGED repositoryVars
    /\ handler' = [handler EXCEPT ![c] = NoRequest]
    /\ UNCHANGED <<serviceVars, requests, celeryVars>>

(* The gateway process dies between two steps of a request.                  *)
HandlerLost(c) ==
    /\ handler[c].pc # "idle"
    /\ Fault("gateway")
    /\ handler' = [handler EXCEPT ![c] = NoRequest]
    /\ UNCHANGED <<repositoryVars, serviceVars, requests, celeryVars>>

(* GET /runs, GET /runs/{id} and each round of the SSE stream.               *)
Poll ==
    /\ Expired # status
    /\ ExpireStaleRunningRuns
    /\ UNCHANGED <<serviceVars, gatewayVars, celeryVars, faults>>

-----------------------------------------------------------------------------
(* Celery tasks.  A task works from the record it read at its start.         *)
WorkerAt(w, pc) == worker' = [worker EXCEPT ![w].pc = pc]

(* The step that needs the evidence snapshot, or the one that follows it.    *)
Prepare(kind, r, snapshot) ==
    IF IsVietnam(r) /\ snapshot = None THEN "evidence"
    ELSE IF kind = "run" THEN "mark" ELSE "post"

StartTask(w, r, kind) ==
    /\ worker[w].pc = "idle"
    /\ queue[r][kind] > 0
    /\ queue' = [queue EXCEPT ![r][kind] = @ - 1]
    /\ worker' = [worker EXCEPT ![w] =
           [pc |-> CASE kind = "run" /\ status[r] \in Terminal -> "done"
                     [] kind = "cancel" -> "cancelRow"
                     [] OTHER -> Prepare(kind, r, evidence[r]),
            kind |-> kind, run |-> r,
            sequence |-> LastSequence(r), evidence |-> evidence[r]]]
    /\ UNCHANGED <<repositoryVars, serviceVars, gatewayVars, faults>>

(* The cancel task writes the row before it knows of the service.            *)
CancelRow(w) ==
    /\ worker[w].pc = "cancelRow"
    /\ TransitionRun(worker[w].run, "cancelled")
    /\ WorkerAt(w, Prepare("cancel", worker[w].run, worker[w].evidence))
    /\ UNCHANGED <<serviceVars, gatewayVars, queue, faults>>

\* Mutant: the snapshot goes to the service and is not attached to the row.
BuildEvidenceUnstored(w) ==
    /\ worker[w].pc = "evidence"
    /\ \E s \in Snapshots :
         worker' = [worker EXCEPT ![w].evidence = s,
                       ![w].pc = Prepare(worker[w].kind, worker[w].run, s)]
    /\ UNCHANGED <<repositoryVars, serviceVars, gatewayVars, queue, faults>>

(* _vietnam_evidence_for_record                                              *)
BuildEvidence(w) ==
    /\ worker[w].pc = "evidence"
    /\ \E s \in Snapshots :
         /\ StoreEvidence(worker[w].run, s)
         /\ worker' = [worker EXCEPT ![w].evidence = s,
                          ![w].pc = Prepare(worker[w].kind, worker[w].run, s)]
    /\ UNCHANGED <<serviceVars, gatewayVars, queue, faults>>

Surrender(w, kinds) ==
    WorkerAt(w, IF worker[w].kind \in kinds THEN "fail" ELSE "done")

(* The providers fail, or another task attached a different snapshot.        *)
EvidenceUnavailable(w) ==
    /\ worker[w].pc = "evidence"
    /\ \/ (\E s \in Snapshots : ~EvidenceAccepts(worker[w].run, s)) /\ NoFault
       \/ Fault("provider")
    /\ Surrender(w, {"run", "resume"})
    /\ UNCHANGED <<repositoryVars, serviceVars, gatewayVars, queue>>

MarkRunning(w) ==
    /\ worker[w].pc = "mark"
    /\ TransitionRun(worker[w].run, "running")
    /\ WorkerAt(w, "post")
    /\ UNCHANGED <<serviceVars, gatewayVars, queue, faults>>

(* post_to_service: what the endpoint does when it is reached ...            *)
Posting(w, kinds) == worker[w].pc = "post" /\ worker[w].kind \in kinds

EndpointAccepts(w) ==
    LET r == worker[w].run
    IN  \/ /\ Posting(w, {"run", "resume"})
           /\ \/ Submit(r, worker[w].sequence, worker[w].evidence)
              \/ AlreadyRunning(r)
        \/ Posting(w, {"cancel"}) /\ RequestCancel(r)
        \/ Posting(w, {"clear"})  /\ ClearCheckpoint(r)

PostAccepted(w) ==
    /\ EndpointAccepts(w)
    /\ WorkerAt(w, "done")
    /\ UNCHANGED <<repositoryVars, gatewayVars, queue, faults>>

(* ... 409 from the registry, or 400/401/422 for the request itself ...      *)
PostRejected(w) ==
    /\ worker[w].pc = "post"
    /\ \/ Posting(w, {"run", "resume"}) /\ CancellationPending(worker[w].run) /\ NoFault
       \/ Posting(w, {"clear"}) /\ activeRuns[worker[w].run] # None /\ NoFault
       \/ Fault("rejected")
    /\ Surrender(w, {"run", "resume"})
    /\ UNCHANGED <<repositoryVars, serviceVars, gatewayVars, queue>>

(* ... or no usable answer, perhaps to a request that was carried out.       *)
PostUnavailable(w) ==
    /\ worker[w].pc = "post"
    /\ Fault("unavailable")
    /\ EndpointAccepts(w) \/ UNCHANGED serviceVars
    /\ Surrender(w, {"run", "resume", "clear"})
    /\ UNCHANGED <<repositoryVars, gatewayVars, queue>>

FailRun(w) ==
    /\ worker[w].pc = "fail"
    /\ TransitionRun(worker[w].run, "failed")
    /\ WorkerAt(w, "done")
    /\ UNCHANGED <<serviceVars, gatewayVars, queue, faults>>

Acknowledge(w) ==
    /\ worker[w].pc = "done"
    /\ worker' = [worker EXCEPT ![w] = NoTask]
    /\ UNCHANGED <<repositoryVars, serviceVars, gatewayVars, queue, faults>>

(* acks_late: a worker lost before its acknowledgement, even after the body  *)
(* of the task has run, puts the task back on the queue.                     *)
WorkerLost(w) ==
    /\ worker[w].pc # "idle"
    /\ Fault("worker")
    /\ Enqueue(worker[w].run, worker[w].kind)
    /\ worker' = [worker EXCEPT ![w] = NoTask]
    /\ UNCHANGED <<repositoryVars, serviceVars, gatewayVars>>

-----------------------------------------------------------------------------
(* The service, its callbacks and time.                                      *)
MainThread(e) ==
    /\ \/ PublishRunning(e)  \/ EnterGraph(e)       \/ GraphChunk(e)
       \/ GraphEnd(e)        \/ SaveNativeReport(e) \/ PublishArtifact(e)
       \/ RunFails(e)        \/ PublishTerminal(e)  \/ Finish(e)
    /\ UNCHANGED <<repositoryVars, gatewayVars, celeryVars, faults>>

HeartbeatThread(e) ==
    /\ Heartbeat(e)
    /\ UNCHANGED <<repositoryVars, gatewayVars, celeryVars, faults>>

HandleCallback(c) ==
    /\ CallbackAppend(c) \/ CallbackApply(c)
    /\ UNCHANGED <<gatewayVars, celeryVars, faults>>

CallbackLost(c) ==
    /\ NetworkFault(c.attempt)
    /\ LoseCallback(c)
    /\ UNCHANGED <<repositoryVars, gatewayVars, celeryVars>>

(* The five-second timeout of _callback, with the request gone or still in   *)
(* the gateway.                                                              *)
CallbackTimeout(e) ==
    /\ IF AnswerLost(e) THEN NoFault ELSE Fault("slow")
    /\ NoAnswer(e)
    /\ UNCHANGED <<repositoryVars, gatewayVars, celeryVars>>

Restart ==
    /\ Fault("restart")
    /\ ServiceRestart
    /\ UNCHANGED <<repositoryVars, gatewayVars, celeryVars>>

(* A living execution has a heartbeat every five seconds, so 120 silent      *)
(* seconds pass without one, or while its callbacks do not get through.      *)
Silence(r) ==
    /\ IF Executing(r) THEN Fault("outage") ELSE NoFault
    /\ FallSilent(r)
    /\ UNCHANGED <<serviceVars, gatewayVars, celeryVars>>

-----------------------------------------------------------------------------
HandlerStep(c) == \/ InsertRun(c) \/ ReuseDailyRun(c) \/ WriteControl(c)
                  \/ EnqueueTask(c)

WorkerStep(w) == \/ CancelRow(w)    \/ BuildEvidence(w) \/ EvidenceUnavailable(w)
                 \/ MarkRunning(w)  \/ PostAccepted(w)  \/ PostRejected(w)
                 \/ PostUnavailable(w) \/ FailRun(w)    \/ Acknowledge(w)

Next ==
    \/ \E c \in Clients : \/ \E d \in AssetDays : BeginCreate(c, d)
                          \/ \E r \in Runs, op \in OperationNames \ {"create"} :
                               BeginControl(c, op, r)
                          \/ HandlerStep(c)
                          \/ EnqueueFails(c)
                          \/ HandlerLost(c)
    \/ Poll
    \/ \E w \in Workers : \/ \E r \in Runs, kind \in TaskKinds : StartTask(w, r, kind)
                          \/ WorkerStep(w)
                          \/ WorkerLost(w)
    \/ \E e \in Executions : MainThread(e) \/ HeartbeatThread(e) \/ CallbackTimeout(e)
    \/ \E c \in callbacks : HandleCallback(c) \/ CallbackLost(c)
    \/ Restart
    \/ \E r \in Runs : Silence(r)

Spec == Init /\ [][Next]_vars

-----------------------------------------------------------------------------
(* Fairness.  Celery, the gateway and the service's threads keep running;    *)
(* every network wait has a timeout; the graph's model and data requests are *)
(* bounded, so a chunk, the end or an exception comes; a client polls an     *)
(* open run.  No failure and no user request has to happen.                  *)
SteadyService(e) == MainThread(e) \/ (AnswerLost(e) /\ CallbackTimeout(e))

Fairness ==
    /\ WF_vars(Poll)
    /\ \A r \in Runs : WF_vars(~Executing(r) /\ Silence(r))
    /\ \A c \in Clients : WF_vars(HandlerStep(c))
    /\ \A w \in Workers : WF_vars(WorkerStep(w) /\ NoFault)
    /\ WF_vars(\E w \in Workers, r \in Runs, kind \in TaskKinds : StartTask(w, r, kind))
    /\ \A e \in Executions : WF_vars(SteadyService(e))
    /\ WF_vars(\E c \in callbacks : HandleCallback(c))

FairSpec == Spec /\ Fairness

-----------------------------------------------------------------------------
(* Safety.                                                                   *)

(* "A persistent lock makes the one-report-per-owner/instrument/Vietnam-day  *)
(* policy safe even when two browser requests arrive concurrently"           *)
(* (20260905_trading_agents.sql:34): create_run's early reuse checks race,   *)
(* yet no two runs are ever of one asset and day.                            *)
OneRunPerDay ==
    \A r1, r2 \in Runs : Exists(r1) /\ Exists(r2) /\ day[r1] = day[r2] => r1 = r2

(* Redelivered tasks, resumes and restarts never have two threads execute    *)
(* the same run: submit() and the finally block keep the registry exact.     *)
OneExecutionPerRun ==
    \A e1, e2 \in Executions :
        Live(e1) /\ Live(e2) /\ execution[e1].run = execution[e2].run => e1 = e2

(* However callbacks are delayed, repeated or lost, a run is succeeded, or   *)
(* has an artifact row, only if an execution wrote its report to the volume. *)
PublishedRunsHaveReport ==
    \A r \in Runs : status[r] = "succeeded" \/ artifact[r] # None => report[r] # None

(* As long as every callback gets its answer, a succeeded run has the        *)
(* artifact row without which list_owned_reports and the UI leave it out:    *)
(* the artifact's publish ends before the terminal one begins.               *)
SucceededRunsAreListed ==
    \A r \in Runs : status[r] = "succeeded" => artifact[r] # None

(* The graph only ever reasons over the evidence stored with its run, though *)
(* every task builds a snapshot when its record had none.                    *)
ExecutesStoredEvidence ==
    \A e \in Executions : Live(e) =>
        LET r == execution[e].run
        IN  /\ execution[e].evidence = evidence[r]
            /\ IsVietnam(r) <=> evidence[r] # None

(* The checkpoint a living thread streams into is dropped by that thread     *)
(* when its stream has ended, never by a clear-checkpoint of its own run.    *)
(* Only another run of the same instrument, day and graph can take it: the   *)
(* end of its stream, or a clear-checkpoint of it while it does not execute. *)
StreamEnds(e) == execution[e].pc = "graph" /\ execution'[e].pc = "save"
Clears(w) == /\ Posting(w, {"clear"}) /\ worker'[w].pc # "post"
             /\ activeRuns[worker[w].run] = None
SharesCheckpoint(r1, r2) == r1 # r2 /\ CheckpointOf(r1) = CheckpointOf(r2)

CheckpointOutlivesItsGraph ==
    [][\A e \in Executions :
         LET r == execution[e].run
         IN  Live(e) /\ CheckpointOf(r) \in checkpoint \ checkpoint'
               => \/ StreamEnds(e)
                  \/ \E x \in Executions :
                       StreamEnds(x) /\ SharesCheckpoint(execution[x].run, r)
                  \/ \E w \in Workers :
                       Clears(w) /\ SharesCheckpoint(worker[w].run, r)]_vars

(* A succeeded run stays succeeded: nothing that was already under way when  *)
(* it settled (a task, an older callback, a poll) writes over it.            *)
SucceededIsFinal ==
    [][\A r \in Runs : status[r] = "succeeded" => status'[r] = "succeeded"]_vars

-----------------------------------------------------------------------------
(* Liveness.                                                                 *)

(* "Fail runs whose service heartbeat disappeared instead of leaving them    *)
(* active forever" (trading_agents_repository.py:292): a queued or running   *)
(* run is eventually settled.                                                *)
ActiveRunsSettle ==
    \A r \in Runs : status[r] \in Active ~> status[r] \in Terminal

(* A thread leaves the registry even when no attempt of any of its callbacks *)
(* gets an answer.                                                           *)
ExecutionsEnd == \A e \in Executions : Live(e) ~> ~Live(e)

=============================================================================
