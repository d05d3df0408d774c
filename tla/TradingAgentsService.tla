------------------------ MODULE TradingAgentsService ------------------------
(***************************************************************************)
(* The private FastAPI service (trading_agents_service/app/main.py and      *)
(* runner.py) and the signed callbacks with which it reports to the gateway *)
(* (persist_callback in app/services/trading_agents.py).                    *)
(*                                                                          *)
(* The endpoints are coroutines that never await between reading and        *)
(* writing active_runs, in one uvicorn process, so an endpoint is one step. *)
(* Each accepted run is executed by a thread of its own; its publishes go   *)
(* through publish_lock one at a time, each an HTTP POST tried at most      *)
(* twice.  Both copies of a retried POST can be in the gateway at once.     *)
(***************************************************************************)
EXTENDS RunRepository

CONSTANTS MaxChunks,      \* bound: graph chunks streamed by one execution
          MaxHeartbeats,  \* bound: heartbeats published by one execution
          ThreadIds,      \* LangGraph's thread ids in the owner's data directory
          ThreadId        \* thread_id of an asset and day: a hash of ticker, date
                          \* and graph signature; several symbols have one ticker

ASSUME ThreadIdAssumption == ThreadId \in [AssetDays -> ThreadIds]
ASSUME BoundsAssumption == MaxChunks \in Nat \ {0} /\ MaxHeartbeats \in Nat

VARIABLES
    activeRuns,  \* active_runs: the execution registered for a run, or None
    execution,   \* the execute() threads
    sending,     \* per execution, the callback its publish_lock holder awaits
    callbacks,   \* callback requests inside the network or the gateway
    checkpoint,  \* thread ids with a native SQLite checkpoint on the volume
    report       \* complete_report.md on the volume: the execution it is from

serviceVars == <<activeRuns, execution, sending, callbacks, checkpoint, report>>

ExecutionStates == {"free", "start", "begin", "graph", "save", "artifact",
                    "succeed", "cancel", "fail", "terminal", "dead"}
TerminalKinds   == Terminal
ProgressKinds   == {"chunk", "heartbeat"}
CallbackKinds   == {"running", "artifact"} \cup ProgressKinds \cup TerminalKinds

Idle == [kind |-> "none", sequence |-> 0, attempt |-> 0]

ExecutionRecord ==
    [pc: ExecutionStates, run: Runs \cup {None}, sequence: Nat,
     cancelled: BOOLEAN, evidence: Snapshots \cup {None},
     chunks: Nat, heartbeats: Nat]

Callback ==
    [run: Runs, from: Executions, kind: CallbackKinds, sequence: Nat,
     attempt: {1, 2}, stage: {"append", "apply"}]

ServiceTypeOK ==
    /\ activeRuns \in [Runs -> Executions \cup {None}]
    /\ execution  \in [Executions -> ExecutionRecord]
    /\ sending    \in [Executions -> {Idle} \cup
                         [kind: CallbackKinds, sequence: Nat, attempt: {1, 2}]]
    /\ callbacks  \in SUBSET Callback
    /\ report     \in [Runs -> Executions \cup {None}]

CheckpointTypeOK == checkpoint \in SUBSET ThreadIds

ServiceInit ==
    /\ activeRuns = [r \in Runs |-> None]
    /\ execution  = [e \in Executions |->
                       [pc |-> "free", run |-> None, sequence |-> 0,
                        cancelled |-> FALSE, evidence |-> None,
                        chunks |-> 0, heartbeats |-> 0]]
    /\ sending    = [e \in Executions |-> Idle]
    /\ callbacks  = {}
    /\ checkpoint = {}
    /\ report     = [r \in Runs |-> None]

Live(e)      == execution[e].pc \notin {"free", "dead"}
Executing(r) == \E e \in Executions : Live(e) /\ execution[e].run = r
Goto(e, pc)  == execution' = [execution EXCEPT ![e].pc = pc]

\* The checkpoint a run streams into, shared with the owner's other runs of
\* the same instrument, day and graph.
CheckpointOf(r) == ThreadId[day[r]]

\* The main thread is not inside a publish of its own.
MainIdle(e)  == sending[e].kind \in {"none", "heartbeat"}

-----------------------------------------------------------------------------
(* Endpoints.  submit() answers with a new thread, "already running" or 409. *)
CancellationPending(r) ==
    activeRuns[r] # None /\ execution[activeRuns[r]].cancelled

\* Mutant: submit() without the look at active_runs.
SubmitUnregistered(r, sequence, snapshot) ==
    /\ \E e \in Executions :
         /\ execution[e].pc = "free"
         /\ activeRuns' = [activeRuns EXCEPT ![r] = e]
         /\ execution' = [execution EXCEPT ![e] =
                [pc |-> "start", run |-> r, sequence |-> sequence,
                 cancelled |-> FALSE, evidence |-> snapshot,
                 chunks |-> 0, heartbeats |-> 0]]
    /\ UNCHANGED <<sending, callbacks, checkpoint, report>>

Submit(r, sequence, snapshot) ==
    /\ activeRuns[r] = None
    /\ \E e \in Executions :
         /\ execution[e].pc = "free"
         /\ activeRuns' = [activeRuns EXCEPT ![r] = e]
         /\ execution' = [execution EXCEPT ![e] =
                [pc |-> "start", run |-> r, sequence |-> sequence,
                 cancelled |-> FALSE, evidence |-> snapshot,
                 chunks |-> 0, heartbeats |-> 0]]
    /\ UNCHANGED <<sending, callbacks, checkpoint, report>>

AlreadyRunning(r) ==
    /\ activeRuns[r] # None
    /\ ~CancellationPending(r)
    /\ UNCHANGED serviceVars

RequestCancel(r) ==
    /\ execution' = IF activeRuns[r] = None THEN execution
                    ELSE [execution EXCEPT ![activeRuns[r]].cancelled = TRUE]
    /\ UNCHANGED <<activeRuns, sending, callbacks, checkpoint, report>>

\* Mutant: the endpoint clears a run that executes.
ClearActiveCheckpoint(r) ==
    /\ checkpoint' = checkpoint \ {CheckpointOf(r)}
    /\ UNCHANGED <<activeRuns, execution, sending, callbacks, report>>

(* run_active is asked of this run alone, not of those that share it.        *)
ClearCheckpoint(r) ==
    /\ activeRuns[r] = None
    /\ checkpoint' = checkpoint \ {CheckpointOf(r)}
    /\ UNCHANGED <<activeRuns, execution, sending, callbacks, report>>

-----------------------------------------------------------------------------
(* publish(): the sequence is taken and the POST sent under publish_lock.    *)
Post(e, kind, sequence, attempt) ==
    /\ sending' = [sending EXCEPT ![e] = [kind |-> kind, sequence |-> sequence,
                                          attempt |-> attempt]]
    /\ callbacks' = callbacks \cup
         {[run |-> execution[e].run, from |-> e, kind |-> kind,
           sequence |-> sequence, attempt |-> attempt, stage |-> "append"]}

Publish(e, kind) ==
    /\ sending[e] = Idle
    /\ Post(e, kind, execution[e].sequence + 1, 1)

(* One main-thread publish, after which the thread is at pc.                 *)
PublishAndGoto(e, kind, pc) ==
    /\ Publish(e, kind)
    /\ execution' = [execution EXCEPT ![e].pc = pc, ![e].sequence = @ + 1]
    /\ UNCHANGED <<activeRuns, checkpoint, report>>

PublishRunning(e) ==
    execution[e].pc = "start" /\ PublishAndGoto(e, "running", "begin")

(* run_full_graph checks for cancellation before the stream ...              *)
EnterGraph(e) ==
    /\ execution[e].pc = "begin"
    /\ MainIdle(e)
    /\ Goto(e, IF execution[e].cancelled THEN "cancel" ELSE "graph")
    /\ UNCHANGED <<activeRuns, sending, callbacks, checkpoint, report>>

(* ... and after every chunk, which LangGraph has checkpointed already.      *)
GraphChunk(e) ==
    /\ execution[e].pc = "graph"
    /\ execution[e].chunks < MaxChunks
    /\ MainIdle(e)
    /\ checkpoint' = checkpoint \cup {CheckpointOf(execution[e].run)}
    /\ IF execution[e].cancelled
         THEN Goto(e, "cancel") /\ UNCHANGED <<sending, callbacks>>
         ELSE /\ Publish(e, "chunk")
              /\ execution' = [execution EXCEPT ![e].sequence = @ + 1,
                                                ![e].chunks = @ + 1]
    /\ UNCHANGED <<activeRuns, report>>

(* The stream ends: the checkpoint goes before the report is written.        *)
GraphEnd(e) ==
    /\ execution[e].pc = "graph"
    /\ execution[e].chunks > 0
    /\ MainIdle(e)
    /\ checkpoint' = checkpoint \ {CheckpointOf(execution[e].run)}
    /\ Goto(e, "save")
    /\ UNCHANGED <<activeRuns, sending, callbacks, report>>

SaveNativeReport(e) ==
    /\ execution[e].pc = "save"
    /\ report' = [report EXCEPT ![execution[e].run] = e]
    /\ Goto(e, "artifact")
    /\ UNCHANGED <<activeRuns, sending, callbacks, checkpoint>>

\* Mutant: the artifact callback is forgotten.
SkipArtifact(e) ==
    /\ execution[e].pc = "artifact"
    /\ Goto(e, "succeed")
    /\ UNCHANGED <<activeRuns, sending, callbacks, checkpoint, report>>

PublishArtifact(e) ==
    execution[e].pc = "artifact" /\ PublishAndGoto(e, "artifact", "succeed")

(* An exception of the graph or of the report writer.                        *)
\* Mutant: an exception of the report writer is swallowed.
RunFailsUnlessSaving(e) ==
    /\ execution[e].pc \in {"begin", "graph", "save"}
    /\ MainIdle(e)
    /\ Goto(e, IF execution[e].pc = "save" THEN "artifact" ELSE "fail")
    /\ UNCHANGED <<activeRuns, sending, callbacks, checkpoint, report>>

RunFails(e) ==
    /\ execution[e].pc \in {"begin", "graph", "save"}
    /\ MainIdle(e)
    /\ Goto(e, "fail")
    /\ UNCHANGED <<activeRuns, sending, callbacks, checkpoint, report>>

PublishTerminal(e) ==
    \/ execution[e].pc = "succeed" /\ PublishAndGoto(e, "succeeded", "terminal")
    \/ execution[e].pc = "cancel"  /\ PublishAndGoto(e, "cancelled", "terminal")
    \/ execution[e].pc = "fail"    /\ PublishAndGoto(e, "failed", "terminal")

(* The finally block; a heartbeat still being sent does not hold it up.      *)
Finish(e) ==
    /\ execution[e].pc = "terminal"
    /\ MainIdle(e)
    /\ activeRuns' = [r \in Runs |-> IF activeRuns[r] = e THEN None
                                     ELSE activeRuns[r]]
    /\ Goto(e, "dead")
    /\ UNCHANGED <<sending, callbacks, checkpoint, report>>

(* The heartbeat thread publishes from tracker.start() to the finally block. *)
Heartbeat(e) ==
    /\ Live(e) /\ execution[e].pc # "start"
    /\ execution[e].heartbeats < MaxHeartbeats
    /\ Publish(e, "heartbeat")
    /\ execution' = [execution EXCEPT ![e].sequence = @ + 1,
                                      ![e].heartbeats = @ + 1]
    /\ UNCHANGED <<activeRuns, checkpoint, report>>

(* The process dies; registry and threads go, requests already sent do not.  *)
ServiceRestart ==
    /\ \E e \in Executions : Live(e)
    /\ execution' = [e \in Executions |->
                       IF Live(e) THEN [execution[e] EXCEPT !.pc = "dead"]
                       ELSE execution[e]]
    /\ activeRuns' = [r \in Runs |-> None]
    /\ sending' = [e \in Executions |-> Idle]
    /\ UNCHANGED <<callbacks, checkpoint, report>>

-----------------------------------------------------------------------------
(* persist_callback in the gateway: two transactions, then the response.     *)
Awaited(c) == /\ sending[c.from].kind = c.kind
              /\ sending[c.from].sequence = c.sequence
              /\ sending[c.from].attempt = c.attempt

Answer(c) ==
    /\ callbacks' = callbacks \ {c}
    /\ sending' = IF Awaited(c) THEN [sending EXCEPT ![c.from] = Idle]
                  ELSE sending

CallbackAppend(c) ==
    /\ c.stage = "append"
    /\ AppendEvent(c.run, c.sequence)
    /\ IF c.kind \in ProgressKinds
         THEN Answer(c)
         ELSE /\ callbacks' = (callbacks \ {c}) \cup
                                {[c EXCEPT !.stage = "apply"]}
              /\ UNCHANGED sending
    /\ UNCHANGED <<activeRuns, execution, checkpoint, report>>

CallbackApply(c) ==
    /\ c.stage = "apply"
    /\ IF c.kind = "artifact" THEN StoreArtifact(c.run, c.from)
                              ELSE TransitionRun(c.run, c.kind)
    /\ Answer(c)
    /\ UNCHANGED <<activeRuns, execution, checkpoint, report>>

(* The POST is lost, or the gateway worker dies over it, without an answer.  *)
LoseCallback(c) ==
    /\ callbacks' = callbacks \ {c}
    /\ UNCHANGED <<activeRuns, execution, sending, checkpoint, report>>

(* _callback after urlopen raised: a second attempt, then only a log line.   *)
\* Mutants: one attempt too many, and a POST without a timeout.
NoAnswerOnceMore(e) ==
    /\ sending[e] # Idle
    /\ IF sending[e].attempt < 3
         THEN Post(e, sending[e].kind, sending[e].sequence, sending[e].attempt + 1)
         ELSE /\ sending' = [sending EXCEPT ![e] = Idle]
              /\ UNCHANGED callbacks
    /\ UNCHANGED <<activeRuns, execution, checkpoint, report>>
NoAnswerForever(e) == FALSE

NoAnswer(e) ==
    /\ sending[e] # Idle
    /\ IF sending[e].attempt = 1
         THEN Post(e, sending[e].kind, sending[e].sequence, 2)
         ELSE /\ sending' = [sending EXCEPT ![e] = Idle]
              /\ UNCHANGED callbacks
    /\ UNCHANGED <<activeRuns, execution, checkpoint, report>>

AnswerLost(e) == ~\E c \in callbacks : c.from = e /\ Awaited(c)
=============================================================================
