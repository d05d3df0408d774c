---------------------------- MODULE RunRepository ----------------------------
(***************************************************************************)
(* The durable half of a TradingAgents run: the PostgreSQL tables written   *)
(* by app/services/trading_agents_repository.py.  Every operator below is   *)
(* one committed transaction of that class; a caller that performs two of   *)
(* them performs two steps.                                                 *)
(*                                                                          *)
(* One owner is modelled (expire_stale_running_runs works per owner).       *)
(* Payloads, messages and time stamps are dropped; of time the module keeps *)
(* one bit per run, silent[r]: the newest of "last event", "started_at" and *)
(* "created_at" that the expiry query looks at is older than 120 seconds.   *)
(***************************************************************************)
EXTENDS Naturals

CONSTANTS Runs,        \* run identifiers (uuid4 hex)
          AssetDays,   \* (market, symbol, analysis_date) triples of the owner
          VNAssetDays, \* the triples whose market is VNStock
          Executions,  \* executions of the graph inside the private service
          Snapshots,   \* evidence snapshots the Vietnam providers can return
          None

ASSUME AssetDaysAssumption == VNAssetDays \subseteq AssetDays
ASSUME NoneAssumption ==
    None \notin Runs \cup AssetDays \cup Executions \cup Snapshots

VARIABLES
    status,    \* trading_agents_runs.status, "absent" before the INSERT
    day,       \* request_json's (market, symbol, analysis_date), immutable
    evidence,  \* trading_agents_runs.evidence_json (its identity)
    dailyRun,  \* trading_agents_daily_runs: the run that holds the day
    events,    \* trading_agents_events: the sequence numbers stored
    artifact,  \* trading_agents_artifacts: the execution whose sha256 is kept
    silent     \* no event for longer than the heartbeat limit

repositoryVars == <<status, day, evidence, dailyRun, events, artifact, silent>>

Active   == {"queued", "running"}
Terminal == {"succeeded", "failed", "cancelled"}
Statuses == Active \cup Terminal

RepositoryTypeOK ==
    /\ status   \in [Runs -> Statuses \cup {"absent"}]
    /\ day      \in [Runs -> AssetDays \cup {None}]
    /\ evidence \in [Runs -> Snapshots \cup {None}]
    /\ dailyRun \in [AssetDays -> Runs \cup {None}]
    /\ events   \in [Runs -> SUBSET Nat]
    /\ artifact \in [Runs -> Executions \cup {None}]
    /\ silent   \in [Runs -> BOOLEAN]

RepositoryInit ==
    /\ status   = [r \in Runs |-> "absent"]
    /\ day      = [r \in Runs |-> None]
    /\ evidence = [r \in Runs |-> None]
    /\ dailyRun = [d \in AssetDays |-> None]
    /\ events   = [r \in Runs |-> {}]
    /\ artifact = [r \in Runs |-> None]
    /\ silent   = [r \in Runs |-> FALSE]

Exists(r)    == status[r] # "absent"
IsVietnam(r) == day[r] \in VNAssetDays

-----------------------------------------------------------------------------
(* create_run: the daily lock and the run row are inserted in one           *)
(* transaction; a conflict on the lock raises daily_run_exists.             *)
DailyRunExists(d) == dailyRun[d] # None

\* Mutant: the run row is inserted without the daily lock's conflict check.
CreateRunUnlocked(r, d) ==
    /\ ~Exists(r)
    /\ dailyRun' = [dailyRun EXCEPT ![d] = r]
    /\ status'   = [status EXCEPT ![r] = "queued"]
    /\ day'      = [day EXCEPT ![r] = d]
    /\ UNCHANGED <<evidence, events, artifact, silent>>

CreateRun(r, d) ==
    /\ ~Exists(r)
    /\ ~DailyRunExists(d)
    /\ dailyRun' = [dailyRun EXCEPT ![d] = r]
    /\ status'   = [status EXCEPT ![r] = "queued"]
    /\ day'      = [day EXCEPT ![r] = d]
    /\ UNCHANGED <<evidence, events, artifact, silent>>

(* transition_run: an UPDATE by primary key that looks at no status.  It     *)
(* stamps started_at when the run (re)enters "running"; the expiry query     *)
(* consults that stamp only while the run has no event at all.               *)
TransitionRun(r, s) ==
    /\ status' = IF Exists(r) THEN [status EXCEPT ![r] = s] ELSE status
    /\ silent' = IF s = "running" /\ status[r] # "running" /\ events[r] = {}
                   THEN [silent EXCEPT ![r] = FALSE] ELSE silent
    /\ UNCHANGED <<day, evidence, dailyRun, events, artifact>>

(* append_event: INSERT ... ON CONFLICT (run_id, sequence) DO NOTHING.       *)
AppendEvent(r, sequence) ==
    /\ IF Exists(r) /\ sequence \notin events[r]
         THEN /\ events' = [events EXCEPT ![r] = @ \cup {sequence}]
              /\ silent' = [silent EXCEPT ![r] = FALSE]
         ELSE UNCHANGED <<events, silent>>
    /\ UNCHANGED <<status, day, evidence, dailyRun, artifact>>

(* The MAX(sequence) that get_run_for_worker reads, 0 with no event.         *)
LastSequence(r) ==
    IF \E n \in events[r] : \A m \in events[r] : m <= n
      THEN CHOOSE n \in events[r] : \A m \in events[r] : m <= n
      ELSE 0

(* store_artifact: ON CONFLICT (run_id, artifact_name) DO NOTHING.           *)
StoreArtifact(r, e) ==
    /\ artifact' = IF Exists(r) /\ artifact[r] = None
                     THEN [artifact EXCEPT ![r] = e] ELSE artifact
    /\ UNCHANGED <<status, day, evidence, dailyRun, events, silent>>

(* store_evidence: written while NULL; a different stored checksum raises.   *)
EvidenceAccepts(r, s) == evidence[r] \in {None, s}

StoreEvidence(r, s) ==
    /\ EvidenceAccepts(r, s)
    /\ evidence' = [evidence EXCEPT ![r] = s]
    /\ UNCHANGED <<status, day, dailyRun, events, artifact, silent>>

(* expire_stale_running_runs, run by every owner-scoped read before its      *)
(* SELECT: statuses after it.                                                *)
\* Mutant: the query without status = 'running'.
ExpiredAnyStatus == [r \in Runs |-> IF silent[r] /\ status[r] \in Statuses
                                      THEN "failed" ELSE status[r]]

Expired == [r \in Runs |-> IF status[r] = "running" /\ silent[r]
                             THEN "failed" ELSE status[r]]

ExpireStaleRunningRuns ==
    /\ status' = Expired
    /\ UNCHANGED <<day, evidence, dailyRun, events, artifact, silent>>

(* 120 seconds pass without an event or a start stamp for run r.             *)
FallSilent(r) ==
    /\ Exists(r)
    /\ ~silent[r]
    /\ silent' = [silent EXCEPT ![r] = TRUE]
    /\ UNCHANGED <<status, day, evidence, dailyRun, events, artifact>>
=============================================================================
