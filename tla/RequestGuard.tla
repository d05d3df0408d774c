---------------------------- MODULE RequestGuard -----------------------------
(***************************************************************************)
(* app/utils/request_guard.py, guarded_cached: reads that many clients     *)
(* poll are answered from a short-lived cache, or by one computation per   *)
(* key that all who ask share; a semaphore bounds the computations, and a  *)
(* stale value stands in for one that is late, refused or failed.          *)
(*                                                                         *)
(* What is computed is the version of the data it was read from; 0 is no   *)
(* value.  One process of the gateway.                                     *)
(***************************************************************************)
EXTENDS Naturals, FiniteSets

CONSTANTS
    Callers,        \* request threads
    Keys,           \* cache keys of the namespace
    Futures,        \* futures of the executor
    None,
    MaxConcurrent,  \* permits of the namespace
    MaxVersion,     \* bound: changes of the data
    MaxFaults       \* bound: computations that fail and waits that time out

ASSUME PermitsAssumption == MaxConcurrent \in Nat \ {0}
ASSUME FuturesAssumption == IsFiniteSet(Futures) /\ None \notin Futures
ASSUME KeysAssumption == None \notin Keys

VARIABLES
    caller,     \* what each thread does
    future,     \* what becomes of each future
    inflight,   \* _inflight: the future of a key
    permits,    \* of the semaphore
    fresh,      \* guard:fresh values
    stale,      \* guard:stale values
    version,    \* of the data
    faults

guardVars == <<caller, future, inflight, permits, fresh, stale, version, faults>>

Fault == faults < MaxFaults /\ faults' = faults + 1

Idle == [at |-> "idle", key |-> None, stale |-> 0, on |-> None, got |-> 0]
Unused == [at |-> "done", key |-> None, value |-> 0]

GuardInit ==
    /\ caller = [c \in Callers |-> Idle]
    /\ future = [f \in Futures |-> Unused]
    /\ inflight = [k \in Keys |-> None]
    /\ permits = MaxConcurrent
    /\ fresh = [k \in Keys |-> 0] /\ stale = [k \in Keys |-> 0]
    /\ version = 1 /\ faults = 0
-----------------------------------------------------------------------------
(* A thread: guarded_cached up to the answer, which got holds, 0 an error. *)
Call(c, k) ==
    /\ caller[c].at = "idle"
    /\ caller' = [caller EXCEPT ![c] = [Idle EXCEPT !.at = "fresh", !.key = k]]
    /\ UNCHANGED <<future, inflight, permits, fresh, stale, version, faults>>

Answer(c, value) ==
    caller' = [caller EXCEPT ![c] = [Idle EXCEPT !.at = "answered", !.got = value,
                                                 !.key = caller[c].key]]

CheckFresh(c) ==
    /\ caller[c].at = "fresh"
    /\ LET k == caller[c].key IN
       IF fresh[k] # 0 THEN Answer(c, fresh[k])
       ELSE caller' = [caller EXCEPT ![c].at = "stale"]
    /\ UNCHANGED <<future, inflight, permits, fresh, stale, version, faults>>

ReadStale(c) ==
    /\ caller[c].at = "stale"
    /\ caller' = [caller EXCEPT ![c].at = "lock",
                                ![c].stale = stale[caller[c].key]]
    /\ UNCHANGED <<future, inflight, permits, fresh, stale, version, faults>>

(* Under the lock: wait for the computation there is, or begin one.        *)
Waits(c, f) == caller' = [caller EXCEPT ![c].at = "wait", ![c].on = f]

Join(c) ==
    /\ caller[c].at = "lock"
    /\ inflight[caller[c].key] # None
    /\ Waits(c, inflight[caller[c].key])
    /\ UNCHANGED <<future, inflight, permits, fresh, stale, version, faults>>

Refuse(c) ==
    /\ caller[c].at = "lock"
    /\ inflight[caller[c].key] = None
    /\ permits = 0
    /\ Answer(c, caller[c].stale)
    /\ UNCHANGED <<future, inflight, permits, fresh, stale, version, faults>>

(* A future nobody holds, of the executor's memory.                        *)
Available(f) ==
    /\ future[f].at \in {"done", "failed"}
    /\ \A k \in Keys : inflight[k] # f
    /\ \A c \in Callers : caller[c].on # f

Submit(c, f) ==
    LET k == caller[c].key IN
    /\ permits > 0
    /\ Available(f)
    /\ permits' = permits - 1
    /\ future' = [future EXCEPT ![f] = [at |-> "queued", key |-> k, value |-> 0]]
    /\ inflight' = [inflight EXCEPT ![k] = f]
    /\ Waits(c, f)

(* Mutant: the lookup in _inflight is left out.                            *)
BeginAlways(c, f) ==
    /\ caller[c].at = "lock"
    /\ Submit(c, f)
    /\ UNCHANGED <<fresh, stale, version, faults>>

Begin(c, f) ==
    /\ caller[c].at = "lock"
    /\ inflight[caller[c].key] = None
    /\ Submit(c, f)
    /\ UNCHANGED <<fresh, stale, version, faults>>

Await(c) ==
    /\ caller[c].at = "wait"
    /\ \/ future[caller[c].on].at = "done"
          /\ Answer(c, future[caller[c].on].value)
       \/ future[caller[c].on].at = "failed"
          /\ Answer(c, caller[c].stale)
    /\ UNCHANGED <<future, inflight, permits, fresh, stale, version, faults>>

TimesOut(c) ==
    /\ caller[c].at = "wait"
    /\ future[caller[c].on].at \notin {"done", "failed"}
    /\ Answer(c, caller[c].stale)
    /\ Fault
    /\ UNCHANGED <<future, inflight, permits, fresh, stale, version>>
-----------------------------------------------------------------------------
(* A worker: _run, and the callback that takes the future out of _inflight.*)
Moves(f, at) == future' = [future EXCEPT ![f].at = at]

Compute(f) ==
    /\ future[f].at = "queued"
    /\ future' = [future EXCEPT ![f].at = "read", ![f].value = version]
    /\ UNCHANGED <<caller, inflight, permits, fresh, stale, version, faults>>

ComputeFails(f) ==
    /\ future[f].at = "queued"
    /\ Moves(f, "failing")
    /\ Fault
    /\ UNCHANGED <<caller, inflight, permits, fresh, stale, version>>

StoreFresh(f) ==
    /\ future[f].at = "read"
    /\ fresh' = [fresh EXCEPT ![future[f].key] = future[f].value]
    /\ Moves(f, "cached")
    /\ UNCHANGED <<caller, inflight, permits, stale, version, faults>>

StoreStale(f) ==
    /\ future[f].at = "cached"
    /\ stale' = [stale EXCEPT ![future[f].key] = future[f].value]
    /\ Moves(f, "stored")
    /\ UNCHANGED <<caller, inflight, permits, fresh, version, faults>>

(* Mutant: a computation that failed keeps its permit.                     *)
FinishLeaking(f) ==
    /\ future[f].at \in {"stored", "failing"}
    /\ permits' = IF future[f].at = "stored" THEN permits + 1 ELSE permits
    /\ Moves(f, IF future[f].at = "stored" THEN "done" ELSE "failed")
    /\ UNCHANGED <<caller, inflight, fresh, stale, version, faults>>

(* The permit is released, then the future has its result.                 *)
Finish(f) ==
    /\ future[f].at \in {"stored", "failing"}
    /\ permits' = permits + 1
    /\ Moves(f, IF future[f].at = "stored" THEN "done" ELSE "failed")
    /\ UNCHANGED <<caller, inflight, fresh, stale, version, faults>>

(* Mutant: the future leaves _inflight before it is done.                  *)
CleanupEarly(k) ==
    /\ inflight[k] # None
    /\ inflight' = [inflight EXCEPT ![k] = None]
    /\ UNCHANGED <<caller, future, permits, fresh, stale, version, faults>>

(* Mutant: the callback releases a permit too.                             *)
CleanupReleasing(k) ==
    /\ inflight[k] # None
    /\ future[inflight[k]].at \in {"done", "failed"}
    /\ inflight' = [inflight EXCEPT ![k] = None]
    /\ permits' = permits + 1
    /\ UNCHANGED <<caller, future, fresh, stale, version, faults>>

Cleanup(k) ==
    /\ inflight[k] # None
    /\ future[inflight[k]].at \in {"done", "failed"}
    /\ inflight' = [inflight EXCEPT ![k] = None]
    /\ UNCHANGED <<caller, future, permits, fresh, stale, version, faults>>

(* The stale value outlives the fresh one, which was stored before it.     *)
FreshExpires(k) ==
    /\ fresh[k] # 0
    /\ fresh' = [fresh EXCEPT ![k] = 0]
    /\ UNCHANGED <<caller, future, inflight, permits, stale, version, faults>>

StaleExpires(k) ==
    /\ stale[k] # 0 /\ fresh[k] = 0
    /\ stale' = [stale EXCEPT ![k] = 0]
    /\ UNCHANGED <<caller, future, inflight, permits, fresh, version, faults>>

(* Somebody writes the data; a thread takes up another request.            *)
DataChange ==
    /\ version < MaxVersion
    /\ version' = version + 1
    /\ UNCHANGED <<caller, future, inflight, permits, fresh, stale, faults>>

Delivered(c) ==
    /\ caller[c].at = "answered"
    /\ caller' = [caller EXCEPT ![c] = Idle]
    /\ UNCHANGED <<future, inflight, permits, fresh, stale, version, faults>>
-----------------------------------------------------------------------------
CallerStep(c) ==
    \/ CheckFresh(c) \/ ReadStale(c) \/ Join(c) \/ Refuse(c)
    \/ \E f \in Futures : Begin(c, f)
    \/ Await(c)

WorkerStep(f) == Compute(f) \/ StoreFresh(f) \/ StoreStale(f) \/ Finish(f)

GuardFault == (\E c \in Callers : TimesOut(c)) \/ (\E f \in Futures : ComputeFails(f))

GuardStep ==
    \/ \E c \in Callers : CallerStep(c)
    \/ \E f \in Futures : WorkerStep(f)
    \/ \E k \in Keys : Cleanup(k) \/ FreshExpires(k) \/ StaleExpires(k)
    \/ GuardFault

GuardNext ==
    \/ GuardStep \/ DataChange
    \/ \E c \in Callers : Delivered(c) \/ \E k \in Keys : Call(c, k)

GuardSpec == GuardInit /\ [][GuardNext]_guardVars
-----------------------------------------------------------------------------
Running == {"queued", "read", "cached", "stored", "failing"}
Working == {f \in Futures : future[f].at \in Running}

GuardTypeOK ==
    /\ caller \in [Callers -> [at : {"idle", "fresh", "stale", "lock", "wait", "answered"},
                               key : Keys \cup {None}, stale : Nat,
                               on : Futures \cup {None}, got : Nat]]
    /\ future \in [Futures -> [at : Running \cup {"done", "failed"},
                               key : Keys \cup {None}, value : Nat]]
    /\ inflight \in [Keys -> Futures \cup {None}]
    /\ permits \in 0..MaxConcurrent
    /\ fresh \in [Keys -> Nat] /\ stale \in [Keys -> Nat]
    /\ version \in Nat \ {0} /\ faults \in Nat

(* One computation of a key runs at a time, whoever asks and whatever      *)
(* times out, fails or expires meanwhile.                                  *)
OneFlight ==
    \A f, g \in Working : future[f].key = future[g].key => f = g

(* Every permit that is out belongs to a computation that still runs: none *)
(* is lost to a failure, a timeout or a shared wait.                       *)
PermitsReturned == permits + Cardinality(Working) = MaxConcurrent

(* The cache of a key never goes back: a value is replaced by one read     *)
(* from the same or newer data, or it expires.                             *)
CacheAdvances ==
    [][\A k \in Keys : /\ fresh'[k] # 0 => fresh'[k] >= fresh[k]
                       /\ stale'[k] # 0 => stale'[k] >= stale[k]]_guardVars

(* The oldest version of those in a set, 0 being none.                     *)
Oldest(S) == CHOOSE v \in S \ {0} : \A w \in S \ {0} : v <= w

(* The version a future has read, or will.                                 *)
Reading(f) == IF f = None \/ future[f].value = 0 THEN version ELSE future[f].value

(* Whoever asks for k now may be answered with what is cached, or by the   *)
(* computation under way; who asked, with what it fell back on or waits for.*)
OldestServed(k) == Oldest({fresh[k], stale[k], Reading(inflight[k]), version})

OldestFor(c) ==
    IF caller[c].on = None THEN Oldest({caller[c].stale, OldestServed(caller[c].key)})
    ELSE Oldest({caller[c].stale, Reading(caller[c].on)})

ReaderOf(k, c) ==
    IF caller[c].key # k THEN [at |-> "idle", from |-> 0, got |-> 0]
    ELSE IF caller[c].at = "answered"
    THEN [at |-> "answered", from |-> 0, got |-> caller[c].got]
    ELSE [at |-> "asked", from |-> OldestFor(c), got |-> 0]

Reads(k) == INSTANCE CachedRead WITH
    Readers <- Callers,
    reader <- [c \in Callers |-> ReaderOf(k, c)],
    oldest <- OldestServed(k)

(* Threads that share a computation, fall back on what they saw before it  *)
(* began or give up on it are never answered with data older than the      *)
(* oldest the guard would have handed out when they asked, and that only   *)
(* gets newer.                                                             *)
ServesCachedReads ==
    /\ \A k \in Keys : Reads(k)!ReadInit
    /\ [][\A k \in Keys : [Reads(k)!ReadNext]_(Reads(k)!readVars)]_guardVars
=============================================================================
