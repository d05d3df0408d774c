------------------------- MODULE RequestGuard_proofs -------------------------
(***************************************************************************)
(* What guarded_cached keeps for any number of threads, keys and permits.  *)
(* The argument is about _inflight: a computation that runs is the one     *)
(* registered for its key, because it is taken out only once it is done.   *)
(* So one runs per key, nobody else writes the key's cache meanwhile, and  *)
(* what it writes is no older than what it finds there.                    *)
(***************************************************************************)
EXTENDS RequestGuard, FiniteSetTheorems, TLAPS

CallerType == [at : {"idle", "fresh", "stale", "lock", "wait", "answered"},
               key : Keys \cup {None}, stale : Nat,
               on : Futures \cup {None}, got : Nat]
FutureType == [at : Running \cup {"done", "failed"}, key : Keys \cup {None}, value : Nat]

Types ==
    /\ caller \in [Callers -> CallerType]
    /\ future \in [Futures -> FutureType]
    /\ inflight \in [Keys -> Futures \cup {None}]
    /\ permits \in Nat
    /\ fresh \in [Keys -> Nat] /\ stale \in [Keys -> Nat]
    /\ version \in Nat \ {0} /\ faults \in Nat

Asks(c) == caller[c].at \in {"fresh", "stale", "lock", "wait"}

(* A thread that was called has a key, and a future while it waits.        *)
CallersHaveKeys ==
    \A c \in Callers :
        /\ caller[c].at = "idle" <=> caller[c].key = None
        /\ caller[c].at = "wait" <=> caller[c].on # None

(* A computation that runs is registered for its key.                      *)
Registered == \A f \in Working : future[f].key \in Keys /\ inflight[future[f].key] = f

(* The cache is no newer than the data, and no newer than what was read to *)
(* replace it.                                                             *)
ReadsAreNewest ==
    /\ \A k \in Keys : fresh[k] <= version /\ stale[k] <= version
    /\ \A f \in Futures :
         /\ future[f].value <= version
         /\ future[f].at \in {"read", "cached"} =>
              /\ fresh[future[f].key] <= future[f].value
              /\ stale[future[f].key] <= future[f].value
              /\ future[f].value # 0

GuardInv ==
    /\ Types /\ CallersHaveKeys /\ Registered
    /\ PermitsReturned /\ ReadsAreNewest

(* The running computations are finitely many, so permits can be counted.  *)
LEMMA WorkingIsFinite == IsFiniteSet(Working)
BY FuturesAssumption, FS_Subset DEF Working

(* The steps of the threads that neither submit nor touch the workers.     *)
ThreadStep ==
    \/ \E c \in Callers : \/ CheckFresh(c) \/ ReadStale(c) \/ Join(c) \/ Refuse(c)
                          \/ Await(c) \/ TimesOut(c) \/ Delivered(c)
    \/ \E c \in Callers, k \in Keys : Call(c, k)

(* At the start of the gateway process nothing runs: the invariant holds.  *)
LEMMA GuardInitial == GuardInit => GuardInv
<1> SUFFICES ASSUME GuardInit PROVE GuardInv
  OBVIOUS
<1>1. Working = {}
  BY DEF GuardInit, Working, Unused, Running
<1>2. PermitsReturned
  BY <1>1, FS_EmptySet, PermitsAssumption DEF PermitsReturned, GuardInit
<1>3. Types
  BY PermitsAssumption DEF Types, GuardInit, Idle, Unused, CallerType, FutureType, Running
<1>4. CallersHaveKeys /\ Registered
  BY <1>1 DEF GuardInit, CallersHaveKeys, Idle, Registered
<1>5. ReadsAreNewest
  BY DEF GuardInit, ReadsAreNewest, Unused
<1> QED
  BY <1>2, <1>3, <1>4, <1>5 DEF GuardInv

(* One thread moves.                                                       *)
LEMMA CallerMoves ==
    ASSUME Types, CallersHaveKeys, NEW c \in Callers, NEW r \in CallerType,
           r.at = "idle" <=> r.key = None, r.at = "wait" <=> r.on # None,
           caller' = [caller EXCEPT ![c] = r]
    PROVE  caller' \in [Callers -> CallerType] /\ CallersHaveKeys'
BY DEF Types, CallersHaveKeys

(* A thread that asked is answered.                                        *)
LEMMA AnswerMoves ==
    ASSUME Types, CallersHaveKeys, NEW c \in Callers, Asks(c), NEW value \in Nat,
           Answer(c, value)
    PROVE  caller' \in [Callers -> CallerType] /\ CallersHaveKeys'
<1> DEFINE r == [Idle EXCEPT !.at = "answered", !.got = value, !.key = caller[c].key]
<1>1. caller[c].key \in Keys
  BY DEF Types, CallersHaveKeys, CallerType, Asks
<1>2. r \in CallerType /\ r.at = "answered" /\ r.key = caller[c].key /\ r.on = None
  BY <1>1 DEF CallerType, Idle
<1>3. caller' = [caller EXCEPT ![c] = r]
  BY DEF Answer
<1> QED
  BY <1>1, <1>2, <1>3, CallerMoves, KeysAssumption

(* Threads move among themselves: nothing the workers use changes.         *)
LEMMA ThreadKeeps == GuardInv /\ ThreadStep => GuardInv'
<1> SUFFICES ASSUME GuardInv, ThreadStep PROVE GuardInv'
  OBVIOUS
<1> USE DEF GuardInv
<1>1. UNCHANGED <<future, inflight, permits, fresh, stale, version>>
  BY DEF ThreadStep, CheckFresh, ReadStale, Join, Refuse, Await, TimesOut, Delivered, Call
<1>f. faults' = faults \/ Fault
  BY DEF ThreadStep, CheckFresh, ReadStale, Join, Refuse, Await, TimesOut, Delivered, Call
<1>g. faults' \in Nat
  BY <1>f DEF Fault, Types
<1>2. Working' = Working
  BY <1>1 DEF Working
<1>3. Registered' /\ ReadsAreNewest' /\ PermitsReturned'
  BY <1>1, <1>2 DEF Registered, ReadsAreNewest, PermitsReturned
<1>4. caller' \in [Callers -> CallerType] /\ CallersHaveKeys'
  <2>1. ASSUME NEW c \in Callers, CheckFresh(c)
        PROVE  caller' \in [Callers -> CallerType] /\ CallersHaveKeys'
    <3>1. caller[c] \in CallerType /\ caller[c].at = "fresh" /\ caller[c].on = None
      BY <2>1 DEF CheckFresh, Types, CallersHaveKeys
    <3>2. caller[c].key \in Keys
      BY <3>1 DEF CallersHaveKeys, CallerType
    <3>3. CASE fresh[caller[c].key] # 0
      BY <2>1, <3>1, <3>2, <3>3, AnswerMoves DEF CheckFresh, Types, Asks
    <3>4. CASE fresh[caller[c].key] = 0
      <4> DEFINE r == [caller[c] EXCEPT !.at = "stale"]
      <4>1. caller' = [caller EXCEPT ![c] = r]
        BY <2>1, <3>4 DEF CheckFresh
      <4>2. r \in CallerType /\ r.at = "stale" /\ r.key = caller[c].key /\ r.on = None
        BY <3>1 DEF CallerType
      <4> QED
        BY <3>2, <4>1, <4>2, CallerMoves, KeysAssumption
    <3> QED
      BY <3>3, <3>4
  <2>2. ASSUME NEW c \in Callers, ReadStale(c)
        PROVE  caller' \in [Callers -> CallerType] /\ CallersHaveKeys'
    <3>1. caller[c] \in CallerType /\ caller[c].at = "stale" /\ caller[c].on = None
      BY <2>2 DEF ReadStale, Types, CallersHaveKeys
    <3>2. caller[c].key \in Keys
      BY <3>1 DEF CallersHaveKeys, CallerType
    <3> DEFINE r == [caller[c] EXCEPT !.at = "lock", !.stale = stale[caller[c].key]]
    <3>3. caller' = [caller EXCEPT ![c] = r]
      BY <2>2 DEF ReadStale
    <3>4. r \in CallerType /\ r.at = "lock" /\ r.key = caller[c].key /\ r.on = None
      BY <3>1, <3>2 DEF CallerType, Types
    <3> QED
      BY <3>2, <3>3, <3>4, CallerMoves, KeysAssumption
  <2>3. ASSUME NEW c \in Callers, Join(c)
        PROVE  caller' \in [Callers -> CallerType] /\ CallersHaveKeys'
    <3>1. caller[c] \in CallerType /\ caller[c].at = "lock"
      BY <2>3 DEF Join, Types
    <3>2. caller[c].key \in Keys
      BY <3>1 DEF CallersHaveKeys, CallerType
    <3>3. inflight[caller[c].key] \in Futures
      BY <2>3, <3>2 DEF Join, Types
    <3> DEFINE r == [caller[c] EXCEPT !.at = "wait", !.on = inflight[caller[c].key]]
    <3>4. caller' = [caller EXCEPT ![c] = r]
      BY <2>3 DEF Join, Waits
    <3>5. r \in CallerType /\ r.at = "wait" /\ r.key = caller[c].key /\ r.on \in Futures
      BY <3>1, <3>3 DEF CallerType
    <3> QED
      BY <3>2, <3>4, <3>5, CallerMoves, KeysAssumption, FuturesAssumption
  <2>4. ASSUME NEW c \in Callers, Refuse(c)
        PROVE  caller' \in [Callers -> CallerType] /\ CallersHaveKeys'
    BY <2>4, AnswerMoves DEF Refuse, Asks, Types, CallerType
  <2>5. ASSUME NEW c \in Callers, Await(c) \/ TimesOut(c)
        PROVE  caller' \in [Callers -> CallerType] /\ CallersHaveKeys'
    <3>1. Asks(c) /\ caller[c].stale \in Nat /\ caller[c].on \in Futures
      BY <2>5 DEF Await, TimesOut, Asks, Types, CallerType, CallersHaveKeys
    <3>2. future[caller[c].on].value \in Nat
      BY <3>1 DEF Types, FutureType
    <3>3. \/ Answer(c, caller[c].stale)
          \/ Answer(c, future[caller[c].on].value)
      BY <2>5 DEF Await, TimesOut
    <3> QED
      BY <3>1, <3>2, <3>3, AnswerMoves
  <2>6. ASSUME NEW c \in Callers, Delivered(c)
        PROVE  caller' \in [Callers -> CallerType] /\ CallersHaveKeys'
    BY <2>6, CallerMoves DEF Delivered, Idle, CallerType
  <2>7. ASSUME NEW c \in Callers, NEW k \in Keys, Call(c, k)
        PROVE  caller' \in [Callers -> CallerType] /\ CallersHaveKeys'
    <3> DEFINE r == [Idle EXCEPT !.at = "fresh", !.key = k]
    <3>1. r \in CallerType /\ r.at = "fresh" /\ r.key = k /\ r.on = None
      BY DEF Idle, CallerType
    <3> QED
      BY <2>7, <3>1, CallerMoves, KeysAssumption DEF Call
  <2> QED
    BY <2>1, <2>2, <2>3, <2>4, <2>5, <2>6, <2>7 DEF ThreadStep
<1> QED
  BY <1>1, <1>g, <1>3, <1>4 DEF Types

(* A thread submits a computation: its key had none.                       *)
LEMMA BeginKeeps ==
    ASSUME GuardInv, NEW c \in Callers, NEW f \in Futures, Begin(c, f)
    PROVE  GuardInv'
<1> USE DEF GuardInv
<1> DEFINE k == caller[c].key
<1>1. caller[c] \in CallerType /\ caller[c].at = "lock" /\ k \in Keys /\ inflight[k] = None
  BY DEF Begin, Types, CallersHaveKeys, CallerType
<1>2. /\ permits \in Nat /\ permits > 0 /\ permits' = permits - 1
      /\ future' = [future EXCEPT ![f] = [at |-> "queued", key |-> k, value |-> 0]]
      /\ inflight' = [inflight EXCEPT ![k] = f]
      /\ UNCHANGED <<fresh, stale, version, faults>>
  BY DEF Begin, Submit, Types
<1>3. f \notin Working
  BY DEF Begin, Submit, Available, Working, Running
<1>4. Working' = Working \cup {f}
  BY <1>2 DEF Working, Running, Types
<1>5. caller' \in [Callers -> CallerType] /\ CallersHaveKeys'
  <2> DEFINE r == [caller[c] EXCEPT !.at = "wait", !.on = f]
  <2>1. caller' = [caller EXCEPT ![c] = r]
    BY DEF Begin, Submit, Waits
  <2>2. r \in CallerType /\ r.at = "wait" /\ r.key = k /\ r.on = f
    BY <1>1 DEF CallerType
  <2> QED
    BY <1>1, <2>1, <2>2, CallerMoves, KeysAssumption, FuturesAssumption
<1>6. Types'
  BY <1>1, <1>2, <1>5 DEF Types, FutureType, Running
<1>7. Registered'
  <2> SUFFICES ASSUME NEW g \in Working'
               PROVE  future'[g].key \in Keys /\ inflight'[future'[g].key] = g
    BY DEF Registered
  <2>1. CASE g = f
    BY <1>1, <1>2, <2>1 DEF Types
  <2>2. CASE g # f
    <3>1. g \in Working /\ g \in Futures
      BY <1>4, <2>2 DEF Working
    <3>2. future[g].key \in Keys /\ inflight[future[g].key] = g
      BY <3>1 DEF Registered
    <3>3. future[g].key # k
      BY <1>1, <3>1, <3>2, FuturesAssumption
    <3> QED
      BY <1>2, <2>2, <3>1, <3>2, <3>3 DEF Types
  <2> QED
    BY <2>1, <2>2
<1>8. PermitsReturned'
  <2>1. Cardinality(Working') = Cardinality(Working) + 1
    BY <1>3, <1>4, WorkingIsFinite, FS_AddElement
  <2>2. Cardinality(Working) \in Nat
    BY WorkingIsFinite, FS_CardinalityType
  <2> QED
    BY <1>2, <2>1, <2>2, PermitsAssumption DEF PermitsReturned
<1>9. ReadsAreNewest'
  BY <1>2 DEF ReadsAreNewest, Types
<1> QED
  BY <1>5, <1>6, <1>7, <1>8, <1>9

(* Workers, the callback and the clock.                                    *)
LEMMA WorkerKeeps ==
    ASSUME GuardInv, NEW f \in Futures,
           Compute(f) \/ ComputeFails(f) \/ StoreFresh(f) \/ StoreStale(f)
    PROVE  GuardInv'
<1> USE DEF GuardInv
<1>1. f \in Working /\ future[f].key \in Keys /\ inflight[future[f].key] = f
  BY DEF Compute, ComputeFails, StoreFresh, StoreStale, Working, Running, Registered
<1>2. UNCHANGED <<caller, inflight, permits, version>>
  BY DEF Compute, ComputeFails, StoreFresh, StoreStale
<1>3. \E r \in FutureType : /\ r.at \in Running /\ r.key = future[f].key
                            /\ future' = [future EXCEPT ![f] = r]
  <2>0. future[f] \in FutureType /\ version \in Nat
    BY DEF Types
  <2>1. CASE Compute(f)
    <3>1. future' = [future EXCEPT ![f] = [future[f] EXCEPT !.at = "read", !.value = version]]
      BY <2>1 DEF Compute
    <3> QED
      BY <2>0, <3>1 DEF FutureType, Running
  <2>2. CASE ComputeFails(f)
    <3>1. future' = [future EXCEPT ![f] = [future[f] EXCEPT !.at = "failing"]]
      BY <2>2 DEF ComputeFails, Moves
    <3> QED
      BY <2>0, <3>1 DEF FutureType, Running
  <2>3. CASE StoreFresh(f)
    <3>1. future' = [future EXCEPT ![f] = [future[f] EXCEPT !.at = "cached"]]
      BY <2>3 DEF StoreFresh, Moves
    <3> QED
      BY <2>0, <3>1 DEF FutureType, Running
  <2>4. CASE StoreStale(f)
    <3>1. future' = [future EXCEPT ![f] = [future[f] EXCEPT !.at = "stored"]]
      BY <2>4 DEF StoreStale, Moves
    <3> QED
      BY <2>0, <3>1 DEF FutureType, Running
  <2> QED
    BY <2>1, <2>2, <2>3, <2>4
<1>4. future' \in [Futures -> FutureType] /\ Working' = Working
      /\ \A g \in Futures : future'[g].key = future[g].key
                            /\ (g # f => future'[g] = future[g])
  BY <1>1, <1>3 DEF Types, Working
<1>5. Registered' /\ CallersHaveKeys' /\ PermitsReturned'
  BY <1>2, <1>4 DEF Registered, CallersHaveKeys, PermitsReturned, Working
<1>6. /\ fresh' \in [Keys -> Nat] /\ stale' \in [Keys -> Nat] /\ faults' \in Nat
  BY DEF Compute, ComputeFails, StoreFresh, StoreStale, Fault, Types, FutureType
<1>7. ReadsAreNewest'
  <2>1. ASSUME NEW g \in Working, g # f PROVE future[g].key # future[f].key
    BY <1>1, <2>1 DEF Registered
  <2>2. \A g \in Futures : g # f /\ future[g].at \in {"read", "cached"}
                            => future[g].key \in Keys /\ future[g].key # future[f].key
    BY <2>1 DEF Registered, Working, Running
  <2>3. CASE Compute(f)
    <3>1. fresh' = fresh /\ stale' = stale /\ version' = version /\ version \in Nat \ {0}
      BY <2>3 DEF Compute, Types
    <3>2. future'[f].value = version /\ future'[f].at = "read"
      BY <2>3 DEF Compute, Types
    <3> QED
      BY <1>1, <1>4, <3>1, <3>2 DEF ReadsAreNewest
  <2>4. CASE ComputeFails(f)
    <3>1. fresh' = fresh /\ stale' = stale /\ version' = version
      BY <2>4 DEF ComputeFails
    <3>2. future'[f].value = future[f].value /\ future'[f].at = "failing"
      BY <2>4 DEF ComputeFails, Moves, Types
    <3> QED
      BY <1>1, <1>4, <3>1, <3>2 DEF ReadsAreNewest
  <2>5. CASE StoreFresh(f)
    <3>1. /\ fresh' = [fresh EXCEPT ![future[f].key] = future[f].value]
          /\ stale' = stale /\ version' = version /\ future[f].at = "read"
      BY <2>5 DEF StoreFresh
    <3>2. future'[f].value = future[f].value /\ future'[f].at = "cached"
      BY <2>5 DEF StoreFresh, Moves, Types
    <3>3. future[f].value \in Nat
      BY DEF Types, FutureType
    <3> QED
      BY <1>1, <1>4, <2>2, <3>1, <3>2, <3>3 DEF ReadsAreNewest, Types
  <2>6. CASE StoreStale(f)
    <3>1. /\ stale' = [stale EXCEPT ![future[f].key] = future[f].value]
          /\ fresh' = fresh /\ version' = version /\ future[f].at = "cached"
      BY <2>6 DEF StoreStale
    <3>2. future'[f].value = future[f].value /\ future'[f].at = "stored"
      BY <2>6 DEF StoreStale, Moves, Types
    <3>3. future[f].value \in Nat
      BY DEF Types, FutureType
    <3> QED
      BY <1>1, <1>4, <2>2, <3>1, <3>2, <3>3 DEF ReadsAreNewest, Types
  <2> QED
    BY <2>3, <2>4, <2>5, <2>6
<1> QED
  BY <1>2, <1>4, <1>5, <1>6, <1>7 DEF Types

(* A computation ends: it leaves the running ones and returns its permit.  *)
LEMMA FinishKeeps ==
    ASSUME GuardInv, NEW f \in Futures, Finish(f)
    PROVE  GuardInv'
<1> USE DEF GuardInv
<1>1. f \in Working /\ future[f] \in FutureType
  BY DEF Finish, Working, Running, Types
<1>2. \E at \in {"done", "failed"} : future' = [future EXCEPT ![f].at = at]
  BY DEF Finish, Moves
<1>3. /\ permits' = permits + 1
      /\ UNCHANGED <<caller, inflight, fresh, stale, version, faults>>
  BY DEF Finish
<1>4. /\ future' \in [Futures -> FutureType]
      /\ \A g \in Futures : /\ future'[g].key = future[g].key
                            /\ future'[g].value = future[g].value
                            /\ g # f => future'[g] = future[g]
      /\ future'[f].at \in {"done", "failed"}
  BY <1>1, <1>2 DEF Types, FutureType
<1>5. Working' = Working \ {f}
  BY <1>4 DEF Working, Running
<1>6. PermitsReturned'
  <2>1. Cardinality(Working') = Cardinality(Working) - 1
    BY <1>1, <1>5, WorkingIsFinite, FS_RemoveElement
  <2>2. Cardinality(Working) \in Nat /\ permits \in Nat
    BY WorkingIsFinite, FS_CardinalityType DEF Types
  <2> QED
    BY <1>3, <2>1, <2>2, PermitsAssumption DEF PermitsReturned
<1>7. Registered' /\ CallersHaveKeys'
  BY <1>3, <1>4, <1>5 DEF Registered, CallersHaveKeys, Working
<1>8. ReadsAreNewest'
  BY <1>3, <1>4 DEF ReadsAreNewest
<1> QED
  BY <1>3, <1>4, <1>6, <1>7, <1>8 DEF Types

(* The callback takes out a future that is done, so none that runs.        *)
LEMMA CleanupKeeps ==
    ASSUME GuardInv, NEW k \in Keys, Cleanup(k)
    PROVE  GuardInv'
<1> USE DEF GuardInv
<1>1. /\ inflight' = [inflight EXCEPT ![k] = None]
      /\ future[inflight[k]].at \in {"done", "failed"}
      /\ UNCHANGED <<caller, future, permits, fresh, stale, version, faults>>
  BY DEF Cleanup
<1>2. Working' = Working
  BY <1>1 DEF Working
<1>3. Registered'
  <2> SUFFICES ASSUME NEW g \in Working
               PROVE  future[g].key \in Keys /\ inflight'[future[g].key] = g
    BY <1>1, <1>2 DEF Registered
  <2>1. future[g].key \in Keys /\ inflight[future[g].key] = g
    BY DEF Registered
  <2>2. future[g].key # k
    BY <1>1, <2>1 DEF Working, Running
  <2> QED
    BY <1>1, <2>1, <2>2 DEF Types
<1> QED
  BY <1>1, <1>2, <1>3 DEF Types, CallersHaveKeys, PermitsReturned, ReadsAreNewest

(* Values expire and the data are written.                                 *)
LEMMA ClockKeeps ==
    ASSUME GuardInv,
           (\E k \in Keys : FreshExpires(k) \/ StaleExpires(k)) \/ DataChange
    PROVE  GuardInv'
<1> USE DEF GuardInv
<1>1. UNCHANGED <<caller, future, inflight, permits, faults>>
  BY DEF FreshExpires, StaleExpires, DataChange
<1>2. Working' = Working
  BY <1>1 DEF Working
<1>3. Registered' /\ CallersHaveKeys' /\ PermitsReturned'
  BY <1>1, <1>2 DEF Registered, CallersHaveKeys, PermitsReturned
<1>4. /\ fresh' \in [Keys -> Nat] /\ stale' \in [Keys -> Nat]
      /\ version' \in Nat \ {0} /\ version' >= version
      /\ \A k \in Keys : fresh'[k] \in {0, fresh[k]} /\ stale'[k] \in {0, stale[k]}
  <2>1. CASE \E k \in Keys : FreshExpires(k)
    BY <2>1 DEF FreshExpires, Types
  <2>2. CASE \E k \in Keys : StaleExpires(k)
    BY <2>2 DEF StaleExpires, Types
  <2>3. CASE DataChange
    BY <2>3 DEF DataChange, Types
  <2> QED
    BY <2>1, <2>2, <2>3
<1>5. ReadsAreNewest'
  <2>1. ASSUME NEW k \in Keys
        PROVE  fresh'[k] <= version' /\ stale'[k] <= version'
    BY <1>4 DEF ReadsAreNewest, Types
  <2>2. ASSUME NEW f \in Futures
        PROVE  /\ future[f].value <= version'
               /\ future[f].at \in {"read", "cached"} =>
                    /\ fresh'[future[f].key] <= future[f].value
                    /\ stale'[future[f].key] <= future[f].value
                    /\ future[f].value # 0
    <3>1. future[f].value \in Nat /\ future[f].value <= version
      BY DEF Types, FutureType, ReadsAreNewest
    <3>2. future[f].value <= version'
      BY <3>1, <1>4 DEF Types
    <3>3. ASSUME future[f].at \in {"read", "cached"}
          PROVE  /\ fresh'[future[f].key] <= future[f].value
                 /\ stale'[future[f].key] <= future[f].value
                 /\ future[f].value # 0
      <4>1. future[f].key \in Keys
        BY <3>3 DEF Registered, Working, Running
      <4>2. /\ fresh[future[f].key] <= future[f].value
            /\ stale[future[f].key] <= future[f].value
            /\ future[f].value # 0
        BY <3>3 DEF ReadsAreNewest
      <4> QED
        BY <1>4, <3>1, <4>1, <4>2
    <3> QED
      BY <3>2, <3>3
  <2> QED
    BY <1>1, <2>1, <2>2 DEF ReadsAreNewest
<1> QED
  BY <1>1, <1>3, <1>4, <1>5 DEF Types

(* The kinds of step there are.                                            *)
LEMMA StepKinds ==
    GuardNext =>
        \/ ThreadStep
        \/ \E c \in Callers, f \in Futures : Begin(c, f)
        \/ \E f \in Futures : \/ Compute(f) \/ ComputeFails(f)
                              \/ StoreFresh(f) \/ StoreStale(f)
        \/ \E f \in Futures : Finish(f)
        \/ \E k \in Keys : Cleanup(k)
        \/ (\E k \in Keys : FreshExpires(k) \/ StaleExpires(k)) \/ DataChange
BY DEF GuardNext, GuardStep, CallerStep, WorkerStep, GuardFault, ThreadStep

(* The invariant is inductive.                                             *)
LEMMA GuardStepKeeps == GuardInv /\ [GuardNext]_guardVars => GuardInv'
<1> SUFFICES ASSUME GuardInv, [GuardNext]_guardVars PROVE GuardInv'
  OBVIOUS
<1>1. CASE ThreadStep
  BY <1>1, ThreadKeeps
<1>2. CASE \E c \in Callers, f \in Futures : Begin(c, f)
  BY <1>2, BeginKeeps
<1>3. CASE \E f \in Futures : \/ Compute(f) \/ ComputeFails(f)
                              \/ StoreFresh(f) \/ StoreStale(f)
  BY <1>3, WorkerKeeps
<1>4. CASE \E f \in Futures : Finish(f)
  BY <1>4, FinishKeeps
<1>5. CASE \E k \in Keys : Cleanup(k)
  BY <1>5, CleanupKeeps
<1>6. CASE (\E k \in Keys : FreshExpires(k) \/ StaleExpires(k)) \/ DataChange
  BY <1>6, ClockKeeps
<1>7. CASE UNCHANGED guardVars
  <2>1. Working' = Working
    BY <1>7 DEF guardVars, Working
  <2> QED
    BY <1>7, <2>1 DEF guardVars, GuardInv, Types, CallersHaveKeys, Registered,
       PermitsReturned, ReadsAreNewest
<1> QED
  BY <1>1, <1>2, <1>3, <1>4, <1>5, <1>6, <1>7, StepKinds

(* The strengthened invariant of guarded_cached holds in every behaviour.  *)
LEMMA GuardInvariant == GuardSpec => []GuardInv
BY GuardInitial, GuardStepKeeps, PTL DEF GuardSpec

(* The guard's values keep their types, and its permits their bound.       *)
THEOREM GuardTypeCorrect == GuardSpec => []GuardTypeOK
<1>1. GuardInv => GuardTypeOK
  <2> SUFFICES ASSUME GuardInv PROVE GuardTypeOK
    OBVIOUS
  <2>1. Cardinality(Working) \in Nat
    BY WorkingIsFinite, FS_CardinalityType
  <2>2. permits \in 0..MaxConcurrent
    BY <2>1, PermitsAssumption DEF GuardInv, Types, PermitsReturned
  <2> QED
    BY <2>2 DEF GuardInv, Types, GuardTypeOK, CallerType, FutureType
<1> QED
  BY GuardInvariant, <1>1, PTL

(* One computation of a key runs at a time.                                *)
THEOREM OneComputationPerKey == GuardSpec => []OneFlight
<1>1. GuardInv => OneFlight
  BY DEF GuardInv, Registered, OneFlight
<1> QED
  BY GuardInvariant, <1>1, PTL

(* No permit is lost, however many computations fail or time out.          *)
THEOREM PermitsComeBack == GuardSpec => []PermitsReturned
<1>1. GuardInv => PermitsReturned
  BY DEF GuardInv
<1> QED
  BY GuardInvariant, <1>1, PTL

(* The cache of a key is only replaced by what is no older.                *)
THEOREM CacheOnlyAdvances == GuardSpec => CacheAdvances
<1>1. ASSUME GuardInv, GuardNext, NEW k \in Keys
      PROVE  /\ fresh'[k] # 0 => fresh'[k] >= fresh[k]
             /\ stale'[k] # 0 => stale'[k] >= stale[k]
  <2>0. fresh[k] \in Nat /\ stale[k] \in Nat
    BY <1>1 DEF GuardInv, Types
  <2>1. CASE UNCHANGED <<fresh, stale>>
    BY <2>0, <2>1
  <2>2. ASSUME NEW f \in Futures, StoreFresh(f) \/ StoreStale(f)
        PROVE  /\ fresh'[k] # 0 => fresh'[k] >= fresh[k]
               /\ stale'[k] # 0 => stale'[k] >= stale[k]
    <3>1. /\ fresh[future[f].key] <= future[f].value
          /\ stale[future[f].key] <= future[f].value
      BY <1>1, <2>2 DEF StoreFresh, StoreStale, GuardInv, ReadsAreNewest
    <3>2. future[f].value \in Nat
      BY <1>1 DEF GuardInv, Types, FutureType
    <3> QED
      BY <1>1, <2>0, <2>2, <3>1, <3>2 DEF StoreFresh, StoreStale, GuardInv, Types
  <2>3. ASSUME NEW j \in Keys, FreshExpires(j) \/ StaleExpires(j)
        PROVE  /\ fresh'[k] # 0 => fresh'[k] >= fresh[k]
               /\ stale'[k] # 0 => stale'[k] >= stale[k]
    BY <1>1, <2>0, <2>3 DEF FreshExpires, StaleExpires, GuardInv, Types
  <2>4. \/ UNCHANGED <<fresh, stale>>
        \/ \E f \in Futures : StoreFresh(f) \/ StoreStale(f)
        \/ \E j \in Keys : FreshExpires(j) \/ StaleExpires(j)
    BY <1>1 DEF GuardNext, GuardStep, CallerStep, WorkerStep, GuardFault, CheckFresh,
       ReadStale, Join, Refuse, Begin, Await, TimesOut, Delivered, Call, Compute,
       ComputeFails, Finish, Cleanup, DataChange
  <2> QED
    BY <2>1, <2>2, <2>3, <2>4
<1>2. GuardInv /\ [GuardNext]_guardVars =>
        [\A k \in Keys : /\ fresh'[k] # 0 => fresh'[k] >= fresh[k]
                         /\ stale'[k] # 0 => stale'[k] >= stale[k]]_guardVars
  BY <1>1
<1> QED
  BY GuardInvariant, <1>2, PTL DEF GuardSpec, CacheAdvances

-----------------------------------------------------------------------------
(* RequestGuard implements CachedRead, key by key.                         *)

(* A set of at most four versions, one of them not 0, has an oldest.       *)
LEMMA OldestIsLeast ==
    ASSUME NEW a \in Nat, NEW b \in Nat, NEW c \in Nat, NEW d \in Nat \ {0}
    PROVE  /\ Oldest({a, b, c, d}) \in {a, b, c, d} \ {0}
           /\ \A w \in {a, b, c, d} \ {0} : Oldest({a, b, c, d}) <= w
<1> DEFINE x == IF a # 0 /\ a <= d THEN a ELSE d
<1> DEFINE y == IF b # 0 /\ b <= x THEN b ELSE x
<1> DEFINE z == IF c # 0 /\ c <= y THEN c ELSE y
<1>1. z \in {a, b, c, d} \ {0} /\ \A w \in {a, b, c, d} \ {0} : z <= w
  OBVIOUS
<1>2. \E v \in {a, b, c, d} \ {0} : \A w \in {a, b, c, d} \ {0} : v <= w
  BY <1>1
<1> QED
  BY <1>2 DEF Oldest

(* The same of two.                                                        *)
LEMMA OldestOfTwo ==
    ASSUME NEW a \in Nat, NEW d \in Nat \ {0}
    PROVE  /\ Oldest({a, d}) \in {a, d} \ {0}
           /\ \A w \in {a, d} \ {0} : Oldest({a, d}) <= w
<1>1. {a, d} = {a, a, a, d}
  OBVIOUS
<1> QED
  BY <1>1, OldestIsLeast

(* A thread falls back on nothing newer than the data.                     *)
FallsBack == \A c \in Callers : caller[c].stale <= version

ServeInv == GuardInv /\ FallsBack

(* Only DataChange writes the data.                                        *)
LEMMA VersionMoves ==
    [GuardNext]_guardVars => version' = version \/ version' = version + 1
<1>1. ASSUME NEW c \in Callers, CallerStep(c) \/ TimesOut(c) \/ Delivered(c)
      PROVE  version' = version
  BY <1>1 DEF CallerStep, CheckFresh, ReadStale, Join, Refuse, Begin, Await, TimesOut,
     Delivered
<1>2. ASSUME NEW f \in Futures, WorkerStep(f) \/ ComputeFails(f)
      PROVE  version' = version
  BY <1>2 DEF WorkerStep, Compute, ComputeFails, StoreFresh, StoreStale, Finish
<1>3. ASSUME NEW k \in Keys, Cleanup(k) \/ FreshExpires(k) \/ StaleExpires(k)
      PROVE  version' = version
  BY <1>3 DEF Cleanup, FreshExpires, StaleExpires
<1>4. ASSUME NEW c \in Callers, NEW k \in Keys, Call(c, k)
      PROVE  version' = version
  BY <1>4 DEF Call
<1> QED
  BY <1>1, <1>2, <1>3, <1>4 DEF GuardNext, GuardStep, GuardFault, DataChange, guardVars

(* Whatever a thread may be answered with, the abstract reader may too.    *)
LEMMA ServeInvariant == GuardSpec => []ServeInv
<1>1. GuardInit => ServeInv
  BY GuardInitial DEF GuardInit, Idle, ServeInv, FallsBack
<1>2. ServeInv /\ [GuardNext]_guardVars => ServeInv'
  <2> SUFFICES ASSUME ServeInv, [GuardNext]_guardVars PROVE FallsBack'
    BY GuardStepKeeps DEF ServeInv
  <2> USE DEF ServeInv
  <2>1. version' \in Nat /\ version \in Nat /\ version' >= version
    <3>1. version' = version \/ version' = version + 1
      BY VersionMoves
    <3> QED
      BY <3>1 DEF GuardInv, Types
  <2> DEFINE Kept(c) == \/ caller'[c].stale \in {0, caller[c].stale}
                        \/ /\ caller[c].key \in Keys
                           /\ caller'[c].stale = stale[caller[c].key]
  <2>2. ASSUME NEW c \in Callers PROVE Kept(c)
    <3>1. caller[c] \in CallerType /\ (caller[c].at # "idle" => caller[c].key \in Keys)
      BY DEF GuardInv, Types, CallersHaveKeys, CallerType
    <3>2. CASE UNCHANGED caller
      BY <3>2
    <3>3. ASSUME NEW d \in Callers, ReadStale(d) PROVE Kept(c)
      BY <3>1, <3>3 DEF ReadStale, GuardInv, Types
    <3>4. ASSUME NEW d \in Callers, NEW r, caller' = [caller EXCEPT ![d] = r],
                 r.stale \in {0, caller[d].stale}
          PROVE  Kept(c)
      BY <3>1, <3>4 DEF GuardInv, Types
    <3>5. ASSUME NEW d \in Callers, NEW value, Answer(d, value) PROVE Kept(c)
      BY <3>4, <3>5 DEF Answer, Idle
    <3>6. ASSUME NEW d \in Callers, NEW f, Waits(d, f) PROVE Kept(c)
      <4> DEFINE r == [caller[d] EXCEPT !.at = "wait", !.on = f]
      <4>1. caller' = [caller EXCEPT ![d] = r] /\ r.stale = caller[d].stale
        BY <3>6 DEF Waits, GuardInv, Types, CallerType
      <4> QED
        BY <3>4, <4>1
    <3>7. ASSUME NEW d \in Callers, CheckFresh(d) PROVE Kept(c)
      <4> DEFINE r == [caller[d] EXCEPT !.at = "stale"]
      <4>1. CASE caller' = [caller EXCEPT ![d].at = "stale"]
        <5>1. caller' = [caller EXCEPT ![d] = r] /\ r.stale = caller[d].stale
          BY <4>1 DEF GuardInv, Types, CallerType
        <5> QED
          BY <3>4, <5>1
      <4> QED
        BY <3>5, <3>7, <4>1 DEF CheckFresh
    <3>8. ASSUME NEW d \in Callers, Delivered(d) \/ \E k \in Keys : Call(d, k)
          PROVE  Kept(c)
      BY <3>4, <3>8 DEF Delivered, Call, Idle
    <3>9. ASSUME NEW d \in Callers,
                 \/ Join(d) \/ Refuse(d) \/ Await(d) \/ TimesOut(d)
                 \/ \E f \in Futures : Begin(d, f)
          PROVE  Kept(c)
      BY <3>5, <3>6, <3>9 DEF Join, Refuse, Await, TimesOut, Begin, Submit
    <3>10. (\E f \in Futures : \/ Compute(f) \/ ComputeFails(f)
                              \/ StoreFresh(f) \/ StoreStale(f) \/ Finish(f)) => UNCHANGED caller
      BY DEF Compute, ComputeFails, StoreFresh, StoreStale, Finish
    <3>11. (\E k \in Keys : Cleanup(k) \/ FreshExpires(k) \/ StaleExpires(k)) \/ DataChange
             => UNCHANGED caller
      BY DEF Cleanup, FreshExpires, StaleExpires, DataChange
    <3>12. UNCHANGED guardVars => UNCHANGED caller
      BY DEF guardVars
    <3>13. ThreadStep => Kept(c)
      <4> HIDE DEF Kept
      <4> QED
        BY <3>3, <3>7, <3>8, <3>9 DEF ThreadStep
    <3>14. (\E d \in Callers, f \in Futures : Begin(d, f)) => Kept(c)
      <4> HIDE DEF Kept
      <4> QED
        BY <3>9
    <3> HIDE DEF Kept
    <3> QED
      BY <3>2, <3>10, <3>11, <3>12, <3>13, <3>14, StepKinds
  <2>3. ASSUME NEW c \in Callers PROVE caller'[c].stale <= version'
    <3>1. caller[c].stale \in Nat /\ caller[c].stale <= version
      BY DEF GuardInv, Types, CallerType, FallsBack
    <3>2. \A k \in Keys : stale[k] \in Nat /\ stale[k] <= version
      BY DEF GuardInv, Types, ReadsAreNewest
    <3> QED
      BY <2>1, <2>2, <3>1, <3>2
  <2> QED
    BY <2>3 DEF FallsBack
<1> QED
  BY <1>1, <1>2, PTL DEF GuardSpec

(* What a reader of the abstract specification may do.                     *)
Idles == [at |-> "idle", from |-> 0, got |-> 0]
AsksFrom(v) == [at |-> "asked", from |-> v, got |-> 0]
HasGot(v) == [at |-> "answered", from |-> 0, got |-> v]

(* What a thread does maps to what its reader of CachedRead may do.         *)
LEMMA ReaderMay ==
    ASSUME NEW k \in Keys, NEW upto \in Nat, NEW v \in Nat, NEW w \in Nat
    PROVE  /\ Idles \in Reads(k)!ReaderMoves(Idles, upto)
           /\ v \in OldestServed(k)..upto => AsksFrom(v) \in Reads(k)!ReaderMoves(Idles, upto)
           /\ v \in w..upto => AsksFrom(v) \in Reads(k)!ReaderMoves(AsksFrom(w), upto)
           /\ v \in {0} \cup w..upto => HasGot(v) \in Reads(k)!ReaderMoves(AsksFrom(w), upto)
           /\ HasGot(v) \in Reads(k)!ReaderMoves(HasGot(v), upto)
           /\ Idles \in Reads(k)!ReaderMoves(HasGot(v), upto)
<1> USE DEF Reads!ReaderMoves, Reads!Asking, Reads!Answers, Reads!Free, Idles, AsksFrom, HasGot
<1>1. Idles \in Reads(k)!ReaderMoves(Idles, upto)
  OBVIOUS
<1>2. v \in OldestServed(k)..upto => AsksFrom(v) \in Reads(k)!ReaderMoves(Idles, upto)
  OBVIOUS
<1>3. v \in w..upto => AsksFrom(v) \in Reads(k)!ReaderMoves(AsksFrom(w), upto)
  OBVIOUS
<1>4. v \in {0} \cup w..upto => HasGot(v) \in Reads(k)!ReaderMoves(AsksFrom(w), upto)
  OBVIOUS
<1>5. HasGot(v) \in Reads(k)!ReaderMoves(HasGot(v), upto)
      /\ Idles \in Reads(k)!ReaderMoves(HasGot(v), upto)
  OBVIOUS
<1> QED
  BY <1>1, <1>2, <1>3, <1>4, <1>5

(* A future stands for a version there is.                                 *)
LEMMA ReadingType ==
    ASSUME ServeInv, NEW f \in Futures \cup {None}
    PROVE  Reading(f) \in Nat \ {0} /\ Reading(f) <= version
<1>1. version \in Nat \ {0}
  BY DEF ServeInv, GuardInv, Types
<1>2. f # None => future[f].value \in Nat /\ future[f].value <= version
  BY DEF ServeInv, GuardInv, Types, FutureType, ReadsAreNewest
<1> QED
  BY <1>1, <1>2 DEF Reading

(* What bounds the oldest version served for a key, and what it bounds.    *)
LEMMA ServedType ==
    ASSUME ServeInv, NEW k \in Keys
    PROVE  /\ OldestServed(k) \in Nat \ {0} /\ OldestServed(k) <= version
           /\ OldestServed(k) \in {fresh[k], stale[k], Reading(inflight[k]), version}
           /\ fresh[k] # 0 => OldestServed(k) <= fresh[k]
           /\ stale[k] # 0 => OldestServed(k) <= stale[k]
           /\ OldestServed(k) <= Reading(inflight[k])
<1>1. fresh[k] \in Nat /\ stale[k] \in Nat /\ version \in Nat \ {0}
  BY DEF ServeInv, GuardInv, Types
<1>2. Reading(inflight[k]) \in Nat \ {0}
  BY ReadingType DEF ServeInv, GuardInv, Types
<1> QED
  BY <1>1, <1>2, OldestIsLeast DEF OldestServed

(* The same for a thread that asks.                                        *)
LEMMA OldestForType ==
    ASSUME ServeInv, NEW c \in Callers, Asks(c)
    PROVE  /\ caller[c].key \in Keys /\ OldestFor(c) \in Nat \ {0} /\ OldestFor(c) <= version
           /\ caller[c].stale # 0 => OldestFor(c) <= caller[c].stale
           /\ caller[c].on = None => OldestFor(c) <= OldestServed(caller[c].key)
           /\ caller[c].on # None => OldestFor(c) <= Reading(caller[c].on)
<1>1. /\ caller[c].key \in Keys /\ caller[c].stale \in Nat
      /\ caller[c].on \in Futures \cup {None} /\ caller[c].stale <= version
  BY DEF ServeInv, GuardInv, Types, CallerType, CallersHaveKeys, Asks, FallsBack
<1>2. CASE caller[c].on = None
  <2>1. OldestServed(caller[c].key) \in Nat \ {0} /\ OldestServed(caller[c].key) <= version
    BY <1>1, ServedType
  <2> QED
    BY <1>1, <1>2, <2>1, OldestOfTwo DEF OldestFor
<1>3. CASE caller[c].on # None
  <2>1. Reading(caller[c].on) \in Nat \ {0} /\ Reading(caller[c].on) <= version
    BY <1>1, ReadingType
  <2> QED
    BY <1>1, <1>3, <2>1, OldestOfTwo DEF OldestFor
<1> QED
  BY <1>2, <1>3

(* What a future stands for only gets newer while somebody holds it.       *)
LEMMA ReadingRises ==
    ASSUME ServeInv, [GuardNext]_guardVars, NEW f \in Futures \cup {None},
           \A c \in Callers : ~Begin(c, f)
    PROVE  Reading(f)' >= Reading(f)
<1>1. version' \in Nat \ {0} /\ version' >= version /\ version \in Nat \ {0}
  BY VersionMoves DEF ServeInv, GuardInv, Types
<1>2. CASE f = None
  BY <1>1, <1>2 DEF Reading
<1>3. CASE f # None
  <2>1. future[f].value \in Nat /\ future[f].value <= version
    BY <1>3 DEF ServeInv, GuardInv, Types, FutureType, ReadsAreNewest
  <2>2. \/ future'[f].value = future[f].value
        \/ future'[f].value = version
    <3>1. ASSUME NEW g \in Futures, NEW at, Moves(g, at)
          PROVE  future'[f].value = future[f].value
      BY <1>3, <3>1 DEF Moves, ServeInv, GuardInv, Types, FutureType
    <3>2. ASSUME NEW g \in Futures, \/ Compute(g) \/ ComputeFails(g)
                                    \/ StoreFresh(g) \/ StoreStale(g) \/ Finish(g)
          PROVE  <2>2
      <4>1. CASE Compute(g)
        BY <1>3, <4>1 DEF Compute, ServeInv, GuardInv, Types, FutureType
      <4>2. CASE ComputeFails(g) \/ StoreFresh(g) \/ StoreStale(g) \/ Finish(g)
        BY <3>1, <4>2 DEF ComputeFails, StoreFresh, StoreStale, Finish
      <4> QED
        BY <3>2, <4>1, <4>2
    <3>3. ASSUME NEW c \in Callers, NEW g \in Futures, Begin(c, g)
          PROVE  future'[f].value = future[f].value
      BY <1>3, <3>3 DEF Begin, Submit, ServeInv, GuardInv, Types
    <3>4. ThreadStep \/ UNCHANGED guardVars
          \/ (\E k \in Keys : Cleanup(k) \/ FreshExpires(k) \/ StaleExpires(k)) \/ DataChange
            => future' = future
      BY DEF ThreadStep, CheckFresh, ReadStale, Join, Refuse, Await, TimesOut, Delivered,
         Call, Cleanup, FreshExpires, StaleExpires, DataChange, guardVars
    <3> QED
      BY <3>2, <3>3, <3>4, StepKinds
  <2> QED
    BY <1>1, <1>3, <2>1, <2>2 DEF Reading
<1> QED
  BY <1>2, <1>3

(* So does what a future stands for that is registered or waited for.      *)
LEMMA HeldRises ==
    ASSUME ServeInv, [GuardNext]_guardVars, NEW f \in Futures \cup {None},
           (\E k \in Keys : inflight[k] = f) \/ (\E c \in Callers : caller[c].on = f)
    PROVE  Reading(f)' >= Reading(f)
BY ReadingRises DEF Begin, Submit, Available

(* Where the values of a key come from: nowhere but its own computation.   *)
LEMMA CacheSources ==
    ASSUME ServeInv, [GuardNext]_guardVars, NEW k \in Keys
    PROVE  /\ fresh'[k] \in {0, fresh[k], Reading(inflight[k])}
           /\ stale'[k] \in {0, stale[k], Reading(inflight[k])}
<1>1. ASSUME NEW f \in Futures, StoreFresh(f) \/ StoreStale(f)
      PROVE  /\ fresh'[k] \in {fresh[k], Reading(inflight[k])}
             /\ stale'[k] \in {stale[k], Reading(inflight[k])}
  <2>1. /\ future[f].key \in Keys /\ inflight[future[f].key] = f
        /\ Reading(f) = future[f].value
    BY <1>1, FuturesAssumption DEF StoreFresh, StoreStale, ServeInv, GuardInv, Registered,
       Working, Running, ReadsAreNewest, Reading
  <2> QED
    BY <1>1, <2>1 DEF StoreFresh, StoreStale, ServeInv, GuardInv, Types
<1>2. ASSUME NEW j \in Keys, FreshExpires(j) \/ StaleExpires(j)
      PROVE  fresh'[k] \in {0, fresh[k]} /\ stale'[k] \in {0, stale[k]}
  BY <1>2 DEF FreshExpires, StaleExpires, ServeInv, GuardInv, Types
<1>3. \/ UNCHANGED <<fresh, stale>>
      \/ \E f \in Futures : StoreFresh(f) \/ StoreStale(f)
      \/ \E j \in Keys : FreshExpires(j) \/ StaleExpires(j)
  BY DEF GuardNext, GuardStep, CallerStep, WorkerStep, GuardFault, CheckFresh,
     ReadStale, Join, Refuse, Begin, Await, TimesOut, Delivered, Call, Compute,
     ComputeFails, Finish, Cleanup, DataChange, guardVars
<1> QED
  BY <1>1, <1>2, <1>3

(* The computation registered for a key stays, ends or is a new one.       *)
LEMMA InflightMoves ==
    ASSUME ServeInv, [GuardNext]_guardVars, NEW k \in Keys
    PROVE  \/ inflight'[k] = inflight[k]
           \/ inflight'[k] = None
           \/ \E f \in Futures : inflight'[k] = f /\ future'[f].value = 0
<1>1. ASSUME NEW c \in Callers, NEW f \in Futures, Begin(c, f)
      PROVE  inflight'[k] = inflight[k] \/ (inflight'[k] = f /\ future'[f].value = 0)
  BY <1>1 DEF Begin, Submit, ServeInv, GuardInv, Types
<1>2. ASSUME NEW j \in Keys, Cleanup(j)
      PROVE  inflight'[k] = inflight[k] \/ inflight'[k] = None
  BY <1>2 DEF Cleanup, ServeInv, GuardInv, Types
<1>3. \/ UNCHANGED inflight
      \/ \E c \in Callers, f \in Futures : Begin(c, f)
      \/ \E j \in Keys : Cleanup(j)
  BY DEF GuardNext, GuardStep, CallerStep, WorkerStep, GuardFault, CheckFresh,
     ReadStale, Join, Refuse, Await, TimesOut, Delivered, Call, Compute, StoreFresh,
     StoreStale, ComputeFails, Finish, DataChange, FreshExpires, StaleExpires, guardVars
<1> QED
  BY <1>1, <1>2, <1>3

(* What may be served for a key only gets newer.                           *)
LEMMA ServedRises ==
    ASSUME ServeInv, [GuardNext]_guardVars, NEW k \in Keys
    PROVE  /\ OldestServed(k)' \in Nat
           /\ OldestServed(k)' >= OldestServed(k)
           /\ OldestServed(k)' <= version'
<1> DEFINE o == OldestServed(k)
<1> DEFINE a == fresh'[k]
<1> DEFINE b == stale'[k]
<1> DEFINE r == Reading(inflight[k])'
<1> DEFINE d == version'
<1>1. Types' /\ ReadsAreNewest'
  BY GuardStepKeeps DEF ServeInv, GuardInv
<1>2. /\ o \in Nat \ {0} /\ o <= version
      /\ fresh[k] # 0 => o <= fresh[k]
      /\ stale[k] # 0 => o <= stale[k]
      /\ o <= Reading(inflight[k])
  BY ServedType
<1>3. a \in Nat /\ b \in Nat /\ d \in Nat \ {0} /\ d >= version /\ version \in Nat
  BY <1>1, VersionMoves DEF Types, ServeInv, GuardInv
<1>4. Reading(inflight[k]) \in Nat \ {0} /\ inflight[k] \in Futures \cup {None}
  BY ReadingType DEF ServeInv, GuardInv, Types
<1>5. (a # 0 => o <= a) /\ (b # 0 => o <= b)
  BY <1>2, <1>3, <1>4, CacheSources
<1>6. r \in Nat \ {0} /\ o <= r
  <2>2. r \in Nat \ {0}
    <3>1. inflight'[k] # None => future'[inflight'[k]].value \in Nat
      BY <1>1 DEF Types, FutureType
    <3> QED
      BY <1>3, <3>1 DEF Reading
  <2>3. CASE inflight'[k] = inflight[k]
    <3>2. \A g \in Futures \cup {None} : g = inflight[k] => Reading(g)' >= Reading(g)
      BY HeldRises
    <3>3. \A g \in Futures \cup {None} : g = inflight'[k] => r = Reading(g)'
      BY DEF Reading
    <3> QED
      BY <1>2, <1>4, <2>2, <2>3, <3>2, <3>3
  <2>4. CASE inflight'[k] = None
    BY <1>2, <1>3, <2>2, <2>4 DEF Reading
  <2>5. CASE \E f \in Futures : inflight'[k] = f /\ future'[f].value = 0
    BY <1>2, <1>3, <2>2, <2>5 DEF Reading
  <2> QED
    BY <2>2, <2>3, <2>4, <2>5, InflightMoves
<1>7. OldestServed(k)' = Oldest({a, b, r, d})
  BY DEF OldestServed
<1> HIDE DEF a, b, r, d, o
<1>8. /\ Oldest({a, b, r, d}) \in {a, b, r, d} \ {0}
      /\ \A w \in {a, b, r, d} \ {0} : Oldest({a, b, r, d}) <= w
  BY <1>3, <1>6, OldestIsLeast
<1>9. OldestServed(k)' \in Nat /\ OldestServed(k)' >= o /\ OldestServed(k)' <= d
  BY <1>2, <1>3, <1>5, <1>6, <1>7, <1>8
<1> QED
  BY <1>9 DEF o, d

(* The steps of a thread that asks.  It is answered with nothing that is   *)
(* older than it may get ...                                               *)
GetsAnswer(c) ==
    \E v \in Nat : /\ v <= version /\ (v # 0 => v >= OldestFor(c))
                   /\ caller'[c] = [Idle EXCEPT !.at = "answered", !.got = v,
                                                !.key = caller[c].key]

(* ... or it goes on asking, for nothing older.                            *)
AsksOn(c) ==
    /\ caller'[c].key = caller[c].key
    /\ caller'[c].at \in {"fresh", "stale", "lock", "wait"}
    /\ caller'[c].stale \in Nat /\ caller'[c].stale <= version
    /\ caller'[c].stale # 0 => caller'[c].stale >= OldestFor(c)
    /\ IF caller'[c].on = None THEN caller[c].on = None
       ELSE /\ Reading(caller[c].on)' \in Nat
            /\ Reading(caller[c].on)' >= OldestFor(c)
            /\ Reading(caller[c].on)' <= version'

(* A step that moves a thread of k moves its reader or leaves it alone.     *)
LEMMA AskerSteps ==
    ASSUME ServeInv, [GuardNext]_guardVars, NEW c \in Callers, Asks(c),
           caller'[c] # caller[c]
    PROVE  GetsAnswer(c) \/ AsksOn(c)
<1> DEFINE k == caller[c].key
<1>1. /\ k \in Keys /\ OldestFor(c) \in Nat \ {0} /\ OldestFor(c) <= version
      /\ caller[c].stale # 0 => OldestFor(c) <= caller[c].stale
      /\ caller[c].on = None => OldestFor(c) <= OldestServed(k)
      /\ caller[c].on # None => OldestFor(c) <= Reading(caller[c].on)
  BY OldestForType
<1>2. /\ caller[c] \in CallerType /\ caller[c].stale <= version
      /\ version \in Nat /\ caller \in [Callers -> CallerType]
      /\ caller[c].at = "wait" <=> caller[c].on # None
  BY DEF ServeInv, GuardInv, Types, FallsBack, CallersHaveKeys
<1>3. /\ OldestServed(k) \in Nat
      /\ fresh[k] # 0 => OldestServed(k) <= fresh[k]
      /\ stale[k] # 0 => OldestServed(k) <= stale[k]
      /\ OldestServed(k) <= Reading(inflight[k])
      /\ fresh[k] \in Nat /\ stale[k] \in Nat
      /\ fresh[k] <= version /\ stale[k] <= version
  BY <1>1, ServedType DEF ServeInv, GuardInv, Types, ReadsAreNewest
<1>4. ASSUME NEW v \in Nat, Answer(c, v), v <= version, v # 0 => v >= OldestFor(c)
      PROVE  GetsAnswer(c)
  BY <1>2, <1>4 DEF Answer, GetsAnswer
<1>5. CASE CheckFresh(c)
  <2>1. caller[c].on = None /\ caller[c].at = "fresh"
    BY <1>2, <1>5 DEF CheckFresh
  <2>2. CASE fresh[k] # 0
    BY <1>1, <1>3, <1>4, <1>5, <2>1, <2>2 DEF CheckFresh
  <2>3. CASE fresh[k] = 0
    <3>1. caller'[c] = [caller[c] EXCEPT !.at = "stale"]
      BY <1>2, <1>5, <2>3 DEF CheckFresh
    <3> QED
      BY <1>1, <1>2, <2>1, <3>1 DEF AsksOn, CallerType
  <2> QED
    BY <2>2, <2>3
<1>6. CASE ReadStale(c)
  <2>1. /\ caller[c].on = None
        /\ caller'[c] = [caller[c] EXCEPT !.at = "lock", !.stale = stale[k]]
    BY <1>2, <1>6 DEF ReadStale
  <2> QED
    BY <1>1, <1>2, <1>3, <2>1 DEF AsksOn, CallerType
<1>7. ASSUME NEW f \in Futures, Waits(c, f), caller[c].on = None,
             Reading(f)' \in Nat, Reading(f)' >= OldestFor(c), Reading(f)' <= version'
      PROVE  AsksOn(c)
  <2>1. caller'[c] = [caller[c] EXCEPT !.at = "wait", !.on = f]
    BY <1>2, <1>7 DEF Waits
  <2>2. caller'[c].on = f /\ caller'[c].at = "wait" /\ caller'[c].key = caller[c].key
        /\ caller'[c].stale = caller[c].stale
    BY <1>2, <2>1 DEF CallerType
  <2>3. Reading(caller[c].on)' = Reading(f)'
    BY <2>2 DEF Reading
  <2> QED
    BY <1>1, <1>2, <1>7, <2>2, <2>3, FuturesAssumption DEF AsksOn, CallerType
<1>8. CASE Join(c)
  <2>1. PICK f \in Futures : f = inflight[k] /\ Waits(c, f) /\ caller[c].on = None
    BY <1>1, <1>2, <1>8 DEF Join, ServeInv, GuardInv, Types
  <2>2. future' = future /\ version' = version
    BY <1>8 DEF Join
  <2>3. Reading(f) \in Nat /\ Reading(f) <= version
    BY <2>1, ReadingType
  <2>4. Reading(f)' = Reading(f)
    BY <1>8, <2>2 DEF Join, Reading
  <2> QED
    BY <1>1, <1>3, <1>7, <2>1, <2>2, <2>3, <2>4
<1>9. ASSUME NEW f \in Futures, Begin(c, f) PROVE AsksOn(c)
  <2>1. /\ Waits(c, f) /\ caller[c].on = None /\ version' = version
        /\ future'[f].value = 0
    BY <1>2, <1>9 DEF Begin, Submit, ServeInv, GuardInv, Types
  <2>2. Reading(f)' = version'
    BY <2>1 DEF Reading
  <2> QED
    BY <1>1, <1>2, <1>7, <2>1, <2>2
<1>10. CASE Refuse(c)
  BY <1>1, <1>2, <1>4, <1>10 DEF Refuse, CallerType
<1>11. CASE Await(c) \/ TimesOut(c)
  <2>1. CASE Answer(c, caller[c].stale)
    BY <1>1, <1>2, <1>4, <2>1 DEF CallerType
  <2>2. CASE Answer(c, future[caller[c].on].value) /\ caller[c].at = "wait"
    <3>1. caller[c].on \in Futures /\ caller[c].on # None
      BY <1>2, <2>2 DEF CallerType
    <3>2. /\ future[caller[c].on].value \in Nat
          /\ future[caller[c].on].value <= version
          /\ future[caller[c].on].value # 0
               => Reading(caller[c].on) = future[caller[c].on].value
      BY <3>1 DEF ServeInv, GuardInv, Types, FutureType, ReadsAreNewest, Reading
    <3> QED
      BY <1>1, <1>4, <2>2, <3>1, <3>2
  <2> QED
    BY <1>11, <2>1, <2>2 DEF Await, TimesOut
<1>12. \/ CheckFresh(c) \/ ReadStale(c) \/ Join(c) \/ Refuse(c) \/ Await(c) \/ TimesOut(c)
       \/ \E f \in Futures : Begin(c, f)
  <2>1. ASSUME NEW d \in Callers, NEW r, caller' = [caller EXCEPT ![d] = r]
        PROVE  d = c
    BY <1>2, <2>1
  <2>2. ASSUME NEW d \in Callers,
               \/ CheckFresh(d) \/ ReadStale(d) \/ Join(d) \/ Refuse(d)
               \/ Await(d) \/ TimesOut(d) \/ \E f \in Futures : Begin(d, f)
        PROVE  d = c
    BY <2>1, <2>2 DEF CheckFresh, ReadStale, Join, Refuse, Await, TimesOut, Begin, Submit,
       Waits, Answer
  <2>3. ASSUME NEW d \in Callers, Delivered(d) \/ \E j \in Keys : Call(d, j)
        PROVE  FALSE
    BY <2>1, <2>3 DEF Delivered, Call, Asks
  <2>4. (\E f \in Futures : \/ Compute(f) \/ ComputeFails(f)
                             \/ StoreFresh(f) \/ StoreStale(f) \/ Finish(f)) => caller' = caller
    BY DEF Compute, ComputeFails, StoreFresh, StoreStale, Finish
  <2>5. (\E j \in Keys : Cleanup(j) \/ FreshExpires(j) \/ StaleExpires(j)) \/ DataChange
          => caller' = caller
    BY DEF Cleanup, FreshExpires, StaleExpires, DataChange
  <2>6. GuardNext
    BY DEF guardVars
  <2> QED
    BY <2>2, <2>3, <2>4, <2>5, <2>6, StepKinds DEF ThreadStep
<1> QED
  BY <1>5, <1>6, <1>8, <1>9, <1>10, <1>11, <1>12

(* A thread that goes on asking, or whose computation goes on, may get     *)
(* nothing older than before.                                              *)
LEMMA AskerRises ==
    ASSUME ServeInv, [GuardNext]_guardVars, NEW c \in Callers, Asks(c),
           AsksOn(c) \/ caller'[c] = caller[c]
    PROVE  OldestFor(c)' \in OldestFor(c)..version'
<1> DEFINE k == caller[c].key
<1> DEFINE o == OldestFor(c)
<1> DEFINE s == caller'[c].stale
<1> DEFINE d == version'
<1>1. /\ k \in Keys /\ o \in Nat \ {0} /\ o <= version /\ version \in Nat \ {0}
      /\ caller[c].stale # 0 => o <= caller[c].stale
      /\ caller[c].on = None => o <= OldestServed(k)
      /\ caller[c].on # None => o <= Reading(caller[c].on)
  BY OldestForType DEF ServeInv, GuardInv, Types
<1>2. /\ caller[c] \in CallerType /\ caller[c].stale <= version
      /\ d \in Nat \ {0} /\ d >= version
  BY <1>1, VersionMoves DEF ServeInv, GuardInv, Types, FallsBack
<1>3. caller'[c].key = k /\ s \in Nat /\ s <= d /\ (s # 0 => o <= s)
  BY <1>1, <1>2 DEF AsksOn, CallerType
<1>4. CASE caller'[c].on = None
  <2>1. o <= OldestServed(k) /\ OldestServed(k) \in Nat
    BY <1>1, <1>4, ServedType DEF AsksOn
  <2>2. \E v \in Nat \ {0} : /\ OldestServed(caller[c].key)' = v /\ o <= v /\ v <= d
    <3>1. \A j \in Keys : /\ OldestServed(j)' \in Nat
                          /\ OldestServed(j)' >= OldestServed(j)
                          /\ OldestServed(j)' <= version'
      BY ServedRises
    <3>2. PICK j \in Keys : j = k
      BY <1>1
    <3>3. OldestServed(caller[c].key)' = OldestServed(j)'
      BY <1>3, <3>2 DEF OldestServed
    <3> QED
      BY <1>1, <2>1, <3>1, <3>2, <3>3
  <2>3. OldestFor(c)' = Oldest({s, OldestServed(caller[c].key)'})
    BY <1>4 DEF OldestFor
  <2> QED
    BY <1>1, <1>2, <1>3, <2>2, <2>3, OldestOfTwo
<1>5. CASE caller'[c].on # None
  <2>1. \E v \in Nat \ {0} : /\ Reading(caller[c].on)' = v /\ o <= v /\ v <= d
    <3>1. CASE AsksOn(c)
      BY <1>1, <1>5, <3>1 DEF AsksOn
    <3>2. CASE caller'[c] = caller[c]
      <4>1. PICK f \in Futures : f = caller[c].on
        BY <1>2, <1>5, <3>2 DEF CallerType
      <4>2. Reading(f)' >= Reading(f) /\ Reading(f) \in Nat /\ f # None
        BY <4>1, HeldRises, ReadingType, FuturesAssumption
      <4>3. Reading(f)' = Reading(caller[c].on)'
        BY <3>2, <4>1 DEF Reading
      <4>4. Reading(f)' \in Nat /\ Reading(f)' <= d
        <5>1. Types' /\ ReadsAreNewest'
          BY GuardStepKeeps DEF ServeInv, GuardInv
        <5> QED
          BY <1>2, <5>1 DEF Types, FutureType, ReadsAreNewest, Reading
      <4> QED
        BY <1>1, <1>5, <3>2, <4>1, <4>2, <4>3, <4>4
    <3> QED
      BY <3>1, <3>2
  <2>2. OldestFor(c)' = Oldest({s, Reading(caller[c].on)'})
    BY <1>5 DEF OldestFor
  <2> QED
    BY <1>1, <1>2, <1>3, <2>1, <2>2, OldestOfTwo
<1> QED
  BY <1>4, <1>5

(* Who does not ask stays, is called or gets its answer delivered.         *)
LEMMA OtherSteps ==
    ASSUME ServeInv, [GuardNext]_guardVars, NEW c \in Callers, ~Asks(c)
    PROVE  \/ caller'[c] = caller[c]
           \/ caller[c].at = "answered" /\ caller'[c] = Idle
           \/ /\ caller[c].at = "idle"
              /\ \E j \in Keys : caller'[c] = [Idle EXCEPT !.at = "fresh", !.key = j]
<1>1. caller \in [Callers -> CallerType]
  BY DEF ServeInv, GuardInv, Types
<1>2. ASSUME NEW d \in Callers, NEW r, caller' = [caller EXCEPT ![d] = r], d # c
      PROVE  caller'[c] = caller[c]
  BY <1>1, <1>2
<1>3. ASSUME NEW d \in Callers,
             \/ CheckFresh(d) \/ ReadStale(d) \/ Join(d) \/ Refuse(d)
             \/ Await(d) \/ TimesOut(d) \/ \E f \in Futures : Begin(d, f)
      PROVE  caller'[c] = caller[c]
  <2>1. d # c
    BY <1>3 DEF CheckFresh, ReadStale, Join, Refuse, Await, TimesOut, Begin, Asks
  <2> QED
    BY <1>2, <1>3, <2>1 DEF CheckFresh, ReadStale, Join, Refuse, Await, TimesOut, Begin,
       Submit, Waits, Answer
<1>4. ASSUME NEW d \in Callers, Delivered(d)
      PROVE  caller'[c] = caller[c] \/ (caller[c].at = "answered" /\ caller'[c] = Idle)
  BY <1>1, <1>4 DEF Delivered
<1>5. ASSUME NEW d \in Callers, NEW j \in Keys, Call(d, j)
      PROVE  \/ caller'[c] = caller[c]
             \/ caller[c].at = "idle" /\ caller'[c] = [Idle EXCEPT !.at = "fresh", !.key = j]
  BY <1>1, <1>5 DEF Call
<1>6. (\E f \in Futures : \/ Compute(f) \/ ComputeFails(f)
                           \/ StoreFresh(f) \/ StoreStale(f) \/ Finish(f)) => caller' = caller
  BY DEF Compute, ComputeFails, StoreFresh, StoreStale, Finish
<1>7. (\E j \in Keys : Cleanup(j) \/ FreshExpires(j) \/ StaleExpires(j)) \/ DataChange
        \/ UNCHANGED guardVars => caller' = caller
  BY DEF Cleanup, FreshExpires, StaleExpires, DataChange, guardVars
<1> QED
  BY <1>3, <1>4, <1>5, <1>6, <1>7, StepKinds DEF ThreadStep

(* Every step of a thread is a step of the reader it stands for.           *)
LEMMA ReaderSteps ==
    ASSUME ServeInv, [GuardNext]_guardVars, NEW k \in Keys, NEW c \in Callers
    PROVE  ReaderOf(k, c)' \in Reads(k)!ReaderMoves(ReaderOf(k, c), version')
<1>1. /\ version' \in Nat /\ version \in Nat /\ version' >= version
      /\ caller[c] \in CallerType /\ k # None
      /\ (caller[c].at = "idle" <=> caller[c].key = None)
  BY VersionMoves, KeysAssumption DEF ServeInv, GuardInv, Types, CallersHaveKeys
<1> DEFINE May(x, y) == y \in Reads(k)!ReaderMoves(x, version')
<1> DEFINE x == ReaderOf(k, c)
<1> DEFINE y == ReaderOf(k, c)'
<1>2. /\ May(Idles, Idles)
      /\ \A v \in Nat : /\ v \in OldestServed(k)..version' => May(Idles, AsksFrom(v))
                        /\ May(HasGot(v), HasGot(v)) /\ May(HasGot(v), Idles)
      /\ \A v, w \in Nat : /\ v \in w..version' => May(AsksFrom(w), AsksFrom(v))
                           /\ v \in {0} \cup w..version' => May(AsksFrom(w), HasGot(v))
  BY <1>1, ReaderMay
<1> HIDE DEF May
<1>3. CASE Asks(c)
  <2>1. OldestFor(c) \in Nat /\ caller[c].at \notin {"idle", "answered"}
    BY <1>3, OldestForType DEF Asks
  <2>2. x = IF caller[c].key = k THEN AsksFrom(OldestFor(c)) ELSE Idles
    BY <2>1 DEF ReaderOf, AsksFrom, Idles
  <2>3. CASE GetsAnswer(c)
    <3>1. PICK v \in Nat : /\ v <= version /\ (v # 0 => v >= OldestFor(c))
                           /\ caller'[c] = [Idle EXCEPT !.at = "answered", !.got = v,
                                                        !.key = caller[c].key]
      BY <2>3 DEF GetsAnswer
    <3>2. caller'[c].at = "answered" /\ caller'[c].got = v /\ caller'[c].key = caller[c].key
      BY <3>1 DEF Idle
    <3>3. y = IF caller[c].key = k THEN HasGot(v) ELSE Idles
      BY <3>2 DEF ReaderOf, HasGot, Idles
    <3>4. v \in {0} \cup OldestFor(c)..version'
      BY <1>1, <2>1, <3>1
    <3> QED
      BY <1>2, <2>1, <2>2, <3>3, <3>4 DEF May
  <2>4. CASE AsksOn(c) \/ caller'[c] = caller[c]
    <3>1. OldestFor(c)' \in OldestFor(c)..version'
      BY <1>3, <2>4, AskerRises
    <3>2. caller'[c].key = caller[c].key /\ caller'[c].at # "answered"
      BY <2>1, <2>4 DEF AsksOn
    <3>3. y = IF caller[c].key = k THEN AsksFrom(OldestFor(c)') ELSE Idles
      BY <3>2 DEF ReaderOf, AsksFrom, Idles
    <3>4. OldestFor(c)' \in Nat
      BY <1>1, <2>1, <3>1
    <3> QED
      BY <1>2, <2>1, <2>2, <3>1, <3>3, <3>4 DEF May
  <2> QED
    BY <1>3, <2>3, <2>4, AskerSteps
<1>4. CASE ~Asks(c)
  <2>1. caller[c].at \in {"idle", "answered"} /\ caller[c].got \in Nat
    BY <1>1, <1>4 DEF CallerType, Asks
  <2>2. CASE caller'[c] = caller[c]
    <3>1. \/ x = Idles /\ y = Idles
          \/ x = HasGot(caller[c].got) /\ y = HasGot(caller[c].got)
      BY <1>1, <2>1, <2>2 DEF ReaderOf, Idles, HasGot
    <3> QED
      BY <1>2, <2>1, <3>1 DEF May
  <2>3. CASE caller[c].at = "answered" /\ caller'[c] = Idle
    <3>1. y = Idles /\ (x = Idles \/ x = HasGot(caller[c].got))
      BY <1>1, <2>1, <2>3 DEF ReaderOf, Idles, HasGot, Idle
    <3> QED
      BY <1>2, <2>1, <3>1 DEF May
  <2>4. ASSUME NEW j \in Keys, caller[c].at = "idle",
               caller'[c] = [Idle EXCEPT !.at = "fresh", !.key = j]
        PROVE  y \in Reads(k)!ReaderMoves(x, version')
    <3>1. /\ caller'[c].key = j /\ caller'[c].at = "fresh" /\ caller'[c].on = None
          /\ caller'[c].stale = 0
      BY <2>4 DEF Idle
    <3>2. x = Idles
      BY <1>1, <2>4 DEF ReaderOf, Idles
    <3>3. CASE j = k
      <4>1. /\ OldestServed(k)' \in OldestServed(k)..version' /\ OldestServed(k)' \in Nat \ {0}
        <5>1. OldestServed(k) \in Nat \ {0}
          BY ServedType
        <5> QED
          BY <1>1, <5>1, ServedRises
      <4>2. OldestServed(caller[c].key)' = OldestServed(k)'
        BY <3>1, <3>3 DEF OldestServed
      <4>3. OldestFor(c)' = Oldest({0, OldestServed(caller[c].key)'})
        BY <3>1 DEF OldestFor
      <4>4. OldestFor(c)' = OldestServed(k)'
        BY <4>1, <4>2, <4>3, OldestOfTwo
      <4>5. y = AsksFrom(OldestFor(c)')
        BY <3>1, <3>3 DEF ReaderOf, AsksFrom
      <4> QED
        BY <1>2, <3>2, <4>1, <4>4, <4>5 DEF May
    <3>4. CASE j # k
      <4>1. y = Idles
        BY <3>1, <3>4 DEF ReaderOf, Idles
      <4> QED
        BY <1>2, <3>2, <4>1 DEF May
    <3> QED
      BY <3>3, <3>4
  <2> QED
    BY <1>4, <2>2, <2>3, <2>4, OtherSteps
<1> QED
  BY <1>3, <1>4

(* Whoever asks for a key is answered with an error, or with data no older *)
(* than the oldest that were served for the key when it asked, and that    *)
(* only gets newer: the guard implements CachedRead for each of its keys.  *)
THEOREM GuardServesCachedReads == GuardSpec => ServesCachedReads
<1>1. ASSUME GuardInit, NEW k \in Keys
      PROVE  Reads(k)!ReadInit
  <2>1. /\ fresh[k] = 0 /\ stale[k] = 0 /\ inflight[k] = None /\ version = 1
        /\ \A c \in Callers : caller[c] = Idle
    BY <1>1 DEF GuardInit
  <2>2. OldestServed(k) = 1
    <3>1. Reading(inflight[k]) = 1
      BY <2>1 DEF Reading
    <3> QED
      BY <2>1, <3>1, OldestIsLeast DEF OldestServed
  <2>3. \A c \in Callers : ReaderOf(k, c) = [at |-> "idle", from |-> 0, got |-> 0]
    BY <2>1, KeysAssumption DEF ReaderOf, Idle
  <2> QED
    BY <2>1, <2>2, <2>3 DEF Reads!ReadInit, Reads!Free
<1>2. ServeInv /\ [GuardNext]_guardVars =>
        [\A k \in Keys : [Reads(k)!ReadNext]_(Reads(k)!readVars)]_guardVars
  <2> SUFFICES ASSUME ServeInv, [GuardNext]_guardVars, NEW k \in Keys
               PROVE  Reads(k)!ReadNext
    OBVIOUS
  <2>1. version' >= version
    BY VersionMoves DEF ServeInv, GuardInv, Types
  <2>2. OldestServed(k)' \in OldestServed(k)..version'
    <3>1. OldestServed(k) \in Nat /\ version' \in Nat
      BY ServedType, VersionMoves DEF ServeInv, GuardInv, Types
    <3> QED
      BY <3>1, ServedRises
  <2>3. \A c \in Callers : ReaderOf(k, c)' \in Reads(k)!ReaderMoves(ReaderOf(k, c), version')
    BY ReaderSteps
  <2> QED
    BY <2>1, <2>2, <2>3 DEF Reads!ReadNext
<1>3. GuardInit => \A k \in Keys : Reads(k)!ReadInit
  BY <1>1
<1> QED
  BY ServeInvariant, <1>2, <1>3, PTL DEF GuardSpec, ServesCachedReads
=============================================================================
