------------------------ MODULE MCTradingAgentsRuns ------------------------
(* TLC instances of TradingAgentsRuns.  Client handlers, workers,             *)
(* executions and snapshots are interchangeable, and so are runs and days     *)
(* where no day is of a Vietnam asset and all have one thread id, so safety   *)
(* runs may identify states that differ by a permutation of them; liveness    *)
(* runs do not.                                                               *)
EXTENDS TradingAgentsRuns, TLC

\* Every asset of the instance is one instrument under its different symbols
\* (BTC/USDT, BTC/USD and BTC-USD), all days are one day, and all graphs alike.
OneThread == [d \in AssetDays |-> CHOOSE t \in ThreadIds : TRUE]

Symmetry == Permutations(Clients) \cup Permutations(Workers)
              \cup Permutations(Executions) \cup Permutations(Snapshots)
AliasSymmetry == Symmetry \cup Permutations(Runs) \cup Permutations(AssetDays)
=============================================================================
