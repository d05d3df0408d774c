--------------------------- MODULE MCRequestGuard ----------------------------
(* RequestGuard for two threads, three keys and two permits, so that the   *)
(* third key may be refused.  Threads, keys and futures are                *)
(* interchangeable.                                                        *)
EXTENDS RequestGuard, TLC

Symmetry == Permutations(Callers) \cup Permutations(Keys) \cup Permutations(Futures)

(* Bound: the keys of which a value is cached at a time.  Computations of  *)
(* different keys share the permits but no cache.                          *)
TwoKeysCached == Cardinality({k \in Keys : fresh[k] # 0 \/ stale[k] # 0}) <= 2
=============================================================================
