----------------------------- MODULE CachedRead ------------------------------
(***************************************************************************)
(* What guarded_cached promises those who read one key through it: the     *)
(* oldest version of the data it may still hand out to who asks now only   *)
(* gets newer, and whoever asked is answered with an error or with data no *)
(* older than that was when it asked.                                      *)
(***************************************************************************)
EXTENDS Naturals

CONSTANT Readers

VARIABLES
    reader,     \* what each reader waits for (from) or was answered (got)
    version,    \* of the data
    oldest      \* the oldest version whoever asks now may be answered with

readVars == <<reader, version, oldest>>

Free == [at |-> "idle", from |-> 0, got |-> 0]

ReadInit ==
    /\ reader = [r \in Readers |-> Free]
    /\ version = 1 /\ oldest = 1

(* What a reader may become while the data come to version upto; 0 is an   *)
(* error.                                                                  *)
Asking(from, upto) == {[at |-> "asked", from |-> v, got |-> 0] : v \in from..upto}

Answers(from, upto) ==
    {[at |-> "answered", from |-> 0, got |-> v] : v \in {0} \cup from..upto}

ReaderMoves(now, upto) ==
    CASE now.at = "idle" -> {now} \cup Asking(oldest, upto)
      [] now.at = "asked" -> Asking(now.from, upto) \cup Answers(now.from, upto)
      [] now.at = "answered" -> {now, Free}

(* The data are written, values are replaced or expire, readers move.      *)
ReadNext ==
    /\ version' >= version
    /\ oldest' \in oldest..version'
    /\ \A r \in Readers : reader'[r] \in ReaderMoves(reader[r], version')

ReadSpec == ReadInit /\ [][ReadNext]_readVars
=============================================================================
