---------------------------- MODULE LatestAnswer ----------------------------
(* What a view that can be asked again promises: once a newer question has *)
(* been asked, the answer to an older one is not put on the screen.  It    *)
(* stays on the screen, if it was there, until the view is cleared or the  *)
(* newest question is answered.                                            *)
EXTENDS Naturals

VARIABLES
    asked,    \* the number of the newest question
    shown     \* the question whose answer is shown, 0 for none

Init == asked = 0 /\ shown = 0

(* A question answered from a cache is answered as it is asked.            *)
Ask ==
    /\ asked' \in Nat /\ asked' > asked
    /\ shown' \in {shown, 0, asked'}

Show == shown' = asked /\ UNCHANGED asked

Clear == shown' = 0 /\ UNCHANGED asked

Next == Ask \/ Show \/ Clear

Spec == Init /\ [][Next]_<<asked, shown>>
=============================================================================
