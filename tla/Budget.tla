------------------------------- MODULE Budget -------------------------------
(***************************************************************************)
(* What a quota promises: of each counter, its holders together never hold *)
(* more than the limit.  A holder takes if everything still fits, gives    *)
(* back what it likes of its own, and never of another's.                  *)
(***************************************************************************)
EXTENDS Integers, FiniteSets, Sums

CONSTANTS Slot, Holder, Limit

VARIABLE held

Init == held = [s \in Slot |-> [h \in Holder |-> 0]]

\* Only what h holds of s changes.
Only(s, h) ==
    \A t \in Slot, g \in Holder :
        t # s \/ g # h => held'[t][g] = held[t][g]

Take(s, h) ==
    /\ held'[s][h] > held[s][h]
    /\ SumOver(held'[s], Holder) =< Limit[s]

GiveBack(s, h) == held'[s][h] \in 0..held[s][h]

Next ==
    \E s \in Slot, h \in Holder : Only(s, h) /\ (Take(s, h) \/ GiveBack(s, h))

Spec == Init /\ [][Next]_held
=============================================================================
