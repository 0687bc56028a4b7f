--------------------------- MODULE MCSubscription ---------------------------
(* Small instances of Subscription for TLC. *)
EXTENDS Subscription, TLC

CONSTANTS c1, c2, c3, k1, k2, p1, p2, t1, t2

Pays(transfer, period, replica) ==
    [transfer |-> transfer, period |-> period, replica |-> replica]

\* The same transfer claimed twice, and a grant recorded on another replica.
Renewals == c1 :> Pays(t1, 2, p1) @@ c2 :> Pays(t1, 2, p1) @@ c3 :> Pays(NoTransfer, 1, p2)

\* Two transfers of a tenant that had no subscription.
FirstPayments == c1 :> Pays(t1, 2, p1) @@ c2 :> Pays(t2, 1, p2)

Checks == k1 :> p1 @@ k2 :> p1
NoChecks == <<>>

\* The two claims are alike, and so are the checks.
Symmetry == Permutations({c1, c2}) \cup Permutations({k1, k2})
=============================================================================
