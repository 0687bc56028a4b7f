----------------------- MODULE MCSpendReconciliation -----------------------
(* Small instances of SpendReconciliation for TLC. *)
EXTENDS SpendReconciliation, TLC

CONSTANTS r1, r2, r3, p1, p2, w1

Spend(limit) == [unit |-> "wei", limit |-> limit, onMissingSubject |-> "deny",
                 onRow |-> TRUE]
Want(op, cost) == [op |-> op, maxCost |-> cost, subject |-> [q \in Quota |-> w1]]

\* Two attestations for one operation, and a second operation.
CapQuotas == 1 :> Spend(9)
CapRequests == r1 :> Want(1, 6) @@ r2 :> Want(1, 1) @@ r3 :> Want(2, 6)

\* Requests of the same size; the cap has room for one, and for the refund of another.
RoomyQuotas == 1 :> Spend(6)
WindowRequests == r1 :> Want(1, 4) @@ r2 :> Want(2, 4) @@ r3 :> Want(3, 4)
=============================================================================
