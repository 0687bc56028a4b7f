------------------------- MODULE MCTenantPaymaster -------------------------
(* Small instances of TenantPaymaster for TLC. *)
EXTENDS TenantPaymaster, TLC

CONSTANTS t1, t2, s1, s2, o1, o2, o3, a1, a2, a3

\* An operation as the fuzz test of the repository builds it, in coarse units:
\* the postOp limit is a large part of the execution gas.
MCOp(t, s, call, post, slack) ==
    [tenant |-> t, signer |-> s, maxCost |-> 1 + call + post + slack,
     preCost |-> 1, callLimit |-> call, postOpLimit |-> post,
     validAfter |-> 0, validUntil |-> 0]

\* Two cheap operations of different tenants and one of the first tenant whose
\* call limit makes the unused-gas penalty bite.
MoneyOps == o1 :> MCOp(t1, s1, 1, 1, 0) @@ o2 :> MCOp(t2, s1, 1, 1, 1)
              @@ o3 :> MCOp(t1, s1, 10, 1, 0)

\* The accounting alone, without the owner's administration and controllers.
MoneySpec == Init /\ [][Fund \/ Sponsor]_vars

\* The smallest operations, for the runs that are about control.
CustodyOps == o1 :> MCOp(t1, s1, 1, 1, 0)
=============================================================================
