-------------------------- MODULE TenantAccounts --------------------------
(***************************************************************************)
(* What the paymaster promises its tenants: each has an account of its     *)
(* own.  Wei come into it by deposits, are held for an operation, and      *)
(* leave it by withdrawals and by settling what was held; whatever of a    *)
(* hold is not spent comes back.  No step touches two accounts.            *)
(*                                                                         *)
(* The amounts are read off the step, so that an implementation may choose *)
(* any.                                                                    *)
(***************************************************************************)
EXTENDS Integers

CONSTANT Tenant

VARIABLES available, held, gone
vars == <<available, held, gone>>

Init ==
    /\ available = [t \in Tenant |-> 0]
    /\ held = [t \in Tenant |-> 0]
    /\ gone = [t \in Tenant |-> 0]

\* Only tenant t's account changes.
Only(t) ==
    \A u \in Tenant \ {t} :
        available'[u] = available[u] /\ held'[u] = held[u] /\ gone'[u] = gone[u]

Deposit(t) ==
    /\ available'[t] > available[t]
    /\ held'[t] = held[t] /\ gone'[t] = gone[t]

Withdraw(t) ==
    /\ available'[t] \in 0..available[t]
    /\ gone'[t] = gone[t] + (available[t] - available'[t])
    /\ held'[t] = held[t]

Hold(t) ==
    /\ available'[t] \in 0..available[t]
    /\ held'[t] = held[t] + (available[t] - available'[t])
    /\ gone'[t] = gone[t]

Settle(t) ==
    /\ held'[t] \in 0..held[t]
    /\ available'[t] \in available[t]..(available[t] + (held[t] - held'[t]))
    /\ gone'[t] = gone[t] + (held[t] - held'[t]) - (available'[t] - available[t])

Next ==
    \E t \in Tenant :
        /\ Deposit(t) \/ Withdraw(t) \/ Hold(t) \/ Settle(t)
        /\ Only(t)

Spec == Init /\ [][Next]_vars
=============================================================================
