---------------------------- MODULE Subscription ----------------------------
(***************************************************************************)
(* One tenant's subscription: SubscriptionRepository.recordPayment, run by *)
(* concurrent transactions of any replica, and SubscriptionService, which  *)
(* decides from a cached row and the clock whether sponsorship goes on.    *)
(*                                                                         *)
(* Transactions run at READ COMMITTED.  A row lock and the unique index on *)
(* (chain_id, tx_hash) are waited for; a statement of a transaction that   *)
(* has not committed is seen by no other.                                  *)
(***************************************************************************)
EXTENDS Integers, FiniteSets, FiniteSetsExt

CONSTANTS
    Call,                \* calls that record a payment
    call,                \* their fields, see CallFields
    Transfer,            \* transactions on chain
    NoTransfer,          \* a grant: nothing was transferred
    Check,               \* requests that ask for the status
    home,                \* the replica each check runs on
    Replica,
    InitialPaidThrough,  \* the row there is before the calls, or Unsubscribed
    UnsubscribedAllows,  \* unsubscribedAllows
    GraceSeconds,        \* grace_seconds of the row
    TtlSeconds,          \* ttlMs
    MaxClock             \* bound: seconds

Unsubscribed == -1
NoCall == "no call"

CallFields == [transfer : Transfer \cup {NoTransfer}, period : Nat \ {0},
               replica : Replica]

ASSUME SubscriptionAssumption ==
    /\ call \in [Call -> CallFields] /\ home \in [Check -> Replica]
    /\ NoTransfer \notin Transfer /\ NoCall \notin Call
    /\ InitialPaidThrough \in Nat \cup {Unsubscribed}
    /\ UnsubscribedAllows \in BOOLEAN
    /\ GraceSeconds \in Nat /\ TtlSeconds \in Nat /\ MaxClock \in Nat

VARIABLES
    clock,        \* seconds
    paidThrough,  \* paid_through of the committed row, or Unsubscribed
    payments,     \* committed rows of subscription_payments
    lock,         \* the transaction that holds the row, or NoCall
    step,         \* where each call is
    asked,        \* the `now` of each call, until it has read the row
    extendedTo,   \* what each call computed; an aborted one has nothing
    cache,        \* each replica's entry
    check         \* where each check is

moneyVars == <<paidThrough, payments, lock, step, asked, extendedTo>>
statusVars == <<cache, check>>
subscriptionVars == <<clock, moneyVars, statusVars>>

Step == {"new", "asked", "read", "inserted", "updated", "committed", "done",
         "duplicate", "aborted"}
NoEntry == [paidThrough |-> Unsubscribed, readAt |-> -1]
Row == Nat \cup {Unsubscribed}
Entry == [paidThrough : Row, readAt : Nat] \cup {NoEntry}
CheckState ==
    [is : {"new"}]
    \cup [is : {"loading"}, asked : Nat]
    \cup [is : {"loaded"}, asked : Nat, paidThrough : Row]
    \cup [is : {"allowed", "refused"}, asked : Nat, at : Nat]

SubscriptionInit ==
    /\ clock = 0
    /\ paidThrough = InitialPaidThrough
    /\ payments = {}
    /\ lock = NoCall
    /\ step = [c \in Call |-> "new"]
    /\ asked = [c \in Call |-> 0]
    /\ extendedTo = [c \in Call |-> 0]
    /\ cache = [p \in Replica |-> NoEntry]
    /\ check = [k \in Check |-> [is |-> "new"]]

----------------------------------------------------------------------------
(* Recording a payment *)

Goto(c, s) == step' = [step EXCEPT ![c] = s]

Later(a, b) == IF a < b THEN b ELSE a

\* recordSubscriptionPayment, or claimSubscriptionPayment, which has yet to
\* verify the transfer on chain.
AskToRecord(c) ==
    /\ step[c] = "new"
    /\ Goto(c, "asked")
    /\ asked' = [asked EXCEPT ![c] = clock]
    /\ UNCHANGED <<clock, paidThrough, payments, lock, extendedTo, statusVars>>

\* SELECT ... FOR UPDATE: waits for the row, or finds none and locks nothing.
HoldsRow(c) == lock' = IF paidThrough = Unsubscribed THEN lock ELSE c

\* The time a period is added to.
ExtendedFrom(c) == Later(asked[c], paidThrough)

ReadRow(c) ==
    /\ step[c] = "asked"
    /\ paidThrough = Unsubscribed \/ lock = NoCall
    /\ Goto(c, "read")
    /\ HoldsRow(c)
    /\ extendedTo' = [extendedTo EXCEPT ![c] = ExtendedFrom(c) + call[c].period]
    /\ asked' = [asked EXCEPT ![c] = 0]
    /\ UNCHANGED <<clock, paidThrough, payments, statusVars>>

SameTransfer(c, d) ==
    c # d /\ call[c].transfer = call[d].transfer /\ call[c].transfer # NoTransfer

Open(c) == step[c] \in {"read", "inserted", "updated"}

\* subscription_payments_tx_idx.  (Slip: there is no such index.)
NoIndex(c) == FALSE
Claimed(c) == \E x \in payments : SameTransfer(c, x.by)

\* The row is free again after COMMIT or ROLLBACK.
Unlocked(c) == IF lock = c THEN NoCall ELSE lock

\* The insert waits for an open transaction with the same transfer, and fails
\* with DuplicatePaymentError if one has committed.
InsertPayment(c) ==
    /\ step[c] = "read"
    /\ \A d \in Call : step[d] \in {"inserted", "updated"} => ~SameTransfer(c, d)
    /\ IF Claimed(c)
       THEN Goto(c, "duplicate") /\ lock' = Unlocked(c)
       ELSE Goto(c, "inserted") /\ UNCHANGED lock
    /\ UNCHANGED <<clock, paidThrough, payments, asked, extendedTo, statusVars>>

\* INSERT ... ON CONFLICT DO UPDATE: waits for the row, or for another insert.
UpsertRow(c) ==
    /\ step[c] = "inserted"
    /\ lock \in {NoCall, c}
    /\ Goto(c, "updated")
    /\ lock' = c
    /\ UNCHANGED <<clock, paidThrough, payments, asked, extendedTo, statusVars>>

Commit(c) ==
    /\ step[c] = "updated"
    /\ Goto(c, "committed")
    /\ lock' = Unlocked(c)
    /\ paidThrough' = extendedTo[c]
    /\ payments' = payments \cup {[by |-> c, to |-> extendedTo[c], at |-> clock,
                                   from |-> extendedTo[c] - call[c].period]}
    /\ UNCHANGED <<clock, asked, extendedTo, statusVars>>

\* The verification refuses, the connection is lost, the replica dies, or the
\* database breaks a deadlock.
Abort(c) ==
    /\ step[c] = "asked" \/ Open(c)
    /\ Goto(c, "aborted")
    /\ lock' = Unlocked(c)
    /\ asked' = [asked EXCEPT ![c] = 0]
    /\ extendedTo' = [extendedTo EXCEPT ![c] = 0]
    /\ UNCHANGED <<clock, paidThrough, payments, statusVars>>

\* invalidate, on this replica only, and the answer.
Invalidate(c) ==
    /\ step[c] = "committed"
    /\ Goto(c, "done")
    /\ cache' = [cache EXCEPT ![call[c].replica] = NoEntry]
    /\ UNCHANGED <<clock, paidThrough, payments, lock, asked, extendedTo, check>>

----------------------------------------------------------------------------
(* The status *)

\* describe: the clock decides, not the time of the read.
Allows(p, t) == IF p = Unsubscribed THEN UnsubscribedAllows ELSE t =< p + GraceSeconds

Decision(k, p) ==
    [is |-> IF Allows(p, clock) THEN "allowed" ELSE "refused",
     asked |-> IF check[k].is = "new" THEN clock ELSE check[k].asked,
     at |-> clock]

Goes(k, s) == check' = [check EXCEPT ![k] = s]

Fresh(e) == e # NoEntry /\ clock - e.readAt < TtlSeconds

Hit(k) ==
    /\ check[k].is = "new"
    /\ Fresh(cache[home[k]])
    /\ Goes(k, Decision(k, cache[home[k]].paidThrough))
    /\ UNCHANGED <<clock, moneyVars, cache>>

Miss(k) ==
    /\ check[k].is = "new"
    /\ ~Fresh(cache[home[k]])
    /\ Goes(k, [is |-> "loading", asked |-> clock])
    /\ UNCHANGED <<clock, moneyVars, cache>>

Query(k) ==
    /\ check[k].is = "loading"
    /\ Goes(k, [is |-> "loaded", asked |-> check[k].asked,
                paidThrough |-> paidThrough])
    /\ UNCHANGED <<clock, moneyVars, cache>>

\* The entry's age counts from before the query.  (Slip: from its reply.)
ReadAtReply(k) == clock
ReadAt(k) == check[k].asked

Install(k) ==
    /\ check[k].is = "loaded"
    /\ cache' = [cache EXCEPT ![home[k]] =
                    [paidThrough |-> check[k].paidThrough, readAt |-> ReadAt(k)]]
    /\ Goes(k, Decision(k, check[k].paidThrough))
    /\ UNCHANGED <<clock, moneyVars>>

ClockTicks ==
    /\ clock < MaxClock
    /\ clock' = clock + 1
    /\ UNCHANGED <<moneyVars, statusVars>>

SubscriptionNext ==
    \/ \E c \in Call :
         \/ AskToRecord(c) \/ ReadRow(c) \/ InsertPayment(c) \/ UpsertRow(c)
         \/ Commit(c) \/ Abort(c) \/ Invalidate(c)
    \/ \E k \in Check : Hit(k) \/ Miss(k) \/ Query(k) \/ Install(k)
    \/ ClockTicks

SubscriptionSpec == SubscriptionInit /\ [][SubscriptionNext]_subscriptionVars

----------------------------------------------------------------------------
(* Properties *)

\* The types of the variables; only an open transaction holds the row.
TypeOK ==
    /\ clock \in 0..MaxClock
    /\ paidThrough \in Row
    /\ payments \subseteq [by : Call, from : Nat, to : Nat, at : Nat]
    /\ lock \in {c \in Call : Open(c)} \cup {NoCall}
    /\ step \in [Call -> Step]
    /\ asked \in [Call -> Nat]
    /\ extendedTo \in [Call -> Nat]
    /\ cache \in [Replica -> Entry]
    /\ check \in [Check -> CheckState]

\* No two payments bought the same second: "Paying early must ADD to the
\* period rather than reset it" (subscriptionRepository.ts), in whatever order
\* concurrent payments read, insert and commit.
PeriodsDisjoint ==
    \A x, y \in payments : x = y \/ x.to =< y.from \/ y.to =< x.from

\* A transfer buys time once, whoever claims it and however often.
TransferBuysOnce == \A x, y \in payments : ~SameTransfer(x.by, y.by)

\* The row is what its history bought: the subscription runs to the end of the
\* latest payment, so no commit takes back what another one sold.
RowIsHistory ==
    paidThrough = Max({x.to : x \in payments} \cup {InitialPaidThrough})

\* What had been paid before the second t.
PaidBefore(t) == Max({x.to : x \in {y \in payments : y.at < t}} \cup {InitialPaidThrough})

\* Whether a subscription paid through p serves at t.
Serves(p, t) ==
    \/ p = Unsubscribed /\ UnsubscribedAllows
    \/ p # Unsubscribed /\ t - p =< GraceSeconds

\* Nobody is served after the grace window of what was paid by then, however
\* old the cached row is.
ServedOnlyWhenPaid ==
    \A k \in Check : check[k].is = "allowed"
        => Serves(PaidBefore(check[k].at + 1), check[k].at)

\* A payment is overlooked for at most the TTL: a check that is refused would
\* be so by what had been paid TtlSeconds before it was made.
OverlookedAtMostTtl ==
    \A k \in Check : check[k].is = "refused"
        => ~Serves(PaidBefore(check[k].asked - TtlSeconds + 1), check[k].at)

\* The time that was sold is what was paid for: no second twice, no transfer
\* twice, and nothing sold is lost.
PaidTimeExact == TypeOK /\ PeriodsDisjoint /\ TransferBuysOnce /\ RowIsHistory

\* Service follows what was paid: not after its grace, and not refused for
\* longer than a cached row lives.
ServiceFollowsPayment == ServedOnlyWhenPaid /\ OverlookedAtMostTtl
=============================================================================
