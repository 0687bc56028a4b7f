---------------------------- MODULE ChainAccess ----------------------------
(***************************************************************************)
(* How one replica reads its chains: ChainRegistry with a ChainAdapter per *)
(* chain, the CircuitBreaker every call of an adapter goes through, the    *)
(* cache of TenantBalanceReader in front of the check of a sponsorship,    *)
(* and the probes of readiness.                                            *)
(*                                                                         *)
(* A step is the code between two awaits.  Ages are counted up to where    *)
(* they are last compared, and calls of one kind and age are alike.        *)
(***************************************************************************)
EXTENDS Integers, Functions

CONSTANTS
    Chain,              \* the configured chains
    Enabled,            \* those that serve sponsorships, and
    MaxCalls,           \* bound: calls in flight on a chain
    NoBalance,
    FailureThreshold,   \* of the breaker, as is
    OpenTime,           \* `openMs`, in ticks, and
    HalfOpenMaxCalls,
    CacheTtl,           \* `ttlMs` of the balance cache, in ticks
    Latency,            \* bound: the ticks a call may take, with its retries
    Amount,             \* balances of the tenant, and what operations cost
    MaxUnknown,         \* bound: claims of transactions the chain does not know
    MaxOutages,         \* bound: how often an endpoint goes down
    MaxMoves            \* bound: movements of the tenant's balance

ASSUME ChainAssumption ==
    /\ FailureThreshold \in Nat \ {0}
    /\ OpenTime \in Nat /\ CacheTtl \in Nat /\ Latency \in Nat
    /\ NoBalance \notin [balance : Amount, age : Nat]

VARIABLES
    up,            \* do the endpoints of a chain answer
    breaker,       \* of each adapter
    calls,         \* how many calls of a kind and an age are in flight
    funds,         \* the tenant's balance on each chain
    seen,          \* history: ticks since a balance was last the true one
    balanceCache,  \* #cache
    failureRun,    \* history: the failures since a call last succeeded, and whether
                   \* the endpoint failed in one of them
    bounds         \* how many unknown transactions, outages and movements there were

chainVars == <<up, breaker, calls, funds, seen, balanceCache, failureRun, bounds>>

What == {"balance", "health", "known", "unknown"}
Kind == What \X (0..Latency)
Min2(a, b) == IF a < b THEN a ELSE b
Never == CacheTtl + Latency   \* older than anything compared
ClosedBreaker == [state |-> "closed", failures |-> 0, age |-> 0, trials |-> 0]

\* ChainRegistry.fromConfigs, and verifyAll has passed for every chain.
ChainInit ==
    /\ up = [c \in Chain |-> TRUE]
    /\ breaker = [c \in Chain |-> ClosedBreaker]
    /\ calls = [c \in Chain |-> [k \in Kind |-> 0]]
    /\ funds \in [Chain -> Amount]
    /\ seen = [c \in Chain |-> [b \in Amount |-> IF b = funds[c] THEN 0 ELSE Never]]
    /\ balanceCache = [c \in Chain |-> NoBalance]
    /\ failureRun = [c \in Chain |-> [length |-> 0, down |-> FALSE]]
    /\ bounds = [unknown |-> 0, outages |-> 0, moves |-> 0]
-----------------------------------------------------------------------------
(* CircuitBreaker *)

\* The getter `state`, which lets trials through after the cooldown.
Current(b) ==
    IF b.state = "open" /\ b.age >= OpenTime
    THEN [b EXCEPT !.state = "half-open", !.age = 0, !.trials = 0] ELSE b

Admits(b) == b.state = "closed" \/ (b.state = "half-open" /\ b.trials < HalfOpenMaxCalls)
Entered(b) == IF b.state = "half-open" /\ Admits(b) THEN [b EXCEPT !.trials = @ + 1] ELSE b

\* (Slip: the count survives a success.)
SlipKeepsCount(b) == [b EXCEPT !.state = "closed", !.trials = 0, !.age = 0]
OnSuccess(b) == ClosedBreaker

OnFailure(b) ==
    LET failures == Min2(b.failures + 1, FailureThreshold)
    IN  IF b.state = "half-open" \/ failures >= FailureThreshold
        THEN [b EXCEPT !.failures = failures, !.state = "open", !.age = 0, !.trials = 0]
        ELSE [b EXCEPT !.failures = failures]

Sets(c, b) == breaker' = [breaker EXCEPT ![c] = b]
-----------------------------------------------------------------------------
(* The adapter's calls *)

InFlight(c) == SumFunction(calls[c])
Asking(c, what) == \E age \in 0..Latency : calls[c][<<what, age>>] > 0

\* `n` reads that a method makes at once, each through the breaker, which may
\* admit none or only the first of them.
Reads(c, what, n) ==
    LET first == Entered(Current(breaker[c]))
        second == IF n = 2 THEN Entered(first) ELSE first
        admitted == IF ~Admits(Current(breaker[c])) THEN 0
                    ELSE IF n = 2 /\ Admits(first) THEN 2 ELSE 1
    IN  /\ InFlight(c) + n <= MaxCalls
        /\ Sets(c, second)
        /\ calls' = [calls EXCEPT ![c][<<what, 0>>] = @ + admitted]

\* getNativeTransfer, for a claim of a payment, asks for the transaction and for
\* its receipt.
ClaimPayment(c, what) ==
    /\ what = "unknown" => bounds.unknown < MaxUnknown
    /\ bounds' = IF what = "known" THEN bounds ELSE [bounds EXCEPT !.unknown = @ + 1]
    /\ Reads(c, what, 2)
    /\ UNCHANGED <<up, funds, seen, balanceCache, failureRun>>

\* TenantBalanceReader.balanceOf, when nothing is cached, for a sponsorship: a
\* balance that cannot be read lets the request pass.
ReadBalance(c) ==
    /\ c \in Enabled
    /\ balanceCache[c] = NoBalance
    /\ Reads(c, "balance", 1)
    /\ UNCHANGED <<up, funds, seen, balanceCache, failureRun, bounds>>

\* ChainAdapter.health, for the probes of every chain, disabled ones too.
AskHealth(c) ==
    /\ ~Asking(c, "health")
    /\ Reads(c, "health", 1)
    /\ UNCHANGED <<up, funds, seen, balanceCache, failureRun, bounds>>

\* A balance is kept as of the time it was asked for.
Cached(age, balance) == IF age < CacheTtl THEN [balance |-> balance, age |-> age] ELSE NoBalance

\* A call returns: with an answer, with "no such transaction", or with an error.
\* The breaker is told that `fn` threw, not why.
Returns(c, what, age) ==
    LET answered == up[c] /\ what # "unknown"
    IN  /\ calls[c][<<what, age>>] > 0
        /\ calls' = [calls EXCEPT ![c][<<what, age>>] = @ - 1]
        /\ Sets(c, IF answered THEN OnSuccess(breaker[c]) ELSE OnFailure(breaker[c]))
        /\ failureRun' = [failureRun EXCEPT ![c] =
                     IF answered THEN [length |-> 0, down |-> FALSE]
                     ELSE [length |-> Min2(@.length + 1, FailureThreshold),
                           down |-> @.down \/ ~up[c]]]
        /\ IF what = "balance" /\ answered
           THEN \E b \in Amount : seen[c][b] <= age /\ balanceCache' = [balanceCache EXCEPT ![c] = Cached(age, b)]
           ELSE UNCHANGED balanceCache
        /\ UNCHANGED <<up, funds, seen, bounds>>

\* `invalidate`, after an attestation was signed.
InvalidateBalance(c) ==
    /\ balanceCache[c] # NoBalance
    /\ balanceCache' = [balanceCache EXCEPT ![c] = NoBalance]
    /\ UNCHANGED <<up, breaker, calls, funds, seen, failureRun, bounds>>
-----------------------------------------------------------------------------
(* The chain and time *)

Outage(c) ==
    /\ up[c] /\ bounds.outages < MaxOutages
    /\ up' = [up EXCEPT ![c] = FALSE]
    /\ bounds' = [bounds EXCEPT !.outages = @ + 1]
    /\ UNCHANGED <<breaker, calls, funds, seen, balanceCache, failureRun>>

Recovers(c) ==
    /\ ~up[c]
    /\ up' = [up EXCEPT ![c] = TRUE]
    /\ UNCHANGED <<breaker, calls, funds, seen, balanceCache, failureRun, bounds>>

Move(c) ==
    /\ bounds.moves < MaxMoves
    /\ bounds' = [bounds EXCEPT !.moves = @ + 1]
    /\ \E b \in Amount \ {funds[c]} :
         /\ funds' = [funds EXCEPT ![c] = b]
         /\ seen' = [seen EXCEPT ![c][b] = 0]
    /\ UNCHANGED <<up, breaker, calls, balanceCache, failureRun>>

\* Time passes; calls time out after their retries, and cached balances expire.
ChainTick ==
    /\ \A c \in Chain, what \in What : calls[c][<<what, Latency>>] = 0
    /\ breaker' = [c \in Chain |-> [breaker[c] EXCEPT
                     !.age = IF breaker[c].state = "open" THEN Min2(@ + 1, OpenTime) ELSE 0]]
    /\ calls' = [c \in Chain |-> [k \in Kind |-> IF k[2] = 0 THEN 0 ELSE calls[c][<<k[1], k[2] - 1>>]]]
    /\ seen' = [c \in Chain |-> [b \in Amount |->
                  IF b = funds[c] THEN 0 ELSE Min2(seen[c][b] + 1, Never)]]
    /\ balanceCache' = [c \in Chain |-> IF balanceCache[c] = NoBalance THEN NoBalance
                                 ELSE Cached(balanceCache[c].age + 1, balanceCache[c].balance)]
    /\ UNCHANGED <<up, funds, failureRun, bounds>>

ChainNext ==
    \/ ChainTick
    \/ \E c \in Chain :
         \/ ReadBalance(c) \/ AskHealth(c) \/ InvalidateBalance(c)
         \/ \E what \in {"known", "unknown"} : ClaimPayment(c, what)
         \/ \E what \in What, age \in 0..Latency : Returns(c, what, age)
         \/ Outage(c) \/ Recovers(c) \/ Move(c)

\* A call has returned when its time is up.
TimesOut(c) == \E what \in What : Returns(c, what, Latency)

\* Calls have timeouts, probes are repeated, and time passes.
ChainFairness ==
    /\ \A c \in Chain : WF_chainVars(AskHealth(c)) /\ WF_chainVars(TimesOut(c))
    /\ WF_chainVars(ChainTick)

ChainSpec == ChainInit /\ [][ChainNext]_chainVars
ChainFairSpec == ChainSpec /\ ChainFairness
-----------------------------------------------------------------------------
(* Properties *)

\* A request is checked against a balance that was the tenant's within the time
\* a balance may be reused (tenantBalance.ts:8-13), however long the read took.
CachedIsRecent ==
    \A c \in Chain : balanceCache[c] # NoBalance => seen[c][balanceCache[c].balance] < CacheTtl

\* A breaker opens only after a run of failures without a success between them
\* (circuitBreaker.ts:15-17), lookups of transactions that do not exist included.
OpensOnRunOnly ==
    \A c \in Chain : breaker[c].state = "open" => failureRun[c].length >= FailureThreshold

\* What "when an RPC endpoint goes down" says (circuitBreaker.ts:4): an endpoint
\* that answers everything it is asked is not cut off.
OpensWhenDownOnly ==
    \A c \in Chain : breaker[c].state = "open" => failureRun[c].down

\* Once an endpoint is back for good, its chain is served again, whatever late
\* outcomes of older calls did to the breaker.
RecoversWhenUp ==
    \A c \in Chain : <>[]up[c] => <>[](breaker[c].state = "closed")

\* What the adapter remembers is so: balances are recent, and a breaker opened
\* for a run of failures.
BreakerAndCacheTellTheTruth == CachedIsRecent /\ OpensOnRunOnly
=============================================================================
