------------------------ MODULE SpendReconciliation ------------------------
(***************************************************************************)
(* SpendReconciler with its Postgres store: every replica scans the chain  *)
(* for settled operations, claims the sponsorship that paid for each, and  *)
(* refunds the unused part of its reservation to the quota counters.       *)
(*                                                                         *)
(* The chain is a sequence of settled operations, one per block, behind    *)
(* the confirmations: what is seen is final.                               *)
(***************************************************************************)
EXTENDS Sponsorship, Sequences

CONSTANTS
    Replica,
    Cost,            \* costs in wei that operations may have
    ValiditySeconds, \* validitySeconds of an attestation
    MaxBlockRange,   \* maxBlockRange
    InitialLookback  \* initialLookbackBlocks

ASSUME ReconciliationAssumption ==
    /\ Cost \subseteq Nat
    /\ ValiditySeconds \in Nat
    /\ MaxBlockRange \in Nat \ {0} /\ InitialLookback \in Nat

VARIABLES
    chain,      \* UserOperationEvents: the operation, its cost, the request that paid
    reconciled, \* requests whose row has reconciled_at set
    checkpoint, \* last_block of the chain's checkpoint
    job         \* what each replica's reconcileChain is doing

reconVars == <<chain, reconciled, checkpoint, job>>
vars == <<sponsorVars, reconVars>>

NoBlock == -1

Idle == [step |-> "idle"]
Job == [step : {"head"}, head : Nat]
       \cup [step : {"claim", "save"}, block : Nat, to : Nat]
       \cup [step : {"refund"}, block : Nat, to : Nat, row : Request,
             todo : SUBSET Quota]
       \cup {Idle}

ReconInit ==
    /\ Init
    /\ chain = <<>>
    /\ reconciled = {}
    /\ checkpoint = NoBlock
    /\ job = [p \in Replica |-> Idle]

----------------------------------------------------------------------------
\* The bundler includes an operation once, with any attestation that was
\* issued for it and has not expired; what it costs is at most the maximum.
Mine(r, cost) ==
    /\ phase[r] = "issued"
    /\ now =< at[r] + ValiditySeconds
    /\ cost =< request[r].maxCost
    /\ \A b \in DOMAIN chain : chain[b].op # request[r].op
    /\ chain' = Append(chain, [op |-> request[r].op, cost |-> cost, by |-> r])
    /\ UNCHANGED <<sponsorVars, reconciled, checkpoint, job>>

Do(p, j) == job' = [job EXCEPT ![p] = j]

\* latestBlock, less the confirmations.
ReadHead(p) ==
    /\ job[p].step = "idle"
    /\ Do(p, [step |-> "head", head |-> Len(chain)])
    /\ UNCHANGED <<sponsorVars, chain, reconciled, checkpoint>>

AtLeast(a, b) == IF a < b THEN b ELSE a
AtMost(a, b) == IF a > b THEN b ELSE a

\* Nothing to scan.  (Slip: the last confirmed block is left for later.)
CaughtUpShort(from, head) == from >= head
CaughtUp(from, head) == from > head

\* getCheckpoint and the window: blocks are numbered from 1 here.
ReadCheckpoint(p) ==
    /\ job[p].step = "head"
    /\ LET head == job[p].head
           from == IF checkpoint = NoBlock THEN AtLeast(1, head - InitialLookback)
                   ELSE checkpoint + 1
           to == AtMost(head, from + MaxBlockRange - 1)
       IN  Do(p, IF CaughtUp(from, head) THEN Idle
                 ELSE [step |-> "claim", block |-> from, to |-> to])
    /\ UNCHANGED <<sponsorVars, chain, reconciled, checkpoint>>

\* The rows claim may take for an operation: recorded and not yet reconciled.
Unclaimed(op) ==
    {r \in Request : request[r].op = op /\ row[r] # NoRow /\ r \notin reconciled}

\* The newest of them is marked in the statement that returns it.  (Slip: it
\* is marked by a later statement, which a crash can prevent.)
MarkedLater(r) == reconciled
Marked(r) == reconciled \cup {r}

\* (Slip: the last block of the window is left out.)
NextBlockShort(p) ==
    IF job[p].block + 1 < job[p].to
    THEN [step |-> "claim", block |-> job[p].block + 1, to |-> job[p].to]
    ELSE [step |-> "save", block |-> job[p].block, to |-> job[p].to]
NextBlock(p) ==
    IF job[p].block < job[p].to
    THEN [step |-> "claim", block |-> job[p].block + 1, to |-> job[p].to]
    ELSE [step |-> "save", block |-> job[p].block, to |-> job[p].to]

\* claim.  The rules to refund are those of the policy as it is loaded now.
Claim(p) ==
    /\ job[p].step = "claim"
    /\ LET rows == Unclaimed(chain[job[p].block].op)
       IN  \/ /\ rows = {}
              /\ Do(p, NextBlock(p))
              /\ UNCHANGED reconciled
           \/ \E r \in rows :
                /\ \A x \in rows : row[x] =< row[r]
                /\ reconciled' = Marked(r)
                /\ Do(p, [step |-> "refund", block |-> job[p].block,
                          to |-> job[p].to, row |-> r, todo |-> policy])
    /\ UNCHANGED <<sponsorVars, chain, checkpoint>>

\* trueUp's delta: the difference of the two rounded amounts.
Delta(r, cost) == CeilGwei(request[r].maxCost) - CeilGwei(cost)

\* Whether trueUp finds a counter and something to give back to it.
Refundable(r, q, cost) ==
    /\ quota[q].unit = "wei"
    /\ quota[q].onRow /\ Carries(r, q)
    /\ Delta(r, cost) > 0

\* trueUp of one rule: the release is applied at the row's created_at.  What
\* the reservation was charged there and is still holding is refunded; the
\* rest of the effect is a leak.
TrueUp(p, q) ==
    /\ job[p].step = "refund"
    /\ q \in job[p].todo
    /\ \A x \in job[p].todo : q =< x
    /\ Do(p, [job[p] EXCEPT !.todo = @ \ {q}])
    /\ LET r == job[p].row
           cost == chain[job[p].block].cost
           s == SlotOf(q, r, row[r])
           charged == q \in reserved[r] /\ s = SlotOf(q, r, at[r])
       IN  IF Refundable(r, q, cost)
           THEN \/ /\ Release(s, Delta(r, cost))
                   /\ left' = IF charged
                              THEN [left EXCEPT ![r][q] = CeilGwei(cost)] ELSE left
                   /\ IF charged THEN UNCHANGED leaked ELSE Leak(s, Delta(r, cost))
                   /\ UNCHANGED faults
                \/ /\ Fails("releaseRefused")
                   /\ UNCHANGED <<used, left, leaked>>
           ELSE UNCHANGED <<used, left, leaked, faults>>
    /\ UNCHANGED <<now, policy, edits, serviceVars, chain, reconciled, checkpoint>>

Refunded(p) ==
    /\ job[p].step = "refund"
    /\ job[p].todo = {}
    /\ Do(p, NextBlock(p))
    /\ UNCHANGED <<sponsorVars, chain, reconciled, checkpoint>>

\* saveCheckpoint keeps the greater block.
Saved(to) == AtLeast(checkpoint, to)

SaveCheckpoint(p) ==
    /\ job[p].step = "save"
    /\ checkpoint' = Saved(job[p].to)
    /\ Do(p, Idle)
    /\ UNCHANGED <<sponsorVars, chain, reconciled>>

\* The scan is cut short: the replica dies, or a query fails and is logged.
Abandon(p) ==
    /\ job[p].step # "idle"
    /\ Fails("replicaDies")
    /\ Do(p, Idle)
    /\ UNCHANGED <<now, policy, edits, used, serviceVars, left, leaked, chain,
                   reconciled, checkpoint>>

Reconcile(p) ==
    \/ ReadHead(p) \/ ReadCheckpoint(p) \/ Claim(p)
    \/ \E q \in Quota : TrueUp(p, q)
    \/ Refunded(p) \/ SaveCheckpoint(p)

Next ==
    \/ SponsorNext /\ UNCHANGED reconVars
    \/ \E r \in Request, c \in Cost : Mine(r, c)
    \/ \E p \in Replica : Reconcile(p) \/ Abandon(p)

Spec == ReconInit /\ [][Next]_vars

\* The interval loop of some replica goes on: another may stall for ever.
FairSpec == Spec /\ WF_vars(\E p \in Replica : Reconcile(p))

----------------------------------------------------------------------------
(* Properties *)

\* The types of the variables.
TypeOK ==
    /\ SponsorTypeOK
    /\ chain \in Seq([op : Nat, cost : Nat, by : Request])
    /\ reconciled \subseteq {r \in Request : row[r] # NoRow}
    /\ checkpoint \in Nat \cup {NoBlock}
    /\ job \in [Replica -> Job]

\* What was paid on chain for operations whose attestation reserved on s.
Spent(s) ==
    SumOver([b \in DOMAIN chain |->
        IF /\ s.quota \in rules[chain[b].by]
           /\ SlotOf(s.quota, chain[b].by, at[chain[b].by]) = s
        THEN chain[b].cost ELSE 0], DOMAIN chain)

\* A spend cap caps what is spent: of the operations sponsored within one
\* window, no more is paid on chain than the limit and what was leaked from
\* the counter.  Requests, retries, denials, refunds by several replicas,
\* rescans after a crash and claims of another attestation of the same
\* operation never raise it.
SpendWithinCap ==
    \A s \in Slot : quota[s.quota].unit = "wei"
        => Spent(s) =< quota[s.quota].limit + leaked[s] * WeiPerGwei

\* The same without leaks: "every ambiguity resolves toward reserving MORE,
\* never less" (spendReconciler.ts).
SpendWithinLimit ==
    \A s \in Slot : quota[s.quota].unit = "wei" => Spent(s) =< quota[s.quota].limit

\* No settled operation is passed over: below the checkpoint, every event has
\* claimed a sponsorship, although replicas scan overlapping windows and die
\* in the middle of them.
NoEventSkipped ==
    \A b \in DOMAIN chain : b =< checkpoint
        => \E r \in reconciled : request[r].op = chain[b].op

\* A slower replica never rewinds the checkpoint.
CheckpointAdvances == [][checkpoint' >= checkpoint]_vars

\* Nothing behind the checkpoint is missing.
CheckpointTellsTheTruth == TypeOK /\ NoEventSkipped

\* Every settled operation is reconciled in the end.
EventuallyReconciled ==
    \A r \in Request :
        (\E b \in DOMAIN chain : chain[b].by = r)
           ~> (\E x \in reconciled : request[x].op = request[r].op)

\* The scan goes on, and never back, whichever replica is slow or dies.
ScanGoesOn == CheckpointAdvances /\ EventuallyReconciled
=============================================================================
