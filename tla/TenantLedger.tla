---------------------------- MODULE TenantLedger ----------------------------
(***************************************************************************)
(* TenantLedgerReconciler with its Postgres store: every replica replays   *)
(* the contract's events against the balances it holds, reports what no    *)
(* event explains, and rebases.  Alerts go to the log of the replica, and  *)
(* from the leader alone to the pager.                                     *)
(*                                                                         *)
(* The chain is a sequence of blocks behind the confirmations, each with   *)
(* one movement of one tenant's balance.  A movement is silent when no     *)
(* event reports it: a reservation whose postOp reverted.                  *)
(***************************************************************************)
EXTENDS Integers, FiniteSets, Sequences, FiniteSetsExt, Sums

CONSTANTS
    Tenant,
    Replica,
    Delta,           \* movements that events report, in wei
    Loss,            \* movements that none reports
    MaxBlockRange,   \* maxBlockRange
    InitialLookback, \* initialLookbackBlocks
    Fault,           \* kinds of failures that happen, see Faults
    MaxFaults,       \* bound: failures, of one kind each
    MaxBlocks        \* bound: blocks

Faults == {"replica dies", "balance unreadable", "leader changes"}

ASSUME LedgerAssumption ==
    /\ Delta \subseteq Int /\ \A d \in Loss : d \in Int /\ d < 0
    /\ MaxBlockRange \in Nat \ {0} /\ InitialLookback \in Nat
    /\ Fault \subseteq Faults /\ MaxFaults \in Nat /\ MaxBlocks \in Nat

VARIABLES
    chain,      \* blocks: the tenant, the movement, whether it is silent
    entries,    \* tenant_ledger_entries, by block
    balances,   \* tenant_ledger_balances, by tenant
    checkpoint, \* last_block of the chain's checkpoint
    job,        \* what each replica's reconcileChain is doing
    leader,     \* the replica that delivers to the pager
    noticed,    \* silent blocks that a reported drift covered
    absorbed,   \* silent blocks that came before a tenant's first balance
    masked,     \* those that a raced pass compared, and found nothing to report
    paged,      \* those the pager was told of
    falseAlarm, \* reported drifts that events explain, by whether they raced
    failed      \* kinds of failures that happened

storeVars == <<entries, balances, checkpoint>>
alertVars == <<noticed, absorbed, masked, paged, falseAlarm>>
vars == <<chain, storeVars, job, leader, alertVars, failed>>

NoBlock == -1
Row == Nat \cup {NoBlock}
Unseen == [wei |-> 0, asOf |-> NoBlock, upTo |-> NoBlock]
Idle == [step |-> "idle"]

Block == [tenant : Tenant, delta : Int, silent : BOOLEAN]
\* A balance as of a block.  upTo, which no column holds, is the last block
\* whose silent movements are in it.
Balance == [wei : Int, asOf : Nat, upTo : Nat] \cup {Unseen}
Unread == [wei |-> 0, upTo |-> NoBlock]
Reading == [wei : Int, upTo : Nat] \cup {Unread}
Known == [Tenant -> Balance]
Job == {Idle} \cup [step : {"head"}, head : Nat]
       \cup [step : {"window"}, head : Nat, from : Nat, to : Nat, after : Row]
       \* raced: another replica committed between checkpoint and balances.
       \cup [step : {"compare"}, from : Nat, to : Nat, known : Known, raced : BOOLEAN,
             todo : SUBSET Tenant, reconciled : [Tenant -> Reading]]

Init ==
    /\ chain = <<>>
    /\ entries = {}
    /\ balances = [t \in Tenant |-> Unseen]
    /\ checkpoint = NoBlock
    /\ job = [p \in Replica |-> Idle]
    /\ leader \in Replica
    /\ noticed = {} /\ absorbed = {} /\ masked = {} /\ paged = {} /\ falseAlarm = {}
    /\ failed = {}

Fails(kind) ==
    /\ kind \in Fault \ failed
    /\ Cardinality(failed) < MaxFaults
    /\ failed' = failed \cup {kind}

----------------------------------------------------------------------------
(* The chain *)

Moves(t, from, to) == {b \in from..to : chain[b].tenant = t}
MovedIn(t, from, to) == SumOver([b \in DOMAIN chain |-> chain[b].delta], Moves(t, from, to))

\* balanceAt: the balance in storage at the end of a block.
BalanceAt(t, b) == MovedIn(t, 1, b)

\* The events of a tenant in a window.
Reported(t, from, to) == {b \in Moves(t, from, to) : ~chain[b].silent}

Mine(t, d, silent) ==
    /\ Len(chain) < MaxBlocks
    /\ BalanceAt(t, Len(chain)) + d >= 0
    /\ chain' = Append(chain, [tenant |-> t, delta |-> d, silent |-> silent])
    /\ UNCHANGED <<storeVars, job, leader, alertVars, failed>>

----------------------------------------------------------------------------
(* One pass of reconcileChain *)

Do(p, j) == job' = [job EXCEPT ![p] = j]

AtLeast(a, b) == IF a < b THEN b ELSE a
AtMost(a, b) == IF a > b THEN b ELSE a

\* latestBlock, less the confirmations.
ReadHead(p) ==
    /\ job[p].step = "idle"
    /\ Do(p, [step |-> "head", head |-> Len(chain)])
    /\ UNCHANGED <<chain, storeVars, leader, alertVars, failed>>

\* getCheckpoint and the window: blocks are numbered from 1 here.
ReadCheckpoint(p) ==
    /\ job[p].step = "head"
    /\ LET head == job[p].head
           from == IF checkpoint = NoBlock THEN AtLeast(1, head - InitialLookback)
                   ELSE checkpoint + 1
           to == AtMost(head, from + MaxBlockRange - 1)
       IN  Do(p, IF from > head THEN Idle
                 ELSE [step |-> "window", head |-> head, from |-> from, to |-> to,
                       after |-> checkpoint])
    /\ UNCHANGED <<chain, storeVars, leader, alertVars, failed>>

\* The tenants to check: those with an event in the window and, once caught up
\* to the head, every one that is known.  (Slip: the latter are left out.)
KeysWithEvents(j, known) == {t \in Tenant : Reported(t, j.from, j.to) # {}}
Keys(j, known) ==
    {t \in Tenant : \/ Reported(t, j.from, j.to) # {}
                    \/ j.to = j.head /\ known[t] # Unseen}

\* balances.
ReadBalances(p) ==
    /\ job[p].step = "window"
    /\ Do(p, [step |-> "compare", from |-> job[p].from, to |-> job[p].to,
              known |-> balances, raced |-> checkpoint # job[p].after, todo |-> Keys(job[p], balances),
              reconciled |-> [t \in Tenant |-> Unread]])
    /\ UNCHANGED <<chain, storeVars, leader, alertVars, failed>>

\* #actualBalance: the balance at the window's last block; if it cannot be
\* read, what the tenant's last event in the window reports, if there is one.
ActualBalance(t, j, readable) ==
    LET events == Reported(t, j.from, j.to)
        at == IF readable THEN j.to ELSE Max(events)
    IN  IF ~readable /\ events = {} THEN Unread
        ELSE [wei |-> BalanceAt(t, at), upTo |-> at]

\* What history says the balance is.  (Slip: what the last event says.)
ExpectedByLastEvent(t, j) ==
    LET events == Reported(t, j.from, j.to)
    IN  IF events = {} THEN j.known[t].wei ELSE BalanceAt(t, Max(events))
Expected(t, j) ==
    j.known[t].wei + SumOver([b \in DOMAIN chain |-> chain[b].delta],
                             Reported(t, j.from, j.to))

\* Silent movements since the stored balance.
SilentSince(t, j, upTo) ==
    {b \in DOMAIN chain : /\ chain[b].tenant = t /\ chain[b].silent
                          /\ j.known[t].upTo < b /\ b =< upTo}

\* One tenant of the pass: a new one is seeded, a drift is fired, and logged
\* whether or not this replica leads.
Compare(p, t) ==
    /\ job[p].step = "compare"
    /\ t \in job[p].todo
    /\ \E readable \in BOOLEAN :
         LET j == job[p]
             actual == ActualBalance(t, j, readable)
             isNew == j.known[t] = Unseen
             drifts == ~isNew /\ actual # Unread /\ Expected(t, j) # actual.wei
             silent == SilentSince(t, j, actual.upTo)
         IN  /\ IF readable THEN UNCHANGED failed ELSE Fails("balance unreadable")
             /\ Do(p, [j EXCEPT !.todo = @ \ {t}, !.reconciled[t] = actual])
             /\ absorbed' = IF isNew THEN absorbed \cup silent ELSE absorbed
             /\ masked' = IF ~isNew /\ ~drifts /\ j.raced THEN masked \cup silent ELSE masked
             /\ IF drifts
                THEN /\ noticed' = noticed \cup silent
                     /\ paged' = IF leader = p THEN paged \cup silent ELSE paged
                     /\ falseAlarm' = IF silent = {} THEN falseAlarm \cup {j.raced} ELSE falseAlarm
                ELSE UNCHANGED <<noticed, paged, falseAlarm>>
    /\ UNCHANGED <<chain, storeVars, leader>>

\* The upsert of a balance, guarded by its as_of_block.
NotOlder(old, to) == old.asOf =< to

Rebased(j, t) ==
    IF j.reconciled[t] # Unread /\ NotOlder(balances[t], j.to)
    THEN [wei |-> j.reconciled[t].wei, asOf |-> j.to, upTo |-> j.reconciled[t].upTo]
    ELSE balances[t]

\* The checkpoint that a window leaves.
Saved(to) == AtLeast(checkpoint, to)

\* commitWindow: entries, balances and checkpoint in one transaction.
CommitWindow(p) ==
    /\ job[p].step = "compare"
    /\ job[p].todo = {}
    /\ LET j == job[p]
       IN  /\ entries' = entries \cup {b \in j.from..j.to : ~chain[b].silent}
           /\ balances' = [t \in Tenant |-> Rebased(j, t)]
           /\ checkpoint' = Saved(j.to)
    /\ Do(p, Idle)
    /\ UNCHANGED <<chain, leader, alertVars, failed>>

\* The replica dies or a query fails, and nothing of the window is committed.
Abandon(p) ==
    /\ job[p].step # "idle"
    /\ Fails("replica dies")
    /\ Do(p, Idle)
    /\ UNCHANGED <<chain, storeVars, leader, alertVars>>

Elect(p) ==
    /\ leader # p
    /\ Fails("leader changes")
    /\ leader' = p
    /\ UNCHANGED <<chain, storeVars, job, alertVars>>

Reconcile(p) ==
    \/ ReadHead(p) \/ ReadCheckpoint(p) \/ ReadBalances(p)
    \/ \E t \in Tenant : Compare(p, t)
    \/ CommitWindow(p)

Next ==
    \/ \E t \in Tenant : \/ \E d \in Delta : Mine(t, d, FALSE)
                         \/ \E d \in Loss : Mine(t, d, TRUE)
    \/ \E p \in Replica : Reconcile(p) \/ Abandon(p) \/ Elect(p)

Spec == Init /\ [][Next]_vars

\* The interval loop of some replica goes on: another may stall for ever.
FairSpec == Spec /\ WF_vars(\E p \in Replica : Reconcile(p))

----------------------------------------------------------------------------
(* Properties *)

\* The types of the variables; no balance is ahead of the checkpoint.
TypeOK ==
    /\ chain \in Seq(Block)
    /\ entries \subseteq DOMAIN chain
    /\ balances \in Known
    /\ checkpoint \in Row
    /\ \A t \in Tenant : balances[t].asOf =< checkpoint
    /\ job \in [Replica -> Job]
    /\ leader \in Replica
    /\ noticed \subseteq DOMAIN chain /\ absorbed \subseteq DOMAIN chain
    /\ masked \subseteq DOMAIN chain /\ paged \subseteq noticed
    /\ falseAlarm \subseteq BOOLEAN
    /\ failed \subseteq Fault

\* The ledger has every event up to its checkpoint from the first it has:
\* no window is lost, whichever replica commits, dies or comes late.
LedgerComplete ==
    \A b \in DOMAIN chain :
        (~chain[b].silent /\ b =< checkpoint /\ \E e \in entries : e < b)
            => b \in entries

\* What moved silently before a stored balance has been reported, but for
\* what the tenant's first balance took in, and for what a raced pass masked:
\* it counts charges that the balances it read already hold, which make up for
\* a loss of the same amount.  No other pass rebases over a loss unsaid.
SilentMovesAreNoticed ==
    \A b \in DOMAIN chain : (chain[b].silent /\ b =< balances[chain[b].tenant].upTo)
        => b \in noticed \cup absorbed \cup masked

\* "A mismatch means money moved without an event" (tenantLedgerReconciler.ts),
\* unless another replica committed between the two reads of the pass.
FalseAlarmsRaced == FALSE \notin falseAlarm

\* The books are right: whole, and no drift is passed over or made up but by
\* a pass that another replica's commit raced.
BooksRight == TypeOK /\ LedgerComplete /\ SilentMovesAreNoticed /\ FalseAlarmsRaced

\* "A follower's suppressed alert is one the leader is raising from its own
\* observation of the same chain" (leaderAlerter.ts): what was noticed is
\* paged in the end.
NoticedIsPaged == \A b \in 1..MaxBlocks : b \in noticed ~> b \in paged

\* A silent movement of a tenant whose balance is known is noticed in the end
\* (or taken in by a replica that began before the balance was known, or
\* masked by a raced pass).  If a
\* balance could not be read, that takes a later window, which a chain of
\* MaxBlocks need not have.
SilentMovesSurface ==
    \A b \in 1..MaxBlocks :
        (b \in DOMAIN chain /\ chain[b].silent
           /\ balances[chain[b].tenant] # Unseen /\ balances[chain[b].tenant].upTo < b)
            ~> b \in noticed \cup absorbed \cup masked \/ "balance unreadable" \in failed
=============================================================================
