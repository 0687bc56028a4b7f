-------------------------- MODULE TenantPaymaster --------------------------
(***************************************************************************)
(* contracts/src/TenantPaymaster.sol, with the part of the ERC-4337        *)
(* EntryPoint (v0.7, pinned in contracts/foundry.lock) that calls it.      *)
(*                                                                         *)
(* One staked paymaster holds a balance per tenant against one EntryPoint  *)
(* deposit.  EntryPoint.handleOps first validates every operation of a     *)
(* bundle -- taking the prefund out of the deposit and calling             *)
(* validatePaymasterUserOp, which reserves the worst case -- and only then *)
(* runs them one by one, each followed by postOp, which gives the unused   *)
(* part of the reservation back.  While an operation runs, its call may    *)
(* itself call the paymaster.                                              *)
(*                                                                         *)
(* A transaction that reverts changes nothing, so only calls that succeed  *)
(* are steps.  Amounts are wei, at the gas price of the operation; gas     *)
(* limits below are the limits multiplied by that price.                   *)
(***************************************************************************)
EXTENDS Integers, FiniteSets, Sums

CONSTANTS
    Tenant,         \* tenant keys, bytes32(0) excluded: every entry point refuses it
    Account,        \* addresses, address(0) excluded
    NoAccount,      \* address(0)
    Signer,         \* attestation keys
    Op,             \* user operations; the EntryPoint's nonce lets each run at most once
    userOp,         \* the fields of each operation, see UserOp
    PenaltyPercent, \* EntryPoint v0.7 PENALTY_PERCENT: share of unused gas still charged
    ClaimDelay,     \* CONTROLLER_CLAIM_DELAY
    AssignmentTtl,  \* CONTROLLER_ATTESTATION_TTL_SECONDS
    Amount,         \* amounts deposited and withdrawn in one call
    MaxDeposited,   \* bound: wei deposited for one tenant
    MaxDeposit,     \* bound: the deposit after a payment for no tenant
    MaxOwnerTook,   \* bound: wei the owner draws on the deposit
    MaxNonce,       \* bound: controller changes per tenant
    MaxIssued,      \* bound: controller attestations ever signed
    MaxTime         \* bound: block.timestamp

\* What the EntryPoint and the attestation say of an operation.  maxCost is
\* the required prefund; preCost is what verification and the fixed overhead
\* come to; callLimit and postOpLimit are callGasLimit and
\* paymasterPostOpGasLimit.
UserOp == [tenant : Tenant, signer : Signer, maxCost : Nat, preCost : Nat,
           callLimit : Nat, postOpLimit : Nat,
           validAfter : Nat, validUntil : Nat]

ASSUME ConstantsAssumption ==
    /\ IsFiniteSet(Tenant) /\ IsFiniteSet(Op) /\ IsFiniteSet(Signer)
    /\ NoAccount \notin Account
    /\ userOp \in [Op -> UserOp]
    /\ PenaltyPercent \in 0..100
    /\ ClaimDelay \in Nat /\ AssignmentTtl \in Nat
    /\ Amount \subseteq Nat \ {0}
    /\ MaxDeposited \in Nat /\ MaxDeposit \in Nat /\ MaxOwnerTook \in Nat
    /\ MaxNonce \in Nat /\ MaxIssued \in Nat /\ MaxTime \in Nat

VARIABLES
    balances,           \* _balances
    totalTenantBalance,
    isSigner,           \* _isSigner, as the set of authorised keys
    signerCount,
    controllerOf,
    controllerNonce,
    controllerActiveAt,
    paused,
    owner, pendingOwner,
    deposit,            \* the EntryPoint's balanceOf(paymaster)
    opStatus,           \* where each operation is in its bundle
    executing,          \* the bundle's validation loop is over
    now,                \* block.timestamp
    issued,             \* controller attestations the backend has signed
    ledger,             \* sums of the events, per tenant: deposited, withdrawn, charged
    ownerTook,          \* taken by the owner with BasePaymaster.withdrawTo
    penalties,          \* unused-gas penalties settled by the EntryPoint
    claimedAt,          \* when the present line of controllers claimed the tenant
    controllerTook,     \* withdrawn by controllers, per tenant
    spent,              \* attestations issued before their tenant's last controller change
    replayed            \* spent attestations that were accepted

contractVars   == <<balances, totalTenantBalance>>
signerVars     == <<isSigner, signerCount>>
controllerVars == <<controllerOf, controllerNonce, controllerActiveAt>>
ownerVars      == <<paused, owner, pendingOwner>>
claimVars      == <<claimedAt, spent, replayed>>
leakVars       == <<ownerTook, penalties>>
vars == <<contractVars, signerVars, controllerVars, ownerVars, claimVars,
          leakVars, deposit, opStatus, executing, now, issued, ledger,
          controllerTook>>

Status == {"signed", "validated", "running", "called", "charged", "reverted"}

\* An operation whose prefund and reservation are held.
Holding == {"validated", "running", "called"}

Never == -1

Assignment == [tenant : Tenant, controller : Account, nonce : Nat,
               deadline : Nat, signer : Signer]

----------------------------------------------------------------------------
\* Solidity's msg.sender acts in a transaction of its own, between bundles,
\* or from inside the running operation, whose status then remembers it: if
\* the inner call reverts, that call is undone with it.
Calling ==
    \/ /\ \A o \in Op : opStatus[o] \notin Holding
       /\ UNCHANGED opStatus
    \/ \E o \in Op :
         /\ opStatus[o] \in {"running", "called"}
         /\ opStatus' = [opStatus EXCEPT ![o] = "called"]

Credit(t, a) ==
    /\ balances' = [balances EXCEPT ![t] = @ + a]
    /\ totalTenantBalance' = totalTenantBalance + a

\* The unchecked block: a negative value here would be a wrapped uint256.
\* (Slip: the running total is left as it was.)
DebitBalanceOnly(t, a) ==
    /\ balances' = [balances EXCEPT ![t] = @ - a]
    /\ UNCHANGED totalTenantBalance
Debit(t, a) ==
    /\ balances' = [balances EXCEPT ![t] = @ - a]
    /\ totalTenantBalance' = totalTenantBalance - a

\* Both the tenant and the EntryPoint's deposit have the amount.  (Slip: only
\* the EntryPoint's own check is left.)
CoversByDeposit(t, a) == deposit >= a
Covers(t, a) == balances[t] >= a /\ deposit >= a

Init ==
    /\ balances = [t \in Tenant |-> 0]
    /\ totalTenantBalance = 0
    /\ \E s \in Signer : isSigner = {s}
    /\ signerCount = 1
    /\ controllerOf = [t \in Tenant |-> NoAccount]
    /\ controllerNonce = [t \in Tenant |-> 0]
    /\ controllerActiveAt = [t \in Tenant |-> 0]
    /\ paused = FALSE
    /\ owner \in Account
    /\ pendingOwner = NoAccount
    /\ deposit = 0
    /\ opStatus = [o \in Op |-> "signed"]
    /\ executing = FALSE
    /\ now = 0
    /\ issued = {}
    /\ ledger = [t \in Tenant |-> [deposited |-> 0, withdrawn |-> 0, charged |-> 0]]
    /\ ownerTook = 0
    /\ penalties = 0
    /\ claimedAt = [t \in Tenant |-> Never]
    /\ controllerTook = [t \in Tenant |-> 0]
    /\ spent = {}
    /\ replayed = {}

----------------------------------------------------------------------------
(* Funding *)

\* depositFor: anyone may fund a tenant.
DepositFor(t, a) ==
    /\ Calling
    /\ ledger[t].deposited + a =< MaxDeposited
    /\ Credit(t, a)
    /\ deposit' = deposit + a
    /\ ledger' = [ledger EXCEPT ![t].deposited = @ + a]
    /\ UNCHANGED <<signerVars, controllerVars, ownerVars, claimVars, leakVars,
                   executing, now, issued, controllerTook>>

\* BasePaymaster.deposit: ungated, and credits no tenant.
DepositUntenanted(a) ==
    /\ Calling
    /\ deposit + a =< MaxDeposit
    /\ deposit' = deposit + a
    /\ UNCHANGED <<contractVars, signerVars, controllerVars, ownerVars,
                   claimVars, leakVars, executing, now, issued, ledger,
                   controllerTook>>

\* BasePaymaster.withdrawTo: the owner draws on the shared deposit itself.
OwnerWithdrawTo(a) ==
    /\ Calling
    /\ owner # NoAccount
    /\ deposit >= a
    /\ ownerTook + a =< MaxOwnerTook
    /\ deposit' = deposit - a
    /\ ownerTook' = ownerTook + a
    /\ UNCHANGED <<contractVars, signerVars, controllerVars, ownerVars,
                   claimVars, penalties, executing, now, issued, ledger,
                   controllerTook>>

\* The owner, or the controller once it is active.  (Slip: active or not.)
MayWithdrawAtOnce(caller, t) == caller \in {owner, controllerOf[t]}
MayWithdraw(caller, t) ==
    \/ caller = owner
    \/ caller = controllerOf[t] /\ now >= controllerActiveAt[t]

\* withdrawFor: the tenant is debited before EntryPoint.withdrawTo sends the
\* wei, and nothing but the event follows the send, so a call that re-enters
\* from the receiver is a later call.
WithdrawFor(caller, t, a) ==
    /\ Calling
    /\ MayWithdraw(caller, t)
    /\ Covers(t, a)
    /\ Debit(t, a)
    /\ deposit' = deposit - a
    /\ ledger' = [ledger EXCEPT ![t].withdrawn = @ + a]
    /\ controllerTook' = IF caller = owner THEN controllerTook
                         ELSE [controllerTook EXCEPT ![t] = @ + a]
    /\ UNCHANGED <<signerVars, controllerVars, ownerVars, claimVars, leakVars,
                   executing, now, issued>>

----------------------------------------------------------------------------
(* Sponsorship *)

InWindow(o) ==
    /\ userOp[o].validAfter =< now
    /\ userOp[o].validUntil = 0 \/ now =< userOp[o].validUntil

\* _validatePaymasterUserOp, and the prefund the EntryPoint takes just before.
\* A bad signature, an expired window or a short balance fails the bundle.
ValidatePaymasterUserOp(o) ==
    LET t == userOp[o].tenant
        maxCost == userOp[o].maxCost
    IN  /\ ~executing
        /\ opStatus[o] = "signed"
        /\ ~paused
        /\ userOp[o].signer \in isSigner
        /\ InWindow(o)
        /\ Covers(t, maxCost)
        /\ Debit(t, maxCost)
        /\ deposit' = deposit - maxCost
        /\ opStatus' = [opStatus EXCEPT ![o] = "validated"]
        /\ UNCHANGED <<signerVars, controllerVars, ownerVars, claimVars,
                       leakVars, executing, now, issued, ledger, controllerTook>>

\* The EntryPoint starts the inner call of a validated operation.
RunOp(o) ==
    /\ opStatus[o] = "validated"
    /\ \A p \in Op : opStatus[p] \notin {"running", "called"}
    /\ executing' = TRUE
    /\ opStatus' = [opStatus EXCEPT ![o] = "running"]
    /\ UNCHANGED <<contractVars, signerVars, controllerVars, ownerVars,
                   claimVars, leakVars, deposit, now, issued, ledger,
                   controllerTook>>

AtMost(a, b) == IF a > b THEN b ELSE a

\* EntryPoint v0.7 keeps a share of the execution gas that was left unused.
UnusedGasPenalty(o, used) ==
    ((userOp[o].callLimit + userOp[o].postOpLimit - used) * PenaltyPercent) \div 100

\* What the EntryPoint settles when the call used `exec` and postOp `post`.
\* Left out: the EntryPoint's own gas around postOp, a further small cost that
\* is in what it settles and not in what postOp is told.
ActualCost(o, exec, post) ==
    userOp[o].preCost + exec + post + UnusedGasPenalty(o, exec + post)

\* _postOp's charge: actualGasCost plus the full postOp limit, never more
\* than was reserved.  (Slip: the gas of postOp itself is forgotten.)
ChargeWithoutPostOp(o, actualGasCost) ==
    AtMost(actualGasCost, userOp[o].maxCost)
Charge(o, actualGasCost) ==
    AtMost(actualGasCost + userOp[o].postOpLimit, userOp[o].maxCost)

\* The part of the reservation that goes back to the tenant.  (Slip: the
\* postOp limit is given back although it was charged.)
RefundWithPostOp(o, charge) == userOp[o].maxCost - charge + userOp[o].postOpLimit
Refund(o, charge) == userOp[o].maxCost - charge

Settle(o, status) ==
    /\ opStatus' = [opStatus EXCEPT ![o] = status]
    /\ executing' = \E p \in Op \ {o} : opStatus[p] \in Holding

\* _postOp succeeds and the prefund covers the actual cost: the tenant is
\* refunded what was not charged, the deposit what was not spent.
PostOp(o, exec, post) ==
    LET t == userOp[o].tenant
        charge == Charge(o, userOp[o].preCost + exec)
        actual == ActualCost(o, exec, post)
        maxCost == userOp[o].maxCost
    IN  /\ opStatus[o] \in {"running", "called"}
        /\ actual =< maxCost
        /\ Credit(t, Refund(o, charge))
        /\ deposit' = deposit + (maxCost - actual)
        /\ ledger' = [ledger EXCEPT ![t].charged = @ + charge]
        /\ penalties' = penalties + UnusedGasPenalty(o, exec + post)
        /\ Settle(o, "charged")
        /\ UNCHANGED <<signerVars, controllerVars, ownerVars, claimVars,
                       ownerTook, now, issued, controllerTook>>

\* The inner call fails as a whole -- postOp ran out of its gas, or the actual
\* cost exceeds the prefund -- undoing whatever it did; postOp is not called
\* again, so the tenant gets nothing back and no TenantCharged is emitted.
PostOpReverted(o, exec, post) ==
    LET maxCost == userOp[o].maxCost
    IN  /\ opStatus[o] = "running"
        /\ deposit' = deposit + (maxCost - AtMost(ActualCost(o, exec, post), maxCost))
        /\ Settle(o, "reverted")
        /\ UNCHANGED <<contractVars, signerVars, controllerVars, ownerVars,
                       claimVars, leakVars, now, issued, ledger, controllerTook>>

----------------------------------------------------------------------------
(* Controllers *)

\* _assignController: every change consumes a nonce, so that what was attested
\* before it is spent.  (Slip: the nonce stays.)
AssignControllerOnly(t, controller, activeAt) ==
    /\ controllerOf' = [controllerOf EXCEPT ![t] = controller]
    /\ controllerActiveAt' = [controllerActiveAt EXCEPT ![t] = activeAt]
    /\ UNCHANGED controllerNonce
    /\ spent' = spent \cup {a \in issued : a.tenant = t}
AssignController(t, controller, activeAt) ==
    /\ controllerOf' = [controllerOf EXCEPT ![t] = controller]
    /\ controllerActiveAt' = [controllerActiveAt EXCEPT ![t] = activeAt]
    /\ controllerNonce' = [controllerNonce EXCEPT ![t] = @ + 1]
    /\ spent' = spent \cup {a \in issued : a.tenant = t}

\* setController: the owner's override, or with NoAccount the cancel button.
SetController(t, controller) ==
    /\ Calling
    /\ owner # NoAccount
    /\ controllerNonce[t] < MaxNonce
    /\ AssignController(t, controller, 0)
    /\ claimedAt' = [claimedAt EXCEPT ![t] = Never]
    /\ UNCHANGED <<contractVars, signerVars, ownerVars, leakVars, deposit,
                   executing, now, issued, ledger, controllerTook, replayed>>

\* issueControllerAssignment of the admin service: attests only for a tenant
\* that has no controller, with the nonce the chain has now.
IssueControllerAssignment(t, controller, s) ==
    /\ controllerOf[t] = NoAccount
    /\ controllerNonce[t] < MaxNonce
    /\ Cardinality(issued) < MaxIssued
    /\ issued' = issued \cup
         {[tenant |-> t, controller |-> controller, nonce |-> controllerNonce[t],
           deadline |-> now + AssignmentTtl, signer |-> s]}
    /\ UNCHANGED <<contractVars, signerVars, controllerVars, ownerVars,
                   claimVars, leakVars, deposit, opStatus, executing, now,
                   ledger, controllerTook>>

\* The attestation verifies: right tenant, present nonce, authorised signer.
ValidAssignment(a) ==
    /\ now =< a.deadline
    /\ a.nonce = controllerNonce[a.tenant]
    /\ a.signer \in isSigner

\* claimController, submitted by anyone.
ClaimController(a) ==
    /\ Calling
    /\ a \in issued
    /\ controllerOf[a.tenant] = NoAccount
    /\ controllerNonce[a.tenant] < MaxNonce
    /\ ValidAssignment(a)
    /\ AssignController(a.tenant, a.controller, now + ClaimDelay)
    /\ claimedAt' = [claimedAt EXCEPT ![a.tenant] = now]
    /\ replayed' = replayed \cup ({a} \cap spent)
    /\ UNCHANGED <<contractVars, signerVars, ownerVars, leakVars, deposit,
                   executing, now, issued, ledger, controllerTook>>

\* transferController: immediate, but a claim's waiting time is kept.
TransferController(caller, t, newController) ==
    /\ Calling
    /\ caller = controllerOf[t]
    /\ controllerNonce[t] < MaxNonce
    /\ AssignController(t, newController, controllerActiveAt[t])
    /\ UNCHANGED <<contractVars, signerVars, ownerVars, leakVars, deposit,
                   executing, now, issued, ledger, controllerTook, claimedAt,
                   replayed>>

----------------------------------------------------------------------------
(* Signers, emergency stop, ownership, time *)

AddSigner(s) ==
    /\ Calling
    /\ owner # NoAccount
    /\ s \notin isSigner
    /\ isSigner' = isSigner \cup {s}
    /\ signerCount' = signerCount + 1
    /\ UNCHANGED <<contractVars, controllerVars, ownerVars, claimVars, leakVars,
                   deposit, executing, now, issued, ledger, controllerTook>>

\* What the key has signed and is not yet validated stops being valid.
RemoveSigner(s) ==
    /\ Calling
    /\ owner # NoAccount
    /\ s \in isSigner
    /\ isSigner' = isSigner \ {s}
    /\ signerCount' = signerCount - 1
    /\ UNCHANGED <<contractVars, controllerVars, ownerVars, claimVars, leakVars,
                   deposit, executing, now, issued, ledger, controllerTook>>

\* pause and unpause: only validation looks at the flag.
SetPaused(p) ==
    /\ Calling
    /\ owner # NoAccount
    /\ paused # p
    /\ paused' = p
    /\ UNCHANGED <<contractVars, signerVars, controllerVars, owner, pendingOwner,
                   claimVars, leakVars, deposit, executing, now, issued, ledger,
                   controllerTook>>

\* Ownable2Step.transferOwnership names the next owner, who has to accept.
TransferOwnership(newOwner) ==
    /\ Calling
    /\ owner # NoAccount
    /\ pendingOwner' = newOwner
    /\ UNCHANGED <<contractVars, signerVars, controllerVars, paused, owner,
                   claimVars, leakVars, deposit, executing, now, issued, ledger,
                   controllerTook>>

\* Ownable2Step._transferOwnership clears the nomination.
ChangeOwner(newOwner) ==
    /\ owner' = newOwner
    /\ pendingOwner' = NoAccount
    /\ UNCHANGED <<contractVars, signerVars, controllerVars, paused, claimVars,
                   leakVars, deposit, executing, now, issued, ledger,
                   controllerTook>>

AcceptOwnership ==
    /\ Calling
    /\ pendingOwner # NoAccount
    /\ ChangeOwner(pendingOwner)

RenounceOwnership ==
    /\ Calling
    /\ owner # NoAccount
    /\ ChangeOwner(NoAccount)

\* Blocks follow one another between transactions.
Tick ==
    /\ \A o \in Op : opStatus[o] \notin Holding
    /\ now < MaxTime
    /\ now' = now + 1
    /\ UNCHANGED <<contractVars, signerVars, controllerVars, ownerVars, claimVars,
                   leakVars, deposit, opStatus, executing, issued, ledger,
                   controllerTook>>

----------------------------------------------------------------------------
Fund ==
    \/ \E t \in Tenant, a \in Amount : DepositFor(t, a)
    \/ \E a \in Amount : DepositUntenanted(a)
    \/ \E a \in Amount : OwnerWithdrawTo(a)
    \/ \E c \in Account, t \in Tenant, a \in Amount : WithdrawFor(c, t, a)

Sponsor ==
    \E o \in Op :
      \/ ValidatePaymasterUserOp(o)
      \/ RunOp(o)
      \/ \E exec \in 0..userOp[o].callLimit, post \in 0..userOp[o].postOpLimit :
           PostOp(o, exec, post) \/ PostOpReverted(o, exec, post)

Control ==
    \E t \in Tenant :
      \/ \E c \in Account \cup {NoAccount} : SetController(t, c)
      \/ \E c \in Account, s \in Signer : IssueControllerAssignment(t, c, s)
      \/ \E c, d \in Account : TransferController(c, t, d)

Administer ==
    \/ \E s \in Signer : AddSigner(s) \/ RemoveSigner(s)
    \/ \E p \in BOOLEAN : SetPaused(p)
    \/ \E a \in Account : TransferOwnership(a)
    \/ AcceptOwnership
    \/ RenounceOwnership

Next ==
    \/ Fund
    \/ Sponsor
    \/ Control
    \/ \E a \in issued : ClaimController(a)
    \/ Administer
    \/ Tick

Spec == Init /\ [][Next]_vars

----------------------------------------------------------------------------
(* Properties *)

\* What is reserved for tenant t by the operations of the bundle under way,
\* and what failed inner calls have taken from it without an event.
Amounts(t, statuses) ==
    [o \in Op |-> IF userOp[o].tenant = t /\ opStatus[o] \in statuses
                  THEN userOp[o].maxCost ELSE 0]
Held(t) == SumOver(Amounts(t, Holding), Op)
Lost(t) == SumOver(Amounts(t, {"reverted"}), Op)

\* The types of the money, and of who may do what.
MoneyTypes ==
    /\ balances \in [Tenant -> Nat]
    /\ totalTenantBalance \in Nat
    /\ deposit \in Nat
    /\ opStatus \in [Op -> Status]
    /\ executing \in BOOLEAN
    /\ ledger \in [Tenant -> [deposited : Nat, withdrawn : Nat, charged : Nat]]
    /\ ownerTook \in Nat
    /\ penalties \in Nat
    /\ controllerTook \in [Tenant -> Nat]

ControlTypes ==
    /\ isSigner \subseteq Signer
    /\ signerCount \in Nat
    /\ controllerOf \in [Tenant -> Account \cup {NoAccount}]
    /\ controllerNonce \in [Tenant -> Nat]
    /\ controllerActiveAt \in [Tenant -> Nat]
    /\ paused \in BOOLEAN
    /\ owner \in Account \cup {NoAccount}
    /\ pendingOwner \in Account \cup {NoAccount}
    /\ now \in Nat
    /\ issued \subseteq Assignment
    /\ claimedAt \in [Tenant -> Nat \cup {Never}]
    /\ spent \subseteq issued
    /\ replayed \subseteq issued

\* Types, and that no unchecked subtraction ever wraps: balances and their
\* running total (lines 301-304 and 353-356) stay natural numbers.
TypeOK == MoneyTypes /\ ControlTypes

\* The counters the contract maintains by hand agree with what they count:
\* totalTenantBalance with the balances, signerCount with the mapping.
CountersAgree ==
    /\ totalTenantBalance = SumOver(balances, Tenant)
    /\ signerCount = Cardinality(isSigner)

\* The tenants are never owed more than the deposit can pay, apart from what
\* the owner drew out of the shared deposit and the EntryPoint's penalties,
\* which postOp is not told of.  What postOp charges covers everything else
\* that is settled, its own gas included: those two are the only leaks, at every moment of a
\* bundle and whatever the operations call while they run.
SolventButForLeaks == totalTenantBalance =< deposit + ownerTook + penalties

\* Each tenant's balance is explained by its own events: what was deposited
\* for it is its balance, what was withdrawn and charged, what the bundle
\* holds, and what failed inner calls took.  No tenant pays for another, none
\* is refunded more than was reserved, and the ledger the backend derives from
\* the events can only overstate a balance.
EventsExplainBalances ==
    \A t \in Tenant :
        ledger[t].deposited = balances[t] + ledger[t].withdrawn
                              + ledger[t].charged + Held(t) + Lost(t)

\* An attestation issued before a controller change is never accepted after
\* it: the nonce makes it single-use, and setController voids it.
NoReplay == replayed = {}

\* A tenant's line of controllers that began with a claim takes nothing out
\* until ClaimDelay after that claim, however control was handed on since.
ClaimedControllerWaits ==
    [][\A t \in Tenant :
         controllerTook'[t] # controllerTook[t] /\ claimedAt[t] # Never
            => now >= claimedAt[t] + ClaimDelay]_vars

\* The header of the contract: sum(balances) =< entryPoint.balanceOf(this),
\* unless the owner drew on the deposit.
NeverOwesMoreThanItHolds == ownerTook = 0 => totalTenantBalance =< deposit

\* The contract gives every tenant an account of its own (TenantAccounts):
\* what is held is the bundle's reservations, what is gone was withdrawn,
\* charged, or taken by a failed inner call.
Accounts == INSTANCE TenantAccounts WITH
    available <- balances,
    held <- [t \in Tenant |-> Held(t)],
    gone <- [t \in Tenant |-> ledger[t].withdrawn + ledger[t].charged + Lost(t)]

ImplementsTenantAccounts == Accounts!Spec
=============================================================================
