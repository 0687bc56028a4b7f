----------------------------- MODULE Deployment -----------------------------
(***************************************************************************)
(* How a paymaster comes to exist and who governs it: the broadcast of     *)
(* script/DeployPaymaster.s.sol, transaction by transaction, and after it  *)
(* the two-step ownership and the signer set of VerifyingPaymaster (the    *)
(* tenant contract has the same management surface).                       *)
(*                                                                         *)
(* forge runs the whole script on a fork first, the closing requires       *)
(* included, and broadcasts the transactions it recorded only then: a      *)
(* require stops a run before anything is sent, and a broadcast that dies  *)
(* leaves a prefix of the transactions on chain.                           *)
(*                                                                         *)
(* Left out: what an attestation needs of signers and pause (Attestation), *)
(* and money beyond the first deposit and stake (TenantPaymaster).         *)
(***************************************************************************)
EXTENDS Naturals, Sequences, FiniteSets

CONSTANTS
    Deployer,    \* the key that broadcasts
    Safe,        \* the multisig meant to own the contract
    Typo,        \* an address nobody holds the key of
    NewSigners,  \* signers the owner may add
    MaxSigners   \* bound: the signers added at a time

VARIABLES
    env,      \* what the environment of the run says
    script,   \* "reading", "broadcasting", "done", "stopped" or "refused"
    sent,     \* transactions of the broadcast that are on chain
    holder, offeredTo,        \* owner, pendingOwner
    signers, signersCounted,  \* _isSigner, signerCount
    funded, stake,            \* the deposit at the EntryPoint, the stake there
    byHand    \* somebody offered the ownership outside the script

deployVars == <<env, script, sent, holder, offeredTo, signers, signersCounted, funded, stake, byHand>>

Zero == "zero"
People == {Deployer, Safe}
Named == People \cup {Typo, Zero}

\* Nobody holds the key of the zero address.
ASSUME DeploymentAssumption == Zero \notin People /\ MaxSigners \in Nat

Envs ==
    [kind : {"verifying", "tenant", "multitenant"}, hasCode : BOOLEAN, owner : Named,
     signer : NewSigners \cup {Zero}, depositWei : 0..1, stakeWei : 0..1]

(***************************************************************************)
(* The script                                                              *)
(***************************************************************************)

\* _kindFromEnv: an unknown kind is refused, never defaulted.
KindKnown == env.kind \in {"verifying", "tenant"}

\* What deploy() requires before the broadcast starts.
Deployable == env.hasCode /\ env.owner # Zero /\ env.signer # Zero

\* (Slip: the ownership is offered as soon as there is a contract to offer.)
OfferedFirst ==
    <<"create">>
        \o (IF env.owner # Deployer THEN <<"offer">> ELSE <<>>)
        \o (IF env.depositWei > 0 THEN <<"deposit">> ELSE <<>>)
        \o (IF env.stakeWei > 0 THEN <<"stake">> ELSE <<>>)

\* The transactions between startBroadcast and stopBroadcast.
Broadcast ==
    <<"create">>
        \o (IF env.depositWei > 0 THEN <<"deposit">> ELSE <<>>)
        \o (IF env.stakeWei > 0 THEN <<"stake">> ELSE <<>>)
        \o (IF env.owner # Deployer THEN <<"offer">> ELSE <<>>)

Exists == sent > 0

DeployInit ==
    /\ env \in Envs
    /\ script = "reading" /\ sent = 0
    /\ holder = Zero /\ offeredTo = Zero
    /\ signers = {} /\ signersCounted = 0
    /\ funded = 0 /\ stake = 0
    /\ byHand = FALSE

\* configFromEnv, the requires and the run on the fork.
Read ==
    /\ script = "reading"
    /\ script' = IF KindKnown /\ Deployable THEN "broadcasting" ELSE "refused"
    /\ UNCHANGED <<env, sent, holder, offeredTo, signers, signersCounted, funded, stake, byHand>>

Sending(tx) ==
    /\ script = "broadcasting"
    /\ Broadcast[sent + 1] = tx
    /\ sent' = sent + 1
    /\ script' = IF sent + 1 = Len(Broadcast) THEN "done" ELSE script
    /\ UNCHANGED <<env, byHand>>

\* The constructor: _addSigner(initialSigner), and the owner is handed the
\* contract directly because there is no one to accept yet.
Create ==
    /\ Sending("create")
    /\ signers' = {env.signer} /\ signersCounted' = 1
    /\ holder' = Deployer
    /\ UNCHANGED <<offeredTo, funded, stake>>

SendDeposit ==
    /\ Sending("deposit")
    /\ funded' = funded + env.depositWei
    /\ UNCHANGED <<holder, offeredTo, signers, signersCounted, stake>>

\* addStake is onlyOwner.
SendStake ==
    /\ Sending("stake")
    /\ holder = Deployer
    /\ stake' = stake + env.stakeWei
    /\ UNCHANGED <<holder, offeredTo, signers, signersCounted, funded>>

SendOffer ==
    /\ Sending("offer")
    /\ holder = Deployer
    /\ offeredTo' = env.owner
    /\ UNCHANGED <<holder, signers, signersCounted, funded, stake>>

\* The broadcast dies, or its next transaction reverts.
Stop ==
    /\ script = "broadcasting"
    /\ script' = "stopped"
    /\ UNCHANGED <<env, sent, holder, offeredTo, signers, signersCounted, funded, stake, byHand>>

(***************************************************************************)
(* The contract                                                            *)
(***************************************************************************)

\* Whoever holds the owner's key acts; the script's own calls are above.
IsOwner(who) == Exists /\ who \in People /\ holder = who /\ ~(who = Deployer /\ script = "broadcasting")

\* Ownable2Step.transferOwnership: zero withdraws an offer.
OffersOwnership(who, to) ==
    /\ IsOwner(who)
    /\ offeredTo' = to /\ byHand' = TRUE
    /\ UNCHANGED <<env, script, sent, holder, signers, signersCounted, funded, stake>>

\* acceptOwnership, by _transferOwnership, which forgets the offer.
AcceptsOwnership(who) ==
    /\ Exists /\ offeredTo = who
    /\ holder' = who /\ offeredTo' = Zero
    /\ UNCHANGED <<env, script, sent, signers, signersCounted, funded, stake, byHand>>

\* renounceOwnership, which the contract inherits and does not take away.
Renounce(who) ==
    /\ IsOwner(who)
    /\ holder' = Zero /\ offeredTo' = Zero /\ byHand' = TRUE
    /\ UNCHANGED <<env, script, sent, signers, signersCounted, funded, stake>>

OwnerAddsSigner(who, k) ==
    /\ IsOwner(who)
    /\ signersCounted < MaxSigners
    /\ k \notin signers
    /\ signers' = signers \cup {k} /\ signersCounted' = signersCounted + 1
    /\ UNCHANGED <<env, script, sent, holder, offeredTo, funded, stake, byHand>>

\* The decrement is unchecked: it relies on the guard.
OwnerRemovesSigner(who, k) ==
    /\ IsOwner(who)
    /\ k \in signers
    /\ signers' = signers \ {k} /\ signersCounted' = signersCounted - 1
    /\ UNCHANGED <<env, script, sent, holder, offeredTo, funded, stake, byHand>>

\* addStake by hand: how a deploy that stopped is completed.
AddStake(who) ==
    /\ IsOwner(who)
    /\ stake < env.stakeWei
    /\ stake' = stake + 1
    /\ UNCHANGED <<env, script, sent, holder, offeredTo, signers, signersCounted, funded, byHand>>

\* receive(): a bare transfer is a deposit.
Refill ==
    /\ Exists
    /\ funded = 0
    /\ funded' = funded + 1
    /\ UNCHANGED <<env, script, sent, holder, offeredTo, signers, signersCounted, stake, byHand>>

Deploying == Read \/ Create \/ SendDeposit \/ SendStake \/ SendOffer \/ Stop
Governing ==
    \/ \E who \in People :
          \/ \E to \in Named : OffersOwnership(who, to)
          \/ AcceptsOwnership(who) \/ Renounce(who)
          \/ \E k \in NewSigners : OwnerAddsSigner(who, k) \/ OwnerRemovesSigner(who, k)
          \/ AddStake(who)
    \/ Refill

DeployNext == Deploying \/ Governing

DeploySpec == DeployInit /\ [][DeployNext]_deployVars

(***************************************************************************)
(* Properties                                                              *)
(***************************************************************************)

\* A contract has an owner who can act unless an owner renounced it: neither
\* a typo in PAYMASTER_OWNER nor any later sequence of offers and acceptances
\* can leave it with an address nobody holds.
OwnerHoldsAKey == Exists => holder \in People \cup {Zero}

\* A contract that changed hands by the script alone is usable: whatever
\* moment the broadcast died at and whenever the new owner accepted, what the
\* run was to deposit and stake is there.  Before that it is the deployer's,
\* who can finish.
HandedOverReady ==
    Exists /\ holder # Deployer /\ ~byHand => funded >= env.depositWei /\ stake >= env.stakeWei

\* signerCount, kept by unchecked arithmetic beside the mapping, counts it.
CountIsSigners == signersCounted = Cardinality(signers)

\* No order of the script's transactions, of offers and of acceptances, wherever
\* the broadcast stops, loses the contract, hands it over unfunded or leaves
\* the count of its signers wrong.
GovernanceSafe == OwnerHoldsAKey /\ HandedOverReady /\ CountIsSigners
=============================================================================
