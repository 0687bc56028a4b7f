-------------------------- MODULE ContractsProofs --------------------------
(***************************************************************************)
(* Proofs about the contracts: how one is deployed and governed            *)
(* (Deployment), which attestations one honours (Attestation) and how the  *)
(* tenants' balances move (TenantPaymaster), for every finite set of       *)
(* tenants and operations and all the amounts, limits and times in them.   *)
(*                                                                         *)
(* Each part has an inductive invariant of its own.  GInv: how far the     *)
(* deploy script got and what it paid in by then.  AInv: what was returned *)
(* encodes what its signer signed, and what landed was returned.  IInv:    *)
(* types, the counters kept by hand, the solvency bound, the events, and   *)
(* what ties the controllers' nonces and activation times to the claims.   *)
(* That the unchecked subtractions never wrap is part of the types, and    *)
(* rests on the running total being the sum of the balances.               *)
(***************************************************************************)
EXTENDS TenantPaymaster, Deployment, Attestation, SumsProofs, SequenceTheorems

(***************************************************************************)
(* Deployment and ownership                                                *)
(***************************************************************************)

\* Where the script's transactions stand: create, the deposit and the stake if
\* there are any, and last of all the offer.
LEMMA ScriptOrder ==
    ASSUME env \in Envs
    PROVE  /\ Len(Broadcast) \in
                 1 + env.depositWei + env.stakeWei .. 2 + env.depositWei + env.stakeWei
           /\ \A n \in 1..Len(Broadcast) :
                 /\ Broadcast[n] = "create" => n = 1
                 /\ Broadcast[n] = "deposit" => n = 2 /\ env.depositWei = 1
                 /\ Broadcast[n] = "stake" => n = 2 + env.depositWei /\ env.stakeWei = 1
                 /\ Broadcast[n] = "offer" => n = 2 + env.depositWei + env.stakeWei
                 /\ n = 1 => Broadcast[n] = "create"
                 /\ n = 2 /\ env.depositWei = 1 => Broadcast[n] = "deposit"
                 /\ n = 2 + env.depositWei /\ env.stakeWei = 1 => Broadcast[n] = "stake"
<1>1. env.depositWei \in {0, 1} /\ env.stakeWei \in {0, 1}
  BY DEF Envs
<1>2. CASE env.depositWei = 0 /\ env.stakeWei = 0
  BY <1>2 DEF Broadcast
<1>3. CASE env.depositWei = 1 /\ env.stakeWei = 0
  BY <1>3 DEF Broadcast
<1>4. CASE env.depositWei = 0 /\ env.stakeWei = 1
  BY <1>4 DEF Broadcast
<1>5. CASE env.depositWei = 1 /\ env.stakeWei = 1
  BY <1>5 DEF Broadcast
<1> QED BY <1>1, <1>2, <1>3, <1>4, <1>5

\* How far the script got, and what it left behind: what was to be paid in comes
\* before the offer, and without the offer nobody but the deployer, or somebody
\* the owner itself chose, can come to own the contract.
DeployTypes ==
    /\ env \in Envs
    /\ script \in {"reading", "broadcasting", "done", "stopped", "refused"}
    /\ sent \in 0..Len(Broadcast) /\ byHand \in BOOLEAN
    /\ holder \in People \cup {Zero} /\ offeredTo \in Named
    /\ funded \in Nat /\ stake \in Nat

PaidIn ==
    /\ env.depositWei = 1 /\ sent >= 2 => funded >= 1
    /\ env.stakeWei = 1 /\ sent >= 2 + env.depositWei => stake >= 1

Unoffered ==
    /\ script \in {"reading", "refused"} => sent = 0
    /\ script = "broadcasting" => sent < Len(Broadcast)
    /\ ~Exists => ~byHand /\ offeredTo = Zero
    /\ Exists /\ ~byHand => holder # Zero
    /\ ~byHand /\ sent =< 1 + env.depositWei + env.stakeWei =>
           offeredTo = Zero /\ holder \in {Deployer, Zero}

Counted == IsFiniteSet(signers) /\ CountIsSigners

GInv == DeployTypes /\ PaidIn /\ Unoffered /\ Counted

\* Nothing is on chain before the script runs.
LEMMA DeployStart == DeployInit => GInv
<1> SUFFICES ASSUME DeployInit PROVE GInv
  OBVIOUS
<1> USE DEF DeployInit
<1>1. env \in Envs
  OBVIOUS
<1>2. Len(Broadcast) \in Nat /\ Len(Broadcast) >= 1
  BY <1>1, ScriptOrder DEF Envs
<1>3. DeployTypes
  <2>1. sent \in 0..Len(Broadcast)
    BY <1>2
  <2>2. holder \in People \cup {Zero} /\ offeredTo \in Named
    BY DEF Named
  <2> QED BY <1>1, <2>1, <2>2 DEF DeployTypes
<1>4. PaidIn /\ Unoffered
  BY <1>1, <1>2 DEF PaidIn, Unoffered, Exists, Envs
<1>5. Counted
  BY FS_EmptySet DEF Counted, CountIsSigners
<1> QED BY <1>3, <1>4, <1>5 DEF GInv

\* One transaction of the script.
LEMMA ScriptStep ==
    ASSUME GInv, Create \/ SendDeposit \/ SendStake \/ SendOffer
    PROVE  GInv'
<1> USE DeploymentAssumption
<1> USE DEF GInv, DeployTypes
<1>1. /\ env' = env /\ byHand' = byHand /\ Broadcast' = Broadcast
      /\ sent' = sent + 1 /\ sent + 1 \in 1..Len(Broadcast)
      /\ script = "broadcasting"
      /\ script' \in {"broadcasting", "done"} /\ (script' = "broadcasting" => sent + 1 < Len(Broadcast))
      /\ sent' \in 0..Len(Broadcast')
  <2>1. env' = env /\ byHand' = byHand /\ sent' = sent + 1 /\ script = "broadcasting"
        /\ script' = IF sent + 1 = Len(Broadcast) THEN "done" ELSE script
    BY DEF Create, SendDeposit, SendStake, SendOffer, Sending
  <2>2. Broadcast' = Broadcast
    BY <2>1 DEF Broadcast
  <2>3. Len(Broadcast) \in Nat
    BY ScriptOrder DEF Envs
  <2>4. sent \in Nat /\ sent < Len(Broadcast)
    BY <2>1, <2>3 DEF Unoffered
  <2> HIDE DEF GInv, DeployTypes
  <2> QED BY <2>1, <2>2, <2>3, <2>4
<1>2. env.depositWei \in {0, 1} /\ env.stakeWei \in {0, 1} /\ env.owner \in Named
  BY DEF Envs
<1>3. CASE Create
  <2>1. sent = 0
    BY <1>1, <1>3, ScriptOrder DEF Create, Sending
  <2>2. DeployTypes'
    BY <1>1, <1>3 DEF Create, People
  <2>3. PaidIn' /\ Unoffered'
    BY <1>1, <1>2, <1>3, <2>1 DEF Create, PaidIn, Unoffered, Exists, People
  <2>4. Counted'
    BY <1>3, FS_Singleton DEF Create, Counted, CountIsSigners
  <2> QED BY <2>2, <2>3, <2>4
<1>4. CASE SendDeposit
  <2>1. sent = 1 /\ env.depositWei = 1
    BY <1>1, <1>4, ScriptOrder DEF SendDeposit, Sending
  <2>2. DeployTypes'
    BY <1>1, <1>2, <1>4 DEF SendDeposit
  <2>3. PaidIn' /\ Unoffered'
    BY <1>1, <1>2, <1>4, <2>1 DEF SendDeposit, PaidIn, Unoffered, Exists
  <2>4. Counted'
    BY <1>4 DEF SendDeposit, Counted, CountIsSigners
  <2> QED BY <2>2, <2>3, <2>4
<1>5. CASE SendStake
  <2>1. sent = 1 + env.depositWei /\ env.stakeWei = 1
    BY <1>1, <1>2, <1>5, ScriptOrder DEF SendStake, Sending
  <2>2. DeployTypes'
    BY <1>1, <1>2, <1>5 DEF SendStake
  <2>3. PaidIn' /\ Unoffered'
    BY <1>1, <1>2, <1>5, <2>1 DEF SendStake, PaidIn, Unoffered, Exists
  <2>4. Counted'
    BY <1>5 DEF SendStake, Counted, CountIsSigners
  <2> QED BY <2>2, <2>3, <2>4
<1>6. CASE SendOffer
  <2>1. sent = 1 + env.depositWei + env.stakeWei
    BY <1>1, <1>2, <1>6, ScriptOrder DEF SendOffer, Sending
  <2>2. DeployTypes'
    BY <1>1, <1>2, <1>6 DEF SendOffer
  <2>3. PaidIn' /\ Unoffered'
    BY <1>1, <1>2, <1>6, <2>1 DEF SendOffer, PaidIn, Unoffered, Exists
  <2>4. Counted'
    BY <1>6 DEF SendOffer, Counted, CountIsSigners
  <2> QED BY <2>2, <2>3, <2>4
<1> QED BY <1>3, <1>4, <1>5, <1>6

\* What the owner, or whoever was offered the contract, does with it.
LEMMA GovernStep ==
    ASSUME GInv, Governing
    PROVE  GInv'
<1> USE DeploymentAssumption
<1> USE DEF GInv, DeployTypes
<1>1. env.depositWei \in {0, 1} /\ env.stakeWei \in {0, 1}
  BY DEF Envs
<1>2. ASSUME UNCHANGED <<env, script, sent, byHand, holder, offeredTo>>, Counted',
             funded' \in Nat, stake' \in Nat, funded' >= funded, stake' >= stake
      PROVE  GInv'
  <2>1. Broadcast' = Broadcast
    BY <1>2 DEF Broadcast
  <2>2. DeployTypes' /\ Unoffered'
    BY <1>2, <2>1 DEF Unoffered, Exists
  <2>3. PaidIn'
    BY <1>1, <1>2 DEF PaidIn
  <2> QED BY <1>2, <2>2, <2>3
<1>3. ASSUME NEW to \in Named, NEW by \in People \cup {Zero}, Exists,
             UNCHANGED <<env, script, sent, signers, signersCounted, funded, stake>>,
             holder' = by, offeredTo' = to,
             byHand' \/ (byHand' = byHand /\ offeredTo \in People /\ by = offeredTo), byHand' \in BOOLEAN
      PROVE  GInv'
  <2>1. Broadcast' = Broadcast
    BY <1>3 DEF Broadcast
  <2>2. DeployTypes' /\ PaidIn' /\ Counted'
    BY <1>3, <2>1 DEF PaidIn, Counted, CountIsSigners
  <2>3. Unoffered'
    BY <1>1, <1>3, <2>1 DEF Unoffered, Exists
  <2> QED BY <2>2, <2>3
<1>4. ASSUME NEW who \in People, NEW to \in Named, OffersOwnership(who, to) PROVE GInv'
  BY <1>3, <1>4 DEF OffersOwnership, IsOwner
<1>5. ASSUME NEW who \in People, AcceptsOwnership(who) PROVE GInv'
  BY <1>3, <1>5 DEF AcceptsOwnership, Named
<1>6. ASSUME NEW who \in People, Renounce(who) PROVE GInv'
  BY <1>3, <1>6 DEF Renounce, IsOwner, Named
<1>7. ASSUME NEW who \in People, NEW k \in NewSigners, OwnerAddsSigner(who, k) PROVE GInv'
  <2>1. Counted'
    BY <1>7, FS_AddElement DEF OwnerAddsSigner, Counted, CountIsSigners
  <2> QED BY <1>2, <1>7, <2>1 DEF OwnerAddsSigner
<1>8. ASSUME NEW who \in People, NEW k \in NewSigners, OwnerRemovesSigner(who, k) PROVE GInv'
  <2>1. Counted'
    BY <1>8, FS_RemoveElement DEF OwnerRemovesSigner, Counted, CountIsSigners
  <2> QED BY <1>2, <1>8, <2>1 DEF OwnerRemovesSigner
<1>9. ASSUME NEW who \in People, AddStake(who) PROVE GInv'
  BY <1>2, <1>9 DEF AddStake, Counted, CountIsSigners
<1>10. CASE Refill
  BY <1>2, <1>10 DEF Refill, Counted, CountIsSigners
<1> QED BY <1>4, <1>5, <1>6, <1>7, <1>8, <1>9, <1>10 DEF Governing

\* For every deployer, multisig and signers, and every environment the script is
\* run with: wherever its broadcast dies, and in whatever order offers are made,
\* withdrawn and accepted, the contract is never with an address nobody holds,
\* changes hands by the script alone only with its deposit and stake, and
\* counts its signers.
THEOREM GovernedSafely == DeploySpec => []GovernanceSafe
<1>1. DeployInit => GInv
  BY DeployStart
<1>2. GInv /\ [DeployNext]_deployVars => GInv'
  <2> SUFFICES ASSUME GInv, [DeployNext]_deployVars PROVE GInv'
    OBVIOUS
  <2>1. CASE Read \/ Stop \/ UNCHANGED deployVars
    <3>1. /\ UNCHANGED <<env, sent, holder, offeredTo, signers, signersCounted, funded, stake, byHand>>
          /\ script' = script \/ (script = "reading" /\ script' \in {"broadcasting", "refused"})
             \/ script' = "stopped"
      BY <2>1 DEF Read, Stop, deployVars
    <3>2. Broadcast' = Broadcast
      BY <3>1 DEF Broadcast
    <3>3. Len(Broadcast) >= 1 /\ Len(Broadcast) \in Nat
      BY ScriptOrder DEF GInv, DeployTypes, Envs
    <3>4. DeployTypes' /\ PaidIn' /\ Counted'
      BY <3>1, <3>2 DEF GInv, DeployTypes, PaidIn, Counted, CountIsSigners
    <3>5. Unoffered'
      BY <3>1, <3>2, <3>3 DEF GInv, DeployTypes, Unoffered, Exists
    <3> QED BY <3>4, <3>5 DEF GInv
  <2>2. CASE Create \/ SendDeposit \/ SendStake \/ SendOffer
    BY <2>2, ScriptStep
  <2>3. CASE Governing
    BY <2>3, GovernStep
  <2> QED BY <2>1, <2>2, <2>3 DEF DeployNext, Deploying
<1>3. GInv => GovernanceSafe
  <2> SUFFICES ASSUME GInv PROVE GovernanceSafe
    OBVIOUS
  <2>1. env.depositWei \in {0, 1} /\ env.stakeWei \in {0, 1}
    BY DEF GInv, DeployTypes, Envs
  <2>2. HandedOverReady
    BY <2>1 DEF GInv, DeployTypes, PaidIn, Unoffered, HandedOverReady, Exists
  <2>3. OwnerHoldsAKey /\ CountIsSigners
    BY DEF GInv, DeployTypes, Counted, OwnerHoldsAKey
  <2> QED BY <2>2, <2>3 DEF GovernanceSafe
<1> QED BY <1>1, <1>2, <1>3, PTL DEF DeploySpec

(***************************************************************************)
(* Attestations                                                            *)
(***************************************************************************)

\* A field appended to five ...
LEMMA AfterFive ==
    ASSUME NEW a, NEW b, NEW c, NEW d, NEW e, NEW x
    PROVE  <<a, b, c, d, e>> \o <<x>> = <<a, b, c, d, e, x>>
<1> DEFINE S == {a, b, c, d, e, x}
           s == <<a, b, c, d, e>>
           t == <<x>>
           u == <<a, b, c, d, e, x>>
<1>1. s \in Seq(S) /\ t \in Seq(S) /\ Len(s) = 5 /\ Len(t) = 1
  OBVIOUS
<1>2. s \o t \in Seq(S) /\ Len(s \o t) = 6
  BY <1>1, ConcatProperties
<1>3. u \in Seq(S) /\ Len(u) = 6
  OBVIOUS
<1>4. \A i \in 1..6 : (s \o t)[i] = u[i]
  BY <1>1, ConcatProperties
<1> QED BY <1>2, <1>3, <1>4, SeqEqual

\* ... and to six.
LEMMA AfterSix ==
    ASSUME NEW a, NEW b, NEW c, NEW d, NEW e, NEW f, NEW x
    PROVE  <<a, b, c, d, e, f>> \o <<x>> = <<a, b, c, d, e, f, x>>
<1> DEFINE S == {a, b, c, d, e, f, x}
           s == <<a, b, c, d, e, f>>
           t == <<x>>
           u == <<a, b, c, d, e, f, x>>
<1>1. s \in Seq(S) /\ t \in Seq(S) /\ Len(s) = 6 /\ Len(t) = 1
  OBVIOUS
<1>2. s \o t \in Seq(S) /\ Len(s \o t) = 7
  BY <1>1, ConcatProperties
<1>3. u \in Seq(S) /\ Len(u) = 7
  OBVIOUS
<1>4. \A i \in 1..7 : (s \o t)[i] = u[i]
  BY <1>1, ConcatProperties
<1> QED BY <1>2, <1>3, <1>4, SeqEqual

\* Where a field is found again in what was encoded.
LEMMA EncodedFields ==
    ASSUME NEW kind \in Kinds, NEW p, NEW gas, NEW tenant, NEW window, NEW sig
    PROVE  LET data == Encode(kind, p, gas, tenant, window, sig)
           IN /\ Len(data) = SignatureAt(kind) /\ data[Len(data)] = sig
              /\ data[1] = p.address /\ data[2] = gas[1] /\ data[3] = gas[2]
              /\ data[4] = window[1] /\ data[5] = window[2]
              /\ kind = "tenant" => data[6] = tenant
<1> DEFINE data == Encode(kind, p, gas, tenant, window, sig)
<1>1. CASE kind = "tenant"
  <2>1. data = <<p.address, gas[1], gas[2], window[1], window[2]>> \o <<tenant>> \o <<sig>>
    BY <1>1 DEF Encode
  <2>2. <<p.address, gas[1], gas[2], window[1], window[2]>> \o <<tenant>>
          = <<p.address, gas[1], gas[2], window[1], window[2], tenant>>
    BY AfterFive
  <2>3. <<p.address, gas[1], gas[2], window[1], window[2], tenant>> \o <<sig>>
          = <<p.address, gas[1], gas[2], window[1], window[2], tenant, sig>>
    BY AfterSix
  <2>4. data = <<p.address, gas[1], gas[2], window[1], window[2], tenant, sig>>
    BY <2>1, <2>2, <2>3
  <2> HIDE DEF data
  <2>5. Len(data) = 7 /\ data[7] = sig /\ data[6] = tenant
        /\ data[1] = p.address /\ data[2] = gas[1] /\ data[3] = gas[2]
        /\ data[4] = window[1] /\ data[5] = window[2]
    BY <2>4
  <2>6. SignatureAt(kind) = 7
    BY <1>1 DEF SignatureAt
  <2> QED BY <2>5, <2>6 DEF data
<1>2. CASE kind = "verifying"
  <2>1. data = <<p.address, gas[1], gas[2], window[1], window[2]>> \o <<>> \o <<sig>>
    BY <1>2 DEF Encode
  <2>2. <<p.address, gas[1], gas[2], window[1], window[2]>> \o <<>>
          = <<p.address, gas[1], gas[2], window[1], window[2]>>
    OBVIOUS
  <2>3. <<p.address, gas[1], gas[2], window[1], window[2]>> \o <<sig>>
          = <<p.address, gas[1], gas[2], window[1], window[2], sig>>
    BY AfterFive
  <2>4. data = <<p.address, gas[1], gas[2], window[1], window[2], sig>>
    BY <2>1, <2>2, <2>3
  <2> HIDE DEF data
  <2>5. Len(data) = 6 /\ data[6] = sig
        /\ data[1] = p.address /\ data[2] = gas[1] /\ data[3] = gas[2]
        /\ data[4] = window[1] /\ data[5] = window[2]
    BY <2>4
  <2>6. SignatureAt(kind) = 6 /\ kind # "tenant"
    BY <1>2 DEF SignatureAt
  <2> QED BY <2>5, <2>6 DEF data
<1> QED BY <1>1, <1>2 DEF Kinds

\* The contract's own encoding is the backend's, for either kind.
LEMMA EncodingsAgree ==
    ASSUME NEW p, p.kind \in Kinds, NEW packed, NEW data
    PROVE  OnChainDigest(p, packed, data)
             = SponsorshipDigest(p.kind, p, packed, <<data[2], data[3]>>, data[6], <<data[4], data[5]>>)
<1>1. CASE p.kind = "tenant"
  BY <1>1 DEF OnChainDigest, SponsorshipDigest, TenantStruct, Eip712Name, DomainName
<1>2. CASE p.kind = "verifying"
  BY <1>2 DEF OnChainDigest, SponsorshipDigest, VerifyingStruct, Eip712Name, DomainName
<1> QED BY <1>1, <1>2 DEF Kinds

\* Without a tenant in the layout, the digest does not depend on one.
LEMMA TenantUnread ==
    ASSUME NEW kind \in Kinds, NEW p, NEW packed, NEW gas, NEW window, NEW t1, NEW t2,
           kind = "tenant" => t1 = t2
    PROVE  SponsorshipDigest(kind, p, packed, gas, t1, window)
             = SponsorshipDigest(kind, p, packed, gas, t2, window)
  BY DEF SponsorshipDigest

\* A digest says what was hashed.
LEMMA DigestBinds ==
    ASSUME NEW k1 \in Kinds, NEW k2 \in Kinds, NEW p \in Paymasters, NEW q \in Paymasters,
           NEW o1, NEW o2, NEW g1, NEW g2, NEW t1, NEW t2, NEW w1, NEW w2,
           SponsorshipDigest(k1, p, o1, g1, t1, w1) = SponsorshipDigest(k2, q, o2, g2, t2, w2)
    PROVE  /\ k1 = k2 /\ p = q /\ g1 = g2 /\ w1[1] = w2[1] /\ w1[2] = w2[2]
           /\ k1 = "tenant" => t1 = t2
           /\ o1.sender = o2.sender /\ o1.nonce = o2.nonce /\ o1.initCode = o2.initCode
           /\ o1.callData = o2.callData /\ o1.accountGasLimits = o2.accountGasLimits
           /\ o1.preVerificationGas = o2.preVerificationGas /\ o1.gasFees = o2.gasFees
<1> DEFINE d1 == SponsorshipDigest(k1, p, o1, g1, t1, w1)
           d2 == SponsorshipDigest(k2, q, o2, g2, t2, w2)
<1>1. <<DomainName(k1), p.chain, p.address>> = <<DomainName(k2), q.chain, q.address>>
  <2>1. d1.domain = d2.domain
    OBVIOUS
  <2> QED BY <2>1 DEF SponsorshipDigest
<1>2. k1 = k2
  BY <1>1 DEF DomainName, Kinds
<1>3. p = q
  BY <1>1, AttestationAssumption
<1>4. d1.struct = d2.struct
  OBVIOUS
<1>5. CASE k1 = "tenant"
  <2>1. <<o1.sender, o1.nonce, o1.initCode, o1.callData, o1.accountGasLimits, g1,
          o1.preVerificationGas, o1.gasFees, t1, w1[1], w1[2]>>
        = <<o2.sender, o2.nonce, o2.initCode, o2.callData, o2.accountGasLimits, g2,
            o2.preVerificationGas, o2.gasFees, t2, w2[1], w2[2]>>
    BY <1>2, <1>4, <1>5 DEF SponsorshipDigest
  <2> QED BY <1>2, <1>3, <2>1
<1>6. CASE k1 # "tenant"
  <2>1. <<o1.sender, o1.nonce, o1.initCode, o1.callData, o1.accountGasLimits, g1,
          o1.preVerificationGas, o1.gasFees, w1[1], w1[2]>>
        = <<o2.sender, o2.nonce, o2.initCode, o2.callData, o2.accountGasLimits, g2,
            o2.preVerificationGas, o2.gasFees, w2[1], w2[2]>>
    BY <1>2, <1>4, <1>6 DEF SponsorshipDigest
  <2> QED BY <1>2, <1>3, <1>6, <2>1
<1> QED BY <1>5, <1>6

\* Backend and bundler pack only one operation into the same bytes.
LEMMA PackingBinds ==
    ASSUME NEW a \in Ops, NEW b \in Ops,
           LET o1 == Packed(a)
               o2 == OnTheWire(b)
           IN  /\ o1.sender = o2.sender /\ o1.nonce = o2.nonce /\ o1.initCode = o2.initCode
               /\ o1.callData = o2.callData /\ o1.accountGasLimits = o2.accountGasLimits
               /\ o1.preVerificationGas = o2.preVerificationGas /\ o1.gasFees = o2.gasFees
    PROVE  a = b
<1>1. WholeOp(a) /\ WholeOp(b)
  BY AttestationAssumption
<1>2. /\ a.sender = b.sender /\ a.nonce = b.nonce /\ a.callData = b.callData
      /\ a.preVerificationGas = b.preVerificationGas
      /\ <<a.verificationGasLimit, a.callGasLimit>> = <<b.verificationGasLimit, b.callGasLimit>>
      /\ <<a.maxPriorityFeePerGas, a.maxFeePerGas>> = <<b.maxPriorityFeePerGas, b.maxFeePerGas>>
      /\ (IF a.factory = Nobody THEN <<>> ELSE <<a.factory, a.factoryData>>)
         = (IF b.factory = Nobody THEN <<>> ELSE <<b.factory, b.factoryData>>)
  BY DEF Packed, OnTheWire
<1>3. a.factory = b.factory /\ a.factoryData = b.factoryData
  <2>1. CASE a.factory = Nobody
    BY <1>1, <1>2, <2>1 DEF WholeOp
  <2>2. CASE a.factory # Nobody
    BY <1>2, <2>2
  <2> QED BY <2>1, <2>2
<1> QED BY <1>1, <1>2, <1>3 DEF WholeOp

\* A signature that recovers a key was made with it, over that digest.
LEMMA RecoverBinds ==
    ASSUME NEW digest, NEW sig, Recover(digest, sig) \in Keys
    PROVE  sig.digest = digest /\ sig.key = Recover(digest, sig)
  BY AttestationAssumption DEF Recover

\* What an attestation carries: the encoding of its fields, under a signature its
\* signer made over them.
Signature(a) == a.data[Len(a.data)]
SignedOver(a) == SponsorshipDigest(configKind[a.p], a.p, Packed(a.op), CommittedGas, a.tenant, a.window)

Returned(a) ==
    /\ a.p \in Paymasters /\ a.op \in Ops /\ a.signer \in Keys
    /\ a.window \in (Nat \ {0}) \X {0}
    /\ a.data = Encode(configKind[a.p], a.p, CommittedGas, a.tenant, a.window, Signature(a))
    /\ Recover(SignedOver(a), Signature(a)) = a.signer

AttestTypes ==
    /\ configKind \in [Paymasters -> Kinds]
    /\ keysOf \in [Paymasters -> SUBSET Keys]
    /\ kmsKey \in Keys /\ address \in [Replicas -> Keys]
    /\ clock \in Nat

AInv == AttestTypes /\ (\A a \in attested : Returned(a)) /\ HonouredWasIssued

\* What a contract honours is what the signature it carries was made over.
LEMMA HonouredIsSigned ==
    ASSUME AttestTypes, NEW p \in Paymasters, NEW packed, NEW gas, NEW tenant, NEW window, NEW sig,
           Honours(p, packed, Encode(p.kind, p, gas, tenant, window, sig))
    PROVE  /\ sig.digest = SponsorshipDigest(p.kind, p, packed, <<gas[1], gas[2]>>, tenant,
                                             <<window[1], window[2]>>)
           /\ sig.key \in keysOf[p]
<1> DEFINE data == Encode(p.kind, p, gas, tenant, window, sig)
<1>1. p.kind \in Kinds
  BY AttestationAssumption
<1>2. /\ data[Len(data)] = sig /\ data[2] = gas[1] /\ data[3] = gas[2]
      /\ data[4] = window[1] /\ data[5] = window[2] /\ (p.kind = "tenant" => data[6] = tenant)
  BY <1>1, EncodedFields
<1>3. OnChainDigest(p, packed, data)
        = SponsorshipDigest(p.kind, p, packed, <<gas[1], gas[2]>>, tenant, <<window[1], window[2]>>)
  <2> HIDE DEF data
  <2>1. OnChainDigest(p, packed, data)
          = SponsorshipDigest(p.kind, p, packed, <<gas[1], gas[2]>>, data[6], <<window[1], window[2]>>)
    BY <1>1, <1>2, EncodingsAgree
  <2> QED BY <1>1, <1>2, <2>1, TenantUnread
<1>4. Recover(OnChainDigest(p, packed, data), sig) \in keysOf[p]
  BY <1>2 DEF Honours
<1>5. keysOf[p] \subseteq Keys
  BY DEF AttestTypes
<1> HIDE DEF data
<1>6. sig.digest = OnChainDigest(p, packed, data) /\ sig.key \in keysOf[p]
  BY <1>4, <1>5, RecoverBinds
<1> QED BY <1>3, <1>6

\* A signature that was returned with one attestation is honoured for no other.
LEMMA LandStep ==
    ASSUME AInv, LandSome
    PROVE  AInv'
<1>1. PICK p \in Paymasters, op \in Ops, gas \in GasLimits, tenant \in Tenants :
        \E window \in {a.window : a \in attested}, sig \in {Signature(a) : a \in attested} :
            Land(p, op, gas, tenant, window, sig)
  BY DEF LandSome, Signature
<1>2. PICK b \in attested, a \in attested : Land(p, op, gas, tenant, b.window, Signature(a))
  BY <1>1
<1> DEFINE l == [p |-> p, op |-> op, packed |-> OnTheWire(op), gas |-> gas, window |-> b.window,
                 tenant |-> IF p.kind = "tenant" THEN {tenant} ELSE {}]
<1>3. /\ landed' = landed \cup {l}
      /\ Honours(p, OnTheWire(op), Encode(p.kind, p, gas, tenant, b.window, Signature(a)))
      /\ UNCHANGED <<configKind, keysOf, pausedAt, kmsKey, address, clock, attested>>
  BY <1>2 DEF Land
<1>4. Returned(a) /\ Returned(b) /\ AttestTypes
  BY DEF AInv
<1>5. /\ gas = <<gas[1], gas[2]>>
      /\ b.window = <<b.window[1], b.window[2]>>
  BY <1>4, AttestationAssumption DEF Returned
<1>6. Signature(a).digest = SponsorshipDigest(p.kind, p, OnTheWire(op), gas, tenant, b.window)
  <2> DEFINE packed == OnTheWire(op)
             sig == Signature(a)
             window == b.window
  <2>1. Honours(p, packed, Encode(p.kind, p, gas, tenant, window, sig)) /\ AttestTypes
    BY <1>3, <1>4
  <2>2. gas = <<gas[1], gas[2]>> /\ window = <<window[1], window[2]>>
    BY <1>5
  <2> HIDE DEF packed, sig, window
  <2>3. sig.digest
          = SponsorshipDigest(p.kind, p, packed, <<gas[1], gas[2]>>, tenant, <<window[1], window[2]>>)
    BY <2>1, HonouredIsSigned
  <2>4. sig.digest = SponsorshipDigest(p.kind, p, packed, gas, tenant, window)
    BY <2>2, <2>3
  <2> QED BY <2>4 DEF packed, sig, window
<1>7. Signature(a).digest = SignedOver(a)
  BY <1>4, RecoverBinds DEF Returned
<1>8. /\ configKind[a.p] = p.kind /\ a.p = p /\ a.op = op
      /\ CommittedGas = gas /\ a.window[1] = b.window[1] /\ a.window[2] = b.window[2]
      /\ (p.kind = "tenant" => a.tenant = tenant)
  <2>1. configKind[a.p] \in Kinds /\ p.kind \in Kinds /\ a.p \in Paymasters /\ a.op \in Ops
    BY <1>4, AttestationAssumption DEF AttestTypes, Returned
  <2> DEFINE o1 == Packed(a.op)
             o2 == OnTheWire(op)
  <2>2. SponsorshipDigest(configKind[a.p], a.p, o1, CommittedGas, a.tenant, a.window)
          = SponsorshipDigest(p.kind, p, o2, gas, tenant, b.window)
    BY <1>6, <1>7 DEF SignedOver
  <2> HIDE DEF o1, o2
  <2>3. /\ configKind[a.p] = p.kind /\ a.p = p
        /\ CommittedGas = gas /\ a.window[1] = b.window[1] /\ a.window[2] = b.window[2]
        /\ (p.kind = "tenant" => a.tenant = tenant)
    BY <2>1, <2>2, DigestBinds
  <2>4. /\ o1.sender = o2.sender /\ o1.nonce = o2.nonce /\ o1.initCode = o2.initCode
        /\ o1.callData = o2.callData /\ o1.accountGasLimits = o2.accountGasLimits
        /\ o1.preVerificationGas = o2.preVerificationGas /\ o1.gasFees = o2.gasFees
    BY <2>1, <2>2, DigestBinds
  <2>5. a.op = op
    BY <2>1, <2>4, PackingBinds DEF o1, o2
  <2> QED BY <2>3, <2>5
<1>9. a.window = b.window
  <2>1. a.window \in (Nat \ {0}) \X {0} /\ b.window \in (Nat \ {0}) \X {0}
    BY <1>4 DEF Returned
  <2> QED BY <1>8, <2>1
<1>10. HonouredWasIssued'
  <2>1. /\ a.p = l.p /\ a.op = l.op /\ a.window = l.window /\ l.gas = CommittedGas
        /\ l.tenant = IF l.p.kind = "tenant" THEN {a.tenant} ELSE {}
    BY <1>8, <1>9
  <2> HIDE DEF l
  <2>2. CommittedGas' = CommittedGas
    BY DEF CommittedGas
  <2> QED BY <1>3, <2>1, <2>2 DEF AInv, HonouredWasIssued
<1>11. AttestTypes' /\ \A x \in attested' : Returned(x)'
  BY <1>3 DEF AInv, AttestTypes, Returned, SignedOver, Signature
<1> QED BY <1>10, <1>11 DEF AInv

\* What the backend returns is the encoding of what its own key signed.
LEMMA AttestStep ==
    ASSUME AInv, NEW r \in Replicas, NEW p \in Paymasters, NEW op \in Ops, NEW tenant \in Tenants,
           Attest(r, p, op, tenant)
    PROVE  AInv'
<1> DEFINE kind == configKind[p]
           window == <<clock + Validity, 0>>
           digest == SponsorshipDigest(kind, p, Packed(op), CommittedGas, tenant, window)
<1>1. AttestTypes /\ Validity \in Nat \ {0}
  BY AttestationAssumption DEF AInv
<1>2. PICK raw \in RawSignatures(digest) : \E sig \in SignDigest(raw, address[r]) :
        attested' = attested \cup
            {[p |-> p, op |-> op, tenant |-> tenant, window |-> window, signer |-> address[r],
              data |-> Encode(kind, p, CommittedGas, tenant, window, sig)]}
  BY DEF Attest
<1>3. PICK sig \in SignDigest(raw, address[r]) :
        attested' = attested \cup
            {[p |-> p, op |-> op, tenant |-> tenant, window |-> window, signer |-> address[r],
              data |-> Encode(kind, p, CommittedGas, tenant, window, sig)]}
  BY <1>2
<1> DEFINE new == [p |-> p, op |-> op, tenant |-> tenant, window |-> window, signer |-> address[r],
                   data |-> Encode(kind, p, CommittedGas, tenant, window, sig)]
<1>4. UNCHANGED <<configKind, keysOf, pausedAt, kmsKey, address, clock, landed>>
  BY DEF Attest
<1>5. raw.digest = digest /\ Recover(raw.digest, sig) = address[r]
  BY <1>2, <1>3 DEF RawSignatures, SignDigest
<1>6. kind \in Kinds /\ address[r] \in Keys
  BY <1>1 DEF AttestTypes
<1>7. window \in (Nat \ {0}) \X {0}
  BY <1>1 DEF AttestTypes
<1>8. Signature(new) = sig
  BY <1>6, EncodedFields DEF Signature
<1>9. Returned(new)
  <2>1. new.p = p /\ new.op = op /\ new.tenant = tenant /\ new.window = window /\ new.signer = address[r]
        /\ new.data = Encode(kind, p, CommittedGas, tenant, window, sig)
    OBVIOUS
  <2>2. SignedOver(new) = digest
    BY <2>1 DEF SignedOver
  <2> HIDE DEF new, window, digest
  <2>3. new.data = Encode(configKind[new.p], new.p, CommittedGas, new.tenant, new.window, Signature(new))
    BY <2>1, <1>8 DEF kind
  <2>4. Recover(SignedOver(new), Signature(new)) = new.signer
    BY <2>1, <2>2, <1>5, <1>8
  <2> QED BY <2>1, <2>3, <2>4, <1>6, <1>7 DEF Returned
<1> HIDE DEF new
<1>10. attested' = attested \cup {new}
  BY <1>3 DEF new
<1>11. AttestTypes'
  BY <1>1, <1>4 DEF AttestTypes
<1>12. \A x \in attested' : Returned(x)'
  <2>1. \A x \in attested' : Returned(x)
    BY <1>9, <1>10 DEF AInv
  <2> QED BY <2>1, <1>4 DEF Returned, SignedOver, Signature
<1>13. HonouredWasIssued'
  BY <1>4, <1>10 DEF AInv, HonouredWasIssued
<1> QED BY <1>11, <1>12, <1>13 DEF AInv

\* The owner, the operators and time change nothing that was signed.
LEMMA AttestRest ==
    ASSUME AInv, OwnerSome \/ OperatorSome \/ ClockTicks \/ UNCHANGED attestVars
    PROVE  AInv'
<1>1. /\ UNCHANGED <<configKind, attested, landed>>
      /\ AttestTypes'
  <2>1. CASE OwnerSome
    BY <2>1, AttestationAssumption DEF OwnerSome, SignerAdded, SignerRemoved, PauseSet, AInv, AttestTypes
  <2>2. CASE OperatorSome
    BY <2>2 DEF OperatorSome, Repoint, Roll, AInv, AttestTypes
  <2>3. CASE ClockTicks \/ UNCHANGED attestVars
    BY <2>3 DEF ClockTicks, attestVars, AInv, AttestTypes
  <2> QED BY <2>1, <2>2, <2>3
<1>2. \A x \in attested' : Returned(x)'
  BY <1>1 DEF AInv, Returned, SignedOver, Signature
<1>3. HonouredWasIssued'
  BY <1>1 DEF AInv, HonouredWasIssued
<1> QED BY <1>1, <1>2, <1>3 DEF AInv

\* The inductive invariant of backend and contract.
LEMMA AttestInvariance == AttestSpec => []AInv
<1>1. AttestInit => AInv
  <2> SUFFICES ASSUME AttestInit PROVE AInv
    OBVIOUS
  <2>1. AttestTypes
    BY DEF AttestInit, AttestTypes
  <2>2. attested = {} /\ landed = {}
    BY DEF AttestInit
  <2> QED BY <2>1, <2>2 DEF AInv, HonouredWasIssued
<1>2. AInv /\ [AttestNext]_attestVars => AInv'
  BY LandStep, AttestStep, AttestRest DEF AttestNext, AttestSome
<1> QED BY <1>1, <1>2, PTL DEF AttestSpec

\* An attestation is honoured by the contract it is for exactly while it should be.
LEMMA ReturnedIsHonoured ==
    ASSUME AttestTypes, NEW a, Returned(a),
           configKind[a.p] = a.p.kind, ~pausedAt[a.p], a.signer \in keysOf[a.p], clock =< a.window[1]
    PROVE  Honours(a.p, OnTheWire(a.op), a.data)
<1> DEFINE p == a.p
<1>1. p.kind \in Kinds /\ a.window = <<a.window[1], 0>> /\ a.window[1] \in Nat
  BY AttestationAssumption DEF Returned
<1>2. /\ Len(a.data) = SignatureAt(p.kind)
      /\ a.data[1] = p.address /\ a.data[2] = CommittedGas[1] /\ a.data[3] = CommittedGas[2]
      /\ a.data[4] = a.window[1] /\ a.data[5] = a.window[2]
      /\ (p.kind = "tenant" => a.data[6] = a.tenant)
  <2>1. a.data = Encode(p.kind, p, CommittedGas, a.tenant, a.window, Signature(a))
    BY DEF Returned
  <2> HIDE DEF p
  <2> QED BY <1>1, <2>1, EncodedFields
<1>3. OnTheWire(a.op) = Packed(a.op) /\ CommittedGas = <<CommittedGas[1], CommittedGas[2]>>
  BY DEF OnTheWire, Packed, CommittedGas
<1>4. OnChainDigest(p, OnTheWire(a.op), a.data) = SignedOver(a)
  <2>1. OnChainDigest(p, OnTheWire(a.op), a.data)
          = SponsorshipDigest(p.kind, p, Packed(a.op), CommittedGas, a.tenant, a.window)
    <3> DEFINE data == a.data
               gas == CommittedGas
               window == a.window
               packed == Packed(a.op)
    <3>1. /\ <<data[2], data[3]>> = <<gas[1], gas[2]>> /\ gas = <<gas[1], gas[2]>>
          /\ <<data[4], data[5]>> = <<window[1], window[2]>> /\ window = <<window[1], window[2]>>
          /\ OnTheWire(a.op) = packed /\ (p.kind = "tenant" => data[6] = a.tenant)
      BY <1>1, <1>2, <1>3
    <3> HIDE DEF data, gas, window, packed, p
    <3>2. OnChainDigest(p, packed, data) = SponsorshipDigest(p.kind, p, packed, gas, data[6], window)
      BY <1>1, <3>1, EncodingsAgree
    <3>3. OnChainDigest(p, packed, data) = SponsorshipDigest(p.kind, p, packed, gas, a.tenant, window)
      BY <1>1, <3>1, <3>2, TenantUnread
    <3> QED BY <3>1, <3>3 DEF data, gas, window, packed
  <2> QED BY <2>1 DEF SignedOver
<1>5. Recover(OnChainDigest(p, OnTheWire(a.op), a.data), a.data[Len(a.data)]) \in keysOf[p]
  BY <1>4 DEF Returned, Signature
<1>6. clock \in Nat
  BY DEF AttestTypes
<1> QED BY <1>1, <1>2, <1>5, <1>6 DEF Honours, WellFormed

\* For all contracts of either kind, keys, replicas, operations and whatever is
\* put together of what was once returned: what a paymaster honours was signed by
\* the backend for it, field by field, and what the backend returns is honoured
\* until it expires, its signer is removed or the contract is paused.
THEOREM SidesAgree == AttestSpec => []AttestationsMatch
<1>1. AInv => AttestationsMatch
  <2> SUFFICES ASSUME AInv PROVE AttestationsMatch
    OBVIOUS
  <2>1. ASSUME NEW a \in attested,
               ~(configKind[a.p] # a.p.kind \/ pausedAt[a.p] \/ a.signer \notin keysOf[a.p]
                   \/ clock > a.window[1])
        PROVE  Honours(a.p, OnTheWire(a.op), a.data)
    <3>1. AttestTypes /\ Returned(a)
      BY DEF AInv
    <3>2. clock \in Nat /\ a.window[1] \in Nat
      BY <3>1 DEF AttestTypes, Returned
    <3>3. clock =< a.window[1]
      BY <2>1, <3>2
    <3> QED BY <2>1, <3>1, <3>3, ReturnedIsHonoured
  <2>2. IssuedIsHonoured
    BY <2>1 DEF IssuedIsHonoured
  <2> QED BY <2>2 DEF AInv, AttestationsMatch
<1> QED BY <1>1, AttestInvariance, PTL

\* What a contract accepts under an attestation's own signature was accepted for
\* its signer, and within its window.
LEMMA AcceptedForSigner ==
    ASSUME AttestTypes, NEW a, Returned(a), NEW packed, Honours(a.p, packed, a.data)
    PROVE  /\ Recover(OnChainDigest(a.p, packed, a.data), Signature(a)) = a.signer
           /\ ~(clock > a.window[1])
<1>1. configKind[a.p] \in Kinds /\ keysOf[a.p] \subseteq Keys /\ clock \in Nat
  BY DEF AttestTypes, Returned
<1>2. a.data[4] = a.window[1] /\ a.window[1] \in Nat \ {0}
  <2>1. a.data = Encode(configKind[a.p], a.p, CommittedGas, a.tenant, a.window, Signature(a))
    BY DEF Returned
  <2>2. a.data[4] = a.window[1]
    <3> DEFINE kind == configKind[a.p]
               data == a.data
               sig == Signature(a)
    <3>1. kind \in Kinds /\ data = Encode(kind, a.p, CommittedGas, a.tenant, a.window, sig)
      BY <1>1, <2>1
    <3> HIDE DEF kind, data, sig
    <3>2. data[4] = a.window[1]
      BY <3>1, EncodedFields
    <3> QED BY <3>2 DEF data
  <2> QED BY <2>2 DEF Returned
<1>3. Recover(OnChainDigest(a.p, packed, a.data), Signature(a)) \in keysOf[a.p]
  BY DEF Honours, Signature
<1>4. Signature(a).key = Recover(OnChainDigest(a.p, packed, a.data), Signature(a))
  BY <1>1, <1>3, RecoverBinds
<1>5. Signature(a).key = a.signer
  BY RecoverBinds DEF Returned
<1>6. clock =< a.data[4]
  BY <1>2 DEF Honours
<1> QED BY <1>1, <1>2, <1>3, <1>4, <1>5, <1>6

\* The drain of docs/SECURITY.md, for all keys, replicas and attestations: a signer
\* that no replica uses and whose attestations have all expired can be removed, and
\* what was good before is good after.
THEOREM DrainSuffices == AttestSpec => DrainedRemovalDropsNothing
<1>1. ASSUME AInv, NEW p \in Paymasters, NEW k \in Keys, SignerRemoved(p, k), Drained(k),
             NEW a \in attested, Honours(a.p, OnTheWire(a.op), a.data)
      PROVE  Honours(a.p, OnTheWire(a.op), a.data)'
  <2> DEFINE recovered == Recover(OnChainDigest(a.p, OnTheWire(a.op), a.data), Signature(a))
  <2>1. AttestTypes /\ Returned(a)
    BY <1>1 DEF AInv
  <2>2. recovered = a.signer /\ ~(clock > a.window[1])
    BY <1>1, <2>1, AcceptedForSigner
  <2>3. a.signer # k
    BY <1>1, <2>2 DEF Drained
  <2>4. recovered \in keysOf[a.p]
    BY <1>1 DEF Honours, Signature
  <2>5. /\ UNCHANGED <<pausedAt, clock>>
        /\ keysOf' = [keysOf EXCEPT ![p] = @ \ {k}]
        /\ a.p \in Paymasters /\ keysOf \in [Paymasters -> SUBSET Keys]
    BY <1>1, <2>1 DEF SignerRemoved, Returned, AttestTypes
  <2>6. recovered \in keysOf'[a.p]
    BY <2>2, <2>3, <2>4, <2>5
  <2> QED BY <1>1, <2>5, <2>6 DEF Honours, Signature
<1>2. AInv => [\A p \in Paymasters, k \in Keys :
                   SignerRemoved(p, k) /\ Drained(k) =>
                       \A a \in attested :
                           Honours(a.p, OnTheWire(a.op), a.data)
                               => Honours(a.p, OnTheWire(a.op), a.data)']_attestVars
  BY <1>1
<1> QED BY <1>2, AttestInvariance, PTL DEF DrainedRemovalDropsNothing

(***************************************************************************)
(* Balances, controllers and claims                                        *)
(***************************************************************************)

USE ConstantsAssumption DEF Never

\* Attestations carry a nonce the chain has reached; spent ones lie below it.
NoncesReached ==
    /\ \A a \in issued : a.nonce =< controllerNonce[a.tenant]
    /\ \A a \in spent : a.nonce < controllerNonce[a.tenant]

\* The waiting time of a claim is carried along the line of controllers.
ActivationFollowsClaim ==
    \A t \in Tenant : claimedAt[t] # Never =>
        controllerActiveAt[t] = claimedAt[t] + ClaimDelay

IInv ==
    /\ TypeOK
    /\ CountersAgree
    /\ SolventButForLeaks
    /\ EventsExplainBalances
    /\ NoncesReached
    /\ NoReplay
    /\ ActivationFollowsClaim

----------------------------------------------------------------------------
(* Operations and amounts *)

\* What the constants say of an operation's fields.
LEMMA OpFields ==
  ASSUME NEW o \in Op
  PROVE  /\ userOp[o].tenant \in Tenant
         /\ userOp[o].signer \in Signer
         /\ userOp[o].maxCost \in Nat
         /\ userOp[o].preCost \in Nat
         /\ userOp[o].callLimit \in Nat
         /\ userOp[o].postOpLimit \in Nat
BY DEF UserOp

\* The EntryPoint's percentage of a natural number of wei is one.
LEMMA PenaltyIsNat ==
  ASSUME NEW n \in Nat
  PROVE  (n * PenaltyPercent) \div 100 \in Nat
<1>1. PenaltyPercent \in Nat
  OBVIOUS
<1>2. n * PenaltyPercent \in Nat
  BY <1>1
<1> QED
  BY <1>2

\* What the EntryPoint settles and what postOp charges are natural numbers, no
\* charge exceeds the reservation, and it covers all but the penalty.
LEMMA Costs ==
  ASSUME NEW o \in Op, NEW exec \in 0..userOp[o].callLimit,
         NEW post \in 0..userOp[o].postOpLimit
  PROVE  /\ ActualCost(o, exec, post) \in Nat
         /\ Charge(o, userOp[o].preCost + exec) \in Nat
         /\ Charge(o, userOp[o].preCost + exec) =< userOp[o].maxCost
         /\ UnusedGasPenalty(o, exec + post) \in Nat
         /\ ActualCost(o, exec, post) =< userOp[o].maxCost
              => ActualCost(o, exec, post) - UnusedGasPenalty(o, exec + post)
                   =< Charge(o, userOp[o].preCost + exec)
<1>1. UnusedGasPenalty(o, exec + post) \in Nat
  <2>1. userOp[o].callLimit + userOp[o].postOpLimit - (exec + post) \in Nat
    BY OpFields
  <2> QED
    BY <2>1, PenaltyIsNat DEF UnusedGasPenalty
<1>2. ActualCost(o, exec, post) \in Nat
  BY <1>1, OpFields DEF ActualCost
<1>3. /\ Charge(o, userOp[o].preCost + exec) \in Nat
      /\ Charge(o, userOp[o].preCost + exec) =< userOp[o].maxCost
  BY OpFields DEF Charge, AtMost
<1>4. ActualCost(o, exec, post) =< userOp[o].maxCost
        => ActualCost(o, exec, post) - UnusedGasPenalty(o, exec + post)
             =< Charge(o, userOp[o].preCost + exec)
  BY <1>1, OpFields DEF Charge, AtMost, ActualCost
<1> QED
  BY <1>1, <1>2, <1>3, <1>4

\* The running total covers every balance.
LEMMA TotalCovers ==
  ASSUME TypeOK, CountersAgree
  PROVE  \A t \in Tenant : balances[t] =< totalTenantBalance
BY SumNat DEF TypeOK, MoneyTypes, CountersAgree

\* Credit and Debit keep the running total equal to the sum of the balances.
LEMMA CreditAgrees ==
  ASSUME TypeOK, CountersAgree, NEW t \in Tenant, NEW a \in Nat, Credit(t, a)
  PROVE  /\ balances' \in [Tenant -> Nat]
         /\ totalTenantBalance' \in Nat
         /\ totalTenantBalance' = SumOver(balances', Tenant)
<1>1. balances' \in [Tenant -> Nat] /\ totalTenantBalance' \in Nat
  BY DEF TypeOK, MoneyTypes, Credit
<1>2. /\ balances'[t] = balances[t] + a
      /\ \A u \in Tenant \ {t} : balances'[u] = balances[u]
  BY DEF TypeOK, MoneyTypes, Credit
<1>3. /\ \A u \in Tenant : balances[u] \in Int /\ balances'[u] \in Int
      /\ \A u \in Tenant : balances[u] \in Nat
  BY <1>1 DEF TypeOK, MoneyTypes
<1>4. SumOver(balances', Tenant) = SumOver(balances, Tenant) - balances[t] + balances'[t]
  BY <1>2, <1>3, SumChange
<1>5. SumOver(balances, Tenant) \in Nat
  BY <1>3, SumNat
<1> QED
  BY <1>1, <1>2, <1>3, <1>4, <1>5 DEF Credit, CountersAgree

\* The same of Debit, for an amount the tenant's balance covers.
LEMMA DebitAgrees ==
  ASSUME TypeOK, CountersAgree, NEW t \in Tenant, NEW a \in Nat,
         a =< balances[t], Debit(t, a)
  PROVE  /\ balances' \in [Tenant -> Nat]
         /\ totalTenantBalance' \in Nat
         /\ totalTenantBalance' = SumOver(balances', Tenant)
<1>1. balances' \in [Tenant -> Nat]
  BY DEF TypeOK, MoneyTypes, Debit
<1>2. /\ balances'[t] = balances[t] - a
      /\ \A u \in Tenant \ {t} : balances'[u] = balances[u]
  BY DEF TypeOK, MoneyTypes, Debit
<1>3. /\ \A u \in Tenant : balances[u] \in Int /\ balances'[u] \in Int
      /\ \A u \in Tenant : balances[u] \in Nat
  BY <1>1 DEF TypeOK, MoneyTypes
<1>4. SumOver(balances', Tenant) = SumOver(balances, Tenant) - balances[t] + balances'[t]
  BY <1>2, <1>3, SumChange
<1>5. SumOver(balances, Tenant) \in Nat
  BY <1>3, SumNat
<1>6. totalTenantBalance' \in Nat
  BY TotalCovers DEF Debit, TypeOK, MoneyTypes
<1> QED
  BY <1>1, <1>2, <1>3, <1>4, <1>5, <1>6 DEF Debit, CountersAgree

----------------------------------------------------------------------------
(* What the bundle holds and what failed calls took *)

\* One operation's part in a sum over statuses S.
Part(t, status, o, S) ==
    IF userOp[o].tenant = t /\ status \in S THEN userOp[o].maxCost ELSE 0

\* What a bundle holds for a tenant, and what failed inner calls took, are sums
\* of natural numbers.
LEMMA HeldIsNat ==
  ASSUME TypeOK, NEW t \in Tenant
  PROVE  Held(t) \in Nat /\ Lost(t) \in Nat
<1>1. \A S : \A o \in Op : Amounts(t, S)[o] \in Nat
  BY OpFields DEF Amounts
<1> QED
  BY <1>1, SumNat DEF Held, Lost

\* A call, of its own or from a running operation, keeps the statuses' type.
LEMMA CallingTypes ==
  ASSUME TypeOK, Calling
  PROVE  opStatus' \in [Op -> Status]
BY DEF TypeOK, MoneyTypes, Calling, Status

\* A call of msg.sender holds and loses what was held and lost before it.
LEMMA CallingHolds ==
  ASSUME TypeOK, Calling, NEW t \in Tenant
  PROVE  Held(t)' = Held(t) /\ Lost(t)' = Lost(t)
<1>2. \A o \in Op : /\ opStatus'[o] \in Holding <=> opStatus[o] \in Holding
                    /\ opStatus'[o] = "reverted" <=> opStatus[o] = "reverted"
  BY DEF TypeOK, MoneyTypes, Calling, Holding
<1>3. /\ Amounts(t, Holding)' = Amounts(t, Holding)
      /\ Amounts(t, {"reverted"})' = Amounts(t, {"reverted"})
  BY <1>2 DEF Amounts
<1> QED
  BY <1>3 DEF Held, Lost

\* When one operation's status changes, the sums change by its part in them.
LEMMA StatusChange ==
  ASSUME TypeOK, NEW o \in Op, NEW s \in Status, NEW t \in Tenant,
         opStatus' = [opStatus EXCEPT ![o] = s]
  PROVE  /\ Held(t)' = Held(t) - Part(t, opStatus[o], o, Holding) + Part(t, s, o, Holding)
         /\ Lost(t)' = Lost(t) - Part(t, opStatus[o], o, {"reverted"})
                               + Part(t, s, o, {"reverted"})
<1>1. ASSUME NEW S
      PROVE  SumOver(Amounts(t, S)', Op) = SumOver(Amounts(t, S), Op)
               - Part(t, opStatus[o], o, S) + Part(t, s, o, S)
  <2> DEFINE f == Amounts(t, S)
             h == Amounts(t, S)'
  <2>1. \A p \in Op : f[p] \in Int /\ h[p] \in Int
    BY OpFields DEF Amounts
  <2>2. \A p \in Op \ {o} : h[p] = f[p]
    BY DEF Amounts, TypeOK, MoneyTypes
  <2>3. f[o] = Part(t, opStatus[o], o, S) /\ h[o] = Part(t, s, o, S)
    BY DEF Amounts, Part, TypeOK, MoneyTypes
  <2>4. SumOver(h, Op) = SumOver(f, Op) - f[o] + h[o]
    <3> HIDE DEF f, h
    <3> QED BY <2>1, <2>2, SumChange
  <2> QED
    BY <2>3, <2>4
<1> QED
  BY <1>1 DEF Held, Lost

----------------------------------------------------------------------------
(* Initial states *)

\* The constructor establishes the inductive invariant.
LEMMA InitIInv == Init => IInv
<1> SUFFICES ASSUME Init PROVE IInv
  OBVIOUS
<1>1. TypeOK
  BY DEF Init, TypeOK, MoneyTypes, ControlTypes, Status
<1>2. CountersAgree
  <2>1. totalTenantBalance = SumOver(balances, Tenant)
    BY SumZero DEF Init
  <2>2. signerCount = Cardinality(isSigner)
    BY FS_Singleton DEF Init
  <2> QED BY <2>1, <2>2 DEF CountersAgree
<1>3. SolventButForLeaks
  BY DEF Init, SolventButForLeaks
<1>4. EventsExplainBalances
  <2> SUFFICES ASSUME NEW t \in Tenant
               PROVE  ledger[t].deposited = balances[t] + ledger[t].withdrawn
                        + ledger[t].charged + Held(t) + Lost(t)
    BY DEF EventsExplainBalances
  <2>1. \A o \in Op : /\ Amounts(t, Holding)[o] = 0
                      /\ Amounts(t, {"reverted"})[o] = 0
    BY DEF Init, Amounts, Holding
  <2>2. Held(t) = 0 /\ Lost(t) = 0
    BY <2>1, SumZero DEF Held, Lost
  <2> QED BY <2>2 DEF Init
<1>5. NoncesReached /\ NoReplay /\ ActivationFollowsClaim
  BY DEF Init, NoncesReached, NoReplay, ActivationFollowsClaim
<1> QED
  BY <1>1, <1>2, <1>3, <1>4, <1>5 DEF IInv

----------------------------------------------------------------------------
(* Steps that leave one half of the state alone *)

\* A step that moves no money keeps what the invariant says of it.
LEMMA MoneyStill ==
  ASSUME IInv, UNCHANGED <<contractVars, deposit, leakVars, ledger>>,
         \A t \in Tenant : Held(t)' = Held(t) /\ Lost(t)' = Lost(t)
  PROVE  /\ totalTenantBalance' = SumOver(balances', Tenant)
         /\ SolventButForLeaks' /\ EventsExplainBalances'
BY DEF IInv, CountersAgree, SolventButForLeaks, EventsExplainBalances,
       contractVars, leakVars

\* A step that changes no rights keeps the types of the rights.
LEMMA ControlTypesStill ==
  ASSUME ControlTypes,
         UNCHANGED <<signerVars, controllerVars, ownerVars, claimVars, issued, now>>
  PROVE  ControlTypes'
BY DEF ControlTypes, signerVars, controllerVars, ownerVars, claimVars

\* Adding to one tenant's events keeps the ledger's type.
LEMMA LedgerTypes ==
  ASSUME MoneyTypes, NEW t \in Tenant, NEW a \in Nat
  PROVE  /\ [ledger EXCEPT ![t].deposited = @ + a]
              \in [Tenant -> [deposited : Nat, withdrawn : Nat, charged : Nat]]
         /\ [ledger EXCEPT ![t].withdrawn = @ + a]
              \in [Tenant -> [deposited : Nat, withdrawn : Nat, charged : Nat]]
         /\ [ledger EXCEPT ![t].charged = @ + a]
              \in [Tenant -> [deposited : Nat, withdrawn : Nat, charged : Nat]]
<1>1. ledger[t] \in [deposited : Nat, withdrawn : Nat, charged : Nat]
  BY DEF MoneyTypes
<1> QED
  BY <1>1 DEF MoneyTypes

\* A step that changes no rights keeps what the invariant says of them.
LEMMA ControlStill ==
  ASSUME IInv, UNCHANGED <<controllerVars, claimVars, issued>>
  PROVE  NoncesReached' /\ NoReplay' /\ ActivationFollowsClaim'
BY DEF IInv, NoncesReached, NoReplay, ActivationFollowsClaim, controllerVars,
       claimVars

----------------------------------------------------------------------------
(* Funding *)

\* Deposits and withdrawals, depositFor to withdrawFor, keep the invariant.
LEMMA FundStep ==
  ASSUME IInv, Fund
  PROVE  IInv'
<1> USE DEF IInv
<1>1. ASSUME NEW t \in Tenant, NEW a \in Amount, DepositFor(t, a)
      PROVE  IInv'
  <2> USE <1>1 DEF DepositFor
  <2>1. a \in Nat /\ Credit(t, a)
    OBVIOUS
  <2>2. /\ balances' \in [Tenant -> Nat] /\ totalTenantBalance' \in Nat
        /\ totalTenantBalance' = SumOver(balances', Tenant)
    BY <2>1, CreditAgrees
  <2>3. opStatus' \in [Op -> Status]
    BY CallingTypes
  <2>4. TypeOK'
    <3>1. ControlTypes'
      BY ControlTypesStill DEF TypeOK
    <3>2. MoneyTypes'
      <4>1. ledger' \in [Tenant -> [deposited : Nat, withdrawn : Nat, charged : Nat]]
        BY <2>1, LedgerTypes DEF TypeOK
      <4>2. controllerTook' \in [Tenant -> Nat] /\ deposit' \in Nat
        BY <2>1 DEF TypeOK, MoneyTypes, Covers
      <4> QED
        BY <2>2, <2>3, <4>1, <4>2 DEF TypeOK, MoneyTypes, leakVars
    <3> QED BY <3>1, <3>2 DEF TypeOK
  <2>5. CountersAgree' /\ SolventButForLeaks'
    BY <2>1, <2>2 DEF TypeOK, MoneyTypes, CountersAgree, SolventButForLeaks, signerVars,
       leakVars, Credit
  <2>6. EventsExplainBalances'
    <3> SUFFICES ASSUME NEW u \in Tenant
                 PROVE  ledger'[u].deposited = balances'[u] + ledger'[u].withdrawn
                          + ledger'[u].charged + Held(u)' + Lost(u)'
      BY DEF EventsExplainBalances
    <3>1. Held(u)' = Held(u) /\ Lost(u)' = Lost(u)
      BY CallingHolds
    <3>2. Held(u) \in Nat /\ Lost(u) \in Nat
      BY HeldIsNat
    <3>3. ledger[u].deposited = balances[u] + ledger[u].withdrawn
            + ledger[u].charged + Held(u) + Lost(u)
      BY DEF EventsExplainBalances
    <3> QED
      BY <2>1, <3>1, <3>2, <3>3 DEF TypeOK, MoneyTypes, Credit
  <2> QED
    BY <2>4, <2>5, <2>6, ControlStill
<1>2. ASSUME NEW a \in Amount, DepositUntenanted(a)
      PROVE  IInv'
  <2> USE <1>2 DEF DepositUntenanted
  <2>1. TypeOK'
    <3>1. ControlTypes'
      BY ControlTypesStill DEF TypeOK
    <3>2. MoneyTypes'
      BY CallingTypes DEF TypeOK, MoneyTypes, leakVars, contractVars
    <3> QED BY <3>1, <3>2 DEF TypeOK
  <2>3. CountersAgree' /\ SolventButForLeaks'
    BY DEF TypeOK, MoneyTypes, CountersAgree, SolventButForLeaks, signerVars,
       leakVars, contractVars
  <2>2. EventsExplainBalances'
    BY CallingHolds DEF EventsExplainBalances, contractVars
  <2> QED
    BY <2>1, <2>2, <2>3, ControlStill
<1>3. ASSUME NEW a \in Amount, OwnerWithdrawTo(a)
      PROVE  IInv'
  <2> USE <1>3 DEF OwnerWithdrawTo
  <2>1. TypeOK'
    <3>1. ControlTypes'
      BY ControlTypesStill DEF TypeOK
    <3>2. MoneyTypes'
      BY CallingTypes DEF TypeOK, MoneyTypes, contractVars
    <3> QED BY <3>1, <3>2 DEF TypeOK
  <2>3. CountersAgree' /\ SolventButForLeaks'
    BY DEF TypeOK, MoneyTypes, CountersAgree, SolventButForLeaks, signerVars,
       contractVars
  <2>2. EventsExplainBalances'
    BY CallingHolds DEF EventsExplainBalances, contractVars
  <2> QED
    BY <2>1, <2>2, <2>3, ControlStill
<1>4. ASSUME NEW c \in Account, NEW t \in Tenant, NEW a \in Amount,
             WithdrawFor(c, t, a)
      PROVE  IInv'
  <2> USE <1>4 DEF WithdrawFor
  <2>1. a \in Nat /\ a =< balances[t] /\ Debit(t, a)
    BY DEF TypeOK, MoneyTypes, Covers
  <2>2. /\ balances' \in [Tenant -> Nat] /\ totalTenantBalance' \in Nat
        /\ totalTenantBalance' = SumOver(balances', Tenant)
    BY <2>1, DebitAgrees
  <2>3. opStatus' \in [Op -> Status]
    BY CallingTypes
  <2>4. TypeOK'
    <3>1. ControlTypes'
      BY ControlTypesStill DEF TypeOK
    <3>2. MoneyTypes'
      <4>1. ledger' \in [Tenant -> [deposited : Nat, withdrawn : Nat, charged : Nat]]
        BY <2>1, LedgerTypes DEF TypeOK
      <4>2. controllerTook' \in [Tenant -> Nat] /\ deposit' \in Nat
        BY <2>1 DEF TypeOK, MoneyTypes, Covers
      <4> QED
        BY <2>2, <2>3, <4>1, <4>2 DEF TypeOK, MoneyTypes, leakVars
    <3> QED BY <3>1, <3>2 DEF TypeOK
  <2>5. CountersAgree' /\ SolventButForLeaks'
    BY <2>1, <2>2 DEF TypeOK, MoneyTypes, CountersAgree, SolventButForLeaks, signerVars,
       leakVars, Debit
  <2>6. EventsExplainBalances'
    <3> SUFFICES ASSUME NEW u \in Tenant
                 PROVE  ledger'[u].deposited = balances'[u] + ledger'[u].withdrawn
                          + ledger'[u].charged + Held(u)' + Lost(u)'
      BY DEF EventsExplainBalances
    <3>1. Held(u)' = Held(u) /\ Lost(u)' = Lost(u)
      BY CallingHolds
    <3>2. Held(u) \in Nat /\ Lost(u) \in Nat
      BY HeldIsNat
    <3>3. ledger[u].deposited = balances[u] + ledger[u].withdrawn
            + ledger[u].charged + Held(u) + Lost(u)
      BY DEF EventsExplainBalances
    <3> QED
      BY <2>1, <3>1, <3>2, <3>3 DEF TypeOK, MoneyTypes, Debit
  <2> QED
    BY <2>4, <2>5, <2>6, ControlStill
<1> QED
  BY <1>1, <1>2, <1>3, <1>4 DEF Fund

----------------------------------------------------------------------------
(* Sponsorship *)

\* validatePaymasterUserOp keeps it: what leaves the balance is held.
LEMMA ValidateStep ==
  ASSUME IInv, NEW o \in Op, ValidatePaymasterUserOp(o)
  PROVE  IInv'
<1> DEFINE t == userOp[o].tenant
           m == userOp[o].maxCost
<1> USE DEF IInv, ValidatePaymasterUserOp
<1>1. t \in Tenant /\ m \in Nat
  BY OpFields
<1>2. m =< balances[t] /\ m =< deposit /\ Debit(t, m)
  BY <1>1 DEF TypeOK, MoneyTypes, Covers
<1>3. /\ balances' \in [Tenant -> Nat] /\ totalTenantBalance' \in Nat
      /\ totalTenantBalance' = SumOver(balances', Tenant)
  BY <1>1, <1>2, DebitAgrees
<1>4. TypeOK'
  <2>1. ControlTypes'
    BY ControlTypesStill DEF TypeOK
  <2>2. deposit' \in Nat /\ opStatus' \in [Op -> Status]
    BY <1>1, <1>2 DEF TypeOK, MoneyTypes, Status
  <2>3. MoneyTypes'
    BY <1>3, <2>2 DEF TypeOK, MoneyTypes, leakVars
  <2> QED BY <2>1, <2>3 DEF TypeOK
<1>5. CountersAgree' /\ SolventButForLeaks'
  <2>1. /\ totalTenantBalance' = totalTenantBalance - m
        /\ deposit' = deposit - m
        /\ UNCHANGED <<signerVars, leakVars>>
    BY <1>2 DEF Debit
  <2> HIDE DEF t, m, ValidatePaymasterUserOp
  <2> QED
    BY <1>1, <1>3, <2>1 DEF TypeOK, MoneyTypes, CountersAgree,
       SolventButForLeaks, signerVars, leakVars
<1>6. EventsExplainBalances'
  <2> SUFFICES ASSUME NEW u \in Tenant
               PROVE  ledger'[u].deposited = balances'[u] + ledger'[u].withdrawn
                        + ledger'[u].charged + Held(u)' + Lost(u)'
    BY DEF EventsExplainBalances
  <2>1. /\ Held(u)' = Held(u) + Part(u, "validated", o, Holding)
        /\ Lost(u)' = Lost(u)
    <3>1. "validated" \in Status /\ opStatus' = [opStatus EXCEPT ![o] = "validated"]
      BY DEF Status
    <3>2. Held(u) \in Nat /\ Lost(u) \in Nat
      BY HeldIsNat
    <3>3. /\ Part(u, opStatus[o], o, Holding) = 0
          /\ Part(u, opStatus[o], o, {"reverted"}) = 0
          /\ Part(u, "validated", o, {"reverted"}) = 0
          /\ Part(u, "validated", o, Holding) \in Nat
      BY <1>1 DEF Part, Holding
    <3>4. /\ Held(u)' = Held(u) - Part(u, opStatus[o], o, Holding)
                        + Part(u, "validated", o, Holding)
          /\ Lost(u)' = Lost(u) - Part(u, opStatus[o], o, {"reverted"})
                        + Part(u, "validated", o, {"reverted"})
      BY <3>1, StatusChange
    <3> HIDE DEF IInv, ValidatePaymasterUserOp
    <3> QED
      BY <3>2, <3>3, <3>4
  <2>2. Part(u, "validated", o, Holding) = IF u = t THEN m ELSE 0
    BY DEF Part, Holding
  <2>3. balances'[u] = balances[u] - (IF u = t THEN m ELSE 0)
    BY <1>1, <1>2 DEF Debit, TypeOK, MoneyTypes
  <2>4. Held(u) \in Nat /\ Lost(u) \in Nat
    BY HeldIsNat
  <2>5. ledger[u].deposited = balances[u] + ledger[u].withdrawn
          + ledger[u].charged + Held(u) + Lost(u)
    BY DEF EventsExplainBalances
  <2>6. /\ balances[u] \in Nat /\ ledger'[u] = ledger[u]
        /\ ledger[u].withdrawn \in Nat /\ ledger[u].charged \in Nat
    BY DEF TypeOK, MoneyTypes
  <2> HIDE DEF t, m, IInv, ValidatePaymasterUserOp
  <2> QED
    BY <1>1, <2>1, <2>2, <2>3, <2>4, <2>5, <2>6
<1> QED
  BY <1>4, <1>5, <1>6, ControlStill

\* So does the EntryPoint's start of an operation's inner call.
LEMMA RunStep ==
  ASSUME IInv, NEW o \in Op, RunOp(o)
  PROVE  IInv'
<1> USE DEF IInv, RunOp
<1>1. TypeOK'
  <2>1. ControlTypes'
    BY ControlTypesStill DEF TypeOK
  <2>2. MoneyTypes'
    BY DEF TypeOK, MoneyTypes, contractVars, leakVars, Status
  <2> QED BY <2>1, <2>2 DEF TypeOK
<1>2. ASSUME NEW t \in Tenant
      PROVE  Held(t)' = Held(t) /\ Lost(t)' = Lost(t)
  <2>1. "running" \in Status /\ opStatus' = [opStatus EXCEPT ![o] = "running"]
    BY DEF Status
  <2>2. Held(t) \in Nat /\ Lost(t) \in Nat
    BY HeldIsNat
  <2>3. /\ Part(t, opStatus[o], o, Holding) = Part(t, "running", o, Holding)
        /\ Part(t, "running", o, Holding) \in Nat
        /\ Part(t, opStatus[o], o, {"reverted"}) = 0
        /\ Part(t, "running", o, {"reverted"}) = 0
    BY OpFields DEF Part, Holding
  <2>4. /\ Held(t)' = Held(t) - Part(t, opStatus[o], o, Holding)
                      + Part(t, "running", o, Holding)
        /\ Lost(t)' = Lost(t) - Part(t, opStatus[o], o, {"reverted"})
                      + Part(t, "running", o, {"reverted"})
    BY <2>1, StatusChange
  <2> HIDE DEF IInv, RunOp
  <2> QED
    BY <2>2, <2>3, <2>4
<1>3. /\ totalTenantBalance' = SumOver(balances', Tenant)
      /\ SolventButForLeaks' /\ EventsExplainBalances'
  BY <1>2, MoneyStill DEF contractVars, leakVars
<1>4. CountersAgree'
  BY <1>3 DEF CountersAgree, signerVars
<1> QED
  BY <1>1, <1>3, <1>4, ControlStill

\* Settling takes the operation's reservation out of what is held.
LEMMA SettleHolds ==
  ASSUME IInv, NEW o \in Op, opStatus[o] \in Holding,
         NEW s \in {"charged", "reverted"}, Settle(o, s), NEW u \in Tenant
  PROVE  LET m == IF u = userOp[o].tenant THEN userOp[o].maxCost ELSE 0
         IN  /\ m \in Nat
             /\ Held(u)' = Held(u) - m
             /\ Lost(u)' = Lost(u) + (IF s = "reverted" THEN m ELSE 0)
<1>1. s \in Status /\ opStatus' = [opStatus EXCEPT ![o] = s] /\ TypeOK
  BY DEF Status, Settle, IInv
<1>2. Held(u) \in Nat /\ Lost(u) \in Nat
  BY HeldIsNat, <1>1
<1> DEFINE m == IF u = userOp[o].tenant THEN userOp[o].maxCost ELSE 0
<1>3. m \in Nat
  BY OpFields
<1>4. /\ Part(u, opStatus[o], o, Holding) = m
      /\ Part(u, s, o, Holding) = 0
      /\ Part(u, opStatus[o], o, {"reverted"}) = 0
      /\ Part(u, s, o, {"reverted"}) = IF s = "reverted" THEN m ELSE 0
  BY DEF Part, Holding
<1>5. /\ Held(u)' = Held(u) - Part(u, opStatus[o], o, Holding) + Part(u, s, o, Holding)
      /\ Lost(u)' = Lost(u) - Part(u, opStatus[o], o, {"reverted"})
                            + Part(u, s, o, {"reverted"})
  BY <1>1, StatusChange
<1> HIDE DEF m
<1>6. Held(u)' = Held(u) - m /\ Lost(u)' = Lost(u) + (IF s = "reverted" THEN m ELSE 0)
  BY <1>2, <1>3, <1>4, <1>5
<1> QED
  BY <1>3, <1>6 DEF m

\* postOp keeps it: the charge covers all that is settled but the penalty.
LEMMA PostOpStep ==
  ASSUME IInv, NEW o \in Op, NEW exec \in 0..userOp[o].callLimit,
         NEW post \in 0..userOp[o].postOpLimit, PostOp(o, exec, post)
  PROVE  IInv'
<1> DEFINE t == userOp[o].tenant
           m == userOp[o].maxCost
           charge == Charge(o, userOp[o].preCost + exec)
           actual == ActualCost(o, exec, post)
           penalty == UnusedGasPenalty(o, exec + post)
<1> USE DEF IInv, PostOp
<1>1. /\ t \in Tenant /\ m \in Nat /\ charge \in Nat /\ actual \in Nat
      /\ charge =< m /\ actual =< m
      /\ penalty \in Nat /\ actual - penalty =< charge
  BY OpFields, Costs
<1>2. m - charge \in Nat /\ Credit(t, m - charge)
  BY <1>1 DEF Refund
<1>3. /\ balances' \in [Tenant -> Nat] /\ totalTenantBalance' \in Nat
      /\ totalTenantBalance' = SumOver(balances', Tenant)
  BY <1>1, <1>2, CreditAgrees
<1>4. /\ deposit' = deposit + (m - actual)
      /\ penalties' = penalties + penalty
      /\ ledger' = [ledger EXCEPT ![t].charged = @ + charge]
      /\ Settle(o, "charged")
  OBVIOUS
<1>5. TypeOK'
  <2>1. ControlTypes'
    BY ControlTypesStill DEF TypeOK
  <2>2. deposit' \in Nat /\ penalties' \in Nat
    <3> HIDE DEF charge, actual, penalty, t, m
    <3> QED BY <1>1, <1>4 DEF TypeOK, MoneyTypes
  <2>3. opStatus' \in [Op -> Status] /\ executing' \in BOOLEAN
    BY <1>4 DEF TypeOK, MoneyTypes, Status, Settle
  <2>4. ledger' \in [Tenant -> [deposited : Nat, withdrawn : Nat, charged : Nat]]
    <3>1. MoneyTypes
      BY DEF TypeOK
    <3> HIDE DEF charge, t, IInv, PostOp
    <3> QED BY <1>1, <1>4, <3>1, LedgerTypes
  <2>5. MoneyTypes'
    BY <1>3, <2>2, <2>3, <2>4 DEF TypeOK, MoneyTypes
  <2> QED BY <2>1, <2>5 DEF TypeOK
<1>6. CountersAgree'
  BY <1>3 DEF CountersAgree, signerVars
<1>7. SolventButForLeaks'
  <2>1. totalTenantBalance' = totalTenantBalance + (m - charge) /\ ownerTook' = ownerTook
    BY <1>2 DEF Credit
  <2> HIDE DEF charge, actual, penalty, t, m, PostOp
  <2> QED
    BY <1>1, <1>4, <2>1 DEF SolventButForLeaks, TypeOK, MoneyTypes
<1>8. EventsExplainBalances'
  <2> SUFFICES ASSUME NEW u \in Tenant
               PROVE  ledger'[u].deposited = balances'[u] + ledger'[u].withdrawn
                        + ledger'[u].charged + Held(u)' + Lost(u)'
    BY DEF EventsExplainBalances
  <2> DEFINE k == IF u = t THEN m ELSE 0
             c == IF u = t THEN charge ELSE 0
  <2>1. k \in Nat /\ Held(u)' = Held(u) - k /\ Lost(u)' = Lost(u)
    <3>1. Held(u) \in Nat /\ Lost(u) \in Nat
      BY HeldIsNat
    <3> QED
      BY <1>4, <3>1, SettleHolds DEF Holding
  <2>2. balances'[u] = balances[u] + (k - c)
    BY <1>1, <1>2 DEF Credit, TypeOK, MoneyTypes
  <2>3. /\ ledger'[u].deposited = ledger[u].deposited
        /\ ledger'[u].withdrawn = ledger[u].withdrawn
        /\ ledger'[u].charged = ledger[u].charged + c
    BY <1>1, <1>4 DEF TypeOK, MoneyTypes
  <2>4. Held(u) \in Nat /\ Lost(u) \in Nat
    BY HeldIsNat
  <2>5. ledger[u].deposited = balances[u] + ledger[u].withdrawn
          + ledger[u].charged + Held(u) + Lost(u)
    BY DEF EventsExplainBalances
  <2>6. /\ balances[u] \in Nat /\ c \in Nat
        /\ ledger[u].withdrawn \in Nat /\ ledger[u].charged \in Nat
    BY <1>1 DEF TypeOK, MoneyTypes
  <2> HIDE DEF k, c, IInv, PostOp
  <2> QED
    BY <2>1, <2>2, <2>3, <2>4, <2>5, <2>6
<1> QED
  BY <1>5, <1>6, <1>7, <1>8, ControlStill

\* An inner call undone with its postOp keeps it: the whole reservation is lost
\* to the tenant, and stays in the deposit but for what is settled.
LEMMA RevertStep ==
  ASSUME IInv, NEW o \in Op, NEW exec \in 0..userOp[o].callLimit,
         NEW post \in 0..userOp[o].postOpLimit, PostOpReverted(o, exec, post)
  PROVE  IInv'
<1> DEFINE t == userOp[o].tenant
           m == userOp[o].maxCost
           back == m - AtMost(ActualCost(o, exec, post), m)
<1> USE DEF IInv, PostOpReverted
<1>1. t \in Tenant /\ back \in Nat
  BY OpFields, Costs DEF AtMost
<1>2. deposit' = deposit + back /\ Settle(o, "reverted")
  OBVIOUS
<1>3. TypeOK'
  <2>1. ControlTypes'
    BY ControlTypesStill DEF TypeOK
  <2>2. deposit' \in Nat
    <3> HIDE DEF back
    <3> QED BY <1>1, <1>2 DEF TypeOK, MoneyTypes
  <2>3. opStatus' \in [Op -> Status] /\ executing' \in BOOLEAN
    BY <1>2 DEF TypeOK, MoneyTypes, Status, Settle
  <2>4. MoneyTypes'
    BY <2>2, <2>3 DEF TypeOK, MoneyTypes, contractVars, leakVars
  <2> QED BY <2>1, <2>4 DEF TypeOK
<1>4. CountersAgree'
  BY DEF CountersAgree, signerVars, contractVars
<1>5. SolventButForLeaks'
  <2> HIDE DEF back
  <2> QED BY <1>1, <1>2 DEF SolventButForLeaks, TypeOK, MoneyTypes, contractVars, leakVars
<1>6. EventsExplainBalances'
  <2> SUFFICES ASSUME NEW u \in Tenant
               PROVE  ledger'[u].deposited = balances'[u] + ledger'[u].withdrawn
                        + ledger'[u].charged + Held(u)' + Lost(u)'
    BY DEF EventsExplainBalances
  <2> DEFINE k == IF u = t THEN m ELSE 0
  <2>1. k \in Nat /\ Held(u)' = Held(u) - k /\ Lost(u)' = Lost(u) + k
    BY <1>2, SettleHolds DEF Holding
  <2>2. Held(u) \in Nat /\ Lost(u) \in Nat
    BY HeldIsNat
  <2>3. ledger[u].deposited = balances[u] + ledger[u].withdrawn
          + ledger[u].charged + Held(u) + Lost(u)
    BY DEF EventsExplainBalances
  <2>4. /\ balances' = balances /\ ledger' = ledger /\ balances[u] \in Nat
        /\ ledger[u].withdrawn \in Nat /\ ledger[u].charged \in Nat
    BY DEF TypeOK, MoneyTypes, contractVars
  <2> HIDE DEF k, IInv, PostOpReverted
  <2> QED
    BY <2>1, <2>2, <2>3, <2>4
<1> QED
  BY <1>3, <1>4, <1>5, <1>6, ControlStill

\* The EntryPoint's steps together.
LEMMA SponsorStep ==
  ASSUME IInv, Sponsor
  PROVE  IInv'
BY ValidateStep, RunStep, PostOpStep, RevertStep DEF Sponsor

----------------------------------------------------------------------------
(* Controllers *)

\* A controller change spends every attestation of the tenant by moving its
\* nonce past them, and leaves the other tenants' alone.
LEMMA AssignSpends ==
  ASSUME TypeOK, NoncesReached, NEW t \in Tenant,
         NEW c \in Account \cup {NoAccount}, NEW at \in Nat,
         AssignController(t, c, at), UNCHANGED issued
  PROVE  /\ NoncesReached' /\ spent' \subseteq issued'
         /\ controllerOf' \in [Tenant -> Account \cup {NoAccount}]
         /\ controllerNonce' \in [Tenant -> Nat]
         /\ controllerActiveAt' \in [Tenant -> Nat]
<1>1. /\ controllerOf' \in [Tenant -> Account \cup {NoAccount}]
      /\ controllerNonce' \in [Tenant -> Nat]
      /\ controllerActiveAt' \in [Tenant -> Nat]
  BY DEF TypeOK, ControlTypes, AssignController
<1>2. spent' \subseteq issued'
  BY DEF TypeOK, ControlTypes, AssignController
<1>3. \A a \in issued : a.tenant \in Tenant /\ a.nonce \in Nat
  BY DEF TypeOK, ControlTypes, Assignment
<1>4. \A u \in Tenant :
        controllerNonce'[u] = IF u = t THEN controllerNonce[u] + 1 ELSE controllerNonce[u]
  BY DEF TypeOK, ControlTypes, AssignController
<1>5. \A u \in Tenant : controllerNonce[u] \in Nat
  BY DEF TypeOK, ControlTypes
<1>6. \A a \in issued' : a.nonce =< controllerNonce'[a.tenant]
  BY <1>3, <1>4, <1>5 DEF NoncesReached
<1>7. ASSUME NEW a \in spent'
      PROVE  a.nonce < controllerNonce'[a.tenant]
  <2>1. a \in issued
    BY <1>2
  <2>2. CASE a.tenant = t
    BY <1>3, <1>4, <1>5, <2>1, <2>2 DEF NoncesReached
  <2>3. CASE a.tenant # t
    <3>1. a \in spent
      BY <2>3 DEF AssignController
    <3> QED
      BY <1>3, <1>4, <1>5, <2>1, <2>3, <3>1 DEF NoncesReached
  <2> QED
    BY <2>2, <2>3
<1> QED
  BY <1>1, <1>2, <1>6, <1>7 DEF NoncesReached

\* setController keeps the invariant: it voids what was signed before.
LEMMA SetControllerStep ==
  ASSUME IInv, NEW t \in Tenant, NEW c \in Account \cup {NoAccount},
         SetController(t, c)
  PROVE  IInv'
<1> USE DEF IInv, SetController
<1>1. /\ NoncesReached' /\ spent' \subseteq issued'
      /\ controllerOf' \in [Tenant -> Account \cup {NoAccount}]
      /\ controllerNonce' \in [Tenant -> Nat]
      /\ controllerActiveAt' \in [Tenant -> Nat]
  BY AssignSpends
<1>2. TypeOK'
  <2>1. ControlTypes'
    BY <1>1 DEF TypeOK, ControlTypes, signerVars, ownerVars
  <2>2. MoneyTypes'
    BY CallingTypes DEF TypeOK, MoneyTypes, contractVars, leakVars
  <2> QED BY <2>1, <2>2 DEF TypeOK
<1>3. NoReplay' /\ CountersAgree'
  BY DEF NoReplay, CountersAgree, contractVars, signerVars
<1>4. ActivationFollowsClaim'
  BY DEF ActivationFollowsClaim, AssignController, TypeOK, ControlTypes
<1>5. SolventButForLeaks' /\ EventsExplainBalances'
  BY CallingHolds, MoneyStill
<1> QED
  BY <1>1, <1>2, <1>3, <1>4, <1>5

\* transferController keeps it: the waiting time goes with the control.
LEMMA TransferControllerStep ==
  ASSUME IInv, NEW caller \in Account, NEW t \in Tenant, NEW c \in Account,
         TransferController(caller, t, c)
  PROVE  IInv'
<1> USE DEF IInv, TransferController
<1>1. /\ NoncesReached' /\ spent' \subseteq issued'
      /\ controllerOf' \in [Tenant -> Account \cup {NoAccount}]
      /\ controllerNonce' \in [Tenant -> Nat]
      /\ controllerActiveAt' \in [Tenant -> Nat]
  <2>1. controllerActiveAt[t] \in Nat
    BY DEF TypeOK, ControlTypes
  <2> QED
    BY <2>1, AssignSpends
<1>2. TypeOK'
  <2>1. ControlTypes'
    BY <1>1 DEF TypeOK, ControlTypes, signerVars, ownerVars
  <2>2. MoneyTypes'
    BY CallingTypes DEF TypeOK, MoneyTypes, contractVars, leakVars
  <2> QED BY <2>1, <2>2 DEF TypeOK
<1>3. NoReplay' /\ CountersAgree'
  BY DEF NoReplay, CountersAgree, contractVars, signerVars
<1>4. ActivationFollowsClaim'
  BY DEF ActivationFollowsClaim, AssignController, TypeOK, ControlTypes
<1>5. SolventButForLeaks' /\ EventsExplainBalances'
  BY CallingHolds, MoneyStill
<1> QED
  BY <1>1, <1>2, <1>3, <1>4, <1>5

\* A valid attestation is not spent, because spent ones have a lower nonce.
LEMMA ClaimStep ==
  ASSUME IInv, NEW a \in issued, ClaimController(a)
  PROVE  IInv'
<1> USE DEF IInv, ClaimController
<1>1. a.tenant \in Tenant /\ a.controller \in Account /\ a.nonce \in Nat
  BY DEF TypeOK, ControlTypes, Assignment
<1>2. /\ NoncesReached' /\ spent' \subseteq issued'
      /\ controllerOf' \in [Tenant -> Account \cup {NoAccount}]
      /\ controllerNonce' \in [Tenant -> Nat]
      /\ controllerActiveAt' \in [Tenant -> Nat]
  <2>1. now + ClaimDelay \in Nat
    BY DEF TypeOK, ControlTypes
  <2> QED
    BY <1>1, <2>1, AssignSpends
<1>3. a \notin spent
  BY <1>1 DEF NoncesReached, ValidAssignment
<1>4. NoReplay' /\ CountersAgree'
  BY <1>3 DEF NoReplay, CountersAgree, contractVars, signerVars
<1>5. TypeOK'
  <2>1. claimedAt' \in [Tenant -> Nat \cup {Never}]
    BY <1>1 DEF TypeOK, ControlTypes
  <2>2. ControlTypes'
    BY <1>2, <1>3, <2>1 DEF TypeOK, ControlTypes, signerVars, ownerVars
  <2>3. MoneyTypes'
    BY CallingTypes DEF TypeOK, MoneyTypes, contractVars, leakVars
  <2> QED BY <2>2, <2>3 DEF TypeOK
<1>6. ActivationFollowsClaim'
  BY <1>1 DEF ActivationFollowsClaim, AssignController, TypeOK, ControlTypes
<1>7. SolventButForLeaks' /\ EventsExplainBalances'
  BY CallingHolds, MoneyStill
<1> QED
  BY <1>2, <1>4, <1>5, <1>6, <1>7

\* The backend signs an attestation for the nonce the chain has reached.
LEMMA IssueStep ==
  ASSUME IInv, NEW t \in Tenant, NEW c \in Account, NEW s \in Signer,
         IssueControllerAssignment(t, c, s)
  PROVE  IInv'
<1> USE DEF IInv, IssueControllerAssignment
<1> DEFINE new == [tenant |-> t, controller |-> c, nonce |-> controllerNonce[t],
                   deadline |-> now + AssignmentTtl, signer |-> s]
<1>1. new \in Assignment /\ issued' = issued \cup {new}
  BY DEF TypeOK, ControlTypes, Assignment
<1>2. NoncesReached'
  <2>1. /\ spent' = spent /\ controllerNonce' = controllerNonce
        /\ controllerNonce[t] \in Nat
    BY DEF claimVars, controllerVars, TypeOK, ControlTypes
  <2> QED
    BY <1>1, <2>1 DEF NoncesReached
<1>3. TypeOK'
  <2>1. ControlTypes'
    BY <1>1 DEF TypeOK, ControlTypes, signerVars, ownerVars, controllerVars, claimVars
  <2>2. MoneyTypes'
    BY DEF TypeOK, MoneyTypes, contractVars, leakVars
  <2> QED BY <2>1, <2>2 DEF TypeOK
<1>4. NoReplay' /\ CountersAgree' /\ ActivationFollowsClaim'
  BY DEF NoReplay, CountersAgree, ActivationFollowsClaim, contractVars,
     signerVars, claimVars, controllerVars
<1>5. \A u \in Tenant : Held(u)' = Held(u) /\ Lost(u)' = Lost(u)
  BY DEF Held, Lost, Amounts
<1>6. SolventButForLeaks' /\ EventsExplainBalances'
  BY <1>5, MoneyStill
<1> QED
  BY <1>2, <1>3, <1>4, <1>6

\* The controllers' steps together.
LEMMA ControlStep ==
  ASSUME IInv, Control
  PROVE  IInv'
BY SetControllerStep, TransferControllerStep, IssueStep DEF Control

----------------------------------------------------------------------------
(* Administration and time *)

\* Signers, the pause flag and the owner.
LEMMA AdministerStep ==
  ASSUME IInv, Administer
  PROVE  IInv'
<1> USE DEF IInv
<1>1. /\ Calling
      /\ UNCHANGED <<contractVars, controllerVars, claimVars, leakVars, deposit,
                     executing, now, issued, ledger, controllerTook>>
  BY DEF Administer, AddSigner, RemoveSigner, SetPaused, TransferOwnership,
     AcceptOwnership, RenounceOwnership, ChangeOwner
<1>2. /\ isSigner' \subseteq Signer /\ signerCount' \in Nat
      /\ signerCount' = Cardinality(isSigner')
  <2>1. IsFiniteSet(isSigner) /\ isSigner \subseteq Signer
    BY FS_Subset DEF TypeOK, ControlTypes
  <2>2. ASSUME NEW s \in Signer, AddSigner(s)
        PROVE  /\ isSigner' \subseteq Signer /\ signerCount' \in Nat
               /\ signerCount' = Cardinality(isSigner')
    <3>1. s \notin isSigner
      BY <2>2 DEF AddSigner
    <3>2. Cardinality(isSigner \cup {s}) = Cardinality(isSigner) + 1
      BY <2>1, <3>1, FS_AddElement
    <3> QED
      BY <2>1, <2>2, <3>2 DEF AddSigner, TypeOK, ControlTypes, CountersAgree
  <2>3. ASSUME NEW s \in Signer, RemoveSigner(s)
        PROVE  /\ isSigner' \subseteq Signer /\ signerCount' \in Nat
               /\ signerCount' = Cardinality(isSigner')
    <3>1. IsFiniteSet(isSigner \ {s}) /\ Cardinality(isSigner \ {s}) = Cardinality(isSigner) - 1
      BY <2>1, <2>3, FS_RemoveElement DEF RemoveSigner
    <3>2. Cardinality(isSigner \ {s}) \in Nat
      BY <3>1, FS_CardinalityType
    <3> QED
      BY <2>1, <2>3, <3>1, <3>2 DEF RemoveSigner, CountersAgree
  <2>4. CASE UNCHANGED signerVars
    BY <2>4 DEF signerVars, TypeOK, ControlTypes, CountersAgree
  <2> QED
    BY <2>2, <2>3, <2>4 DEF Administer, SetPaused, TransferOwnership,
       AcceptOwnership, RenounceOwnership, ChangeOwner
<1>3. /\ paused' \in BOOLEAN
      /\ owner' \in Account \cup {NoAccount}
      /\ pendingOwner' \in Account \cup {NoAccount}
  BY DEF Administer, AddSigner, RemoveSigner, SetPaused, TransferOwnership,
     AcceptOwnership, RenounceOwnership, ChangeOwner, TypeOK, ControlTypes, ownerVars
<1>4. TypeOK'
  <2>1. ControlTypes'
    BY <1>1, <1>2, <1>3 DEF TypeOK, ControlTypes, controllerVars, claimVars
  <2>2. MoneyTypes'
    BY <1>1, CallingTypes DEF TypeOK, MoneyTypes, contractVars, leakVars
  <2> QED BY <2>1, <2>2 DEF TypeOK
<1>5. CountersAgree'
  BY <1>1, <1>2 DEF CountersAgree, contractVars
<1>6. NoncesReached' /\ NoReplay' /\ ActivationFollowsClaim'
  BY <1>1, ControlStill
<1>7. SolventButForLeaks' /\ EventsExplainBalances'
  BY <1>1, CallingHolds, MoneyStill
<1> QED
  BY <1>4, <1>5, <1>6, <1>7

\* The clock.
LEMMA TickStep ==
  ASSUME IInv, Tick \/ UNCHANGED vars
  PROVE  IInv'
<1> USE DEF IInv
<1>1. /\ UNCHANGED <<contractVars, signerVars, controllerVars, ownerVars,
                     claimVars, leakVars, deposit, opStatus, executing, issued,
                     ledger, controllerTook>>
      /\ now' \in Nat
  BY DEF Tick, vars, TypeOK, ControlTypes
<1>2. \A u \in Tenant : Held(u)' = Held(u) /\ Lost(u)' = Lost(u)
  BY <1>1 DEF Held, Lost, Amounts
<1>3. TypeOK'
  BY <1>1 DEF TypeOK, MoneyTypes, ControlTypes, contractVars, signerVars,
     controllerVars, ownerVars, claimVars, leakVars
<1>4. CountersAgree'
  BY <1>1 DEF CountersAgree, contractVars, signerVars
<1> QED
  BY <1>1, <1>2, <1>3, <1>4, MoneyStill, ControlStill

----------------------------------------------------------------------------
(* Theorems *)

\* The invariant is inductive.
LEMMA NextIInv == IInv /\ [Next]_vars => IInv'
<1> SUFFICES ASSUME IInv, [Next]_vars PROVE IInv'
  OBVIOUS
<1> QED
  BY FundStep, SponsorStep, ControlStep, ClaimStep, AdministerStep, TickStep
     DEF Next

\* The inductive invariant holds in every state of the contract and its bundles.
THEOREM Invariance == Spec => []IInv
BY InitIInv, NextIInv, PTL DEF Spec

\* Every variable keeps its type and no unchecked subtraction of the contract
\* wraps, whatever is deposited, sponsored and withdrawn.
THEOREM TypeCorrect == Spec => []TypeOK
<1>1. IInv => TypeOK
  BY DEF IInv
<1> QED
  BY <1>1, Invariance, PTL

\* totalTenantBalance is the sum of the balances, signerCount the number of
\* authorised signers.
THEOREM CountersAgreeAlways == Spec => []CountersAgree
<1>1. IInv => CountersAgree
  BY DEF IInv
<1> QED
  BY <1>1, Invariance, PTL

\* The owner's withdrawTo and the EntryPoint's settlement beyond postOp's
\* charge are the only ways the tenants can be owed more than the deposit.
THEOREM Solvency == Spec => []SolventButForLeaks
<1>1. IInv => SolventButForLeaks
  BY DEF IInv
<1> QED
  BY <1>1, Invariance, PTL

\* Every tenant's balance is explained by that tenant's own events.
THEOREM Isolation == Spec => []EventsExplainBalances
<1>1. IInv => EventsExplainBalances
  BY DEF IInv
<1> QED
  BY <1>1, Invariance, PTL

\* No attestation is accepted after its tenant's controller has changed.
THEOREM AttestationsAreSingleUse == Spec => []NoReplay
<1>1. IInv => NoReplay
  BY DEF IInv
<1> QED
  BY <1>1, Invariance, PTL

\* A controller whose line began with a claim cannot withdraw early.
THEOREM ClaimsWait == Spec => ClaimedControllerWaits
<1>1. IInv /\ [Next]_vars =>
        [\A t \in Tenant :
           controllerTook'[t] # controllerTook[t] /\ claimedAt[t] # Never
              => now >= claimedAt[t] + ClaimDelay]_vars
  <2> SUFFICES ASSUME IInv, Next, NEW t \in Tenant,
                      controllerTook'[t] # controllerTook[t], claimedAt[t] # Never
               PROVE  now >= claimedAt[t] + ClaimDelay
    OBVIOUS
  <2>1. PICK c \in Account, u \in Tenant, a \in Amount : WithdrawFor(c, u, a)
    <3>1. Sponsor => UNCHANGED controllerTook
      <4>1. ASSUME NEW o \in Op, NEW exec, NEW post,
                   \/ ValidatePaymasterUserOp(o) \/ RunOp(o)
                   \/ PostOp(o, exec, post) \/ PostOpReverted(o, exec, post)
            PROVE  UNCHANGED controllerTook
        BY <4>1 DEF ValidatePaymasterUserOp, RunOp, PostOp, PostOpReverted
      <4> QED BY <4>1 DEF Sponsor
    <3>2. Control => UNCHANGED controllerTook
      BY DEF Control, SetController, TransferController, IssueControllerAssignment
    <3>3. Administer => UNCHANGED controllerTook
      BY DEF Administer, AddSigner, RemoveSigner, SetPaused, TransferOwnership,
         AcceptOwnership, RenounceOwnership, ChangeOwner
    <3>4. Tick \/ (\E a \in issued : ClaimController(a)) => UNCHANGED controllerTook
      BY DEF Tick, ClaimController
    <3>5. Fund
      BY <3>1, <3>2, <3>3, <3>4 DEF Next
    <3> QED
      BY <3>5 DEF Fund, DepositFor, DepositUntenanted, OwnerWithdrawTo
  <2>2. u = t /\ now >= controllerActiveAt[t]
    BY <2>1 DEF WithdrawFor, MayWithdraw, IInv, TypeOK, MoneyTypes
  <2> QED
    BY <2>2 DEF IInv, ActivationFollowsClaim
<1> QED
  BY <1>1, Invariance, PTL DEF Spec, ClaimedControllerWaits

\* The sums are natural numbers after a step as well.
LEMMA TypeKept ==
  ASSUME NEW t \in Tenant
  PROVE  Held(t)' \in Nat /\ Lost(t)' \in Nat
<1>1. \A S : \A o \in Op : Amounts(t, S)'[o] \in Nat
  BY OpFields DEF Amounts
<1>2. /\ Held(t)' = SumOver(Amounts(t, Holding)', Op)
      /\ Lost(t)' = SumOver(Amounts(t, {"reverted"})', Op)
  BY DEF Held, Lost
<1> QED
  BY <1>1, <1>2, SumNat

----------------------------------------------------------------------------
(* The contract implements the tenants' accounts *)

\* What the accounts see of a tenant.
Gone(t) == ledger[t].withdrawn + ledger[t].charged + Lost(t)

\* The numbers the accounts are made of, before a step.
LEMMA AccountNumbers ==
  ASSUME IInv, NEW t \in Tenant
  PROVE  /\ balances[t] \in Nat /\ Held(t) \in Nat /\ Lost(t) \in Nat
         /\ ledger[t].withdrawn \in Nat /\ ledger[t].charged \in Nat
         /\ Gone(t) \in Nat
<1>1. Held(t) \in Nat /\ Lost(t) \in Nat
  BY HeldIsNat DEF IInv
<1> QED
  BY <1>1 DEF IInv, TypeOK, MoneyTypes, Gone

\* A step that leaves every tenant's numbers alone is a stutter.
LEMMA Stutter ==
  ASSUME UNCHANGED <<balances, ledger>>,
         \A u \in Tenant : Held(u)' = Held(u) /\ Lost(u)' = Lost(u)
  PROVE  UNCHANGED Accounts!vars
BY DEF Accounts!vars

\* A step of one account is a step of the accounts.
LEMMA OneAccount ==
  ASSUME NEW t \in Tenant,
         \A u \in Tenant \ {t} : /\ balances'[u] = balances[u]
                                /\ Held(u)' = Held(u)
                                /\ Gone(u)' = Gone(u),
         \/ /\ balances'[t] > balances[t]
            /\ Held(t)' = Held(t) /\ Gone(t)' = Gone(t)
         \/ /\ balances'[t] \in 0..balances[t]
            /\ Gone(t)' = Gone(t) + (balances[t] - balances'[t])
            /\ Held(t)' = Held(t)
         \/ /\ balances'[t] \in 0..balances[t]
            /\ Held(t)' = Held(t) + (balances[t] - balances'[t])
            /\ Gone(t)' = Gone(t)
         \/ /\ Held(t)' \in 0..Held(t)
            /\ balances'[t] \in balances[t]..(balances[t] + (Held(t) - Held(t)'))
            /\ Gone(t)' = Gone(t) + (Held(t) - Held(t)') - (balances'[t] - balances[t])
  PROVE  Accounts!Next
<1>1. Accounts!Only(t)
  BY DEF Accounts!Only, Gone
<1>2. \/ Accounts!Deposit(t) \/ Accounts!Withdraw(t)
      \/ Accounts!Hold(t) \/ Accounts!Settle(t)
  BY DEF Accounts!Deposit, Accounts!Withdraw, Accounts!Hold, Accounts!Settle, Gone
<1> QED
  BY <1>1, <1>2 DEF Accounts!Next

\* Deposits and withdrawals for a tenant touch its account only; those for
\* nobody touch none.
LEMMA FundImplements ==
  ASSUME IInv, Fund
  PROVE  Accounts!Next \/ UNCHANGED Accounts!vars
<1>1. ASSUME Calling
      PROVE  \A u \in Tenant : Held(u)' = Held(u) /\ Lost(u)' = Lost(u)
  BY <1>1, CallingHolds DEF IInv
<1>2. ASSUME NEW t \in Tenant, NEW a \in Amount, DepositFor(t, a)
      PROVE  Accounts!Next
  <2>1. a \in Nat \ {0}
    BY ConstantsAssumption
  <2>2. \A u \in Tenant : Held(u)' = Held(u) /\ Gone(u)' = Gone(u)
    <3> SUFFICES ASSUME NEW u \in Tenant
                 PROVE  Held(u)' = Held(u) /\ Gone(u)' = Gone(u)
      OBVIOUS
    <3>1. /\ ledger'[u].withdrawn = ledger[u].withdrawn
          /\ ledger'[u].charged = ledger[u].charged
      BY <1>2 DEF DepositFor, IInv, TypeOK, MoneyTypes
    <3> QED
      BY <1>1, <1>2, <3>1 DEF DepositFor, Gone
  <2>3. /\ balances'[t] > balances[t]
        /\ \A u \in Tenant \ {t} : balances'[u] = balances[u]
    BY <1>2, <2>1 DEF DepositFor, Credit, IInv, TypeOK, MoneyTypes
  <2> QED
    BY <2>2, <2>3, OneAccount
<1>3. ASSUME NEW c \in Account, NEW t \in Tenant, NEW a \in Amount,
             WithdrawFor(c, t, a)
      PROVE  Accounts!Next
  <2>1. a \in Nat
    BY ConstantsAssumption
  <2>2. \A u \in Tenant : /\ Held(u)' = Held(u)
                          /\ Gone(u)' = Gone(u) + (IF u = t THEN a ELSE 0)
    <3> SUFFICES ASSUME NEW u \in Tenant
                 PROVE  /\ Held(u)' = Held(u)
                        /\ Gone(u)' = Gone(u) + (IF u = t THEN a ELSE 0)
      OBVIOUS
    <3>1. /\ ledger'[u].withdrawn = ledger[u].withdrawn + (IF u = t THEN a ELSE 0)
          /\ ledger'[u].charged = ledger[u].charged
      BY <1>3, <2>1 DEF WithdrawFor, IInv, TypeOK, MoneyTypes
    <3>2. Held(u)' = Held(u) /\ Lost(u)' = Lost(u)
      BY <1>1, <1>3 DEF WithdrawFor
    <3>3. /\ ledger[u].withdrawn \in Nat /\ ledger[u].charged \in Nat
          /\ Lost(u) \in Nat
      BY AccountNumbers
    <3> QED
      BY <2>1, <3>1, <3>2, <3>3 DEF Gone
  <2>3. /\ a =< balances[t] /\ balances'[t] = balances[t] - a
        /\ \A u \in Tenant \ {t} : balances'[u] = balances[u]
    BY <1>3, <2>1 DEF WithdrawFor, Covers, Debit, IInv, TypeOK, MoneyTypes
  <2>4. balances[t] \in Nat /\ \A u \in Tenant : Gone(u) \in Nat
    BY AccountNumbers
  <2>5. /\ balances'[t] \in 0..balances[t]
        /\ Gone(t)' = Gone(t) + (balances[t] - balances'[t])
        /\ \A u \in Tenant \ {t} : Gone(u)' = Gone(u)
    BY <2>1, <2>2, <2>3, <2>4
  <2> QED
    BY <2>2, <2>3, <2>5, OneAccount
<1>4. ASSUME NEW a \in Amount, DepositUntenanted(a) \/ OwnerWithdrawTo(a)
      PROVE  UNCHANGED Accounts!vars
  <2>1. Calling /\ UNCHANGED <<balances, ledger>>
    BY <1>4 DEF DepositUntenanted, OwnerWithdrawTo, contractVars
  <2> QED
    BY <1>1, <2>1, Stutter
<1> QED
  BY <1>2, <1>3, <1>4 DEF Fund

\* A validation holds the reservation in its tenant's account, and both ends
\* of an operation settle it there.
LEMMA SponsorImplements ==
  ASSUME IInv, Sponsor
  PROVE  Accounts!Next \/ UNCHANGED Accounts!vars
<1>1. ASSUME NEW o \in Op, ValidatePaymasterUserOp(o)
      PROVE  Accounts!Next
  <2> DEFINE t == userOp[o].tenant
             m == userOp[o].maxCost
  <2>1. t \in Tenant /\ m \in Nat
    BY OpFields
  <2>2. /\ m =< balances[t] /\ balances'[t] = balances[t] - m
        /\ \A u \in Tenant \ {t} : balances'[u] = balances[u]
        /\ ledger' = ledger
    BY <1>1, <2>1 DEF ValidatePaymasterUserOp, Covers, Debit, IInv, TypeOK, MoneyTypes
  <2>3. /\ opStatus' = [opStatus EXCEPT ![o] = "validated"]
        /\ "validated" \in Status /\ opStatus[o] = "signed" /\ TypeOK
    BY <1>1 DEF ValidatePaymasterUserOp, Status, IInv
  <2>4. \A u \in Tenant : /\ Held(u)' = Held(u) + (IF u = t THEN m ELSE 0)
                          /\ Lost(u)' = Lost(u)
    <3> SUFFICES ASSUME NEW u \in Tenant
                 PROVE  /\ Held(u)' = Held(u) + (IF u = t THEN m ELSE 0)
                        /\ Lost(u)' = Lost(u)
      OBVIOUS
    <3>1. /\ Part(u, opStatus[o], o, Holding) = 0
          /\ Part(u, opStatus[o], o, {"reverted"}) = 0
          /\ Part(u, "validated", o, Holding) = IF u = t THEN m ELSE 0
          /\ Part(u, "validated", o, {"reverted"}) = 0
      BY <2>3 DEF Part, Holding
    <3>2. Held(u) \in Nat /\ Lost(u) \in Nat
      BY AccountNumbers
    <3>3. /\ Held(u)' = Held(u) - Part(u, opStatus[o], o, Holding)
                         + Part(u, "validated", o, Holding)
          /\ Lost(u)' = Lost(u) - Part(u, opStatus[o], o, {"reverted"})
                         + Part(u, "validated", o, {"reverted"})
      BY <2>3, StatusChange
    <3> HIDE DEF m, t
    <3> QED
      BY <2>1, <3>1, <3>2, <3>3
  <2>5. balances[t] \in Nat /\ Held(t) \in Nat
    BY <2>1, AccountNumbers
  <2>6. \A u \in Tenant : Gone(u)' = Gone(u)
    BY <2>2, <2>4 DEF Gone
  <2> HIDE DEF m, t
  <2>7. /\ balances'[t] \in 0..balances[t]
        /\ Held(t)' = Held(t) + (balances[t] - balances'[t])
        /\ \A u \in Tenant \ {t} : Held(u)' = Held(u)
    <3>1. \A u \in Tenant : Held(u) \in Nat
      BY AccountNumbers
    <3> QED
      BY <2>1, <2>2, <2>4, <2>5, <3>1
  <2> QED
    BY <2>1, <2>2, <2>6, <2>7, OneAccount
<1>2. ASSUME NEW o \in Op, RunOp(o)
      PROVE  UNCHANGED Accounts!vars
  <2>1. /\ UNCHANGED <<balances, ledger>> /\ TypeOK
        /\ opStatus' = [opStatus EXCEPT ![o] = "running"]
        /\ "running" \in Status /\ opStatus[o] = "validated"
    BY <1>2 DEF RunOp, contractVars, IInv, Status
  <2>2. ASSUME NEW u \in Tenant
        PROVE  Held(u)' = Held(u) /\ Lost(u)' = Lost(u)
    <3>1. /\ Part(u, opStatus[o], o, Holding) = Part(u, "running", o, Holding)
          /\ Part(u, opStatus[o], o, {"reverted"}) = 0
          /\ Part(u, "running", o, {"reverted"}) = 0
          /\ Part(u, "running", o, Holding) \in Nat
      BY <2>1, OpFields DEF Part, Holding
    <3>2. Held(u) \in Nat /\ Lost(u) \in Nat
      BY AccountNumbers
    <3>3. /\ Held(u)' = Held(u) - Part(u, opStatus[o], o, Holding)
                         + Part(u, "running", o, Holding)
          /\ Lost(u)' = Lost(u) - Part(u, opStatus[o], o, {"reverted"})
                         + Part(u, "running", o, {"reverted"})
      BY <2>1, StatusChange
    <3> QED
      BY <3>1, <3>2, <3>3
  <2> QED
    BY <2>1, <2>2, Stutter
<1>3. ASSUME NEW o \in Op, NEW exec \in 0..userOp[o].callLimit,
             NEW post \in 0..userOp[o].postOpLimit, PostOp(o, exec, post)
      PROVE  Accounts!Next
  <2> DEFINE t == userOp[o].tenant
             m == userOp[o].maxCost
             charge == Charge(o, userOp[o].preCost + exec)
  <2>1. t \in Tenant /\ m \in Nat /\ charge \in Nat /\ charge =< m
    BY OpFields, Costs
  <2>2. /\ balances'[t] = balances[t] + (m - charge)
        /\ \A u \in Tenant \ {t} : balances'[u] = balances[u]
    BY <1>3, <2>1 DEF PostOp, Refund, Credit, IInv, TypeOK, MoneyTypes
  <2>3. \A u \in Tenant : /\ Held(u)' = Held(u) - (IF u = t THEN m ELSE 0)
                          /\ Lost(u)' = Lost(u)
    <3>1. opStatus[o] \in Holding /\ Settle(o, "charged")
      BY <1>3 DEF PostOp, Holding
    <3>2. \A u \in Tenant : Lost(u) \in Nat
      BY AccountNumbers
    <3> QED
      BY <3>1, <3>2, SettleHolds
  <2>4. \A u \in Tenant :
          /\ ledger'[u].withdrawn = ledger[u].withdrawn
          /\ ledger'[u].charged = ledger[u].charged + (IF u = t THEN charge ELSE 0)
    BY <1>3, <2>1 DEF PostOp, IInv, TypeOK, MoneyTypes
  <2>5. \A u \in Tenant :
          /\ balances[u] \in Nat /\ Held(u) \in Nat /\ Lost(u) \in Nat
          /\ ledger[u].withdrawn \in Nat /\ ledger[u].charged \in Nat
          /\ Gone(u) \in Nat
    BY AccountNumbers
  <2>6. m =< Held(t)
    <3>1. Held(t)' \in Nat
      BY <2>1, TypeKept
    <3> HIDE DEF m, t
    <3> QED
      BY <2>1, <2>3, <2>5, <3>1
  <2> HIDE DEF m, t, charge
  <2>7. \A u \in Tenant : Gone(u)' = Gone(u) + (IF u = t THEN charge ELSE 0)
    BY <2>1, <2>3, <2>4, <2>5 DEF Gone
  <2>8. /\ Held(t)' \in 0..Held(t)
        /\ balances'[t] \in balances[t]..(balances[t] + (Held(t) - Held(t)'))
        /\ Gone(t)' = Gone(t) + (Held(t) - Held(t)') - (balances'[t] - balances[t])
        /\ \A u \in Tenant \ {t} : Held(u)' = Held(u) /\ Gone(u)' = Gone(u)
    BY <2>1, <2>2, <2>3, <2>5, <2>6, <2>7
  <2> QED
    BY <2>1, <2>2, <2>8, OneAccount
<1>4. ASSUME NEW o \in Op, NEW exec \in 0..userOp[o].callLimit,
             NEW post \in 0..userOp[o].postOpLimit, PostOpReverted(o, exec, post)
      PROVE  Accounts!Next
  <2> DEFINE t == userOp[o].tenant
             m == userOp[o].maxCost
  <2>1. t \in Tenant /\ m \in Nat
    BY OpFields
  <2>2. UNCHANGED <<balances, ledger>>
    BY <1>4 DEF PostOpReverted, contractVars
  <2>3. \A u \in Tenant : /\ Held(u)' = Held(u) - (IF u = t THEN m ELSE 0)
                          /\ Lost(u)' = Lost(u) + (IF u = t THEN m ELSE 0)
    <3>1. opStatus[o] \in Holding /\ Settle(o, "reverted")
      BY <1>4 DEF PostOpReverted, Holding
    <3> QED
      BY <3>1, SettleHolds
  <2>4. \A u \in Tenant :
          /\ balances[u] \in Nat /\ Held(u) \in Nat /\ Lost(u) \in Nat
          /\ ledger[u].withdrawn \in Nat /\ ledger[u].charged \in Nat
          /\ Gone(u) \in Nat
    BY AccountNumbers
  <2>5. m =< Held(t)
    <3>1. Held(t)' \in Nat
      BY <2>1, TypeKept
    <3> HIDE DEF m, t
    <3> QED
      BY <2>1, <2>3, <2>4, <3>1
  <2> HIDE DEF m, t
  <2>6. \A u \in Tenant : Gone(u)' = Gone(u) + (IF u = t THEN m ELSE 0)
    BY <2>1, <2>2, <2>3, <2>4 DEF Gone
  <2>7. /\ Held(t)' \in 0..Held(t)
        /\ balances'[t] \in balances[t]..(balances[t] + (Held(t) - Held(t)'))
        /\ Gone(t)' = Gone(t) + (Held(t) - Held(t)') - (balances'[t] - balances[t])
        /\ \A u \in Tenant \ {t} : /\ Held(u)' = Held(u) /\ Gone(u)' = Gone(u)
                                   /\ balances'[u] = balances[u]
    BY <2>1, <2>2, <2>3, <2>4, <2>5, <2>6
  <2> QED
    BY <2>1, <2>7, OneAccount
<1> QED
  BY <1>1, <1>2, <1>3, <1>4 DEF Sponsor

\* Everything else calls the contract without touching a balance.
LEMMA OthersImplement ==
  ASSUME IInv, \/ Control \/ Administer \/ Tick \/ UNCHANGED vars
               \/ \E a \in issued : ClaimController(a)
  PROVE  UNCHANGED Accounts!vars
<1>1. UNCHANGED <<balances, ledger>> /\ (Calling \/ UNCHANGED opStatus)
  BY DEF Control, Administer, Tick, vars, contractVars, SetController,
     IssueControllerAssignment, TransferController, ClaimController, AddSigner,
     RemoveSigner, SetPaused, TransferOwnership, AcceptOwnership,
     RenounceOwnership, ChangeOwner
<1>2. ASSUME NEW u \in Tenant
      PROVE  Held(u)' = Held(u) /\ Lost(u)' = Lost(u)
  <2>1. CASE Calling
    BY <2>1, CallingHolds DEF IInv
  <2>2. CASE UNCHANGED opStatus
    BY <2>2 DEF Held, Lost, Amounts
  <2> QED
    BY <1>1, <2>1, <2>2
<1> QED
  BY <1>1, <1>2, Stutter

\* Whatever operations, callers and bundles do, each tenant's account behaves
\* as if it were alone with its wei.
THEOREM AccountsImplemented == Spec => ImplementsTenantAccounts
<1>1. Init => Accounts!Init
  <2> SUFFICES ASSUME Init PROVE Accounts!Init
    OBVIOUS
  <2>1. ASSUME NEW t \in Tenant
        PROVE  Held(t) = 0 /\ Lost(t) = 0
    <3>1. /\ \A o \in Op : Amounts(t, Holding)[o] = 0
          /\ \A o \in Op : Amounts(t, {"reverted"})[o] = 0
      BY DEF Init, Amounts, Holding
    <3> QED
      BY <3>1, SumZero, ConstantsAssumption DEF Held, Lost
  <2> QED
    BY <2>1 DEF Init, Accounts!Init
<1>2. IInv /\ [Next]_vars => [Accounts!Next]_(Accounts!vars)
  BY FundImplements, SponsorImplements, OthersImplement DEF Next
<1> QED
  BY <1>1, <1>2, Invariance, PTL DEF Spec, Accounts!Spec, ImplementsTenantAccounts
=============================================================================
