---------------------------- MODULE Attestation ----------------------------
(***************************************************************************)
(* A sponsorship as it is signed by the backend and honoured by a          *)
(* paymaster contract: signature/ on one side, VerifyingPaymaster and      *)
(* TenantPaymaster on the other.  A digest is what is hashed, its words in *)
(* their order (two digests are equal when their preimages are), a         *)
(* signature names the key and the digest it was made over, and            *)
(* paymasterAndData is the sequence of its fields.  Each side builds the   *)
(* digest by itself, in the order and with the domain that its own code    *)
(* has; they agree only if every field, its order and its domain agree.    *)
(*                                                                         *)
(* Left out: the tenant's balance (TenantPaymaster), the policy that let   *)
(* the request through (Sponsorship), and the account's own signature.     *)
(***************************************************************************)
EXTENDS Naturals, Sequences, FiniteSets

CONSTANTS
    Paymasters,  \* records [chain, address, kind]: the deployed contracts
    Governed,    \* bound: the contracts whose owner acts
    Ops,         \* user operations as a client sends them
    Tenants,     \* on-chain tenant keys
    Keys,        \* keys the KMS may hold for the signer
    Replicas,    \* processes of the backend
    GasLimits,   \* pairs <<verification, postOp>> a wire operation may carry
    Validity,    \* options.validitySeconds
    MaxClock,    \* bound: the clock
    MaxAttested  \* bound: attestations

VARIABLES
    configKind,  \* configKind[p]: chain.config.paymasterKind, set by hand beside the deploy
    keysOf,   \* keysOf[p]: _isSigner
    pausedAt, \* pausedAt[p]: paused
    kmsKey,   \* the key behind SPONSORSHIP_SIGNER_KMS_KEY_ID
    address,  \* address[r]: what the replica derived when it started
    clock,    \* seconds
    attested, \* attestations the backend returned
    landed    \* sponsored operations the EntryPoint executed

attestVars == <<configKind, keysOf, pausedAt, kmsKey, address, clock, attested, landed>>

Kinds == {"verifying", "tenant"}
Nobody == "nobody"

\* An operation names a factory and its data together or neither.
WholeOp(op) ==
    /\ op = [sender |-> op.sender, nonce |-> op.nonce,
             factory |-> op.factory, factoryData |-> op.factoryData,
             callData |-> op.callData, verificationGasLimit |-> op.verificationGasLimit,
             callGasLimit |-> op.callGasLimit, preVerificationGas |-> op.preVerificationGas,
             maxPriorityFeePerGas |-> op.maxPriorityFeePerGas,
             maxFeePerGas |-> op.maxFeePerGas]
    /\ op.factory = Nobody => op.factoryData = Nobody

\* One contract at an address of a chain; a signature never recovers to nobody.
ASSUME AttestationAssumption ==
    /\ Nobody \notin Keys
    /\ \A p \in Paymasters : p.kind \in Kinds
    /\ \A p, q \in Paymasters : p.chain = q.chain /\ p.address = q.address => p = q
    /\ \A op \in Ops : WholeOp(op)
    /\ GasLimits \subseteq Nat \X Nat
    /\ Governed \subseteq Paymasters
    /\ Validity \in Nat \ {0}

(***************************************************************************)
(* Hashing                                                                 *)
(***************************************************************************)

\* The options of the service: the gas limits it commits to.
CommittedGas == <<2, 1>>

\* toPackedUserOperation: what the backend hashes of the client's operation.
Packed(op) ==
    [sender |-> op.sender, nonce |-> op.nonce,
     initCode |-> IF op.factory = Nobody THEN <<>> ELSE <<op.factory, op.factoryData>>,
     callData |-> op.callData,
     accountGasLimits |-> <<op.verificationGasLimit, op.callGasLimit>>,
     preVerificationGas |-> op.preVerificationGas,
     gasFees |-> <<op.maxPriorityFeePerGas, op.maxFeePerGas>>]

\* What the SDK sends to the bundler, packed by the EntryPoint's rules.
OnTheWire(op) ==
    [sender |-> op.sender, nonce |-> op.nonce,
     initCode |-> IF op.factory = Nobody THEN <<>> ELSE <<op.factory, op.factoryData>>,
     callData |-> op.callData,
     accountGasLimits |-> <<op.verificationGasLimit, op.callGasLimit>>,
     preVerificationGas |-> op.preVerificationGas,
     gasFees |-> <<op.maxPriorityFeePerGas, op.maxFeePerGas>>]

DomainName(kind) == IF kind = "tenant" THEN "TenantPaymaster" ELSE "VerifyingPaymaster"

\* sponsorshipDigest, over the layout of the configured kind: the tenant comes
\* between the fees and the window.  (Slip: it comes last.)
DigestTenantLast(kind, p, packed, gas, tenant, window) ==
    [domain |-> <<DomainName(kind), p.chain, p.address>>,
     struct |-> IF kind = "tenant"
                THEN <<packed.sender, packed.nonce, packed.initCode, packed.callData,
                       packed.accountGasLimits, gas, packed.preVerificationGas, packed.gasFees,
                       window[1], window[2], tenant>>
                ELSE <<packed.sender, packed.nonce, packed.initCode, packed.callData,
                       packed.accountGasLimits, gas, packed.preVerificationGas, packed.gasFees,
                       window[1], window[2]>>]

SponsorshipDigest(kind, p, packed, gas, tenant, window) ==
    [domain |-> <<DomainName(kind), p.chain, p.address>>,
     struct |-> IF kind = "tenant"
                THEN <<packed.sender, packed.nonce, packed.initCode, packed.callData,
                       packed.accountGasLimits, gas, packed.preVerificationGas, packed.gasFees,
                       tenant, window[1], window[2]>>
                ELSE <<packed.sender, packed.nonce, packed.initCode, packed.callData,
                       packed.accountGasLimits, gas, packed.preVerificationGas, packed.gasFees,
                       window[1], window[2]>>]

\* The prefix and the whole of paymasterAndData.
Encode(kind, p, gas, tenant, window, signature) ==
    <<p.address, gas[1], gas[2], window[1], window[2]>>
        \o (IF kind = "tenant" THEN <<tenant>> ELSE <<>>) \o <<signature>>

(***************************************************************************)
(* Signing                                                                 *)
(***************************************************************************)

\* ECDSA.tryRecover: the wrong parity bit recovers some other address, and a
\* high s recovers nobody.
Recover(digest, sig) ==
    IF sig.digest = digest /\ sig.v = sig.parity /\ ~sig.high THEN sig.key ELSE Nobody

\* What the KMS may answer: either half of the curve order, either parity.
RawSignatures(digest) ==
    [key : {kmsKey}, digest : {digest}, high : BOOLEAN, parity : {27, 28}]

\* KmsSponsorshipSigner.signDigest: reflecting s flips the parity of the point, and v is the
\* candidate that recovers the replica's own address, if there is one.
LowS(raw) ==
    [raw EXCEPT !.high = FALSE, !.parity = IF raw.high THEN 55 - raw.parity ELSE raw.parity]
WithV(raw, v) ==
    [key |-> raw.key, digest |-> raw.digest, high |-> raw.high, parity |-> raw.parity, v |-> v]

\* (Slip: v is searched for whatever key the KMS signed with.)
SignWithAnyKey(raw, own) ==
    {sig \in {WithV(LowS(raw), v) : v \in {27, 28}} : Recover(raw.digest, sig) = raw.key}

SignDigest(raw, own) ==
    {sig \in {WithV(LowS(raw), v) : v \in {27, 28}} : Recover(raw.digest, sig) = own}

(***************************************************************************)
(* The contract                                                            *)
(***************************************************************************)

SignatureAt(kind) == IF kind = "tenant" THEN 7 ELSE 6

\* parsePaymasterAndData with the offsets of this contract, and the length of
\* the tail: anything but one signature is InvalidSignatureLength.
WellFormed(p, data) == Len(data) = SignatureAt(p.kind)

\* The name the contract's constructor gives its domain.
Eip712Name(kind) ==
    CASE kind = "verifying" -> "VerifyingPaymaster" [] kind = "tenant" -> "TenantPaymaster"

\* _sponsorshipStructHash of either contract, over the bytes that are on chain.
VerifyingStruct(packed, gas, validUntil, validAfter) ==
    <<packed.sender, packed.nonce, packed.initCode, packed.callData, packed.accountGasLimits,
      gas, packed.preVerificationGas, packed.gasFees, validUntil, validAfter>>

TenantStruct(packed, gas, tenant, validUntil, validAfter) ==
    <<packed.sender, packed.nonce, packed.initCode, packed.callData, packed.accountGasLimits,
      gas, packed.preVerificationGas, packed.gasFees, tenant, validUntil, validAfter>>

\* _hashTypedDataV4: what the contract recovers the signer from.
OnChainDigest(p, packed, data) ==
    LET gas == <<data[2], data[3]>>
    IN  [domain |-> <<Eip712Name(p.kind), p.chain, p.address>>,
         struct |-> IF p.kind = "verifying" THEN VerifyingStruct(packed, gas, data[4], data[5])
                    ELSE TenantStruct(packed, gas, data[6], data[4], data[5])]

\* _validatePaymasterUserOp, and the window the EntryPoint checks: an end of
\* zero is no end.
Honours(p, packed, data) ==
    /\ ~pausedAt[p]
    /\ data[1] = p.address
    /\ WellFormed(p, data)
    /\ Recover(OnChainDigest(p, packed, data), data[Len(data)]) \in keysOf[p]
    /\ data[4] = 0 \/ clock <= data[4]
    /\ clock >= data[5]

Used(p, packed) ==
    \E l \in landed :
        /\ l.p.chain = p.chain
        /\ l.packed.sender = packed.sender /\ l.packed.nonce = packed.nonce

(***************************************************************************)
(* Behaviour                                                               *)
(***************************************************************************)

AttestInit ==
    /\ configKind \in [Paymasters -> Kinds]
    /\ kmsKey \in Keys
    /\ address = [r \in Replicas |-> kmsKey]
    /\ keysOf = [p \in Paymasters |-> {kmsKey}]
    /\ pausedAt = [p \in Paymasters |-> FALSE]
    /\ clock = 0
    /\ attested = {} /\ landed = {}

\* SponsorService.#sponsor from attest() on, for an allowed request.  The
\* window is checked before anything is signed; a signature that does not
\* recover the replica's address is an error, and nothing is returned.
Attest(r, p, op, tenant) ==
    LET kind == configKind[p]
        window == <<clock + Validity, 0>>
        digest == SponsorshipDigest(kind, p, Packed(op), CommittedGas, tenant, window)
    IN /\ Cardinality(attested) < MaxAttested
       /\ window[1] = 0 \/ window[1] > window[2]
       /\ \E raw \in RawSignatures(digest) : \E sig \in SignDigest(raw, address[r]) :
             attested' = attested \cup
                 {[p |-> p, op |-> op, tenant |-> tenant, window |-> window, signer |-> address[r],
                   data |-> Encode(kind, p, CommittedGas, tenant, window, sig)]}
       /\ UNCHANGED <<configKind, keysOf, pausedAt, kmsKey, address, clock, landed>>

\* The EntryPoint executes an operation.  What arrives is any operation with
\* any fields around a signature that was once returned: the wallet, the
\* bundler or a stale copy may have put it together.
Land(p, op, gas, tenant, window, sig) ==
    LET data == Encode(p.kind, p, gas, tenant, window, sig)
        packed == OnTheWire(op)
    IN /\ ~Used(p, packed)
       /\ Honours(p, packed, data)
       /\ landed' = landed \cup
             {[p |-> p, op |-> op, packed |-> packed, gas |-> gas, window |-> window,
               tenant |-> IF p.kind = "tenant" THEN {tenant} ELSE {}]}
       /\ UNCHANGED <<configKind, keysOf, pausedAt, kmsKey, address, clock, attested>>

\* The contract's owner.
SignerAdded(p, k) ==
    /\ k \notin keysOf[p]
    /\ keysOf' = [keysOf EXCEPT ![p] = @ \cup {k}]
    /\ UNCHANGED <<configKind, pausedAt, kmsKey, address, clock, attested, landed>>

SignerRemoved(p, k) ==
    /\ k \in keysOf[p]
    /\ keysOf' = [keysOf EXCEPT ![p] = @ \ {k}]
    /\ UNCHANGED <<configKind, pausedAt, kmsKey, address, clock, attested, landed>>

PauseSet(p, on) ==
    /\ pausedAt[p] # on
    /\ pausedAt' = [pausedAt EXCEPT ![p] = on]
    /\ UNCHANGED <<configKind, keysOf, kmsKey, address, clock, attested, landed>>

\* The operators: another key behind the alias, and a replica rolled, which
\* is when KmsSponsorshipSigner.create reads the public key.
Repoint(k) ==
    /\ kmsKey # k
    /\ kmsKey' = k
    /\ UNCHANGED <<configKind, keysOf, pausedAt, address, clock, attested, landed>>

Roll(r) ==
    /\ address[r] # kmsKey
    /\ address' = [address EXCEPT ![r] = kmsKey]
    /\ UNCHANGED <<configKind, keysOf, pausedAt, kmsKey, clock, attested, landed>>

ClockTicks ==
    /\ clock < MaxClock
    /\ clock' = clock + 1
    /\ UNCHANGED <<configKind, keysOf, pausedAt, kmsKey, address, attested, landed>>

AttestSome ==
    \E r \in Replicas, p \in Paymasters, op \in Ops, tenant \in Tenants : Attest(r, p, op, tenant)
LandSome ==
    \E p \in Paymasters, op \in Ops, gas \in GasLimits, tenant \in Tenants :
        \E window \in {a.window : a \in attested}, sig \in {a.data[Len(a.data)] : a \in attested} :
            Land(p, op, gas, tenant, window, sig)
OwnerSome ==
    \E p \in Governed :
        \/ \E k \in Keys : SignerAdded(p, k) \/ SignerRemoved(p, k)
        \/ \E on \in BOOLEAN : PauseSet(p, on)
OperatorSome == (\E k \in Keys : Repoint(k)) \/ (\E r \in Replicas : Roll(r))

AttestNext == AttestSome \/ LandSome \/ OwnerSome \/ OperatorSome \/ ClockTicks

AttestSpec == AttestInit /\ [][AttestNext]_attestVars

(***************************************************************************)
(* Properties                                                              *)
(***************************************************************************)

\* Nothing is paid for but what the backend signed: an operation that landed
\* under a sponsorship carries the operation, the gas limits, the window and
\* (where balances are per tenant) the tenant of one attestation, made for
\* this contract on this chain under the layout it was deployed with.
HonouredWasIssued ==
    \A l \in landed : \E a \in attested :
        /\ a.p = l.p /\ a.op = l.op /\ a.window = l.window
        /\ l.gas = CommittedGas
        /\ l.tenant = IF l.p.kind = "tenant" THEN {a.tenant} ELSE {}

\* What the backend returns is worth having: until it expires, an attestation
\* for a contract configured as what it is validates on that contract, as
\* long as its signer is authorised and the contract not paused.  Backend and
\* contract hash the same bytes, and the signature is in the form the
\* contract accepts, whatever form the KMS answered in.
IssuedIsHonoured ==
    \A a \in attested :
        \/ configKind[a.p] # a.p.kind \/ pausedAt[a.p] \/ a.signer \notin keysOf[a.p]
        \/ clock > a.window[1]
        \/ Honours(a.p, OnTheWire(a.op), a.data)

\* Backend and contract agree in both directions: what is honoured was issued,
\* and what was issued is honoured.
AttestationsMatch == HonouredWasIssued /\ IssuedIsHonoured

\* The drain of docs/SECURITY.md: a signer that no replica uses any more and
\* whose attestations have all expired can be removed without refusing an
\* attestation that was good before.
Drained(k) ==
    /\ \A r \in Replicas : address[r] # k
    /\ \A a \in attested : a.signer = k => clock > a.window[1]

DrainedRemovalDropsNothing ==
    [][\A p \in Paymasters, k \in Keys :
          SignerRemoved(p, k) /\ Drained(k) =>
              \A a \in attested :
                  Honours(a.p, OnTheWire(a.op), a.data) => Honours(a.p, OnTheWire(a.op), a.data)']_attestVars
=============================================================================
