---------------------------- MODULE MCContracts ----------------------------
(***************************************************************************)
(* The contracts' life, their deployment and what the backend signs for     *)
(* them: small instances of TenantPaymaster, Deployment and Attestation in  *)
(* one run.  `part` says whose steps a behaviour takes; the others keep an  *)
(* initial state.                                                           *)
(***************************************************************************)
EXTENDS MCTenantPaymaster, Deployment, Attestation

CONSTANTS k1, k2, u1, u2

VARIABLE part

----------------------------------------------------------------------------
\* Two contracts at one address on two chains, the first of them administered;
\* two operations that differ in a factory and a gas limit.
Contracts ==
    {[chain |-> 1, address |-> "a", kind |-> "tenant"],
     [chain |-> 2, address |-> "a", kind |-> "verifying"]}
Administered == {p \in Contracts : p.chain = 1}
ClientOp(f, d, v) ==
    [sender |-> "s", nonce |-> 0, callData |-> d,
     factory |-> f, factoryData |-> IF f = Nobody THEN Nobody ELSE "c",
     verificationGasLimit |-> v, callGasLimit |-> 1, preVerificationGas |-> v,
     maxPriorityFeePerGas |-> 1, maxFeePerGas |-> 2]
ClientOps == {ClientOp(Nobody, "x", 1), ClientOp("f", "x", 2)}
WireLimits == {<<2, 1>>, <<1, 2>>}

Symmetry == Permutations({u1, u2})

----------------------------------------------------------------------------
\* The kinds are configured as they are deployed, or each as the other.
ContractsInit ==
    /\ part \in {"paymaster", "deployment", "attestation"}
    /\ Init /\ DeployInit /\ AttestInit
    /\ kmsKey = k1
    /\ (\A p \in Contracts : configKind[p] = p.kind) \/ \A p \in Contracts : configKind[p] # p.kind
    /\ part # "paymaster" => owner = a1
    /\ part # "deployment" => env = CHOOSE e \in Envs : TRUE
    /\ part # "attestation" => \A p \in Contracts : configKind[p] = p.kind

ContractsNext ==
    /\ UNCHANGED part
    /\ \/ part = "paymaster" /\ Next /\ UNCHANGED <<deployVars, attestVars>>
       \/ part = "deployment" /\ DeployNext /\ UNCHANGED <<vars, attestVars>>
       \/ part = "attestation" /\ AttestNext /\ UNCHANGED <<vars, deployVars>>

ContractsSpec == ContractsInit /\ [][ContractsNext]_<<part, vars, deployVars, attestVars>>
=============================================================================
