----------------------------- MODULE MCReplicas -----------------------------
(***************************************************************************)
(* What the replicas of the backend do beside serving sponsorships: small   *)
(* instances of PolicyDistribution, Alerting and PaymentClaims in one run.  *)
(* `part` says whose steps a behaviour takes; the others keep their initial *)
(* state.                                                                   *)
(***************************************************************************)
EXTENDS PolicyDistribution, Alerting, PaymentClaims, TLC

CONSTANTS p1, p2, c1

VARIABLES part

----------------------------------------------------------------------------
\* A change of policies through one of two replicas.
Change == c1 :> [replica |-> p1, edits |-> TRUE]

\* A deposit that gets low or recovers, or cannot be read.
Readings == [readable : {TRUE}, low : SUBSET Low]

\* A transfer of the page and one of another tenant, either claimed by hand for
\* the tenant of the page.
References == "t1" :> "a" @@ "t2" :> "b"
Values == "t1" :> 3 @@ "t2" :> 1
Prices == "basic" :> 1 @@ "pro" :> 2

----------------------------------------------------------------------------
ReplicasInit ==
    /\ part \in {"distribution", "alerts", "claims"}
    /\ Init /\ AlertInit /\ ClaimInit
    /\ part # "alerts" => chain.low = {}

ReplicasNext ==
    /\ UNCHANGED part
    /\ \/ part = "distribution" /\ Next /\ UNCHANGED <<alertVars, claimVars>>
       \/ part = "alerts" /\ AlertNext /\ UNCHANGED <<vars, claimVars>>
       \/ part = "claims" /\ ClaimNext /\ UNCHANGED <<vars, alertVars>>

\* Each component's own fairness.
DistributionPart ==
    \A p \in Replica :
        /\ WF_vars(part = "distribution" /\ TimerFires(p))
        /\ WF_vars(part = "distribution" /\ ReloaderStep(p))
        /\ WF_vars(part = "distribution" /\ Boot(p))

AlertPart ==
    /\ WF_alertVars(part = "alerts" /\ Tick)
    /\ \A r \in Process :
        /\ WF_alertVars(part = "alerts" /\ TryAcquire(r))
        /\ WF_alertVars(part = "alerts" /\ LockReply(r))
        /\ WF_alertVars(part = "alerts" /\ ReleaseScript(r))
        /\ WF_alertVars(part = "alerts" /\ Exit(r))
        /\ WF_alertVars(part = "alerts" /\ CheckOnce(r))
        /\ WF_alertVars(part = "alerts" /\ Fire(r))
        /\ WF_alertVars(part = "alerts" /\ Resolve(r))
        /\ WF_alertVars(part = "alerts" /\ Attempt(r))

ClaimPart ==
    /\ WF_claimVars(part = "claims" /\ PageBackend)
    /\ WF_claimVars(part = "claims" /\ PageTimers)

ReplicasSpec ==
    /\ ReplicasInit /\ [][ReplicasNext]_<<part, vars, alertVars, claimVars>>
    /\ DistributionPart /\ AlertPart /\ ClaimPart

----------------------------------------------------------------------------
\* Alerting: a condition that lasts is paged and stays paged, and one that has
\* cleared is closed if nothing disturbed its delivery.
ConditionsReachThePager == LastingIsPaged /\ ClearedIsResolved
=============================================================================
