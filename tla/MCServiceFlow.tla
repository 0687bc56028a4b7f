--------------------------- MODULE MCServiceFlow ---------------------------
(***************************************************************************)
(* What must come to an end, from the dashboard to the chain: small         *)
(* instances of the sponsorship flow and of the components around it, with  *)
(* the fairness of each.  `part` says whose steps a behaviour takes; the     *)
(* others keep an initial state.                                            *)
(***************************************************************************)
EXTENDS MCSponsorship, ChainAccess, SponsoredSend, SignIn, RpcRouter, Funding

VARIABLES
    part,
    published, reach, cached, age, fetch, waiting, rotations, outages

keyVars == <<published, reach, cached, age, fetch, waiting, rotations, outages>>

----------------------------------------------------------------------------
\* SignIn: one person with two organisations to choose from, one with none yet.
MCFounded == "t1" :> {"alice"} @@ "t2" :> {"alice"}

\* RpcRouter: a batch that both lanes serve and one that queues for the trace lane.
MCBodies == <<<<[id |-> 1, lane |-> "default"], [id |-> 2, lane |-> "trace"]>>, <<[id |-> 1, lane |-> "trace"]>>>>

ProviderKeySet == INSTANCE ProviderKeys WITH
    Kids <- {"a", "b"}, MinAge <- 1, TtlAge <- 2, Attempts <- 2, MaxRotations <- 2, MaxOutages <- 2

----------------------------------------------------------------------------
Asker(i) == IF i = 1 THEN r1 ELSE r2

FlowInit ==
    /\ part \in {"sponsor", "chain", "send", "keys", "sign-in", "router", "page"}
    /\ Init /\ ChainInit /\ SendInit /\ ProviderKeySet!Init
    /\ SignInInit /\ RouterInit /\ PageInit
    /\ part # "sponsor" => policy = {1, 2}
    /\ part # "chain" => funds = [c \in Chain |-> 0]
    /\ part # "keys" => published = {"a"}

\* A bound: the second chain's node never serves a balance; the wallet can be on
\* that chain, and send there.
SecondUnread == fundingCache[2] = {}

FlowNext ==
    /\ UNCHANGED part
    /\ IF part = "sponsor" THEN SponsorNext ELSE UNCHANGED sponsorVars
    /\ IF part = "chain" THEN ChainNext ELSE UNCHANGED chainVars
    /\ IF part = "send" THEN SendNext ELSE UNCHANGED sendVars
    /\ IF part = "keys" THEN ProviderKeySet!Next ELSE UNCHANGED keyVars
    /\ IF part = "sign-in" THEN SignInNext ELSE UNCHANGED signInVars
    /\ IF part = "router" THEN RouterNext ELSE UNCHANGED routerVars
    /\ IF part = "page" THEN PageNext /\ SecondUnread' ELSE UNCHANGED pageVars

\* The fairness of each component, while it is the one that steps.
FlowFairness ==
    /\ \A r \in Request : WF_sponsorVars(part = "sponsor" /\ Serve(r))
    /\ WF_chainVars(part = "chain" /\ AskHealth(1))
    /\ WF_chainVars(part = "chain" /\ TimesOut(1))
    /\ WF_chainVars(part = "chain" /\ ChainTick)
    /\ WF_sendVars(part = "send" /\ Timeout)
    /\ WF_sendVars(part = "send" /\ Continue)
    /\ WF_keyVars(part = "keys" /\ \E kid \in {"a", "b"} : ProviderKeySet!Verify(kid))
    /\ WF_keyVars(part = "keys" /\ ProviderKeySet!Answer)
    /\ WF_keyVars(part = "keys" /\ ProviderKeySet!AttemptFails)
    /\ WF_keyVars(part = "keys" /\ ProviderKeySet!Install)
    /\ WF_keyVars(part = "keys" /\ ProviderKeySet!Tick)
    /\ WF_routerVars(part = "router" /\ Refill)
    /\ \A r \in {1, 2} :
         /\ WF_routerVars(part = "router" /\ Respond(r))
         /\ \A l \in Lanes :
              /\ WF_routerVars(part = "router" /\ (LaneAnswered(r, l) \/ Refused(r, l)))
              /\ WF_routerVars(part = "router" /\ TryAgain(r, l))
    /\ \A k \in {1, 2} :
         WF_pageVars(part = "page" /\ (Receipt(k) \/ GivesUp(k)))

FlowSpec ==
    /\ FlowInit
    /\ [][FlowNext]_<<part, sponsorVars, chainVars, sendVars, keyVars, signInVars, routerVars, pageVars>>
    /\ FlowFairness

----------------------------------------------------------------------------
\* Whoever waits: a request at the service, a caller of the SDK (2: who has signed
\* what it sends), a bundler at the router, a form of the funding page.
Begun(i) ==
    \/ part = "sponsor" /\ phase[Asker(i)] = "received"
    \/ part = "send" /\ stage \in IF i = 1 THEN HttpCalls ELSE {"submit", "poll"}
    \/ part = "router" /\ lane[i]["trace"] # "idle"
    \/ part = "page" /\ submission[i].phase = "mining"

Ended(i) ==
    \/ part = "sponsor" /\ phase[Asker(i)] \in {"issued", "denied", "failed", "dead"}
    \/ part = "send" /\ stage \in SendEnded
    \/ part = "router" /\ answer[i] # NotYet
    \/ part = "page" /\ submission[i].phase # "mining"

\* What nothing in the code ends: a call of Redis or of the KMS on a connection
\* that stays silent, a response that stalls or is cut off after its headers, and
\* the customer's wallet.
Stuck(i) ==
    \/ part = "sponsor" /\ phase[Asker(i)] = "hung"
    \/ part = "send" /\ (wire = "stalled" \/ (i = 1 /\ stage = "signing"))
    \/ part = "router" /\ \E l \in Lanes : lane[i][l] = "hung"

\* Every wait ends, whatever fails, unless it is one of those that nothing ends,
\* which a failure elsewhere never is: the properties Answered of Sponsorship,
\* EndsUnlessStalled of SponsoredSend, EveryRequestAnswered of RpcRouter and
\* MiningEnds of Funding, as one.
EveryWaitEnds == \A i \in {1, 2} : Begun(i) ~> Ended(i) \/ Stuck(i)

\* What failed comes back: a chain is served again once its endpoint is up for
\* good (ChainAccess), and the key cache becomes what a reachable provider
\* publishes (ProviderKeys).
OutagesPass ==
    /\ part = "chain" => RecoversWhenUp
    /\ part = "keys" => ProviderKeySet!CacheConverges
=============================================================================
