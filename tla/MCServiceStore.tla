--------------------------- MODULE MCServiceStore --------------------------
(***************************************************************************)
(* What is sold and what is used: small instances of Subscription and of    *)
(* Sponsorship in one run.  `part` says whose steps a behaviour takes; the   *)
(* other keeps its initial state, of which its invariants hold.             *)
(***************************************************************************)
EXTENDS MCSponsorship, MCSubscription

VARIABLE part

StoreInit == part \in {"billing", "sponsor"} /\ SubscriptionInit /\ Init

StoreNext ==
    /\ UNCHANGED part
    /\ \/ part = "billing" /\ SubscriptionNext /\ UNCHANGED sponsorVars
       \/ part = "sponsor" /\ SponsorNext /\ UNCHANGED subscriptionVars

StoreSpec == StoreInit /\ [][StoreNext]_<<part, subscriptionVars, sponsorVars>>
=============================================================================
