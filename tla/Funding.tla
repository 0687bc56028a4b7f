------------------------------ MODULE Funding ------------------------------
(***************************************************************************)
(* The funding page of the customer's dashboard: what it shows of the      *)
(* balances on chain (lib/account.ts, AdminService.listFunding over the    *)
(* balance cache) and the transactions its forms send from the customer's  *)
(* own wallet (sendToPaymaster).                                           *)
(*                                                                         *)
(* All forms of the page share one wallet, which is on one chain at a      *)
(* time, and one resource, which any of them reloads; each keeps its own   *)
(* progress.  Requests for sponsorships read balances through the same     *)
(* cache.  Left out: amounts as text, the wording of wallet errors, and    *)
(* what the contract checks of a call (TenantPaymaster): a call that lands *)
(* succeeds or reverts.                                                    *)
(***************************************************************************)
EXTENDS Naturals, FiniteSets

CONSTANTS
    Chains,    \* chains with a tenant paymaster: one row of the page each
    MaxLoads,  \* bound: loads of the resource, the first included
    Runs       \* bound: submissions of the forms, 1..n

ASSUME PageAssumption == MaxLoads \in Nat \ {0}

VARIABLES
    chain,         \* chain[c]: [balance, controlled] of the tenant there
    fundingCache,  \* fundingCache[c]: the balance the backend's cache has, if any
    load,          \* load[n]: the page's n-th request
    currentLoad,   \* the load whose effect is mounted
    page,          \* what the page renders, and from which load
    submission,    \* submission[k]: the k-th submission of a form
    wallet,        \* the chain the wallet is on
    sent           \* transactions the wallet sent

pageVars == <<chain, fundingCache, load, currentLoad, page, submission, wallet, sent>>

Loads == 1..MaxLoads
Nothing == "nothing"

Unsent == [at |-> "unsent", got |-> [c \in Chains |-> {}]]
LoadOver == [Unsent EXCEPT !.at = "over"]
Unused == [row |-> 0, form |-> Nothing, call |-> Nothing, phase |-> "unused", mounted |-> FALSE]
ContractCalls == {"depositFor", "claimController", "withdrawFor"}

\* The component's busy: a form that was unmounted does not know of its run.
FormBusy(c, f) ==
    \E k \in Runs : /\ submission[k].row = c /\ submission[k].form = f /\ submission[k].mounted
                    /\ submission[k].phase \in {"asking", "switching", "checking", "sending", "mining"}

(***************************************************************************)
(* The backend (its cache in time: TenantBalance)                          *)
(***************************************************************************)

\* listFunding: a balance from the cache or, read now, from the chain, which
\* fills it; a chain that does not answer leaves its own row without one.
ListFunding(n) ==
    /\ load[n].at = "sent"
    /\ \E ok \in SUBSET {c \in Chains : fundingCache[c] = {}} :
          LET read == [c \in Chains |-> IF c \in ok THEN {chain[c].balance} ELSE fundingCache[c]]
          IN fundingCache' = read /\ load' = [load EXCEPT ![n] = [at |-> "answered", got |-> read]]
    /\ UNCHANGED <<chain, currentLoad, page, submission, wallet, sent>>

\* A request for a sponsorship reads the balance; the entry expires, or is
\* dropped once a sponsorship is signed.
OthersRead(c) ==
    /\ fundingCache[c] = {}
    /\ fundingCache' = [fundingCache EXCEPT ![c] = {chain[c].balance}]
    /\ UNCHANGED <<chain, load, currentLoad, page, submission, wallet, sent>>

Drop(c) ==
    /\ fundingCache[c] # {}
    /\ fundingCache' = [fundingCache EXCEPT ![c] = {}]
    /\ UNCHANGED <<chain, load, currentLoad, page, submission, wallet, sent>>

(***************************************************************************)
(* The page's resource                                                     *)
(***************************************************************************)

\* reload(): the next attempt; the cleanup of the effect cancels the last.
ReloadPage ==
    IF currentLoad < MaxLoads
    THEN currentLoad' = currentLoad + 1 /\ load' = [load EXCEPT ![currentLoad + 1].at = "sent"]
    ELSE UNCHANGED <<currentLoad, load>>

\* (Slip: whichever load arrives is rendered.)
AnyCommits(n) == TRUE

\* cancelled, in the effect's closure.
Commits(n) == n = currentLoad

LoadArrives(n) ==
    /\ load[n].at = "answered"
    /\ load' = [load EXCEPT ![n] = LoadOver]
    /\ page' = IF Commits(n) THEN [rows |-> load[n].got, error |-> FALSE, from |-> n] ELSE page
    /\ UNCHANGED <<chain, fundingCache, currentLoad, submission, wallet, sent>>

\* The request fails: the page shows the error instead of its rows, and the
\* forms are unmounted.  What they were doing goes on behind them.
LoadFails(n) ==
    /\ load[n].at \in {"sent", "answered"}
    /\ load' = [load EXCEPT ![n] = LoadOver]
    /\ page' = IF Commits(n) THEN [page EXCEPT !.error = TRUE, !.from = n] ELSE page
    /\ submission' = IF Commits(n) THEN [k \in Runs |-> [submission[k] EXCEPT !.mounted = FALSE]] ELSE submission
    /\ UNCHANGED <<chain, fundingCache, currentLoad, wallet, sent>>

Retry ==
    /\ page.error /\ currentLoad = page.from
    /\ currentLoad < MaxLoads
    /\ ReloadPage
    /\ UNCHANGED <<chain, fundingCache, page, submission, wallet, sent>>

(***************************************************************************)
(* The forms and the wallet                                                *)
(***************************************************************************)

Rendered(c) == ~page.error /\ page.from > 0

\* Deposit.submit; Withdraw.claim and .withdraw, which the row as it was
\* loaded chooses between.  Submitting again replaces what the form said.
Submit(k, c, call) ==
    LET f == IF call = "depositFor" THEN "deposit" ELSE "withdraw"
    IN /\ submission[k].phase = "unused" /\ \A j \in Runs : j < k => submission[j].phase # "unused"
       /\ Rendered(c) /\ ~FormBusy(c, f)
       /\ submission' = [j \in Runs |->
              IF j = k THEN [row |-> c, form |-> f, call |-> call, mounted |-> TRUE,
                             phase |-> IF call = "claimController" THEN "asking" ELSE "switching"]
              ELSE [submission[j] EXCEPT !.mounted = @ /\ ~(submission[j].row = c /\ submission[j].form = f)]]
       /\ UNCHANGED <<chain, fundingCache, load, currentLoad, page, wallet, sent>>

Proceeds(k, from, to) == submission[k].phase = from /\ submission' = [submission EXCEPT ![k].phase = to]

\* issueControllerAssignment: refused when the balance has a controller.
Attested(k) ==
    /\ Proceeds(k, "asking", IF chain[submission[k].row].controlled THEN "error" ELSE "switching")
    /\ UNCHANGED <<chain, fundingCache, load, currentLoad, page, wallet, sent>>

\* wallet.switchChain: applied, returned from without having been applied,
\* or declined.
Switch(k) ==
    /\ \/ Proceeds(k, "switching", "checking") /\ wallet' \in {wallet, submission[k].row}
       \/ Proceeds(k, "switching", "error") /\ wallet' = wallet
    /\ UNCHANGED <<chain, fundingCache, load, currentLoad, page, sent>>

\* eth_chainId.
CheckChain(k) ==
    /\ Proceeds(k, "checking", IF wallet = submission[k].row THEN "sending" ELSE "error")
    /\ UNCHANGED <<chain, fundingCache, load, currentLoad, page, wallet, sent>>

\* eth_sendTransaction, once the customer has confirmed it: it goes out on
\* the chain the wallet is on by then.
SendTransaction(k) ==
    /\ Proceeds(k, "sending", "mining")
    /\ sent' = sent \cup {[run |-> k, row |-> submission[k].row, on |-> wallet,
                           call |-> submission[k].call, status |-> "pending"]}
    /\ UNCHANGED <<chain, fundingCache, load, currentLoad, page, wallet>>

Declined(k) ==
    /\ Proceeds(k, "sending", "error")
    /\ UNCHANGED <<chain, fundingCache, load, currentLoad, page, wallet, sent>>

\* The chain includes a transaction: the tenant's state there changes if the
\* call was made to the paymaster of that chain.
Include(t) ==
    /\ t.status = "pending"
    /\ \E ok \in BOOLEAN :
          /\ sent' = (sent \ {t}) \cup {[t EXCEPT !.status = IF ok THEN "success" ELSE "reverted"]}
          /\ chain' = IF ok /\ t.on = t.row
                      THEN [chain EXCEPT ![t.on] =
                               CASE t.call = "depositFor" -> [@ EXCEPT !.balance = @ + 1]
                                 [] t.call = "claimController" -> [@ EXCEPT !.controlled = TRUE]
                                 [] OTHER -> [@ EXCEPT !.balance = IF @ = 0 THEN 0 ELSE @ - 1]]
                      ELSE chain
    /\ UNCHANGED <<fundingCache, load, currentLoad, page, submission, wallet>>

\* waitForTransactionReceipt asks through the wallet, that is on the chain
\* the wallet is on.
Receipt(k) ==
    \E t \in sent :
        /\ t.run = k /\ t.status # "pending" /\ wallet = t.on
        /\ Proceeds(k, "mining", IF t.status = "success" THEN "done" ELSE "error")
        /\ IF t.status = "success" THEN ReloadPage ELSE UNCHANGED <<currentLoad, load>>
        /\ UNCHANGED <<chain, fundingCache, page, wallet, sent>>

\* Its timeout of 180 s, while the receipt cannot be had.
GivesUp(k) ==
    /\ Proceeds(k, "mining", "error")
    /\ UNCHANGED <<chain, fundingCache, load, currentLoad, page, wallet, sent>>

(***************************************************************************)
(* Behaviour                                                               *)
(***************************************************************************)

PageInit ==
    /\ chain = [c \in Chains |-> [balance |-> 0, controlled |-> FALSE]]
    /\ fundingCache = [c \in Chains |-> {}]
    /\ load = [n \in Loads |-> IF n = 1 THEN [Unsent EXCEPT !.at = "sent"] ELSE Unsent]
    /\ currentLoad = 1
    /\ page = [rows |-> [c \in Chains |-> {}], error |-> FALSE, from |-> 0]
    /\ submission = [k \in Runs |-> Unused]
    /\ wallet \in Chains
    /\ sent = {}

PageBackend == (\E n \in Loads : ListFunding(n)) \/ (\E c \in Chains : OthersRead(c) \/ Drop(c))
Page == Retry \/ \E n \in Loads : LoadArrives(n) \/ LoadFails(n)
Wallet ==
    \/ \E k \in Runs :
          \/ \E c \in Chains, call \in ContractCalls : Submit(k, c, call)
          \/ Attested(k) \/ Switch(k) \/ CheckChain(k) \/ SendTransaction(k) \/ Declined(k) \/ Receipt(k) \/ GivesUp(k)
    \/ \E t \in sent : Include(t)

PageNext == PageBackend \/ Page \/ Wallet

\* The wait for a receipt ends one way or the other; nothing else is owed: a
\* wallet may leave its prompt open for ever.
PageFairness == \A k \in Runs : WF_pageVars(Receipt(k) \/ GivesUp(k))

PageSpec == PageInit /\ [][PageNext]_pageVars /\ PageFairness

(***************************************************************************)
(* Properties                                                              *)
(***************************************************************************)

\* A load that was superseded never replaces what a later one showed, in
\* whatever order the answers arrive.
NeverBack == [][page'.from >= page.from]_pageVars

\* No form waits for ever for a transaction that is not mined, was dropped,
\* or cannot be seen from the chain the wallet is on by now.
MiningEnds == \A k \in Runs : submission[k].phase = "mining" ~> submission[k].phase # "mining"

\* What the comment on sendToPaymaster promises: nothing is signed for a row
\* on another chain than the row's.
SentOnItsChain == \A t \in sent : t.on = t.row

\* What the deposit form says when it is done and the page has reloaded: the
\* balance above is updated.
UpdatedWhenDone ==
    \A k \in Runs :
        /\ submission[k].mounted /\ submission[k].call = "depositFor" /\ submission[k].phase = "done"
        /\ page.from = currentLoad /\ currentLoad > 1 /\ ~page.error
        => \A balance \in page.rows[submission[k].row] : balance > 0
=============================================================================
