----------------------------- MODULE PaymentClaims -----------------------------
(* Self-service payment, from the Pay button to the credited period: the page    *)
(* sends a transfer and claims it until it is credited, the backend verifies the *)
(* transfer in two reads of a chain that grows and reorganises, and records it   *)
(* under the unique index.  Customers also claim by hand and the operator        *)
(* records.  What recording does to the subscription is in Subscription.         *)
EXTENDS Naturals, FiniteSets

CONSTANTS
  Transfers,
  NoTransfer,
  reference,       \* the tenant whose key a transfer carries
  valueOf,         \* what a transfer pays
  PageTenant,      \* the tenant that uses the page
  Tenants,
  priceOf,         \* of each plan
  Claims,          \* the claims by hand
  Confirmations,
  MaxPeriods,      \* maxPeriodsPerPayment
  MaxAttempts,     \* CLAIM_ATTEMPTS
  ReorgDepth,      \* how many blocks a reorganisation replaces at most
  MaxLag,          \* how many blocks pass between the two reads of a claim
  OperatorWrites,  \* how the operator writes a hash down: "lower", "mixed"
  MaxHead          \* bound: blocks

ASSUME PaymentAssumption ==
  /\ valueOf \in [Transfers -> Nat]
  /\ \A plan \in DOMAIN priceOf : priceOf[plan] \in Nat \ {0}
  /\ {Confirmations, MaxPeriods, MaxAttempts, ReorgDepth, MaxLag} \subseteq Nat
  /\ "page" \notin Claims

VARIABLES
  head,            \* the chain's height
  block,           \* the block a transfer is in, 0 when in none
  page,            \* the page's state
  claim,           \* where each claim is
  rows,            \* subscription_payments
  operated         \* history: the transfers the operator has recorded

claimVars == <<head, block, page, claim, rows, operated>>

PageClaim == "page"
AllClaims == Claims \cup {PageClaim}
NoClaim == [is |-> "none", of |-> PageTenant, transfer |-> NoTransfer, plan |-> "none", block |-> 0, headThen |-> 0]
NewPage == [phase |-> "idle", transfer |-> NoTransfer, attempt |-> 0]

Smaller(a, b) == IF a < b THEN a ELSE b

ClaimInit ==
  /\ head = 1
  /\ block = [t \in Transfers |-> 0]
  /\ page = NewPage
  /\ claim = [c \in AllClaims |-> NoClaim]
  /\ rows = {}
  /\ operated = {}

-------------------------------------------------------------------------------
(* The chain                                                                    *)

LagsBehind(c) == claim[c].is = "transferRead" /\ head - claim[c].headThen >= MaxLag
Grows == head < MaxHead /\ ~\E c \in AllClaims : LagsBehind(c)

(* Transfers of the other wallets may be mined at any time, the page's once it  *)
(* has been sent.                                                               *)
Minable(t) == block[t] = 0 /\ (reference[t] = PageTenant => page.transfer = t)

NewBlock ==
  /\ Grows
  /\ head' = head + 1
  /\ \E mined \in SUBSET {t \in Transfers : Minable(t)} :
       block' = [t \in Transfers |-> IF t \in mined THEN head + 1 ELSE block[t]]
  /\ UNCHANGED <<page, claim, rows, operated>>

(* The last blocks are replaced, by one more; what was in them is in any of the *)
(* new ones or in none.                                                         *)
Reorg ==
  /\ Grows
  /\ head' = head + 1
  /\ \E depth \in 1..ReorgDepth :
       /\ depth < head
       /\ LET orphaned == {t \in Transfers : block[t] > head - depth}
          IN  \E again \in [orphaned -> {0} \cup (head - depth + 1)..(head + 1)] :
                block' = [t \in Transfers |-> IF t \in orphaned THEN again[t] ELSE block[t]]
  /\ UNCHANGED <<page, claim, rows, operated>>

-------------------------------------------------------------------------------
(* The backend: claimSubscriptionPayment and PaymentVerifier.verify             *)

Goes(c, to) == claim' = [claim EXCEPT ![c].is = to]

Claim(c, tenant, t, plan) ==
  /\ claim[c].is = "none"
  /\ claim' = [claim EXCEPT ![c] = [NoClaim EXCEPT !.is = "asked", !.of = tenant, !.transfer = t, !.plan = plan]]
  /\ UNCHANGED <<head, block, rows, operated>>

Refuses(c) ==
  \/ reference[claim[c].transfer] # claim[c].of
  \/ valueOf[claim[c].transfer] < priceOf[claim[c].plan]

(* getNativeTransfer, and the checks of what it found.                          *)
ReadTransfer(c) ==
  /\ claim[c].is = "asked"
  /\ LET found == block[claim[c].transfer]
     IN  IF found = 0 THEN Goes(c, "notYet")
         ELSE IF Refuses(c) THEN Goes(c, "refused")
         ELSE claim' = [claim EXCEPT ![c] = [@ EXCEPT !.is = "transferRead", !.block = found, !.headThen = head]]
  /\ UNCHANGED <<head, block, page, rows, operated>>

(* (Slip: counts the block after the transfer's as its second confirmation.)    *)
DepthPlusOne(c) == head + 2 - claim[c].block

Depth(c) == head + 1 - claim[c].block

(* The head is read after the transfer.                                         *)
ReadHead(c) ==
  /\ claim[c].is = "transferRead"
  /\ Goes(c, IF Depth(c) >= Confirmations THEN "verified" ELSE "notYet")
  /\ UNCHANGED <<head, block, page, rows, operated>>

(* Overpayment buys whole periods, up to the cap.                               *)
Periods(c) == Smaller(valueOf[claim[c].transfer] \div priceOf[claim[c].plan], MaxPeriods)

(* subscription_payments_tx_idx is over the hash as it is written.              *)
Free(row) == \A other \in rows : <<other.transfer, other.written>> # <<row.transfer, row.written>>

Record(c) ==
  /\ claim[c].is = "verified"
  /\ LET row == [transfer |-> claim[c].transfer, written |-> "lower", tenant |-> claim[c].of,
                 plan |-> claim[c].plan, periods |-> Periods(c)]
     IN  IF Free(row)
         THEN rows' = rows \cup {row} /\ Goes(c, "credited")
         ELSE Goes(c, "duplicate") /\ UNCHANGED rows
  /\ UNCHANGED <<head, block, page, operated>>

(* The read fails, a deadline passes, or the replica dies.                      *)
ClaimFails(c) ==
  /\ claim[c].is \in {"asked", "transferRead", "verified"}
  /\ Goes(c, "failed")
  /\ UNCHANGED <<head, block, page, rows, operated>>

Answers == {"notYet", "refused", "credited", "duplicate", "failed"}

(* recordSubscriptionPayment, for a transfer the operator has seen for long.    *)
OperatorRecords(t) ==
  /\ t \notin operated
  /\ block[t] # 0 /\ head - block[t] >= Confirmations
  /\ operated' = operated \cup {t}
  /\ \E written \in OperatorWrites :
       LET row == [transfer |-> t, written |-> written, tenant |-> reference[t], plan |-> "recorded", periods |-> 1]
       IN  rows' = IF Free(row) THEN rows \cup {row} ELSE rows
  /\ UNCHANGED <<head, block, page, claim>>

-------------------------------------------------------------------------------
(* The page                                                                     *)

(* The wallet signs and sends, when it is on the chain that was chosen.         *)
Pay(t) ==
  /\ page.phase = "idle"
  /\ reference[t] = PageTenant /\ block[t] = 0
  /\ page' = [NewPage EXCEPT !.phase = "mining", !.transfer = t]
  /\ UNCHANGED <<head, block, claim, rows, operated>>

MiningTimesOut ==
  /\ page.phase = "mining"
  /\ page' = [page EXCEPT !.phase = "error"]
  /\ UNCHANGED <<head, block, claim, rows, operated>>

(* The receipt, or the wait between two attempts, is over.                      *)
PageClaims ==
  /\ \/ page.phase = "mining" /\ block[page.transfer] # 0
     \/ page.phase = "waiting"
  /\ page' = [page EXCEPT !.phase = "claiming", !.attempt = Smaller(@ + 1, MaxAttempts)]
  /\ \E plan \in {p \in DOMAIN priceOf : priceOf[p] <= valueOf[page.transfer]} :
       Claim(PageClaim, PageTenant, page.transfer, plan)

(* (Slip: a refusal that asks for patience is never the last.)                  *)
AlwaysAgain == TRUE

Again == page.attempt < MaxAttempts

(* claimUntilCredited; the answer is lost when the page's own server waited too *)
(* long for it.                                                                 *)
PageAnswered ==
  /\ page.phase = "claiming"
  /\ \E answer \in ({claim[PageClaim].is} \cap Answers) \cup {"lost"} :
       page' = [page EXCEPT !.phase =
                  CASE answer = "credited" -> "done"
                    [] answer = "duplicate" -> "already"
                    [] answer = "notYet" /\ Again -> "waiting"
                    [] OTHER -> "error"]
  /\ claim' = [claim EXCEPT ![PageClaim] =
                 IF @.is \in Answers THEN NoClaim ELSE @]
  /\ UNCHANGED <<head, block, rows, operated>>

(* By hand, with any hash that is on chain and any plan.                        *)
ClaimByHand(c, tenant, t, plan) ==
  /\ block[t] # 0
  /\ Claim(c, tenant, t, plan)
  /\ UNCHANGED page

ClaimNext ==
  \/ NewBlock \/ Reorg
  \/ \E c \in AllClaims : ReadTransfer(c) \/ ReadHead(c) \/ Record(c) \/ ClaimFails(c)
  \/ \E c \in Claims, tenant \in Tenants, t \in Transfers, plan \in DOMAIN priceOf :
       ClaimByHand(c, tenant, t, plan)
  \/ \E t \in Transfers : OperatorRecords(t) \/ Pay(t)
  \/ MiningTimesOut \/ PageClaims \/ PageAnswered

(* The backend answers, timers fire and answers arrive.                         *)
PageBackend == ReadTransfer(PageClaim) \/ ReadHead(PageClaim) \/ Record(PageClaim)
PageTimers == MiningTimesOut \/ PageClaims \/ PageAnswered
ClaimFairness == WF_claimVars(PageBackend) /\ WF_claimVars(PageTimers)

ClaimSpec == ClaimInit /\ [][ClaimNext]_claimVars /\ ClaimFairness

-------------------------------------------------------------------------------
(* Time is only granted for a transfer that stays on chain, to the account it   *)
(* names, once, and no more of it than the transfer paid for: the depth that is *)
(* asked for outlasts reorganisations and the blocks that pass between the two   *)
(* reads (PaymentVerifier.verify).                                              *)
CreditedIsPaid ==
  \A row \in rows :
    /\ block[row.transfer] # 0
    /\ row.tenant = reference[row.transfer]
    /\ row.plan # "recorded" => row.periods * priceOf[row.plan] <= valueOf[row.transfer]

(* What the page tells the customer is so: time was credited to this account.   *)
PageSaysCredited ==
  page.phase \in {"done", "already"} =>
    \E row \in rows : row.transfer = page.transfer /\ row.tenant = PageTenant

(* What the migration says of the unique index: one on-chain transfer buys one  *)
(* period, ever.                                                                *)
OneTransferOneRow ==
  \A a, b \in rows : a.transfer = b.transfer => a = b

(* The page comes to an end of its attempts, whatever the chain and the backend *)
(* answer (claimUntilCredited).                                                 *)
PageSettles == page.phase = "mining" ~> page.phase \in {"done", "already", "error"}

(* What is credited was paid, and what the page says of it is so.               *)
CreditsAreRight == CreditedIsPaid /\ PageSaysCredited
===============================================================================
