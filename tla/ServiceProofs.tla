---------------------------- MODULE ServiceProofs ----------------------------
(***************************************************************************)
(* Proofs about what a customer and a bundler meet of the service: what he *)
(* pays for (Subscription), how a replica reads its chains (ChainAccess),  *)
(* the SDK's send (SponsoredSend), the dashboard's session (SignIn) and    *)
(* its funding page (Funding), and the bundler's router (RpcRouter).       *)
(*                                                                         *)
(* Subscription is first, for any calls, transfers, checks and replicas.   *)
(* What is sold exactly and served as paid needs a row to lock: without one *)
(* two first payments read nothing and both extend from the present.  A     *)
(* transfer buys once either way.                                           *)
(***************************************************************************)
EXTENDS Subscription, ChainAccess, SponsoredSend, SignIn, RpcRouter, Funding,
        FiniteSetTheorems, TLAPS

----------------------------------------------------------------------------
(* The invariant of the payments *)

Inserted(c) == step[c] \in {"inserted", "updated"}

\* A period ends after it begins, and what inserted a payment has its transfer
\* for itself, until it commits and afterwards.
Claims ==
    /\ \A c \in Call : Open(c) => extendedTo[c] - call[c].period \in Nat
    /\ \A x \in payments : step[x.by] \in {"committed", "done"} /\ x.at =< clock
    /\ \A c \in Call : Inserted(c) =>
         /\ \A d \in Call : Inserted(d) => ~SameTransfer(c, d)
         /\ \A x \in payments : ~SameTransfer(c, x.by)
    /\ TransferBuysOnce

MoneyInv == TypeOK /\ Claims

\* A row is held from its reading to its commit, so that it does not change
\* below an open payment, and it is the end of all that was sold.
Locked ==
    /\ paidThrough \in Nat /\ InitialPaidThrough =< paidThrough
    /\ \A c \in Call : Open(c) => lock = c /\ paidThrough + call[c].period =< extendedTo[c]
    /\ \A x \in payments : x.from =< x.to /\ x.to =< paidThrough
    /\ paidThrough \in {x.to : x \in payments} \cup {InitialPaidThrough}
    /\ PeriodsDisjoint

LEMMA Fields ==
  /\ \A c \in Call : call[c].period \in Nat /\ call[c].period > 0 /\ call[c].replica \in Replica
  /\ \A c \in Call : c # NoCall
BY SubscriptionAssumption DEF CallFields

LEMMA InitMoney ==
  ASSUME SubscriptionInit
  PROVE  MoneyInv /\ (InitialPaidThrough # Unsubscribed => Locked)
<1> USE DEF SubscriptionInit
<1>1. TypeOK
  BY SubscriptionAssumption DEF TypeOK, Row, Entry, CheckState, Step, Open
<1>2. Claims
  BY DEF Claims, TransferBuysOnce, Open, Inserted
<1>3. InitialPaidThrough # Unsubscribed => Locked
  BY SubscriptionAssumption DEF Locked, PeriodsDisjoint, Open
<1> QED
  BY <1>1, <1>2, <1>3 DEF MoneyInv

----------------------------------------------------------------------------
(* The steps of a payment *)

LEMMA AskStep ==
  ASSUME MoneyInv, NEW c \in Call, AskToRecord(c)
  PROVE  MoneyInv' /\ (Locked => Locked')
<1>1. /\ step' \in [Call -> Step] /\ step[c] = "new" /\ step'[c] = "asked"
      /\ \A d \in Call : d # c => step'[d] = step[d]
      /\ UNCHANGED <<clock, paidThrough, payments, lock, extendedTo, statusVars>>
  BY DEF AskToRecord, Goto, MoneyInv, TypeOK, Step
<1>2. \A d \in Call : (Open(d) <=> Open(d)') /\ (Inserted(d) <=> Inserted(d)')
  BY <1>1 DEF Open, Inserted
<1>3. TypeOK'
  <2>1. asked' \in [Call -> Nat]
    BY DEF AskToRecord, MoneyInv, TypeOK
  <2> QED
    BY <1>1, <1>2, <2>1 DEF MoneyInv, TypeOK, statusVars
<1>4. Claims'
  <2>1. \A x \in payments : x.by \in Call
    BY DEF MoneyInv, TypeOK
  <2> QED
    BY <1>1, <1>2, <2>1 DEF MoneyInv, Claims, TransferBuysOnce, SameTransfer
<1>5. Locked => Locked'
  BY <1>1, <1>2 DEF Locked, PeriodsDisjoint
<1> QED
  BY <1>3, <1>4, <1>5 DEF MoneyInv

LEMMA ReadStep ==
  ASSUME MoneyInv, NEW c \in Call, ReadRow(c)
  PROVE  MoneyInv' /\ (Locked => Locked')
<1>1. /\ step' \in [Call -> Step] /\ step[c] = "asked" /\ step'[c] = "read"
      /\ \A d \in Call : d # c => step'[d] = step[d]
      /\ paidThrough = Unsubscribed \/ lock = NoCall
      /\ lock' = IF paidThrough = Unsubscribed THEN lock ELSE c
      /\ UNCHANGED <<clock, paidThrough, payments, statusVars>>
  BY DEF ReadRow, Goto, HoldsRow, MoneyInv, TypeOK, Step
<1>2. /\ extendedTo' \in [Call -> Nat] /\ asked' \in [Call -> Nat]
      /\ \A d \in Call : d # c => extendedTo'[d] = extendedTo[d]
      /\ extendedTo'[c] - call[c].period \in Nat
      /\ paidThrough + call[c].period =< extendedTo'[c]
  <2>1. PICK from : from = Later(asked[c], paidThrough)
    OBVIOUS
  <2>2. asked[c] \in Nat /\ paidThrough \in Int /\ call[c].period \in Nat
    BY Fields DEF MoneyInv, TypeOK, Row, Unsubscribed
  <2>3. from \in Nat /\ paidThrough =< from
    BY <2>1, <2>2 DEF Later
  <2>4. extendedTo' = [extendedTo EXCEPT ![c] = from + call[c].period]
    BY <2>1 DEF ReadRow, ExtendedFrom
  <2>5. asked' \in [Call -> Nat]
    BY DEF ReadRow, MoneyInv, TypeOK
  <2>6. extendedTo' \in [Call -> Nat] /\ extendedTo'[c] = from + call[c].period
    BY <2>2, <2>3, <2>4 DEF MoneyInv, TypeOK
  <2> QED
    BY <2>2, <2>3, <2>4, <2>5, <2>6 DEF MoneyInv, TypeOK
<1>3. \A d \in Call : /\ Open(d)' <=> (Open(d) \/ d = c)
                      /\ Inserted(d) <=> Inserted(d)'
  BY <1>1 DEF Open, Inserted
<1>4. TypeOK'
  BY <1>1, <1>2, <1>3 DEF MoneyInv, TypeOK, statusVars
<1>5. Claims'
  <2>1. \A x \in payments : x.by \in Call
    BY DEF MoneyInv, TypeOK
  <2>2. \A x \in payments : step'[x.by] \in {"committed", "done"} /\ x.at =< clock'
    BY <1>1, <2>1 DEF MoneyInv, Claims
  <2>3. \A d \in Call : Open(d)' => extendedTo'[d] - call[d].period \in Nat
    BY <1>2, <1>3 DEF MoneyInv, Claims
  <2> QED
    BY <1>1, <1>3, <2>2, <2>3 DEF MoneyInv, Claims, TransferBuysOnce, SameTransfer
<1>6. Locked => Locked'
  <2> SUFFICES ASSUME Locked PROVE Locked'
    OBVIOUS
  <2>1. paidThrough # Unsubscribed /\ lock = NoCall /\ lock' = c
    BY <1>1 DEF Locked, Unsubscribed
  <2>2. \A d \in Call : ~Open(d)
    BY <2>1, Fields DEF Locked
  <2> QED
    BY <1>1, <1>2, <1>3, <2>1, <2>2 DEF Locked, PeriodsDisjoint
<1> QED
  BY <1>4, <1>5, <1>6 DEF MoneyInv

\* A call that gives the row back, or never had it.
LEMMA GiveUpStep ==
  ASSUME MoneyInv, NEW c \in Call, step' \in [Call -> Step], asked' \in [Call -> Nat],
         extendedTo' \in [Call -> Nat], step[c] \in {"asked", "read", "inserted", "updated"},
         step'[c] \in {"duplicate", "aborted"}, lock' = Unlocked(c),
         \A d \in Call \ {c} : step'[d] = step[d] /\ extendedTo'[d] = extendedTo[d],
         UNCHANGED <<clock, paidThrough, payments, statusVars>>
  PROVE  MoneyInv' /\ (Locked => Locked')
<1>1. \A d \in Call : /\ Open(d)' <=> (Open(d) /\ d # c)
                      /\ Inserted(d)' => Inserted(d)
  BY DEF Open, Inserted
<1>2. TypeOK'
  BY <1>1 DEF MoneyInv, TypeOK, Unlocked, statusVars
<1>3. Claims'
  <2>1. \A x \in payments : x.by \in Call
    BY DEF MoneyInv, TypeOK
  <2>2. \A x \in payments : step'[x.by] \in {"committed", "done"} /\ x.at =< clock'
    BY <2>1 DEF MoneyInv, Claims
  <2>3. \A d \in Call : Open(d)' => extendedTo'[d] - call[d].period \in Nat
    BY <1>1 DEF MoneyInv, Claims
  <2> QED
    BY <1>1, <2>2, <2>3 DEF MoneyInv, Claims, TransferBuysOnce, SameTransfer
<1>4. Locked => Locked'
  BY <1>1, Fields DEF Locked, PeriodsDisjoint, Unlocked
<1> QED
  BY <1>2, <1>3, <1>4 DEF MoneyInv

LEMMA InsertStep ==
  ASSUME MoneyInv, NEW c \in Call, InsertPayment(c)
  PROVE  MoneyInv' /\ (Locked => Locked')
<1>1. /\ step[c] = "read" /\ UNCHANGED <<clock, paidThrough, payments, asked, extendedTo, statusVars>>
      /\ \A d \in Call : Inserted(d) => ~SameTransfer(c, d)
  BY DEF InsertPayment, Inserted
<1>2. CASE Claimed(c)
  <2>1. step' = [step EXCEPT ![c] = "duplicate"] /\ lock' = Unlocked(c)
    BY <1>2 DEF InsertPayment, Goto
  <2> QED
    BY <1>1, <2>1, GiveUpStep DEF MoneyInv, TypeOK, Step
<1>3. CASE ~Claimed(c)
  <2>1. /\ step' \in [Call -> Step] /\ step'[c] = "inserted" /\ UNCHANGED lock
        /\ \A d \in Call : d # c => step'[d] = step[d]
    BY <1>3 DEF InsertPayment, Goto, MoneyInv, TypeOK, Step
  <2>2. \A d \in Call : /\ Open(d) <=> Open(d)'
                        /\ Inserted(d)' <=> (Inserted(d) \/ d = c)
    BY <1>1, <2>1 DEF Open, Inserted
  <2>3. \A x \in payments : ~SameTransfer(c, x.by)
    BY <1>3 DEF Claimed
  <2>4. TypeOK'
    BY <1>1, <2>1, <2>2 DEF MoneyInv, TypeOK, statusVars
  <2>5. Claims'
    <3>1. \A x \in payments : x.by \in Call
      BY DEF MoneyInv, TypeOK
    <3>2. \A x \in payments : step'[x.by] \in {"committed", "done"} /\ x.at =< clock'
      BY <1>1, <2>1, <3>1 DEF MoneyInv, Claims
    <3>3. \A d, e \in Call : Inserted(d)' /\ Inserted(e)' => ~SameTransfer(d, e)
      BY <1>1, <2>2 DEF MoneyInv, Claims, SameTransfer
    <3> QED
      BY <1>1, <2>2, <2>3, <3>2, <3>3 DEF MoneyInv, Claims, TransferBuysOnce, SameTransfer
  <2>6. Locked => Locked'
    BY <1>1, <2>1, <2>2 DEF Locked, PeriodsDisjoint
  <2> QED
    BY <2>4, <2>5, <2>6 DEF MoneyInv
<1> QED
  BY <1>2, <1>3

LEMMA UpsertStep ==
  ASSUME MoneyInv, NEW c \in Call, UpsertRow(c)
  PROVE  MoneyInv' /\ (Locked => Locked')
<1>1. /\ step' \in [Call -> Step] /\ step[c] = "inserted" /\ step'[c] = "updated" /\ lock' = c
      /\ \A d \in Call : d # c => step'[d] = step[d]
      /\ UNCHANGED <<clock, paidThrough, payments, asked, extendedTo, statusVars>>
  BY DEF UpsertRow, Goto, MoneyInv, TypeOK, Step
<1>2. Open(c) /\ \A d \in Call : (Open(d) <=> Open(d)') /\ (Inserted(d) <=> Inserted(d)')
  BY <1>1 DEF Open, Inserted
<1>3. TypeOK'
  BY <1>1, <1>2 DEF MoneyInv, TypeOK, statusVars
<1>4. Claims'
  <2>1. \A x \in payments : x.by \in Call
    BY DEF MoneyInv, TypeOK
  <2> QED
    BY <1>1, <1>2, <2>1 DEF MoneyInv, Claims, TransferBuysOnce, SameTransfer
<1>5. Locked => Locked'
  BY <1>1, <1>2 DEF Locked, PeriodsDisjoint
<1> QED
  BY <1>3, <1>4, <1>5 DEF MoneyInv

LEMMA CommitStep ==
  ASSUME MoneyInv, NEW c \in Call, Commit(c)
  PROVE  MoneyInv' /\ (Locked => Locked')
<1> DEFINE new == [by |-> c, to |-> extendedTo[c], at |-> clock,
                   from |-> extendedTo[c] - call[c].period]
<1>1. /\ step' \in [Call -> Step] /\ step[c] = "updated" /\ step'[c] = "committed"
      /\ \A d \in Call : d # c => step'[d] = step[d]
      /\ lock' = Unlocked(c) /\ paidThrough' = extendedTo[c] /\ payments' = payments \cup {new}
      /\ UNCHANGED <<clock, asked, extendedTo, statusVars>>
  BY DEF Commit, Goto, MoneyInv, TypeOK, Step
<1>2. /\ Open(c) /\ Inserted(c)
      /\ \A d \in Call : /\ Open(d)' <=> (Open(d) /\ d # c)
                         /\ Inserted(d)' <=> (Inserted(d) /\ d # c)
  BY <1>1 DEF Open, Inserted
<1>3. new.from \in Nat /\ new.to \in Nat /\ new.at \in Nat
  BY <1>2 DEF MoneyInv, Claims, TypeOK
<1>4. TypeOK'
  <2>1. payments' \subseteq [by : Call, from : Nat, to : Nat, at : Nat]
    BY <1>1, <1>3 DEF MoneyInv, TypeOK
  <2>2. lock' \in {d \in Call : Open(d)'} \cup {NoCall}
    BY <1>1, <1>2 DEF MoneyInv, TypeOK, Unlocked
  <2> QED
    BY <1>1, <1>3, <2>1, <2>2 DEF MoneyInv, TypeOK, Row, statusVars
<1>5. Claims'
  <2>1. \A x \in payments : x.by \in Call
    BY DEF MoneyInv, TypeOK
  <2>2. \A x \in payments' : step'[x.by] \in {"committed", "done"} /\ x.at =< clock'
    BY <1>1, <1>3, <2>1 DEF MoneyInv, Claims
  <2>3. \A d \in Call : Open(d)' => extendedTo'[d] - call[d].period \in Nat
    BY <1>1, <1>2 DEF MoneyInv, Claims
  <2>4. \A d \in Call : Inserted(d)' =>
          /\ \A e \in Call : Inserted(e)' => ~SameTransfer(d, e)
          /\ \A x \in payments' : ~SameTransfer(d, x.by)
    <3>1. new.by = c
      OBVIOUS
    <3> QED
      BY <1>1, <1>2, <3>1 DEF MoneyInv, Claims
  <2>5. TransferBuysOnce'
    <3>1. \A x \in payments : ~SameTransfer(c, x.by) /\ ~SameTransfer(x.by, c)
      BY <1>2 DEF MoneyInv, Claims, SameTransfer
    <3>2. ~SameTransfer(c, c) /\ new.by = c
      BY DEF SameTransfer
    <3> QED
      BY <1>1, <3>1, <3>2 DEF MoneyInv, Claims, TransferBuysOnce
  <2> QED
    BY <2>2, <2>3, <2>4, <2>5 DEF Claims
<1>6. Locked => Locked'
  <2> SUFFICES ASSUME Locked PROVE Locked'
    OBVIOUS
  <2>1. lock = c /\ paidThrough + call[c].period =< extendedTo[c] /\ paidThrough \in Nat
    BY <1>2 DEF Locked
  <2>2. \A d \in Call : ~Open(d)'
    BY <1>2, <2>1 DEF Locked
  <2>3. /\ paidThrough =< new.from /\ new.from =< new.to /\ new.to = extendedTo[c]
        /\ paidThrough =< new.to
    BY <2>1, Fields, <1>3
  <2>4. \A x \in payments : /\ x.from \in Nat /\ x.to \in Nat
                            /\ x.from =< x.to /\ x.to =< paidThrough
    BY DEF Locked, MoneyInv, TypeOK
  <2> HIDE DEF new
  <2>5. PeriodsDisjoint'
    BY <1>1, <1>3, <2>1, <2>3, <2>4 DEF Locked, PeriodsDisjoint
  <2>6. \A x \in payments' : x.from =< x.to /\ x.to =< paidThrough'
    BY <1>1, <1>3, <2>1, <2>3, <2>4
  <2>7. paidThrough' \in {x.to : x \in payments'} \cup {InitialPaidThrough}
    BY <1>1, <2>3
  <2>8. paidThrough' \in Nat /\ InitialPaidThrough =< paidThrough'
    BY <1>1, <1>3, <2>1, <2>3, SubscriptionAssumption DEF Locked, Unsubscribed
  <2> QED
    BY <2>2, <2>5, <2>6, <2>7, <2>8 DEF Locked
<1> QED
  BY <1>4, <1>5, <1>6 DEF MoneyInv

LEMMA AbortStep ==
  ASSUME MoneyInv, NEW c \in Call, Abort(c)
  PROVE  MoneyInv' /\ (Locked => Locked')
BY GiveUpStep DEF Abort, Goto, Open, MoneyInv, TypeOK, Step

\* What the service does once it has committed, and the checks.
LEMMA QuietStep ==
  ASSUME MoneyInv, cache' \in [Replica -> Entry], check' \in [Check -> CheckState],
         step' \in [Call -> Step],
         \A c \in Call : step'[c] = step[c] \/ (step[c] = "committed" /\ step'[c] = "done"),
         clock' \in 0..MaxClock, clock =< clock',
         UNCHANGED <<paidThrough, payments, lock, asked, extendedTo>>
  PROVE  MoneyInv' /\ (Locked => Locked')
<1>1. \A c \in Call : (Open(c) <=> Open(c)') /\ (Inserted(c) <=> Inserted(c)')
  BY DEF Open, Inserted
<1>2. TypeOK'
  BY <1>1 DEF MoneyInv, TypeOK
<1>3. Claims'
  <2>1. \A x \in payments : x.by \in Call /\ x.at \in Nat
    BY DEF MoneyInv, TypeOK
  <2>2. \A x \in payments : step'[x.by] \in {"committed", "done"} /\ x.at =< clock'
    BY <2>1 DEF MoneyInv, Claims, TypeOK
  <2> QED
    BY <1>1, <2>2 DEF MoneyInv, Claims, TransferBuysOnce, SameTransfer
<1>4. Locked => Locked'
  BY <1>1 DEF Locked, PeriodsDisjoint
<1> QED
  BY <1>2, <1>3, <1>4 DEF MoneyInv

LEMMA StatusTypes ==
  ASSUME TypeOK, NEW k \in Check, Hit(k) \/ Miss(k) \/ Query(k) \/ Install(k)
  PROVE  cache' \in [Replica -> Entry] /\ check' \in [Check -> CheckState]
<1>1. home[k] \in Replica /\ clock \in Nat /\ paidThrough \in Row /\ check[k] \in CheckState
  BY SubscriptionAssumption DEF TypeOK
<1>2. ASSUME NEW p, check[k].is \in {"new", "loaded"}
      PROVE  Decision(k, p) \in CheckState
  <2>1. check[k].is = "loaded" => check[k].asked \in Nat
    BY <1>1 DEF CheckState
  <2>2. (IF Allows(p, clock) THEN "allowed" ELSE "refused") \in {"allowed", "refused"}
    OBVIOUS
  <2>3. (IF check[k].is = "new" THEN clock ELSE check[k].asked) \in Nat
    BY <1>1, <1>2, <2>1
  <2> HIDE DEF CheckState
  <2> QED
    BY <1>1, <2>2, <2>3 DEF Decision, CheckState
<1>3. CASE Hit(k)
  BY <1>2, <1>3 DEF Hit, Goes, TypeOK
<1>4. CASE Miss(k)
  BY <1>1, <1>4 DEF Miss, Goes, TypeOK, CheckState
<1>5. CASE Query(k)
  <2>1. check[k].asked \in Nat
    BY <1>1, <1>5 DEF Query, CheckState
  <2> QED
    BY <1>1, <1>5, <2>1 DEF Query, Goes, TypeOK, CheckState
<1>6. CASE Install(k)
  <2>1. check[k].asked \in Nat /\ check[k].paidThrough \in Row
    BY <1>1, <1>6 DEF Install, CheckState
  <2>2. [paidThrough |-> check[k].paidThrough, readAt |-> ReadAt(k)] \in Entry
    BY <2>1 DEF Entry, ReadAt
  <2>3. check' \in [Check -> CheckState]
    BY <1>2, <1>6 DEF Install, Goes, TypeOK
  <2> QED
    BY <1>1, <1>6, <2>2, <2>3 DEF Install, TypeOK
<1> QED
  BY <1>3, <1>4, <1>5, <1>6

LEMMA NextMoney ==
  ASSUME MoneyInv, [SubscriptionNext]_subscriptionVars
  PROVE  MoneyInv' /\ (Locked => Locked')
<1>1. ASSUME NEW c \in Call, Invalidate(c)
      PROVE  MoneyInv' /\ (Locked => Locked')
  <2>1. step' \in [Call -> Step] /\ cache' \in [Replica -> Entry]
    BY <1>1, Fields DEF Invalidate, Goto, MoneyInv, TypeOK, Step, Entry
  <2>2. \A d \in Call : step'[d] = step[d] \/ (step[d] = "committed" /\ step'[d] = "done")
    BY <1>1 DEF Invalidate, Goto, MoneyInv, TypeOK
  <2> QED
    BY <1>1, <2>1, <2>2, QuietStep DEF Invalidate, MoneyInv, TypeOK
<1>2. ASSUME NEW k \in Check, Hit(k) \/ Miss(k) \/ Query(k) \/ Install(k)
      PROVE  MoneyInv' /\ (Locked => Locked')
  <2>1. UNCHANGED <<clock, moneyVars>>
    BY <1>2 DEF Hit, Miss, Query, Install
  <2> QED
    BY <1>2, <2>1, StatusTypes, QuietStep DEF moneyVars, MoneyInv, TypeOK
<1>3. CASE ClockTicks
  BY <1>3, QuietStep, SubscriptionAssumption DEF ClockTicks, moneyVars, statusVars, MoneyInv, TypeOK
<1>4. CASE UNCHANGED subscriptionVars
  BY <1>4, QuietStep DEF subscriptionVars, moneyVars, statusVars, MoneyInv, TypeOK
<1> QED
  BY <1>1, <1>2, <1>3, <1>4, AskStep, ReadStep, InsertStep, UpsertStep, CommitStep, AbortStep
     DEF SubscriptionNext

----------------------------------------------------------------------------
(* What the checks know *)

\* The ends of the periods paid for before t.
PaidIn(t) == {x.to : x \in {y \in payments : y.at < t}} \cup {InitialPaidThrough}

\* Without counting payments, one of these ends is the last: each commit adds one.
Latest == \A t \in Int : \E m \in PaidIn(t) : \A e \in PaidIn(t) : e =< m

\* A row read at t or later: it was the row once, and what had been paid before
\* t does not go beyond it.
Known(p, t) ==
    /\ p \in PaidIn(clock + 1) /\ InitialPaidThrough =< p
    /\ t \in Nat /\ t =< clock
    /\ \A x \in payments : x.at < t => x.to =< p

CheckOK(s) ==
    /\ s.is = "loading" => s.asked \in Nat /\ s.asked =< clock
    /\ s.is = "loaded" => Known(s.paidThrough, s.asked)
    /\ s.is = "allowed" =>
         /\ s.at \in Nat /\ s.at =< clock
         /\ \E p \in PaidIn(s.at + 1) : s.at =< p + GraceSeconds
    /\ s.is = "refused" =>
         /\ s.at \in Nat /\ s.asked \in Nat /\ s.asked =< clock
         /\ \A p \in PaidIn(s.asked - TtlSeconds + 1) : s.at > p + GraceSeconds

Checked ==
    /\ Latest
    /\ \A p \in Replica : cache[p] # NoEntry => Known(cache[p].paidThrough, cache[p].readAt)
    /\ \A k \in Check : CheckOK(check[k])

ServeInv == MoneyInv /\ Locked /\ Checked

\* Payments are added at the present, and the clock goes on.
Grows ==
    /\ clock \in Nat /\ clock' \in Nat /\ clock =< clock'
    /\ payments \subseteq payments'
    /\ \A x \in payments' : x \in payments \/ x.at >= clock
    /\ \A x \in payments' : x.at \in Nat /\ x.to \in Nat

LEMMA PaidKept ==
  ASSUME Grows, NEW t \in Int
  PROVE  PaidIn(t) \subseteq PaidIn(t)' /\ (t =< clock => PaidIn(t)' = PaidIn(t))
BY DEF Grows, PaidIn

LEMMA PaidLater ==
  ASSUME NEW t \in Int, NEW u \in Int, t =< u, \A x \in payments : x.at \in Nat
  PROVE  PaidIn(t) \subseteq PaidIn(u)
BY DEF PaidIn

LEMMA KnownKept ==
  ASSUME Grows, NEW p, NEW t, Known(p, t)
  PROVE  Known(p, t)'
<1>1. PICK n \in Int : n = clock + 1
  BY DEF Grows
<1>2. p \in PaidIn(clock + 1)'
  <2>1. p \in PaidIn(n)'
    BY <1>1, PaidKept DEF Known
  <2>2. \A x \in payments' : x.at < n => x.at < clock' + 1
    BY <1>1 DEF Grows
  <2> QED
    BY <2>1, <2>2 DEF PaidIn
<1>3. \A x \in payments' : x.at < t => x.to =< p
  BY DEF Grows, Known
<1> QED
  BY <1>2, <1>3 DEF Grows, Known

LEMMA CheckKept ==
  ASSUME Grows, TtlSeconds > 0, NEW s, CheckOK(s)
  PROVE  CheckOK(s)'
<1>1. s.is = "loading" => s.asked \in Nat /\ s.asked =< clock'
  BY DEF CheckOK, Grows
<1>2. s.is = "loaded" => Known(s.paidThrough, s.asked)'
  BY KnownKept DEF CheckOK
<1>3. s.is = "allowed" =>
        /\ s.at \in Nat /\ s.at =< clock'
        /\ \E p \in PaidIn(s.at + 1)' : s.at =< p + GraceSeconds
  BY PaidKept DEF CheckOK, Grows
<1>4. ASSUME s.is = "refused"
      PROVE  /\ s.at \in Nat /\ s.asked \in Nat /\ s.asked =< clock'
             /\ \A p \in PaidIn(s.asked - TtlSeconds + 1)' : s.at > p + GraceSeconds
  <2>1. s.at \in Nat /\ s.asked \in Nat /\ s.asked =< clock
    BY <1>4 DEF CheckOK
  <2>2. s.asked - TtlSeconds + 1 \in Int /\ s.asked - TtlSeconds + 1 =< clock
    BY <2>1, SubscriptionAssumption DEF Grows
  <2>3. PaidIn(s.asked - TtlSeconds + 1)' = PaidIn(s.asked - TtlSeconds + 1)
    BY <2>2, PaidKept
  <2> QED
    BY <1>4, <2>1, <2>3 DEF CheckOK, Grows
<1> QED
  BY <1>1, <1>2, <1>3, <1>4 DEF CheckOK

LEMMA LatestKept ==
  ASSUME MoneyInv, MoneyInv', Locked, Latest, InitialPaidThrough # Unsubscribed,
         [SubscriptionNext]_subscriptionVars
  PROVE  Latest' /\ Grows
<1>1. /\ \A x \in payments : x.at \in Nat /\ x.to \in Nat
      /\ \A x \in payments' : x.at \in Nat /\ x.to \in Nat
      /\ clock \in Nat /\ clock' \in Nat
  BY DEF MoneyInv, TypeOK
<1>2. CASE UNCHANGED payments
  <2>1. clock =< clock'
    <3>1. clock' = clock \/ ClockTicks
      BY DEF SubscriptionNext, AskToRecord, ReadRow, InsertPayment, UpsertRow, Commit, Abort,
         Invalidate, Hit, Miss, Query, Install, subscriptionVars
    <3> QED
      BY <1>1, <3>1 DEF ClockTicks
  <2> QED
    BY <1>1, <1>2, <2>1 DEF Grows, Latest, PaidIn
<1>3. ASSUME NEW c \in Call, Commit(c)
      PROVE  Latest' /\ Grows
  <2>1. PICK new : new = [by |-> c, to |-> extendedTo[c], at |-> clock,
                           from |-> extendedTo[c] - call[c].period]
    OBVIOUS
  <2>2. payments' = payments \cup {new} /\ new.at = clock /\ clock' = clock
    BY <1>3, <2>1 DEF Commit
  <2>3. Grows
    BY <1>1, <2>2 DEF Grows
  <2>4. ASSUME NEW t \in Int
        PROVE  \E m \in PaidIn(t)' : \A e \in PaidIn(t)' : e =< m
    <3>1. PaidIn(t)' \subseteq PaidIn(t) \cup {new.to} /\ PaidIn(t) \subseteq PaidIn(t)'
      BY <2>2 DEF PaidIn
    <3>2. PICK m \in PaidIn(t) : \A e \in PaidIn(t) : e =< m
      BY DEF Latest
    <3>3. PaidIn(t) \subseteq Nat /\ new.to \in Nat
      BY <1>1, <2>2, SubscriptionAssumption DEF PaidIn
    <3>4. CASE new.to \in PaidIn(t)' /\ new.to > m
      BY <3>1, <3>2, <3>3, <3>4
    <3>5. CASE new.to \notin PaidIn(t)' \/ new.to =< m
      BY <3>1, <3>2, <3>3, <3>5
    <3> QED
      BY <3>2, <3>3, <3>4, <3>5
  <2> QED
    BY <2>3, <2>4 DEF Latest
<1>4. UNCHANGED payments \/ \E c \in Call : Commit(c)
  BY DEF SubscriptionNext, AskToRecord, ReadRow, InsertPayment, UpsertRow, Abort, Invalidate, Hit,
     Miss, Query, Install, ClockTicks, subscriptionVars, moneyVars
<1> QED
  BY <1>2, <1>3, <1>4

\* What is decided from a row that is known as of the time of asking, or of a
\* fresh entry.
LEMMA DecisionOK ==
  ASSUME MoneyInv, InitialPaidThrough # Unsubscribed, TtlSeconds > 0,
         NEW k \in Check, check[k] \in CheckState, NEW p, NEW t, Known(p, t), t \in Nat,
         check[k].is = "new" => clock - t < TtlSeconds,
         check[k].is = "loaded" => check[k].asked = t,
         check[k].is \in {"new", "loaded"}
  PROVE  CheckOK(Decision(k, p))
<1>1. /\ clock \in Nat /\ \A x \in payments : x.at \in Nat /\ x.to \in Nat
      /\ GraceSeconds \in Nat /\ TtlSeconds \in Nat /\ InitialPaidThrough \in Nat
  BY SubscriptionAssumption DEF MoneyInv, TypeOK
<1>2. p \in Nat
  BY <1>1 DEF Known, PaidIn
<1>3. Allows(p, clock) <=> clock =< p + GraceSeconds
  BY <1>2 DEF Allows, Unsubscribed
<1>4. PICK a : a = IF check[k].is = "new" THEN clock ELSE check[k].asked
  OBVIOUS
<1>5. a \in Nat /\ a =< clock /\ a - TtlSeconds + 1 \in Int /\ a - TtlSeconds + 1 =< t
  BY <1>1, <1>4 DEF Known
<1>6. CASE clock =< p + GraceSeconds
  <2>1. Decision(k, p) = [is |-> "allowed", asked |-> a, at |-> clock]
    BY <1>3, <1>4, <1>6 DEF Decision
  <2> QED
    BY <1>1, <1>6, <2>1 DEF CheckOK, Known
<1>7. CASE ~(clock =< p + GraceSeconds)
  <2>1. Decision(k, p) = [is |-> "refused", asked |-> a, at |-> clock]
    BY <1>3, <1>4, <1>7 DEF Decision
  <2>2. ASSUME NEW q \in PaidIn(a - TtlSeconds + 1)
        PROVE  clock > q + GraceSeconds
    <3>1. q \in Nat /\ q =< p
      BY <1>1, <1>2, <1>5 DEF PaidIn, Known
    <3> QED
      BY <1>1, <1>2, <1>7, <3>1
  <2> QED
    BY <1>1, <1>5, <2>1, <2>2 DEF CheckOK
<1> QED
  BY <1>6, <1>7

LEMMA NextServe ==
  ASSUME ServeInv, InitialPaidThrough # Unsubscribed, TtlSeconds > 0,
         [SubscriptionNext]_subscriptionVars
  PROVE  ServeInv'
<1>1. MoneyInv' /\ Locked' /\ Latest' /\ Grows
  BY NextMoney, LatestKept DEF ServeInv, Checked
<1>2. cache \in [Replica -> Entry] /\ check \in [Check -> CheckState] /\ home \in [Check -> Replica]
  BY SubscriptionAssumption DEF ServeInv, MoneyInv, TypeOK
<1>3. ASSUME NEW p \in Replica, cache'[p] = cache[p], cache'[p] # NoEntry
      PROVE  Known(cache[p].paidThrough, cache[p].readAt)'
  <2>1. PICK e : e = cache[p]
    OBVIOUS
  <2>2. Known(e.paidThrough, e.readAt)'
    BY <1>1, <1>3, <2>1, KnownKept DEF ServeInv, Checked
  <2> QED
    BY <1>3, <2>1, <2>2 DEF Known
<1>4. ASSUME NEW k \in Check, check'[k] = check[k]
      PROVE  CheckOK(check[k])'
  <2>1. PICK s : s = check[k]
    OBVIOUS
  <2>2. CheckOK(s)'
    BY <1>1, <2>1, CheckKept DEF ServeInv, Checked
  <2>3. s = check'[k]
    BY <1>4, <2>1
  <2> QED
    BY <2>2, <2>3 DEF CheckOK
<1>5. ASSUME NEW k \in Check, NEW s, check' = [check EXCEPT ![k] = s], CheckOK(s),
             UNCHANGED <<clock, payments>>
      PROVE  \A j \in Check : CheckOK(check[j])'
  <2> SUFFICES ASSUME NEW j \in Check PROVE CheckOK(check[j])'
    OBVIOUS
  <2>1. CASE j # k
    BY <1>2, <1>4, <1>5, <2>1
  <2>2. CASE j = k
    <3>1. check'[j] = s
      BY <1>2, <1>5, <2>2
    <3> QED
      BY <1>5, <3>1 DEF CheckOK, Known, PaidIn
  <2> QED
    BY <2>1, <2>2
<1>6. CASE UNCHANGED <<cache, check>>
  BY <1>1, <1>3, <1>4, <1>6 DEF ServeInv, Checked
<1>7. ASSUME NEW c \in Call, Invalidate(c)
      PROVE  ServeInv'
  <2>1. \A p \in Replica : cache'[p] = NoEntry \/ cache'[p] = cache[p]
    BY <1>2, <1>7 DEF Invalidate
  <2>2. UNCHANGED check
    BY <1>7 DEF Invalidate
  <2> QED
    BY <1>1, <1>3, <1>4, <2>1, <2>2 DEF ServeInv, Checked
<1>8. ASSUME NEW k \in Check, Hit(k)
      PROVE  ServeInv'
  <2>1. PICK e : e = cache[home[k]]
    OBVIOUS
  <2>2. /\ e # NoEntry /\ clock - e.readAt < TtlSeconds /\ check[k].is = "new"
        /\ check' = [check EXCEPT ![k] = Decision(k, e.paidThrough)]
        /\ UNCHANGED <<clock, payments, cache>>
    BY <1>8, <2>1 DEF Hit, Goes, Fresh, moneyVars
  <2>3. Known(e.paidThrough, e.readAt)
    BY <1>2, <2>1, <2>2 DEF ServeInv, Checked
  <2>4. CheckOK(Decision(k, e.paidThrough))
    BY <1>2, <2>2, <2>3, DecisionOK DEF ServeInv, Known
  <2>5. \A j \in Check : CheckOK(check[j])'
    BY <1>5, <2>2, <2>4
  <2> QED
    BY <1>1, <1>3, <2>2, <2>5 DEF ServeInv, Checked
<1>9. ASSUME NEW k \in Check, Miss(k)
      PROVE  ServeInv'
  <2>1. /\ check' = [check EXCEPT ![k] = [is |-> "loading", asked |-> clock]]
        /\ UNCHANGED <<clock, payments, cache>>
    BY <1>9 DEF Miss, Goes, moneyVars
  <2>2. CheckOK([is |-> "loading", asked |-> clock])
    BY <1>1 DEF CheckOK, Grows
  <2>3. \A j \in Check : CheckOK(check[j])'
    BY <1>5, <2>1, <2>2
  <2> QED
    BY <1>1, <1>3, <2>1, <2>3 DEF ServeInv, Checked
<1>10. ASSUME NEW k \in Check, Query(k)
       PROVE  ServeInv'
  <2>1. PICK a : a = check[k].asked
    OBVIOUS
  <2>2. /\ check[k].is = "loading"
        /\ check' = [check EXCEPT ![k] = [is |-> "loaded", asked |-> a, paidThrough |-> paidThrough]]
        /\ UNCHANGED <<clock, payments, cache>>
    BY <1>10, <2>1 DEF Query, Goes, moneyVars
  <2>3. Known(paidThrough, a)
    <3>1. a \in Nat /\ a =< clock
      BY <2>1, <2>2 DEF ServeInv, Checked, CheckOK
    <3>2. \A x \in payments : x.at \in Nat /\ x.at =< clock
      BY DEF ServeInv, MoneyInv, Claims, TypeOK
    <3>3. paidThrough \in PaidIn(clock + 1)
      BY <1>1, <3>2 DEF ServeInv, Locked, PaidIn, Grows
    <3> QED
      BY <3>1, <3>3 DEF ServeInv, Locked, Known
  <2>4. CheckOK([is |-> "loaded", asked |-> a, paidThrough |-> paidThrough])
    BY <2>3 DEF CheckOK
  <2>5. \A j \in Check : CheckOK(check[j])'
    BY <1>5, <2>2, <2>4
  <2> QED
    BY <1>1, <1>3, <2>2, <2>5 DEF ServeInv, Checked
<1>11. ASSUME NEW k \in Check, Install(k)
       PROVE  ServeInv'
  <2>1. PICK s : s = check[k]
    OBVIOUS
  <2>2. /\ s.is = "loaded" /\ check' = [check EXCEPT ![k] = Decision(k, s.paidThrough)]
        /\ cache' = [cache EXCEPT ![home[k]] = [paidThrough |-> s.paidThrough, readAt |-> s.asked]]
        /\ UNCHANGED <<clock, payments>>
    BY <1>11, <2>1 DEF Install, Goes, ReadAt, moneyVars
  <2>3. Known(s.paidThrough, s.asked)
    BY <2>1, <2>2 DEF ServeInv, Checked, CheckOK
  <2>4. CheckOK(Decision(k, s.paidThrough))
    BY <1>2, <2>1, <2>2, <2>3, DecisionOK DEF ServeInv, Known
  <2>5. \A j \in Check : CheckOK(check[j])'
    BY <1>5, <2>2, <2>4
  <2>6. ASSUME NEW p \in Replica, cache'[p] # NoEntry
        PROVE  Known(cache[p].paidThrough, cache[p].readAt)'
    <3>1. CASE p # home[k]
      BY <1>2, <1>3, <2>2, <2>6, <3>1
    <3>2. CASE p = home[k]
      <4>1. cache'[p].paidThrough = s.paidThrough /\ cache'[p].readAt = s.asked
        BY <1>2, <2>2, <3>2
      <4> QED
        BY <2>2, <2>3, <4>1 DEF Known, PaidIn
    <3> QED
      BY <3>1, <3>2
  <2> QED
    BY <1>1, <2>5, <2>6 DEF ServeInv, Checked
<1> QED
  BY <1>6, <1>7, <1>8, <1>9, <1>10, <1>11
     DEF SubscriptionNext, AskToRecord, ReadRow, InsertPayment, UpsertRow, Commit, Abort, ClockTicks,
         subscriptionVars, statusVars

LEMMA InitServe ==
  ASSUME SubscriptionInit, InitialPaidThrough # Unsubscribed
  PROVE  ServeInv
<1>1. Latest
  BY SubscriptionAssumption DEF SubscriptionInit, Latest, PaidIn, Unsubscribed
<1>2. \A p \in Replica : cache[p] = NoEntry
  BY DEF SubscriptionInit
<1>3. \A k \in Check : CheckOK(check[k])
  BY DEF SubscriptionInit, CheckOK
<1> QED
  BY <1>1, <1>2, <1>3, InitMoney DEF ServeInv, Checked

----------------------------------------------------------------------------
(* Theorems *)

\* Whatever is claimed, granted, retried and aborted, and on which replica, a
\* transfer buys time once, and the types are kept; with or without a row
\* (recordPayment and its unique index).
THEOREM BoughtOnce ==
  SubscriptionSpec => [](TypeOK /\ TransferBuysOnce)
<1>1. SubscriptionInit => MoneyInv
  BY InitMoney
<1>2. MoneyInv /\ [SubscriptionNext]_subscriptionVars => MoneyInv'
  BY NextMoney
<1>3. MoneyInv => TypeOK /\ TransferBuysOnce
  BY DEF MoneyInv, Claims
<1> QED
  BY <1>1, <1>2, <1>3, PTL DEF SubscriptionSpec

\* The largest of a set that has one.
LEMMA MaxIs ==
  ASSUME NEW S, S \subseteq Int, NEW m \in S, \A e \in S : e =< m
  PROVE  Max(S) = m
<1>1. \E x \in S : \A y \in S : x >= y
  OBVIOUS
<1>2. Max(S) \in S /\ \A y \in S : Max(S) >= y
  BY <1>1, Zenon DEF Max
<1>3. Max(S) \in Int /\ m \in Int /\ Max(S) >= m /\ Max(S) =< m
  BY <1>2
<1> QED
  BY <1>3

\* For a tenant that has a row, concurrent payments and grants add up: each
\* extends what the others bought, none is lost, and no second is sold twice
\* (SELECT ... FOR UPDATE in recordPayment).
THEOREM SoldExactly ==
  ASSUME InitialPaidThrough # Unsubscribed
  PROVE  SubscriptionSpec => []PaidTimeExact
<1>1. SubscriptionInit => MoneyInv /\ Locked
  BY InitMoney
<1>2. MoneyInv /\ Locked /\ [SubscriptionNext]_subscriptionVars => MoneyInv' /\ Locked'
  BY NextMoney
<1>3. MoneyInv /\ Locked => PaidTimeExact
  <2> SUFFICES ASSUME MoneyInv, Locked PROVE RowIsHistory
    BY DEF MoneyInv, Claims, Locked, PaidTimeExact
  <2>1. {x.to : x \in payments} \cup {InitialPaidThrough} \subseteq Int
    BY SubscriptionAssumption DEF MoneyInv, TypeOK, Unsubscribed
  <2>2. \A e \in {x.to : x \in payments} \cup {InitialPaidThrough} : e =< paidThrough
    BY DEF Locked
  <2> QED
    BY <2>1, <2>2, MaxIs DEF Locked, RowIsHistory
<1> QED
  BY <1>1, <1>2, <1>3, PTL DEF SubscriptionSpec

\* Nobody is served beyond the grace of what was paid by then, or refused for
\* longer than an entry lives although it has paid, whatever the caches of the
\* replicas hold and whenever payments commit (SubscriptionService).
THEOREM ServedAsPaid ==
  ASSUME InitialPaidThrough # Unsubscribed, TtlSeconds > 0
  PROVE  SubscriptionSpec => []ServiceFollowsPayment
<1>1. SubscriptionInit => ServeInv
  BY InitServe
<1>2. ServeInv /\ [SubscriptionNext]_subscriptionVars => ServeInv'
  BY NextServe
<1>3. ServeInv => ServiceFollowsPayment
  <2> SUFFICES ASSUME ServeInv PROVE ServiceFollowsPayment
    OBVIOUS
  <2>1. ASSUME NEW t \in Int
        PROVE  PaidBefore(t) \in PaidIn(t) /\ \A e \in PaidIn(t) : e =< PaidBefore(t)
    <3>1. PaidIn(t) \subseteq Int
      BY SubscriptionAssumption DEF PaidIn, ServeInv, MoneyInv, TypeOK, Unsubscribed
    <3>2. PICK m \in PaidIn(t) : \A e \in PaidIn(t) : e =< m
      BY DEF ServeInv, Checked, Latest
    <3>3. PaidBefore(t) = Max(PaidIn(t))
      BY DEF PaidBefore, PaidIn
    <3>4. Max(PaidIn(t)) = m
      BY <3>1, <3>2, MaxIs
    <3> QED
      BY <3>2, <3>3, <3>4
  <2>2. \A t \in Int : PaidIn(t) \subseteq Nat
    BY SubscriptionAssumption DEF PaidIn, ServeInv, MoneyInv, TypeOK, Unsubscribed
  <2>3. ASSUME NEW k \in Check, check[k].is = "allowed"
        PROVE  Serves(PaidBefore(check[k].at + 1), check[k].at)
    <3>1. CheckOK(check[k])
      BY DEF ServeInv, Checked
    <3>2. PICK a \in Nat : a = check[k].at
      BY <2>3, <3>1 DEF CheckOK
    <3>3. PICK p \in PaidIn(a + 1) : a =< p + GraceSeconds
      BY <2>3, <3>1, <3>2 DEF CheckOK
    <3>4. PICK b : b = PaidBefore(a + 1)
      OBVIOUS
    <3>5. p \in Nat /\ b \in Nat /\ p =< b
      BY <2>1, <2>2, <3>2, <3>3, <3>4
    <3> QED
      BY <3>2, <3>3, <3>4, <3>5, SubscriptionAssumption DEF Serves, Unsubscribed
  <2>4. ASSUME NEW k \in Check, check[k].is = "refused"
        PROVE  ~Serves(PaidBefore(check[k].asked - TtlSeconds + 1), check[k].at)
    <3>1. CheckOK(check[k])
      BY DEF ServeInv, Checked
    <3>2. PICK t \in Int : t = check[k].asked - TtlSeconds + 1
      BY <2>4, <3>1, SubscriptionAssumption DEF CheckOK
    <3>3. PICK b : b = PaidBefore(t)
      OBVIOUS
    <3>4. b \in PaidIn(t) /\ b \in Nat
      BY <2>1, <2>2, <3>3
    <3>5. check[k].at \in Nat /\ check[k].at > b + GraceSeconds
      BY <2>4, <3>1, <3>2, <3>4 DEF CheckOK
    <3> QED
      BY <3>2, <3>3, <3>4, <3>5, SubscriptionAssumption DEF Serves, Unsubscribed
  <2> QED
    BY <2>3, <2>4 DEF ServiceFollowsPayment, ServedOnlyWhenPaid, OverlookedAtMostTtl
<1> QED
  BY <1>1, <1>2, <1>3, PTL DEF SubscriptionSpec

----------------------------------------------------------------------------
(* ChainAccess *)

States == {"closed", "open", "half-open"}
Breakers == [state : States, failures : Nat, age : Nat, trials : Nat]
FailureRuns == [length : Nat, down : BOOLEAN]

ChainTypes ==
    /\ breaker \in [Chain -> Breakers]
    /\ failureRun \in [Chain -> FailureRuns]
    /\ seen \in [Chain -> [Amount -> Nat]]
    /\ balanceCache \in [Chain -> {NoBalance} \cup [balance : Amount, age : Nat]]

\* The breaker's count is the run's, capped: whatever opens it has reached the
\* threshold, and a trial that is let through takes nothing off.
CountIsRun ==
    \A c \in Chain :
        /\ breaker[c].failures = failureRun[c].length
        /\ breaker[c].state # "closed" => breaker[c].failures >= FailureThreshold

\* A balance was the true one since it was asked for, or later.
CacheHasSeen ==
    \A c \in Chain : balanceCache[c] # NoBalance =>
        /\ seen[c][balanceCache[c].balance] =< balanceCache[c].age
        /\ balanceCache[c].age < CacheTtl

ChainInv == ChainTypes /\ CountIsRun /\ CacheHasSeen

LEMMA ChainInitInv == ChainInit => ChainInv
<1> SUFFICES ASSUME ChainInit PROVE ChainInv
    OBVIOUS
<1>1. ChainTypes
    BY ChainAssumption DEF ChainInit, ChainTypes, ClosedBreaker, States, Breakers, FailureRuns, Never
<1>2. CountIsRun /\ CacheHasSeen
    BY DEF ChainInit, CountIsRun, CacheHasSeen, ClosedBreaker
<1> QED BY <1>1, <1>2 DEF ChainInv

\* What a call's admission, and what its failure, make of a breaker.
LEMMA AdmissionKeeps ==
    ASSUME NEW b \in Breakers
    PROVE  /\ Current(b) \in Breakers
           /\ Entered(b) \in Breakers
           /\ Current(b).failures = b.failures /\ Entered(b).failures = b.failures
           /\ Current(b).state = "closed" <=> b.state = "closed"
           /\ Entered(b).state = b.state
<1>1. CASE b.state = "open" /\ b.age >= OpenTime
    BY <1>1 DEF Current, Entered, Breakers, States
<1>2. CASE ~(b.state = "open" /\ b.age >= OpenTime)
    BY <1>2 DEF Current, Entered, Breakers, States
<1> QED BY <1>1, <1>2

LEMMA FailureKeeps ==
    ASSUME NEW b \in Breakers, NEW n \in Nat, NEW w,
           \/ w = [b EXCEPT !.failures = n, !.state = "open", !.age = 0, !.trials = 0]
           \/ w = [b EXCEPT !.failures = n]
    PROVE  w \in Breakers /\ w.failures = n
<1>1. CASE w = [b EXCEPT !.failures = n]
    BY <1>1 DEF Breakers
<1>2. CASE w = [b EXCEPT !.failures = n, !.state = "open", !.age = 0, !.trials = 0]
    <2>1. w = [state |-> "open", failures |-> n, age |-> 0, trials |-> 0]
        BY <1>2 DEF Breakers
    <2> QED BY <2>1 DEF Breakers, States
<1> QED BY <1>1, <1>2

LEMMA ReadsInv ==
    ASSUME NEW c \in Chain, NEW what, NEW n, ChainInv, Reads(c, what, n),
           UNCHANGED <<failureRun, seen, balanceCache>>
    PROVE  ChainInv'
<1> USE DEF ChainInv, ChainTypes
<1> DEFINE first == Entered(Current(breaker[c]))
           second == IF n = 2 THEN Entered(first) ELSE first
<1>1. breaker' = [breaker EXCEPT ![c] = second]
    BY DEF Reads, Sets
<1>2. /\ second \in Breakers
      /\ second.failures = breaker[c].failures
      /\ second.state = "closed" <=> breaker[c].state = "closed"
    <2>1. /\ Current(breaker[c]) \in Breakers /\ Current(breaker[c]).failures = breaker[c].failures
          /\ Current(breaker[c]).state = "closed" <=> breaker[c].state = "closed"
        BY AdmissionKeeps
    <2>2. \A b \in Breakers : Entered(b) \in Breakers /\ Entered(b).failures = b.failures /\ Entered(b).state = b.state
        BY AdmissionKeeps
    <2> QED BY <2>1, <2>2
<1> HIDE DEF second
<1>3. ChainTypes'
    BY <1>1, <1>2
<1>4. CountIsRun'
    BY <1>1, <1>2 DEF CountIsRun
<1>5. CacheHasSeen'
    BY DEF CacheHasSeen
<1> QED BY <1>3, <1>4, <1>5

\* The breaker and the run are told the same of an outcome, and an answer is
\* cached as of when it was asked for.
LEMMA ReturnsInv ==
    ASSUME NEW c \in Chain, NEW what \in What, NEW age \in 0..Latency, ChainInv, Returns(c, what, age)
    PROVE  ChainInv'
<1> USE DEF ChainInv, ChainTypes
<1> DEFINE answered == up[c] /\ what # "unknown"
<1>1. /\ breaker' = [breaker EXCEPT ![c] = IF answered THEN OnSuccess(breaker[c]) ELSE OnFailure(breaker[c])]
      /\ failureRun' = [failureRun EXCEPT ![c] =
             IF answered THEN [length |-> 0, down |-> FALSE]
             ELSE [length |-> Min2(@.length + 1, FailureThreshold), down |-> @.down \/ ~up[c]]]
      /\ \/ balanceCache' = balanceCache
         \/ \E b \in Amount : seen[c][b] <= age /\ balanceCache' = [balanceCache EXCEPT ![c] = Cached(age, b)]
      /\ UNCHANGED seen
    BY DEF Returns, Sets
<1>2. /\ breaker'[c] \in Breakers
      /\ failureRun'[c] \in FailureRuns
      /\ breaker'[c].failures = failureRun'[c].length
      /\ breaker'[c].state # "closed" => breaker'[c].failures >= FailureThreshold
    <2>1. CASE answered
        BY <1>1, <2>1 DEF OnSuccess, ClosedBreaker, Breakers, FailureRuns, States
    <2>2. CASE ~answered
        <3> DEFINE failures == Min2(breaker[c].failures + 1, FailureThreshold)
        <3>1. failures \in Nat /\ (breaker[c].failures >= FailureThreshold => failures = FailureThreshold)
            BY ChainAssumption DEF Min2, Breakers
        <3>2. failureRun'[c] = [length |-> failures, down |-> failureRun[c].down \/ ~up[c]]
            BY <1>1, <2>2 DEF CountIsRun, FailureRuns
        <3>3. breaker'[c] = OnFailure(breaker[c])
            BY <1>1, <2>2
        <3>4. OnFailure(breaker[c]) =
                 IF breaker[c].state = "half-open" \/ failures >= FailureThreshold
                 THEN [breaker[c] EXCEPT !.failures = failures, !.state = "open", !.age = 0, !.trials = 0]
                 ELSE [breaker[c] EXCEPT !.failures = failures]
            BY DEF OnFailure
        <3> HIDE DEF failures
        <3>8. failures \in Nat /\ breaker[c] \in Breakers
            BY <3>1
        <3>5. failureRun'[c] \in FailureRuns /\ failureRun'[c].length = failures
            BY <3>1, <3>2 DEF FailureRuns
        <3>6. CASE breaker[c].state = "half-open" \/ failures >= FailureThreshold
            <4>1. breaker'[c] = [breaker[c] EXCEPT !.failures = failures, !.state = "open", !.age = 0, !.trials = 0]
                BY <3>3, <3>4, <3>6
            <4>2. breaker'[c] \in Breakers /\ breaker'[c].failures = failures
                BY <3>8, <4>1, FailureKeeps
            <4>3. failures >= FailureThreshold
                BY <3>1, <3>6, ChainAssumption DEF CountIsRun
            <4> QED BY <3>5, <4>2, <4>3
        <3>7. CASE ~(breaker[c].state = "half-open" \/ failures >= FailureThreshold)
            <4>1. breaker'[c] = [breaker[c] EXCEPT !.failures = failures]
                BY <3>3, <3>4, <3>7
            <4>2. breaker'[c] \in Breakers /\ breaker'[c].failures = failures
                BY <3>8, <4>1, FailureKeeps
            <4>4. breaker'[c].state = breaker[c].state
                BY <3>8, <4>1 DEF Breakers
            <4>3. breaker[c].state # "closed" => failures >= FailureThreshold
                BY <3>1, ChainAssumption DEF CountIsRun
            <4> QED BY <3>5, <4>2, <4>3, <4>4
        <3> QED BY <3>6, <3>7
    <2> QED BY <2>1, <2>2
<1>3. \A d \in Chain : d # c => breaker'[d] = breaker[d] /\ failureRun'[d] = failureRun[d]
    BY <1>1
<1>4. /\ breaker' \in [Chain -> Breakers]
      /\ failureRun' \in [Chain -> FailureRuns]
    <2>1. breaker' = [breaker EXCEPT ![c] = breaker'[c]] /\ failureRun' = [failureRun EXCEPT ![c] = failureRun'[c]]
        BY <1>1
    <2>2. breaker' \in [Chain -> Breakers]
        BY <2>1, <1>2
    <2>3. failureRun' \in [Chain -> FailureRuns]
        BY <2>1, <1>2
    <2> QED BY <2>2, <2>3
<1>5. CountIsRun'
    <2>1. \A d \in Chain : /\ breaker'[d].failures = failureRun'[d].length
                           /\ breaker'[d].state # "closed" => breaker'[d].failures >= FailureThreshold
        <3> TAKE d \in Chain
        <3>1. CASE d = c
            BY <1>2, <3>1
        <3>2. CASE d # c
            <4>1. breaker'[d] = breaker[d] /\ failureRun'[d] = failureRun[d]
                BY <1>3, <3>2
            <4> QED BY <4>1 DEF CountIsRun
        <3> QED BY <3>1, <3>2
    <2> QED BY <2>1 DEF CountIsRun
<1>6. balanceCache' \in [Chain -> {NoBalance} \cup [balance : Amount, age : Nat]] /\ CacheHasSeen'
    <2>1. CASE balanceCache' = balanceCache
        BY <1>1, <2>1 DEF CacheHasSeen
    <2>2. CASE \E b \in Amount : seen[c][b] <= age /\ balanceCache' = [balanceCache EXCEPT ![c] = Cached(age, b)]
        <3>1. PICK b \in Amount : seen[c][b] <= age /\ balanceCache' = [balanceCache EXCEPT ![c] = Cached(age, b)]
            BY <2>2
        <3>2. CASE age < CacheTtl
            BY <1>1, <3>1, <3>2, ChainAssumption DEF CacheHasSeen, Cached
        <3>3. CASE ~(age < CacheTtl)
            BY <1>1, <3>1, <3>3 DEF CacheHasSeen, Cached
        <3> QED BY <3>2, <3>3
    <2> QED BY <1>1, <2>1, <2>2
<1> QED BY <1>1, <1>4, <1>5, <1>6

\* A tick more for what is cached, and at most one for what was seen.
LEMMA ChainTickInv == ASSUME ChainInv, ChainTick PROVE ChainInv'
<1> USE DEF ChainInv, ChainTypes
<1>1. /\ breaker' = [c \in Chain |-> [breaker[c] EXCEPT
                       !.age = IF breaker[c].state = "open" THEN Min2(breaker[c].age + 1, OpenTime) ELSE 0]]
      /\ seen' = [c \in Chain |-> [b \in Amount |->
                    IF b = funds[c] THEN 0 ELSE Min2(seen[c][b] + 1, Never)]]
      /\ balanceCache' = [c \in Chain |-> IF balanceCache[c] = NoBalance THEN NoBalance
                                          ELSE Cached(balanceCache[c].age + 1, balanceCache[c].balance)]
      /\ UNCHANGED failureRun
    BY DEF ChainTick
<1>2. breaker' \in [Chain -> Breakers]
    <2>1. \A b \in Breakers, age \in Nat : [b EXCEPT !.age = age] \in Breakers
        BY DEF Breakers
    <2>2. \A b \in Breakers : (IF b.state = "open" THEN Min2(b.age + 1, OpenTime) ELSE 0) \in Nat
        BY ChainAssumption DEF Min2, Breakers
    <2> QED BY <1>1, <2>1, <2>2
<1>3. seen' \in [Chain -> [Amount -> Nat]]
    BY <1>1, ChainAssumption DEF Min2, Never
<1>4. \A c \in Chain, b \in Amount : seen'[c][b] <= seen[c][b] + 1
    BY <1>1, ChainAssumption DEF Min2, Never
<1>5. balanceCache' \in [Chain -> {NoBalance} \cup [balance : Amount, age : Nat]]
    BY <1>1 DEF Cached
<1>6. CountIsRun'
    <2>1. \A c \in Chain : breaker'[c].failures = breaker[c].failures /\ breaker'[c].state = breaker[c].state
        BY <1>1 DEF Breakers
    <2> QED BY <1>1, <2>1 DEF CountIsRun
<1>7. CacheHasSeen'
    BY <1>1, <1>3, <1>4, ChainAssumption DEF CacheHasSeen, Cached
<1> QED BY <1>1, <1>2, <1>3, <1>5, <1>6, <1>7

LEMMA ChainNextInv == ChainInv /\ [ChainNext]_chainVars => ChainInv'
<1> SUFFICES ASSUME ChainInv, [ChainNext]_chainVars PROVE ChainInv'
    OBVIOUS
<1>1. CASE ChainTick
    BY <1>1, ChainTickInv
<1>2. ASSUME NEW c \in Chain,
             ReadBalance(c) \/ AskHealth(c) \/ \E what \in {"known", "unknown"} : ClaimPayment(c, what)
      PROVE  ChainInv'
    BY <1>2, ReadsInv DEF ReadBalance, AskHealth, ClaimPayment
<1>3. ASSUME NEW c \in Chain, NEW what \in What, NEW age \in 0..Latency, Returns(c, what, age) PROVE ChainInv'
    BY <1>3, ReturnsInv
<1>4. ASSUME NEW c \in Chain, InvalidateBalance(c) PROVE ChainInv'
    BY <1>4 DEF InvalidateBalance, ChainInv, ChainTypes, CountIsRun, CacheHasSeen
<1>5. ASSUME NEW c \in Chain, Outage(c) \/ Recovers(c) PROVE ChainInv'
    BY <1>5 DEF Outage, Recovers, ChainInv, ChainTypes, CountIsRun, CacheHasSeen
<1>6. ASSUME NEW c \in Chain, Move(c) PROVE ChainInv'
    BY <1>6 DEF Move, ChainInv, ChainTypes, CountIsRun, CacheHasSeen
<1>7. CASE UNCHANGED chainVars
    BY <1>7 DEF chainVars, ChainInv, ChainTypes, CountIsRun, CacheHasSeen
<1> QED BY <1>1, <1>2, <1>3, <1>4, <1>5, <1>6, <1>7 DEF ChainNext

\* For any chains, thresholds and times: no balance is used longer after it was
\* true than the cache may keep it, and a breaker opens for a run of failures
\* only (CircuitBreaker, TenantBalanceReader).
THEOREM AdapterTellsTheTruth == ChainSpec => []BreakerAndCacheTellTheTruth
<1>1. ChainInv => BreakerAndCacheTellTheTruth
    <2> SUFFICES ASSUME ChainInv PROVE BreakerAndCacheTellTheTruth
        OBVIOUS
    <2> USE DEF ChainInv, ChainTypes
    <2>1. CachedIsRecent
        BY ChainAssumption DEF CacheHasSeen, CachedIsRecent
    <2>2. OpensOnRunOnly
        BY DEF CountIsRun, OpensOnRunOnly
    <2> QED BY <2>1, <2>2 DEF BreakerAndCacheTellTheTruth
<1> QED BY <1>1, ChainInitInv, ChainNextInv, PTL DEF ChainSpec

----------------------------------------------------------------------------
(* SponsoredSend *)

Operations == [limits : Nat, sponsorship : Nat, signature : {Absent} \cup (Nat \X Nat)]

SendTypes ==
    /\ stage \in HttpCalls \cup {"signing"} \cup SendEnded
    /\ reply \in Nat
    /\ op \in Operations

\* What a response says, while the call that asked for it is being made.
ReplyAnswers ==
    /\ stage = "final" /\ reply # Absent => reply = op.limits /\ reply \in attested
    /\ stage = "estimate" /\ reply # Absent => reply \in Estimates
    /\ wire = "headers" => reply # Absent

\* What the operation has become by the time of a call.
OperationIsReady ==
    /\ stage = "final" => op.limits \in Estimates
    /\ stage = "signing" =>
         op.sponsorship = op.limits /\ op.limits \in attested /\ op.limits \in Estimates
    /\ stage \in {"submit", "poll"} => Validates(op) /\ op.limits \in Estimates

SendInv == SendTypes /\ ReplyAnswers /\ OperationIsReady

LEMMA SendInitInv == SendInit => SendInv
<1> USE DEF SendInit, SendInv, Draft, Absent, Placeholder
<1>1. SendInit => SendTypes
    BY DEF SendTypes, SendEnded, Operations
<1>2. SendInit => ReplyAnswers /\ OperationIsReady
    BY DEF ReplyAnswers, OperationIsReady
<1> QED BY <1>1, <1>2

\* The next call is made with nothing answered yet.
LEMMA PrelimInv == ASSUME SendInv, Prelim PROVE SendInv'
<1>1. /\ op' = [op EXCEPT !.sponsorship = reply] /\ op' \in Operations
      /\ stage' = "estimate" /\ wire' = "out" /\ reply' = Absent
    BY DEF SendInv, SendTypes, Operations, Prelim, Post
<1> QED BY <1>1 DEF SendInv, SendTypes, ReplyAnswers, OperationIsReady, HttpCalls, Absent

LEMMA EstimateInv == ASSUME SendInv, Estimate PROVE SendInv'
<1>1. /\ stage' = "final" /\ wire' = "out" /\ reply' = Absent
      /\ reply \in Estimates /\ op' = Estimated(reply)
    BY DEF SendInv, ReplyAnswers, Estimate, Arrived, Post
<1>2. op' = [limits |-> reply, sponsorship |-> Absent, signature |-> Absent]
    BY <1>1 DEF Estimated, Draft
<1>3. op' \in Operations /\ op'.limits \in Estimates
    BY <1>1, <1>2 DEF SendInv, SendTypes, Operations, Absent
<1> QED BY <1>1, <1>3 DEF SendInv, SendTypes, ReplyAnswers, OperationIsReady, HttpCalls, Absent

\* The sponsorship that is applied is over the limits it was asked for.
LEMMA FinalInv == ASSUME SendInv, Final PROVE SendInv'
<1>1. /\ stage' = "signing" /\ wire' = "none" /\ reply' = Absent /\ attested' = attested
      /\ reply = op.limits /\ reply \in attested /\ op.limits \in Estimates
      /\ op' = [op EXCEPT !.sponsorship = reply]
    BY DEF SendInv, ReplyAnswers, OperationIsReady, Final, Arrived
<1>2. op' \in Operations /\ op'.limits = op.limits /\ op'.sponsorship = reply
    BY <1>1 DEF SendInv, SendTypes, Operations
<1> QED BY <1>1, <1>2 DEF SendInv, SendTypes, ReplyAnswers, OperationIsReady, HttpCalls, Absent

\* The wallet signs over that sponsorship, or throws.
LEMMA WalletInv == ASSUME SendInv, WalletAnswers PROVE SendInv'
<1>1. /\ op.sponsorship = op.limits /\ op.limits \in attested /\ op.limits \in Estimates
      /\ attested' = attested /\ reply' = Absent
    BY DEF SendInv, OperationIsReady, WalletAnswers, Post, Throw
<1>2. CASE op' = Signed(op) /\ Post("submit")
    <2>1. op' = [limits |-> op.limits, sponsorship |-> op.limits, signature |-> <<op.limits, op.limits>>]
        BY <1>1, <1>2 DEF SendInv, SendTypes, Operations, Signed, Hash
    <2>2. op' \in Operations /\ op'.limits \in Estimates
        BY <1>1, <2>1 DEF SendInv, SendTypes, Operations
    <2>3. Validates(op)'
        BY <1>1, <2>1 DEF Validates, Hash
    <2> QED BY <1>1, <1>2, <2>2, <2>3 DEF Post, SendInv, SendTypes, ReplyAnswers, OperationIsReady, HttpCalls, Absent
<1>3. CASE Throw /\ UNCHANGED op
    BY <1>1, <1>3 DEF Throw, SendInv, SendTypes, ReplyAnswers, OperationIsReady, SendEnded, Absent
<1> QED BY <1>2, <1>3 DEF WalletAnswers

LEMMA SendNextInv == SendInv /\ [SendNext]_sendVars => SendInv'
<1> SUFFICES ASSUME SendInv, [SendNext]_sendVars PROVE SendInv'
    OBVIOUS
<1> USE DEF SendInv, SendTypes, ReplyAnswers, OperationIsReady, Validates, HttpCalls, SendEnded, Absent
<1>1. CASE SendUserOperation
    BY <1>1 DEF SendUserOperation, Draft, Placeholder, Operations, Post
<1>2. CASE ServeSponsor
    BY <1>2 DEF ServeSponsor, Operations
<1>3. CASE ServeEstimate
    BY <1>3, SendAssumption DEF ServeEstimate
<1>4. CASE ServeSubmit \/ ServePoll
    BY <1>4 DEF ServeSubmit, ServePoll
<1>5. CASE Mine \/ Headers \/ Stall
    BY <1>5 DEF Mine, Headers, Stall
<1>6. CASE Fail \/ Timeout
    BY <1>6 DEF Fail, Timeout, Throw
<1>7. CASE Submitted
    BY <1>7 DEF Submitted, Arrived, Post
<1>8. CASE Polled
    BY <1>8 DEF Polled, Arrived, Post, Throw
<1>9. CASE UNCHANGED sendVars
    BY <1>9 DEF sendVars
<1> QED BY <1>1, <1>2, <1>3, <1>4, <1>5, <1>6, <1>7, <1>8, <1>9, PrelimInv, EstimateInv, FinalInv, WalletInv
        DEF SendNext, Continue

\* Whatever is lost, and however often the send is repeated: what the SDK submits
\* was signed over exactly its fields and sponsored for the limits it carries,
\* the estimated ones (SponsoredBundlerClient.sendUserOperation).
THEOREM SendsSoundly == SendSpec => []SubmittedIsSound
<1>1. SendInv => SubmittedIsSound
    BY DEF SendInv, OperationIsReady, SubmittedIsSound
<1> QED BY <1>1, SendInitInv, SendNextInv, PTL DEF SendSpec

----------------------------------------------------------------------------
(* SignIn *)

OneTab == \A k, m \in Tabs : k = m

Sessions == [person : People, tenant : Tenants]

Effects ==
    {r \in [is : {"tenants", "session", "opened"}, person : People, tenant : Tenants \cup {NoOne}, live : BOOLEAN] :
        r.is # "tenants" => r.tenant \in Tenants}

TabCalls ==
    {NotCalling} \cup [is : {"choosing", "creating", "opened"}, person : People, tenant : Tenants]

TabTypes ==
    [session : Sessions \cup {NoOne}, memberships : SUBSET (Tenants \cup {"unknown"}), working : BOOLEAN,
     runs : SUBSET Effects, call : TabCalls, leaving : {"no", "cookie", "provider"}]

\* A tab does one thing at a time: it holds a session, or runs its effect, or
\* makes a customer's call.  Between the cookie an answer sets and the session the
\* page then shows, nothing else of the tab sets a cookie.
TabOK(tab, c) ==
    /\ \A r, s \in tab.runs : r = s
    /\ tab.runs # {} => tab.session = NoOne /\ tab.call = NotCalling /\ tab.working
    /\ tab.call # NotCalling => tab.session = NoOne /\ tab.working
    /\ tab.leaving = "cookie" => tab.session # NoOne
    /\ tab.session # NoOne => c \in {NoOne, tab.session}
    /\ \A r \in tab.runs : r.is = "opened" => c \in {NoOne, Session(r.person, r.tenant)}
    /\ tab.call.is = "opened" => c \in {NoOne, Session(tab.call.person, tab.call.tenant)}

SignInInv ==
    /\ who \in People \cup {NoOne}
    /\ tabs \in [Tabs -> TabTypes]
    /\ \A k \in Tabs : TabOK(tabs[k], cookie)

LEMMA SessionIsSomeone ==
    ASSUME NEW p \in People, NEW t \in Tenants
    PROVE  Session(p, t) \in Sessions /\ Session(p, t) # NoOne
BY SignInAssumption DEF Session, Sessions

LEMMA OnlyRun ==
    ASSUME NEW S, NEW r \in S, \A q, s \in S : q = s
    PROVE  S \ {r} = {} /\ \A s : (S \ {r}) \cup {s} = {s}
OBVIOUS

\* The effect, when nothing runs: it asks for the organisations of a person who
\* has no session and has not asked, and nothing otherwise.
LEMMA FlushedQuiet ==
    ASSUME NEW tab \in TabTypes, tab.runs = {}, NEW p,
           p = NoOne \/ tab.session # NoOne \/ tab.memberships # Unknown
    PROVE  Flushed(tab, p) = tab
<1>1. {[r EXCEPT !.live = FALSE] : r \in tab.runs} = {}
    OBVIOUS
<1>2. Flushed(tab, p) = [tab EXCEPT !.runs = {}]
    BY <1>1 DEF Flushed
<1> QED BY <1>2 DEF TabTypes

LEMMA FlushedNew ==
    ASSUME NEW tab \in TabTypes, tab.runs = {}, NEW p \in People, p # NoOne,
           tab.session = NoOne, tab.memberships = Unknown
    PROVE  /\ Flushed(tab, p) \in TabTypes
           /\ Flushed(tab, p) = [tab EXCEPT !.runs = {NewRun(p)}, !.working = TRUE]
<1>1. {[r EXCEPT !.live = FALSE] : r \in tab.runs} = {}
    OBVIOUS
<1>2. Flushed(tab, p) = [tab EXCEPT !.runs = {NewRun(p)}, !.working = TRUE]
    BY <1>1 DEF Flushed
<1>3. NewRun(p) \in Effects
    BY DEF NewRun, Effects
<1>4. \A run \in Effects : [tab EXCEPT !.runs = {run}, !.working = TRUE] \in TabTypes
    BY DEF TabTypes
<1> QED BY <1>2, <1>3, <1>4

\* Whoever signs out, the effect that runs is torn down, and no other begins.
LEMMA FlushedOut ==
    ASSUME NEW tab \in TabTypes, NEW c, TabOK(tab, c)
    PROVE  Flushed(tab, NoOne) \in TabTypes /\ TabOK(Flushed(tab, NoOne), c)
<1> DEFINE torn == {[r EXCEPT !.live = FALSE] : r \in tab.runs}
           next == Flushed(tab, NoOne)
<1>1. next = [tab EXCEPT !.runs = torn]
    BY DEF Flushed
<1>2. \A r \in Effects : /\ [r EXCEPT !.live = FALSE] \in Effects
                         /\ [r EXCEPT !.live = FALSE].is = r.is
                         /\ [r EXCEPT !.live = FALSE].person = r.person
                         /\ [r EXCEPT !.live = FALSE].tenant = r.tenant
    BY DEF Effects
<1>3. tab.runs \subseteq Effects
    BY DEF TabTypes
<1>4. torn \subseteq Effects
    BY <1>2, <1>3
<1>5. /\ next.session = tab.session /\ next.working = tab.working /\ next.call = tab.call
      /\ next.leaving = tab.leaving /\ next.runs = torn /\ next \in TabTypes
    BY <1>1, <1>4 DEF TabTypes
<1>6. \A s \in torn : \E r \in tab.runs : s.is = r.is /\ s.person = r.person /\ s.tenant = r.tenant
    BY <1>2, <1>3
<1>7. (\A r, s \in torn : r = s) /\ (torn # {} => tab.runs # {})
    BY DEF TabOK
<1> HIDE DEF torn, next
<1> QED BY <1>5, <1>6, <1>7 DEF TabOK, next

\* What only one tab becomes is all there is to keep.
LEMMA BecomesInv ==
    ASSUME OneTab, SignInInv, NEW k \in Tabs, NEW tab \in TabTypes, TabOK(tab, cookie'),
           tabs' = [tabs EXCEPT ![k] = tab], who' \in People \cup {NoOne}
    PROVE  SignInInv'
<1>1. \A m \in Tabs : m = k
    BY DEF OneTab
<1>2. tabs' \in [Tabs -> TabTypes] /\ tabs'[k] = tab
    BY DEF SignInInv
<1> QED BY <1>1, <1>2 DEF SignInInv

LEMMA IdleOK ==
    ASSUME NEW tab \in TabTypes, NEW c, tab.runs = {}, tab.call = NotCalling, tab.session = NoOne, tab.leaving # "cookie"
    PROVE  TabOK(tab, c)
BY DEF TabOK, NotCalling

LEMMA OpenOK ==
    ASSUME NEW tab \in TabTypes, NEW c, tab.runs = {}, tab.call = NotCalling, tab.session # NoOne, c \in {NoOne, tab.session}
    PROVE  TabOK(tab, c)
BY DEF TabOK, NotCalling

\* Asking for the organisations, when nothing else is being done.
LEMMA BegunOK ==
    ASSUME NEW tab \in TabTypes, NEW c, NEW p \in People \cup {NoOne},
           tab.runs = {}, tab.call = NotCalling, tab.session = NoOne, tab.leaving # "cookie"
    PROVE  Flushed(tab, p) \in TabTypes /\ TabOK(Flushed(tab, p), c)
<1>1. CASE p = NoOne \/ tab.memberships # Unknown
    BY <1>1, FlushedQuiet, IdleOK
<1>2. CASE p # NoOne /\ tab.memberships = Unknown
    <2> DEFINE next == Flushed(tab, p)
    <2>1. next \in TabTypes /\ next = [tab EXCEPT !.runs = {NewRun(p)}, !.working = TRUE]
        BY <1>2, FlushedNew
    <2>2. /\ next.runs = {NewRun(p)} /\ next.working /\ next.call = NotCalling
          /\ next.session = NoOne /\ next.leaving # "cookie"
        BY <2>1 DEF TabTypes
    <2> HIDE DEF next
    <2>3. TabOK(next, c)
        BY <2>2 DEF TabOK, NewRun, NotCalling
    <2> QED BY <2>1, <2>3 DEF next
<1> QED BY <1>1, <1>2

\* The effect's run is the tab's only business: when it is gone there is none.
LEMMA RunGone ==
    ASSUME SignInInv, NEW k \in Tabs, NEW r \in tabs[k].runs
    PROVE  /\ r \in Effects
           /\ Without(k, r) \in TabTypes /\ Without(k, r).runs = {} /\ Without(k, r).call = NotCalling
           /\ Without(k, r).session = NoOne /\ Without(k, r).leaving # "cookie"
<1> DEFINE tab == tabs[k]
           w == Without(k, r)
<1>1. tab \in TabTypes /\ TabOK(tab, cookie) /\ r \in tab.runs
    BY DEF SignInInv
<1>2. w = [tab EXCEPT !.runs = @ \ {r}]
    BY DEF Without
<1> HIDE DEF tab, w
<1>3. tab.runs \ {r} = {}
    BY <1>1, OnlyRun DEF TabOK
<1>4. w = [tab EXCEPT !.runs = {}]
    BY <1>2, <1>3
<1>5. w \in TabTypes /\ w.runs = {} /\ w.call = tab.call /\ w.session = tab.session /\ w.leaving = tab.leaving
    BY <1>1, <1>4 DEF TabTypes
<1>6. tab.call = NotCalling /\ tab.session = NoOne /\ tab.leaving # "cookie"
    BY <1>1 DEF TabOK
<1>7. r \in Effects
    BY <1>1 DEF TabTypes
<1> QED BY <1>5, <1>6, <1>7 DEF w

LEMMA RunMoves ==
    ASSUME SignInInv, NEW k \in Tabs, NEW r \in tabs[k].runs, NEW s \in Effects, NEW c,
           s.is = "opened" => c \in {NoOne, Session(s.person, s.tenant)}
    PROVE  Onward(k, r, s) \in TabTypes /\ TabOK(Onward(k, r, s), c)
<1> DEFINE tab == tabs[k]
           w == Onward(k, r, s)
<1>1. tab \in TabTypes /\ TabOK(tab, cookie) /\ r \in tab.runs
    BY DEF SignInInv
<1>2. w = [tab EXCEPT !.runs = (@ \ {r}) \cup {s}]
    BY DEF Onward
<1> HIDE DEF tab, w
<1>3. (tab.runs \ {r}) \cup {s} = {s}
    BY <1>1, OnlyRun DEF TabOK
<1>4. w = [tab EXCEPT !.runs = {s}]
    BY <1>2, <1>3
<1>5. w \in TabTypes /\ w.runs = {s} /\ w.call = tab.call /\ w.session = tab.session
      /\ w.leaving = tab.leaving /\ w.working = tab.working
    BY <1>1, <1>4 DEF TabTypes
<1>6. tab.call = NotCalling /\ tab.session = NoOne /\ tab.leaving # "cookie" /\ tab.working
    BY <1>1 DEF TabOK
<1>7. TabOK(w, c)
    BY <1>5, <1>6 DEF TabOK, NotCalling
<1> QED BY <1>5, <1>7 DEF w

LEMMA TenantsAnsweredInv ==
    ASSUME OneTab, SignInInv, NEW k \in Tabs, NEW r \in tabs[k].runs, TenantsAnswered(k, r)
    PROVE  SignInInv'
<1> DEFINE found == MembersOf(r.person)
           w == Without(k, r)
           u == [w EXCEPT !.memberships = found, !.working = FALSE]
<1>1. /\ r \in Effects /\ w \in TabTypes /\ w.runs = {} /\ w.call = NotCalling
      /\ w.session = NoOne /\ w.leaving # "cookie"
    BY RunGone
<1>2. found \subseteq Tenants /\ found # Unknown
    BY SignInAssumption DEF MembersOf, Unknown
<1>3. /\ UNCHANGED <<who, cookie>> /\ who' \in People \cup {NoOne} /\ r.is = "tenants"
      /\ tabs' = [tabs EXCEPT ![k] = IF ~r.live THEN w
                    ELSE IF Cardinality(found) = 1
                    THEN Onward(k, r, [r EXCEPT !.is = "session", !.tenant = CHOOSE t \in found : TRUE])
                    ELSE Flushed(u, who)]
    BY DEF TenantsAnswered, Becomes, SignInInv
<1> HIDE DEF found, w
<1>4. CASE ~r.live
    BY <1>1, <1>3, <1>4, IdleOK, BecomesInv
<1>5. CASE r.live /\ Cardinality(found) = 1
    <2> DEFINE t == CHOOSE t \in found : TRUE
               s == [r EXCEPT !.is = "session", !.tenant = t]
    <2>1. found # {}
        BY <1>5, FS_EmptySet
    <2>2. t \in Tenants
        BY <1>2, <2>1
    <2> HIDE DEF t
    <2>3. s \in Effects /\ s.is = "session"
        BY <1>1, <2>2 DEF Effects
    <2>4. tabs' = [tabs EXCEPT ![k] = Onward(k, r, s)]
        BY <1>3, <1>5 DEF t
    <2> HIDE DEF s
    <2>5. Onward(k, r, s) \in TabTypes /\ TabOK(Onward(k, r, s), cookie')
        BY <2>3, RunMoves
    <2> QED BY <1>3, <2>4, <2>5, BecomesInv
<1>6. CASE r.live /\ Cardinality(found) # 1
    <2>1. /\ u \in TabTypes /\ u.runs = {} /\ u.call = NotCalling /\ u.session = NoOne
          /\ u.leaving # "cookie" /\ u.memberships # Unknown
        BY <1>1, <1>2 DEF TabTypes
    <2>2. tabs' = [tabs EXCEPT ![k] = Flushed(u, who)]
        BY <1>3, <1>6
    <2> HIDE DEF u
    <2>3. Flushed(u, who) \in TabTypes /\ TabOK(Flushed(u, who), cookie')
        BY <1>3, <2>1, BegunOK
    <2> QED BY <1>3, <2>2, <2>3, BecomesInv
<1> QED BY <1>4, <1>5, <1>6

LEMMA SessionArrivesInv ==
    ASSUME OneTab, SignInInv, NEW k \in Tabs, NEW r \in tabs[k].runs, SessionArrives(k, r)
    PROVE  SignInInv'
<1> DEFINE s == [r EXCEPT !.is = "opened"]
<1>1. r \in Effects
    BY RunGone
<1>2. /\ cookie' = Session(r.person, r.tenant) /\ who' \in People \cup {NoOne}
      /\ tabs' = [tabs EXCEPT ![k] = Onward(k, r, s)] /\ r.is = "session"
    BY DEF SessionArrives, Becomes, SignInInv
<1>3. s \in Effects /\ s.person = r.person /\ s.tenant = r.tenant
    BY <1>1, <1>2 DEF Effects
<1> HIDE DEF s
<1>4. Onward(k, r, s) \in TabTypes /\ TabOK(Onward(k, r, s), cookie')
    BY <1>2, <1>3, RunMoves
<1> QED BY <1>2, <1>4, BecomesInv

\* The page shows what its answer set the cookie to, as nothing else of the tab
\* set it since.
LEMMA RunEndsInv ==
    ASSUME OneTab, SignInInv, NEW k \in Tabs, NEW r \in tabs[k].runs, RunEnds(k, r)
    PROVE  SignInInv'
<1> DEFINE w == Without(k, r)
           S == Session(r.person, r.tenant)
           u == [w EXCEPT !.session = S, !.memberships = {r.tenant}, !.working = FALSE]
<1>1. /\ r \in Effects /\ w \in TabTypes /\ w.runs = {} /\ w.call = NotCalling
      /\ w.session = NoOne /\ w.leaving # "cookie"
    BY RunGone
<1>2. /\ UNCHANGED cookie /\ who' \in People \cup {NoOne} /\ r.is = "opened"
      /\ tabs' = [tabs EXCEPT ![k] = IF r.live THEN Flushed(u, who) ELSE w]
    BY DEF RunEnds, Becomes, SignInInv
<1>3. r.person \in People /\ r.tenant \in Tenants
    BY <1>1, <1>2 DEF Effects
<1>4. cookie \in {NoOne, S}
    BY <1>2 DEF SignInInv, TabOK
<1>5. S \in Sessions /\ S # NoOne
    BY <1>3, SessionIsSomeone
<1> HIDE DEF w, S
<1>6. CASE ~r.live
    BY <1>1, <1>2, <1>6, IdleOK, BecomesInv
<1>7. CASE r.live
    <2>1. \A T \in SUBSET Tenants : [w EXCEPT !.session = S, !.memberships = T, !.working = FALSE] \in TabTypes
        BY <1>1, <1>5 DEF TabTypes
    <2>2. u \in TabTypes
        BY <1>3, <2>1
    <2>3. u.runs = {} /\ u.call = NotCalling /\ u.session = S
        BY <1>1 DEF TabTypes
    <2>4. tabs' = [tabs EXCEPT ![k] = Flushed(u, who)]
        BY <1>2, <1>7
    <2> HIDE DEF u
    <2>5. Flushed(u, who) = u
        BY <1>5, <2>2, <2>3, FlushedQuiet
    <2>6. TabOK(u, cookie')
        BY <1>2, <1>4, <1>5, <2>2, <2>3, OpenOK
    <2> QED BY <1>2, <2>2, <2>4, <2>5, <2>6, BecomesInv
<1> QED BY <1>6, <1>7

LEMMA RunFailsInv ==
    ASSUME OneTab, SignInInv, NEW k \in Tabs, NEW r \in tabs[k].runs, RunFails(k, r)
    PROVE  SignInInv'
<1> DEFINE w == Without(k, r)
           u == [w EXCEPT !.working = @ /\ ~r.live]
<1>1. /\ r \in Effects /\ w \in TabTypes /\ w.runs = {} /\ w.call = NotCalling
      /\ w.session = NoOne /\ w.leaving # "cookie"
    BY RunGone
<1>2. who' \in People \cup {NoOne} /\ tabs' = [tabs EXCEPT ![k] = u]
    BY DEF RunFails, Becomes, SignInInv
<1> HIDE DEF w
<1>3. /\ u \in TabTypes /\ u.runs = {} /\ u.call = NotCalling /\ u.session = NoOne /\ u.leaving # "cookie"
    BY <1>1 DEF TabTypes
<1> HIDE DEF u
<1> QED BY <1>2, <1>3, IdleOK, BecomesInv

\* A tab that does not work runs nothing, and neither calls.
LEMMA AtRest ==
    ASSUME SignInInv, NEW k \in Tabs, ~tabs[k].working
    PROVE  tabs[k].runs = {} /\ tabs[k].call = NotCalling
BY DEF SignInInv, TabOK

LEMMA SubmitsInv ==
    ASSUME OneTab, SignInInv, NEW k \in Tabs, NEW t \in Tenants, ChooseTenant(k, t) \/ CreateOrganisation(k, t)
    PROVE  SignInInv'
<1> DEFINE tab == tabs[k]
<1>1. tab \in TabTypes /\ TabOK(tab, cookie) /\ tab.session = NoOne /\ ~tab.working /\ who \in People
    BY DEF SignInInv, ChooseTenant, CreateOrganisation, Shown
<1>2. PICK what \in {"choosing", "creating"} : Submits(k, what, t)
    BY DEF ChooseTenant, CreateOrganisation
<1>3. tab.runs = {}
    BY <1>1, AtRest
<1> DEFINE made == [is |-> what, person |-> who, tenant |-> t]
           u == [tab EXCEPT !.call = made, !.working = TRUE]
<1>4. UNCHANGED cookie /\ who' \in People \cup {NoOne} /\ tabs' = [tabs EXCEPT ![k] = u]
    BY <1>2 DEF Submits, Becomes, SignInInv
<1>5. made \in TabCalls /\ made.is # "opened"
    BY <1>1 DEF TabCalls
<1> HIDE DEF tab, made
<1>6. /\ u \in TabTypes /\ u.call = made /\ u.working /\ u.runs = {} /\ u.session = NoOne
      /\ u.leaving = tab.leaving
    BY <1>1, <1>3, <1>5 DEF TabTypes
<1> HIDE DEF u
<1>7. TabOK(u, cookie')
    BY <1>1, <1>5, <1>6 DEF TabOK
<1> QED BY <1>4, <1>6, <1>7, BecomesInv

LEMMA CallArrivesInv ==
    ASSUME OneTab, SignInInv, NEW k \in Tabs, CallArrives(k)
    PROVE  SignInInv'
<1> DEFINE tab == tabs[k]
           made == tab.call
           u == [tab EXCEPT !.call.is = "opened"]
<1>1. tab \in TabTypes /\ TabOK(tab, cookie) /\ who' \in People \cup {NoOne}
    BY DEF SignInInv, CallArrives
<1>2. /\ made.is \in {"choosing", "creating"}
      /\ cookie' = Session(made.person, made.tenant)
      /\ tabs' = [tabs EXCEPT ![k] = u]
    BY DEF CallArrives, Becomes
<1>3. made \in TabCalls /\ made # NotCalling
    BY <1>1, <1>2 DEF TabTypes, NotCalling
<1>4. tab.session = NoOne /\ tab.working /\ tab.runs = {} /\ tab.leaving # "cookie"
    BY <1>1, <1>3 DEF TabOK
<1> DEFINE next == [made EXCEPT !.is = "opened"]
<1>5. next \in TabCalls /\ next.person = made.person /\ next.tenant = made.tenant
    BY <1>3 DEF TabCalls
<1>6. u = [tab EXCEPT !.call = next]
    BY <1>1 DEF TabTypes
<1> HIDE DEF tab, made, u, next
<1>7. /\ u \in TabTypes /\ u.call = next /\ u.session = NoOne /\ u.working /\ u.runs = {}
      /\ u.leaving # "cookie"
    BY <1>1, <1>4, <1>5, <1>6 DEF TabTypes
<1>8. TabOK(u, cookie')
    BY <1>2, <1>5, <1>7 DEF TabOK
<1> QED BY <1>1, <1>2, <1>7, <1>8, BecomesInv DEF u, made

LEMMA CallEndsInv ==
    ASSUME OneTab, SignInInv, NEW k \in Tabs, CallEnds(k)
    PROVE  SignInInv'
<1> DEFINE tab == tabs[k]
           S == Session(tab.call.person, tab.call.tenant)
           u == [tab EXCEPT !.session = S, !.call = NotCalling, !.working = FALSE]
<1>1. tab \in TabTypes /\ TabOK(tab, cookie) /\ who' \in People \cup {NoOne}
    BY DEF SignInInv, CallEnds
<1>2. tab.call.is = "opened" /\ UNCHANGED cookie /\ tabs' = [tabs EXCEPT ![k] = Flushed(u, who)]
    BY DEF CallEnds, Becomes
<1>3. tab.call.person \in People /\ tab.call.tenant \in Tenants /\ tab.call # NotCalling
    BY <1>1, <1>2 DEF TabTypes, TabCalls, NotCalling
<1>4. S \in Sessions /\ S # NoOne
    BY <1>3, SessionIsSomeone
<1>5. tab.runs = {} /\ cookie \in {NoOne, S}
    BY <1>1, <1>2, <1>3 DEF TabOK
<1> HIDE DEF tab, S
<1>6. NotCalling \in TabCalls
    BY DEF TabCalls
<1>7. u \in TabTypes /\ u.runs = {} /\ u.call = NotCalling /\ u.session = S
    BY <1>1, <1>4, <1>5, <1>6 DEF TabTypes
<1> HIDE DEF u
<1>8. Flushed(u, who) = u
    BY <1>4, <1>7, FlushedQuiet
<1>9. TabOK(u, cookie')
    BY <1>2, <1>4, <1>5, <1>7, OpenOK
<1> QED BY <1>1, <1>2, <1>7, <1>8, <1>9, BecomesInv

LEMMA CallFailsInv ==
    ASSUME OneTab, SignInInv, NEW k \in Tabs, CallFails(k)
    PROVE  SignInInv'
<1> DEFINE tab == tabs[k]
           u == [tab EXCEPT !.call = NotCalling, !.working = FALSE]
<1>1. tab \in TabTypes /\ TabOK(tab, cookie) /\ who' \in People \cup {NoOne}
    BY DEF SignInInv, CallFails
<1>2. tab.call.is \in {"choosing", "creating"} /\ tabs' = [tabs EXCEPT ![k] = u]
    BY DEF CallFails, Becomes
<1>3. tab.call # NotCalling
    BY <1>2 DEF NotCalling
<1>4. tab.session = NoOne /\ tab.runs = {} /\ tab.leaving # "cookie"
    BY <1>1, <1>3 DEF TabOK
<1>5. NotCalling \in TabCalls
    BY DEF TabCalls
<1> HIDE DEF tab
<1>6. u \in TabTypes /\ u.runs = {} /\ u.call = NotCalling /\ u.session = NoOne /\ u.leaving # "cookie"
    BY <1>1, <1>4, <1>5 DEF TabTypes
<1> HIDE DEF u
<1> QED BY <1>1, <1>2, <1>6, IdleOK, BecomesInv

\* A tab that leaves holds a session, and so does nothing else; with the session
\* gone its effect begins anew.
LEMMA SignOutInv ==
    ASSUME OneTab, SignInInv, NEW k \in Tabs, SignOut(k) \/ ProviderFails(k)
    PROVE  SignInInv'
<1> DEFINE tab == tabs[k]
<1>1. tab \in TabTypes /\ TabOK(tab, cookie) /\ who' \in People \cup {NoOne} /\ UNCHANGED cookie
    BY DEF SignInInv, SignOut, ProviderFails
<1>2. PICK l \in {"cookie", "no"} : /\ tabs' = [tabs EXCEPT ![k] = [tab EXCEPT !.leaving = l]]
                                    /\ l = "cookie" => tab.session # NoOne
    BY DEF SignOut, ProviderFails, Becomes, Shown
<1> DEFINE u == [tab EXCEPT !.leaving = l]
<1> HIDE DEF tab
<1>3. /\ u \in TabTypes /\ u.session = tab.session /\ u.runs = tab.runs /\ u.call = tab.call
      /\ u.working = tab.working /\ u.leaving = l
    BY <1>1 DEF TabTypes
<1>4. tabs' = [tabs EXCEPT ![k] = u]
    BY <1>2
<1> HIDE DEF u
<1>5. TabOK(u, cookie')
    BY <1>1, <1>2, <1>3 DEF TabOK
<1> QED BY <1>1, <1>3, <1>4, <1>5, BecomesInv

LEMMA LeavesInv ==
    ASSUME OneTab, SignInInv, NEW k \in Tabs, Leaves(k)
    PROVE  SignInInv'
<1> DEFINE tab == tabs[k]
           u == [tab EXCEPT !.session = NoOne, !.memberships = Unknown, !.leaving = "provider"]
<1>1. tab \in TabTypes /\ TabOK(tab, cookie) /\ who \in People \cup {NoOne}
    BY DEF SignInInv
<1>2. UNCHANGED who /\ tab.leaving = "cookie" /\ tabs' = [tabs EXCEPT ![k] = Flushed(u, who)]
    BY DEF Leaves, Becomes
<1>3. tab.runs = {} /\ tab.call = NotCalling
    BY <1>1, <1>2 DEF TabOK
<1> HIDE DEF tab
<1>4. Unknown \in SUBSET (Tenants \cup {"unknown"})
    BY DEF Unknown
<1>5. u \in TabTypes /\ u.runs = {} /\ u.call = NotCalling /\ u.session = NoOne /\ u.leaving # "cookie"
    BY <1>1, <1>3, <1>4 DEF TabTypes
<1> HIDE DEF u
<1>6. Flushed(u, who) \in TabTypes /\ TabOK(Flushed(u, who), cookie')
    BY <1>1, <1>5, BegunOK
<1> QED BY <1>1, <1>2, <1>6, BecomesInv

LEMMA ProviderLeavesInv ==
    ASSUME OneTab, SignInInv, NEW k \in Tabs, ProviderLeaves(k)
    PROVE  SignInInv'
<1> DEFINE tab == Flushed(tabs[k], NoOne)
           u == [tab EXCEPT !.leaving = "no"]
<1>1. tabs[k] \in TabTypes /\ TabOK(tabs[k], cookie)
    BY DEF SignInInv
<1>2. tab \in TabTypes /\ TabOK(tab, cookie)
    BY <1>1, FlushedOut
<1>3. UNCHANGED cookie /\ who' \in People \cup {NoOne}
    BY DEF ProviderLeaves
<1>4. tabs' = [tabs EXCEPT ![k] = u]
    <2>1. \A m \in Tabs : m = k
        BY DEF OneTab
    <2>2. tabs' = [[m \in Tabs |-> Flushed(tabs[m], NoOne)] EXCEPT ![k].leaving = "no"]
        BY DEF ProviderLeaves, AllFlushed
    <2>3. tabs' = [m \in Tabs |-> u]
        BY <2>1, <2>2
    <2> QED BY <2>1, <2>3 DEF SignInInv
<1> HIDE DEF tab
<1>5. /\ u \in TabTypes /\ u.session = tab.session /\ u.runs = tab.runs /\ u.call = tab.call
      /\ u.working = tab.working /\ u.leaving = "no"
    BY <1>2 DEF TabTypes
<1> HIDE DEF u
<1>6. TabOK(u, cookie')
    BY <1>2, <1>3, <1>5 DEF TabOK
<1> QED BY <1>3, <1>4, <1>5, <1>6, BecomesInv

LEMMA LogInInv ==
    ASSUME OneTab, SignInInv, NEW k \in Tabs, NEW p \in People, LogIn(k, p)
    PROVE  SignInInv'
<1> DEFINE tab == tabs[k]
           u == Flushed(tab, p)
<1>1. tab \in TabTypes /\ TabOK(tab, cookie) /\ tab.session = NoOne /\ ~tab.working
    BY DEF SignInInv, LogIn, Shown
<1>2. tab.runs = {} /\ tab.call = NotCalling /\ tab.leaving # "cookie"
    BY <1>1, AtRest DEF TabOK
<1>3. UNCHANGED cookie /\ who' \in People \cup {NoOne}
    BY DEF LogIn
<1>4. tabs' = [tabs EXCEPT ![k] = u]
    BY DEF LogIn, AllFlushed, OneTab, SignInInv
<1>5. u \in TabTypes /\ TabOK(u, cookie')
    BY <1>1, <1>2, BegunOK
<1> QED BY <1>3, <1>4, <1>5, BecomesInv

LEMMA NewTabIdle ==
    /\ NewTab \in TabTypes /\ NewTab.runs = {} /\ NewTab.call = NotCalling
    /\ NewTab.session = NoOne /\ NewTab.leaving # "cookie"
BY DEF NewTab, TabTypes, TabCalls, Unknown

LEMMA ReloadTabInv ==
    ASSUME OneTab, SignInInv, NEW k \in Tabs, ReloadTab(k)
    PROVE  SignInInv'
<1>1. tabs' = [tabs EXCEPT ![k] = Flushed(NewTab, who)] /\ UNCHANGED who /\ who \in People \cup {NoOne}
    BY DEF ReloadTab, Becomes, SignInInv
<1>2. Flushed(NewTab, who) \in TabTypes /\ TabOK(Flushed(NewTab, who), cookie')
    BY <1>1, NewTabIdle, BegunOK
<1> QED BY <1>1, <1>2, BecomesInv

LEMMA CookieExpiresInv == ASSUME SignInInv, CookieExpires PROVE SignInInv'
BY DEF SignInInv, CookieExpires, TabOK

LEMMA SignInNextInv == OneTab /\ SignInInv /\ [SignInNext]_signInVars => SignInInv'
<1> SUFFICES ASSUME OneTab, SignInInv, [SignInNext]_signInVars PROVE SignInInv'
    OBVIOUS
<1>1. ASSUME NEW k \in Tabs, NEW r \in tabs[k].runs,
             TenantsAnswered(k, r) \/ SessionArrives(k, r) \/ RunEnds(k, r) \/ RunFails(k, r)
      PROVE  SignInInv'
    BY <1>1, TenantsAnsweredInv, SessionArrivesInv, RunEndsInv, RunFailsInv
<1>2. ASSUME NEW k \in Tabs, \E t \in Tenants : ChooseTenant(k, t) \/ CreateOrganisation(k, t) PROVE SignInInv'
    BY <1>2, SubmitsInv
<1>3. ASSUME NEW k \in Tabs, CallArrives(k) \/ CallEnds(k) \/ CallFails(k) PROVE SignInInv'
    BY <1>3, CallArrivesInv, CallEndsInv, CallFailsInv
<1>4. ASSUME NEW k \in Tabs, SignOut(k) \/ Leaves(k) \/ ProviderLeaves(k) \/ ProviderFails(k) PROVE SignInInv'
    BY <1>4, SignOutInv, LeavesInv, ProviderLeavesInv
<1>5. ASSUME NEW k \in Tabs, ReloadTab(k) \/ \E p \in People : LogIn(k, p) PROVE SignInInv'
    BY <1>5, LogInInv, ReloadTabInv
<1>6. CASE UNCHANGED signInVars
    BY <1>6 DEF signInVars, SignInInv
<1> QED BY <1>1, <1>2, <1>3, <1>4, <1>5, <1>6, CookieExpiresInv DEF SignInNext

LEMMA SignInInitInv == SignInInit => SignInInv
<1> SUFFICES ASSUME SignInInit PROVE SignInInv
    OBVIOUS
<1>1. \A k \in Tabs : tabs[k] = NewTab /\ TabOK(tabs[k], cookie)
    BY NewTabIdle, IdleOK DEF SignInInit
<1> QED BY <1>1, NewTabIdle DEF SignInInit, SignInInv

\* For any people, organisations and order of answers, choices, reloads and
\* expiries: what a browser's one tab shows is whom and what its cookie acts as.
\* (Two tabs share the cookie and not the session they show: for them it fails.)
THEOREM ShowsWhoActs == OneTab /\ SignInSpec => []ShownIsActing
<1>1. SignInInv => ShownIsActing
    BY DEF SignInInv, TabOK, ShownIsActing
<1>2. OneTab /\ SignInSpec => []SignInInv
    <2>1. SUFFICES ASSUME OneTab PROVE SignInSpec => []SignInInv
        OBVIOUS
    <2>2. SignInInv /\ [SignInNext]_signInVars => SignInInv'
        BY <2>1, SignInNextInv
    <2> QED BY <2>2, SignInInitInv, PTL DEF SignInSpec
<1> QED BY <1>1, <1>2, PTL

----------------------------------------------------------------------------
(* RpcRouter *)

Windows == [ticks : Nat, granted : Nat, on : BOOLEAN, over : BOOLEAN]

BucketTypes ==
    /\ tokens \in Nat /\ tokens =< Capacity
    /\ waiters \in Seq(Requests \X Lanes)
    /\ window \in Windows

\* A window that counts has granted what it began with and what was refilled,
\* less what is left.
WindowCounts ==
    IF window.on THEN window.granted * Part + tokens =< Capacity + window.ticks * PerTick
                 ELSE window.granted = 0 /\ window.ticks = 0

BucketInv == BucketTypes /\ WindowCounts /\ NoOvertaking

\* What is back of a lane's batch was in it.
AnswersInv ==
    /\ back = [r \in Requests |-> [l \in Lanes |-> back[r][l]]]
    /\ \A r \in Requests, l \in Lanes : back[r][l] \subseteq IdsOf(BodyOf[r], l)
    /\ answer = [r \in Requests |-> answer[r]]
    /\ EachCallItsReply

LEMMA PartsOfTokens ==
    ASSUME NEW have \in Nat, NEW d \in Nat \ {0}
    PROVE  have \div d \in Nat /\ (have \div d) * d =< have /\ have < (have \div d) * d + d
OBVIOUS

\* With no more served than the parts are good for, the parts that are left
\* are a number, and granting is but a move from the bucket to the window.
LEMMA ServedFits ==
    ASSUME NEW have \in Nat, NEW d \in Nat \ {0}, NEW n \in Nat, n =< have \div d
    PROVE  have - n * d \in Nat
<1>1. PICK k \in Nat : have \div d = n + k
    <2>1. (have \div d) - n \in Nat /\ have \div d = n + ((have \div d) - n)
        BY PartsOfTokens
    <2> QED BY <2>1
<1>2. (have \div d) * d = n * d + k * d
    BY <1>1
<1>3. n * d \in Nat /\ k * d \in Nat
    OBVIOUS
<1> QED BY <1>2, <1>3, PartsOfTokens

LEMMA GrantMoves ==
    ASSUME NEW g \in Nat, NEW n \in Nat, NEW d \in Nat
    PROVE  (g + n) * d = g * d + n * d /\ g * d \in Nat /\ n * d \in Nat
OBVIOUS

LEMMA RefillInv == ASSUME BucketInv, Refill PROVE BucketInv'
<1> DEFINE have == MinOf(Capacity, tokens + PerTick)
           n == MinOf(Len(waiters), have \div Part)
<1>1. have \in Nat /\ have =< Capacity /\ have =< tokens + PerTick
    BY RouterAssumption DEF BucketInv, BucketTypes, MinOf
<1>2. /\ tokens' = have - n * Part
      /\ waiters' = SubSeq(waiters, n + 1, Len(waiters))
      /\ window' = NextTick(Counted(n))
    BY DEF Refill, ServeFrom
<1>3. have \div Part \in Nat
    <2> HIDE DEF have
    <2> QED BY <1>1, RouterAssumption
<1>4. Len(waiters) \in Nat
    BY DEF BucketInv, BucketTypes
<1> HIDE DEF have
<1>5. n \in Nat /\ n =< have \div Part /\ n =< Len(waiters) /\ n \in {Len(waiters), have \div Part}
    BY <1>3, <1>4 DEF MinOf
<1> HIDE DEF n
<1>6. have - n * Part \in Nat /\ n * Part \in Nat
    <2>1. Part \in Nat \ {0}
        BY RouterAssumption
    <2>2. have - n * Part \in Nat
        BY <1>1, <1>5, <2>1, ServedFits
    <2>3. \A x, y \in Nat : x * y \in Nat
        OBVIOUS
    <2> QED BY <1>5, <2>1, <2>2, <2>3
<1>7. tokens' \in Nat /\ tokens' =< Capacity
    BY <1>1, <1>2, <1>6, RouterAssumption
<1>8. waiters' \in Seq(Requests \X Lanes)
    BY <1>2, <1>4, <1>5 DEF BucketInv, BucketTypes
<1>9. NoOvertaking'
    <2>1. CASE n = Len(waiters)
        <3>1. waiters' = <<>>
            BY <1>2, <1>4, <2>1 DEF BucketInv, BucketTypes
        <3> QED BY <3>1 DEF NoOvertaking
    <2>2. CASE n = have \div Part
        <3>1. have < n * Part + Part
            BY <1>1, <2>2, PartsOfTokens, RouterAssumption
        <3> QED BY <1>1, <1>2, <1>6, <3>1, RouterAssumption DEF NoOvertaking
    <2> QED BY <1>5, <2>1, <2>2
<1>10. window' \in Windows /\ WindowCounts'
    <2>1. CASE ~window.on
        BY <1>2, <2>1 DEF BucketInv, BucketTypes, Windows, WindowCounts, NextTick, Counted
    <2>2. CASE window.on /\ window.ticks = MaxTicks
        BY <1>2, <2>2 DEF BucketInv, BucketTypes, Windows, WindowCounts, NextTick, Counted, ClosedWindow, NotCounting
    <2>3. CASE window.on /\ window.ticks # MaxTicks
        <3>1. window' = [window EXCEPT !.granted = @ + n, !.ticks = @ + 1]
            BY <1>2, <2>3 DEF BucketInv, BucketTypes, Windows, NextTick, Counted
        <3>3. window.granted \in Nat /\ window.ticks \in Nat /\ window.over \in BOOLEAN
            BY DEF BucketInv, BucketTypes, Windows
        <3>9. window' = [ticks |-> window.ticks + 1, granted |-> window.granted + n, on |-> TRUE, over |-> window.over]
            BY <2>3, <3>1 DEF BucketInv, BucketTypes, Windows
        <3>2. /\ window' \in Windows /\ window'.on
              /\ window'.granted = window.granted + n /\ window'.ticks = window.ticks + 1
            BY <1>5, <3>3, <3>9 DEF Windows
        <3>4. (window.granted + n) * Part = window.granted * Part + n * Part /\ window.granted * Part \in Nat
            BY <1>5, <3>3, GrantMoves, RouterAssumption
        <3>5. (window.ticks + 1) * PerTick = window.ticks * PerTick + PerTick /\ window.ticks * PerTick \in Nat
            BY <3>3, GrantMoves, RouterAssumption
        <3>6. window.granted * Part + tokens =< Capacity + window.ticks * PerTick
            BY <2>3 DEF BucketInv, WindowCounts
        <3>7. tokens' + n * Part =< tokens + PerTick
            BY <1>1, <1>2, <1>6
        <3>10. \A x, y, z, c, u, t, p \in Nat :
                  /\ x + t =< c + z
                  /\ u + y =< t + p
                  => (x + y) + u =< c + (z + p)
            OBVIOUS
        <3>11. tokens \in Nat /\ tokens' \in Nat /\ Capacity \in Nat /\ PerTick \in Nat
            BY <1>7, RouterAssumption DEF BucketInv, BucketTypes
        <3>8. (window.granted + n) * Part + tokens' =< Capacity + (window.ticks + 1) * PerTick
            BY <3>10, <3>11, <1>6, <3>4, <3>5, <3>6, <3>7
        <3> QED BY <3>2, <3>8 DEF WindowCounts
    <2> QED BY <2>1, <2>2, <2>3
<1> QED BY <1>7, <1>8, <1>9, <1>10 DEF BucketInv, BucketTypes

\* A newcomer is let through at once only where nobody waits.
LEMMA ReceiveBatchInv == ASSUME NEW r \in Requests, BucketInv, ReceiveBatch(r) PROVE BucketInv'
<1> DEFINE has == CallsOf(BodyOf[r], "trace") # {}
           now == has /\ tokens >= Part
<1>1. /\ tokens' = IF now THEN tokens - Part ELSE tokens
      /\ waiters' = IF has /\ ~now THEN Append(waiters, <<r, "trace">>) ELSE waiters
      /\ window' = IF now THEN Counted(1) ELSE window
    BY DEF ReceiveBatch
<1> HIDE DEF has
<1>2. CASE now
    <2>1. waiters = <<>> /\ waiters' = <<>> /\ tokens' = tokens - Part /\ tokens' \in Nat
        BY <1>1, <1>2, RouterAssumption DEF BucketInv, BucketTypes, NoOvertaking
    <2>2. CASE ~window.on
        BY <1>1, <1>2, <2>1, <2>2, RouterAssumption
           DEF BucketInv, BucketTypes, WindowCounts, NoOvertaking, Counted
    <2>3. CASE window.on
        <3>1. window' = [window EXCEPT !.granted = @ + 1]
            BY <1>1, <1>2, <2>3 DEF Counted
        <3>2. /\ window' \in Windows /\ window'.on
              /\ window'.granted = window.granted + 1 /\ window'.ticks = window.ticks
            BY <2>3, <3>1 DEF BucketInv, BucketTypes, Windows
        <3>3. window.granted \in Nat /\ window.ticks \in Nat
            BY DEF BucketInv, BucketTypes, Windows
        <3>4. (window.granted + 1) * Part = window.granted * Part + Part /\ window.granted * Part \in Nat
            BY <3>3, GrantMoves, RouterAssumption
        <3>5. window.granted * Part + tokens =< Capacity + window.ticks * PerTick
            BY <2>3 DEF BucketInv, WindowCounts
        <3>6. (window.granted + 1) * Part + tokens' =< Capacity + window.ticks * PerTick
            BY <2>1, <3>4, <3>5, RouterAssumption DEF BucketInv, BucketTypes
        <3>7. WindowCounts'
            BY <3>2, <3>6 DEF WindowCounts
        <3> QED BY <2>1, <3>2, <3>7, RouterAssumption DEF BucketInv, BucketTypes, NoOvertaking
    <2> QED BY <2>2, <2>3
<1>3. CASE ~now
    <2>1. tokens' = tokens /\ window' = window /\ waiters' \in Seq(Requests \X Lanes)
        BY <1>1, <1>3 DEF BucketInv, BucketTypes, Lanes
    <2>2. has => tokens < Part
        BY <1>3, RouterAssumption DEF BucketInv, BucketTypes
    <2>3. NoOvertaking'
        BY <1>1, <1>3, <2>1, <2>2 DEF BucketInv, NoOvertaking
    <2> QED BY <2>1, <2>3 DEF BucketInv, BucketTypes, WindowCounts
<1> QED BY <1>2, <1>3

LEMMA BucketNextInv == BucketInv /\ [RouterNext]_routerVars => BucketInv'
<1> SUFFICES ASSUME BucketInv, [RouterNext]_routerVars PROVE BucketInv'
    OBVIOUS
<1>1. CASE StartCounting
    <2>1. /\ window' = [ticks |-> 0, granted |-> 0, on |-> TRUE, over |-> FALSE]
          /\ UNCHANGED <<tokens, waiters>>
        BY <1>1 DEF StartCounting, NotCounting
    <2> QED BY <2>1, RouterAssumption DEF BucketInv, BucketTypes, Windows, WindowCounts, NoOvertaking
<1>2. CASE UNCHANGED <<tokens, waiters, window>>
    BY <1>2 DEF BucketInv, BucketTypes, WindowCounts, NoOvertaking
<1>3. ASSUME NEW r \in Requests, RouterStep(r), ~ReceiveBatch(r) PROVE UNCHANGED <<tokens, waiters, window>>
    BY <1>3 DEF RouterStep, Respond, LaneAnswered, Refused, CutOff, TryAgain
<1> QED BY <1>1, <1>2, <1>3, RefillInv, ReceiveBatchInv DEF RouterNext, RouterStep, routerVars

\* An id that came back in a lane is that of a call of the lane, and so of no
\* call of the other.
LEMMA MergeReplies ==
    ASSUME NEW r \in Requests, NEW got, \A l \in Lanes : got[l] \subseteq IdsOf(BodyOf[r], l)
    PROVE  /\ Len(Merge(BodyOf[r], got)) = Len(BodyOf[r])
           /\ \A i \in DOMAIN BodyOf[r] :
                 Merge(BodyOf[r], got)[i] \in {Reply(BodyOf[r][i]), NoResponse(BodyOf[r][i])}
<1> DEFINE b == BodyOf[r]
<1>1. Len(b) \in Nat /\ DOMAIN b = 1..Len(b)
    BY RouterAssumption
<1>2. \A i, j \in DOMAIN b : b[i].id = b[j].id => b[i].lane = b[j].lane
    BY RouterAssumption
<1> HIDE DEF b
<1>3. DOMAIN Merge(b, got) = 1..Len(b)
    BY <1>1 DEF Merge
<1>4. Len(Merge(b, got)) = Len(b)
    BY <1>1, <1>3
<1>5. ASSUME NEW i \in DOMAIN b, NEW l \in Lanes, b[i].id \in got[l]
      PROVE  b[i].lane = l
    BY <1>2, <1>5 DEF IdsOf, CallsOf, b
<1>6. ASSUME NEW i \in DOMAIN b PROVE Merge(b, got)[i] \in {Reply(b[i]), NoResponse(b[i])}
    <2>1. CASE b[i].id \in got["default"]
        BY <1>5, <1>6, <2>1 DEF Merge, Reply, Lanes
    <2>2. CASE b[i].id \notin got["default"] /\ b[i].id \in got["trace"]
        BY <1>5, <1>6, <2>2 DEF Merge, Reply, Lanes
    <2>3. CASE b[i].id \notin got["default"] /\ b[i].id \notin got["trace"]
        BY <1>6, <2>3 DEF Merge
    <2> QED BY <2>1, <2>2, <2>3
<1> QED BY <1>4, <1>6 DEF b

LEMMA AnswersNextInv == AnswersInv /\ [RouterNext]_routerVars => AnswersInv'
<1> SUFFICES ASSUME AnswersInv, [RouterNext]_routerVars PROVE AnswersInv'
    OBVIOUS
<1>1. CASE UNCHANGED <<back, answer>>
    BY <1>1 DEF AnswersInv, EachCallItsReply
<1>2. ASSUME NEW r \in Requests, NEW l \in Lanes, LaneAnswered(r, l) PROVE AnswersInv'
    <2>1. PICK ids \in SUBSET IdsOf(BodyOf[r], l) : back' = [back EXCEPT ![r][l] = ids]
        BY <1>2 DEF LaneAnswered
    <2>2. back' = [q \in Requests |-> [m \in Lanes |-> back'[q][m]]]
        BY <2>1 DEF AnswersInv
    <2>3. \A q \in Requests, m \in Lanes : back'[q][m] \subseteq IdsOf(BodyOf[q], m)
        BY <2>1 DEF AnswersInv
    <2>4. UNCHANGED answer
        BY <1>2 DEF LaneAnswered
    <2> QED BY <2>2, <2>3, <2>4 DEF AnswersInv, EachCallItsReply
<1>3. ASSUME NEW r \in Requests, Respond(r) PROVE AnswersInv'
    <2>1. UNCHANGED back
        BY <1>3 DEF Respond
    <2>2. PICK a : /\ answer' = [answer EXCEPT ![r] = a]
                   /\ a \in {Failed, [kind |-> "replies", replies |-> Merge(BodyOf[r], back[r])]}
        BY <1>3 DEF Respond
    <2>3. answer' = [q \in Requests |-> answer'[q]] /\ answer'[r] = a
        BY <2>2 DEF AnswersInv
    <2>4. \A q \in Requests : q # r => answer'[q] = answer[q]
        BY <2>2 DEF AnswersInv
    <2>5. a.kind = "replies" =>
              /\ Len(a.replies) = Len(BodyOf[r])
              /\ \A i \in DOMAIN BodyOf[r] : a.replies[i] \in {Reply(BodyOf[r][i]), NoResponse(BodyOf[r][i])}
        <3>1. \A l \in Lanes : back[r][l] \subseteq IdsOf(BodyOf[r], l)
            BY DEF AnswersInv
        <3> QED BY <2>2, <3>1, MergeReplies DEF Failed
    <2>6. EachCallItsReply'
        BY <2>3, <2>4, <2>5 DEF AnswersInv, EachCallItsReply
    <2> QED BY <2>1, <2>3, <2>6 DEF AnswersInv
<1>4. ASSUME NEW r \in Requests, ReceiveBatch(r) \/ \E l \in Lanes : Refused(r, l) \/ CutOff(r, l) \/ TryAgain(r, l)
      PROVE  UNCHANGED <<back, answer>>
    BY <1>4 DEF ReceiveBatch, Refused, CutOff, TryAgain
<1>5. CASE Refill \/ StartCounting
    BY <1>1, <1>5 DEF Refill, ServeFrom, StartCounting
<1>6. CASE UNCHANGED routerVars
    BY <1>1, <1>6 DEF routerVars
<1> QED BY <1>1, <1>2, <1>3, <1>4, <1>5, <1>6 DEF RouterNext, RouterStep

LEMMA RouterInitInv == RouterInit => BucketInv /\ AnswersInv
<1> SUFFICES ASSUME RouterInit PROVE BucketInv /\ AnswersInv
    OBVIOUS
<1>1. BucketInv
    BY RouterAssumption DEF RouterInit, BucketInv, BucketTypes, Windows, WindowCounts, NoOvertaking, NotCounting
<1>2. AnswersInv
    BY DEF RouterInit, AnswersInv, EachCallItsReply, NotYet
<1> QED BY <1>1, <1>2

\* For any requests, rates and bursts: nobody overtakes the queue of the tracing
\* lane, no stretch of time lets more through than a full bucket and its refill,
\* and every call of an answered batch has its own lane's reply or none (router.mjs).
THEOREM RouterIsFair == RouterSpec => []RoutesFairly
<1>1. BucketInv => NoOvertaking /\ WindowBounded
    <2> SUFFICES ASSUME BucketInv PROVE WindowBounded
        BY DEF BucketInv
    <2>1. window.granted \in Nat /\ window.ticks \in Nat
        BY DEF BucketInv, BucketTypes, Windows
    <2>2. window.granted * Part \in Nat /\ window.ticks * PerTick \in Nat
        BY <2>1, GrantMoves, RouterAssumption
    <2>3. CASE window.on
        BY <2>2, <2>3, RouterAssumption DEF BucketInv, BucketTypes, WindowCounts, WindowBounded
    <2>4. CASE ~window.on
        <3>1. window.granted * Part = 0
            BY <2>4, RouterAssumption DEF BucketInv, WindowCounts
        <3> QED BY <2>2, <3>1, RouterAssumption DEF WindowBounded
    <2> QED BY <2>3, <2>4
<1>2. AnswersInv => EachCallItsReply
    BY DEF AnswersInv
<1> QED BY <1>1, <1>2, RouterInitInv, BucketNextInv, AnswersNextInv, PTL DEF RouterSpec, RoutesFairly

----------------------------------------------------------------------------
(* Funding *)

\* What the page renders comes from the load it is at, or an earlier one.
PageInv ==
    /\ page = [rows |-> page.rows, error |-> page.error, from |-> page.from]
    /\ page.from \in Nat /\ currentLoad \in Nat /\ page.from =< currentLoad

LEMMA PageRendersALoad == PageInit => PageInv
BY DEF PageInit, PageInv

\* Only the load the page is at is rendered, and only a reload moves the page on.
LEMMA PageMoves ==
    ASSUME PageInv, [PageNext]_pageVars
    PROVE  /\ currentLoad' \in {currentLoad, currentLoad + 1}
           /\ page'.from \in {page.from, currentLoad'}
           /\ page' = [rows |-> page'.rows, error |-> page'.error, from |-> page'.from]
<1>1. ASSUME NEW n \in Loads, LoadArrives(n)
      PROVE  /\ UNCHANGED currentLoad
             /\ page' = page \/ page' = [rows |-> load[n].got, error |-> FALSE, from |-> currentLoad]
    BY <1>1 DEF LoadArrives, Commits
<1>2. ASSUME NEW n \in Loads, LoadFails(n)
      PROVE  /\ UNCHANGED currentLoad
             /\ page' = page \/ page' = [rows |-> page.rows, error |-> TRUE, from |-> currentLoad]
    BY <1>2 DEF LoadFails, Commits, PageInv
<1>3. CASE PageBackend
    BY <1>3 DEF PageBackend, ListFunding, OthersRead, Drop, PageInv
<1>4. CASE Retry
    BY <1>4 DEF Retry, ReloadPage, PageInv
<1>5. ASSUME NEW k \in Runs, Receipt(k)
      PROVE  UNCHANGED page /\ currentLoad' \in {currentLoad, currentLoad + 1}
    BY <1>5 DEF Receipt, ReloadPage
<1>6. ASSUME NEW k \in Runs,
             \/ \E c \in Chains, act \in ContractCalls : Submit(k, c, act)
             \/ Attested(k) \/ Switch(k) \/ CheckChain(k) \/ SendTransaction(k) \/ Declined(k) \/ GivesUp(k)
      PROVE  UNCHANGED <<page, currentLoad>>
    BY <1>6 DEF Submit, Attested, Switch, CheckChain, SendTransaction, Declined, GivesUp
<1>7. ASSUME NEW t \in sent, Include(t) PROVE UNCHANGED <<page, currentLoad>>
    BY <1>7 DEF Include
<1>8. CASE Wallet
    BY <1>5, <1>6, <1>7, <1>8 DEF Wallet, PageInv
<1>9. CASE \E n \in Loads : LoadArrives(n) \/ LoadFails(n)
    BY <1>1, <1>2, <1>9 DEF PageInv
<1>10. CASE UNCHANGED pageVars
    BY <1>10 DEF pageVars, PageInv
<1> QED BY <1>3, <1>4, <1>8, <1>9, <1>10 DEF PageNext, Page

\* For any chains, loads and submissions, in whatever order the answers arrive:
\* the page never goes back from a later load to an earlier one (the cancelled
\* effect of account.ts).
THEOREM PageNeverGoesBack == PageSpec => NeverBack
<1>1. PageInv /\ [PageNext]_pageVars => PageInv'
    <2> SUFFICES ASSUME PageInv, [PageNext]_pageVars PROVE PageInv'
        OBVIOUS
    <2> QED BY PageMoves DEF PageInv
<1>2. PageInv /\ [PageNext]_pageVars => [page'.from >= page.from]_pageVars
    <2> SUFFICES ASSUME PageInv, [PageNext]_pageVars PROVE page'.from >= page.from
        OBVIOUS
    <2> QED BY PageMoves DEF PageInv
<1> QED BY <1>1, <1>2, PageRendersALoad, PTL DEF PageSpec, NeverBack
=============================================================================
