------------------------- MODULE SponsorshipProofs -------------------------
(***************************************************************************)
(* Proofs about Sponsorship, for every set of requests and of quotas, every *)
(* policy over time and every failure: what the counters of the store are  *)
(* worth.                                                                  *)
(*                                                                         *)
(* The inductive invariant says what a request is owed by a counter from   *)
(* the rules it has reserved with and not released (Charged): that makes   *)
(* the sum over requests, Owed, move by exactly what a step moves in `used`.*)
(***************************************************************************)
EXTENDS Sponsorship, SumsProofs

USE SponsorshipAssumption

Over == {"denied", "failed"}

\* What a rule in `reserved` charged.
Due(r, q) == IF q \in reserved[r] /\ Carries(r, q) THEN AmountFor(q, r) ELSE 0

\* No more than that is owed; where nothing is refunded, exactly that.
Within == \A r \in Request, q \in Quota : left[r][q] =< Due(r, q)
Charged == \A r \in Request, q \in Quota : left[r][q] = Due(r, q)

\* No rule that has reserved is evaluated again, and nothing is reserved before
\* the evaluation or when the request was refused.
Orderly ==
    \A r \in Request :
        /\ todo[r] \cap reserved[r] = {}
        /\ phase[r] \in {"new", "received"} \cup Over => reserved[r] = {}

\* Only releases that are sent again take what is not owed.
Unleaked == "releaseResent" \notin Fault => \A s \in Slot : leaked[s] = 0

\* What holds with a reconciler too (SpendReconciliationProofs).
Base == SponsorTypeOK /\ now =< MaxTime /\ Within /\ Orderly

IInv == Base /\ Charged /\ Unleaked /\ CountersCover /\ CountersExact

----------------------------------------------------------------------------
(* Arithmetic, and slots *)

LEMMA DivisionNat ==
  ASSUME NEW a \in Nat, NEW d \in Nat \ {0}
  PROVE  a \div d \in Nat
OBVIOUS

LEMMA DivisionMonotonic ==
  ASSUME NEW a \in Nat, NEW b \in Nat, a =< b, NEW d \in Nat \ {0}
  PROVE  a \div d =< b \div d
OBVIOUS

LEMMA AmountNat ==
  ASSUME NEW q \in Quota, NEW r \in Request
  PROVE  AmountFor(q, r) \in Nat
<1>1. request[r].maxCost \in Nat
  BY DEF RequestFields
<1>2. request[r].maxCost + WeiPerGwei - 1 \in Nat
  BY <1>1
<1> QED
  BY <1>2, DivisionNat DEF AmountFor, CeilGwei

LEMMA LimitNat ==
  ASSUME NEW q \in Quota
  PROVE  CountedLimit(q) \in Nat
<1>1. quota[q].limit \in Nat
  BY DEF QuotaFields
<1> QED
  BY <1>1, DivisionNat DEF CountedLimit

LEMMA SlotOfType ==
  ASSUME NEW q \in Quota, NEW r \in Request, Carries(r, q), NEW t \in 0..MaxTime
  PROVE  SlotOf(q, r, t) \in Slot /\ SlotOf(q, r, t).quota = q
<1>1. request[r].subject[q] \in Subject
  BY DEF RequestFields, Carries
<1>2. t \div WindowSeconds \in Nat
  BY DivisionNat
<1>3. t \div WindowSeconds =< (MaxTime + 1) \div WindowSeconds
  BY DivisionMonotonic
<1>4. (MaxTime + 1) \div WindowSeconds \in Nat
  BY DivisionNat
<1> QED
  BY <1>1, <1>2, <1>3, <1>4 DEF SlotOf, Slot

----------------------------------------------------------------------------
(* What requests hold *)

\* The types alone; the instances of the lemma before and after a step.
LEMMA HeldNat ==
  ASSUME SponsorTypeOK, NEW r \in Request, NEW s \in Slot
  PROVE  HeldBy(r, s) \in Nat
<1>1. PICK q \in Quota : s.quota = q
  BY DEF Slot
<1>2. left[r][q] \in Nat
  BY DEF SponsorTypeOK
<1>3. HeldBy(r, s) \in {left[r][q], 0}
  BY <1>1 DEF HeldBy
<1> QED
  BY <1>2, <1>3

LEMMA HeldNatNext ==
  ASSUME SponsorTypeOK', NEW r \in Request, NEW s \in Slot
  PROVE  HeldBy(r, s)' \in Nat
<1>1. PICK q \in Quota : s.quota = q
  BY DEF Slot
<1>2. left'[r][q] \in Nat
  BY DEF SponsorTypeOK
<1>3. HeldBy(r, s)' \in {left'[r][q], 0}
  BY <1>1 DEF HeldBy
<1> QED
  BY <1>2, <1>3

\* A sum of natural numbers, and each of them is at most the sum.
LEMMA OwedNat ==
  ASSUME SponsorTypeOK, NEW s \in Slot
  PROVE  /\ Owed(s) \in Nat
         /\ \A r \in Request : HeldBy(r, s) =< Owed(s)
<1> DEFINE f == [r \in Request |-> HeldBy(r, s)]
<1>1. \A r \in Request : f[r] \in Nat
  BY HeldNat
<1> HIDE DEF f
<1>2. SumOver(f, Request) \in Nat /\ \A r \in Request : f[r] =< SumOver(f, Request)
  BY <1>1, SumNat
<1> QED
  BY <1>2 DEF f, Owed

LEMMA OwedNatNext ==
  ASSUME SponsorTypeOK', NEW s \in Slot
  PROVE  Owed(s)' \in Nat
<1> DEFINE f == [r \in Request |-> HeldBy(r, s)']
<1>1. \A r \in Request : f[r] \in Nat
  BY HeldNatNext
<1> HIDE DEF f
<1>2. SumOver(f, Request) \in Nat
  BY <1>1, SumNat
<1> QED
  BY <1>2 DEF f, Owed

\* Owed moves by what one request's share moves.
LEMMA OwedMoves ==
  ASSUME SponsorTypeOK, SponsorTypeOK', NEW s \in Slot, NEW r \in Request,
         \A x \in Request \ {r} : HeldBy(x, s)' = HeldBy(x, s)
  PROVE  Owed(s)' = Owed(s) - HeldBy(r, s) + HeldBy(r, s)'
<1> DEFINE f == [x \in Request |-> HeldBy(x, s)]
           h == [x \in Request |-> HeldBy(x, s)']
<1>1. \A x \in Request : f[x] \in Int /\ h[x] \in Int
  BY HeldNat, HeldNatNext
<1>2. \A x \in Request \ {r} : h[x] = f[x]
  OBVIOUS
<1>3. f[r] = HeldBy(r, s) /\ h[r] = HeldBy(r, s)'
  OBVIOUS
<1>4. Owed(s) = SumOver(f, Request) /\ Owed(s)' = SumOver(h, Request)
  BY DEF Owed
<1> HIDE DEF f, h
<1>5. SumOver(h, Request) = SumOver(f, Request) - f[r] + h[r]
  BY <1>1, <1>2, SumChange
<1> QED
  BY <1>3, <1>4, <1>5

LEMMA OwedKept ==
  ASSUME SponsorTypeOK, SponsorTypeOK', NEW s \in Slot,
         \A x \in Request : HeldBy(x, s)' = HeldBy(x, s)
  PROVE  Owed(s)' = Owed(s)
<1> DEFINE f == [x \in Request |-> HeldBy(x, s)]
           h == [x \in Request |-> HeldBy(x, s)']
<1>1. \A x \in Request : f[x] \in Int /\ h[x] = f[x]
  BY HeldNat
<1>2. Owed(s) = SumOver(f, Request) /\ Owed(s)' = SumOver(h, Request)
  BY DEF Owed
<1> HIDE DEF f, h
<1>3. SumOver(h, Request) = SumOver(f, Request)
  BY <1>1, SumSame
<1> QED
  BY <1>2, <1>3

\* Nothing is owed for what is not reserved, or reserved without a subject.
LEMMA DebtZero ==
  ASSUME SponsorTypeOK, Within, NEW r \in Request, NEW q \in Quota,
         q \notin reserved[r] \/ ~Carries(r, q)
  PROVE  left[r][q] = 0
<1>1. left[r][q] \in Nat /\ left[r][q] =< 0
  BY DEF SponsorTypeOK, Within, Due
<1> QED
  BY <1>1

\* What a request holds is kept by whatever leaves its debts, and, as long as it
\* has any, its time and its right to them.
LEMMA HeldKept ==
  ASSUME SponsorTypeOK, Within, NEW r \in Request, NEW s \in Slot,
         left'[r] = left[r],
         reserved[r] # {} =>
           at'[r] = at[r] /\ phase[r] \notin Over /\ phase'[r] \notin Over
  PROVE  HeldBy(r, s)' = HeldBy(r, s)
<1>1. s.quota \in Quota
  BY DEF Slot
<1>2. CASE reserved[r] = {}
  <2>1. left[r][s.quota] = 0 /\ left'[r][s.quota] = 0
    BY <1>1, <1>2, DebtZero
  <2> QED
    BY <2>1 DEF HeldBy
<1>3. CASE reserved[r] # {}
  BY <1>3 DEF HeldBy, SlotOf, Over
<1> QED
  BY <1>2, <1>3

----------------------------------------------------------------------------
(* Types, what was charged, and the order of a request *)

LEMMA InitBase ==
  ASSUME Init
  PROVE  Base /\ Charged
<1>1. SponsorTypeOK
  BY DEF Init, SponsorTypeOK, Phase, NoRow
<1>2. now =< MaxTime /\ Within /\ Charged
  BY DEF Init, Within, Charged, Due
<1>3. Orderly
  BY DEF Init, Orderly, Over
<1> QED
  BY <1>1, <1>2, <1>3 DEF Base

\* A request's own steps that no counter notices.
\* What is owed in full stays owed in full.
Follows ==
    \A r \in Request, q \in Quota :
        left[r][q] = Due(r, q) => left'[r][q] = Due(r, q)'

LEMMA DueNext ==
  ASSUME NEW r \in Request, NEW q \in Quota
  PROVE  Due(r, q)' = IF q \in reserved'[r] /\ Carries(r, q) THEN AmountFor(q, r) ELSE 0
BY DEF Due, Carries, AmountFor, CeilGwei

\* What is owed stays within what is due if both stay, or meet.
LEMMA DebtsFollow ==
  ASSUME Within,
         \A r \in Request, q \in Quota :
            \/ left'[r][q] = left[r][q] /\ Due(r, q)' = Due(r, q)
            \/ left'[r][q] = Due(r, q)' /\ Due(r, q)' \in Nat
  PROVE  Within' /\ Follows
BY DEF Within, Follows

LEMMA DebtsKept ==
  ASSUME UNCHANGED <<left, reserved>>, Within
  PROVE  Within' /\ Follows
BY DueNext, DebtsFollow DEF Due

LEMMA QuietBase ==
  ASSUME Base, NEW r \in Request,
         Receive(r) \/ Refuse(r) \/ Begin(r) \/ CheckDenies(r) \/ Approve(r)
           \/ Attest(r) \/ InsertRow(r) \/ Answer(r) \/ Finish(r) \/ Hang(r) \/ Die(r)
  PROVE  Base' /\ Follows
<1> USE DEF To, Fails
<1>a. faults \in Nat /\ now \in 0..MaxTime
  BY DEF Base, SponsorTypeOK
<1>b. row \in [Request -> {NoRow} \cup 0..(MaxTime + 1)]
  BY DEF Base, SponsorTypeOK
<1>c. Within' /\ Follows
  <2>1. UNCHANGED <<left, reserved>>
    BY DEF Receive, Refuse, Begin, CheckDenies, Deny, Approve, Attest, InsertRow, Answer,
           Finish, Hang, Die
  <2> QED
    BY <2>1, DebtsKept DEF Base
<1>1. CASE Receive(r)
  <2>1. SponsorTypeOK' /\ now' =< MaxTime
    BY <1>1 DEF Receive, Base, SponsorTypeOK, Phase
  <2>2. Orderly'
    BY <1>1 DEF Receive, Base, SponsorTypeOK, Orderly, Over
  <2> QED
    BY <1>c, <2>1, <2>2 DEF Base
<1>2. CASE Refuse(r)
  <2>1. SponsorTypeOK' /\ now' =< MaxTime
    BY <1>2 DEF Refuse, Base, SponsorTypeOK, Phase
  <2>2. Orderly'
    BY <1>2 DEF Refuse, Base, SponsorTypeOK, Orderly, Over
  <2> QED
    BY <1>c, <2>1, <2>2 DEF Base
<1>3. CASE Begin(r)
  <2>1. SponsorTypeOK' /\ now' =< MaxTime
    BY <1>3 DEF Begin, Base, SponsorTypeOK, Phase
  <2>2. Orderly'
    BY <1>3 DEF Begin, Base, SponsorTypeOK, Orderly, Over
  <2> QED
    BY <1>c, <2>1, <2>2 DEF Base
<1>4. CASE CheckDenies(r)
  <2>1. SponsorTypeOK' /\ now' =< MaxTime
    BY <1>4 DEF CheckDenies, Deny, Base, SponsorTypeOK, Phase
  <2>2. Orderly'
    BY <1>4 DEF CheckDenies, Deny, Base, SponsorTypeOK, Orderly, Over
  <2> QED
    BY <1>c, <2>1, <2>2 DEF Base
<1>5. CASE Approve(r)
  <2>1. SponsorTypeOK' /\ now' =< MaxTime
    BY <1>5 DEF Approve, Base, SponsorTypeOK, Phase
  <2>2. Orderly'
    BY <1>5 DEF Approve, Base, SponsorTypeOK, Orderly, Over
  <2> QED
    BY <1>c, <2>1, <2>2 DEF Base
<1>6. CASE Attest(r)
  <2>1. SponsorTypeOK' /\ now' =< MaxTime
    <3>1. faults' \in Nat
      BY <1>a, <1>6 DEF Attest
    <3>2. phase' \in [Request -> Phase]
      BY <1>6 DEF Attest, Base, SponsorTypeOK, Phase
    <3> QED
      BY <1>6, <3>1, <3>2 DEF Attest, Base, SponsorTypeOK
  <2>2. Orderly'
    BY <1>6 DEF Attest, Base, SponsorTypeOK, Orderly, Over
  <2> QED
    BY <1>c, <2>1, <2>2 DEF Base
<1>7. CASE InsertRow(r)
  <2>1. SponsorTypeOK' /\ now' =< MaxTime
    <3>1. faults' \in Nat
      BY <1>a, <1>7 DEF InsertRow
    <3>2. phase' \in [Request -> Phase]
      BY <1>7 DEF InsertRow, Base, SponsorTypeOK, Phase
    <3>3. row' \in [Request -> {NoRow} \cup 0..(MaxTime + 1)]
      BY <1>a, <1>b, <1>7 DEF InsertRow
    <3> QED
      BY <1>7, <3>1, <3>2, <3>3 DEF InsertRow, Base, SponsorTypeOK
  <2>2. Orderly'
    BY <1>7 DEF InsertRow, Base, SponsorTypeOK, Orderly, Over
  <2> QED
    BY <1>c, <2>1, <2>2 DEF Base
<1>8. CASE Answer(r)
  <2>1. SponsorTypeOK' /\ now' =< MaxTime
    <3>1. faults' \in Nat
      BY <1>a, <1>8 DEF Answer
    <3>2. phase' \in [Request -> Phase]
      BY <1>8 DEF Answer, Base, SponsorTypeOK, Phase
    <3> QED
      BY <1>8, <3>1, <3>2 DEF Answer, Base, SponsorTypeOK
  <2>2. Orderly'
    BY <1>8 DEF Answer, Base, SponsorTypeOK, Orderly, Over
  <2> QED
    BY <1>c, <2>1, <2>2 DEF Base
<1>9. CASE Finish(r)
  <2>1. SponsorTypeOK' /\ now' =< MaxTime
    BY <1>9 DEF Finish, Base, SponsorTypeOK, Phase
  <2>2. Orderly'
    BY <1>9 DEF Finish, Base, SponsorTypeOK, Orderly, Over
  <2> QED
    BY <1>c, <2>1, <2>2 DEF Base
<1>10. CASE Hang(r) \/ Die(r)
  <2>1. SponsorTypeOK' /\ now' =< MaxTime
    <3>1. faults' \in Nat
      BY <1>a, <1>10 DEF Hang, Die
    <3>2. phase' \in [Request -> Phase]
      BY <1>10 DEF Hang, Die, Base, SponsorTypeOK, Phase
    <3> QED
      BY <1>10, <3>1, <3>2 DEF Hang, Die, Base, SponsorTypeOK
  <2>2. Orderly'
    BY <1>10 DEF Hang, Die, Base, SponsorTypeOK, Orderly, Over
  <2> QED
    BY <1>c, <2>1, <2>2 DEF Base
<1> QED
  BY <1>c, <1>1, <1>2, <1>3, <1>4, <1>5, <1>6, <1>7, <1>8, <1>9, <1>10

LEMMA AllowType ==
  ASSUME SponsorTypeOK, NEW r \in Request, NEW q \in Quota,
         \/ /\ todo' = [todo EXCEPT ![r] = @ \ {q}]
            /\ reserved' = [reserved EXCEPT ![r] = @ \cup {q}]
         \/ UNCHANGED <<todo, reserved>>
  PROVE  /\ todo' \in [Request -> SUBSET Quota]
         /\ reserved' \in [Request -> SUBSET Quota]
<1>1. /\ todo \in [Request -> SUBSET Quota]
      /\ reserved \in [Request -> SUBSET Quota]
  BY DEF SponsorTypeOK
<1>2. todo[r] \ {q} \in SUBSET Quota /\ reserved[r] \cup {q} \in SUBSET Quota
  BY <1>1
<1> QED
  BY <1>1, <1>2

\* A rule reserves only what it was not yet reserved for, and its own share.
LEMMA UnkeyedBase ==
  ASSUME Base, NEW r \in Request, NEW q \in Quota, EvaluateUnkeyed(r, q)
  PROVE  Base' /\ Follows
<1> USE DEF EvaluateUnkeyed, Allow, Deny, To
<1>1. SponsorTypeOK' /\ now' =< MaxTime
  <2>1. phase' \in [Request -> Phase]
    BY DEF Base, SponsorTypeOK, Phase
  <2>2. /\ todo' \in [Request -> SUBSET Quota]
        /\ reserved' \in [Request -> SUBSET Quota]
    BY AllowType DEF Base
  <2> QED
    BY <2>1, <2>2 DEF Base, SponsorTypeOK
<1>2. Within' /\ Follows
  <2>1. ASSUME NEW x \in Request, NEW p \in Quota
        PROVE  left'[x][p] = left[x][p] /\ Due(x, p)' = Due(x, p)
    BY DueNext DEF Base, SponsorTypeOK, Due
  <2> QED
    BY <2>1, DebtsFollow DEF Base
<1>3. Orderly'
  BY DEF Base, SponsorTypeOK, Orderly, Over, Turn
<1> QED
  BY <1>1, <1>2, <1>3 DEF Base

LEMMA QuotaBase ==
  ASSUME Base, NEW r \in Request, NEW q \in Quota, EvaluateQuota(r, q)
  PROVE  Base' /\ Follows
<1> DEFINE s == SlotOf(q, r, at[r])
<1>1. s \in Slot
  BY SlotOfType DEF EvaluateQuota, Base, SponsorTypeOK
<1>2. AmountFor(q, r) \in Nat
  BY AmountNat
<1> HIDE DEF s
<1>3. SponsorTypeOK' /\ now' =< MaxTime
  <2>1. used \in [Slot -> Nat] /\ left \in [Request -> [Quota -> Nat]]
    BY DEF Base, SponsorTypeOK
  <2>2. used' \in [Slot -> Nat]
    BY <1>1, <1>2, <2>1 DEF EvaluateQuota, s
  <2>3. left' \in [Request -> [Quota -> Nat]]
    BY <1>2, <2>1 DEF EvaluateQuota
  <2>4. phase' \in [Request -> Phase]
    BY DEF EvaluateQuota, Allow, Deny, To, Base, SponsorTypeOK, Phase
  <2>5. /\ todo' \in [Request -> SUBSET Quota]
        /\ reserved' \in [Request -> SUBSET Quota]
    BY AllowType DEF EvaluateQuota, Allow, Deny, Base
  <2> QED
    BY <2>2, <2>3, <2>4, <2>5
       DEF EvaluateQuota, Allow, Deny, Base, SponsorTypeOK
<1>4. Within' /\ Follows
  <2>1. CASE left' = [left EXCEPT ![r][q] = AmountFor(q, r)] /\ Allow(r, q)
    <3>1. left'[r][q] = Due(r, q)' /\ Due(r, q)' \in Nat
      BY <1>2, <2>1, DueNext DEF EvaluateQuota, Allow, Base, SponsorTypeOK
    <3>2. ASSUME NEW x \in Request, NEW p \in Quota, x # r \/ p # q
          PROVE  left'[x][p] = left[x][p] /\ Due(x, p)' = Due(x, p)
      BY <2>1, <3>2, DueNext DEF Allow, Base, SponsorTypeOK, Due
    <3> QED
      BY <3>1, <3>2, DebtsFollow DEF Base
  <2>2. CASE UNCHANGED <<left, reserved>>
    BY <2>2, DebtsKept DEF Base
  <2> QED
    BY <2>1, <2>2 DEF EvaluateQuota, Deny
<1>5. Orderly'
  BY DEF EvaluateQuota, Allow, Deny, To, Base, SponsorTypeOK, Orderly, Over, Turn
<1> QED
  BY <1>3, <1>4, <1>5 DEF Base

LEMMA FailsBase ==
  ASSUME Base, NEW r \in Request, NEW q \in Quota, EvaluateFails(r, q)
  PROVE  Base' /\ Follows
<1>1. faults' \in Nat /\ used' \in [Slot -> Nat]
  <2>1. SlotOf(q, r, at[r]) \in Slot /\ AmountFor(q, r) \in Nat
    BY SlotOfType, AmountNat DEF EvaluateFails, Base, SponsorTypeOK
  <2> QED
    BY <2>1 DEF EvaluateFails, Fails, Base, SponsorTypeOK
<1>2. SponsorTypeOK' /\ now' =< MaxTime
  BY <1>1 DEF EvaluateFails, Deny, To, Base, SponsorTypeOK, Phase
<1>3. Within' /\ Follows
  BY DebtsKept DEF EvaluateFails, Deny, Base
<1>4. Orderly'
  BY DEF EvaluateFails, Deny, To, Base, SponsorTypeOK, Orderly, Over, Turn
<1> QED
  BY <1>2, <1>3, <1>4 DEF Base

LEMMA ResentBase ==
  ASSUME Base, NEW r \in Request, NEW q \in Quota, EvaluateResent(r, q)
  PROVE  Base' /\ Follows
<1> DEFINE s == SlotOf(q, r, at[r])
<1>1. s \in Slot
  BY SlotOfType DEF EvaluateResent, Base, SponsorTypeOK
<1>2. AmountFor(q, r) \in Nat /\ 2 * AmountFor(q, r) \in Nat
  BY AmountNat
<1> HIDE DEF s
<1>3. SponsorTypeOK' /\ now' =< MaxTime
  <2>1. /\ used \in [Slot -> Nat] /\ left \in [Request -> [Quota -> Nat]]
        /\ faults \in Nat
    BY DEF Base, SponsorTypeOK
  <2>2. used' \in [Slot -> Nat]
    BY <1>1, <1>2, <2>1 DEF EvaluateResent, s
  <2>3. left' \in [Request -> [Quota -> Nat]] /\ faults' \in Nat
    BY <1>2, <2>1 DEF EvaluateResent, Fails
  <2>4. phase' \in [Request -> Phase]
    BY DEF EvaluateResent, Allow, Deny, To, Base, SponsorTypeOK, Phase
  <2>5. /\ todo' \in [Request -> SUBSET Quota]
        /\ reserved' \in [Request -> SUBSET Quota]
    BY AllowType DEF EvaluateResent, Allow, Deny, Base
  <2> QED
    BY <2>2, <2>3, <2>4, <2>5
       DEF EvaluateResent, Allow, Deny, Base, SponsorTypeOK
<1>4. Within' /\ Follows
  <2>1. CASE left' = [left EXCEPT ![r][q] = AmountFor(q, r)] /\ Allow(r, q)
    <3>1. left'[r][q] = Due(r, q)' /\ Due(r, q)' \in Nat
      BY <1>2, <2>1, DueNext DEF EvaluateResent, Allow, Base, SponsorTypeOK
    <3>2. ASSUME NEW x \in Request, NEW p \in Quota, x # r \/ p # q
          PROVE  left'[x][p] = left[x][p] /\ Due(x, p)' = Due(x, p)
      BY <2>1, <3>2, DueNext DEF Allow, Base, SponsorTypeOK, Due
    <3> QED
      BY <3>1, <3>2, DebtsFollow DEF Base
  <2>2. CASE UNCHANGED <<left, reserved>>
    BY <2>2, DebtsKept DEF Base
  <2> QED
    BY <2>1, <2>2 DEF EvaluateResent, Deny
<1>5. Orderly'
  <2>1. phase[r] = "evaluating" /\ q \in todo[r] /\ (Allow(r, q) \/ Deny(r))
    BY DEF EvaluateResent, Turn
  <2>2. CASE Allow(r, q)
    BY <2>1, <2>2 DEF Allow, Base, SponsorTypeOK, Orderly, Over
  <2>3. CASE Deny(r)
    BY <2>1, <2>3 DEF Deny, To, Base, SponsorTypeOK, Orderly, Over
  <2> QED
    BY <2>1, <2>2, <2>3
<1> QED
  BY <1>3, <1>4, <1>5 DEF Base

\* Released is a natural number, and takes no more than it is told to.
LEMMA ReleasedBounds ==
  ASSUME SponsorTypeOK, NEW s \in Slot, NEW a \in Nat
  PROVE  /\ Released(s, a) \in Nat
         /\ used[s] - a =< Released(s, a)
         /\ Released(s, a) =< used[s]
         /\ a =< used[s] => Released(s, a) = used[s] - a
<1>1. used[s] \in Nat
  BY DEF SponsorTypeOK
<1>2. CASE used[s] =< a
  BY <1>1, <1>2 DEF Released
<1>3. CASE ~(used[s] =< a)
  BY <1>1, <1>3 DEF Released
<1> QED
  BY <1>2, <1>3

LEMMA ReleaseBase ==
  ASSUME Base, NEW r \in Request, NEW q \in Quota, ReleaseReservation(r, q)
  PROVE  Base' /\ Follows
<1> DEFINE s == SlotOf(q, r, at[r])
           amount == AmountFor(q, r)
<1>1. amount \in Nat
  BY AmountNat
<1>2. Carries(r, q) => s \in Slot /\ amount - left[r][q] \in Nat
  <2>1. Carries(r, q) => left[r][q] \in Nat /\ left[r][q] =< amount
    BY DEF ReleaseReservation, Base, SponsorTypeOK, Within, Due
  <2> QED
    BY <1>1, <2>1, SlotOfType DEF Base, SponsorTypeOK
<1> HIDE DEF s, amount
<1>3. /\ used' \in [Slot -> Nat] /\ leaked' \in [Slot -> Nat] /\ faults' \in Nat
  <2>1. CASE ~Carries(r, q)
    BY <2>1 DEF ReleaseReservation, Base, SponsorTypeOK
  <2>2. CASE Carries(r, q)
    <3>1. Released(s, amount) \in Nat /\ Released(s, 2 * amount) \in Nat
      BY <1>1, <1>2, <2>2, ReleasedBounds DEF Base
    <3>2. used' \in [Slot -> Nat]
      BY <1>2, <2>2, <3>1
         DEF ReleaseReservation, Release, Base, SponsorTypeOK, s, amount
    <3>3. leaked' \in [Slot -> Nat]
      <4>1. PICK b \in Nat : Leak(s, b) \/ UNCHANGED leaked
        <5>1. amount - left[r][q] + amount \in Nat
          BY <1>1, <1>2, <2>2
        <5> QED
          BY <1>2, <2>2, <5>1 DEF ReleaseReservation, s, amount
      <4>2. leaked \in [Slot -> Nat]
        BY DEF Base, SponsorTypeOK
      <4> QED
        BY <1>2, <2>2, <4>1, <4>2 DEF Leak
    <3>4. faults' \in Nat
      BY <2>2 DEF ReleaseReservation, Fails, Base, SponsorTypeOK
    <3> QED
      BY <3>2, <3>3, <3>4
  <2> QED
    BY <2>1, <2>2
<1>4. SponsorTypeOK' /\ now' =< MaxTime
  BY <1>3 DEF ReleaseReservation, Base, SponsorTypeOK
<1>5. Within' /\ Follows
  <2>1. left'[r][q] = Due(r, q)' /\ Due(r, q)' \in Nat
    BY DueNext DEF ReleaseReservation, Base, SponsorTypeOK
  <2>2. ASSUME NEW x \in Request, NEW p \in Quota, x # r \/ p # q
        PROVE  left'[x][p] = left[x][p] /\ Due(x, p)' = Due(x, p)
    BY <2>2, DueNext DEF ReleaseReservation, Base, SponsorTypeOK, Due
  <2> QED
    BY <2>1, <2>2, DebtsFollow DEF Base
<1>6. Orderly'
  BY DEF ReleaseReservation, Base, SponsorTypeOK, Orderly, Over
<1> QED
  BY <1>4, <1>5, <1>6 DEF Base

LEMMA WorldBase ==
  ASSUME Base, (\E p \in Policy : SetPolicy(p)) \/ Tick \/ UNCHANGED sponsorVars
  PROVE  Base' /\ Follows
<1>1. now' \in 0..MaxTime /\ edits' \in Nat /\ policy' \in SUBSET Quota
  <2>1. now \in 0..MaxTime /\ edits \in Nat /\ policy \in SUBSET Quota
    BY DEF Base, SponsorTypeOK
  <2>2. CASE \E p \in Policy : SetPolicy(p)
    BY <2>1, <2>2 DEF SetPolicy
  <2>3. CASE Tick
    BY <2>1, <2>3 DEF Tick
  <2>4. CASE UNCHANGED sponsorVars
    BY <2>1, <2>4 DEF sponsorVars
  <2> QED
    BY <2>2, <2>3, <2>4
<1>2. SponsorTypeOK' /\ now' =< MaxTime
  BY <1>1 DEF SetPolicy, Tick, sponsorVars, serviceVars, Base, SponsorTypeOK
<1>3. Within' /\ Follows
  BY DebtsKept DEF SetPolicy, Tick, sponsorVars, serviceVars, Base
<1>4. Orderly'
  BY DEF SetPolicy, Tick, sponsorVars, serviceVars, Base, Orderly
<1> QED
  BY <1>2, <1>3, <1>4 DEF Base

LEMMA BaseStep ==
  ASSUME Base, [SponsorNext]_sponsorVars
  PROVE  Base' /\ Follows
BY QuietBase, UnkeyedBase, QuotaBase, FailsBase, ResentBase, ReleaseBase, WorldBase
   DEF SponsorNext, Serve

----------------------------------------------------------------------------
(* Three things a step does to what is held *)

\* It leaves it alone: at most a count is made that is denied all the same.
Keeps ==
    /\ \A x \in Request, t \in Slot : HeldBy(x, t)' = HeldBy(x, t)
    /\ UNCHANGED leaked
    /\ \/ UNCHANGED used
       \/ /\ Fault \cap {"consumeReplyLost", "consumeResent"} # {}
          /\ \E s \in Slot, a \in Nat :
               /\ used[s] + a =< CountedLimit(s.quota)
               /\ used' = [used EXCEPT ![s] = @ + a]

OnlyHeld(r, s) ==
    \A x \in Request, t \in Slot : x # r \/ t # s => HeldBy(x, t)' = HeldBy(x, t)

\* One request takes from one counter what still fits, and is at worst counted
\* twice.
Takes(r, s) ==
    /\ OnlyHeld(r, s)
    /\ HeldBy(r, s) = 0
    /\ \/ /\ used[s] + HeldBy(r, s)' =< CountedLimit(s.quota)
          /\ used' = [used EXCEPT ![s] = @ + HeldBy(r, s)']
       \/ /\ "consumeResent" \in Fault
          /\ used[s] + 2 * HeldBy(r, s)' =< CountedLimit(s.quota)
          /\ used' = [used EXCEPT ![s] = @ + 2 * HeldBy(r, s)']
    /\ UNCHANGED leaked

\* One request gives up what it held of one counter, and `given` is taken off
\* it, once, twice or in vain: what it did not hold any more leaks.
Gives(r, s, given) ==
    /\ OnlyHeld(r, s)
    /\ HeldBy(r, s)' = 0
    /\ HeldBy(r, s) =< given
    /\ Charged => HeldBy(r, s) = given
    /\ \/ /\ used' = [used EXCEPT ![s] = Released(s, given)]
          /\ leaked' = [leaked EXCEPT ![s] = @ + (given - HeldBy(r, s))]
       \/ /\ "releaseRefused" \in Fault
          /\ UNCHANGED <<used, leaked>>
       \/ /\ "releaseResent" \in Fault
          /\ used' = [used EXCEPT ![s] = Released(s, 2 * given)]
          /\ leaked' = [leaked EXCEPT ![s] = @ + (given - HeldBy(r, s) + given)]

GivesBack(r, s) == \E given \in Nat : Gives(r, s, given)

LEMMA QuietKeeps ==
  ASSUME Base, NEW r \in Request,
         Receive(r) \/ Refuse(r) \/ Begin(r) \/ CheckDenies(r) \/ Approve(r)
           \/ Attest(r) \/ InsertRow(r) \/ Answer(r) \/ Finish(r) \/ Hang(r) \/ Die(r)
  PROVE  Keeps
<1>1. UNCHANGED <<used, leaked, left>>
  BY DEF Receive, Refuse, Begin, CheckDenies, Approve, Attest, InsertRow, Answer, Finish, Hang, Die
<1>2. ASSUME NEW x \in Request, reserved[x] # {}
      PROVE  at'[x] = at[x] /\ phase[x] \notin Over /\ phase'[x] \notin Over
  <2>1. phase[x] \notin {"new", "received"} \cup Over
    BY <1>2 DEF Base, Orderly
  <2>2. phase'[x] \notin Over
    BY <1>2, <2>1 DEF Receive, Refuse, Begin, CheckDenies, Deny, Approve, Attest, InsertRow,
                      Answer, Finish, Hang, Die, To, Base, SponsorTypeOK, Over
  <2>3. at'[x] = at[x]
    BY <2>1 DEF Receive, Refuse, Begin, CheckDenies, Deny, Approve, Attest, InsertRow,
                Answer, Finish, Hang, Die, Base, SponsorTypeOK
  <2> QED
    BY <2>1, <2>2, <2>3
<1>3. \A x \in Request, t \in Slot : HeldBy(x, t)' = HeldBy(x, t)
  BY <1>1, <1>2, HeldKept DEF Base
<1> QED
  BY <1>1, <1>3 DEF Keeps

LEMMA WorldKeeps ==
  ASSUME Base, (\E p \in Policy : SetPolicy(p)) \/ Tick \/ UNCHANGED sponsorVars
  PROVE  Keeps
BY DEF SetPolicy, Tick, sponsorVars, serviceVars, Keeps, HeldBy

LEMMA UnkeyedKeeps ==
  ASSUME Base, NEW r \in Request, NEW q \in Quota, EvaluateUnkeyed(r, q)
  PROVE  Keeps
<1>1. UNCHANGED <<used, leaked, left, at>> /\ phase[r] = "evaluating"
  BY DEF EvaluateUnkeyed, Allow, Deny, Turn
<1>2. \A x \in Request : phase[x] \in Over <=> phase'[x] \in Over
  BY DEF EvaluateUnkeyed, Allow, Deny, Turn, To, Base, SponsorTypeOK, Over
<1>3. \A x \in Request, t \in Slot : HeldBy(x, t)' = HeldBy(x, t)
  BY <1>1, <1>2 DEF HeldBy, Over
<1> QED
  BY <1>1, <1>3 DEF Keeps

LEMMA FailsKeeps ==
  ASSUME Base, NEW r \in Request, NEW q \in Quota, EvaluateFails(r, q)
  PROVE  Keeps
<1>1. UNCHANGED <<leaked, left, at>> /\ phase[r] = "evaluating"
  BY DEF EvaluateFails, Deny, Turn
<1>2. \A x \in Request : phase[x] \in Over <=> phase'[x] \in Over
  BY DEF EvaluateFails, Deny, Turn, To, Base, SponsorTypeOK, Over
<1>3. \A x \in Request, t \in Slot : HeldBy(x, t)' = HeldBy(x, t)
  BY <1>1, <1>2 DEF HeldBy, Over
<1>4. SlotOf(q, r, at[r]) \in Slot /\ SlotOf(q, r, at[r]).quota = q /\ AmountFor(q, r) \in Nat
  BY SlotOfType, AmountNat DEF EvaluateFails, Base, SponsorTypeOK
<1>5. \/ UNCHANGED used
      \/ /\ Fault \cap {"consumeReplyLost", "consumeResent"} # {}
         /\ \E s \in Slot, a \in Nat :
              /\ used[s] + a =< CountedLimit(s.quota)
              /\ used' = [used EXCEPT ![s] = @ + a]
  BY <1>4 DEF EvaluateFails, Fails, Fits
<1> QED
  BY <1>1, <1>3, <1>5 DEF Keeps

\* A change of one debt of one request changes what it holds of one counter.
LEMMA OneDebt ==
  ASSUME SponsorTypeOK, NEW r \in Request, NEW q \in Quota, NEW a \in Nat,
         Carries(r, q), UNCHANGED <<at, phase>>,
         left' = [left EXCEPT ![r][q] = a]
  PROVE  /\ OnlyHeld(r, SlotOf(q, r, at[r]))
         /\ phase[r] \notin Over =>
              /\ HeldBy(r, SlotOf(q, r, at[r])) = left[r][q]
              /\ HeldBy(r, SlotOf(q, r, at[r]))' = a
<1> DEFINE s == SlotOf(q, r, at[r])
<1>1. s \in Slot /\ s.quota = q
  BY SlotOfType DEF SponsorTypeOK
<1>2. left'[r][q] = a
  BY DEF SponsorTypeOK
<1>3. ASSUME NEW x \in Request, NEW t \in Slot, x # r \/ t # s
      PROVE  HeldBy(x, t)' = HeldBy(x, t)
  <2>1. CASE x # r \/ t.quota # q
    <3>1. t.quota \in Quota
      BY DEF Slot
    <3>2. left'[x][t.quota] = left[x][t.quota]
      BY <2>1, <3>1 DEF SponsorTypeOK
    <3> QED
      BY <3>2 DEF HeldBy
  <2>2. CASE x = r /\ t.quota = q
    <3>1. SlotOf(t.quota, x, at[x]) # t
      BY <1>3, <2>2
    <3> QED
      BY <3>1 DEF HeldBy
  <2> QED
    BY <2>1, <2>2
<1>4. SlotOf(s.quota, r, at'[r]) = s
  BY <1>1
<1>5. phase[r] \notin Over => HeldBy(r, s) = left[r][q] /\ HeldBy(r, s)' = a
  BY <1>1, <1>2, <1>4 DEF HeldBy, Over
<1> QED
  BY <1>3, <1>5 DEF OnlyHeld

LEMMA QuotaTakes ==
  ASSUME Base, NEW r \in Request, NEW q \in Quota, EvaluateQuota(r, q)
  PROVE  Keeps \/ \E s \in Slot : Takes(r, s)
<1> DEFINE s == SlotOf(q, r, at[r])
           amount == AmountFor(q, r)
<1>1. s \in Slot /\ s.quota = q /\ amount \in Nat
  BY SlotOfType, AmountNat DEF EvaluateQuota, Base, SponsorTypeOK
<1>2. UNCHANGED <<leaked, at>> /\ phase[r] = "evaluating" /\ q \in todo[r] /\ Carries(r, q)
  BY DEF EvaluateQuota, Allow, Deny, Turn
<1>3. CASE Fits(s, amount) /\ used' = [used EXCEPT ![s] = @ + amount]
           /\ left' = [left EXCEPT ![r][q] = amount] /\ UNCHANGED phase
  <2>1. left[r][q] = 0
    BY <1>2, DebtZero DEF Base, Orderly
  <2>2. OnlyHeld(r, s) /\ HeldBy(r, s) = 0 /\ HeldBy(r, s)' = amount
    <3> HIDE DEF amount
    <3> QED
      BY <1>1, <1>2, <1>3, <2>1, OneDebt DEF Base, Over
  <2> HIDE DEF s, amount
  <2>3. used[s] + HeldBy(r, s)' =< CountedLimit(s.quota)
    BY <1>3, <2>2 DEF Fits
  <2>4. used' = [used EXCEPT ![s] = @ + HeldBy(r, s)']
    BY <1>3, <2>2
  <2>5. Takes(r, s)
    BY <1>2, <2>2, <2>3, <2>4 DEF Takes
  <2> QED
    BY <1>1, <2>5
<1>4. CASE Deny(r) /\ UNCHANGED <<used, left>>
  <2>1. \A x \in Request : phase[x] \in Over <=> phase'[x] \in Over
    BY <1>2, <1>4 DEF Deny, To, Base, SponsorTypeOK, Over
  <2>2. \A x \in Request, t \in Slot : HeldBy(x, t)' = HeldBy(x, t)
    BY <1>2, <1>4, <2>1 DEF HeldBy, Over
  <2> QED
    BY <1>2, <1>4, <2>2 DEF Keeps
<1> QED
  BY <1>3, <1>4 DEF EvaluateQuota, Allow

\* Counted twice, or counted once and denied.
LEMMA ResentTakes ==
  ASSUME Base, NEW r \in Request, NEW q \in Quota, EvaluateResent(r, q)
  PROVE  Keeps \/ \E s \in Slot : Takes(r, s)
<1> DEFINE s == SlotOf(q, r, at[r])
           amount == AmountFor(q, r)
<1>1. s \in Slot /\ s.quota = q /\ amount \in Nat
  BY SlotOfType, AmountNat DEF EvaluateResent, Base, SponsorTypeOK
<1>2. /\ UNCHANGED <<leaked, at>> /\ phase[r] = "evaluating" /\ q \in todo[r]
      /\ Carries(r, q) /\ "consumeResent" \in Fault /\ Fits(s, amount)
  BY DEF EvaluateResent, Allow, Deny, Turn, Fails
<1>3. CASE Fits(s, 2 * amount) /\ used' = [used EXCEPT ![s] = @ + 2 * amount]
           /\ left' = [left EXCEPT ![r][q] = amount] /\ UNCHANGED phase
  <2>1. left[r][q] = 0
    BY <1>2, DebtZero DEF Base, Orderly
  <2>2. OnlyHeld(r, s) /\ HeldBy(r, s) = 0 /\ HeldBy(r, s)' = amount
    <3> HIDE DEF amount
    <3> QED
      BY <1>1, <1>2, <1>3, <2>1, OneDebt DEF Base, Over
  <2> HIDE DEF s, amount
  <2>3. used[s] + 2 * HeldBy(r, s)' =< CountedLimit(s.quota)
    BY <1>1, <1>3, <2>2 DEF Fits
  <2>4. used' = [used EXCEPT ![s] = @ + 2 * HeldBy(r, s)']
    BY <1>3, <2>2
  <2>5. Takes(r, s)
    BY <1>2, <2>2, <2>3, <2>4 DEF Takes
  <2> QED
    BY <1>1, <2>5
<1>4. CASE Deny(r) /\ UNCHANGED left /\ used' = [used EXCEPT ![s] = @ + amount]
  <2>1. \A x \in Request : phase[x] \in Over <=> phase'[x] \in Over
    BY <1>2, <1>4 DEF Deny, To, Base, SponsorTypeOK, Over
  <2>2. \A x \in Request, t \in Slot : HeldBy(x, t)' = HeldBy(x, t)
    BY <1>2, <1>4, <2>1 DEF HeldBy, Over
  <2>3. Fault \cap {"consumeReplyLost", "consumeResent"} # {}
    BY <1>2
  <2> HIDE DEF s, amount
  <2>4. used[s] + amount =< CountedLimit(s.quota)
    BY <1>1, <1>2 DEF Fits
  <2> QED
    BY <1>1, <1>2, <1>4, <2>2, <2>3, <2>4 DEF Keeps
<1> QED
  BY <1>3, <1>4 DEF EvaluateResent, Allow

LEMMA ReleaseGivesBack ==
  ASSUME Base, NEW r \in Request, NEW q \in Quota, ReleaseReservation(r, q)
  PROVE  Keeps \/ \E s \in Slot : GivesBack(r, s)
<1> DEFINE s == SlotOf(q, r, at[r])
           amount == AmountFor(q, r)
<1>1. /\ UNCHANGED <<at, phase>> /\ phase[r] \notin Over
      /\ q \in reserved[r] /\ left' = [left EXCEPT ![r][q] = 0]
  BY DEF ReleaseReservation, Over
<1>2. CASE ~Carries(r, q)
  <2>1. left[r][q] = 0
    BY <1>2, DebtZero DEF Base
  <2>2. left' = left
    BY <1>1, <2>1 DEF Base, SponsorTypeOK
  <2>3. UNCHANGED <<used, leaked>>
    BY <1>2 DEF ReleaseReservation
  <2>4. \A x \in Request, t \in Slot : HeldBy(x, t)' = HeldBy(x, t)
    BY <1>1, <2>2 DEF HeldBy
  <2> QED
    BY <2>3, <2>4 DEF Keeps
<1>3. CASE Carries(r, q)
  <2>1. s \in Slot /\ amount \in Nat
    BY <1>3, SlotOfType, AmountNat DEF Base, SponsorTypeOK
  <2>2. left[r][q] =< amount /\ (Charged => left[r][q] = amount)
    BY <1>1, <1>3 DEF Base, Within, Charged, Due
  <2>3. OnlyHeld(r, s) /\ HeldBy(r, s) = left[r][q] /\ HeldBy(r, s)' = 0
    BY <1>1, <1>3, OneDebt DEF Base
  <2>4. \/ Release(s, amount) /\ Leak(s, amount - left[r][q])
        \/ "releaseRefused" \in Fault /\ UNCHANGED <<used, leaked>>
        \/ /\ "releaseResent" \in Fault
           /\ Release(s, 2 * amount) /\ Leak(s, amount - left[r][q] + amount)
    BY <1>3 DEF ReleaseReservation, Fails
  <2> HIDE DEF s, amount
  <2>5. Gives(r, s, amount)
    BY <2>2, <2>3, <2>4 DEF Gives, Release, Leak
  <2> QED
    BY <2>1, <2>5 DEF GivesBack
<1> QED
  BY <1>2, <1>3

\* Every step of the specification is one of the three.
LEMMA StepMoves ==
  ASSUME Base, [SponsorNext]_sponsorVars
  PROVE  \/ Keeps
         \/ \E r \in Request, s \in Slot : Takes(r, s) \/ GivesBack(r, s)
BY QuietKeeps, WorldKeeps, UnkeyedKeeps, FailsKeeps, QuotaTakes, ResentTakes,
   ReleaseGivesBack
   DEF SponsorNext, Serve

----------------------------------------------------------------------------
(* The counters *)

LEMMA InitIInv ==
  ASSUME Init
  PROVE  IInv
<1>1. Base /\ Charged
  BY InitBase
<1>2. ASSUME NEW s \in Slot
      PROVE  used[s] = 0 /\ leaked[s] = 0 /\ Owed(s) = 0 /\ CountedLimit(s.quota) \in Nat
  <2> DEFINE f == [r \in Request |-> HeldBy(r, s)]
  <2>1. s.quota \in Quota
    BY DEF Slot
  <2>2. \A r \in Request : f[r] = 0
    BY <2>1 DEF Init, HeldBy
  <2>3. Owed(s) = SumOver(f, Request)
    BY DEF Owed
  <2> HIDE DEF f
  <2>4. Owed(s) = 0
    BY <2>2, <2>3, SumZero
  <2> QED
    BY <2>1, <2>4, LimitNat DEF Init
<1>3. Unleaked /\ CountersCover /\ CountersExact
  BY <1>2 DEF Unleaked, CountersCover, CountersExact
<1> QED
  BY <1>1, <1>3 DEF IInv

\* The books of one counter; and if nothing is refunded.
Covered(s) ==
    /\ used[s] =< CountedLimit(s.quota)
    /\ Owed(s) =< used[s] + leaked[s]
Exact(s) ==
    /\ "releaseResent" \notin Fault => leaked[s] = 0
    /\ Fault \cap {"consumeReplyLost", "consumeResent", "releaseRefused", "releaseResent"} = {}
         => used[s] = Owed(s)

LEMMA Booked ==
  /\ IInv <=> Base /\ Charged /\ \A s \in Slot : Covered(s) /\ Exact(s)
  /\ IInv' <=> Base' /\ Charged' /\ \A s \in Slot : Covered(s)' /\ Exact(s)'
BY DEF IInv, Covered, Exact, Unleaked, CountersCover, CountersExact, Owed

LEMMA SlotTypes ==
  ASSUME Base, Base', NEW s \in Slot
  PROVE  /\ used[s] \in Nat /\ leaked[s] \in Nat /\ used'[s] \in Nat /\ leaked'[s] \in Nat
         /\ Owed(s) \in Nat /\ CountedLimit(s.quota) \in Nat
<1>1. s.quota \in Quota
  BY DEF Slot
<1>2. Owed(s) \in Nat
  BY OwedNat DEF Base
<1> QED
  BY <1>1, <1>2, LimitNat DEF Base, SponsorTypeOK

\* What nobody's holdings move is at most counted once too often.
LEMMA KeptCovered ==
  ASSUME Base, Base', Keeps, NEW s \in Slot, Covered(s)
  PROVE  Covered(s)' /\ (Exact(s) => Exact(s)')
<1>1. Owed(s)' = Owed(s)
  BY OwedKept DEF Keeps, Base
<1>2. leaked'[s] = leaked[s]
  BY DEF Keeps
<1>3. CASE used'[s] = used[s]
  BY <1>1, <1>2, <1>3 DEF Covered, Exact
<1>4. CASE used'[s] # used[s]
  <2>1. /\ Fault \cap {"consumeReplyLost", "consumeResent"} # {}
        /\ \E a \in Nat : used[s] + a =< CountedLimit(s.quota) /\ used'[s] = used[s] + a
    BY <1>4 DEF Keeps, Base, SponsorTypeOK
  <2>2. used[s] =< used'[s] /\ used'[s] =< CountedLimit(s.quota)
    BY <2>1, SlotTypes
  <2> QED
    BY <1>1, <1>2, <2>1, <2>2, SlotTypes DEF Covered, Exact
<1> QED
  BY <1>3, <1>4

\* A counter that another one's holder moves is not moved.
LEMMA OtherCovered ==
  ASSUME Base, Base', NEW r \in Request, NEW s \in Slot, OnlyHeld(r, s),
         NEW t \in Slot, t # s, used'[t] = used[t], leaked'[t] = leaked[t], Covered(t)
  PROVE  Covered(t)' /\ (Exact(t) => Exact(t)')
<1>1. Owed(t)' = Owed(t)
  BY OwedKept DEF OnlyHeld, Base
<1> QED
  BY <1>1 DEF Covered, Exact

LEMMA TakenCovered ==
  ASSUME Base, Base', NEW r \in Request, NEW s \in Slot, Takes(r, s),
         NEW t \in Slot, Covered(t)
  PROVE  Covered(t)' /\ (Charged /\ Exact(t) => Exact(t)')
<1>1. CASE t # s
  <2>1. used'[t] = used[t] /\ leaked'[t] = leaked[t]
    BY <1>1 DEF Takes, Base, SponsorTypeOK
  <2> QED
    BY <1>1, <2>1, OtherCovered DEF Takes
<1>2. CASE t = s
  <2>1. HeldBy(r, s)' \in Nat
    BY HeldNatNext DEF Base
  <2>2. Owed(s)' = Owed(s) - HeldBy(r, s) + HeldBy(r, s)'
    BY OwedMoves DEF Takes, OnlyHeld, Base
  <2>3. /\ HeldBy(r, s) = 0 /\ leaked'[s] = leaked[s]
        /\ \/ /\ used'[s] = used[s] + HeldBy(r, s)'
              /\ used[s] + HeldBy(r, s)' =< CountedLimit(s.quota)
           \/ /\ "consumeResent" \in Fault
              /\ used'[s] = used[s] + 2 * HeldBy(r, s)'
              /\ used[s] + 2 * HeldBy(r, s)' =< CountedLimit(s.quota)
    BY DEF Takes, Base, SponsorTypeOK
  <2> QED
    BY <1>2, <2>1, <2>2, <2>3, SlotTypes DEF Covered, Exact
<1> QED
  BY <1>1, <1>2

\* The clamp never hides what others hold: what is released is part of Owed.
LEMMA GivenCovered ==
  ASSUME Base, Base', NEW r \in Request, NEW s \in Slot, GivesBack(r, s),
         NEW t \in Slot, Covered(t)
  PROVE  Covered(t)' /\ (Charged /\ Exact(t) => Exact(t)')
<1>1. PICK given \in Nat : Gives(r, s, given)
  BY DEF GivesBack
<1>2. CASE t # s
  <2>1. used'[t] = used[t] /\ leaked'[t] = leaked[t]
    BY <1>1, <1>2 DEF Gives, Base, SponsorTypeOK
  <2> QED
    BY <1>1, <1>2, <2>1, OtherCovered DEF Gives
<1>3. CASE t = s
  <2> DEFINE a == HeldBy(r, s)
  <2>1. a \in Nat /\ a =< Owed(s) /\ a =< given /\ (Charged => a = given)
    BY <1>1, HeldNat, OwedNat DEF Base, Gives
  <2>2. Owed(s)' = Owed(s) - a
    <3>1. Owed(s)' = Owed(s) - HeldBy(r, s) + HeldBy(r, s)'
      BY <1>1, OwedMoves DEF Gives, OnlyHeld, Base
    <3> QED
      BY <1>1, <3>1, <2>1, SlotTypes DEF Gives
  <2>3. \/ used'[s] = Released(s, given) /\ leaked'[s] = leaked[s] + (given - a)
        \/ /\ "releaseRefused" \in Fault
           /\ used'[s] = used[s] /\ leaked'[s] = leaked[s]
        \/ /\ "releaseResent" \in Fault
           /\ used'[s] = Released(s, 2 * given)
           /\ leaked'[s] = leaked[s] + (given - a + given)
    BY <1>1 DEF Gives, Base, SponsorTypeOK
  <2> HIDE DEF a
  <2>4. CASE used'[s] = Released(s, given) /\ leaked'[s] = leaked[s] + (given - a)
    <3>1. /\ used[s] - given =< used'[s] /\ used'[s] =< used[s]
          /\ given =< used[s] => used'[s] = used[s] - given
      BY <2>4, ReleasedBounds DEF Base
    <3> QED
      BY <1>3, <2>1, <2>2, <2>4, <3>1, SlotTypes DEF Covered, Exact
  <2>5. CASE /\ "releaseRefused" \in Fault
             /\ used'[s] = used[s] /\ leaked'[s] = leaked[s]
    BY <1>3, <2>1, <2>2, <2>5, SlotTypes DEF Covered, Exact
  <2>6. CASE /\ "releaseResent" \in Fault
             /\ used'[s] = Released(s, 2 * given)
             /\ leaked'[s] = leaked[s] + (given - a + given)
    <3>1. used[s] - 2 * given =< used'[s] /\ used'[s] =< used[s]
      BY <2>6, ReleasedBounds DEF Base
    <3> QED
      BY <1>3, <2>1, <2>2, <2>6, <3>1, SlotTypes DEF Covered, Exact
  <2> QED
    BY <2>3, <2>4, <2>5, <2>6
<1> QED
  BY <1>2, <1>3

\* The books stay right, with a reconciler or without.
LEMMA CoveredStep ==
  ASSUME Base, [SponsorNext]_sponsorVars, NEW t \in Slot, Covered(t)
  PROVE  Covered(t)' /\ (Charged /\ Exact(t) => Exact(t)')
<1>1. Base'
  BY BaseStep
<1> QED
  BY <1>1, StepMoves, KeptCovered, TakenCovered, GivenCovered

LEMMA NextIInv ==
  ASSUME IInv, [SponsorNext]_sponsorVars
  PROVE  IInv'
<1>1. Base' /\ Charged'
  BY BaseStep DEF IInv, Charged, Follows
<1>2. \A s \in Slot : Covered(s)' /\ Exact(s)'
  BY CoveredStep, Booked DEF IInv
<1> QED
  BY <1>1, <1>2, Booked

----------------------------------------------------------------------------
(* The theorems *)

\* The inductive invariant.
THEOREM Booking ==
  SponsorSpec => []IInv
BY InitIInv, NextIInv, PTL DEF SponsorSpec

\* The store's calls, their failures and the releases keep their types
\* (QuotaRule, InMemoryQuotaStore and the scripts of RedisQuotaStore).
THEOREM SponsorTypeCorrect ==
  SponsorSpec => []SponsorTypeOK
<1>1. IInv => SponsorTypeOK
  BY DEF IInv, Base
<1> QED
  BY <1>1, Booking, PTL

\* No counter passes its limit or understates what requests hold of it, but by
\* what releases that were sent again took (tryConsume and release).
THEOREM NobodyOverdraws ==
  SponsorSpec => []CountersCover
<1>1. IInv => CountersCover
  BY DEF IInv
<1> QED
  BY <1>1, Booking, PTL

\* With a store that does as it is told, every denial, failed signature, failed
\* insert and death leaves each counter at what is still held (releaseAll and
\* the compensation of SponsorService).
THEOREM NothingIsLost ==
  SponsorSpec => []CountersExact
<1>1. IInv => CountersExact
  BY DEF IInv
<1> QED
  BY <1>1, Booking, PTL

\* Where no release is executed twice, a step of the service takes from the
\* budget of one counter, gives back to it, or leaves it alone.
LEMMA StepImplements ==
  ASSUME "releaseResent" \notin Fault, IInv, [SponsorNext]_sponsorVars
  PROVE  [Budgets!Next]_[s \in Slot |-> [r \in Request |-> HeldBy(r, s)]]
<1> DEFINE held == [s \in Slot |-> [r \in Request |-> HeldBy(r, s)]]
<1>1. Base /\ Base' /\ IInv' /\ \A s \in Slot : Covered(s)' /\ Exact(s)'
  BY BaseStep, NextIInv, Booked DEF IInv
<1>2. CASE Keeps
  <2>1. held' = held
    BY <1>2 DEF Keeps
  <2> QED
    BY <2>1
<1>3. ASSUME NEW r \in Request, NEW s \in Slot, OnlyHeld(r, s)
      PROVE  Budgets!Only(s, r)
  BY <1>3 DEF OnlyHeld, Budgets!Only
<1>4. ASSUME NEW r \in Request, NEW s \in Slot, Takes(r, s)
      PROVE  [Budgets!Next]_held
  <2>1. HeldBy(r, s)' \in Nat /\ HeldBy(r, s) = 0
    BY <1>1, <1>4, HeldNatNext DEF Takes, Base
  <2>2. CASE HeldBy(r, s)' = 0
    <3>1. held' = held
      BY <1>4, <2>1, <2>2 DEF Takes, OnlyHeld
    <3> QED
      BY <3>1
  <2>3. CASE HeldBy(r, s)' > HeldBy(r, s)
    <3>1. Owed(s)' =< CountedLimit(s.quota)
      <4>1. Owed(s)' \in Nat
        BY <1>1, OwedNatNext DEF Base
      <4> QED
        BY <1>1, <4>1, SlotTypes DEF Covered, Exact
    <3>2. held'[s] = [x \in Request |-> HeldBy(x, s)']
      OBVIOUS
    <3>3. Budgets!SumOver(held'[s], Request) = Owed(s)'
      BY <3>2 DEF Budgets!SumOver, SumOver, Budgets!Pick, Pick, Owed
    <3>4. [t \in Slot |-> CountedLimit(t.quota)][s] = CountedLimit(s.quota)
      OBVIOUS
    <3>5. held'[s][r] > held[s][r]
      BY <2>3
    <3>6. Budgets!Take(s, r)
      BY <3>1, <3>3, <3>4, <3>5 DEF Budgets!Take
    <3> QED
      BY <1>3, <1>4, <3>6 DEF Takes, Budgets!Next
  <2> QED
    BY <2>1, <2>2, <2>3
<1>5. ASSUME NEW r \in Request, NEW s \in Slot, GivesBack(r, s)
      PROVE  [Budgets!Next]_held
  <2>1. HeldBy(r, s)' \in 0..HeldBy(r, s)
    BY <1>1, <1>5, HeldNat DEF GivesBack, Gives, Base
  <2>2. Budgets!GiveBack(s, r)
    BY <2>1 DEF Budgets!GiveBack
  <2> QED
    BY <1>3, <1>5, <2>2 DEF GivesBack, Gives, Budgets!Next
<1> QED
  BY <1>1, <1>2, <1>4, <1>5, StepMoves

\* Each counter is then a budget: its holders together never hold more than its
\* limit, and each moves only its own (PolicyEngine with its quota store).
THEOREM BudgetImplemented ==
  ASSUME "releaseResent" \notin Fault
  PROVE  SponsorSpec => ImplementsBudget
<1>1. Init => Budgets!Init
  <2> SUFFICES ASSUME Init PROVE Budgets!Init
    OBVIOUS
  <2>1. ASSUME NEW s \in Slot, NEW r \in Request
        PROVE  HeldBy(r, s) = 0
    <3>1. s.quota \in Quota
      BY DEF Slot
    <3> QED
      BY <3>1 DEF Init, HeldBy
  <2> QED
    BY <2>1 DEF Budgets!Init
<1>2. IInv /\ [SponsorNext]_sponsorVars
        => [Budgets!Next]_[s \in Slot |-> [r \in Request |-> HeldBy(r, s)]]
  BY StepImplements
<1> QED
  BY <1>1, <1>2, Booking, PTL DEF SponsorSpec, Budgets!Spec, ImplementsBudget
=============================================================================
