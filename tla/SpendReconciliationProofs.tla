--------------------- MODULE SpendReconciliationProofs ---------------------
(***************************************************************************)
(* Proof that a spend cap caps what is spent, for any requests, quotas,    *)
(* policies, replicas, costs and failures (SpendReconciler).               *)
(*                                                                         *)
(* What the chain was paid for a request is covered by what the request is *)
(* still owed by its counter (Backed), although refunds lower that: only    *)
(* the replica that claimed a row refunds it, once for each rule (JobOK,    *)
(* Apart), and with the cost of the one event of its operation (ChainOK).   *)
(* What is owed is covered by the counter (Covered), and that by the limit. *)
(***************************************************************************)
EXTENDS SpendReconciliation, SponsorshipProofs, SequenceTheorems

USE SponsorshipAssumption

\* A request that may be answered has reserved with all its rules; there is no
\* row before there is an attestation, and no answer without a row.
Staged(r) ==
    /\ phase[r] = "evaluating" => rules[r] = todo[r] \cup reserved[r]
    /\ phase[r] \in {"approved", "attested", "recorded", "issued"}
         => rules[r] = reserved[r]
    /\ phase[r] \in {"new", "received", "evaluating", "approved", "attested"}
         => row[r] = NoRow
    /\ phase[r] \in {"recorded", "issued"} => row[r] # NoRow

Stages == \A r \in Request : Staged(r)

\* Operations were mined once, with an attestation that was issued.
ChainOK ==
    /\ chain \in Seq([op : Nat, cost : Nat, by : Request])
    /\ \A b \in DOMAIN chain :
         /\ phase[chain[b].by] = "issued"
         /\ chain[b].op = request[chain[b].by].op
    /\ \A a, b \in DOMAIN chain : chain[a].op = chain[b].op => a = b

\* What an operation cost is still owed to whoever paid for it.
Backed ==
    \A b \in DOMAIN chain, q \in Quota :
        /\ q \in reserved[chain[b].by]
        /\ Carries(chain[b].by, q)
        /\ quota[q].unit = "wei"
        => CeilGwei(chain[b].cost) =< left[chain[b].by][q]

\* A request whose row was not claimed is owed all it charged; a row is claimed
\* for an operation that was mined.
ClaimsOK ==
    /\ reconciled \subseteq Request
    /\ \A r \in Request \ reconciled, q \in Quota : left[r][q] = Due(r, q)
    /\ \A r \in reconciled :
         /\ row[r] # NoRow
         /\ \E b \in DOMAIN chain : chain[b].op = request[r].op

\* A scan is within the chain; of the row it refunds, what it has not come to
\* is owed in full.
JobOK(j) ==
    /\ j \in Job
    /\ j.step \in {"claim", "refund"}
         => j.block \in DOMAIN chain /\ j.block =< j.to /\ j.to =< Len(chain)
    /\ j.step = "head" => j.head =< Len(chain)
    /\ j.step = "refund" =>
         /\ j.row \in reconciled
         /\ request[j.row].op = chain[j.block].op
         /\ \A q \in j.todo : left[j.row][q] = Due(j.row, q)

\* No row is refunded by two replicas.
Apart ==
    \A x, y \in Replica :
        x # y /\ job[x].step = "refund" /\ job[y].step = "refund"
            => job[x].row # job[y].row

JobsOK ==
    /\ checkpoint \in Nat \cup {NoBlock}
    /\ job \in [Replica -> Job]
    /\ \A p \in Replica : JobOK(job[p])
    /\ Apart

RInv ==
    /\ Base /\ Stages /\ ChainOK /\ Backed /\ ClaimsOK /\ JobsOK
    /\ \A s \in Slot : Covered(s)

----------------------------------------------------------------------------
(* Amounts, and the sum *)

LEMMA FloorFits ==
  ASSUME NEW a \in Nat, NEW d \in Nat \ {0}
  PROVE  d * (a \div d) =< a
OBVIOUS

LEMMA CeilCovers ==
  ASSUME NEW c \in Nat
  PROVE  CeilGwei(c) \in Nat /\ c =< WeiPerGwei * CeilGwei(c)
<1> DEFINE d == WeiPerGwei
           n == c + d - 1
<1>1. d \in Nat \ {0} /\ n \in Nat
  OBVIOUS
<1>2. CeilGwei(c) = n \div d
  BY DEF CeilGwei
<1>3. n \div d \in Nat /\ n < d * (n \div d) + d
  <2> HIDE DEF d, n
  <2> QED
    BY <1>1
<1>4. d * (n \div d) \in Nat
  BY <1>1, <1>3
<1> QED
  BY <1>2, <1>3, <1>4

LEMMA CeilMonotonic ==
  ASSUME NEW a \in Nat, NEW b \in Nat, a =< b
  PROVE  CeilGwei(a) =< CeilGwei(b)
<1>1. a + WeiPerGwei - 1 \in Nat /\ b + WeiPerGwei - 1 \in Nat
  OBVIOUS
<1>2. a + WeiPerGwei - 1 =< b + WeiPerGwei - 1
  OBVIOUS
<1> QED
  BY <1>1, <1>2, DivisionMonotonic DEF CeilGwei

LEMMA Events ==
  ASSUME ChainOK
  PROVE  /\ Len(chain) \in Nat /\ DOMAIN chain = 1..Len(chain)
         /\ \A b \in DOMAIN chain :
              chain[b].op \in Nat /\ chain[b].cost \in Nat /\ chain[b].by \in Request
<1>1. chain \in Seq([op : Nat, cost : Nat, by : Request])
  BY DEF ChainOK
<1>2. Len(chain) \in Nat /\ DOMAIN chain = 1..Len(chain)
  BY <1>1
<1>3. ASSUME NEW b \in 1..Len(chain)
      PROVE  chain[b] \in [op : Nat, cost : Nat, by : Request]
  BY <1>1, ElementOfSeq
<1> QED
  BY <1>2, <1>3

\* What is paid is paid from shares of the counter that are disjoint.
LEMMA SpentCovered ==
  ASSUME Base, Stages, ChainOK, Backed, NEW s \in Slot, quota[s.quota].unit = "wei"
  PROVE  Spent(s) =< WeiPerGwei * Owed(s)
<1> DEFINE q == s.quota
           paid == [b \in DOMAIN chain |->
                      IF q \in rules[chain[b].by] /\ SlotOf(q, chain[b].by, at[chain[b].by]) = s
                      THEN chain[b].cost ELSE 0]
           share == [r \in Request |-> HeldBy(r, s)]
           payer == [b \in DOMAIN chain |-> chain[b].by]
<1>1. q \in Quota /\ s.subject \in Subject
  BY DEF Slot
<1>2. \A b \in DOMAIN chain : chain[b].by \in Request /\ chain[b].cost \in Nat
  BY Events
<1>3. \A r \in Request : share[r] \in Nat
  BY HeldNat DEF Base
<1>4. ASSUME NEW b \in DOMAIN chain
      PROVE  /\ payer[b] \in Request /\ paid[b] \in Nat
             /\ paid[b] =< WeiPerGwei * share[payer[b]]
  <2> DEFINE r == chain[b].by
             c == chain[b].cost
  <2>1. r \in Request /\ c \in Nat /\ payer[b] = r
    BY <1>2
  <2>2. share[r] = HeldBy(r, s) /\ share[r] \in Nat
    BY <1>3, <2>1
  <2>3. CASE q \in rules[r] /\ SlotOf(q, r, at[r]) = s
    <3>1. phase[r] = "issued" /\ rules[r] = reserved[r]
      BY <2>1 DEF ChainOK, Stages, Staged
    <3>2. Carries(r, q)
      BY <1>1, <2>3 DEF SlotOf, Carries
    <3>3. CeilGwei(c) =< left[r][q]
      BY <1>1, <2>3, <3>1, <3>2 DEF Backed
    <3>4. share[r] = left[r][q]
      BY <2>2, <2>3, <3>1 DEF HeldBy
    <3>5. CeilGwei(c) \in Nat /\ c =< WeiPerGwei * CeilGwei(c)
      BY <2>1, CeilCovers
    <3>6. paid[b] = c
      BY <2>3
    <3> HIDE DEF paid, share, payer, r, c, q
    <3>7. WeiPerGwei * CeilGwei(c) =< WeiPerGwei * share[r]
      BY <2>2, <3>3, <3>4, <3>5
    <3>8. WeiPerGwei * CeilGwei(c) \in Nat /\ WeiPerGwei * share[r] \in Nat
      BY <2>2, <3>5
    <3> QED
      BY <2>1, <3>5, <3>6, <3>7, <3>8
  <2>4. CASE ~(q \in rules[r] /\ SlotOf(q, r, at[r]) = s)
    <3>1. paid[b] = 0
      BY <2>4
    <3>2. WeiPerGwei * share[r] \in Nat
      BY <2>2
    <3> QED
      BY <2>1, <3>1, <3>2
  <2> QED
    BY <2>3, <2>4
<1>5. \A a, b \in DOMAIN chain : payer[a] = payer[b] => a = b
  BY DEF ChainOK
<1>6. IsFiniteSet(DOMAIN chain)
  <2>1. DOMAIN chain = 1..Len(chain) /\ Len(chain) \in Nat
    BY Events
  <2> QED
    BY <2>1, FS_Interval
<1>7. Spent(s) = SumOver(paid, DOMAIN chain) /\ Owed(s) = SumOver(share, Request)
  BY DEF Spent, Owed
<1> HIDE DEF paid, share, payer
<1> QED
  BY <1>3, <1>4, <1>5, <1>6, <1>7, SumInjected

LEMMA CapHolds ==
  ASSUME RInv
  PROVE  SpendWithinCap
<1> SUFFICES ASSUME NEW s \in Slot, quota[s.quota].unit = "wei"
             PROVE  Spent(s) =< quota[s.quota].limit + leaked[s] * WeiPerGwei
  BY DEF SpendWithinCap
<1> DEFINE d == WeiPerGwei
           l == quota[s.quota].limit
           o == Owed(s)
           k == leaked[s]
<1>1. s.quota \in Quota
  BY DEF Slot
<1>2. d \in Nat \ {0} /\ l \in Nat /\ k \in Nat /\ o \in Nat
  BY <1>1, OwedNat DEF QuotaFields, RInv, Base, SponsorTypeOK
<1>3. Spent(s) =< d * o
  BY SpentCovered DEF RInv
<1>4. o =< (l \div d) + k
  <2>1. CountedLimit(s.quota) = l \div d
    BY DEF CountedLimit
  <2>2. used[s] \in Nat /\ used[s] =< l \div d /\ o =< used[s] + k
    BY <2>1 DEF RInv, Covered, Base, SponsorTypeOK
  <2>3. l \div d \in Nat
    BY <1>2, DivisionNat
  <2> HIDE DEF l, d, o, k
  <2> QED
    BY <1>2, <2>2, <2>3
<1>5. Spent(s) \in Int
  <2> DEFINE paid == [b \in DOMAIN chain |->
        IF /\ s.quota \in rules[chain[b].by]
           /\ SlotOf(s.quota, chain[b].by, at[chain[b].by]) = s
        THEN chain[b].cost ELSE 0]
  <2>1. \A b \in DOMAIN chain : paid[b] \in Int
    BY Events DEF RInv
  <2>2. IsFiniteSet(DOMAIN chain)
    <3>1. DOMAIN chain = 1..Len(chain) /\ Len(chain) \in Nat
      BY Events DEF RInv
    <3> QED
      BY <3>1, FS_Interval
  <2>3. Spent(s) = SumOver(paid, DOMAIN chain)
    BY DEF Spent
  <2> HIDE DEF paid
  <2> QED
    BY <2>1, <2>2, <2>3, SumInt
<1> HIDE DEF d, l, o, k
<1>6. l \div d \in Nat /\ d * (l \div d) =< l
  BY <1>2, FloorFits, DivisionNat
<1>7. d * o =< d * ((l \div d) + k)
  BY <1>2, <1>4, <1>6
<1>8. d * ((l \div d) + k) = d * (l \div d) + k * d
  BY <1>2, <1>6
<1>9. d * o \in Nat /\ k * d \in Nat /\ d * (l \div d) \in Nat
  BY <1>2, <1>6
<1>10. Spent(s) =< l + k * d
  BY <1>2, <1>3, <1>5, <1>6, <1>7, <1>8, <1>9
<1> QED
  BY <1>10 DEF l, k, d

----------------------------------------------------------------------------
(* A step of the service *)

\* Whoever was answered is left alone, and rows stay.
Settled(r) ==
    /\ phase[r] = "issued" =>
         /\ phase'[r] = "issued" /\ at'[r] = at[r] /\ rules'[r] = rules[r]
         /\ reserved'[r] = reserved[r] /\ left'[r] = left[r]
    /\ row[r] # NoRow => row'[r] = row[r]

\* A request on which no step is taken.
LEMMA OthersStaged ==
  ASSUME NEW x \in Request, Staged(x),
         phase'[x] = phase[x], at'[x] = at[x], rules'[x] = rules[x],
         todo'[x] = todo[x], reserved'[x] = reserved[x], left'[x] = left[x],
         row'[x] = row[x]
  PROVE  Settled(x) /\ Staged(x)'
BY DEF Settled, Staged

LEMMA QuietStaged ==
  ASSUME Base, NEW r \in Request, NEW x \in Request, Staged(x),
         Receive(r) \/ Refuse(r) \/ Begin(r) \/ CheckDenies(r) \/ Approve(r)
           \/ Attest(r) \/ InsertRow(r) \/ Answer(r) \/ Finish(r) \/ Hang(r) \/ Die(r)
  PROVE  Settled(x) /\ Staged(x)'
<1>1. phase[r] \in {"new", "received"} => reserved[r] = {}
  BY DEF Base, Orderly
<1>2. CASE x # r
  <2>1. /\ phase'[x] = phase[x] /\ at'[x] = at[x] /\ rules'[x] = rules[x]
        /\ todo'[x] = todo[x] /\ reserved'[x] = reserved[x] /\ left'[x] = left[x]
        /\ row'[x] = row[x]
    BY <1>2 DEF Receive, Refuse, Begin, CheckDenies, Deny, Approve, Attest, InsertRow, Answer,
                Finish, Hang, Die, To, Base, SponsorTypeOK
  <2> QED
    BY <2>1, OthersStaged
<1>3. CASE x = r
  <2> USE DEF To, Base, SponsorTypeOK, Settled, Staged
  <2>1. CASE Receive(r) \/ Refuse(r)
    BY <1>3, <2>1 DEF Receive, Refuse
  <2>2. CASE Begin(r)
    BY <1>1, <1>3, <2>2 DEF Begin
  <2>3. CASE CheckDenies(r) \/ Approve(r)
    BY <1>3, <2>3 DEF CheckDenies, Deny, Approve
  <2>4. CASE Attest(r) \/ Answer(r)
    BY <1>3, <2>4 DEF Attest, Answer
  <2>5. CASE InsertRow(r)
    BY <1>3, <2>5 DEF InsertRow, NoRow
  <2>6. CASE Finish(r) \/ Die(r)
    BY <1>3, <2>6 DEF Finish, Die
  <2>7. CASE Hang(r)
    <3>1. /\ phase[r] # "issued" /\ phase' = [phase EXCEPT ![r] = "hung"]
          /\ UNCHANGED <<rules, at, todo, reserved, left, row>>
      BY <2>7 DEF Hang, Turn
    <3> QED
      BY <1>3, <3>1
  <2> QED
    BY <2>1, <2>2, <2>3, <2>4, <2>5, <2>6, <2>7
<1> QED
  BY <1>2, <1>3

LEMMA EvaluateStaged ==
  ASSUME Base, NEW r \in Request, NEW q \in Quota, NEW x \in Request, Staged(x),
         EvaluateUnkeyed(r, q) \/ EvaluateQuota(r, q) \/ EvaluateFails(r, q)
           \/ EvaluateResent(r, q)
  PROVE  Settled(x) /\ Staged(x)'
<1>1. phase[r] = "evaluating" /\ q \in todo[r] /\ UNCHANGED <<rules, at, row>>
  BY DEF EvaluateUnkeyed, EvaluateQuota, EvaluateFails, EvaluateResent, Turn, Allow, Deny
<1>2. (Allow(r, q) \/ Deny(r)) /\ (x # r => left'[x] = left[x])
  BY DEF EvaluateUnkeyed, EvaluateQuota, EvaluateFails, EvaluateResent, Base, SponsorTypeOK
<1>3. CASE x # r
  <2>1. /\ phase'[x] = phase[x] /\ at'[x] = at[x] /\ rules'[x] = rules[x]
        /\ todo'[x] = todo[x] /\ reserved'[x] = reserved[x] /\ row'[x] = row[x]
    BY <1>1, <1>2, <1>3 DEF Allow, Deny, To, Base, SponsorTypeOK
  <2> QED
    BY <1>2, <1>3, <2>1, OthersStaged
<1>4. CASE x = r /\ Allow(r, q)
  BY <1>1, <1>4 DEF Allow, Base, SponsorTypeOK, Settled, Staged
<1>5. CASE x = r /\ Deny(r)
  BY <1>1, <1>5 DEF Deny, To, Base, SponsorTypeOK, Settled, Staged
<1> QED
  BY <1>2, <1>3, <1>4, <1>5

LEMMA ReleaseStaged ==
  ASSUME Base, NEW r \in Request, NEW q \in Quota, NEW x \in Request, Staged(x),
         ReleaseReservation(r, q)
  PROVE  Settled(x) /\ Staged(x)'
<1>1. phase[r] \in {"denying", "failing"} /\ UNCHANGED <<phase, rules, at, todo, row>>
  BY DEF ReleaseReservation
<1>2. CASE x # r
  <2>1. reserved'[x] = reserved[x] /\ left'[x] = left[x]
    BY <1>2 DEF ReleaseReservation, Base, SponsorTypeOK
  <2> QED
    BY <1>1, <2>1, OthersStaged
<1>3. CASE x = r
  BY <1>1, <1>3 DEF Settled, Staged
<1> QED
  BY <1>2, <1>3

LEMMA ServiceStaged ==
  ASSUME Base, Stages, [SponsorNext]_sponsorVars
  PROVE  Stages' /\ \A x \in Request : Settled(x)
<1>1. \A x \in Request : Staged(x)
  BY DEF Stages
<1>2. ASSUME NEW x \in Request
      PROVE  Settled(x) /\ Staged(x)'
  <2>1. CASE (\E p \in Policy : SetPolicy(p)) \/ Tick \/ UNCHANGED sponsorVars
    <3>1. UNCHANGED <<serviceVars, left>>
      BY <2>1 DEF SetPolicy, Tick, sponsorVars
    <3> QED
      BY <1>1, <3>1, OthersStaged DEF serviceVars
  <2> QED
    BY <1>1, <2>1, QuietStaged, EvaluateStaged, ReleaseStaged DEF SponsorNext, Serve
<1> QED
  BY <1>2 DEF Stages

----------------------------------------------------------------------------
(* Jobs *)

\* The chain grows at its end, and claims are not taken back.
Grows ==
    /\ Len(chain) \in Nat /\ Len(chain)' \in Nat /\ Len(chain) =< Len(chain)'
    /\ \A b \in DOMAIN chain : b \in DOMAIN chain' /\ chain'[b] = chain[b]
    /\ reconciled \subseteq reconciled'

LEMMA JobFields ==
  ASSUME NEW j \in Job
  PROVE  /\ j.step \in {"idle", "head", "claim", "save", "refund"}
         /\ j.step = "head" => j.head \in Nat
         /\ j.step \in {"claim", "save", "refund"} => j.block \in Nat /\ j.to \in Nat
         /\ j.step = "refund" => j.row \in Request /\ j.todo \in SUBSET Quota
BY DEF Job, Idle

\* Replicas that take no step, as long as what they have to refund is owed.
LEMMA JobKept ==
  ASSUME Grows, NEW j, JobOK(j),
         j.step = "refund" =>
            \A q \in j.todo : left'[j.row][q] =
                IF q \in reserved'[j.row] /\ Carries(j.row, q) THEN AmountFor(q, j.row) ELSE 0
  PROVE  JobOK(j)'
<1>1. j.step = "refund" => \A q \in j.todo : left'[j.row][q] = Due(j.row, q)'
  BY DEF Due, Carries, AmountFor, CeilGwei
<1>2. j.step \in {"claim", "refund"} =>
        /\ chain'[j.block] = chain[j.block] /\ j.block \in DOMAIN chain' /\ j.block =< j.to
        /\ j.to \in Nat /\ j.to =< Len(chain)'
  BY JobFields DEF JobOK, Grows
<1>3. j.step = "head" => j.head =< Len(chain)'
  BY JobFields DEF JobOK, Grows
<1>4. j \in Job /\ (j.step = "refund" => j.row \in reconciled')
  BY DEF JobOK, Grows
<1> QED
  BY <1>1, <1>2, <1>3, <1>4 DEF JobOK

LEMMA JobsKept ==
  ASSUME JobsOK, Grows, UNCHANGED <<checkpoint, job>>, Follows
  PROVE  JobsOK'
<1>1. ASSUME NEW x \in Replica
      PROVE  JobOK(job[x])'
  <2>1. PICK j : j = job[x]
    OBVIOUS
  <2>2. j \in Job /\ JobOK(j)
    BY <2>1 DEF JobsOK, JobOK
  <2>3. ASSUME j.step = "refund", NEW q \in j.todo
        PROVE  left'[j.row][q] =
                 IF q \in reserved'[j.row] /\ Carries(j.row, q) THEN AmountFor(q, j.row) ELSE 0
    <3>1. j.row \in Request /\ q \in Quota
      BY <2>2, <2>3, JobFields
    <3>2. left[j.row][q] = Due(j.row, q)
      BY <2>2, <2>3 DEF JobOK
    <3>3. PICK r : r = j.row
      OBVIOUS
    <3>4. left'[r][q] = IF q \in reserved'[r] /\ Carries(r, q) THEN AmountFor(q, r) ELSE 0
      BY <3>1, <3>2, <3>3, DueNext DEF Follows, Due
    <3> QED
      BY <3>3, <3>4
  <2>4. JobOK(j)'
    BY <2>2, <2>3, JobKept
  <2> QED
    BY <2>1, <2>4 DEF JobOK
<1> QED
  BY <1>1 DEF JobsOK, Apart

\* One replica goes on to the job j.
LEMMA JobStep ==
  ASSUME JobsOK, Grows, NEW p \in Replica, NEW j, Do(p, j),
         checkpoint' \in Nat \cup {NoBlock},
         j \in Job, JobOK(j)',
         \A x \in Replica \ {p} : job[x].step = "refund" =>
            /\ j.step = "refund" => job[x].row # j.row
            /\ \A q \in job[x].todo : left'[job[x].row][q] =
                  IF q \in reserved'[job[x].row] /\ Carries(job[x].row, q)
                  THEN AmountFor(q, job[x].row) ELSE 0
  PROVE  JobsOK'
<1>1. job' \in [Replica -> Job] /\ job'[p] = j /\ \A x \in Replica \ {p} : job'[x] = job[x]
  BY DEF Do, JobsOK
<1>2. JobOK(job[p])'
  BY <1>1 DEF JobOK, Due, Carries, AmountFor, CeilGwei
<1>3. ASSUME NEW x \in Replica \ {p}
      PROVE  JobOK(job[x])'
  <2>1. PICK k : k = job[x]
    OBVIOUS
  <2>2. k \in Job /\ JobOK(k) /\ k = job'[x]
    BY <1>1, <2>1 DEF JobsOK
  <2>3. JobOK(k)'
    BY <2>1, <2>2, JobKept
  <2> QED
    BY <2>2, <2>3 DEF JobOK
<1>4. Apart'
  BY <1>1 DEF JobsOK, Apart
<1> QED
  BY <1>1, <1>2, <1>3, <1>4 DEF JobsOK

----------------------------------------------------------------------------
(* The steps, but for the refunds *)

LEMMA InitRInv ==
  ASSUME ReconInit
  PROVE  RInv
<1>1. IInv /\ Base /\ Charged
  BY InitIInv DEF ReconInit, IInv
<1>2. Stages
  BY DEF ReconInit, Init, Stages, Staged
<1>3. Len(chain) = 0 /\ DOMAIN chain = {} /\ chain \in Seq([op : Nat, cost : Nat, by : Request])
  BY DEF ReconInit
<1>4. ChainOK /\ Backed
  BY <1>3 DEF ChainOK, Backed
<1>5. ClaimsOK
  BY <1>1 DEF ReconInit, ClaimsOK, Charged
<1>6. Idle \in Job /\ JobOK(Idle)
  BY DEF Job, JobOK, Idle
<1>7. JobsOK
  BY <1>6 DEF ReconInit, JobsOK, Apart, Idle
<1> QED
  BY <1>1, <1>2, <1>4, <1>5, <1>7, Booked DEF RInv

\* What the service does to a request is nothing to those that were answered.
LEMMA ServiceStep ==
  ASSUME RInv, [SponsorNext]_sponsorVars, UNCHANGED reconVars
  PROVE  RInv'
<1>1. Base' /\ Follows /\ Stages' /\ \A x \in Request : Settled(x)
  BY BaseStep, ServiceStaged DEF RInv
<1>2. \A s \in Slot : Covered(s)'
  BY CoveredStep DEF RInv
<1>3. UNCHANGED <<chain, reconciled, checkpoint, job>>
  BY DEF reconVars
<1>4. \A b \in DOMAIN chain : chain[b].by \in Request /\ Settled(chain[b].by)
  BY <1>1, Events DEF RInv
<1>5. ChainOK'
  BY <1>3, <1>4 DEF RInv, ChainOK, Settled
<1>6. Backed'
  BY <1>3, <1>4 DEF RInv, ChainOK, Backed, Settled, Carries, CeilGwei
<1>7. ClaimsOK'
  <2>1. \A r \in Request \ reconciled, q \in Quota : left'[r][q] = Due(r, q)'
    BY <1>1 DEF RInv, ClaimsOK, Follows
  <2> QED
    BY <1>1, <1>3, <2>1 DEF RInv, ClaimsOK, Settled
<1>8. JobsOK'
  <2>1. Grows
    BY <1>3, Events DEF RInv, Grows
  <2> QED
    BY <1>1, <1>3, <2>1, JobsKept DEF RInv
<1> QED
  BY <1>1, <1>2, <1>5, <1>6, <1>7, <1>8 DEF RInv

\* The service does nothing.
LEMMA ServiceStays ==
  ASSUME RInv, UNCHANGED <<now, policy, edits, used, serviceVars, left, leaked>>,
         faults' \in Nat
  PROVE  Base' /\ Stages' /\ Follows /\ \A s \in Slot : Covered(s)'
<1> USE DEF serviceVars
<1>1. SponsorTypeOK' /\ now' =< MaxTime /\ Orderly'
  BY DEF RInv, Base, SponsorTypeOK, Orderly
<1>2. Within' /\ Follows
  BY DebtsKept DEF RInv, Base
<1>3. Stages'
  BY DEF RInv, Stages, Staged
<1>4. ASSUME NEW s \in Slot
      PROVE  Covered(s)'
  <2>1. \A x \in Request : HeldBy(x, s)' = HeldBy(x, s)
    BY DEF HeldBy
  <2>2. Owed(s)' = Owed(s)
    BY <1>1, <2>1, OwedKept DEF RInv, Base
  <2> QED
    BY <2>2 DEF RInv, Covered
<1> QED
  BY <1>1, <1>2, <1>3, <1>4 DEF Base

\* An operation is mined with an attestation that holds all it charged.
LEMMA MineStep ==
  ASSUME RInv, NEW r \in Request, NEW cost \in Cost, Mine(r, cost)
  PROVE  RInv'
<1> DEFINE n == Len(chain) + 1
           e == [op |-> request[r].op, cost |-> cost, by |-> r]
<1> USE ReconciliationAssumption
<1>1. /\ Base' /\ Stages' /\ Follows /\ \A s \in Slot : Covered(s)'
      /\ UNCHANGED <<phase, row, reserved, left, reconciled, checkpoint, job>>
  BY ServiceStays DEF Mine, sponsorVars, serviceVars, RInv, Base, SponsorTypeOK
<1>2. /\ Len(chain) \in Nat /\ DOMAIN chain = 1..Len(chain)
      /\ chain \in Seq([op : Nat, cost : Nat, by : Request])
      /\ request[r].op \in Nat /\ request[r].maxCost \in Nat /\ cost \in Nat
  BY Events DEF RInv, ChainOK, RequestFields
<1>3. e \in [op : Nat, cost : Nat, by : Request]
  BY <1>2
<1>4. /\ chain' = Append(chain, e) /\ phase[r] = "issued" /\ cost =< request[r].maxCost
      /\ \A b \in DOMAIN chain : chain[b].op # request[r].op
  BY DEF Mine
<1>5. /\ chain' \in Seq([op : Nat, cost : Nat, by : Request])
      /\ Len(chain') = n /\ DOMAIN chain' = 1..n
      /\ chain'[n] = e
      /\ \A b \in 1..Len(chain) : chain'[b] = chain[b]
  <2> HIDE DEF e
  <2> QED
    BY <1>2, <1>3, <1>4
<1>6. \A b \in DOMAIN chain' : b = n \/ b \in DOMAIN chain
  BY <1>2, <1>5
<1>7. e.op = request[r].op /\ e.cost = cost /\ e.by = r
  OBVIOUS
<1> HIDE DEF e, n
<1>8. ChainOK'
  <2>1. ASSUME NEW b \in DOMAIN chain'
        PROVE  phase'[chain'[b].by] = "issued" /\ chain'[b].op = request[chain'[b].by].op
    BY <1>1, <1>2, <1>4, <1>5, <1>6, <1>7 DEF RInv, ChainOK
  <2>2. \A a, b \in DOMAIN chain' : chain'[a].op = chain'[b].op => a = b
    BY <1>2, <1>4, <1>5, <1>6, <1>7 DEF RInv, ChainOK
  <2> QED
    BY <1>5, <2>1, <2>2 DEF ChainOK
<1>9. Backed'
  <2> SUFFICES ASSUME NEW b \in DOMAIN chain', NEW q \in Quota,
                      q \in reserved[chain'[b].by], Carries(chain'[b].by, q),
                      quota[q].unit = "wei"
               PROVE  CeilGwei(chain'[b].cost) =< left[chain'[b].by][q]
    BY <1>1 DEF Backed, Carries, CeilGwei
  <2>1. CASE b \in DOMAIN chain
    BY <1>2, <1>5, <2>1 DEF RInv, Backed
  <2>2. CASE b = n
    <3>1. r \notin reconciled
      BY <1>4 DEF RInv, ClaimsOK
    <3>2. left[r][q] = CeilGwei(request[r].maxCost)
      BY <1>5, <1>7, <2>2, <3>1 DEF RInv, ClaimsOK, Due, AmountFor
    <3> QED
      BY <1>2, <1>4, <1>5, <1>7, <2>2, <3>2, CeilMonotonic
  <2> QED
    BY <1>6, <2>1, <2>2
<1>10. ClaimsOK'
  <2>1. \A x \in Request \ reconciled, q \in Quota : left'[x][q] = Due(x, q)'
    BY <1>1 DEF RInv, ClaimsOK, Follows
  <2>2. \A x \in reconciled : \E b \in DOMAIN chain' : chain'[b].op = request[x].op
    <3> SUFFICES ASSUME NEW x \in reconciled
                 PROVE  \E b \in DOMAIN chain' : chain'[b].op = request[x].op
      OBVIOUS
    <3>1. PICK b \in DOMAIN chain : chain[b].op = request[x].op
      BY DEF RInv, ClaimsOK
    <3>2. b \in DOMAIN chain' /\ chain'[b] = chain[b]
      BY <1>2, <1>5 DEF n
    <3> QED
      BY <3>1, <3>2
  <2> QED
    BY <1>1, <2>1, <2>2 DEF RInv, ClaimsOK
<1>11. JobsOK'
  <2>1. Grows
    BY <1>1, <1>2, <1>5 DEF Grows, n
  <2> QED
    BY <1>1, <2>1, JobsKept DEF RInv
<1> QED
  BY <1>1, <1>8, <1>9, <1>10, <1>11 DEF RInv

\* A replica scans: the books stay, and its next job is in order.
LEMMA ScanStep ==
  ASSUME RInv, NEW p \in Replica, NEW j, Do(p, j),
         UNCHANGED <<now, policy, edits, used, serviceVars, left, leaked, chain>>,
         faults' \in Nat,
         checkpoint' \in Nat \cup {NoBlock},
         j \in Job, JobOK(j)',
         \/ /\ UNCHANGED reconciled
            /\ j.step = "refund" => job[p].step = "refund" /\ j.row = job[p].row
         \/ /\ j.step = "refund" /\ j.row \in Request \ reconciled /\ row[j.row] # NoRow
            /\ reconciled' = reconciled \cup {j.row}
            /\ \E b \in DOMAIN chain : chain[b].op = request[j.row].op
  PROVE  RInv'
<1>1. Base' /\ Stages' /\ Follows /\ \A s \in Slot : Covered(s)'
  BY ServiceStays
<1>2. ChainOK' /\ Backed'
  BY DEF serviceVars, RInv, ChainOK, Backed, Carries, CeilGwei
<1>3. ClaimsOK'
  <2>1. reconciled \subseteq reconciled'
    OBVIOUS
  <2>2. \A r \in Request \ reconciled', q \in Quota : left'[r][q] = Due(r, q)'
    BY <1>1, <2>1 DEF RInv, ClaimsOK, Follows
  <2> QED
    BY <2>1, <2>2 DEF serviceVars, RInv, ClaimsOK
<1>4. JobsOK'
  <2>1. JobsOK /\ reconciled \subseteq Request
    BY DEF RInv, ClaimsOK
  <2>2. Grows
    BY Events DEF RInv, Grows
  <2>3. ASSUME NEW x \in Replica \ {p}, job[x].step = "refund"
        PROVE  /\ j.step = "refund" => job[x].row # j.row
               /\ \A q \in job[x].todo : left'[job[x].row][q] =
                     IF q \in reserved'[job[x].row] /\ Carries(job[x].row, q)
                     THEN AmountFor(q, job[x].row) ELSE 0
    <3>1. /\ job[x].row \in reconciled
          /\ \A q \in job[x].todo : left[job[x].row][q] = Due(job[x].row, q)
          /\ job[p].step = "refund" => job[x].row # job[p].row
      BY <2>1, <2>3 DEF JobsOK, JobOK, Apart
    <3>2. left' = left /\ reserved' = reserved
      BY DEF serviceVars
    <3> QED
      BY <3>1, <3>2 DEF Due
  <2> QED
    BY <2>1, <2>2, <2>3, JobStep
<1> QED
  BY <1>1, <1>2, <1>3, <1>4 DEF RInv

LEMMA NextBlockOK ==
  ASSUME RInv, NEW p \in Replica, job[p].step \in {"claim", "refund"},
         NEW j, j = NextBlock(p), chain' = chain
  PROVE  j \in Job /\ JobOK(j)' /\ j.step # "refund"
<1>1. PICK b, t : b = job[p].block /\ t = job[p].to
  OBVIOUS
<1>2. b \in DOMAIN chain /\ b \in Nat /\ t \in Nat /\ t =< Len(chain)
  <2>1. job[p] \in Job /\ JobOK(job[p])
    BY DEF RInv, JobsOK
  <2> QED
    BY <1>1, <2>1, JobFields DEF JobOK
<1>3. DOMAIN chain = 1..Len(chain) /\ Len(chain) \in Nat
  BY Events DEF RInv
<1>4. CASE b < t
  <2>1. j = [step |-> "claim", block |-> b + 1, to |-> t]
    BY <1>1, <1>4 DEF NextBlock
  <2>2. j \in Job
    BY <1>2, <2>1 DEF Job
  <2>3. j.step = "claim" /\ j.block = b + 1 /\ j.to = t
    BY <2>1
  <2>4. b + 1 \in DOMAIN chain /\ b + 1 =< t
    BY <1>2, <1>3, <1>4
  <2> QED
    BY <1>2, <2>2, <2>3, <2>4 DEF JobOK
<1>5. CASE ~(b < t)
  <2>1. j = [step |-> "save", block |-> b, to |-> t]
    BY <1>1, <1>5 DEF NextBlock
  <2>2. j \in Job
    BY <1>2, <2>1 DEF Job
  <2>3. j.step = "save"
    BY <2>1
  <2> QED
    BY <2>2, <2>3 DEF JobOK
<1> QED
  BY <1>4, <1>5

LEMMA IdleOK ==
  ASSUME NEW j, j = Idle
  PROVE  j \in Job /\ JobOK(j)' /\ j.step # "refund"
BY DEF Job, JobOK, Idle

\* Reading the head and the checkpoint, going on to the next block, saving and
\* dying: nothing is claimed.
LEMMA CourseStep ==
  ASSUME RInv, NEW p \in Replica,
         ReadHead(p) \/ ReadCheckpoint(p) \/ Refunded(p) \/ SaveCheckpoint(p) \/ Abandon(p)
  PROVE  RInv'
<1> USE ReconciliationAssumption
<1>1. /\ UNCHANGED <<now, policy, edits, used, serviceVars, left, leaked, chain, reconciled>>
      /\ faults' \in Nat
  <2>1. faults \in Nat
    BY DEF RInv, Base, SponsorTypeOK
  <2> QED
    BY <2>1 DEF ReadHead, ReadCheckpoint, Refunded, SaveCheckpoint, Abandon, Fails, sponsorVars
<1>2. job[p] \in Job /\ JobOK(job[p]) /\ checkpoint \in Nat \cup {NoBlock}
  BY DEF RInv, JobsOK
<1>3. DOMAIN chain = 1..Len(chain) /\ Len(chain) \in Nat
  BY Events DEF RInv
<1>4. CASE ReadHead(p)
  <2>1. PICK j : j = [step |-> "head", head |-> Len(chain)]
    OBVIOUS
  <2>2. j \in Job /\ j.step = "head" /\ j.head = Len(chain)
    BY <1>3, <2>1 DEF Job
  <2>3. JobOK(j)'
    BY <1>1, <1>3, <2>2 DEF JobOK
  <2>4. Do(p, j) /\ checkpoint' \in Nat \cup {NoBlock}
    BY <1>2, <1>4, <2>1 DEF ReadHead
  <2> QED
    BY <1>1, <2>2, <2>3, <2>4, ScanStep
<1>5. CASE ReadCheckpoint(p)
  <2>1. PICK h : h = job[p].head
    OBVIOUS
  <2>2. PICK from : from = IF checkpoint = NoBlock THEN AtLeast(1, h - InitialLookback)
                           ELSE checkpoint + 1
    OBVIOUS
  <2>3. PICK to : to = AtMost(h, from + MaxBlockRange - 1)
    OBVIOUS
  <2>4. h \in Nat /\ h =< Len(chain)
    BY <1>2, <1>5, <2>1, JobFields DEF ReadCheckpoint, JobOK
  <2>5. from \in Nat /\ 1 =< from
    BY <1>2, <2>2, <2>4 DEF AtLeast
  <2>6. ~(from > h) => to \in Nat /\ from =< to /\ to =< h
    BY <2>3, <2>4, <2>5 DEF AtMost
  <2>7. PICK j : j = IF from > h THEN Idle ELSE [step |-> "claim", block |-> from, to |-> to]
    OBVIOUS
  <2>8. Do(p, j) /\ checkpoint' \in Nat \cup {NoBlock}
    BY <1>2, <1>5, <2>1, <2>2, <2>3, <2>7 DEF ReadCheckpoint, CaughtUp
  <2>9. j \in Job /\ JobOK(j)' /\ j.step # "refund"
    <3>1. CASE from > h
      BY <2>7, <3>1, IdleOK
    <3>2. CASE ~(from > h)
      <4>1. j = [step |-> "claim", block |-> from, to |-> to]
        BY <2>7, <3>2
      <4>2. j \in Job
        BY <2>5, <2>6, <3>2, <4>1 DEF Job
      <4>3. j.step = "claim" /\ j.block = from /\ j.to = to
        BY <4>1
      <4>4. from \in DOMAIN chain /\ from =< to /\ to =< Len(chain)
        BY <1>3, <2>4, <2>5, <2>6, <3>2
      <4> QED
        BY <1>1, <4>2, <4>3, <4>4 DEF JobOK
    <3> QED
      BY <3>1, <3>2
  <2> QED
    BY <1>1, <2>8, <2>9, ScanStep
<1>6. CASE Refunded(p)
  <2>1. PICK j : j = NextBlock(p)
    OBVIOUS
  <2>2. Do(p, j) /\ checkpoint' \in Nat \cup {NoBlock}
    BY <1>2, <1>6, <2>1 DEF Refunded
  <2>3. j \in Job /\ JobOK(j)' /\ j.step # "refund"
    BY <1>1, <1>6, <2>1, NextBlockOK DEF Refunded
  <2> QED
    BY <1>1, <2>2, <2>3, ScanStep
<1>7. CASE SaveCheckpoint(p)
  <2>1. PICK j : j = Idle
    OBVIOUS
  <2>2. Do(p, j)
    BY <1>7, <2>1 DEF SaveCheckpoint
  <2>3. checkpoint' \in Nat \cup {NoBlock}
    BY <1>2, <1>7, JobFields DEF SaveCheckpoint, Saved, AtLeast
  <2> QED
    BY <1>1, <2>1, <2>2, <2>3, IdleOK, ScanStep
<1>8. CASE Abandon(p)
  <2>1. PICK j : j = Idle
    OBVIOUS
  <2>2. Do(p, j) /\ checkpoint' \in Nat \cup {NoBlock}
    BY <1>2, <1>8, <2>1 DEF Abandon
  <2> QED
    BY <1>1, <2>1, <2>2, IdleOK, ScanStep
<1> QED
  BY <1>4, <1>5, <1>6, <1>7, <1>8

\* A row is claimed once, while all that its request charged is still owed.
LEMMA ClaimStep ==
  ASSUME RInv, NEW p \in Replica, Claim(p)
  PROVE  RInv'
<1>1. /\ UNCHANGED <<now, policy, edits, used, serviceVars, left, leaked, chain>>
      /\ faults' \in Nat /\ checkpoint' \in Nat \cup {NoBlock}
      /\ job[p].step = "claim"
  BY DEF Claim, sponsorVars, RInv, Base, SponsorTypeOK, JobsOK
<1>2. PICK b, t : b = job[p].block /\ t = job[p].to
  OBVIOUS
<1>3. b \in DOMAIN chain /\ b \in Nat /\ t \in Nat /\ b =< t /\ t =< Len(chain)
  <2>1. job[p] \in Job /\ JobOK(job[p])
    BY DEF RInv, JobsOK
  <2> QED
    BY <1>1, <1>2, <2>1, JobFields DEF JobOK
<1>4. CASE Do(p, NextBlock(p)) /\ UNCHANGED reconciled
  <2>1. PICK j : j = NextBlock(p)
    OBVIOUS
  <2>2. Do(p, j)
    BY <1>4, <2>1
  <2>3. j \in Job /\ JobOK(j)' /\ j.step # "refund"
    BY <1>1, <2>1, NextBlockOK
  <2> QED
    BY <1>1, <1>4, <2>2, <2>3, ScanStep
<1>5. ASSUME NEW r \in Unclaimed(chain[b].op),
             reconciled' = Marked(r),
             Do(p, [step |-> "refund", block |-> b, to |-> t, row |-> r, todo |-> policy])
      PROVE  RInv'
  <2>1. PICK j : j = [step |-> "refund", block |-> b, to |-> t, row |-> r, todo |-> policy]
    OBVIOUS
  <2>2. r \in Request \ reconciled /\ row[r] # NoRow /\ request[r].op = chain[b].op
    BY DEF Unclaimed
  <2>3. policy \in SUBSET Quota
    BY DEF RInv, Base, SponsorTypeOK
  <2>4. j \in Job
    BY <1>3, <2>1, <2>2, <2>3 DEF Job
  <2>5. j.step = "refund" /\ j.block = b /\ j.to = t /\ j.row = r /\ j.todo = policy
    BY <2>1
  <2>6. reconciled' = reconciled \cup {r}
    BY <1>5 DEF Marked
  <2>7. \A q \in policy : left'[r][q] = Due(r, q)'
    <3>1. Follows
      BY <1>1, ServiceStays
    <3> QED
      BY <2>2, <2>3, <3>1 DEF RInv, ClaimsOK, Follows
  <2>8. JobOK(j)'
    BY <1>1, <1>3, <2>2, <2>4, <2>5, <2>6, <2>7 DEF JobOK
  <2>9. Do(p, j)
    BY <1>5, <2>1
  <2> QED
    BY <1>1, <1>3, <2>2, <2>4, <2>5, <2>6, <2>8, <2>9, ScanStep
<1> QED
  BY <1>2, <1>4, <1>5 DEF Claim

----------------------------------------------------------------------------
(* Refunds *)

LEMMA RowSlot ==
  ASSUME NEW q \in Quota, NEW r \in Request, Carries(r, q), NEW t \in 0..(MaxTime + 1)
  PROVE  SlotOf(q, r, t) \in Slot /\ SlotOf(q, r, t).quota = q
<1>1. request[r].subject[q] \in Subject
  BY DEF RequestFields, Carries
<1>2. t \div WindowSeconds \in Nat /\ (MaxTime + 1) \div WindowSeconds \in Nat
  BY DivisionNat
<1>3. t \div WindowSeconds =< (MaxTime + 1) \div WindowSeconds
  BY DivisionMonotonic
<1> QED
  BY <1>1, <1>2, <1>3 DEF SlotOf, Slot

Rest(p, q) == [job[p] EXCEPT !.todo = @ \ {q}]

\* What a refund says of the job it belongs to.
Refunding(p, q, r, b) ==
    /\ p \in Replica /\ q \in Quota /\ r \in Request /\ b \in DOMAIN chain
    /\ job[p].step = "refund" /\ q \in job[p].todo
    /\ job[p].row = r /\ job[p].block = b
    /\ r \in reconciled /\ row[r] \in 0..(MaxTime + 1)
    /\ request[r].op = chain[b].op
    /\ left[r][q] = Due(r, q)

LEMMA RefundingJob ==
  ASSUME RInv, NEW p \in Replica, NEW q \in Quota, TrueUp(p, q)
  PROVE  Refunding(p, q, job[p].row, job[p].block)
<1>1. job[p] \in Job /\ JobOK(job[p]) /\ job[p].step = "refund" /\ q \in job[p].todo
  BY DEF RInv, JobsOK, TrueUp
<1>2. job[p].row \in Request
  BY <1>1, JobFields
<1>3. row[job[p].row] # NoRow
  BY <1>1 DEF RInv, ClaimsOK, JobOK
<1>4. row[job[p].row] \in 0..(MaxTime + 1)
  BY <1>2, <1>3 DEF RInv, Base, SponsorTypeOK
<1> QED
  BY <1>1, <1>2, <1>4 DEF Refunding, JobOK

LEMMA RestOfJob ==
  ASSUME RInv, NEW p \in Replica, NEW q \in Quota, NEW r \in Request, NEW b,
         Refunding(p, q, r, b), NEW j, j = Rest(p, q)
  PROVE  /\ j \in Job /\ j.step = "refund" /\ j.row = r /\ j.block = b
         /\ j.to = job[p].to /\ j.todo = job[p].todo \ {q}
<1>1. job[p] \in [step : {"refund"}, block : Nat, to : Nat, row : Request, todo : SUBSET Quota]
  BY DEF RInv, JobsOK, Refunding, Job, Idle
<1>2. /\ j \in [step : {"refund"}, block : Nat, to : Nat, row : Request, todo : SUBSET Quota]
      /\ j.todo = job[p].todo \ {q} /\ j.row = job[p].row /\ j.block = job[p].block
      /\ j.to = job[p].to
  BY <1>1 DEF Rest
<1> QED
  BY <1>2 DEF Refunding, Job

\* A refund concerns its own request, rule and job.
LEMMA RefundStep ==
  ASSUME RInv, NEW p \in Replica, NEW q \in Quota, NEW r \in Request, NEW b,
         Refunding(p, q, r, b),
         Do(p, Rest(p, q)),
         UNCHANGED <<serviceVars, chain, reconciled, checkpoint>>,
         \A x \in Request, y \in Quota : x # r \/ y # q => left'[x][y] = left[x][y],
         \/ left'[r][q] = left[r][q]
         \/ left'[r][q] = CeilGwei(chain[b].cost),
         Base', \A s \in Slot : Covered(s)'
  PROVE  RInv'
<1> USE DEF serviceVars
<1>1. Stages' /\ ChainOK'
  BY DEF RInv, Stages, Staged, ChainOK
<1>2. Backed'
  <2> SUFFICES ASSUME NEW a \in DOMAIN chain, NEW y \in Quota,
                      y \in reserved[chain[a].by], Carries(chain[a].by, y),
                      quota[y].unit = "wei"
               PROVE  CeilGwei(chain[a].cost) =< left'[chain[a].by][y]
    BY DEF Backed, Carries, CeilGwei
  <2>1. chain[a].by \in Request /\ chain[a].cost \in Nat
    BY Events DEF RInv
  <2>2. CeilGwei(chain[a].cost) =< left[chain[a].by][y]
    BY DEF RInv, Backed
  <2>3. CASE chain[a].by = r /\ y = q
    <3>1. a = b
      BY <2>3 DEF RInv, ChainOK, Refunding
    <3>2. CeilGwei(chain[a].cost) \in Nat
      BY <2>1, CeilCovers
    <3> QED
      BY <2>2, <2>3, <3>1, <3>2
  <2> QED
    BY <2>1, <2>2, <2>3
<1>3. ClaimsOK'
  <2>1. ASSUME NEW x \in Request \ reconciled, NEW y \in Quota
        PROVE  left'[x][y] = Due(x, y)'
    BY DueNext DEF RInv, ClaimsOK, Refunding, Due
  <2> QED
    BY <2>1 DEF RInv, ClaimsOK
<1>4. JobsOK'
  <2>1. PICK j : j = Rest(p, q)
    OBVIOUS
  <2>2. /\ j \in Job /\ j.step = "refund" /\ j.row = r /\ j.block = b
        /\ j.to = job[p].to /\ j.todo = job[p].todo \ {q}
    BY <2>1, RestOfJob
  <2>3. JobsOK /\ JobOK(job[p])
    BY DEF RInv, JobsOK
  <2>4. JobOK(j)'
    <3>1. job[p].todo \in SUBSET Quota
      BY <2>3, JobFields DEF JobsOK, Refunding
    <3>2. \A y \in j.todo : left'[r][y] = Due(r, y)'
      BY <2>2, <2>3, <3>1, DueNext DEF JobOK, Refunding, Due
    <3> QED
      BY <2>2, <2>3, <3>2 DEF JobOK, Refunding
  <2>5. ASSUME NEW x \in Replica \ {p}, job[x].step = "refund"
        PROVE  /\ job[x].row # r
               /\ \A y \in job[x].todo : left'[job[x].row][y] =
                     IF y \in reserved'[job[x].row] /\ Carries(job[x].row, y)
                     THEN AmountFor(y, job[x].row) ELSE 0
    <3>1. job[x].row # r
      BY <2>3, <2>5 DEF JobsOK, Apart, Refunding
    <3>2. /\ job[x].row \in Request /\ job[x].todo \in SUBSET Quota
          /\ \A y \in job[x].todo : left[job[x].row][y] = Due(job[x].row, y)
      BY <2>3, <2>5, JobFields DEF JobsOK, JobOK
    <3> QED
      BY <3>1, <3>2 DEF Due
  <2>6. Grows
    BY Events DEF RInv, Grows
  <2>7. checkpoint' \in Nat \cup {NoBlock} /\ Do(p, j)
    BY <2>1, <2>3 DEF JobsOK
  <2> QED
    BY <2>2, <2>3, <2>4, <2>5, <2>6, <2>7, JobStep
<1> QED
  BY <1>1, <1>2, <1>3, <1>4 DEF RInv

\* The refund is covered: what the counter is lowered by, the request is no
\* longer owed, or it leaks.
LEMMA TrueUpStep ==
  ASSUME RInv, NEW p \in Replica, NEW q \in Quota, TrueUp(p, q)
  PROVE  RInv'
<1>1. PICK r, b, c, s, d :
        /\ r = job[p].row /\ b = job[p].block /\ c = chain[b].cost
        /\ s = SlotOf(q, r, row[r]) /\ d = Delta(r, c)
  OBVIOUS
<1>2. Refunding(p, q, r, b)
  BY <1>1, RefundingJob
<1>3. r \in Request /\ b \in DOMAIN chain /\ c \in Nat
  BY <1>1, <1>2, Events DEF RInv, Refunding
<1>4. /\ UNCHANGED <<now, policy, edits, serviceVars, chain, reconciled, checkpoint>>
      /\ Do(p, Rest(p, q))
  BY DEF TrueUp, Rest
<1>5. PICK charged \in BOOLEAN : charged = (q \in reserved[r] /\ s = SlotOf(q, r, at[r]))
  OBVIOUS
<1>6. \/ UNCHANGED <<used, left, leaked>> /\ (UNCHANGED faults \/ Fails("releaseRefused"))
      \/ /\ Refundable(r, q, c) /\ Release(s, d) /\ UNCHANGED faults
         /\ left' = IF charged THEN [left EXCEPT ![r][q] = CeilGwei(c)] ELSE left
         /\ IF charged THEN UNCHANGED leaked ELSE Leak(s, d)
  BY <1>1, <1>5 DEF TrueUp
<1>7. CASE UNCHANGED <<used, left, leaked>> /\ (UNCHANGED faults \/ Fails("releaseRefused"))
  <2>1. faults' \in Nat
    BY <1>7 DEF Fails, RInv, Base, SponsorTypeOK
  <2>2. Base' /\ \A t \in Slot : Covered(t)'
    BY <1>4, <1>7, <2>1, ServiceStays
  <2> QED
    BY <1>2, <1>3, <1>4, <1>7, <2>2, RefundStep
<1>8. CASE /\ Refundable(r, q, c) /\ Release(s, d) /\ UNCHANGED faults
           /\ left' = IF charged THEN [left EXCEPT ![r][q] = CeilGwei(c)] ELSE left
           /\ IF charged THEN UNCHANGED leaked ELSE Leak(s, d)
  <2>1. quota[q].unit = "wei" /\ Carries(r, q)
    BY <1>8 DEF Refundable
  <2>2. AmountFor(q, r) = CeilGwei(request[r].maxCost) /\ AmountFor(q, r) \in Nat
    BY <1>3, <2>1, AmountNat DEF AmountFor
  <2>3. CeilGwei(c) \in Nat
    BY <1>3, CeilCovers
  <2>4. d = AmountFor(q, r) - CeilGwei(c) /\ d \in Nat /\ CeilGwei(c) =< AmountFor(q, r)
    <3>1. d = AmountFor(q, r) - CeilGwei(c) /\ d > 0
      BY <1>1, <1>8, <2>2 DEF Delta, Refundable
    <3> QED
      BY <2>2, <2>3, <3>1
  <2>5. s \in Slot /\ s.quota = q
    BY <1>1, <1>2, <2>1, RowSlot DEF Refunding
  <2>6. /\ Released(s, d) \in Nat /\ used[s] - d =< Released(s, d) /\ Released(s, d) =< used[s]
        /\ used \in [Slot -> Nat] /\ left \in [Request -> [Quota -> Nat]]
        /\ leaked \in [Slot -> Nat] /\ used' = [used EXCEPT ![s] = Released(s, d)]
    BY <1>8, <2>4, <2>5, ReleasedBounds DEF Release, RInv, Base, SponsorTypeOK
  <2>7. /\ used' \in [Slot -> Nat] /\ left' \in [Request -> [Quota -> Nat]]
        /\ leaked' \in [Slot -> Nat]
    <3>1. leaked' \in [Slot -> Nat]
      BY <1>8, <2>4, <2>5, <2>6 DEF Leak
    <3> QED
      BY <1>8, <2>3, <2>6, <3>1
  <2>8. SponsorTypeOK' /\ now' =< MaxTime /\ Orderly'
    BY <1>4, <1>8, <2>7 DEF serviceVars, RInv, Base, SponsorTypeOK, Orderly
  <2>9. charged => Due(r, q) = AmountFor(q, r)
    BY <1>5, <2>1 DEF Due
  <2>10. /\ \A x \in Request, y \in Quota : x # r \/ y # q => left'[x][y] = left[x][y]
         /\ charged => left'[r][q] = CeilGwei(c)
         /\ ~charged => left' = left
    BY <1>3, <1>8, <2>6
  <2>11. Within'
    <3>1. ASSUME NEW x \in Request, NEW y \in Quota
          PROVE  left'[x][y] =< Due(x, y)'
      <4>1. left[x][y] =< Due(x, y) /\ Due(x, y)' = Due(x, y)
        BY <1>4, DueNext DEF serviceVars, RInv, Base, Within, Due
      <4> QED
        BY <2>4, <2>9, <2>10, <4>1
    <3> QED
      BY <3>1 DEF Within
  <2>12. ASSUME NEW t \in Slot
         PROVE  Covered(t)'
    <3>1. Owed(t) \in Nat /\ CountedLimit(t.quota) \in Nat /\ Covered(t)
      <4>1. t.quota \in Quota
        BY DEF Slot
      <4> QED
        BY <4>1, OwedNat, LimitNat DEF RInv, Base
    <3>2. CASE charged
      <4>1. s = SlotOf(q, r, at[r]) /\ phase[r] \notin Over /\ UNCHANGED <<at, phase>>
        BY <1>3, <1>4, <1>5, <3>2 DEF serviceVars, RInv, Base, Orderly, Over
      <4>2. OnlyHeld(r, s) /\ HeldBy(r, s) = AmountFor(q, r) /\ HeldBy(r, s)' = CeilGwei(c)
        <5>1. left[r][q] = AmountFor(q, r)
          BY <1>2, <2>9, <3>2 DEF Refunding
        <5>2. left' = [left EXCEPT ![r][q] = CeilGwei(c)]
          BY <1>8, <3>2
        <5> QED
          BY <1>3, <2>1, <2>3, <4>1, <5>1, <5>2, OneDebt DEF RInv, Base
      <4>3. CASE t = s
        <5>1. Owed(s)' = Owed(s) - d
          <6>1. Owed(s)' = Owed(s) - HeldBy(r, s) + HeldBy(r, s)'
            BY <1>3, <2>5, <2>8, <4>2, OwedMoves DEF OnlyHeld, RInv, Base
          <6> QED
            BY <2>2, <2>3, <2>4, <3>1, <4>2, <4>3, <6>1
        <5>2. used'[s] = Released(s, d) /\ leaked' = leaked
          BY <1>8, <2>5, <2>6, <3>2
        <5>3. used[s] \in Nat /\ leaked[s] \in Nat
          BY <2>5, <2>6
        <5> QED
          BY <2>4, <2>6, <3>1, <4>3, <5>1, <5>2, <5>3 DEF Covered
      <4>4. CASE t # s
        <5>1. Owed(t)' = Owed(t)
          BY <2>8, <4>2, <4>4, OwedKept DEF OnlyHeld, RInv, Base
        <5>2. used'[t] = used[t] /\ leaked' = leaked
          BY <1>8, <2>6, <3>2, <4>4
        <5> QED
          BY <3>1, <5>1, <5>2 DEF Covered
      <4> QED
        BY <4>3, <4>4
    <3>3. CASE ~charged
      <4>1. \A x \in Request : HeldBy(x, t)' = HeldBy(x, t)
        BY <1>4, <2>10, <3>3 DEF serviceVars, HeldBy
      <4>2. Owed(t)' = Owed(t)
        BY <2>8, <4>1, OwedKept DEF RInv, Base
      <4>3. leaked' = [leaked EXCEPT ![s] = @ + d]
        BY <1>8, <3>3 DEF Leak
      <4>4. CASE t = s
        <5>1. used'[s] = Released(s, d) /\ leaked'[s] = leaked[s] + d
          BY <2>5, <2>6, <4>3
        <5>2. used[s] \in Nat /\ leaked[s] \in Nat
          BY <2>5, <2>6
        <5> QED
          BY <2>4, <2>6, <3>1, <4>2, <4>4, <5>1, <5>2 DEF Covered
      <4>5. CASE t # s
        <5>1. used'[t] = used[t] /\ leaked'[t] = leaked[t]
          BY <2>6, <4>3, <4>5
        <5> QED
          BY <3>1, <4>2, <5>1 DEF Covered
      <4> QED
        BY <4>4, <4>5
    <3> QED
      BY <3>2, <3>3
  <2>13. Base'
    BY <2>8, <2>11 DEF Base
  <2>14. left'[r][q] = left[r][q] \/ left'[r][q] = CeilGwei(chain[b].cost)
    BY <1>1, <2>10
  <2> QED
    BY <1>2, <1>3, <1>4, <2>10, <2>12, <2>13, <2>14, RefundStep
<1> QED
  BY <1>6, <1>7, <1>8

----------------------------------------------------------------------------
(* The theorems *)

LEMMA NextRInv ==
  ASSUME RInv, [Next]_vars
  PROVE  RInv'
<1>1. CASE SponsorNext /\ UNCHANGED reconVars
  BY <1>1, ServiceStep
<1>2. CASE UNCHANGED vars
  <2>1. [SponsorNext]_sponsorVars /\ UNCHANGED reconVars
    BY <1>2 DEF vars
  <2> QED
    BY <2>1, ServiceStep
<1>3. CASE \E r \in Request, c \in Cost : Mine(r, c)
  BY <1>3, MineStep
<1>4. CASE \E p \in Replica : Reconcile(p) \/ Abandon(p)
  <2>1. PICK p \in Replica : Reconcile(p) \/ Abandon(p)
    BY <1>4
  <2>2. CASE Claim(p)
    BY <2>2, ClaimStep
  <2>3. CASE \E q \in Quota : TrueUp(p, q)
    BY <2>3, TrueUpStep
  <2> QED
    BY <2>1, <2>2, <2>3, CourseStep DEF Reconcile
<1> QED
  BY <1>1, <1>2, <1>3, <1>4 DEF Next

\* The inductive invariant.
THEOREM Reconciling ==
  Spec => []RInv
BY InitRInv, NextRInv, PTL DEF Spec

\* A spend cap caps what is spent: what was paid on chain for the operations of
\* one window is at most the limit and what was leaked, whatever requests,
\* refunds by several replicas, crashes and rescans (SpendReconciler.trueUp).
THEOREM CapsAreKept ==
  Spec => []SpendWithinCap
<1>1. RInv => SpendWithinCap
  BY CapHolds
<1> QED
  BY <1>1, Reconciling, PTL

\* The types of the variables.
THEOREM ReconciliationTypeCorrect ==
  Spec => []TypeOK
<1>1. RInv => TypeOK
  <2> SUFFICES ASSUME RInv PROVE TypeOK
    OBVIOUS
  <2>1. reconciled \subseteq {r \in Request : row[r] # NoRow}
    BY DEF RInv, ClaimsOK
  <2> QED
    BY <2>1 DEF TypeOK, RInv, Base, ChainOK, JobsOK
<1> QED
  BY <1>1, Reconciling, PTL

\* A slower replica never rewinds the checkpoint (saveCheckpoint).
THEOREM NeverRewinds ==
  Spec => CheckpointAdvances
<1>1. RInv /\ [Next]_vars => [checkpoint' >= checkpoint]_vars
  <2> SUFFICES ASSUME RInv, Next PROVE checkpoint' >= checkpoint
    BY DEF vars
  <2>1. checkpoint \in Int /\ checkpoint >= checkpoint
    BY DEF RInv, JobsOK, NoBlock
  <2>2. ASSUME NEW p \in Replica, SaveCheckpoint(p)
        PROVE  checkpoint' >= checkpoint
    <3>1. PICK to : to = job[p].to
      OBVIOUS
    <3>2. job[p] \in Job /\ job[p].step = "save"
      BY <2>2 DEF SaveCheckpoint, RInv, JobsOK
    <3>3. to \in Nat
      BY <3>1, <3>2, JobFields
    <3> QED
      BY <2>1, <2>2, <3>1, <3>3 DEF SaveCheckpoint, Saved, AtLeast
  <2>3. ASSUME NEW p \in Replica, Reconcile(p) \/ Abandon(p), ~SaveCheckpoint(p)
        PROVE  checkpoint' = checkpoint
    BY <2>3 DEF Reconcile, Abandon, ReadHead, ReadCheckpoint, Claim, TrueUp, Refunded
  <2>4. UNCHANGED reconVars \/ (\E r \in Request, c \in Cost : Mine(r, c))
          => checkpoint' = checkpoint
    BY DEF reconVars, Mine
  <2> QED
    BY <2>1, <2>2, <2>3, <2>4 DEF Next
<1> QED
  BY <1>1, Reconciling, PTL DEF Spec, CheckpointAdvances

----------------------------------------------------------------------------
(* Nothing behind the checkpoint is missing *)

\* The first scan starts at the first block: until a checkpoint is saved, there
\* are no more blocks than initialLookbackBlocks reaches back.
FirstScanReachesBack == checkpoint = NoBlock => Len(chain) =< InitialLookback + 1

\* The event of block b has claimed a sponsorship.
Told(b) == \E r \in reconciled : request[r].op = chain[b].op

\* What a scan has behind it has claimed.
JobTold(j) ==
    /\ j.step = "claim" => \A b \in DOMAIN chain : b < j.block => Told(b)
    /\ j.step = "refund" => \A b \in DOMAIN chain : b =< j.block => Told(b)
    /\ j.step = "save" =>
         j.to =< Len(chain) /\ \A b \in DOMAIN chain : b =< j.to => Told(b)

ToldInv ==
    /\ \A b \in DOMAIN chain : b =< checkpoint => Told(b)
    /\ checkpoint =< Len(chain)
    /\ \A p \in Replica : JobTold(job[p])

LEMMA Blocks ==
  ASSUME RInv
  PROVE  /\ Len(chain) \in Nat /\ checkpoint \in Int
         /\ \A b \in DOMAIN chain : b \in Nat /\ 1 =< b /\ b =< Len(chain)
<1>1. Len(chain) \in Nat /\ DOMAIN chain = 1..Len(chain)
  BY Events DEF RInv
<1>2. checkpoint \in Int
  BY DEF RInv, JobsOK, NoBlock
<1> QED
  BY <1>1, <1>2

\* The chain grows behind what was scanned, if at all.
GrowsBehind ==
    /\ Grows
    /\ \A b \in DOMAIN chain' : b \in Nat /\ (b \in DOMAIN chain \/ b > Len(chain))

LEMMA ChainStays ==
  ASSUME RInv, UNCHANGED chain, reconciled \subseteq reconciled'
  PROVE  GrowsBehind
BY Blocks DEF GrowsBehind, Grows

LEMMA ToldStays ==
  ASSUME Grows, NEW b \in DOMAIN chain, Told(b)
  PROVE  Told(b)'
BY DEF Told, Grows

\* Blocks of which it is known that they are behind a bound stay so.
LEMMA BehindStays ==
  ASSUME RInv, GrowsBehind, NEW n \in Int, n =< Len(chain),
         \A b \in DOMAIN chain : b =< n => Told(b)
  PROVE  /\ n =< Len(chain)'
         /\ \A b \in DOMAIN chain' : b =< n => Told(b)'
<1>1. Grows /\ Len(chain) \in Nat /\ Len(chain)' \in Nat /\ Len(chain) =< Len(chain)'
  BY DEF GrowsBehind, Grows
<1>2. ASSUME NEW b \in DOMAIN chain', b =< n
      PROVE  b \in DOMAIN chain
  <2>1. b \in Nat /\ (b \in DOMAIN chain \/ b > Len(chain))
    BY DEF GrowsBehind
  <2> QED
    BY <1>1, <1>2, <2>1
<1>3. n =< Len(chain)'
  BY <1>1
<1> QED
  BY <1>1, <1>2, <1>3, ToldStays

\* A scan that takes no step.
LEMMA JobToldKept ==
  ASSUME RInv, GrowsBehind, NEW j, j \in Job, JobOK(j), JobTold(j)
  PROVE  JobTold(j)'
<1>1. Len(chain) \in Nat /\ \A b \in DOMAIN chain : b \in Nat
  BY Blocks
<1>2. CASE j.step = "claim"
  <2>1. PICK n : n = j.block - 1
    OBVIOUS
  <2>2. j.block \in Nat /\ j.block =< Len(chain)
    BY <1>2, JobFields, Blocks DEF JobOK
  <2>3. n \in Int /\ n =< Len(chain) /\ \A b \in Nat : b =< n <=> b < j.block
    BY <1>1, <2>1, <2>2
  <2>4. \A b \in DOMAIN chain : b =< n => Told(b)
    BY <1>1, <1>2, <2>3 DEF JobTold
  <2>5. \A b \in DOMAIN chain' : b =< n => Told(b)'
    BY <2>3, <2>4, BehindStays
  <2>6. \A b \in DOMAIN chain' : b \in Nat
    BY DEF GrowsBehind
  <2> QED
    BY <1>2, <2>3, <2>5, <2>6 DEF JobTold
<1>3. CASE j.step = "refund"
  <2>1. j.block \in Int /\ j.block =< Len(chain)
    BY <1>3, JobFields, Blocks DEF JobOK
  <2>2. \A b \in DOMAIN chain' : b =< j.block => Told(b)'
    BY <1>3, <2>1, BehindStays DEF JobTold
  <2> QED
    BY <1>3, <2>2 DEF JobTold
<1>4. CASE j.step = "save"
  <2>1. j.to \in Int /\ j.to =< Len(chain)
    BY <1>4, JobFields DEF JobTold
  <2>2. j.to =< Len(chain)' /\ \A b \in DOMAIN chain' : b =< j.to => Told(b)'
    BY <1>4, <2>1, BehindStays DEF JobTold
  <2> QED
    BY <1>4, <2>2 DEF JobTold
<1>5. CASE j.step \in {"idle", "head"}
  BY <1>5 DEF JobTold
<1> QED
  BY <1>2, <1>3, <1>4, <1>5, JobFields

\* All scans go on as they are.
LEMMA ToldQuiet ==
  ASSUME RInv, ToldInv, GrowsBehind, UNCHANGED <<checkpoint, job>>
  PROVE  ToldInv'
<1>1. ASSUME NEW x \in Replica
      PROVE  JobTold(job[x])'
  <2>1. PICK j : j = job[x]
    OBVIOUS
  <2>2. j \in Job /\ JobOK(j) /\ JobTold(j)
    BY <2>1 DEF RInv, JobsOK, ToldInv
  <2>3. JobTold(j)'
    BY <2>2, JobToldKept
  <2> QED
    BY <2>1, <2>3 DEF JobTold, Told
<1>2. /\ checkpoint =< Len(chain)'
      /\ \A b \in DOMAIN chain' : b =< checkpoint => Told(b)'
  BY Blocks, BehindStays DEF ToldInv
<1> QED
  BY <1>1, <1>2 DEF ToldInv

\* One scan goes on to the job j, and saves what it has behind it.
LEMMA ToldMoves ==
  ASSUME RInv, ToldInv, UNCHANGED chain, reconciled \subseteq reconciled',
         NEW p \in Replica, NEW j, Do(p, j), JobTold(j)',
         checkpoint' =< Len(chain),
         \A b \in DOMAIN chain : b =< checkpoint' => Told(b)
  PROVE  ToldInv'
<1>1. GrowsBehind /\ Grows
  BY ChainStays DEF GrowsBehind
<1>2. job'[p] = j /\ \A x \in Replica \ {p} : job'[x] = job[x]
  BY DEF Do, RInv, JobsOK
<1>3. JobTold(job[p])'
  BY <1>2 DEF JobTold, Told
<1>4. ASSUME NEW x \in Replica \ {p}
      PROVE  JobTold(job[x])'
  <2>1. PICK k : k = job[x]
    OBVIOUS
  <2>2. k \in Job /\ JobOK(k) /\ JobTold(k) /\ k = job'[x]
    BY <1>2, <2>1 DEF RInv, JobsOK, ToldInv
  <2>3. JobTold(k)'
    BY <1>1, <2>2, JobToldKept
  <2> QED
    BY <2>2, <2>3 DEF JobTold, Told
<1>5. \A b \in DOMAIN chain' : b =< checkpoint' => Told(b)'
  BY <1>1, ToldStays
<1>6. checkpoint' =< Len(chain')
  OBVIOUS
<1> QED
  BY <1>3, <1>4, <1>5, <1>6 DEF ToldInv

\* The scan of block b is done.
LEMMA ToldNext ==
  ASSUME RInv, NEW p \in Replica, job[p].step \in {"claim", "refund"},
         \A b \in DOMAIN chain : b =< job[p].block => Told(b),
         NEW j, j = NextBlock(p)
  PROVE  JobTold(j)
<1>1. PICK k : k = job[p]
  OBVIOUS
<1>2. k \in Job /\ JobOK(k)
  BY <1>1 DEF RInv, JobsOK
<1>3. /\ k.block \in Nat /\ k.to \in Nat /\ k.block =< k.to /\ k.to =< Len(chain)
  BY <1>1, <1>2, JobFields DEF JobOK
<1>4. \A b \in DOMAIN chain : b \in Nat
  BY Blocks
<1>5. CASE k.block < k.to
  <2>1. j.step = "claim" /\ j.block = k.block + 1
    BY <1>1, <1>5 DEF NextBlock
  <2>2. \A b \in Nat : b < k.block + 1 => b =< k.block
    BY <1>3
  <2> QED
    BY <1>1, <1>4, <2>1, <2>2 DEF JobTold
<1>6. CASE ~(k.block < k.to)
  <2>1. j.step = "save" /\ j.to = k.to
    BY <1>1, <1>6 DEF NextBlock
  <2>2. k.to = k.block
    BY <1>3, <1>6
  <2> QED
    BY <1>1, <1>3, <2>1, <2>2 DEF JobTold
<1> QED
  BY <1>5, <1>6

LEMMA ToldPrime ==
  ASSUME RInv, UNCHANGED chain, reconciled \subseteq reconciled', NEW j, JobTold(j)
  PROVE  JobTold(j)'
<1>1. Grows
  BY ChainStays DEF GrowsBehind
<1>2. \A b \in DOMAIN chain : Told(b) => Told(b)'
  BY <1>1, ToldStays
<1> QED
  BY <1>2 DEF JobTold

\* The event of a block that is scanned claims a row, or has no row to claim
\* because there was one, and it is claimed.
LEMMA ToldClaim ==
  ASSUME RInv, ToldInv, NEW p \in Replica, Claim(p)
  PROVE  ToldInv'
<1>1. PICK k : k = job[p]
  OBVIOUS
<1>2. /\ UNCHANGED <<chain, checkpoint>> /\ k.step = "claim"
      /\ k \in Job /\ JobOK(k) /\ JobTold(k)
  BY <1>1 DEF Claim, RInv, JobsOK, ToldInv
<1>3. PICK b : b = k.block
  OBVIOUS
<1>4. b \in DOMAIN chain /\ \A a \in DOMAIN chain : a < b => Told(a)
  BY <1>2, <1>3 DEF JobOK, JobTold
<1>5. \A a \in DOMAIN chain : a =< b => a < b \/ a = b
  BY <1>4, Blocks
<1>6. /\ checkpoint =< Len(chain)
      /\ \A a \in DOMAIN chain : a =< checkpoint => Told(a)
  BY DEF ToldInv
<1>7. CASE Unclaimed(chain[b].op) = {} /\ Do(p, NextBlock(p)) /\ UNCHANGED reconciled
  <2>1. PICK r : r = chain[b].by
    OBVIOUS
  <2>2. r \in Request /\ phase[r] = "issued" /\ request[r].op = chain[b].op
    BY <1>4, <2>1, Events DEF RInv, ChainOK
  <2>3. row[r] # NoRow
    BY <2>2 DEF RInv, Stages, Staged
  <2>4. r \in reconciled
    BY <1>7, <2>2, <2>3 DEF Unclaimed
  <2>5. Told(b)
    BY <2>2, <2>4 DEF Told
  <2>6. PICK j : j = NextBlock(p)
    OBVIOUS
  <2>7. JobTold(j)
    BY <1>1, <1>2, <1>3, <1>4, <1>5, <2>5, <2>6, ToldNext
  <2>8. JobTold(j)'
    BY <1>2, <1>7, <2>7, ToldPrime
  <2> QED
    BY <1>2, <1>6, <1>7, <2>6, <2>8, ToldMoves
<1>8. ASSUME NEW r \in Unclaimed(chain[b].op), reconciled' = Marked(r),
             Do(p, [step |-> "refund", block |-> b, to |-> k.to, row |-> r, todo |-> policy])
      PROVE  ToldInv'
  <2>1. request[r].op = chain[b].op /\ reconciled' = reconciled \cup {r}
    BY <1>8 DEF Unclaimed, Marked
  <2>2. PICK j : j = [step |-> "refund", block |-> b, to |-> k.to, row |-> r, todo |-> policy]
    OBVIOUS
  <2>3. j.step = "refund" /\ j.block = b
    BY <2>2
  <2>4. Grows
    BY <1>2, <2>1, ChainStays DEF GrowsBehind
  <2>5. Told(b)'
    BY <1>2, <2>1 DEF Told
  <2>6. \A a \in DOMAIN chain : a =< b => Told(a)'
    BY <1>4, <1>5, <2>4, <2>5, ToldStays
  <2>7. JobTold(j)'
    BY <1>2, <2>3, <2>6 DEF JobTold
  <2> QED
    BY <1>2, <1>6, <1>8, <2>1, <2>2, <2>7, ToldMoves
<1> QED
  BY <1>1, <1>3, <1>7, <1>8 DEF Claim

\* A scan starts behind the checkpoint, or at the first block.
LEMMA ToldStart ==
  ASSUME RInv, ToldInv, FirstScanReachesBack, NEW p \in Replica, ReadCheckpoint(p)
  PROVE  ToldInv'
<1> USE ReconciliationAssumption
<1>1. /\ UNCHANGED <<chain, reconciled, checkpoint>> /\ job[p].step = "head"
      /\ checkpoint =< Len(chain)
      /\ \A a \in DOMAIN chain : a =< checkpoint => Told(a)
  BY DEF ReadCheckpoint, ToldInv
<1>2. PICK h : h = job[p].head
  OBVIOUS
<1>3. PICK from : from = IF checkpoint = NoBlock THEN AtLeast(1, h - InitialLookback)
                         ELSE checkpoint + 1
  OBVIOUS
<1>4. PICK to : to = AtMost(h, from + MaxBlockRange - 1)
  OBVIOUS
<1>5. PICK j : j = IF CaughtUp(from, h) THEN Idle
                   ELSE [step |-> "claim", block |-> from, to |-> to]
  OBVIOUS
<1>6. Do(p, j)
  BY <1>2, <1>3, <1>4, <1>5 DEF ReadCheckpoint
<1>7. h \in Nat /\ h =< Len(chain)
  BY <1>1, <1>2, JobFields DEF RInv, JobsOK, JobOK
<1>8. \A a \in DOMAIN chain : a < from => Told(a)
  <2>1. CASE checkpoint = NoBlock
    <3>1. h - InitialLookback =< 1
      BY <1>7, <2>1, Blocks DEF FirstScanReachesBack
    <3>2. from = 1
      BY <1>3, <1>7, <2>1, <3>1 DEF AtLeast
    <3> QED
      BY <3>2, Blocks
  <2>2. CASE checkpoint # NoBlock
    <3>1. from = checkpoint + 1
      BY <1>3, <2>2
    <3>2. \A a \in DOMAIN chain : a < from => a =< checkpoint
      BY <3>1, Blocks
    <3> QED
      BY <1>1, <3>2
  <2> QED
    BY <2>1, <2>2
<1>9. JobTold(j)
  <2>1. CASE CaughtUp(from, h)
    BY <1>5, <2>1 DEF Idle, JobTold
  <2>2. CASE ~CaughtUp(from, h)
    <3>1. j.step = "claim" /\ j.block = from
      BY <1>5, <2>2
    <3> QED
      BY <1>8, <3>1 DEF JobTold
  <2> QED
    BY <2>1, <2>2
<1>10. JobTold(j)'
  BY <1>1, <1>9, ToldPrime
<1> QED
  BY <1>1, <1>6, <1>10, ToldMoves

\* The other steps of a scan.
LEMMA ToldCourse ==
  ASSUME RInv, ToldInv, NEW p \in Replica,
         \/ ReadHead(p) \/ Refunded(p) \/ SaveCheckpoint(p) \/ Abandon(p)
         \/ \E q \in Quota : TrueUp(p, q)
  PROVE  ToldInv'
<1>1. PICK k : k = job[p]
  OBVIOUS
<1>2. k \in Job /\ JobOK(k) /\ JobTold(k)
  BY <1>1 DEF RInv, JobsOK, ToldInv
<1>3. UNCHANGED <<chain, reconciled>>
  BY DEF ReadHead, Refunded, SaveCheckpoint, Abandon, TrueUp
<1>4. /\ checkpoint =< Len(chain) /\ checkpoint \in Int /\ Len(chain) \in Nat
      /\ \A b \in DOMAIN chain : b =< checkpoint => Told(b)
  BY Blocks DEF ToldInv
<1>5. ASSUME NEW j, Do(p, j), JobTold(j), UNCHANGED checkpoint
      PROVE  ToldInv'
  <2>1. JobTold(j)'
    BY <1>3, <1>5, ToldPrime
  <2> QED
    BY <1>3, <1>4, <1>5, <2>1, ToldMoves
<1>6. CASE ReadHead(p)
  <2>1. PICK j : j = [step |-> "head", head |-> Len(chain)]
    OBVIOUS
  <2>2. Do(p, j) /\ UNCHANGED checkpoint
    BY <1>6, <2>1 DEF ReadHead
  <2>3. JobTold(j)
    BY <2>1 DEF JobTold
  <2> QED
    BY <1>5, <2>2, <2>3
<1>7. CASE Refunded(p)
  <2>1. PICK j : j = NextBlock(p)
    OBVIOUS
  <2>2. Do(p, j) /\ UNCHANGED checkpoint /\ k.step = "refund"
    BY <1>1, <1>7, <2>1 DEF Refunded
  <2>3. \A b \in DOMAIN chain : b =< k.block => Told(b)
    BY <1>2, <2>2 DEF JobTold
  <2>4. JobTold(j)
    BY <1>1, <2>1, <2>2, <2>3, ToldNext
  <2> QED
    BY <1>5, <2>2, <2>4
<1>8. CASE SaveCheckpoint(p)
  <2>1. PICK to : to = k.to
    OBVIOUS
  <2>2. k.step = "save" /\ checkpoint' = AtLeast(checkpoint, to)
    BY <1>1, <1>8, <2>1 DEF SaveCheckpoint, Saved
  <2>3. to \in Nat /\ to =< Len(chain) /\ \A b \in DOMAIN chain : b =< to => Told(b)
    BY <1>2, <2>1, <2>2, JobFields DEF JobTold
  <2>4. checkpoint' \in {checkpoint, to}
    BY <2>2 DEF AtLeast
  <2>5. checkpoint' =< Len(chain) /\ \A b \in DOMAIN chain : b =< checkpoint' => Told(b)
    BY <1>4, <2>3, <2>4
  <2>6. PICK j : j = Idle
    OBVIOUS
  <2>7. Do(p, j)
    BY <1>8, <2>6 DEF SaveCheckpoint
  <2>8. JobTold(j)'
    BY <2>6 DEF JobTold, Idle
  <2> QED
    BY <1>3, <2>5, <2>7, <2>8, ToldMoves
<1>9. CASE Abandon(p)
  <2>1. PICK j : j = Idle
    OBVIOUS
  <2>2. Do(p, j) /\ UNCHANGED checkpoint
    BY <1>9, <2>1 DEF Abandon
  <2>3. JobTold(j)
    BY <2>1 DEF JobTold, Idle
  <2> QED
    BY <1>5, <2>2, <2>3
<1>10. CASE \E q \in Quota : TrueUp(p, q)
  <2>1. PICK q \in Quota : TrueUp(p, q)
    BY <1>10
  <2>2. PICK j : j = Rest(p, q)
    OBVIOUS
  <2>3. Do(p, j) /\ UNCHANGED checkpoint
    BY <2>1, <2>2 DEF TrueUp, Rest
  <2>4. /\ j.step = "refund" /\ j.block = k.block /\ k.step = "refund"
    BY <1>1, <2>1, <2>2, RefundingJob, RestOfJob DEF Refunding
  <2>5. JobTold(j)
    BY <1>2, <2>4 DEF JobTold
  <2> QED
    BY <1>5, <2>3, <2>5
<1> QED
  BY <1>6, <1>7, <1>8, <1>9, <1>10

LEMMA NextTold ==
  ASSUME RInv, ToldInv, FirstScanReachesBack, [Next]_vars
  PROVE  ToldInv'
<1>1. CASE UNCHANGED reconVars
  <2>1. UNCHANGED <<chain, reconciled, checkpoint, job>>
    BY <1>1 DEF reconVars
  <2>2. GrowsBehind
    BY <2>1, ChainStays
  <2> QED
    BY <2>1, <2>2, ToldQuiet
<1>2. CASE \E r \in Request, c \in Cost : Mine(r, c)
  <2>1. PICK r \in Request, c \in Cost : Mine(r, c)
    BY <1>2
  <2>2. PICK e : e = [op |-> request[r].op, cost |-> c, by |-> r]
    OBVIOUS
  <2>3. chain' = Append(chain, e) /\ UNCHANGED <<reconciled, checkpoint, job>>
    BY <2>1, <2>2 DEF Mine
  <2>4. /\ Len(chain) \in Nat /\ DOMAIN chain = 1..Len(chain)
        /\ chain \in Seq([op : Nat, cost : Nat, by : Request])
    BY Events DEF RInv, ChainOK
  <2>5. e \in [op : Nat, cost : Nat, by : Request]
    BY <2>2, ReconciliationAssumption DEF RequestFields
  <2>6. /\ Len(chain') = Len(chain) + 1 /\ DOMAIN chain' = 1..(Len(chain) + 1)
        /\ \A b \in 1..Len(chain) : chain'[b] = chain[b]
    BY <2>3, <2>4, <2>5
  <2>7. GrowsBehind
    BY <2>3, <2>4, <2>6 DEF GrowsBehind, Grows
  <2> QED
    BY <2>3, <2>7, ToldQuiet
<1>3. CASE \E p \in Replica : Reconcile(p) \/ Abandon(p)
  BY <1>3, ToldClaim, ToldStart, ToldCourse DEF Reconcile
<1> QED
  BY <1>1, <1>2, <1>3 DEF Next, vars

\* Below the checkpoint no settled operation is passed over, however the windows
\* of the replicas overlap and wherever they die (reconcileChain, claim,
\* saveCheckpoint), given that the first scan reaches the first block.
THEOREM NothingSkipped ==
  Spec /\ []FirstScanReachesBack => []CheckpointTellsTheTruth
<1>1. ReconInit => ToldInv
  <2> SUFFICES ASSUME ReconInit PROVE ToldInv
    OBVIOUS
  <2>1. Len(chain) = 0 /\ DOMAIN chain = {} /\ checkpoint = -1
    BY DEF ReconInit, NoBlock
  <2>2. \A p \in Replica : job[p] = Idle
    BY DEF ReconInit
  <2>3. JobTold(Idle)
    BY DEF JobTold, Idle
  <2> QED
    BY <2>1, <2>2, <2>3 DEF ToldInv
<1>2. RInv /\ ToldInv /\ FirstScanReachesBack /\ [Next]_vars => ToldInv'
  BY NextTold
<1>3. ToldInv => NoEventSkipped
  BY DEF ToldInv, NoEventSkipped, Told
<1>4. Spec /\ []FirstScanReachesBack => []ToldInv
  BY <1>1, <1>2, Reconciling, PTL DEF Spec
<1> QED
  BY <1>3, <1>4, ReconciliationTypeCorrect, PTL DEF CheckpointTellsTheTruth
=============================================================================
