--------------------------- MODULE ReplicasProofs ---------------------------
(***************************************************************************)
(* Proofs about what the replicas of the backend do beside serving          *)
(* sponsorships.                                                            *)
(*                                                                         *)
(* Alerting: what a process was granted and has not outlived is what is     *)
(* left of the lease (LeaseOK), so two cannot both be granted it.           *)
(*                                                                         *)
(* PaymentClaims: a block that is deeper than a reorganisation stays        *)
(* (Buried).  Whatever a claim has read is where its transfer was at the    *)
(* time, and if it was deep enough then, where it still is (ClaimOK).       *)
(*                                                                         *)
(* PolicyDistribution: loads are installed in order.  The invariant (IInv)  *)
(* ties what is served, what a load in flight has read and what is          *)
(* committed: newest =< load =< db.  For a replica whose policies only its  *)
(* reloader loads that order is what keeps it from going back, since no two *)
(* of the reloader's loads are in flight at once.                           *)
(***************************************************************************)
EXTENDS PolicyDistribution, Alerting, PaymentClaims, FiniteSetTheorems, TLAPS

----------------------------------------------------------------------------
(* The lease *)

LeaseTypes ==
    /\ lease \in [holder : Process \cup {None, Orphan}, left : 0..Ttl]
    /\ granted \in [Process -> 0..Ttl]
    /\ life \in [Process -> {"up", "releasing", "stopped"}]

\* A grant that lasts is the lease, and the lease lasts as long as the grant.
LeaseOK ==
    \A r \in Process :
        /\ lease.holder = r => lease.left = Ttl - granted[r] /\ lease.left > 0
        /\ granted[r] < Ttl /\ life[r] = "up" => lease.holder = r

LeaseInv == LeaseTypes /\ LeaseOK

LEMMA ElapseLease ==
  ASSUME LeaseInv, Elapse
  PROVE  LeaseInv'
<1> USE AlertingAssumption
<1>1. /\ granted' = [r \in Process |-> IF granted[r] < Ttl THEN granted[r] + 1 ELSE Ttl]
      /\ UNCHANGED life
      /\ lease' = IF lease.left > 1 THEN [lease EXCEPT !.left = @ - 1]
                  ELSE [holder |-> None, left |-> 0]
  BY DEF Elapse
<1>2. LeaseTypes'
  <2>1. granted' \in [Process -> 0..Ttl]
    BY <1>1 DEF LeaseInv, LeaseTypes
  <2>2. lease' \in [holder : Process \cup {None, Orphan}, left : 0..Ttl]
    BY <1>1 DEF LeaseInv, LeaseTypes
  <2> QED
    BY <1>1, <2>1, <2>2 DEF LeaseInv, LeaseTypes
<1>3. ASSUME NEW r \in Process
      PROVE  /\ lease'.holder = r => lease'.left = Ttl - granted'[r] /\ lease'.left > 0
             /\ granted'[r] < Ttl /\ life'[r] = "up" => lease'.holder = r
  <2>1. /\ granted[r] \in 0..Ttl /\ lease.left \in 0..Ttl
        /\ granted'[r] = IF granted[r] < Ttl THEN granted[r] + 1 ELSE Ttl
    BY <1>1 DEF LeaseInv, LeaseTypes
  <2>2. /\ lease.holder = r => lease.left = Ttl - granted[r] /\ lease.left > 0
        /\ granted[r] < Ttl /\ life[r] = "up" => lease.holder = r
    BY DEF LeaseInv, LeaseOK
  <2>3. CASE lease.left > 1
    <3>1. lease'.holder = lease.holder /\ lease'.left = lease.left - 1
      BY <1>1, <2>3 DEF LeaseInv, LeaseTypes
    <3> QED
      BY <1>1, <2>1, <2>2, <2>3, <3>1
  <2>4. CASE ~(lease.left > 1)
    <3>1. lease'.holder = None /\ r # None
      BY <1>1, <2>4
    <3> QED
      BY <1>1, <2>1, <2>2, <2>4, <3>1
  <2> QED
    BY <2>3, <2>4
<1> QED
  BY <1>2, <1>3 DEF LeaseInv, LeaseOK

LEMMA ExecutedLease ==
  ASSUME LeaseInv, NEW r \in Process, NEW reply, Executed(r, reply), UNCHANGED life
  PROVE  LeaseInv'
<1> USE AlertingAssumption
<1>1. CASE ~Grants(r)
  BY <1>1 DEF Executed, LeaseInv, LeaseTypes, LeaseOK
<1>2. CASE Grants(r)
  <2>1. lease' = [holder |-> r, left |-> Ttl] /\ granted' = [granted EXCEPT ![r] = 0]
    BY <1>2 DEF Executed
  <2>2. lease.holder \in {r, None}
    BY <1>2 DEF Grants, RenewScript, SetNX
  <2>3. LeaseTypes'
    BY <2>1 DEF LeaseInv, LeaseTypes
  <2>4. LeaseOK'
    BY <2>1, <2>2 DEF LeaseInv, LeaseTypes, LeaseOK
  <2> QED
    BY <2>3, <2>4 DEF LeaseInv
<1> QED
  BY <1>1, <1>2

LEMMA ReplaceLease ==
  ASSUME LeaseInv, NEW r \in Process, Replace(r)
  PROVE  LeaseInv'
<1> USE AlertingAssumption
<1>1. /\ life' = [life EXCEPT ![r] = "up"] /\ granted' = [granted EXCEPT ![r] = Ttl]
      /\ lease' = IF lease.holder = r THEN [lease EXCEPT !.holder = Orphan] ELSE lease
  BY DEF Replace
<1>2. LeaseTypes'
  BY <1>1 DEF LeaseInv, LeaseTypes
<1>3. lease'.holder = IF lease.holder = r THEN Orphan ELSE lease.holder
  BY <1>1 DEF LeaseInv, LeaseTypes
<1>4. lease'.left = lease.left
  BY <1>1 DEF LeaseInv, LeaseTypes
<1>5. LeaseOK'
  BY <1>1, <1>3, <1>4 DEF LeaseInv, LeaseTypes, LeaseOK
<1> QED
  BY <1>2, <1>5 DEF LeaseInv

LEMMA NextLease ==
  ASSUME LeaseInv, [AlertNext]_alertVars
  PROVE  LeaseInv'
<1> USE AlertingAssumption
<1>1. CASE UNCHANGED <<lease, granted, life>>
  BY <1>1 DEF LeaseInv, LeaseTypes, LeaseOK
<1>2. CASE Tick \/ Stall
  BY <1>2, ElapseLease DEF Tick, Stall
<1>3. ASSUME NEW r \in Process, TryAcquire(r)
      PROVE  LeaseInv'
  BY <1>1, <1>3, ExecutedLease DEF TryAcquire
<1>4. ASSUME NEW r \in Process, Stop(r)
      PROVE  LeaseInv'
  <2>1. /\ life[r] = "up" /\ UNCHANGED <<lease, granted>>
        /\ life' = [life EXCEPT ![r] = IF held[r] THEN "releasing" ELSE "stopped"]
    BY <1>4 DEF Stop
  <2> QED
    BY <2>1 DEF LeaseInv, LeaseTypes, LeaseOK
<1>5. ASSUME NEW r \in Process, ReleaseScript(r)
      PROVE  LeaseInv'
  <2>1. /\ life[r] = "releasing" /\ UNCHANGED granted
        /\ life' = [life EXCEPT ![r] = "stopped"]
        /\ \/ lease' = IF lease.holder = r THEN [holder |-> None, left |-> 0] ELSE lease
           \/ UNCHANGED lease
    BY <1>5 DEF ReleaseScript
  <2>2. LeaseTypes'
    BY <2>1 DEF LeaseInv, LeaseTypes
  <2>3. lease' = lease \/ (lease.holder = r /\ lease'.holder = None)
    BY <2>1
  <2>4. LeaseOK'
    BY <2>1, <2>3 DEF LeaseInv, LeaseTypes, LeaseOK
  <2> QED
    BY <2>2, <2>4 DEF LeaseInv
<1>6. ASSUME NEW r \in Process, Exit(r) \/ Dies(r)
      PROVE  LeaseInv'
  BY <1>6, ReplaceLease DEF Exit, Dies
<1>7. ASSUME NEW r \in Process, LockReply(r) \/ Monitoring(r)
      PROVE  UNCHANGED <<lease, granted, life>>
  BY <1>7 DEF LockReply, Monitoring, CheckOnce, Fire, Resolve, Attempt, lockVars
<1>8. ChainChanges \/ UNCHANGED alertVars => UNCHANGED <<lease, granted, life>>
  BY DEF ChainChanges, lockVars, alertVars
<1> QED
  BY <1>1, <1>2, <1>3, <1>4, <1>5, <1>6, <1>7, <1>8 DEF AlertNext, Leadership

\* Two replicas lead at a time only if one of them has outlived its lease or is
\* shutting down, for any processes, time to live and failures
\* (RedisLeaderLock.tryAcquire and release).
THEOREM OneLeader ==
  AlertSpec => []OneLeaderUnlessStalled
<1>1. AlertInit => LeaseInv
  BY AlertingAssumption DEF AlertInit, LeaseInv, LeaseTypes, LeaseOK
<1>2. LeaseInv => OneLeaderUnlessStalled
  BY AlertingAssumption DEF LeaseInv, LeaseTypes, LeaseOK, OneLeaderUnlessStalled
<1> QED
  BY <1>1, <1>2, NextLease, PTL DEF AlertSpec
----------------------------------------------------------------------------
(* Payment claims *)

Paying == {"asked", "transferRead", "verified"}

ClaimState ==
    [is : {"none"} \cup Paying \cup Answers, of : Tenants \cup {PageTenant},
     transfer : Transfers \cup {NoTransfer}, plan : DOMAIN priceOf \cup {"none"},
     block : Nat, headThen : Nat]

ClaimTypes ==
    /\ head \in Nat
    /\ block \in [Transfers -> Nat]
    /\ \A t \in Transfers : block[t] =< head
    /\ claim \in [AllClaims -> ClaimState]
    /\ \A row \in rows : row.transfer \in Transfers

\* No reorganisation reaches the block of t any more.
Buried(t) == block[t] # 0 /\ block[t] =< head - ReorgDepth

\* Whom and what a claim that was not refused is about.
Justified(k) ==
    /\ k.transfer \in Transfers /\ k.plan \in DOMAIN priceOf
    /\ reference[k.transfer] = k.of
    /\ priceOf[k.plan] =< valueOf[k.transfer]

\* What a claim read was so when it was read, at most MaxLag blocks ago, and
\* still is if it was settled.
ClaimOK(k) ==
    /\ k.is \in Paying => k.transfer \in Transfers /\ k.plan \in DOMAIN priceOf
    /\ k.is = "transferRead" =>
         /\ Justified(k)
         /\ k.block # 0 /\ k.headThen =< head /\ head =< k.headThen + MaxLag
         /\ k.block =< k.headThen - ReorgDepth => block[k.transfer] = k.block
    /\ k.is = "verified" => Justified(k) /\ Buried(k.transfer)
    /\ k.is \in {"credited", "duplicate"} =>
         \E row \in rows : row.transfer = k.transfer /\ row.tenant = k.of

RowOK(row) ==
    /\ Buried(row.transfer)
    /\ row.tenant = reference[row.transfer]
    /\ row.plan # "recorded" => row.periods * priceOf[row.plan] <= valueOf[row.transfer]

PagePhase == {"idle", "mining", "claiming", "waiting", "done", "already", "error"}

PageTyped ==
    /\ page \in [phase : PagePhase, transfer : Transfers \cup {NoTransfer}, attempt : Nat]
    /\ page.phase # "idle" => page.transfer \in Transfers

\* The page waits for the claim of its own transfer.
PageOK ==
    /\ PageTyped
    /\ page.phase = "claiming" =>
         claim[PageClaim].transfer = page.transfer /\ claim[PageClaim].of = PageTenant
    /\ PageSaysCredited

ClaimInv ==
    /\ ClaimTypes
    /\ \A c \in AllClaims : ClaimOK(claim[c])
    /\ \A row \in rows : RowOK(row)
    /\ PageOK

LEMMA FloorTimes ==
  ASSUME NEW a \in Nat, NEW d \in Nat \ {0}
  PROVE  a \div d \in Nat /\ (a \div d) * d =< a
OBVIOUS

LEMMA TimesMonotonic ==
  ASSUME NEW m \in Nat, NEW n \in Nat, NEW d \in Nat, m =< n
  PROVE  m * d =< n * d
<1>1. PICK k \in Nat : n = m + k
  <2>1. n - m \in Nat /\ n = m + (n - m)
    OBVIOUS
  <2> QED
    BY <2>1
<1>2. n * d = m * d + k * d
  BY <1>1
<1>3. k * d \in Nat /\ m * d \in Nat
  BY <1>1
<1> QED
  BY <1>2, <1>3

\* No more periods than were paid for.
LEMMA PeriodsPaid ==
  ASSUME NEW c \in AllClaims, Justified(claim[c])
  PROVE  Periods(c) * priceOf[claim[c].plan] =< valueOf[claim[c].transfer]
<1>1. PICK v, d : v = valueOf[claim[c].transfer] /\ d = priceOf[claim[c].plan]
  OBVIOUS
<1>2. v \in Nat /\ d \in Nat \ {0} /\ MaxPeriods \in Nat
  BY <1>1, PaymentAssumption DEF Justified
<1>3. v \div d \in Nat /\ (v \div d) * d =< v
  BY <1>2, FloorTimes
<1>4. Periods(c) = Smaller(v \div d, MaxPeriods)
  BY <1>1 DEF Periods
<1>5. Periods(c) \in Nat /\ Periods(c) =< v \div d
  BY <1>2, <1>3, <1>4 DEF Smaller
<1>6. Periods(c) * d =< (v \div d) * d
  BY <1>2, <1>3, <1>5, TimesMonotonic
<1>7. Periods(c) * d \in Nat /\ (v \div d) * d \in Nat
  BY <1>2, <1>3, <1>5
<1> QED
  BY <1>1, <1>2, <1>3, <1>6, <1>7

\* The chain goes on by a block, and keeps what is settled.
ChainGoes ==
    /\ Grows /\ head' = head + 1
    /\ block' \in [Transfers -> Nat]
    /\ \A t \in Transfers : block'[t] =< head'
    /\ \A t \in Transfers : Buried(t) => block'[t] = block[t]
    /\ UNCHANGED <<page, claim, rows, operated>>

LEMMA NewBlockGoes ==
  ASSUME ClaimInv, NewBlock
  PROVE  ChainGoes
<1>1. PICK mined \in SUBSET {t \in Transfers : Minable(t)} :
        block' = [t \in Transfers |-> IF t \in mined THEN head + 1 ELSE block[t]]
  BY DEF NewBlock
<1>2. ASSUME NEW t \in Transfers
      PROVE  block'[t] \in Nat /\ block'[t] =< head + 1 /\ (Buried(t) => block'[t] = block[t])
  <2>1. block[t] \in Nat /\ block[t] =< head /\ head \in Nat
    BY DEF ClaimInv, ClaimTypes
  <2> QED
    BY <1>1, <2>1 DEF Minable, Buried
<1>3. block' \in [Transfers -> Nat]
  BY <1>1, <1>2
<1> QED
  BY <1>2, <1>3 DEF NewBlock, ChainGoes

LEMMA ReorgGoes ==
  ASSUME ClaimInv, Reorg
  PROVE  ChainGoes
<1>1. PICK depth \in 1..ReorgDepth :
        /\ depth < head
        /\ LET orphaned == {t \in Transfers : block[t] > head - depth}
           IN  \E placed \in [orphaned -> {0} \cup (head - depth + 1)..(head + 1)] :
                 block' = [t \in Transfers |-> IF t \in orphaned THEN placed[t] ELSE block[t]]
  BY DEF Reorg
<1>2. PICK orphaned : orphaned = {t \in Transfers : block[t] > head - depth}
  OBVIOUS
<1>3. PICK placed \in [orphaned -> {0} \cup (head - depth + 1)..(head + 1)] :
        block' = [t \in Transfers |-> IF t \in orphaned THEN placed[t] ELSE block[t]]
  BY <1>1, <1>2
<1>4. ReorgDepth \in Nat /\ depth \in Nat /\ depth =< ReorgDepth /\ head \in Nat
  BY PaymentAssumption DEF ClaimInv, ClaimTypes
<1>5. ASSUME NEW t \in Transfers
      PROVE  block'[t] \in Nat /\ block'[t] =< head + 1 /\ (Buried(t) => block'[t] = block[t])
  <2>1. block[t] \in Nat /\ block[t] =< head
    BY DEF ClaimInv, ClaimTypes
  <2>2. CASE t \in orphaned
    <3>1. block'[t] \in {0} \cup (head - depth + 1)..(head + 1)
      BY <1>3, <2>2
    <3>2. ~Buried(t)
      BY <1>2, <1>4, <2>1, <2>2 DEF Buried
    <3> QED
      BY <1>1, <1>4, <3>1, <3>2
  <2>3. CASE t \notin orphaned
    BY <1>3, <1>4, <2>1, <2>3
  <2> QED
    BY <2>2, <2>3
<1>6. block' \in [Transfers -> Nat]
  BY <1>3, <1>5
<1> QED
  BY <1>5, <1>6 DEF Reorg, ChainGoes

LEMMA ChainStep ==
  ASSUME ClaimInv, ChainGoes
  PROVE  ClaimInv'
<1> USE PaymentAssumption
<1>1. /\ head \in Nat /\ head' = head + 1 /\ ReorgDepth \in Nat /\ MaxLag \in Nat
      /\ block \in [Transfers -> Nat] /\ UNCHANGED <<page, claim, rows>>
  BY DEF ClaimInv, ClaimTypes, ChainGoes
<1>2. ClaimTypes'
  BY <1>1 DEF ClaimInv, ClaimTypes, ChainGoes
<1>3. ASSUME NEW t \in Transfers, Buried(t)
      PROVE  Buried(t)'
  BY <1>1, <1>3 DEF ChainGoes, Buried
<1>4. ASSUME NEW c \in AllClaims
      PROVE  ClaimOK(claim[c])'
  <2>1. PICK k : k = claim[c]
    OBVIOUS
  <2>2. k \in ClaimState /\ ClaimOK(k) /\ k = claim'[c]
    BY <1>1, <2>1 DEF ClaimInv, ClaimTypes
  <2>3. CASE k.is = "transferRead"
    <3>1. k.block \in Nat /\ k.headThen \in Nat
      BY <2>2 DEF ClaimState
    <3>2. /\ Justified(k) /\ k.block # 0 /\ k.headThen =< head
          /\ k.block =< k.headThen - ReorgDepth => block[k.transfer] = k.block
      BY <2>2, <2>3 DEF ClaimOK
    <3>3. ~(head - k.headThen >= MaxLag)
      BY <2>1, <2>3 DEF ChainGoes, Grows, LagsBehind
    <3>4. k.headThen =< head' /\ head' =< k.headThen + MaxLag
      BY <1>1, <3>1, <3>2, <3>3
    <3>5. k.block =< k.headThen - ReorgDepth => block'[k.transfer] = k.block
      <4>1. k.block =< k.headThen - ReorgDepth => Buried(k.transfer)
        BY <1>1, <3>1, <3>2 DEF Buried
      <4> QED
        BY <3>2, <4>1 DEF ChainGoes, Justified
    <3>6. ClaimOK(k)'
      BY <2>3, <3>2, <3>4, <3>5 DEF ClaimOK, Justified, Paying
    <3> QED
      BY <2>2, <3>6 DEF ClaimOK, Justified, Buried
  <2>4. CASE k.is # "transferRead"
    <3>1. ClaimOK(k)'
      BY <1>1, <1>3, <2>2, <2>4 DEF ClaimOK, Justified
    <3> QED
      BY <2>2, <3>1 DEF ClaimOK, Justified, Buried
  <2> QED
    BY <2>3, <2>4
<1>5. ASSUME NEW row \in rows
      PROVE  RowOK(row)'
  BY <1>1, <1>3 DEF RowOK, ClaimInv, ClaimTypes
<1>6. PageOK'
  BY <1>1 DEF ClaimInv, PageOK, PageTyped, PageSaysCredited
<1> QED
  BY <1>1, <1>2, <1>4, <1>5, <1>6 DEF ClaimInv
\* A claim goes on to the state k, or the page does, while the chain stands.
LEMMA ClaimsMove ==
  ASSUME ClaimInv, UNCHANGED <<head, block>>, rows \subseteq rows',
         \A row \in rows' \ rows : row.transfer \in Transfers /\ RowOK(row),
         NEW c \in AllClaims, NEW k, claim' = [claim EXCEPT ![c] = k],
         k \in ClaimState, ClaimOK(k)', PageOK'
  PROVE  ClaimInv'
<1>1. ClaimTypes' /\ claim'[c] = k /\ \A x \in AllClaims \ {c} : claim'[x] = claim[x]
  BY DEF ClaimInv, ClaimTypes
<1>2. ASSUME NEW x \in AllClaims
      PROVE  ClaimOK(claim[x])'
  <2>1. PICK j : j = claim'[x]
    OBVIOUS
  <2>2. ClaimOK(j)'
    <3>1. CASE x = c
      BY <1>1, <2>1, <3>1
    <3>2. CASE x # c
      <4>1. ClaimOK(j)
        BY <1>1, <2>1, <3>2 DEF ClaimInv
      <4> QED
        BY <4>1 DEF ClaimOK, Buried, Justified
    <3> QED
      BY <3>1, <3>2
  <2> QED
    BY <2>1, <2>2 DEF ClaimOK, Buried, Justified
<1>3. \A row \in rows' : RowOK(row)'
  BY DEF ClaimInv, RowOK, Buried
<1> QED
  BY <1>1, <1>2, <1>3 DEF ClaimInv

\* A claim goes on without an answer for the page, or with one that says no more
\* than that.
LEMMA GoesOn ==
  ASSUME ClaimInv, NEW c \in AllClaims, NEW k, claim' = [claim EXCEPT ![c] = k],
         k \in ClaimState, ClaimOK(k), k.transfer = claim[c].transfer, k.of = claim[c].of,
         UNCHANGED <<head, block, page, rows>>
  PROVE  ClaimInv'
<1>1. ClaimOK(k)'
  BY DEF ClaimOK, Buried, Justified
<1>2. claim'[c] = k /\ \A x \in AllClaims \ {c} : claim'[x] = claim[x]
  BY DEF ClaimInv, ClaimTypes
<1>3. PageOK'
  BY <1>2 DEF ClaimInv, PageOK, PageTyped, PageSaysCredited
<1> QED
  BY <1>1, <1>3, ClaimsMove

LEMMA ReadTransferStep ==
  ASSUME ClaimInv, NEW c \in AllClaims, ReadTransfer(c)
  PROVE  ClaimInv'
<1> USE PaymentAssumption
<1>1. PICK k : k = claim[c]
  OBVIOUS
<1>2. /\ k \in ClaimState /\ ClaimOK(k) /\ k.is = "asked"
      /\ k.transfer \in Transfers /\ k.plan \in DOMAIN priceOf
  BY <1>1 DEF ReadTransfer, ClaimInv, ClaimTypes, ClaimOK, Paying
<1>3. PICK found : found = block[k.transfer]
  OBVIOUS
<1>4. found \in Nat /\ found =< head /\ head \in Nat /\ MaxLag \in Nat
  BY <1>2, <1>3 DEF ClaimInv, ClaimTypes
<1>5. UNCHANGED <<head, block, page, rows>>
  BY DEF ReadTransfer
<1>6. CASE \E to \in {"notYet", "refused"} : Goes(c, to)
  <2>1. PICK to \in {"notYet", "refused"} : Goes(c, to)
    BY <1>6
  <2>2. PICK j : j = [k EXCEPT !.is = to]
    OBVIOUS
  <2>3. claim' = [claim EXCEPT ![c] = j]
    BY <1>1, <2>1, <2>2 DEF Goes
  <2>4. j \in ClaimState /\ j.is = to /\ j.transfer = k.transfer /\ j.of = k.of
    BY <1>2, <2>2 DEF ClaimState, Answers
  <2>5. ClaimOK(j)
    BY <2>4 DEF ClaimOK, Paying
  <2> QED
    BY <1>1, <1>5, <2>3, <2>4, <2>5, GoesOn
<1>7. CASE /\ found # 0 /\ ~Refuses(c)
           /\ claim' = [claim EXCEPT ![c] = [@ EXCEPT !.is = "transferRead", !.block = found,
                                                      !.headThen = head]]
  <2>1. PICK j : j = [k EXCEPT !.is = "transferRead", !.block = found, !.headThen = head]
    OBVIOUS
  <2>2. claim' = [claim EXCEPT ![c] = j]
    BY <1>1, <1>7, <2>1
  <2>3. /\ j \in ClaimState /\ j.is = "transferRead" /\ j.transfer = k.transfer /\ j.of = k.of
        /\ j.plan = k.plan /\ j.block = found /\ j.headThen = head
    BY <1>2, <1>4, <2>1 DEF ClaimState, Paying
  <2>4. Justified(j)
    <3>1. reference[k.transfer] = k.of /\ ~(valueOf[k.transfer] < priceOf[k.plan])
      BY <1>1, <1>7 DEF Refuses
    <3>2. valueOf[k.transfer] \in Nat /\ priceOf[k.plan] \in Nat
      BY <1>2
    <3>3. priceOf[k.plan] =< valueOf[k.transfer]
      BY <3>1, <3>2
    <3> QED
      BY <1>2, <2>3, <3>1, <3>3 DEF Justified
  <2>5. ClaimOK(j)
    BY <1>2, <1>3, <1>4, <1>7, <2>3, <2>4 DEF ClaimOK
  <2> QED
    BY <1>1, <1>5, <2>2, <2>3, <2>5, GoesOn
<1> QED
  BY <1>1, <1>3, <1>6, <1>7 DEF ReadTransfer

\* Deep enough for the head that was read is settled at the block that was read.
LEMMA ReadHeadStep ==
  ASSUME ClaimInv, Confirmations > ReorgDepth + MaxLag, NEW c \in AllClaims, ReadHead(c)
  PROVE  ClaimInv'
<1> USE PaymentAssumption
<1>1. PICK k : k = claim[c]
  OBVIOUS
<1>2. k \in ClaimState /\ ClaimOK(k) /\ k.is = "transferRead"
  BY <1>1 DEF ReadHead, ClaimInv, ClaimTypes
<1>3. PICK to \in {"verified", "notYet"} :
        Goes(c, to) /\ (to = "verified" => head + 1 - k.block >= Confirmations)
  BY <1>1 DEF ReadHead, Depth
<1>4. PICK j : j = [k EXCEPT !.is = to]
  OBVIOUS
<1>5. claim' = [claim EXCEPT ![c] = j]
  BY <1>1, <1>3, <1>4 DEF Goes
<1>6. /\ j \in ClaimState /\ j.is = to /\ j.transfer = k.transfer /\ j.of = k.of
      /\ j.plan = k.plan
  BY <1>2, <1>4 DEF ClaimState, Answers, Paying
<1>7. to = "verified" => Justified(j) /\ Buried(j.transfer)
  <2> SUFFICES ASSUME to = "verified" PROVE Justified(j) /\ Buried(j.transfer)
    OBVIOUS
  <2>1. /\ Justified(k) /\ k.block # 0 /\ k.headThen =< head /\ head =< k.headThen + MaxLag
        /\ k.block =< k.headThen - ReorgDepth => block[k.transfer] = k.block
    BY <1>2 DEF ClaimOK
  <2>2. /\ k.block \in Nat /\ k.headThen \in Nat /\ head \in Nat
        /\ Confirmations \in Nat /\ ReorgDepth \in Nat /\ MaxLag \in Nat
    BY <1>2 DEF ClaimState, ClaimInv, ClaimTypes
  <2>3. k.block =< k.headThen - ReorgDepth /\ k.block =< head - ReorgDepth
    BY <1>3, <2>1, <2>2
  <2> QED
    BY <1>6, <2>1, <2>3 DEF Justified, Buried
<1>8. ClaimOK(j)
  BY <1>6, <1>7 DEF ClaimOK, Justified, Paying
<1>9. UNCHANGED <<head, block, page, rows>>
  BY DEF ReadHead
<1> QED
  BY <1>1, <1>5, <1>6, <1>8, <1>9, GoesOn

LEMMA ClaimFailsStep ==
  ASSUME ClaimInv, NEW c \in AllClaims, ClaimFails(c)
  PROVE  ClaimInv'
<1>1. PICK k : k = claim[c]
  OBVIOUS
<1>2. k \in ClaimState
  BY <1>1 DEF ClaimInv, ClaimTypes
<1>3. PICK j : j = [k EXCEPT !.is = "failed"]
  OBVIOUS
<1>4. claim' = [claim EXCEPT ![c] = j] /\ UNCHANGED <<head, block, page, rows>>
  BY <1>1, <1>3 DEF ClaimFails, Goes
<1>5. j \in ClaimState /\ j.is = "failed" /\ j.transfer = k.transfer /\ j.of = k.of
  BY <1>2, <1>3 DEF ClaimState, Answers
<1>6. ClaimOK(j)
  BY <1>5 DEF ClaimOK, Paying
<1> QED
  BY <1>1, <1>4, <1>5, <1>6, GoesOn

\* Whether the row is new or was there, there is one, and for the same tenant.
LEMMA RecordStep ==
  ASSUME ClaimInv, NEW c \in AllClaims, Record(c)
  PROVE  ClaimInv'
<1>1. PICK k : k = claim[c]
  OBVIOUS
<1>2. k \in ClaimState /\ Justified(k) /\ Buried(k.transfer)
  BY <1>1 DEF Record, ClaimInv, ClaimTypes, ClaimOK
<1>3. PICK row : row = [transfer |-> k.transfer, written |-> "lower", tenant |-> k.of,
                        plan |-> k.plan, periods |-> Periods(c)]
  OBVIOUS
<1>4. /\ row.transfer = k.transfer /\ row.written = "lower" /\ row.tenant = k.of
      /\ row.plan = k.plan /\ row.periods = Periods(c)
  BY <1>3
<1>5. Periods(c) * priceOf[k.plan] =< valueOf[k.transfer]
  BY <1>1, <1>2, PeriodsPaid
<1>6. RowOK(row) /\ row.transfer \in Transfers
  BY <1>2, <1>4, <1>5 DEF RowOK, Justified
<1>7. PICK to \in {"credited", "duplicate"} :
        /\ Goes(c, to) /\ rows \subseteq rows' /\ rows' \subseteq rows \cup {row}
        /\ \E other \in rows' : other.transfer = k.transfer
  <2>1. CASE Free(row) /\ rows' = rows \cup {row} /\ Goes(c, "credited")
    BY <1>4, <2>1
  <2>2. CASE ~Free(row) /\ Goes(c, "duplicate") /\ UNCHANGED rows
    BY <1>4, <2>2 DEF Free
  <2> QED
    BY <1>1, <1>3, <2>1, <2>2 DEF Record
<1>8. \A other \in rows' : RowOK(other) /\ other.transfer \in Transfers
  BY <1>6, <1>7 DEF ClaimInv, ClaimTypes
<1>9. \E other \in rows' : other.transfer = k.transfer /\ other.tenant = k.of
  BY <1>2, <1>7, <1>8 DEF RowOK, Justified
<1>10. PICK j : j = [k EXCEPT !.is = to]
  OBVIOUS
<1>11. claim' = [claim EXCEPT ![c] = j] /\ UNCHANGED <<head, block, page>>
  BY <1>1, <1>7, <1>10 DEF Record, Goes
<1>12. j \in ClaimState /\ j.is = to /\ j.transfer = k.transfer /\ j.of = k.of
  BY <1>2, <1>10 DEF ClaimState, Answers
<1>13. ClaimOK(j)'
  BY <1>9, <1>12 DEF ClaimOK, Paying
<1>14. PageOK'
  <2>1. claim'[c] = j /\ \A x \in AllClaims \ {c} : claim'[x] = claim[x]
    BY <1>11 DEF ClaimInv, ClaimTypes
  <2>2. page'.phase = "claiming" =>
          claim'[PageClaim].transfer = page'.transfer /\ claim'[PageClaim].of = PageTenant
    BY <1>1, <1>11, <1>12, <2>1 DEF ClaimInv, PageOK
  <2> QED
    BY <1>7, <1>11, <2>2 DEF ClaimInv, PageOK, PageTyped, PageSaysCredited
<1> QED
  BY <1>7, <1>8, <1>11, <1>12, <1>13, <1>14, ClaimsMove

LEMMA OperatorStep ==
  ASSUME ClaimInv, Confirmations > ReorgDepth + MaxLag, NEW t \in Transfers, OperatorRecords(t)
  PROVE  ClaimInv'
<1>1. /\ block[t] # 0 /\ head - block[t] >= Confirmations /\ UNCHANGED <<head, block, page, claim>>
  BY DEF OperatorRecords
<1>2. Buried(t)
  BY <1>1, PaymentAssumption DEF ClaimInv, ClaimTypes, Buried
<1>3. PICK row : /\ row.transfer = t /\ row.tenant = reference[t] /\ row.plan = "recorded"
                 /\ rows' = rows \/ rows' = rows \cup {row}
  BY DEF OperatorRecords
<1>4. RowOK(row) /\ row.transfer \in Transfers
  BY <1>2, <1>3 DEF RowOK
<1>5. rows \subseteq rows' /\ \A r \in rows' : RowOK(r) /\ r.transfer \in Transfers
  BY <1>3, <1>4 DEF ClaimInv, ClaimTypes
<1>6. ClaimTypes'
  BY <1>1, <1>5 DEF ClaimInv, ClaimTypes
<1>7. ASSUME NEW c \in AllClaims
      PROVE  ClaimOK(claim[c])'
  <2>1. ClaimOK(claim[c])
    BY DEF ClaimInv
  <2> QED
    BY <1>1, <1>5, <2>1 DEF ClaimOK, Buried, Justified
<1>8. PageOK'
  BY <1>1, <1>5 DEF ClaimInv, PageOK, PageTyped, PageSaysCredited
<1>9. \A r \in rows' : RowOK(r)'
  BY <1>1, <1>5 DEF RowOK, Buried
<1> QED
  BY <1>6, <1>7, <1>8, <1>9 DEF ClaimInv

LEMMA ClaimAsked ==
  ASSUME ClaimInv, NEW c \in AllClaims, NEW tenant \in Tenants \cup {PageTenant},
         NEW t \in Transfers, NEW plan \in DOMAIN priceOf, Claim(c, tenant, t, plan),
         c = PageClaim => page'.phase # "claiming" \/ (page'.transfer = t /\ tenant = PageTenant),
         c # PageClaim => UNCHANGED page,
         PageTyped', PageSaysCredited'
  PROVE  ClaimInv'
<1>1. PICK k : k = [NoClaim EXCEPT !.is = "asked", !.of = tenant, !.transfer = t, !.plan = plan]
  OBVIOUS
<1>2. claim' = [claim EXCEPT ![c] = k] /\ UNCHANGED <<head, block, rows>>
  BY <1>1 DEF Claim
<1>3. k \in ClaimState /\ k.is = "asked" /\ k.of = tenant /\ k.transfer = t /\ k.plan = plan
  BY <1>1 DEF NoClaim, ClaimState, Paying
<1>4. ClaimOK(k)'
  BY <1>3 DEF ClaimOK
<1>5. claim'[c] = k /\ \A x \in AllClaims \ {c} : claim'[x] = claim[x]
  BY <1>2 DEF ClaimInv, ClaimTypes
<1>6. PageOK'
  <2>1. CASE c = PageClaim
    BY <1>3, <1>5, <2>1 DEF PageOK
  <2>2. CASE c # PageClaim
    BY <1>5, <2>2 DEF ClaimInv, PageOK, AllClaims
  <2> QED
    BY <2>1, <2>2
<1> QED
  BY <1>2, <1>3, <1>4, <1>6, ClaimsMove

\* The page shows what its claim was answered.
LEMMA PageAnsweredStep ==
  ASSUME ClaimInv, PageAnswered
  PROVE  ClaimInv'
<1>1. PICK k : k = claim[PageClaim]
  OBVIOUS
<1>2. PageClaim \in AllClaims /\ k \in ClaimState /\ ClaimOK(k)
  BY <1>1 DEF AllClaims, ClaimInv, ClaimTypes
<1>3. /\ page.phase = "claiming" /\ k.transfer = page.transfer /\ k.of = PageTenant
      /\ page.transfer \in Transfers /\ UNCHANGED <<head, block, rows>>
      /\ PageTyped
  BY <1>1 DEF PageAnswered, ClaimInv, PageOK, PageTyped
<1>4. PICK phase \in {"done", "already", "waiting", "error"} :
        /\ page' = [page EXCEPT !.phase = phase]
        /\ phase \in {"done", "already"} => k.is \in {"credited", "duplicate"}
  <2>1. PICK answer \in ({k.is} \cap Answers) \cup {"lost"} :
          page' = [page EXCEPT !.phase =
                     CASE answer = "credited" -> "done"
                       [] answer = "duplicate" -> "already"
                       [] answer = "notYet" /\ Again -> "waiting"
                       [] OTHER -> "error"]
    BY <1>1 DEF PageAnswered
  <2>2. CASE answer = "credited"
    BY <2>1, <2>2
  <2>3. CASE answer = "duplicate"
    BY <2>1, <2>3
  <2>4. CASE answer = "notYet" /\ Again
    BY <2>1, <2>4
  <2>5. CASE answer \notin {"credited", "duplicate"} /\ ~(answer = "notYet" /\ Again)
    BY <2>1, <2>5
  <2> QED
    BY <2>2, <2>3, <2>4, <2>5
<1>5. page'.phase = phase /\ page'.transfer = page.transfer
  BY <1>3, <1>4 DEF PageTyped
<1>6. PageTyped'
  BY <1>3, <1>4 DEF PageTyped, PagePhase
<1>7. PageOK'
  <2>1. phase \in {"done", "already"} =>
          \E row \in rows : row.transfer = page.transfer /\ row.tenant = PageTenant
    BY <1>2, <1>3, <1>4 DEF ClaimOK
  <2> QED
    BY <1>3, <1>4, <1>5, <1>6, <2>1 DEF PageOK, PageSaysCredited
<1>8. PICK j : j = IF k.is \in Answers THEN NoClaim ELSE k
  OBVIOUS
<1>9. claim' = [claim EXCEPT ![PageClaim] = j]
  BY <1>1, <1>8 DEF PageAnswered
<1>10. NoClaim \in ClaimState /\ ClaimOK(NoClaim)
  BY DEF NoClaim, ClaimState, ClaimOK, Paying
<1>11. j \in ClaimState /\ ClaimOK(j)
  BY <1>2, <1>8, <1>10
<1>12. ClaimOK(j)'
  BY <1>3, <1>11 DEF ClaimOK, Buried, Justified
<1> QED
  BY <1>2, <1>3, <1>7, <1>9, <1>11, <1>12, ClaimsMove

\* What the page does without a claim says nothing of a credit.
LEMMA PageMoves ==
  ASSUME ClaimInv, (\E t \in Transfers : Pay(t)) \/ MiningTimesOut
  PROVE  ClaimInv'
<1>1. UNCHANGED <<head, block, claim, rows>>
  BY DEF Pay, MiningTimesOut
<1>2. PageTyped' /\ page'.phase \in {"mining", "error"}
  <2>1. PageTyped
    BY DEF ClaimInv, PageOK
  <2>2. ASSUME NEW t \in Transfers, page' = [phase |-> "mining", transfer |-> t, attempt |-> 0]
        PROVE  PageTyped' /\ page'.phase = "mining"
    BY <2>2 DEF PageTyped, PagePhase
  <2>3. CASE \E t \in Transfers : Pay(t)
    BY <2>2, <2>3 DEF Pay, NewPage
  <2>4. CASE MiningTimesOut
    BY <2>1, <2>4 DEF MiningTimesOut, PageTyped, PagePhase
  <2> QED
    BY <2>3, <2>4
<1>3. PageOK'
  BY <1>2 DEF PageOK, PageSaysCredited
<1>4. ASSUME NEW c \in AllClaims
      PROVE  ClaimOK(claim[c])'
  BY <1>1 DEF ClaimInv, ClaimOK, Buried, Justified
<1> QED
  BY <1>1, <1>3, <1>4 DEF ClaimInv, ClaimTypes, RowOK, Buried

LEMMA PageClaimsStep ==
  ASSUME ClaimInv, PageClaims
  PROVE  ClaimInv'
<1>1. /\ PageTyped /\ page.phase \in {"mining", "waiting"} /\ page.transfer \in Transfers
      /\ page' = [page EXCEPT !.phase = "claiming", !.attempt = Smaller(@ + 1, MaxAttempts)]
  BY DEF PageClaims, ClaimInv, PageOK, PageTyped
<1>2. PageTyped' /\ page'.phase = "claiming" /\ page'.transfer = page.transfer
  <2>1. Smaller(page.attempt + 1, MaxAttempts) \in Nat
    BY <1>1, PaymentAssumption DEF PageTyped, Smaller
  <2> QED
    BY <1>1, <2>1 DEF PageTyped, PagePhase
<1>3. PICK plan \in DOMAIN priceOf : Claim(PageClaim, PageTenant, page.transfer, plan)
  BY DEF PageClaims
<1>4. PageSaysCredited'
  BY <1>2 DEF PageSaysCredited
<1> QED
  BY <1>1, <1>2, <1>3, <1>4, ClaimAsked DEF AllClaims

LEMMA NextClaims ==
  ASSUME ClaimInv, Confirmations > ReorgDepth + MaxLag, [ClaimNext]_claimVars
  PROVE  ClaimInv'
<1>1. CASE UNCHANGED claimVars
  <2>1. UNCHANGED <<head, block, page, claim, rows>>
    BY <1>1 DEF claimVars
  <2>2. ASSUME NEW c \in AllClaims
        PROVE  ClaimOK(claim[c])'
    BY <2>1 DEF ClaimInv, ClaimOK, Buried, Justified
  <2> QED
    BY <2>1, <2>2 DEF ClaimInv, ClaimTypes, RowOK, PageOK, PageTyped, PageSaysCredited, Buried
<1>2. CASE NewBlock \/ Reorg
  BY <1>2, NewBlockGoes, ReorgGoes, ChainStep
<1>3. CASE \E c \in AllClaims : ReadTransfer(c) \/ ReadHead(c) \/ Record(c) \/ ClaimFails(c)
  BY <1>3, ReadTransferStep, ReadHeadStep, RecordStep, ClaimFailsStep
<1>4. ASSUME NEW c \in Claims, NEW tenant \in Tenants, NEW t \in Transfers,
             NEW plan \in DOMAIN priceOf, ClaimByHand(c, tenant, t, plan)
      PROVE  ClaimInv'
  <2>1. c \in AllClaims /\ c # PageClaim /\ UNCHANGED <<page, rows>> /\ Claim(c, tenant, t, plan)
    BY <1>4, PaymentAssumption DEF ClaimByHand, Claim, AllClaims, PageClaim
  <2>2. PageSaysCredited'
    BY <2>1 DEF ClaimInv, PageOK, PageTyped, PageSaysCredited
  <2>3. PageTyped'
    BY <2>1 DEF ClaimInv, PageOK, PageTyped
  <2> QED
    BY <2>1, <2>2, <2>3, ClaimAsked
<1>5. CASE \E t \in Transfers : OperatorRecords(t)
  BY <1>5, OperatorStep
<1>6. CASE (\E t \in Transfers : Pay(t)) \/ MiningTimesOut
  BY <1>6, PageMoves
<1>7. CASE PageClaims
  BY <1>7, PageClaimsStep
<1>8. CASE PageAnswered
  BY <1>8, PageAnsweredStep
<1> QED
  BY <1>1, <1>2, <1>3, <1>4, <1>5, <1>6, <1>7, <1>8 DEF ClaimNext

LEMMA InitClaims ==
  ASSUME ClaimInit
  PROVE  ClaimInv
<1>1. NoClaim \in ClaimState /\ ClaimOK(NoClaim)
  BY DEF NoClaim, ClaimState, ClaimOK, Paying
<1>2. ClaimTypes /\ rows = {}
  BY <1>1 DEF ClaimInit, ClaimTypes
<1>3. PageOK
  BY DEF ClaimInit, PageOK, PageTyped, PagePhase, NewPage, PageSaysCredited
<1>4. ASSUME NEW c \in AllClaims
      PROVE  ClaimOK(claim[c])
  BY <1>1 DEF ClaimInit
<1> QED
  BY <1>2, <1>3, <1>4 DEF ClaimInv

\* Time is granted only for a transfer that stays on chain, to the tenant it names
\* and for no more than it paid, and the page says so, for any transfers, claims
\* and reorganisations, when the confirmations asked for outlast a reorganisation
\* and the blocks between the two reads (PaymentVerifier.verify).
THEOREM CreditedAsPaid ==
  ASSUME Confirmations > ReorgDepth + MaxLag
  PROVE  ClaimSpec => []CreditsAreRight
<1>1. ClaimInv /\ [ClaimNext]_claimVars => ClaimInv'
  BY NextClaims
<1>2. ClaimInv => CreditsAreRight
  BY DEF ClaimInv, RowOK, Buried, PageOK, CreditsAreRight, CreditedIsPaid
<1> QED
  BY <1>1, <1>2, InitClaims, PTL DEF ClaimSpec

----------------------------------------------------------------------------
(* What is installed *)

USE DistributionAssumption

\* Whether the reloader is alone in loading the policies of p.
Alone(p) == \A c \in Call : call[c].replica # p

\* At most one load of each reloader is in flight: while `reloading` is set.
OneLoad ==
    \A p \in Replica :
        /\ ~reloading[p] => \A t \in Trigger : load[<<p, t>>] = NoLoad
        /\ reloading[p] =>
             /\ \E t \in Trigger : load[<<p, t>>] # NoLoad
             /\ \A t, u \in Trigger :
                  load[<<p, t>>] # NoLoad /\ load[<<p, u>>] # NoLoad => t = u

\* The types, with the count of loads in flight spelt out.
Types ==
    /\ db \in Snapshot
    /\ up \subseteq Replica
    /\ loaded \in [Replica -> Snapshot] /\ newest \in [Replica -> Snapshot]
    /\ load \in [Loader -> Load]
    /\ reloading \in [Replica -> BOOLEAN] /\ again \in [Replica -> BOOLEAN]
    /\ coalescing \subseteq up
    /\ inbox \in [Replica -> Nat]
    /\ step \in [Call -> {"new", "reloading", "reloaded", "answered", "failed"}]
    /\ wrote \in [Call -> Nat]
    /\ failed \subseteq Fault

\* Announcements come from calls that were answered, and reach who is up.
Answered == {c \in Call : step[c] = "answered"}
Announced ==
    \A p \in Replica :
        /\ inbox[p] =< Cardinality(Answered)
        /\ inbox[p] > 0 => p \in up

\* No load, and nothing that was served, is ahead of the database.
BehindDb ==
    /\ \A l \in Loader :
         /\ load[l].step \in {"plans", "assign"} => load[l].policies =< db.policies
         /\ load[l].step = "assign" => load[l].plans =< db.plans
    /\ \A p \in Replica : newest[p].policies =< db.policies /\ newest[p].plans =< db.plans

\* A call's load, while it awaits it, has read what the call wrote, and serves
\* it from then on.
OwnWrites ==
    \A c \in Call :
        /\ wrote[c] =< db.policies
        /\ load[c] # NoLoad => step[c] = "reloading"
        /\ load[c].step \in {"plans", "assign"} => wrote[c] =< load[c].policies
        /\ step[c] \in {"reloaded", "answered"} => wrote[c] =< newest[call[c].replica].policies

\* What the reloader of a replica has read is no older than what it serves.
InOrder ==
    \A p \in Replica : Alone(p) =>
        /\ loaded[p] = newest[p]
        /\ \A t \in Trigger :
             LET l == load[<<p, t>>]
             IN  /\ l.step \in {"plans", "assign"} => newest[p].policies =< l.policies
                 /\ l.step = "assign" => newest[p].plans =< l.plans

IInv == Types /\ OneLoad /\ Announced /\ BehindDb /\ OwnWrites /\ InOrder

----------------------------------------------------------------------------
(* Loads and loaders *)

\* What a load in flight holds at each of its steps.
LEMMA LoadSteps ==
  ASSUME NEW x \in Load
  PROVE  /\ x = NoLoad \/ x.step \in {"policies", "plans", "assign"}
         /\ x.step = "policies" => x = Querying
         /\ x.step \in {"plans", "assign"} => x.policies \in Nat
         /\ x.step = "assign" => x.plans \in Nat
BY DEF Load, NoLoad, Querying

LEMMA LoadKinds ==
  /\ NoLoad \in Load /\ Querying \in Load /\ NoLoad # Querying
  /\ NoLoad.step = "none" /\ Querying.step = "policies"
  /\ \A n \in Nat : /\ [step |-> "plans", policies |-> n] \in Load
                    /\ [step |-> "plans", policies |-> n] # NoLoad
  /\ \A n, m \in Nat : /\ [step |-> "assign", policies |-> n, plans |-> m] \in Load
                       /\ [step |-> "assign", policies |-> n, plans |-> m] # NoLoad
BY DEF Load, NoLoad, Querying

\* Loads of reloaders and loads of calls are different ones.
LEMMA Loaders ==
  /\ \A p \in Replica, t \in Trigger :
       /\ <<p, t>> \in Loader /\ <<p, t>> \notin Call /\ ReplicaOf(<<p, t>>) = p
  /\ \A c \in Call :
       /\ c \in Loader /\ ReplicaOf(c) = call[c].replica /\ call[c].replica \in Replica
  /\ \A l \in Loader : ReplicaOf(l) \in Replica
  /\ \A l \in Loader : l \in Call \/ \E p \in Replica, t \in Trigger : l = <<p, t>>
BY DEF Loader, ReplicaOf, CallFields

\* Steps that begin and end no load keep the reloaders at one load each.
LEMMA OneLoadKept ==
  ASSUME OneLoad, reloading' = reloading,
         \A p \in Replica, t \in Trigger : load'[<<p, t>>] = NoLoad <=> load[<<p, t>>] = NoLoad
  PROVE  OneLoad'
<1> SUFFICES ASSUME NEW p \in Replica
             PROVE  /\ ~reloading[p] => \A t \in Trigger : load'[<<p, t>>] = NoLoad
                    /\ reloading[p] =>
                         /\ \E t \in Trigger : load'[<<p, t>>] # NoLoad
                         /\ \A t, u \in Trigger :
                              load'[<<p, t>>] # NoLoad /\ load'[<<p, u>>] # NoLoad => t = u
  BY Zenon DEF OneLoad, NoLoad
<1> QED
  BY Zenon DEF OneLoad

----------------------------------------------------------------------------
(* The initial state *)

LEMMA InitIInv ==
  Init => IInv
<1> SUFFICES ASSUME Init PROVE IInv
  OBVIOUS
<1> USE DEF Init, First, Snapshot
<1>1. Types
  BY LoadKinds DEF Types
<1>2. OneLoad
  BY Loaders DEF OneLoad
<1>3. Announced
  <2>1. IsFiniteSet(Answered)
    BY FS_Subset DEF Answered
  <2> QED
    BY <2>1, FS_CardinalityType DEF Announced
<1>4. BehindDb
  BY LoadKinds DEF BehindDb
<1>5. OwnWrites
  BY Loaders, LoadKinds DEF OwnWrites
<1>6. InOrder
  BY Loaders, LoadKinds DEF InOrder
<1> QED
  BY <1>1, <1>2, <1>3, <1>4, <1>5, <1>6 DEF IInv

----------------------------------------------------------------------------
(* The two queries *)

\* Both queries move one load on, to what the database holds now.
LEMMA QueryStep ==
  ASSUME IInv, NEW l \in Loader, QueryPolicies(l) \/ QueryPlans(l)
  PROVE  IInv'
<1> USE DEF IInv
<1>1. /\ UNCHANGED <<db, up, loaded, reloading, again, coalescing, inbox, step, wrote, newest, failed>>
      /\ db.policies \in Nat /\ db.plans \in Nat
  BY DEF QueryPolicies, QueryPlans, reloaderVars, callVars, Types, Snapshot
<1>2. PICK x \in Load :
        /\ load' = [load EXCEPT ![l] = x] /\ x # NoLoad /\ load[l] # NoLoad
        /\ \/ x.step = "plans" /\ x.policies = db.policies
           \/ /\ x.step = "assign" /\ x.plans = db.plans
              /\ load[l].step = "plans" /\ x.policies = load[l].policies
  <2>1. CASE QueryPolicies(l)
    BY <1>1, <2>1, LoadKinds DEF QueryPolicies
  <2>2. CASE QueryPlans(l)
    <3>1. load[l] \in Load /\ load[l].policies \in Nat /\ load[l] # NoLoad
      BY <2>2, LoadSteps, LoadKinds DEF QueryPlans, Types
    <3> QED
      BY <1>1, <2>2, <3>1, LoadKinds DEF QueryPlans
  <2> QED
    BY <2>1, <2>2
<1>3. Types'
  BY <1>1, <1>2 DEF Types
<1>4. OneLoad'
  <2>1. \A k \in Loader : load'[k] = NoLoad <=> load[k] = NoLoad
    BY <1>2 DEF Types
  <2> QED
    BY <1>1, <2>1, Loaders, OneLoadKept
<1>5. Announced'
  BY <1>1 DEF Announced, Answered
<1>6. BehindDb'
  BY <1>1, <1>2 DEF BehindDb, Types
<1>7. OwnWrites'
  BY <1>1, <1>2, Loaders DEF OwnWrites, Types
<1>8. InOrder'
  BY <1>1, <1>2, Loaders DEF InOrder, BehindDb, Alone, Types
<1> QED
  BY <1>3, <1>4, <1>5, <1>6, <1>7, <1>8

----------------------------------------------------------------------------
(* Loads begin *)

\* reloadNow begins a load only where none of the reloader is in flight.
LEMMA ReloadNowStep ==
  ASSUME IInv, NEW p \in Replica, NEW trigger \in Trigger, ReloadNow(p, trigger),
         UNCHANGED <<db, up, loaded, inbox, step, wrote, newest, failed>>,
         coalescing' \subseteq up
  PROVE  IInv'
<1> USE DEF IInv
<1> DEFINE l == <<p, trigger>>
<1>1. CASE reloading[p]
  <2>1. /\ again' = [again EXCEPT ![p] = TRUE] /\ UNCHANGED <<reloading, load>>
    BY <1>1 DEF ReloadNow
  <2>2. Types'
    BY <2>1 DEF Types
  <2>3. OneLoad'
    BY <2>1, OneLoadKept
  <2> QED
    BY <2>1, <2>2, <2>3 DEF Announced, Answered, BehindDb, OwnWrites, InOrder, Alone
<1>2. CASE ~reloading[p]
  <2>1. /\ reloading' = [reloading EXCEPT ![p] = TRUE]
        /\ again' = [again EXCEPT ![p] = FALSE]
        /\ load' = [load EXCEPT ![l] = Querying]
    BY <1>2 DEF ReloadNow, ReloadAtOnce
  <2>2. \A t \in Trigger : load[<<p, t>>] = NoLoad
    BY <1>2 DEF OneLoad
  <2>3. l \in Loader /\ l \notin Call
    BY Loaders
  <2>4. Types'
    BY <2>1, <2>3, LoadKinds DEF Types
  <2>5. OneLoad'
    <3> SUFFICES ASSUME NEW q \in Replica
                 PROVE  /\ ~reloading'[q] => \A t \in Trigger : load'[<<q, t>>] = NoLoad
                        /\ reloading'[q] =>
                             /\ \E t \in Trigger : load'[<<q, t>>] # NoLoad
                             /\ \A t, u \in Trigger :
                                  load'[<<q, t>>] # NoLoad /\ load'[<<q, u>>] # NoLoad => t = u
      BY Zenon DEF OneLoad, NoLoad
    <3>1. CASE q = p
      <4>1. \A t \in Trigger : load'[<<p, t>>] = IF t = trigger THEN Querying ELSE NoLoad
        BY <2>1, <2>2, <2>3, Loaders DEF Types
      <4>2. reloading'[p]
        BY <2>1, Zenon DEF Types
      <4> QED
        BY <3>1, <4>1, <4>2, LoadKinds, Zenon
    <3>2. CASE q # p
      <4>1. \A t \in Trigger : load'[<<q, t>>] = load[<<q, t>>]
        BY <2>1, <3>2, Loaders DEF Types
      <4>2. reloading'[q] = reloading[q]
        BY <2>1, <3>2, Zenon DEF Types
      <4> QED
        BY <4>1, <4>2, Zenon DEF OneLoad
    <3> QED
      BY <3>1, <3>2
  <2>6. Announced'
    BY DEF Announced, Answered
  <2>7. BehindDb'
    BY <2>1, LoadKinds DEF BehindDb, Types
  <2>8. OwnWrites'
    BY <2>1, <2>3, Loaders DEF OwnWrites, Types
  <2>9. InOrder'
    BY <2>1, LoadKinds, Loaders DEF InOrder, Alone, Types
  <2> QED
    BY <2>4, <2>5, <2>6, <2>7, <2>8, <2>9
<1> QED
  BY <1>1, <1>2

\* A call begins its load after its write is committed.
LEMMA AskStep ==
  ASSUME IInv, NEW c \in Call, Ask(c)
  PROVE  IInv'
<1> USE DEF IInv
<1>1. /\ step[c] = "new" /\ step' = [step EXCEPT ![c] = "reloading"]
      /\ load' = [load EXCEPT ![c] = Querying]
      /\ UNCHANGED <<up, loaded, reloading, again, coalescing, inbox, newest, failed>>
  BY DEF Ask, Reload, To
<1>2. /\ db.policies \in Nat /\ db.plans \in Nat
      /\ \/ db' = [db EXCEPT !.policies = db.policies + 1]
            /\ wrote' = [wrote EXCEPT ![c] = db.policies + 1]
         \/ UNCHANGED <<db, wrote>>
  BY DEF Ask, Types, Snapshot
<1>3. /\ db' \in Snapshot /\ db.policies =< db'.policies /\ db.plans = db'.plans
      /\ wrote'[c] =< db'.policies /\ wrote' \in [Call -> Nat]
      /\ \A d \in Call \ {c} : wrote'[d] = wrote[d]
  BY <1>2 DEF Types, Snapshot, OwnWrites
<1>4. c \in Loader /\ \A p \in Replica, t \in Trigger : <<p, t>> \in Loader /\ <<p, t>> # c
  BY Loaders
<1>5. Types'
  BY <1>1, <1>3, <1>4, LoadKinds DEF Types
<1>6. OneLoad'
  <2>1. \A p \in Replica, t \in Trigger : load'[<<p, t>>] = load[<<p, t>>]
    BY <1>1, <1>4 DEF Types
  <2> QED
    BY <1>1, <2>1, OneLoadKept
<1>7. Announced'
  <2>1. Answered' = Answered
    BY <1>1 DEF Answered, Types
  <2> QED
    BY <1>1, <2>1 DEF Announced
<1>8. BehindDb'
  <2>1. \A l \in Loader : load[l].step \in {"plans", "assign"} => load[l].policies \in Nat
    BY LoadSteps DEF Types
  <2>2. \A p \in Replica : newest[p].policies \in Nat
    BY DEF Types, Snapshot
  <2>3. \A l \in Loader : load'[l] = IF l = c THEN Querying ELSE load[l]
    BY <1>1, <1>4 DEF Types
  <2> QED
    BY <1>1, <1>2, <1>3, <2>1, <2>2, <2>3, LoadKinds DEF BehindDb, Snapshot
<1>9. OwnWrites'
  <2> SUFFICES ASSUME NEW d \in Call
               PROVE  /\ wrote'[d] =< db'.policies
                      /\ load'[d] # NoLoad => step'[d] = "reloading"
                      /\ load'[d].step \in {"plans", "assign"} => wrote'[d] =< load'[d].policies
                      /\ step'[d] \in {"reloaded", "answered"}
                           => wrote'[d] =< newest'[call[d].replica].policies
    BY DEF OwnWrites
  <2>1. CASE d = c
    BY <1>1, <1>3, <1>4, <2>1, LoadKinds DEF Types
  <2>2. CASE d # c
    BY <1>1, <1>2, <1>3, <1>4, <2>2, Loaders DEF Types, OwnWrites, Snapshot
  <2> QED
    BY <2>1, <2>2
<1>10. InOrder'
  <2>1. \A p \in Replica, t \in Trigger : load'[<<p, t>>] = load[<<p, t>>]
    BY <1>1, <1>4 DEF Types
  <2> QED
    BY <1>1, <2>1 DEF InOrder, Alone
<1> QED
  BY <1>5, <1>6, <1>7, <1>8, <1>9, <1>10

----------------------------------------------------------------------------
(* Loads end *)

\* A load is installed: what its replica has served grows, up to the database.
LEMMA Installed ==
  ASSUME Types, BehindDb, NEW l \in Loader, Assigned(l)
  PROVE  /\ load[l].step = "assign" /\ load[l] # NoLoad
         /\ loaded' \in [Replica -> Snapshot] /\ newest' \in [Replica -> Snapshot]
         /\ \A q \in Replica :
              /\ newest[q].policies =< newest'[q].policies
              /\ newest'[q].policies =< db.policies /\ newest'[q].plans =< db.plans
         /\ \A q \in Replica \ {ReplicaOf(l)} : loaded'[q] = loaded[q] /\ newest'[q] = newest[q]
         /\ load[l].policies =< newest'[ReplicaOf(l)].policies
         /\ newest[ReplicaOf(l)].policies =< load[l].policies /\ newest[ReplicaOf(l)].plans =< load[l].plans
              => loaded'[ReplicaOf(l)] = newest'[ReplicaOf(l)]
<1> DEFINE p == ReplicaOf(l)
           next == [policies |-> load[l].policies, plans |-> load[l].plans]
<1>1. /\ load[l].step = "assign"
      /\ loaded' = [loaded EXCEPT ![p] = next]
      /\ newest' = [newest EXCEPT ![p] = Newer(newest[p], next)]
  BY DEF Assigned
<1>2. load[l].policies \in Nat /\ load[l].plans \in Nat /\ load[l] # NoLoad /\ p \in Replica
  BY <1>1, LoadSteps, LoadKinds, Loaders DEF Types
<1>3. /\ load[l].policies =< db.policies /\ load[l].plans =< db.plans
      /\ db.policies \in Nat /\ db.plans \in Nat
  BY <1>1 DEF BehindDb, Types, Snapshot
<1>4. /\ newest[p] \in Snapshot /\ newest[p].policies =< db.policies /\ newest[p].plans =< db.plans
  BY <1>2 DEF BehindDb, Types
<1>5. next \in Snapshot /\ Newer(newest[p], next) \in Snapshot
  BY <1>2, <1>4 DEF Newer, Later, Snapshot
<1>6. /\ newest[p].policies =< Newer(newest[p], next).policies
      /\ Newer(newest[p], next).policies =< db.policies
      /\ Newer(newest[p], next).plans =< db.plans
      /\ load[l].policies =< Newer(newest[p], next).policies
  BY <1>2, <1>3, <1>4 DEF Newer, Later, Snapshot
<1>7. newest[p].policies =< load[l].policies /\ newest[p].plans =< load[l].plans
        => Newer(newest[p], next) = next
  BY <1>2, <1>4 DEF Newer, Later, Snapshot
<1>8. \A q \in Replica : newest[q].policies \in Nat
  BY DEF Types, Snapshot
<1>9. newest'[p] = Newer(newest[p], next) /\ loaded'[p] = next
  BY <1>1, <1>2 DEF Types
<1>10. \A q \in Replica \ {p} : loaded'[q] = loaded[q] /\ newest'[q] = newest[q]
  BY <1>1 DEF Types
<1>11. loaded' \in [Replica -> Snapshot] /\ newest' \in [Replica -> Snapshot]
  BY <1>1, <1>2, <1>5 DEF Types
<1>12. \A q \in Replica :
         /\ newest[q].policies =< newest'[q].policies
         /\ newest'[q].policies =< db.policies /\ newest'[q].plans =< db.plans
  <2> SUFFICES ASSUME NEW q \in Replica
               PROVE  /\ newest[q].policies =< newest'[q].policies
                      /\ newest'[q].policies =< db.policies /\ newest'[q].plans =< db.plans
    OBVIOUS
  <2>1. CASE q = p
    BY <2>1, <1>6, <1>9
  <2>2. CASE q # p
    BY <2>2, <1>8, <1>10 DEF BehindDb
  <2> QED
    BY <2>1, <2>2
<1> QED
  BY <1>1, <1>2, <1>6, <1>7, <1>9, <1>10, <1>11, <1>12

\* The reloader's load replaces what it had loaded before, and may repeat.
LEMMA ReloadedStep ==
  ASSUME IInv, NEW p \in Replica, NEW trigger \in Trigger, Reloaded(p, trigger)
  PROVE  IInv'
<1> USE DEF IInv
<1> DEFINE l == <<p, trigger>>
<1>1. /\ Assigned(l) /\ up' = up \cup {p}
      /\ load' = [load EXCEPT ![l] = IF again[p] THEN Querying ELSE NoLoad]
      /\ again' = [again EXCEPT ![p] = FALSE]
      /\ reloading' = [reloading EXCEPT ![p] = again[p]]
      /\ UNCHANGED <<db, coalescing, inbox, step, wrote, failed>>
  BY DEF Reloaded, callVars
<1>2. l \in Loader /\ l \notin Call /\ ReplicaOf(l) = p
  BY Loaders
<1>3. PICK x \in {Querying, NoLoad} : load' = [load EXCEPT ![l] = x] /\ (x = NoLoad <=> ~again[p])
  BY <1>1, LoadKinds
<1>4. x \in Load /\ x.step \notin {"plans", "assign"}
  BY LoadKinds
<1>5. /\ load[l].step = "assign" /\ load[l] # NoLoad
      /\ loaded' \in [Replica -> Snapshot] /\ newest' \in [Replica -> Snapshot]
      /\ \A q \in Replica :
           /\ newest[q].policies =< newest'[q].policies
           /\ newest'[q].policies =< db.policies /\ newest'[q].plans =< db.plans
      /\ \A q \in Replica \ {p} : loaded'[q] = loaded[q] /\ newest'[q] = newest[q]
      /\ newest[p].policies =< load[l].policies /\ newest[p].plans =< load[l].plans
           => loaded'[p] = newest'[p]
  BY <1>1, <1>2, Installed
<1>6. \A k \in Loader : load'[k] = IF k = l THEN x ELSE load[k]
  BY <1>2, <1>3 DEF Types
<1>7. \A t \in Trigger : load'[<<p, t>>] = IF t = trigger THEN x ELSE NoLoad
  <2>1. reloading[p]
    BY <1>5, Zenon DEF OneLoad
  <2>2. \A t \in Trigger \ {trigger} : load[<<p, t>>] = NoLoad
    BY <1>5, <2>1, Zenon DEF OneLoad
  <2> QED
    BY <1>6, <2>2, Loaders
<1>8. Types'
  BY <1>1, <1>3, <1>4, <1>5 DEF Types
<1>9. OneLoad'
  <2> SUFFICES ASSUME NEW q \in Replica
               PROVE  /\ ~reloading'[q] => \A t \in Trigger : load'[<<q, t>>] = NoLoad
                      /\ reloading'[q] =>
                           /\ \E t \in Trigger : load'[<<q, t>>] # NoLoad
                           /\ \A t, u \in Trigger :
                                load'[<<q, t>>] # NoLoad /\ load'[<<q, u>>] # NoLoad => t = u
    BY Zenon DEF OneLoad, NoLoad
  <2>1. CASE q = p
    <3>1. reloading'[p] <=> again[p]
      BY <1>1, Zenon DEF Types
    <3> QED
      BY <2>1, <3>1, <1>3, <1>7, Zenon
  <2>2. CASE q # p
    <3>1. \A t \in Trigger : load'[<<q, t>>] = load[<<q, t>>]
      BY <1>6, <2>2, Loaders
    <3>2. reloading'[q] = reloading[q]
      BY <1>1, <2>2, Zenon DEF Types
    <3> QED
      BY <3>1, <3>2, Zenon DEF OneLoad
  <2> QED
    BY <2>1, <2>2
<1>10. Announced'
  BY <1>1 DEF Announced, Answered
<1>11. BehindDb'
  BY <1>1, <1>4, <1>5, <1>6 DEF BehindDb
<1>12. OwnWrites'
  <2>1. \A q \in Replica : newest[q].policies \in Nat /\ newest'[q].policies \in Nat
    BY <1>5 DEF Types, Snapshot
  <2>2. \A c \in Call : wrote[c] \in Nat /\ call[c].replica \in Replica /\ load'[c] = load[c]
    BY <1>2, <1>6, Loaders DEF Types
  <2> QED
    BY <1>1, <1>5, <2>1, <2>2 DEF OwnWrites
<1>13. InOrder'
  <2> SUFFICES ASSUME NEW q \in Replica, Alone(q)
               PROVE  /\ loaded'[q] = newest'[q]
                      /\ \A t \in Trigger :
                           /\ load'[<<q, t>>].step \in {"plans", "assign"}
                                => newest'[q].policies =< load'[<<q, t>>].policies
                           /\ load'[<<q, t>>].step = "assign" => newest'[q].plans =< load'[<<q, t>>].plans
    BY DEF InOrder, Alone
  <2>1. CASE q = p
    BY <1>4, <1>5, <1>7, <2>1, LoadKinds DEF InOrder
  <2>2. CASE q # p
    <3>1. \A t \in Trigger : load'[<<q, t>>] = load[<<q, t>>]
      BY <1>6, <2>2, Loaders
    <3> QED
      BY <1>5, <2>2, <3>1 DEF InOrder
  <2> QED
    BY <2>1, <2>2
<1> QED
  BY <1>8, <1>9, <1>10, <1>11, <1>12, <1>13

\* A load of the reloader fails: it is gone, and what was served stays.
LEMMA ReloadFailsStep ==
  ASSUME IInv, NEW p \in Replica, NEW trigger \in Trigger, ReloadFails(p, trigger)
  PROVE  IInv'
<1> USE DEF IInv
<1> DEFINE l == <<p, trigger>>
<1>1. /\ load[l] # NoLoad /\ load' = [load EXCEPT ![l] = NoLoad]
      /\ reloading' = [reloading EXCEPT ![p] = FALSE]
      /\ failed' \subseteq Fault
      /\ UNCHANGED <<db, up, loaded, again, coalescing, inbox, step, wrote, newest>>
  BY DEF ReloadFails, Settled, Fails, callVars, Types
<1>2. l \in Loader /\ l \notin Call
  BY Loaders
<1>3. \A k \in Loader : load'[k] = IF k = l THEN NoLoad ELSE load[k]
  BY <1>1, <1>2 DEF Types
<1>4. \A t \in Trigger : load'[<<p, t>>] = NoLoad
  <2>1. reloading[p]
    BY <1>1, Zenon DEF OneLoad
  <2>2. \A t \in Trigger \ {trigger} : load[<<p, t>>] = NoLoad
    BY <1>1, <2>1, Zenon DEF OneLoad
  <2> QED
    BY <1>3, <2>2, Loaders
<1>5. Types'
  BY <1>1, <1>2, LoadKinds DEF Types
<1>6. OneLoad'
  <2> SUFFICES ASSUME NEW q \in Replica
               PROVE  /\ ~reloading'[q] => \A t \in Trigger : load'[<<q, t>>] = NoLoad
                      /\ reloading'[q] =>
                           /\ \E t \in Trigger : load'[<<q, t>>] # NoLoad
                           /\ \A t, u \in Trigger :
                                load'[<<q, t>>] # NoLoad /\ load'[<<q, u>>] # NoLoad => t = u
    BY Zenon DEF OneLoad, NoLoad
  <2>1. CASE q = p
    <3>1. ~reloading'[p]
      BY <1>1, Zenon DEF Types
    <3> QED
      BY <2>1, <3>1, <1>4, Zenon
  <2>2. CASE q # p
    <3>1. \A t \in Trigger : load'[<<q, t>>] = load[<<q, t>>]
      BY <1>3, <2>2, Loaders
    <3>2. reloading'[q] = reloading[q]
      BY <1>1, <2>2, Zenon DEF Types
    <3> QED
      BY <3>1, <3>2, Zenon DEF OneLoad
  <2> QED
    BY <2>1, <2>2
<1>7. Announced'
  BY <1>1 DEF Announced, Answered
<1>8. BehindDb'
  BY <1>1, <1>3, LoadKinds DEF BehindDb
<1>9. OwnWrites'
  BY <1>1, <1>2, <1>3, Loaders DEF OwnWrites
<1>10. InOrder'
  BY <1>1, <1>3, LoadKinds, Loaders DEF InOrder, Alone
<1> QED
  BY <1>5, <1>6, <1>7, <1>8, <1>9, <1>10

\* A call's load is installed beside the reloader's.
LEMMA CallReloadedStep ==
  ASSUME IInv, NEW c \in Call, CallReloaded(c)
  PROVE  IInv'
<1> USE DEF IInv
<1> DEFINE p == call[c].replica
<1>1. /\ Assigned(c) /\ load' = [load EXCEPT ![c] = NoLoad]
      /\ step' = [step EXCEPT ![c] = "reloaded"]
      /\ UNCHANGED <<db, up, reloading, again, coalescing, inbox, wrote, failed>>
  BY DEF CallReloaded, To, reloaderVars
<1>2. c \in Loader /\ ReplicaOf(c) = p /\ p \in Replica
  BY Loaders
<1>3. /\ load[c].step = "assign"
      /\ loaded' \in [Replica -> Snapshot] /\ newest' \in [Replica -> Snapshot]
      /\ \A q \in Replica :
           /\ newest[q].policies =< newest'[q].policies
           /\ newest'[q].policies =< db.policies /\ newest'[q].plans =< db.plans
      /\ \A q \in Replica \ {p} : loaded'[q] = loaded[q] /\ newest'[q] = newest[q]
      /\ load[c].policies =< newest'[p].policies
  BY <1>1, <1>2, Installed
<1>4. \A k \in Loader : load'[k] = IF k = c THEN NoLoad ELSE load[k]
  BY <1>1, <1>2 DEF Types
<1>5. ASSUME NEW q \in Replica, NEW t \in Trigger
      PROVE  load'[<<q, t>>] = load[<<q, t>>]
  <2>1. <<q, t>> \in Loader /\ <<q, t>> # c
    BY Loaders
  <2> QED
    BY <1>4, <2>1
<1>6. Types'
  BY <1>1, <1>2, <1>3, LoadKinds DEF Types
<1>7. OneLoad'
  BY <1>1, <1>5, OneLoadKept
<1>8. Announced'
  <2>1. step[c] = "reloading"
    BY <1>3, LoadKinds DEF OwnWrites
  <2>2. Answered' = Answered
    BY <1>1, <2>1 DEF Answered, Types
  <2> QED
    BY <1>1, <2>2 DEF Announced
<1>9. BehindDb'
  BY <1>1, <1>3, <1>4, LoadKinds DEF BehindDb
<1>10. OwnWrites'
  <2> SUFFICES ASSUME NEW d \in Call
               PROVE  /\ wrote'[d] =< db'.policies
                      /\ load'[d] # NoLoad => step'[d] = "reloading"
                      /\ load'[d].step \in {"plans", "assign"} => wrote'[d] =< load'[d].policies
                      /\ step'[d] \in {"reloaded", "answered"}
                           => wrote'[d] =< newest'[call[d].replica].policies
    BY DEF OwnWrites, NoLoad
  <2>1. \A q \in Replica : newest[q].policies \in Nat /\ newest'[q].policies \in Nat
    BY <1>3 DEF Types, Snapshot
  <2>2. wrote[d] \in Nat /\ call[d].replica \in Replica /\ d \in Loader
    BY Loaders DEF Types
  <2>3. CASE d = c
    <3>1. load[c].policies \in Nat /\ wrote[c] =< load[c].policies
      BY <1>2, <1>3, LoadSteps DEF Types, OwnWrites
    <3> QED
      BY <1>1, <1>3, <1>4, <2>1, <2>2, <2>3, <3>1, LoadKinds DEF OwnWrites
  <2>4. CASE d # c
    BY <1>1, <1>3, <1>4, <2>1, <2>2, <2>4 DEF OwnWrites, Types
  <2> QED
    BY <2>3, <2>4
<1>11. InOrder'
  BY <1>1, <1>2, <1>3, <1>5 DEF InOrder, Alone
<1> QED
  BY <1>6, <1>7, <1>8, <1>9, <1>10, <1>11

----------------------------------------------------------------------------
(* Calls and announcements *)

\* A call whose load fails leaves everything that is served as it is.
LEMMA CallFailsStep ==
  ASSUME IInv, NEW c \in Call, CallFails(c)
  PROVE  IInv'
<1> USE DEF IInv
<1>1. /\ step[c] = "reloading" /\ step' = [step EXCEPT ![c] = "failed"]
      /\ load' = [load EXCEPT ![c] = NoLoad] /\ failed' \subseteq Fault
      /\ UNCHANGED <<db, up, loaded, reloading, again, coalescing, inbox, wrote, newest>>
  BY DEF CallFails, To, Fails, reloaderVars, Types
<1>2. c \in Loader /\ \A k \in Loader : load'[k] = IF k = c THEN NoLoad ELSE load[k]
  BY <1>1, Loaders DEF Types
<1>3. ASSUME NEW q \in Replica, NEW t \in Trigger
      PROVE  load'[<<q, t>>] = load[<<q, t>>]
  <2>1. <<q, t>> \in Loader /\ <<q, t>> # c
    BY Loaders
  <2> QED
    BY <1>2, <2>1
<1>4. Types'
  BY <1>1, <1>2, LoadKinds DEF Types
<1>5. OneLoad'
  BY <1>1, <1>3, OneLoadKept
<1>6. Announced'
  <2>1. Answered' = Answered
    BY <1>1 DEF Answered, Types
  <2> QED
    BY <1>1, <2>1 DEF Announced
<1>7. BehindDb'
  BY <1>1, <1>2, LoadKinds DEF BehindDb
<1>8. OwnWrites'
  BY <1>1, <1>2, LoadKinds, Loaders DEF OwnWrites, Types
<1>9. InOrder'
  BY <1>1, <1>3 DEF InOrder, Alone
<1> QED
  BY <1>4, <1>5, <1>6, <1>7, <1>8, <1>9

\* An answered call has announced its change to some of those that are up.
LEMMA PublishStep ==
  ASSUME IInv, NEW c \in Call, Publish(c)
  PROVE  IInv'
<1> USE DEF IInv
<1>1. PICK reached \in SUBSET up :
        inbox' = [p \in Replica |-> IF p \in reached THEN inbox[p] + 1 ELSE inbox[p]]
  BY DEF Publish
<1>2. /\ step[c] = "reloaded" /\ step' = [step EXCEPT ![c] = "answered"]
      /\ failed' \subseteq Fault
      /\ UNCHANGED <<db, up, loaded, load, reloading, again, coalescing, wrote, newest>>
  BY DEF Publish, To, Fails, reloaderVars, Types
<1>3. Types'
  BY <1>1, <1>2 DEF Types
<1>4. OneLoad'
  BY <1>2, OneLoadKept
<1>5. Announced'
  <2>1. Answered' = Answered \cup {c} /\ c \notin Answered
    BY <1>2 DEF Answered, Types
  <2>2. IsFiniteSet(Answered)
    BY FS_Subset DEF Answered
  <2>3. Cardinality(Answered') = Cardinality(Answered) + 1 /\ Cardinality(Answered) \in Nat
    BY <2>1, <2>2, FS_AddElement, FS_CardinalityType
  <2> QED
    BY <1>1, <1>2, <2>3 DEF Announced, Types
<1>6. BehindDb' /\ InOrder'
  BY <1>2 DEF BehindDb, InOrder, Alone
<1>7. OwnWrites'
  BY <1>2, Loaders DEF OwnWrites, Types
<1> QED
  BY <1>3, <1>4, <1>5, <1>6, <1>7

\* An announcement that arrives sets a timer, on a replica that is up.
LEMMA OnBroadcastStep ==
  ASSUME IInv, NEW p \in Replica, OnBroadcast(p)
  PROVE  IInv'
<1> USE DEF IInv
<1>1. /\ inbox[p] > 0 /\ inbox' = [inbox EXCEPT ![p] = inbox[p] - 1]
      /\ coalescing' = coalescing \cup {p}
      /\ UNCHANGED <<db, up, loaded, load, reloading, again, step, wrote, newest, failed>>
  BY DEF OnBroadcast, callVars
<1>2. p \in up
  BY <1>1 DEF Announced
<1>3. Types'
  BY <1>1, <1>2 DEF Types
<1>4. OneLoad'
  BY <1>1, OneLoadKept
<1>5. Announced'
  <2>1. Answered' = Answered /\ Cardinality(Answered) \in Nat
    BY <1>1, FS_Subset, FS_CardinalityType DEF Answered
  <2> QED
    BY <1>1, <2>1 DEF Announced, Types
<1> QED
  BY <1>1, <1>3, <1>4, <1>5 DEF BehindDb, OwnWrites, InOrder, Alone

----------------------------------------------------------------------------
(* The surroundings *)

\* Another plan puts the database further ahead.
LEMMA ChangePlanStep ==
  ASSUME IInv, ChangePlan
  PROVE  IInv'
<1> USE DEF IInv
<1>1. /\ db' = [db EXCEPT !.plans = db.plans + 1]
      /\ UNCHANGED <<up, loaded, load, reloading, again, coalescing, inbox, step, wrote, newest, failed>>
  BY DEF ChangePlan, reloaderVars, callVars
<1>2. /\ db' \in Snapshot /\ db'.policies = db.policies /\ db'.plans = db.plans + 1
      /\ db.plans \in Nat
  BY <1>1 DEF Types, Snapshot
<1>3. Types'
  BY <1>1, <1>2 DEF Types
<1>4. OneLoad'
  BY <1>1, OneLoadKept
<1>5. BehindDb'
  <2>1. \A l \in Loader : load[l].step = "assign" => load[l].plans \in Nat
    BY LoadSteps DEF Types
  <2>2. \A p \in Replica : newest[p].plans \in Nat
    BY DEF Types, Snapshot
  <2> QED
    BY <1>1, <1>2, <2>1, <2>2 DEF BehindDb
<1> QED
  BY <1>1, <1>2, <1>3, <1>4, <1>5 DEF Announced, Answered, OwnWrites, InOrder, Alone

\* A replica dies with its loads, its timers and its calls.
LEMMA DieStep ==
  ASSUME IInv, NEW p \in Replica, Die(p)
  PROVE  IInv'
<1> USE DEF IInv
<1>1. /\ up' = up \ {p}
      /\ load' = [l \in Loader |-> IF ReplicaOf(l) = p THEN NoLoad ELSE load[l]]
      /\ reloading' = [reloading EXCEPT ![p] = FALSE]
      /\ again' = [again EXCEPT ![p] = FALSE]
      /\ coalescing' = coalescing \ {p}
      /\ inbox' = [inbox EXCEPT ![p] = 0]
      /\ step' = [c \in Call |-> IF call[c].replica = p /\ step[c] \in {"reloading", "reloaded"}
                                 THEN "failed" ELSE step[c]]
      /\ failed' \subseteq Fault
      /\ UNCHANGED <<db, loaded, wrote, newest>>
  BY DEF Die, Fails, Types
<1>2. \A q \in Replica, t \in Trigger :
        load'[<<q, t>>] = IF q = p THEN NoLoad ELSE load[<<q, t>>]
  BY <1>1, Loaders
<1>3. \A c \in Call : load'[c] = IF call[c].replica = p THEN NoLoad ELSE load[c]
  BY <1>1, Loaders
<1>4. Types'
  BY <1>1, LoadKinds DEF Types
<1>5. OneLoad'
  <2> SUFFICES ASSUME NEW q \in Replica
               PROVE  /\ ~reloading'[q] => \A t \in Trigger : load'[<<q, t>>] = NoLoad
                      /\ reloading'[q] =>
                           /\ \E t \in Trigger : load'[<<q, t>>] # NoLoad
                           /\ \A t, u \in Trigger :
                                load'[<<q, t>>] # NoLoad /\ load'[<<q, u>>] # NoLoad => t = u
    BY Zenon DEF OneLoad, NoLoad
  <2>1. CASE q = p
    <3>1. ~reloading'[p]
      BY <1>1, Zenon DEF Types
    <3> QED
      BY <2>1, <3>1, <1>2, Zenon
  <2>2. CASE q # p
    <3>1. reloading'[q] = reloading[q]
      BY <1>1, <2>2, Zenon DEF Types
    <3>2. \A t \in Trigger : load'[<<q, t>>] = load[<<q, t>>]
      BY <1>2, <2>2
    <3> QED
      BY <3>1, <3>2, Zenon DEF OneLoad
  <2> QED
    BY <2>1, <2>2
<1>6. Announced'
  <2>1. Answered' = Answered /\ Cardinality(Answered) \in Nat
    <3>1. Answered' = Answered
      BY <1>1 DEF Answered
    <3> QED
      BY <3>1, FS_Subset, FS_CardinalityType DEF Answered
  <2> QED
    BY <1>1, <2>1 DEF Announced, Types
<1>7. BehindDb'
  BY <1>1, LoadKinds DEF BehindDb
<1>8. OwnWrites'
  BY <1>1, <1>3, LoadKinds DEF OwnWrites
<1>9. InOrder'
  BY <1>1, <1>2, LoadKinds DEF InOrder, Alone
<1> QED
  BY <1>4, <1>5, <1>6, <1>7, <1>8, <1>9

----------------------------------------------------------------------------
(* Invariance *)

LEMMA NextIInv ==
  IInv /\ [Next]_vars => IInv'
<1> SUFFICES ASSUME IInv, [Next]_vars PROVE IInv'
  OBVIOUS
<1>1. ASSUME NEW l \in Loader, QueryPolicies(l) \/ QueryPlans(l) PROVE IInv'
  BY <1>1, QueryStep
<1>2. ASSUME NEW p \in Replica, TimerFires(p) PROVE IInv'
  <2>1. coalescing' \subseteq up
    BY <1>2 DEF TimerFires, IInv, Types
  <2> QED
    BY <1>2, <2>1, ReloadNowStep DEF TimerFires, callVars, Trigger
<1>3. ASSUME NEW p \in Replica, OnBroadcast(p) PROVE IInv'
  BY <1>3, OnBroadcastStep
<1>4. ASSUME NEW p \in Replica, CoalesceTimerFires(p) PROVE IInv'
  <2>1. coalescing' \subseteq up
    BY <1>4 DEF CoalesceTimerFires, IInv, Types
  <2> QED
    BY <1>4, <2>1, ReloadNowStep DEF CoalesceTimerFires, callVars, Trigger
<1>5. ASSUME NEW p \in Replica, NEW t \in Trigger, Reloaded(p, t) PROVE IInv'
  BY <1>5, ReloadedStep
<1>6. ASSUME NEW p \in Replica, NEW t \in Trigger, ReloadFails(p, t) PROVE IInv'
  BY <1>6, ReloadFailsStep
<1>7. ASSUME NEW p \in Replica, Die(p) PROVE IInv'
  BY <1>7, DieStep
<1>8. ASSUME NEW p \in Replica, Boot(p) PROVE IInv'
  <2>1. coalescing' \subseteq up
    BY <1>8 DEF Boot, IInv, Types
  <2> QED
    BY <1>8, <2>1, ReloadNowStep DEF Boot, callVars, Trigger
<1>9. ASSUME NEW c \in Call, Ask(c) PROVE IInv'
  BY <1>9, AskStep
<1>10. ASSUME NEW c \in Call, CallReloaded(c) PROVE IInv'
  BY <1>10, CallReloadedStep
<1>11. ASSUME NEW c \in Call, CallFails(c) PROVE IInv'
  BY <1>11, CallFailsStep
<1>12. ASSUME NEW c \in Call, Publish(c) PROVE IInv'
  BY <1>12, PublishStep
<1>13. CASE ChangePlan
  BY <1>13, ChangePlanStep
<1>14. CASE UNCHANGED vars
  <2>1. OneLoad'
    BY <1>14, OneLoadKept DEF vars, reloaderVars, IInv
  <2> QED
    BY <1>14, <2>1 DEF vars, reloaderVars, callVars, IInv, Types, Announced, Answered, BehindDb, OwnWrites,
                       InOrder, Alone
<1> QED
  BY <1>1, <1>2, <1>3, <1>4, <1>5, <1>6, <1>7, <1>8, <1>9, <1>10, <1>11, <1>12, <1>13, <1>14 DEF Next

\* What is served, what is being loaded and what is committed stay in order.
THEOREM Ordered ==
  Spec => []IInv
BY InitIInv, NextIInv, PTL DEF Spec

\* The invariant counts the loads of a reloader as TypeOK does.
LEMMA LoadsCounted ==
  ASSUME IInv
  PROVE  TypeOK
<1> USE DEF IInv
<1>1. ASSUME NEW p \in Replica
      PROVE  Cardinality({t \in Trigger : load[<<p, t>>] # NoLoad}) = IF reloading[p] THEN 1 ELSE 0
  <2> DEFINE flying == {t \in Trigger : load[<<p, t>>] # NoLoad}
  <2>1. CASE reloading[p]
    <3>1. PICK t \in Trigger : load[<<p, t>>] # NoLoad
      BY <2>1, Zenon DEF OneLoad
    <3>2. \A u \in Trigger : load[<<p, u>>] # NoLoad => u = t
      BY <2>1, <3>1, Zenon DEF OneLoad
    <3>3. flying = {t}
      BY <3>1, <3>2
    <3> QED
      BY <2>1, <3>3, FS_Singleton
  <2>2. CASE ~reloading[p]
    <3>1. flying = {}
      BY <2>2, Zenon DEF OneLoad
    <3> QED
      BY <2>2, <3>1, FS_EmptySet
  <2> QED
    BY <2>1, <2>2
<1>2. inbox \in [Replica -> 0..Cardinality(Call)]
  <2>1. /\ Cardinality(Answered) =< Cardinality(Call)
        /\ Cardinality(Answered) \in Nat /\ Cardinality(Call) \in Nat
    BY FS_Subset, FS_CardinalityType DEF Answered
  <2>2. \A p \in Replica : inbox[p] \in 0..Cardinality(Call)
    BY <2>1 DEF Announced, Types
  <2> QED
    BY <2>2 DEF Types
<1> QED
  BY <1>1, <1>2 DEF TypeOK, Types

\* Whatever is edited, lost, delayed or dies, a call that was answered has been
\* served by the replica that answered it, and a replica whose policies only
\* its reloader loads never goes back to an older set.
THEOREM InstalledInOrder ==
  Spec => []DistributionInOrder
<1>1. IInv => DistributionInOrder
  <2> SUFFICES ASSUME IInv PROVE DistributionInOrder
    OBVIOUS
  <2>1. TypeOK
    BY LoadsCounted
  <2>2. AnsweredWasServed
    BY DEF IInv, OwnWrites, AnsweredWasServed
  <2>3. NeverGoesBack
    BY DEF IInv, Types, InOrder, Alone, NeverGoesBack
  <2> QED
    BY <2>1, <2>2, <2>3 DEF DistributionInOrder
<1> QED
  BY <1>1, Ordered, PTL
=============================================================================
