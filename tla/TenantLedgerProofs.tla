------------------------- MODULE TenantLedgerProofs -------------------------
(***************************************************************************)
(* Proof that the replay of the tenants' ledger is right, for any tenants, *)
(* replicas, movements, windows and failures (TenantLedgerReconciler).     *)
(*                                                                         *)
(* A balance is what storage held at some block at or before the           *)
(* checkpoint, and no event lies between the two (NoGap).  So a pass that  *)
(* nobody raced begins where its balances end, and what it expects differs *)
(* from what it reads by the silent movements alone (Explained): by        *)
(* nothing if there are none, by a negative sum if there are.              *)
(*                                                                         *)
(* One hypothesis is about behaviours: the first scan must reach the first *)
(* block, as what is older than the lookback is never replayed.  A pass    *)
(* that is raced may count charges which its balances already hold, and a  *)
(* loss of the same amount then shows no drift: masked has such losses; a  *)
(* replica that is alone has none.                                         *)
(***************************************************************************)
EXTENDS TenantLedger, SumsProofs, SequenceTheorems

\* The scan that starts a chain's ledger reaches its first block.
FirstScanReachesBack == checkpoint = NoBlock => Len(chain) =< InitialLookback + 1

\* No replica is at work on balances that another's commit replaced under it.
NoneRaced == \A p \in Replica : job[p].step = "compare" => ~job[p].raced

----------------------------------------------------------------------------
(* The inductive invariant *)

\* No event moves a tenant's balance in the blocks above a and below c.
Quiet(t, a, c) ==
    \A b \in DOMAIN chain : a < b /\ b < c => ~(chain[b].tenant = t /\ ~chain[b].silent)

\* wei is what storage held at the end of a block of the chain.
Held(t, wei, upTo) == upTo \in 1..Len(chain) /\ wei = BalanceAt(t, upTo)

ChainOK ==
    /\ chain \in Seq(Block)
    /\ \A b \in DOMAIN chain : chain[b].silent => chain[b].delta < 0

\* The ledger has the events up to the checkpoint, and so have the balances.
NoGap(t) == Quiet(t, balances[t].upTo, checkpoint + 1)

BalanceOK(t) ==
    /\ balances[t].upTo =< balances[t].asOf /\ balances[t].asOf =< checkpoint
    /\ balances[t] # Unseen => Held(t, balances[t].wei, balances[t].upTo)
    /\ NoGap(t)

StoreOK ==
    /\ balances \in Known
    /\ checkpoint = NoBlock \/ checkpoint \in 1..Len(chain)
    /\ entries \subseteq DOMAIN chain
    /\ \A b \in DOMAIN chain : ~chain[b].silent /\ b =< checkpoint => b \in entries
    /\ \A t \in Tenant : BalanceOK(t)

\* Where the next window starts, at the latest.
First(c) == IF c = NoBlock THEN 1 ELSE c + 1

\* What a pass knows of a tenant, and what it has read of it.
KnownOK(j, t) ==
    /\ j.known[t] # Unseen => Held(t, j.known[t].wei, j.known[t].upTo)
    /\ ~j.raced => j.known[t].upTo < j.from /\ Quiet(t, j.known[t].upTo, j.from)

ReadOK(j, t) ==
    /\ j.reconciled[t] # Unread =>
         /\ j.from =< j.reconciled[t].upTo /\ j.reconciled[t].upTo =< j.to
         /\ Held(t, j.reconciled[t].wei, j.reconciled[t].upTo)
         /\ Quiet(t, j.reconciled[t].upTo, j.to + 1)
    /\ t \notin j.todo /\ j.reconciled[t] = Unread => Quiet(t, j.from - 1, j.to + 1)

JobOK(j) ==
    /\ j \in Job
    /\ j.step = "head" => j.head =< Len(chain)
    /\ j.step = "window" =>
         /\ j.from = First(j.after) /\ j.after =< checkpoint
         /\ 1 =< j.from /\ j.from =< j.to /\ j.to =< Len(chain)
    /\ j.step = "compare" =>
         /\ j.from =< First(checkpoint)
         /\ 1 =< j.from /\ j.from =< j.to /\ j.to =< Len(chain)
         /\ \A t \in Tenant : KnownOK(j, t) /\ ReadOK(j, t)

JobsOK ==
    /\ job \in [Replica -> Job]
    /\ \A p \in Replica : JobOK(job[p])

AlertsOK ==
    /\ leader \in Replica /\ failed \subseteq Fault
    /\ noticed \subseteq DOMAIN chain /\ absorbed \subseteq DOMAIN chain
    /\ masked \subseteq DOMAIN chain /\ paged \subseteq noticed
    /\ falseAlarm \subseteq {TRUE}

LInv == ChainOK /\ StoreOK /\ JobsOK /\ AlertsOK

\* Silent movements of a tenant up to a block were reported, taken in, or
\* masked by a raced pass.
Said(t, upTo) ==
    \A b \in DOMAIN chain :
        chain[b].tenant = t /\ chain[b].silent /\ b =< upTo => b \in noticed \cup absorbed \cup masked

JobSaid(j) ==
    j.step = "compare" => \A t \in Tenant : Said(t, j.known[t].upTo) /\ Said(t, j.reconciled[t].upTo)

SaidInv ==
    /\ \A t \in Tenant : Said(t, balances[t].upTo)
    /\ \A p \in Replica : JobSaid(job[p])

----------------------------------------------------------------------------
(* Blocks, jobs and sums *)

LEMMA Blocks ==
  ASSUME ChainOK
  PROVE  /\ Len(chain) \in Nat /\ DOMAIN chain = 1..Len(chain)
         /\ \A b \in DOMAIN chain :
              /\ b \in Nat /\ 1 =< b /\ b =< Len(chain)
              /\ chain[b].tenant \in Tenant /\ chain[b].delta \in Int /\ chain[b].silent \in BOOLEAN
              /\ chain[b].silent => chain[b].delta < 0
<1>1. chain \in Seq(Block)
  BY DEF ChainOK
<1>2. Len(chain) \in Nat /\ DOMAIN chain = 1..Len(chain)
  BY <1>1
<1>3. ASSUME NEW b \in 1..Len(chain)
      PROVE  chain[b] \in Block
  BY <1>1, ElementOfSeq
<1>4. ASSUME NEW b \in 1..Len(chain)
      PROVE  /\ chain[b].tenant \in Tenant /\ chain[b].delta \in Int
             /\ chain[b].silent \in BOOLEAN
  BY <1>3 DEF Block
<1>5. \A b \in 1..Len(chain) : b \in Nat /\ 1 =< b /\ b =< Len(chain)
  BY <1>2
<1> QED
  BY <1>2, <1>4, <1>5 DEF ChainOK

LEMMA JobFields ==
  ASSUME NEW j \in Job
  PROVE  /\ j.step \in {"idle", "head", "window", "compare"}
         /\ j.step = "head" => j.head \in Nat
         /\ j.step = "window" =>
              j.head \in Nat /\ j.from \in Nat /\ j.to \in Nat /\ j.after \in Row
         /\ j.step = "compare" =>
              /\ j.from \in Nat /\ j.to \in Nat /\ j.known \in Known /\ j.raced \in BOOLEAN
              /\ j.todo \in SUBSET Tenant /\ j.reconciled \in [Tenant -> Reading]
              /\ DOMAIN j = {"step", "from", "to", "known", "raced", "todo", "reconciled"}
<1>1. CASE j = Idle
  BY <1>1 DEF Idle
<1>2. CASE j \in [step : {"head"}, head : Nat]
  BY <1>2
<1>3. CASE j \in [step : {"window"}, head : Nat, from : Nat, to : Nat, after : Row]
  BY <1>3
<1>4. CASE j \in [step : {"compare"}, from : Nat, to : Nat, known : Known, raced : BOOLEAN,
                  todo : SUBSET Tenant, reconciled : [Tenant -> Reading]]
  BY <1>4
<1> QED
  BY <1>1, <1>2, <1>3, <1>4 DEF Job

LEMMA BalanceFields ==
  ASSUME NEW x \in Balance
  PROVE  /\ x.wei \in Int /\ x.asOf \in Int /\ x.upTo \in Int
         /\ x.upTo >= NoBlock /\ x.asOf >= NoBlock
         /\ x # Unseen => x.upTo \in Nat /\ x.asOf \in Nat
         /\ x = Unseen => x.upTo = NoBlock /\ x.asOf = NoBlock
<1>1. CASE x = Unseen
  BY <1>1 DEF Unseen, NoBlock
<1>2. CASE x \in [wei : Int, asOf : Nat, upTo : Nat]
  <2>1. x.wei \in Int /\ x.asOf \in Nat /\ x.upTo \in Nat
    BY <1>2
  <2> QED
    BY <2>1 DEF Unseen, NoBlock
<1> QED
  BY <1>1, <1>2 DEF Balance

LEMMA ReadingFields ==
  ASSUME NEW x \in Reading
  PROVE  /\ x.wei \in Int /\ x.upTo \in Int /\ x.upTo >= NoBlock
         /\ x # Unread => x.upTo \in Nat
         /\ x = Unread => x.upTo = NoBlock
<1>1. CASE x = Unread
  BY <1>1 DEF Unread, NoBlock
<1>2. CASE x \in [wei : Int, upTo : Nat]
  <2>1. x.wei \in Int /\ x.upTo \in Nat
    BY <1>2
  <2> QED
    BY <2>1 DEF Unread, NoBlock
<1> QED
  BY <1>1, <1>2 DEF Reading

\* The movements that sums are taken of.
Deltas == [b \in DOMAIN chain |-> chain[b].delta]

LEMMA MovesFinite ==
  ASSUME ChainOK, NEW t, NEW a \in Nat \ {0}, NEW c \in Int, c =< Len(chain)
  PROVE  /\ IsFiniteSet(Moves(t, a, c)) /\ Moves(t, a, c) \subseteq DOMAIN chain
         /\ \A b \in Moves(t, a, c) : Deltas[b] \in Int
         /\ MovedIn(t, a, c) = SumOver(Deltas, Moves(t, a, c))
         /\ MovedIn(t, a, c) \in Int
<1>1. a..c \subseteq DOMAIN chain
  BY Blocks
<1>2. IsFiniteSet(a..c)
  BY FS_Interval
<1>3. Moves(t, a, c) \subseteq a..c
  BY DEF Moves
<1>4. IsFiniteSet(Moves(t, a, c))
  BY <1>2, <1>3, FS_Subset
<1>5. \A b \in Moves(t, a, c) : Deltas[b] \in Int
  BY <1>1, <1>3, Blocks DEF Deltas
<1>6. MovedIn(t, a, c) = SumOver(Deltas, Moves(t, a, c))
  BY DEF MovedIn, Deltas
<1>7. MovedIn(t, a, c) \in Int
  BY <1>4, <1>5, <1>6, SumInt
<1> QED
  BY <1>1, <1>3, <1>4, <1>5, <1>6, <1>7

\* What storage holds is what it held, and what moved since.
LEMMA Splits ==
  ASSUME ChainOK, NEW t, NEW a \in Nat, NEW c \in Nat, a =< c, c =< Len(chain)
  PROVE  /\ BalanceAt(t, a) \in Int /\ BalanceAt(t, c) \in Int
         /\ BalanceAt(t, c) = BalanceAt(t, a) + SumOver(Deltas, Moves(t, a + 1, c))
<1>1. /\ 1 \in Nat \ {0} /\ a + 1 \in Nat \ {0} /\ a \in Int /\ c \in Int
      /\ a =< Len(chain)
  BY Blocks
<1> DEFINE A == Moves(t, 1, a)
           B == Moves(t, a + 1, c)
<1>2. /\ IsFiniteSet(A) /\ (\A b \in A : Deltas[b] \in Int)
      /\ MovedIn(t, 1, a) = SumOver(Deltas, A) /\ MovedIn(t, 1, a) \in Int
  BY <1>1, MovesFinite, Zenon
<1>3. IsFiniteSet(B) /\ (\A b \in B : Deltas[b] \in Int)
  BY <1>1, MovesFinite, Zenon
<1>4. MovedIn(t, 1, c) = SumOver(Deltas, Moves(t, 1, c)) /\ MovedIn(t, 1, c) \in Int
  BY <1>1, MovesFinite, Zenon
<1>5. A \cap B = {} /\ Moves(t, 1, c) = A \cup B
  BY DEF Moves
<1> HIDE DEF A, B
<1>6. SumOver(Deltas, A \cup B) = SumOver(Deltas, A) + SumOver(Deltas, B)
  BY <1>2, <1>3, <1>5, SumDisjoint
<1> QED
  BY <1>2, <1>4, <1>5, <1>6 DEF BalanceAt, B

\* The silent movements of a tenant above one block and up to another.
Silent(t, a, c) == {b \in DOMAIN chain : /\ chain[b].tenant = t /\ chain[b].silent
                                         /\ a < b /\ b =< c}

\* From a block that no event separates from the window, to one that none
\* separates from its end, a balance moves by the window's events and by what
\* moved silently.
LEMMA Explained ==
  ASSUME ChainOK, NEW t, NEW a \in Nat, NEW from \in Nat, NEW to \in Nat, NEW c \in Nat,
         a < from, from =< c, c =< to, to =< Len(chain),
         Quiet(t, a, from), Quiet(t, c, to + 1)
  PROVE  /\ SumOver(Deltas, Reported(t, from, to)) \in Int
         /\ BalanceAt(t, c) = BalanceAt(t, a) + SumOver(Deltas, Reported(t, from, to))
                                + SumOver(Deltas, Silent(t, a, c))
         /\ Silent(t, a, c) = {} => SumOver(Deltas, Silent(t, a, c)) = 0
         /\ Silent(t, a, c) # {} =>
              SumOver(Deltas, Silent(t, a, c)) \in Int /\ SumOver(Deltas, Silent(t, a, c)) < 0
<1> DEFINE E == Reported(t, from, to)
           S == Silent(t, a, c)
<1>1. Len(chain) \in Nat /\ DOMAIN chain = 1..Len(chain)
  BY Blocks
<1>2. BalanceAt(t, a) \in Int /\ BalanceAt(t, c) = BalanceAt(t, a) + SumOver(Deltas, Moves(t, a + 1, c))
  BY <1>1, Splits
<1>3. /\ IsFiniteSet(Moves(t, a + 1, c)) /\ Moves(t, a + 1, c) \subseteq DOMAIN chain
      /\ \A b \in Moves(t, a + 1, c) : Deltas[b] \in Int
  BY <1>1, MovesFinite
<1>4. Moves(t, a + 1, c) = {b \in DOMAIN chain : chain[b].tenant = t /\ a < b /\ b =< c}
  BY <1>1 DEF Moves
<1>5. E = {b \in DOMAIN chain : /\ chain[b].tenant = t /\ ~chain[b].silent
                                /\ from =< b /\ b =< to}
  BY <1>1 DEF Reported, Moves
<1>6. \A b \in DOMAIN chain : chain[b].tenant = t /\ ~chain[b].silent =>
        (from =< b /\ b =< to <=> a < b /\ b =< c)
  <2> SUFFICES ASSUME NEW b \in DOMAIN chain, chain[b].tenant = t, ~chain[b].silent
               PROVE  from =< b /\ b =< to <=> a < b /\ b =< c
    OBVIOUS
  <2>1. b \in Nat /\ ~(a < b /\ b < from) /\ ~(c < b /\ b < to + 1)
    BY <1>1 DEF Quiet
  <2> QED
    BY <2>1
<1>7. E \cap S = {} /\ Moves(t, a + 1, c) = E \cup S
  BY <1>4, <1>5, <1>6 DEF Silent
<1>8. IsFiniteSet(E) /\ IsFiniteSet(S)
  BY <1>3, <1>7, FS_Subset
<1>9. (\A b \in E \cup S : Deltas[b] \in Int) /\ (\A b \in S : Deltas[b] < 0)
  <2>1. \A b \in S : Deltas[b] < 0
    BY Blocks DEF Silent, Deltas
  <2> QED
    BY <1>3, <1>7, <2>1
<1> HIDE DEF E, S
<1>10. SumOver(Deltas, E) \in Int
  BY <1>8, <1>9, SumInt
<1>11. SumOver(Deltas, E \cup S) = SumOver(Deltas, E) + SumOver(Deltas, S)
  BY <1>7, <1>8, <1>9, SumDisjoint
<1>12. S = {} => SumOver(Deltas, S) = 0
  BY <1>8, SumZero
<1>13. S # {} => SumOver(Deltas, S) \in Int /\ SumOver(Deltas, S) < 0
  BY <1>8, <1>9, SumNegative
<1>14. BalanceAt(t, c) = BalanceAt(t, a) + SumOver(Deltas, E) + SumOver(Deltas, S)
  <2>1. SumOver(Deltas, S) \in Int
    BY <1>12, <1>13
  <2>2. BalanceAt(t, c) = BalanceAt(t, a) + SumOver(Deltas, E \cup S)
    BY <1>2, <1>7, Zenon
  <2> QED
    BY <1>2, <1>10, <1>11, <2>1, <2>2
<1> QED
  BY <1>10, <1>12, <1>13, <1>14 DEF E, S

----------------------------------------------------------------------------
(* What a growing chain leaves as it was *)

Grown ==
    /\ ChainOK' /\ Len(chain) =< Len(chain')
    /\ \A b \in DOMAIN chain : b \in DOMAIN chain' /\ chain'[b] = chain[b]
    /\ \A b \in DOMAIN chain' : b \in DOMAIN chain \/ b > Len(chain)
    /\ \A t \in Tenant, b \in DOMAIN chain : BalanceAt(t, b)' = BalanceAt(t, b)

LEMMA Appended ==
  ASSUME ChainOK, NEW e \in Block, e.silent => e.delta < 0, chain' = Append(chain, e)
  PROVE  Grown /\ Len(chain') = Len(chain) + 1
<1>1. /\ Len(chain) \in Nat /\ DOMAIN chain = 1..Len(chain) /\ chain \in Seq(Block)
  BY Blocks DEF ChainOK
<1>2. /\ chain' \in Seq(Block) /\ Len(chain') = Len(chain) + 1
      /\ DOMAIN chain' = 1..(Len(chain) + 1)
      /\ chain'[Len(chain) + 1] = e /\ \A b \in 1..Len(chain) : chain'[b] = chain[b]
  BY <1>1, AppendProperties
<1>3. \A b \in DOMAIN chain' : b \in DOMAIN chain \/ b = Len(chain) + 1
  BY <1>1, <1>2
<1>4. ChainOK'
  BY <1>1, <1>2, <1>3 DEF ChainOK
<1>5. ASSUME NEW t \in Tenant, NEW n \in DOMAIN chain
      PROVE  BalanceAt(t, n)' = BalanceAt(t, n)
  <2>1. n \in Int /\ 1 \in Nat \ {0} /\ n =< Len(chain)
    BY <1>1
  <2> DEFINE M == Moves(t, 1, n)
  <2>2. /\ IsFiniteSet(M) /\ (\A b \in M : Deltas[b] \in Int)
        /\ MovedIn(t, 1, n) = SumOver(Deltas, M)
    BY <2>1, MovesFinite, Zenon
  <2>3. M \subseteq 1..Len(chain)
    BY <1>1, <2>1 DEF Moves
  <2>4. Moves(t, 1, n)' = M
    <3>1. \A b \in 1..n : chain'[b] = chain[b]
      BY <1>1, <1>2, <2>1
    <3> QED
      BY <3>1 DEF Moves
  <2>5. \A b \in M : Deltas'[b] = Deltas[b]
    BY <1>1, <1>2, <2>3 DEF Deltas
  <2>6. PICK h : h = Deltas'
    OBVIOUS
  <2> HIDE DEF M
  <2>7. SumOver(h, M) = SumOver(Deltas, M)
    BY <2>2, <2>5, <2>6, SumSame
  <2>8. MovedIn(t, 1, n)' = SumOver(h, M)
    BY <2>4, <2>6 DEF MovedIn, Deltas
  <2> QED
    BY <2>2, <2>7, <2>8 DEF BalanceAt
<1> QED
  BY <1>1, <1>2, <1>3, <1>4, <1>5 DEF Grown

LEMMA Unchanged ==
  ASSUME ChainOK, chain' = chain
  PROVE  Grown
<1>1. Len(chain) \in Nat
  BY Blocks
<1>2. \A t \in Tenant, b \in DOMAIN chain : BalanceAt(t, b)' = BalanceAt(t, b)
  BY DEF BalanceAt, MovedIn, Moves
<1>3. ChainOK'
  BY DEF ChainOK
<1> QED
  BY <1>1, <1>2, <1>3 DEF Grown

LEMMA QuietStays ==
  ASSUME ChainOK, Grown, NEW t, NEW a \in Int, NEW c \in Int, c =< Len(chain) + 1, Quiet(t, a, c)
  PROVE  Quiet(t, a, c)'
<1> SUFFICES ASSUME NEW b \in DOMAIN chain', a < b, b < c
             PROVE  ~(chain'[b].tenant = t /\ ~chain'[b].silent)
  BY DEF Quiet
<1>1. Len(chain') \in Nat /\ DOMAIN chain' = 1..Len(chain')
  BY DEF Grown, ChainOK
<1>2. b \in Nat /\ Len(chain) \in Nat
  BY <1>1, Blocks
<1>3. b \in DOMAIN chain
  BY <1>2 DEF Grown
<1> QED
  BY <1>3 DEF Quiet, Grown

LEMMA HeldStays ==
  ASSUME ChainOK, Grown, NEW t \in Tenant, NEW wei, NEW n, Held(t, wei, n)
  PROVE  Held(t, wei, n)'
<1>1. Len(chain) \in Nat /\ DOMAIN chain = 1..Len(chain)
  BY Blocks
<1>2. Len(chain') \in Nat /\ Len(chain) =< Len(chain')
  BY DEF Grown, ChainOK
<1> QED
  BY <1>1, <1>2 DEF Held, Grown

\* A pass that takes no step, whatever others commit.
Later == /\ checkpoint \in Row /\ checkpoint' \in Row /\ checkpoint =< checkpoint'

LEMMA FirstBlock ==
  ASSUME NEW c \in Row
  PROVE  /\ c \in Int /\ First(c) \in Nat /\ 1 =< First(c) /\ c < First(c)
         /\ First(c) = IF c = NoBlock THEN 1 ELSE c + 1
         /\ c >= NoBlock /\ (c = NoBlock \/ c \in Nat)
<1>1. CASE c = NoBlock
  BY <1>1 DEF First, NoBlock
<1>2. CASE c \in Nat
  BY <1>2 DEF First, NoBlock
<1> QED
  BY <1>1, <1>2 DEF Row

LEMMA FirstLater ==
  ASSUME Later
  PROVE  /\ First(checkpoint) \in Nat /\ First(checkpoint') \in Nat
         /\ First(checkpoint) =< First(checkpoint')
<1>1. PICK c \in Row : c = checkpoint
  BY DEF Later
<1>2. PICK d \in Row : d = checkpoint'
  BY DEF Later
<1>3. First(c) =< First(d)
  <2>1. c =< d
    BY <1>1, <1>2 DEF Later
  <2> QED
    BY <2>1, FirstBlock DEF NoBlock
<1> QED
  BY <1>1, <1>2, <1>3, FirstBlock

LEMMA KnownKept ==
  ASSUME ChainOK, Grown, NEW j \in Job, j.step = "compare", j.from =< j.to, j.to =< Len(chain),
         NEW t \in Tenant, KnownOK(j, t)
  PROVE  KnownOK(j, t)'
<1>1. j.from \in Int /\ j.to \in Int /\ Len(chain) \in Nat /\ j.known[t] \in Balance
  BY JobFields, Blocks DEF Known
<1>2. j.from =< Len(chain) + 1 /\ j.known[t].upTo \in Int
  BY <1>1, BalanceFields
<1>3. j.known[t] # Unseen => Held(t, j.known[t].wei, j.known[t].upTo)'
  BY HeldStays DEF KnownOK
<1>4. ~j.raced => Quiet(t, j.known[t].upTo, j.from)'
  BY <1>1, <1>2, QuietStays DEF KnownOK
<1> QED
  BY <1>3, <1>4 DEF KnownOK

LEMMA ReadKept ==
  ASSUME ChainOK, Grown, NEW j \in Job, j.step = "compare", j.from =< j.to, j.to =< Len(chain),
         NEW t \in Tenant, ReadOK(j, t)
  PROVE  ReadOK(j, t)'
<1>1. j.from \in Int /\ j.to \in Int /\ Len(chain) \in Nat /\ j.reconciled[t] \in Reading
  BY JobFields, Blocks
<1>2. /\ j.to + 1 =< Len(chain) + 1 /\ j.reconciled[t].upTo \in Int
      /\ j.to + 1 \in Int /\ j.from - 1 \in Int
  BY <1>1, ReadingFields
<1>3. j.reconciled[t] # Unread =>
        /\ Held(t, j.reconciled[t].wei, j.reconciled[t].upTo)'
        /\ Quiet(t, j.reconciled[t].upTo, j.to + 1)'
  BY <1>2, HeldStays, QuietStays DEF ReadOK
<1>4. t \notin j.todo /\ j.reconciled[t] = Unread => Quiet(t, j.from - 1, j.to + 1)'
  BY <1>2, QuietStays DEF ReadOK
<1> QED
  BY <1>3, <1>4 DEF ReadOK

LEMMA JobKept ==
  ASSUME ChainOK, Grown, Later, NEW j, JobOK(j)
  PROVE  JobOK(j)'
<1>1. j \in Job
  BY DEF JobOK
<1>2. Len(chain) \in Nat /\ Len(chain') \in Nat /\ Len(chain) =< Len(chain')
  BY Blocks DEF Grown, ChainOK
<1>3. j.step = "head" => j.head =< Len(chain')
  BY <1>1, <1>2, JobFields DEF JobOK
<1>4. ASSUME j.step = "window"
      PROVE  /\ j.from = First(j.after) /\ j.after =< checkpoint'
             /\ 1 =< j.from /\ j.from =< j.to /\ j.to =< Len(chain')
  <2>1. j.after \in Int /\ checkpoint \in Int /\ checkpoint' \in Int /\ j.to \in Nat
    BY <1>1, <1>4, JobFields DEF Later, Row, NoBlock
  <2> QED
    BY <1>2, <1>4, <2>1 DEF JobOK, Later
<1>5. ASSUME j.step = "compare"
      PROVE  /\ j.from =< First(checkpoint')
             /\ 1 =< j.from /\ j.from =< j.to /\ j.to =< Len(chain')
             /\ \A t \in Tenant : KnownOK(j, t)' /\ ReadOK(j, t)'
  <2>1. j.from \in Nat /\ j.to \in Nat
    BY <1>1, <1>5, JobFields
  <2>2. /\ j.from =< First(checkpoint) /\ 1 =< j.from /\ j.from =< j.to /\ j.to =< Len(chain)
        /\ \A t \in Tenant : KnownOK(j, t) /\ ReadOK(j, t)
    BY <1>5 DEF JobOK
  <2>3. j.from =< First(checkpoint') /\ j.to =< Len(chain')
    BY <1>2, <2>1, <2>2, FirstLater
  <2> QED
    BY <1>1, <1>5, <2>2, <2>3, KnownKept, ReadKept
<1> QED
  BY <1>1, <1>3, <1>4, <1>5 DEF JobOK, First

LEMMA StoreFields ==
  ASSUME ChainOK, StoreOK
  PROVE  /\ checkpoint \in Row /\ checkpoint \in Int /\ checkpoint =< Len(chain)
         /\ checkpoint >= NoBlock
         /\ First(checkpoint) \in Nat /\ 1 =< First(checkpoint) /\ checkpoint < First(checkpoint)
         /\ \A t \in Tenant : balances[t] \in Balance /\ balances[t].upTo =< checkpoint
<1>1. Len(chain) \in Nat
  BY Blocks
<1>2. /\ checkpoint \in Row /\ checkpoint \in Int /\ checkpoint =< Len(chain)
      /\ checkpoint >= NoBlock
      /\ First(checkpoint) \in Nat /\ 1 =< First(checkpoint) /\ checkpoint < First(checkpoint)
  BY <1>1 DEF StoreOK, Row, NoBlock, First
<1>3. ASSUME NEW t \in Tenant
      PROVE  balances[t] \in Balance /\ balances[t].upTo =< checkpoint
  <2>1. balances[t] \in Balance
    BY DEF StoreOK, Known
  <2>2. balances[t].upTo \in Int /\ balances[t].asOf \in Int
    BY <2>1, BalanceFields
  <2> QED
    BY <1>2, <2>1, <2>2 DEF StoreOK, BalanceOK
<1> QED
  BY <1>2, <1>3

LEMMA StoreKept ==
  ASSUME ChainOK, StoreOK, Grown, UNCHANGED storeVars
  PROVE  StoreOK' /\ Later
<1>1. Len(chain) \in Nat /\ DOMAIN chain = 1..Len(chain)
  BY Blocks
<1>2. Len(chain') \in Nat /\ DOMAIN chain' = 1..Len(chain') /\ Len(chain) =< Len(chain')
  BY DEF Grown, ChainOK
<1>3. Later
  BY StoreFields DEF Later, storeVars
<1>4. ASSUME NEW t \in Tenant
      PROVE  BalanceOK(t)'
  <2>1. PICK x : x = balances[t]
    OBVIOUS
  <2>2. x \in Balance /\ BalanceOK(t)
    BY <2>1, StoreFields DEF StoreOK
  <2>3. x.upTo \in Int /\ checkpoint + 1 \in Int /\ checkpoint + 1 =< Len(chain) + 1
    BY <1>1, <2>2, BalanceFields, StoreFields
  <2>4. Quiet(t, x.upTo, checkpoint + 1)
    BY <2>1, <2>2 DEF BalanceOK, NoGap
  <2>5. PICK c : c = checkpoint + 1
    OBVIOUS
  <2>6. Quiet(t, x.upTo, c)'
    BY <2>3, <2>4, <2>5, QuietStays
  <2>7. x # Unseen => Held(t, x.wei, x.upTo)'
    BY <2>1, <2>2, HeldStays DEF BalanceOK
  <2> QED
    BY <2>1, <2>2, <2>5, <2>6, <2>7 DEF BalanceOK, NoGap, storeVars, Quiet, Held
<1>5. entries' \subseteq DOMAIN chain'
  BY <1>1, <1>2 DEF StoreOK, storeVars
<1>6. ASSUME NEW b \in DOMAIN chain', ~chain'[b].silent, b =< checkpoint'
      PROVE  b \in entries'
  <2>1. b \in Nat /\ checkpoint' = checkpoint /\ checkpoint \in Int /\ checkpoint =< Len(chain)
    BY <1>2, StoreFields DEF storeVars
  <2>2. b \in DOMAIN chain /\ chain'[b] = chain[b]
    BY <1>1, <1>6, <2>1 DEF Grown
  <2> QED
    BY <1>6, <2>1, <2>2 DEF StoreOK, storeVars
<1>7. balances' \in Known /\ (checkpoint' = NoBlock \/ checkpoint' \in 1..Len(chain'))
  BY <1>1, <1>2 DEF StoreOK, storeVars
<1> QED
  BY <1>3, <1>4, <1>5, <1>6, <1>7 DEF StoreOK

LEMMA JobsKept ==
  ASSUME ChainOK, JobsOK, Grown, Later, UNCHANGED job
  PROVE  JobsOK'
<1>1. ASSUME NEW x \in Replica
      PROVE  JobOK(job[x])'
  <2>1. PICK k : k = job[x]
    OBVIOUS
  <2>2. JobOK(k)
    BY <2>1 DEF JobsOK
  <2>3. JobOK(k)'
    BY <2>2, JobKept
  <2> QED
    BY <2>1, <2>3 DEF JobOK, KnownOK, ReadOK, Held, Quiet
<1> QED
  BY <1>1 DEF JobsOK

\* One replica goes on to the job j.
LEMMA JobStep ==
  ASSUME ChainOK, JobsOK, Grown, Later, NEW p \in Replica, NEW j, Do(p, j), JobOK(j)'
  PROVE  JobsOK'
<1>1. job' = [job EXCEPT ![p] = j] /\ job \in [Replica -> Job] /\ j \in Job
  BY DEF Do, JobsOK, JobOK
<1>2. job' \in [Replica -> Job] /\ job'[p] = j /\ \A x \in Replica \ {p} : job'[x] = job[x]
  BY <1>1
<1>3. JobOK(job[p])'
  BY <1>2 DEF JobOK, KnownOK, ReadOK, Held, Quiet
<1>4. ASSUME NEW x \in Replica \ {p}
      PROVE  JobOK(job[x])'
  <2>1. PICK k : k = job[x]
    OBVIOUS
  <2>2. JobOK(k) /\ k = job'[x]
    BY <1>2, <2>1 DEF JobsOK
  <2>3. JobOK(k)'
    BY <2>2, JobKept
  <2> QED
    BY <2>2, <2>3 DEF JobOK, KnownOK, ReadOK, Held, Quiet
<1> QED
  BY <1>2, <1>3, <1>4 DEF JobsOK

----------------------------------------------------------------------------
(* The steps up to the balances *)

LEMMA AlertsKept ==
  ASSUME AlertsOK, ChainOK, Grown, UNCHANGED <<leader, alertVars>>, failed' \subseteq Fault
  PROVE  AlertsOK'
<1>1. DOMAIN chain \subseteq DOMAIN chain'
  BY DEF Grown
<1> QED
  BY <1>1 DEF AlertsOK, alertVars

LEMMA FailsTyped ==
  ASSUME AlertsOK, NEW kind, Fails(kind)
  PROVE  failed' \subseteq Fault
BY DEF Fails, AlertsOK

\* One replica goes on to the job j, and no more changes.
LEMMA PassStep ==
  ASSUME LInv, UNCHANGED <<chain, storeVars>>, NEW p \in Replica, NEW j, Do(p, j), JobOK(j),
         AlertsOK'
  PROVE  LInv'
<1>1. ChainOK /\ StoreOK /\ JobsOK
  BY DEF LInv
<1>2. Grown
  BY <1>1, Unchanged
<1>3. StoreOK' /\ Later
  BY <1>1, <1>2, StoreKept
<1>4. JobOK(j)'
  BY <1>1, <1>2, <1>3, JobKept
<1>5. JobsOK'
  BY <1>1, <1>2, <1>3, <1>4, JobStep
<1> QED
  BY <1>2, <1>3, <1>5 DEF LInv, Grown

LEMMA LedgerMine ==
  ASSUME LInv, NEW t \in Tenant, NEW d, NEW s, Mine(t, d, s),
         (d \in Delta /\ s = FALSE) \/ (d \in Loss /\ s = TRUE)
  PROVE  LInv'
<1>1. ChainOK /\ StoreOK /\ JobsOK /\ AlertsOK
  BY DEF LInv
<1>2. PICK e : e = [tenant |-> t, delta |-> d, silent |-> s]
  OBVIOUS
<1>3. d \in Int /\ s \in BOOLEAN /\ (s => d < 0)
  BY LedgerAssumption
<1>4. e \in Block /\ (e.silent => e.delta < 0)
  BY <1>2, <1>3 DEF Block
<1>5. chain' = Append(chain, e) /\ UNCHANGED <<storeVars, job, leader, alertVars, failed>>
  BY <1>2 DEF Mine
<1>6. Grown
  BY <1>1, <1>4, <1>5, Appended
<1>7. StoreOK' /\ Later
  BY <1>1, <1>5, <1>6, StoreKept
<1>8. JobsOK'
  BY <1>1, <1>5, <1>6, <1>7, JobsKept
<1>9. AlertsOK'
  BY <1>1, <1>5, <1>6, AlertsKept DEF AlertsOK
<1> QED
  BY <1>6, <1>7, <1>8, <1>9 DEF LInv, Grown

LEMMA IdleOK ==
  JobOK(Idle)
BY DEF JobOK, Job, Idle

LEMMA LedgerReadHead ==
  ASSUME LInv, NEW p \in Replica, ReadHead(p)
  PROVE  LInv'
<1>1. PICK j : j = [step |-> "head", head |-> Len(chain)]
  OBVIOUS
<1>2. Len(chain) \in Nat
  BY Blocks DEF LInv
<1>3. JobOK(j)
  BY <1>1, <1>2 DEF JobOK, Job
<1>4. AlertsOK'
  BY Unchanged, AlertsKept DEF ReadHead, LInv, AlertsOK
<1> QED
  BY <1>1, <1>3, <1>4, PassStep DEF ReadHead

LEMMA LedgerReadCheckpoint ==
  ASSUME LInv, FirstScanReachesBack, NEW p \in Replica, ReadCheckpoint(p)
  PROVE  LInv'
<1>1. PICK k : k = job[p]
  OBVIOUS
<1>2. JobOK(k) /\ k \in Job /\ k.step = "head"
  BY <1>1 DEF ReadCheckpoint, LInv, JobsOK, JobOK
<1>3. PICK h : h = k.head
  OBVIOUS
<1>4. h \in Nat /\ Len(chain) \in Nat /\ h =< Len(chain)
  BY <1>2, <1>3, JobFields, Blocks DEF JobOK, LInv
<1>5. checkpoint \in Row /\ checkpoint \in Int
  BY StoreFields DEF LInv
<1>6. PICK from : from = IF checkpoint = NoBlock THEN AtLeast(1, h - InitialLookback)
                         ELSE checkpoint + 1
  OBVIOUS
<1>7. from = First(checkpoint) /\ from \in Nat /\ 1 =< from
  <2>1. CASE checkpoint = NoBlock
    <3>1. h - InitialLookback =< 1
      BY <1>4, <2>1, LedgerAssumption DEF FirstScanReachesBack
    <3>2. AtLeast(1, h - InitialLookback) = 1
      BY <1>4, <3>1, LedgerAssumption DEF AtLeast
    <3> QED
      BY <1>6, <2>1, <3>2 DEF First
  <2>2. CASE checkpoint # NoBlock
    BY <1>5, <1>6, <2>2, FirstBlock DEF First
  <2> QED
    BY <2>1, <2>2
<1>8. PICK to : to = AtMost(h, from + MaxBlockRange - 1)
  OBVIOUS
<1>9. to \in Int /\ to =< h /\ (from =< h => from =< to)
  <2>1. from + MaxBlockRange - 1 \in Int /\ from =< from + MaxBlockRange - 1
    BY <1>7, LedgerAssumption
  <2>2. PICK n \in Int : n = from + MaxBlockRange - 1
    BY <2>1
  <2> QED
    BY <1>4, <1>7, <1>8, <2>1, <2>2 DEF AtMost
<1>10. PICK w : w = [step |-> "window", head |-> h, from |-> from, to |-> to, after |-> checkpoint]
  OBVIOUS
<1>11. Do(p, IF from > h THEN Idle ELSE w) /\ UNCHANGED <<chain, storeVars>>
  BY <1>1, <1>3, <1>6, <1>8, <1>10 DEF ReadCheckpoint
<1>12. ASSUME ~(from > h)
       PROVE  JobOK(w)
  <2>1. from =< h /\ from =< to /\ to \in Nat /\ to =< Len(chain)
    BY <1>4, <1>7, <1>9, <1>12
  <2>2. w \in Job
    BY <1>4, <1>5, <1>7, <1>10, <2>1 DEF Job
  <2> QED
    BY <1>5, <1>7, <1>10, <2>1, <2>2 DEF JobOK
<1>13. JobOK(IF from > h THEN Idle ELSE w)
  BY <1>12, IdleOK
<1>14. AlertsOK'
  BY Unchanged, AlertsKept DEF ReadCheckpoint, LInv, AlertsOK
<1> QED
  BY <1>11, <1>13, <1>14, PassStep

LEMMA ReportedQuiet ==
  ASSUME ChainOK, NEW t, NEW from \in Nat, NEW to \in Int, Reported(t, from, to) = {}
  PROVE  Quiet(t, from - 1, to + 1)
<1> SUFFICES ASSUME NEW b \in DOMAIN chain, from - 1 < b, b < to + 1,
                    chain[b].tenant = t, ~chain[b].silent
             PROVE  FALSE
  BY DEF Quiet
<1>1. b \in Nat
  BY Blocks
<1>2. b \in from..to
  BY <1>1
<1> QED
  BY <1>2 DEF Reported, Moves

LEMMA LedgerReadBalances ==
  ASSUME LInv, NEW p \in Replica, ReadBalances(p)
  PROVE  LInv'
<1>1. PICK k : k = job[p]
  OBVIOUS
<1>2. JobOK(k) /\ k \in Job /\ k.step = "window" /\ ChainOK /\ StoreOK
  BY <1>1 DEF ReadBalances, LInv, JobsOK, JobOK
<1>3. /\ k.from \in Nat /\ k.to \in Nat /\ k.after \in Row
      /\ k.from = First(k.after) /\ k.after =< checkpoint
      /\ 1 =< k.from /\ k.from =< k.to /\ k.to =< Len(chain)
  BY <1>2, JobFields DEF JobOK
<1>4. PICK todo : todo = Keys(k, balances)
  OBVIOUS
<1>5. PICK j : j = [step |-> "compare", from |-> k.from, to |-> k.to,
                    known |-> balances, raced |-> checkpoint # k.after, todo |-> todo,
                    reconciled |-> [t \in Tenant |-> Unread]]
  OBVIOUS
<1>6. Do(p, j) /\ UNCHANGED <<chain, storeVars>>
  BY <1>1, <1>4, <1>5 DEF ReadBalances
<1>7. todo \subseteq Tenant /\ \A t \in Tenant \ todo : Reported(t, k.from, k.to) = {}
  BY <1>4 DEF Keys
<1>8. j \in Job
  <2>1. balances \in Known
    BY <1>2 DEF StoreOK
  <2>2. [t \in Tenant |-> Unread] \in [Tenant -> Reading]
    BY DEF Reading
  <2> QED
    BY <1>3, <1>5, <1>7, <2>1, <2>2 DEF Job
<1>9. checkpoint \in Row
  BY <1>2, StoreFields
<1>10. k.from =< First(checkpoint)
  BY <1>3, <1>9, FirstBlock DEF NoBlock
<1>11. ASSUME NEW t \in Tenant
       PROVE  KnownOK(j, t)
  <2>1. PICK x : x = balances[t]
    OBVIOUS
  <2>2. x \in Balance /\ x.upTo \in Int /\ x.upTo =< checkpoint /\ BalanceOK(t)
    BY <1>2, <2>1, StoreFields, BalanceFields DEF StoreOK
  <2>3. ASSUME checkpoint = k.after
        PROVE  x.upTo < k.from /\ Quiet(t, x.upTo, k.from)
    <3>1. x.upTo < k.from
      BY <1>3, <1>9, <2>2, <2>3, FirstBlock
    <3>2. \A b \in Nat : 1 =< b /\ b < k.from => b < checkpoint + 1
      BY <1>3, <1>9, <2>3, FirstBlock DEF NoBlock
    <3> QED
      BY <1>2, <2>1, <2>2, <3>1, <3>2, Blocks DEF BalanceOK, NoGap, Quiet
  <2>4. j.known[t] = x /\ j.from = k.from /\ j.raced = (checkpoint # k.after)
    BY <1>5, <2>1
  <2>5. x # Unseen => Held(t, x.wei, x.upTo)
    BY <2>1, <2>2 DEF BalanceOK
  <2> QED
    BY <2>3, <2>4, <2>5 DEF KnownOK
<1>12. ASSUME NEW t \in Tenant
       PROVE  ReadOK(j, t)
  <2>1. j.reconciled[t] = Unread /\ j.todo = todo /\ j.from = k.from /\ j.to = k.to
    BY <1>5
  <2>2. t \notin todo => Quiet(t, k.from - 1, k.to + 1)
    BY <1>2, <1>3, <1>7, ReportedQuiet
  <2> QED
    BY <2>1, <2>2 DEF ReadOK
<1>13. JobOK(j)
  <2>1. j.step = "compare" /\ j.from = k.from /\ j.to = k.to
    BY <1>5
  <2> QED
    BY <1>3, <1>8, <1>10, <1>11, <1>12, <2>1 DEF JobOK
<1>14. AlertsOK'
  BY Unchanged, AlertsKept DEF ReadBalances, LInv, AlertsOK
<1> QED
  BY <1>6, <1>13, <1>14, PassStep

----------------------------------------------------------------------------
(* The comparison *)

LEMMA MaxIsOne ==
  ASSUME NEW S, IsFiniteSet(S), S # {}, S \subseteq Int
  PROVE  Max(S) \in S /\ \A y \in S : y =< Max(S)
<1>1. PICK x \in S : \A y \in S : y =< x
  BY MaxExists
<1>2. \A y \in S : x >= y
  <2>1. x \in Int /\ \A y \in S : y \in Int
    OBVIOUS
  <2> QED
    BY <1>1, <2>1
<1>3. Max(S) \in S /\ \A y \in S : Max(S) >= y
  BY <1>2 DEF Max
<1>4. ASSUME NEW y \in S PROVE y =< Max(S)
  <2>1. y \in Int /\ Max(S) \in Int
    BY <1>3
  <2> QED
    BY <1>3, <2>1
<1> QED
  BY <1>3, <1>4

\* What a pass reads is what storage held within its window, after the last
\* event of it; or it reads nothing, of a tenant without an event.
ReadRight(t, from, to, x) ==
    /\ x \in Reading
    /\ x # Unread => /\ from =< x.upTo /\ x.upTo =< to /\ Held(t, x.wei, x.upTo)
                     /\ Quiet(t, x.upTo, to + 1)
    /\ x = Unread => Quiet(t, from - 1, to + 1)

LEMMA HeldInt ==
  ASSUME ChainOK, NEW t, NEW n \in 1..Len(chain)
  PROVE  BalanceAt(t, n) \in Int
<1>1. n \in Nat /\ n =< Len(chain) /\ Len(chain) \in Nat /\ n =< n
  BY Blocks
<1> QED
  BY <1>1, Splits

LEMMA ReadAt ==
  ASSUME ChainOK, NEW t, NEW from \in Nat, NEW to \in Nat, NEW n \in Nat,
         1 =< from, from =< n, n =< to, to =< Len(chain), Quiet(t, n, to + 1)
  PROVE  ReadRight(t, from, to, [wei |-> BalanceAt(t, n), upTo |-> n])
<1>1. n \in 1..Len(chain)
  BY Blocks
<1>2. PICK x : x = [wei |-> BalanceAt(t, n), upTo |-> n]
  OBVIOUS
<1>3. x.wei = BalanceAt(t, n) /\ x.upTo = n /\ x \in Reading
  BY <1>1, <1>2, HeldInt DEF Reading
<1>4. x # Unread
  BY <1>3 DEF Unread, NoBlock
<1>5. ReadRight(t, from, to, x)
  BY <1>1, <1>3, <1>4 DEF ReadRight, Held
<1> QED
  BY <1>2, <1>5

LEMMA ActualRight ==
  ASSUME ChainOK, NEW t, NEW j \in Job, j.step = "compare",
         1 =< j.from, j.from =< j.to, j.to =< Len(chain),
         NEW readable \in BOOLEAN
  PROVE  ReadRight(t, j.from, j.to, ActualBalance(t, j, readable))
<1>0. PICK from, to : from = j.from /\ to = j.to
  OBVIOUS
<1>1. /\ from \in Nat /\ to \in Nat /\ Len(chain) \in Nat
      /\ 1 =< from /\ from =< to /\ to =< Len(chain)
  BY <1>0, JobFields, Blocks
<1>2. PICK S : S = Reported(t, from, to)
  OBVIOUS
<1>3. CASE readable
  <2>1. ActualBalance(t, j, readable) = [wei |-> BalanceAt(t, to), upTo |-> to]
    BY <1>0, <1>3 DEF ActualBalance
  <2>2. Quiet(t, to, to + 1)
    BY <1>1, Blocks DEF Quiet
  <2>3. to =< to
    BY <1>1
  <2> QED
    BY <1>0, <1>1, <2>1, <2>2, <2>3, ReadAt
<1>4. CASE ~readable /\ S = {}
  <2>1. ActualBalance(t, j, readable) = Unread
    BY <1>0, <1>2, <1>4 DEF ActualBalance
  <2>2. Quiet(t, from - 1, to + 1)
    <3>1. Reported(t, from, to) = {} /\ to \in Int
      BY <1>1, <1>2, <1>4
    <3> QED
      BY <1>1, <3>1, ReportedQuiet, Zenon
  <2> QED
    BY <1>0, <2>1, <2>2 DEF ReadRight, Reading
<1>5. CASE ~readable /\ S # {}
  <2>1. IsFiniteSet(S) /\ S \subseteq Int /\ S \subseteq from..to
    <3>1. S \subseteq from..to
      BY <1>2 DEF Reported, Moves
    <3>2. IsFiniteSet(from..to) /\ from..to \subseteq Int
      BY <1>1, FS_Interval
    <3> QED
      BY <3>1, <3>2, FS_Subset
  <2>2. PICK n : n = Max(S)
    OBVIOUS
  <2>3. n \in S /\ \A y \in S : y =< n
    BY <1>5, <2>1, <2>2, MaxIsOne
  <2>4. n \in Nat /\ from =< n /\ n =< to
    BY <1>1, <2>1, <2>3
  <2>5. Quiet(t, n, to + 1)
    <3> SUFFICES ASSUME NEW b \in DOMAIN chain, n < b, b < to + 1,
                        chain[b].tenant = t, ~chain[b].silent
                 PROVE  FALSE
      BY DEF Quiet
    <3>1. b \in Nat
      BY Blocks
    <3>2. b \in S
      BY <1>1, <1>2, <2>4, <3>1 DEF Reported, Moves
    <3> QED
      BY <2>3, <2>4, <3>1, <3>2
  <2>6. ActualBalance(t, j, readable) = [wei |-> BalanceAt(t, n), upTo |-> n]
    BY <1>0, <1>2, <1>5, <2>2 DEF ActualBalance
  <2> QED
    BY <1>0, <1>1, <2>4, <2>5, <2>6, ReadAt
<1> QED
  BY <1>3, <1>4, <1>5

\* A pass that nobody raced finds a drift just when something moved silently.
LEMMA DriftIsSilence ==
  ASSUME ChainOK, NEW t \in Tenant, NEW j \in Job, j.step = "compare",
         1 =< j.from, j.from =< j.to, j.to =< Len(chain),
         KnownOK(j, t), ~j.raced, j.known[t] # Unseen,
         NEW x, ReadRight(t, j.from, j.to, x), x # Unread
  PROVE  Expected(t, j) = x.wei <=> SilentSince(t, j, x.upTo) = {}
<1>1. j.from \in Nat /\ j.to \in Nat /\ j.known[t] \in Balance
  BY JobFields DEF Known
<1>2. PICK a : a = j.known[t].upTo
  OBVIOUS
<1>3. /\ a \in Nat /\ a < j.from /\ Quiet(t, a, j.from)
      /\ j.known[t].wei = BalanceAt(t, a)
  BY <1>1, <1>2, BalanceFields DEF KnownOK, Held
<1>4. PICK c : c = x.upTo
  OBVIOUS
<1>5. /\ c \in Nat /\ j.from =< c /\ c =< j.to /\ Quiet(t, c, j.to + 1)
      /\ x.wei = BalanceAt(t, c)
  BY <1>4, ReadingFields DEF ReadRight, Held
<1> DEFINE E == SumOver(Deltas, Reported(t, j.from, j.to))
           S == Silent(t, a, c)
<1>6. /\ E \in Int
      /\ BalanceAt(t, c) = BalanceAt(t, a) + E + SumOver(Deltas, S)
      /\ S = {} => SumOver(Deltas, S) = 0
      /\ S # {} => SumOver(Deltas, S) \in Int /\ SumOver(Deltas, S) < 0
  BY <1>1, <1>3, <1>5, Explained
<1>7. SilentSince(t, j, x.upTo) = S
  BY <1>2, <1>4 DEF SilentSince, Silent
<1>8. Expected(t, j) = BalanceAt(t, a) + E
  BY <1>3 DEF Expected, Deltas
<1>9. BalanceAt(t, a) \in Int
  <2>1. a \in 1..Len(chain)
    BY <1>2 DEF KnownOK, Held
  <2> QED
    BY <2>1, HeldInt
<1> HIDE DEF E, S
<1> QED
  BY <1>5, <1>6, <1>7, <1>8, <1>9

LEMMA LedgerCompare ==
  ASSUME LInv, NEW p \in Replica, NEW t \in Tenant, Compare(p, t)
  PROVE  LInv'
<1>1. PICK j : j = job[p]
  OBVIOUS
<1>2. JobOK(j) /\ j \in Job /\ j.step = "compare" /\ t \in j.todo /\ ChainOK
  BY <1>1 DEF Compare, LInv, JobsOK, JobOK
<1>3. /\ j.from \in Nat /\ j.to \in Nat /\ j.todo \in SUBSET Tenant
      /\ j.known \in Known /\ j.raced \in BOOLEAN /\ j.reconciled \in [Tenant -> Reading]
      /\ 1 =< j.from /\ j.from =< j.to /\ j.to =< Len(chain) /\ j.from =< First(checkpoint)
      /\ \A u \in Tenant : KnownOK(j, u) /\ ReadOK(j, u)
  BY <1>2, JobFields DEF JobOK
<1>4. PICK readable \in BOOLEAN :
        LET actual == ActualBalance(t, j, readable)
            isNew == j.known[t] = Unseen
            drifts == ~isNew /\ actual # Unread /\ Expected(t, j) # actual.wei
            silent == SilentSince(t, j, actual.upTo)
        IN  /\ IF readable THEN UNCHANGED failed ELSE Fails("balance unreadable")
            /\ Do(p, [j EXCEPT !.todo = @ \ {t}, !.reconciled[t] = actual])
            /\ absorbed' = IF isNew THEN absorbed \cup silent ELSE absorbed
            /\ masked' = IF ~isNew /\ ~drifts /\ j.raced THEN masked \cup silent ELSE masked
            /\ IF drifts
               THEN /\ noticed' = noticed \cup silent
                    /\ paged' = IF leader = p THEN paged \cup silent ELSE paged
                    /\ falseAlarm' = IF silent = {} THEN falseAlarm \cup {j.raced} ELSE falseAlarm
               ELSE UNCHANGED <<noticed, paged, falseAlarm>>
  BY <1>1 DEF Compare
<1>5. PICK x : x = ActualBalance(t, j, readable)
  OBVIOUS
<1>6. ReadRight(t, j.from, j.to, x)
  BY <1>2, <1>3, <1>5, ActualRight
<1>7. PICK k : k = [j EXCEPT !.todo = @ \ {t}, !.reconciled[t] = x]
  OBVIOUS
<1>8. /\ k.step = "compare" /\ k.from = j.from /\ k.to = j.to /\ k.known = j.known
      /\ k.raced = j.raced /\ k.todo = j.todo \ {t}
      /\ k.reconciled = [j.reconciled EXCEPT ![t] = x]
      /\ k = [step |-> "compare", from |-> k.from, to |-> k.to, known |-> k.known,
              raced |-> k.raced, todo |-> k.todo, reconciled |-> k.reconciled]
  BY <1>2, <1>7, JobFields
<1>9. k \in Job
  <2>1. k.reconciled \in [Tenant -> Reading]
    BY <1>3, <1>6, <1>8 DEF ReadRight
  <2> QED
    BY <1>3, <1>8, <2>1 DEF Job
<1>10. ASSUME NEW u \in Tenant
       PROVE  KnownOK(k, u) /\ ReadOK(k, u)
  <2>1. KnownOK(k, u)
    BY <1>3, <1>8 DEF KnownOK
  <2>2. CASE u = t
    <3>1. k.reconciled[u] = x
      BY <1>3, <1>8, <2>2
    <3> QED
      BY <1>6, <1>8, <2>1, <2>2, <3>1 DEF ReadRight, ReadOK
  <2>3. CASE u # t
    <3>1. k.reconciled[u] = j.reconciled[u] /\ (u \in k.todo <=> u \in j.todo)
      BY <1>3, <1>8, <2>3
    <3> QED
      BY <1>3, <1>8, <2>1, <3>1 DEF ReadOK
  <2> QED
    BY <2>2, <2>3
<1>11. JobOK(k)
  BY <1>3, <1>8, <1>9, <1>10 DEF JobOK
<1>12. PICK silent : silent = SilentSince(t, j, x.upTo)
  OBVIOUS
<1>13. silent \subseteq DOMAIN chain
  BY <1>12 DEF SilentSince
<1>14. /\ chain' = chain /\ leader' = leader
       /\ absorbed' \in {absorbed, absorbed \cup silent}
       /\ masked' \in {masked, masked \cup silent}
       /\ \/ noticed' = noticed /\ paged' = paged
          \/ noticed' = noticed \cup silent /\ paged' \in {paged, paged \cup silent}
       /\ falseAlarm' # falseAlarm =>
            /\ j.known[t] # Unseen /\ x # Unread /\ Expected(t, j) # x.wei /\ silent = {}
            /\ falseAlarm' = falseAlarm \cup {j.raced}
  <2>1. chain' = chain /\ leader' = leader
    BY DEF Compare
  <2>2. CASE j.known[t] # Unseen /\ x # Unread /\ Expected(t, j) # x.wei
    BY <1>4, <1>5, <1>12, <2>1, <2>2
  <2>3. CASE ~(j.known[t] # Unseen /\ x # Unread /\ Expected(t, j) # x.wei)
    BY <1>4, <1>5, <1>12, <2>1, <2>3
  <2> QED
    BY <2>2, <2>3
<1>15. failed' \subseteq Fault
  BY <1>4, FailsTyped DEF LInv, AlertsOK
<1>16. falseAlarm' \subseteq {TRUE}
  <2>1. CASE falseAlarm' = falseAlarm
    BY <2>1 DEF LInv, AlertsOK
  <2>2. CASE falseAlarm' # falseAlarm
    <3>1. j.raced
      BY <1>2, <1>3, <1>6, <1>12, <1>14, <2>2, DriftIsSilence
    <3> QED
      BY <1>3, <1>14, <2>2, <3>1 DEF LInv, AlertsOK
  <2> QED
    BY <2>1, <2>2
<1>17. AlertsOK'
  <2>1. /\ leader \in Replica /\ noticed \subseteq DOMAIN chain
        /\ absorbed \subseteq DOMAIN chain /\ masked \subseteq DOMAIN chain /\ paged \subseteq noticed
    BY DEF LInv, AlertsOK
  <2> QED
    BY <1>13, <1>14, <1>15, <1>16, <2>1 DEF AlertsOK
<1> QED
  BY <1>4, <1>5, <1>7, <1>11, <1>14, <1>17, PassStep DEF Compare

----------------------------------------------------------------------------
(* The commit *)

\* A balance after the commit of a window: what was read if none is newer.
LEMMA RebasedRight ==
  ASSUME LInv, NEW j, JobOK(j), j.step = "compare", j.todo = {}, NEW t \in Tenant,
         NEW x, x = Rebased(j, t), NEW c \in Row, c = Saved(j.to)
  PROVE  /\ x \in Balance
         /\ x.upTo =< x.asOf /\ x.asOf =< c
         /\ x # Unseen => Held(t, x.wei, x.upTo)
         /\ Quiet(t, x.upTo, c + 1)
<1>1. /\ j \in Job /\ ChainOK /\ StoreOK
  BY DEF LInv, JobOK
<1>2. PICK from, to : from = j.from /\ to = j.to
  OBVIOUS
<1>3. /\ from \in Nat /\ to \in Nat /\ 1 =< from /\ from =< to /\ to =< Len(chain)
      /\ from =< First(checkpoint)
      /\ j.reconciled \in [Tenant -> Reading] /\ ReadOK(j, t)
  BY <1>1, <1>2, JobFields DEF JobOK
<1>4. PICK d \in Row : d = checkpoint
  BY <1>1, StoreFields
<1>5. c \in Int /\ d \in Int /\ (c = to \/ c = d) /\ to =< c /\ d =< c
  BY <1>2, <1>3, <1>4, FirstBlock DEF Saved, AtLeast
<1>6. \A b \in DOMAIN chain : b \in Nat
  BY <1>1, Blocks
<1>7. PICK y : y = balances[t]
  OBVIOUS
<1>8. y \in Balance /\ y.upTo \in Int /\ y.asOf \in Int /\ BalanceOK(t)
  BY <1>1, <1>7, StoreFields, BalanceFields DEF StoreOK
<1>9. /\ y.upTo =< y.asOf /\ y.asOf =< d /\ (y # Unseen => Held(t, y.wei, y.upTo))
      /\ Quiet(t, y.upTo, d + 1)
  BY <1>4, <1>7, <1>8 DEF BalanceOK, NoGap
<1>10. PICK r : r = j.reconciled[t]
  OBVIOUS
<1>11. /\ r \in Reading /\ r.upTo \in Int
       /\ r # Unread => r.upTo \in Nat /\ r.wei \in Int /\ r.upTo =< to /\ Held(t, r.wei, r.upTo)
                        /\ Quiet(t, r.upTo, to + 1)
       /\ r = Unread => Quiet(t, from - 1, to + 1)
  BY <1>2, <1>3, <1>10, ReadingFields DEF ReadOK
<1>12. CASE r # Unread /\ y.asOf =< to
  <2>1. x = [wei |-> r.wei, asOf |-> to, upTo |-> r.upTo]
    BY <1>2, <1>7, <1>10, <1>12 DEF Rebased, NotOlder
  <2>2. x.wei = r.wei /\ x.asOf = to /\ x.upTo = r.upTo
    BY <2>1
  <2>3. x \in Balance
    BY <1>3, <1>11, <1>12, <2>1 DEF Balance
  <2>4. Quiet(t, r.upTo, c + 1)
    <3> SUFFICES ASSUME NEW b \in DOMAIN chain, r.upTo < b, b < c + 1,
                        chain[b].tenant = t, ~chain[b].silent
                 PROVE  FALSE
      BY DEF Quiet
    <3>1. b \in Nat
      BY <1>6
    <3>2. ~(b < to + 1)
      BY <1>11, <1>12 DEF Quiet
    <3>3. to < b /\ c = d
      BY <1>3, <1>5, <3>1, <3>2
    <3>4. y.upTo < b /\ b < d + 1
      BY <1>3, <1>5, <1>8, <1>9, <1>12, <3>1, <3>3
    <3> QED
      BY <1>9, <3>4 DEF Quiet
  <2> QED
    BY <1>5, <1>11, <1>12, <2>2, <2>3, <2>4
<1>13. CASE r = Unread \/ ~(y.asOf =< to)
  <2>1. x = y
    BY <1>2, <1>7, <1>10, <1>13 DEF Rebased, NotOlder
  <2>2. Quiet(t, y.upTo, c + 1)
    <3> SUFFICES ASSUME NEW b \in DOMAIN chain, y.upTo < b, b < c + 1,
                        chain[b].tenant = t, ~chain[b].silent
                 PROVE  FALSE
      BY DEF Quiet
    <3>1. b \in Nat
      BY <1>6
    <3>2. ~(b < d + 1)
      BY <1>9 DEF Quiet
    <3>3. c = to /\ d < b /\ b < to + 1
      BY <1>3, <1>5, <3>1, <3>2
    <3>4. r = Unread
      BY <1>3, <1>5, <1>8, <1>9, <1>13, <3>3
    <3>5. from - 1 < b
      <4>1. d < First(d) /\ First(d) \in Nat /\ First(d) = IF d = NoBlock THEN 1 ELSE d + 1
        BY <1>4, FirstBlock
      <4>2. 1 =< b
        BY <1>1, Blocks
      <4>3. First(d) =< b
        BY <1>5, <3>1, <3>3, <4>1, <4>2
      <4> QED
        BY <1>3, <1>4, <3>1, <4>1, <4>3
    <3> QED
      BY <1>11, <3>3, <3>4, <3>5 DEF Quiet
  <2>3. y.asOf =< c
    BY <1>5, <1>8, <1>9
  <2> QED
    BY <1>8, <1>9, <2>1, <2>2, <2>3
<1> QED
  BY <1>12, <1>13

LEMMA LedgerCommit ==
  ASSUME LInv, NEW p \in Replica, CommitWindow(p)
  PROVE  LInv'
<1>1. PICK j : j = job[p]
  OBVIOUS
<1>2. JobOK(j) /\ j \in Job /\ j.step = "compare" /\ j.todo = {} /\ ChainOK /\ StoreOK /\ JobsOK
  BY <1>1 DEF CommitWindow, LInv, JobsOK, JobOK
<1>3. PICK from, to : from = j.from /\ to = j.to
  OBVIOUS
<1>4. /\ from \in Nat /\ to \in Nat /\ 1 =< from /\ from =< to /\ to =< Len(chain)
      /\ from =< First(checkpoint) /\ Len(chain) \in Nat /\ DOMAIN chain = 1..Len(chain)
  BY <1>2, <1>3, JobFields, Blocks DEF JobOK
<1>5. PICK d \in Row : d = checkpoint
  BY <1>2, StoreFields
<1>6. PICK c : c = Saved(to)
  OBVIOUS
<1>7. c \in Row /\ c \in Int /\ (c = to \/ c = d) /\ to =< c /\ d =< c
  BY <1>4, <1>5, <1>6, FirstBlock DEF Saved, AtLeast, Row
<1>8. /\ entries' = entries \cup {b \in from..to : ~chain[b].silent}
      /\ balances' = [t \in Tenant |-> Rebased(j, t)]
      /\ checkpoint' = c /\ chain' = chain /\ Do(p, Idle)
      /\ UNCHANGED <<leader, alertVars, failed>>
  BY <1>1, <1>3, <1>6 DEF CommitWindow
<1>9. \A t \in Tenant : BalanceOK(t)' /\ balances'[t] \in Balance
  <2> TAKE t \in Tenant
  <2>1. PICK x : x = Rebased(j, t)
    OBVIOUS
  <2>2. /\ x \in Balance /\ x.upTo =< x.asOf /\ x.asOf =< c
        /\ x # Unseen => Held(t, x.wei, x.upTo)
        /\ Quiet(t, x.upTo, c + 1)
    BY <1>2, <1>3, <1>6, <1>7, <2>1, RebasedRight
  <2>3. balances'[t] = x
    BY <1>8, <2>1
  <2>4. Grown
    BY <1>2, <1>8, Unchanged
  <2>5. x # Unseen => Held(t, x.wei, x.upTo)'
    BY <1>2, <2>2, <2>4, HeldStays
  <2> QED
    BY <1>8, <2>2, <2>3, <2>5 DEF BalanceOK, NoGap, Quiet, Held
<1>10. balances' \in Known
  BY <1>8, <1>9 DEF Known
<1>11. entries' \subseteq DOMAIN chain
  <2>1. from..to \subseteq DOMAIN chain
    BY <1>4
  <2> QED
    BY <1>2, <1>8, <2>1 DEF StoreOK
<1>12. ASSUME NEW b \in DOMAIN chain, ~chain[b].silent, b =< c
       PROVE  b \in entries'
  <2>1. b \in Nat /\ 1 =< b
    BY <1>4
  <2>2. CASE b =< d
    BY <1>2, <1>5, <1>8, <1>12, <2>2 DEF StoreOK
  <2>3. CASE ~(b =< d)
    <3>1. c = to
      BY <1>7, <1>12, <2>1, <2>3
    <3>2. First(d) =< b
      BY <1>7, <2>1, <2>3, FirstBlock DEF NoBlock
    <3>3. b \in from..to
      <4>1. First(d) \in Nat /\ from =< First(d)
        BY <1>4, <1>5, FirstBlock
      <4> QED
        BY <1>4, <1>12, <2>1, <3>1, <3>2, <4>1
    <3> QED
      BY <1>8, <1>12, <3>3
  <2> QED
    BY <2>2, <2>3
<1>13. c \in 1..Len(chain)
  <2>1. d = NoBlock \/ d =< Len(chain)
    BY <1>2, <1>5, StoreFields
  <2> QED
    BY <1>4, <1>7, <2>1 DEF NoBlock
<1>14. StoreOK'
  BY <1>8, <1>9, <1>10, <1>11, <1>12, <1>13 DEF StoreOK
<1>15. Grown /\ Later
  BY <1>2, <1>5, <1>7, <1>8, Unchanged DEF Later
<1>16. JobOK(Idle)'
  BY DEF JobOK, Job, Idle
<1>17. JobsOK'
  BY <1>2, <1>8, <1>15, <1>16, JobStep
<1>18. AlertsOK'
  BY <1>8, <1>15, AlertsKept DEF LInv, AlertsOK
<1> QED
  BY <1>14, <1>15, <1>17, <1>18 DEF LInv, Grown

LEMMA LedgerAbandon ==
  ASSUME LInv, NEW p \in Replica, Abandon(p)
  PROVE  LInv'
<1>1. AlertsOK'
  BY Unchanged, AlertsKept, FailsTyped DEF Abandon, LInv
<1>2. UNCHANGED <<chain, storeVars>> /\ Do(p, Idle)
  BY DEF Abandon
<1> QED
  BY <1>1, <1>2, IdleOK, PassStep

LEMMA LedgerQuiet ==
  ASSUME LInv, UNCHANGED <<chain, storeVars, job>>, AlertsOK'
  PROVE  LInv'
<1>1. ChainOK /\ StoreOK /\ JobsOK
  BY DEF LInv
<1>2. Grown
  BY <1>1, Unchanged
<1>3. StoreOK' /\ Later
  BY <1>1, <1>2, StoreKept
<1>4. JobsOK'
  BY <1>1, <1>2, <1>3, JobsKept
<1> QED
  BY <1>2, <1>3, <1>4 DEF LInv, Grown

LEMMA LedgerElect ==
  ASSUME LInv, NEW p \in Replica, Elect(p)
  PROVE  LInv'
<1>1. failed' \subseteq Fault
  BY FailsTyped DEF Elect, LInv
<1>2. AlertsOK'
  BY <1>1 DEF Elect, LInv, AlertsOK, alertVars
<1> QED
  BY <1>2, LedgerQuiet DEF Elect

----------------------------------------------------------------------------
(* The ledger is whole, and no drift is made up *)

LEMMA LedgerInit ==
  ASSUME Init
  PROVE  LInv
<1>1. DOMAIN chain = {} /\ chain \in Seq(Block) /\ Len(chain) = 0
  BY DEF Init
<1>2. ChainOK
  BY <1>1 DEF ChainOK
<1>3. \A t \in Tenant : balances[t] = Unseen
  BY DEF Init
<1>4. balances \in Known
  BY DEF Init, Known, Balance
<1>5. \A t \in Tenant : BalanceOK(t)
  BY <1>1, <1>3 DEF Init, BalanceOK, NoGap, Quiet, Unseen, NoBlock
<1>6. StoreOK
  BY <1>1, <1>4, <1>5 DEF Init, StoreOK
<1>7. JobsOK
  BY IdleOK DEF Init, JobsOK, JobOK
<1>8. AlertsOK
  BY DEF Init, AlertsOK
<1> QED
  BY <1>2, <1>6, <1>7, <1>8 DEF LInv

LEMMA LedgerNext ==
  ASSUME LInv, FirstScanReachesBack, [Next]_vars
  PROVE  LInv'
<1>1. ASSUME NEW t \in Tenant, NEW d \in Delta, Mine(t, d, FALSE)
      PROVE  LInv'
  BY <1>1, LedgerMine
<1>2. ASSUME NEW t \in Tenant, NEW d \in Loss, Mine(t, d, TRUE)
      PROVE  LInv'
  BY <1>2, LedgerMine
<1>3. ASSUME NEW p \in Replica, Reconcile(p)
      PROVE  LInv'
  BY <1>3, LedgerReadHead, LedgerReadCheckpoint, LedgerReadBalances, LedgerCompare, LedgerCommit
     DEF Reconcile
<1>4. ASSUME NEW p \in Replica, Abandon(p) \/ Elect(p)
      PROVE  LInv'
  BY <1>4, LedgerAbandon, LedgerElect
<1>5. CASE UNCHANGED vars
  <2>1. AlertsOK'
    BY <1>5 DEF vars, alertVars, LInv, AlertsOK
  <2> QED
    BY <1>5, <2>1, LedgerQuiet DEF vars
<1> QED
  BY <1>1, <1>2, <1>3, <1>4, <1>5 DEF Next

LEMMA LedgerTells ==
  ASSUME LInv
  PROVE  TypeOK /\ LedgerComplete /\ FalseAlarmsRaced
<1>1. /\ chain \in Seq(Block) /\ entries \subseteq DOMAIN chain /\ balances \in Known
      /\ checkpoint \in Row /\ job \in [Replica -> Job]
      /\ \A t \in Tenant : balances[t].asOf =< checkpoint
  BY StoreFields DEF LInv, ChainOK, StoreOK, JobsOK, BalanceOK
<1>2. /\ leader \in Replica /\ failed \subseteq Fault
      /\ noticed \subseteq DOMAIN chain /\ absorbed \subseteq DOMAIN chain
      /\ masked \subseteq DOMAIN chain /\ paged \subseteq noticed
      /\ falseAlarm \subseteq BOOLEAN /\ FALSE \notin falseAlarm
  BY DEF LInv, AlertsOK
<1>3. LedgerComplete
  BY DEF LInv, StoreOK, LedgerComplete
<1> QED
  BY <1>1, <1>2, <1>3 DEF TypeOK, FalseAlarmsRaced

\* The inductive invariant of the replay: balances and what passes know are
\* what storage held, and no event is between a balance and the checkpoint
\* (TenantLedgerReconciler.reconcileChain, PostgresTenantLedgerStore).
THEOREM Replayed == Spec /\ []FirstScanReachesBack => []LInv
<1>1. Init => LInv
  BY LedgerInit
<1>2. LInv /\ FirstScanReachesBack /\ [Next]_vars => LInv'
  BY LedgerNext
<1> QED
  BY <1>1, <1>2, PTL DEF Spec

\* Whatever replicas race, die or read late, the ledger has every event up to
\* its checkpoint, no balance is ahead of it, and a drift that events explain
\* is reported only by a pass that was raced (commitWindow, reconcileChain).
THEOREM LedgerIsWhole ==
  Spec /\ []FirstScanReachesBack => [](TypeOK /\ LedgerComplete /\ FalseAlarmsRaced)
<1>1. LInv => TypeOK /\ LedgerComplete /\ FalseAlarmsRaced
  BY LedgerTells
<1> QED
  BY <1>1, Replayed, PTL

----------------------------------------------------------------------------
(* No drift is passed over but by a pass that is raced *)

\* What was said of the silent movements stays said.
Telling == noticed \subseteq noticed' /\ absorbed \subseteq absorbed' /\ masked \subseteq masked'

LEMMA SaidStays ==
  ASSUME ChainOK, Grown, Telling, NEW t, NEW n \in Int, n =< Len(chain), Said(t, n)
  PROVE  Said(t, n)'
<1> SUFFICES ASSUME NEW b \in DOMAIN chain',
                    chain'[b].tenant = t, chain'[b].silent, b =< n
             PROVE  b \in noticed' \cup absorbed' \cup masked'
  BY DEF Said
<1>1. Len(chain') \in Nat /\ DOMAIN chain' = 1..Len(chain')
  BY DEF Grown, ChainOK
<1>2. b \in Nat /\ Len(chain) \in Nat
  BY <1>1, Blocks
<1>3. b \in DOMAIN chain /\ chain'[b] = chain[b]
  BY <1>2 DEF Grown
<1> QED
  BY <1>3 DEF Said, Telling

\* What a pass knows, and what it has read, is in the chain.
LEMMA JobInChain ==
  ASSUME ChainOK, NEW j, JobOK(j), j.step = "compare", NEW t \in Tenant
  PROVE  /\ j.known[t].upTo \in Int /\ j.known[t].upTo =< Len(chain)
         /\ j.reconciled[t].upTo \in Int /\ j.reconciled[t].upTo =< Len(chain)
<1>1. j \in Job /\ KnownOK(j, t) /\ ReadOK(j, t) /\ Len(chain) \in Nat
  BY Blocks DEF JobOK
<1>2. j.known[t] \in Balance /\ j.reconciled[t] \in Reading
  BY <1>1, JobFields DEF Known
<1>3. j.known[t].upTo \in Int /\ j.known[t].upTo =< Len(chain)
  BY <1>1, <1>2, BalanceFields DEF KnownOK, Held, NoBlock
<1>4. j.reconciled[t].upTo \in Int /\ j.reconciled[t].upTo =< Len(chain)
  BY <1>1, <1>2, ReadingFields DEF ReadOK, Held, NoBlock
<1> QED
  BY <1>3, <1>4

LEMMA JobSaidKept ==
  ASSUME ChainOK, Grown, Telling, NEW j, JobOK(j), JobSaid(j)
  PROVE  JobSaid(j)'
<1> SUFFICES ASSUME j.step = "compare", NEW t \in Tenant
             PROVE  Said(t, j.known[t].upTo)' /\ Said(t, j.reconciled[t].upTo)'
  BY DEF JobSaid
<1>1. PICK a, c : a = j.known[t].upTo /\ c = j.reconciled[t].upTo
  OBVIOUS
<1>2. a \in Int /\ a =< Len(chain) /\ c \in Int /\ c =< Len(chain)
  BY <1>1, JobInChain
<1>3. Said(t, a) /\ Said(t, c)
  BY <1>1 DEF JobSaid
<1>4. Said(t, a)' /\ Said(t, c)'
  BY <1>2, <1>3, SaidStays
<1> QED
  BY <1>1, <1>4

LEMMA BalancesSaid ==
  ASSUME LInv, SaidInv, Grown, Telling, UNCHANGED balances
  PROVE  \A t \in Tenant : Said(t, balances[t].upTo)'
<1> TAKE t \in Tenant
<1>1. PICK n : n = balances[t].upTo
  OBVIOUS
<1>2. n \in Int /\ n =< Len(chain) /\ ChainOK
  <2>1. /\ balances[t] \in Balance /\ balances[t].upTo =< checkpoint
        /\ checkpoint \in Int /\ checkpoint =< Len(chain) /\ Len(chain) \in Nat
    BY StoreFields, Blocks DEF LInv
  <2>2. n \in Int
    BY <1>1, <2>1, BalanceFields
  <2> QED
    BY <1>1, <2>1, <2>2 DEF LInv
<1>3. Said(t, n)
  BY <1>1 DEF SaidInv
<1>4. Said(t, n)'
  BY <1>2, <1>3, SaidStays
<1> QED
  BY <1>1, <1>4 DEF Said

LEMMA SaidQuiet ==
  ASSUME LInv, SaidInv, Grown, Telling, UNCHANGED <<balances, job>>
  PROVE  SaidInv'
<1>1. ASSUME NEW x \in Replica
      PROVE  JobSaid(job[x])'
  <2>1. PICK k : k = job[x]
    OBVIOUS
  <2>2. JobOK(k) /\ JobSaid(k) /\ ChainOK
    BY <2>1 DEF LInv, JobsOK, SaidInv
  <2>3. JobSaid(k)'
    BY <2>2, JobSaidKept
  <2> QED
    BY <2>1, <2>3 DEF JobSaid, Said
<1> QED
  BY <1>1, BalancesSaid DEF SaidInv

\* One replica goes on to the job j.
LEMMA SaidStep ==
  ASSUME LInv, SaidInv, Grown, Telling, NEW p \in Replica, NEW j, Do(p, j), JobSaid(j)',
         \A t \in Tenant : Said(t, balances[t].upTo)'
  PROVE  SaidInv'
<1>1. job'[p] = j /\ \A x \in Replica \ {p} : job'[x] = job[x]
  BY DEF Do, LInv, JobsOK
<1>2. JobSaid(job[p])'
  BY <1>1 DEF JobSaid, Said
<1>3. ASSUME NEW x \in Replica \ {p}
      PROVE  JobSaid(job[x])'
  <2>1. PICK k : k = job[x]
    OBVIOUS
  <2>2. JobOK(k) /\ JobSaid(k) /\ ChainOK /\ k = job'[x]
    BY <1>1, <2>1 DEF LInv, JobsOK, SaidInv
  <2>3. JobSaid(k)'
    BY <2>2, JobSaidKept
  <2> QED
    BY <2>2, <2>3 DEF JobSaid, Said
<1> QED
  BY <1>2, <1>3 DEF SaidInv

\* A replica goes on to a job that is not a comparison.
LEMMA SaidElsewhere ==
  ASSUME LInv, SaidInv, NEW p \in Replica, NEW j, Do(p, j), j.step # "compare",
         UNCHANGED <<chain, balances, noticed, absorbed, masked>>
  PROVE  SaidInv'
<1>1. Grown /\ Telling
  BY Unchanged DEF LInv, Telling
<1>2. JobSaid(j)'
  BY DEF JobSaid
<1> QED
  BY <1>1, <1>2, BalancesSaid, SaidStep

LEMMA SaidReadBalances ==
  ASSUME LInv, SaidInv, NEW p \in Replica, ReadBalances(p)
  PROVE  SaidInv'
<1>1. Grown /\ Telling /\ UNCHANGED <<chain, balances, noticed, absorbed, masked>>
  BY Unchanged DEF ReadBalances, LInv, Telling, storeVars, alertVars
<1>2. PICK j : j = [step |-> "compare", from |-> job[p].from, to |-> job[p].to,
                    known |-> balances, raced |-> checkpoint # job[p].after,
                    todo |-> Keys(job[p], balances),
                    reconciled |-> [t \in Tenant |-> Unread]]
  OBVIOUS
<1>3. Do(p, j)
  BY <1>2 DEF ReadBalances
<1>4. ASSUME NEW t \in Tenant
      PROVE  Said(t, j.known[t].upTo)' /\ Said(t, j.reconciled[t].upTo)'
  <2>1. j.known = balances /\ j.reconciled[t].upTo = NoBlock
    BY <1>2 DEF Unread
  <2>2. PICK n : n = balances[t].upTo
    OBVIOUS
  <2>3. Said(t, n)'
    <3>1. Said(t, n)
      BY <2>2 DEF SaidInv
    <3> QED
      BY <1>1, <3>1 DEF Said
  <2>4. Said(t, NoBlock)'
    <3>1. \A b \in DOMAIN chain : ~(b =< NoBlock)
      BY Blocks DEF LInv, NoBlock
    <3> QED
      BY <1>1, <3>1 DEF Said, NoBlock
  <2> QED
    BY <2>1, <2>2, <2>3, <2>4 DEF NoBlock
<1>5. JobSaid(j)'
  BY <1>4 DEF JobSaid
<1> QED
  BY <1>1, <1>3, <1>5, BalancesSaid, SaidStep

LEMMA SaidCompare ==
  ASSUME LInv, SaidInv, NEW p \in Replica, NEW t \in Tenant, Compare(p, t)
  PROVE  SaidInv'
<1>1. PICK j : j = job[p]
  OBVIOUS
<1>2. /\ JobOK(j) /\ j \in Job /\ j.step = "compare" /\ t \in j.todo /\ ChainOK
      /\ JobSaid(j)
  BY <1>1 DEF Compare, LInv, JobsOK, JobOK, SaidInv
<1>3. /\ j.reconciled \in [Tenant -> Reading]
      /\ 1 =< j.from /\ j.from =< j.to /\ j.to =< Len(chain) /\ KnownOK(j, t)
  BY <1>2, JobFields DEF JobOK
<1>4. PICK readable \in BOOLEAN :
        LET actual == ActualBalance(t, j, readable)
            isNew == j.known[t] = Unseen
            drifts == ~isNew /\ actual # Unread /\ Expected(t, j) # actual.wei
            silent == SilentSince(t, j, actual.upTo)
        IN  /\ Do(p, [j EXCEPT !.todo = @ \ {t}, !.reconciled[t] = actual])
            /\ absorbed' = IF isNew THEN absorbed \cup silent ELSE absorbed
            /\ masked' = IF ~isNew /\ ~drifts /\ j.raced THEN masked \cup silent ELSE masked
            /\ IF drifts THEN noticed' = noticed \cup silent ELSE noticed' = noticed
  BY <1>1 DEF Compare
<1>5. PICK x : x = ActualBalance(t, j, readable)
  OBVIOUS
<1>6. ReadRight(t, j.from, j.to, x)
  BY <1>2, <1>3, <1>5, ActualRight
<1>7. PICK k : k = [j EXCEPT !.todo = @ \ {t}, !.reconciled[t] = x]
  OBVIOUS
<1>8. /\ k.step = "compare" /\ k.known = j.known
      /\ k.reconciled = [j.reconciled EXCEPT ![t] = x]
  BY <1>2, <1>7, JobFields
<1>9. PICK silent : silent = SilentSince(t, j, x.upTo)
  OBVIOUS
<1>10. Telling /\ chain' = chain /\ UNCHANGED balances
  BY <1>4 DEF Telling, Compare, storeVars
<1>11. Grown
  BY <1>2, <1>10, Unchanged
<1>12. silent \subseteq noticed' \cup absorbed' \cup masked'
  <2>1. CASE j.known[t] = Unseen
    BY <1>4, <1>5, <1>9, <2>1
  <2>2. CASE x = Unread
    <3>1. \A b \in DOMAIN chain : ~(b =< x.upTo)
      BY <1>2, <2>2, Blocks DEF Unread, NoBlock
    <3> QED
      BY <1>9, <3>1 DEF SilentSince
  <2>3. CASE j.known[t] # Unseen /\ x # Unread
    <3>1. CASE Expected(t, j) = x.wei
      <4>1. CASE j.raced
        BY <1>4, <1>5, <1>9, <2>3, <3>1, <4>1
      <4>2. CASE ~j.raced
        BY <1>2, <1>3, <1>6, <1>9, <2>3, <3>1, <4>2, DriftIsSilence
      <4> QED
        BY <4>1, <4>2
    <3>2. CASE Expected(t, j) # x.wei
      BY <1>4, <1>5, <1>9, <2>3, <3>2
    <3> QED
      BY <3>1, <3>2
  <2> QED
    BY <2>1, <2>2, <2>3
<1>13. JobSaid(j)'
  BY <1>2, <1>10, <1>11, JobSaidKept
<1>14. PICK n : n = x.upTo
  OBVIOUS
<1>15. Said(t, n)'
  <2> SUFFICES ASSUME NEW b \in DOMAIN chain, chain[b].tenant = t, chain[b].silent, b =< n
               PROVE  b \in noticed' \cup absorbed' \cup masked'
    BY <1>10 DEF Said
  <2>1. CASE b =< j.known[t].upTo
    <3>1. b \in noticed \cup absorbed \cup masked
      BY <1>2, <2>1 DEF JobSaid, Said
    <3> QED
      BY <1>10, <3>1 DEF Telling
  <2>2. CASE ~(b =< j.known[t].upTo)
    <3>1. b \in Nat /\ j.known[t].upTo \in Int
      BY <1>2, Blocks, JobInChain
    <3>2. j.known[t].upTo < b
      BY <2>2, <3>1
    <3>3. b \in silent
      BY <1>9, <1>14, <3>2 DEF SilentSince
    <3> QED
      BY <1>12, <3>3
  <2> QED
    BY <2>1, <2>2
<1>16. JobSaid(k)'
  <2> SUFFICES ASSUME NEW u \in Tenant
               PROVE  Said(u, k.known[u].upTo)' /\ Said(u, k.reconciled[u].upTo)'
    BY DEF JobSaid
  <2>1. Said(u, k.known[u].upTo)' /\ Said(u, j.reconciled[u].upTo)'
    BY <1>2, <1>8, <1>13 DEF JobSaid
  <2>2. u = t => k.reconciled[u].upTo = n
    BY <1>3, <1>8, <1>14
  <2>3. u # t => k.reconciled[u] = j.reconciled[u]
    BY <1>3, <1>8
  <2> QED
    BY <1>15, <2>1, <2>2, <2>3
<1> QED
  BY <1>4, <1>5, <1>7, <1>10, <1>11, <1>16, BalancesSaid, SaidStep

LEMMA SaidCommit ==
  ASSUME LInv, SaidInv, NEW p \in Replica, CommitWindow(p)
  PROVE  SaidInv'
<1>1. PICK j : j = job[p]
  OBVIOUS
<1>2. j.step = "compare" /\ JobSaid(j)
  BY <1>1 DEF CommitWindow, SaidInv
<1>3. Grown /\ Telling /\ Do(p, Idle) /\ UNCHANGED <<chain, noticed, absorbed, masked>>
  BY Unchanged DEF CommitWindow, LInv, Telling, alertVars
<1>4. \A t \in Tenant : Said(t, balances[t].upTo)'
  <2> TAKE t \in Tenant
  <2>1. balances'[t] = Rebased(j, t)
    BY <1>1 DEF CommitWindow
  <2>2. PICK n : n = Rebased(j, t).upTo
    OBVIOUS
  <2>3. n = j.reconciled[t].upTo \/ n = balances[t].upTo
    BY <2>2 DEF Rebased
  <2>4. Said(t, n)
    BY <1>2, <2>3 DEF SaidInv, JobSaid
  <2>5. Said(t, n)'
    BY <1>3, <2>4 DEF Said
  <2> QED
    BY <2>1, <2>2, <2>5 DEF Said
<1>5. JobSaid(Idle)'
  BY DEF JobSaid, Idle
<1> QED
  BY <1>3, <1>4, <1>5, SaidStep

LEMMA SaidNext ==
  ASSUME LInv, SaidInv, [Next]_vars
  PROVE  SaidInv'
<1>1. ASSUME NEW t \in Tenant, NEW d, NEW s, Mine(t, d, s),
             (d \in Delta /\ s = FALSE) \/ (d \in Loss /\ s = TRUE)
      PROVE  SaidInv'
  <2>1. PICK e : e = [tenant |-> t, delta |-> d, silent |-> s]
    OBVIOUS
  <2>2. d \in Int /\ s \in BOOLEAN /\ (s => d < 0)
    BY <1>1, LedgerAssumption
  <2>3. e \in Block /\ (e.silent => e.delta < 0)
    BY <2>1, <2>2 DEF Block
  <2>4. chain' = Append(chain, e) /\ UNCHANGED <<balances, job, noticed, absorbed, masked>>
    BY <1>1, <2>1 DEF Mine, storeVars, alertVars
  <2>5. Grown /\ Telling
    BY <2>3, <2>4, Appended DEF LInv, Telling
  <2> QED
    BY <2>4, <2>5, SaidQuiet
<1>2. ASSUME NEW p \in Replica, ReadHead(p)
      PROVE  SaidInv'
  <2>1. PICK j : j = [step |-> "head", head |-> Len(chain)]
    OBVIOUS
  <2>2. Do(p, j) /\ j.step # "compare" /\ UNCHANGED <<chain, balances, noticed, absorbed, masked>>
    BY <1>2, <2>1 DEF ReadHead, storeVars, alertVars
  <2> QED
    BY <2>2, SaidElsewhere
<1>3. ASSUME NEW p \in Replica, ReadCheckpoint(p)
      PROVE  SaidInv'
  <2>1. PICK j : Do(p, j) /\ j.step # "compare"
    BY <1>3 DEF ReadCheckpoint, Idle
  <2>2. UNCHANGED <<chain, balances, noticed, absorbed, masked>>
    BY <1>3 DEF ReadCheckpoint, storeVars, alertVars
  <2> QED
    BY <2>1, <2>2, SaidElsewhere
<1>4. ASSUME NEW p \in Replica, Abandon(p)
      PROVE  SaidInv'
  <2>1. /\ Do(p, Idle) /\ Idle.step # "compare"
        /\ UNCHANGED <<chain, balances, noticed, absorbed, masked>>
    BY <1>4 DEF Abandon, Idle, storeVars, alertVars
  <2> QED
    BY <2>1, SaidElsewhere
<1>5. ASSUME UNCHANGED <<chain, balances, job, noticed, absorbed, masked>>
      PROVE  SaidInv'
  <2>1. Grown /\ Telling
    BY <1>5, Unchanged DEF LInv, Telling
  <2> QED
    BY <1>5, <2>1, SaidQuiet
<1>6. ASSUME NEW p \in Replica, Elect(p)
      PROVE  SaidInv'
  BY <1>5, <1>6 DEF Elect, storeVars, alertVars
<1>7. CASE UNCHANGED vars
  BY <1>5, <1>7 DEF vars, storeVars, alertVars
<1> QED
  BY <1>1, <1>2, <1>3, <1>4, <1>6, <1>7, SaidReadBalances, SaidCompare, SaidCommit
     DEF Next, Reconcile

\* The books are right whatever replicas do: besides, no pass but one that
\* another replica's commit raced rebases over a movement without an event
\* unsaid (reconcileChain: "A mismatch means money moved without an event").
THEOREM NoLossIsPassedOver ==
  Spec /\ []FirstScanReachesBack => []BooksRight
<1>1. Init => SaidInv
  BY DEF Init, SaidInv, Said, JobSaid, Idle
<1>2. LInv /\ SaidInv /\ [Next]_vars => SaidInv'
  BY SaidNext
<1>3. LInv /\ SaidInv => BooksRight
  <2> SUFFICES ASSUME LInv, SaidInv PROVE BooksRight
    OBVIOUS
  <2>1. SilentMovesAreNoticed
    BY Blocks DEF LInv, SaidInv, Said, SilentMovesAreNoticed
  <2> QED
    BY <2>1, LedgerTells DEF BooksRight
<1> QED
  BY <1>1, <1>2, <1>3, Replayed, PTL DEF Spec

----------------------------------------------------------------------------
(* One replica *)

\* A replica that is alone reads balances as of the checkpoint it read, and
\* masks nothing.
AloneInv ==
    /\ NoneRaced
    /\ masked = {}
    /\ \A p \in Replica : job[p].step = "window" => job[p].after = checkpoint

LEMMA AloneNext ==
  ASSUME \E r : Replica = {r}, LInv, AloneInv, [Next]_vars
  PROVE  AloneInv'
<1>1. PICK r : Replica = {r}
  OBVIOUS
<1>2. PICK j : j = job[r]
  OBVIOUS
<1>3. /\ job \in [{r} -> Job] /\ j \in Job
      /\ j.step = "compare" => ~j.raced
      /\ j.step = "window" => j.after = checkpoint
      /\ masked = {}
  BY <1>1, <1>2 DEF LInv, JobsOK, AloneInv, NoneRaced
<1>4. \A k : Do(r, k) => job'[r] = k
  BY <1>3 DEF Do
<1>5. ASSUME NEW k, job'[r] = k, masked' = masked,
             k.step = "compare" => ~k.raced, k.step = "window" => k.after = checkpoint'
      PROVE  AloneInv'
  BY <1>1, <1>3, <1>5 DEF AloneInv, NoneRaced
<1>6. ASSUME UNCHANGED <<job, checkpoint, masked>>
      PROVE  AloneInv'
  BY <1>6 DEF AloneInv, NoneRaced
<1>7. ASSUME NEW k, Do(r, k), masked' = masked, k.step \notin {"compare", "window"}
      PROVE  AloneInv'
  BY <1>4, <1>5, <1>7
<1>8. ASSUME NEW t \in Tenant, NEW d, NEW s, Mine(t, d, s)
      PROVE  AloneInv'
  BY <1>6, <1>8 DEF Mine, storeVars, alertVars
<1>9. ASSUME ReadHead(r)
      PROVE  AloneInv'
  BY <1>7, <1>9 DEF ReadHead, alertVars
<1>10. ASSUME ReadCheckpoint(r)
       PROVE  AloneInv'
  <2>1. checkpoint' = checkpoint /\ masked' = masked
    BY <1>10 DEF ReadCheckpoint, storeVars, alertVars
  <2>2. PICK k : Do(r, k) /\ (k = Idle \/ (k.step = "window" /\ k.after = checkpoint))
    BY <1>10 DEF ReadCheckpoint
  <2> QED
    BY <1>4, <1>5, <2>1, <2>2 DEF Idle
<1>11. ASSUME ReadBalances(r)
       PROVE  AloneInv'
  <2>1. PICK k : Do(r, k) /\ k.step = "compare" /\ k.raced = (checkpoint # j.after)
    BY <1>2, <1>11 DEF ReadBalances
  <2>2. j.step = "window" /\ masked' = masked
    BY <1>2, <1>11 DEF ReadBalances, alertVars
  <2> QED
    BY <1>3, <1>4, <1>5, <2>1, <2>2
<1>12. ASSUME NEW t \in Tenant, Compare(r, t)
       PROVE  AloneInv'
  <2>1. PICK x : Do(r, [j EXCEPT !.todo = @ \ {t}, !.reconciled[t] = x])
    BY <1>2, <1>12 DEF Compare
  <2>2. PICK k : k = [j EXCEPT !.todo = @ \ {t}, !.reconciled[t] = x]
    OBVIOUS
  <2>3. j.step = "compare"
    BY <1>2, <1>12 DEF Compare
  <2>4. k.step = "compare" /\ k.raced = j.raced
    BY <1>3, <2>2, <2>3, JobFields
  <2>5. masked' = masked
    BY <1>2, <1>3, <1>12, <2>3 DEF Compare
  <2> QED
    BY <1>3, <1>4, <1>5, <2>1, <2>2, <2>3, <2>4, <2>5
<1>13. ASSUME CommitWindow(r) \/ Abandon(r)
       PROVE  AloneInv'
  BY <1>7, <1>13 DEF CommitWindow, Abandon, Idle, alertVars
<1>14. ASSUME Elect(r) \/ UNCHANGED vars
       PROVE  AloneInv'
  BY <1>6, <1>14 DEF Elect, vars, storeVars, alertVars
<1> QED
  BY <1>1, <1>8, <1>9, <1>10, <1>11, <1>12, <1>13, <1>14 DEF Next, Reconcile

\* The books of a service that runs one replica are right, and no loss is
\* masked, for any tenants, movements, windows, deaths and unreadable balances.
THEOREM AloneBooksAreRight ==
  ASSUME \E r : Replica = {r}
  PROVE  Spec /\ []FirstScanReachesBack => [](BooksRight /\ masked = {})
<1>1. Init => AloneInv
  BY DEF Init, AloneInv, NoneRaced, Idle
<1>2. LInv /\ AloneInv /\ [Next]_vars => AloneInv'
  BY AloneNext
<1>3. AloneInv => masked = {}
  BY DEF AloneInv, NoneRaced
<1>4. Spec /\ []FirstScanReachesBack => [](masked = {})
  BY <1>1, <1>2, <1>3, Replayed, PTL DEF Spec
<1> QED
  BY <1>4, NoLossIsPassedOver, PTL
=============================================================================
