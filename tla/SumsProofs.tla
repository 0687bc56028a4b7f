---------------------------- MODULE SumsProofs ----------------------------
(***************************************************************************)
(* Lemmas about SumOver.  All of them are proved by taking a set that is   *)
(* minimal, for strict inclusion among the subsets of S, in the set of     *)
(* counterexamples.                                                        *)
(***************************************************************************)
EXTENDS Sums, FiniteSetTheorems, TLAPS

\* g is the recursive function SumOver unfolds, defined on the subsets of S.
IsSum(g, f, S) ==
    g = [T \in SUBSET S |->
            IF T = {} THEN 0 ELSE f[Pick(T)] + g[T \ {Pick(T)}]]

\* A nonempty set of subsets of a finite set has a member none of whose
\* strict subsets is in it.
LEMMA MinimalSubset ==
  ASSUME NEW S, IsFiniteSet(S), NEW C \in SUBSET SUBSET S, C # {}
  PROVE  \E T \in C : \A U \in C : ~ (U \subseteq T /\ U # T)
<1>1. IsWellFoundedOn(StrictSubsetOrdering(S), FiniteSubsetsOf(S))
  BY FS_StrictSubsetOrderingWellFounded
<1>2. FiniteSubsetsOf(S) = SUBSET S
  BY FS_FiniteSubsetsOfFinite
<1>3. IsWellFoundedOn(StrictSubsetOrdering(S), SUBSET S)
  BY <1>1, <1>2, Zenon
<1>4. PICK T \in C : \A U \in C : ~ (<<U, T>> \in StrictSubsetOrdering(S))
  BY <1>3, WFMin, Zenon
<1>5. ASSUME NEW U \in C, U \subseteq T, U # T
      PROVE  FALSE
  BY <1>4, <1>5 DEF StrictSubsetOrdering
<1> QED
  BY <1>4, <1>5

\* What Pick chooses is a member.
LEMMA PickInSet ==
  ASSUME NEW T, T # {}
  PROVE  Pick(T) \in T
BY DEF Pick

\* Two sums of f agree wherever both are defined.
LEMMA SumsAgree ==
  ASSUME NEW S, IsFiniteSet(S), NEW f, NEW T \in SUBSET S, NEW U \in SUBSET S,
         NEW g, NEW h, IsSum(g, f, T), IsSum(h, f, U)
  PROVE  \A W \in SUBSET (T \cap U) : g[W] = h[W]
<1> DEFINE C == {W \in SUBSET (T \cap U) : g[W] # h[W]}
<1> SUFFICES ASSUME C # {} PROVE FALSE
  OBVIOUS
<1>1. PICK W \in C : \A V \in C : ~ (V \subseteq W /\ V # W)
  <2>1. C \in SUBSET SUBSET S
    OBVIOUS
  <2> HIDE DEF C
  <2> QED BY <2>1, MinimalSubset
<1>2. W \in SUBSET T /\ W \in SUBSET U /\ g[W] # h[W]
  OBVIOUS
<1>3. CASE W = {}
  BY <1>2, <1>3 DEF IsSum
<1>4. CASE W # {}
  <2> DEFINE V == W \ {Pick(W)}
  <2>1. V \subseteq W /\ V # W
    BY <1>4, PickInSet
  <2>2. V \in SUBSET (T \cap U) /\ V \notin C
    BY <1>1, <1>2, <2>1
  <2>3. g[V] = h[V]
    BY <2>2
  <2>4. g[W] = f[Pick(W)] + g[V] /\ h[W] = f[Pick(W)] + h[V]
    BY <1>2, <1>4 DEF IsSum
  <2> QED
    BY <1>2, <2>3, <2>4
<1> QED
  BY <1>3, <1>4

\* The recursive definition of SumOver has a solution for every finite S.
LEMMA SumExists ==
  ASSUME NEW S, IsFiniteSet(S), NEW f
  PROVE  \E g : IsSum(g, f, S)
<1> DEFINE C == {T \in SUBSET S : ~ \E g : IsSum(g, f, T)}
<1> SUFFICES ASSUME C # {} PROVE FALSE
  OBVIOUS
<1>1. PICK T \in C : \A U \in C : ~ (U \subseteq T /\ U # T)
  <2>1. C \in SUBSET SUBSET S
    OBVIOUS
  <2> HIDE DEF C
  <2> QED BY <2>1, MinimalSubset
<1> DEFINE Below(V) == CHOOSE h : IsSum(h, f, V)
           g == [U \in SUBSET T |->
                   IF U = {} THEN 0
                   ELSE f[Pick(U)] + Below(U \ {Pick(U)})[U \ {Pick(U)}]]
<1>2. ASSUME NEW V \in SUBSET T, V # T
      PROVE  IsSum(Below(V), f, V)
  <2>1. V \in SUBSET S /\ V \notin C
    BY <1>1, <1>2
  <2>2. \E h : IsSum(h, f, V)
    BY <2>1
  <2> QED
    BY <2>2
<1>3. ASSUME NEW V \in SUBSET T, V # T
      PROVE  g[V] = Below(V)[V]
  <2>1. IsSum(Below(V), f, V)
    BY <1>2, <1>3
  <2>2. CASE V = {}
    <3>1. g[V] = 0
      BY <2>2
    <3>2. V \in SUBSET V
      OBVIOUS
    <3>3. Below(V)[V] = 0
      <4> HIDE DEF Below
      <4> QED BY <2>1, <2>2, <3>2 DEF IsSum
    <3> QED
      BY <3>1, <3>3
  <2>3. CASE V # {}
    <3> DEFINE W == V \ {Pick(V)}
    <3>1. W \in SUBSET V /\ W # V /\ W \in SUBSET T /\ W # T /\ V \in SUBSET V
      BY <2>3, PickInSet
    <3>2. IsSum(Below(W), f, W)
      BY <1>2, <3>1
    <3>3. g[V] = f[Pick(V)] + Below(W)[W]
      BY <2>3
    <3> HIDE DEF Below, g
    <3>4. Below(V)[V] = f[Pick(V)] + Below(V)[W]
      BY <2>1, <2>3, <3>1 DEF IsSum
    <3>5. V \in SUBSET S /\ W \in SUBSET S /\ W \in SUBSET (V \cap W)
      BY <3>1
    <3>6. Below(V)[W] = Below(W)[W]
      BY <2>1, <3>2, <3>5, SumsAgree
    <3> QED
      BY <3>3, <3>4, <3>6
  <2> QED
    BY <2>2, <2>3
<1>4. \A U \in SUBSET T : U # {} =>
        Below(U \ {Pick(U)})[U \ {Pick(U)}] = g[U \ {Pick(U)}]
  <2> TAKE U \in SUBSET T
  <2> HAVE U # {}
  <2>1. U \ {Pick(U)} \in SUBSET T /\ U \ {Pick(U)} # T
    BY PickInSet
  <2> HIDE DEF Below, g
  <2> QED
    BY <1>3, <2>1
<1>5. IsSum(g, f, T)
  <2>1. g = [U \in SUBSET T |->
               IF U = {} THEN 0 ELSE f[Pick(U)] + g[U \ {Pick(U)}]]
    <3> HIDE DEF Below
    <3> DEFINE body(U) == IF U = {} THEN 0
                 ELSE f[Pick(U)] + Below(U \ {Pick(U)})[U \ {Pick(U)}]
    <3>1. \A U \in SUBSET T :
            body(U) = IF U = {} THEN 0 ELSE f[Pick(U)] + g[U \ {Pick(U)}]
      <4> HIDE DEF g
      <4> QED BY <1>4
    <3>2. g = [U \in SUBSET T |-> body(U)]
      OBVIOUS
    <3> HIDE DEF body, g
    <3> QED
      BY <3>1, <3>2, Zenon
  <2> QED
    BY <2>1 DEF IsSum
<1> QED
  <2> HIDE DEF g
  <2> QED BY <1>5

\* The two equations of the recursive function behind SumOver.
Adds(g, f, S) ==
    /\ SumOver(f, S) = g[S]
    /\ g[{}] = 0
    /\ \A T \in SUBSET S : T # {} => g[T] = f[Pick(T)] + g[T \ {Pick(T)}]

\* The equations that define the sum hold.
LEMMA SumEquations ==
  ASSUME NEW S, IsFiniteSet(S), NEW f
  PROVE  \E g : Adds(g, f, S)
<1> DEFINE g == CHOOSE h : IsSum(h, f, S)
<1>1. IsSum(g, f, S)
  BY SumExists
<1>2. SumOver(f, S) = g[S]
  BY DEF SumOver, IsSum
<1> HIDE DEF g
<1>3. g[{}] = 0 /\ \A T \in SUBSET S :
        T # {} => g[T] = f[Pick(T)] + g[T \ {Pick(T)}]
  BY <1>1 DEF IsSum
<1> QED
  BY <1>2, <1>3 DEF Adds

\* A sum of integers is an integer; a sum of naturals is a natural, and no
\* element of it exceeds it.
LEMMA SumInt ==
  ASSUME NEW S, IsFiniteSet(S), NEW f, \A x \in S : f[x] \in Int
  PROVE  SumOver(f, S) \in Int
<1>1. PICK g : Adds(g, f, S)
  BY SumEquations
<1> DEFINE C == {T \in SUBSET S : g[T] \notin Int}
<1> SUFFICES ASSUME C # {} PROVE FALSE
  BY <1>1 DEF Adds
<1>2. PICK T \in C : \A U \in C : ~ (U \subseteq T /\ U # T)
  <2>1. C \in SUBSET SUBSET S
    OBVIOUS
  <2> HIDE DEF C
  <2> QED BY <2>1, MinimalSubset
<1>3. T # {}
  <2>1. {} \notin C
    BY <1>1 DEF Adds
  <2> QED BY <2>1
<1>4. Pick(T) \in S /\ T \ {Pick(T)} \in SUBSET S /\ T \ {Pick(T)} \notin C
  BY <1>2, <1>3, PickInSet
<1> QED
  BY <1>1, <1>3, <1>4 DEF Adds

\* A sum of natural numbers is one, and no smaller than any of them.
LEMMA SumNat ==
  ASSUME NEW S, IsFiniteSet(S), NEW f, \A x \in S : f[x] \in Nat
  PROVE  SumOver(f, S) \in Nat /\ \A x \in S : f[x] =< SumOver(f, S)
<1>1. PICK g : Adds(g, f, S)
  BY SumEquations
<1> DEFINE C == {T \in SUBSET S :
                   ~ (g[T] \in Nat /\ \A x \in T : f[x] =< g[T])}
<1> SUFFICES ASSUME C # {} PROVE FALSE
  BY <1>1 DEF Adds
<1>2. PICK T \in C : \A U \in C : ~ (U \subseteq T /\ U # T)
  <2>1. C \in SUBSET SUBSET S
    OBVIOUS
  <2> HIDE DEF C
  <2> QED BY <2>1, MinimalSubset
<1>3. T # {}
  <2>1. {} \notin C
    BY <1>1 DEF Adds
  <2> QED BY <2>1
<1>4. Pick(T) \in S /\ T \ {Pick(T)} \in SUBSET S /\ T \ {Pick(T)} \notin C
  BY <1>2, <1>3, PickInSet
<1>5. g[T] = f[Pick(T)] + g[T \ {Pick(T)}]
  BY <1>1, <1>3 DEF Adds
<1>6. /\ g[T \ {Pick(T)}] \in Nat
      /\ \A x \in T \ {Pick(T)} : f[x] =< g[T \ {Pick(T)}]
  BY <1>4
<1>7. g[T] \in Nat
  BY <1>4, <1>5, <1>6
<1>8. ASSUME NEW x \in T PROVE f[x] =< g[T]
  <2>1. CASE x = Pick(T)
    BY <1>4, <1>5, <1>6, <2>1
  <2>2. CASE x # Pick(T)
    <3>1. f[x] =< g[T \ {Pick(T)}] /\ f[x] \in Nat
      BY <1>6, <2>2
    <3> QED BY <1>4, <1>5, <1>6, <3>1
  <2> QED BY <2>1, <2>2
<1> QED
  BY <1>7, <1>8

\* Changing one element changes the sum by the same difference.
LEMMA SumChange ==
  ASSUME NEW S, IsFiniteSet(S), NEW f, NEW h,
         \A x \in S : f[x] \in Int /\ h[x] \in Int,
         NEW t \in S, \A x \in S \ {t} : h[x] = f[x]
  PROVE  SumOver(h, S) = SumOver(f, S) - f[t] + h[t]
<1>1. PICK g : Adds(g, f, S)
  BY SumEquations
<1>2. PICK k : Adds(k, h, S)
  BY SumEquations
<1> DEFINE Good(T) == /\ g[T] \in Int /\ k[T] \in Int
                      /\ t \notin T => k[T] = g[T]
                      /\ t \in T => k[T] = g[T] - f[t] + h[t]
           C == {T \in SUBSET S : ~ Good(T)}
<1> SUFFICES ASSUME C # {} PROVE FALSE
  BY <1>1, <1>2 DEF Adds
<1>3. PICK T \in C : \A U \in C : ~ (U \subseteq T /\ U # T)
  <2>1. C \in SUBSET SUBSET S
    OBVIOUS
  <2> HIDE DEF C
  <2> QED BY <2>1, MinimalSubset
<1>4. T # {}
  <2>1. {} \notin C
    BY <1>1, <1>2 DEF Adds
  <2> QED BY <2>1
<1> DEFINE p == Pick(T)
           R == T \ {p}
<1>5. p \in T /\ p \in S /\ R \in SUBSET S /\ Good(R)
  BY <1>3, <1>4, PickInSet
<1>6. g[T] = f[p] + g[R] /\ k[T] = h[p] + k[R]
  BY <1>1, <1>2, <1>4 DEF Adds
<1>7. f[p] \in Int /\ h[p] \in Int /\ f[t] \in Int /\ h[t] \in Int
  BY <1>5
<1>8. p # t => h[p] = f[p]
  BY <1>5
<1>9. t \in R <=> t \in T /\ t # p
  BY <1>5
<1> HIDE DEF p, R
<1>10. Good(T)
  BY <1>5, <1>6, <1>7, <1>8, <1>9
<1> QED
  BY <1>10

\* Two functions that agree on S have the same sum over it.
LEMMA SumSame ==
  ASSUME NEW S, IsFiniteSet(S), NEW f, NEW h,
         \A x \in S : f[x] \in Int, \A x \in S : h[x] = f[x]
  PROVE  SumOver(h, S) = SumOver(f, S)
<1>1. CASE S = {}
  <2>1. PICK g : Adds(g, f, S)
    BY SumEquations
  <2>2. PICK k : Adds(k, h, S)
    BY SumEquations
  <2> QED BY <1>1, <2>1, <2>2 DEF Adds
<1>2. CASE S # {}
  <2>1. PICK t \in S : TRUE
    BY <1>2
  <2>2. SumOver(h, S) = SumOver(f, S) - f[t] + h[t]
    BY <2>1, SumChange
  <2>3. SumOver(f, S) \in Int
    BY SumInt
  <2> QED BY <2>1, <2>2, <2>3
<1> QED BY <1>1, <1>2 DEF Adds

\* A sum of zeroes is zero.
LEMMA SumZero ==
  ASSUME NEW S, IsFiniteSet(S), NEW f, \A x \in S : f[x] = 0
  PROVE  SumOver(f, S) = 0
<1>1. PICK g : Adds(g, f, S)
  BY SumEquations
<1> DEFINE C == {T \in SUBSET S : g[T] # 0}
<1> SUFFICES ASSUME C # {} PROVE FALSE
  BY <1>1 DEF Adds
<1>2. PICK T \in C : \A U \in C : ~ (U \subseteq T /\ U # T)
  <2>1. C \in SUBSET SUBSET S
    OBVIOUS
  <2> HIDE DEF C
  <2> QED BY <2>1, MinimalSubset
<1>3. T # {}
  <2>1. {} \notin C
    BY <1>1 DEF Adds
  <2> QED BY <2>1
<1>4. Pick(T) \in S /\ T \ {Pick(T)} \in SUBSET S /\ T \ {Pick(T)} \notin C
  BY <1>2, <1>3, PickInSet
<1> QED
  BY <1>1, <1>3, <1>4 DEF Adds

\* A sum of smaller numbers is smaller.
LEMMA SumSmaller ==
  ASSUME NEW S, IsFiniteSet(S), NEW f, NEW h,
         \A x \in S : f[x] \in Nat /\ h[x] \in Nat /\ f[x] =< h[x]
  PROVE  SumOver(f, S) =< SumOver(h, S)
<1>1. PICK g : Adds(g, f, S)
  BY SumEquations
<1>2. PICK k : Adds(k, h, S)
  BY SumEquations
<1> DEFINE Good(T) == g[T] \in Nat /\ k[T] \in Nat /\ g[T] =< k[T]
           C == {T \in SUBSET S : ~ Good(T)}
<1> SUFFICES ASSUME C # {} PROVE FALSE
  BY <1>1, <1>2 DEF Adds
<1>3. PICK T \in C : \A U \in C : ~ (U \subseteq T /\ U # T)
  <2>1. C \in SUBSET SUBSET S
    OBVIOUS
  <2> HIDE DEF C
  <2> QED BY <2>1, MinimalSubset
<1>4. T # {}
  <2>1. {} \notin C
    BY <1>1, <1>2 DEF Adds
  <2> QED BY <2>1
<1>5. Pick(T) \in S /\ T \ {Pick(T)} \in SUBSET S /\ Good(T \ {Pick(T)})
  BY <1>3, <1>4, PickInSet
<1>6. /\ g[T] = f[Pick(T)] + g[T \ {Pick(T)}]
      /\ k[T] = h[Pick(T)] + k[T \ {Pick(T)}]
  BY <1>1, <1>2, <1>4 DEF Adds
<1>7. Good(T)
  BY <1>5, <1>6
<1> QED
  BY <1>7

\* Each x of S is paid for by an element to[x] of T of its own, at m to one:
\* then S is paid for by T.
LEMMA SumInjected ==
  ASSUME NEW S, IsFiniteSet(S), NEW T, IsFiniteSet(T), NEW m \in Nat,
         NEW f, NEW h, NEW to,
         \A x \in S : to[x] \in T /\ f[x] \in Nat /\ f[x] =< m * h[to[x]],
         \A x \in T : h[x] \in Nat,
         \A x, y \in S : to[x] = to[y] => x = y
  PROVE  SumOver(f, S) =< m * SumOver(h, T)
<1>1. PICK g : Adds(g, f, S)
  BY SumEquations
<1> DEFINE Part(U) == [x \in T |-> IF \E y \in U : to[y] = x THEN h[x] ELSE 0]
           Good(U) == g[U] \in Nat /\ g[U] =< m * SumOver(Part(U), T)
           C == {U \in SUBSET S : ~ Good(U)}
<1>2. \A U \in SUBSET S : SumOver(Part(U), T) \in Nat
  <2> TAKE U \in SUBSET S
  <2>1. \A x \in T : Part(U)[x] \in Nat
    OBVIOUS
  <2> HIDE DEF Part
  <2> QED BY <2>1, SumNat
<1>3. C = {}
  <2> SUFFICES ASSUME C # {} PROVE FALSE
    OBVIOUS
  <2>1. PICK U \in C : \A V \in C : ~ (V \subseteq U /\ V # U)
    <3>1. C \in SUBSET SUBSET S
      OBVIOUS
    <3> HIDE DEF C
    <3> QED BY <3>1, MinimalSubset
  <2>2. U # {}
    <3>1. g[{}] = 0
      BY <1>1 DEF Adds
    <3>2. Good({})
      <4> HIDE DEF Part
      <4>1. {} \in SUBSET S
        OBVIOUS
      <4>2. SumOver(Part({}), T) \in Nat
        BY <1>2, <4>1
      <4> QED BY <3>1, <4>2
    <3> QED BY <3>2
  <2> DEFINE t == Pick(U)
             W == U \ {t}
  <2>3. t \in U /\ t \in S /\ W \in SUBSET S /\ Good(W)
    BY <2>1, <2>2, PickInSet
  <2>4. g[U] = f[t] + g[W]
    BY <1>1, <2>2 DEF Adds
  <2> HIDE DEF t, W, C
  <2>5. SumOver(Part(U), T) = SumOver(Part(W), T) + h[to[t]]
    <3>1. /\ \A x \in T : Part(W)[x] \in Int /\ Part(U)[x] \in Int
          /\ Part(W)[to[t]] = 0 /\ Part(U)[to[t]] = h[to[t]]
          /\ \A x \in T \ {to[t]} : Part(U)[x] = Part(W)[x]
          /\ to[t] \in T
      <4>1. W = U \ {t} /\ U \in SUBSET S
        BY <2>1 DEF W, C
      <4>2. \A x \in T : h[x] \in Int
        OBVIOUS
      <4>3. ~ \E y \in W : to[y] = to[t]
        BY <2>3, <4>1
      <4>4. \A x \in T \ {to[t]} : (\E y \in U : to[y] = x) <=> (\E y \in W : to[y] = x)
        BY <2>3, <4>1
      <4> QED BY <2>3, <4>2, <4>3, <4>4
    <3>2. SumOver(Part(W), T) \in Nat /\ h[to[t]] \in Nat
      BY <1>2, <2>3
    <3> HIDE DEF Part
    <3>3. SumOver(Part(U), T) = SumOver(Part(W), T) - Part(W)[to[t]] + Part(U)[to[t]]
      BY <3>1, SumChange
    <3> QED BY <3>1, <3>2, <3>3
  <2>6. Good(U)
    <3>1. SumOver(Part(W), T) \in Nat /\ h[to[t]] \in Nat
      BY <1>2, <2>3
    <3>2. g[W] \in Nat /\ g[W] =< m * SumOver(Part(W), T)
      BY <2>3
    <3>3. f[t] \in Nat /\ f[t] =< m * h[to[t]]
      BY <2>3
    <3> HIDE DEF Part
    <3>4. m * (SumOver(Part(W), T) + h[to[t]]) = m * SumOver(Part(W), T) + m * h[to[t]]
      BY <3>1
    <3>5. m * SumOver(Part(W), T) \in Nat /\ m * h[to[t]] \in Nat
      BY <3>1
    <3> QED BY <2>4, <2>5, <3>2, <3>3, <3>4, <3>5
  <2> QED BY <2>1, <2>6 DEF C
<1>4. SumOver(f, S) =< m * SumOver(Part(S), T)
  <2>1. Good(S)
    BY <1>3
  <2> QED BY <1>1, <2>1 DEF Adds
<1>5. SumOver(Part(S), T) =< SumOver(h, T)
  <2>1. \A x \in T : Part(S)[x] \in Nat /\ h[x] \in Nat /\ Part(S)[x] =< h[x]
    OBVIOUS
  <2> HIDE DEF Part
  <2> QED BY <2>1, SumSmaller
<1>6. SumOver(h, T) \in Nat /\ SumOver(Part(S), T) \in Nat
  BY <1>2, SumNat
<1>7. m * SumOver(Part(S), T) =< m * SumOver(h, T)
  <2> HIDE DEF Part
  <2> QED BY <1>5, <1>6
<1>8. SumOver(f, S) \in Nat
  BY SumNat
<1> HIDE DEF Part
<1> QED
  <2>1. m * SumOver(Part(S), T) \in Nat /\ m * SumOver(h, T) \in Nat
    BY <1>6
  <2> QED BY <1>4, <1>7, <1>8, <2>1

\* The same, of the sums over the subsets of S.
AddsParts(g, f, S) ==
    /\ \A T \in SUBSET S : SumOver(f, T) = g[T]
    /\ g[{}] = 0
    /\ \A T \in SUBSET S : T # {} => g[T] = f[Pick(T)] + g[T \ {Pick(T)}]

\* One solution of the equations gives the sums over every subset.
LEMMA SumSubsets ==
  ASSUME NEW S, IsFiniteSet(S), NEW f
  PROVE  \E g : AddsParts(g, f, S)
<1>1. PICK g : IsSum(g, f, S)
  BY SumExists
<1>2. g[{}] = 0 /\ \A T \in SUBSET S : T # {} => g[T] = f[Pick(T)] + g[T \ {Pick(T)}]
  BY <1>1 DEF IsSum
<1>3. ASSUME NEW T \in SUBSET S PROVE SumOver(f, T) = g[T]
  <2> DEFINE h == CHOOSE k : IsSum(k, f, T)
  <2>1. IsFiniteSet(T)
    BY FS_Subset
  <2>2. IsSum(h, f, T)
    BY <2>1, SumExists
  <2>3. SumOver(f, T) = h[T]
    BY DEF SumOver, IsSum
  <2> HIDE DEF h
  <2>4. T \in SUBSET (S \cap T) /\ S \in SUBSET S
    OBVIOUS
  <2>5. \A W \in SUBSET (S \cap T) : g[W] = h[W]
    BY <1>1, <2>2, <2>4, SumsAgree
  <2> QED BY <2>3, <2>4, <2>5
<1> QED BY <1>2, <1>3 DEF AddsParts

\* Any element can be taken out of a sum.
LEMMA SumRemove ==
  ASSUME NEW S, IsFiniteSet(S), NEW f, \A x \in S : f[x] \in Int, NEW t \in S
  PROVE  SumOver(f, S) = f[t] + SumOver(f, S \ {t})
<1>0. PICK g : AddsParts(g, f, S)
  BY SumSubsets
<1>1. /\ \A T \in SUBSET S : SumOver(f, T) = g[T]
      /\ \A T \in SUBSET S : T # {} => g[T] = f[Pick(T)] + g[T \ {Pick(T)}]
  BY <1>0 DEF AddsParts
<1>2. \A T \in SUBSET S : g[T] \in Int
  <2> TAKE T \in SUBSET S
  <2>1. IsFiniteSet(T) /\ \A x \in T : f[x] \in Int
    BY FS_Subset
  <2> QED BY <1>1, <2>1, SumInt
<1> DEFINE Good(T) == \A x \in T : g[T] = f[x] + g[T \ {x}]
           C == {T \in SUBSET S : ~ Good(T)}
<1>3. C = {}
  <2> SUFFICES ASSUME C # {} PROVE FALSE
    OBVIOUS
  <2>1. PICK T \in C : \A U \in C : ~ (U \subseteq T /\ U # T)
    <3>1. C \in SUBSET SUBSET S
      OBVIOUS
    <3> HIDE DEF C
    <3> QED BY <3>1, MinimalSubset
  <2>2. PICK x \in T : g[T] # f[x] + g[T \ {x}]
    BY <2>1
  <2> DEFINE p == Pick(T)
  <2>3. T \in SUBSET S /\ p \in T /\ g[T] = f[p] + g[T \ {p}]
    BY <1>1, <2>1, <2>2, PickInSet
  <2> HIDE DEF p
  <2>4. x # p
    BY <2>2, <2>3
  <2>5. Good(T \ {p}) /\ Good(T \ {x})
    <3>1. \A y \in T : T \ {y} \in SUBSET S /\ T \ {y} \subseteq T /\ T \ {y} # T
      BY <2>3
    <3> QED BY <2>1, <2>2, <2>3, <3>1
  <2> DEFINE V == (T \ {x}) \ {p}
  <2>6. g[T \ {p}] = f[x] + g[V] /\ g[T \ {x}] = f[p] + g[V]
    <3>1. (T \ {p}) \ {x} = V
      OBVIOUS
    <3>2. x \in T \ {p} /\ p \in T \ {x}
      BY <2>2, <2>3, <2>4
    <3> QED BY <2>5, <3>1, <3>2
  <2>7. f[x] \in Int /\ f[p] \in Int /\ g[V] \in Int
    <3>1. V \in SUBSET S /\ x \in S /\ p \in S
      BY <2>2, <2>3
    <3> HIDE DEF V
    <3> QED BY <1>2, <3>1
  <2> HIDE DEF C, Good, V
  <2>8. g[T] = f[x] + g[T \ {x}]
    BY <2>3, <2>6, <2>7
  <2> QED BY <2>2, <2>8
<1>4. Good(S)
  BY <1>3
<1> HIDE DEF C
<1> QED BY <1>1, <1>4

\* The sum over two disjoint sets is the sum of their sums.
LEMMA SumDisjoint ==
  ASSUME NEW A, IsFiniteSet(A), NEW B, IsFiniteSet(B), A \cap B = {},
         NEW f, \A x \in A \cup B : f[x] \in Int
  PROVE  SumOver(f, A \cup B) = SumOver(f, A) + SumOver(f, B)
<1> DEFINE Good(T) == SumOver(f, A \cup T) = SumOver(f, A) + SumOver(f, T)
           C == {T \in SUBSET B : ~ Good(T)}
<1>1. SumOver(f, A) \in Int
  BY SumInt
<1>2. Good({})
  <2>1. SumOver(f, {}) = 0
    BY FS_EmptySet, SumZero
  <2>2. A \cup {} = A
    OBVIOUS
  <2> QED BY <1>1, <2>1, <2>2
<1>3. C = {}
  <2> SUFFICES ASSUME C # {} PROVE FALSE
    OBVIOUS
  <2>1. PICK T \in C : \A U \in C : ~ (U \subseteq T /\ U # T)
    <3>1. C \in SUBSET SUBSET B
      OBVIOUS
    <3> HIDE DEF C
    <3> QED BY <3>1, MinimalSubset
  <2>2. T # {} /\ T \in SUBSET B
    BY <1>2, <2>1
  <2>3. PICK x \in T : TRUE
    BY <2>2
  <2> DEFINE R == T \ {x}
  <2>4. R \in SUBSET B /\ Good(R)
    BY <2>1, <2>2, <2>3
  <2> HIDE DEF C
  <2>5. IsFiniteSet(T) /\ IsFiniteSet(R) /\ IsFiniteSet(A \cup T)
    BY <2>2, <2>4, FS_Subset, FS_Union
  <2>6. (\A y \in T : f[y] \in Int) /\ (\A y \in R : f[y] \in Int)
        /\ (\A y \in A \cup T : f[y] \in Int)
    BY <2>2
  <2>7. SumOver(f, T) = f[x] + SumOver(f, R)
    BY <2>3, <2>5, <2>6, SumRemove
  <2>8. SumOver(f, A \cup T) = f[x] + SumOver(f, A \cup R)
    <3>1. (A \cup T) \ {x} = A \cup R /\ x \in A \cup T
      BY <2>2, <2>3
    <3>2. SumOver(f, A \cup T) = f[x] + SumOver(f, (A \cup T) \ {x})
      BY <2>5, <2>6, <3>1, SumRemove
    <3> QED BY <3>1, <3>2
  <2>9. SumOver(f, R) \in Int /\ f[x] \in Int
    BY <2>3, <2>5, <2>6, SumInt
  <2> HIDE DEF R
  <2>10. Good(T)
    BY <1>1, <2>4, <2>7, <2>8, <2>9
  <2> QED BY <2>1, <2>10 DEF C
<1>4. Good(B)
  BY <1>3
<1> QED BY <1>4

\* A sum of negative numbers is one, unless there is none to add.
LEMMA SumNegative ==
  ASSUME NEW S, IsFiniteSet(S), S # {}, NEW f, \A x \in S : f[x] \in Int /\ f[x] < 0
  PROVE  SumOver(f, S) \in Int /\ SumOver(f, S) < 0
<1> DEFINE Good(T) == SumOver(f, T) \in Int /\ SumOver(f, T) < 0
           C == {T \in SUBSET S : T # {} /\ ~ Good(T)}
<1>1. C = {}
  <2> SUFFICES ASSUME C # {} PROVE FALSE
    OBVIOUS
  <2>1. PICK T \in C : \A U \in C : ~ (U \subseteq T /\ U # T)
    <3>1. C \in SUBSET SUBSET S
      OBVIOUS
    <3> HIDE DEF C
    <3> QED BY <3>1, MinimalSubset
  <2>2. PICK x \in T : TRUE
    BY <2>1
  <2> DEFINE R == T \ {x}
  <2>3. T \in SUBSET S /\ (R # {} => Good(R))
    BY <2>1, <2>2
  <2>4. IsFiniteSet(T) /\ \A y \in T : f[y] \in Int
    BY <2>3, FS_Subset
  <2> HIDE DEF C
  <2>5. SumOver(f, T) = f[x] + SumOver(f, R)
    BY <2>2, <2>4, SumRemove
  <2>6. R = {} => SumOver(f, R) = 0
    BY FS_EmptySet, SumZero
  <2>7. f[x] \in Int /\ f[x] < 0
    BY <2>2, <2>3
  <2> HIDE DEF R
  <2>8. Good(T)
    BY <2>3, <2>5, <2>6, <2>7
  <2> QED BY <2>1, <2>8 DEF C
<1>2. Good(S)
  BY <1>1
<1> QED BY <1>2

\* Of finitely many integers one is no smaller than any.
LEMMA MaxExists ==
  ASSUME NEW S, IsFiniteSet(S), S # {}
  PROVE  S \subseteq Int => \E x \in S : \A y \in S : y =< x
<1> DEFINE Above(x) == {y \in S : x < y}
           C == {T \in SUBSET S : \E x \in S : T = Above(x)}
<1>1. PICK U \in C : \A V \in C : ~ (V \subseteq U /\ V # U)
  <2>1. C \in SUBSET SUBSET S
    OBVIOUS
  <2>2. C # {}
    <3>1. PICK x \in S : TRUE
      OBVIOUS
    <3>2. Above(x) \in C
      BY <3>1
    <3> QED BY <3>2
  <2> HIDE DEF C
  <2> QED BY <2>1, <2>2, MinimalSubset
<1> SUFFICES ASSUME S \subseteq Int PROVE \E x \in S : \A y \in S : y =< x
  OBVIOUS
<1>2. PICK x \in S : U = Above(x)
  BY <1>1
<1>3. ASSUME NEW y \in S, x < y PROVE FALSE
  <2>1. ASSUME NEW z \in Above(y) PROVE z \in U
    <3>1. x \in Int /\ y \in Int /\ z \in Int /\ y < z /\ z \in S
      BY <1>2
    <3>2. x < z
      BY <1>3, <3>1
    <3> QED BY <1>2, <3>1, <3>2
  <2>2. y \in U /\ y \notin Above(y)
    BY <1>2, <1>3
  <2>3. Above(y) \in C
    OBVIOUS
  <2> HIDE DEF C, Above
  <2> QED BY <1>1, <2>1, <2>2, <2>3
<1>4. \A y \in S : y =< x
  BY <1>3
<1> QED BY <1>4

(* Of finitely many integers one is no larger than any.                         *)
LEMMA MinExists ==
  ASSUME NEW S, IsFiniteSet(S), S # {}, S \subseteq Int
  PROVE  \E x \in S : \A y \in S : x <= y
<1> DEFINE f == [x \in S |-> 0 - x]
           T == {f[x] : x \in S}
<1>1. IsFiniteSet(T)
  <2>1. f \in [S -> T] /\ \A t \in T : \E x \in S : f[x] = t
    OBVIOUS
  <2>2. f \in Surjection(S, T)
    <3> HIDE DEF f, T
    <3> QED BY <2>1 DEF Surjection
  <2> HIDE DEF f, T
  <2> QED BY <2>2, FS_Surjection
<1>2. T # {} /\ T \subseteq Int
  <2>1. \A x \in S : f[x] \in Int
    OBVIOUS
  <2> HIDE DEF f
  <2> QED BY <2>1
<1>3. PICK t \in T : \A u \in T : u <= t
  <2> HIDE DEF T
  <2> QED BY <1>1, <1>2, MaxExists
<1>4. PICK x \in S : t = 0 - x
  OBVIOUS
<1>5. \A y \in S : x <= y
  <2> TAKE y \in S
  <2>1. 0 - y \in T
    OBVIOUS
  <2> QED BY <1>3, <1>4, <2>1
<1> QED BY <1>5

(* What grows by no more than h from each point to the next grows by no more    *)
(* than h in all.                                                               *)
LEMMA Telescopes ==
  ASSUME NEW n \in Nat, n >= 1, NEW P \in SUBSET (2..n), NEW d, NEW h,
         \A i \in P : d[i] \in Int /\ d[i] <= h[i] - h[i - 1],
         \A i \in 1..n : h[i] \in Int,
         \A i \in 2..n : h[i - 1] <= h[i]
  PROVE  SumOver(d, P) <= h[n] - h[1]
<1> DEFINE Part(k) == {i \in P : i <= k}
<1>1. \A k \in 1..n : IsFiniteSet(Part(k)) /\ SumOver(d, Part(k)) \in Int
  <2> TAKE k \in 1..n
  <2>1. IsFiniteSet(2..n)
    BY FS_Interval
  <2>2. IsFiniteSet(Part(k))
    BY <2>1, FS_Subset
  <2>3. \A i \in Part(k) : d[i] \in Int
    OBVIOUS
  <2> HIDE DEF Part
  <2> QED BY <2>2, <2>3, SumInt
<1>2. \A i \in P : i \in Nat /\ 2 <= i /\ i <= n
  OBVIOUS
<1>3. Part(1) = {} /\ Part(n) = P
  <2>1. \A i \in P : i <= n /\ ~ (i <= 1)
    BY <1>2
  <2> QED BY <2>1
<1>4. ASSUME NEW k \in 2..n
      PROVE  IF k \in P THEN k \in Part(k) /\ Part(k) \ {k} = Part(k - 1) ELSE Part(k) = Part(k - 1)
  <2>1. k \in Int /\ k <= k
    OBVIOUS
  <2>2. \A i \in P : i <= k - 1 <=> (i <= k /\ i # k)
    BY <1>2, <2>1
  <2> QED BY <2>1, <2>2
<1> DEFINE Bad == {k \in 1..n : ~ (SumOver(d, Part(k)) <= h[k] - h[1])}
<1>5. ASSUME Bad # {} PROVE FALSE
  <2>1. PICK k \in Bad : \A j \in Bad : k <= j
    <3>1. IsFiniteSet(1..n)
      BY FS_Interval
    <3>2. IsFiniteSet(Bad)
      BY <3>1, FS_Subset
    <3>3. Bad \subseteq Int
      OBVIOUS
    <3> HIDE DEF Bad
    <3> QED BY <1>5, <3>2, <3>3, MinExists
  <2>2. k \in Nat /\ 1 <= k /\ k <= n
    OBVIOUS
  <2>3. k # 1
    <3>1. SumOver(d, {}) = 0
      BY FS_EmptySet, SumZero
    <3>2. h[1] - h[1] = 0
      OBVIOUS
    <3> HIDE DEF Part
    <3> QED BY <1>3, <3>1, <3>2
  <2>4. k - 1 \in 1..n /\ k \in 2..n
    BY <2>2, <2>3
  <2>5. k - 1 \notin Bad
    <3> HIDE DEF Bad
    <3> QED BY <2>1, <2>2
  <2>6. SumOver(d, Part(k - 1)) <= h[k - 1] - h[1]
    BY <2>4, <2>5
  <2>7. CASE k \in P
    <3>1. Part(k) \ {k} = Part(k - 1) /\ k \in Part(k)
      <4> HIDE DEF Part, Bad
      <4> QED BY <1>4, <2>4, <2>7
    <3>2. SumOver(d, Part(k)) = d[k] + SumOver(d, Part(k) \ {k})
      <4>1. \A i \in Part(k) : d[i] \in Int
        OBVIOUS
      <4>2. IsFiniteSet(Part(k)) /\ k \in Part(k)
        BY <1>1, <3>1
      <4> HIDE DEF Part
      <4> QED BY <4>1, <4>2, SumRemove
    <3>3. SumOver(d, Part(k)) = d[k] + SumOver(d, Part(k - 1))
      BY <3>1, <3>2
    <3>4. d[k] <= h[k] - h[k - 1] /\ d[k] \in Int /\ h[k] \in Int /\ h[k - 1] \in Int /\ h[1] \in Int
      BY <2>4, <2>7
    <3>5. SumOver(d, Part(k - 1)) \in Int
      BY <1>1, <2>4
    <3>6. SumOver(d, Part(k)) <= h[k] - h[1]
      <4> HIDE DEF Part, Bad
      <4> QED BY <2>6, <3>3, <3>4, <3>5
    <3> QED BY <3>6, <2>1
  <2>8. CASE k \notin P
    <3>1. Part(k) = Part(k - 1)
      <4> HIDE DEF Part, Bad
      <4> QED BY <1>4, <2>4, <2>8
    <3>2. h[k - 1] <= h[k] /\ h[k] \in Int /\ h[k - 1] \in Int /\ h[1] \in Int
      BY <2>4
    <3>3. SumOver(d, Part(k - 1)) \in Int
      BY <1>1, <2>4
    <3>4. SumOver(d, Part(k)) <= h[k] - h[1]
      <4> HIDE DEF Part, Bad
      <4> QED BY <2>6, <3>1, <3>2, <3>3
    <3> QED BY <3>4, <2>1
  <2> QED BY <2>7, <2>8
<1>6. n \in 1..n /\ n \notin Bad
  <2> HIDE DEF Bad
  <2> QED BY <1>5
<1> HIDE DEF Part
<1> QED BY <1>3, <1>6
=============================================================================
