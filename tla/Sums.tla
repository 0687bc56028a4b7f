------------------------------- MODULE Sums -------------------------------
(***************************************************************************)
(* The sum of an integer-valued function over a finite set: what the       *)
(* contract keeps as totalTenantBalance because a mapping cannot be summed *)
(* on chain, and what the accounting properties compare it with.           *)
(*                                                                         *)
(* Written as a recursive function over the subsets of S, so that the      *)
(* lemmas of module SumsProofs can be proved by well-founded induction.    *)
(***************************************************************************)
EXTENDS Integers, FiniteSets

\* The element a sum takes out of T first; which one does not matter.
Pick(T) == CHOOSE x \in T : TRUE

\* f[x] added up over the elements x of S.
SumOver(f, S) ==
    LET sum[T \in SUBSET S] ==
            IF T = {} THEN 0 ELSE f[Pick(T)] + sum[T \ {Pick(T)}]
    IN  sum[S]
=============================================================================
