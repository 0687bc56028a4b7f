--------------------------- MODULE MCSponsorship ---------------------------
(* Small instances of Sponsorship for TLC. *)
EXTENDS Sponsorship, TLC

CONSTANTS r1, r2, r3, w1, w2

Ask(cost, one, two) ==
    [op |-> 1, maxCost |-> cost, subject |-> 1 :> one @@ 2 :> two]

\* One operation per wallet, and a cap on the wei of all of them: neither the
\* cap nor the costs are a multiple of a gwei, which is two wei here.
MCQuotas ==
    1 :> [unit |-> "operations", limit |-> 1, onMissingSubject |-> "deny", onRow |-> TRUE]
    @@ 2 :> [unit |-> "wei", limit |-> 9, onMissingSubject |-> "deny", onRow |-> TRUE]

\* Two wallets; all three requests together exceed the cap.
MCRequests == r1 :> Ask(3, w1, w1) @@ r2 :> Ask(3, w2, w1) @@ r3 :> Ask(5, w1, w1)

\* The first quota is one per address, which one request does not carry.
SkipQuotas == [MCQuotas EXCEPT ![1].onMissingSubject = "skip", ![1].onRow = FALSE]
SkipRequests == r1 :> Ask(3, NoSubject, w1) @@ r2 :> Ask(5, w1, w1)
=============================================================================
