---------------------------- MODULE Sponsorship ----------------------------
(***************************************************************************)
(* SponsorService, PolicyEngine, QuotaRule and the quota store: how a      *)
(* request for sponsorship takes budget from counters that every replica   *)
(* shares, and gives it back when nothing comes of it.                     *)
(*                                                                         *)
(* Every await of the code is a point where other requests, other          *)
(* replicas and the clock may act.  One call of the store is one step (a   *)
(* Lua script in Redis, no await in memory); its reply may be lost.        *)
(***************************************************************************)
EXTENDS Integers, FiniteSets, Sums

CONSTANTS
    Request,       \* requests for sponsorship
    request,       \* their fields, see RequestFields
    Quota,         \* quota rules a policy may have, numbered in the order they run
    quota,         \* their fields, see QuotaFields
    Subject,       \* what quotas count against
    NoSubject,     \* the request does not carry what the quota counts against
    Policy,        \* the sets of quota rules the policy is given over time
    WeiPerGwei,    \* WEI_PER_GWEI: spend is counted in this unit
    WindowSeconds, \* windowSeconds, the same for all quotas
    Fault,         \* kinds of failures that happen, see Faults
    MaxFaults,     \* bound: failures
    MaxEdits,      \* bound: changes of the policy
    MaxTime        \* bound: seconds

RequestFields == [op : Nat, maxCost : Nat, subject : [Quota -> Subject \cup {NoSubject}]]
\* onRow: the subject can be told from the stored sponsorship (not an IP or a target).
QuotaFields == [unit : {"operations", "wei"}, limit : Nat,
                onMissingSubject : {"deny", "skip"}, onRow : BOOLEAN]

Faults == {"consumeRefused", "consumeReplyLost", "consumeResent",
           "releaseRefused", "releaseResent", "attest", "insertRefused",
           "insertReplyLost", "neverReturns", "replicaDies"}

ASSUME SponsorshipAssumption ==
    /\ IsFiniteSet(Request) /\ Quota \subseteq Nat
    /\ request \in [Request -> RequestFields]
    /\ quota \in [Quota -> QuotaFields]
    /\ NoSubject \notin Subject
    /\ Policy \subseteq SUBSET Quota
    /\ WeiPerGwei \in Nat \ {0} /\ WindowSeconds \in Nat \ {0}
    /\ Fault \subseteq Faults
    /\ MaxFaults \in Nat /\ MaxEdits \in Nat /\ MaxTime \in Nat

VARIABLES
    now,      \* seconds, the clock of replicas and database
    policy,   \* quota rules of the loaded policy
    edits,
    faults,
    used,     \* the store: counter of each slot, 0 if there is none
    phase,    \* where each request is
    rules,    \* the policy the request was given
    at,       \* context.now of each request
    todo,     \* rules not yet evaluated
    reserved, \* rules that reserved, and are not yet released
    row,      \* created_at of the request's sponsorship, in whole seconds
    left,     \* what of each request's charge is still owed to its counter
    leaked    \* what was taken off a counter without being owed back

serviceVars == <<phase, rules, at, todo, reserved, row>>
sponsorVars == <<now, policy, edits, faults, used, serviceVars, left, leaked>>

Phase == {"new", "received", "evaluating", "approved", "attested", "recorded",
          "issued", "denying", "denied", "failing", "failed", "hung", "dead"}

NoRow == -1

\* A counter: a quota, a subject, and the number of the window.
Slot == [quota : Quota, subject : Subject,
         window : 0..((MaxTime + 1) \div WindowSeconds)]

\* windowedKey of the key of `#keyFor`.
SlotOf(q, r, t) == [quota |-> q, subject |-> request[r].subject[q],
                    window |-> t \div WindowSeconds]

CeilGwei(wei) == (wei + WeiPerGwei - 1) \div WeiPerGwei

\* The limit rounds down and the charge up.
CountedLimit(q) ==
    IF quota[q].unit = "wei" THEN quota[q].limit \div WeiPerGwei ELSE quota[q].limit
AmountFor(q, r) ==
    IF quota[q].unit = "wei" THEN CeilGwei(request[r].maxCost) ELSE 1

----------------------------------------------------------------------------
(* The store *)

\* tryConsume fits.  (Slip: one more than the limit fits.)
FitsLoosely(s, amount) == used[s] =< CountedLimit(s.quota)
Fits(s, amount) == used[s] + amount =< CountedLimit(s.quota)

\* release is clamped at zero.
Released(s, amount) == IF used[s] =< amount THEN 0 ELSE used[s] - amount

Release(s, amount) == used' = [used EXCEPT ![s] = Released(s, amount)]

Leak(s, amount) == leaked' = [leaked EXCEPT ![s] = @ + amount]

Fails(kind) ==
    /\ kind \in Fault
    /\ faults < MaxFaults
    /\ faults' = faults + 1

----------------------------------------------------------------------------
Init ==
    /\ now = 0
    /\ policy \in Policy
    /\ edits = 0
    /\ faults = 0
    /\ used = [s \in Slot |-> 0]
    /\ phase = [r \in Request |-> "new"]
    /\ rules = [r \in Request |-> {}]
    /\ at = [r \in Request |-> 0]
    /\ todo = [r \in Request |-> {}]
    /\ reserved = [r \in Request |-> {}]
    /\ row = [r \in Request |-> NoRow]
    /\ left = [r \in Request |-> [q \in Quota |-> 0]]
    /\ leaked = [s \in Slot |-> 0]

To(r, p) == phase' = [phase EXCEPT ![r] = p]

\* The policy is looked up first; then come the subscription and the balance,
\* which are awaited and may refuse (or the chain or the policy is unknown).
Receive(r) ==
    /\ phase[r] = "new"
    /\ To(r, "received")
    /\ rules' = [rules EXCEPT ![r] = policy]
    /\ UNCHANGED <<now, policy, edits, faults, used, at, todo, reserved, row,
                   left, leaked>>

Refuse(r) ==
    /\ phase[r] = "received"
    /\ To(r, "denied")
    /\ UNCHANGED <<now, policy, edits, faults, used, rules, at, todo, reserved,
                   row, left, leaked>>

Begin(r) ==
    /\ phase[r] = "received"
    /\ To(r, "evaluating")
    /\ at' = [at EXCEPT ![r] = now]
    /\ todo' = [todo EXCEPT ![r] = rules[r]]
    /\ UNCHANGED <<now, policy, edits, faults, used, rules, reserved, row, left,
                   leaked>>

\* The rule `evaluate` has come to.
Turn(r, q) ==
    /\ phase[r] = "evaluating"
    /\ q \in todo[r]
    /\ \A p \in todo[r] : q =< p

Allow(r, q) ==
    /\ todo' = [todo EXCEPT ![r] = @ \ {q}]
    /\ reserved' = [reserved EXCEPT ![r] = @ \cup {q}]
    /\ UNCHANGED <<phase, rules, at, row>>

Deny(r) ==
    /\ To(r, "denying")
    /\ UNCHANGED <<rules, at, todo, reserved, row>>

Carries(r, q) == request[r].subject[q] # NoSubject

\* QuotaRule.evaluate without a subject: nothing is counted.
EvaluateUnkeyed(r, q) ==
    /\ Turn(r, q)
    /\ ~Carries(r, q)
    /\ \/ quota[q].onMissingSubject = "skip" /\ Allow(r, q)
       \/ quota[q].onMissingSubject = "deny" /\ Deny(r)
    /\ UNCHANGED <<now, policy, edits, faults, used, left, leaked>>

\* QuotaRule.evaluate: the store checks and counts in one step.
EvaluateQuota(r, q) ==
    LET s == SlotOf(q, r, at[r])
        amount == AmountFor(q, r)
    IN  /\ Turn(r, q)
        /\ Carries(r, q)
        /\ \/ /\ Fits(s, amount)
              /\ used' = [used EXCEPT ![s] = @ + amount]
              /\ left' = [left EXCEPT ![r][q] = amount]
              /\ Allow(r, q)
           \/ /\ ~Fits(s, amount)
              /\ Deny(r)
              /\ UNCHANGED <<used, left>>
        /\ UNCHANGED <<now, policy, edits, faults, leaked>>

\* The store's call fails, before or after it counted: RULE_ERROR denies, and
\* this rule is not among those released.
EvaluateFails(r, q) ==
    LET s == SlotOf(q, r, at[r])
        amount == AmountFor(q, r)
    IN  /\ Turn(r, q)
        /\ Carries(r, q)
        /\ \/ /\ Fails("consumeRefused")
              /\ UNCHANGED used
           \/ /\ Fails("consumeReplyLost")
              /\ Fits(s, amount)
              /\ used' = [used EXCEPT ![s] = @ + amount]
        /\ Deny(r)
        /\ UNCHANGED <<now, policy, edits, left, leaked>>

\* The connection is lost after the store counted, and the client sends the call
\* again: it counts once more, or denies what has been counted.
EvaluateResent(r, q) ==
    LET s == SlotOf(q, r, at[r])
        amount == AmountFor(q, r)
    IN  /\ Turn(r, q)
        /\ Carries(r, q)
        /\ Fits(s, amount)
        /\ Fails("consumeResent")
        /\ \/ /\ Fits(s, 2 * amount)
              /\ used' = [used EXCEPT ![s] = @ + 2 * amount]
              /\ left' = [left EXCEPT ![r][q] = amount]
              /\ Allow(r, q)
           \/ /\ ~Fits(s, 2 * amount)
              /\ used' = [used EXCEPT ![s] = @ + amount]
              /\ Deny(r)
              /\ UNCHANGED left
        /\ UNCHANGED <<now, policy, edits, leaked>>

\* A rule that reserves nothing denies: the pure ones run before the quotas,
\* the ones that read the chain after them.
CheckDenies(r) ==
    /\ phase[r] = "evaluating"
    /\ todo[r] \in {rules[r], {}}
    /\ Deny(r)
    /\ UNCHANGED <<now, policy, edits, faults, used, left, leaked>>

Approve(r) ==
    /\ phase[r] = "evaluating"
    /\ todo[r] = {}
    /\ To(r, "approved")
    /\ UNCHANGED <<now, policy, edits, faults, used, rules, at, todo, reserved,
                   row, left, leaked>>

----------------------------------------------------------------------------
(* Signing and recording *)

Attest(r) ==
    /\ phase[r] = "approved"
    /\ \/ To(r, "attested") /\ UNCHANGED faults
       \/ To(r, "failing") /\ Fails("attest")
    /\ UNCHANGED <<now, policy, edits, used, rules, at, todo, reserved, row,
                   left, leaked>>

\* The insert commits at the database's now(); the reconciler will read it
\* rounded to the nearest second.
InsertRow(r) ==
    /\ phase[r] = "attested"
    /\ \/ /\ To(r, "recorded")
          /\ \E second \in {now, now + 1} : row' = [row EXCEPT ![r] = second]
          /\ UNCHANGED faults
       \/ /\ To(r, "failing")
          /\ Fails("insertRefused")
          /\ UNCHANGED row
    /\ UNCHANGED <<now, policy, edits, used, rules, at, todo, reserved, left,
                   leaked>>

\* The caller gets the attestation only when the insert was acknowledged.
Answer(r) ==
    /\ phase[r] = "recorded"
    /\ \/ To(r, "issued") /\ UNCHANGED faults
       \/ To(r, "failing") /\ Fails("insertReplyLost")
    /\ UNCHANGED <<now, policy, edits, used, rules, at, todo, reserved, row,
                   left, leaked>>

----------------------------------------------------------------------------
(* Compensation *)

\* releaseAll: the releases run concurrently and each may fail on its own.  A
\* release sent again after a lost connection is executed again.
ReleaseReservation(r, q) ==
    LET s == SlotOf(q, r, at[r])
        amount == AmountFor(q, r)
        unowed == amount - left[r][q]
    IN  /\ phase[r] \in {"denying", "failing"}
        /\ q \in reserved[r]
        /\ reserved' = [reserved EXCEPT ![r] = @ \ {q}]
        /\ left' = [left EXCEPT ![r][q] = 0]
        /\ IF Carries(r, q)
           THEN \/ /\ Release(s, amount)
                   /\ Leak(s, unowed)
                   /\ UNCHANGED faults
                \/ /\ Fails("releaseRefused")
                   /\ UNCHANGED <<used, leaked>>
                \/ /\ Fails("releaseResent")
                   /\ Release(s, 2 * amount)
                   /\ Leak(s, unowed + amount)
           ELSE UNCHANGED <<used, leaked, faults>>
        /\ UNCHANGED <<now, policy, edits, phase, rules, at, todo, row>>

\* The denial, or the error that caused the compensation, is returned.  (Slips:
\* without waiting for every release; or the error is not thrown again.)
FinishEarly(r) ==
    /\ \/ phase[r] = "denying" /\ To(r, "denied")
       \/ phase[r] = "failing" /\ To(r, "failed")
    /\ UNCHANGED <<now, policy, edits, faults, used, rules, at, todo, reserved,
                   row, left, leaked>>
FinishDenied(r) ==
    /\ reserved[r] = {}
    /\ phase[r] = "denying" /\ To(r, "denied")
    /\ UNCHANGED <<now, policy, edits, faults, used, rules, at, todo, reserved,
                   row, left, leaked>>
Finish(r) ==
    /\ reserved[r] = {}
    /\ \/ phase[r] = "denying" /\ To(r, "denied")
       \/ phase[r] = "failing" /\ To(r, "failed")
    /\ UNCHANGED <<now, policy, edits, faults, used, rules, at, todo, reserved,
                   row, left, leaked>>

\* The replica dies in the middle of a request; nothing is compensated.
Die(r) ==
    /\ phase[r] \in {"received", "evaluating", "approved", "attested",
                     "recorded", "denying", "failing"}
    /\ Fails("replicaDies")
    /\ To(r, "dead")
    /\ UNCHANGED <<now, policy, edits, used, rules, at, todo, reserved, row,
                   left, leaked>>

\* Calls of Redis and of the KMS have no timeout of their own: one whose
\* connection stays open and silent never returns, whether it was executed or
\* not, and the request waits for good.  (The database and the chains do have
\* timeouts.)
Hang(r) ==
    /\ \/ phase[r] = "approved"
       \/ \E q \in Quota :
            /\ Carries(r, q)
            /\ \/ Turn(r, q)
               \/ /\ phase[r] \in {"denying", "failing"}
                  /\ q \in rules[r] \ todo[r]
    /\ Fails("neverReturns")
    /\ To(r, "hung")
    /\ UNCHANGED <<now, policy, edits, used, rules, at, todo, reserved, row,
                   left, leaked>>

----------------------------------------------------------------------------
(* The policy is edited and reloaded; time passes *)

SetPolicy(p) ==
    /\ edits < MaxEdits
    /\ edits' = edits + 1
    /\ policy' = p
    /\ UNCHANGED <<now, faults, used, serviceVars, left, leaked>>

Tick ==
    /\ now < MaxTime
    /\ now' = now + 1
    /\ UNCHANGED <<policy, edits, faults, used, serviceVars, left, leaked>>

Serve(r) ==
    \/ Receive(r) \/ Refuse(r) \/ Begin(r)
    \/ \E q \in Quota :
         \/ EvaluateUnkeyed(r, q) \/ EvaluateQuota(r, q) \/ EvaluateFails(r, q)
         \/ EvaluateResent(r, q) \/ ReleaseReservation(r, q)
    \/ CheckDenies(r) \/ Approve(r)
    \/ Attest(r) \/ InsertRow(r) \/ Answer(r)
    \/ Finish(r)

SponsorNext ==
    \/ \E r \in Request : Serve(r) \/ Hang(r) \/ Die(r)
    \/ \E p \in Policy : SetPolicy(p)
    \/ Tick

SponsorSpec == Init /\ [][SponsorNext]_sponsorVars

\* A replica goes on with a request as long as what it awaits returns or times
\* out; a call that does neither is the step Hang.
FairSponsorSpec == SponsorSpec /\ \A r \in Request : WF_sponsorVars(Serve(r))

----------------------------------------------------------------------------
(* Properties *)

\* What a request charged to a counter and still holds there; one that was
\* denied or failed has no right to anything.
HeldBy(r, s) ==
    IF SlotOf(s.quota, r, at[r]) = s /\ phase[r] \notin {"denied", "failed"}
    THEN left[r][s.quota] ELSE 0

Owed(s) == SumOver([r \in Request |-> HeldBy(r, s)], Request)

\* The types of the variables; a request never releases what it has not taken.
SponsorTypeOK ==
    /\ now \in Nat /\ edits \in Nat /\ faults \in Nat
    /\ policy \in SUBSET Quota
    /\ used \in [Slot -> Nat]
    /\ phase \in [Request -> Phase]
    /\ rules \in [Request -> SUBSET Quota]
    /\ at \in [Request -> 0..MaxTime]
    /\ todo \in [Request -> SUBSET Quota]
    /\ reserved \in [Request -> SUBSET Quota]
    /\ row \in [Request -> {NoRow} \cup 0..(MaxTime + 1)]
    /\ left \in [Request -> [Quota -> Nat]]
    /\ leaked \in [Slot -> Nat]

\* No counter exceeds its limit, and none ever understates what requests hold
\* against it, except by what releases executed twice took off it: whatever
\* the order of requests, denials, failures and lost replies, nobody is given
\* budget that another request still holds.
CountersCover ==
    \A s \in Slot : /\ used[s] =< CountedLimit(s.quota)
                    /\ Owed(s) =< used[s] + leaked[s]

\* As long as the store does as it is told, a counter is exactly what the
\* requests hold against it: a refused or failed request gives back all it
\* took, of every rule, and in the window it took it from.
CountersExact ==
    Fault \cap {"consumeReplyLost", "consumeResent", "releaseRefused", "releaseResent"} = {}
        => \A s \in Slot : used[s] = Owed(s)

\* Each counter is a budget (module Budget) that its requests take from and
\* give back to, as long as no release is executed twice.
Budgets == INSTANCE Budget WITH
    Holder <- Request,
    Limit <- [s \in Slot |-> CountedLimit(s.quota)],
    held <- [s \in Slot |-> [r \in Request |-> HeldBy(r, s)]]

ImplementsBudget == Budgets!Spec

\* Every request that is received is answered, with whatever failures, unless
\* its replica dies or a call without a timeout never returns.
Answered ==
    \A r \in Request :
        phase[r] = "received" ~> phase[r] \in {"issued", "denied", "failed", "hung", "dead"}
=============================================================================
