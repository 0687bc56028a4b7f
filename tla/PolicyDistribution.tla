------------------------- MODULE PolicyDistribution -------------------------
(***************************************************************************)
(* How a policy change reaches every replica: AdminService writes it,      *)
(* reloads the PolicySource of its own replica and announces it; on every  *)
(* replica PolicyReloader reloads on announcements and on a timer.         *)
(*                                                                         *)
(* A policy set is its version.  Loading takes two queries, one for the    *)
(* policies and one for the plans whose ceilings they get.                 *)
(***************************************************************************)
EXTENDS Integers, FiniteSets

CONSTANTS
    Replica,
    Call,            \* calls of the admin API
    call,            \* their fields, see CallFields
    Fault,           \* kinds of failures that happen, see Faults
    MaxFaults,       \* bound: failures, of one kind each
    MaxPlanChanges   \* bound: changes of a tenant's plan

CallFields == [replica : Replica, edits : BOOLEAN]
Faults == {"query fails", "announcement lost", "replica dies"}

Trigger == {"timer", "announcement"}

ASSUME DistributionAssumption ==
    /\ call \in [Call -> CallFields] /\ IsFiniteSet(Call)
    /\ Call \cap (Replica \X Trigger) = {}
    /\ Fault \subseteq Faults /\ MaxFaults \in Nat /\ MaxPlanChanges \in Nat

VARIABLES
    db,         \* the committed policies and plans
    up,         \* replicas that serve
    loaded,     \* #policies of each replica
    load,       \* loads in flight: of the timer, of announcements, of calls
    reloading,  \* #reloading of each replica
    again,      \* #reloadAgain of each replica
    coalescing, \* replicas whose #coalesceTimer is set
    inbox,      \* announcements on their way to each replica
    step,       \* where each call is
    wrote,      \* the version each call wrote
    newest,     \* the newest that each replica has ever served
    failed      \* kinds of failures that happened

reloaderVars == <<reloading, again, coalescing>>
callVars == <<step, wrote>>
vars == <<db, up, loaded, load, reloaderVars, inbox, callVars, newest, failed>>

Loader == (Replica \X Trigger) \cup Call
Snapshot == [policies : Nat, plans : Nat]
First == [policies |-> 0, plans |-> 0]
NoLoad == [step |-> "none"]
Querying == [step |-> "policies"]
Load == {NoLoad, Querying}
        \cup [step : {"plans"}, policies : Nat]
        \cup [step : {"assign"}, policies : Nat, plans : Nat]

\* app.module.ts reloads before the replica serves.
Init ==
    /\ db = First
    /\ up = Replica
    /\ loaded = [p \in Replica |-> First]
    /\ load = [l \in Loader |-> NoLoad]
    /\ reloading = [p \in Replica |-> FALSE]
    /\ again = [p \in Replica |-> FALSE]
    /\ coalescing = {}
    /\ inbox = [p \in Replica |-> 0]
    /\ step = [c \in Call |-> "new"]
    /\ wrote = [c \in Call |-> 0]
    /\ newest = [p \in Replica |-> First]
    /\ failed = {}

Fails(kind) ==
    /\ kind \in Fault \ failed
    /\ Cardinality(failed) < MaxFaults
    /\ failed' = failed \cup {kind}

----------------------------------------------------------------------------
(* PolicySource.reload *)

ReplicaOf(l) == IF l \in Call THEN call[l].replica ELSE l[1]

\* The query of PostgresPolicyRepository.load.
QueryPolicies(l) ==
    /\ load[l] = Querying
    /\ load' = [load EXCEPT ![l] = [step |-> "plans", policies |-> db.policies]]
    /\ UNCHANGED <<db, up, loaded, reloaderVars, inbox, callVars, newest, failed>>

\* planIdsByTenant, after which PlanCeilingPolicyRepository.load returns.
QueryPlans(l) ==
    /\ load[l].step = "plans"
    /\ load' = [load EXCEPT ![l] = [step |-> "assign", policies |-> load[l].policies,
                                    plans |-> db.plans]]
    /\ UNCHANGED <<db, up, loaded, reloaderVars, inbox, callVars, newest, failed>>

Later(a, b) == IF a < b THEN b ELSE a
Newer(old, new) ==
    [policies |-> Later(old.policies, new.policies), plans |-> Later(old.plans, new.plans)]

\* The single assignment.
Assigned(l) ==
    LET p == ReplicaOf(l)
        next == [policies |-> load[l].policies, plans |-> load[l].plans]
    IN  /\ load[l].step = "assign"
        /\ loaded' = [loaded EXCEPT ![p] = next]
        /\ newest' = [newest EXCEPT ![p] = Newer(@, next)]

----------------------------------------------------------------------------
(* PolicyReloader *)

\* reloadNow.  (Slip: concurrent reloads are not serialised.)
ReloadAtOnce(p, trigger) ==
    /\ reloading' = [reloading EXCEPT ![p] = TRUE]
    /\ again' = [again EXCEPT ![p] = FALSE]
    /\ load' = [load EXCEPT ![<<p, trigger>>] = Querying]
ReloadNow(p, trigger) ==
    IF reloading[p]
    THEN again' = [again EXCEPT ![p] = TRUE] /\ UNCHANGED <<reloading, load>>
    ELSE ReloadAtOnce(p, trigger)

\* The interval loop, whose next tick is scheduled when the last has settled.
TimerFires(p) ==
    /\ p \in up
    /\ load[<<p, "timer">>] = NoLoad
    /\ ReloadNow(p, "timer")
    /\ UNCHANGED <<db, up, loaded, coalescing, inbox, callVars, newest, failed>>

\* #onBroadcast: further announcements are absorbed until the timer fires.
OnBroadcast(p) ==
    /\ inbox[p] > 0
    /\ inbox' = [inbox EXCEPT ![p] = @ - 1]
    /\ coalescing' = coalescing \cup {p}
    /\ UNCHANGED <<db, up, loaded, load, reloading, again, callVars, newest, failed>>

CoalesceTimerFires(p) ==
    /\ p \in coalescing
    /\ coalescing' = coalescing \ {p}
    /\ ReloadNow(p, "announcement")
    /\ UNCHANGED <<db, up, loaded, inbox, callVars, newest, failed>>

\* The load is installed, and repeated if it was asked for in the meantime.
\* A replica that boots serves from here on.
Reloaded(p, trigger) ==
    LET l == <<p, trigger>>
    IN  /\ Assigned(l)
        /\ up' = up \cup {p}
        /\ load' = [load EXCEPT ![l] = IF again[p] THEN Querying ELSE NoLoad]
        /\ again' = [again EXCEPT ![p] = FALSE]
        /\ reloading' = [reloading EXCEPT ![p] = again[p]]
        /\ UNCHANGED <<db, coalescing, inbox, callVars, failed>>

Settled(p) == [reloading EXCEPT ![p] = FALSE]

\* A query fails: what was loaded before stays.
ReloadFails(p, trigger) ==
    LET l == <<p, trigger>>
    IN  /\ load[l] # NoLoad
        /\ Fails("query fails")
        /\ load' = [load EXCEPT ![l] = NoLoad]
        /\ reloading' = Settled(p)
        /\ UNCHANGED <<db, up, loaded, again, coalescing, inbox, callVars, newest>>

----------------------------------------------------------------------------
(* AdminService *)

To(c, s) == step' = [step EXCEPT ![c] = s]

\* #reloadEverywhere calls PolicySource.reload itself.
Reload(c) == load' = [load EXCEPT ![c] = Querying] /\ UNCHANGED again /\ To(c, "reloading")

\* upsertPolicy or deletePolicy up to their commit, or reloadPolicies, which
\* changes nothing; then the reload begins.
Ask(c) ==
    /\ step[c] = "new"
    /\ call[c].replica \in up
    /\ IF call[c].edits
       THEN /\ db' = [db EXCEPT !.policies = @ + 1]
            /\ wrote' = [wrote EXCEPT ![c] = db.policies + 1]
       ELSE UNCHANGED <<db, wrote>>
    /\ Reload(c)
    /\ UNCHANGED <<up, loaded, reloading, coalescing, inbox, newest, failed>>

\* The awaited reload is done, whatever the replica's reloader does meanwhile.
CallReloaded(c) ==
    /\ Assigned(c)
    /\ load' = [load EXCEPT ![c] = NoLoad]
    /\ To(c, "reloaded")
    /\ UNCHANGED <<db, up, reloaderVars, inbox, wrote, failed>>

\* The change is committed, but neither served here nor announced.
CallFails(c) ==
    /\ step[c] = "reloading"
    /\ Fails("query fails")
    /\ load' = [load EXCEPT ![c] = NoLoad]
    /\ To(c, "failed")
    /\ UNCHANGED <<db, up, loaded, reloaderVars, inbox, wrote, newest>>

\* publish, which never throws; Redis passes the announcement on to whoever
\* is subscribed, this replica included, and keeps it for nobody.
Publish(c) ==
    /\ step[c] = "reloaded"
    /\ To(c, "answered")
    /\ \E reached \in SUBSET up :
         /\ IF reached = up THEN UNCHANGED failed ELSE Fails("announcement lost")
         /\ inbox' = [p \in Replica |-> IF p \in reached THEN inbox[p] + 1 ELSE inbox[p]]
    /\ UNCHANGED <<db, up, loaded, load, reloaderVars, wrote, newest>>

----------------------------------------------------------------------------
(* The surroundings *)

\* A payment puts a tenant on another plan; nobody is told.
ChangePlan ==
    /\ db.plans < MaxPlanChanges
    /\ db' = [db EXCEPT !.plans = @ + 1]
    /\ UNCHANGED <<up, loaded, load, reloaderVars, inbox, callVars, newest, failed>>

\* The replica dies with its calls, and what it had been told is lost.
Die(p) ==
    /\ p \in up
    /\ Fails("replica dies")
    /\ up' = up \ {p}
    /\ load' = [l \in Loader |-> IF ReplicaOf(l) = p THEN NoLoad ELSE load[l]]
    /\ reloading' = [reloading EXCEPT ![p] = FALSE]
    /\ again' = [again EXCEPT ![p] = FALSE]
    /\ coalescing' = coalescing \ {p}
    /\ inbox' = [inbox EXCEPT ![p] = 0]
    /\ step' = [c \in Call |-> IF call[c].replica = p /\ step[c] \in {"reloading", "reloaded"}
                               THEN "failed" ELSE step[c]]
    /\ UNCHANGED <<db, loaded, wrote, newest>>

\* A new process loads before it serves; it has no timers yet.
Boot(p) ==
    /\ p \notin up
    /\ load[<<p, "timer">>] = NoLoad
    /\ ReloadNow(p, "timer")
    /\ UNCHANGED <<db, up, loaded, coalescing, inbox, callVars, newest, failed>>

ReloaderStep(p) ==
    \E t \in Trigger : QueryPolicies(<<p, t>>) \/ QueryPlans(<<p, t>>) \/ Reloaded(p, t)

Next ==
    \/ \E l \in Loader : QueryPolicies(l) \/ QueryPlans(l)
    \/ \E p \in Replica :
         \/ TimerFires(p) \/ OnBroadcast(p) \/ CoalesceTimerFires(p)
         \/ \E t \in Trigger : Reloaded(p, t) \/ ReloadFails(p, t)
         \/ Die(p) \/ Boot(p)
    \/ \E c \in Call : Ask(c) \/ CallReloaded(c) \/ CallFails(c) \/ Publish(c)
    \/ ChangePlan

Spec == Init /\ [][Next]_vars

\* Only the interval loop, the loads it awaits and the supervisor that restarts
\* a process go on: announcements may stay away for ever, and calls may hang.
FairSpec ==
    /\ Spec
    /\ \A p \in Replica : WF_vars(TimerFires(p)) /\ WF_vars(ReloaderStep(p)) /\ WF_vars(Boot(p))

----------------------------------------------------------------------------
(* Properties *)

\* The types of the variables; `reloading` is set as long as a load of the
\* reloader is in flight, and at most one of them is.
TypeOK ==
    /\ db \in Snapshot
    /\ up \subseteq Replica
    /\ loaded \in [Replica -> Snapshot] /\ newest \in [Replica -> Snapshot]
    /\ load \in [Loader -> Load]
    /\ \A p \in Replica :
         Cardinality({t \in Trigger : load[<<p, t>>] # NoLoad}) = IF reloading[p] THEN 1 ELSE 0
    /\ again \in [Replica -> BOOLEAN]
    /\ coalescing \subseteq up
    /\ inbox \in [Replica -> 0..Cardinality(Call)]
    /\ step \in [Call -> {"new", "reloading", "reloaded", "answered", "failed"}]
    /\ wrote \in [Call -> Nat]
    /\ failed \subseteq Fault


\* "the response only claims success once the new policy is actually serving"
\* (admin.service.ts): it has been, on the replica that answered.
AnsweredWasServed ==
    \A c \in Call : step[c] = "answered" => wrote[c] =< newest[call[c].replica].policies

\* "the last state of the database always wins" (policyReloader.ts): a replica
\* never goes back to an older policy set, unless admin calls reload it beside
\* the reloader.
NeverGoesBack ==
    \A p \in up : (\A c \in Call : call[c].replica # p) => loaded[p] = newest[p]

\* Loads are installed in order: one at a time by the reloader, and none that
\* an answer or a replica would take back.
DistributionInOrder == TypeOK /\ AnsweredWasServed /\ NeverGoesBack
=============================================================================
