------------------------------ MODULE Alerting ------------------------------
(***************************************************************************)
(* From a chain that runs dry to an incident at the pager:                 *)
(* `FundingMonitor` polls on every replica, its `AlertGate` turns what is  *)
(* wrong now into fires and resolves, `LeaderOnlyAlerter` lets only the    *)
(* holder of a lease in Redis (`RedisLeaderLock`) deliver them, and        *)
(* `WebhookAlerter` posts them with retries.                               *)
(*                                                                         *)
(* A step is the code between two awaits or one command executed by Redis. *)
(* Time is relative: what is left of the lease, and the age of a fire.     *)
(***************************************************************************)
EXTENDS Naturals, FiniteSets

CONSTANTS
    Process,     \* the processes' slots
    None,        \* no holder of the lease
    Orphan,      \* a holder whose process is gone: holders are unique per process
    Low,         \* what can be low on a chain: its deposit, its stake
    ReadError,   \* the alert that funding cannot be read
    Reading,     \* the states of the chain in this instance
    Paged,       \* the alerts that reach `minSeverity`
    Ttl,         \* LEADER_LOCK_TTL_MS, in ticks
    ReAlert,     \* FUNDING_MONITOR_REALERT_MS, in ticks
    Retries,     \* attempts of the webhook after the first
    AlertFault,  \* the failures and shutdowns of this instance
    MaxAlertFaults, \* how many of them
    MaxChanges   \* how often the chain's state changes

ASSUME AlertingAssumption ==
    /\ Ttl \in Nat \ {0}
    /\ Process \cap {None, Orphan} = {}

Alert == Low \cup {ReadError}
Off == ReAlert + 1   \* not firing

VARIABLES
    chain,      \* the truth: is the funding readable, and what is low
    lease,      \* the key in Redis: its holder and the ticks it has left
    held,       \* `#held` of each lock
    timer,      \* is the timer of LeadershipService due
    lockCall,   \* the reply to `tryAcquire` that is on its way
    life,       \* of each process: "up", "releasing" its lease, "stopped"
    firing,     \* `#firing` of each gate: ticks since the last fire
    fired,      \* `#fired` of each webhook sink
    fires,      \* alerts that a reconcile has still to fire
    resolves,   \* and to resolve after them
    post,       \* the delivery under way
    incident,   \* the alerts open at the pager
    pagedBy,    \* history: who opened the incident last
    granted,    \* history: ticks since Redis last granted a replica the lease
    disturbed,  \* history: alerts whose delivery a fault or a handover disturbed
    used        \* how many changes and faults there were

lockVars == <<lease, held, timer, lockCall, granted>>
gateVars == <<firing, fired, fires, resolves, post>>
pagerVars == <<incident, pagedBy>>
alertVars == <<chain, lockVars, life, gateVars, pagerVars, disturbed, used>>

NoPost == [op |-> "none", alert |-> ReadError, attempts |-> 0]

Suffers(f) ==
    /\ f \in AlertFault
    /\ used.faults < MaxAlertFaults
    /\ used' = [used EXCEPT !.faults = @ + 1]

\* The alerts that a reading of a chain calls for.
ToAlerts(reading) == IF reading.readable THEN reading.low ELSE {ReadError}

AlertInit ==
    /\ chain \in Reading
    /\ lease = [holder |-> None, left |-> 0]
    /\ held = [r \in Process |-> FALSE]
    /\ timer = [r \in Process |-> TRUE]
    /\ lockCall = [r \in Process |-> "none"]
    /\ life = [r \in Process |-> "up"]
    /\ firing = [r \in Process |-> [a \in Alert |-> Off]]
    /\ fired = [r \in Process |-> {}]
    /\ fires = [r \in Process |-> {}]
    /\ resolves = [r \in Process |-> {}]
    /\ post = [r \in Process |-> NoPost]
    /\ incident = {}
    /\ pagedBy = [a \in Alert |-> None]
    /\ granted = [r \in Process |-> Ttl]
    /\ disturbed = {}
    /\ used = [changes |-> 0, faults |-> 0]
-----------------------------------------------------------------------------
(* Time and the chain *)

\* A tick is the interval of LeadershipService, a third of the TTL.  Its timer
\* and a command of Redis take less: time passes them by only if the process stalls.
Late ==
    \E r \in Process :
        /\ life[r] = "up"
        /\ timer[r] \/ lockCall[r] # "none"

Elapse ==
    /\ lease' = IF lease.left > 1 THEN [lease EXCEPT !.left = @ - 1]
                ELSE [holder |-> None, left |-> 0]
    /\ timer' = [r \in Process |-> TRUE]
    /\ firing' = [r \in Process |-> [a \in Alert |->
                    IF firing[r][a] < ReAlert THEN firing[r][a] + 1
                    ELSE firing[r][a]]]
    /\ granted' = [r \in Process |-> IF granted[r] < Ttl THEN granted[r] + 1 ELSE Ttl]
    /\ UNCHANGED <<chain, held, lockCall, life, fired, fires, resolves, post,
                   pagerVars, disturbed>>

Tick == ~Late /\ Elapse /\ UNCHANGED used
Stall == Late /\ Suffers("stall") /\ Elapse

ChainChanges ==
    /\ used.changes < MaxChanges
    /\ \E reading \in Reading \ {chain} : chain' = reading
    /\ used' = [used EXCEPT !.changes = @ + 1]
    /\ UNCHANGED <<lockVars, life, gateVars, pagerVars, disturbed>>
-----------------------------------------------------------------------------
(* RedisLeaderLock *)

\* RENEW_SCRIPT extends our own lease; SET NX takes a free one.  (Slip: SET.)
RenewScript(r) == lease.holder = r
SlipSet(r) == TRUE
SetNX(r) == lease.holder = None
Grants(r) == IF held[r] THEN RenewScript(r) ELSE SetNX(r)

Executed(r, reply) ==
    /\ lockCall' = [lockCall EXCEPT ![r] = reply]
    /\ IF Grants(r)
       THEN /\ lease' = [holder |-> r, left |-> Ttl]
            /\ granted' = [granted EXCEPT ![r] = 0]
       ELSE UNCHANGED <<lease, granted>>

\* The timer of LeadershipService: renew what is held, else try to take it, up
\* to the command's execution.  Its reply is on its way.
TryAcquire(r) ==
    /\ life[r] = "up" /\ timer[r] /\ lockCall[r] = "none"
    /\ timer' = [timer EXCEPT ![r] = FALSE]
    /\ \/ Executed(r, IF Grants(r) THEN "yes" ELSE "no") /\ UNCHANGED used
       \/ Executed(r, "error") /\ Suffers("redis reply lost")
       \/ /\ Suffers("redis unreachable")
          /\ lockCall' = [lockCall EXCEPT ![r] = "error"]
          /\ UNCHANGED <<lease, granted>>
    /\ UNCHANGED <<chain, held, life, gateVars, pagerVars, disturbed>>

\* Leadership is lost or given up: incidents this replica opened are disturbed.
StepsDown(r) == disturbed' = disturbed \cup {a \in Alert : pagedBy[a] = r}

\* A refusal and an error both step down.
LockReply(r) ==
    /\ lockCall[r] # "none"
    /\ held' = [held EXCEPT ![r] = lockCall[r] = "yes"]
    /\ lockCall' = [lockCall EXCEPT ![r] = "none"]
    /\ IF held[r] /\ ~held'[r] THEN StepsDown(r) ELSE UNCHANGED disturbed
    /\ UNCHANGED <<chain, lease, timer, granted, life, gateVars, pagerVars, used>>

\* LeadershipService.stop, the first of the services to be stopped: release()
\* sends RELEASE_SCRIPT if the lease is held, and nothing otherwise.
Stop(r) ==
    /\ life[r] = "up" /\ Suffers("shutdown")
    /\ life' = [life EXCEPT ![r] = IF held[r] THEN "releasing" ELSE "stopped"]
    /\ held' = [held EXCEPT ![r] = FALSE]
    /\ StepsDown(r)
    /\ UNCHANGED <<chain, lease, timer, lockCall, granted, gateVars, pagerVars>>

\* One connection executes commands in order, so a renewal went before.
ReleaseScript(r) ==
    /\ life[r] = "releasing"
    /\ life' = [life EXCEPT ![r] = "stopped"]
    /\ \/ /\ lease' = IF lease.holder = r THEN [holder |-> None, left |-> 0] ELSE lease
          /\ UNCHANGED used
       \/ Suffers("redis unreachable") /\ UNCHANGED lease
    /\ UNCHANGED <<chain, held, timer, lockCall, granted, gateVars, pagerVars, disturbed>>

\* The process ends and another takes its place: everything in memory is fresh,
\* and a lease that it left belongs to nobody alive.
Replace(r) ==
    /\ life' = [life EXCEPT ![r] = "up"]
    /\ held' = [held EXCEPT ![r] = FALSE]
    /\ lockCall' = [lockCall EXCEPT ![r] = "none"]
    /\ timer' = [timer EXCEPT ![r] = TRUE]
    /\ granted' = [granted EXCEPT ![r] = Ttl]
    /\ lease' = IF lease.holder = r THEN [lease EXCEPT !.holder = Orphan] ELSE lease
    /\ firing' = [firing EXCEPT ![r] = [a \in Alert |-> Off]]
    /\ fired' = [fired EXCEPT ![r] = {}]
    /\ fires' = [fires EXCEPT ![r] = {}]
    /\ resolves' = [resolves EXCEPT ![r] = {}]
    /\ post' = [post EXCEPT ![r] = NoPost]
    /\ StepsDown(r)
    /\ UNCHANGED <<chain, pagerVars>>

Exit(r) == life[r] = "stopped" /\ Replace(r) /\ UNCHANGED used
Dies(r) == Suffers("replica dies") /\ Replace(r)
-----------------------------------------------------------------------------
(* FundingMonitor and AlertGate *)

\* checkOnce up to the first delivery: what was not active or has been firing
\* for `reAlertMs` fires; what is no longer active resolves.  The interval
\* loop never overlaps two ticks.  (Slip: nothing is done when nothing is
\* wrong.)
SlipNothing(r, active) ==
    /\ firing' = [firing EXCEPT ![r] = [a \in Alert |->
                    IF a \in active /\ @[a] >= ReAlert THEN 0
                    ELSE IF active # {} /\ a \notin active THEN Off ELSE @[a]]]
    /\ fires' = [fires EXCEPT ![r] = {a \in active : firing[r][a] >= ReAlert}]
    /\ resolves' = [resolves EXCEPT ![r] =
                      {a \in Alert \ active : active # {} /\ firing[r][a] # Off}]
Reconcile(r, active) ==
    LET toFire == {a \in active : firing[r][a] >= ReAlert}
        toResolve == {a \in Alert \ active : firing[r][a] # Off}
    IN  /\ firing' = [firing EXCEPT ![r] = [a \in Alert |->
                        IF a \in toFire THEN 0
                        ELSE IF a \in toResolve THEN Off ELSE @[a]]]
        /\ fires' = [fires EXCEPT ![r] = toFire]
        /\ resolves' = [resolves EXCEPT ![r] = toResolve]

CheckOnce(r) ==
    /\ life[r] \in {"up", "releasing"}
    /\ fires[r] = {} /\ resolves[r] = {} /\ post[r] = NoPost
    /\ \/ Reconcile(r, ToAlerts(chain)) /\ UNCHANGED used
       \/ Suffers("local read error") /\ Reconcile(r, {ReadError})
    /\ UNCHANGED <<chain, lockVars, life, fired, post, pagerVars, disturbed>>

Posting(op, a) == [op |-> op, alert |-> a, attempts |-> Retries + 1]

\* LeaderOnlyAlerter.fire and WebhookAlerter.fire up to the first attempt.
Fire(r) ==
    /\ post[r] = NoPost
    /\ \E a \in fires[r] :
        /\ fires' = [fires EXCEPT ![r] = @ \ {a}]
        /\ IF held[r] /\ a \in Paged
           THEN /\ fired' = [fired EXCEPT ![r] = @ \cup {a}]
                /\ post' = [post EXCEPT ![r] = Posting("trigger", a)]
           ELSE UNCHANGED <<fired, post>>
    /\ UNCHANGED <<chain, lockVars, life, firing, resolves, pagerVars, disturbed, used>>

\* A resolve is sent only by a sink that fired the alert.
Resolve(r) ==
    /\ post[r] = NoPost /\ fires[r] = {}
    /\ \E a \in resolves[r] :
        /\ resolves' = [resolves EXCEPT ![r] = @ \ {a}]
        /\ IF held[r] /\ a \in fired[r]
           THEN /\ fired' = [fired EXCEPT ![r] = @ \ {a}]
                /\ post' = [post EXCEPT ![r] = Posting("resolve", a)]
           ELSE UNCHANGED <<fired, post>>
    /\ UNCHANGED <<chain, lockVars, life, firing, fires, pagerVars, disturbed, used>>

\* The pager correlates the two by their key.
Delivered(r) ==
    LET a == post[r].alert
    IN  IF post[r].op = "trigger"
        THEN /\ incident' = incident \cup {a}
             /\ pagedBy' = [pagedBy EXCEPT ![a] = r]
        ELSE incident' = incident \ {a} /\ UNCHANGED pagedBy

\* `#post`: an attempt that failed is repeated, a refusal is not; either way
\* CompositeAlerter swallows the error in the end.
Retried(r) ==
    post' = [post EXCEPT ![r] =
               IF @.attempts > 1 THEN [@ EXCEPT !.attempts = @ - 1] ELSE NoPost]

Attempt(r) ==
    /\ post[r] # NoPost
    /\ \/ /\ Delivered(r) /\ post' = [post EXCEPT ![r] = NoPost]
          /\ disturbed' = IF post[r].op = "resolve" THEN disturbed
                          ELSE IF held[r] /\ life[r] = "up" THEN disturbed \ {post[r].alert}
                          ELSE disturbed \cup {post[r].alert}
          /\ UNCHANGED used
       \/ /\ Suffers("pager reply lost") /\ Delivered(r) /\ Retried(r)
          /\ disturbed' = disturbed \cup {post[r].alert}
       \/ /\ Suffers("pager unreachable") /\ Retried(r)
          /\ disturbed' = disturbed \cup {post[r].alert} /\ UNCHANGED pagerVars
       \/ /\ Suffers("pager refuses") /\ post' = [post EXCEPT ![r] = NoPost]
          /\ disturbed' = disturbed \cup {post[r].alert} /\ UNCHANGED pagerVars
    /\ UNCHANGED <<chain, lockVars, life, firing, fired, fires, resolves>>
-----------------------------------------------------------------------------
Leadership(r) ==
    TryAcquire(r) \/ LockReply(r) \/ Stop(r) \/ ReleaseScript(r)
        \/ Exit(r) \/ Dies(r)
Monitoring(r) == CheckOnce(r) \/ Fire(r) \/ Resolve(r) \/ Attempt(r)

AlertNext == Tick \/ Stall \/ ChainChanges \/ \E r \in Process : Leadership(r) \/ Monitoring(r)

AlertSpec == AlertInit /\ [][AlertNext]_alertVars

\* Every loop goes on, Redis and the pager answer, a stopped process is
\* replaced, and time passes.
AlertFairness ==
    /\ WF_alertVars(Tick)
    /\ \A r \in Process :
        /\ WF_alertVars(TryAcquire(r)) /\ WF_alertVars(LockReply(r))
        /\ WF_alertVars(ReleaseScript(r)) /\ WF_alertVars(Exit(r))
        /\ WF_alertVars(CheckOnce(r)) /\ WF_alertVars(Fire(r)) /\ WF_alertVars(Resolve(r))
        /\ WF_alertVars(Attempt(r))

FairAlertSpec == AlertSpec /\ AlertFairness
-----------------------------------------------------------------------------
(* Properties *)

\* Two replicas believe that they lead only if one of them has stalled past
\* its lease or is shutting down (leaderLock.ts:22-26 allows the former).
OneLeaderUnlessStalled ==
    \A r, q \in Process :
        r # q /\ held[r] /\ held[q] => \E x \in {r, q} : granted[x] = Ttl \/ life[x] # "up"

\* A condition that lasts is paged and stays paged, whoever leads, whichever
\* fires were suppressed, lost or refused before (alertGate.ts:9-10).
LastingIsPaged ==
    \A a \in Paged : <>[](a \in ToAlerts(chain)) => <>[](a \in incident)

\* While the replica that paged keeps the lead and its posts arrive, the
\* incident is closed once the condition has cleared (webhookAlerter.ts:16-18).
ClearedIsResolved ==
    \A a \in Paged :
        (a \in incident /\ a \notin ToAlerts(chain) /\ a \notin disturbed)
            ~> (a \notin incident \/ a \in ToAlerts(chain) \/ a \in disturbed)

\* What the header of webhookAlerter.ts:16-18 says: a condition that clears
\* closes the incident it opened.
ClearedIsResolvedInTheEnd ==
    \A a \in Paged : <>[](a \notin ToAlerts(chain)) => <>[](a \notin incident)
=============================================================================
