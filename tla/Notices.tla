-------------------------------- MODULE Notices --------------------------------
(* The sweep that warns a customer before the subscription lapses and again in   *)
(* its grace window.  Every replica sweeps on its own timer: it asks which       *)
(* notices are due, claims each in the database and sends what it has claimed.   *)
(* The customer may renew at any time, the grace window may be changed, the      *)
(* tenant be suspended, the database fail or its reply be lost, and replicas     *)
(* die.  One tenant: the notices of others share nothing with its own but the    *)
(* sweep, which ends at the first that fails (AskFails, ClaimFails).             *)
EXTENDS Naturals

CONSTANTS
  Replicas,
  FirstPaidThrough,
  Graces,          \* the values grace_seconds is given
  NoticeSeconds,   \* noticeSeconds
  Interval,        \* seconds between two sweeps of a replica that lives, at most
  Period,          \* seconds a renewal buys
  LastSecond       \* bound: seconds

ASSUME NoticesAssumption ==
  /\ Replicas # {}
  /\ Graces \subseteq Nat
  /\ {NoticeSeconds, Interval, Period, LastSecond} \subseteq Nat
  /\ FirstPaidThrough \in 0..LastSecond

VARIABLES
  now,
  paidThrough,
  grace,           \* grace_seconds
  active,          \* the tenant's status is active
  sweep,           \* what each replica has found due and not dealt with, or is not sweeping
  sweptAt,         \* when each replica last asked
  claimed,         \* subscription_notices
  sent,            \* history: what was handed to the notifier, by notice
  unsent,          \* history: notices claimed, whose claimant then died or did not hear of it
  settledSince     \* history: since when the row, the grace and the tenant are as they are
                   \* and no sweep has failed

noticeVars == <<now, paidThrough, grace, active, sweep, sweptAt, claimed, sent, unsent, settledSince>>
rowVars == <<paidThrough, grace, active, settledSince>>

Kinds == {"renewal-due", "grace"}
Notice == [paidThrough : 0..(LastSecond + Period), kind : Kinds]
NoSweep == [is |-> "none", notice |-> [paidThrough |-> 0, kind |-> "grace"]]

NoticesInit ==
  /\ now = 0
  /\ paidThrough = FirstPaidThrough
  /\ grace \in Graces
  /\ active = TRUE
  /\ sweep = [r \in Replicas |-> NoSweep]
  /\ sweptAt = [r \in Replicas |-> 0]
  /\ claimed = {}
  /\ sent = [n \in Notice |-> 0]
  /\ unsent = {}
  /\ settledSince = 0

-------------------------------------------------------------------------------
Kind == IF paidThrough >= now THEN "renewal-due" ELSE "grace"
DueNow == [paidThrough |-> paidThrough, kind |-> Kind]

Window == paidThrough <= now + NoticeSeconds /\ paidThrough + grace >= now

(* dueForNotice                                                                 *)
Sweep(r) ==
  /\ sweep[r].is \in {"none", "starting"}
  /\ sweptAt' = [sweptAt EXCEPT ![r] = now]
  /\ sweep' = [sweep EXCEPT ![r] = IF active /\ Window /\ DueNow \notin claimed
                                  THEN [is |-> "due", notice |-> DueNow] ELSE NoSweep]
  /\ UNCHANGED <<now, claimed, sent, unsent>>
  /\ UNCHANGED rowVars

(* (Slip: the notice is sent whoever claimed it.)                               *)
ClaimedAnyway(r) == TRUE

ClaimedFirst(r) == sweep[r].notice \notin claimed

(* claimNotice: one insert wins.                                                *)
ClaimNotice(r) ==
  /\ sweep[r].is = "due"
  /\ claimed' = claimed \cup {sweep[r].notice}
  /\ sweep' = IF ClaimedFirst(r) THEN [sweep EXCEPT ![r].is = "claimed"] ELSE [sweep EXCEPT ![r] = NoSweep]
  /\ UNCHANGED <<now, sweptAt, sent, unsent>>
  /\ UNCHANGED rowVars

(* The database fails dueForNotice; the loop logs it and waits an interval.      *)
AskFails(r) ==
  /\ sweep[r].is \in {"none", "starting"}
  /\ sweptAt' = [sweptAt EXCEPT ![r] = now]
  /\ sweep' = [sweep EXCEPT ![r] = NoSweep]
  /\ settledSince' = now
  /\ UNCHANGED <<now, paidThrough, grace, active, claimed, sent, unsent>>

(* A claim fails, this one or that of a notice before it, and ends the sweep:    *)
(* nothing was inserted, or the row was and only the reply is lost.             *)
ClaimFails(r) ==
  /\ sweep[r].is = "due"
  /\ \/ UNCHANGED <<claimed, unsent>>
     \/ /\ ClaimedFirst(r)
        /\ claimed' = claimed \cup {sweep[r].notice}
        /\ unsent' = unsent \cup {sweep[r].notice}
  /\ sweep' = [sweep EXCEPT ![r] = NoSweep]
  /\ settledSince' = now
  /\ UNCHANGED <<now, paidThrough, grace, active, sweptAt, sent>>

(* Delivered or not: a sink that fails is logged.                               *)
Send(r) ==
  /\ sweep[r].is = "claimed"
  /\ sent' = [sent EXCEPT ![sweep[r].notice] = @ + 1]
  /\ sweep' = [sweep EXCEPT ![r] = NoSweep]
  /\ UNCHANGED <<now, sweptAt, claimed, unsent>>
  /\ UNCHANGED rowVars

(* A replica dies in its sweep; the one that replaces it sweeps as it starts.   *)
DieSweeping(r) ==
  /\ sweep[r].is \in {"due", "claimed"}
  /\ unsent' = IF sweep[r].is = "claimed" THEN unsent \cup {sweep[r].notice} ELSE unsent
  /\ sweep' = [sweep EXCEPT ![r] = [NoSweep EXCEPT !.is = "starting"]]
  /\ UNCHANGED <<now, sweptAt, claimed, sent>>
  /\ UNCHANGED rowVars

-------------------------------------------------------------------------------
(* recordPayment, in what it does to the row                                    *)
Renew ==
  /\ paidThrough < LastSecond
  /\ paidThrough' = (IF paidThrough > now THEN paidThrough ELSE now) + Period
  /\ settledSince' = now
  /\ UNCHANGED <<now, grace, active, sweep, sweptAt, claimed, sent, unsent>>

SetGraceSeconds ==
  /\ grace' \in Graces \ {grace}
  /\ settledSince' = now
  /\ UNCHANGED <<now, paidThrough, active, sweep, sweptAt, claimed, sent, unsent>>

SetTenantStatus ==
  /\ active' = ~active
  /\ settledSince' = now
  /\ UNCHANGED <<now, paidThrough, grace, sweep, sweptAt, claimed, sent, unsent>>

(* Timers keep their interval, and a sweep takes less than a second.            *)
SecondPasses ==
  /\ now < LastSecond
  /\ \A r \in Replicas : sweep[r].is = "none" /\ now + 1 - sweptAt[r] <= Interval
  /\ now' = now + 1
  /\ UNCHANGED <<sweep, sweptAt, claimed, sent, unsent>>
  /\ UNCHANGED rowVars

NoticesNext ==
  \/ \E r \in Replicas :
       Sweep(r) \/ ClaimNotice(r) \/ Send(r) \/ AskFails(r) \/ ClaimFails(r) \/ DieSweeping(r)
  \/ Renew \/ SetGraceSeconds \/ SetTenantStatus \/ SecondPasses

NoticesSpec == NoticesInit /\ [][NoticesNext]_noticeVars

-------------------------------------------------------------------------------
(* A notice reaches the customer at most once, and at least once unless whoever  *)
(* claimed it died, or was not told that it had: across replicas, sweeps and    *)
(* renewals (SubscriptionNoticeService.sweep, claimNotice).                     *)
SentOnce ==
  \A n \in Notice :
    /\ sent[n] <= 1
    /\ n \in claimed => sent[n] = 1 \/ n \in unsent \/ \E r \in Replicas : sweep[r].notice = n /\ sweep[r].is = "claimed"

(* Sponsorship does not stop without a word: where grace lasts as long as a      *)
(* sweep's interval, and nothing has changed and no sweep has failed since the   *)
(* period ended, the notice of the grace window has been claimed when the       *)
(* window closes (dueForNotice).                                                *)
WarnedBeforeRefused ==
  /\ now > paidThrough + grace /\ settledSince <= paidThrough
  /\ active /\ grace >= Interval
  => [paidThrough |-> paidThrough, kind |-> "grace"] \in claimed

(* Each notice once, and none too late.                                         *)
NoticesInTime == SentOnce /\ WarnedBeforeRefused
================================================================================
