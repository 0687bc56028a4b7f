------------------------------- MODULE Throttle -------------------------------
(* What stands in front of authentication: the per-IP rate and the block after  *)
(* repeated authentication failures, both counted in the store the replicas     *)
(* share, the request signature's window, and the guard that counts a failure.  *)
(* Requests interleave at every await; a call of the store may fail before or   *)
(* after it counted, and be sent again by the client.  One IP: the counters of others are      *)
(* other keys.                                                                  *)
EXTENDS Naturals, FiniteSets

CONSTANTS
  Requests,      \* requests of one IP
  Rate,          \* requestsPerWindow
  Threshold,     \* authFailureThreshold
  BlockWindow,   \* blockWindowSeconds; windowSeconds is one tick
  MaxSkew,       \* maxSkewSeconds of a signature
  ThrottleUntil  \* bound on the clock

VARIABLES
  ipNow,
  rate,      \* the rate counter, by window
  failures,  \* the failure counter, by window
  at,        \* where each request is
  arrived,   \* when it arrived
  barred,    \* whether the IP was blocked already when it arrived
  told,      \* the window its failure counts in, and what the store made of it; 0 if not yet counted
  alerts,    \* the alerts fired, by window
  missed     \* windows whose crossing was counted, and its reply lost

throttleVars == <<ipNow, rate, failures, at, arrived, barred, told, alerts, missed>>

(* The numbers of env.ts: positive integers.                                     *)
ASSUME ThrottleAssumption ==
  /\ Threshold \in Nat \ {0} /\ BlockWindow \in Nat \ {0}
  /\ Rate \in Nat /\ ThrottleUntil \in Nat

(* windowStart: fixed windows, aligned to the epoch.                            *)
Slot(time) == time \div BlockWindow

(* windowedKey: the counter of another window starts from nothing.              *)
ThrottleInit ==
  /\ ipNow = 0
  /\ rate = [t \in 0 .. ThrottleUntil |-> 0]
  /\ failures = [w \in 0 .. Slot(ThrottleUntil) |-> 0]
  /\ at = [r \in Requests |-> "none"]
  /\ arrived = [r \in Requests |-> 0]
  /\ barred = [r \in Requests |-> FALSE]
  /\ told = [r \in Requests |-> [slot |-> 0, count |-> 0]]
  /\ alerts = [w \in 0 .. Slot(ThrottleUntil) |-> 0]
  /\ missed = {}

Arrive(r) ==
  /\ at[r] = "none"
  /\ at' = [at EXCEPT ![r] = "onRequest"]
  /\ arrived' = [arrived EXCEPT ![r] = ipNow]
  /\ barred' = [barred EXCEPT ![r] = failures[Slot(ipNow)] >= Threshold]
  /\ UNCHANGED <<ipNow, rate, failures, told, alerts, missed>>

(* #isBlocked, with the time the hook read.                                     *)
Blocked(r) == failures[Slot(arrived[r])] >= Threshold

(* check, its first await; an error of the store is not caught and ends the     *)
(* request.                                                                     *)
CheckBlock(r) ==
  /\ at[r] = "onRequest"
  /\ \E to \in {IF Blocked(r) THEN "403" ELSE "unblocked", "500"} : at' = [at EXCEPT ![r] = to]
  /\ UNCHANGED <<ipNow, rate, failures, arrived, barred, told, alerts, missed>>

(* check, its second: tryConsume takes one of Rate, or nothing; when its reply   *)
(* is lost it may have taken one all the same.                                  *)
CheckRate(r) ==
  /\ at[r] = "unblocked"
  /\ \/ /\ rate[arrived[r]] + 1 > Rate
        /\ at' = [at EXCEPT ![r] = "429"]
        /\ UNCHANGED rate
     \/ /\ rate[arrived[r]] + 1 <= Rate
        /\ \E to \in {"preValidation", "500"} : at' = [at EXCEPT ![r] = to]
        /\ rate' = [rate EXCEPT ![arrived[r]] = @ + 1]
     \/ at' = [at EXCEPT ![r] = "500"] /\ UNCHANGED rate
  /\ UNCHANGED <<ipNow, failures, arrived, barred, told, alerts, missed>>

(* preValidation: a timestamp neither too old nor too far ahead.                *)
Timely(ts) == ipNow <= ts + MaxSkew /\ ts <= ipNow + MaxSkew

CheckSignature(r) ==
  /\ at[r] = "preValidation"
  /\ \E ts \in 0 .. ThrottleUntil : at' = [at EXCEPT ![r] = IF Timely(ts) THEN "guard" ELSE "401"]
  /\ UNCHANGED <<ipNow, rate, failures, arrived, barred, told, alerts, missed>>

(* canActivate: the credential is good, or its failure is to be counted, in the *)
(* window of this moment, before the answer.                                    *)
Authenticate(r) ==
  /\ at[r] = "guard"
  /\ \/ at' = [at EXCEPT ![r] = "handler"] /\ UNCHANGED told
     \/ /\ at' = [at EXCEPT ![r] = "failing"]
        /\ told' = [told EXCEPT ![r] = [slot |-> Slot(ipNow), count |-> 0]]
  /\ UNCHANGED <<ipNow, rate, failures, arrived, barred, alerts, missed>>

(* The execution that counted the failure of r was the one that crossed the     *)
(* threshold, and nobody has heard its reply yet.                               *)
Crossing(r) == at[r] \in {"counted", "recounted"} /\ told[r].count = Threshold

(* That reply is lost with the connection, or with the replica.                 *)
Unheard(r) == missed' = missed \cup (IF Crossing(r) THEN {told[r].slot} ELSE {})

(* CONSUME_SCRIPT runs in the store: once, or again because the connection was  *)
(* lost and the client sends what was not answered once more.                   *)
CountFailure(r) ==
  /\ \/ at[r] = "failing" /\ at' = [at EXCEPT ![r] = "counted"]
     \/ at[r] = "counted" /\ at' = [at EXCEPT ![r] = "recounted"]
  /\ Unheard(r)
  /\ LET w == told[r].slot
     IN  /\ failures' = [failures EXCEPT ![w] = @ + 1]
         /\ told' = [told EXCEPT ![r] = [slot |-> w, count |-> failures[w] + 1]]
  /\ UNCHANGED <<ipNow, rate, arrived, barred, alerts>>

(* (Slip: this failure is added once more to what is compared.)                 *)
FiresEarly(count) == count + 1 = Threshold
Fires(count) == count = Threshold

(* recordAuthFailure with the reply: the failure that reaches the threshold is   *)
(* announced.                                                                   *)
RecordAuthFailure(r) ==
  /\ at[r] \in {"counted", "recounted"}
  /\ at' = [at EXCEPT ![r] = "401"]
  /\ alerts' = [alerts EXCEPT ![told[r].slot] = @ + (IF Fires(told[r].count) THEN 1 ELSE 0)]
  /\ UNCHANGED <<ipNow, rate, failures, arrived, barred, told, missed>>

(* The store fails, or its reply is lost: the guard swallows it and the answer  *)
(* is the same.  Or the replica dies, and there is none.                        *)
RecordLost(r) ==
  /\ at[r] \in {"failing", "counted", "recounted"}
  /\ \E to \in {"401", "dropped"} : at' = [at EXCEPT ![r] = to]
  /\ Unheard(r)
  /\ UNCHANGED <<ipNow, rate, failures, arrived, barred, told, alerts>>

IpTick ==
  /\ ipNow < ThrottleUntil
  /\ ipNow' = ipNow + 1
  /\ UNCHANGED <<rate, failures, at, arrived, barred, told, alerts, missed>>

ThrottleNext ==
  \/ \E r \in Requests :
       \/ Arrive(r) \/ CheckBlock(r) \/ CheckRate(r) \/ CheckSignature(r)
       \/ Authenticate(r) \/ CountFailure(r) \/ RecordAuthFailure(r) \/ RecordLost(r)
  \/ IpTick

ThrottleSpec == ThrottleInit /\ [][ThrottleNext]_throttleVars

-------------------------------------------------------------------------------
(* A burst of failures blocks, and is announced at most once.  A request that   *)
(* arrives after the threshold was crossed is not served in that window, however *)
(* requests let in before it still fail and count, and whatever the store does. *)
(* No window is announced before it is crossed, or twice; and one that is       *)
(* crossed has been announced, unless the reply that said so is still awaited or *)
(* was lost, on the way or with its replica: only the failure that made the     *)
(* crossing fires, and nothing makes up for it (recordAuthFailure).             *)
BlockedOnce ==
  /\ \A r \in Requests : barred[r] => at[r] \in {"onRequest", "403", "500"}
  /\ \A w \in DOMAIN alerts :
       /\ alerts[w] = 0 \/ (alerts[w] = 1 /\ failures[w] >= Threshold)
       /\ failures[w] >= Threshold =>
            \/ alerts[w] = 1
            \/ w \in missed
            \/ \E r \in Requests : told[r].slot = w /\ Crossing(r)
===============================================================================
