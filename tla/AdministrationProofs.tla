------------------------- MODULE AdministrationProofs -------------------------
(* Proofs about what stands before the flow and beside it: Throttle, that a     *)
(* burst of failures blocks, and is announced at most once; Access, that authority is    *)
(* handed on and never grows; AdminApi, that answers tell a tenant nothing of   *)
(* the others; Boot, that a fleet starts on a schema and a seed of its own and  *)
(* what an operator took away stays away; Notices, that a tenant hears of a     *)
(* deadline once and in time; PolicyRules, that nothing forbidden is approved;  *)
(* Tracing, that every span is accounted for; KeysPage, that a minted key is     *)
(* listed; Telemetry, that the operator's page tells the truth.                 *)
EXTENDS Throttle, Access, AdminApi, Boot, Notices, PolicyRules, Tracing, KeysPage, Telemetry,
        SumsProofs, FiniteSetTheorems, SequenceTheorems, TLAPS

-------------------------------------------------------------------------------
(* Throttle                                                                     *)

Places == {"none", "onRequest", "unblocked", "preValidation", "guard", "failing", "counted",
           "recounted", "handler", "401", "403", "429", "500", "dropped"}
Windows == 0 .. Slot(ThrottleUntil)

ThrottleTypes ==
  /\ ipNow \in 0 .. ThrottleUntil
  /\ rate \in [0 .. ThrottleUntil -> Nat]
  /\ failures \in [Windows -> Nat]
  /\ at \in [Requests -> Places]
  /\ arrived \in [Requests -> 0 .. ThrottleUntil]
  /\ barred \in [Requests -> BOOLEAN]
  /\ told \in [Requests -> [slot : Windows, count : Nat]]
  /\ alerts \in [Windows -> Nat]
  /\ missed \subseteq Windows

(* A request that came when its window was full is not yet looked at, or was    *)
(* turned away; and its window is still full, for a window only fills.          *)
Refused ==
  \A r \in Requests : barred[r] => /\ at[r] \in {"onRequest", "403", "500"}
                                   /\ failures[Slot(arrived[r])] >= Threshold

(* The reply that says a window is crossed.                                     *)
Tells(r, w) == told[r].slot = w /\ Crossing(r)

(* Once the count has passed the threshold, exactly one of three holds: the     *)
(* crossing is announced, its reply is lost, or one request waits for it.       *)
Announced ==
  \A w \in Windows :
    /\ failures[w] < Threshold =>
         alerts[w] = 0 /\ w \notin missed /\ \A r \in Requests : ~Tells(r, w)
    /\ failures[w] >= Threshold => alerts[w] = 1 \/ w \in missed \/ \E r \in Requests : Tells(r, w)
    /\ alerts[w] \in {0, 1}
    /\ \A r \in Requests : Tells(r, w) => /\ alerts[w] = 0
                                         /\ \A q \in Requests : Tells(q, w) => q = r

ThrottleInv == ThrottleTypes /\ Refused /\ Announced

(* A time within the bound falls into one of the windows.                       *)
LEMMA SlotInWindows ==
  ASSUME NEW time \in 0 .. ThrottleUntil
  PROVE  Slot(time) \in Windows
BY ThrottleAssumption DEF Slot, Windows

LEMMA ThrottleInitInv == ThrottleInit => ThrottleInv
<1> SUFFICES ASSUME ThrottleInit PROVE ThrottleInv
  OBVIOUS
<1>1. ThrottleTypes
  BY ThrottleAssumption DEF ThrottleInit, ThrottleTypes, Places, Windows, Slot
<1>2. Refused
  BY DEF ThrottleInit, Refused
<1>3. Announced
  BY ThrottleAssumption DEF ThrottleInit, Announced, Windows, Tells, Crossing
<1> QED BY <1>1, <1>2, <1>3 DEF ThrottleInv

(* A failure counts in the window of its moment and in no other; the execution  *)
(* that makes the count the threshold is the one that is told so, and what it   *)
(* was told before is not heard any more.                                       *)
LEMMA CountFailureInv ==
  ASSUME NEW r \in Requests, ThrottleInv, CountFailure(r)
  PROVE  ThrottleInv'
<1>1. PICK w \in Windows : told[r].slot = w
  BY DEF ThrottleInv, ThrottleTypes
<1>2. /\ \/ at[r] = "failing" /\ at' = [at EXCEPT ![r] = "counted"]
         \/ at[r] = "counted" /\ at' = [at EXCEPT ![r] = "recounted"]
      /\ failures' = [failures EXCEPT ![w] = @ + 1]
      /\ told' = [told EXCEPT ![r] = [slot |-> w, count |-> failures[w] + 1]]
      /\ missed' = missed \cup (IF Crossing(r) THEN {w} ELSE {})
      /\ UNCHANGED <<ipNow, rate, arrived, barred, alerts>>
  BY <1>1 DEF CountFailure, Unheard
<1>3. ThrottleTypes'
  <2>1. failures[w] + 1 \in Nat
    BY <1>1 DEF ThrottleInv, ThrottleTypes
  <2>2. told' \in [Requests -> [slot : Windows, count : Nat]]
    BY <1>1, <1>2, <2>1 DEF ThrottleInv, ThrottleTypes
  <2>3. missed' \subseteq Windows
    BY <1>1, <1>2 DEF ThrottleInv, ThrottleTypes
  <2>4. failures' \in [Windows -> Nat]
    <3>1. failures \in [Windows -> Nat]
      BY DEF ThrottleInv, ThrottleTypes
    <3> QED BY <1>1, <1>2, <2>1, <3>1
  <2>5. at' \in [Requests -> Places]
    <3>1. at \in [Requests -> Places]
      BY DEF ThrottleInv, ThrottleTypes
    <3> QED BY <1>2, <3>1 DEF Places
  <2> QED BY <1>2, <2>2, <2>3, <2>4, <2>5 DEF ThrottleInv, ThrottleTypes
<1>4. Refused'
  <2> SUFFICES ASSUME NEW q \in Requests, barred'[q]
               PROVE  /\ at'[q] \in {"onRequest", "403", "500"}
                      /\ failures'[Slot(arrived'[q])] >= Threshold
    BY DEF Refused
  <2>1. /\ barred[q] /\ at[q] \in {"onRequest", "403", "500"}
        /\ failures[Slot(arrived[q])] >= Threshold
        /\ arrived'[q] = arrived[q] /\ arrived[q] \in 0 .. ThrottleUntil
    BY <1>2 DEF ThrottleInv, ThrottleTypes, Refused
  <2>2. q # r /\ at'[q] = at[q]
    BY <1>2, <2>1 DEF ThrottleInv, ThrottleTypes
  <2>3. Slot(arrived[q]) \in Windows
    BY <2>1, SlotInWindows
  <2>4. /\ failures'[Slot(arrived[q])] >= failures[Slot(arrived[q])]
        /\ failures[Slot(arrived[q])] \in Nat /\ failures'[Slot(arrived[q])] \in Nat
    BY <1>1, <1>2, <2>3 DEF ThrottleInv, ThrottleTypes
  <2>5. failures'[Slot(arrived'[q])] = failures'[Slot(arrived[q])]
    BY <2>1
  <2> QED BY <2>1, <2>2, <2>4, <2>5, ThrottleAssumption
<1>5. ASSUME NEW v \in Windows, v # w
      PROVE  /\ failures'[v] = failures[v] /\ (v \in missed' <=> v \in missed)
             /\ \A q \in Requests : Tells(q, v)' <=> Tells(q, v)
  <2>1. failures'[v] = failures[v] /\ (v \in missed' <=> v \in missed)
    BY <1>1, <1>2, <1>5 DEF ThrottleInv, ThrottleTypes
  <2>2. ~Tells(r, v) /\ ~Tells(r, v)'
    BY <1>1, <1>2, <1>5 DEF ThrottleInv, ThrottleTypes, Tells
  <2>3. ASSUME NEW q \in Requests, q # r PROVE Tells(q, v)' <=> Tells(q, v)
    BY <1>2, <2>3 DEF ThrottleInv, ThrottleTypes, Tells, Crossing
  <2> QED BY <2>1, <2>2, <2>3
<1>6. ASSUME NEW q \in Requests, q # r PROVE Tells(q, w)' <=> Tells(q, w)
  <2>1. told'[q] = told[q] /\ at'[q] = at[q]
    BY <1>2, <1>6 DEF ThrottleInv, ThrottleTypes
  <2> QED BY <2>1 DEF Tells, Crossing
<1>7. /\ failures'[w] = failures[w] + 1 /\ failures[w] \in Nat /\ alerts'[w] = alerts[w]
      /\ Tells(r, w)' <=> failures[w] + 1 = Threshold
      /\ w \in missed' <=> w \in missed \/ Tells(r, w)
  <2>1. failures'[w] = failures[w] + 1 /\ failures[w] \in Nat /\ alerts'[w] = alerts[w]
    BY <1>1, <1>2 DEF ThrottleInv, ThrottleTypes
  <2>2. told'[r] = [slot |-> w, count |-> failures[w] + 1] /\ at'[r] \in {"counted", "recounted"}
    BY <1>2 DEF ThrottleInv, ThrottleTypes
  <2>3. Tells(r, w)' <=> failures[w] + 1 = Threshold
    BY <2>2 DEF Tells, Crossing
  <2>4. w \in missed' <=> w \in missed \/ Tells(r, w)
    BY <1>1, <1>2 DEF Tells
  <2> QED BY <2>1, <2>3, <2>4
<1>8. Announced'
  <2> SUFFICES ASSUME NEW v \in Windows
               PROVE  /\ failures'[v] < Threshold =>
                            alerts'[v] = 0 /\ v \notin missed' /\ \A q \in Requests : ~Tells(q, v)'
                      /\ failures'[v] >= Threshold =>
                            alerts'[v] = 1 \/ v \in missed' \/ \E q \in Requests : Tells(q, v)'
                      /\ alerts'[v] \in {0, 1}
                      /\ \A q \in Requests : Tells(q, v)' =>
                            /\ alerts'[v] = 0
                            /\ \A p \in Requests : Tells(p, v)' => p = q
    BY DEF Announced
  <2>1. CASE v # w
    BY <1>2, <1>5, <2>1 DEF ThrottleInv, Announced
  <2>2. CASE v = w
    <3> DEFINE T(q) == Tells(q, w)
               U(q) == Tells(q, w)'
    <3>1. /\ failures[w] < Threshold => alerts[w] = 0 /\ w \notin missed /\ \A q \in Requests : ~T(q)
          /\ failures[w] >= Threshold => alerts[w] = 1 \/ w \in missed \/ \E q \in Requests : T(q)
          /\ alerts[w] \in {0, 1}
          /\ \A q \in Requests : T(q) => alerts[w] = 0 /\ \A p \in Requests : T(p) => p = q
      BY <1>1 DEF ThrottleInv, Announced
    <3>2. \A q \in Requests : q # r => (U(q) <=> T(q))
      BY <1>6
    <3>3. U(r) <=> failures[w] + 1 = Threshold
      BY <1>7
    <3>4. w \in missed' <=> w \in missed \/ T(r)
      BY <1>7
    <3> HIDE DEF T, U
    <3>5. /\ failures'[w] < Threshold =>
                alerts'[w] = 0 /\ w \notin missed' /\ \A q \in Requests : ~U(q)
          /\ failures'[w] >= Threshold =>
                alerts'[w] = 1 \/ w \in missed' \/ \E q \in Requests : U(q)
          /\ alerts'[w] \in {0, 1}
          /\ \A q \in Requests : U(q) => alerts'[w] = 0 /\ \A p \in Requests : U(p) => p = q
      <4>1. CASE failures[w] < Threshold
        BY <1>7, <3>1, <3>2, <3>3, <3>4, <4>1, ThrottleAssumption
      <4>2. CASE failures[w] >= Threshold
        BY <1>7, <3>1, <3>2, <3>3, <3>4, <4>2, ThrottleAssumption
      <4> QED BY <1>7, <4>1, <4>2, ThrottleAssumption
    <3> QED BY <2>2, <3>5 DEF U
  <2> QED BY <2>1, <2>2
<1> QED BY <1>3, <1>4, <1>8 DEF ThrottleInv

(* The reply that says a window is crossed is heard once, and announced; or it  *)
(* is lost, and its window is among the missed.                                 *)
LEMMA ReplyInv ==
  ASSUME NEW r \in Requests, ThrottleInv, RecordAuthFailure(r) \/ RecordLost(r)
  PROVE  ThrottleInv'
<1>1. PICK w \in Windows : /\ told[r].slot = w /\ told[r].count \in Nat
                           /\ at[r] \in {"failing", "counted", "recounted"}
  BY DEF ThrottleInv, ThrottleTypes, RecordAuthFailure, RecordLost
<1>2. /\ \E to \in {"401", "dropped"} : at' = [at EXCEPT ![r] = to]
      /\ \/ /\ alerts' = [alerts EXCEPT ![w] = @ + (IF Crossing(r) THEN 1 ELSE 0)]
            /\ missed' = missed
         \/ /\ missed' = missed \cup (IF Crossing(r) THEN {w} ELSE {})
            /\ alerts' = alerts
      /\ UNCHANGED <<ipNow, rate, failures, arrived, barred, told>>
  BY <1>1 DEF RecordAuthFailure, RecordLost, Fires, Crossing, Unheard
<1>3. ThrottleTypes'
  <2>1. at' \in [Requests -> Places]
    BY <1>2 DEF ThrottleInv, ThrottleTypes, Places
  <2>2. missed' \subseteq Windows
    BY <1>1, <1>2 DEF ThrottleInv, ThrottleTypes
  <2>3. alerts' \in [Windows -> Nat]
    <3>1. alerts \in [Windows -> Nat]
      BY DEF ThrottleInv, ThrottleTypes
    <3>2. PICK n \in {0, 1} : alerts' = alerts \/ alerts' = [alerts EXCEPT ![w] = alerts[w] + n]
      BY <1>2
    <3> QED BY <1>1, <3>1, <3>2
  <2> QED BY <1>2, <2>1, <2>2, <2>3 DEF ThrottleInv, ThrottleTypes
<1>4. Refused'
  BY <1>1, <1>2 DEF ThrottleInv, ThrottleTypes, Refused
<1>5. ASSUME NEW v \in Windows PROVE ~Tells(r, v)' /\ (v # w => ~Tells(r, v))
  BY <1>1, <1>2 DEF ThrottleInv, ThrottleTypes, Tells, Crossing
<1>6. ASSUME NEW v \in Windows, NEW q \in Requests, q # r PROVE Tells(q, v)' <=> Tells(q, v)
  BY <1>2, <1>6 DEF ThrottleInv, ThrottleTypes, Tells, Crossing
<1>7. ASSUME NEW v \in Windows
      PROVE  \/ /\ ~Tells(r, v) /\ alerts'[v] = alerts[v] /\ (v \in missed' <=> v \in missed)
             \/ /\ Tells(r, v)
                /\ \/ alerts'[v] = alerts[v] + 1 /\ (v \in missed' <=> v \in missed)
                   \/ alerts'[v] = alerts[v] /\ v \in missed'
  BY <1>1, <1>2 DEF ThrottleInv, ThrottleTypes, Tells
<1>8. Announced'
  <2> SUFFICES ASSUME NEW v \in Windows
               PROVE  /\ failures[v] < Threshold =>
                            alerts'[v] = 0 /\ v \notin missed' /\ \A q \in Requests : ~Tells(q, v)'
                      /\ failures[v] >= Threshold =>
                            alerts'[v] = 1 \/ v \in missed' \/ \E q \in Requests : Tells(q, v)'
                      /\ alerts'[v] \in {0, 1}
                      /\ \A q \in Requests : Tells(q, v)' =>
                            /\ alerts'[v] = 0
                            /\ \A p \in Requests : Tells(p, v)' => p = q
    BY <1>2 DEF Announced
  <2> DEFINE T(q) == Tells(q, v)
             U(q) == Tells(q, v)'
  <2>1. /\ failures[v] < Threshold => alerts[v] = 0 /\ v \notin missed /\ \A q \in Requests : ~T(q)
        /\ failures[v] >= Threshold => alerts[v] = 1 \/ v \in missed \/ \E q \in Requests : T(q)
        /\ alerts[v] \in {0, 1} /\ failures[v] \in Nat
        /\ \A q \in Requests : T(q) => alerts[v] = 0 /\ \A p \in Requests : T(p) => p = q
    BY DEF ThrottleInv, ThrottleTypes, Announced
  <2>2. ~U(r) /\ \A q \in Requests : q # r => (U(q) <=> T(q))
    BY <1>5, <1>6
  <2>3. \/ /\ ~T(r) /\ alerts'[v] = alerts[v] /\ (v \in missed' <=> v \in missed)
        \/ /\ T(r)
           /\ \/ alerts'[v] = alerts[v] + 1 /\ (v \in missed' <=> v \in missed)
              \/ alerts'[v] = alerts[v] /\ v \in missed'
    BY <1>7
  <2> HIDE DEF T, U
  <2>4. /\ failures[v] < Threshold =>
              alerts'[v] = 0 /\ v \notin missed' /\ \A q \in Requests : ~U(q)
        /\ failures[v] >= Threshold =>
              alerts'[v] = 1 \/ v \in missed' \/ \E q \in Requests : U(q)
        /\ alerts'[v] \in {0, 1}
        /\ \A q \in Requests : U(q) => alerts'[v] = 0 /\ \A p \in Requests : U(p) => p = q
    <3>1. CASE T(r)
      BY <2>1, <2>2, <2>3, <3>1, ThrottleAssumption
    <3>2. CASE ~T(r)
      BY <2>1, <2>2, <2>3, <3>2, ThrottleAssumption
    <3> QED BY <3>1, <3>2
  <2> QED BY <2>4 DEF U
<1> QED BY <1>3, <1>4, <1>8 DEF ThrottleInv

(* What else a request does leaves the failures, waits for no reply, and moves  *)
(* no request that must be turned away anywhere but to its 403 or an error.     *)
LEMMA RequestInv ==
  ASSUME NEW r \in Requests, ThrottleInv,
         \/ Arrive(r) \/ CheckBlock(r) \/ CheckRate(r) \/ CheckSignature(r)
         \/ Authenticate(r)
  PROVE  ThrottleInv'
<1>1. UNCHANGED <<ipNow, failures, alerts, missed>>
  BY DEF Arrive, CheckBlock, CheckRate, CheckSignature, Authenticate
<1>2. ThrottleTypes'
  <2> USE DEF ThrottleInv, ThrottleTypes, Places
  <2>1. CASE Arrive(r)
    BY <2>1 DEF Arrive
  <2>2. CASE CheckBlock(r)
    BY <2>2 DEF CheckBlock
  <2>3. CASE CheckRate(r)
    <3>1. at' \in [Requests -> Places]
      BY <2>3 DEF CheckRate
    <3>2. PICK t \in 0 .. ThrottleUntil :
            rate' = rate \/ rate' = [rate EXCEPT ![t] = rate[t] + 1]
      BY <2>3 DEF CheckRate
    <3>3. rate \in [0 .. ThrottleUntil -> Nat]
      OBVIOUS
    <3>4. rate' \in [0 .. ThrottleUntil -> Nat]
      BY ONLY <3>2, <3>3
    <3> QED BY <2>3, <3>1, <3>4 DEF CheckRate
  <2>4. CASE CheckSignature(r)
    BY <2>4 DEF CheckSignature
  <2>5. CASE Authenticate(r)
    <3>1. Slot(ipNow) \in Windows
      BY SlotInWindows
    <3>2. PICK s \in Windows : \/ told' = told
                              \/ told' = [told EXCEPT ![r] = [slot |-> s, count |-> 0]]
      BY <2>5, <3>1 DEF Authenticate
    <3>3. told \in [Requests -> [slot : Windows, count : Nat]]
      OBVIOUS
    <3>4. told' \in [Requests -> [slot : Windows, count : Nat]]
      BY ONLY <3>2, <3>3
    <3> QED BY <2>5, <3>4 DEF Authenticate
  <2> QED BY <2>1, <2>2, <2>3, <2>4, <2>5
<1>3. Refused'
  <2> SUFFICES ASSUME NEW q \in Requests, barred'[q]
               PROVE  /\ at'[q] \in {"onRequest", "403", "500"}
                      /\ failures[Slot(arrived'[q])] >= Threshold
    BY <1>1 DEF Refused
  <2> USE DEF ThrottleInv, ThrottleTypes, Refused
  <2>1. CASE Arrive(r)
    BY <2>1 DEF Arrive
  <2>2. CASE CheckBlock(r)
    BY <2>2 DEF CheckBlock, Blocked
  <2>3. CASE CheckRate(r)
    BY <2>3 DEF CheckRate
  <2>4. CASE CheckSignature(r)
    BY <2>4 DEF CheckSignature
  <2>5. CASE Authenticate(r)
    BY <2>5 DEF Authenticate
  <2> QED BY <2>1, <2>2, <2>3, <2>4, <2>5
<1>4. /\ at[r] \notin {"counted", "recounted"} /\ at'[r] \notin {"counted", "recounted"}
      /\ \A q \in Requests : q # r => at'[q] = at[q] /\ told'[q] = told[q]
  <2> USE DEF ThrottleInv, ThrottleTypes
  <2>1. CASE Arrive(r)
    BY <2>1 DEF Arrive
  <2>2. CASE CheckBlock(r)
    BY <2>2 DEF CheckBlock
  <2>3. CASE CheckRate(r)
    BY <2>3 DEF CheckRate
  <2>4. CASE CheckSignature(r)
    BY <2>4 DEF CheckSignature
  <2>5. CASE Authenticate(r)
    BY <2>5 DEF Authenticate
  <2> QED BY <2>1, <2>2, <2>3, <2>4, <2>5
<1>5. \A q \in Requests, v \in Windows : Tells(q, v)' <=> Tells(q, v)
  BY <1>4 DEF Tells, Crossing
<1>6. Announced'
  BY <1>1, <1>5 DEF ThrottleInv, Announced
<1> QED BY <1>2, <1>3, <1>6 DEF ThrottleInv

LEMMA ThrottleNextInv == ThrottleInv /\ [ThrottleNext]_throttleVars => ThrottleInv'
<1> SUFFICES ASSUME ThrottleInv, [ThrottleNext]_throttleVars PROVE ThrottleInv'
  OBVIOUS
<1>1. ASSUME NEW r \in Requests, CountFailure(r) PROVE ThrottleInv'
  BY <1>1, CountFailureInv
<1>2. ASSUME NEW r \in Requests, RecordAuthFailure(r) \/ RecordLost(r) PROVE ThrottleInv'
  BY <1>2, ReplyInv
<1>3. ASSUME NEW r \in Requests,
             \/ Arrive(r) \/ CheckBlock(r) \/ CheckRate(r) \/ CheckSignature(r)
             \/ Authenticate(r)
      PROVE  ThrottleInv'
  BY <1>3, RequestInv
<1>4. CASE IpTick
  BY <1>4, ThrottleAssumption
     DEF IpTick, ThrottleInv, ThrottleTypes, Refused, Announced, Tells, Crossing
<1>5. CASE UNCHANGED throttleVars
  BY <1>5 DEF throttleVars, ThrottleInv, ThrottleTypes, Refused, Announced, Tells, Crossing
<1> QED BY <1>1, <1>2, <1>3, <1>4, <1>5 DEF ThrottleNext

(* However requests interleave, and whatever the store loses: one that arrives  *)
(* after the threshold was crossed is not served in that window, no window is   *)
(* announced early or twice, and a crossed window has been announced unless the *)
(* reply of the crossing is awaited or lost (IpThrottle.check,                  *)
(* recordAuthFailure).                                                          *)
THEOREM BlockedAndAnnouncedOnce == ThrottleSpec => []BlockedOnce
<1>1. ThrottleInv => BlockedOnce
  <2> SUFFICES ASSUME ThrottleInv PROVE BlockedOnce
    OBVIOUS
  <2>1. \A r \in Requests : barred[r] => at[r] \in {"onRequest", "403", "500"}
    BY DEF ThrottleInv, Refused
  <2>2. DOMAIN alerts = Windows
    BY DEF ThrottleInv, ThrottleTypes
  <2>3. ASSUME NEW w \in Windows
        PROVE  /\ alerts[w] = 0 \/ (alerts[w] = 1 /\ failures[w] >= Threshold)
               /\ failures[w] >= Threshold =>
                    \/ alerts[w] = 1
                    \/ w \in missed
                    \/ \E r \in Requests : told[r].slot = w /\ Crossing(r)
    BY ThrottleAssumption DEF ThrottleInv, ThrottleTypes, Announced, Tells
  <2> QED BY <2>1, <2>2, <2>3 DEF BlockedOnce
<1> QED BY <1>1, ThrottleInitInv, ThrottleNextInv, PTL DEF ThrottleSpec
-------------------------------------------------------------------------------
(* Access                                                                       *)

HeldRoles == RoleSets \cup {{}, {"admin"}, {"viewer"}, {"tenant_admin"}}
Pins == Policies \cup {NoPin}

AccessTypes ==
  /\ status \in [Tenants -> {"none", "active", "suspended"}]
  /\ members \subseteq [subject : Subjects, tenant : Customers, role : {"owner", "admin", "member"}]
  /\ policies \subseteq Tenants \X (Policies \cup {Default})
  /\ keys \in [KeyIds \cup {Bootstrap} ->
                 [tenant : Tenants, roles : HeldRoles, policy : Pins, enabled : BOOLEAN,
                  expires : {0, AccessUntil, Never}]]
  /\ held \subseteq KeyIds \cup {Bootstrap}
  /\ audited \subseteq KeyIds
  /\ sessions \subseteq [tenant : Tenants, roles : HeldRoles, policy : Pins, exp : Nat]
  /\ minting \subseteq KeyIds
  /\ signups \subseteq Subjects \X Customers
  /\ accessNow \in 0 .. AccessUntil

(* What nobody acting for a customer may exceed.                                *)
Within(roles) == PermissionsFor(roles) \subseteq TenantAdminGrants \cup Delegatable

(* AuthorityBounded of every credential, the expired and the revoked included:  *)
(* one that is refused today is not what bounds it.                             *)
RolesBounded ==
  /\ \A k \in DOMAIN keys : keys[k].tenant # DefaultTenant => Within(keys[k].roles)
  /\ \A s \in sessions : s.tenant # DefaultTenant => Within(s.roles)

(* The rows of keys hold the policies they are pinned to, and a session's pin   *)
(* rests on the row of the key it came from, which revocation leaves.           *)
PinsHold ==
  /\ \A k \in DOMAIN keys : PinExists(keys[k].tenant, keys[k].policy)
  /\ \A s \in sessions : s.policy # NoPin =>
       \E k \in DOMAIN keys : keys[k].tenant = s.tenant /\ keys[k].policy = s.policy

SecretsAudited == held \ {Bootstrap} \subseteq audited

AccessInv == AccessTypes /\ RolesBounded /\ PinsHold /\ SecretsAudited

(* What a membership gives is no more than an owner's session.                  *)
LEMMA MembersAreWithin == \A role : Within(RolesFor(role))
<1>1. PermissionsFor({"viewer"}) = Grants["viewer"]
  BY DEF PermissionsFor
<1>2. PermissionsFor({"tenant_admin"}) = Grants["tenant_admin"]
  BY DEF PermissionsFor
<1>3. Grants["viewer"] \subseteq TenantAdminGrants /\ Grants["tenant_admin"] = TenantAdminGrants
  BY DEF Grants, TenantAdminGrants
<1> QED BY <1>1, <1>2, <1>3 DEF Within, RolesFor

(* A caller is a row of api_keys, or a session that was signed.                 *)
LEMMA CallersAreBounded ==
  ASSUME AccessInv, NEW p \in Callers
  PROVE  /\ p = Principal(p.tenant, p.roles, p.policy)
         /\ p.tenant \in Tenants /\ p.roles \in HeldRoles /\ p.policy \in Pins
         /\ p.tenant # DefaultTenant => Within(p.roles)
         /\ p.policy # NoPin =>
              \E k \in DOMAIN keys : keys[k].tenant = p.tenant /\ keys[k].policy = p.policy
<1>1. CASE p \in KeyPrincipals
  <2>1. PICK k \in held : p = Principal(keys[k].tenant, keys[k].roles, keys[k].policy)
    BY <1>1 DEF KeyPrincipals
  <2>2. k \in DOMAIN keys /\ keys[k] \in [tenant : Tenants, roles : HeldRoles, policy : Pins,
                                          enabled : BOOLEAN, expires : {0, AccessUntil, Never}]
    BY DEF AccessInv, AccessTypes
  <2>3. p.tenant = keys[k].tenant /\ p.roles = keys[k].roles /\ p.policy = keys[k].policy
    BY <2>1 DEF Principal
  <2> QED BY <2>1, <2>2, <2>3 DEF AccessInv, RolesBounded, Principal
<1>2. CASE p \in SessionPrincipals
  <2>1. PICK s \in sessions : p = Principal(s.tenant, s.roles, s.policy)
    BY <1>2 DEF SessionPrincipals
  <2>2. s \in [tenant : Tenants, roles : HeldRoles, policy : Pins, exp : Nat]
    BY DEF AccessInv, AccessTypes
  <2>3. p.tenant = s.tenant /\ p.roles = s.roles /\ p.policy = s.policy
    BY <2>1 DEF Principal
  <2> QED BY <2>1, <2>2, <2>3 DEF AccessInv, RolesBounded, PinsHold, Principal
<1> QED BY <1>1, <1>2 DEF Callers
LEMMA AccessInitInv == AccessInit => AccessInv
<1> SUFFICES ASSUME AccessInit PROVE AccessInv
  OBVIOUS
<1> USE DEF AccessInit, NoKey, HeldRoles, Pins, Tenants
<1>1. AccessTypes
  <2>1. keys \in [KeyIds \cup {Bootstrap} ->
                    [tenant : Tenants, roles : HeldRoles, policy : Pins, enabled : BOOLEAN,
                     expires : {0, AccessUntil, Never}]]
    OBVIOUS
  <2>2. status \in [Tenants -> {"none", "active", "suspended"}]
    OBVIOUS
  <2> QED BY <2>1, <2>2, AccessAssumption DEF AccessTypes
<1>2. RolesBounded
  BY DEF RolesBounded
<1>3. PinsHold
  BY DEF PinsHold, PinExists
<1>4. SecretsAudited
  BY DEF SecretsAudited
<1> QED BY <1>1, <1>2, <1>3, <1>4 DEF AccessInv

(* A session that is signed for a principal within bounds.                      *)
LEMMA SessionSigned ==
  ASSUME AccessInv, NEW tenant \in Tenants, NEW roles \in HeldRoles, NEW pin \in Pins,
         tenant # DefaultTenant => Within(roles),
         pin # NoPin => \E k \in DOMAIN keys : keys[k].tenant = tenant /\ keys[k].policy = pin,
         Remember(Sign(Principal(tenant, roles, pin))),
         UNCHANGED <<keys, held, audited>>, policies \subseteq policies'
  PROVE  /\ sessions' \subseteq [tenant : Tenants, roles : HeldRoles, policy : Pins, exp : Nat]
         /\ RolesBounded' /\ PinsHold' /\ SecretsAudited'
<1> DEFINE new == [tenant |-> tenant, roles |-> roles, policy |-> pin, exp |-> accessNow + Ttl]
<1>1. sessions' \subseteq sessions \cup {new}
  BY DEF Remember, Sign, Principal
<1>2. new \in [tenant : Tenants, roles : HeldRoles, policy : Pins, exp : Nat]
  BY AccessAssumption DEF AccessInv, AccessTypes
<1>3. new.tenant = tenant /\ new.roles = roles /\ new.policy = pin
  OBVIOUS
<1> HIDE DEF new
<1>4. sessions' \subseteq [tenant : Tenants, roles : HeldRoles, policy : Pins, exp : Nat]
  BY <1>1, <1>2 DEF AccessInv, AccessTypes
<1>5. RolesBounded'
  BY <1>1, <1>3 DEF AccessInv, RolesBounded
<1>6. PinsHold'
  BY <1>1, <1>3 DEF AccessInv, PinsHold, PinExists
<1> QED BY <1>4, <1>5, <1>6 DEF AccessInv, SecretsAudited

(* Sign-up gives the owner a session; the policy it provisions only adds a row. *)
LEMMA ProvisionPolicyInv ==
  ASSUME AccessInv, NEW s \in Subjects, NEW t \in Customers, ProvisionPolicy(s, t)
  PROVE  AccessInv'
<1>1. t \in Tenants /\ RolesFor("owner") \in HeldRoles /\ NoPin \in Pins
  BY DEF Tenants, RolesFor, HeldRoles, Pins
<1>2. /\ sessions' \subseteq [tenant : Tenants, roles : HeldRoles, policy : Pins, exp : Nat]
      /\ RolesBounded' /\ PinsHold' /\ SecretsAudited'
  BY <1>1, MembersAreWithin, SessionSigned DEF ProvisionPolicy
<1>3. AccessTypes'
  BY <1>1, <1>2 DEF AccessInv, AccessTypes, ProvisionPolicy
<1> QED BY <1>2, <1>3 DEF AccessInv

LEMMA IssueInv ==
  ASSUME AccessInv, NEW s \in Subjects, NEW requested, Issue(s, requested)
  PROVE  AccessInv'
<1>1. PICK m \in Chosen(s, requested) :
        /\ Remember(Sign(Principal(m.tenant, RolesFor(m.role), NoPin)))
        /\ UNCHANGED <<status, members, policies, keys, held, audited, minting, signups, accessNow>>
  BY DEF Issue
<1>2. m \in members
  BY DEF Chosen
<1>3. m.tenant \in Tenants /\ RolesFor(m.role) \in HeldRoles /\ NoPin \in Pins
  BY <1>2 DEF AccessInv, AccessTypes, Tenants, RolesFor, HeldRoles, Pins
<1>4. /\ sessions' \subseteq [tenant : Tenants, roles : HeldRoles, policy : Pins, exp : Nat]
      /\ RolesBounded' /\ PinsHold' /\ SecretsAudited'
  BY <1>1, <1>3, MembersAreWithin, SessionSigned
<1>5. AccessTypes'
  BY <1>1, <1>4 DEF AccessInv, AccessTypes
<1> QED BY <1>4, <1>5 DEF AccessInv

LEMMA IssueTokenInv ==
  ASSUME AccessInv, NEW p \in Callers, IssueToken(p)
  PROVE  AccessInv'
<1>1. /\ p = Principal(p.tenant, p.roles, p.policy)
      /\ p.tenant \in Tenants /\ p.roles \in HeldRoles /\ p.policy \in Pins
      /\ p.tenant # DefaultTenant => Within(p.roles)
      /\ p.policy # NoPin =>
           \E k \in DOMAIN keys : keys[k].tenant = p.tenant /\ keys[k].policy = p.policy
  BY CallersAreBounded
<1>2. Remember(Sign(Principal(p.tenant, p.roles, p.policy)))
  BY <1>1 DEF IssueToken
<1>3. UNCHANGED <<status, members, policies, keys, held, audited, minting, signups, accessNow>>
  BY DEF IssueToken
<1>4. /\ sessions' \subseteq [tenant : Tenants, roles : HeldRoles, policy : Pins, exp : Nat]
      /\ RolesBounded' /\ PinsHold' /\ SecretsAudited'
  BY <1>1, <1>2, <1>3, SessionSigned
<1>5. AccessTypes'
  BY <1>3, <1>4 DEF AccessInv, AccessTypes
<1> QED BY <1>4, <1>5 DEF AccessInv
(* A key may do what its maker may, or may be handed on; and no session rests   *)
(* on the row it fills, which no pin named.                                     *)
LEMMA InsertKeyInv ==
  ASSUME AccessInv, NEW p \in Callers, NEW k \in KeyIds, NEW roles \in RoleSets,
         NEW policy \in Policies \cup {NoPin}, NEW expires \in {AccessUntil, Never},
         InsertKey(p, k, roles, policy, expires)
  PROVE  AccessInv'
<1> DEFINE row == [tenant |-> p.tenant, roles |-> roles, policy |-> policy,
                   enabled |-> TRUE, expires |-> expires]
<1>1. /\ p.tenant \in Tenants
      /\ p.tenant # DefaultTenant => Within(p.roles)
  BY CallersAreBounded
<1>2. /\ keys[k] = NoKey /\ keys' = [keys EXCEPT ![k] = row]
      /\ Escalations(p, roles) = {} /\ PinExists(p.tenant, policy)
      /\ minting' = minting \cup {k}
      /\ UNCHANGED <<status, members, policies, held, audited, sessions, signups, accessNow>>
  BY DEF InsertKey
<1>3. row \in [tenant : Tenants, roles : HeldRoles, policy : Pins, enabled : BOOLEAN,
               expires : {0, AccessUntil, Never}]
  BY <1>1 DEF HeldRoles, Pins
<1>4. row.tenant = p.tenant /\ row.roles = roles /\ row.policy = policy
  OBVIOUS
<1>5. keys[k].policy = NoPin
  BY <1>2 DEF NoKey
<1>6. k \in DOMAIN keys
  BY DEF AccessInv, AccessTypes
<1> HIDE DEF row
<1>7. DOMAIN keys' = DOMAIN keys /\ keys'[k] = row /\ \A j \in DOMAIN keys : j # k => keys'[j] = keys[j]
  BY <1>2, <1>6 DEF AccessInv, AccessTypes
<1>8. AccessTypes'
  BY <1>2, <1>3 DEF AccessInv, AccessTypes
<1>9. row.tenant # DefaultTenant => Within(row.roles)
  BY <1>1, <1>2, <1>4 DEF Escalations, Within
<1>10. RolesBounded'
  BY <1>2, <1>7, <1>9 DEF AccessInv, RolesBounded
<1>11. PinsHold'
  <2>1. \A j \in DOMAIN keys' : \/ keys'[j].policy = NoPin
                                \/ <<keys'[j].tenant, keys'[j].policy>> \in policies'
    BY <1>2, <1>4, <1>7 DEF AccessInv, PinsHold, PinExists
  <2>2. ASSUME NEW s \in sessions', s.policy # NoPin
        PROVE  \E j \in DOMAIN keys' : keys'[j].tenant = s.tenant /\ keys'[j].policy = s.policy
    <3>1. PICK j \in DOMAIN keys : keys[j].tenant = s.tenant /\ keys[j].policy = s.policy
      BY <1>2, <2>2 DEF AccessInv, PinsHold
    <3> QED BY <1>5, <1>7, <2>2, <3>1
  <2> QED BY <2>1, <2>2 DEF PinsHold, PinExists
<1>12. SecretsAudited'
  BY <1>2 DEF AccessInv, SecretsAudited
<1> QED BY <1>8, <1>10, <1>11, <1>12 DEF AccessInv

LEMMA AuditKeyInv ==
  ASSUME AccessInv, NEW k \in KeyIds, AuditKey(k)
  PROVE  AccessInv'
<1>1. /\ held' = held \cup {k} /\ audited' = audited \cup {k} /\ minting' = minting \ {k}
      /\ UNCHANGED <<status, members, policies, keys, sessions, signups, accessNow>>
  BY DEF AuditKey, Answered
<1>2. AccessTypes'
  BY <1>1 DEF AccessInv, AccessTypes
<1>3. RolesBounded' /\ PinsHold'
  BY <1>1 DEF AccessInv, RolesBounded, PinsHold, PinExists
<1>4. SecretsAudited'
  BY <1>1 DEF AccessInv, SecretsAudited
<1> QED BY <1>2, <1>3, <1>4 DEF AccessInv

(* The row stays, and with it what its pin holds.                               *)
LEMMA RevokeKeyInv ==
  ASSUME AccessInv, NEW p, NEW k \in KeyIds, RevokeKey(p, k)
  PROVE  AccessInv'
<1> DEFINE row == Revoked(keys[k])
<1>1. /\ keys' = [keys EXCEPT ![k] = row]
      /\ UNCHANGED <<status, members, policies, held, audited, sessions, minting, signups, accessNow>>
  BY DEF RevokeKey
<1>2. k \in DOMAIN keys
      /\ keys[k] \in [tenant : Tenants, roles : HeldRoles, policy : Pins, enabled : BOOLEAN,
                      expires : {0, AccessUntil, Never}]
  BY DEF AccessInv, AccessTypes
<1>3. row \in [tenant : Tenants, roles : HeldRoles, policy : Pins, enabled : BOOLEAN,
               expires : {0, AccessUntil, Never}]
      /\ row.tenant = keys[k].tenant /\ row.roles = keys[k].roles /\ row.policy = keys[k].policy
  BY <1>2 DEF Revoked
<1> HIDE DEF row
<1>4. DOMAIN keys' = DOMAIN keys
      /\ \A j \in DOMAIN keys : /\ keys'[j].tenant = keys[j].tenant
                                /\ keys'[j].roles = keys[j].roles
                                /\ keys'[j].policy = keys[j].policy
  BY <1>1, <1>2, <1>3 DEF AccessInv, AccessTypes
<1>5. AccessTypes'
  BY <1>1, <1>3 DEF AccessInv, AccessTypes
<1>6. RolesBounded'
  BY <1>1, <1>4 DEF AccessInv, RolesBounded
<1>7. PinsHold'
  BY <1>1, <1>4 DEF AccessInv, PinsHold, PinExists
<1>8. SecretsAudited'
  BY <1>1 DEF AccessInv, SecretsAudited
<1> QED BY <1>5, <1>6, <1>7, <1>8 DEF AccessInv

LEMMA UpsertPolicyInv ==
  ASSUME AccessInv, NEW p \in Callers, NEW id \in Policies, UpsertPolicy(p, id)
  PROVE  AccessInv'
<1>1. /\ policies' = policies \cup {<<p.tenant, id>>}
      /\ UNCHANGED <<status, members, keys, held, audited, sessions, minting, signups, accessNow>>
  BY DEF UpsertPolicy
<1>2. p.tenant \in Tenants
  BY CallersAreBounded
<1>3. AccessTypes'
  BY <1>1, <1>2 DEF AccessInv, AccessTypes
<1>4. RolesBounded' /\ PinsHold' /\ SecretsAudited'
  BY <1>1 DEF AccessInv, RolesBounded, PinsHold, PinExists, SecretsAudited
<1> QED BY <1>3, <1>4 DEF AccessInv

(* The foreign key restricts: a policy some key is pinned to is not deleted.    *)
LEMMA DeletePolicyInv ==
  ASSUME AccessInv, NEW p, NEW id \in Policies, DeletePolicy(p, id)
  PROVE  AccessInv'
<1>1. /\ policies' = policies \ {<<p.tenant, id>>}
      /\ ~ \E k \in DOMAIN keys : keys[k].tenant = p.tenant /\ keys[k].policy = id
      /\ UNCHANGED <<status, members, keys, held, audited, sessions, minting, signups, accessNow>>
  BY DEF DeletePolicy
<1>2. AccessTypes'
  BY <1>1 DEF AccessInv, AccessTypes
<1>3. PinsHold'
  BY <1>1 DEF AccessInv, PinsHold, PinExists
<1>4. RolesBounded' /\ SecretsAudited'
  BY <1>1 DEF AccessInv, RolesBounded, SecretsAudited
<1> QED BY <1>2, <1>3, <1>4 DEF AccessInv

(* What leaves the keys, the sessions and the policies as they are.             *)
LEMMA NoCredentialInv ==
  ASSUME AccessInv,
         \/ \E s \in Subjects, t \in Customers : CreateWithOwner(s, t) \/ SignUpFails(s, t)
         \/ \E k \in KeyIds : MintFails(k)
         \/ \E s \in Subjects, t \in Customers, role \in {"admin", "member"} : AddMember(s, t, role)
         \/ \E t \in Customers, to \in {"active", "suspended"} : SetStatus(t, to)
         \/ AccessTick
         \/ UNCHANGED accessVars
  PROVE  AccessInv'
<1>1. UNCHANGED <<policies, keys, held, audited, sessions>>
  BY DEF CreateWithOwner, SignUpFails, MintFails, AddMember, SetStatus, AccessTick, accessVars
<1>2. RolesBounded' /\ PinsHold' /\ SecretsAudited'
  BY <1>1 DEF AccessInv, RolesBounded, PinsHold, PinExists, SecretsAudited
<1>3. AccessTypes'
  <2> USE DEF AccessInv, AccessTypes, Tenants
  <2>1. ASSUME NEW s \in Subjects, NEW t \in Customers, CreateWithOwner(s, t) PROVE AccessTypes'
    BY <2>1 DEF CreateWithOwner
  <2>2. ASSUME NEW s \in Subjects, NEW t \in Customers, SignUpFails(s, t) PROVE AccessTypes'
    BY <2>2 DEF SignUpFails
  <2>3. ASSUME NEW k \in KeyIds, MintFails(k) PROVE AccessTypes'
    BY <2>3 DEF MintFails
  <2>4. ASSUME NEW s \in Subjects, NEW t \in Customers, NEW role \in {"admin", "member"}, AddMember(s, t, role)
        PROVE AccessTypes'
    BY <2>4 DEF AddMember
  <2>5. ASSUME NEW t \in Customers, NEW to \in {"active", "suspended"}, SetStatus(t, to) PROVE AccessTypes'
    BY <2>5 DEF SetStatus
  <2>6. CASE AccessTick
    BY <2>6, AccessAssumption DEF AccessTick
  <2>7. CASE UNCHANGED accessVars
    BY <2>7 DEF accessVars
  <2> QED BY <2>1, <2>2, <2>3, <2>4, <2>5, <2>6, <2>7
<1> QED BY <1>2, <1>3 DEF AccessInv

LEMMA AccessNextInv == AccessInv /\ [AccessNext]_accessVars => AccessInv'
<1> SUFFICES ASSUME AccessInv, [AccessNext]_accessVars PROVE AccessInv'
  OBVIOUS
<1>1. ASSUME NEW s \in Subjects, NEW t \in Customers, ProvisionPolicy(s, t) PROVE AccessInv'
  BY <1>1, ProvisionPolicyInv
<1>2. ASSUME NEW s \in Subjects, NEW requested \in Customers \cup {"any"}, Issue(s, requested) PROVE AccessInv'
  BY <1>2, IssueInv
<1>3. ASSUME NEW p \in Callers, IssueToken(p) PROVE AccessInv'
  BY <1>3, IssueTokenInv
<1>4. ASSUME NEW p \in Callers, NEW k \in KeyIds, NEW roles \in RoleSets,
             NEW policy \in Policies \cup {NoPin}, NEW expires \in {AccessUntil, Never},
             InsertKey(p, k, roles, policy, expires)
      PROVE  AccessInv'
  BY <1>4, InsertKeyInv
<1>5. ASSUME NEW k \in KeyIds, AuditKey(k) PROVE AccessInv'
  BY <1>5, AuditKeyInv
<1>6. ASSUME NEW p \in Callers, NEW k \in KeyIds, RevokeKey(p, k) PROVE AccessInv'
  BY <1>6, RevokeKeyInv
<1>7. ASSUME NEW p \in Callers, NEW id \in Policies, UpsertPolicy(p, id) PROVE AccessInv'
  BY <1>7, UpsertPolicyInv
<1>8. ASSUME NEW p \in Callers, NEW id \in Policies, DeletePolicy(p, id) PROVE AccessInv'
  BY <1>8, DeletePolicyInv
<1> QED BY <1>1, <1>2, <1>3, <1>4, <1>5, <1>6, <1>7, <1>8, NoCredentialInv DEF AccessNext

(* Through any sequence of sign-ups, sessions, keys minted by sessions and      *)
(* sessions of those keys, nobody acting for a customer may do more than its    *)
(* owner may do or hand on, every pin resolves in its own tenant, and every     *)
(* secret that was answered is in the audit log (AdminService.createKey,        *)
(* SessionTokenService, deletePolicy).                                          *)
THEOREM AuthorityNeverGrows == AccessSpec => []CredentialsBounded
<1>1. AccessInv => CredentialsBounded
  <2> SUFFICES ASSUME AccessInv PROVE CredentialsBounded
    OBVIOUS
  <2>1. AuthorityBounded
    BY CallersAreBounded DEF AuthorityBounded, Within
  <2>2. ASSUME NEW p \in Callers, p.policy # NoPin PROVE <<p.tenant, p.policy>> \in policies
    <3>1. PICK k \in DOMAIN keys : keys[k].tenant = p.tenant /\ keys[k].policy = p.policy
      BY <2>2, CallersAreBounded
    <3> QED BY <2>2, <3>1 DEF AccessInv, PinsHold, PinExists
  <2>3. held \ {Bootstrap} \subseteq audited
    BY DEF AccessInv, SecretsAudited
  <2> QED BY <2>1, <2>2, <2>3 DEF CredentialsBounded, CredentialsAccountedFor
<1> QED BY <1>1, AccessInitInv, AccessNextInv, PTL DEF AccessSpec
-------------------------------------------------------------------------------
(* AdminApi                                                                     *)

PolicyRow == [tenant : Parties, id : PolicyIds, content : Contents]
KeyRow == [tenant : Parties, id : FreshIds, pin : PolicyIds \cup {Unpinned}, enabled : BOOLEAN]
Payment == [tenant : Parties, transfer : DOMAIN PaidFor]
Sponsored == [tenant : Parties, policy : PolicyIds]
Entry == [tenant : Parties, action : {"policy", "key", "claim"}]

Database == [policies : SUBSET PolicyRow, keys : SUBSET KeyRow, paid : SUBSET Payment,
             sponsored : SUBSET Sponsored, audit : [Parties -> SUBSET Entry]]

(* A transfer is credited to the tenant whose reference it carries, and so the  *)
(* index over all tenants refuses a tenant only what is its own already.        *)
CreditedByReference(d) == \A p \in d.paid : p.tenant = PaidFor[p.transfer]

Sound(d) == d \in Database /\ CreditedByReference(d)

(* What the compared tenant can be told of.                                     *)
Own(rows) == {row \in rows : row.tenant = Mine}

Alike(d, e) ==
  /\ Own(d.policies) = Own(e.policies)
  /\ Own(d.keys) = Own(e.keys)
  /\ Own(d.paid) = Own(e.paid)
  /\ Own(d.sponsored) = Own(e.sponsored)
  /\ d.audit[Mine] = e.audit[Mine]

ApiInv == /\ db \in [Backends -> Database]
          /\ Sound(db[1]) /\ Sound(db[2]) /\ Alike(db[1], db[2])

(* What a tenant's own call leaves of two databases, and of one that it shares. *)
Matches(a, b) == /\ Sound(a.db) /\ Sound(b.db) /\ Alike(a.db, b.db)
                 /\ a.status = b.status /\ a.rows = b.rows

Apart(a, d) == Sound(a.db) /\ Alike(a.db, d)

LEMMA FailsAlike ==
  ASSUME NEW d, NEW e, Sound(d), Sound(e), Alike(d, e), NEW error
  PROVE  Matches(Fails(d, error), Fails(e, error)) /\ Apart(Fails(d, error), d)
BY DEF Fails, Matches, Apart, Alike

LEMMA OkAlike ==
  ASSUME NEW d, NEW e, NEW rows, Sound(d), Sound(e), Alike(d, e)
  PROVE  Matches(Ok(d, rows), Ok(e, rows))
BY DEF Ok, Matches

(* A write that both databases see alike: its audit entry goes to the log of    *)
(* the caller's tenant and changes nothing else.                                *)
LEMMA AuditedAlike ==
  ASSUME NEW d, NEW e, Sound(d), Sound(e), Alike(d, e), NEW rows, NEW who, who.tenant = Mine,
         NEW action \in {"policy", "key", "claim"}
  PROVE  Matches(Ok(Audited(d, who, action), rows),
                 Ok(Audited(e, who, action), rows))
<1> DEFINE x == Audited(d, who, action)
           y == Audited(e, who, action)
<1>0. x = Audited(d, who, action) /\ y = Audited(e, who, action)
  OBVIOUS
<1> HIDE DEF x, y
<1>1. Mine \in Parties /\ d \in Database /\ e \in Database
  BY DEF Parties, Sound
<1>2. /\ x \in Database
      /\ x.policies = d.policies /\ x.keys = d.keys /\ x.paid = d.paid /\ x.sponsored = d.sponsored
      /\ x.audit[Mine] = {[tenant |-> Mine, action |-> action]}
  BY <1>0, <1>1 DEF Audited, Database, Entry
<1>3. /\ y \in Database
      /\ y.policies = e.policies /\ y.keys = e.keys /\ y.paid = e.paid /\ y.sponsored = e.sponsored
      /\ y.audit[Mine] = {[tenant |-> Mine, action |-> action]}
  BY <1>0, <1>1 DEF Audited, Database, Entry
<1>4. Sound(x) /\ Sound(y)
  BY <1>2, <1>3 DEF Sound, CreditedByReference
<1>5. Alike(x, y)
  BY <1>2, <1>3 DEF Alike
<1>6. Matches(Ok(x, rows), Ok(y, rows))
  BY <1>4, <1>5, OkAlike
<1> QED BY <1>0, <1>6

(* A write of another tenant.                                                   *)
LEMMA AuditedApart ==
  ASSUME NEW d, NEW e, Sound(d), Sound(e), Alike(e, d), NEW rows, NEW who, who.tenant \in Others,
         NEW action \in {"policy", "key", "claim"}
  PROVE  Apart(Ok(Audited(e, who, action), rows), d)
<1> DEFINE y == Audited(e, who, action)
<1>0. y = Audited(e, who, action)
  OBVIOUS
<1> HIDE DEF y
<1>1. who.tenant \in Parties /\ who.tenant # Mine /\ Mine \in Parties /\ e \in Database
  BY AdminApiAssumption DEF Parties, Sound
<1>2. /\ y \in Database
      /\ y.policies = e.policies /\ y.keys = e.keys /\ y.paid = e.paid /\ y.sponsored = e.sponsored
      /\ y.audit[Mine] = e.audit[Mine]
  BY <1>0, <1>1 DEF Audited, Database, Entry
<1>3. Sound(y)
  BY <1>2 DEF Sound, CreditedByReference
<1>4. Alike(y, d)
  BY <1>2 DEF Alike
<1>5. Apart(Ok(y, rows), d)
  BY <1>3, <1>4 DEF Apart, Ok
<1> QED BY <1>0, <1>5
(* upsertPolicy replaces the row of the pair, and no other tenant's of that id. *)
LEMMA PutPolicyAlike ==
  ASSUME NEW d, NEW e, Sound(d), Sound(e), Alike(d, e), NEW who, who.tenant = Mine,
         NEW id \in PolicyIds, NEW content \in Contents
  PROVE  Matches(PutPolicy(d, who, id, content), PutPolicy(e, who, id, content))
<1>1. CASE content = InvalidRule
  BY <1>1, FailsAlike DEF PutPolicy
<1>2. CASE content # InvalidRule
  <2> DEFINE row == [tenant |-> who.tenant, id |-> id, content |-> content]
             Rows(f) == {p \in f.policies : ~(p.tenant = who.tenant /\ p.id = id)} \cup {row}
             x == [d EXCEPT !.policies = Rows(d)]
             y == [e EXCEPT !.policies = Rows(e)]
  <2>1. /\ PutPolicy(d, who, id, content) = Ok(Audited(x, who, "policy"), {row})
        /\ PutPolicy(e, who, id, content) = Ok(Audited(y, who, "policy"), {row})
    BY <1>2 DEF PutPolicy
  <2>2. row \in PolicyRow
    BY DEF PolicyRow, Parties
  <2>3. Rows(d) \in SUBSET PolicyRow /\ Rows(e) \in SUBSET PolicyRow
    BY <2>2 DEF Sound, Database
  <2>4. Own(Rows(d)) = Own(Rows(e))
    BY DEF Alike, Own
  <2>5. x = [d EXCEPT !.policies = Rows(d)] /\ y = [e EXCEPT !.policies = Rows(e)]
    OBVIOUS
  <2> HIDE DEF row, Rows, x, y
  <2>6. /\ Sound(x) /\ x.policies = Rows(d) /\ x.keys = d.keys /\ x.paid = d.paid
        /\ x.sponsored = d.sponsored /\ x.audit = d.audit
    BY <2>3, <2>5 DEF Sound, Database, CreditedByReference
  <2>7. /\ Sound(y) /\ y.policies = Rows(e) /\ y.keys = e.keys /\ y.paid = e.paid
        /\ y.sponsored = e.sponsored /\ y.audit = e.audit
    BY <2>3, <2>5 DEF Sound, Database, CreditedByReference
  <2>8. Alike(x, y)
    BY <2>4, <2>6, <2>7 DEF Alike
  <2> QED BY <2>1, <2>6, <2>7, <2>8, AuditedAlike
<1> QED BY <1>1, <1>2

LEMMA PutPolicyApart ==
  ASSUME NEW d, Sound(d), NEW who, who.tenant \in Others, NEW id \in PolicyIds, NEW content \in Contents
  PROVE  Apart(PutPolicy(d, who, id, content), d)
<1>0. Alike(d, d)
  BY DEF Alike
<1>1. CASE content = InvalidRule
  BY <1>0, <1>1, FailsAlike DEF PutPolicy
<1>2. CASE content # InvalidRule
  <2> DEFINE row == [tenant |-> who.tenant, id |-> id, content |-> content]
             rows == {p \in d.policies : ~(p.tenant = who.tenant /\ p.id = id)} \cup {row}
             x == [d EXCEPT !.policies = rows]
  <2>1. PutPolicy(d, who, id, content) = Ok(Audited(x, who, "policy"), {row})
    BY <1>2 DEF PutPolicy
  <2>2. rows \in SUBSET PolicyRow
    BY DEF PolicyRow, Parties, Sound, Database
  <2>3. Own(rows) = Own(d.policies)
    BY AdminApiAssumption DEF Own
  <2>4. x = [d EXCEPT !.policies = rows]
    OBVIOUS
  <2> HIDE DEF row, rows, x
  <2>5. /\ Sound(x) /\ x.policies = rows /\ x.keys = d.keys /\ x.paid = d.paid
        /\ x.sponsored = d.sponsored /\ x.audit = d.audit
    BY <2>2, <2>4 DEF Sound, Database, CreditedByReference
  <2>6. Alike(x, d)
    BY <2>3, <2>5 DEF Alike
  <2> QED BY <2>1, <2>5, <2>6, AuditedApart
<1> QED BY <1>1, <1>2
(* deletePolicy: the rows of the pair and the pins that hold them are the       *)
(* tenant's own, whatever others call theirs.                                   *)
LEMMA DropPolicyAlike ==
  ASSUME NEW d, NEW e, Sound(d), Sound(e), Alike(d, e), NEW who, who.tenant = Mine, NEW id
  PROVE  Matches(DropPolicy(d, who, id), DropPolicy(e, who, id))
<1> DEFINE Rows(f) == {p \in f.policies : p.tenant = who.tenant /\ p.id = id}
<1>1. Rows(d) = Rows(e)
  BY DEF Alike, Own
<1>2. Pinned(d, who, id) <=> Pinned(e, who, id)
  BY DEF Alike, Own, Pinned
<1>3. CASE Rows(d) = {}
  <2>1. DropPolicy(d, who, id) = Fails(d, "NOT_FOUND") /\ DropPolicy(e, who, id) = Fails(e, "NOT_FOUND")
    BY <1>1, <1>3 DEF DropPolicy
  <2> QED BY <2>1, FailsAlike
<1>4. CASE Rows(d) # {} /\ Pinned(d, who, id)
  <2>1. DropPolicy(d, who, id) = Fails(d, "POLICY_IN_USE") /\ DropPolicy(e, who, id) = Fails(e, "POLICY_IN_USE")
    BY <1>1, <1>2, <1>4 DEF DropPolicy
  <2> QED BY <2>1, FailsAlike
<1>5. CASE Rows(d) # {} /\ ~Pinned(d, who, id)
  <2> DEFINE Rest(f) == f.policies \ Rows(f)
             x == [d EXCEPT !.policies = Rest(d)]
             y == [e EXCEPT !.policies = Rest(e)]
  <2>1. /\ DropPolicy(d, who, id) = Ok(Audited(x, who, "policy"), {})
        /\ DropPolicy(e, who, id) = Ok(Audited(y, who, "policy"), {})
    BY <1>1, <1>2, <1>5 DEF DropPolicy
  <2>2. Rest(d) \in SUBSET PolicyRow /\ Rest(e) \in SUBSET PolicyRow
    BY DEF Sound, Database
  <2>3. Own(Rest(d)) = Own(Rest(e))
    BY <1>1 DEF Alike, Own
  <2>4. x = [d EXCEPT !.policies = Rest(d)] /\ y = [e EXCEPT !.policies = Rest(e)]
    OBVIOUS
  <2> HIDE DEF Rows, Rest, x, y
  <2>5. /\ Sound(x) /\ x.policies = Rest(d) /\ x.keys = d.keys /\ x.paid = d.paid
        /\ x.sponsored = d.sponsored /\ x.audit = d.audit
    BY <2>2, <2>4 DEF Sound, Database, CreditedByReference
  <2>6. /\ Sound(y) /\ y.policies = Rest(e) /\ y.keys = e.keys /\ y.paid = e.paid
        /\ y.sponsored = e.sponsored /\ y.audit = e.audit
    BY <2>2, <2>4 DEF Sound, Database, CreditedByReference
  <2>7. Alike(x, y)
    BY <2>3, <2>5, <2>6 DEF Alike
  <2> QED BY <2>1, <2>5, <2>6, <2>7, AuditedAlike
<1> QED BY <1>3, <1>4, <1>5

LEMMA DropPolicyApart ==
  ASSUME NEW d, Sound(d), NEW who, who.tenant \in Others, NEW id
  PROVE  Apart(DropPolicy(d, who, id), d)
<1> DEFINE rows == {p \in d.policies : p.tenant = who.tenant /\ p.id = id}
           x == [d EXCEPT !.policies = d.policies \ rows]
<1>0. Alike(d, d)
  BY DEF Alike
<1>1. \/ \E error : DropPolicy(d, who, id) = Fails(d, error)
      \/ DropPolicy(d, who, id) = Ok(Audited(x, who, "policy"), {})
  BY DEF DropPolicy
<1>2. d.policies \ rows \in SUBSET PolicyRow
  BY DEF Sound, Database
<1>3. Own(d.policies \ rows) = Own(d.policies)
  BY AdminApiAssumption DEF Own
<1>4. x = [d EXCEPT !.policies = d.policies \ rows]
  OBVIOUS
<1> HIDE DEF rows, x
<1>5. /\ Sound(x) /\ x.policies = d.policies \ rows /\ x.keys = d.keys /\ x.paid = d.paid
      /\ x.sponsored = d.sponsored /\ x.audit = d.audit
  BY <1>2, <1>4 DEF Sound, Database, CreditedByReference
<1>6. Alike(x, d)
  BY <1>3, <1>5 DEF Alike
<1> QED BY <1>0, <1>1, <1>5, <1>6, AuditedApart, FailsAlike

(* createKey: what may be granted is the caller's, and the pinned policy is      *)
(* looked for in its own tenant.                                                *)
LEMMA CreateKeyAlike ==
  ASSUME NEW d, NEW e, Sound(d), Sound(e), Alike(d, e), NEW who, who.tenant = Mine,
         NEW id \in FreshIds, NEW grants, NEW pin \in PolicyIds \cup {Unpinned}
  PROVE  Matches(CreateKey(d, who, id, grants, pin), CreateKey(e, who, id, grants, pin))
<1> DEFINE row == [tenant |-> who.tenant, id |-> id, pin |-> pin, enabled |-> TRUE]
           Rows(f) == f.keys \cup {row}
           x == [d EXCEPT !.keys = Rows(d)]
           y == [e EXCEPT !.keys = Rows(e)]
<1>1. (\E p \in d.policies : p.tenant = who.tenant /\ p.id = pin)
        <=> (\E p \in e.policies : p.tenant = who.tenant /\ p.id = pin)
  BY DEF Alike, Own
<1>2. \/ \E error : /\ CreateKey(d, who, id, grants, pin) = Fails(d, error)
                    /\ CreateKey(e, who, id, grants, pin) = Fails(e, error)
      \/ /\ CreateKey(d, who, id, grants, pin) = Ok(Audited(x, who, "key"), {row})
         /\ CreateKey(e, who, id, grants, pin) = Ok(Audited(y, who, "key"), {row})
  BY <1>1 DEF CreateKey
<1>3. row \in KeyRow
  BY DEF KeyRow, Parties
<1>4. Rows(d) \in SUBSET KeyRow /\ Rows(e) \in SUBSET KeyRow
  BY <1>3 DEF Sound, Database
<1>5. Own(Rows(d)) = Own(Rows(e))
  BY DEF Alike, Own
<1>6. x = [d EXCEPT !.keys = Rows(d)] /\ y = [e EXCEPT !.keys = Rows(e)]
  OBVIOUS
<1> HIDE DEF row, Rows, x, y
<1>7. /\ Sound(x) /\ x.policies = d.policies /\ x.keys = Rows(d) /\ x.paid = d.paid
      /\ x.sponsored = d.sponsored /\ x.audit = d.audit
  BY <1>4, <1>6 DEF Sound, Database, CreditedByReference
<1>8. /\ Sound(y) /\ y.policies = e.policies /\ y.keys = Rows(e) /\ y.paid = e.paid
      /\ y.sponsored = e.sponsored /\ y.audit = e.audit
  BY <1>4, <1>6 DEF Sound, Database, CreditedByReference
<1>9. Alike(x, y)
  BY <1>5, <1>7, <1>8 DEF Alike
<1> QED BY <1>2, <1>7, <1>8, <1>9, AuditedAlike, FailsAlike

LEMMA CreateKeyApart ==
  ASSUME NEW d, Sound(d), NEW who, who.tenant \in Others,
         NEW id \in FreshIds, NEW grants, NEW pin \in PolicyIds \cup {Unpinned}
  PROVE  Apart(CreateKey(d, who, id, grants, pin), d)
<1> DEFINE row == [tenant |-> who.tenant, id |-> id, pin |-> pin, enabled |-> TRUE]
           Rows(f) == f.keys \cup {row}
           x == [d EXCEPT !.keys = Rows(d)]
<1>0. Alike(d, d)
  BY DEF Alike
<1>1. \/ \E error : CreateKey(d, who, id, grants, pin) = Fails(d, error)
      \/ CreateKey(d, who, id, grants, pin) = Ok(Audited(x, who, "key"), {row})
  BY DEF CreateKey
<1>2. Rows(d) \in SUBSET KeyRow
  <2>1. row \in KeyRow
    BY DEF KeyRow, Parties
  <2> QED BY <2>1 DEF Sound, Database
<1>3. Own(Rows(d)) = Own(d.keys)
  BY AdminApiAssumption DEF Own
<1>4. x = [d EXCEPT !.keys = Rows(d)]
  OBVIOUS
<1> HIDE DEF row, Rows, x
<1>5. /\ Sound(x) /\ x.policies = d.policies /\ x.keys = Rows(d) /\ x.paid = d.paid
      /\ x.sponsored = d.sponsored /\ x.audit = d.audit
  BY <1>2, <1>4 DEF Sound, Database, CreditedByReference
<1>6. Alike(x, d)
  BY <1>3, <1>5 DEF Alike
<1> QED BY <1>0, <1>1, <1>5, <1>6, AuditedApart, FailsAlike
(* revokeKey: a key of another tenant is not there.                             *)
LEMMA DisableKeyAlike ==
  ASSUME NEW d, NEW e, Sound(d), Sound(e), Alike(d, e), NEW who, who.tenant = Mine, NEW id
  PROVE  Matches(DisableKey(d, who, id), DisableKey(e, who, id))
<1> DEFINE rows == Revocable(d, who, id)
           revoked == {[k EXCEPT !.enabled = FALSE] : k \in rows}
           Rows(f) == (f.keys \ rows) \cup revoked
           x == [d EXCEPT !.keys = Rows(d)]
           y == [e EXCEPT !.keys = Rows(e)]
<1>1. Revocable(e, who, id) = rows
  BY DEF Alike, Own, Revocable
<1>2. \/ /\ DisableKey(d, who, id) = Fails(d, "NOT_FOUND")
         /\ DisableKey(e, who, id) = Fails(e, "NOT_FOUND")
      \/ /\ DisableKey(d, who, id) = Ok(Audited(x, who, "key"), {})
         /\ DisableKey(e, who, id) = Ok(Audited(y, who, "key"), {})
  BY <1>1 DEF DisableKey
<1>3. rows \subseteq KeyRow
  BY DEF Revocable, Sound, Database
<1>4. revoked \subseteq KeyRow
  BY <1>3 DEF KeyRow
<1>5. Rows(d) \in SUBSET KeyRow /\ Rows(e) \in SUBSET KeyRow
  BY <1>4 DEF Sound, Database
<1>6. Own(Rows(d)) = Own(Rows(e))
  <2> HIDE DEF rows, revoked
  <2> QED BY DEF Alike, Own
<1>7. x = [d EXCEPT !.keys = Rows(d)] /\ y = [e EXCEPT !.keys = Rows(e)]
  OBVIOUS
<1> HIDE DEF rows, revoked, Rows, x, y
<1>8. /\ Sound(x) /\ x.policies = d.policies /\ x.keys = Rows(d) /\ x.paid = d.paid
      /\ x.sponsored = d.sponsored /\ x.audit = d.audit
  BY <1>5, <1>7 DEF Sound, Database, CreditedByReference
<1>9. /\ Sound(y) /\ y.policies = e.policies /\ y.keys = Rows(e) /\ y.paid = e.paid
      /\ y.sponsored = e.sponsored /\ y.audit = e.audit
  BY <1>5, <1>7 DEF Sound, Database, CreditedByReference
<1>10. Alike(x, y)
  BY <1>6, <1>8, <1>9 DEF Alike
<1> QED BY <1>2, <1>8, <1>9, <1>10, AuditedAlike, FailsAlike

LEMMA DisableKeyApart ==
  ASSUME NEW d, Sound(d), NEW who, who.tenant \in Others, NEW id
  PROVE  Apart(DisableKey(d, who, id), d)
<1> DEFINE rows == Revocable(d, who, id)
           revoked == {[k EXCEPT !.enabled = FALSE] : k \in rows}
           all == (d.keys \ rows) \cup revoked
           x == [d EXCEPT !.keys = all]
<1>0. Alike(d, d)
  BY DEF Alike
<1>1. \/ DisableKey(d, who, id) = Fails(d, "NOT_FOUND")
      \/ DisableKey(d, who, id) = Ok(Audited(x, who, "key"), {})
  BY DEF DisableKey
<1>2. rows \subseteq KeyRow /\ \A k \in rows : k.tenant = who.tenant
  BY DEF Revocable, Sound, Database
<1>3. revoked \subseteq KeyRow
  BY <1>2 DEF KeyRow
<1>4. \A k \in revoked : k.tenant = who.tenant
  BY <1>2 DEF KeyRow
<1>5. all \in SUBSET KeyRow
  BY <1>3 DEF Sound, Database
<1>6. Own(all) = Own(d.keys)
  <2> HIDE DEF rows, revoked
  <2> QED BY <1>2, <1>4, AdminApiAssumption DEF Own
<1>7. x = [d EXCEPT !.keys = all]
  OBVIOUS
<1> HIDE DEF rows, revoked, all, x
<1>8. /\ Sound(x) /\ x.policies = d.policies /\ x.keys = all /\ x.paid = d.paid
      /\ x.sponsored = d.sponsored /\ x.audit = d.audit
  BY <1>5, <1>7 DEF Sound, Database, CreditedByReference
<1>9. Alike(x, d)
  BY <1>6, <1>8 DEF Alike
<1> QED BY <1>0, <1>1, <1>8, <1>9, AuditedApart, FailsAlike

(* claimSubscriptionPayment: the reference is looked at before the index, so    *)
(* "already credited" is said of the tenant's own payments only.                *)
LEMMA ClaimPaymentAlike ==
  ASSUME NEW d, NEW e, Sound(d), Sound(e), Alike(d, e), NEW who, who.tenant = Mine,
         NEW transfer \in DOMAIN PaidFor
  PROVE  Matches(ClaimPayment(d, who, transfer), ClaimPayment(e, who, transfer))
<1> DEFINE row == [tenant |-> who.tenant, transfer |-> transfer]
           Rows(f) == f.paid \cup {row}
           x == [d EXCEPT !.paid = Rows(d)]
           y == [e EXCEPT !.paid = Rows(e)]
<1>1. CASE PaidFor[transfer] # who.tenant
  <2>1. /\ ClaimPayment(d, who, transfer) = Fails(d, "PAYMENT_NOT_ACCEPTED")
        /\ ClaimPayment(e, who, transfer) = Fails(e, "PAYMENT_NOT_ACCEPTED")
    BY <1>1 DEF ClaimPayment
  <2> QED BY <2>1, FailsAlike
<1>2. CASE PaidFor[transfer] = who.tenant
  <2>1. (\E p \in d.paid : p.transfer = transfer) <=> (\E p \in e.paid : p.transfer = transfer)
    BY <1>2 DEF Sound, CreditedByReference, Alike, Own
  <2>2. \/ /\ ClaimPayment(d, who, transfer) = Fails(d, "PAYMENT_ALREADY_CREDITED")
           /\ ClaimPayment(e, who, transfer) = Fails(e, "PAYMENT_ALREADY_CREDITED")
        \/ /\ ClaimPayment(d, who, transfer) = Ok(Audited(x, who, "claim"), {})
           /\ ClaimPayment(e, who, transfer) = Ok(Audited(y, who, "claim"), {})
    BY <1>2, <2>1 DEF ClaimPayment, Claim
  <2>3. row \in Payment /\ row.tenant = PaidFor[row.transfer]
    BY <1>2 DEF Payment, Parties
  <2>4. Rows(d) \in SUBSET Payment /\ Rows(e) \in SUBSET Payment
    BY <2>3 DEF Sound, Database
  <2>5. /\ \A p \in Rows(d) : p.tenant = PaidFor[p.transfer]
        /\ \A p \in Rows(e) : p.tenant = PaidFor[p.transfer]
    BY <2>3 DEF Sound, CreditedByReference
  <2>6. Own(Rows(d)) = Own(Rows(e))
    BY DEF Alike, Own
  <2>7. x = [d EXCEPT !.paid = Rows(d)] /\ y = [e EXCEPT !.paid = Rows(e)]
    OBVIOUS
  <2> HIDE DEF row, Rows, x, y
  <2>8. /\ Sound(x) /\ x.policies = d.policies /\ x.keys = d.keys /\ x.paid = Rows(d)
        /\ x.sponsored = d.sponsored /\ x.audit = d.audit
    BY <2>4, <2>5, <2>7 DEF Sound, Database, CreditedByReference
  <2>9. /\ Sound(y) /\ y.policies = e.policies /\ y.keys = e.keys /\ y.paid = Rows(e)
        /\ y.sponsored = e.sponsored /\ y.audit = e.audit
    BY <2>4, <2>5, <2>7 DEF Sound, Database, CreditedByReference
  <2>10. Alike(x, y)
    BY <2>6, <2>8, <2>9 DEF Alike
  <2> QED BY <2>2, <2>8, <2>9, <2>10, AuditedAlike, FailsAlike
<1> QED BY <1>1, <1>2

LEMMA ClaimPaymentApart ==
  ASSUME NEW d, Sound(d), NEW who, who.tenant \in Others, NEW transfer \in DOMAIN PaidFor
  PROVE  Apart(ClaimPayment(d, who, transfer), d)
<1> DEFINE row == [tenant |-> who.tenant, transfer |-> transfer]
           Rows(f) == f.paid \cup {row}
           x == [d EXCEPT !.paid = Rows(d)]
<1>0. Alike(d, d)
  BY DEF Alike
<1>1. \/ \E error : ClaimPayment(d, who, transfer) = Fails(d, error)
      \/ /\ PaidFor[transfer] = who.tenant
         /\ ClaimPayment(d, who, transfer) = Ok(Audited(x, who, "claim"), {})
  BY DEF ClaimPayment, Claim
<1>2. CASE \E error : ClaimPayment(d, who, transfer) = Fails(d, error)
  BY <1>0, <1>2, FailsAlike
<1>3. CASE /\ PaidFor[transfer] = who.tenant
           /\ ClaimPayment(d, who, transfer) = Ok(Audited(x, who, "claim"), {})
  <2>1. row \in Payment /\ row.tenant = PaidFor[row.transfer]
    BY <1>3 DEF Payment, Parties
  <2>2. Rows(d) \in SUBSET Payment
    BY <2>1 DEF Sound, Database
  <2>3. \A p \in Rows(d) : p.tenant = PaidFor[p.transfer]
    BY <2>1 DEF Sound, CreditedByReference
  <2>4. Own(Rows(d)) = Own(d.paid)
    BY AdminApiAssumption DEF Own
  <2>5. x = [d EXCEPT !.paid = Rows(d)]
    OBVIOUS
  <2> HIDE DEF row, Rows, x
  <2>6. /\ Sound(x) /\ x.policies = d.policies /\ x.keys = d.keys /\ x.paid = Rows(d)
        /\ x.sponsored = d.sponsored /\ x.audit = d.audit
    BY <2>2, <2>3, <2>5 DEF Sound, Database, CreditedByReference
  <2>7. Alike(x, d)
    BY <2>4, <2>6 DEF Alike
  <2> QED BY <1>3, <2>6, <2>7, AuditedApart
<1> QED BY <1>1, <1>2, <1>3

LEMMA SponsorUnderAlike ==
  ASSUME NEW d, NEW e, Sound(d), Sound(e), Alike(d, e), NEW who, who.tenant = Mine, NEW id \in PolicyIds
  PROVE  Matches(SponsorUnder(d, who, id), SponsorUnder(e, who, id))
<1> DEFINE row == [tenant |-> who.tenant, policy |-> id]
           Rows(f) == f.sponsored \cup {row}
           x == [d EXCEPT !.sponsored = Rows(d)]
           y == [e EXCEPT !.sponsored = Rows(e)]
<1>1. (\E p \in d.policies : p.tenant = who.tenant /\ p.id = id)
        <=> (\E p \in e.policies : p.tenant = who.tenant /\ p.id = id)
  BY DEF Alike, Own
<1>2. \/ /\ SponsorUnder(d, who, id) = Fails(d, "NOT_CONFIGURED")
         /\ SponsorUnder(e, who, id) = Fails(e, "NOT_CONFIGURED")
      \/ /\ SponsorUnder(d, who, id) = Ok(x, {})
         /\ SponsorUnder(e, who, id) = Ok(y, {})
  BY <1>1 DEF SponsorUnder
<1>3. row \in Sponsored
  BY DEF Sponsored, Parties
<1>4. Rows(d) \in SUBSET Sponsored /\ Rows(e) \in SUBSET Sponsored
  BY <1>3 DEF Sound, Database
<1>5. Own(Rows(d)) = Own(Rows(e))
  BY DEF Alike, Own
<1>6. x = [d EXCEPT !.sponsored = Rows(d)] /\ y = [e EXCEPT !.sponsored = Rows(e)]
  OBVIOUS
<1> HIDE DEF row, Rows, x, y
<1>7. /\ Sound(x) /\ x.policies = d.policies /\ x.keys = d.keys /\ x.paid = d.paid
      /\ x.sponsored = Rows(d) /\ x.audit = d.audit
  BY <1>4, <1>6 DEF Sound, Database, CreditedByReference
<1>8. /\ Sound(y) /\ y.policies = e.policies /\ y.keys = e.keys /\ y.paid = e.paid
      /\ y.sponsored = Rows(e) /\ y.audit = e.audit
  BY <1>4, <1>6 DEF Sound, Database, CreditedByReference
<1>9. Alike(x, y)
  BY <1>5, <1>7, <1>8 DEF Alike
<1> QED BY <1>2, <1>7, <1>8, <1>9, OkAlike, FailsAlike

LEMMA SponsorUnderApart ==
  ASSUME NEW d, Sound(d), NEW who, who.tenant \in Others, NEW id \in PolicyIds
  PROVE  Apart(SponsorUnder(d, who, id), d)
<1> DEFINE row == [tenant |-> who.tenant, policy |-> id]
           Rows(f) == f.sponsored \cup {row}
           x == [d EXCEPT !.sponsored = Rows(d)]
<1>0. Alike(d, d)
  BY DEF Alike
<1>1. \/ SponsorUnder(d, who, id) = Fails(d, "NOT_CONFIGURED")
      \/ SponsorUnder(d, who, id) = Ok(x, {})
  BY DEF SponsorUnder
<1>2. row \in Sponsored
  BY DEF Sponsored, Parties
<1>3. Rows(d) \in SUBSET Sponsored
  BY <1>2 DEF Sound, Database
<1>4. Own(Rows(d)) = Own(d.sponsored)
  BY AdminApiAssumption DEF Own
<1>5. x = [d EXCEPT !.sponsored = Rows(d)]
  OBVIOUS
<1> HIDE DEF row, Rows, x
<1>6. /\ Sound(x) /\ x.policies = d.policies /\ x.keys = d.keys /\ x.paid = d.paid
      /\ x.sponsored = Rows(d) /\ x.audit = d.audit
  BY <1>3, <1>5 DEF Sound, Database, CreditedByReference
<1>7. Alike(x, d)
  BY <1>4, <1>6 DEF Alike
<1>8. Apart(Ok(x, {}), d)
  BY <1>6, <1>7 DEF Apart, Ok
<1> QED BY <1>0, <1>1, <1>8, FailsAlike
(* The arms of the guard and the router.                                        *)
LEMMA ServedBy ==
  ASSUME NEW d, NEW who, NEW call, call.route \in Routes, RoutePermission[call.route] \in who.permissions
  PROVE  /\ call.route = "listPolicies" => Serve(d, who, call) = Ok(d, InScope(d.policies, who))
         /\ call.route = "getPolicy" => Serve(d, who, call) = GetPolicy(d, who, call.id)
         /\ call.route = "upsertPolicy" => Serve(d, who, call) = PutPolicy(d, who, call.id, call.content)
         /\ call.route = "deletePolicy" => Serve(d, who, call) = DropPolicy(d, who, call.id)
         /\ call.route = "reload" => Serve(d, who, call) = ReloadPolicies(d, who)
         /\ call.route = "listKeys" => Serve(d, who, call) = Ok(d, InScope(d.keys, who))
         /\ call.route = "createKey" => Serve(d, who, call) = CreateKey(d, who, call.key, call.grants, call.pin)
         /\ call.route = "revokeKey" => Serve(d, who, call) = DisableKey(d, who, call.key)
         /\ call.route = "listSponsorships" => Serve(d, who, call) = ListSponsorships(d, who)
         /\ call.route = "listAudit" => Serve(d, who, call) = Ok(d, UNION {d.audit[t] : t \in Scope(who)})
         /\ call.route = "getSubscription" => Serve(d, who, call) = GetSubscription(d, who)
         /\ call.route = "claimPayment" => Serve(d, who, call) = ClaimPayment(d, who, call.transfer)
         /\ call.route = "sponsor" => Serve(d, who, call) = SponsorUnder(d, who, call.id)
BY DEF Serve

LEMMA RoutesAre ==
  Routes = {"listPolicies", "getPolicy", "upsertPolicy", "deletePolicy", "reload", "listKeys", "createKey",
            "revokeKey", "listSponsorships", "listAudit", "getSubscription", "claimPayment", "sponsor"}
BY DEF Routes, RoutePermission

(* What a call names is of the kind its route takes.                            *)
LEMMA CallNames ==
  ASSUME NEW r, NEW call \in Call(r)
  PROVE  /\ call.route = r
         /\ r \in {"getPolicy", "upsertPolicy", "deletePolicy", "sponsor"} => call.id \in PolicyIds
         /\ r = "upsertPolicy" => call.content \in Contents
         /\ r \in {"createKey", "revokeKey"} => call.key \in FreshIds
         /\ r = "createKey" => call.pin \in PolicyIds \cup {Unpinned}
         /\ r = "claimPayment" => call.transfer \in DOMAIN PaidFor
BY DEF Call

LEMMA ForbiddenIs ==
  ASSUME NEW d, NEW who, NEW call, RoutePermission[call.route] \notin who.permissions
  PROVE  Serve(d, who, call) = Fails(d, "FORBIDDEN")
BY DEF Serve

(* The tenant reads its own rows: only the operator's scope is wider.           *)
LEMMA ReadsAlike ==
  ASSUME NEW d, NEW e, Sound(d), Sound(e), Alike(d, e), NEW who, who.tenant = Mine,
         "platform:read" \notin who.permissions
  PROVE  /\ Matches(Ok(d, InScope(d.policies, who)), Ok(e, InScope(e.policies, who)))
         /\ Matches(Ok(d, InScope(d.keys, who)), Ok(e, InScope(e.keys, who)))
         /\ Matches(ListSponsorships(d, who), ListSponsorships(e, who))
         /\ Matches(GetSubscription(d, who), GetSubscription(e, who))
         /\ Matches(Ok(d, UNION {d.audit[t] : t \in Scope(who)}), Ok(e, UNION {e.audit[t] : t \in Scope(who)}))
         /\ \A id : Matches(GetPolicy(d, who, id), GetPolicy(e, who, id))
<1>1. Scope(who) = {Mine}
  BY DEF Scope
<1>2. \A rows : InScope(rows, who) = Own(rows)
  BY <1>1 DEF InScope, Own
<1>3. /\ InScope(d.policies, who) = InScope(e.policies, who)
      /\ InScope(d.keys, who) = InScope(e.keys, who)
      /\ InScope(d.sponsored, who) = InScope(e.sponsored, who)
  BY <1>2 DEF Alike
<1>4. {p \in d.paid : p.tenant = who.tenant} = {p \in e.paid : p.tenant = who.tenant}
  BY DEF Alike, Own
<1>5. UNION {d.audit[t] : t \in Scope(who)} = UNION {e.audit[t] : t \in Scope(who)}
  BY <1>1 DEF Alike
<1>6. ASSUME NEW id PROVE Matches(GetPolicy(d, who, id), GetPolicy(e, who, id))
  <2>1. Found(d, who, id) = Found(e, who, id)
    BY <1>3 DEF Found
  <2> QED BY <2>1, OkAlike, FailsAlike DEF GetPolicy
<1> QED BY <1>3, <1>4, <1>5, <1>6, OkAlike DEF ListSponsorships, GetSubscription

(* Served on both backends, a call of the tenant leaves them alike, and but for  *)
(* the reload it is answered alike.                                             *)
LEMMA ServeAlike ==
  ASSUME NEW d, NEW e, Sound(d), Sound(e), Alike(d, e), NEW who, who.tenant = Mine,
         "platform:read" \notin who.permissions, NEW r \in Routes, NEW call \in Call(r)
  PROVE  /\ Sound(Serve(d, who, call).db) /\ Sound(Serve(e, who, call).db)
         /\ Alike(Serve(d, who, call).db, Serve(e, who, call).db)
         /\ r # "reload" => /\ Serve(d, who, call).status = Serve(e, who, call).status
                            /\ Serve(d, who, call).rows = Serve(e, who, call).rows
<1>1. call.route = r
  BY CallNames
<1>2. CASE RoutePermission[r] \notin who.permissions
  BY <1>1, <1>2, ForbiddenIs, FailsAlike DEF Matches
<1>3. CASE RoutePermission[r] \in who.permissions /\ r = "reload"
  <2> DEFINE rows(f) == {[tenant |-> who.tenant, count |-> Cardinality(f.policies)]}
  <2>1. /\ Serve(d, who, call) = Ok(Audited(d, who, "policy"), rows(d))
        /\ Serve(e, who, call) = Ok(Audited(e, who, "policy"), rows(e))
    BY <1>1, <1>3, ServedBy DEF ReloadPolicies
  <2> HIDE DEF rows
  <2>2. Matches(Ok(Audited(d, who, "policy"), rows(d)), Ok(Audited(e, who, "policy"), rows(d)))
    BY AuditedAlike
  <2> QED BY <1>3, <2>1, <2>2 DEF Matches, Ok
<1>4. CASE RoutePermission[r] \in who.permissions /\ r # "reload"
  <2>1. Matches(Serve(d, who, call), Serve(e, who, call))
    <3>1. CASE r \in {"listPolicies", "getPolicy", "listKeys", "listSponsorships", "listAudit", "getSubscription"}
      <4>1. CASE r = "listPolicies"
        <5>1. Serve(d, who, call) = Ok(d, InScope(d.policies, who)) /\ Serve(e, who, call) = Ok(e, InScope(e.policies, who))
          BY <1>1, <1>4, <4>1, ServedBy
        <5>2. Matches(Ok(d, InScope(d.policies, who)), Ok(e, InScope(e.policies, who)))
          BY ReadsAlike
        <5> QED BY <5>1, <5>2
      <4>2. CASE r = "getPolicy"
        <5>1. Serve(d, who, call) = GetPolicy(d, who, call.id) /\ Serve(e, who, call) = GetPolicy(e, who, call.id)
          BY <1>1, <1>4, <4>2, ServedBy
        <5> QED BY <5>1, ReadsAlike
      <4>3. CASE r = "listKeys"
        <5>1. Serve(d, who, call) = Ok(d, InScope(d.keys, who)) /\ Serve(e, who, call) = Ok(e, InScope(e.keys, who))
          BY <1>1, <1>4, <4>3, ServedBy
        <5>2. Matches(Ok(d, InScope(d.keys, who)), Ok(e, InScope(e.keys, who)))
          BY ReadsAlike
        <5> QED BY <5>1, <5>2
      <4>4. CASE r = "listSponsorships"
        <5>1. Serve(d, who, call) = ListSponsorships(d, who) /\ Serve(e, who, call) = ListSponsorships(e, who)
          BY <1>1, <1>4, <4>4, ServedBy
        <5> QED BY <5>1, ReadsAlike
      <4>5. CASE r = "listAudit"
        <5>1. Serve(d, who, call) = Ok(d, UNION {d.audit[t] : t \in Scope(who)}) /\ Serve(e, who, call) = Ok(e, UNION {e.audit[t] : t \in Scope(who)})
          BY <1>1, <1>4, <4>5, ServedBy
        <5>2. Matches(Ok(d, UNION {d.audit[t] : t \in Scope(who)}), Ok(e, UNION {e.audit[t] : t \in Scope(who)}))
          BY ReadsAlike
        <5> QED BY <5>1, <5>2
      <4>6. CASE r = "getSubscription"
        <5>1. Serve(d, who, call) = GetSubscription(d, who) /\ Serve(e, who, call) = GetSubscription(e, who)
          BY <1>1, <1>4, <4>6, ServedBy
        <5> QED BY <5>1, ReadsAlike
      <4> QED BY <3>1, <4>1, <4>2, <4>3, <4>4, <4>5, <4>6
    <3>2. CASE r = "upsertPolicy"
      <4>1. /\ Serve(d, who, call) = PutPolicy(d, who, call.id, call.content)
            /\ Serve(e, who, call) = PutPolicy(e, who, call.id, call.content)
        BY <1>1, <1>4, <3>2, ServedBy
      <4>2. call.id \in PolicyIds /\ call.content \in Contents
        BY <3>2, CallNames
      <4> QED BY <4>1, <4>2, PutPolicyAlike
    <3>3. CASE r = "deletePolicy"
      <4>1. /\ Serve(d, who, call) = DropPolicy(d, who, call.id)
            /\ Serve(e, who, call) = DropPolicy(e, who, call.id)
        BY <1>1, <1>4, <3>3, ServedBy
      <4> QED BY <4>1, DropPolicyAlike
    <3>4. CASE r = "createKey"
      <4>1. /\ Serve(d, who, call) = CreateKey(d, who, call.key, call.grants, call.pin)
            /\ Serve(e, who, call) = CreateKey(e, who, call.key, call.grants, call.pin)
        BY <1>1, <1>4, <3>4, ServedBy
      <4>2. call.key \in FreshIds /\ call.pin \in PolicyIds \cup {Unpinned}
        BY <3>4, CallNames
      <4> QED BY <4>1, <4>2, CreateKeyAlike
    <3>5. CASE r = "revokeKey"
      <4>1. /\ Serve(d, who, call) = DisableKey(d, who, call.key)
            /\ Serve(e, who, call) = DisableKey(e, who, call.key)
        BY <1>1, <1>4, <3>5, ServedBy
      <4> QED BY <4>1, DisableKeyAlike
    <3>6. CASE r = "claimPayment"
      <4>1. /\ Serve(d, who, call) = ClaimPayment(d, who, call.transfer)
            /\ Serve(e, who, call) = ClaimPayment(e, who, call.transfer)
        BY <1>1, <1>4, <3>6, ServedBy
      <4>2. call.transfer \in DOMAIN PaidFor
        BY <3>6, CallNames
      <4> QED BY <4>1, <4>2, ClaimPaymentAlike
    <3>7. CASE r = "sponsor"
      <4>1. /\ Serve(d, who, call) = SponsorUnder(d, who, call.id)
            /\ Serve(e, who, call) = SponsorUnder(e, who, call.id)
        BY <1>1, <1>4, <3>7, ServedBy
      <4>2. call.id \in PolicyIds
        BY <3>7, CallNames
      <4> QED BY <4>1, <4>2, SponsorUnderAlike
    <3> QED BY <1>4, <3>1, <3>2, <3>3, <3>4, <3>5, <3>6, <3>7, RoutesAre
  <2> QED BY <2>1 DEF Matches
<1> QED BY <1>2, <1>3, <1>4
(* What another tenant is served leaves the compared tenant's rows as they are. *)
LEMMA ServeApart ==
  ASSUME NEW d, Sound(d), NEW who, who.tenant \in Others, NEW r \in Routes, NEW call \in Call(r)
  PROVE  Apart(Serve(d, who, call), d)
<1>0. Alike(d, d)
  BY DEF Alike
<1>1. call.route = r
  BY CallNames
<1>2. \A rows : Apart(Ok(d, rows), d)
  BY <1>0 DEF Apart, Ok
<1>3. CASE RoutePermission[r] \notin who.permissions
  BY <1>0, <1>1, <1>3, ForbiddenIs, FailsAlike
<1>4. CASE RoutePermission[r] \in who.permissions
  <2>1. CASE r \in {"listPolicies", "getPolicy", "listKeys", "listSponsorships", "listAudit", "getSubscription"}
    <3>1. CASE r = "listPolicies"
      <4>1. Serve(d, who, call) = Ok(d, InScope(d.policies, who))
        BY <1>1, <1>4, <3>1, ServedBy
      <4>2. Apart(Ok(d, InScope(d.policies, who)), d)
        BY <1>0, <1>2
      <4> QED BY <4>1, <4>2
    <3>2. CASE r = "getPolicy"
      <4>1. Serve(d, who, call) = GetPolicy(d, who, call.id)
        BY <1>1, <1>4, <3>2, ServedBy
      <4>2. Apart(GetPolicy(d, who, call.id), d)
        BY <1>0, <1>2, FailsAlike DEF GetPolicy
      <4> QED BY <4>1, <4>2
    <3>3. CASE r = "listKeys"
      <4>1. Serve(d, who, call) = Ok(d, InScope(d.keys, who))
        BY <1>1, <1>4, <3>3, ServedBy
      <4>2. Apart(Ok(d, InScope(d.keys, who)), d)
        BY <1>0, <1>2
      <4> QED BY <4>1, <4>2
    <3>4. CASE r = "listSponsorships"
      <4>1. Serve(d, who, call) = ListSponsorships(d, who)
        BY <1>1, <1>4, <3>4, ServedBy
      <4>2. Apart(ListSponsorships(d, who), d)
        BY <1>0, <1>2 DEF ListSponsorships
      <4> QED BY <4>1, <4>2
    <3>5. CASE r = "listAudit"
      <4>1. Serve(d, who, call) = Ok(d, UNION {d.audit[t] : t \in Scope(who)})
        BY <1>1, <1>4, <3>5, ServedBy
      <4>2. Apart(Ok(d, UNION {d.audit[t] : t \in Scope(who)}), d)
        BY <1>0, <1>2
      <4> QED BY <4>1, <4>2
    <3>6. CASE r = "getSubscription"
      <4>1. Serve(d, who, call) = GetSubscription(d, who)
        BY <1>1, <1>4, <3>6, ServedBy
      <4>2. Apart(GetSubscription(d, who), d)
        BY <1>0, <1>2 DEF GetSubscription
      <4> QED BY <4>1, <4>2
    <3> QED BY <2>1, <3>1, <3>2, <3>3, <3>4, <3>5, <3>6
  <2>2. CASE r = "reload"
    <3> DEFINE rows == {[tenant |-> who.tenant, count |-> Cardinality(d.policies)]}
    <3>1. Serve(d, who, call) = Ok(Audited(d, who, "policy"), rows)
      BY <1>1, <1>4, <2>2, ServedBy DEF ReloadPolicies
    <3> HIDE DEF rows
    <3> QED BY <1>0, <3>1, AuditedApart
  <2>3. CASE r = "upsertPolicy"
    <3>1. Serve(d, who, call) = PutPolicy(d, who, call.id, call.content)
      BY <1>1, <1>4, <2>3, ServedBy
    <3>2. call.id \in PolicyIds /\ call.content \in Contents
      BY <2>3, CallNames
    <3> QED BY <3>1, <3>2, PutPolicyApart
  <2>4. CASE r = "deletePolicy"
    <3>1. Serve(d, who, call) = DropPolicy(d, who, call.id)
      BY <1>1, <1>4, <2>4, ServedBy
    <3> QED BY <3>1, DropPolicyApart
  <2>5. CASE r = "createKey"
    <3>1. Serve(d, who, call) = CreateKey(d, who, call.key, call.grants, call.pin)
      BY <1>1, <1>4, <2>5, ServedBy
    <3>2. call.key \in FreshIds /\ call.pin \in PolicyIds \cup {Unpinned}
      BY <2>5, CallNames
    <3> QED BY <3>1, <3>2, CreateKeyApart
  <2>6. CASE r = "revokeKey"
    <3>1. Serve(d, who, call) = DisableKey(d, who, call.key)
      BY <1>1, <1>4, <2>6, ServedBy
    <3> QED BY <3>1, DisableKeyApart
  <2>7. CASE r = "claimPayment"
    <3>1. Serve(d, who, call) = ClaimPayment(d, who, call.transfer)
      BY <1>1, <1>4, <2>7, ServedBy
    <3>2. call.transfer \in DOMAIN PaidFor
      BY <2>7, CallNames
    <3> QED BY <3>1, <3>2, ClaimPaymentApart
  <2>8. CASE r = "sponsor"
    <3>1. Serve(d, who, call) = SponsorUnder(d, who, call.id)
      BY <1>1, <1>4, <2>8, ServedBy
    <3>2. call.id \in PolicyIds
      BY <2>8, CallNames
    <3> QED BY <3>1, <3>2, SponsorUnderApart
  <2> QED BY <2>1, <2>2, <2>3, <2>4, <2>5, <2>6, <2>7, <2>8, RoutesAre
<1> QED BY <1>3, <1>4

LEMMA ApiInitInv == ApiInit => ApiInv
<1> SUFFICES ASSUME ApiInit PROVE ApiInv
  OBVIOUS
<1> DEFINE none == [policies |-> {}, keys |-> {}, paid |-> {}, sponsored |-> {}, audit |-> [t \in Parties |-> {}]]
<1>1. db = [w \in Backends |-> none]
  BY DEF ApiInit
<1>2. none \in Database /\ none.paid = {}
  BY DEF Database
<1> HIDE DEF none
<1>3. Sound(none) /\ Alike(none, none)
  BY <1>2 DEF Sound, CreditedByReference, Alike
<1> QED BY <1>1, <1>2, <1>3 DEF ApiInv, Backends

(* A caller of the compared tenant, and one of another.                         *)
LEMMA MyCallers ==
  ASSUME NEW permissions \in MyPermissions
  PROVE  /\ Caller(Mine, permissions).tenant = Mine
         /\ "platform:read" \notin Caller(Mine, permissions).permissions
BY DEF Caller, MyPermissions, TenantAdmin, Viewer, Sponsor

LEMMA ApiNextInv == ApiInv /\ [ApiNext]_db => ApiInv'
<1> SUFFICES ASSUME ApiInv, [ApiNext]_db PROVE ApiInv'
  OBVIOUS
<1>1. ASSUME NEW r \in Routes, NEW call \in Call(r), NEW permissions \in MyPermissions, MineCalls(permissions, call)
      PROVE  ApiInv'
  <2> DEFINE who == Caller(Mine, permissions)
  <2>1. who.tenant = Mine /\ "platform:read" \notin who.permissions
    BY MyCallers
  <2>2. db' = [w \in Backends |-> Serve(db[w], who, call).db]
    BY <1>1 DEF MineCalls
  <2> HIDE DEF who
  <2>3. /\ Sound(Serve(db[1], who, call).db) /\ Sound(Serve(db[2], who, call).db)
        /\ Alike(Serve(db[1], who, call).db, Serve(db[2], who, call).db)
    BY <2>1, ServeAlike DEF ApiInv
  <2>4. db'[1] = Serve(db[1], who, call).db /\ db'[2] = Serve(db[2], who, call).db
    BY <2>2 DEF Backends
  <2>5. db' \in [Backends -> Database]
    BY <2>2, <2>3 DEF Backends, Sound
  <2> QED BY <2>3, <2>4, <2>5 DEF ApiInv
<1>2. ASSUME NEW r \in Routes, NEW call \in Call(r), NEW t \in Others,
             NEW permissions \in {TenantAdmin, Sponsor, Platform}, OthersCall(t, permissions, call)
      PROVE  ApiInv'
  <2> DEFINE who == Caller(t, permissions)
             served == Serve(db[1], who, call).db
  <2>1. who.tenant \in Others
    BY DEF Caller
  <2>2. db' = [db EXCEPT ![1] = served]
    BY <1>2 DEF OthersCall
  <2> HIDE DEF who
  <2>3. Sound(served) /\ Alike(served, db[1])
    BY <2>1, ServeApart DEF ApiInv, Apart
  <2> HIDE DEF served
  <2>4. db'[1] = served /\ db'[2] = db[2] /\ db' \in [Backends -> Database]
    BY <2>2, <2>3 DEF ApiInv, Backends, Sound
  <2>5. Alike(served, db[2])
    BY <2>3 DEF ApiInv, Alike
  <2> QED BY <2>3, <2>4, <2>5 DEF ApiInv
<1>3. CASE UNCHANGED db
  BY <1>3 DEF ApiInv, Sound, CreditedByReference, Alike, Own
<1> QED BY <1>1, <1>2, <1>3 DEF ApiNext

(* Status, rows and refusals of every route but the reload are a function of     *)
(* what a tenant did itself: the same whatever other tenants did, on any number *)
(* of them, of policies, keys and payments (db/scope.ts, the repositories'      *)
(* WHERE clauses and keys, DomainErrorFilter).                                  *)
THEOREM AnswersTellNothingOfOthers == ApiSpec => []AnswersArePrivate
<1>1. ApiInv => AnswersArePrivate
  <2> SUFFICES ASSUME ApiInv, NEW permissions \in MyPermissions, NEW r \in Routes \ {"reload"}, NEW call \in Call(r)
               PROVE  Answer(1, permissions, call) = Answer(2, permissions, call)
    BY DEF AnswersArePrivate, AnswersAlike
  <2> DEFINE who == Caller(Mine, permissions)
  <2>1. who.tenant = Mine /\ "platform:read" \notin who.permissions
    BY MyCallers
  <2> HIDE DEF who
  <2>2. /\ Serve(db[1], who, call).status = Serve(db[2], who, call).status
        /\ Serve(db[1], who, call).rows = Serve(db[2], who, call).rows
    BY <2>1, ServeAlike DEF ApiInv
  <2> QED BY <2>2 DEF Answer, who
<1> QED BY <1>1, ApiInitInv, ApiNextInv, PTL DEF ApiSpec

-------------------------------------------------------------------------------
(* Notices                                                                      *)

Sweeps == [is : {"none", "starting", "due", "claimed"}, notice : Notice]

NoticeTypes ==
  /\ now \in 0..LastSecond
  /\ paidThrough \in 0..(LastSecond + Period)
  /\ grace \in Nat
  /\ settledSince \in 0..now
  /\ sweep \in [Replicas -> Sweeps]
  /\ sweptAt \in [Replicas -> 0..now]
  /\ sent \in [Notice -> Nat]

Holds(r, n) == sweep[r].is = "claimed" /\ sweep[r].notice = n

(* What a replica has claimed nobody has sent, nor will another send it; what   *)
(* has been sent was claimed.                                                   *)
ClaimedByOne ==
  /\ \A r \in Replicas, n \in Notice : Holds(r, n) => n \in claimed /\ sent[n] = 0
  /\ \A r, q \in Replicas, n \in Notice : Holds(r, n) /\ Holds(q, n) => r = q
  /\ \A n \in Notice : n \notin claimed => sent[n] = 0

GraceNotice == [paidThrough |-> paidThrough, kind |-> "grace"]

(* A replica that asked inside the grace window, with nothing changed since it  *)
(* opened, has the notice claimed, is about to, or asks again before time       *)
(* passes.                                                                      *)
AskedInGrace(r) == settledSince <= paidThrough /\ paidThrough < sweptAt[r] /\ sweptAt[r] <= paidThrough + grace

GraceNoticed ==
  \A r \in Replicas :
    active /\ AskedInGrace(r) =>
      \/ GraceNotice \in claimed
      \/ sweep[r].is = "due" /\ sweep[r].notice = GraceNotice
      \/ sweep[r].is = "starting"

NoticesInv == NoticeTypes /\ SentOnce /\ ClaimedByOne /\ GraceNoticed /\ WarnedBeforeRefused

LEMMA NoticesInitInv == NoticesInit => NoticesInv
<1> SUFFICES ASSUME NoticesInit PROVE NoticesInv
  OBVIOUS
<1>1. NoSweep \in Sweeps
  BY NoticesAssumption DEF NoSweep, Sweeps, Notice, Kinds
<1>2. NoticeTypes
  BY <1>1, NoticesAssumption DEF NoticesInit, NoticeTypes
<1>3. SentOnce /\ ClaimedByOne
  BY DEF NoticesInit, NoSweep, SentOnce, ClaimedByOne, Holds
<1>4. GraceNoticed
  BY <1>2, NoticesAssumption DEF NoticesInit, NoticeTypes, GraceNoticed, AskedInGrace
<1>5. WarnedBeforeRefused
  BY <1>2, NoticesAssumption DEF NoticesInit, NoticeTypes, WarnedBeforeRefused
<1> QED BY <1>2, <1>3, <1>4, <1>5 DEF NoticesInv

(* Due is one of the two notices of the row as it is.                           *)
LEMMA DueIsNotice == ASSUME NoticeTypes PROVE DueNow \in Notice
BY DEF NoticeTypes, DueNow, Kind, Notice, Kinds

(* A replica asks.                                                              *)
LEMMA SweepInv ==
  ASSUME NEW r \in Replicas, NoticesInv, Sweep(r)
  PROVE  NoticesInv'
<1> USE DEF NoticesInv, NoticeTypes
<1>1. /\ sweep[r].is \in {"none", "starting"}
      /\ sweptAt' = [sweptAt EXCEPT ![r] = now]
      /\ UNCHANGED <<now, claimed, sent, unsent, paidThrough, grace, active, settledSince>>
  BY DEF Sweep, rowVars
<1>2. \/ active /\ Window /\ DueNow \notin claimed /\ sweep' = [sweep EXCEPT ![r] = [is |-> "due", notice |-> DueNow]]
      \/ ~(active /\ Window /\ DueNow \notin claimed) /\ sweep' = [sweep EXCEPT ![r] = NoSweep]
  BY DEF Sweep
<1>3. \A q \in Replicas : q # r => sweep'[q] = sweep[q] /\ sweptAt'[q] = sweptAt[q]
  BY <1>1, <1>2
<1>4. sweep'[r].is \in {"none", "due"} /\ sweptAt'[r] = now
  BY <1>1, <1>2 DEF NoSweep
<1>5. NoticeTypes'
  <2>1. NoSweep \in Sweeps /\ [is |-> "due", notice |-> DueNow] \in Sweeps
    BY NoticesAssumption, DueIsNotice DEF NoSweep, Sweeps, Notice, Kinds
  <2> QED BY <1>1, <1>2, <2>1
<1>6. \A q \in Replicas, n \in Notice : Holds(q, n)' <=> Holds(q, n)
  BY <1>1, <1>3, <1>4 DEF Holds
<1>7. SentOnce' /\ ClaimedByOne'
  BY <1>1, <1>6 DEF SentOnce, ClaimedByOne, Holds
<1>8. GraceNoticed'
  <2> SUFFICES ASSUME NEW q \in Replicas, active, AskedInGrace(q)', GraceNotice \notin claimed, sweep'[q].is # "starting"
               PROVE  sweep'[q].is = "due" /\ sweep'[q].notice = GraceNotice
    BY <1>1 DEF GraceNoticed, GraceNotice
  <2>1. CASE q # r
    BY <1>1, <1>3, <2>1 DEF GraceNoticed, AskedInGrace
  <2>2. CASE q = r
    <3>1. paidThrough < now /\ now <= paidThrough + grace
      BY <1>1, <1>4, <2>2 DEF AskedInGrace
    <3>2. Window /\ DueNow = GraceNotice
      BY <3>1, NoticesAssumption DEF Window, DueNow, Kind, GraceNotice
    <3> QED BY <1>2, <2>2, <3>2
  <2> QED BY <2>1, <2>2
<1>9. WarnedBeforeRefused'
  BY <1>1 DEF WarnedBeforeRefused
<1> QED BY <1>5, <1>7, <1>8, <1>9

(* One insert wins: the notice is then held, or was claimed by someone.         *)
LEMMA ClaimNoticeInv ==
  ASSUME NEW r \in Replicas, NoticesInv, ClaimNotice(r)
  PROVE  NoticesInv'
<1> USE DEF NoticesInv, NoticeTypes
<1> DEFINE it == sweep[r].notice
<1>1. /\ sweep[r].is = "due"
      /\ claimed' = claimed \cup {it}
      /\ UNCHANGED <<now, sweptAt, sent, unsent, paidThrough, grace, active, settledSince>>
      /\ it \in Notice
  BY DEF ClaimNotice, rowVars, Sweeps
<1>2. \/ it \notin claimed /\ sweep' = [sweep EXCEPT ![r].is = "claimed"]
      \/ it \in claimed /\ sweep' = [sweep EXCEPT ![r] = NoSweep]
  BY DEF ClaimNotice, ClaimedFirst
<1>3. \A q \in Replicas : q # r => sweep'[q] = sweep[q]
  BY <1>1, <1>2
<1>4. \/ it \notin claimed /\ sweep'[r].is = "claimed" /\ sweep'[r].notice = it
      \/ it \in claimed /\ sweep'[r].is = "none"
  BY <1>2 DEF Sweeps, NoSweep
<1>5. NoticeTypes'
  <2>1. NoSweep \in Sweeps
    BY NoticesAssumption DEF NoSweep, Sweeps, Notice, Kinds
  <2>2. [sweep[r] EXCEPT !.is = "claimed"] \in Sweeps
    BY DEF Sweeps
  <2> QED BY <1>1, <1>2, <2>1, <2>2
<1> HIDE DEF it
<1>6. \A q \in Replicas, n \in Notice : Holds(q, n)' => Holds(q, n) \/ (q = r /\ n = it /\ it \notin claimed)
  BY <1>1, <1>3, <1>4 DEF Holds
<1>7. \A q \in Replicas, n \in Notice : Holds(q, n) => Holds(q, n)'
  BY <1>1, <1>3 DEF Holds
<1>8. ClaimedByOne'
  <2>1. \A q \in Replicas, n \in Notice : Holds(q, n)' => n \in claimed' /\ sent'[n] = 0
    BY <1>1, <1>6 DEF ClaimedByOne
  <2>2. \A p, q \in Replicas, n \in Notice : Holds(p, n)' /\ Holds(q, n)' => p = q
    BY <1>1, <1>6 DEF ClaimedByOne
  <2> QED BY <1>1, <2>1, <2>2 DEF ClaimedByOne
<1>9. SentOnce'
  <2> SUFFICES ASSUME NEW n \in Notice
               PROVE  /\ sent'[n] <= 1
                      /\ n \in claimed' => sent'[n] = 1 \/ n \in unsent' \/ \E q \in Replicas : Holds(q, n)'
    BY DEF SentOnce, Holds
  <2>1. CASE n \in claimed
    BY <1>1, <1>7, <2>1 DEF SentOnce, Holds
  <2>2. CASE n \notin claimed
    BY <1>1, <1>4, <2>2 DEF SentOnce, Holds
  <2> QED BY <2>1, <2>2
<1>10. GraceNoticed'
  <2> SUFFICES ASSUME NEW q \in Replicas, active, AskedInGrace(q), GraceNotice \notin claimed'
               PROVE  \/ sweep'[q].is = "due" /\ sweep'[q].notice = GraceNotice
                      \/ sweep'[q].is = "starting"
    BY <1>1 DEF GraceNoticed, GraceNotice, AskedInGrace
  <2>1. q # r
    BY <1>1 DEF GraceNoticed, it
  <2> QED BY <1>1, <1>3, <2>1 DEF GraceNoticed
<1>11. WarnedBeforeRefused'
  BY <1>1 DEF WarnedBeforeRefused
<1> QED BY <1>5, <1>8, <1>9, <1>10, <1>11

(* Sent, or its holder died: it is held no more.                                *)
LEMMA SendOrDieInv ==
  ASSUME NEW r \in Replicas, NoticesInv, Send(r) \/ DieSweeping(r)
  PROVE  NoticesInv'
<1> USE DEF NoticesInv, NoticeTypes
<1> DEFINE it == sweep[r].notice
<1>1. UNCHANGED <<now, sweptAt, claimed, paidThrough, grace, active, settledSince>> /\ it \in Notice
  BY DEF Send, DieSweeping, rowVars, Sweeps
<1>2. \/ /\ sweep[r].is = "claimed" /\ sweep' = [sweep EXCEPT ![r] = NoSweep]
         /\ sent' = [sent EXCEPT ![it] = @ + 1] /\ unsent' = unsent
      \/ /\ sweep' = [sweep EXCEPT ![r] = [NoSweep EXCEPT !.is = "starting"]]
         /\ sent' = sent
         /\ unsent' = (IF sweep[r].is = "claimed" THEN unsent \cup {it} ELSE unsent)
  BY DEF Send, DieSweeping
<1>3. \A q \in Replicas : q # r => sweep'[q] = sweep[q]
  BY <1>2
<1>4. sweep'[r].is \in {"none", "starting"} /\ (sweep[r].is # "claimed" => sweep'[r].is = "starting")
  BY <1>2 DEF NoSweep
<1>5. NoticeTypes'
  <2>1. NoSweep \in Sweeps /\ [NoSweep EXCEPT !.is = "starting"] \in Sweeps
    BY NoticesAssumption DEF NoSweep, Sweeps, Notice, Kinds
  <2> QED BY <1>1, <1>2, <2>1
<1> HIDE DEF it
<1>6. \A q \in Replicas, n \in Notice : Holds(q, n)' <=> Holds(q, n) /\ q # r
  BY <1>3, <1>4 DEF Holds
<1>7. \A n \in Notice : sent'[n] = sent[n] \/ (n = it /\ Holds(r, n) /\ sent'[n] = 1)
  BY <1>1, <1>2 DEF ClaimedByOne, Holds, it
<1>8. \A n \in Notice : Holds(r, n) => sent'[n] = 1 \/ n \in unsent'
  BY <1>1, <1>2 DEF ClaimedByOne, Holds, it
<1>9. unsent \subseteq unsent'
  BY <1>2
<1>10. ClaimedByOne'
  <2>1. \A q \in Replicas, n \in Notice : Holds(q, n)' => n \in claimed' /\ sent'[n] = 0
    BY <1>1, <1>6, <1>7 DEF ClaimedByOne
  <2>2. \A p, q \in Replicas, n \in Notice : Holds(p, n)' /\ Holds(q, n)' => p = q
    BY <1>6 DEF ClaimedByOne
  <2>3. \A n \in Notice : n \notin claimed' => sent'[n] = 0
    BY <1>1, <1>7 DEF ClaimedByOne
  <2> QED BY <2>1, <2>2, <2>3 DEF ClaimedByOne
<1>11. SentOnce'
  <2> SUFFICES ASSUME NEW n \in Notice
               PROVE  /\ sent'[n] <= 1
                      /\ n \in claimed => sent'[n] = 1 \/ n \in unsent' \/ \E q \in Replicas : Holds(q, n)'
    BY <1>1 DEF SentOnce, Holds
  <2>1. sent[n] <= 1 /\ (n \in claimed => sent[n] = 1 \/ n \in unsent \/ \E q \in Replicas : Holds(q, n))
    BY DEF SentOnce, Holds
  <2> QED BY <1>6, <1>7, <1>8, <1>9, <2>1
<1>12. GraceNoticed'
  <2> SUFFICES ASSUME NEW q \in Replicas, active, AskedInGrace(q), GraceNotice \notin claimed
               PROVE  \/ sweep'[q].is = "due" /\ sweep'[q].notice = GraceNotice
                      \/ sweep'[q].is = "starting"
    BY <1>1 DEF GraceNoticed, GraceNotice, AskedInGrace
  <2> QED BY <1>3, <1>4 DEF GraceNoticed
<1>13. WarnedBeforeRefused'
  BY <1>1 DEF WarnedBeforeRefused
<1> QED BY <1>5, <1>10, <1>11, <1>12, <1>13

(* The row, its grace or its tenant changes: from then on nothing has been      *)
(* settled before the period ended.                                             *)
LEMMA SettledAnewInv ==
  ASSUME NoticesInv, Renew \/ SetGraceSeconds \/ SetTenantStatus
  PROVE  NoticesInv'
<1> USE DEF NoticesInv, NoticeTypes
<1>1. settledSince' = now /\ UNCHANGED <<now, sweep, sweptAt, claimed, sent, unsent>>
  BY DEF Renew, SetGraceSeconds, SetTenantStatus
<1>2. NoticeTypes'
  <2>1. paidThrough' \in 0..(LastSecond + Period) /\ grace' \in Nat
    <3>1. CASE Renew
      BY <3>1, NoticesAssumption DEF Renew
    <3>2. CASE SetGraceSeconds \/ SetTenantStatus
      BY <3>2, NoticesAssumption DEF SetGraceSeconds, SetTenantStatus
    <3> QED BY <3>1, <3>2
  <2>2. settledSince' \in 0..now'
    BY <1>1, NoticesAssumption
  <2> QED BY <1>1, <2>1, <2>2
<1>3. SentOnce' /\ ClaimedByOne'
  BY <1>1 DEF SentOnce, ClaimedByOne, Holds
<1>4. GraceNoticed'
  BY <1>1, <1>2 DEF GraceNoticed, AskedInGrace
<1>5. WarnedBeforeRefused'
  <2>1. now' \in Nat /\ paidThrough' \in Nat /\ grace' \in Nat /\ settledSince' = now'
    BY <1>1, <1>2, NoticesAssumption
  <2>2. \A n, p, g \in Nat : ~(n > p + g /\ n <= p)
    OBVIOUS
  <2> QED BY <2>1, <2>2 DEF WarnedBeforeRefused
<1> QED BY <1>2, <1>3, <1>4, <1>5

(* The second in which the window closes: every replica last asked less than an *)
(* interval before, hence within the window.                                    *)
LEMMA SecondPassesInv ==
  ASSUME NoticesInv, SecondPasses
  PROVE  NoticesInv'
<1> USE DEF NoticesInv, NoticeTypes
<1>1. /\ now' = now + 1 /\ now < LastSecond
      /\ UNCHANGED <<sweep, sweptAt, claimed, sent, unsent, paidThrough, grace, active, settledSince>>
      /\ \A r \in Replicas : sweep[r].is = "none" /\ now + 1 - sweptAt[r] <= Interval
  BY DEF SecondPasses, rowVars
<1>2. NoticeTypes'
  <2>1. now' \in 0..LastSecond /\ 0..now \subseteq 0..now'
    BY <1>1, NoticesAssumption
  <2> QED BY <1>1, <2>1
<1>3. SentOnce' /\ ClaimedByOne' /\ GraceNoticed'
  BY <1>1 DEF SentOnce, ClaimedByOne, Holds, GraceNoticed, GraceNotice, AskedInGrace
<1>4. WarnedBeforeRefused'
  <2> SUFFICES ASSUME now + 1 > paidThrough + grace, settledSince <= paidThrough, active, grace >= Interval
               PROVE  GraceNotice \in claimed
    BY <1>1 DEF WarnedBeforeRefused, GraceNotice
  <2>1. CASE now > paidThrough + grace
    BY <2>1 DEF WarnedBeforeRefused, GraceNotice
  <2>2. CASE now = paidThrough + grace
    <3>1. PICK r \in Replicas : TRUE
      BY NoticesAssumption
    <3>2. AskedInGrace(r)
      BY <1>1, <2>2, <3>1, NoticesAssumption DEF AskedInGrace
    <3> QED BY <1>1, <3>1, <3>2 DEF GraceNoticed
  <2> QED BY <2>1, <2>2
<1> QED BY <1>2, <1>3, <1>4

(* A sweep fails: nobody holds what it may have inserted, and from then on      *)
(* nothing has been settled before the period ended.                            *)
LEMMA SweepFailsInv ==
  ASSUME NEW r \in Replicas, NoticesInv, AskFails(r) \/ ClaimFails(r)
  PROVE  NoticesInv'
<1> USE DEF NoticesInv, NoticeTypes
<1>1. PICK it \in Notice : it = sweep[r].notice
  BY DEF Sweeps
<1>2. /\ sweep[r].is # "claimed" /\ settledSince' = now
      /\ sweep' = [sweep EXCEPT ![r] = NoSweep]
      /\ UNCHANGED <<now, paidThrough, grace, active, sent>>
      /\ sweptAt' = sweptAt \/ sweptAt' = [sweptAt EXCEPT ![r] = now]
  BY DEF AskFails, ClaimFails
<1>3. \/ claimed' = claimed /\ unsent' = unsent
      \/ it \notin claimed /\ claimed' = claimed \cup {it} /\ unsent' = unsent \cup {it}
  BY <1>1 DEF AskFails, ClaimFails, ClaimedFirst
<1>4. NoticeTypes'
  <2>1. NoSweep \in Sweeps
    BY NoticesAssumption DEF NoSweep, Sweeps, Notice, Kinds
  <2>2. sweptAt' \in [Replicas -> 0..now']
    BY <1>2, NoticesAssumption
  <2>3. settledSince' \in 0..now'
    BY <1>2, NoticesAssumption
  <2> QED BY <1>2, <2>1, <2>2, <2>3
<1>5. \A q \in Replicas, n \in Notice : Holds(q, n)' <=> Holds(q, n)
  BY <1>2 DEF Holds, NoSweep
<1>6. ClaimedByOne'
  BY <1>2, <1>3, <1>5 DEF ClaimedByOne
<1>7. SentOnce'
  <2> SUFFICES ASSUME NEW n \in Notice
               PROVE  /\ sent[n] <= 1
                      /\ n \in claimed' => sent[n] = 1 \/ n \in unsent' \/ \E q \in Replicas : Holds(q, n)'
    BY <1>2 DEF SentOnce, Holds
  <2>1. sent[n] <= 1 /\ (n \in claimed => sent[n] = 1 \/ n \in unsent \/ \E q \in Replicas : Holds(q, n))
    BY DEF SentOnce, Holds
  <2> QED BY <1>3, <1>5, <2>1
<1>8. GraceNoticed'
  <2>1. \A q \in Replicas : sweptAt'[q] \in 0..now
    BY <1>2, <1>4
  <2> QED BY <1>2, <2>1, NoticesAssumption DEF GraceNoticed, AskedInGrace
<1>9. WarnedBeforeRefused'
  <2>1. \A n, p, g \in Nat : ~(n > p + g /\ n <= p)
    OBVIOUS
  <2>2. now \in Nat /\ paidThrough \in Nat /\ grace \in Nat
    BY NoticesAssumption
  <2> QED BY <1>2, <2>1, <2>2 DEF WarnedBeforeRefused
<1> QED BY <1>4, <1>6, <1>7, <1>8, <1>9

LEMMA NoticesNextInv == NoticesInv /\ [NoticesNext]_noticeVars => NoticesInv'
<1> SUFFICES ASSUME NoticesInv, [NoticesNext]_noticeVars PROVE NoticesInv'
  OBVIOUS
<1>1. ASSUME NEW r \in Replicas,
             Sweep(r) \/ ClaimNotice(r) \/ Send(r) \/ AskFails(r) \/ ClaimFails(r) \/ DieSweeping(r)
      PROVE  NoticesInv'
  BY <1>1, SweepInv, ClaimNoticeInv, SendOrDieInv, SweepFailsInv
<1>2. CASE Renew \/ SetGraceSeconds \/ SetTenantStatus
  BY <1>2, SettledAnewInv
<1>3. CASE SecondPasses
  BY <1>3, SecondPassesInv
<1>4. CASE UNCHANGED noticeVars
  BY <1>4 DEF noticeVars, NoticesInv, NoticeTypes, SentOnce, ClaimedByOne, Holds, GraceNoticed, GraceNotice,
              AskedInGrace, WarnedBeforeRefused
<1> QED BY <1>1, <1>2, <1>3, <1>4 DEF NoticesNext

(* However many replicas sweep, die and race, and whatever is renewed meanwhile: *)
(* each notice is sent at most once, and lost only with the replica that had     *)
(* claimed it or with the reply to its claim; and no grace window that the      *)
(* sweeps could look at closes unannounced.                                     *)
THEOREM NoticesOnceAndInTime == NoticesSpec => []NoticesInTime
<1>1. NoticesInv => NoticesInTime
  BY DEF NoticesInv, NoticesInTime
<1> QED BY <1>1, NoticesInitInv, NoticesNextInv, PTL DEF NoticesSpec

-------------------------------------------------------------------------------
(* Boot                                                                         *)

BootTypes ==
  /\ booting \in [Fleet -> {"down", "waiting", "applying"} \cup Migrated]
  /\ env \in [Fleet -> {NoEnv} \cup Environments]
  /\ applied \in [Fleet -> SUBSET recorded]
  /\ bootLock \subseteq Fleet
  /\ schema \in [Versions -> Nat]
  /\ bootRows \in [PolicyRows -> {"absent", "boot", "operator", "deleted"}]
  /\ overtaken \subseteq Fleet

(* The table has one row per version, which says that the statements were       *)
(* committed, once.                                                             *)
OneRowEach ==
  /\ \A row \in recorded : row = <<row[1], row[2]>> /\ row[1] \in Versions
  /\ \A x, y \in recorded : x[1] = y[1] => x = y
  /\ \A v \in Versions : schema[v] = (IF IsRecorded(v) THEN 1 ELSE 0)

(* Who applies holds the lock, alone, and has read all there is.                *)
OneApplies ==
  /\ \A r, q \in bootLock : r = q
  /\ \A r \in Fleet : booting[r] = "applying" => r \in bootLock /\ applied[r] = recorded

OnItsSchema ==
  \A r \in Fleet :
    booting[r] \in Migrated /\ env[r].onBoot => \A v \in DOMAIN env[r].release : <<v, env[r].release[v]>> \in recorded

(* Who is about to seed found nothing, and since then no policy was written but *)
(* by others who seed, or the operator's writes are held against it.            *)
SeedsOnNothing ==
  \A r \in Fleet : booting[r] = "seed" => r \in overtaken \/ NoPolicy \/ bootRows[Seeded] = "boot"

BootInv == BootTypes /\ OneRowEach /\ OneApplies /\ OnItsSchema /\ SeedsOnNothing

LEMMA BootInitInv == BootInit => BootInv
<1> SUFFICES ASSUME BootInit PROVE BootInv
  OBVIOUS
<1>1. BootTypes
  BY DEF BootInit, BootTypes
<1>2. OneRowEach /\ OneApplies
  BY DEF BootInit, OneRowEach, IsRecorded, OneApplies
<1>3. OnItsSchema /\ SeedsOnNothing
  BY DEF BootInit, OnItsSchema, SeedsOnNothing, Migrated
<1> QED BY <1>1, <1>2, <1>3 DEF BootInv

(* A phase changes, and nothing that is stored.                                 *)
LEMMA StepsAsideInv ==
  ASSUME NEW r \in Fleet, BootInv,
         \/ \E e \in Environments : Start(r, e)
         \/ DieBooting(r) \/ Lock(r) \/ Refuse(r) \/ Unlock(r)
         \/ EnsureBootstrapKey(r) \/ ListPolicies(r) \/ VerifyAll(r)
  PROVE  BootInv'
<1> USE DEF BootInv
<1>1. UNCHANGED <<schema, recorded, bootRows>>
  BY DEF Start, DieBooting, Lock, Refuse, Unlock, EnsureBootstrapKey, ListPolicies, VerifyAll
<1>2. BootTypes'
  BY <1>1 DEF BootTypes, Start, DieBooting, Lock, Refuse, Unlock, EnsureBootstrapKey, ListPolicies, VerifyAll,
              Down, Move, TakeLock, Migrated
<1>3. OneRowEach'
  BY <1>1 DEF OneRowEach, IsRecorded
<1>4. OneApplies'
  BY <1>1 DEF BootTypes, OneApplies, Start, DieBooting, Lock, Refuse, Unlock, EnsureBootstrapKey, ListPolicies,
              VerifyAll, Down, Move, TakeLock, Migrated
<1>5. OnItsSchema'
  <2> SUFFICES ASSUME NEW q \in Fleet, booting'[q] \in Migrated, env'[q].onBoot,
                      NEW v \in DOMAIN env'[q].release
               PROVE  <<v, env'[q].release[v]>> \in recorded
    BY <1>1 DEF OnItsSchema
  <2>1. CASE booting[q] \in Migrated /\ env'[q] = env[q]
    BY <2>1 DEF OnItsSchema
  <2>2. CASE Unlock(r) /\ q = r
    <3>1. env'[r] = env[r] /\ booting[r] = "applying" /\ Modified(r) = {} /\ Pending(r) = {}
      BY <2>2 DEF Unlock
    <3>2. PICK row \in applied[r] : row[1] = v
      BY <2>2, <3>1 DEF Pending, Release
    <3>3. row \in recorded /\ row = <<row[1], row[2]>>
      BY DEF BootTypes, OneRowEach
    <3>4. env[r].release[v] = row[2]
      BY <2>2, <3>1, <3>2 DEF Modified, Release
    <3> QED BY <2>2, <3>1, <3>2, <3>3, <3>4
  <2>3. \/ booting[q] \in Migrated /\ env'[q] = env[q]
        \/ Unlock(r) /\ q = r
    BY DEF BootTypes, Start, DieBooting, Lock, Refuse, Unlock, EnsureBootstrapKey, ListPolicies, VerifyAll,
           Down, Move, TakeLock, Migrated
  <2> QED BY <2>1, <2>2, <2>3
<1>6. SeedsOnNothing'
  <2> SUFFICES ASSUME NEW q \in Fleet, booting'[q] = "seed"
               PROVE  q \in overtaken' \/ NoPolicy \/ bootRows[Seeded] = "boot"
    BY <1>1 DEF SeedsOnNothing, NoPolicy
  <2>1. \/ booting[q] = "seed" /\ (q \in overtaken => q \in overtaken')
        \/ NoPolicy
    BY DEF BootTypes, Start, DieBooting, Lock, Refuse, Unlock, EnsureBootstrapKey, ListPolicies, VerifyAll,
           Down, Move, TakeLock
  <2> QED BY <2>1 DEF SeedsOnNothing
<1> QED BY <1>2, <1>3, <1>4, <1>5, <1>6

(* One transaction: the statements and the row; the others who applied would    *)
(* hold the lock.                                                               *)
LEMMA MigrateInv ==
  ASSUME NEW r \in Fleet, BootInv, Migrate(r)
  PROVE  BootInv'
<1> USE DEF BootInv
<1>1. PICK v \in Pending(r) :
        /\ ~IsRecorded(v)
        /\ schema' = [schema EXCEPT ![v] = @ + 1]
        /\ recorded' = recorded \cup {<<v, Release(r)[v]>>}
        /\ applied' = [applied EXCEPT ![r] = @ \cup {<<v, Release(r)[v]>>}]
  BY DEF Migrate
<1>2. booting[r] = "applying" /\ UNCHANGED <<booting, env, bootLock, bootKey, bootRows, overtaken, boots>>
  BY DEF Migrate
<1>3. r \in bootLock /\ applied[r] = recorded
  BY <1>2 DEF OneApplies
<1>4. v \in Versions
  <2>1. v \in DOMAIN env[r].release
    BY <1>1 DEF Pending, Release
  <2>2. env[r] \in {NoEnv} \cup Environments
    BY DEF BootTypes
  <2>3. DOMAIN NoEnv.release = {}
    BY DEF NoEnv
  <2> QED BY <2>1, <2>2, <2>3 DEF Versions
<1>5. BootTypes'
  BY <1>1, <1>2, <1>3, <1>4 DEF BootTypes
<1>6. OneRowEach'
  <2>1. \A row \in recorded' : row = <<row[1], row[2]>> /\ row[1] \in Versions
    BY <1>1, <1>4 DEF OneRowEach
  <2>2. \A x, y \in recorded' : x[1] = y[1] => x = y
    BY <1>1 DEF OneRowEach, IsRecorded
  <2>3. ASSUME NEW w \in Versions
        PROVE  schema'[w] = (IF \E row \in recorded' : row[1] = w THEN 1 ELSE 0)
    <3>1. schema[w] = (IF \E row \in recorded : row[1] = w THEN 1 ELSE 0)
      BY DEF OneRowEach, IsRecorded
    <3>2. CASE w = v
      <4>1. schema'[v] = 1
        BY <1>1, <1>4, <3>1, <3>2 DEF IsRecorded, BootTypes
      <4>2. <<v, Release(r)[v]>> \in recorded' /\ <<v, Release(r)[v]>>[1] = v
        BY <1>1
      <4> QED BY <3>2, <4>1, <4>2
    <3>3. CASE w # v
      <4>1. schema'[w] = schema[w]
        BY <1>1, <1>4, <3>3 DEF BootTypes
      <4>2. (\E row \in recorded' : row[1] = w) <=> (\E row \in recorded : row[1] = w)
        BY <1>1, <3>3
      <4> QED BY <3>1, <4>1, <4>2
    <3> QED BY <3>2, <3>3
  <2> QED BY <2>1, <2>2, <2>3 DEF OneRowEach, IsRecorded
<1>7. OneApplies'
  BY <1>1, <1>2, <1>3 DEF OneApplies, BootTypes
<1>8. OnItsSchema'
  BY <1>1, <1>2 DEF OnItsSchema
<1>9. SeedsOnNothing'
  BY <1>2 DEF SeedsOnNothing, NoPolicy
<1> QED BY <1>5, <1>6, <1>7, <1>8, <1>9

(* The seed and the operator's writes.                                          *)
LEMMA PolicyWrittenInv ==
  ASSUME BootInv,
         \/ \E r \in Fleet : SeedPolicy(r)
         \/ RevokeBootKey
         \/ \E row \in PolicyRows : UpsertRow(row) \/ DeleteRow(row)
  PROVE  BootInv'
<1> USE DEF BootInv
<1>1. UNCHANGED <<env, applied, bootLock, schema, recorded>>
  BY DEF SeedPolicy, RevokeBootKey, UpsertRow, DeleteRow, Write, Operator
<1>2. BootTypes'
  BY <1>1 DEF BootTypes, SeedPolicy, RevokeBootKey, UpsertRow, DeleteRow, Write, Operator, Move, Migrated,
              PolicyRows
<1>3. OneRowEach'
  BY <1>1 DEF OneRowEach, IsRecorded
<1>4. \A q \in Fleet : booting'[q] = booting[q] \/ (booting[q] \in Migrated /\ booting'[q] = "verify")
  BY DEF BootTypes, SeedPolicy, RevokeBootKey, UpsertRow, DeleteRow, Write, Operator, Move, Migrated
<1>5. OneApplies' /\ OnItsSchema'
  BY <1>1, <1>4 DEF OneApplies, OnItsSchema, Migrated
<1>6. SeedsOnNothing'
  <2> SUFFICES ASSUME NEW q \in Fleet, booting'[q] = "seed"
               PROVE  q \in overtaken' \/ NoPolicy' \/ bootRows'[Seeded] = "boot"
    BY DEF SeedsOnNothing
  <2>1. booting[q] = "seed"
    BY <1>4, <2>1
  <2>2. CASE \E r \in Fleet : SeedPolicy(r)
    BY <2>2 DEF BootTypes, SeedPolicy, PolicyRows
  <2>3. CASE RevokeBootKey
    BY <2>1, <2>3 DEF RevokeBootKey, Operator, SeedsOnNothing, NoPolicy
  <2>4. CASE \E row \in PolicyRows : UpsertRow(row) \/ DeleteRow(row)
    BY <2>1, <2>4 DEF UpsertRow, DeleteRow, Write
  <2> QED BY <2>2, <2>3, <2>4
<1> QED BY <1>2, <1>3, <1>5, <1>6

LEMMA BootNextInv == BootInv /\ [BootNext]_bootVars => BootInv'
<1> SUFFICES ASSUME BootInv, [BootNext]_bootVars PROVE BootInv'
  OBVIOUS
<1>1. ASSUME NEW r \in Fleet, Step(r) PROVE BootInv'
  BY <1>1, StepsAsideInv, MigrateInv, PolicyWrittenInv DEF Step
<1>2. CASE RevokeBootKey \/ \E row \in PolicyRows : UpsertRow(row) \/ DeleteRow(row)
  BY <1>2, PolicyWrittenInv
<1>3. CASE UNCHANGED bootVars
  BY <1>3 DEF bootVars, BootInv, BootTypes, OneRowEach, IsRecorded, OneApplies, OnItsSchema, SeedsOnNothing, NoPolicy
<1> QED BY <1>1, <1>2, <1>3 DEF BootNext

LEMMA InvMigratedOnce == BootInv => MigratedOnce
<1> SUFFICES ASSUME BootInv PROVE MigratedOnce
  OBVIOUS
<1> USE DEF BootInv
<1>1. ASSUME NEW v \in Versions
      PROVE  schema[v] = Cardinality({row \in recorded : row[1] = v})
  <2>1. CASE ~IsRecorded(v)
    <3>1. {row \in recorded : row[1] = v} = {}
      BY <2>1 DEF IsRecorded
    <3> QED BY <2>1, <3>1, FS_EmptySet DEF OneRowEach
  <2>2. CASE IsRecorded(v)
    <3>1. PICK row \in recorded : row[1] = v
      BY <2>2 DEF IsRecorded
    <3>2. {x \in recorded : x[1] = v} = {row}
      BY <3>1 DEF OneRowEach
    <3> QED BY <2>2, <3>2, FS_Singleton DEF OneRowEach
  <2> QED BY <2>1, <2>2
<1> QED BY <1>1 DEF MigratedOnce, OneApplies, OnItsSchema, Past, Release

LEMMA StepUndoesNothing == BootInv /\ BootNext => UndoesNothing
<1> SUFFICES ASSUME BootInv, BootNext PROVE UndoesNothing
  OBVIOUS
<1>1. bootKey = "revoked" => bootKey' = "revoked"
  BY DEF BootNext, Step, Start, DieBooting, Lock, Refuse, Migrate, Unlock, EnsureBootstrapKey, KeyEnsured,
         ListPolicies, SeedPolicy, VerifyAll, RevokeBootKey, UpsertRow, DeleteRow, Write
<1>2. ASSUME bootRows[Seeded] \in {"deleted", "operator"}, bootRows'[Seeded] = "boot"
      PROVE  overtaken # {} \/ \A row \in PolicyRows : bootRows[row] \notin {"boot", "operator"}
  <2>1. bootRows' # bootRows
    BY <1>2
  <2>2. CASE \E r \in Fleet : SeedPolicy(r)
    BY <1>2, <2>2 DEF SeedPolicy, BootInv, SeedsOnNothing, NoPolicy
  <2>3. CASE \E row \in PolicyRows : UpsertRow(row) \/ DeleteRow(row)
    BY <1>2, <2>3 DEF UpsertRow, DeleteRow, Write, BootInv, BootTypes, PolicyRows
  <2> QED BY <2>1, <2>2, <2>3 DEF BootNext, Step, Start, DieBooting, Lock, Refuse, Migrate, Unlock,
             EnsureBootstrapKey, ListPolicies, VerifyAll, RevokeBootKey
<1> QED BY <1>1, <1>2 DEF UndoesNothing

(* Whatever releases a fleet boots at once and wherever its replicas die: each   *)
(* migration runs once, under the lock, and no boot takes back what the operator *)
(* did (applyMigrations, ensureBootstrapApiKey, ensureBootstrapPolicy).          *)
THEOREM FleetsBootSafely == BootSpec => BootIsSafe
<1>1. BootInv /\ BootInv' /\ [BootNext]_bootVars => [MigratedOnce' /\ UndoesNothing]_bootVars
  BY InvMigratedOnce, StepUndoesNothing, PTL
<1> QED BY <1>1, BootInitInv, BootNextInv, PTL DEF BootSpec, BootIsSafe

-------------------------------------------------------------------------------
(* PolicyRules                                                                  *)

(* What a load makes of a tenant's rows, all of which must build.               *)
IsBuilt(t) ==
    /\ \A i \in DOMAIN ruleRows[t] : Valid(ruleRows[t][i])
    /\ rulesOf[t] = [i \in DOMAIN ruleRows[t] |-> Built(t, ruleRows[t][i])] \o CeilingRules(t)

(* A rule that is behind the engine, if it reserves nothing, had no objection.  *)
Behind ==
    \A i \in DOMAIN rulesOf[decidedFor] \ todo :
        \/ rulesOf[decidedFor][i].type = "quota"
        \/ Refusal(rulesOf[decidedFor][i], operation, DecodeCallTargets(operation.callData)) = "none"

RulesInv ==
    /\ ruleRows \in [Tenant -> StoredPolicies]
    /\ \A t \in Tenant : rulesOf[t] = NotLoaded \/ IsBuilt(t)
    /\ decision \in {"pending", "approved"} =>
         /\ decidedFor \in Tenant /\ operation \in Operations
         /\ rulesOf[decidedFor] # NotLoaded
         /\ Behind
    /\ decision = "approved" => todo = {}

LEMMA RulesInitInv == RulesInit => RulesInv
BY DEF RulesInit, RulesInv

(* No refusal is an approval, or leaves the decision open.                      *)
LEMMA RefusalIsCode ==
    ASSUME NEW rule, NEW op, NEW inner
    PROVE  Refusal(rule, op, inner) \notin {"pending", "approved"}
BY DEF Refusal

LEMMA DeniedInv ==
    ASSUME RulesInv, NEW code, code \notin {"pending", "approved"}, Denied(code),
           UNCHANGED <<ruleRows, planIds, rulesOf>>
    PROVE  RulesInv'
BY DEF Denied, RulesInv, IsBuilt, CeilingRules, PlanFor

LEMMA PassesInv ==
    ASSUME RulesInv, decision = "pending", Passes,
           \/ NextRule.type = "quota"
           \/ Refusal(NextRule, operation, DecodeCallTargets(operation.callData)) = "none",
           UNCHANGED <<ruleRows, planIds, rulesOf, decidedFor, operation>>
    PROVE  RulesInv'
<1>1. Behind'
  BY DEF Passes, NextRule, RulesInv, Behind
<1> QED BY <1>1 DEF Passes, RulesInv, IsBuilt, CeilingRules, PlanFor

LEMMA RulesNextInv == RulesInv /\ [RulesNext]_ruleVars => RulesInv'
<1> SUFFICES ASSUME RulesInv, [RulesNext]_ruleVars PROVE RulesInv'
  OBVIOUS
<1>1. CASE Load
  <2>1. \A t \in Tenant : IsBuilt(t)'
    BY <1>1 DEF Load, Loaded, IsBuilt, CeilingRules, PlanFor
  <2>2. decision \notin {"pending", "approved"}
    BY <1>1 DEF Load, RulesInv
  <2> QED BY <1>1, <2>1, <2>2 DEF Load, RulesInv
<1>2. ASSUME NEW t \in Tenant, NEW op \in Operations, Evaluate(t, op) PROVE RulesInv'
  <2>1. Behind'
    BY <1>2 DEF Evaluate, Behind
  <2> QED BY <1>2, <2>1 DEF Evaluate, RulesInv, IsBuilt, CeilingRules, PlanFor
<1>3. CASE CheckRule
  <2> DEFINE code == Refusal(NextRule, operation, DecodeCallTargets(operation.callData))
  <2>1. CASE code = "none"
    BY <1>3, <2>1, PassesInv DEF CheckRule, RulePending
  <2>2. CASE code # "none"
    <3>1. code \notin {"pending", "approved"}
      BY RefusalIsCode
    <3> QED BY <1>3, <2>2, <3>1, DeniedInv DEF CheckRule, RulePending
  <2> QED BY <2>1, <2>2
<1>4. CASE ReserveQuota
  <2>1. decision = "pending" /\ NextRule.type = "quota" /\ UNCHANGED <<ruleRows, planIds, rulesOf, decidedFor, operation>>
    BY <1>4 DEF ReserveQuota, RulePending
  <2>2. Passes \/ Denied("QUOTA_EXCEEDED")
    BY <1>4 DEF ReserveQuota
  <2> QED BY <2>1, <2>2, PassesInv, DeniedInv
<1>5. CASE RuleThrows
  BY <1>5, DeniedInv DEF RuleThrows
<1>6. CASE Approve
  BY <1>6 DEF Approve, RulesInv, Behind, IsBuilt, CeilingRules, PlanFor
<1>7. CASE UNCHANGED ruleVars
  BY <1>7 DEF ruleVars, RulesInv, Behind, IsBuilt, CeilingRules, PlanFor
<1> QED BY <1>1, <1>2, <1>3, <1>4, <1>5, <1>6, <1>7 DEF RulesNext

(* Two sequences in a row.                                                      *)
LEMMA OneAfterTheOther ==
    ASSUME NEW S, NEW s \in Seq(S), NEW c \in Seq(S), Len(c) = 2
    PROVE  /\ DOMAIN (s \o c) = 1..(Len(s) + 2)
           /\ \A i \in 1..Len(s) : (s \o c)[i] = s[i]
           /\ (s \o c)[Len(s) + 1] = c[1]
<1>. Len(s) \in Nat
  OBVIOUS
<1>1. s \o c \in Seq(S) /\ Len(s \o c) = Len(s) + Len(c)
  BY ConcatProperties
<1>2. \A i \in 1..(Len(s) + Len(c)) : (s \o c)[i] = IF i =< Len(s) THEN s[i] ELSE c[i - Len(s)]
  BY ConcatProperties
<1>3. \A i \in 1..Len(s) : (s \o c)[i] = s[i]
  BY <1>1, <1>2
<1>4. (s \o c)[Len(s) + 1] = c[1]
  BY <1>1, <1>2
<1>5. DOMAIN (s \o c) = 1..(Len(s) + 2)
  BY <1>1
<1> QED BY <1>3, <1>4, <1>5

(* The rules of a tenant are its rows, in place, and the two ceilings after them. *)
LEMMA RulesInPlace ==
    ASSUME RulesInv, NEW t \in Tenant, IsBuilt(t)
    PROVE  /\ \A i \in DOMAIN ruleRows[t] :
                i \in DOMAIN rulesOf[t] /\ rulesOf[t][i] = Built(t, ruleRows[t][i])
           /\ Len(ruleRows[t]) + 1 \in DOMAIN rulesOf[t]
           /\ rulesOf[t][Len(ruleRows[t]) + 1] = [type |-> "chain-enabled", chains |-> PlanFor(t).chains]
<1> DEFINE S == {Built(t, ruleRows[t][i]) : i \in DOMAIN ruleRows[t]} \cup {CeilingRules(t)[1], CeilingRules(t)[2]}
           mine == [i \in DOMAIN ruleRows[t] |-> Built(t, ruleRows[t][i])]
<1>1. Len(ruleRows[t]) \in Nat /\ DOMAIN ruleRows[t] = 1..Len(ruleRows[t])
  BY RulesAssumption DEF RulesInv
<1>2. mine \in Seq(S) /\ Len(mine) = Len(ruleRows[t]) /\ DOMAIN mine = DOMAIN ruleRows[t]
  BY <1>1
<1>3. CeilingRules(t) \in Seq(S) /\ Len(CeilingRules(t)) = 2
  BY DEF CeilingRules
<1>4. CeilingRules(t)[1] = [type |-> "chain-enabled", chains |-> PlanFor(t).chains]
  BY DEF CeilingRules
<1>5. rulesOf[t] = mine \o CeilingRules(t)
  BY DEF IsBuilt
<1>6. PICK n \in Nat, s \in Seq(S), c \in Seq(S) :
          n = Len(ruleRows[t]) /\ s = mine /\ c = CeilingRules(t)
  BY <1>1, <1>2, <1>3
<1> HIDE DEF mine, S
<1>7. Len(s) = n /\ Len(c) = 2 /\ rulesOf[t] = s \o c
  BY <1>2, <1>3, <1>5, <1>6
<1>8. DOMAIN rulesOf[t] = 1..(n + 2)
  BY <1>7, OneAfterTheOther
<1>9. \A i \in 1..n : rulesOf[t][i] = s[i]
  BY <1>7, OneAfterTheOther
<1>10. rulesOf[t][n + 1] = c[1]
  BY <1>7, OneAfterTheOther
<1>11. ASSUME NEW i \in DOMAIN ruleRows[t]
       PROVE  i \in DOMAIN rulesOf[t] /\ rulesOf[t][i] = Built(t, ruleRows[t][i])
  <2>1. i \in 1..n
    BY <1>1, <1>6
  <2>2. s[i] = Built(t, ruleRows[t][i])
    BY <1>6 DEF mine
  <2> QED BY <1>8, <1>9, <2>1, <2>2
<1>12. n + 1 \in DOMAIN rulesOf[t]
  BY <1>8
<1> QED BY <1>4, <1>6, <1>10, <1>11, <1>12

(* What a row permits of an operation: of its own fields, or of the calls its   *)
(* calldata names, which it then does name.                                     *)
Obeyed(row, op) ==
    IF row.type \in AboutCalls
    THEN Legible(op.callData) /\ Permits(row, op, op.callData.calls)
    ELSE Permits(row, op, <<>>)

(* What no rule refuses is permitted: the decoder sees the calls that are named, *)
(* or none at all.                                                              *)
LEMMA UnrefusedIsPermitted ==
    ASSUME NEW row, Valid(row), row.type # "quota", NEW op \in Operations,
           Refusal(row, op, DecodeCallTargets(op.callData)) = "none"
    PROVE  Obeyed(row, op)
<1> DEFINE data == op.callData
           seen == DecodeCallTargets(data)
<1>1. CASE row.type \in {"chain-enabled", "sender-allowlist", "sender-blocklist", "token-ownership"}
  BY <1>1 DEF Permits, Refusal, Obeyed, AboutCalls
<1>2. CASE row.type \in AboutCalls
  <2>1. seen # Undefined
    BY <1>2 DEF Refusal, AboutCalls
  <2>2. Legible(data) /\ seen = data.calls
    BY <2>1 DEF DecodeCallTargets, Legible
  <2>3. seen \in Seq(InnerCall)
    BY <2>2, RulesAssumption DEF CallData, Legible
  <2>4. \A i \in DOMAIN seen : seen[i] \in InnerCall
    BY <2>3
  <2>5. CASE row.type = "target-allowlist"
    BY <2>1, <2>2, <2>5 DEF Permits, Refusal, Obeyed, AboutCalls
  <2>6. CASE row.type = "method-allowlist"
    BY <2>1, <2>2, <2>6 DEF Permits, Refusal, Obeyed, AboutCalls
  <2>7. CASE row.type = "no-value-transfer"
    <3>1. \A i \in DOMAIN seen : ~(seen[i].value > 0)
      BY <2>1, <2>7 DEF Refusal
    <3>2. \A i \in DOMAIN seen : seen[i].value = 0
      BY <2>4, <3>1 DEF InnerCall
    <3> QED BY <2>2, <2>7, <3>2 DEF Permits, Obeyed, AboutCalls
  <2> QED BY <1>2, <2>5, <2>6, <2>7 DEF AboutCalls
<1> QED BY <1>1, <1>2 DEF Valid, RuleTypes, AboutCalls

(* Whatever the rows, plans, operations and failures: what the engine approves   *)
(* every stored rule and the ceiling of the plan permit, of the operation's own *)
(* fields and of the calls its calldata names (PolicyEngine.evaluate).          *)
THEOREM NothingForbiddenIsApproved == RulesSpec => []ApprovedIsPermitted
<1>1. RulesInv => ApprovedIsPermitted
  <2> SUFFICES ASSUME RulesInv, decision = "approved"
               PROVE  /\ operation.chain \in PlanFor(decidedFor).chains
                      /\ \A i \in DOMAIN ruleRows[decidedFor] :
                           Obeyed(ruleRows[decidedFor][i], operation)
    BY DEF ApprovedIsPermitted, Obeyed
  <2> DEFINE t == decidedFor
  <2>1. t \in Tenant /\ operation \in Operations /\ IsBuilt(t)
    BY DEF RulesInv
  <2>2. \A i \in DOMAIN rulesOf[t] :
          rulesOf[t][i].type = "quota" \/ Refusal(rulesOf[t][i], operation, DecodeCallTargets(operation.callData)) = "none"
    BY DEF RulesInv, Behind
  <2>3. operation.chain \in PlanFor(t).chains
    <3> DEFINE ceiling == [type |-> "chain-enabled", chains |-> PlanFor(t).chains]
    <3>1. Refusal(ceiling, operation, DecodeCallTargets(operation.callData)) = "none"
      BY <2>1, <2>2, RulesInPlace
    <3>2. ceiling.type = "chain-enabled" /\ ceiling.chains = PlanFor(t).chains
      OBVIOUS
    <3> HIDE DEF ceiling
    <3>3. operation.chain \in ceiling.chains
      BY <3>1, <3>2 DEF Refusal
    <3> QED BY <3>2, <3>3
  <2>4. ASSUME NEW i \in DOMAIN ruleRows[t] PROVE Obeyed(ruleRows[t][i], operation)
    <3> DEFINE row == ruleRows[t][i]
    <3>1. Valid(row)
      BY <2>1 DEF IsBuilt
    <3>2. CASE row.type = "quota"
      BY <3>2 DEF Permits, Obeyed, AboutCalls
    <3>3. CASE row.type # "quota"
      <4>1. rulesOf[t][i] = row /\ i \in DOMAIN rulesOf[t]
        BY <2>1, <3>3, RulesInPlace DEF Built
      <4> QED BY <2>1, <2>2, <3>1, <3>3, <4>1, UnrefusedIsPermitted
    <3> QED BY <3>2, <3>3
  <2> QED BY <2>3, <2>4
<1> QED BY <1>1, RulesInitInv, RulesNextInv, PTL DEF RulesSpec

-------------------------------------------------------------------------------
(* Tracing                                                                      *)

SpanStates == {"none", "open", "ended"}
Once(spans) == \A i, j \in DOMAIN spans : spans[i] = spans[j] => i = j
NoneInBoth(q, b) == \A i \in DOMAIN q, j \in DOMAIN b : q[i] # b[j]

(* A span the collector is to have: it has ended, and its trace is sampled.     *)
Due(s) == span[s] = "ended" /\ sampled[s[1]] = "yes"
Waiting(s) == Among(queue, s) \/ Among(exporting, s)

TraceTypes ==
  /\ replied \subseteq TracedRequests
  /\ span \in [Spans -> SpanStates]
  /\ sampled \in [TracedRequests -> {"none", "yes", "no"}]
  /\ copies \in [Spans -> Nat]
  /\ queue \in Seq(Spans) /\ exporting \in Seq(Spans)
  /\ dropped \in Nat /\ reported \in Nat
  /\ Len(queue) =< MaxQueue /\ Len(exporting) =< MaxBatch
  /\ ~flushing => exporting = << >>

(* A span that is due waits in one place, or has been given a copy; one that is *)
(* not has neither.                                                             *)
OneCopyEach ==
  /\ Once(queue) /\ Once(exporting) /\ NoneInBoth(queue, exporting)
  /\ \A s \in Spans :
       /\ Waiting(s) => Due(s)
       /\ copies[s] = IF Due(s) /\ ~Waiting(s) THEN 1 ELSE 0

DropsCounted ==
  /\ IsFiniteSet(lost) /\ dropped + reported = Cardinality(lost)
  /\ \A s \in lost : s \in Spans /\ Due(s)

(* A span has a decision to go by, and a request that has its reply ends no     *)
(* other.                                                                       *)
RequestsEndSpans ==
  /\ \A s \in Spans : span[s] # "none" => sampled[s[1]] # "none"
  /\ \A r \in replied : span[<<r, "server">>] = "ended" /\ span[<<r, "inner">>] # "open"

(* A stop comes after the last request, and its flush empties the queue: what   *)
(* comes into it later is of requests whose client has gone.                    *)
StopsEmpty ==
  phase # "up" =>
    /\ \A r \in TracedRequests : sampled[r] # "none" => r \in replied \cup gone
    /\ ~met /\ ~flushing => \A i \in DOMAIN queue : queue[i][1] \in gone
    /\ phase = "exited" /\ ~met => ~flushing

TracingInv == TraceTypes /\ OneCopyEach /\ DropsCounted /\ RequestsEndSpans /\ StopsEmpty

LEMMA TracingInitInv == TracingInit => TracingInv
<1> SUFFICES ASSUME TracingInit PROVE TracingInv
  OBVIOUS
<1>1. TraceTypes
  BY TracingAssumption DEF TracingInit, TraceTypes, SpanStates
<1>2. OneCopyEach
  BY DEF TracingInit, OneCopyEach, Once, NoneInBoth, Due, Waiting, Among
<1>3. DropsCounted
  BY FS_EmptySet DEF TracingInit, DropsCounted
<1>4. RequestsEndSpans /\ StopsEmpty
  BY DEF TracingInit, RequestsEndSpans, StopsEmpty
<1> QED BY <1>1, <1>2, <1>3, <1>4 DEF TracingInv

(* A span comes to the end of the queue.                                        *)
LEMMA AppendAdds ==
  ASSUME NEW q \in Seq(Spans), NEW s \in Spans, NEW w, w = Append(q, s)
  PROVE  /\ w \in Seq(Spans) /\ Len(w) = Len(q) + 1
         /\ \A x : Among(w, x) <=> Among(q, x) \/ x = s
         /\ ~Among(q, s) /\ Once(q) => Once(w)
         /\ \A i \in DOMAIN w : w[i] = s \/ \E j \in DOMAIN q : w[i] = q[j]
<1>1. w \in Seq(Spans) /\ Len(w) = Len(q) + 1 /\ Len(q) \in Nat
  BY AppendProperties
<1>2. \A i \in 1..Len(q) : w[i] = q[i]
  BY AppendProperties
<1>3. w[Len(q) + 1] = s
  BY AppendProperties
<1>4. DOMAIN w = 1..(Len(q) + 1) /\ DOMAIN q = 1..Len(q)
  BY <1>1
<1>5. \A x : Among(w, x) <=> Among(q, x) \/ x = s
  BY <1>1, <1>2, <1>3, <1>4 DEF Among
<1>6. ~Among(q, s) /\ Once(q) => Once(w)
  BY <1>1, <1>2, <1>3, <1>4 DEF Among, Once
<1>7. \A i \in DOMAIN w : w[i] = s \/ \E j \in DOMAIN q : w[i] = q[j]
  BY <1>1, <1>2, <1>3, <1>4
<1> QED BY <1>1, <1>5, <1>6, <1>7

(* A sequence that has nothing twice is cut in two.                              *)
LEMMA CutInTwo ==
  ASSUME NEW n \in Nat, NEW k \in 0..n, NEW q, NEW front, NEW rest, Once(q),
         DOMAIN q = 1..n, DOMAIN front = 1..k, DOMAIN rest = 1..(n - k),
         \A i \in 1..k : front[i] = q[i],
         \A i \in 1..(n - k) : rest[i] = q[k + i]
  PROVE  Once(rest) /\ Once(front) /\ NoneInBoth(rest, front)
<1>1. \A i \in 1..(n - k) : k + i \in 1..n /\ k + i > k
  OBVIOUS
<1>2. \A i \in 1..k : i \in 1..n
  OBVIOUS
<1>3. Once(front)
  BY <1>2 DEF Once
<1>4. ASSUME NEW i \in 1..(n - k), NEW j \in 1..(n - k), rest[i] = rest[j] PROVE i = j
  <2>1. k + i = k + j
    BY <1>1, <1>4 DEF Once
  <2> QED BY <2>1
<1>5. ASSUME NEW i \in 1..(n - k), NEW j \in 1..k, rest[i] = front[j] PROVE FALSE
  <2>1. k + i = j
    BY <1>1, <1>2, <1>5 DEF Once
  <2> QED BY <2>1
<1> QED BY <1>3, <1>4, <1>5 DEF Once, NoneInBoth

(* The front of the queue becomes the batch, and nothing else moves.            *)
LEMMA BatchMoves ==
  ASSUME queue \in Seq(Spans), Once(queue), Len(queue) =< MaxQueue, NextBatch
  PROVE  /\ queue' \in Seq(Spans) /\ exporting' \in Seq(Spans)
         /\ Len(queue') =< MaxQueue /\ Len(exporting') =< MaxBatch
         /\ Once(queue)' /\ Once(exporting)' /\ NoneInBoth(queue, exporting)'
         /\ \A s : Waiting(s)' <=> Among(queue, s)
         /\ ~flushing' => queue' = << >> /\ exporting' = << >>
<1>1. CASE queue = << >>
  BY <1>1, TracingAssumption DEF NextBatch, Once, NoneInBoth, Waiting, Among
<1>2. CASE queue # << >>
  <2>0. PICK n \in Nat : n = Len(queue)
    OBVIOUS
  <2>1. PICK k \in 0..n : n = Len(queue) /\ k = IF n < MaxBatch THEN n ELSE MaxBatch
    BY <2>0, TracingAssumption
  <2>2. k =< MaxBatch
    BY <2>1, TracingAssumption
  <2>3. exporting' = SubSeq(queue, 1, k) /\ queue' = SubSeq(queue, k + 1, n) /\ flushing' = TRUE
    BY <1>2, <2>1 DEF NextBatch
  <2>4. PICK front, rest : front = SubSeq(queue, 1, k) /\ rest = SubSeq(queue, k + 1, n)
    OBVIOUS
  <2>5. front \in Seq(Spans) /\ Len(front) = k /\ \A i \in 1..k : front[i] = queue[i]
    BY <2>1, <2>4
  <2>6. rest \in Seq(Spans) /\ Len(rest) = n - k /\ \A i \in 1..(n - k) : rest[i] = queue[k + i]
    <3>1. k + 1 \in Nat /\ n \in Nat /\ \A i \in (k + 1)..n : queue[i] \in Spans
      BY <2>1
    <3>2. rest \in Seq(Spans)
      BY <2>4, <3>1, SubSeqProperties
    <3>3. Len(rest) = IF k + 1 <= n THEN n - (k + 1) + 1 ELSE 0
      BY <2>4, <3>1, SubSeqProperties
    <3>4. Len(rest) = n - k
      BY <3>3
    <3>5. ASSUME NEW i \in 1..(n - k) PROVE rest[i] = queue[k + i]
      <4>1. i \in 1..(n - (k + 1) + 1) /\ (k + 1) + i - 1 = k + i
        OBVIOUS
      <4>2. rest[i] = queue[(k + 1) + i - 1]
        BY <2>4, <3>1, <4>1, SubSeqProperties
      <4> QED BY <4>1, <4>2
    <3> QED BY <3>2, <3>4, <3>5
  <2>7. /\ \A s : Among(rest, s) \/ Among(front, s) <=> Among(queue, s)
        /\ Once(rest) /\ Once(front) /\ NoneInBoth(rest, front)
    <3>1. DOMAIN queue = 1..n /\ DOMAIN front = 1..k /\ DOMAIN rest = 1..(n - k)
      BY <2>1, <2>5, <2>6
    <3>2. ASSUME NEW s PROVE Among(rest, s) \/ Among(front, s) <=> Among(queue, s)
      <4>1. /\ \A i \in 1..(n - k) : k + i \in 1..n
            /\ \A i \in 1..k : i \in 1..n
            /\ \A i \in 1..n : i \in 1..k \/ (i - k \in 1..(n - k) /\ k + (i - k) = i)
        OBVIOUS
      <4>2. Among(rest, s) => Among(queue, s)
        BY <2>6, <3>1, <4>1 DEF Among
      <4>3. Among(front, s) => Among(queue, s)
        BY <2>5, <3>1, <4>1 DEF Among
      <4>4. ASSUME NEW i \in 1..n, queue[i] = s PROVE Among(rest, s) \/ Among(front, s)
        <5>1. CASE i \in 1..k
          BY <2>5, <3>1, <4>4, <5>1 DEF Among
        <5>2. CASE i - k \in 1..(n - k) /\ k + (i - k) = i
          <6>1. rest[i - k] = s
            BY <2>6, <4>4, <5>2
          <6> QED BY <3>1, <5>2, <6>1 DEF Among
        <5> QED BY <4>1, <5>1, <5>2
      <4> QED BY <3>1, <4>2, <4>3, <4>4 DEF Among
    <3>3. Once(rest) /\ Once(front) /\ NoneInBoth(rest, front)
      BY <2>5, <2>6, <3>1, CutInTwo
    <3> QED BY <3>2, <3>3
  <2>8. Len(queue') =< MaxQueue /\ Len(exporting') =< MaxBatch
    BY <2>1, <2>2, <2>3, <2>4, <2>5, <2>6, TracingAssumption
  <2>9. \A s : Waiting(s)' <=> Among(queue, s)
    BY <2>3, <2>4, <2>7 DEF Waiting
  <2>10. Once(queue)' /\ Once(exporting)' /\ NoneInBoth(queue, exporting)'
    BY <2>3, <2>4, <2>7
  <2> QED BY <2>3, <2>4, <2>5, <2>6, <2>8, <2>9, <2>10
<1> QED BY <1>1, <1>2

(* What a flush has exported has its copy, and what waited goes on waiting.     *)
LEMMA FlushInv ==
  ASSUME TracingInv, NextBatch,
         \/ ~flushing /\ UNCHANGED copies
         \/ flushing /\ copies' = [s \in Spans |-> IF Among(exporting, s) THEN copies[s] + 1 ELSE copies[s]],
         UNCHANGED <<span, sampled, replied, gone, lost>>
  PROVE  /\ (TraceTypes /\ OneCopyEach /\ DropsCounted /\ RequestsEndSpans)'
         /\ ~flushing' => queue' = << >>
<1>1. queue \in Seq(Spans) /\ Once(queue) /\ Len(queue) =< MaxQueue /\ NoneInBoth(queue, exporting) /\ copies \in [Spans -> Nat]
  BY DEF TracingInv, TraceTypes, OneCopyEach
<1>2. /\ queue' \in Seq(Spans) /\ exporting' \in Seq(Spans)
      /\ Len(queue') =< MaxQueue /\ Len(exporting') =< MaxBatch
      /\ Once(queue)' /\ Once(exporting)' /\ NoneInBoth(queue, exporting)'
      /\ \A s : Waiting(s)' <=> Among(queue, s)
      /\ ~flushing' => queue' = << >> /\ exporting' = << >>
  BY <1>1, BatchMoves
<1>3. dropped' + reported' = dropped + reported /\ dropped' \in Nat /\ reported' \in Nat
  BY DEF NextBatch, TracingInv, TraceTypes
<1>4. copies' \in [Spans -> Nat]
  BY <1>1
<1>5. \A s : Due(s)' <=> Due(s)
  BY DEF Due
<1>6. ASSUME NEW s \in Spans
      PROVE  (Waiting(s)' => Due(s)') /\ copies'[s] = IF Due(s)' /\ ~Waiting(s)' THEN 1 ELSE 0
  <2>1. (Waiting(s) => Due(s)) /\ copies[s] = IF Due(s) /\ ~Waiting(s) THEN 1 ELSE 0
    BY DEF TracingInv, OneCopyEach
  <2>2. ~(Among(queue, s) /\ Among(exporting, s))
    BY <1>1 DEF NoneInBoth, Among
  <2>3. CASE ~flushing /\ UNCHANGED copies
    <3>1. ~Among(exporting, s)
      BY <2>3 DEF TracingInv, TraceTypes, Among
    <3> QED BY <1>2, <1>5, <2>1, <2>3, <3>1 DEF Waiting
  <2>4. CASE copies' = [x \in Spans |-> IF Among(exporting, x) THEN copies[x] + 1 ELSE copies[x]]
    <3>1. copies'[s] = IF Among(exporting, s) THEN copies[s] + 1 ELSE copies[s]
      BY <2>4
    <3>2. Waiting(s)' <=> Among(queue, s)
      BY <1>2
    <3>3. Waiting(s) <=> Among(queue, s) \/ Among(exporting, s)
      BY DEF Waiting
    <3>4. CASE Among(exporting, s)
      <4>1. Due(s) /\ Waiting(s) /\ ~Among(queue, s)
        BY <2>1, <2>2, <3>3, <3>4
      <4>2. copies'[s] = 1
        BY <2>1, <3>1, <3>4, <4>1
      <4> QED BY <1>5, <3>2, <4>1, <4>2
    <3>5. CASE ~Among(exporting, s)
      BY <1>5, <2>1, <3>1, <3>2, <3>3, <3>5
    <3> QED BY <3>4, <3>5
  <2> QED BY <2>3, <2>4
<1>7. TraceTypes'
  BY <1>2, <1>3, <1>4 DEF TracingInv, TraceTypes
<1>8. OneCopyEach'
  BY <1>2, <1>6 DEF OneCopyEach
<1>9. DropsCounted' /\ RequestsEndSpans'
  BY <1>3, <1>5 DEF TracingInv, DropsCounted, RequestsEndSpans
<1> QED BY <1>2, <1>7, <1>8, <1>9

(* A span of a request that has no reply yet ends, and goes where it is counted. *)
LEMMA EndInv ==
  ASSUME TracingInv, NEW r \in TracedRequests, NEW is \in {"server", "inner"},
         span[<<r, is>>] # "none", r \notin replied, End(<<r, is>>),
         \/ replied' = replied
         \/ replied' = replied \cup {r} /\ is = "server" /\ span[<<r, "inner">>] # "open",
         gone \subseteq gone',
         UNCHANGED <<sampled, exporting, flushing, reported, phase, met>>
  PROVE  TracingInv'
<1>1. PICK e : e = <<r, is>>
  OBVIOUS
<1>2. e \in Spans /\ e[1] = r /\ span[e] # "none" /\ span' = [span EXCEPT ![e] = "ended"]
  BY <1>1 DEF Spans, End
<1>3. /\ span \in [Spans -> SpanStates] /\ copies \in [Spans -> Nat] /\ queue \in Seq(Spans)
      /\ dropped \in Nat /\ reported \in Nat /\ Len(queue) =< MaxQueue
  BY DEF TracingInv, TraceTypes
<1>4. \A s \in Spans : s # e => span'[s] = span[s]
  BY <1>2, <1>3
<1>5. span'[e] = "ended"
  BY <1>2, <1>3
<1>6. \A s \in Spans : s # e => (Due(s)' <=> Due(s))
  BY <1>4 DEF Due
<1>7. RequestsEndSpans'
  <2>1. \A s \in Spans : span'[s] # "none" => sampled'[s[1]] # "none"
    BY <1>2, <1>4 DEF TracingInv, RequestsEndSpans
  <2>2. ASSUME NEW x \in replied' PROVE span'[<<x, "server">>] = "ended" /\ span'[<<x, "inner">>] # "open"
    <3>1. CASE x \in replied
      <4>1. x # r /\ span[<<x, "server">>] = "ended" /\ span[<<x, "inner">>] # "open"
        BY <3>1 DEF TracingInv, RequestsEndSpans
      <4>2. <<x, "server">> # e /\ <<x, "inner">> # e
        BY <1>1, <4>1
      <4> QED BY <1>2, <1>3, <4>1, <4>2
    <3>2. CASE x = r /\ is = "server" /\ span[<<r, "inner">>] # "open"
      <4>1. <<r, "inner">> # e
        BY <1>1, <3>2
      <4> QED BY <1>1, <1>2, <1>3, <1>5, <3>2, <4>1
    <3> QED BY <2>2, <3>1, <3>2
  <2> QED BY <2>1, <2>2 DEF RequestsEndSpans
<1>8. ASSUME \A i \in DOMAIN queue' : queue'[i] = e \/ \E j \in DOMAIN queue : queue'[i] = queue[j]
      PROVE  StopsEmpty'
  <2>1. sampled[r] # "none"
    BY <1>2 DEF TracingInv, RequestsEndSpans
  <2>2. phase # "up" => r \in gone
    BY <2>1 DEF TracingInv, StopsEmpty
  <2> QED BY <1>2, <1>8, <2>2 DEF TracingInv, StopsEmpty
<1>9. CASE ~(span[e] = "open" /\ sampled[e[1]] = "yes")
  <2>1. UNCHANGED <<queue, dropped, copies, lost>>
    BY <1>1, <1>9 DEF End
  <2>2. Due(e)' <=> Due(e)
    BY <1>2, <1>3, <1>5, <1>9 DEF Due, SpanStates
  <2>3. \A s \in Spans : Due(s)' <=> Due(s)
    BY <1>6, <2>2
  <2>4. \A s : Waiting(s)' <=> Waiting(s)
    BY <2>1 DEF Waiting
  <2>5. OneCopyEach'
    BY <2>1, <2>3, <2>4 DEF TracingInv, OneCopyEach
  <2>6. DropsCounted'
    BY <2>1, <2>3 DEF TracingInv, DropsCounted
  <2>7. TraceTypes'
    BY <1>2, <2>1 DEF TracingInv, TraceTypes, SpanStates
  <2>8. \A i \in DOMAIN queue' : queue'[i] = e \/ \E j \in DOMAIN queue : queue'[i] = queue[j]
    BY <2>1
  <2> QED BY <1>7, <1>8, <2>5, <2>6, <2>7, <2>8 DEF TracingInv
<1>10. CASE span[e] = "open" /\ sampled[e[1]] = "yes"
  <2>1. ~Due(e) /\ Due(e)' /\ Enqueue(e)
    BY <1>1, <1>2, <1>5, <1>10 DEF Due, End
  <2>2. ~Waiting(e) /\ copies[e] = 0 /\ e \notin lost
    BY <1>2, <2>1 DEF TracingInv, OneCopyEach, DropsCounted
  <2>3. \A s \in Spans : Due(s) => Due(s)'
    BY <1>6, <2>1
  <2>4. CASE Len(queue) >= MaxQueue
    <3>1. dropped' = dropped + 1 /\ copies' = [copies EXCEPT ![e] = @ + 1] /\ lost' = lost \cup {e} /\ queue' = queue
      BY <2>1, <2>4 DEF Enqueue
    <3>2. \A s : Waiting(s)' <=> Waiting(s)
      BY <3>1 DEF Waiting
    <3>3. copies'[e] = 1 /\ \A s \in Spans : s # e => copies'[s] = copies[s]
      BY <1>2, <1>3, <2>2, <3>1
    <3>4. OneCopyEach'
      BY <1>2, <1>6, <2>1, <2>2, <3>1, <3>2, <3>3 DEF TracingInv, OneCopyEach
    <3>5. IsFiniteSet(lost') /\ Cardinality(lost') = Cardinality(lost) + 1
      BY <2>2, <3>1, FS_AddElement DEF TracingInv, DropsCounted
    <3>6. DropsCounted'
      <4>1. dropped' + reported' = Cardinality(lost')
        BY <1>3, <3>1, <3>5 DEF TracingInv, DropsCounted
      <4> QED BY <1>2, <2>1, <2>3, <3>1, <3>5, <4>1 DEF TracingInv, DropsCounted
    <3>7. TraceTypes'
      BY <1>2, <1>3, <3>1 DEF TracingInv, TraceTypes, SpanStates
    <3>8. \A i \in DOMAIN queue' : queue'[i] = e \/ \E j \in DOMAIN queue : queue'[i] = queue[j]
      BY <3>1
    <3> QED BY <1>7, <1>8, <3>4, <3>6, <3>7, <3>8 DEF TracingInv
  <2>5. CASE ~(Len(queue) >= MaxQueue)
    <3>1. queue' = Append(queue, e) /\ UNCHANGED <<dropped, copies, lost>>
      BY <2>1, <2>5 DEF Enqueue
    <3>2. /\ queue' \in Seq(Spans) /\ Len(queue') = Len(queue) + 1
          /\ \A s : Among(queue', s) <=> Among(queue, s) \/ s = e
          /\ ~Among(queue, e) /\ Once(queue) => Once(queue')
          /\ \A i \in DOMAIN queue' : queue'[i] = e \/ \E j \in DOMAIN queue : queue'[i] = queue[j]
      <4>1. PICK w : w = Append(queue, e)
        OBVIOUS
      <4>2. w \in Seq(Spans) /\ Len(w) = Len(queue) + 1
        BY <1>2, <1>3, <4>1, AppendAdds
      <4>3. \A s : Among(w, s) <=> Among(queue, s) \/ s = e
        BY <1>2, <1>3, <4>1, AppendAdds
      <4>4. ~Among(queue, e) /\ Once(queue) => Once(w)
        BY <1>2, <1>3, <4>1, AppendAdds
      <4>5. \A i \in DOMAIN w : w[i] = e \/ \E j \in DOMAIN queue : w[i] = queue[j]
        BY <1>2, <1>3, <4>1, AppendAdds
      <4> QED BY <3>1, <4>1, <4>2, <4>3, <4>4, <4>5
    <3>3. \A s : Waiting(s)' <=> Waiting(s) \/ s = e
      BY <3>2 DEF Waiting
    <3>4. Once(queue') /\ NoneInBoth(queue', exporting)
      <4>1. ~Among(queue, e) /\ ~Among(exporting, e) /\ Once(queue) /\ NoneInBoth(queue, exporting)
        BY <2>2 DEF Waiting, TracingInv, OneCopyEach
      <4> QED BY <3>2, <4>1 DEF NoneInBoth, Among
    <3>5. \A s \in Spans : (Waiting(s)' => Due(s)') /\ copies'[s] = IF Due(s)' /\ ~Waiting(s)' THEN 1 ELSE 0
      BY <1>2, <1>6, <2>1, <2>2, <3>1, <3>3 DEF TracingInv, OneCopyEach
    <3>6. OneCopyEach'
      BY <3>4, <3>5 DEF TracingInv, OneCopyEach
    <3>7. DropsCounted'
      BY <2>3, <3>1 DEF TracingInv, DropsCounted
    <3>8. Len(queue') =< MaxQueue
      BY <1>3, <2>5, <3>2, TracingAssumption
    <3>9. TraceTypes'
      BY <1>2, <3>1, <3>2, <3>8 DEF TracingInv, TraceTypes, SpanStates
    <3> QED BY <1>7, <1>8, <3>2, <3>6, <3>7, <3>9 DEF TracingInv
  <2> QED BY <2>4, <2>5
<1> QED BY <1>9, <1>10

LEMMA TracingNextInv == TracingInv /\ [TracingNext]_traceVars => TracingInv'
<1> SUFFICES ASSUME TracingInv, [TracingNext]_traceVars PROVE TracingInv'
  OBVIOUS
<1>1. ASSUME NEW r \in TracedRequests, NEW parent \in {"none", "yes", "no"}, OnRequest(r, parent) PROVE TracingInv'
  <2>1. PICK verdict \in {"yes", "no"} : sampled' = [sampled EXCEPT ![r] = verdict]
    BY <1>1 DEF OnRequest, Decisions
  <2>2. /\ phase = "up" /\ phase' = "up" /\ sampled[r] = "none"
        /\ span' = [span EXCEPT ![<<r, "server">>] = "open"]
        /\ UNCHANGED <<replied, queue, dropped, copies, lost, exporting, flushing, reported>>
    BY <1>1 DEF OnRequest, flushVars
  <2>3. /\ span \in [Spans -> SpanStates] /\ sampled \in [TracedRequests -> {"none", "yes", "no"}]
        /\ <<r, "server">> \in Spans /\ \A s \in Spans : s[1] \in TracedRequests
        /\ \A s \in Spans : s[1] = r => span[s] = "none"
    BY <2>2 DEF Spans, TracingInv, TraceTypes, RequestsEndSpans
  <2>4. r \notin replied
    BY <2>3 DEF TracingInv, RequestsEndSpans
  <2>5. \A s \in Spans : Due(s)' <=> Due(s)
    BY <2>1, <2>2, <2>3 DEF Due
  <2>6. \A s : Waiting(s)' <=> Waiting(s)
    BY <2>2 DEF Waiting
  <2>7. OneCopyEach' /\ DropsCounted'
    BY <2>2, <2>5, <2>6 DEF TracingInv, OneCopyEach, DropsCounted
  <2>8. TraceTypes'
    BY <2>1, <2>2, <2>3 DEF TracingInv, TraceTypes, SpanStates
  <2>9. RequestsEndSpans'
    BY <2>1, <2>2, <2>3, <2>4 DEF TracingInv, RequestsEndSpans
  <2> QED BY <2>2, <2>7, <2>8, <2>9 DEF TracingInv, StopsEmpty
<1>2. ASSUME NEW r \in TracedRequests, WithSpan(r) PROVE TracingInv'
  <2>1. /\ span' = [span EXCEPT ![<<r, "inner">>] = "open"] /\ r \notin replied
        /\ span[<<r, "server">>] # "none" /\ span[<<r, "inner">>] = "none"
        /\ UNCHANGED <<sampled, replied, gone, queue, dropped, copies, lost, exporting, flushing, reported, phase, met>>
    BY <1>2 DEF WithSpan, flushVars, requestVars
  <2>2. /\ span \in [Spans -> SpanStates]
        /\ <<r, "inner">> \in Spans /\ <<r, "server">> \in Spans
    BY DEF Spans, TracingInv, TraceTypes
  <2>3. \A s \in Spans : Due(s)' <=> Due(s)
    BY <2>1, <2>2 DEF Due
  <2>4. \A s : Waiting(s)' <=> Waiting(s)
    BY <2>1 DEF Waiting
  <2>5. OneCopyEach' /\ DropsCounted'
    BY <2>1, <2>3, <2>4 DEF TracingInv, OneCopyEach, DropsCounted
  <2>6. TraceTypes'
    BY <2>1, <2>2 DEF TracingInv, TraceTypes, SpanStates
  <2>7. RequestsEndSpans'
    BY <2>1, <2>2 DEF TracingInv, RequestsEndSpans
  <2> QED BY <2>1, <2>5, <2>6, <2>7 DEF TracingInv, StopsEmpty
<1>3. ASSUME NEW r \in TracedRequests, WithSpanEnds(r) PROVE TracingInv'
  <2>1. r \notin replied
    BY <1>3 DEF WithSpanEnds, TracingInv, RequestsEndSpans
  <2> QED BY <1>3, <2>1, EndInv DEF WithSpanEnds, flushVars, requestVars
<1>4. ASSUME NEW r \in TracedRequests, OnResponse(r) PROVE TracingInv'
  BY <1>4, EndInv DEF OnResponse, flushVars
<1>5. ASSUME NEW r \in TracedRequests, OnRequestAbort(r) PROVE TracingInv'
  BY <1>5, EndInv DEF OnRequestAbort, flushVars
<1>6. CASE Flush
  <2>1. NextBatch /\ ~flushing /\ phase = "up" /\ UNCHANGED <<span, sampled, replied, gone, copies, lost, phase>>
    BY <1>6 DEF Flush, requestVars
  <2> QED BY <2>1, FlushInv DEF TracingInv, StopsEmpty
<1>7. CASE Exported
  <2>1. /\ NextBatch /\ flushing /\ phase # "exited" /\ UNCHANGED <<span, sampled, replied, gone, lost, phase, met>>
        /\ copies' = [s \in Spans |-> IF Among(exporting, s) THEN copies[s] + 1 ELSE copies[s]]
    BY <1>7 DEF Exported, requestVars
  <2>2. (TraceTypes /\ OneCopyEach /\ DropsCounted /\ RequestsEndSpans)' /\ (~flushing' => queue' = << >>)
    BY <2>1, FlushInv
  <2> QED BY <2>1, <2>2 DEF TracingInv, StopsEmpty
<1>8. CASE Stop
  <2>1. /\ phase' = "stopping" /\ met' = flushing /\ UNCHANGED <<span, sampled, replied, gone, copies, lost>>
        /\ \A r \in TracedRequests : sampled[r] # "none" => r \in replied \cup gone
    BY <1>8 DEF Stop, requestVars
  <2>2. CASE flushing
    <3>1. UNCHANGED <<queue, exporting, flushing, dropped, reported>>
      BY <1>8, <2>2 DEF Stop
    <3>2. (TraceTypes /\ OneCopyEach /\ DropsCounted /\ RequestsEndSpans)'
      BY <2>1, <3>1 DEF TracingInv, TraceTypes, OneCopyEach, DropsCounted, RequestsEndSpans, Waiting, Due
    <3> QED BY <2>1, <2>2, <3>1, <3>2 DEF TracingInv, StopsEmpty
  <2>3. CASE ~flushing
    <3>1. NextBatch
      BY <1>8, <2>3 DEF Stop
    <3>2. (TraceTypes /\ OneCopyEach /\ DropsCounted /\ RequestsEndSpans)' /\ (~flushing' => queue' = << >>)
      BY <2>1, <2>3, <3>1, FlushInv
    <3> QED BY <2>1, <3>2 DEF TracingInv, StopsEmpty
  <2> QED BY <2>2, <2>3
<1>9. CASE Exit
  BY <1>9 DEF Exit, requestVars, flushVars, TracingInv, TraceTypes, OneCopyEach, DropsCounted, RequestsEndSpans,
              StopsEmpty, Waiting, Due
<1>10. CASE UNCHANGED traceVars
  BY <1>10 DEF traceVars, TracingInv, TraceTypes, OneCopyEach, DropsCounted, RequestsEndSpans, StopsEmpty, Waiting, Due
<1> QED BY <1>1, <1>2, <1>3, <1>4, <1>5, <1>6, <1>7, <1>8, <1>9, <1>10 DEF TracingNext

(* How often a span is in a sequence that has nothing twice.                    *)
LEMMA OneOrNone ==
  ASSUME NEW q, Once(q), NEW s
  PROVE  Cardinality({i \in DOMAIN q : q[i] = s}) = IF Among(q, s) THEN 1 ELSE 0
<1>1. CASE ~Among(q, s)
  <2>1. {i \in DOMAIN q : q[i] = s} = {}
    BY <1>1 DEF Among
  <2> QED BY <1>1, <2>1, FS_EmptySet
<1>2. CASE Among(q, s)
  <2>1. PICK i \in DOMAIN q : q[i] = s
    BY <1>2 DEF Among
  <2>2. {j \in DOMAIN q : q[j] = s} = {i}
    BY <2>1 DEF Once
  <2> QED BY <1>2, <2>2, FS_Singleton
<1> QED BY <1>1, <1>2

(* For any requests, queues and batches: a sampled span that has ended is        *)
(* queued, being exported, exported or counted as dropped, one of these and      *)
(* once, and a stop that meets no flush leaves nothing behind but what requests  *)
(* without a client end later (OtlpTracer).                                      *)
THEOREM EverySpanIsAccountedFor == TracingSpec => []SpansAccountedFor
<1>1. TracingInv => SpansAccountedFor
  <2> SUFFICES ASSUME TracingInv PROVE SpansAccountedFor
    OBVIOUS
  <2>1. ASSUME NEW s \in Spans
        PROVE  /\ copies[s] + Occurrences(s) = IF span[s] = "ended" /\ sampled[s[1]] = "yes" THEN 1 ELSE 0
               /\ Occurrences(s) > 0 => Waiting(s)
    <3>1. ~(Among(queue, s) /\ Among(exporting, s))
      BY DEF TracingInv, OneCopyEach, NoneInBoth, Among
    <3>2. Occurrences(s) = (IF Among(queue, s) THEN 1 ELSE 0) + (IF Among(exporting, s) THEN 1 ELSE 0)
      BY OneOrNone DEF TracingInv, OneCopyEach, Occurrences
    <3>3. Occurrences(s) = IF Waiting(s) THEN 1 ELSE 0
      BY <3>1, <3>2 DEF Waiting
    <3>4. (Waiting(s) => Due(s)) /\ copies[s] = IF Due(s) /\ ~Waiting(s) THEN 1 ELSE 0
      BY DEF TracingInv, OneCopyEach
    <3> QED BY <3>3, <3>4 DEF Due
  <2>2. ASSUME phase = "exited", ~met, NEW s \in Spans, Waiting(s) PROVE s[1] \in gone
    <3>1. ~flushing /\ exporting = << >>
      BY <2>2 DEF TracingInv, StopsEmpty, TraceTypes
    <3>2. Among(queue, s)
      BY <2>2, <3>1 DEF Waiting, Among
    <3> QED BY <2>2, <3>1, <3>2 DEF TracingInv, StopsEmpty, Among
  <2> QED BY <2>1, <2>2 DEF SpansAccountedFor, TracingInv, TraceTypes, DropsCounted
<1> QED BY <1>1, TracingInitInv, TracingNextInv, PTL DEF TracingSpec

-------------------------------------------------------------------------------
(* KeysPage                                                                     *)

Awaited == {k \in Keys : mint[k].here /\ mint[k].at \in {"sent", "created", "failed"}}

KeyPageTypes ==
  /\ stored \subseteq Keys
  /\ mint \in [Keys -> [at : {"unsent", "sent", "created", "failed", "over"}, here : BOOLEAN]]
  /\ created \in Keys \cup {None}
  /\ attempt \in Loads
  /\ load \in [Loads -> [at : {"unsent", "sent", "answered", "over"}, got : SUBSET Keys]]
  /\ table \in [rows : SUBSET Keys, loading : BOOLEAN, error : BOOLEAN]

(* Who is told of a key has it stored, and the load begun since then is the one  *)
(* the table is at, so that its answer has the key.                             *)
ShownIsRead ==
  /\ \A k \in Keys : mint[k].at = "created" => k \in stored
  /\ created # None => created \in stored
  /\ created # None /\ attempt < MaxLoads =>
       /\ load[attempt].at = "answered" => created \in load[attempt].got
       /\ ~table.loading /\ ~table.error => created \in table.rows

OneAwaited == IF form = "asking" THEN \E k \in Keys : Awaited = {k} ELSE Awaited = {}

KeyPageInv == KeyPageTypes /\ ShownIsRead /\ OneAwaited

LEMMA KeyPageInitInv == KeyPageInit => KeyPageInv
<1> SUFFICES ASSUME KeyPageInit PROVE KeyPageInv
  OBVIOUS
<1>1. KeyPageTypes
  BY KeyPageAssumption DEF KeyPageInit, KeyPageTypes, Loads, NotSent, Fresh
<1> QED BY <1>1, KeyPageAssumption DEF KeyPageInit, KeyPageInv, ShownIsRead, OneAwaited, Awaited, Fresh

LEMMA TableInv ==
  ASSUME NEW n \in Loads, KeyPageInv, ListKeys(n) \/ LoadArrives(n) \/ LoadFails(n)
  PROVE  KeyPageInv'
<1> USE DEF KeyPageInv, KeyPageTypes
<1>1. OneAwaited'
  BY DEF ListKeys, LoadArrives, LoadFails, OneAwaited, Awaited
<1>2. CASE ListKeys(n)
  BY <1>1, <1>2 DEF ListKeys, ShownIsRead, panelVars
<1>3. CASE LoadArrives(n)
  BY <1>1, <1>3 DEF LoadArrives, ShownIsRead, panelVars, Over
<1>4. CASE LoadFails(n)
  BY <1>1, <1>4 DEF LoadFails, ShownIsRead, panelVars, Over
<1> QED BY <1>2, <1>3, <1>4

(* A table read again has not been read yet.                                    *)
LEMMA ReloadReads ==
  ASSUME KeyPageTypes, Reload
  PROVE  /\ attempt' \in Loads /\ attempt <= attempt'
         /\ load' \in [Loads -> [at : {"unsent", "sent", "answered", "over"}, got : SUBSET Keys]]
         /\ table' \in [rows : SUBSET Keys, loading : BOOLEAN, error : BOOLEAN]
         /\ attempt' < MaxLoads => load'[attempt'].at = "sent" /\ table'.loading
<1> USE KeyPageAssumption DEF KeyPageTypes, Loads
<1>1. CASE attempt < MaxLoads
  <2>1. attempt' = attempt + 1 /\ attempt' \in Loads
    BY <1>1 DEF Reload
  <2>2. load' = [load EXCEPT ![attempt'].at = "sent"] /\ table' = [table EXCEPT !.loading = TRUE]
    BY <1>1, <2>1 DEF Reload
  <2>3. load' \in [Loads -> [at : {"unsent", "sent", "answered", "over"}, got : SUBSET Keys]]
    <3>1. load[attempt'] \in [at : {"unsent", "sent", "answered", "over"}, got : SUBSET Keys]
      BY <2>1
    <3>2. [load[attempt'] EXCEPT !.at = "sent"]
            \in [at : {"unsent", "sent", "answered", "over"}, got : SUBSET Keys]
      BY <3>1
    <3>3. load \in [Loads -> [at : {"unsent", "sent", "answered", "over"}, got : SUBSET Keys]]
      OBVIOUS
    <3> HIDE DEF KeyPageTypes
    <3> QED BY <2>1, <2>2, <3>2, <3>3
  <2>4. table' \in [rows : SUBSET Keys, loading : BOOLEAN, error : BOOLEAN] /\ table'.loading
    BY <2>2
  <2>5. load'[attempt'].at = "sent"
    BY <2>1, <2>2
  <2> QED BY <2>1, <2>3, <2>4, <2>5
<1>2. CASE ~(attempt < MaxLoads)
  BY <1>2 DEF Reload, tableVars
<1> QED BY <1>1, <1>2

LEMMA FormInv ==
  ASSUME NEW k \in Keys, KeyPageInv, Submit(k) \/ Create(k) \/ MintArrives(k) \/ FormFails(k)
  PROVE  KeyPageInv'
<1> USE DEF KeyPageInv
<1>1. CASE Submit(k)
  <2>1. Awaited' = {k}
    BY <1>1 DEF Submit, OneAwaited, Awaited, KeyPageTypes
  <2>2. form' = "asking"
    BY <1>1 DEF Submit
  <2> QED BY <1>1, <2>1, <2>2 DEF Submit, KeyPageTypes, ShownIsRead, OneAwaited, tableVars, panelVars
<1>2. CASE Create(k)
  <2>1. Awaited' = Awaited /\ form' = form
    BY <1>2 DEF Create, Awaited, KeyPageTypes
  <2> QED BY <1>2, <2>1 DEF Create, KeyPageTypes, ShownIsRead, OneAwaited, tableVars, panelVars
<1>3. CASE MintArrives(k)
  <2>1. mint' = [mint EXCEPT ![k].at = "over"] /\ stored' = stored /\ mint[k].at = "created" /\ k \in stored
    BY <1>3 DEF MintArrives, ShownIsRead
  <2>2. CASE mint[k].here
    <3>1. form' = "idle" /\ created' = k /\ Reload
      BY <1>3, <2>2 DEF MintArrives, OnCreated
    <3>2. k \in Awaited
      BY <2>1, <2>2 DEF Awaited
    <3>3. Awaited = {k}
      BY <3>2 DEF OneAwaited
    <3>4. Awaited' = {}
      BY <2>1, <3>3 DEF Awaited, KeyPageTypes
    <3> QED BY <2>1, <3>1, <3>4, ReloadReads DEF KeyPageTypes, ShownIsRead, OneAwaited
  <2>3. CASE ~mint[k].here
    <3>1. UNCHANGED <<form, created, attempt, load, table>>
      BY <1>3, <2>3 DEF MintArrives, tableVars
    <3>2. Awaited' = Awaited
      BY <2>1, <2>3 DEF Awaited, KeyPageTypes
    <3> QED BY <2>1, <3>1, <3>2 DEF KeyPageTypes, ShownIsRead, OneAwaited
  <2> QED BY <2>2, <2>3
<1>4. CASE FormFails(k)
  <2>1. k \in Awaited
    BY <1>4 DEF FormFails, Awaited
  <2>2. Awaited = {k}
    BY <2>1 DEF OneAwaited
  <2>3. Awaited' = {} /\ form' = "error"
    BY <1>4, <2>2 DEF FormFails, Awaited, KeyPageTypes
  <2> QED BY <1>4, <2>3 DEF FormFails, KeyPageTypes, ShownIsRead, OneAwaited, tableVars, panelVars
<1> QED BY <1>1, <1>2, <1>3, <1>4

LEMMA KeyPageNextInv == KeyPageInv /\ [KeyPageNext]_keyPageVars => KeyPageInv'
<1> SUFFICES ASSUME KeyPageInv, [KeyPageNext]_keyPageVars PROVE KeyPageInv'
  OBVIOUS
<1>1. ASSUME NEW w \in writes, CopyEnds(w) PROVE KeyPageInv'
  BY <1>1 DEF CopyEnds, KeyPageInv, KeyPageTypes, ShownIsRead, OneAwaited, Awaited, tableVars
<1>2. CASE Copy
  BY <1>2 DEF Copy, KeyPageInv, KeyPageTypes, ShownIsRead, OneAwaited, Awaited, tableVars
<1>3. CASE Dismiss
  BY <1>3 DEF Dismiss, KeyPageInv, KeyPageTypes, ShownIsRead, OneAwaited, Awaited, tableVars
<1>4. CASE Retry
  <2>1. UNCHANGED <<stored, mint, form, created>> /\ Reload
    BY <1>4 DEF Retry, panelVars
  <2>2. OneAwaited'
    BY <2>1 DEF OneAwaited, Awaited, KeyPageInv
  <2> QED BY <2>1, <2>2, ReloadReads, KeyPageAssumption DEF KeyPageInv, KeyPageTypes, ShownIsRead, Loads
<1>5. CASE Revisit
  <2>1. Awaited' = {}
    BY <1>5 DEF Revisit, Awaited, KeyPageInv, KeyPageTypes
  <2>2. KeyPageTypes'
    <3> USE DEF KeyPageInv, KeyPageTypes
    <3>1. attempt' \in Loads /\ load' = [load EXCEPT ![attempt'].at = "sent"]
      BY <1>5, KeyPageAssumption DEF Revisit, Loads
    <3>2. load' \in [Loads -> [at : {"unsent", "sent", "answered", "over"}, got : SUBSET Keys]]
      BY <3>1
    <3>3. mint' \in [Keys -> [at : {"unsent", "sent", "created", "failed", "over"}, here : BOOLEAN]]
      BY <1>5 DEF Revisit
    <3>4. table' \in [rows : SUBSET Keys, loading : BOOLEAN, error : BOOLEAN]
      BY <1>5 DEF Revisit, Fresh
    <3> QED BY <1>5, <3>1, <3>2, <3>3, <3>4 DEF Revisit
  <2> QED BY <1>5, <2>1, <2>2 DEF Revisit, KeyPageInv, KeyPageTypes, ShownIsRead, OneAwaited
<1>6. CASE UNCHANGED keyPageVars
  BY <1>6 DEF keyPageVars, KeyPageInv, KeyPageTypes, ShownIsRead, OneAwaited, Awaited
<1> QED BY <1>1, <1>2, <1>3, <1>4, <1>5, <1>6, FormInv, TableInv DEF KeyPageNext

(* Whatever is minted, however slow the answers, and however often the page is    *)
(* left and come back to: once it has loaded, the table under a secret lists its  *)
(* key, and the form waits for a mint of its own, of which there is never a       *)
(* second one (KeysPage, MintForm, useAdminResource).                            *)
THEOREM MintedKeysAreListed == KeyPageSpec => []MintedIsListed
<1>1. KeyPageInv => MintedIsListed
  <2> SUFFICES ASSUME KeyPageInv PROVE MintedIsListed
    OBVIOUS
  <2>1. created # None /\ ~table.loading /\ ~table.error /\ attempt < MaxLoads => created \in table.rows
    BY DEF KeyPageInv, ShownIsRead
  <2>2. Cardinality(Awaited) = IF form = "asking" THEN 1 ELSE 0
    <3>1. CASE form = "asking"
      BY <3>1, FS_Singleton DEF KeyPageInv, OneAwaited
    <3>2. CASE form # "asking"
      BY <3>2, FS_EmptySet DEF KeyPageInv, OneAwaited
    <3> QED BY <3>1, <3>2
  <2> QED BY <2>1, <2>2 DEF MintedIsListed, Awaited
<1> QED BY <1>1, KeyPageInitInv, KeyPageNextInv, PTL DEF KeyPageSpec

-------------------------------------------------------------------------------
(* Telemetry                                                                    *)

(* Min is what it says of finitely many integers, one at least.                 *)
LEMMA MinIs ==
  ASSUME NEW S, IsFiniteSet(S), S # {}, S \subseteq Int
  PROVE  Min(S) \in S /\ \A y \in S : Min(S) <= y
BY MinExists DEF Min

Flags == [deposit : {"unset", "ok", "low"}, readError : BOOLEAN]
Scrapes == [totals : [Outcomes -> Nat], gauges : [Chains -> Flags], happened : [Outcomes -> Nat],
            checks : [Chains -> {"never"} \cup Findings], restarts : Nat]
Samples == [at : Int, totals : [Outcomes -> Nat], happened : [Outcomes -> Nat], restarts : Nat]

TelemetryTypes ==
  /\ counters \in [Chains -> [Outcomes -> Nat]]
  /\ gauges \in [Chains -> Flags]
  /\ buckets \in [1..Len(Bounds) + 1 -> Nat]
  /\ happened \in [Outcomes -> Nat]
  /\ observed \in [Latencies -> Nat]
  /\ checks \in [Chains -> {"never"} \cup Findings]
  /\ restarts \in Nat
  /\ \A p \in polls : p = [over |-> p.over, scraped |-> p.scraped, healthy |-> p.healthy] /\ p.scraped \subseteq Scrapes
  /\ samples \in Seq(Samples)

(* The flags of a chain are those of its last check, and those of the last one   *)
(* that could read it.                                                          *)
Reflect(flags, found) ==
  \A c \in Chains : (found[c] = "low" => flags[c].deposit = "low") /\ (found[c] = "unreadable" => flags[c].readError)

FlagsReflect ==
  /\ Reflect(gauges, checks)
  /\ \A p \in polls : \A scrape \in p.scraped : Reflect(scrape.gauges, scrape.checks)
  /\ \A page \in shown : page.checks \in [Chains -> {"never"} \cup Findings] /\ Reflect(page.gauges, page.checks)

(* A bucket holds the latencies up to its bound.                                *)
Bucketed(i) == {l \in Latencies : InBucket(i, l)}
BucketsCount == \A i \in DOMAIN buckets : buckets[i] = SumOver(observed, Bucketed(i))

(* What was scraped, or seen, before: within one run of the backend the totals   *)
(* move with what happens, and those of a later run began at nothing.            *)
Before(a, b) ==
  /\ a.restarts <= b.restarts
  /\ \A o \in Outcomes :
       /\ a.happened[o] <= b.happened[o]
       /\ a.restarts = b.restarts => b.totals[o] - a.totals[o] = b.happened[o] - a.happened[o]
       /\ a.restarts < b.restarts => b.totals[o] <= b.happened[o] - a.happened[o]

(* One poll is under way at a time, so that samples are in order.                *)
SamplesInOrder ==
  /\ \A i, j \in DOMAIN samples : i < j => Before(samples[i], samples[j])
  /\ \A i \in DOMAIN samples : Before(samples[i], Scrape)
  /\ \A p \in polls : \A scrape \in p.scraped :
       Before(scrape, Scrape) /\ \A i \in DOMAIN samples : Before(samples[i], scrape)
  /\ \A p, q \in polls : p = q
  /\ ~inFlight => polls = {}

TelemetryInv == TelemetryTypes /\ FlagsReflect /\ BucketsCount /\ SamplesInOrder

LEMMA SumOfIs ==
  ASSUME NEW o \in Outcomes, TelemetryTypes
  PROVE  /\ SumOf(o) = SumOver([c \in Chains |-> counters[c][o]], Chains)
         /\ SumOf(o) \in Nat
<1> DEFINE f == [c \in Chains |-> counters[c][o]]
<1>1. SumOf(o) = SumOver(f, Chains)
  BY DEF SumOf, Total
<1>2. \A c \in Chains : f[c] \in Nat
  BY DEF TelemetryTypes
<1> HIDE DEF f
<1>3. SumOver(f, Chains) \in Nat
  BY <1>2, SumNat, TelemetryAssumption
<1> QED BY <1>1, <1>3 DEF f

ScrapeSums == Scrape \in Scrapes /\ \A o \in Outcomes : Scrape.totals[o] = SumOf(o) /\ SumOf(o) \in Nat

LEMMA ScrapeTyped == TelemetryTypes => ScrapeSums
BY SumOfIs DEF Scrape, Scrapes, TelemetryTypes, ScrapeSums

LEMMA BucketedFinite ==
  ASSUME NEW i
  PROVE  Bucketed(i) \in SUBSET Latencies /\ IsFiniteSet(Bucketed(i))
BY FS_Subset, TelemetryAssumption DEF Bucketed

LEMMA TelemetryInitInv == TelemetryInit => TelemetryInv
<1> SUFFICES ASSUME TelemetryInit PROVE TelemetryInv
  OBVIOUS
<1>1. TelemetryTypes
  <2>1. Len(Bounds) \in Nat
    BY TelemetryAssumption
  <2> QED BY <2>1 DEF TelemetryInit, TelemetryTypes, NoSamples, Unset, Flags, Findings
<1>2. FlagsReflect
  BY DEF TelemetryInit, FlagsReflect, Reflect
<1>3. BucketsCount
  <2> SUFFICES ASSUME NEW i \in DOMAIN buckets PROVE buckets[i] = SumOver(observed, Bucketed(i))
    BY DEF BucketsCount
  <2>1. buckets[i] = 0 /\ \A l \in Bucketed(i) : observed[l] = 0
    BY DEF TelemetryInit, Bucketed
  <2>2. SumOver(observed, Bucketed(i)) = 0
    BY <2>1, BucketedFinite, SumZero
  <2> QED BY <2>1, <2>2
<1>4. SamplesInOrder
  BY DEF TelemetryInit, SamplesInOrder
<1> QED BY <1>1, <1>2, <1>3, <1>4 DEF TelemetryInv

(* What came before the scrape of now comes before the next one's.              *)
GoesOn ==
  /\ TelemetryTypes'
  /\ \A o \in Outcomes :
       \/ /\ restarts' = restarts /\ happened[o] <= happened'[o]
          /\ SumOf(o)' - SumOf(o) = happened'[o] - happened[o]
       \/ /\ restarts' = restarts + 1 /\ happened'[o] = happened[o]
          /\ SumOf(o)' = 0

LEMMA StillBefore ==
  ASSUME TelemetryTypes, GoesOn, NEW a,
         a.restarts \in Nat, a.totals \in [Outcomes -> Nat], a.happened \in [Outcomes -> Nat],
         Before(a, Scrape)
  PROVE  Before(a, Scrape')
<1>1. ScrapeSums
  BY ScrapeTyped
<1>2. ScrapeSums'
  <2>1. TelemetryTypes'
    BY DEF GoesOn
  <2> QED BY <2>1, ScrapeTyped, PTL
<1>3. Scrape.happened = happened /\ Scrape.restarts = restarts /\ Scrape'.happened = happened' /\ Scrape'.restarts = restarts'
  BY DEF Scrape
<1>4. restarts' \in {restarts, restarts + 1} /\ restarts \in Nat
  BY DEF GoesOn, TelemetryTypes, Outcomes
<1>5. ASSUME NEW o \in Outcomes
      PROVE  /\ a.happened[o] <= happened'[o]
             /\ a.restarts = restarts' => Scrape'.totals[o] - a.totals[o] = happened'[o] - a.happened[o]
             /\ a.restarts < restarts' => Scrape'.totals[o] <= happened'[o] - a.happened[o]
  <2>1. a.restarts \in Nat /\ a.totals[o] \in Nat /\ a.happened[o] \in Nat /\ happened[o] \in Nat /\ happened'[o] \in Nat
    BY DEF TelemetryTypes, GoesOn
  <2>2. /\ a.restarts <= restarts /\ a.happened[o] <= happened[o]
        /\ a.restarts = restarts => SumOf(o) - a.totals[o] = happened[o] - a.happened[o]
        /\ a.restarts < restarts => SumOf(o) <= happened[o] - a.happened[o]
    BY <1>1, <1>3 DEF Before, ScrapeSums
  <2>3. Scrape'.totals[o] = SumOf(o)' /\ SumOf(o)' \in Nat /\ SumOf(o) \in Nat
    BY <1>1, <1>2 DEF ScrapeSums
  <2>4. \/ restarts' = restarts /\ happened[o] <= happened'[o] /\ SumOf(o)' - SumOf(o) = happened'[o] - happened[o]
        \/ restarts' = restarts + 1 /\ happened'[o] = happened[o] /\ SumOf(o)' = 0
    BY DEF GoesOn
  <2> DEFINE s == SumOf(o)
             t == SumOf(o)'
  <2>5. s \in Nat /\ t \in Nat /\ Scrape'.totals[o] = t
    BY <2>3
  <2> HIDE DEF s, t
  <2> QED BY <1>4, <2>1, <2>2, <2>4, <2>5 DEF s, t
<1> QED BY <1>3, <1>4, <1>5 DEF Before

(* The backend moves, and the page does not.                                    *)
LEMMA BackendMovesInv ==
  ASSUME TelemetryInv, UNCHANGED operatorPageVars, GoesOn, Reflect(gauges, checks)', BucketsCount'
  PROVE  TelemetryInv'
<1>1. TelemetryTypes /\ TelemetryTypes'
  BY DEF GoesOn, TelemetryInv
<1>2. \A i \in DOMAIN samples : Before(samples[i], Scrape')
  <2> SUFFICES ASSUME NEW i \in DOMAIN samples PROVE Before(samples[i], Scrape')
    OBVIOUS
  <2>1. samples[i] \in Samples
    BY <1>1 DEF TelemetryTypes
  <2>2. Before(samples[i], Scrape)
    BY DEF TelemetryInv, SamplesInOrder
  <2> QED BY <1>1, <2>1, <2>2, StillBefore DEF Samples
<1>3. \A p \in polls : \A scrape \in p.scraped : Before(scrape, Scrape')
  <2> SUFFICES ASSUME NEW p \in polls, NEW scrape \in p.scraped PROVE Before(scrape, Scrape')
    OBVIOUS
  <2>1. scrape \in Scrapes
    BY <1>1 DEF TelemetryTypes
  <2>2. Before(scrape, Scrape)
    BY DEF TelemetryInv, SamplesInOrder
  <2> QED BY <1>1, <2>1, <2>2, StillBefore DEF Scrapes
<1>4. SamplesInOrder'
  BY <1>2, <1>3 DEF TelemetryInv, SamplesInOrder, operatorPageVars, Before
<1>5. FlagsReflect'
  BY DEF TelemetryInv, FlagsReflect, operatorPageVars, Reflect
<1> QED BY <1>1, <1>4, <1>5 DEF TelemetryInv

LEMMA SameSums ==
  ASSUME TelemetryTypes, TelemetryTypes', counters' = counters
  PROVE  \A o \in Outcomes : SumOf(o)' = SumOf(o) /\ SumOf(o) \in Nat
BY SumOfIs DEF SumOf, Total

LEMMA RecordInv ==
  ASSUME NEW c \in Chains, NEW o \in Outcomes, TelemetryInv, RecordSponsorship(c, o)
  PROVE  TelemetryInv'
<1> USE DEF TelemetryInv
<1>1. TelemetryTypes'
  BY DEF RecordSponsorship, TelemetryTypes, operatorPageVars
<1>2. ASSUME NEW q \in Outcomes
      PROVE  SumOf(q)' - SumOf(q) = happened'[q] - happened[q] /\ happened[q] <= happened'[q]
  <2> DEFINE f == [d \in Chains |-> counters[d][q]]
             h == [d \in Chains |-> counters'[d][q]]
  <2>1. SumOf(q) = SumOver(f, Chains) /\ SumOf(q) \in Nat
    BY SumOfIs
  <2>2. SumOf(q)' = SumOver(h, Chains)
    BY DEF SumOf, Total
  <2>3. \A d \in Chains : f[d] \in Int /\ h[d] \in Int
    BY <1>1 DEF TelemetryTypes
  <2>4. \A d \in Chains \ {c} : h[d] = f[d]
    BY DEF RecordSponsorship, TelemetryTypes
  <2>5. h[c] - f[c] = happened'[q] - happened[q] /\ happened[q] <= happened'[q] /\ happened[q] \in Nat /\ happened'[q] \in Nat
    BY <1>1 DEF RecordSponsorship, TelemetryTypes
  <2>6. f[c] \in Int /\ h[c] \in Int
    BY <2>3
  <2> HIDE DEF f, h
  <2>7. SumOver(h, Chains) = SumOver(f, Chains) - f[c] + h[c]
    BY <2>3, <2>4, SumChange, TelemetryAssumption
  <2>8. SumOver(f, Chains) \in Nat
    BY <2>1
  <2>9. SumOver(h, Chains) - SumOver(f, Chains) = happened'[q] - happened[q]
    BY <2>5, <2>6, <2>7, <2>8
  <2> QED BY <2>1, <2>2, <2>5, <2>9
<1>3. GoesOn
  BY <1>1, <1>2 DEF GoesOn, RecordSponsorship
<1>4. Reflect(gauges, checks)' /\ BucketsCount'
  BY DEF RecordSponsorship, FlagsReflect, Reflect, BucketsCount, Bucketed
<1> QED BY <1>3, <1>4, BackendMovesInv DEF RecordSponsorship

LEMMA ObserveInv ==
  ASSUME NEW latency \in Latencies, TelemetryInv, Observe(latency)
  PROVE  TelemetryInv'
<1> USE DEF TelemetryInv
<1>1. TelemetryTypes'
  BY DEF Observe, TelemetryTypes, operatorPageVars
<1>2. GoesOn
  <2>1. \A o \in Outcomes : happened[o] \in Nat
    BY DEF TelemetryTypes
  <2> QED BY <1>1, <2>1, SameSums DEF GoesOn, Observe
<1>3. BucketsCount'
  <2> SUFFICES ASSUME NEW i \in DOMAIN buckets PROVE buckets'[i] = SumOver(observed', Bucketed(i))
    BY DEF BucketsCount, Observe, Bucketed
  <2>1. buckets[i] = SumOver(observed, Bucketed(i)) /\ IsFiniteSet(Bucketed(i))
    BY BucketedFinite DEF BucketsCount
  <2>2. \A l \in Bucketed(i) : observed[l] \in Int /\ observed'[l] \in Int
    BY <1>1 DEF Bucketed, TelemetryTypes
  <2>3. \A l \in Bucketed(i) \ {latency} : observed'[l] = observed[l]
    BY DEF Observe, Bucketed, TelemetryTypes
  <2>4. buckets[i] \in Nat /\ observed[latency] \in Nat /\ observed'[latency] = observed[latency] + 1
    BY DEF Observe, TelemetryTypes
  <2>5. CASE latency \in Bucketed(i)
    <3>1. SumOver(observed', Bucketed(i)) = SumOver(observed, Bucketed(i)) - observed[latency] + observed'[latency]
      BY <2>1, <2>2, <2>3, <2>5, SumChange
    <3>2. buckets'[i] = buckets[i] + 1
      BY <2>5 DEF Observe, Bucketed, TelemetryTypes
    <3> QED BY <2>1, <2>4, <3>1, <3>2
  <2>6. CASE latency \notin Bucketed(i)
    <3>1. SumOver(observed', Bucketed(i)) = SumOver(observed, Bucketed(i))
      BY <2>1, <2>2, <2>3, <2>6, SumSame
    <3>2. buckets'[i] = buckets[i]
      BY <2>6 DEF Observe, Bucketed, TelemetryTypes
    <3> QED BY <2>1, <3>1, <3>2
  <2> QED BY <2>5, <2>6
<1>4. Reflect(gauges, checks)'
  BY DEF Observe, FlagsReflect, Reflect
<1> QED BY <1>2, <1>3, <1>4, BackendMovesInv DEF Observe

LEMMA FundingRecordInv ==
  ASSUME TelemetryInv, RecordFunding
  PROVE  TelemetryInv'
<1> USE DEF TelemetryInv
<1>1. PICK found \in [Chains -> Findings] :
        gauges' = [c \in Chains |-> Reflected(gauges[c], found[c])] /\ checks' = found
  BY DEF RecordFunding
<1>2. UNCHANGED <<counters, buckets, happened, observed, restarts>> /\ UNCHANGED operatorPageVars
  BY DEF RecordFunding
<1>3. gauges' \in [Chains -> Flags] /\ Reflect(gauges, checks)'
  BY <1>1 DEF Reflected, Flags, Findings, Reflect, TelemetryTypes
<1>4. TelemetryTypes'
  BY <1>1, <1>2, <1>3 DEF TelemetryTypes, operatorPageVars
<1>5. GoesOn
  <2>1. \A o \in Outcomes : happened[o] \in Nat
    BY DEF TelemetryTypes
  <2> QED BY <1>2, <1>4, <2>1, SameSums DEF GoesOn
<1>6. BucketsCount'
  BY <1>2 DEF BucketsCount, Bucketed
<1> QED BY <1>2, <1>3, <1>5, <1>6, BackendMovesInv

LEMMA RestartInv ==
  ASSUME TelemetryInv, Restart
  PROVE  TelemetryInv'
<1> USE DEF TelemetryInv
<1>1. TelemetryTypes'
  BY DEF Restart, TelemetryTypes, operatorPageVars, NoSamples, Unset, Flags
<1>2. ASSUME NEW o \in Outcomes PROVE SumOf(o)' = 0
  <2> DEFINE h == [d \in Chains |-> counters'[d][o]]
  <2>1. SumOf(o)' = SumOver(h, Chains)
    BY DEF SumOf, Total
  <2>2. \A d \in Chains : h[d] = 0
    BY DEF Restart, NoSamples
  <2> HIDE DEF h
  <2> QED BY <2>1, <2>2, SumZero, TelemetryAssumption
<1>3. GoesOn
  BY <1>1, <1>2 DEF GoesOn, Restart
<1>4. BucketsCount'
  <2> SUFFICES ASSUME NEW i \in DOMAIN buckets PROVE buckets'[i] = SumOver(observed', Bucketed(i))
    BY DEF BucketsCount, Restart, Bucketed
  <2>1. buckets'[i] = 0 /\ \A l \in Bucketed(i) : observed'[l] = 0
    BY DEF Restart, Bucketed
  <2> QED BY <2>1, BucketedFinite, SumZero
<1>5. Reflect(gauges, checks)'
  BY DEF Restart, Reflect
<1> QED BY <1>3, <1>4, <1>5, BackendMovesInv DEF Restart

(* The page moves, and the backend does not.                                    *)
LEMMA PageMovesInv ==
  ASSUME TelemetryInv, UNCHANGED backendVars,
         \A p \in polls' : p = [over |-> p.over, scraped |-> p.scraped, healthy |-> p.healthy],
         \A p \in polls' : \A scrape \in p.scraped : scrape = Scrape \/ \E q \in polls : scrape \in q.scraped,
         \A p, q \in polls' : p = q,
         ~inFlight' => polls' = {},
         UNCHANGED <<shown, samples>>
  PROVE  TelemetryInv'
<1> USE DEF TelemetryInv, backendVars
<1>1. Scrape' = Scrape
  BY DEF Scrape, SumOf, Total
<1>2. ScrapeSums
  BY ScrapeTyped
<1>3. \A p \in polls' : p.scraped \subseteq Scrapes
  BY <1>2 DEF TelemetryTypes, ScrapeSums
<1>4. TelemetryTypes'
  BY <1>3 DEF TelemetryTypes
<1>5. FlagsReflect'
  <2>1. Reflect(Scrape.gauges, Scrape.checks)
    BY DEF FlagsReflect, Scrape
  <2>2. \A p \in polls' : \A scrape \in p.scraped : Reflect(scrape.gauges, scrape.checks)
    BY <2>1 DEF FlagsReflect
  <2> QED BY <2>2 DEF FlagsReflect, Reflect
<1>6. Before(Scrape, Scrape)
  BY <1>2 DEF Before, ScrapeSums, Scrapes
<1>7. SamplesInOrder'
  <2>1. \A p \in polls' : \A scrape \in p.scraped :
          Before(scrape, Scrape) /\ \A i \in DOMAIN samples : Before(samples[i], scrape)
    BY <1>6 DEF SamplesInOrder
  <2> QED BY <1>1, <2>1 DEF SamplesInOrder, Before
<1>8. BucketsCount'
  BY DEF BucketsCount, Bucketed
<1> QED BY <1>4, <1>5, <1>7, <1>8

LEMMA PollInv ==
  ASSUME TelemetryInv, Poll
  PROVE  TelemetryInv'
<1>1. polls = {} /\ polls' = {Asked} /\ inFlight' /\ UNCHANGED backendVars /\ UNCHANGED <<shown, samples>>
  BY DEF Poll, TelemetryInv, SamplesInOrder
<1>2. Asked.scraped = {} /\ Asked = [over |-> Asked.over, scraped |-> Asked.scraped, healthy |-> Asked.healthy]
  BY DEF Asked
<1> QED BY <1>1, <1>2, PageMovesInv

LEMMA BringsInv ==
  ASSUME NEW p \in polls, TelemetryInv, Scraped(p) \/ Probed(p)
  PROVE  TelemetryInv'
<1>1. p = [over |-> p.over, scraped |-> p.scraped, healthy |-> p.healthy] /\ polls = {p} /\ inFlight
  BY DEF TelemetryInv, TelemetryTypes, SamplesInOrder
<1>2. PICK q : /\ Brings(p, q)
               /\ q = [over |-> q.over, scraped |-> q.scraped, healthy |-> q.healthy]
               /\ q.scraped \subseteq p.scraped \cup {Scrape}
  <2>1. CASE Scraped(p)
    <3>1. PICK scraped \in {{}, {Scrape}} :
            Brings(p, [over |-> p.over \cup {"metrics"}, scraped |-> scraped, healthy |-> p.healthy])
      BY <2>1 DEF Scraped
    <3> DEFINE q == [over |-> p.over \cup {"metrics"}, scraped |-> scraped, healthy |-> p.healthy]
    <3>2. Brings(p, q) /\ q = [over |-> q.over, scraped |-> q.scraped, healthy |-> q.healthy]
          /\ q.scraped \subseteq p.scraped \cup {Scrape}
      BY <3>1
    <3> QED BY <3>2
  <2>2. CASE Probed(p)
    <3>1. PICK healthy \in {"all", "some", "none"} :
            Brings(p, [over |-> p.over \cup {"health"}, scraped |-> p.scraped, healthy |-> healthy])
      BY <2>2 DEF Probed
    <3> DEFINE q == [over |-> p.over \cup {"health"}, scraped |-> p.scraped, healthy |-> healthy]
    <3>2. Brings(p, q) /\ q = [over |-> q.over, scraped |-> q.scraped, healthy |-> q.healthy]
          /\ q.scraped \subseteq p.scraped \cup {Scrape}
      BY <3>1
    <3> QED BY <3>2
  <2> QED BY <2>1, <2>2
<1>3. polls' = {q} /\ UNCHANGED <<inFlight, shown, samples>> /\ UNCHANGED backendVars
  BY <1>1, <1>2 DEF Brings
<1> QED BY <1>1, <1>2, <1>3, PageMovesInv

LEMMA SampleMoved ==
  ASSUME NEW s \in Samples, NEW a \in Int
  PROVE  [s EXCEPT !.at = @ - a] \in Samples
BY DEF Samples

(* The last samples, renumbered, are those at the end of the history.           *)
LEMMA LastSamples ==
  ASSUME NEW seq \in Seq(Samples), seq # << >>
  PROVE  /\ LastOf(seq) \in Seq(Samples)
         /\ \E m \in Nat : /\ m + Len(LastOf(seq)) = Len(seq)
                           /\ \A i \in 1..Len(LastOf(seq)) :
                                /\ LastOf(seq)[i].totals = seq[m + i].totals
                                /\ LastOf(seq)[i].happened = seq[m + i].happened
                                /\ LastOf(seq)[i].restarts = seq[m + i].restarts
<1> DEFINE k == Max({1, Len(seq) - MaxSamples + 1})
           sub == SubSeq(seq, k, Len(seq))
<1>1. Len(seq) \in Nat /\ Len(seq) >= 1 /\ seq \in [1..Len(seq) -> Samples]
  BY EmptySeq, LenProperties
<1>2. k \in 1..Len(seq)
  <2>1. Max({1, Len(seq) - MaxSamples + 1}) = IF Len(seq) - MaxSamples + 1 > 1 THEN Len(seq) - MaxSamples + 1 ELSE 1
    BY <1>1, TelemetryAssumption DEF Max
  <2> QED BY <1>1, <2>1, TelemetryAssumption
<1> HIDE DEF k
<1>3. /\ sub \in Seq(Samples) /\ Len(sub) = Len(seq) - k + 1
      /\ \A i \in 1..Len(seq) - k + 1 : sub[i] = seq[k + i - 1]
  BY <1>1, <1>2, SubSeqProperties
<1> HIDE DEF sub
<1>4. sub \in [1..Len(sub) -> Samples] /\ DOMAIN sub = 1..Len(sub) /\ Len(sub) \in Nat /\ Len(sub) >= 1
  BY <1>1, <1>2, <1>3, LenProperties
<1>5. Renumbered(sub) \in [1..Len(sub) -> Samples]
  <2>1. \A i \in 1..Len(sub) : sub[i] \in Samples /\ sub[1] \in Samples
    BY <1>4
  <2>2. sub[1].at \in Int
    BY <1>4, <2>1 DEF Samples
  <2>3. \A i \in 1..Len(sub) : [sub[i] EXCEPT !.at = @ - sub[1].at] \in Samples
    BY <2>1, <2>2, SampleMoved
  <2> QED BY <1>4, <2>3 DEF Renumbered
<1>6. Renumbered(sub) \in Seq(Samples) /\ Len(Renumbered(sub)) = Len(sub)
  BY <1>4, <1>5
<1>7. \A i \in 1..Len(sub) : /\ Renumbered(sub)[i].totals = sub[i].totals
                             /\ Renumbered(sub)[i].happened = sub[i].happened
                             /\ Renumbered(sub)[i].restarts = sub[i].restarts
  BY <1>4 DEF Renumbered, Samples
<1>8. LastOf(seq) = Renumbered(sub)
  BY DEF LastOf, k, sub
<1>9. k - 1 \in Nat /\ (k - 1) + Len(sub) = Len(seq) /\ \A i \in 1..Len(sub) : sub[i] = seq[(k - 1) + i]
  BY <1>1, <1>2, <1>3
<1> HIDE DEF sub
<1>10. \A i \in 1..Len(LastOf(seq)) :
         /\ LastOf(seq)[i].totals = seq[(k - 1) + i].totals
         /\ LastOf(seq)[i].happened = seq[(k - 1) + i].happened
         /\ LastOf(seq)[i].restarts = seq[(k - 1) + i].restarts
  BY <1>6, <1>7, <1>8, <1>9
<1>11. (k - 1) + Len(LastOf(seq)) = Len(seq)
  BY <1>6, <1>8, <1>9
<1>12. LastOf(seq) \in Seq(Samples)
  BY <1>6, <1>8
<1> QED BY <1>9, <1>10, <1>11, <1>12

LEMMA PolledInv ==
  ASSUME NEW p \in polls, TelemetryInv, Polled(p)
  PROVE  TelemetryInv'
<1>1. polls = {p} /\ polls' = {} /\ UNCHANGED backendVars
  BY DEF Polled, TelemetryInv, SamplesInOrder
<1>2. CASE UNCHANGED <<shown, samples>>
  BY <1>1, <1>2, PageMovesInv DEF Polled
<1>3. ASSUME NEW scrape \in p.scraped, NEW moment \in Times,
             shown' = {[healthy |-> p.healthy, gauges |-> scrape.gauges,
                        totals |-> scrape.totals, checks |-> scrape.checks]},
             samples' = IF series = "sponsorships"
                        THEN LastOf(Append(samples, [at |-> moment, totals |-> scrape.totals,
                                                     happened |-> scrape.happened,
                                                     restarts |-> scrape.restarts]))
                        ELSE samples
      PROVE  TelemetryInv'
  <2> USE DEF TelemetryInv, backendVars
  <2>1. scrape \in Scrapes /\ Reflect(scrape.gauges, scrape.checks) /\ Before(scrape, Scrape)
        /\ \A i \in DOMAIN samples : Before(samples[i], scrape)
    BY DEF TelemetryTypes, FlagsReflect, SamplesInOrder
  <2>2. Scrape' = Scrape
    BY <1>1 DEF Scrape, SumOf, Total
  <2>3. /\ samples' \in Seq(Samples)
        /\ \A i, j \in DOMAIN samples' : i < j => Before(samples'[i], samples'[j])
        /\ \A i \in DOMAIN samples' : Before(samples'[i], Scrape)
    <3>1. CASE series = "sponsorships"
      <4> DEFINE new == [at |-> moment, totals |-> scrape.totals, happened |-> scrape.happened, restarts |-> scrape.restarts]
                 seq == Append(samples, new)
      <4>1. samples \in Seq(Samples) /\ Len(samples) \in Nat /\ DOMAIN samples = 1..Len(samples)
        BY LenProperties DEF TelemetryTypes
      <4>2. moment \in Int
        BY <4>1 DEF Times, Samples
      <4>3. new \in Samples
        BY <2>1, <4>2 DEF Scrapes, Samples
      <4>4. new.totals = scrape.totals /\ new.happened = scrape.happened /\ new.restarts = scrape.restarts
        OBVIOUS
      <4>5. samples' = LastOf(seq)
        BY <1>3, <3>1
      <4> HIDE DEF new
      <4>6. seq \in Seq(Samples) /\ seq # << >> /\ Len(seq) = Len(samples) + 1
            /\ (\A i \in 1..Len(samples) : seq[i] = samples[i]) /\ seq[Len(samples) + 1] = new
        BY <4>1, <4>3, AppendProperties
      <4> HIDE DEF seq
      <4>7. \A i, j \in 1..Len(seq) : i < j => Before(seq[i], seq[j])
        <5> SUFFICES ASSUME NEW i \in 1..Len(seq), NEW j \in 1..Len(seq), i < j PROVE Before(seq[i], seq[j])
          OBVIOUS
        <5>1. i \in 1..Len(samples) /\ seq[i] = samples[i]
          BY <4>1, <4>6
        <5>2. CASE j \in 1..Len(samples)
          BY <4>1, <4>6, <5>1, <5>2 DEF SamplesInOrder
        <5>3. CASE j \notin 1..Len(samples)
          <6>1. seq[j] = new
            BY <4>1, <4>6, <5>3
          <6> QED BY <2>1, <4>1, <4>4, <5>1, <6>1 DEF Before
        <5> QED BY <5>2, <5>3
      <4>8. \A i \in 1..Len(seq) : Before(seq[i], Scrape)
        <5> SUFFICES ASSUME NEW i \in 1..Len(seq) PROVE Before(seq[i], Scrape)
          OBVIOUS
        <5>1. CASE i \in 1..Len(samples)
          BY <4>1, <4>6, <5>1 DEF SamplesInOrder
        <5>2. CASE i \notin 1..Len(samples)
          <6>1. seq[i] = new
            BY <4>1, <4>6, <5>2
          <6> QED BY <2>1, <4>4, <6>1 DEF Before
        <5> QED BY <5>1, <5>2
      <4>9. PICK m \in Nat : /\ m + Len(samples') = Len(seq)
                             /\ \A i \in 1..Len(samples') :
                                  /\ samples'[i].totals = seq[m + i].totals
                                  /\ samples'[i].happened = seq[m + i].happened
                                  /\ samples'[i].restarts = seq[m + i].restarts
        BY <4>5, <4>6, LastSamples
      <4>10. samples' \in Seq(Samples)
        BY <4>5, <4>6, LastSamples
      <4>11. DOMAIN samples' = 1..Len(samples') /\ Len(samples') \in Nat /\ Len(seq) \in Nat
        BY <4>1, <4>6, <4>10, LenProperties
      <4>12. \A i, j \in DOMAIN samples' : i < j => Before(samples'[i], samples'[j])
        <5> SUFFICES ASSUME NEW i \in 1..Len(samples'), NEW j \in 1..Len(samples'), i < j
                     PROVE  Before(samples'[i], samples'[j])
          BY <4>11
        <5>1. m + i \in 1..Len(seq) /\ m + j \in 1..Len(seq) /\ m + i < m + j
          BY <4>9, <4>11
        <5>2. Before(seq[m + i], seq[m + j])
          BY <4>7, <5>1
        <5> QED BY <4>9, <5>2 DEF Before
      <4>13. \A i \in DOMAIN samples' : Before(samples'[i], Scrape)
        <5> SUFFICES ASSUME NEW i \in 1..Len(samples') PROVE Before(samples'[i], Scrape)
          BY <4>11
        <5>1. m + i \in 1..Len(seq)
          BY <4>9, <4>11
        <5>2. Before(seq[m + i], Scrape)
          BY <4>8, <5>1
        <5> QED BY <4>9, <5>2 DEF Before
      <4> QED BY <4>10, <4>12, <4>13
    <3>2. CASE series # "sponsorships"
      BY <1>3, <3>2 DEF SamplesInOrder, TelemetryTypes
    <3> QED BY <3>1, <3>2
  <2>4. TelemetryTypes'
    BY <1>1, <2>3 DEF TelemetryTypes
  <2>5. FlagsReflect'
    BY <1>1, <1>3, <2>1 DEF FlagsReflect, Reflect, Scrapes
  <2>6. SamplesInOrder'
    BY <1>1, <2>2, <2>3 DEF SamplesInOrder, Before
  <2>7. BucketsCount'
    BY <1>1 DEF BucketsCount, Bucketed
  <2> QED BY <2>4, <2>5, <2>6, <2>7
<1> QED BY <1>2, <1>3 DEF Polled

LEMMA TelemetryNextInv == TelemetryInv /\ [TelemetryNext]_telemetryVars => TelemetryInv'
<1> SUFFICES ASSUME TelemetryInv, [TelemetryNext]_telemetryVars PROVE TelemetryInv'
  OBVIOUS
<1>1. CASE UNCHANGED telemetryVars
  <2>1. UNCHANGED backendVars /\ UNCHANGED <<polls, inFlight, shown, samples>>
    BY <1>1 DEF telemetryVars, backendVars
  <2> QED BY <2>1, PageMovesInv DEF TelemetryInv, TelemetryTypes, SamplesInOrder
<1> QED BY <1>1, RecordInv, ObserveInv, FundingRecordInv, RestartInv, PollInv, BringsInv, PolledInv DEF TelemetryNext

(* The rates                                                                    *)
LEMMA RatesInv ==
  ASSUME TelemetryInv
  PROVE  RatesNeverOverstate
<1> USE DEF TelemetryInv
<1> SUFFICES ASSUME NEW o \in Outcomes
    PROVE  /\ \A i \in Points(o) :
                /\ Delta(o, i) >= 0
                /\ samples[i].restarts = samples[i - 1].restarts =>
                     Delta(o, i) = samples[i].happened[o] - samples[i - 1].happened[o]
           /\ samples # << >> =>
                Total([i \in Points(o) |-> Delta(o, i)]) <= samples[Len(samples)].happened[o] - samples[1].happened[o]
  BY DEF RatesNeverOverstate
<1>1. Len(samples) \in Nat /\ DOMAIN samples = 1..Len(samples)
      /\ \A i \in 1..Len(samples) : samples[i] \in Samples
  BY LenProperties DEF TelemetryTypes
<1>2. \A i \in 1..Len(samples) :
        samples[i].totals[o] \in Nat /\ samples[i].happened[o] \in Nat /\ samples[i].restarts \in Nat
  BY <1>1 DEF Samples
<1>3. ASSUME NEW i \in 2..Len(samples)
      PROVE  /\ samples[i - 1].happened[o] <= samples[i].happened[o]
             /\ samples[i].restarts = samples[i - 1].restarts =>
                  Delta(o, i) = samples[i].happened[o] - samples[i - 1].happened[o]
             /\ Delta(o, i) \in Int
             /\ Delta(o, i) <= samples[i].happened[o] - samples[i - 1].happened[o]
  <2>1. i \in 1..Len(samples) /\ i - 1 \in 1..Len(samples) /\ i - 1 < i
    BY <1>1
  <2>2. Before(samples[i - 1], samples[i])
    BY <1>1, <2>1 DEF SamplesInOrder
  <2>3. /\ samples[i - 1].restarts <= samples[i].restarts
        /\ samples[i - 1].happened[o] <= samples[i].happened[o]
        /\ samples[i - 1].restarts = samples[i].restarts =>
             samples[i].totals[o] - samples[i - 1].totals[o] = samples[i].happened[o] - samples[i - 1].happened[o]
        /\ samples[i - 1].restarts < samples[i].restarts =>
             samples[i].totals[o] <= samples[i].happened[o] - samples[i - 1].happened[o]
    BY <2>2 DEF Before
  <2>4. Delta(o, i) = samples[i].totals[o] - samples[i - 1].totals[o]
    BY DEF Delta
  <2>5. /\ samples[i].totals[o] \in Nat /\ samples[i].happened[o] \in Nat /\ samples[i].restarts \in Nat
        /\ samples[i - 1].totals[o] \in Nat /\ samples[i - 1].happened[o] \in Nat /\ samples[i - 1].restarts \in Nat
    BY <1>2, <2>1
  <2>6. CASE samples[i - 1].restarts = samples[i].restarts
    BY <2>3, <2>4, <2>5, <2>6
  <2>7. CASE samples[i - 1].restarts < samples[i].restarts
    BY <2>3, <2>4, <2>5, <2>7
  <2> QED BY <2>3, <2>5, <2>6, <2>7
<1>4. ASSUME NEW i \in Points(o) PROVE i \in 2..Len(samples) /\ Delta(o, i) >= 0
  <2>1. i \in 2..Len(samples) /\ samples[i].totals[o] >= samples[i - 1].totals[o]
    BY DEF Points, Finite
  <2>2. i \in 1..Len(samples) /\ i - 1 \in 1..Len(samples)
    BY <1>1, <2>1
  <2> QED BY <1>2, <2>1, <2>2 DEF Delta
<1>5. ASSUME samples # << >>
      PROVE  Total([i \in Points(o) |-> Delta(o, i)]) <= samples[Len(samples)].happened[o] - samples[1].happened[o]
  <2> DEFINE d == [i \in Points(o) |-> Delta(o, i)]
             h == [i \in 1..Len(samples) |-> samples[i].happened[o]]
             n == Len(samples)
  <2>1. n \in Nat /\ n >= 1
    BY <1>1, <1>5, EmptySeq DEF TelemetryTypes
  <2>2. Points(o) \in SUBSET (2..n)
    BY <1>4
  <2>3. \A i \in 1..n : h[i] \in Int
    BY <1>2
  <2>4. \A i \in 2..n : h[i - 1] <= h[i]
    <3> TAKE i \in 2..n
    <3>1. i \in 1..n /\ i - 1 \in 1..n
      BY <2>1
    <3> QED BY <1>3, <3>1
  <2>5. \A i \in Points(o) : d[i] \in Int /\ d[i] <= h[i] - h[i - 1]
    <3> TAKE i \in Points(o)
    <3>1. i \in 2..n /\ i \in 1..n /\ i - 1 \in 1..n
      BY <1>4, <2>1
    <3> QED BY <1>3, <3>1
  <2>6. Total(d) = SumOver(d, Points(o))
    BY DEF Total
  <2>7. h[n] = samples[n].happened[o] /\ h[1] = samples[1].happened[o]
    BY <2>1
  <2> HIDE DEF d, h, n
  <2>8. SumOver(d, Points(o)) <= h[n] - h[1]
    BY <2>1, <2>2, <2>3, <2>4, <2>5, Telescopes
  <2> QED BY <2>6, <2>7, <2>8 DEF d, n
<1> QED BY <1>3, <1>4, <1>5

LEMMA NominalInv ==
  ASSUME TelemetryInv
  PROVE  NominalMeansFunded
<1> SUFFICES ASSUME NEW page \in shown, Severity(page) = "good", NEW c \in Chains
             PROVE  page.checks[c] \in {"never", "ok"}
  BY DEF NominalMeansFunded
<1>1. page.gauges[c].deposit # "low" /\ ~page.gauges[c].readError
  BY DEF Severity
<1>2. page.checks[c] \in {"never"} \cup Findings /\ Reflect(page.gauges, page.checks)
  BY DEF TelemetryInv, FlagsReflect
<1> QED BY <1>1, <1>2 DEF Reflect, Findings

(* The sum of part of what was observed is no more than that of more of it.      *)
LEMMA MoreObserved ==
  ASSUME TelemetryTypes, NEW S \in SUBSET Latencies, NEW T \in SUBSET S
  PROVE  SumOver(observed, T) \in Nat /\ SumOver(observed, T) <= SumOver(observed, S) /\ SumOver(observed, S) \in Nat
<1>1. IsFiniteSet(S) /\ IsFiniteSet(T) /\ IsFiniteSet(S \ T)
  BY FS_Subset, TelemetryAssumption
<1>2. \A l \in S : observed[l] \in Nat
  BY DEF TelemetryTypes
<1>3. SumOver(observed, T) \in Nat /\ SumOver(observed, S \ T) \in Nat /\ SumOver(observed, S) \in Nat
  BY <1>1, <1>2, SumNat
<1>4. SumOver(observed, T \cup (S \ T)) = SumOver(observed, T) + SumOver(observed, S \ T)
  BY <1>1, <1>2, SumDisjoint
<1>5. T \cup (S \ T) = S
  OBVIOUS
<1> QED BY <1>3, <1>4, <1>5

LEMMA QuantileInv ==
  ASSUME TelemetryInv
  PROVE  QuantileInItsBucket
<1> USE DEF TelemetryInv
<1> SUFFICES ASSUME Total(observed) > 0, NEW n \in {50, 99}
    PROVE  /\ QuantileBucket(n, 100) > 1 => RankOf(n, 100) > Bounds[QuantileBucket(n, 100) - 1]
           /\ QuantileBucket(n, 100) <= Len(Bounds) => RankOf(n, 100) <= Bounds[QuantileBucket(n, 100)]
  BY DEF QuantileInItsBucket
<1> DEFINE total == Total(observed)
           last == Len(Bounds) + 1
           Reached == {i \in DOMAIN buckets : buckets[i] * 100 >= n * buckets[last]}
           Ranks == {l \in Latencies : UpTo(l) * 100 >= n * total}
           b == QuantileBucket(n, 100)
           rank == RankOf(n, 100)
<1>1. last \in Nat /\ last >= 1 /\ DOMAIN buckets = 1..last /\ \A i \in 1..last : buckets[i] \in Nat
  BY TelemetryAssumption DEF TelemetryTypes
<1>2. DOMAIN observed = Latencies
  BY DEF TelemetryTypes
<1>3. total = SumOver(observed, Latencies) /\ total \in Nat /\ total > 0
  BY <1>2, MoreObserved DEF Total
<1>4. buckets[last] = total
  <2>1. Bucketed(last) = Latencies
    BY TelemetryAssumption DEF Bucketed, InBucket
  <2> QED BY <1>1, <1>3, <2>1 DEF BucketsCount
<1>5. b \in Reached /\ \A i \in Reached : b <= i
  <2>1. last \in Reached
    <3>1. total * 100 >= n * total
      BY <1>3
    <3> QED BY <1>1, <1>4, <3>1
  <2>2. IsFiniteSet(1..last)
    BY <1>1, FS_Interval
  <2>3. IsFiniteSet(Reached) /\ Reached \subseteq Int
    BY <1>1, <2>2, FS_Subset
  <2>4. b = Min(Reached)
    BY DEF QuantileBucket
  <2> HIDE DEF Reached, b
  <2> QED BY <2>1, <2>3, <2>4, MinIs
<1>6. \A l \in Latencies : UpTo(l) \in Nat
  BY MoreObserved DEF UpTo
<1>7. \A l \in Ranks : rank \in Ranks /\ rank <= l
  <2> SUFFICES ASSUME NEW l \in Ranks PROVE rank \in Ranks /\ rank <= l
    OBVIOUS
  <2>1. Ranks \in SUBSET Latencies
    OBVIOUS
  <2>2. rank = Min(Ranks)
    BY DEF RankOf
  <2> HIDE DEF Ranks, rank
  <2>3. IsFiniteSet(Ranks)
    BY <2>1, FS_Subset, TelemetryAssumption
  <2>4. Ranks \subseteq Int
    BY <2>1, TelemetryAssumption
  <2> QED BY <2>2, <2>3, <2>4, MinIs
(* Some latency has the rank: the longest that was observed.                    *)
<1>8. ASSUME NEW S \in SUBSET Latencies, SumOver(observed, S) * 100 >= n * total,
             \A l \in S, k \in Latencies : k <= l => k \in S
      PROVE  \E l \in S : l \in Ranks
  <2>1. S # {}
    <3>1. SumOver(observed, {}) = 0
      BY FS_EmptySet, SumZero
    <3> QED BY <1>3, <1>8, <3>1
  <2>2. IsFiniteSet(S)
    BY FS_Subset, TelemetryAssumption
  <2>3. S \subseteq Int
    BY TelemetryAssumption
  <2>4. PICK l \in S : \A k \in S : k <= l
    BY <2>1, <2>2, <2>3, MaxExists
  <2>5. {k \in Latencies : k <= l} = S
    BY <1>8, <2>4
  <2> QED BY <1>8, <2>4, <2>5 DEF UpTo
<1>9. rank \in Ranks
  <2>1. SumOver(observed, Latencies) * 100 >= n * total
    BY <1>3
  <2> QED BY <1>7, <1>8, <2>1
<1>10. rank \in Nat /\ rank \in Latencies /\ UpTo(rank) * 100 >= n * total
  BY <1>9, TelemetryAssumption
<1>11. ASSUME b > 1 PROVE rank > Bounds[b - 1]
  <2>1. /\ b - 1 \in 1..Len(Bounds) /\ b - 1 \in 1..last /\ Bounds[b - 1] \in Nat
        /\ ~(buckets[b - 1] * 100 >= n * buckets[last])
    <3>1. b \in 1..last
      BY <1>1, <1>5
    <3>2. b - 1 \notin Reached
      <4> HIDE DEF b, Reached
      <4> QED BY <1>5, <3>1
    <3> HIDE DEF b
    <3>3. b - 1 \in 1..Len(Bounds) /\ b - 1 \in 1..last
      BY <1>1, <1>11, <3>1
    <3> QED BY <1>1, <3>2, <3>3, TelemetryAssumption
  <2>2. SUFFICES ASSUME rank <= Bounds[b - 1] PROVE FALSE
    BY <1>10, <2>1
  <2> HIDE DEF b, rank
  <2>3. ASSUME NEW k \in Latencies, k <= rank PROVE k \in Bucketed(b - 1)
    <3>1. k \in Nat /\ k <= Bounds[b - 1]
      BY <1>10, <2>1, <2>2, <2>3, TelemetryAssumption
    <3> QED BY <3>1 DEF Bucketed, InBucket
  <2>4. UpTo(rank) <= buckets[b - 1]
    <3> DEFINE Short == {k \in Latencies : k <= rank}
    <3>1. Short \in SUBSET Bucketed(b - 1)
      BY <2>3
    <3>2. buckets[b - 1] = SumOver(observed, Bucketed(b - 1))
      BY <1>1, <2>1 DEF BucketsCount
    <3>3. UpTo(rank) = SumOver(observed, Short)
      BY DEF UpTo
    <3> HIDE DEF Short
    <3>4. Bucketed(b - 1) \in SUBSET Latencies
      BY BucketedFinite
    <3>5. SumOver(observed, Short) <= SumOver(observed, Bucketed(b - 1))
      BY <3>1, <3>4, MoreObserved
    <3> QED BY <3>2, <3>3, <3>5
  <2>5. buckets[b - 1] * 100 >= n * buckets[last]
    BY <1>1, <1>3, <1>4, <1>6, <1>10, <2>1, <2>4
  <2> QED BY <1>1, <2>1, <2>5
<1>12. ASSUME b <= Len(Bounds) PROVE rank <= Bounds[b]
  <2>1. b \in 1..Len(Bounds) /\ b \in 1..last /\ Bounds[b] \in Nat
    BY <1>1, <1>5, <1>12, TelemetryAssumption
  <2>2. SumOver(observed, Bucketed(b)) * 100 >= n * total
    BY <1>1, <1>4, <1>5, <2>1 DEF BucketsCount
  <2>3. \A l \in Bucketed(b) : l \in Latencies /\ l <= Bounds[b]
    BY <2>1, TelemetryAssumption DEF Bucketed, InBucket
  <2>4. \A l \in Bucketed(b), k \in Latencies : k <= l => k \in Bucketed(b)
    BY <2>1, <2>3, TelemetryAssumption DEF Bucketed, InBucket
  <2>5. PICK l \in Bucketed(b) : l \in Ranks
    BY <1>8, <2>2, <2>4, BucketedFinite
  <2>6. rank <= l /\ l <= Bounds[b] /\ l \in Nat
    BY <1>7, <2>3, <2>5, TelemetryAssumption
  <2> QED BY <1>10, <2>1, <2>6
<1> QED BY <1>11, <1>12

(* For any chains, bounds, latencies and page, under restarts, failed scrapes and  *)
(* slow answers: no rate overstates what happened, no chain whose last check was   *)
(* bad is under "All systems nominal", and a quantile is looked for in the bucket  *)
(* its latency is in (computeRates, overallStatus, histogramQuantile, Histogram).  *)
THEOREM PageIsTrue == TelemetrySpec => []PageTellsTheTruth
<1>1. TelemetryInv => PageTellsTheTruth
  BY RatesInv, NominalInv, QuantileInv DEF PageTellsTheTruth
<1> QED BY <1>1, TelemetryInitInv, TelemetryNextInv, PTL DEF TelemetrySpec
===============================================================================
