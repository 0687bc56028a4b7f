----------------------------- MODULE ProviderKeys -----------------------------
(* The identity provider's signing keys as PrivyIdentityProvider caches them:   *)
(* a sign-in names the key its token was signed with, an unknown or a stale one *)
(* refreshes the set, concurrent refreshes share one request, a request is      *)
(* tried twice, and a set that arrives replaces the cached one.                 *)
EXTENDS Naturals, FiniteSets

CONSTANTS
  Kids,          \* key ids the provider may publish
  MinAge,        \* MIN_REFRESH_INTERVAL_MS, in ticks
  TtlAge,        \* cacheTtlMs, in ticks
  Attempts,      \* REFRESH_ATTEMPTS
  MaxRotations,  \* bound on the changes of the published set
  MaxOutages     \* bound on the changes of the provider's reachability

VARIABLES
  published,  \* the keys of use in the set that the provider serves
  reach,      \* "up", "down" (unreachable, too slow or 5xx) or "refusing" (4xx)
  cached,     \* #keys
  age,        \* time since #fetchedAt, up to TtlAge + 1; at 0 nothing was fetched
  fetch,      \* #inFlight: the attempt under way, and the set that answered it
  waiting,    \* the kids of the sign-ins that await it
  rotations,
  outages

vars == <<published, reach, cached, age, fetch, waiting, rotations, outages>>
provider == <<published, reach, rotations, outages>>

Idle == [at |-> "idle", attempt |-> 0, set |-> {}]

Init ==
  /\ published \in {{kid} : kid \in Kids}
  /\ reach = "up"
  /\ cached = {}
  /\ age = TtlAge + 1
  /\ fetch = Idle
  /\ waiting = {}
  /\ rotations = 0
  /\ outages = 0

(* A known key refreshes only a stale set; an unknown one whenever the floor    *)
(* between refreshes has passed.                                                *)
CanRefresh(kid) == IF kid \in cached THEN age > TtlAge ELSE age > MinAge

(* #keyFor, of a sign-in that has to wait for a refresh: the others are         *)
(* answered from the cache and change nothing.                                  *)
Verify(kid) ==
  /\ kid \notin waiting
  /\ CanRefresh(kid)
  /\ waiting' = waiting \cup {kid}
  /\ fetch' = IF fetch = Idle THEN [at |-> "asking", attempt |-> 1, set |-> {}] ELSE fetch
  /\ UNCHANGED <<cached, age, provider>>

Answer ==
  /\ fetch.at = "asking"
  /\ reach = "up"
  /\ fetch' = [fetch EXCEPT !.at = "answered", !.set = published]
  /\ UNCHANGED <<cached, age, waiting, provider>>

(* A client error is not asked again; anything else is, up to Attempts.         *)
AttemptFails ==
  /\ fetch.at = "asking"
  /\ reach # "up"
  /\ IF reach = "refusing" \/ fetch.attempt = Attempts
     THEN fetch' = Idle /\ waiting' = {}
     ELSE fetch' = [fetch EXCEPT !.attempt = @ + 1] /\ UNCHANGED waiting
  /\ UNCHANGED <<cached, age, provider>>

(* (Slip: the set is merged into the cached one.)                               *)
Merged(set) == cached \cup set

Replaced(set) == set

(* A set without a usable key is refused: the cache stays, and stays as stale.  *)
Install ==
  /\ fetch.at = "answered"
  /\ IF fetch.set = {} THEN UNCHANGED <<cached, age>> ELSE cached' = Replaced(fetch.set) /\ age' = 0
  /\ fetch' = Idle
  /\ waiting' = {}
  /\ UNCHANGED provider

Tick ==
  /\ age <= TtlAge
  /\ age' = age + 1
  /\ UNCHANGED <<cached, fetch, waiting, provider>>

(* The provider publishes a key, or retires one; none need be a P-256 key.      *)
Rotate ==
  /\ rotations < MaxRotations
  /\ \E set \in SUBSET Kids : set # published /\ published' = set
  /\ rotations' = rotations + 1
  /\ UNCHANGED <<reach, outages, cached, age, fetch, waiting>>

Outage ==
  /\ outages < MaxOutages
  /\ \E to \in {"up", "down", "refusing"} : to # reach /\ reach' = to
  /\ outages' = outages + 1
  /\ UNCHANGED <<published, rotations, cached, age, fetch, waiting>>

Next ==
  \/ \E kid \in Kids : Verify(kid)
  \/ Answer \/ AttemptFails \/ Install \/ Tick \/ Rotate \/ Outage

(* People keep signing in, a fetch ends (it has a timeout), and time passes.    *)
Fairness ==
  /\ WF_vars(\E kid \in Kids : Verify(kid))
  /\ WF_vars(Answer) /\ WF_vars(AttemptFails) /\ WF_vars(Install) /\ WF_vars(Tick)

Spec == Init /\ [][Next]_vars /\ Fairness

(* Once the provider stays reachable and has a usable key (its keys change      *)
(* finitely often here), the cache becomes exactly what is published: a         *)
(* rotation is picked up and a retired key stops being honoured, whatever       *)
(* refreshes failed, answered late or brought nothing of use before (#refresh's *)
(* wholesale replacement).                                                      *)
CacheConverges == <>[](reach = "up" /\ published # {}) => <>[](cached = published)
===============================================================================
