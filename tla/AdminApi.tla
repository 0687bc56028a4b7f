------------------------------ MODULE AdminApi ------------------------------
(***************************************************************************)
(* What the answers of the administrative API tell a customer: routes and  *)
(* the permissions they ask for (admin.controller.ts), the scope a caller  *)
(* reads and the tenant it writes (actorContext, db/scope.ts), the rows    *)
(* each call returns or changes, and the mapping of failures to answers    *)
(* (domainError.filter.ts).                                                *)
(*                                                                         *)
(* Isolation says more than that a foreign row is never returned: statuses,*)
(* counts and error texts must not depend on what other tenants do.  So    *)
(* the model runs two backends side by side.  One tenant makes the same    *)
(* calls on both, the others only on the first, and the two must answer    *)
(* that tenant alike.                                                      *)
(*                                                                         *)
(* A call is one step here; its steps and their interleavings are in       *)
(* Access and PolicyDistribution.  Left out: payments that the operator    *)
(* records, which reach across tenants by intent, funding (Funding), what  *)
(* makes a transfer good (PaymentClaims), serial row ids, and what a rule  *)
(* says.                                                                   *)
(***************************************************************************)
EXTENDS Naturals, FiniteSets

CONSTANTS
    Mine,       \* the tenant whose answers are compared
    Others,     \* other tenants
    PolicyIds,  \* ids are per tenant: all may use the same
    FreshIds,   \* ids of keys, random and global
    PaidFor,    \* PaidFor[x]: the tenant whose reference the transfer x carries
    Contents    \* what a policy may say, InvalidRule included

VARIABLE
    db  \* db[w]: the database of backend w

\* The compared tenant is not among the others.
ASSUME AdminApiAssumption == Mine \notin Others

Parties == {Mine} \cup Others
Backends == {1, 2}
InvalidRule == "invalid"
Unpinned == "none"

(***************************************************************************)
(* Callers and answers                                                     *)
(***************************************************************************)

TenantAdmin == {"policy:read", "policy:write", "key:read", "key:write", "metrics:read", "funding:write"}
Viewer == {"policy:read", "key:read", "metrics:read"}
Sponsor == {"sponsor:create"}
Platform == TenantAdmin \cup {"sponsor:create", "platform:read"}

Caller(t, permissions) == [tenant |-> t, permissions |-> permissions]

\* actorContext: reads widen for the operator, writes never do.
Scope(who) == IF "platform:read" \in who.permissions THEN Parties ELSE {who.tenant}

InScope(rows, who) == {row \in rows : row.tenant \in Scope(who)}

\* The routes, and what @RequirePermissions asks for on each.
RoutePermission ==
    [listPolicies |-> "policy:read", getPolicy |-> "policy:read", upsertPolicy |-> "policy:write",
     deletePolicy |-> "policy:write", reload |-> "policy:write", listKeys |-> "key:read",
     createKey |-> "key:write", revokeKey |-> "key:write", listSponsorships |-> "metrics:read",
     listAudit |-> "metrics:read", getSubscription |-> "key:read", claimPayment |-> "funding:write",
     sponsor |-> "sponsor:create"]

Routes == DOMAIN RoutePermission

\* DomainErrorFilter: the status a failure is answered with.
StatusOf ==
    [FORBIDDEN |-> 403, NOT_FOUND |-> 404, INVALID_POLICY_CONFIG |-> 400, POLICY_IN_USE |-> 409,
     ROLE_ESCALATION |-> 403, NOT_CONFIGURED |-> 400, PAYMENT_NOT_ACCEPTED |-> 422,
     PAYMENT_ALREADY_CREDITED |-> 409, INTERNAL_ERROR |-> 500]

Ok(d, rows) == [db |-> d, status |-> 200, rows |-> rows]
Fails(d, error) == [db |-> d, status |-> StatusOf[error], rows |-> {}]

\* An audit entry belongs to the tenant it was written in; listAudit is asked
\* for the newest.
Audited(d, who, action) == [d EXCEPT !.audit[who.tenant] = {[tenant |-> who.tenant, action |-> action]}]

(***************************************************************************)
(* The routes                                                              *)
(***************************************************************************)

Found(d, who, id) == {p \in InScope(d.policies, who) : p.id = id}

\* Out of scope is reported as not there, never as forbidden.
GetPolicy(d, who, id) ==
    IF Found(d, who, id) = {} THEN Fails(d, "NOT_FOUND") ELSE Ok(d, Found(d, who, id))

\* upsertPolicy: rules are built before anything is written; the key of the
\* row is the pair of tenant and id.
PutPolicy(d, who, id, content) ==
    LET row == [tenant |-> who.tenant, id |-> id, content |-> content]
        rest == {p \in d.policies : ~(p.tenant = who.tenant /\ p.id = id)}
    IN IF content = InvalidRule THEN Fails(d, "INVALID_POLICY_CONFIG")
       ELSE Ok(Audited([d EXCEPT !.policies = rest \cup {row}], who, "policy"), {row})

\* (Slip: the foreign key of a pin holds the id alone.)
PinnedByAnybody(d, who, id) == \E k \in d.keys : k.pin = id

\* The foreign key (tenant_id, policy_id), ON DELETE RESTRICT.
Pinned(d, who, id) == \E k \in d.keys : k.tenant = who.tenant /\ k.pin = id

DropPolicy(d, who, id) ==
    LET rows == {p \in d.policies : p.tenant = who.tenant /\ p.id = id}
    IN CASE rows = {} -> Fails(d, "NOT_FOUND")
         [] rows # {} /\ Pinned(d, who, id) -> Fails(d, "POLICY_IN_USE")
         [] OTHER -> Ok(Audited([d EXCEPT !.policies = @ \ rows], who, "policy"), {})

\* reloadPolicies answers with the size of the set of the whole process.
ReloadPolicies(d, who) ==
    Ok(Audited(d, who, "policy"), {[tenant |-> who.tenant, count |-> Cardinality(d.policies)]})

\* createKey: what the key could do is checked against what the caller may
\* do, and a pin to a policy the tenant does not have is a foreign key
\* violation that nobody maps.
CreateKey(d, who, id, grants, pin) ==
    LET row == [tenant |-> who.tenant, id |-> id, pin |-> pin, enabled |-> TRUE]
        exists == \E p \in d.policies : p.tenant = who.tenant /\ p.id = pin
    IN CASE ~(grants \subseteq who.permissions \cup {"sponsor:create"}) -> Fails(d, "ROLE_ESCALATION")
         [] grants \subseteq who.permissions \cup {"sponsor:create"} /\ pin # Unpinned /\ ~exists ->
              Fails(d, "INTERNAL_ERROR")
         [] OTHER -> Ok(Audited([d EXCEPT !.keys = @ \cup {row}], who, "key"), {row})

\* WHERE id = $1 AND enabled AND the scope.
Revocable(d, who, id) == {k \in d.keys : k.id = id /\ k.enabled /\ k.tenant = who.tenant}

DisableKey(d, who, id) ==
    LET rows == Revocable(d, who, id)
        revoked == {[k EXCEPT !.enabled = FALSE] : k \in rows}
    IN IF rows = {} THEN Fails(d, "NOT_FOUND")
       ELSE Ok(Audited([d EXCEPT !.keys = (@ \ rows) \cup revoked], who, "key"), {})

\* payments of the caller's own tenant, for the operator too.
GetSubscription(d, who) == Ok(d, {p \in d.paid : p.tenant = who.tenant})

Claim(d, who, x) == Ok(Audited([d EXCEPT !.paid = @ \cup {[tenant |-> who.tenant, transfer |-> x]}], who, "claim"), {})

\* claimSubscriptionPayment: the transfer must carry the tenant's reference
\* before the index, unique over all tenants, is asked whether it was used.
ClaimPayment(d, who, x) ==
    CASE PaidFor[x] # who.tenant -> Fails(d, "PAYMENT_NOT_ACCEPTED")
      [] PaidFor[x] = who.tenant /\ (\E p \in d.paid : p.transfer = x) -> Fails(d, "PAYMENT_ALREADY_CREDITED")
      [] OTHER -> Claim(d, who, x)

ListSponsorships(d, who) == Ok(d, InScope(d.sponsored, who))

\* A sponsorship under a policy named by its caller, looked up by the pair.
SponsorUnder(d, who, id) ==
    IF \E p \in d.policies : p.tenant = who.tenant /\ p.id = id
    THEN Ok([d EXCEPT !.sponsored = @ \cup {[tenant |-> who.tenant, policy |-> id]}], {})
    ELSE Fails(d, "NOT_CONFIGURED")

\* The guard, then the handler.
Serve(d, who, call) ==
    LET r == call.route
    IN CASE RoutePermission[r] \notin who.permissions -> Fails(d, "FORBIDDEN")
         [] RoutePermission[r] \in who.permissions ->
              CASE r = "listPolicies" -> Ok(d, InScope(d.policies, who))
                [] r = "getPolicy" -> GetPolicy(d, who, call.id)
                [] r = "upsertPolicy" -> PutPolicy(d, who, call.id, call.content)
                [] r = "deletePolicy" -> DropPolicy(d, who, call.id)
                [] r = "reload" -> ReloadPolicies(d, who)
                [] r = "listKeys" -> Ok(d, InScope(d.keys, who))
                [] r = "createKey" -> CreateKey(d, who, call.key, call.grants, call.pin)
                [] r = "revokeKey" -> DisableKey(d, who, call.key)
                [] r = "listSponsorships" -> ListSponsorships(d, who)
                [] r = "listAudit" -> Ok(d, UNION {d.audit[t] : t \in Scope(who)})
                [] r = "getSubscription" -> GetSubscription(d, who)
                [] r = "claimPayment" -> ClaimPayment(d, who, call.transfer)
                [] r = "sponsor" -> SponsorUnder(d, who, call.id)

(***************************************************************************)
(* Behaviour                                                               *)
(***************************************************************************)

Call(r) ==
    [route : {r},
     id : IF r \in {"getPolicy", "upsertPolicy", "deletePolicy", "sponsor"} THEN PolicyIds ELSE {Unpinned},
     content : IF r = "upsertPolicy" THEN Contents ELSE {Unpinned},
     key : IF r \in {"createKey", "revokeKey"} THEN FreshIds ELSE {Unpinned},
     grants : IF r = "createKey" THEN {Sponsor, Viewer, Platform} ELSE {{}},
     pin : IF r = "createKey" THEN PolicyIds \cup {Unpinned} ELSE {Unpinned},
     transfer : IF r = "claimPayment" THEN DOMAIN PaidFor ELSE {Unpinned}]

\* randomUUID: an id nobody has.
Unused(call) == call.route = "createKey" => \A w \in Backends : \A k \in db[w].keys : k.id # call.key

ApiInit ==
    db = [w \in Backends |->
             [policies |-> {}, keys |-> {}, paid |-> {}, sponsored |-> {}, audit |-> [t \in Parties |-> {}]]]

MyPermissions == {TenantAdmin, Viewer, Sponsor}

\* The tenant calls: both backends serve it.
MineCalls(permissions, call) ==
    /\ Unused(call)
    /\ db' = [w \in Backends |-> Serve(db[w], Caller(Mine, permissions), call).db]

\* Somebody else calls the first.
OthersCall(t, permissions, call) ==
    /\ Unused(call)
    /\ db' = [db EXCEPT ![1] = Serve(db[1], Caller(t, permissions), call).db]

ApiNext ==
    \E r \in Routes : \E call \in Call(r) :
        \/ \E permissions \in MyPermissions : MineCalls(permissions, call)
        \/ \E t \in Others, permissions \in {TenantAdmin, Sponsor, Platform} : OthersCall(t, permissions, call)

ApiSpec == ApiInit /\ [][ApiNext]_db

(***************************************************************************)
(* Properties                                                              *)
(***************************************************************************)

Answer(w, permissions, call) ==
    LET served == Serve(db[w], Caller(Mine, permissions), call) IN <<served.status, served.rows>>

\* Backends that hold the same give the same answers.
AnswersAlike(routes) ==
    db[1] = db[2] \/ \A permissions \in MyPermissions, r \in routes : \A call \in Call(r) :
        Unused(call) => Answer(1, permissions, call) = Answer(2, permissions, call)

\* Nothing a tenant is answered, status, rows or refusal, depends on what
\* other tenants did: their policies of the same name, their keys and the
\* pins that hold them, their payments.  The reload is not among the routes.
AnswersArePrivate == AnswersAlike(Routes \ {"reload"})

\* The same of every route.
AllAnswersArePrivate == AnswersAlike(Routes)
=============================================================================
