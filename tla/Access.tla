-------------------------------- MODULE Access --------------------------------
(* Who may act on the backend, for whom, and where that authority comes from:   *)
(* tenants and their members, the credentials minted for them (API keys and     *)
(* session tokens), the policies keys are pinned to, and the administrative     *)
(* calls that create, pin, revoke and delete them.  A credential is the record  *)
(* the guard resolves it to; hashing and signing are taken to be sound.         *)
EXTENDS Integers, FiniteSets

CONSTANTS
  Customers,      \* the tenants sign-up may create
  DefaultTenant,  \* the "default" tenant every deployment starts with
  Subjects,       \* the people the identity provider knows
  Bootstrap,      \* the key seeded from BOOTSTRAP_API_KEY
  KeyIds,         \* the other keys
  RoleSets,       \* the roles a request may ask a key to have
  Policies,       \* policy ids
  Default,        \* DEFAULT_POLICY_ID, the policy sign-up provisions
  Ttl,            \* ttlSeconds of a session
  AccessUntil,    \* bound on the clock
  MaxSessions     \* bound on the sessions alive together

VARIABLES
  status,       \* tenants: each one's status, "none" while it has no row
  members,      \* tenant_members: [subject, tenant, role]
  policies,     \* policies: <<tenant, id>>
  keys,         \* api_keys, by id
  held,         \* the keys whose secret somebody was given
  audited,      \* the keys whose creation the audit log records
  sessions,     \* the session tokens that have been signed and may be presented
  minting,      \* createKey calls between the insert and the audit entry
  signups,      \* signUp calls between the tenant's commit and its policy
  accessNow

accessVars == <<status, members, policies, keys, held, audited, sessions, minting, signups, accessNow>>

ASSUME AccessAssumption == Ttl \in Nat /\ AccessUntil \in Nat

Tenants == Customers \cup {DefaultTenant}
Never == AccessUntil + Ttl + 1
NoPin == "none"

TenantAdminGrants == {"policy:read", "policy:write", "chain:read", "key:read", "key:write",
                      "metrics:read", "funding:write"}

Grants ==
  [sponsor      |-> {"sponsor:create"},
   viewer       |-> {"policy:read", "chain:read", "key:read", "metrics:read"},
   admin        |-> TenantAdminGrants \cup {"sponsor:create", "chain:write"},
   tenant_admin |-> TenantAdminGrants,
   platform     |-> TenantAdminGrants \cup {"sponsor:create", "chain:write", "platform:read",
                                            "billing:write"}]

Delegatable == {"sponsor:create"}

PermissionsFor(roles) == UNION {Grants[role] : role \in roles}

(* The role a membership gives a session.                                       *)
RolesFor(role) == IF role = "member" THEN {"viewer"} ELSE {"tenant_admin"}

NoKey == [tenant |-> DefaultTenant, roles |-> {}, policy |-> NoPin, enabled |-> FALSE, expires |-> 0]

-------------------------------------------------------------------------------
(* What the guard makes of a credential.                                        *)

Principal(tenant, roles, policy) == [tenant |-> tenant, roles |-> roles, policy |-> policy]

(* authenticate: a key that exists, is enabled and has not expired.             *)
KeyPrincipals ==
  {Principal(keys[k].tenant, keys[k].roles, keys[k].policy) :
     k \in {h \in held : keys[h].enabled /\ keys[h].expires > accessNow}}

(* verify: a session that has not expired.  Nothing else is looked up.          *)
SessionPrincipals ==
  {Principal(s.tenant, s.roles, s.policy) : s \in {x \in sessions : x.exp > accessNow}}

Callers == KeyPrincipals \cup SessionPrincipals

May(p, permission) == permission \in PermissionsFor(p.roles)

Sign(p) == [tenant |-> p.tenant, roles |-> p.roles, policy |-> p.policy, exp |-> accessNow + Ttl]

Remember(session) ==
  /\ sessions' = {s \in sessions : s.exp > accessNow} \cup {session}
  /\ Cardinality(sessions') <= MaxSessions

-------------------------------------------------------------------------------
AccessInit ==
  /\ status = [t \in Tenants |-> IF t = DefaultTenant THEN "active" ELSE "none"]
  /\ members = {}
  /\ policies = {<<DefaultTenant, Default>>}
  /\ keys = [k \in KeyIds \cup {Bootstrap} |->
               IF k = Bootstrap
               THEN [NoKey EXCEPT !.roles = {"admin"}, !.enabled = TRUE, !.expires = Never]
               ELSE NoKey]
  /\ held = {Bootstrap}
  /\ audited = {}
  /\ sessions = {}
  /\ minting = {}
  /\ signups = {}
  /\ accessNow = 0

-------------------------------------------------------------------------------
(* signUp: the tenant and its owner are one transaction, the starter policy     *)
(* another, and the session comes last.                                         *)

CreateWithOwner(s, t) ==
  /\ t \in Customers
  /\ status[t] = "none"
  /\ status' = [status EXCEPT ![t] = "active"]
  /\ members' = members \cup {[subject |-> s, tenant |-> t, role |-> "owner"]}
  /\ signups' = signups \cup {<<s, t>>}
  /\ UNCHANGED <<policies, keys, held, audited, sessions, minting, accessNow>>

ProvisionPolicy(s, t) ==
  /\ <<s, t>> \in signups
  /\ signups' = signups \ {<<s, t>>}
  /\ policies' = policies \cup {<<t, Default>>}
  /\ Remember(Sign(Principal(t, RolesFor("owner"), NoPin)))
  /\ UNCHANGED <<status, members, keys, held, audited, minting, accessNow>>

(* The upsert fails, or the replica dies before it: the tenant's row survives.  *)
SignUpFails(s, t) ==
  /\ <<s, t>> \in signups
  /\ signups' = signups \ {<<s, t>>}
  /\ UNCHANGED <<status, members, policies, keys, held, audited, sessions, minting, accessNow>>

(* issue: the requested membership, or the only one there is.                   *)
Chosen(s, requested) ==
  LET own == {m \in members : m.subject = s}
  IN  IF requested = "any"
      THEN IF Cardinality(own) = 1 THEN own ELSE {}
      ELSE {m \in own : m.tenant = requested}

Issue(s, requested) ==
  \E m \in Chosen(s, requested) :
    /\ status[m.tenant] # "suspended"
    /\ Remember(Sign(Principal(m.tenant, RolesFor(m.role), NoPin)))
    /\ UNCHANGED <<status, members, policies, keys, held, audited, minting, signups, accessNow>>

(* POST admin/auth/token: the caller's own roles and pin, for one more lifetime.*)
IssueToken(p) ==
  /\ Remember(Sign(p))
  /\ UNCHANGED <<status, members, policies, keys, held, audited, minting, signups, accessNow>>

-------------------------------------------------------------------------------
(* Keys.                                                                        *)

(* (Slip: holding some of what is asked for is enough.)                         *)
EscalationsUnlessSome(p, roles) ==
  IF PermissionsFor(roles) \cap PermissionsFor(p.roles) # {} THEN {} ELSE PermissionsFor(roles)

Escalations(p, roles) ==
  (PermissionsFor(roles) \ PermissionsFor(p.roles)) \ Delegatable

(* The composite foreign key: a pin names a policy of the same tenant.          *)
PinExists(tenant, policy) == policy = NoPin \/ <<tenant, policy>> \in policies

InsertKey(p, k, roles, policy, expires) ==
  /\ May(p, "key:write")
  /\ Escalations(p, roles) = {}
  /\ keys[k] = NoKey
  /\ PinExists(p.tenant, policy)
  /\ keys' = [keys EXCEPT ![k] = [tenant |-> p.tenant, roles |-> roles, policy |-> policy,
                                  enabled |-> TRUE, expires |-> expires]]
  /\ minting' = minting \cup {k}
  /\ UNCHANGED <<status, members, policies, held, audited, sessions, signups, accessNow>>

Answered(k) == <<held \cup {k}, audited \cup {k}>>

(* The audit entry is written, then the secret is answered.                     *)
AuditKey(k) ==
  /\ k \in minting
  /\ minting' = minting \ {k}
  /\ held' = Answered(k)[1]
  /\ audited' = Answered(k)[2]
  /\ UNCHANGED <<status, members, policies, keys, sessions, signups, accessNow>>

(* The entry fails, or the replica dies first: the row stays, its secret is     *)
(* never known.                                                                 *)
MintFails(k) ==
  /\ k \in minting
  /\ minting' = minting \ {k}
  /\ UNCHANGED <<status, members, policies, keys, held, audited, sessions, signups, accessNow>>

Revoked(key) == [key EXCEPT !.enabled = FALSE]

RevokeKey(p, k) ==
  /\ May(p, "key:write")
  /\ keys[k].enabled
  /\ keys[k].tenant = p.tenant
  /\ keys' = [keys EXCEPT ![k] = Revoked(@)]
  /\ UNCHANGED <<status, members, policies, held, audited, sessions, minting, signups, accessNow>>

-------------------------------------------------------------------------------
(* Policies.                                                                    *)

UpsertPolicy(p, id) ==
  /\ May(p, "policy:write")
  /\ policies' = policies \cup {<<p.tenant, id>>}
  /\ UNCHANGED <<status, members, keys, held, audited, sessions, minting, signups, accessNow>>

(* ON DELETE RESTRICT from api_keys, revoked rows included.                     *)
DeletePolicy(p, id) ==
  /\ May(p, "policy:write")
  /\ <<p.tenant, id>> \in policies
  /\ ~ \E k \in DOMAIN keys : keys[k].tenant = p.tenant /\ keys[k].policy = id
  /\ policies' = policies \ {<<p.tenant, id>>}
  /\ UNCHANGED <<status, members, keys, held, audited, sessions, minting, signups, accessNow>>

-------------------------------------------------------------------------------
(* What an operator does by hand in the database, and time.                     *)

AddMember(s, t, role) ==
  /\ t \in Customers
  /\ status[t] # "none"
  /\ members' = {m \in members : ~ (m.subject = s /\ m.tenant = t)}
                  \cup {[subject |-> s, tenant |-> t, role |-> role]}
  /\ UNCHANGED <<status, policies, keys, held, audited, sessions, minting, signups, accessNow>>

SetStatus(t, to) ==
  /\ t \in Customers
  /\ status[t] # "none"
  /\ status' = [status EXCEPT ![t] = to]
  /\ UNCHANGED <<members, policies, keys, held, audited, sessions, minting, signups, accessNow>>

AccessTick ==
  /\ accessNow < AccessUntil
  /\ accessNow' = accessNow + 1
  /\ UNCHANGED <<status, members, policies, keys, held, audited, sessions, minting, signups>>

AccessNext ==
  \/ \E s \in Subjects, t \in Customers :
       CreateWithOwner(s, t) \/ ProvisionPolicy(s, t) \/ SignUpFails(s, t)
  \/ \E s \in Subjects, requested \in Customers \cup {"any"} : Issue(s, requested)
  \/ \E p \in Callers : IssueToken(p)
  \/ \E p \in Callers, k \in KeyIds, roles \in RoleSets,
        policy \in Policies \cup {NoPin}, expires \in {AccessUntil, Never} :
       InsertKey(p, k, roles, policy, expires)
  \/ \E k \in KeyIds : AuditKey(k) \/ MintFails(k)
  \/ \E p \in Callers, k \in KeyIds : RevokeKey(p, k)
  \/ \E p \in Callers, id \in Policies : UpsertPolicy(p, id) \/ DeletePolicy(p, id)
  \/ \E s \in Subjects, t \in Customers, role \in {"admin", "member"} : AddMember(s, t, role)
  \/ \E t \in Customers, to \in {"active", "suspended"} : SetStatus(t, to)
  \/ AccessTick

AccessSpec == AccessInit /\ [][AccessNext]_accessVars

-------------------------------------------------------------------------------
(* Delegation is closed: through any sequence of sessions, keys minted by them  *)
(* and sessions of those keys, nobody acting for a customer is permitted more   *)
(* than an owner's session is, sponsoring excepted, which is what an owner may  *)
(* hand on (createKey's escalation rule and DELEGATABLE).                       *)
AuthorityBounded ==
  \A p \in Callers :
    p.tenant # DefaultTenant => PermissionsFor(p.roles) \subseteq TenantAdminGrants \cup Delegatable

(* Every pin resolves: the policy a key or a live session is held to exists in  *)
(* its own tenant for as long as the credential does, so SponsorService never   *)
(* falls back to a policy the caller names (the restricting foreign key, and    *)
(* revocation that keeps the row).  And every secret in somebody's hands is     *)
(* named by an audit entry.                                                     *)
CredentialsAccountedFor ==
  /\ \A p \in Callers : p.policy = NoPin \/ <<p.tenant, p.policy>> \in policies
  /\ held \ {Bootstrap} \subseteq audited

(* No credential does more than its maker could, or outlives what it rests on.  *)
CredentialsBounded == AuthorityBounded /\ CredentialsAccountedFor
===============================================================================
