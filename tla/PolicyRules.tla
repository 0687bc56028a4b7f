---------------------------- MODULE PolicyRules ----------------------------
(***************************************************************************)
(* What a policy says: rule rows that PolicyFactory builds or refuses, the *)
(* ceilings of the tenant's plan, the decoding of an operation's calldata, *)
(* and PolicyEngine, which evaluates the rules in the order of their cost  *)
(* until one denies.  Operations come one at a time: what interleaved      *)
(* requests do to a counter is the subject of Sponsorship.                 *)
(*                                                                         *)
(* A name or a key is the sequence of its parts, so that concatenation is  *)
(* what it is in the code.                                                 *)
(***************************************************************************)
EXTENDS Naturals, Sequences, TLC

CONSTANTS
    DefaultTenantId, \* DEFAULT_TENANT_ID, whose quotas keep the unscoped key
    Tenant,          \* the tenants, the default one among them
    Address,         \* senders and targets
    Mistyped,        \* an address whose checksum fails
    Selector,        \* selectors of inner calls
    Bare,            \* the selector of a call without data
    Chain,
    StoredPolicies,  \* sequences of rule rows, see Valid
    Plans,           \* PLANS: plan id -> [chains, operations]
    DefaultPlan,     \* its default plan
    PlanIds,         \* what subscriptions name, also plans that are gone
    Operations,      \* requests: [chain, sender, callData, ip], see CallData
    Holders,         \* who holds the token of which chain: pairs <<chain, address>>
    MaxOperations    \* bound: operations per behaviour

VARIABLES
    ruleRows,   \* the policy of each tenant, as stored
    planIds,    \* the plan each tenant's subscription names
    rulesOf,    \* the rules of each tenant, as loaded, or NotLoaded
    decidedFor, \* whose operation is being decided
    operation,  \* the operation
    todo,       \* the positions of the rules still to be evaluated
    reserved,   \* the quotas it has taken from
    decision,   \* "none", "pending", "approved" or the code of the denial
    usage,      \* the counters, by key
    approved    \* history: the operations approved, with their tenants

ruleVars == <<ruleRows, planIds, rulesOf, decidedFor, operation, todo, reserved, decision,
              usage, approved>>

NotLoaded == <<[type |-> "not loaded"]>>
NoOne == "nobody"   \* no client IP
-----------------------------------------------------------------------------
(* Rows and the factory *)

RuleTypes == {"chain-enabled", "sender-allowlist", "sender-blocklist", "target-allowlist",
              "method-allowlist", "no-value-transfer", "token-ownership", "quota"}
Reserved == "platform:"

\* RULE_SCHEMAS: a row that is not understood is refused, never skipped.
Valid(row) ==
    /\ row.type \in RuleTypes
    /\ row.type \in {"sender-allowlist", "sender-blocklist", "target-allowlist"} =>
         row.addresses # {} /\ Mistyped \notin row.addresses
    /\ row.type = "token-ownership" => row.chains # {} /\ row.minBalance > 0
    /\ row.type = "quota" => row.name # <<>> /\ Head(row.name) # Reserved

\* PolicyFactory.build: the default tenant's counters have no namespace.
Built(t, row) ==
    IF row.type = "quota" THEN row @@ [namespace |-> IF t = DefaultTenantId THEN <<>> ELSE <<t>>]
    ELSE row

PlanFor(t) == IF planIds[t] \in DOMAIN Plans THEN Plans[planIds[t]] ELSE Plans[DefaultPlan]

\* The ceilings are counted in the tenant's namespace, also the default one's.
CeilingRules(t) ==
    <<[type |-> "chain-enabled", chains |-> PlanFor(t).chains],
      [type |-> "quota", name |-> <<Reserved, "operations-per-day">>, subject |-> "global",
       limit |-> PlanFor(t).operations, onMissing |-> "deny", namespace |-> <<t>>]>>

\* RULE_COST_ORDER: pure, store, network.
Cost(rule) == CASE rule.type = "quota" -> 1 [] rule.type = "token-ownership" -> 2 [] OTHER -> 0

\* `orderRules`: by cost, and stable among equals.
Turn ==
    CHOOSE i \in todo : \A j \in todo :
        \/ Cost(rulesOf[decidedFor][i]) < Cost(rulesOf[decidedFor][j])
        \/ Cost(rulesOf[decidedFor][i]) = Cost(rulesOf[decidedFor][j]) /\ i =< j
NextRule == rulesOf[decidedFor][Turn]
-----------------------------------------------------------------------------
(* Calldata *)

InnerCall == [target : Address, value : {0, 1}, selector : Selector \cup {Bare}]

\* The shapes of calldata: SimpleAccount's two, `ragged` if the arrays of a
\* batch differ in length; another account's; less than a selector.
CallData == [shape : {"execute", "batch"}, calls : Seq(InnerCall), ragged : BOOLEAN]
              \cup [shape : {"other", "short"}]
Undefined == "undefined"

ASSUME RulesAssumption ==
    /\ \A op \in Operations : op.callData \in CallData
    /\ \A p \in StoredPolicies : Len(p) \in Nat /\ DOMAIN p = 1..Len(p)

\* (Slip: what is not understood calls nothing.)
DecodeHarmless(data) ==
    IF data.shape \in {"execute", "batch"} THEN data.calls ELSE <<>>
DecodeCallTargets(data) ==
    IF data.shape \in {"execute", "batch"} /\ ~data.ragged THEN data.calls ELSE Undefined

-----------------------------------------------------------------------------
(* The rules *)

\* `#keyFor`.
Subject(rule, op) ==
    LET calls == DecodeCallTargets(op.callData)
    IN  CASE rule.subject = "wallet" -> <<op.chain, op.sender>>
          [] rule.subject = "chain" -> <<op.chain>>
          [] rule.subject = "global" -> <<>>
          [] rule.subject = "ip" -> IF op.ip = NoOne THEN Undefined ELSE <<op.ip>>
          [] rule.subject = "target" ->
               IF calls = Undefined THEN Undefined
               ELSE IF Len(calls) # 1 THEN Undefined
               ELSE <<op.chain, calls[1].target>>
KeyFor(rule, op) ==
    (IF rule.namespace = <<>> THEN rule.name ELSE rule.namespace \o <<"/">> \o rule.name)
      \o Subject(rule, op)

\* A rule that looks at the calls denies if it cannot see them.
Refusal(rule, op, calls) ==
    CASE rule.type = "chain-enabled" /\ op.chain \notin rule.chains -> "CHAIN_DISABLED"
      [] rule.type = "sender-allowlist" /\ op.sender \notin rule.addresses -> "SENDER_NOT_ALLOWED"
      [] rule.type = "sender-blocklist" /\ op.sender \in rule.addresses -> "SENDER_BLOCKED"
      [] rule.type \in {"target-allowlist", "method-allowlist", "no-value-transfer"}
           /\ calls = Undefined -> "CALLDATA_UNDECODABLE"
      [] rule.type = "target-allowlist" /\ calls # Undefined
           /\ \E i \in DOMAIN calls : calls[i].target \notin rule.addresses -> "TARGET_NOT_ALLOWED"
      [] rule.type = "method-allowlist" /\ calls # Undefined
           /\ \E i \in DOMAIN calls :
                IF calls[i].selector = Bare THEN ~rule.allowBare
                ELSE calls[i].selector \notin rule.selectors -> "METHOD_NOT_ALLOWED"
      [] rule.type = "no-value-transfer" /\ calls # Undefined
           /\ \E i \in DOMAIN calls : calls[i].value > 0 -> "VALUE_NOT_ALLOWED"
      [] rule.type = "token-ownership"
           /\ (op.chain \notin rule.chains \/ <<op.chain, op.sender>> \notin Holders) ->
                "TOKEN_BALANCE_INSUFFICIENT"
      [] OTHER -> "none"

Usage(key) == IF key \in DOMAIN usage THEN usage[key] ELSE 0
-----------------------------------------------------------------------------
(* Loading and evaluating *)

RulesInit ==
    /\ ruleRows \in [Tenant -> StoredPolicies]
    /\ planIds \in [Tenant -> PlanIds]
    /\ rulesOf = [t \in Tenant |-> NotLoaded]
    /\ decidedFor = DefaultTenantId /\ operation = <<>>
    /\ todo = {} /\ reserved = <<>> /\ decision = "none"
    /\ usage = <<>> /\ approved = <<>>

\* PolicyRepository.load with its ceilings: one row that does not build aborts
\* the load, and what was served before stays.
Loaded ==
    /\ \A t \in Tenant : \A i \in DOMAIN ruleRows[t] : Valid(ruleRows[t][i])
    /\ rulesOf' = [t \in Tenant |->
                    [i \in DOMAIN ruleRows[t] |-> Built(t, ruleRows[t][i])] \o CeilingRules(t)]

Load ==
    /\ \A t \in Tenant : rulesOf[t] = NotLoaded
    /\ Loaded
    /\ UNCHANGED <<ruleRows, planIds, decidedFor, operation, todo, reserved, decision, usage, approved>>

\* PolicyEngine.evaluate begins.
Evaluate(t, op) ==
    /\ rulesOf[t] # NotLoaded
    /\ decision # "pending" /\ Len(approved) < MaxOperations
    /\ decidedFor' = t /\ operation' = op
    /\ todo' = DOMAIN rulesOf[t]
    /\ reserved' = <<>>
    /\ decision' = "pending"
    /\ UNCHANGED <<ruleRows, planIds, rulesOf, usage, approved>>

Passes == todo' = todo \ {Turn} /\ UNCHANGED decision

\* The first denial wins, and `#releaseAll` gives back what was taken.
Denied(code) ==
    /\ decision' = code
    /\ usage' = [k \in DOMAIN usage |->
                      usage[k] - Len(SelectSeq(reserved, LAMBDA r : KeyFor(r, operation) = k))]
    /\ todo' = {}
    /\ UNCHANGED reserved

RulePending(type) ==
    /\ decision = "pending" /\ todo # {}
    /\ type = (IF NextRule.type = "quota" THEN "quota" ELSE "other")
    /\ UNCHANGED <<ruleRows, planIds, rulesOf, decidedFor, operation, approved>>

CheckRule ==
    /\ RulePending("other")
    /\ LET code == Refusal(NextRule, operation, DecodeCallTargets(operation.callData))
       IN  IF code = "none" THEN Passes /\ UNCHANGED <<reserved, usage>> ELSE Denied(code)

\* QuotaRule.evaluate, whose store counts and decides in one step.  A rule that
\* does not apply counts as reserved too, and has nothing to release.
ReserveQuota ==
    LET rule == NextRule
        key == KeyFor(rule, operation)
    IN  /\ RulePending("quota")
        /\ IF Subject(rule, operation) = Undefined
           THEN IF rule.onMissing = "skip" THEN Passes /\ UNCHANGED <<reserved, usage>>
                ELSE Denied("QUOTA_EXCEEDED")
           ELSE IF Usage(key) < rule.limit
           THEN /\ Passes
                /\ usage' = [k \in DOMAIN usage \cup {key} |->
                                  IF k = key THEN Usage(k) + 1 ELSE usage[k]]
                /\ reserved' = Append(reserved, rule)
           ELSE Denied("QUOTA_EXCEEDED")

\* A rule that throws denies: the store or the RPC does not answer.
RuleThrows ==
    /\ decision = "pending" /\ todo # {} /\ Cost(NextRule) > 0
    /\ Denied("RULE_ERROR")
    /\ UNCHANGED <<ruleRows, planIds, rulesOf, decidedFor, operation, approved>>

Approve ==
    /\ decision = "pending" /\ todo = {}
    /\ decision' = "approved"
    /\ approved' = Append(approved, [tenant |-> decidedFor, op |-> operation, rules |-> reserved])
    /\ UNCHANGED <<ruleRows, planIds, rulesOf, decidedFor, operation, todo, reserved, usage>>

RulesNext ==
    \/ Load
    \/ \E t \in Tenant, op \in Operations : Evaluate(t, op)
    \/ CheckRule \/ ReserveQuota \/ RuleThrows \/ Approve

RulesSpec == RulesInit /\ [][RulesNext]_ruleVars
-----------------------------------------------------------------------------
(* Properties *)

\* Calldata that names its calls in the interface the decoder shares with
\* SimpleAccount: an account with that interface makes just these.
Legible(data) == data.shape \in {"execute", "batch"} /\ ~data.ragged

AboutCalls == {"target-allowlist", "method-allowlist", "no-value-transfer"}

\* What a stored row asks of an operation that makes these calls.
Permits(row, op, calls) ==
    CASE row.type = "chain-enabled" -> op.chain \in row.chains
      [] row.type = "sender-allowlist" -> op.sender \in row.addresses
      [] row.type = "sender-blocklist" -> op.sender \notin row.addresses
      [] row.type = "target-allowlist" -> \A i \in DOMAIN calls : calls[i].target \in row.addresses
      [] row.type = "method-allowlist" ->
           \A i \in DOMAIN calls : calls[i].selector \in
             row.selectors \cup (IF row.allowBare THEN {Bare} ELSE {})
      [] row.type = "no-value-transfer" -> \A i \in DOMAIN calls : calls[i].value = 0
      [] row.type = "token-ownership" ->
           op.chain \in row.chains /\ <<op.chain, op.sender>> \in Holders
      [] row.type = "quota" -> TRUE
      [] OTHER -> FALSE

\* An approved operation is one that every stored row of its tenant and the plan
\* permit: its chain, its sender and the sender's tokens, and, where a row is
\* about calls, every call its calldata names; under such a row calldata that
\* names none of its calls is never approved, nor is anything while a row cannot
\* be built or read (engine.ts, callData.ts, policyFactory.ts).  The calls are
\* those of an account with SimpleAccount's interface: no rule looks at the code
\* of the sender or of the factory that deploys it, and what a contract that
\* ignores its calldata does instead is beyond them.
ApprovedIsPermitted ==
    decision = "approved" =>
        /\ operation.chain \in PlanFor(decidedFor).chains
        /\ \A i \in DOMAIN ruleRows[decidedFor] :
             LET row == ruleRows[decidedFor][i]
                 data == operation.callData
             IN  IF row.type \in AboutCalls
                 THEN Legible(data) /\ Permits(row, operation, data.calls)
                 ELSE Permits(row, operation, <<>>)

HasSlash(rule) == rule.namespace = <<>> /\ \E i \in DOMAIN rule.name : rule.name[i] = "/"
Counted(rule, op) ==
    Len(SelectSeq(approved, LAMBDA a :
          /\ a.tenant = decidedFor
          /\ \E i \in DOMAIN a.rules :
               /\ a.rules[i].name = rule.name
               /\ Subject(a.rules[i], a.op) = Subject(rule, op)))

\* A quota refuses an operation, and a plan's ceiling too, only for what its own
\* tenant consumed under it; nobody exhausts another tenant's quota by its name
\* (quotaRules.ts:66-74).  Left out are unscoped names that contain the
\* separator, which only the default tenant can write.
QuotaCountsItsOwn ==
    decision = "QUOTA_EXCEEDED" =>
        \/ \E t \in Tenant : \E i \in DOMAIN rulesOf[t] :
             rulesOf[t][i].type = "quota" /\ HasSlash(rulesOf[t][i])
        \/ \E i \in DOMAIN rulesOf[decidedFor] :
             LET rule == rulesOf[decidedFor][i]
             IN  /\ rule.type = "quota"
                 /\ \/ Subject(rule, operation) = Undefined /\ rule.onMissing = "deny"
                    \/ Subject(rule, operation) # Undefined
                         /\ Counted(rule, operation) >= rule.limit
=============================================================================
