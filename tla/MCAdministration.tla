------------------------- MODULE MCAdministration -------------------------
(***************************************************************************)
(* The backend beside the sponsorship flow: small instances of access, the  *)
(* admin API, the policy rules, the throttles, start-up, notices, the page  *)
(* that mints keys, and what is observed.  `part` says whose steps a        *)
(* behaviour takes; the others keep an initial state.  The values c1 and    *)
(* c2, and k1 and k2, are interchangeable wherever a component has two of   *)
(* something.                                                               *)
(***************************************************************************)
EXTENDS Access, Throttle, AdminApi, Boot, Notices, PolicyRules, Tracing, Telemetry, KeysPage

CONSTANTS c1, c2, k1, k2

VARIABLE part

----------------------------------------------------------------------------
\* Three releases, one of which edited a migration, and what else stops a start.
Sound(release) ==
    [release |-> release, parses |-> TRUE, chains |-> TRUE, signers |-> 1, pager |-> "routed",
     traces |-> "on", onBoot |-> TRUE, seedsPolicy |-> TRUE]
MCEnvironments ==
    {Sound(release) : release \in {<<"a", "b">>, <<"a", "b", "c">>, <<"a", "x">>}}
    \cup {[Sound(<<"a", "b">>) EXCEPT !.signers = 2], [Sound(<<"a", "b">>) EXCEPT !.pager = "unrouted"],
          [Sound(<<"a", "b">>) EXCEPT !.chains = FALSE],
          [Sound(<<"a", "b", "c">>) EXCEPT !.onBoot = FALSE, !.seedsPolicy = FALSE]}

MCBounds == <<1, 2>>

\* AdminApi: two transfers, one that pays for each tenant.
MCPaidFor == "a" :> "mine" @@ "b" :> "other"

----------------------------------------------------------------------------
\* Policies as operators write them: lists, quotas that share a name, a row of a
\* newer version, a mistyped address, a reserved name.
Targets(as) == [type |-> "target-allowlist", addresses |-> as]
Methods(bare) == [type |-> "method-allowlist", selectors |-> {"approve"}, allowBare |-> bare]
NoValue == [type |-> "no-value-transfer"]
Owns(chains) == [type |-> "token-ownership", chains |-> chains, minBalance |-> 1]
Limits(name, subject, missing) ==
    [type |-> "quota", name |-> name, subject |-> subject, limit |-> 1, onMissing |-> missing]
MCPolicies ==
    {<<Targets({"a"}), Methods(FALSE)>>,
     <<Owns({1}), Methods(TRUE), NoValue>>,
     <<Limits(<<"daily">>, "global", "deny"), [type |-> "sender-blocklist", addresses |-> {"b"}]>>,
     <<Limits(<<"acme", "/", "daily">>, "ip", "skip"), Limits(<<"daily">>, "target", "deny")>>,
     <<[type |-> "sender-allowlist", addresses |-> {"a"}], [type |-> "geo-fence"]>>,
     <<Targets({"a", "A"})>>,
     <<Limits(<<"platform:", "operations-per-day">>, "wallet", "deny")>>}

\* Operations of an account that executes, batches, or does something else.
Does(target, value, selector) == [target |-> target, value |-> value, selector |-> selector]
Single(c) == [shape |-> "execute", calls |-> <<c>>, ragged |-> FALSE]
Batch(cs, ragged) == [shape |-> "batch", calls |-> cs, ragged |-> ragged]
Sends(chain, sender, data, ip) == [chain |-> chain, sender |-> sender, callData |-> data, ip |-> ip]

MCPlans == "basic" :> [chains |-> {1}, operations |-> 2] @@ "pro" :> [chains |-> {1, 2}, operations |-> 9]
MCOperations ==
    {Sends(1, "a", Single(Does("a", 0, "approve")), "ip"),
     Sends(1, "a", Single(Does("b", 1, "0x")), "nobody"),
     Sends(1, "b", Batch(<<Does("a", 0, "approve"), Does("b", 0, "approve")>>, FALSE), "ip"),
     Sends(1, "a", Batch(<<Does("a", 0, "approve")>>, TRUE), "ip"),
     Sends(1, "a", [shape |-> "other"], "ip"),
     Sends(2, "a", Single(Does("a", 0, "0x")), "ip")}
MCHolders == {<<1, "a">>}

----------------------------------------------------------------------------
Symmetry == Permutations({c1, c2}) \cup Permutations({k1, k2})

Parts == {"access", "boot", "throttle", "telemetry", "traces", "admin", "notices", "rules", "key page"}

AdministrationInit ==
    /\ part \in Parts
    /\ AccessInit /\ BootInit /\ ThrottleInit /\ TelemetryInit
    /\ TracingInit /\ ApiInit /\ NoticesInit /\ KeyPageInit
    /\ part # "telemetry" => series = "funding"
    /\ part # "notices" => grace = 1
    /\ IF part = "rules" THEN RulesInit
       ELSE /\ ruleRows = <<>> /\ planIds = <<>> /\ rulesOf = <<>> /\ decidedFor = "default" /\ operation = <<>>
            /\ todo = {} /\ reserved = <<>> /\ decision = "none" /\ usage = <<>> /\ approved = <<>>

AdministrationNext ==
    /\ UNCHANGED part
    /\ IF part = "access" THEN AccessNext ELSE UNCHANGED accessVars
    /\ IF part = "boot" THEN BootNext ELSE UNCHANGED bootVars
    /\ IF part = "throttle" THEN ThrottleNext ELSE UNCHANGED throttleVars
    /\ IF part = "telemetry" THEN TelemetryNext ELSE UNCHANGED telemetryVars
    /\ IF part = "traces" THEN TracingNext ELSE UNCHANGED traceVars
    /\ IF part = "admin" THEN ApiNext ELSE UNCHANGED db
    /\ IF part = "notices" THEN NoticesNext ELSE UNCHANGED noticeVars
    /\ IF part = "rules" THEN RulesNext ELSE UNCHANGED ruleVars
    /\ IF part = "key page" THEN KeyPageNext ELSE UNCHANGED keyPageVars

AdministrationSpec ==
    AdministrationInit
    /\ [][AdministrationNext]_<<part, accessVars, bootVars, throttleVars, telemetryVars, traceVars, db,
                               noticeVars, ruleVars, keyPageVars>>

\* Within one part nothing else changes, so that a state is known by the part's own variables.
AtWork ==
    CASE part = "access" -> accessVars [] part = "boot" -> bootVars [] part = "throttle" -> throttleVars
      [] part = "telemetry" -> telemetryVars [] part = "traces" -> traceVars [] part = "admin" -> db
      [] part = "notices" -> noticeVars [] part = "rules" -> ruleVars [] part = "key page" -> keyPageVars
View == <<part, AtWork>>

----------------------------------------------------------------------------
\* Telemetry: what the page says of sponsorships, funding and latency is so.
\* Tracing: every span that ended is exported, queued or lost, once.
\* KeysPage: a key whose secret is shown is in the table below it.
\* PolicyRules: what a quota has counted against an operation is its own tenant's.
CountedAndShownIsSo ==
    /\ part = "telemetry" => PageTellsTheTruth
    /\ part = "traces" => SpansAccountedFor
    /\ part = "key page" => MintedIsListed
    /\ part = "rules" => QuotaCountsItsOwn
=============================================================================
