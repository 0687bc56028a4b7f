--------------------------------- MODULE SignIn ---------------------------------
(* Signing in to the dashboard: the identity provider says who someone is, the   *)
(* page's effect asks which organisations that is and, when there is one, opens  *)
(* it; with several the customer chooses, with none he creates one.  The session *)
(* is a cookie that the page's own server sets and the page cannot see.          *)
EXTENDS Naturals, FiniteSets

CONSTANTS
  People,
  Tenants,         \* organisations that may ever be
  Founded,         \* members of those that are there before anybody signs in
  Tabs,
  NoOne

ASSUME SignInAssumption ==
  /\ NoOne \notin [person : People, tenant : Tenants]
  /\ "unknown" \notin Tenants

VARIABLES
  who,             \* whom the identity provider has authenticated
  members,         \* tenant_members, of each tenant
  provisioned,     \* tenants with a policy
  cookie,          \* the session cookie of the browser
  tabs,            \* what each tab holds
  signedOut        \* history: the cookie was dropped by signing out, and nobody has signed in since

signInVars == <<who, members, provisioned, cookie, tabs, signedOut>>

Unknown == {"unknown"}
NotCalling == [is |-> "none", person |-> NoOne, tenant |-> NoOne]
Session(p, t) == [person |-> p, tenant |-> t]
NewRun(p) == [is |-> "tenants", person |-> p, tenant |-> NoOne, live |-> TRUE]
NewTab == [session |-> NoOne, memberships |-> Unknown, working |-> FALSE,
           runs |-> {}, call |-> NotCalling, leaving |-> "no"]

MembersOf(p) == {t \in Tenants : p \in members[t]}

(* An effect is torn down and run again with every change of what it depends on. *)
Flushed(tab, p) ==
  LET torn == {[r EXCEPT !.live = FALSE] : r \in tab.runs}
  IN  IF p # NoOne /\ tab.session = NoOne /\ tab.memberships = Unknown
      THEN [tab EXCEPT !.runs = torn \cup {NewRun(p)}, !.working = TRUE]
      ELSE [tab EXCEPT !.runs = torn]

SignInInit ==
  /\ who = NoOne
  /\ members = [t \in Tenants |-> IF t \in DOMAIN Founded THEN Founded[t] ELSE {}]
  /\ provisioned = DOMAIN Founded
  /\ cookie = NoOne
  /\ tabs = [k \in Tabs |-> NewTab]
  /\ signedOut = FALSE

Becomes(k, tab) == tabs' = [tabs EXCEPT ![k] = tab]
memberVars == <<members, provisioned>>

(* (Slip: the choices stay on the page while one is on its way.)                *)
ShownThroughout(k) ==
  IF tabs[k].session # NoOne THEN "dashboard"
  ELSE IF who = NoOne THEN "signIn"
  ELSE IF tabs[k].memberships = {} THEN "create"
  ELSE IF tabs[k].memberships # Unknown /\ Cardinality(tabs[k].memberships) > 1 THEN "choose"
  ELSE "busy"

Shown(k) ==
  IF tabs[k].session # NoOne THEN "dashboard"
  ELSE IF tabs[k].working THEN "busy"
  ELSE IF who = NoOne THEN "signIn"
  ELSE IF tabs[k].memberships = {} THEN "create"
  ELSE IF tabs[k].memberships # Unknown /\ Cardinality(tabs[k].memberships) > 1 THEN "choose"
  ELSE "busy"

-------------------------------------------------------------------------------
(* The effect                                                                   *)

Without(k, r) == [tabs[k] EXCEPT !.runs = @ \ {r}]
Onward(k, r, s) == [tabs[k] EXCEPT !.runs = (@ \ {r}) \cup {s}]

TenantsAnswered(k, r) ==
  /\ r.is = "tenants"
  /\ LET found == MembersOf(r.person)
     IN  Becomes(k, IF ~r.live THEN Without(k, r)
                    ELSE IF Cardinality(found) = 1
                    THEN Onward(k, r, [r EXCEPT !.is = "session", !.tenant = CHOOSE t \in found : TRUE])
                    ELSE Flushed([Without(k, r) EXCEPT !.memberships = found, !.working = FALSE], who))
  /\ UNCHANGED <<who, cookie, signedOut>> /\ UNCHANGED memberVars

(* The browser keeps the cookie of an answer whoever still waits for it.        *)
SessionArrives(k, r) ==
  /\ r.is = "session"
  /\ cookie' = Session(r.person, r.tenant)
  /\ Becomes(k, Onward(k, r, [r EXCEPT !.is = "opened"]))
  /\ UNCHANGED <<who, signedOut>> /\ UNCHANGED memberVars

RunEnds(k, r) ==
  /\ r.is = "opened"
  /\ Becomes(k, IF r.live
                THEN Flushed([Without(k, r) EXCEPT !.session = Session(r.person, r.tenant),
                                                   !.memberships = {r.tenant}, !.working = FALSE], who)
                ELSE Without(k, r))
  /\ UNCHANGED <<who, cookie, signedOut>> /\ UNCHANGED memberVars

RunFails(k, r) ==
  /\ r.is \in {"tenants", "session"}
  /\ Becomes(k, [Without(k, r) EXCEPT !.working = @ /\ ~r.live])
  /\ UNCHANGED <<who, cookie, signedOut>> /\ UNCHANGED memberVars

-------------------------------------------------------------------------------
(* What the customer does                                                       *)

Submits(k, what, t) ==
  /\ Becomes(k, [tabs[k] EXCEPT !.call = [is |-> what, person |-> who, tenant |-> t], !.working = TRUE])
  /\ signedOut' = FALSE
  /\ UNCHANGED <<who, cookie>> /\ UNCHANGED memberVars

ChooseTenant(k, t) == Shown(k) = "choose" /\ t \in tabs[k].memberships /\ Submits(k, "choosing", t)
CreateOrganisation(k, t) == Shown(k) = "create" /\ members[t] = {} /\ Submits(k, "creating", t)

(* signUp: the tenant and its owner, then the starter policy.                   *)
Creates(k, withPolicy) ==
  LET t == tabs[k].call.tenant
  IN  /\ members[t] = {}
      /\ members' = [members EXCEPT ![t] = {tabs[k].call.person}]
      /\ provisioned' = IF withPolicy THEN provisioned \cup {t} ELSE provisioned

CallArrives(k) ==
  LET call == tabs[k].call
  IN  /\ \/ call.is = "choosing" /\ call.person \in members[call.tenant] /\ UNCHANGED memberVars
         \/ call.is = "creating" /\ Creates(k, TRUE)
      /\ cookie' = Session(call.person, call.tenant)
      /\ Becomes(k, [tabs[k] EXCEPT !.call.is = "opened"])
      /\ UNCHANGED <<who, signedOut>>

CallEnds(k) ==
  /\ tabs[k].call.is = "opened"
  /\ Becomes(k, Flushed([tabs[k] EXCEPT !.session = Session(tabs[k].call.person, tabs[k].call.tenant),
                                        !.call = NotCalling, !.working = FALSE], who))
  /\ UNCHANGED <<who, cookie, signedOut>> /\ UNCHANGED memberVars

(* Refused or lost; the starter policy may fail when the tenant is there.       *)
CallFails(k) ==
  /\ \/ tabs[k].call.is \in {"choosing", "creating"} /\ UNCHANGED memberVars
     \/ tabs[k].call.is = "creating" /\ Creates(k, FALSE)
  /\ Becomes(k, [tabs[k] EXCEPT !.call = NotCalling, !.working = FALSE])
  /\ UNCHANGED <<who, cookie, signedOut>>

SignOut(k) ==
  /\ Shown(k) = "dashboard" /\ tabs[k].leaving = "no"
  /\ Becomes(k, [tabs[k] EXCEPT !.leaving = "cookie"])
  /\ UNCHANGED <<who, cookie, signedOut>> /\ UNCHANGED memberVars

(* The cookie is dropped, unless the call fails; the tab forgets either way.    *)
Leaves(k) ==
  /\ tabs[k].leaving = "cookie"
  /\ \/ cookie' = NoOne /\ signedOut' = TRUE
     \/ UNCHANGED <<cookie, signedOut>>
  /\ Becomes(k, Flushed([tabs[k] EXCEPT !.session = NoOne, !.memberships = Unknown, !.leaving = "provider"], who))
  /\ UNCHANGED who /\ UNCHANGED memberVars

AllFlushed(p) == [k \in Tabs |-> Flushed(tabs[k], p)]

(* logout() of the identity provider, which may fail or hang.                   *)
ProviderLeaves(k) ==
  /\ tabs[k].leaving = "provider"
  /\ who' = NoOne
  /\ tabs' = [AllFlushed(NoOne) EXCEPT ![k].leaving = "no"]
  /\ UNCHANGED <<cookie, signedOut>> /\ UNCHANGED memberVars

ProviderFails(k) ==
  /\ tabs[k].leaving = "provider"
  /\ Becomes(k, [tabs[k] EXCEPT !.leaving = "no"])
  /\ UNCHANGED <<who, cookie, signedOut>> /\ UNCHANGED memberVars

LogIn(k, p) ==
  /\ Shown(k) = "signIn"
  /\ who' = p
  /\ tabs' = AllFlushed(p)
  /\ signedOut' = FALSE
  /\ UNCHANGED cookie /\ UNCHANGED memberVars

ReloadTab(k) ==
  /\ Becomes(k, Flushed(NewTab, who))
  /\ UNCHANGED <<who, cookie, signedOut>> /\ UNCHANGED memberVars

(* maxAge, the token's own.                                                     *)
CookieExpires ==
  /\ cookie # NoOne /\ cookie' = NoOne
  /\ UNCHANGED <<who, tabs, signedOut>> /\ UNCHANGED memberVars

SignInNext ==
  \/ \E k \in Tabs :
       \/ \E r \in tabs[k].runs : TenantsAnswered(k, r) \/ SessionArrives(k, r) \/ RunEnds(k, r) \/ RunFails(k, r)
       \/ \E t \in Tenants : ChooseTenant(k, t) \/ CreateOrganisation(k, t)
       \/ CallArrives(k) \/ CallEnds(k) \/ CallFails(k)
       \/ SignOut(k) \/ Leaves(k) \/ ProviderLeaves(k) \/ ProviderFails(k)
       \/ \E p \in People : LogIn(k, p)
       \/ ReloadTab(k)
  \/ CookieExpires

SignInSpec == SignInInit /\ [][SignInNext]_signInVars

-------------------------------------------------------------------------------
(* With one tab, what the dashboard shows is what the cookie acts as: the same   *)
(* person and the same organisation (SessionBridge, sessionCookieOptions).      *)
ShownIsActing ==
  \A k \in Tabs : tabs[k].session # NoOne /\ cookie # NoOne => tabs[k].session = cookie

(* What signOut's comment says: the session is gone from this browser before the *)
(* provider is asked, whatever it then does.                                    *)
SignedOutStaysOut == signedOut => cookie = NoOne

(* What the effect's comments say it prevents: a page at work that nothing will  *)
(* bring to an end.                                                             *)
WorkEnds == \A k \in Tabs : tabs[k].working => (\E r \in tabs[k].runs : r.live) \/ tabs[k].call # NotCalling

(* What signUp's comment says: no session for an account that cannot sponsor.   *)
SessionCanSponsor == cookie # NoOne => cookie.tenant \in provisioned
===============================================================================
