------------------------------ MODULE KeysPage ------------------------------
(***************************************************************************)
(* The API keys page of the customer's dashboard: the form that mints a    *)
(* key, the panel that shows its secret once, and the table of what exists *)
(* (the same resource hook as module Funding).                             *)
(*                                                                         *)
(* A key is named by the id the backend will give it.  The customer may    *)
(* leave the page and come back, which unmounts all of it; what it had     *)
(* asked for goes on behind it.  Left out: what a key may do and its being *)
(* revoked, which is done elsewhere (module Access), a secret selected by  *)
(* hand, and the texts.                                                    *)
(***************************************************************************)
EXTENDS Naturals, FiniteSets

CONSTANTS
    Keys,      \* the keys that may be minted
    MaxLoads,  \* bound: loads of the table, of all visits
    None

ASSUME KeyPageAssumption == MaxLoads \in Nat \ {0} /\ None \notin Keys

VARIABLES
    stored,   \* the rows of api_keys
    mint,     \* mint[k]: the POST that creates k, and whether its form is still mounted
    form,     \* MintForm: "idle", "asking" (submitting) or "error"
    created,  \* the key the secret panel is for
    copied,   \* what the panel's button says
    writes,   \* clipboard writes under way: the key, and whether its panel is still mounted
    taken,    \* the secrets that were put in the clipboard
    load,     \* load[n]: the page's n-th request of the table
    attempt,  \* the load whose effect is mounted
    table     \* [rows, loading, error]

keyPageVars == <<stored, mint, form, created, copied, writes, taken, load, attempt, table>>
panelVars == <<created, copied, writes, taken>>
tableVars == <<load, attempt, table>>

Loads == 1..MaxLoads
NotSent == [at |-> "unsent", got |-> {}]
Over == [at |-> "over", got |-> {}]
Fresh == [rows |-> {}, loading |-> TRUE, error |-> FALSE]

(***************************************************************************)
(* The table                                                               *)
(***************************************************************************)

\* reload(): a new attempt, which cancels the last.
Reload ==
    IF attempt < MaxLoads
    THEN /\ attempt' = attempt + 1
         /\ load' = [load EXCEPT ![attempt + 1].at = "sent"]
         /\ table' = [table EXCEPT !.loading = TRUE]
    ELSE UNCHANGED tableVars

\* GET /admin/keys.
ListKeys(n) ==
    /\ load[n].at = "sent"
    /\ load' = [load EXCEPT ![n] = [at |-> "answered", got |-> stored]]
    /\ UNCHANGED <<stored, mint, form, attempt, table, panelVars>>

LoadArrives(n) ==
    /\ load[n].at = "answered"
    /\ load' = [load EXCEPT ![n] = Over]
    /\ table' = IF n = attempt THEN [rows |-> load[n].got, loading |-> FALSE, error |-> FALSE] ELSE table
    /\ UNCHANGED <<stored, mint, form, attempt, panelVars>>

\* The rows that were there are kept, behind the error.
LoadFails(n) ==
    /\ load[n].at \in {"sent", "answered"}
    /\ load' = [load EXCEPT ![n] = Over]
    /\ table' = IF n = attempt THEN [table EXCEPT !.loading = FALSE, !.error = TRUE] ELSE table
    /\ UNCHANGED <<stored, mint, form, attempt, panelVars>>

Retry ==
    /\ table.error /\ ~table.loading /\ attempt < MaxLoads
    /\ Reload
    /\ UNCHANGED <<stored, mint, form, panelVars>>

(***************************************************************************)
(* The form                                                                *)
(***************************************************************************)

Submit(k) ==
    /\ form # "asking"
    /\ mint[k].at = "unsent"
    /\ mint' = [mint EXCEPT ![k] = [at |-> "sent", here |-> TRUE]]
    /\ form' = "asking"
    /\ UNCHANGED <<stored, tableVars, panelVars>>

\* createKey stores the row, and then answers, or fails to write its audit
\* entry; or the call is refused before.
Create(k) ==
    /\ mint[k].at = "sent"
    /\ \E at \in {"created", "failed"} : mint' = [mint EXCEPT ![k].at = at]
    /\ stored' = stored \cup {k} \/ (mint'[k].at = "failed" /\ stored' = stored)
    /\ UNCHANGED <<form, tableVars, panelVars>>

\* onCreated: the panel is given the new key.  If it was there for another, it
\* is the same panel, with its state.  (Slip: the table is not read again.)
ShowWithoutReload(k) ==
    /\ created' = k
    /\ copied' = (created # None /\ copied)
    /\ UNCHANGED tableVars

OnCreated(k) ==
    /\ created' = k
    /\ copied' = (created # None /\ copied)
    /\ Reload

\* Nobody is told of an answer to a form that is gone.
MintArrives(k) ==
    /\ mint[k].at = "created"
    /\ mint' = [mint EXCEPT ![k].at = "over"]
    /\ IF mint[k].here THEN form' = "idle" /\ OnCreated(k)
       ELSE UNCHANGED <<form, created, copied, tableVars>>
    /\ UNCHANGED <<stored, writes, taken>>

\* An error, or an answer that is lost, with or without a key behind it.
FormFails(k) ==
    /\ mint[k].at \in {"sent", "created", "failed"} /\ mint[k].here
    /\ mint' = [mint EXCEPT ![k] = [at |-> IF @.at = "sent" THEN "sent" ELSE "over", here |-> FALSE]]
    /\ form' = "error"
    /\ UNCHANGED <<stored, tableVars, panelVars>>

(***************************************************************************)
(* The panel                                                               *)
(***************************************************************************)

Copy ==
    /\ created # None
    /\ writes' = writes \cup {[key |-> created, here |-> TRUE]}
    /\ UNCHANGED <<stored, mint, form, created, copied, taken, tableVars>>

\* writeText resolves, or the browser refuses.
CopyEnds(w) ==
    /\ w \in writes
    /\ writes' = writes \ {w}
    /\ \E ok \in BOOLEAN :
          /\ taken' = IF ok THEN taken \cup {w.key} ELSE taken
          /\ copied' = IF w.here THEN ok ELSE copied
    /\ UNCHANGED <<stored, mint, form, created, tableVars>>

Unmounted == {[w EXCEPT !.here = FALSE] : w \in writes}

Dismiss ==
    /\ created # None
    /\ created' = None /\ copied' = FALSE /\ writes' = Unmounted
    /\ UNCHANGED <<stored, mint, form, taken, tableVars>>

(***************************************************************************)
(* Behaviour                                                               *)
(***************************************************************************)

\* Leaving the page and coming back.
Revisit ==
    /\ attempt < MaxLoads
    /\ mint' = [k \in Keys |-> [mint[k] EXCEPT !.here = FALSE]]
    /\ form' = "idle"
    /\ created' = None /\ copied' = FALSE /\ writes' = Unmounted
    /\ attempt' = attempt + 1 /\ load' = [load EXCEPT ![attempt + 1].at = "sent"] /\ table' = Fresh
    /\ UNCHANGED <<stored, taken>>

KeyPageInit ==
    /\ stored = {}
    /\ mint = [k \in Keys |-> [at |-> "unsent", here |-> FALSE]]
    /\ form = "idle"
    /\ created = None /\ copied = FALSE /\ writes = {} /\ taken = {}
    /\ load = [n \in Loads |-> IF n = 1 THEN [NotSent EXCEPT !.at = "sent"] ELSE NotSent]
    /\ attempt = 1
    /\ table = Fresh

KeyPageNext ==
    \/ \E k \in Keys : Submit(k) \/ Create(k) \/ MintArrives(k) \/ FormFails(k)
    \/ \E n \in Loads : ListKeys(n) \/ LoadArrives(n) \/ LoadFails(n)
    \/ \E w \in writes : CopyEnds(w)
    \/ Copy \/ Dismiss \/ Retry \/ Revisit

KeyPageSpec == KeyPageInit /\ [][KeyPageNext]_keyPageVars

(***************************************************************************)
(* Properties                                                              *)
(***************************************************************************)

\* The table under a secret lists its key, once it has loaded: onCreated reads
\* it again, and no answer from before the mint can still replace that.  And
\* the button says "Minting..." exactly while a mint of this form is awaited, of
\* which there is never a second one.
MintedIsListed ==
    /\ created # None /\ ~table.loading /\ ~table.error /\ attempt < MaxLoads => created \in table.rows
    /\ LET awaited == {k \in Keys : mint[k].here /\ mint[k].at \in {"sent", "created", "failed"}}
       IN  Cardinality(awaited) = IF form = "asking" THEN 1 ELSE 0

\* What the panel's author says would be worse than an error: "copied" for a
\* secret that was not.
CopiedIsSo == copied => created \in taken

\* What the page's header says of the panel: it stays until it is dismissed (or
\* the page is left).
StaysUntilDismissed == [][created # None => created' \in {created, None}]_keyPageVars
=============================================================================
