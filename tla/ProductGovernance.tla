-------------------------- MODULE ProductGovernance --------------------------
(***************************************************************************)
(* services/api/routers/intelligence.py and products.py: how a suggestion  *)
(* of the AI becomes a product of the catalog.                             *)
(*                                                                         *)
(* analyze_and_suggest expires stale suggestions and stores new ones;      *)
(* administrators approve, reject or delete them; implement_suggestion     *)
(* publishes an approved one into the products table, inactive;            *)
(* activate_staged_products activates it when its cool-down is over.  The  *)
(* same table is edited by hand through products.py.                       *)
(*                                                                         *)
(* Handlers with several statements (analyze_and_suggest and               *)
(* implement_suggestion) are one action per statement: under READ COMMITTED*)
(* every statement sees what other handlers have committed by then.  The   *)
(* other handlers change the tables in one statement.                      *)
(***************************************************************************)
EXTENDS Integers, FiniteSets

CONSTANTS
  Sids,          \* bound: suggestion ids
  Names,         \* product names (other than the twelve whose product_id
                 \* _ensure_table rewrites)
  Slug,          \* what a product_id keeps of a name: some names share it
  HighRisk,      \* the names whose suggestions have risk_level "high"
  HandMade,      \* names administrators create by hand; the product_id is their
                 \* choice, and not one that starts with prod_ai_
  Staff,         \* approved_by / implemented_by
  NoOne,         \* approved_by is NULL
  Calls,         \* bound: implement_suggestion calls in flight at a time
  Analyses,      \* bound: analyze_and_suggest calls in flight at a time
  Cap,           \* PRODUCT_CATALOG_CAP (50 in the code)
  Cooldown,      \* COOLDOWN_HOURS, in ticks of the clock
  Stale,         \* STALE_SUGGESTION_DAYS, in ticks
  MaxEdits       \* bound: edits of products made by hand

ASSUME NamesAssumption == HighRisk \subseteq Names /\ HandMade \subseteq Names
ASSUME SlugAssumption == DOMAIN Slug = Names
ASSUME SomeAssumption == Sids # {} /\ Names # {} /\ Staff # {}
ASSUME StaffAssumption == NoOne \notin Staff
ASSUME LimitAssumption ==
  Cap \in Nat /\ Cooldown \in Nat /\ Stale \in Nat /\ MaxEdits \in Nat

VARIABLES
  suggestions,  \* ai_product_suggestions
  products,     \* the products table, by product_name, its primary key
  calls,        \* the locals of implement_suggestion, per call
  analyses,     \* the locals of analyze_and_suggest, per call
  edits,        \* edits made by hand so far
  \* history, read by the properties only
  listed_once,  \* names that have been in the catalog
  approved_once \* suggestions that have been approved at some time

history == <<listed_once, approved_once>>
vars == <<suggestions, products, calls, analyses, edits, history>>

\* "absent" is an id that was not drawn yet, "deleted" one whose row is gone:
\* the ids are SERIAL and never drawn again.
Statuses == {"absent", "deleted", "pending", "approved", "rejected",
             "implemented", "expired"}
\* The age of a row saturates just past the limit it is compared with.
Suggestion == [status : Statuses, name : Names, approved_by : Staff \union {NoOne},
               age : 0..(Stale + 1)]
\* The product_id is made from the name the row was inserted with (origin), and
\* under prod_ai_ by implement_suggestion (ai); it is not unique in the table.
\* off: deactivated by an administrator and not activated by one since (history).
Product == [listed : BOOLEAN, ai : BOOLEAN, origin : Names, active : BOOLEAN,
            off : BOOLEAN, age : 0..(Cooldown + 1)]
CallSteps == {"idle", "status", "cap", "exists", "publish"}
Call == [pc : CallSteps, sid : Sids, by : Staff, approver : Staff \union {NoOne},
         name : Names, found : BOOLEAN]
AnalysisSteps == {"idle", "check", "insert"}
Analysis == [pc : AnalysisSteps, sid : Sids, name : Names]

TypeOK ==
  /\ suggestions \in [Sids -> Suggestion]
  /\ products \in [Names -> Product]
  /\ calls \in [Calls -> Call]
  /\ analyses \in [Analyses -> Analysis]
  /\ edits \in 0..MaxEdits
  /\ listed_once \subseteq Names
  /\ approved_once \subseteq Sids

AnyName == CHOOSE n \in Names : TRUE
AnySid == CHOOSE s \in Sids : TRUE
NoSuggestion == [status |-> "absent", name |-> AnyName, approved_by |-> NoOne,
                 age |-> 0]
\* The row is in the table.
Stored(s) == suggestions[s].status \notin {"absent", "deleted"}
NoProduct == [listed |-> FALSE, ai |-> FALSE, origin |-> AnyName, active |-> FALSE,
              off |-> FALSE, age |-> 0]
NoCall == [pc |-> "idle", sid |-> AnySid, by |-> CHOOSE b \in Staff : TRUE,
           approver |-> NoOne, name |-> AnyName, found |-> FALSE]
NoAnalysis == [pc |-> "idle", sid |-> AnySid, name |-> AnyName]

Init ==
  /\ suggestions = [s \in Sids |-> NoSuggestion]
  /\ products = [n \in Names |-> NoProduct]
  /\ calls = [k \in Calls |-> NoCall]
  /\ analyses = [a \in Analyses |-> NoAnalysis]
  /\ edits = 0
  /\ listed_once = {} /\ approved_once = {}

Listed(n) == products[n].listed
\* A row carries the product_id of kind ai made from name n.
HasId(ai, n) ==
  \E m \in Names :
    Listed(m) /\ products[m].ai = ai /\ Slug[products[m].origin] = Slug[n]
ActiveProducts == {n \in Names : products[n].listed /\ products[n].active}

\* An hour of the clock, or a day of it for the suggestions: rows grow older.
Tick ==
  /\ suggestions' = [s \in Sids |->
       [suggestions[s] EXCEPT
          !.age = IF suggestions[s].status = "pending" /\ @ =< Stale THEN @ + 1
                                                                    ELSE @]]
  /\ products' = [n \in Names |->
       [products[n] EXCEPT
          !.age = IF products[n].listed /\ @ =< Cooldown THEN @ + 1 ELSE @]]
  /\ UNCHANGED <<calls, analyses, edits, history>>

-----------------------------------------------------------------------------
(* analyze_and_suggest.                                                    *)

\* Stale pending suggestions expire, and the answer of the model is in hand: a
\* suggestion above the confidence threshold for name n.
expire_stale(a, s, n) ==
  /\ analyses[a].pc = "idle"
  /\ suggestions[s].status = "absent"
  /\ \A b \in Analyses : analyses[b].pc # "idle" => analyses[b].sid # s
  /\ suggestions' = [t \in Sids |->
       IF suggestions[t].status = "pending" /\ suggestions[t].age > Stale
       THEN [suggestions[t] EXCEPT !.status = "expired"] ELSE suggestions[t]]
  /\ analyses' = [analyses EXCEPT ![a] = [pc |-> "check", sid |-> s, name |-> n]]
  /\ UNCHANGED <<products, calls, edits, history>>

\* A suggestion that is already pending is skipped.
check_duplicate(a) ==
  /\ analyses[a].pc = "check"
  /\ analyses' = [analyses EXCEPT ![a] =
       IF \E s \in Sids : /\ suggestions[s].status = "pending"
                          /\ suggestions[s].name = analyses[a].name
       THEN NoAnalysis ELSE [@ EXCEPT !.pc = "insert"]]
  /\ UNCHANGED <<suggestions, products, calls, edits, history>>

\* The INSERT, and the commit at the end of the analysis.
insert_suggestion(a) ==
  /\ analyses[a].pc = "insert"
  /\ suggestions' = [suggestions EXCEPT ![analyses[a].sid] =
       [NoSuggestion EXCEPT !.status = "pending", !.name = analyses[a].name]]
  /\ analyses' = [analyses EXCEPT ![a] = NoAnalysis]
  /\ UNCHANGED <<products, calls, edits, history>>

analyze_and_suggest ==
  \E a \in Analyses :
    \/ \E s \in Sids, n \in Names : expire_stale(a, s, n)
    \/ check_duplicate(a)
    \/ insert_suggestion(a)

-----------------------------------------------------------------------------
(* The review of suggestions.                                              *)

\* Faulty variant: the action of the request is stored as the status.
approve_suggestion_RawAction(s, by, verdict) ==
  /\ Stored(s)
  /\ suggestions' = [suggestions EXCEPT
       ![s].status = IF verdict = "approved" THEN "approve" ELSE "reject",
       ![s].approved_by = by]
  /\ UNCHANGED <<products, calls, analyses, edits, history>>

\* approve_suggestion asks nothing of the status it overwrites, and records
\* whoever approves or rejects as approved_by.
approve_suggestion(s, by, verdict) ==
  /\ Stored(s)
  /\ suggestions' = [suggestions EXCEPT ![s].status = verdict,
                                        ![s].approved_by = by]
  /\ approved_once' = IF verdict = "approved" THEN approved_once \union {s}
                                              ELSE approved_once
  /\ UNCHANGED <<products, calls, analyses, edits, listed_once>>

delete_suggestion(s) ==
  /\ Stored(s)
  /\ suggestions' = [suggestions EXCEPT ![s].status = "deleted"]
  /\ UNCHANGED <<products, calls, analyses, edits, history>>

review ==
  \E s \in Sids :
    \/ \E by \in Staff, verdict \in {"approved", "rejected"} :
         approve_suggestion(s, by, verdict)
    \/ delete_suggestion(s)

-----------------------------------------------------------------------------
(* implement_suggestion, one action per statement.                         *)

Step(k, call) ==
  /\ calls' = [calls EXCEPT ![k] = call]
  /\ UNCHANGED <<analyses, edits>>

\* The row with its approver ...
fetch_suggestion(k, s, by) ==
  /\ calls[k].pc = "idle"
  /\ Stored(s)
  /\ Step(k, [NoCall EXCEPT !.pc = "status", !.sid = s, !.by = by,
                            !.approver = suggestions[s].approved_by,
                            !.name = suggestions[s].name])
  /\ UNCHANGED <<suggestions, products, history>>

\* Faulty variant: only a rejected suggestion is refused.
check_status_NotRejected(k) ==
  /\ calls[k].pc = "status"
  /\ LET call == calls[k] IN
     Step(k, IF \/ suggestions[call.sid].status = "rejected"
                \/ call.name \in HighRisk /\ call.by = call.approver
             THEN NoCall ELSE [call EXCEPT !.pc = "cap"])
  /\ UNCHANGED <<suggestions, products, history>>

\* ... then, in a second query, its status; and the dual-approval guardrail,
\* on the approver read before.
check_status(k) ==
  /\ calls[k].pc = "status"
  /\ LET call == calls[k] IN
     Step(k, IF \/ suggestions[call.sid].status # "approved"
                \/ call.name \in HighRisk /\ call.by = call.approver
             THEN NoCall ELSE [call EXCEPT !.pc = "cap"])
  /\ UNCHANGED <<suggestions, products, history>>

check_cap(k) ==
  /\ calls[k].pc = "cap"
  /\ Step(k, IF Cardinality(ActiveProducts) >= Cap
             THEN NoCall ELSE [calls[k] EXCEPT !.pc = "exists"])
  /\ UNCHANGED <<suggestions, products, history>>

check_exists(k) ==
  /\ calls[k].pc = "exists"
  /\ Step(k, [calls[k] EXCEPT !.pc = "publish",
                              !.found = \/ Listed(calls[k].name)
                                        \/ HasId(TRUE, calls[k].name)])
  /\ UNCHANGED <<suggestions, products, history>>

\* UPDATE ai_product_suggestions ... WHERE id: no row, no effect.
MarkImplemented(s, by) ==
  suggestions' = IF ~Stored(s) THEN suggestions
                 ELSE [suggestions EXCEPT ![s].status = "implemented",
                                          ![s].approved_by = by]

\* Already in the catalog: the suggestion is marked and nothing is published.
mark_existing(k) ==
  LET call == calls[k] IN
  /\ call.pc = "publish" /\ call.found
  /\ MarkImplemented(call.sid, suggestions[call.sid].approved_by)
  /\ Step(k, NoCall)
  /\ UNCHANGED <<products, history>>

\* Faulty variant: the suggestion is marked although its INSERT failed.
publish_MarksFirst(k) ==
  LET call == calls[k] IN
  /\ call.pc = "publish" /\ ~call.found
  /\ Step(k, NoCall)
  /\ MarkImplemented(call.sid, call.by)
  /\ UNCHANGED <<products, history>>

\* INSERT, UPDATE and commit in one transaction; a name that was inserted in
\* between breaks the primary key and rolls the call back.
publish(k) ==
  LET call == calls[k] IN
  /\ call.pc = "publish" /\ ~call.found
  /\ Step(k, NoCall)
  /\ \/ /\ Listed(call.name)
        /\ UNCHANGED <<suggestions, products, history>>
     \/ /\ ~Listed(call.name)
        /\ products' = [products EXCEPT ![call.name] =
             [NoProduct EXCEPT !.listed = TRUE, !.ai = TRUE, !.origin = call.name]]
        /\ MarkImplemented(call.sid, call.by)
        /\ listed_once' = listed_once \union {call.name}
        /\ UNCHANGED approved_once

implement_suggestion ==
  \E k \in Calls :
    \/ \E s \in Sids, by \in Staff : fetch_suggestion(k, s, by)
    \/ check_status(k)
    \/ check_cap(k)
    \/ check_exists(k)
    \/ mark_existing(k)
    \/ publish(k)

-----------------------------------------------------------------------------
(* The products table.                                                     *)

\* Faulty variant: the cool-down is not waited for.
ReadyToGoLive_AtOnce(n) ==
  /\ products[n].listed /\ products[n].ai
  /\ ~products[n].active

ReadyToGoLive(n) ==
  /\ products[n].listed /\ products[n].ai
  /\ ~products[n].active
  /\ products[n].age > Cooldown

\* Whatever is inactive, carries an AI product id and was not updated for the
\* cool-down goes live.
activate_staged_products ==
  /\ \E n \in Names : ReadyToGoLive(n)
  /\ products' = [n \in Names |->
       IF ReadyToGoLive(n) THEN [products[n] EXCEPT !.active = TRUE, !.age = 0]
                           ELSE products[n]]
  /\ UNCHANGED <<suggestions, calls, analyses, edits, history>>

\* A handler of products.py commits this table.
Edit(table) ==
  /\ edits < MaxEdits
  /\ edits' = edits + 1
  /\ products' = table
  /\ UNCHANGED <<suggestions, calls, analyses, approved_once>>

create_product(n, active) ==
  /\ n \in HandMade
  /\ ~Listed(n) /\ ~HasId(FALSE, n)
  /\ Edit([products EXCEPT ![n] = [NoProduct EXCEPT !.listed = TRUE, !.origin = n,
                                                   !.active = active]])
  /\ listed_once' = listed_once \union {n}

\* update_product and delete_product address rows by product_id: all that share it.
SameId(n) ==
  {m \in Names : /\ Listed(m)
                 /\ products[m].ai = products[n].ai
                 /\ Slug[products[m].origin] = Slug[products[n].origin]}

\* Any update sets updated_at; active is whatever the body says.
Touched(n, active) ==
  [products[n] EXCEPT !.active = active, !.age = 0,
                      !.off = ~active /\ (@ \/ products[n].active)]

update_product(n, active) ==
  /\ Listed(n)
  /\ Edit([m \in Names |-> IF m \in SameId(n) THEN Touched(m, active)
                           ELSE products[m]])
  /\ UNCHANGED listed_once

\* The update may give the product another name, which must be free.
rename_product(n, name, active) ==
  /\ Listed(n) /\ ~Listed(name)
  /\ SameId(n) = {n}
  /\ Edit([products EXCEPT ![name] = Touched(n, active), ![n] = NoProduct])
  /\ listed_once' = listed_once \union {name}

delete_product(n) ==
  /\ Listed(n)
  /\ Edit([m \in Names |-> IF m \in SameId(n) THEN NoProduct ELSE products[m]])
  /\ UNCHANGED listed_once

edit_products ==
  \E n \in Names :
    \/ \E active \in BOOLEAN :
         \/ create_product(n, active)
         \/ update_product(n, active)
         \/ \E name \in Names : rename_product(n, name, active)
    \/ delete_product(n)

Next ==
  \/ Tick
  \/ analyze_and_suggest
  \/ review
  \/ implement_suggestion
  \/ activate_staged_products
  \/ edit_products

Spec == Init /\ [][Next]_vars

-----------------------------------------------------------------------------
(* Properties.                                                             *)

\* AiProductWasApproved: a product of the AI stands in the catalog only if a
\* suggestion of the name it was inserted with was approved by somebody first,
\* whatever was done to the suggestion while implement_suggestion was under way
\* and since, and to the product by hand.
AiProductWasApproved ==
  \A n \in Names :
    Listed(n) /\ products[n].ai
      => \E s \in approved_once : suggestions[s].name = products[n].origin

\* ImplementedWasListed: a suggestion is implemented only if a product with the
\* product_id of its name was inserted: the INSERT and the new status are one
\* transaction, and a call that finds the product there marks nothing else.
ImplementedWasListed ==
  \A s \in Sids :
    suggestions[s].status = "implemented"
      => \E n \in listed_once : Slug[n] = Slug[suggestions[s].name]

\* StagedUntilCooldown: unless an administrator edits it, an AI product goes
\* live only when it has been left alone for the cool-down.
StagedUntilCooldown ==
  [][\A n \in Names :
       (/\ products'[n].ai /\ products'[n].active /\ ~products[n].active
        /\ edits' = edits)
         => products[n].listed /\ products[n].age > Cooldown]_vars

-----------------------------------------------------------------------------
(* What the repository says of the workflow and the code does not do.      *)

\* Call k inserts its product in this step.
Inserts(k) == /\ calls[k].pc = "publish"
              /\ products' # products
              /\ calls' # calls /\ calls'[k].pc = "idle"

\* DualApproval: CHANGELOG.md:135, a high-risk product is implemented by
\* another administrator than the one who approved it.
DualApproval ==
  [][\A k \in Calls :
       Inserts(k) /\ calls[k].name \in HighRisk
         => calls[k].by # suggestions[calls[k].sid].approved_by]_vars

\* OnlyApprovedPublished: intelligence.py:1068, "Only approved suggestions can
\* be implemented": the INSERT finds the suggestion approved.
OnlyApprovedPublished ==
  [][\A k \in Calls :
       Inserts(k) => suggestions[calls[k].sid].status = "approved"]_vars

\* CatalogCap: BankOffer_AI_Presentation.html:773, at most Cap active products
\* at any time.
CatalogCap == Cardinality(ActiveProducts) =< Cap

\* StagingIsServed: BankOffer_AI_Presentation.html:780, an AI product completes
\* its staging period before it goes live.
StagingIsServed ==
  [][\A n \in Names :
       (/\ products[n].listed /\ products[n].ai /\ ~products[n].active
        /\ products'[n].active)
         => products[n].age > Cooldown]_vars

\* DeactivatedStaysOff: BankOffer_AI_Presentation.html:707, a product that was
\* deactivated is gone from all future recommendations.
DeactivatedStaysOff == \A n \in Names : products[n].off => ~products[n].active

\* ExpiredIsFinal: BankOffer_AI_Presentation.html:761, an expired suggestion is
\* removed from the queue.
ExpiredIsFinal ==
  [][\A s \in Sids : suggestions[s].status = "expired"
       => suggestions'[s].status \in {"expired", "deleted"}]_vars

\* FoundIsInCatalog: intelligence.py:1127, "Product already in catalog" is said
\* of a product of that name, or inserted with that name and renamed.
FoundIsInCatalog ==
  [][\A k \in Calls :
       calls[k].pc = "exists" /\ calls'[k].pc = "publish" /\ calls'[k].found
         => \/ Listed(calls[k].name)
            \/ \E n \in Names : Listed(n) /\ products[n].origin = calls[k].name]_vars

\* NoDuplicatePending: intelligence.py:900, new suggestions skip duplicates.
NoDuplicatePending ==
  \A s, t \in Sids :
    (s # t /\ suggestions[s].status = "pending" /\ suggestions[t].status = "pending")
      => suggestions[s].name # suggestions[t].name
=============================================================================
