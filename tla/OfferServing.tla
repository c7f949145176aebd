---------------------------- MODULE OfferServing ----------------------------
(***************************************************************************)
(* services/api/routers/offers.py: GET /offers/{customer_id}.              *)
(*                                                                         *)
(* get_offers opens a new database session for each of its reads (customer *)
(* features, kill-switch, consents, catalog) and one for the audit record  *)
(* it writes before it answers.  Each session is an action: other handlers *)
(* commit between any two of them.  A failed read of the kill-switch, the  *)
(* consents or the catalog is logged and the handler goes on with defaults;*)
(* a failed read of the features, a profile that cannot be built and a     *)
(* failed audit write end in a 500.                                        *)
(*                                                                         *)
(* commits is the sequence of committed states of the tables get_offers    *)
(* reads, the last one the current one: a request that was born at commit  *)
(* b and ended at commit e has lived through commits[b] .. commits[e].     *)
(***************************************************************************)
EXTENDS Integers, Sequences, FiniteSets

CONSTANTS
  Customers,
  Names,             \* product_name, the primary key of products
  Products,          \* product_id: any number of rows may have the same one
  NoId,              \* a NULL product_id
  NameId,            \* the id _ensure_table makes of a name
  Canonical,         \* the names whose id it sets back even if they have one
  DefaultProducts,   \* the names of the hardcoded PRODUCTS, with their risk
  DefaultRisk,       \* ... and credit
  DefaultCredit,
  NoRisk,            \* a NULL risk_profile
  Requests,          \* bound: the calls of get_offers that are made
  TopN,              \* rank_offers' max_offers and the top_n of the query
  MaxCommits,        \* bound: length of commits
  MaxFailures,       \* bound: database calls that fail
  Rows,              \* what a row of products can be set to
  Profiles,          \* risk_tolerance answers of the onboarding wizard
  SeededCustomers    \* what customers and customer_features may hold at first

Risks == {"low", "moderate", "high"}
Level(risk) == CASE risk = "low" -> 1 [] risk = "high" -> 3 [] OTHER -> 2

\* One row of products; a deleted product is not listed.
Row == [listed : BOOLEAN, active : BOOLEAN, id : Products \union {NoId},
        risk : Risks, credit : BOOLEAN]
NoRow == [listed |-> FALSE, active |-> FALSE, id |-> NoId, risk |-> "low",
          credit |-> FALSE]
\* customers joined with customer_features: declared is customers.risk_profile,
\* assessed is customer_features.risk_profile, known that the rows exist.
Customer == [known : BOOLEAN, profiling : BOOLEAN, automated : BOOLEAN,
             declared : Risks \union {NoRisk}, assessed : Risks \union {NoRisk},
             fragile : BOOLEAN]
Database == [customers : [Customers -> Customer], killed : BOOLEAN,
             catalog : [Names -> Row]]

ASSUME CatalogAssumption ==
  /\ DefaultProducts \subseteq Names
  /\ DefaultRisk \in [DefaultProducts -> Risks]
  /\ DefaultCredit \subseteq DefaultProducts
  /\ Rows \subseteq Row
  /\ NoId \notin Products
  /\ NameId \in [Names -> Products]
ASSUME CustomerAssumption ==
  /\ NoRisk \notin Risks
  /\ Profiles \subseteq Risks
  /\ SeededCustomers \subseteq Customer
ASSUME BoundAssumption ==
  /\ TopN \in Nat
  /\ MaxCommits \in Nat \ {0}
  /\ MaxFailures \in Nat

VARIABLES
  commits,    \* the committed states of the tables
  requests,   \* the locals of every call of get_offers
  audit,      \* audit_recommendations, in insertion order
  failures    \* database calls that have failed so far

vars == <<commits, requests, audit, failures>>

Steps == {"idle", "features", "kill_switch", "consent", "catalog", "audit", "done"}
Replies == {"none", "404", "500", "killed", "no_consent", "offers"}
Reads == {"kill_switch", "consent", "catalog"}
Request == [pc : Steps, customer : Customers, born : Nat, ended : Nat,
            risk : Risks, profiling : BOOLEAN,
            automated : BOOLEAN, fragile : BOOLEAN, external : BOOLEAN,
            blind : SUBSET Reads, fallback : BOOLEAN,
            offers : SUBSET Names, reply : Replies]
AuditRow == [request : Requests, profiling : BOOLEAN, automated : BOOLEAN,
             offers : SUBSET Names]

TypeOK ==
  /\ commits \in Seq(Database) /\ Len(commits) \in 1..MaxCommits
  /\ requests \in [Requests -> Request]
  /\ audit \in Seq(AuditRow)
  /\ failures \in 0..MaxFailures

\* The locals of a call before it is made: the defaults of consent_snapshot,
\* external_id and financial_health.
Fresh(c) == [pc |-> "idle", customer |-> c, born |-> 0, ended |-> 0,
             risk |-> "moderate", profiling |-> TRUE, automated |-> TRUE,
             fragile |-> FALSE, external |-> FALSE, blind |-> {},
             fallback |-> FALSE, offers |-> {}, reply |-> "none"]

Init ==
  /\ \E seed \in [Customers -> SeededCustomers], rows \in [Names -> Rows] :
       commits = <<[customers |-> seed, killed |-> FALSE, catalog |-> rows]>>
  /\ requests \in [Requests -> {Fresh(c) : c \in Customers}]
  /\ audit = <<>>
  /\ failures = 0

Now == commits[Len(commits)]

-----------------------------------------------------------------------------
(* The handlers that write what get_offers reads.                          *)

\* A commit that changes these tables.
Commit(db) ==
  /\ Len(commits) < MaxCommits
  /\ db # Now
  /\ commits' = Append(commits, db)
  /\ UNCHANGED <<requests, audit, failures>>

CommitCustomer(c, row) == Commit([Now EXCEPT !.customers[c] = row])

\* A new account has its rows in both tables, consents FALSE and no risk.
register_customer(c) ==
  /\ ~Now.customers[c].known
  /\ CommitCustomer(c, [known |-> TRUE, profiling |-> FALSE,
                        automated |-> FALSE, declared |-> NoRisk,
                        assessed |-> NoRisk, fragile |-> FALSE])

\* The wizard's risk answer is stored in customers.risk_profile.
submit_onboarding(c, profiling, automated, risk) ==
  /\ Now.customers[c].known
  /\ CommitCustomer(c, [Now.customers[c] EXCEPT !.profiling = profiling,
                          !.automated = automated, !.declared = risk])

update_consent(c, profiling, automated) ==
  /\ Now.customers[c].known
  /\ CommitCustomer(c, [Now.customers[c] EXCEPT !.profiling = profiling,
                          !.automated = automated])

toggle_kill_switch(active) == Commit([Now EXCEPT !.killed = active])

\* The handlers of products.py, each after the _ensure_table they all start with.
CommitCatalog(catalog) == Commit([Now EXCEPT !.catalog = catalog])

WithId(id) == {n \in Names : Now.catalog[n].listed /\ Now.catalog[n].id = id}

\* Rows without an id get one, and those of canonical names theirs.
ensure_table ==
  CommitCatalog([n \in Names |->
    [Now.catalog[n] EXCEPT
       !.id = IF Now.catalog[n].listed /\ (@ = NoId \/ n \in Canonical)
              THEN NameId[n] ELSE @]])

\* The INSERT of create_product, and of implement_suggestion (inactive).  No row
\* with the id was there when they looked, which was in an earlier statement.
create_product(n, row) ==
  /\ ~Now.catalog[n].listed
  /\ row.listed /\ row.id # NoId
  /\ CommitCatalog([Now.catalog EXCEPT ![n] = row])

\* The fields given change in every row with the id.
update_product(id, fields, row) ==
  /\ WithId(id) # {}
  /\ CommitCatalog([n \in Names |->
       IF n \in WithId(id)
       THEN [Now.catalog[n] EXCEPT
               !.active = IF "active" \in fields THEN row.active ELSE @,
               !.risk = IF "risk_level" \in fields THEN row.risk ELSE @,
               !.credit = IF "is_credit_product" \in fields THEN row.credit ELSE @]
       ELSE Now.catalog[n]])

\* update_product with a name: only one row can have it.
rename_product(m, n) ==
  /\ WithId(Now.catalog[m].id) = {m}
  /\ ~Now.catalog[n].listed
  /\ CommitCatalog([Now.catalog EXCEPT ![n] = Now.catalog[m], ![m] = NoRow])

delete_product(id) ==
  /\ WithId(id) # {}
  /\ CommitCatalog([n \in Names |-> IF n \in WithId(id) THEN NoRow
                                                       ELSE Now.catalog[n]])

\* ProductGovernance says which products are staged.
activate_staged_products(staged) ==
  CommitCatalog([n \in Names |->
    IF n \in staged THEN [Now.catalog[n] EXCEPT !.active = TRUE]
                    ELSE Now.catalog[n]])

ProductHandlers ==
  \/ ensure_table
  \/ \E n \in Names, row \in Rows : create_product(n, row)
  \/ \E id \in Products, row \in Rows,
        fields \in SUBSET {"active", "risk_level", "is_credit_product"} :
       update_product(id, fields, row)
  \/ \E m, n \in Names : rename_product(m, n)
  \/ \E id \in Products : delete_product(id)
  \/ \E staged \in SUBSET {n \in Names : Now.catalog[n].listed} :
       activate_staged_products(staged)

OtherHandlers ==
  \/ \E c \in Customers : register_customer(c)
  \/ \E c \in Customers, profiling, automated \in BOOLEAN, risk \in Profiles :
       submit_onboarding(c, profiling, automated, risk)
  \/ \E c \in Customers, profiling, automated \in BOOLEAN :
       update_consent(c, profiling, automated)
  \/ \E active \in BOOLEAN : toggle_kill_switch(active)
  \/ ProductHandlers

-----------------------------------------------------------------------------
(* get_offers, one action per database session.                            *)

Locals(r, locals) ==
  /\ requests' = [requests EXCEPT ![r] = locals]
  /\ UNCHANGED commits

Answer(r, locals, reply) ==
  Locals(r, [locals EXCEPT !.pc = "done", !.reply = reply,
                           !.ended = Len(commits)])

Succeeds == UNCHANGED failures
Fails == failures < MaxFailures /\ failures' = failures + 1

Arrive(r) ==
  /\ requests[r].pc = "idle"
  /\ Locals(r, [requests[r] EXCEPT !.pc = "features", !.born = Len(commits)])
  /\ UNCHANGED <<audit, failures>>

\* Faulty variant: a NULL risk_profile is passed on.
fetch_features_PassesNull(r) ==
  LET q == requests[r]
      row == Now.customers[q.customer] IN
  /\ q.pc = "features"
  /\ \/ Fails /\ Answer(r, q, "500")
     \/ Succeeds /\ ~row.known /\ Answer(r, q, "404")
     \/ /\ Succeeds /\ row.known
        /\ Locals(r, [q EXCEPT !.pc = "kill_switch", !.risk = row.assessed])
  /\ UNCHANGED audit

\* A customer without a risk profile counts as moderate.
fetch_features(r) ==
  LET q == requests[r]
      row == Now.customers[q.customer] IN
  /\ q.pc = "features"
  /\ \/ Fails /\ Answer(r, q, "500")
     \/ Succeeds /\ ~row.known /\ Answer(r, q, "404")
     \/ /\ Succeeds /\ row.known
        /\ Locals(r, [q EXCEPT !.pc = "kill_switch",
                       !.risk = IF row.assessed = NoRisk THEN "moderate"
                                                         ELSE row.assessed])
  /\ UNCHANGED audit

\* Faulty variant: the oldest row of model_kill_switch instead of the latest.
check_kill_switch_Oldest(r) ==
  LET q == requests[r] IN
  /\ q.pc = "kill_switch"
  /\ \/ /\ Fails
        /\ Locals(r, [q EXCEPT !.pc = "consent",
                               !.blind = @ \union {"kill_switch"}])
     \/ Succeeds /\ commits[1].killed /\ Answer(r, q, "killed")
     \/ Succeeds /\ ~commits[1].killed /\ Locals(r, [q EXCEPT !.pc = "consent"])
  /\ UNCHANGED audit

check_kill_switch(r) ==
  LET q == requests[r] IN
  /\ q.pc = "kill_switch"
  /\ \/ /\ Fails
        /\ Locals(r, [q EXCEPT !.pc = "consent",
                               !.blind = @ \union {"kill_switch"}])
     \/ Succeeds /\ Now.killed /\ Answer(r, q, "killed")
     \/ Succeeds /\ ~Now.killed /\ Locals(r, [q EXCEPT !.pc = "consent"])
  /\ UNCHANGED audit

\* With the consents in hand: no profiling consent, no offers.  build_profile
\* raises on some features (OfferScoring says on which).
Enforce(r, locals) ==
  IF locals.profiling
  THEN \/ Locals(r, [locals EXCEPT !.pc = "catalog"])
       \/ Answer(r, locals, "500")
  ELSE Answer(r, locals, "no_consent")

\* Faulty variant: any consent at all lets the pipeline run.
Enforce_AnyConsent(r, locals) ==
  IF locals.profiling \/ locals.automated
  THEN Locals(r, [locals EXCEPT !.pc = "catalog"])
  ELSE Answer(r, locals, "no_consent")

\* Faulty variant: the consent check as Enforce_AnyConsent.
check_consent_AnyConsent(r) ==
  LET q == requests[r]
      row == Now.customers[q.customer] IN
  /\ q.pc = "consent"
  /\ \/ Fails /\ Enforce_AnyConsent(r, [q EXCEPT !.blind = @ \union {"consent"}])
     \/ /\ Succeeds
        /\ Enforce_AnyConsent(r,
             [q EXCEPT !.profiling = row.profiling, !.automated = row.automated,
                       !.fragile = row.fragile, !.external = TRUE])
  /\ UNCHANGED audit

\* Faulty variant: automated_decision_consent taken from profiling_consent.
check_consent_WrongColumn(r) ==
  LET q == requests[r]
      row == Now.customers[q.customer] IN
  /\ q.pc = "consent"
  /\ \/ Fails /\ Enforce(r, [q EXCEPT !.blind = @ \union {"consent"}])
     \/ /\ Succeeds
        /\ Enforce(r,
             [q EXCEPT !.profiling = row.profiling, !.automated = row.profiling,
                       !.fragile = row.fragile, !.external = TRUE])
  /\ UNCHANGED audit

\* A failed read leaves the defaults of consent_snapshot in place.
check_consent(r) ==
  LET q == requests[r]
      row == Now.customers[q.customer] IN
  /\ q.pc = "consent"
  /\ \/ Fails /\ Enforce(r, [q EXCEPT !.blind = @ \union {"consent"}])
     \/ /\ Succeeds
        /\ Enforce(r,
             [q EXCEPT !.profiling = row.profiling, !.automated = row.automated,
                       !.fragile = row.fragile, !.external = TRUE])
  /\ UNCHANGED audit

\* Faulty variant: the risk levels compared the wrong way round.
check_suitability_Reversed(risk, credit, q) ==
  /\ Level(q.risk) =< Level(risk)
  /\ ~(q.fragile /\ credit)

\* _check_suitability_dynamic.
check_suitability(risk, credit, q) ==
  /\ Level(risk) =< Level(q.risk)
  /\ ~(q.fragile /\ credit)

\* What scoring and rank_offers make of the suitable products: some of them.
Ranked(suitable) == {s \in SUBSET suitable : Cardinality(s) =< TopN}

\* The active rows of a catalog that have an id, and those that share n's.
Identified(catalog) ==
  {n \in Names : /\ catalog[n].listed /\ catalog[n].active
                 /\ catalog[n].id # NoId}
Twins(catalog, n) == {m \in Identified(catalog) : catalog[m].id = catalog[n].id}

\* product_risk_map is keyed by product_id: of the rows with one id, the one the
\* query returns last decides the risk of them all.
Last(catalog) ==
  {last \in [Products -> Names] :
     \A n \in Identified(catalog) : last[catalog[n].id] \in Twins(catalog, n)}

\* So is credit_set: one row with the id is enough.
IsCredit(catalog, n) == \E m \in Twins(catalog, n) : catalog[m].credit

\* The hardcoded products, when no row is active or they cannot be read.
OfferDefaults(r, q) ==
  \E s \in Ranked({n \in DefaultProducts :
                     check_suitability(DefaultRisk[n], n \in DefaultCredit, q)}) :
    Locals(r, [q EXCEPT !.pc = "audit", !.fallback = TRUE, !.offers = s])

OfferCatalog(r, q, catalog) ==
  \E last \in Last(catalog) :
    \E s \in Ranked({n \in Identified(catalog) :
                       check_suitability(catalog[last[catalog[n].id]].risk,
                                         IsCredit(catalog, n), q)}) :
      Locals(r, [q EXCEPT !.pc = "audit", !.offers = s])

load_catalog(r) ==
  LET q == requests[r]
      active == {n \in Names : Now.catalog[n].listed /\ Now.catalog[n].active} IN
  /\ q.pc = "catalog"
  /\ \/ Fails /\ OfferDefaults(r, [q EXCEPT !.blind = @ \union {"catalog"}])
     \/ Succeeds /\ active = {} /\ OfferDefaults(r, q)
     \/ Succeeds /\ active # {} /\ OfferCatalog(r, q, Now.catalog)
  /\ UNCHANGED audit

AuditRowOf(r) == [request |-> r, profiling |-> requests[r].profiling,
                  automated |-> requests[r].automated,
                  offers |-> requests[r].offers]

\* Faulty variant: a failed audit write is logged and the offers are served.
write_audit_Swallowed(r) ==
  LET q == requests[r] IN
  /\ q.pc = "audit"
  /\ \/ Fails /\ Answer(r, q, "offers") /\ UNCHANGED audit
     \/ Succeeds /\ Answer(r, q, "offers") /\ audit' = Append(audit, AuditRowOf(r))

\* No offers without their audit record.
write_audit(r) ==
  LET q == requests[r] IN
  /\ q.pc = "audit"
  /\ \/ Fails /\ Answer(r, q, "500") /\ UNCHANGED audit
     \/ Succeeds /\ Answer(r, q, "offers") /\ audit' = Append(audit, AuditRowOf(r))

get_offers(r) ==
  \/ Arrive(r)
  \/ fetch_features(r)
  \/ check_kill_switch(r)
  \/ check_consent(r)
  \/ load_catalog(r)
  \/ write_audit(r)

Next ==
  \/ OtherHandlers
  \/ \E r \in Requests : get_offers(r)

Spec == Init /\ [][Next]_vars

-----------------------------------------------------------------------------
(* Properties.  Those of a served request speak of the commits it lived    *)
(* through: what get_offers read may have changed before it answered, but  *)
(* it must have been true at some time since the request came in.          *)

Served == {r \in Requests : requests[r].reply = "offers"}
Lifetime(q) == q.born..q.ended
CustomerAt(k, q) == commits[k].customers[q.customer]

\* AuditedBeforeServed: offers that were answered have exactly one audit
\* record, with the same offers and the consents the handler went by.
AuditedBeforeServed ==
  \A r \in Served :
    Cardinality({k \in DOMAIN audit : audit[k] = AuditRowOf(r)}) = 1

\* ServedWithConsent: unless the consents could not be read, a customer is
\* served only if profiling consent was in force during the request.
ServedWithConsent ==
  \A r \in Served : LET q == requests[r] IN
    "consent" \in q.blind \/ \E k \in Lifetime(q) : CustomerAt(k, q).profiling

\* ReviewUnlessConsented: unless the consents could not be read, offers go out
\* without human_review_required only if consent to automated decisions was in
\* force during the request.
ReviewUnlessConsented ==
  \A r \in Served : LET q == requests[r] IN
    q.automated =>
      "consent" \in q.blind \/ \E k \in Lifetime(q) : CustomerAt(k, q).automated

\* ServedWhileLive: unless the kill-switch could not be read, it was off at
\* some time during a request that is served.
ServedWhileLive ==
  \A r \in Served : LET q == requests[r] IN
    "kill_switch" \in q.blind \/ \E k \in Lifetime(q) : ~commits[k].killed

\* ServedSuitable: an offer from the catalog was active at a time during the
\* request, and suited the customer as far as its product_id tells: an active
\* row with its id, itself if its id is its own, was of a risk no higher than the
\* customer's at that time or before it; and only if the customer was not
\* fragile all along was any active row with its id a credit product.
ServedSuitable ==
  \A r \in Served : LET q == requests[r] IN
    \A n \in q.offers :
      \/ q.fallback
      \/ \E j, k \in Lifetime(q) : LET catalog == commits[k].catalog IN
           /\ j =< k
           /\ n \in Identified(catalog)
           /\ \E m \in Twins(catalog, n) :
                Level(catalog[m].risk) =< Level(CustomerAt(j, q).assessed)
           /\ \/ ~IsCredit(catalog, n)
              \/ "consent" \in q.blind
              \/ \E i \in j..k : ~CustomerAt(i, q).fragile

-----------------------------------------------------------------------------
(* What the repository says of the handler and the code does not do.       *)

\* KillSwitchStops: BankOffer_AI_Presentation.html:706, once the kill-switch is
\* triggered no new offers are generated until the model is enabled again.
KillSwitchStops ==
  \A r \in Served : LET q == requests[r] IN
    q.offers # {} => \E k \in Lifetime(q) : ~commits[k].killed

\* NoConsentNoOffers: schema.sql:532 (RISK-005), no consent, zero offers.
NoConsentNoOffers ==
  \A r \in Served : LET q == requests[r] IN
    q.offers # {} => \E k \in Lifetime(q) : CustomerAt(k, q).profiling

\* DeactivatedIsGone: BankOffer_AI_Presentation.html:707, a deactivated product
\* is removed from all future recommendations.
DeactivatedIsGone ==
  \A r \in Served : LET q == requests[r] IN
    \A p \in q.offers :
      \E k \in Lifetime(q) : /\ commits[k].catalog[p].listed
                             /\ commits[k].catalog[p].active

\* OwnRiskRespected: schema.sql:529 (RISK-002), the suitability filter blocks
\* mismatched risk levels: a product is judged by its own.
OwnRiskRespected ==
  \A r \in Served : LET q == requests[r] IN
    \A n \in q.offers :
      q.fallback \/ \E j, k \in Lifetime(q) :
        Level(commits[k].catalog[n].risk) =< Level(CustomerAt(j, q).assessed)

\* DeclaredRiskRespected: schema.sql:529 (RISK-002), the suitability filter
\* blocks mismatched risk levels; the customer's level is the one the
\* onboarding wizard recorded in customers.risk_profile.
DeclaredRiskRespected ==
  \A r \in Served : LET q == requests[r] IN
    \A p \in q.offers :
      q.fallback \/ \E j, k \in Lifetime(q) :
        \/ CustomerAt(j, q).declared = NoRisk
        \/ Level(commits[k].catalog[p].risk) =< Level(CustomerAt(j, q).declared)

\* Pseudonymised: offers.py:841, the answer carries the external id and not
\* the customer id.
Pseudonymised ==
  \A r \in Requests :
    requests[r].reply \in {"killed", "no_consent", "offers"}
      => requests[r].external
=============================================================================
