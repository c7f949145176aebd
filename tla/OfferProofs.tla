------------------------------- MODULE OfferProofs --------------------------
(***************************************************************************)
(* Proofs about GET /offers, for any customers, catalogs (with any number  *)
(* of rows for one product_id), requests, commits and failures.            *)
(*                                                                         *)
(* 1. OfferServing.  The properties speak of requests that are answered;   *)
(* RequestInv says what a request under way has established at each of its *)
(* steps, over the commits it has lived through so far.  Commits are only  *)
(* appended, so what it has established it keeps.                          *)
(*                                                                         *)
(* 2. OfferScoring.  The state is a customer and the answer to him, so the *)
(* work is in the functions: that the ranking sorts, keeps and truncates as*)
(* it should, by induction over the offers it goes through; that the sums  *)
(* of boosts and penalties add up over the groups of rules; and how each   *)
(* group counts when one feature changes.                                  *)
(***************************************************************************)
EXTENDS OfferServing, OfferScoring, FiniteSetTheorems, SequenceTheorems,
        NaturalsInduction, TLAPS

\* The commits a request q has lived through, when cs are all of them.
Horizon(q, cs) == IF q.pc = "done" THEN q.ended ELSE Len(cs)
Span(q, cs) == q.born..Horizon(q, cs)
CustomerIn(q, cs, k) == cs[k].customers[q.customer]

\* The request is at one of these steps or was served.
Past(q, steps) == q.pc \in steps \/ q.reply = "offers"

SpanOK(q, cs) ==
  /\ q.pc # "idle" => q.born \in 1..Horizon(q, cs) /\ Horizon(q, cs) =< Len(cs)
  /\ q.reply = "offers" => q.pc = "done"

LiveSeen(q, cs) ==
  Past(q, {"consent", "catalog", "audit"}) =>
    "kill_switch" \in q.blind \/ \E k \in Span(q, cs) : ~cs[k].killed

ConsentSeen(q, cs) ==
  Past(q, {"catalog", "audit"}) =>
    \/ "consent" \in q.blind
    \/ /\ \E k \in Span(q, cs) : CustomerIn(q, cs, k).profiling
       /\ q.automated => \E k \in Span(q, cs) : CustomerIn(q, cs, k).automated

\* At commit j the customer could bear all the risk the handler goes by ...
RiskRead(q, cs, j) == Level(q.risk) =< Level(CustomerIn(q, cs, j).assessed)
RiskSeen(q, cs) ==
  q.pc \in {"kill_switch", "consent"} => \E j \in Span(q, cs) : RiskRead(q, cs, j)

\* ... and at i, not before j, was fragile if the handler takes it for fragile.
FragileRead(q, cs, j, i) ==
  /\ j =< i
  /\ RiskRead(q, cs, j)
  /\ "consent" \in q.blind \/ (~q.fragile => ~CustomerIn(q, cs, i).fragile)
FragileSeen(q, cs) ==
  q.pc = "catalog" => \E i, j \in Span(q, cs) : FragileRead(q, cs, j, i)

SuitableAt(q, cs, n, j, k) ==
  /\ j =< k
  /\ n \in Identified(cs[k].catalog)
  /\ \E m \in Twins(cs[k].catalog, n) :
       Level(cs[k].catalog[m].risk) =< Level(CustomerIn(q, cs, j).assessed)
  /\ \/ ~IsCredit(cs[k].catalog, n)
     \/ "consent" \in q.blind
     \/ \E i \in j..k : ~CustomerIn(q, cs, i).fragile
SuitableSeen(q, cs) ==
  Past(q, {"audit"}) =>
    \A p \in q.offers : q.fallback \/ \E j, k \in Span(q, cs) : SuitableAt(q, cs, p, j, k)

RequestInv(q, cs) ==
  /\ SpanOK(q, cs)
  /\ LiveSeen(q, cs)
  /\ ConsentSeen(q, cs)
  /\ RiskSeen(q, cs)
  /\ FragileSeen(q, cs)
  /\ SuitableSeen(q, cs)

\* The audit records of request r: one if it was served, none before.
AuditOK(r) ==
  IF requests[r].reply = "offers"
  THEN \E k \in DOMAIN audit : /\ audit[k] = AuditRowOf(r)
                               /\ \A l \in DOMAIN audit : audit[l].request = r => l = k
  ELSE \A l \in DOMAIN audit : audit[l].request # r

OfferInv ==
  /\ TypeOK
  /\ \A r \in Requests : RequestInv(requests[r], commits)
  /\ \A r \in Requests : AuditOK(r)

-----------------------------------------------------------------------------

LEMMA FreshTyped ==
  ASSUME NEW c \in Customers
  PROVE  /\ Fresh(c) \in Request
         /\ Fresh(c).pc = "idle" /\ Fresh(c).reply = "none"
BY DEF Fresh, Request, Steps, Replies, Risks, Reads

LEMMA InitInv == Init => OfferInv
<1> SUFFICES ASSUME Init PROVE OfferInv
  OBVIOUS
<1>1. PICK seed \in [Customers -> SeededCustomers], rows \in [Names -> Rows] :
        commits = <<[customers |-> seed, killed |-> FALSE, catalog |-> rows]>>
  BY DEF Init
<1>2. [customers |-> seed, killed |-> FALSE, catalog |-> rows] \in Database
  BY CatalogAssumption, CustomerAssumption DEF Database
<1>3. commits \in Seq(Database) /\ Len(commits) = 1
  BY <1>1, <1>2
<1>4. requests \in [Requests -> Request]
  BY FreshTyped DEF Init
<1>5. audit \in Seq(AuditRow) /\ audit = <<>> /\ failures = 0
  BY DEF Init
<1>6. TypeOK
  BY <1>3, <1>4, <1>5, BoundAssumption DEF TypeOK
<1>7. ASSUME NEW r \in Requests PROVE RequestInv(requests[r], commits) /\ AuditOK(r)
  <2>1. requests[r].pc = "idle" /\ requests[r].reply = "none"
    BY FreshTyped DEF Init
  <2>2. RequestInv(requests[r], commits)
    BY <2>1 DEF RequestInv, SpanOK, LiveSeen, ConsentSeen, RiskSeen, FragileSeen,
      SuitableSeen, Past
  <2>3. AuditOK(r)
    BY <2>1, <1>5 DEF AuditOK
  <2> QED
    BY <2>2, <2>3
<1> QED
  BY <1>6, <1>7 DEF OfferInv

-----------------------------------------------------------------------------
(* The other handlers: what a request has established survives a commit.   *)

LEMMA SpanGrows ==
  ASSUME NEW cs \in Seq(Database), NEW db \in Database, NEW q \in Request, SpanOK(q, cs)
  PROVE  /\ q.pc # "idle" => Span(q, cs) \subseteq Span(q, Append(cs, db))
         /\ q.pc # "idle" => \A k \in Span(q, cs) : Append(cs, db)[k] = cs[k]
         /\ SpanOK(q, Append(cs, db))
<1>1. /\ Len(Append(cs, db)) = Len(cs) + 1 /\ Len(cs) \in Nat
      /\ \A k \in 1..Len(cs) : Append(cs, db)[k] = cs[k]
  OBVIOUS
<1>2. q.ended \in Nat /\ q.born \in Nat
  BY DEF Request
<1> QED
  BY <1>1, <1>2 DEF SpanOK, Span, Horizon

LEMMA CommitKeepsRequest ==
  ASSUME NEW cs \in Seq(Database), NEW db \in Database, NEW q \in Request,
         RequestInv(q, cs)
  PROVE  RequestInv(q, Append(cs, db))
<1> DEFINE ds == Append(cs, db)
<1>1. SpanOK(q, cs) /\ SpanOK(q, ds)
  BY SpanGrows DEF RequestInv
<1>2. CASE q.pc = "idle"
  BY <1>1, <1>2 DEF RequestInv, SpanOK, LiveSeen, ConsentSeen, RiskSeen, FragileSeen,
    SuitableSeen, Past
<1>3. CASE q.pc # "idle"
  <2>1. /\ Span(q, cs) \subseteq Span(q, ds)
        /\ \A k \in Span(q, cs) : ds[k] = cs[k]
    BY <1>1, <1>3, SpanGrows
  <2>2. \A k \in Span(q, cs) : CustomerIn(q, ds, k) = CustomerIn(q, cs, k)
    BY <2>1 DEF CustomerIn
  <2> HIDE DEF ds
  <2>3. LiveSeen(q, ds)
    BY <2>1 DEF RequestInv, LiveSeen
  <2>4. ConsentSeen(q, ds)
    BY <2>1, <2>2 DEF RequestInv, ConsentSeen
  <2>5. RiskSeen(q, ds)
    BY <2>1, <2>2 DEF RequestInv, RiskSeen, RiskRead
  <2>6. FragileSeen(q, ds)
    BY <2>1, <2>2 DEF RequestInv, FragileSeen, FragileRead, RiskRead
  <2>7. ASSUME NEW p \in q.offers, NEW j \in Span(q, cs), NEW k \in Span(q, cs),
               SuitableAt(q, cs, p, j, k)
        PROVE  SuitableAt(q, ds, p, j, k)
    <3>1. \A i \in j..k : i \in Span(q, cs)
      BY <1>1, <1>3 DEF Span, SpanOK, Horizon, Request
    <3> QED
      BY <2>1, <2>2, <2>7, <3>1 DEF SuitableAt
  <2>8. SuitableSeen(q, ds)
    BY <2>1, <2>7 DEF RequestInv, SuitableSeen
  <2> QED
    BY <1>1, <2>3, <2>4, <2>5, <2>6, <2>8 DEF RequestInv, ds
<1> QED
  BY <1>2, <1>3

\* A handler of products.py leaves a catalog whose rows have the shape of rows.
LEMMA ProductsCommit ==
  ASSUME TypeOK, ProductHandlers
  PROVE  \E db \in Database : Commit(db)
<1> DEFINE old == Now.catalog
<1>0. Now \in Database
  BY DEF TypeOK, Now
<1>1. old \in [Names -> Row]
  BY <1>0 DEF Database
<1>2. ASSUME NEW catalog \in [Names -> Row], CommitCatalog(catalog)
      PROVE  \E db \in Database : Commit(db)
  <2>1. [Now EXCEPT !.catalog = catalog] \in Database
    BY <1>0 DEF Database
  <2> QED
    BY <1>2, <2>1 DEF CommitCatalog
<1>3. NoRow \in Row
  BY DEF NoRow, Row, Risks
<1>4. ASSUME ensure_table PROVE \E db \in Database : Commit(db)
  <2> DEFINE id(n) == IF old[n].listed /\ (old[n].id = NoId \/ n \in Canonical)
                      THEN NameId[n] ELSE old[n].id
             new == [n \in Names |-> [old[n] EXCEPT !.id = id(n)]]
  <2>1. ASSUME NEW n \in Names PROVE [old[n] EXCEPT !.id = id(n)] \in Row
    <3>1. id(n) \in Products \union {NoId} /\ old[n] \in Row
      BY <1>1, CatalogAssumption DEF Row
    <3> HIDE DEF id
    <3> QED
      BY <3>1 DEF Row
  <2>2. new \in [Names -> Row]
    BY <2>1
  <2> QED
    BY <1>2, <1>4, <2>2 DEF ensure_table
<1>5. ASSUME NEW n \in Names, NEW row \in Rows, create_product(n, row)
      PROVE  \E db \in Database : Commit(db)
  <2>1. [old EXCEPT ![n] = row] \in [Names -> Row]
    BY <1>1, CatalogAssumption
  <2> QED
    BY <1>2, <1>5, <2>1 DEF create_product
<1>6. ASSUME NEW id \in Products, NEW row \in Rows,
             NEW fields \in SUBSET {"active", "risk_level", "is_credit_product"},
             update_product(id, fields, row)
      PROVE  \E db \in Database : Commit(db)
  <2> DEFINE kept(n) == [old[n] EXCEPT
               !.active = IF "active" \in fields THEN row.active ELSE @,
               !.risk = IF "risk_level" \in fields THEN row.risk ELSE @,
               !.credit = IF "is_credit_product" \in fields THEN row.credit ELSE @]
  <2>1. ASSUME NEW n \in Names PROVE kept(n) \in Row
    <3>1. row \in Row /\ old[n] \in Row
      BY <1>1, CatalogAssumption
    <3> QED
      BY <3>1 DEF Row
  <2> HIDE DEF kept
  <2>2. [n \in Names |-> IF n \in WithId(id) THEN kept(n) ELSE old[n]]
          \in [Names -> Row]
    BY <1>1, <2>1
  <2> QED
    BY <1>2, <1>6, <2>2 DEF update_product, kept
<1>7. ASSUME NEW m \in Names, NEW n \in Names, rename_product(m, n)
      PROVE  \E db \in Database : Commit(db)
  <2>1. [old EXCEPT ![n] = old[m], ![m] = NoRow] \in [Names -> Row]
    BY <1>1, <1>3
  <2> QED
    BY <1>2, <1>7, <2>1 DEF rename_product
<1>8. ASSUME NEW id \in Products, delete_product(id)
      PROVE  \E db \in Database : Commit(db)
  <2>1. [n \in Names |-> IF n \in WithId(id) THEN NoRow ELSE old[n]] \in [Names -> Row]
    BY <1>1, <1>3
  <2> QED
    BY <1>2, <1>8, <2>1 DEF delete_product
<1>9. ASSUME NEW staged, activate_staged_products(staged)
      PROVE  \E db \in Database : Commit(db)
  <2>1. ASSUME NEW n \in Names PROVE [old[n] EXCEPT !.active = TRUE] \in Row
    BY <1>1 DEF Row
  <2>2. [n \in Names |-> IF n \in staged THEN [old[n] EXCEPT !.active = TRUE] ELSE old[n]]
          \in [Names -> Row]
    BY <1>1, <2>1
  <2> QED
    BY <1>2, <1>9, <2>2 DEF activate_staged_products
<1> QED
  BY <1>4, <1>5, <1>6, <1>7, <1>8, <1>9 DEF ProductHandlers

\* Every step of another handler commits one well-typed state of the tables.
LEMMA OthersCommit ==
  ASSUME TypeOK, OtherHandlers
  PROVE  \E db \in Database : Commit(db)
<1>1. Now \in Database
  BY DEF TypeOK, Now
<1>2. ASSUME NEW c \in Customers, NEW row \in Customer
      PROVE  [Now EXCEPT !.customers[c] = row] \in Database
  BY <1>1 DEF Database
<1>3. /\ Now.customers \in [Customers -> Customer]
      /\ Profiles \subseteq Risks
  BY <1>1, CatalogAssumption, CustomerAssumption DEF Database
<1>4. ASSUME NEW c \in Customers, register_customer(c)
      PROVE  \E db \in Database : Commit(db)
  <2>1. [known |-> TRUE, profiling |-> FALSE, automated |-> FALSE, declared |-> NoRisk,
         assessed |-> NoRisk, fragile |-> FALSE] \in Customer
    BY DEF Customer
  <2> QED
    BY <1>2, <1>4, <2>1 DEF register_customer, CommitCustomer
<1>5. ASSUME NEW c \in Customers, NEW profiling \in BOOLEAN, NEW automated \in BOOLEAN,
             NEW risk \in Profiles, submit_onboarding(c, profiling, automated, risk)
      PROVE  \E db \in Database : Commit(db)
  <2>1. [Now.customers[c] EXCEPT !.profiling = profiling, !.automated = automated,
                                 !.declared = risk] \in Customer
    BY <1>3 DEF Customer
  <2> QED
    BY <1>2, <1>5, <2>1 DEF submit_onboarding, CommitCustomer
<1>6. ASSUME NEW c \in Customers, NEW profiling \in BOOLEAN, NEW automated \in BOOLEAN,
             update_consent(c, profiling, automated)
      PROVE  \E db \in Database : Commit(db)
  <2>1. [Now.customers[c] EXCEPT !.profiling = profiling, !.automated = automated]
          \in Customer
    BY <1>3 DEF Customer
  <2> QED
    BY <1>2, <1>6, <2>1 DEF update_consent, CommitCustomer
<1>7. ASSUME NEW active \in BOOLEAN, toggle_kill_switch(active)
      PROVE  \E db \in Database : Commit(db)
  <2>1. [Now EXCEPT !.killed = active] \in Database
    BY <1>1 DEF Database
  <2> QED
    BY <1>7, <2>1 DEF toggle_kill_switch
<1>8. ASSUME ProductHandlers
      PROVE  \E db \in Database : Commit(db)
  BY <1>8, ProductsCommit
<1> QED
  BY <1>4, <1>5, <1>6, <1>7, <1>8 DEF OtherHandlers

LEMMA OthersInv == OfferInv /\ OtherHandlers => OfferInv'
<1> SUFFICES ASSUME OfferInv, OtherHandlers PROVE OfferInv'
  OBVIOUS
<1>1. PICK db \in Database : Commit(db)
  BY OthersCommit DEF OfferInv
<1>2. /\ commits' = Append(commits, db) /\ Len(commits) < MaxCommits
      /\ requests' = requests /\ audit' = audit /\ failures' = failures
  BY <1>1 DEF Commit
<1>3. TypeOK'
  BY <1>2, BoundAssumption DEF OfferInv, TypeOK
<1>4. ASSUME NEW r \in Requests
      PROVE  RequestInv(requests'[r], commits')
  BY <1>2, CommitKeepsRequest DEF OfferInv, TypeOK
<1>5. ASSUME NEW r \in Requests
      PROVE  AuditOK(r)'
  BY <1>2 DEF OfferInv, AuditOK, AuditRowOf
<1> QED
  BY <1>3, <1>4, <1>5 DEF OfferInv

-----------------------------------------------------------------------------
(* A step of get_offers.                                                   *)

\* A step of request r that leaves it unserved and writes no audit record.
LEMMA LocalsInv ==
  ASSUME OfferInv, NEW r \in Requests, NEW x \in Request, Locals(r, x),
         requests[r].pc # "done", x.reply # "offers",
         RequestInv(x, commits),
         UNCHANGED audit, failures' \in 0..MaxFailures
  PROVE  OfferInv'
<1>1. /\ commits' = commits /\ audit' = audit
      /\ requests' = [requests EXCEPT ![r] = x]
  BY DEF Locals
<1>2. requests \in [Requests -> Request]
  BY DEF OfferInv, TypeOK
<1>3. requests'[r] = x /\ \A s \in Requests \ {r} : requests'[s] = requests[s]
  BY <1>1, <1>2
<1>4. TypeOK'
  BY <1>1, <1>2 DEF OfferInv, TypeOK
<1>5. ASSUME NEW s \in Requests PROVE RequestInv(requests'[s], commits')
  BY <1>1, <1>3 DEF OfferInv
<1>6. requests[r].reply # "offers"
  BY DEF OfferInv, RequestInv, SpanOK
<1>7. ASSUME NEW s \in Requests PROVE AuditOK(s)'
  <2>1. CASE s = r
    BY <1>1, <1>3, <1>6, <2>1 DEF OfferInv, AuditOK
  <2>2. CASE s # r
    BY <1>1, <1>3, <2>2 DEF OfferInv, AuditOK, AuditRowOf
  <2> QED
    BY <2>1, <2>2
<1> QED
  BY <1>4, <1>5, <1>7 DEF OfferInv

\* A request that ends without offers.
LEMMA AnswerInv ==
  ASSUME OfferInv, NEW r \in Requests, NEW x \in Request, NEW reply \in Replies,
         Answer(r, x, reply), reply # "offers",
         requests[r].pc \notin {"idle", "done"}, x.born = requests[r].born,
         UNCHANGED audit, failures' \in 0..MaxFailures
  PROVE  OfferInv'
<1> DEFINE y == [x EXCEPT !.pc = "done", !.reply = reply, !.ended = Len(commits)]
<1>1. Len(commits) \in Nat
  BY DEF OfferInv, TypeOK
<1>2. y \in Request
  BY <1>1 DEF Request, Steps
<1>3. y.pc = "done" /\ y.reply = reply /\ y.ended = Len(commits) /\ y.born = x.born
  BY DEF Request
<1>4. SpanOK(requests[r], commits)
  BY DEF OfferInv, RequestInv
<1>5. requests[r].born \in 1..Len(commits)
  BY <1>4 DEF SpanOK, Horizon
<1>6. Locals(r, y)
  BY DEF Answer
<1> HIDE DEF y
<1>7. RequestInv(y, commits)
  BY <1>1, <1>3, <1>5 DEF RequestInv, SpanOK, LiveSeen, ConsentSeen, RiskSeen, FragileSeen,
    SuitableSeen, Past, Horizon
<1> QED
  BY <1>2, <1>3, <1>6, <1>7, LocalsInv

\* The steps between the arrival of a request and its answer.
UnderWay == {"features", "kill_switch", "consent", "catalog", "audit"}

\* A request under way has lived up to the last commit.
LEMMA UnderWayFacts ==
  ASSUME OfferInv, NEW r \in Requests, requests[r].pc \in UnderWay
  PROVE  /\ requests[r] \in Request
         /\ RequestInv(requests[r], commits)
         /\ requests[r].reply # "offers"
         /\ Len(commits) \in Nat /\ Len(commits) \in Span(requests[r], commits)
         /\ Span(requests[r], commits) = requests[r].born..Len(commits)
         /\ Now \in Database
         /\ Now.customers[requests[r].customer] \in Customer
<1>1. /\ requests[r] \in Request /\ RequestInv(requests[r], commits)
      /\ commits \in Seq(Database) /\ Len(commits) \in 1..MaxCommits
  BY DEF OfferInv, TypeOK
<1>2. requests[r].customer \in Customers /\ requests[r].born \in Nat
  BY <1>1 DEF Request
<1>3. Now \in Database
  BY <1>1 DEF Now
<1>4. Now.customers[requests[r].customer] \in Customer
  BY <1>2, <1>3 DEF Database
<1>5. Len(commits) \in Nat
  BY <1>1
<1>6. Horizon(requests[r], commits) = Len(commits)
  BY DEF Horizon, UnderWay
<1>7. requests[r].born \in 1..Len(commits) /\ requests[r].reply # "offers"
  BY <1>1, <1>6 DEF RequestInv, SpanOK, UnderWay
<1> QED
  BY <1>1, <1>3, <1>4, <1>5, <1>6, <1>7 DEF Span

\* A step that changes neither customer nor arrival looks back on the same commits.
LEMMA SameSpan ==
  ASSUME OfferInv, NEW r \in Requests, requests[r].pc \in UnderWay,
         NEW x \in Request, x.pc \in UnderWay, x.reply # "offers",
         x.born = requests[r].born, x.customer = requests[r].customer
  PROVE  /\ Span(x, commits) = Span(requests[r], commits)
         /\ SpanOK(x, commits)
         /\ \A k \in Span(x, commits) :
              CustomerIn(x, commits, k) = CustomerIn(requests[r], commits, k)
<1>1. Horizon(x, commits) = Len(commits) /\ Horizon(requests[r], commits) = Len(commits)
  BY DEF Horizon, UnderWay
<1>2. RequestInv(requests[r], commits) /\ Len(commits) \in Nat
  BY UnderWayFacts
<1> QED
  BY <1>1, <1>2 DEF Span, SpanOK, CustomerIn, UnderWay, RequestInv

LEMMA FailuresTyped ==
  ASSUME TypeOK, Fails \/ Succeeds
  PROVE  failures' \in 0..MaxFailures
BY BoundAssumption DEF TypeOK, Fails, Succeeds

LEMMA ArriveInv ==
  ASSUME OfferInv, NEW r \in Requests, Arrive(r)
  PROVE  OfferInv'
<1> DEFINE q == requests[r]
           x == [q EXCEPT !.pc = "features", !.born = Len(commits)]
<1>1. /\ q \in Request /\ q.pc = "idle" /\ Len(commits) \in Nat /\ Len(commits) >= 1
      /\ Locals(r, x) /\ UNCHANGED <<audit, failures>> /\ failures \in 0..MaxFailures
  BY DEF Arrive, OfferInv, TypeOK
<1>2. x \in Request
  BY <1>1 DEF Request, Steps
<1>3. q.reply # "offers"
  BY <1>1 DEF OfferInv, RequestInv, SpanOK
<1>4. x.pc = "features" /\ x.born = Len(commits) /\ x.reply = q.reply
  BY <1>1 DEF Request
<1> HIDE DEF x
<1>5. RequestInv(x, commits)
  BY <1>1, <1>3, <1>4 DEF RequestInv, SpanOK, LiveSeen, ConsentSeen, RiskSeen, FragileSeen,
    SuitableSeen, Past, Horizon
<1> QED
  BY <1>1, <1>2, <1>3, <1>4, <1>5, LocalsInv

\* A customer without a risk profile is held to be of moderate risk.
LEMMA LevelOfNull == Level(NoRisk) = Level("moderate")
BY CustomerAssumption DEF Level, Risks

LEMMA FeaturesInv ==
  ASSUME OfferInv, NEW r \in Requests, fetch_features(r)
  PROVE  OfferInv'
<1> DEFINE q == requests[r]
           row == Now.customers[q.customer]
           risk == IF row.assessed = NoRisk THEN "moderate" ELSE row.assessed
           x == [q EXCEPT !.pc = "kill_switch", !.risk = risk]
<1>1. /\ q.pc = "features" /\ q.pc \in UnderWay /\ UNCHANGED audit
      /\ \/ Fails /\ Answer(r, q, "500")
         \/ Succeeds /\ Answer(r, q, "404")
         \/ Succeeds /\ Locals(r, x)
  BY DEF fetch_features, UnderWay
<1>2. failures' \in 0..MaxFailures
  BY <1>1, FailuresTyped DEF OfferInv
<1>3. /\ q \in Request /\ q.reply # "offers" /\ row \in Customer
      /\ Len(commits) \in Span(q, commits)
  BY <1>1, UnderWayFacts
<1>4. CASE Answer(r, q, "500") \/ Answer(r, q, "404")
  BY <1>1, <1>2, <1>3, <1>4, AnswerInv DEF Replies
<1>5. CASE Locals(r, x)
  <2>1. risk \in Risks /\ Level(risk) = Level(row.assessed)
    BY <1>3, LevelOfNull DEF Customer, Risks
  <2> HIDE DEF risk
  <2>2. x \in Request
    BY <1>3, <2>1 DEF Request, Steps
  <2>3. /\ x.pc = "kill_switch" /\ x.risk = risk /\ x.reply = q.reply
        /\ x.born = q.born /\ x.customer = q.customer
    BY <1>3 DEF Request
  <2> HIDE DEF x
  <2>4. SpanOK(x, commits) /\ Span(x, commits) = Span(q, commits)
    BY <1>1, <1>3, <2>2, <2>3, SameSpan DEF UnderWay
  <2>5. RiskRead(x, commits, Len(commits))
    <3>1. CustomerIn(x, commits, Len(commits)) = row
      BY <2>3 DEF CustomerIn, Now
    <3>2. Level(row.assessed) \in 1..3
      BY DEF Level
    <3> QED
      BY <2>1, <2>3, <3>1, <3>2 DEF RiskRead
  <2>6. RequestInv(x, commits)
    BY <1>3, <2>3, <2>4, <2>5 DEF RequestInv, LiveSeen, ConsentSeen, RiskSeen, FragileSeen,
      SuitableSeen, Past
  <2> QED
    BY <1>1, <1>2, <1>3, <1>5, <2>2, <2>3, <2>6, LocalsInv
<1> QED
  BY <1>1, <1>4, <1>5

LEMMA KillSwitchInv ==
  ASSUME OfferInv, NEW r \in Requests, check_kill_switch(r)
  PROVE  OfferInv'
<1> DEFINE q == requests[r]
           blind == [q EXCEPT !.pc = "consent", !.blind = @ \union {"kill_switch"}]
           live == [q EXCEPT !.pc = "consent"]
<1>1. /\ q.pc = "kill_switch" /\ q.pc \in UnderWay /\ UNCHANGED audit
      /\ \/ Fails /\ Locals(r, blind)
         \/ Succeeds /\ Answer(r, q, "killed")
         \/ Succeeds /\ ~Now.killed /\ Locals(r, live)
  BY DEF check_kill_switch, UnderWay
<1>2. failures' \in 0..MaxFailures
  BY <1>1, FailuresTyped DEF OfferInv
<1>3. /\ q \in Request /\ q.reply # "offers" /\ RequestInv(q, commits)
      /\ Len(commits) \in Span(q, commits)
  BY <1>1, UnderWayFacts
<1>4. CASE Answer(r, q, "killed")
  BY <1>1, <1>2, <1>3, <1>4, AnswerInv DEF Replies
<1>5. ASSUME NEW x \in Request, Locals(r, x), x.pc = "consent", x.reply = q.reply,
             x.born = q.born, x.customer = q.customer, x.risk = q.risk,
             "kill_switch" \in x.blind \/ ~Now.killed
      PROVE  OfferInv'
  <2>1. /\ SpanOK(x, commits) /\ Span(x, commits) = Span(q, commits)
        /\ \A k \in Span(x, commits) :
             CustomerIn(x, commits, k) = CustomerIn(q, commits, k)
    BY <1>1, <1>3, <1>5, SameSpan DEF UnderWay
  <2>2. RiskSeen(x, commits)
    BY <1>1, <1>3, <1>5, <2>1 DEF RequestInv, RiskSeen, RiskRead
  <2>3. LiveSeen(x, commits)
    BY <1>3, <1>5, <2>1 DEF LiveSeen, Now
  <2>4. RequestInv(x, commits)
    BY <1>3, <1>5, <2>1, <2>2, <2>3 DEF RequestInv, ConsentSeen, FragileSeen,
      SuitableSeen, Past
  <2> QED
    BY <1>1, <1>2, <1>3, <1>5, <2>4, LocalsInv
<1>6. /\ blind \in Request /\ blind.pc = "consent" /\ blind.reply = q.reply
      /\ blind.born = q.born /\ blind.customer = q.customer /\ blind.risk = q.risk
      /\ "kill_switch" \in blind.blind
  BY <1>3 DEF Request, Steps, Reads
<1>7. /\ live \in Request /\ live.pc = "consent" /\ live.reply = q.reply
      /\ live.born = q.born /\ live.customer = q.customer /\ live.risk = q.risk
  BY <1>3 DEF Request, Steps
<1> HIDE DEF blind, live
<1> QED
  BY <1>1, <1>4, <1>5, <1>6, <1>7

\* What Enforce does with locals y, which are at "consent" as q is.
LEMMA EnforceInv ==
  ASSUME OfferInv, NEW r \in Requests, requests[r].pc = "consent",
         NEW y \in Request, Enforce(r, y),
         y.pc = "consent", y.reply = requests[r].reply, y.born = requests[r].born,
         y.customer = requests[r].customer, y.risk = requests[r].risk,
         requests[r].blind \subseteq y.blind,
         \/ "consent" \in y.blind
         \/ LET row == Now.customers[requests[r].customer] IN
            /\ y.profiling => row.profiling
            /\ y.automated => row.automated
            /\ ~y.fragile => ~row.fragile,
         UNCHANGED audit, failures' \in 0..MaxFailures
  PROVE  OfferInv'
<1> DEFINE q == requests[r]
           x == [y EXCEPT !.pc = "catalog"]
           N == Len(commits)
<1>1. /\ q.pc \in UnderWay /\ q.reply # "offers" /\ RequestInv(q, commits)
      /\ N \in Nat /\ N \in Span(q, commits) /\ Span(q, commits) = q.born..N
  BY UnderWayFacts DEF UnderWay
<1>2. CASE ~y.profiling
  <2>1. Answer(r, y, "no_consent")
    BY <1>2 DEF Enforce
  <2> QED
    BY <2>1, AnswerInv DEF Replies
<1>3. CASE Answer(r, y, "500")
  BY <1>1, <1>3, AnswerInv DEF Replies, UnderWay
<1>4. CASE y.profiling /\ ~Answer(r, y, "500")
  <2>1. Locals(r, x)
    BY <1>4 DEF Enforce
  <2>2. x \in Request
    BY DEF Request, Steps
  <2>3. /\ x.pc = "catalog" /\ x.reply = q.reply /\ x.born = q.born
        /\ x.customer = q.customer /\ x.risk = q.risk
    BY DEF Request
  <2>4. x.blind = y.blind
    BY DEF Request
  <2>5. /\ x.profiling = y.profiling /\ x.automated = y.automated
        /\ x.fragile = y.fragile
    BY DEF Request
  <2> HIDE DEF x
  <2>6. /\ SpanOK(x, commits) /\ Span(x, commits) = Span(q, commits)
        /\ \A k \in Span(x, commits) :
             CustomerIn(x, commits, k) = CustomerIn(q, commits, k)
    BY <1>1, <2>2, <2>3, SameSpan DEF UnderWay
  <2>7. LiveSeen(x, commits)
    BY <1>1, <2>4, <2>6 DEF RequestInv, LiveSeen, Past
  <2>8. CustomerIn(x, commits, N) = Now.customers[q.customer]
    BY <2>3 DEF CustomerIn, Now
  <2>9. ConsentSeen(x, commits)
    <3>1. CASE "consent" \in y.blind
      BY <2>4, <3>1 DEF ConsentSeen
    <3>2. CASE "consent" \notin y.blind
      <4>1. CustomerIn(x, commits, N).profiling
        BY <1>4, <2>8, <3>2
      <4>2. x.automated => CustomerIn(x, commits, N).automated
        BY <2>5, <2>8, <3>2
      <4>3. N \in Span(x, commits)
        BY <1>1, <2>6
      <4> QED
        BY <4>1, <4>2, <4>3 DEF ConsentSeen
    <3> QED
      BY <3>1, <3>2
  <2>10. FragileSeen(x, commits)
    <3>1. PICK j \in Span(q, commits) : RiskRead(q, commits, j)
      BY <1>1 DEF RequestInv, RiskSeen
    <3>2. RiskRead(x, commits, j)
      BY <2>3, <2>6, <3>1 DEF RiskRead
    <3>3. j =< N /\ N \in Span(x, commits) /\ j \in Span(x, commits)
      BY <1>1, <2>6, <3>1 DEF Request
    <3>4. "consent" \in x.blind \/ (~x.fragile => ~CustomerIn(x, commits, N).fragile)
      BY <2>4, <2>5, <2>8
    <3>5. FragileRead(x, commits, j, N)
      BY <3>2, <3>3, <3>4 DEF FragileRead
    <3> QED
      BY <3>3, <3>5 DEF FragileSeen
  <2>11. RequestInv(x, commits)
    BY <1>1, <2>3, <2>6, <2>7, <2>9, <2>10 DEF RequestInv, RiskSeen, SuitableSeen, Past
  <2> QED
    BY <1>1, <2>1, <2>2, <2>3, <2>11, LocalsInv
<1> QED
  BY <1>2, <1>3, <1>4

LEMMA ConsentInv ==
  ASSUME OfferInv, NEW r \in Requests, check_consent(r)
  PROVE  OfferInv'
<1> DEFINE q == requests[r]
           row == Now.customers[q.customer]
           blind == [q EXCEPT !.blind = @ \union {"consent"}]
           read == [q EXCEPT !.profiling = row.profiling, !.automated = row.automated,
                             !.fragile = row.fragile, !.external = TRUE]
<1>1. /\ q.pc = "consent" /\ q.pc \in UnderWay /\ UNCHANGED audit
      /\ (Fails /\ Enforce(r, blind)) \/ (Succeeds /\ Enforce(r, read))
  BY DEF check_consent, UnderWay
<1>2. failures' \in 0..MaxFailures
  BY <1>1, FailuresTyped DEF OfferInv
<1>3. q \in Request /\ row \in Customer
  BY <1>1, UnderWayFacts
<1>4. CASE Enforce(r, blind)
  <2>1. blind \in Request
    BY <1>3 DEF Request, Reads
  <2>2. /\ blind.pc = q.pc /\ blind.reply = q.reply /\ blind.born = q.born
        /\ blind.customer = q.customer /\ blind.risk = q.risk
        /\ q.blind \subseteq blind.blind /\ "consent" \in blind.blind
    BY <1>3 DEF Request
  <2> HIDE DEF blind
  <2> QED
    BY <1>1, <1>2, <1>4, <2>1, <2>2, EnforceInv
<1>5. CASE Enforce(r, read)
  <2>1. /\ row.profiling \in BOOLEAN /\ row.automated \in BOOLEAN /\ row.fragile \in BOOLEAN
    BY <1>3 DEF Customer
  <2>2. read \in Request
    BY <1>3, <2>1 DEF Request
  <2>3. /\ read.pc = q.pc /\ read.reply = q.reply /\ read.born = q.born
        /\ read.customer = q.customer /\ read.risk = q.risk
        /\ q.blind \subseteq read.blind
    BY <1>3 DEF Request
  <2>4. /\ read.profiling = row.profiling /\ read.automated = row.automated
        /\ read.fragile = row.fragile
    BY <1>3 DEF Request
  <2> HIDE DEF read
  <2> QED
    BY <1>1, <1>2, <1>5, <2>2, <2>3, <2>4, EnforceInv
<1> QED
  BY <1>1, <1>4, <1>5

\* Offers made of the catalog as it is now suit what the handler knows: whichever
\* row of an id the query returned last, it is a twin of the one it is asked for.
LEMMA OffersSuit ==
  ASSUME OfferInv, NEW r \in Requests, requests[r].pc = "catalog",
         NEW last \in Last(Now.catalog), NEW n \in Identified(Now.catalog),
         check_suitability(Now.catalog[last[Now.catalog[n].id]].risk,
                           IsCredit(Now.catalog, n), requests[r])
  PROVE  \E j \in Span(requests[r], commits) :
           SuitableAt(requests[r], commits, n, j, Len(commits))
<1> DEFINE q == requests[r]
           N == Len(commits)
           catalog == Now.catalog
           m == last[catalog[n].id]
<1>1. /\ RequestInv(q, commits) /\ N \in Nat /\ N \in Span(q, commits)
      /\ Span(q, commits) = q.born..N /\ Now = commits[N] /\ q \in Request
  BY UnderWayFacts DEF UnderWay, Now
<1>2. PICK i, j \in Span(q, commits) : FragileRead(q, commits, j, i)
  BY <1>1 DEF RequestInv, FragileSeen
<1>3. j =< N /\ i \in j..N
  BY <1>1, <1>2 DEF FragileRead, Request
<1>4. m \in Twins(catalog, n)
  BY DEF Last
<1>5. Level(catalog[m].risk) =< Level(CustomerIn(q, commits, j).assessed)
  <2>1. /\ Level(catalog[m].risk) \in 1..3 /\ Level(q.risk) \in 1..3
        /\ Level(CustomerIn(q, commits, j).assessed) \in 1..3
    BY DEF Level
  <2>2. Level(catalog[m].risk) =< Level(q.risk)
    BY DEF check_suitability
  <2>3. Level(q.risk) =< Level(CustomerIn(q, commits, j).assessed)
    BY <1>2 DEF FragileRead, RiskRead
  <2> QED
    BY <2>1, <2>2, <2>3
<1>6. \/ ~IsCredit(catalog, n) \/ "consent" \in q.blind
      \/ \E h \in j..N : ~CustomerIn(q, commits, h).fragile
  <2>1. IsCredit(catalog, n) => ~q.fragile
    BY DEF check_suitability
  <2> QED
    BY <1>2, <1>3, <2>1 DEF FragileRead
<1> QED
  BY <1>1, <1>2, <1>3, <1>4, <1>5, <1>6 DEF SuitableAt

\* A request that has its offers, from the catalog or the hardcoded products.
LEMMA OfferedInv ==
  ASSUME OfferInv, NEW r \in Requests, requests[r].pc = "catalog",
         NEW x \in Request, Locals(r, x), x.pc = "audit", x.reply = requests[r].reply,
         x.born = requests[r].born, x.customer = requests[r].customer,
         requests[r].blind \subseteq x.blind, x.automated = requests[r].automated,
         \/ x.fallback
         \/ \A p \in x.offers : \E j \in Span(requests[r], commits) :
              SuitableAt(requests[r], commits, p, j, Len(commits)),
         UNCHANGED audit, failures' \in 0..MaxFailures
  PROVE  OfferInv'
<1> DEFINE q == requests[r]
           N == Len(commits)
<1>1. /\ q.pc \in UnderWay /\ q.reply # "offers" /\ RequestInv(q, commits) /\ N \in Nat
      /\ N \in Span(q, commits) /\ Span(q, commits) = q.born..N /\ q \in Request
  BY UnderWayFacts DEF UnderWay
<1>2. /\ SpanOK(x, commits) /\ Span(x, commits) = Span(q, commits)
      /\ \A k \in Span(x, commits) : CustomerIn(x, commits, k) = CustomerIn(q, commits, k)
  BY <1>1, SameSpan DEF UnderWay
<1>3. LiveSeen(x, commits)
  BY <1>1, <1>2 DEF RequestInv, LiveSeen, Past
<1>4. ConsentSeen(x, commits)
  BY <1>1, <1>2 DEF RequestInv, ConsentSeen, Past
<1>5. ASSUME NEW p, NEW j \in Span(q, commits), SuitableAt(q, commits, p, j, N)
      PROVE  SuitableAt(x, commits, p, j, N)
  <2>1. \A i \in j..N : i \in Span(q, commits)
    BY <1>1 DEF Request
  <2> QED
    BY <1>2, <1>5, <2>1 DEF SuitableAt
<1>6. SuitableSeen(x, commits)
  BY <1>1, <1>2, <1>5 DEF SuitableSeen
<1>7. RequestInv(x, commits)
  BY <1>2, <1>3, <1>4, <1>6 DEF RequestInv, RiskSeen, FragileSeen
<1> QED
  BY <1>1, <1>7, LocalsInv

LEMMA CatalogInv ==
  ASSUME OfferInv, NEW r \in Requests, load_catalog(r)
  PROVE  OfferInv'
<1> DEFINE q == requests[r]
           blind == [q EXCEPT !.blind = @ \union {"catalog"}]
<1>1. /\ q.pc = "catalog" /\ q.pc \in UnderWay /\ UNCHANGED audit
      /\ Fails \/ Succeeds
      /\ \/ OfferDefaults(r, blind)
         \/ OfferDefaults(r, q)
         \/ OfferCatalog(r, q, Now.catalog)
  BY DEF load_catalog, UnderWay
<1>2. failures' \in 0..MaxFailures
  BY <1>1, FailuresTyped DEF OfferInv
<1>3. q \in Request
  BY <1>1, UnderWayFacts
<1>4. /\ blind \in Request /\ blind.pc = q.pc /\ blind.reply = q.reply
      /\ blind.born = q.born /\ blind.customer = q.customer
      /\ q.blind \subseteq blind.blind
  BY <1>3 DEF Request, Reads
<1>5. blind.automated = q.automated
  BY <1>3 DEF Request
<1> HIDE DEF blind
<1>6. ASSUME NEW y \in Request, OfferDefaults(r, y), y.reply = q.reply, y.born = q.born,
             y.customer = q.customer, q.blind \subseteq y.blind, y.automated = q.automated
      PROVE  OfferInv'
  <2>1. PICK s \in SUBSET DefaultProducts :
          Locals(r, [y EXCEPT !.pc = "audit", !.fallback = TRUE, !.offers = s])
    BY <1>6 DEF OfferDefaults, Ranked
  <2> DEFINE x == [y EXCEPT !.pc = "audit", !.fallback = TRUE, !.offers = s]
  <2>2. x \in Request
    BY CatalogAssumption DEF Request, Steps
  <2>3. /\ x.pc = "audit" /\ x.reply = q.reply /\ x.born = q.born
        /\ x.customer = q.customer /\ q.blind \subseteq x.blind
    BY <1>6 DEF Request
  <2>4. x.automated = q.automated /\ x.fallback
    BY <1>6 DEF Request
  <2> HIDE DEF x
  <2> QED
    BY <1>1, <1>2, <2>1, <2>2, <2>3, <2>4, OfferedInv DEF x
<1>7. ASSUME NEW last \in Last(Now.catalog),
             NEW s \in Ranked({n \in Identified(Now.catalog) :
                         check_suitability(Now.catalog[last[Now.catalog[n].id]].risk,
                                           IsCredit(Now.catalog, n), q)}),
             Locals(r, [q EXCEPT !.pc = "audit", !.offers = s])
      PROVE  OfferInv'
  <2> DEFINE x == [q EXCEPT !.pc = "audit", !.offers = s]
  <2>1. /\ s \subseteq Names
        /\ \A n \in s : /\ n \in Identified(Now.catalog)
                        /\ check_suitability(Now.catalog[last[Now.catalog[n].id]].risk,
                                             IsCredit(Now.catalog, n), q)
    BY <1>7 DEF Ranked, Identified
  <2>2. x \in Request
    BY <1>3, <2>1 DEF Request, Steps
  <2>3. /\ x.pc = "audit" /\ x.reply = q.reply /\ x.born = q.born /\ x.offers = s
        /\ x.customer = q.customer /\ q.blind \subseteq x.blind
    BY <1>3 DEF Request
  <2>4. x.automated = q.automated
    BY <1>3 DEF Request
  <2>5. Locals(r, x)
    BY <1>7
  <2> HIDE DEF x
  <2>6. \A p \in x.offers : \E j \in Span(q, commits) :
          SuitableAt(q, commits, p, j, Len(commits))
    BY <1>1, <2>1, <2>3, OffersSuit
  <2> QED
    BY <1>1, <1>2, <2>2, <2>3, <2>4, <2>5, <2>6, OfferedInv
<1> QED
  BY <1>1, <1>3, <1>4, <1>5, <1>6, <1>7 DEF OfferCatalog

\* The audit record of request r is appended as r is served.
LEMMA AuditAppended ==
  ASSUME OfferInv, NEW r \in Requests, NEW y \in Request,
         requests[r].reply # "offers", y.reply = "offers",
         requests' = [requests EXCEPT ![r] = y],
         audit' = Append(audit, AuditRowOf(r)),
         y.profiling = requests[r].profiling, y.automated = requests[r].automated,
         y.offers = requests[r].offers
  PROVE  /\ audit' \in Seq(AuditRow)
         /\ \A s \in Requests : AuditOK(s)'
<1> DEFINE row == AuditRowOf(r)
           M == Len(audit) + 1
<1>1. /\ requests \in [Requests -> Request] /\ audit \in Seq(AuditRow)
      /\ Len(audit) \in Nat
  BY DEF OfferInv, TypeOK
<1>2. requests'[r] = y /\ \A s \in Requests \ {r} : requests'[s] = requests[s]
  BY <1>1
<1>3. row \in AuditRow /\ row.request = r
  BY <1>1 DEF AuditRowOf, AuditRow, Request
<1>4. AuditRowOf(r)' = row
  BY <1>2 DEF AuditRowOf
<1> HIDE DEF row
<1>5. audit' = Append(audit, row)
  BY DEF row
<1>6. /\ audit' \in Seq(AuditRow)
      /\ DOMAIN audit = 1..Len(audit) /\ DOMAIN audit' = 1..M
      /\ \A k \in DOMAIN audit : audit'[k] = audit[k]
      /\ audit'[M] = row
  BY <1>1, <1>3, <1>5
<1>7. \A l \in DOMAIN audit' : l # M => l \in DOMAIN audit
  BY <1>1, <1>6
<1>8. AuditOK(r)'
  <2>1. \A l \in DOMAIN audit : audit[l].request # r
    BY DEF OfferInv, AuditOK
  <2>2. M \in DOMAIN audit'
    BY <1>1, <1>6
  <2>3. \A l \in DOMAIN audit' : audit'[l].request = r => l = M
    BY <1>6, <1>7, <2>1
  <2> QED
    BY <1>2, <1>4, <1>6, <2>2, <2>3 DEF AuditOK
<1>9. ASSUME NEW s \in Requests, s # r PROVE AuditOK(s)'
  <2>1. requests'[s] = requests[s] /\ AuditRowOf(s)' = AuditRowOf(s)
    BY <1>2, <1>9 DEF AuditRowOf
  <2>2. AuditOK(s)
    BY DEF OfferInv
  <2>3. \A l \in DOMAIN audit' : audit'[l].request = s =>
          l \in DOMAIN audit /\ audit[l].request = s
    BY <1>3, <1>6, <1>7, <1>9
  <2>4. DOMAIN audit \subseteq DOMAIN audit'
    BY <1>1, <1>6
  <2> QED
    BY <1>6, <2>1, <2>2, <2>3, <2>4 DEF AuditOK
<1> QED
  BY <1>6, <1>8, <1>9

LEMMA WriteAuditInv ==
  ASSUME OfferInv, NEW r \in Requests, write_audit(r)
  PROVE  OfferInv'
<1> DEFINE q == requests[r]
           y == [q EXCEPT !.pc = "done", !.reply = "offers", !.ended = Len(commits)]
<1>1. /\ q.pc = "audit" /\ q.pc \in UnderWay /\ (Fails \/ Succeeds)
      /\ \/ Answer(r, q, "500") /\ UNCHANGED audit
         \/ Answer(r, q, "offers") /\ audit' = Append(audit, AuditRowOf(r))
  BY DEF write_audit, UnderWay
<1>2. failures' \in 0..MaxFailures
  BY <1>1, FailuresTyped DEF OfferInv
<1>3. /\ q \in Request /\ RequestInv(q, commits) /\ q.reply # "offers"
      /\ Len(commits) \in Nat /\ Span(q, commits) = q.born..Len(commits)
      /\ Len(commits) \in Span(q, commits)
  BY <1>1, UnderWayFacts
<1>4. CASE Answer(r, q, "500") /\ UNCHANGED audit
  BY <1>1, <1>2, <1>3, <1>4, AnswerInv DEF Replies
<1>5. CASE Answer(r, q, "offers") /\ audit' = Append(audit, AuditRowOf(r))
  <2>1. requests' = [requests EXCEPT ![r] = y] /\ commits' = commits
    BY <1>5 DEF Answer, Locals
  <2>2. y \in Request
    BY <1>3 DEF Request, Steps, Replies
  <2>3. /\ y.pc = "done" /\ y.reply = "offers" /\ y.ended = Len(commits)
        /\ y.born = q.born /\ y.customer = q.customer /\ y.risk = q.risk
        /\ y.blind = q.blind /\ y.offers = q.offers
    BY <1>3 DEF Request
  <2>4. y.profiling = q.profiling /\ y.automated = q.automated
    BY <1>3 DEF Request
  <2>5. y.fragile = q.fragile /\ y.fallback = q.fallback
    BY <1>3 DEF Request
  <2> HIDE DEF y
  <2>6. requests \in [Requests -> Request]
    BY DEF OfferInv, TypeOK
  <2>7. audit' \in Seq(AuditRow) /\ \A s \in Requests : AuditOK(s)'
    BY <1>3, <1>5, <2>1, <2>2, <2>3, <2>4, AuditAppended
  <2>8. TypeOK'
    BY <1>2, <2>1, <2>2, <2>6, <2>7 DEF OfferInv, TypeOK
  <2>9. /\ Span(y, commits) = Span(q, commits) /\ SpanOK(y, commits)
        /\ \A k \in Span(y, commits) : CustomerIn(y, commits, k) = CustomerIn(q, commits, k)
    <3>1. Horizon(y, commits) = Len(commits)
      BY <2>3 DEF Horizon
    <3>2. Span(y, commits) = Span(q, commits)
      BY <1>3, <2>3, <3>1 DEF Span
    <3>3. q.born \in 1..Len(commits)
      BY <1>1, <1>3 DEF RequestInv, SpanOK, Horizon
    <3> QED
      BY <1>3, <2>3, <3>1, <3>2, <3>3 DEF SpanOK, CustomerIn
  <2>10. RequestInv(y, commits)
    <3>1. LiveSeen(y, commits)
      BY <1>1, <1>3, <2>3, <2>9 DEF RequestInv, LiveSeen, Past
    <3>2. ConsentSeen(y, commits)
      BY <1>1, <1>3, <2>3, <2>4, <2>9 DEF RequestInv, ConsentSeen, Past
    <3>3. ASSUME NEW p, NEW j \in Span(q, commits), NEW k \in Span(q, commits),
                 SuitableAt(q, commits, p, j, k)
          PROVE  SuitableAt(y, commits, p, j, k)
      <4>1. \A i \in j..k : i \in Span(q, commits)
        BY <1>3 DEF Request
      <4> QED
        BY <2>3, <2>9, <3>3, <4>1 DEF SuitableAt
    <3>4. SuitableSeen(y, commits)
      BY <1>1, <1>3, <2>3, <2>5, <2>9, <3>3 DEF RequestInv, SuitableSeen, Past
    <3> QED
      BY <2>3, <2>9, <3>1, <3>2, <3>4 DEF RequestInv, RiskSeen, FragileSeen
  <2>11. ASSUME NEW s \in Requests PROVE RequestInv(requests'[s], commits')
    <3>1. requests'[s] = IF s = r THEN y ELSE requests[s]
      BY <2>1, <2>6
    <3> QED
      BY <2>1, <2>10, <3>1 DEF OfferInv
  <2> QED
    BY <2>7, <2>8, <2>11 DEF OfferInv
<1> QED
  BY <1>1, <1>4, <1>5

-----------------------------------------------------------------------------

LEMMA NextInv == OfferInv /\ [Next]_vars => OfferInv'
<1> SUFFICES ASSUME OfferInv, [Next]_vars PROVE OfferInv'
  OBVIOUS
<1>1. CASE UNCHANGED vars
  BY <1>1 DEF vars, OfferInv, TypeOK, AuditOK, AuditRowOf
<1>2. CASE OtherHandlers
  BY <1>2, OthersInv
<1>3. ASSUME NEW r \in Requests, get_offers(r) PROVE OfferInv'
  BY <1>3, ArriveInv, FeaturesInv, KillSwitchInv, ConsentInv, CatalogInv, WriteAuditInv
     DEF get_offers
<1> QED
  BY <1>1, <1>2, <1>3 DEF Next

\* OfferInv is an invariant of get_offers among the handlers it races with.
THEOREM Invariance == Spec => []OfferInv
<1>1. Init => OfferInv
  BY InitInv
<1>2. OfferInv /\ [Next]_vars => OfferInv'
  BY NextInv
<1> QED
  BY <1>1, <1>2, PTL DEF Spec

\* Every variable keeps its type.
THEOREM OfferTypeCorrect == Spec => []TypeOK
BY Invariance, PTL DEF OfferInv

\* The commits of a served request are those of its lifetime.
LEMMA ServedFacts ==
  ASSUME OfferInv, NEW r \in Served
  PROVE  /\ r \in Requests /\ requests[r].reply = "offers"
         /\ RequestInv(requests[r], commits)
         /\ Span(requests[r], commits) = Lifetime(requests[r])
         /\ \A k \in Lifetime(requests[r]) :
              CustomerIn(requests[r], commits, k) = CustomerAt(k, requests[r])
BY DEF Served, OfferInv, RequestInv, SpanOK, Span, Horizon, Lifetime, CustomerIn, CustomerAt

\* A customer is served only with profiling consent in force during the request,
\* unless the consents could not be read, whatever commits in between.
THEOREM OfferConsent == Spec => []ServedWithConsent
<1>1. OfferInv => ServedWithConsent
  BY ServedFacts DEF ServedWithConsent, RequestInv, ConsentSeen, Past
<1> QED
  BY <1>1, Invariance, PTL

\* Offers go out unreviewed only with consent to automated decisions in force
\* during the request, unless the consents could not be read.
THEOREM OfferReview == Spec => []ReviewUnlessConsented
<1>1. OfferInv => ReviewUnlessConsented
  BY ServedFacts DEF ReviewUnlessConsented, RequestInv, ConsentSeen, Past
<1> QED
  BY <1>1, Invariance, PTL

\* A request is served only if the kill-switch was off during it, unless it could
\* not be read.
THEOREM OfferLive == Spec => []ServedWhileLive
<1>1. OfferInv => ServedWhileLive
  BY ServedFacts DEF ServedWhileLive, RequestInv, LiveSeen, Past
<1> QED
  BY <1>1, Invariance, PTL

\* What is offered from the catalog was active during the request, and suited the
\* customer by a row with its product_id, which is all the code compares.
THEOREM OfferSuitable == Spec => []ServedSuitable
<1>1. ASSUME OfferInv PROVE ServedSuitable
  <2>1. SUFFICES ASSUME NEW r \in Served, NEW n \in requests[r].offers,
                        ~requests[r].fallback
                 PROVE  \E j, k \in Lifetime(requests[r]) :
           /\ j =< k
           /\ n \in Identified(commits[k].catalog)
           /\ \E m \in Twins(commits[k].catalog, n) :
                Level(commits[k].catalog[m].risk)
                  =< Level(CustomerAt(j, requests[r]).assessed)
           /\ \/ ~IsCredit(commits[k].catalog, n)
              \/ "consent" \in requests[r].blind
              \/ \E i \in j..k : ~CustomerAt(i, requests[r]).fragile
    BY DEF ServedSuitable
  <2>2. PICK j, k \in Lifetime(requests[r]) : SuitableAt(requests[r], commits, n, j, k)
    BY <1>1, <2>1, ServedFacts DEF RequestInv, SuitableSeen, Past
  <2>3. \A i : CustomerIn(requests[r], commits, i) = CustomerAt(i, requests[r])
    BY DEF CustomerIn, CustomerAt
  <2> QED
    BY <2>2, <2>3 DEF SuitableAt
<1> QED
  BY <1>1, Invariance, PTL

\* No offers without exactly one audit record of them.
THEOREM OfferAudited == Spec => []AuditedBeforeServed
<1>1. ASSUME OfferInv PROVE AuditedBeforeServed
  <2>1. SUFFICES ASSUME NEW r \in Served
                 PROVE  Cardinality({k \in DOMAIN audit : audit[k] = AuditRowOf(r)}) = 1
    BY DEF AuditedBeforeServed
  <2>2. PICK k \in DOMAIN audit :
          /\ audit[k] = AuditRowOf(r)
          /\ \A l \in DOMAIN audit : audit[l].request = r => l = k
    BY <1>1, ServedFacts DEF OfferInv, AuditOK
  <2>3. AuditRowOf(r).request = r
    BY DEF AuditRowOf
  <2>4. {l \in DOMAIN audit : audit[l] = AuditRowOf(r)} = {k}
    BY <2>2, <2>3
  <2> QED
    BY <2>4, FS_Singleton
<1> QED
  BY <1>1, Invariance, PTL

-----------------------------------------------------------------------------
(* Induction, for a set.                                                   *)

\* A set that contains 0, and n + 1 with every n, contains the naturals.
LEMMA NatsInSet ==
  ASSUME NEW S, 0 \in S, \A n \in Nat : n \in S => n + 1 \in S
  PROVE  Nat \subseteq S
<1> DEFINE T == Nat \ S
<1>1. SUFFICES ASSUME T # {} PROVE FALSE
    OBVIOUS
<1>2. PICK x \in T : \A y \in T : <<y, x>> \notin OpToRel(<, Nat)
    BY <1>1, NatLessThanWellFounded, WFMin, T \subseteq Nat
<1>3. x # 0 /\ x \in Nat
    OBVIOUS
<1>4. x - 1 \in T
    BY <1>3
<1>5. <<x - 1, x>> \in OpToRel(<, Nat)
    BY <1>3, <1>4 DEF OpToRel
<1> QED
    BY <1>2, <1>4, <1>5

-----------------------------------------------------------------------------
(* The sum of a sequence.                                                  *)

IsUpto(u, s, n) ==
  u = [m \in 0..n |-> IF m = 0 THEN 0 ELSE u[m - 1] + s[m]]

\* SumOf is computed from left to right.
LEMMA UptoExists ==
  ASSUME NEW s, NEW n \in Nat
  PROVE  \E u : IsUpto(u, s, n)
<1> DEFINE S == {k \in Nat : \E u : IsUpto(u, s, k)}
<1>1. 0 \in S
  <2> DEFINE u == [m \in 0..0 |-> 0]
  <2>1. IsUpto(u, s, 0)
      BY DEF IsUpto
  <2> QED
      BY <2>1
<1>2. ASSUME NEW k \in Nat, k \in S PROVE k + 1 \in S
  <2>1. PICK u : IsUpto(u, s, k)
      BY <1>2
  <2> DEFINE v == [m \in 0..k + 1 |-> IF m = k + 1 THEN u[k] + s[k + 1] ELSE u[m]]
  <2>2. \A m \in 0..k + 1 : v[m] = IF m = 0 THEN 0 ELSE v[m - 1] + s[m]
    <3> TAKE m \in 0..k + 1
    <3>1. CASE m = k + 1
        BY <3>1
    <3>2. CASE m # k + 1
      <4>1. m \in 0..k
          BY <3>2
      <4>2. u[m] = IF m = 0 THEN 0 ELSE u[m - 1] + s[m]
          BY <2>1, <4>1 DEF IsUpto
      <4> QED
          BY <3>2, <4>1, <4>2
    <3> QED
        BY <3>1, <3>2
  <2>3. IsUpto(v, s, k + 1)
      BY <2>2 DEF IsUpto
  <2> QED
      BY <2>3
<1> HIDE DEF S
<1>3. Nat \subseteq S
    BY <1>1, <1>2, NatsInSet
<1> QED
    BY <1>3 DEF S

\* It is the last of the sums up to each position.
LEMMA SumUpto ==
  ASSUME NEW s, Len(s) \in Nat
  PROVE  \E u : IsUpto(u, s, Len(s)) /\ SumOf(s) = u[Len(s)]
<1> DEFINE u == CHOOSE f : IsUpto(f, s, Len(s))
<1>1. IsUpto(u, s, Len(s))
    BY UptoExists
<1>2. SumOf(s) = u[Len(s)]
    BY DEF SumOf, IsUpto
<1> QED
    BY <1>1, <1>2

\* What a sequence of integers adds up to is an integer, and nothing if all are 0.
LEMMA SumInt ==
  ASSUME NEW s \in Seq(Int)
  PROVE  /\ SumOf(s) \in Int
         /\ (\A i \in 1..Len(s) : s[i] >= 0) => SumOf(s) >= 0
         /\ (\A i \in 1..Len(s) : s[i] = 0) => SumOf(s) = 0
<1>1. PICK u : IsUpto(u, s, Len(s)) /\ SumOf(s) = u[Len(s)]
    BY SumUpto
<1> DEFINE S == {n \in Nat : n =< Len(s) =>
                   /\ u[n] \in Int
                   /\ (\A i \in 1..Len(s) : s[i] >= 0) => u[n] >= 0
                   /\ (\A i \in 1..Len(s) : s[i] = 0) => u[n] = 0}
<1>2. 0 \in S
    BY <1>1 DEF IsUpto
<1>3. ASSUME NEW n \in Nat, n \in S PROVE n + 1 \in S
  <2>1. SUFFICES ASSUME n + 1 =< Len(s)
                 PROVE  /\ u[n + 1] \in Int
                        /\ (\A i \in 1..Len(s) : s[i] >= 0) => u[n + 1] >= 0
                        /\ (\A i \in 1..Len(s) : s[i] = 0) => u[n + 1] = 0
      OBVIOUS
  <2>2. u[n + 1] = u[n] + s[n + 1]
      BY <1>1, <2>1 DEF IsUpto
  <2>3. s[n + 1] \in Int /\ n + 1 \in 1..Len(s)
      BY <2>1
  <2> QED
      BY <1>3, <2>1, <2>2, <2>3
<1> HIDE DEF S
<1>4. Len(s) \in S
    BY <1>2, <1>3, NatsInSet
<1> QED
    BY <1>1, <1>4 DEF S

\* The sum of a concatenation is the sum of the sums.
LEMMA SumConcat ==
  ASSUME NEW s \in Seq(Int), NEW t \in Seq(Int)
  PROVE  SumOf(s \o t) = SumOf(s) + SumOf(t)
<1> DEFINE a == Len(s)
           b == Len(t)
<1>0. a \in Nat /\ b \in Nat /\ s \o t \in Seq(Int) /\ Len(s \o t) = a + b
    OBVIOUS
<1>1. PICK u : IsUpto(u, s, a) /\ SumOf(s) = u[a]
    BY SumUpto
<1>2. PICK v : IsUpto(v, t, b) /\ SumOf(t) = v[b]
    BY SumUpto
<1> DEFINE st == s \o t
<1>3. PICK w : IsUpto(w, st, a + b) /\ SumOf(st) = w[a + b]
  <2> HIDE DEF st
  <2>1. Len(st) = a + b /\ Len(st) \in Nat
      BY <1>0 DEF st
  <2> QED
      BY <2>1, SumUpto
<1> DEFINE S == {n \in Nat : n =< a => w[n] \in Int /\ w[n] = u[n]}
           T == {n \in Nat : n =< b => v[n] \in Int /\ w[a + n] = u[a] + v[n]}
<1>4. 0 \in S
    BY <1>0, <1>1, <1>3 DEF IsUpto
<1>5. ASSUME NEW n \in Nat, n \in S PROVE n + 1 \in S
  <2>1. SUFFICES ASSUME n + 1 =< a PROVE w[n + 1] \in Int /\ w[n + 1] = u[n + 1]
      OBVIOUS
  <2>2. u[n + 1] = u[n] + s[n + 1]
      BY <1>0, <1>1, <2>1 DEF IsUpto
  <2>3. w[n + 1] = w[n] + st[n + 1]
    <3> HIDE DEF st
    <3> QED
        BY <1>0, <1>3, <2>1 DEF IsUpto
  <2>4. (s \o t)[n + 1] = s[n + 1] /\ s[n + 1] \in Int
      BY <2>1
  <2> QED
      BY <1>5, <2>1, <2>2, <2>3, <2>4
<1>6. a \in S
  <2> HIDE DEF S
  <2> QED
      BY <1>0, <1>4, <1>5, NatsInSet
<1>7. 0 \in T
    BY <1>0, <1>2, <1>6 DEF IsUpto
<1>8. ASSUME NEW n \in Nat, n \in T PROVE n + 1 \in T
  <2>1. SUFFICES ASSUME n + 1 =< b
                 PROVE  v[n + 1] \in Int /\ w[a + (n + 1)] = u[a] + v[n + 1]
      OBVIOUS
  <2>2. v[n + 1] = v[n] + t[n + 1]
      BY <1>0, <1>2, <2>1 DEF IsUpto
  <2>3. w[a + n + 1] = w[a + n] + st[a + n + 1]
    <3> HIDE DEF a, b, st
    <3>1. a + n + 1 \in 0..a + b /\ a + n + 1 # 0 /\ (a + n + 1) - 1 = a + n
        BY <1>0, <2>1
    <3> QED
        BY <1>3, <3>1 DEF IsUpto
  <2>4. (s \o t)[a + n + 1] = t[n + 1] /\ t[n + 1] \in Int
      BY <2>1
  <2>5. u[a] \in Int
      BY <1>0, <1>6
  <2>6. v[n] \in Int /\ w[a + n] = u[a] + v[n]
      BY <1>8, <2>1
  <2>7. v[n + 1] \in Int
      BY <2>2, <2>4, <2>6
  <2>8. a + (n + 1) = a + n + 1
      BY <1>0
  <2>9. w[a + n + 1] = u[a] + v[n] + t[n + 1]
      BY <2>3, <2>4, <2>6
  <2> HIDE DEF a, b, st
  <2> QED
      BY <2>2, <2>4, <2>5, <2>6, <2>7, <2>8, <2>9
<1>9. b \in T
  <2> HIDE DEF T
  <2> QED
      BY <1>0, <1>7, <1>8, NatsInSet
<1> HIDE DEF st
<1>10. SumOf(st) = SumOf(s) + SumOf(t)
    BY <1>0, <1>1, <1>2, <1>3, <1>9
<1> QED
    BY <1>10 DEF st

-----------------------------------------------------------------------------
(* The order of the candidates.                                            *)

\* pos is a permutation of the positions in S by which BestFirst sorts them: each
\* has a place, and one that is ahead of another has an earlier one.
Sorts(pos, scored, S) ==
  /\ pos \in [1..Cardinality(S) -> S]
  /\ BestFirst(scored, S) = [k \in 1..Cardinality(S) |-> scored[pos[k]]]
  /\ \A k, l \in 1..Cardinality(S) : k < l => Ahead(scored, pos[k], pos[l])
  /\ \A i \in S : \E k \in 1..Cardinality(S) : pos[k] = i

\* BestFirst sorts, as Ahead is a linear order of the positions.
LEMMA BestFirstSorts ==
  ASSUME NEW scored, NEW S, S \subseteq Nat, IsFiniteSet(S),
         \A i \in S : scored[i].relevance \in Int
  PROVE  \E pos : Sorts(pos, scored, S)
<1> DEFINE N == Cardinality(S)
           Upto(i) == {j \in S : i = j \/ Ahead(scored, j, i)}
           place == [i \in S |-> Cardinality(Upto(i))]
           pos == [k \in 1..N |-> CHOOSE i \in S : place[i] = k]
<1>1. N \in Nat
    BY FS_CardinalityType
<1>2. \A i \in S : IsFiniteSet(Upto(i)) /\ place[i] \in 1..N
  <2> TAKE i \in S
  <2>1. Upto(i) \in SUBSET S /\ i \in Upto(i)
      OBVIOUS
  <2> HIDE DEF Upto
  <2>2. IsFiniteSet(Upto(i)) /\ Cardinality(Upto(i)) =< N
      BY <2>1, FS_Subset
  <2>3. Cardinality(Upto(i)) \in Nat /\ Cardinality(Upto(i)) # 0
      BY <2>1, <2>2, FS_CardinalityType, FS_EmptySet
  <2> QED
      BY <1>1, <2>2, <2>3
<1>3. \A i, j \in S : Ahead(scored, i, j) => place[i] < place[j]
  <2> SUFFICES ASSUME NEW i \in S, NEW j \in S, Ahead(scored, i, j)
               PROVE  place[i] < place[j]
      OBVIOUS
  <2>1. Upto(i) \in SUBSET Upto(j)
    <3> SUFFICES ASSUME NEW k \in S, Ahead(scored, k, i)
                 PROVE  Ahead(scored, k, j)
        OBVIOUS
    <3>1. i \in Nat /\ j \in Nat /\ k \in Nat
          /\ scored[i].relevance \in Int /\ scored[j].relevance \in Int
          /\ scored[k].relevance \in Int
        OBVIOUS
    <3> QED
        BY <3>1 DEF Ahead
  <2>2. j \in Upto(j) /\ j \notin Upto(i)
    <3>1. i \in Nat /\ j \in Nat /\ scored[i].relevance \in Int
          /\ scored[j].relevance \in Int
        OBVIOUS
    <3>2. i # j /\ ~Ahead(scored, j, i)
        BY <3>1 DEF Ahead
    <3> QED
        BY <3>2
  <2> HIDE DEF Upto
  <2>3. Cardinality(Upto(i)) =< Cardinality(Upto(j))
        /\ Cardinality(Upto(i)) # Cardinality(Upto(j))
      BY <1>2, <2>1, <2>2, FS_Subset
  <2> QED
      BY <1>1, <1>2, <2>3
<1>4. \A i, j \in S : i # j => Ahead(scored, i, j) \/ Ahead(scored, j, i)
    BY DEF Ahead
<1> HIDE DEF place, Upto
<1>5. \A i, j \in S : place[i] = place[j] => i = j
  <2> SUFFICES ASSUME NEW i \in S, NEW j \in S, place[i] = place[j], i # j
               PROVE  FALSE
      OBVIOUS
  <2>1. place[i] \in Int /\ place[j] \in Int
      BY <1>1, <1>2
  <2>2. place[i] < place[j] \/ place[j] < place[i]
      BY <1>3, <1>4
  <2> QED
      BY <2>1, <2>2
<1>6. place \in Injection(S, 1..N)
  <2>1. place \in [S -> 1..N]
      BY <1>2 DEF place
  <2> QED
      BY <1>5, <2>1 DEF Injection, IsInjective
<1>7. IsFiniteSet(1..N) /\ Cardinality(1..N) = N
    BY <1>1, FS_Interval
<1>8. place \in Surjection(S, 1..N)
    BY <1>6, <1>7, FS_Injection
<1>9. \A k \in 1..N : \E i \in S : place[i] = k
    BY <1>8 DEF Surjection
<1>10. \A k \in 1..N : pos[k] \in S /\ place[pos[k]] = k
    BY <1>9
<1>11. pos \in [1..N -> S]
    BY <1>10
<1>12. BestFirst(scored, S) = [k \in 1..N |-> scored[pos[k]]]
    BY DEF BestFirst, place, Upto
<1> HIDE DEF pos
<1>13. \A k, l \in 1..N : k < l => Ahead(scored, pos[k], pos[l])
  <2> SUFFICES ASSUME NEW k \in 1..N, NEW l \in 1..N, k < l
               PROVE  Ahead(scored, pos[k], pos[l])
      OBVIOUS
  <2>1. ~Ahead(scored, pos[l], pos[k])
    <3>1. pos[k] \in S /\ pos[l] \in S /\ place[pos[k]] = k /\ place[pos[l]] = l
        BY <1>10
    <3>2. Ahead(scored, pos[l], pos[k]) => place[pos[l]] < place[pos[k]]
        BY <1>3, <3>1
    <3> QED
        BY <1>1, <3>1, <3>2
  <2>2. pos[k] # pos[l]
      BY <1>1, <1>10
  <2> QED
      BY <1>4, <1>10, <2>1, <2>2
<1>14. \A i \in S : \E k \in 1..N : pos[k] = i
    BY <1>2, <1>5, <1>10
<1>15. Sorts(pos, scored, S)
    BY <1>11, <1>12, <1>13, <1>14 DEF Sorts
<1> QED
    BY <1>15

-----------------------------------------------------------------------------
(* What is kept of them.                                                   *)

IsResult(r, offers, n) ==
  r = [m \in 0..n |-> IF m = 0 THEN <<>> ELSE Kept(r[m - 1], offers[m])]

\* _apply_type_diversity goes through the offers from the first to the last.
LEMMA ResultExists ==
  ASSUME NEW offers, NEW n \in Nat
  PROVE  \E r : IsResult(r, offers, n)
<1> DEFINE S == {k \in Nat : \E r : IsResult(r, offers, k)}
<1>1. 0 \in S
  <2> DEFINE r == [m \in 0..0 |-> <<>>]
  <2>1. IsResult(r, offers, 0)
      BY DEF IsResult
  <2> QED
      BY <2>1
<1>2. ASSUME NEW k \in Nat, k \in S PROVE k + 1 \in S
  <2>1. PICK r : IsResult(r, offers, k)
      BY <1>2
  <2> DEFINE q == [m \in 0..k + 1 |->
                     IF m = k + 1 THEN Kept(r[k], offers[k + 1]) ELSE r[m]]
  <2>2. \A m \in 0..k + 1 :
          q[m] = IF m = 0 THEN <<>> ELSE Kept(q[m - 1], offers[m])
    <3> TAKE m \in 0..k + 1
    <3>1. CASE m = k + 1
        BY <3>1
    <3>2. CASE m # k + 1
      <4>1. m \in 0..k
          BY <3>2
      <4>2. r[m] = IF m = 0 THEN <<>> ELSE Kept(r[m - 1], offers[m])
          BY <2>1, <4>1 DEF IsResult
      <4> QED
          BY <3>2, <4>1, <4>2
    <3> QED
        BY <3>1, <3>2
  <2>3. IsResult(q, offers, k + 1)
      BY <2>2 DEF IsResult
  <2> QED
      BY <2>3
<1> HIDE DEF S
<1>3. Nat \subseteq S
    BY <1>1, <1>2, NatsInSet
<1> QED
    BY <1>3 DEF S

\* It is what is kept after the last.
LEMMA DiversityResult ==
  ASSUME NEW offers, Len(offers) \in Nat
  PROVE  \E r : IsResult(r, offers, Len(offers))
                /\ _apply_type_diversity(offers) = r[Len(offers)]
<1> DEFINE r == CHOOSE f : IsResult(f, offers, Len(offers))
<1>1. IsResult(r, offers, Len(offers))
    BY ResultExists
<1>2. _apply_type_diversity(offers) = r[Len(offers)]
    BY DEF _apply_type_diversity, IsResult
<1> QED
    BY <1>1, <1>2

\* The offers of the type of o that are at least as relevant.
AtLeast(offers, o) ==
  {k \in 1..Len(offers) : offers[k].type = o.type /\ offers[k].relevance >= o.relevance}

\* kept is made of the first n offers, in order, with no more than MAX_SAME_TYPE
\* of a type, and whatever of them is not in it has that many before it.
Diverse(kept, offers, n) ==
  /\ \A k, l \in 1..Len(kept) : k < l => kept[k].relevance >= kept[l].relevance
  /\ \A k \in 1..Len(kept) : \E m \in 1..n : kept[k] = offers[m]
  /\ \A type : Cardinality(OfType(kept, type)) =< MAX_SAME_TYPE
  /\ \A m \in 1..n : \/ \E k \in 1..Len(kept) : kept[k] = offers[m]
                     \/ Cardinality(AtLeast(kept, offers[m])) = MAX_SAME_TYPE
  /\ n > 0 => Len(kept) > 0

\* The offers that are counted are finitely many.
LEMMA OfTypeFinite ==
  ASSUME NEW T, NEW offers \in Seq(T), NEW type, NEW o
  PROVE  /\ OfType(offers, type) \subseteq 1..Len(offers)
         /\ IsFiniteSet(OfType(offers, type)) /\ Cardinality(OfType(offers, type)) \in Nat
         /\ AtLeast(offers, o) \subseteq OfType(offers, o.type)
         /\ IsFiniteSet(AtLeast(offers, o)) /\ Cardinality(AtLeast(offers, o)) \in Nat
<1>1. \A t : OfType(offers, t) \in SUBSET (1..Len(offers))
    BY DEF OfType
<1>2. AtLeast(offers, o) \in SUBSET (1..Len(offers)) /\ AtLeast(offers, o) \subseteq OfType(offers, o.type)
    BY DEF OfType, AtLeast
<1>3. IsFiniteSet(1..Len(offers))
    BY FS_Interval
<1> QED
    BY <1>1, <1>2, <1>3, FS_Subset, FS_CardinalityType

\* Each offer that is looked at keeps it so.
LEMMA DiverseStep ==
  ASSUME NEW T, \A o \in T : o.relevance \in Int, NEW offers \in Seq(T),
         \A k, l \in 1..Len(offers) : k < l => offers[k].relevance >= offers[l].relevance,
         NEW n \in Nat, n + 1 =< Len(offers),
         NEW before \in Seq(T), Diverse(before, offers, n)
  PROVE  /\ Kept(before, offers[n + 1]) \in Seq(T)
         /\ Diverse(Kept(before, offers[n + 1]), offers, n + 1)
<1> DEFINE o == offers[n + 1]
           L == Len(before)
<1>1. o \in T /\ L \in Nat /\ MAX_SAME_TYPE \in Nat \ {0}
    BY ScoringBounds
<1>2. \A k \in 1..L : before[k] \in T /\ before[k].relevance >= o.relevance
  <2> TAKE k \in 1..L
  <2>1. PICK m \in 1..n : before[k] = offers[m]
      BY DEF Diverse
  <2>2. m < n + 1 /\ m \in 1..Len(offers) /\ n + 1 \in 1..Len(offers)
      OBVIOUS
  <2> QED
      BY <2>1, <2>2
<1>3. CASE Cardinality(OfType(before, o.type)) < MAX_SAME_TYPE
  <2> DEFINE new == Append(before, o)
  <2>1. Kept(before, o) = new
      BY <1>3 DEF Kept
  <2>2. /\ new \in Seq(T) /\ Len(new) = L + 1 /\ new[L + 1] = o
        /\ \A k \in 1..L : new[k] = before[k]
      BY <1>1
  <2> HIDE DEF new, o, L
  <2>3. \A k, l \in 1..Len(new) : k < l => new[k].relevance >= new[l].relevance
    <3> SUFFICES ASSUME NEW k \in 1..L + 1, NEW l \in 1..L + 1, k < l
                 PROVE  new[k].relevance >= new[l].relevance
        BY <2>2
    <3>1. k \in 1..L /\ (l \in 1..L \/ l = L + 1)
        BY <1>1
    <3> QED
        BY <1>2, <2>2, <3>1 DEF Diverse, L
  <2>4. \A k \in 1..Len(new) : \E m \in 1..n + 1 : new[k] = offers[m]
    <3> SUFFICES ASSUME NEW k \in 1..L + 1
                 PROVE  \E m \in 1..n + 1 : new[k] = offers[m]
        BY <2>2
    <3>1. CASE k = L + 1
        BY <2>2, <3>1 DEF o
    <3>2. CASE k # L + 1
      <4>1. k \in 1..L
          BY <1>1, <3>2
      <4>2. PICK m \in 1..n : before[k] = offers[m]
          BY <4>1 DEF Diverse, L
      <4> QED
          BY <2>2, <4>1, <4>2
    <3> QED
        BY <3>1, <3>2
  <2>5. \A type : Cardinality(OfType(new, type)) =< MAX_SAME_TYPE
    <3> TAKE type
    <3>1. IsFiniteSet(OfType(before, type)) /\ L + 1 \notin OfType(before, type)
          /\ Cardinality(OfType(before, type)) \in Nat
        BY <1>1, OfTypeFinite DEF L
    <3>2. OfType(new, type) =
            IF type = o.type THEN OfType(before, type) \union {L + 1} ELSE OfType(before, type)
      <4>1. DOMAIN new = 1..L + 1 /\ DOMAIN before = 1..L
          BY <2>2 DEF L
      <4>2. \A k : k \in 1..L + 1 <=> k \in 1..L \/ k = L + 1
          BY <1>1
      <4> QED
          BY <1>1, <2>2, <4>1, <4>2 DEF OfType
    <3>3. CASE type = o.type
      <4>1. Cardinality(OfType(before, type) \union {L + 1})
              = Cardinality(OfType(before, type)) + 1
          BY <3>1, FS_AddElement
      <4>2. Cardinality(OfType(before, type)) < MAX_SAME_TYPE
          BY <1>3, <3>3 DEF o
      <4> QED
          BY <1>1, <3>1, <3>2, <3>3, <4>1, <4>2
    <3>4. CASE type # o.type
        BY <3>2, <3>4 DEF Diverse
    <3> QED
        BY <3>3, <3>4
  <2>6. \A m \in 1..n + 1 : \/ \E k \in 1..Len(new) : new[k] = offers[m]
                            \/ Cardinality(AtLeast(new, offers[m])) = MAX_SAME_TYPE
    <3> TAKE m \in 1..n + 1
    <3>1. CASE m = n + 1
        BY <1>1, <2>2, <3>1 DEF o
    <3>2. CASE m # n + 1
      <4>0. m \in 1..n
          BY <3>2
      <4>1. CASE \E k \in 1..L : before[k] = offers[m]
          BY <1>1, <2>2, <4>1
      <4>2. CASE Cardinality(AtLeast(before, offers[m])) = MAX_SAME_TYPE
        <5>1. AtLeast(before, offers[m]) \in SUBSET AtLeast(new, offers[m])
            BY <1>1, <2>2 DEF AtLeast, L
        <5>2. AtLeast(new, offers[m]) \in SUBSET OfType(new, offers[m].type)
              /\ IsFiniteSet(AtLeast(new, offers[m]))
              /\ IsFiniteSet(OfType(new, offers[m].type))
              /\ Cardinality(AtLeast(new, offers[m])) \in Nat
              /\ Cardinality(OfType(new, offers[m].type)) \in Nat
            BY <2>2, OfTypeFinite
        <5>3. Cardinality(AtLeast(before, offers[m])) =< Cardinality(AtLeast(new, offers[m]))
            BY <5>1, <5>2, FS_Subset
        <5>4. Cardinality(AtLeast(new, offers[m])) =< Cardinality(OfType(new, offers[m].type))
            BY <5>2, FS_Subset
        <5> QED
            BY <1>1, <2>5, <4>2, <5>2, <5>3, <5>4
      <4> QED
          BY <4>0, <4>1, <4>2 DEF Diverse, L
    <3> QED
        BY <3>1, <3>2
  <2> QED
      BY <1>1, <2>1, <2>2, <2>3, <2>4, <2>5, <2>6 DEF Diverse, o
<1>4. CASE ~(Cardinality(OfType(before, o.type)) < MAX_SAME_TYPE)
  <2>1. Kept(before, o) = before
      BY <1>4 DEF Kept
  <2>2. AtLeast(before, o) = OfType(before, o.type)
    <3> HIDE DEF o, L
    <3> QED
        BY <1>2 DEF AtLeast, OfType, L
  <2>3. Cardinality(AtLeast(before, o)) = MAX_SAME_TYPE
    <3>1. Cardinality(OfType(before, o.type)) \in Nat
        BY OfTypeFinite
    <3>2. Cardinality(OfType(before, o.type)) =< MAX_SAME_TYPE
        BY DEF Diverse
    <3> QED
        BY <1>1, <1>4, <2>2, <3>1, <3>2
  <2>4. Len(before) > 0
    <3>1. OfType(before, o.type) # {}
        BY <1>1, <2>2, <2>3, FS_EmptySet
    <3> QED
        BY <1>1, <3>1 DEF OfType
  <2>5. \A m \in 1..n + 1 : \/ \E k \in 1..Len(before) : before[k] = offers[m]
                            \/ Cardinality(AtLeast(before, offers[m])) = MAX_SAME_TYPE
    <3> TAKE m \in 1..n + 1
    <3>1. CASE m = n + 1
        BY <2>3, <3>1
    <3>2. CASE m # n + 1
      <4>1. m \in 1..n
          BY <3>2
      <4> QED
          BY <4>1 DEF Diverse
    <3> QED
        BY <3>1, <3>2
  <2>6. \A k \in 1..Len(before) : \E m \in 1..n + 1 : before[k] = offers[m]
    <3> TAKE k \in 1..Len(before)
    <3>1. PICK m \in 1..n : before[k] = offers[m]
        BY DEF Diverse
    <3>2. m \in 1..n + 1
        BY <3>1
    <3> QED
        BY <3>1, <3>2, Zenon
  <2> QED
      BY <2>1, <2>4, <2>5, <2>6 DEF Diverse
<1> QED
    BY <1>3, <1>4

\* What _apply_type_diversity returns, of offers that are sorted.
LEMMA DiversityKeeps ==
  ASSUME NEW T, \A o \in T : o.relevance \in Int, NEW offers \in Seq(T),
         \A k, l \in 1..Len(offers) : k < l => offers[k].relevance >= offers[l].relevance
  PROVE  /\ _apply_type_diversity(offers) \in Seq(T)
         /\ Diverse(_apply_type_diversity(offers), offers, Len(offers))
<1>1. PICK r : IsResult(r, offers, Len(offers))
               /\ _apply_type_diversity(offers) = r[Len(offers)]
    BY DiversityResult
<1> DEFINE S == {n \in Nat : n =< Len(offers) => r[n] \in Seq(T) /\ Diverse(r[n], offers, n)}
<1>2. 0 \in S
  <2>1. r[0] = <<>>
      BY <1>1 DEF IsResult
  <2>2. \A type : Cardinality(OfType(<<>>, type)) =< MAX_SAME_TYPE
      BY FS_EmptySet, ScoringBounds DEF OfType
  <2>3. Diverse(<<>>, offers, 0)
      BY <2>2 DEF Diverse
  <2>4. r[0] \in Seq(T) /\ Diverse(r[0], offers, 0)
      BY <2>1, <2>3
  <2> QED
      BY <2>4
<1>3. ASSUME NEW n \in Nat, n \in S PROVE n + 1 \in S
  <2>1. SUFFICES ASSUME n + 1 =< Len(offers)
                 PROVE  r[n + 1] \in Seq(T) /\ Diverse(r[n + 1], offers, n + 1)
      OBVIOUS
  <2>2. r[n + 1] = Kept(r[n], offers[n + 1])
      BY <1>1, <2>1 DEF IsResult
  <2>3. r[n] \in Seq(T) /\ Diverse(r[n], offers, n)
      BY <1>3, <2>1
  <2> QED
      BY <2>1, <2>2, <2>3, DiverseStep
<1> HIDE DEF S
<1>4. Nat \subseteq S
    BY <1>2, <1>3, NatsInSet
<1>5. Len(offers) \in S
    BY <1>4
<1> QED
    BY <1>1, <1>5 DEF S

-----------------------------------------------------------------------------
(* What is offered.                                                        *)

\* Of kept offers, Truncated leaves the first MAX_OFFERS: if it drops any, those
\* that stay fill the places and are at least as relevant.
LEMMA TruncatedKeeps ==
  ASSUME NEW T, NEW kept \in Seq(T)
  PROVE  LET t == Truncated(kept) IN
         /\ t \in Seq(T)
         /\ Len(t) = IF Len(kept) > MAX_OFFERS THEN MAX_OFFERS ELSE Len(kept)
         /\ \A k \in 1..Len(t) : t[k] = kept[k]
<1> DEFINE m == Between(0, MAX_OFFERS, Len(kept))
<1>1. MAX_OFFERS \in Nat \ {0} /\ Len(kept) \in Nat
    BY ScoringBounds
<1>2. m \in 0..Len(kept) /\ m = IF Len(kept) > MAX_OFFERS THEN MAX_OFFERS ELSE Len(kept)
    BY <1>1 DEF Between
<1> HIDE DEF m
<1>3. /\ SubSeq(kept, 1, m) \in Seq(T)
      /\ Len(SubSeq(kept, 1, m)) = m
      /\ \A k \in 1..m : SubSeq(kept, 1, m)[k] = kept[k]
    BY <1>1, <1>2
<1> QED
    BY <1>2, <1>3 DEF Truncated, m

\* RankedOffers: BestAreOffered of rank_offers, and that there is an offer.
LEMMA RankedOffers ==
  ASSUME NEW scored, DOMAIN scored \subseteq Nat, IsFiniteSet(DOMAIN scored),
         \A i \in DOMAIN scored : scored[i].relevance \in Int
  PROVE  LET offers == rank_offers(scored)
             AsGood(s) == {k \in DOMAIN offers : offers[k].relevance >= s.relevance}
         IN  /\ Len(offers) =< MAX_OFFERS
             /\ \A k, l \in DOMAIN offers : k < l => offers[k].relevance >= offers[l].relevance
             /\ \A k \in DOMAIN offers :
                  /\ offers[k].relevance >= MIN_RELEVANCE
                  /\ Cardinality(OfType(offers, offers[k].type)) =< MAX_SAME_TYPE
             /\ \A i \in DOMAIN scored :
                  \/ scored[i].relevance < MIN_RELEVANCE
                  \/ \E k \in DOMAIN offers : offers[k] = scored[i]
                  \/ Cardinality(AsGood(scored[i])) = MAX_OFFERS
                  \/ Cardinality(AsGood(scored[i]) \intersect OfType(offers, scored[i].type))
                       = MAX_SAME_TYPE
             /\ (\E i \in DOMAIN scored : scored[i].relevance >= MIN_RELEVANCE) => offers # <<>>
<1> DEFINE S == Candidates(scored)
           N == Cardinality(S)
           T == {scored[i] : i \in S}
           sorted == BestFirst(scored, S)
           kept == _apply_type_diversity(sorted)
           offers == Truncated(kept)
           AsGood(s) == {k \in DOMAIN offers : offers[k].relevance >= s.relevance}
<1>1. /\ MAX_OFFERS \in Nat \ {0} /\ MAX_SAME_TYPE \in Nat \ {0} /\ MIN_RELEVANCE \in Int
      /\ S \in SUBSET (DOMAIN scored) /\ S \subseteq Nat
      /\ \A i \in S : scored[i].relevance \in Int /\ scored[i].relevance >= MIN_RELEVANCE
      /\ \A o \in T : o.relevance \in Int /\ o.relevance >= MIN_RELEVANCE
    BY ScoringBounds DEF Candidates
<1>2. IsFiniteSet(S) /\ N \in Nat
    BY <1>1, FS_Subset, FS_CardinalityType
<1> HIDE DEF S
<1>0. PICK pos : Sorts(pos, scored, S)
    BY <1>1, <1>2, BestFirstSorts
<1>3. /\ pos \in [1..N -> S]
      /\ sorted = [k \in 1..N |-> scored[pos[k]]]
      /\ \A k, l \in 1..N : k < l => Ahead(scored, pos[k], pos[l])
      /\ \A i \in S : \E k \in 1..N : pos[k] = i
    BY <1>0 DEF Sorts
<1>4. /\ sorted \in Seq(T) /\ Len(sorted) = N
      /\ \A k, l \in 1..N : k < l => sorted[k].relevance >= sorted[l].relevance
      /\ \A i \in S : \E k \in 1..N : sorted[k] = scored[i]
  <2>1. \A k \in 1..N : sorted[k] = scored[pos[k]] /\ scored[pos[k]] \in T
      BY <1>3
  <2>2. sorted \in Seq(T) /\ Len(sorted) = N
      BY <1>2, <1>3, <2>1
  <2>3. \A k, l \in 1..N : k < l => sorted[k].relevance >= sorted[l].relevance
    <3> SUFFICES ASSUME NEW k \in 1..N, NEW l \in 1..N, k < l
                 PROVE  scored[pos[k]].relevance >= scored[pos[l]].relevance
        BY <2>1
    <3>1. pos[k] \in S /\ pos[l] \in S /\ Ahead(scored, pos[k], pos[l])
        BY <1>3
    <3>2. scored[pos[k]].relevance \in Int /\ scored[pos[l]].relevance \in Int
        BY <1>1, <3>1
    <3> QED
        BY <3>1, <3>2 DEF Ahead
  <2>4. \A i \in S : \E k \in 1..N : sorted[k] = scored[i]
      BY <1>3, <2>1
  <2> QED
      BY <2>2, <2>3, <2>4
<1> HIDE DEF T, sorted
<1>5. kept \in Seq(T) /\ Diverse(kept, sorted, N)
    BY <1>1, <1>4, DiversityKeeps
<1> HIDE DEF kept
<1>6. /\ offers \in Seq(T)
      /\ Len(offers) = IF Len(kept) > MAX_OFFERS THEN MAX_OFFERS ELSE Len(kept)
      /\ \A k \in 1..Len(offers) : offers[k] = kept[k]
    BY <1>5, TruncatedKeeps
<1>7. /\ Len(kept) \in Nat /\ Len(offers) =< Len(kept) /\ Len(offers) =< MAX_OFFERS
      /\ Len(offers) \in Nat /\ DOMAIN offers = 1..Len(offers)
      /\ 1..Len(offers) \subseteq 1..Len(kept)
    BY <1>1, <1>5, <1>6
<1> HIDE DEF offers
<1>8. \A k, l \in DOMAIN offers : k < l => offers[k].relevance >= offers[l].relevance
    BY <1>5, <1>6, <1>7 DEF Diverse
<1>9. \A k \in DOMAIN offers :
        /\ offers[k].relevance >= MIN_RELEVANCE
        /\ Cardinality(OfType(offers, offers[k].type)) =< MAX_SAME_TYPE
  <2> TAKE k \in DOMAIN offers
  <2>1. offers[k] \in T
      BY <1>6, <1>7
  <2>2. OfType(offers, offers[k].type) \in SUBSET OfType(kept, offers[k].type)
    <3>1. DOMAIN kept = 1..Len(kept)
        BY <1>5
    <3> QED
        BY <1>6, <1>7, <3>1 DEF OfType
  <2>3. /\ IsFiniteSet(OfType(kept, offers[k].type))
        /\ Cardinality(OfType(kept, offers[k].type)) \in Nat
        /\ Cardinality(OfType(offers, offers[k].type)) \in Nat
      BY <1>5, <1>6, OfTypeFinite
  <2>4. Cardinality(OfType(offers, offers[k].type)) =< Cardinality(OfType(kept, offers[k].type))
      BY <2>2, <2>3, FS_Subset
  <2>5. Cardinality(OfType(kept, offers[k].type)) =< MAX_SAME_TYPE
      BY <1>5 DEF Diverse
  <2> QED
      BY <1>1, <2>1, <2>3, <2>4, <2>5
<1>10. ASSUME NEW s \in T, NEW k \in 1..Len(kept), k > MAX_OFFERS,
              kept[k].relevance >= s.relevance
       PROVE  Cardinality(AsGood(s)) = MAX_OFFERS
  <2>1. Len(offers) = MAX_OFFERS
      BY <1>1, <1>6, <1>7, <1>10
  <2>2. \A l \in 1..MAX_OFFERS : offers[l].relevance >= s.relevance
    <3> TAKE l \in 1..MAX_OFFERS
    <3>1. l < k /\ l \in 1..Len(kept)
        BY <1>1, <1>7, <1>10
    <3>2. kept[l].relevance >= kept[k].relevance /\ offers[l] = kept[l]
        BY <1>5, <1>6, <2>1, <3>1 DEF Diverse
    <3>3. kept[l] \in T /\ kept[k] \in T
        BY <1>5, <3>1
    <3> QED
        BY <1>1, <1>10, <3>2, <3>3
  <2>3. AsGood(s) = 1..MAX_OFFERS
      BY <1>7, <2>1, <2>2
  <2> QED
    <3>1. Cardinality(1..MAX_OFFERS) = MAX_OFFERS
        BY <1>1, FS_Interval
    <3> QED
        BY <2>3, <3>1
<1>11. ASSUME NEW i \in DOMAIN scored, scored[i].relevance >= MIN_RELEVANCE
       PROVE  \/ \E k \in DOMAIN offers : offers[k] = scored[i]
              \/ Cardinality(AsGood(scored[i])) = MAX_OFFERS
              \/ Cardinality(AsGood(scored[i]) \intersect OfType(offers, scored[i].type))
                    = MAX_SAME_TYPE
  <2> DEFINE s == scored[i]
  <2>1. i \in S /\ s \in T
      BY <1>11 DEF S, T, Candidates
  <2>2. PICK n \in 1..N : sorted[n] = s
      BY <1>4, <2>1
  <2> HIDE DEF s
  <2>3. CASE \E k \in 1..Len(kept) : kept[k] = s
    <3>1. PICK k \in 1..Len(kept) : kept[k] = s
        BY <2>3
    <3>2. CASE k > MAX_OFFERS
        BY <1>1, <1>10, <2>1, <3>1, <3>2 DEF s
    <3>3. CASE ~(k > MAX_OFFERS)
      <4>1. k \in DOMAIN offers
          BY <1>1, <1>6, <1>7, <3>3
      <4> QED
          BY <1>6, <1>7, <3>1, <4>1 DEF s
    <3> QED
        BY <3>2, <3>3
  <2>4. CASE Cardinality(AtLeast(kept, s)) = MAX_SAME_TYPE
    <3>1. CASE \E k \in AtLeast(kept, s) : k > MAX_OFFERS
        BY <1>10, <2>1, <3>1 DEF AtLeast, s
    <3>2. CASE \A k \in AtLeast(kept, s) : ~(k > MAX_OFFERS)
      <4>1. \A k \in AtLeast(kept, s) : k \in 1..Len(offers)
          BY <1>1, <1>6, <1>7, <3>2 DEF AtLeast
      <4>2. AsGood(s) \intersect OfType(offers, s.type) = AtLeast(kept, s)
          BY <1>6, <1>7, <4>1 DEF AtLeast, OfType
      <4> QED
          BY <2>4, <4>2 DEF s
    <3> QED
        BY <3>1, <3>2
  <2> QED
      BY <1>5, <2>2, <2>3, <2>4 DEF Diverse
<1>12. (\E i \in DOMAIN scored : scored[i].relevance >= MIN_RELEVANCE) => offers # <<>>
  <2> SUFFICES ASSUME NEW i \in DOMAIN scored, scored[i].relevance >= MIN_RELEVANCE
               PROVE  offers # <<>>
      OBVIOUS
  <2>1. i \in S
      BY DEF S, Candidates
  <2>2. N > 0
      BY <1>2, <1>4, <2>1
  <2>3. Len(kept) > 0
      BY <1>5, <2>2 DEF Diverse
  <2> QED
      BY <1>1, <1>6, <1>7, <2>3
<1>13. rank_offers(scored) = offers
    BY DEF rank_offers, offers, kept, sorted, S
<1>14. \A i \in DOMAIN scored :
        \/ scored[i].relevance < MIN_RELEVANCE
        \/ \E k \in DOMAIN offers : offers[k] = scored[i]
        \/ Cardinality(AsGood(scored[i])) = MAX_OFFERS
        \/ Cardinality(AsGood(scored[i]) \intersect OfType(offers, scored[i].type))
             = MAX_SAME_TYPE
  <2> TAKE i \in DOMAIN scored
  <2>1. scored[i].relevance < MIN_RELEVANCE \/ scored[i].relevance >= MIN_RELEVANCE
      BY <1>1
  <2> QED
      BY <1>11, <2>1
<1> QED
    BY <1>7, <1>8, <1>9, <1>12, <1>13, <1>14

-----------------------------------------------------------------------------
(* Rules, one after the other.                                             *)

IsRules(r) ==
  /\ r \in Seq({r[i] : i \in 1..Len(r)})
  /\ \A i \in 1..Len(r) : r[i][1] \in Nat /\ r[i][2] \in Nat

\* A sequence over a set of rules is one.
LEMMA RulesAre ==
  ASSUME NEW T, \A x \in T : x[1] \in Nat /\ x[2] \in Nat, NEW r \in Seq(T)
  PROVE  IsRules(r)
<1>1. r \in Seq({r[i] : i \in 1..Len(r)})
    OBVIOUS
<1>2. \A i \in 1..Len(r) : r[i][1] \in Nat /\ r[i][2] \in Nat
  <2> TAKE i \in 1..Len(r)
  <2>1. r[i] \in T
      OBVIOUS
  <2> QED
      BY <2>1
<1> QED
    BY <1>1, <1>2 DEF IsRules

\* A column of rules is a sequence of numbers.
LEMMA ColumnIs ==
  ASSUME NEW T, \A x \in T : x[1] \in Nat /\ x[2] \in Nat, NEW s \in Seq(T), NEW k \in {1, 2}
  PROVE  LET a == [i \in DOMAIN s |-> s[i][k]] IN
         a \in Seq(Nat) /\ Len(a) = Len(s) /\ \A i \in 1..Len(s) : a[i] = s[i][k]
<1>1. DOMAIN s = 1..Len(s) /\ Len(s) \in Nat
    OBVIOUS
<1>2. \A i \in 1..Len(s) : s[i][k] \in Nat
  <2> TAKE i \in 1..Len(s)
  <2>1. s[i] \in T
      OBVIOUS
  <2> QED
      BY <2>1
<1> QED
    BY <1>1, <1>2

\* So does a column of two sequences, one after the other.
LEMMA ColumnAdds ==
  ASSUME NEW T, \A x \in T : x[1] \in Nat /\ x[2] \in Nat,
         NEW r \in Seq(T), NEW q \in Seq(T), NEW rq \in Seq(T),
         Len(rq) = Len(r) + Len(q), \A i \in 1..Len(r) : rq[i] = r[i],
         \A i \in 1..Len(q) : rq[Len(r) + i] = q[i],
         NEW k \in {1, 2}
  PROVE  /\ SumOf([i \in DOMAIN r |-> r[i][k]]) \in Nat
         /\ SumOf([i \in DOMAIN rq |-> rq[i][k]])
              = SumOf([i \in DOMAIN r |-> r[i][k]]) + SumOf([i \in DOMAIN q |-> q[i][k]])
<1> DEFINE a == [i \in DOMAIN r |-> r[i][k]]
           b == [i \in DOMAIN q |-> q[i][k]]
           ab == [i \in DOMAIN rq |-> rq[i][k]]
<1>1. /\ a \in Seq(Nat) /\ Len(a) = Len(r) /\ \A i \in 1..Len(r) : a[i] = r[i][k]
      /\ b \in Seq(Nat) /\ Len(b) = Len(q) /\ \A i \in 1..Len(q) : b[i] = q[i][k]
      /\ ab \in Seq(Nat) /\ Len(ab) = Len(rq) /\ \A i \in 1..Len(rq) : ab[i] = rq[i][k]
    BY ColumnIs
<1> HIDE DEF a, b, ab
<1>2. /\ a \o b \in Seq(Nat) /\ Len(a \o b) = Len(a) + Len(b)
      /\ Len(a) \in Nat /\ Len(b) \in Nat
      /\ \A i \in 1..Len(a) + Len(b) :
           (a \o b)[i] = IF i =< Len(a) THEN a[i] ELSE b[i - Len(a)]
  <2>1. a \in Seq(Nat) /\ b \in Seq(Nat)
      BY <1>1
  <2> QED
      BY <2>1, ConcatProperties, LenProperties
<1>4. \A i \in 1..Len(ab) : ab[i] = (a \o b)[i]
  <2> TAKE i \in 1..Len(ab)
  <2>1. i \in 1..Len(a) + Len(b) /\ i \in 1..Len(rq)
      BY <1>1
  <2>2. CASE i =< Len(a)
    <3>1. i \in 1..Len(r) /\ i \in 1..Len(a)
        BY <1>1, <1>2, <2>1, <2>2
    <3>2. ab[i] = rq[i][k] /\ rq[i] = r[i] /\ a[i] = r[i][k]
        BY <1>1, <2>1, <3>1
    <3> QED
        BY <1>2, <2>1, <2>2, <3>2
  <2>3. CASE ~(i =< Len(a))
    <3>1. i - Len(a) \in 1..Len(q) /\ i = Len(r) + (i - Len(a))
        BY <1>1, <1>2, <2>1, <2>3
    <3>2. ab[i] = rq[i][k] /\ rq[i] = q[i - Len(a)] /\ b[i - Len(a)] = q[i - Len(a)][k]
        BY <1>1, <2>1, <3>1
    <3> QED
        BY <1>2, <2>1, <2>3, <3>2
  <2> QED
      BY <2>2, <2>3
<1>5. ab = a \o b
    BY <1>1, <1>2, <1>4, SeqEqual
<1>6. a \in Seq(Int) /\ b \in Seq(Int) /\ (\A i \in 1..Len(a) : a[i] >= 0)
    BY <1>1
<1>7. SumOf(ab) = SumOf(a) + SumOf(b) /\ SumOf(a) \in Nat
    BY <1>5, <1>6, SumConcat, SumInt
<1> QED
    BY <1>7 DEF a, b, ab

\* What two sequences of rules add up to.
LEMMA BothAdd ==
  ASSUME NEW r, NEW q, IsRules(r), IsRules(q)
  PROVE  /\ IsRules(r \o q)
         /\ Boost(r) \in Nat /\ Penalty(r) \in Nat
         /\ Boost(r \o q) = Boost(r) + Boost(q)
         /\ Penalty(r \o q) = Penalty(r) + Penalty(q)
<1> DEFINE T == {r[i] : i \in 1..Len(r)} \union {q[i] : i \in 1..Len(q)}
           rq == r \o q
<1>1. r \in Seq(T) /\ q \in Seq(T)
    BY DEF IsRules
<1>2. \A x \in T : x[1] \in Nat /\ x[2] \in Nat
    BY DEF IsRules
<1> HIDE DEF T
<1>3. /\ rq \in Seq(T) /\ Len(rq) = Len(r) + Len(q)
      /\ \A i \in 1..Len(r) : rq[i] = r[i]
      /\ \A i \in 1..Len(q) : rq[Len(r) + i] = q[i]
    BY <1>1
<1> HIDE DEF rq
<1>4. Boost(r) \in Nat /\ Boost(rq) = Boost(r) + Boost(q)
    BY <1>1, <1>2, <1>3, ColumnAdds DEF Boost
<1>5. Penalty(r) \in Nat /\ Penalty(rq) = Penalty(r) + Penalty(q)
    BY <1>1, <1>2, <1>3, ColumnAdds DEF Penalty
<1>6. IsRules(rq)
    BY <1>2, <1>3, RulesAre
<1> QED
    BY <1>4, <1>5, <1>6 DEF rq


-----------------------------------------------------------------------------
(* What rules are worth.                                                   *)

Worth(rules) == Boost(rules) - Penalty(rules)

\* q is worth at least as much as r.
NoWorse(r, q) == IsRules(r) /\ IsRules(q) /\ Worth(r) =< Worth(q)

\* A rule is worth what it adds.
LEMMA RuleWorth ==
  ASSUME NEW boost \in Nat, NEW penalty \in Nat, NEW reason
  PROVE  /\ IsRules(Rule(boost, penalty, reason))
         /\ Boost(Rule(boost, penalty, reason)) = boost
         /\ Worth(Rule(boost, penalty, reason)) = boost - penalty
<1> DEFINE x == <<boost, penalty, reason>>
<1>1. x[1] = boost /\ x[2] = penalty
    OBVIOUS
<1>2. IsRules(<<x>>)
  <2> HIDE DEF x
  <2>1. <<x>> \in Seq({x})
      OBVIOUS
  <2> QED
      BY <1>1, <2>1, RulesAre
<1>3. \A n \in Nat : SumOf(<<n>>) = n
  <2> TAKE n \in Nat
  <2>1. PICK u : IsUpto(u, <<n>>, 1) /\ SumOf(<<n>>) = u[1]
    <3>1. Len(<<n>>) = 1
        OBVIOUS
    <3> QED
        BY <3>1, SumUpto
  <2>2. u[1] = u[0] + n /\ u[0] = 0
      BY <2>1 DEF IsUpto
  <2> QED
      BY <2>1, <2>2
<1>4. /\ [i \in DOMAIN <<x>> |-> <<x>>[i][1]] = <<boost>>
      /\ [i \in DOMAIN <<x>> |-> <<x>>[i][2]] = <<penalty>>
    OBVIOUS
<1>5. Boost(<<x>>) = boost /\ Penalty(<<x>>) = penalty
    BY <1>3, <1>4 DEF Boost, Penalty
<1> QED
    BY <1>2, <1>5 DEF Rule, Worth

\* No rule is worth nothing.
LEMMA NothingWorth ==
  IsRules(NoRule) /\ Boost(NoRule) = 0 /\ Worth(NoRule) = 0
<1>1. IsRules(<<>>) /\ SumOf(<<>>) = 0
  <2>1. <<>> \in Seq({}) /\ Len(<<>>) = 0
      BY EmptySeq
  <2>2. PICK u : IsUpto(u, <<>>, 0) /\ SumOf(<<>>) = u[0]
      BY <2>1, SumUpto
  <2> QED
      BY <2>1, <2>2, RulesAre DEF IsUpto
<1>2. [i \in DOMAIN <<>> |-> <<>>[i][1]] = <<>> /\ [i \in DOMAIN <<>> |-> <<>>[i][2]] = <<>>
    OBVIOUS
<1>3. Boost(<<>>) = 0 /\ Penalty(<<>>) = 0
    BY <1>1, <1>2 DEF Boost, Penalty
<1> QED
    BY <1>1, <1>3 DEF NoRule, Worth

\* Worths add up.
LEMMA BothWorth ==
  ASSUME NEW r, NEW q, IsRules(r), IsRules(q)
  PROVE  /\ IsRules(r \o q)
         /\ Worth(r) \in Int
         /\ Worth(r \o q) = Worth(r) + Worth(q)
BY BothAdd DEF Worth

\* Two sequences of rules, each worth no less, are worth no less together.
LEMMA BothNoWorse ==
  ASSUME NEW r, NEW q, NEW s, NEW t, NoWorse(r, s), NoWorse(q, t)
  PROVE  NoWorse(r \o q, s \o t)
BY BothWorth DEF NoWorse

\* The four facts above, as the proofs about the groups of rules use them.
WorthIs ==
  /\ \A boost, penalty \in Nat : \A reason :
       /\ IsRules(Rule(boost, penalty, reason))
       /\ Worth(Rule(boost, penalty, reason)) = boost - penalty
  /\ IsRules(NoRule) /\ Worth(NoRule) = 0
  /\ \A r, q : IsRules(r) /\ IsRules(q) =>
       IsRules(r \o q) /\ Worth(r \o q) = Worth(r) + Worth(q)

\* They hold.
LEMMA WorthAdds == WorthIs
BY RuleWorth, NothingWorth, BothWorth DEF WorthIs

-----------------------------------------------------------------------------
(* The groups of rules.                                                    *)

\* Every group of rules is one.
LEMMA GroupsAreRules ==
  ASSUME NEW p, NEW c
  PROVE  /\ IsRules(OwnedRules(p, c))
         /\ IsRules(RiskRules(p, c))
         /\ IsRules(CashRules(p, c))
         /\ IsRules(GapRules(p, c))
         /\ IsRules(SavingRules(p, c))
         /\ IsRules(DebtRules(p, c))
         /\ IsRules(SpendRules(p, c))
         /\ IsRules(HomeRules(p, c))
         /\ IsRules(FamilyRules(p, c))
         /\ IsRules(TrendRules(p, c))
         /\ IsRules(IncomeRules(p, c))
         /\ IsRules(AgeRules(p, c))
         /\ IsRules(AiRules(p, c)) /\ IsRules(NoRule)
<1>1. IsRules(OwnedRules(p, c))
    BY WorthAdds DEF WorthIs, OwnedRules, When
<1>2. IsRules(RiskRules(p, c))
    BY WorthAdds DEF WorthIs, RiskRules, When
<1>3. IsRules(CashRules(p, c))
    BY WorthAdds DEF WorthIs, CashRules, When
<1>4. IsRules(GapRules(p, c))
    BY WorthAdds DEF WorthIs, GapRules, When
<1>5. IsRules(SavingRules(p, c))
    BY WorthAdds DEF WorthIs, SavingRules, When
<1>6. IsRules(DebtRules(p, c))
    BY WorthAdds DEF WorthIs, DebtRules, When
<1>7. IsRules(SpendRules(p, c))
    BY WorthAdds DEF WorthIs, SpendRules, When, Lacks
<1>8. IsRules(HomeRules(p, c))
    BY WorthAdds DEF WorthIs, HomeRules, When
<1>9. IsRules(FamilyRules(p, c))
    BY WorthAdds DEF WorthIs, FamilyRules, When
<1>10. IsRules(TrendRules(p, c))
    BY WorthAdds DEF WorthIs, TrendRules, When
<1>11. IsRules(IncomeRules(p, c))
    BY WorthAdds DEF WorthIs, IncomeRules, When
<1>12. IsRules(AgeRules(p, c))
    BY WorthAdds DEF WorthIs, AgeRules, When
<1>13. IsRules(AiRules(p, c))
    BY WorthAdds DEF WorthIs, AiRules, When
<1> QED
    BY WorthAdds, <1>1, <1>2, <1>3, <1>4, <1>5, <1>6, <1>7, <1>8, <1>9, <1>10, <1>11, <1>12, <1>13 DEF WorthIs

\* The rules are worth no less if those of each group are not.
LEMMA AllNoWorse ==
  ASSUME NEW p, NEW c, NEW d,
         NoWorse(OwnedRules(p, c), OwnedRules(p, d)),
         NoWorse(RiskRules(p, c), RiskRules(p, d)),
         NoWorse(CashRules(p, c), CashRules(p, d)),
         NoWorse(GapRules(p, c), GapRules(p, d)),
         NoWorse(SavingRules(p, c), SavingRules(p, d)),
         NoWorse(DebtRules(p, c), DebtRules(p, d)),
         NoWorse(SpendRules(p, c), SpendRules(p, d)),
         NoWorse(HomeRules(p, c), HomeRules(p, d)),
         NoWorse(FamilyRules(p, c), FamilyRules(p, d)),
         NoWorse(TrendRules(p, c), TrendRules(p, d)),
         NoWorse(IncomeRules(p, c), IncomeRules(p, d)),
         NoWorse(AgeRules(p, c), AgeRules(p, d)),
         NoWorse(AiRules(p, c), AiRules(p, d))
  PROVE  NoWorse(AllRules(p, c), AllRules(p, d))
<1> DEFINE first(x) == OwnedRules(p, x) \o RiskRules(p, x) \o CashRules(p, x) \o GapRules(p, x)
           second(x) == first(x) \o SavingRules(p, x) \o DebtRules(p, x) \o SpendRules(p, x)
           third(x) == second(x) \o HomeRules(p, x) \o FamilyRules(p, x) \o TrendRules(p, x)
           all(x) == third(x) \o IncomeRules(p, x) \o AgeRules(p, x) \o AiRules(p, x)
<1>1. NoWorse(first(c), first(d))
    BY BothNoWorse
<1> HIDE DEF first
<1>2. NoWorse(second(c), second(d))
    BY <1>1, BothNoWorse
<1> HIDE DEF second
<1>3. NoWorse(third(c), third(d))
    BY <1>2, BothNoWorse
<1> HIDE DEF third
<1>4. NoWorse(all(c), all(d))
    BY <1>3, BothNoWorse
<1> QED
    BY <1>4 DEF all, third, second, first, AllRules

-----------------------------------------------------------------------------
(* What one change of the features does to the rules.                      *)

\* No feature but f tells c from d.
Alike(c, d, f) == \A g \in Features \ {f} : c[g] = d[g]

\* More products owned count for nothing.
LEMMA OwnsCountsAgainst ==
  ASSUME NEW p, NEW c, NEW d, Alike(c, d, "owns"),
         c.owns \subseteq d.owns
  PROVE  NoWorse(AllRules(p, d), AllRules(p, c))
<1>1. /\ c.age = d.age /\ c.tenure = d.tenure /\ c.dependents = d.dependents
      /\ c.income = d.income /\ c.idle_cash = d.idle_cash /\ c.savings_rate = d.savings_rate
      /\ c.debt = d.debt /\ c.gap = d.gap /\ c.category = d.category
      /\ c.trend = d.trend /\ c.risk = d.risk /\ c.home = d.home
      /\ c.fragile = d.fragile /\ c.family_consent = d.family_consent
    BY DEF Alike, Features
<1>2. /\ RiskRules(p, c) = RiskRules(p, d)
      /\ CashRules(p, c) = CashRules(p, d)
      /\ GapRules(p, c) = GapRules(p, d)
      /\ SavingRules(p, c) = SavingRules(p, d)
      /\ DebtRules(p, c) = DebtRules(p, d)
      /\ FamilyRules(p, c) = FamilyRules(p, d)
      /\ TrendRules(p, c) = TrendRules(p, d)
      /\ IncomeRules(p, c) = IncomeRules(p, d)
    BY <1>1 DEF Dependents, RiskRules, CashRules, GapRules, SavingRules, DebtRules,
       FamilyRules, TrendRules, IncomeRules
<1>3. \A kind : kind \in c.owns => kind \in d.owns
    OBVIOUS
<1>4. NoWorse(OwnedRules(p, d), OwnedRules(p, c))
    BY <1>1, <1>3, WorthAdds DEF WorthIs, NoWorse, OwnedRules, When
<1>5. NoWorse(SpendRules(p, d), SpendRules(p, c))
    BY <1>1, <1>3, WorthAdds DEF WorthIs, NoWorse, SpendRules, When, Lacks
<1>6. NoWorse(HomeRules(p, d), HomeRules(p, c))
    BY <1>1, <1>3, WorthAdds DEF WorthIs, NoWorse, HomeRules, When, Lacks
<1>7. NoWorse(AgeRules(p, d), AgeRules(p, c))
    BY <1>1, <1>3, WorthAdds DEF WorthIs, NoWorse, AgeRules, When, Lacks
<1>8. NoWorse(AiRules(p, d), AiRules(p, c))
    BY <1>1, <1>3, WorthAdds DEF WorthIs, NoWorse, AiRules, When, Dependents
<1>9. \A r : IsRules(r) => NoWorse(r, r)
    BY BothWorth DEF NoWorse
<1> QED
    BY <1>2, <1>4, <1>5, <1>6, <1>7, <1>8, <1>9,
       GroupsAreRules, AllNoWorse

\* More idle cash counts against nothing.
LEMMA CashCounts ==
  ASSUME NEW p, NEW c, NEW d, Alike(c, d, "idle_cash"),
         c.idle_cash \in Int, d.idle_cash \in Int, d.idle_cash > c.idle_cash
  PROVE  NoWorse(AllRules(p, c), AllRules(p, d))
<1>1. /\ c.age = d.age /\ c.tenure = d.tenure /\ c.dependents = d.dependents
      /\ c.income = d.income /\ c.savings_rate = d.savings_rate /\ c.debt = d.debt
      /\ c.gap = d.gap /\ c.category = d.category /\ c.trend = d.trend
      /\ c.risk = d.risk /\ c.home = d.home /\ c.owns = d.owns
      /\ c.fragile = d.fragile /\ c.family_consent = d.family_consent
    BY DEF Alike, Features
<1>2. /\ OwnedRules(p, c) = OwnedRules(p, d)
      /\ RiskRules(p, c) = RiskRules(p, d)
      /\ GapRules(p, c) = GapRules(p, d)
      /\ SavingRules(p, c) = SavingRules(p, d)
      /\ DebtRules(p, c) = DebtRules(p, d)
      /\ SpendRules(p, c) = SpendRules(p, d)
      /\ HomeRules(p, c) = HomeRules(p, d)
      /\ FamilyRules(p, c) = FamilyRules(p, d)
      /\ TrendRules(p, c) = TrendRules(p, d)
      /\ IncomeRules(p, c) = IncomeRules(p, d)
      /\ AgeRules(p, c) = AgeRules(p, d)
    BY <1>1 DEF Dependents, Lacks, OwnedRules, RiskRules, GapRules, SavingRules,
       DebtRules, SpendRules, HomeRules, FamilyRules, TrendRules, IncomeRules,
       AgeRules
<1>3. /\ c.idle_cash > 10000 => d.idle_cash > 10000
      /\ c.idle_cash > 5000 => d.idle_cash > 5000
      /\ d.idle_cash > 10000 => d.idle_cash > 5000
    OBVIOUS
<1>4. NoWorse(CashRules(p, c), CashRules(p, d))
  <2>1. CASE c.idle_cash > 10000
      BY <1>3, <2>1, WorthAdds DEF WorthIs, NoWorse, CashRules, When
  <2>2. CASE ~(c.idle_cash > 10000) /\ c.idle_cash > 5000
      BY <1>3, <2>2, WorthAdds DEF WorthIs, NoWorse, CashRules, When
  <2>3. CASE ~(c.idle_cash > 5000)
      BY <1>3, <2>3, WorthAdds DEF WorthIs, NoWorse, CashRules, When
  <2> QED
      BY <2>1, <2>2, <2>3
<1>5. NoWorse(AiRules(p, c), AiRules(p, d))
    BY <1>1, <1>3, WorthAdds DEF WorthIs, NoWorse, AiRules, When, Dependents
<1>6. \A r : IsRules(r) => NoWorse(r, r)
    BY BothWorth DEF NoWorse
<1> QED
    BY <1>2, <1>4, <1>5, <1>6,
       GroupsAreRules, AllNoWorse

\* A greater appetite for risk counts for an investment.
LEMMA RiskCountsForInvestment ==
  ASSUME NEW p, NEW c, NEW d, Alike(c, d, "risk"),
         RiskLevel(d.risk) > RiskLevel(c.risk), p.type = "investment"
  PROVE  NoWorse(AllRules(p, c), AllRules(p, d))
<1>1. /\ c.age = d.age /\ c.tenure = d.tenure /\ c.dependents = d.dependents
      /\ c.income = d.income /\ c.idle_cash = d.idle_cash /\ c.savings_rate = d.savings_rate
      /\ c.debt = d.debt /\ c.gap = d.gap /\ c.category = d.category
      /\ c.trend = d.trend /\ c.home = d.home /\ c.owns = d.owns
      /\ c.fragile = d.fragile /\ c.family_consent = d.family_consent
    BY DEF Alike, Features
<1>2. /\ OwnedRules(p, c) = OwnedRules(p, d)
      /\ CashRules(p, c) = CashRules(p, d)
      /\ GapRules(p, c) = GapRules(p, d)
      /\ SavingRules(p, c) = SavingRules(p, d)
      /\ DebtRules(p, c) = DebtRules(p, d)
      /\ SpendRules(p, c) = SpendRules(p, d)
      /\ HomeRules(p, c) = HomeRules(p, d)
      /\ FamilyRules(p, c) = FamilyRules(p, d)
      /\ TrendRules(p, c) = TrendRules(p, d)
      /\ IncomeRules(p, c) = IncomeRules(p, d)
      /\ AgeRules(p, c) = AgeRules(p, d)
    BY <1>1 DEF Dependents, Lacks, OwnedRules, CashRules, GapRules, SavingRules,
       DebtRules, SpendRules, HomeRules, FamilyRules, TrendRules, IncomeRules,
       AgeRules
<1>3. /\ d.risk # "low" /\ c.risk # "high"
      /\ c.risk = "low" \/ d.risk = "high"
    BY DEF RiskLevel
<1>4. NoWorse(RiskRules(p, c), RiskRules(p, d))
  <2>1. CASE c.risk = "low" /\ d.risk = "high"
      BY <1>3, <2>1, WorthAdds DEF WorthIs, NoWorse, RiskRules, When
  <2>2. CASE c.risk = "low" /\ d.risk # "high"
      BY <1>3, <2>2, WorthAdds DEF WorthIs, NoWorse, RiskRules, When
  <2>3. CASE c.risk # "low"
      BY <1>3, <2>3, WorthAdds DEF WorthIs, NoWorse, RiskRules, When
  <2> QED
      BY <2>1, <2>2, <2>3
<1>5. NoWorse(AiRules(p, c), AiRules(p, d))
    BY <1>1, <1>3, WorthAdds DEF WorthIs, NoWorse, AiRules, When, Dependents
<1>6. \A r : IsRules(r) => NoWorse(r, r)
    BY BothWorth DEF NoWorse
<1> QED
    BY <1>2, <1>4, <1>5, <1>6,
       GroupsAreRules, AllNoWorse

\* A greater appetite for risk counts against a bond or a deposit.
LEMMA RiskCountsAgainstSafety ==
  ASSUME NEW p, NEW c, NEW d, Alike(c, d, "risk"),
         RiskLevel(d.risk) > RiskLevel(c.risk), p.type \in {"bond", "savings"}
  PROVE  NoWorse(AllRules(p, d), AllRules(p, c))
<1>1. /\ c.age = d.age /\ c.tenure = d.tenure /\ c.dependents = d.dependents
      /\ c.income = d.income /\ c.idle_cash = d.idle_cash /\ c.savings_rate = d.savings_rate
      /\ c.debt = d.debt /\ c.gap = d.gap /\ c.category = d.category
      /\ c.trend = d.trend /\ c.home = d.home /\ c.owns = d.owns
      /\ c.fragile = d.fragile /\ c.family_consent = d.family_consent
    BY DEF Alike, Features
<1>2. /\ OwnedRules(p, c) = OwnedRules(p, d)
      /\ CashRules(p, c) = CashRules(p, d)
      /\ GapRules(p, c) = GapRules(p, d)
      /\ SavingRules(p, c) = SavingRules(p, d)
      /\ DebtRules(p, c) = DebtRules(p, d)
      /\ SpendRules(p, c) = SpendRules(p, d)
      /\ HomeRules(p, c) = HomeRules(p, d)
      /\ FamilyRules(p, c) = FamilyRules(p, d)
      /\ TrendRules(p, c) = TrendRules(p, d)
      /\ IncomeRules(p, c) = IncomeRules(p, d)
      /\ AgeRules(p, c) = AgeRules(p, d)
    BY <1>1 DEF Dependents, Lacks, OwnedRules, CashRules, GapRules, SavingRules,
       DebtRules, SpendRules, HomeRules, FamilyRules, TrendRules, IncomeRules,
       AgeRules
<1>3. /\ d.risk # "low" /\ c.risk # "high"
      /\ c.risk = "low" \/ d.risk = "high"
    BY DEF RiskLevel
<1>4. NoWorse(RiskRules(p, d), RiskRules(p, c))
  <2>1. CASE c.risk = "low" /\ d.risk = "high"
      BY <1>3, <2>1, WorthAdds DEF WorthIs, NoWorse, RiskRules, When
  <2>2. CASE c.risk = "low" /\ d.risk # "high"
      BY <1>3, <2>2, WorthAdds DEF WorthIs, NoWorse, RiskRules, When
  <2>3. CASE c.risk # "low"
      BY <1>3, <2>3, WorthAdds DEF WorthIs, NoWorse, RiskRules, When
  <2> QED
      BY <2>1, <2>2, <2>3
<1>5. NoWorse(AiRules(p, d), AiRules(p, c))
    BY <1>1, <1>3, WorthAdds DEF WorthIs, NoWorse, AiRules, When, Dependents
<1>6. \A r : IsRules(r) => NoWorse(r, r)
    BY BothWorth DEF NoWorse
<1> QED
    BY <1>2, <1>4, <1>5, <1>6,
       GroupsAreRules, AllNoWorse

-----------------------------------------------------------------------------
(* The scores.                                                             *)

\* Every product has a base, and a deposit 30 at least.
LEMMA BaseNat ==
  ASSUME NEW p, NEW c
  PROVE  /\ Base(p, c) \in Nat
         /\ p.type = "savings" => Base(p, c) >= 30
<1> DEFINE stage == classify_life_stage(c)
<1>1. stage \in {"new_graduate", "young_family", "mid_career", "pre_retirement", "retired"}
    BY DEF classify_life_stage
<1> HIDE DEF stage
<1> DEFINE bases == LIFE_STAGE_BASE[stage]
           types == {"investment", "bond", "savings", "retirement", "personal_loan",
                     "mortgage", "credit_card", "insurance"}
<1>2. /\ DOMAIN bases = types /\ \A type \in types : bases[type] \in Nat
      /\ bases["savings"] >= 30
    BY <1>1 DEF LIFE_STAGE_BASE
<1>3. Base(p, c) = IF p.type \in DOMAIN bases THEN bases[p.type] ELSE 20
    BY DEF Base, stage
<1> QED
    BY <1>2, <1>3

\* So are all the rules together.
LEMMA AllAreRules ==
  ASSUME NEW p, NEW c
  PROVE  IsRules(AllRules(p, c))
<1>1. \A r : IsRules(r) => NoWorse(r, r)
    BY BothWorth DEF NoWorse
<1>2. NoWorse(AllRules(p, c), AllRules(p, c))
    BY <1>1, GroupsAreRules, AllNoWorse
<1> QED
    BY <1>2 DEF NoWorse

\* A score is in its range, and the relevance is what the rules are worth.
LEMMA ScoreIs ==
  ASSUME NEW p, NEW c
  PROVE  LET s == _score_product(p, c) IN
         /\ s.id = p.id /\ s.type = p.type
         /\ s.relevance = Between(0, 100, Base(p, c) + Worth(AllRules(p, c)))
         /\ s.relevance \in 0..100 /\ s.confidence \in 200..1000
         /\ Worth(AllRules(p, c)) \in Int
<1> DEFINE r == AllRules(p, c)
           extra == IF Len(Reasons(r)) >= 2 THEN 100 ELSE 0
<1>1. Boost(r) \in Nat /\ Penalty(r) \in Nat
    BY AllAreRules, BothAdd
<1>2. Base(p, c) \in Nat /\ extra \in Nat
    BY BaseNat
<1> HIDE DEF extra
<1>3. Between(200, 1000, 500 + 6 * Boost(r) + extra) \in 200..1000
    BY <1>1, <1>2 DEF Between
<1>4. Worth(r) = Boost(r) - Penalty(r) /\ Worth(r) \in Int
    BY <1>1 DEF Worth
<1>5. Base(p, c) + Boost(r) - Penalty(r) = Base(p, c) + Worth(r)
    BY <1>1, <1>2, <1>4
<1>6. Between(0, 100, Base(p, c) + Worth(r)) \in 0..100
    BY <1>2, <1>4 DEF Between
<1>7. /\ _score_product(p, c).id = p.id /\ _score_product(p, c).type = p.type
      /\ _score_product(p, c).relevance = Between(0, 100, Base(p, c) + Boost(r) - Penalty(r))
      /\ _score_product(p, c).confidence = Between(200, 1000, 500 + 6 * Boost(r) + extra)
    BY DEF _score_product, Score, Relevance, extra
<1> QED
    BY <1>3, <1>4, <1>5, <1>6, <1>7

\* With better rules and the same base a product is no less relevant.
LEMMA MoreRelevant ==
  ASSUME NEW p, NEW c, NEW d, NoWorse(AllRules(p, c), AllRules(p, d)), Base(p, c) = Base(p, d)
  PROVE  _score_product(p, c).relevance =< _score_product(p, d).relevance
<1>1. Base(p, c) \in Nat
    BY BaseNat
<1>2. /\ Worth(AllRules(p, c)) \in Int /\ Worth(AllRules(p, d)) \in Int
      /\ Worth(AllRules(p, c)) =< Worth(AllRules(p, d))
    BY ScoreIs DEF NoWorse
<1>3. Between(0, 100, Base(p, c) + Worth(AllRules(p, c)))
        =< Between(0, 100, Base(p, d) + Worth(AllRules(p, d)))
    BY <1>1, <1>2 DEF Between
<1> QED
    BY <1>3, ScoreIs

\* The rules count against the savings deposit by 10 at most.
LEMMA DepositWorth ==
  ASSUME NEW p, NEW c, p.id = "savings_deposit", p.type = "savings"
  PROVE  Worth(AllRules(p, c)) >= -10
<1> DEFINE first == OwnedRules(p, c) \o RiskRules(p, c) \o CashRules(p, c) \o GapRules(p, c)
           second == first \o SavingRules(p, c) \o DebtRules(p, c) \o SpendRules(p, c)
           third == second \o HomeRules(p, c) \o FamilyRules(p, c) \o TrendRules(p, c)
           all == third \o IncomeRules(p, c) \o AgeRules(p, c) \o AiRules(p, c)
<1>1. /\ Worth(OwnedRules(p, c)) = 0
      /\ Worth(SpendRules(p, c)) = 0 /\ Worth(HomeRules(p, c)) = 0
      /\ Worth(FamilyRules(p, c)) = 0 /\ Worth(IncomeRules(p, c)) = 0
      /\ Worth(AgeRules(p, c)) = 0
  <2>1. Worth(OwnedRules(p, c)) = 0
      BY WorthAdds DEF WorthIs, OwnedRules, When
  <2>2. Worth(SpendRules(p, c)) = 0
      BY WorthAdds DEF WorthIs, SpendRules, When, Lacks
  <2>3. Worth(HomeRules(p, c)) = 0
      BY WorthAdds DEF WorthIs, HomeRules, When, Lacks
  <2>4. Worth(FamilyRules(p, c)) = 0
      BY WorthAdds DEF WorthIs, FamilyRules, When
  <2>5. Worth(IncomeRules(p, c)) = 0
      BY WorthAdds DEF WorthIs, IncomeRules, When
  <2>6. Worth(AgeRules(p, c)) = 0
      BY WorthAdds DEF WorthIs, AgeRules, When, Lacks
  <2> QED
      BY <2>1, <2>2, <2>3, <2>4, <2>5, <2>6
<1>2. Worth(RiskRules(p, c)) >= -10
    BY WorthAdds DEF WorthIs, RiskRules, When
<1>3. Worth(CashRules(p, c)) >= 0
    BY WorthAdds DEF WorthIs, CashRules, When
<1>4. Worth(GapRules(p, c)) = 0 /\ Worth(DebtRules(p, c)) = 0
  <2>1. Worth(GapRules(p, c)) = 0
      BY WorthAdds DEF WorthIs, GapRules, When
  <2>2. Worth(DebtRules(p, c)) = 0
      BY WorthAdds DEF WorthIs, DebtRules, When
  <2> QED
      BY <2>1, <2>2
<1>5. Worth(SavingRules(p, c)) >= 0
    BY WorthAdds DEF WorthIs, SavingRules, When
<1>6. Worth(TrendRules(p, c)) >= 0
    BY WorthAdds DEF WorthIs, TrendRules, When
<1>7. Worth(AiRules(p, c)) >= 0
    BY WorthAdds DEF WorthIs, AiRules, When
<1>8. IsRules(first) /\ Worth(first) >= -10
    BY <1>1, <1>2, <1>3, <1>4, GroupsAreRules, BothWorth
<1> HIDE DEF first
<1>9. IsRules(second) /\ Worth(second) >= -10
    BY <1>1, <1>4, <1>5, <1>8, GroupsAreRules, BothWorth
<1> HIDE DEF second
<1>10. IsRules(third) /\ Worth(third) >= -10
    BY <1>1, <1>6, <1>9, GroupsAreRules, BothWorth
<1> HIDE DEF third
<1>11. IsRules(all) /\ Worth(all) >= -10
    BY <1>1, <1>7, <1>10, GroupsAreRules, BothWorth
<1> QED
    BY <1>11 DEF all, third, second, first, AllRules

-----------------------------------------------------------------------------
(* The answers.                                                            *)

WellScored(scored) ==
  /\ DOMAIN scored \subseteq Nat /\ IsFiniteSet(DOMAIN scored)
  /\ \A i \in DOMAIN scored :
       scored[i].relevance \in 0..100 /\ scored[i].confidence \in 200..1000

\* Scored are the products that suit.
LEMMA AnswerIs ==
  ASSUME NEW c, ~Unprofiled(c)
  PROVE  /\ DOMAIN AnswerTo(c).scored = {i \in DOMAIN Catalog : Suitable(Catalog[i], c)}
         /\ \A i \in DOMAIN AnswerTo(c).scored :
              AnswerTo(c).scored[i] = _score_product(Catalog[i], c)
         /\ WellScored(AnswerTo(c).scored)
         /\ AnswerTo(c).offers = rank_offers(AnswerTo(c).scored)
<1> DEFINE suitable == {i \in DOMAIN Catalog : Suitable(Catalog[i], c)}
           scored == [i \in suitable |-> _score_product(Catalog[i], c)]
<1>1. AnswerTo(c) = [status |-> 200, scored |-> scored, offers |-> rank_offers(scored)]
    BY DEF AnswerTo, Offered
<1>2. DOMAIN Catalog = 1..Len(Catalog) /\ Len(Catalog) \in Nat
    BY ScoredCatalog
<1>3. suitable \in SUBSET (1..Len(Catalog)) /\ suitable \subseteq Nat
    BY <1>2
<1>4. IsFiniteSet(suitable)
  <2>1. IsFiniteSet(1..Len(Catalog))
      BY <1>2, FS_Interval
  <2> HIDE DEF suitable
  <2> QED
      BY <1>3, <2>1, FS_Subset
<1>5. \A i \in suitable : /\ scored[i] = _score_product(Catalog[i], c)
                          /\ _score_product(Catalog[i], c).relevance \in 0..100
                          /\ _score_product(Catalog[i], c).confidence \in 200..1000
    BY ScoreIs
<1>6. DOMAIN scored = suitable
    OBVIOUS
<1> HIDE DEF scored
<1>7. AnswerTo(c).scored = scored /\ AnswerTo(c).offers = rank_offers(scored)
    BY <1>1
<1>8. DOMAIN scored = {i \in DOMAIN Catalog : Suitable(Catalog[i], c)}
    BY <1>6
<1> HIDE DEF suitable
<1>9. \A i \in DOMAIN scored : scored[i] = _score_product(Catalog[i], c)
    BY <1>5, <1>6
<1>10. WellScored(scored)
  <2>1. DOMAIN scored \subseteq Nat /\ IsFiniteSet(DOMAIN scored)
      BY <1>3, <1>4, <1>6
  <2>2. \A i \in DOMAIN scored :
          scored[i].relevance \in 0..100 /\ scored[i].confidence \in 200..1000
      BY <1>5, <1>6
  <2> QED
      BY <2>1, <2>2 DEF WellScored
<1> QED
    BY <1>7, <1>8, <1>9, <1>10

\* The savings deposit suits everyone and is relevant enough for everyone.
LEMMA DepositScored ==
  ASSUME NEW c, ~Unprofiled(c)
  PROVE  \E i \in DOMAIN AnswerTo(c).scored :
           AnswerTo(c).scored[i].relevance >= MIN_RELEVANCE
<1>1. PICK i \in DOMAIN Catalog :
         /\ Catalog[i].id = "savings_deposit" /\ Catalog[i].type = "savings"
         /\ Catalog[i].risk = "low" /\ ~Catalog[i].credit
    BY DepositAssumption
<1>2. Suitable(Catalog[i], c)
  <2>1. RiskLevel(Catalog[i].risk) = 1 /\ RiskLevel(c.risk) \in {1, 2, 3}
      BY <1>1 DEF RiskLevel
  <2> QED
      BY <1>1, <2>1 DEF Suitable
<1>3. i \in DOMAIN AnswerTo(c).scored
      /\ AnswerTo(c).scored[i] = _score_product(Catalog[i], c)
    BY <1>2, AnswerIs
<1>4. _score_product(Catalog[i], c).relevance >= 20
  <2>1. Base(Catalog[i], c) \in Nat /\ Base(Catalog[i], c) >= 30
      BY <1>1, BaseNat
  <2>2. Worth(AllRules(Catalog[i], c)) \in Int /\ Worth(AllRules(Catalog[i], c)) >= -10
      BY <1>1, DepositWorth, ScoreIs
  <2>3. Between(0, 100, Base(Catalog[i], c) + Worth(AllRules(Catalog[i], c))) >= 20
      BY <2>1, <2>2 DEF Between
  <2> QED
      BY <2>3, ScoreIs
<1>5. _score_product(Catalog[i], c).relevance \in 0..100
    BY ScoreIs
<1>6. MIN_RELEVANCE \in Int /\ MIN_RELEVANCE =< 20
    BY ScoringBounds, DepositAssumption
<1> QED
    BY <1>3, <1>4, <1>5, <1>6

\* The answer is the one to the present customer.
ScoringInv ==
  /\ DOMAIN customer = Features /\ customer.idle_cash \in Int
  /\ changes \in 0..MaxChanges
  /\ answer = AnswerTo(customer)

\* It is inductive: a change is answered in the same step.
LEMMA ScoringInductive == ScoringSpec => []ScoringInv
<1>1. ScoringInit => ScoringInv
    BY FeatureValues, ScoringBounds DEF ScoringInit, ScoringInv
<1>2. ScoringInv /\ [ScoringNext]_scoring_vars => ScoringInv'
  <2> SUFFICES ASSUME ScoringInv, [ScoringNext]_scoring_vars PROVE ScoringInv'
      OBVIOUS
  <2>1. CASE UNCHANGED scoring_vars
      BY <2>1 DEF ScoringInv, scoring_vars
  <2>2. CASE ScoringNext
    <3>1. PICK feature \in Features : Change(feature)
        BY <2>2 DEF ScoringNext
    <3>2. PICK v \in Values[feature] : customer' = [customer EXCEPT ![feature] = v]
        BY <3>1 DEF Change
    <3>3. DOMAIN customer' = Features
        BY <3>2 DEF ScoringInv
    <3>4. customer'.idle_cash \in Int
      <4>1. CASE feature = "idle_cash"
        <5>1. v \in Int
            BY <3>2, <4>1, FeatureValues
        <5> QED
            BY <3>2, <4>1, <5>1 DEF ScoringInv, Features
      <4>2. CASE feature # "idle_cash"
          BY <3>2, <4>2 DEF ScoringInv, Features
      <4> QED
          BY <4>1, <4>2
    <3>5. changes' \in 0..MaxChanges
        BY <3>1, ScoringBounds DEF Change, ScoringInv
    <3>6. answer' = AnswerTo(customer')
        BY <3>1 DEF Change
    <3>7. answer' = AnswerTo(customer)'
        BY <3>6
    <3> QED
        BY <3>3, <3>4, <3>5, <3>7 DEF ScoringInv
  <2> QED
      BY <2>1, <2>2
<1> QED
    BY <1>1, <1>2, PTL DEF ScoringSpec

\* RankingCorrect: whatever the features and the catalog, as long as it has the
\* savings deposit, every answer is well-formed, best first and empty only with an
\* error, which is for want of an age.
THEOREM RankingCorrect == ScoringSpec => []RankingSound
<1>1. ASSUME ScoringInv, Unprofiled(customer) PROVE RankingSound
  <2>1. /\ answer = Failed
        /\ DOMAIN customer = Features /\ changes \in 0..MaxChanges
      BY <1>1 DEF ScoringInv, AnswerTo
  <2>2. DOMAIN answer.scored = {} /\ Len(answer.offers) = 0 /\ DOMAIN answer.offers = {}
      BY <2>1 DEF Failed
  <2>3. ScoresOK
      BY <2>1, <2>2 DEF ScoresOK
  <2>4. BestAreOffered
      BY <2>2, ScoringBounds DEF BestAreOffered
  <2>5. AgedAreOffered
      BY <1>1, <2>1 DEF AgedAreOffered, Unprofiled
  <2> QED
      BY <2>3, <2>4, <2>5 DEF RankingSound
<1>2. ASSUME ScoringInv, ~Unprofiled(customer) PROVE RankingSound
  <2> SUFFICES ASSUME ScoringInv, ~Unprofiled(customer) PROVE RankingSound
      BY <1>2
  <2> DEFINE scored == answer.scored
  <2>1. /\ answer = AnswerTo(customer)
        /\ DOMAIN customer = Features /\ changes \in 0..MaxChanges
      BY DEF ScoringInv
  <2>2. WellScored(scored) /\ answer.offers = rank_offers(scored)
      BY <2>1, AnswerIs
  <2>3. ScoresOK
      BY <2>1, <2>2 DEF ScoresOK, WellScored
  <2>4. /\ DOMAIN scored \subseteq Nat /\ IsFiniteSet(DOMAIN scored)
        /\ \A i \in DOMAIN scored : scored[i].relevance \in Int
    <3> HIDE DEF scored
    <3>1. DOMAIN scored \subseteq Nat /\ IsFiniteSet(DOMAIN scored)
        BY <2>2 DEF WellScored
    <3>2. \A i \in DOMAIN scored : scored[i].relevance \in 0..100
        BY <2>2 DEF WellScored
    <3> QED
        BY <3>1, <3>2
  <2>5. BestAreOffered
    <3> HIDE DEF scored
    <3> QED
        BY <2>2, <2>4, RankedOffers DEF BestAreOffered, scored
  <2>6. AgedAreOffered
    <3>1. \E i \in DOMAIN scored : scored[i].relevance >= MIN_RELEVANCE
        BY <2>1, DepositScored
    <3>2. answer.status = 200
        BY <2>1 DEF AnswerTo, Offered
    <3> HIDE DEF scored
    <3>3. answer.offers # <<>>
        BY <2>2, <2>4, <3>1, RankedOffers
    <3> QED
        BY <3>2, <3>3 DEF AgedAreOffered, Unprofiled
  <2> QED
      BY <2>3, <2>5, <2>6 DEF RankingSound
<1>3. ScoringInv => RankingSound
    BY <1>1, <1>2
<1> QED
    BY <1>3, ScoringInductive, PTL

-----------------------------------------------------------------------------
(* How the features count.                                                 *)

\* What a product with the id of the i-th scores is what the i-th scores.
LEMMA ScoredIs ==
  ASSUME NEW c, NEW i \in DOMAIN Catalog, NEW r \in Scored(AnswerTo(c).scored, Catalog[i].id)
  PROVE  r = _score_product(Catalog[i], c).relevance
<1> DEFINE scored == AnswerTo(c).scored
<1>1. PICK k \in DOMAIN scored : scored[k].id = Catalog[i].id /\ r = scored[k].relevance
    BY DEF Scored
<1>2. k \in DOMAIN Catalog /\ scored[k] = _score_product(Catalog[k], c)
  <2>1. CASE Unprofiled(c)
    <3>1. scored = <<>>
        BY <2>1 DEF AnswerTo, Failed
    <3> HIDE DEF scored
    <3> QED
        BY <1>1, <3>1
  <2>2. CASE ~Unprofiled(c)
      BY <1>1, <2>2, AnswerIs
  <2> QED
      BY <2>1, <2>2
<1>3. Catalog[k].id = Catalog[i].id
    BY <1>1, <1>2, ScoreIs
<1>4. k = i
    BY <1>2, <1>3, ScoredCatalog
<1> QED
    BY <1>1, <1>2, <1>4

\* After a step that changes f alone, the customer is alike but for f.
LEMMA OnlyAlike ==
  ASSUME NEW f, ScoringInv, Only(f)
  PROVE  Alike(customer, customer', f)
BY DEF ScoringInv, Only, Alike

\* The base depends on the life stage alone.
LEMMA BaseAlike ==
  ASSUME NEW p, NEW c, NEW d, NEW f \in {"owns", "idle_cash", "risk"}, Alike(c, d, f)
  PROVE  Base(p, c) = Base(p, d)
<1>1. /\ c.age = d.age /\ c.tenure = d.tenure /\ c.dependents = d.dependents
      /\ c.family_consent = d.family_consent
    BY DEF Alike, Features
<1>2. classify_life_stage(c) = classify_life_stage(d)
    BY <1>1 DEF classify_life_stage, Dependents
<1> QED
    BY <1>2 DEF Base

\* Without the consent the answer does not depend on the dependents.
LEMMA DependentsUnused ==
  ASSUME NEW c, NEW d, Alike(c, d, "dependents"), ~c.family_consent
  PROVE  AnswerTo(c) = AnswerTo(d)
<1>1. /\ c.age = d.age /\ c.tenure = d.tenure /\ c.income = d.income
      /\ c.idle_cash = d.idle_cash /\ c.savings_rate = d.savings_rate /\ c.debt = d.debt
      /\ c.gap = d.gap /\ c.category = d.category /\ c.trend = d.trend /\ c.risk = d.risk
      /\ c.home = d.home /\ c.owns = d.owns /\ c.fragile = d.fragile
      /\ c.family_consent = d.family_consent
    BY DEF Alike, Features
<1>2. Dependents(c) = 0 /\ Dependents(d) = 0
    BY <1>1 DEF Dependents
<1>3. \A p : Suitable(p, c) <=> Suitable(p, d)
    BY <1>1 DEF Suitable
<1>4. \A p : Base(p, c) = Base(p, d)
  <2>1. classify_life_stage(c) = classify_life_stage(d)
      BY <1>1, <1>2 DEF classify_life_stage
  <2> QED
      BY <2>1 DEF Base
<1>5. \A p : AllRules(p, c) = AllRules(p, d)
  <2> TAKE p
  <2>1. /\ OwnedRules(p, c) = OwnedRules(p, d)
        /\ RiskRules(p, c) = RiskRules(p, d)
        /\ CashRules(p, c) = CashRules(p, d)
        /\ GapRules(p, c) = GapRules(p, d)
        /\ SavingRules(p, c) = SavingRules(p, d)
        /\ DebtRules(p, c) = DebtRules(p, d)
        /\ SpendRules(p, c) = SpendRules(p, d)
        /\ HomeRules(p, c) = HomeRules(p, d)
        /\ FamilyRules(p, c) = FamilyRules(p, d)
        /\ TrendRules(p, c) = TrendRules(p, d)
        /\ IncomeRules(p, c) = IncomeRules(p, d)
        /\ AgeRules(p, c) = AgeRules(p, d)
        /\ AiRules(p, c) = AiRules(p, d)
      BY <1>1, <1>2 DEF Lacks, OwnedRules, RiskRules, CashRules, GapRules, SavingRules,
         DebtRules, SpendRules, HomeRules, FamilyRules, TrendRules, IncomeRules, AgeRules,
         AiRules
  <2> QED
      BY <2>1 DEF AllRules
<1>6. \A p : _score_product(p, c) = _score_product(p, d)
    BY <1>4, <1>5 DEF _score_product
<1>7. Unprofiled(c) <=> Unprofiled(d)
    BY <1>1 DEF Unprofiled
<1> QED
    BY <1>3, <1>6, <1>7 DEF AnswerTo, Offered

\* FeaturesCorrect: of all customers and catalogs, dependents without consent, the
\* appetite for risk, what is owned and idle cash count in their direction only.
THEOREM FeaturesCorrect == ScoringSpec => FeaturesCountRight
<1> DEFINE Unused == Only("dependents") /\ ~customer.family_consent => answer' = answer
           Aligned == Only("risk") /\ RiskLevel(customer'.risk) > RiskLevel(customer.risk) =>
             \A i \in DOMAIN Catalog :
               /\ Catalog[i].type = "investment" => NotLowered(Catalog[i].id)
               /\ Catalog[i].type \in {"bond", "savings"} => NotRaised(Catalog[i].id)
           Owned == Only("owns") /\ customer.owns \subseteq customer'.owns =>
             \A i \in DOMAIN Catalog : NotRaised(Catalog[i].id)
           Cash == Only("idle_cash") /\ customer'.idle_cash > customer.idle_cash =>
             \A i \in DOMAIN Catalog : NotLowered(Catalog[i].id)
<1>1. ScoringInv /\ ScoringInv' => Unused
  <2> SUFFICES ASSUME ScoringInv, ScoringInv', Only("dependents"), ~customer.family_consent
               PROVE  answer' = answer
      OBVIOUS
  <2>1. AnswerTo(customer) = AnswerTo(customer')
      BY OnlyAlike, DependentsUnused
  <2> QED
      BY <2>1 DEF ScoringInv
<1>2. ASSUME ScoringInv, ScoringInv', NEW i \in DOMAIN Catalog,
             Base(Catalog[i], customer) = Base(Catalog[i], customer')
      PROVE  /\ NoWorse(AllRules(Catalog[i], customer), AllRules(Catalog[i], customer'))
                  => NotLowered(Catalog[i].id)
             /\ NoWorse(AllRules(Catalog[i], customer'), AllRules(Catalog[i], customer))
                  => NotRaised(Catalog[i].id)
  <2>1. answer = AnswerTo(customer) /\ answer' = AnswerTo(customer')
      BY <1>2 DEF ScoringInv
  <2>2. /\ \A r \in Scored(answer.scored, Catalog[i].id) :
             r = _score_product(Catalog[i], customer).relevance
        /\ \A r \in Scored(answer'.scored, Catalog[i].id) :
             r = _score_product(Catalog[i], customer').relevance
      BY <2>1, ScoredIs
  <2>3. /\ _score_product(Catalog[i], customer).relevance \in Int
        /\ _score_product(Catalog[i], customer').relevance \in Int
      BY ScoreIs
  <2> QED
      BY <1>2, <2>2, <2>3, MoreRelevant DEF NotLowered, NotRaised
<1>3. ScoringInv /\ ScoringInv' => Aligned
  <2> SUFFICES ASSUME ScoringInv, ScoringInv', Only("risk"),
                      RiskLevel(customer'.risk) > RiskLevel(customer.risk),
                      NEW i \in DOMAIN Catalog
               PROVE  /\ Catalog[i].type = "investment" => NotLowered(Catalog[i].id)
                      /\ Catalog[i].type \in {"bond", "savings"} => NotRaised(Catalog[i].id)
      OBVIOUS
  <2>1. Alike(customer, customer', "risk")
      BY OnlyAlike
  <2>2. Base(Catalog[i], customer) = Base(Catalog[i], customer')
      BY <2>1, BaseAlike
  <2> QED
      BY <1>2, <2>1, <2>2, RiskCountsForInvestment, RiskCountsAgainstSafety
<1>4. ScoringInv /\ ScoringInv' => Owned
  <2> SUFFICES ASSUME ScoringInv, ScoringInv', Only("owns"),
                      customer.owns \subseteq customer'.owns, NEW i \in DOMAIN Catalog
               PROVE  NotRaised(Catalog[i].id)
      OBVIOUS
  <2>1. Alike(customer, customer', "owns")
      BY OnlyAlike
  <2>2. Base(Catalog[i], customer) = Base(Catalog[i], customer')
      BY <2>1, BaseAlike
  <2> QED
      BY <1>2, <2>1, <2>2, OwnsCountsAgainst
<1>5. ScoringInv /\ ScoringInv' => Cash
  <2> SUFFICES ASSUME ScoringInv, ScoringInv', Only("idle_cash"),
                      customer'.idle_cash > customer.idle_cash, NEW i \in DOMAIN Catalog
               PROVE  NotLowered(Catalog[i].id)
      OBVIOUS
  <2>1. Alike(customer, customer', "idle_cash")
      BY OnlyAlike
  <2>2. Base(Catalog[i], customer) = Base(Catalog[i], customer')
      BY <2>1, BaseAlike
  <2>3. customer.idle_cash \in Int /\ customer'.idle_cash \in Int
      BY DEF ScoringInv
  <2> QED
      BY <1>2, <2>1, <2>2, <2>3, CashCounts
<1> HIDE DEF Unused, Aligned, Owned, Cash
<1>6. ScoringSpec => [][Unused]_scoring_vars
    BY <1>1, ScoringInductive, PTL
<1>7. ScoringSpec => [][Aligned]_scoring_vars
    BY <1>3, ScoringInductive, PTL
<1>8. ScoringSpec => [][Owned]_scoring_vars
    BY <1>4, ScoringInductive, PTL
<1>9. ScoringSpec => [][Cash]_scoring_vars
    BY <1>5, ScoringInductive, PTL
<1> QED
    BY <1>6, <1>7, <1>8, <1>9
    DEF FeaturesCountRight, FamilyDataUnused, RiskAligned, OwnedNotFavoured,
        CashNotHeldAgainst, Unused, Aligned, Owned, Cash
=============================================================================
