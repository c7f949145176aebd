---------------------------- MODULE OfferScoring ----------------------------
(***************************************************************************)
(* The rules behind GET /offers: the life stage (worker/profiler.py), the  *)
(* suitability filter and the score of a product (routers/offers.py), and  *)
(* the ranking (worker/ranker.py).  They are functions of the customer's   *)
(* features and consent; the state is a customer whose features change one *)
(* at a time, and the answer the rules give after each change.             *)
(*                                                                         *)
(* Relevance, boosts and penalties are in hundredths, as the code rounds   *)
(* before it compares; confidence in thousandths; ratios in tenths.        *)
(***************************************************************************)
EXTENDS Integers, Sequences, FiniteSets

CONSTANTS
  Catalog,      \* the active products, in the order of the query
  FirstCustomers,    \* the customers to begin with
  Values,       \* feature -> values it can take
  NoAge,        \* a NULL age, which is what register_customer leaves
  MaxChanges,   \* bound: changes of a feature
  MAX_OFFERS, MAX_SAME_TYPE, MIN_RELEVANCE   \* ranker.py, 14-17

RiskLevels == {"low", "moderate", "high"}
RiskLevel(risk) == CASE risk = "low" -> 1 [] risk = "high" -> 3 [] OTHER -> 2

\* ai: the product_id begins with prod_ai_.
Product == [id : STRING, type : STRING, ai : BOOLEAN, risk : RiskLevels, credit : BOOLEAN]
Features == {"age", "tenure", "dependents", "income", "idle_cash", "savings_rate",
             "debt", "gap", "category", "trend", "risk", "home", "owns", "fragile",
             "family_consent"}

ASSUME ScoredCatalog ==
  /\ Catalog \in Seq(Product)
  /\ \A i, j \in DOMAIN Catalog : Catalog[i].id = Catalog[j].id => i = j
ASSUME FeatureValues ==
  /\ DOMAIN Values = Features /\ Values.idle_cash \subseteq Int
  /\ \A c \in FirstCustomers : DOMAIN c = Features /\ c.idle_cash \in Int
ASSUME ScoringBounds ==
  /\ MaxChanges \in Nat /\ MIN_RELEVANCE \in Int
  /\ MAX_OFFERS \in Nat \ {0} /\ MAX_SAME_TYPE \in Nat \ {0}
\* The precondition on the catalog: the savings deposit is in it (offers.py:56).
ASSUME DepositAssumption ==
  /\ \E i \in DOMAIN Catalog :
       /\ Catalog[i].id = "savings_deposit" /\ Catalog[i].type = "savings"
       /\ Catalog[i].risk = "low" /\ ~Catalog[i].credit
  /\ MIN_RELEVANCE =< 20

VARIABLES
  customer,   \* feature -> value
  answer,     \* what get_offers answers for this customer
  changes

scoring_vars == <<customer, answer, changes>>

-----------------------------------------------------------------------------
(* The profile.                                                            *)

\* Faulty variant: the consent is not looked at.
Dependents_Always(c) == c.dependents

\* The number of dependents counts with the family's consent only.  (Never NULL:
\* the column has a default, and so has everything that writes it.)
Dependents(c) == IF c.family_consent THEN c.dependents ELSE 0

\* build_profile raises: int(None), and classify_life_stage on a negative age.
Unprofiled(c) == c.age = NoAge \/ c.age < 0

\* Of a customer with an age.
classify_life_stage(c) ==
  CASE c.age >= 67 -> "retired"
    [] c.age \in 55..66 -> "pre_retirement"
    [] c.age \in 25..40 /\ Dependents(c) >= 1 -> "young_family"
    [] c.age < 25 /\ c.tenure =< 2 -> "new_graduate"
    [] OTHER -> "mid_career"

-----------------------------------------------------------------------------
(* The suitability filter.                                                 *)

\* Faulty variant: the risk of the product has to be below the customer's.
Suitable_Below(p, c) == RiskLevel(p.risk) < RiskLevel(c.risk) /\ ~(c.fragile /\ p.credit)

\* _check_suitability_dynamic.
Suitable(p, c) == RiskLevel(p.risk) =< RiskLevel(c.risk) /\ ~(c.fragile /\ p.credit)

-----------------------------------------------------------------------------
(* _score_product.                                                         *)

LIFE_STAGE_BASE == [
  new_graduate |-> [investment |-> 25, bond |-> 8, savings |-> 50, retirement |-> 8,
    personal_loan |-> 35, mortgage |-> 5, credit_card |-> 55, insurance |-> 15],
  young_family |-> [investment |-> 30, bond |-> 15, savings |-> 40, retirement |-> 20,
    personal_loan |-> 25, mortgage |-> 50, credit_card |-> 35, insurance |-> 45],
  mid_career |-> [investment |-> 45, bond |-> 30, savings |-> 30, retirement |-> 40,
    personal_loan |-> 15, mortgage |-> 30, credit_card |-> 25, insurance |-> 30],
  pre_retirement |-> [investment |-> 35, bond |-> 55, savings |-> 45, retirement |-> 65,
    personal_loan |-> 8, mortgage |-> 10, credit_card |-> 15, insurance |-> 40],
  retired |-> [investment |-> 20, bond |-> 60, savings |-> 55, retirement |-> 25,
    personal_loan |-> 5, mortgage |-> 5, credit_card |-> 10, insurance |-> 35]]

\* A type that is not in the table has 20.
Base(p, c) ==
  LET bases == LIFE_STAGE_BASE[classify_life_stage(c)]
  IN  IF p.type \in DOMAIN bases THEN bases[p.type] ELSE 20

\* What a rule adds, and why; "unsaid" where the code gives no reason.
Rule(boost, penalty, reason) == << <<boost, penalty, reason>> >>
NoRule == <<>>
When(condition, boost, penalty, reason) ==
  IF condition THEN Rule(boost, penalty, reason) ELSE NoRule

\* Faulty variant: what the customer has is taken for what he likes.
OwnedRules_Boost(p, c) ==
  When(p.id = "mortgage" /\ "mortgage" \in c.owns, 50, 0, "owned")
  \o When(p.id = "credit_card" /\ "credit_card" \in c.owns, 40, 0, "owned")
  \o When(p.id = "personal_loan" /\ "loan" \in c.owns, 40, 0, "owned")

OwnedRules(p, c) ==
  When(p.id = "mortgage" /\ "mortgage" \in c.owns, 0, 50, "owned")
  \o When(p.id = "credit_card" /\ "credit_card" \in c.owns, 0, 40, "owned")
  \o When(p.id = "personal_loan" /\ "loan" \in c.owns, 0, 40, "owned")

\* Faulty variant: low and high are mistaken for each other.
RiskRules_Swapped(p, c) ==
  IF c.risk = "low" THEN
    When(p.type = "investment", 20, 0, "appetite")
    \o When(p.type \in {"bond", "savings"}, 0, 10, "unsaid")
  ELSE IF c.risk = "high" THEN
    When(p.type \in {"bond", "savings"}, 20, 0, "preservation")
    \o When(p.type = "investment", 0, 15, "unsaid")
  ELSE NoRule

RiskRules(p, c) ==
  IF c.risk = "high" THEN
    When(p.type = "investment", 20, 0, "appetite")
    \o When(p.type \in {"bond", "savings"}, 0, 10, "unsaid")
  ELSE IF c.risk = "low" THEN
    When(p.type \in {"bond", "savings"}, 20, 0, "preservation")
    \o When(p.type = "investment", 0, 15, "unsaid")
  ELSE When(c.risk = "moderate"
            /\ p.id \in {"mutual_funds", "state_bonds", "etf_starter"}, 10, 0, "balanced")

\* Faulty variant: the upper tier leaves out investments.
CashRules_Tiers(p, c) ==
  IF c.idle_cash > 10000 THEN When(p.type \in {"bond", "savings"}, 25, 0, "cash")
  ELSE When(c.idle_cash > 5000 /\ p.type \in {"investment", "savings"}, 12, 0, "cash")

CashRules(p, c) ==
  IF c.idle_cash > 10000
  THEN When(p.type \in {"investment", "bond", "savings"}, 25, 0, "cash")
  ELSE When(c.idle_cash > 5000 /\ p.type \in {"investment", "savings"}, 12, 0, "cash")

GapRules(p, c) ==
  IF c.gap # 1 THEN NoRule
  ELSE IF p.id = "etf_starter" THEN Rule(25, 0, "gap")
  ELSE IF p.id = "mutual_funds" THEN Rule(20, 0, "gap")
  ELSE When(p.type = "investment", 10, 0, "unsaid")

SavingRules(p, c) ==
  IF c.savings_rate >= 5 THEN
    When(p.type = "retirement", 20, 0, "saver") \o When(p.type = "bond", 10, 0, "saver")
  ELSE When(c.savings_rate =< 0 /\ p.id = "savings_deposit", 15, 0, "habit")

DebtRules(p, c) ==
  IF c.debt > 30 THEN
    When(p.id = "personal_loan", 25, 0, "consolidation")
    \o When(p.type \in {"investment", "bond"}, 0, 15, "unsaid")
  ELSE When(c.debt < 5 /\ p.type \in {"investment", "bond"}, 10, 0, "leverage")

\* The product is of a kind the customer has not.
Lacks(kind, p, c) == p.id = kind /\ kind \notin c.owns

SpendRules(p, c) ==
  IF c.category = "travel" THEN
    When(p.id = "travel_insurance", 30, 0, "travel")
    \o When(Lacks("credit_card", p, c), 15, 0, "travel")
  ELSE IF c.category = "shopping" THEN When(Lacks("credit_card", p, c), 12, 0, "shopping")
  ELSE When(c.category = "rent" /\ c.home = "rent" /\ Lacks("mortgage", p, c), 20, 0, "rent")

HomeRules(p, c) ==
  IF c.home = "rent" THEN When(Lacks("mortgage", p, c), 15, 0, "renter")
  ELSE When(c.home = "owner" /\ Lacks("mortgage", p, c), 5, 0, "unsaid")

FamilyRules(p, c) ==
  IF Dependents(c) >= 2 THEN
    When(p.id = "life_insurance", 30, 0, "dependents")
    \o When(p.id = "private_pension", 10, 0, "family")
  ELSE IF Dependents(c) = 1 THEN When(p.id = "life_insurance", 15, 0, "dependents")
  ELSE When(c.family_consent /\ Dependents(c) = 0 /\ p.id = "life_insurance",
            0, 15, "unsaid")

TrendRules(p, c) ==
  IF c.trend = "growing" THEN When(p.type \in {"investment", "bond"}, 8, 0, "growing")
  ELSE IF c.trend = "declining" THEN
    When(p.type = "investment", 0, 10, "unsaid")
    \o When(p.id = "savings_deposit", 10, 0, "buffer")
  ELSE NoRule

IncomeRules(p, c) ==
  IF c.income >= 120000 THEN
    When(p.id = "managed_portfolio", 25, 0, "premium")
    \o When(p.id = "etf_starter", 0, 10, "unsaid")
  ELSE IF c.income >= 80000 THEN
    When(p.id = "etf_growth", 15, 0, "income")
    \o When(p.id = "managed_portfolio", 8, 0, "unsaid")
  ELSE IF c.income < 45000 THEN
    When(p.id = "personal_loan" /\ c.debt < 20, 12, 0, "supplement")
    \o When(p.id = "managed_portfolio", 0, 20, "unsaid")
  ELSE NoRule

AgeRules(p, c) ==
  IF c.age =< 25 THEN
    When(p.id = "etf_starter", 15, 0, "young")
    \o When(Lacks("credit_card", p, c), 10, 0, "first")
  ELSE IF c.age >= 50 THEN
    When(p.id = "private_pension", 20, 0, "retirement")
    \o When(p.id = "state_bonds", 12, 0, "retirement")
  ELSE NoRule

\* Products made from suggestions have these rules for their type.
AiRules(p, c) ==
  IF ~p.ai THEN NoRule
  ELSE IF p.type = "investment" THEN
    When(c.idle_cash > 10000, 15, 0, "cash")
    \o When(c.risk = "high", 10, 0, "appetite")
    \o When(c.trend = "growing", 8, 0, "growing")
  ELSE IF p.type = "savings" THEN
    When(c.savings_rate < 2, 15, 0, "habit") \o When(c.risk = "low", 10, 0, "preservation")
  ELSE IF p.type = "personal_loan" THEN
    When(c.debt < 15 /\ c.income >= 40000, 12, 0, "capacity")
    \o When(c.debt > 30, 0, 15, "unsaid")
  ELSE IF p.type = "mortgage" THEN
    When(c.home = "rent" /\ "mortgage" \notin c.owns, 20, 0, "renter")
    \o When(c.income >= 60000 /\ c.debt < 20, 10, 0, "capacity")
  ELSE IF p.type = "credit_card" THEN
    When("credit_card" \notin c.owns, 10, 0, "first")
    \o When(c.category = "shopping", 10, 0, "shopping")
  ELSE IF p.type = "insurance" THEN
    When(Dependents(c) >= 1, 20, 0, "dependents") \o When(c.age >= 40, 8, 0, "age")
  ELSE NoRule

AllRules(p, c) ==
  OwnedRules(p, c) \o RiskRules(p, c) \o CashRules(p, c) \o GapRules(p, c)
    \o SavingRules(p, c) \o DebtRules(p, c) \o SpendRules(p, c) \o HomeRules(p, c)
    \o FamilyRules(p, c) \o TrendRules(p, c) \o IncomeRules(p, c) \o AgeRules(p, c)
    \o AiRules(p, c)

\* The sum of a sequence of numbers.
SumOf(s) ==
  LET upto[n \in 0..Len(s)] == IF n = 0 THEN 0 ELSE upto[n - 1] + s[n]
  IN  upto[Len(s)]

\* What the rules that apply add up to, and those that give a reason.
Boost(rules) == SumOf([i \in DOMAIN rules |-> rules[i][1]])
Penalty(rules) == SumOf([i \in DOMAIN rules |-> rules[i][2]])
Reasons(rules) == SelectSeq(rules, LAMBDA rule : rule[3] # "unsaid")

Between(low, high, n) == IF n < low THEN low ELSE IF n > high THEN high ELSE n

\* Faulty variant: a score is not clamped.
Relevance_Raw(base, rules) == base + Boost(rules) - Penalty(rules)

Relevance(base, rules) == Between(0, 100, base + Boost(rules) - Penalty(rules))

Score(p, base, rules) ==
  LET reasons == Reasons(rules)
  IN  [id |-> p.id, type |-> p.type,
       relevance |-> Relevance(base, rules),
       confidence |-> Between(200, 1000, 500 + 6 * Boost(rules)
                                         + IF Len(reasons) >= 2 THEN 100 ELSE 0),
       reasons |-> [i \in 1..Between(0, 3, Len(reasons)) |-> reasons[i][3]]]

_score_product(p, c) == Score(p, Base(p, c), AllRules(p, c))

\* _build_explanation is given the features without the consent.
MentionsDependents(p, c) == c.dependents >= 2 /\ p.type = "insurance"

-----------------------------------------------------------------------------
(* rank_offers; the API passes no cooldowns, and a confidence is never     *)
(* below the threshold of 0.10.                                            *)

\* Python's sort keeps the order of equals.
Ahead(scored, i, j) ==
  \/ scored[i].relevance > scored[j].relevance
  \/ scored[i].relevance = scored[j].relevance /\ i < j

\* The elements of scored at the positions in S, sorted: each stands as far behind
\* as there are others ahead of it.
BestFirst(scored, S) ==
  LET place == [i \in S |-> Cardinality({j \in S : i = j \/ Ahead(scored, j, i)})]
  IN  [k \in 1..Cardinality(S) |-> scored[CHOOSE i \in S : place[i] = k]]

OfType(offers, type) == {k \in DOMAIN offers : offers[k].type = type}

\* An offer is kept as long as there are few of its type.
Kept(before, offer) ==
  IF Cardinality(OfType(before, offer.type)) < MAX_SAME_TYPE
  THEN Append(before, offer) ELSE before

_apply_type_diversity(offers) ==
  LET result[n \in 0..Len(offers)] ==
        IF n = 0 THEN <<>> ELSE Kept(result[n - 1], offers[n])
  IN  result[Len(offers)]

Truncated(offers) == SubSeq(offers, 1, Between(0, MAX_OFFERS, Len(offers)))

\* The positions that pass the threshold.
Candidates(scored) == {i \in DOMAIN scored : scored[i].relevance >= MIN_RELEVANCE}

\* Faulty variant: truncated before the constraint on the types.
rank_offers_TruncateFirst(scored) ==
  _apply_type_diversity(Truncated(BestFirst(scored, Candidates(scored))))

rank_offers(scored) ==
  Truncated(_apply_type_diversity(BestFirst(scored, Candidates(scored))))

Failed == [status |-> 500, scored |-> <<>>, offers |-> <<>>]

\* Score what is suitable, at its position in the catalog, and rank.
Offered(c) ==
  LET suitable == {i \in DOMAIN Catalog : Suitable(Catalog[i], c)}
      scored == [i \in suitable |-> _score_product(Catalog[i], c)]
  IN  [status |-> 200, scored |-> scored, offers |-> rank_offers(scored)]

\* get_offers, with the consent to profiling.
AnswerTo(c) == IF Unprofiled(c) THEN Failed ELSE Offered(c)

ScoringInit ==
  /\ customer \in FirstCustomers
  /\ answer = AnswerTo(customer)
  /\ changes = 0

Change(feature) ==
  /\ changes < MaxChanges
  /\ changes' = changes + 1
  /\ \E v \in Values[feature] \ {customer[feature]} :
       customer' = [customer EXCEPT ![feature] = v]
  /\ answer' = AnswerTo(customer')

ScoringNext == \E feature \in Features : Change(feature)

ScoringSpec == ScoringInit /\ [][ScoringNext]_scoring_vars

-----------------------------------------------------------------------------
(* Properties.                                                             *)

\* ScoresOK: scores are in the range the response model asks for.
ScoresOK ==
  /\ DOMAIN customer = Features
  /\ changes \in 0..MaxChanges
  /\ \A i \in DOMAIN answer.scored :
       /\ answer.scored[i].relevance \in 0..100
       /\ answer.scored[i].confidence \in 200..1000

\* BestAreOffered: the offers come by relevance, no more than MAX_OFFERS of them
\* and MAX_SAME_TYPE of a type, and a product that is scored above the threshold
\* is left out only because so many at least as relevant are offered.
BestAreOffered ==
  LET offers == answer.offers
      AsGood(s) == {k \in DOMAIN offers : offers[k].relevance >= s.relevance}
  IN  /\ Len(offers) =< MAX_OFFERS
      /\ \A k, l \in DOMAIN offers : k < l => offers[k].relevance >= offers[l].relevance
      /\ \A k \in DOMAIN offers :
           /\ offers[k].relevance >= MIN_RELEVANCE
           /\ Cardinality(OfType(offers, offers[k].type)) =< MAX_SAME_TYPE
      /\ \A i \in DOMAIN answer.scored :
           LET s == answer.scored[i] IN
           \/ s.relevance < MIN_RELEVANCE
           \/ \E k \in DOMAIN offers : offers[k] = s
           \/ Cardinality(AsGood(s)) = MAX_OFFERS
           \/ Cardinality(AsGood(s) \intersect OfType(offers, s.type)) = MAX_SAME_TYPE

\* AgedAreOffered: the rules leave no customer whose age is known without an offer,
\* whatever his other features: low risk, fragile, indebted or old; and whoever has
\* no age, or a negative one, has an error and never an empty list.
AgedAreOffered ==
  IF customer.age = NoAge \/ customer.age < 0
  THEN answer = Failed
  ELSE answer.status = 200 /\ answer.offers # <<>>

\* The relevance of product id before and after a step, if it is scored in both.
Scored(scored, id) == {scored[i].relevance : i \in {k \in DOMAIN scored : scored[k].id = id}}
NotLowered(id) == \A r \in Scored(answer.scored, id), s \in Scored(answer'.scored, id) : s >= r
NotRaised(id) == \A r \in Scored(answer.scored, id), s \in Scored(answer'.scored, id) : s =< r
\* No feature but f changes.
Only(f) == customer' = [customer EXCEPT ![f] = customer'[f]]

\* FamilyDataUnused: without the consent to the family context the number of
\* dependents changes nothing in the scores, the reasons and the offers, by the
\* life stage neither (offers.py:202, "excluded unless family_context_consent granted").
FamilyDataUnused ==
  [][Only("dependents") /\ ~customer.family_consent => answer' = answer]_scoring_vars

\* RiskAligned: a greater appetite for risk alone never lowers the relevance of an
\* investment nor raises that of a bond or a deposit.
RiskAligned ==
  [][Only("risk") /\ RiskLevel(customer'.risk) > RiskLevel(customer.risk) =>
       \A i \in DOMAIN Catalog :
         /\ Catalog[i].type = "investment" => NotLowered(Catalog[i].id)
         /\ Catalog[i].type \in {"bond", "savings"} => NotRaised(Catalog[i].id)]_scoring_vars

\* OwnedNotFavoured: having a product of a kind never raises the relevance of any.
OwnedNotFavoured ==
  [][Only("owns") /\ customer.owns \subseteq customer'.owns =>
       \A i \in DOMAIN Catalog : NotRaised(Catalog[i].id)]_scoring_vars

\* CashNotHeldAgainst: more idle cash alone lowers no relevance, across the tiers.
CashNotHeldAgainst ==
  [][Only("idle_cash") /\ customer'.idle_cash > customer.idle_cash =>
       \A i \in DOMAIN Catalog : NotLowered(Catalog[i].id)]_scoring_vars

\* RankingSound: every answer is well-formed, best first, and empty only with an
\* error for want of an age.
RankingSound == ScoresOK /\ BestAreOffered /\ AgedAreOffered

\* FeaturesCountRight: each feature moves the scores in its direction only.
FeaturesCountRight ==
  FamilyDataUnused /\ RiskAligned /\ OwnedNotFavoured /\ CashNotHeldAgainst

-----------------------------------------------------------------------------
(* What the repository says of the rules and the code does not do.         *)

\* ExplanationBlind: offers.py:202: without the consent no explanation mentions the
\* dependents.
ExplanationBlind ==
  \A i \in DOMAIN Catalog :
    MentionsDependents(Catalog[i], customer) => customer.family_consent

\* AgeHasDefault: offers.py:665, a customer without an age counts as 30.  (dict.get
\* gives the default for a column that is not there, and NULL for one that is.)
AgeHasDefault == customer.age = NoAge => answer.status = 200
=============================================================================
