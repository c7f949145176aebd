--------------------------- MODULE MCOfferScoring ---------------------------
(* Instances of OfferScoring for TLC. *)
EXTENDS OfferScoring

P(id, type, risk, credit) ==
  [id |-> id, type |-> type, ai |-> FALSE, risk |-> risk, credit |-> credit]
Ai(type, risk) ==
  [id |-> "ai_" \o type, type |-> type, ai |-> TRUE, risk |-> risk, credit |-> FALSE]

\* PRODUCTS, and one published suggestion of each type.
MC_Catalog == <<
  P("etf_starter", "investment", "moderate", FALSE),
  P("etf_growth", "investment", "high", FALSE),
  P("mutual_funds", "investment", "moderate", FALSE),
  P("managed_portfolio", "investment", "high", FALSE),
  P("state_bonds", "bond", "low", FALSE),
  P("savings_deposit", "savings", "low", FALSE),
  P("private_pension", "retirement", "low", FALSE),
  P("personal_loan", "personal_loan", "moderate", TRUE),
  P("mortgage", "mortgage", "moderate", TRUE),
  P("credit_card", "credit_card", "low", TRUE),
  P("life_insurance", "insurance", "low", FALSE),
  P("travel_insurance", "insurance", "low", FALSE),
  Ai("investment", "high"), Ai("savings", "low"), Ai("personal_loan", "moderate"),
  Ai("mortgage", "moderate"), Ai("credit_card", "moderate"), Ai("insurance", "low") >>

\* On both sides of every threshold.
MC_Values == [
  age |-> {NoAge, -1, 22, 25, 26, 40, 50, 60, 70}, tenure |-> {1, 5},
  dependents |-> 0..2,
  income |-> {30000, 44000, 60000, 80000, 120000}, idle_cash |-> {5000, 10000, 10001},
  savings_rate |-> {0, 1, 2, 5}, debt |-> {4, 5, 15, 20, 31}, gap |-> {0, 1},
  category |-> {"", "travel", "shopping", "rent"}, trend |-> {"", "growing", "declining"},
  risk |-> RiskLevels \union {""}, home |-> {"", "rent", "owner"},
  owns |-> {{}, {"mortgage"}, {"credit_card"}, {"loan"}}, fragile |-> BOOLEAN,
  family_consent |-> BOOLEAN]

\* As register_customer leaves him (a NULL annual_income counts as 50000).
Registered == [
  age |-> NoAge, tenure |-> 0, dependents |-> 0, income |-> 50000, idle_cash |-> 0,
  savings_rate |-> 0, debt |-> 0, gap |-> 0, category |-> "", trend |-> "",
  risk |-> "", home |-> "", owns |-> {}, fragile |-> FALSE, family_consent |-> FALSE]

MC_FirstCustomers == {Registered} \union [
  age : {22, 40, 70}, tenure : {1}, dependents : {1}, income : {44000, 80000},
  idle_cash : {5000}, savings_rate : {1}, debt : {15}, gap : {0}, category : {""},
  trend : {""}, risk : RiskLevels, home : {"rent"}, owns : {{}}, fragile : {FALSE},
  family_consent : BOOLEAN]
=============================================================================
