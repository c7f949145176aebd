\* schema.sql:529: the suitability filter blocks mismatched risk levels.
SPECIFICATION Spec
CONSTANTS
  Customers = {c1}
  Names = {n1, n2}
  Products = {p1, p2}
  NoId = NoId
  NameId <- MC_NameId
  Canonical = {n1}
  DefaultProducts = {n1}
  DefaultRisk <- MC_DefaultRisk
  DefaultCredit = {n1}
  NoRisk = NoRisk
  Requests = {r1}
  TopN = 2
  MaxCommits = 1
  MaxFailures = 0
  Rows <- MC_Rows
  Profiles = {"low"}
  SeededCustomers <- MC_Customers
  c1 = c1
  n1 = n1
  n2 = n2
  p1 = p1
  p2 = p2
  r1 = r1
INVARIANT OwnRiskRespected
CHECK_DEADLOCK FALSE
