\* Two workers, a self-hosted model among the templates and one suggested model.
SPECIFICATION FairEngineSpec
CONSTANTS
  ConnectorNames = {"gpt", "local"}
  Seeded <- MC_Seeded
  Suggested <- MC_Suggested
  Configs = {{"api_key"}}
  Togglers = {"t"}
  Suggesters = {"s"}
  MaxRows = 3
  Workers = {"w1", "w2"}
  Needs <- MC_Needs
  Rank <- MC_Rank
  RateMax = 1
  MaxRequests = 3
  MaxFailures = 1
INVARIANTS EngineSafe SuggestedWasVetted
PROPERTY LimitLifts
CHECK_DEADLOCK FALSE
