\* Two updates of one flag at a time, nothing else.
SPECIFICATION Spec
CONSTANTS
  family = family  sensitive = sensitive  push = push  h1 = h1  h2 = h2
  Fields <- MCFields
  Family = family
  Sensitive = sensitive
  OnboardingFields <- MCNoFields
  Handlers = {h1, h2}
  Bodies <- MCPushBodies
  MaxUpdates = 2
  MaxFailures = 1
INVARIANT HistoryComplete
CHECK_DEADLOCK FALSE
