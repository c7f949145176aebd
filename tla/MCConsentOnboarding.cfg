\* Updates of one flag, one at a time, and onboarding.
SPECIFICATION Spec
CONSTANTS
  family = family  sensitive = sensitive  push = push  h1 = h1  h2 = h2
  Fields <- MCFields
  Family = family
  Sensitive = sensitive
  OnboardingFields <- MCOnboardingFields
  Handlers = {h1}
  Bodies <- MCPushBodies
  MaxUpdates = 2
  MaxFailures = 1
INVARIANT HistoryComplete
CHECK_DEADLOCK FALSE
