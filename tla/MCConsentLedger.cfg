\* Two updates at a time, onboarding, failed writes and crashes.
SPECIFICATION Spec
CONSTANTS
  family = family  sensitive = sensitive  push = push  h1 = h1  h2 = h2
  Fields <- MCFields
  Family = family
  Sensitive = sensitive
  OnboardingFields <- MCOnboardingFields
  Handlers = {h1, h2}
  Bodies <- MCMixedBodies
  MaxUpdates = 3
  MaxFailures = 1
INVARIANTS
  TypeOK
  ConsentEvidenced
PROPERTY OnlyNamedFlagsChange
CHECK_DEADLOCK FALSE
