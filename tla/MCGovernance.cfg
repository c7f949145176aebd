\* The approval, staging and review of suggestions with edits by hand.
SPECIFICATION Spec
CONSTANTS
  deposit = deposit  fund = fund  ana = ana  bob = bob  none = none
  k1 = k1  k2 = k2  a1 = a1  a2 = a2
  Sids <- MCSids
  Names <- MCNames
  Slug <- MCOwnSlug
  HighRisk <- MCNoNames
  HandMade <- MCHandMade
  Staff <- MCAna
  NoOne = none
  Calls = {k1}
  Analyses = {a1}
  Cap = 1
  Cooldown = 0
  Stale = 0
  MaxEdits = 1
INVARIANTS
  TypeOK
  AiProductWasApproved
  ImplementedWasListed
PROPERTY StagedUntilCooldown
