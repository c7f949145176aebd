\* A high-risk product and its approver.
SPECIFICATION Spec
CONSTANTS
  deposit = deposit  fund = fund  ana = ana  bob = bob  none = none
  k1 = k1  k2 = k2  a1 = a1  a2 = a2
  Sids <- MCSids
  Names <- MCNames
  Slug <- MCOwnSlug
  HighRisk <- MCHighRisk
  HandMade <- MCHandMade
  Staff <- MCStaff
  NoOne = none
  Calls = {k1}
  Analyses = {a1}
  Cap = 1
  Cooldown = 0
  Stale = 0
  MaxEdits = 0
PROPERTY DualApproval
