\* Two requests at a time on one form, its notifications and a feedback.
SPECIFICATION Spec
CONSTANTS
  Requests = {r1, r2}
  r1 = r1
  r2 = r2
  Data = {d1, d2}
  d1 = d1
  d2 = d2
  NoData = NoData
  MaxForms = 1
  MaxNotifications = 3
  MaxFeedback = 1
SYMMETRY Symmetry
INVARIANT WorkflowSafe
PROPERTY OverwriteNeedsRace
CHECK_DEADLOCK FALSE
