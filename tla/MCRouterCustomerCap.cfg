\* preference_service.py:184: the caps are the customer's.
SPECIFICATION Spec
CONSTANTS
  Customers = {c1}
  c1 = c1
  Adapters = {"push", "in_app"}
  OtherChannels = {"sms"}
  NoChannel = NoChannel
  DefaultChannel = "push"
  DefaultMaxPerDay = 1
  DefaultMaxPerWeek = 2
  ChannelChoices = {"in_app"}
  QuietChoices = {}
  CapChoices = {}
  DayTicks = 1
  WeekTicks = 2
  NightTicks = {1}
  Payloads <- Payloads_Channels
  Refused = {}
  Oversized = {}
  MaxPollRecords = 2
  MaxEvents = 2
  MaxCrashes = 0
  MaxShutdowns = 0
  MaxNow = 0
INVARIANT CustomerCap
CHECK_DEADLOCK FALSE
