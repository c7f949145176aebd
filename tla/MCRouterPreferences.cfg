\* Preferences, caps and channels changing under the handler.
SPECIFICATION Spec
CONSTANTS
  Customers = {c1}
  c1 = c1
  Adapters = {"push", "in_app"}
  OtherChannels = {"sms", "nul"}
  NoChannel = NoChannel
  DefaultChannel = "push"
  DefaultMaxPerDay = 1
  DefaultMaxPerWeek = 2
  ChannelChoices = {"in_app"}
  QuietChoices = {TRUE}
  CapChoices <- MC_Caps
  DayTicks = 1
  WeekTicks = 2
  NightTicks = {1}
  Payloads <- Payloads_Channels
  Refused = {"nul"}
  Oversized = {}
  MaxPollRecords = 2
  MaxEvents = 3
  MaxCrashes = 0
  MaxShutdowns = 0
  MaxNow = 2
INVARIANT ChannelCap
CHECK_DEADLOCK FALSE
