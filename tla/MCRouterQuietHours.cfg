\* router.py:125: a notification met in quiet hours is deferred.
SPECIFICATION Spec
CONSTANTS
  Customers = {c1}
  c1 = c1
  Adapters = {"push", "in_app"}
  OtherChannels = {"sms"}
  NoChannel = NoChannel
  DefaultChannel = "push"
  DefaultMaxPerDay = 1
  DefaultMaxPerWeek = 2
  ChannelChoices = {}
  QuietChoices = {TRUE}
  CapChoices = {}
  DayTicks = 1
  WeekTicks = 2
  NightTicks = {1}
  Payloads <- Payloads_Delivery
  Refused = {}
  Oversized = {}
  MaxPollRecords = 2
  MaxEvents = 1
  MaxCrashes = 0
  MaxShutdowns = 0
  MaxNow = 1
INVARIANT QuietHoursDefer
CHECK_DEADLOCK FALSE
