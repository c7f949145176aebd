\* router.py:80: run blocks until a shutdown signal is received.
SPECIFICATION FairSpec
CONSTANTS
  Customers = {c1}
  c1 = c1
  Adapters = {"push", "in_app"}
  OtherChannels = {"sms"}
  NoChannel = NoChannel
  DefaultChannel = "push"
  DefaultMaxPerDay = 1
  DefaultMaxPerWeek = 2
  ChannelChoices = {}
  QuietChoices = {}
  CapChoices = {}
  DayTicks = 1
  WeekTicks = 2
  NightTicks = {1}
  Payloads <- Payloads_Delivery
  Refused = {}
  Oversized = {}
  MaxPollRecords = 2
  MaxEvents = 1
  MaxCrashes = 0
  MaxShutdowns = 1
  MaxNow = 1
PROPERTY ShutdownStops
CHECK_DEADLOCK FALSE
