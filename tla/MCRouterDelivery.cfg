\* Delivery, redelivery and opt-out over crashes, shutdowns and messages the router
\* cannot get past; a third event is capped.
SPECIFICATION FairSpec
CONSTANTS
  Customers = {c1, c2}
  c1 = c1
  c2 = c2
  Adapters = {"push"}
  OtherChannels = {"sms"}
  NoChannel = NoChannel
  DefaultChannel = "push"
  DefaultMaxPerDay = 2
  DefaultMaxPerWeek = 3
  ChannelChoices = {}
  QuietChoices = {}
  CapChoices = {}
  DayTicks = 1
  WeekTicks = 2
  NightTicks = {1}
  Payloads <- Payloads_Delivery
  Refused = {}
  Oversized = {c2}
  MaxPollRecords = 2
  MaxEvents = 3
  MaxCrashes = 1
  MaxShutdowns = 1
  MaxNow = 0
INVARIANTS TypeOK CommittedIsSettled RedeliveryNeedsCrash OneLateSend
PROPERTIES ImplementsAtLeastOnce EventsSettleUnlessPoison
CHECK_DEADLOCK FALSE
