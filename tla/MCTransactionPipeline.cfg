\* The webhook and the consumer on one topic.
SPECIFICATION MC_Spec
CONSTANTS
  Messages <- MC_Messages
  Largest = 10000
  MaxPollRecords = 2
  MaxEvents = 4
  MaxCrashes = 1
  MaxStops = 1
  Payloads <- MC_Payloads
  SecretConfigured = TRUE
  MaxPayload = 2
  Partitions = {"here", "there"}
  Here = "here"
  Retries = 1
  MaxRequests = 2
  MaxOthers = 3
INVARIANTS ConsumerSafe PipelineSafe
PROPERTIES ImplementsAtLeastOnce SettlesUnlessPoison StopsWhenRunning
CHECK_DEADLOCK FALSE
