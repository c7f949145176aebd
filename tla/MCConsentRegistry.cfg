\* The background loop and one manual sync over three editions of the workbook.
SPECIFICATION FairRegistrySpec
CONSTANTS
  Syncers = {"loop", "admin"}
  SyncLoop = "loop"
  Sheets <- MC_Sheets
  Unique = {"consent_texts"}
  Codes = {"a", "b", "c"}
  MaxEditions = 3
  Content <- MC_Content
  MaxManualSyncs = 1
  MaxSyncFailures = 1
INVARIANT RegistrySafe
PROPERTY Converges
