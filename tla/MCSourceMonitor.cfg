\* The background loop and one manual check over two pages.
SPECIFICATION FairSpec
CONSTANTS
  Checkers = {"loop", "admin"}
  Background = "loop"
  Urls = {"u", "v"}
  Lists <- MC_Lists
  Hashes = {"h1", "h2"}
  None = "none"
  MaxManual = 1
  MaxChanges = 2
  MaxFailures = 1
PROPERTIES ChangeNoticed RowsKept Detects
