SPECIFICATION Spec
CONSTANTS
  NumRows = 2  NumCols = 2  PageCells = 5  NumTerminals = 2  BufSize = 3  ByteSize = 2
  Texts <- MCTexts  Welcome <- MCWelcome
  KeyCodes = {"char", "enter", "dead", "back", "tab", "ctrl L", "ctrl C"}
  FKeys = {0, 1}
  MaxKeys = 3  MaxWrites = 1  MaxMidPutc = 1
INVARIANTS BackOnScreen TypedBeforeCursor
PROPERTIES ImplementsTextScreens SavedScreensKept
CHECK_DEADLOCK FALSE
