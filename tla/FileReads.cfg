SPECIFICATION UserSpec
CONSTANTS
  BlockSize = 3
  NameLen = 2
  LastFd = 3
  Images <- AllImages
  HighBit = 32
  Requests <- Requests8
  Queries <- Queries4
  LoadSize = 6
  BufSize = 3
  Sessions <- AllSessions
  Tasks <- AllTasks
  TestMax <- TwelveThree
  Frames = 170
INVARIANTS PositionInFile ReadsInOrder ProgramsPrint LineIsRun LibraryAsDocumented
PROPERTIES ShortOnlyAtEnd ListingComplete OpensWhatIsNamed
CHECK_DEADLOCK FALSE
