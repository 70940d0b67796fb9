SPECIFICATION FairSpec
CONSTANTS
  MaxPrograms = 3
  Frequencies = 4
  LastFd = 3
  MaxRate = 2
  OneBit <- MinusEight
  Values <- Numbers
PROPERTIES ImplementsFileTables RateKept RtcReadWaits RtcReadEnds
