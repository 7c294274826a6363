SPECIFICATION SystemSpec
CONSTANTS
  Token <- MCToken
  Upload = 10
  UploadRun = 11
  Go = 12
  FlashRetry = 13
  Info = 14
  LineEnd = 15
  Magic = 16
  MaxSize = 3
  Block = 2
  CrcStart = 1
  CrcByte <- MCCrcByte
  Crc <- MCCrc
  Image <- MCImage
  FlashContents <- MCFlashContents
  Depth = 3
  Width = 3
  Height = 3
  MaxSnake = 5
  InitLen = 2
  Job <- MCJob
  GameImage <- MCGame
  MaxFaults = 1
INVARIANTS
  RunnableIsVerified
  BodyIsWhole
  ScreenShowsGame
PROPERTIES
  NeckIsSafe
  ImplementsVerifiedImage
  HostAgrees
  UploadRecovers
CHECK_DEADLOCK FALSE
