SPECIFICATION Spec
CONSTANTS
  Token <- MCToken
  Upload = 10
  UploadRun = 11
  Go = 12
  WadUpload = 13
  FastWad = 14
  Info = 15
  WadInfo = 16
  Caps = 17
  AppMagic = 18
  WadMagic = 19
  Iwad = 20
  Pwad = 21
  LumpName = {23, 24}
  Word = 32
  AppMax = 3
  WadMax = 8
  Block = 2
  FastBlock = 4
  Depth = 3
  Crc <- MCCrc
  Image <- MCImage
  Wad <- MCWad
  Job <- MCJob
  Garbage <- MCGarbage
  MaxFaults = 1
  DoomImage <- MCDoom
  Slots = 2
  HeapStart = 8
  HeapEnd = 16
  Request = {0, 3, 8}
  Size = {1, 2, 8}
  Offset <- MCOffset
  Pixels = 6
  MaxRun = 4
  SeqWrap = 8
  KeyEvery = 4
  TextEvery = 2
  Picture <- MCPicture
  Rvf2 = 100
  Text = 101
  PictureCrc <- MCCrc
  Key = {"w", "up", "shift"}
  Shift = "shift"
  Reported <- MCReported
  Keysym <- MCKeysym
  KeyCode <- MCKeyCode
  Release = 27
  MaxTimers = 2
INVARIANTS
  HandoffIsReadable
  RleIsLossless
  KeysAgree
PROPERTIES
  ImplementsVerifiedImage
  HostAgrees
  UploadRecovers
  LumpsReadWhole
  ShownIsDrawn
  ViewerResyncs
CHECK_DEADLOCK FALSE
