CONSTANTS
  Images = {"a"}
  Compressed = {}
  Size <- MCSize
  RunSize <- MCRunSize
  Crc <- MCCrc
  Ver <- MCVer
  Tag <- MCTag
  PAGE = 6
  MAXSIZE = 12
  HW = 8
  Blank = Blank
  Junk = Junk
  None = None
  MaxFaults = 3
SPECIFICATION Spec
INVARIANT GivenUpStaysInBootloader
