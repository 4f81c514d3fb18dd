CONSTANTS
  Images = {"z"}
  Compressed = {"z"}
  Size <- MCSize
  RunSize <- MCRunSize
  Crc <- MCCrc
  Ver <- MCVerZero
  Tag <- MCTag
  PAGE = 6
  MAXSIZE = 12
  HW = 8
  Blank = Blank
  Junk = Junk
  None = None
  MaxFaults = 0
SPECIFICATION Spec
INVARIANT PackedReadAsPacked
