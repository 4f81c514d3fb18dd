CONSTANTS
  BYTE = 16
  HEAD = 15
  TAIL = 14
  MIN = 4
  MAX = 9
  CHUNK = 6
  CAPACITY = 8
  OUT = 1
  Payloads <- MCPayloads
  Noise <- MCNoise
  MaxDue = 2
SPECIFICATION FairSpec
INVARIANTS TypeOK LinkInv Aligned DeliversOldest
PROPERTIES ClearsOnlySlow FramesArrive Drains BootRecovers
