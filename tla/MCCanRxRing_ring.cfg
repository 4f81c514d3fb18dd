CONSTANTS
  SIZE = 3
  MaxMsgs = 9
SPECIFICATION Spec
INVARIANTS TypeOK CanInv RestsInOrder ReturnsWhole
PROPERTIES IsQueue
