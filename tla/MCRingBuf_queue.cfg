CONSTANTS
  SIZE = 3
  MaxBytes = 9
SPECIFICATION Spec
INVARIANTS TypeOK RingInv NeverUnderruns RestsInOrder
PROPERTY IsQueue
