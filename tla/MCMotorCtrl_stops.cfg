CONSTANTS
  TOP = 3
  MAILS = 2
  LIMIT = 2
SPECIFICATION FairSpec
INVARIANTS TypeOK StateTruthful MotorInv
PROPERTIES Interlock RaisedOnlyBraked FastStopWorks SlowStopWorks
