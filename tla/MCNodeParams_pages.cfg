CONSTANTS
  Ids = {"base", "second"}
  All = All
  Settings = {"master", "dialled"}
  Default = "master"
  IdOf <- MCIdOf
  None = None
SPECIFICATION Spec
INVARIANTS TypeOK ParamInv UuidTruthful IdLostOnlyByStart
