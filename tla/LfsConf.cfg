SPECIFICATION Spec
CONSTANTS
  Axes <- MCAxes
  Names <- MCNames
  ConfigName <- MCConfigName
  Data <- MCData
  Sizes = {1, 2}
  None = None
INVARIANTS SaveIsDurable LoadIsFaithful FailureIsReported
