SPECIFICATION Spec
CONSTANTS
  INT_MAX = 450
  FRACTION = 1
  NullPointer = NullPointer
PROPERTIES
  TextMatches
  NumbersMatch
  FormatsMatch
  ScansMatch
  UtilitiesMatch
  ArgumentsMatch
  FloatsMatch
CHECK_DEADLOCK FALSE
