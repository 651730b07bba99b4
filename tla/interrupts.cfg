SPECIFICATION Spec
CONSTANTS
  Exceptions <- MCExceptions
  WithError <- MCWithError
  Numbers <- MCNumbers
  MaxSteps = 4
INVARIANTS
  Transparent
  IretOnFrame
  ServesWhatWasAsked
PROPERTIES
  Returns
CHECK_DEADLOCK FALSE
