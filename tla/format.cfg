SPECIFICATION LogSpec
CONSTANTS
  Calls <- MCCalls
  Sizes <- MCSizes
  Messages <- MCCalls
  Heaps <- MCHeaps
  Rest <- MCRest
  Memory = 97
  Old = old
INVARIANTS
  NoOverrun
  Exact
  PortExact
  LocalRoom
PROPERTIES
  LogEnds
CHECK_DEADLOCK FALSE
