SPECIFICATION GraphSpec
CONSTANTS
  Entities = {dog, car, man}
  Attributes = {size, near}
  Predicates = {near}
  Values = {small, large}
  NoValue = NoValue
  RequireKnown = FALSE
  MaxEntities = 2
  Frames = 2
  MaxUpdates = 2
SYMMETRY Alike
CHECK_DEADLOCK FALSE
INVARIANTS OneBelief MirrorTellsLastSet
PROPERTIES ImplementsWorldModel HistoryIsKept
