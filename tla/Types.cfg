SPECIFICATION Spec
CONSTANTS
  Worlds <- MCWorlds
  Offsets <- MCOffsets
  Sizes <- MCSizes
INVARIANTS
  KeepsEveryFact
  AccessesAreExact
  PrunedFieldsAreDisjoint
  LayoutSound
PROPERTY TypesOnlyImprove
CHECK_DEADLOCK FALSE
