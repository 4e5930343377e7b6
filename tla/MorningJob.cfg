\* Two days, with lost answers, failed jobs and concurrent rebuilds.
SPECIFICATION Spec
CONSTANTS
  Items = {1, 2}
  KeysOf <- TwoKeys
  Concepts = {1, 2}
  Home <- SameAngle
  MaxTopics = 2
  MaxDay = 2
  MaxBatches = 2
  MaxLost = 1
  MaxFaults = 2
INVARIANTS
  TypeOK
  ProposedOnce
  PublicIsWhole
  SuccessIsPublished
PROPERTIES
  PlacesKept
  PublicSettles
