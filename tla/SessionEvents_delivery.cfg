SPECIFICATION Spec
CONSTANTS
  p1 = p1
  p2 = p2
  Publishers <- MCPublishers
  MaxEvents = 4
  ReplayLimit = 2
  Window = 3
SYMMETRY PublisherSymmetry
INVARIANTS
  ShownIsReplayable
  NoEventListedTwice
  MissesHaveCauses
