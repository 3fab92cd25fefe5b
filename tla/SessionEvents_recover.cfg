SPECIFICATION Spec
CONSTANTS
  p1 = p1
  p2 = p2
  Publishers <- MCPublishers
  MaxEvents = 3
  ReplayLimit = 3
  Window = 3
SYMMETRY PublisherSymmetry
INVARIANT ReconnectRecovers
