SPECIFICATION EmitterSpec
CONSTANTS
  out = out
  err = err
  w1 = w1
  w2 = w2
  w3 = w3
  r1 = r1
  None = None
  Producers <- MCProducers
  Kinds <- MCKinds
  Handlers <- MCHandlers
  Writers <- MCWriters
  Readers <- MCReaders
  _QUEUE_HIGH_WATER = 0
  _MAX_BATCH_CHUNKS = 2
  MaxChunks <- MCMaxChunks
  MaxTrouble = 1
  MaxEvents = 3
SYMMETRY HandlerSymmetry
INVARIANTS
  NoConflict
  ReaderMissesNothing
  ChunksInOrder
  LastPassIsComplete
  BackPressureHolds
PROPERTY LogSpec
CHECK_DEADLOCK FALSE
