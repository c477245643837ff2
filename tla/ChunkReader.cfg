SPECIFICATION FairSpec
CONSTANTS
  None = None
  Channel = {2, 6, 70}
  ExtendedCid = {70}
  ControlCid = 2
  Name = {n1}
  DEFAULT_CHUNK_BUCKET_SIZE = 4
  DEFAULT_CHUNK_SIZE = 2
  RTMP_CHUNK_EXTENDED_TIMESTAMP = 3
  Modulus = 8
  PeerSizes = {3, 8}
  Lengths = {3, 10}
  ControlLength = 2
  Steps = {0, 5}
  MaxMessages = 2
  MaxSizes = 1
  MaxNames = 1
  MaxWire = 4
INVARIANTS TypeOK InStep FullBuckets OnlyCulpritsCut TagsMatch
PROPERTIES ImplementsChannels CulpritsCut
CHECK_DEADLOCK FALSE
