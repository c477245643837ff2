SPECIFICATION FairSpec
CONSTANTS
  None = None
  MAX_CHUNK_BUFFER_LEN = 1
  MAX_GOP_LEN = 1
  Modulus = 16
  MaxChunks = 2
  MaxPending = 5
  MaxPlays = 2
  StreamKind = "both"
  StrayKey = {TRUE, FALSE}
  Type3Heads = TRUE
INVARIANTS TypeOK WholeMessages MetadataFirst GapEndsAtKeyframe BufferCounted BacklogBounded
PROPERTY SlowPlayersResume
