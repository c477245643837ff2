SPECIFICATION FairSpec
CONSTANTS
  None = None
  MAX_CHUNK_BUFFER_LEN = 1
  MAX_GOP_LEN = 1
  Modulus = 16
  MaxChunks = 2
  MaxPending = 6
  MaxPlays = 1
  StreamKind = "audio"
  StrayKey = {FALSE}
  Type3Heads = FALSE
PROPERTY SlowPlayersResume
