SPECIFICATION FairSpec
CONSTANTS
  stream = stream
  sample = sample
  States = {stream, sample}
  Streams = {stream}
  None = None
  MirrorCount = 1
  Length <- MCLength
  OggSlots = 2
  PcmSlots = 2
  CounterMod = 4
  Chunk = 1
  EarlyChunks = 1
  Request = 3
  MinFrames = 2
  PassFrames = 1
  MayBreak = TRUE
  DecodesSoon = TRUE
INVARIANTS
  OneDecoder
  
  HandsBack
PROPERTIES
  
  CallReturns
  RunsAhead
