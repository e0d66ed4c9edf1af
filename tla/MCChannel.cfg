\* A proxy session (two chunks each way), a pipeline of up to three contexts, a
\* channel of three writes, short streams for every decoder, four requests,
\* three observers of two broadcasts, and a region of three bytes.
SPECIFICATION ChannelSpec
CONSTANTS
  Components = {"agent", "pipeline", "channel", "codec", "service", "broadcast", "region"}
  MaxChunks = 2
  Uninit = {"null"}
  MaxCtx = 3
  MaxWrites = 3
  MaxActive = 2
  Base = 4
  Alphabet = {1, 2, 3}
  MaxMessages = 2
  MaxStream = 5
  MaxReqs = 4
  IdMod = 4
  Observers = {1, 2, 3}
  Keys = {"a", "b"}
  Count = 3
  FileSizes = {2, 3}
  PipeCap = 2
INVARIANTS
  ChannelTypeOK
  SessionSound
  PipelineSound
  ChannelSound
  
  BroadcastSound
  RegionSound
PROPERTIES
  
  
  SessionsEnd
CHECK_DEADLOCK FALSE
