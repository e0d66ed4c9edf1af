\* The pause of the frontend, with backendPipeline_ as the constructor leaves it.
SPECIFICATION Spec
CONSTANTS
  MaxChunks = 1
  Uninit = {"null", "garbage"}
INVARIANT
  PausedUntilConnected
CHECK_DEADLOCK FALSE
