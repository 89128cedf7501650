\* Sessions of up to two files over buffers shorter than a frame.
CONSTANTS
  Base = 2
  Capacity = 6
  MaxAttempts = 2
  Manifests <- MCManifests
  Payload <- EncodeMessage
  Message <- Decode

\* A session ends; SessionEnds tells it from a deadlock.
CHECK_DEADLOCK FALSE
SPECIFICATION FairSpec
INVARIANTS
  ChunksAsAsked
  NothingForTheClosed
  OutcomesAgree
PROPERTIES
  ImplementsFrameQueues
  SessionEnds
