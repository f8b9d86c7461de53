SPECIFICATION Spec
CONSTANTS
  HeaderSize = 2
  MaxFragment = 2
  MaxPayload <- Limits
  MaxSent = 2
  MaxFaults = 2
INVARIANT DeliversWhatWasSent
PROPERTY EveryFrameArrives
CHECK_DEADLOCK FALSE
