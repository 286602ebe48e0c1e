\* Files that grow and shrink around the limit while they are captured.
CONSTANTS
  Limit = 5
  Block = 3
  MaxLength = 8
SPECIFICATION FairSpec
INVARIANTS CaptureInv
PROPERTIES CaptureDiscipline CaptureEnds
