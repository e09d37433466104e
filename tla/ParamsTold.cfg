SPECIFICATION RawSpec
CONSTANTS
  Watches <- MCToldWatches
  Inputs <- MCInputs
  JsonValues <- MCToldJsonValues
  ResponseIds <- MCResponseIds
  MaxKeys = 2
  MaxEdits = 3
  MdfValues = {"value"}
  Frames <- MCFrames
  Traffic <- MCTraffic
INVARIANT SomeClaimHolds
