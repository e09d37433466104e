SPECIFICATION RawSpec
CONSTANTS
  Watches <- MCWatches
  Inputs <- MCInputs
  JsonValues <- MCJsonValues
  ResponseIds <- MCResponseIds
  MaxKeys = 1
  MaxEdits = 2
  MdfValues = {"absent", "value"}
  Frames <- MCFrames
  Traffic <- MCTraffic
INVARIANTS
  TypeOK
  FieldsReachDriver
  BufferShowsDriver
  ConfigureSparesOthers
  FramesArriveWhole
