SPECIFICATION CaptureFairSpec
CONSTANTS
  Protocols = {"ssh", "netconf", "gnmi", "stub"}
  MaximumBytes = 2
  MaxOutput = 3
  Absent = Absent
  MaxText = 3
  Documents <- MCDocuments
  Responses <- MCResponses
  Observations <- MCObservations
  MaximumUpdates = 2
  MaximumOutcomes = 5
  MaximumRedactions = 1
  MaximumPathBytes = 13
  DecoderDepth = 7
  Timestamps = {"t1"}
  Answers <- MCAnswers
  Render <- RenderValue
  Pipeline <- MCPipeline
  MediaType <- MCMediaType
INVARIANTS CapturedIsComplete StripIsExact ScannerIsExact DerivativeIsSafe
  QuarantineIsRecorded EvidenceIsTheDevices
PROPERTY ExecutionEnds
CHECK_DEADLOCK FALSE
