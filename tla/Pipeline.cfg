CONSTANTS
  N = 2
  Capacity = 2
  Events = 3
  MaxSpins = 1
SPECIFICATION Spec
INVARIANTS IndInv ReportExact
PROPERTIES PipelineIsFifo Terminates
