CONSTANTS
  i1 = i1
  i2 = i2
  ch = ch
  Instruments <- TwoInstruments
  Channels <- OneChannel
  ChannelOf <- ToOneChannel
  Garbling = FALSE
  MaxSeq = 3
  MaxTime = 1
  NsPerUs = 1
  AgeBits = 4
  StrategyMaxBookAge = 1
SPECIFICATION Spec
SYMMETRY InstrumentSymmetry
INVARIANTS NoSilentGap
