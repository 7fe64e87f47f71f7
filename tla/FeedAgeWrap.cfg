CONSTANTS
  i1 = i1
  i2 = i2
  ch = ch
  Instruments <- OneInstrument
  Channels <- OneChannel
  ChannelOf <- ToOneChannel
  Garbling = FALSE
  MaxSeq = 2
  MaxTime = 5
  NsPerUs = 1
  AgeBits = 2
  StrategyMaxBookAge = 1
SPECIFICATION Spec
INVARIANTS FreshQuotes
