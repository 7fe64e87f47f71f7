CONSTANTS
  i1 = i1
  i2 = i2
  ch = ch
  Instruments <- OneInstrument
  Channels <- OneChannel
  ChannelOf <- ToOneChannel
  Garbling = TRUE
  MaxSeq = 4
  MaxTime = 3
  NsPerUs = 2
  AgeBits = 4
  StrategyMaxBookAge = 0
SPECIFICATION Spec
INVARIANTS IndInv NoSilentGap FreshQuotes AgesAgree
PROPERTIES InOrderOnce
