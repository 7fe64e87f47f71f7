---------------------------- MODULE MCMarketData ----------------------------
(* TLC instances of MarketData: two instruments that share a channel, or   *)
(* one instrument with a channel of its own.                               *)
EXTENDS MarketDataProofs, TLC

CONSTANTS i1, i2, ch

TwoInstruments == {i1, i2}
OneInstrument == {i1}
OneChannel == {ch}
ToOneChannel == [i \in Instruments |-> ch]
InstrumentSymmetry == Permutations(Instruments)
=============================================================================
