-------------------------- MODULE MCPairExecution --------------------------
(* TLC instances of PairExecution: a cheap and a rich venue, a thin, a     *)
(* stale and a one-sided quote; interchangeable instruments.               *)
EXTENDS PairExecution, TLC

CONSTANTS i1, i2

TwoInstruments == {i1, i2}
InstrumentSymmetry == Permutations(Instruments)

Q(bp, bq, ap, aq, age) ==
  [bid_px |-> bp, bid_qty |-> bq, ask_px |-> ap, ask_qty |-> aq, age |-> age]

Cheap == Q(7, 2, 9, 2, 0)
Rich == Q(14, 2, 15, 2, 0)
Thin == Q(14, 1, 15, 1, 0)
Stale == Q(14, 2, 15, 2, 2)
OneSided == Q(8, 2, 0, 0, 0)

MCQuotes == {Cheap, Rich, Thin, Stale, OneSided}
=============================================================================
