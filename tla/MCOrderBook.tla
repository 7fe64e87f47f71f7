---------------------------- MODULE MCOrderBook ----------------------------
(* TLC instances of OrderBook: the ids of orders are interchangeable.      *)
EXTENDS OrderBookProofs, TLC

CONSTANTS o1, o2, o3

TwoIds == {o1, o2}
ThreeIds == {o1, o2, o3}
IdSymmetry == Permutations(Ids)
=============================================================================
