----------------------- MODULE MCBoundedBlockingQueue -----------------------
(* TLC instances of BoundedBlockingQueue: two producers and two consumers  *)
(* on a queue smaller than what they push.                                 *)
EXTENDS BoundedBlockingQueueProofs

CONSTANTS p1, p2, c1, c2

TwoProducers == {p1, p2}
TwoConsumers == {c1, c2}
=============================================================================
