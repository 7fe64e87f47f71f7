---------------------------- MODULE MCSimulator ----------------------------
(* TLC instances of Simulator: two cheap and two rich books, with the      *)
(* depth at the best price or spread over levels.                          *)
EXTENDS Simulator

CONSTANT i1

OneInstrument == {i1}

Rungs(f) == [p \in Prices |-> IF p \in DOMAIN f THEN f[p] ELSE 0]
Book(bids, asks) == [s \in Sides |-> Rungs(IF s = "Buy" THEN bids ELSE asks)]

Cheap == Book(2 :> 1 @@ 1 :> 2, 3 :> 3)
CheapThin == Book(2 :> 3, 3 :> 2 @@ 4 :> 1)
Rich == Book(5 :> 3, 6 :> 3)
RichThin == Book(5 :> 1 @@ 4 :> 2, 6 :> 3)

MCBooks == {Cheap, CheapThin, Rich, RichThin}
=============================================================================
