-------------------------- MODULE MCSpscRingBuffer --------------------------
(* TLC instances of SpscRingBuffer: every interleaving of one producer and *)
(* one consumer, with enough values to reuse every slot.                   *)
EXTENDS SpscRingBufferProofs
=============================================================================
