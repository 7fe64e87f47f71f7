-------------------------- MODULE MCQueuePipeline --------------------------
(* TLC instance of QueuePipeline: one worker between two small queues.     *)
EXTENDS QueuePipelineProofs
=============================================================================
