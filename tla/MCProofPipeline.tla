--------------------------- MODULE MCProofPipeline --------------------------
(* ProofPipeline with a few requests and messages, for TLC. *)
EXTENDS ProofPipeline
=============================================================================
