----------------------------- MODULE MCSampler ------------------------------
(* Instance of Sampler for TLC: two lives of the sampler.                  *)
EXTENDS Sampler
=============================================================================
