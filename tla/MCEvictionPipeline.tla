------------------------- MODULE MCEvictionPipeline -------------------------
(***************************************************************************)
(* EvictionPipeline for TLC: two pods, the one caller this code has (the  *)
(* memory evictor's periodic loop), and two eviction requests per pod, so *)
(* that a failed request is retried and an expired entry re-evicted.      *)
(***************************************************************************)
EXTENDS EvictionPipeline

=============================================================================
