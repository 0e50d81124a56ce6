-------------------------- MODULE MCPromotionLoop --------------------------
(***************************************************************************)
(* PromotionLoop with the universes of MCEnvelopes.                        *)
(***************************************************************************)
EXTENDS PromotionLoop, MCEnvelopes

=============================================================================
