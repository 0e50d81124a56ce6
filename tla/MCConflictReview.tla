-------------------------- MODULE MCConflictReview --------------------------
(***************************************************************************)
(* ConflictReview with the universes of MCEnvelopes.                       *)
(***************************************************************************)
EXTENDS ConflictReview, MCEnvelopes

=============================================================================
