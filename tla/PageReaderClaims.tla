-------------------------- MODULE PageReaderClaims --------------------------
(***************************************************************************)
(* A statement of the repository about pages that PageReader does not      *)
(* satisfy.                                                                *)
(***************************************************************************)
EXTENDS PageReader

(* reads.mjs:133-134: a position behind a checkpoint is answered 410 rather *)
(* than silently skipping auditable data.  What a client was given has no   *)
(* gap between its start and its position.                                  *)
NoSilentGap ==
  \A r \in Reader :
    Sequences(traversal[r].got) = (traversal[r].start + 1)..traversal[r].position

=============================================================================
