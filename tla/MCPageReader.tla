---------------------------- MODULE MCPageReader ----------------------------
(***************************************************************************)
(* PageReader on one chain of events.                                      *)
(***************************************************************************)
EXTENDS PageReaderClaims, MCReaders

=============================================================================
