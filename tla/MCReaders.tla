------------------------------ MODULE MCReaders ------------------------------
(***************************************************************************)
(* The events of one device for the modules about its readers: the prefix  *)
(* is a single chain, so an event stands for its sequence.                 *)
(***************************************************************************)
EXTENDS Integers

CONSTANT Length

Chain == 1..Length

ChainFields == [d \in Chain |-> [sequence |-> d, prevDigest |-> d - 1]]

=============================================================================
