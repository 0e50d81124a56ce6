--------------------------- MODULE MCDeviceLedger ---------------------------
(***************************************************************************)
(* DeviceLedger with the universes of MCEnvelopes.                         *)
(***************************************************************************)
EXTENDS DeviceLedgerClaims, MCEnvelopes

=============================================================================
