---------------------------- MODULE MCWaitNotify ----------------------------
(***************************************************************************)
(* WaitNotify on one chain of events.                                      *)
(***************************************************************************)
EXTENDS WaitNotifyClaims, MCReaders

=============================================================================
