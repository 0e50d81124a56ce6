---------------------------- MODULE MCLifecycle ----------------------------
(***************************************************************************)
(* Lifecycle with two instances, one worker and three migration files.       *)
(***************************************************************************)
EXTENDS Lifecycle

CONSTANTS api1, api2, worker

=============================================================================
