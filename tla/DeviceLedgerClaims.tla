------------------------- MODULE DeviceLedgerClaims -------------------------
(***************************************************************************)
(* Statements the repository's comments make about the rows of a device    *)
(* that DeviceLedger does not satisfy.  Each one is the property of a run   *)
(* that finds it violated; README.md tells the story of each trace.        *)
(***************************************************************************)
EXTENDS DeviceLedger

(* conflicts.mjs:2-4: a stale revision can never overwrite a newer decision. *)
(* A decision that is replaced was replaced under a newer revision.          *)
DecisionsFinal ==
  [][\A s \in Sequence :
       conflicts[s].status = "resolved" /\ conflicts'[s].revision = conflicts[s].revision =>
         conflicts'[s] = conflicts[s]]_vars

(* 0001_init.sql:67 and 0002_advance.sql:66-71: bad_predecessor means that  *)
(* the chain breaks, that the candidate does not name the actual            *)
(* predecessor.                                                             *)
BadPredecessorMeansBroken ==
  \A s \in Sequence :
    /\ s = highWatermark + 1
    /\ conflicts[s].status = "open"
    /\ conflicts[s].reason = "bad_predecessor"
    => \A d \in Staged(status, s) :
         Fields[d].prevDigest # IF s = 1 THEN ZeroDigest ELSE audit[s - 1]

=============================================================================
