-------------------------- MODULE WaitNotifyClaims --------------------------
(***************************************************************************)
(* A statement of the repository about waiters that WaitNotify does not    *)
(* satisfy.                                                                *)
(***************************************************************************)
EXTENDS WaitNotify

(* reads.mjs:11-13 and 210-211, 0002_advance.sql:170-172: LISTEN, then read  *)
(* the watermark, then block, so a notification produced between the check  *)
(* and the wait cannot be lost.  A waiter that sleeps although an event was *)
(* promoted after it looked has a notification on the way.                  *)
NoLostWakeup ==
  \A w \in Waiter :
    pc[w] = "blocked" /\ end > hwm[w] => \E i \in DOMAIN inbox[w] : inbox[w][i] = "this"

=============================================================================
