------------------------------ MODULE PinnedLog ------------------------------
(***************************************************************************)
(* An AuditLog with the two things compaction owes to readers: it is cut   *)
(* only where nobody with an unexpired view reads, and each cut leaves a   *)
(* checkpoint that names the entry it ends with, for ever.                 *)
(***************************************************************************)
EXTENDS Integers

CONSTANTS
  Digest, Fields, ZeroDigest, MaxSequence,   \* of AuditLog
  View,   \* ids of fixed read views
  Null

VARIABLES
  end, floor, anchor, retained,   \* of AuditLog
  checkpoints,   \* the checkpoints: sequence and digest of the entry
  pins           \* pins[v]: where the reading through view v began, or Null

Log == INSTANCE AuditLog

log == <<end, floor, anchor, retained>>
vars == <<log, checkpoints, pins>>

Init ==
  /\ Log!Init
  /\ checkpoints = {}
  /\ pins = [v \in View |-> Null]

Extend ==
  /\ \E h \in (end + 1)..MaxSequence : Log!Extend(h)
  /\ UNCHANGED <<checkpoints, pins>>

(* Mutant of CheckpointRows: older checkpoints are pruned.                  *)
CheckpointRowsPruned(c, digest) == {[sequence |-> c, digest |-> digest]}

CheckpointRows(c, digest) == checkpoints \cup {[sequence |-> c, digest |-> digest]}

(* Never above the start of an unexpired view.                              *)
Truncate(c) ==
  /\ \A v \in View : pins[v] # Null => c =< pins[v]
  /\ Log!Truncate(c)
  /\ checkpoints' = CheckpointRows(c, anchor')
  /\ UNCHANGED pins

Pin(v, start) ==
  /\ pins[v] = Null
  /\ pins' = [pins EXCEPT ![v] = start]
  /\ UNCHANGED <<log, checkpoints>>

(* A view expires.                                                          *)
Unpin(v) ==
  /\ pins' = [pins EXCEPT ![v] = Null]
  /\ UNCHANGED <<log, checkpoints>>

Next ==
  \/ Extend
  \/ \E c \in (floor + 1)..end : Truncate(c)
  \/ \E v \in View, start \in 0..MaxSequence : Pin(v, start)
  \/ \E v \in View : Unpin(v)

Spec == Init /\ [][Next]_vars

=============================================================================
