--------------------------- MODULE PromotionLoop ---------------------------
(***************************************************************************)
(* The transactions of DeviceLedger that promote, with try_advance's loop  *)
(* one turn at a time.  A turn reads what the transaction has written so   *)
(* far: the predecessor of the second promotion is the row that the first  *)
(* one has just made visible.  Nobody else reads these rows before the     *)
(* commit; a crash, a statement error or a lost connection before it takes *)
(* all of them back.                                                       *)
(*                                                                         *)
(* The transaction holds the devices row: the steps that lock it wait, the *)
(* purge of expired views does not.                                        *)
(***************************************************************************)
EXTENDS DeviceLedger

VARIABLE transaction   \* what the open transaction has written, unseen by others

loopVars == <<vars, transaction>>

NoTransaction == [open |-> FALSE]

Idle == transaction = NoTransaction

Written(h, st, cf, ks, revision, log) ==
  [open |-> TRUE, highWatermark |-> h, status |-> st, conflicts |-> cf,
   deviceKeys |-> ks, controlRevision |-> revision, audit |-> log]

LoopInit == Init /\ transaction = NoTransaction

-----------------------------------------------------------------------------
(* What each handler writes before it calls try_advance.                   *)

Begin(st, cf, ks, revision) ==
  /\ Idle
  /\ transaction' = Written(highWatermark, st, cf, ks, revision, audit)
  /\ UNCHANGED vars

BeginIngest(batch) ==
  /\ CanIngest(batch)
  /\ Begin(IngestedRows(batch), IngestedConflicts(batch), deviceKeys, controlRevision)

BeginRotate(v, effective, expectedRevision, key) ==
  /\ CanRotate(v, effective, expectedRevision)
  /\ Begin(status, conflicts, RotatedKeys(effective, key), controlRevision + 1)

BeginSelect(s, expectedRevision, chosen) ==
  /\ CanSelect(s, expectedRevision, chosen)
  /\ Begin(SelectedRows(s, chosen), DecidedConflicts(s, "selected", chosen),
           deviceKeys, controlRevision)

BeginRejectAll(s, expectedRevision) ==
  /\ CanDecide(s, expectedRevision)
  /\ Begin(RefusedRows(s), DecidedConflicts(s, "rejected_all", Null),
           deviceKeys, controlRevision)

-----------------------------------------------------------------------------
(* The loop of try_advance.                                                *)

NextSequence == transaction.highWatermark + 1

Candidates == Staged(transaction.status, NextSequence)

(* Mutant of Follows: v_prev is read once, before the loop.                 *)
FollowsCommitted(d) ==
  IF highWatermark = 0
    THEN Fields[d].prevDigest = ZeroDigest
    ELSE Fields[d].prevDigest \in Visible(status, highWatermark)

(* prev_digest against v_prev, the row visible at v_hwm: NULL, which is     *)
(* distinct from every digest, when compaction has deleted it.              *)
Follows(d) ==
  IF transaction.highWatermark = 0
    THEN Fields[d].prevDigest = ZeroDigest
    ELSE Fields[d].prevDigest \in Visible(transaction.status, transaction.highWatermark)

(* The turn gets as far as the UPDATE that promotes d.                      *)
Promotes(d) ==
  /\ NextSequence \in Sequence
  /\ transaction.conflicts[NextSequence].status # "open"
  /\ Candidates = {d}
  /\ Follows(d)
  /\ Owns(transaction.deviceKeys, Fields[d].keyVersion, NextSequence)

Promote ==
  /\ transaction.open
  /\ \E d \in Digest :
       /\ Promotes(d)
       /\ transaction' = Written(NextSequence, [transaction.status EXCEPT ![d] = "visible"],
                                 transaction.conflicts, transaction.deviceKeys,
                                 transaction.controlRevision, Append(transaction.audit, d))
  /\ UNCHANGED vars

(* The conflict row with which the turn that promotes nothing leaves.       *)
ExitConflict(c) ==
  IF c.status = "open" \/ Candidates = {} THEN c
  ELSE IF SeveralStaged(transaction.status, NextSequence)
    THEN ReconcileConflict(transaction.status, c, NextSequence, FALSE)
  ELSE IF \A d \in Candidates : ~ Follows(d)
    THEN Reopened(c, "bad_predecessor", FALSE)
    ELSE Reopened(c, "key_generation_invalid", FALSE)

(* The turn that leaves the loop, and COMMIT.                               *)
Commit ==
  /\ transaction.open
  /\ \A d \in Digest : ~ Promotes(d)
  /\ deviceKeys' = transaction.deviceKeys
  /\ controlRevision' = transaction.controlRevision
  /\ highWatermark' = transaction.highWatermark
  /\ status' = transaction.status
  /\ conflicts' = [s \in Sequence |->
       IF s = NextSequence THEN ExitConflict(transaction.conflicts[s])
                           ELSE transaction.conflicts[s]]
  /\ audit' = transaction.audit
  /\ \A s \in Sequence : conflicts'[s].revision =< MaxRevision
  /\ transaction' = NoTransaction
  /\ UNCHANGED <<checkpoints, readViews>>

(* The API or the database dies, or a statement fails.                      *)
Rollback ==
  /\ transaction.open
  /\ transaction' = NoTransaction
  /\ UNCHANGED vars

(* Transactions that wait for the devices row.                              *)
Locking ==
  \/ \E k \in PublicKey : RegisterDevice(k)
  \/ CompactByPolicy
  \/ \E c \in Sequence : CompactManually(c)
  \/ \E v \in View, a \in 0..MaxSequence : OpenView(v, a)

Unlocked ==
  \/ \E v \in View : ExpireView(v)
  \/ PurgeViews

LoopNext ==
  \/ \E batch \in (SUBSET Digest) \ {{}} : BeginIngest(batch)
  \/ \E v \in 1..Len(deviceKeys) + 1, e \in Sequence, r \in 1..controlRevision, k \in PublicKey :
       BeginRotate(v, e, r, k)
  \/ \E d \in Digest, r \in 1..MaxRevision : BeginSelect(SeqOf(d), r, d)
  \/ \E s \in Sequence, r \in 1..MaxRevision : BeginRejectAll(s, r)
  \/ Promote
  \/ Commit
  \/ Rollback
  \/ Idle /\ Locking /\ UNCHANGED transaction
  \/ Unlocked /\ UNCHANGED transaction

LoopSpec == LoopInit /\ [][LoopNext]_loopVars

(* A transaction ends one way or the other.  The worker's timer starts a    *)
(* pass again and again; a row lock is granted to those who wait for it in  *)
(* their turn.                                                              *)
FairLoopSpec ==
  /\ LoopSpec
  /\ WF_loopVars(Promote \/ Commit \/ Rollback)
  /\ SF_loopVars(Idle /\ CompactByPolicy /\ UNCHANGED transaction)

-----------------------------------------------------------------------------
(* Properties.                                                             *)

(* However many events one call promotes, and wherever it crashes, others   *)
(* see one transaction of DeviceLedger or nothing: never a regression, a    *)
(* gap, a duplicate or a partial promotion (0002_advance.sql:1-4).          *)
ImplementsDeviceLedger == Spec

=============================================================================
