------------------------- MODULE DeviceLedgerProofs -------------------------
(***************************************************************************)
(* Proofs of the safety properties of DeviceLedger, for every universe of  *)
(* envelopes, every number of sequences, views and public keys and every   *)
(* compaction policy.  What a promotion does is proved once, in            *)
(* AdvanceLemma, and used by the four transactions that end with one.  The *)
(* last sections are about what compaction does to the history: the chain  *)
(* of checkpoints, what a fixed view keeps, and that the rows a reader can *)
(* see implement the log of AuditLog.                                      *)
(***************************************************************************)
EXTENDS DeviceLedger, SequenceTheorems, WellFoundedInduction, TLAPS

StatusRows   == [Digest -> {"absent", "staged", "visible", "rejected"}]
ConflictRows == [Sequence -> ConflictRow]

-----------------------------------------------------------------------------
(* Facts about the operators.                                              *)

LEMMA MaxIs ==
  ASSUME NEW S \in SUBSET Int, NEW m \in S, \A x \in S : x =< m
  PROVE  Max(S) = m
<1>1. \A x \in S : (\A y \in S : x >= y) => x = m
  OBVIOUS
<1>2. \A y \in S : m >= y
  OBVIOUS
<1> QED
  BY <1>1, <1>2 DEF Max

LEMMA SeqOfType == \A d \in Digest : SeqOf(d) \in Sequence
BY FieldsAssumption DEF SeqOf

LEMMA ReopenedType ==
  ASSUME NEW c \in ConflictRow, NEW reason \in ConflictReason, NEW bump \in BOOLEAN
  PROVE  Reopened(c, reason, bump) \in ConflictRow
<1>1. c.revision \in Nat /\ c.revision + 1 \in Nat
  BY DEF ConflictRow
<1> QED
  BY <1>1 DEF Reopened, ConflictRow

LEMMA ReconcileType ==
  ASSUME NEW st, NEW c \in ConflictRow, NEW s, NEW added \in BOOLEAN
  PROVE  ReconcileConflict(st, c, s, added) \in ConflictRow
<1>1. DivergenceReason(st, s) \in ConflictReason
  BY DEF DivergenceReason, ConflictReason
<1> QED
  BY <1>1, ReopenedType DEF ReconcileConflict

LEMMA FrontierType ==
  ASSUME NEW st, NEW c \in ConflictRow, NEW s
  PROVE  FrontierConflict(st, c, s) \in ConflictRow
<1>1. {"bad_predecessor", "key_generation_invalid"} \subseteq ConflictReason
  BY DEF ConflictReason
<1> QED
  BY <1>1, ReconcileType, ReopenedType DEF FrontierConflict

-----------------------------------------------------------------------------
(* What try_advance does, whatever its transaction has written before it.  *)

(* The sequences it promotes have one candidate each, which becomes visible *)
(* and enters the audit; everything else keeps its place, and the hash      *)
(* chain grows without a break.                                             *)
LEMMA AdvanceLemma ==
  ASSUME TypeOK, PrefixIntact, HashChain, LatestSequence \in 0..highWatermark,
         NEW st \in StatusRows, NEW cf \in ConflictRows, NEW ks,
         \A d \in Digest : st[d] = "visible" <=> status[d] = "visible",
         TryAdvance(st, cf, ks)
  PROVE  /\ highWatermark' \in highWatermark..MaxSequence
         /\ status' \in StatusRows
         /\ conflicts' \in ConflictRows
         /\ audit' \in Seq(Digest)
         /\ Len(audit') = highWatermark'
         /\ \A s \in 1..highWatermark : audit'[s] = audit[s]
         /\ \A s \in (highWatermark + 1)..highWatermark' :
              /\ Staged(st, s) = {audit'[s]}
              /\ Owns(ks, Fields[audit'[s]].keyVersion, s)
         /\ \A d \in Digest :
              status'[d] = IF st[d] = "staged" /\ SeqOf(d) \in (highWatermark + 1)..highWatermark'
                             THEN "visible" ELSE st[d]
         /\ HashChain'
<1> USE BoundsAssumption, SeqOfType
<1>1. PICK h \in highWatermark..MaxSequence :
        /\ \A s \in (highWatermark + 1)..h : Promotable(st, cf, ks, s)
        /\ highWatermark' = h
        /\ status' = [d \in Digest |->
                        IF SeqOf(d) \in (highWatermark + 1)..h /\ st[d] = "staged"
                          THEN "visible" ELSE st[d]]
        /\ conflicts' = [s \in Sequence |->
                           IF s = h + 1 THEN FrontierConflict(st, cf[s], s) ELSE cf[s]]
        /\ audit' = [s \in 1..h |->
                       IF s \in (highWatermark + 1)..h THEN CHOOSE d \in Staged(st, s) : TRUE
                                                       ELSE audit[s]]
  BY Zenon DEF TryAdvance
<1>2. highWatermark \in Nat /\ h \in Nat /\ audit \in Seq(Digest) /\ Len(audit) = highWatermark
  BY DEF TypeOK, PrefixIntact
<1>3. ASSUME NEW s \in (highWatermark + 1)..h
      PROVE  /\ audit'[s] \in Digest
             /\ Staged(st, s) = {audit'[s]}
             /\ Owns(ks, Fields[audit'[s]].keyVersion, s)
             /\ Linked(st, audit'[s])
  <2>1. PICK d \in Staged(st, s) : Linked(st, d) /\ Owns(ks, Fields[d].keyVersion, s)
    BY <1>1 DEF Promotable
  <2>2. Staged(st, s) = {d}
    BY <1>1, <2>1 DEF Promotable, SeveralStaged
  <2>3. audit'[s] = d
    <3>1. s \in 1..h
      BY <1>2
    <3>2. audit'[s] = CHOOSE x \in Staged(st, s) : TRUE
      BY <1>1, <3>1
    <3> QED
      BY <2>2, <3>2
  <2> QED
    BY <2>1, <2>2, <2>3 DEF Staged
<1>4. \A s \in 1..highWatermark : audit'[s] = audit[s] /\ audit'[s] \in Digest
  <2>1. \A s \in 1..highWatermark : audit[s] \in Digest
    BY <1>2
  <2> QED
    BY <1>1, <1>2, <2>1
<1>5. audit' \in Seq(Digest) /\ Len(audit') = h /\ DOMAIN audit' = 1..h
  <2>1. \A s \in 1..h : s \in 1..highWatermark \/ s \in (highWatermark + 1)..h
    BY <1>2
  <2>2. DOMAIN audit' = 1..h
    BY <1>1
  <2>3. audit' \in [1..h -> Digest]
    BY <1>1, <1>3, <1>4, <2>1
  <2>4. audit' \in Seq(Digest)
    BY <1>2, <2>3, SeqDef
  <2>5. Len(audit') \in Nat /\ 1..Len(audit') = 1..h
    BY <2>2, <2>4, LenProperties
  <2> QED
    BY <1>2, <2>2, <2>4, <2>5
<1>6. conflicts' \in ConflictRows
  <2>1. \A s \in Sequence : cf[s] \in ConflictRow
    BY DEF ConflictRows
  <2> QED
    BY <1>1, <2>1, FrontierType DEF ConflictRows
<1>7. status' \in StatusRows
  BY <1>1 DEF StatusRows
<1>8. HashChain'
  <2>1. SUFFICES ASSUME NEW s \in 1..h
                 PROVE  Fields[audit'[s]].prevDigest = IF s = 1 THEN ZeroDigest ELSE audit'[s - 1]
    BY <1>5 DEF HashChain
  <2>2. CASE s \in 1..highWatermark
    <3>1. s \in DOMAIN audit
      BY <1>2, <2>2
    <3>2. Fields[audit[s]].prevDigest = IF s = 1 THEN ZeroDigest ELSE audit[s - 1]
      BY <3>1 DEF HashChain
    <3>3. s # 1 => s - 1 \in 1..highWatermark
      BY <1>2, <2>2
    <3> QED
      BY <1>4, <2>2, <3>2, <3>3
  <2>3. CASE s \in (highWatermark + 1)..h
    <3>1. audit'[s] \in Digest /\ SeqOf(audit'[s]) = s /\ Linked(st, audit'[s])
      BY <1>3, <2>3 DEF Staged
    <3>2. CASE s = 1
      BY <3>1, <3>2 DEF Linked
    <3>3. CASE s # 1
      <4>1. PICK p \in Digest :
              /\ Fields[audit'[s]].prevDigest = p
              /\ SeqOf(p) = s - 1
              /\ st[p] = IF SeqOf(p) = highWatermark THEN "visible" ELSE "staged"
        BY <3>1, <3>3 DEF Linked
      <4>2. CASE s - 1 = highWatermark
        <5>1. p \in {audit[t] : t \in (LatestSequence + 1)..highWatermark}
          BY <4>1, <4>2 DEF PrefixIntact
        <5>2. PICK t \in (LatestSequence + 1)..highWatermark : p = audit[t]
          BY <5>1
        <5>3. t \in 1..highWatermark
          BY <1>2
        <5>4. SeqOf(p) = t
          BY <5>2, <5>3 DEF PrefixIntact
        <5> QED
          BY <1>4, <3>3, <4>1, <4>2, <5>2, <5>3, <5>4
      <4>3. CASE s - 1 # highWatermark
        <5>1. s - 1 \in (highWatermark + 1)..h
          BY <1>2, <2>3, <4>3
        <5>2. p \in Staged(st, s - 1)
          BY <4>1, <4>3 DEF Staged
        <5> QED
          BY <1>3, <3>3, <4>1, <5>1, <5>2
      <4> QED
        BY <4>2, <4>3
    <3> QED
      BY <3>2, <3>3
  <2> QED
    BY <1>2, <2>2, <2>3
<1> QED
  BY <1>1, <1>2, <1>3, <1>4, <1>5, <1>6, <1>7, <1>8

-----------------------------------------------------------------------------
(* The inductive invariant.                                                *)

(* The newest checkpoint is one of the rows, covers all the others and does *)
(* not pass the watermark, and each checkpoint holds the digest of its      *)
(* event: what makes LatestSequence the lower end of the visible prefix.    *)
CheckpointsCovered ==
  /\ LatestSequence \in 0..highWatermark
  /\ \A c \in checkpoints :
       c.sequence =< LatestSequence /\ c.digest = audit[c.sequence]

PrefixInv == TypeOK /\ PrefixIntact /\ HashChain /\ CheckpointsCovered

(* A transaction that only touches rows which are not visible, and then     *)
(* calls try_advance, keeps the prefix, its chain and its checkpoints.      *)
LEMMA AdvanceKeepsPrefix ==
  ASSUME PrefixInv,
         NEW st \in StatusRows, NEW cf \in ConflictRows, NEW ks,
         \A d \in Digest : st[d] = "visible" <=> status[d] = "visible",
         TryAdvance(st, cf, ks),
         UNCHANGED checkpoints
  PROVE  /\ highWatermark' \in 0..MaxSequence
         /\ status' \in StatusRows
         /\ conflicts' \in ConflictRows
         /\ audit' \in Seq(Digest)
         /\ PrefixIntact'
         /\ HashChain'
         /\ CheckpointsCovered'
<1> USE BoundsAssumption, SeqOfType
<1> DEFINE new == (highWatermark + 1)..highWatermark'
<1>1. /\ highWatermark' \in highWatermark..MaxSequence
      /\ status' \in StatusRows
      /\ conflicts' \in ConflictRows
      /\ audit' \in Seq(Digest)
      /\ Len(audit') = highWatermark'
      /\ \A s \in 1..highWatermark : audit'[s] = audit[s]
      /\ \A s \in new : Staged(st, s) = {audit'[s]}
      /\ \A d \in Digest :
           status'[d] = IF st[d] = "staged" /\ SeqOf(d) \in new THEN "visible" ELSE st[d]
      /\ HashChain'
  BY AdvanceLemma DEF PrefixInv, CheckpointsCovered
<1>2. highWatermark \in Nat /\ highWatermark' \in Nat
  BY <1>1 DEF PrefixInv, TypeOK
<1>3. LatestSequence' = LatestSequence /\ LatestSequence \in 0..highWatermark
  BY DEF LatestSequence, PrefixInv, CheckpointsCovered
<1>4. \A s \in 1..highWatermark' : SeqOf(audit'[s]) = s
  <2>1. \A s \in 1..highWatermark : SeqOf(audit[s]) = s
    BY DEF PrefixInv, PrefixIntact
  <2>2. \A s \in new : SeqOf(audit'[s]) = s
    BY <1>1 DEF Staged
  <2>3. \A s \in 1..highWatermark' : s \in 1..highWatermark \/ s \in new
    BY <1>2
  <2> QED
    BY <1>1, <2>1, <2>2, <2>3
<1>5. ASSUME NEW d \in Digest
      PROVE  status'[d] = "visible" <=>
               \E s \in (LatestSequence + 1)..highWatermark' : d = audit'[s]
  <2>1. status[d] = "visible" <=>
          \E s \in (LatestSequence + 1)..highWatermark : d = audit[s]
    BY DEF PrefixInv, PrefixIntact
  <2>2. st[d] = "visible" <=>
          \E s \in (LatestSequence + 1)..highWatermark : d = audit'[s]
    BY <1>1, <1>2, <1>3, <2>1
  <2>3. (st[d] = "staged" /\ SeqOf(d) \in new) <=> \E s \in new : d = audit'[s]
    BY <1>1 DEF Staged
  <2>4. \A s : s \in (LatestSequence + 1)..highWatermark' <=>
                 s \in (LatestSequence + 1)..highWatermark \/ s \in new
    BY <1>1, <1>2, <1>3
  <2> QED
    BY <1>1, <2>2, <2>3, <2>4
<1>6. PrefixIntact'
  <2>1. \A s \in (LatestSequence + 1)..highWatermark' : audit'[s] \in Digest
    BY <1>1, <1>2, <1>3
  <2>2. {d \in Digest : status'[d] = "visible"} =
          {audit'[s] : s \in (LatestSequence + 1)..highWatermark'}
    BY <1>5, <2>1
  <2> QED
    BY <1>1, <1>3, <1>4, <2>2 DEF PrefixIntact
<1>7. CheckpointsCovered'
  <2>1. \A c \in checkpoints :
          c.sequence \in 1..highWatermark /\ c.digest = audit[c.sequence] /\ c.sequence =< LatestSequence
    BY <1>2, <1>3 DEF PrefixInv, CheckpointsCovered, TypeOK, CheckpointRow, Sequence
  <2> QED
    BY <1>1, <1>2, <1>3, <2>1 DEF CheckpointsCovered
<1> QED
  BY <1>1, <1>2, <1>6, <1>7

-----------------------------------------------------------------------------
(* Which transactions promote.                                             *)

(* The transaction has written st, cf and ks, none of which makes a row     *)
(* visible or hides one, when it calls try_advance.                         *)
Advancing ==
  /\ \E st \in StatusRows, cf \in ConflictRows, ks \in Seq(KeyRow) :
       /\ \A d \in Digest : st[d] = "visible" <=> status[d] = "visible"
       /\ TryAdvance(st, cf, ks)
  /\ UNCHANGED <<checkpoints, readViews>>

(* What the handlers write before they promote is well-typed and moves no   *)
(* row into or out of the visible ones.                                     *)
LEMMA IngestWrites ==
  ASSUME TypeOK, NEW batch \in SUBSET Digest
  PROVE  /\ IngestedRows(batch) \in StatusRows
         /\ \A d \in Digest : IngestedRows(batch)[d] = "visible" <=> status[d] = "visible"
         /\ IngestedConflicts(batch) \in ConflictRows
<1> DEFINE st == IngestedRows(batch)
           cf == IngestedConflicts(batch)
<1>1. st \in StatusRows /\ \A d \in Digest : st[d] = "visible" <=> status[d] = "visible"
  BY DEF TypeOK, StatusRows, IsAddition, IngestedRows
<1>2. \A s \in Sequence : conflicts[s] \in ConflictRow
  BY DEF TypeOK
<1>3. ASSUME NEW s \in Sequence
      PROVE  cf[s] \in ConflictRow
  <2> DEFINE added == \E d \in batch : SeqOf(d) = s /\ IsAddition(d)
  <2>1. ReconcileConflict(st, conflicts[s], s, added) \in ConflictRow
    <3>1. added \in BOOLEAN
      OBVIOUS
    <3> HIDE DEF added, st
    <3> QED
      BY <1>2, <3>1, ReconcileType
  <2> QED
    BY <1>2, <2>1 DEF IngestedConflicts
<1> QED
  BY <1>1, <1>3 DEF ConflictRows, IngestedConflicts

LEMMA DecidedType ==
  ASSUME TypeOK, NEW s \in Sequence, NEW resolution \in {"selected", "rejected_all"},
         NEW chosen \in Digest \cup {Null}
  PROVE  DecidedConflicts(s, resolution, chosen) \in ConflictRows
<1>1. conflicts \in ConflictRows /\ conflicts[s] \in ConflictRow
  BY DEF TypeOK, ConflictRows
<1>2. Decided(conflicts[s], resolution, chosen) \in ConflictRow
  BY <1>1 DEF Decided, ConflictRow
<1> QED
  BY <1>1, <1>2 DEF ConflictRows, DecidedConflicts

LEMMA SelectWrites ==
  ASSUME TypeOK, NEW s \in Sequence, NEW chosen \in Digest
  PROVE  /\ SelectedRows(s, chosen) \in StatusRows
         /\ \A d \in Digest : SelectedRows(s, chosen)[d] = "visible" <=> status[d] = "visible"
         /\ DecidedConflicts(s, "selected", chosen) \in ConflictRows
<1>1. DecidedConflicts(s, "selected", chosen) \in ConflictRows
  BY DecidedType
<1> QED
  BY <1>1 DEF TypeOK, StatusRows, SelectedRows

LEMMA RejectAllWrites ==
  ASSUME TypeOK, NEW s \in Sequence
  PROVE  /\ RefusedRows(s) \in StatusRows
         /\ \A d \in Digest : RefusedRows(s)[d] = "visible" <=> status[d] = "visible"
         /\ DecidedConflicts(s, "rejected_all", Null) \in ConflictRows
<1>1. DecidedConflicts(s, "rejected_all", Null) \in ConflictRows
  BY DecidedType
<1> QED
  BY <1>1 DEF TypeOK, StatusRows, Staged, RefusedRows

LEMMA IngestAdvances ==
  ASSUME TypeOK, NEW batch \in SUBSET Digest, IngestBatch(batch)
  PROVE  Advancing /\ UNCHANGED keyVars
<1>1. /\ TryAdvance(IngestedRows(batch), IngestedConflicts(batch), deviceKeys)
      /\ UNCHANGED <<keyVars, checkpoints, readViews>>
  BY DEF IngestBatch
<1> QED
  BY <1>1, IngestWrites DEF Advancing, TypeOK

LEMMA RotateAdvances ==
  ASSUME TypeOK, NEW v, NEW e \in Sequence, NEW r, NEW k \in PublicKey, RotateKey(v, e, r, k)
  PROVE  Advancing /\ deviceKeys' \in Seq(KeyRow) /\ controlRevision' \in Nat
<1>1. TryAdvance(status, conflicts, deviceKeys') /\ UNCHANGED <<checkpoints, readViews>>
  BY DEF RotateKey
<1>2. status \in StatusRows /\ conflicts \in ConflictRows
  BY DEF TypeOK, StatusRows, ConflictRows
<1>3. deviceKeys' \in Seq(KeyRow) /\ controlRevision' \in Nat
  BY DEF TypeOK, RotateKey, RotatedKeys, KeyRow
<1> QED
  BY <1>1, <1>2, <1>3 DEF Advancing

LEMMA SelectAdvances ==
  ASSUME TypeOK, NEW s \in Sequence, NEW r, NEW chosen \in Digest,
         AdjudicateSelect(s, r, chosen)
  PROVE  Advancing /\ UNCHANGED keyVars
<1>1. /\ TryAdvance(SelectedRows(s, chosen), DecidedConflicts(s, "selected", chosen), deviceKeys)
      /\ UNCHANGED <<keyVars, checkpoints, readViews>>
  BY DEF AdjudicateSelect
<1> QED
  BY <1>1, SelectWrites DEF Advancing, TypeOK

LEMMA RejectAllAdvances ==
  ASSUME TypeOK, NEW s \in Sequence, NEW r, AdjudicateRejectAll(s, r)
  PROVE  Advancing /\ UNCHANGED keyVars
<1>1. /\ TryAdvance(RefusedRows(s), DecidedConflicts(s, "rejected_all", Null), deviceKeys)
      /\ UNCHANGED <<keyVars, checkpoints, readViews>>
  BY DEF AdjudicateRejectAll
<1> QED
  BY <1>1, RejectAllWrites DEF Advancing, TypeOK

(* What a step that moves no event does to the views.                       *)
ViewStep ==
  \/ \E v \in View, a \in 0..MaxSequence : OpenView(v, a)
  \/ \E v \in View : ExpireView(v)
  \/ PurgeViews
  \/ UNCHANGED readViews

(* Every step promotes, compacts, or leaves events and checkpoints alone.   *)
LEMMA StepKinds ==
  ASSUME TypeOK, [Next]_vars
  PROVE  \/ Advancing
         \/ \E cutoff \in Int : CheckpointUpTo(cutoff)
         \/ UNCHANGED <<eventVars, checkpoints>> /\ ViewStep
<1>1. ASSUME NEW batch \in (SUBSET Digest) \ {{}}, IngestBatch(batch) PROVE Advancing
  BY <1>1, IngestAdvances
<1>2. ASSUME NEW v \in 1..Len(deviceKeys) + 1, NEW e \in Sequence,
             NEW r \in 1..controlRevision, NEW k \in PublicKey, RotateKey(v, e, r, k)
      PROVE  Advancing
  BY <1>2, RotateAdvances
<1>3. ASSUME NEW d \in Digest, NEW r \in 1..MaxRevision, AdjudicateSelect(SeqOf(d), r, d)
      PROVE  Advancing
  BY <1>3, SelectAdvances, SeqOfType
<1>4. ASSUME NEW s \in Sequence, NEW r \in 1..MaxRevision, AdjudicateRejectAll(s, r)
      PROVE  Advancing
  BY <1>4, RejectAllAdvances
<1>5. CASE CompactByPolicy \/ \E c \in Sequence : CompactManually(c)
  <2>1. highWatermark - RetentionEvents \in Int /\ \A c \in Sequence : c \in Int
    BY BoundsAssumption DEF TypeOK, Sequence
  <2> QED
    BY <1>5, <2>1 DEF CompactByPolicy, CompactManually
<1>6. CASE \/ \E k \in PublicKey : RegisterDevice(k)
           \/ \E v \in View, a \in 0..MaxSequence : OpenView(v, a)
           \/ \E v \in View : ExpireView(v)
           \/ PurgeViews
           \/ UNCHANGED vars
  <2>1. ViewStep
    BY <1>6 DEF ViewStep, RegisterDevice, vars
  <2> QED
    BY <1>6, <2>1 DEF RegisterDevice, OpenView, ExpireView, PurgeViews, vars
<1> QED
  BY <1>1, <1>2, <1>3, <1>4, <1>5, <1>6 DEF Next

-----------------------------------------------------------------------------
(* PrefixInv is preserved by every transaction.                            *)

(* Keys and views have their own columns: their types need no more.         *)
LEMMA KeysAndViewsType ==
  ASSUME TypeOK, [Next]_vars
  PROVE  /\ deviceKeys' \in Seq(KeyRow)
         /\ controlRevision' \in Nat
         /\ readViews' \in [View -> ViewRow]
<1> DEFINE Goal == /\ deviceKeys' \in Seq(KeyRow)
                   /\ controlRevision' \in Nat
                   /\ readViews' \in [View -> ViewRow]
<1>1. UNCHANGED <<keyVars, readViews>> => Goal
  BY DEF keyVars, TypeOK
<1>2. ASSUME NEW k \in PublicKey, RegisterDevice(k) PROVE Goal
  BY <1>2, BoundsAssumption DEF RegisterDevice, InitialKey, KeyRow, Sequence, TypeOK
<1>3. ASSUME NEW batch \in (SUBSET Digest) \ {{}}, IngestBatch(batch) PROVE Goal
  BY <1>1, <1>3, IngestAdvances DEF Advancing
<1>4. ASSUME NEW v \in 1..Len(deviceKeys) + 1, NEW e \in Sequence,
             NEW r \in 1..controlRevision, NEW k \in PublicKey, RotateKey(v, e, r, k)
      PROVE  Goal
  <2>1. Advancing /\ deviceKeys' \in Seq(KeyRow) /\ controlRevision' \in Nat
    BY <1>4, RotateAdvances
  <2> QED
    BY <2>1 DEF Advancing, TypeOK
<1>5. ASSUME NEW d \in Digest, NEW r \in 1..MaxRevision, AdjudicateSelect(SeqOf(d), r, d)
      PROVE  Goal
  BY <1>1, <1>5, SelectAdvances, SeqOfType DEF Advancing
<1>6. ASSUME NEW s \in Sequence, NEW r \in 1..MaxRevision, AdjudicateRejectAll(s, r)
      PROVE  Goal
  BY <1>1, <1>6, RejectAllAdvances DEF Advancing
<1>7. ASSUME CompactByPolicy \/ \E c \in Sequence : CompactManually(c) PROVE Goal
  BY <1>1, <1>7 DEF CompactByPolicy, CompactManually, CheckpointUpTo
<1>8. ASSUME NEW v \in View, NEW a \in 0..MaxSequence, OpenView(v, a) PROVE Goal
  BY <1>8 DEF OpenView, keyVars, TypeOK, ViewRow
<1>9. ASSUME NEW v \in View, ExpireView(v) PROVE Goal
  BY <1>9 DEF ExpireView, keyVars, TypeOK, ViewRow
<1>10. ASSUME PurgeViews PROVE Goal
  BY <1>10, BoundsAssumption DEF PurgeViews, NoView, keyVars, TypeOK, ViewRow
<1>11. ASSUME UNCHANGED vars PROVE Goal
  BY <1>1, <1>11 DEF vars
<1> HIDE DEF Goal
<1>12. Goal
  BY <1>2, <1>3, <1>4, <1>5, <1>6, <1>7, <1>8, <1>9, <1>10, <1>11 DEF Next
<1> QED
  BY <1>12 DEF Goal

(* A compaction cuts the visible prefix at an event of the prefix, which    *)
(* becomes the newest checkpoint.                                           *)
LEMMA CompactLemma ==
  ASSUME PrefixInv, NEW cutoff \in Int, CheckpointUpTo(cutoff)
  PROVE  LET cut == Min({cutoff, ViewFloor}) IN
         /\ cut \in (LatestSequence + 1)..highWatermark
         /\ audit[cut] \in Digest
         /\ status[audit[cut]] = "visible"
         /\ SeqOf(audit[cut]) = cut
         /\ checkpoints' = checkpoints \cup
              {[sequence |-> cut, digest |-> audit[cut], prevSequence |-> LatestSequence]}
         /\ status' = [x \in Digest |->
                         IF status[x] = "visible" /\ SeqOf(x) =< cut THEN "absent" ELSE status[x]]
         /\ UNCHANGED <<keyVars, highWatermark, conflicts, audit, readViews>>
         /\ LatestSequence' = cut
<1> USE BoundsAssumption, SeqOfType
<1> DEFINE cut == Min({cutoff, ViewFloor})
<1> HIDE DEF cut
<1>1. PICK d \in Digest :
        /\ status[d] = "visible"
        /\ SeqOf(d) = cut
        /\ cut > LatestSequence
        /\ checkpoints' = checkpoints \cup
             {[sequence |-> cut, digest |-> d, prevSequence |-> LatestSequence]}
  BY DEF CheckpointUpTo, Visible, cut
<1>2. /\ status' = [x \in Digest |->
                      IF status[x] = "visible" /\ SeqOf(x) =< cut THEN "absent" ELSE status[x]]
      /\ UNCHANGED <<keyVars, highWatermark, conflicts, audit, readViews>>
  BY DEF CheckpointUpTo, cut
<1>3. /\ highWatermark \in 0..MaxSequence
      /\ LatestSequence \in 0..highWatermark
      /\ audit \in Seq(Digest)
      /\ Len(audit) = highWatermark
  BY DEF PrefixInv, TypeOK, PrefixIntact, CheckpointsCovered
<1>4. cut \in (LatestSequence + 1)..highWatermark /\ d = audit[cut]
  <2>1. PICK t \in (LatestSequence + 1)..highWatermark : d = audit[t]
    BY <1>1 DEF PrefixInv, PrefixIntact
  <2>2. SeqOf(d) = t
    BY <1>3, <2>1 DEF PrefixInv, PrefixIntact
  <2> QED
    BY <1>1, <2>1, <2>2
<1>5. LatestSequence' = cut
  <2> DEFINE S == {0} \cup {c.sequence : c \in checkpoints'}
  <2>1. \A c \in checkpoints : c.sequence \in 0..MaxSequence /\ c.sequence =< LatestSequence
    BY DEF PrefixInv, CheckpointsCovered, TypeOK, CheckpointRow, Sequence
  <2>2. S \in SUBSET Int /\ cut \in S /\ \A x \in S : x =< cut
    <3> DEFINE row == [sequence |-> cut, digest |-> d, prevSequence |-> LatestSequence]
    <3>1. row.sequence = cut /\ checkpoints' = checkpoints \cup {row}
      BY <1>1
    <3> HIDE DEF row
    <3>2. \A x : x \in S <=> x = 0 \/ x = cut \/ \E c \in checkpoints : x = c.sequence
      BY <3>1
    <3> HIDE DEF S
    <3> QED
      BY <1>3, <1>4, <2>1, <3>2
  <2> HIDE DEF S
  <2>3. Max(S) = cut
    BY <2>2, MaxIs
  <2> QED
    BY <2>3 DEF LatestSequence, S
<1> QED
  BY <1>1, <1>2, <1>4, <1>5 DEF cut

(* What a compaction deletes is what its checkpoint covers.                 *)
LEMMA PrefixCompact ==
  ASSUME PrefixInv, NEW cutoff \in Int, CheckpointUpTo(cutoff)
  PROVE  PrefixInv'
<1> USE BoundsAssumption, SeqOfType
<1> DEFINE cut == Min({cutoff, ViewFloor})
           d == audit[cut]
<1> HIDE DEF cut
<1>1. /\ d \in Digest
      /\ status[d] = "visible"
      /\ SeqOf(d) = cut
      /\ cut > LatestSequence
      /\ checkpoints' = checkpoints \cup
           {[sequence |-> cut, digest |-> d, prevSequence |-> LatestSequence]}
  BY CompactLemma DEF cut, PrefixInv, CheckpointsCovered, TypeOK
<1>2. /\ status' = [x \in Digest |->
                      IF status[x] = "visible" /\ SeqOf(x) =< cut THEN "absent" ELSE status[x]]
      /\ UNCHANGED <<keyVars, highWatermark, conflicts, audit, readViews>>
  BY CompactLemma DEF cut
<1>3. /\ highWatermark \in 0..MaxSequence
      /\ LatestSequence \in 0..highWatermark
      /\ audit \in Seq(Digest)
      /\ Len(audit) = highWatermark
  BY DEF PrefixInv, TypeOK, PrefixIntact, CheckpointsCovered
<1>4. cut \in (LatestSequence + 1)..highWatermark
  BY CompactLemma DEF cut
<1>5. LatestSequence' = cut
  BY CompactLemma DEF cut
<1>6. TypeOK'
  <2>1. [sequence |-> cut, digest |-> d, prevSequence |-> LatestSequence] \in CheckpointRow
    BY <1>1, <1>3 DEF CheckpointRow
  <2>2. checkpoints' \subseteq CheckpointRow
    BY <1>1, <2>1 DEF PrefixInv, TypeOK
  <2>3. status' \in [Digest -> {"absent", "staged", "visible", "rejected"}]
    BY <1>2 DEF PrefixInv, TypeOK
  <2> QED
    BY <1>2, <2>2, <2>3 DEF PrefixInv, TypeOK, keyVars
<1>7. PrefixIntact'
  <2>1. ASSUME NEW x \in Digest
        PROVE  status'[x] = "visible" <=> \E s \in (cut + 1)..highWatermark : x = audit[s]
    <3>1. status[x] = "visible" <=>
            \E s \in (LatestSequence + 1)..highWatermark : x = audit[s]
      BY DEF PrefixInv, PrefixIntact
    <3>2. status'[x] = "visible" <=> status[x] = "visible" /\ ~ (SeqOf(x) =< cut)
      BY <1>2
    <3>3. \A s \in (LatestSequence + 1)..highWatermark : SeqOf(audit[s]) = s
      BY <1>3 DEF PrefixInv, PrefixIntact
    <3> QED
      BY <1>3, <1>4, <3>1, <3>2, <3>3
  <2>2. \A s \in (cut + 1)..highWatermark : audit[s] \in Digest
    BY <1>3, <1>4
  <2>3. {x \in Digest : status'[x] = "visible"} = {audit[s] : s \in (cut + 1)..highWatermark}
    BY <2>1, <2>2
  <2> QED
    BY <1>2, <1>5, <2>3 DEF PrefixInv, PrefixIntact
<1>8. CheckpointsCovered'
  <2>1. \A c \in checkpoints : c.sequence \in 0..MaxSequence
    BY DEF PrefixInv, TypeOK, CheckpointRow, Sequence
  <2> QED
    BY <1>1, <1>2, <1>3, <1>4, <1>5, <2>1 DEF PrefixInv, CheckpointsCovered
<1>9. HashChain'
  BY <1>2 DEF PrefixInv, HashChain
<1> QED
  BY <1>6, <1>7, <1>8, <1>9 DEF PrefixInv

(* What the remaining transactions leave alone is the whole prefix.         *)
LEMMA PrefixOther ==
  ASSUME PrefixInv, UNCHANGED <<eventVars, checkpoints>>
  PROVE  PrefixIntact' /\ HashChain' /\ CheckpointsCovered'
<1>1. UNCHANGED <<highWatermark, status, audit, checkpoints>>
  BY DEF eventVars
<1>2. LatestSequence' = LatestSequence
  BY <1>1 DEF LatestSequence
<1>3. PrefixIntact'
  BY <1>1, <1>2 DEF PrefixInv, PrefixIntact
<1>4. HashChain' /\ CheckpointsCovered'
  BY <1>1, <1>2 DEF PrefixInv, HashChain, CheckpointsCovered
<1> QED
  BY <1>3, <1>4

LEMMA PrefixInit == Init => PrefixInv
<1> SUFFICES ASSUME Init PROVE PrefixInv
  OBVIOUS
<1> USE BoundsAssumption
<1>1. LatestSequence = 0
  <2> DEFINE S == {0} \cup {c.sequence : c \in checkpoints}
  <2>1. S = {0}
    BY DEF Init
  <2>2. Max({0}) = 0
    BY MaxIs
  <2> QED
    BY <2>1, <2>2 DEF LatestSequence
<1>2. TypeOK
  <2>1. conflicts \in [Sequence -> ConflictRow]
    BY DEF Init, NoConflict, ConflictRow, ConflictReason
  <2>2. readViews \in [View -> ViewRow]
    BY DEF Init, NoView, ViewRow
  <2>3. deviceKeys \in Seq(KeyRow) /\ audit \in Seq(Digest)
    BY EmptySeq DEF Init
  <2> QED
    BY <2>1, <2>2, <2>3 DEF Init, TypeOK
<1>3. PrefixIntact
  <2>1. Len(audit) = 0
    BY EmptySeq DEF Init
  <2> QED
    BY <1>1, <2>1 DEF Init, PrefixIntact
<1>4. HashChain
  <2>1. DOMAIN audit = {}
    BY DEF Init
  <2> QED
    BY <2>1 DEF HashChain
<1>5. CheckpointsCovered
  BY <1>1 DEF Init, CheckpointsCovered
<1> QED
  BY <1>2, <1>3, <1>4, <1>5 DEF PrefixInv

LEMMA PrefixNext == PrefixInv /\ [Next]_vars => PrefixInv'
<1> SUFFICES ASSUME PrefixInv, [Next]_vars PROVE PrefixInv'
  OBVIOUS
<1>1. TypeOK
  BY DEF PrefixInv
<1>2. /\ deviceKeys' \in Seq(KeyRow)
      /\ controlRevision' \in Nat
      /\ readViews' \in [View -> ViewRow]
  BY <1>1, KeysAndViewsType
<1>3. CASE Advancing
  <2>1. PICK st \in StatusRows, cf \in ConflictRows, ks \in Seq(KeyRow) :
          /\ \A d \in Digest : st[d] = "visible" <=> status[d] = "visible"
          /\ TryAdvance(st, cf, ks)
    BY <1>3 DEF Advancing
  <2>2. UNCHANGED checkpoints
    BY <1>3 DEF Advancing
  <2>3. /\ highWatermark' \in 0..MaxSequence
        /\ status' \in StatusRows
        /\ conflicts' \in ConflictRows
        /\ audit' \in Seq(Digest)
        /\ PrefixIntact' /\ HashChain' /\ CheckpointsCovered'
    BY <2>1, <2>2, AdvanceKeepsPrefix
  <2> QED
    BY <1>1, <1>2, <2>2, <2>3 DEF PrefixInv, TypeOK, StatusRows, ConflictRows
<1>4. ASSUME NEW cutoff \in Int, CheckpointUpTo(cutoff) PROVE PrefixInv'
  BY <1>4, PrefixCompact
<1>5. CASE UNCHANGED <<eventVars, checkpoints>>
  BY <1>1, <1>2, <1>5, PrefixOther DEF PrefixInv, TypeOK, eventVars
<1> QED
  BY <1>1, <1>3, <1>4, <1>5, StepKinds

(* PrefixInv holds in every reachable state.                                *)
THEOREM PrefixInvariant == Spec => []PrefixInv
BY PrefixInit, PrefixNext, PTL DEF Spec

(* Every column of every table keeps its type.                              *)
THEOREM TypeCorrect == Spec => []TypeOK
<1>1. PrefixInv => TypeOK
  BY DEF PrefixInv
<1> QED
  BY <1>1, PrefixInvariant, PTL

(* The visible rows are always the promoted events above the newest         *)
(* checkpoint, without a gap or a duplicate.                                *)
THEOREM PrefixAlwaysIntact == Spec => []PrefixIntact
<1>1. PrefixInv => PrefixIntact
  BY DEF PrefixInv
<1> QED
  BY <1>1, PrefixInvariant, PTL

(* The promoted events always form one hash chain from the zero digest.     *)
THEOREM ChainNeverBroken == Spec => []HashChain
<1>1. PrefixInv => HashChain
  BY DEF PrefixInv
<1> QED
  BY <1>1, PrefixInvariant, PTL

-----------------------------------------------------------------------------
(* Key ownership.                                                          *)

(* d is signed by the generation that owns its sequence under the keys ks.  *)
SignedUnder(ks, d) ==
  /\ Owns(ks, Fields[d].keyVersion, SeqOf(d))
  /\ Fields[d].signer = ks[Fields[d].keyVersion].publicKey

OwnershipInv == PrefixInv /\ OwnerSigned

(* A promotion neither invents an owner nor finds a candidate without one:  *)
(* the branch of try_advance that raises key_generation_invalid is not      *)
(* taken.                                                                   *)
LEMMA AdvanceKeepsOwners ==
  ASSUME PrefixInv,
         NEW st \in StatusRows, NEW cf \in ConflictRows, NEW ks,
         \A d \in Digest : st[d] = "visible" <=> status[d] = "visible",
         TryAdvance(st, cf, ks),
         \A d \in Digest : st[d] = "staged" => SignedUnder(ks, d),
         \A s \in DOMAIN audit : SignedUnder(ks, audit[s]),
         \A s \in Sequence : cf[s].reason # "key_generation_invalid"
  PROVE  /\ \A d \in Digest : status'[d] = "staged" => SignedUnder(ks, d)
         /\ \A s \in DOMAIN audit' : SignedUnder(ks, audit'[s])
         /\ \A s \in Sequence : conflicts'[s].reason # "key_generation_invalid"
<1> USE BoundsAssumption, SeqOfType
<1>1. /\ highWatermark' \in highWatermark..MaxSequence
      /\ audit' \in Seq(Digest)
      /\ Len(audit') = highWatermark'
      /\ \A s \in 1..highWatermark : audit'[s] = audit[s]
      /\ \A s \in (highWatermark + 1)..highWatermark' : Staged(st, s) = {audit'[s]}
      /\ \A d \in Digest :
           status'[d] = IF st[d] = "staged" /\ SeqOf(d) \in (highWatermark + 1)..highWatermark'
                          THEN "visible" ELSE st[d]
  BY AdvanceLemma DEF PrefixInv, CheckpointsCovered
<1>2. highWatermark \in Nat /\ audit \in Seq(Digest) /\ DOMAIN audit = 1..highWatermark
  BY DEF PrefixInv, TypeOK, PrefixIntact
<1>3. \A d \in Digest : status'[d] = "staged" => SignedUnder(ks, d)
  BY <1>1
<1>4. ASSUME NEW s \in DOMAIN audit'
      PROVE  SignedUnder(ks, audit'[s])
  <2>1. s \in 1..highWatermark \/ s \in (highWatermark + 1)..highWatermark'
    BY <1>1, <1>2
  <2>2. CASE s \in (highWatermark + 1)..highWatermark'
    BY <1>1, <2>2 DEF Staged
  <2> QED
    BY <1>1, <1>2, <2>1, <2>2
<1>5. ASSUME NEW s \in Sequence
      PROVE  conflicts'[s].reason # "key_generation_invalid"
  <2>1. PICK h \in highWatermark..MaxSequence :
          /\ ~ Promotable(st, cf, ks, h + 1)
          /\ conflicts' = [t \in Sequence |->
                             IF t = h + 1 THEN FrontierConflict(st, cf[t], t) ELSE cf[t]]
    BY Zenon DEF TryAdvance
  <2>2. CASE s # h + 1
    BY <2>1, <2>2
  <2>3. CASE s = h + 1
    <3>1. conflicts'[s] = FrontierConflict(st, cf[s], s)
      BY <2>1, <2>3
    <3>2. CASE cf[s].status = "open" \/ Staged(st, s) = {}
      BY <3>1, <3>2 DEF FrontierConflict
    <3>3. CASE cf[s].status # "open" /\ SeveralStaged(st, s)
      <4>1. DivergenceReason(st, s) # "key_generation_invalid"
        BY DEF DivergenceReason
      <4>2. ReconcileConflict(st, cf[s], s, FALSE).reason # "key_generation_invalid"
        BY <4>1 DEF ReconcileConflict, Reopened
      <4>3. Staged(st, s) # {}
        BY <3>3 DEF SeveralStaged
      <4> QED
        BY <3>1, <3>3, <4>2, <4>3 DEF FrontierConflict
    <3>4. CASE cf[s].status # "open" /\ ~ SeveralStaged(st, s) /\ Staged(st, s) # {}
      <4>1. \A d \in Staged(st, s) : Owns(ks, Fields[d].keyVersion, s)
        BY DEF Staged, SignedUnder
      <4>2. \A d \in Staged(st, s) : ~ Linked(st, d)
        BY <2>1, <2>3, <3>4, <4>1 DEF Promotable
      <4>3. conflicts'[s] = Reopened(cf[s], "bad_predecessor", FALSE)
        BY <3>1, <3>4, <4>2 DEF FrontierConflict
      <4> QED
        BY <4>3 DEF Reopened
    <3> QED
      BY <3>2, <3>3, <3>4
  <2> QED
    BY <2>2, <2>3
<1> QED
  BY <1>3, <1>4, <1>5

LEMMA OwnerSignedUnder ==
  ASSUME audit \in Seq(Digest)
  PROVE  OwnerSigned <=>
           /\ \A d \in Digest : status[d] = "staged" => SignedUnder(deviceKeys, d)
           /\ \A s \in DOMAIN audit : SignedUnder(deviceKeys, audit[s])
           /\ \A s \in Sequence : conflicts[s].reason # "key_generation_invalid"
<1>1. \A s \in DOMAIN audit : audit[s] \in Digest
  OBVIOUS
<1> QED
  BY <1>1 DEF OwnerSigned, SignedUnder

LEMMA OwnerSignedUnderNext ==
  ASSUME audit' \in Seq(Digest),
         \A d \in Digest : status'[d] = "staged" => SignedUnder(deviceKeys', d),
         \A s \in DOMAIN audit' : SignedUnder(deviceKeys', audit'[s]),
         \A s \in Sequence : conflicts'[s].reason # "key_generation_invalid"
  PROVE  OwnerSigned'
<1>1. \A s \in DOMAIN audit' : audit'[s] \in Digest
  OBVIOUS
<1> QED
  BY <1>1 DEF OwnerSigned, SignedUnder, Owns, SeqOf

LEMMA OwnersIngest ==
  ASSUME OwnershipInv, NEW batch \in SUBSET Digest, IngestBatch(batch)
  PROVE  OwnerSigned'
<1> DEFINE st == IngestedRows(batch)
           cf == IngestedConflicts(batch)
<1>1. TryAdvance(st, cf, deviceKeys) /\ UNCHANGED <<keyVars, checkpoints, readViews>>
  BY DEF IngestBatch
<1>2. st \in StatusRows /\ \A d \in Digest : st[d] = "visible" <=> status[d] = "visible"
  BY IngestWrites DEF OwnershipInv, PrefixInv
<1>3. audit \in Seq(Digest)
  BY DEF OwnershipInv, PrefixInv, TypeOK
<1>4. /\ \A d \in Digest : status[d] = "staged" => SignedUnder(deviceKeys, d)
      /\ \A s \in DOMAIN audit : SignedUnder(deviceKeys, audit[s])
      /\ \A s \in Sequence : conflicts[s].reason # "key_generation_invalid"
  BY <1>3, OwnerSignedUnder DEF OwnershipInv
<1>5. \A d \in Digest : st[d] = "staged" => SignedUnder(deviceKeys, d)
  <2>1. \A d \in batch : SignedUnder(deviceKeys, d)
    BY DEF IngestBatch, CanIngest, Acceptable, SignedUnder
  <2> QED
    BY <1>4, <2>1 DEF IngestedRows
<1>6. ASSUME NEW s \in Sequence
      PROVE  cf[s] \in ConflictRow /\ cf[s].reason # "key_generation_invalid"
  <2> DEFINE added == \E d \in batch : SeqOf(d) = s /\ IsAddition(d)
  <2>1. conflicts[s] \in ConflictRow
    BY DEF OwnershipInv, PrefixInv, TypeOK
  <2>2. /\ ReconcileConflict(st, conflicts[s], s, added) \in ConflictRow
        /\ ReconcileConflict(st, conflicts[s], s, added).reason # "key_generation_invalid"
    <3>1. added \in BOOLEAN
      OBVIOUS
    <3> HIDE DEF added, st
    <3>2. DivergenceReason(st, s) # "key_generation_invalid"
      BY DEF DivergenceReason
    <3> QED
      BY <1>4, <2>1, <3>1, <3>2, ReconcileType DEF ReconcileConflict, Reopened
  <2> HIDE DEF added, st
  <2>3. cf[s] = IF \E d \in batch : SeqOf(d) = s
                  THEN ReconcileConflict(st, conflicts[s], s, added) ELSE conflicts[s]
    BY DEF added, st, IngestedConflicts
  <2> QED
    BY <1>4, <2>1, <2>2, <2>3
<1>7. cf \in ConflictRows
  BY <1>6 DEF ConflictRows, IngestedConflicts
<1> HIDE DEF st, cf
<1>8. /\ \A d \in Digest : status'[d] = "staged" => SignedUnder(deviceKeys, d)
      /\ \A s \in DOMAIN audit' : SignedUnder(deviceKeys, audit'[s])
      /\ \A s \in Sequence : conflicts'[s].reason # "key_generation_invalid"
  BY <1>1, <1>2, <1>4, <1>5, <1>6, <1>7, AdvanceKeepsOwners DEF OwnershipInv
<1>9. audit' \in Seq(Digest)
  BY <1>1, <1>2, <1>7, AdvanceKeepsPrefix DEF OwnershipInv
<1>10. deviceKeys' = deviceKeys
  BY <1>1 DEF keyVars
<1> QED
  BY <1>8, <1>9, <1>10, OwnerSignedUnderNext

(* A new generation starts above every candidate and above the watermark,   *)
(* so it takes nothing from the generations before it.                      *)
LEMMA OwnersRotate ==
  ASSUME OwnershipInv,
         NEW v, NEW e \in Sequence, NEW r, NEW k \in PublicKey,
         RotateKey(v, e, r, k)
  PROVE  OwnerSigned'
<1>1. /\ TryAdvance(status, conflicts, deviceKeys')
      /\ UNCHANGED <<checkpoints, readViews>>
      /\ deviceKeys' = Append(deviceKeys, [publicKey |-> k, effectiveSequence |-> e])
  BY DEF RotateKey, RotatedKeys
<1>2. status \in StatusRows /\ conflicts \in ConflictRows
  BY DEF OwnershipInv, PrefixInv, TypeOK, StatusRows, ConflictRows
<1>3. /\ audit \in Seq(Digest)
      /\ DOMAIN audit = 1..highWatermark
      /\ deviceKeys \in Seq(KeyRow)
      /\ highWatermark \in Nat
  BY DEF OwnershipInv, PrefixInv, TypeOK, PrefixIntact
<1>4. /\ \A d \in Digest : status[d] = "staged" => SignedUnder(deviceKeys, d)
      /\ \A s \in DOMAIN audit : SignedUnder(deviceKeys, audit[s])
      /\ \A s \in Sequence : conflicts[s].reason # "key_generation_invalid"
  BY <1>3, OwnerSignedUnder DEF OwnershipInv
<1>5. ASSUME NEW d \in Digest, SeqOf(d) < e, SignedUnder(deviceKeys, d)
      PROVE  SignedUnder(deviceKeys', d)
  <2>1. DOMAIN deviceKeys' = 1..(Len(deviceKeys) + 1) /\ DOMAIN deviceKeys = 1..Len(deviceKeys)
    BY <1>1, <1>3
  <2>2. \A w \in DOMAIN deviceKeys : deviceKeys'[w] = deviceKeys[w]
    BY <1>1, <1>3
  <2>3. deviceKeys'[Len(deviceKeys) + 1].effectiveSequence = e
    BY <1>1, <1>3
  <2>4. SeqOf(d) \in Int /\ e \in Int /\ Len(deviceKeys) \in Nat
    BY <1>3, SeqOfType DEF Sequence
  <2>5. \A w \in DOMAIN deviceKeys' : w \in DOMAIN deviceKeys \/ w = Len(deviceKeys) + 1
    BY <2>1, <2>4
  <2>6. DOMAIN deviceKeys \subseteq DOMAIN deviceKeys'
    BY <2>1, <2>4
  <2>7. \A w \in DOMAIN deviceKeys' :
          deviceKeys'[w].effectiveSequence =< SeqOf(d) => w \in DOMAIN deviceKeys
    BY <1>5, <2>3, <2>4, <2>5
  <2> QED
    BY <1>5, <2>2, <2>6, <2>7 DEF SignedUnder, Owns
<1>6. \A d \in Digest : status[d] = "staged" => SignedUnder(deviceKeys', d)
  <2>1. \A d \in Digest : status[d] = "staged" => SeqOf(d) < e
    BY DEF RotateKey, CanRotate, BoundaryFree
  <2> QED
    BY <1>4, <1>5, <2>1
<1>7. \A s \in DOMAIN audit : SignedUnder(deviceKeys', audit[s])
  <2>1. \A s \in DOMAIN audit : audit[s] \in Digest /\ SeqOf(audit[s]) < e
    BY <1>3 DEF RotateKey, CanRotate, OwnershipInv, PrefixInv, PrefixIntact, Sequence
  <2> QED
    BY <1>4, <1>5, <2>1
<1>8. /\ \A d \in Digest : status'[d] = "staged" => SignedUnder(deviceKeys', d)
      /\ \A s \in DOMAIN audit' : SignedUnder(deviceKeys', audit'[s])
      /\ \A s \in Sequence : conflicts'[s].reason # "key_generation_invalid"
  BY <1>1, <1>2, <1>4, <1>6, <1>7, AdvanceKeepsOwners DEF OwnershipInv
<1>9. audit' \in Seq(Digest)
  BY <1>1, <1>2, AdvanceKeepsPrefix DEF OwnershipInv
<1> QED
  BY <1>8, <1>9, OwnerSignedUnderNext

(* A decision only refuses candidates.                                      *)
LEMMA OwnersDecide ==
  ASSUME OwnershipInv,
         NEW s \in Sequence, NEW resolution \in {"selected", "rejected_all"},
         NEW chosen \in Digest \cup {Null}, NEW st \in StatusRows,
         \A d \in Digest : st[d] = "visible" <=> status[d] = "visible",
         \A d \in Digest : st[d] = "staged" => status[d] = "staged",
         TryAdvance(st, DecidedConflicts(s, resolution, chosen), deviceKeys),
         UNCHANGED <<keyVars, checkpoints, readViews>>
  PROVE  OwnerSigned'
<1> DEFINE cf == DecidedConflicts(s, resolution, chosen)
<1>1. audit \in Seq(Digest) /\ conflicts \in ConflictRows
  BY DEF OwnershipInv, PrefixInv, TypeOK, ConflictRows
<1>2. /\ \A d \in Digest : status[d] = "staged" => SignedUnder(deviceKeys, d)
      /\ \A t \in DOMAIN audit : SignedUnder(deviceKeys, audit[t])
      /\ \A t \in Sequence : conflicts[t].reason # "key_generation_invalid"
  BY <1>1, OwnerSignedUnder DEF OwnershipInv
<1>3. cf \in ConflictRows
  BY DecidedType DEF OwnershipInv, PrefixInv
<1>4. \A t \in Sequence : cf[t].reason # "key_generation_invalid"
  <2>1. conflicts[s] \in ConflictRow
    BY <1>1 DEF ConflictRows
  <2>2. Decided(conflicts[s], resolution, chosen).reason = conflicts[s].reason
    BY <2>1 DEF Decided, ConflictRow
  <2> QED
    BY <1>1, <1>2, <2>2 DEF ConflictRows, DecidedConflicts
<1> HIDE DEF cf
<1>5. TryAdvance(st, cf, deviceKeys)
  BY DEF cf
<1>6. /\ \A d \in Digest : status'[d] = "staged" => SignedUnder(deviceKeys, d)
      /\ \A t \in DOMAIN audit' : SignedUnder(deviceKeys, audit'[t])
      /\ \A t \in Sequence : conflicts'[t].reason # "key_generation_invalid"
  BY <1>2, <1>3, <1>4, <1>5, AdvanceKeepsOwners DEF OwnershipInv
<1>7. audit' \in Seq(Digest)
  BY <1>3, <1>5, AdvanceKeepsPrefix DEF OwnershipInv
<1>8. deviceKeys' = deviceKeys
  BY DEF keyVars
<1> QED
  BY <1>6, <1>7, <1>8, OwnerSignedUnderNext

(* The other transactions add no candidate; a registration finds none.      *)
LEMMA OwnersOther ==
  ASSUME OwnershipInv,
         UNCHANGED <<conflicts, audit>>,
         \A d \in Digest : status'[d] = "staged" => status[d] = "staged",
         deviceKeys' = deviceKeys \/ deviceKeys = <<>>
  PROVE  OwnerSigned'
<1>1. audit \in Seq(Digest)
  BY DEF OwnershipInv, PrefixInv, TypeOK
<1>2. /\ \A d \in Digest : status[d] = "staged" => SignedUnder(deviceKeys, d)
      /\ \A t \in DOMAIN audit : SignedUnder(deviceKeys, audit[t])
      /\ \A t \in Sequence : conflicts[t].reason # "key_generation_invalid"
  BY <1>1, OwnerSignedUnder DEF OwnershipInv
<1>3. ASSUME deviceKeys = <<>>
      PROVE  \A d : ~ SignedUnder(deviceKeys, d)
  BY <1>3 DEF SignedUnder, Owns
<1>4. /\ \A d \in Digest : status'[d] = "staged" => SignedUnder(deviceKeys', d)
      /\ \A t \in DOMAIN audit' : SignedUnder(deviceKeys', audit'[t])
      /\ \A t \in Sequence : conflicts'[t].reason # "key_generation_invalid"
  BY <1>2, <1>3
<1> QED
  BY <1>1, <1>4, OwnerSignedUnderNext

LEMMA OwnersInit == Init => OwnershipInv
<1> SUFFICES ASSUME Init PROVE OwnerSigned
  BY PrefixInit DEF OwnershipInv
<1>1. audit = <<>> /\ DOMAIN audit = {} /\ \A d \in Digest : status[d] # "staged"
  BY DEF Init
<1>2. \A s \in Sequence : conflicts[s].reason = "none"
  BY DEF Init, NoConflict
<1> QED
  BY <1>1, <1>2 DEF OwnerSigned

LEMMA OwnersNext == OwnershipInv /\ [Next]_vars => OwnershipInv'
<1> SUFFICES ASSUME OwnershipInv, [Next]_vars PROVE OwnerSigned'
  BY PrefixNext DEF OwnershipInv
<1>1. ASSUME NEW k \in PublicKey, RegisterDevice(k) PROVE OwnerSigned'
  BY <1>1, OwnersOther DEF RegisterDevice, Registered, eventVars
<1>2. ASSUME NEW batch \in (SUBSET Digest) \ {{}}, IngestBatch(batch) PROVE OwnerSigned'
  BY <1>2, OwnersIngest
<1>3. ASSUME NEW v \in 1..Len(deviceKeys) + 1, NEW e \in Sequence,
             NEW r \in 1..controlRevision, NEW k \in PublicKey, RotateKey(v, e, r, k)
      PROVE  OwnerSigned'
  BY <1>3, OwnersRotate
<1>4. ASSUME NEW d \in Digest, NEW r \in 1..MaxRevision, AdjudicateSelect(SeqOf(d), r, d)
      PROVE  OwnerSigned'
  <2> DEFINE st == SelectedRows(SeqOf(d), d)
  <2>1. /\ TryAdvance(st, DecidedConflicts(SeqOf(d), "selected", d), deviceKeys)
        /\ UNCHANGED <<keyVars, checkpoints, readViews>>
    BY <1>4 DEF AdjudicateSelect
  <2>2. /\ st \in StatusRows
        /\ \A x \in Digest : st[x] = "visible" <=> status[x] = "visible"
        /\ \A x \in Digest : st[x] = "staged" => status[x] = "staged"
    BY DEF OwnershipInv, PrefixInv, TypeOK, StatusRows, SelectedRows
  <2> HIDE DEF st
  <2> QED
    BY <2>1, <2>2, OwnersDecide, SeqOfType
<1>5. ASSUME NEW s \in Sequence, NEW r \in 1..MaxRevision, AdjudicateRejectAll(s, r)
      PROVE  OwnerSigned'
  <2> DEFINE st == RefusedRows(s)
  <2>1. /\ TryAdvance(st, DecidedConflicts(s, "rejected_all", Null), deviceKeys)
        /\ UNCHANGED <<keyVars, checkpoints, readViews>>
    BY <1>5 DEF AdjudicateRejectAll
  <2>2. /\ st \in StatusRows
        /\ \A x \in Digest : st[x] = "visible" <=> status[x] = "visible"
        /\ \A x \in Digest : st[x] = "staged" => status[x] = "staged"
    BY DEF OwnershipInv, PrefixInv, TypeOK, StatusRows, Staged, RefusedRows
  <2> HIDE DEF st
  <2> QED
    BY <2>1, <2>2, OwnersDecide
<1>6. ASSUME NEW cutoff, CheckpointUpTo(cutoff) PROVE OwnerSigned'
  <2>1. \A d \in Digest : status'[d] = "staged" => status[d] = "staged"
    BY <1>6 DEF CheckpointUpTo
  <2>2. UNCHANGED <<conflicts, audit, deviceKeys>>
    BY <1>6 DEF CheckpointUpTo, keyVars
  <2> QED
    BY <2>1, <2>2, OwnersOther
<1>7. CASE CompactByPolicy \/ \E c \in Sequence : CompactManually(c)
  BY <1>6, <1>7 DEF CompactByPolicy, CompactManually
<1>8. ASSUME UNCHANGED <<keyVars, eventVars>> PROVE OwnerSigned'
  BY <1>8, OwnersOther DEF keyVars, eventVars
<1>9. CASE \/ \E v \in View, a \in 0..MaxSequence : OpenView(v, a)
           \/ \E v \in View : ExpireView(v)
           \/ PurgeViews
           \/ UNCHANGED vars
  BY <1>8, <1>9 DEF OpenView, ExpireView, PurgeViews, vars
<1> QED
  BY <1>1, <1>2, <1>3, <1>4, <1>5, <1>7, <1>9 DEF Next

(* Every candidate and every event of the prefix is signed by the key that  *)
(* owns its sequence, so no rotation strands an accepted event and the      *)
(* reason key_generation_invalid never occurs.                              *)
THEOREM OwnersNeverChange == Spec => []OwnerSigned
<1>1. OwnershipInv => OwnerSigned
  BY DEF OwnershipInv
<1>2. Spec => []OwnershipInv
  BY OwnersInit, OwnersNext, PTL DEF Spec
<1> QED
  BY <1>1, <1>2, PTL

-----------------------------------------------------------------------------
(* The newest checkpoint.                                                  *)

(* The newest sequence is the sequence of a row, when there is one.         *)
NewestRow ==
  \/ checkpoints = {} /\ LatestSequence = 0
  \/ \E c \in checkpoints : c.sequence = LatestSequence

HistoryInv == PrefixInv /\ NewestRow /\ CheckpointChain

(* A step that leaves the checkpoints alone leaves their chain alone.       *)
LEMMA SameCheckpoints ==
  ASSUME HistoryInv, PrefixInv', UNCHANGED checkpoints
  PROVE  NewestRow' /\ CheckpointChain'
<1>1. LatestSequence' = LatestSequence
  BY DEF LatestSequence
<1>2. NewestRow'
  BY <1>1 DEF HistoryInv, NewestRow
<1>3. \A c \in checkpoints :
        c.sequence \in Int /\ c.sequence =< highWatermark' /\ c.digest = audit'[c.sequence]
  <2>1. LatestSequence' \in 0..highWatermark' /\ highWatermark' \in Int
    BY DEF PrefixInv, CheckpointsCovered, TypeOK
  <2>2. \A c \in checkpoints : c.sequence \in Int
    BY DEF HistoryInv, PrefixInv, TypeOK, CheckpointRow, Sequence
  <2> QED
    BY <2>1, <2>2 DEF PrefixInv, CheckpointsCovered
<1>4. CheckpointChain'
  BY <1>3 DEF HistoryInv, CheckpointChain
<1> QED
  BY <1>2, <1>4

(* A new checkpoint lies above all the others, so it links to the newest of *)
(* them and no older link changes.                                          *)
LEMMA CompactChain ==
  ASSUME HistoryInv, NEW cutoff \in Int, CheckpointUpTo(cutoff)
  PROVE  NewestRow' /\ CheckpointChain'
<1> DEFINE cut == Min({cutoff, ViewFloor})
           row == [sequence |-> cut, digest |-> audit[cut], prevSequence |-> LatestSequence]
           Below(s) == {b.sequence : b \in {x \in checkpoints : x.sequence < s}}
           BelowNext(s) == {b.sequence : b \in {x \in checkpoints' : x.sequence < s}}
<1> HIDE DEF cut
<1>1. /\ cut \in (LatestSequence + 1)..highWatermark
      /\ checkpoints' = checkpoints \cup {row}
      /\ UNCHANGED <<highWatermark, audit>>
      /\ LatestSequence' = cut
  BY CompactLemma DEF cut, HistoryInv
<1>2. /\ LatestSequence \in Nat /\ highWatermark \in Nat /\ cut \in Nat
      /\ \A c \in checkpoints : c.sequence \in Nat /\ c.sequence =< LatestSequence
  BY <1>1 DEF HistoryInv, PrefixInv, TypeOK, CheckpointsCovered, CheckpointRow, Sequence
<1>3. row.sequence = cut /\ row.digest = audit[cut] /\ row.prevSequence = LatestSequence
  OBVIOUS
<1> HIDE DEF row
<1>4. NewestRow'
  BY <1>1, <1>3 DEF NewestRow
<1>5. ASSUME NEW c \in checkpoints PROVE BelowNext(c.sequence) = Below(c.sequence)
  <2>1. ~ (row.sequence < c.sequence)
    BY <1>1, <1>2, <1>3
  <2> QED
    BY <1>1, <2>1
<1>6. BelowNext(cut) = {b.sequence : b \in checkpoints}
  <2>1. ~ (row.sequence < cut) /\ \A c \in checkpoints : c.sequence < cut
    BY <1>1, <1>2, <1>3
  <2> QED
    BY <1>1, <2>1
<1>7. ASSUME NEW c \in checkpoints'
      PROVE  /\ c.sequence =< highWatermark
             /\ c.digest = audit[c.sequence]
             /\ c.prevSequence = Max({0} \cup BelowNext(c.sequence))
             /\ \A b \in checkpoints' : b.sequence = c.sequence => b = c
  <2>1. CASE c = row
    <3>1. Max({0} \cup BelowNext(c.sequence)) = LatestSequence
      BY <1>3, <1>6, <2>1 DEF LatestSequence
    <3>2. \A b \in checkpoints : b.sequence # cut
      BY <1>1, <1>2
    <3> QED
      BY <1>1, <1>2, <1>3, <2>1, <3>1, <3>2
  <2>2. CASE c \in checkpoints
    <3>1. /\ c.sequence =< highWatermark
          /\ c.digest = audit[c.sequence]
          /\ c.prevSequence = Max({0} \cup Below(c.sequence))
          /\ \A b \in checkpoints : b.sequence = c.sequence => b = c
      BY <2>2 DEF HistoryInv, CheckpointChain
    <3>2. row.sequence # c.sequence
      BY <1>1, <1>2, <1>3, <2>2
    <3> QED
      BY <1>1, <1>5, <2>2, <3>1, <3>2
  <2> QED
    BY <1>1, <2>1, <2>2
<1>8. CheckpointChain'
  BY <1>1, <1>7 DEF CheckpointChain
<1> QED
  BY <1>4, <1>8

LEMMA HistoryInit == Init => HistoryInv
<1> SUFFICES ASSUME Init PROVE NewestRow /\ CheckpointChain
  BY PrefixInit DEF HistoryInv
<1>1. checkpoints = {} /\ highWatermark = 0
  BY DEF Init
<1>2. LatestSequence = 0
  BY <1>1, PrefixInit DEF PrefixInv, CheckpointsCovered
<1> QED
  BY <1>1, <1>2 DEF NewestRow, CheckpointChain

LEMMA HistoryNext == HistoryInv /\ [Next]_vars => HistoryInv'
<1> SUFFICES ASSUME HistoryInv, [Next]_vars PROVE NewestRow' /\ CheckpointChain'
  BY PrefixNext DEF HistoryInv
<1>1. TypeOK /\ PrefixInv'
  BY PrefixNext DEF HistoryInv, PrefixInv
<1>2. ASSUME NEW cutoff \in Int, CheckpointUpTo(cutoff) PROVE NewestRow' /\ CheckpointChain'
  BY <1>2, CompactChain
<1>3. CASE UNCHANGED checkpoints
  BY <1>1, <1>3, SameCheckpoints
<1> QED
  BY <1>1, <1>2, <1>3, StepKinds DEF Advancing

(* HistoryInv holds in every reachable state.                               *)
LEMMA HistoryInvariant == Spec => []HistoryInv
BY HistoryInit, HistoryNext, PTL DEF Spec

(* The checkpoints of a device always form one chain: no fork, no gap, and  *)
(* each names the event that was promoted at its sequence.                  *)
THEOREM CheckpointsLinked == Spec => []CheckpointChain
<1>1. HistoryInv => CheckpointChain
  BY DEF HistoryInv
<1> QED
  BY <1>1, HistoryInvariant, PTL

-----------------------------------------------------------------------------
(* What a fixed view keeps.                                                *)

LEMMA MinIs ==
  ASSUME NEW S \in SUBSET Nat, S # {}
  PROVE  Min(S) \in S /\ \A x \in S : Min(S) =< x
<1>1. PICK m \in S : \A x \in S : ~ (<<x, m>> \in OpToRel(<, Nat))
  BY NatLessThanWellFounded, WFMin
<1>2. \A x \in S : ~ (x < m)
  BY <1>1, Zenon DEF OpToRel
<1>3. \A x \in S : m =< x
  BY <1>2
<1> QED
  BY <1>3 DEF Min

LEMMA MinOfTwo ==
  ASSUME NEW a \in Int, NEW b \in Int
  PROVE  Min({a, b}) \in Int /\ Min({a, b}) =< b
<1>1. \E m \in {a, b} : \A y \in {a, b} : m =< y
  <2>1. a =< b \/ b =< a
    OBVIOUS
  <2> QED
    BY <2>1
<1>2. Min({a, b}) \in {a, b} /\ \A y \in {a, b} : Min({a, b}) =< y
  BY <1>1 DEF Min
<1> QED
  BY <1>2

(* A compaction stays at or below the start of every unexpired view.        *)
LEMMA FloorBelowViews ==
  ASSUME TypeOK, NEW cutoff \in Int, NEW v \in View, readViews[v].state = "active"
  PROVE  Min({cutoff, ViewFloor}) =< readViews[v].start
<1> DEFINE starts == {readViews[w].start : w \in {u \in View : readViews[u].state = "active"}}
<1>1. starts \in SUBSET Nat /\ starts # {} /\ readViews[v].start \in starts
  <2>1. \A w \in View : readViews[w].start \in 0..MaxSequence
    BY DEF TypeOK, ViewRow
  <2> QED
    BY <2>1, BoundsAssumption
<1>2. ViewFloor = Min(starts)
  BY <1>1 DEF ViewFloor
<1> HIDE DEF starts
<1>3. ViewFloor \in Nat /\ ViewFloor =< readViews[v].start
  BY <1>1, <1>2, MinIs
<1>4. Min({cutoff, ViewFloor}) \in Int /\ Min({cutoff, ViewFloor}) =< ViewFloor
  BY <1>3, MinOfTwo
<1>5. readViews[v].start \in Int
  BY <1>1
<1> QED
  BY <1>3, <1>4, <1>5

(* No step hides an event that an unexpired view may still read.            *)
THEOREM ViewsAlwaysPin == Spec => ViewsPinHistory
<1>1. ASSUME PrefixInv, [Next]_vars
      PROVE  [\A v \in View :
                readViews[v].state = "active" /\ readViews'[v].state = "active" =>
                  \A d \in Digest :
                    status[d] = "visible" /\ SeqOf(d) > readViews[v].start =>
                      status'[d] = "visible"]_vars
  <2> SUFFICES ASSUME NEW v \in View, readViews[v].state = "active",
                      NEW d \in Digest, status[d] = "visible", SeqOf(d) > readViews[v].start
               PROVE  status'[d] = "visible"
    OBVIOUS
  <2>1. TypeOK
    BY <1>1 DEF PrefixInv
  <2>2. CASE Advancing
    <3>1. PICK st \in StatusRows, cf \in ConflictRows, ks \in Seq(KeyRow) :
            /\ \A x \in Digest : st[x] = "visible" <=> status[x] = "visible"
            /\ TryAdvance(st, cf, ks)
      BY <2>2 DEF Advancing
    <3>2. status'[d] = IF st[d] = "staged" /\ SeqOf(d) \in (highWatermark + 1)..highWatermark'
                         THEN "visible" ELSE st[d]
      BY <1>1, <3>1, AdvanceLemma DEF PrefixInv, CheckpointsCovered
    <3> QED
      BY <3>1, <3>2
  <2>3. ASSUME NEW cutoff \in Int, CheckpointUpTo(cutoff) PROVE status'[d] = "visible"
    <3> DEFINE cut == Min({cutoff, ViewFloor})
    <3> HIDE DEF cut
    <3>1. cut =< readViews[v].start
      BY <2>1, FloorBelowViews DEF cut
    <3>2. /\ cut \in (LatestSequence + 1)..highWatermark
          /\ status' = [x \in Digest |->
                          IF status[x] = "visible" /\ SeqOf(x) =< cut THEN "absent" ELSE status[x]]
      BY <1>1, <2>3, CompactLemma DEF cut
    <3>3. cut \in Int
      BY <1>1, <3>2 DEF PrefixInv, TypeOK, CheckpointsCovered
    <3>4. readViews[v].start \in Int /\ SeqOf(d) \in Int
      BY <2>1, SeqOfType, BoundsAssumption DEF TypeOK, ViewRow, Sequence
    <3> QED
      BY <3>1, <3>2, <3>3, <3>4
  <2>4. CASE UNCHANGED <<eventVars, checkpoints>>
    BY <2>4 DEF eventVars
  <2> QED
    BY <1>1, <2>1, <2>2, <2>3, <2>4, StepKinds
<1> QED
  BY <1>1, PrefixInvariant, PTL DEF Spec, ViewsPinHistory

-----------------------------------------------------------------------------
(* The rows a reader can see implement AuditLog.                           *)

(* The anchor is the last event that was cut off.                           *)
AnchorNamed ==
  Anchor = IF LatestSequence = 0 THEN ZeroDigest ELSE audit[LatestSequence]

LEMMA AnchorIs == HistoryInv => AnchorNamed
<1> SUFFICES ASSUME HistoryInv PROVE AnchorNamed
  OBVIOUS
<1>1. CASE checkpoints = {}
  BY <1>1 DEF HistoryInv, NewestRow, Anchor, AnchorNamed
<1>2. CASE checkpoints # {}
  <2>1. \E c \in checkpoints : c.sequence = LatestSequence
    BY <1>2 DEF HistoryInv, NewestRow
  <2> DEFINE newest == CHOOSE c \in checkpoints : c.sequence = LatestSequence
  <2>2. newest \in checkpoints /\ newest.sequence = LatestSequence
    BY <2>1
  <2>3. newest.digest = audit[LatestSequence] /\ newest.sequence \in Sequence
    BY <2>2 DEF HistoryInv, PrefixInv, CheckpointsCovered, TypeOK, CheckpointRow
  <2>4. Anchor = newest.digest
    BY <1>2 DEF Anchor
  <2>5. LatestSequence # 0
    BY <2>2, <2>3 DEF Sequence
  <2> QED
    BY <2>3, <2>4, <2>5 DEF AnchorNamed
<1> QED
  BY <1>1, <1>2

LEMMA AnchorIsNext == HistoryInv' => AnchorNamed'
BY AnchorIs, PTL

(* A promotion appends what it promotes, or changes nothing a reader sees.  *)
LEMMA AdvanceAppends ==
  ASSUME HistoryInv, HistoryInv', Advancing
  PROVE  [Pinned!Log!Next]_Pinned!Log!vars
<1> USE BoundsAssumption
<1>1. PICK st \in StatusRows, cf \in ConflictRows, ks \in Seq(KeyRow) :
        /\ \A d \in Digest : st[d] = "visible" <=> status[d] = "visible"
        /\ TryAdvance(st, cf, ks)
  BY DEF Advancing
<1>2. /\ highWatermark' \in highWatermark..MaxSequence
      /\ \A s \in 1..highWatermark : audit'[s] = audit[s]
  BY <1>1, AdvanceLemma DEF HistoryInv, PrefixInv, CheckpointsCovered
<1>3. LatestSequence' = LatestSequence /\ Anchor' = Anchor
  <2>1. checkpoints' = checkpoints
    BY DEF Advancing
  <2>2. LatestSequence' = LatestSequence
    BY <2>1 DEF LatestSequence
  <2> QED
    BY <2>1, <2>2 DEF Anchor
<1>4. /\ highWatermark \in Nat
      /\ LatestSequence \in 0..highWatermark
      /\ audit \in Seq(Digest) /\ Len(audit) = highWatermark
      /\ audit' \in Seq(Digest) /\ Len(audit') = highWatermark'
  BY DEF HistoryInv, PrefixInv, TypeOK, PrefixIntact, CheckpointsCovered
<1>5. /\ VisibleRows = {audit[s] : s \in (LatestSequence + 1)..highWatermark}
      /\ VisibleRows' = {audit'[s] : s \in (LatestSequence + 1)..highWatermark'}
  BY <1>3 DEF VisibleRows, HistoryInv, PrefixInv, PrefixIntact
<1>6. CASE highWatermark' = highWatermark
  <2>1. VisibleRows' = VisibleRows
    <3>1. \A s \in (LatestSequence + 1)..highWatermark : audit'[s] = audit[s]
      BY <1>2, <1>4
    <3> QED
      BY <1>5, <1>6, <3>1
  <2> QED
    BY <1>3, <1>6, <2>1 DEF Pinned!Log!vars
<1>7. CASE highWatermark' > highWatermark
  <2> DEFINE new == (highWatermark + 1)..highWatermark'
             run == [s \in new |-> audit'[s]]
  <2>1. run \in [new -> Digest] /\ \A s \in new : s \in 1..highWatermark'
    BY <1>2, <1>4
  <2>2. ASSUME NEW s \in new PROVE Fields[run[s]].sequence = s
    BY <2>1 DEF HistoryInv, PrefixInv, PrefixIntact, SeqOf
  <2>3. ASSUME NEW s \in new
        PROVE  Fields[run[s]].prevDigest = IF s = 1 THEN ZeroDigest ELSE audit'[s - 1]
    BY <1>4, <2>1 DEF HistoryInv, PrefixInv, HashChain
  <2>4. Pinned!Log!IsLast(Fields[run[highWatermark + 1]].prevDigest)
    <3>1. highWatermark + 1 \in new
      BY <1>2, <1>4, <1>7
    <3>2. Fields[run[highWatermark + 1]].prevDigest =
            IF highWatermark = 0 THEN ZeroDigest ELSE audit[highWatermark]
      BY <1>2, <1>4, <2>3, <3>1
    <3>3. CASE LatestSequence = highWatermark
      BY <3>2, <3>3, AnchorIs DEF AnchorNamed, Pinned!Log!IsLast
    <3>4. CASE LatestSequence < highWatermark
      <4>1. audit[highWatermark] \in VisibleRows /\ Fields[audit[highWatermark]].sequence = highWatermark
        BY <1>4, <1>5, <3>4 DEF HistoryInv, PrefixInv, PrefixIntact, SeqOf
      <4> QED
        BY <1>4, <3>2, <3>4, <4>1 DEF Pinned!Log!IsLast
    <3> QED
      BY <1>4, <3>3, <3>4
  <2>5. ASSUME NEW s \in new, s # highWatermark + 1
        PROVE  Fields[run[s]].prevDigest = run[s - 1]
    <3>1. s - 1 \in new /\ s # 1
      BY <1>2, <1>4, <2>5
    <3> QED
      BY <2>3, <3>1
  <2>6. VisibleRows' = VisibleRows \cup {run[s] : s \in new}
    <3>1. \A s : s \in (LatestSequence + 1)..highWatermark' <=>
                   s \in (LatestSequence + 1)..highWatermark \/ s \in new
      BY <1>2, <1>4
    <3>2. \A s \in (LatestSequence + 1)..highWatermark : audit'[s] = audit[s]
      BY <1>2, <1>4
    <3> QED
      BY <1>5, <3>1, <3>2
  <2> HIDE DEF run
  <2>7. Pinned!Log!Extend(highWatermark')
    BY <1>3, <2>1, <2>2, <2>4, <2>5, <2>6 DEF Pinned!Log!Extend
  <2>8. highWatermark' \in (highWatermark + 1)..MaxSequence
    BY <1>2, <1>4, <1>7
  <2> QED
    BY <2>7, <2>8 DEF Pinned!Log!Next
<1> QED
  BY <1>2, <1>4, <1>6, <1>7

(* A compaction truncates at the event its checkpoint names.                *)
LEMMA CompactTruncates ==
  ASSUME HistoryInv, HistoryInv', NEW cutoff \in Int, CheckpointUpTo(cutoff)
  PROVE  LET cut == Min({cutoff, ViewFloor}) IN
         /\ cut \in (LatestSequence + 1)..highWatermark
         /\ Pinned!Log!Truncate(cut)
         /\ Anchor' = audit[cut]
<1> DEFINE cut == Min({cutoff, ViewFloor})
<1> HIDE DEF cut
<1>1. /\ cut \in (LatestSequence + 1)..highWatermark
      /\ audit[cut] \in Digest
      /\ status[audit[cut]] = "visible"
      /\ SeqOf(audit[cut]) = cut
      /\ status' = [x \in Digest |->
                      IF status[x] = "visible" /\ SeqOf(x) =< cut THEN "absent" ELSE status[x]]
      /\ UNCHANGED <<highWatermark, audit>>
      /\ LatestSequence' = cut
  BY CompactLemma DEF cut, HistoryInv
<1>2. cut \in Int /\ cut # 0
  BY <1>1 DEF HistoryInv, PrefixInv, TypeOK, CheckpointsCovered
<1>3. Anchor' = audit[cut]
  BY <1>1, <1>2, AnchorIsNext DEF AnchorNamed
<1>4. Anchor' \in VisibleRows /\ Fields[Anchor'].sequence = cut
  BY <1>1, <1>3 DEF VisibleRows, SeqOf
<1>5. VisibleRows' = {d \in VisibleRows : Fields[d].sequence > cut}
  <2>1. \A d \in Digest : status'[d] = "visible" <=> status[d] = "visible" /\ ~ (SeqOf(d) =< cut)
    BY <1>1
  <2>2. \A d \in Digest : ~ (SeqOf(d) =< cut) <=> Fields[d].sequence > cut
    BY <1>2, SeqOfType DEF SeqOf, Sequence
  <2> QED
    BY <2>1, <2>2 DEF VisibleRows
<1>6. Pinned!Log!Truncate(cut)
  BY <1>1, <1>4, <1>5 DEF Pinned!Log!Truncate
<1> QED
  BY <1>1, <1>3, <1>6 DEF cut

LEMMA LogInit == Init => Pinned!Log!Init
<1> SUFFICES ASSUME Init PROVE Pinned!Log!Init
  OBVIOUS
<1>1. LatestSequence = 0 /\ highWatermark = 0
  BY HistoryInit DEF Init, HistoryInv, PrefixInv, CheckpointsCovered
<1>2. VisibleRows = {} /\ Anchor = ZeroDigest
  BY DEF Init, VisibleRows, Anchor
<1> QED
  BY <1>1, <1>2 DEF Pinned!Log!Init

LEMMA LogNext == HistoryInv /\ HistoryInv' /\ [Next]_vars => [Pinned!Log!Next]_Pinned!Log!vars
<1> SUFFICES ASSUME HistoryInv, HistoryInv', [Next]_vars PROVE [Pinned!Log!Next]_Pinned!Log!vars
  OBVIOUS
<1>1. TypeOK
  BY DEF HistoryInv, PrefixInv
<1>2. CASE Advancing
  BY <1>2, AdvanceAppends
<1>3. ASSUME NEW cutoff \in Int, CheckpointUpTo(cutoff) PROVE Pinned!Log!Next
  BY <1>3, CompactTruncates DEF Pinned!Log!Next
<1>4. CASE UNCHANGED <<eventVars, checkpoints>>
  BY <1>4 DEF eventVars, LatestSequence, Anchor, VisibleRows, Pinned!Log!vars
<1> QED
  BY <1>1, <1>2, <1>3, <1>4, StepKinds

(* The service implements AuditLog: a client that only sees the watermark,  *)
(* the newest checkpoint and the visible events sees a log that grows at    *)
(* its end and is cut at its beginning, and nothing else.                   *)
THEOREM RefinesAuditLog == Spec => Pinned!Log!Spec
BY LogInit, LogNext, HistoryInvariant, PTL DEF Spec, Pinned!Log!Spec

-----------------------------------------------------------------------------
(* With the checkpoints and the views, they implement PinnedLog.            *)

(* A promotion leaves the checkpoints and the views alone.                  *)
LEMMA AdvanceExtends ==
  ASSUME HistoryInv, HistoryInv', Advancing
  PROVE  [Pinned!Next]_Pinned!vars
<1>1. UNCHANGED <<checkpoints, readViews>>
  BY DEF Advancing
<1>2. UNCHANGED <<RecoveryPoints, Pins>>
  BY <1>1 DEF RecoveryPoints, Pins
<1>3. CASE UNCHANGED Pinned!Log!vars
  BY <1>2, <1>3 DEF Pinned!vars, Pinned!log, Pinned!Log!vars, RecoveryPoints
<1>4. CASE Pinned!Log!Next
  <2>1. LatestSequence' = LatestSequence
    BY <1>1 DEF LatestSequence
  <2>2. ASSUME NEW c \in (LatestSequence + 1)..highWatermark, Pinned!Log!Truncate(c)
        PROVE  FALSE
    BY <2>1, <2>2 DEF Pinned!Log!Truncate, HistoryInv, PrefixInv, CheckpointsCovered, TypeOK
  <2>3. \E h \in (highWatermark + 1)..MaxSequence : Pinned!Log!Extend(h)
    BY <1>4, <2>2 DEF Pinned!Log!Next
  <2>4. Pinned!Extend
    BY <1>2, <2>3 DEF Pinned!Extend, RecoveryPoints
  <2> QED
    BY <2>4 DEF Pinned!Next
<1> QED
  BY <1>3, <1>4, AdvanceAppends

(* A compaction respects every pin and tells of the event it ends with.     *)
LEMMA CompactCheckpoints ==
  ASSUME HistoryInv, HistoryInv', NEW cutoff \in Int, CheckpointUpTo(cutoff)
  PROVE  Pinned!Next
<1> DEFINE cut == Min({cutoff, ViewFloor})
           row == [sequence |-> cut, digest |-> audit[cut], prevSequence |-> LatestSequence]
<1>1. ASSUME NEW v \in View, readViews[v].state = "active" PROVE cut =< readViews[v].start
  BY <1>1, FloorBelowViews DEF HistoryInv, PrefixInv
<1> HIDE DEF cut
<1>2. /\ cut \in (LatestSequence + 1)..highWatermark
      /\ checkpoints' = checkpoints \cup {row}
      /\ UNCHANGED readViews
  BY CompactLemma DEF cut, HistoryInv
<1>3. row.sequence = cut /\ row.digest = audit[cut]
  OBVIOUS
<1> HIDE DEF row
<1>4. Pinned!Log!Truncate(cut) /\ Anchor' = audit[cut]
  BY CompactTruncates DEF cut
<1>5. \A v \in View : Pins[v] # Null => cut =< Pins[v]
  BY <1>1 DEF Pins
<1>6. RecoveryPoints' = RecoveryPoints \cup {[sequence |-> cut, digest |-> Anchor']}
  BY <1>2, <1>3, <1>4 DEF RecoveryPoints
<1>7. Pins' = Pins
  BY <1>2 DEF Pins
<1>8. Pinned!Truncate(cut)
  BY <1>4, <1>5, <1>6, <1>7 DEF Pinned!Truncate, Pinned!CheckpointRows, RecoveryPoints
<1> QED
  BY <1>2, <1>8 DEF Pinned!Next

(* A view that opens is pinned, one that expires is unpinned, and nobody    *)
(* misses the row of an expired one.                                        *)
LEMMA ViewStepPins ==
  ASSUME TypeOK, UNCHANGED <<eventVars, checkpoints>>, ViewStep
  PROVE  [Pinned!Next]_Pinned!vars
<1>1. /\ UNCHANGED <<highWatermark, LatestSequence, Anchor, VisibleRows>>
      /\ UNCHANGED RecoveryPoints
  BY DEF eventVars, LatestSequence, Anchor, VisibleRows, RecoveryPoints
<1>2. CASE Pins' = Pins
  BY <1>1, <1>2 DEF Pinned!vars, Pinned!log
<1>3. ASSUME NEW v \in View, NEW a \in 0..MaxSequence, OpenView(v, a) PROVE Pinned!Next
  <2>1. Pins[v] = Null
    BY <1>3 DEF OpenView, Pins
  <2>2. Pins' = [Pins EXCEPT ![v] = a]
    BY <1>3 DEF OpenView, Pins, TypeOK, ViewRow
  <2>3. Pinned!Pin(v, a)
    BY <1>1, <2>1, <2>2 DEF Pinned!Pin, Pinned!log
  <2> QED
    BY <2>3 DEF Pinned!Next
<1>4. ASSUME NEW v \in View, ExpireView(v) PROVE Pinned!Next
  <2>1. Pins' = [Pins EXCEPT ![v] = Null]
    BY <1>4 DEF ExpireView, Pins, TypeOK, ViewRow
  <2>2. Pinned!Unpin(v)
    BY <1>1, <2>1 DEF Pinned!Unpin, Pinned!log
  <2> QED
    BY <2>2 DEF Pinned!Next
<1>5. CASE PurgeViews
  <2>1. \A v \in View : Pins'[v] = Pins[v]
    BY <1>5 DEF PurgeViews, NoView, Pins
  <2>2. Pins' = Pins
    BY <2>1 DEF Pins
  <2> QED
    BY <1>2, <2>2
<1>6. CASE UNCHANGED readViews
  BY <1>2, <1>6 DEF Pins
<1> QED
  BY <1>3, <1>4, <1>5, <1>6 DEF ViewStep

LEMMA PinnedInit == Init => Pinned!Init
<1> SUFFICES ASSUME Init PROVE Pinned!Init
  OBVIOUS
<1>1. Pinned!Log!Init
  BY LogInit
<1>2. RecoveryPoints = {} /\ Pins = [v \in View |-> Null]
  BY DEF Init, RecoveryPoints, Pins, NoView
<1> QED
  BY <1>1, <1>2 DEF Pinned!Init

LEMMA PinnedNext == HistoryInv /\ HistoryInv' /\ [Next]_vars => [Pinned!Next]_Pinned!vars
<1> SUFFICES ASSUME HistoryInv, HistoryInv', [Next]_vars PROVE [Pinned!Next]_Pinned!vars
  OBVIOUS
<1>1. TypeOK
  BY DEF HistoryInv, PrefixInv
<1>2. CASE Advancing
  BY <1>2, AdvanceExtends
<1>3. ASSUME NEW cutoff \in Int, CheckpointUpTo(cutoff) PROVE Pinned!Next
  BY <1>3, CompactCheckpoints
<1>4. CASE UNCHANGED <<eventVars, checkpoints>> /\ ViewStep
  BY <1>1, <1>4, ViewStepPins
<1> QED
  BY <1>1, <1>2, <1>3, <1>4, StepKinds

(* The service implements PinnedLog, from which the fixed-view reads of     *)
(* PageReader are proved correct: what a reader of an unexpired view may    *)
(* still ask for is not cut, and every cut can be resumed from.             *)
THEOREM RefinesPinnedLog == Spec => ImplementsPinnedLog
BY PinnedInit, PinnedNext, HistoryInvariant, PTL DEF Spec, ImplementsPinnedLog, Pinned!Spec

=============================================================================
