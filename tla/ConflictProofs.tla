---------------------------- MODULE ConflictProofs ----------------------------
(***************************************************************************)
(* Proofs about the conflict rows: a divergence is always open, nothing    *)
(* waits in silence, a selection stands, a revision pins the candidates it *)
(* counts, and a decision is made on the candidates that were shown.  Each *)
(* transaction writes event rows st and conflict rows cf and then calls    *)
(* try_advance, so what they must satisfy in between is stated first.      *)
(* The last section takes that call apart: the loop of PromotionLoop, with *)
(* its crashes, implements the one step that DeviceLedger makes of it.     *)
(***************************************************************************)
EXTENDS ConflictReview, PromotionLoop, DeviceLedgerProofs

-----------------------------------------------------------------------------
(* The inductive invariant.                                                *)

(* A row that exists has been counted, within the bound; a decision is only *)
(* kept while its conflict is resolved.                                     *)
RowsCounted ==
  \A s \in Sequence :
    /\ conflicts[s].revision =< MaxRevision
    /\ conflicts[s].status # "none" => conflicts[s].revision # 0
    /\ conflicts[s].resolution # "none" => conflicts[s].status = "resolved"

ConflictInv ==
  PrefixInv /\ RowsCounted /\ DivergenceIsOpen /\ NoSilentStall /\ SelectionStands

LiveIn(st, s) == Staged(st, s) \cup Visible(st, s)

(* What the rows of one sequence satisfy when try_advance is called.        *)
RowSound(st, c, s) ==
  /\ c.status # "none" => c.revision # 0
  /\ c.resolution # "none" => c.status = "resolved"
  /\ \A d, e \in LiveIn(st, s) : d = e \/ c.status = "open"
  /\ c.status = "open" => Staged(st, s) # {}
  /\ c.resolution = "selected" /\ s > LatestSequence => LiveIn(st, s) = {c.chosenDigest}

(* No revision goes back, and a conflict that stays open at its revision    *)
(* keeps its candidates.                                                    *)
RowPinned(st, c, s) ==
  /\ c.revision >= conflicts[s].revision
  /\ c.status = "open" /\ c.revision = conflicts[s].revision =>
       conflicts[s].status = "open" /\ Staged(st, s) = Staged(status, s)

-----------------------------------------------------------------------------
(* Facts about the operators.                                              *)

(* A sequence has one visible event at most, none above the watermark.      *)
LEMMA VisibleOnce ==
  ASSUME PrefixInv, NEW st, NEW s \in Sequence,
         \A d \in Digest : st[d] = "visible" <=> status[d] = "visible"
  PROVE  /\ \A d, e \in Visible(st, s) : d = e
         /\ s > highWatermark => Visible(st, s) = {}
<1>1. ASSUME NEW d \in Visible(st, s)
      PROVE  s =< highWatermark /\ d = audit[s]
  <2>1. d \in {audit[t] : t \in (LatestSequence + 1)..highWatermark} /\ SeqOf(d) = s
    BY DEF Visible, PrefixInv, PrefixIntact
  <2>2. PICK t \in (LatestSequence + 1)..highWatermark : d = audit[t]
    BY <2>1
  <2>3. LatestSequence \in Nat /\ highWatermark \in Nat /\ t \in 1..highWatermark
    BY <2>2 DEF PrefixInv, CheckpointsCovered, TypeOK
  <2>4. s = t
    BY <2>1, <2>2, <2>3 DEF PrefixInv, PrefixIntact
  <2> QED
    BY <2>2, <2>3, <2>4
<1>2. s \in Int /\ highWatermark \in Int
  BY DEF PrefixInv, TypeOK, Sequence
<1> QED
  BY <1>1, <1>2

(* Several live events are a divergence, and a divergence has a candidate.  *)
LEMMA DivergenceIs ==
  ASSUME NEW st, NEW s, \A d, e \in Visible(st, s) : d = e
  PROVE  /\ DivergenceReason(st, s) = "none" => \A d, e \in LiveIn(st, s) : d = e
         /\ DivergenceReason(st, s) # "none" => Staged(st, s) # {}
<1>1. CASE Visible(st, s) # {}
  BY <1>1 DEF DivergenceReason, LiveIn
<1>2. CASE Visible(st, s) = {}
  BY <1>2 DEF DivergenceReason, LiveIn, SeveralStaged
<1> QED
  BY <1>1, <1>2

(* The row of a conflict that is opened again.                              *)
LEMMA ReopenedRow ==
  ASSUME NEW c \in ConflictRow, NEW reason, NEW bump \in BOOLEAN
  PROVE  LET r == Reopened(c, reason, bump) IN
         /\ r.status = "open" /\ r.resolution = "none"
         /\ r.revision # 0 \/ (c.status = "open" /\ ~ bump)
         /\ r.revision >= c.revision
         /\ r.revision = c.revision => c.status = "open" /\ ~ bump
         /\ c.status = "open" /\ ~ bump => r.revision = c.revision
<1>1. c.revision \in Nat
  BY DEF ConflictRow
<1> QED
  BY <1>1 DEF Reopened

(* Where the loop stops, a candidate leaves an open conflict: the one that  *)
(* was open there, or a new revision.                                       *)
LEMMA FrontierRow ==
  ASSUME NEW st, NEW c \in ConflictRow, NEW s
  PROVE  LET r == FrontierConflict(st, c, s) IN
         \/ r = c /\ (c.status = "open" \/ Staged(st, s) = {})
         \/ /\ c.status # "open" /\ Staged(st, s) # {}
            /\ r.status = "open" /\ r.resolution = "none"
            /\ r.revision # 0 /\ r.revision > c.revision
<1>1. CASE c.status = "open" \/ Staged(st, s) = {}
  BY <1>1 DEF FrontierConflict
<1>2. ASSUME c.status # "open", NEW reason
      PROVE  LET r == Reopened(c, reason, FALSE) IN
             /\ r.status = "open" /\ r.resolution = "none"
             /\ r.revision # 0 /\ r.revision > c.revision
  <2>1. c.revision \in Nat
    BY DEF ConflictRow
  <2> QED
    BY <1>2, <2>1 DEF Reopened
<1>3. CASE c.status # "open" /\ Staged(st, s) # {} /\ SeveralStaged(st, s)
  <2>1. DivergenceReason(st, s) # "none"
    BY <1>3 DEF DivergenceReason
  <2>2. FrontierConflict(st, c, s) = Reopened(c, DivergenceReason(st, s), FALSE)
    BY <1>3, <2>1 DEF FrontierConflict, ReconcileConflict
  <2> QED
    BY <1>2, <1>3, <2>2
<1>4. CASE c.status # "open" /\ Staged(st, s) # {} /\ ~ SeveralStaged(st, s)
  <2>1. \/ FrontierConflict(st, c, s) = Reopened(c, "bad_predecessor", FALSE)
        \/ FrontierConflict(st, c, s) = Reopened(c, "key_generation_invalid", FALSE)
    BY <1>4 DEF FrontierConflict
  <2> QED
    BY <1>2, <1>4, <2>1
<1> QED
  BY <1>1, <1>3, <1>4

-----------------------------------------------------------------------------
(* What a promotion makes of rows that are sound and pinned.               *)

(* The step keeps the properties of the conflict rows.                      *)
RowsKept ==
  /\ RowsCounted' /\ DivergenceIsOpen' /\ NoSilentStall' /\ SelectionStands'
  /\ \A s \in Sequence :
       /\ conflicts'[s].revision >= conflicts[s].revision
       /\ conflicts'[s].status = "open" /\ conflicts'[s].revision = conflicts[s].revision =>
            conflicts[s].status = "open" /\ Staged(status', s) = Staged(status, s)

LEMMA AdvanceKeepsRows ==
  ASSUME PrefixInv,
         NEW st \in StatusRows, NEW cf \in ConflictRows, NEW ks,
         \A d \in Digest : st[d] = "visible" <=> status[d] = "visible",
         TryAdvance(st, cf, ks),
         UNCHANGED checkpoints,
         \A s \in Sequence : RowSound(st, cf[s], s) /\ RowPinned(st, cf[s], s)
  PROVE  RowsKept
<1> USE BoundsAssumption, SeqOfType
<1>1. PICK h \in highWatermark..MaxSequence :
        /\ \A s \in (highWatermark + 1)..h : Promotable(st, cf, ks, s)
        /\ highWatermark' = h
        /\ status' = [d \in Digest |->
                        IF SeqOf(d) \in (highWatermark + 1)..h /\ st[d] = "staged"
                          THEN "visible" ELSE st[d]]
        /\ conflicts' = [s \in Sequence |->
                           IF s = h + 1 THEN FrontierConflict(st, cf[s], s) ELSE cf[s]]
        /\ \A s \in Sequence : conflicts'[s].revision =< MaxRevision
  BY Zenon DEF TryAdvance
<1>2. highWatermark \in Nat /\ h \in Nat
  BY DEF PrefixInv, TypeOK
<1>3. LatestSequence' = LatestSequence
  BY DEF LatestSequence
<1>4. \A s \in Sequence : LiveIn(status', s) = LiveIn(st, s)
  BY <1>1 DEF LiveIn, Staged, Visible
<1>5. ASSUME NEW s \in Sequence, s \in (highWatermark + 1)..h
      PROVE  /\ cf[s].status # "open"
             /\ conflicts'[s] = cf[s]
             /\ Staged(status', s) = {}
             /\ \A d, e \in LiveIn(st, s) : d = e
  <2>1. cf[s].status # "open" /\ ~ SeveralStaged(st, s)
    BY <1>1, <1>5 DEF Promotable
  <2>2. conflicts'[s] = cf[s]
    BY <1>1, <1>2, <1>5
  <2>3. Staged(status', s) = {}
    BY <1>1, <1>5 DEF Staged
  <2>4. Visible(st, s) = {}
    BY <1>2, <1>5, VisibleOnce
  <2> QED
    BY <2>1, <2>2, <2>3, <2>4 DEF LiveIn, SeveralStaged
<1>6. ASSUME NEW s \in Sequence, s \notin (highWatermark + 1)..h
      PROVE  Staged(status', s) = Staged(st, s)
  BY <1>1, <1>6 DEF Staged
<1>7. ASSUME NEW s \in Sequence
      PROVE  \/ conflicts'[s] = cf[s] /\ (s = h + 1 => cf[s].status = "open" \/ Staged(st, s) = {})
             \/ /\ s = h + 1
                /\ cf[s].status # "open" /\ Staged(st, s) # {}
                /\ conflicts'[s].status = "open" /\ conflicts'[s].resolution = "none"
                /\ conflicts'[s].revision # 0 /\ conflicts'[s].revision > cf[s].revision
  <2>1. cf[s] \in ConflictRow
    BY DEF ConflictRows
  <2>2. CASE s # h + 1
    BY <1>1, <2>2
  <2>3. CASE s = h + 1
    <3>1. conflicts'[s] = FrontierConflict(st, cf[s], s)
      BY <1>1, <2>3
    <3> QED
      BY <2>1, <2>3, <3>1, FrontierRow
  <2> QED
    BY <2>2, <2>3
<1>8. \A s \in Sequence : cf[s].revision \in Nat /\ conflicts[s].revision \in Nat
                          /\ conflicts'[s].revision \in Nat
  <2>1. conflicts \in ConflictRows
    BY DEF PrefixInv, TypeOK, ConflictRows
  <2>2. conflicts' \in ConflictRows
    BY AdvanceLemma DEF PrefixInv, CheckpointsCovered
  <2> QED
    BY <2>1, <2>2 DEF ConflictRows, ConflictRow
<1>9. RowsCounted'
  <2>1. ASSUME NEW s \in Sequence
        PROVE  /\ conflicts'[s].status # "none" => conflicts'[s].revision # 0
               /\ conflicts'[s].resolution # "none" => conflicts'[s].status = "resolved"
    BY <1>7 DEF RowSound
  <2> QED
    BY <1>1, <2>1 DEF RowsCounted
<1>10. DivergenceIsOpen'
  <2>1. ASSUME NEW s \in Sequence
        PROVE  /\ \A d, e \in LiveIn(status', s) : d = e \/ conflicts'[s].status = "open"
               /\ conflicts'[s].status = "open" => Staged(status', s) # {}
    <3>1. CASE s \in (highWatermark + 1)..h
      BY <1>4, <1>5, <3>1
    <3>2. CASE s \notin (highWatermark + 1)..h
      BY <1>4, <1>6, <1>7, <3>2 DEF RowSound
    <3> QED
      BY <3>1, <3>2
  <2> QED
    BY <2>1 DEF DivergenceIsOpen, Live, LiveIn, Staged, Visible
<1>11. NoSilentStall'
  <2>1. ASSUME NEW s \in Sequence, s = h + 1, Staged(status', s) # {}
        PROVE  conflicts'[s].status = "open"
    <3>1. Staged(status', s) = Staged(st, s)
      BY <1>2, <1>6, <2>1
    <3> QED
      BY <1>7, <2>1, <3>1
  <2> QED
    BY <1>1, <2>1 DEF NoSilentStall, Staged
<1>12. SelectionStands'
  <2>1. ASSUME NEW s \in Sequence, conflicts'[s].resolution = "selected", s > LatestSequence
        PROVE  LiveIn(status', s) = {conflicts'[s].chosenDigest}
    BY <1>4, <1>7, <2>1 DEF RowSound
  <2> QED
    BY <1>3, <2>1 DEF SelectionStands, Live, LiveIn, Staged, Visible
<1>13. ASSUME NEW s \in Sequence
       PROVE  /\ conflicts'[s].revision >= conflicts[s].revision
              /\ conflicts'[s].status = "open" /\ conflicts'[s].revision = conflicts[s].revision =>
                   conflicts[s].status = "open" /\ Staged(status', s) = Staged(status, s)
  <2>1. RowPinned(st, cf[s], s)
    OBVIOUS
  <2>2. conflicts'[s].revision >= conflicts[s].revision
    BY <1>7, <1>8, <2>1 DEF RowPinned
  <2>3. ASSUME conflicts'[s].status = "open", conflicts'[s].revision = conflicts[s].revision
        PROVE  conflicts[s].status = "open" /\ Staged(status', s) = Staged(status, s)
    <3>1. conflicts'[s] = cf[s]
      BY <1>7, <1>8, <2>1, <2>3 DEF RowPinned
    <3>2. Staged(status', s) = Staged(st, s)
      BY <1>5, <1>6, <2>3, <3>1
    <3> QED
      BY <2>1, <2>3, <3>1, <3>2 DEF RowPinned
  <2> QED
    BY <2>2, <2>3
<1> QED
  BY <1>9, <1>10, <1>11, <1>12, <1>13 DEF RowsKept

-----------------------------------------------------------------------------
(* The rows each transaction writes before it calls try_advance.           *)

(* Rows that a transaction leaves alone are sound and pinned.               *)
LEMMA SameRow ==
  ASSUME ConflictInv, NEW st, NEW s \in Sequence,
         Staged(st, s) = Staged(status, s), Visible(st, s) = Visible(status, s)
  PROVE  RowSound(st, conflicts[s], s) /\ RowPinned(st, conflicts[s], s)
<1>1. LiveIn(st, s) = Live(s)
  BY DEF LiveIn, Live
<1>2. conflicts[s].revision \in Nat
  BY DEF ConflictInv, PrefixInv, TypeOK, ConflictRow
<1>3. RowSound(st, conflicts[s], s)
  BY <1>1 DEF RowSound, ConflictInv, RowsCounted, DivergenceIsOpen, SelectionStands
<1>4. RowPinned(st, conflicts[s], s)
  BY <1>2 DEF RowPinned
<1> QED
  BY <1>3, <1>4

LEMMA RowsIngest ==
  ASSUME ConflictInv, NEW batch \in SUBSET Digest, IngestBatch(batch)
  PROVE  RowsKept
<1> USE SeqOfType
<1> DEFINE st == IngestedRows(batch)
           added(s) == \E d \in batch : SeqOf(d) = s /\ IsAddition(d)
           cf == IngestedConflicts(batch)
<1>1. TryAdvance(st, cf, deviceKeys) /\ UNCHANGED <<keyVars, checkpoints, readViews>>
  BY DEF IngestBatch
<1>2. st \in StatusRows /\ \A d \in Digest : st[d] = "visible" <=> status[d] = "visible"
  BY IngestWrites DEF ConflictInv, PrefixInv
<1>3. \A s \in Sequence : conflicts[s] \in ConflictRow
  BY DEF ConflictInv, PrefixInv, TypeOK
<1>4. \A s \in Sequence : cf[s] = IF \E d \in batch : SeqOf(d) = s
                                    THEN ReconcileConflict(st, conflicts[s], s, added(s))
                                    ELSE conflicts[s]
  BY DEF IngestedConflicts
<1>5. \A s \in Sequence :
        /\ Visible(st, s) = Visible(status, s)
        /\ Staged(status, s) \subseteq Staged(st, s)
        /\ ~ added(s) => Staged(st, s) = Staged(status, s)
        /\ added(s) => \E d \in Staged(st, s) : d \notin Staged(status, s)
  BY <1>2 DEF IngestedRows, Staged, Visible, IsAddition
<1>6. \A s \in Sequence : added(s) \in BOOLEAN /\ (added(s) => \E d \in batch : SeqOf(d) = s)
  OBVIOUS
<1>7. cf \in ConflictRows
  BY IngestWrites DEF ConflictInv, PrefixInv
<1> HIDE DEF st, cf, added
<1>8. ASSUME NEW s \in Sequence
      PROVE  RowSound(st, cf[s], s) /\ RowPinned(st, cf[s], s)
  <2>1. PrefixInv /\ \A d, e \in Visible(st, s) : d = e
    BY <1>2, VisibleOnce DEF ConflictInv
  <2>2. CASE ~ added(s) /\ cf[s] = conflicts[s]
    BY <1>5, <2>2, SameRow
  <2>3. CASE cf[s] = conflicts[s] /\ added(s)
    <3>1. DivergenceReason(st, s) = "none"
      <4>1. SUFFICES ASSUME DivergenceReason(st, s) # "none" PROVE FALSE
        OBVIOUS
      <4>2. cf[s] = Reopened(conflicts[s], DivergenceReason(st, s), TRUE)
        BY <1>4, <1>6, <2>3, <4>1 DEF ReconcileConflict
      <4>3. cf[s].revision = conflicts[s].revision + 1 /\ conflicts[s].revision \in Nat
        BY <1>3, <2>3, <4>2 DEF Reopened, ConflictRow
      <4> QED
        BY <2>3, <4>3
    <3>2. \A d, e \in LiveIn(st, s) : d = e
      BY <2>1, <3>1, DivergenceIs
    <3>3. PICK d \in Staged(st, s) : d \notin Staged(status, s)
      BY <1>5, <2>3
    <3>4. LiveIn(st, s) = {d} /\ Live(s) = {}
      BY <1>2, <1>5, <3>2, <3>3 DEF LiveIn, Live, Staged, Visible
    <3>5. conflicts[s].status # "open"
      BY <3>4 DEF Live, ConflictInv, DivergenceIsOpen
    <3>6. conflicts[s].resolution = "selected" => ~ (s > LatestSequence)
      BY <3>4 DEF ConflictInv, SelectionStands
    <3>7. conflicts[s].revision \in Nat
      BY <1>3 DEF ConflictRow
    <3>8. RowSound(st, cf[s], s)
      BY <2>3, <3>2, <3>5, <3>6 DEF RowSound, ConflictInv, RowsCounted
    <3>9. RowPinned(st, cf[s], s)
      BY <2>3, <3>5, <3>7 DEF RowPinned
    <3> QED
      BY <3>8, <3>9
  <2>4. CASE cf[s] # conflicts[s]
    <3>1. /\ DivergenceReason(st, s) # "none"
          /\ cf[s] = Reopened(conflicts[s], DivergenceReason(st, s), added(s))
      BY <1>4, <2>4 DEF ReconcileConflict
    <3>2. Staged(st, s) # {}
      BY <2>1, <3>1, DivergenceIs
    <3>3. /\ cf[s].status = "open" /\ cf[s].resolution = "none"
          /\ cf[s].revision # 0 \/ (conflicts[s].status = "open" /\ ~ added(s))
          /\ cf[s].revision >= conflicts[s].revision
          /\ cf[s].revision = conflicts[s].revision => conflicts[s].status = "open" /\ ~ added(s)
          /\ conflicts[s].status = "open" /\ ~ added(s) => cf[s].revision = conflicts[s].revision
      BY <1>3, <1>6, <3>1, ReopenedRow
    <3>4. conflicts[s].status = "open" => conflicts[s].revision # 0
      BY DEF ConflictInv, RowsCounted
    <3>5. RowSound(st, cf[s], s)
      BY <3>2, <3>3, <3>4 DEF RowSound
    <3>6. RowPinned(st, cf[s], s)
      BY <1>5, <3>3 DEF RowPinned
    <3> QED
      BY <3>5, <3>6
  <2> QED
    BY <2>2, <2>3, <2>4
<1> QED
  BY <1>1, <1>2, <1>7, <1>8, AdvanceKeepsRows DEF ConflictInv

LEMMA RowsRotate ==
  ASSUME ConflictInv, NEW v, NEW e, NEW r, NEW k, RotateKey(v, e, r, k)
  PROVE  RowsKept
<1>1. TryAdvance(status, conflicts, deviceKeys') /\ UNCHANGED checkpoints
  BY DEF RotateKey
<1>2. status \in StatusRows /\ conflicts \in ConflictRows
  BY DEF ConflictInv, PrefixInv, TypeOK, StatusRows, ConflictRows
<1>3. \A s \in Sequence : RowSound(status, conflicts[s], s) /\ RowPinned(status, conflicts[s], s)
  BY SameRow
<1> QED
  BY <1>1, <1>2, <1>3, AdvanceKeepsRows DEF ConflictInv

(* A decision leaves one live event at most, and none it refused.           *)
LEMMA RowsDecide ==
  ASSUME ConflictInv,
         NEW s \in Sequence, NEW resolution \in {"selected", "rejected_all"},
         NEW chosen \in Digest \cup {Null}, NEW st \in StatusRows,
         conflicts[s].status # "none",
         \A d \in Digest : st[d] = "visible" <=> status[d] = "visible",
         \A d \in Digest : SeqOf(d) # s => st[d] = status[d],
         \A d, e \in LiveIn(st, s) : d = e,
         resolution = "selected" => LiveIn(st, s) = {chosen},
         TryAdvance(st, DecidedConflicts(s, resolution, chosen), deviceKeys),
         UNCHANGED checkpoints
  PROVE  RowsKept
<1> DEFINE cf == DecidedConflicts(s, resolution, chosen)
<1>1. conflicts \in ConflictRows /\ conflicts[s] \in ConflictRow
  BY DEF ConflictInv, PrefixInv, TypeOK, ConflictRows
<1>2. cf \in ConflictRows
  BY DecidedType DEF ConflictInv, PrefixInv
<1>3. /\ cf[s].status = "resolved"
      /\ cf[s].resolution = resolution
      /\ cf[s].chosenDigest = chosen
      /\ cf[s].revision = conflicts[s].revision
  BY <1>1 DEF DecidedConflicts, Decided, ConflictRows, ConflictRow
<1>4. \A t \in Sequence : t # s => cf[t] = conflicts[t]
  BY <1>1 DEF DecidedConflicts, ConflictRows
<1>5. TryAdvance(st, cf, deviceKeys)
  OBVIOUS
<1> HIDE DEF cf
<1>6. RowSound(st, cf[s], s)
  <2>1. conflicts[s].revision # 0
    BY DEF ConflictInv, RowsCounted
  <2> QED
    BY <1>3, <2>1 DEF RowSound
<1>7. RowPinned(st, cf[s], s)
  <2>1. conflicts[s].revision \in Nat
    BY <1>1 DEF ConflictRow
  <2> QED
    BY <1>3, <2>1 DEF RowPinned
<1>8. ASSUME NEW t \in Sequence, t # s
      PROVE  RowSound(st, cf[t], t) /\ RowPinned(st, cf[t], t)
  <2>1. Staged(st, t) = Staged(status, t) /\ Visible(st, t) = Visible(status, t)
    BY <1>8 DEF Staged, Visible
  <2> QED
    BY <1>4, <1>8, <2>1, SameRow
<1> QED
  BY <1>2, <1>5, <1>6, <1>7, <1>8, AdvanceKeepsRows DEF ConflictInv

LEMMA RowsSelect ==
  ASSUME ConflictInv, NEW s \in Sequence, NEW r, NEW chosen \in Digest,
         AdjudicateSelect(s, r, chosen)
  PROVE  RowsKept
<1> DEFINE st == SelectedRows(s, chosen)
<1>1. /\ TryAdvance(st, DecidedConflicts(s, "selected", chosen), deviceKeys)
      /\ UNCHANGED checkpoints
      /\ conflicts[s].status # "none"
      /\ SeqOf(chosen) = s
      /\ status[chosen] \in {"staged", "visible"}
      /\ \A d \in Visible(status, s) : d = chosen
  BY DEF AdjudicateSelect, CanSelect, CanDecide
<1>2. /\ st \in StatusRows
      /\ \A d \in Digest : st[d] = "visible" <=> status[d] = "visible"
      /\ \A d \in Digest : SeqOf(d) # s => st[d] = status[d]
  BY DEF SelectedRows, ConflictInv, PrefixInv, TypeOK, StatusRows
<1>3. LiveIn(st, s) = {chosen}
  BY <1>1 DEF SelectedRows, LiveIn, Staged, Visible
<1> HIDE DEF st
<1> QED
  BY <1>1, <1>2, <1>3, RowsDecide

LEMMA RowsRejectAll ==
  ASSUME ConflictInv, NEW s \in Sequence, NEW r, AdjudicateRejectAll(s, r)
  PROVE  RowsKept
<1> DEFINE st == RefusedRows(s)
<1>1. /\ TryAdvance(st, DecidedConflicts(s, "rejected_all", Null), deviceKeys)
      /\ UNCHANGED checkpoints
      /\ conflicts[s].status # "none"
  BY DEF AdjudicateRejectAll, CanDecide
<1>2. /\ st \in StatusRows
      /\ \A d \in Digest : st[d] = "visible" <=> status[d] = "visible"
      /\ \A d \in Digest : SeqOf(d) # s => st[d] = status[d]
  BY DEF RefusedRows, ConflictInv, PrefixInv, TypeOK, StatusRows, Staged
<1>3. \A d, e \in LiveIn(st, s) : d = e
  <2>1. Staged(st, s) = {}
    BY DEF RefusedRows, Staged
  <2> HIDE DEF st
  <2>2. \A d, e \in Visible(st, s) : d = e
    BY <1>2, VisibleOnce DEF ConflictInv
  <2> QED
    BY <2>1, <2>2 DEF LiveIn
<1> HIDE DEF st
<1> QED
  BY <1>1, <1>2, <1>3, RowsDecide

(* A compaction deletes visible rows and moves the newest checkpoint up; it *)
(* touches no candidate and no conflict.                                    *)
LEMMA RowsCompact ==
  ASSUME ConflictInv, NEW cutoff \in Int, CheckpointUpTo(cutoff)
  PROVE  RowsKept
<1> USE SeqOfType
<1> DEFINE cut == Min({cutoff, ViewFloor})
<1> HIDE DEF cut
<1>1. /\ cut \in (LatestSequence + 1)..highWatermark
      /\ status' = [x \in Digest |->
                      IF status[x] = "visible" /\ SeqOf(x) =< cut THEN "absent" ELSE status[x]]
      /\ UNCHANGED <<highWatermark, conflicts>>
      /\ LatestSequence' = cut
  BY CompactLemma DEF cut, ConflictInv
<1>2. LatestSequence \in Int /\ highWatermark \in Int /\ cut \in Int
  BY <1>1 DEF ConflictInv, PrefixInv, CheckpointsCovered, TypeOK
<1>3. \A s \in Sequence :
        /\ Staged(status', s) = Staged(status, s)
        /\ LiveIn(status', s) \subseteq LiveIn(status, s)
        /\ s > cut => LiveIn(status', s) = LiveIn(status, s)
  <2>1. \A s \in Sequence : s > cut => ~ (s =< cut)
    BY <1>2 DEF Sequence
  <2> QED
    BY <1>1, <2>1 DEF LiveIn, Staged, Visible
<1>4. RowsCounted'
  BY <1>1 DEF ConflictInv, RowsCounted
<1>5. DivergenceIsOpen'
  <2>1. \A s \in Sequence : \A d, e \in LiveIn(status', s) : d = e \/ conflicts[s].status = "open"
    BY <1>3 DEF ConflictInv, DivergenceIsOpen, Live, LiveIn
  <2>2. \A s \in Sequence : conflicts[s].status = "open" => Staged(status', s) # {}
    BY <1>3 DEF ConflictInv, DivergenceIsOpen
  <2> QED
    BY <1>1, <2>1, <2>2 DEF DivergenceIsOpen, Live, LiveIn, Staged, Visible
<1>6. NoSilentStall'
  <2>1. \A s \in Sequence :
          s = highWatermark + 1 /\ Staged(status', s) # {} => conflicts[s].status = "open"
    BY <1>3 DEF ConflictInv, NoSilentStall
  <2> QED
    BY <1>1, <2>1 DEF NoSilentStall, Staged
<1>7. SelectionStands'
  <2>1. ASSUME NEW s \in Sequence, conflicts[s].resolution = "selected", s > cut
        PROVE  LiveIn(status', s) = {conflicts[s].chosenDigest}
    <3>1. s > LatestSequence
      BY <1>1, <1>2, <2>1 DEF Sequence
    <3> QED
      BY <1>3, <2>1, <3>1 DEF ConflictInv, SelectionStands, Live, LiveIn
  <2> QED
    BY <1>1, <2>1 DEF SelectionStands, Live, LiveIn, Staged, Visible
<1>8. \A s \in Sequence : conflicts[s].revision >= conflicts[s].revision
  BY DEF ConflictInv, PrefixInv, TypeOK, ConflictRow
<1> QED
  BY <1>1, <1>3, <1>4, <1>5, <1>6, <1>7, <1>8 DEF RowsKept

LEMMA RowsOther ==
  ASSUME ConflictInv, UNCHANGED <<eventVars, checkpoints>>
  PROVE  RowsKept
<1>1. UNCHANGED <<highWatermark, status, conflicts>> /\ LatestSequence' = LatestSequence
  BY DEF eventVars, LatestSequence
<1>2. RowsCounted' /\ NoSilentStall'
  BY <1>1 DEF ConflictInv, RowsCounted, NoSilentStall, Staged
<1>3. DivergenceIsOpen' /\ SelectionStands'
  BY <1>1 DEF ConflictInv, DivergenceIsOpen, SelectionStands, Live, Staged, Visible
<1>4. \A s \in Sequence : conflicts[s].revision >= conflicts[s].revision
  BY DEF ConflictInv, PrefixInv, TypeOK, ConflictRow
<1> QED
  BY <1>1, <1>2, <1>3, <1>4 DEF RowsKept

-----------------------------------------------------------------------------
(* ConflictInv is preserved by every transaction.                          *)

LEMMA RowsNext == ConflictInv /\ [Next]_vars => RowsKept
<1> SUFFICES ASSUME ConflictInv, [Next]_vars PROVE RowsKept
  OBVIOUS
<1>1. ASSUME NEW batch \in (SUBSET Digest) \ {{}}, IngestBatch(batch) PROVE RowsKept
  BY <1>1, RowsIngest
<1>2. ASSUME NEW v \in 1..Len(deviceKeys) + 1, NEW e \in Sequence,
             NEW r \in 1..controlRevision, NEW k \in PublicKey, RotateKey(v, e, r, k)
      PROVE  RowsKept
  BY <1>2, RowsRotate
<1>3. ASSUME NEW d \in Digest, NEW r \in 1..MaxRevision, AdjudicateSelect(SeqOf(d), r, d)
      PROVE  RowsKept
  BY <1>3, RowsSelect, SeqOfType
<1>4. ASSUME NEW s \in Sequence, NEW r \in 1..MaxRevision, AdjudicateRejectAll(s, r)
      PROVE  RowsKept
  BY <1>4, RowsRejectAll
<1>5. CASE CompactByPolicy \/ \E c \in Sequence : CompactManually(c)
  <2>1. highWatermark - RetentionEvents \in Int /\ \A c \in Sequence : c \in Int
    BY BoundsAssumption DEF ConflictInv, PrefixInv, TypeOK, Sequence
  <2> QED
    BY <1>5, <2>1, RowsCompact DEF CompactByPolicy, CompactManually
<1>6. CASE \/ \E k \in PublicKey : RegisterDevice(k)
           \/ \E v \in View, a \in 0..MaxSequence : OpenView(v, a)
           \/ \E v \in View : ExpireView(v)
           \/ PurgeViews
           \/ UNCHANGED vars
  BY <1>6, RowsOther DEF RegisterDevice, OpenView, ExpireView, PurgeViews, vars
<1> QED
  BY <1>1, <1>2, <1>3, <1>4, <1>5, <1>6 DEF Next

LEMMA ConflictInit == Init => ConflictInv
<1> SUFFICES ASSUME Init PROVE ConflictInv
  OBVIOUS
<1>1. \A s \in Sequence : conflicts[s] = NoConflict
  BY DEF Init
<1>2. \A s \in Sequence : Staged(status, s) = {} /\ Live(s) = {}
  BY SeqOfType DEF Init, Live, Staged, Visible
<1>3. RowsCounted
  BY <1>1, BoundsAssumption DEF RowsCounted, NoConflict
<1>4. DivergenceIsOpen /\ NoSilentStall /\ SelectionStands
  BY <1>1, <1>2 DEF DivergenceIsOpen, NoSilentStall, SelectionStands, NoConflict
<1> QED
  BY <1>3, <1>4, PrefixInit DEF ConflictInv

LEMMA ConflictNext == ConflictInv /\ [Next]_vars => ConflictInv'
BY RowsNext, PrefixNext DEF ConflictInv, RowsKept

(* ConflictInv holds in every reachable state.                              *)
THEOREM ConflictInvariant == Spec => []ConflictInv
BY ConflictInit, ConflictNext, PTL DEF Spec

(* Whatever the order of uploads, decisions, rotations and compactions, two *)
(* different live events at one sequence are an open conflict, and an open  *)
(* conflict has a candidate to decide about.                                *)
THEOREM DivergenceAlwaysOpen == Spec => []DivergenceIsOpen
<1>1. ConflictInv => DivergenceIsOpen
  BY DEF ConflictInv
<1> QED
  BY <1>1, ConflictInvariant, PTL

(* A candidate just above the watermark never waits without an open         *)
(* conflict.                                                                *)
THEOREM NothingStallsSilently == Spec => []NoSilentStall
<1>1. ConflictInv => NoSilentStall
  BY DEF ConflictInv
<1> QED
  BY <1>1, ConflictInvariant, PTL

(* A selection that was not reopened leaves exactly the chosen event, until *)
(* its sequence is compacted.                                               *)
THEOREM SelectionsStand == Spec => []SelectionStands
<1>1. ConflictInv => SelectionStands
  BY DEF ConflictInv
<1> QED
  BY <1>1, ConflictInvariant, PTL

(* No step changes the candidates of an open conflict and keeps its         *)
(* revision, and none takes a revision back.                                *)
THEOREM RevisionsPin == Spec => RevisionPinsCandidates
<1>1. ASSUME ConflictInv, [Next]_vars
      PROVE  [\A s \in Sequence :
                /\ conflicts'[s].revision >= conflicts[s].revision
                /\ conflicts'[s].status = "open" /\ conflicts'[s].revision = conflicts[s].revision =>
                     Staged(status', s) = Staged(status, s)]_vars
  BY <1>1, RowsNext DEF RowsKept
<1> QED
  BY <1>1, ConflictInvariant, PTL DEF Spec, RevisionPinsCandidates

-----------------------------------------------------------------------------
(* The administrator who reviews a conflict.                               *)

ReviewRow == [phase : {"idle", "rows", "shown"}, sequence : 0..MaxSequence,
              revision : Nat, staged : SUBSET Digest]

(* What the administrator was shown is behind the conflict row, or still    *)
(* the row and its candidates: the candidates are read after the revision,  *)
(* and the revision moves on whenever they do.                              *)
ReviewCurrent ==
  review.phase # "idle" =>
    /\ review.sequence \in Sequence
    /\ review.revision =< conflicts[review.sequence].revision
    /\ /\ review.phase = "shown"
       /\ conflicts[review.sequence].status = "open"
       /\ conflicts[review.sequence].revision = review.revision
       => review.staged = Staged(status, review.sequence)

ReviewInv == ConflictInv /\ review \in ReviewRow /\ ReviewCurrent

(* The decision quotes the revision of a row that exists, so it is one of   *)
(* the decisions of DeviceLedger: a reviewed device is a device.            *)
LEMMA DecideIsStep == ReviewInv /\ Decide => Next
<1> SUFFICES ASSUME ReviewInv, Decide PROVE Next
  OBVIOUS
<1>1. review.sequence \in Sequence
  BY DEF Decide, ReviewInv, ReviewCurrent
<1>2. ASSUME NEW s \in Sequence, conflicts[s].status # "none"
      PROVE  conflicts[s].revision \in 1..MaxRevision
  BY <1>2, BoundsAssumption DEF ReviewInv, ConflictInv, RowsCounted, PrefixInv, TypeOK, ConflictRow
<1>3. ASSUME NEW d \in Digest, NEW r, AdjudicateSelect(SeqOf(d), r, d)
      PROVE  Next
  <2>1. r \in 1..MaxRevision
    BY <1>2, <1>3, SeqOfType DEF AdjudicateSelect, CanSelect, CanDecide
  <2> QED
    BY <1>3, <2>1 DEF Next
<1>4. ASSUME NEW s \in Sequence, NEW r, AdjudicateRejectAll(s, r)
      PROVE  Next
  <2>1. r \in 1..MaxRevision
    BY <1>2, <1>4 DEF AdjudicateRejectAll, CanDecide
  <2> QED
    BY <1>4, <2>1 DEF Next
<1> QED
  BY <1>1, <1>3, <1>4 DEF Decide

LEMMA ReviewStart == ReviewInit => ReviewInv
<1> SUFFICES ASSUME ReviewInit PROVE ReviewInv
  OBVIOUS
<1>1. ConflictInv
  BY ConflictInit DEF ReviewInit
<1>2. review \in ReviewRow /\ review.phase = "idle"
  BY BoundsAssumption DEF ReviewInit, NoReview, ReviewRow
<1> QED
  BY <1>1, <1>2 DEF ReviewInv, ReviewCurrent

(* A step of any transaction leaves a review current or makes it stale by   *)
(* its revision.                                                            *)
LEMMA ReviewOutlivesStep ==
  ASSUME ReviewInv, Next, UNCHANGED review
  PROVE  ReviewCurrent'
<1>1. SUFFICES ASSUME review.phase # "idle"
               PROVE  /\ review.sequence \in Sequence
                      /\ review.revision =< conflicts'[review.sequence].revision
                      /\ /\ review.phase = "shown"
                         /\ conflicts'[review.sequence].status = "open"
                         /\ conflicts'[review.sequence].revision = review.revision
                         => review.staged = Staged(status', review.sequence)
  BY DEF ReviewCurrent, Staged
<1>2. /\ review.sequence \in Sequence
      /\ review.revision =< conflicts[review.sequence].revision
      /\ /\ review.phase = "shown"
         /\ conflicts[review.sequence].status = "open"
         /\ conflicts[review.sequence].revision = review.revision
         => review.staged = Staged(status, review.sequence)
  BY <1>1 DEF ReviewInv, ReviewCurrent
<1> DEFINE s == review.sequence
<1>3. RowsKept /\ ConflictInv'
  BY RowsNext, ConflictNext DEF ReviewInv
<1>4. /\ conflicts'[s].revision >= conflicts[s].revision
      /\ conflicts'[s].status = "open" /\ conflicts'[s].revision = conflicts[s].revision =>
           conflicts[s].status = "open" /\ Staged(status', s) = Staged(status, s)
  BY <1>2, <1>3 DEF RowsKept
<1>5. review.revision \in Nat /\ conflicts[s].revision \in Nat /\ conflicts'[s].revision \in Nat
  BY <1>2, <1>3 DEF ReviewInv, ReviewRow, ConflictInv, PrefixInv, TypeOK, ConflictRow
<1> HIDE DEF s
<1>6. review.revision =< conflicts'[s].revision
  BY <1>2, <1>4, <1>5 DEF s
<1>7. conflicts'[s].revision = review.revision => conflicts'[s].revision = conflicts[s].revision
  BY <1>2, <1>4, <1>5 DEF s
<1> QED
  BY <1>2, <1>4, <1>6, <1>7 DEF s

LEMMA ReviewStep == ReviewInv /\ [ReviewNext]_reviewVars => ReviewInv'
<1> SUFFICES ASSUME ReviewInv, [ReviewNext]_reviewVars PROVE ReviewInv'
  OBVIOUS
<1>1. CASE Next /\ UNCHANGED review
  BY <1>1, ConflictNext, ReviewOutlivesStep DEF ReviewInv
<1>2. CASE ListRows
  <2>1. PICK s \in Sequence :
          review' = [phase |-> "rows", sequence |-> s,
                     revision |-> conflicts[s].revision, staged |-> {}]
    BY <1>2 DEF ListRows, NoReview
  <2>2. UNCHANGED vars /\ UNCHANGED <<conflicts, status>>
    BY <1>2 DEF ListRows, vars, eventVars
  <2>3. conflicts[s].revision \in Nat
    BY DEF ReviewInv, ConflictInv, PrefixInv, TypeOK, ConflictRow
  <2>4. s \in 0..MaxSequence
    BY BoundsAssumption DEF Sequence
  <2>5. review' \in ReviewRow
    BY <2>1, <2>3, <2>4 DEF ReviewRow
  <2>6. ReviewCurrent'
    BY <2>1, <2>2, <2>3 DEF ReviewCurrent
  <2> QED
    BY <2>2, <2>5, <2>6, ConflictNext DEF ReviewInv
<1>3. CASE ListCandidates
  <2>1. UNCHANGED vars /\ UNCHANGED <<conflicts, status>>
    BY <1>3 DEF ListCandidates, vars, eventVars
  <2>2. /\ review \in ReviewRow
        /\ review.sequence \in Sequence
        /\ review.revision =< conflicts[review.sequence].revision
    BY <1>3 DEF ListCandidates, ReviewInv, ReviewCurrent
  <2>3. review' = [phase |-> "shown", sequence |-> review.sequence,
                   revision |-> review.revision, staged |-> Staged(status, review.sequence)]
    BY <1>3, <2>2 DEF ListCandidates, ReviewRow
  <2>4. review' \in ReviewRow
    BY <2>2, <2>3 DEF ReviewRow, Staged
  <2>5. ReviewCurrent'
    BY <2>1, <2>2, <2>3 DEF ReviewCurrent, Staged
  <2> QED
    BY <2>1, <2>4, <2>5, ConflictNext DEF ReviewInv
<1>4. CASE Decide
  <2>1. review' \in ReviewRow /\ ReviewCurrent'
    BY <1>4, BoundsAssumption DEF Decide, NoReview, ReviewRow, ReviewCurrent
  <2> QED
    BY <1>4, <2>1, DecideIsStep, ConflictNext DEF ReviewInv
<1>5. CASE UNCHANGED reviewVars
  <2>1. UNCHANGED vars /\ UNCHANGED <<conflicts, status, review>>
    BY <1>5 DEF reviewVars, vars, eventVars
  <2>2. ReviewCurrent'
    BY <2>1 DEF ReviewInv, ReviewCurrent, Staged
  <2> QED
    BY <2>1, <2>2, ConflictNext DEF ReviewInv
<1> QED
  BY <1>1, <1>2, <1>3, <1>4, <1>5 DEF ReviewNext

(* ReviewInv holds in every reachable state of a device under review.       *)
THEOREM ReviewInvariant == ReviewSpec => []ReviewInv
BY ReviewStart, ReviewStep, PTL DEF ReviewSpec

(* A decision on an open conflict is made on the candidates that the        *)
(* administrator was shown, whatever commits between the two queries and    *)
(* before the decision.                                                     *)
THEOREM DecisionsInformed == ReviewSpec => DecisionsAreInformed
<1>1. ASSUME ReviewInv, [ReviewNext]_reviewVars
      PROVE  [Decide /\ conflicts[review.sequence].status = "open" =>
                review.staged = Staged(status, review.sequence)]_reviewVars
  <2> SUFFICES ASSUME Decide, conflicts[review.sequence].status = "open"
               PROVE  review.staged = Staged(status, review.sequence)
    OBVIOUS
  <2>1. /\ review.phase = "shown"
        /\ \/ \E d \in Digest : SeqOf(d) = review.sequence
                                  /\ AdjudicateSelect(SeqOf(d), review.revision, d)
           \/ AdjudicateRejectAll(review.sequence, review.revision)
    BY DEF Decide
  <2>2. conflicts[review.sequence].revision = review.revision
    BY <2>1 DEF AdjudicateSelect, CanSelect, CanDecide, AdjudicateRejectAll
  <2> QED
    BY <1>1, <2>1, <2>2 DEF ReviewInv, ReviewCurrent
<1> QED
  BY <1>1, ReviewInvariant, PTL DEF ReviewSpec, DecisionsAreInformed

(* A device under review is a device: everything proved of Spec holds while *)
(* administrators look at its conflicts and decide them.                    *)
THEOREM ReviewKeepsSpec == ReviewSpec => Spec
<1>1. ASSUME ReviewInv, [ReviewNext]_reviewVars PROVE [Next]_vars
  BY <1>1, DecideIsStep DEF ReviewNext, ListRows, ListCandidates, reviewVars
<1>2. ReviewInit => Init
  BY DEF ReviewInit
<1> QED
  BY <1>1, <1>2, ReviewInvariant, PTL DEF ReviewSpec, Spec

-----------------------------------------------------------------------------
(* The loop of try_advance, one turn at a time.                            *)

(* A handler has passed its guards and written st, cf, ks and revision.     *)
Begun(st, cf, ks, revision) ==
  \/ \E batch \in (SUBSET Digest) \ {{}} :
       /\ CanIngest(batch)
       /\ st = IngestedRows(batch) /\ cf = IngestedConflicts(batch)
       /\ ks = deviceKeys /\ revision = controlRevision
  \/ \E v \in 1..Len(deviceKeys) + 1, e \in Sequence, r \in 1..controlRevision, k \in PublicKey :
       /\ CanRotate(v, e, r)
       /\ st = status /\ cf = conflicts
       /\ ks = RotatedKeys(e, k) /\ revision = controlRevision + 1
  \/ \E d \in Digest, r \in 1..MaxRevision :
       /\ CanSelect(SeqOf(d), r, d)
       /\ st = SelectedRows(SeqOf(d), d) /\ cf = DecidedConflicts(SeqOf(d), "selected", d)
       /\ ks = deviceKeys /\ revision = controlRevision
  \/ \E s \in Sequence, r \in 1..MaxRevision :
       /\ CanDecide(s, r)
       /\ st = RefusedRows(s) /\ cf = DecidedConflicts(s, "rejected_all", Null)
       /\ ks = deviceKeys /\ revision = controlRevision

(* The event rows and the audit after the run up to h.                      *)
RunRows(st, h) ==
  [d \in Digest |->
     IF SeqOf(d) \in (highWatermark + 1)..h /\ st[d] = "staged" THEN "visible" ELSE st[d]]

RunAudit(st, h) ==
  [s \in 1..h |->
     IF s \in (highWatermark + 1)..h THEN CHOOSE d \in Staged(st, s) : TRUE ELSE audit[s]]

(* The loop has promoted exactly the run up to h.                           *)
RanTo(st, cf, ks, revision, h) ==
  /\ h \in highWatermark..MaxSequence
  /\ \A s \in (highWatermark + 1)..h : Promotable(st, cf, ks, s)
  /\ transaction = Written(h, RunRows(st, h), cf, ks, revision, RunAudit(st, h))

(* An open transaction is one of DeviceLedger's, part of the way through.   *)
LoopInv ==
  /\ PrefixInv
  /\ \/ Idle
     \/ \E st \in StatusRows, cf \in ConflictRows, ks \in Seq(KeyRow), revision \in Nat,
           h \in highWatermark..MaxSequence :
          /\ \A d \in Digest : st[d] = "visible" <=> status[d] = "visible"
          /\ Begun(st, cf, ks, revision)
          /\ RanTo(st, cf, ks, revision, h)

(* The row visible at v_hwm is the predecessor that Linked asks for: the    *)
(* newest event of the prefix before the first promotion, and after that    *)
(* the candidate that the turn before has made visible.                     *)
LEMMA FollowsIsLinked ==
  ASSUME PrefixInv, NEW st \in StatusRows, NEW cf, NEW ks, NEW revision, NEW h,
         \A d \in Digest : st[d] = "visible" <=> status[d] = "visible",
         RanTo(st, cf, ks, revision, h), NEW d \in Digest, SeqOf(d) = h + 1
  PROVE  Follows(d) <=> Linked(st, d)
<1>1. /\ transaction.highWatermark = h
      /\ transaction.status = RunRows(st, h)
      /\ h \in Nat /\ highWatermark \in Nat /\ h >= highWatermark
  BY DEF RanTo, Written, PrefixInv, TypeOK
<1>2. ASSUME NEW p \in Digest, SeqOf(p) = h, h > 0
      PROVE  RunRows(st, h)[p] = "visible" <=>
               st[p] = IF h = highWatermark THEN "visible" ELSE "staged"
  <2>1. CASE h = highWatermark
    BY <1>1, <1>2, <2>1 DEF RunRows
  <2>2. CASE h > highWatermark
    <3>1. st[p] # "visible"
      <4>1. h \in Sequence
        BY <1>2, SeqOfType
      <4> QED
        BY <1>2, <2>2, <4>1, VisibleOnce DEF Visible
    <3> QED
      BY <1>1, <1>2, <2>2, <3>1 DEF RunRows
  <2> QED
    BY <1>1, <2>1, <2>2
<1>3. CASE h = 0
  BY <1>1, <1>3 DEF Follows, Linked
<1>4. CASE h > 0
  <2>1. Follows(d) <=>
          \E p \in Digest : Fields[d].prevDigest = p /\ SeqOf(p) = h /\ RunRows(st, h)[p] = "visible"
    BY <1>1, <1>4 DEF Follows, Visible
  <2>2. Linked(st, d) <=>
          \E p \in Digest : /\ Fields[d].prevDigest = p /\ SeqOf(p) = h
                            /\ st[p] = IF h = highWatermark THEN "visible" ELSE "staged"
    BY <1>1, <1>4, SeqOfType DEF Linked, Sequence
  <2> QED
    BY <1>2, <1>4, <2>1, <2>2
<1> QED
  BY <1>1, <1>3, <1>4

(* A turn sees at the next sequence what the handler wrote there, promotes  *)
(* when that sequence is promotable, and leaves the frontier's conflict     *)
(* when it is not.                                                          *)
LEMMA TurnLemma ==
  ASSUME PrefixInv, NEW st \in StatusRows, NEW cf, NEW ks, NEW revision, NEW h,
         \A d \in Digest : st[d] = "visible" <=> status[d] = "visible",
         RanTo(st, cf, ks, revision, h)
  PROVE  /\ NextSequence = h + 1
         /\ (\E d \in Digest : Promotes(d)) <=> Promotable(st, cf, ks, h + 1)
         /\ \A d \in Digest : Promotes(d) => Staged(st, h + 1) = {d}
         /\ \A c : ExitConflict(c) = FrontierConflict(st, c, h + 1)
<1>1. /\ transaction.highWatermark = h
      /\ transaction.status = RunRows(st, h)
      /\ transaction.conflicts = cf
      /\ transaction.deviceKeys = ks
      /\ h \in Nat /\ NextSequence = h + 1
  BY DEF RanTo, Written, PrefixInv, TypeOK, NextSequence
<1>2. \A d \in Digest : SeqOf(d) = h + 1 => RunRows(st, h)[d] = st[d]
  BY <1>1 DEF RunRows
<1>3. /\ Candidates = Staged(st, h + 1)
      /\ Staged(transaction.status, h + 1) = Staged(st, h + 1)
      /\ Visible(transaction.status, h + 1) = Visible(st, h + 1)
  BY <1>1, <1>2 DEF Candidates, Staged, Visible
<1>4. \A d \in Candidates : d \in Digest /\ (Follows(d) <=> Linked(st, d))
  BY <1>3, FollowsIsLinked DEF Staged
<1>5. \A d \in Digest : Promotes(d) <=>
        /\ h + 1 \in Sequence
        /\ cf[h + 1].status # "open"
        /\ Staged(st, h + 1) = {d}
        /\ Linked(st, d)
        /\ Owns(ks, Fields[d].keyVersion, h + 1)
  BY <1>1, <1>3, <1>4 DEF Promotes
<1>6. (\E d \in Digest : Promotes(d)) <=> Promotable(st, cf, ks, h + 1)
  <2>1. ASSUME Promotable(st, cf, ks, h + 1)
        PROVE  \E d \in Digest : Promotes(d)
    <3>1. PICK d \in Staged(st, h + 1) : Linked(st, d) /\ Owns(ks, Fields[d].keyVersion, h + 1)
      BY <2>1 DEF Promotable
    <3>2. Staged(st, h + 1) = {d} /\ d \in Digest
      BY <2>1, <3>1 DEF Promotable, SeveralStaged, Staged
    <3> QED
      BY <1>5, <2>1, <3>1, <3>2 DEF Promotable
  <2>2. ASSUME NEW d \in Digest, Promotes(d)
        PROVE  Promotable(st, cf, ks, h + 1)
    BY <1>5, <2>2 DEF Promotable, SeveralStaged
  <2> QED
    BY <2>1, <2>2
<1>7. ASSUME NEW c
      PROVE  ExitConflict(c) = FrontierConflict(st, c, h + 1)
  <2>1. SeveralStaged(transaction.status, NextSequence) <=> SeveralStaged(st, h + 1)
    BY <1>1, <1>3 DEF SeveralStaged
  <2>2. ReconcileConflict(transaction.status, c, NextSequence, FALSE) =
          ReconcileConflict(st, c, h + 1, FALSE)
    BY <1>1, <1>3, <2>1 DEF ReconcileConflict, DivergenceReason
  <2>3. (\A d \in Candidates : ~ Follows(d)) <=> \A d \in Staged(st, h + 1) : ~ Linked(st, d)
    BY <1>3, <1>4
  <2> QED
    BY <1>3, <2>1, <2>2, <2>3 DEF ExitConflict, FrontierConflict
<1> QED
  BY <1>1, <1>5, <1>6, <1>7

(* A promotion takes the run one sequence further.                          *)
LEMMA PromoteExtends ==
  ASSUME PrefixInv, NEW st \in StatusRows, NEW cf, NEW ks, NEW revision, NEW h,
         \A d \in Digest : st[d] = "visible" <=> status[d] = "visible",
         RanTo(st, cf, ks, revision, h), Promote
  PROVE  /\ h + 1 \in highWatermark..MaxSequence
         /\ \A s \in (highWatermark + 1)..(h + 1) : Promotable(st, cf, ks, s)
         /\ transaction' = Written(h + 1, RunRows(st, h + 1), cf, ks, revision, RunAudit(st, h + 1))
<1> USE BoundsAssumption, SeqOfType
<1>1. PICK d \in Digest :
        /\ Promotes(d)
        /\ transaction' = Written(NextSequence, [transaction.status EXCEPT ![d] = "visible"],
                                  transaction.conflicts, transaction.deviceKeys,
                                  transaction.controlRevision, Append(transaction.audit, d))
  BY DEF Promote
<1>2. /\ NextSequence = h + 1
      /\ Promotable(st, cf, ks, h + 1)
      /\ Staged(st, h + 1) = {d}
  BY <1>1, TurnLemma
<1>3. /\ transaction.status = RunRows(st, h)
      /\ transaction.conflicts = cf
      /\ transaction.deviceKeys = ks
      /\ transaction.controlRevision = revision
      /\ transaction.audit = RunAudit(st, h)
  BY DEF RanTo, Written
<1>4. highWatermark \in Nat /\ h \in Nat /\ h >= highWatermark /\ h + 1 \in Sequence
  BY <1>2 DEF RanTo, PrefixInv, TypeOK, Promotable
<1>5. \A s \in (highWatermark + 1)..(h + 1) : Promotable(st, cf, ks, s)
  <2>1. \A s \in (highWatermark + 1)..(h + 1) : s \in (highWatermark + 1)..h \/ s = h + 1
    BY <1>4
  <2> QED
    BY <1>2, <2>1 DEF RanTo
<1>6. [RunRows(st, h) EXCEPT ![d] = "visible"] = RunRows(st, h + 1)
  <2>1. ASSUME NEW e \in Digest
        PROVE  [RunRows(st, h) EXCEPT ![d] = "visible"][e] = RunRows(st, h + 1)[e]
    <3>1. e = d <=> SeqOf(e) = h + 1 /\ st[e] = "staged"
      BY <1>2 DEF Staged
    <3>2. SeqOf(e) \in (highWatermark + 1)..(h + 1) <=>
            SeqOf(e) \in (highWatermark + 1)..h \/ SeqOf(e) = h + 1
      BY <1>4 DEF Sequence
    <3> QED
      BY <3>1, <3>2 DEF RunRows
  <2> QED
    BY <2>1 DEF RunRows
<1>7. RunAudit(st, h) \in Seq(Digest) /\ Len(RunAudit(st, h)) = h
  <2>1. audit \in Seq(Digest) /\ Len(audit) = highWatermark
    BY DEF PrefixInv, TypeOK, PrefixIntact
  <2>2. ASSUME NEW s \in 1..h
        PROVE  RunAudit(st, h)[s] \in Digest
    <3>1. CASE s \in (highWatermark + 1)..h
      <4>1. \E e \in Staged(st, s) : TRUE
        BY <3>1 DEF RanTo, Promotable
      <4> QED
        BY <2>2, <3>1, <4>1 DEF RunAudit, Staged
    <3>2. CASE s \in 1..highWatermark
      BY <1>4, <2>1, <2>2, <3>2 DEF RunAudit
    <3> QED
      BY <1>4, <3>1, <3>2
  <2>3. RunAudit(st, h) \in [1..h -> Digest]
    BY <2>2 DEF RunAudit
  <2> QED
    BY <1>4, <2>3
<1>8. Append(RunAudit(st, h), d) = RunAudit(st, h + 1)
  <2> DEFINE a == Append(RunAudit(st, h), d)
  <2>1. a \in Seq(Digest) /\ Len(a) = h + 1
    BY <1>7
  <2>2. /\ a[h + 1] = d
        /\ \A s \in 1..h : a[s] = RunAudit(st, h)[s]
    BY <1>4, <1>7
  <2> HIDE DEF a
  <2>3. ASSUME NEW s \in 1..(h + 1)
        PROVE  a[s] = RunAudit(st, h + 1)[s]
    <3>1. CASE s = h + 1
      <4>1. (CHOOSE e \in Staged(st, s) : TRUE) = d
        BY <1>2, <3>1
      <4>2. RunAudit(st, h + 1)[s] = CHOOSE e \in Staged(st, s) : TRUE
        BY <1>4, <3>1 DEF RunAudit
      <4> QED
        BY <2>2, <3>1, <4>1, <4>2
    <3>2. CASE s \in 1..h
      <4>1. a[s] = RunAudit(st, h)[s]
        BY <2>2, <3>2
      <4>2. s \in (highWatermark + 1)..h <=> s \in (highWatermark + 1)..(h + 1)
        BY <1>4, <3>2
      <4> QED
        BY <3>2, <4>1, <4>2 DEF RunAudit
    <3> QED
      BY <1>4, <3>1, <3>2
  <2>4. RunAudit(st, h + 1) = [s \in 1..(h + 1) |-> RunAudit(st, h + 1)[s]]
    BY DEF RunAudit
  <2>5. a = [s \in 1..(h + 1) |-> a[s]]
    BY <1>4, <2>1
  <2>6. a = RunAudit(st, h + 1)
    BY <2>3, <2>4, <2>5
  <2> QED
    BY <2>6 DEF a
<1> QED
  BY <1>1, <1>2, <1>3, <1>4, <1>5, <1>6, <1>8 DEF Sequence

(* The turn that leaves the loop commits what DeviceLedger's transaction    *)
(* writes.                                                                  *)
LEMMA CommitAdvances ==
  ASSUME PrefixInv, NEW st \in StatusRows, NEW cf, NEW ks, NEW revision, NEW h,
         \A d \in Digest : st[d] = "visible" <=> status[d] = "visible",
         RanTo(st, cf, ks, revision, h), Commit
  PROVE  /\ TryAdvance(st, cf, ks)
         /\ deviceKeys' = ks /\ controlRevision' = revision
         /\ UNCHANGED <<checkpoints, readViews>>
<1>1. /\ highWatermark' = h
      /\ status' = RunRows(st, h)
      /\ audit' = RunAudit(st, h)
      /\ deviceKeys' = ks /\ controlRevision' = revision
      /\ UNCHANGED <<checkpoints, readViews>>
      /\ \A s \in Sequence : conflicts'[s].revision =< MaxRevision
  BY DEF Commit, RanTo, Written
<1>2. ~ Promotable(st, cf, ks, h + 1)
  BY TurnLemma DEF Commit
<1>3. conflicts' = [s \in Sequence |-> IF s = h + 1 THEN FrontierConflict(st, cf[s], s) ELSE cf[s]]
  <2>1. conflicts' = [s \in Sequence |->
          IF s = NextSequence THEN ExitConflict(cf[s]) ELSE cf[s]]
    BY DEF Commit, RanTo, Written
  <2>2. NextSequence = h + 1 /\ \A c : ExitConflict(c) = FrontierConflict(st, c, h + 1)
    BY TurnLemma
  <2> QED
    BY <2>1, <2>2
<1> QED
  BY <1>1, <1>2, <1>3 DEF TryAdvance, RanTo, RunRows, RunAudit

(* Nobody else writes what an open transaction is based on.                 *)
LEMMA BasisUnchanged ==
  ASSUME UNCHANGED <<keyVars, eventVars>>,
         NEW st, NEW cf, NEW ks, NEW revision, Begun(st, cf, ks, revision)
  PROVE  Begun(st, cf, ks, revision)'
<1>1. /\ deviceKeys' = deviceKeys /\ controlRevision' = controlRevision
      /\ highWatermark' = highWatermark /\ status' = status /\ conflicts' = conflicts
  BY DEF keyVars, eventVars
<1>2. ASSUME NEW batch \in (SUBSET Digest) \ {{}}
      PROVE  /\ CanIngest(batch)' <=> CanIngest(batch)
             /\ IngestedRows(batch)' = IngestedRows(batch)
             /\ IngestedConflicts(batch)' = IngestedConflicts(batch)
  <2>1. CanIngest(batch)' <=> CanIngest(batch)
    BY <1>1 DEF CanIngest, Registered, Acceptable, Owns, SeqOf
  <2>2. IngestedRows(batch)' = IngestedRows(batch)
    BY <1>1 DEF IngestedRows, IsAddition
  <2>3. IngestedConflicts(batch)' = IngestedConflicts(batch)
    BY <1>1, <2>2 DEF IngestedConflicts, IsAddition, SeqOf, ReconcileConflict, DivergenceReason,
                      Reopened, Visible, Staged, SeveralStaged
  <2> QED
    BY <2>1, <2>2, <2>3
<1>3. ASSUME NEW v, NEW e, NEW r, NEW k
      PROVE  /\ CanRotate(v, e, r)' <=> CanRotate(v, e, r)
             /\ RotatedKeys(e, k)' = RotatedKeys(e, k)
  BY <1>1 DEF CanRotate, RotatedKeys, Registered, BoundaryFree, SeqOf
<1>4. ASSUME NEW s, NEW resolution, NEW chosen, NEW r
      PROVE  /\ CanDecide(s, r)' <=> CanDecide(s, r)
             /\ CanSelect(s, r, chosen)' <=> CanSelect(s, r, chosen)
             /\ DecidedConflicts(s, resolution, chosen)' = DecidedConflicts(s, resolution, chosen)
             /\ SelectedRows(s, chosen)' = SelectedRows(s, chosen)
             /\ RefusedRows(s)' = RefusedRows(s)
  BY <1>1 DEF CanDecide, CanSelect, DecidedConflicts, Decided, SelectedRows, RefusedRows,
              Visible, Staged, SeqOf
<1>5. ASSUME NEW batch \in (SUBSET Digest) \ {{}}, CanIngest(batch),
             st = IngestedRows(batch), cf = IngestedConflicts(batch),
             ks = deviceKeys, revision = controlRevision
      PROVE  Begun(st, cf, ks, revision)'
  BY <1>1, <1>2, <1>5 DEF Begun
<1>6. ASSUME NEW v \in 1..Len(deviceKeys) + 1, NEW e \in Sequence,
             NEW r \in 1..controlRevision, NEW k \in PublicKey, CanRotate(v, e, r),
             st = status, cf = conflicts,
             ks = RotatedKeys(e, k), revision = controlRevision + 1
      PROVE  Begun(st, cf, ks, revision)'
  BY <1>1, <1>3, <1>6 DEF Begun
<1>7. ASSUME NEW d \in Digest, NEW r \in 1..MaxRevision, CanSelect(SeqOf(d), r, d),
             st = SelectedRows(SeqOf(d), d), cf = DecidedConflicts(SeqOf(d), "selected", d),
             ks = deviceKeys, revision = controlRevision
      PROVE  Begun(st, cf, ks, revision)'
  BY <1>1, <1>4, <1>7 DEF Begun
<1>8. ASSUME NEW s \in Sequence, NEW r \in 1..MaxRevision, CanDecide(s, r),
             st = RefusedRows(s), cf = DecidedConflicts(s, "rejected_all", Null),
             ks = deviceKeys, revision = controlRevision
      PROVE  Begun(st, cf, ks, revision)'
  BY <1>1, <1>4, <1>8 DEF Begun
<1> QED
  BY <1>5, <1>6, <1>7, <1>8 DEF Begun

LEMMA RunUnchanged ==
  ASSUME UNCHANGED <<keyVars, eventVars>>,
         NEW st, NEW cf, NEW ks, NEW revision, NEW h \in highWatermark..MaxSequence,
         \A s \in (highWatermark + 1)..h : Promotable(st, cf, ks, s),
         transaction' = Written(h, RunRows(st, h), cf, ks, revision, RunAudit(st, h))
  PROVE  RanTo(st, cf, ks, revision, h)'
<1>1. highWatermark' = highWatermark /\ audit' = audit
  BY DEF eventVars
<1>2. \A s \in (highWatermark + 1)..h : Promotable(st, cf, ks, s)'
  BY <1>1 DEF Promotable, Linked, SeveralStaged, Staged, Owns, SeqOf
<1>3. RunRows(st, h)' = RunRows(st, h)
  BY <1>1 DEF RunRows, SeqOf
<1>4. RunAudit(st, h)' = RunAudit(st, h)
  BY <1>1 DEF RunAudit, Staged, SeqOf
<1> QED
  BY <1>1, <1>2, <1>3, <1>4 DEF RanTo, Written

(* While nobody writes the rows of the device, the loop stays what it was   *)
(* or gets further.                                                         *)
LEMMA LoopGoesOn ==
  ASSUME PrefixInv, UNCHANGED <<keyVars, eventVars>>, PrefixInv',
         NEW st \in StatusRows, NEW cf \in ConflictRows, NEW ks \in Seq(KeyRow),
         NEW revision \in Nat, NEW h \in highWatermark..MaxSequence,
         \A d \in Digest : st[d] = "visible" <=> status[d] = "visible",
         Begun(st, cf, ks, revision),
         \A s \in (highWatermark + 1)..h : Promotable(st, cf, ks, s),
         transaction' = Written(h, RunRows(st, h), cf, ks, revision, RunAudit(st, h))
  PROVE  LoopInv'
<1>1. highWatermark' = highWatermark /\ status' = status
  BY DEF eventVars
<1>2. Begun(st, cf, ks, revision)'
  BY BasisUnchanged
<1>3. RanTo(st, cf, ks, revision, h)'
  BY RunUnchanged
<1> QED
  BY <1>1, <1>2, <1>3 DEF LoopInv, StatusRows, ConflictRows

LEMMA LoopBegins ==
  ASSUME PrefixInv, NEW st \in StatusRows, NEW cf \in ConflictRows, NEW ks \in Seq(KeyRow),
         NEW revision \in Nat,
         \A d \in Digest : st[d] = "visible" <=> status[d] = "visible",
         Begun(st, cf, ks, revision), Begin(st, cf, ks, revision)
  PROVE  LoopInv'
<1>1. UNCHANGED vars /\ UNCHANGED <<keyVars, eventVars>>
  BY DEF Begin, vars
<1>2. PrefixInv'
  BY <1>1, PrefixNext
<1>3. /\ audit \in Seq(Digest) /\ Len(audit) = highWatermark
      /\ highWatermark \in highWatermark..MaxSequence
      /\ highWatermark \in Nat
  BY DEF PrefixInv, TypeOK, PrefixIntact
<1>4. RunRows(st, highWatermark) = st
  BY <1>3 DEF RunRows, StatusRows
<1>5. RunAudit(st, highWatermark) = audit
  <2>1. \A s \in 1..highWatermark : ~ (s \in (highWatermark + 1)..highWatermark)
    BY <1>3
  <2>2. RunAudit(st, highWatermark) = [s \in 1..highWatermark |-> audit[s]]
    BY <2>1 DEF RunAudit
  <2>3. audit = [s \in 1..highWatermark |-> audit[s]]
    BY <1>3
  <2> QED
    BY <2>2, <2>3
<1>6. \A s \in (highWatermark + 1)..highWatermark : Promotable(st, cf, ks, s)
  BY <1>3
<1>7. transaction' = Written(highWatermark, RunRows(st, highWatermark), cf, ks, revision,
                             RunAudit(st, highWatermark))
  BY <1>4, <1>5 DEF Begin
<1> QED
  BY <1>1, <1>2, <1>3, <1>6, <1>7, LoopGoesOn

LEMMA HandlersBegin ==
  ASSUME PrefixInv,
         \/ \E batch \in (SUBSET Digest) \ {{}} : BeginIngest(batch)
         \/ \E v \in 1..Len(deviceKeys) + 1, e \in Sequence, r \in 1..controlRevision,
               k \in PublicKey : BeginRotate(v, e, r, k)
         \/ \E d \in Digest, r \in 1..MaxRevision : BeginSelect(SeqOf(d), r, d)
         \/ \E s \in Sequence, r \in 1..MaxRevision : BeginRejectAll(s, r)
  PROVE  LoopInv' /\ UNCHANGED vars
<1>1. /\ TypeOK /\ status \in StatusRows /\ conflicts \in ConflictRows
      /\ deviceKeys \in Seq(KeyRow) /\ controlRevision \in Nat
  BY DEF PrefixInv, TypeOK, StatusRows, ConflictRows
<1>2. ASSUME NEW batch \in (SUBSET Digest) \ {{}}, BeginIngest(batch)
      PROVE  LoopInv' /\ UNCHANGED vars
  <2> DEFINE st == IngestedRows(batch)
             cf == IngestedConflicts(batch)
  <2>1. Begin(st, cf, deviceKeys, controlRevision)
    BY <1>2 DEF BeginIngest
  <2>2. Begun(st, cf, deviceKeys, controlRevision)
    BY <1>2 DEF BeginIngest, Begun
  <2>3. /\ st \in StatusRows /\ cf \in ConflictRows
        /\ \A d \in Digest : st[d] = "visible" <=> status[d] = "visible"
    BY <1>1, <1>2, IngestWrites
  <2> HIDE DEF st, cf
  <2>4. LoopInv'
    BY <1>1, <2>1, <2>2, <2>3, LoopBegins
  <2> QED
    BY <2>1, <2>4 DEF Begin
<1>3. ASSUME NEW v \in 1..Len(deviceKeys) + 1, NEW e \in Sequence, NEW r \in 1..controlRevision,
             NEW k \in PublicKey, BeginRotate(v, e, r, k)
      PROVE  LoopInv' /\ UNCHANGED vars
  <2> DEFINE ks == RotatedKeys(e, k)
  <2>1. Begin(status, conflicts, ks, controlRevision + 1)
    BY <1>3 DEF BeginRotate
  <2>2. Begun(status, conflicts, ks, controlRevision + 1)
    BY <1>3 DEF BeginRotate, Begun
  <2>3. ks \in Seq(KeyRow) /\ controlRevision + 1 \in Nat
    BY <1>1 DEF RotatedKeys, KeyRow
  <2> HIDE DEF ks
  <2>4. LoopInv'
    BY <1>1, <2>1, <2>2, <2>3, LoopBegins
  <2> QED
    BY <2>1, <2>4 DEF Begin
<1>4. ASSUME NEW d \in Digest, NEW r \in 1..MaxRevision, BeginSelect(SeqOf(d), r, d)
      PROVE  LoopInv' /\ UNCHANGED vars
  <2> DEFINE st == SelectedRows(SeqOf(d), d)
             cf == DecidedConflicts(SeqOf(d), "selected", d)
  <2>1. Begin(st, cf, deviceKeys, controlRevision)
    BY <1>4 DEF BeginSelect
  <2>2. Begun(st, cf, deviceKeys, controlRevision)
    BY <1>4 DEF BeginSelect, Begun
  <2>3. /\ st \in StatusRows /\ cf \in ConflictRows
        /\ \A e \in Digest : st[e] = "visible" <=> status[e] = "visible"
    BY <1>1, SeqOfType, SelectWrites
  <2> HIDE DEF st, cf
  <2>4. LoopInv'
    BY <1>1, <2>1, <2>2, <2>3, LoopBegins
  <2> QED
    BY <2>1, <2>4 DEF Begin
<1>5. ASSUME NEW s \in Sequence, NEW r \in 1..MaxRevision, BeginRejectAll(s, r)
      PROVE  LoopInv' /\ UNCHANGED vars
  <2> DEFINE st == RefusedRows(s)
             cf == DecidedConflicts(s, "rejected_all", Null)
  <2>1. Begin(st, cf, deviceKeys, controlRevision)
    BY <1>5 DEF BeginRejectAll
  <2>2. Begun(st, cf, deviceKeys, controlRevision)
    BY <1>5 DEF BeginRejectAll, Begun
  <2>3. /\ st \in StatusRows /\ cf \in ConflictRows
        /\ \A d \in Digest : st[d] = "visible" <=> status[d] = "visible"
    BY <1>1, RejectAllWrites
  <2> HIDE DEF st, cf
  <2>4. LoopInv'
    BY <1>1, <2>1, <2>2, <2>3, LoopBegins
  <2> QED
    BY <2>1, <2>4 DEF Begin
<1> QED
  BY <1>2, <1>3, <1>4, <1>5

(* The commit is the step of DeviceLedger that the handler began.           *)
LEMMA CommitIsStep == LoopInv /\ Commit => Next /\ transaction' = NoTransaction
<1> SUFFICES ASSUME LoopInv, Commit PROVE Next /\ transaction' = NoTransaction
  OBVIOUS
<1>1. ~ Idle
  BY DEF Commit, Idle, NoTransaction
<1>2. PICK st \in StatusRows, cf \in ConflictRows, ks \in Seq(KeyRow), revision \in Nat,
           h \in highWatermark..MaxSequence :
        /\ \A d \in Digest : st[d] = "visible" <=> status[d] = "visible"
        /\ Begun(st, cf, ks, revision)
        /\ RanTo(st, cf, ks, revision, h)
  BY <1>1 DEF LoopInv
<1>3. /\ TryAdvance(st, cf, ks)
      /\ deviceKeys' = ks /\ controlRevision' = revision
      /\ UNCHANGED <<checkpoints, readViews>>
  BY <1>2, CommitAdvances DEF LoopInv
<1>4. ASSUME NEW batch \in (SUBSET Digest) \ {{}}, CanIngest(batch),
             st = IngestedRows(batch), cf = IngestedConflicts(batch),
             ks = deviceKeys, revision = controlRevision
      PROVE  Next
  <2>1. IngestBatch(batch)
    BY <1>3, <1>4 DEF IngestBatch, keyVars
  <2> QED
    BY <2>1 DEF Next
<1>5. ASSUME NEW v \in 1..Len(deviceKeys) + 1, NEW e \in Sequence, NEW r \in 1..controlRevision,
             NEW k \in PublicKey, CanRotate(v, e, r), st = status, cf = conflicts,
             ks = RotatedKeys(e, k), revision = controlRevision + 1
      PROVE  Next
  <2>1. RotateKey(v, e, r, k)
    BY <1>3, <1>5 DEF RotateKey
  <2> QED
    BY <2>1 DEF Next
<1>6. ASSUME NEW d \in Digest, NEW r \in 1..MaxRevision, CanSelect(SeqOf(d), r, d),
             st = SelectedRows(SeqOf(d), d), cf = DecidedConflicts(SeqOf(d), "selected", d),
             ks = deviceKeys, revision = controlRevision
      PROVE  Next
  <2>1. AdjudicateSelect(SeqOf(d), r, d)
    BY <1>3, <1>6 DEF AdjudicateSelect, keyVars
  <2> QED
    BY <2>1 DEF Next
<1>7. ASSUME NEW s \in Sequence, NEW r \in 1..MaxRevision, CanDecide(s, r),
             st = RefusedRows(s), cf = DecidedConflicts(s, "rejected_all", Null),
             ks = deviceKeys, revision = controlRevision
      PROVE  Next
  <2>1. AdjudicateRejectAll(s, r)
    BY <1>3, <1>7 DEF AdjudicateRejectAll, keyVars
  <2> QED
    BY <2>1 DEF Next
<1>8. transaction' = NoTransaction
  BY DEF Commit
<1> QED
  BY <1>2, <1>4, <1>5, <1>6, <1>7, <1>8 DEF Begun

LEMMA LoopStep == LoopInv /\ [LoopNext]_loopVars => LoopInv' /\ [Next]_vars
<1> SUFFICES ASSUME LoopInv, [LoopNext]_loopVars PROVE LoopInv' /\ [Next]_vars
  OBVIOUS
<1>1. PrefixInv
  BY DEF LoopInv
<1>2. CASE [Next]_vars /\ (Idle \/ transaction' = NoTransaction) /\ (Idle => UNCHANGED transaction)
  BY <1>1, <1>2, PrefixNext DEF LoopInv, Idle
<1>3. CASE UNCHANGED <<keyVars, eventVars, transaction>> /\ [Next]_vars /\ ~ Idle
  <2>1. PICK st \in StatusRows, cf \in ConflictRows, ks \in Seq(KeyRow), revision \in Nat,
             h \in highWatermark..MaxSequence :
          /\ \A d \in Digest : st[d] = "visible" <=> status[d] = "visible"
          /\ Begun(st, cf, ks, revision)
          /\ RanTo(st, cf, ks, revision, h)
    BY <1>3 DEF LoopInv
  <2> QED
    BY <1>1, <1>3, <2>1, PrefixNext, LoopGoesOn DEF RanTo
<1>4. CASE Promote
  <2>1. ~ Idle /\ UNCHANGED vars /\ UNCHANGED <<keyVars, eventVars>>
    BY <1>4 DEF Promote, Idle, NoTransaction, vars
  <2>2. PICK st \in StatusRows, cf \in ConflictRows, ks \in Seq(KeyRow), revision \in Nat,
             h \in highWatermark..MaxSequence :
          /\ \A d \in Digest : st[d] = "visible" <=> status[d] = "visible"
          /\ Begun(st, cf, ks, revision)
          /\ RanTo(st, cf, ks, revision, h)
    BY <2>1 DEF LoopInv
  <2>3. /\ h + 1 \in highWatermark..MaxSequence
        /\ \A s \in (highWatermark + 1)..(h + 1) : Promotable(st, cf, ks, s)
        /\ transaction' = Written(h + 1, RunRows(st, h + 1), cf, ks, revision, RunAudit(st, h + 1))
    BY <1>1, <1>4, <2>2, PromoteExtends
  <2> QED
    BY <1>1, <2>1, <2>2, <2>3, PrefixNext, LoopGoesOn
<1>5. CASE Commit
  <2>1. Next /\ transaction' = NoTransaction /\ ~ Idle
    BY <1>5, CommitIsStep DEF Commit, Idle, NoTransaction
  <2> QED
    BY <1>2, <2>1
<1>6. CASE Rollback
  BY <1>2, <1>6 DEF Rollback, Idle, NoTransaction
<1>7. CASE Idle /\ Locking /\ UNCHANGED transaction
  <2>1. Next
    BY <1>7 DEF Locking, Next
  <2> QED
    BY <1>2, <1>7, <2>1
<1>8. CASE Unlocked /\ UNCHANGED transaction
  <2>1. Next
    BY <1>8 DEF Unlocked, Next
  <2>2. UNCHANGED <<keyVars, eventVars>>
    BY <1>8 DEF Unlocked, ExpireView, PurgeViews
  <2> QED
    BY <1>2, <1>3, <1>8, <2>1, <2>2
<1>9. CASE UNCHANGED loopVars
  BY <1>2, <1>3, <1>9 DEF loopVars, vars
<1> QED
  BY <1>1, <1>4, <1>5, <1>6, <1>7, <1>8, <1>9, HandlersBegin DEF LoopNext

(* LoopInv holds in every reachable state of the loop.                      *)
THEOREM LoopInvariant == LoopSpec => []LoopInv
<1>1. LoopInit => LoopInv
  BY PrefixInit DEF LoopInit, LoopInv, Idle
<1> QED
  BY <1>1, LoopStep, PTL DEF LoopSpec

(* A call that promotes any number of events, one turn of the loop after    *)
(* the other, and may die between any two of them, shows others one         *)
(* transaction of DeviceLedger or none: everything proved of Spec holds of  *)
(* the loop.                                                                *)
THEOREM LoopImplementsLedger == LoopSpec => ImplementsDeviceLedger
<1>1. LoopInit => Init
  BY DEF LoopInit
<1> QED
  BY <1>1, LoopStep, LoopInvariant, PTL DEF LoopSpec, ImplementsDeviceLedger, Spec

===============================================================================
