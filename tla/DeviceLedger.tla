---------------------------- MODULE DeviceLedger ----------------------------
(***************************************************************************)
(* The rows PostgreSQL keeps for ONE device and every transaction that     *)
(* changes them: registration, batch ingest, key rotation, adjudication,   *)
(* compaction and the opening, expiry and purge of fixed read views.       *)
(*                                                                         *)
(* Every writer takes the devices row lock (SELECT ... FOR UPDATE, or FOR  *)
(* SHARE when a view is opened) before it reads what it decides on, and    *)
(* holds it to the commit, so a transaction on one device is one atomic    *)
(* step here.  Every query is filtered by device_id: devices share no row  *)
(* of these tables, and one device is the whole system for this module.    *)
(* A call the code rejects rolls back; it is a step that changes nothing.  *)
(***************************************************************************)
EXTENDS Integers, Sequences, FiniteSetsExt

CONSTANTS
  Digest,           \* the envelopes clients may upload, named by their SHA-256 digest
  Fields,           \* Fields[d]: sequence, keyVersion, prevDigest of d, and the key that signed it
  ZeroDigest,       \* "0" x 64, the predecessor of sequence 1
  Null,             \* SQL NULL
  PublicKey,        \* raw Ed25519 public keys
  View,             \* ids of fixed read views
  MaxSequence,      \* MAX_SAFE_SEQ
  MaxRevision,      \* bound on conflicts.revision (a bigint in the schema)
  RetentionEvents,  \* cfg.compaction.retentionEvents
  MinEvents         \* cfg.compaction.minEvents

Sequence == 1..MaxSequence

ASSUME BoundsAssumption ==
  /\ MaxSequence \in Nat \ {0}
  /\ MaxRevision \in Nat
  /\ RetentionEvents \in Nat
  /\ MinEvents \in Nat

(* validateEvent: sequence and keyVersion are integers >= 1; prevDigest is  *)
(* any 64 hex digits, so nothing is assumed of it.                          *)
ASSUME FieldsAssumption ==
  /\ ZeroDigest \notin Digest
  /\ Null \notin Digest
  /\ \A d \in Digest :
       /\ Fields[d].sequence \in Sequence
       /\ Fields[d].keyVersion \in Nat \ {0}

SeqOf(d) == Fields[d].sequence

VARIABLES
  deviceKeys,       \* device_keys, by key_version: public key and effective_sequence
  controlRevision,  \* devices.control_revision (0: the device is not registered)
  highWatermark,    \* devices.high_watermark
  status,           \* event_records.status by digest ("absent": no row)
  conflicts,        \* the conflicts row of each sequence
  checkpoints,      \* the checkpoints rows
  readViews,        \* the read_views row of each view id
  audit             \* history: the digest promoted at each sequence; no code reads it

keyVars  == <<deviceKeys, controlRevision>>
eventVars == <<highWatermark, status, conflicts, audit>>
vars == <<keyVars, eventVars, checkpoints, readViews>>

NoConflict == [status |-> "none", revision |-> 0, reason |-> "none",
               resolution |-> "none", chosenDigest |-> Null]

NoView == [state |-> "none", start |-> 0]

Init ==
  /\ deviceKeys = <<>>
  /\ controlRevision = 0
  /\ highWatermark = 0
  /\ status = [d \in Digest |-> "absent"]
  /\ conflicts = [s \in Sequence |-> NoConflict]
  /\ checkpoints = {}
  /\ readViews = [v \in View |-> NoView]
  /\ audit = <<>>

Registered == deviceKeys # <<>>

-----------------------------------------------------------------------------
(* Row sets and key ownership.                                             *)

Staged(st, s)  == {d \in Digest : SeqOf(d) = s /\ st[d] = "staged"}
Visible(st, s) == {d \in Digest : SeqOf(d) = s /\ st[d] = "visible"}

SeveralStaged(st, s) == \E d, e \in Staged(st, s) : d # e

(* Generation v owns sequence s: the largest effective_sequence at or       *)
(* below s.  ingest.mjs finds it by a sorted scan, try_advance by ORDER BY. *)
Owns(ks, v, s) ==
  /\ v \in DOMAIN ks
  /\ ks[v].effectiveSequence =< s
  /\ \A w \in DOMAIN ks :
       ks[w].effectiveSequence =< s =>
         ks[w].effectiveSequence =< ks[v].effectiveSequence

(* Mutant of LatestSequence: ORDER BY sequence without DESC.                *)
OldestSequence ==
  IF checkpoints = {} THEN 0 ELSE Min({c.sequence : c \in checkpoints})

(* Sequence of the newest checkpoint, 0 when there is none.                 *)
LatestSequence == Max({0} \cup {c.sequence : c \in checkpoints})

-----------------------------------------------------------------------------
(* reconcile_conflict and try_advance.                                     *)

(* Mutants of Reopened: the decision is not cleared; a new candidate at an  *)
(* open conflict does not bump the revision.                                *)
ReopenedDecided(c, reason, bump) ==
  [c EXCEPT !.status = "open", !.reason = reason,
            !.revision = IF @ = 0 \/ c.status = "resolved" \/ bump THEN @ + 1 ELSE @]

ReopenedUnbumped(c, reason, bump) ==
  [status |-> "open", reason |-> reason,
   revision |-> IF c.status # "open" THEN c.revision + 1 ELSE c.revision,
   resolution |-> "none", chosenDigest |-> Null]

(* INSERT ... ON CONFLICT DO UPDATE: a new row starts at revision 1, a      *)
(* resolved one is reopened at the next revision, an open one moves on only *)
(* when bump holds.                                                         *)
Reopened(c, reason, bump) ==
  [status |-> "open", reason |-> reason,
   revision |-> IF c.status # "open" \/ bump THEN c.revision + 1 ELSE c.revision,
   resolution |-> "none", chosenDigest |-> Null]

(* Mutant of DivergenceReason: only candidates are compared.                *)
CandidateDivergenceReason(st, s) ==
  IF SeveralStaged(st, s) THEN "divergent_candidates" ELSE "none"

DivergenceReason(st, s) ==
  IF Visible(st, s) # {}
    THEN IF Staged(st, s) # {} THEN "post_visibility_divergence" ELSE "none"
    ELSE IF SeveralStaged(st, s) THEN "divergent_candidates" ELSE "none"

ReconcileConflict(st, c, s, added) ==
  LET reason == DivergenceReason(st, s)
  IN  IF reason = "none" THEN c ELSE Reopened(c, reason, added)

(* Mutant of Linked: any row of the predecessor's sequence will do.         *)
LinkedToAnyRow(st, d) ==
  IF SeqOf(d) = 1
    THEN Fields[d].prevDigest = ZeroDigest
    ELSE \E p \in Digest :
           Fields[d].prevDigest = p /\ SeqOf(p) = SeqOf(d) - 1 /\ st[p] # "absent"

(* The candidate names the digest of the event just below it: the row still *)
(* visible at the watermark, or a candidate promoted by this same call.  A  *)
(* predecessor row that compaction deleted reads as NULL and matches        *)
(* nothing.                                                                 *)
Linked(st, d) ==
  IF SeqOf(d) = 1
    THEN Fields[d].prevDigest = ZeroDigest
    ELSE \E p \in Digest :
           /\ Fields[d].prevDigest = p
           /\ SeqOf(p) = SeqOf(d) - 1
           /\ st[p] = IF SeqOf(p) = highWatermark THEN "visible" ELSE "staged"

(* One turn of try_advance's loop promotes sequence s.                      *)
Promotable(st, cf, ks, s) ==
  /\ s \in Sequence
  /\ cf[s].status # "open"
  /\ ~ SeveralStaged(st, s)
  /\ \E d \in Staged(st, s) : Linked(st, d) /\ Owns(ks, Fields[d].keyVersion, s)

(* Mutant of FrontierConflict: a broken candidate ends the loop unreported. *)
FrontierConflictSilent(st, c, s) ==
  IF c.status # "open" /\ SeveralStaged(st, s) THEN ReconcileConflict(st, c, s, FALSE) ELSE c

(* The conflict row at the sequence where the loop stops.                   *)
FrontierConflict(st, c, s) ==
  IF c.status = "open" \/ Staged(st, s) = {} THEN c
  ELSE IF SeveralStaged(st, s) THEN ReconcileConflict(st, c, s, FALSE)
  ELSE IF \A d \in Staged(st, s) : ~ Linked(st, d)
    THEN Reopened(c, "bad_predecessor", FALSE)
    ELSE Reopened(c, "key_generation_invalid", FALSE)

(* try_advance, called with the event rows st, the conflict rows cf and the *)
(* keys ks its transaction has written so far.  The loop runs inside one    *)
(* transaction: it promotes the longest run of promotable sequences above   *)
(* the watermark and leaves a conflict where a candidate stopped it.        *)
TryAdvance(st, cf, ks) ==
  \E h \in highWatermark..MaxSequence :
    LET promoted == (highWatermark + 1)..h IN
    /\ highWatermark' = h
    /\ \A s \in promoted : Promotable(st, cf, ks, s)
    /\ ~ Promotable(st, cf, ks, h + 1)
    /\ status' = [d \in Digest |->
                    IF SeqOf(d) \in promoted /\ st[d] = "staged"
                      THEN "visible" ELSE st[d]]
    /\ conflicts' = [s \in Sequence |->
                       IF s = h + 1 THEN FrontierConflict(st, cf[s], s) ELSE cf[s]]
    /\ audit' = [s \in 1..h |->
                   IF s \in promoted THEN CHOOSE d \in Staged(st, s) : TRUE
                                     ELSE audit[s]]
    /\ \A s \in Sequence : conflicts'[s].revision =< MaxRevision

-----------------------------------------------------------------------------
(* The transactions.                                                       *)

(* Mutant of InitialKey: the first generation starts at 0.                  *)
InitialKeyAtZero(key) == [publicKey |-> key, effectiveSequence |-> 0]

(* The first generation covers every sequence.                              *)
InitialKey(key) == [publicKey |-> key, effectiveSequence |-> 1]

(* registerDevice.  A second registration finds both rows and changes       *)
(* nothing: the first initial key is immutable.                             *)
RegisterDevice(key) ==
  /\ ~ Registered
  /\ deviceKeys' = <<InitialKey(key)>>
  /\ controlRevision' = 1
  /\ UNCHANGED <<eventVars, checkpoints, readViews>>

(* Phase 1 of ingestBatch: every event of the batch passes, or no row is    *)
(* written.                                                                 *)
Acceptable(d) ==
  /\ SeqOf(d) = 1 => Fields[d].prevDigest = ZeroDigest
  /\ Owns(deviceKeys, Fields[d].keyVersion, SeqOf(d))
  /\ Fields[d].signer = deviceKeys[Fields[d].keyVersion].publicKey

(* Mutant of IsAddition: the upsert sets every row back to staged.          *)
IsAdditionAlways(d) == TRUE

(* A digest without a row, or one an adjudication refused, becomes a        *)
(* candidate; a live row keeps its status.                                  *)
IsAddition(d) == status[d] \in {"absent", "rejected"}

CanIngest(batch) ==
  /\ Registered
  /\ \A d, e \in batch : SeqOf(d) = SeqOf(e) => d = e
  /\ \A d \in batch : Acceptable(d)

IngestedRows(batch) ==
  [d \in Digest |-> IF d \in batch /\ IsAddition(d) THEN "staged" ELSE status[d]]

IngestedConflicts(batch) ==
  [s \in Sequence |->
     IF \E d \in batch : SeqOf(d) = s
       THEN ReconcileConflict(IngestedRows(batch), conflicts[s], s,
              \E d \in batch : SeqOf(d) = s /\ IsAddition(d))
       ELSE conflicts[s]]

IngestBatch(batch) ==
  /\ CanIngest(batch)
  /\ TryAdvance(IngestedRows(batch), IngestedConflicts(batch), deviceKeys)
  /\ UNCHANGED <<keyVars, checkpoints, readViews>>

(* Mutant of BoundaryFree: off by one.                                      *)
BoundaryFreeAbove(effective) ==
  \A d \in Digest : status[d] = "staged" => SeqOf(d) =< effective

(* No candidate is at or beyond the boundary.                               *)
BoundaryFree(effective) ==
  \A d \in Digest : status[d] = "staged" => SeqOf(d) < effective

CanRotate(keyVersion, effective, expectedRevision) ==
  /\ Registered
  /\ controlRevision = expectedRevision
  /\ keyVersion = Len(deviceKeys) + 1
  /\ effective > highWatermark
  /\ \A v \in DOMAIN deviceKeys : deviceKeys[v].effectiveSequence # effective
  /\ BoundaryFree(effective)

RotatedKeys(effective, key) ==
  Append(deviceKeys, [publicKey |-> key, effectiveSequence |-> effective])

RotateKey(keyVersion, effective, expectedRevision, key) ==
  /\ CanRotate(keyVersion, effective, expectedRevision)
  /\ deviceKeys' = RotatedKeys(effective, key)
  /\ controlRevision' = controlRevision + 1
  /\ TryAdvance(status, conflicts, deviceKeys')
  /\ UNCHANGED <<checkpoints, readViews>>

Decided(c, resolution, chosen) ==
  [c EXCEPT !.status = "resolved", !.resolution = resolution, !.chosenDigest = chosen]

DecidedConflicts(s, resolution, chosen) ==
  [conflicts EXCEPT ![s] = Decided(@, resolution, chosen)]

(* adjudicate: there is a conflict, at the revision the decision quotes.    *)
CanDecide(s, expectedRevision) ==
  /\ conflicts[s].status # "none"
  /\ conflicts[s].revision = expectedRevision

(* The chosen row must be a candidate or the visible row; a visible row     *)
(* other than the chosen one fails the call.                                *)
CanSelect(s, expectedRevision, chosen) ==
  /\ CanDecide(s, expectedRevision)
  /\ SeqOf(chosen) = s
  /\ status[chosen] \in {"staged", "visible"}
  /\ \A d \in Visible(status, s) : d = chosen

(* Every other row here that is not visible is refused.                     *)
SelectedRows(s, chosen) ==
  [d \in Digest |->
     IF SeqOf(d) = s /\ d # chosen /\ status[d] \in {"staged", "rejected"}
       THEN "rejected" ELSE status[d]]

(* adjudicate, decision {type: "select"}.                                   *)
AdjudicateSelect(s, expectedRevision, chosen) ==
  /\ CanSelect(s, expectedRevision, chosen)
  /\ TryAdvance(SelectedRows(s, chosen), DecidedConflicts(s, "selected", chosen), deviceKeys)
  /\ UNCHANGED <<keyVars, checkpoints, readViews>>

RefusedRows(s) ==
  [d \in Digest |-> IF d \in Staged(status, s) THEN "rejected" ELSE status[d]]

(* adjudicate, decision {type: "reject_all"}.                               *)
AdjudicateRejectAll(s, expectedRevision) ==
  /\ CanDecide(s, expectedRevision)
  /\ TryAdvance(RefusedRows(s), DecidedConflicts(s, "rejected_all", Null), deviceKeys)
  /\ UNCHANGED <<keyVars, checkpoints, readViews>>

(* Mutants of ViewFloor: one event too many; expired views still count.     *)
ViewFloorPlusOne ==
  LET starts == {readViews[v].start : v \in {w \in View : readViews[w].state = "active"}}
  IN  IF starts = {} THEN highWatermark ELSE Min(starts) + 1

ViewFloorOfAll ==
  LET starts == {readViews[v].start : v \in {w \in View : readViews[w].state # "none"}}
  IN  IF starts = {} THEN highWatermark ELSE Min(starts)

(* The floor of the unexpired views: none of them reads at or below it.     *)
ViewFloor ==
  LET starts == {readViews[v].start : v \in {w \in View : readViews[w].state = "active"}}
  IN  IF starts = {} THEN highWatermark ELSE Min(starts)

(* Mutant of CheckpointUpTo: what the view floor protects is deleted too.   *)
CheckpointBelow(cutoff) ==
  LET safeCutoff == Min({cutoff, ViewFloor})
  IN  /\ safeCutoff > LatestSequence
      /\ \E d \in Visible(status, safeCutoff) :
           checkpoints' = checkpoints \cup
             {[sequence |-> safeCutoff, digest |-> d, prevSequence |-> LatestSequence]}
      /\ status' = [d \in Digest |->
                      IF status[d] = "visible" /\ SeqOf(d) =< cutoff
                        THEN "absent" ELSE status[d]]
      /\ UNCHANGED <<keyVars, highWatermark, conflicts, audit, readViews>>

(* The tail both compactions share: lower the cutoff to the view floor,     *)
(* insert the checkpoint, delete the visible rows it covers.  rows are      *)
(* immutable and keyed by sequence, so prevSequence stands for the hash     *)
(* prev_checkpoint_digest takes over the previous row (0: 64 zeros).        *)
CheckpointUpTo(cutoff) ==
  LET safeCutoff == Min({cutoff, ViewFloor})
  IN  /\ safeCutoff > LatestSequence
      /\ \E d \in Visible(status, safeCutoff) :
           checkpoints' = checkpoints \cup
             {[sequence |-> safeCutoff, digest |-> d, prevSequence |-> LatestSequence]}
      /\ status' = [d \in Digest |->
                      IF status[d] = "visible" /\ SeqOf(d) =< safeCutoff
                        THEN "absent" ELSE status[d]]
      /\ UNCHANGED <<keyVars, highWatermark, conflicts, audit, readViews>>

(* compactDevice without a cutoff: the worker's retention policy.           *)
CompactByPolicy ==
  LET cutoff == highWatermark - RetentionEvents
  IN  /\ Registered
      /\ cutoff > LatestSequence
      /\ highWatermark >= MinEvents
      /\ CheckpointUpTo(cutoff)

(* compactDevice with an administrator's cutoff.                            *)
CompactManually(cutoff) ==
  /\ Registered
  /\ cutoff =< highWatermark
  /\ cutoff > LatestSequence
  /\ CheckpointUpTo(cutoff)

(* The first page of readPage: the row is committed before the position is  *)
(* compared with the watermark or the checkpoint, so a request that is then *)
(* answered 400 or 410 has opened its view all the same.  The watermark it  *)
(* keeps only bounds the pages of the view: PageReader has it, no           *)
(* transaction of this module reads it.                                     *)
OpenView(v, afterSequence) ==
  /\ Registered
  /\ readViews[v].state = "none"
  /\ readViews' = [readViews EXCEPT ![v] =
       [state |-> "active", start |-> afterSequence]]
  /\ UNCHANGED <<keyVars, eventVars, checkpoints>>

(* The clock passes expires_at.                                             *)
ExpireView(v) ==
  /\ readViews[v].state = "active"
  /\ readViews' = [readViews EXCEPT ![v].state = "expired"]
  /\ UNCHANGED <<keyVars, eventVars, checkpoints>>

(* compactionPass: DELETE FROM read_views WHERE expires_at <= now().        *)
PurgeViews ==
  /\ \E v \in View : readViews[v].state = "expired"
  /\ readViews' = [v \in View |->
       IF readViews[v].state = "expired" THEN NoView ELSE readViews[v]]
  /\ UNCHANGED <<keyVars, eventVars, checkpoints>>

Next ==
  \/ \E k \in PublicKey : RegisterDevice(k)
  \/ \E batch \in (SUBSET Digest) \ {{}} : IngestBatch(batch)
  \/ \E v \in 1..Len(deviceKeys) + 1, e \in Sequence, r \in 1..controlRevision, k \in PublicKey :
       RotateKey(v, e, r, k)
  \/ \E d \in Digest, r \in 1..MaxRevision : AdjudicateSelect(SeqOf(d), r, d)
  \/ \E s \in Sequence, r \in 1..MaxRevision : AdjudicateRejectAll(s, r)
  \/ CompactByPolicy
  \/ \E c \in Sequence : CompactManually(c)
  \/ \E v \in View, a \in 0..MaxSequence : OpenView(v, a)
  \/ \E v \in View : ExpireView(v)
  \/ PurgeViews

Spec == Init /\ [][Next]_vars

-----------------------------------------------------------------------------
(* Properties.                                                             *)

ConflictReason == {"none", "divergent_candidates", "bad_predecessor",
                   "key_generation_invalid", "post_visibility_divergence"}

ConflictRow == [status : {"none", "open", "resolved"}, revision : Nat,
                reason : ConflictReason,
                resolution : {"none", "selected", "rejected_all"},
                chosenDigest : Digest \cup {Null}]

KeyRow == [publicKey : PublicKey, effectiveSequence : Sequence]

CheckpointRow == [sequence : Sequence, digest : Digest, prevSequence : 0..MaxSequence]

ViewRow == [state : {"none", "active", "expired"}, start : 0..MaxSequence]

(* Every column keeps the values migrations/0001_init.sql allows it.        *)
TypeOK ==
  /\ deviceKeys \in Seq(KeyRow)
  /\ controlRevision \in Nat
  /\ highWatermark \in 0..MaxSequence
  /\ status \in [Digest -> {"absent", "staged", "visible", "rejected"}]
  /\ conflicts \in [Sequence -> ConflictRow]
  /\ checkpoints \subseteq CheckpointRow
  /\ readViews \in [View -> ViewRow]
  /\ audit \in Seq(Digest)

(* The visible rows are exactly the promoted events above the newest        *)
(* checkpoint, one for each sequence up to the watermark: no gap, no        *)
(* duplicate, no partial promotion, and no event both unreadable and        *)
(* uncovered (0002_advance.sql:1-4, compaction.mjs:5-12).                   *)
PrefixIntact ==
  /\ Len(audit) = highWatermark
  /\ \A s \in 1..highWatermark : SeqOf(audit[s]) = s
  /\ {d \in Digest : status[d] = "visible"} =
       {audit[s] : s \in (LatestSequence + 1)..highWatermark}

(* The promoted events form one hash chain from the zero digest, whatever   *)
(* was compacted, adjudicated or rotated on the way                         *)
(* (0002_advance.sql:66-71).                                                *)
HashChain ==
  \A s \in DOMAIN audit :
    Fields[audit[s]].prevDigest = IF s = 1 THEN ZeroDigest ELSE audit[s - 1]

(* A candidate, and an event of the prefix, is signed by the key of the     *)
(* generation that owns its sequence under the keys of today: a rotation    *)
(* never takes a sequence away from an accepted event, so try_advance never *)
(* raises key_generation_invalid (devices.mjs:129-135).                     *)
OwnerSigned ==
  /\ \A d \in Digest :
       (status[d] = "staged" \/ \E s \in DOMAIN audit : audit[s] = d) =>
         /\ Owns(deviceKeys, Fields[d].keyVersion, SeqOf(d))
         /\ Fields[d].signer = deviceKeys[Fields[d].keyVersion].publicKey
  /\ \A s \in Sequence : conflicts[s].reason # "key_generation_invalid"

Live(s) == Staged(status, s) \cup Visible(status, s)

(* Two different live events at one sequence are always an open conflict:   *)
(* no interleaving of uploads, adjudications, compactions and promotions    *)
(* leaves a divergence unreported, and an open conflict always has a        *)
(* candidate to decide about (0002_advance.sql:6-9, 0001_init.sql:64-73).   *)
(* A row that compaction deleted is not live: what contradicts it is none.  *)
DivergenceIsOpen ==
  \A s \in Sequence :
    /\ (\E d, e \in Live(s) : d # e) => conflicts[s].status = "open"
    /\ conflicts[s].status = "open" => Staged(status, s) # {}

(* A candidate just above the watermark waits for an administrator, never   *)
(* for another call: every transaction that could have unblocked it has     *)
(* promoted it or left an open conflict (ingest.mjs:180, conflicts.mjs:190, *)
(* devices.mjs:162).                                                        *)
NoSilentStall ==
  \A s \in Sequence :
    s = highWatermark + 1 /\ Staged(status, s) # {} => conflicts[s].status = "open"

(* While a sequence is not compacted, a "select" that stands leaves exactly *)
(* the chosen event there; what would contradict it reopens the conflict    *)
(* (conflicts.mjs:135-171, 0002_advance.sql:53-58).                         *)
SelectionStands ==
  \A s \in Sequence :
    conflicts[s].resolution = "selected" /\ s > LatestSequence =>
      Live(s) = {conflicts[s].chosenDigest}

(* Each checkpoint names the event of the prefix at its cutoff, and links   *)
(* to the checkpoint just below it: the chain a client verifies has no      *)
(* fork, no gap and no rewritten event (compaction.mjs:11-16).              *)
CheckpointChain ==
  \A c \in checkpoints :
    /\ c.sequence =< highWatermark
    /\ c.digest = audit[c.sequence]
    /\ c.prevSequence = Max({0} \cup
         {b.sequence : b \in {x \in checkpoints : x.sequence < c.sequence}})
    /\ \A b \in checkpoints : b.sequence = c.sequence => b = c

(* The rows a reader can see: the watermark, the newest checkpoint, the      *)
(* visible events.                                                          *)
VisibleRows == {d \in Digest : status[d] = "visible"}

Anchor ==
  IF checkpoints = {} THEN ZeroDigest
    ELSE (CHOOSE c \in checkpoints : c.sequence = LatestSequence).digest

(* What a client that lost its view is told: where to resume, after what.   *)
RecoveryPoints == {[sequence |-> c.sequence, digest |-> c.digest] : c \in checkpoints}

(* Where the readers of unexpired views began.                              *)
Pins == [v \in View |-> IF readViews[v].state = "active" THEN readViews[v].start ELSE Null]

Pinned == INSTANCE PinnedLog
            WITH end <- highWatermark, floor <- LatestSequence,
                 anchor <- Anchor, retained <- VisibleRows,
                 checkpoints <- RecoveryPoints, pins <- Pins

(* The rows a reader can see are a hash-chained log that only grows at its  *)
(* end and is only cut where no unexpired view still reads; each cut leaves *)
(* for ever the checkpoint that names its last event, and every other       *)
(* transaction leaves them alone (0002_advance.sql:1-4,                     *)
(* compaction.mjs:4-12, 86-97).                                             *)
ImplementsPinnedLog == Pinned!Spec

(* An open conflict that keeps its revision keeps its candidates, and no    *)
(* revision goes back: a decision that quotes the current revision was made *)
(* on the candidates that are there (0002_advance.sql:53-58).               *)
RevisionPinsCandidates ==
  [][\A s \in Sequence :
       /\ conflicts'[s].revision >= conflicts[s].revision
       /\ conflicts'[s].status = "open" /\ conflicts'[s].revision = conflicts[s].revision =>
            Staged(status', s) = Staged(status, s)]_vars

(* What an unexpired fixed view may still read stays readable, through any  *)
(* number of policy and manual compactions (compaction.mjs:86-97).          *)
ViewsPinHistory ==
  [][\A v \in View :
       readViews[v].state = "active" /\ readViews'[v].state = "active" =>
         \A d \in Digest :
           status[d] = "visible" /\ SeqOf(d) > readViews[v].start =>
             status'[d] = "visible"]_vars

(* Once readers stop opening views, the worker brings the retained history  *)
(* down to retentionEvents again and again: no upload, rotation or          *)
(* adjudication keeps it from compacting (compaction.mjs:64-70, 177-209).   *)
RetentionReached ==
  <>[](\A v \in View : readViews[v].state # "active") =>
    []<>(\/ highWatermark < MinEvents
         \/ highWatermark - LatestSequence =< RetentionEvents)

=============================================================================
