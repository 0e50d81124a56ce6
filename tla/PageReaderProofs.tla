--------------------------- MODULE PageReaderProofs ---------------------------
(***************************************************************************)
(* A page of an unexpired view is exact and a resumption is anchored, for  *)
(* any number of clients, views and events and every interleaving of their *)
(* queries with promotions, compactions, expiries and purges.              *)
(***************************************************************************)
EXTENDS PageReader, FiniteSetTheorems, TLAPS

Facts == INSTANCE AuditLogProofs

(* The rows of checkpoints: one for each cut, and the newest is the anchor. *)
CheckpointsOK ==
  /\ \A c \in checkpoints : c.sequence \in 1..floor
  /\ floor > 0 => [sequence |-> floor, digest |-> anchor] \in checkpoints
  /\ \A b, c \in checkpoints : b.sequence = c.sequence => b = c

(* A client with a cursor is inside its view.  While the view is unexpired, *)
(* so was it at the last page, and no cut is above where the client began.  *)
CursorOK(r) ==
  LET k == cursor[r]
      t == traversal[r]
      row == readViews[k.view]
  IN  k # NoCursor =>
        /\ k.view \in View /\ k.after = t.position
        /\ t.start =< t.position /\ t.position =< t.highWatermark
        /\ row.state # "none" => row.start = t.start /\ row.highWatermark = t.highWatermark
        /\ row.state = "active" => t.pinned /\ floor =< t.start

(* The request for a first page.                                            *)
FirstOK(r) ==
  LET q == request[r]
      t == traversal[r]
      row == readViews[q.view]
  IN  pc[r] # "idle" /\ ~ q.cursor =>
        /\ cursor[r] = NoCursor
        /\ t.got = {} /\ ~ t.pinned /\ t.start = q.after /\ t.position = q.after
        /\ pc[r] # "finding"
        /\ pc[r] # "opening" =>
             /\ q.view \in View /\ q.after =< q.highWatermark
             /\ row.state # "none" => row.start = q.after /\ row.highWatermark = q.highWatermark
             /\ row.state = "active" =>
                  /\ pc[r] = "checking" => floor =< checkpointSeq[r] \/ floor =< q.after
                  /\ pc[r] = "reading" => floor =< q.after

(* The request for a page with the cursor of the one before.                *)
NextOK(r) ==
  pc[r] # "idle" /\ request[r].cursor =>
    /\ cursor[r] # NoCursor
    /\ request[r].view = cursor[r].view /\ request[r].after = cursor[r].after
    /\ pc[r] # "opening"
    /\ pc[r] # "finding" => request[r].highWatermark = traversal[r].highWatermark

SeenOK(r) ==
  /\ checkpointSeq[r] = 0 \/ \E c \in checkpoints : c.sequence = checkpointSeq[r]
  /\ pc[r] = "recovering" => request[r].after < checkpointSeq[r]

(* A client told to resume has the row of a checkpoint, and begins there.   *)
ResumeOK(r) ==
  resume[r] # NoCheckpoint =>
    /\ resume[r] \in checkpoints
    /\ \/ pc[r] = "idle" /\ cursor[r] = NoCursor /\ traversal[r] = NoTraversal
       \/ traversal[r].start = resume[r].sequence

ExactOK(r) ==
  LET t == traversal[r] IN
  /\ Sequences(t.got) \subseteq (t.start + 1)..t.highWatermark
  /\ t.pinned =>
       /\ Sequences(t.got) = (t.start + 1)..t.position
       /\ cursor[r] = NoCursor => t.position = t.highWatermark

AnchoredOK(r) ==
  LET t == traversal[r] IN
  resume[r] # NoCheckpoint /\ t.pinned =>
    \A d \in t.got : SeqOf(d) = t.start + 1 => Fields[d].prevDigest = resume[r].digest

ReaderOK(r) ==
  /\ CursorOK(r) /\ FirstOK(r) /\ NextOK(r)
  /\ SeenOK(r) /\ ResumeOK(r)
  /\ ExactOK(r) /\ AnchoredOK(r)

PageInv ==
  /\ Facts!LogInv /\ end =< MaxSequence
  /\ TypeOK
  /\ CheckpointsOK
  /\ \A r \in Reader : ReaderOK(r)
-----------------------------------------------------------------------------
(* The log and the checkpoints.                                            *)

(* The operators AuditLogProofs takes from FiniteSets are those used here.  *)
LEMMA SameFinite == ASSUME NEW S PROVE Facts!IsFiniteSet(S) <=> IsFiniteSet(S)
BY DEF Facts!IsFiniteSet, IsFiniteSet

LEMMA SameCardinality == ASSUME NEW S PROVE Facts!Cardinality(S) = Cardinality(S)
BY DEF Facts!Cardinality, Cardinality

LEMMA SameSeqOf == ASSUME NEW d PROVE Facts!SeqOf(d) = SeqOf(d)
BY DEF Facts!SeqOf, SeqOf

LEMMA LogParts ==
  ASSUME Facts!LogInv
  PROVE  /\ end \in Nat /\ floor \in Nat /\ floor =< end
         /\ retained \subseteq Digest /\ IsFiniteSet(retained)
         /\ \A d \in retained : SeqOf(d) \in (floor + 1)..end
         /\ \A s \in (floor + 1)..end : \E d \in retained : SeqOf(d) = s
         /\ \A d, e \in retained : SeqOf(d) = SeqOf(e) => d = e
         /\ \A d \in retained : SeqOf(d) = floor + 1 => Fields[d].prevDigest = anchor
BY SameFinite, SameSeqOf DEF Facts!LogInv, Facts!Contiguous, Facts!Linked

LEMMA PromoteKeepsLog ==
  ASSUME Facts!LogInv, Promote
  PROVE  /\ Facts!LogInv' /\ end' \in Nat /\ end' =< MaxSequence
         /\ floor' = floor /\ anchor' = anchor
<1>1. PICK h \in (end + 1)..MaxSequence : Pinned!Log!Extend(h)
  BY DEF Promote, Pinned!Extend
<1>2. h \in Nat /\ h > end /\ h =< MaxSequence
  BY <1>1, LogParts, PageAssumption
<1>3. Facts!Extend(h)
  BY <1>1 DEF Pinned!Log!Extend, Facts!Extend, Pinned!Log!IsLast, Facts!IsLast
<1>4. Facts!LogInv'
  BY <1>2, <1>3, Facts!ExtendKeepsLog
<1>5. end' = h /\ floor' = floor /\ anchor' = anchor
  BY <1>1 DEF Pinned!Log!Extend
<1> QED BY <1>2, <1>4, <1>5

LEMMA CompactKeepsLog ==
  ASSUME Facts!LogInv, NEW c \in (floor + 1)..end, Compact(c)
  PROVE  /\ Facts!LogInv' /\ end' = end /\ floor' = c /\ c \in Nat /\ c > floor
         /\ anchor' \in Digest
<1>1. Pinned!Log!Truncate(c)
  BY DEF Compact, Pinned!Truncate
<1>2. Facts!Truncate(c)
  BY <1>1 DEF Pinned!Log!Truncate, Facts!Truncate
<1>3. Facts!LogInv'
  BY <1>2, Facts!TruncateKeepsLog
<1>4. floor' = c /\ end' = end /\ anchor' \in retained
  BY <1>1 DEF Pinned!Log!Truncate
<1> QED BY <1>3, <1>4, LogParts

LEMMA StutterKeepsLog ==
  ASSUME Facts!LogInv, UNCHANGED log
  PROVE  Facts!LogInv' /\ UNCHANGED <<end, floor, anchor>>
BY DEF log, Facts!LogInv, Facts!Contiguous, Facts!Linked, Facts!SeqOf

(* The newest checkpoint is where the log is cut.                           *)
LEMMA NewestIsFloor ==
  ASSUME CheckpointsOK, floor \in Nat
  PROVE  Max({0} \cup {c.sequence : c \in checkpoints}) = floor
<1> DEFINE T == {0} \cup {c.sequence : c \in checkpoints}
<1>1. \A x \in T : x \in Nat /\ x =< floor
  BY DEF CheckpointsOK
<1>2. floor \in T
  <2>1. CASE floor = 0
    BY <2>1
  <2>2. CASE floor > 0
    <3>1. PICK c \in checkpoints : c = [sequence |-> floor, digest |-> anchor]
      BY <2>2 DEF CheckpointsOK
    <3> QED BY <3>1
  <2> QED BY <2>1, <2>2
<1> HIDE DEF T
<1>3. \A x \in T : (\A y \in T : x >= y) => x = floor
  BY <1>1, <1>2
<1>4. \E x \in T : \A y \in T : x >= y
  BY <1>1, <1>2
<1>5. Max(T) = floor
  BY <1>3, <1>4 DEF Max
<1> QED BY <1>5 DEF T

LEMMA CompactKeepsCheckpoints ==
  ASSUME Facts!LogInv, CheckpointsOK, NEW c \in (floor + 1)..end, Compact(c)
  PROVE  CheckpointsOK' /\ checkpoints \subseteq checkpoints'
<1>1. floor \in Nat /\ floor' = c /\ c \in Nat /\ c > floor
  BY CompactKeepsLog, LogParts
<1> DEFINE new == [sequence |-> c, digest |-> anchor']
<1>2. checkpoints' = checkpoints \cup {new}
  BY DEF Compact, Pinned!Truncate, Pinned!CheckpointRows
<1>3. new.sequence = c
  OBVIOUS
<1>4. floor' > 0 => [sequence |-> floor', digest |-> anchor'] \in checkpoints'
  BY <1>1, <1>2
<1> HIDE DEF new
<1>5. \A b \in checkpoints' : b.sequence \in 1..floor'
  BY <1>1, <1>2, <1>3 DEF CheckpointsOK
<1>6. \A b, d \in checkpoints' : b.sequence = d.sequence => b = d
  BY <1>1, <1>2, <1>3 DEF CheckpointsOK
<1> QED BY <1>2, <1>4, <1>5, <1>6 DEF CheckpointsOK

-----------------------------------------------------------------------------
(* What a page holds.                                                      *)

LEMMA PageRows ==
  ASSUME Facts!LogInv, NEW after \in Nat, NEW upTo \in Nat, NEW d \in Page(after, upTo)
  PROVE  /\ d \in retained /\ d \in Digest
         /\ SeqOf(d) \in Nat /\ after < SeqOf(d) /\ SeqOf(d) =< upTo /\ SeqOf(d) =< end
BY LogParts DEF Page

(* Where no cut is above its position, a page has no gap.                   *)
LEMMA PageHasNoGap ==
  ASSUME Facts!LogInv, NEW after \in Nat, NEW upTo \in Nat, floor =< after,
         NEW d \in Page(after, upTo), NEW s \in (after + 1)..SeqOf(d)
  PROVE  \E e \in Page(after, upTo) : SeqOf(e) = s
<1> DEFINE rows == {x \in retained : after < SeqOf(x) /\ SeqOf(x) =< upTo}
           Below(x) == {e \in rows : SeqOf(e) < SeqOf(x)}
<1>1. Page(after, upTo) = {x \in rows : Cardinality(Below(x)) < PageSize}
  BY DEF Page
<1>2. IsFiniteSet(rows) /\ \A x \in rows : SeqOf(x) \in Nat
  BY LogParts, FS_Subset
<1>3. d \in rows /\ SeqOf(d) \in (floor + 1)..end /\ Cardinality(Below(d)) < PageSize
  BY <1>1, LogParts
<1>4. s \in (floor + 1)..end /\ s > after /\ s =< SeqOf(d)
  BY <1>3, LogParts
<1>5. PICK e \in rows : SeqOf(e) = s
  BY <1>3, <1>4, LogParts
<1>6. CASE SeqOf(e) = SeqOf(d)
  BY <1>5, <1>6
<1>7. CASE SeqOf(e) < SeqOf(d)
  <2>1. PageSize \in Nat
    BY PageAssumption
  <2>2. Facts!IsFiniteSet(rows) /\ \A x \in rows : Facts!SeqOf(x) \in Nat
    BY <1>2, SameFinite, SameSeqOf
  <2>3. Facts!Cardinality({x \in rows : Facts!SeqOf(x) < Facts!SeqOf(d)}) < PageSize
    BY <1>3, SameCardinality, SameSeqOf
  <2>4. d \in rows /\ e \in rows /\ Facts!SeqOf(e) < Facts!SeqOf(d)
    BY <1>3, <1>5, <1>7, SameSeqOf
  <2>5. Facts!Cardinality({x \in rows : Facts!SeqOf(x) < Facts!SeqOf(e)}) < PageSize
    <3> HIDE DEF rows
    <3> QED BY <2>1, <2>2, <2>3, <2>4, Facts!FirstRows
  <2>6. Cardinality(Below(e)) < PageSize
    BY <2>5, SameCardinality, SameSeqOf
  <2> QED BY <1>1, <1>5, <2>6
<1> QED BY <1>3, <1>4, <1>5, <1>6, <1>7

LEMMA LastRow ==
  ASSUME NEW T \in SUBSET Nat, NEW p \in Nat, NEW b \in Nat, p =< b, \A x \in T : x =< b
  PROVE  /\ Max({p} \cup T) \in {p} \cup T
         /\ Max({p} \cup T) \in Nat
         /\ Max({p} \cup T) =< b
         /\ \A x \in {p} \cup T : x =< Max({p} \cup T)
<1> DEFINE U == {p} \cup T
<1>1. U \in SUBSET Nat /\ U # {} /\ \A x \in U : x =< b
  OBVIOUS
<1> HIDE DEF U
<1>2. PICK m \in U : \A x \in U : x =< m
  BY <1>1, Facts!BoundedHasLargest
<1>3. Max(U) \in U /\ \A x \in U : Max(U) >= x
  BY <1>1, <1>2 DEF Max
<1>4. Max(U) \in U /\ Max(U) \in Nat /\ Max(U) =< b /\ \A x \in U : x =< Max(U)
  BY <1>1, <1>3
<1> QED BY <1>4 DEF U

(* The last position of a page, and what lies between it and the first.     *)
LEMMA PageEnds ==
  ASSUME Facts!LogInv, NEW after \in Nat, NEW upTo \in Nat, after =< upTo
  PROVE  LET ss == Sequences(Page(after, upTo))
             last == Max({after} \cup ss)
         IN  /\ last \in Nat /\ after =< last /\ last =< upTo
             /\ ss \subseteq (after + 1)..last
             /\ floor =< after => ss = (after + 1)..last
<1> DEFINE ss == Sequences(Page(after, upTo))
           last == Max({after} \cup ss)
<1>1. ss \in SUBSET Nat /\ \A x \in ss : after < x /\ x =< upTo
  BY PageRows DEF Sequences
<1> HIDE DEF ss
<1>2. /\ last \in {after} \cup ss /\ last \in Nat /\ last =< upTo
      /\ \A x \in {after} \cup ss : x =< last
  BY <1>1, LastRow
<1> HIDE DEF last
<1>3. ss \subseteq (after + 1)..last
  BY <1>1, <1>2
<1>4. ASSUME floor =< after, NEW s \in (after + 1)..last PROVE s \in ss
  <2>1. last \in ss
    BY <1>2, <1>4
  <2>2. PICK d \in Page(after, upTo) : SeqOf(d) = last
    BY <2>1 DEF ss, Sequences
  <2>3. \E e \in Page(after, upTo) : SeqOf(e) = s
    BY <1>4, <2>2, PageHasNoGap
  <2> QED BY <2>3 DEF ss, Sequences
<1>5. /\ last \in Nat /\ after =< last /\ last =< upTo
      /\ ss \subseteq (after + 1)..last
      /\ floor =< after => ss = (after + 1)..last
  BY <1>2, <1>3, <1>4
<1> QED BY <1>5 DEF ss, last
-----------------------------------------------------------------------------
(* What a step leaves of a client that does not take it.                   *)

Shapes ==
  /\ checkpoints \subseteq [sequence : 1..MaxSequence, digest : Digest]
  /\ readViews \in [View -> [state : {"none", "active", "expired"},
                             start : 0..MaxSequence, highWatermark : 0..MaxSequence]]
  /\ pc \in [Reader -> {"idle", "opening", "finding", "viewing", "checking",
                        "recovering", "reading"}]
  /\ request \in [Reader -> [view : View \cup {Null}, highWatermark : 0..MaxSequence,
                             after : 0..MaxSequence, cursor : BOOLEAN]]
  /\ checkpointSeq \in [Reader -> 0..MaxSequence]
  /\ cursor \in [Reader -> [view : View \cup {Null}, after : 0..MaxSequence]]
  /\ resume \in [Reader -> [sequence : 0..MaxSequence, digest : Digest \cup {ZeroDigest}]]
  /\ traversal \in [Reader -> [start : 0..MaxSequence, position : 0..MaxSequence,
                               highWatermark : 0..MaxSequence, got : SUBSET Digest,
                               pinned : BOOLEAN]]

Untouched(r) ==
  /\ pc'[r] = pc[r] /\ request'[r] = request[r] /\ checkpointSeq'[r] = checkpointSeq[r]
  /\ cursor'[r] = cursor[r] /\ resume'[r] = resume[r] /\ traversal'[r] = traversal[r]

(* The view v only fades, and cuts respect it.                              *)
Fades(v) ==
  /\ readViews'[v].state # "none" =>
       /\ readViews[v].state # "none"
       /\ readViews'[v].start = readViews[v].start
       /\ readViews'[v].highWatermark = readViews[v].highWatermark
  /\ readViews'[v].state = "active" =>
       /\ readViews[v].state = "active"
       /\ floor' = floor \/ floor' =< readViews[v].start

LEMMA UntouchedKeeps ==
  ASSUME Shapes, NEW r \in Reader, ReaderOK(r), Untouched(r), checkpoints \subseteq checkpoints',
         \A v \in View : v = request[r].view \/ v = cursor[r].view => Fades(v)
  PROVE  ReaderOK(r)'
<1> USE DEF ReaderOK, Untouched
<1>1. CursorOK(r)'
  BY DEF CursorOK, Fades
<1>2. FirstOK(r)'
  BY DEF FirstOK, Fades
<1>3. NextOK(r)'
  BY DEF NextOK
<1>4. SeenOK(r)'
  BY DEF SeenOK
<1>5. ResumeOK(r)'
  BY DEF ResumeOK
<1>6. ExactOK(r)' /\ AnchoredOK(r)'
  BY DEF ExactOK, AnchoredOK
<1> QED BY <1>1, <1>2, <1>3, <1>4, <1>5, <1>6

(* Nobody opens a view that a client names.                                 *)
LEMMA OpenedIsFresh ==
  ASSUME Shapes, UNCHANGED log, NEW v \in View, Fresh(v), NEW row,
         readViews' = [readViews EXCEPT ![v] = row],
         NEW r \in Reader, NEW u \in View, u = request[r].view \/ u = cursor[r].view
  PROVE  Fades(u)
<1>1. u # v
  BY DEF Fresh
<1>2. readViews'[u] = readViews[u]
  BY <1>1 DEF Shapes
<1> QED BY <1>2 DEF Fades, log

LEMMA SameRowsFade ==
  ASSUME UNCHANGED <<floor, readViews>>, NEW v
  PROVE  Fades(v)
BY DEF Fades

-----------------------------------------------------------------------------
(* The device.                                                             *)

LEMMA DeviceKeepsReaders ==
  ASSUME Shapes, UNCHANGED <<server, client>>, checkpoints \subseteq checkpoints',
         \A v \in View : Fades(v), \A r \in Reader : ReaderOK(r)
  PROVE  \A r \in Reader : ReaderOK(r)'
BY UntouchedKeeps DEF Untouched, server, client

DeviceInv == Facts!LogInv /\ end =< MaxSequence /\ Shapes /\ CheckpointsOK

LEMMA PromoteKeeps ==
  ASSUME DeviceInv, \A r \in Reader : ReaderOK(r), Promote
  PROVE  DeviceInv' /\ \A r \in Reader : ReaderOK(r)'
<1>1. UNCHANGED <<checkpoints, readViews, server, client, floor, anchor>>
  BY PromoteKeepsLog DEF Promote, Pinned!Extend, DeviceInv
<1>2. DeviceInv'
  BY <1>1, PromoteKeepsLog DEF DeviceInv, Shapes, CheckpointsOK, server, client
<1>3. \A v \in View : Fades(v)
  BY <1>1, SameRowsFade
<1> QED BY <1>1, <1>2, <1>3, DeviceKeepsReaders DEF DeviceInv

LEMMA CompactKeeps ==
  ASSUME DeviceInv, \A r \in Reader : ReaderOK(r), NEW c \in (floor + 1)..end, Compact(c)
  PROVE  DeviceInv' /\ \A r \in Reader : ReaderOK(r)'
<1>1. /\ Facts!LogInv' /\ end' = end /\ floor' = c /\ c \in Nat /\ c > floor /\ anchor' \in Digest
      /\ floor \in Nat /\ end \in Nat
  BY CompactKeepsLog, LogParts DEF DeviceInv
<1>2. CheckpointsOK' /\ checkpoints \subseteq checkpoints'
  BY CompactKeepsCheckpoints DEF DeviceInv
<1>3. UNCHANGED <<readViews, server, client>>
  BY DEF Compact
<1>4. Shapes'
  <2>1. c \in 1..MaxSequence
    BY <1>1, PageAssumption DEF DeviceInv
  <2>2. checkpoints' \subseteq [sequence : 1..MaxSequence, digest : Digest]
    BY <1>1, <2>1 DEF Compact, Pinned!Truncate, Pinned!CheckpointRows, DeviceInv, Shapes
  <2> QED BY <1>3, <2>2 DEF DeviceInv, Shapes, server, client
<1>5. ASSUME NEW v \in View PROVE Fades(v)
  <2>1. ASSUME readViews[v].state = "active" PROVE c =< readViews[v].start
    <3>1. Pins[v] = readViews[v].start
      BY <2>1 DEF Pins
    <3>2. Pins[v] # Null
      BY <3>1, PageAssumption DEF DeviceInv, Shapes
    <3> QED BY <3>1, <3>2 DEF Compact, Pinned!Truncate
  <2> QED BY <1>1, <1>3, <2>1 DEF Fades
<1> QED BY <1>1, <1>2, <1>3, <1>4, <1>5, DeviceKeepsReaders DEF DeviceInv

LEMMA ExpiryKeeps ==
  ASSUME DeviceInv, \A r \in Reader : ReaderOK(r), PurgeViews \/ \E v \in View : ExpireView(v)
  PROVE  DeviceInv' /\ \A r \in Reader : ReaderOK(r)'
<1>1. UNCHANGED <<log, checkpoints, server, client>>
  BY DEF PurgeViews, ExpireView
<1>2. /\ \A v \in View : Fades(v)
      /\ readViews' \in [View -> [state : {"none", "active", "expired"},
                                  start : 0..MaxSequence, highWatermark : 0..MaxSequence]]
  <2>1. CASE PurgeViews
    <3>1. NoView \in [state : {"none", "active", "expired"},
                      start : 0..MaxSequence, highWatermark : 0..MaxSequence]
      BY PageAssumption DEF NoView
    <3> QED BY <1>1, <2>1, <3>1 DEF PurgeViews, DeviceInv, Shapes, Fades, NoView, log
  <2>2. ASSUME NEW v \in View, ExpireView(v)
        PROVE  /\ \A u \in View : Fades(u)
               /\ readViews' \in [View -> [state : {"none", "active", "expired"},
                                           start : 0..MaxSequence, highWatermark : 0..MaxSequence]]
    BY <1>1, <2>2 DEF ExpireView, DeviceInv, Shapes, Fades, log
  <2> QED BY <2>1, <2>2
<1>3. Facts!LogInv' /\ UNCHANGED <<end, floor, anchor>>
  BY <1>1, StutterKeepsLog DEF DeviceInv
<1>4. DeviceInv'
  BY <1>1, <1>2, <1>3 DEF DeviceInv, Shapes, CheckpointsOK, server, client
<1> QED BY <1>1, <1>2, <1>4, DeviceKeepsReaders DEF DeviceInv
-----------------------------------------------------------------------------
(* The steps of a client's request.                                        *)

Requests == [view : View \cup {Null}, highWatermark : 0..MaxSequence,
             after : 0..MaxSequence, cursor : BOOLEAN]

LEMMA ViewSet ==
  ASSUME NEW q \in Requests, NEW v \in View
  PROVE  LET p == [q EXCEPT !.view = v]
         IN  p \in Requests /\ p.view = v /\ p.after = q.after /\ p.cursor = q.cursor
<1>1. [q EXCEPT !.view = v] \in Requests
  BY DEF Requests
<1>2. [q EXCEPT !.view = v].cursor = q.cursor
  BY DEF Requests
<1> QED BY <1>1, <1>2 DEF Requests

LEMMA WatermarkSet ==
  ASSUME NEW q \in Requests, NEW h \in 0..MaxSequence
  PROVE  LET p == [q EXCEPT !.highWatermark = h]
         IN  /\ p \in Requests /\ p.highWatermark = h
             /\ p.view = q.view /\ p.after = q.after /\ p.cursor = q.cursor
<1>1. [q EXCEPT !.highWatermark = h] \in Requests
  BY DEF Requests
<1>2. [q EXCEPT !.highWatermark = h].cursor = q.cursor
  BY DEF Requests
<1> QED BY <1>1, <1>2 DEF Requests

ReadersInv == DeviceInv /\ \A r \in Reader : ReaderOK(r)

(* A step of r that opens no view leaves the others as they were.           *)
LEMMA OwnStep ==
  ASSUME ReadersInv, NEW r \in Reader, UNCHANGED <<log, checkpoints>>, Shapes', ReaderOK(r)',
         \A x \in Reader \ {r} : Untouched(x),
         \A x \in Reader \ {r} : \A v \in View :
           v = request[x].view \/ v = cursor[x].view => Fades(v)
  PROVE  ReadersInv'
<1>1. Facts!LogInv' /\ UNCHANGED <<end, floor, anchor>>
  BY StutterKeepsLog DEF ReadersInv, DeviceInv
<1>2. DeviceInv'
  BY <1>1 DEF ReadersInv, DeviceInv, CheckpointsOK
<1>3. ASSUME NEW x \in Reader PROVE ReaderOK(x)'
  <2>1. CASE x = r
    BY <2>1
  <2>2. CASE x # r
    BY <2>2, UntouchedKeeps DEF ReadersInv, DeviceInv
  <2> QED BY <2>1, <2>2
<1> QED BY <1>2, <1>3 DEF ReadersInv

LEMMA QuietStep ==
  ASSUME ReadersInv, NEW r \in Reader, UNCHANGED <<log, checkpoints, readViews>>, Shapes', ReaderOK(r)',
         \A x \in Reader \ {r} : Untouched(x)
  PROVE  ReadersInv'
<1>1. \A v : Fades(v)
  BY SameRowsFade DEF log
<1> QED BY <1>1, OwnStep

LEMMA Defaults ==
  /\ NoRequest \in [view : View \cup {Null}, highWatermark : 0..MaxSequence,
                    after : 0..MaxSequence, cursor : BOOLEAN]
  /\ NoCursor \in [view : View \cup {Null}, after : 0..MaxSequence]
  /\ NoCheckpoint \in [sequence : 0..MaxSequence, digest : Digest \cup {ZeroDigest}]
  /\ NoTraversal \in [start : 0..MaxSequence, position : 0..MaxSequence,
                      highWatermark : 0..MaxSequence, got : SUBSET Digest, pinned : BOOLEAN]
  /\ 0 \in 0..MaxSequence
BY PageAssumption DEF NoRequest, NoCursor, NoCheckpoint, NoTraversal

LEMMA RefusedOK ==
  ASSUME Shapes, NEW r \in Reader, Refuse(r), UNCHANGED <<checkpoints>>,
         readViews' \in [View -> [state : {"none", "active", "expired"},
                                  start : 0..MaxSequence, highWatermark : 0..MaxSequence]]
  PROVE  Shapes' /\ ReaderOK(r)' /\ \A x \in Reader \ {r} : Untouched(x)
<1>1. /\ pc'[r] = "idle" /\ request'[r] = NoRequest /\ checkpointSeq'[r] = 0
      /\ cursor'[r] = NoCursor /\ resume'[r] = NoCheckpoint /\ traversal'[r] = NoTraversal
  BY DEF Refuse, Answer, Shapes
<1>2. \A x \in Reader \ {r} : Untouched(x)
  BY DEF Refuse, Answer, Shapes, Untouched
<1>3. Shapes'
  BY Defaults DEF Refuse, Answer, Shapes
<1>4. CursorOK(r)' /\ FirstOK(r)' /\ NextOK(r)' /\ SeenOK(r)' /\ ResumeOK(r)' /\ AnchoredOK(r)'
  BY <1>1 DEF CursorOK, FirstOK, NextOK, SeenOK, ResumeOK, AnchoredOK
<1>5. ExactOK(r)'
  BY <1>1 DEF ExactOK, NoTraversal, Sequences
<1> QED BY <1>2, <1>3, <1>4, <1>5 DEF ReaderOK

LEMMA AskFirstKeeps ==
  ASSUME ReadersInv, NEW r \in Reader, NEW after \in 0..MaxSequence, AskFirst(r, after)
  PROVE  ReadersInv'
<1>0. Shapes /\ ReaderOK(r)
  BY DEF ReadersInv, DeviceInv
<1> DEFINE q == [NoRequest EXCEPT !.after = after]
           s == [NoTraversal EXCEPT !.start = after]
           t == [NoTraversal EXCEPT !.start = after, !.position = after]
<1>1. /\ q \in [view : View \cup {Null}, highWatermark : 0..MaxSequence,
                after : 0..MaxSequence, cursor : BOOLEAN]
      /\ q.after = after /\ ~ q.cursor
  <2>1. ~ NoRequest.cursor
    BY DEF NoRequest
  <2> QED BY <2>1, Defaults
<1>2. t = [s EXCEPT !.position = after]
  OBVIOUS
<1>3. /\ s \in [start : 0..MaxSequence, position : 0..MaxSequence,
                highWatermark : 0..MaxSequence, got : SUBSET Digest, pinned : BOOLEAN]
      /\ s.start = after /\ s.got = {} /\ ~ s.pinned
  BY Defaults DEF NoTraversal
<1> HIDE DEF s
<1>4. /\ t \in [start : 0..MaxSequence, position : 0..MaxSequence,
                highWatermark : 0..MaxSequence, got : SUBSET Digest, pinned : BOOLEAN]
      /\ t.start = after /\ t.position = after /\ t.got = {} /\ ~ t.pinned
  <2> HIDE DEF t
  <2> QED BY <1>2, <1>3
<1> HIDE DEF q, t
<1>5. /\ pc[r] = "idle" /\ cursor[r] = NoCursor
      /\ pc' = [pc EXCEPT ![r] = "opening"]
      /\ request' = [request EXCEPT ![r] = q]
      /\ traversal' = [traversal EXCEPT ![r] = t]
      /\ resume' = [resume EXCEPT ![r] =
           IF @ # NoCheckpoint /\ after = @.sequence THEN @ ELSE NoCheckpoint]
      /\ UNCHANGED <<log, checkpoints, readViews, checkpointSeq, cursor>>
  BY DEF AskFirst, q, t
<1>6. /\ pc'[r] = "opening" /\ request'[r] = q /\ traversal'[r] = t
      /\ cursor'[r] = NoCursor /\ checkpointSeq'[r] = checkpointSeq[r]
      /\ \/ resume'[r] = NoCheckpoint
         \/ resume'[r] = resume[r] /\ resume[r] # NoCheckpoint /\ after = resume[r].sequence
  BY <1>0, <1>5 DEF Shapes
<1>7. \A x \in Reader \ {r} : Untouched(x)
  BY <1>0, <1>5 DEF Shapes, Untouched
<1>8. Shapes'
  BY <1>0, <1>1, <1>4, <1>5, Defaults DEF Shapes
<1>9. CursorOK(r)' /\ FirstOK(r)' /\ NextOK(r)'
  BY <1>1, <1>4, <1>6 DEF CursorOK, FirstOK, NextOK
<1>10. SeenOK(r)'
  BY <1>0, <1>5, <1>6 DEF SeenOK, ReaderOK
<1>11. ResumeOK(r)'
  BY <1>0, <1>4, <1>5, <1>6 DEF ResumeOK, ReaderOK
<1>12. ExactOK(r)' /\ AnchoredOK(r)'
  BY <1>4, <1>6 DEF ExactOK, AnchoredOK, Sequences
<1> QED BY <1>5, <1>7, <1>8, <1>9, <1>10, <1>11, <1>12, QuietStep DEF ReaderOK

LEMMA AskNextKeeps ==
  ASSUME ReadersInv, NEW r \in Reader, AskNext(r)
  PROVE  ReadersInv'
<1>0. Shapes /\ ReaderOK(r)
  BY DEF ReadersInv, DeviceInv
<1> DEFINE q == [view |-> cursor[r].view, highWatermark |-> 0, after |-> cursor[r].after, cursor |-> TRUE]
<1>1. q \in [view : View \cup {Null}, highWatermark : 0..MaxSequence,
             after : 0..MaxSequence, cursor : BOOLEAN]
  BY <1>0, Defaults DEF Shapes
<1>2. q.view = cursor[r].view /\ q.after = cursor[r].after /\ q.cursor = TRUE
  OBVIOUS
<1> HIDE DEF q
<1>3. /\ pc[r] = "idle" /\ cursor[r] # NoCursor
      /\ pc' = [pc EXCEPT ![r] = "finding"]
      /\ request' = [request EXCEPT ![r] = q]
      /\ UNCHANGED <<log, checkpoints, readViews, checkpointSeq, cursor, resume, traversal>>
  BY DEF AskNext, client, q
<1>4. pc'[r] = "finding" /\ request'[r] = q
  BY <1>0, <1>3 DEF Shapes
<1>5. \A x \in Reader \ {r} : Untouched(x)
  BY <1>0, <1>3 DEF Shapes, Untouched
<1>6. Shapes'
  BY <1>0, <1>1, <1>3 DEF Shapes
<1>7. CursorOK(r)'
  BY <1>0, <1>3 DEF CursorOK, ReaderOK, log
<1>8. FirstOK(r)' /\ NextOK(r)'
  BY <1>2, <1>3, <1>4 DEF FirstOK, NextOK
<1>9. SeenOK(r)'
  BY <1>0, <1>3, <1>4 DEF SeenOK, ReaderOK
<1>10. ResumeOK(r)'
  BY <1>0, <1>3 DEF ResumeOK, ReaderOK
<1>11. ExactOK(r)' /\ AnchoredOK(r)'
  BY <1>0, <1>3 DEF ExactOK, AnchoredOK, ReaderOK
<1> QED BY <1>3, <1>5, <1>6, <1>7, <1>8, <1>9, <1>10, <1>11, QuietStep DEF ReaderOK
LEMMA OpenViewKeeps ==
  ASSUME ReadersInv, NEW r \in Reader, NEW v \in View, OpenView(r, v)
  PROVE  ReadersInv'
<1>0. Shapes /\ ReaderOK(r) /\ end \in 0..MaxSequence /\ end \in Nat
  BY LogParts, PageAssumption DEF ReadersInv, DeviceInv
<1> DEFINE row == [state |-> "active", start |-> request[r].after, highWatermark |-> end]
<1>1. /\ row \in [state : {"none", "active", "expired"}, start : 0..MaxSequence,
                  highWatermark : 0..MaxSequence]
      /\ row.start = request[r].after /\ row.highWatermark = end /\ row.state = "active"
  BY <1>0 DEF Shapes
<1> HIDE DEF row
<1>2. /\ pc[r] = "opening" /\ Fresh(v) /\ UNCHANGED <<log, checkpoints>>
      /\ readViews' = [readViews EXCEPT ![v] = row]
  BY DEF OpenView, row
<1>3. /\ readViews' \in [View -> [state : {"none", "active", "expired"},
                                  start : 0..MaxSequence, highWatermark : 0..MaxSequence]]
      /\ readViews'[v] = row
  BY <1>0, <1>1, <1>2 DEF Shapes
<1>4. \A x \in Reader : \A u \in View : u = request[x].view \/ u = cursor[x].view => Fades(u)
  BY <1>0, <1>2, OpenedIsFresh
<1>5. CASE request[r].after > end
  <2>1. Refuse(r)
    BY <1>5 DEF OpenView
  <2> QED BY <1>0, <1>2, <1>3, <1>4, <2>1, RefusedOK, OwnStep
<1>6. CASE ~ (request[r].after > end)
  <2> DEFINE p == [request[r] EXCEPT !.view = v]
             q == [p EXCEPT !.highWatermark = end]
  <2>1. request \in [Reader -> Requests]
    BY <1>0 DEF Shapes, Requests
  <2>2. /\ p \in Requests /\ p.view = v
        /\ p.after = request[r].after /\ p.cursor = request[r].cursor
    BY <2>1, ViewSet
  <2>3. request' = [request EXCEPT ![r] = q]
    <3>1. request' = [request EXCEPT ![r].view = v, ![r].highWatermark = end]
      BY <1>6 DEF OpenView
    <3> QED BY <2>1, <3>1
  <2> HIDE DEF p
  <2>4. /\ q \in Requests /\ q.view = v /\ q.highWatermark = end
        /\ q.after = request[r].after /\ q.cursor = request[r].cursor
    BY <1>0, <2>2, WatermarkSet
  <2> HIDE DEF q
  <2>5. /\ request' \in [Reader -> Requests] /\ request'[r] = q
        /\ \A x \in Reader \ {r} : request'[x] = request[x]
    BY <2>1, <2>3, <2>4
  <2>6. /\ pc' = [pc EXCEPT ![r] = "viewing"]
        /\ UNCHANGED <<checkpointSeq, cursor, resume, traversal>>
    BY <1>6 DEF OpenView, client
  <2>7. pc'[r] = "viewing"
    BY <1>0, <2>6 DEF Shapes
  <2>8. \A x \in Reader \ {r} : Untouched(x)
    BY <1>0, <2>5, <2>6 DEF Shapes, Untouched
  <2>9. Shapes'
    BY <1>0, <1>2, <1>3, <2>5, <2>6 DEF Shapes, Requests
  <2>10. /\ ~ request[r].cursor /\ cursor[r] = NoCursor
         /\ traversal[r].got = {} /\ ~ traversal[r].pinned
         /\ traversal[r].start = request[r].after /\ traversal[r].position = request[r].after
    BY <1>0, <1>2 DEF ReaderOK, FirstOK, NextOK
  <2>11. request[r].after \in 0..MaxSequence /\ request[r].after =< end
    BY <1>0, <1>6 DEF Shapes
  <2>12. FirstOK(r)'
    BY <1>1, <1>3, <2>4, <2>5, <2>6, <2>7, <2>10, <2>11 DEF FirstOK
  <2>13. CursorOK(r)' /\ NextOK(r)'
    BY <2>4, <2>5, <2>6, <2>10 DEF CursorOK, NextOK
  <2>14. SeenOK(r)'
    BY <1>0, <1>2, <2>6, <2>7 DEF SeenOK, ReaderOK
  <2>15. ResumeOK(r)'
    BY <1>0, <1>2, <2>6 DEF ResumeOK, ReaderOK
  <2>16. ExactOK(r)' /\ AnchoredOK(r)'
    BY <1>0, <2>6 DEF ExactOK, AnchoredOK, ReaderOK
  <2> QED BY <1>2, <1>4, <2>8, <2>9, <2>12, <2>13, <2>14, <2>15, <2>16, OwnStep DEF ReaderOK
<1> QED BY <1>5, <1>6

LEMMA FindViewKeeps ==
  ASSUME ReadersInv, NEW r \in Reader, FindView(r)
  PROVE  ReadersInv'
<1>0. Shapes /\ ReaderOK(r)
  BY DEF ReadersInv, DeviceInv
<1>1. pc[r] = "finding" /\ UNCHANGED <<log, checkpoints, readViews>>
  BY DEF FindView
<1>2. /\ request[r].cursor /\ cursor[r] # NoCursor /\ request[r].view = cursor[r].view
      /\ request[r].after = cursor[r].after /\ request[r].view \in View
      /\ readViews[request[r].view].state # "none" =>
           readViews[request[r].view].highWatermark = traversal[r].highWatermark
  BY <1>0, <1>1 DEF ReaderOK, FirstOK, NextOK, CursorOK
<1>3. CASE readViews[request[r].view].state = "none"
  <2>1. Refuse(r)
    BY <1>3 DEF FindView
  <2>2. Shapes' /\ ReaderOK(r)' /\ \A x \in Reader \ {r} : Untouched(x)
    BY <1>0, <1>1, <2>1, RefusedOK DEF Shapes
  <2> QED BY <1>1, <2>2, QuietStep
<1>4. CASE readViews[request[r].view].state # "none"
  <2> DEFINE hw == readViews[request[r].view].highWatermark
  <2>1. hw \in 0..MaxSequence /\ hw = traversal[r].highWatermark
    BY <1>0, <1>2, <1>4 DEF Shapes
  <2>2. /\ pc' = [pc EXCEPT ![r] = "viewing"]
        /\ request' = [request EXCEPT ![r].highWatermark = hw]
        /\ UNCHANGED <<checkpointSeq, cursor, resume, traversal>>
    BY <1>4 DEF FindView, client
  <2> HIDE DEF hw
  <2>3. /\ request' \in [Reader -> Requests]
        /\ request'[r].view = request[r].view /\ request'[r].after = request[r].after
        /\ request'[r].cursor = request[r].cursor /\ request'[r].highWatermark = hw
        /\ pc'[r] = "viewing"
    <3> DEFINE q == [request[r] EXCEPT !.highWatermark = hw]
    <3>1. request \in [Reader -> Requests]
      BY <1>0 DEF Shapes, Requests
    <3>2. /\ q \in Requests /\ q.view = request[r].view /\ q.highWatermark = hw
          /\ q.after = request[r].after /\ q.cursor = request[r].cursor
      BY <2>1, <3>1, WatermarkSet
    <3>3. request' = [request EXCEPT ![r] = q]
      BY <2>2, <3>1
    <3> HIDE DEF q
    <3>4. request' \in [Reader -> Requests] /\ request'[r] = q
      BY <3>1, <3>2, <3>3
    <3>5. pc'[r] = "viewing"
      BY <1>0, <2>2 DEF Shapes
    <3> QED BY <3>2, <3>4, <3>5
  <2>4. \A x \in Reader \ {r} : Untouched(x)
    BY <1>0, <2>2 DEF Shapes, Untouched
  <2>5. Shapes'
    BY <1>0, <1>1, <2>2, <2>3 DEF Shapes, Requests
  <2>6. CursorOK(r)'
    BY <1>0, <1>1, <2>2 DEF CursorOK, ReaderOK, log
  <2>7. FirstOK(r)' /\ NextOK(r)'
    BY <1>2, <2>1, <2>2, <2>3 DEF FirstOK, NextOK
  <2>8. SeenOK(r)'
    BY <1>0, <1>1, <2>2, <2>3 DEF SeenOK, ReaderOK
  <2>9. ResumeOK(r)'
    BY <1>0, <1>1, <1>2, <2>2 DEF ResumeOK, ReaderOK
  <2>10. ExactOK(r)' /\ AnchoredOK(r)'
    BY <1>0, <2>2 DEF ExactOK, AnchoredOK, ReaderOK
  <2> QED BY <1>1, <2>4, <2>5, <2>6, <2>7, <2>8, <2>9, <2>10, QuietStep DEF ReaderOK
<1> QED BY <1>3, <1>4

LEMMA SelectCheckpointKeeps ==
  ASSUME ReadersInv, NEW r \in Reader, SelectCheckpoint(r)
  PROVE  ReadersInv'
<1>0. Shapes /\ ReaderOK(r) /\ CheckpointsOK /\ floor \in Nat /\ floor \in 0..MaxSequence
  BY LogParts, PageAssumption DEF ReadersInv, DeviceInv
<1>1. /\ pc[r] = "viewing" /\ UNCHANGED <<log, checkpoints, readViews, request, cursor, resume, traversal>>
      /\ pc' = [pc EXCEPT ![r] = "checking"]
      /\ checkpointSeq' = [checkpointSeq EXCEPT ![r] = floor]
  BY <1>0, NewestIsFloor DEF SelectCheckpoint, client
<1>2. pc'[r] = "checking" /\ checkpointSeq'[r] = floor /\ floor' = floor
  BY <1>0, <1>1 DEF Shapes, log
<1>3. \A x \in Reader \ {r} : Untouched(x)
  BY <1>0, <1>1 DEF Shapes, Untouched
<1>4. Shapes'
  BY <1>0, <1>1 DEF Shapes
<1>5. CursorOK(r)'
  BY <1>0, <1>1, <1>2 DEF CursorOK, ReaderOK
<1>6. FirstOK(r)' /\ NextOK(r)'
  BY <1>0, <1>1, <1>2 DEF FirstOK, NextOK, ReaderOK
<1>7. SeenOK(r)'
  <2>1. CASE floor = 0
    BY <1>2, <2>1 DEF SeenOK
  <2>2. CASE floor > 0
    <3>1. PICK c \in checkpoints : c = [sequence |-> floor, digest |-> anchor]
      BY <1>0, <2>2 DEF CheckpointsOK
    <3>2. c.sequence = floor
      BY <3>1
    <3> QED BY <1>1, <1>2, <3>2 DEF SeenOK
  <2> QED BY <1>0, <2>1, <2>2
<1>8. ResumeOK(r)'
  BY <1>0, <1>1 DEF ResumeOK, ReaderOK
<1>9. ExactOK(r)' /\ AnchoredOK(r)'
  BY <1>0, <1>1 DEF ExactOK, AnchoredOK, ReaderOK
<1> QED BY <1>1, <1>3, <1>4, <1>5, <1>6, <1>7, <1>8, <1>9, QuietStep DEF ReaderOK
LEMMA CheckKeeps ==
  ASSUME ReadersInv, NEW r \in Reader, Check(r)
  PROVE  ReadersInv'
<1>0. Shapes /\ ReaderOK(r) /\ floor \in Nat
  BY LogParts DEF ReadersInv, DeviceInv
<1>1. pc[r] = "checking" /\ UNCHANGED <<log, checkpoints, readViews>>
  BY DEF Check
<1>2. request[r].after \in Nat /\ checkpointSeq[r] \in Nat
  BY <1>0, PageAssumption DEF Shapes
<1>3. CASE Refuse(r)
  <2>1. Shapes' /\ ReaderOK(r)' /\ \A x \in Reader \ {r} : Untouched(x)
    BY <1>0, <1>1, <1>3, RefusedOK DEF Shapes
  <2> QED BY <1>1, <2>1, QuietStep
(* The request goes on, to the checkpoint or to the events.                 *)
<1>4. ASSUME NEW to \in {"recovering", "reading"}, pc' = [pc EXCEPT ![r] = to],
             UNCHANGED <<request, checkpointSeq, client>>,
             to = "recovering" => request[r].after < checkpointSeq[r],
             to = "reading" => request[r].after >= checkpointSeq[r]
      PROVE  ReadersInv'
  <2>1. UNCHANGED <<request, checkpointSeq, cursor, resume, traversal, floor>> /\ pc'[r] = to
    BY <1>0, <1>1, <1>4 DEF client, log, Shapes
  <2>2. \A x \in Reader \ {r} : Untouched(x)
    BY <1>0, <1>4, <2>1 DEF Shapes, Untouched
  <2>3. Shapes'
    BY <1>0, <1>1, <1>4, <2>1 DEF Shapes
  <2>4. CursorOK(r)'
    BY <1>0, <1>1, <2>1 DEF CursorOK, ReaderOK
  <2>5. FirstOK(r)'
    BY <1>0, <1>1, <1>2, <1>4, <2>1 DEF FirstOK, ReaderOK
  <2>6. NextOK(r)'
    BY <1>0, <1>1, <1>4, <2>1 DEF NextOK, ReaderOK
  <2>7. SeenOK(r)'
    BY <1>0, <1>1, <1>4, <2>1 DEF SeenOK, ReaderOK
  <2>8. ResumeOK(r)'
    BY <1>0, <1>1, <2>1 DEF ResumeOK, ReaderOK
  <2>9. ExactOK(r)' /\ AnchoredOK(r)'
    BY <1>0, <2>1 DEF ExactOK, AnchoredOK, ReaderOK
  <2> QED BY <1>1, <2>2, <2>3, <2>4, <2>5, <2>6, <2>7, <2>8, <2>9, QuietStep DEF ReaderOK
<1>5. CASE request[r].after < checkpointSeq[r]
  <2>1. pc' = [pc EXCEPT ![r] = "recovering"] /\ UNCHANGED <<request, checkpointSeq, client>>
    BY <1>2, <1>5 DEF Check
  <2> QED BY <1>4, <1>5, <2>1
<1>6. CASE request[r].after >= checkpointSeq[r] /\ ~ Expired(r)
  <2>1. pc' = [pc EXCEPT ![r] = "reading"] /\ UNCHANGED <<request, checkpointSeq, client>>
    BY <1>2, <1>6 DEF Check
  <2> QED BY <1>4, <1>6, <2>1
<1>7. CASE request[r].after >= checkpointSeq[r] /\ Expired(r)
  BY <1>2, <1>3, <1>7 DEF Check
<1> QED BY <1>2, <1>5, <1>6, <1>7

LEMMA RecoverKeeps ==
  ASSUME ReadersInv, NEW r \in Reader, Recover(r)
  PROVE  ReadersInv'
<1>0. Shapes /\ ReaderOK(r) /\ CheckpointsOK
  BY DEF ReadersInv, DeviceInv
<1> DEFINE c == CheckpointPayload(checkpointSeq[r])
           told == [c EXCEPT !.sequence = checkpointSeq[r]]
<1>1. pc[r] = "recovering" /\ UNCHANGED <<log, checkpoints, readViews>>
  BY DEF Recover
<1>2. c \in checkpoints /\ c.sequence = checkpointSeq[r]
  <2>1. request[r].after < checkpointSeq[r]
    BY <1>0, <1>1 DEF ReaderOK, SeenOK
  <2>2. request[r].after \in 0..MaxSequence
    BY <1>0 DEF Shapes
  <2>3. checkpointSeq[r] # 0
    BY <2>1, <2>2, PageAssumption
  <2>4. \E x \in checkpoints : x.sequence = checkpointSeq[r]
    BY <1>0, <2>3 DEF ReaderOK, SeenOK
  <2> QED BY <2>4 DEF CheckpointPayload
<1> HIDE DEF c
<1>3. told = c
  BY <1>0, <1>2 DEF Shapes
<1>4. c \in [sequence : 0..MaxSequence, digest : Digest \cup {ZeroDigest}]
  BY <1>0, <1>2, PageAssumption DEF Shapes
<1>5. /\ pc' = [pc EXCEPT ![r] = "idle"]
      /\ request' = [request EXCEPT ![r] = NoRequest]
      /\ checkpointSeq' = [checkpointSeq EXCEPT ![r] = 0]
      /\ cursor' = [cursor EXCEPT ![r] = NoCursor]
      /\ traversal' = [traversal EXCEPT ![r] = NoTraversal]
      /\ resume' = [resume EXCEPT ![r] = c]
  BY <1>3 DEF Recover, Answer, c
<1>6. /\ pc'[r] = "idle" /\ request'[r] = NoRequest /\ checkpointSeq'[r] = 0
      /\ cursor'[r] = NoCursor /\ resume'[r] = c /\ traversal'[r] = NoTraversal
  BY <1>0, <1>5 DEF Shapes
<1>7. \A x \in Reader \ {r} : Untouched(x)
  BY <1>0, <1>5 DEF Shapes, Untouched
<1>8. Shapes'
  BY <1>0, <1>1, <1>4, <1>5, Defaults DEF Shapes
<1>9. CursorOK(r)' /\ FirstOK(r)' /\ NextOK(r)' /\ SeenOK(r)'
  BY <1>6 DEF CursorOK, FirstOK, NextOK, SeenOK
<1>10. ResumeOK(r)'
  BY <1>1, <1>2, <1>6 DEF ResumeOK
<1>11. ExactOK(r)' /\ AnchoredOK(r)'
  <2>1. NoTraversal.got = {} /\ ~ NoTraversal.pinned
    BY DEF NoTraversal
  <2> QED BY <1>6, <2>1 DEF ExactOK, AnchoredOK, Sequences
<1> QED BY <1>1, <1>7, <1>8, <1>9, <1>10, <1>11, QuietStep DEF ReaderOK
Traversals == [start : 0..MaxSequence, position : 0..MaxSequence,
               highWatermark : 0..MaxSequence, got : SUBSET Digest, pinned : BOOLEAN]

(* What is known when the events of a page are read.                        *)
LEMMA PageBegins ==
  ASSUME ReadersInv, NEW r \in Reader, pc[r] = "reading"
  PROVE  LET q == request[r]
             t == traversal[r]
             row == readViews[q.view]
         IN  /\ q.view \in View
             /\ t.start =< q.after /\ q.after =< q.highWatermark
             /\ Sequences(t.got) \subseteq (t.start + 1)..q.highWatermark
             /\ row.state # "none" => row.start = t.start /\ row.highWatermark = q.highWatermark
             /\ row.state = "active" =>
                  /\ floor =< t.start
                  /\ Sequences(t.got) = (t.start + 1)..q.after
                  /\ t.pinned \/ t.got = {}
<1>0. Shapes /\ ReaderOK(r)
  BY DEF ReadersInv, DeviceInv
<1>1. /\ request[r].after \in Nat /\ traversal[r].start \in Nat /\ traversal[r].position \in Nat
      /\ request[r].highWatermark \in Nat /\ traversal[r].highWatermark \in Nat
  BY <1>0, PageAssumption DEF Shapes
<1>2. CASE request[r].cursor
  BY <1>0, <1>1, <1>2 DEF ReaderOK, NextOK, CursorOK, ExactOK
<1>3. CASE ~ request[r].cursor
  <2>1. traversal[r].got = {} /\ traversal[r].start = request[r].after
    BY <1>0, <1>3 DEF ReaderOK, FirstOK
  <2>2. Sequences(traversal[r].got) = {}
    BY <2>1 DEF Sequences
  <2>3. (traversal[r].start + 1)..request[r].after = {}
    BY <1>1, <2>1
  <2>4. /\ request[r].view \in View /\ request[r].after =< request[r].highWatermark
        /\ readViews[request[r].view].state # "none" =>
             /\ readViews[request[r].view].start = request[r].after
             /\ readViews[request[r].view].highWatermark = request[r].highWatermark
        /\ readViews[request[r].view].state = "active" => floor =< request[r].after
    BY <1>0, <1>3 DEF ReaderOK, FirstOK
  <2> DEFINE q == request[r]
             t == traversal[r]
             row == readViews[q.view]
  <2>5. Sequences(t.got) \subseteq (t.start + 1)..q.highWatermark
    BY <2>2
  <2>6. q.view \in View /\ t.start =< q.after /\ q.after =< q.highWatermark
    BY <1>1, <2>1, <2>4
  <2>7. row.state # "none" => row.start = t.start /\ row.highWatermark = q.highWatermark
    BY <2>1, <2>4
  <2>8. row.state = "active" =>
          floor =< t.start /\ Sequences(t.got) = (t.start + 1)..q.after /\ t.got = {}
    BY <2>1, <2>2, <2>3, <2>4
  <2> QED BY <2>5, <2>6, <2>7, <2>8
<1> QED BY <1>2, <1>3

LEMMA ReadEventsKeeps ==
  ASSUME ReadersInv, NEW r \in Reader, ReadEvents(r)
  PROVE  ReadersInv'
<1>0. /\ Shapes /\ ReaderOK(r) /\ CheckpointsOK /\ Facts!LogInv /\ floor \in Nat
      /\ MaxSequence \in Nat
  BY LogParts, PageAssumption DEF ReadersInv, DeviceInv
<1> DEFINE q == request[r]
           t == traversal[r]
           row == readViews[q.view]
           ds == Page(q.after, q.highWatermark)
           last == Max({q.after} \cup Sequences(ds))
           b == row.state = "active"
           u == [start |-> t.start, position |-> last, highWatermark |-> q.highWatermark,
                 got |-> t.got \cup ds, pinned |-> b]
           k == NextCursor(r, last)
<1>1. /\ pc[r] = "reading" /\ UNCHANGED <<log, checkpoints, readViews, resume>>
      /\ pc' = [pc EXCEPT ![r] = "idle"]
      /\ request' = [request EXCEPT ![r] = NoRequest]
      /\ checkpointSeq' = [checkpointSeq EXCEPT ![r] = 0]
      /\ cursor' = [cursor EXCEPT ![r] = k]
      /\ traversal' = [traversal EXCEPT ![r] = u]
  <2>1. /\ pc[r] = "reading" /\ UNCHANGED <<log, checkpoints, readViews, resume>>
        /\ Answer(r) /\ cursor' = [cursor EXCEPT ![r] = k]
    BY DEF ReadEvents, Sequences
  <2>2. traversal' = [traversal EXCEPT ![r] = u]
    BY DEF ReadEvents, Sequences
  <2> QED BY <2>1, <2>2 DEF Answer
<1>2. /\ q.view \in View
      /\ t.start =< q.after /\ q.after =< q.highWatermark
      /\ Sequences(t.got) \subseteq (t.start + 1)..q.highWatermark
      /\ row.state # "none" => row.start = t.start /\ row.highWatermark = q.highWatermark
      /\ row.state = "active" =>
           /\ floor =< t.start
           /\ Sequences(t.got) = (t.start + 1)..q.after
           /\ t.pinned \/ t.got = {}
  BY <1>1, PageBegins
<1>3. /\ q.after \in 0..MaxSequence /\ q.highWatermark \in 0..MaxSequence
      /\ t.start \in 0..MaxSequence /\ t \in Traversals /\ q \in Requests
  BY <1>0 DEF Shapes, Traversals, Requests
<1>4. /\ last \in Nat /\ q.after =< last /\ last =< q.highWatermark
      /\ Sequences(ds) \subseteq (q.after + 1)..last
      /\ floor =< q.after => Sequences(ds) = (q.after + 1)..last
  <2>1. q.after \in Nat /\ q.highWatermark \in Nat /\ q.after =< q.highWatermark
    BY <1>0, <1>2, <1>3
  <2> HIDE DEF q
  <2> QED BY <1>0, <2>1, PageEnds
<1>5. ds \in SUBSET Digest /\ \A d \in ds : d \in retained
  BY <1>0, <1>3, PageRows
<1> HIDE DEF row, ds, last
<1>6. b \in BOOLEAN
  OBVIOUS
<1> HIDE DEF b
<1>7. /\ u \in Traversals
      /\ u.start = t.start /\ u.position = last /\ u.highWatermark = q.highWatermark
      /\ u.got = t.got \cup ds /\ u.pinned = b
  <2>1. last \in 0..MaxSequence
    BY <1>0, <1>3, <1>4
  <2>2. t.start \in 0..MaxSequence /\ t.got \cup ds \in SUBSET Digest
    BY <1>3, <1>5 DEF Traversals
  <2> HIDE DEF t, q
  <2>3. u \in Traversals
    BY <1>3, <1>6, <2>1, <2>2 DEF Traversals
  <2> QED BY <2>3
<1>8. b <=> row.state = "active"
  BY DEF b
<1> HIDE DEF u
<1>9. /\ k \in [view : View \cup {Null}, after : 0..MaxSequence]
      /\ last < q.highWatermark => k.view = q.view /\ k.after = last /\ k # NoCursor
      /\ ~ (last < q.highWatermark) => k = NoCursor
  BY <1>0, <1>2, <1>3, <1>4, Defaults, PageAssumption DEF NextCursor, NoCursor
<1> HIDE DEF k
<1>10. /\ pc'[r] = "idle" /\ request'[r] = NoRequest /\ checkpointSeq'[r] = 0
       /\ cursor'[r] = k /\ resume'[r] = resume[r] /\ traversal'[r] = u
       /\ readViews' = readViews /\ floor' = floor /\ checkpoints' = checkpoints
  BY <1>0, <1>1 DEF Shapes, log
<1>11. \A x \in Reader \ {r} : Untouched(x)
  BY <1>0, <1>1 DEF Shapes, Untouched
<1>12. Shapes'
  BY <1>0, <1>1, <1>7, <1>9, Defaults DEF Shapes, Traversals
<1>13. Sequences(u.got) = Sequences(t.got) \cup Sequences(ds)
  BY <1>7 DEF Sequences
<1>14. CursorOK(r)'
  BY <1>2, <1>3, <1>4, <1>7, <1>8, <1>9, <1>10 DEF CursorOK, row
<1>15. FirstOK(r)' /\ NextOK(r)' /\ SeenOK(r)'
  BY <1>10 DEF FirstOK, NextOK, SeenOK
<1>16. ExactOK(r)'
  <2>0. /\ t.start \in Nat /\ q.after \in Nat /\ q.highWatermark \in Nat /\ last \in Nat
        /\ t.start =< q.after /\ q.after =< last /\ last =< q.highWatermark
    BY <1>0, <1>2, <1>3, <1>4
  <2>1. Sequences(u.got) \subseteq (u.start + 1)..u.highWatermark
    <3> HIDE DEF t, q
    <3>1. (q.after + 1)..last \subseteq (t.start + 1)..q.highWatermark
      BY <2>0
    <3> QED BY <1>2, <1>4, <1>7, <1>13, <3>1
  <2>2. ASSUME u.pinned PROVE Sequences(u.got) = (u.start + 1)..u.position
    <3>1. row.state = "active"
      BY <1>7, <1>8, <2>2
    <3> HIDE DEF t, q
    <3>2. Sequences(t.got) = (t.start + 1)..q.after /\ Sequences(ds) = (q.after + 1)..last
      BY <1>0, <1>2, <1>4, <2>0, <3>1
    <3>3. ((t.start + 1)..q.after) \cup ((q.after + 1)..last) = (t.start + 1)..last
      BY <2>0
    <3> QED BY <1>7, <1>13, <3>2, <3>3
  <2>3. k = NoCursor => u.position = u.highWatermark
    BY <1>7, <1>9, <2>0
  <2> QED BY <1>10, <2>1, <2>2, <2>3 DEF ExactOK
<1>17. resume[r] # NoCheckpoint => resume[r] \in checkpoints /\ t.start = resume[r].sequence
  BY <1>0, <1>1 DEF ReaderOK, ResumeOK
<1>18. ResumeOK(r)'
  BY <1>7, <1>10, <1>17 DEF ResumeOK
<1>19. AnchoredOK(r)'
  <2> SUFFICES ASSUME resume[r] # NoCheckpoint, u.pinned, NEW d \in u.got, SeqOf(d) = u.start + 1
               PROVE  Fields[d].prevDigest = resume[r].digest
    BY <1>10 DEF AnchoredOK
  <2>1. row.state = "active" /\ floor =< t.start /\ SeqOf(d) = t.start + 1
    BY <1>2, <1>7, <1>8
  <2>2. CASE d \in t.got
    <3>1. t.pinned
      BY <1>2, <2>1, <2>2
    <3> QED BY <1>0, <2>1, <2>2, <3>1 DEF ReaderOK, AnchoredOK
  <2>3. CASE d \in ds
    <3>1. resume[r] \in checkpoints /\ resume[r].sequence = t.start
      BY <1>17
    <3>2. t.start \in 1..floor
      BY <1>0, <3>1 DEF CheckpointsOK
    <3>3. t.start = floor /\ floor > 0
      BY <1>0, <2>1, <3>2
    <3>4. PICK c \in checkpoints : c = [sequence |-> floor, digest |-> anchor]
      BY <1>0, <3>3 DEF CheckpointsOK
    <3>5. resume[r] = c
      BY <1>0, <3>1, <3>3, <3>4 DEF CheckpointsOK
    <3>6. resume[r].digest = anchor
      BY <3>4, <3>5
    <3>7. d \in retained /\ SeqOf(d) = floor + 1
      BY <1>5, <2>1, <2>3, <3>3
    <3> QED BY <1>0, <3>6, <3>7, LogParts
  <2> QED BY <1>7, <2>2, <2>3
<1> QED BY <1>1, <1>11, <1>12, <1>14, <1>15, <1>16, <1>18, <1>19, QuietStep DEF ReaderOK

-----------------------------------------------------------------------------
(* The theorems.                                                           *)

(* The invariant is what PageInv says: the places of the requests of TypeOK *)
(* follow from what is known of each reader.                                *)
LEMMA TypeParts ==
  PageInv <=> ReadersInv
<1>1. ASSUME Shapes, \A r \in Reader : ReaderOK(r) PROVE TypeOK
  <2>1. ASSUME NEW r \in Reader, pc[r] \in {"viewing", "checking", "recovering", "reading"}
        PROVE  request[r].view \in View /\ request[r].after =< request[r].highWatermark
    BY <1>1, <2>1 DEF Shapes, ReaderOK, FirstOK, NextOK, CursorOK
  <2>2. \A r \in Reader : \/ checkpointSeq[r] = 0
                          \/ \E c \in checkpoints : c.sequence = checkpointSeq[r]
    BY <1>1 DEF ReaderOK, SeenOK
  <2> QED BY <1>1, <2>1, <2>2 DEF TypeOK, Shapes
<1>2. TypeOK => Shapes
  BY DEF TypeOK, Shapes
<1> QED BY <1>1, <1>2 DEF PageInv, ReadersInv, DeviceInv

LEMMA PageInit == Init => ReadersInv
<1> SUFFICES ASSUME Init PROVE ReadersInv
  OBVIOUS
<1> USE DEF Init
<1>1. Facts!LogInv
  <2>1. Facts!Init
    BY DEF Pinned!Init, Pinned!Log!Init, Facts!Init
  <2> QED BY <2>1, Facts!InitLog
<1>2. end = 0 /\ floor = 0
  BY DEF Pinned!Init, Pinned!Log!Init
<1>3. Shapes
  <2>1. NoView \in [state : {"none", "active", "expired"},
                    start : 0..MaxSequence, highWatermark : 0..MaxSequence]
    BY Defaults DEF NoView
  <2> QED BY <2>1, Defaults DEF Shapes, Pinned!Init
<1>4. CheckpointsOK
  BY <1>2 DEF CheckpointsOK, Pinned!Init
<1>5. ASSUME NEW r \in Reader PROVE ReaderOK(r)
  <2>1. /\ pc[r] = "idle" /\ cursor[r] = NoCursor /\ checkpointSeq[r] = 0
        /\ resume[r] = NoCheckpoint /\ traversal[r] = NoTraversal
    OBVIOUS
  <2>2. CursorOK(r) /\ FirstOK(r) /\ NextOK(r) /\ SeenOK(r) /\ ResumeOK(r)
    BY <2>1 DEF CursorOK, FirstOK, NextOK, SeenOK, ResumeOK
  <2>3. NoTraversal.got = {} /\ ~ NoTraversal.pinned
    BY DEF NoTraversal
  <2>4. ExactOK(r) /\ AnchoredOK(r)
    BY <2>1, <2>3 DEF ExactOK, AnchoredOK, Sequences
  <2> QED BY <2>2, <2>4 DEF ReaderOK
<1> QED BY <1>1, <1>2, <1>3, <1>4, <1>5, PageAssumption DEF ReadersInv, DeviceInv

LEMMA PageNext == ReadersInv /\ [Next]_vars => ReadersInv'
<1> SUFFICES ASSUME ReadersInv, [Next]_vars PROVE ReadersInv'
  OBVIOUS
<1>1. CASE Promote
  BY <1>1, PromoteKeeps DEF ReadersInv
<1>2. ASSUME NEW c \in (floor + 1)..end, Compact(c) PROVE ReadersInv'
  BY <1>2, CompactKeeps DEF ReadersInv
<1>3. CASE PurgeViews \/ \E v \in View : ExpireView(v)
  BY <1>3, ExpiryKeeps DEF ReadersInv
<1>4. ASSUME NEW r \in Reader, NEW a \in 0..MaxSequence, AskFirst(r, a) PROVE ReadersInv'
  BY <1>4, AskFirstKeeps
<1>5. ASSUME NEW r \in Reader, AskNext(r) PROVE ReadersInv'
  BY <1>5, AskNextKeeps
<1>6. ASSUME NEW r \in Reader, Query(r) PROVE ReadersInv'
  BY <1>6, OpenViewKeeps, FindViewKeeps, SelectCheckpointKeeps, CheckKeeps, RecoverKeeps,
     ReadEventsKeeps DEF Query
<1>7. CASE UNCHANGED vars
  <2>1. UNCHANGED <<log, checkpoints, readViews, server, client>>
    BY <1>7 DEF vars
  <2>2. Facts!LogInv' /\ UNCHANGED <<end, floor, anchor>>
    BY <2>1, StutterKeepsLog DEF ReadersInv, DeviceInv
  <2>3. DeviceInv'
    BY <2>1, <2>2 DEF ReadersInv, DeviceInv, Shapes, CheckpointsOK, server, client
  <2>4. \A v : Fades(v)
    BY <2>1, <2>2, SameRowsFade
  <2> QED BY <2>1, <2>3, <2>4, DeviceKeepsReaders DEF ReadersInv, DeviceInv
<1> QED BY <1>1, <1>2, <1>3, <1>4, <1>5, <1>6, <1>7 DEF Next

(* The inductive invariant: what a page is depends on the row of the view,  *)
(* the cut and the checkpoint, each of which may have moved since the       *)
(* request looked at it.                                                    *)
THEOREM PageInvariant == Spec => []PageInv
<1>1. Spec => []ReadersInv
  BY PageInit, PageNext, PTL DEF Spec
<1>2. ReadersInv => PageInv
  BY TypeParts
<1> QED BY <1>1, <1>2, PTL

(* A request that has a view reads inside it, and the checkpoint it was     *)
(* compared with is a row that is there to be returned (reads.mjs:120-141). *)
THEOREM RequestsInsideViews == Spec => []TypeOK
<1>1. PageInv => TypeOK
  BY DEF PageInv
<1> QED BY <1>1, PageInvariant, PTL

(* The pages of an unexpired view are exactly the events from where the     *)
(* client began, and nothing later mixes into any view                      *)
(* (reads.mjs:4-9, compaction.mjs:86-97).                                   *)
THEOREM PagesAreExact == Spec => []ViewIsExact
<1>1. PageInv => ViewIsExact
  BY DEF PageInv, ReaderOK, ExactOK, ViewIsExact
<1> QED BY <1>1, PageInvariant, PTL

(* What a client reads after a 410 is linked to the checkpoint it was given *)
(* (reads.mjs:133-141).                                                     *)
THEOREM ResumptionsAreAnchored == Spec => []ResumeIsAnchored
<1>1. PageInv => ResumeIsAnchored
  BY DEF PageInv, ReaderOK, AnchoredOK, ResumeIsAnchored
<1> QED BY <1>1, PageInvariant, PTL

-----------------------------------------------------------------------------
(* Seen from the device, the clients pin and unpin, and nothing else.       *)

LEMMA NothingPinned ==
  ASSUME UNCHANGED <<log, checkpoints, readViews>>
  PROVE  UNCHANGED Pinned!vars
BY DEF log, Pins, Pinned!vars, Pinned!log

LEMMA PinnedInit == Init => Pinned!Init
BY DEF Init, NoView, Pins, Pinned!Init

(* The view of a request is opened at the position it asks for.             *)
LEMMA OpenViewPins ==
  ASSUME Shapes, NEW r \in Reader, NEW v \in View, OpenView(r, v)
  PROVE  Pinned!Next
<1>1. /\ readViews' = [readViews EXCEPT ![v] =
           [state |-> "active", start |-> request[r].after, highWatermark |-> end]]
      /\ UNCHANGED <<log, checkpoints>>
      /\ readViews[v].state = "none"
  BY DEF OpenView, Fresh
<1>2. request[r].after \in 0..MaxSequence
  BY DEF Shapes
<1>3. Pins[v] = Null
  BY <1>1 DEF Pins
<1>4. Pins' = [Pins EXCEPT ![v] = request[r].after]
  BY <1>1 DEF Pins, Shapes
<1>5. Pinned!Pin(v, request[r].after)
  BY <1>1, <1>3, <1>4 DEF log, Pinned!Pin, Pinned!log
<1> QED BY <1>2, <1>5 DEF Pinned!Next

LEMMA PinnedNext == ReadersInv /\ [Next]_vars => [Pinned!Next]_Pinned!vars
<1> SUFFICES ASSUME ReadersInv, [Next]_vars PROVE [Pinned!Next]_Pinned!vars
  OBVIOUS
<1>0. Shapes
  BY DEF ReadersInv, DeviceInv
<1>1. CASE Promote
  BY <1>1 DEF Promote, Pinned!Next
<1>2. ASSUME NEW c \in (floor + 1)..end, Compact(c) PROVE Pinned!Next
  BY <1>2 DEF Compact, Pinned!Next
<1>3. ASSUME NEW v \in View, ExpireView(v) PROVE Pinned!Next
  <2>1. Pins' = [Pins EXCEPT ![v] = Null]
    BY <1>0, <1>3 DEF ExpireView, Pins, Shapes
  <2>2. Pinned!Unpin(v)
    BY <1>3, <2>1 DEF ExpireView, log, Pinned!Unpin, Pinned!log
  <2> QED BY <2>2 DEF Pinned!Next
<1>4. CASE PurgeViews
  <2>1. Pins' = Pins
    <3>1. \A v \in View : Pins'[v] = Pins[v]
      BY <1>4 DEF PurgeViews, NoView, Pins
    <3> QED BY <3>1 DEF Pins
  <2> QED BY <1>4, <2>1 DEF PurgeViews, log, Pinned!vars, Pinned!log
<1>5. ASSUME NEW r \in Reader, Query(r) PROVE [Pinned!Next]_Pinned!vars
  <2>1. ASSUME NEW v \in View, OpenView(r, v) PROVE Pinned!Next
    BY <1>0, <2>1, OpenViewPins
  <2>2. CASE \/ FindView(r) \/ SelectCheckpoint(r) \/ Check(r) \/ Recover(r) \/ ReadEvents(r)
    BY <2>2, NothingPinned DEF FindView, SelectCheckpoint, Check, Recover, ReadEvents
  <2> QED BY <1>5, <2>1, <2>2 DEF Query
<1>6. ASSUME NEW r \in Reader, (\E a \in 0..MaxSequence : AskFirst(r, a)) \/ AskNext(r)
      PROVE  UNCHANGED Pinned!vars
  BY <1>6, NothingPinned DEF AskFirst, AskNext
<1>7. CASE UNCHANGED vars
  BY <1>7, NothingPinned DEF vars
<1> QED BY <1>1, <1>2, <1>3, <1>4, <1>5, <1>6, <1>7 DEF Next

(* Whatever the clients ask for, in whatever order their queries run, the   *)
(* device sees a PinnedLog: reading opens views and does nothing else to    *)
(* the events and the checkpoints (reads.mjs:67-144).  It is the interface  *)
(* that DeviceLedger implements on the other side.                          *)
THEOREM ReadingOnlyPins == Spec => Pinned!Spec
<1>1. Spec => []ReadersInv
  BY PageInit, PageNext, PTL DEF Spec
<1> QED BY <1>1, PinnedInit, PinnedNext, PTL DEF Spec, Pinned!Spec

=============================================================================
