----------------------------- MODULE PageReader -----------------------------
(***************************************************************************)
(* readPage: clients that page through fixed views of one device while it  *)
(* advances, is compacted, and their views expire and are purged.  Opening *)
(* a view is one transaction; the other queries of a page run outside any, *)
(* so one step is one query or one turn of the event loop.  The events and *)
(* the checkpoints are a PinnedLog, which DeviceLedger implements.         *)
(***************************************************************************)
EXTENDS Integers, FiniteSetsExt

CONSTANTS
  Digest, Fields, ZeroDigest, MaxSequence, View, Null,   \* of PinnedLog
  Reader,     \* clients, each with one request at a time
  PageSize    \* min(limit, maxPageSize)

ASSUME PageAssumption ==
  /\ PageSize \in Nat \ {0}
  /\ MaxSequence \in Nat
  /\ Null \notin View \cup 0..MaxSequence

VARIABLES
  end, floor, anchor, retained,   \* of AuditLog
  checkpoints,  \* checkpoints rows: sequence and digest
  readViews,    \* read_views rows
  pc,           \* where the request of each client is
  request,      \* its view, position, and whether it came with a cursor
  checkpointSeq,\* the newest checkpoint a request has read
  cursor,       \* the nextCursor a client holds
  resume,       \* the checkpoint a client was told to resume from
  traversal     \* history: where a client began, what it was given, and whether
                \* its view was unexpired at its last page

(* Where the readers of unexpired views began.                              *)
Pins == [v \in View |-> IF readViews[v].state = "active" THEN readViews[v].start ELSE Null]

Pinned == INSTANCE PinnedLog WITH pins <- Pins

log == <<end, floor, anchor, retained>>
server == <<pc, request, checkpointSeq>>
client == <<cursor, resume, traversal>>
vars == <<log, checkpoints, readViews, server, client>>

SeqOf(d) == Fields[d].sequence

NoView == [state |-> "none", start |-> 0, highWatermark |-> 0]
NoRequest == [view |-> Null, highWatermark |-> 0, after |-> 0, cursor |-> FALSE]
NoCursor == [view |-> Null, after |-> 0]
NoCheckpoint == [sequence |-> 0, digest |-> ZeroDigest]
NoTraversal == [start |-> 0, position |-> 0, highWatermark |-> 0, got |-> {}, pinned |-> FALSE]

Init ==
  /\ readViews = [v \in View |-> NoView]
  /\ Pinned!Init
  /\ pc = [r \in Reader |-> "idle"]
  /\ request = [r \in Reader |-> NoRequest]
  /\ checkpointSeq = [r \in Reader |-> 0]
  /\ cursor = [r \in Reader |-> NoCursor]
  /\ resume = [r \in Reader |-> NoCheckpoint]
  /\ traversal = [r \in Reader |-> NoTraversal]

-----------------------------------------------------------------------------
(* The device.                                                             *)

Promote ==
  /\ UNCHANGED <<readViews, server, client>>
  /\ Pinned!Extend

Compact(c) ==
  /\ UNCHANGED <<readViews, server, client>>
  /\ Pinned!Truncate(c)

ExpireView(v) ==
  /\ readViews[v].state = "active"
  /\ readViews' = [readViews EXCEPT ![v].state = "expired"]
  /\ UNCHANGED <<log, checkpoints, server, client>>

(* compactionPass deletes the expired rows.                                 *)
PurgeViews ==
  /\ \E v \in View : readViews[v].state = "expired"
  /\ readViews' = [v \in View |->
       IF readViews[v].state = "expired" THEN NoView ELSE readViews[v]]
  /\ UNCHANGED <<log, checkpoints, server, client>>

-----------------------------------------------------------------------------
(* The client.                                                             *)

(* A first page: from any position, or from where a 410 told it to resume.  *)
AskFirst(r, after) ==
  /\ pc[r] = "idle"
  /\ cursor[r] = NoCursor
  /\ resume' = [resume EXCEPT ![r] =
       IF @ # NoCheckpoint /\ after = @.sequence THEN @ ELSE NoCheckpoint]
  /\ pc' = [pc EXCEPT ![r] = "opening"]
  /\ request' = [request EXCEPT ![r] = [NoRequest EXCEPT !.after = after]]
  /\ traversal' = [traversal EXCEPT ![r] = [NoTraversal EXCEPT !.start = after, !.position = after]]
  /\ UNCHANGED <<log, checkpoints, readViews, checkpointSeq, cursor>>

(* A page with the cursor of the one before.  verifyCursor gives back the   *)
(* view, the device and the position that were signed.                      *)
AskNext(r) ==
  /\ pc[r] = "idle"
  /\ cursor[r] # NoCursor
  /\ pc' = [pc EXCEPT ![r] = "finding"]
  /\ request' = [request EXCEPT ![r] =
       [view |-> cursor[r].view, highWatermark |-> 0, after |-> cursor[r].after, cursor |-> TRUE]]
  /\ UNCHANGED <<log, checkpoints, readViews, checkpointSeq, client>>

-----------------------------------------------------------------------------
(* readPage.                                                               *)

(* The request of r ends.                                                   *)
Answer(r) ==
  /\ pc' = [pc EXCEPT ![r] = "idle"]
  /\ request' = [request EXCEPT ![r] = NoRequest]
  /\ checkpointSeq' = [checkpointSeq EXCEPT ![r] = 0]

(* It ends without a page: 400, or 410 without a checkpoint.                *)
Refuse(r) ==
  /\ Answer(r)
  /\ cursor' = [cursor EXCEPT ![r] = NoCursor]
  /\ resume' = [resume EXCEPT ![r] = NoCheckpoint]
  /\ traversal' = [traversal EXCEPT ![r] = NoTraversal]

(* randomUUID() is an id that no row, request or cursor names.              *)
Fresh(v) ==
  /\ readViews[v].state = "none"
  /\ \A r \in Reader : request[r].view # v /\ cursor[r].view # v

(* The transaction of a first page.  A position above the watermark is      *)
(* refused after the view was committed.                                    *)
OpenView(r, v) ==
  /\ pc[r] = "opening"
  /\ Fresh(v)
  /\ readViews' = [readViews EXCEPT ![v] =
       [state |-> "active", start |-> request[r].after, highWatermark |-> end]]
  /\ IF request[r].after > end THEN Refuse(r)
       ELSE /\ pc' = [pc EXCEPT ![r] = "viewing"]
            /\ request' = [request EXCEPT ![r].view = v, ![r].highWatermark = end]
            /\ UNCHANGED <<checkpointSeq, client>>
  /\ UNCHANGED <<log, checkpoints>>

FindView(r) ==
  LET row == readViews[request[r].view]
  IN  /\ pc[r] = "finding"
      /\ IF row.state = "none" THEN Refuse(r)
           ELSE /\ pc' = [pc EXCEPT ![r] = "viewing"]
                /\ request' = [request EXCEPT ![r].highWatermark = row.highWatermark]
                /\ UNCHANGED <<checkpointSeq, client>>
      /\ UNCHANGED <<log, checkpoints, readViews>>

SelectCheckpoint(r) ==
  /\ pc[r] = "viewing"
  /\ pc' = [pc EXCEPT ![r] = "checking"]
  /\ checkpointSeq' = [checkpointSeq EXCEPT ![r] = Max({0} \cup {c.sequence : c \in checkpoints})]
  /\ UNCHANGED <<log, checkpoints, readViews, request, client>>

Expired(r) == request[r].cursor /\ readViews[request[r].view].state # "active"

(* The position is compared with the checkpoint, and expires_at with the    *)
(* clock; neither is looked at again.                                       *)
Check(r) ==
  /\ pc[r] = "checking"
  /\ \/ /\ request[r].after < checkpointSeq[r]
        /\ pc' = [pc EXCEPT ![r] = "recovering"]
        /\ UNCHANGED <<request, checkpointSeq, client>>
     \/ /\ request[r].after >= checkpointSeq[r]
        /\ Expired(r)
        /\ Refuse(r)
     \/ /\ request[r].after >= checkpointSeq[r]
        /\ ~ Expired(r)
        /\ pc' = [pc EXCEPT ![r] = "reading"]
        /\ UNCHANGED <<request, checkpointSeq, client>>
  /\ UNCHANGED <<log, checkpoints, readViews>>

(* Mutant of CheckpointPayload: the row is not looked up by its sequence.   *)
FirstPayload(seq) ==
  CHOOSE c \in checkpoints : \A b \in checkpoints : b.sequence >= c.sequence

(* getCheckpointPayload.                                                    *)
CheckpointPayload(seq) == CHOOSE c \in checkpoints : c.sequence = seq

(* 410 with the checkpoint and resumeFromSequence.                          *)
Recover(r) ==
  /\ pc[r] = "recovering"
  /\ Answer(r)
  /\ resume' = [resume EXCEPT ![r] =
       [CheckpointPayload(checkpointSeq[r]) EXCEPT !.sequence = checkpointSeq[r]]]
  /\ cursor' = [cursor EXCEPT ![r] = NoCursor]
  /\ traversal' = [traversal EXCEPT ![r] = NoTraversal]
  /\ UNCHANGED <<log, checkpoints, readViews>>

(* Mutant of Page: the watermark of the view does not bound the query.      *)
PageUnbounded(after, upTo) ==
  LET rows == {d \in retained : SeqOf(d) > after}
  IN  {d \in rows : Cardinality({e \in rows : SeqOf(e) < SeqOf(d)}) < PageSize}

(* The visible rows of the view after a position, ORDER BY sequence LIMIT.  *)
Page(after, upTo) ==
  LET rows == {d \in retained : after < SeqOf(d) /\ SeqOf(d) =< upTo}
  IN  {d \in rows : Cardinality({e \in rows : SeqOf(e) < SeqOf(d)}) < PageSize}

(* Mutant of NextCursor: the last page has a cursor too.                    *)
NextCursorAlways(r, last) == [view |-> request[r].view, after |-> last]

NextCursor(r, last) ==
  IF last < request[r].highWatermark THEN [view |-> request[r].view, after |-> last] ELSE NoCursor

ReadEvents(r) ==
  LET events == Page(request[r].after, request[r].highWatermark)
      last == Max({request[r].after} \cup {SeqOf(d) : d \in events})
  IN  /\ pc[r] = "reading"
      /\ Answer(r)
      /\ cursor' = [cursor EXCEPT ![r] = NextCursor(r, last)]
      /\ traversal' = [traversal EXCEPT ![r] =
           [start |-> traversal[r].start, position |-> last,
            highWatermark |-> request[r].highWatermark,
            got |-> traversal[r].got \cup events,
            pinned |-> readViews[request[r].view].state = "active"]]
      /\ UNCHANGED <<log, checkpoints, readViews, resume>>

Query(r) ==
  \/ \E v \in View : OpenView(r, v)
  \/ FindView(r) \/ SelectCheckpoint(r) \/ Check(r) \/ Recover(r) \/ ReadEvents(r)

Next ==
  \/ Promote
  \/ \E c \in (floor + 1)..end : Compact(c)
  \/ \E v \in View : ExpireView(v)
  \/ PurgeViews
  \/ \E r \in Reader : (\E a \in 0..MaxSequence : AskFirst(r, a)) \/ AskNext(r) \/ Query(r)

Spec == Init /\ [][Next]_vars

(* Queries are executed and a client that holds a cursor goes on.  Nothing  *)
(* is assumed of the clock: a view may stay unexpired for ever.             *)
FairSpec == Spec /\ \A r \in Reader : WF_vars(Query(r)) /\ WF_vars(AskNext(r))

-----------------------------------------------------------------------------
(* Properties.                                                             *)

Sequences(ds) == {SeqOf(d) : d \in ds}

(* A request names a view, and its position lies inside it; a checkpoint    *)
(* row is there for every sequence a request has read.                      *)
TypeOK ==
  /\ checkpoints \subseteq [sequence : 1..MaxSequence, digest : Digest]
  /\ readViews \in [View -> [state : {"none", "active", "expired"},
                             start : 0..MaxSequence, highWatermark : 0..MaxSequence]]
  /\ pc \in [Reader -> {"idle", "opening", "finding", "viewing", "checking",
                        "recovering", "reading"}]
  /\ request \in [Reader -> [view : View \cup {Null}, highWatermark : 0..MaxSequence,
                             after : 0..MaxSequence, cursor : BOOLEAN]]
  /\ checkpointSeq \in [Reader -> 0..MaxSequence]
  /\ cursor \in [Reader -> [view : View \cup {Null}, after : 0..MaxSequence]]
  /\ resume \in [Reader -> [sequence : 0..MaxSequence, digest : Digest \cup {ZeroDigest}]]
  /\ traversal \in [Reader -> [start : 0..MaxSequence, position : 0..MaxSequence,
                               highWatermark : 0..MaxSequence, got : SUBSET Digest,
                               pinned : BOOLEAN]]
  /\ \A r \in Reader :
       /\ pc[r] \in {"viewing", "checking", "recovering", "reading"} =>
            request[r].view \in View /\ request[r].after =< request[r].highWatermark
       /\ \/ checkpointSeq[r] = 0
          \/ \E c \in checkpoints : c.sequence = checkpointSeq[r]

(* However the log moves between the queries of its pages, a client whose   *)
(* view was unexpired at its last page holds exactly the events from its    *)
(* start to its position, and at the last page to the watermark of the      *)
(* view; later events never mix in, not even after the expiry               *)
(* (reads.mjs:4-9, compaction.mjs:86-97).                                   *)
ViewIsExact ==
  \A r \in Reader :
    LET t == traversal[r] IN
    /\ Sequences(t.got) \subseteq (t.start + 1)..t.highWatermark
    /\ t.pinned =>
         /\ Sequences(t.got) = (t.start + 1)..t.position
         /\ cursor[r] = NoCursor => t.position = t.highWatermark

(* The first event after the position a 410 names is linked to the          *)
(* checkpoint of the same answer (reads.mjs:133-141).                       *)
ResumeIsAnchored ==
  \A r \in Reader :
    LET t == traversal[r] IN
    resume[r] # NoCheckpoint /\ t.pinned =>
      \A d \in t.got : SeqOf(d) = t.start + 1 => Fields[d].prevDigest = resume[r].digest

(* A client that follows its cursors comes to the end of the view or to a   *)
(* refusal, also when a compaction empties a page under it                  *)
(* (reads.mjs:164-177).                                                     *)
PagingEnds ==
  \A r \in Reader :
    cursor[r] # NoCursor ~> pc[r] = "idle" /\ cursor[r] = NoCursor

=============================================================================
