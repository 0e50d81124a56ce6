----------------------------- MODULE WaitNotify -----------------------------
(***************************************************************************)
(* waitForEvents: long-poll waiters of one API instance, each holding a    *)
(* pooled connection that LISTENs, between the commits that advance the    *)
(* device and the notifications they queue.  One step is one statement or  *)
(* one turn of the event loop.  The events of the device are an AuditLog,  *)
(* which is all a reader sees of DeviceLedger; uploads through this        *)
(* instance need a connection of the same pool, the others need none.      *)
(***************************************************************************)
EXTENDS Integers, Sequences, FiniteSetsExt

CONSTANTS
  Digest, Fields, ZeroDigest, MaxSequence,   \* of AuditLog
  Waiter,      \* clients that wait for events, one request after the other
  Uploader,    \* clients that upload through the same instance
  PageSize,    \* the limit of a wait
  PoolSize,    \* cfg.db.poolSize
  MaxQueued    \* bound on the queued notifications of other devices

ASSUME WaitAssumption ==
  /\ Waiter \cap Uploader = {}
  /\ PageSize \in Nat \ {0}
  /\ PoolSize \in Nat \ {0}
  /\ MaxSequence \in Nat

Call == Waiter \cup Uploader

VARIABLES
  end, floor, anchor, retained,   \* of AuditLog
  registered,   \* the devices row exists
  pc,           \* where each call is
  idle,         \* connections of the pool that no call holds
  inbox,        \* notifications PostgreSQL sent to the connection of a waiter
  listening,    \* waiters whose connection listens
  aborted,      \* waiters whose signal is aborted: the client is gone
  hwm,          \* the watermark a waiter has read
  events,       \* the rows a waiter has read
  position,     \* the afterSequence of each client
  received,     \* history: the sequences each client was given
  armedAt       \* history: the watermark when a waiter blocked

Log == INSTANCE AuditLog

log == <<end, floor, anchor, retained>>
client == <<position, received>>
wait == <<hwm, events, armedAt>>
vars == <<log, registered, pc, idle, inbox, listening, aborted, wait, client>>

SeqOf(d) == Fields[d].sequence

Init ==
  /\ Log!Init
  /\ registered = FALSE
  /\ pc = [c \in Call |-> "queued"]
  /\ idle = PoolSize
  /\ inbox = [w \in Waiter |-> <<>>]
  /\ listening = {}
  /\ aborted = [w \in Waiter |-> FALSE]
  /\ hwm = [w \in Waiter |-> 0]
  /\ events = [w \in Waiter |-> {}]
  /\ position = [w \in Waiter |-> 0]
  /\ received = [w \in Waiter |-> {}]
  /\ armedAt = [w \in Waiter |-> 0]

-----------------------------------------------------------------------------
(* The pool and the device.                                                *)

Go(c, to) == pc' = [pc EXCEPT ![c] = to]

(* pool.connect().                                                          *)
Connect(c) ==
  /\ pc[c] = "queued"
  /\ idle > 0
  /\ idle' = idle - 1
  /\ Go(c, IF c \in Waiter THEN "connected" ELSE "transaction")
  /\ UNCHANGED <<log, registered, inbox, listening, aborted, wait, client>>

(* connectionTimeoutMillis passes while every connection is held.           *)
ConnectTimeout(c) ==
  /\ pc[c] = "queued"
  /\ idle = 0
  /\ Go(c, "answered")
  /\ UNCHANGED <<log, registered, idle, inbox, listening, aborted, wait, client>>

(* A NOTIFY that commits is queued for every connection that listens.       *)
Notified(device) ==
  [w \in Waiter |-> IF w \in listening THEN Append(inbox[w], device) ELSE inbox[w]]

(* try_advance notifies when it promoted something.                         *)
Promote ==
  /\ registered
  /\ \E h \in (end + 1)..MaxSequence : Log!Extend(h)
  /\ inbox' = Notified("this")

(* A transaction of another instance advances the device, or the worker     *)
(* compacts it.                                                             *)
PromoteElsewhere ==
  /\ Promote
  /\ UNCHANGED <<registered, pc, idle, listening, aborted, wait, client>>

Compact ==
  /\ \E c \in (floor + 1)..end : Log!Truncate(c)
  /\ UNCHANGED <<registered, pc, idle, inbox, listening, aborted, wait, client>>

Register ==
  /\ ~ registered
  /\ registered' = TRUE
  /\ UNCHANGED <<log, pc, idle, inbox, listening, aborted, wait, client>>

(* Another device advances: every waiter listens on the same channel.       *)
PromoteOther ==
  /\ \A w \in Waiter : Len(inbox[w]) < MaxQueued
  /\ listening # {}
  /\ inbox' = Notified("other")
  /\ UNCHANGED <<log, registered, pc, idle, listening, aborted, wait, client>>

(* An upload of this instance commits, with or without a promotion.         *)
Upload(u) ==
  /\ pc[u] = "transaction"
  /\ Promote \/ UNCHANGED <<log, inbox>>
  /\ Go(u, "answered")
  /\ idle' = idle + 1
  /\ UNCHANGED <<registered, listening, aborted, wait, client>>

-----------------------------------------------------------------------------
(* waitForEvents.                                                          *)

Listen(w) ==
  /\ pc[w] = "connected"
  /\ Go(w, "select1")
  /\ listening' = listening \cup {w}
  /\ UNCHANGED <<log, registered, idle, inbox, aborted, wait, client>>

(* Where a waiter goes when there is nothing above its position.            *)
Miss(at) == IF at \in {"select1", "read1"} THEN "arming" ELSE "closing"

(* SELECT high_watermark, before the wait and after it.  An unknown device  *)
(* is answered 404; an aborted signal ends the second try.                  *)
SelectWatermark(w) ==
  /\ pc[w] \in {"select1", "select2"}
  /\ IF ~ registered \/ (pc[w] = "select2" /\ aborted[w])
       THEN Go(w, "closing") /\ UNCHANGED hwm
       ELSE /\ hwm' = [hwm EXCEPT ![w] = end]
            /\ Go(w, IF end =< position[w] THEN Miss(pc[w])
                     ELSE IF pc[w] = "select1" THEN "read1" ELSE "read2")
  /\ UNCHANGED <<log, registered, idle, inbox, listening, aborted, events, armedAt, client>>

(* Mutant of Batch: LIMIT without ORDER BY, newest rows first.              *)
BatchNewest(after) ==
  LET rows == {d \in retained : SeqOf(d) > after}
  IN  {d \in rows : Cardinality({e \in rows : SeqOf(e) > SeqOf(d)}) < PageSize}

(* The visible rows after a position, ORDER BY sequence LIMIT pageSize.     *)
Batch(after) ==
  LET rows == {d \in retained : SeqOf(d) > after}
  IN  {d \in rows : Cardinality({e \in rows : SeqOf(e) < SeqOf(d)}) < PageSize}

ReadBatch(w) ==
  /\ pc[w] \in {"read1", "read2"}
  /\ events' = [events EXCEPT ![w] = Batch(position[w])]
  /\ Go(w, IF events'[w] = {} THEN Miss(pc[w]) ELSE "closing")
  /\ UNCHANGED <<log, registered, idle, inbox, listening, aborted, hwm, armedAt, client>>

(* The turn of the event loop that adds the listeners and starts the timer. *)
Block(w) ==
  /\ pc[w] = "arming"
  /\ Go(w, "blocked")
  /\ armedAt' = [armedAt EXCEPT ![w] = end]
  /\ UNCHANGED <<log, registered, idle, inbox, listening, aborted, hwm, events, client>>

(* Mutant of Wakes: the payload is compared with another device's id.       *)
WakesForOther(w, device) == pc[w] = "blocked" /\ device = "other"

(* onNotification ends the wait when the payload is the device.             *)
Wakes(w, device) == pc[w] = "blocked" /\ device = "this"

(* node-postgres emits a notification.  With no listener it is dropped.     *)
Deliver(w) ==
  /\ inbox[w] # <<>>
  /\ inbox' = [inbox EXCEPT ![w] = Tail(@)]
  /\ IF Wakes(w, Head(inbox[w])) THEN Go(w, "select2") ELSE UNCHANGED pc
  /\ UNCHANGED <<log, registered, idle, listening, aborted, wait, client>>

(* min(waitTimeoutMs, 30 s) pass.                                           *)
Timeout(w) ==
  /\ pc[w] = "blocked"
  /\ Go(w, "select2")
  /\ UNCHANGED <<log, registered, idle, inbox, listening, aborted, wait, client>>

(* The client disconnects.  The abort event reaches the wait only when its  *)
(* listener is there.                                                       *)
Disconnect(w) ==
  /\ pc[w] # "answered"
  /\ ~ aborted[w]
  /\ aborted' = [aborted EXCEPT ![w] = TRUE]
  /\ IF pc[w] = "blocked" THEN Go(w, "select2") ELSE UNCHANGED pc
  /\ UNCHANGED <<log, registered, idle, inbox, listening, wait, client>>

(* Mutant of Freed: an aborted wait keeps its connection.                   *)
FreedUnlessAborted(w) == IF aborted[w] THEN idle ELSE idle + 1

Freed(w) == idle + 1

(* finally: UNLISTEN, give the connection back, and answer.  A client that  *)
(* is still there goes on from the last event it was given.                 *)
Release(w) ==
  /\ pc[w] = "closing"
  /\ Go(w, "answered")
  /\ idle' = Freed(w)
  /\ listening' = listening \ {w}
  /\ inbox' = [inbox EXCEPT ![w] = <<>>]
  /\ hwm' = [hwm EXCEPT ![w] = 0]
  /\ events' = [events EXCEPT ![w] = {}]
  /\ armedAt' = [armedAt EXCEPT ![w] = 0]
  /\ IF aborted[w] THEN UNCHANGED client
       ELSE /\ position' = [position EXCEPT ![w] = Max({@} \cup {SeqOf(d) : d \in events[w]})]
            /\ received' = [received EXCEPT ![w] = @ \cup {SeqOf(d) : d \in events[w]}]
  /\ UNCHANGED <<log, registered, aborted>>

(* The client sends its next request.                                       *)
Ask(c) ==
  /\ pc[c] = "answered"
  /\ Go(c, "queued")
  /\ aborted' = [w \in Waiter |-> aborted[w] /\ w # c]
  /\ UNCHANGED <<log, registered, idle, inbox, listening, wait, client>>

Statement(w) == Listen(w) \/ SelectWatermark(w) \/ ReadBatch(w) \/ Block(w) \/ Release(w)

Next ==
  \/ \E c \in Call : Connect(c) \/ ConnectTimeout(c) \/ Ask(c)
  \/ \E w \in Waiter : Statement(w) \/ Deliver(w) \/ Timeout(w) \/ Disconnect(w)
  \/ \E u \in Uploader : Upload(u)
  \/ Register \/ PromoteElsewhere \/ PromoteOther \/ Compact

Spec == Init /\ [][Next]_vars

(* PostgreSQL executes the statements it is sent, timers fire, and pg-pool  *)
(* serves the calls that wait for a connection in their order.  Nothing is  *)
(* assumed of connectionTimeoutMillis, of the clients or of notifications.  *)
FairSpec ==
  /\ Spec
  /\ \A c \in Call : SF_vars(Connect(c))
  /\ \A w \in Waiter : WF_vars(Statement(w)) /\ WF_vars(Timeout(w))
  /\ \A u \in Uploader : WF_vars(Upload(u))

-----------------------------------------------------------------------------
(* Properties.                                                             *)

Holding == {"connected", "select1", "read1", "arming", "blocked", "select2", "read2",
            "closing", "transaction"}

(* Every connection is idle or held by exactly one call, and a connection   *)
(* that listens is one a waiter holds (reads.mjs:191-194, 257-264).         *)
TypeOK ==
  /\ registered \in BOOLEAN
  /\ pc \in [Call -> {"queued", "answered"} \cup Holding]
  /\ idle \in 0..PoolSize
  /\ idle = PoolSize - Cardinality({c \in Call : pc[c] \in Holding})
  /\ inbox \in [Waiter -> Seq({"this", "other"})]
  /\ aborted \in [Waiter -> BOOLEAN]
  /\ hwm \in [Waiter -> Nat] /\ armedAt \in [Waiter -> Nat] /\ position \in [Waiter -> Nat]
  /\ events \in [Waiter -> SUBSET Digest] /\ received \in [Waiter -> SUBSET Nat]
  /\ listening = {w \in Waiter : pc[w] \in Holding \ {"connected"}}
  /\ \A w \in Waiter : inbox[w] # <<>> => w \in listening
  /\ \A w \in Waiter : position[w] =< end

(* A client that goes on from the last event it was given has been given    *)
(* every event up to there that compaction has not deleted: no answer skips *)
(* one, however commits, notifications, timeouts, disconnections and the    *)
(* two reads of a wait interleave (reads.mjs:2, 198-208).                   *)
NothingSkipped ==
  \A w \in Waiter : \A s \in 1..position[w] : s \in received[w] \/ s =< floor

(* A commit after a waiter has blocked reaches it: while it sleeps its      *)
(* notification is on the way, without the help of the timer                *)
(* (reads.mjs:210-211, 0002_advance.sql:166-176).                           *)
WakeupOnTheWay ==
  \A w \in Waiter :
    pc[w] = "blocked" /\ end > armedAt[w] => \E i \in DOMAIN inbox[w] : inbox[w][i] = "this"

(* Every wait and every upload is answered again and again: no way out of a *)
(* wait keeps its connection, and waiters that hold the whole pool give way *)
(* to the uploads they wait for (reads.mjs:191-193).                        *)
EveryCallAnswered == \A c \in Call : []<>(pc[c] = "answered")

=============================================================================
