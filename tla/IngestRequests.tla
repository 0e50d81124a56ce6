--------------------------- MODULE IngestRequests ---------------------------
(***************************************************************************)
(* ingestBatch as calls see it: batches under requestIds, sent to several  *)
(* API instances and several devices at once.  One step is one statement,  *)
(* so the device lock, the lookup of the requestId under it, the writes,   *)
(* the insert of the record and the commit of different calls interleave,  *)
(* and an instance may crash between any two of them.  What the writes do  *)
(* to a device is reduced to the rows they add; DeviceLedger has the rest. *)
(***************************************************************************)
EXTENDS Integers, FiniteSetsExt

CONSTANTS
  Call,        \* HTTP calls
  Instance,    \* API processes, each with a connection pool
  Device,
  Event,       \* signed events
  Null,
  Home,        \* Home[c]: the instance that serves call c
  Request,     \* Request[c]: its requestId, device and batch
  PoolSize,    \* cfg.db.poolSize
  MaxCrashes   \* bound on crashes and lost connections

RequestId == {Request[c].id : c \in Call}

Row == [call : Call, response : SUBSET Event]

ASSUME RequestsAssumption ==
  /\ \A c \in Call :
       /\ Home[c] \in Instance
       /\ Request[c] \in [id : RequestId, device : Device, batch : (SUBSET Event) \ {{}}]
  /\ Null \notin Call \cup Row
  /\ PoolSize \in Nat \ {0}
  /\ MaxCrashes \in Nat

VARIABLES
  pc,           \* where each call is in ingestBatch
  answer,       \* what the caller was told
  pending,      \* the response of an open transaction that has written its rows
  registered,   \* the devices that have a row
  rows,         \* event_records of each device
  acceptable,   \* the events of each device that its keys verify
  requests,     \* ingest_requests rows
  deviceLock,   \* the transaction holding SELECT ... FOR UPDATE on a device
  reservation,  \* the transaction with an uncommitted insert of a requestId
  crashes       \* how many crashes and lost connections there were

tables == <<registered, rows, acceptable, requests>>
locks == <<deviceLock, reservation>>
vars == <<pc, answer, pending, tables, locks, crashes>>

IdOf(c) == Request[c].id
DeviceOf(c) == Request[c].device

Answer(type, response) == [type |-> type, response |-> response]
NoAnswer == Answer("none", Null)

Init ==
  /\ pc = [c \in Call |-> "queued"]
  /\ answer = [c \in Call |-> NoAnswer]
  /\ pending = [c \in Call |-> Null]
  /\ registered = {}
  /\ rows = [d \in Device |-> {}]
  /\ acceptable = [d \in Device |-> Event]
  /\ requests = [i \in RequestId |-> Null]
  /\ deviceLock = [d \in Device |-> Null]
  /\ reservation = [i \in RequestId |-> Null]
  /\ crashes = 0

-----------------------------------------------------------------------------
(* withTransaction.                                                        *)

InTransaction == {"begun", "locked", "missed", "written", "reserved"}

Busy(i) == {c \in Call : Home[c] = i /\ pc[c] \in InTransaction \cup {"rereading"}}

Go(c, from, to) == pc[c] = from /\ pc' = [pc EXCEPT ![c] = to]

(* Mutant of Release: an insert that did not commit still blocks its key.   *)
ReleaseLeaking(cs) ==
  /\ deviceLock' = [d \in Device |-> IF deviceLock[d] \in cs THEN Null ELSE deviceLock[d]]
  /\ pending' = [c \in Call |-> IF c \in cs THEN Null ELSE pending[c]]
  /\ UNCHANGED reservation

(* COMMIT and ROLLBACK give back what the transactions of cs hold.          *)
Release(cs) ==
  /\ deviceLock' = [d \in Device |-> IF deviceLock[d] \in cs THEN Null ELSE deviceLock[d]]
  /\ reservation' = [i \in RequestId |-> IF reservation[i] \in cs THEN Null ELSE reservation[i]]
  /\ pending' = [c \in Call |-> IF c \in cs THEN Null ELSE pending[c]]

(* The call ends without a write.                                           *)
Finish(c, a) ==
  /\ pc' = [pc EXCEPT ![c] = "answered"]
  /\ answer' = [answer EXCEPT ![c] = a]
  /\ Release({c})
  /\ UNCHANGED <<tables, crashes>>

(* pool.connect() and BEGIN.                                                *)
Begin(c) ==
  /\ Cardinality(Busy(Home[c])) < PoolSize
  /\ Go(c, "queued", "begun")
  /\ UNCHANGED <<answer, pending, tables, locks, crashes>>

(* connectionTimeoutMillis passes while the pool is exhausted.              *)
ConnectTimeout(c) ==
  /\ Cardinality(Busy(Home[c])) >= PoolSize
  /\ pc[c] \in {"queued", "raced"}
  /\ Finish(c, Answer("failed", Null))

-----------------------------------------------------------------------------
(* ingestBatch.                                                            *)

(* Mutant of LockDevice: the lookup does not wait for the device.           *)
LockDeviceNot(c) ==
  /\ DeviceOf(c) \in registered
  /\ Go(c, "begun", "locked")
  /\ UNCHANGED <<answer, pending, tables, locks, crashes>>

(* SELECT ... FROM devices ... FOR UPDATE waits for the row.                *)
LockDevice(c) ==
  /\ DeviceOf(c) \in registered
  /\ deviceLock[DeviceOf(c)] = Null
  /\ Go(c, "begun", "locked")
  /\ deviceLock' = [deviceLock EXCEPT ![DeviceOf(c)] = c]
  /\ UNCHANGED <<answer, pending, tables, reservation, crashes>>

UnknownDevice(c) ==
  /\ pc[c] = "begun"
  /\ DeviceOf(c) \notin registered
  /\ Finish(c, Answer("refused", Null))

(* Mutant of SameContent: the fingerprint leaves the device out.            *)
SameBatch(b, c) == Request[b].batch = Request[c].batch

(* The fingerprint covers the device and the events.                        *)
SameContent(b, c) == DeviceOf(b) = DeviceOf(c) /\ Request[b].batch = Request[c].batch

(* handlePrior.                                                             *)
Resolve(c) ==
  LET row == requests[IdOf(c)]
  IN  IF SameContent(row.call, c)
        THEN Answer("replayed", row.response)
        ELSE Answer("idempotency_conflict", Null)

LookupHit(c) ==
  /\ pc[c] = "locked"
  /\ requests[IdOf(c)] # Null
  /\ Finish(c, Resolve(c))

LookupMiss(c) ==
  /\ Go(c, "locked", "missed")
  /\ requests[IdOf(c)] = Null
  /\ UNCHANGED <<answer, pending, tables, locks, crashes>>

(* Phase 1: one event that does not verify refuses the batch.               *)
Invalid(c) ==
  /\ pc[c] = "missed"
  /\ ~ Request[c].batch \subseteq acceptable[DeviceOf(c)]
  /\ Finish(c, Answer("refused", Null))

(* Phase 2, reconcile_conflict, try_advance; the response reports the rows. *)
Write(c) ==
  /\ Go(c, "missed", "written")
  /\ Request[c].batch \subseteq acceptable[DeviceOf(c)]
  /\ pending' = [pending EXCEPT ![c] = rows[DeviceOf(c)] \cup Request[c].batch]
  /\ UNCHANGED <<answer, tables, locks, crashes>>

(* Mutant of Reserve: request_id is not a key.                              *)
ReserveUnchecked(c) ==
  /\ Go(c, "written", "reserved")
  /\ UNCHANGED <<answer, pending, tables, locks, crashes>>

(* INSERT INTO ingest_requests waits for an uncommitted row with the same   *)
(* key, and fails with 23505 on a committed one.                            *)
Reserve(c) ==
  /\ reservation[IdOf(c)] = Null
  /\ requests[IdOf(c)] = Null
  /\ Go(c, "written", "reserved")
  /\ reservation' = [reservation EXCEPT ![IdOf(c)] = c]
  /\ UNCHANGED <<answer, pending, tables, deviceLock, crashes>>

(* The unique violation rolls the whole batch back.                         *)
ReserveRace(c) ==
  /\ Go(c, "written", "raced")
  /\ reservation[IdOf(c)] = Null
  /\ requests[IdOf(c)] # Null
  /\ Release({c})
  /\ UNCHANGED <<answer, tables, crashes>>

(* replayStoredRequest runs on a connection of its own.                     *)
StartReread(c) ==
  /\ Cardinality(Busy(Home[c])) < PoolSize
  /\ Go(c, "raced", "rereading")
  /\ UNCHANGED <<answer, pending, tables, locks, crashes>>

Reread(c) ==
  /\ pc[c] = "rereading"
  /\ Finish(c, Resolve(c))

(* The rows and the record become visible together.                         *)
CommitWrites(c) ==
  /\ pc[c] = "reserved"
  /\ rows' = [rows EXCEPT ![DeviceOf(c)] = @ \cup Request[c].batch]
  /\ requests' = [requests EXCEPT ![IdOf(c)] = [call |-> c, response |-> pending[c]]]
  /\ pc' = [pc EXCEPT ![c] = "answered"]
  /\ Release({c})
  /\ UNCHANGED <<registered, acceptable>>

Commit(c) ==
  /\ CommitWrites(c)
  /\ answer' = [answer EXCEPT ![c] = Answer("first", pending[c])]
  /\ UNCHANGED crashes

-----------------------------------------------------------------------------
(* Failures and the rest of the service.                                   *)

(* The instance dies and PostgreSQL rolls its transactions back.            *)
Crash(i) ==
  LET lost == {c \in Call : Home[c] = i /\ pc[c] # "answered"}
  IN  /\ crashes < MaxCrashes
      /\ lost # {}
      /\ crashes' = crashes + 1
      /\ pc' = [c \in Call |-> IF c \in lost THEN "answered" ELSE pc[c]]
      /\ answer' = [c \in Call |-> IF c \in lost THEN Answer("lost", Null) ELSE answer[c]]
      /\ Release(lost)
      /\ UNCHANGED tables

(* The connection is lost after the COMMIT was executed.                    *)
CommitLost(c) ==
  /\ crashes < MaxCrashes
  /\ CommitWrites(c)
  /\ crashes' = crashes + 1
  /\ answer' = [answer EXCEPT ![c] = Answer("lost", Null)]

(* A client sends a batch again that had no useful answer.                  *)
Resend(c) ==
  /\ answer[c].type \in {"lost", "failed"}
  /\ Go(c, "answered", "queued")
  /\ answer' = [answer EXCEPT ![c] = NoAnswer]
  /\ UNCHANGED <<pending, tables, locks, crashes>>

RegisterDevice(d) ==
  /\ d \notin registered
  /\ registered' = registered \cup {d}
  /\ UNCHANGED <<pc, answer, pending, rows, acceptable, requests, locks, crashes>>

(* An administrator refuses an event and rotates the key under its          *)
(* sequence: it would not be accepted any more.                             *)
Revoke(d, e) ==
  /\ deviceLock[d] = Null
  /\ e \in acceptable[d]
  /\ acceptable' = [acceptable EXCEPT ![d] = @ \ {e}]
  /\ UNCHANGED <<pc, answer, pending, registered, rows, requests, locks, crashes>>

Statement(c) ==
  \/ Begin(c) \/ LockDevice(c) \/ UnknownDevice(c) \/ LookupHit(c) \/ LookupMiss(c)
  \/ Invalid(c) \/ Write(c) \/ Reserve(c) \/ ReserveRace(c) \/ StartReread(c) \/ Reread(c)
  \/ Commit(c)

Next ==
  \/ \E c \in Call : Statement(c) \/ ConnectTimeout(c) \/ CommitLost(c) \/ Resend(c)
  \/ \E i \in Instance : Crash(i)
  \/ \E d \in Device : RegisterDevice(d)
  \/ \E d \in registered, e \in Event : Revoke(d, e)

Spec == Init /\ [][Next]_vars

(* PostgreSQL and the event loop keep executing the statements of a call.   *)
FairSpec == Spec /\ \A c \in Call : WF_vars(Statement(c))

-----------------------------------------------------------------------------
(* Properties.                                                             *)

AnswerType == {"none", "first", "replayed", "idempotency_conflict", "refused", "failed", "lost"}

(* A lock, and an uncommitted record, belongs to a transaction that is      *)
(* still open; each table keeps the values its columns allow                *)
(* (pool.mjs:35-53).                                                        *)
TypeOK ==
  /\ pc \in [Call -> InTransaction \cup {"queued", "raced", "rereading", "answered"}]
  /\ answer \in [Call -> [type : AnswerType, response : (SUBSET Event) \cup {Null}]]
  /\ pending \in [Call -> (SUBSET Event) \cup {Null}]
  /\ registered \subseteq Device
  /\ {rows, acceptable} \subseteq [Device -> SUBSET Event]
  /\ requests \in [RequestId -> Row \cup {Null}]
  /\ deviceLock \in
       [Device -> {Null} \cup {c \in Call : pc[c] \in InTransaction \ {"begun"}}]
  /\ reservation \in [RequestId -> {Null} \cup {c \in Call : pc[c] = "reserved"}]
  /\ crashes \in 0..MaxCrashes

(* The rows of a device are those of the batches that are recorded for it:  *)
(* the loser of a requestId race, a crash and a refused batch leave nothing *)
(* behind, and no recorded batch is lost (ingest.mjs:2-5, 225-227).         *)
RowsMatchRequests ==
  \A d \in Device :
    rows[d] = UNION {Request[requests[i].call].batch :
                       i \in {j \in RequestId : requests[j] # Null /\ DeviceOf(requests[j].call) = d}}

Promise == INSTANCE Idempotency
             WITH Response <- SUBSET Event, record <- requests, missed <- {}

(* To its clients, under any interleaving of instances, devices, races,     *)
(* crashes and retries, ingest is Idempotency: in particular a batch that   *)
(* was accepted once is replayed and never refused, whatever became of its  *)
(* keys (ingest.mjs:51-59, 224-245, 0001_init.sql:95).                      *)
ImplementsIdempotency == Promise!Spec

(* Every call is answered, whatever waits for a device, for a record or for *)
(* a connection (ingest.mjs:224-233).                                       *)
EveryCallAnswered == \A c \in Call : []<>(pc[c] = "answered")

=============================================================================
