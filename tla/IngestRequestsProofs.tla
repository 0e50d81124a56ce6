------------------------ MODULE IngestRequestsProofs ------------------------
(***************************************************************************)
(* For any number of calls, instances, devices and crashes: ingest keeps   *)
(* the rows of a device and the records of requestIds in step, and is      *)
(* Idempotency to its clients.                                             *)
(***************************************************************************)
EXTENDS IngestRequests, TLAPS

(* From the lookup to the commit a call holds the lock of its device.       *)
LockHeld == \A c \in Call :
  pc[c] \in {"locked", "missed", "written", "reserved"} => deviceLock[DeviceOf(c)] = c

(* Only registered devices are locked, or have records.                     *)
Known == /\ \A d \in Device : deviceLock[d] # Null => d \in registered
         /\ \A i \in RequestId : requests[i] # Null => DeviceOf(requests[i].call) \in registered

(* A record is filed under the id of its call.                              *)
Filed == \A i \in RequestId : requests[i] # Null => IdOf(requests[i].call) = i

(* After a lookup that found nothing, a record of the same id can only have *)
(* come from another device: this one was locked.                           *)
MissStands == \A c \in Call :
  pc[c] \in {"missed", "written"} /\ requests[IdOf(c)] # Null =>
    DeviceOf(requests[IdOf(c)].call) # DeviceOf(c)

(* What the transaction has written is what it will commit.                 *)
WritesStand == \A c \in Call :
  pc[c] \in {"written", "reserved"} => pending[c] \in SUBSET Event

(* An uncommitted record is the only one of its id.                         *)
Reserved == \A c \in Call :
  pc[c] = "reserved" => reservation[IdOf(c)] = c /\ requests[IdOf(c)] = Null

(* Who lost the race has a winner to read.                                  *)
RaceHasWinner == \A c \in Call :
  pc[c] \in {"raced", "rereading"} => requests[IdOf(c)] # Null

RequestsInv ==
  /\ TypeOK
  /\ LockHeld
  /\ Known
  /\ Filed
  /\ MissStands
  /\ WritesStand
  /\ Reserved
  /\ RaceHasWinner
  /\ RowsMatchRequests

-----------------------------------------------------------------------------
(* A response, as a caller or a record may hold it.                         *)
LEMMA ResolveType ==
  ASSUME NEW c \in Call, TypeOK, requests[IdOf(c)] # Null
  PROVE  Resolve(c) \in [type : AnswerType, response : (SUBSET Event) \cup {Null}]
BY DEF TypeOK, Resolve, Answer, AnswerType, Row, RequestId, IdOf

LEMMA IdsAndDevices ==
  ASSUME NEW c \in Call
  PROVE  /\ IdOf(c) \in RequestId
         /\ DeviceOf(c) \in Device
         /\ Request[c].batch \in SUBSET Event
         /\ Request[c].batch # {}
BY RequestsAssumption DEF RequestsAssumption, IdOf, DeviceOf, RequestId

LEMMA InitRequests == Init => RequestsInv
<1> SUFFICES ASSUME Init PROVE RequestsInv
  OBVIOUS
<1> USE RequestsAssumption DEF RequestsAssumption, Init
<1>1. TypeOK
  BY DEF TypeOK, NoAnswer, Answer, AnswerType
<1>2. LockHeld /\ Known /\ Filed /\ MissStands /\ WritesStand /\ Reserved /\ RaceHasWinner
  BY DEF LockHeld, Known, Filed, MissStands, WritesStand, Reserved, RaceHasWinner
<1>3. RowsMatchRequests
  BY DEF RowsMatchRequests
<1> QED BY <1>1, <1>2, <1>3 DEF RequestsInv

(* Transactions may end at any point without a write: they roll back and    *)
(* release what they hold.                                                  *)
LEMMA EndKeeps ==
  ASSUME NEW cs \in SUBSET Call, RequestsInv, Release(cs), UNCHANGED tables,
         answer' \in [Call -> [type : AnswerType, response : (SUBSET Event) \cup {Null}]],
         crashes' \in 0..MaxCrashes,
         pc' \in [Call -> InTransaction \cup {"queued", "raced", "rereading", "answered"}],
         \A c \in Call \ cs : pc'[c] = pc[c],
         \A c \in cs : \/ pc'[c] = "answered"
                       \/ pc'[c] = "raced" /\ requests[IdOf(c)] # Null
  PROVE  RequestsInv'
<1> USE DEF RequestsInv, Release, tables
<1>1. TypeOK'
  <2>1. deviceLock' \in
          [Device -> {Null} \cup {c \in Call : pc'[c] \in InTransaction \ {"begun"}}]
    BY DEF TypeOK
  <2>2. reservation' \in [RequestId -> {Null} \cup {c \in Call : pc'[c] = "reserved"}]
    BY DEF TypeOK
  <2> QED BY <2>1, <2>2 DEF TypeOK
<1>2. LockHeld'
  <2> SUFFICES ASSUME NEW c \in Call, pc'[c] \in {"locked", "missed", "written", "reserved"}
               PROVE  deviceLock'[DeviceOf(c)] = c
    BY DEF LockHeld
  <2>1. c \notin cs /\ pc'[c] = pc[c]
    OBVIOUS
  <2> QED BY <2>1, IdsAndDevices DEF LockHeld
<1>3. Known' /\ Filed'
  BY DEF Known, Filed
<1>4. MissStands' /\ RaceHasWinner'
  BY DEF MissStands, RaceHasWinner
<1>5. WritesStand' /\ Reserved'
  BY IdsAndDevices DEF WritesStand, Reserved
<1>6. RowsMatchRequests'
  BY DEF RowsMatchRequests
<1> QED BY <1>1, <1>2, <1>3, <1>4, <1>5, <1>6

LEMMA FinishKeeps ==
  ASSUME NEW c \in Call, RequestsInv, NEW a, Finish(c, a),
         a \in [type : AnswerType, response : (SUBSET Event) \cup {Null}]
  PROVE  RequestsInv'
<1>1. TypeOK
  BY DEF RequestsInv
<1>2. Release({c}) /\ UNCHANGED tables /\ crashes' \in 0..MaxCrashes
  BY <1>1 DEF Finish, TypeOK
<1>3. answer' \in [Call -> [type : AnswerType, response : (SUBSET Event) \cup {Null}]]
  BY <1>1 DEF Finish, TypeOK
<1>4. /\ pc' \in [Call -> InTransaction \cup {"queued", "raced", "rereading", "answered"}]
      /\ \A b \in Call \ {c} : pc'[b] = pc[b]
      /\ pc'[c] = "answered"
  BY <1>1 DEF Finish, TypeOK
<1> QED BY <1>2, <1>3, <1>4, EndKeeps

-----------------------------------------------------------------------------
(* Steps that only move one call forward.                                   *)
LEMMA MoveKeeps ==
  ASSUME NEW c \in Call, RequestsInv,
         \/ Begin(c) \/ LookupMiss(c) \/ Write(c) \/ StartReread(c) \/ Resend(c)
  PROVE  RequestsInv'
<1>1. UNCHANGED <<tables, locks, crashes>>
  BY DEF Begin, LookupMiss, Write, StartReread, Resend
<1> USE <1>1 DEF RequestsInv, tables, locks
<1>2. PICK to \in InTransaction \cup {"queued", "rereading"} : pc' = [pc EXCEPT ![c] = to]
  BY DEF Begin, LookupMiss, Write, StartReread, Resend, Go, InTransaction
<1>3. /\ pc'[c] \notin {"locked", "reserved", "raced"}
      /\ pc'[c] = "begun" => pc[c] = "queued"
      /\ pc'[c] = "missed" => pc[c] = "locked" /\ requests[IdOf(c)] = Null
      /\ pc'[c] = "written" => pc[c] = "missed"
      /\ pc'[c] = "rereading" => pc[c] = "raced"
      /\ pc[c] \in {"queued", "locked", "missed", "raced", "answered"}
      /\ pc'[c] \in InTransaction \ {"begun"} <=> pc[c] \in InTransaction \ {"begun"}
  BY DEF Begin, LookupMiss, Write, StartReread, Resend, Go, TypeOK, InTransaction
<1>4. \A b \in Call : b # c => pc'[b] = pc[b]
  BY <1>2 DEF TypeOK
<1>5. pending' \in [Call -> (SUBSET Event) \cup {Null}]
  BY IdsAndDevices DEF Begin, LookupMiss, Write, StartReread, Resend, TypeOK
<1>6. TypeOK'
  <2>1. deviceLock' \in
          [Device -> {Null} \cup {b \in Call : pc'[b] \in InTransaction \ {"begun"}}]
    BY <1>3, <1>4 DEF TypeOK
  <2>2. reservation' \in [RequestId -> {Null} \cup {b \in Call : pc'[b] = "reserved"}]
    BY <1>3, <1>4 DEF TypeOK
  <2>3. answer' \in [Call -> [type : AnswerType, response : (SUBSET Event) \cup {Null}]]
    BY DEF Begin, LookupMiss, Write, StartReread, Resend, TypeOK, NoAnswer, Answer, AnswerType
  <2>4. pc' \in [Call -> InTransaction \cup {"queued", "raced", "rereading", "answered"}]
    BY <1>2 DEF TypeOK
  <2> QED BY <1>5, <2>1, <2>2, <2>3, <2>4 DEF TypeOK
<1>7. LockHeld'
  BY <1>3, <1>4 DEF LockHeld
<1>8. MissStands' /\ RaceHasWinner' /\ Reserved'
  BY <1>3, <1>4 DEF MissStands, RaceHasWinner, Reserved
<1>9. WritesStand'
  <2>1. pc'[c] = "written" => pending'[c] \in SUBSET Event
    BY <1>3, IdsAndDevices DEF Begin, LookupMiss, Write, StartReread, Resend, Go, TypeOK
  <2>2. \A b \in Call : b # c => pending'[b] = pending[b]
    BY DEF Begin, LookupMiss, Write, StartReread, Resend, TypeOK
  <2> QED BY <1>3, <1>4, <2>1, <2>2 DEF WritesStand
<1>10. Known' /\ Filed' /\ RowsMatchRequests'
  BY DEF Known, Filed, RowsMatchRequests
<1> QED BY <1>6, <1>7, <1>8, <1>9, <1>10

LEMMA LockDeviceKeeps ==
  ASSUME NEW c \in Call, RequestsInv, LockDevice(c)
  PROVE  RequestsInv'
<1> USE DEF RequestsInv, LockDevice, Go, tables
<1>1. TypeOK'
  BY IdsAndDevices DEF TypeOK, InTransaction
<1>2. LockHeld'
  BY IdsAndDevices, RequestsAssumption DEF RequestsAssumption, TypeOK, LockHeld
<1>3. Known' /\ Filed' /\ RowsMatchRequests'
  BY IdsAndDevices DEF TypeOK, Known, Filed, RowsMatchRequests
<1>4. MissStands' /\ RaceHasWinner' /\ WritesStand' /\ Reserved'
  BY DEF TypeOK, MissStands, RaceHasWinner, WritesStand, Reserved
<1> QED BY <1>1, <1>2, <1>3, <1>4

LEMMA ReserveKeeps ==
  ASSUME NEW c \in Call, RequestsInv, Reserve(c)
  PROVE  RequestsInv'
<1> USE DEF RequestsInv, Reserve, Go, tables
<1>1. TypeOK'
  BY IdsAndDevices DEF TypeOK, InTransaction
<1>2. LockHeld' /\ Known' /\ Filed' /\ RowsMatchRequests'
  BY DEF TypeOK, LockHeld, Known, Filed, RowsMatchRequests
<1>3. MissStands' /\ RaceHasWinner' /\ WritesStand'
  BY DEF TypeOK, MissStands, RaceHasWinner, WritesStand
<1>4. Reserved'
  BY IdsAndDevices, RequestsAssumption DEF RequestsAssumption, TypeOK, Reserved
<1> QED BY <1>1, <1>2, <1>3, <1>4

(* The commit adds its batch and its record together.  No other call can be *)
(* about to commit the same id, and none that missed it has this device.    *)
LEMMA CommitKeeps ==
  ASSUME NEW c \in Call, RequestsInv, CommitWrites(c), crashes' \in 0..MaxCrashes,
         answer' \in [Call -> [type : AnswerType, response : (SUBSET Event) \cup {Null}]]
  PROVE  RequestsInv'
<1> USE DEF RequestsInv, CommitWrites, Release
<1> DEFINE i == IdOf(c)
           d == DeviceOf(c)
           row == [call |-> c, response |-> pending[c]]
<1>1. /\ i \in RequestId /\ d \in Device /\ Request[c].batch \in SUBSET Event
      /\ row \in Row /\ row # Null /\ row.call = c
      /\ reservation[i] = c /\ requests[i] = Null /\ deviceLock[d] = c
  BY IdsAndDevices, RequestsAssumption
     DEF RequestsAssumption, WritesStand, Reserved, LockHeld, Row
<1>2. /\ requests' = [requests EXCEPT ![i] = row]
      /\ requests'[i] = row
      /\ \A j \in RequestId : j # i => requests'[j] = requests[j]
  BY <1>1 DEF TypeOK
<1> HIDE DEF row
<1>3. \A b \in Call \ {c} : pc'[b] = pc[b] /\ pending'[b] = pending[b]
  BY DEF TypeOK
<1>4. pc'[c] = "answered"
  BY DEF TypeOK
<1>5. TypeOK'
  <2>1. deviceLock' \in
          [Device -> {Null} \cup {b \in Call : pc'[b] \in InTransaction \ {"begun"}}]
    BY <1>3 DEF TypeOK
  <2>2. reservation' \in [RequestId -> {Null} \cup {b \in Call : pc'[b] = "reserved"}]
    BY <1>3 DEF TypeOK
  <2>3. requests' \in [RequestId -> Row \cup {Null}]
    BY <1>1, <1>2 DEF TypeOK
  <2>4. rows' \in [Device -> SUBSET Event]
    BY <1>1 DEF TypeOK
  <2> QED BY <2>1, <2>2, <2>3, <2>4 DEF TypeOK
<1>6. LockHeld'
  BY <1>3, <1>4, IdsAndDevices DEF LockHeld
<1>7. Known' /\ Filed'
  <2>1. d \in registered
    BY <1>1, RequestsAssumption DEF RequestsAssumption, Known
  <2> QED BY <1>1, <1>2, <2>1 DEF Known, Filed
<1>8. MissStands'
  <2> SUFFICES ASSUME NEW b \in Call, pc'[b] \in {"missed", "written"}, IdOf(b) = i
               PROVE  DeviceOf(b) # d
    BY <1>1, <1>2, <1>3, <1>4, IdsAndDevices DEF MissStands
  <2>1. b # c /\ deviceLock[DeviceOf(b)] = b
    BY <1>3, <1>4 DEF LockHeld
  <2> QED BY <1>1, <2>1
<1>9. WritesStand'
  BY <1>3, <1>4 DEF WritesStand
<1>10. Reserved'
  <2> SUFFICES ASSUME NEW b \in Call, pc'[b] = "reserved"
               PROVE  reservation'[IdOf(b)] = b /\ requests'[IdOf(b)] = Null
    BY DEF Reserved
  <2>1. b # c /\ reservation[IdOf(b)] = b /\ requests[IdOf(b)] = Null
    BY <1>3, <1>4 DEF Reserved
  <2> QED BY <1>1, <1>2, <2>1, IdsAndDevices
<1>11. RaceHasWinner'
  BY <1>1, <1>2, <1>3, <1>4, IdsAndDevices DEF RaceHasWinner
<1>12. RowsMatchRequests'
  <2> DEFINE Recorded(e) == {j \in RequestId : requests[j] # Null /\ DeviceOf(requests[j].call) = e}
             RecordedAfter(e) ==
               {j \in RequestId : requests'[j] # Null /\ DeviceOf(requests'[j].call) = e}
  <2>1. SUFFICES ASSUME NEW e \in Device
                 PROVE  rows'[e] = UNION {Request[requests'[j].call].batch : j \in RecordedAfter(e)}
    BY DEF RowsMatchRequests
  <2>2. rows[e] = UNION {Request[requests[j].call].batch : j \in Recorded(e)}
    BY DEF RowsMatchRequests
  <2>3. CASE e # d
    <3>1. rows'[e] = rows[e]
      BY <2>3 DEF TypeOK
    <3>2. RecordedAfter(e) = Recorded(e) /\ i \notin Recorded(e)
      BY <1>1, <1>2, <2>3
    <3> QED BY <1>2, <2>2, <3>1, <3>2
  <2>4. CASE e = d
    <3>1. rows'[e] = rows[e] \cup Request[c].batch
      BY <2>4, <1>1 DEF TypeOK
    <3>2. RecordedAfter(e) = Recorded(e) \cup {i} /\ i \notin Recorded(e)
      BY <1>1, <1>2, <2>4
    <3>3. \A j \in Recorded(e) : requests'[j] = requests[j]
      BY <1>1, <1>2
    <3>4. Request[requests'[i].call].batch = Request[c].batch
      BY <1>1, <1>2
    <3> HIDE DEF Recorded, RecordedAfter
    <3> QED BY <2>2, <3>1, <3>2, <3>3, <3>4
  <2> QED BY <2>3, <2>4
<1> QED BY <1>5, <1>6, <1>7, <1>8, <1>9, <1>10, <1>11, <1>12

(* A rotation takes the device, so no transaction is between its lookup and *)
(* its commit.                                                              *)
LEMMA ServiceKeeps ==
  ASSUME RequestsInv,
         \/ \E d \in Device : RegisterDevice(d)
         \/ \E d \in registered, e \in Event : Revoke(d, e)
  PROVE  RequestsInv'
<1>1. TypeOK'
  BY DEF RequestsInv, TypeOK, RegisterDevice, Revoke, locks
<1> QED
  BY <1>1 DEF RequestsInv, RegisterDevice, Revoke, locks, LockHeld, Known, Filed, MissStands,
              WritesStand, Reserved, RaceHasWinner, RowsMatchRequests

(* The ways a statement, or the wait for a connection, ends a call.         *)
LEMMA AnswerKeeps ==
  ASSUME NEW c \in Call, RequestsInv,
         \/ UnknownDevice(c) \/ LookupHit(c) \/ Invalid(c) \/ Reread(c) \/ ConnectTimeout(c)
         \/ ReserveRace(c)
  PROVE  RequestsInv'
<1>0. TypeOK
  BY DEF RequestsInv
<1>1. CASE UnknownDevice(c) \/ Invalid(c) \/ ConnectTimeout(c)
  BY <1>1, FinishKeeps DEF UnknownDevice, Invalid, ConnectTimeout, Answer, AnswerType
<1>2. CASE LookupHit(c) \/ Reread(c)
  <2>1. requests[IdOf(c)] # Null
    BY <1>2 DEF LookupHit, Reread, RequestsInv, RaceHasWinner
  <2>2. Finish(c, Resolve(c))
    BY <1>2 DEF LookupHit, Reread
  <2> QED BY <1>0, <2>1, <2>2, ResolveType, FinishKeeps
<1>3. CASE ReserveRace(c)
  <2>1. /\ pc' \in [Call -> InTransaction \cup {"queued", "raced", "rereading", "answered"}]
        /\ \A b \in Call \ {c} : pc'[b] = pc[b]
        /\ pc'[c] = "raced" /\ requests[IdOf(c)] # Null
    BY <1>0, <1>3 DEF ReserveRace, Go, TypeOK
  <2>2. UNCHANGED <<tables, answer, crashes>> /\ Release({c})
    BY <1>3 DEF ReserveRace
  <2>3. /\ answer' \in [Call -> [type : AnswerType, response : (SUBSET Event) \cup {Null}]]
        /\ crashes' \in 0..MaxCrashes
    BY <1>0, <2>2 DEF TypeOK
  <2> QED BY <2>1, <2>2, <2>3, EndKeeps
<1> QED BY <1>1, <1>2, <1>3

LEMMA CrashKeeps ==
  ASSUME NEW p \in Instance, RequestsInv, Crash(p)
  PROVE  RequestsInv'
<1> DEFINE lost == {c \in Call : Home[c] = p /\ pc[c] # "answered"}
<1>0. TypeOK
  BY DEF RequestsInv
<1>1. /\ pc' = [c \in Call |-> IF c \in lost THEN "answered" ELSE pc[c]]
      /\ answer' = [c \in Call |-> IF c \in lost THEN Answer("lost", Null) ELSE answer[c]]
      /\ Release(lost) /\ UNCHANGED tables /\ lost \in SUBSET Call
  BY DEF Crash
<1>2. crashes' \in 0..MaxCrashes
  BY <1>0, RequestsAssumption DEF RequestsAssumption, TypeOK, Crash
<1> HIDE DEF lost
<1>3. answer' \in [Call -> [type : AnswerType, response : (SUBSET Event) \cup {Null}]]
  BY <1>0, <1>1 DEF TypeOK, Answer, AnswerType
<1>4. pc' \in [Call -> InTransaction \cup {"queued", "raced", "rereading", "answered"}]
  BY <1>0, <1>1 DEF TypeOK
<1> QED BY <1>1, <1>2, <1>3, <1>4, EndKeeps

LEMMA CommittedKeeps ==
  ASSUME NEW c \in Call, RequestsInv, Commit(c) \/ CommitLost(c)
  PROVE  RequestsInv'
<1>0. TypeOK /\ WritesStand
  BY DEF RequestsInv
<1>1. pending[c] \in SUBSET Event /\ CommitWrites(c)
  BY <1>0 DEF WritesStand, Commit, CommitLost, CommitWrites
<1>2. crashes' \in 0..MaxCrashes
  BY <1>0, RequestsAssumption DEF RequestsAssumption, TypeOK, Commit, CommitLost
<1>3. answer' \in [Call -> [type : AnswerType, response : (SUBSET Event) \cup {Null}]]
  BY <1>0, <1>1 DEF TypeOK, Commit, CommitLost, Answer, AnswerType
<1> QED BY <1>1, <1>2, <1>3, CommitKeeps

-----------------------------------------------------------------------------
(* What the statements of a call know of each other's transactions, under   *)
(* any interleaving, crash and retry (ingest.mjs:27-110, 224-245).          *)
THEOREM RequestsInvariant == Spec => []RequestsInv
<1>1. Init => RequestsInv
  BY InitRequests
<1>2. RequestsInv /\ [Next]_vars => RequestsInv'
  <2> SUFFICES ASSUME RequestsInv, [Next]_vars PROVE RequestsInv'
    OBVIOUS
  <2>1. CASE \E c \in Call : Statement(c) \/ ConnectTimeout(c) \/ CommitLost(c) \/ Resend(c)
    BY <2>1, MoveKeeps, LockDeviceKeeps, ReserveKeeps, AnswerKeeps, CommittedKeeps DEF Statement
  <2>2. CASE \E p \in Instance : Crash(p)
    BY <2>2, CrashKeeps
  <2>3. CASE \/ \E d \in Device : RegisterDevice(d)
             \/ \E d \in registered, e \in Event : Revoke(d, e)
    BY <2>3, ServiceKeeps
  <2>4. CASE UNCHANGED vars
    BY <2>4 DEF vars, tables, locks, RequestsInv, TypeOK, LockHeld, Known, Filed, MissStands,
                WritesStand, Reserved, RaceHasWinner, RowsMatchRequests
  <2> QED BY <2>1, <2>2, <2>3, <2>4 DEF Next
<1> QED BY <1>1, <1>2, PTL DEF Spec

(* No lock or uncommitted record outlives its transaction                   *)
(* (pool.mjs:35-53).                                                        *)
THEOREM RequestsTypes == Spec => []TypeOK
BY RequestsInvariant, PTL DEF RequestsInv

(* A batch is in the rows of its device exactly when its record is there,   *)
(* whatever races, crashes and refusals there were (ingest.mjs:2-5,         *)
(* 225-227).                                                                *)
THEOREM RowsAlwaysMatch == Spec => []RowsMatchRequests
BY RequestsInvariant, PTL DEF RequestsInv

-----------------------------------------------------------------------------
(* The refinement, step by step.                                            *)

LEMMA PromiseInit == Init => Promise!Init
BY DEF Init, Promise!Init, RequestId, Promise!IdOf, NoAnswer, Answer, Promise!Answer

(* A repetition in the promise is the comparison of the fingerprints.       *)
LEMMA SameIsRepeated ==
  ASSUME NEW c \in Call, RequestsInv, requests[IdOf(c)] # Null
  PROVE  Promise!Repeated(c) <=> SameContent(requests[IdOf(c)].call, c)
<1> DEFINE b == requests[IdOf(c)].call
<1>1. b \in Call /\ IdOf(b) = IdOf(c)
  BY IdsAndDevices DEF RequestsInv, TypeOK, Filed, Row
<1>2. Request[b] = Request[c] <=> SameContent(b, c)
  <2>1. /\ Request[b] \in [id : RequestId, device : Device, batch : (SUBSET Event) \ {{}}]
        /\ Request[c] \in [id : RequestId, device : Device, batch : (SUBSET Event) \ {{}}]
    BY <1>1, RequestsAssumption DEF RequestsAssumption
  <2> HIDE DEF b
  <2> QED BY <1>1, <2>1 DEF SameContent, IdOf, DeviceOf
<1> QED BY <1>2 DEF Promise!Repeated, Promise!Bound, Promise!IdOf, IdOf

LEMMA ReplayOrConflict ==
  ASSUME NEW c \in Call, RequestsInv, requests[IdOf(c)] # Null, Finish(c, Resolve(c))
  PROVE  Promise!Replay(c) \/ Promise!Conflict(c)
<1>1. UNCHANGED requests /\ answer' = [answer EXCEPT ![c] = Resolve(c)]
  BY DEF Finish, tables
<1>2. CASE SameContent(requests[IdOf(c)].call, c)
  BY <1>1, <1>2, SameIsRepeated
     DEF Resolve, Answer, Promise!Replay, Promise!Tell, Promise!Answer, Promise!IdOf, IdOf
<1>3. CASE ~ SameContent(requests[IdOf(c)].call, c)
  BY <1>1, <1>3, SameIsRepeated
     DEF Resolve, Answer, Promise!Conflict, Promise!Bound, Promise!Tell, Promise!Answer,
         Promise!IdOf, IdOf
<1> QED BY <1>2, <1>3

(* What is refused has no record of its own: its device is unknown, or its  *)
(* lookup missed and it has held its device since.                          *)
LEMMA RefusedIsNew ==
  ASSUME NEW c \in Call, RequestsInv, UnknownDevice(c) \/ Invalid(c)
  PROVE  Promise!Refuse(c)
<1>1. UNCHANGED requests /\ answer' = [answer EXCEPT ![c] = Answer("refused", Null)]
  BY DEF UnknownDevice, Invalid, Finish, tables
<1>2. ~ Promise!Repeated(c)
  <2> SUFFICES ASSUME requests[IdOf(c)] # Null PROVE ~ SameContent(requests[IdOf(c)].call, c)
    BY SameIsRepeated DEF Promise!Repeated, Promise!Bound, Promise!IdOf, IdOf
  <2>1. CASE UnknownDevice(c)
    BY <2>1, IdsAndDevices DEF UnknownDevice, RequestsInv, Known, SameContent
  <2>2. CASE Invalid(c)
    BY <2>2 DEF Invalid, RequestsInv, MissStands, SameContent
  <2> QED BY <2>1, <2>2
<1> QED BY <1>1, <1>2 DEF Promise!Refuse, Promise!Tell, Promise!Answer, Answer

LEMMA CommitExecutes ==
  ASSUME NEW c \in Call, RequestsInv, Commit(c) \/ CommitLost(c)
  PROVE  Promise!Execute(c)
<1>1. /\ pending[c] \in SUBSET Event
      /\ requests[IdOf(c)] = Null
      /\ requests' = [requests EXCEPT ![IdOf(c)] = [call |-> c, response |-> pending[c]]]
  BY DEF Commit, CommitLost, CommitWrites, RequestsInv, WritesStand, Reserved
<1>2. \/ answer' = [answer EXCEPT ![c] = Answer("first", pending[c])]
      \/ answer' = [answer EXCEPT ![c] = Answer("lost", Null)]
  BY DEF Commit, CommitLost
<1> QED BY <1>1, <1>2 DEF Promise!Execute, Promise!Bound, Promise!Tell, Promise!Answer,
                          Promise!IdOf, IdOf, Answer

LEMMA FailureFails ==
  ASSUME RequestsInv,
         \/ \E c \in Call : ConnectTimeout(c)
         \/ \E p \in Instance : Crash(p)
  PROVE  \E type \in {"failed", "lost"} : Promise!Fail(type)
<1>1. ASSUME NEW c \in Call, ConnectTimeout(c) PROVE Promise!Fail("failed")
  <2>1. UNCHANGED requests /\ answer' = [answer EXCEPT ![c] = Answer("failed", Null)]
    BY <1>1 DEF ConnectTimeout, Finish, tables
  <2>2. DOMAIN answer = Call
    BY DEF RequestsInv, TypeOK
  <2> QED BY <2>1, <2>2 DEF Promise!Fail, Promise!Answer, Answer
<1>2. ASSUME NEW p \in Instance, Crash(p) PROVE Promise!Fail("lost")
  <2> DEFINE lost == {c \in Call : Home[c] = p /\ pc[c] # "answered"}
  <2>1. /\ UNCHANGED requests
        /\ answer' = [c \in Call |-> IF c \in lost THEN Answer("lost", Null) ELSE answer[c]]
    BY <1>2 DEF Crash, tables
  <2> QED BY <2>1 DEF Promise!Fail, Promise!Answer, Answer
<1> QED BY <1>1, <1>2

(* Every step of ingest is a step of the promise, or none to its clients.   *)
LEMMA StepPromised ==
  ASSUME RequestsInv, [Next]_vars
  PROVE  [Promise!Next]_(Promise!vars)
<1> USE DEF Promise!vars
<1>1. ASSUME NEW c \in Call, UnknownDevice(c) \/ Invalid(c) PROVE Promise!Next
  BY <1>1, RefusedIsNew DEF Promise!Next
<1>2. ASSUME NEW c \in Call, LookupHit(c) \/ Reread(c) PROVE Promise!Next
  <2>1. requests[IdOf(c)] # Null /\ Finish(c, Resolve(c))
    BY <1>2 DEF LookupHit, Reread, RequestsInv, RaceHasWinner
  <2> QED BY <2>1, ReplayOrConflict DEF Promise!Next
<1>3. ASSUME NEW c \in Call, Commit(c) \/ CommitLost(c) PROVE Promise!Next
  BY <1>3, CommitExecutes DEF Promise!Next
<1>4. ASSUME NEW c \in Call, Resend(c) PROVE Promise!Next
  <2>1. Promise!Resend(c)
    BY <1>4 DEF Resend, NoAnswer, Answer, tables, Promise!Resend, Promise!Tell, Promise!Answer
  <2> QED BY <2>1 DEF Promise!Next
<1>5. CASE (\E c \in Call : ConnectTimeout(c)) \/ (\E p \in Instance : Crash(p))
  BY <1>5, FailureFails DEF Promise!Next
<1>6. ASSUME NEW c \in Call,
             \/ Begin(c) \/ LockDevice(c) \/ LookupMiss(c) \/ Write(c) \/ Reserve(c)
             \/ ReserveRace(c) \/ StartReread(c)
      PROVE  UNCHANGED Promise!vars
  BY <1>6 DEF Begin, LockDevice, LookupMiss, Write, Reserve, ReserveRace, StartReread, tables
<1>7. CASE \/ \E d \in Device : RegisterDevice(d)
           \/ \E d \in registered, e \in Event : Revoke(d, e)
  BY <1>7 DEF RegisterDevice, Revoke
<1>8. CASE UNCHANGED vars
  BY <1>8 DEF vars, tables
<1> QED BY <1>1, <1>2, <1>3, <1>4, <1>5, <1>6, <1>7, <1>8 DEF Next, Statement

(* To its clients ingest is Idempotency, for any calls, instances, devices, *)
(* races, crashes and retries: an accepted batch is replayed and never      *)
(* refused, and its id is bound for ever (ingest.mjs:51-59, 224-245).       *)
THEOREM RefinesIdempotency == Spec => ImplementsIdempotency
<1>1. RequestsInv /\ [Next]_vars => [Promise!Next]_(Promise!vars)
  BY StepPromised
<1> QED BY <1>1, PromiseInit, RequestsInvariant, PTL DEF Spec, ImplementsIdempotency, Promise!Spec

=============================================================================
