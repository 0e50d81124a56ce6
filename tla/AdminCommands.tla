---------------------------- MODULE AdminCommands ----------------------------
(***************************************************************************)
(* runIdempotentAdminCommand: rotate, adjudicate and manual compaction     *)
(* calls, sent to several API instances, that contend for commandIds and   *)
(* for device rows.  One step is one statement sent to PostgreSQL, so the  *)
(* lookup of an earlier command, the locks, the execution, the insert of   *)
(* the reservation and the commit interleave, and an instance may crash    *)
(* between any two of them.  What execute does to a device is reduced to   *)
(* the columns its guards read, under a fixed watermark and any read views *)
(* at all; DeviceLedger has the rest.                                      *)
(***************************************************************************)
EXTENDS Integers, Sequences, FiniteSetsExt

CONSTANTS
  Call,           \* HTTP calls, and the worker's
  Workload,       \* the sets of calls that may be made together
  Instance,       \* API processes, each with a connection pool
  Command,        \* commandIds
  NoCommand,      \* commandId of the worker, and of manual compactions sent without one
  Device,
  Null,           \* SQL NULL; the cutoffSequence of a compaction left to the policy
  Home,           \* Home[c]: the instance that serves call c
  Request,        \* Request[c]: command, kind, device, and the guarded argument of c
  HighWatermark,  \* devices.high_watermark, held fixed
  RetentionEvents, \* cfg.compaction.retentionEvents
  MinEvents,      \* cfg.compaction.minEvents
  PoolSize,       \* cfg.db.poolSize
  MaxCrashes,     \* bound on instance crashes
  MaxRevision     \* bound on conflicts.revision

(* What a command can answer: the next control revision, the revision of a  *)
(* conflict, or the sequence of a checkpoint.                               *)
Response ==
  {Request[c].argument + 1 : c \in {b \in Call : Request[b].kind = "rotate"}}
    \cup 0..MaxRevision \cup 0..HighWatermark

Row == [call : Call, response : Response]

ASSUME CommandsAssumption ==
  /\ NoCommand \notin Command
  /\ Null \notin Call \cup Command \cup Row
  /\ \A c \in Call :
       /\ Home[c] \in Instance
       /\ Request[c] \in [command : Command \cup {NoCommand}, argument : Nat \cup {Null},
                          kind : {"rotate", "adjudicate", "compact"}, device : Device]
       /\ Request[c].command = NoCommand \/ Request[c].argument = Null =>
            Request[c].kind = "compact"
  /\ Workload \subseteq SUBSET Call
  /\ {HighWatermark, RetentionEvents, MinEvents} \subseteq Nat
  /\ PoolSize \in Nat \ {0}
  /\ MaxCrashes \in Nat
  /\ MaxRevision \in Nat \ {0}

VARIABLES
  pc,            \* where each call is in runIdempotentAdminCommand
  pending,       \* what the open transaction of a call has written to its device
  answer,        \* what the caller was told
  devices,       \* committed device columns the commands guard on and write
  commands,      \* committed admin_commands rows
  deviceLock,    \* the transaction holding SELECT ... FOR UPDATE on a device
  advisoryLock,  \* the transaction holding the device's compaction lock
  reservation,   \* the transaction with an uncommitted insert of a commandId
  crashes,       \* how many instances have crashed
  applied        \* history: the calls whose transaction committed, with their responses

locks == <<deviceLock, advisoryLock, reservation>>
tables == <<devices, commands, applied>>
vars == <<pc, pending, answer, tables, locks, crashes>>

CommandOf(c) == Request[c].command
DeviceOf(c)  == Request[c].device
KindOf(c)    == Request[c].kind

(* kind and request hash: the hash covers the device and the arguments.     *)
SameRequest(b, c) ==
  /\ KindOf(b) = KindOf(c)
  /\ DeviceOf(b) = DeviceOf(c)
  /\ Request[b].argument = Request[c].argument

NoAnswer == [type |-> "none", response |-> Null]
Answer(type, response) == [type |-> type, response |-> response]

Init ==
  /\ \E made \in Workload : pc = [c \in Call |-> IF c \in made THEN "queued" ELSE "answered"]
  /\ pending = [c \in Call |-> Null]
  /\ answer = [c \in Call |-> NoAnswer]
  /\ devices = [d \in Device |->
                  [controlRevision |-> 1, conflictRevision |-> 1,
                   decidedBy |-> Null, checkpoint |-> 0]]
  /\ commands = [m \in Command |-> Null]
  /\ deviceLock = [d \in Device |-> Null]
  /\ advisoryLock = [d \in Device |-> Null]
  /\ reservation = [m \in Command |-> Null]
  /\ crashes = 0
  /\ applied = <<>>

-----------------------------------------------------------------------------
(* withTransaction: connections and locks.                                 *)

InTransaction == {"begun", "missed", "advisory", "executing", "executed", "reserved"}

Busy(i) == {c \in Call : Home[c] = i /\ pc[c] \in InTransaction \cup {"rereading"}}

(* Mutant of Release: the row lock of the device is kept.                   *)
ReleaseLeaking(cs) ==
  /\ advisoryLock' = [d \in Device |-> IF advisoryLock[d] \in cs THEN Null ELSE advisoryLock[d]]
  /\ reservation' = [m \in Command |-> IF reservation[m] \in cs THEN Null ELSE reservation[m]]
  /\ pending' = [c \in Call |-> IF c \in cs THEN Null ELSE pending[c]]
  /\ UNCHANGED deviceLock

(* COMMIT and ROLLBACK give back what the transactions of cs hold.          *)
Release(cs) ==
  /\ deviceLock' = [d \in Device |-> IF deviceLock[d] \in cs THEN Null ELSE deviceLock[d]]
  /\ advisoryLock' = [d \in Device |-> IF advisoryLock[d] \in cs THEN Null ELSE advisoryLock[d]]
  /\ reservation' = [m \in Command |-> IF reservation[m] \in cs THEN Null ELSE reservation[m]]
  /\ pending' = [c \in Call |-> IF c \in cs THEN Null ELSE pending[c]]

Go(c, from, to) == pc[c] = from /\ pc' = [pc EXCEPT ![c] = to]

(* The transaction of c ends without a write and the caller gets a.         *)
Finish(c, a) ==
  /\ pc' = [pc EXCEPT ![c] = "answered"]
  /\ answer' = [answer EXCEPT ![c] = a]
  /\ Release({c})
  /\ UNCHANGED <<tables, crashes>>

(* pool.connect() and BEGIN.                                                *)
Begin(c) ==
  /\ Cardinality(Busy(Home[c])) < PoolSize
  /\ Go(c, "queued", IF CommandOf(c) = NoCommand THEN "missed" ELSE "begun")
  /\ UNCHANGED <<pending, answer, tables, locks, crashes>>

(* connectionTimeoutMillis passes while the pool is exhausted: pool.connect *)
(* rejects, and so does the pool.query that would re-read a winner's row.   *)
ConnectTimeout(c) ==
  /\ Cardinality(Busy(Home[c])) >= PoolSize
  /\ pc[c] \in {"queued", "raced"}
  /\ Finish(c, Answer("failed", Null))

-----------------------------------------------------------------------------
(* The transaction.                                                        *)

(* resolveStored: replay the stored response, or 409 IDEMPOTENCY_CONFLICT.  *)
Resolve(c) ==
  LET row == commands[CommandOf(c)]
  IN  IF SameRequest(row.call, c)
        THEN Answer("replayed", row.response)
        ELSE Answer("idempotency_conflict", Null)

(* The lookup of a committed row, before any lock is taken.                 *)
LookupHit(c) ==
  /\ pc[c] = "begun"
  /\ commands[CommandOf(c)] # Null
  /\ Finish(c, Resolve(c))

(* Mutant of LookupMiss: only a row that was stored by this instance is     *)
(* found.                                                                   *)
LookupMissLocal(c) ==
  /\ Go(c, "begun", "missed")
  /\ commands[CommandOf(c)] # Null => Home[commands[CommandOf(c)].call] # Home[c]
  /\ UNCHANGED <<pending, answer, tables, locks, crashes>>

LookupMiss(c) ==
  /\ Go(c, "begun", "missed")
  /\ commands[CommandOf(c)] = Null
  /\ UNCHANGED <<pending, answer, tables, locks, crashes>>

(* compactDevice: pg_try_advisory_xact_lock does not wait.  Without it the  *)
(* result is null: nothing is reserved and the route answers                *)
(* {eligible: false}.                                                       *)
TryAdvisory(c) ==
  /\ KindOf(c) = "compact"
  /\ advisoryLock[DeviceOf(c)] = Null
  /\ Go(c, "missed", "advisory")
  /\ advisoryLock' = [advisoryLock EXCEPT ![DeviceOf(c)] = c]
  /\ UNCHANGED <<pending, answer, tables, deviceLock, reservation, crashes>>

AdvisoryBusy(c) ==
  /\ KindOf(c) = "compact"
  /\ advisoryLock[DeviceOf(c)] # Null
  /\ pc[c] = "missed"
  /\ Finish(c, Answer("not_eligible", Null))

(* Mutant of LockDevice: SELECT without FOR UPDATE.                         *)
LockDeviceUnlocked(c) ==
  /\ Go(c, IF KindOf(c) = "compact" THEN "advisory" ELSE "missed", "executing")
  /\ UNCHANGED <<pending, answer, tables, locks, crashes>>

(* SELECT ... FROM devices ... FOR UPDATE waits for the row.                *)
LockDevice(c) ==
  /\ deviceLock[DeviceOf(c)] = Null
  /\ Go(c, IF KindOf(c) = "compact" THEN "advisory" ELSE "missed", "executing")
  /\ deviceLock' = [deviceLock EXCEPT ![DeviceOf(c)] = c]
  /\ UNCHANGED <<pending, answer, tables, advisoryLock, reservation, crashes>>

(* execute finished its writes and has a response for the caller.           *)
Produce(c, row, response) ==
  /\ Go(c, "executing", "executed")
  /\ pending' = [pending EXCEPT ![c] = [row |-> row, response |-> response]]
  /\ UNCHANGED <<answer, tables, locks, crashes>>

Rotate(c) ==
  LET row == devices[DeviceOf(c)]
  IN  /\ KindOf(c) = "rotate"
      /\ row.controlRevision = Request[c].argument
      /\ Produce(c, [row EXCEPT !.controlRevision = @ + 1], row.controlRevision + 1)

Adjudicate(c) ==
  LET row == devices[DeviceOf(c)]
  IN  /\ KindOf(c) = "adjudicate"
      /\ row.conflictRevision = Request[c].argument
      /\ Produce(c, [row EXCEPT !.decidedBy = CommandOf(c)], row.conflictRevision)

(* desiredCutoff, or what the retention policy leaves.                      *)
Cutoff(c) ==
  IF Request[c].argument = Null THEN HighWatermark - RetentionEvents ELSE Request[c].argument

(* The views are not read unless the cutoff would advance the checkpoint.   *)
ReadsViews(c) ==
  /\ KindOf(c) = "compact"
  /\ devices[DeviceOf(c)].checkpoint < Cutoff(c)
  /\ Cutoff(c) =< HighWatermark
  /\ Request[c].argument = Null => HighWatermark >= MinEvents

(* The cutoff never crosses the floor of the unexpired views.               *)
SafeCutoff(c, floor) == IF floor < Cutoff(c) THEN floor ELSE Cutoff(c)

(* Mutant of Compact: the cutoff is not compared with the watermark.        *)
CompactUnbounded(c) ==
  LET row == devices[DeviceOf(c)]
  IN  /\ KindOf(c) = "compact"
      /\ Cutoff(c) > row.checkpoint
      /\ Produce(c, [row EXCEPT !.checkpoint = Cutoff(c)], Cutoff(c))

(* A checkpoint at the cutoff or, where an unexpired view begins below it,  *)
(* at the start of that view.  Views are opened until the row is locked and *)
(* expire by the clock, so their floor is any sequence up to the watermark. *)
Compact(c) ==
  \E floor \in 0..HighWatermark :
    LET row == devices[DeviceOf(c)]
        safeCutoff == SafeCutoff(c, floor)
    IN  /\ ReadsViews(c)
        /\ safeCutoff > row.checkpoint
        /\ Produce(c, [row EXCEPT !.checkpoint = safeCutoff], safeCutoff)

(* A manual cutoff at or below the newest checkpoint is answered without a  *)
(* write, and reserved.                                                     *)
Skip(c) ==
  LET row == devices[DeviceOf(c)]
  IN  /\ KindOf(c) = "compact"
      /\ Request[c].argument # Null
      /\ Cutoff(c) =< row.checkpoint
      /\ Produce(c, row, row.checkpoint)

(* A guard of execute throws: 409, and the transaction rolls back.          *)
Refuse(c) ==
  LET row == devices[DeviceOf(c)]
  IN  /\ pc[c] = "executing"
      /\ \/ KindOf(c) = "rotate" /\ row.controlRevision # Request[c].argument
         \/ KindOf(c) = "adjudicate" /\ row.conflictRevision # Request[c].argument
         \/ KindOf(c) = "compact" /\ Cutoff(c) > HighWatermark
      /\ Finish(c, Answer("refused", Null))

(* compactDevice returns null: the policy finds nothing to compact, or a    *)
(* view that begins at the newest checkpoint pins what is above it.         *)
NotEligible(c) ==
  /\ pc[c] = "executing"
  /\ KindOf(c) = "compact"
  /\ \/ Request[c].argument = Null /\ ~ ReadsViews(c)
     \/ /\ ReadsViews(c)
        /\ \E floor \in 0..HighWatermark :
             SafeCutoff(c, floor) =< devices[DeviceOf(c)].checkpoint
  /\ Finish(c, Answer("not_eligible", Null))

(* Mutant of Reserve: command_id is not a key.                              *)
ReserveUnchecked(c) ==
  /\ CommandOf(c) # NoCommand
  /\ Go(c, "executed", "reserved")
  /\ UNCHANGED <<pending, answer, tables, locks, crashes>>

(* INSERT INTO admin_commands: waits for an uncommitted row with the same   *)
(* key, and fails with 23505 on a committed one.                            *)
Reserve(c) ==
  /\ CommandOf(c) # NoCommand
  /\ reservation[CommandOf(c)] = Null
  /\ commands[CommandOf(c)] = Null
  /\ Go(c, "executed", "reserved")
  /\ reservation' = [reservation EXCEPT ![CommandOf(c)] = c]
  /\ UNCHANGED <<pending, answer, tables, deviceLock, advisoryLock, crashes>>

(* The unique violation rolls the whole transaction back.                   *)
ReserveRace(c) ==
  /\ CommandOf(c) # NoCommand
  /\ commands[CommandOf(c)] # Null
  /\ Go(c, "executed", "raced")
  /\ Release({c})
  /\ UNCHANGED <<answer, tables, crashes>>

(* pool.query after the rollback takes a connection of its own.             *)
StartReread(c) ==
  /\ Cardinality(Busy(Home[c])) < PoolSize
  /\ Go(c, "raced", "rereading")
  /\ UNCHANGED <<pending, answer, tables, locks, crashes>>

Reread(c) ==
  /\ pc[c] = "rereading"
  /\ Finish(c, Resolve(c))

(* COMMIT makes the device columns and the reservation visible at once.     *)
CommitWrites(c) ==
  /\ \/ pc[c] = "reserved"
     \/ pc[c] = "executed" /\ CommandOf(c) = NoCommand
  /\ devices' = [devices EXCEPT ![DeviceOf(c)] = pending[c].row]
  /\ commands' = [m \in Command |->
       IF m = CommandOf(c) THEN [call |-> c, response |-> pending[c].response] ELSE commands[m]]
  /\ applied' = Append(applied, [call |-> c, response |-> pending[c].response])
  /\ Release({c})

Commit(c) ==
  /\ CommitWrites(c)
  /\ pc' = [pc EXCEPT ![c] = "answered"]
  /\ answer' = [answer EXCEPT ![c] = Answer("first", pending[c].response)]
  /\ UNCHANGED crashes

-----------------------------------------------------------------------------
(* Failures and the rest of the service.                                   *)

(* The instance dies.  PostgreSQL rolls its transactions back; one of them  *)
(* may have reached its COMMIT, whose answer is lost.                       *)
Crash(i) ==
  LET lost == {c \in Call : Home[c] = i /\ pc[c] # "answered"}
  IN  /\ crashes < MaxCrashes
      /\ lost # {}
      /\ crashes' = crashes + 1
      /\ pc' = [c \in Call |-> IF c \in lost THEN "answered" ELSE pc[c]]
      /\ answer' = [c \in Call |-> IF c \in lost THEN Answer("lost", Null) ELSE answer[c]]
      /\ Release(lost)
      /\ UNCHANGED tables

CommitLost(c) ==
  /\ crashes < MaxCrashes
  /\ CommitWrites(c)
  /\ crashes' = crashes + 1
  /\ pc' = [pc EXCEPT ![c] = "answered"]
  /\ answer' = [answer EXCEPT ![c] = Answer("lost", Null)]

(* The administrator sends a command again that had no useful answer.       *)
Resend(c) ==
  /\ answer[c].type \in {"lost", "failed"}
  /\ CommandOf(c) # NoCommand
  /\ pc' = [pc EXCEPT ![c] = "queued"]
  /\ answer' = [answer EXCEPT ![c] = NoAnswer]
  /\ UNCHANGED <<pending, tables, locks, crashes>>

(* An upload reopens the conflict, under the device row lock.               *)
Upload(d) ==
  /\ deviceLock[d] = Null
  /\ devices[d].conflictRevision < MaxRevision
  /\ devices' = [devices EXCEPT ![d].conflictRevision = @ + 1, ![d].decidedBy = Null]
  /\ UNCHANGED <<pc, pending, answer, commands, applied, locks, crashes>>

Statement(c) ==
  \/ Begin(c) \/ LookupHit(c) \/ LookupMiss(c) \/ TryAdvisory(c) \/ AdvisoryBusy(c)
  \/ LockDevice(c) \/ Rotate(c) \/ Adjudicate(c) \/ Compact(c) \/ Skip(c) \/ Refuse(c)
  \/ NotEligible(c)
  \/ Reserve(c) \/ ReserveRace(c) \/ StartReread(c) \/ Reread(c) \/ Commit(c)

Next ==
  \/ \E c \in Call : Statement(c)
  \/ \E c \in Call : ConnectTimeout(c)
  \/ \E i \in Instance : Crash(i)
  \/ \E c \in Call : CommitLost(c)
  \/ \E c \in Call : Resend(c)
  \/ \E d \in Device : Upload(d)

Spec == Init /\ [][Next]_vars

(* PostgreSQL and the event loop keep executing the statements of a call.   *)
FairSpec == Spec /\ \A c \in Call : WF_vars(Statement(c))

-----------------------------------------------------------------------------
(* Properties.                                                             *)

Location == {"queued", "begun", "missed", "advisory", "executing", "executed",
             "reserved", "raced", "rereading", "answered"}

AnswerType == {"none", "first", "replayed", "idempotency_conflict", "refused",
               "not_eligible", "failed", "lost"}

DeviceRow == [controlRevision : Nat \ {0}, conflictRevision : 1..MaxRevision,
              decidedBy : Command \cup {Null}, checkpoint : 0..HighWatermark]

(* Each lock has at most one owner, a transaction still open; each table    *)
(* keeps the values its columns allow, and no checkpoint passes the         *)
(* watermark (compaction.mjs:72-78).                                        *)
TypeOK ==
  /\ pc \in [Call -> Location]
  /\ pending \in [Call -> {Null} \cup [row : DeviceRow, response : Response]]
  /\ answer \in [Call -> [type : AnswerType, response : Response \cup {Null}]]
  /\ devices \in [Device -> DeviceRow]
  /\ commands \in [Command -> {Null} \cup Row]
  /\ {deviceLock, advisoryLock} \subseteq
       [Device -> {Null} \cup {c \in Call : pc[c] \in InTransaction}]
  /\ reservation \in [Command -> {Null} \cup {c \in Call : pc[c] = "reserved"}]
  /\ crashes \in 0..MaxCrashes
  /\ applied \in Seq(Row)

AppliedWith(m) == {i \in DOMAIN applied : CommandOf(applied[i].call) = m}

(* However many instances receive a commandId, at once or after a crash, it *)
(* takes effect at most once, and it is reserved exactly when it did        *)
(* (idempotency.mjs:3-7, 14-18).                                            *)
TakesEffectOnce ==
  \A m \in Command :
    Cardinality(AppliedWith(m)) = IF commands[m] = Null THEN 0 ELSE 1

Succeeded(c) == answer[c].type \in {"first", "replayed"}

(* Callers that are told of success under one commandId asked for the same  *)
(* thing and hold the same response (idempotency.mjs:10-13).                *)
AnswersAgree ==
  \A b, c \in Call :
    Succeeded(b) /\ Succeeded(c) /\ CommandOf(b) = CommandOf(c) /\ CommandOf(c) # NoCommand =>
      /\ Request[b] = Request[c]
      /\ answer[b].response = answer[c].response

AppliedTo(d, kind) ==
  {i \in DOMAIN applied : DeviceOf(applied[i].call) = d /\ KindOf(applied[i].call) = kind}

(* The newest checkpoint is the largest one a compaction of d was answered  *)
(* with, and some compaction had asked for as much.                         *)
CheckpointAsAnswered(d) ==
  LET compactions == AppliedTo(d, "compact")
  IN  /\ \A i \in compactions : applied[i].response =< devices[d].checkpoint
      /\ devices[d].checkpoint # 0 =>
           \E i \in compactions :
             /\ applied[i].response = devices[d].checkpoint
             /\ devices[d].checkpoint =< Cutoff(applied[i].call)

(* The device rows are what the commands that committed, and the policy     *)
(* compactions, make of them and told their callers: no rolled-back or      *)
(* raced execution leaves a write behind, no update is lost between two     *)
(* instances, and no checkpoint a caller was told of is taken back          *)
(* (idempotency.mjs:15-18, devices.mjs:87-100, compaction.mjs:11-16).       *)
RowsMatchCommands ==
  \A d \in Device :
    /\ devices[d].controlRevision = 1 + Cardinality(AppliedTo(d, "rotate"))
    /\ CheckpointAsAnswered(d)
    /\ devices[d].decidedBy # Null =>
         \E i \in AppliedTo(d, "adjudicate") : CommandOf(applied[i].call) = devices[d].decidedBy

(* A decision commits only at the revision it quotes: no upload that other  *)
(* instances commit between the comparison and the COMMIT slips under it    *)
(* (conflicts.mjs:2-4, 101-132).                                            *)
DecisionsAreCurrent ==
  [][\A i \in DOMAIN applied' \ DOMAIN applied :
       LET c == applied'[i].call
       IN  KindOf(c) = "adjudicate" =>
             Request[c].argument = devices[DeviceOf(c)].conflictRevision]_vars

(* The calls of administrators, what each asks for and was told, what is    *)
(* recorded of their commandIds, and the calls that are being served after  *)
(* their lookup found nothing.                                              *)
Administrative == {c \in Call : CommandOf(c) # NoCommand}

Asked == [c \in Administrative |->
  [id |-> CommandOf(c), kind |-> KindOf(c), device |-> DeviceOf(c),
   argument |-> Request[c].argument]]

Told == [c \in Administrative |->
  IF answer[c].type = "not_eligible" THEN [answer[c] EXCEPT !.type = "refused"] ELSE answer[c]]

Recorded == [m \in {CommandOf(c) : c \in Administrative} |-> commands[m]]

Missed == {c \in Administrative : pc[c] \notin {"queued", "begun", "answered"}}

Promise == INSTANCE Idempotency
             WITH Call <- Administrative, Request <- Asked,
                  record <- Recorded, missed <- Missed, answer <- Told

(* To administrators, under any interleaving of instances, devices, races,  *)
(* crashes and retries, a command is Idempotency: its id is bound for ever  *)
(* by the first success, and only a call that was already under way then    *)
(* can still be refused (idempotency.mjs:3-18, 44-131).                     *)
ImplementsIdempotency == Promise!Spec

(* Every call is answered, whatever waits for row locks, for a reservation  *)
(* or for a connection: the order in which a transaction takes them has no  *)
(* cycle, and a race or a crash releases all of them (pool.mjs:35-53).      *)
EveryCallAnswered == \A c \in Call : []<>(pc[c] = "answered")

=============================================================================
