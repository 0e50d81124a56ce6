------------------------- MODULE AdminCommandsProofs -------------------------
(***************************************************************************)
(* For any number of calls, instances, devices, commandIds and crashes: a  *)
(* command takes effect at most once, its callers agree, and the rows of a *)
(* device are what the commands that took effect make of them.             *)
(***************************************************************************)
EXTENDS AdminCommands, FiniteSetTheorems, TLAPS

(* From the execution to the commit a call holds the row of its device.     *)
LockHeld == \A c \in Call :
  pc[c] \in {"executing", "executed", "reserved"} => deviceLock[DeviceOf(c)] = c

(* A compaction without a commandId has none to look up or to reserve.      *)
Named == \A c \in Call :
  pc[c] \in {"begun", "reserved", "raced", "rereading"} => CommandOf(c) \in Command

(* A row is filed under the commandId of its call.                          *)
Filed == \A m \in Command : commands[m] # Null => CommandOf(commands[m].call) = m

(* An uncommitted row is the only one of its commandId.                     *)
Reserved == \A c \in Call :
  pc[c] = "reserved" => reservation[CommandOf(c)] = c /\ commands[CommandOf(c)] = Null

(* Who lost the race has a winner to read.                                  *)
RaceHasWinner == \A c \in Call :
  pc[c] \in {"raced", "rereading"} => commands[CommandOf(c)] # Null

(* A call in flight has told its caller nothing.                            *)
InFlight == \A c \in Call : pc[c] # "answered" => answer[c] = NoAnswer

(* What execute makes of a device row, and answers, when its guards hold.   *)
Executed(c, row, write) ==
  \/ /\ KindOf(c) = "rotate"
     /\ write.row = [row EXCEPT !.controlRevision = @ + 1]
  \/ /\ KindOf(c) = "adjudicate"
     /\ row.conflictRevision = Request[c].argument
     /\ CommandOf(c) \in Command
     /\ write.row = [row EXCEPT !.decidedBy = CommandOf(c)]
  \/ /\ KindOf(c) = "compact"
     /\ \/ /\ row.checkpoint < write.response
           /\ write.response =< Cutoff(c)
           /\ write.row = [row EXCEPT !.checkpoint = write.response]
        \/ write.response = row.checkpoint /\ write.row = row

(* What the transaction has written was made from the row as it still is.   *)
WritesStand == \A c \in Call :
  pc[c] \in {"executed", "reserved"} =>
    /\ pending[c] \in [row : DeviceRow, response : Response]
    /\ Executed(c, devices[DeviceOf(c)], pending[c])

(* Who is told of success holds the response on file for its own request.   *)
AnswersStand == \A c \in Call :
  Succeeded(c) /\ CommandOf(c) # NoCommand =>
    /\ commands[CommandOf(c)] # Null
    /\ Request[c] = Request[commands[CommandOf(c)].call]
    /\ answer[c].response = commands[CommandOf(c)].response

CheckpointsAnswered == \A d \in Device : CheckpointAsAnswered(d)

RotationsCounted == \A d \in Device :
  devices[d].controlRevision = 1 + Cardinality(AppliedTo(d, "rotate"))

DecisionsApplied == \A d \in Device :
  devices[d].decidedBy # Null =>
    \E i \in AppliedTo(d, "adjudicate") : CommandOf(applied[i].call) = devices[d].decidedBy

CommandsInv ==
  /\ TypeOK
  /\ LockHeld
  /\ Named
  /\ Filed
  /\ Reserved
  /\ RaceHasWinner
  /\ InFlight
  /\ WritesStand
  /\ AnswersStand
  /\ TakesEffectOnce
  /\ RotationsCounted
  /\ CheckpointsAnswered
  /\ DecisionsApplied

-----------------------------------------------------------------------------
LEMMA RequestTypes ==
  ASSUME NEW c \in Call
  PROVE  /\ CommandOf(c) \in Command \cup {NoCommand}
         /\ DeviceOf(c) \in Device
         /\ KindOf(c) \in {"rotate", "adjudicate", "compact"}
         /\ Request[c].argument \in Nat \cup {Null}
         /\ KindOf(c) # "compact" => CommandOf(c) \in Command /\ Request[c].argument \in Nat
         /\ Cutoff(c) \in Int
<1>1. /\ Request[c] \in [command : Command \cup {NoCommand}, argument : Nat \cup {Null},
                         kind : {"rotate", "adjudicate", "compact"}, device : Device]
      /\ Request[c].command = NoCommand \/ Request[c].argument = Null =>
           Request[c].kind = "compact"
      /\ HighWatermark \in Nat /\ RetentionEvents \in Nat
  BY CommandsAssumption DEF CommandsAssumption
<1>2. Cutoff(c) \in Int
  BY <1>1 DEF Cutoff
<1> QED BY <1>1, <1>2 DEF CommandOf, DeviceOf, KindOf

LEMMA ResponseTypes == Response \subseteq Nat
<1>1. \A c \in Call : Request[c].kind = "rotate" => Request[c].argument \in Nat
  BY RequestTypes DEF KindOf
<1>2. HighWatermark \in Nat /\ MaxRevision \in Nat
  BY CommandsAssumption DEF CommandsAssumption
<1> QED BY <1>1, <1>2 DEF Response

(* The history grows by one index at its end.                               *)
LEMMA Appended ==
  ASSUME applied \in Seq(Row), NEW row \in Row, applied' = Append(applied, row),
         NEW n, n = Len(applied) + 1
  PROVE  /\ applied' \in Seq(Row)
         /\ applied'[n] = row
         /\ \A i \in DOMAIN applied : applied'[i] = applied[i] /\ i # n
         /\ DOMAIN applied' = DOMAIN applied \cup {n}
<1>1. DOMAIN applied' = 1..n /\ DOMAIN applied = 1..Len(applied) /\ Len(applied) \in Nat
  OBVIOUS
<1> QED BY <1>1

LEMMA AppliedWithAppended ==
  ASSUME applied \in Seq(Row), NEW row \in Row, applied' = Append(applied, row), NEW m
  PROVE  /\ CommandOf(row.call) = m =>
              Cardinality(AppliedWith(m)') = Cardinality(AppliedWith(m)) + 1
         /\ CommandOf(row.call) # m => AppliedWith(m)' = AppliedWith(m)
         /\ Cardinality(AppliedWith(m)) \in Nat
<1> DEFINE n == Len(applied) + 1
<1> HIDE DEF n
<1>1. /\ applied'[n] = row
      /\ \A i \in DOMAIN applied : applied'[i] = applied[i] /\ i # n
      /\ DOMAIN applied' = DOMAIN applied \cup {n}
  BY Appended DEF n
<1>2. IsFiniteSet(AppliedWith(m))
  <2>1. DOMAIN applied = 1..Len(applied) /\ Len(applied) \in Nat
    OBVIOUS
  <2>2. IsFiniteSet(1..Len(applied))
    BY <2>1, FS_Interval
  <2> QED BY <2>1, <2>2, FS_Subset DEF AppliedWith
<1>3. AppliedWith(m)' = IF CommandOf(row.call) = m THEN AppliedWith(m) \cup {n} ELSE AppliedWith(m)
  BY <1>1 DEF AppliedWith
<1>4. n \notin AppliedWith(m)
  BY <1>1 DEF AppliedWith
<1>5. /\ Cardinality(AppliedWith(m)) \in Nat
      /\ Cardinality(AppliedWith(m) \cup {n}) = Cardinality(AppliedWith(m)) + 1
  BY <1>2, <1>4, FS_CardinalityType, FS_AddElement
<1> QED BY <1>3, <1>5

LEMMA AppliedToAppended ==
  ASSUME applied \in Seq(Row), NEW row \in Row, applied' = Append(applied, row), NEW d, NEW kind,
         NEW n, n = Len(applied) + 1
  PROVE  /\ DeviceOf(row.call) = d /\ KindOf(row.call) = kind =>
              /\ AppliedTo(d, kind)' = AppliedTo(d, kind) \cup {n}
              /\ Cardinality(AppliedTo(d, kind)') = Cardinality(AppliedTo(d, kind)) + 1
         /\ ~(DeviceOf(row.call) = d /\ KindOf(row.call) = kind) =>
              AppliedTo(d, kind)' = AppliedTo(d, kind)
         /\ Cardinality(AppliedTo(d, kind)) \in Nat
         /\ applied'[n] = row
         /\ \A i \in AppliedTo(d, kind) : applied'[i] = applied[i]
<1>1. /\ applied'[n] = row
      /\ \A i \in DOMAIN applied : applied'[i] = applied[i] /\ i # n
      /\ DOMAIN applied' = DOMAIN applied \cup {n}
  BY Appended
<1>2. IsFiniteSet(AppliedTo(d, kind))
  <2>1. DOMAIN applied = 1..Len(applied) /\ Len(applied) \in Nat
    OBVIOUS
  <2>2. IsFiniteSet(1..Len(applied))
    BY <2>1, FS_Interval
  <2> QED BY <2>1, <2>2, FS_Subset DEF AppliedTo
<1>3. AppliedTo(d, kind)' =
        IF DeviceOf(row.call) = d /\ KindOf(row.call) = kind
          THEN AppliedTo(d, kind) \cup {n} ELSE AppliedTo(d, kind)
  BY <1>1 DEF AppliedTo
<1>4. n \notin AppliedTo(d, kind)
  BY <1>1 DEF AppliedTo
<1>5. /\ Cardinality(AppliedTo(d, kind)) \in Nat
      /\ Cardinality(AppliedTo(d, kind) \cup {n}) = Cardinality(AppliedTo(d, kind)) + 1
  BY <1>2, <1>4, FS_CardinalityType, FS_AddElement
<1>6. \A i \in AppliedTo(d, kind) : applied'[i] = applied[i]
  BY <1>1 DEF AppliedTo
<1> QED BY <1>1, <1>3, <1>5, <1>6

(* A transaction that commits nothing leaves what took effect alone.        *)
LEMMA EffectsKept ==
  ASSUME CommandsInv, UNCHANGED tables
  PROVE  /\ Filed' /\ TakesEffectOnce' /\ RotationsCounted'
         /\ CheckpointsAnswered' /\ DecisionsApplied'
BY DEF CommandsInv, tables, Filed, TakesEffectOnce, AppliedWith, RotationsCounted,
       CheckpointsAnswered, CheckpointAsAnswered, DecisionsApplied, AppliedTo

LEMMA InitCommands == Init => CommandsInv
<1> SUFFICES ASSUME Init PROVE CommandsInv
  OBVIOUS
<1> USE CommandsAssumption DEF CommandsAssumption, Init
<1>1. TypeOK
  <2>1. pc \in [Call -> Location] /\ applied \in Seq(Row)
    BY DEF Location
  <2>2. devices \in [Device -> DeviceRow]
    <3>1. [controlRevision |-> 1, conflictRevision |-> 1, decidedBy |-> Null, checkpoint |-> 0]
            \in DeviceRow
      BY DEF DeviceRow
    <3> QED BY <3>1
  <2>3. answer \in [Call -> [type : AnswerType, response : Response \cup {Null}]]
    BY DEF NoAnswer, AnswerType
  <2> QED BY <2>1, <2>2, <2>3 DEF TypeOK
<1>2. LockHeld /\ Named /\ Filed /\ Reserved /\ RaceHasWinner /\ InFlight /\ WritesStand
  BY DEF LockHeld, Named, Filed, Reserved, RaceHasWinner, InFlight, WritesStand
<1>3. AnswersStand
  BY DEF AnswersStand, Succeeded, NoAnswer
<1>4. \A m, d, kind : AppliedWith(m) = {} /\ AppliedTo(d, kind) = {}
  BY DEF AppliedWith, AppliedTo
<1>5. TakesEffectOnce /\ RotationsCounted
  <2>1. \A m, d, kind : Cardinality(AppliedWith(m)) = 0 /\ Cardinality(AppliedTo(d, kind)) = 0
    BY <1>4, FS_EmptySet
  <2>2. \A d \in Device : devices[d].controlRevision = 1
    OBVIOUS
  <2> QED BY <2>1, <2>2 DEF TakesEffectOnce, RotationsCounted
<1>6. CheckpointsAnswered /\ DecisionsApplied
  BY <1>4 DEF CheckpointsAnswered, CheckpointAsAnswered, DecisionsApplied
<1> QED BY <1>1, <1>2, <1>3, <1>5, <1>6 DEF CommandsInv

-----------------------------------------------------------------------------
(* Transactions may end at any point without a write: they roll back and    *)
(* release what they hold.                                                  *)
LEMMA EndKeeps ==
  ASSUME NEW cs \in SUBSET Call, CommandsInv, Release(cs), UNCHANGED tables,
         answer' \in [Call -> [type : AnswerType, response : Response \cup {Null}]],
         crashes' \in 0..MaxCrashes,
         pc' \in [Call -> Location],
         \A c \in Call \ cs : pc'[c] = pc[c] /\ answer'[c] = answer[c],
         \A c \in cs :
           \/ pc'[c] = "answered"
           \/ /\ pc'[c] = "raced" /\ answer'[c] = answer[c] /\ pc[c] # "answered"
              /\ CommandOf(c) \in Command /\ commands[CommandOf(c)] # Null,
         AnswersStand'
  PROVE  CommandsInv'
<1> USE DEF CommandsInv, Release, tables
<1>1. TypeOK'
  <2>1. {deviceLock', advisoryLock'} \subseteq
          [Device -> {Null} \cup {c \in Call : pc'[c] \in InTransaction}]
    BY DEF TypeOK
  <2>2. reservation' \in [Command -> {Null} \cup {c \in Call : pc'[c] = "reserved"}]
    BY DEF TypeOK
  <2>3. pending' \in [Call -> {Null} \cup [row : DeviceRow, response : Response]]
    BY DEF TypeOK
  <2> QED BY <2>1, <2>2, <2>3 DEF TypeOK
<1>2. LockHeld'
  <2> SUFFICES ASSUME NEW c \in Call, pc'[c] \in {"executing", "executed", "reserved"}
               PROVE  deviceLock'[DeviceOf(c)] = c
    BY DEF LockHeld
  <2>1. c \notin cs /\ pc'[c] = pc[c]
    OBVIOUS
  <2> QED BY <2>1, RequestTypes DEF LockHeld
<1>3. Named' /\ RaceHasWinner' /\ InFlight'
  BY DEF Named, RaceHasWinner, InFlight
<1>4. Reserved'
  <2> SUFFICES ASSUME NEW c \in Call, pc'[c] = "reserved"
               PROVE  reservation'[CommandOf(c)] = c /\ commands[CommandOf(c)] = Null
    BY DEF Reserved
  <2>1. c \notin cs /\ pc[c] = "reserved" /\ CommandOf(c) \in Command
    BY DEF Named
  <2> QED BY <2>1 DEF Reserved
<1>5. WritesStand'
  <2> SUFFICES ASSUME NEW c \in Call, pc'[c] \in {"executed", "reserved"}
               PROVE  /\ pending'[c] \in [row : DeviceRow, response : Response]
                      /\ Executed(c, devices'[DeviceOf(c)], pending'[c])
    BY DEF WritesStand
  <2>1. c \notin cs /\ pc'[c] = pc[c] /\ pending'[c] = pending[c]
    OBVIOUS
  <2> QED BY <2>1 DEF WritesStand
<1> QED BY <1>1, <1>2, <1>3, <1>4, <1>5, EffectsKept

LEMMA FinishKeeps ==
  ASSUME NEW c \in Call, CommandsInv, NEW a, Finish(c, a),
         a \in [type : AnswerType, response : Response \cup {Null}],
         \/ a.type \notin {"first", "replayed"}
         \/ /\ commands[CommandOf(c)] # Null
            /\ Request[c] = Request[commands[CommandOf(c)].call]
            /\ a.response = commands[CommandOf(c)].response
  PROVE  CommandsInv'
<1>1. TypeOK /\ AnswersStand
  BY DEF CommandsInv
<1>2. Release({c}) /\ UNCHANGED tables /\ crashes' \in 0..MaxCrashes
  BY <1>1 DEF Finish, TypeOK
<1>3. answer' \in [Call -> [type : AnswerType, response : Response \cup {Null}]]
  BY <1>1 DEF Finish, TypeOK
<1>4. /\ pc' \in [Call -> Location]
      /\ \A b \in Call \ {c} : pc'[b] = pc[b] /\ answer'[b] = answer[b]
      /\ pc'[c] = "answered"
  BY <1>1 DEF Finish, TypeOK, Location
<1>5. answer'[c] = a /\ UNCHANGED commands
  BY <1>1 DEF Finish, tables, TypeOK
<1>6. AnswersStand'
  BY <1>1, <1>4, <1>5 DEF AnswersStand, Succeeded
<1> QED BY <1>2, <1>3, <1>4, <1>6, EndKeeps

(* The request record on file tells whether the caller asks the same.       *)
LEMMA ResolveKeeps ==
  ASSUME NEW c \in Call, CommandsInv, Finish(c, Resolve(c)),
         CommandOf(c) \in Command, commands[CommandOf(c)] # Null
  PROVE  CommandsInv'
<1> DEFINE b == commands[CommandOf(c)].call
<1>1. commands[CommandOf(c)] \in Row /\ CommandOf(b) = CommandOf(c)
  BY DEF CommandsInv, TypeOK, Filed
<1>2. b \in Call
  BY <1>1 DEF Row
<1>3. SameRequest(b, c) => Request[b] = Request[c]
  <2>1. \A a \in {b, c} : Request[a] \in
          [command : Command \cup {NoCommand}, argument : Nat \cup {Null},
           kind : {"rotate", "adjudicate", "compact"}, device : Device]
    BY <1>2, CommandsAssumption DEF CommandsAssumption
  <2> HIDE DEF b
  <2> QED BY <1>1, <2>1 DEF SameRequest, CommandOf, KindOf, DeviceOf
<1>4. Resolve(c) \in [type : AnswerType, response : Response \cup {Null}]
  BY <1>1 DEF Resolve, Answer, AnswerType, Row
<1>5. \/ Resolve(c).type \notin {"first", "replayed"}
      \/ /\ Request[c] = Request[b]
         /\ Resolve(c).response = commands[CommandOf(c)].response
  BY <1>3 DEF Resolve, Answer
<1> QED BY <1>4, <1>5, FinishKeeps

(* The ways a statement, or the wait for a connection, ends a call.         *)
LEMMA AnswerKeeps ==
  ASSUME NEW c \in Call, CommandsInv,
         \/ LookupHit(c) \/ AdvisoryBusy(c) \/ Refuse(c) \/ NotEligible(c) \/ Reread(c)
         \/ ConnectTimeout(c) \/ ReserveRace(c)
  PROVE  CommandsInv'
<1>0. TypeOK /\ Named /\ RaceHasWinner /\ AnswersStand
  BY DEF CommandsInv
<1>1. CASE AdvisoryBusy(c) \/ Refuse(c) \/ NotEligible(c) \/ ConnectTimeout(c)
  <2>1. PICK type \in {"not_eligible", "refused", "failed"} : Finish(c, Answer(type, Null))
    BY <1>1 DEF AdvisoryBusy, Refuse, NotEligible, ConnectTimeout
  <2> QED BY <2>1, FinishKeeps DEF Answer, AnswerType
<1>2. CASE LookupHit(c) \/ Reread(c)
  <2>1. CommandOf(c) \in Command /\ commands[CommandOf(c)] # Null
    BY <1>0, <1>2 DEF LookupHit, Reread, Named, RaceHasWinner
  <2>2. Finish(c, Resolve(c))
    BY <1>2 DEF LookupHit, Reread
  <2> QED BY <2>1, <2>2, ResolveKeeps
<1>3. CASE ReserveRace(c)
  <2>1. /\ pc' \in [Call -> Location]
        /\ \A b \in Call \ {c} : pc'[b] = pc[b]
        /\ pc'[c] = "raced" /\ pc[c] = "executed"
        /\ CommandOf(c) \in Command /\ commands[CommandOf(c)] # Null
    BY <1>0, <1>3, RequestTypes DEF ReserveRace, Go, TypeOK, Location
  <2>2. UNCHANGED <<tables, answer, crashes>> /\ Release({c})
    BY <1>3 DEF ReserveRace
  <2>3. /\ answer' \in [Call -> [type : AnswerType, response : Response \cup {Null}]]
        /\ crashes' \in 0..MaxCrashes
    BY <1>0, <2>2 DEF TypeOK
  <2>4. AnswersStand'
    BY <1>0, <2>2 DEF AnswersStand, Succeeded, tables
  <2> QED BY <2>1, <2>2, <2>3, <2>4, EndKeeps
<1> QED BY <1>1, <1>2, <1>3

LEMMA CrashKeeps ==
  ASSUME NEW p \in Instance, CommandsInv, Crash(p)
  PROVE  CommandsInv'
<1> DEFINE lost == {c \in Call : Home[c] = p /\ pc[c] # "answered"}
<1>0. TypeOK /\ AnswersStand
  BY DEF CommandsInv
<1>1. /\ pc' = [c \in Call |-> IF c \in lost THEN "answered" ELSE pc[c]]
      /\ answer' = [c \in Call |-> IF c \in lost THEN Answer("lost", Null) ELSE answer[c]]
      /\ Release(lost) /\ UNCHANGED tables /\ lost \in SUBSET Call
  BY DEF Crash
<1>2. crashes' \in 0..MaxCrashes
  BY <1>0, CommandsAssumption DEF CommandsAssumption, TypeOK, Crash
<1> HIDE DEF lost
<1>3. answer' \in [Call -> [type : AnswerType, response : Response \cup {Null}]]
  BY <1>0, <1>1 DEF TypeOK, Answer, AnswerType
<1>4. pc' \in [Call -> Location]
  BY <1>0, <1>1 DEF TypeOK, Location
<1>5. AnswersStand'
  BY <1>0, <1>1 DEF AnswersStand, Succeeded, Answer, tables
<1> QED BY <1>1, <1>2, <1>3, <1>4, <1>5, EndKeeps

-----------------------------------------------------------------------------
(* Steps that move one call forward, before it executes or after a race.    *)
LEMMA MoveKeeps ==
  ASSUME NEW c \in Call, CommandsInv,
         \/ Begin(c) \/ LookupMiss(c) \/ TryAdvisory(c) \/ StartReread(c) \/ Resend(c)
  PROVE  CommandsInv'
<1>1. UNCHANGED <<pending, tables, deviceLock, reservation, crashes>>
  BY DEF Begin, LookupMiss, TryAdvisory, StartReread, Resend, locks
<1> USE <1>1 DEF CommandsInv, tables
<1>2. PICK to \in {"queued", "begun", "missed", "advisory", "rereading"} :
        pc' = [pc EXCEPT ![c] = to]
  BY DEF Begin, LookupMiss, TryAdvisory, StartReread, Resend, Go
<1>3. /\ pc'[c] = to
      /\ \A b \in Call \ {c} : pc'[b] = pc[b]
      /\ to = "begun" => CommandOf(c) # NoCommand
      /\ to = "rereading" => pc[c] = "raced"
      /\ pc[c] \in InTransaction => to \in InTransaction
      /\ pc[c] # "reserved"
  BY <1>2 DEF Begin, LookupMiss, TryAdvisory, StartReread, Resend, Go, TypeOK, InTransaction,
              InFlight, NoAnswer
<1>4. \A b \in Call : answer'[b] = IF b = c THEN NoAnswer ELSE answer[b]
  BY DEF Begin, LookupMiss, TryAdvisory, StartReread, Resend, Go, TypeOK, InFlight
<1>5. TypeOK'
  <2>1. {b \in Call : pc[b] \in InTransaction} \subseteq {b \in Call : pc'[b] \in InTransaction}
    BY <1>3
  <2>2. \A d \in Device : advisoryLock'[d] \in {Null} \cup {b \in Call : pc'[b] \in InTransaction}
    <3>1. advisoryLock \in [Device -> {Null} \cup {b \in Call : pc[b] \in InTransaction}]
      BY DEF TypeOK
    <3>2. \/ UNCHANGED advisoryLock
          \/ /\ advisoryLock' = [advisoryLock EXCEPT ![DeviceOf(c)] = c]
             /\ c \in {b \in Call : pc'[b] \in InTransaction}
      BY <1>2, <1>3 DEF Begin, LookupMiss, TryAdvisory, StartReread, Resend, Go, locks,
                        TypeOK, InTransaction
    <3> QED BY <2>1, <3>1, <3>2
  <2>3. DOMAIN advisoryLock' = Device /\ advisoryLock' = [d \in Device |-> advisoryLock'[d]]
    BY DEF Begin, LookupMiss, TryAdvisory, StartReread, Resend, locks, TypeOK
  <2>4. advisoryLock' \in [Device -> {Null} \cup {b \in Call : pc'[b] \in InTransaction}]
    BY <2>2, <2>3
  <2>5. reservation' \in [Command -> {Null} \cup {b \in Call : pc'[b] = "reserved"}]
    BY <1>3 DEF TypeOK
  <2>6. answer' \in [Call -> [type : AnswerType, response : Response \cup {Null}]]
    BY DEF Begin, LookupMiss, TryAdvisory, StartReread, Resend, TypeOK, NoAnswer, AnswerType
  <2>7. pc' \in [Call -> Location]
    BY <1>2 DEF TypeOK, Location
  <2>8. deviceLock' \in [Device -> {Null} \cup {b \in Call : pc'[b] \in InTransaction}]
    BY <2>1 DEF TypeOK
  <2> QED BY <2>4, <2>5, <2>6, <2>7, <2>8 DEF TypeOK
<1>6. LockHeld' /\ RaceHasWinner' /\ Reserved' /\ WritesStand'
  BY <1>3 DEF LockHeld, RaceHasWinner, Reserved, WritesStand
<1>7. Named'
  BY <1>3, RequestTypes DEF Named
<1>8. InFlight' /\ AnswersStand'
  BY <1>3, <1>4 DEF InFlight, AnswersStand, Succeeded, NoAnswer
<1> QED BY <1>5, <1>6, <1>7, <1>8, EffectsKept

LEMMA LockDeviceKeeps ==
  ASSUME NEW c \in Call, CommandsInv, LockDevice(c)
  PROVE  CommandsInv'
<1> USE DEF CommandsInv, LockDevice, Go, tables
<1>1. /\ pc'[c] = "executing" /\ pc[c] \in {"missed", "advisory"}
      /\ \A b \in Call \ {c} : pc'[b] = pc[b]
  BY DEF TypeOK
<1>2. TypeOK'
  <2>1. deviceLock' \in [Device -> {Null} \cup {b \in Call : pc'[b] \in InTransaction}]
    BY <1>1, RequestTypes DEF TypeOK, InTransaction
  <2>2. advisoryLock' \in [Device -> {Null} \cup {b \in Call : pc'[b] \in InTransaction}]
    BY <1>1 DEF TypeOK, InTransaction
  <2>3. reservation' \in [Command -> {Null} \cup {b \in Call : pc'[b] = "reserved"}]
    BY <1>1 DEF TypeOK
  <2>4. pc' \in [Call -> Location]
    BY DEF TypeOK, Location
  <2> QED BY <2>1, <2>2, <2>3, <2>4 DEF TypeOK
<1>3. LockHeld'
  BY <1>1, RequestTypes, CommandsAssumption DEF CommandsAssumption, TypeOK, LockHeld
<1>4. Named' /\ Reserved' /\ RaceHasWinner' /\ WritesStand'
  BY <1>1 DEF Named, Reserved, RaceHasWinner, WritesStand
<1>5. InFlight' /\ AnswersStand'
  BY <1>1 DEF InFlight, AnswersStand, Succeeded
<1> QED BY <1>2, <1>3, <1>4, <1>5, EffectsKept

(* The row is locked, so what execute was given is what it writes on.       *)
LEMMA ProduceKeeps ==
  ASSUME NEW c \in Call, CommandsInv, NEW row \in DeviceRow, NEW response \in Response,
         Produce(c, row, response),
         Executed(c, devices[DeviceOf(c)], [row |-> row, response |-> response])
  PROVE  CommandsInv'
<1> USE DEF CommandsInv, Produce, Go, tables, locks
<1>1. /\ pc'[c] = "executed" /\ pc[c] = "executing"
      /\ \A b \in Call \ {c} : pc'[b] = pc[b] /\ pending'[b] = pending[b]
      /\ pending'[c] = [row |-> row, response |-> response]
  BY DEF TypeOK
<1>2. TypeOK'
  <2>1. {b \in Call : pc'[b] \in InTransaction} = {b \in Call : pc[b] \in InTransaction}
    BY <1>1 DEF InTransaction
  <2>2. {b \in Call : pc'[b] = "reserved"} = {b \in Call : pc[b] = "reserved"}
    BY <1>1
  <2>3. pc' \in [Call -> Location]
    BY DEF TypeOK, Location
  <2>4. pending' \in [Call -> {Null} \cup [row : DeviceRow, response : Response]]
    BY DEF TypeOK
  <2> QED BY <2>1, <2>2, <2>3, <2>4 DEF TypeOK
<1>3. LockHeld' /\ Named' /\ Reserved' /\ RaceHasWinner'
  BY <1>1 DEF LockHeld, Named, Reserved, RaceHasWinner
<1>4. InFlight' /\ AnswersStand'
  BY <1>1 DEF InFlight, AnswersStand, Succeeded
<1>5. WritesStand'
  <2>1. pending'[c] \in [row : DeviceRow, response : Response] /\ pending'[c].row = row
    BY <1>1
  <2> QED BY <1>1, <2>1 DEF WritesStand
<1> QED BY <1>2, <1>3, <1>4, <1>5, EffectsKept

LEMMA ExecuteKeeps ==
  ASSUME NEW c \in Call, CommandsInv, Rotate(c) \/ Adjudicate(c) \/ Compact(c) \/ Skip(c)
  PROVE  CommandsInv'
<1> DEFINE row == devices[DeviceOf(c)]
<1>1. row \in DeviceRow
  BY RequestTypes DEF CommandsInv, TypeOK
<1>2. HighWatermark \in Nat /\ MaxRevision \in Nat /\ Cutoff(c) \in Int
  BY RequestTypes, CommandsAssumption DEF CommandsAssumption
<1>3. CASE Rotate(c)
  <2>1. Produce(c, [row EXCEPT !.controlRevision = @ + 1], row.controlRevision + 1)
    BY <1>3 DEF Rotate
  <2>2. [row EXCEPT !.controlRevision = @ + 1] \in DeviceRow
    BY <1>1 DEF DeviceRow
  <2>4. row.controlRevision + 1 \in Response
    BY <1>3 DEF Rotate, Response, KindOf
  <2>3. Executed(c, row, [row |-> [row EXCEPT !.controlRevision = @ + 1],
                          response |-> row.controlRevision + 1])
    BY <1>3 DEF Rotate, Executed
  <2> QED BY <2>1, <2>2, <2>3, <2>4, ProduceKeeps
<1>4. CASE Adjudicate(c)
  <2>1. /\ Produce(c, [row EXCEPT !.decidedBy = CommandOf(c)], row.conflictRevision)
        /\ KindOf(c) = "adjudicate" /\ row.conflictRevision = Request[c].argument
    BY <1>4 DEF Adjudicate
  <2>2. CommandOf(c) \in Command
    BY <2>1, RequestTypes
  <2>3. [row EXCEPT !.decidedBy = CommandOf(c)] \in DeviceRow /\ row.conflictRevision \in Response
    BY <1>1, <1>2, <2>2 DEF DeviceRow, Response
  <2>4. Executed(c, row, [row |-> [row EXCEPT !.decidedBy = CommandOf(c)],
                          response |-> row.conflictRevision])
    BY <2>1, <2>2 DEF Executed
  <2> QED BY <2>1, <2>3, <2>4, ProduceKeeps
<1>5. CASE Compact(c)
  <2>1. PICK floor \in 0..HighWatermark :
          /\ KindOf(c) = "compact" /\ Cutoff(c) =< HighWatermark
          /\ row.checkpoint < SafeCutoff(c, floor)
          /\ Produce(c, [row EXCEPT !.checkpoint = SafeCutoff(c, floor)], SafeCutoff(c, floor))
    BY <1>5 DEF Compact, ReadsViews
  <2> DEFINE safeCutoff == SafeCutoff(c, floor)
             new == [row EXCEPT !.checkpoint = safeCutoff]
  <2>2. safeCutoff =< Cutoff(c) /\ safeCutoff \in 0..HighWatermark
    BY <1>1, <1>2, <2>1 DEF SafeCutoff, DeviceRow
  <2>3. Executed(c, row, [row |-> new, response |-> safeCutoff])
    BY <2>1, <2>2 DEF Executed
  <2>4. new \in DeviceRow /\ safeCutoff \in Response
    BY <1>1, <2>2 DEF DeviceRow, Response
  <2> QED BY <2>1, <2>3, <2>4, ProduceKeeps
<1>6. CASE Skip(c)
  <2>1. KindOf(c) = "compact" /\ Produce(c, row, row.checkpoint)
    BY <1>6 DEF Skip
  <2>2. row.checkpoint \in Response
    BY <1>1 DEF DeviceRow, Response
  <2>3. Executed(c, row, [row |-> row, response |-> row.checkpoint])
    BY <2>1 DEF Executed
  <2> QED BY <1>1, <2>1, <2>2, <2>3, ProduceKeeps
<1> QED BY <1>3, <1>4, <1>5, <1>6

LEMMA ReserveKeeps ==
  ASSUME NEW c \in Call, CommandsInv, Reserve(c)
  PROVE  CommandsInv'
<1> USE DEF CommandsInv, Reserve, Go, tables
<1>1. /\ pc'[c] = "reserved" /\ pc[c] = "executed" /\ CommandOf(c) \in Command
      /\ \A b \in Call \ {c} : pc'[b] = pc[b]
  BY RequestTypes DEF TypeOK
<1>2. TypeOK'
  <2>1. {b \in Call : pc'[b] \in InTransaction} = {b \in Call : pc[b] \in InTransaction}
    BY <1>1 DEF InTransaction
  <2>2. reservation' \in [Command -> {Null} \cup {b \in Call : pc'[b] = "reserved"}]
    BY <1>1 DEF TypeOK
  <2>3. pc' \in [Call -> Location]
    BY DEF TypeOK, Location
  <2> QED BY <2>1, <2>2, <2>3 DEF TypeOK
<1>3. LockHeld' /\ Named' /\ RaceHasWinner' /\ WritesStand'
  BY <1>1 DEF LockHeld, Named, RaceHasWinner, WritesStand
<1>4. InFlight' /\ AnswersStand'
  BY <1>1 DEF InFlight, AnswersStand, Succeeded
<1>5. Reserved'
  <2> SUFFICES ASSUME NEW b \in Call, pc'[b] = "reserved"
               PROVE  reservation'[CommandOf(b)] = b /\ commands[CommandOf(b)] = Null
    BY DEF Reserved
  <2>1. CASE b = c
    BY <1>1, <2>1 DEF TypeOK
  <2>2. CASE b # c
    <3>1. reservation[CommandOf(b)] = b /\ b # Null
      BY <1>1, <2>2, CommandsAssumption DEF CommandsAssumption, Reserved
    <3> QED BY <1>1, <2>2, <3>1 DEF Reserved, TypeOK
  <2> QED BY <2>1, <2>2
<1> QED BY <1>2, <1>3, <1>4, <1>5, EffectsKept

(* An upload waits for the row, so no transaction has executed on it.       *)
LEMMA UploadKeeps ==
  ASSUME NEW d \in Device, CommandsInv, Upload(d)
  PROVE  CommandsInv'
<1> DEFINE old == devices[d]
           new == [old EXCEPT !.conflictRevision = @ + 1, !.decidedBy = Null]
<1>0. TypeOK /\ old \in DeviceRow
  BY DEF CommandsInv, TypeOK
<1>1. /\ deviceLock[d] = Null /\ old.conflictRevision < MaxRevision
      /\ devices' = [devices EXCEPT ![d] = new]
      /\ UNCHANGED <<pc, pending, answer, commands, applied, locks, crashes>>
  BY <1>0 DEF Upload, TypeOK
<1>2. /\ new \in DeviceRow
      /\ new.controlRevision = old.controlRevision
      /\ new.checkpoint = old.checkpoint
      /\ new.decidedBy = Null
  <2>1. MaxRevision \in Nat
    BY CommandsAssumption DEF CommandsAssumption
  <2>2. old.conflictRevision + 1 \in 1..MaxRevision
    BY <1>0, <1>1, <2>1 DEF DeviceRow
  <2>3. PICK middle \in DeviceRow : middle = [old EXCEPT !.conflictRevision = @ + 1]
    BY <1>0, <2>2 DEF DeviceRow
  <2>4. new = [middle EXCEPT !.decidedBy = Null]
    BY <2>3
  <2>5. middle.controlRevision = old.controlRevision /\ middle.checkpoint = old.checkpoint
    BY <1>0, <2>3 DEF DeviceRow
  <2> HIDE DEF new
  <2> QED BY <2>3, <2>4, <2>5 DEF DeviceRow
<1> HIDE DEF new
<1>3. /\ devices' \in [Device -> DeviceRow]
      /\ \A e \in Device : devices'[e] = IF e = d THEN new ELSE devices[e]
  BY <1>0, <1>1, <1>2 DEF TypeOK
<1> USE DEF CommandsInv
<1>4. TypeOK'
  BY <1>1, <1>3 DEF TypeOK, locks
<1>5. LockHeld' /\ Named' /\ Filed' /\ Reserved' /\ RaceHasWinner' /\ InFlight' /\ AnswersStand'
  BY <1>1 DEF LockHeld, Named, Filed, Reserved, RaceHasWinner, InFlight, AnswersStand, Succeeded,
              locks
<1>6. WritesStand'
  <2> SUFFICES ASSUME NEW c \in Call, pc[c] \in {"executed", "reserved"}
               PROVE  devices'[DeviceOf(c)] = devices[DeviceOf(c)]
    BY <1>1 DEF WritesStand
  <2>1. DeviceOf(c) # d
    BY <1>1, CommandsAssumption DEF CommandsAssumption, LockHeld
  <2> QED BY <1>3, <2>1, RequestTypes
<1>7. TakesEffectOnce'
  BY <1>1 DEF TakesEffectOnce, AppliedWith
<1>8. \A e, kind : AppliedTo(e, kind)' = AppliedTo(e, kind)
  BY <1>1 DEF AppliedTo
<1>9. RotationsCounted' /\ CheckpointsAnswered' /\ DecisionsApplied'
  BY <1>1, <1>2, <1>3, <1>8
     DEF RotationsCounted, CheckpointsAnswered, CheckpointAsAnswered, DecisionsApplied
<1> QED BY <1>4, <1>5, <1>6, <1>7, <1>9

(* The commit makes the writes and the row of the commandId visible, and is *)
(* the only way the history grows.                                          *)
LEMMA CommitKeeps ==
  ASSUME NEW c \in Call, CommandsInv, CommitWrites(c), crashes' \in 0..MaxCrashes,
         pc' = [pc EXCEPT ![c] = "answered"],
         NEW type \in {"first", "lost"}, NEW told \in Response \cup {Null},
         answer' = [answer EXCEPT ![c] = Answer(type, told)],
         type = "first" => told = pending[c].response
  PROVE  CommandsInv'
<1> USE DEF CommandsInv
<1> DEFINE m == CommandOf(c)
           d == DeviceOf(c)
           row == [call |-> c, response |-> pending[c].response]
           new == pending[c].row
<1>1. /\ pc[c] \in {"executed", "reserved"} /\ d \in Device
      /\ pending[c] \in [row : DeviceRow, response : Response]
      /\ Executed(c, devices[d], pending[c]) /\ deviceLock[d] = c
      /\ m \in Command => reservation[m] = c /\ commands[m] = Null
  BY RequestTypes, CommandsAssumption
     DEF CommandsAssumption, CommitWrites, WritesStand, LockHeld, Reserved
<1>2. /\ row \in Row /\ row # Null /\ row.call = c /\ row.response = pending[c].response
      /\ new \in DeviceRow /\ new = pending[c].row
  BY <1>1, CommandsAssumption DEF CommandsAssumption, Row
<1> HIDE DEF row, new
<1>3. /\ pc'[c] = "answered"
      /\ \A b \in Call \ {c} : /\ pc'[b] = pc[b]
                               /\ pending'[b] = pending[b]
                               /\ answer'[b] = answer[b]
      /\ answer'[c] = Answer(type, told)
  BY DEF TypeOK, CommitWrites, Release
<1>4. /\ \A b \in Command : commands'[b] = IF b = m THEN row ELSE commands[b]
      /\ commands' \in [Command -> {Null} \cup Row]
  BY <1>2 DEF TypeOK, CommitWrites, row
<1>5. /\ \A e \in Device : devices'[e] = IF e = d THEN new ELSE devices[e]
      /\ devices' \in [Device -> DeviceRow]
  BY <1>1, <1>2 DEF TypeOK, CommitWrites, new
<1>6. applied \in Seq(Row) /\ applied' = Append(applied, row) /\ applied' \in Seq(Row)
  BY <1>2 DEF TypeOK, CommitWrites, row
<1>7. TypeOK'
  <2>1. {deviceLock', advisoryLock'} \subseteq
          [Device -> {Null} \cup {b \in Call : pc'[b] \in InTransaction}]
    BY <1>3 DEF TypeOK, CommitWrites, Release
  <2>2. reservation' \in [Command -> {Null} \cup {b \in Call : pc'[b] = "reserved"}]
    BY <1>3 DEF TypeOK, CommitWrites, Release
  <2>3. pending' \in [Call -> {Null} \cup [row : DeviceRow, response : Response]]
    BY DEF TypeOK, CommitWrites, Release
  <2>4. answer' \in [Call -> [type : AnswerType, response : Response \cup {Null}]]
    BY DEF TypeOK, Answer, AnswerType
  <2>5. pc' \in [Call -> Location]
    BY DEF TypeOK, Location
  <2> QED BY <1>4, <1>5, <1>6, <2>1, <2>2, <2>3, <2>4, <2>5 DEF TypeOK
<1>8. LockHeld'
  BY <1>3, RequestTypes DEF LockHeld, CommitWrites, Release
<1>9. Named' /\ InFlight'
  BY <1>3 DEF Named, InFlight
<1>10. Filed' /\ RaceHasWinner'
  BY <1>2, <1>3, <1>4 DEF Filed, Named, RaceHasWinner
<1>11. Reserved'
  <2> SUFFICES ASSUME NEW b \in Call, pc'[b] = "reserved"
               PROVE  reservation'[CommandOf(b)] = b /\ commands'[CommandOf(b)] = Null
    BY DEF Reserved
  <2>1. /\ b # c /\ CommandOf(b) \in Command
        /\ reservation[CommandOf(b)] = b /\ commands[CommandOf(b)] = Null
    BY <1>3 DEF Reserved, Named
  <2>2. CommandOf(b) # m
    BY <1>1, <2>1
  <2> QED BY <1>4, <2>1, <2>2 DEF CommitWrites, Release
<1>12. WritesStand'
  <2> SUFFICES ASSUME NEW b \in Call, pc'[b] \in {"executed", "reserved"}
               PROVE  /\ b # c
                      /\ devices'[DeviceOf(b)] = devices[DeviceOf(b)]
    BY <1>3 DEF WritesStand
  <2>1. b # c /\ deviceLock[DeviceOf(b)] = b
    BY <1>3 DEF LockHeld
  <2> QED BY <1>1, <1>5, <2>1, RequestTypes
<1>13. AnswersStand'
  <2> SUFFICES ASSUME NEW b \in Call, Succeeded(b)', CommandOf(b) # NoCommand
               PROVE  /\ commands'[CommandOf(b)] # Null
                      /\ Request[b] = Request[commands'[CommandOf(b)].call]
                      /\ answer'[b].response = commands'[CommandOf(b)].response
    BY DEF AnswersStand
  <2>1. CommandOf(b) \in Command
    BY RequestTypes
  <2>2. CASE b = c
    BY <1>2, <1>3, <1>4, <2>1, <2>2 DEF Succeeded, Answer
  <2>3. CASE b # c
    <3>1. Succeeded(b) /\ answer'[b] = answer[b]
      BY <1>3, <2>3 DEF Succeeded
    <3>2. commands'[CommandOf(b)] = commands[CommandOf(b)]
      BY <1>1, <1>4, <2>1, <3>1 DEF AnswersStand
    <3> QED BY <3>1, <3>2 DEF AnswersStand
  <2> QED BY <2>2, <2>3
<1>14. TakesEffectOnce'
  <2> SUFFICES ASSUME NEW b \in Command
               PROVE  Cardinality(AppliedWith(b)') = IF commands'[b] = Null THEN 0 ELSE 1
    BY DEF TakesEffectOnce
  <2>1. Cardinality(AppliedWith(b)) = IF commands[b] = Null THEN 0 ELSE 1
    BY DEF TakesEffectOnce
  <2>2. CASE b = m
    <3>1. Cardinality(AppliedWith(b)') = Cardinality(AppliedWith(b)) + 1
      BY <1>2, <1>6, <2>2, AppliedWithAppended
    <3>2. commands[b] = Null /\ commands'[b] # Null
      BY <1>1, <1>2, <1>4, <2>2
    <3> QED BY <2>1, <3>1, <3>2
  <2>3. CASE b # m
    <3>1. AppliedWith(b)' = AppliedWith(b)
      BY <1>2, <1>6, <2>3, AppliedWithAppended
    <3> QED BY <1>4, <2>1, <2>3, <3>1
  <2> QED BY <2>2, <2>3
<1> DEFINE n == Len(applied) + 1
<1>15. RotationsCounted'
  <2> SUFFICES ASSUME NEW e \in Device
               PROVE  devices'[e].controlRevision = 1 + Cardinality(AppliedTo(e, "rotate")')
    BY DEF RotationsCounted
  <2>1. devices[e].controlRevision = 1 + Cardinality(AppliedTo(e, "rotate"))
    BY DEF RotationsCounted
  <2>2. CASE e = d /\ KindOf(c) = "rotate"
    <3>1. new.controlRevision = devices[d].controlRevision + 1
      BY <1>1, <1>2, <2>2 DEF Executed, TypeOK, DeviceRow
    <3>2. /\ Cardinality(AppliedTo(e, "rotate")') = Cardinality(AppliedTo(e, "rotate")) + 1
          /\ Cardinality(AppliedTo(e, "rotate")) \in Nat
      BY <1>2, <1>6, <2>2, AppliedToAppended
    <3> QED BY <1>5, <2>1, <2>2, <3>1, <3>2
  <2>3. CASE ~(e = d /\ KindOf(c) = "rotate")
    <3>1. AppliedTo(e, "rotate")' = AppliedTo(e, "rotate")
      BY <1>2, <1>6, <2>3, AppliedToAppended
    <3>2. devices'[e].controlRevision = devices[e].controlRevision
      BY <1>1, <1>2, <1>5, <2>3 DEF Executed, TypeOK, DeviceRow
    <3> QED BY <2>1, <3>1, <3>2
  <2> QED BY <2>2, <2>3
<1>16. CheckpointsAnswered'
  <2> SUFFICES ASSUME NEW e \in Device
               PROVE  /\ \A i \in AppliedTo(e, "compact")' :
                           applied'[i].response =< devices'[e].checkpoint
                      /\ devices'[e].checkpoint # 0 =>
                           \E i \in AppliedTo(e, "compact")' :
                             /\ applied'[i].response = devices'[e].checkpoint
                             /\ devices'[e].checkpoint =< Cutoff(applied'[i].call)
    BY DEF CheckpointsAnswered, CheckpointAsAnswered
  <2>1. /\ \A i \in AppliedTo(e, "compact") : applied[i].response =< devices[e].checkpoint
        /\ devices[e].checkpoint # 0 =>
             \E i \in AppliedTo(e, "compact") :
               /\ applied[i].response = devices[e].checkpoint
               /\ devices[e].checkpoint =< Cutoff(applied[i].call)
    BY DEF CheckpointsAnswered, CheckpointAsAnswered
  <2>2. \A i \in AppliedTo(e, "compact") : applied'[i] = applied[i]
    BY <1>6 DEF AppliedTo
  <2>3. CASE e = d /\ KindOf(c) = "compact"
    <3>1. AppliedTo(e, "compact")' = AppliedTo(e, "compact") \cup {n} /\ applied'[n] = row
      BY <1>2, <1>6, <2>3, AppliedToAppended
    <3>2. /\ devices'[e].checkpoint = row.response
          /\ \/ devices[e].checkpoint < row.response /\ row.response =< Cutoff(c)
             \/ row.response = devices[e].checkpoint
      BY <1>1, <1>2, <1>5, <2>3 DEF Executed, TypeOK, DeviceRow
    <3>3. CASE devices[e].checkpoint < row.response /\ row.response =< Cutoff(c)
      <4>1. \A i \in AppliedTo(e, "compact") : applied[i].response \in Nat
        <5>1. \A i \in AppliedTo(e, "compact") : applied[i] \in Row
          BY <1>6 DEF AppliedTo
        <5>2. \A r \in Row : r.response \in Response
          BY DEF Row
        <5> QED BY <5>1, <5>2, ResponseTypes
      <4>2. row.response \in Nat /\ devices[e].checkpoint \in Nat
        <5>1. row.response \in Response
          BY <1>2 DEF Row
        <5>2. devices[e] \in DeviceRow
          BY DEF TypeOK
        <5>3. devices[e].checkpoint \in 0..HighWatermark /\ HighWatermark \in Nat
          BY <5>2, CommandsAssumption DEF CommandsAssumption, DeviceRow
        <5>4. row.response \in Nat
          BY <5>1, ResponseTypes
        <5>5. devices[e].checkpoint \in Nat
          BY <5>3
        <5> QED BY <5>4, <5>5
      <4>3. \A i \in AppliedTo(e, "compact")' : applied'[i].response =< devices'[e].checkpoint
        <5> SUFFICES ASSUME NEW i \in AppliedTo(e, "compact")'
                     PROVE  applied'[i].response =< row.response
          BY <3>2
        <5>1. CASE i = n
          BY <3>1, <4>2, <5>1
        <5>2. CASE i \in AppliedTo(e, "compact")
          BY <2>1, <2>2, <3>3, <4>1, <4>2, <5>2
        <5> QED BY <3>1, <5>1, <5>2
      <4>4. \E i \in AppliedTo(e, "compact")' :
              /\ applied'[i].response = devices'[e].checkpoint
              /\ devices'[e].checkpoint =< Cutoff(applied'[i].call)
        BY <1>2, <3>1, <3>2, <3>3
      <4> QED BY <4>3, <4>4
    <3>4. CASE row.response = devices[e].checkpoint
      BY <2>1, <2>2, <3>1, <3>2, <3>4
    <3> QED BY <3>2, <3>3, <3>4
  <2>4. CASE ~(e = d /\ KindOf(c) = "compact")
    <3>1. AppliedTo(e, "compact")' = AppliedTo(e, "compact")
      BY <1>2, <1>6, <2>4, AppliedToAppended
    <3>2. devices'[e].checkpoint = devices[e].checkpoint
      BY <1>1, <1>2, <1>5, <2>4 DEF Executed, TypeOK, DeviceRow
    <3> QED BY <2>1, <2>2, <3>1, <3>2
  <2> QED BY <2>3, <2>4
<1>17. DecisionsApplied'
  <2> SUFFICES ASSUME NEW e \in Device, devices'[e].decidedBy # Null
               PROVE  \E i \in AppliedTo(e, "adjudicate")' :
                        CommandOf(applied'[i].call) = devices'[e].decidedBy
    BY DEF DecisionsApplied
  <2>1. \A i \in AppliedTo(e, "adjudicate") :
          i \in AppliedTo(e, "adjudicate")' /\ applied'[i] = applied[i]
    <3>1. AppliedTo(e, "adjudicate") \subseteq AppliedTo(e, "adjudicate")'
      <4>1. CASE e = d /\ KindOf(c) = "adjudicate"
        <5>1. AppliedTo(e, "adjudicate")' = AppliedTo(e, "adjudicate") \cup {n}
          BY <1>2, <1>6, <4>1, AppliedToAppended
        <5> QED BY <5>1
      <4>2. CASE ~(e = d /\ KindOf(c) = "adjudicate")
        <5>1. AppliedTo(e, "adjudicate")' = AppliedTo(e, "adjudicate")
          BY <1>2, <1>6, <4>2, AppliedToAppended
        <5> QED BY <5>1
      <4> QED BY <4>1, <4>2
    <3>2. \A i \in AppliedTo(e, "adjudicate") : applied'[i] = applied[i]
      BY <1>6 DEF AppliedTo
    <3> QED BY <3>1, <3>2
  <2>2. CASE e = d /\ KindOf(c) = "adjudicate"
    <3>1. n \in AppliedTo(e, "adjudicate")' /\ applied'[n] = row
      BY <1>2, <1>6, <2>2, AppliedToAppended
    <3>2. devices'[e].decidedBy = CommandOf(c)
      BY <1>1, <1>2, <1>5, <2>2 DEF Executed, TypeOK, DeviceRow
    <3> QED BY <1>2, <3>1, <3>2
  <2>3. CASE ~(e = d /\ KindOf(c) = "adjudicate")
    <3>1. devices'[e].decidedBy = devices[e].decidedBy
      BY <1>1, <1>2, <1>5, <2>3 DEF Executed, TypeOK, DeviceRow
    <3> QED BY <2>1, <3>1 DEF DecisionsApplied
  <2> QED BY <2>2, <2>3
<1> QED BY <1>7, <1>8, <1>9, <1>10, <1>11, <1>12, <1>13, <1>14, <1>15, <1>16, <1>17

LEMMA CommittedKeeps ==
  ASSUME NEW c \in Call, CommandsInv, Commit(c) \/ CommitLost(c)
  PROVE  CommandsInv'
<1>0. TypeOK /\ WritesStand
  BY DEF CommandsInv
<1>1. CommitWrites(c) /\ pc' = [pc EXCEPT ![c] = "answered"] /\ pending[c].response \in Response
  BY <1>0 DEF Commit, CommitLost, CommitWrites, WritesStand
<1>2. crashes' \in 0..MaxCrashes
  BY <1>0, CommandsAssumption DEF CommandsAssumption, TypeOK, Commit, CommitLost
<1>3. CASE Commit(c)
  BY <1>1, <1>2, <1>3, CommitKeeps DEF Commit
<1>4. CASE CommitLost(c)
  BY <1>1, <1>2, <1>4, CommitKeeps DEF CommitLost
<1> QED BY <1>3, <1>4

-----------------------------------------------------------------------------
(* What the statements of a command know of each other's transactions,      *)
(* under any interleaving, crash and retry (idempotency.mjs:44-131).        *)
THEOREM CommandsInvariant == Spec => []CommandsInv
<1>1. Init => CommandsInv
  BY InitCommands
<1>2. CommandsInv /\ [Next]_vars => CommandsInv'
  <2> SUFFICES ASSUME CommandsInv, [Next]_vars PROVE CommandsInv'
    OBVIOUS
  <2>1. CASE \E c \in Call : Statement(c) \/ ConnectTimeout(c) \/ CommitLost(c) \/ Resend(c)
    BY <2>1, MoveKeeps, LockDeviceKeeps, ExecuteKeeps, ReserveKeeps, AnswerKeeps, CommittedKeeps
       DEF Statement
  <2>2. CASE \E p \in Instance : Crash(p)
    BY <2>2, CrashKeeps
  <2>3. CASE \E d \in Device : Upload(d)
    BY <2>3, UploadKeeps
  <2>4. CASE UNCHANGED vars
    <3>1. UNCHANGED <<pc, pending, answer, tables, locks, crashes>>
      BY <2>4 DEF vars
    <3> QED BY <3>1, EffectsKept
               DEF tables, locks, CommandsInv, TypeOK, LockHeld, Named, Reserved, RaceHasWinner,
                   InFlight, WritesStand, AnswersStand, Succeeded
  <2> QED BY <2>1, <2>2, <2>3, <2>4 DEF Next
<1> QED BY <1>1, <1>2, PTL DEF Spec

(* Locks and uncommitted rows belong to open transactions, and no           *)
(* checkpoint passes the watermark (pool.mjs:35-53, compaction.mjs:72-78).  *)
THEOREM CommandsTypes == Spec => []TypeOK
BY CommandsInvariant, PTL DEF CommandsInv

(* A commandId takes effect at most once, and is reserved exactly when it   *)
(* did (idempotency.mjs:3-7, 14-18).                                        *)
THEOREM EffectOnce == Spec => []TakesEffectOnce
BY CommandsInvariant, PTL DEF CommandsInv

(* Everyone told of success under a commandId asked for the same and holds  *)
(* the same response (idempotency.mjs:10-13).                               *)
THEOREM CallersAgree == Spec => []AnswersAgree
<1>1. CommandsInv => AnswersAgree
  BY DEF CommandsInv, AnswersStand, AnswersAgree
<1> QED BY <1>1, CommandsInvariant, PTL

(* The rows of a device are what the commands that took effect, and the     *)
(* compactions without a commandId, make of them and answered               *)
(* (idempotency.mjs:15-18, devices.mjs:87-100, compaction.mjs:11-16).       *)
THEOREM RowsAreCommands == Spec => []RowsMatchCommands
<1>1. CommandsInv => RowsMatchCommands
  BY DEF CommandsInv, RowsMatchCommands, RotationsCounted, CheckpointsAnswered, DecisionsApplied
<1> QED BY <1>1, CommandsInvariant, PTL

(* A decision commits only at the revision it quotes (conflicts.mjs:2-4,    *)
(* 101-132).                                                                *)
THEOREM DecisionsQuoteTheirRevision == Spec => DecisionsAreCurrent
<1>1. ASSUME CommandsInv, [Next]_vars, NEW i \in DOMAIN applied' \ DOMAIN applied,
             KindOf(applied'[i].call) = "adjudicate"
      PROVE  Request[applied'[i].call].argument =
               devices[DeviceOf(applied'[i].call)].conflictRevision
  <2>1. applied' # applied
    BY <1>1
  <2>2. \E b \in Call : CommitWrites(b)
    BY <1>1, <2>1 DEF Next, Statement, Begin, LookupHit, LookupMiss, TryAdvisory, AdvisoryBusy,
       LockDevice, Rotate, Adjudicate, Compact, Skip, Produce, Refuse, NotEligible, Reserve,
       ReserveRace, StartReread, Reread, Commit, CommitLost, ConnectTimeout, Crash, Resend, Upload,
       Finish, tables, vars
  <2>3. PICK c \in Call : CommitWrites(c)
    BY <2>2
  <2> DEFINE row == [call |-> c, response |-> pending[c].response]
  <2>4. row \in Row
    BY <1>1, <2>3 DEF CommitWrites, CommandsInv, WritesStand, Row
  <2>5. applied'[i].call = c
    <3>1. applied \in Seq(Row) /\ applied' = Append(applied, row) /\ row.call = c
      BY <1>1, <2>3 DEF CommandsInv, TypeOK, CommitWrites
    <3> HIDE DEF row
    <3> DEFINE n == Len(applied) + 1
    <3>2. applied'[n] = row /\ DOMAIN applied' = DOMAIN applied \cup {n}
      BY <2>4, <3>1, Appended
    <3> QED BY <1>1, <3>1, <3>2
  <2> QED BY <1>1, <2>3, <2>5 DEF CommitWrites, CommandsInv, WritesStand, Executed
<1>2. CommandsInv /\ [Next]_vars =>
        [\A i \in DOMAIN applied' \ DOMAIN applied :
           LET c == applied'[i].call
           IN  KindOf(c) = "adjudicate" =>
                 Request[c].argument = devices[DeviceOf(c)].conflictRevision]_vars
  BY <1>1
<1> QED BY <1>2, CommandsInvariant, PTL DEF Spec, DecisionsAreCurrent

-----------------------------------------------------------------------------
(* The refinement, step by step.                                            *)

LEMMA AdministrativeTypes ==
  ASSUME NEW c \in Administrative
  PROVE  /\ c \in Call
         /\ CommandOf(c) \in Command
         /\ Promise!IdOf(c) = CommandOf(c)
         /\ Recorded[CommandOf(c)] = commands[CommandOf(c)]
         /\ Promise!Bound(c) <=> commands[CommandOf(c)] # Null
<1>1. c \in Call /\ CommandOf(c) \in Command
  BY RequestTypes DEF Administrative
<1>2. Promise!IdOf(c) = CommandOf(c) /\ Recorded[CommandOf(c)] = commands[CommandOf(c)]
  BY DEF Promise!IdOf, Asked, Recorded
<1> QED BY <1>1, <1>2 DEF Promise!Bound

LEMMA PromiseInit == Init => Promise!Init
<1> SUFFICES ASSUME Init PROVE Promise!Init
  OBVIOUS
<1>1. \A c \in Administrative : c \in Call /\ CommandOf(c) \in Command /\ Promise!IdOf(c) = CommandOf(c)
  BY AdministrativeTypes
<1>2. Recorded = [i \in {Promise!IdOf(c) : c \in Administrative} |-> Null]
  BY <1>1 DEF Init, Recorded
<1>3. Missed = {}
  BY <1>1 DEF Init, Missed
<1>4. Told = [c \in Administrative |-> Promise!Answer("none", Null)]
  BY <1>1 DEF Init, Told, NoAnswer, Promise!Answer
<1> QED BY <1>2, <1>3, <1>4 DEF Promise!Init

(* A step that changes neither the rows on file nor what administrators     *)
(* were told, and moves no call over its lookup, is none to them.           *)
LEMMA Unnoticed ==
  ASSUME UNCHANGED commands,
         \A c \in Administrative :
           /\ answer'[c] = answer[c]
           /\ pc'[c] \in {"queued", "begun", "answered"} <=> pc[c] \in {"queued", "begun", "answered"}
  PROVE  UNCHANGED Promise!vars
<1>1. Recorded' = Recorded
  BY DEF Recorded
<1>2. Told' = Told
  BY DEF Told
<1>3. Missed' = Missed
  BY DEF Missed
<1> QED BY <1>1, <1>2, <1>3 DEF Promise!vars

(* A call that ends, or is sent again, changes what its own caller knows.   *)
LEMMA CallerIsTold ==
  ASSUME CommandsInv, NEW c \in Administrative, NEW type, NEW response,
         NEW to \in {"queued", "answered"},
         pc' = [pc EXCEPT ![c] = to],
         answer' = [answer EXCEPT ![c] = Answer(type, response)]
  PROVE  Promise!Tell(c, IF type = "not_eligible" THEN "refused" ELSE type, response)
<1>1. c \in Call /\ Administrative \subseteq Call
  BY AdministrativeTypes
<1>2. /\ pc'[c] = to /\ answer'[c] = Answer(type, response)
      /\ \A b \in Call \ {c} : pc'[b] = pc[b] /\ answer'[b] = answer[b]
  BY <1>1 DEF CommandsInv, TypeOK
<1>3. Missed' = Missed \ {c}
  BY <1>1, <1>2 DEF Missed
<1>4. Told' = [Told EXCEPT ![c] =
                 Promise!Answer(IF type = "not_eligible" THEN "refused" ELSE type, response)]
  <2>1. Told'[c] = Promise!Answer(IF type = "not_eligible" THEN "refused" ELSE type, response)
    <3>1. [Answer(type, response) EXCEPT !.type = "refused"] = Promise!Answer("refused", response)
      BY DEF Answer, Promise!Answer
    <3>2. Answer(type, response).type = type
      BY DEF Answer
    <3> QED BY <1>2, <3>1, <3>2 DEF Told, Answer, Promise!Answer
  <2>2. \A b \in Administrative \ {c} : Told'[b] = Told[b]
    BY <1>1, <1>2 DEF Told
  <2>3. Told' = [b \in Administrative |-> Told'[b]] /\ Told = [b \in Administrative |-> Told[b]]
    BY DEF Told
  <2> QED BY <2>1, <2>2, <2>3
<1> QED BY <1>3, <1>4 DEF Promise!Tell

(* A repetition in the promise is the comparison of the request hashes.     *)
LEMMA SameIsRepeated ==
  ASSUME NEW c \in Administrative, CommandsInv, commands[CommandOf(c)] # Null
  PROVE  Promise!Repeated(c) <=> SameRequest(commands[CommandOf(c)].call, c)
<1> DEFINE b == commands[CommandOf(c)].call
<1>1. c \in Call /\ CommandOf(c) \in Command
  BY AdministrativeTypes
<1>2. b \in Call /\ CommandOf(b) = CommandOf(c)
  BY <1>1 DEF CommandsInv, TypeOK, Filed, Row
<1>3. b \in Administrative
  BY <1>2 DEF Administrative
<1>4. Asked[b] = Asked[c] <=> SameRequest(b, c)
  <2> HIDE DEF b
  <2> QED BY <1>2, <1>3 DEF Asked, SameRequest
<1> QED BY <1>4, AdministrativeTypes DEF Promise!Repeated

LEMMA ReplayOrConflict ==
  ASSUME NEW c \in Administrative, CommandsInv, commands[CommandOf(c)] # Null,
         Finish(c, Resolve(c))
  PROVE  Promise!Replay(c) \/ Promise!Conflict(c)
<1> DEFINE row == commands[CommandOf(c)]
<1>1. UNCHANGED Recorded
  BY DEF Finish, tables, Recorded
<1>2. CASE SameRequest(row.call, c)
  <2>1. Resolve(c) = Answer("replayed", row.response)
    BY <1>2 DEF Resolve
  <2>2. Promise!Tell(c, "replayed", row.response)
    BY <2>1, CallerIsTold DEF Finish
  <2> QED BY <1>1, <1>2, <2>2, SameIsRepeated, AdministrativeTypes DEF Promise!Replay
<1>3. CASE ~ SameRequest(row.call, c)
  <2>1. Resolve(c) = Answer("idempotency_conflict", Null)
    BY <1>3 DEF Resolve
  <2>2. Promise!Tell(c, "idempotency_conflict", Null)
    BY <2>1, CallerIsTold DEF Finish
  <2> QED BY <1>1, <1>3, <2>2, SameIsRepeated, AdministrativeTypes DEF Promise!Conflict
<1> QED BY <1>2, <1>3

(* Whoever is refused looked its commandId up before anyone had bound it.   *)
LEMMA RefusedMissed ==
  ASSUME NEW c \in Administrative, CommandsInv, AdvisoryBusy(c) \/ Refuse(c) \/ NotEligible(c)
  PROVE  Promise!Refuse(c)
<1>1. PICK type \in {"refused", "not_eligible"} : Finish(c, Answer(type, Null))
  BY DEF AdvisoryBusy, Refuse, NotEligible
<1>2. UNCHANGED Recorded
  BY <1>1 DEF Finish, tables, Recorded
<1>3. Promise!Tell(c, "refused", Null)
  BY <1>1, CallerIsTold DEF Finish
<1>4. c \in Missed
  BY DEF AdvisoryBusy, Refuse, NotEligible, Missed
<1> QED BY <1>2, <1>3, <1>4 DEF Promise!Refuse

LEMMA MissMisses ==
  ASSUME NEW c \in Administrative, CommandsInv, LookupMiss(c)
  PROVE  Promise!Miss(c)
<1>1. c \in Call /\ Administrative \subseteq Call
  BY AdministrativeTypes
<1>2. pc'[c] = "missed" /\ \A b \in Call \ {c} : pc'[b] = pc[b]
  BY <1>1 DEF LookupMiss, Go, CommandsInv, TypeOK
<1>3. Missed' = Missed \cup {c}
  BY <1>1, <1>2 DEF Missed
<1>4. UNCHANGED <<Recorded, Told>>
  BY DEF LookupMiss, tables, Recorded, Told
<1>5. ~ Promise!Bound(c)
  BY AdministrativeTypes DEF LookupMiss
<1> QED BY <1>3, <1>4, <1>5 DEF Promise!Miss

LEMMA CommitExecutes ==
  ASSUME NEW c \in Administrative, CommandsInv, Commit(c) \/ CommitLost(c)
  PROVE  Promise!Execute(c)
<1> DEFINE response == pending[c].response
           m == CommandOf(c)
<1>1. c \in Call /\ m \in Command /\ m # NoCommand
  BY AdministrativeTypes DEF Administrative
<1>2. /\ CommitWrites(c) /\ pc' = [pc EXCEPT ![c] = "answered"]
      /\ \/ answer' = [answer EXCEPT ![c] = Answer("first", response)]
         \/ answer' = [answer EXCEPT ![c] = Answer("lost", Null)]
  BY DEF Commit, CommitLost
<1>3. pc[c] = "reserved" /\ commands[m] = Null /\ response \in Response
  BY <1>1, <1>2 DEF CommitWrites, CommandsInv, Reserved, WritesStand
<1>4. Recorded' = [Recorded EXCEPT ![m] = [call |-> c, response |-> response]]
  <2>1. \A i \in {CommandOf(b) : b \in Administrative} :
          commands'[i] = IF i = m THEN [call |-> c, response |-> response] ELSE commands[i]
    BY <1>2, AdministrativeTypes DEF CommitWrites
  <2>2. m \in {CommandOf(b) : b \in Administrative}
    OBVIOUS
  <2> HIDE DEF m, response
  <2> QED BY <2>1, <2>2 DEF Recorded
<1>5. Promise!Tell(c, "first", response) \/ Promise!Tell(c, "lost", Null)
  BY <1>2, CallerIsTold
<1>6. ~ Promise!Bound(c) /\ Promise!IdOf(c) = m
  BY <1>3, AdministrativeTypes
<1> HIDE DEF m, response
<1> QED BY <1>3, <1>4, <1>5, <1>6 DEF Promise!Execute

LEMMA FailureFails ==
  ASSUME CommandsInv, NEW cs \in SUBSET Call, NEW type \in {"failed", "lost"},
         UNCHANGED tables,
         pc' = [c \in Call |-> IF c \in cs THEN "answered" ELSE pc[c]],
         answer' = [c \in Call |-> IF c \in cs THEN Answer(type, Null) ELSE answer[c]],
         \A c \in cs : answer[c] = NoAnswer
  PROVE  Promise!Fail(type)
<1>1. Administrative \subseteq Call
  BY AdministrativeTypes
<1>2. \A c \in Administrative :
        Told'[c] = IF c \in cs THEN Promise!Answer(type, Null) ELSE Told[c]
  BY <1>1 DEF Told, Answer, Promise!Answer
<1>3. {c \in Administrative : Told'[c] # Told[c]} = cs \cap Administrative
  <2>1. \A c \in cs \cap Administrative : Told[c] = Promise!Answer("none", Null)
    BY DEF Told, NoAnswer, Promise!Answer
  <2>2. Promise!Answer(type, Null) # Promise!Answer("none", Null)
    BY DEF Promise!Answer
  <2> QED BY <1>2, <2>1, <2>2
<1>4. Missed' = Missed \ (cs \cap Administrative)
  BY <1>1 DEF Missed
<1>5. Told' = [c \in Administrative |->
                 IF c \in cs \cap Administrative THEN Promise!Answer(type, Null) ELSE Told[c]]
  BY <1>2 DEF Told
<1>6. Recorded' = Recorded
  BY DEF tables, Recorded
<1> QED BY <1>3, <1>4, <1>5, <1>6 DEF Promise!Fail

(* Every step of a command is a step of the promise, or none to             *)
(* administrators.                                                          *)
LEMMA StepPromised ==
  ASSUME CommandsInv, [Next]_vars
  PROVE  [Promise!Next]_(Promise!vars)
<1>0. TypeOK /\ InFlight /\ Administrative \subseteq Call
  BY AdministrativeTypes DEF CommandsInv
<1>1. ASSUME NEW c \in Call, c \notin Administrative,
             Statement(c) \/ ConnectTimeout(c) \/ CommitLost(c) \/ Resend(c)
      PROVE  UNCHANGED Promise!vars
  <2>1. \A b \in Call \ {c} : pc'[b] = pc[b] /\ answer'[b] = answer[b]
    BY <1>0, <1>1 DEF TypeOK, Statement, Begin, LookupHit, LookupMiss, TryAdvisory, AdvisoryBusy,
       LockDevice, Rotate, Adjudicate, Compact, Skip, Produce, Refuse, NotEligible, Reserve, ReserveRace,
       StartReread, Reread, Commit, CommitLost, ConnectTimeout, Resend, Finish, Go
  <2>2. CASE Commit(c) \/ CommitLost(c)
    <3>1. \A m \in Command : m # CommandOf(c)
      BY <1>1, CommandsAssumption DEF CommandsAssumption, Administrative
    <3>2. commands' = [m \in Command |-> commands[m]] /\ DOMAIN commands = Command
      BY <1>0, <2>2, <3>1 DEF Commit, CommitLost, CommitWrites, TypeOK
    <3> QED BY <1>0, <1>1, <2>1, <3>2, Unnoticed DEF TypeOK
  <2>3. CASE ~(Commit(c) \/ CommitLost(c))
    <3>1. UNCHANGED commands
      BY <1>1, <2>3 DEF Statement, Begin, LookupHit, LookupMiss, TryAdvisory, AdvisoryBusy,
         LockDevice, Rotate, Adjudicate, Compact, Skip, Produce, Refuse, NotEligible, Reserve,
         ReserveRace, StartReread, Reread, ConnectTimeout, Resend, Finish, tables
    <3> QED BY <1>0, <1>1, <2>1, <3>1, Unnoticed
  <2> QED BY <2>2, <2>3
<1>2. ASSUME NEW c \in Administrative, AdvisoryBusy(c) \/ Refuse(c) \/ NotEligible(c)
      PROVE  Promise!Next
  BY <1>2, RefusedMissed DEF Promise!Next
<1>3. ASSUME NEW c \in Administrative, LookupHit(c) \/ Reread(c) PROVE Promise!Next
  <2>1. commands[CommandOf(c)] # Null /\ Finish(c, Resolve(c))
    BY <1>0, <1>3 DEF LookupHit, Reread, CommandsInv, RaceHasWinner
  <2> QED BY <2>1, ReplayOrConflict DEF Promise!Next
<1>4. ASSUME NEW c \in Administrative, Commit(c) \/ CommitLost(c) PROVE Promise!Next
  BY <1>4, CommitExecutes DEF Promise!Next
<1>5. ASSUME NEW c \in Administrative, LookupMiss(c) PROVE Promise!Next
  BY <1>5, MissMisses DEF Promise!Next
<1>6. ASSUME NEW c \in Administrative, Resend(c) PROVE Promise!Next
  <2>1. Promise!Tell(c, "none", Null) /\ UNCHANGED Recorded
    BY <1>6, CallerIsTold DEF Resend, NoAnswer, Answer, tables, Recorded
  <2>2. Promise!Resend(c)
    BY <2>1 DEF Promise!Resend
  <2> QED BY <2>2 DEF Promise!Next
<1>7. ASSUME NEW c \in Administrative, ConnectTimeout(c) PROVE Promise!Next
  <2> DEFINE cs == {c}
  <2>1. /\ UNCHANGED tables /\ cs \in SUBSET Call
        /\ pc' = [b \in Call |-> IF b \in cs THEN "answered" ELSE pc[b]]
        /\ answer' = [b \in Call |-> IF b \in cs THEN Answer("failed", Null) ELSE answer[b]]
        /\ \A b \in cs : answer[b] = NoAnswer
    BY <1>0, <1>7 DEF ConnectTimeout, Finish, TypeOK, InFlight
  <2> HIDE DEF cs
  <2>2. Promise!Fail("failed")
    BY <2>1, FailureFails
  <2> QED BY <2>2 DEF Promise!Next
<1>8. ASSUME NEW p \in Instance, Crash(p) PROVE Promise!Next
  <2> DEFINE lost == {c \in Call : Home[c] = p /\ pc[c] # "answered"}
  <2>1. /\ UNCHANGED tables /\ lost \in SUBSET Call
        /\ pc' = [c \in Call |-> IF c \in lost THEN "answered" ELSE pc[c]]
        /\ answer' = [c \in Call |-> IF c \in lost THEN Answer("lost", Null) ELSE answer[c]]
        /\ \A c \in lost : answer[c] = NoAnswer
    BY <1>0, <1>8 DEF Crash, InFlight
  <2> HIDE DEF lost
  <2>2. Promise!Fail("lost")
    BY <2>1, FailureFails
  <2> QED BY <2>2 DEF Promise!Next
<1>9. ASSUME NEW c \in Administrative,
             \/ Begin(c) \/ TryAdvisory(c) \/ LockDevice(c) \/ Rotate(c) \/ Adjudicate(c)
             \/ Compact(c) \/ Skip(c) \/ Reserve(c) \/ ReserveRace(c) \/ StartReread(c)
      PROVE  UNCHANGED Promise!vars
  <2>1. UNCHANGED <<commands, answer>>
    BY <1>9 DEF Begin, TryAdvisory, LockDevice, Rotate, Adjudicate, Compact, Skip, Produce, Reserve,
                ReserveRace, StartReread, tables
  <2>2. \E from, to \in Location :
          /\ Go(c, from, to)
          /\ from \in {"queued", "begun", "answered"} <=> to \in {"queued", "begun", "answered"}
    BY <1>9 DEF Begin, TryAdvisory, LockDevice, Rotate, Adjudicate, Compact, Skip, Produce, Reserve,
                ReserveRace, StartReread, Location, Administrative
  <2>3. \A b \in Administrative :
          pc'[b] \in {"queued", "begun", "answered"} <=> pc[b] \in {"queued", "begun", "answered"}
    BY <1>0, <2>2 DEF Go, TypeOK
  <2> QED BY <2>1, <2>3, Unnoticed
<1>10. CASE (\E d \in Device : Upload(d)) \/ UNCHANGED vars
  <2>1. UNCHANGED <<commands, answer, pc>>
    BY <1>10 DEF Upload, vars, tables
  <2> QED BY <2>1, Unnoticed
<1> QED BY <1>1, <1>2, <1>3, <1>4, <1>5, <1>6, <1>7, <1>8, <1>9, <1>10 DEF Next, Statement

(* To administrators a command is Idempotency, for any calls, instances,    *)
(* devices, races, crashes and retries: the first success binds the id for  *)
(* ever, and a call that comes after it is never refused                    *)
(* (idempotency.mjs:3-18, 44-131).                                          *)
THEOREM RefinesIdempotency == Spec => ImplementsIdempotency
<1>1. CommandsInv /\ [Next]_vars => [Promise!Next]_(Promise!vars)
  BY StepPromised
<1> QED BY <1>1, PromiseInit, CommandsInvariant, PTL DEF Spec, ImplementsIdempotency, Promise!Spec

=============================================================================
