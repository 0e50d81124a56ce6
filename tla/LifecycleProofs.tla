--------------------------- MODULE LifecycleProofs ---------------------------
(***************************************************************************)
(* For any number of processes, migration files and faults: a migrator     *)
(* that found a file missing is the only one that can apply it, and no     *)
(* process works before the schema is complete.                            *)
(***************************************************************************)
EXTENDS Lifecycle, TLAPS

(* The session lock belongs to the process that is past it.                 *)
LockHeld == \A p \in Process :
  pc[p] \in {"checking", "applying", "unlocking", "failing"} => lock = p

(* What lies behind a migration loop is recorded.                           *)
LoopBehind == \A p \in Process : \A f \in File : f < next[p] => f \in recorded

LoopDone == \A p \in Process :
  pc[p] \in {"unlocking", "running"} => next[p] = FileCount + 1

(* The file to apply is one of the files.                                   *)
LoopInside == \A p \in Process : pc[p] = "applying" => next[p] \in File

MigrationInv ==
  /\ TypeOK
  /\ LockHeld
  /\ LoopBehind
  /\ LoopDone
  /\ LoopInside
  /\ ChecksStillHold

-----------------------------------------------------------------------------
LEMMA InitMigration == Init => MigrationInv
<1> SUFFICES ASSUME Init PROVE MigrationInv
  OBVIOUS
<1> USE LifecycleAssumption DEF LifecycleAssumption
<1>1. TypeOK
  <2>1. 1 \in 1..(FileCount + 1) /\ 0 \in 0..MaxFaults
    OBVIOUS
  <2>2. next \in [Process -> 1..(FileCount + 1)] /\ faults \in 0..MaxFaults
    BY <2>1 DEF Init
  <2>3. \A p \in Process : pc[p] = "down" /\ job[p] = "none" /\ p \notin warm \cup stopping
    BY DEF Init
  <2> QED BY <2>2, <2>3 DEF Init, TypeOK
<1>2. ChecksStillHold
  <2>1. recorded = 1..0
    BY DEF Init
  <2>2. 0 \in 0..FileCount
    OBVIOUS
  <2> QED BY <2>1, <2>2 DEF Init, ChecksStillHold, Process
<1>3. LockHeld /\ LoopBehind /\ LoopDone /\ LoopInside
  BY DEF Init, LockHeld, LoopBehind, LoopDone, LoopInside, Process, File
<1> QED BY <1>1, <1>2, <1>3 DEF MigrationInv

(* Processes may stop at any point: what they leave behind keeps the        *)
(* invariant, whatever becomes of the jobs.                                 *)
LEMMA EndedKeeps ==
  ASSUME NEW P \in SUBSET Process, MigrationInv, Ended(P), UNCHANGED recorded,
         dbUp' \in BOOLEAN, faults' \in 0..MaxFaults, warm' \subseteq warm \ P,
         job' \in [Process -> {"none", "parsing", "querying", "between", "replying"}],
         \A p \in Process : (p \in P \/ job[p] = "none") => job'[p] = "none"
  PROVE  MigrationInv'
<1> USE LifecycleAssumption DEF LifecycleAssumption, MigrationInv, Ended
<1>1. TypeOK'
  BY DEF TypeOK, Process, File
<1>2. LockHeld'
  <2> SUFFICES ASSUME NEW p \in Process,
                      pc'[p] \in {"checking", "applying", "unlocking", "failing"}
               PROVE  lock' = p
    BY DEF LockHeld
  <2>1. p \notin P /\ pc[p] = pc'[p]
    BY DEF TypeOK
  <2>2. lock = p
    BY <2>1 DEF LockHeld
  <2> QED BY <2>1, <2>2
<1>3. LoopBehind'
  <2> SUFFICES ASSUME NEW p \in Process, NEW f \in File, f < next'[p]
               PROVE  f \in recorded
    BY DEF LoopBehind
  <2>1. CASE p \in P
    BY <2>1 DEF File
  <2>2. CASE p \notin P
    BY <2>2 DEF LoopBehind
  <2> QED BY <2>1, <2>2
<1>4. LoopDone' /\ LoopInside'
  BY DEF TypeOK, LoopDone, LoopInside
<1>5. ChecksStillHold'
  BY DEF TypeOK, ChecksStillHold
<1> QED BY <1>1, <1>2, <1>3, <1>4, <1>5

LEMMA EndsKeeps ==
  ASSUME NEW p \in Process, MigrationInv, Ends(p), faults' \in 0..MaxFaults
  PROVE  MigrationInv'
<1>1. TypeOK
  BY DEF MigrationInv
<1>2. job' \in [Process -> {"none", "parsing", "querying", "between", "replying"}]
  BY <1>1 DEF Ends, Do, TypeOK
<1>3. \A q \in Process : (q \in {p} \/ job[q] = "none") => job'[q] = "none"
  BY <1>1 DEF Ends, Do, TypeOK
<1>4. dbUp' \in BOOLEAN /\ warm' \subseteq warm \ {p} /\ Ended({p}) /\ UNCHANGED recorded
  BY <1>1 DEF Ends, TypeOK
<1> QED BY <1>2, <1>3, <1>4, EndedKeeps

(* A step of the work leaves the migration alone.                           *)
LEMMA WorkKeeps ==
  ASSUME MigrationInv, TypeOK', UNCHANGED <<recorded, lock, pc, next>>
  PROVE  MigrationInv'
BY DEF MigrationInv, LockHeld, LoopBehind, LoopDone, LoopInside, ChecksStillHold

-----------------------------------------------------------------------------
LEMMA FaultCounts == ASSUME TypeOK, Fault PROVE faults' \in 0..MaxFaults
BY LifecycleAssumption DEF LifecycleAssumption, TypeOK, Fault

(* The steps between Start and the exit of a boot.                          *)
LEMMA BootKeeps ==
  ASSUME NEW p \in Process, MigrationInv,
         \/ Start(p) \/ Boot(p) \/ GiveUp(p) \/ Lock(p) \/ MigrationError(p)
  PROVE  MigrationInv'
<1> USE LifecycleAssumption DEF LifecycleAssumption
<1>0. TypeOK /\ LockHeld /\ LoopBehind /\ LoopDone /\ LoopInside /\ ChecksStillHold
  BY DEF MigrationInv
<1>a. ASSUME pc' = [pc EXCEPT ![p] = "booting"] \/ pc' = [pc EXCEPT ![p] = "locking"],
             pc[p] # "running", UNCHANGED <<database, next, job, warm, stopping, faults>>
      PROVE  MigrationInv'
  BY <1>0, <1>a DEF MigrationInv, TypeOK, LockHeld, LoopBehind, LoopDone, LoopInside,
                    ChecksStillHold, database, Process, File
<1>1. CASE Start(p)
  BY <1>1, <1>a DEF Start, Go
<1>2. CASE DatabaseReady(p)
  BY <1>2, <1>a DEF DatabaseReady, Go
<1>3. CASE GiveUp(p) \/ BootError(p)
  BY <1>0, <1>3, EndsKeeps DEF GiveUp, BootError, TypeOK
<1>4. CASE Lock(p)
  <2> USE <1>0, <1>4 DEF Lock, Go
  <2>1. \A q \in Process : pc[q] \notin {"checking", "applying", "unlocking", "failing"}
    BY DEF LockHeld, Process
  <2>2. TypeOK'
    BY DEF TypeOK, Process
  <2>3. LockHeld' /\ LoopBehind' /\ LoopDone' /\ LoopInside'
    BY <2>1 DEF TypeOK, LockHeld, LoopBehind, LoopDone, LoopInside
  <2>4. ChecksStillHold'
    BY <2>1 DEF TypeOK, ChecksStillHold
  <2> QED BY <2>2, <2>3, <2>4 DEF MigrationInv
<1>5. CASE Check(p)
  <2> USE <1>0, <1>5 DEF Check, Go, database
  <2>1. CASE next[p] \in recorded
    <3>1. TypeOK'
      BY <2>1 DEF TypeOK, File
    <3>2. LockHeld' /\ LoopDone' /\ LoopInside' /\ ChecksStillHold'
      BY <2>1 DEF TypeOK, LockHeld, LoopDone, LoopInside, ChecksStillHold
    <3>3. LoopBehind'
      BY <2>1 DEF TypeOK, LoopBehind, File
    <3> QED BY <3>1, <3>2, <3>3 DEF MigrationInv
  <2>2. CASE next[p] \notin recorded
    BY <2>2 DEF MigrationInv, TypeOK, LockHeld, LoopBehind, LoopDone, LoopInside, ChecksStillHold
  <2> QED BY <2>1, <2>2
<1>6. CASE Apply(p)
  <2> USE <1>0, <1>6 DEF Apply, Go
  <2>1. next[p] \in File /\ next[p] \notin recorded
    BY DEF LoopInside, ChecksStillHold
  <2>2. PICK n \in 0..FileCount : recorded = 1..n
    BY DEF ChecksStillHold
  <2>3. n + 1 \in File /\ n + 1 =< next[p]
    BY <2>1, <2>2 DEF File
  <2>4. next[p] = n + 1
    BY <2>1, <2>2, <2>3 DEF LoopBehind, File
  <2>5. recorded' = 1..(n + 1) /\ n + 1 \in 0..FileCount
    BY <2>2, <2>3, <2>4 DEF File
  <2>6. \A q \in Process : q # p => pc[q] # "applying"
    BY DEF LockHeld
  <2>7. TypeOK'
    <3>1. next' \in [Process -> 1..(FileCount + 1)]
      BY <2>1 DEF TypeOK, File
    <3>2. pc' \in [Process -> {"down", "booting", "locking", "checking", "applying",
                               "unlocking", "failing", "running"}]
      BY DEF TypeOK
    <3>3. recorded' \subseteq File
      BY <2>1 DEF TypeOK
    <3>4. \A q \in Process : pc'[q] # "running" => job[q] = "none" /\ q \notin warm \cup stopping
      BY DEF TypeOK
    <3> QED BY <3>1, <3>2, <3>3, <3>4 DEF TypeOK
  <2>8. LockHeld' /\ LoopDone' /\ LoopInside'
    BY <2>6 DEF TypeOK, LockHeld, LoopDone, LoopInside
  <2>9. LoopBehind'
    BY <2>1 DEF TypeOK, LoopBehind, File
  <2>10. ChecksStillHold'
    <3>1. \A q \in Process : pc'[q] # "applying"
      BY <2>6 DEF TypeOK
    <3> QED BY <3>1, <2>5 DEF ChecksStillHold
  <2> QED BY <2>7, <2>8, <2>9, <2>10 DEF MigrationInv
<1>7. CASE MigrationError(p)
  <2>1. faults' \in 0..MaxFaults
    BY <1>0, <1>7, FaultCounts DEF MigrationError
  <2> QED BY <1>0, <1>7, <2>1 DEF MigrationError, Go, database, MigrationInv, TypeOK, LockHeld,
                                  LoopBehind, LoopDone, LoopInside, ChecksStillHold
<1>8. CASE Migrated(p)
  <2>1. next[p] = FileCount + 1
    BY <1>0, <1>8 DEF Migrated, TypeOK, File
  <2> QED BY <1>0, <1>8, <2>1 DEF Migrated, Go, database, MigrationInv, TypeOK, LockHeld,
                                  LoopBehind, LoopDone, LoopInside, ChecksStillHold
<1>9. CASE Unlock(p)
  <2> USE <1>0, <1>9 DEF Unlock, Unlocked, Go
  <2>1. \A q \in Process : q # p => pc[q] \notin {"checking", "applying", "unlocking", "failing"}
    BY DEF LockHeld
  <2>2. TypeOK'
    BY DEF TypeOK, Process
  <2>3. LockHeld' /\ LoopBehind' /\ LoopDone' /\ LoopInside' /\ ChecksStillHold'
    BY <2>1 DEF TypeOK, LockHeld, LoopBehind, LoopDone, LoopInside, ChecksStillHold
  <2> QED BY <2>2, <2>3 DEF MigrationInv
<1> QED BY <1>1, <1>2, <1>3, <1>4, <1>5, <1>6, <1>7, <1>8, <1>9 DEF Boot

(* Work, signals, and the database.                                         *)
LEMMA ServiceKeeps ==
  ASSUME MigrationInv,
         \/ \E p \in Process : \/ Connect(p) \/ ConnectFails(p) \/ Release(p)
                               \/ Signal(p) \/ Exit(p) \/ Crash(p)
         \/ \E a \in Api : Accept(a) \/ Reply(a) \/ ForceExit(a)
         \/ \E w \in Worker : TimerFires(w) \/ IdleExit(w)
         \/ DbCrash \/ DbStart
  PROVE  MigrationInv'
<1>0. TypeOK
  BY DEF MigrationInv
<1>1. ASSUME NEW p \in Process,
             \/ Connect(p) \/ ConnectFails(p) \/ Release(p) \/ Signal(p)
             \/ p \in Api /\ (Accept(p) \/ Reply(p))
             \/ p \in Worker /\ TimerFires(p)
      PROVE  MigrationInv'
  <2>1. UNCHANGED <<recorded, lock, pc, next>>
    BY <1>1 DEF Connect, ConnectFails, Release, Signal, Accept, Reply, TimerFires, database
  <2>2. TypeOK'
    <3>1. CASE Signal(p)
      <4>1. faults' \in 0..MaxFaults
        BY <1>0, <3>1, FaultCounts DEF Signal
      <4> QED BY <1>0, <3>1, <4>1 DEF Signal, Working, TypeOK, database
    <3>2. CASE Connect(p) \/ ConnectFails(p) \/ Release(p)
      BY <1>0, <3>2 DEF Connect, ConnectFails, Release, AfterError, Do, TypeOK, database
    <3>3. CASE Accept(p) \/ Reply(p) \/ TimerFires(p)
      BY <1>0, <3>3 DEF Accept, Reply, TimerFires, Working, Do, TypeOK, database
    <3> QED BY <1>1, <3>1, <3>2, <3>3
  <2> QED BY <2>1, <2>2, WorkKeeps
<1>2. ASSUME NEW p \in Process, Exit(p) \/ Crash(p) \/ ForceExit(p) \/ IdleExit(p)
      PROVE  MigrationInv'
  <2>1. Ends(p) /\ (UNCHANGED faults \/ Fault)
    BY <1>2 DEF Exit, Crash, ForceExit, IdleExit
  <2>2. faults' \in 0..MaxFaults
    BY <1>0, <2>1, FaultCounts DEF TypeOK
  <2> QED BY <2>1, <2>2, EndsKeeps
<1>3. CASE DbCrash
  <2>1. PICK killed \in SUBSET {p \in Process : job[p] = "querying"} :
          LET gone == killed \cup {p \in Process : Migrating(p)} IN
          /\ Ended(gone)
          /\ job' = [p \in Process |->
                       IF p \in gone THEN "none"
                       ELSE IF job[p] = "querying" THEN AfterError(p) ELSE job[p]]
    BY <1>3 DEF DbCrash
  <2> DEFINE gone == killed \cup {p \in Process : Migrating(p)}
  <2>2. gone \in SUBSET Process /\ Ended(gone)
    BY <2>1
  <2>3. faults' \in 0..MaxFaults
    BY <1>0, <1>3, FaultCounts DEF DbCrash
  <2>4. job' \in [Process -> {"none", "parsing", "querying", "between", "replying"}]
    BY <1>0, <2>1 DEF TypeOK, AfterError
  <2>5. \A p \in Process : (p \in gone \/ job[p] = "none") => job'[p] = "none"
    BY <2>1
  <2>6. dbUp' \in BOOLEAN /\ warm' \subseteq warm \ gone /\ UNCHANGED recorded
    BY <1>3 DEF DbCrash
  <2> HIDE DEF gone
  <2> QED BY <2>2, <2>3, <2>4, <2>5, <2>6, EndedKeeps
<1>4. CASE DbStart
  <2>1. TypeOK'
    BY <1>0, <1>4 DEF DbStart, TypeOK
  <2> QED BY <1>4, <2>1, WorkKeeps DEF DbStart
<1> QED BY <1>1, <1>2, <1>3, <1>4 DEF Process

-----------------------------------------------------------------------------
(* The invariant of boots: types, the lock, and what the loops know, under  *)
(* any faults (migrate.mjs:21-68).                                          *)
THEOREM MigrationInvariant == Spec => []MigrationInv
<1>1. Init => MigrationInv
  BY InitMigration
<1>2. MigrationInv /\ [Next]_vars => MigrationInv'
  <2> SUFFICES ASSUME MigrationInv, [Next]_vars PROVE MigrationInv'
    OBVIOUS
  <2>1. CASE Next
    BY <2>1, BootKeeps, ServiceKeeps DEF Next
  <2>2. CASE UNCHANGED vars
    BY <2>2 DEF vars, MigrationInv, TypeOK, LockHeld, LoopBehind, LoopDone, LoopInside,
                ChecksStillHold
  <2> QED BY <2>1, <2>2
<1> QED BY <1>1, <1>2, PTL DEF Spec

(* A process that does not run works at nothing, however it stopped         *)
(* (api.js:43-51, worker.js:53-64).                                         *)
THEOREM LifecycleTypes == Spec => []TypeOK
BY MigrationInvariant, PTL DEF MigrationInv

(* What a migrator found missing is missing when it applies it, and the     *)
(* files are recorded in order (migrate.mjs:5-14, 37-52).                   *)
THEOREM MigrationsSerialized == Spec => []ChecksStillHold
BY MigrationInvariant, PTL DEF MigrationInv

(* No request or pass precedes the last migration (api.js:21-27).           *)
THEOREM NothingServedEarly == Spec => []ServesMigrated
<1>1. MigrationInv => ServesMigrated
  <2> SUFFICES ASSUME MigrationInv, NEW p \in Process, job[p] # "none"
               PROVE  recorded = File
    BY DEF ServesMigrated
  <2>1. next[p] = FileCount + 1
    BY DEF MigrationInv, TypeOK, LoopDone
  <2>2. \A f \in File : f < next[p]
    BY <2>1, LifecycleAssumption DEF LifecycleAssumption, File
  <2>3. File \subseteq recorded
    BY <2>2 DEF MigrationInv, LoopBehind
  <2> QED BY <2>3 DEF MigrationInv, TypeOK
<1> QED BY <1>1, MigrationInvariant, PTL

=============================================================================
