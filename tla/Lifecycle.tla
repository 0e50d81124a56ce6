----------------------------- MODULE Lifecycle -----------------------------
(***************************************************************************)
(* The processes: API instances and workers that boot, migrate the schema  *)
(* under one session lock, work, are told to stop, die and are started     *)
(* again by the orchestrator, around a database that may restart.  The     *)
(* work of a process is one job: a request of an API, a pass of a worker.  *)
(* One step is one awaited call or one event.                              *)
(***************************************************************************)
EXTENDS Naturals, FiniteSets

CONSTANTS
  Api,         \* bin/api.js
  Worker,      \* bin/worker.js
  FileCount,   \* the migration files, in filename order
  Null,        \* no owner
  MaxFaults    \* bound on crashes, signals, database restarts and failed migrations

ASSUME LifecycleAssumption ==
  /\ Api \cap Worker = {}
  /\ FileCount \in Nat
  /\ MaxFaults \in Nat
  /\ Null \notin Api \cup Worker

Process == Api \cup Worker
File == 1..FileCount

VARIABLES
  dbUp,       \* the database accepts connections
  recorded,   \* schema_migrations, whose bodies are applied with their rows
  lock,       \* the session that holds MIGRATION_LOCK_KEY
  pc,         \* where each process is
  next,       \* the file its migration loop is at
  job,        \* what its request or pass is doing
  warm,       \* workers that wait for the first pass with a connection open
  stopping,   \* processes that handle a signal
  faults      \* how many faults there were

database == <<dbUp, recorded, lock>>
vars == <<dbUp, recorded, lock, pc, next, job, warm, stopping, faults>>

Init ==
  /\ dbUp = FALSE
  /\ recorded = {}
  /\ lock = Null
  /\ pc = [p \in Process |-> "down"]
  /\ next = [p \in Process |-> 1]
  /\ job = [p \in Process |-> "none"]
  /\ warm = {}
  /\ stopping = {}
  /\ faults = 0

(* runMigrations holds a connection, and with it the lock or a place in its *)
(* queue.                                                                   *)
Migrating(p) == pc[p] \in {"locking", "checking", "applying", "unlocking", "failing"}

Go(p, to) == pc' = [pc EXCEPT ![p] = to]
Do(p, to) == job' = [job EXCEPT ![p] = to]

Fault ==
  /\ faults < MaxFaults
  /\ faults' = faults + 1

(* Processes P are gone, with their sessions and whatever they worked at.   *)
Ended(P) ==
  /\ pc' = [p \in Process |-> IF p \in P THEN "down" ELSE pc[p]]
  /\ next' = [p \in Process |-> IF p \in P THEN 1 ELSE next[p]]
  /\ lock' = IF lock \in P THEN Null ELSE lock
  /\ stopping' = stopping \ P

Ends(p) ==
  /\ Ended({p})
  /\ Do(p, "none")
  /\ warm' = warm \ {p}
  /\ UNCHANGED <<dbUp, recorded>>

-----------------------------------------------------------------------------
(* Boot and migrations.                                                    *)

(* The container starts, or restarts: unless-stopped.                       *)
Start(p) ==
  /\ pc[p] = "down"
  /\ Go(p, "booting")
  /\ UNCHANGED <<database, next, job, warm, stopping, faults>>

DatabaseReady(p) ==
  /\ pc[p] = "booting"
  /\ dbUp
  /\ Go(p, "locking")
  /\ UNCHANGED <<database, next, job, warm, stopping, faults>>

(* The deadline of waitForDatabase passes.                                  *)
GiveUp(p) ==
  /\ pc[p] = "booting"
  /\ ~ dbUp
  /\ Ends(p)
  /\ UNCHANGED faults

(* Mutant of Lock: the lock is tried, not waited for.                       *)
LockTried(p) ==
  /\ pc[p] = "locking"
  /\ lock' = IF lock = Null THEN p ELSE lock
  /\ Go(p, "checking")
  /\ UNCHANGED <<dbUp, recorded, next, job, warm, stopping, faults>>

(* pg_advisory_lock waits for the session that holds the key.               *)
Lock(p) ==
  /\ pc[p] = "locking"
  /\ lock = Null
  /\ lock' = p
  /\ Go(p, "checking")
  /\ UNCHANGED <<dbUp, recorded, next, job, warm, stopping, faults>>

(* Is the file recorded?                                                    *)
Check(p) ==
  /\ pc[p] = "checking"
  /\ next[p] \in File
  /\ IF next[p] \in recorded
     THEN next' = [next EXCEPT ![p] = @ + 1] /\ UNCHANGED pc
     ELSE Go(p, "applying") /\ UNCHANGED next
  /\ UNCHANGED <<database, job, warm, stopping, faults>>

(* The body and its row commit together.                                    *)
Apply(p) ==
  /\ pc[p] = "applying"
  /\ recorded' = recorded \cup {next[p]}
  /\ next' = [next EXCEPT ![p] = @ + 1]
  /\ Go(p, "checking")
  /\ UNCHANGED <<dbUp, lock, job, warm, stopping, faults>>

(* Mutant of MigrationError: the error is logged and the loop goes on.      *)
MigrationErrorIgnored(p) ==
  /\ pc[p] = "applying"
  /\ Fault
  /\ next' = [next EXCEPT ![p] = @ + 1]
  /\ Go(p, "checking")
  /\ UNCHANGED <<database, job, warm, stopping>>

(* A statement of the migration fails: rolled back and thrown.              *)
MigrationError(p) ==
  /\ pc[p] = "applying"
  /\ Fault
  /\ Go(p, "failing")
  /\ UNCHANGED <<database, next, job, warm, stopping>>

Migrated(p) ==
  /\ pc[p] = "checking"
  /\ next[p] \notin File
  /\ Go(p, "unlocking")
  /\ UNCHANGED <<database, next, job, warm, stopping, faults>>

(* Mutant of Unlocked: the connection goes back to the pool with its lock.  *)
UnlockedNever(p) == lock

Unlocked(p) == IF lock = p THEN Null ELSE lock

(* The lock is given back; an API listens, a worker arms its first timer.   *)
Unlock(p) ==
  /\ pc[p] = "unlocking"
  /\ lock' = Unlocked(p)
  /\ Go(p, "running")
  /\ warm' = IF p \in Worker THEN warm \cup {p} ELSE warm
  /\ UNCHANGED <<dbUp, recorded, next, job, stopping, faults>>

(* The lock is given back and the process exits: fatal boot error.          *)
BootError(p) ==
  /\ pc[p] = "failing"
  /\ Ends(p)
  /\ UNCHANGED faults

-----------------------------------------------------------------------------
(* Work.                                                                   *)

(* Mutant of Working: signals and requests are handled from the start.      *)
WorkingAtBoot(p) == pc[p] # "down" /\ p \notin stopping

Working(p) == pc[p] = "running" /\ p \notin stopping

(* A request arrives and its body is read.                                  *)
Accept(a) ==
  /\ Working(a)
  /\ job[a] = "none"
  /\ Do(a, "parsing")
  /\ UNCHANGED <<database, pc, next, warm, stopping, faults>>

(* A timer of the worker fires and its pass begins, or fails at once.       *)
TimerFires(w) ==
  /\ Working(w)
  /\ job[w] = "none"
  /\ Do(w, IF dbUp THEN "querying" ELSE "none")
  /\ warm' = warm \ {w}
  /\ UNCHANGED <<database, pc, next, stopping, faults>>

(* The event loop is empty: the timer is unref'd and the idle connections   *)
(* of the pool are closed, after idleTimeoutMillis or by the database.      *)
IdleExit(w) ==
  /\ Working(w)
  /\ job[w] = "none"
  /\ w \notin warm
  /\ Ends(w)
  /\ UNCHANGED faults

(* The first or the next query of the job gets a connection.                *)
Connect(p) ==
  /\ job[p] \in {"parsing", "between"}
  /\ p \notin stopping
  /\ dbUp
  /\ Do(p, "querying")
  /\ UNCHANGED <<database, pc, next, warm, stopping, faults>>

(* What the job does when a query fails: a 500, or the end of the pass.     *)
AfterError(p) == IF p \in Api THEN "replying" ELSE "none"

(* The pool is ending, or the database is down.                             *)
ConnectFails(p) ==
  /\ job[p] \in {"parsing", "between"}
  /\ p \in stopping \/ ~ dbUp
  /\ Do(p, AfterError(p))
  /\ UNCHANGED <<database, pc, next, warm, stopping, faults>>

(* Mutant of Release: once the process stops, a transaction never gives its *)
(* connection back.                                                         *)
ReleaseLeaking(p) ==
  /\ job[p] = "querying"
  /\ p \notin stopping
  /\ Do(p, "between") \/ Do(p, AfterError(p))
  /\ UNCHANGED <<database, pc, next, warm, stopping, faults>>

(* A transaction ends and gives its connection back.                        *)
Release(p) ==
  /\ job[p] = "querying"
  /\ Do(p, "between") \/ Do(p, AfterError(p))
  /\ UNCHANGED <<database, pc, next, warm, stopping, faults>>

(* The response is written.                                                 *)
Reply(a) ==
  /\ job[a] = "replying"
  /\ Do(a, "none")
  /\ UNCHANGED <<database, pc, next, warm, stopping, faults>>

-----------------------------------------------------------------------------
(* Signals, crashes and the database.                                      *)

(* SIGTERM or SIGINT.  Before the handlers are there it is a Crash.         *)
Signal(p) ==
  /\ Working(p)
  /\ Fault
  /\ stopping' = stopping \cup {p}
  /\ warm' = warm \ {p}
  /\ UNCHANGED <<database, pc, next, job>>

(* pool.end() has resolved: no connection is held.  Nothing waits for the   *)
(* requests that hold none.                                                 *)
Exit(p) ==
  /\ p \in stopping
  /\ job[p] # "querying"
  /\ Ends(p)
  /\ UNCHANGED faults

(* The API's shutdownTimeoutMs passes first.                                *)
ForceExit(a) ==
  /\ a \in stopping
  /\ Ends(a)
  /\ UNCHANGED faults

Crash(p) ==
  /\ pc[p] # "down"
  /\ Fault
  /\ Ends(p)

(* Every session ends.  A migration fails and so does its process; a query  *)
(* of a job fails, or the error of its connection, which nobody listens to, *)
(* kills the process.                                                       *)
DbCrash ==
  /\ dbUp
  /\ Fault
  /\ dbUp' = FALSE
  /\ \E killed \in SUBSET {p \in Process : job[p] = "querying"} :
       LET gone == killed \cup {p \in Process : Migrating(p)} IN
       /\ Ended(gone)
       /\ job' = [p \in Process |->
                    IF p \in gone THEN "none"
                    ELSE IF job[p] = "querying" THEN AfterError(p) ELSE job[p]]
  /\ warm' = {}
  /\ UNCHANGED recorded

DbStart ==
  /\ ~ dbUp
  /\ dbUp' = TRUE
  /\ UNCHANGED <<recorded, lock, pc, next, job, warm, stopping, faults>>

-----------------------------------------------------------------------------
Boot(p) == DatabaseReady(p) \/ Check(p) \/ Apply(p) \/ Migrated(p) \/ Unlock(p) \/ BootError(p)

Next ==
  \/ \E p \in Process :
       \/ Start(p) \/ Boot(p) \/ GiveUp(p) \/ Lock(p) \/ MigrationError(p)
       \/ Connect(p) \/ ConnectFails(p) \/ Release(p)
       \/ Signal(p) \/ Exit(p) \/ Crash(p)
  \/ \E a \in Api : Accept(a) \/ Reply(a) \/ ForceExit(a)
  \/ \E w \in Worker : TimerFires(w) \/ IdleExit(w)
  \/ DbCrash
  \/ DbStart

Spec == Init /\ [][Next]_vars

(* The orchestrator restarts a process, a waiting lock request is granted   *)
(* in its turn, boot steps, timers and transactions come to an end.  No     *)
(* request has to arrive, and its body may be read forever.                 *)
FairSpec ==
  /\ Spec
  /\ WF_vars(DbStart)
  /\ \A p \in Process :
       /\ WF_vars(Start(p)) /\ WF_vars(Boot(p)) /\ SF_vars(Lock(p))
       /\ WF_vars(Exit(p)) /\ WF_vars(Release(p))
  /\ \A a \in Api : WF_vars(ForceExit(a))
  /\ \A w \in Worker : WF_vars(TimerFires(w)) /\ WF_vars(Connect(w) \/ ConnectFails(w))

-----------------------------------------------------------------------------
(* Properties.                                                             *)

(* Every variable has its type, and a process that does not run works at    *)
(* nothing, however it stopped (api.js:43-51, worker.js:53-64).             *)
TypeOK ==
  /\ dbUp \in BOOLEAN
  /\ recorded \subseteq File
  /\ lock \in Process \cup {Null}
  /\ pc \in [Process -> {"down", "booting", "locking", "checking", "applying",
                         "unlocking", "failing", "running"}]
  /\ next \in [Process -> 1..(FileCount + 1)]
  /\ job \in [Process -> {"none", "parsing", "querying", "between", "replying"}]
  /\ warm \subseteq Worker
  /\ stopping \subseteq Process
  /\ faults \in 0..MaxFaults
  /\ \A p \in Process : pc[p] # "running" => job[p] = "none" /\ p \notin warm \cup stopping

(* What a migrator found missing is still missing when it applies it,       *)
(* whoever else boots, dies or loses its session meanwhile, and the files   *)
(* were recorded in order (migrate.mjs:5-14, 37-52).                        *)
ChecksStillHold ==
  /\ \E n \in 0..FileCount : recorded = 1..n
  /\ \A p \in Process : pc[p] = "applying" => next[p] \notin recorded

(* No request and no pass reaches the database before every migration is    *)
(* applied, after any history of failed boots (api.js:21-27).               *)
ServesMigrated == \A p \in Process : job[p] # "none" => recorded = File

(* An instance always listens again and a worker always makes another       *)
(* pass, once faults stop: no lock is left behind, and the worker that its  *)
(* own unref'd timer lets exit is started again (worker.js:37-51,           *)
(* docker-compose.yml:60, 77, 91).                                          *)
EveryProcessWorks ==
  /\ \A a \in Api : []<>(pc[a] = "running" /\ a \notin stopping)
  /\ \A w \in Worker : []<>(job[w] = "querying")

(* A process that is told to stop does: the API within its timeout, the     *)
(* worker, which has none, because its transactions end (api.js:31-54,      *)
(* worker.js:53-67).                                                        *)
ShutdownCompletes == \A p \in Process : p \in stopping ~> p \notin stopping

=============================================================================
