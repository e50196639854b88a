------------------------------ MODULE BackupJobs ------------------------------
(***************************************************************************)
(* The backup service: schedule rows and the cron jobs that follow them,   *)
(* and job rows with the workers that export beside everything else.       *)
(*                                                                         *)
(* A process keeps its cron jobs and workers in memory.  Rows outlive it:  *)
(* a job row left RUNNING is failed by the next start when it is older     *)
(* than a minute, and by the watchdog when it is older than half an hour.  *)
(*                                                                         *)
(* What a schedule does is "full" or one user's mailbox.  Its name and     *)
(* format are like what it does and left out; the cron expressions are     *)
(* valid, as the routes see to.  The rows of the users' parts of a full    *)
(* backup are counted in its worker, since nothing changes them later.     *)
(* Archives and their download are left out.                               *)
(***************************************************************************)
EXTENDS Naturals, FiniteSets, Sequences, SequencesExt

CONSTANTS
  BakSchedules,    \* ids
  BakCrons,
  BakUsers,        \* the active users
  BakMaxJobs,      \* bound: job rows
  BakMaxEdits,     \* bound: acts of administrators on schedules and jobs
  BakMaxFaults     \* bound: crashes, and statements that fail

Full == "full"
BakDoes == BakUsers \cup {Full}
BakJobIds == 1..BakMaxJobs

ASSUME BakAssumption ==
  /\ IsFiniteSet(BakUsers) /\ Full \notin BakUsers
  /\ BakMaxJobs \in Nat /\ BakMaxEdits \in Nat /\ BakMaxFaults \in Nat

VARIABLES
  bakUp,           \* the process runs
  bakRows,         \* the schedules
  bakActive,       \* activeJobs: what each cron job was made for
  bakReads,        \* reloads between their read and what they do with it
  bakJob,          \* the job rows
  bakWork,         \* the workers
  bakEdits, bakFaults

bakVars == <<bakUp, bakRows, bakActive, bakReads, bakJob, bakWork, bakEdits, bakFaults>>

BakTask == [id : BakSchedules, cron : BakCrons, does : BakDoes]
BakRow  == [id : BakSchedules, cron : BakCrons, does : BakDoes, enabled : BOOLEAN,
            last : {"none", "COMPLETED", "FAILED"}]

(* age 1 is over a minute, 2 over half an hour.                            *)
BakJob  == [status : {"none", "RUNNING", "COMPLETED", "FAILED", "deleted"}, age : 0..2]
BakWork == [at : {"none", "list", "users", "finish", "fail"}, does : BakDoes,
            left : SUBSET BakUsers, parts : Nat]

BakTypeOK ==
  /\ bakUp \in BOOLEAN
  /\ bakRows \subseteq BakRow
  /\ bakActive \subseteq BakTask
  /\ \A a, b \in bakActive : a.id = b.id => a = b
  /\ bakReads \in Seq(SUBSET BakTask)
  /\ bakJob \in [BakJobIds -> BakJob]
  /\ bakWork \in [BakJobIds -> BakWork]
  /\ bakEdits \in 0..BakMaxEdits /\ bakFaults \in 0..BakMaxFaults

BakIdle == [at |-> "none", does |-> Full, left |-> {}, parts |-> 0]

BakInit ==
  /\ bakUp = TRUE
  /\ bakRows = {} /\ bakActive = {} /\ bakReads = <<>>
  /\ bakJob = [j \in BakJobIds |-> [status |-> "none", age |-> 0]]
  /\ bakWork = [j \in BakJobIds |-> BakIdle]
  /\ bakEdits = 0 /\ bakFaults = 0

BakFault == bakFaults < BakMaxFaults /\ bakFaults' = bakFaults + 1
BakEdit  == bakEdits < BakMaxEdits /\ bakEdits' = bakEdits + 1

-----------------------------------------------------------------------------
(* Schedules: the routes, and the reload of every minute.                  *)

PutSchedule ==
  /\ BakEdit
  /\ \E id \in BakSchedules, c \in BakCrons, d \in BakDoes, on \in BOOLEAN :
       LET old == {r \in bakRows : r.id = id}
       IN bakRows' = (bakRows \ old) \cup
            {[id |-> id, cron |-> c, does |-> d, enabled |-> on,
              last |-> IF old = {} THEN "none" ELSE (CHOOSE r \in old : TRUE).last]}
  /\ UNCHANGED <<bakUp, bakActive, bakReads, bakJob, bakWork, bakFaults>>

DeleteSchedule(r) ==
  /\ BakEdit
  /\ bakRows' = bakRows \ {r}
  /\ UNCHANGED <<bakUp, bakActive, bakReads, bakJob, bakWork, bakFaults>>

TaskOf(r) == [id |-> r.id, cron |-> r.cron, does |-> r.does]

Enabled == {TaskOf(r) : r \in {q \in bakRows : q.enabled}}

(* A reload that takes longer than a minute has another one beside it.     *)
ReadSchedules ==
  /\ bakUp /\ Len(bakReads) < 2
  /\ bakReads' = Append(bakReads, Enabled)
  /\ UNCHANGED <<bakUp, bakRows, bakActive, bakJob, bakWork, bakEdits, bakFaults>>

Unchanged_AnyCron(task) == {a \in bakActive : a.id = task.id}

(* A cron job is left alone while its cron expression is the same.         *)
Unchanged(task) == {a \in bakActive : a.id = task.id /\ a.cron = task.cron}

ApplySchedules(i) ==
  /\ bakUp /\ i \in DOMAIN bakReads
  /\ bakActive' = UNION {IF Unchanged(t) # {} THEN Unchanged(t) ELSE {t} : t \in bakReads[i]}
  /\ bakReads' = RemoveAt(bakReads, i)
  /\ UNCHANGED <<bakUp, bakRows, bakJob, bakWork, bakEdits, bakFaults>>

-----------------------------------------------------------------------------
(* Jobs.                                                                   *)

Unused == {j \in BakJobIds : bakJob[j].status = "none"}

(* The row is written, the worker comes right after.                       *)
StartJob(does) ==
  LET j == CHOOSE i \in Unused : \A k \in Unused : i <= k
  IN /\ bakUp /\ Unused # {}
     /\ bakJob' = [bakJob EXCEPT ![j] = [status |-> "RUNNING", age |-> 0]]
     /\ bakWork' = [bakWork EXCEPT ![j] =
          [at |-> IF does = Full THEN "list" ELSE "users", does |-> does,
           left |-> {does} \ {Full}, parts |-> 0]]

Recorded(id, last) ==
  bakRows' = {IF r.id = id THEN [r EXCEPT !.last = last] ELSE r : r \in bakRows}

(* The schedule's outcome is that of starting the job.                     *)
CronFires(a) ==
  /\ StartJob(a.does)
  /\ Recorded(a.id, "COMPLETED")
  /\ UNCHANGED <<bakUp, bakActive, bakReads, bakEdits, bakFaults>>

CronFails(a) ==
  /\ bakUp /\ BakFault
  /\ Recorded(a.id, "FAILED")
  /\ UNCHANGED <<bakUp, bakActive, bakReads, bakJob, bakWork, bakEdits>>

(* By an administrator or a user, or run-now.                              *)
StartByHand ==
  /\ \E does \in BakDoes : StartJob(does)
  /\ UNCHANGED <<bakUp, bakRows, bakActive, bakReads, bakEdits, bakFaults>>

BakStep(j, w) ==
  /\ bakWork' = [bakWork EXCEPT ![j] = w]
  /\ UNCHANGED <<bakUp, bakRows, bakActive, bakReads, bakEdits>>

ListUsers(j) ==
  /\ bakWork[j].at = "list"
  /\ BakStep(j, [bakWork[j] EXCEPT !.left = BakUsers,
                                   !.at = IF BakUsers = {} THEN "finish" ELSE "users"])
  /\ UNCHANGED <<bakJob, bakFaults>>

Exported(w, u, parts) ==
  [w EXCEPT !.left = w.left \ {u}, !.parts = w.parts + parts,
            !.at = IF w.left = {u} THEN "finish" ELSE "users"]

(* Export, upload, and a row of its own for a user's part.                 *)
ExportUser(j, u) ==
  /\ bakWork[j].at = "users" /\ u \in bakWork[j].left
  /\ BakStep(j, Exported(bakWork[j], u, 1))
  /\ UNCHANGED <<bakJob, bakFaults>>

(* A part that fails has a row too.                                        *)
FailedPart(w, u) == Exported(w, u, 1)

ExportFails(j, u) ==
  /\ bakWork[j].at = "users" /\ u \in bakWork[j].left
  /\ BakFault
  /\ BakStep(j, IF bakWork[j].does = Full THEN FailedPart(bakWork[j], u)
                ELSE [bakWork[j] EXCEPT !.at = "fail"])
  /\ UNCHANGED bakJob

SetStatus(j, s) ==
  bakJob' = [bakJob EXCEPT ![j] = IF bakJob[j].status = "deleted" THEN bakJob[j]
                                  ELSE [status |-> s, age |-> bakJob[j].age]]

(* A row that was deleted meanwhile: both updates throw.                   *)
FinishJob(j) ==
  /\ bakWork[j].at = "finish"
  /\ SetStatus(j, "COMPLETED")
  /\ BakStep(j, BakIdle)
  /\ UNCHANGED bakFaults

(* Another statement of the worker fails.                                  *)
WorkThrows(j) ==
  /\ bakWork[j].at \in {"list", "users", "finish"}
  /\ BakFault
  /\ BakStep(j, [bakWork[j] EXCEPT !.at = "fail"])
  /\ UNCHANGED bakJob

FailJob(j) ==
  /\ bakWork[j].at = "fail"
  /\ BakStep(j, BakIdle)
  /\ \/ SetStatus(j, "FAILED") /\ UNCHANGED bakFaults
     \/ BakFault /\ UNCHANGED bakJob

DeleteJob(j) ==
  /\ bakUp /\ BakEdit
  /\ bakJob[j].status \notin {"none", "deleted"}
  /\ bakJob' = [bakJob EXCEPT ![j].status = "deleted"]
  /\ UNCHANGED <<bakUp, bakRows, bakActive, bakReads, bakWork, bakFaults>>

-----------------------------------------------------------------------------
(* Time, the watchdog, and the process.                                    *)

BakAges(j) ==
  /\ bakJob[j].status = "RUNNING" /\ bakJob[j].age < 2
  /\ \A i \in BakJobIds : i < j /\ bakJob[i].status = "RUNNING" => bakJob[i].age > bakJob[j].age
  /\ bakJob' = [bakJob EXCEPT ![j].age = bakJob[j].age + 1]
  /\ UNCHANGED <<bakUp, bakRows, bakActive, bakReads, bakWork, bakEdits, bakFaults>>

Stuck_Processing(age) == {}

Stuck(age) == {j \in BakJobIds : bakJob[j].status = "RUNNING" /\ bakJob[j].age >= age}

GiveUp(age) ==
  bakJob' = [j \in BakJobIds |-> IF j \in Stuck(age)
                                 THEN [status |-> "FAILED", age |-> bakJob[j].age]
                                 ELSE bakJob[j]]

(* A worker that was given up goes on.                                     *)
Watchdog ==
  /\ bakUp
  /\ GiveUp(2)
  /\ UNCHANGED <<bakUp, bakRows, bakActive, bakReads, bakWork, bakEdits, bakFaults>>

BakCrash ==
  /\ bakUp /\ BakFault
  /\ bakUp' = FALSE
  /\ bakActive' = {} /\ bakReads' = <<>>
  /\ bakWork' = [j \in BakJobIds |-> BakIdle]
  /\ UNCHANGED <<bakRows, bakJob, bakEdits>>

BakStart ==
  /\ ~bakUp
  /\ bakUp' = TRUE
  /\ GiveUp(1)
  /\ UNCHANGED <<bakRows, bakActive, bakReads, bakWork, bakEdits, bakFaults>>

BakWorks(j) ==
  \/ ListUsers(j) \/ FinishJob(j) \/ FailJob(j) \/ WorkThrows(j)
  \/ \E u \in BakUsers : ExportUser(j, u) \/ ExportFails(j, u)

BakNext ==
  \/ PutSchedule \/ \E r \in bakRows : DeleteSchedule(r)
  \/ ReadSchedules \/ \E i \in 1..2 : ApplySchedules(i)
  \/ \E a \in bakActive : CronFires(a) \/ CronFails(a)
  \/ StartByHand
  \/ \E j \in BakJobIds : BakWorks(j) \/ DeleteJob(j) \/ BakAges(j)
  \/ Watchdog \/ BakCrash \/ BakStart

BakSpec == BakInit /\ [][BakNext]_bakVars

(* supervisord starts the process again; its timers fire and time passes.  *)
(* Nothing is said of the workers: an export may hang.                     *)
BakFair ==
  /\ BakSpec
  /\ WF_bakVars(BakStart) /\ WF_bakVars(Watchdog)
  /\ WF_bakVars(ReadSchedules) /\ WF_bakVars(ApplySchedules(1))
  /\ \A j \in BakJobIds : WF_bakVars(BakAges(j))

-----------------------------------------------------------------------------
(* Properties.                                                             *)

(* A finished job keeps its outcome, but for one that the watchdog gave up *)
(* and whose worker got to its end after all; a backup that completed      *)
(* never turns into a failure.                                             *)
OutcomeStays ==
  [][\A j \in BakJobIds :
       /\ bakJob[j].status = "COMPLETED" => bakJob'[j].status \in {"COMPLETED", "deleted"}
       /\ bakJob[j].status = "FAILED" /\ bakJob'[j].status = "COMPLETED" =>
            bakJob[j].age = 2 /\ bakWork[j].at = "finish"]_bakVars

(* A full backup that completes has a row for every user, whether the      *)
(* user's part succeeded or failed.                                        *)
FullIsAccounted ==
  \A j \in BakJobIds :
    bakWork[j].at = "finish" /\ bakWork[j].does = Full =>
      bakWork[j].parts = Cardinality(BakUsers)

(* "Frontend shows running forever": a job does not stay RUNNING, whether  *)
(* its export hangs, its process dies, or its last update fails; and what  *)
(* its row says in the end is true.                                        *)
JobsEnd ==
  /\ \A j \in BakJobIds : bakJob[j].status = "RUNNING" ~> bakJob[j].status # "RUNNING"
  /\ []FullIsAccounted
  /\ OutcomeStays

(* When the schedules are left alone and the process stays up, the cron    *)
(* jobs are those of the enabled rows, each with its row's cron            *)
(* expression, even if a reload with an older reading came in late.  What  *)
(* a job does may be what its row said when the job was made.              *)
Crons(tasks) == {<<t.id, t.cron>> : t \in tasks}
SchedulesFollow == <>[](Crons(bakActive) = Crons(Enabled))
=============================================================================
