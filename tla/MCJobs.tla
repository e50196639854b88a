--------------------------------- MODULE MCJobs ---------------------------------
(***************************************************************************)
(* The queue of mail that is sent and the backup scheduler, each in an     *)
(* instance of its own: "jobs" are those that run, the others stay at a    *)
(* first state.  The scheduler runs twice: for its schedules, and for jobs *)
(* that are started by hand.                                               *)
(***************************************************************************)
EXTENDS OutboundQueue, BackupJobs, TLC

CONSTANTS e1, h1, u1, u2, b1, k1, k2

VARIABLE jobs

(* The queue: a local recipient and an external one, whose domain has two  *)
(* hosts.                                                                  *)
HopOfOne   == e1 :> h1
HostsOfOne == h1 :> 2

(* Backups: one schedule, two users.                                       *)
OneSchedule == {b1}
TwoCrons    == {k1, k2}
TwoUsers    == {u1, u2}

allVars == <<jobs, vars, bakVars>>

JobsInit ==
  /\ jobs \in {"mail", "schedules", "exports"}
  /\ Init /\ BakInit
  /\ jobs # "mail" => ~job.scheduled /\ ~job.attachments

OnlyMail      == jobs = "mail"      /\ UNCHANGED <<jobs, bakVars>>
OnlySchedules == jobs = "schedules" /\ UNCHANGED <<jobs, vars>>
OnlyExports   == jobs = "exports"   /\ UNCHANGED <<jobs, vars>>
OnlyBackup    == OnlySchedules \/ OnlyExports

(* A schedule starts a job once; two that are started by hand run side by  *)
(* side.                                                                   *)
SchedulesNext ==
  \/ PutSchedule \/ \E r \in bakRows : DeleteSchedule(r)
  \/ ReadSchedules \/ \E i \in 1..2 : ApplySchedules(i)
  \/ \E a \in bakActive : (1 \in Unused /\ CronFires(a)) \/ CronFails(a)
  \/ \E j \in BakJobIds : BakWorks(j) \/ BakAges(j)
  \/ Watchdog \/ BakCrash \/ BakStart

ExportsNext ==
  \/ StartByHand
  \/ \E j \in BakJobIds : BakWorks(j) \/ DeleteJob(j) \/ BakAges(j)
  \/ Watchdog \/ BakCrash \/ BakStart

JobsNext ==
  \/ OnlyMail /\ Next
  \/ OnlySchedules /\ SchedulesNext
  \/ OnlyExports /\ ExportsNext

(* Fairness of OutboundQueue, and BakFair.                                 *)
JobsSpec ==
  /\ JobsInit /\ [][JobsNext]_allVars
  /\ WF_allVars(OnlyMail /\ BecomeWaiting)
  /\ WF_allVars(OnlyMail /\ StartAttempt)
  /\ WF_allVars(OnlyMail /\ Handler)
  /\ WF_allVars(OnlyMail /\ Listeners)
  /\ WF_allVars(OnlyBackup /\ BakStart)
  /\ WF_allVars(OnlyBackup /\ Watchdog)
  /\ WF_allVars(OnlySchedules /\ ReadSchedules)
  /\ WF_allVars(OnlySchedules /\ ApplySchedules(1))
  /\ \A j \in BakJobIds : WF_allVars(OnlyBackup /\ BakAges(j))

(* Every job that is handed to the queue is settled in the end.            *)
QueueSettles == jobs = "mail" => Settled
=============================================================================
