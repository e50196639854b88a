---------------------------- MODULE JmapSubmission ----------------------------
(***************************************************************************)
(* EmailSubmission/set of JMAP: one submission, its object in Redis and    *)
(* its job in the outbound queue.                                          *)
(*                                                                         *)
(* The job is added first and the object saved after it; an update that    *)
(* sets undoStatus to canceled reads the object, removes the job and saves *)
(* the object again.  The worker sees none of this: it delivers what the   *)
(* queue gives it (OutboundQueue has its steps; here a delivery is one).   *)
(*                                                                         *)
(* The queue is a Queue object of its own without default options: a job   *)
(* has one attempt, and stays when it is completed or has failed.  The     *)
(* object's set and state counter, and Email/set on success, are left out. *)
(***************************************************************************)
EXTENDS Naturals, FiniteSets

CONSTANTS
  SubRequests,    \* requests in work at one time
  SubMaxActs,     \* bound: requests
  SubMaxFaults    \* bound: statements that fail, workers that die, retries by hand

ASSUME SubAssumption == SubMaxActs \in Nat /\ SubMaxFaults \in Nat

VARIABLES
  subJob,        \* state of the job
  subWorker,     \* a worker holds the job and its lock
  subRow,        \* undoStatus of the object
  subTasks,      \* the requests in work
  subTold,       \* what the client was told
  subSent,       \* the mail was delivered
  subLate,       \* history: delivered after the job had been removed
  subActs,
  subFaults

subVars == <<subJob, subWorker, subRow, subTasks, subTold, subSent, subLate, subActs, subFaults>>

SubJobStates == {"none", "delayed", "waiting", "active", "completed", "failed", "removed"}

SubTask == [id : SubRequests,
            at : {"enqueue", "save", "getJob", "remove", "cancel", "delete"}]

SubTypeOK ==
  /\ subJob \in SubJobStates
  /\ subWorker \in BOOLEAN
  /\ subRow \in {"none", "pending", "final", "canceled"}
  /\ subTasks \subseteq SubTask
  /\ \A t, u \in subTasks : t.id = u.id => t = u
  /\ subTold \subseteq {"created", "notCreated", "canceled", "cannotUnsend", "notFound",
                        "destroyed", "serverFail"}
  /\ subSent \in BOOLEAN /\ subLate \in BOOLEAN
  /\ subActs \in 0..SubMaxActs /\ subFaults \in 0..SubMaxFaults

SubInit ==
  /\ subJob = "none" /\ subWorker = FALSE
  /\ subRow = "none"
  /\ subTasks = {} /\ subTold = {}
  /\ subSent = FALSE /\ subLate = FALSE
  /\ subActs = 0 /\ subFaults = 0

SubFault == subFaults < SubMaxFaults /\ subFaults' = subFaults + 1

-----------------------------------------------------------------------------
(* Requests.                                                               *)

SubBegins(r, at) ==
  /\ subActs < SubMaxActs
  /\ subActs' = subActs + 1
  /\ \A t \in subTasks : t.id # r
  /\ subTasks' = subTasks \cup {[id |-> r, at |-> at]}

SubGoes(t, at) == subTasks' = (subTasks \ {t}) \cup {[t EXCEPT !.at = at]}

SubEnds(t, answer) == subTasks' = subTasks \ {t} /\ subTold' = subTold \cup {answer}

(* The client asks for the submission, and later to take it back or to     *)
(* destroy it: it has learnt the object's id from the answer.              *)
AskCreate(r) ==
  /\ subActs = 0
  /\ SubBegins(r, "enqueue")
  /\ UNCHANGED <<subJob, subWorker, subRow, subTold, subSent, subLate, subFaults>>

(* Update reads the object; one that is not pending stays as it is.        *)
AskCancel(r) ==
  /\ "created" \in subTold
  /\ \/ /\ subRow = "pending"
        /\ SubBegins(r, "getJob")
        /\ UNCHANGED subTold
     \/ /\ subRow # "pending" /\ subActs < SubMaxActs
        /\ subTold' = subTold \cup {IF subRow = "none" THEN "notFound" ELSE "cannotUnsend"}
        /\ subActs' = subActs + 1
        /\ UNCHANGED subTasks
  /\ UNCHANGED <<subJob, subWorker, subRow, subSent, subLate, subFaults>>

AskDestroy(r) ==
  /\ "created" \in subTold /\ subRow # "none"
  /\ SubBegins(r, "delete")
  /\ UNCHANGED <<subJob, subWorker, subRow, subTold, subSent, subLate, subFaults>>

(* A statement fails, in a save or a deletion perhaps one that comes after *)
(* the object's own.  What is done stays done: the job of a submission     *)
(* that was refused is in the queue, and that of one that could not be     *)
(* taken back may be gone.                                                 *)
Refusal(t) ==
  IF t.at \in {"enqueue", "save"} THEN "notCreated"
  ELSE IF t.at = "delete" THEN "serverFail" ELSE "cannotUnsend"

Halfway(t) ==
  IF t.at = "save" THEN {"final"} \cup (IF subJob = "delayed" THEN {"pending"} ELSE {})
  ELSE IF t.at = "cancel" THEN {"canceled"}
  ELSE IF t.at = "delete" THEN {"none"} ELSE {}

SubFails(t) ==
  /\ SubFault
  /\ subRow' \in {subRow} \cup Halfway(t)
  /\ SubEnds(t, Refusal(t))
  /\ UNCHANGED <<subJob, subWorker, subSent, subLate, subActs>>

(* With a sendAt that is still to come, the job is delayed.                *)
Enqueue(t) ==
  /\ t.at = "enqueue"
  /\ subJob' \in {"delayed", "waiting"}
  /\ SubGoes(t, "save")
  /\ UNCHANGED <<subWorker, subRow, subTold, subSent, subLate, subActs, subFaults>>

(* The clock is read again for undoStatus: the job may be due by now, and  *)
(* in the last second before it is the object is final already.            *)
SaveCreated(t) ==
  /\ t.at = "save"
  /\ \/ subJob = "delayed" /\ subRow' = "pending"
     \/ subRow' = "final"
  /\ SubEnds(t, "created")
  /\ UNCHANGED <<subJob, subWorker, subSent, subLate, subActs, subFaults>>

(* getJob; a job that is gone is as good as removed.                       *)
GetJob(t) ==
  /\ t.at = "getJob"
  /\ SubGoes(t, IF subJob = "removed" THEN "cancel" ELSE "remove")
  /\ UNCHANGED <<subJob, subWorker, subRow, subTold, subSent, subLate, subActs, subFaults>>

(* BullMQ removes a job in any state, a completed one too, but not while a *)
(* worker has its lock.                                                    *)
SubRemovable_Locked == TRUE

SubRemovable == ~subWorker

RemoveJob(t) ==
  /\ t.at = "remove"
  /\ \/ /\ SubRemovable
        /\ subJob' = "removed"
        /\ SubGoes(t, "cancel")
        /\ UNCHANGED subTold
     \/ /\ ~SubRemovable
        /\ SubEnds(t, "cannotUnsend")
        /\ UNCHANGED subJob
  /\ UNCHANGED <<subWorker, subRow, subSent, subLate, subActs, subFaults>>

(* The object is saved whole: one that was destroyed meanwhile comes back. *)
SaveCanceled(t) ==
  /\ t.at = "cancel"
  /\ subRow' = "canceled"
  /\ SubEnds(t, "canceled")
  /\ UNCHANGED <<subJob, subWorker, subSent, subLate, subActs, subFaults>>

(* The job is left alone.                                                  *)
DestroyRow(t) ==
  /\ t.at = "delete"
  /\ subRow' = "none"
  /\ SubEnds(t, "destroyed")
  /\ UNCHANGED <<subJob, subWorker, subSent, subLate, subActs, subFaults>>

SubStep(t) ==
  \/ Enqueue(t) \/ SaveCreated(t) \/ GetJob(t) \/ RemoveJob(t) \/ SaveCanceled(t)
  \/ DestroyRow(t) \/ SubFails(t)

-----------------------------------------------------------------------------
(* The queue, its worker, and an administrator.                            *)

SubDue ==
  /\ subJob = "delayed"
  /\ subJob' = "waiting"
  /\ UNCHANGED <<subWorker, subRow, subTasks, subTold, subSent, subLate, subActs, subFaults>>

SubTaken ==
  /\ subJob = "waiting" /\ ~subWorker
  /\ subJob' = "active" /\ subWorker' = TRUE
  /\ UNCHANGED <<subRow, subTasks, subTold, subSent, subLate, subActs, subFaults>>

SubDelivers ==
  /\ subWorker
  /\ subSent' = TRUE
  /\ subLate' = (subLate \/ subJob = "removed")
  /\ UNCHANGED <<subJob, subWorker, subRow, subTasks, subTold, subActs, subFaults>>

(* The one attempt is over; a worker that dies leaves a stalled job, which *)
(* waits again.                                                            *)
SubOver ==
  /\ subWorker
  /\ subWorker' = FALSE
  /\ \/ /\ subSent
        /\ subJob' = (IF subJob = "active" THEN "completed" ELSE subJob)
        /\ UNCHANGED subFaults
     \/ /\ SubFault
        /\ subJob' \in (IF subJob = "active" THEN {"failed", "waiting"} ELSE {subJob})
  /\ UNCHANGED <<subRow, subTasks, subTold, subSent, subLate, subActs>>

(* An administrator repeats a failed job, or deletes one.                  *)
SubAdmin ==
  /\ SubFault
  /\ \/ subJob = "failed" /\ subJob' = "waiting"
     \/ subJob # "none" /\ ~subWorker /\ subJob' = "removed"
  /\ UNCHANGED <<subWorker, subRow, subTasks, subTold, subSent, subLate, subActs>>

(* The object lives seven days, whenever the mail is due.                  *)
SubExpires ==
  /\ subRow # "none"
  /\ subRow' = "none"
  /\ UNCHANGED <<subJob, subWorker, subTasks, subTold, subSent, subLate, subActs, subFaults>>

SubNext ==
  \/ \E r \in SubRequests : AskCreate(r) \/ AskCancel(r) \/ AskDestroy(r)
  \/ \E t \in subTasks : SubStep(t)
  \/ SubDue \/ SubTaken \/ SubDelivers \/ SubOver \/ SubAdmin \/ SubExpires

SubSpec == SubInit /\ [][SubNext]_subVars

-----------------------------------------------------------------------------
(* Properties.                                                             *)

(* Once the client has been told that its mail is taken back, nothing is   *)
(* delivered any more, not by the worker that has the job in hand nor by a *)
(* retry: the mail was delivered before the job was removed, or never.     *)
(* (It may have been delivered: an object stays pending when its job is    *)
(* done, and a completed job can be removed.)                              *)
TakenBackStays ==
  "canceled" \in subTold => subJob = "removed" /\ ~subWorker /\ ~subLate

(* A mail that goes out belongs to an object that the client can read, is  *)
(* about to get, was refused by a failure, or has seen end.                *)
SentIsKnown ==
  subSent => \/ subRow # "none" \/ "created" \in subTold \/ "notCreated" \in subTold
             \/ \E t \in subTasks : t.at = "save"

(* What the client of a submission was told of it holds.                   *)
SubmissionsAreTrue == TakenBackStays /\ SentIsKnown
=============================================================================
