---------------------------- MODULE OutboundQueue ----------------------------
(***************************************************************************)
(* One job of the BullMQ queue "smtp-outbound": the worker that delivers   *)
(* it, its 'completed' and 'failed' listeners, the copy in "Sent" that     *)
(* carries the state of a scheduled send, the user's cancel request and    *)
(* the administrator's retry and delete.                                   *)
(*                                                                         *)
(* A handler is cut at its awaits.  BullMQ itself (the job states, the     *)
(* count of attempts, the retry decision, stalled jobs) is external: it is *)
(* modelled from the options the code passes and the calls it makes.       *)
(*                                                                         *)
(* A Hop is what one relay call is for: a recipient domain with its MX     *)
(* hosts, which are tried one after another, or the one smarthost.         *)
(***************************************************************************)
EXTENDS Naturals

CONSTANTS
  Local,            \* local recipients, after alias expansion
  Ext,              \* external recipients
  Hop,              \* the servers external mail is handed to
  HopOf,            \* the hop an external recipient is reached through
  Hosts,            \* how many hosts a hop has
  MaxAttempts,      \* opts.attempts of the job
  MaxCrashes,       \* bound: how often the worker process dies
  MaxAdminRetries   \* bound: how often an administrator retries the job

ASSUME HopAssumption ==
  /\ HopOf \in [Ext -> Hop]
  /\ \A h \in Hop : \E r \in Ext : HopOf[r] = h
  /\ Hosts \in [Hop -> Nat \ {0}]
  /\ Local \cap Hop = {}
  /\ Local \cap Ext = {}

ASSUME BoundAssumption ==
  /\ MaxAttempts \in Nat \ {0}
  /\ MaxCrashes \in Nat
  /\ MaxAdminRetries \in Nat

VARIABLES
  job,            \* job.data, fixed when the job is added
  jobState,       \* where BullMQ keeps the job
  attemptsMade,   \* job.attemptsMade
  pc,             \* how far the running attempt is
  todo,           \* local recipients and hops this attempt has not served yet
  tried,          \* hosts of a hop this attempt was rejected by
  copies,         \* messages a recipient got so far
  stored,         \* the attachments are still in MinIO
  pending,        \* calls the listeners started and did not await
  dsn,            \* bounces that were seen to, and those lost with the process
  schedStatus,    \* scheduledStatus of the copy in "Sent"
  cancelPc,       \* the cancel request of the user
  crashes, adminRetries,
  seen            \* history: what the attempts so far went through

vars == <<job, jobState, attemptsMade, pc, todo, tried, copies, stored, pending,
          dsn, schedStatus, cancelPc, crashes, adminRetries, seen>>

Parties == Local \cup Hop
Rcpts   == Local \cup Ext

Behind(h) == {r \in Ext : HopOf[r] = h}

NoneTried == [h \in Hop |-> 0]

JobStates == {"delayed", "waiting", "active", "stalled", "backoff",
              "completed", "failed", "removed"}

TypeOK ==
  /\ job \in [scheduled : BOOLEAN, attachments : BOOLEAN]
  /\ jobState \in JobStates
  /\ attemptsMade \in Nat
  /\ pc \in {"idle", "check", "build", "deliver", "complete"}
  /\ todo \subseteq Parties
  /\ tried \in [Hop -> Nat]
  /\ copies \in [Rcpts -> Nat]
  /\ stored \in BOOLEAN
  /\ pending \in [cleanup : BOOLEAN, dsn : Nat]
  /\ dsn \in [over : Nat, lost : Nat]
  /\ schedStatus \in {"absent", "PENDING", "SENT", "CANCELLED"}
  /\ cancelPc \in {"idle", "remove", "write", "done"}
  /\ crashes \in 0..MaxCrashes
  /\ adminRetries \in 0..MaxAdminRetries
  /\ seen \in [permanent : BOOLEAN, stopped : BOOLEAN, cancelFirst : BOOLEAN,
              dropped : SUBSET Local]

-----------------------------------------------------------------------------
(* Adding the job: attachments are uploaded first, a scheduled send gets a *)
(* delay.                                                                  *)
Init ==
  /\ job \in [scheduled : BOOLEAN, attachments : BOOLEAN]
  /\ jobState = IF job.scheduled THEN "delayed" ELSE "waiting"
  /\ attemptsMade = 0
  /\ pc = "idle"
  /\ todo = {}
  /\ tried = NoneTried
  /\ copies = [r \in Rcpts |-> 0]
  /\ stored = job.attachments
  /\ pending = [cleanup |-> FALSE, dsn |-> 0]
  /\ dsn = [over |-> 0, lost |-> 0]
  /\ schedStatus = "absent"
  /\ cancelPc = "idle"
  /\ crashes = 0
  /\ adminRetries = 0
  /\ seen = [permanent |-> FALSE, stopped |-> FALSE, cancelFirst |-> FALSE,
             dropped |-> {}]

(* The copy in "Sent" is written by a promise nobody awaits, after the job *)
(* was added; only a scheduled send gives it a status.                     *)
StoreSentCopy ==
  /\ job.scheduled
  /\ schedStatus = "absent"
  /\ schedStatus' = "PENDING"
  /\ UNCHANGED <<job, jobState, attemptsMade, pc, todo, tried, copies, stored,
                 pending, dsn, cancelPc, crashes, adminRetries, seen>>

(* BullMQ: the delay of a scheduled job or of a retry is over, or the job   *)
(* of a dead worker is found stalled.                                      *)
BecomeWaiting ==
  /\ jobState \in {"delayed", "backoff", "stalled"}
  /\ jobState' = "waiting"
  /\ UNCHANGED <<job, attemptsMade, pc, todo, tried, copies, stored, pending,
                 dsn, schedStatus, cancelPc, crashes, adminRetries, seen>>

(* BullMQ hands the job to the worker. *)
StartAttempt ==
  /\ jobState = "waiting"
  /\ jobState' = "active"
  /\ pc' = "check"
  /\ seen' = [seen EXCEPT !.cancelFirst = schedStatus = "CANCELLED"]
  /\ UNCHANGED <<job, attemptsMade, todo, tried, copies, stored, pending, dsn,
                 schedStatus, cancelPc, crashes, adminRetries>>

-----------------------------------------------------------------------------
(* The worker's handler. *)

(* The status in the mailbox tells the worker to stop. *)
Stops_Never == FALSE   \* mutant: the check is forgotten
Stops == schedStatus = "CANCELLED"

CheckCancelled ==
  /\ pc = "check"
  /\ IF Stops
       THEN /\ pc' = "complete"
            /\ seen' = [seen EXCEPT !.stopped = TRUE]
       ELSE /\ pc' = "build"
            /\ UNCHANGED seen
  /\ UNCHANGED <<job, jobState, attemptsMade, todo, tried, copies, stored,
                 pending, dsn, schedStatus, cancelPc, crashes, adminRetries>>

(* Load the attachments, build the message, sign it, resolve and split the *)
(* recipients.  A missing attachment is an error: see FailAttempt.         *)
BuildMessage ==
  /\ pc = "build"
  /\ job.attachments => stored
  /\ pc' = "deliver"
  /\ todo' = Parties
  /\ UNCHANGED <<job, jobState, attemptsMade, tried, copies, stored, pending,
                 dsn, schedStatus, cancelPc, crashes, adminRetries, seen>>

(* What is left of the attempt's loop after p. *)
Rest_Same(p) == todo   \* mutant: the loop does not advance
Rest(p) == todo \ {p}

Given(taken) == [r \in Rcpts |-> IF r \in taken THEN copies[r] + 1 ELSE copies[r]]

StoringTo(r) == pc = "deliver" /\ r \in todo \cap Local /\ todo' = Rest(r)

(* storeInboundMessage for one local recipient.                            *)
StoreLocal(r) ==
  /\ StoringTo(r)
  /\ copies' = Given({r})
  /\ UNCHANGED <<job, jobState, attemptsMade, pc, tried, stored, pending, dsn,
                 schedStatus, cancelPc, crashes, adminRetries, seen>>

(* It returns without storing: the mailbox or the folder is not there, a   *)
(* transport rule rejects or "quarantines" the mail, or the recipient's    *)
(* own rule deletes it for good.                                           *)
DropLocal(r) ==
  /\ StoringTo(r)
  /\ seen' = [seen EXCEPT !.dropped = @ \cup {r}]
  /\ UNCHANGED <<job, jobState, attemptsMade, pc, tried, copies, stored,
                 pending, dsn, schedStatus, cancelPc, crashes, adminRetries>>

(* All local recipients come first, then one hop after the other.          *)
Relays(h) ==
  /\ pc = "deliver"
  /\ todo \cap Local = {}
  /\ h \in todo
  /\ \A g \in Hop \ {h} : tried[g] = 0

(* One sendMail.  It resolves when the server took the message for at least *)
(* one recipient; those it refused are reported in a field nobody reads.   *)
RelayTo(h, taken) ==
  /\ Relays(h)
  /\ taken # {}
  /\ copies' = Given(taken)
  /\ todo' = Rest(h)
  /\ tried' = NoneTried
  /\ UNCHANGED <<job, jobState, attemptsMade, pc, stored, pending, dsn,
                 schedStatus, cancelPc, crashes, adminRetries, seen>>

(* It rejects, perhaps after the server took the message and before it     *)
(* said so, and the next host of the domain is tried.                      *)
NextHost(h, taken) ==
  /\ Relays(h)
  /\ tried[h] + 1 < Hosts[h]
  /\ copies' = Given(taken)
  /\ tried' = [tried EXCEPT ![h] = @ + 1]
  /\ UNCHANGED <<job, jobState, attemptsMade, pc, todo, stored, pending, dsn,
                 schedStatus, cancelPc, crashes, adminRetries, seen>>

(* Both loops of the handler are through. *)
AllServed_LocalOnly == todo \cap Local = {}   \* mutant: the relay is not awaited
AllServed == todo = {}

(* updateMany touches the copy only where it is still PENDING; an error of *)
(* the update is only logged.                                              *)
StatusAfterSend == {schedStatus} \cup
                   (IF schedStatus = "PENDING" THEN {"SENT"} ELSE {})

MarkSent ==
  /\ pc = "deliver"
  /\ AllServed
  /\ pc' = "complete"
  /\ schedStatus' \in StatusAfterSend
  /\ UNCHANGED <<job, jobState, attemptsMade, todo, tried, copies, stored,
                 pending, dsn, cancelPc, crashes, adminRetries, seen>>

(* The handler returned: BullMQ completes the job, then the 'completed'    *)
(* listener starts to delete the attachments.                              *)
CompleteJob ==
  /\ pc = "complete"
  /\ pc' = "idle"
  /\ jobState' = "completed"
  /\ pending' = [pending EXCEPT !.cleanup = @ \/ job.attachments]
  /\ UNCHANGED <<job, attemptsMade, todo, tried, copies, stored, dsn,
                 schedStatus, cancelPc, crashes, adminRetries, seen>>

(* BullMQ counts a failed attempt and decides on a retry, before the       *)
(* listener runs.                                                          *)
Counted_Not == attemptsMade   \* mutant: failed attempts are not counted
Counted == attemptsMade + 1

Retries(made) == made < MaxAttempts

(* isPermanent of the 'failed' listener: a 5xx or no attempt left.         *)
Final_OffByOne(fiveXX, made) == fiveXX \/ made > MaxAttempts   \* mutant
Final_Always(fiveXX, made) == TRUE   \* mutant: every failure taken for final
Final(fiveXX, made) == fiveXX \/ made >= MaxAttempts

(* The handler threw.  BullMQ counts the attempt and puts the job back or  *)
(* fails it; the listener's job.discard() comes too late to change that.   *)
(* When it takes the failure for permanent it starts the cleanup and the   *)
(* bounce.                                                                 *)
FailAttempt(fiveXX) ==
  /\ attemptsMade' = Counted
  /\ jobState' = IF Retries(Counted) THEN "backoff" ELSE "failed"
  /\ pc' = "idle" /\ todo' = {} /\ tried' = NoneTried
  /\ pending' = IF Final(fiveXX, Counted)
                  THEN [cleanup |-> pending.cleanup \/ job.attachments,
                        dsn     |-> pending.dsn + 1]
                  ELSE pending
  /\ seen' = [seen EXCEPT !.permanent = @ \/ fiveXX]
  /\ UNCHANGED <<job, stored, dsn, schedStatus, cancelPc, crashes, adminRetries>>

(* A query, an attachment, a local store or the lookup of a domain fails.  *)
Throws ==
  /\ pc \in {"check", "build", "deliver"}
  /\ tried = NoneTried
  /\ FailAttempt(FALSE)
  /\ UNCHANGED copies

(* A local store that fails after the row of the message was written.      *)
StoreThrows(r) ==
  /\ pc = "deliver" /\ r \in todo \cap Local
  /\ FailAttempt(FALSE)
  /\ copies' = Given({r})

(* The last host of a domain rejects too: its error is the one that counts, *)
(* with a reply code when the server gave one instead of taking the mail.  *)
RelayThrows(h, taken, fiveXX) ==
  /\ Relays(h)
  /\ tried[h] + 1 = Hosts[h]
  /\ fiveXX => taken = {}
  /\ FailAttempt(fiveXX)
  /\ copies' = Given(taken)

-----------------------------------------------------------------------------
(* What the listeners left running. *)

CleanupAttachments ==
  /\ pending.cleanup
  /\ pending' = [pending EXCEPT !.cleanup = FALSE]
  /\ stored' = FALSE
  /\ UNCHANGED <<job, jobState, attemptsMade, pc, todo, tried, copies, dsn,
                 schedStatus, cancelPc, crashes, adminRetries, seen>>

BounceWanted == pending.dsn > 0

(* The bounce is stored, or refused because its sender is not local; an    *)
(* error storing it is only logged.                                        *)
SendDsnBounce ==
  /\ BounceWanted
  /\ pending' = [pending EXCEPT !.dsn = @ - 1]
  /\ dsn' = [dsn EXCEPT !.over = @ + 1]
  /\ UNCHANGED <<job, jobState, attemptsMade, pc, todo, tried, copies, stored,
                 schedStatus, cancelPc, crashes, adminRetries, seen>>

(* The worker process dies: the attempt and all pending calls are gone.    *)
Crash ==
  /\ crashes < MaxCrashes
  /\ crashes' = crashes + 1
  /\ jobState' = IF jobState = "active" THEN "stalled" ELSE jobState
  /\ pc' = "idle" /\ todo' = {} /\ tried' = NoneTried
  /\ pending' = [cleanup |-> FALSE, dsn |-> 0]
  /\ dsn' = [dsn EXCEPT !.lost = @ + pending.dsn]
  /\ UNCHANGED <<job, attemptsMade, copies, stored, schedStatus,
                 cancelPc, adminRetries, seen>>

-----------------------------------------------------------------------------
(* POST /mail/messages/:id/cancel-scheduled *)

CancelRead ==
  /\ cancelPc = "idle"
  /\ schedStatus = "PENDING"
  /\ cancelPc' = "remove"
  /\ UNCHANGED <<job, jobState, attemptsMade, pc, todo, tried, copies, stored,
                 pending, dsn, schedStatus, crashes, adminRetries, seen>>

(* remove() throws for a job a worker has locked; the request goes on.     *)
Removable_Locked == jobState # "removed"   \* mutant: the lock is ignored
Removable == jobState \in {"delayed", "waiting", "backoff", "completed", "failed"}

CancelRemove ==
  /\ cancelPc = "remove"
  /\ cancelPc' = "write"
  /\ \/ Removable /\ jobState' = "removed"
     \/ ~ Removable /\ UNCHANGED jobState
  /\ UNCHANGED <<job, attemptsMade, pc, todo, tried, copies, stored, pending,
                 dsn, schedStatus, crashes, adminRetries, seen>>

CancelWrite ==
  /\ cancelPc = "write"
  /\ cancelPc' = "done"
  /\ schedStatus' = "CANCELLED"
  /\ UNCHANGED <<job, jobState, attemptsMade, pc, todo, tried, copies, stored,
                 pending, dsn, crashes, adminRetries, seen>>

(* POST /admin/queues/jobs/:id/retry; attemptsMade is kept.                *)
AdminRetry ==
  /\ jobState = "failed"
  /\ adminRetries < MaxAdminRetries
  /\ adminRetries' = adminRetries + 1
  /\ jobState' = "waiting"
  /\ UNCHANGED <<job, attemptsMade, pc, todo, tried, copies, stored, pending,
                 dsn, schedStatus, cancelPc, crashes, seen>>

(* DELETE /admin/queues/jobs/:id                                           *)
AdminRemove ==
  /\ Removable
  /\ jobState' = "removed"
  /\ UNCHANGED <<job, attemptsMade, pc, todo, tried, copies, stored, pending,
                 dsn, schedStatus, cancelPc, crashes, adminRetries, seen>>

-----------------------------------------------------------------------------
Handler ==
  \/ CheckCancelled
  \/ BuildMessage
  \/ \E r \in Local : StoreLocal(r) \/ DropLocal(r) \/ StoreThrows(r)
  \/ \E h \in Hop : \E taken \in SUBSET Behind(h) :
       \/ RelayTo(h, taken) \/ NextHost(h, taken)
       \/ \E fiveXX \in BOOLEAN : RelayThrows(h, taken, fiveXX)
  \/ MarkSent
  \/ CompleteJob
  \/ Throws

Listeners == CleanupAttachments \/ SendDsnBounce

Users == StoreSentCopy \/ CancelRead \/ AdminRetry \/ AdminRemove

Next ==
  \/ BecomeWaiting \/ StartAttempt
  \/ Handler
  \/ Listeners
  \/ Crash
  \/ CancelRemove \/ CancelWrite
  \/ Users

Spec == Init /\ [][Next]_vars

(* BullMQ promotes and hands out jobs, every await of the handler ends     *)
(* (nodemailer has connection, greeting and socket timeouts), the          *)
(* listeners' promises settle, and a request that began runs to its end.   *)
(* Nothing makes a user, an administrator or a crash act.                  *)
Fairness ==
  /\ WF_vars(BecomeWaiting)
  /\ WF_vars(StartAttempt)
  /\ WF_vars(Handler)
  /\ WF_vars(Listeners)
  /\ WF_vars(CancelRemove \/ CancelWrite)

FairSpec == Spec /\ Fairness

-----------------------------------------------------------------------------
(* Properties. *)

Reached(p) == IF p \in Local THEN copies[p] > 0
                             ELSE \E r \in Behind(p) : copies[r] > 0

(* A hop is served when it took the message for someone behind it; a local *)
(* recipient when he has it, or when storeInboundMessage decided that he   *)
(* is not to have it.                                                      *)
Served(p) == Reached(p) \/ p \in seen.dropped

EveryoneServed == \A p \in Parties : Served(p)

(* "SENT" in the mailbox is never shown before every hop took the mail and *)
(* every local recipient has it or had it dropped: a failing relay, a      *)
(* retry, a crash or a cancelled job never reaches the update.  That a     *)
(* mail dropped for everybody is shown as SENT is what the code does.      *)
SentMeansServed == schedStatus = "SENT" => EveryoneServed

(* A job that completes was served to everyone, unless the worker stopped  *)
(* it because the user had cancelled.                                      *)
CompletedMeansServed ==
  jobState = "completed" => EveryoneServed \/ seen.stopped

(* Nothing is shown as done, to the user or to the administrator, while    *)
(* somebody still has to be served.                                        *)
DoneMeansServed == SentMeansServed /\ CompletedMeansServed

(* A retry repeats everything, so a recipient may get a mail again.  It    *)
(* happens at most once per failed attempt and per crash, and for an       *)
(* external recipient as often as its domain has hosts: one that took the  *)
(* mail and did not answer is followed by the next.                        *)
HostsOf(r) == IF r \in Local THEN 1 ELSE Hosts[HopOf[r]]

CopiesBounded ==
  \A r \in Rcpts : copies[r] <= HostsOf(r) * (1 + attemptsMade + crashes)

(* A mail whose cancellation was recorded before an attempt began is not   *)
(* handed to anybody by that attempt, whatever the earlier ones did and    *)
(* although remove() may have failed.                                      *)
CancelHonoured ==
  [][seen.cancelFirst /\ jobState = "active" => copies' = copies]_vars

(* A cancelled send stays cancelled for the user: neither a late worker    *)
(* nor a late copy in "Sent" overwrites it.                                *)
CancelledForGood == [][schedStatus = "CANCELLED" => schedStatus' = "CANCELLED"]_vars

(* What the user was told of a cancellation stands.                        *)
CancelStands == CancelHonoured /\ CancelledForGood

(* Each time a job failed for good, first or after an administrator's      *)
(* retry, a bounce was started: it is over (stored, refused because the    *)
(* sender is not local, or given up with a log entry), still under way, or *)
(* lost because the process died with it.                                  *)
Bounces == pending.dsn + dsn.over + dsn.lost

FailureIsReported == jobState = "failed" => Bounces > adminRetries

(* As long as no attempt was refused with a 5xx and no administrator       *)
(* revived the job, an attempt that may still come finds the attachments.  *)
AttachmentsKept ==
  /\ job.attachments
  /\ ~seen.permanent
  /\ adminRetries = 0
  /\ jobState \in {"delayed", "waiting", "backoff", "stalled"}
  => stored

(* Every job is settled at last: completed, failed or removed.  Unless the *)
(* process dies or the job is taken away, the attachments of a job that    *)
(* completed or failed are then deleted from MinIO.                        *)
Settled ==
  <>[](/\ jobState \in {"completed", "failed", "removed"}
       /\ jobState # "removed" => ~stored \/ crashes > 0)

-----------------------------------------------------------------------------
(* The job implements Delivery. *)

Outcome ==
  CASE jobState = "completed" -> IF seen.stopped THEN "stopped" ELSE "sent"
    [] jobState \in {"failed", "removed"} -> jobState
    [] OTHER -> "open"

Abstract == INSTANCE Delivery WITH
  Party   <- Parties,
  Private <- Local,
  reached <- {p \in Parties : Reached(p)},
  dropped <- seen.dropped,
  outcome <- Outcome

(* Whatever is retried, repeated after a crash or cancelled, the job shows *)
(* the outside what one careful delivery would: nothing is called sent     *)
(* before everyone has it or had it dropped, no server is skipped, and     *)
(* nobody is served after it is closed.                                    *)
ImplementsDelivery == Abstract!Spec

-----------------------------------------------------------------------------
(* What a comment of the code says and the code does not do. *)

(* queue.ts: "5xx errors are PERMANENT - mark as final immediately even if *)
(* attempts remain".                                                       *)
PermanentIsFinal ==
  seen.permanent /\ adminRetries = 0 => jobState \in {"failed", "removed"}
=============================================================================
