------------------------------ MODULE InboundMail ------------------------------
(***************************************************************************)
(* One message from a peer's queue, or from a client's outbox, to the      *)
(* mailboxes: RCPT, content filter, aliases, domains, one mailbox after    *)
(* the other, the outbound queue for the rest.                             *)
(*                                                                         *)
(* The peer tries again what was not answered with 2xx or 5xx.  A try has  *)
(* a handler of its own, which goes on when its connection is lost: two    *)
(* tries of one message may be stored at the same time.  Meanwhile an      *)
(* administrator switches users, aliases, rooms, the domain and local      *)
(* delivery off and on.                                                    *)
(*                                                                         *)
(* The statements of a store operation are in MailStore; here a store is   *)
(* three steps (find the mailbox, insert, count and notify).  Mail rules   *)
(* choose freely among deliver, discard, refuse and hold; where they file  *)
(* or copy a message to, and the mail they forward, is left out.  Bookings *)
(* of rooms are in RoomBooking.                                            *)
(***************************************************************************)
EXTENDS Naturals, FiniteSets, Sequences, SequencesExt

CONSTANTS
  Boxes,         \* addresses of users and shared mailboxes
  Aliases,
  TargetOf,      \* the mailbox of an alias
  Rooms,         \* addresses of resource mailboxes
  Outside,       \* addresses of other domains
  Envelopes,     \* the recipient lists a message may have
  Ports,         \* among "inbound" (25) and "submission" (465, 587)
  MaxTries,      \* bound: tries of the peer
  MaxFaults,     \* bound: statements that fail, lost connections, crashes
  MaxSwitches    \* bound: acts of the administrator

Here     == Boxes \cup Aliases \cup Rooms
Address  == Here \cup Outside
Switches == Here \cup {"domain", "delivery"}

ASSUME InboundAssumption ==
  /\ TargetOf \in [Aliases -> Boxes]
  /\ Envelopes \subseteq Seq(Address)
  /\ Ports \subseteq {"inbound", "submission"}
  /\ {"domain", "delivery"} \cap Address = {}
  /\ {MaxTries, MaxFaults, MaxSwitches} \subseteq Nat

VARIABLES
  mail,          \* [port, rcpts], chosen once
  on,            \* what is switched on
  peer,          \* the sender's queue
  task,          \* the handler of each try
  copies,        \* of the message in each mailbox
  jobs,          \* outbound jobs that name an address
  held,          \* rows in the quarantine
  budget

vars == <<mail, on, peer, task, copies, jobs, held, budget>>

Tries == 1..MaxTries
Steps == {"rcpt", "filter", "upload", "row", "publish", "expand", "split",
          "find", "insert", "count", "queue", "rooms"}
Ends  == {"none", "ok", "temporary", "permanent", "gone"}
What  == {"stored", "unknown", "refused", "held", "discarded", "queued", "lost"}

Task == [at : Steps \cup Ends,
         to : Seq(Address),              \* accepted recipients
         todo : Seq(Address),            \* what the loop at "at" has left
         local : Seq(Address), ext : Seq(Address),
         became : SUBSET (Address \X Address),
         fate : SUBSET (Address \X What),
         stale : BOOLEAN,                \* a switch was turned since it began
         hurt : BOOLEAN]                 \* one of its statements has failed

InboundTypeOK ==
  /\ mail \in [port : Ports, rcpts : Envelopes]
  /\ on \subseteq Switches
  /\ peer \in [try : 0..MaxTries, state : {"waiting", "talking", "done"},
               left : Seq(Address), sent : SUBSET Address, bounced : SUBSET Address]
  /\ task \in [Tries -> Task]
  /\ copies \in [Boxes -> Nat]
  /\ jobs \in [Address -> Nat]
  /\ held \in Nat
  /\ budget \in [faults : 0..MaxFaults, switches : 0..MaxSwitches]

Idle == [at |-> "none", to |-> <<>>, todo |-> <<>>, local |-> <<>>, ext |-> <<>>,
         became |-> {}, fate |-> {}, stale |-> FALSE, hurt |-> FALSE]

InboundInit ==
  /\ mail \in [port : Ports, rcpts : Envelopes]
  /\ on = Switches
  /\ peer = [try |-> 0, state |-> "waiting", left |-> mail.rcpts,
             sent |-> {}, bounced |-> {}]
  /\ task = [t \in Tries |-> Idle]
  /\ copies = [b \in Boxes |-> 0]
  /\ jobs = [a \in Address |-> 0]
  /\ held = 0
  /\ budget = [faults |-> 0, switches |-> 0]

Busy(t) == task[t].at \in Steps

-----------------------------------------------------------------------------
(* RCPT.                                                                   *)

(* An alias counts while its target does.  The domain is not looked at.    *)
VerifyRecipient(a) ==
  /\ a \in on
  /\ a \in Aliases => TargetOf[a] \in on

OnRcptTo(a) ==
  \/ mail.port = "submission"
  \/ "delivery" \in on /\ VerifyRecipient(a)

(* What the session goes on with after the last RCPT.                      *)
FirstStep(to) ==
  IF to = <<>> THEN "gone" ELSE IF mail.port = "inbound" THEN "filter" ELSE "split"

Rcpt(t) ==
  /\ task[t].at = "rcpt"
  /\ LET a   == Head(task[t].todo)
         ok  == OnRcptTo(a)
         to  == IF ok THEN Append(task[t].to, a) ELSE task[t].to
         end == Len(task[t].todo) = 1
     IN /\ task' = [task EXCEPT ![t].to = to,
                                ![t].todo = IF end THEN to ELSE Tail(@),
                                ![t].at = IF end THEN FirstStep(to) ELSE @]
        /\ peer' = [peer EXCEPT
             !.left = IF ok THEN @ ELSE to \o Tail(task[t].todo),
             !.bounced = IF ok THEN @ ELSE @ \cup {a},
             !.state = IF end /\ to = <<>> THEN "waiting" ELSE @]
  /\ UNCHANGED <<mail, on, copies, jobs, held, budget>>

-----------------------------------------------------------------------------
(* The content filter and the quarantine.                                  *)

Goes(t, at) == task' = [task EXCEPT ![t].at = at]

Filter(t) ==
  /\ task[t].at = "filter"
  /\ \E at \in {"permanent", "upload", "expand"} : Goes(t, at)
  /\ UNCHANGED <<mail, on, peer, copies, jobs, held, budget>>

QuarantineMessage(t) ==
  /\ \/ task[t].at = "upload" /\ Goes(t, "row") /\ UNCHANGED held
     \/ task[t].at = "row" /\ Goes(t, "publish") /\ held' = held + 1
     \/ task[t].at = "publish" /\ Goes(t, "ok") /\ UNCHANGED held
  /\ UNCHANGED <<mail, on, peer, copies, jobs, budget>>

-----------------------------------------------------------------------------
(* Aliases and domains: on port 25 aliases first, for a client domains     *)
(* first.                                                                  *)

(* An address that was an alias once in this call is not resolved again.   *)
Resolve(a, visited) ==
  IF a \in Aliases \cap on /\ TargetOf[a] \in on /\ a \notin visited
  THEN TargetOf[a] ELSE a

(* [...new Set(result)]                                                    *)
AddOnce(s, a) == IF a \in ToSet(s) THEN s ELSE Append(s, a)

AfterStore == IF mail.port = "inbound" THEN "rooms" ELSE "ok"

(* The next loop: mailboxes, then the queue.                               *)
Continue(tk, local) ==
  IF local # <<>> THEN [tk EXCEPT !.at = "find", !.todo = local]
  ELSE [tk EXCEPT !.at = IF tk.ext # <<>> THEN "queue" ELSE AfterStore, !.todo = <<>>]

ExpandRecipients(t) ==
  /\ task[t].at = "expand"
  /\ LET tk      == task[t]
         a       == Head(tk.todo)
         visited == {p[1] : p \in {q \in tk.became : q[1] # q[2]}}
         r       == Resolve(a, visited)
         out     == AddOnce(tk.local, r)
         next    == [tk EXCEPT !.became = @ \cup {<<a, r>>}, !.local = out, !.todo = Tail(@)]
     IN task' = [task EXCEPT ![t] =
          IF Len(tk.todo) > 1 THEN next
          ELSE IF mail.port = "inbound"
          THEN [next EXCEPT !.at = "split", !.local = <<>>, !.todo = out]
          ELSE Continue(next, out)]
  /\ UNCHANGED <<mail, on, peer, copies, jobs, held, budget>>

IsLocal(a) == a \in Here /\ "domain" \in on

AfterSplit(tk) ==
  IF mail.port = "inbound" THEN Continue(tk, tk.local)
  ELSE IF tk.local # <<>>
  THEN [tk EXCEPT !.at = "expand", !.todo = tk.local, !.local = <<>>]
  ELSE Continue(tk, <<>>)

Split(t) ==
  /\ task[t].at = "split"
  /\ LET tk   == task[t]
         a    == Head(tk.todo)
         next == [tk EXCEPT !.todo = Tail(@),
                            !.local = IF IsLocal(a) THEN Append(@, a) ELSE @,
                            !.ext = IF IsLocal(a) THEN @ ELSE Append(@, a)]
     IN task' = [task EXCEPT ![t] = IF Len(tk.todo) > 1 THEN next ELSE AfterSplit(next)]
  /\ UNCHANGED <<mail, on, peer, copies, jobs, held, budget>>

-----------------------------------------------------------------------------
(* storeInboundMessage, for one address after the other.                   *)

Settle(tk, what) ==
  LET done == [tk EXCEPT !.fate = @ \cup {<<Head(tk.todo), what>>}]
  IN Continue(done, Tail(tk.todo))

Find(t) ==
  /\ task[t].at = "find"
  /\ \/ /\ Head(task[t].todo) \in Boxes \cap on
        /\ \/ Goes(t, "insert")
           \/ \E what \in {"refused", "held", "discarded"} :
                task' = [task EXCEPT ![t] = Settle(task[t], what)]
     \/ /\ Head(task[t].todo) \notin Boxes \cap on
        /\ task' = [task EXCEPT ![t] = Settle(task[t], "unknown")]
  /\ UNCHANGED <<mail, on, peer, copies, jobs, held, budget>>

Insert(t) ==
  /\ task[t].at = "insert"
  /\ copies' = [copies EXCEPT ![Head(task[t].todo)] = @ + 1]
  /\ Goes(t, "count")
  /\ UNCHANGED <<mail, on, peer, jobs, held, budget>>

Count(t) ==
  /\ task[t].at = "count"
  /\ task' = [task EXCEPT ![t] = Settle(task[t], "stored")]
  /\ UNCHANGED <<mail, on, peer, copies, jobs, held, budget>>

(* The recipients of other domains, in one job.                            *)
AllExternal(tk, what) ==
  [tk EXCEPT !.fate = @ \cup {<<a, what>> : a \in ToSet(tk.ext)}, !.at = AfterStore]

EnqueueOutbound(t) ==
  /\ task[t].at = "queue"
  /\ task' = [task EXCEPT ![t] = AllExternal(task[t], "queued")]
  /\ jobs' = [a \in Address |-> IF a \in ToSet(task[t].ext) THEN jobs[a] + 1 ELSE jobs[a]]
  /\ UNCHANGED <<mail, on, peer, copies, held, budget>>

ProcessRooms(t) ==
  /\ task[t].at = "rooms"
  /\ Goes(t, "ok")
  /\ UNCHANGED <<mail, on, peer, copies, jobs, held, budget>>

-----------------------------------------------------------------------------
(* Failures.                                                               *)

AfterThrow_Swallowed(tk) == [tk EXCEPT !.at = "ok"]
AfterThrow_Again(tk) == [tk EXCEPT !.at = IF @ = "count" THEN "find" ELSE "temporary"]
AfterThrow_Silent(tk) == [tk EXCEPT !.at = "gone"]

(* A statement throws.  RCPT answers 550 even so; on port 25 a job that    *)
(* cannot be added is only logged.                                         *)
AfterThrow(tk) ==
  IF tk.at = "queue" /\ mail.port = "inbound"
  THEN AllExternal(tk, "lost") ELSE [tk EXCEPT !.at = "temporary"]

Fault == budget.faults < MaxFaults /\ budget' = [budget EXCEPT !.faults = @ + 1]

Throws(t) ==
  /\ Fault
  /\ task[t].at \in Steps \ {"rcpt"}
  /\ task' = [task EXCEPT ![t] = [AfterThrow(task[t]) EXCEPT !.hurt = TRUE]]
  /\ UNCHANGED <<mail, on, peer, copies, jobs, held>>

(* On port 25 only: a client's RCPT asks nothing.                          *)
RcptThrows(t) ==
  /\ Fault
  /\ task[t].at = "rcpt" /\ mail.port = "inbound"
  /\ LET a   == Head(task[t].todo)
         to  == task[t].to
         end == Len(task[t].todo) = 1
     IN /\ task' = [task EXCEPT ![t].hurt = TRUE,
                                ![t].todo = IF end THEN to ELSE Tail(@),
                                ![t].at = IF end THEN FirstStep(to) ELSE @]
        /\ peer' = [peer EXCEPT !.left = to \o Tail(task[t].todo), !.bounced = @ \cup {a},
                                !.state = IF end /\ to = <<>> THEN "waiting" ELSE @]
  /\ UNCHANGED <<mail, on, copies, jobs, held>>

(* A timer, or the network, closes the connection; a handler goes on.      *)
Hangup ==
  /\ Fault
  /\ peer.state = "talking"
  /\ peer' = [peer EXCEPT !.state = "waiting"]
  /\ task' = [task EXCEPT ![peer.try].at = IF @ = "rcpt" THEN "gone" ELSE @]
  /\ UNCHANGED <<mail, on, copies, jobs, held>>

Crash ==
  /\ Fault
  /\ \E t \in Tries : Busy(t)
  /\ task' = [t \in Tries |-> IF Busy(t) THEN [task[t] EXCEPT !.at = "gone"] ELSE task[t]]
  /\ peer' = [peer EXCEPT !.state = IF @ = "talking" THEN "waiting" ELSE @]
  /\ UNCHANGED <<mail, on, copies, jobs, held>>

-----------------------------------------------------------------------------
(* The peer and the administrator.                                         *)

Connect ==
  LET t == peer.try + 1 IN
  /\ peer.state = "waiting" /\ peer.left # <<>> /\ peer.try < MaxTries
  /\ peer' = [peer EXCEPT !.try = t, !.state = "talking"]
  /\ task' = [task EXCEPT ![t].at = "rcpt", ![t].todo = peer.left]
  /\ UNCHANGED <<mail, on, copies, jobs, held, budget>>

(* Nothing is left, or the peer has tried often enough.                    *)
Finish ==
  /\ peer.state = "waiting"
  /\ peer.left = <<>> \/ peer.try = MaxTries
  /\ peer' = [peer EXCEPT !.state = "done", !.left = <<>>,
                          !.bounced = @ \cup ToSet(peer.left)]
  /\ UNCHANGED <<mail, on, task, copies, jobs, held, budget>>

ReadReply ==
  LET tk == task[peer.try] IN
  /\ peer.state = "talking"
  /\ tk.at \in {"ok", "temporary", "permanent"}
  /\ peer' = [peer EXCEPT
       !.state = "waiting",
       !.left = IF tk.at = "temporary" THEN @ ELSE <<>>,
       !.sent = IF tk.at = "ok" THEN @ \cup ToSet(tk.to) ELSE @,
       !.bounced = IF tk.at = "permanent" THEN @ \cup ToSet(tk.to) ELSE @]
  /\ UNCHANGED <<mail, on, task, copies, jobs, held, budget>>

Switch ==
  /\ budget.switches < MaxSwitches
  /\ budget' = [budget EXCEPT !.switches = @ + 1]
  /\ \E x \in Switches : on' = IF x \in on THEN on \ {x} ELSE on \cup {x}
  /\ task' = [t \in Tries |-> IF Busy(t) THEN [task[t] EXCEPT !.stale = TRUE] ELSE task[t]]
  /\ UNCHANGED <<mail, peer, copies, jobs, held>>

Handle(t) ==
  \/ Rcpt(t) \/ Filter(t) \/ QuarantineMessage(t) \/ ExpandRecipients(t) \/ Split(t)
  \/ Find(t) \/ Insert(t) \/ Count(t) \/ EnqueueOutbound(t) \/ ProcessRooms(t)

InboundNext ==
  \/ \E t \in Tries : Handle(t) \/ Throws(t) \/ RcptThrows(t)
  \/ Hangup \/ Crash \/ Connect \/ Finish \/ ReadReply \/ Switch

InboundSpec == InboundInit /\ [][InboundNext]_vars

(* Handlers, and the peer's queue, do not stop.                            *)
InboundFair ==
  /\ InboundSpec
  /\ \A t \in Tries : WF_vars(Handle(t))
  /\ WF_vars(Connect \/ Finish \/ ReadReply)

-----------------------------------------------------------------------------
(* Properties.                                                             *)

Final(t, a) == {p[2] : p \in {q \in task[t].became : q[1] = a}} \cup {a}
Fates(t, a) == {p[2] : p \in {q \in task[t].fate : q[1] \in Final(t, a)}}

(* A recipient of a message that was answered with 250 is accounted for:   *)
(* the message is in the mailbox, in the queue, in the content filter's    *)
(* quarantine, or a rule refused, held or discarded it, which stores it    *)
(* nowhere.  It is dropped for want of a mailbox only when a client named  *)
(* it, when it is a room, or when a switch was turned after RCPT; it is    *)
(* lost on its way to the queue only when adding a job failed.             *)
AcceptedIsAccounted ==
  \A t \in Tries : task[t].at = "ok" =>
    \A a \in ToSet(task[t].to) :
      \/ task[t].became = {} /\ task[t].fate = {} /\ held > 0
      \/ /\ Fates(t, a) # {}
         /\ "stored" \in Fates(t, a) => \E b \in Final(t, a) \cap Boxes : copies[b] > 0
         /\ "queued" \in Fates(t, a) => \E b \in Final(t, a) : jobs[b] > 0
         /\ Fates(t, a) = {"unknown"} =>
              mail.port = "submission" \/ a \in Rooms \/ task[t].stale
         /\ "lost" \in Fates(t, a) => task[t].hurt

(* Each try leaves one copy in a mailbox at most, however the mailbox is   *)
(* addressed, and one job at most for an address.                          *)
OneCopyPerTry ==
  /\ \A b \in Boxes : copies[b] <= peer.try
  /\ \A a \in Address : jobs[a] <= peer.try
  /\ held <= peer.try

(* Without a failure nobody gets the message twice, and what the filter    *)
(* refused reaches nobody.                                                 *)
CleanRun ==
  budget.faults = 0 =>
    /\ \A b \in Boxes : copies[b] <= 1
    /\ \A t \in Tries : task[t].at = "permanent" => \A b \in Boxes : copies[b] = 0

(* However a store goes wrong, how often it ran is what bounds the copies. *)
CopiesAreCounted == OneCopyPerTry /\ CleanRun

(* The sender learns what became of each recipient, and every handler      *)
(* ends.                                                                   *)
PeerLearns == <>[](peer.state = "done" /\ peer.sent \cup peer.bounced = ToSet(mail.rcpts)
                   /\ \A t \in Tries : ~Busy(t))
=============================================================================
