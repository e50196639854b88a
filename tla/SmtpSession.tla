------------------------------ MODULE SmtpSession ------------------------------
(***************************************************************************)
(* One SMTP session of smtp-server/src/core/session.ts and its client.     *)
(*                                                                         *)
(* The server takes lines off the socket at once (onData) and decides then *)
(* whether a line is body text or a command; the commands go through       *)
(* cmdQueue and run one after the other, with awaits in the handlers.  The *)
(* client pipelines as RFC 2920 allows: after a command that must end its  *)
(* group it waits for the answer.  It knows a reply only by its place.     *)
(*                                                                         *)
(* A line is known by its number; a message is the numbers of its MAIL,    *)
(* RCPT and text lines.  Sending and receiving a line is one step: the     *)
(* client may read replies as late as it likes, which covers lines in      *)
(* flight.                                                                 *)
(***************************************************************************)
EXTENDS Integers, Sequences

CONSTANTS
  MaxSize,      \* maxSize, in lines of text
  MaxLines,     \* bound: lines sent in a session
  Profiles      \* the ports and clients looked at

Commands == {"EHLO", "AUTH", "STARTTLS", "MAIL", "RCPT", "DATA", "RSET", "NOOP",
             "QUIT", "LONG"}

Profile == [
  asks : SUBSET Commands,   \* the commands the client may send
  greets : BOOLEAN,         \* bound: it says EHLO first and then never again
  lines : 0..MaxLines,      \* bound: the lines it sends
  text : Nat,               \* bound: the lines of text in a message
  eager : BOOLEAN,          \* it does not wait where RFC 2920 wants it to
  requireAuth : BOOLEAN]    \* config.requireAuth, of a submission port

ASSUME SessionAssumption ==
  /\ MaxLines \in Nat /\ MaxSize \in Nat
  /\ Profiles \subseteq Profile

VARIABLES
  profile,    \* this session's port and client
  state, inData, transaction, authUser, authCtx, tls, timer,   \* the session's fields
  open,       \* the server still reads from the socket
  queue,      \* cmdQueue: what has not begun
  running,    \* the handler that is at an await
  draining,   \* promise reactions are due: nothing is read before they ran
  stored,     \* the messages onMessage has taken
  replies,    \* sent and not read by the client; line is what each answers
  waiting,    \* the client's lines that want a reply
  phase,      \* what the client may send next
  sent,       \* lines sent
  draft,      \* the client's idea of the transaction
  accepted    \* the messages the client has handed over

session == <<state, inData, transaction, authUser, authCtx, tls, timer>>
client  == <<waiting, phase, sent, draft, accepted>>
vars == <<profile, session, open, queue, running, draining, stored, replies, client>>

Line    == 0..MaxLines
Message == [from : Line, rcptTo : Seq(Line), data : Seq(Line)]
None    == [from |-> 0, rcptTo |-> <<>>, data |-> <<>>]   \* null
Task    == [cmd : Commands \cup {"DOT", "CREDS", "CANCEL"}, line : Line]
NoTask  == [cmd |-> "NOOP", line |-> 0]
Codes   == {"ok", "no", "go", "ask", "tls", "bye"}

FieldsOK ==
  /\ state \in {"INIT", "READY", "AUTH_WAIT", "MAIL", "RCPT", "DATA", "QUIT"}
  /\ inData \in BOOLEAN /\ authUser \in BOOLEAN /\ timer \in BOOLEAN
  /\ transaction \in Message /\ Len(transaction.data) <= MaxSize
  /\ authCtx \in {"none", "plain", "username", "password"}
  /\ tls \in {"plain", "handshake", "done"}
  /\ open \in BOOLEAN /\ draining \in BOOLEAN
  /\ queue \in Seq(Task)
  /\ running \in [task : Task, message : Message]
  /\ stored \subseteq Message /\ accepted \subseteq Message
  /\ replies \in Seq([code : Codes, line : Line])
  /\ waiting \in Seq(Task)
  /\ phase \in {"command", "body", "auth", "handshake"}
  /\ sent \in Line
  /\ draft \in Message

TypeOK == profile \in Profiles /\ FieldsOK

NotRunning == [task |-> NoTask, message |-> None]

Init ==
  /\ profile \in Profiles
  /\ state = "INIT" /\ inData = FALSE /\ transaction = None /\ authUser = FALSE
  /\ authCtx = "none" /\ tls = "plain" /\ timer = TRUE
  /\ open = TRUE /\ queue = <<>> /\ running = NotRunning /\ draining = FALSE
  /\ stored = {} /\ replies = <<>>
  /\ waiting = <<>> /\ phase = "command" /\ sent = 0 /\ draft = None /\ accepted = {}

(* send writes only while the socket is writable.  (The 421 of a timeout,  *)
(* which a client knows by its code, is left out.)                         *)
Reply(code, line) ==
  replies' = IF open THEN Append(replies, [code |-> code, line |-> line]) ELSE replies

-----------------------------------------------------------------------------
(* A line arrives.  While a chunk is read no handler runs; once one has    *)
(* run, all that are ready run before the next chunk.                      *)

Reads == open /\ ~draining /\ tls # "handshake"

EnqueueCommand(cmd) == queue' = Append(queue, [cmd |-> cmd, line |-> sent'])

(* handleCommandLine: a line in AUTH_WAIT is a step of the exchange, any   *)
(* other line is a command; text taken for one is answered like NOOP or    *)
(* with 500.                                                               *)
CommandOf(cmd) ==
  IF state = "AUTH_WAIT" THEN (IF cmd = "CANCEL" THEN "CANCEL" ELSE "CREDS")
  ELSE IF cmd \in Commands THEN cmd ELSE "NOOP"

AtOnce_Noop == {"LONG", "NOOP"}   \* mutant: NOOP does not take its turn
AtOnce == {"LONG"}

OnCommandLine(cmd) ==
  /\ timer' = TRUE
  /\ \/ /\ cmd \in AtOnce              \* answered past the queue
        /\ Reply("no", sent')
        /\ UNCHANGED queue
     \/ /\ cmd \notin AtOnce
        /\ EnqueueCommand(CommandOf(cmd))
        /\ UNCHANGED replies
  /\ UNCHANGED <<state, inData, transaction>>

TooLarge == transaction # None /\ Len(transaction.data) >= MaxSize

OnDataLine(text) ==
  \/ /\ ~text                           \* the dot
     /\ inData' = FALSE
     /\ EnqueueCommand("DOT")
     /\ UNCHANGED <<state, transaction, timer, replies>>
  \/ /\ text /\ TooLarge
     /\ inData' = FALSE /\ transaction' = None /\ state' = "READY" /\ timer' = TRUE
     /\ Reply("no", sent')
     /\ UNCHANGED queue
  \/ /\ text /\ ~TooLarge
     /\ transaction' = IF transaction = None THEN None
                       ELSE [transaction EXCEPT !.data = Append(@, sent')]
     /\ UNCHANGED <<state, inData, timer, queue, replies>>

OnLine(cmd) ==
  /\ Reads
  /\ \/ inData /\ OnDataLine(cmd # "DOT")
     \/ ~inData /\ OnCommandLine(cmd)
  /\ UNCHANGED <<authUser, authCtx, tls, open, running, draining, stored>>

-----------------------------------------------------------------------------
(* The client.                                                             *)

(* RFC 2920: these end a group; RFC 4954 and RFC 3207 add AUTH, STARTTLS.  *)
EndsGroup == {"EHLO", "AUTH", "CREDS", "CANCEL", "STARTTLS", "DATA", "NOOP", "QUIT"}

MaySend == profile.eager \/ \A i \in 1..Len(waiting) : waiting[i].cmd \notin EndsGroup

Sends(cmd) ==
  /\ sent < profile.lines
  /\ sent' = sent + 1
  /\ OnLine(cmd)

Waits(cmd) == waiting' = Append(waiting, [cmd |-> cmd, line |-> sent'])

SendCommand ==
  /\ phase = "command"
  /\ MaySend
  /\ \E cmd \in profile.asks :
       /\ profile.greets => (cmd = "EHLO" <=> sent = 0)
       /\ Sends(cmd) /\ Waits(cmd)
  /\ UNCHANGED <<phase, draft, accepted>>

(* After 354: the text, which the client finishes whatever it hears.       *)
SendText ==
  /\ phase = "body"
  /\ Len(draft.data) < profile.text
  /\ Sends("TEXT")
  /\ draft' = [draft EXCEPT !.data = Append(@, sent')]
  /\ UNCHANGED <<phase, waiting, accepted>>

SendDot ==
  /\ phase = "body"
  /\ Sends("DOT") /\ Waits("DOT")
  /\ phase' = "command"
  /\ UNCHANGED <<draft, accepted>>

SendCredentials ==
  /\ phase = "auth"
  /\ \E cmd \in {"CREDS", "CANCEL"} : Sends(cmd) /\ Waits(cmd)
  /\ phase' = "command"
  /\ UNCHANGED <<draft, accepted>>

(* What a reply means to the client follows from the command it is taken   *)
(* to answer; this is its idea of the transaction then.                    *)
Told(known, task, code) ==
  IF code = "ok" /\ task.cmd = "MAIL" THEN [None EXCEPT !.from = task.line]
  ELSE IF code = "ok" /\ task.cmd = "RCPT"
       THEN [known EXCEPT !.rcptTo = Append(@, task.line)]
  ELSE IF code = "ok" /\ task.cmd \in {"EHLO", "RSET"} THEN None
  ELSE IF task.cmd = "DOT" \/ code = "tls" THEN None
  ELSE known

Believes(task, code) ==
  /\ phase' = IF code = "go" /\ task.cmd = "DATA" THEN "body"
              ELSE IF code = "ask" /\ task.cmd \in {"AUTH", "CREDS"} THEN "auth"
              ELSE IF code = "tls" /\ task.cmd = "STARTTLS" THEN "handshake"
              ELSE phase
  /\ draft' = Told(draft, task, code)
  /\ accepted' = IF code = "ok" /\ task.cmd = "DOT" THEN accepted \cup {draft}
                 ELSE accepted

ReadReply ==
  /\ replies # <<>>
  /\ replies' = Tail(replies)
  /\ \/ waiting # <<>> /\ waiting' = Tail(waiting) /\ Believes(Head(waiting), Head(replies).code)
     \/ waiting = <<>> /\ UNCHANGED <<waiting, phase, draft, accepted>>
  /\ UNCHANGED <<session, open, queue, running, draining, stored, sent>>

-----------------------------------------------------------------------------
(* The handlers, in the order of the queue.  A handler either answers      *)
(* before its first await or stays in "running" until the await is over.   *)

Turn(cmd) ==
  /\ running = NotRunning
  /\ queue # <<>>
  /\ Head(queue).cmd = cmd
  /\ queue' = Tail(queue)

Answers(code) == Reply(code, Head(queue).line)

(* This handler is done, the next one is due.                              *)
Done == /\ draining' = (queue' # <<>>)
        /\ running' = NotRunning

(* This handler awaits; the socket is read meanwhile.                      *)
Awaits(message) == /\ draining' = FALSE
                   /\ running' = [task |-> Head(queue), message |-> message]

Quiet == UNCHANGED <<stored, client>>

Refuses == Done /\ Answers("no") /\ UNCHANGED session

(* After QUIT what is left in the queue is skipped.                        *)
Skip ==
  /\ state = "QUIT"
  /\ running = NotRunning
  /\ queue # <<>>
  /\ queue' = Tail(queue)
  /\ Done
  /\ UNCHANGED <<session, open, replies>> /\ Quiet

HandleEhlo ==
  /\ Turn("EHLO") /\ Done /\ Answers("ok")
  /\ transaction' = None /\ state' = "READY"
  /\ UNCHANGED <<inData, authUser, authCtx, tls, timer>>

(* PLAIN with its response verifies, PLAIN without and LOGIN ask for more. *)
HandleAuth ==
  /\ Turn("AUTH")
  /\ \/ Refuses
     \/ /\ state = "READY" /\ ~authUser
        /\ \/ Awaits(None) /\ UNCHANGED <<session, replies>>
           \/ /\ authCtx' \in {"plain", "username"}
              /\ state' = "AUTH_WAIT"
              /\ Done /\ Answers("ask")
              /\ UNCHANGED <<inData, transaction, authUser, tls, timer>>

HandleAuthStep ==
  \/ /\ \E cmd \in {"CANCEL", "CREDS"} :
          Turn(cmd) /\ (cmd = "CREDS" => authCtx = "none")
     /\ authCtx' = "none" /\ state' = "READY"
     /\ Done /\ Answers("no")
     /\ UNCHANGED <<inData, transaction, authUser, tls, timer>>
  \/ /\ Turn("CREDS") /\ authCtx = "username"
     /\ authCtx' = "password"
     /\ Done /\ Answers("ask")
     /\ UNCHANGED <<state, inData, transaction, authUser, tls, timer>>
  \/ /\ Turn("CREDS") /\ authCtx \in {"plain", "password"}
     /\ authCtx' = "none" /\ state' = "READY"
     /\ \/ Done /\ Answers("no")        \* not decodable
        \/ Awaits(None) /\ UNCHANGED replies
     /\ UNCHANGED <<inData, transaction, authUser, tls, timer>>

HandleStarttls ==
  /\ Turn("STARTTLS")
  /\ \/ Refuses
     \/ /\ tls = "plain" /\ state = "READY"
        /\ tls' = "handshake" /\ timer' = FALSE
        /\ Done /\ Answers("tls")
        /\ UNCHANGED <<state, inData, transaction, authUser, authCtx>>

MayMail_NoAuth == state = "READY"   \* mutant: requireAuth is not asked
MayMail == state = "READY" /\ (profile.requireAuth => authUser)

HandleMailFrom ==
  /\ Turn("MAIL")
  /\ \/ Refuses
     \/ MayMail /\ Awaits(None) /\ UNCHANGED <<session, replies>>

HandleRcptTo ==
  /\ Turn("RCPT")
  /\ \/ Refuses
     \/ /\ state \in {"MAIL", "RCPT"} /\ transaction # None
        /\ Awaits(None) /\ UNCHANGED <<session, replies>>

MayData == state = "RCPT"

DataTimer_Cleared == FALSE   \* mutant: clearTimer where resetTimer is meant
DataTimer == TRUE            \* resetTimer(T_DATA)

HandleDataCommand ==
  /\ Turn("DATA")
  /\ \/ ~MayData /\ Refuses
     \/ /\ MayData
        /\ state' = "DATA" /\ inData' = TRUE /\ timer' = DataTimer
        /\ Done /\ Answers("go")
        /\ UNCHANGED <<transaction, authUser, authCtx, tls>>

FinishData ==
  /\ Turn("DOT")
  /\ timer' = TRUE
  /\ \/ transaction = None /\ Done /\ Answers("no") /\ UNCHANGED <<state, transaction>>
     \/ /\ transaction # None
        /\ Awaits(transaction)
        /\ transaction' = None /\ state' = "READY"
        /\ UNCHANGED replies
  /\ UNCHANGED <<inData, authUser, authCtx, tls>>

HandleRset ==
  /\ Turn("RSET") /\ Done /\ Answers("ok")
  /\ transaction' = None /\ inData' = FALSE
  /\ state' = IF state = "INIT" THEN "INIT" ELSE "READY"
  /\ UNCHANGED <<authUser, authCtx, tls, timer>>

(* NOOP, VRFY, EXPN and what is no command.                                *)
HandleNoop ==
  /\ Turn("NOOP") /\ Done
  /\ \E code \in {"ok", "no"} : Answers(code)
  /\ UNCHANGED session

HandleQuit ==
  /\ Turn("QUIT") /\ Done /\ Answers("bye")
  /\ state' = "QUIT" /\ timer' = FALSE /\ open' = FALSE
  /\ UNCHANGED <<inData, transaction, authUser, authCtx, tls>>

Handle ==
  \/ /\ state # "QUIT" /\ Quiet
     /\ \/ HandleQuit
        \/ /\ \/ HandleEhlo \/ HandleAuth \/ HandleAuthStep \/ HandleStarttls
              \/ HandleMailFrom \/ HandleRcptTo \/ HandleDataCommand \/ FinishData
              \/ HandleRset \/ HandleNoop
           /\ UNCHANGED open
  \/ Skip

-----------------------------------------------------------------------------
(* The awaits end: the credentials are verified, the policy has decided,   *)
(* the message is stored or refused.                                       *)

Resumes(cmd) ==
  /\ running.task.cmd \in cmd
  /\ running.task.line > 0
  /\ running' = NotRunning
  /\ draining' = (queue # <<>>)
  /\ UNCHANGED <<open, queue, client>>

Refuse_Silent(line) == UNCHANGED replies   \* mutant: the error is only logged
Refuse(line) == Reply("no", line)

Rejected ==
  /\ Resumes({"AUTH", "CREDS", "MAIL", "RCPT", "DOT"})
  /\ Refuse(running.task.line)
  /\ UNCHANGED <<session, stored>>

Verified ==
  /\ Resumes({"AUTH", "CREDS"})
  /\ authUser' = TRUE
  /\ Reply("ok", running.task.line)
  /\ UNCHANGED <<state, inData, transaction, authCtx, tls, timer, stored>>

MailAccepted ==
  /\ Resumes({"MAIL"})
  /\ transaction' = [None EXCEPT !.from = running.task.line]
  /\ state' = "MAIL"
  /\ Reply("ok", running.task.line)
  /\ UNCHANGED <<inData, authUser, authCtx, tls, timer, stored>>

AddRcpt_Unshift(rcpts, line) == <<line>> \o rcpts   \* mutant: newest first
AddRcpt_Replaces(rcpts, line) == <<line>>   \* mutant: only the last one is kept
AddRcpt(rcpts, line) == Append(rcpts, line)

(* The handler holds the transaction it began with: its recipient goes     *)
(* nowhere if that one is gone.                                            *)
RcptAccepted ==
  /\ Resumes({"RCPT"})
  /\ transaction' = IF transaction = None THEN None
                    ELSE [transaction EXCEPT !.rcptTo = AddRcpt(@, running.task.line)]
  /\ state' = "RCPT"
  /\ Reply("ok", running.task.line)
  /\ UNCHANGED <<inData, authUser, authCtx, tls, timer, stored>>

StoredCode == "ok"

MessageStored ==
  /\ Resumes({"DOT"})
  /\ stored' = stored \cup {running.message}
  /\ Reply(StoredCode, running.task.line)
  /\ UNCHANGED session

Finish == Rejected \/ Verified \/ MailAccepted \/ RcptAccepted \/ MessageStored

-----------------------------------------------------------------------------
(* The 'secure' event: everything starts anew.                             *)
Secure ==
  /\ open
  /\ tls = "handshake"
  /\ phase = "handshake"
  /\ state' = "INIT" /\ transaction' = None /\ authUser' = FALSE /\ authCtx' = "none"
  /\ tls' = "done" /\ timer' = TRUE
  /\ phase' = "command"
  /\ UNCHANGED <<inData, open, queue, running, draining, stored, replies,
                 waiting, sent, draft, accepted>>

(* The timer fires; handlers that wait or run go on without the socket.    *)
Timeout ==
  /\ open /\ timer
  /\ open' = FALSE /\ timer' = FALSE
  /\ UNCHANGED <<state, inData, transaction, authUser, authCtx, tls, queue, running,
                 draining, stored, replies, client>>

(* The client goes away, or the handshake fails.                           *)
Hangup ==
  /\ open
  /\ open' = FALSE /\ timer' = FALSE
  /\ UNCHANGED <<state, inData, transaction, authUser, authCtx, tls, queue, running,
                 draining, stored, replies, client>>

Client == SendCommand \/ SendText \/ SendDot \/ SendCredentials

Server == Handle \/ Finish

Next ==
  /\ UNCHANGED profile
  /\ Client \/ ReadReply \/ Server \/ Secure \/ Timeout \/ Hangup

Spec == Init /\ [][Next]_vars

(* Handlers end, replies arrive and are read; the client owes nothing      *)
(* more, it may fall silent.  That timers fire is asked where it is        *)
(* needed: otherwise every question would be settled by a timeout.         *)
FairSpec ==
  /\ Spec
  /\ WF_vars(Server /\ UNCHANGED profile)
  /\ WF_vars(ReadReply /\ UNCHANGED profile)

-----------------------------------------------------------------------------
(* A client that waits where it should, sends no overlong line and no text *)
(* that is too large; what the others get: see MessagesAreInOrder.         *)
Patient == ~profile.eager

Tame == Patient /\ "LONG" \notin profile.asks /\ profile.text <= MaxSize

(* The k-th reply the client reads answers the k-th line it waits for      *)
(* (enqueueCommand: "run strictly in order").                              *)
InOrder ==
  /\ Len(replies) <= Len(waiting)
  /\ \A i \in 1..Len(replies) : replies[i].line = waiting[i].line

RepliesInOrder == Tame => InOrder

(* A 250 after the dot: onMessage took this very message, with the sender, *)
(* the recipients and the text the client thinks it has handed over.       *)
AcceptedIsStored == Tame => accepted \subseteq stored

(* While the connection lives, a message onMessage took is one the client  *)
(* knows or will hear to be accepted: it will not send it again.           *)
RefusedIsNotStored ==
  Tame => \A m \in stored \ accepted :
            open => draft = m /\ \E i \in 1..Len(waiting) : waiting[i].cmd = "DOT"

(* A message is stored if and only if the client takes it for accepted: it *)
(* neither loses one nor sends one twice.                                  *)
BelievedIsTrue == AcceptedIsStored /\ RefusedIsNotStored

(* On a port with requireAuth there is an envelope, in the making or with  *)
(* onMessage, only for a user who is authenticated now.                    *)
AuthBeforeMail ==
  profile.requireAuth =>
    \A m \in {transaction, running.message} : m = None \/ authUser

(* A message goes to somebody: onMessage is called with recipients         *)
(* ("State enforcement and sequence checks").  The answer to a text that   *)
(* is too large comes in the middle of it: what the client sends then is   *)
(* taken for commands, and it may well have to do without.                 *)
MessageHasRecipients ==
  Patient /\ profile.text <= MaxSize => \A m \in stored : m.rcptTo # <<>>

(* Whatever the client pipelines, the lines of a stored message were sent  *)
(* in the order of RFC 5321, one MAIL, then the recipients, then the text, *)
(* and no two messages come from the same MAIL.                            *)
Increases(s) == \A i \in 1..(Len(s) - 1) : s[i] < s[i + 1]
Lines(m) == <<m.from>> \o m.rcptTo \o m.data

MessagesAreInOrder ==
  /\ \A m \in stored : Increases(Lines(m))
  /\ \A m, n \in stored : m = n \/ m.from # n.from

(* What goes to onMessage is a whole message, and only one.                *)
MessagesAreWhole == MessagesAreInOrder /\ MessageHasRecipients

(* A client that has sent complete lines gets all its answers, unless the  *)
(* connection ends.                                                        *)
EveryCommandAnswered == waiting # <<>> ~> (waiting = <<>> \/ ~open)

(* If timers fire, no connection outlives a silent client, but one that    *)
(* fell silent in the TLS handshake: otherwise some timer is armed.        *)
SessionEnds == WF_vars(Timeout /\ UNCHANGED profile) => <>(~open \/ tls = "handshake")
=============================================================================
