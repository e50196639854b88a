--------------------------- MODULE SmtpSessionProofs ---------------------------
(* Theorems about SmtpSession, for any client and any length of a session. *)
EXTENDS SmtpSession, TLAPS

AllCmds == Commands \cup {"DOT", "CREDS", "CANCEL"}

LEMMA NoneTyped == None \in Message /\ Len(None.data) = 0
  BY SessionAssumption DEF None, Message, Line

LEMMA TaskTyped ==
  ASSUME NEW cmd \in AllCmds, NEW n \in Line
  PROVE  [cmd |-> cmd, line |-> n] \in Task
  BY DEF AllCmds, Task

LEMMA NotRunningTyped == NotRunning \in [task : Task, message : Message]
  BY NoneTyped, SessionAssumption DEF NotRunning, NoTask, Task, Line, Commands

LEMMA InitTyped == Init => FieldsOK
  <1> SUFFICES ASSUME Init PROVE FieldsOK
    OBVIOUS
  <1>1. /\ inData \in BOOLEAN /\ authUser \in BOOLEAN /\ timer \in BOOLEAN
        /\ open \in BOOLEAN /\ draining \in BOOLEAN
    BY Zenon DEF Init
  <1>2. /\ state = "INIT" /\ transaction = None /\ authCtx = "none" /\ tls = "plain"
        /\ queue = <<>> /\ running = NotRunning /\ stored = {} /\ replies = <<>>
        /\ waiting = <<>> /\ phase = "command" /\ sent = 0 /\ draft = None
        /\ accepted = {}
    BY DEF Init
  <1>3. sent \in Line /\ Len(transaction.data) <= MaxSize
    BY <1>2, NoneTyped, SessionAssumption DEF Line
  <1> QED BY <1>1, <1>2, <1>3, NoneTyped, NotRunningTyped DEF FieldsOK

(* What the client and the server make of a message. *)
LEMMA WithText ==
  ASSUME NEW m \in Message, NEW n \in Line
  PROVE  /\ [m EXCEPT !.data = Append(@, n)] \in Message
         /\ Len([m EXCEPT !.data = Append(@, n)].data) = Len(m.data) + 1
  <1>1. m.data \in Seq(Line) /\ Append(m.data, n) \in Seq(Line)
        /\ Len(Append(m.data, n)) = Len(m.data) + 1
    BY DEF Message
  <1>2. [m EXCEPT !.data = Append(@, n)] = [m EXCEPT !.data = Append(m.data, n)]
        /\ [m EXCEPT !.data = Append(@, n)].data = Append(m.data, n)
    BY DEF Message
  <1>3. ASSUME NEW d \in Seq(Line) PROVE [m EXCEPT !.data = d] \in Message
    BY DEF Message
  <1> QED BY <1>1, <1>2, <1>3

LEMMA WithRcpt ==
  ASSUME NEW m \in Message, NEW n \in Line
  PROVE  /\ [m EXCEPT !.rcptTo = Append(@, n)] \in Message
         /\ [m EXCEPT !.rcptTo = Append(@, n)].data = m.data
  <1>1. m.rcptTo \in Seq(Line) /\ Append(m.rcptTo, n) \in Seq(Line)
    BY DEF Message
  <1>2. /\ [m EXCEPT !.rcptTo = Append(@, n)] = [m EXCEPT !.rcptTo = Append(m.rcptTo, n)]
        /\ [m EXCEPT !.rcptTo = Append(@, n)].data = m.data
    BY DEF Message
  <1>3. ASSUME NEW r \in Seq(Line) PROVE [m EXCEPT !.rcptTo = r] \in Message
    BY DEF Message
  <1> QED BY <1>1, <1>2, <1>3

LEMMA WithSender ==
  ASSUME NEW n \in Line
  PROVE  /\ [None EXCEPT !.from = n] \in Message
         /\ [None EXCEPT !.from = n].data = <<>>
  <1>1. [None EXCEPT !.from = n] = [from |-> n, rcptTo |-> <<>>, data |-> <<>>]
    BY DEF None
  <1>2. <<>> \in Seq(Line)
    OBVIOUS
  <1> QED BY <1>1, <1>2 DEF Message

LEMMA Replied ==
  ASSUME FieldsOK, NEW code \in Codes, NEW n \in Line, Reply(code, n)
  PROVE  replies' \in Seq([code : Codes, line : Line])
  <1>1. [code |-> code, line |-> n] \in [code : Codes, line : Line]
    OBVIOUS
  <1>2. CASE open
    <2>1. replies' = Append(replies, [code |-> code, line |-> n])
      BY <1>2, Zenon DEF Reply
    <2>2. replies \in Seq([code : Codes, line : Line])
      BY DEF FieldsOK
    <2> QED BY <1>1, <2>1, <2>2
  <1>3. CASE ~open
    BY <1>3 DEF Reply, FieldsOK
  <1> QED BY <1>2, <1>3

(* A line at the server: of what FieldsOK says, sent and the client's share  *)
(* are left to the caller.                                                 *)
LEMMA LineTyped ==
  ASSUME FieldsOK, NEW cmd, sent' \in Line, OnLine(cmd)
  PROVE  /\ state' \in {"INIT", "READY", "AUTH_WAIT", "MAIL", "RCPT", "DATA", "QUIT"}
         /\ inData' \in BOOLEAN /\ timer' \in BOOLEAN
         /\ transaction' \in Message /\ Len(transaction'.data) <= MaxSize
         /\ queue' \in Seq(Task)
         /\ replies' \in Seq([code : Codes, line : Line])
  <1> USE DEF FieldsOK
  <1>0. "no" \in Codes
    BY DEF Codes
  <1>q. ASSUME NEW c \in AllCmds, EnqueueCommand(c)
        PROVE  queue' \in Seq(Task)
    <2>1. [cmd |-> c, line |-> sent'] \in Task
      BY TaskTyped, <1>q
    <2> QED BY <1>q, <2>1 DEF EnqueueCommand
  <1>1. CASE OnCommandLine(cmd)
    <2>1. CommandOf(cmd) \in AllCmds
      BY DEF CommandOf, AllCmds, Commands
    <2>2. inData' \in BOOLEAN /\ timer' \in BOOLEAN
      BY <1>1, Zenon DEF OnCommandLine
    <2>3. state' = state /\ transaction' = transaction
      BY <1>1 DEF OnCommandLine
    <2>4. CASE cmd \in AtOnce
      <3>1. queue' = queue /\ Reply("no", sent')
        BY <1>1, <2>4 DEF OnCommandLine
      <3> QED BY <3>1, <2>2, <2>3, <1>0, Replied
    <2>5. CASE cmd \notin AtOnce
      <3>1. replies' = replies /\ EnqueueCommand(CommandOf(cmd))
        BY <1>1, <2>5 DEF OnCommandLine
      <3> QED BY <3>1, <2>1, <2>2, <2>3, <1>q
    <2> QED BY <2>4, <2>5
  <1>2. CASE OnDataLine(cmd # "DOT")
    <2>1. CASE inData' = FALSE /\ EnqueueCommand("DOT")
               /\ UNCHANGED <<state, transaction, timer, replies>>
      <3>1. "DOT" \in AllCmds
        BY DEF AllCmds
      <3>2. queue' \in Seq(Task)
        BY <2>1, <3>1, <1>q
      <3>3. inData' \in BOOLEAN /\ timer' \in BOOLEAN
        BY <2>1, Zenon
      <3> QED BY <2>1, <3>2, <3>3
    <2>2. CASE /\ inData' = FALSE /\ transaction' = None /\ state' = "READY" /\ timer' = TRUE
               /\ Reply("no", sent') /\ UNCHANGED queue
      <3>1. inData' \in BOOLEAN /\ timer' \in BOOLEAN
        BY <2>2, Zenon
      <3>2. Len(transaction'.data) <= MaxSize
        BY <2>2, NoneTyped, SessionAssumption
      <3> QED BY <2>2, <3>1, <3>2, <1>0, NoneTyped, Replied
    <2>3. CASE /\ ~TooLarge
               /\ transaction' = IF transaction = None THEN None
                                 ELSE [transaction EXCEPT !.data = Append(@, sent')]
               /\ UNCHANGED <<state, inData, timer, queue, replies>>
      <3>1. inData' \in BOOLEAN /\ timer' \in BOOLEAN
        BY <2>3, Zenon
      <3>2. transaction' \in Message /\ Len(transaction'.data) <= MaxSize
        <4>1. CASE transaction = None
          BY <2>3, <4>1
        <4>2. CASE transaction # None
          <5>1. Len(transaction.data) < MaxSize /\ Len(transaction.data) \in Nat
            BY <2>3, <4>2, SessionAssumption DEF TooLarge, Message
          <5>2. transaction' = [transaction EXCEPT !.data = Append(@, sent')]
            BY <2>3, <4>2
          <5>3. transaction' \in Message /\ Len(transaction'.data) = Len(transaction.data) + 1
            BY <5>2, WithText
          <5> QED BY <5>1, <5>3, SessionAssumption
        <4> QED BY <4>1, <4>2
      <3> QED BY <2>3, <3>1, <3>2
    <2> QED BY <1>2, <2>1, <2>2, <2>3 DEF OnDataLine
  <1> QED BY <1>1, <1>2 DEF OnLine

-----------------------------------------------------------------------------
(* The parts of FieldsOK, as the steps of the server disturb them. *)

SessionTyped ==
  /\ state \in {"INIT", "READY", "AUTH_WAIT", "MAIL", "RCPT", "DATA", "QUIT"}
  /\ inData \in BOOLEAN /\ authUser \in BOOLEAN /\ timer \in BOOLEAN
  /\ transaction \in Message /\ Len(transaction.data) <= MaxSize
  /\ authCtx \in {"none", "plain", "username", "password"}
  /\ tls \in {"plain", "handshake", "done"}

QueueTyped ==
  /\ draining \in BOOLEAN
  /\ queue \in Seq(Task)
  /\ running \in [task : Task, message : Message]

ClientTyped ==
  /\ waiting \in Seq(Task)
  /\ phase \in {"command", "body", "auth", "handshake"}
  /\ sent \in Line
  /\ draft \in Message
  /\ accepted \subseteq Message

RepliesTyped == replies \in Seq([code : Codes, line : Line])

LEMMA Parts ==
  FieldsOK <=> /\ SessionTyped /\ QueueTyped /\ ClientTyped /\ RepliesTyped
             /\ open \in BOOLEAN /\ stored \subseteq Message
  BY DEF FieldsOK, SessionTyped, QueueTyped, ClientTyped, RepliesTyped

LEMMA PartsNext ==
  /\ SessionTyped' /\ QueueTyped' /\ ClientTyped' /\ RepliesTyped'
  /\ open' \in BOOLEAN /\ stored' \subseteq Message
  => FieldsOK'
  BY DEF FieldsOK, SessionTyped, QueueTyped, ClientTyped, RepliesTyped

LEMMA SameSession == SessionTyped /\ UNCHANGED session => SessionTyped'
  BY DEF SessionTyped, session

LEMMA SameClient == ClientTyped /\ UNCHANGED client => ClientTyped'
  BY DEF ClientTyped, client

LEMMA TurnTyped ==
  ASSUME FieldsOK, NEW cmd, Turn(cmd)
  PROVE  /\ queue' \in Seq(Task)
         /\ Head(queue) \in Task /\ Head(queue).line \in Line
  <1>1. queue \in Seq(Task) /\ queue # <<>> /\ queue' = Tail(queue)
    BY DEF FieldsOK, Turn
  <1>2. Head(queue) \in Task /\ Tail(queue) \in Seq(Task)
    BY <1>1
  <1> QED BY <1>1, <1>2 DEF Task

LEMMA DoneTyped ==
  ASSUME queue' \in Seq(Task), Done
  PROVE  QueueTyped'
  <1>1. draining' \in BOOLEAN
    BY Zenon DEF Done
  <1>2. running' = NotRunning
    BY DEF Done
  <1> QED BY <1>1, <1>2, NotRunningTyped DEF QueueTyped

LEMMA AwaitsTyped ==
  ASSUME queue' \in Seq(Task), Head(queue) \in Task, NEW m \in Message, Awaits(m)
  PROVE  QueueTyped'
  <1>1. draining' \in BOOLEAN
    BY Zenon DEF Awaits
  <1>2. running' = [task |-> Head(queue), message |-> m]
    BY DEF Awaits
  <1> QED BY <1>1, <1>2 DEF QueueTyped

LEMMA AnswersTyped ==
  ASSUME FieldsOK, Head(queue).line \in Line, NEW code \in Codes, Answers(code)
  PROVE  RepliesTyped'
  BY Replied DEF Answers, RepliesTyped

LEMMA RefusesTyped ==
  ASSUME FieldsOK, NEW cmd, Turn(cmd), Refuses
  PROVE  SessionTyped' /\ QueueTyped' /\ RepliesTyped'
  <1>1. "no" \in Codes
    BY DEF Codes
  <1> QED BY <1>1, TurnTyped, DoneTyped, AnswersTyped, SameSession, Parts DEF Refuses

(* A handler that answers at once, given what it does to the session. *)
LEMMA AnsweringTyped ==
  ASSUME FieldsOK, NEW cmd, Turn(cmd), Done, NEW code \in Codes, Answers(code)
  PROVE  QueueTyped' /\ RepliesTyped'
  BY TurnTyped, DoneTyped, AnswersTyped

LEMMA AwaitingTyped ==
  ASSUME FieldsOK, NEW cmd, Turn(cmd), NEW m \in Message, Awaits(m), UNCHANGED replies
  PROVE  QueueTyped' /\ RepliesTyped'
  BY TurnTyped, AwaitsTyped, Parts DEF RepliesTyped

LEMMA HandlersTyped ==
  ASSUME FieldsOK,
         \/ HandleEhlo \/ HandleAuth \/ HandleAuthStep \/ HandleStarttls
         \/ HandleMailFrom \/ HandleRcptTo \/ HandleDataCommand \/ FinishData
         \/ HandleRset \/ HandleNoop \/ HandleQuit
  PROVE  SessionTyped' /\ QueueTyped' /\ RepliesTyped'
  <1> USE NoneTyped, Parts
  <1>c. {"ok", "no", "go", "ask", "tls", "bye"} \subseteq Codes
    BY DEF Codes
  <1>1. CASE HandleEhlo
    <2>1. QueueTyped' /\ RepliesTyped'
      BY <1>1, <1>c, AnsweringTyped DEF HandleEhlo
    <2>2. inData' = inData /\ authUser' = authUser /\ authCtx' = authCtx /\ tls' = tls
          /\ timer' = timer /\ transaction' = None /\ state' = "READY"
      BY <1>1 DEF HandleEhlo
    <2> QED BY <2>1, <2>2, SessionAssumption DEF SessionTyped
  <1>2. CASE HandleAuth
    <2>1. Turn("AUTH")
      BY <1>2 DEF HandleAuth
    <2>2. CASE Refuses
      BY <2>1, <2>2, RefusesTyped
    <2>3. CASE Awaits(None) /\ UNCHANGED <<session, replies>>
      BY <2>1, <2>3, AwaitingTyped, SameSession
    <2>4. CASE /\ authCtx' \in {"plain", "username"} /\ state' = "AUTH_WAIT"
               /\ Done /\ Answers("ask")
               /\ UNCHANGED <<inData, transaction, authUser, tls, timer>>
      <3>1. QueueTyped' /\ RepliesTyped'
        BY <2>1, <2>4, <1>c, AnsweringTyped
      <3> QED BY <2>4, <3>1 DEF SessionTyped
    <2> QED BY <1>2, <2>2, <2>3, <2>4 DEF HandleAuth
  <1>3. CASE HandleAuthStep
    <2>1. PICK cmd \in {"CANCEL", "CREDS"} : Turn(cmd)
      BY <1>3 DEF HandleAuthStep
    <2>2. /\ authCtx' \in {"none", "password"}
          /\ state' = "READY" \/ state' = state
          /\ UNCHANGED <<inData, transaction, authUser, tls, timer>>
      BY <1>3 DEF HandleAuthStep
    <2>3. SessionTyped'
      BY <2>2 DEF SessionTyped
    <2>4. \/ Done /\ (Answers("no") \/ Answers("ask"))
          \/ Awaits(None) /\ UNCHANGED replies
      BY <1>3 DEF HandleAuthStep
    <2>5. QueueTyped' /\ RepliesTyped'
      BY <2>1, <2>4, <1>c, AnsweringTyped, AwaitingTyped
    <2> QED BY <2>3, <2>5
  <1>4. CASE HandleStarttls
    <2>1. Turn("STARTTLS")
      BY <1>4 DEF HandleStarttls
    <2>2. CASE Refuses
      BY <2>1, <2>2, RefusesTyped
    <2>3. CASE /\ tls' = "handshake" /\ timer' = FALSE
               /\ Done /\ Answers("tls")
               /\ UNCHANGED <<state, inData, transaction, authUser, authCtx>>
      <3>1. QueueTyped' /\ RepliesTyped'
        BY <2>1, <2>3, <1>c, AnsweringTyped
      <3>2. timer' \in BOOLEAN
        BY <2>3, Zenon
      <3> QED BY <2>3, <3>1, <3>2 DEF SessionTyped
    <2> QED BY <1>4, <2>2, <2>3 DEF HandleStarttls
  <1>5. CASE HandleMailFrom
    <2>1. Turn("MAIL")
      BY <1>5 DEF HandleMailFrom
    <2>2. Refuses \/ (Awaits(None) /\ UNCHANGED <<session, replies>>)
      BY <1>5 DEF HandleMailFrom
    <2> QED BY <2>1, <2>2, RefusesTyped, AwaitingTyped, SameSession
  <1>6. CASE HandleRcptTo
    <2>1. Turn("RCPT")
      BY <1>6 DEF HandleRcptTo
    <2>2. Refuses \/ (Awaits(None) /\ UNCHANGED <<session, replies>>)
      BY <1>6 DEF HandleRcptTo
    <2> QED BY <2>1, <2>2, RefusesTyped, AwaitingTyped, SameSession
  <1>7. CASE HandleDataCommand
    <2>1. Turn("DATA")
      BY <1>7 DEF HandleDataCommand
    <2>2. CASE Refuses
      BY <2>1, <2>2, RefusesTyped
    <2>3. CASE /\ state' = "DATA" /\ inData' = TRUE /\ timer' = DataTimer
               /\ Done /\ Answers("go")
               /\ UNCHANGED <<transaction, authUser, authCtx, tls>>
      <3>1. QueueTyped' /\ RepliesTyped'
        BY <2>1, <2>3, <1>c, AnsweringTyped
      <3>2. timer' \in BOOLEAN /\ inData' \in BOOLEAN
        BY <2>3, Zenon DEF DataTimer
      <3> QED BY <2>3, <3>1, <3>2 DEF SessionTyped
    <2> QED BY <1>7, <2>2, <2>3 DEF HandleDataCommand
  <1>8. CASE FinishData
    <2>1. Turn("DOT") /\ timer' = TRUE /\ UNCHANGED <<inData, authUser, authCtx, tls>>
      BY <1>8 DEF FinishData
    <2>2. timer' \in BOOLEAN
      BY <2>1, Zenon
    <2>3. CASE Done /\ Answers("no") /\ UNCHANGED <<state, transaction>>
      BY <2>1, <2>2, <2>3, <1>c, AnsweringTyped DEF SessionTyped
    <2>4. CASE Awaits(transaction) /\ transaction' = None /\ state' = "READY"
               /\ UNCHANGED replies
      <3>1. transaction \in Message
        BY DEF SessionTyped
      <3>2. QueueTyped' /\ RepliesTyped'
        BY <2>1, <2>4, <3>1, AwaitingTyped
      <3> QED BY <2>1, <2>2, <2>4, <3>2, SessionAssumption DEF SessionTyped
    <2> QED BY <1>8, <2>3, <2>4 DEF FinishData
  <1>9. CASE HandleRset
    <2>1. QueueTyped' /\ RepliesTyped'
      BY <1>9, <1>c, AnsweringTyped DEF HandleRset
    <2>2. inData' \in BOOLEAN
      BY <1>9, Zenon DEF HandleRset
    <2>3. authUser' = authUser /\ authCtx' = authCtx /\ tls' = tls /\ timer' = timer
          /\ transaction' = None /\ state' \in {"INIT", "READY"}
      BY <1>9 DEF HandleRset
    <2> QED BY <2>1, <2>2, <2>3, SessionAssumption DEF SessionTyped
  <1>10. CASE HandleNoop
    <2>1. PICK code \in {"ok", "no"} : Answers(code)
      BY <1>10 DEF HandleNoop
    <2>2. Turn("NOOP") /\ Done /\ UNCHANGED session
      BY <1>10 DEF HandleNoop
    <2> QED BY <2>1, <2>2, <1>c, AnsweringTyped, SameSession
  <1>11. CASE HandleQuit
    <2>1. QueueTyped' /\ RepliesTyped'
      BY <1>11, <1>c, AnsweringTyped DEF HandleQuit
    <2>2. timer' \in BOOLEAN
      BY <1>11, Zenon DEF HandleQuit
    <2>3. UNCHANGED <<inData, transaction, authUser, authCtx, tls>> /\ state' = "QUIT"
      BY <1>11 DEF HandleQuit
    <2> QED BY <2>1, <2>2, <2>3 DEF SessionTyped
  <1> QED BY <1>1, <1>2, <1>3, <1>4, <1>5, <1>6, <1>7, <1>8, <1>9, <1>10, <1>11

LEMMA FinishTyped ==
  ASSUME FieldsOK, Finish
  PROVE  FieldsOK'
  <1> USE NoneTyped, Parts, PartsNext
  <1>c. {"ok", "no"} \subseteq Codes
    BY DEF Codes
  <1>0. /\ running.task.line \in Line /\ running.message \in Message
        /\ transaction \in Message /\ transaction.data = transaction.data
    BY DEF QueueTyped, SessionTyped, Task
  <1>1. PICK cmd : Resumes(cmd)
    BY DEF Finish, Rejected, Verified, MailAccepted, RcptAccepted, MessageStored
  <1>2. QueueTyped' /\ ClientTyped' /\ open' \in BOOLEAN
    <2>1. draining' \in BOOLEAN /\ open' = open /\ running' = NotRunning
          /\ queue' = queue /\ UNCHANGED client
      BY <1>1, Zenon DEF Resumes
    <2>2. open' \in BOOLEAN
      BY <2>1
    <2> QED BY <2>1, <2>2, NotRunningTyped, SameClient DEF QueueTyped
  <1>3. PICK code \in {"ok", "no"} : Reply(code, running.task.line)
    BY DEF Finish, Rejected, Verified, MailAccepted, RcptAccepted, MessageStored,
           Refuse, StoredCode
  <1>4. RepliesTyped'
    BY <1>0, <1>3, <1>c, Replied DEF RepliesTyped
  <1>5. SessionTyped' /\ stored' \subseteq Message
    <2>1. CASE Rejected
      BY <2>1, SameSession DEF Rejected
    <2>2. CASE Verified
      <3>1. authUser' \in BOOLEAN
        BY <2>2, Zenon DEF Verified
      <3>2. UNCHANGED <<state, inData, transaction, authCtx, tls, timer, stored>>
        BY <2>2 DEF Verified
      <3> QED BY <3>1, <3>2 DEF SessionTyped
    <2>3. CASE MailAccepted
      <3>1. transaction' \in Message /\ Len(transaction'.data) <= MaxSize
        BY <1>0, <2>3, WithSender, SessionAssumption DEF MailAccepted
      <3>2. state' = "MAIL" /\ UNCHANGED <<inData, authUser, authCtx, tls, timer, stored>>
        BY <2>3 DEF MailAccepted
      <3> QED BY <3>1, <3>2 DEF SessionTyped
    <2>4. CASE RcptAccepted
      <3>1. transaction' \in Message /\ Len(transaction'.data) <= MaxSize
        <4>1. transaction' = None
              \/ transaction' = [transaction EXCEPT !.rcptTo = Append(@, running.task.line)]
          BY <2>4 DEF RcptAccepted, AddRcpt
        <4>2. CASE transaction' = None
          BY <4>2, SessionAssumption
        <4>3. CASE transaction' = [transaction EXCEPT !.rcptTo = Append(@, running.task.line)]
          <5>1. transaction' \in Message /\ transaction'.data = transaction.data
            BY <1>0, <4>3, WithRcpt
          <5> QED BY <5>1 DEF SessionTyped
        <4> QED BY <4>1, <4>2, <4>3
      <3>2. state' = "RCPT" /\ UNCHANGED <<inData, authUser, authCtx, tls, timer, stored>>
        BY <2>4 DEF RcptAccepted
      <3> QED BY <3>1, <3>2 DEF SessionTyped
    <2>5. CASE MessageStored
      BY <1>0, <2>5, SameSession DEF MessageStored
    <2> QED BY <2>1, <2>2, <2>3, <2>4, <2>5 DEF Finish
  <1> QED BY <1>2, <1>4, <1>5

LEMMA HandleTyped ==
  ASSUME FieldsOK, Handle
  PROVE  FieldsOK'
  <1>1. CASE Skip
    <2>1. queue' \in Seq(Task) /\ Done /\ UNCHANGED <<session, open, replies>> /\ Quiet
      BY <1>1 DEF Skip, FieldsOK
    <2> QED BY <2>1, DoneTyped, SameSession, SameClient, Parts, PartsNext DEF Quiet, RepliesTyped
  <1>2. CASE ~Skip
    <2>1. SessionTyped' /\ QueueTyped' /\ RepliesTyped'
      BY <1>2, HandlersTyped DEF Handle
    <2>2. Quiet
      BY <1>2 DEF Handle
    <2>3. open' \in BOOLEAN
      BY <1>2, Parts, Zenon DEF Handle, HandleQuit
    <2> QED BY <2>1, <2>2, <2>3, SameClient, Parts, PartsNext DEF Quiet
  <1> QED BY <1>1, <1>2

LEMMA ClientStepTyped ==
  ASSUME FieldsOK, profile \in Profile, Client
  PROVE  FieldsOK'
  <1> USE Parts, PartsNext
  <1>1. PICK cmd : Sends(cmd)
    BY DEF Client, SendCommand, SendText, SendDot, SendCredentials
  <1>2. sent' \in Line /\ sent' = sent + 1
    BY <1>1, SessionAssumption DEF Sends, ClientTyped, Line, Profile
  <1>3. OnLine(cmd)
    BY <1>1 DEF Sends
  <1>4. authUser' = authUser /\ authCtx' = authCtx /\ tls' = tls /\ open' = open
        /\ running' = running /\ draining' = draining /\ stored' = stored
    BY <1>3 DEF OnLine
  <1>5. SessionTyped' /\ QueueTyped' /\ RepliesTyped'
    BY <1>2, <1>3, <1>4, LineTyped DEF SessionTyped, QueueTyped, RepliesTyped
  <1>6. \/ waiting' = waiting
        \/ \E c \in AllCmds : waiting' = Append(waiting, [cmd |-> c, line |-> sent'])
    <2>1. CASE SendCommand
      BY <2>1 DEF SendCommand, Waits, AllCmds, Profile
    <2>2. CASE SendText
      BY <2>2 DEF SendText
    <2>3. CASE SendDot
      BY <2>3 DEF SendDot, Waits, AllCmds
    <2>4. CASE SendCredentials
      BY <2>4 DEF SendCredentials, Waits, AllCmds
    <2> QED BY <2>1, <2>2, <2>3, <2>4 DEF Client
  <1>7. waiting' \in Seq(Task)
    <2>1. ASSUME NEW c \in AllCmds, waiting' = Append(waiting, [cmd |-> c, line |-> sent'])
          PROVE  waiting' \in Seq(Task)
      <3>1. [cmd |-> c, line |-> sent'] \in Task
        BY <1>2, TaskTyped
      <3> QED BY <2>1, <3>1 DEF ClientTyped
    <2> QED BY <1>6, <2>1 DEF ClientTyped
  <1>8. /\ phase' \in {phase, "command"}
        /\ accepted' = accepted
        /\ draft' = draft \/ draft' = [draft EXCEPT !.data = Append(@, sent')]
    BY DEF Client, SendCommand, SendText, SendDot, SendCredentials
  <1>9. draft' \in Message
    BY <1>2, <1>8, WithText DEF ClientTyped
  <1>10. ClientTyped'
    BY <1>2, <1>7, <1>8, <1>9 DEF ClientTyped
  <1> QED BY <1>4, <1>5, <1>10

LEMMA ReadTyped ==
  ASSUME FieldsOK, ReadReply
  PROVE  FieldsOK'
  <1> USE Parts, PartsNext
  <1>1. RepliesTyped'
    BY DEF ReadReply, RepliesTyped
  <1>2. SessionTyped' /\ QueueTyped' /\ open' \in BOOLEAN /\ stored' \subseteq Message
    <2>1. UNCHANGED <<session, open, queue, running, draining, stored, sent>>
      BY DEF ReadReply
    <2> QED BY <2>1, SameSession DEF QueueTyped
  <1>3. ClientTyped'
    <2>1. CASE UNCHANGED <<waiting, phase, draft, accepted>>
      BY <2>1 DEF ReadReply, ClientTyped
    <2>2. CASE waiting # <<>> /\ waiting' = Tail(waiting)
               /\ Believes(Head(waiting), Head(replies).code)
      <3>1. Head(waiting) \in Task /\ waiting' \in Seq(Task)
        BY <2>2 DEF ClientTyped
      <3>2. Head(waiting).line \in Line
        BY <3>1 DEF Task
      <3>3. phase' \in {"command", "body", "auth", "handshake"}
        BY <2>2 DEF Believes, ClientTyped
      <3>4. draft' \in Message
        <4> DEFINE n == Head(waiting).line
        <4>1. [None EXCEPT !.from = n] \in Message
          BY <3>2, WithSender
        <4>2. [draft EXCEPT !.rcptTo = Append(@, n)] \in Message
          BY <3>2, WithRcpt DEF ClientTyped
        <4>3. draft' \in {[None EXCEPT !.from = n], [draft EXCEPT !.rcptTo = Append(@, n)],
                          None, draft}
          BY <2>2 DEF Believes, Told
        <4> QED BY <4>1, <4>2, <4>3, NoneTyped DEF ClientTyped
      <3>5. accepted' \subseteq Message
        BY <2>2 DEF Believes, ClientTyped
      <3>6. sent' \in Line
        BY DEF ReadReply, ClientTyped
      <3> QED BY <3>1, <3>3, <3>4, <3>5, <3>6 DEF ClientTyped
    <2> QED BY <2>1, <2>2 DEF ReadReply
  <1> QED BY <1>1, <1>2, <1>3

LEMMA SocketTyped ==
  ASSUME FieldsOK, Secure \/ Timeout \/ Hangup
  PROVE  FieldsOK'
  <1> USE Parts, PartsNext
  <1>1. CASE Secure
    <2>1. authUser' \in BOOLEAN /\ timer' \in BOOLEAN
      BY <1>1, Zenon DEF Secure
    <2>2. /\ state' = "INIT" /\ transaction' = None /\ authCtx' = "none"
          /\ tls' = "done" /\ phase' = "command"
          /\ UNCHANGED <<inData, open, queue, running, draining, stored, replies,
                         waiting, sent, draft, accepted>>
      BY <1>1 DEF Secure
    <2>3. Len(transaction'.data) <= MaxSize
      BY <2>2, NoneTyped, SessionAssumption
    <2> QED BY <2>1, <2>2, <2>3, NoneTyped
            DEF SessionTyped, QueueTyped, ClientTyped, RepliesTyped
  <1>2. CASE Timeout \/ Hangup
    <2>1. open' \in BOOLEAN /\ timer' \in BOOLEAN
      BY <1>2, Zenon DEF Timeout, Hangup
    <2>2. UNCHANGED <<state, inData, transaction, authUser, authCtx, tls, queue, running,
                      draining, stored, replies, client>>
      BY <1>2 DEF Timeout, Hangup
    <2> QED BY <2>1, <2>2, SameClient DEF SessionTyped, QueueTyped, RepliesTyped
  <1> QED BY <1>1, <1>2

LEMMA TypePreserved == TypeOK /\ [Next]_vars => TypeOK'
  <1> SUFFICES ASSUME TypeOK, [Next]_vars PROVE TypeOK'
    OBVIOUS
  <1>0. FieldsOK /\ profile \in Profile /\ profile' \in Profiles
    BY SessionAssumption DEF TypeOK, Next, vars
  <1>1. CASE UNCHANGED vars
    BY <1>0, <1>1, SameSession, SameClient, Parts, PartsNext
       DEF vars, QueueTyped, RepliesTyped, TypeOK
  <1> QED BY <1>0, <1>1, ClientStepTyped, ReadTyped, HandleTyped, FinishTyped, SocketTyped
          DEF Next, Server, TypeOK

(* Whatever the client sends, and in whatever order handlers and lines     *)
(* alternate, the session's fields keep their types, and the text it       *)
(* gathers never exceeds maxSize.                                          *)
THEOREM TypeCorrect == Spec => []TypeOK
  <1>1. Init => TypeOK
    BY InitTyped DEF Init, TypeOK
  <1> QED BY <1>1, TypePreserved, PTL DEF Spec

-----------------------------------------------------------------------------
(* The steps, as far as the envelope, the queue and the replies go.        *)

Held == running # NotRunning

(* A line: LONG is answered past the queue, a command is queued, a dot is  *)
(* queued, text is refused, dropped or kept.                               *)
LineStep(cmd) ==
  \/ /\ ~inData /\ cmd = "LONG" /\ Reply("no", sent')
     /\ UNCHANGED <<state, inData, transaction, queue>>
  \/ /\ ~inData /\ EnqueueCommand(CommandOf(cmd))
     /\ UNCHANGED <<state, inData, transaction, replies>>
  \/ /\ inData /\ cmd = "DOT" /\ inData' = FALSE /\ EnqueueCommand("DOT")
     /\ UNCHANGED <<state, transaction, replies>>
  \/ /\ inData /\ cmd # "DOT" /\ TooLarge /\ Reply("no", sent')
     /\ inData' = FALSE /\ transaction' = None /\ state' = "READY"
     /\ UNCHANGED queue
  \/ /\ inData /\ cmd # "DOT" /\ transaction = None
     /\ UNCHANGED <<state, inData, transaction, queue, replies>>
  \/ /\ inData /\ cmd # "DOT" /\ transaction # None /\ ~TooLarge
     /\ transaction' = [transaction EXCEPT !.data = Append(@, sent')]
     /\ UNCHANGED <<state, inData, queue, replies>>

LEMMA LineSteps ==
  ASSUME NEW cmd, Sends(cmd)
  PROVE  /\ LineStep(cmd)
         /\ sent' = sent + 1 /\ open /\ tls # "handshake"
         /\ UNCHANGED <<authUser, tls, open, running, stored>>
  <1>1. sent' = sent + 1 /\ open /\ tls # "handshake"
        /\ UNCHANGED <<authUser, tls, open, running, stored>>
    BY DEF Sends, OnLine, Reads
  <1> SUFFICES LineStep(cmd)
    BY <1>1
  <1>2. CASE ~inData /\ OnCommandLine(cmd)
    BY <1>2 DEF OnCommandLine, AtOnce, LineStep
  <1>3. CASE inData /\ OnDataLine(cmd # "DOT")
    <2>1. CASE cmd = "DOT"
      BY <1>3, <2>1 DEF OnDataLine, LineStep
    <2>2. CASE cmd # "DOT" /\ TooLarge
      BY <1>3, <2>2 DEF OnDataLine, LineStep
    <2>3. CASE cmd # "DOT" /\ ~TooLarge /\ transaction = None
      BY <1>3, <2>3 DEF OnDataLine, LineStep
    <2>4. CASE cmd # "DOT" /\ ~TooLarge /\ transaction # None
      BY <1>3, <2>4 DEF OnDataLine, LineStep
    <2> QED BY <2>1, <2>2, <2>3, <2>4
  <1> QED BY <1>2, <1>3 DEF Sends, OnLine

(* A handler answers, or awaits and holds the queue.                       *)
Answered(code) == running' = NotRunning /\ Answers(code)
Awaited(message) == /\ running' = [task |-> Head(queue), message |-> message]
                    /\ UNCHANGED replies
Unmoved == UNCHANGED <<state, inData, transaction, tls, open>>

HandlerStep(cmd) ==
  \/ /\ state = "QUIT" /\ running' = NotRunning /\ Unmoved /\ UNCHANGED replies
  \/ /\ cmd = "EHLO" /\ Answered("ok") /\ transaction' = None /\ state' = "READY"
     /\ UNCHANGED <<inData, tls, open>>
  \/ /\ cmd \in {"AUTH", "STARTTLS", "MAIL", "RCPT", "DATA"} /\ Answered("no") /\ Unmoved
  \/ /\ cmd \in {"AUTH", "MAIL"} /\ state = "READY" /\ Awaited(None) /\ Unmoved
  \/ /\ cmd = "AUTH" /\ state = "READY" /\ Answered("ask") /\ state' = "AUTH_WAIT"
     /\ UNCHANGED <<inData, transaction, tls, open>>
  \/ /\ cmd \in {"CANCEL", "CREDS"} /\ Answered("no") /\ state' = "READY"
     /\ UNCHANGED <<inData, transaction, tls, open>>
  \/ /\ cmd = "CREDS" /\ Answered("ask") /\ Unmoved
  \/ /\ cmd = "CREDS" /\ Awaited(None) /\ state' = "READY"
     /\ UNCHANGED <<inData, transaction, tls, open>>
  \/ /\ cmd = "STARTTLS" /\ state = "READY" /\ Answered("tls") /\ tls' = "handshake"
     /\ UNCHANGED <<state, inData, transaction, open>>
  \/ /\ cmd = "RCPT" /\ state \in {"MAIL", "RCPT"} /\ transaction # None
     /\ Awaited(None) /\ Unmoved
  \/ /\ cmd = "DATA" /\ state = "RCPT" /\ Answered("go") /\ state' = "DATA" /\ inData' = TRUE
     /\ UNCHANGED <<transaction, tls, open>>
  \/ /\ cmd = "DOT" /\ transaction = None /\ Answered("no") /\ Unmoved
  \/ /\ cmd = "DOT" /\ transaction # None /\ Awaited(transaction)
     /\ transaction' = None /\ state' = "READY"
     /\ UNCHANGED <<inData, tls, open>>
  \/ /\ cmd = "RSET" /\ Answered("ok") /\ transaction' = None /\ inData' = FALSE
     /\ state' \in {"INIT", "READY"}
     /\ UNCHANGED <<tls, open>>
  \/ /\ cmd = "NOOP" /\ (Answered("ok") \/ Answered("no")) /\ Unmoved
  \/ /\ cmd = "QUIT" /\ Answered("bye") /\ state' = "QUIT" /\ open' = FALSE
     /\ UNCHANGED <<inData, transaction, tls>>

LEMMA HandlerSteps ==
  ASSUME Handle
  PROVE  /\ HandlerStep(Head(queue).cmd)
         /\ state = "QUIT" => /\ running' = NotRunning /\ Unmoved /\ UNCHANGED replies
         /\ ~Held /\ queue # <<>> /\ queue' = Tail(queue)
         /\ stored' = stored /\ UNCHANGED client
  <1> DEFINE cmd == Head(queue).cmd
  <1>1. ~Held /\ queue # <<>> /\ queue' = Tail(queue) /\ stored' = stored /\ UNCHANGED client
    BY DEF Handle, Skip, HandleEhlo, HandleAuth, HandleAuthStep, HandleStarttls,
       HandleMailFrom, HandleRcptTo, HandleDataCommand, FinishData, HandleRset,
       HandleNoop, HandleQuit, Turn, Quiet, Held
  <1>0. state = "QUIT" => running' = NotRunning /\ Unmoved /\ UNCHANGED replies
    BY DEF Handle, Skip, Done, Unmoved, session
  <1> SUFFICES HandlerStep(cmd)
    BY <1>0, <1>1
  <1> USE DEF Done, Awaits, Answered, Awaited, Unmoved, Refuses, Turn, session
  <1>2. CASE Skip
    BY <1>2 DEF Skip, HandlerStep
  <1>3. CASE HandleQuit
    BY <1>3 DEF HandleQuit, HandlerStep
  <1>4. ASSUME open' = open, HandleEhlo \/ HandleRset \/ HandleNoop
        PROVE  HandlerStep(cmd)
    BY <1>4 DEF HandleEhlo, HandleRset, HandleNoop, HandlerStep
  <1>5. ASSUME open' = open, HandleAuth \/ HandleStarttls
        PROVE  HandlerStep(cmd)
    BY <1>5 DEF HandleAuth, HandleStarttls, HandlerStep
  <1>6. ASSUME open' = open, HandleAuthStep
        PROVE  HandlerStep(cmd)
    BY <1>6 DEF HandleAuthStep, HandlerStep
  <1>7. ASSUME open' = open, HandleMailFrom \/ HandleRcptTo
        PROVE  HandlerStep(cmd)
    BY <1>7 DEF HandleMailFrom, MayMail, HandleRcptTo, HandlerStep
  <1>8. ASSUME open' = open, HandleDataCommand \/ FinishData
        PROVE  HandlerStep(cmd)
    BY <1>8 DEF HandleDataCommand, MayData, FinishData, HandlerStep
  <1> QED BY <1>2, <1>3, <1>4, <1>5, <1>6, <1>7, <1>8 DEF Handle

(* The end of an await: the answer, and what it does. *)
FinishStep(task) ==
  \/ /\ Reply("no", task.line) /\ UNCHANGED <<state, transaction, stored>>
  \/ /\ task.cmd \in {"AUTH", "CREDS"} /\ Reply("ok", task.line)
     /\ UNCHANGED <<state, transaction, stored>>
  \/ /\ task.cmd = "MAIL" /\ Reply("ok", task.line) /\ state' = "MAIL"
     /\ transaction' = [None EXCEPT !.from = task.line] /\ stored' = stored
  \/ /\ task.cmd = "RCPT" /\ Reply("ok", task.line) /\ state' = "RCPT" /\ stored' = stored
     /\ \/ transaction = None /\ transaction' = None
        \/ /\ transaction # None
           /\ transaction' = [transaction EXCEPT !.rcptTo = Append(@, task.line)]
  \/ /\ task.cmd = "DOT" /\ Reply("ok", task.line)
     /\ stored' = stored \cup {running.message}
     /\ UNCHANGED <<state, transaction>>

LEMMA FinishSteps ==
  ASSUME Finish
  PROVE  /\ FinishStep(running.task)
         /\ running.task.cmd \in {"AUTH", "CREDS", "MAIL", "RCPT", "DOT"}
         /\ running.task.line > 0 /\ running' = NotRunning
         /\ UNCHANGED <<inData, tls, open, queue, client>>
  <1> USE DEF Resumes, session
  <1>1. CASE Rejected
    BY <1>1 DEF Rejected, Refuse, FinishStep
  <1>2. CASE Verified
    BY <1>2 DEF Verified, FinishStep
  <1>3. CASE MailAccepted
    BY <1>3 DEF MailAccepted, FinishStep
  <1>4. CASE RcptAccepted
    BY <1>4 DEF RcptAccepted, AddRcpt, FinishStep
  <1>5. CASE MessageStored
    BY <1>5 DEF MessageStored, StoredCode, FinishStep
  <1> QED BY <1>1, <1>2, <1>3, <1>4, <1>5 DEF Finish

-----------------------------------------------------------------------------
(* The lines of a message in their order, whatever the client pipelines.   *)
(* The queue and the task that awaits hold lines in the order they came    *)
(* in; all are later than what the envelope and the stored messages were   *)
(* made of, but for text: a line taken for text while commands are still   *)
(* queued is later than the recipients among them.                         *)

Sorted(s) == \A i, j \in 1..Len(s) : i < j => s[i] < s[j]

Ordered(m) ==
  /\ Sorted(m.rcptTo) /\ Sorted(m.data)
  /\ \A i \in 1..Len(m.rcptTo) : m.from < m.rcptTo[i]
  /\ \A j \in 1..Len(m.data) : m.from < m.data[j]
  /\ \A i \in 1..Len(m.rcptTo), j \in 1..Len(m.data) : m.rcptTo[i] < m.data[j]

(* Line n was sent before all that queue q and the running task r hold. *)
Behind(n, q, r, top) ==
  /\ n <= top
  /\ \A i \in 1..Len(q) : n < q[i].line
  /\ r # NotRunning => n < r.task.line

InTurn(q, r, top) ==
  /\ \A i \in 1..Len(q) : 0 < q[i].line /\ q[i].line <= top
  /\ \A i, j \in 1..Len(q) : i < j => q[i].line < q[j].line
  /\ r # NotRunning => /\ 0 < r.task.line /\ r.task.line <= top
                       /\ \A i \in 1..Len(q) : r.task.line < q[i].line

HasDot(q) == \E k \in 1..Len(q) : q[k].cmd = "DOT"

(* A recipient that is not behind a dot comes before the text d. *)
RcptsFirst(q, r, d) ==
  /\ \A i \in 1..Len(q) :
       q[i].cmd = "RCPT" /\ (\A k \in 1..(i - 1) : q[k].cmd # "DOT")
         => \A j \in 1..Len(d) : q[i].line < d[j]
  /\ r.task.cmd = "RCPT" => \A j \in 1..Len(d) : r.task.line < d[j]

Running == [task : Task, message : Message]

LEMMA Concatenated ==
  ASSUME NEW S, NEW a \in Seq(S), NEW b \in Seq(S)
  PROVE  /\ a \o b \in Seq(S) /\ Len(a \o b) = Len(a) + Len(b)
         /\ \A k \in 1..(Len(a) + Len(b)) :
              (a \o b)[k] = IF k <= Len(a) THEN a[k] ELSE b[k - Len(a)]
  OBVIOUS

LEMMA OrderedLines ==
  ASSUME NEW m \in Message, Ordered(m)
  PROVE  Increases(Lines(m))
  <1> DEFINE a == m.rcptTo
             d == m.data
             s == <<m.from>> \o a \o d
  <1>1. a \in Seq(Nat) /\ d \in Seq(Nat) /\ m.from \in Nat
    BY SessionAssumption DEF Message, Line
  <1>2. Lines(m) = s
    BY DEF Lines
  <1> HIDE DEF a, d
  <1>3. Len(a) \in Nat /\ Len(d) \in Nat
    BY <1>1
  <1>4. Len(s) = 1 + Len(a) + Len(d)
    BY <1>1
  <1>5. s[1] = m.from
    BY <1>1
  <1> DEFINE h == <<m.from>>
             t == h \o a
  <1>t. /\ t \in Seq(Nat) /\ Len(t) = 1 + Len(a)
        /\ \A k \in 1..Len(t) : t[k] = IF k = 1 THEN m.from ELSE a[k - 1]
    <2>1. h \in Seq(Nat) /\ Len(h) = 1 /\ h[1] = m.from
      BY <1>1
    <2> HIDE DEF h
    <2>2. /\ t \in Seq(Nat) /\ Len(t) = Len(h) + Len(a)
          /\ \A k \in 1..(Len(h) + Len(a)) :
               t[k] = IF k <= Len(h) THEN h[k] ELSE a[k - Len(h)]
      BY <1>1, <2>1, Concatenated
    <2> HIDE DEF t
    <2> QED BY <1>3, <2>1, <2>2
  <1>s. \A k \in 1..Len(s) : s[k] = IF k <= Len(t) THEN t[k] ELSE d[k - Len(t)]
    <2> HIDE DEF t
    <2>1. /\ Len(t \o d) = Len(t) + Len(d)
          /\ \A k \in 1..(Len(t) + Len(d)) :
               (t \o d)[k] = IF k <= Len(t) THEN t[k] ELSE d[k - Len(t)]
      BY <1>1, <1>t, Concatenated
    <2>2. s = t \o d
      BY DEF t
    <2> QED BY <2>1, <2>2
  <1> HIDE DEF h, t, s
  <1>6. \A k \in 1..Len(a) : s[k + 1] = a[k] /\ a[k] \in Nat
    <2> SUFFICES ASSUME NEW k \in 1..Len(a) PROVE s[k + 1] = a[k] /\ a[k] \in Nat
      OBVIOUS
    <2>1. k + 1 \in 1..Len(t) /\ k + 1 \in 1..Len(s) /\ k + 1 # 1 /\ (k + 1) - 1 = k
      BY <1>3, <1>4, <1>t
    <2>2. s[k + 1] = t[k + 1] /\ t[k + 1] = a[k]
      BY <2>1, <1>s, <1>t
    <2> QED BY <1>1, <2>2
  <1>7. \A k \in 1..Len(d) : s[k + 1 + Len(a)] = d[k] /\ d[k] \in Nat
    <2> SUFFICES ASSUME NEW k \in 1..Len(d) PROVE s[k + 1 + Len(a)] = d[k] /\ d[k] \in Nat
      OBVIOUS
    <2>1. k + 1 + Len(a) \in 1..Len(s) /\ ~(k + 1 + Len(a) <= Len(t))
          /\ (k + 1 + Len(a)) - Len(t) = k
      BY <1>3, <1>4, <1>t
    <2>2. s[k + 1 + Len(a)] = d[k]
      BY <2>1, <1>s
    <2> QED BY <1>1, <2>2
  <1>8. /\ Sorted(a) /\ Sorted(d)
        /\ \A k \in 1..Len(a) : m.from < a[k]
        /\ \A k \in 1..Len(d) : m.from < d[k]
        /\ \A i \in 1..Len(a), j \in 1..Len(d) : a[i] < d[j]
    BY DEF Ordered, a, d
  <1>9. ASSUME NEW i \in 1..(Len(s) - 1) PROVE s[i] < s[i + 1]
    <2>1. CASE i = 1 /\ Len(a) > 0
      <3>1. s[1 + 1] = a[1] /\ m.from < a[1]
        BY <1>3, <1>6, <1>8, <2>1
      <3> QED BY <2>1, <3>1, <1>5
    <2>2. CASE i = 1 /\ Len(a) = 0
      <3>1. 1 \in 1..Len(d)
        BY <1>3, <1>4, <2>2
      <3>2. s[1 + 1 + Len(a)] = d[1] /\ m.from < d[1] /\ 1 + 1 + Len(a) = i + 1
        BY <3>1, <1>7, <1>8, <2>2
      <3> QED BY <2>2, <3>2, <1>5
    <2>3. CASE 1 < i /\ i <= Len(a)
      <3>1. i - 1 \in 1..Len(a) /\ i \in 1..Len(a)
        BY <2>3, <1>3
      <3>2. s[(i - 1) + 1] = a[i - 1] /\ s[i + 1] = a[i] /\ a[i - 1] < a[i]
        BY <3>1, <1>6, <1>8, <1>3 DEF Sorted
      <3> QED BY <3>2
    <2>4. CASE i = Len(a) + 1 /\ Len(a) > 0
      <3>1. Len(a) \in 1..Len(a) /\ 1 \in 1..Len(d)
        BY <2>4, <1>3, <1>4
      <3>2. s[Len(a) + 1] = a[Len(a)] /\ s[1 + 1 + Len(a)] = d[1] /\ a[Len(a)] < d[1]
        BY <3>1, <1>6, <1>7, <1>8
      <3>3. 1 + 1 + Len(a) = i + 1
        BY <2>4, <1>3
      <3> QED BY <2>4, <3>2, <3>3
    <2>5. CASE i > Len(a) + 1
      <3> DEFINE k == i - 1 - Len(a)
      <3>1. k \in 1..Len(d) /\ k + 1 \in 1..Len(d) /\ k < k + 1
        BY <2>5, <1>3, <1>4
      <3>2. k + 1 + Len(a) = i /\ (k + 1) + 1 + Len(a) = i + 1
        BY <1>3
      <3> HIDE DEF k
      <3>3. s[k + 1 + Len(a)] = d[k] /\ s[(k + 1) + 1 + Len(a)] = d[k + 1]
        BY <3>1, <1>7
      <3>4. d[k] < d[k + 1]
        BY <3>1, <1>8 DEF Sorted
      <3> QED BY <3>2, <3>3, <3>4
    <2> QED BY <1>3, <1>4, <2>1, <2>2, <2>3, <2>4, <2>5
  <1> QED BY <1>2, <1>9 DEF Increases

LEMMA SortedAppend ==
  ASSUME NEW s \in Seq(Nat), Sorted(s), NEW n \in Nat, \A i \in 1..Len(s) : s[i] < n
  PROVE  Sorted(Append(s, n))
  <1> DEFINE t == Append(s, n)
  <1>1. Len(t) = Len(s) + 1 /\ Len(s) \in Nat /\ t[Len(s) + 1] = n
        /\ \A i \in 1..Len(s) : t[i] = s[i]
    OBVIOUS
  <1> HIDE DEF t
  <1>2. \A i, j \in 1..Len(t) : i < j => t[i] < t[j]
    <2> SUFFICES ASSUME NEW i \in 1..Len(t), NEW j \in 1..Len(t), i < j PROVE t[i] < t[j]
      OBVIOUS
    <2>1. i \in 1..Len(s) /\ (j \in 1..Len(s) \/ j = Len(s) + 1)
      BY <1>1
    <2> QED BY <1>1, <2>1 DEF Sorted
  <1> QED BY <1>2 DEF Sorted, t

LEMMA RcptOrdered ==
  ASSUME NEW m \in Message, Ordered(m), NEW n \in Line, m.from < n,
         \A i \in 1..Len(m.rcptTo) : m.rcptTo[i] < n,
         \A j \in 1..Len(m.data) : n < m.data[j]
  PROVE  Ordered([m EXCEPT !.rcptTo = Append(@, n)])
  <1>1. m.rcptTo \in Seq(Nat) /\ m.data \in Seq(Nat) /\ n \in Nat
    BY SessionAssumption DEF Message, Line
  <1>2. Sorted(Append(m.rcptTo, n))
    BY <1>1, SortedAppend DEF Ordered
  <1>3. Len(Append(m.rcptTo, n)) = Len(m.rcptTo) + 1 /\ Append(m.rcptTo, n)[Len(m.rcptTo) + 1] = n
        /\ \A i \in 1..Len(m.rcptTo) : Append(m.rcptTo, n)[i] = m.rcptTo[i]
    BY <1>1
  <1>4. ASSUME NEW m2, m2.from = m.from, m2.data = m.data, m2.rcptTo = Append(m.rcptTo, n)
        PROVE  Ordered(m2)
    BY <1>1, <1>2, <1>3, <1>4 DEF Ordered
  <1>5. [m EXCEPT !.rcptTo = Append(@, n)] = [m EXCEPT !.rcptTo = Append(m.rcptTo, n)]
    BY DEF Message
  <1>6. ASSUME NEW a PROVE /\ [m EXCEPT !.rcptTo = a].from = m.from
                           /\ [m EXCEPT !.rcptTo = a].data = m.data
                           /\ [m EXCEPT !.rcptTo = a].rcptTo = a
    BY DEF Message
  <1> QED BY <1>4, <1>5, <1>6

LEMMA TextOrdered ==
  ASSUME NEW m \in Message, Ordered(m), NEW n \in Line, m.from < n,
         \A i \in 1..Len(m.rcptTo) : m.rcptTo[i] < n,
         \A j \in 1..Len(m.data) : m.data[j] < n
  PROVE  Ordered([m EXCEPT !.data = Append(@, n)])
  <1>1. m.rcptTo \in Seq(Nat) /\ m.data \in Seq(Nat) /\ n \in Nat
    BY SessionAssumption DEF Message, Line
  <1>2. Sorted(Append(m.data, n))
    BY <1>1, SortedAppend DEF Ordered
  <1>3. Len(Append(m.data, n)) = Len(m.data) + 1 /\ Append(m.data, n)[Len(m.data) + 1] = n
        /\ \A i \in 1..Len(m.data) : Append(m.data, n)[i] = m.data[i]
    BY <1>1
  <1>4. ASSUME NEW m2, m2.from = m.from, m2.rcptTo = m.rcptTo, m2.data = Append(m.data, n)
        PROVE  Ordered(m2)
    BY <1>1, <1>2, <1>3, <1>4 DEF Ordered
  <1>5. [m EXCEPT !.data = Append(@, n)] = [m EXCEPT !.data = Append(m.data, n)]
    BY DEF Message
  <1>6. ASSUME NEW a PROVE /\ [m EXCEPT !.data = a].from = m.from
                           /\ [m EXCEPT !.data = a].rcptTo = m.rcptTo
                           /\ [m EXCEPT !.data = a].data = a
    BY DEF Message
  <1> QED BY <1>4, <1>5, <1>6

LEMMA NewOrdered ==
  ASSUME NEW n
  PROVE  /\ Ordered([None EXCEPT !.from = n]) /\ Ordered(None)
         /\ [None EXCEPT !.from = n].from = n
         /\ [None EXCEPT !.from = n].rcptTo = <<>> /\ [None EXCEPT !.from = n].data = <<>>
  BY DEF None, Ordered, Sorted

LEMMA TaskLines ==
  ASSUME NEW q \in Seq(Task)
  PROVE  \A i \in 1..Len(q) : q[i].line \in Nat /\ q[i].line \in Line
  <1> SUFFICES ASSUME NEW i \in 1..Len(q) PROVE q[i].line \in Nat /\ q[i].line \in Line
    OBVIOUS
  <1>1. q[i] \in Task
    OBVIOUS
  <1> QED BY <1>1, SessionAssumption DEF Task, Line

(* A task goes to the end of the queue, begins, or ends. *)
LEMMA QueueAppended ==
  ASSUME NEW q \in Seq(Task), NEW t \in Task
  PROVE  /\ Append(q, t) \in Seq(Task) /\ Len(Append(q, t)) = Len(q) + 1
         /\ Append(q, t)[Len(q) + 1] = t
         /\ \A i \in 1..Len(q) : Append(q, t)[i] = q[i]
         /\ Len(q) \in Nat
  OBVIOUS

LEMMA QueueTaken ==
  ASSUME NEW q \in Seq(Task), q # <<>>
  PROVE  /\ Tail(q) \in Seq(Task) /\ Len(Tail(q)) = Len(q) - 1
         /\ Head(q) = q[1] /\ Head(q) \in Task
         /\ \A i \in 1..Len(Tail(q)) : Tail(q)[i] = q[i + 1] /\ i + 1 \in 1..Len(q)
         /\ Len(q) \in Nat /\ 1 \in 1..Len(q)
  OBVIOUS

LEMMA InTurnQueued ==
  ASSUME NEW q \in Seq(Task), NEW r \in Running, NEW top \in Nat, InTurn(q, r, top),
         NEW t \in Task, t.line = top + 1
  PROVE  /\ InTurn(Append(q, t), r, top + 1)
         /\ \A n \in Nat : Behind(n, q, r, top) => Behind(n, Append(q, t), r, top + 1)
  <1> DEFINE q2 == Append(q, t)
  <1>1. /\ q2 \in Seq(Task) /\ Len(q2) = Len(q) + 1 /\ q2[Len(q) + 1] = t
        /\ \A i \in 1..Len(q) : q2[i] = q[i]
        /\ Len(q) \in Nat
    BY QueueAppended
  <1>2. \A i \in 1..Len(q) : q[i].line \in Nat
    BY TaskLines
  <1>3. r.task.line \in Nat
    BY SessionAssumption DEF Running, Task, Line
  <1> HIDE DEF q2
  <1>4. \A i \in 1..Len(q2) : i \in 1..Len(q) \/ i = Len(q) + 1
    BY <1>1
  <1>5. InTurn(q2, r, top + 1)
    <2>1. \A i \in 1..Len(q2) : 0 < q2[i].line /\ q2[i].line <= top + 1
      BY <1>1, <1>2, <1>4 DEF InTurn
    <2>2. \A i, j \in 1..Len(q2) : i < j => q2[i].line < q2[j].line
      <3> SUFFICES ASSUME NEW i \in 1..Len(q2), NEW j \in 1..Len(q2), i < j
                   PROVE  q2[i].line < q2[j].line
        OBVIOUS
      <3>1. i \in 1..Len(q) /\ q2[i] = q[i] /\ q[i].line <= top /\ q[i].line \in Nat
        BY <1>1, <1>2, <1>4 DEF InTurn
      <3>2. CASE j \in 1..Len(q)
        BY <3>1, <3>2, <1>1 DEF InTurn
      <3>3. CASE j = Len(q) + 1
        BY <3>1, <3>3, <1>1
      <3> QED BY <3>2, <3>3, <1>4
    <2>3. ASSUME r # NotRunning
          PROVE  /\ 0 < r.task.line /\ r.task.line <= top + 1
                 /\ \A i \in 1..Len(q2) : r.task.line < q2[i].line
      BY <2>3, <1>1, <1>3, <1>4 DEF InTurn
    <2> QED BY <2>1, <2>2, <2>3 DEF InTurn
  <1>6. \A n \in Nat : Behind(n, q, r, top) => Behind(n, q2, r, top + 1)
    BY <1>1, <1>2, <1>3, <1>4 DEF Behind
  <1> QED BY <1>5, <1>6 DEF q2

LEMMA InTurnPassed ==
  ASSUME NEW q \in Seq(Task), NEW r \in Running, NEW top \in Nat, InTurn(q, r, top)
  PROVE  /\ InTurn(q, r, top + 1)
         /\ \A n \in Nat : Behind(n, q, r, top) => Behind(n, q, r, top + 1)
  <1>1. \A i \in 1..Len(q) : q[i].line \in Nat
    BY TaskLines
  <1>2. r.task.line \in Nat
    BY SessionAssumption DEF Running, Task, Line
  <1> QED BY <1>1, <1>2 DEF InTurn, Behind

LEMMA InTurnTaken ==
  ASSUME NEW q \in Seq(Task), q # <<>>, NEW top \in Nat, InTurn(q, NotRunning, top),
         NEW r, r = NotRunning \/ r.task = Head(q)
  PROVE  /\ InTurn(Tail(q), r, top)
         /\ \A n \in Nat : Behind(n, q, NotRunning, top) => Behind(n, Tail(q), r, top)
  <1> DEFINE q2 == Tail(q)
  <1>1. /\ q2 \in Seq(Task) /\ Len(q2) = Len(q) - 1 /\ Head(q) = q[1]
        /\ \A i \in 1..Len(q2) : q2[i] = q[i + 1] /\ i + 1 \in 1..Len(q)
        /\ Len(q) \in Nat /\ 1 \in 1..Len(q)
    BY QueueTaken
  <1>2. \A i \in 1..Len(q) : q[i].line \in Nat
    BY TaskLines
  <1> HIDE DEF q2
  <1>3. InTurn(q2, r, top)
    <2>1. \A i \in 1..Len(q2) : 0 < q2[i].line /\ q2[i].line <= top
      BY <1>1 DEF InTurn
    <2>2. \A i, j \in 1..Len(q2) : i < j => q2[i].line < q2[j].line
      BY <1>1 DEF InTurn
    <2>3. ASSUME r # NotRunning
          PROVE  /\ 0 < r.task.line /\ r.task.line <= top
                 /\ \A i \in 1..Len(q2) : r.task.line < q2[i].line
      BY <2>3, <1>1 DEF InTurn
    <2> QED BY <2>1, <2>2, <2>3 DEF InTurn
  <1>4. \A n \in Nat : Behind(n, q, NotRunning, top) => Behind(n, q2, r, top)
    BY <1>1 DEF Behind
  <1> QED BY <1>3, <1>4 DEF q2

(* The task that ran is done: its line is behind the rest of the queue. *)
LEMMA InTurnEnded ==
  ASSUME NEW q, NEW r, NEW top \in Nat, InTurn(q, r, top)
  PROVE  /\ InTurn(q, NotRunning, top)
         /\ \A n \in Nat : Behind(n, q, r, top) => Behind(n, q, NotRunning, top)
         /\ r # NotRunning => Behind(r.task.line, q, NotRunning, top)
  BY DEF InTurn, Behind

LEMMA RcptsQueued ==
  ASSUME NEW q \in Seq(Task), NEW r, NEW d, RcptsFirst(q, r, d), NEW t \in Task,
         d = <<>> \/ HasDot(q) \/ t.cmd = "DOT"
  PROVE  RcptsFirst(Append(q, t), r, d)
  <1> DEFINE q2 == Append(q, t)
  <1>1. /\ Len(q2) = Len(q) + 1 /\ q2[Len(q) + 1] = t
        /\ \A i \in 1..Len(q) : q2[i] = q[i]
        /\ Len(q) \in Nat
    BY QueueAppended
  <1> HIDE DEF q2
  <1>2. CASE d = <<>>
    <2>1. Len(d) = 0
      BY <1>2
    <2> QED BY <2>1, SMT DEF RcptsFirst
  <1>3. CASE d # <<>>
    <2> SUFFICES ASSUME NEW i \in 1..Len(q2), q2[i].cmd = "RCPT",
                        \A k \in 1..(i - 1) : q2[k].cmd # "DOT"
                 PROVE  \A j \in 1..Len(d) : q2[i].line < d[j]
      BY DEF RcptsFirst, q2
    <2>1. CASE i \in 1..Len(q)
      <3>1. \A k \in 1..(i - 1) : k \in 1..Len(q) /\ q2[k] = q[k]
        BY <2>1, <1>1
      <3> QED BY <2>1, <3>1, <1>1 DEF RcptsFirst
    <2>2. CASE i = Len(q) + 1
      <3>1. ~HasDot(q)
        BY <2>2, <1>1 DEF HasDot
      <3> QED BY <2>2, <3>1, <1>1, <1>3
    <2> QED BY <2>1, <2>2, <1>1
  <1> QED BY <1>2, <1>3 DEF q2

LEMMA RcptsTaken ==
  ASSUME NEW q \in Seq(Task), q # <<>>, NEW d, RcptsFirst(q, NotRunning, d),
         NEW r, r = NotRunning \/ r.task = Head(q), d = <<>> \/ Head(q).cmd # "DOT"
  PROVE  /\ RcptsFirst(Tail(q), r, d)
         /\ HasDot(q) /\ Head(q).cmd # "DOT" => HasDot(Tail(q))
  <1> DEFINE q2 == Tail(q)
  <1>1. /\ Len(q2) = Len(q) - 1 /\ Head(q) = q[1]
        /\ \A i \in 1..Len(q2) : q2[i] = q[i + 1] /\ i + 1 \in 1..Len(q)
        /\ Len(q) \in Nat /\ 1 \in 1..Len(q)
    BY QueueTaken
  <1> HIDE DEF q2
  <1>2. HasDot(q) /\ Head(q).cmd # "DOT" => HasDot(q2)
    <2> SUFFICES ASSUME NEW k \in 1..Len(q), q[k].cmd = "DOT", Head(q).cmd # "DOT"
                 PROVE  HasDot(q2)
      BY DEF HasDot
    <2>1. k - 1 \in 1..Len(q2) /\ (k - 1) + 1 = k
      BY <1>1
    <2>2. q2[k - 1] = q[k]
      BY <2>1, <1>1
    <2> QED BY <2>1, <2>2 DEF HasDot
  <1>3. r.task.cmd = "RCPT" => \A j \in 1..Len(d) : r.task.line < d[j]
    <2>1. CASE r = NotRunning
      BY <2>1 DEF RcptsFirst
    <2>2. CASE r.task = q[1] /\ q[1].cmd = "RCPT"
      <3>1. \A k \in 1..(1 - 1) : q[k].cmd # "DOT"
        OBVIOUS
      <3> QED BY <2>2, <3>1, <1>1 DEF RcptsFirst
    <2> QED BY <2>1, <2>2, <1>1
  <1>4. ASSUME NEW i \in 1..Len(q2), q2[i].cmd = "RCPT",
               \A k \in 1..(i - 1) : q2[k].cmd # "DOT"
        PROVE  \A j \in 1..Len(d) : q2[i].line < d[j]
    <2>1. CASE d = <<>>
      BY <2>1
    <2>2. CASE Head(q).cmd # "DOT"
      <3>1. i + 1 \in 1..Len(q) /\ q2[i] = q[i + 1]
        BY <1>1
      <3>2. ASSUME NEW k \in 1..((i + 1) - 1) PROVE q[k].cmd # "DOT"
        <4>1. CASE k = 1
          BY <4>1, <2>2, <1>1
        <4>2. CASE k # 1
          <5>1. k - 1 \in 1..(i - 1) /\ k - 1 \in 1..Len(q2) /\ (k - 1) + 1 = k
            BY <4>2, <1>1
          <5>2. q2[k - 1] = q[k]
            BY <5>1, <1>1
          <5> QED BY <5>1, <5>2, <1>4
        <4> QED BY <4>1, <4>2
      <3> QED BY <3>1, <3>2, <1>4 DEF RcptsFirst
    <2> QED BY <2>1, <2>2
  <1> QED BY <1>2, <1>3, <1>4 DEF RcptsFirst, q2

EnvelopeBehind ==
  /\ Behind(transaction.from, queue, running, sent)
  /\ \A i \in 1..Len(transaction.rcptTo) : Behind(transaction.rcptTo[i], queue, running, sent)
  /\ \A j \in 1..Len(transaction.data) : transaction.data[j] <= sent

TakenBehind ==
  /\ Behind(running.message.from, queue, running, sent)
  /\ \A m \in stored : Behind(m.from, queue, running, sent)

TextAfter ==
  /\ state # "QUIT" => RcptsFirst(queue, running, transaction.data)
  /\ state = "QUIT" => ~open /\ ~Held
  /\ open /\ ~inData => transaction.data = <<>> \/ HasDot(queue)

EachOrdered == /\ Ordered(transaction) /\ Ordered(running.message)
               /\ \A m \in stored : Ordered(m)

OneEach ==
  /\ \A m, n \in stored : m.from = n.from => m = n
  /\ transaction # None => \A m \in stored : m.from # transaction.from
  /\ running.task.cmd = "DOT" => /\ transaction = None
                                 /\ \A m \in stored : m.from # running.message.from

OrderInv ==
  /\ InTurn(queue, running, sent)
  /\ EnvelopeBehind /\ TakenBehind /\ TextAfter /\ EachOrdered /\ OneEach

LEMMA FieldTypes ==
  ASSUME FieldsOK
  PROVE  /\ queue \in Seq(Task) /\ running \in Running /\ transaction \in Message
         /\ stored \subseteq Message /\ sent \in Line /\ sent \in Nat
         /\ transaction.from \in Nat /\ transaction.rcptTo \in Seq(Line)
         /\ transaction.data \in Seq(Line)
         /\ \A i \in 1..Len(transaction.rcptTo) : transaction.rcptTo[i] \in Nat
         /\ \A i \in 1..Len(transaction.data) : transaction.data[i] \in Nat
         /\ running.message.from \in Nat /\ running.task.line \in Line
         /\ running.task \in Task /\ running.message \in Message
         /\ \A m \in stored : m.from \in Nat
  <1>1. /\ queue \in Seq(Task) /\ running \in Running /\ transaction \in Message
        /\ stored \subseteq Message /\ sent \in Line
    BY DEF FieldsOK, Running
  <1>2. Line \subseteq Nat
    BY SessionAssumption DEF Line
  <1>3. \A m \in Message : m.from \in Line /\ m.rcptTo \in Seq(Line) /\ m.data \in Seq(Line)
    BY DEF Message
  <1>4. running.task \in Task /\ running.message \in Message /\ running.task.line \in Line
    BY <1>1 DEF Running, Task
  <1>5. ASSUME NEW s \in Seq(Line), NEW i \in 1..Len(s) PROVE s[i] \in Nat
    <2>1. s[i] \in Line
      OBVIOUS
    <2> QED BY <2>1, <1>2
  <1> QED BY <1>1, <1>2, <1>3, <1>4, <1>5

LEMMA SentTyped ==
  ASSUME FieldsOK, profile \in Profile, NEW cmd, Sends(cmd)
  PROVE  sent' \in Line /\ sent' = sent + 1
  BY SessionAssumption DEF FieldsOK, Sends, Line, Profile

LEMMA NoneParts == None.from = 0 /\ None.rcptTo = <<>> /\ None.data = <<>>
  BY DEF None

LEMMA NothingRuns == /\ NotRunning.message = None /\ NotRunning.task.cmd = "NOOP"
                     /\ NotRunning.task.line = 0
  BY DEF NotRunning, NoTask

(* The queue after a line: as it was, or with one task of this line more. *)
LEMMA LineQueue ==
  ASSUME FieldsOK, profile \in Profile, NEW cmd, Sends(cmd)
  PROVE  \/ queue' = queue
         \/ \E t \in Task : /\ queue' = Append(queue, t) /\ t.line = sent + 1
                            /\ inData => t.cmd = "DOT"
  <1>1. LineStep(cmd) /\ sent' \in Line /\ sent' = sent + 1
    BY LineSteps, SentTyped
  <1>2. ASSUME NEW c \in AllCmds, EnqueueCommand(c)
        PROVE  \E t \in Task : queue' = Append(queue, t) /\ t.line = sent + 1 /\ t.cmd = c
    <2>1. [cmd |-> c, line |-> sent'] \in Task
      BY <1>1, TaskTyped
    <2> QED BY <1>1, <1>2, <2>1 DEF EnqueueCommand
  <1>3. CommandOf(cmd) \in AllCmds /\ "DOT" \in AllCmds
    BY DEF CommandOf, AllCmds, Commands
  <1>4. \/ queue' = queue \/ (~inData /\ EnqueueCommand(CommandOf(cmd)))
        \/ EnqueueCommand("DOT")
    BY <1>1 DEF LineStep
  <1> QED BY <1>2, <1>3, <1>4

LEMMA LineQueued ==
  ASSUME FieldsOK, profile \in Profile, InTurn(queue, running, sent), NEW cmd, Sends(cmd)
  PROVE  /\ InTurn(queue', running', sent')
         /\ \A n \in Nat : Behind(n, queue, running, sent) => Behind(n, queue', running', sent')
  <1>1. running' = running /\ sent' = sent + 1
    BY LineSteps
  <1>2. queue \in Seq(Task) /\ running \in Running /\ sent \in Nat
    BY FieldTypes
  <1>3. CASE queue' = queue
    BY <1>1, <1>2, <1>3, InTurnPassed
  <1>4. CASE queue' # queue
    <2>1. PICK t \in Task : queue' = Append(queue, t) /\ t.line = sent + 1
      BY <1>4, LineQueue
    <2> QED BY <1>1, <1>2, <2>1, InTurnQueued
  <1> QED BY <1>3, <1>4

(* The envelope after a line. *)
LEMMA LineEnvelope ==
  ASSUME NEW cmd, Sends(cmd)
  PROVE  \/ transaction' = transaction
         \/ transaction' = None
         \/ /\ inData /\ transaction # None /\ queue' = queue /\ inData' = inData
            /\ transaction' = [transaction EXCEPT !.data = Append(@, sent')]
  BY LineSteps DEF LineStep

LEMMA TextParts ==
  ASSUME NEW m \in Message, NEW n \in Line
  PROVE  /\ [m EXCEPT !.data = Append(@, n)] \in Message
         /\ [m EXCEPT !.data = Append(@, n)].from = m.from
         /\ [m EXCEPT !.data = Append(@, n)].rcptTo = m.rcptTo
         /\ [m EXCEPT !.data = Append(@, n)].data = Append(m.data, n)
         /\ Len(Append(m.data, n)) = Len(m.data) + 1 /\ Len(m.data) \in Nat
         /\ Append(m.data, n)[Len(m.data) + 1] = n
         /\ \A i \in 1..Len(m.data) : Append(m.data, n)[i] = m.data[i]
  <1>1. m.data \in Seq(Line)
    BY DEF Message
  <1>2. [m EXCEPT !.data = Append(@, n)] = [m EXCEPT !.data = Append(m.data, n)]
    BY DEF Message
  <1>3. ASSUME NEW a PROVE /\ [m EXCEPT !.data = a].from = m.from
                           /\ [m EXCEPT !.data = a].rcptTo = m.rcptTo
                           /\ [m EXCEPT !.data = a].data = a
    BY DEF Message
  <1>4. /\ Len(Append(m.data, n)) = Len(m.data) + 1 /\ Len(m.data) \in Nat
        /\ Append(m.data, n)[Len(m.data) + 1] = n
        /\ \A i \in 1..Len(m.data) : Append(m.data, n)[i] = m.data[i]
    BY <1>1
  <1> QED BY <1>2, <1>3, <1>4, WithText

LEMMA RcptParts ==
  ASSUME NEW m \in Message, NEW n \in Line
  PROVE  /\ [m EXCEPT !.rcptTo = Append(@, n)] \in Message
         /\ [m EXCEPT !.rcptTo = Append(@, n)].from = m.from
         /\ [m EXCEPT !.rcptTo = Append(@, n)].data = m.data
         /\ [m EXCEPT !.rcptTo = Append(@, n)].rcptTo = Append(m.rcptTo, n)
         /\ Len(Append(m.rcptTo, n)) = Len(m.rcptTo) + 1 /\ Len(m.rcptTo) \in Nat
         /\ Append(m.rcptTo, n)[Len(m.rcptTo) + 1] = n
         /\ \A i \in 1..Len(m.rcptTo) : Append(m.rcptTo, n)[i] = m.rcptTo[i]
         /\ Append(m.rcptTo, n) # <<>>
  <1>1. m.rcptTo \in Seq(Line)
    BY DEF Message
  <1>2. [m EXCEPT !.rcptTo = Append(@, n)] = [m EXCEPT !.rcptTo = Append(m.rcptTo, n)]
    BY DEF Message
  <1>3. ASSUME NEW a PROVE /\ [m EXCEPT !.rcptTo = a].from = m.from
                           /\ [m EXCEPT !.rcptTo = a].data = m.data
                           /\ [m EXCEPT !.rcptTo = a].rcptTo = a
    BY DEF Message
  <1>4. /\ Len(Append(m.rcptTo, n)) = Len(m.rcptTo) + 1 /\ Len(m.rcptTo) \in Nat
        /\ Append(m.rcptTo, n)[Len(m.rcptTo) + 1] = n
        /\ \A i \in 1..Len(m.rcptTo) : Append(m.rcptTo, n)[i] = m.rcptTo[i]
    BY <1>1
  <1>5. Append(m.rcptTo, n) # <<>>
    BY <1>4
  <1> QED BY <1>2, <1>3, <1>4, <1>5, WithRcpt

LEMMA OrderLine ==
  ASSUME FieldsOK, profile \in Profile, OrderInv, NEW cmd, Sends(cmd)
  PROVE  OrderInv'
  <1>1. /\ running' = running /\ stored' = stored /\ open' = open /\ open
        /\ sent' = sent + 1 /\ sent' \in Line
    BY LineSteps, SentTyped
  <1>2. /\ InTurn(queue', running', sent')
        /\ \A n \in Nat : Behind(n, queue, running, sent) => Behind(n, queue', running', sent')
    BY LineQueued DEF OrderInv
  <1>3. TakenBehind'
    <2>1. running.message.from \in Nat /\ \A m \in stored : m.from \in Nat
      BY FieldTypes
    <2> QED BY <1>1, <1>2, <2>1 DEF OrderInv, TakenBehind
  <1>t. /\ queue \in Seq(Task) /\ sent \in Nat /\ transaction \in Message
        /\ transaction.from \in Nat
        /\ \A i \in 1..Len(transaction.rcptTo) : transaction.rcptTo[i] \in Nat
        /\ \A i \in 1..Len(transaction.data) : transaction.data[i] \in Nat
        /\ transaction.rcptTo \in Seq(Line) /\ transaction.data \in Seq(Line)
    BY FieldTypes
  <1>4. CASE transaction' = transaction
    <2>1. EnvelopeBehind'
      <3>1. \A j \in 1..Len(transaction.data) : transaction.data[j] <= sent'
        BY <1>1, <1>t DEF OrderInv, EnvelopeBehind
      <3> QED BY <1>2, <1>4, <1>t, <3>1 DEF OrderInv, EnvelopeBehind
    <2>2. EachOrdered' /\ OneEach'
      BY <1>1, <1>4 DEF OrderInv, EachOrdered, OneEach
    <2>3. TextAfter'
      <3>0. state # "QUIT" /\ RcptsFirst(queue, running, transaction.data)
            /\ (~inData => transaction.data = <<>> \/ HasDot(queue))
        BY <1>1 DEF OrderInv, TextAfter
      <3>1. CASE queue' = queue
        <4>1. state' # "QUIT" /\ (~inData' => transaction.data = <<>> \/ HasDot(queue))
          <5>1. LineStep(cmd)
            BY LineSteps
          <5>2. CASE transaction = None
            BY <3>0, <5>1, <5>2, NoneParts DEF LineStep
          <5>3. CASE transaction # None
            BY <3>0, <3>1, <5>1, <5>3, <1>4, <1>t, NoneParts, QueueAppended
               DEF LineStep, EnqueueCommand
          <5> QED BY <5>2, <5>3
        <4> QED BY <3>0, <3>1, <4>1, <1>1, <1>4 DEF TextAfter
      <3>2. CASE queue' # queue
        <4>1. PICK t \in Task : /\ queue' = Append(queue, t) /\ t.line = sent + 1
                                /\ inData => t.cmd = "DOT"
          BY <3>2, LineQueue
        <4>2. RcptsFirst(queue', running, transaction.data)
          BY <3>0, <4>1, <1>t, RcptsQueued, Zenon
        <4>3. state' = state /\ (inData' \/ transaction.data = <<>> \/ HasDot(queue'))
          <5>1. LineStep(cmd)
            BY LineSteps
          <5>2. /\ Len(queue') = Len(queue) + 1 /\ queue'[Len(queue) + 1] = t
                /\ \A i \in 1..Len(queue) : queue'[i] = queue[i]
                /\ Len(queue) \in Nat
            BY <4>1, <1>t, QueueAppended
          <5>3. HasDot(queue) \/ t.cmd = "DOT" => HasDot(queue')
            BY <5>2 DEF HasDot
          <5> QED BY <3>0, <3>2, <4>1, <5>1, <5>3 DEF LineStep
        <4> QED BY <3>0, <4>2, <4>3, <1>1, <1>4 DEF TextAfter
      <3> QED BY <3>1, <3>2
    <2> QED BY <1>2, <1>3, <2>1, <2>2, <2>3 DEF OrderInv
  <1>5. CASE transaction' = None
    <2>1. EnvelopeBehind'
      <3>1. Behind(0, queue', running', sent')
        BY <1>1, <1>2, <1>t, SessionAssumption DEF InTurn, Behind, Line
      <3> QED BY <1>5, <3>1, NoneParts DEF EnvelopeBehind
    <2>2. EachOrdered' /\ OneEach'
      BY <1>1, <1>5, NewOrdered DEF OrderInv, EachOrdered, OneEach
    <2>3. TextAfter'
      <3>1. RcptsFirst(queue', running', <<>>)
        BY DEF RcptsFirst
      <3>2. state' # "QUIT"
        BY <1>1, LineSteps DEF OrderInv, TextAfter, LineStep
      <3> QED BY <3>1, <3>2, <1>5, NoneParts DEF TextAfter
    <2> QED BY <1>2, <1>3, <2>1, <2>2, <2>3 DEF OrderInv
  <1>6. CASE /\ inData /\ transaction # None /\ queue' = queue /\ inData' = inData
             /\ transaction' = [transaction EXCEPT !.data = Append(@, sent')]
    <2>1. /\ transaction'.from = transaction.from /\ transaction'.rcptTo = transaction.rcptTo
          /\ transaction'.data = Append(transaction.data, sent')
          /\ Len(transaction'.data) = Len(transaction.data) + 1
          /\ transaction'.data[Len(transaction.data) + 1] = sent'
          /\ \A i \in 1..Len(transaction.data) : transaction'.data[i] = transaction.data[i]
          /\ Len(transaction.data) \in Nat
      BY <1>1, <1>6, <1>t, TextParts
    <2>2. /\ \A j \in 1..Len(transaction.data) : transaction.data[j] < sent'
          /\ \A i \in 1..Len(transaction.rcptTo) : transaction.rcptTo[i] < sent'
          /\ transaction.from < sent'
      BY <1>1, <1>t DEF OrderInv, EnvelopeBehind, Behind
    <2>3. \A i \in 1..Len(transaction'.data) :
            i \in 1..Len(transaction.data) \/ i = Len(transaction.data) + 1
      BY <2>1
    <2>4. EnvelopeBehind'
      <3>1. \A j \in 1..Len(transaction'.data) : transaction'.data[j] <= sent'
        BY <1>1, <1>t, <2>1, <2>2, <2>3
      <3> QED BY <1>2, <1>t, <2>1, <3>1 DEF OrderInv, EnvelopeBehind
    <2>5. EachOrdered'
      <3>1. Ordered(transaction')
        BY <1>1, <1>6, <1>t, <2>2, TextOrdered DEF OrderInv, EachOrdered
      <3> QED BY <1>1, <3>1 DEF OrderInv, EachOrdered
    <2>6. OneEach'
      BY <1>1, <1>6, <2>1 DEF OrderInv, OneEach
    <2>7. TextAfter'
      <3>1. RcptsFirst(queue, running, transaction'.data)
        <4>1. state # "QUIT" /\ RcptsFirst(queue, running, transaction.data)
          BY <1>1 DEF OrderInv, TextAfter
        <4>2. \A i \in 1..Len(queue) : queue[i].line < sent' /\ queue[i].line \in Nat
          BY <1>1, <1>t, TaskLines DEF OrderInv, InTurn
        <4>3. running.task.cmd = "RCPT" => running.task.line < sent'
          <5>1. running.task.cmd = "RCPT" => running # NotRunning
            BY NothingRuns
          <5>2. running.task.line \in Nat
            BY FieldTypes, SessionAssumption DEF Line
          <5> QED BY <1>1, <1>t, <5>1, <5>2 DEF OrderInv, InTurn
        <4> QED BY <4>1, <4>2, <4>3, <2>1, <2>3 DEF RcptsFirst
      <3>2. state' # "QUIT"
        BY <1>1, LineSteps DEF OrderInv, TextAfter, LineStep
      <3> QED BY <1>1, <1>6, <3>1, <3>2 DEF TextAfter
    <2> QED BY <1>2, <1>3, <2>4, <2>5, <2>6, <2>7 DEF OrderInv
  <1> QED BY <1>4, <1>5, <1>6, LineEnvelope

(* A handler leaves the envelope alone, or it is gone; it may hold it. *)
LEMMA HandlerEnvelope ==
  ASSUME Handle
  PROVE  /\ running' = NotRunning \/ running'.task = Head(queue)
         /\ transaction' = transaction \/ transaction' = None
         /\ \/ running'.message = None
            \/ Head(queue).cmd = "DOT" /\ running'.message = transaction /\ transaction # None
         /\ running'.task.cmd = "DOT" =>
              Head(queue).cmd = "DOT" /\ transaction' = None /\ transaction # None
              /\ running'.message = transaction
         /\ sent' = sent
  <1>1. HandlerStep(Head(queue).cmd) /\ UNCHANGED client
    BY HandlerSteps
  <1>2. sent' = sent
    BY <1>1 DEF client
  <1>3. CASE running' = NotRunning
    <2>1. transaction' = transaction \/ transaction' = None
      BY <1>1, <1>3 DEF HandlerStep, Answered, Awaited, Unmoved
    <2> QED BY <1>2, <1>3, <2>1, NothingRuns
  <1>4. CASE running' # NotRunning
    <2>1. PICK m : /\ Awaited(m)
                   /\ \/ m = None /\ Head(queue).cmd # "DOT" /\ transaction' = transaction
                      \/ /\ m = transaction /\ Head(queue).cmd = "DOT" /\ transaction # None
                         /\ transaction' = None
      BY <1>1, <1>4 DEF HandlerStep, Answered, Unmoved
    <2>2. running'.task = Head(queue) /\ running'.message = m
      BY <2>1 DEF Awaited
    <2> QED BY <1>2, <2>1, <2>2
  <1> QED BY <1>3, <1>4

LEMMA OrderHandler ==
  ASSUME FieldsOK, OrderInv, Handle
  PROVE  OrderInv'
  <1>1. /\ HandlerStep(Head(queue).cmd)
        /\ state = "QUIT" => Unmoved
        /\ running = NotRunning /\ queue # <<>> /\ queue' = Tail(queue) /\ stored' = stored
    BY HandlerSteps DEF Held
  <1>2. /\ running' = NotRunning \/ running'.task = Head(queue)
        /\ transaction' = transaction \/ transaction' = None
        /\ \/ running'.message = None
           \/ Head(queue).cmd = "DOT" /\ running'.message = transaction /\ transaction # None
        /\ running'.task.cmd = "DOT" =>
             Head(queue).cmd = "DOT" /\ transaction' = None /\ transaction # None
             /\ running'.message = transaction
        /\ sent' = sent
    BY HandlerEnvelope
  <1>t. /\ queue \in Seq(Task) /\ sent \in Nat /\ transaction \in Message
        /\ transaction.from \in Nat
        /\ \A i \in 1..Len(transaction.rcptTo) : transaction.rcptTo[i] \in Nat
        /\ \A m \in stored : m.from \in Nat
    BY FieldTypes
  <1>3. /\ InTurn(queue', running', sent')
        /\ \A n \in Nat : Behind(n, queue, running, sent) => Behind(n, queue', running', sent')
    BY <1>1, <1>2, <1>t, InTurnTaken DEF OrderInv
  <1>4. Behind(0, queue', running', sent')
    BY <1>2, <1>3, <1>t DEF InTurn, Behind
  <1>5. EnvelopeBehind'
    BY <1>2, <1>3, <1>4, <1>t, NoneParts DEF OrderInv, EnvelopeBehind
  <1>6. TakenBehind'
    <2>1. Behind(running'.message.from, queue', running', sent')
      BY <1>2, <1>3, <1>4, <1>t, NoneParts DEF OrderInv, EnvelopeBehind
    <2> QED BY <1>1, <1>3, <1>t, <2>1 DEF OrderInv, TakenBehind
  <1>7. EachOrdered'
    BY <1>1, <1>2, NewOrdered DEF OrderInv, EachOrdered
  <1>8. OneEach'
    <2>1. \A m, n \in stored : m.from = n.from => m = n
      BY DEF OrderInv, OneEach
    <2>2. transaction' # None => \A m \in stored : m.from # transaction'.from
      BY <1>2 DEF OrderInv, OneEach
    <2>3. running'.task.cmd = "DOT" => /\ transaction' = None
                                       /\ \A m \in stored : m.from # running'.message.from
      BY <1>2 DEF OrderInv, OneEach
    <2> QED BY <1>1, <2>1, <2>2, <2>3 DEF OneEach
  <1>9. TextAfter'
    <2>1. state' = "QUIT" => ~open' /\ ~Held'
      BY <1>1 DEF OrderInv, TextAfter, HandlerStep, Answered, Unmoved, Held
    <2>2. CASE transaction' = None
      <3>1. RcptsFirst(queue', running', <<>>)
        BY DEF RcptsFirst
      <3> QED BY <2>1, <2>2, <3>1, NoneParts DEF TextAfter
    <2>3. CASE transaction' = transaction /\ transaction' # None
      <3>1. state' # "QUIT" => state # "QUIT"
        BY <1>1, <2>3 DEF HandlerStep, Unmoved
      <3>2. state' # "QUIT" => Head(queue).cmd # "DOT"
        BY <1>1, <2>3 DEF HandlerStep, Unmoved
      <3>3. open' /\ ~inData' => open /\ ~inData
        BY <1>1, <2>3 DEF HandlerStep, Unmoved
      <3>4. state' # "QUIT" => /\ RcptsFirst(queue', running', transaction.data)
                               /\ HasDot(queue) => HasDot(queue')
        BY <1>1, <1>2, <1>t, <3>1, <3>2, RcptsTaken DEF OrderInv, TextAfter
      <3> QED BY <2>1, <2>3, <3>1, <3>3, <3>4 DEF OrderInv, TextAfter
    <2> QED BY <1>2, <2>2, <2>3
  <1> QED BY <1>3, <1>5, <1>6, <1>7, <1>8, <1>9 DEF OrderInv

LEMMA OrderFinish ==
  ASSUME FieldsOK, OrderInv, Finish
  PROVE  OrderInv'
  <1> DEFINE n == running.task.line
  <1>1. /\ FinishStep(running.task)
        /\ running.task.cmd \in {"AUTH", "CREDS", "MAIL", "RCPT", "DOT"}
        /\ running' = NotRunning /\ n > 0
        /\ inData' = inData /\ open' = open /\ queue' = queue /\ sent' = sent
    BY FinishSteps DEF client
  <1>2. running # NotRunning
    BY <1>1, NothingRuns
  <1>t. /\ queue \in Seq(Task) /\ sent \in Nat /\ transaction \in Message
        /\ transaction.from \in Nat /\ n \in Line /\ n \in Nat
        /\ \A i \in 1..Len(transaction.rcptTo) : transaction.rcptTo[i] \in Nat
        /\ running.message.from \in Nat
        /\ \A m \in stored : m.from \in Nat
    BY FieldTypes, SessionAssumption DEF Line
  <1> HIDE DEF n
  <1>3. /\ InTurn(queue', running', sent')
        /\ \A k \in Nat : Behind(k, queue, running, sent) => Behind(k, queue', running', sent')
        /\ Behind(n, queue', running', sent')
    BY <1>1, <1>2, <1>t, InTurnEnded DEF OrderInv, n
  <1>4. Behind(0, queue', running', sent')
    BY <1>1, <1>3, <1>t DEF InTurn, Behind
  <1>5. \A k \in Nat : Behind(k, queue, running, sent) => k < n
    BY <1>2 DEF Behind, n
  <1>6. TakenBehind'
    <2>1. \A m \in stored' : m \in stored \/ m = running.message
      BY <1>1 DEF FinishStep
    <2> QED BY <1>1, <1>3, <1>4, <1>t, <2>1, NothingRuns, NoneParts
            DEF OrderInv, TakenBehind
  <1>7. EnvelopeBehind' /\ Ordered(transaction') /\ TextAfter'
    <2>0. EnvelopeBehind /\ Ordered(transaction) /\ TextAfter /\ state # "QUIT"
      BY <1>2 DEF OrderInv, EachOrdered, TextAfter, Held
    <2>r. \A d : RcptsFirst(queue, running, d) => RcptsFirst(queue', running', d)
      BY <1>1, NothingRuns DEF RcptsFirst
    <2>q. state' # "QUIT"
      BY <1>1, <2>0 DEF FinishStep
    <2>1. CASE transaction' = transaction
      <3>1. EnvelopeBehind'
        BY <1>1, <1>3, <1>t, <2>0, <2>1 DEF EnvelopeBehind
      <3>2. TextAfter'
        BY <1>1, <2>0, <2>1, <2>r, <2>q DEF TextAfter
      <3> QED BY <2>0, <2>1, <3>1, <3>2
    <2>2. CASE running.task.cmd = "MAIL" /\ transaction' = [None EXCEPT !.from = n]
      <3>1. /\ Ordered(transaction') /\ transaction'.from = n
            /\ transaction'.rcptTo = <<>> /\ transaction'.data = <<>>
        BY <2>2, NewOrdered
      <3>2. EnvelopeBehind'
        BY <1>3, <3>1 DEF EnvelopeBehind
      <3>3. RcptsFirst(queue', running', <<>>)
        BY DEF RcptsFirst
      <3> QED BY <1>1, <2>0, <2>q, <3>1, <3>2, <3>3 DEF TextAfter
    <2>3. CASE /\ running.task.cmd = "RCPT" /\ transaction # None
               /\ transaction' = [transaction EXCEPT !.rcptTo = Append(@, n)]
      <3>1. /\ transaction'.from = transaction.from /\ transaction'.data = transaction.data
            /\ transaction'.rcptTo = Append(transaction.rcptTo, n)
            /\ Len(transaction'.rcptTo) = Len(transaction.rcptTo) + 1
            /\ transaction'.rcptTo[Len(transaction.rcptTo) + 1] = n
            /\ \A i \in 1..Len(transaction.rcptTo) : transaction'.rcptTo[i] = transaction.rcptTo[i]
            /\ Len(transaction.rcptTo) \in Nat
        BY <1>t, <2>3, RcptParts
      <3>2. \A i \in 1..Len(transaction'.rcptTo) :
              i \in 1..Len(transaction.rcptTo) \/ i = Len(transaction.rcptTo) + 1
        BY <3>1
      <3>3. EnvelopeBehind'
        BY <1>1, <1>3, <1>t, <2>0, <3>1, <3>2 DEF EnvelopeBehind
      <3>4. Ordered(transaction')
        <4>1. \A j \in 1..Len(transaction.data) : n < transaction.data[j]
          BY <2>0, <2>3 DEF TextAfter, RcptsFirst, n
        <4>2. /\ transaction.from < n
              /\ \A i \in 1..Len(transaction.rcptTo) : transaction.rcptTo[i] < n
          BY <1>5, <1>t, <2>0 DEF EnvelopeBehind
        <4> QED BY <1>t, <2>0, <2>3, <4>1, <4>2, RcptOrdered
      <3>5. TextAfter'
        BY <1>1, <2>0, <2>r, <2>q, <3>1 DEF TextAfter
      <3> QED BY <3>3, <3>4, <3>5
    <2> QED BY <1>1, <2>1, <2>2, <2>3 DEF FinishStep, n
  <1>8. EachOrdered'
    <2>1. \A m \in stored' : m \in stored \/ m = running.message
      BY <1>1 DEF FinishStep
    <2> QED BY <1>1, <1>7, <2>1, NothingRuns, NewOrdered DEF OrderInv, EachOrdered
  <1>9. OneEach'
    <2>0. OneEach /\ running'.task.cmd # "DOT"
      BY <1>1, NothingRuns DEF OrderInv
    <2>1. CASE stored' = stored
      <3>1. transaction' # None => \A m \in stored : m.from # transaction'.from
        <4>1. CASE transaction' = transaction
          BY <2>0, <4>1 DEF OneEach
        <4>2. CASE transaction' = [None EXCEPT !.from = n]
          <5>1. transaction'.from = n
            BY <4>2, NewOrdered
          <5>2. \A m \in stored : m.from < n
            BY <1>5, <1>t DEF OrderInv, TakenBehind
          <5> QED BY <5>1, <5>2, <1>t
        <4>3. CASE /\ transaction # None
                   /\ transaction' = [transaction EXCEPT !.rcptTo = Append(@, n)]
          <5>1. transaction'.from = transaction.from
            BY <1>t, <4>3, RcptParts
          <5> QED BY <2>0, <4>3, <5>1 DEF OneEach
        <4> QED BY <1>1, <4>1, <4>2, <4>3 DEF FinishStep, n
      <3> QED BY <2>0, <2>1, <3>1 DEF OneEach
    <2>2. CASE running.task.cmd = "DOT" /\ stored' = stored \cup {running.message}
      <3>1. transaction' = None /\ \A m \in stored : m.from # running.message.from
        BY <1>1, <2>0, <2>2 DEF OneEach, FinishStep
      <3> QED BY <2>0, <2>2, <3>1 DEF OneEach
    <2> QED BY <1>1, <2>1, <2>2 DEF FinishStep
  <1> QED BY <1>3, <1>6, <1>7, <1>8, <1>9 DEF OrderInv

LEMMA OrderPreserved == TypeOK /\ OrderInv /\ [Next]_vars => OrderInv'
  <1> SUFFICES ASSUME TypeOK, OrderInv, [Next]_vars PROVE OrderInv'
    OBVIOUS
  <1>0. FieldsOK /\ profile \in Profile
    BY SessionAssumption DEF TypeOK
  <1>1. CASE Client
    <2>1. PICK cmd : Sends(cmd)
      BY <1>1 DEF Client, SendCommand, SendText, SendDot, SendCredentials
    <2> QED BY <1>0, <2>1, OrderLine
  <1>2. CASE Secure
    <2>1. /\ state' = "INIT" /\ transaction' = None
          /\ UNCHANGED <<inData, open, queue, running, stored, sent>>
      BY <1>2 DEF Secure
    <2>2. Behind(0, queue, running, sent)
      BY <1>0, FieldTypes DEF OrderInv, InTurn, Behind
    <2>3. EnvelopeBehind'
      BY <2>1, <2>2, NoneParts DEF EnvelopeBehind
    <2>4. TakenBehind' /\ EachOrdered' /\ OneEach'
      BY <2>1, NewOrdered DEF OrderInv, TakenBehind, EachOrdered, OneEach
    <2>5. RcptsFirst(queue', running', <<>>)
      BY DEF RcptsFirst
    <2>6. TextAfter'
      BY <2>1, <2>5, NoneParts DEF TextAfter
    <2> QED BY <2>1, <2>3, <2>4, <2>6 DEF OrderInv
  <1>3. CASE ReadReply \/ Timeout \/ Hangup \/ UNCHANGED vars
    <2>1. /\ UNCHANGED <<state, inData, transaction, queue, running, stored, sent>>
          /\ open' = open \/ open' = FALSE
      BY <1>3 DEF ReadReply, Timeout, Hangup, vars, session, client
    <2>2. InTurn(queue', running', sent') /\ EnvelopeBehind' /\ TakenBehind'
          /\ EachOrdered' /\ OneEach'
      BY <2>1 DEF OrderInv, EnvelopeBehind, TakenBehind, EachOrdered, OneEach
    <2>3. TextAfter'
      BY <2>1 DEF OrderInv, TextAfter, Held
    <2> QED BY <2>2, <2>3 DEF OrderInv
  <1> QED BY <1>0, <1>1, <1>2, <1>3, OrderHandler, OrderFinish DEF Next, Server

LEMMA OrderInit == Init => OrderInv
  <1> SUFFICES ASSUME Init PROVE OrderInv
    OBVIOUS
  <1>1. /\ state = "INIT" /\ transaction = None /\ queue = <<>> /\ running = NotRunning
        /\ stored = {} /\ sent = 0
    BY DEF Init
  <1>2. Behind(0, queue, running, sent) /\ InTurn(queue, running, sent)
    BY <1>1 DEF Behind, InTurn
  <1>3. EnvelopeBehind /\ TakenBehind
    BY <1>1, <1>2, NoneParts, NothingRuns DEF EnvelopeBehind, TakenBehind
  <1>4. EachOrdered /\ OneEach
    BY <1>1, NothingRuns, NewOrdered DEF EachOrdered, OneEach
  <1>5. RcptsFirst(queue, running, <<>>)
    BY DEF RcptsFirst
  <1>6. TextAfter
    BY <1>1, <1>5, NoneParts DEF TextAfter
  <1> QED BY <1>2, <1>3, <1>4, <1>6 DEF OrderInv

LEMMA OrderHolds == TypeOK /\ OrderInv => MessagesAreInOrder
  <1> SUFFICES ASSUME TypeOK, OrderInv PROVE MessagesAreInOrder
    OBVIOUS
  <1>1. \A m \in stored : m \in Message /\ Ordered(m)
    BY DEF TypeOK, FieldsOK, OrderInv, EachOrdered
  <1>2. \A m \in stored : Increases(Lines(m))
    BY <1>1, OrderedLines
  <1>3. \A m, n \in stored : m = n \/ m.from # n.from
    BY DEF OrderInv, OneEach
  <1> QED BY <1>2, <1>3 DEF MessagesAreInOrder

-----------------------------------------------------------------------------
(* A patient client, whose text fits: it and the server stay in step, that *)
(* is, each line it waits for has one answer, in the socket or to come.    *)
(* Nothing follows DATA until the client has its answer, so that the text  *)
(* is text for both, and the message the dot ends has its recipients.      *)

PatientClient == Patient /\ profile.text <= MaxSize

Busy == IF Held THEN 1 ELSE 0

LastIs(s, cmds) == s # <<>> /\ s[Len(s)].cmd \in cmds

Grouped ==
  /\ open => Len(waiting) = Len(replies) + Len(queue) + Busy
  /\ \A i \in 1..Len(waiting) : waiting[i].cmd \in EndsGroup => i = Len(waiting)
  /\ phase # "command" => waiting = <<>>
  /\ \A i \in 1..Len(queue) : queue[i].cmd \in {"DATA", "STARTTLS"} =>
       i = Len(queue) /\ (open => LastIs(waiting, {queue[i].cmd}))

DotFirst ==
  /\ \A i \in 1..Len(queue) : queue[i].cmd = "DOT" =>
       i = 1 /\ ~Held /\ transaction.rcptTo # <<>>
  /\ running.task.cmd = "DOT" => running.message.rcptTo # <<>>
  /\ \A m \in stored : m.rcptTo # <<>>

Envelope ==
  /\ state = "RCPT" => transaction.rcptTo # <<>> /\ transaction.data = <<>>
  /\ state = "MAIL" => transaction # None /\ transaction.data = <<>>
  /\ running.task.cmd = "RCPT" => state \in {"MAIL", "RCPT"}
  /\ tls = "handshake" => queue = <<>> /\ ~Held /\ ~inData

InText ==
  /\ inData => queue = <<>> /\ ~Held /\ state = "DATA" /\ transaction.rcptTo # <<>>
  /\ open /\ phase = "body" => inData /\ Len(transaction.data) <= Len(draft.data)
  /\ open /\ inData /\ phase # "body" =>
       replies # <<>> /\ replies[Len(replies)].code = "go" /\ LastIs(waiting, {"DATA"})
  /\ open => \A i \in 1..Len(replies) : replies[i].code = "go" =>
       i = Len(replies) /\ inData /\ transaction.data = <<>> /\ LastIs(waiting, {"DATA"})

PatientInv == Grouped /\ DotFirst /\ Envelope /\ InText

LEMMA Appended ==
  ASSUME NEW S, NEW s \in Seq(S), NEW e \in S
  PROVE  /\ Append(s, e) \in Seq(S) /\ Len(Append(s, e)) = Len(s) + 1 /\ Append(s, e) # <<>>
         /\ Append(s, e)[Len(s) + 1] = e
         /\ \A i \in 1..Len(s) : Append(s, e)[i] = s[i]
         /\ \A i \in 1..Len(Append(s, e)) : i \in 1..Len(s) \/ i = Len(s) + 1
         /\ Len(s) \in Nat
  <1>1. /\ Append(s, e) \in Seq(S) /\ Len(Append(s, e)) = Len(s) + 1
        /\ Append(s, e)[Len(s) + 1] = e
        /\ \A i \in 1..Len(s) : Append(s, e)[i] = s[i]
        /\ Len(s) \in Nat
    OBVIOUS
  <1> QED BY <1>1

LEMMA Taken ==
  ASSUME NEW S, NEW s \in Seq(S), s # <<>>
  PROVE  /\ Tail(s) \in Seq(S) /\ Len(Tail(s)) = Len(s) - 1
         /\ Head(s) = s[1] /\ Head(s) \in S
         /\ \A i \in 1..Len(Tail(s)) : Tail(s)[i] = s[i + 1] /\ i + 1 \in 1..Len(s)
         /\ Len(s) \in Nat /\ 1 \in 1..Len(s)
         /\ Tail(s) = <<>> <=> Len(s) = 1
  <1>1. /\ Tail(s) \in Seq(S) /\ Len(Tail(s)) = Len(s) - 1
        /\ Head(s) = s[1] /\ Head(s) \in S
        /\ \A i \in 1..Len(Tail(s)) : Tail(s)[i] = s[i + 1] /\ i + 1 \in 1..Len(s)
        /\ Len(s) \in Nat /\ 1 \in 1..Len(s)
    OBVIOUS
  <1>2. \A t \in Seq(S) : t = <<>> <=> Len(t) = 0
    OBVIOUS
  <1>3. Tail(s) = <<>> <=> Len(s) = 1
    BY <1>1, <1>2
  <1> QED BY <1>1, <1>3

LEMMA ClientTypes ==
  ASSUME FieldsOK
  PROVE  /\ waiting \in Seq(Task) /\ replies \in Seq([code : Codes, line : Line])
         /\ draft \in Message /\ Len(draft.data) \in Nat /\ Len(transaction.data) \in Nat
         /\ Len(waiting) \in Nat /\ Len(replies) \in Nat /\ Len(queue) \in Nat
         /\ \A i \in 1..Len(waiting) : waiting[i] \in Task
         /\ phase \in {"command", "body", "auth", "handshake"}
  <1>1. /\ waiting \in Seq(Task) /\ replies \in Seq([code : Codes, line : Line])
        /\ draft \in Message /\ transaction \in Message /\ queue \in Seq(Task)
        /\ phase \in {"command", "body", "auth", "handshake"}
    BY DEF FieldsOK
  <1>2. \A m \in Message : m.data \in Seq(Line)
    BY DEF Message
  <1>3. draft.data \in Seq(Line) /\ transaction.data \in Seq(Line)
    BY <1>1, <1>2
  <1> QED BY <1>1, <1>3

(* What a patient client does: it writes text, or the dot, or a command,   *)
(* a step of AUTH.                                                         *)
WritesText ==
  /\ inData /\ transaction # None /\ phase = "body" /\ Len(draft.data) < profile.text
  /\ transaction' = [transaction EXCEPT !.data = Append(@, sent')]
  /\ draft' = [draft EXCEPT !.data = Append(@, sent')]
  /\ UNCHANGED <<state, inData, queue, replies, waiting, phase>>

WritesDot ==
  /\ inData /\ phase = "body"
  /\ inData' = FALSE /\ phase' = "command"
  /\ waiting' = <<[cmd |-> "DOT", line |-> sent']>>
  /\ queue' = <<[cmd |-> "DOT", line |-> sent']>>
  /\ UNCHANGED <<state, transaction, replies, draft>>

WritesCommand(cmd) ==
  /\ ~inData /\ phase' = "command"
  /\ \/ phase = "command" /\ cmd \in profile.asks
     \/ phase = "auth" /\ cmd \in {"CREDS", "CANCEL"}
  /\ \A i \in 1..Len(waiting) : waiting[i].cmd \notin EndsGroup
  /\ waiting' = Append(waiting, [cmd |-> cmd, line |-> sent'])
  /\ \/ cmd = "LONG" /\ Reply("no", sent') /\ queue' = queue
     \/ EnqueueCommand(CommandOf(cmd)) /\ replies' = replies
  /\ UNCHANGED <<state, inData, transaction, draft>>

LEMMA PatientSteps ==
  ASSUME FieldsOK, profile \in Profile, PatientClient, PatientInv, Client
  PROVE  /\ \/ WritesText
            \/ WritesDot
            \/ \E cmd \in AllCmds : WritesCommand(cmd)
         /\ sent' = sent + 1 /\ sent' \in Line /\ open
         /\ tls # "handshake" /\ accepted' = accepted
         /\ UNCHANGED <<tls, open, running, stored>>
  <1>0. PICK cmd : Sends(cmd)
    BY DEF Client, SendCommand, SendText, SendDot, SendCredentials
  <1>1. /\ sent' = sent + 1 /\ sent' \in Line /\ open /\ tls # "handshake"
        /\ accepted' = accepted
        /\ UNCHANGED <<tls, open, running, stored>>
    BY <1>0, LineSteps, SentTyped DEF Client, SendCommand, SendText, SendDot, SendCredentials
  <1>2. /\ Len(waiting) \in Nat /\ Len(draft.data) \in Nat /\ Len(transaction.data) \in Nat
        /\ phase \in {"command", "body", "auth", "handshake"}
        /\ waiting \in Seq(Task) /\ queue \in Seq(Task)
    BY ClientTypes, FieldTypes
  <1>3. \A c \in {"CREDS", "CANCEL"} : c \in AllCmds
    BY DEF AllCmds
  <1>4. CASE SendCommand
    <2>1. PICK c \in profile.asks : Sends(c) /\ Waits(c)
      BY <1>4 DEF SendCommand
    <2>2. /\ phase = "command" /\ phase' = phase /\ draft' = draft
          /\ \A i \in 1..Len(waiting) : waiting[i].cmd \notin EndsGroup
      BY <1>4 DEF SendCommand, MaySend, PatientClient, Patient
    <2>3. ~inData
      BY <1>1, <1>2, <2>2 DEF PatientInv, InText, LastIs, EndsGroup
    <2>4. WritesCommand(c)
      BY <2>1, <2>2, <2>3, LineSteps DEF LineStep, Waits, WritesCommand
    <2> QED BY <1>1, <2>4 DEF AllCmds, Profile
  <1>5. CASE SendCredentials
    <2>1. PICK c \in {"CREDS", "CANCEL"} : Sends(c) /\ Waits(c)
      BY <1>5 DEF SendCredentials
    <2>2. phase = "auth" /\ phase' = "command" /\ draft' = draft /\ waiting = <<>>
      BY <1>5 DEF SendCredentials, PatientInv, Grouped
    <2>3. ~inData
      BY <1>1, <2>2 DEF PatientInv, InText, LastIs
    <2>5. \A i \in 1..Len(waiting) : waiting[i].cmd \notin EndsGroup
      BY <2>2
    <2>4. WritesCommand(c)
      BY <2>1, <2>2, <2>3, <2>5, LineSteps DEF LineStep, Waits, WritesCommand
    <2> QED BY <1>1, <1>3, <2>1, <2>4
  <1>6. CASE SendText
    <2>1. /\ Sends("TEXT") /\ phase = "body" /\ Len(draft.data) < profile.text
          /\ draft' = [draft EXCEPT !.data = Append(@, sent')]
          /\ UNCHANGED <<phase, waiting>>
      BY <1>6 DEF SendText
    <2>2. inData /\ transaction.rcptTo # <<>> /\ Len(transaction.data) <= Len(draft.data)
      BY <1>1, <2>1 DEF PatientInv, InText
    <2>3. transaction # None
      BY <2>2, NoneParts
    <2>4. ~TooLarge
      BY <1>2, <2>1, <2>2, SessionAssumption DEF TooLarge, PatientClient, Profile
    <2>5. LineStep("TEXT")
      BY <2>1, LineSteps
    <2>6. WritesText
      BY <2>1, <2>2, <2>3, <2>4, <2>5 DEF LineStep, WritesText
    <2> QED BY <1>1, <2>6
  <1>7. CASE SendDot
    <2>1. Sends("DOT") /\ Waits("DOT") /\ phase = "body" /\ phase' = "command" /\ draft' = draft
      BY <1>7 DEF SendDot
    <2>2. inData /\ queue = <<>> /\ waiting = <<>>
      BY <1>1, <2>1 DEF PatientInv, InText, Grouped
    <2>3. LineStep("DOT")
      BY <2>1, LineSteps
    <2>4. [cmd |-> "DOT", line |-> sent'] \in Task
      BY <1>1, TaskTyped DEF AllCmds
    <2>5. \A e : Append(<<>>, e) = <<e>>
      OBVIOUS
    <2>6. /\ waiting' = Append(<<>>, [cmd |-> "DOT", line |-> sent'])
          /\ queue' = Append(<<>>, [cmd |-> "DOT", line |-> sent'])
          /\ inData' = FALSE /\ UNCHANGED <<state, transaction, replies>>
      BY <2>1, <2>2, <2>3 DEF LineStep, EnqueueCommand, Waits
    <2>7. WritesDot
      BY <2>1, <2>2, <2>5, <2>6 DEF WritesDot
    <2> QED BY <1>1, <2>7
  <1> QED BY <1>4, <1>5, <1>6, <1>7 DEF Client

LEMMA PatientText ==
  ASSUME FieldsOK, PatientInv, WritesText, sent' \in Line, open, tls # "handshake",
         UNCHANGED <<tls, open, running, stored>>
  PROVE  PatientInv'
  <1>1. /\ inData /\ phase = "body" /\ waiting = <<>> /\ queue = <<>> /\ ~Held /\ state = "DATA"
        /\ transaction.rcptTo # <<>> /\ Len(transaction.data) <= Len(draft.data)
    BY DEF WritesText, PatientInv, Grouped, InText
  <1>2. UNCHANGED <<state, inData, queue, replies, waiting, phase>>
    BY DEF WritesText
  <1>3. Len(replies) = 0
    BY <1>1, ClientTypes DEF PatientInv, Grouped, Busy
  <1>4. /\ transaction'.rcptTo = transaction.rcptTo
        /\ Len(transaction'.data) = Len(transaction.data) + 1
        /\ Len(draft'.data) = Len(draft.data) + 1
    BY FieldTypes, ClientTypes, TextParts DEF WritesText
  <1>5. Grouped'
    BY <1>2 DEF PatientInv, Grouped, Busy, Held, LastIs
  <1>6. DotFirst'
    BY <1>1, <1>2 DEF PatientInv, DotFirst
  <1>7. Envelope'
    BY <1>1, <1>2 DEF PatientInv, Envelope
  <1>8. InText'
    <2>1. Len(transaction'.data) <= Len(draft'.data)
      BY <1>1, <1>4, ClientTypes
    <2> QED BY <1>1, <1>2, <1>3, <1>4, <2>1 DEF InText, Held
  <1> QED BY <1>5, <1>6, <1>7, <1>8 DEF PatientInv

LEMMA PatientDot ==
  ASSUME FieldsOK, PatientInv, WritesDot, open, tls # "handshake",
         UNCHANGED <<tls, open, running, stored>>
  PROVE  PatientInv'
  <1> DEFINE dot == [cmd |-> "DOT", line |-> sent']
  <1>1. /\ inData /\ phase = "body" /\ waiting = <<>> /\ queue = <<>> /\ ~Held /\ state = "DATA"
        /\ transaction.rcptTo # <<>>
    BY DEF WritesDot, PatientInv, Grouped, InText
  <1>2. /\ UNCHANGED <<state, transaction, replies, draft>>
        /\ inData' = FALSE /\ phase' = "command"
        /\ waiting' = <<dot>> /\ queue' = <<dot>>
    BY DEF WritesDot
  <1>3. Len(replies) = 0
    BY <1>1, ClientTypes DEF PatientInv, Grouped, Busy
  <1>4. dot.cmd = "DOT"
    OBVIOUS
  <1> HIDE DEF dot
  <1>5. Len(<<dot>>) = 1 /\ <<dot>>[1] = dot
    OBVIOUS
  <1>6. Grouped'
    BY <1>1, <1>2, <1>3, <1>4, <1>5 DEF Grouped, Busy, Held
  <1>7. DotFirst'
    BY <1>1, <1>2, <1>4, <1>5 DEF PatientInv, DotFirst, Held
  <1>8. Envelope'
    BY <1>1, <1>2 DEF PatientInv, Envelope
  <1>9. InText'
    BY <1>2, <1>3 DEF InText
  <1> QED BY <1>6, <1>7, <1>8, <1>9 DEF PatientInv

(* An answer more. *)
LEMMA OneReply ==
  ASSUME FieldsOK, open, NEW code \in Codes, NEW n \in Line, Reply(code, n)
  PROVE  /\ Len(replies') = Len(replies) + 1
         /\ replies'[Len(replies) + 1] = [code |-> code, line |-> n]
         /\ \A i \in 1..Len(replies) : replies'[i] = replies[i]
         /\ \A i \in 1..Len(replies') : i \in 1..Len(replies) \/ i = Len(replies) + 1
         /\ replies' # <<>> /\ Len(replies) \in Nat
  <1>1. replies' = Append(replies, [code |-> code, line |-> n])
    BY Zenon DEF Reply
  <1>2. [code |-> code, line |-> n] \in [code : Codes, line : Line]
    OBVIOUS
  <1> QED BY <1>1, <1>2, ClientTypes, Appended

LEMMA PatientCommand ==
  ASSUME FieldsOK, profile \in Profile, PatientInv, NEW cmd \in AllCmds, WritesCommand(cmd), sent' \in Line,
         open, tls # "handshake", UNCHANGED <<tls, open, running, stored>>
  PROVE  PatientInv'
  <1> DEFINE w == [cmd |-> cmd, line |-> sent']
             c == CommandOf(cmd)
             t == [cmd |-> c, line |-> sent']
  <1>1. /\ ~inData /\ phase' = "command"
        /\ \A i \in 1..Len(waiting) : waiting[i].cmd \notin EndsGroup
        /\ waiting' = Append(waiting, w)
        /\ UNCHANGED <<state, inData, transaction, draft>>
        /\ cmd # "DOT"
    BY DEF WritesCommand, Profile, Commands
  <1>c. c \in AllCmds /\ c # "DOT" /\ (c \in {"DATA", "STARTTLS"} => c = cmd)
    BY DEF CommandOf, AllCmds, Commands
  <1>w. w \in Task /\ t \in Task /\ w.cmd = cmd /\ t.cmd = c
    BY <1>c, TaskTyped
  <1> HIDE DEF w, t, c
  <1>2. /\ Len(waiting') = Len(waiting) + 1 /\ waiting' # <<>> /\ waiting'[Len(waiting) + 1] = w
        /\ \A i \in 1..Len(waiting) : waiting'[i] = waiting[i]
        /\ \A i \in 1..Len(waiting') : i \in 1..Len(waiting) \/ i = Len(waiting) + 1
        /\ Len(waiting) \in Nat /\ Len(replies) \in Nat /\ Len(queue) \in Nat
    BY <1>1, <1>w, ClientTypes, Appended
  <1>3. \A i \in 1..Len(waiting') : waiting'[i].cmd \in EndsGroup => i = Len(waiting')
    BY <1>1, <1>2
  <1>4. ~LastIs(waiting, {"DATA"}) /\ ~LastIs(waiting, {"STARTTLS"})
    BY <1>1, <1>2 DEF LastIs, EndsGroup
  <1>5. \A i \in 1..Len(queue) : queue[i].cmd \notin {"DATA", "STARTTLS"}
    BY <1>4 DEF PatientInv, Grouped
  <1>6. \A i \in 1..Len(replies) : replies[i].code # "go"
    BY <1>4 DEF PatientInv, InText
  <1>7. Envelope'
    BY <1>1 DEF PatientInv, Envelope
  <1>8. CASE cmd = "LONG" /\ Reply("no", sent') /\ queue' = queue
    <2>1. /\ Len(replies') = Len(replies) + 1
          /\ replies'[Len(replies) + 1] = [code |-> "no", line |-> sent']
          /\ \A i \in 1..Len(replies) : replies'[i] = replies[i]
          /\ \A i \in 1..Len(replies') : i \in 1..Len(replies) \/ i = Len(replies) + 1
      BY <1>8, OneReply DEF Codes
    <2>2. Grouped'
      BY <1>1, <1>2, <1>3, <1>5, <1>8, <2>1 DEF PatientInv, Grouped, Busy, Held
    <2>3. DotFirst'
      BY <1>1, <1>8 DEF PatientInv, DotFirst, Held
    <2>4. InText'
      BY <1>1, <1>6, <2>1 DEF InText
    <2> QED BY <1>7, <2>2, <2>3, <2>4 DEF PatientInv
  <1>9. CASE EnqueueCommand(CommandOf(cmd)) /\ replies' = replies
    <2>0. queue' = Append(queue, t)
      BY <1>9 DEF EnqueueCommand, t, c
    <2>1. /\ Len(queue') = Len(queue) + 1 /\ queue'[Len(queue) + 1] = t
          /\ \A i \in 1..Len(queue) : queue'[i] = queue[i]
          /\ \A i \in 1..Len(queue') : i \in 1..Len(queue) \/ i = Len(queue) + 1
      BY <2>0, <1>w, FieldTypes, Appended
    <2>2. \A i \in 1..Len(queue') : queue'[i].cmd \in {"DATA", "STARTTLS"} =>
            i = Len(queue') /\ LastIs(waiting', {queue'[i].cmd})
      BY <1>2, <1>5, <1>c, <1>w, <2>1 DEF LastIs
    <2>3. Grouped'
      BY <1>1, <1>2, <1>3, <1>9, <2>1, <2>2 DEF PatientInv, Grouped, Busy, Held
    <2>4. DotFirst'
      BY <1>1, <1>c, <1>w, <2>1 DEF PatientInv, DotFirst, Held
    <2>5. InText'
      BY <1>1, <1>6, <1>9 DEF InText
    <2> QED BY <1>7, <2>3, <2>4, <2>5 DEF PatientInv
  <1> QED BY <1>8, <1>9 DEF WritesCommand

LEMMA PatientRead ==
  ASSUME FieldsOK, PatientInv, ReadReply
  PROVE  PatientInv'
  <1>1. /\ replies # <<>> /\ replies' = Tail(replies)
        /\ UNCHANGED <<state, inData, transaction, tls, open, queue, running, stored>>
    BY DEF ReadReply, session
  <1>2. DotFirst' /\ Envelope'
    BY <1>1 DEF PatientInv, DotFirst, Envelope, Held
  <1>3. /\ Len(replies') = Len(replies) - 1 /\ Len(replies) \in Nat /\ Len(replies) > 0
        /\ \A i \in 1..Len(replies') : replies'[i] = replies[i + 1] /\ i + 1 \in 1..Len(replies)
        /\ replies' = <<>> <=> Len(replies) = 1
        /\ Len(waiting) \in Nat /\ Len(queue) \in Nat
    BY <1>1, ClientTypes, Taken
  <1>4. CASE waiting = <<>>
    <2>1. UNCHANGED <<waiting, phase, draft>>
      BY <1>4 DEF ReadReply
    <2>2. ~open
      BY <1>3, <1>4 DEF PatientInv, Grouped, Busy
    <2> QED BY <1>1, <1>2, <2>1, <2>2 DEF PatientInv, Grouped, InText, LastIs, Held
  <1>5. CASE waiting # <<>>
    <2> DEFINE task == Head(waiting)
               code == Head(replies).code
    <2>1. waiting' = Tail(waiting) /\ Believes(task, code)
      BY <1>5 DEF ReadReply
    <2>2. /\ Len(waiting') = Len(waiting) - 1 /\ task = waiting[1]
          /\ \A i \in 1..Len(waiting') : waiting'[i] = waiting[i + 1] /\ i + 1 \in 1..Len(waiting)
          /\ waiting' = <<>> <=> Len(waiting) = 1
          /\ 1 \in 1..Len(waiting) /\ Len(waiting) \in Nat
      BY <1>5, <2>1, ClientTypes, Taken
    <2>3. code = replies[1].code
      BY <1>1, ClientTypes, Taken
    <2>p. phase = "command"
      BY <1>5 DEF PatientInv, Grouped
    <2>4. /\ phase' # "command" => task.cmd \in EndsGroup
          /\ phase' = "body" <=> code = "go" /\ task.cmd = "DATA"
      BY <2>1, <2>p DEF Believes, EndsGroup
    <2> HIDE DEF task, code
    <2>5. task.cmd \in EndsGroup => Len(waiting) = 1
      BY <2>2 DEF PatientInv, Grouped
    <2>6. \A cmds : LastIs(waiting, cmds) /\ Len(waiting) # 1 => LastIs(waiting', cmds)
      BY <2>2 DEF LastIs
    <2>7. open => Len(waiting) = Len(replies) + Len(queue) + Busy
      BY DEF PatientInv, Grouped
    <2>8. Busy \in Nat /\ Busy' = Busy
      BY <1>1 DEF Busy, Held
    <2>9. Grouped'
      <3>1. open' => Len(waiting') = Len(replies') + Len(queue') + Busy'
        BY <1>1, <1>3, <2>2, <2>7, <2>8
      <3>2. \A i \in 1..Len(waiting') : waiting'[i].cmd \in EndsGroup => i = Len(waiting')
        BY <2>2 DEF PatientInv, Grouped
      <3>3. phase' # "command" => waiting' = <<>>
        BY <2>2, <2>4, <2>5
      <3>4. \A i \in 1..Len(queue') : queue'[i].cmd \in {"DATA", "STARTTLS"} =>
              i = Len(queue') /\ (open' => LastIs(waiting', {queue'[i].cmd}))
        <4> SUFFICES ASSUME NEW i \in 1..Len(queue), queue[i].cmd \in {"DATA", "STARTTLS"}
                     PROVE  i = Len(queue) /\ (open => LastIs(waiting', {queue[i].cmd}))
          BY <1>1
        <4>1. open => Len(waiting) # 1
          BY <1>3, <2>7, <2>8
        <4> QED BY <4>1, <2>6 DEF PatientInv, Grouped
      <3> QED BY <3>1, <3>2, <3>3, <3>4 DEF Grouped
    <2>10. InText'
      <3>1. ASSUME open, phase' = "body" PROVE inData /\ Len(transaction.data) <= Len(draft'.data)
        <4>1. inData /\ transaction.data = <<>>
          BY <3>1, <2>3, <2>4, <1>3 DEF PatientInv, InText
        <4>2. draft' = draft
          BY <2>1, <2>4, <3>1 DEF Believes, Told, task, code
        <4> QED BY <4>1, <4>2, ClientTypes
      <3>2. ASSUME open, inData, phase' # "body"
            PROVE  replies' # <<>> /\ replies'[Len(replies')].code = "go" /\ LastIs(waiting', {"DATA"})
        <4>1. /\ queue = <<>> /\ Busy = 0
              /\ replies[Len(replies)].code = "go" /\ LastIs(waiting, {"DATA"})
          BY <3>2, <2>p DEF PatientInv, InText, Busy
        <4>2. Len(waiting) = Len(replies)
          BY <3>2, <4>1, <2>7, <1>3
        <4>3. Len(replies) # 1
          BY <3>2, <4>1, <4>2, <2>2, <2>3, <2>4 DEF LastIs
        <4>4. LastIs(waiting', {"DATA"})
          BY <4>1, <4>2, <4>3, <2>6
        <4>5. Len(replies') \in 1..Len(replies') /\ Len(replies') + 1 = Len(replies)
          BY <4>3, <1>3
        <4>6. replies'[Len(replies')].code = "go" /\ replies' # <<>>
          BY <4>1, <4>3, <4>5, <1>3
        <4> QED BY <4>4, <4>6
      <3>3. ASSUME open, NEW i \in 1..Len(replies'), replies'[i].code = "go"
            PROVE  i = Len(replies') /\ inData /\ transaction.data = <<>> /\ LastIs(waiting', {"DATA"})
        <4>1. i + 1 = Len(replies) /\ inData /\ transaction.data = <<>> /\ LastIs(waiting, {"DATA"})
          BY <3>3, <1>3 DEF PatientInv, InText
        <4>2. Len(waiting) # 1
          BY <3>3, <1>3, <2>7, <2>8, <4>1
        <4>3. LastIs(waiting', {"DATA"})
          BY <4>1, <4>2, <2>6
        <4>4. i = Len(replies')
          BY <3>3, <4>1, <1>3
        <4> QED BY <4>1, <4>3, <4>4
      <3> QED BY <1>1, <3>1, <3>2, <3>3 DEF PatientInv, InText, Held
    <2> QED BY <1>2, <2>9, <2>10 DEF PatientInv
  <1> QED BY <1>4, <1>5

LEMMA HandlerReplies ==
  ASSUME FieldsOK, TextAfter, Handle, open'
  PROVE  /\ open /\ state # "QUIT"
         /\ \/ \E code \in Codes : Answered(code)
            \/ Held' /\ replies' = replies
  <1>1. HandlerStep(Head(queue).cmd) /\ (state = "QUIT" => Unmoved)
    BY HandlerSteps
  <1>2. open /\ state # "QUIT"
    BY <1>1 DEF HandlerStep, Unmoved, TextAfter
  <1>3. CASE \E m : Awaited(m) /\ Head(queue).cmd \in {"AUTH", "MAIL", "CREDS", "RCPT", "DOT"}
    <2>1. running'.task.cmd # "NOOP" /\ replies' = replies
      BY <1>3 DEF Awaited
    <2> QED BY <1>2, <2>1, NothingRuns DEF Held
  <1>4. CASE \E code \in Codes : Answered(code)
    BY <1>2, <1>4
  <1> QED BY <1>1, <1>2, <1>3, <1>4 DEF HandlerStep, Codes

LEMMA PatientHandler ==
  ASSUME FieldsOK, PatientInv, TextAfter, Handle
  PROVE  PatientInv'
  <1>1. /\ HandlerStep(Head(queue).cmd)
        /\ ~Held /\ queue # <<>> /\ queue' = Tail(queue) /\ stored' = stored
        /\ UNCHANGED <<waiting, phase, sent, draft, accepted>>
    BY HandlerSteps DEF client
  <1>2. /\ Len(queue') = Len(queue) - 1 /\ Head(queue) = queue[1] /\ Head(queue) \in Task
        /\ \A i \in 1..Len(queue') : queue'[i] = queue[i + 1] /\ i + 1 \in 1..Len(queue)
        /\ Len(queue) \in Nat /\ 1 \in 1..Len(queue)
        /\ queue' = <<>> <=> Len(queue) = 1
    BY <1>1, FieldTypes, Taken
  <1>3. ~inData /\ tls # "handshake" /\ Busy = 0
    BY <1>1 DEF PatientInv, InText, Envelope, Busy
  <1>4. /\ running'.task.cmd = "DOT" => Head(queue).cmd = "DOT" /\ running'.message = transaction
        /\ running' = NotRunning \/ running'.task = Head(queue)
    BY HandlerEnvelope
  <1>5. ASSUME open'
        PROVE  /\ open /\ state # "QUIT"
               /\ \/ /\ ~Held' /\ Len(replies') = Len(replies) + 1
                     /\ \A i \in 1..Len(replies) : replies'[i] = replies[i]
                     /\ \A i \in 1..Len(replies') : i \in 1..Len(replies) \/ i = Len(replies) + 1
                     /\ \A code : Answered(code) /\ code \in Codes => replies'[Len(replies) + 1].code = code
                     /\ Len(replies) \in Nat /\ replies' # <<>>
                  \/ Held' /\ replies' = replies
    <2>1. open /\ state # "QUIT"
      BY <1>5, HandlerReplies
    <2>2. CASE Held' /\ replies' = replies
      BY <2>1, <2>2
    <2>3. ASSUME NEW code \in Codes, Answered(code)
          PROVE  /\ ~Held' /\ Len(replies') = Len(replies) + 1
                 /\ \A i \in 1..Len(replies) : replies'[i] = replies[i]
                 /\ \A i \in 1..Len(replies') : i \in 1..Len(replies) \/ i = Len(replies) + 1
                 /\ replies'[Len(replies) + 1].code = code
                 /\ Len(replies) \in Nat /\ replies' # <<>>
      <3>1. Head(queue).line \in Line /\ Reply(code, Head(queue).line)
        BY <1>2, <2>3 DEF Task, Answered, Answers
      <3>2. /\ Len(replies') = Len(replies) + 1
            /\ replies'[Len(replies) + 1] = [code |-> code, line |-> Head(queue).line]
            /\ \A i \in 1..Len(replies) : replies'[i] = replies[i]
            /\ \A i \in 1..Len(replies') : i \in 1..Len(replies) \/ i = Len(replies) + 1
            /\ Len(replies) \in Nat /\ replies' # <<>>
        BY <2>1, <3>1, OneReply
      <3> QED BY <2>3, <3>2 DEF Answered, Held
    <2>4. CASE \E code \in Codes : Answered(code)
      <3>1. \A code \in Codes : Answered(code) => replies'[Len(replies) + 1].code = code
        BY <2>3
      <3> QED BY <2>1, <2>3, <2>4, <3>1
    <2> QED BY <1>5, <2>2, <2>4, HandlerReplies
  <1>6. Grouped'
    <2>1. open' => Len(waiting') = Len(replies') + Len(queue') + Busy'
      <3> SUFFICES ASSUME open' PROVE Len(waiting) = Len(replies') + Len(queue') + Busy'
        BY <1>1
      <3>1. Len(waiting) = Len(replies) + Len(queue) /\ Len(replies) \in Nat
        BY <1>2, <1>3, <1>5, ClientTypes DEF PatientInv, Grouped
      <3>2. CASE ~Held' /\ Len(replies') = Len(replies) + 1
        BY <1>2, <3>1, <3>2 DEF Busy
      <3>3. CASE Held' /\ replies' = replies
        BY <1>2, <3>1, <3>3 DEF Busy
      <3> QED BY <1>5, <3>2, <3>3
    <2>2. \A i \in 1..Len(queue') : queue'[i].cmd \in {"DATA", "STARTTLS"} =>
            i = Len(queue') /\ (open' => LastIs(waiting', {queue'[i].cmd}))
      <3> SUFFICES ASSUME NEW i \in 1..Len(queue'), queue'[i].cmd \in {"DATA", "STARTTLS"}
                   PROVE  i = Len(queue') /\ (open' => LastIs(waiting', {queue'[i].cmd}))
        OBVIOUS
      <3>1. queue'[i] = queue[i + 1] /\ i + 1 \in 1..Len(queue)
        BY <1>2
      <3>2. i + 1 = Len(queue) /\ (open => LastIs(waiting, {queue[i + 1].cmd}))
        BY <3>1 DEF PatientInv, Grouped
      <3>3. open' => open
        BY <1>5
      <3>4. i = Len(queue')
        BY <1>2, <3>1, <3>2
      <3> QED BY <1>1, <3>1, <3>2, <3>3, <3>4
    <2> QED BY <1>1, <2>1, <2>2 DEF PatientInv, Grouped
  <1>7. DotFirst'
    <2>1. \A i \in 1..Len(queue') : queue'[i].cmd # "DOT"
      <3> SUFFICES ASSUME NEW i \in 1..Len(queue'), queue[i + 1].cmd = "DOT" PROVE FALSE
        BY <1>2
      <3>1. i + 1 = 1
        BY <1>2 DEF PatientInv, DotFirst
      <3> QED BY <3>1
    <2>2. running'.task.cmd = "DOT" => running'.message.rcptTo # <<>>
      BY <1>2, <1>4 DEF PatientInv, DotFirst
    <2> QED BY <1>1, <2>1, <2>2 DEF PatientInv, DotFirst
  <1>8. Head(queue).cmd \in {"DATA", "STARTTLS"} =>
          queue' = <<>> /\ (open => LastIs(waiting, {Head(queue).cmd}))
    BY <1>2 DEF PatientInv, Grouped
  <1>9. Envelope'
    <2>1. state' \in {"MAIL", "RCPT"} => state' = state /\ transaction' = transaction
      BY <1>1 DEF HandlerStep, Unmoved
    <2>2. running'.task.cmd = "RCPT" => state' \in {"MAIL", "RCPT"}
      <3>1. running' # NotRunning /\ Head(queue).cmd = "RCPT" => state' \in {"MAIL", "RCPT"}
        BY <1>1 DEF HandlerStep, Unmoved, Answered
      <3> QED BY <1>4, <3>1, NothingRuns
    <2>3. tls' = "handshake" => queue' = <<>> /\ ~Held' /\ ~inData'
      BY <1>1, <1>3, <1>8 DEF HandlerStep, Unmoved, Answered, Held
    <2> QED BY <2>1, <2>2, <2>3 DEF PatientInv, Envelope
  <1>10. InText'
    <2>1. inData' => /\ Head(queue).cmd = "DATA" /\ state = "RCPT" /\ Answered("go")
                     /\ state' = "DATA" /\ transaction' = transaction
      BY <1>1, <1>3 DEF HandlerStep, Unmoved
    <2>2. inData' => /\ queue' = <<>> /\ ~Held' /\ state' = "DATA"
                     /\ transaction'.rcptTo # <<>> /\ transaction'.data = <<>>
                     /\ open => LastIs(waiting, {"DATA"})
      BY <1>8, <2>1 DEF PatientInv, Envelope, Answered, Held
    <2>3. open' => phase # "body"
      BY <1>3, <1>5 DEF PatientInv, InText
    <2>4. ASSUME open', inData'
          PROVE  replies' # <<>> /\ replies'[Len(replies')].code = "go"
      <3>1. ~Held' /\ Answered("go")
        BY <2>1, <2>2, <2>4
      <3> QED BY <1>5, <2>4, <3>1 DEF Codes
    <2>5. ASSUME open', NEW i \in 1..Len(replies'), replies'[i].code = "go"
          PROVE  i = Len(replies') /\ inData'
      <3>1. \A k \in 1..Len(replies) : replies[k].code # "go"
        BY <1>3, <1>5, <2>5 DEF PatientInv, InText
      <3>2. i = Len(replies) + 1 /\ ~Held' /\ Len(replies') = Len(replies) + 1
        BY <1>5, <2>5, <3>1
      <3>3. PICK code \in Codes : Answered(code)
        BY <2>5, <3>2, HandlerReplies
      <3>4. code = "go"
        BY <1>5, <2>5, <3>2, <3>3
      <3>5. Answered("go") /\ open /\ state # "QUIT"
        BY <1>5, <2>5, <3>3, <3>4
      <3>6. inData'
        <4>1. \A c \in Codes : Answered(c) => c = "go"
          BY <1>5, <2>5, <3>2
        <4>2. ~Answered("ok") /\ ~Answered("no") /\ ~Answered("ask") /\ ~Answered("tls")
              /\ ~Answered("bye")
          BY <4>1 DEF Codes
        <4>3. \A m : Awaited(m) => Head(queue).cmd = "NOOP"
          BY <3>2, NothingRuns DEF Awaited, Held
        <4> QED BY <1>1, <3>5, <4>2, <4>3 DEF HandlerStep
      <3> QED BY <3>2, <3>6
    <2> QED BY <1>1, <1>5, <2>1, <2>2, <2>3, <2>4, <2>5 DEF InText
  <1> QED BY <1>6, <1>7, <1>9, <1>10 DEF PatientInv

LEMMA PatientFinish ==
  ASSUME FieldsOK, PatientInv, Finish
  PROVE  PatientInv'
  <1>1. /\ FinishStep(running.task)
        /\ running.task.cmd \in {"AUTH", "CREDS", "MAIL", "RCPT", "DOT"}
        /\ running.task.line > 0 /\ running' = NotRunning
        /\ UNCHANGED <<inData, tls, open, queue, waiting, phase, sent, draft, accepted>>
    BY FinishSteps DEF client
  <1>2. Held /\ ~Held' /\ Busy = 1 /\ Busy' = 0 /\ running'.task.cmd = "NOOP"
    BY <1>1, NothingRuns DEF Held, Busy
  <1>3. ~inData /\ tls # "handshake" /\ \A i \in 1..Len(queue) : queue[i].cmd # "DOT"
    BY <1>2 DEF PatientInv, InText, Envelope, DotFirst
  <1>4. ASSUME open
        PROVE  /\ Len(replies') = Len(replies) + 1 /\ Len(replies) \in Nat
               /\ \A i \in 1..Len(replies') : replies'[i].code # "go"
    <2>1. PICK code \in {"ok", "no"} : Reply(code, running.task.line)
      BY <1>1 DEF FinishStep
    <2>2. running.task.line \in Line /\ code \in Codes
      BY FieldTypes DEF Codes
    <2>3. /\ Len(replies') = Len(replies) + 1 /\ Len(replies) \in Nat
          /\ replies'[Len(replies) + 1] = [code |-> code, line |-> running.task.line]
          /\ \A i \in 1..Len(replies) : replies'[i] = replies[i]
          /\ \A i \in 1..Len(replies') : i \in 1..Len(replies) \/ i = Len(replies) + 1
      BY <1>4, <2>1, <2>2, OneReply
    <2>4. \A i \in 1..Len(replies) : replies[i].code # "go"
      BY <1>3, <1>4 DEF PatientInv, InText
    <2> QED BY <2>3, <2>4
  <1>5. Grouped'
    <2>1. open => Len(waiting) = Len(replies') + Len(queue) + Busy'
      BY <1>2, <1>4, ClientTypes DEF PatientInv, Grouped
    <2> QED BY <1>1, <2>1 DEF PatientInv, Grouped
  <1>6. DotFirst'
    <2>1. \A m \in stored' : m.rcptTo # <<>>
      BY <1>1 DEF FinishStep, PatientInv, DotFirst
    <2> QED BY <1>1, <1>2, <1>3, <2>1 DEF DotFirst
  <1>7. Envelope'
    <2> DEFINE n == running.task.line
    <2>0. n \in Line /\ transaction \in Message /\ n > 0
      BY <1>1, FieldTypes
    <2> HIDE DEF n
    <2>1. CASE UNCHANGED <<state, transaction>>
      BY <1>1, <1>2, <1>3, <2>1 DEF PatientInv, Envelope
    <2>2. CASE state' = "MAIL" /\ transaction' = [None EXCEPT !.from = n]
      <3>0. transaction'.from = n /\ transaction'.data = <<>>
        BY <2>2, NewOrdered
      <3>1. transaction'.from # 0 /\ transaction'.data = <<>>
        BY <2>0, <3>0
      <3> QED BY <1>1, <1>2, <1>3, <2>2, <3>1, NoneParts DEF Envelope
    <2>3. CASE running.task.cmd = "RCPT" /\ state' = "RCPT" /\ ~UNCHANGED <<state, transaction>>
      <3>1. transaction # None /\ transaction.data = <<>>
        BY <2>3, NoneParts DEF PatientInv, Envelope
      <3>2. transaction' = [transaction EXCEPT !.rcptTo = Append(@, n)]
        BY <1>1, <2>3, <3>1 DEF FinishStep, n
      <3>3. transaction'.rcptTo # <<>> /\ transaction'.data = <<>>
        BY <2>0, <3>1, <3>2, RcptParts
      <3> QED BY <1>1, <1>2, <1>3, <2>3, <3>3 DEF Envelope
    <2> QED BY <1>1, <2>1, <2>2, <2>3 DEF FinishStep, n
  <1>8. InText'
    BY <1>1, <1>3, <1>4 DEF PatientInv, InText
  <1> QED BY <1>5, <1>6, <1>7, <1>8 DEF PatientInv

LEMMA PatientPreserved ==
  PatientClient /\ TypeOK /\ OrderInv /\ PatientInv /\ [Next]_vars => PatientInv'
  <1> SUFFICES ASSUME PatientClient, TypeOK, OrderInv, PatientInv, [Next]_vars
               PROVE  PatientInv'
    OBVIOUS
  <1>0. FieldsOK /\ profile \in Profile /\ TextAfter
    BY SessionAssumption DEF TypeOK, OrderInv
  <1>1. CASE Client
    BY <1>0, <1>1, PatientSteps, PatientText, PatientDot, PatientCommand
  <1>2. CASE Secure
    <2>1. /\ tls = "handshake" /\ phase = "handshake" /\ open
          /\ state' = "INIT" /\ transaction' = None /\ tls' = "done" /\ phase' = "command"
          /\ UNCHANGED <<inData, open, queue, running, stored, replies, waiting, draft>>
      BY <1>2 DEF Secure
    <2>2. ~inData /\ queue = <<>> /\ running = NotRunning
      BY <2>1 DEF PatientInv, Envelope, Held
    <2>3. Grouped'
      <3>1. Busy' = Busy /\ queue' = queue /\ Len(queue') = Len(queue)
        BY <2>1 DEF Busy, Held
      <3>2. open' => Len(waiting') = Len(replies') + Len(queue') + Busy'
        BY <2>1, <3>1 DEF PatientInv, Grouped
      <3>3. \A i \in 1..Len(queue') : queue'[i].cmd \in {"DATA", "STARTTLS"} =>
              i = Len(queue') /\ (open' => LastIs(waiting', {queue'[i].cmd}))
        BY <2>1, <2>2
      <3>4. \A i \in 1..Len(waiting') : waiting'[i].cmd \in EndsGroup => i = Len(waiting')
        BY <2>1 DEF PatientInv, Grouped
      <3> QED BY <2>1, <3>2, <3>3, <3>4 DEF Grouped
    <2>4. DotFirst'
      BY <2>1, <2>2 DEF PatientInv, DotFirst
    <2>5. Envelope'
      BY <2>1, <2>2, NothingRuns DEF Envelope
    <2>6. InText'
      BY <2>1, <2>2 DEF PatientInv, InText
    <2> QED BY <2>3, <2>4, <2>5, <2>6 DEF PatientInv
  <1>3. CASE Timeout \/ Hangup \/ UNCHANGED vars
    <2>1. /\ UNCHANGED <<state, inData, transaction, tls, queue, running, stored, replies,
                         waiting, phase, draft>>
          /\ open' = open \/ open' = FALSE
      BY <1>3 DEF Timeout, Hangup, vars, session, client
    <2>2. Grouped'
      <3>1. Busy' = Busy
        BY <2>1 DEF Busy, Held
      <3>2. CASE open' = open
        BY <2>1, <3>1, <3>2 DEF PatientInv, Grouped
      <3>3. CASE open' = FALSE
        <4>1. ~open'
          BY <3>3
        <4>2. \A i \in 1..Len(queue') : queue'[i].cmd \in {"DATA", "STARTTLS"} => i = Len(queue')
          BY <2>1 DEF PatientInv, Grouped
        <4> QED BY <2>1, <4>1, <4>2 DEF PatientInv, Grouped
      <3> QED BY <2>1, <3>2, <3>3
    <2>3. DotFirst' /\ Envelope'
      BY <2>1 DEF PatientInv, DotFirst, Envelope, Held
    <2>4. InText'
      BY <2>1 DEF PatientInv, InText, Held
    <2> QED BY <2>2, <2>3, <2>4 DEF PatientInv
  <1> QED BY <1>0, <1>1, <1>2, <1>3, PatientRead, PatientHandler, PatientFinish
          DEF Next, Server

LEMMA PatientInit == Init => PatientInv
  <1> SUFFICES ASSUME Init PROVE PatientInv
    OBVIOUS
  <1>1. /\ state = "INIT" /\ inData = FALSE /\ tls = "plain" /\ queue = <<>>
        /\ running = NotRunning /\ stored = {} /\ replies = <<>> /\ waiting = <<>>
        /\ phase = "command"
    BY DEF Init
  <1> QED BY <1>1, NothingRuns DEF PatientInv, Grouped, DotFirst, Envelope, InText, Busy, Held

WholeInv == TypeOK /\ OrderInv /\ (PatientClient => PatientInv)

LEMMA WholePreserved == WholeInv /\ [Next]_vars => WholeInv'
  <1> SUFFICES ASSUME WholeInv, [Next]_vars PROVE WholeInv'
    OBVIOUS
  <1>1. TypeOK' /\ OrderInv'
    BY TypePreserved, OrderPreserved DEF WholeInv
  <1>2. profile' = profile
    BY DEF Next, vars
  <1>3. PatientClient' <=> PatientClient
    BY <1>2 DEF PatientClient, Patient
  <1> QED BY <1>1, <1>3, PatientPreserved, Zenon DEF WholeInv

LEMMA WholeInit == Init => WholeInv
  <1>1. Init => TypeOK
    BY InitTyped DEF Init, TypeOK
  <1> QED BY <1>1, OrderInit, PatientInit, Zenon DEF WholeInv

(* What onMessage gets has one MAIL, its recipients and its text, each     *)
(* sent after the one before, and no two messages share a MAIL, whatever   *)
(* the client pipelines; and from a client that waits where it should and  *)
(* whose text fits it is a message to somebody.                            *)
THEOREM StoredWhole == Spec => []MessagesAreWhole
  <1>1. WholeInv => MessagesAreWhole
    <2> SUFFICES ASSUME WholeInv PROVE MessagesAreWhole
      OBVIOUS
    <2>1. MessagesAreInOrder
      BY OrderHolds DEF WholeInv
    <2>2. PatientClient => \A m \in stored : m.rcptTo # <<>>
      BY Zenon DEF WholeInv, PatientInv, DotFirst
    <2>3. MessageHasRecipients
      BY <2>2, Zenon DEF MessageHasRecipients, PatientClient
    <2> QED BY <2>1, <2>3 DEF MessagesAreWhole
  <1> QED BY <1>1, WholePreserved, WholeInit, PTL DEF Spec

-----------------------------------------------------------------------------
(* Authentication.  Only the secure event takes authUser back.  Without    *)
(* STARTTLS there is none; and when a patient client has its 220 nothing   *)
(* is queued behind the STARTTLS that would then run without a user.       *)

Guarded == \A p \in Profiles :
             "STARTTLS" \in p.asks => ~p.eager /\ p.text <= MaxSize

TlsInv ==
  /\ tls = "plain"
  /\ \A i \in 1..Len(queue) : queue[i].cmd # "STARTTLS"

(* The handler of MAIL awaits only for a user, so that its end may open an *)
(* envelope.                                                               *)
NoEnvelope == transaction = None /\ running.message = None /\ running.task.cmd # "MAIL"

AuthInv ==
  /\ WholeInv
  /\ "STARTTLS" \notin profile.asks => TlsInv
  /\ profile.requireAuth => (authUser \/ NoEnvelope)

LEMMA NotStarttls ==
  ASSUME "STARTTLS" \notin profile.asks,
         NEW cmd \in profile.asks \cup {"TEXT", "DOT", "CREDS", "CANCEL"}
  PROVE  CommandOf(cmd) # "STARTTLS"
  BY DEF CommandOf

LEMMA QueueGrows ==
  ASSUME TypeOK, TlsInv, NEW c, c # "STARTTLS", NEW n,
         queue' = Append(queue, [cmd |-> c, line |-> n])
  PROVE  \A i \in 1..Len(queue') : queue'[i].cmd # "STARTTLS"
  <1>1. queue \in Seq(Task)
    BY DEF TypeOK, FieldsOK
  <1>2. /\ Len(queue') = Len(queue) + 1
        /\ queue'[Len(queue) + 1] = [cmd |-> c, line |-> n]
        /\ \A i \in 1..Len(queue) : queue'[i] = queue[i]
    BY <1>1
  <1>3. [cmd |-> c, line |-> n].cmd = c
    OBVIOUS
  <1> QED BY <1>1, <1>2, <1>3 DEF TlsInv

LEMMA QueueShrinks ==
  ASSUME TypeOK, TlsInv, queue # <<>>, queue' = Tail(queue)
  PROVE  /\ Head(queue).cmd # "STARTTLS"
         /\ \A i \in 1..Len(queue') : queue'[i].cmd # "STARTTLS"
  <1>1. queue \in Seq(Task)
    BY DEF TypeOK, FieldsOK
  <1>2. /\ Len(queue) > 0 /\ Head(queue) = queue[1] /\ Len(queue') = Len(queue) - 1
        /\ \A i \in 1..Len(queue') : queue'[i] = queue[i + 1]
    BY <1>1
  <1> QED BY <1>1, <1>2 DEF TlsInv

LEMMA TlsPreserved ==
  ASSUME "STARTTLS" \notin profile.asks, TypeOK, TlsInv, [Next]_vars
  PROVE  TlsInv'
  <1>1. CASE Client
    <2>1. PICK cmd \in profile.asks \cup {"TEXT", "DOT", "CREDS", "CANCEL"} : OnLine(cmd)
      BY <1>1 DEF Client, SendCommand, SendText, SendDot, SendCredentials, Sends
    <2>2. CommandOf(cmd) # "STARTTLS"
      BY <2>1, NotStarttls
    <2>3. tls' = tls /\ (queue' = queue \/ EnqueueCommand(CommandOf(cmd))
                                       \/ EnqueueCommand("DOT"))
      BY <2>1 DEF OnLine, OnCommandLine, OnDataLine
    <2>4. \A i \in 1..Len(queue') : queue'[i].cmd # "STARTTLS"
      BY <2>2, <2>3, QueueGrows DEF EnqueueCommand, TlsInv
    <2> QED BY <2>3, <2>4 DEF TlsInv
  <1>2. CASE Handle
    <2>1. queue # <<>> /\ queue' = Tail(queue)
      BY <1>2 DEF Handle, Skip, HandleEhlo, HandleAuth, HandleAuthStep, HandleStarttls,
         HandleMailFrom, HandleRcptTo, HandleDataCommand, FinishData, HandleRset,
         HandleNoop, HandleQuit, Turn
    <2>2. Head(queue).cmd # "STARTTLS"
      BY <2>1, QueueShrinks
    <2>3. tls' = tls
      BY <1>2, <2>2 DEF Handle, Skip, HandleEhlo, HandleAuth, HandleAuthStep,
         HandleStarttls, HandleMailFrom, HandleRcptTo, HandleDataCommand, FinishData,
         HandleRset, HandleNoop, HandleQuit, Turn, Refuses, session
    <2> QED BY <2>1, <2>3, QueueShrinks DEF TlsInv
  <1>3. CASE Secure
    BY <1>3 DEF Secure, TlsInv
  <1>4. CASE UNCHANGED <<tls, queue>>
    BY <1>4 DEF TlsInv
  <1>5. ReadReply \/ Finish \/ Timeout \/ Hangup \/ UNCHANGED vars => UNCHANGED <<tls, queue>>
    BY DEF ReadReply, Finish, Rejected, Verified, MailAccepted, RcptAccepted, MessageStored,
       Resumes, Timeout, Hangup, vars, session
  <1> QED BY <1>1, <1>2, <1>3, <1>4, <1>5 DEF Next, Server

(* What a step does to the envelope while nobody is authenticated. *)
LEMMA NoEnvelopeKept ==
  ASSUME TypeOK, tls # "handshake" \/ ~Held, profile.requireAuth, ~authUser, NoEnvelope,
         [Next]_vars
  PROVE  authUser' \/ NoEnvelope'
  <1>n. NotRunning.message = None /\ NotRunning.task.cmd = "NOOP"
    BY DEF NotRunning, NoTask
  <1>1. CASE Client
    <2>1. PICK cmd : OnLine(cmd)
      BY <1>1 DEF Client, SendCommand, SendText, SendDot, SendCredentials, Sends
    <2>2. running' = running /\ transaction' = None
      BY <2>1 DEF OnLine, OnCommandLine, OnDataLine, NoEnvelope
    <2> QED BY <2>2 DEF NoEnvelope
  <1>2. CASE Handle
    <2>1. transaction' = None
      BY <1>2 DEF Handle, Skip, HandleEhlo, HandleAuth, HandleAuthStep, HandleStarttls,
         HandleMailFrom, HandleRcptTo, HandleDataCommand, FinishData, HandleRset,
         HandleNoop, HandleQuit, Refuses, session, NoEnvelope
    <2>2. Done \/ (Awaits(None) /\ Head(queue).cmd # "MAIL")
      <3>1. CASE HandleMailFrom
        BY <3>1 DEF HandleMailFrom, Refuses, MayMail
      <3>2. CASE Handle /\ ~HandleMailFrom
        BY <3>2 DEF Handle, Skip, HandleEhlo, HandleAuth, HandleAuthStep, HandleStarttls,
           HandleRcptTo, HandleDataCommand, FinishData, HandleRset, HandleNoop, HandleQuit,
           Refuses, Turn, NoEnvelope
      <3> QED BY <1>2, <3>1, <3>2
    <2>3. running'.message = None /\ running'.task.cmd # "MAIL"
      <3>1. CASE Done
        BY <3>1, <1>n DEF Done
      <3>2. CASE Awaits(None) /\ Head(queue).cmd # "MAIL"
        BY <3>2 DEF Awaits
      <3> QED BY <2>2, <3>1, <3>2
    <2> QED BY <2>1, <2>3 DEF NoEnvelope
  <1>3. CASE Finish
    <2>1. running' = NotRunning
      BY <1>3 DEF Finish, Rejected, Verified, MailAccepted, RcptAccepted, MessageStored,
         Resumes
    <2>2. ~MailAccepted
      BY DEF MailAccepted, Resumes, NoEnvelope
    <2>3. transaction' = None
      BY <1>3, <2>2 DEF Finish, Rejected, Verified, RcptAccepted, MessageStored, session,
         NoEnvelope
    <2> QED BY <2>1, <2>3, <1>n DEF NoEnvelope
  <1>4. CASE Secure
    BY <1>4 DEF Secure, NoEnvelope, Held
  <1>5. CASE UNCHANGED <<transaction, running>>
    BY <1>5 DEF NoEnvelope
  <1>6. ReadReply \/ Timeout \/ Hangup \/ UNCHANGED vars => UNCHANGED <<transaction, running>>
    BY DEF ReadReply, Timeout, Hangup, vars, session
  <1> QED BY <1>1, <1>2, <1>3, <1>4, <1>5, <1>6 DEF Next, Server

LEMMA UserKept ==
  ASSUME ~Secure, authUser, [Next]_vars
  PROVE  authUser'
  <1>1. authUser' = authUser \/ authUser' = TRUE
    BY Zenon DEF Next, Client, SendCommand, SendText, SendDot, SendCredentials, Sends,
       OnLine, ReadReply, Server, Handle, Skip, HandleEhlo, HandleAuth, HandleAuthStep,
       HandleStarttls, HandleMailFrom, HandleRcptTo, HandleDataCommand, FinishData,
       HandleRset, HandleNoop, HandleQuit, Refuses, Finish, Rejected, Verified,
       MailAccepted, RcptAccepted, MessageStored, Timeout, Hangup, vars, session
  <1> QED BY <1>1, Zenon

LEMMA AuthPreserved == Guarded /\ AuthInv /\ [Next]_vars => AuthInv'
  <1> SUFFICES ASSUME Guarded, AuthInv, [Next]_vars PROVE AuthInv'
    OBVIOUS
  <1>1. TypeOK /\ WholeInv' /\ profile' = profile
    BY WholePreserved DEF AuthInv, WholeInv, Next, vars
  <1>2. "STARTTLS" \notin profile.asks => TlsInv'
    BY <1>1, TlsPreserved DEF AuthInv
  <1>3. tls # "handshake" \/ ~Held
    <2>1. CASE "STARTTLS" \notin profile.asks
      BY <2>1 DEF AuthInv, TlsInv
    <2>2. CASE "STARTTLS" \in profile.asks
      <3>1. PatientClient
        BY <1>1, <2>2 DEF Guarded, TypeOK, PatientClient, Patient
      <3> QED BY <3>1 DEF AuthInv, WholeInv, PatientInv, Envelope
    <2> QED BY <2>1, <2>2
  <1>4. CASE Secure
    <2>1. transaction' = None /\ running' = running /\ running = NotRunning
      BY <1>3, <1>4 DEF Secure, Held
    <2>2. NoEnvelope'
      BY <2>1, NothingRuns DEF NoEnvelope
    <2> QED BY <1>1, <1>2, <2>2, Zenon DEF AuthInv
  <1>5. CASE ~Secure
    <2>1. profile.requireAuth => (authUser' \/ NoEnvelope')
      BY <1>1, <1>3, <1>5, UserKept, NoEnvelopeKept, Zenon DEF AuthInv
    <2> QED BY <1>1, <1>2, <2>1, Zenon DEF AuthInv
  <1> QED BY <1>4, <1>5

LEMMA AuthInit == Init => AuthInv
  <1> SUFFICES ASSUME Init PROVE AuthInv
    OBVIOUS
  <1>1. tls = "plain" /\ queue = <<>> /\ transaction = None /\ running = NotRunning
    BY DEF Init
  <1>2. NoEnvelope
    BY <1>1, NothingRuns DEF NoEnvelope
  <1>3. TlsInv
    BY <1>1 DEF TlsInv
  <1> QED BY <1>2, <1>3, WholeInit, Zenon DEF AuthInv

(* On a port with requireAuth there is no envelope and no message with     *)
(* onMessage before its user is authenticated, whatever the client         *)
(* pipelines; a client that uses STARTTLS waits for its answers.           *)
THEOREM AuthenticatedFirst == Guarded => (Spec => []AuthBeforeMail)
  <1> SUFFICES ASSUME Guarded PROVE Spec => []AuthBeforeMail
    OBVIOUS
  <1>1. AuthInv /\ [Next]_vars => AuthInv'
    BY AuthPreserved
  <1>2. AuthInv => AuthBeforeMail
    <2> SUFFICES ASSUME AuthInv, profile.requireAuth, NEW m \in {transaction, running.message}
                 PROVE  m = None \/ authUser
      BY Zenon DEF AuthBeforeMail
    <2>1. CASE authUser
      BY <2>1, Zenon
    <2>2. CASE NoEnvelope
      BY <2>2 DEF NoEnvelope
    <2> QED BY <2>1, <2>2, Zenon DEF AuthInv
  <1> QED BY <1>1, <1>2, AuthInit, PTL DEF Spec

-----------------------------------------------------------------------------
(* A client that writes no overlong line either: the k-th answer is the    *)
(* answer to its k-th line, so what it will know of the transaction when   *)
(* it has read all that was sent is what the server has.                   *)

(* Knowing d and reading replies r to lines w, a client comes to know m.   *)
Sees(d, w, r, m) ==
  \E v \in [0..Len(r) -> Message] :
    /\ v[0] = d /\ v[Len(r)] = m
    /\ \A i \in 1..Len(r) : v[i] = Told(v[i - 1], w[i], r[i].code)

InHand == IF running.task.cmd = "DOT" THEN running.message ELSE transaction

InStep ==
  /\ Len(replies) <= Len(waiting)
  /\ \A i \in 1..Len(replies) : replies[i].line = waiting[i].line
  /\ open => /\ Held => running.task = waiting[Len(replies) + 1]
             /\ \A i \in 1..Len(queue) : queue[i] = waiting[Len(replies) + Busy + i]
             /\ Sees(draft, waiting, replies, InHand)

AuthStep ==
  /\ state \in {"INIT", "READY", "AUTH_WAIT"} => transaction = None
  /\ running.task.cmd \in {"MAIL", "AUTH", "CREDS", "DOT"} => state = "READY"
  /\ tls = "handshake" => state = "READY"
  /\ \A i \in 1..Len(queue) : queue[i].cmd \in {"CREDS", "CANCEL"} =>
       Len(queue) = 1 /\ ~Held /\ state = "AUTH_WAIT"
  /\ open /\ state = "AUTH_WAIT" /\ phase # "auth" =>
       \/ LastIs(queue, {"CREDS", "CANCEL"}) /\ LastIs(waiting, {"CREDS", "CANCEL"})
       \/ /\ replies # <<>> /\ replies[Len(replies)].code = "ask"
          /\ LastIs(waiting, {"AUTH", "CREDS"})
  /\ open /\ phase = "auth" => state = "AUTH_WAIT"
  /\ open => \A i \in 1..Len(replies) : replies[i].code = "ask" =>
       /\ i = Len(replies) /\ queue = <<>> /\ ~Held
       /\ state = "AUTH_WAIT" /\ LastIs(waiting, {"AUTH", "CREDS"})

(* The dot was accepted, and the client has not read it. *)
Granted(w, r) == /\ w # <<>> /\ w[1].cmd = "DOT"
                 /\ r # <<>> /\ r[1].code = "ok"

Handed ==
  /\ \A i \in 1..Len(waiting) : waiting[i].cmd = "DOT" => i = 1
  /\ Granted(waiting, replies) => draft \in stored
  /\ open => \A m \in stored \ accepted : Granted(waiting, replies) /\ draft = m
  /\ accepted \subseteq stored

TameInv == InStep /\ AuthStep /\ Handed

LEMMA ToldTyped ==
  ASSUME NEW d \in Message, NEW t \in Task, NEW code
  PROVE  Told(d, t, code) \in Message
  <1>1. t.line \in Line
    BY DEF Task
  <1>2. [None EXCEPT !.from = t.line] \in Message
    BY <1>1, WithSender
  <1>3. [d EXCEPT !.rcptTo = Append(@, t.line)] \in Message
    BY <1>1, WithRcpt
  <1>4. Told(d, t, code) \in {[None EXCEPT !.from = t.line],
                              [d EXCEPT !.rcptTo = Append(@, t.line)], None, d}
    BY DEF Told
  <1> QED BY <1>2, <1>3, <1>4, NoneTyped

Reply1 == [code : Codes, line : Line]

LEMMA SeesTyped ==
  ASSUME NEW r \in Seq(Reply1), NEW d, NEW w, NEW m, Sees(d, w, r, m)
  PROVE  m \in Message /\ d \in Message
  <1>1. PICK v \in [0..Len(r) -> Message] : v[0] = d /\ v[Len(r)] = m
    BY DEF Sees
  <1>2. 0 \in 0..Len(r) /\ Len(r) \in 0..Len(r)
    OBVIOUS
  <1> QED BY <1>1, <1>2

LEMMA SeesNothing ==
  ASSUME NEW d \in Message, NEW w
  PROVE  \A m : Sees(d, w, <<>>, m) <=> m = d
  <1>1. Len(<<>>) = 0
    OBVIOUS
  <1>2. ASSUME NEW m, Sees(d, w, <<>>, m) PROVE m = d
    BY <1>1, <1>2 DEF Sees
  <1>3. Sees(d, w, <<>>, d)
    <2> DEFINE v == [i \in 0..0 |-> d]
    <2>1. v \in [0..0 -> Message] /\ v[0] = d
      OBVIOUS
    <2> HIDE DEF v
    <2> QED BY <1>1, <2>1 DEF Sees
  <1> QED BY <1>2, <1>3

(* The client waits for one line more. *)
LEMMA SeesWaits ==
  ASSUME NEW w \in Seq(Task), NEW t \in Task, NEW r \in Seq(Reply1), Len(r) <= Len(w),
         NEW d, NEW m, Sees(d, w, r, m)
  PROVE  Sees(d, Append(w, t), r, m)
  <1>1. PICK v \in [0..Len(r) -> Message] :
          /\ v[0] = d /\ v[Len(r)] = m
          /\ \A i \in 1..Len(r) : v[i] = Told(v[i - 1], w[i], r[i].code)
    BY DEF Sees
  <1>2. \A i \in 1..Len(r) : Append(w, t)[i] = w[i]
    OBVIOUS
  <1>3. \A i \in 1..Len(r) : v[i] = Told(v[i - 1], Append(w, t)[i], r[i].code)
    BY <1>1, <1>2
  <1> QED BY <1>1, <1>3 DEF Sees

(* There is one answer more. *)
LEMMA SeesAnswer ==
  ASSUME NEW w \in Seq(Task), NEW r \in Seq(Reply1), Len(r) < Len(w), NEW a \in Reply1,
         NEW d, NEW m, Sees(d, w, r, m)
  PROVE  Sees(d, w, Append(r, a), Told(m, w[Len(r) + 1], a.code))
  <1> DEFINE r2 == Append(r, a)
             n == Told(m, w[Len(r) + 1], a.code)
  <1>1. PICK v \in [0..Len(r) -> Message] :
          /\ v[0] = d /\ v[Len(r)] = m
          /\ \A i \in 1..Len(r) : v[i] = Told(v[i - 1], w[i], r[i].code)
    BY DEF Sees
  <1>2. /\ Len(r2) = Len(r) + 1 /\ r2[Len(r) + 1] = a /\ Len(r) \in Nat
        /\ \A i \in 1..Len(r) : r2[i] = r[i]
        /\ \A i \in 1..Len(r2) : i \in 1..Len(r) \/ i = Len(r) + 1
    BY Appended
  <1>3. n \in Message
    <2>1. w[Len(r) + 1] \in Task
      BY <1>2
    <2> QED BY <2>1, SeesTyped, ToldTyped
  <1> HIDE DEF r2, n
  <1> DEFINE u == [i \in 0..(Len(r) + 1) |-> IF i <= Len(r) THEN v[i] ELSE n]
  <1>4. /\ u \in [0..Len(r2) -> Message]
        /\ \A i \in 0..Len(r) : u[i] = v[i]
        /\ u[Len(r) + 1] = n
    BY <1>2, <1>3
  <1> HIDE DEF u
  <1>5. u[0] = d /\ u[Len(r2)] = n
    BY <1>1, <1>2, <1>4
  <1>6. ASSUME NEW i \in 1..Len(r2) PROVE u[i] = Told(u[i - 1], w[i], r2[i].code)
    <2>1. CASE i \in 1..Len(r)
      <3>1. i \in 0..Len(r) /\ i - 1 \in 0..Len(r)
        BY <2>1, <1>2
      <3> QED BY <2>1, <3>1, <1>1, <1>2, <1>4
    <2>2. CASE i = Len(r) + 1
      <3>1. i - 1 = Len(r) /\ Len(r) \in 0..Len(r)
        BY <2>2, <1>2
      <3> QED BY <2>2, <3>1, <1>1, <1>2, <1>4 DEF n
    <2> QED BY <2>1, <2>2, <1>2
  <1>7. Sees(d, w, r2, n)
    BY <1>4, <1>5, <1>6 DEF Sees
  <1> QED BY <1>7 DEF r2, n

(* The client reads one. *)
LEMMA SeesRead ==
  ASSUME NEW w \in Seq(Task), NEW r \in Seq(Reply1), r # <<>>, w # <<>>, Len(r) <= Len(w),
         NEW d, NEW m, Sees(d, w, r, m)
  PROVE  Sees(Told(d, Head(w), Head(r).code), Tail(w), Tail(r), m)
  <1> DEFINE r2 == Tail(r)
             w2 == Tail(w)
             n == Told(d, Head(w), Head(r).code)
  <1>1. PICK v \in [0..Len(r) -> Message] :
          /\ v[0] = d /\ v[Len(r)] = m
          /\ \A i \in 1..Len(r) : v[i] = Told(v[i - 1], w[i], r[i].code)
    BY DEF Sees
  <1>2. /\ Len(r2) = Len(r) - 1 /\ Head(r) = r[1] /\ Len(r) \in Nat /\ 1 \in 1..Len(r)
        /\ \A i \in 1..Len(r2) : r2[i] = r[i + 1] /\ i + 1 \in 1..Len(r)
    BY Taken
  <1>3. /\ Head(w) = w[1] /\ Len(w2) = Len(w) - 1 /\ Len(w) \in Nat
        /\ \A i \in 1..Len(w2) : w2[i] = w[i + 1]
    BY Taken
  <1>4. v[1] = n
    <2>1. 1 - 1 = 0
      OBVIOUS
    <2>2. v[1] = Told(v[1 - 1], w[1], r[1].code)
      BY <1>1, <1>2
    <2> QED BY <2>1, <2>2, <1>1, <1>2, <1>3
  <1> HIDE DEF r2, w2, n
  <1> DEFINE u == [i \in 0..(Len(r) - 1) |-> v[i + 1]]
  <1>5. u \in [0..Len(r2) -> Message] /\ \A i \in 0..Len(r2) : u[i] = v[i + 1]
    BY <1>2
  <1> HIDE DEF u
  <1>6. u[0] = n /\ u[Len(r2)] = m
    <2>1. 0 \in 0..Len(r2) /\ Len(r2) \in 0..Len(r2) /\ 0 + 1 = 1 /\ Len(r2) + 1 = Len(r)
      BY <1>2
    <2>2. u[0] = v[0 + 1] /\ u[Len(r2)] = v[Len(r2) + 1]
      BY <2>1, <1>5
    <2> QED BY <2>1, <2>2, <1>1, <1>4
  <1>7. ASSUME NEW i \in 1..Len(r2) PROVE u[i] = Told(u[i - 1], w2[i], r2[i].code)
    <2>1. /\ i \in 0..Len(r2) /\ i - 1 \in 0..Len(r2) /\ (i - 1) + 1 = i
          /\ i + 1 \in 1..Len(r) /\ (i + 1) - 1 = i /\ i \in 1..Len(w2)
      BY <1>2, <1>3
    <2>2. u[i] = v[i + 1] /\ u[i - 1] = v[(i - 1) + 1]
      BY <2>1, <1>5
    <2>3. v[i + 1] = Told(v[(i + 1) - 1], w[i + 1], r[i + 1].code)
      BY <2>1, <1>1
    <2> QED BY <2>1, <2>2, <2>3, <1>2, <1>3
  <1>8. Sees(n, w2, r2, m)
    BY <1>5, <1>6, <1>7 DEF Sees
  <1> QED BY <1>8 DEF r2, w2, n

LEMMA IdleHand == ~Held => InHand = transaction
  BY NothingRuns DEF Held, InHand

LEMMA TameText ==
  ASSUME FieldsOK, PatientInv, TameInv, WritesText, sent' \in Line, open,
         UNCHANGED <<tls, open, running, stored, accepted>>
  PROVE  TameInv'
  <1>1. /\ inData /\ phase = "body" /\ waiting = <<>> /\ queue = <<>> /\ ~Held /\ state = "DATA"
    BY DEF WritesText, PatientInv, Grouped, InText
  <1>2. UNCHANGED <<state, inData, queue, replies, waiting, phase>>
    BY DEF WritesText
  <1>3. replies = <<>> /\ replies' = <<>>
    <2>1. Len(replies) = 0
      BY <1>1, ClientTypes DEF PatientInv, Grouped, Busy
    <2> QED BY <1>2, <2>1, ClientTypes
  <1>4. Sees(draft', waiting', replies', InHand')
    <2>1. draft = transaction
      BY <1>1, <1>3, IdleHand, SeesNothing, ClientTypes DEF TameInv, InStep
    <2>2. draft' = transaction' /\ draft' \in Message
      BY <2>1, ClientTypes, TextParts DEF WritesText
    <2>3. InHand' = transaction'
      BY <1>1, NothingRuns DEF InHand, Held
    <2> QED BY <1>3, <2>2, <2>3, SeesNothing
  <1>5. InStep'
    <2>1. Len(queue') = 0 /\ ~Held'
      BY <1>1, <1>2 DEF Held
    <2> QED BY <1>1, <1>2, <1>3, <1>4, <2>1 DEF TameInv, InStep
  <1>6. AuthStep'
    BY <1>1, <1>2, <1>3 DEF TameInv, AuthStep, Held
  <1>7. Handed'
    BY <1>1, <1>2 DEF TameInv, Handed, Granted
  <1> QED BY <1>5, <1>6, <1>7 DEF TameInv

LEMMA TameDot ==
  ASSUME FieldsOK, PatientInv, TameInv, WritesDot, sent' \in Line, open,
         UNCHANGED <<tls, open, running, stored, accepted>>
  PROVE  TameInv'
  <1> DEFINE dot == [cmd |-> "DOT", line |-> sent']
  <1>1. /\ inData /\ phase = "body" /\ waiting = <<>> /\ queue = <<>> /\ ~Held /\ state = "DATA"
    BY DEF WritesDot, PatientInv, Grouped, InText
  <1>2. /\ UNCHANGED <<state, transaction, replies, draft>>
        /\ inData' = FALSE /\ phase' = "command"
        /\ waiting' = <<dot>> /\ queue' = <<dot>>
    BY DEF WritesDot
  <1>3. replies = <<>> /\ replies' = <<>> /\ Len(replies') = 0
    <2>1. Len(replies) = 0
      BY <1>1, ClientTypes DEF PatientInv, Grouped, Busy
    <2> QED BY <1>2, <2>1, ClientTypes
  <1>4. dot.cmd = "DOT"
    OBVIOUS
  <1> HIDE DEF dot
  <1>5. Len(<<dot>>) = 1 /\ <<dot>>[1] = dot
    OBVIOUS
  <1>6. ~Held' /\ Busy' = 0 /\ InHand' = InHand
    BY <1>1, <1>2 DEF Held, Busy, InHand
  <1>7. InStep'
    <2>1. Sees(draft', waiting', replies', InHand')
      BY <1>2, <1>3, <1>6, ClientTypes, SeesNothing DEF TameInv, InStep
    <2>2. \A i \in 1..Len(queue') : queue'[i] = waiting'[Len(replies') + Busy' + i]
      BY <1>2, <1>3, <1>5, <1>6
    <2> QED BY <1>2, <1>3, <1>5, <1>6, <2>1, <2>2 DEF InStep
  <1>8. AuthStep'
    BY <1>1, <1>2, <1>3, <1>4, <1>5 DEF TameInv, AuthStep, Held
  <1>9. Handed'
    BY <1>1, <1>2, <1>3, <1>5 DEF TameInv, Handed, Granted
  <1> QED BY <1>7, <1>8, <1>9 DEF TameInv

LEMMA TameCommand ==
  ASSUME FieldsOK, profile \in Profile, Tame, PatientInv, TameInv,
         NEW cmd \in AllCmds, WritesCommand(cmd), sent' \in Line,
         open, tls # "handshake", UNCHANGED <<tls, open, running, stored, accepted>>
  PROVE  TameInv'
  <1> DEFINE w == [cmd |-> cmd, line |-> sent']
  <1>1. /\ ~inData /\ phase' = "command" /\ cmd # "LONG" /\ cmd # "DOT"
        /\ \A i \in 1..Len(waiting) : waiting[i].cmd \notin EndsGroup
        /\ waiting' = Append(waiting, w)
        /\ UNCHANGED <<state, inData, transaction, draft>>
        /\ \/ phase = "command" /\ cmd \in Commands
           \/ phase = "auth" /\ cmd \in {"CREDS", "CANCEL"}
        /\ EnqueueCommand(CommandOf(cmd)) /\ replies' = replies
    BY DEF WritesCommand, Profile, Commands, Tame
  <1>2. /\ Len(waiting) \in Nat /\ Len(replies) \in Nat /\ Len(queue) \in Nat
        /\ waiting \in Seq(Task) /\ queue \in Seq(Task) /\ replies \in Seq(Reply1)
    BY ClientTypes, FieldTypes DEF Reply1
  <1>3. ~LastIs(waiting, {"AUTH", "CREDS"}) /\ ~LastIs(waiting, {"CREDS", "CANCEL"})
    BY <1>1, <1>2 DEF LastIs, EndsGroup
  <1>4. state = "AUTH_WAIT" <=> phase = "auth"
    BY <1>3 DEF TameInv, AuthStep
  <1>5. CommandOf(cmd) = cmd
    BY <1>1, <1>4 DEF CommandOf, Commands
  <1>6. queue' = Append(queue, w) /\ w \in Task /\ w.cmd = cmd
    BY <1>1, <1>5, TaskTyped DEF EnqueueCommand
  <1> HIDE DEF w
  <1>7. /\ Len(waiting') = Len(waiting) + 1 /\ waiting'[Len(waiting) + 1] = w /\ waiting' # <<>>
        /\ \A i \in 1..Len(waiting) : waiting'[i] = waiting[i]
        /\ \A i \in 1..Len(waiting') : i \in 1..Len(waiting) \/ i = Len(waiting) + 1
    BY <1>1, <1>2, <1>6, Appended
  <1>8. /\ Len(queue') = Len(queue) + 1 /\ queue'[Len(queue) + 1] = w /\ queue' # <<>>
        /\ \A i \in 1..Len(queue) : queue'[i] = queue[i]
        /\ \A i \in 1..Len(queue') : i \in 1..Len(queue) \/ i = Len(queue) + 1
    BY <1>2, <1>6, Appended
  <1>9. /\ Len(waiting) = Len(replies) + Len(queue) + Busy /\ Busy' = Busy /\ Busy \in {0, 1}
        /\ Held => Busy = 1
        /\ Held' <=> Held
    BY DEF PatientInv, Grouped, Busy, Held
  <1>10. InStep'
    <2>1. Sees(draft', waiting', replies', InHand')
      <3>1. Sees(draft, waiting, replies, InHand) /\ Len(replies) <= Len(waiting)
        BY DEF TameInv, InStep
      <3>2. InHand' = InHand
        BY <1>1 DEF InHand
      <3> QED BY <1>1, <1>2, <1>6, <3>1, <3>2, SeesWaits
    <2>2. \A i \in 1..Len(queue') : queue'[i] = waiting'[Len(replies') + Busy' + i]
      <3> SUFFICES ASSUME NEW i \in 1..Len(queue')
                   PROVE  queue'[i] = waiting'[Len(replies) + Busy + i]
        BY <1>1, <1>9
      <3>1. CASE i \in 1..Len(queue)
        <4>1. Len(replies) + Busy + i \in 1..Len(waiting)
          BY <1>2, <1>9, <3>1
        <4>2. queue[i] = waiting[Len(replies) + Busy + i]
          BY <3>1 DEF TameInv, InStep
        <4> QED BY <3>1, <4>1, <4>2, <1>7, <1>8
      <3>2. CASE i = Len(queue) + 1
        <4>1. Len(replies) + Busy + i = Len(waiting) + 1
          BY <1>2, <1>9, <3>2
        <4> QED BY <3>2, <4>1, <1>7, <1>8
      <3> QED BY <3>1, <3>2, <1>8
    <2>3. Held' => running' = running /\ running'.task = waiting'[Len(replies') + 1]
      <3>1. Held => Len(replies) + 1 \in 1..Len(waiting)
        BY <1>2, <1>9
      <3> QED BY <1>1, <1>7, <1>9, <3>1 DEF TameInv, InStep
    <2>4. /\ Len(replies') <= Len(waiting')
          /\ \A i \in 1..Len(replies') : replies'[i].line = waiting'[i].line
      <3>1. \A i \in 1..Len(replies) : i \in 1..Len(waiting)
        BY <1>2 DEF TameInv, InStep
      <3> QED BY <1>1, <1>2, <1>7, <3>1 DEF TameInv, InStep
    <2> QED BY <2>1, <2>2, <2>3, <2>4 DEF InStep
  <1>11. AuthStep'
    <2>1. \A i \in 1..Len(replies) : replies[i].code # "ask"
      BY <1>3 DEF TameInv, AuthStep
    <2>2. \A i \in 1..Len(queue) : queue[i].cmd \notin {"CREDS", "CANCEL"}
      <3> SUFFICES ASSUME NEW i \in 1..Len(queue), queue[i].cmd \in {"CREDS", "CANCEL"}
                   PROVE  FALSE
        OBVIOUS
      <3>1. Len(replies) + Busy + i \in 1..Len(waiting)
        BY <1>2, <1>9
      <3>2. queue[i] = waiting[Len(replies) + Busy + i]
        BY DEF TameInv, InStep
      <3> QED BY <1>1, <3>1, <3>2 DEF EndsGroup
    <2>3. cmd \in {"CREDS", "CANCEL"} => /\ Len(queue') = 1 /\ ~Held' /\ state' = "AUTH_WAIT"
      <3>1. cmd \in {"CREDS", "CANCEL"} => phase = "auth" /\ waiting = <<>>
        BY <1>1 DEF Commands, PatientInv, Grouped
      <3>2. waiting = <<>> => Len(queue) = 0 /\ Busy = 0
        BY <1>2, <1>9
      <3> QED BY <3>1, <3>2, <1>1, <1>4, <1>8, <1>9
    <2>4. \A i \in 1..Len(queue') : queue'[i].cmd \in {"CREDS", "CANCEL"} =>
            Len(queue') = 1 /\ ~Held' /\ state' = "AUTH_WAIT"
      BY <1>6, <1>8, <2>2, <2>3
    <2>5. state' = "AUTH_WAIT" => /\ LastIs(queue', {"CREDS", "CANCEL"})
                                  /\ LastIs(waiting', {"CREDS", "CANCEL"})
      BY <1>1, <1>4, <1>6, <1>7, <1>8 DEF LastIs
    <2> QED BY <1>1, <2>1, <2>4, <2>5 DEF TameInv, AuthStep
  <1>12. Handed'
    <2>1. Granted(waiting', replies') <=> Granted(waiting, replies)
      <3>1. waiting # <<>> => waiting'[1] = waiting[1]
        <4>1. waiting # <<>> => 1 \in 1..Len(waiting)
          BY <1>2
        <4> QED BY <4>1, <1>7
      <3>2. waiting = <<>> => replies = <<>>
        <4>1. waiting = <<>> => Len(replies) = 0
          BY <1>2, <1>9
        <4> QED BY <4>1, <1>2
      <3> QED BY <1>1, <1>7, <3>1, <3>2 DEF Granted
    <2> QED BY <1>1, <1>6, <1>7, <2>1 DEF TameInv, Handed
  <1> QED BY <1>10, <1>11, <1>12 DEF TameInv

LEMMA TameRead ==
  ASSUME FieldsOK, PatientInv, TameInv, ReadReply
  PROVE  TameInv'
  <1>1. /\ replies # <<>> /\ replies' = Tail(replies)
        /\ UNCHANGED <<state, inData, transaction, tls, open, queue, running, stored>>
    BY DEF ReadReply, session
  <1>2. /\ Len(replies') = Len(replies) - 1 /\ Len(replies) \in Nat /\ Len(replies) > 0
        /\ Head(replies) = replies[1] /\ 1 \in 1..Len(replies)
        /\ \A i \in 1..Len(replies') : replies'[i] = replies[i + 1] /\ i + 1 \in 1..Len(replies)
        /\ replies' = <<>> <=> Len(replies) = 1
        /\ replies \in Seq(Reply1) /\ waiting \in Seq(Task) /\ draft \in Message
        /\ Len(waiting) \in Nat /\ Len(queue) \in Nat
    BY <1>1, ClientTypes, Taken DEF Reply1
  <1>3. waiting # <<>> /\ Len(replies) <= Len(waiting)
    BY <1>2 DEF TameInv, InStep
  <1> DEFINE task == Head(waiting)
             code == Head(replies).code
  <1>4. waiting' = Tail(waiting) /\ Believes(task, code)
    BY <1>3 DEF ReadReply
  <1>5. /\ Len(waiting') = Len(waiting) - 1 /\ task = waiting[1]
        /\ \A i \in 1..Len(waiting') : waiting'[i] = waiting[i + 1] /\ i + 1 \in 1..Len(waiting)
        /\ waiting' = <<>> <=> Len(waiting) = 1
        /\ 1 \in 1..Len(waiting)
    BY <1>2, <1>3, <1>4, Taken
  <1>6. phase = "command"
    BY <1>3 DEF PatientInv, Grouped
  <1>7. Busy \in Nat /\ Busy' = Busy /\ InHand' = InHand /\ (Held' <=> Held)
    BY <1>1 DEF Busy, Held, InHand
  <1>8. open => Len(waiting) = Len(replies) + Len(queue) + Busy
    BY DEF PatientInv, Grouped
  <1>9. /\ draft' = Told(draft, Head(waiting), Head(replies).code)
        /\ accepted' = IF code = "ok" /\ task.cmd = "DOT" THEN accepted \cup {draft} ELSE accepted
        /\ phase' = "auth" => task.cmd \in {"AUTH", "CREDS"} /\ code = "ask"
        /\ code = "ask" /\ task.cmd \in {"AUTH", "CREDS"} => phase' = "auth"
    BY <1>4, <1>6 DEF Believes
  <1>10. InStep'
    <2>1. /\ Len(replies') <= Len(waiting')
          /\ \A i \in 1..Len(replies') : replies'[i].line = waiting'[i].line
      <3>1. \A i \in 1..Len(replies') : i \in 1..Len(waiting')
        BY <1>2, <1>3, <1>5
      <3> QED BY <1>2, <1>3, <1>5, <3>1 DEF TameInv, InStep
    <2>2. ASSUME open PROVE Sees(draft', waiting', replies', InHand')
      <3>1. Sees(draft, waiting, replies, InHand)
        BY <2>2 DEF TameInv, InStep
      <3> QED BY <1>1, <1>2, <1>3, <1>4, <1>7, <1>9, <3>1, SeesRead
    <2>3. ASSUME open, Held PROVE running'.task = waiting'[Len(replies') + 1]
      <3>1. running.task = waiting[Len(replies) + 1] /\ Busy = 1
        BY <2>3 DEF TameInv, InStep, Busy
      <3>2. Len(replies) \in 1..Len(waiting')
        BY <1>2, <1>5, <1>8, <2>3, <3>1
      <3>3. Len(replies') + 1 = Len(replies)
        BY <1>2
      <3> QED BY <1>1, <1>5, <3>1, <3>2, <3>3
    <2>4. ASSUME open, NEW i \in 1..Len(queue)
          PROVE  queue'[i] = waiting'[Len(replies') + Busy' + i]
      <3> DEFINE k == Len(replies') + Busy + i
      <3>1. queue[i] = waiting[Len(replies) + Busy + i]
        BY <2>4 DEF TameInv, InStep
      <3>2. k \in 1..Len(waiting') /\ k + 1 = Len(replies) + Busy + i
        BY <1>2, <1>5, <1>7, <1>8, <2>4
      <3> HIDE DEF k
      <3>3. waiting'[k] = waiting[k + 1]
        BY <1>5, <3>2
      <3> QED BY <1>1, <1>7, <3>1, <3>2, <3>3 DEF k
    <2> QED BY <1>1, <1>7, <2>1, <2>2, <2>3, <2>4 DEF InStep
  <1> HIDE DEF task, code
  <1>11. AuthStep'
    <2>1. \A cmds : LastIs(waiting, cmds) /\ Len(waiting) # 1 => LastIs(waiting', cmds)
      BY <1>5 DEF LastIs
    <2>2. ASSUME open, NEW i \in 1..Len(replies'), replies'[i].code = "ask"
          PROVE  /\ i = Len(replies') /\ queue = <<>> /\ ~Held
                 /\ state = "AUTH_WAIT" /\ LastIs(waiting', {"AUTH", "CREDS"})
      <3>1. /\ i + 1 = Len(replies) /\ queue = <<>> /\ ~Held
            /\ state = "AUTH_WAIT" /\ LastIs(waiting, {"AUTH", "CREDS"})
        BY <2>2, <1>2 DEF TameInv, AuthStep
      <3>2. i = Len(replies') /\ Len(replies) > 1
        BY <3>1, <1>2
      <3>3. Len(waiting) # 1
        <4>1. \A a, b \in Nat : a > 1 /\ a <= b => b # 1
          OBVIOUS
        <4> QED BY <4>1, <3>2, <1>2, <1>3
      <3> QED BY <3>1, <3>2, <3>3, <2>1
    <2>3. ASSUME open, phase' = "auth" PROVE state = "AUTH_WAIT"
      <3>1. code = "ask" /\ code = replies[1].code
        BY <1>2, <1>9, <2>3 DEF code
      <3> QED BY <1>2, <2>3, <3>1 DEF TameInv, AuthStep
    <2>4. ASSUME open, state = "AUTH_WAIT", phase' # "auth"
          PROVE  \/ LastIs(queue, {"CREDS", "CANCEL"}) /\ LastIs(waiting', {"CREDS", "CANCEL"})
                 \/ /\ replies' # <<>> /\ replies'[Len(replies')].code = "ask"
                    /\ LastIs(waiting', {"AUTH", "CREDS"})
      <3>1. CASE LastIs(queue, {"CREDS", "CANCEL"}) /\ LastIs(waiting, {"CREDS", "CANCEL"})
        <4>1. Len(queue) > 0
          BY <3>1, FieldTypes DEF LastIs
        <4>2. Len(waiting) # 1
          BY <4>1, <2>4, <1>2, <1>7, <1>8
        <4> QED BY <3>1, <4>2, <2>1
      <3>2. CASE /\ replies[Len(replies)].code = "ask"
                 /\ LastIs(waiting, {"AUTH", "CREDS"})
        <4>1. queue = <<>> /\ Busy = 0
          BY <1>2, <2>4, <3>2 DEF TameInv, AuthStep, Busy
        <4>2. Len(waiting) = Len(replies)
          BY <4>1, <1>2, <1>8, <2>4
        <4>3. Len(replies) # 1
          <5>1. Len(replies) = 1 => code = "ask" /\ task.cmd \in {"AUTH", "CREDS"}
            BY <3>2, <4>2, <1>2, <1>5 DEF LastIs, code
          <5> QED BY <5>1, <1>9, <2>4
        <4>4. LastIs(waiting', {"AUTH", "CREDS"})
          BY <3>2, <4>2, <4>3, <2>1
        <4>5. Len(replies') \in 1..Len(replies') /\ Len(replies') + 1 = Len(replies)
          BY <4>3, <1>2
        <4> QED BY <3>2, <4>3, <4>4, <4>5, <1>2
      <3> QED BY <2>4, <3>1, <3>2, <1>6 DEF TameInv, AuthStep
    <2> QED BY <1>1, <1>7, <2>2, <2>3, <2>4 DEF TameInv, AuthStep
  <1>12. Handed'
    <2>1. \A i \in 1..Len(waiting') : waiting'[i].cmd # "DOT"
      <3> SUFFICES ASSUME NEW i \in 1..Len(waiting'), waiting'[i].cmd = "DOT" PROVE FALSE
        OBVIOUS
      <3>1. i + 1 = 1
        BY <1>5 DEF TameInv, Handed
      <3> QED BY <3>1
    <2>2. ~Granted(waiting', replies')
      <3>1. waiting' # <<>> => 1 \in 1..Len(waiting')
        BY <1>5
      <3> QED BY <2>1, <3>1 DEF Granted
    <2>3. (code = "ok" /\ task.cmd = "DOT") <=> Granted(waiting, replies)
      BY <1>1, <1>2, <1>3, <1>5 DEF Granted, code
    <2> QED BY <1>1, <1>9, <2>1, <2>2, <2>3 DEF TameInv, Handed
  <1> QED BY <1>10, <1>11, <1>12 DEF TameInv

(* What a handler answers, and the transaction then. *)
Suits(cmd, code) ==
  \/ code = "ok" /\ cmd \in {"EHLO", "RSET"} /\ transaction' = None
  \/ code = "ok" /\ cmd = "NOOP" /\ transaction' = transaction
  \/ code = "no" /\ cmd # "DOT" /\ transaction' = transaction
  \/ code = "no" /\ cmd = "DOT" /\ transaction' = None
  \/ code = "ask" /\ cmd \in {"AUTH", "CREDS"} /\ state' = "AUTH_WAIT" /\ transaction' = transaction
  \/ code = "tls" /\ transaction' = None
  \/ code = "go" /\ cmd = "DATA" /\ transaction' = transaction
  \/ code = "bye" /\ ~open'

Keeps(cmd, message) ==
  /\ cmd # "NOOP"
  /\ \/ cmd = "DOT" /\ message = transaction
     \/ cmd # "DOT" /\ transaction' = transaction

LEMMA HandlerShape ==
  ASSUME FieldsOK, TextAfter, AuthStep, Handle, open
  PROVE  \/ \E code \in Codes : Answered(code) /\ Suits(Head(queue).cmd, code)
         \/ \E message : Awaited(message) /\ Keeps(Head(queue).cmd, message)
  <1> DEFINE cmd == Head(queue).cmd
             Goal == \/ \E code \in Codes : Answered(code) /\ Suits(cmd, code)
                     \/ \E message : Awaited(message) /\ Keeps(cmd, message)
  <1>1. HandlerStep(cmd) /\ state # "QUIT" /\ queue # <<>>
    BY HandlerSteps DEF TextAfter
  <1>2. /\ state = "READY" => transaction = None
        /\ cmd = "CREDS" => state = "AUTH_WAIT"
    <2>1. Head(queue) = queue[1] /\ 1 \in 1..Len(queue)
      BY <1>1, FieldTypes, Taken
    <2> QED BY <2>1 DEF AuthStep
  <1>3. \A code : Answered(code) /\ Suits(cmd, code) /\ code \in Codes => Goal
    OBVIOUS
  <1>4. \A message : Awaited(message) /\ Keeps(cmd, message) => Goal
    OBVIOUS
  <1>5. SUFFICES Goal
    OBVIOUS
  <1> HIDE DEF cmd, Goal
  <1>6. \A code : Answered(code) /\ Suits(cmd, code) => Goal
    BY <1>3 DEF Suits, Codes
  <1>7. CASE /\ cmd = "EHLO" /\ Answered("ok") /\ transaction' = None
    BY <1>6, <1>7 DEF Suits
  <1>8. CASE cmd # "DOT" /\ Answered("no") /\ transaction' = transaction
    BY <1>6, <1>8 DEF Suits
  <1>9. CASE cmd = "AUTH" /\ Answered("ask") /\ state' = "AUTH_WAIT" /\ transaction' = transaction
    BY <1>6, <1>9 DEF Suits
  <1>10. CASE cmd = "CREDS" /\ Answered("ask") /\ Unmoved
    BY <1>2, <1>6, <1>10 DEF Suits, Unmoved
  <1>11. CASE state = "READY" /\ Answered("tls") /\ transaction' = transaction
    BY <1>2, <1>6, <1>11 DEF Suits
  <1>12. CASE cmd = "DATA" /\ Answered("go") /\ transaction' = transaction
    BY <1>6, <1>12 DEF Suits
  <1>13. CASE cmd = "DOT" /\ transaction = None /\ Answered("no") /\ Unmoved
    BY <1>6, <1>13 DEF Suits, Unmoved
  <1>14. CASE cmd = "RSET" /\ Answered("ok") /\ transaction' = None
    BY <1>6, <1>14 DEF Suits
  <1>15. CASE cmd = "NOOP" /\ Answered("ok") /\ transaction' = transaction
    BY <1>6, <1>15 DEF Suits
  <1>16. CASE Answered("bye") /\ open' = FALSE
    BY <1>6, <1>16 DEF Suits
  <1>17. CASE cmd \in {"AUTH", "MAIL", "CREDS", "RCPT"} /\ Awaited(None) /\ transaction' = transaction
    BY <1>4, <1>17 DEF Keeps
  <1>18. CASE cmd = "DOT" /\ Awaited(transaction)
    BY <1>4, <1>18 DEF Keeps
  <1> QED BY <1>1, <1>7, <1>8, <1>9, <1>10, <1>11, <1>12, <1>13, <1>14, <1>15, <1>16, <1>17, <1>18
          DEF HandlerStep, Unmoved

LEMMA HandlerHand ==
  ASSUME FieldsOK, TextAfter, AuthStep, Handle, open
  PROVE  \/ \E code \in Codes :
              /\ Answered(code) /\ Suits(Head(queue).cmd, code)
              /\ open' => InHand' = Told(InHand, Head(queue), code)
         \/ /\ Held' /\ replies' = replies /\ InHand' = InHand
            /\ running'.task = Head(queue)
  <1> DEFINE cmd == Head(queue).cmd
  <1>1. InHand = transaction
    BY HandlerSteps, IdleHand
  <1>2. ASSUME NEW code \in Codes, Answered(code), Suits(cmd, code)
        PROVE  open' => InHand' = Told(InHand, Head(queue), code)
    <2>1. InHand' = transaction'
      BY <1>2, NothingRuns DEF Answered, InHand
    <2> HIDE DEF cmd
    <2>2. open' => transaction' = Told(transaction, Head(queue), code)
      BY <1>2 DEF Suits, Told, cmd
    <2> QED BY <1>1, <2>1, <2>2
  <1>3. ASSUME NEW m, Awaited(m), Keeps(cmd, m)
        PROVE  /\ Held' /\ replies' = replies /\ InHand' = InHand
               /\ running'.task = Head(queue)
    <2>1. running'.task = Head(queue) /\ running'.message = m /\ replies' = replies
      BY <1>3 DEF Awaited
    <2>2. Held'
      BY <1>3, <2>1, NothingRuns DEF Held, Keeps
    <2>3. InHand' = transaction
      BY <1>3, <2>1 DEF InHand, Keeps
    <2> QED BY <1>1, <2>1, <2>2, <2>3
  <1>4. CASE \E code \in Codes : Answered(code) /\ Suits(cmd, code)
    BY <1>2, <1>4
  <1>5. CASE \E m : Awaited(m) /\ Keeps(cmd, m)
    BY <1>3, <1>5
  <1> QED BY <1>4, <1>5, HandlerShape

(* The head of the queue is the next line the client has no answer to. *)
LEMMA HandlerTurn ==
  ASSUME FieldsOK, PatientInv, TextAfter, TameInv, Handle, open
  PROVE  /\ Head(queue) = waiting[Len(replies) + 1] /\ Head(queue) = queue[1]
         /\ Len(waiting) = Len(replies) + Len(queue) /\ Len(replies) < Len(waiting)
         /\ phase = "command" /\ \A i \in 1..Len(replies) : replies[i].code # "ask"
         /\ Head(queue).cmd \in EndsGroup => Len(queue) = 1 /\ LastIs(waiting, {Head(queue).cmd})
         /\ state = "AUTH_WAIT" <=> Head(queue).cmd \in {"CREDS", "CANCEL"}
  <1>1. ~Held /\ queue # <<>> /\ Busy = 0
    BY HandlerSteps DEF Busy
  <1>2. /\ Head(queue) = queue[1] /\ Len(queue) \in Nat /\ 1 \in 1..Len(queue)
        /\ Len(replies) \in Nat /\ Len(waiting) \in Nat
    BY <1>1, FieldTypes, ClientTypes, Taken
  <1>3. Len(waiting) = Len(replies) + Len(queue)
    BY <1>1, <1>2 DEF PatientInv, Grouped
  <1>4. Len(replies) < Len(waiting) /\ Len(replies) + 1 \in 1..Len(waiting) /\ waiting # <<>>
    BY <1>2, <1>3
  <1>5. Head(queue) = waiting[Len(replies) + 1]
    <2>1. queue[1] = waiting[Len(replies) + Busy + 1]
      BY <1>2 DEF TameInv, InStep
    <2> QED BY <1>1, <1>2, <2>1
  <1>6. phase = "command"
    BY <1>4 DEF PatientInv, Grouped
  <1>7. \A i \in 1..Len(replies) : replies[i].code # "ask"
    BY <1>1 DEF TameInv, AuthStep
  <1>8. Head(queue).cmd \in EndsGroup => Len(queue) = 1 /\ LastIs(waiting, {Head(queue).cmd})
    <2>1. Head(queue).cmd \in EndsGroup => Len(replies) + 1 = Len(waiting)
      BY <1>4, <1>5 DEF PatientInv, Grouped
    <2>2. Head(queue).cmd \in EndsGroup => Len(queue) = 1
      <3>1. \A a, b, c \in Nat : a + 1 = b /\ b = a + c => c = 1
        OBVIOUS
      <3> QED BY <3>1, <1>2, <1>3, <2>1
    <2>3. Head(queue).cmd \in EndsGroup => LastIs(waiting, {Head(queue).cmd})
      BY <1>4, <1>5, <2>1 DEF LastIs
    <2> QED BY <2>2, <2>3
  <1>9. state = "AUTH_WAIT" => Head(queue).cmd \in {"CREDS", "CANCEL"}
    <2> SUFFICES ASSUME state = "AUTH_WAIT" PROVE Head(queue).cmd \in {"CREDS", "CANCEL"}
      OBVIOUS
    <2>1. replies # <<>> => Len(replies) \in 1..Len(replies)
      BY <1>2, ClientTypes
    <2>2. LastIs(queue, {"CREDS", "CANCEL"})
      BY <1>6, <1>7, <2>1 DEF TameInv, AuthStep
    <2>3. Len(queue) \in 1..Len(queue) /\ queue[Len(queue)].cmd \in {"CREDS", "CANCEL"}
      BY <1>2, <2>2 DEF LastIs
    <2>4. Len(queue) = 1
      BY <2>3 DEF TameInv, AuthStep
    <2> QED BY <1>2, <2>3, <2>4
  <1>10. Head(queue).cmd \in {"CREDS", "CANCEL"} => state = "AUTH_WAIT"
    BY <1>2 DEF TameInv, AuthStep
  <1> QED BY <1>2, <1>3, <1>4, <1>5, <1>6, <1>7, <1>8, <1>9, <1>10

LEMMA TameHandler ==
  ASSUME FieldsOK, PatientInv, TextAfter, TameInv, Handle
  PROVE  TameInv'
  <1> DEFINE t == Head(queue)
  <1>1. /\ HandlerStep(t.cmd) /\ ~Held /\ queue # <<>> /\ queue' = Tail(queue) /\ stored' = stored
        /\ UNCHANGED <<waiting, phase, sent, draft, accepted>>
    BY HandlerSteps DEF client
  <1>2. /\ Len(queue') = Len(queue) - 1 /\ t = queue[1] /\ t \in Task /\ t.line \in Line
        /\ \A i \in 1..Len(queue') : queue'[i] = queue[i + 1] /\ i + 1 \in 1..Len(queue)
        /\ Len(queue) \in Nat /\ 1 \in 1..Len(queue)
        /\ queue' = <<>> <=> Len(queue) = 1
        /\ replies \in Seq(Reply1) /\ waiting \in Seq(Task)
        /\ Len(replies) \in Nat /\ Len(waiting) \in Nat
    <2>1. /\ Len(queue') = Len(queue) - 1 /\ t = queue[1] /\ t \in Task
          /\ \A i \in 1..Len(queue') : queue'[i] = queue[i + 1] /\ i + 1 \in 1..Len(queue)
          /\ Len(queue) \in Nat /\ 1 \in 1..Len(queue)
          /\ queue' = <<>> <=> Len(queue) = 1
      BY <1>1, FieldTypes, Taken
    <2>2. t.line \in Line
      BY <2>1 DEF Task
    <2> QED BY <2>1, <2>2, ClientTypes DEF Reply1
  <1>3. /\ tls # "handshake"
        /\ running' = NotRunning \/ running'.task = t
    BY <1>1, HandlerEnvelope DEF PatientInv, Envelope
  <1>4. open' => open
    BY <1>1, <1>2 DEF HandlerStep, Unmoved
  <1>5. ASSUME ~open PROVE replies' = replies
    BY <1>1, <1>5 DEF HandlerStep, Answered, Awaited, Answers, Reply
  <1>6. ASSUME open
        PROVE  /\ t = waiting[Len(replies) + 1]
               /\ Len(waiting) = Len(replies) + Len(queue) /\ Len(replies) < Len(waiting)
               /\ phase = "command" /\ \A i \in 1..Len(replies) : replies[i].code # "ask"
               /\ t.cmd \in EndsGroup => Len(queue) = 1 /\ LastIs(waiting, {t.cmd})
               /\ state = "AUTH_WAIT" <=> t.cmd \in {"CREDS", "CANCEL"}
    BY <1>6, HandlerTurn
  <1>7. ASSUME open
        PROVE  \/ \E code \in Codes :
                    /\ Suits(t.cmd, code) /\ ~Held'
                    /\ replies' = Append(replies, [code |-> code, line |-> t.line])
                    /\ open' => InHand' = Told(InHand, t, code)
               \/ /\ Held' /\ replies' = replies /\ InHand' = InHand
                  /\ running'.task = t
    <2>1. \A code \in Codes : Answered(code) =>
            ~Held' /\ replies' = Append(replies, [code |-> code, line |-> t.line])
      BY <1>7 DEF Answered, Answers, Reply, Held
    <2> QED BY <1>7, <2>1, HandlerHand DEF TameInv
  <1>8. ASSUME open, NEW code \in Codes,
               replies' = Append(replies, [code |-> code, line |-> t.line])
        PROVE  /\ Len(replies') = Len(replies) + 1 /\ replies' # <<>>
               /\ replies'[Len(replies) + 1] = [code |-> code, line |-> t.line]
               /\ \A i \in 1..Len(replies) : replies'[i] = replies[i]
               /\ \A i \in 1..Len(replies') : i \in 1..Len(replies) \/ i = Len(replies) + 1
               /\ [code |-> code, line |-> t.line] \in Reply1
    <2>1. [code |-> code, line |-> t.line] \in Reply1
      BY <1>2 DEF Reply1
    <2> QED BY <1>2, <1>8, <2>1, Appended
  <1> HIDE DEF t
  <1>9. InStep'
    <2>1. /\ Len(replies') <= Len(waiting')
          /\ \A i \in 1..Len(replies') : replies'[i].line = waiting'[i].line
      <3>1. CASE replies' = replies
        BY <1>1, <3>1 DEF TameInv, InStep
      <3>2. ASSUME open, NEW code \in Codes,
                   replies' = Append(replies, [code |-> code, line |-> t.line])
            PROVE  /\ Len(replies') <= Len(waiting')
                   /\ \A i \in 1..Len(replies') : replies'[i].line = waiting'[i].line
        BY <1>1, <1>2, <1>6, <1>8, <3>2 DEF TameInv, InStep
      <3> QED BY <1>5, <1>7, <3>1, <3>2
    <2>2. ASSUME open'
          PROVE  Len(replies') + Busy' = Len(replies) + 1
      <3>1. ASSUME NEW code \in Codes, ~Held',
                   replies' = Append(replies, [code |-> code, line |-> t.line])
            PROVE  Len(replies') + Busy' = Len(replies) + 1
        BY <1>2, <1>4, <1>8, <2>2, <3>1 DEF Busy
      <3>2. Held' /\ replies' = replies => Len(replies') + Busy' = Len(replies) + 1
        BY DEF Busy
      <3> QED BY <1>4, <1>7, <2>2, <3>1, <3>2
    <2>3. ASSUME open', NEW i \in 1..Len(queue')
          PROVE  queue'[i] = waiting'[Len(replies') + Busy' + i]
      <3>1. queue'[i] = queue[i + 1] /\ i + 1 \in 1..Len(queue)
        BY <1>2
      <3>2. queue[i + 1] = waiting[Len(replies) + Busy + (i + 1)]
        BY <1>4, <2>3, <3>1 DEF TameInv, InStep
      <3>3. Len(replies) + Busy + (i + 1) = (Len(replies) + 1) + i
        BY <1>1, <1>2 DEF Busy
      <3> QED BY <1>1, <2>2, <2>3, <3>1, <3>2, <3>3
    <2>4. ASSUME open', Held'
          PROVE  running'.task = waiting'[Len(replies') + 1]
      BY <1>1, <1>4, <1>6, <1>7, <2>4
    <2>5. ASSUME open' PROVE Sees(draft', waiting', replies', InHand')
      <3>1. Sees(draft, waiting, replies, InHand)
        BY <1>4, <2>5 DEF TameInv, InStep
      <3>2. ASSUME NEW code \in Codes,
                   replies' = Append(replies, [code |-> code, line |-> t.line]),
                   InHand' = Told(InHand, t, code)
            PROVE  Sees(draft, waiting, replies', InHand')
        <4>1. [code |-> code, line |-> t.line] \in Reply1
          BY <1>4, <1>8, <2>5, <3>2
        <4>2. t = waiting[Len(replies) + 1] /\ Len(replies) < Len(waiting)
          BY <1>4, <1>6, <2>5
        <4>3. [code |-> code, line |-> t.line].code = code
          OBVIOUS
        <4>4. Sees(draft, waiting, Append(replies, [code |-> code, line |-> t.line]),
                   Told(InHand, waiting[Len(replies) + 1], [code |-> code, line |-> t.line].code))
          BY <1>2, <3>1, <4>1, <4>2, SeesAnswer
        <4> QED BY <3>2, <4>2, <4>3, <4>4
      <3> QED BY <1>1, <1>4, <1>7, <2>5, <3>1, <3>2
    <2> QED BY <2>1, <2>3, <2>4, <2>5 DEF InStep
  <1>10. AuthStep'
    <2>0. /\ state = "READY" => transaction = None
          /\ state \in {"INIT", "READY", "AUTH_WAIT"} => transaction = None
          /\ t.cmd \in {"CREDS", "CANCEL"} => state = "AUTH_WAIT" /\ Len(queue) = 1
      BY <1>2 DEF TameInv, AuthStep
    <2>1. state' \in {"INIT", "READY", "AUTH_WAIT"} => transaction' = None
      BY <1>1, <2>0 DEF HandlerStep, Unmoved
    <2>2. running'.task.cmd \in {"MAIL", "AUTH", "CREDS", "DOT"} => state' = "READY"
      <3>1. running' # NotRunning => t.cmd \in {"MAIL", "AUTH", "CREDS", "DOT", "RCPT"} /\ (t.cmd = "RCPT" \/ state' = "READY")
        BY <1>1 DEF HandlerStep, Answered, Unmoved
      <3> QED BY <1>3, <3>1, NothingRuns
    <2>3. tls' = "handshake" => state' = "READY"
      BY <1>1, <1>3 DEF HandlerStep, Unmoved
    <2>4. \A i \in 1..Len(queue') : queue'[i].cmd \notin {"CREDS", "CANCEL"}
      <3> SUFFICES ASSUME NEW i \in 1..Len(queue'), queue[i + 1].cmd \in {"CREDS", "CANCEL"}
                   PROVE  FALSE
        BY <1>2
      <3>1. Len(queue) = 1
        BY <1>2 DEF TameInv, AuthStep
      <3> QED BY <1>2, <3>1
    <2>5. ASSUME open', state' = "AUTH_WAIT"
          PROVE  /\ t.cmd \in {"AUTH", "CREDS"}
                 /\ replies' # <<>> /\ replies'[Len(replies')].code = "ask"
      <3>1. open /\ state # "QUIT"
        BY <1>1, <1>4, <2>5 DEF HandlerStep, Unmoved
      <3>2. t.cmd \in {"AUTH", "CREDS"} /\ Answered("ask")
        BY <1>1, <1>6, <2>5, <3>1 DEF HandlerStep, Unmoved
      <3>3. replies' = Append(replies, [code |-> "ask", line |-> t.line])
        BY <3>1, <3>2 DEF Answered, Answers, Reply, t
      <3> QED BY <1>8, <3>1, <3>2, <3>3 DEF Codes
    <2>6. ASSUME open', NEW i \in 1..Len(replies'), replies'[i].code = "ask"
          PROVE  /\ i = Len(replies') /\ queue' = <<>> /\ ~Held'
                 /\ state' = "AUTH_WAIT" /\ LastIs(waiting', {"AUTH", "CREDS"})
      <3>1. ~(Held' /\ replies' = replies)
        BY <1>4, <1>6, <2>6
      <3>2. PICK code \in Codes : /\ Suits(t.cmd, code) /\ ~Held'
                                  /\ replies' = Append(replies, [code |-> code, line |-> t.line])
        BY <1>4, <1>7, <2>6, <3>1
      <3>3. i = Len(replies) + 1 /\ i = Len(replies') /\ code = "ask"
        BY <1>4, <1>6, <1>8, <2>6, <3>2
      <3>4. t.cmd \in {"AUTH", "CREDS"} /\ state' = "AUTH_WAIT"
        BY <3>2, <3>3 DEF Suits
      <3>5. Len(queue) = 1 /\ LastIs(waiting, {t.cmd})
        BY <1>4, <1>6, <2>6, <3>4 DEF EndsGroup
      <3> QED BY <1>1, <1>2, <3>2, <3>3, <3>4, <3>5 DEF LastIs
    <2>7. ASSUME open', state' = "AUTH_WAIT" PROVE LastIs(waiting', {"AUTH", "CREDS"})
      <3>1. LastIs(waiting, {t.cmd}) /\ t.cmd \in {"AUTH", "CREDS"}
        BY <1>4, <1>6, <2>5, <2>7 DEF EndsGroup
      <3> QED BY <1>1, <3>1 DEF LastIs
    <2>8. open' => phase' # "auth"
      BY <1>1, <1>4, <1>6
    <2> QED BY <2>1, <2>2, <2>3, <2>4, <2>5, <2>6, <2>7, <2>8 DEF AuthStep
  <1>11. Handed'
    <2>1. ASSUME Granted(waiting, replies) PROVE Granted(waiting, replies')
      <3>1. ASSUME open, NEW code \in Codes,
                   replies' = Append(replies, [code |-> code, line |-> t.line])
            PROVE  replies' # <<>> /\ replies'[1] = replies[1]
        <4>1. 1 \in 1..Len(replies)
          BY <1>2, <2>1 DEF Granted
        <4> QED BY <3>1, <4>1, <1>8
      <3> QED BY <1>5, <1>7, <2>1, <3>1 DEF Granted
    <2>2. ASSUME Granted(waiting, replies'), ~Granted(waiting, replies) PROVE FALSE
      <3>1. open /\ replies' # replies
        BY <1>5, <2>2
      <3>2. PICK code \in Codes : /\ Suits(t.cmd, code)
                                  /\ replies' = Append(replies, [code |-> code, line |-> t.line])
        BY <1>7, <3>1
      <3>3. replies = <<>>
        <4>1. replies # <<>> => 1 \in 1..Len(replies)
          BY <1>2
        <4>2. replies # <<>> => replies'[1] = replies[1]
          BY <1>8, <3>1, <3>2, <4>1
        <4> QED BY <2>2, <4>2 DEF Granted
      <3>4. Len(replies) = 0
        BY <3>3
      <3>5. t = waiting[1] /\ replies'[1].code = code
        BY <1>6, <1>8, <3>1, <3>2, <3>4
      <3>6. t.cmd = "DOT" /\ code = "ok"
        BY <2>2, <3>5 DEF Granted
      <3> QED BY <3>2, <3>6 DEF Suits
    <2> QED BY <1>1, <1>4, <2>1, <2>2 DEF TameInv, Handed
  <1> QED BY <1>9, <1>10, <1>11 DEF TameInv

LEMMA TameFinish ==
  ASSUME FieldsOK, PatientInv, TameInv, Finish
  PROVE  TameInv'
  <1> DEFINE t == running.task
  <1>1. /\ FinishStep(t)
        /\ t.cmd \in {"AUTH", "CREDS", "MAIL", "RCPT", "DOT"}
        /\ t.line > 0 /\ running' = NotRunning
        /\ UNCHANGED <<inData, tls, open, queue, waiting, phase, sent, draft, accepted>>
    BY FinishSteps DEF client
  <1>2. /\ Held /\ ~Held' /\ Busy = 1 /\ Busy' = 0 /\ running'.task.cmd = "NOOP"
        /\ InHand' = transaction'
    BY <1>1, NothingRuns DEF Held, Busy, InHand
  <1>3. /\ t \in Task /\ t.line \in Line
        /\ replies \in Seq(Reply1) /\ waiting \in Seq(Task) /\ draft \in Message
        /\ Len(replies) \in Nat /\ Len(waiting) \in Nat /\ Len(queue) \in Nat
    BY FieldTypes, ClientTypes DEF Reply1
  <1>4. /\ t.cmd # "RCPT" => state = "READY" /\ transaction = None
        /\ t.cmd = "RCPT" => state \in {"MAIL", "RCPT"} /\ transaction # None
    <2>1. t.cmd # "RCPT" => state = "READY"
      BY <1>1 DEF TameInv, AuthStep
    <2>2. state = "READY" => transaction = None
      BY DEF TameInv, AuthStep
    <2>3. t.cmd = "RCPT" => state \in {"MAIL", "RCPT"} /\ transaction # None
      BY NoneParts DEF PatientInv, Envelope
    <2> QED BY <2>1, <2>2, <2>3
  <1>5. ASSUME ~open PROVE replies' = replies
    BY <1>1, <1>5 DEF FinishStep, Reply
  <1>6. ASSUME open
        PROVE  /\ t = waiting[Len(replies) + 1] /\ Len(replies) + 1 \in 1..Len(waiting)
               /\ phase = "command" /\ Sees(draft, waiting, replies, InHand)
               /\ \A i \in 1..Len(queue) : queue[i] = waiting[Len(replies) + 1 + i]
               /\ \A i \in 1..Len(replies) : replies[i].code # "ask"
    <2>1. Len(waiting) = Len(replies) + Len(queue) + 1
      BY <1>2, <1>6 DEF PatientInv, Grouped
    <2>2. Len(replies) + 1 \in 1..Len(waiting) /\ waiting # <<>>
      BY <1>3, <2>1
    <2>3. phase = "command"
      BY <2>2 DEF PatientInv, Grouped
    <2>4. \A i \in 1..Len(replies) : replies[i].code # "ask"
      BY <1>2, <1>6 DEF TameInv, AuthStep
    <2> QED BY <1>2, <1>6, <2>2, <2>3, <2>4 DEF TameInv, InStep
  <1>7. PICK code \in {"ok", "no"} :
          /\ Reply(code, t.line) /\ transaction' = Told(InHand, t, code)
          /\ \/ code = "ok" /\ t.cmd = "DOT" /\ stored' = stored \cup {running.message}
             \/ ~(code = "ok" /\ t.cmd = "DOT") /\ stored' = stored
    <2> DEFINE Goal == \E code \in {"ok", "no"} :
          /\ Reply(code, t.line) /\ transaction' = Told(InHand, t, code)
          /\ \/ code = "ok" /\ t.cmd = "DOT" /\ stored' = stored \cup {running.message}
             \/ ~(code = "ok" /\ t.cmd = "DOT") /\ stored' = stored
    <2>1. ASSUME NEW code \in {"ok", "no"},
                 Reply(code, t.line), transaction' = Told(InHand, t, code),
                 \/ code = "ok" /\ t.cmd = "DOT" /\ stored' = stored \cup {running.message}
                 \/ ~(code = "ok" /\ t.cmd = "DOT") /\ stored' = stored
          PROVE  Goal
      BY <2>1
    <2>2. SUFFICES Goal
      OBVIOUS
    <2>3. t.cmd # "DOT" => InHand = transaction
      BY DEF InHand
    <2> HIDE DEF Goal, t
    <2>4. CASE Reply("no", t.line) /\ transaction' = transaction /\ stored' = stored
      <3>1. transaction' = Told(InHand, t, "no")
        BY <1>1, <1>4, <2>3, <2>4 DEF Told
      <3> QED BY <2>1, <2>4, <3>1
    <2>5. CASE /\ t.cmd \in {"AUTH", "CREDS"} /\ Reply("ok", t.line)
               /\ transaction' = transaction /\ stored' = stored
      <3>1. transaction' = Told(InHand, t, "ok")
        BY <2>3, <2>5 DEF Told
      <3> QED BY <2>1, <2>5, <3>1
    <2>6. CASE /\ t.cmd = "MAIL" /\ Reply("ok", t.line) /\ stored' = stored
               /\ transaction' = [None EXCEPT !.from = t.line]
      <3>1. transaction' = Told(InHand, t, "ok")
        BY <2>6 DEF Told
      <3> QED BY <2>1, <2>6, <3>1
    <2>7. CASE /\ t.cmd = "RCPT" /\ Reply("ok", t.line) /\ stored' = stored
               /\ transaction' = [transaction EXCEPT !.rcptTo = Append(@, t.line)]
      <3>1. transaction' = Told(InHand, t, "ok")
        BY <2>3, <2>7 DEF Told
      <3> QED BY <2>1, <2>7, <3>1
    <2>8. CASE /\ t.cmd = "DOT" /\ Reply("ok", t.line) /\ transaction' = transaction
               /\ stored' = stored \cup {running.message}
      <3>1. transaction' = Told(InHand, t, "ok")
        BY <1>4, <2>8 DEF Told
      <3> QED BY <2>1, <2>8, <3>1
    <2> QED BY <1>1, <1>4, <2>4, <2>5, <2>6, <2>7, <2>8 DEF FinishStep
  <1>8. ASSUME open
        PROVE  /\ replies' = Append(replies, [code |-> code, line |-> t.line])
               /\ [code |-> code, line |-> t.line] \in Reply1
               /\ Len(replies') = Len(replies) + 1 /\ replies' # <<>>
               /\ replies'[Len(replies) + 1] = [code |-> code, line |-> t.line]
               /\ \A i \in 1..Len(replies) : replies'[i] = replies[i]
               /\ \A i \in 1..Len(replies') : i \in 1..Len(replies) \/ i = Len(replies) + 1
    <2>1. replies' = Append(replies, [code |-> code, line |-> t.line])
      BY <1>7, <1>8, Zenon DEF Reply
    <2>2. [code |-> code, line |-> t.line] \in Reply1
      BY <1>3, <1>7 DEF Reply1, Codes
    <2> QED BY <1>3, <2>1, <2>2, Appended
  <1>9. ASSUME open, t.cmd = "DOT"
        PROVE  replies = <<>> /\ draft = running.message
    <2>1. Len(replies) + 1 = 1
      BY <1>6, <1>9 DEF TameInv, Handed
    <2>2. replies = <<>>
      BY <1>3, <2>1
    <2>3. InHand = running.message
      BY <1>9 DEF InHand
    <2> QED BY <1>3, <1>6, <1>9, <2>2, <2>3, SeesNothing
  <1> HIDE DEF t
  <1>10. InStep'
    <2>1. /\ Len(replies') <= Len(waiting')
          /\ \A i \in 1..Len(replies') : replies'[i].line = waiting'[i].line
      <3>1. CASE ~open
        BY <1>1, <1>5, <3>1 DEF TameInv, InStep
      <3>2. CASE open
        <4>1. \A i \in 1..Len(replies) : replies'[i].line = waiting[i].line
          BY <1>8, <3>2 DEF TameInv, InStep
        <4>2. replies'[Len(replies) + 1].line = waiting[Len(replies) + 1].line
          BY <1>6, <1>8, <3>2
        <4>3. Len(replies') <= Len(waiting)
          <5>1. Len(replies) + 1 <= Len(waiting)
            BY <1>3, <1>6, <3>2
          <5> QED BY <5>1, <1>8, <3>2
        <4> QED BY <1>1, <1>8, <3>2, <4>1, <4>2, <4>3
      <3> QED BY <3>1, <3>2
    <2>2. ASSUME open', NEW i \in 1..Len(queue')
          PROVE  queue'[i] = waiting'[Len(replies') + Busy' + i]
      <3>1. Len(replies') + Busy' + i = Len(replies) + 1 + i
        <4>1. Len(replies') = Len(replies) + 1 /\ i \in Nat
          BY <1>1, <1>3, <1>8, <2>2
        <4> QED BY <4>1, <1>2, <1>3
      <3> QED BY <1>1, <1>6, <2>2, <3>1
    <2>3. ASSUME open' PROVE Sees(draft', waiting', replies', InHand')
      <3>1. /\ t = waiting[Len(replies) + 1] /\ Len(replies) < Len(waiting)
            /\ Sees(draft, waiting, replies, InHand)
        BY <1>1, <1>3, <1>6, <2>3
      <3>2. [code |-> code, line |-> t.line].code = code
        OBVIOUS
      <3>3. Sees(draft, waiting, Append(replies, [code |-> code, line |-> t.line]),
                 Told(InHand, waiting[Len(replies) + 1], [code |-> code, line |-> t.line].code))
        BY <1>1, <1>3, <1>8, <2>3, <3>1, SeesAnswer
      <3> QED BY <1>1, <1>2, <1>7, <1>8, <2>3, <3>1, <3>2, <3>3
    <2> QED BY <1>2, <2>1, <2>2, <2>3 DEF InStep
  <1>11. AuthStep'
    <2>1. /\ state' # "AUTH_WAIT"
          /\ state' \in {"INIT", "READY", "AUTH_WAIT"} => transaction' = None
      BY <1>1, <1>4 DEF FinishStep
    <2>2. tls' # "handshake"
      BY <1>1, <1>2 DEF PatientInv, Envelope
    <2>3. \A i \in 1..Len(queue') : queue'[i].cmd \notin {"CREDS", "CANCEL"}
      BY <1>1, <1>2 DEF TameInv, AuthStep
    <2>4. open' => phase' # "auth"
      BY <1>1, <1>6
    <2>5. open' => \A i \in 1..Len(replies') : replies'[i].code # "ask"
      <3> SUFFICES ASSUME open, NEW i \in 1..Len(replies'), replies'[i].code = "ask"
                   PROVE  FALSE
        BY <1>1
      <3>1. i = Len(replies) + 1
        BY <1>6, <1>8
      <3> QED BY <1>7, <1>8, <3>1
    <2> QED BY <1>2, <2>1, <2>2, <2>3, <2>4, <2>5 DEF AuthStep
  <1>12. Handed'
    <2>1. ASSUME Granted(waiting, replies) PROVE Granted(waiting, replies')
      <3>1. 1 \in 1..Len(replies)
        BY <1>3, <2>1 DEF Granted
      <3> QED BY <1>5, <1>8, <2>1, <3>1 DEF Granted
    <2>2. ASSUME Granted(waiting, replies'), ~Granted(waiting, replies)
          PROVE  open /\ t.cmd = "DOT" /\ code = "ok"
      <3>1. open
        BY <1>5, <2>2
      <3>2. replies = <<>>
        <4>1. replies # <<>> => 1 \in 1..Len(replies)
          BY <1>3
        <4>2. replies # <<>> => replies'[1] = replies[1]
          BY <1>8, <3>1, <4>1
        <4> QED BY <2>2, <4>2 DEF Granted
      <3>3. Len(replies) = 0
        BY <3>2
      <3>4. t = waiting[1] /\ replies'[1].code = code
        BY <1>6, <1>8, <3>1, <3>3
      <3> QED BY <2>2, <3>1, <3>4 DEF Granted
    <2>3. ASSUME open, t.cmd = "DOT", code = "ok"
          PROVE  Granted(waiting, replies') /\ draft = running.message /\ running.message \in stored'
      <3>1. replies = <<>> /\ draft = running.message
        BY <1>9, <2>3
      <3>2. Len(replies) = 0
        BY <3>1
      <3>3. t = waiting[1] /\ 1 \in 1..Len(waiting) /\ replies'[1].code = code /\ replies' # <<>>
        BY <1>6, <1>8, <2>3, <3>2
      <3>4. waiting # <<>>
        BY <3>3
      <3> QED BY <1>7, <2>3, <3>1, <3>3, <3>4 DEF Granted
    <2>4. Granted(waiting', replies') => draft' \in stored'
      BY <1>1, <1>7, <2>2, <2>3 DEF TameInv, Handed
    <2>5. ASSUME open', NEW m \in stored' \ accepted'
          PROVE  Granted(waiting', replies') /\ draft' = m
      <3>1. CASE m \in stored
        BY <1>1, <2>1, <2>5, <3>1 DEF TameInv, Handed
      <3>2. CASE code = "ok" /\ t.cmd = "DOT" /\ m = running.message
        BY <1>1, <2>3, <2>5, <3>2
      <3> QED BY <1>7, <2>5, <3>1, <3>2
    <2> QED BY <1>1, <1>7, <2>4, <2>5 DEF TameInv, Handed
  <1> QED BY <1>10, <1>11, <1>12 DEF TameInv

LEMMA TamePreserved ==
  Tame /\ TypeOK /\ OrderInv /\ PatientInv /\ TameInv /\ [Next]_vars => TameInv'
  <1> SUFFICES ASSUME Tame, TypeOK, OrderInv, PatientInv, TameInv, [Next]_vars
               PROVE  TameInv'
    OBVIOUS
  <1>0. FieldsOK /\ profile \in Profile /\ TextAfter /\ PatientClient
    BY SessionAssumption DEF TypeOK, OrderInv, Tame, PatientClient
  <1>1. CASE Client
    BY <1>0, <1>1, PatientSteps, TameText, TameDot, TameCommand
  <1>2. CASE Secure
    <2>1. /\ tls = "handshake" /\ phase = "handshake" /\ open
          /\ state' = "INIT" /\ transaction' = None /\ tls' = "done" /\ phase' = "command"
          /\ UNCHANGED <<inData, open, queue, running, stored, replies, waiting, draft, accepted>>
      BY <1>2 DEF Secure
    <2>2. ~Held /\ queue = <<>> /\ transaction = None /\ running = NotRunning
      BY <2>1 DEF PatientInv, Envelope, TameInv, AuthStep, Held
    <2>3. InHand' = InHand
      BY <2>1, <2>2, NothingRuns DEF InHand
    <2>4. InStep'
      BY <2>1, <2>2, <2>3 DEF TameInv, InStep, Busy, Held
    <2>5. AuthStep'
      BY <2>1, <2>2, NothingRuns DEF TameInv, AuthStep, Held
    <2>6. Handed'
      BY <2>1 DEF TameInv, Handed
    <2> QED BY <2>4, <2>5, <2>6 DEF TameInv
  <1>3. CASE Timeout \/ Hangup \/ UNCHANGED vars
    <2>1. /\ UNCHANGED <<state, inData, transaction, tls, queue, running, stored, replies,
                         waiting, phase, draft, accepted>>
          /\ open' = open \/ open' = FALSE
      BY <1>3 DEF Timeout, Hangup, vars, session, client
    <2>2. InHand' = InHand /\ Busy' = Busy /\ Held' = Held
      BY <2>1 DEF InHand, Busy, Held
    <2>3. CASE open' = open
      BY <2>1, <2>2, <2>3 DEF TameInv, InStep, AuthStep, Handed
    <2>4. CASE open' = FALSE
      <3>1. ~open'
        BY <2>4
      <3>2. InStep' /\ Handed'
        BY <2>1, <3>1 DEF TameInv, InStep, Handed
      <3>3. AuthStep'
        BY <2>1, <2>2, <3>1 DEF TameInv, AuthStep
      <3> QED BY <3>2, <3>3 DEF TameInv
    <2> QED BY <2>1, <2>3, <2>4
  <1> QED BY <1>0, <1>1, <1>2, <1>3, TameRead, TameHandler, TameFinish DEF Next, Server

LEMMA TameInit == Init => TameInv
  <1> SUFFICES ASSUME Init PROVE TameInv
    OBVIOUS
  <1>1. /\ state = "INIT" /\ transaction = None /\ tls = "plain" /\ queue = <<>>
        /\ running = NotRunning /\ stored = {} /\ replies = <<>> /\ waiting = <<>>
        /\ phase = "command" /\ draft = None /\ accepted = {}
    BY DEF Init
  <1>2. Sees(draft, waiting, replies, InHand)
    BY <1>1, NoneTyped, NothingRuns, SeesNothing DEF InHand
  <1>3. Len(replies) = 0 /\ Len(queue) = 0 /\ Len(waiting) = 0
    BY <1>1
  <1> QED BY <1>1, <1>2, <1>3, NothingRuns
          DEF TameInv, InStep, AuthStep, Handed, Granted, Held

AnsweredInv == WholeInv /\ (Tame => TameInv)

LEMMA AnsweredPreserved == AnsweredInv /\ [Next]_vars => AnsweredInv'
  <1> SUFFICES ASSUME AnsweredInv, [Next]_vars PROVE AnsweredInv'
    OBVIOUS
  <1>1. WholeInv'
    BY WholePreserved DEF AnsweredInv
  <1>2. profile' = profile
    BY DEF Next, vars
  <1>3. (Tame' <=> Tame) /\ (Tame => PatientClient)
    BY <1>2 DEF Tame, Patient, PatientClient
  <1> QED BY <1>1, <1>3, TamePreserved, Zenon DEF AnsweredInv, WholeInv

LEMMA AnsweredInit == Init => AnsweredInv
  BY WholeInit, TameInit, Zenon DEF AnsweredInv

(* From a client that waits where it should, sends no overlong line and no *)
(* text that is too large: the k-th reply it reads answers the k-th line   *)
(* it waits for.                                                           *)
THEOREM AnswersInOrder == Spec => []RepliesInOrder
  <1>1. AnsweredInv => RepliesInOrder
    BY DEF AnsweredInv, TameInv, InStep, RepliesInOrder, InOrder
  <1> QED BY <1>1, AnsweredPreserved, AnsweredInit, PTL DEF Spec

(* What such a client takes for accepted, onMessage has taken, sender,     *)
(* recipients and text as the client meant them; and what onMessage has    *)
(* taken and the client does not know of, is the message it is waiting to  *)
(* hear of.                                                                *)
THEOREM ClientIsRight == Spec => []BelievedIsTrue
  <1>1. AnsweredInv => BelievedIsTrue
    <2> SUFFICES ASSUME AnsweredInv, Tame PROVE AcceptedIsStored /\ RefusedIsNotStored
      BY DEF BelievedIsTrue, AcceptedIsStored, RefusedIsNotStored
    <2>1. Handed /\ FieldsOK
      BY DEF AnsweredInv, TameInv, WholeInv, TypeOK
    <2>2. AcceptedIsStored
      BY <2>1 DEF Handed, AcceptedIsStored
    <2>3. Granted(waiting, replies) => \E i \in 1..Len(waiting) : waiting[i].cmd = "DOT"
      <3>1. waiting # <<>> => 1 \in 1..Len(waiting)
        BY <2>1, ClientTypes
      <3> QED BY <3>1 DEF Granted
    <2>4. RefusedIsNotStored
      BY <2>1, <2>3 DEF Handed, RefusedIsNotStored
    <2> QED BY <2>2, <2>4
  <1> QED BY <1>1, AnsweredPreserved, AnsweredInit, PTL DEF Spec
=============================================================================
