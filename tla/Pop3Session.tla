------------------------------ MODULE Pop3Session ------------------------------
(***************************************************************************)
(* POP3 sessions on one INBOX, which other servers change meanwhile.       *)
(*                                                                         *)
(* A session starts the handler of each line as soon as it has the line,   *)
(* whether or not the handlers before it are done: what is at an await is  *)
(* in "tasks".  The maildrop is what PASS read; nothing locks it.          *)
(*                                                                         *)
(* Sending and receiving a line is one step, and a client sends nothing    *)
(* after the server has closed its side.  Nobody restores a message that   *)
(* is marked as deleted.  STAT and LIST are UIDL here, TOP is RETR, and    *)
(* CAPA and commands without their argument are NOOP or refused.           *)
(***************************************************************************)
EXTENDS Naturals, FiniteSets, Sequences, SequencesExt

CONSTANTS
  Sessions,
  Eager,      \* the sessions whose clients pipeline
  Ids,        \* the messages that may ever be in the INBOX
  MaxLines    \* bound: lines a client sends

ASSUME Pop3Assumption == Eager \subseteq Sessions /\ IsFiniteSet(Ids) /\ MaxLines \in Nat

VARIABLES
  inbox,      \* the INBOX by UID, with what is marked as deleted
  fate,       \* of each message; a destroyed one never comes back
  sess,       \* the server's side of each session
  replies,    \* sent and not read
  client      \* the client's side

vars == <<inbox, fate, sess, replies, client>>

Fates == {"unborn", "live", "deleted", "destroyed"}
Commands == {"USER", "PASS", "UIDL", "RETR", "DELE", "RSET", "NOOP", "QUIT"}

Line   == 1..MaxLines
Number == 0..Cardinality(Ids)
Shows  == UNION {[S -> Ids] : S \in SUBSET Number}
Task   == [cmd : {"PASS", "RETR", "QUIT"}, number : Number, line : Line,
           step : {"first", "second"}, ids : Shows]

TypeOK ==
  /\ inbox \in Seq(Ids)
  /\ fate \in [Ids -> Fates]
  /\ \A s \in Sessions :
       /\ sess[s].state \in {"AUTHORIZATION", "TRANSACTION"}
       /\ sess[s].user \in BOOLEAN /\ sess[s].open \in BOOLEAN
       /\ sess[s].maildrop \in Seq([id : Ids, deleted : BOOLEAN])
       /\ sess[s].tasks \subseteq Task
       /\ replies[s] \in Seq([ok : BOOLEAN, line : Line, shows : Shows])
       /\ client[s].waiting \in Seq([cmd : Commands, number : Number, line : Line])
       /\ client[s].sent \in 0..MaxLines
       /\ client[s].knows \in Shows
       /\ client[s].marks \subseteq Ids
       /\ client[s].done \in BOOLEAN

Nothing == <<>>

Init ==
  /\ \E S \in SUBSET Ids :
       /\ inbox \in SetToSeqs(S)
       /\ fate = [m \in Ids |-> IF m \in S THEN "live" ELSE "unborn"]
  /\ sess = [s \in Sessions |->
       [state |-> "AUTHORIZATION", user |-> FALSE, open |-> TRUE,
        maildrop |-> <<>>, tasks |-> {}]]
  /\ replies = [s \in Sessions |-> <<>>]
  /\ client = [s \in Sessions |->
       [waiting |-> <<>>, sent |-> 0, knows |-> Nothing, marks |-> {}, done |-> FALSE]]

-----------------------------------------------------------------------------
(* The server, up to the first await of a handler.                         *)

(* A line written after the end of the connection goes nowhere.            *)
Answer(s, ok, line, shows) ==
  replies' = [replies EXCEPT ![s] =
    IF sess[s].open THEN Append(@, [ok |-> ok, line |-> line, shows |-> shows]) ELSE @]

Refuse(s, line) == Answer(s, FALSE, line, Nothing) /\ UNCHANGED sess

Starts(s, cmd, number, line, ids) ==
  /\ sess' = [sess EXCEPT ![s].tasks = @ \cup
       {[cmd |-> cmd, number |-> number, line |-> line, step |-> "first", ids |-> ids]}]
  /\ UNCHANGED replies

(* Message number n, unless it is marked.                                  *)
Listed(s, n) == n \in DOMAIN sess[s].maildrop /\ ~sess[s].maildrop[n].deleted

HandleAuth(s, cmd, line) ==
  \/ /\ cmd = "USER"
     /\ sess' = [sess EXCEPT ![s].user = TRUE]
     /\ Answer(s, TRUE, line, Nothing)
  \/ cmd = "PASS" /\ sess[s].user /\ Starts(s, cmd, 0, line, <<>>)
  \/ cmd = "PASS" /\ ~sess[s].user /\ Refuse(s, line)
  \/ cmd \notin {"USER", "PASS"} /\ Refuse(s, line)

\* mutant: numbers what it lists
Uidl_Renumbers(s) ==
  LET listed == SelectSeq(sess[s].maildrop, LAMBDA m : ~m.deleted)
  IN  [n \in DOMAIN listed |-> listed[n].id]
Uidl(s) == [n \in {m \in DOMAIN sess[s].maildrop : Listed(s, m)} |-> sess[s].maildrop[n].id]

Marked(s) ==
  [n \in {m \in DOMAIN sess[s].maildrop : sess[s].maildrop[m].deleted} |->
     sess[s].maildrop[n].id]

AfterRset_Kept(m) == m   \* mutant: RSET forgets to take the marks away
AfterRset(m) == [m EXCEPT !.deleted = FALSE]

HandleTransaction(s, cmd, number, line) ==
  \/ cmd = "UIDL" /\ Answer(s, TRUE, line, Uidl(s)) /\ UNCHANGED sess
  \/ cmd = "NOOP" /\ Answer(s, TRUE, line, Nothing) /\ UNCHANGED sess
  \/ /\ cmd = "RETR" /\ Listed(s, number)
     /\ Starts(s, cmd, number, line, <<sess[s].maildrop[number].id>>)
  \/ /\ cmd = "DELE" /\ Listed(s, number)
     /\ sess' = [sess EXCEPT ![s].maildrop[number].deleted = TRUE]
     /\ Answer(s, TRUE, line, Nothing)
  \/ cmd \in {"RETR", "DELE"} /\ ~Listed(s, number) /\ Refuse(s, line)
  \/ /\ cmd = "RSET"
     /\ sess' = [sess EXCEPT ![s].maildrop = [n \in DOMAIN @ |-> AfterRset(@[n])]]
     /\ Answer(s, TRUE, line, Nothing)
  \/ cmd \in {"USER", "PASS"} /\ Refuse(s, line)

HandleQuit(s, line) ==
  \/ /\ sess[s].state = "TRANSACTION"
     /\ Starts(s, "QUIT", 0, line, Marked(s))
  \/ /\ sess[s].state = "AUTHORIZATION"
     /\ Answer(s, TRUE, line, Nothing)
     /\ sess' = [sess EXCEPT ![s].open = FALSE]

HandleCommand(s, cmd, number, line) ==
  \/ cmd = "QUIT" /\ HandleQuit(s, line)
  \/ /\ cmd # "QUIT" /\ sess[s].state = "AUTHORIZATION"
     /\ HandleAuth(s, cmd, line)
  \/ /\ cmd # "QUIT" /\ sess[s].state = "TRANSACTION"
     /\ HandleTransaction(s, cmd, number, line)

-----------------------------------------------------------------------------
(* What follows an await.                                                  *)

Ended(s, t) == [sess EXCEPT ![s].tasks = @ \ {t}]

\* mutant: the handler's promise has no catch
Fails_Silent(s, t) ==
  /\ t.step = "first"
  /\ sess' = Ended(s, t)
  /\ UNCHANGED <<replies, fate>>
(* Bad credentials, a row that is no longer there or a query that throws:  *)
(* -ERR, and the session goes on.                                          *)
Fails(s, t) ==
  /\ t.step = "first"
  /\ t.cmd = "QUIT" => DOMAIN t.ids # {}
  /\ Answer(s, FALSE, t.line, Nothing)
  /\ sess' = Ended(s, t)
  /\ UNCHANGED fate

Continues(s, t, ids) ==
  /\ sess' = [sess EXCEPT ![s].tasks = (@ \ {t}) \cup {[t EXCEPT !.step = "second", !.ids = ids]}]
  /\ UNCHANGED replies

Before(m, n) == \E j, k \in DOMAIN inbox : j < k /\ inbox[j] = m /\ inbox[k] = n

(* The user is known, and the maildrop read: what is not deleted, by UID.  *)
LoadMaildrop(s, t) ==
  /\ t.cmd = "PASS" /\ t.step = "first"
  /\ \E ids \in SetToSeqs({m \in Ids : m \in ToSet(inbox) /\ fate[m] = "live"}) :
       /\ \A j, k \in DOMAIN ids : j < k => Before(ids[j], ids[k])
       /\ Continues(s, t, ids)
  /\ UNCHANGED fate

LoggedIn(s, t) ==
  /\ t.cmd = "PASS" /\ t.step = "second"
  /\ sess' = [Ended(s, t) EXCEPT ![s].state = "TRANSACTION",
       ![s].maildrop = [n \in DOMAIN t.ids |-> [id |-> t.ids[n], deleted |-> FALSE]]]
  /\ Answer(s, TRUE, t.line, Nothing)
  /\ UNCHANGED fate

(* findUnique by id: in whatever folder, deleted or not.                   *)
SendMessage(s, t) ==
  /\ t.cmd = "RETR"
  /\ fate[t.ids[1]] # "destroyed"
  /\ Answer(s, TRUE, t.line, [n \in {t.number} |-> t.ids[1]])
  /\ sess' = Ended(s, t)
  /\ UNCHANGED fate

(* updateMany by id: whatever folder a row is in.                          *)
AfterUpdate(ids) ==
  [m \in Ids |-> IF m \in ToSet(ids) /\ fate[m] = "live" THEN "deleted" ELSE fate[m]]

UpdateAndDelete(s, t) ==
  /\ t.cmd = "QUIT" /\ t.step = "first"
  /\ fate' = AfterUpdate(t.ids)
  /\ Continues(s, t, t.ids)

SignsOff(s, t) ==
  /\ t.cmd = "QUIT" /\ t.step = "second"
  /\ Answer(s, TRUE, t.line, Nothing)
  /\ sess' = [Ended(s, t) EXCEPT ![s].open = FALSE]
  /\ UNCHANGED fate

Resume(s) ==
  /\ \E t \in sess[s].tasks :
       \/ Fails(s, t)
       \/ LoadMaildrop(s, t) \/ LoggedIn(s, t)
       \/ SendMessage(s, t)
       \/ UpdateAndDelete(s, t) \/ SignsOff(s, t)
  /\ UNCHANGED <<inbox, client>>

-----------------------------------------------------------------------------
(* A client knows message n when UIDL or RETR has shown it.                *)

Send(s) ==
  \E cmd \in Commands, number \in Number :
    /\ sess[s].open
    /\ client[s].sent < MaxLines
    /\ client[s].waiting = <<>> \/ s \in Eager
    /\ (number = 0) <=> cmd \notin {"RETR", "DELE"}
    /\ cmd = "DELE" => number \in DOMAIN client[s].knows
    /\ LET line == client[s].sent + 1 IN
         /\ client' = [client EXCEPT ![s].sent = line,
              ![s].waiting = Append(@, [cmd |-> cmd, number |-> number, line |-> line])]
         /\ HandleCommand(s, cmd, number, line)
    /\ UNCHANGED <<inbox, fate>>

Learns(c, request, reply) ==
  [c EXCEPT
    !.waiting = Tail(@),
    !.knows = [n \in DOMAIN @ \cup DOMAIN reply.shows |->
                 IF n \in DOMAIN reply.shows THEN reply.shows[n] ELSE @[n]],
    !.marks = IF reply.ok /\ request.cmd = "DELE" THEN @ \cup {c.knows[request.number]}
              ELSE IF reply.ok /\ request.cmd = "RSET" THEN {} ELSE @,
    !.done = @ \/ (request.cmd = "QUIT" /\ reply.ok)]

ReadReply(s) ==
  /\ replies[s] # <<>> /\ client[s].waiting # <<>>
  /\ replies' = [replies EXCEPT ![s] = Tail(@)]
  /\ client' = [client EXCEPT ![s] = Learns(@, Head(client[s].waiting), Head(replies[s]))]
  /\ UNCHANGED <<inbox, fate, sess>>

(* The connection breaks; handlers go on.                                  *)
Hangup(s) ==
  /\ sess[s].open
  /\ sess' = [sess EXCEPT ![s].open = FALSE]
  /\ UNCHANGED <<inbox, fate, replies, client>>

(* Other servers.                                                          *)
Arrives(m) ==
  /\ fate[m] \in {"unborn", "live"} /\ m \notin ToSet(inbox)
  /\ inbox' = Append(inbox, m)
  /\ fate' = [fate EXCEPT ![m] = "live"]

MovedOut(m) ==
  /\ m \in ToSet(inbox)
  /\ inbox' = Remove(inbox, m)
  /\ UNCHANGED fate

MarkedDeleted(m) ==
  /\ fate[m] = "live"
  /\ fate' = [fate EXCEPT ![m] = "deleted"]
  /\ UNCHANGED inbox

Destroyed(m) ==
  /\ fate[m] \in {"live", "deleted"}
  /\ fate' = [fate EXCEPT ![m] = "destroyed"]
  /\ inbox' = Remove(inbox, m)

Others ==
  /\ \E m \in Ids : Arrives(m) \/ MovedOut(m) \/ MarkedDeleted(m) \/ Destroyed(m)
  /\ UNCHANGED <<sess, replies, client>>

Next ==
  \/ \E s \in Sessions : Send(s) \/ Resume(s) \/ ReadReply(s) \/ Hangup(s)
  \/ Others

Spec == Init /\ [][Next]_vars

FairSpec == Spec /\ \A s \in Sessions : WF_vars(Resume(s)) /\ WF_vars(ReadReply(s))

-----------------------------------------------------------------------------
(* The number of a message stays its number, whatever other servers and    *)
(* sessions do to the INBOX: a reply about number n shows the message the  *)
(* client knows by n.                                                      *)
SameNumberSameMessage ==
  \A s \in Sessions \ Eager : \A k \in DOMAIN replies[s] :
    \A n \in DOMAIN replies[s][k].shows \cap DOMAIN client[s].knows :
      replies[s][k].shows[n] = client[s].knows[n]

(* No QUIT deletes a message its client has no mark on: updateAndDelete    *)
(* takes the marks of this session, after RSET and no other session's.     *)
DeletesOnlyMarks ==
  [][\A s \in Sessions \ Eager : \A t \in sess[s].tasks :
       UpdateAndDelete(s, t) =>
         \A m \in Ids : fate'[m] # fate[m] => m \in client[s].marks]_vars

(* Once QUIT is answered +OK every message the client marked is deleted,   *)
(* wherever other servers have moved it meanwhile.                         *)
QuitDeletes ==
  \A s \in Sessions \ Eager :
    client[s].done => \A m \in client[s].marks : fate[m] \in {"deleted", "destroyed"}

(* What goes at QUIT is what the client has marked, no less and no more.   *)
QuitDoesAsMarked == []QuitDeletes /\ DeletesOnlyMarks

(* Every line is answered, unless the connection ends.                     *)
EveryLineAnswered ==
  \A s \in Sessions :
    client[s].waiting # <<>> ~> client[s].waiting = <<>> \/ ~sess[s].open
=============================================================================
