------------------------------- MODULE MCSessions -------------------------------
(***************************************************************************)
(* An SMTP session, and a mailbox behind the web gateway with a web        *)
(* client, each in an instance of its own: "seen" is the one that runs,    *)
(* the other stays at a first state.                                       *)
(***************************************************************************)
EXTENDS SmtpSession, WebMail, TLC

CONSTANTS g1, g2

VARIABLE seen

(* SMTP: ports and their clients.                                          *)
Basic == {"EHLO", "MAIL", "RCPT", "DATA"}

(* Every command of a relay session, pipelined. *)
Relay == [asks |-> Basic \cup {"RSET", "NOOP", "QUIT"}, greets |-> FALSE, lines |-> 6,
          text |-> 1, eager |-> FALSE, requireAuth |-> FALSE]

(* Two messages, the second behind the dot of the first. *)
Two == [asks |-> Basic, greets |-> TRUE, lines |-> 9, text |-> 1, eager |-> FALSE,
        requireAuth |-> FALSE]

(* A submission port, and a client that also writes overlong lines. *)
Submission == [asks |-> Basic \cup {"AUTH", "STARTTLS", "LONG"}, greets |-> FALSE,
               lines |-> 6, text |-> 1, eager |-> FALSE, requireAuth |-> TRUE]

(* A client that never waits and whose texts are too large. *)
Eager == [asks |-> Basic, greets |-> FALSE, lines |-> 6, text |-> 2, eager |-> TRUE,
          requireAuth |-> FALSE]

FourProfiles == {Relay, Two, Submission, Eager}

(* The mailbox: what users, other clients and other devices do in one      *)
(* instance.                                                               *)
TwoMails == {g1, g2}
TwoTabs  == {1, 2}
Quietly  == [asks |-> {}, mails |-> {g1}, from |-> {"INBOX"}, views |-> {"INBOX"}, to |-> {},
             others |-> {}, acts |-> 2, moves |-> 0, faults |-> 0]
WebCasts ==
  {[Quietly EXCEPT !.asks = {"mark", "patch", "open", "move"}, !.mails = TwoMails,
                   !.to = {"Trash"}],
   [Quietly EXCEPT !.asks = {"mark", "open", "reply"}, !.acts = 3],
   [Quietly EXCEPT !.asks = {"delete", "move"}, !.views = {"INBOX", "Trash"}, !.to = {"INBOX"},
                   !.others = {"INBOX"}, !.acts = 3, !.moves = 1],
   [Quietly EXCEPT !.asks = {"delete", "archive"}, !.mails = TwoMails, !.others = {"Trash"},
                   !.moves = 1],
   [Quietly EXCEPT !.asks = {"spam", "notSpam", "erase"}, !.mails = TwoMails,
                   !.from = {"INBOX", "none"}, !.faults = 1],
   [Quietly EXCEPT !.asks = {"mark", "open", "file", "rmdir"}, !.to = {"Own"}],
   [Quietly EXCEPT !.asks = {"rmdir", "rmdirIfEmpty", "move", "trash"},
                   !.from = {"INBOX", "Own"}, !.views = {"INBOX", "Own"}, !.to = {"Own"}],
   [Quietly EXCEPT !.asks = {"empty", "open", "move"}, !.from = {"INBOX", "Own"},
                   !.views = {"INBOX", "Trash"}, !.to = {"INBOX"}]}

allVars == <<seen, vars, wmVars>>

SessionsInit ==
  /\ seen \in {"smtp", "mailbox"}
  /\ Init /\ WmInit
  /\ seen # "smtp" => profile = Relay
  /\ seen # "mailbox" => wmCast.asks = {"mark", "open", "reply"}

OnlySmtp    == seen = "smtp"    /\ UNCHANGED <<seen, wmVars>>
OnlyMailbox == seen = "mailbox" /\ UNCHANGED <<seen, vars>>

SessionsNext ==
  \/ OnlySmtp /\ Next
  \/ OnlyMailbox /\ WmNext

SessionsSpec == SessionsInit /\ [][SessionsNext]_allVars
=============================================================================
