----------------------------- MODULE MCInboundMail -----------------------------
(***************************************************************************)
(* One message from another server or from a client, and one event with    *)
(* the mails to and from its guests, each in an instance of its own:       *)
(* "subject" is the one that runs, the other stays at a first state.       *)
(***************************************************************************)
EXTENDS InboundMail, Invitations

CONSTANTS u1, u2, a1, r1, x1, g1, g2

VARIABLE subject

TwoBoxes    == {u1, u2}
OneAlias    == {a1}
AliasOfUser == [a \in {a1} |-> u1]
OneRoom     == {r1}
OneOutside  == {x1}
Lists == {<<a1, u1>>, <<u2, a1>>, <<r1, u2>>, <<u1, x1>>}
Both  == {"inbound", "submission"}

(* Two editors at the dialog; two with any client; replies one by one, of  *)
(* a guest who changes his mind and of two guests; replies side by side.   *)
Part(dialog, guests, editors, readers, edits_, replies_) ==
  [dialog |-> dialog, guests |-> guests, editors |-> editors, readers |-> readers,
   edits |-> edits_, replies |-> replies_]
FiveCasts ==
  {Part(TRUE,  {g1},     {1, 2}, {},     3, 0),
   Part(FALSE, {g1},     {1, 2}, {},     3, 0),
   Part(FALSE, {g1},     {1},    {1},    2, 2),
   Part(TRUE,  {g1, g2}, {1},    {1},    1, 2),
   Part(FALSE, {g1},     {1},    {1, 2}, 1, 2)}

allVars == <<subject, vars, invVars>>

MailInit ==
  /\ subject \in {"mail", "event"}
  /\ InboundInit /\ InvInit
  /\ subject = "mail" => cast = Part(TRUE, {g1}, {1, 2}, {}, 3, 0)
  /\ subject = "event" => mail = [port |-> "inbound", rcpts |-> <<a1, u1>>]

OnlyMail  == subject = "mail"  /\ UNCHANGED <<subject, invVars>>
OnlyEvent == subject = "event" /\ UNCHANGED <<subject, vars>>

MailNext ==
  \/ OnlyMail /\ InboundNext
  \/ OnlyEvent /\ InvNext

(* InboundFair.                                                            *)
MailSpec ==
  /\ MailInit /\ [][MailNext]_allVars
  /\ \A t \in Tries : WF_allVars(OnlyMail /\ Handle(t))
  /\ WF_allVars(OnlyMail /\ (Connect \/ Finish \/ ReadReply))

(* The sender of the message learns what became of each recipient, and     *)
(* every handler ends.                                                     *)
SenderLearns == subject = "mail" => PeerLearns
=============================================================================
