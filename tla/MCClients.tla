------------------------------- MODULE MCClients -------------------------------
(***************************************************************************)
(* POP3 and IMAP sessions, and the listeners of a server, each in an       *)
(* instance of its own: "server" is the one that runs, the others stay at  *)
(* a first state.                                                          *)
(***************************************************************************)
EXTENDS Pop3Session, ImapView, Listeners, TLC

CONSTANTS p1, m1, m2, s1, s2, f1

VARIABLE server

(* POP3: one patient client, other servers at work on both messages.       *)
OneSession  == {p1}
Patient     == {}
TwoMessages == {m1, m2}

(* IMAP: one client that does not wait, and one that does.                 *)
TwoSessions == {s1, s2}
Hasty       == {s1}
OneFolder   == {f1}
MarkUnmark  == {[op |-> "+", flag |-> "Deleted"], [op |-> "-", flag |-> "Deleted"]}
ThreeEach   == s1 :> 3 @@ s2 :> 3
Different   == s1 :> {"EXPUNGE", "UNSELECT"} @@ s2 :> {"FETCH", "STORE", "CLOSE"}

(* Listeners: a port with implicit TLS and one without.                    *)
TwoDefaults == 465 :> "tls" @@ 25 :> "plain"

allVars == <<server, vars, imVars, lisVars>>

ClientsInit ==
  /\ server \in {"pop3", "imap", "listeners"}
  /\ Init /\ ImInit /\ LisInit
  /\ server # "pop3" => inbox = <<>>
  /\ server # "imap" => \A u \in ImUids : imRow[u].folder = NoFolder
  /\ server # "listeners" => ~lisFallsBack

OnlyPop3      == server = "pop3"      /\ UNCHANGED <<server, imVars, lisVars>>
OnlyImap      == server = "imap"      /\ UNCHANGED <<server, vars, lisVars>>
OnlyListeners == server = "listeners" /\ UNCHANGED <<server, vars, imVars>>

ClientsNext ==
  \/ OnlyPop3 /\ Next
  \/ OnlyImap /\ ImNext
  \/ OnlyListeners /\ LisNext

(* FairSpec, ImFair and LisFair.                                           *)
ClientsSpec ==
  /\ ClientsInit /\ [][ClientsNext]_allVars
  /\ \A s \in Sessions : /\ WF_allVars(OnlyPop3 /\ Resume(s))
                         /\ WF_allVars(OnlyPop3 /\ ReadReply(s))
  /\ \A s \in ImSessions : WF_allVars(OnlyImap /\ ImGoes(s))
  /\ WF_allVars(OnlyListeners /\ LisPoll)
  /\ WF_allVars(OnlyListeners /\ LisGoesOn)
  /\ WF_allVars(OnlyListeners /\ LisBoot)

(* Each line a POP3 client has sent, and each tag an IMAP client has used, *)
(* is answered, or the connection ends.                                    *)
EveryLineIsAnswered == EveryLineAnswered /\ EveryTagAnswered
=============================================================================
