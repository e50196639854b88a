------------------------------- MODULE MCRecords -------------------------------
(***************************************************************************)
(* Rows and objects that several writers change, and the push of changes,  *)
(* each kind in an instance of its own: "kind" is the one that runs, the   *)
(* others stay at a first state.                                           *)
(***************************************************************************)
EXTENDS JmapSync, JmapPush, JmapSubmission, RoomBooking, Retention, Certificates, TLC

CONSTANTS w1, w2, r1, r2, g1, g2, e1, a1, a2
CONSTANTS PMark, PArchive, InboxTag, RestTag

VARIABLE kind

(* Messages: they arrive, one JMAP client updates them and one reads them. *)
Arriving == {w1 :> {"deliver"} @@ w2 :> {"deliver", "jmapUpdate"}}

(* Push: a client with two accounts.                                       *)
TwoAccounts == {a1, a2}
TwoAndOne   == a1 :> 3 @@ a2 :> 2

(* Bookings: three mails about two meetings, two of them at a time.        *)
TwoRooms    == {r1, r2}
TwoMeetings == {g1, g2}
SomeTimes   == {[from |-> 0, to |-> 1], [from |-> 1, to |-> 3], [from |-> 0, to |-> 2]}
SomeGuests  == {<<r1>>, <<r1, r2>>}

(* Retention: two personal tags, one of the Inbox, one of all folders.     *)
OneMessage  == {e1}
TwoFolders  == {"Inbox", "Archive"}
FourTags    == {PMark, PArchive, InboxTag, RestTag}
Personal    == {PMark, PArchive}
ActionOf    == PMark :> "mark" @@ PArchive :> "archive" @@ InboxTag :> "purge" @@ RestTag :> "soft"
OneDayEach  == [t \in FourTags |-> 1]
InboxOnly   == "Inbox" :> InboxTag @@ "Archive" :> NoTag

(* Certificates run twice: for the mail servers' certificate, with the     *)
(* reloads of the HTTPS listener left undone, and for that listener,       *)
(* without mail services and with an authority that issues.                *)

Symmetry == Permutations(Ids) \cup Permutations(Meetings)

allVars == <<kind, syncVars, pushVars, subVars, roomVars, retVars, certVars>>

RecordsInit ==
  /\ kind \in {"messages", "push", "submission", "bookings", "retention", "mailcert", "https"}
  /\ SyncInit /\ PushInit /\ SubInit /\ RoomInit /\ RetInit /\ CertInit
  /\ kind # "push" => pushKind = "websocket"
  /\ kind # "bookings" => roomSetting[r1] = "checked"
  /\ roomSetting[r2] = "checked"
  /\ kind # "retention" => \A m \in RetIds : retMsg[m].folder = Archive
  /\ kind \notin {"mailcert", "https"} => certListens

MailCertNext ==
  \/ \E s \in CertSlots : \/ CertPosts(s, BOOLEAN, {FALSE}) \/ CertHttpsAsks(s) \/ CertMailAsks(s)
                          \/ CertStep(s) \/ Issued(s) \/ CertEnds(s)
  \/ CertBoot \/ CertDies
  \/ \E c \in CertIds : CertAges(c)

HttpsNext ==
  \/ \E s \in CertSlots : \/ CertPosts(s, {FALSE}, BOOLEAN) \/ CertHttpsAsks(s) \/ CertStep(s)
                          \/ Issued(s)
  \/ CertBoot \/ CertListener \/ CertDies

OnlyCerts == UNCHANGED <<kind, syncVars, pushVars, subVars, roomVars, retVars>>

RecordsNext ==
  \/ /\ kind = "messages" /\ UNCHANGED <<kind, pushVars, subVars, roomVars, retVars, certVars>>
     /\ SyncNext
  \/ /\ kind = "push" /\ UNCHANGED <<kind, syncVars, subVars, roomVars, retVars, certVars>>
     /\ PushNext
  \/ /\ kind = "submission" /\ UNCHANGED <<kind, syncVars, pushVars, roomVars, retVars, certVars>>
     /\ SubNext
  \/ /\ kind = "bookings" /\ UNCHANGED <<kind, syncVars, pushVars, subVars, retVars, certVars>>
     /\ RoomNext
  \/ /\ kind = "retention" /\ UNCHANGED <<kind, syncVars, pushVars, subVars, roomVars, certVars>>
     /\ RetNext
  \/ kind = "mailcert" /\ OnlyCerts /\ MailCertNext
  \/ kind = "https" /\ OnlyCerts /\ HttpsNext

RecordsSpec == RecordsInit /\ [][RecordsNext]_allVars
=============================================================================
