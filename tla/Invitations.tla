------------------------------ MODULE Invitations ------------------------------
(***************************************************************************)
(* One calendar event with guests (iMIP): the web API creates, changes and *)
(* deletes it and queues mails to the guests; guests answer by mail; the   *)
(* inbound path writes the answers into the event.  CalDAV clients write   *)
(* the same row and tell nobody.                                           *)
(*                                                                         *)
(* Mails stay in "letters" and "replies" for ever: each may arrive late,   *)
(* in another order, or again when its sender did not hear the 250.  A     *)
(* guest's calendar is external; of two mails it believes the one with the *)
(* higher SEQUENCE, of two with the same one the later.                    *)
(***************************************************************************)
EXTENDS Naturals, FiniteSets

CONSTANTS
  Guests,
  Times,        \* what an invitation says: subject, time and place
  Editors,      \* requests of the web API side by side
  Readers,      \* replies being stored side by side
  Casts         \* who takes part, and how often

(* "dialog": all edits are made in the web client's dialog; "edits" and    *)
(* "replies" are bounds.                                                   *)
Cast == [dialog : BOOLEAN, guests : SUBSET Guests, editors : SUBSET Editors,
         readers : SUBSET Readers, edits : Nat, replies : Nat]

ASSUME InvitationsAssumption ==
  /\ Guests # {} /\ Times # {}
  /\ Casts \subseteq Cast

VARIABLES
  cast,         \* one of Casts, for good
  meeting,      \* the row; att gives each guest's partstat, or "out"
  editor,       \* the request each editor is at
  letters,      \* REQUEST and CANCEL mails that were queued
  opened,       \* those of them that a guest's client has seen
  shown,        \* what each guest's calendar shows
  replies,      \* REPLY mails
  filed,        \* those of them that were stored
  reader,       \* the store operation of a reply
  edits         \* requests so far

invVars == <<cast, meeting, editor, letters, opened, shown, replies, filed, reader, edits>>

Stat == {"open", "yes", "no"}      \* NEEDS-ACTION, ACCEPTED, anything else
List == [Guests -> Stat \cup {"out"}]

Letter == [kind : {"REQUEST", "CANCEL"}, to : Guests, seq : Nat, time : Times]
Reply  == [from : Guests, seq : Nat, stat : {"yes", "no"}]
Row    == [is : {"unborn", "alive", "deleted"}, seq : Nat, time : Times, att : List]
Editor == [at : {"idle", "put", "delete"}, time : Times, list : List,
           whole : BOOLEAN,          \* the body names the attendees
           moved : BOOLEAN,          \* the body names another time than the row
           seq : Nat]                \* of the row that was read
Reader == [at : {"idle", "write"}, mail : Reply, seq : Nat, att : List]
Shown  == [kind : {"none", "REQUEST", "CANCEL"}, seq : Nat, time : Times]

InvTypeOK ==
  /\ cast \in Casts
  /\ meeting \in Row
  /\ editor \in [Editors -> Editor]
  /\ letters \subseteq Letter /\ opened \subseteq letters
  /\ shown \in [Guests -> Shown]
  /\ replies \subseteq Reply /\ filed \subseteq replies
  /\ reader \in [Readers -> Reader]
  /\ edits \in Nat

NoTime   == CHOOSE t \in Times : TRUE
Nobody   == [g \in Guests |-> "out"]
NoEditor == [at |-> "idle", time |-> NoTime, list |-> Nobody, whole |-> FALSE,
             moved |-> FALSE, seq |-> 0]
NoReply  == [from |-> CHOOSE g \in Guests : TRUE, seq |-> 0, stat |-> "no"]
NoReader == [at |-> "idle", mail |-> NoReply, seq |-> 0, att |-> Nobody]

InvInit ==
  /\ cast \in Casts
  /\ meeting = [is |-> "unborn", seq |-> 0, time |-> NoTime, att |-> Nobody]
  /\ editor = [e \in Editors |-> NoEditor]
  /\ letters = {} /\ opened = {} /\ replies = {} /\ filed = {}
  /\ shown = [g \in Guests |-> [kind |-> "none", seq |-> 0, time |-> NoTime]]
  /\ reader = [r \in Readers |-> NoReader]
  /\ edits = 0

Alive    == meeting.is = "alive"
On(list) == {g \in Guests : list[g] # "out"}

(* A request for the event that is there.                                  *)
Begins == Alive /\ edits < cast.edits /\ edits' = edits + 1

-----------------------------------------------------------------------------
(* The web API.                                                            *)

(* sendInvitations is not awaited.  When it throws, or the process ends,   *)
(* nothing was queued and the event stays as it is.                        *)
SendInvitations(kind, seq, time, list) ==
  \/ letters' = letters \cup {[kind |-> kind, to |-> g, seq |-> seq, time |-> time] :
                                g \in On(list)}
  \/ UNCHANGED letters

(* A guest who is new on the list has not answered; of the others the body *)
(* repeats the answer that the form has loaded.                            *)
Listed(list, who) ==
  [g \in Guests |-> IF g \notin who THEN "out"
                    ELSE IF list[g] = "out" THEN "open" ELSE list[g]]

(* POST /events                                                            *)
CreateEvent(time, who) ==
  /\ meeting.is = "unborn"
  /\ meeting' = [is |-> "alive", seq |-> 0, time |-> time, att |-> Listed(Nobody, who)]
  /\ SendInvitations("REQUEST", 0, time, meeting'.att)
  /\ UNCHANGED <<editor, edits>>

(* What a request has in hand: the fields of the row, or of its body.      *)
Asked(at, time, list, whole, moved) ==
  [at |-> at, time |-> time, list |-> list, whole |-> whole, moved |-> moved,
   seq |-> meeting.seq]

(* GET /events/:id fills the dialog's form once; PUT /events/:id sends     *)
(* every field of it, the attendees among them, however old it is by then. *)
SaveForm(e, time, who) ==
  /\ editor[e].at = "idle" /\ Begins
  /\ editor' = [editor EXCEPT ![e] =
       Asked("put", time, Listed(meeting.att, who), TRUE, time # meeting.time)]
  /\ UNCHANGED <<meeting, letters>>

(* Another client of the API may leave fields out; those are written back  *)
(* as they were read.                                                      *)
PutSomeFields(e, time) ==
  /\ ~cast.dialog
  /\ editor[e].at = "idle" /\ Begins
  /\ editor' = [editor EXCEPT ![e] =
       Asked("put", time, Nobody, FALSE, time # meeting.time)]
  /\ UNCHANGED <<meeting, letters>>

(* willSendUpdate is found from the row that was read.                     *)
WillSendUpdate(e) == editor[e].whole \/ editor[e].moved

NextSequence_Read(e) == editor[e].seq + 1    \* mutant: the sequence that was read
NextSequence(e) == meeting.seq + 1           \* { increment: 1 }

(* The update, and the invitations of the row that it returns.  It throws  *)
(* when the event is gone.                                                 *)
WriteEvent(e) ==
  /\ editor[e].at = "put" /\ UNCHANGED edits
  /\ editor' = [editor EXCEPT ![e] = NoEditor]
  /\ \/ ~Alive /\ UNCHANGED <<meeting, letters>>
     \/ /\ Alive
        /\ meeting' = [meeting EXCEPT
             !.time = editor[e].time,
             !.seq = IF WillSendUpdate(e) THEN NextSequence(e) ELSE @,
             !.att = IF editor[e].whole THEN editor[e].list ELSE @]
        /\ IF WillSendUpdate(e)
           THEN SendInvitations("REQUEST", meeting'.seq, meeting'.time, meeting'.att)
           ELSE UNCHANGED letters

(* DELETE /events/:id: the row is read, then deleted; the mails are about  *)
(* the row that was read.                                                  *)
AskDelete(e) ==
  /\ editor[e].at = "idle" /\ Begins
  /\ editor' = [editor EXCEPT ![e] =
       Asked("delete", meeting.time, meeting.att, FALSE, FALSE)]
  /\ UNCHANGED <<meeting, letters>>

DeleteEvent(e) ==
  /\ editor[e].at = "delete" /\ UNCHANGED edits
  /\ editor' = [editor EXCEPT ![e] = NoEditor]
  /\ \/ ~Alive /\ UNCHANGED <<meeting, letters>>
     \/ /\ Alive
        /\ meeting' = [meeting EXCEPT !.is = "deleted"]
        /\ SendInvitations("CANCEL", editor[e].seq + 1, editor[e].time, editor[e].list)

(* CalDAV's PUT and DELETE read only whether the event is there.           *)
DavPut(time) ==
  /\ ~cast.dialog /\ Begins
  /\ meeting' = [meeting EXCEPT !.time = time]
  /\ UNCHANGED <<editor, letters>>

DavDelete ==
  /\ ~cast.dialog /\ Begins
  /\ meeting' = [meeting EXCEPT !.is = "deleted"]
  /\ UNCHANGED <<editor, letters>>

Edits ==
  /\ \/ \E t \in Times, who \in SUBSET cast.guests : CreateEvent(t, who)
     \/ \E e \in cast.editors :
          \/ WriteEvent(e) \/ AskDelete(e) \/ DeleteEvent(e)
          \/ \E t \in Times : PutSomeFields(e, t)
          \/ \E t \in Times, who \in SUBSET cast.guests : SaveForm(e, t, who)
     \/ \E t \in Times : DavPut(t)
     \/ DavDelete
  /\ UNCHANGED <<cast, opened, shown, replies, filed, reader>>

-----------------------------------------------------------------------------
(* A guest's client: external.                                             *)

OpenLetter(m) ==
  /\ m \in letters
  /\ opened' = opened \cup {m}
  /\ shown' = IF shown[m.to].kind = "none" \/ m.seq >= shown[m.to].seq
              THEN [shown EXCEPT ![m.to] = [kind |-> m.kind, seq |-> m.seq, time |-> m.time]]
              ELSE shown
  /\ UNCHANGED <<cast, meeting, editor, letters, replies, filed, reader, edits>>

Answer(g, stat) ==
  /\ shown[g].kind = "REQUEST"
  /\ Cardinality(replies) < cast.replies
  /\ replies' = replies \cup {[from |-> g, seq |-> shown[g].seq, stat |-> stat]}
  /\ UNCHANGED <<cast, meeting, editor, letters, opened, shown, filed, reader, edits>>

-----------------------------------------------------------------------------
(* processITipInbound                                                      *)

IsOld_Never(m) == FALSE              \* mutant: no SEQUENCE check
IsOld(m) == m.seq < meeting.seq

(* The event is found; an old reply, or one of a guest who is not on the   *)
(* list, changes nothing.  Any reply may come again.                       *)
ReadReplyMail(r, m) ==
  /\ reader[r].at = "idle" /\ m \in replies
  /\ \/ /\ ~Alive \/ IsOld(m) \/ meeting.att[m.from] = "out"
        /\ filed' = filed \cup {m}
        /\ UNCHANGED reader
     \/ /\ Alive /\ ~IsOld(m) /\ meeting.att[m.from] # "out"
        /\ reader' = [reader EXCEPT ![r] =
             [at |-> "write", mail |-> m, seq |-> meeting.seq, att |-> meeting.att]]
        /\ UNCHANGED filed
  /\ UNCHANGED <<cast, meeting, editor, letters, opened, shown, replies, edits>>

(* The whole list is written back.  On an event that is gone the update    *)
(* throws; the mail is delivered all the same.                             *)
WriteAnswer(r) ==
  LET m == reader[r].mail IN
  /\ reader[r].at = "write"
  /\ meeting' = IF Alive
                THEN [meeting EXCEPT !.att = [reader[r].att EXCEPT ![m.from] = m.stat]]
                ELSE meeting
  /\ filed' = filed \cup {m}
  /\ reader' = [reader EXCEPT ![r] = NoReader]
  /\ UNCHANGED <<cast, editor, letters, opened, shown, replies, edits>>

InvNext ==
  \/ Edits
  \/ \E m \in letters : OpenLetter(m)
  \/ \E g \in Guests, stat \in {"yes", "no"} : Answer(g, stat)
  \/ \E r \in cast.readers, m \in replies : ReadReplyMail(r, m)
  \/ \E r \in cast.readers : WriteAnswer(r)

InvSpec == InvInit /\ [][InvNext]_invVars

-----------------------------------------------------------------------------
(* Properties.                                                             *)

AllOpened(g) == \A m \in letters : m.to = g => m \in opened

Newest(g) == {m \in letters : m.to = g /\ m.kind = "REQUEST" /\ m.seq = meeting.seq}

(* A guest to whom the newest state of the event was mailed shows it once  *)
(* the mails have arrived, however many editors wrote side by side and in  *)
(* whatever order the mails came: a sequence number means one state.  That *)
(* it is the state of the row holds when all edits are the dialog's: what  *)
(* CalDAV, or a PUT without attendees from a stale row, changes is not     *)
(* mailed.                                                                 *)
NewestIsShown ==
  \A g \in Guests :
    Alive /\ Newest(g) # {} /\ AllOpened(g) =>
      /\ shown[g].kind = "REQUEST" /\ shown[g].seq = meeting.seq
      /\ cast.dialog => shown[g].time = meeting.time

(* A cancellation that was mailed wins over every invitation, unless a PUT *)
(* came between DELETE's read and its delete.                              *)
CancelIsShown ==
  \A m \in letters :
    m.kind = "CANCEL" /\ m.seq > meeting.seq /\ AllOpened(m.to) =>
      shown[m.to].kind = "CANCEL"

GuestsFollow == NewestIsShown /\ CancelIsShown

OneReader == \A r, s \in cast.readers : r = s

AnswersNow(g) == {m \in replies : m.from = g /\ m.seq = meeting.seq}

(* When replies are stored one after the other, the one answer of a guest  *)
(* to the newest state stands: replies to older states that come late or   *)
(* again, and writes of the list that were begun before, do not undo it.   *)
AnswersAreKept ==
  OneReader =>
    \A g \in Guests, m \in replies :
      Alive /\ AnswersNow(g) = {m} /\ m \in filed => meeting.att[g] \in {m.stat, "out"}

(* Nobody is shown with an answer that was never given, whoever writes.    *)
AnswersAreReal ==
  \A g \in Guests :
    meeting.att[g] \in {"yes", "no"} =>
      \E m \in replies : m.from = g /\ m.stat = meeting.att[g]

AnswersHold == AnswersAreKept /\ AnswersAreReal
=============================================================================
