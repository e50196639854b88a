--------------------------- MODULE InvitationsProofs ---------------------------
(***************************************************************************)
(* Proofs about Invitations, for any number of guests, editors, readers,   *)
(* edits and replies.                                                      *)
(*                                                                         *)
(* Why it works: only the row's own sequence numbers invitations, and it   *)
(* rises with each state that is mailed, so a number means one state and   *)
(* the highest one is the newest.  A reply carries the number of a state   *)
(* that was mailed, so none is newer than the row: a reader that began     *)
(* before the row's number rose holds an older one, and no answer to the   *)
(* new state is stored before it has written.                              *)
(***************************************************************************)
EXTENDS Invitations, TLAPS

(* Mails: invitations are not newer than the row, cancellations come after *)
(* it is gone, and in the dialog the row's number means the row's time.    *)
LettersFit ==
  /\ \A m \in letters : m.kind = "REQUEST" => m.seq <= meeting.seq
  /\ \A m \in letters : m.kind = "CANCEL" => meeting.is = "deleted"
  /\ meeting.is = "unborn" => letters = {} /\ replies = {}

DialogFits ==
  cast.dialog =>
    /\ \A e \in Editors : editor[e].at = "put" => editor[e].whole
    /\ \A m \in letters :
         m.kind = "REQUEST" /\ m.seq = meeting.seq => m.time = meeting.time

(* A guest's calendar shows the mail with the highest number it has seen.  *)
ShownIsOpened ==
  \A g \in Guests :
    shown[g].kind # "none" =>
      \E m \in opened : m = [kind |-> shown[g].kind, to |-> g, seq |-> shown[g].seq,
                             time |-> shown[g].time]

ShownIsHighest ==
  \A m \in opened : shown[m.to].kind # "none" /\ m.seq <= shown[m.to].seq

(* No reply is newer than the row, and a reader holds one of its state.    *)
RepliesFit ==
  /\ \A m \in replies : m.seq <= meeting.seq
  /\ \A r \in Readers : reader[r].at = "write" =>
       /\ reader[r].mail \in replies
       /\ reader[r].mail.seq = reader[r].seq /\ reader[r].seq <= meeting.seq

(* One reader: while the row has the number it has read the list is the    *)
(* one it has read, and once that has risen nothing newer was stored.      *)
ReaderFits ==
  OneReader =>
    \A r \in cast.readers : reader[r].at = "write" =>
      /\ Alive /\ meeting.seq = reader[r].seq => meeting.att = reader[r].att
      /\ reader[r].seq < meeting.seq => \A m \in filed : m.seq # meeting.seq

(* No list shows an answer that is in none of the replies.                 *)
Given(list, mails) ==
  \A g \in Guests : list[g] \in {"yes", "no"} =>
    \E m \in mails : m.from = g /\ m.stat = list[g]

ListsAreGiven ==
  /\ Given(meeting.att, replies)
  /\ \A e \in Editors : Given(editor[e].list, replies)
  /\ \A r \in Readers : Given(reader[r].att, replies)

InvInv ==
  /\ InvTypeOK /\ LettersFit /\ DialogFits
  /\ ShownIsOpened /\ ShownIsHighest
  /\ RepliesFit /\ ReaderFits /\ ListsAreGiven /\ AnswersAreKept

-----------------------------------------------------------------------------
(* Types.                                                                  *)

LEMMA InvFirsts ==
  /\ NoTime \in Times /\ Nobody \in List
  /\ NoEditor \in Editor /\ NoReply \in Reply /\ NoReader \in Reader
<1>1. NoTime \in Times  BY InvitationsAssumption DEF NoTime
<1>2. Nobody \in List  BY DEF Nobody, List
<1>3. NoEditor \in Editor
  <2>1. /\ NoEditor.at = "idle" /\ NoEditor.time = NoTime /\ NoEditor.list = Nobody
        /\ NoEditor.seq = 0
    BY DEF NoEditor
  <2>. QED  BY <1>1, <1>2, Zenon DEF NoEditor, Editor
<1>4. (CHOOSE g \in Guests : TRUE) \in Guests  BY InvitationsAssumption
<1>5. NoReply \in Reply  BY <1>4 DEF NoReply, Reply
<1>6. NoReader \in Reader  BY <1>2, <1>5 DEF NoReader, Reader
<1>. QED  BY <1>1, <1>2, <1>3, <1>5, <1>6

LEMMA AskedType ==
  ASSUME meeting \in Row, NEW at \in {"put", "delete"}, NEW time \in Times, NEW list \in List,
         NEW whole \in BOOLEAN, NEW moved \in BOOLEAN
  PROVE  Asked(at, time, list, whole, moved) \in Editor
<1>1. meeting.seq \in Nat  BY DEF Row
<1>2. at \in {"idle", "put", "delete"}  OBVIOUS
<1>. QED  BY <1>1, <1>2, Zenon DEF Asked, Editor

LEMMA ListedType ==
  ASSUME NEW list \in List, NEW who
  PROVE  Listed(list, who) \in List
<1>1. \A g \in Guests : (IF g \notin who THEN "out"
                         ELSE IF list[g] = "out" THEN "open" ELSE list[g]) \in Stat \cup {"out"}
  BY DEF List, Stat
<1>. QED  BY <1>1 DEF Listed, List

LEMMA LettersType ==
  ASSUME letters \subseteq Letter, NEW kind \in {"REQUEST", "CANCEL"}, NEW seq \in Nat,
         NEW time \in Times, NEW list, SendInvitations(kind, seq, time, list)
  PROVE  letters' \subseteq Letter
<1>1. \A g \in On(list) : [kind |-> kind, to |-> g, seq |-> seq, time |-> time] \in Letter
  BY DEF On, Letter
<1>. QED  BY <1>1 DEF SendInvitations

LEMMA InvTypeInit == InvInit => InvTypeOK
<1>. SUFFICES ASSUME InvInit PROVE InvTypeOK
  OBVIOUS
<1>1. meeting \in Row  BY InvFirsts DEF InvInit, Row
<1>2. editor \in [Editors -> Editor]  BY InvFirsts DEF InvInit
<1>3. shown \in [Guests -> Shown]  BY InvFirsts DEF InvInit, Shown
<1>4. reader \in [Readers -> Reader]  BY InvFirsts DEF InvInit
<1>. QED  BY <1>1, <1>2, <1>3, <1>4 DEF InvInit, InvTypeOK

LEMMA EditTypes ==
  ASSUME InvTypeOK, Edits
  PROVE  /\ meeting' \in Row /\ editor' \in [Editors -> Editor]
         /\ letters' \subseteq Letter /\ edits' \in Nat
<1>. USE DEF InvTypeOK
<1>1. /\ cast.guests \subseteq Guests /\ cast.editors \subseteq Editors
      /\ cast.readers \subseteq Readers
  BY InvitationsAssumption DEF Cast
<1>2. meeting.is \in {"unborn", "alive", "deleted"} /\ meeting.seq \in Nat
      /\ meeting.time \in Times /\ meeting.att \in List
  BY DEF Row
<1>3. ASSUME NEW is \in {"unborn", "alive", "deleted"}, NEW seq \in Nat, NEW time \in Times,
             NEW att \in List
      PROVE  [is |-> is, seq |-> seq, time |-> time, att |-> att] \in Row
  BY DEF Row
<1>4. meeting = [is |-> meeting.is, seq |-> meeting.seq, time |-> meeting.time,
                 att |-> meeting.att]
  BY DEF Row
<1>5. ASSUME NEW t \in Times, NEW who \in SUBSET cast.guests, CreateEvent(t, who)
      PROVE  /\ meeting' \in Row /\ editor' \in [Editors -> Editor]
             /\ letters' \subseteq Letter /\ edits' \in Nat
  <2>1. meeting' \in Row  BY <1>5, <1>3, InvFirsts, ListedType DEF CreateEvent
  <2>2. letters' \subseteq Letter  BY <1>5, LettersType DEF CreateEvent
  <2>. QED  BY <1>5, <2>1, <2>2 DEF CreateEvent
<1>6. ASSUME NEW e \in cast.editors, WriteEvent(e)
      PROVE  /\ meeting' \in Row /\ editor' \in [Editors -> Editor]
             /\ letters' \subseteq Letter /\ edits' \in Nat
  <2>1. e \in Editors /\ editor[e] \in Editor  BY <1>1
  <2>2. /\ editor[e].time \in Times /\ editor[e].list \in List
    BY <2>1 DEF Editor
  <2>3. editor' \in [Editors -> Editor]  BY <1>6, <2>1, InvFirsts DEF WriteEvent
  <2>4. CASE ~Alive
    BY <1>6, <2>3, <2>4 DEF WriteEvent
  <2>5. CASE Alive
    <3>1. PICK seq, att : /\ meeting' = [is |-> meeting.is, seq |-> seq,
                                       time |-> editor[e].time, att |-> att]
                          /\ seq = IF WillSendUpdate(e) THEN NextSequence(e) ELSE meeting.seq
                          /\ att = IF editor[e].whole THEN editor[e].list ELSE meeting.att
      <4>. DEFINE s == IF WillSendUpdate(e) THEN NextSequence(e) ELSE meeting.seq
                  a == IF editor[e].whole THEN editor[e].list ELSE meeting.att
      <4>1. meeting' = [meeting EXCEPT !.time = editor[e].time, !.seq = s, !.att = a]
        BY <1>6, <2>5, Zenon DEF WriteEvent
      <4>. HIDE DEF s, a
      <4>2. meeting' = [is |-> meeting.is, seq |-> s, time |-> editor[e].time, att |-> a]
        BY <4>1, <1>4
      <4>. QED  BY <4>2, Zenon DEF s, a
    <3>2. seq \in Nat  BY <3>1, <1>2 DEF NextSequence
    <3>3. att \in List  BY <3>1, <1>2, <2>2, Zenon
    <3>4. meeting' \in Row  BY <3>1, <3>2, <3>3, <1>2, <1>3, <2>2
    <3>5. letters' \subseteq Letter
      <4>1. CASE WillSendUpdate(e)
        <5>1. SendInvitations("REQUEST", meeting'.seq, meeting'.time, meeting'.att)
          BY <1>6, <2>5, <4>1, Zenon DEF WriteEvent
        <5>2. meeting'.seq \in Nat /\ meeting'.time \in Times  BY <3>4 DEF Row
        <5>. QED  BY <5>1, <5>2, LettersType
      <4>2. CASE ~WillSendUpdate(e)
        BY <1>6, <2>5, <4>2, Zenon DEF WriteEvent
      <4>. QED  BY <4>1, <4>2
    <3>. QED  BY <1>6, <2>3, <3>4, <3>5 DEF WriteEvent
  <2>. QED  BY <2>4, <2>5
<1>7. ASSUME NEW e \in cast.editors, AskDelete(e)
      PROVE  /\ meeting' \in Row /\ editor' \in [Editors -> Editor]
             /\ letters' \subseteq Letter /\ edits' \in Nat
  <2>1. Asked("delete", meeting.time, meeting.att, FALSE, FALSE) \in Editor
    BY <1>2, AskedType
  <2>. DEFINE x == Asked("delete", meeting.time, meeting.att, FALSE, FALSE)
  <2>2. editor' = [editor EXCEPT ![e] = x]  BY <1>7, Zenon DEF AskDelete
  <2>3. x \in Editor  BY <2>1
  <2>. HIDE DEF x
  <2>4. editor' \in [Editors -> Editor]  BY <1>1, <2>2, <2>3
  <2>5. UNCHANGED <<meeting, letters>> /\ edits' = edits + 1
    BY <1>7, Zenon DEF AskDelete, Begins
  <2>. QED  BY <2>4, <2>5
<1>8. ASSUME NEW e \in cast.editors, DeleteEvent(e)
      PROVE  /\ meeting' \in Row /\ editor' \in [Editors -> Editor]
             /\ letters' \subseteq Letter /\ edits' \in Nat
  <2>1. e \in Editors /\ editor[e] \in Editor  BY <1>1
  <2>2. /\ editor[e].time \in Times /\ editor[e].seq + 1 \in Nat
    BY <2>1 DEF Editor
  <2>3. editor' \in [Editors -> Editor]  BY <1>8, <2>1, InvFirsts DEF DeleteEvent
  <2>4. meeting' \in Row  BY <1>8, <1>2, <1>3, <1>4 DEF DeleteEvent
  <2>5. letters' \subseteq Letter  BY <1>8, <2>2, LettersType DEF DeleteEvent
  <2>. QED  BY <1>8, <2>3, <2>4, <2>5 DEF DeleteEvent
<1>9. ASSUME NEW e \in cast.editors, NEW t \in Times, PutSomeFields(e, t)
      PROVE  /\ meeting' \in Row /\ editor' \in [Editors -> Editor]
             /\ letters' \subseteq Letter /\ edits' \in Nat
  <2>1. (t # meeting.time) \in BOOLEAN  OBVIOUS
  <2>2. Asked("put", t, Nobody, FALSE, t # meeting.time) \in Editor
    BY <2>1, InvFirsts, AskedType
  <2>. DEFINE x == Asked("put", t, Nobody, FALSE, t # meeting.time)
  <2>3. editor' = [editor EXCEPT ![e] = x]  BY <1>9, Zenon DEF PutSomeFields
  <2>4. x \in Editor  BY <2>2
  <2>. HIDE DEF x
  <2>5. editor' \in [Editors -> Editor]  BY <1>1, <2>3, <2>4
  <2>6. UNCHANGED <<meeting, letters>> /\ edits' = edits + 1
    BY <1>9, Zenon DEF PutSomeFields, Begins
  <2>. QED  BY <2>5, <2>6
<1>10. ASSUME NEW e \in cast.editors, NEW t \in Times, NEW who \in SUBSET cast.guests,
              SaveForm(e, t, who)
      PROVE  /\ meeting' \in Row /\ editor' \in [Editors -> Editor]
             /\ letters' \subseteq Letter /\ edits' \in Nat
  <2>1. (t # meeting.time) \in BOOLEAN  OBVIOUS
  <2>2. Listed(meeting.att, who) \in List  BY <1>2, ListedType
  <2>3. Asked("put", t, Listed(meeting.att, who), TRUE, t # meeting.time) \in Editor
    BY <2>1, <2>2, AskedType
  <2>. DEFINE x == Asked("put", t, Listed(meeting.att, who), TRUE, t # meeting.time)
  <2>4. editor' = [editor EXCEPT ![e] = x]  BY <1>10, Zenon DEF SaveForm
  <2>5. x \in Editor  BY <2>3
  <2>. HIDE DEF x
  <2>6. editor' \in [Editors -> Editor]  BY <1>1, <2>4, <2>5
  <2>7. UNCHANGED <<meeting, letters>> /\ edits' = edits + 1
    BY <1>10, Zenon DEF SaveForm, Begins
  <2>. QED  BY <2>6, <2>7
<1>11. ASSUME NEW t \in Times, DavPut(t)
      PROVE  /\ meeting' \in Row /\ editor' \in [Editors -> Editor]
             /\ letters' \subseteq Letter /\ edits' \in Nat
  BY <1>11, <1>2, <1>3, <1>4 DEF DavPut, Begins
<1>12. ASSUME DavDelete
      PROVE  /\ meeting' \in Row /\ editor' \in [Editors -> Editor]
             /\ letters' \subseteq Letter /\ edits' \in Nat
  BY <1>12, <1>2, <1>3, <1>4 DEF DavDelete, Begins
<1>. HIDE DEF InvTypeOK
<1>. QED  BY <1>5, <1>6, <1>7, <1>8, <1>9, <1>10, <1>11, <1>12, Zenon DEF Edits

LEMMA InvTypeNext == InvTypeOK /\ RepliesFit /\ [InvNext]_invVars => InvTypeOK'
<1>. SUFFICES ASSUME InvTypeOK, RepliesFit, [InvNext]_invVars PROVE InvTypeOK'
  OBVIOUS
<1>0. cast.readers \subseteq Readers
  BY InvitationsAssumption DEF InvTypeOK, Cast
<1>1. CASE Edits
  <2>1. letters \subseteq letters'
    BY <1>1, Zenon DEF Edits, CreateEvent, SaveForm, PutSomeFields, WriteEvent, AskDelete,
                DeleteEvent, DavPut, DavDelete, SendInvitations
  <2>. QED  BY <1>1, <2>1, EditTypes DEF Edits, InvTypeOK
<1>2. ASSUME NEW m \in letters, OpenLetter(m) PROVE InvTypeOK'
  <2>1. m \in Letter  BY DEF InvTypeOK
  <2>2. [kind |-> m.kind, seq |-> m.seq, time |-> m.time] \in Shown /\ m.to \in Guests
    BY <2>1 DEF Letter, Shown
  <2>3. shown' \in [Guests -> Shown]  BY <1>2, <2>2 DEF OpenLetter, InvTypeOK
  <2>. QED  BY <1>2, <2>3 DEF OpenLetter, InvTypeOK
<1>3. ASSUME NEW g \in Guests, NEW stat \in {"yes", "no"}, Answer(g, stat) PROVE InvTypeOK'
  <2>1. shown[g].seq \in Nat  BY DEF InvTypeOK, Shown
  <2>2. [from |-> g, seq |-> shown[g].seq, stat |-> stat] \in Reply  BY <2>1 DEF Reply
  <2>. QED  BY <1>3, <2>2 DEF Answer, InvTypeOK
<1>4. ASSUME NEW r \in cast.readers, NEW m \in replies, ReadReplyMail(r, m) PROVE InvTypeOK'
  <2>1. meeting.seq \in Nat /\ meeting.att \in List /\ m \in Reply
    BY DEF InvTypeOK, Row
  <2>2. [at |-> "write", mail |-> m, seq |-> meeting.seq, att |-> meeting.att] \in Reader
    BY <2>1 DEF Reader
  <2>3. reader' \in [Readers -> Reader]  BY <1>4, <1>0, <2>2 DEF ReadReplyMail, InvTypeOK
  <2>4. filed' \subseteq replies  BY <1>4 DEF ReadReplyMail, InvTypeOK
  <2>. QED  BY <1>4, <2>3, <2>4 DEF ReadReplyMail, InvTypeOK
<1>5. ASSUME NEW r \in cast.readers, WriteAnswer(r) PROVE InvTypeOK'
  <2>1. reader[r] \in Reader  BY <1>0 DEF InvTypeOK
  <2>2. /\ reader[r].att \in List /\ reader[r].mail \in Reply
    BY <2>1 DEF Reader
  <2>3. [reader[r].att EXCEPT ![reader[r].mail.from] = reader[r].mail.stat] \in List
    BY <2>2 DEF List, Stat, Reply
  <2>4. meeting' \in Row
    <3>. DEFINE a == [reader[r].att EXCEPT ![reader[r].mail.from] = reader[r].mail.stat]
    <3>1. meeting' = meeting \/ meeting' = [meeting EXCEPT !.att = a]
      BY <1>5, Zenon DEF WriteAnswer
    <3>2. a \in List /\ meeting \in Row  BY <2>3 DEF InvTypeOK
    <3>. HIDE DEF a
    <3>. QED  BY <3>1, <3>2 DEF Row
  <2>5. reader' \in [Readers -> Reader]
    BY <1>5, <1>0, InvFirsts DEF WriteAnswer, InvTypeOK
  <2>6. reader[r].mail \in replies  BY <1>5, <1>0 DEF WriteAnswer, RepliesFit
  <2>. QED  BY <1>5, <2>4, <2>5, <2>6 DEF WriteAnswer, InvTypeOK
<1>6. CASE UNCHANGED invVars
  BY <1>6 DEF invVars, InvTypeOK, Alive
<1>. QED  BY <1>1, <1>2, <1>3, <1>4, <1>5, <1>6, Zenon DEF InvNext

-----------------------------------------------------------------------------
(* What edits do to the row, the mails and the lists: each new state is    *)
(* numbered anew, and only a new state has another list.                   *)

LEMMA SentLetters ==
  ASSUME NEW kind, NEW seq, NEW time, NEW list, SendInvitations(kind, seq, time, list)
  PROVE  /\ letters \subseteq letters'
         /\ \A m \in letters' : m \in letters \/ (m.kind = kind /\ m.seq = seq /\ m.time = time)
BY DEF SendInvitations

RowFollows ==
  \/ UNCHANGED meeting /\ UNCHANGED letters
  \/ /\ Alive /\ meeting'.is = "alive" /\ UNCHANGED letters
     /\ meeting'.seq = meeting.seq /\ meeting'.att = meeting.att
     /\ cast.dialog => meeting'.time = meeting.time
  \/ /\ Alive \/ meeting.is = "unborn"
     /\ meeting'.is = "alive"
     /\ Alive => meeting'.seq = meeting.seq + 1
     /\ letters \subseteq letters'
     /\ \A m \in letters' : m \in letters \/ (m.kind = "REQUEST" /\ m.seq = meeting'.seq
                                              /\ m.time = meeting'.time)
  \/ /\ Alive /\ meeting'.is = "deleted" /\ meeting'.seq = meeting.seq
     /\ meeting'.time = meeting.time
     /\ letters \subseteq letters'
     /\ \A m \in letters' : m \in letters \/ m.kind = "CANCEL"

LEMMA EditsFollow ==
  ASSUME InvTypeOK, DialogFits, Edits
  PROVE  RowFollows
<1>. USE DEF InvTypeOK
<1>1. cast.editors \subseteq Editors
  BY InvitationsAssumption DEF Cast
<1>2. meeting.is \in {"unborn", "alive", "deleted"} /\ meeting.seq \in Nat
  BY DEF Row
<1>3. meeting = [is |-> meeting.is, seq |-> meeting.seq, time |-> meeting.time,
                 att |-> meeting.att]
  BY DEF Row
<1>4. ASSUME NEW t \in Times, NEW who \in SUBSET cast.guests, CreateEvent(t, who)
      PROVE  RowFollows
  <2>1. /\ meeting.is = "unborn" /\ meeting'.is = "alive" /\ meeting'.seq = 0
        /\ meeting'.time = t /\ SendInvitations("REQUEST", 0, t, meeting'.att)
    BY <1>4 DEF CreateEvent
  <2>. QED  BY <2>1, SentLetters DEF RowFollows, Alive
<1>5. ASSUME NEW e \in cast.editors, WriteEvent(e)
      PROVE  RowFollows
  <2>1. CASE ~Alive
    BY <1>5, <2>1, Zenon DEF WriteEvent, RowFollows
  <2>2. CASE Alive /\ WillSendUpdate(e)
    <3>1. /\ meeting'.is = "alive" /\ meeting'.seq = meeting.seq + 1
      <4>. DEFINE s == IF WillSendUpdate(e) THEN NextSequence(e) ELSE meeting.seq
                  a == IF editor[e].whole THEN editor[e].list ELSE meeting.att
      <4>1. meeting' = [meeting EXCEPT !.time = editor[e].time, !.seq = s, !.att = a]
        BY <1>5, <2>2, Zenon DEF WriteEvent
      <4>2. s = meeting.seq + 1  BY <2>2 DEF NextSequence
      <4>. HIDE DEF s, a
      <4>3. meeting' = [is |-> meeting.is, seq |-> s, time |-> editor[e].time, att |-> a]
        BY <4>1, <1>3
      <4>. QED  BY <4>2, <4>3, <2>2 DEF Alive
    <3>2. SendInvitations("REQUEST", meeting'.seq, meeting'.time, meeting'.att)
      BY <1>5, <2>2, Zenon DEF WriteEvent
    <3>. QED  BY <3>1, <3>2, <2>2, SentLetters DEF RowFollows
  <2>3. CASE Alive /\ ~WillSendUpdate(e)
    <3>0. ~editor[e].whole  BY <2>3, Zenon DEF WillSendUpdate
    <3>1. /\ meeting'.is = "alive" /\ meeting'.seq = meeting.seq
          /\ meeting'.att = meeting.att
      <4>. DEFINE s == IF WillSendUpdate(e) THEN NextSequence(e) ELSE meeting.seq
                  a == IF editor[e].whole THEN editor[e].list ELSE meeting.att
      <4>1. meeting' = [meeting EXCEPT !.time = editor[e].time, !.seq = s, !.att = a]
        BY <1>5, <2>3, Zenon DEF WriteEvent
      <4>2. s = meeting.seq  BY <2>3, Zenon
      <4>3. a = meeting.att  BY <3>0, Zenon
      <4>. HIDE DEF s, a
      <4>4. meeting' = [is |-> meeting.is, seq |-> s, time |-> editor[e].time, att |-> a]
        BY <4>1, <1>3
      <4>. QED  BY <4>2, <4>3, <4>4, <2>3 DEF Alive
    <3>2. UNCHANGED letters  BY <1>5, <2>3, Zenon DEF WriteEvent
    <3>3. ~cast.dialog
      <4>1. e \in Editors /\ editor[e].at = "put"  BY <1>5, <1>1 DEF WriteEvent
      <4>. QED  BY <4>1, <3>0, Zenon DEF DialogFits
    <3>. QED  BY <3>1, <3>2, <3>3, <2>3 DEF RowFollows
  <2>. QED  BY <2>1, <2>2, <2>3, Zenon
<1>6. ASSUME NEW e \in cast.editors, DeleteEvent(e)
      PROVE  RowFollows
  <2>1. CASE ~Alive
    BY <1>6, <2>1, Zenon DEF DeleteEvent, RowFollows
  <2>2. CASE Alive
    <3>1. meeting' = [meeting EXCEPT !.is = "deleted"]
      BY <1>6, <2>2, Zenon DEF DeleteEvent
    <3>2. SendInvitations("CANCEL", editor[e].seq + 1, editor[e].time, editor[e].list)
      BY <1>6, <2>2, Zenon DEF DeleteEvent
    <3>3. /\ meeting'.is = "deleted" /\ meeting'.seq = meeting.seq
          /\ meeting'.time = meeting.time
      BY <3>1, <1>3
    <3>. QED  BY <2>2, <3>2, <3>3, SentLetters DEF RowFollows
  <2>. QED  BY <2>1, <2>2
<1>7. ASSUME NEW t \in Times, DavPut(t)
      PROVE  RowFollows
  <2>1. /\ Alive /\ ~cast.dialog /\ meeting' = [meeting EXCEPT !.time = t]
        /\ UNCHANGED letters
    BY <1>7, Zenon DEF DavPut, Begins
  <2>2. /\ meeting'.is = meeting.is /\ meeting'.seq = meeting.seq
        /\ meeting'.att = meeting.att
    BY <2>1, <1>3
  <2>. QED  BY <2>1, <2>2, Zenon DEF RowFollows, Alive
<1>8. ASSUME DavDelete
      PROVE  RowFollows
  <2>1. /\ Alive /\ meeting' = [meeting EXCEPT !.is = "deleted"] /\ UNCHANGED letters
    BY <1>8, Zenon DEF DavDelete, Begins
  <2>2. /\ meeting'.is = "deleted" /\ meeting'.seq = meeting.seq
        /\ meeting'.time = meeting.time
    BY <2>1, <1>3
  <2>. QED  BY <2>1, <2>2 DEF RowFollows
<1>9. ASSUME NEW e \in cast.editors,
             AskDelete(e) \/ (\E t \in Times : PutSomeFields(e, t))
             \/ (\E t \in Times, who \in SUBSET cast.guests : SaveForm(e, t, who))
      PROVE  RowFollows
  BY <1>9, Zenon DEF AskDelete, PutSomeFields, SaveForm, RowFollows
<1>. HIDE DEF InvTypeOK
<1>. QED  BY <1>4, <1>5, <1>6, <1>7, <1>8, <1>9, Zenon DEF Edits

-----------------------------------------------------------------------------
(* Mails and calendars.                                                    *)

LEMMA LettersNext == InvInv /\ [InvNext]_invVars => LettersFit'
<1>. SUFFICES ASSUME InvInv, [InvNext]_invVars PROVE LettersFit'
  OBVIOUS
<1>0. letters \subseteq Letter /\ meeting.seq \in Nat
  BY DEF InvInv, InvTypeOK, Row
<1>1. CASE Edits
  <2>1. RowFollows /\ UNCHANGED replies  BY <1>1, EditsFollow DEF InvInv, Edits
  <2>2. \A m \in letters : m.seq \in Nat  BY <1>0 DEF Letter
  <2>3. LettersFit  BY DEF InvInv
  <2>4. meeting'.seq \in Nat  BY <1>1, EditTypes DEF InvInv, Row
  <2>5. CASE UNCHANGED meeting /\ UNCHANGED letters  BY <2>1, <2>3, <2>5 DEF LettersFit
  <2>6. CASE meeting.is = "unborn" /\ ~(UNCHANGED meeting /\ UNCHANGED letters)
    <3>1. /\ meeting'.is = "alive"
          /\ \A m \in letters' : m.kind = "REQUEST" /\ m.seq = meeting'.seq
      BY <2>1, <2>3, <2>6 DEF RowFollows, LettersFit, Alive
    <3>. QED  BY <3>1, <2>4 DEF LettersFit
  <2>7. CASE Alive /\ meeting'.is = "alive"
    BY <2>1, <2>2, <2>3, <2>7, <1>0 DEF RowFollows, LettersFit, Alive
  <2>8. CASE Alive /\ meeting'.is = "deleted"
    BY <2>1, <2>3, <2>8, <1>0 DEF RowFollows, LettersFit, Alive
  <2>. QED  BY <2>1, <2>5, <2>6, <2>7, <2>8 DEF RowFollows
<1>2. ASSUME NEW g \in Guests, NEW stat \in {"yes", "no"}, Answer(g, stat) PROVE LettersFit'
  <2>1. shown[g].kind # "none"  BY <1>2 DEF Answer
  <2>2. letters # {}  BY <2>1 DEF InvInv, ShownIsOpened, InvTypeOK
  <2>. QED  BY <1>2, <2>2 DEF Answer, InvInv, LettersFit
<1>3. ASSUME NEW r \in cast.readers, WriteAnswer(r) PROVE LettersFit'
  <2>1. /\ meeting'.is = meeting.is /\ meeting'.seq = meeting.seq
        /\ UNCHANGED <<letters, replies>>
    BY <1>3 DEF WriteAnswer, InvInv, InvTypeOK, Row
  <2>. QED  BY <2>1 DEF InvInv, LettersFit
<1>4. CASE UNCHANGED <<meeting, letters, replies>>
  BY <1>4 DEF InvInv, LettersFit
<1>. QED
  BY <1>1, <1>2, <1>3, <1>4, Zenon DEF InvNext, invVars, OpenLetter, ReadReplyMail

LEMMA DialogNext == InvInv /\ [InvNext]_invVars => DialogFits'
<1>. SUFFICES ASSUME InvInv, [InvNext]_invVars, cast'.dialog
              PROVE  /\ \A e \in Editors : editor'[e].at = "put" => editor'[e].whole
                     /\ \A m \in letters' :
                          m.kind = "REQUEST" /\ m.seq = meeting'.seq => m.time = meeting'.time
  BY Zenon DEF DialogFits
<1>1. cast' = cast /\ cast.dialog
  BY Zenon DEF InvNext, Edits, OpenLetter, Answer, ReadReplyMail, WriteAnswer, invVars
<1>2. /\ \A e \in Editors : editor[e].at = "put" => editor[e].whole
      /\ \A m \in letters :
           m.kind = "REQUEST" /\ m.seq = meeting.seq => m.time = meeting.time
  BY <1>1, Zenon DEF InvInv, DialogFits
<1>3. /\ letters \subseteq Letter /\ meeting.seq \in Nat
      /\ editor \in [Editors -> Editor] /\ cast.editors \subseteq Editors
  BY InvitationsAssumption DEF InvInv, InvTypeOK, Row, Cast
<1>4. CASE Edits
  <2>1. RowFollows  BY <1>4, EditsFollow DEF InvInv
  <2>2. \A m \in letters : m.seq \in Nat /\ (m.kind = "REQUEST" => m.seq <= meeting.seq)
    BY <1>3 DEF Letter, InvInv, LettersFit
  <2>3. meeting.is = "unborn" => letters = {}
    BY DEF InvInv, LettersFit
  <2>4. \A m \in letters' :
          m.kind = "REQUEST" /\ m.seq = meeting'.seq => m.time = meeting'.time
    <3>1. ASSUME UNCHANGED meeting /\ UNCHANGED letters
          PROVE  \A m \in letters' :
                   m.kind = "REQUEST" /\ m.seq = meeting'.seq => m.time = meeting'.time
      BY <3>1, <1>2
    <3>2. CASE ~(UNCHANGED meeting /\ UNCHANGED letters) /\ meeting'.is # "deleted"
      BY <3>2, <2>1, <2>2, <2>3, <1>1, <1>2, <1>3 DEF RowFollows, Alive
    <3>3. CASE ~(UNCHANGED meeting /\ UNCHANGED letters) /\ meeting'.is = "deleted"
      <4>1. /\ meeting'.seq = meeting.seq /\ meeting'.time = meeting.time
            /\ \A m \in letters' : m \in letters \/ m.kind = "CANCEL"
        BY <3>3, <2>1 DEF RowFollows
      <4>. QED  BY <4>1, <1>2
    <3>. QED  BY <3>1, <3>2, <3>3
  <2>5. ASSUME NEW e \in Editors, editor'[e].at = "put" PROVE editor'[e].whole
    <3>1. ASSUME NEW f \in cast.editors, NEW x, x.at = "put" => x.whole,
                 editor' = [editor EXCEPT ![f] = x]
          PROVE  editor'[e].whole
      BY <3>1, <2>5, <1>2, <1>3, Zenon
    <3>2. NoEditor.at = "idle"  BY DEF NoEditor
    <3>3. \A t, list, moved : Asked("put", t, list, TRUE, moved).whole
      BY Zenon DEF Asked
    <3>4. \A t, list, w, moved : Asked("delete", t, list, w, moved).at = "delete"
      BY DEF Asked
    <3>5. CASE UNCHANGED editor  BY <3>5, <2>5, <1>2
    <3>6. ASSUME NEW f \in cast.editors, WriteEvent(f) \/ DeleteEvent(f)
          PROVE  editor'[e].whole
      BY <3>6, <3>1, <3>2, Zenon DEF WriteEvent, DeleteEvent
    <3>7. ASSUME NEW f \in cast.editors, AskDelete(f)
          PROVE  editor'[e].whole
      BY <3>7, <3>1, <3>4, Zenon DEF AskDelete
    <3>8. ASSUME NEW f \in cast.editors, NEW t \in Times, NEW who, SaveForm(f, t, who)
          PROVE  editor'[e].whole
      BY <3>8, <3>1, <3>3, Zenon DEF SaveForm
    <3>. QED
      BY <1>1, <1>4, <3>5, <3>6, <3>7, <3>8, Zenon
      DEF Edits, PutSomeFields, CreateEvent, DavPut, DavDelete
  <2>. QED  BY <2>4, <2>5
<1>5. ASSUME NEW r \in cast.readers, WriteAnswer(r)
      PROVE  /\ meeting'.seq = meeting.seq /\ meeting'.time = meeting.time
             /\ UNCHANGED <<letters, editor>>
  BY <1>5 DEF WriteAnswer, InvInv, InvTypeOK, Row
<1>6. CASE UNCHANGED <<meeting, letters, editor>>
  BY <1>6, <1>2, Zenon
<1>7. CASE /\ meeting'.seq = meeting.seq /\ meeting'.time = meeting.time
           /\ UNCHANGED <<letters, editor>>
  BY <1>7, <1>2, Zenon
<1>. QED
  BY <1>4, <1>5, <1>6, <1>7, Zenon DEF InvNext, invVars, OpenLetter, Answer, ReadReplyMail

LEMMA ShownNext ==
  InvInv /\ [InvNext]_invVars => ShownIsOpened' /\ ShownIsHighest'
<1>. SUFFICES ASSUME InvInv, [InvNext]_invVars PROVE ShownIsOpened' /\ ShownIsHighest'
  OBVIOUS
<1>1. /\ letters \subseteq Letter /\ opened \subseteq letters
      /\ shown \in [Guests -> Shown] /\ ShownIsOpened /\ ShownIsHighest
  BY DEF InvInv, InvTypeOK
<1>2. ASSUME NEW m \in letters, OpenLetter(m) PROVE ShownIsOpened' /\ ShownIsHighest'
  <2>1. /\ m.to \in Guests /\ m.seq \in Nat /\ m.kind \in {"REQUEST", "CANCEL"}
        /\ m = [kind |-> m.kind, to |-> m.to, seq |-> m.seq, time |-> m.time]
    BY <1>1 DEF Letter
  <2>2. \A n \in opened : n.to \in Guests /\ n.seq \in Nat
    BY <1>1 DEF Letter
  <2>3. shown[m.to].seq \in Nat  BY <1>1, <2>1 DEF Shown
  <2>4. opened' = opened \cup {m}  BY <1>2 DEF OpenLetter
  <2>5. CASE shown[m.to].kind = "none" \/ m.seq >= shown[m.to].seq
    <3>. DEFINE x == [kind |-> m.kind, seq |-> m.seq, time |-> m.time]
    <3>1. shown' = [shown EXCEPT ![m.to] = x]  BY <1>2, <2>5, Zenon DEF OpenLetter
    <3>2. x.kind = m.kind /\ x.seq = m.seq /\ x.time = m.time  OBVIOUS
    <3>. HIDE DEF x
    <3>3. shown'[m.to] = x /\ \A g \in Guests : g # m.to => shown'[g] = shown[g]
      BY <3>1, <1>1, <2>1
    <3>4. ShownIsOpened'
      <4>. SUFFICES ASSUME NEW g \in Guests, shown'[g].kind # "none"
                    PROVE  \E n \in opened' :
                             n = [kind |-> shown'[g].kind, to |-> g, seq |-> shown'[g].seq,
                                  time |-> shown'[g].time]
        BY DEF ShownIsOpened
      <4>1. CASE g = m.to
        BY <4>1, <2>1, <2>4, <3>2, <3>3
      <4>2. CASE g # m.to
        <5>1. shown'[g] = shown[g]  BY <4>2, <3>3
        <5>. QED  BY <5>1, <2>4, <1>1 DEF ShownIsOpened
      <4>. QED  BY <4>1, <4>2
    <3>5. ShownIsHighest'
      <4>. SUFFICES ASSUME NEW n \in opened'
                    PROVE  shown'[n.to].kind # "none" /\ n.seq <= shown'[n.to].seq
        BY DEF ShownIsHighest
      <4>1. CASE n = m  BY <4>1, <2>1, <3>2, <3>3
      <4>2. CASE n \in opened /\ n.to = m.to
        BY <4>2, <2>1, <2>2, <2>3, <2>5, <3>2, <3>3, <1>1 DEF ShownIsHighest
      <4>3. CASE n \in opened /\ n.to # m.to
        BY <4>3, <2>2, <3>3, <1>1 DEF ShownIsHighest
      <4>. QED  BY <4>1, <4>2, <4>3, <2>4
    <3>. QED  BY <3>4, <3>5
  <2>6. CASE ~(shown[m.to].kind = "none" \/ m.seq >= shown[m.to].seq)
    <3>1. shown' = shown  BY <1>2, <2>6, Zenon DEF OpenLetter
    <3>2. ShownIsOpened'  BY <3>1, <2>4, <1>1 DEF ShownIsOpened
    <3>3. ShownIsHighest'
      BY <3>1, <2>1, <2>3, <2>4, <2>6, <1>1 DEF ShownIsHighest
    <3>. QED  BY <3>2, <3>3
  <2>. QED  BY <2>5, <2>6
<1>3. CASE UNCHANGED <<shown, opened>>
  BY <1>1, <1>3 DEF ShownIsOpened, ShownIsHighest
<1>. QED
  BY <1>2, <1>3, Zenon DEF InvNext, invVars, Edits, Answer, ReadReplyMail, WriteAnswer

(* A guest shows no invitation that is newer than the row.                 *)
LEMMA ShownFits ==
  ASSUME InvInv, NEW g \in Guests, shown[g].kind = "REQUEST"
  PROVE  shown[g].seq <= meeting.seq
<1>1. PICK m \in opened : m = [kind |-> shown[g].kind, to |-> g, seq |-> shown[g].seq,
                               time |-> shown[g].time]
  BY DEF InvInv, ShownIsOpened
<1>2. m \in letters /\ m.kind = "REQUEST" /\ m.seq = shown[g].seq
  BY <1>1 DEF InvInv, InvTypeOK
<1>. QED  BY <1>2 DEF InvInv, LettersFit

-----------------------------------------------------------------------------
(* Replies and their readers.                                              *)

(* An edit never lowers the number of a row that has replies.              *)
LEMMA SeqRises ==
  ASSUME InvInv, Edits, replies # {}
  PROVE  /\ meeting.seq \in Nat /\ meeting'.seq \in Nat /\ meeting'.seq >= meeting.seq
         /\ meeting'.is = "alive" =>
              Alive /\ (meeting'.seq = meeting.seq => meeting'.att = meeting.att)
<1>1. RowFollows  BY EditsFollow DEF InvInv
<1>2. meeting.seq \in Nat /\ meeting'.seq \in Nat
  BY EditTypes DEF InvInv, InvTypeOK, Row
<1>3. meeting.is # "unborn"  BY DEF InvInv, LettersFit
<1>. QED  BY <1>1, <1>2, <1>3 DEF RowFollows, Alive

LEMMA RepliesNext == InvInv /\ [InvNext]_invVars => RepliesFit'
<1>. SUFFICES ASSUME InvInv, [InvNext]_invVars PROVE RepliesFit'
  OBVIOUS
<1>1. /\ replies \subseteq Reply /\ meeting.seq \in Nat
      /\ reader \in [Readers -> Reader] /\ RepliesFit
      /\ cast.readers \subseteq Readers /\ meeting \in Row
  BY InvitationsAssumption DEF InvInv, InvTypeOK, Row, Cast
<1>2. CASE Edits
  <2>1. UNCHANGED <<replies, reader>>  BY <1>2 DEF Edits
  <2>2. CASE replies = {}
    BY <2>1, <2>2, <1>1 DEF RepliesFit
  <2>3. CASE replies # {}
    <3>1. meeting'.seq \in Nat /\ meeting'.seq >= meeting.seq  BY <1>2, <2>3, SeqRises
    <3>2. /\ \A m \in replies : m.seq \in Nat
          /\ \A r \in Readers : reader[r].seq \in Nat
      BY <1>1 DEF Reply, Reader
    <3>. QED  BY <2>1, <3>1, <3>2, <1>1 DEF RepliesFit
  <2>. QED  BY <2>2, <2>3
<1>3. ASSUME NEW g \in Guests, NEW stat \in {"yes", "no"}, Answer(g, stat) PROVE RepliesFit'
  <2>1. shown[g].seq <= meeting.seq  BY <1>3, ShownFits DEF Answer
  <2>. QED  BY <1>3, <2>1, <1>1 DEF Answer, RepliesFit
<1>4. ASSUME NEW r \in cast.readers, NEW m \in replies, ReadReplyMail(r, m) PROVE RepliesFit'
  <2>1. UNCHANGED <<meeting, replies>>  BY <1>4 DEF ReadReplyMail
  <2>2. CASE UNCHANGED reader  BY <2>1, <2>2, <1>1 DEF RepliesFit
  <2>3. CASE ~UNCHANGED reader
    <3>. DEFINE x == [at |-> "write", mail |-> m, seq |-> meeting.seq, att |-> meeting.att]
    <3>1. reader' = [reader EXCEPT ![r] = x] /\ ~IsOld(m)
      BY <1>4, <2>3, Zenon DEF ReadReplyMail
    <3>2. x.mail = m /\ x.seq = meeting.seq  OBVIOUS
    <3>3. m.seq = meeting.seq  BY <3>1, <1>1 DEF IsOld, RepliesFit, Reply
    <3>. HIDE DEF x
    <3>4. \A s \in Readers : reader'[s] = IF s = r THEN x ELSE reader[s]
      BY <3>1, <1>1
    <3>. QED  BY <2>1, <3>2, <3>3, <3>4, <1>1 DEF RepliesFit
  <2>. QED  BY <2>2, <2>3
<1>5. ASSUME NEW r \in cast.readers, WriteAnswer(r) PROVE RepliesFit'
  <2>1. UNCHANGED replies /\ meeting'.seq = meeting.seq
    BY <1>5, <1>1 DEF WriteAnswer, Row
  <2>2. reader' = [reader EXCEPT ![r] = NoReader]  BY <1>5 DEF WriteAnswer
  <2>3. NoReader.at = "idle"  BY DEF NoReader
  <2>4. \A s \in Readers : reader'[s].at = "write" => reader'[s] = reader[s]
    BY <2>2, <2>3, <1>1
  <2>. QED  BY <2>1, <2>4, <1>1 DEF RepliesFit
<1>6. CASE UNCHANGED <<meeting, replies, reader>>
  BY <1>6, <1>1 DEF RepliesFit
<1>. QED
  BY <1>2, <1>3, <1>4, <1>5, <1>6, Zenon DEF InvNext, invVars, OpenLetter

LEMMA CastStays == [InvNext]_invVars => UNCHANGED cast
BY Zenon DEF InvNext, Edits, OpenLetter, Answer, ReadReplyMail, WriteAnswer, invVars

LEMMA ReaderNext == InvInv /\ [InvNext]_invVars => ReaderFits'
<1>. SUFFICES ASSUME InvInv, [InvNext]_invVars, OneReader,
                     NEW r \in cast.readers, reader'[r].at = "write"
              PROVE  /\ Alive' /\ meeting'.seq = reader'[r].seq
                          => meeting'.att = reader'[r].att
                     /\ reader'[r].seq < meeting'.seq => \A m \in filed' : m.seq # meeting'.seq
  BY CastStays DEF ReaderFits, OneReader
<1>1. /\ replies \subseteq Reply /\ meeting.seq \in Nat /\ filed \subseteq replies
      /\ reader \in [Readers -> Reader] /\ RepliesFit
      /\ r \in Readers /\ meeting \in Row
  BY InvitationsAssumption DEF InvInv, InvTypeOK, Row, Cast
<1>2. \A s \in cast.readers : s = r  BY DEF OneReader
<1>3. reader[r].at = "write" =>
        /\ Alive /\ meeting.seq = reader[r].seq => meeting.att = reader[r].att
        /\ reader[r].seq < meeting.seq => \A m \in filed : m.seq # meeting.seq
  BY DEF InvInv, ReaderFits
<1>4. CASE Edits
  <2>1. UNCHANGED <<replies, reader, filed>>  BY <1>4 DEF Edits
  <2>2. replies # {}  BY <2>1, <1>1 DEF RepliesFit
  <2>3. /\ meeting'.seq \in Nat /\ meeting'.seq >= meeting.seq
        /\ meeting'.is = "alive" =>
             Alive /\ (meeting'.seq = meeting.seq => meeting'.att = meeting.att)
    BY <1>4, <2>2, SeqRises
  <2>4. reader[r].seq \in Nat /\ reader[r].seq <= meeting.seq
    BY <2>1, <1>1 DEF RepliesFit, Reader
  <2>5. \A m \in filed : m.seq \in Nat /\ m.seq <= meeting.seq
    BY <1>1 DEF RepliesFit, Reply
  <2>6. Alive' /\ meeting'.seq = reader'[r].seq => meeting'.att = reader'[r].att
    BY <2>1, <2>3, <2>4, <1>1, <1>3 DEF Alive
  <2>7. reader'[r].seq < meeting'.seq => \A m \in filed' : m.seq # meeting'.seq
    BY <2>1, <2>3, <2>4, <2>5, <1>1, <1>3
  <2>. QED  BY <2>6, <2>7
<1>5. ASSUME NEW s \in cast.readers, NEW m \in replies, ReadReplyMail(s, m)
      PROVE  reader'[r].seq = meeting'.seq /\ reader'[r].att = meeting'.att
  <2>1. s = r /\ UNCHANGED meeting /\ reader[r].at = "idle"
    BY <1>2, <1>5 DEF ReadReplyMail
  <2>. DEFINE x == [at |-> "write", mail |-> m, seq |-> meeting.seq, att |-> meeting.att]
  <2>2. reader' = reader \/ reader' = [reader EXCEPT ![r] = x]
    BY <1>5, <2>1, Zenon DEF ReadReplyMail
  <2>3. x.seq = meeting.seq /\ x.att = meeting.att  OBVIOUS
  <2>. HIDE DEF x
  <2>4. reader'[r] = x  BY <2>1, <2>2, <1>1
  <2>. QED  BY <2>1, <2>3, <2>4
<1>6. ASSUME NEW s \in cast.readers, WriteAnswer(s) PROVE FALSE
  <2>1. reader' = [reader EXCEPT ![r] = NoReader]  BY <1>2, <1>6 DEF WriteAnswer
  <2>. QED  BY <2>1, <1>1 DEF NoReader
<1>7. CASE UNCHANGED <<meeting, filed, reader>>
  BY <1>7, <1>3 DEF Alive
<1>8. CASE reader'[r].seq = meeting'.seq /\ reader'[r].att = meeting'.att
  <2>1. meeting'.seq \in Nat
    BY InvTypeNext DEF InvInv, InvTypeOK, Row
  <2>. QED  BY <1>8, <2>1
<1>. QED
  BY <1>4, <1>5, <1>6, <1>7, <1>8, Zenon DEF InvNext, invVars, OpenLetter, Answer

-----------------------------------------------------------------------------
(* Answers.                                                                *)

LEMMA KeptNext == InvInv /\ [InvNext]_invVars => AnswersAreKept'
<1>. SUFFICES ASSUME InvInv, [InvNext]_invVars, OneReader,
                     NEW g \in Guests, NEW m \in replies',
                     Alive', AnswersNow(g)' = {m}, m \in filed'
              PROVE  meeting'.att[g] \in {m.stat, "out"}
  BY CastStays DEF AnswersAreKept, OneReader
<1>1. /\ replies \subseteq Reply /\ filed \subseteq replies /\ meeting.seq \in Nat
      /\ reader \in [Readers -> Reader] /\ RepliesFit
      /\ cast.readers \subseteq Readers /\ meeting \in Row
  BY InvitationsAssumption DEF InvInv, InvTypeOK, Row, Cast
<1>2. ASSUME Alive, AnswersNow(g) = {m}, m \in filed
      PROVE  meeting.att[g] \in {m.stat, "out"}
  BY <1>1, <1>2 DEF InvInv, AnswersAreKept
<1>3. m.from = g /\ m.seq = meeting'.seq  BY DEF AnswersNow
<1>4. CASE Edits
  <2>1. UNCHANGED <<replies, filed>>  BY <1>4 DEF Edits
  <2>2. /\ meeting'.seq \in Nat /\ meeting'.seq >= meeting.seq
        /\ Alive /\ (meeting'.seq = meeting.seq => meeting'.att = meeting.att)
    BY <1>4, <2>1, SeqRises DEF Alive
  <2>3. m.seq \in Nat /\ m.seq <= meeting.seq  BY <2>1, <1>1 DEF RepliesFit, Reply
  <2>4. meeting'.seq = meeting.seq /\ meeting'.att = meeting.att
    BY <2>2, <2>3, <1>1, <1>3
  <2>5. AnswersNow(g) = {m}  BY <2>1, <2>4 DEF AnswersNow
  <2>. QED  BY <2>1, <2>2, <2>4, <2>5, <1>2
<1>5. ASSUME NEW h \in Guests, NEW stat \in {"yes", "no"}, Answer(h, stat)
      PROVE  meeting'.att[g] \in {m.stat, "out"}
  <2>1. UNCHANGED <<meeting, filed>> /\ replies \subseteq replies'
    BY <1>5 DEF Answer
  <2>2. m \in AnswersNow(g)  BY <2>1, <1>1, <1>3 DEF AnswersNow
  <2>3. AnswersNow(g) \subseteq AnswersNow(g)'  BY <2>1 DEF AnswersNow
  <2>4. AnswersNow(g) = {m}  BY <2>2, <2>3
  <2>. QED  BY <2>1, <2>4, <1>2 DEF Alive
<1>6. ASSUME NEW r \in cast.readers, NEW n \in replies, ReadReplyMail(r, n)
      PROVE  meeting'.att[g] \in {m.stat, "out"}
  <2>1. UNCHANGED <<meeting, replies>>  BY <1>6 DEF ReadReplyMail
  <2>2. AnswersNow(g) = {m} /\ Alive  BY <2>1 DEF AnswersNow, Alive
  <2>3. CASE m \in filed  BY <2>1, <2>2, <2>3, <1>2
  <2>4. CASE m \notin filed
    <3>1. m = n /\ (~Alive \/ IsOld(n) \/ meeting.att[n.from] = "out")
      BY <2>4, <1>6, Zenon DEF ReadReplyMail
    <3>2. ~IsOld(m)  BY <1>1, <1>3, <2>1 DEF IsOld
    <3>. QED  BY <2>1, <2>2, <3>1, <3>2, <1>3
  <2>. QED  BY <2>3, <2>4
<1>7. ASSUME NEW r \in cast.readers, WriteAnswer(r)
      PROVE  meeting'.att[g] \in {m.stat, "out"}
  <2>. DEFINE n == reader[r].mail
  <2>1. /\ reader[r].at = "write" /\ filed' = filed \cup {n} /\ UNCHANGED replies
        /\ meeting'.is = meeting.is /\ meeting'.seq = meeting.seq
    BY <1>7, <1>1 DEF WriteAnswer, Row
  <2>2. AnswersNow(g) = {m} /\ Alive  BY <2>1 DEF AnswersNow, Alive
  <2>3. meeting'.att = [reader[r].att EXCEPT ![n.from] = n.stat]
    BY <1>7, <2>2, <1>1 DEF WriteAnswer, Row
  <2>4. /\ r \in Readers /\ n \in replies /\ n.seq = reader[r].seq
        /\ reader[r].seq <= meeting.seq /\ reader[r].seq \in Nat
        /\ reader[r].att \in List /\ n \in Reply
    BY <2>1, <1>1 DEF RepliesFit, Reader
  <2>5. /\ meeting.seq = reader[r].seq => meeting.att = reader[r].att
        /\ reader[r].seq < meeting.seq => \A k \in filed : k.seq # meeting.seq
    BY <2>1, <2>2 DEF InvInv, ReaderFits
  <2>6. meeting.seq = reader[r].seq
    <3>1. CASE m \in filed  BY <3>1, <2>1, <2>4, <2>5, <1>1, <1>3
    <3>2. CASE m = n  BY <3>2, <2>1, <2>4, <1>3
    <3>. QED  BY <3>1, <3>2, <2>1
  <2>7. n.from = g => n = m
    BY <2>2, <2>4, <2>6 DEF AnswersNow
  <2>8. CASE n.from = g
    BY <2>3, <2>4, <2>7, <2>8 DEF List
  <2>9. CASE n.from # g
    <3>1. meeting'.att[g] = meeting.att[g]  BY <2>3, <2>4, <2>5, <2>6, <2>9 DEF List
    <3>2. m \in filed  BY <2>1, <2>9, <1>3
    <3>. QED  BY <3>1, <3>2, <2>2, <1>2
  <2>. QED  BY <2>8, <2>9
<1>8. CASE UNCHANGED <<meeting, replies, filed>>
  BY <1>8, <1>1, <1>2 DEF AnswersNow, Alive
<1>. QED
  BY <1>4, <1>5, <1>6, <1>7, <1>8, Zenon DEF InvNext, invVars, OpenLetter

LEMMA GivenStays ==
  ASSUME NEW list, NEW mails, NEW more, Given(list, mails), mails \subseteq more
  PROVE  Given(list, more)
BY DEF Given

LEMMA ListedIsGiven ==
  ASSUME NEW list \in List, NEW mails, Given(list, mails), NEW who
  PROVE  Given(Listed(list, who), mails)
<1>1. \A g \in Guests : Listed(list, who)[g] \in {"yes", "no"} => Listed(list, who)[g] = list[g]
  BY DEF Listed
<1>. QED  BY <1>1 DEF Given

LEMMA NobodyIsGiven == \A mails : Given(Nobody, mails)
BY DEF Given, Nobody

LEMMA ListsNext == InvInv /\ [InvNext]_invVars => ListsAreGiven'
<1>. SUFFICES ASSUME InvInv, [InvNext]_invVars PROVE ListsAreGiven'
  OBVIOUS
<1>1. /\ replies \subseteq Reply /\ meeting \in Row /\ meeting.att \in List
      /\ reader \in [Readers -> Reader] /\ editor \in [Editors -> Editor] /\ RepliesFit
      /\ cast.readers \subseteq Readers /\ cast.editors \subseteq Editors
  BY InvitationsAssumption DEF InvInv, InvTypeOK, Row, Cast
<1>2. /\ Given(meeting.att, replies)
      /\ \A e \in Editors : Given(editor[e].list, replies)
      /\ \A r \in Readers : Given(reader[r].att, replies)
  BY DEF InvInv, ListsAreGiven
<1>3. NoEditor.list = Nobody /\ NoReader.att = Nobody  BY DEF NoEditor, NoReader
<1>4. CASE Edits
  <2>1. UNCHANGED <<replies, reader>>  BY <1>4 DEF Edits
  <2>2. ASSUME UNCHANGED meeting,
               NEW e \in cast.editors, NEW x, Given(x.list, replies),
               editor' = [editor EXCEPT ![e] = x]
        PROVE  ListsAreGiven'
    <3>1. \A f \in Editors : editor'[f] = IF f = e THEN x ELSE editor[f]  BY <1>1, <2>2
    <3>. QED  BY <3>1, <2>1, <2>2, <1>2 DEF ListsAreGiven
  <2>3. ASSUME Given(meeting'.att, replies), UNCHANGED editor \/
               (\E e \in cast.editors : editor' = [editor EXCEPT ![e] = NoEditor])
        PROVE  ListsAreGiven'
    <3>1. \A f \in Editors : editor'[f] = NoEditor \/ editor'[f] = editor[f]
      BY <1>1, <2>3
    <3>2. Given(NoEditor.list, replies)  BY <1>3, NobodyIsGiven
    <3>3. \A f \in Editors : Given(editor'[f].list, replies)  BY <3>1, <3>2, <1>2
    <3>. QED  BY <3>3, <2>1, <2>3, <1>2 DEF ListsAreGiven
  <2>4. ASSUME NEW t \in Times, NEW who, CreateEvent(t, who) PROVE ListsAreGiven'
    <3>1. Nobody \in List  BY InvFirsts
    <3>2. meeting'.att = Listed(Nobody, who) /\ UNCHANGED editor
      BY <2>4 DEF CreateEvent
    <3>3. Given(meeting'.att, replies)  BY <3>1, <3>2, NobodyIsGiven, ListedIsGiven
    <3>. QED  BY <2>3, <3>2, <3>3
  <2>5. ASSUME NEW e \in cast.editors, WriteEvent(e) PROVE ListsAreGiven'
    <3>1. editor' = [editor EXCEPT ![e] = NoEditor]  BY <2>5 DEF WriteEvent
    <3>2. CASE ~Alive  BY <2>3, <2>5, <3>1, <3>2, <1>2, Zenon DEF WriteEvent
    <3>3. CASE Alive
      <4>. DEFINE s == IF WillSendUpdate(e) THEN NextSequence(e) ELSE meeting.seq
                  a == IF editor[e].whole THEN editor[e].list ELSE meeting.att
      <4>1. meeting' = [meeting EXCEPT !.time = editor[e].time, !.seq = s, !.att = a]
        BY <2>5, <3>3, Zenon DEF WriteEvent
      <4>2. Given(a, replies)  BY <1>1, <1>2, Zenon
      <4>. HIDE DEF s, a
      <4>3. meeting'.att = a  BY <4>1, <1>1 DEF Row
      <4>. QED  BY <2>3, <3>1, <4>2, <4>3
    <3>. QED  BY <3>2, <3>3
  <2>6. ASSUME NEW e \in cast.editors, DeleteEvent(e) PROVE ListsAreGiven'
    <3>1. editor' = [editor EXCEPT ![e] = NoEditor]  BY <2>6 DEF DeleteEvent
    <3>2. meeting' = meeting \/ meeting' = [meeting EXCEPT !.is = "deleted"]
      BY <2>6, Zenon DEF DeleteEvent
    <3>3. meeting'.att = meeting.att  BY <3>2, <1>1 DEF Row
    <3>. QED  BY <2>3, <3>1, <3>3, <1>2
  <2>7. ASSUME NEW e \in cast.editors, AskDelete(e) PROVE ListsAreGiven'
    <3>. DEFINE x == Asked("delete", meeting.time, meeting.att, FALSE, FALSE)
    <3>1. editor' = [editor EXCEPT ![e] = x] /\ UNCHANGED meeting
      BY <2>7, Zenon DEF AskDelete
    <3>2. x.list = meeting.att  BY Zenon DEF Asked
    <3>. HIDE DEF x
    <3>. QED  BY <2>2, <3>1, <3>2, <1>2
  <2>8. ASSUME NEW e \in cast.editors, NEW t \in Times, PutSomeFields(e, t)
        PROVE  ListsAreGiven'
    <3>. DEFINE x == Asked("put", t, Nobody, FALSE, t # meeting.time)
    <3>1. editor' = [editor EXCEPT ![e] = x] /\ UNCHANGED meeting
      BY <2>8, Zenon DEF PutSomeFields
    <3>2. x.list = Nobody  BY Zenon DEF Asked
    <3>. HIDE DEF x
    <3>. QED  BY <2>2, <3>1, <3>2, NobodyIsGiven
  <2>9. ASSUME NEW e \in cast.editors, NEW t \in Times, NEW who, SaveForm(e, t, who)
        PROVE  ListsAreGiven'
    <3>. DEFINE x == Asked("put", t, Listed(meeting.att, who), TRUE, t # meeting.time)
    <3>1. editor' = [editor EXCEPT ![e] = x] /\ UNCHANGED meeting
      BY <2>9, Zenon DEF SaveForm
    <3>2. x.list = Listed(meeting.att, who)  BY Zenon DEF Asked
    <3>3. Given(x.list, replies)  BY <3>2, <1>1, <1>2, ListedIsGiven
    <3>. HIDE DEF x
    <3>. QED  BY <2>2, <3>1, <3>3
  <2>10. ASSUME (\E t \in Times : DavPut(t)) \/ DavDelete PROVE ListsAreGiven'
    <3>1. meeting'.att = meeting.att /\ UNCHANGED editor
      BY <2>10, <1>1 DEF DavPut, DavDelete, Row
    <3>. QED  BY <2>3, <3>1, <1>2
  <2>. QED  BY <1>4, <2>4, <2>5, <2>6, <2>7, <2>8, <2>9, <2>10, Zenon DEF Edits
<1>5. ASSUME NEW g \in Guests, NEW stat \in {"yes", "no"}, Answer(g, stat)
      PROVE  ListsAreGiven'
  <2>1. replies \subseteq replies' /\ UNCHANGED <<meeting, editor, reader>>
    BY <1>5 DEF Answer
  <2>. QED  BY <2>1, <1>2, GivenStays DEF ListsAreGiven
<1>6. ASSUME NEW r \in cast.readers, NEW m \in replies, ReadReplyMail(r, m)
      PROVE  ListsAreGiven'
  <2>. DEFINE x == [at |-> "write", mail |-> m, seq |-> meeting.seq, att |-> meeting.att]
  <2>1. /\ UNCHANGED <<replies, meeting, editor>>
        /\ reader' = reader \/ reader' = [reader EXCEPT ![r] = x]
    BY <1>6, Zenon DEF ReadReplyMail
  <2>2. x.att = meeting.att  OBVIOUS
  <2>. HIDE DEF x
  <2>3. \A s \in Readers : reader'[s] = x \/ reader'[s] = reader[s]  BY <2>1, <1>1
  <2>4. \A s \in Readers : Given(reader'[s].att, replies)  BY <2>2, <2>3, <1>2
  <2>. QED  BY <2>1, <2>4, <1>2 DEF ListsAreGiven
<1>7. ASSUME NEW r \in cast.readers, WriteAnswer(r) PROVE ListsAreGiven'
  <2>. DEFINE m == reader[r].mail
              a == [reader[r].att EXCEPT ![m.from] = m.stat]
  <2>1. /\ UNCHANGED <<replies, editor>> /\ reader' = [reader EXCEPT ![r] = NoReader]
        /\ meeting' = meeting \/ meeting' = [meeting EXCEPT !.att = a]
        /\ reader[r].at = "write"
    BY <1>7, Zenon DEF WriteAnswer
  <2>2. m \in replies /\ reader[r].att \in List /\ Given(reader[r].att, replies)
    BY <2>1, <1>1, <1>2 DEF RepliesFit, Reader
  <2>3. Given(a, replies)  BY <2>2 DEF Given, List
  <2>. HIDE DEF a
  <2>4. meeting'.att = meeting.att \/ meeting'.att = a  BY <2>1, <1>1 DEF Row
  <2>5. \A s \in Readers : reader'[s] = NoReader \/ reader'[s] = reader[s]
    BY <2>1, <1>1
  <2>6. Given(NoReader.att, replies)  BY <1>3, NobodyIsGiven
  <2>7. \A s \in Readers : Given(reader'[s].att, replies)  BY <2>5, <2>6, <1>2
  <2>. QED  BY <2>1, <2>3, <2>4, <2>7, <1>2 DEF ListsAreGiven
<1>8. CASE UNCHANGED <<meeting, editor, reader, replies>>
  BY <1>8, <1>2 DEF ListsAreGiven
<1>. QED
  BY <1>4, <1>5, <1>6, <1>7, <1>8, Zenon DEF InvNext, invVars, OpenLetter

-----------------------------------------------------------------------------
(* Theorems.                                                               *)

LEMMA InvInvInit == InvInit => InvInv
<1>. SUFFICES ASSUME InvInit PROVE InvInv
  OBVIOUS
<1>1. InvTypeOK  BY InvTypeInit
<1>2. /\ meeting.is = "unborn" /\ meeting.att = Nobody
      /\ letters = {} /\ opened = {} /\ replies = {} /\ filed = {}
      /\ \A g \in Guests : shown[g].kind = "none"
      /\ \A e \in Editors : editor[e] = NoEditor
      /\ \A r \in Readers : reader[r] = NoReader
    BY DEF InvInit
<1>3. /\ NoEditor.at = "idle" /\ NoEditor.list = Nobody
      /\ NoReader.at = "idle" /\ NoReader.att = Nobody
  BY DEF NoEditor, NoReader
<1>4. LettersFit /\ ShownIsOpened /\ ShownIsHighest /\ AnswersAreKept
  BY <1>2 DEF LettersFit, ShownIsOpened, ShownIsHighest, AnswersAreKept
<1>5. DialogFits  BY <1>2, <1>3 DEF DialogFits
<1>6. cast.readers \subseteq Readers
  BY <1>1, InvitationsAssumption DEF InvTypeOK, Cast
<1>7. RepliesFit /\ ReaderFits  BY <1>2, <1>3, <1>6 DEF RepliesFit, ReaderFits
<1>8. ListsAreGiven  BY <1>2, <1>3, NobodyIsGiven DEF ListsAreGiven
<1>. QED  BY <1>1, <1>4, <1>5, <1>7, <1>8 DEF InvInv

LEMMA InvInvNext == InvInv /\ [InvNext]_invVars => InvInv'
<1>. SUFFICES ASSUME InvInv, [InvNext]_invVars PROVE InvInv'
  OBVIOUS
<1>1. InvTypeOK'  BY InvTypeNext DEF InvInv
<1>. QED
  BY <1>1, LettersNext, DialogNext, ShownNext, RepliesNext, ReaderNext, KeptNext, ListsNext
  DEF InvInv

THEOREM InvInvHolds == InvSpec => []InvInv
BY InvInvInit, InvInvNext, PTL DEF InvSpec

(* Row, mails, calendars, editors and readers of calendar.ts and           *)
(* itip-inbound.ts keep their types.                                       *)
THEOREM InvTypes == InvSpec => []InvTypeOK
<1>1. InvInv => InvTypeOK  BY DEF InvInv
<1>. QED  BY InvInvHolds, <1>1, PTL

(* Guests who have opened their mails see the newest state that was mailed *)
(* to them, or the cancellation: SEQUENCE as calendar.ts counts it orders  *)
(* the mails however they come and however many editors there are.         *)
THEOREM GuestsDoFollow == InvSpec => []GuestsFollow
<1>1. InvInv => NewestIsShown
  <2>. SUFFICES ASSUME InvInv, NEW g \in Guests, Alive, Newest(g) # {}, AllOpened(g)
                PROVE  /\ shown[g].kind = "REQUEST" /\ shown[g].seq = meeting.seq
                       /\ cast.dialog => shown[g].time = meeting.time
    BY DEF NewestIsShown
  <2>1. PICK m \in letters : m.to = g /\ m.kind = "REQUEST" /\ m.seq = meeting.seq
    BY DEF Newest
  <2>2. m \in opened  BY <2>1 DEF AllOpened
  <2>3. shown[g].kind # "none" /\ meeting.seq <= shown[g].seq
    BY <2>1, <2>2 DEF InvInv, ShownIsHighest
  <2>4. PICK n \in letters : n = [kind |-> shown[g].kind, to |-> g, seq |-> shown[g].seq,
                                  time |-> shown[g].time]
    BY <2>3 DEF InvInv, ShownIsOpened, InvTypeOK
  <2>5. n.kind = "REQUEST"
    BY <2>4 DEF InvInv, LettersFit, InvTypeOK, Letter, Alive
  <2>6. shown[g].seq = meeting.seq
    BY <2>3, <2>4, <2>5 DEF InvInv, LettersFit, InvTypeOK, Row, Letter
  <2>7. cast.dialog => n.time = meeting.time
    BY <2>4, <2>5, <2>6 DEF InvInv, DialogFits
  <2>. QED  BY <2>4, <2>5, <2>6, <2>7
<1>2. InvInv => CancelIsShown
  <2>. SUFFICES ASSUME InvInv, NEW m \in letters, m.kind = "CANCEL", m.seq > meeting.seq,
                       AllOpened(m.to)
                PROVE  shown[m.to].kind = "CANCEL"
    BY DEF CancelIsShown
  <2>1. m \in opened /\ m.to \in Guests /\ m.seq \in Nat /\ meeting.seq \in Nat
    BY DEF AllOpened, InvInv, InvTypeOK, Letter, Row
  <2>2. /\ shown[m.to].kind # "none" /\ m.seq <= shown[m.to].seq
        /\ shown[m.to] \in Shown
    BY <2>1 DEF InvInv, ShownIsHighest, InvTypeOK
  <2>3. shown[m.to].kind # "REQUEST"
    BY <2>1, <2>2, ShownFits DEF Shown
  <2>. QED  BY <2>2, <2>3 DEF Shown
<1>. QED  BY InvInvHolds, <1>1, <1>2, PTL DEF GuestsFollow

(* An answer to the newest state stands once it was stored, however late   *)
(* or often other replies come, when one is stored at a time; and nobody   *)
(* is shown with an answer that was not given, whoever writes.             *)
THEOREM AnswersDoHold == InvSpec => []AnswersHold
<1>1. InvInv => AnswersAreKept  BY DEF InvInv
<1>2. InvInv => AnswersAreReal
  BY DEF InvInv, ListsAreGiven, Given, AnswersAreReal
<1>. QED  BY InvInvHolds, <1>1, <1>2, PTL DEF AnswersHold
=============================================================================
