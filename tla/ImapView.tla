-------------------------------- MODULE ImapView --------------------------------
(***************************************************************************)
(* IMAP sessions on one mailbox: what SELECT, FETCH, STORE, EXPUNGE, CLOSE *)
(* and UNSELECT do while other sessions, and handlers of the same session, *)
(* are at work.                                                            *)
(*                                                                         *)
(* A session starts the handler of each line when it has the line, beside  *)
(* those that await; only the selection is shared.  There is no view: each *)
(* command numbers the rows that it reads.                                 *)
(*                                                                         *)
(* A message is its UID, which is unique in the mailbox.  A command names  *)
(* one number.  Nobody destroys rows, moves messages or drops folders      *)
(* here; login, IDLE and the EXISTS counts are left out.  A client takes   *)
(* the lines of an answer in order, and at once.                           *)
(***************************************************************************)
EXTENDS Naturals, FiniteSets

CONSTANTS
  ImSessions,
  ImEager,       \* the sessions whose clients do not wait for answers
  ImUids,        \* the messages that may ever be in the mailbox
  ImFolders,
  ImAsks,        \* the changes of flags that clients ask for
  ImMay,         \* bound: the commands of each client, besides SELECT
  ImMaxLines     \* bound: lines of each client

NoFolder == "none"
ImFlags  == {"Seen", "Deleted"}

ImChange == [op : {"+", "-", "="}, flag : ImFlags]

ASSUME ImAssumption ==
  /\ ImAsks \subseteq ImChange
  /\ ImUids \subseteq Nat \ {0} /\ IsFiniteSet(ImUids)
  /\ ImEager \subseteq ImSessions
  /\ NoFolder \notin ImFolders /\ ImMaxLines \in [ImSessions -> Nat]

VARIABLES
  imRow,        \* the messages
  imSelected,   \* session.selected
  imTask,       \* handlers at an await
  imWrites,     \* FETCH's writes of \Seen, which nothing waits for
  imAnswered,   \* the lines that have their answer
  imLines,      \* lines sent
  imBelieved,   \* what the client takes for its selected folder
  imTold,       \* the numbers of the FETCH answers since it was selected
  imShifted,    \* history: rows came or went since
  imLost,       \* history: messages whose flags were written, or unmarked, behind a reader
  imStrange     \* history: a line acted on a folder its client did not select

imVars == <<imRow, imSelected, imTask, imWrites, imAnswered, imLines, imBelieved, imTold,
            imShifted, imLost, imStrange>>

ImNumbers == 1..Cardinality(ImUids)
FolderOrNone == ImFolders \cup {NoFolder}

(* meant is what the flags would be had every write been made to the flags *)
(* of its moment.  marked: some client gave it \Deleted.                   *)
ImMessage ==
  [folder : FolderOrNone, gone : BOOLEAN, flags : SUBSET ImFlags, meant : SUBSET ImFlags,
   marked : BOOLEAN]

(* A write of flags: those computed, from those read, by a change.         *)
ImWrite == [uid : ImUids, read : SUBSET ImFlags, change : ImChange]

ImTask == [line : Nat, cmd : {"SELECT", "FETCH", "STORE", "EXPUNGE", "CLOSE"},
           at : {"first", "write", "last"}, folder : FolderOrNone, number : Nat,
           change : ImChange, writes : SUBSET ImWrite, todo : SUBSET ImUids]

ImTypeOK ==
  /\ imRow \in [ImUids -> ImMessage]
  /\ \A u \in ImUids : imRow[u].gone => imRow[u].folder # NoFolder
  /\ imSelected \in [ImSessions -> FolderOrNone]
  /\ imTask \in [ImSessions -> SUBSET ImTask]
  /\ \A s \in ImSessions : \A t \in imTask[s] : t.line <= imLines[s] /\ t.line \notin imAnswered[s]
  /\ imWrites \subseteq ImWrite
  /\ imAnswered \in [ImSessions -> SUBSET (Nat)]
  /\ imLines \in [ImSessions -> Nat]
  /\ imBelieved \in [ImSessions -> FolderOrNone]
  /\ imTold \in [ImSessions -> SUBSET (ImNumbers \X ImUids)]
  /\ imShifted \subseteq ImSessions
  /\ imLost \subseteq ImUids
  /\ imStrange \in BOOLEAN

AnyChange == [op |-> "=", flag |-> "Seen"]

ImInit ==
  /\ \E there \in SUBSET ImUids, f \in ImFolders :
       imRow = [u \in ImUids |-> [folder |-> IF u \in there THEN f ELSE NoFolder, gone |-> FALSE,
                                  flags |-> {}, meant |-> {}, marked |-> FALSE]]
  /\ imSelected = [s \in ImSessions |-> NoFolder]
  /\ imTask = [s \in ImSessions |-> {}]
  /\ imWrites = {}
  /\ imAnswered = [s \in ImSessions |-> {}]
  /\ imLines = [s \in ImSessions |-> 0]
  /\ imBelieved = [s \in ImSessions |-> NoFolder]
  /\ imTold = [s \in ImSessions |-> {}]
  /\ imShifted = {} /\ imLost = {} /\ imStrange = FALSE

-----------------------------------------------------------------------------
(* Rows.                                                                   *)

Rows(f) == {u \in ImUids : imRow[u].folder = f /\ ~imRow[u].gone}

(* The position of a row when they are listed by UID, as by the queries.   *)
Position(u, f) == Cardinality({v \in Rows(f) : v <= u})

Looking(f) == {s \in ImSessions : imSelected[s] = f}

(* Delivery by another server; a lower UID may come after a higher one.    *)
ImArrive(u, f) ==
  /\ imRow[u].folder = NoFolder
  /\ imRow' = [imRow EXCEPT ![u].folder = f]
  /\ imShifted' = imShifted \cup Looking(f)
  /\ UNCHANGED <<imSelected, imTask, imWrites, imAnswered, imLines, imBelieved, imTold, imLost,
                 imStrange>>

Changed(flags, c) ==
  IF c.op = "+" THEN flags \cup {c.flag}
  ELSE IF c.op = "-" THEN flags \ {c.flag}
  ELSE {c.flag}

Written_Adds(w) ==
  LET row == imRow[w.uid] IN
  [row EXCEPT !.flags = w.read \cup Changed(w.read, w.change),
              !.meant = Changed(row.meant, w.change),
              !.marked = row.marked \/ "Deleted" \in Changed({}, w.change)]

(* An update by id, also of a row that is marked as deleted.               *)
Written(w) ==
  LET row == imRow[w.uid] IN
  [row EXCEPT !.flags = Changed(w.read, w.change), !.meant = Changed(row.meant, w.change),
              !.marked = row.marked \/ "Deleted" \in Changed({}, w.change)]

Expunging == UNION {t.todo : t \in UNION {imTask[s] : s \in ImSessions}}

WriteFlags(w) ==
  /\ imRow' = [imRow EXCEPT ![w.uid] = Written(w)]
  /\ imLost' = IF w.read = imRow[w.uid].flags /\ w.uid \notin Expunging
               THEN imLost ELSE imLost \cup {w.uid}

Removed(uids) == [u \in ImUids |-> IF u \in uids THEN [imRow[u] EXCEPT !.gone = TRUE] ELSE imRow[u]]

-----------------------------------------------------------------------------
(* Lines.                                                                  *)

Unanswered(s) == (1..imLines[s]) \ imAnswered[s]

MaySend(s) == imLines[s] < ImMaxLines[s] /\ (s \in ImEager \/ Unanswered(s) = {})

ImAnswer(s, line) == imAnswered' = [imAnswered EXCEPT ![s] = imAnswered[s] \cup {line}]

StartedTask(cmd, s, n, c) ==
  [line |-> imLines[s] + 1, cmd |-> cmd, at |-> "first", folder |-> imSelected[s], number |-> n,
   change |-> c, writes |-> {}, todo |-> {}]

(* The handler begins: it is refused when nothing is selected, and else it *)
(* asks for the rows of the folder that is selected now.                   *)
SendCommand(s, cmd, n, c) ==
  /\ MaySend(s)
  /\ imLines' = [imLines EXCEPT ![s] = imLines[s] + 1]
  /\ IF imSelected[s] = NoFolder
     THEN ImAnswer(s, imLines[s] + 1) /\ UNCHANGED imTask
     ELSE /\ imTask' = [imTask EXCEPT ![s] = imTask[s] \cup {StartedTask(cmd, s, n, c)}]
          /\ UNCHANGED imAnswered
  /\ imStrange' = (imStrange \/ (s \notin ImEager /\ imSelected[s] # imBelieved[s]))
  /\ UNCHANGED <<imRow, imSelected, imWrites, imBelieved, imTold, imShifted, imLost>>

SendSelect(s, f) ==
  /\ MaySend(s)
  /\ imLines' = [imLines EXCEPT ![s] = imLines[s] + 1]
  /\ imTask' = [imTask EXCEPT ![s] = imTask[s] \cup
       {[StartedTask("SELECT", s, 0, AnyChange) EXCEPT !.folder = f]}]
  /\ UNCHANGED <<imRow, imSelected, imWrites, imAnswered, imBelieved, imTold, imShifted, imLost,
                 imStrange>>

Deselect(s) ==
  /\ imSelected' = [imSelected EXCEPT ![s] = NoFolder]
  /\ imBelieved' = [imBelieved EXCEPT ![s] = NoFolder]
  /\ imTold' = [imTold EXCEPT ![s] = {}]
  /\ imShifted' = imShifted \ {s}

Unselect(s) ==
  /\ MaySend(s) /\ imSelected[s] # NoFolder
  /\ imLines' = [imLines EXCEPT ![s] = imLines[s] + 1]
  /\ ImAnswer(s, imLines[s] + 1)
  /\ Deselect(s)
  /\ UNCHANGED <<imRow, imTask, imWrites, imLost, imStrange>>

Becomes(s, t, next) == imTask' = [imTask EXCEPT ![s] = (imTask[s] \ {t}) \cup next]

(* Whatever another handler has selected meanwhile, the last SELECT to be  *)
(* done wins.                                                              *)
EndSelect(s, t) ==
  /\ t.cmd = "SELECT"
  /\ imSelected' = [imSelected EXCEPT ![s] = t.folder]
  /\ imBelieved' = [imBelieved EXCEPT ![s] = t.folder]
  /\ imTold' = [imTold EXCEPT ![s] = {}]
  /\ imShifted' = imShifted \ {s}
  /\ ImAnswer(s, t.line) /\ Becomes(s, t, {})
  /\ UNCHANGED <<imRow, imWrites, imLines, imLost, imStrange>>

(* FETCH takes its number as a position, UID FETCH too.                    *)
FetchedUids(t) == {u \in Rows(t.folder) : Position(u, t.folder) = t.number}

SeenWrites(uids) ==
  {[uid |-> u, read |-> imRow[u].flags, change |-> [op |-> "+", flag |-> "Seen"]] :
     u \in {v \in uids : "Seen" \notin imRow[v].flags}}

(* The answer shows each message's number and UID.  A body that is not     *)
(* peeked at is marked as seen, later and by nobody who waits.             *)
EndFetch(s, t) ==
  /\ t.cmd = "FETCH"
  /\ \E peek \in BOOLEAN :
       imWrites' = imWrites \cup (IF peek THEN {} ELSE SeenWrites(FetchedUids(t)))
  /\ imTold' = IF imBelieved[s] # t.folder THEN imTold
               ELSE [imTold EXCEPT ![s] = {p \in imTold[s] : p[1] # t.number}
                                             \cup {<<t.number, u>> : u \in FetchedUids(t)}]
  /\ ImAnswer(s, t.line) /\ Becomes(s, t, {})
  /\ UNCHANGED <<imRow, imSelected, imLines, imBelieved, imShifted, imLost, imStrange>>

WriteSeen(w) ==
  /\ w \in imWrites
  /\ imWrites' = imWrites \ {w}
  /\ WriteFlags(w)
  /\ UNCHANGED <<imSelected, imTask, imAnswered, imLines, imBelieved, imTold, imShifted, imStrange>>

(* STORE takes its number as a UID.                                        *)
StoredUids(t) == {u \in Rows(t.folder) : u = t.number}

ReadStore(s, t) ==
  /\ t.cmd = "STORE" /\ t.at = "first"
  /\ Becomes(s, t, {[t EXCEPT !.at = "write", !.writes =
       {[uid |-> u, read |-> imRow[u].flags, change |-> t.change] : u \in StoredUids(t)}]})
  /\ UNCHANGED <<imRow, imSelected, imWrites, imAnswered, imLines, imBelieved, imTold, imShifted,
                 imLost, imStrange>>

WriteStore(s, t) ==
  /\ t.cmd = "STORE" /\ t.at = "write"
  /\ \/ \E w \in t.writes : WriteFlags(w)
     \/ t.writes = {} /\ UNCHANGED <<imRow, imLost>>
  /\ ImAnswer(s, t.line) /\ Becomes(s, t, {})
  /\ UNCHANGED <<imSelected, imWrites, imLines, imBelieved, imTold, imShifted, imStrange>>

ImMarked_All(f) == Rows(f)

ImMarked(f) == {u \in Rows(f) : "Deleted" \in imRow[u].flags}

ReadExpunge(s, t) ==
  /\ t.cmd = "EXPUNGE" /\ t.at = "first"
  /\ Becomes(s, t, {[t EXCEPT !.at = "write", !.todo = ImMarked(t.folder)]})
  /\ UNCHANGED <<imRow, imSelected, imWrites, imAnswered, imLines, imBelieved, imTold, imShifted,
                 imLost, imStrange>>

(* The highest UID first, by id, whatever its flags are by now.            *)
WriteExpunge(s, t) ==
  /\ t.cmd = "EXPUNGE" /\ t.at = "write"
  /\ \/ /\ t.todo = {}
        /\ Becomes(s, t, {[t EXCEPT !.at = "last"]})
        /\ UNCHANGED <<imRow, imShifted>>
     \/ \E u \in t.todo :
          /\ \A w \in t.todo : w <= u
          /\ Becomes(s, t, {[t EXCEPT !.todo = t.todo \ {u}]})
          /\ imRow' = Removed({u})
          /\ imShifted' = imShifted \cup Looking(t.folder)
  /\ UNCHANGED <<imSelected, imWrites, imAnswered, imLines, imBelieved, imTold, imLost, imStrange>>

(* The last read is of the folder that is selected by then; without one it *)
(* throws, which is an answer as well.                                     *)
EndExpunge(s, t) == ImAnswer(s, t.line)

LastExpunge(s, t) ==
  /\ t.cmd = "EXPUNGE" /\ t.at = "last"
  /\ EndExpunge(s, t) /\ Becomes(s, t, {})
  /\ UNCHANGED <<imRow, imSelected, imWrites, imLines, imBelieved, imTold, imShifted, imLost,
                 imStrange>>

CloseDeselects(s) == Deselect(s)

(* One statement removes; the selection goes when it is done.              *)
WriteClose(s, t) ==
  /\ t.cmd = "CLOSE" /\ t.at = "first"
  /\ imRow' = Removed(ImMarked(t.folder))
  /\ imShifted' = imShifted \cup (IF ImMarked(t.folder) = {} THEN {} ELSE Looking(t.folder))
  /\ Becomes(s, t, {[t EXCEPT !.at = "last"]})
  /\ UNCHANGED <<imSelected, imWrites, imAnswered, imLines, imBelieved, imTold, imLost, imStrange>>

EndClose(s, t) ==
  /\ t.cmd = "CLOSE" /\ t.at = "last"
  /\ CloseDeselects(s)
  /\ ImAnswer(s, t.line) /\ Becomes(s, t, {})
  /\ UNCHANGED <<imRow, imWrites, imLines, imLost, imStrange>>

ImGoes(s) ==
  \E t \in imTask[s] :
    \/ EndSelect(s, t) \/ EndFetch(s, t) \/ ReadStore(s, t) \/ WriteStore(s, t)
    \/ ReadExpunge(s, t) \/ WriteExpunge(s, t) \/ LastExpunge(s, t)
    \/ WriteClose(s, t) \/ EndClose(s, t)

ImSends(s) ==
  \/ \E f \in ImFolders : SendSelect(s, f)
  \/ \E n \in ImUids \cup ImNumbers :
       \/ "FETCH" \in ImMay[s] /\ SendCommand(s, "FETCH", n, AnyChange)
       \/ "STORE" \in ImMay[s] /\ \E c \in ImAsks : SendCommand(s, "STORE", n, c)
  \/ \E cmd \in ImMay[s] \cap {"EXPUNGE", "CLOSE"} : SendCommand(s, cmd, 0, AnyChange)
  \/ "UNSELECT" \in ImMay[s] /\ Unselect(s)

ImNext ==
  \/ \E s \in ImSessions : ImSends(s) \/ ImGoes(s)
  \/ \E w \in imWrites : WriteSeen(w)
  \/ \E u \in ImUids, f \in ImFolders : ImArrive(u, f)

ImSpec == ImInit /\ [][ImNext]_imVars

(* The database answers.                                                   *)
ImFair == ImSpec /\ \A s \in ImSessions : WF_imVars(ImGoes(s))

-----------------------------------------------------------------------------
(* Properties.                                                             *)

(* A client that waits for its answers never has a line act on a folder    *)
(* that it does not take for the selected one.                             *)
ActsWhereSelected == ~imStrange

(* The flags of a message are those of all its changes, one after another, *)
(* unless a write was computed from flags that were changed before it.     *)
FlagsAreMeant == \A u \in ImUids \ imLost : imRow[u].flags = imRow[u].meant

(* Numbers name different messages, in the order of the UIDs, as long as   *)
(* no message of the folder comes or goes.                                 *)
NumbersAreInOrder ==
  \A s \in ImSessions \ imShifted : \A p, q \in imTold[s] : (p[1] < q[1]) <=> (p[2] < q[2])

(* What a client does with folders, numbers and flags comes out as it was  *)
(* meant, as far as handlers side by side allow.                           *)
SessionsAgree == ActsWhereSelected /\ NumbersAreInOrder /\ FlagsAreMeant

(* Only what clients have marked goes, unless they took the mark off       *)
(* between a read and a write.                                             *)
OnlyMarkedGoes ==
  [][\A u \in ImUids : imRow'[u].gone /\ ~imRow[u].gone =>
       imRow[u].marked /\ (u \in imLost \/ "Deleted" \in imRow[u].meant)]_imVars

(* Every line gets its answer, also one whose folder is closed meanwhile.  *)
EveryTagAnswered == <>[](\A s \in ImSessions : Unanswered(s) = {})

(* A number means in STORE the message for which FETCH showed it.          *)
StoreTakesNumbers ==
  \A s \in ImSessions \ imShifted : \A t \in imTask[s] :
    t.cmd = "STORE" /\ t.at = "write" /\ t.folder = imBelieved[s] =>
      \A w \in t.writes, p \in imTold[s] : p[1] = t.number => w.uid = p[2]
=============================================================================
