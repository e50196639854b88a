------------------------------- MODULE WebMail -------------------------------
(***************************************************************************)
(* The web client and the requests it makes of the gateway: it marks,      *)
(* opens, moves, deletes and restores messages by a list that it fetched   *)
(* earlier, while other programs and devices change the same rows and mail *)
(* arrives.  A message that is marked as junk has its sender put on the    *)
(* user's blocklist, in the background, and taken off it likewise.         *)
(*                                                                         *)
(* A request reads the rows it names, and then writes in one statement or  *)
(* two what follows from what it has read.  A handler that throws ends the *)
(* gateway, and with it what else it had in work.                          *)
(*                                                                         *)
(* All messages have one sender.  Counters, UIDs and mod-sequences are in  *)
(* MailStore; pins, snoozing and categories are single statements.         *)
(***************************************************************************)
EXTENDS Naturals, FiniteSets

CONSTANTS
  WmIds,
  WmSlots,        \* requests that go on beside each other
  WmWorks,        \* and work in the background
  WmCasts         \* what is asked for, and what else happens, in one instance, with
                  \* the bounds on requests, on moves by other devices and on faults

WmFolders == {"INBOX", "Archive", "Trash", "Junk", "Own"}
WmFlags == {"Seen", "Flagged", "Answered"}
(* Where messages are destroyed, by one request or by the folder's removal. *)
WmBins == {"Trash", "Junk", "Own"}
WmDoes == {"mark", "patch", "open", "reply", "move", "file", "archive", "delete", "spam",
           "notSpam", "empty", "rmdir", "rmdirIfEmpty", "trash", "erase"}

ASSUME WmAssumption ==
  \A cast \in WmCasts :
    /\ cast.asks \subseteq WmDoes /\ cast.mails \subseteq WmIds
    /\ cast.from \subseteq WmFolders \cup {"none"}
    /\ cast.views \cup cast.to \cup cast.others \subseteq WmFolders
    /\ {cast.acts, cast.moves, cast.faults} \subseteq Nat

VARIABLES
  wmCast,       \* what is asked for: it never changes
  wmRow,        \* the messages
  wmOwn,        \* the user's own folder exists
  wmBlocked,    \* the sender is on the user's blocklist
  wmTask,       \* what each request does
  wmWork,       \* what goes on in the background
  wmMail,       \* where a message that is being delivered goes
  wmShown,      \* the folder in whose list each message was seen last
  wmHeld,       \* the flags of each message as the reader has them, if it was opened
  wmView,       \* the folder that is shown
  wmFetch,      \* the fetch of its list
  wmGot,        \* what that fetch has brought
  wmOld,        \* lists that were invalidated
  wmToast,      \* what "undo" would do
  wmSaid,       \* history: where everything would be if requests were served one by one
  wmMixed,      \* history: messages and fields that two requests wrote side by side
  wmBinned,     \* history: messages that have been where things are destroyed
  wmVerdict,    \* history: the last verdict on the sender
  wmMuddled,    \* history: verdicts were side by side, or one failed
  wmDirty,      \* history: lists that others, or a failure, have made untrue
  wmActs, wmOthers, wmFaults

wmStore   == <<wmRow, wmOwn, wmBinned>>
wmClient  == <<wmShown, wmHeld, wmView, wmFetch, wmGot, wmOld, wmToast>>
wmHistory == <<wmSaid, wmMixed>>
wmJunk    == <<wmBlocked, wmWork, wmVerdict, wmMuddled>>
wmCount   == <<wmActs, wmOthers, wmFaults>>
wmVars    == <<wmCast, wmStore, wmTask, wmMail, wmClient, wmHistory, wmJunk, wmDirty, wmCount>>

WmRowType == [at : WmFolders \cup {"none", "gone"}, flags : SUBSET WmFlags]
WmNoMail == [at |-> "none", flags |-> {}]
WmNoTask == [do |-> "mark", at |-> "idle", ids |-> {}, to |-> "INBOX", flag |-> "Seen",
             on |-> TRUE, list |-> {}, ok |-> TRUE, read |-> [m \in WmIds |-> WmNoMail]]
WmNoWork == [do |-> "spam", at |-> "idle", ids |-> {}]
WmNoToast == [ids |-> {}, of |-> "move", to |-> "INBOX", fresh |-> FALSE]

WmTypeOK ==
  /\ wmRow \in [WmIds -> WmRowType] /\ wmSaid \in [WmIds -> WmRowType]
  /\ {wmOwn, wmBlocked, wmMuddled} \subseteq BOOLEAN
  /\ wmTask \in [WmSlots ->
       [do : WmDoes, ids : SUBSET WmIds, to : WmFolders, flag : WmFlags, on : BOOLEAN,
        list : SUBSET WmFlags, ok : BOOLEAN, read : [WmIds -> WmRowType],
        at : {"idle", "sent", "found", "aimed", "rest", "count", "answered"}]]
  /\ wmWork \in [WmWorks -> [do : {"spam", "notSpam"}, ids : SUBSET WmIds,
                             at : {"idle", "senders", "exists", "create", "remove"}]]
  /\ wmMail \in [WmIds -> {"no", "INBOX", "Junk"}]
  /\ wmShown \in [WmIds -> WmFolders \cup {"none"}]
  /\ wmHeld \in [WmIds -> SUBSET (SUBSET WmFlags)]
  /\ wmView \in wmCast.views /\ wmFetch \in {"no", "sent", "read"}
  /\ wmGot \subseteq WmIds /\ wmOld \subseteq wmCast.views /\ wmDirty \subseteq wmCast.views
  /\ wmToast \in [ids : SUBSET WmIds, of : WmDoes, to : WmFolders, fresh : BOOLEAN]
  /\ wmMixed \subseteq WmIds \X (WmFlags \cup {"at"}) /\ wmBinned \subseteq WmIds
  /\ wmVerdict \in {"none", "spam", "notSpam"}

(* Unread mail in the INBOX, in the Trash, or on its way; the lists that   *)
(* were fetched are true.                                                  *)
WmInit ==
  /\ wmCast \in WmCasts
  /\ \E from \in [wmCast.mails -> wmCast.from] :
       wmRow = [m \in WmIds |-> IF m \in wmCast.mails THEN [WmNoMail EXCEPT !.at = from[m]]
                               ELSE WmNoMail]
  /\ wmSaid = wmRow
  /\ wmOwn = TRUE
  /\ wmBlocked = FALSE
  /\ wmTask = [s \in WmSlots |-> WmNoTask]
  /\ wmWork = [k \in WmWorks |-> WmNoWork]
  /\ wmMail = [m \in WmIds |-> "no"]
  /\ wmShown = [m \in WmIds |-> wmRow[m].at]
  /\ wmHeld = [m \in WmIds |-> {}]
  /\ wmView \in wmCast.views /\ wmFetch = "no" /\ wmGot = {} /\ wmOld = {}
  /\ wmToast = WmNoToast
  /\ wmMixed = {}
  /\ wmBinned = {m \in WmIds : wmRow[m].at \in WmBins}
  /\ wmVerdict = "none" /\ wmMuddled = FALSE /\ wmDirty = {}
  /\ wmActs = 0 /\ wmOthers = 0 /\ wmFaults = 0

WmPresent(m) == wmRow[m].at \notin {"none", "gone"}
WmExists(f) == f = "Own" => wmOwn

WmRows(rows) ==
  /\ wmRow' = rows
  /\ wmBinned' = wmBinned \cup {m \in WmIds : rows[m].at \in WmBins}

(* Those that are still there are put into a folder, or destroyed.         *)
WmPut(ids, f) ==
  [m \in WmIds |-> IF m \in ids /\ WmPresent(m) THEN [wmRow[m] EXCEPT !.at = f] ELSE wmRow[m]]
WmDestroyed(ids) ==
  [m \in WmIds |-> IF m \in ids /\ WmPresent(m) THEN [wmRow[m] EXCEPT !.at = "gone"]
                   ELSE wmRow[m]]

WmIn(f) == {m \in WmIds : wmRow[m].at = f}

-----------------------------------------------------------------------------
(* History.                                                                *)

WmBusy(s) == wmTask[s].at \notin {"idle", "answered"}

(* What a request may write: folders, whole lists of flags, or Seen only.  *)
WmMoves(t) ==
  IF t.do \in {"mark", "patch", "open", "reply"} THEN {}
  ELSE IF t.do \in {"empty", "rmdir", "rmdirIfEmpty"} THEN WmIds ELSE t.ids
WmMarks(t) == IF t.do \in {"mark", "patch", "reply", "file"} THEN t.ids ELSE {}
WmOpens(t) == IF t.do = "open" THEN t.ids ELSE {}

WmClash(t, o) ==
  LET marked == WmMarks(t) \cap WmMarks(o)
      seen == (WmMarks(t) \cap WmOpens(o)) \cup (WmOpens(t) \cap WmMarks(o))
  IN ((WmMoves(t) \cap WmMoves(o)) \X {"at"}) \cup (marked \X WmFlags) \cup (seen \X {"Seen"})

WmClashes(t) == UNION {WmClash(t, wmTask[s]) : s \in {q \in WmSlots : WmBusy(q)}}

WmTarget(t) ==
  IF t.do = "archive" THEN "Archive"
  ELSE IF t.do = "spam" THEN "Junk"
  ELSE IF t.do = "notSpam" THEN "INBOX"
  ELSE IF t.do = "trash" THEN "Trash" ELSE t.to

(* Where a request means to bring a message that it finds in a folder.     *)
WmMeans(t, at) ==
  IF t.do \in {"mark", "patch", "open", "reply", "rmdirIfEmpty"} THEN at
  ELSE IF t.do = "delete" THEN (IF at = "Trash" THEN "gone" ELSE "Trash")
  ELSE IF t.do = "empty" THEN (IF at \in {"Trash", "Junk"} THEN "gone" ELSE "Trash")
  ELSE IF t.do \in {"rmdir", "erase"} THEN "gone"
  ELSE IF WmExists(WmTarget(t)) THEN WmTarget(t) ELSE at

WmFlagsBy(t, flags) ==
  IF t.do \notin {"mark", "patch", "open", "reply"} THEN flags
  ELSE IF t.on THEN flags \cup {t.flag} ELSE flags \ {t.flag}

(* What a request writes over the flags it has read: the reader, which     *)
(* means to add Answered, sends a whole list.                              *)
WmWritten(t, flags) == IF t.do = "reply" THEN t.list ELSE WmFlagsBy(t, flags)

WmSays(t) ==
  LET named == IF t.do \in {"empty", "rmdir"} THEN {m \in WmIds : wmSaid[m].at = t.to} ELSE t.ids
  IN [m \in WmIds |->
       IF m \in named
       THEN [at |-> IF wmSaid[m].at = "gone" THEN "gone" ELSE WmMeans(t, wmSaid[m].at),
             flags |-> WmFlagsBy(t, wmSaid[m].flags)]
       ELSE wmSaid[m]]

(* Flags that are undone, or done again, by a list that is older.          *)
WmStale(t) ==
  {mf \in WmMarks(t) \X WmFlags :
     LET flags == wmSaid[mf[1]].flags
     IN (mf[2] \in WmWritten(t, flags)) # (mf[2] \in WmFlagsBy(t, flags))}

-----------------------------------------------------------------------------
(* The client.                                                             *)

WmFree(s) == wmTask[s].at = "idle"

(* The list is up to date, as far as this client can tell or be told.      *)
WmListIsTrue ==
  /\ \A s \in WmSlots : WmFree(s)
  /\ wmFetch = "no" /\ wmView \notin wmDirty

WmAsk(s, t, toast) ==
  /\ WmFree(s) /\ \A q \in WmSlots : WmFree(q) => s <= q
  /\ t.do \in wmCast.asks
  /\ wmActs < wmCast.acts /\ wmActs' = wmActs + 1
  /\ wmTask' = [wmTask EXCEPT ![s] = [t EXCEPT !.at = "sent"]]
  /\ wmSaid' = WmSays(t)
  /\ wmMixed' = wmMixed \cup WmClashes(t) \cup WmStale(t)
  /\ wmToast' = IF WmMoves(t) \cap toast.ids # {} /\ toast = wmToast
                THEN [toast EXCEPT !.fresh = FALSE] ELSE toast
  /\ UNCHANGED <<wmRow, wmOwn, wmMail, wmShown, wmHeld, wmView, wmFetch, wmGot, wmOld, wmJunk,
                 wmDirty, wmOthers, wmFaults>>

WmListed == {m \in WmIds : wmShown[m] = wmView}

WmKept == UNCHANGED wmBinned

(* Marks, by the list or by the reader.                                    *)
WmMarkSome(s, ids, flag, on) ==
  /\ \E do \in (IF Cardinality(ids) = 1 THEN {"mark", "patch"} ELSE {"mark"}) :
       WmAsk(s, [WmNoTask EXCEPT !.do = do, !.ids = ids, !.flag = flag, !.on = on], wmToast)
  /\ WmKept

WmOpen(s, m) == WmAsk(s, [WmNoTask EXCEPT !.do = "open", !.ids = {m}], wmToast) /\ WmKept

(* Reply and Reply all: the flags as the reader has them, and Answered.    *)
WmReply(s, m) ==
  /\ \E held \in wmHeld[m] :
       /\ "Answered" \notin held
       /\ WmAsk(s, [WmNoTask EXCEPT !.do = "reply", !.ids = {m}, !.flag = "Answered",
                                    !.list = held \cup {"Answered"}], wmToast)
  /\ WmKept

(* Archive, delete and drag bring a toast that offers to undo them, spam   *)
(* and its opposite do not, nor does a move by the menu.  The toolbar and  *)
(* the reader offer it in the Trash, too, where delete destroys; the list  *)
(* does not.                                                               *)
WmMoveSome(s, ids, do, to) ==
  LET toast == [ids |-> ids, of |-> do, to |-> wmView, fresh |-> WmListIsTrue]
      offers == IF do \in {"spam", "notSpam"} THEN {wmToast}
                ELSE IF do = "move" \/ (do = "delete" /\ wmView = "Trash") THEN {toast, wmToast}
                ELSE {toast}
  IN /\ \E offer \in offers : WmAsk(s, [WmNoTask EXCEPT !.do = do, !.ids = ids, !.to = to], offer)
     /\ WmKept

WmUndo(s) ==
  /\ wmToast.ids # {}
  /\ WmAsk(s, [WmNoTask EXCEPT !.do = "move", !.ids = wmToast.ids, !.to = wmToast.to], WmNoToast)
  /\ WmKept

WmEmptyFolder(s, f) == WmAsk(s, [WmNoTask EXCEPT !.do = "empty", !.to = f], wmToast) /\ WmKept

(* The web client always forces it; other programs need not.               *)
WmDeleteFolder(s) ==
  /\ \E do \in {"rmdir", "rmdirIfEmpty"} :
       WmAsk(s, [WmNoTask EXCEPT !.do = do, !.to = "Own"], wmToast)
  /\ WmKept

(* DELETE of a message: only other programs use it.                        *)
WmDeleteMessage(s, m) ==
  \/ WmAsk(s, [WmNoTask EXCEPT !.do = "trash", !.ids = {m}], wmToast) /\ WmKept
  \/ /\ WmAsk(s, [WmNoTask EXCEPT !.do = "erase", !.ids = {m}], wmToast)
     /\ wmBinned' = wmBinned \cup {m}

(* PATCH with a folder: only other programs use it.                        *)
WmFile(s, m, to) ==
  /\ WmAsk(s, [WmNoTask EXCEPT !.do = "file", !.ids = {m}, !.to = to], wmToast)
  /\ WmKept

(* onSuccess: every list is invalidated, the one that is shown is fetched. *)
WmRefetch == wmOld' = wmCast.views /\ wmFetch' = "sent" /\ wmGot' = {}

WmByOthers(t) == t.do \in {"rmdirIfEmpty", "trash", "erase", "file"}

(* The reader has what GET answers: the flags before it added Seen.        *)
WmHolds(t) ==
  wmHeld' = [m \in WmIds |-> IF t.do = "open" /\ t.ok /\ m \in t.ids THEN {t.read[m].flags}
                             ELSE wmHeld[m]]

WmReceive_NoRefetch(s) ==
  /\ wmTask[s].at = "answered"
  /\ wmTask' = [wmTask EXCEPT ![s] = WmNoTask]
  /\ wmDirty' = IF WmByOthers(wmTask[s]) THEN wmCast.views ELSE wmDirty
  /\ WmHolds(wmTask[s])
  /\ UNCHANGED <<wmOld, wmFetch, wmGot, wmStore, wmMail, wmShown, wmView, wmToast, wmHistory,
                 wmJunk, wmCount>>

WmReceive(s) ==
  LET t == wmTask[s]
  IN /\ t.at = "answered"
     /\ wmTask' = [wmTask EXCEPT ![s] = WmNoTask]
     /\ IF t.ok /\ t.do # "open" /\ ~WmByOthers(t) THEN WmRefetch
        ELSE UNCHANGED <<wmOld, wmFetch, wmGot>>
     /\ wmDirty' = IF WmByOthers(t) THEN wmCast.views ELSE wmDirty
     /\ WmHolds(t)
     /\ UNCHANGED <<wmStore, wmMail, wmShown, wmView, wmToast, wmHistory, wmJunk, wmCount>>

WmList ==
  /\ wmFetch = "sent"
  /\ wmFetch' = "read" /\ wmGot' = WmIn(wmView)
  /\ wmOld' = wmOld \ {wmView} /\ wmDirty' = wmDirty \ {wmView}
  /\ UNCHANGED <<wmStore, wmTask, wmMail, wmShown, wmHeld, wmView, wmToast, wmHistory, wmJunk,
                 wmCount>>

WmShow ==
  /\ wmFetch = "read"
  /\ wmFetch' = "no" /\ wmGot' = {}
  /\ wmShown' = [m \in WmIds |-> IF m \in wmGot THEN wmView
                                 ELSE IF wmShown[m] = wmView THEN "none" ELSE wmShown[m]]
  /\ UNCHANGED <<wmStore, wmTask, wmMail, wmHeld, wmView, wmOld, wmToast, wmHistory, wmJunk,
                 wmDirty, wmCount>>

(* Another folder: its list is fetched if it was invalidated or is old.    *)
WmChangeView(f) ==
  /\ f # wmView /\ wmFetch = "no"
  /\ wmView' = f
  /\ wmFetch' \in (IF f \in wmOld THEN {"sent"} ELSE {"no", "sent"})
  /\ UNCHANGED <<wmStore, wmTask, wmMail, wmShown, wmHeld, wmGot, wmOld, wmToast, wmHistory,
                 wmJunk, wmDirty, wmCount>>

WmToastGoes ==
  /\ wmToast # WmNoToast
  /\ wmToast' = WmNoToast
  /\ UNCHANGED <<wmStore, wmTask, wmMail, wmShown, wmHeld, wmView, wmFetch, wmGot, wmOld,
                 wmHistory, wmJunk, wmDirty, wmCount>>

-----------------------------------------------------------------------------
(* The gateway.                                                            *)

WmAt(s, at) == wmTask[s].at = at
WmGoes(s, at) == wmTask' = [wmTask EXCEPT ![s].at = at]
WmAnswer(s, ok) == wmTask' = [wmTask EXCEPT ![s] = [@ EXCEPT !.at = "answered", !.ok = ok]]
WmFound(t) == {m \in WmIds : t.read[m].at # "none"}

(* Nothing but rows and tasks.                                             *)
WmOnly == UNCHANGED <<wmOwn, wmMail, wmClient, wmHistory, wmJunk, wmDirty, wmCount>>
WmStays == UNCHANGED wmStore /\ UNCHANGED <<wmMail, wmClient, wmHistory, wmJunk, wmDirty, wmCount>>

(* A handler throws: no request that was in work is answered.              *)
WmDies ==
  LET busy == {s \in WmSlots : WmBusy(s)}
      torn(t) == (WmMoves(t) \X {"at"}) \cup ((WmMarks(t) \cup WmOpens(t)) \X WmFlags)
  IN /\ wmTask' = [s \in WmSlots |->
          IF s \in busy THEN [wmTask[s] EXCEPT !.at = "answered", !.ok = FALSE] ELSE wmTask[s]]
     /\ wmWork' = [k \in WmWorks |-> WmNoWork]
     /\ wmMixed' = wmMixed \cup UNION {torn(wmTask[s]) : s \in busy}
     /\ wmMuddled' = (wmMuddled \/ \E k \in WmWorks : wmWork[k].at # "idle")
     /\ wmDirty' = wmCast.views
     /\ UNCHANGED <<wmStore, wmMail, wmClient, wmSaid, wmBlocked, wmVerdict, wmCount>>

(* The rows, or the folder, that the request names.                        *)
WmRead(s) ==
  LET t == wmTask[s]
      read == [m \in WmIds |-> IF m \in t.ids /\ WmPresent(m) THEN wmRow[m] ELSE WmNoMail]
      found == IF t.do \in {"empty", "rmdir", "rmdirIfEmpty"} THEN WmExists(t.to)
               ELSE \E m \in t.ids : WmPresent(m)
  IN /\ WmAt(s, "sent")
     /\ IF found THEN wmTask' = [wmTask EXCEPT ![s] = [t EXCEPT !.at = "found", !.read = read]]
        ELSE WmAnswer(s, FALSE)
     /\ WmStays

(* Flags are written as they follow from those that were read, or as they  *)
(* were sent: all, or the statement fails.                                 *)
WmMarkRows(s) ==
  LET t == wmTask[s]
      found == WmFound(t)
  IN /\ WmAt(s, "found") /\ t.do \in {"mark", "patch", "reply"}
     /\ IF \A m \in found : WmPresent(m)
        THEN /\ WmRows([m \in WmIds |->
                  IF m \in found THEN [wmRow[m] EXCEPT !.flags = WmWritten(t, t.read[m].flags)]
                  ELSE wmRow[m]])
             /\ WmAnswer(s, TRUE)
             /\ WmOnly
        ELSE WmDies

(* Opening a message adds Seen to the flags it has by then.                *)
WmMarkSeen(s) ==
  LET t == wmTask[s]
      m == CHOOSE i \in WmIds : i \in t.ids
  IN /\ WmAt(s, "found") /\ t.do = "open"
     /\ IF "Seen" \in t.read[m].flags THEN WmAnswer(s, TRUE) /\ WmStays
        ELSE IF ~WmPresent(m) THEN WmDies
        ELSE /\ WmRows([wmRow EXCEPT ![m].flags = @ \cup {"Seen"}])
             /\ WmGoes(s, "count")
             /\ WmOnly

(* The folder's counters; a folder that is gone makes this throw.          *)
WmCounters(s) ==
  LET t == wmTask[s]
      folders == IF t.do = "empty" THEN {t.to} ELSE {t.read[m].at : m \in t.ids}
  IN /\ WmAt(s, "count")
     /\ IF \A f \in folders : WmExists(f) THEN WmAnswer(s, TRUE) /\ WmStays ELSE WmDies

(* A move looks its target up first.                                       *)
WmAim(s) ==
  LET t == wmTask[s]
  IN /\ WmAt(s, "found") /\ t.do \in {"move", "file"}
     /\ IF WmExists(t.to) THEN WmGoes(s, "aimed") ELSE WmAnswer(s, FALSE)
     /\ WmStays

(* One statement, which writes the flags that were read as well.           *)
WmFileRow(s) ==
  LET t == wmTask[s]
  IN /\ WmAt(s, "aimed") /\ t.do = "file"
     /\ IF WmExists(t.to) /\ \A m \in t.ids : WmPresent(m)
        THEN /\ WmRows([m \in WmIds |->
                  IF m \in t.ids THEN [at |-> t.to, flags |-> t.read[m].flags] ELSE wmRow[m]])
             /\ WmAnswer(s, TRUE)
             /\ WmOnly
        ELSE WmDies

WmMoveRows(s) ==
  LET t == wmTask[s]
      found == WmFound(t)
  IN /\ \/ WmAt(s, "aimed") /\ t.do = "move"
        \/ WmAt(s, "found") /\ t.do = "archive"
     /\ IF WmExists(WmTarget(t)) \/ \A m \in found : ~WmPresent(m)
        THEN WmRows(WmPut(found, WmTarget(t))) /\ WmAnswer(s, TRUE) /\ WmOnly
        ELSE WmDies

(* Those that were read in the Trash are destroyed, and the others are     *)
(* moved there.                                                            *)
WmDeleteRows(s) ==
  LET t == wmTask[s]
      inTrash == {m \in WmFound(t) : t.read[m].at = "Trash"}
  IN /\ WmAt(s, "found") /\ t.do = "delete" /\ inTrash # {}
     /\ WmRows(WmDestroyed(inTrash))
     /\ IF WmFound(t) = inTrash THEN WmAnswer(s, TRUE) ELSE WmGoes(s, "rest")
     /\ WmOnly

WmTrashRows(s) ==
  LET t == wmTask[s]
      notInTrash == {m \in WmFound(t) : t.read[m].at # "Trash"}
  IN /\ \/ WmAt(s, "rest")
        \/ WmAt(s, "found") /\ t.do = "delete" /\ notInTrash = WmFound(t)
     /\ WmRows(WmPut(notInTrash, "Trash"))
     /\ WmAnswer(s, TRUE)
     /\ WmOnly

(* The rows are moved; what the verdict means for the sender comes later.  *)
WmJudge(s, k) ==
  LET t == wmTask[s]
      others == \E j \in WmWorks : wmWork[j].at # "idle"
  IN /\ WmAt(s, "found") /\ t.do \in {"spam", "notSpam"}
     /\ wmWork[k].at = "idle" /\ \A j \in WmWorks : wmWork[j].at = "idle" => k <= j
     /\ WmRows(WmPut(WmFound(t), WmTarget(t)))
     /\ wmWork' = [wmWork EXCEPT ![k] = [do |-> t.do, at |-> "senders", ids |-> WmFound(t)]]
     /\ wmVerdict' = t.do /\ wmMuddled' = others
     /\ WmAnswer(s, TRUE)
     /\ UNCHANGED <<wmOwn, wmMail, wmClient, wmHistory, wmBlocked, wmDirty, wmCount>>

WmEmptyRows(s) ==
  LET t == wmTask[s]
  IN /\ WmAt(s, "found") /\ t.do = "empty"
     /\ WmRows(IF t.to \in {"Trash", "Junk"} THEN WmDestroyed(WmIn(t.to))
               ELSE WmPut(WmIn(t.to), "Trash"))
     /\ WmGoes(s, "count")
     /\ WmOnly

(* Unless it is forced, the messages are counted before.                   *)
WmCountRows(s) ==
  /\ WmAt(s, "found") /\ wmTask[s].do = "rmdirIfEmpty"
  /\ IF WmIn("Own") = {} THEN WmGoes(s, "aimed") ELSE WmAnswer(s, FALSE)
  /\ WmStays

(* A folder takes its messages with it.                                    *)
WmRemoveFolder(s) ==
  /\ \/ WmAt(s, "found") /\ wmTask[s].do = "rmdir"
     \/ WmAt(s, "aimed") /\ wmTask[s].do = "rmdirIfEmpty"
  /\ IF wmOwn
     THEN /\ WmRows(WmDestroyed(WmIn("Own"))) /\ wmOwn' = FALSE
          /\ WmAnswer(s, TRUE)
          /\ UNCHANGED <<wmMail, wmClient, wmHistory, wmJunk, wmDirty, wmCount>>
     ELSE WmDies

WmEraseRow(s) ==
  LET t == wmTask[s]
  IN /\ WmAt(s, "found") /\ t.do \in {"trash", "erase"}
     /\ IF \A m \in t.ids : WmPresent(m)
        THEN /\ WmRows(IF t.do = "erase" THEN WmDestroyed(t.ids) ELSE WmPut(t.ids, "Trash"))
             /\ WmAnswer(s, TRUE)
             /\ WmOnly
        ELSE WmDies

-----------------------------------------------------------------------------
(* The blocklist, in the background.                                       *)

WmWorks_(k, at) == wmWork' = [wmWork EXCEPT ![k] = IF at = "idle" THEN WmNoWork
                                                  ELSE [wmWork[k] EXCEPT !.at = at]]
WmBehind == UNCHANGED <<wmStore, wmTask, wmMail, wmClient, wmHistory, wmVerdict, wmDirty, wmActs,
                        wmOthers>>

(* The senders of the messages that are still there.                       *)
WmSenders(k) ==
  LET w == wmWork[k]
      some == \E m \in w.ids : WmPresent(m)
  IN /\ w.at = "senders"
     /\ WmWorks_(k, IF ~some THEN "idle" ELSE IF w.do = "spam" THEN "exists" ELSE "remove")
     /\ wmMuddled' = (wmMuddled \/ ~some)
     /\ UNCHANGED <<wmBlocked, wmFaults>> /\ WmBehind

WmLooksUp(k) ==
  /\ wmWork[k].at = "exists"
  /\ WmWorks_(k, IF wmBlocked THEN "idle" ELSE "create")
  /\ UNCHANGED <<wmBlocked, wmMuddled, wmFaults>> /\ WmBehind

WmWritesList(k) ==
  /\ wmWork[k].at \in {"create", "remove"}
  /\ wmBlocked' = (wmWork[k].at = "create")
  /\ WmWorks_(k, "idle")
  /\ UNCHANGED <<wmMuddled, wmFaults>> /\ WmBehind

(* A failure is noted in the log.                                          *)
WmWorkFails(k) ==
  /\ wmWork[k].at # "idle"
  /\ wmFaults < wmCast.faults /\ wmFaults' = wmFaults + 1
  /\ WmWorks_(k, "idle")
  /\ wmMuddled' = TRUE
  /\ UNCHANGED wmBlocked /\ WmBehind

-----------------------------------------------------------------------------
(* Others.                                                                 *)

(* What comes from outside at once, beside the requests that are in work.  *)
WmOutside(m, row) ==
  LET beside == \E s \in WmSlots : WmBusy(s) /\ m \in WmMoves(wmTask[s])
  IN /\ WmRows([wmRow EXCEPT ![m] = row])
     /\ wmSaid' = [wmSaid EXCEPT ![m].at = row.at]
     /\ wmMixed' = IF beside THEN wmMixed \cup {<<m, "at">>} ELSE wmMixed

WmOtherMoves(m, f) ==
  /\ wmOthers < wmCast.moves /\ wmOthers' = wmOthers + 1
  /\ WmPresent(m) /\ wmRow[m].at # f /\ WmExists(f)
  /\ WmOutside(m, [wmRow[m] EXCEPT !.at = f])
  /\ wmToast' = IF m \in wmToast.ids THEN [wmToast EXCEPT !.fresh = FALSE] ELSE wmToast
  /\ wmDirty' = wmCast.views
  /\ UNCHANGED <<wmOwn, wmTask, wmMail, wmShown, wmHeld, wmView, wmFetch, wmGot, wmOld, wmJunk,
                 wmActs, wmFaults>>

(* A message that arrives: the blocklist is asked, then it is stored.      *)
WmArrives(m) ==
  /\ m \in wmCast.mails /\ wmRow[m].at = "none" /\ wmMail[m] = "no"
  /\ wmMail' = [wmMail EXCEPT ![m] = IF wmBlocked THEN "Junk" ELSE "INBOX"]
  /\ UNCHANGED <<wmStore, wmTask, wmClient, wmHistory, wmJunk, wmDirty, wmCount>>

(* The client is told, if it is connected.                                 *)
WmStored(m) ==
  /\ wmMail[m] # "no"
  /\ wmMail' = [wmMail EXCEPT ![m] = "no"]
  /\ WmOutside(m, [at |-> wmMail[m], flags |-> {}])
  /\ \/ WmRefetch /\ UNCHANGED wmDirty
     \/ wmDirty' = wmCast.views /\ UNCHANGED <<wmOld, wmFetch, wmGot>>
  /\ UNCHANGED <<wmOwn, wmTask, wmShown, wmHeld, wmView, wmToast, wmJunk, wmCount>>

-----------------------------------------------------------------------------
WmClick(s) ==
  \/ \E ids \in SUBSET WmListed \ {{}} :
       \/ \E flag \in {"Seen", "Flagged"}, on \in BOOLEAN : WmMarkSome(s, ids, flag, on)
       \/ \E do \in {"archive", "delete", "spam", "notSpam"} : WmMoveSome(s, ids, do, "INBOX")
       \/ \E to \in wmCast.to \ {wmView} : WmMoveSome(s, ids, "move", to)
  \/ \E m \in WmListed : WmOpen(s, m)
  \/ WmUndo(s) \/ WmEmptyFolder(s, wmView) \/ WmDeleteFolder(s)
  \/ \E m \in WmIds : WmReply(s, m)
  \/ \E m \in WmIds :
       /\ WmPresent(m)
       /\ WmDeleteMessage(s, m) \/ \E to \in wmCast.to : WmFile(s, m, to)

WmServe(s) ==
  \/ WmRead(s) \/ WmMarkRows(s) \/ WmMarkSeen(s) \/ WmCounters(s) \/ WmAim(s) \/ WmMoveRows(s)
  \/ WmFileRow(s)
  \/ WmDeleteRows(s) \/ WmTrashRows(s) \/ WmEmptyRows(s) \/ WmCountRows(s)
  \/ WmRemoveFolder(s) \/ WmEraseRow(s) \/ \E k \in WmWorks : WmJudge(s, k)

WmBackground(k) == WmSenders(k) \/ WmLooksUp(k) \/ WmWritesList(k) \/ WmWorkFails(k)

WmOther(m) == WmArrives(m) \/ WmStored(m) \/ \E f \in wmCast.others : WmOtherMoves(m, f)

WmLooks == WmList \/ WmShow \/ WmToastGoes \/ \E f \in wmCast.views : WmChangeView(f)

WmNext ==
  /\ \/ \E s \in WmSlots : WmClick(s) \/ WmServe(s) \/ WmReceive(s)
     \/ \E k \in WmWorks : WmBackground(k)
     \/ \E m \in WmIds : WmOther(m)
     \/ WmLooks
  /\ UNCHANGED wmCast

WmSpec == WmInit /\ [][WmNext]_wmVars

-----------------------------------------------------------------------------
(* Properties.                                                             *)

(* Nothing is destroyed that was never in the Trash, in Junk or in the     *)
(* folder that was removed, and that nobody asked to erase.                *)
NothingIsLost == \A m \in WmIds : wmRow[m].at = "gone" => m \in wmBinned

(* When all is answered, every message is where the requests would have    *)
(* brought it one by one, and has the flags they would have given it:      *)
(* moves do not disturb flags nor marks folders, and opening a message     *)
(* takes no flag away.  Excepted are a field that two of them wrote side   *)
(* by side, one that the gateway's end cut off, and a flag in which a list *)
(* that the reader sent with Answered was not what the message had by      *)
(* then.  The last is no rare thing: GET answers the flags from before it  *)
(* added Seen, so a reply to a mail just opened takes Seen away again.     *)
RequestsStand ==
  (\A s \in WmSlots : ~WmBusy(s)) =>
    \A m \in WmIds :
      /\ <<m, "at">> \notin wmMixed => wmRow[m].at = wmSaid[m].at
      /\ wmRow[m].at # "gone" =>
           \A f \in WmFlags : <<m, f>> \notin wmMixed =>
             (f \in wmRow[m].flags) = (f \in wmSaid[m].flags)

(* As long as "undo" is offered it can be done: a message that was deleted *)
(* from a list that was true, and that nobody has touched since, is there. *)
(* Excepted is a deletion in the Trash, which destroys, and for which the  *)
(* toolbar and the reader offer "undo" all the same.                       *)
UndoIsTrue ==
  wmToast.fresh /\ ~(wmToast.of = "delete" /\ wmToast.to = "Trash") =>
    \A m \in wmToast.ids : wmRow[m].at # "gone"

(* When nothing goes on in the background, the sender is on the blocklist  *)
(* exactly if the last verdict was junk, unless two verdicts were worked   *)
(* on side by side, or one could not be.                                   *)
JunkIsRemembered ==
  (\A k \in WmWorks : wmWork[k].at = "idle") /\ ~wmMuddled => wmBlocked = (wmVerdict = "spam")

WebHolds == WmTypeOK /\ NothingIsLost /\ RequestsStand /\ UndoIsTrue /\ JunkIsRemembered
=============================================================================
