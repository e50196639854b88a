------------------------------- MODULE Retention -------------------------------
(***************************************************************************)
(* The Managed Folder Assistant on one mailbox, and its owner.             *)
(*                                                                         *)
(* A run lists a folder, works the list off by the messages' ids, and then *)
(* sweeps the recoverable items.  Nothing keeps two runs apart: the nightly *)
(* one, and one that an administrator starts.                              *)
(*                                                                         *)
(* All messages came by SMTP on day 0, at size 1.  Tags and policies do    *)
(* not change; a policy without tags is its synthetic DPT.  Left out are   *)
(* soft deletion by clients (deletedAt), folder counters, the records of   *)
(* runs, and holds, of which the code has none left.                       *)
(***************************************************************************)
EXTENDS Integers, FiniteSets

CONSTANTS
  RetIds,          \* messages
  RetKept,         \* the folders of the owner; one is "Archive"
  RetTags,
  RetPersonal,     \* the tags an owner may give
  RetAction,       \* of each tag
  RetDays,         \* retentionDays of each tag
  RetRpt,          \* the RPT of each folder, or NoTag
  RetDpt,          \* the first DPT, or NoTag
  RetTtl,          \* DELETIONS_TTL_D
  RetRuns,         \* runs at one time
  RetMaxDay,       \* bound: days
  RetMaxActs       \* bound: acts of the owner, and errors

NoTag   == "none"
Archive == "Archive"
Hidden  == {"Deletions", "Purges"}
TagOrNone == RetTags \cup {NoTag}

ASSUME RetAssumption ==
  /\ IsFiniteSet(RetIds)
  /\ Archive \in RetKept /\ RetKept \cap Hidden = {} /\ "none" \notin RetKept
  /\ NoTag \notin RetTags /\ RetPersonal \subseteq RetTags
  /\ RetAction \in [RetTags -> {"purge", "soft", "archive", "mark"}]
  /\ RetDays \in [RetTags -> Nat]
  /\ RetRpt \in [RetKept -> TagOrNone] /\ RetDpt \in TagOrNone
  /\ RetTtl \in Nat /\ RetMaxDay \in Nat /\ RetMaxActs \in Nat

VARIABLES
  retDay,
  retMsg,          \* the rows
  retFolderTag,    \* the owner's tags on folders
  retRun,
  retUsed,         \* usedBytes of the owner
  retRaced,        \* history: two sweeps counted the same message
  retActs

retVars == <<retDay, retMsg, retFolderTag, retRun, retUsed, retRaced, retActs>>

(* soft is softDeletedAt, -1 when not set.  by and why (history) say which *)
(* tag brought a message into the recoverable items, and whether it still  *)
(* was the message's tag in its folder then.                               *)
RetRow ==
  [folder : RetKept \cup Hidden \cup {"none"}, tag : TagOrNone, soft : {-1} \cup Nat,
   by : TagOrNone, why : {"none", "due", "stale", "owner"}]

RetTask ==
  [at : {"idle", "list", "items", "sweep", "read", "delete"}, todo : SUBSET RetKept,
   here : RetKept, items : SUBSET (RetIds \X RetTags), ids : SUBSET RetIds,
   folderTag : [RetKept -> TagOrNone]]

RetTypeOK ==
  /\ retDay \in 0..RetMaxDay
  /\ retMsg \in [RetIds -> RetRow]
  /\ \A m \in RetIds : retMsg[m].soft <= retDay
  /\ retFolderTag \in [RetKept -> TagOrNone]
  /\ retRun \in [RetRuns -> RetTask]
  /\ retUsed \in Int
  /\ retRaced \in BOOLEAN
  /\ retActs \in 0..RetMaxActs

NoFolderTags == [f \in RetKept |-> NoTag]

RetIdle == [at |-> "idle", todo |-> {}, here |-> Archive, items |-> {}, ids |-> {},
            folderTag |-> NoFolderTags]

RetInit ==
  /\ retDay = 0
  /\ \E place \in [RetIds -> RetKept] :
       retMsg = [m \in RetIds |-> [folder |-> place[m], tag |-> NoTag, soft |-> -1,
                                   by |-> NoTag, why |-> "none"]]
  /\ retFolderTag = NoFolderTags
  /\ retRun = [r \in RetRuns |-> RetIdle]
  /\ retUsed = Cardinality(RetIds)
  /\ retRaced = FALSE
  /\ retActs = 0

-----------------------------------------------------------------------------
(* The owner, and time.                                                    *)

RetTick ==
  /\ retDay < RetMaxDay
  /\ retDay' = retDay + 1
  /\ UNCHANGED <<retMsg, retFolderTag, retRun, retUsed, retRaced, retActs>>

RetAct ==
  /\ retActs < RetMaxActs
  /\ retActs' = retActs + 1

(* By IMAP or the web; softDeletedAt stays as it was.                      *)
MoveMessage(m, f) ==
  /\ RetAct
  /\ retMsg[m].folder \notin {"none", f}
  /\ retMsg' = [retMsg EXCEPT
       ![m] = [retMsg[m] EXCEPT !.folder = f, !.by = NoTag,
                                !.why = IF f \in Hidden THEN "owner" ELSE "none"]]
  /\ UNCHANGED <<retDay, retFolderTag, retRun, retUsed, retRaced>>

TagMessage(m, t) ==
  /\ RetAct
  /\ retMsg[m].folder \in RetKept
  /\ retMsg' = [retMsg EXCEPT ![m].tag = t]
  /\ UNCHANGED <<retDay, retFolderTag, retRun, retUsed, retRaced>>

TagFolder(f, t) ==
  /\ RetAct
  /\ retFolderTag' = [retFolderTag EXCEPT ![f] = t]
  /\ UNCHANGED <<retDay, retMsg, retRun, retUsed, retRaced>>

-----------------------------------------------------------------------------
(* A run.                                                                  *)

RunGoes(r, task) ==
  /\ retRun' = [retRun EXCEPT ![r] = task]
  /\ UNCHANGED <<retDay, retFolderTag>>

(* The folders and their tags are read once.                               *)
BeginRun(r) ==
  /\ retRun[r].at = "idle"
  /\ RunGoes(r, [RetIdle EXCEPT !.at = "list", !.todo = RetKept, !.folderTag = retFolderTag])
  /\ UNCHANGED <<retMsg, retUsed, retRaced, retActs>>

First(a, b) == IF a # NoTag THEN a ELSE b

Effective_RptFirst(personal, folderTag, f) ==
  First(RetRpt[f], First(personal, First(folderTag, RetDpt)))

(* Personal on the item, personal on the folder, RPT, DPT.                 *)
Effective(personal, folderTag, f) ==
  First(personal, First(folderTag, First(RetRpt[f], RetDpt)))

Listed(r, f) ==
  {<<m, Effective(retMsg[m].tag, retRun[r].folderTag[f], f)>> :
     m \in {n \in RetIds : retMsg[n].folder = f /\ retMsg[n].soft = -1}}

AfterItems(task) ==
  IF task.items # {} THEN [task EXCEPT !.at = "items"]
  ELSE IF task.todo # {} THEN [task EXCEPT !.at = "list"]
  ELSE [task EXCEPT !.at = "sweep"]

ListFolder(r, f) ==
  /\ retRun[r].at = "list" /\ f \in retRun[r].todo
  /\ RunGoes(r, AfterItems([retRun[r] EXCEPT
       !.todo = retRun[r].todo \ {f}, !.here = f,
       !.items = {i \in Listed(r, f) : i[2] # NoTag}]))
  /\ UNCHANGED <<retMsg, retUsed, retRaced, retActs>>

Expired(t) == RetDays[t] <= retDay

SoftDate == retDay

(* Whether the tag from the list still is the message's.                   *)
StillHas(m, t, f) ==
  retMsg[m].folder = f /\ Effective(retMsg[m].tag, retFolderTag[f], f) = t

Treated(m, t, f) ==
  LET why == IF StillHas(m, t, f) THEN "due" ELSE "stale"
      row == retMsg[m]
  IN IF RetAction[t] = "purge" THEN [row EXCEPT !.folder = "Purges", !.by = t, !.why = why]
     ELSE IF RetAction[t] = "soft"
     THEN [row EXCEPT !.folder = "Deletions", !.by = t, !.why = why, !.soft = SoftDate]
     ELSE IF RetAction[t] = "archive"
     THEN [row EXCEPT !.folder = Archive, !.by = NoTag, !.why = "none"]
     ELSE [row EXCEPT !.tag = t, !.why = IF row.folder \in Hidden THEN "stale" ELSE row.why]

(* The update goes by the id: it throws, and ends the mailbox, when the    *)
(* row is gone.                                                            *)
TreatItem(r, i) ==
  LET rest == [retRun[r] EXCEPT !.items = retRun[r].items \ {i}] IN
  /\ retRun[r].at = "items" /\ i \in retRun[r].items
  /\ \/ /\ ~Expired(i[2])
        /\ RunGoes(r, AfterItems(rest)) /\ UNCHANGED retMsg
     \/ /\ Expired(i[2]) /\ retMsg[i[1]].folder # "none"
        /\ retMsg' = [retMsg EXCEPT ![i[1]] = Treated(i[1], i[2], retRun[r].here)]
        /\ RunGoes(r, AfterItems(rest))
     \/ /\ Expired(i[2]) /\ retMsg[i[1]].folder = "none"
        /\ RunGoes(r, [RetIdle EXCEPT !.at = "sweep"]) /\ UNCHANGED retMsg
  /\ UNCHANGED <<retUsed, retRaced, retActs>>

Over(m) == retMsg[m].soft >= 0 /\ retMsg[m].soft < retDay - RetTtl

SweepDeletions(r) ==
  /\ retRun[r].at = "sweep"
  /\ retMsg' = [m \in RetIds |-> IF retMsg[m].folder = "Deletions" /\ Over(m)
                                 THEN [retMsg[m] EXCEPT !.folder = "Purges"] ELSE retMsg[m]]
  /\ RunGoes(r, [RetIdle EXCEPT !.at = "read"])
  /\ UNCHANGED <<retUsed, retRaced, retActs>>

ReadPurges(r) ==
  LET ids == {m \in RetIds : retMsg[m].folder = "Purges"} IN
  /\ retRun[r].at = "read"
  /\ RunGoes(r, IF ids = {} THEN RetIdle ELSE [RetIdle EXCEPT !.at = "delete", !.ids = ids])
  /\ UNCHANGED <<retMsg, retUsed, retRaced, retActs>>

Freed_Forgotten(ids) == 0

Freed(ids) == Cardinality(ids)

(* One transaction: the rows by their ids, and the quota by the sizes that *)
(* were read.                                                              *)
DeletePurges(r) ==
  LET ids == retRun[r].ids IN
  /\ retRun[r].at = "delete"
  /\ retMsg' = [m \in RetIds |->
       IF m \notin ids THEN retMsg[m]
       ELSE [retMsg[m] EXCEPT !.folder = "none",
               !.why = IF retMsg[m].folder = "Purges" THEN retMsg[m].why ELSE "stale"]]
  /\ retUsed' = retUsed - Freed(ids)
  /\ retRaced' = (retRaced \/ \E m \in ids : retMsg[m].folder = "none")
  /\ RunGoes(r, RetIdle)
  /\ UNCHANGED retActs

(* A statement fails, or the work cycle is over: the mailbox ends early,   *)
(* and the sweep comes or not.                                             *)
RunCutShort(r) ==
  /\ retRun[r].at # "idle"
  /\ RetAct
  /\ \E at \in {"idle", "sweep"} :
       /\ at = "sweep" => retRun[r].at \in {"list", "items"}
       /\ RunGoes(r, [RetIdle EXCEPT !.at = at])
  /\ UNCHANGED <<retMsg, retUsed, retRaced>>

RetNext ==
  \/ RetTick
  \/ \E m \in RetIds, f \in RetKept \cup Hidden : MoveMessage(m, f)
  \/ \E m \in RetIds, t \in RetPersonal \cup {NoTag} : TagMessage(m, t)
  \/ \E f \in RetKept, t \in RetPersonal \cup {NoTag} : TagFolder(f, t)
  \/ \E r \in RetRuns :
       \/ BeginRun(r) \/ SweepDeletions(r) \/ ReadPurges(r) \/ DeletePurges(r)
       \/ RunCutShort(r)
       \/ \E f \in RetKept : ListFolder(r, f)
       \/ \E i \in retRun[r].items : TreatItem(r, i)

RetSpec == RetInit /\ [][RetNext]_retVars

-----------------------------------------------------------------------------
(* Properties.                                                             *)

(* What was destroyed, or waits for it, was brought there by a tag that    *)
(* purges and whose days were over, or by one that allows recovery, whose  *)
(* days were over and after which the message had its days in Deletions;   *)
(* unless its owner moved it, now or earlier.                              *)
PurgedIsDue ==
  \A m \in RetIds : retMsg[m].folder \in {"Purges", "none"} =>
    \/ retMsg[m].by = NoTag
    \/ retMsg[m].why = "stale"
    \/ RetAction[retMsg[m].by] = "purge" /\ Expired(retMsg[m].by)
    \/ RetAction[retMsg[m].by] = "soft" /\ retMsg[m].soft + RetTtl < retDay
         /\ RetDays[retMsg[m].by] <= retMsg[m].soft

(* A tag that the owner has given to a message decides over those of its   *)
(* folder and of the policy, unless the message or a tag was changed while *)
(* a run had it on its list.                                               *)
OwnTagWins ==
  \A m \in RetIds :
    retMsg[m].by # NoTag /\ retMsg[m].tag # NoTag /\ retMsg[m].why = "due" =>
      retMsg[m].by = retMsg[m].tag

(* Messages go by their tags, and none of them goes early.                 *)
TagsAreObeyed == PurgedIsDue /\ OwnTagWins

(* The quota counts the messages that are there, unless two sweeps ran     *)
(* beside each other and both took the same message off.                   *)
QuotaAgrees ==
  ~retRaced => retUsed = Cardinality({m \in RetIds : retMsg[m].folder # "none"})
=============================================================================
