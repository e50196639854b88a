------------------------------- MODULE EasSync -------------------------------
(***************************************************************************)
(* ActiveSync: one folder on the server and on a device.                   *)
(*                                                                         *)
(* A sync key is the time at which a request drew it, and a Sync sends the *)
(* messages whose modSeq is above the device's key.  Some writers stamp a  *)
(* message with the time too (JMAP, and Sync itself for changes from the   *)
(* device); the others take the next number of a small counter, or add one *)
(* to what the message has.  Here a number of the counter is 0 and a time  *)
(* at least 1.                                                             *)
(*                                                                         *)
(* A device has one Sync or Ping under way, and syncs again with its old   *)
(* key when the answer is lost.  The key that the server keeps for the     *)
(* device is never read, and is left out.  Messages are versions: what a   *)
(* change is about is left out.  Which messages a full window keeps is     *)
(* left open (the code keeps the newest by date).                          *)
(***************************************************************************)
EXTENDS Naturals, FiniteSets

CONSTANTS
  EasIds,
  EasWindow,      \* WINDOW_SIZE
  EasMaxTime,     \* bound: the clock
  EasMaxVersion   \* bound: versions of a message

ASSUME EasAssumption ==
  /\ IsFiniteSet(EasIds)
  /\ EasWindow \in Nat
  /\ EasMaxTime \in Nat
  /\ EasMaxVersion \in Nat

VARIABLES
  easNow,         \* the clock of the server
  easMsg,         \* the rows
  easWriting,     \* JMAP updates between their Date.now() and their commit
  easReq,         \* the Sync under way
  easDev,         \* the device
  easWhy,         \* history: why the device may miss the last change
  easPing         \* the Ping under way

easVars == <<easNow, easMsg, easWriting, easReq, easDev, easWhy, easPing>>

EasRow    == [place : {"none", "here", "gone"}, modSeq : Nat, version : Nat]
EasWrite  == [id : EasIds, stamp : Nat]
EasReq    == [at : {"none", "key", "query", "answer"}, key : Nat, seen : [EasIds -> Nat]]
EasDevice == [key : Nat, has : [EasIds -> Nat]]
EasWhy    == {"told", "counter", "late", "cut"}

(* The types; a key is drawn from a clock that has not passed it.          *)
EasTypeOK ==
  /\ easNow \in Nat
  /\ easMsg \in [EasIds -> EasRow]
  /\ easWriting \subseteq EasWrite
  /\ easReq \in EasReq
  /\ easDev \in EasDevice
  /\ easWhy \in [EasIds -> EasWhy]
  /\ easPing \in [at : {"idle", "open", "changed", "same"}, baseline : Nat]
  /\ easDev.key <= easNow
  /\ easReq.at \in {"query", "answer"} => easReq.key \in easDev.key..easNow

Blank == [m \in EasIds |-> 0]

EasInit ==
  /\ easNow = 1
  /\ easMsg = [m \in EasIds |-> [place |-> "none", modSeq |-> 0, version |-> 0]]
  /\ easWriting = {}
  /\ easReq = [at |-> "none", key |-> 0, seen |-> Blank]
  /\ easDev = [key |-> 0, has |-> Blank]
  /\ easWhy = [m \in EasIds |-> "told"]
  /\ easPing = [at |-> "idle", baseline |-> 0]

EasHere(m) == easMsg[m].place = "here"
EasHeres   == {m \in EasIds : EasHere(m)}

-----------------------------------------------------------------------------
(* The other writers of the folder.                                        *)

EasTick ==
  /\ easNow < EasMaxTime
  /\ easNow' = easNow + 1
  /\ UNCHANGED <<easMsg, easWriting, easReq, easDev, easWhy, easPing>>

EasDeliver(m) ==
  /\ easMsg[m].place = "none"
  /\ easMsg' = [easMsg EXCEPT ![m] = [place |-> "here", modSeq |-> 0, version |-> 1]]
  /\ easWhy' = [easWhy EXCEPT ![m] = "counter"]
  /\ UNCHANGED <<easNow, easWriting, easReq, easDev, easPing>>

(* IMAP STORE adds one to the message's own number.                        *)
EasStore(m) ==
  /\ EasHere(m)
  /\ easMsg[m].version < EasMaxVersion
  /\ easMsg' = [easMsg EXCEPT
       ![m] = [place |-> "here", version |-> easMsg[m].version + 1,
               modSeq |-> IF easMsg[m].modSeq = 0 THEN 0 ELSE easMsg[m].modSeq + 1]]
  /\ easWhy' = [easWhy EXCEPT ![m] = "counter"]
  /\ UNCHANGED <<easNow, easWriting, easReq, easDev, easPing>>

EasStamp(m) ==
  /\ easWriting = {}
  /\ EasHere(m)
  /\ easMsg[m].version < EasMaxVersion
  /\ easWriting' = {[id |-> m, stamp |-> easNow]}
  /\ UNCHANGED <<easNow, easMsg, easReq, easDev, easWhy, easPing>>

(* The last key that a Sync has drawn, unless its answer was lost.         *)
EasLastKey == IF easReq.at \in {"query", "answer"} THEN easReq.key ELSE easDev.key

EasStamped(m, stamp) ==
  /\ easMsg' = [easMsg EXCEPT
       ![m] = [place |-> easMsg[m].place, modSeq |-> stamp, version |-> easMsg[m].version + 1]]
  /\ easWhy' = [easWhy EXCEPT ![m] = IF stamp <= EasLastKey THEN "late" ELSE "told"]

EasCommit(w) ==
  /\ w \in easWriting
  /\ EasStamped(w.id, w.stamp)
  /\ easWriting' = {}
  /\ UNCHANGED <<easNow, easReq, easDev, easPing>>

(* Deleted, or moved to another folder.                                    *)
EasRemove(m) ==
  /\ EasHere(m)
  /\ easMsg' = [easMsg EXCEPT
       ![m] = [place |-> "gone", modSeq |-> easMsg[m].modSeq, version |-> easMsg[m].version]]
  /\ UNCHANGED <<easNow, easWriting, easReq, easDev, easWhy, easPing>>

-----------------------------------------------------------------------------
(* Sync.                                                                   *)

(* The request, with nothing to say; with a changed Read flag, stamped     *)
(* with the time; or with a deletion.                                      *)
EasAsk ==
  /\ easReq.at = "none" /\ easPing.at # "open"
  /\ easReq' = [at |-> "key", key |-> 0, seen |-> Blank]
  /\ easPing' = [at |-> "idle", baseline |-> 0]
  /\ UNCHANGED <<easNow, easWriting>>

EasSyncPlain ==
  /\ EasAsk
  /\ UNCHANGED <<easMsg, easDev, easWhy>>

EasSyncChange(m) ==
  /\ EasAsk
  /\ easDev.has[m] # 0 /\ EasHere(m)
  /\ easMsg[m].version < EasMaxVersion
  /\ EasStamped(m, easNow)
  /\ UNCHANGED easDev

EasSyncDelete(m) ==
  /\ EasAsk
  /\ easDev.has[m] # 0 /\ EasHere(m)
  /\ easMsg' = [easMsg EXCEPT
       ![m] = [place |-> "gone", modSeq |-> easMsg[m].modSeq, version |-> easMsg[m].version]]
  /\ easDev' = [easDev EXCEPT !.has[m] = 0]
  /\ UNCHANGED easWhy

(* The new key is drawn before the messages are read.                      *)
EasDrawKey ==
  /\ easReq.at = "key"
  /\ easReq' = [at |-> "query", key |-> easNow, seen |-> Blank]
  /\ UNCHANGED <<easNow, easMsg, easWriting, easDev, easWhy, easPing>>

EasAbove_NewKey(m) == easDev.key = 0 \/ easMsg[m].modSeq > easReq.key

EasAbove(m) == easDev.key = 0 \/ easMsg[m].modSeq > easDev.key

EasMatches == {m \in EasIds : EasHere(m) /\ EasAbove(m)}

EasQuery ==
  /\ easReq.at = "query"
  /\ \E S \in SUBSET EasMatches :
       /\ Cardinality(S) <= EasWindow
       /\ Cardinality(S) = EasWindow \/ S = EasMatches
       /\ easReq' = [at |-> "answer", key |-> easReq.key,
                     seen |-> [m \in EasIds |-> IF m \in S THEN easMsg[m].version ELSE 0]]
       /\ easWhy' = [m \in EasIds |-> CASE m \in S -> "told"
                                        [] m \in EasMatches \ S -> "cut"
                                        [] OTHER -> easWhy[m]]
  /\ UNCHANGED <<easNow, easMsg, easWriting, easDev, easPing>>

EasNewKey_AtAnswer == easNow

EasNewKey == easReq.key

(* The device puts in what it gets.  It is never told to remove anything.  *)
EasReceive ==
  /\ easReq.at = "answer"
  /\ easDev' = [key |-> EasNewKey,
                has |-> [m \in EasIds |-> IF easReq.seen[m] # 0 THEN easReq.seen[m]
                                          ELSE easDev.has[m]]]
  /\ easReq' = [at |-> "none", key |-> 0, seen |-> Blank]
  /\ UNCHANGED <<easNow, easMsg, easWriting, easWhy, easPing>>

EasLose ==
  /\ easReq.at # "none"
  /\ easReq' = [at |-> "none", key |-> 0, seen |-> Blank]
  /\ UNCHANGED <<easNow, easMsg, easWriting, easDev, easWhy, easPing>>

-----------------------------------------------------------------------------
(* Ping.  Two Pings with no Sync between are as one.                       *)

EasCount_All == Cardinality({m \in EasIds : easMsg[m].place # "none"})

EasCount == Cardinality(EasHeres)

EasPingStart ==
  /\ easReq.at = "none" /\ easPing.at = "idle"
  /\ easPing' = [at |-> "open", baseline |-> EasCount]
  /\ UNCHANGED <<easNow, easMsg, easWriting, easReq, easDev, easWhy>>

(* Every ten seconds: Status 2 when the number has changed.                *)
EasPingWakes ==
  /\ easPing.at = "open"
  /\ easPing.baseline # EasCount
  /\ easPing' = [at |-> "changed", baseline |-> 0]
  /\ UNCHANGED <<easNow, easMsg, easWriting, easReq, easDev, easWhy>>

(* The heartbeat ends after a poll that found nothing: Status 1.           *)
EasPingEnds ==
  /\ easPing.at = "open"
  /\ easPing.baseline = EasCount
  /\ easPing' = [at |-> "same", baseline |-> 0]
  /\ UNCHANGED <<easNow, easMsg, easWriting, easReq, easDev, easWhy>>

EasNext ==
  \/ EasTick \/ \E w \in easWriting : EasCommit(w)
  \/ \E m \in EasIds : \/ EasDeliver(m) \/ EasStore(m) \/ EasStamp(m) \/ EasRemove(m)
                       \/ EasSyncChange(m) \/ EasSyncDelete(m)
  \/ EasSyncPlain \/ EasDrawKey \/ EasQuery \/ EasReceive \/ EasLose
  \/ EasPingStart \/ EasPingWakes \/ EasPingEnds

EasSpec == EasInit /\ [][EasNext]_easVars

(* The device goes on syncing, and not every request or answer is lost;    *)
(* the server polls until the deadline.                                    *)
EasFair ==
  /\ EasSpec
  /\ SF_easVars(EasSyncPlain)
  /\ SF_easVars(EasDrawKey)
  /\ SF_easVars(EasQuery)
  /\ SF_easVars(EasReceive)
  /\ WF_easVars(EasPingWakes \/ EasPingEnds)

-----------------------------------------------------------------------------
(* Properties.                                                             *)

Outdated(m) == EasHere(m) /\ easDev.has[m] # easMsg[m].version

(* No later Sync will send it.                                             *)
Missed(m) == Outdated(m) /\ easDev.key # 0 /\ ~(easMsg[m].modSeq > easDev.key)

(* The key is drawn before the messages are read, so that a change is not  *)
(* lost between two Syncs, nor with an answer, except in three cases: its  *)
(* writer did not stamp it with the time, its stamp was older than the key *)
(* when it was committed, or a full window cut it off.                     *)
MissedIsExplained == \A m \in EasIds : Missed(m) => easWhy[m] # "told"

(* What is above the device's key reaches the device, or is explained.     *)
PendingArrives ==
  \A m \in EasIds :
    Outdated(m) /\ easWhy[m] = "told" ~> ~Outdated(m) \/ easWhy[m] # "told"

(* A number of messages that has changed since a Ping was opened, and does *)
(* not change back, is answered as a change; deleted messages do not count *)
(* (the poll loop of ping.ts).                                             *)
PingNotices ==
  LET Messages == Cardinality({m \in EasIds : easMsg[m].place = "here"})
  IN  easPing.at = "open" /\ easPing.baseline # Messages ~>
        \/ easPing.at = "changed"
        \/ easPing.at = "open" /\ easPing.baseline = Messages
=============================================================================
