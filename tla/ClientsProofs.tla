----------------------------- MODULE ClientsProofs -----------------------------
(***************************************************************************)
(* Theorems about what keeps a mailbox in step with a device or a program: *)
(* ActiveSync, POP3, IMAP and the web client, for any messages, sessions,  *)
(* requests and bounds.  The four share no state; each has its part below. *)
(***************************************************************************)
EXTENDS EasSync, Pop3Session, ImapView, WebMail, FiniteSetTheorems, SequenceTheorems, TLAPS

-----------------------------------------------------------------------------
(* EasSync.  The invariant says when a change that could be told still     *)
(* will be: it is above the device's key, or, once the messages have been  *)
(* read, it is in the answer or above the key the answer brings.           *)

(* The device will have m's present version.                               *)
WillHave(m) == IF easReq.seen[m] # 0 THEN easReq.seen[m] ELSE easDev.has[m]

Told(m) == easMsg[m].place = "here" /\ easWhy[m] = "told"

VersionInv == \A m \in EasIds : easMsg[m].place = "here" => easMsg[m].version # 0

StampInv == \A w \in easWriting : w.stamp <= easNow

DeviceInv ==
  \A m \in EasIds : Told(m) =>
    \/ easDev.key = 0
    \/ easDev.has[m] = easMsg[m].version
    \/ easMsg[m].modSeq > easDev.key

AnswerInv ==
  easReq.at = "answer" => \A m \in EasIds : Told(m) =>
    \/ WillHave(m) = easMsg[m].version
    \/ easMsg[m].modSeq > easReq.key

EasInv == EasTypeOK /\ VersionInv /\ StampInv /\ DeviceInv /\ AnswerInv

-----------------------------------------------------------------------------
(* The number of messages in the folder is a number.                       *)
LEMMA CountIsNat == EasCount \in Nat
<1>1. EasHeres \subseteq EasIds
  BY DEF EasHeres
<1>2. IsFiniteSet(EasHeres)
  BY <1>1, EasAssumption, FS_Subset
<1>3. QED
  BY <1>2, FS_CardinalityType DEF EasCount

(* One changed row.                                                        *)
LEMMA RowType ==
  ASSUME EasTypeOK, NEW m \in EasIds,
         NEW p \in {"none", "here", "gone"}, NEW s \in Nat, NEW v \in Nat
  PROVE  [easMsg EXCEPT ![m] = [place |-> p, modSeq |-> s, version |-> v]]
           \in [EasIds -> EasRow]
BY DEF EasTypeOK, EasRow

(* The history of one message changes.                                     *)
LEMMA WhyType ==
  ASSUME EasTypeOK, NEW m \in EasIds, NEW w \in EasWhy
  PROVE  [easWhy EXCEPT ![m] = w] \in [EasIds -> EasWhy]
BY DEF EasTypeOK

(* A stamped change is a change, and is told if it is above the last key.  *)
LEMMA Stamped ==
  ASSUME EasInv, NEW m \in EasIds, NEW s \in Nat, EasStamped(m, s)
  PROVE  /\ easMsg' \in [EasIds -> EasRow]
         /\ easWhy' \in [EasIds -> EasWhy]
         /\ easMsg'[m] = [place |-> easMsg[m].place, modSeq |-> s,
                          version |-> easMsg[m].version + 1]
         /\ easWhy'[m] = "told" => s > EasLastKey
         /\ \A n \in EasIds \ {m} : easMsg'[n] = easMsg[n] /\ easWhy'[n] = easWhy[n]
<1>1. easMsg[m] \in EasRow /\ easMsg[m].version + 1 \in Nat /\ easMsg[m].place \in {"none", "here", "gone"}
  BY DEF EasInv, EasTypeOK, EasRow
<1>2. EasLastKey \in Nat
  BY DEF EasInv, EasTypeOK, EasReq, EasDevice, EasLastKey
<1>3. (IF s <= EasLastKey THEN "late" ELSE "told") \in EasWhy
  BY DEF EasWhy
<1>4. easMsg' \in [EasIds -> EasRow]
  BY <1>1, RowType DEF EasStamped, EasInv
<1>5. easWhy' \in [EasIds -> EasWhy]
  BY <1>3, WhyType DEF EasStamped, EasInv
<1>6. easMsg \in [EasIds -> EasRow] /\ easWhy \in [EasIds -> EasWhy]
  BY DEF EasInv, EasTypeOK
<1>7. easWhy'[m] = "told" => s > EasLastKey
  BY <1>2, <1>6 DEF EasStamped
<1>8. QED
  BY <1>4, <1>5, <1>6, <1>7 DEF EasStamped

-----------------------------------------------------------------------------
(* What a changed row leaves of the invariant.  Of the row itself it is    *)
(* enough that a change that is told is stamped above the last key.        *)
LEMMA RowChanges ==
  ASSUME EasInv, NEW m \in EasIds,
         UNCHANGED <<easDev, easReq>>,
         \A n \in EasIds \ {m} : easMsg'[n] = easMsg[n] /\ easWhy'[n] = easWhy[n],
         Told(m)' => easMsg'[m].modSeq > EasLastKey /\ easMsg'[m].modSeq \in Nat,
         easMsg'[m].place = "here" => easMsg'[m].version # 0
  PROVE  VersionInv' /\ DeviceInv' /\ AnswerInv'
<1>1. VersionInv'
  BY DEF EasInv, VersionInv
<1>2. EasLastKey \in Nat /\ easDev.key \in Nat /\ easDev.key <= EasLastKey
  BY DEF EasInv, EasTypeOK, EasReq, EasDevice, EasLastKey
<1>3. easReq.at = "answer" => EasLastKey = easReq.key
  BY DEF EasLastKey
<1>4. \A n \in EasIds \ {m} : /\ Told(n)' <=> Told(n)
                              /\ WillHave(n)' = WillHave(n)
  BY DEF Told, WillHave
<1>5. Told(m)' => easMsg'[m].modSeq > easDev.key
  BY <1>2
<1>6. DeviceInv'
  BY <1>4, <1>5 DEF EasInv, DeviceInv
<1>7. AnswerInv'
  BY <1>3, <1>4 DEF EasInv, AnswerInv
<1>8. QED
  BY <1>1, <1>6, <1>7

(* The steps of the other writers.                                         *)
LEMMA TickStep ==
  ASSUME EasInv, EasTick
  PROVE  EasInv'
<1>1. EasTypeOK'
  BY DEF EasInv, EasTick, EasTypeOK, EasReq, EasDevice
<1>2. StampInv'
  <2>1. \A w \in easWriting : w.stamp \in Nat
    BY DEF EasInv, EasTypeOK, EasWrite
  <2>2. QED
    BY <2>1 DEF EasInv, EasTick, StampInv, EasTypeOK
<1>3. VersionInv' /\ DeviceInv' /\ AnswerInv'
  BY DEF EasInv, EasTick, VersionInv, DeviceInv, AnswerInv, Told, WillHave
<1>4. QED
  BY <1>1, <1>2, <1>3 DEF EasInv

LEMMA DeliverStep ==
  ASSUME EasInv, NEW m \in EasIds, EasDeliver(m)
  PROVE  EasInv'
<1>1. easMsg' \in [EasIds -> EasRow] /\ easWhy' \in [EasIds -> EasWhy]
  BY RowType, WhyType DEF EasDeliver, EasInv, EasWhy
<1>2. EasTypeOK'
  BY <1>1 DEF EasInv, EasDeliver, EasTypeOK
<1>3. StampInv'
  BY DEF EasInv, EasDeliver, StampInv
<1>4. /\ easWhy'[m] = "counter" /\ easMsg'[m].version = 1
      /\ \A n \in EasIds \ {m} : easMsg'[n] = easMsg[n] /\ easWhy'[n] = easWhy[n]
  BY DEF EasInv, EasDeliver, EasTypeOK
<1>5. VersionInv' /\ DeviceInv' /\ AnswerInv'
  BY <1>4, RowChanges DEF EasDeliver, Told
<1>6. QED
  BY <1>2, <1>3, <1>5 DEF EasInv

LEMMA StoreStep ==
  ASSUME EasInv, NEW m \in EasIds, EasStore(m)
  PROVE  EasInv'
<1>1. easMsg[m] \in EasRow /\ easMsg[m].version + 1 \in Nat /\ easMsg[m].version \in Nat
  BY DEF EasInv, EasTypeOK, EasRow
<1>2. (IF easMsg[m].modSeq = 0 THEN 0 ELSE easMsg[m].modSeq + 1) \in Nat
  BY <1>1 DEF EasRow
<1>3. easMsg' \in [EasIds -> EasRow] /\ easWhy' \in [EasIds -> EasWhy]
  BY <1>1, <1>2, RowType, WhyType DEF EasStore, EasInv, EasWhy
<1>4. EasTypeOK'
  BY <1>3 DEF EasInv, EasStore, EasTypeOK
<1>5. StampInv'
  BY DEF EasInv, EasStore, StampInv
<1>6. /\ easWhy'[m] = "counter" /\ easMsg'[m].version = easMsg[m].version + 1
      /\ \A n \in EasIds \ {m} : easMsg'[n] = easMsg[n] /\ easWhy'[n] = easWhy[n]
  BY DEF EasInv, EasStore, EasTypeOK
<1>7. easMsg'[m].version # 0
  BY <1>1, <1>6
<1>8. VersionInv' /\ DeviceInv' /\ AnswerInv'
  BY <1>6, <1>7, RowChanges DEF EasStore, Told
<1>9. QED
  BY <1>4, <1>5, <1>8 DEF EasInv

LEMMA StampStep ==
  ASSUME EasInv, NEW m \in EasIds, EasStamp(m)
  PROVE  EasInv'
<1>1. EasTypeOK'
  BY DEF EasInv, EasStamp, EasTypeOK, EasWrite
<1>2. StampInv'
  BY DEF EasInv, EasStamp, StampInv, EasTypeOK
<1>3. VersionInv' /\ DeviceInv' /\ AnswerInv'
  BY DEF EasInv, EasStamp, VersionInv, DeviceInv, AnswerInv, Told, WillHave
<1>4. QED
  BY <1>1, <1>2, <1>3 DEF EasInv

LEMMA CommitStep ==
  ASSUME EasInv, NEW w \in easWriting, EasCommit(w)
  PROVE  EasInv'
<1>1. w.id \in EasIds /\ w.stamp \in Nat
  BY DEF EasInv, EasTypeOK, EasWrite
<1>2. EasStamped(w.id, w.stamp)
  BY DEF EasCommit
<1>3. EasTypeOK'
  BY <1>1, <1>2, Stamped DEF EasInv, EasCommit, EasTypeOK
<1>4. StampInv'
  BY DEF EasCommit, StampInv
<1>5. easMsg[w.id].version \in Nat
  BY <1>1 DEF EasInv, EasTypeOK, EasRow
<1>6. easMsg'[w.id].version # 0 /\ easMsg'[w.id].modSeq = w.stamp
  <2>1. easMsg'[w.id] = [place |-> easMsg[w.id].place, modSeq |-> w.stamp,
                         version |-> easMsg[w.id].version + 1]
    BY <1>1, <1>2, Stamped
  <2>2. QED
    BY <1>5, <2>1
<1>7. Told(w.id)' => easMsg'[w.id].modSeq > EasLastKey /\ easMsg'[w.id].modSeq \in Nat
  BY <1>1, <1>2, <1>6, Stamped DEF Told
<1>8. \A n \in EasIds \ {w.id} : easMsg'[n] = easMsg[n] /\ easWhy'[n] = easWhy[n]
  BY <1>1, <1>2, Stamped
<1>9. VersionInv' /\ DeviceInv' /\ AnswerInv'
  BY <1>1, <1>6, <1>7, <1>8, RowChanges DEF EasCommit
<1>10. QED
  BY <1>3, <1>4, <1>9 DEF EasInv

LEMMA RemoveStep ==
  ASSUME EasInv, NEW m \in EasIds, EasRemove(m)
  PROVE  EasInv'
<1>1. easMsg[m].modSeq \in Nat /\ easMsg[m].version \in Nat
  BY DEF EasInv, EasTypeOK, EasRow
<1>2. easMsg' \in [EasIds -> EasRow]
  BY <1>1, RowType DEF EasRemove, EasInv
<1>3. EasTypeOK'
  BY <1>2 DEF EasInv, EasRemove, EasTypeOK
<1>4. StampInv'
  BY DEF EasInv, EasRemove, StampInv
<1>5. easMsg'[m].place = "gone" /\ \A n \in EasIds \ {m} : easMsg'[n] = easMsg[n]
  BY DEF EasInv, EasRemove, EasTypeOK
<1>6. VersionInv' /\ DeviceInv' /\ AnswerInv'
  BY <1>5, RowChanges DEF EasRemove, Told
<1>7. QED
  BY <1>3, <1>4, <1>6 DEF EasInv

-----------------------------------------------------------------------------
(* The steps of a request.                                                 *)

(* A request that begins changes no key, and forgets what was read.        *)
LEMMA AskFrame ==
  ASSUME EasInv, EasAsk, easMsg' \in [EasIds -> EasRow], easWhy' \in [EasIds -> EasWhy],
         easDev' \in EasDevice, easDev'.key = easDev.key
  PROVE  EasTypeOK' /\ StampInv' /\ AnswerInv'
<1>1. easReq' \in EasReq /\ easReq'.at = "key"
  BY DEF EasAsk, EasReq, Blank
<1>2. EasTypeOK'
  BY <1>1 DEF EasInv, EasTypeOK, EasAsk
<1>3. StampInv'
  BY DEF EasInv, StampInv, EasAsk
<1>4. AnswerInv'
  BY <1>1 DEF AnswerInv
<1>5. QED
  BY <1>2, <1>3, <1>4

LEMMA SyncPlainStep ==
  ASSUME EasInv, EasSyncPlain
  PROVE  EasInv'
<1>1. EasTypeOK' /\ StampInv' /\ AnswerInv'
  BY AskFrame DEF EasSyncPlain, EasInv, EasTypeOK
<1>2. VersionInv' /\ DeviceInv'
  BY DEF EasInv, EasSyncPlain, VersionInv, DeviceInv, Told
<1>3. QED
  BY <1>1, <1>2 DEF EasInv

LEMMA SyncChangeStep ==
  ASSUME EasInv, NEW m \in EasIds, EasSyncChange(m)
  PROVE  EasInv'
<1>1. easNow \in Nat /\ easDev \in EasDevice
  BY DEF EasInv, EasTypeOK
<1>2. EasStamped(m, easNow)
  BY DEF EasSyncChange
<1>3. easMsg' \in [EasIds -> EasRow] /\ easWhy' \in [EasIds -> EasWhy]
  BY <1>1, <1>2, Stamped
<1>4. EasTypeOK' /\ StampInv' /\ AnswerInv'
  BY <1>1, <1>3, AskFrame DEF EasSyncChange
<1>5. easMsg[m].version \in Nat
  BY DEF EasInv, EasTypeOK, EasRow
<1>6. easMsg'[m] = [place |-> easMsg[m].place, modSeq |-> easNow,
                    version |-> easMsg[m].version + 1]
  BY <1>1, <1>2, Stamped
<1>7. easMsg'[m].version # 0 /\ easMsg'[m].modSeq = easNow
  BY <1>5, <1>6
<1>8. \A n \in EasIds \ {m} : easMsg'[n] = easMsg[n] /\ easWhy'[n] = easWhy[n]
  BY <1>1, <1>2, Stamped
<1>9. EasLastKey = easDev.key /\ UNCHANGED easDev
  BY DEF EasSyncChange, EasAsk, EasLastKey
<1>10. Told(m)' => easMsg'[m].modSeq > easDev.key
  BY <1>1, <1>2, <1>7, <1>9, Stamped DEF Told
<1>11. VersionInv'
  BY <1>7, <1>8 DEF EasInv, VersionInv
<1>12. DeviceInv'
  BY <1>8, <1>9, <1>10 DEF EasInv, DeviceInv, Told
<1>13. QED
  BY <1>4, <1>11, <1>12 DEF EasInv

LEMMA SyncDeleteStep ==
  ASSUME EasInv, NEW m \in EasIds, EasSyncDelete(m)
  PROVE  EasInv'
<1>1. easMsg[m].modSeq \in Nat /\ easMsg[m].version \in Nat
  BY DEF EasInv, EasTypeOK, EasRow
<1>2. easMsg' \in [EasIds -> EasRow] /\ easWhy' \in [EasIds -> EasWhy]
  BY <1>1, RowType DEF EasSyncDelete, EasInv, EasTypeOK
<1>3. /\ easDev' \in EasDevice
      /\ easDev'.key = easDev.key
      /\ \A n \in EasIds \ {m} : easDev'.has[n] = easDev.has[n]
  BY DEF EasSyncDelete, EasInv, EasTypeOK, EasDevice
<1>4. EasTypeOK' /\ StampInv' /\ AnswerInv'
  BY <1>2, <1>3, AskFrame DEF EasSyncDelete
<1>5. easMsg'[m].place = "gone" /\ \A n \in EasIds \ {m} : easMsg'[n] = easMsg[n]
  BY DEF EasInv, EasSyncDelete, EasTypeOK
<1>6. VersionInv'
  BY <1>5 DEF EasInv, VersionInv
<1>7. DeviceInv'
  BY <1>3, <1>5 DEF EasInv, EasSyncDelete, DeviceInv, Told
<1>8. QED
  BY <1>4, <1>6, <1>7 DEF EasInv

LEMMA DrawKeyStep ==
  ASSUME EasInv, EasDrawKey
  PROVE  EasInv'
<1>1. easNow \in Nat /\ easDev.key \in Nat /\ easDev.key <= easNow
  BY DEF EasInv, EasTypeOK, EasDevice
<1>2. easReq' \in EasReq /\ easReq'.at = "query" /\ easReq'.key = easNow
  BY <1>1 DEF EasDrawKey, EasReq, Blank
<1>3. EasTypeOK'
  BY <1>1, <1>2 DEF EasInv, EasDrawKey, EasTypeOK
<1>4. VersionInv' /\ StampInv' /\ DeviceInv'
  BY DEF EasInv, EasDrawKey, VersionInv, StampInv, DeviceInv, Told
<1>5. AnswerInv'
  BY <1>2 DEF AnswerInv
<1>6. QED
  BY <1>3, <1>4, <1>5 DEF EasInv

(* A message that is told and not in the answer is one that the device has *)
(* or, were it above the key, the window would have cut off.               *)
LEMMA QueryStep ==
  ASSUME EasInv, EasQuery
  PROVE  EasInv'
<1> PICK S \in SUBSET EasMatches :
      /\ Cardinality(S) = EasWindow \/ S = EasMatches
      /\ easReq' = [at |-> "answer", key |-> easReq.key,
                    seen |-> [m \in EasIds |-> IF m \in S THEN easMsg[m].version ELSE 0]]
      /\ easWhy' = [m \in EasIds |-> CASE m \in S -> "told"
                                       [] m \in EasMatches \ S -> "cut"
                                       [] OTHER -> easWhy[m]]
  BY DEF EasQuery
<1>1. UNCHANGED <<easNow, easMsg, easWriting, easDev, easPing>> /\ easReq.at = "query"
  BY DEF EasQuery
<1>2. \A m \in EasIds : easMsg[m].version \in Nat /\ easMsg[m].modSeq \in Nat
  BY DEF EasInv, EasTypeOK, EasRow
<1>3. easReq' \in EasReq /\ easReq'.key = easReq.key /\ easReq'.at = "answer"
  BY <1>2 DEF EasInv, EasTypeOK, EasReq
<1>4. easWhy' \in [EasIds -> EasWhy]
  BY DEF EasInv, EasTypeOK, EasWhy
<1>5. EasTypeOK'
  BY <1>1, <1>3, <1>4 DEF EasInv, EasTypeOK
<1>6. VersionInv' /\ StampInv'
  BY <1>1 DEF EasInv, VersionInv, StampInv
<1>7. \A m \in EasIds : Told(m)' /\ m \notin S => m \notin EasMatches /\ Told(m)
  BY <1>1 DEF Told
<1>8. ASSUME NEW m \in EasIds, Told(m)'
      PROVE  IF m \in S THEN WillHave(m)' = easMsg[m].version
                        ELSE /\ easDev.key # 0 /\ ~(easMsg[m].modSeq > easDev.key)
                             /\ easDev.has[m] = easMsg[m].version
                             /\ WillHave(m)' = easDev.has[m]
  <2>1. CASE m \in S
    <3>1. easMsg[m].version # 0
      BY <1>1, <1>8 DEF Told, EasInv, VersionInv
    <3>2. easReq'.seen[m] = easMsg[m].version
      BY <2>1
    <3>3. QED
      BY <2>1, <3>1, <3>2 DEF WillHave
  <2>2. CASE m \notin S
    <3>1. m \notin EasMatches /\ Told(m)
      BY <1>7, <1>8, <2>2
    <3>2. easDev.key # 0 /\ ~(easMsg[m].modSeq > easDev.key)
      BY <3>1 DEF EasMatches, EasAbove, EasHere, Told
    <3>3. easDev.has[m] = easMsg[m].version
      BY <3>1, <3>2 DEF EasInv, DeviceInv
    <3>4. easReq'.seen[m] = 0
      BY <2>2
    <3>5. QED
      BY <1>1, <2>2, <3>2, <3>3, <3>4 DEF WillHave
  <2>3. QED
    BY <2>1, <2>2
<1>9. AnswerInv'
  BY <1>1, <1>8 DEF AnswerInv
<1>10. ASSUME NEW m \in EasIds, Told(m)'
       PROVE  \/ easDev.key = 0
              \/ easDev.has[m] = easMsg[m].version
              \/ easMsg[m].modSeq > easDev.key
  <2>1. CASE m \in S
    BY <2>1 DEF EasMatches, EasAbove
  <2>2. CASE m \notin S
    BY <1>8, <1>10, <2>2
  <2>3. QED
    BY <2>1, <2>2
<1>11. DeviceInv'
  BY <1>1, <1>10 DEF DeviceInv
<1>12. QED
  BY <1>5, <1>6, <1>9, <1>11 DEF EasInv

LEMMA ReceiveStep ==
  ASSUME EasInv, EasReceive
  PROVE  EasInv'
<1>1. /\ easReq.key \in Nat /\ easReq.key <= easNow
      /\ easReq.seen \in [EasIds -> Nat] /\ easDev.has \in [EasIds -> Nat]
  BY DEF EasInv, EasTypeOK, EasReq, EasDevice, EasReceive
<1>2. /\ easDev' \in EasDevice /\ easDev'.key = easReq.key
      /\ \A m \in EasIds : easDev'.has[m] = WillHave(m)
  BY <1>1 DEF EasReceive, EasNewKey, EasDevice, WillHave
<1>3. easReq' \in EasReq /\ easReq'.at = "none"
  BY DEF EasReceive, EasReq, Blank
<1>4. EasTypeOK'
  BY <1>1, <1>2, <1>3 DEF EasInv, EasTypeOK, EasReceive
<1>5. VersionInv' /\ StampInv'
  BY DEF EasInv, EasReceive, VersionInv, StampInv
<1>6. \A m \in EasIds : Told(m)' <=> Told(m)
  BY DEF EasReceive, Told
<1>7. DeviceInv'
  BY <1>2, <1>6 DEF EasInv, AnswerInv, DeviceInv, EasReceive
<1>8. AnswerInv'
  BY <1>3 DEF AnswerInv
<1>9. QED
  BY <1>4, <1>5, <1>7, <1>8 DEF EasInv

LEMMA LoseStep ==
  ASSUME EasInv, EasLose
  PROVE  EasInv'
<1>1. easReq' \in EasReq /\ easReq'.at = "none"
  BY DEF EasLose, EasReq, Blank
<1>2. EasTypeOK'
  BY <1>1 DEF EasInv, EasTypeOK, EasLose
<1>3. VersionInv' /\ StampInv' /\ DeviceInv'
  BY DEF EasInv, EasLose, VersionInv, StampInv, DeviceInv, Told
<1>4. AnswerInv'
  BY <1>1 DEF AnswerInv
<1>5. QED
  BY <1>2, <1>3, <1>4 DEF EasInv

LEMMA PingStep ==
  ASSUME EasInv, EasPingStart \/ EasPingWakes \/ EasPingEnds
  PROVE  EasInv'
<1>1. easPing' \in [at : {"idle", "open", "changed", "same"}, baseline : Nat]
  BY CountIsNat DEF EasPingStart, EasPingWakes, EasPingEnds
<1>2. UNCHANGED <<easNow, easMsg, easWriting, easReq, easDev, easWhy>>
  BY DEF EasPingStart, EasPingWakes, EasPingEnds
<1>3. EasTypeOK'
  BY <1>1, <1>2 DEF EasInv, EasTypeOK
<1>4. VersionInv' /\ StampInv' /\ DeviceInv' /\ AnswerInv'
  BY <1>2 DEF EasInv, VersionInv, StampInv, DeviceInv, AnswerInv, Told, WillHave
<1>5. QED
  BY <1>3, <1>4 DEF EasInv

-----------------------------------------------------------------------------
LEMMA EasInvInit == EasInit => EasInv
<1> SUFFICES ASSUME EasInit PROVE EasInv
  OBVIOUS
<1>1. EasTypeOK
  BY DEF EasInit, EasTypeOK, EasRow, EasReq, EasDevice, EasWhy, Blank
<1>2. VersionInv /\ StampInv /\ DeviceInv /\ AnswerInv
  BY DEF EasInit, VersionInv, StampInv, DeviceInv, AnswerInv, Told
<1>3. QED
  BY <1>1, <1>2 DEF EasInv

LEMMA EasInvNext == EasInv /\ [EasNext]_easVars => EasInv'
<1> SUFFICES ASSUME EasInv, [EasNext]_easVars PROVE EasInv'
  OBVIOUS
<1>1. CASE UNCHANGED easVars
  BY <1>1 DEF EasInv, EasTypeOK, VersionInv, StampInv, DeviceInv, AnswerInv, Told,
              WillHave, easVars
<1>2. CASE EasNext
  BY <1>2, TickStep, CommitStep, DeliverStep, StoreStep, StampStep, RemoveStep,
     SyncChangeStep, SyncDeleteStep, SyncPlainStep, DrawKeyStep, QueryStep,
     ReceiveStep, LoseStep, PingStep DEF EasNext
<1>3. QED
  BY <1>1, <1>2

(* The invariant in its parts. *)
THEOREM EasSyncInvariant == EasSpec => []EasInv
BY EasInvInit, EasInvNext, PTL DEF EasSpec

(* Every step keeps the types, and no key is drawn from the future.        *)
THEOREM EasTypes == EasSpec => []EasTypeOK
<1>1. EasInv => EasTypeOK
  BY DEF EasInv
<1>2. QED
  BY <1>1, EasSyncInvariant, PTL

(* A Sync loses no change, and a lost answer no more, but for the three    *)
(* cases of MissedIsExplained: for any folder, window and clock.           *)
THEOREM EasMissedIsExplained == EasSpec => []MissedIsExplained
<1>1. EasInv => MissedIsExplained
  BY DEF EasInv, DeviceInv, MissedIsExplained, Missed, Outdated, Told, EasHere
<1>2. QED
  BY <1>1, EasSyncInvariant, PTL

-----------------------------------------------------------------------------
(* ImapView.  A number that FETCH has shown is its message's position as   *)
(* long as no row of the folder came or went; what an EXPUNGE has in hand  *)
(* was marked, and a write to it since is in imLost.                       *)

RowsOf(rows, f) == {u \in ImUids : rows[u].folder = f /\ ~rows[u].gone}

PlaceIn(rows, u, f) == Cardinality({v \in RowsOf(rows, f) : v <= u})

WriteOK(w, rows) == w \in ImWrite /\ ("Deleted" \in w.read => rows[w.uid].marked)

ToldOK(p, f, rows) ==
  /\ p \in ImNumbers \X ImUids /\ f # NoFolder
  /\ p[2] \in RowsOf(rows, f) /\ PlaceIn(rows, p[2], f) = p[1]

TaskOK(t, rows, lost) ==
  /\ t \in ImTask /\ t.folder \in ImFolders
  /\ \A w \in t.writes : WriteOK(w, rows)
  /\ \A u \in t.todo :
       rows[u].folder = t.folder /\ rows[u].marked /\ (u \in lost \/ "Deleted" \in rows[u].meant)

RowOK(row, islost) ==
  /\ row \in ImMessage
  /\ row.gone => row.folder # NoFolder
  /\ "Deleted" \in row.flags => row.marked
  /\ ~islost => row.flags = row.meant

RowInv ==
  /\ imLost \subseteq ImUids
  /\ imRow \in [ImUids -> ImMessage]
  /\ \A u \in ImUids : RowOK(imRow[u], u \in imLost)

TaskInv ==
  /\ imTask \in [ImSessions -> SUBSET ImTask]
  /\ \A s \in ImSessions : \A t \in imTask[s] : TaskOK(t, imRow, imLost)
  /\ \A w \in imWrites : WriteOK(w, imRow)

LinesInv ==
  /\ imAnswered \in [ImSessions -> SUBSET Nat]
  /\ imLines \in [ImSessions -> Nat]
  /\ \A s \in ImSessions : \A t \in imTask[s] :
       /\ t.line <= imLines[s] /\ t.line \notin imAnswered[s]
       /\ \A o \in imTask[s] : o.line = t.line => o = t
  /\ \A s \in ImSessions : \A l \in imAnswered[s] : l <= imLines[s]

ViewInv ==
  /\ imSelected \in [ImSessions -> FolderOrNone] /\ imBelieved = imSelected
  /\ imTold \in [ImSessions -> SUBSET (ImNumbers \X ImUids)]
  /\ imShifted \subseteq ImSessions
  /\ \A s \in ImSessions \ imShifted : \A p \in imTold[s] : ToldOK(p, imSelected[s], imRow)
  /\ imStrange = FALSE

ImInv == RowInv /\ TaskInv /\ LinesInv /\ ViewInv

LEMMA ImInvParts == ImInv => ImTypeOK
  <1> SUFFICES ASSUME ImInv PROVE ImTypeOK
    OBVIOUS
  <1>1. imRow \in [ImUids -> ImMessage] /\ \A u \in ImUids : imRow[u].gone => imRow[u].folder # NoFolder
    BY DEF ImInv, RowInv, RowOK
  <1>2. imWrites \subseteq ImWrite
    BY DEF ImInv, TaskInv, WriteOK
  <1>3. imBelieved \in [ImSessions -> FolderOrNone] /\ imSelected \in [ImSessions -> FolderOrNone]
    BY DEF ImInv, ViewInv
  <1> QED BY <1>1, <1>2, <1>3 DEF ImInv, RowInv, TaskInv, LinesInv, ViewInv, ImTypeOK

LEMMA ImInitInv == ImInit => ImInv
  <1> SUFFICES ASSUME ImInit PROVE ImInv
    OBVIOUS
  <1>1. PICK there \in SUBSET ImUids, f \in ImFolders :
          imRow = [u \in ImUids |-> [folder |-> IF u \in there THEN f ELSE NoFolder, gone |-> FALSE,
                                     flags |-> {}, meant |-> {}, marked |-> FALSE]]
    BY DEF ImInit
  <1>2. RowInv
    <2>1. ASSUME NEW u \in ImUids
          PROVE  imRow[u] \in ImMessage /\ RowOK(imRow[u], u \in imLost)
      BY <1>1 DEF ImMessage, FolderOrNone, RowOK
    <2>2. imRow \in [ImUids -> ImMessage]
      BY <1>1, <2>1
    <2>3. imLost = {}
      BY DEF ImInit
    <2> QED BY <2>1, <2>2, <2>3 DEF RowInv
  <1>3. TaskInv
    BY DEF ImInit, TaskInv
  <1>4. LinesInv
    BY DEF ImInit, LinesInv
  <1>5. ViewInv
    BY DEF ImInit, ViewInv, FolderOrNone
  <1> QED BY <1>2, <1>3, <1>4, <1>5 DEF ImInv

(* What a step does to the rows, as far as handlers in work go by it.      *)
RowsGoOn ==
  /\ imLost \subseteq imLost'
  /\ \A u \in ImUids :
       /\ imRow[u].marked => imRow'[u].marked
       /\ imRow[u].folder # NoFolder => imRow'[u].folder = imRow[u].folder
       /\ u \in Expunging => u \in imLost' \/ imRow'[u].meant = imRow[u].meant

LEMMA RowsStay == ImInv /\ UNCHANGED <<imRow, imLost>> => RowsGoOn /\ RowInv'
  BY DEF RowsGoOn, ImInv, RowInv

LEMMA WriteGoesOn ==
  ASSUME ImInv, RowsGoOn, NEW w, WriteOK(w, imRow)
  PROVE  WriteOK(w, imRow')
  BY DEF WriteOK, RowsGoOn, ImWrite

LEMMA TaskGoesOn ==
  ASSUME ImInv, RowsGoOn, NEW s \in ImSessions, NEW t \in imTask[s]
  PROVE  TaskOK(t, imRow', imLost')
  <1>1. TaskOK(t, imRow, imLost)
    BY DEF ImInv, TaskInv
  <1>2. \A w \in t.writes : WriteOK(w, imRow')
    BY <1>1, WriteGoesOn DEF TaskOK
  <1>3. ASSUME NEW u \in t.todo
        PROVE  /\ imRow'[u].folder = t.folder /\ imRow'[u].marked
               /\ u \in imLost' \/ "Deleted" \in imRow'[u].meant
    <2>1. u \in ImUids /\ u \in Expunging
      BY <1>1 DEF TaskOK, ImTask, Expunging
    <2>2. imRow[u].folder = t.folder /\ t.folder # NoFolder /\ imRow[u].marked
      BY <1>1, ImAssumption DEF TaskOK
    <2>3. u \in imLost \/ "Deleted" \in imRow[u].meant
      BY <1>1 DEF TaskOK
    <2> QED BY <2>1, <2>2, <2>3 DEF RowsGoOn
  <1> QED BY <1>1, <1>2, <1>3 DEF TaskOK

LEMMA TasksGoOn ==
  ASSUME ImInv, RowsGoOn, NEW s \in ImSessions, NEW next \in SUBSET ImTask,
         imTask' = [imTask EXCEPT ![s] = next],
         \A t \in next \ imTask[s] : TaskOK(t, imRow', imLost'),
         \A w \in imWrites' \ imWrites : WriteOK(w, imRow')
  PROVE  TaskInv'
  <1>1. imTask' \in [ImSessions -> SUBSET ImTask]
    BY DEF ImInv, TaskInv
  <1>2. ASSUME NEW o \in ImSessions, NEW t \in imTask'[o] PROVE TaskOK(t, imRow', imLost')
    <2>1. imTask'[o] = IF o = s THEN next ELSE imTask[o]
      BY DEF ImInv, TaskInv
    <2> QED BY <2>1, <1>2, TaskGoesOn
  <1>3. ASSUME NEW w \in imWrites' PROVE WriteOK(w, imRow')
    <2>1. CASE w \in imWrites
      BY <2>1, WriteGoesOn DEF ImInv, TaskInv
    <2> QED BY <2>1, <1>3
  <1> QED BY <1>1, <1>2, <1>3 DEF TaskInv

LEMMA SameTasks ==
  ASSUME ImInv, RowsGoOn, imTask' = imTask, \A w \in imWrites' \ imWrites : WriteOK(w, imRow')
  PROVE  TaskInv'
  <1>1. ASSUME NEW o \in ImSessions, NEW t \in imTask'[o] PROVE TaskOK(t, imRow', imLost')
    BY <1>1, TaskGoesOn
  <1>2. ASSUME NEW w \in imWrites' PROVE WriteOK(w, imRow')
    <2>1. CASE w \in imWrites
      BY <2>1, WriteGoesOn DEF ImInv, TaskInv
    <2> QED BY <2>1, <1>2
  <1>3. imTask' \in [ImSessions -> SUBSET ImTask]
    BY DEF ImInv, TaskInv
  <1> QED BY <1>1, <1>2, <1>3 DEF TaskInv

(* Numbers, when the rows of no folder that is looked at come or go.       *)
LEMMA ToldStays ==
  ASSUME NEW rows, NEW next, NEW f, NEW p, ToldOK(p, f, rows), RowsOf(next, f) = RowsOf(rows, f)
  PROVE  ToldOK(p, f, next)
  BY DEF ToldOK, PlaceIn

LEMMA ViewStays ==
  ASSUME ImInv, UNCHANGED <<imSelected, imBelieved, imTold, imStrange>>,
         imShifted \subseteq imShifted', imShifted' \subseteq ImSessions,
         \A s \in ImSessions \ imShifted' :
           RowsOf(imRow', imSelected[s]) = RowsOf(imRow, imSelected[s])
  PROVE  ViewInv'
  <1>1. ASSUME NEW s \in ImSessions \ imShifted', NEW p \in imTold[s]
        PROVE  ToldOK(p, imSelected[s], imRow')
    <2>1. ToldOK(p, imSelected[s], imRow)
      BY <1>1 DEF ImInv, ViewInv
    <2> QED BY <1>1, <2>1, ToldStays
  <1> QED BY <1>1 DEF ImInv, ViewInv

(* Lines. *)
LEMMA LineStarted ==
  ASSUME ImInv, NEW s \in ImSessions, NEW new \in ImTask, new.line = imLines[s] + 1,
         imTask' = [imTask EXCEPT ![s] = imTask[s] \cup {new}],
         imLines' = [imLines EXCEPT ![s] = imLines[s] + 1], UNCHANGED imAnswered
  PROVE  LinesInv'
  <1>1. /\ imTask \in [ImSessions -> SUBSET ImTask] /\ imLines \in [ImSessions -> Nat]
        /\ \A o \in ImSessions : \A t \in imTask[o] : t.line \in Nat
    BY DEF ImInv, TaskInv, LinesInv, ImTask
  <1>2. \A o \in ImSessions :
          /\ imTask'[o] = IF o = s THEN imTask[s] \cup {new} ELSE imTask[o]
          /\ imLines'[o] = IF o = s THEN imLines[s] + 1 ELSE imLines[o]
    BY <1>1
  <1>3. ASSUME NEW o \in ImSessions, NEW t \in imTask'[o]
        PROVE  /\ t.line <= imLines'[o] /\ t.line \notin imAnswered[o]
               /\ \A q \in imTask'[o] : q.line = t.line => q = t
    BY <1>1, <1>2 DEF ImInv, LinesInv
  <1>4. ASSUME NEW o \in ImSessions, NEW l \in imAnswered[o] PROVE l <= imLines'[o]
    BY <1>1, <1>2 DEF ImInv, LinesInv
  <1>5. imLines' \in [ImSessions -> Nat] /\ imAnswered' \in [ImSessions -> SUBSET Nat]
    BY <1>1 DEF ImInv, LinesInv
  <1> QED BY <1>3, <1>4, <1>5 DEF LinesInv

LEMMA LineRefused ==
  ASSUME ImInv, NEW s \in ImSessions, ImAnswer(s, imLines[s] + 1),
         imLines' = [imLines EXCEPT ![s] = imLines[s] + 1], UNCHANGED imTask
  PROVE  LinesInv'
  <1>1. /\ imTask \in [ImSessions -> SUBSET ImTask] /\ imLines \in [ImSessions -> Nat]
        /\ \A o \in ImSessions : \A t \in imTask[o] : t.line \in Nat
        /\ imAnswered \in [ImSessions -> SUBSET Nat]
    BY DEF ImInv, TaskInv, LinesInv, ImTask
  <1>2. \A o \in ImSessions :
          /\ imAnswered'[o] = IF o = s THEN imAnswered[s] \cup {imLines[s] + 1} ELSE imAnswered[o]
          /\ imLines'[o] = IF o = s THEN imLines[s] + 1 ELSE imLines[o]
    BY <1>1 DEF ImAnswer
  <1>3. ASSUME NEW o \in ImSessions, NEW t \in imTask[o]
        PROVE  /\ t.line <= imLines'[o] /\ t.line \notin imAnswered'[o]
               /\ \A q \in imTask[o] : q.line = t.line => q = t
    BY <1>1, <1>2 DEF ImInv, LinesInv
  <1>4. ASSUME NEW o \in ImSessions, NEW l \in imAnswered'[o] PROVE l <= imLines'[o]
    BY <1>1, <1>2 DEF ImInv, LinesInv
  <1>5. imLines' \in [ImSessions -> Nat] /\ imAnswered' \in [ImSessions -> SUBSET Nat]
    BY <1>1 DEF ImAnswer
  <1> QED BY <1>3, <1>4, <1>5 DEF LinesInv

LEMMA LineEnded ==
  ASSUME ImInv, NEW s \in ImSessions, NEW t \in imTask[s], ImAnswer(s, t.line),
         Becomes(s, t, {}), UNCHANGED imLines
  PROVE  LinesInv'
  <1>1. /\ imTask \in [ImSessions -> SUBSET ImTask] /\ imLines \in [ImSessions -> Nat]
        /\ t.line \in Nat /\ imAnswered \in [ImSessions -> SUBSET Nat]
    BY DEF ImInv, TaskInv, LinesInv, ImTask
  <1>2. \A o \in ImSessions :
          /\ imAnswered'[o] = IF o = s THEN imAnswered[s] \cup {t.line} ELSE imAnswered[o]
          /\ imTask'[o] = IF o = s THEN imTask[s] \ {t} ELSE imTask[o]
    BY <1>1 DEF ImAnswer, Becomes
  <1>3. ASSUME NEW o \in ImSessions, NEW q \in imTask'[o]
        PROVE  /\ q.line <= imLines[o] /\ q.line \notin imAnswered'[o]
               /\ \A z \in imTask'[o] : z.line = q.line => z = q
    BY <1>2 DEF ImInv, LinesInv
  <1>4. ASSUME NEW o \in ImSessions, NEW l \in imAnswered'[o] PROVE l <= imLines[o]
    BY <1>2 DEF ImInv, LinesInv
  <1>5. imLines' \in [ImSessions -> Nat] /\ imAnswered' \in [ImSessions -> SUBSET Nat]
    BY <1>1 DEF ImAnswer
  <1> QED BY <1>3, <1>4, <1>5 DEF LinesInv

LEMMA LineGoes ==
  ASSUME ImInv, NEW s \in ImSessions, NEW t \in imTask[s], NEW new, new.line = t.line,
         Becomes(s, t, {new}), UNCHANGED <<imLines, imAnswered>>
  PROVE  LinesInv'
  <1>1. imTask \in [ImSessions -> SUBSET ImTask]
    BY DEF ImInv, TaskInv
  <1>2. \A o \in ImSessions :
          imTask'[o] = IF o = s THEN (imTask[s] \ {t}) \cup {new} ELSE imTask[o]
    BY <1>1 DEF Becomes
  <1>3. ASSUME NEW o \in ImSessions, NEW q \in imTask'[o]
        PROVE  /\ q.line <= imLines[o] /\ q.line \notin imAnswered[o]
               /\ \A z \in imTask'[o] : z.line = q.line => z = q
    BY <1>2 DEF ImInv, LinesInv
  <1> QED BY <1>3 DEF ImInv, LinesInv

(* A write of flags.                                                       *)
LEMMA ChangedTyped ==
  ASSUME NEW c \in ImChange, NEW a \in SUBSET ImFlags
  PROVE  /\ Changed(a, c) \in SUBSET ImFlags
         /\ "Deleted" \in Changed(a, c) => "Deleted" \in a \/ "Deleted" \in Changed({}, c)
  BY DEF Changed, ImChange

LEMMA WriteFlagsInv ==
  ASSUME ImInv, NEW w, WriteOK(w, imRow), WriteFlags(w)
  PROVE  /\ RowInv' /\ RowsGoOn
         /\ \A f : RowsOf(imRow', f) = RowsOf(imRow, f)
  <1> DEFINE row == imRow[w.uid]
             new == [row EXCEPT !.flags = Changed(w.read, w.change),
                                !.meant = Changed(row.meant, w.change),
                                !.marked = row.marked \/ "Deleted" \in Changed({}, w.change)]
  <1>1. /\ w.uid \in ImUids /\ w.change \in ImChange /\ w.read \in SUBSET ImFlags
        /\ "Deleted" \in w.read => row.marked
    BY DEF WriteOK, ImWrite
  <1>2. /\ row \in ImMessage /\ RowOK(row, w.uid \in imLost)
        /\ imRow \in [ImUids -> ImMessage] /\ imLost \subseteq ImUids
    BY <1>1 DEF ImInv, RowInv
  <1>3. /\ Changed(w.read, w.change) \in SUBSET ImFlags
        /\ Changed(row.meant, w.change) \in SUBSET ImFlags
        /\ "Deleted" \in Changed(w.read, w.change) =>
             row.marked \/ "Deleted" \in Changed({}, w.change)
    <2>1. row.meant \in SUBSET ImFlags
      BY <1>2 DEF ImMessage
    <2> QED BY <1>1, <2>1, ChangedTyped
  <1>4. imRow' = [imRow EXCEPT ![w.uid] = new]
    BY DEF WriteFlags, Written
  <1>5. imLost' = IF w.read = row.flags /\ w.uid \notin Expunging THEN imLost
                  ELSE imLost \cup {w.uid}
    BY DEF WriteFlags
  <1>6. /\ new \in ImMessage /\ new.folder = row.folder /\ new.gone = row.gone
        /\ new.flags = Changed(w.read, w.change) /\ new.meant = Changed(row.meant, w.change)
        /\ new.marked = (row.marked \/ "Deleted" \in Changed({}, w.change))
    BY <1>2, <1>3 DEF ImMessage
  <1> HIDE DEF new
  <1>7. \A u \in ImUids : imRow'[u] = IF u = w.uid THEN new ELSE imRow[u]
    BY <1>2, <1>4
  <1>8. RowOK(new, w.uid \in imLost')
    <2>1. w.uid \notin imLost' => w.read = row.flags /\ w.uid \notin imLost
      BY <1>5
    <2>2. w.uid \notin imLost' => new.flags = new.meant
      BY <1>2, <1>6, <2>1 DEF RowOK
    <2> QED BY <1>2, <1>3, <1>6, <2>2 DEF RowOK
  <1>9. RowInv'
    <2>1. ASSUME NEW u \in ImUids PROVE RowOK(imRow'[u], u \in imLost')
      <3>1. CASE u = w.uid
        BY <1>7, <1>8, <3>1
      <3>2. CASE u # w.uid
        <4>1. imRow'[u] = imRow[u] /\ (u \in imLost') = (u \in imLost)
          BY <1>5, <1>7, <3>2
        <4>2. RowOK(imRow[u], u \in imLost)
          BY DEF ImInv, RowInv
        <4> QED BY <4>1, <4>2
      <3> QED BY <3>1, <3>2
    <2>2. imRow' \in [ImUids -> ImMessage]
      BY <1>2, <1>4, <1>6
    <2>3. imLost' \subseteq ImUids
      BY <1>1, <1>2, <1>5
    <2> QED BY <2>1, <2>2, <2>3 DEF RowInv
  <1>10. RowsGoOn
    <2>1. ASSUME NEW u \in ImUids
          PROVE  /\ imRow[u].marked => imRow'[u].marked
                 /\ imRow[u].folder # NoFolder => imRow'[u].folder = imRow[u].folder
      BY <1>6, <1>7
    <2>2. ASSUME NEW u \in ImUids, u \in Expunging
          PROVE  u \in imLost' \/ imRow'[u].meant = imRow[u].meant
      BY <1>5, <1>7, <2>2
    <2>3. imLost \subseteq imLost'
      BY <1>5
    <2> QED BY <2>1, <2>2, <2>3 DEF RowsGoOn
  <1>11. ASSUME NEW f PROVE RowsOf(imRow', f) = RowsOf(imRow, f)
    <2>1. \A u \in ImUids : imRow'[u].folder = imRow[u].folder /\ imRow'[u].gone = imRow[u].gone
      BY <1>6, <1>7
    <2> QED BY <2>1 DEF RowsOf
  <1> QED BY <1>9, <1>10, <1>11

(* Rows are removed.                                                       *)
LEMMA RemovedInv ==
  ASSUME ImInv, NEW uids, imRow' = Removed(uids), UNCHANGED imLost,
         \A u \in uids : u \in ImUids /\ imRow[u].folder # NoFolder
  PROVE  /\ RowInv' /\ RowsGoOn
         /\ \A f : (\A u \in uids : imRow[u].folder # f) => RowsOf(imRow', f) = RowsOf(imRow, f)
  <1>1. imRow \in [ImUids -> ImMessage]
    BY DEF ImInv, RowInv
  <1>2. ASSUME NEW u \in ImUids
        PROVE  /\ imRow'[u] \in ImMessage /\ imRow'[u].folder = imRow[u].folder
               /\ imRow'[u].flags = imRow[u].flags /\ imRow'[u].meant = imRow[u].meant
               /\ imRow'[u].marked = imRow[u].marked
               /\ imRow'[u].gone = (u \in uids \/ imRow[u].gone)
    <2>1. imRow[u] \in ImMessage
      BY <1>1
    <2>2. imRow'[u] = IF u \in uids THEN [imRow[u] EXCEPT !.gone = TRUE] ELSE imRow[u]
      BY DEF Removed
    <2>3. CASE u \in uids
      BY <2>1, <2>2, <2>3 DEF ImMessage
    <2>4. CASE u \notin uids
      BY <2>1, <2>2, <2>4 DEF ImMessage
    <2> QED BY <2>3, <2>4
  <1>3. RowInv'
    <2>1. ASSUME NEW u \in ImUids PROVE RowOK(imRow'[u], u \in imLost)
      BY <1>2 DEF ImInv, RowInv, RowOK
    <2>2. imRow' \in [ImUids -> ImMessage]
      BY <1>2 DEF Removed
    <2> QED BY <2>1, <2>2 DEF ImInv, RowInv
  <1>4. RowsGoOn
    BY <1>2 DEF RowsGoOn
  <1>5. ASSUME NEW f, \A u \in uids : imRow[u].folder # f
        PROVE  RowsOf(imRow', f) = RowsOf(imRow, f)
    <2>1. ASSUME NEW u \in ImUids
          PROVE  (imRow'[u].folder = f /\ ~imRow'[u].gone) <=> (imRow[u].folder = f /\ ~imRow[u].gone)
      BY <1>2, <1>5
    <2> QED BY <2>1 DEF RowsOf
  <1> QED BY <1>3, <1>4, <1>5

(* Another folder, or none.                                                *)
LEMMA SelectedAnew ==
  ASSUME ImInv, NEW s \in ImSessions, NEW f \in FolderOrNone,
         imSelected' = [imSelected EXCEPT ![s] = f], imBelieved' = [imBelieved EXCEPT ![s] = f],
         imTold' = [imTold EXCEPT ![s] = {}], imShifted' = imShifted \ {s},
         UNCHANGED <<imRow, imStrange>>
  PROVE  ViewInv'
  <1>1. /\ imSelected \in [ImSessions -> FolderOrNone] /\ imBelieved = imSelected
        /\ imTold \in [ImSessions -> SUBSET (ImNumbers \X ImUids)]
        /\ imShifted \subseteq ImSessions /\ imStrange = FALSE
    BY DEF ImInv, ViewInv
  <1>2. \A o \in ImSessions : /\ imSelected'[o] = IF o = s THEN f ELSE imSelected[o]
                              /\ imTold'[o] = IF o = s THEN {} ELSE imTold[o]
    BY <1>1
  <1>3. ASSUME NEW o \in ImSessions \ imShifted', NEW p \in imTold'[o]
        PROVE  ToldOK(p, imSelected'[o], imRow)
    <2>1. o # s /\ o \in ImSessions \ imShifted /\ p \in imTold[o] /\ imSelected'[o] = imSelected[o]
      BY <1>1, <1>2, <1>3
    <2> QED BY <2>1 DEF ImInv, ViewInv
  <1>4. /\ imSelected' \in [ImSessions -> FolderOrNone] /\ imBelieved' = imSelected'
        /\ imTold' \in [ImSessions -> SUBSET (ImNumbers \X ImUids)]
    BY <1>1
  <1> QED BY <1>1, <1>3, <1>4 DEF ViewInv

LEMMA ViewSame ==
  ASSUME ImInv, UNCHANGED <<imRow, imSelected, imBelieved, imTold, imShifted, imStrange>>
  PROVE  ViewInv'
  BY DEF ImInv, ViewInv

LEMMA AnyChangeTyped == AnyChange \in ImChange
  BY DEF AnyChange, ImChange, ImFlags

LEMMA StartedTyped ==
  ASSUME ImInv, NEW s \in ImSessions, NEW cmd \in {"SELECT", "FETCH", "STORE", "EXPUNGE", "CLOSE"},
         NEW n \in Nat, NEW c \in ImChange
  PROVE  /\ StartedTask(cmd, s, n, c) \in ImTask
         /\ StartedTask(cmd, s, n, c).line = imLines[s] + 1
         /\ StartedTask(cmd, s, n, c).folder = imSelected[s]
         /\ StartedTask(cmd, s, n, c).writes = {} /\ StartedTask(cmd, s, n, c).todo = {}
  BY DEF ImInv, ViewInv, LinesInv, StartedTask, ImTask

LEMMA SendCommandInv ==
  ASSUME ImInv, NEW s \in ImSessions, NEW cmd \in {"FETCH", "STORE", "EXPUNGE", "CLOSE"},
         NEW n \in Nat, NEW c \in ImChange, SendCommand(s, cmd, n, c)
  PROVE  ImInv'
  <1> DEFINE new == StartedTask(cmd, s, n, c)
  <1>1. RowsGoOn /\ RowInv'
    BY RowsStay DEF SendCommand
  <1>2. ViewInv'
    <2>1. imStrange' = FALSE
      BY DEF SendCommand, ImInv, ViewInv
    <2> QED BY <2>1, ViewSame DEF SendCommand, ImInv, ViewInv
  <1>3. CASE imSelected[s] = NoFolder
    <2>1. LinesInv'
      BY <1>3, LineRefused DEF SendCommand
    <2>2. TaskInv'
      BY <1>1, <1>3, SameTasks DEF SendCommand
    <2> QED BY <1>1, <1>2, <2>1, <2>2 DEF ImInv
  <1>4. CASE imSelected[s] # NoFolder
    <2>1. /\ new \in ImTask /\ new.line = imLines[s] + 1 /\ new.folder = imSelected[s]
          /\ new.writes = {} /\ new.todo = {}
      BY StartedTyped
    <2>2. /\ imTask' = [imTask EXCEPT ![s] = imTask[s] \cup {new}]
          /\ imLines' = [imLines EXCEPT ![s] = imLines[s] + 1] /\ UNCHANGED <<imAnswered, imWrites>>
      BY <1>4 DEF SendCommand
    <2> HIDE DEF new
    <2>3. LinesInv'
      BY <2>1, <2>2, LineStarted
    <2>4. TaskOK(new, imRow', imLost')
      <3>1. imSelected[s] \in ImFolders
        BY <1>4 DEF ImInv, ViewInv, FolderOrNone
      <3> QED BY <2>1, <3>1 DEF TaskOK
    <2>5. TaskInv'
      <3>1. imTask[s] \cup {new} \in SUBSET ImTask
        BY <2>1 DEF ImInv, TaskInv
      <3>2. \A t \in (imTask[s] \cup {new}) \ imTask[s] : TaskOK(t, imRow', imLost')
        BY <2>4
      <3> QED BY <1>1, <2>2, <3>1, <3>2, TasksGoOn
    <2> QED BY <1>1, <1>2, <2>3, <2>5 DEF ImInv
  <1> QED BY <1>3, <1>4

LEMMA SendSelectInv ==
  ASSUME ImInv, NEW s \in ImSessions, NEW f \in ImFolders, SendSelect(s, f)
  PROVE  ImInv'
  <1> DEFINE new == [StartedTask("SELECT", s, 0, AnyChange) EXCEPT !.folder = f]
  <1>1. RowsGoOn /\ RowInv'
    BY RowsStay DEF SendSelect
  <1>2. ViewInv'
    BY ViewSame DEF SendSelect
  <1>3. /\ new \in ImTask /\ new.line = imLines[s] + 1 /\ new.folder = f
        /\ new.writes = {} /\ new.todo = {}
    BY StartedTyped, AnyChangeTyped DEF ImTask, FolderOrNone
  <1>4. /\ imTask' = [imTask EXCEPT ![s] = imTask[s] \cup {new}]
        /\ imLines' = [imLines EXCEPT ![s] = imLines[s] + 1] /\ UNCHANGED <<imAnswered, imWrites>>
    BY DEF SendSelect
  <1> HIDE DEF new
  <1>5. LinesInv'
    BY <1>3, <1>4, LineStarted
  <1>6. TaskOK(new, imRow', imLost')
    BY <1>3 DEF TaskOK
  <1>7. TaskInv'
    <2>1. imTask[s] \cup {new} \in SUBSET ImTask
      BY <1>3 DEF ImInv, TaskInv
    <2>2. \A t \in (imTask[s] \cup {new}) \ imTask[s] : TaskOK(t, imRow', imLost')
      BY <1>6
    <2> QED BY <1>1, <1>4, <2>1, <2>2, TasksGoOn
  <1> QED BY <1>1, <1>2, <1>5, <1>7 DEF ImInv

LEMMA UnselectInv ==
  ASSUME ImInv, NEW s \in ImSessions, Unselect(s)
  PROVE  ImInv'
  <1>1. RowsGoOn /\ RowInv'
    BY RowsStay DEF Unselect
  <1>2. LinesInv'
    BY LineRefused DEF Unselect
  <1>3. TaskInv'
    BY <1>1, SameTasks DEF Unselect
  <1>4. ViewInv'
    <2>1. NoFolder \in FolderOrNone
      BY DEF FolderOrNone
    <2> QED BY <2>1, SelectedAnew DEF Unselect, Deselect
  <1> QED BY <1>1, <1>2, <1>3, <1>4 DEF ImInv

(* A task is over, and another one comes in its place.                     *)
LEMMA TaskEnds ==
  ASSUME ImInv, RowsGoOn, NEW s \in ImSessions, NEW t \in imTask[s], Becomes(s, t, {}),
         \A w \in imWrites' \ imWrites : WriteOK(w, imRow')
  PROVE  TaskInv'
  <1>1. (imTask[s] \ {t}) \cup {} \in SUBSET ImTask
    BY DEF ImInv, TaskInv
  <1>2. \A q \in ((imTask[s] \ {t}) \cup {}) \ imTask[s] : TaskOK(q, imRow', imLost')
    OBVIOUS
  <1> QED BY <1>1, <1>2, TasksGoOn DEF Becomes

LEMMA TaskGoes ==
  ASSUME ImInv, RowsGoOn, NEW s \in ImSessions, NEW t \in imTask[s], NEW new,
         TaskOK(new, imRow', imLost'), Becomes(s, t, {new}), UNCHANGED imWrites
  PROVE  TaskInv'
  <1>1. (imTask[s] \ {t}) \cup {new} \in SUBSET ImTask
    BY DEF ImInv, TaskInv, TaskOK
  <1>2. \A q \in ((imTask[s] \ {t}) \cup {new}) \ imTask[s] : TaskOK(q, imRow', imLost')
    OBVIOUS
  <1> QED BY <1>1, <1>2, TasksGoOn DEF Becomes

LEMMA EndSelectInv ==
  ASSUME ImInv, NEW s \in ImSessions, NEW t \in imTask[s], EndSelect(s, t)
  PROVE  ImInv'
  <1>1. RowsGoOn /\ RowInv'
    BY RowsStay DEF EndSelect
  <1>2. LinesInv'
    BY LineEnded DEF EndSelect
  <1>3. TaskInv'
    BY <1>1, TaskEnds DEF EndSelect
  <1>4. ViewInv'
    <2>1. t.folder \in FolderOrNone
      BY DEF ImInv, TaskInv, ImTask
    <2> QED BY <2>1, SelectedAnew DEF EndSelect
  <1> QED BY <1>1, <1>2, <1>3, <1>4 DEF ImInv

LEMMA EndCloseInv ==
  ASSUME ImInv, NEW s \in ImSessions, NEW t \in imTask[s], EndClose(s, t)
  PROVE  ImInv'
  <1>1. RowsGoOn /\ RowInv'
    BY RowsStay DEF EndClose
  <1>2. LinesInv'
    BY LineEnded DEF EndClose
  <1>3. TaskInv'
    BY <1>1, TaskEnds DEF EndClose
  <1>4. ViewInv'
    <2>1. NoFolder \in FolderOrNone
      BY DEF FolderOrNone
    <2> QED BY <2>1, SelectedAnew DEF EndClose, CloseDeselects, Deselect
  <1> QED BY <1>1, <1>2, <1>3, <1>4 DEF ImInv

LEMMA LastExpungeInv ==
  ASSUME ImInv, NEW s \in ImSessions, NEW t \in imTask[s], LastExpunge(s, t)
  PROVE  ImInv'
  <1>1. RowsGoOn /\ RowInv'
    BY RowsStay DEF LastExpunge
  <1>2. LinesInv'
    BY LineEnded DEF LastExpunge, EndExpunge
  <1>3. TaskInv'
    BY <1>1, TaskEnds DEF LastExpunge
  <1>4. ViewInv'
    BY ViewSame DEF LastExpunge
  <1> QED BY <1>1, <1>2, <1>3, <1>4 DEF ImInv

LEMMA WriteSeenInv ==
  ASSUME ImInv, NEW w \in imWrites, WriteSeen(w)
  PROVE  ImInv'
  <1>1. WriteOK(w, imRow)
    BY DEF ImInv, TaskInv
  <1>2. RowInv' /\ RowsGoOn /\ \A f : RowsOf(imRow', f) = RowsOf(imRow, f)
    BY <1>1, WriteFlagsInv DEF WriteSeen
  <1>3. LinesInv'
    BY DEF ImInv, LinesInv, WriteSeen
  <1>4. TaskInv'
    BY <1>2, SameTasks DEF WriteSeen
  <1>5. ViewInv'
    <2>1. imShifted' = imShifted /\ imShifted \subseteq ImSessions
      BY DEF WriteSeen, ImInv, ViewInv
    <2> QED BY <1>2, <2>1, ViewStays DEF WriteSeen
  <1> QED BY <1>2, <1>3, <1>4, <1>5 DEF ImInv

LEMMA WriteStoreInv ==
  ASSUME ImInv, NEW s \in ImSessions, NEW t \in imTask[s], WriteStore(s, t)
  PROVE  ImInv'
  <1>1. RowInv' /\ RowsGoOn /\ \A f : RowsOf(imRow', f) = RowsOf(imRow, f)
    <2>1. CASE UNCHANGED <<imRow, imLost>>
      BY <2>1, RowsStay
    <2>2. ASSUME NEW w \in t.writes, WriteFlags(w)
          PROVE  RowInv' /\ RowsGoOn /\ \A f : RowsOf(imRow', f) = RowsOf(imRow, f)
      <3>1. WriteOK(w, imRow)
        BY DEF ImInv, TaskInv, TaskOK
      <3> QED BY <2>2, <3>1, WriteFlagsInv
    <2> QED BY <2>1, <2>2 DEF WriteStore
  <1>2. LinesInv'
    BY LineEnded DEF WriteStore
  <1>3. TaskInv'
    BY <1>1, TaskEnds DEF WriteStore
  <1>4. ViewInv'
    <2>1. imShifted' = imShifted /\ imShifted \subseteq ImSessions
      BY DEF WriteStore, ImInv, ViewInv
    <2> QED BY <1>1, <2>1, ViewStays DEF WriteStore
  <1> QED BY <1>1, <1>2, <1>3, <1>4 DEF ImInv

LEMMA ReadStoreInv ==
  ASSUME ImInv, NEW s \in ImSessions, NEW t \in imTask[s], ReadStore(s, t)
  PROVE  ImInv'
  <1> DEFINE writes == {[uid |-> u, read |-> imRow[u].flags, change |-> t.change] : u \in StoredUids(t)}
             new == [t EXCEPT !.at = "write", !.writes = writes]
  <1>1. RowsGoOn /\ RowInv' /\ UNCHANGED <<imRow, imLost, imWrites>>
    BY RowsStay DEF ReadStore
  <1>2. Becomes(s, t, {new}) /\ UNCHANGED <<imLines, imAnswered>>
    BY DEF ReadStore
  <1>3. TaskOK(t, imRow, imLost) /\ t \in ImTask
    BY DEF ImInv, TaskInv, TaskOK
  <1>4. ASSUME NEW w \in writes PROVE WriteOK(w, imRow)
    <2>1. PICK u \in StoredUids(t) : w = [uid |-> u, read |-> imRow[u].flags, change |-> t.change]
      OBVIOUS
    <2>2. u \in ImUids /\ RowOK(imRow[u], u \in imLost)
      BY DEF StoredUids, Rows, ImInv, RowInv
    <2> QED BY <1>3, <2>1, <2>2 DEF WriteOK, ImWrite, ImTask, RowOK, ImMessage
  <1>5. writes \subseteq ImWrite
    BY <1>4 DEF WriteOK
  <1> HIDE DEF writes
  <1>6. /\ new \in ImTask /\ new.line = t.line /\ new.folder = t.folder /\ new.writes = writes
        /\ new.todo = t.todo
    BY <1>3, <1>5 DEF ImTask
  <1> HIDE DEF new
  <1>7. TaskOK(new, imRow', imLost')
    BY <1>1, <1>3, <1>4, <1>6 DEF TaskOK
  <1>8. LinesInv'
    BY <1>2, <1>6, LineGoes
  <1>9. TaskInv'
    BY <1>1, <1>2, <1>7, TaskGoes
  <1>10. ViewInv'
    BY ViewSame DEF ReadStore
  <1> QED BY <1>1, <1>8, <1>9, <1>10 DEF ImInv

LEMMA MarkedRows ==
  ASSUME ImInv, NEW f \in ImFolders, NEW u \in ImMarked(f)
  PROVE  /\ u \in ImUids /\ imRow[u].folder = f /\ imRow[u].folder # NoFolder
         /\ imRow[u].marked /\ (u \in imLost \/ "Deleted" \in imRow[u].meant)
  <1>1. /\ u \in ImUids /\ imRow[u].folder = f /\ "Deleted" \in imRow[u].flags
        /\ RowOK(imRow[u], u \in imLost)
    BY DEF ImMarked, Rows, ImInv, RowInv
  <1>2. f # NoFolder
    BY ImAssumption
  <1> QED BY <1>1, <1>2 DEF RowOK

LEMMA ReadExpungeInv ==
  ASSUME ImInv, NEW s \in ImSessions, NEW t \in imTask[s], ReadExpunge(s, t)
  PROVE  ImInv'
  <1> DEFINE todo == ImMarked(t.folder)
             new == [t EXCEPT !.at = "write", !.todo = todo]
  <1>1. RowsGoOn /\ RowInv' /\ UNCHANGED <<imRow, imLost, imWrites>>
    BY RowsStay DEF ReadExpunge
  <1>2. Becomes(s, t, {new}) /\ UNCHANGED <<imLines, imAnswered>>
    BY DEF ReadExpunge
  <1>3. TaskOK(t, imRow, imLost) /\ t \in ImTask /\ t.folder \in ImFolders
    BY DEF ImInv, TaskInv, TaskOK
  <1>4. \A u \in todo : /\ u \in ImUids /\ imRow[u].folder = t.folder /\ imRow[u].marked
                        /\ u \in imLost \/ "Deleted" \in imRow[u].meant
    BY <1>3, MarkedRows
  <1> HIDE DEF todo
  <1>5. /\ new \in ImTask /\ new.line = t.line /\ new.folder = t.folder /\ new.writes = t.writes
        /\ new.todo = todo
    BY <1>3, <1>4 DEF ImTask
  <1> HIDE DEF new
  <1>6. TaskOK(new, imRow', imLost')
    BY <1>1, <1>3, <1>4, <1>5 DEF TaskOK
  <1>7. LinesInv'
    BY <1>2, <1>5, LineGoes
  <1>8. TaskInv'
    BY <1>1, <1>2, <1>6, TaskGoes
  <1>9. ViewInv'
    BY ViewSame DEF ReadExpunge
  <1> QED BY <1>1, <1>7, <1>8, <1>9 DEF ImInv

LEMMA RemovalViewed ==
  ASSUME ImInv, NEW f, NEW uids,
         \A u \in uids : imRow[u].folder = f,
         \A g : (\A u \in uids : imRow[u].folder # g) => RowsOf(imRow', g) = RowsOf(imRow, g),
         imShifted' = imShifted \cup (IF uids = {} THEN {} ELSE Looking(f)),
         UNCHANGED <<imSelected, imBelieved, imTold, imStrange>>
  PROVE  ViewInv'
  <1>1. imShifted \subseteq imShifted' /\ imShifted' \subseteq ImSessions
    BY DEF ImInv, ViewInv, Looking
  <1>2. ASSUME NEW s \in ImSessions \ imShifted'
        PROVE  RowsOf(imRow', imSelected[s]) = RowsOf(imRow, imSelected[s])
    <2>1. uids = {} \/ imSelected[s] # f
      BY <1>2 DEF Looking
    <2> QED BY <2>1
  <1> QED BY <1>1, <1>2, ViewStays

LEMMA WriteExpungeInv ==
  ASSUME ImInv, NEW s \in ImSessions, NEW t \in imTask[s], WriteExpunge(s, t)
  PROVE  ImInv'
  <1>1. TaskOK(t, imRow, imLost) /\ t \in ImTask /\ t.folder \in ImFolders
    BY DEF ImInv, TaskInv, TaskOK
  <1>2. CASE t.todo = {} /\ Becomes(s, t, {[t EXCEPT !.at = "last"]}) /\ UNCHANGED <<imRow, imShifted>>
    <2> DEFINE new == [t EXCEPT !.at = "last"]
    <2>1. RowsGoOn /\ RowInv' /\ UNCHANGED <<imRow, imLost, imWrites, imLines, imAnswered>>
      BY <1>2, RowsStay DEF WriteExpunge
    <2>2. /\ new \in ImTask /\ new.line = t.line /\ new.folder = t.folder /\ new.writes = t.writes
          /\ new.todo = t.todo
      BY <1>1 DEF ImTask
    <2>3. Becomes(s, t, {new})
      BY <1>2
    <2> HIDE DEF new
    <2>4. TaskOK(new, imRow', imLost')
      BY <1>1, <2>1, <2>2 DEF TaskOK
    <2>5. LinesInv'
      BY <2>1, <2>2, <2>3, LineGoes
    <2>6. TaskInv'
      BY <2>1, <2>3, <2>4, TaskGoes
    <2>7. ViewInv'
      BY <1>2, ViewSame DEF WriteExpunge
    <2> QED BY <2>1, <2>5, <2>6, <2>7 DEF ImInv
  <1>3. ASSUME NEW u \in t.todo, Becomes(s, t, {[t EXCEPT !.todo = t.todo \ {u}]}),
               imRow' = Removed({u}), imShifted' = imShifted \cup Looking(t.folder)
        PROVE  ImInv'
    <2> DEFINE new == [t EXCEPT !.todo = t.todo \ {u}]
    <2>1. UNCHANGED <<imLost, imWrites, imLines, imAnswered, imSelected, imBelieved, imTold, imStrange>>
      BY DEF WriteExpunge
    <2>2. u \in ImUids /\ imRow[u].folder = t.folder /\ imRow[u].folder # NoFolder
      BY <1>1, ImAssumption DEF TaskOK, ImTask
    <2>3. /\ RowInv' /\ RowsGoOn
          /\ \A f : (\A v \in {u} : imRow[v].folder # f) => RowsOf(imRow', f) = RowsOf(imRow, f)
      BY <1>3, <2>1, <2>2, RemovedInv
    <2>4. /\ new \in ImTask /\ new.line = t.line /\ new.folder = t.folder /\ new.writes = t.writes
          /\ new.todo = t.todo \ {u}
      BY <1>1 DEF ImTask
    <2>5. Becomes(s, t, {new})
      BY <1>3
    <2> HIDE DEF new
    <2>6. TaskOK(new, imRow', imLost')
      <3>1. TaskOK(t, imRow', imLost')
        BY <2>3, TaskGoesOn
      <3> QED BY <2>4, <3>1 DEF TaskOK
    <2>7. LinesInv'
      BY <2>1, <2>4, <2>5, LineGoes
    <2>8. TaskInv'
      BY <2>1, <2>3, <2>5, <2>6, TaskGoes
    <2>9. ViewInv'
      <3>1. imShifted' = imShifted \cup (IF {u} = {} THEN {} ELSE Looking(t.folder))
        BY <1>3
      <3> QED BY <2>1, <2>2, <2>3, <3>1, RemovalViewed, ZenonT(30)
    <2> QED BY <2>3, <2>7, <2>8, <2>9 DEF ImInv
  <1> QED BY <1>2, <1>3 DEF WriteExpunge

LEMMA WriteCloseInv ==
  ASSUME ImInv, NEW s \in ImSessions, NEW t \in imTask[s], WriteClose(s, t)
  PROVE  ImInv'
  <1> DEFINE new == [t EXCEPT !.at = "last"]
             uids == ImMarked(t.folder)
  <1>1. TaskOK(t, imRow, imLost) /\ t \in ImTask /\ t.folder \in ImFolders
    BY DEF ImInv, TaskInv, TaskOK
  <1>2. /\ UNCHANGED <<imLost, imWrites, imLines, imAnswered, imSelected, imBelieved, imTold, imStrange>>
        /\ imRow' = Removed(uids)
        /\ imShifted' = imShifted \cup (IF uids = {} THEN {} ELSE Looking(t.folder))
        /\ Becomes(s, t, {new})
    BY DEF WriteClose
  <1>3. \A u \in uids : u \in ImUids /\ imRow[u].folder = t.folder /\ imRow[u].folder # NoFolder
    BY <1>1, MarkedRows
  <1>4. /\ new \in ImTask /\ new.line = t.line /\ new.folder = t.folder /\ new.writes = t.writes
        /\ new.todo = t.todo
    BY <1>1 DEF ImTask
  <1> HIDE DEF new, uids
  <1>5. /\ RowInv' /\ RowsGoOn
        /\ \A f : (\A v \in uids : imRow[v].folder # f) => RowsOf(imRow', f) = RowsOf(imRow, f)
    BY <1>2, <1>3, RemovedInv
  <1>6. TaskOK(new, imRow', imLost')
    <2>1. TaskOK(t, imRow', imLost')
      BY <1>5, TaskGoesOn
    <2> QED BY <1>4, <2>1 DEF TaskOK
  <1>7. LinesInv'
    BY <1>2, <1>4, LineGoes
  <1>8. TaskInv'
    BY <1>2, <1>5, <1>6, TaskGoes
  <1>9. ViewInv'
    BY <1>2, <1>3, <1>5, RemovalViewed
  <1> QED BY <1>5, <1>7, <1>8, <1>9 DEF ImInv

LEMMA ImArriveInv ==
  ASSUME ImInv, NEW u \in ImUids, NEW f \in ImFolders, ImArrive(u, f)
  PROVE  ImInv'
  <1>1. /\ imRow[u].folder = NoFolder /\ imRow' = [imRow EXCEPT ![u].folder = f]
        /\ imShifted' = imShifted \cup Looking(f)
        /\ UNCHANGED <<imSelected, imTask, imWrites, imAnswered, imLines, imBelieved, imTold, imLost,
                       imStrange>>
    BY DEF ImArrive
  <1>2. imRow \in [ImUids -> ImMessage] /\ f # NoFolder /\ f \in FolderOrNone
    BY ImAssumption DEF ImInv, RowInv, FolderOrNone
  <1>3. ASSUME NEW v \in ImUids
        PROVE  /\ imRow'[v] \in ImMessage
               /\ imRow'[v].folder = (IF v = u THEN f ELSE imRow[v].folder)
               /\ imRow'[v].flags = imRow[v].flags /\ imRow'[v].meant = imRow[v].meant
               /\ imRow'[v].marked = imRow[v].marked /\ imRow'[v].gone = imRow[v].gone
    <2>1. imRow'[v] = IF v = u THEN [imRow[u] EXCEPT !.folder = f] ELSE imRow[v]
      BY <1>1, <1>2
    <2>2. imRow[v] \in ImMessage /\ imRow[u] \in ImMessage
      BY <1>2
    <2> QED BY <1>2, <2>1, <2>2 DEF ImMessage
  <1>4. RowInv'
    <2>1. ASSUME NEW v \in ImUids PROVE RowOK(imRow'[v], v \in imLost)
      <3>1. RowOK(imRow[v], v \in imLost)
        BY DEF ImInv, RowInv
      <3> QED BY <1>2, <1>3, <3>1 DEF RowOK
    <2>2. imRow' \in [ImUids -> ImMessage]
      BY <1>1, <1>2, <1>3
    <2> QED BY <1>1, <2>1, <2>2 DEF ImInv, RowInv
  <1>5. RowsGoOn
    BY <1>1, <1>3 DEF RowsGoOn
  <1>6. LinesInv'
    BY <1>1 DEF ImInv, LinesInv
  <1>7. TaskInv'
    BY <1>1, <1>5, SameTasks
  <1>8. ViewInv'
    <2>1. imShifted \subseteq imShifted' /\ imShifted' \subseteq ImSessions
      BY <1>1 DEF ImInv, ViewInv, Looking
    <2>2. ASSUME NEW s \in ImSessions \ imShifted'
          PROVE  RowsOf(imRow', imSelected[s]) = RowsOf(imRow, imSelected[s])
            \/ imSelected[s] = NoFolder
      <3>1. imSelected[s] # f
        BY <1>1, <2>2 DEF Looking
      <3>2. CASE imSelected[s] # NoFolder
        <4>1. \A v \in ImUids : (imRow'[v].folder = imSelected[s]) <=> (imRow[v].folder = imSelected[s])
          BY <1>1, <1>3, <3>1, <3>2
        <4> QED BY <1>3, <4>1 DEF RowsOf
      <3> QED BY <3>2
    <2>3. ASSUME NEW s \in ImSessions \ imShifted', NEW p \in imTold[s]
          PROVE  ToldOK(p, imSelected[s], imRow')
      <3>1. ToldOK(p, imSelected[s], imRow)
        BY <2>1, <2>3 DEF ImInv, ViewInv
      <3>2. RowsOf(imRow', imSelected[s]) = RowsOf(imRow, imSelected[s])
        BY <2>2, <2>3, <3>1 DEF ToldOK
      <3> QED BY <3>1, <3>2, ToldStays
    <2> QED BY <1>1, <2>1, <2>3 DEF ImInv, ViewInv
  <1> QED BY <1>4, <1>5, <1>6, <1>7, <1>8 DEF ImInv

(* Positions count the rows up to a UID, so they are as the UIDs.          *)
LEMMA Positions ==
  ASSUME NEW rows, NEW f, NEW u \in RowsOf(rows, f)
  PROVE  /\ PlaceIn(rows, u, f) \in ImNumbers
         /\ \A v \in RowsOf(rows, f) : u < v => PlaceIn(rows, u, f) < PlaceIn(rows, v, f)
  <1> DEFINE upto(v) == {w \in RowsOf(rows, f) : w <= v}
  <1>1. ASSUME NEW v
        PROVE  /\ upto(v) \in SUBSET ImUids /\ IsFiniteSet(upto(v))
               /\ Cardinality(upto(v)) \in Nat /\ Cardinality(upto(v)) <= Cardinality(ImUids)
    <2>1. upto(v) \in SUBSET ImUids
      BY DEF RowsOf
    <2> HIDE DEF upto
    <2> QED BY <2>1, FS_Subset, FS_CardinalityType, ImAssumption
  <1>2. u \in ImUids /\ u \in Nat /\ RowsOf(rows, f) \subseteq Nat
    BY ImAssumption DEF RowsOf
  <1>3. Cardinality(upto(u)) # 0
    <2>1. u \in upto(u)
      BY <1>2
    <2> HIDE DEF upto
    <2> QED BY <1>1, <2>1, FS_EmptySet
  <1>4. Cardinality(upto(u)) \in ImNumbers
    <2> HIDE DEF upto
    <2>1. Cardinality(ImUids) \in Nat
      BY FS_CardinalityType, ImAssumption
    <2>2. \A a, b \in Nat : a # 0 /\ a <= b => a \in 1..b
      OBVIOUS
    <2> QED BY <1>1, <1>3, <2>1, <2>2 DEF ImNumbers
  <1>5. ASSUME NEW v \in RowsOf(rows, f), u < v
        PROVE  Cardinality(upto(u)) < Cardinality(upto(v))
    <2>1. upto(u) \in SUBSET upto(v)
      BY <1>2, <1>5
    <2>2. upto(u) # upto(v)
      <3>1. v \in upto(v) /\ v \notin upto(u)
        BY <1>2, <1>5
      <3> QED BY <3>1
    <2> HIDE DEF upto
    <2>3. /\ Cardinality(upto(u)) <= Cardinality(upto(v))
          /\ Cardinality(upto(u)) # Cardinality(upto(v))
      BY <1>1, <2>1, <2>2, FS_Subset
    <2>4. \A a, b \in Nat : a <= b /\ a # b => a < b
      OBVIOUS
    <2> QED BY <1>1, <2>3, <2>4
  <1> QED BY <1>4, <1>5 DEF PlaceIn

LEMMA EndFetchInv ==
  ASSUME ImInv, NEW s \in ImSessions, NEW t \in imTask[s], EndFetch(s, t)
  PROVE  ImInv'
  <1> DEFINE uids == FetchedUids(t)
  <1>1. RowsGoOn /\ RowInv' /\ UNCHANGED <<imRow, imLost, imLines, imSelected, imBelieved, imShifted, imStrange>>
    BY RowsStay DEF EndFetch
  <1>2. TaskOK(t, imRow, imLost) /\ t \in ImTask /\ t.folder \in ImFolders /\ t.folder # NoFolder
    BY ImAssumption DEF ImInv, TaskInv, TaskOK
  <1>3. ASSUME NEW u \in uids
        PROVE  /\ u \in ImUids /\ ToldOK(<<t.number, u>>, t.folder, imRow)
    <2>1. u \in RowsOf(imRow, t.folder) /\ PlaceIn(imRow, u, t.folder) = t.number
      BY DEF FetchedUids, Rows, Position, RowsOf, PlaceIn
    <2>2. t.number \in ImNumbers
      BY <2>1, Positions
    <2> QED BY <1>2, <2>1, <2>2 DEF ToldOK, RowsOf
  <1>4. LinesInv'
    BY LineEnded DEF EndFetch
  <1>5. TaskInv'
    <2>1. ASSUME NEW w \in imWrites' \ imWrites PROVE WriteOK(w, imRow')
      <3>1. w \in SeenWrites(uids)
        BY <2>1 DEF EndFetch
      <3>2. PICK u \in uids : w = [uid |-> u, read |-> imRow[u].flags,
                                   change |-> [op |-> "+", flag |-> "Seen"]]
        BY <3>1 DEF SeenWrites
      <3>3. RowOK(imRow[u], u \in imLost) /\ u \in ImUids
        BY <1>3 DEF ImInv, RowInv
      <3> QED BY <1>1, <3>2, <3>3 DEF WriteOK, ImWrite, ImChange, ImFlags, RowOK, ImMessage
    <2> QED BY <1>1, <2>1, TaskEnds DEF EndFetch
  <1>6. ViewInv'
    <2>1. CASE imBelieved[s] # t.folder
      <3>1. imTold' = imTold
        BY <2>1 DEF EndFetch
      <3> QED BY <1>1, <3>1, ViewSame
    <2>2. CASE imBelieved[s] = t.folder
      <3> DEFINE told == {p \in imTold[s] : p[1] # t.number} \cup {<<t.number, u>> : u \in uids}
      <3>1. imTold' = [imTold EXCEPT ![s] = told]
        BY <2>2 DEF EndFetch
      <3>2. imTold \in [ImSessions -> SUBSET (ImNumbers \X ImUids)] /\ imSelected[s] = t.folder
        BY <2>2 DEF ImInv, ViewInv
      <3>3. ASSUME NEW p \in told
            PROVE  /\ p \in ImNumbers \X ImUids
                   /\ s \notin imShifted => ToldOK(p, imSelected[s], imRow)
        <4>1. CASE p \in imTold[s]
          BY <3>2, <4>1 DEF ImInv, ViewInv
        <4>2. CASE p \notin imTold[s]
          <5>1. PICK u \in uids : p = <<t.number, u>>
            BY <4>2
          <5> HIDE DEF uids
          <5> QED BY <1>3, <3>2, <5>1 DEF ToldOK
        <4> QED BY <4>1, <4>2
      <3> HIDE DEF told
      <3>4. imTold' \in [ImSessions -> SUBSET (ImNumbers \X ImUids)]
        BY <3>1, <3>2, <3>3
      <3>5. ASSUME NEW o \in ImSessions \ imShifted, NEW p \in imTold'[o]
            PROVE  ToldOK(p, imSelected[o], imRow)
        <4>1. imTold'[o] = IF o = s THEN told ELSE imTold[o]
          BY <3>1, <3>2
        <4>2. CASE o = s
          BY <3>3, <3>5, <4>1, <4>2
        <4>3. CASE o # s
          BY <3>5, <4>1, <4>3 DEF ImInv, ViewInv
        <4> QED BY <4>2, <4>3
      <3> QED BY <1>1, <3>4, <3>5 DEF ImInv, ViewInv
    <2> QED BY <2>1, <2>2
  <1> QED BY <1>1, <1>4, <1>5, <1>6 DEF ImInv

LEMMA ImGoesInv ==
  ASSUME ImInv, NEW s \in ImSessions, ImGoes(s)
  PROVE  ImInv'
  <1>1. PICK t \in imTask[s] :
          \/ EndSelect(s, t) \/ EndFetch(s, t) \/ ReadStore(s, t) \/ WriteStore(s, t)
          \/ ReadExpunge(s, t) \/ WriteExpunge(s, t) \/ LastExpunge(s, t)
          \/ WriteClose(s, t) \/ EndClose(s, t)
    BY DEF ImGoes
  <1> QED BY <1>1, EndSelectInv, EndFetchInv, ReadStoreInv, WriteStoreInv, ReadExpungeInv,
             WriteExpungeInv, LastExpungeInv, WriteCloseInv, EndCloseInv

LEMMA ImSendsInv ==
  ASSUME ImInv, NEW s \in ImSessions, ImSends(s)
  PROVE  ImInv'
  <1>1. ASSUME NEW n \in ImUids \cup ImNumbers PROVE n \in Nat
    <2>1. Cardinality(ImUids) \in Nat
      BY FS_CardinalityType, ImAssumption
    <2> QED BY <2>1, ImAssumption DEF ImNumbers
  <1>2. ASSUME NEW n \in ImUids \cup ImNumbers, NEW c \in ImAsks,
               SendCommand(s, "FETCH", n, AnyChange) \/ SendCommand(s, "STORE", n, c)
        PROVE  ImInv'
    BY <1>1, <1>2, SendCommandInv, AnyChangeTyped, ImAssumption
  <1>3. ASSUME NEW n \in ImUids \cup ImNumbers, SendCommand(s, "FETCH", n, AnyChange)
        PROVE  ImInv'
    BY <1>1, <1>3, SendCommandInv, AnyChangeTyped
  <1>4. ASSUME NEW cmd \in ImMay[s] \cap {"EXPUNGE", "CLOSE"}, SendCommand(s, cmd, 0, AnyChange)
        PROVE  ImInv'
    BY <1>4, SendCommandInv, AnyChangeTyped
  <1> QED BY <1>2, <1>3, <1>4, SendSelectInv, UnselectInv DEF ImSends

LEMMA ImNextInv == ImInv /\ [ImNext]_imVars => ImInv'
  <1>1. ASSUME ImInv, UNCHANGED imVars PROVE ImInv'
    BY <1>1 DEF ImInv, RowInv, TaskInv, LinesInv, ViewInv, imVars
  <1> QED BY <1>1, ImGoesInv, ImSendsInv, WriteSeenInv, ImArriveInv DEF ImNext

THEOREM ImapTyped == ImSpec => []ImTypeOK
  <1> QED BY ImInvParts, ImInitInv, ImNextInv, PTL DEF ImSpec

(* For any sessions, hasty or not, and any messages: a line acts on the    *)
(* folder that its client takes for the selected one, the flags are those  *)
(* of all changes but where a write was computed from old ones, and        *)
(* numbers are in the order of UIDs while no row comes or goes.            *)
THEOREM SessionsAlwaysAgree == ImSpec => []SessionsAgree
  <1>1. ImInv => ActsWhereSelected
    BY DEF ImInv, ViewInv, ActsWhereSelected
  <1>2. ImInv => FlagsAreMeant
    BY DEF ImInv, RowInv, RowOK, FlagsAreMeant
  <1>3. ImInv => NumbersAreInOrder
    <2> SUFFICES ASSUME ImInv, NEW s \in ImSessions \ imShifted, NEW p \in imTold[s],
                        NEW q \in imTold[s]
                 PROVE  (p[1] < q[1]) <=> (p[2] < q[2])
      BY DEF NumbersAreInOrder
    <2> DEFINE f == imSelected[s]
    <2>1. ToldOK(p, f, imRow) /\ ToldOK(q, f, imRow)
      BY DEF ImInv, ViewInv
    <2>2. /\ p[2] \in RowsOf(imRow, f) /\ PlaceIn(imRow, p[2], f) = p[1]
          /\ q[2] \in RowsOf(imRow, f) /\ PlaceIn(imRow, q[2], f) = q[1]
      BY <2>1 DEF ToldOK
    <2>3. /\ p[2] < q[2] => p[1] < q[1]
          /\ q[2] < p[2] => q[1] < p[1]
          /\ p[2] = q[2] => p[1] = q[1]
      BY <2>2, Positions
    <2>4. p[1] \in Nat /\ q[1] \in Nat /\ p[2] \in Nat /\ q[2] \in Nat
      <3>1. ImNumbers \subseteq Nat
        <4>1. Cardinality(ImUids) \in Nat
          BY FS_CardinalityType, ImAssumption
        <4> QED BY <4>1 DEF ImNumbers
      <3> QED BY <2>1, <3>1, ImAssumption DEF ToldOK
    <2>5. \A a, b, c, d \in Nat :
            (c < d => a < b) /\ (d < c => b < a) /\ (c = d => a = b) => ((a < b) <=> (c < d))
      OBVIOUS
    <2> QED BY <2>3, <2>4, <2>5
  <1>4. ImInv => SessionsAgree
    BY <1>1, <1>2, <1>3 DEF SessionsAgree
  <1> QED BY <1>4, ImInitInv, ImNextInv, PTL DEF ImSpec

(* What a step removes.                                                    *)
MarkedGo == \A u \in ImUids : imRow'[u].gone /\ ~imRow[u].gone =>
              imRow[u].marked /\ (u \in imLost \/ "Deleted" \in imRow[u].meant)

LEMMA WritesRemoveNothing ==
  ASSUME ImInv, NEW w, WriteOK(w, imRow), WriteFlags(w)
  PROVE  MarkedGo
  <1>1. w.uid \in ImUids /\ imRow \in [ImUids -> ImMessage]
    BY DEF WriteOK, ImWrite, ImInv, RowInv
  <1>2. Written(w).gone = imRow[w.uid].gone
    BY <1>1 DEF Written, ImMessage
  <1>3. imRow' = [imRow EXCEPT ![w.uid] = Written(w)]
    BY DEF WriteFlags
  <1>4. \A u \in ImUids : imRow'[u].gone = imRow[u].gone
    BY <1>1, <1>2, <1>3
  <1> QED BY <1>4 DEF MarkedGo

LEMMA RemovedGo ==
  ASSUME ImInv, NEW uids, imRow' = Removed(uids),
         \A u \in uids : imRow[u].marked /\ (u \in imLost \/ "Deleted" \in imRow[u].meant)
  PROVE  MarkedGo
  <1>1. \A u \in ImUids : u \notin uids => imRow'[u] = imRow[u]
    BY DEF Removed
  <1> QED BY <1>1 DEF MarkedGo

LEMMA GoesMarked ==
  ASSUME ImInv, NEW s \in ImSessions, NEW t \in imTask[s],
         \/ EndSelect(s, t) \/ EndFetch(s, t) \/ ReadStore(s, t) \/ WriteStore(s, t)
         \/ ReadExpunge(s, t) \/ WriteExpunge(s, t) \/ LastExpunge(s, t)
         \/ WriteClose(s, t) \/ EndClose(s, t)
  PROVE  MarkedGo
  <1>1. CASE UNCHANGED imRow
    BY <1>1 DEF MarkedGo
  <1>2. ASSUME NEW w \in t.writes, WriteFlags(w) PROVE MarkedGo
    <2>1. WriteOK(w, imRow)
      BY DEF ImInv, TaskInv, TaskOK
    <2> QED BY <1>2, <2>1, WritesRemoveNothing
  <1>3. ASSUME NEW u \in t.todo, imRow' = Removed({u}) PROVE MarkedGo
    <2>1. imRow[u].marked /\ (u \in imLost \/ "Deleted" \in imRow[u].meant)
      BY DEF ImInv, TaskInv, TaskOK
    <2> QED BY <1>3, <2>1, RemovedGo
  <1>4. CASE imRow' = Removed(ImMarked(t.folder))
    <2>1. t.folder \in ImFolders
      BY DEF ImInv, TaskInv, TaskOK
    <2> QED BY <1>4, <2>1, MarkedRows, RemovedGo
  <1> QED BY <1>1, <1>2, <1>3, <1>4
          DEF EndSelect, EndFetch, ReadStore, WriteStore, ReadExpunge, WriteExpunge, LastExpunge,
              WriteClose, EndClose

(* Only what a client has marked goes, whatever is beside it: an EXPUNGE   *)
(* that finds a message marked and removes it later removes none of which  *)
(* the mark was not taken off in between.                                  *)
THEOREM OnlyMarkedEverGoes == ImSpec => OnlyMarkedGoes
  <1>1. ASSUME ImInv, ImNext PROVE MarkedGo
    <2>1. CASE UNCHANGED imRow
      BY <2>1 DEF MarkedGo
    <2>2. ASSUME NEW s \in ImSessions, ImSends(s) PROVE UNCHANGED imRow
      BY <2>2 DEF ImSends, SendCommand, SendSelect, Unselect
    <2>3. ASSUME NEW s \in ImSessions, ImGoes(s) PROVE MarkedGo
      BY <1>1, <2>3, GoesMarked DEF ImGoes
    <2>4. ASSUME NEW w \in imWrites, WriteSeen(w) PROVE MarkedGo
      <3>1. WriteOK(w, imRow)
        BY <1>1 DEF ImInv, TaskInv
      <3> QED BY <1>1, <2>4, <3>1, WritesRemoveNothing DEF WriteSeen
    <2>5. ASSUME NEW u \in ImUids, NEW f \in ImFolders, ImArrive(u, f) PROVE MarkedGo
      <3>1. imRow \in [ImUids -> ImMessage] /\ imRow' = [imRow EXCEPT ![u].folder = f]
        BY <1>1, <2>5 DEF ImInv, RowInv, ImArrive
      <3>2. \A v \in ImUids : imRow'[v].gone = imRow[v].gone
        BY <3>1 DEF ImMessage
      <3> QED BY <3>2 DEF MarkedGo
    <2> QED BY <1>1, <2>1, <2>2, <2>3, <2>4, <2>5 DEF ImNext
  <1>2. ImInv /\ [ImNext]_imVars =>
          [\A u \in ImUids : imRow'[u].gone /\ ~imRow[u].gone =>
             imRow[u].marked /\ (u \in imLost \/ "Deleted" \in imRow[u].meant)]_imVars
    BY <1>1 DEF MarkedGo
  <1> QED BY <1>2, ImInitInv, ImNextInv, PTL DEF ImSpec, OnlyMarkedGoes

-----------------------------------------------------------------------------
(* Pop3Session.  The invariant follows the one line that a patient client  *)
(* has sent and not read the answer of: it waits at an await, its answer   *)
(* is on its way, or the connection has ended; and it says in each of      *)
(* these what the marks of the server and those of the client have to do   *)
(* with each other.                                                        *)

Partial(S) == UNION {[D -> S] : D \in SUBSET Nat}

PopTask == [cmd : {"PASS", "RETR", "QUIT"}, number : Nat, line : Nat,
            step : {"first", "second"}, ids : Partial(Ids)]
PopSess == [state : {"AUTHORIZATION", "TRANSACTION"}, user : BOOLEAN, open : BOOLEAN,
            maildrop : Partial([id : Ids, deleted : BOOLEAN]), tasks : SUBSET PopTask]
PopReply == [ok : BOOLEAN, line : Nat, shows : Partial(Ids)]
PopRequest == [cmd : Commands, number : Nat, line : Nat]
ClientFields == {"waiting", "sent", "knows", "marks", "done"}

MarkIds(drop) == {drop[n].id : n \in {k \in DOMAIN drop : drop[k].deleted}}

AllGone(ids, fates) == \A m \in ids : fates[m] \in {"deleted", "destroyed"}

(* Whatever the client: types, and a RETR has the message it asked for.    *)
ServerInv ==
  /\ fate \in [Ids -> Fates]
  /\ sess \in [Sessions -> PopSess]
  /\ \A s \in Sessions : \A t \in sess[s].tasks : t.cmd = "RETR" => 1 \in DOMAIN t.ids
  /\ replies \in [Sessions -> Seq(PopReply)]
  /\ client = [s \in Sessions |-> client[s]]
  /\ \A s \in Sessions : DOMAIN client[s] = ClientFields /\ client[s].sent \in Nat

PassOK(t, ss, fates) ==
  t.cmd = "PASS" =>
    /\ ss.state = "AUTHORIZATION"
    /\ t.step = "second" => \A n \in DOMAIN t.ids : fates[t.ids[n]] # "unborn"

RetrOK(t, ss) ==
  t.cmd = "RETR" => t.number \in DOMAIN ss.maildrop /\ t.ids[1] = ss.maildrop[t.number].id

QuitOK(t, ss, fates) ==
  t.cmd = "QUIT" =>
    /\ ToSet(t.ids) = MarkIds(ss.maildrop)
    /\ t.step = "second" => AllGone(MarkIds(ss.maildrop), fates)

Working(ss, rs, cl, fates, q) ==
  /\ rs = <<>> /\ cl.marks = MarkIds(ss.maildrop)
  /\ \E t \in PopTask : /\ ss.tasks = {t} /\ t.cmd = q.cmd
                        /\ PassOK(t, ss, fates) /\ RetrOK(t, ss) /\ QuitOK(t, ss, fates)

Lost(ss, rs, cl) ==
  ~ss.open /\ rs = <<>> /\ ss.tasks = {} /\ cl.marks = MarkIds(ss.maildrop)

ReplyOK(r, q, ss, cl, fates) ==
  /\ \A n \in DOMAIN r.shows : n \in DOMAIN ss.maildrop /\ r.shows[n] = ss.maildrop[n].id
  /\ r.ok /\ q.cmd = "DELE" => /\ q.number \in DOMAIN cl.knows
                               /\ MarkIds(ss.maildrop) = cl.marks \cup {cl.knows[q.number]}
  /\ r.ok /\ q.cmd = "RSET" => MarkIds(ss.maildrop) = {}
  /\ ~(r.ok /\ q.cmd \in {"DELE", "RSET"}) => cl.marks = MarkIds(ss.maildrop)
  /\ r.ok /\ q.cmd = "QUIT" => ~ss.open /\ AllGone(MarkIds(ss.maildrop), fates)

Answered(ss, rs, cl, fates, q) ==
  ss.tasks = {} /\ \E r \in PopReply : rs = <<r>> /\ ReplyOK(r, q, ss, cl, fates)

KnowsOK(ss, cl) ==
  \A n \in DOMAIN cl.knows : n \in DOMAIN ss.maildrop /\ cl.knows[n] = ss.maildrop[n].id

DropOK(ss, fates) ==
  /\ ss.state = "AUTHORIZATION" => DOMAIN ss.maildrop = {}
  /\ \A n \in DOMAIN ss.maildrop : fates[ss.maildrop[n].id] # "unborn"

DoneOK(ss, cl, fates) ==
  cl.done => ~ss.open /\ cl.waiting = <<>> /\ AllGone(MarkIds(ss.maildrop), fates)

TurnOK(ss, rs, cl, fates) ==
  \/ cl.waiting = <<>> /\ ss.tasks = {} /\ rs = <<>> /\ cl.marks = MarkIds(ss.maildrop)
  \/ \E q \in PopRequest :
       /\ cl.waiting = <<q>>
       /\ Working(ss, rs, cl, fates, q) \/ Lost(ss, rs, cl) \/ Answered(ss, rs, cl, fates, q)

PatientOK(ss, rs, cl, fates) ==
  KnowsOK(ss, cl) /\ DropOK(ss, fates) /\ DoneOK(ss, cl, fates) /\ TurnOK(ss, rs, cl, fates)

PopInv ==
  ServerInv /\ \A s \in Sessions \ Eager : PatientOK(sess[s], replies[s], client[s], fate)

(* One line in the queue.                                                  *)
LEMMA OneLine ==
  ASSUME NEW x
  PROVE  /\ Append(<<>>, x) = <<x>> /\ Head(<<x>>) = x /\ Tail(<<x>>) = <<>>
         /\ <<x>> # <<>> /\ DOMAIN <<x>> = {1} /\ <<x>>[1] = x
  OBVIOUS

LEMMA SameLine == \A x, y : <<x>> = <<y>> => x = y
  OBVIOUS

LEMMA NoMarks ==
  ASSUME NEW drop, DOMAIN drop = {}
  PROVE  MarkIds(drop) = {}
  BY DEF MarkIds

LEMMA MarksAreIds ==
  ASSUME NEW ss \in PopSess
  PROVE  MarkIds(ss.maildrop) \subseteq Ids
  <1>1. PICK D \in SUBSET Nat : ss.maildrop \in [D -> [id : Ids, deleted : BOOLEAN]]
    BY DEF PopSess, Partial
  <1> QED BY <1>1 DEF MarkIds

LEMMA DropTyped ==
  ASSUME NEW ss \in PopSess
  PROVE  /\ ss.maildrop \in [DOMAIN ss.maildrop -> [id : Ids, deleted : BOOLEAN]]
         /\ DOMAIN ss.maildrop \subseteq Nat
  <1>1. PICK D \in SUBSET Nat : ss.maildrop \in [D -> [id : Ids, deleted : BOOLEAN]]
    BY DEF PopSess, Partial
  <1> QED BY <1>1

LEMMA PartialTyped ==
  ASSUME NEW S, NEW f \in Partial(S)
  PROVE  f \in [DOMAIN f -> S] /\ DOMAIN f \subseteq Nat
  <1>1. PICK D \in SUBSET Nat : f \in [D -> S]
    BY DEF Partial
  <1> QED BY <1>1

LEMMA MakesPartial ==
  ASSUME NEW S, NEW D \in SUBSET Nat, NEW f \in [D -> S]
  PROVE  f \in Partial(S)
  BY DEF Partial

(* Nobody brings a message back.                                           *)
Grows(before, after) ==
  \A m \in Ids : /\ before[m] # "unborn" => after[m] # "unborn"
                 /\ before[m] \in {"deleted", "destroyed"} => after[m] \in {"deleted", "destroyed"}

LEMMA PatientLater ==
  ASSUME NEW ss \in PopSess, NEW rs, NEW cl, NEW before, NEW after,
         PatientOK(ss, rs, cl, before), Grows(before, after)
  PROVE  PatientOK(ss, rs, cl, after)
  <1>1. MarkIds(ss.maildrop) \subseteq Ids
    BY MarksAreIds
  <1>2. AllGone(MarkIds(ss.maildrop), before) => AllGone(MarkIds(ss.maildrop), after)
    BY <1>1 DEF AllGone, Grows
  <1>3. DropOK(ss, after)
    BY DropTyped DEF PatientOK, DropOK, Grows
  <1>4. DoneOK(ss, cl, after)
    BY <1>2 DEF PatientOK, DoneOK
  <1>5. ASSUME NEW q \in PopRequest, Working(ss, rs, cl, before, q)
        PROVE  Working(ss, rs, cl, after, q)
    <2>1. PICK t \in PopTask : /\ ss.tasks = {t} /\ t.cmd = q.cmd
                               /\ PassOK(t, ss, before) /\ RetrOK(t, ss) /\ QuitOK(t, ss, before)
      BY <1>5 DEF Working
    <2>2. t.ids \in [DOMAIN t.ids -> Ids]
      BY PartialTyped DEF PopTask
    <2>3. PassOK(t, ss, after)
      BY <2>1, <2>2 DEF PassOK, Grows
    <2>4. QuitOK(t, ss, after)
      BY <1>2, <2>1 DEF QuitOK
    <2> QED BY <1>5, <2>1, <2>3, <2>4 DEF Working
  <1>6. ASSUME NEW q \in PopRequest, Answered(ss, rs, cl, before, q)
        PROVE  Answered(ss, rs, cl, after, q)
    <2>1. PICK r \in PopReply : rs = <<r>> /\ ReplyOK(r, q, ss, cl, before)
      BY <1>6 DEF Answered
    <2>2. ReplyOK(r, q, ss, cl, after)
      BY <1>2, <2>1 DEF ReplyOK
    <2> QED BY <1>6, <2>1, <2>2 DEF Answered
  <1>7. TurnOK(ss, rs, cl, after)
    BY <1>5, <1>6 DEF PatientOK, TurnOK
  <1> QED BY <1>3, <1>4, <1>7 DEF PatientOK

LEMMA SinglePartial ==
  ASSUME NEW S, NEW x \in S
  PROVE  <<x>> \in Partial(S) /\ DOMAIN <<x>> = {1} /\ <<x>>[1] = x
  <1>1. <<x>> \in [1..1 -> S] /\ 1..1 \subseteq Nat
    OBVIOUS
  <1> QED BY <1>1, MakesPartial

LEMMA EmptyPartial ==
  ASSUME NEW S
  PROVE  <<>> \in Partial(S) /\ DOMAIN <<>> = {}
  <1>1. <<>> \in [{} -> S]
    OBVIOUS
  <1> QED BY <1>1, MakesPartial

(* What one session keeps, of ServerInv.                                   *)
SideOK(ss, rs, cl) ==
  /\ ss \in PopSess /\ rs \in Seq(PopReply)
  /\ \A t \in ss.tasks : t.cmd = "RETR" => 1 \in DOMAIN t.ids
  /\ DOMAIN cl = ClientFields /\ cl.sent \in Nat

LEMMA SidesOK ==
  ASSUME PopInv, NEW s \in Sessions
  PROVE  SideOK(sess[s], replies[s], client[s])
  BY DEF PopInv, ServerInv, SideOK

(* A step of one session leaves every other session as it is, and at most  *)
(* takes messages away from it.                                            *)
LEMMA OneMoves ==
  ASSUME PopInv, NEW s \in Sessions, NEW ss, NEW rs, NEW cl,
         sess' = [sess EXCEPT ![s] = ss], replies' = [replies EXCEPT ![s] = rs],
         client' = [client EXCEPT ![s] = cl],
         fate' \in [Ids -> Fates], Grows(fate, fate'), SideOK(ss, rs, cl),
         s \notin Eager => PatientOK(ss, rs, cl, fate')
  PROVE  PopInv'
  <1>1. /\ sess'[s] = ss /\ replies'[s] = rs /\ client'[s] = cl
        /\ \A o \in Sessions : o # s => /\ sess'[o] = sess[o] /\ replies'[o] = replies[o]
                                        /\ client'[o] = client[o]
        /\ client' = [o \in Sessions |-> client'[o]]
    BY DEF PopInv, ServerInv
  <1>2. ServerInv'
    <2>1. sess' \in [Sessions -> PopSess] /\ replies' \in [Sessions -> Seq(PopReply)]
      BY DEF PopInv, ServerInv, SideOK
    <2>2. \A o \in Sessions : \A t \in sess'[o].tasks : t.cmd = "RETR" => 1 \in DOMAIN t.ids
      BY <1>1 DEF PopInv, ServerInv, SideOK
    <2>3. \A o \in Sessions : DOMAIN client'[o] = ClientFields /\ client'[o].sent \in Nat
      BY <1>1 DEF PopInv, ServerInv, SideOK
    <2> QED BY <1>1, <2>1, <2>2, <2>3 DEF ServerInv
  <1>3. ASSUME NEW o \in Sessions \ Eager
        PROVE  PatientOK(sess'[o], replies'[o], client'[o], fate')
    <2>1. CASE o = s
      BY <1>1, <2>1
    <2>2. CASE o # s
      <3>1. PatientOK(sess[o], replies[o], client[o], fate')
        BY PatientLater DEF PopInv, ServerInv
      <3> QED BY <1>1, <2>2, <3>1
    <2> QED BY <2>1, <2>2
  <1> QED BY <1>2, <1>3 DEF PopInv

(* UNCHANGED, in the form of a step of s.                                  *)
LEMMA KeptOfOne ==
  ASSUME PopInv, NEW s \in Sessions
  PROVE  /\ sess = [sess EXCEPT ![s] = sess[s]] /\ replies = [replies EXCEPT ![s] = replies[s]]
         /\ client = [client EXCEPT ![s] = client[s]] /\ Grows(fate, fate)
         /\ fate \in [Ids -> Fates]
  BY DEF PopInv, ServerInv, Grows

LEMMA PopInitially == Init => PopInv
  <1> SUFFICES ASSUME Init PROVE PopInv
    OBVIOUS
  <1>1. PICK S \in SUBSET Ids : fate = [m \in Ids |-> IF m \in S THEN "live" ELSE "unborn"]
    BY DEF Init
  <1>2. fate \in [Ids -> Fates]
    BY <1>1 DEF Fates
  <1>3. <<>> \in Partial([id : Ids, deleted : BOOLEAN]) /\ DOMAIN <<>> = {}
    BY EmptyPartial
  <1>4. sess \in [Sessions -> PopSess] /\ \A s \in Sessions : sess[s].tasks = {}
    BY <1>3 DEF Init, PopSess
  <1>5. replies \in [Sessions -> Seq(PopReply)]
    BY DEF Init
  <1>6. /\ client = [s \in Sessions |-> client[s]]
        /\ \A s \in Sessions : DOMAIN client[s] = ClientFields /\ client[s].sent \in Nat
    BY DEF Init, ClientFields
  <1>7. ASSUME NEW s \in Sessions
        PROVE  PatientOK(sess[s], replies[s], client[s], fate)
    <2>1. /\ sess[s].maildrop = <<>> /\ sess[s].tasks = {} /\ replies[s] = <<>>
          /\ client[s].waiting = <<>> /\ client[s].knows = <<>> /\ client[s].marks = {}
          /\ client[s].done = FALSE
      BY DEF Init, Nothing
    <2>2. MarkIds(sess[s].maildrop) = {}
      BY <1>3, <2>1, NoMarks
    <2> QED BY <1>3, <2>1, <2>2 DEF PatientOK, KnowsOK, DropOK, DoneOK, TurnOK
  <1> QED BY <1>2, <1>4, <1>5, <1>6, <1>7 DEF PopInv, ServerInv

-----------------------------------------------------------------------------
(* The steps of a session, one by one: what becomes of its record, its     *)
(* replies and its client's record.                                        *)

LEMMA PatientReads ==
  ASSUME NEW ss \in PopSess, NEW rs, NEW cl, NEW fates, DOMAIN cl = ClientFields,
         PatientOK(ss, rs, cl, fates), rs # <<>>, cl.waiting # <<>>
  PROVE  PatientOK(ss, Tail(rs), Learns(cl, Head(cl.waiting), Head(rs)), fates)
  <1>1. PICK q \in PopRequest :
          cl.waiting = <<q>> /\ (Working(ss, rs, cl, fates, q) \/ Lost(ss, rs, cl)
                                 \/ Answered(ss, rs, cl, fates, q))
    BY DEF PatientOK, TurnOK
  <1>2. Answered(ss, rs, cl, fates, q)
    BY <1>1 DEF Working, Lost
  <1>3. PICK r \in PopReply : rs = <<r>> /\ ReplyOK(r, q, ss, cl, fates)
    BY <1>2 DEF Answered
  <1>4. Head(rs) = r /\ Tail(rs) = <<>> /\ Head(cl.waiting) = q /\ Tail(cl.waiting) = <<>>
    BY <1>1, <1>3, OneLine
  <1> DEFINE after == Learns(cl, q, r)
  <1>5. /\ after.waiting = <<>>
        /\ after.knows = [n \in DOMAIN cl.knows \cup DOMAIN r.shows |->
                            IF n \in DOMAIN r.shows THEN r.shows[n] ELSE cl.knows[n]]
        /\ after.done = (cl.done \/ (q.cmd = "QUIT" /\ r.ok))
    BY <1>1, <1>4 DEF Learns, ClientFields
  <1>6. after.marks = IF r.ok /\ q.cmd = "DELE" THEN cl.marks \cup {cl.knows[q.number]}
                      ELSE IF r.ok /\ q.cmd = "RSET" THEN {} ELSE cl.marks
    BY DEF Learns, ClientFields
  <1>7. after.marks = MarkIds(ss.maildrop)
    BY <1>3, <1>6 DEF ReplyOK
  <1>8. KnowsOK(ss, after)
    BY <1>3, <1>5 DEF KnowsOK, PatientOK, ReplyOK
  <1>9. ~cl.done
    BY <1>1, OneLine DEF PatientOK, DoneOK
  <1>10. DoneOK(ss, after, fates)
    BY <1>3, <1>5, <1>9 DEF DoneOK, ReplyOK
  <1>11. TurnOK(ss, <<>>, after, fates)
    BY <1>2, <1>5, <1>7 DEF TurnOK, Answered
  <1> QED BY <1>4, <1>8, <1>10, <1>11 DEF PatientOK

LEMMA ReadReplyHolds ==
  ASSUME PopInv, NEW s \in Sessions, ReadReply(s)
  PROVE  PopInv'
  <1> DEFINE ss == sess[s]
             rs == Tail(replies[s])
             cl == Learns(client[s], Head(client[s].waiting), Head(replies[s]))
  <1>1. SideOK(sess[s], replies[s], client[s])
    BY SidesOK
  <1>2. Tail(replies[s]) \in Seq(PopReply)
    BY <1>1 DEF SideOK, ReadReply
  <1>3. SideOK(ss, rs, cl)
    BY <1>1, <1>2 DEF SideOK, Learns, ClientFields
  <1>4. s \notin Eager => PatientOK(ss, rs, cl, fate)
    BY <1>1, PatientReads DEF PopInv, SideOK, ReadReply
  <1>5. /\ sess' = [sess EXCEPT ![s] = ss] /\ replies' = [replies EXCEPT ![s] = rs]
        /\ client' = [client EXCEPT ![s] = cl] /\ fate' = fate
    BY KeptOfOne DEF ReadReply
  <1>6. Grows(fate, fate') /\ fate' \in [Ids -> Fates]
    BY <1>5, KeptOfOne
  <1> HIDE DEF ss, rs, cl
  <1>7. s \notin Eager => PatientOK(ss, rs, cl, fate')
    BY <1>4, <1>5
  <1> QED BY <1>3, <1>5, <1>6, <1>7, OneMoves

LEMMA PatientCut ==
  ASSUME NEW ss \in PopSess, NEW rs, NEW cl, NEW fates,
         PatientOK(ss, rs, cl, fates)
  PROVE  PatientOK([ss EXCEPT !.open = FALSE], rs, cl, fates)
  <1> DEFINE cut == [ss EXCEPT !.open = FALSE]
  <1>1. /\ cut.maildrop = ss.maildrop /\ cut.tasks = ss.tasks /\ cut.state = ss.state
        /\ cut.open = FALSE
    BY DEF PopSess
  <1> HIDE DEF cut
  <1>2. KnowsOK(cut, cl) /\ DropOK(cut, fates) /\ DoneOK(cut, cl, fates)
    BY <1>1 DEF PatientOK, KnowsOK, DropOK, DoneOK
  <1>3. ASSUME NEW q \in PopRequest, Working(ss, rs, cl, fates, q)
        PROVE  Working(cut, rs, cl, fates, q)
    BY <1>1, <1>3 DEF Working, PassOK, RetrOK, QuitOK
  <1>4. ASSUME NEW q \in PopRequest, Answered(ss, rs, cl, fates, q)
        PROVE  Answered(cut, rs, cl, fates, q)
    BY <1>1, <1>4 DEF Answered, ReplyOK
  <1>5. Lost(ss, rs, cl) => Lost(cut, rs, cl)
    BY <1>1 DEF Lost
  <1>6. TurnOK(cut, rs, cl, fates)
    BY <1>1, <1>3, <1>4, <1>5 DEF PatientOK, TurnOK
  <1>7. PatientOK(cut, rs, cl, fates)
    BY <1>2, <1>6 DEF PatientOK
  <1> QED BY <1>7 DEF cut

LEMMA HangupHolds ==
  ASSUME PopInv, NEW s \in Sessions, Hangup(s)
  PROVE  PopInv'
  <1> DEFINE ss == [sess[s] EXCEPT !.open = FALSE]
  <1>1. SideOK(sess[s], replies[s], client[s])
    BY SidesOK
  <1>2. SideOK(ss, replies[s], client[s])
    BY <1>1 DEF SideOK, PopSess
  <1>3. s \notin Eager => PatientOK(ss, replies[s], client[s], fate)
    BY <1>1, PatientCut DEF PopInv, SideOK
  <1>4. /\ sess' = [sess EXCEPT ![s] = ss] /\ replies' = [replies EXCEPT ![s] = replies[s]]
        /\ client' = [client EXCEPT ![s] = client[s]] /\ fate' = fate
    BY KeptOfOne DEF Hangup
  <1>5. Grows(fate, fate') /\ fate' \in [Ids -> Fates]
    BY <1>4, KeptOfOne
  <1> HIDE DEF ss
  <1>6. s \notin Eager => PatientOK(ss, replies[s], client[s], fate')
    BY <1>3, <1>4
  <1> QED BY <1>2, <1>4, <1>5, <1>6, OneMoves

LEMMA OthersHold ==
  ASSUME PopInv, Others
  PROVE  PopInv'
  <1>1. Grows(fate, fate') /\ fate' \in [Ids -> Fates]
    BY DEF PopInv, ServerInv, Others, Arrives, MovedOut, MarkedDeleted, Destroyed, Grows, Fates
  <1>2. ServerInv'
    BY <1>1 DEF PopInv, ServerInv, Others
  <1>3. \A s \in Sessions \ Eager : PatientOK(sess[s], replies[s], client[s], fate')
    BY <1>1, PatientLater DEF PopInv, ServerInv
  <1> QED BY <1>2, <1>3 DEF PopInv, Others

Put(ss, rs, r) == IF ss.open THEN Append(rs, r) ELSE rs

Reply(ok, line, shows) == [ok |-> ok, line |-> line, shows |-> shows]

LEMMA PutTyped ==
  ASSUME NEW ss, NEW rs \in Seq(PopReply), NEW r \in PopReply
  PROVE  Put(ss, rs, r) \in Seq(PopReply)
  BY DEF Put

(* A handler that runs is the handler of the line that waits.              *)
HandlerOf(t, q, ss, rs, cl, fates) ==
  /\ cl.waiting = <<q>> /\ ~cl.done
  /\ rs = <<>> /\ cl.marks = MarkIds(ss.maildrop)
  /\ ss.tasks = {t} /\ t.cmd = q.cmd
  /\ PassOK(t, ss, fates) /\ RetrOK(t, ss) /\ QuitOK(t, ss, fates)

LEMMA IsHandler ==
  ASSUME NEW ss, NEW rs, NEW cl, NEW fates, PatientOK(ss, rs, cl, fates), NEW t \in ss.tasks
  PROVE  \E q \in PopRequest : HandlerOf(t, q, ss, rs, cl, fates)
  <1>1. PICK q \in PopRequest :
          cl.waiting = <<q>> /\ (Working(ss, rs, cl, fates, q) \/ Lost(ss, rs, cl)
                                 \/ Answered(ss, rs, cl, fates, q))
    BY DEF PatientOK, TurnOK
  <1>2. Working(ss, rs, cl, fates, q)
    BY <1>1 DEF Lost, Answered
  <1>3. ~cl.done
    BY <1>1, OneLine DEF PatientOK, DoneOK
  <1> QED BY <1>1, <1>2, <1>3 DEF Working, HandlerOf

(* A handler that answers and ends.                                        *)
LEMMA Finishes ==
  ASSUME NEW ss, NEW to, NEW cl, NEW fates, NEW q \in PopRequest, NEW r \in PopReply,
         cl.waiting = <<q>>, ~cl.done, cl.marks = MarkIds(to.maildrop),
         to.tasks = {}, ss.open \/ ~to.open,
         ss.open => ReplyOK(r, q, to, cl, fates), KnowsOK(to, cl), DropOK(to, fates)
  PROVE  PatientOK(to, Put(ss, <<>>, r), cl, fates)
  <1>1. CASE ss.open
    <2>1. Put(ss, <<>>, r) = <<r>>
      BY <1>1, OneLine DEF Put
    <2>2. Answered(to, <<r>>, cl, fates, q)
      BY <1>1 DEF Answered
    <2> QED BY <2>1, <2>2 DEF PatientOK, DoneOK, TurnOK
  <1>2. CASE ~ss.open
    <2>1. Put(ss, <<>>, r) = <<>>
      BY <1>2 DEF Put
    <2>2. Lost(to, <<>>, cl)
      BY <1>2 DEF Lost
    <2> QED BY <2>1, <2>2 DEF PatientOK, DoneOK, TurnOK
  <1> QED BY <1>1, <1>2

(* A handler that comes to its next await.                                 *)
LEMMA GoesOn ==
  ASSUME NEW to, NEW cl, NEW fates, NEW q \in PopRequest, NEW t \in PopTask,
         HandlerOf(t, q, to, <<>>, cl, fates), KnowsOK(to, cl), DropOK(to, fates)
  PROVE  PatientOK(to, <<>>, cl, fates)
  <1>1. Working(to, <<>>, cl, fates, q)
    BY DEF Working, HandlerOf
  <1> QED BY <1>1 DEF PatientOK, DoneOK, TurnOK, HandlerOf

-----------------------------------------------------------------------------
(* What a handler of s leaves behind: the record "to" and the reply r.     *)
LEMMA EndHolds ==
  ASSUME PopInv, NEW s \in Sessions, NEW t \in sess[s].tasks, NEW to, NEW r \in PopReply,
         sess' = [sess EXCEPT ![s] = to],
         replies' = [replies EXCEPT ![s] = Put(sess[s], replies[s], r)],
         client' = client, fate' = fate,
         to \in PopSess, to.tasks = sess[s].tasks \ {t}, sess[s].open \/ ~to.open,
         s \notin Eager => \A q \in PopRequest :
           HandlerOf(t, q, sess[s], replies[s], client[s], fate) =>
             /\ client[s].marks = MarkIds(to.maildrop)
             /\ sess[s].open => ReplyOK(r, q, to, client[s], fate)
             /\ KnowsOK(to, client[s]) /\ DropOK(to, fate)
  PROVE  PopInv'
  <1> DEFINE rs == Put(sess[s], replies[s], r)
  <1>1. SideOK(sess[s], replies[s], client[s])
    BY SidesOK
  <1>2. rs \in Seq(PopReply)
    BY <1>1, PutTyped DEF SideOK
  <1>3. SideOK(to, rs, client[s])
    BY <1>1, <1>2 DEF SideOK
  <1>4. ASSUME s \notin Eager PROVE PatientOK(to, rs, client[s], fate)
    <2>1. PatientOK(sess[s], replies[s], client[s], fate)
      BY <1>4 DEF PopInv
    <2>2. PICK q \in PopRequest : HandlerOf(t, q, sess[s], replies[s], client[s], fate)
      BY <2>1, IsHandler
    <2>3. /\ client[s].waiting = <<q>> /\ ~client[s].done /\ replies[s] = <<>>
          /\ to.tasks = {}
      BY <2>2 DEF HandlerOf
    <2>4. /\ client[s].marks = MarkIds(to.maildrop)
          /\ sess[s].open => ReplyOK(r, q, to, client[s], fate)
          /\ KnowsOK(to, client[s]) /\ DropOK(to, fate)
      BY <1>4, <2>2
    <2>5. PatientOK(to, Put(sess[s], <<>>, r), client[s], fate)
      BY <2>3, <2>4, Finishes
    <2> QED BY <2>3, <2>5
  <1>5. client' = [client EXCEPT ![s] = client[s]] /\ Grows(fate, fate') /\ fate' \in [Ids -> Fates]
    BY KeptOfOne
  <1>6. s \notin Eager => PatientOK(to, rs, client[s], fate')
    BY <1>4
  <1>7. replies' = [replies EXCEPT ![s] = rs]
    OBVIOUS
  <1> HIDE DEF rs
  <1> QED BY <1>3, <1>5, <1>6, <1>7, OneMoves

LEMMA TaskOfSession ==
  ASSUME PopInv, NEW s \in Sessions, NEW t \in sess[s].tasks
  PROVE  /\ t \in PopTask /\ sess[s] \in PopSess
         /\ t.cmd = "RETR" => 1 \in DOMAIN t.ids
         /\ t.ids \in [DOMAIN t.ids -> Ids] /\ DOMAIN t.ids \subseteq Nat
  <1>1. t \in PopTask /\ sess[s] \in PopSess
    BY DEF PopInv, ServerInv, PopSess
  <1>2. t.ids \in Partial(Ids)
    BY <1>1 DEF PopTask
  <1> QED BY <1>1, <1>2, PartialTyped DEF PopInv, ServerInv

(* The client's knowledge and the numbers do not depend on the handler.    *)
LEMMA SameDrop ==
  ASSUME PopInv, NEW s \in Sessions, NEW to, NEW t \in sess[s].tasks,
         to = [sess[s] EXCEPT !.tasks = @ \ {t}]
  PROVE  /\ to \in PopSess /\ to.tasks = sess[s].tasks \ {t} /\ to.open = sess[s].open
         /\ to.maildrop = sess[s].maildrop /\ to.state = sess[s].state
         /\ s \notin Eager => KnowsOK(to, client[s]) /\ DropOK(to, fate)
  <1>1. sess[s] \in PopSess
    BY TaskOfSession
  <1>2. /\ to \in PopSess /\ to.tasks = sess[s].tasks \ {t} /\ to.open = sess[s].open
        /\ to.maildrop = sess[s].maildrop /\ to.state = sess[s].state
    BY <1>1 DEF PopSess
  <1> QED BY <1>2 DEF PopInv, PatientOK, KnowsOK, DropOK

LEMMA FailsHolds ==
  ASSUME PopInv, NEW s \in Sessions, NEW t \in sess[s].tasks, Fails(s, t), UNCHANGED <<inbox, client>>
  PROVE  PopInv'
  <1> DEFINE to == [sess[s] EXCEPT !.tasks = @ \ {t}]
             r == Reply(FALSE, t.line, Nothing)
  <1>1. /\ to \in PopSess /\ to.tasks = sess[s].tasks \ {t} /\ to.open = sess[s].open
        /\ to.maildrop = sess[s].maildrop
        /\ s \notin Eager => KnowsOK(to, client[s]) /\ DropOK(to, fate)
    BY SameDrop
  <1>2. r \in PopReply /\ r.ok = FALSE /\ DOMAIN r.shows = {}
    BY EmptyPartial, TaskOfSession DEF PopReply, PopTask, Reply, Nothing
  <1>3. sess' = [sess EXCEPT ![s] = to] /\ fate' = fate
    BY DEF Fails, Ended
  <1>4. replies' = [replies EXCEPT ![s] = Put(sess[s], replies[s], r)]
    BY DEF Fails, Answer, Put, Reply
  <1> HIDE DEF to, r
  <1>5. ASSUME NEW q \in PopRequest, HandlerOf(t, q, sess[s], replies[s], client[s], fate)
        PROVE  /\ client[s].marks = MarkIds(to.maildrop) /\ ReplyOK(r, q, to, client[s], fate)
    BY <1>1, <1>2, <1>5 DEF HandlerOf, ReplyOK
  <1> QED BY <1>1, <1>2, <1>3, <1>4, <1>5, EndHolds

LEMMA LoggedInHolds ==
  ASSUME PopInv, NEW s \in Sessions, NEW t \in sess[s].tasks, LoggedIn(s, t),
         UNCHANGED <<inbox, client>>
  PROVE  PopInv'
  <1> DEFINE drop == [n \in DOMAIN t.ids |-> [id |-> t.ids[n], deleted |-> FALSE]]
             to == [sess[s] EXCEPT !.tasks = @ \ {t}, !.state = "TRANSACTION", !.maildrop = drop]
             r == Reply(TRUE, t.line, Nothing)
  <1>1. t \in PopTask /\ sess[s] \in PopSess /\ t.ids \in [DOMAIN t.ids -> Ids] /\ DOMAIN t.ids \subseteq Nat
    BY TaskOfSession
  <1>2. drop \in [DOMAIN t.ids -> [id : Ids, deleted : BOOLEAN]]
    BY <1>1
  <1>3. drop \in Partial([id : Ids, deleted : BOOLEAN])
    BY <1>1, <1>2, MakesPartial
  <1>4. /\ DOMAIN drop = DOMAIN t.ids
        /\ \A n \in DOMAIN drop : drop[n].id = t.ids[n] /\ drop[n].deleted = FALSE
    OBVIOUS
  <1> HIDE DEF drop
  <1>5. /\ to \in PopSess /\ to.tasks = sess[s].tasks \ {t} /\ to.open = sess[s].open
        /\ to.maildrop = drop /\ to.state = "TRANSACTION"
    BY <1>1, <1>3 DEF PopSess
  <1>6. r \in PopReply /\ DOMAIN r.shows = {}
    BY <1>1, EmptyPartial DEF PopReply, PopTask, Reply, Nothing
  <1>7. sess' = [sess EXCEPT ![s] = to] /\ fate' = fate
    BY <1>1 DEF LoggedIn, Ended, PopSess, PopInv, ServerInv, drop
  <1>8. replies' = [replies EXCEPT ![s] = Put(sess[s], replies[s], r)]
    BY DEF LoggedIn, Answer, Put, Reply
  <1>9. MarkIds(drop) = {}
    BY <1>4 DEF MarkIds
  <1> HIDE DEF to, r
  <1>10. ASSUME s \notin Eager,
                NEW q \in PopRequest, HandlerOf(t, q, sess[s], replies[s], client[s], fate)
         PROVE  /\ client[s].marks = MarkIds(to.maildrop) /\ ReplyOK(r, q, to, client[s], fate)
                /\ KnowsOK(to, client[s]) /\ DropOK(to, fate)
    <2>1. sess[s].state = "AUTHORIZATION" /\ q.cmd = "PASS"
          /\ \A n \in DOMAIN t.ids : fate[t.ids[n]] # "unborn"
      BY <1>10 DEF HandlerOf, PassOK, LoggedIn
    <2>2. DOMAIN sess[s].maildrop = {} /\ DOMAIN client[s].knows = {}
      BY <1>10, <2>1 DEF PopInv, PatientOK, DropOK, KnowsOK
    <2>3. client[s].marks = {}
      BY <1>10, <2>2, NoMarks DEF HandlerOf
    <2>4. ReplyOK(r, q, to, client[s], fate)
      BY <1>5, <1>6, <1>9, <2>1, <2>3 DEF ReplyOK
    <2>5. KnowsOK(to, client[s])
      BY <2>2 DEF KnowsOK
    <2>6. DropOK(to, fate)
      BY <1>4, <1>5, <2>1 DEF DropOK
    <2> QED BY <1>5, <1>9, <2>3, <2>4, <2>5, <2>6
  <1> QED BY <1>5, <1>6, <1>7, <1>8, <1>10, EndHolds

LEMMA SendMessageHolds ==
  ASSUME PopInv, NEW s \in Sessions, NEW t \in sess[s].tasks, SendMessage(s, t),
         UNCHANGED <<inbox, client>>
  PROVE  PopInv'
  <1> DEFINE shows == [n \in {t.number} |-> t.ids[1]]
             to == [sess[s] EXCEPT !.tasks = @ \ {t}]
             r == Reply(TRUE, t.line, shows)
  <1>1. /\ to \in PopSess /\ to.tasks = sess[s].tasks \ {t} /\ to.open = sess[s].open
        /\ to.maildrop = sess[s].maildrop
        /\ s \notin Eager => KnowsOK(to, client[s]) /\ DropOK(to, fate)
    BY SameDrop
  <1>2. t \in PopTask /\ t.cmd = "RETR" /\ t.ids[1] \in Ids
    BY TaskOfSession DEF SendMessage
  <1>3. t.number \in Nat /\ t.line \in Nat
    BY <1>2 DEF PopTask
  <1>4. shows \in [{t.number} -> Ids] /\ {t.number} \in SUBSET Nat
    BY <1>2, <1>3
  <1>5. shows \in Partial(Ids)
    BY <1>4, MakesPartial
  <1>6. DOMAIN shows = {t.number} /\ shows[t.number] = t.ids[1]
    OBVIOUS
  <1> HIDE DEF shows
  <1>7. r \in PopReply /\ r.shows = shows
    BY <1>3, <1>5 DEF PopReply, Reply
  <1>8. sess' = [sess EXCEPT ![s] = to] /\ fate' = fate
    BY DEF SendMessage, Ended
  <1>9. replies' = [replies EXCEPT ![s] = Put(sess[s], replies[s], r)]
    BY DEF SendMessage, Answer, Put, Reply, shows
  <1> HIDE DEF to, r
  <1>10. ASSUME NEW q \in PopRequest, HandlerOf(t, q, sess[s], replies[s], client[s], fate)
         PROVE  /\ client[s].marks = MarkIds(to.maildrop) /\ ReplyOK(r, q, to, client[s], fate)
    BY <1>1, <1>2, <1>6, <1>7, <1>10 DEF HandlerOf, RetrOK, ReplyOK
  <1> QED BY <1>1, <1>7, <1>8, <1>9, <1>10, EndHolds

LEMMA SignsOffHolds ==
  ASSUME PopInv, NEW s \in Sessions, NEW t \in sess[s].tasks, SignsOff(s, t),
         UNCHANGED <<inbox, client>>
  PROVE  PopInv'
  <1> DEFINE to == [sess[s] EXCEPT !.tasks = @ \ {t}, !.open = FALSE]
             r == Reply(TRUE, t.line, Nothing)
  <1>1. t \in PopTask /\ sess[s] \in PopSess
    BY TaskOfSession
  <1>2. /\ to \in PopSess /\ to.tasks = sess[s].tasks \ {t} /\ to.open = FALSE
        /\ to.maildrop = sess[s].maildrop /\ to.state = sess[s].state
    BY <1>1 DEF PopSess
  <1>3. r \in PopReply /\ DOMAIN r.shows = {}
    BY <1>1, EmptyPartial DEF PopReply, PopTask, Reply, Nothing
  <1>4. sess' = [sess EXCEPT ![s] = to] /\ fate' = fate
    BY <1>1 DEF SignsOff, Ended, PopSess, PopInv, ServerInv
  <1>5. replies' = [replies EXCEPT ![s] = Put(sess[s], replies[s], r)]
    BY DEF SignsOff, Answer, Put, Reply
  <1> HIDE DEF to, r
  <1>6. s \notin Eager => KnowsOK(to, client[s]) /\ DropOK(to, fate)
    BY <1>2 DEF PopInv, PatientOK, KnowsOK, DropOK
  <1>7. ASSUME NEW q \in PopRequest, HandlerOf(t, q, sess[s], replies[s], client[s], fate)
        PROVE  /\ client[s].marks = MarkIds(to.maildrop) /\ ReplyOK(r, q, to, client[s], fate)
    BY <1>2, <1>3, <1>7 DEF HandlerOf, QuitOK, ReplyOK, SignsOff
  <1> QED BY <1>2, <1>3, <1>4, <1>5, <1>6, <1>7, EndHolds

(* What a handler of s does at an await: "next" is the same handler, later. *)
LEMMA AwaitHolds ==
  ASSUME PopInv, NEW s \in Sessions, NEW t \in sess[s].tasks, NEW ids \in Partial(Ids),
         t.cmd # "RETR", Continues(s, t, ids), client' = client,
         fate' \in [Ids -> Fates], Grows(fate, fate'),
         ASSUME s \notin Eager, NEW q, NEW ss, NEW next,
               ss.maildrop = sess[s].maildrop, ss.state = sess[s].state,
                next = [t EXCEPT !.step = "second", !.ids = ids],
                HandlerOf(t, q, sess[s], replies[s], client[s], fate)
         PROVE  PassOK(next, ss, fate') /\ QuitOK(next, ss, fate')
  PROVE  PopInv'
  <1> DEFINE next == [t EXCEPT !.step = "second", !.ids = ids]
             to == [sess[s] EXCEPT !.tasks = (@ \ {t}) \cup {next}]
  <1>1. t \in PopTask /\ sess[s] \in PopSess
    BY TaskOfSession
  <1>2. next \in PopTask /\ next.cmd = t.cmd
    BY <1>1 DEF PopTask
  <1>3. /\ to \in PopSess /\ to.tasks = (sess[s].tasks \ {t}) \cup {next} /\ to.open = sess[s].open
        /\ to.maildrop = sess[s].maildrop /\ to.state = sess[s].state
    BY <1>1, <1>2 DEF PopSess
  <1>4. sess' = [sess EXCEPT ![s] = to]
    BY DEF Continues
  <1>5. /\ replies' = [replies EXCEPT ![s] = replies[s]]
        /\ client' = [client EXCEPT ![s] = client[s]]
    BY KeptOfOne DEF Continues
  <1>6. SideOK(to, replies[s], client[s])
    BY <1>2, <1>3, SidesOK DEF SideOK
  <1>7. ASSUME s \notin Eager PROVE PatientOK(to, replies[s], client[s], fate')
    <2>1. PatientOK(sess[s], replies[s], client[s], fate')
      BY <1>1, <1>7, PatientLater DEF PopInv
    <2>2. PatientOK(sess[s], replies[s], client[s], fate)
      BY <1>7 DEF PopInv
    <2>3. PICK q \in PopRequest : HandlerOf(t, q, sess[s], replies[s], client[s], fate)
      BY <2>2, IsHandler
    <2>4. PassOK(next, to, fate') /\ QuitOK(next, to, fate')
      BY <1>3, <1>7, <2>3
    <2> HIDE DEF next, to
    <2>5. to.tasks = {next} /\ replies[s] = <<>>
      BY <1>3, <2>3 DEF HandlerOf
    <2>6. RetrOK(next, to)
      BY <1>2 DEF RetrOK
    <2>7. HandlerOf(next, q, to, <<>>, client[s], fate')
      BY <1>2, <1>3, <2>3, <2>4, <2>5, <2>6 DEF HandlerOf
    <2>8. KnowsOK(to, client[s]) /\ DropOK(to, fate')
      BY <1>3, <2>1 DEF PatientOK, KnowsOK, DropOK
    <2> QED BY <1>2, <2>5, <2>7, <2>8, GoesOn
  <1> HIDE DEF next, to
  <1> QED BY <1>4, <1>5, <1>6, <1>7, OneMoves

LEMMA LoadMaildropHolds ==
  ASSUME PopInv, NEW s \in Sessions, NEW t \in sess[s].tasks, LoadMaildrop(s, t),
         UNCHANGED <<inbox, client>>
  PROVE  PopInv'
  <1> DEFINE S == {m \in Ids : m \in ToSet(inbox) /\ fate[m] = "live"}
  <1>1. PICK ids \in SetToSeqs(S) : Continues(s, t, ids)
    BY DEF LoadMaildrop
  <1>2. IsFiniteSet(S)
    BY Pop3Assumption, FS_Subset
  <1>3. Cardinality(S) \in Nat
    BY <1>2, FS_CardinalityType
  <1> HIDE DEF S
  <1>4. ids \in [1..Cardinality(S) -> S]
    BY DEF SetToSeqs
  <1>5. 1..Cardinality(S) \in SUBSET Nat
    BY <1>3
  <1>6. ids \in [1..Cardinality(S) -> Ids] /\ \A n \in DOMAIN ids : fate[ids[n]] # "unborn"
    BY <1>4 DEF S
  <1>7. ids \in Partial(Ids)
    BY <1>5, <1>6, MakesPartial
  <1>8. fate' = fate /\ Grows(fate, fate') /\ fate' \in [Ids -> Fates]
    BY KeptOfOne DEF LoadMaildrop
  <1>9. ASSUME s \notin Eager, NEW q, NEW ss, NEW next,
               ss.maildrop = sess[s].maildrop, ss.state = sess[s].state,
               next = [t EXCEPT !.step = "second", !.ids = ids],
               HandlerOf(t, q, sess[s], replies[s], client[s], fate)
        PROVE  PassOK(next, ss, fate') /\ QuitOK(next, ss, fate')
    <2>1. t \in PopTask /\ t.cmd = "PASS"
      BY TaskOfSession DEF LoadMaildrop
    <2>2. next.cmd = "PASS" /\ next.ids = ids
      BY <1>9, <2>1 DEF PopTask
    <2> QED BY <1>6, <1>8, <1>9, <2>1, <2>2 DEF HandlerOf, PassOK, QuitOK
  <1> QED BY <1>1, <1>7, <1>8, <1>9, AwaitHolds DEF LoadMaildrop

LEMMA UpdateAndDeleteHolds ==
  ASSUME PopInv, NEW s \in Sessions, NEW t \in sess[s].tasks, UpdateAndDelete(s, t),
         UNCHANGED <<inbox, client>>
  PROVE  PopInv'
  <1>1. t \in PopTask /\ sess[s] \in PopSess /\ t.ids \in Partial(Ids)
    BY TaskOfSession DEF PopTask
  <1>2. fate' = [m \in Ids |-> IF m \in ToSet(t.ids) /\ fate[m] = "live" THEN "deleted" ELSE fate[m]]
    BY DEF UpdateAndDelete, AfterUpdate
  <1>3. fate \in [Ids -> Fates]
    BY KeptOfOne
  <1>4. fate' \in [Ids -> Fates] /\ Grows(fate, fate')
    BY <1>2, <1>3 DEF Grows, Fates
  <1>5. ASSUME s \notin Eager, NEW q, NEW ss, NEW next,
               ss.maildrop = sess[s].maildrop, ss.state = sess[s].state,
               next = [t EXCEPT !.step = "second", !.ids = t.ids],
               HandlerOf(t, q, sess[s], replies[s], client[s], fate)
        PROVE  PassOK(next, ss, fate') /\ QuitOK(next, ss, fate')
    <2>1. next.cmd = "QUIT" /\ next.ids = t.ids /\ t.cmd = "QUIT"
      BY <1>1, <1>5 DEF UpdateAndDelete, PopTask
    <2>2. ToSet(t.ids) = MarkIds(sess[s].maildrop)
      BY <1>5, <2>1 DEF HandlerOf, QuitOK
    <2>3. \A m \in MarkIds(sess[s].maildrop) : m \in Ids /\ fate[m] # "unborn"
      <3>1. DropOK(sess[s], fate)
        BY <1>5 DEF PopInv, PatientOK
      <3> QED BY <1>1, <3>1, MarksAreIds DEF DropOK, MarkIds
    <2>4. AllGone(MarkIds(sess[s].maildrop), fate')
      BY <1>2, <1>3, <2>2, <2>3 DEF AllGone, Fates
    <2> QED BY <1>5, <2>1, <2>2, <2>4 DEF PassOK, QuitOK
  <1> QED BY <1>1, <1>4, <1>5, AwaitHolds DEF UpdateAndDelete

LEMMA ResumeHolds ==
  ASSUME PopInv, NEW s \in Sessions, Resume(s)
  PROVE  PopInv'
  <1>1. PICK t \in sess[s].tasks :
          \/ Fails(s, t)
          \/ LoadMaildrop(s, t) \/ LoggedIn(s, t)
          \/ SendMessage(s, t)
          \/ UpdateAndDelete(s, t) \/ SignsOff(s, t)
    BY DEF Resume
  <1>2. UNCHANGED <<inbox, client>>
    BY DEF Resume
  <1>3. CASE Fails(s, t) BY <1>2, <1>3, FailsHolds
  <1>4. CASE LoadMaildrop(s, t) BY <1>2, <1>4, LoadMaildropHolds
  <1>5. CASE LoggedIn(s, t) BY <1>2, <1>5, LoggedInHolds
  <1>6. CASE SendMessage(s, t) BY <1>2, <1>6, SendMessageHolds
  <1>7. CASE UpdateAndDelete(s, t) BY <1>2, <1>7, UpdateAndDeleteHolds
  <1>8. CASE SignsOff(s, t) BY <1>2, <1>8, SignsOffHolds
  <1> QED BY <1>1, <1>3, <1>4, <1>5, <1>6, <1>7, <1>8

-----------------------------------------------------------------------------
(* A line that arrives: the request q of the client of s.                  *)
Asks(c, q) == [c EXCEPT !.sent = q.line, !.waiting = Append(@, q)]

LEMMA AskedClient ==
  ASSUME NEW cl, NEW q \in PopRequest, DOMAIN cl = ClientFields
  PROVE  /\ DOMAIN Asks(cl, q) = ClientFields /\ Asks(cl, q).sent \in Nat
         /\ Asks(cl, q).knows = cl.knows /\ Asks(cl, q).marks = cl.marks
         /\ Asks(cl, q).done = cl.done
         /\ cl.waiting = <<>> => Asks(cl, q).waiting = <<q>>
  <1>1. q.line \in Nat
    BY DEF PopRequest
  <1> QED BY <1>1, OneLine DEF Asks, ClientFields

LEMMA IdleClient ==
  ASSUME NEW ss, NEW rs, NEW cl, NEW fates, PatientOK(ss, rs, cl, fates),
         cl.waiting = <<>>, ss.open
  PROVE  /\ ss.tasks = {} /\ rs = <<>> /\ cl.marks = MarkIds(ss.maildrop) /\ ~cl.done
         /\ KnowsOK(ss, cl) /\ DropOK(ss, fates)
  BY OneLine DEF PatientOK, TurnOK, DoneOK

(* Answered before the first await.                                        *)
LEMMA AtOnce ==
  ASSUME PopInv, NEW s \in Sessions, NEW q \in PopRequest, NEW to, NEW r \in PopReply,
         sess' = [sess EXCEPT ![s] = to],
         replies' = [replies EXCEPT ![s] = Append(@, r)],
         client' = [client EXCEPT ![s] = Asks(@, q)], fate' = fate,
         sess[s].open, s \notin Eager => client[s].waiting = <<>>,
         to \in PopSess, to.tasks = sess[s].tasks,
         ASSUME s \notin Eager, client[s].marks = MarkIds(sess[s].maildrop),
                KnowsOK(sess[s], client[s]), DropOK(sess[s], fate)
         PROVE  /\ ReplyOK(r, q, to, client[s], fate)
                /\ KnowsOK(to, client[s]) /\ DropOK(to, fate)
  PROVE  PopInv'
  <1> DEFINE cl == Asks(client[s], q)
             rs == Append(replies[s], r)
  <1>1. SideOK(sess[s], replies[s], client[s])
    BY SidesOK
  <1>2. /\ DOMAIN cl = ClientFields /\ cl.sent \in Nat
        /\ cl.knows = client[s].knows /\ cl.marks = client[s].marks /\ cl.done = client[s].done
        /\ client[s].waiting = <<>> => cl.waiting = <<q>>
    BY <1>1, AskedClient DEF SideOK
  <1>3. rs \in Seq(PopReply)
    BY <1>1 DEF SideOK
  <1>4. SideOK(to, rs, cl)
    BY <1>1, <1>2, <1>3 DEF SideOK
  <1>5. /\ client' = [client EXCEPT ![s] = cl] /\ replies' = [replies EXCEPT ![s] = rs]
        /\ Grows(fate, fate') /\ fate' \in [Ids -> Fates]
    BY KeptOfOne
  <1>6. ASSUME s \notin Eager PROVE PatientOK(to, rs, cl, fate')
    <2>1. PatientOK(sess[s], replies[s], client[s], fate)
      BY <1>6 DEF PopInv
    <2>2. /\ sess[s].tasks = {} /\ replies[s] = <<>> /\ ~client[s].done
          /\ client[s].marks = MarkIds(sess[s].maildrop)
          /\ KnowsOK(sess[s], client[s]) /\ DropOK(sess[s], fate)
      BY <1>6, <2>1, IdleClient
    <2>3. /\ ReplyOK(r, q, to, client[s], fate)
          /\ KnowsOK(to, client[s]) /\ DropOK(to, fate)
      BY <1>6, <2>2
    <2>4. rs = <<r>> /\ cl.waiting = <<q>> /\ ~cl.done
      BY <1>2, <1>6, <2>2, OneLine
    <2> HIDE DEF rs, cl
    <2>5. ReplyOK(r, q, to, cl, fate) /\ KnowsOK(to, cl)
      BY <1>2, <2>3 DEF ReplyOK, KnowsOK
    <2>6. Answered(to, rs, cl, fate, q)
      BY <2>2, <2>4, <2>5 DEF Answered
    <2>7. PatientOK(to, rs, cl, fate)
      BY <2>3, <2>4, <2>5, <2>6 DEF PatientOK, DoneOK, TurnOK
    <2> QED BY <2>7
  <1> HIDE DEF rs, cl
  <1> QED BY <1>4, <1>5, <1>6, OneMoves

(* At its first await.                                                     *)
LEMMA StartsHolds ==
  ASSUME PopInv, NEW s \in Sessions, NEW q \in PopRequest, NEW ids \in Partial(Ids),
         q.cmd \in {"PASS", "RETR", "QUIT"}, Starts(s, q.cmd, q.number, q.line, ids),
         client' = [client EXCEPT ![s] = Asks(@, q)], fate' = fate,
         sess[s].open, s \notin Eager => client[s].waiting = <<>>,
         q.cmd = "PASS" => sess[s].state = "AUTHORIZATION",
         q.cmd = "RETR" => 1 \in DOMAIN ids,
         q.cmd = "RETR" => /\ q.number \in DOMAIN sess[s].maildrop
                           /\ ids[1] = sess[s].maildrop[q.number].id,
         q.cmd = "QUIT" => ToSet(ids) = MarkIds(sess[s].maildrop)
  PROVE  PopInv'
  <1> DEFINE cl == Asks(client[s], q)
             t == [cmd |-> q.cmd, number |-> q.number, line |-> q.line, step |-> "first", ids |-> ids]
             to == [sess[s] EXCEPT !.tasks = @ \cup {t}]
  <1>1. SideOK(sess[s], replies[s], client[s])
    BY SidesOK
  <1>2. /\ DOMAIN cl = ClientFields /\ cl.sent \in Nat
        /\ cl.knows = client[s].knows /\ cl.marks = client[s].marks /\ cl.done = client[s].done
        /\ client[s].waiting = <<>> => cl.waiting = <<q>>
    BY <1>1, AskedClient DEF SideOK
  <1>3. t \in PopTask
    BY DEF PopTask, PopRequest
  <1>4. /\ to \in PopSess /\ to.tasks = sess[s].tasks \cup {t}
        /\ to.maildrop = sess[s].maildrop /\ to.state = sess[s].state
    BY <1>1, <1>3 DEF SideOK, PopSess
  <1>5. /\ sess' = [sess EXCEPT ![s] = to] /\ client' = [client EXCEPT ![s] = cl]
        /\ replies' = [replies EXCEPT ![s] = replies[s]]
        /\ Grows(fate, fate') /\ fate' \in [Ids -> Fates]
    BY KeptOfOne DEF Starts
  <1>6. t.cmd = q.cmd /\ t.number = q.number /\ t.step = "first" /\ t.ids = ids
    OBVIOUS
  <1> HIDE DEF cl, t, to
  <1>7. SideOK(to, replies[s], cl)
    BY <1>1, <1>2, <1>4, <1>6 DEF SideOK
  <1>8. ASSUME s \notin Eager PROVE PatientOK(to, replies[s], cl, fate')
    <2>1. PatientOK(sess[s], replies[s], client[s], fate)
      BY <1>8 DEF PopInv
    <2>2. /\ sess[s].tasks = {} /\ replies[s] = <<>> /\ ~client[s].done
          /\ client[s].marks = MarkIds(sess[s].maildrop)
          /\ KnowsOK(sess[s], client[s]) /\ DropOK(sess[s], fate)
      BY <1>8, <2>1, IdleClient
    <2>3. PassOK(t, to, fate) /\ RetrOK(t, to) /\ QuitOK(t, to, fate)
      BY <1>4, <1>6 DEF PassOK, RetrOK, QuitOK
    <2>4. HandlerOf(t, q, to, <<>>, cl, fate)
      BY <1>2, <1>4, <1>6, <1>8, <2>2, <2>3 DEF HandlerOf
    <2>5. KnowsOK(to, cl) /\ DropOK(to, fate)
      BY <1>2, <1>4, <2>2 DEF KnowsOK, DropOK
    <2>6. PatientOK(to, <<>>, cl, fate)
      BY <1>3, <2>4, <2>5, GoesOn
    <2> QED BY <2>2, <2>6
  <1> QED BY <1>5, <1>7, <1>8, OneMoves

(* What Send says of the client.                                           *)
Asked(s, q) ==
  /\ sess[s].open /\ (s \notin Eager => client[s].waiting = <<>>)
  /\ q.cmd = "DELE" => q.number \in DOMAIN client[s].knows
  /\ client' = [client EXCEPT ![s] = Asks(@, q)] /\ fate' = fate

LEMMA AnswerIs ==
  ASSUME NEW s, NEW ok, NEW line, NEW shows, sess[s].open, Answer(s, ok, line, shows)
  PROVE  replies' = [replies EXCEPT ![s] = Append(@, Reply(ok, line, shows))]
  BY DEF Answer, Reply

LEMMA ReplyIs ==
  ASSUME NEW ok \in BOOLEAN, NEW line \in Nat, NEW shows \in Partial(Ids)
  PROVE  /\ Reply(ok, line, shows) \in PopReply /\ Reply(ok, line, shows).ok = ok
         /\ Reply(ok, line, shows).shows = shows
  BY DEF PopReply, Reply

ShowsOf(drop, shows) ==
  \A n \in DOMAIN shows : n \in DOMAIN drop /\ shows[n] = drop[n].id

LEMMA ShowsNothing ==
  ASSUME NEW drop
  PROVE  Nothing \in Partial(Ids) /\ ShowsOf(drop, Nothing)
  BY EmptyPartial DEF Nothing, ShowsOf

(* An answer that takes no mark and gives none.                            *)
LEMMA PlainAnswer ==
  ASSUME PopInv, NEW s \in Sessions, NEW q \in PopRequest, Asked(s, q), NEW ok \in BOOLEAN,
         NEW shows \in Partial(Ids), Answer(s, ok, q.line, shows),
         NEW to \in PopSess, sess' = [sess EXCEPT ![s] = to], to.tasks = sess[s].tasks,
         to.maildrop = sess[s].maildrop, to.state = sess[s].state,
         ok => q.cmd \notin {"DELE", "RSET", "QUIT"}, ShowsOf(sess[s].maildrop, shows)
  PROVE  PopInv'
  <1> DEFINE r == Reply(ok, q.line, shows)
  <1>1. r \in PopReply /\ r.ok = ok /\ r.shows = shows
    BY ReplyIs DEF PopRequest
  <1>2. replies' = [replies EXCEPT ![s] = Append(@, r)]
    BY AnswerIs DEF Asked
  <1> HIDE DEF r
  <1>3. ASSUME s \notin Eager, client[s].marks = MarkIds(sess[s].maildrop),
               KnowsOK(sess[s], client[s]), DropOK(sess[s], fate)
        PROVE  /\ ReplyOK(r, q, to, client[s], fate)
               /\ KnowsOK(to, client[s]) /\ DropOK(to, fate)
    BY <1>1, <1>3 DEF ReplyOK, KnowsOK, DropOK, ShowsOf
  <1> QED BY <1>1, <1>2, <1>3, AtOnce DEF Asked

LEMMA RefuseHolds ==
  ASSUME PopInv, NEW s \in Sessions, NEW q \in PopRequest, Asked(s, q), Refuse(s, q.line)
  PROVE  PopInv'
  <1>1. Nothing \in Partial(Ids) /\ ShowsOf(sess[s].maildrop, Nothing)
    BY ShowsNothing
  <1>2. sess' = [sess EXCEPT ![s] = sess[s]] /\ sess[s] \in PopSess
    BY KeptOfOne DEF Refuse, PopInv, ServerInv
  <1> QED BY <1>1, <1>2, PlainAnswer DEF Refuse

LEMMA HandleAuthHolds ==
  ASSUME PopInv, NEW s \in Sessions, NEW q \in PopRequest, Asked(s, q),
         HandleAuth(s, q.cmd, q.line), sess[s].state = "AUTHORIZATION",
         q.cmd = "PASS" => q.number = 0
  PROVE  PopInv'
  <1>1. Nothing \in Partial(Ids) /\ ShowsOf(sess[s].maildrop, Nothing) /\ <<>> \in Partial(Ids)
    BY ShowsNothing, EmptyPartial
  <1>2. sess[s] \in PopSess
    BY DEF PopInv, ServerInv
  <1>3. CASE /\ q.cmd = "USER" /\ sess' = [sess EXCEPT ![s].user = TRUE]
             /\ Answer(s, TRUE, q.line, Nothing)
    <2> DEFINE to == [sess[s] EXCEPT !.user = TRUE]
    <2>1. /\ to \in PopSess /\ to.tasks = sess[s].tasks /\ to.maildrop = sess[s].maildrop
          /\ to.state = sess[s].state
      BY <1>2 DEF PopSess
    <2>2. sess' = [sess EXCEPT ![s] = to]
      BY <1>3
    <2> HIDE DEF to
    <2>3. Answer(s, TRUE, q.line, Nothing) /\ q.cmd \notin {"DELE", "RSET", "QUIT"}
      BY <1>3
    <2> QED BY <1>1, <2>1, <2>2, <2>3, PlainAnswer
  <1>4. CASE q.cmd = "PASS" /\ Starts(s, q.cmd, 0, q.line, <<>>)
    <2>1. Starts(s, q.cmd, q.number, q.line, <<>>)
      BY <1>4
    <2> QED BY <1>1, <1>4, <2>1, StartsHolds DEF Asked
  <1>5. CASE Refuse(s, q.line)
    BY <1>5, RefuseHolds
  <1> QED BY <1>3, <1>4, <1>5 DEF HandleAuth

LEMMA DeleHolds ==
  ASSUME PopInv, NEW s \in Sessions, NEW q \in PopRequest, Asked(s, q),
         q.cmd = "DELE", Listed(s, q.number),
         sess' = [sess EXCEPT ![s].maildrop[q.number].deleted = TRUE],
         Answer(s, TRUE, q.line, Nothing)
  PROVE  PopInv'
  <1> DEFINE drop == [sess[s].maildrop EXCEPT ![q.number].deleted = TRUE]
             to == [sess[s] EXCEPT !.maildrop = drop]
             r == Reply(TRUE, q.line, Nothing)
  <1>1. sess[s] \in PopSess
    BY DEF PopInv, ServerInv
  <1>2. /\ sess[s].maildrop \in [DOMAIN sess[s].maildrop -> [id : Ids, deleted : BOOLEAN]]
        /\ DOMAIN sess[s].maildrop \subseteq Nat
    BY <1>1, DropTyped
  <1>3. drop \in [DOMAIN sess[s].maildrop -> [id : Ids, deleted : BOOLEAN]]
    BY <1>2
  <1>4. drop \in Partial([id : Ids, deleted : BOOLEAN])
    BY <1>2, <1>3, MakesPartial
  <1>5. /\ DOMAIN drop = DOMAIN sess[s].maildrop
        /\ \A n \in DOMAIN drop : /\ drop[n].id = sess[s].maildrop[n].id
                                  /\ drop[n].deleted <=> sess[s].maildrop[n].deleted \/ n = q.number
    BY <1>2
  <1> HIDE DEF drop
  <1>6. /\ to \in PopSess /\ to.tasks = sess[s].tasks /\ to.maildrop = drop
        /\ to.state = sess[s].state
    BY <1>1, <1>4 DEF PopSess
  <1>7. MarkIds(drop) = MarkIds(sess[s].maildrop) \cup {sess[s].maildrop[q.number].id}
    BY <1>5 DEF MarkIds, Listed
  <1>8. Nothing \in Partial(Ids) /\ DOMAIN Nothing = {}
    BY EmptyPartial DEF Nothing
  <1>9. r \in PopReply /\ r.ok = TRUE /\ r.shows = Nothing
    BY <1>8, ReplyIs DEF PopRequest
  <1>10. replies' = [replies EXCEPT ![s] = Append(@, r)]
    BY DEF Asked, Answer, Reply
  <1>11. sess' = [sess EXCEPT ![s] = to]
    BY DEF drop
  <1> HIDE DEF to, r
  <1>12. ASSUME s \notin Eager, client[s].marks = MarkIds(sess[s].maildrop),
                KnowsOK(sess[s], client[s]), DropOK(sess[s], fate)
         PROVE  /\ ReplyOK(r, q, to, client[s], fate)
                /\ KnowsOK(to, client[s]) /\ DropOK(to, fate)
    <2>1. /\ q.number \in DOMAIN client[s].knows
          /\ client[s].knows[q.number] = sess[s].maildrop[q.number].id
      BY <1>12 DEF Asked, KnowsOK
    <2>2. KnowsOK(to, client[s]) /\ DropOK(to, fate)
      BY <1>5, <1>6, <1>12 DEF KnowsOK, DropOK
    <2> QED BY <1>6, <1>7, <1>8, <1>9, <1>12, <2>1, <2>2 DEF ReplyOK
  <1> QED BY <1>6, <1>9, <1>10, <1>11, <1>12, AtOnce DEF Asked

LEMMA RsetHolds ==
  ASSUME PopInv, NEW s \in Sessions, NEW q \in PopRequest, Asked(s, q), q.cmd = "RSET",
         sess' = [sess EXCEPT ![s].maildrop = [n \in DOMAIN @ |-> AfterRset(@[n])]],
         Answer(s, TRUE, q.line, Nothing)
  PROVE  PopInv'
  <1> DEFINE drop == [n \in DOMAIN sess[s].maildrop |-> AfterRset(sess[s].maildrop[n])]
             to == [sess[s] EXCEPT !.maildrop = drop]
             r == Reply(TRUE, q.line, Nothing)
  <1>1. sess[s] \in PopSess
    BY DEF PopInv, ServerInv
  <1>2. /\ sess[s].maildrop \in [DOMAIN sess[s].maildrop -> [id : Ids, deleted : BOOLEAN]]
        /\ DOMAIN sess[s].maildrop \subseteq Nat
    BY <1>1, DropTyped
  <1>3. drop \in [DOMAIN sess[s].maildrop -> [id : Ids, deleted : BOOLEAN]]
    BY <1>2 DEF AfterRset
  <1>4. drop \in Partial([id : Ids, deleted : BOOLEAN])
    BY <1>2, <1>3, MakesPartial
  <1>5. /\ DOMAIN drop = DOMAIN sess[s].maildrop
        /\ \A n \in DOMAIN drop : /\ drop[n].id = sess[s].maildrop[n].id
                                  /\ drop[n].deleted = FALSE
    BY <1>2 DEF AfterRset
  <1> HIDE DEF drop
  <1>6. /\ to \in PopSess /\ to.tasks = sess[s].tasks /\ to.maildrop = drop
        /\ to.state = sess[s].state
    BY <1>1, <1>4 DEF PopSess
  <1>7. MarkIds(drop) = {}
    BY <1>5 DEF MarkIds
  <1>8. Nothing \in Partial(Ids) /\ DOMAIN Nothing = {}
    BY EmptyPartial DEF Nothing
  <1>9. r \in PopReply /\ r.ok = TRUE /\ r.shows = Nothing
    BY <1>8, ReplyIs DEF PopRequest
  <1>10. replies' = [replies EXCEPT ![s] = Append(@, r)]
    BY DEF Asked, Answer, Reply
  <1>11. sess' = [sess EXCEPT ![s] = to]
    BY DEF drop
  <1> HIDE DEF to, r
  <1>12. ASSUME s \notin Eager, client[s].marks = MarkIds(sess[s].maildrop),
                KnowsOK(sess[s], client[s]), DropOK(sess[s], fate)
         PROVE  /\ ReplyOK(r, q, to, client[s], fate)
                /\ KnowsOK(to, client[s]) /\ DropOK(to, fate)
    BY <1>5, <1>6, <1>7, <1>8, <1>9, <1>12 DEF KnowsOK, DropOK, ReplyOK
  <1> QED BY <1>6, <1>9, <1>10, <1>11, <1>12, AtOnce DEF Asked

LEMMA UidlTyped ==
  ASSUME PopInv, NEW s \in Sessions
  PROVE  /\ Uidl(s) \in Partial(Ids)
         /\ \A n \in DOMAIN Uidl(s) :
              n \in DOMAIN sess[s].maildrop /\ Uidl(s)[n] = sess[s].maildrop[n].id
  <1>1. sess[s] \in PopSess
    BY DEF PopInv, ServerInv
  <1>2. /\ sess[s].maildrop \in [DOMAIN sess[s].maildrop -> [id : Ids, deleted : BOOLEAN]]
        /\ DOMAIN sess[s].maildrop \subseteq Nat
    BY <1>1, DropTyped
  <1> DEFINE D == {m \in DOMAIN sess[s].maildrop : Listed(s, m)}
  <1>3. Uidl(s) = [n \in D |-> sess[s].maildrop[n].id]
    BY DEF Uidl
  <1>4. D \in SUBSET Nat /\ D \subseteq DOMAIN sess[s].maildrop
    BY <1>2
  <1> HIDE DEF D
  <1>5. Uidl(s) \in [D -> Ids]
    BY <1>2, <1>3, <1>4
  <1> QED BY <1>3, <1>4, <1>5, MakesPartial

LEMMA MarkedTyped ==
  ASSUME PopInv, NEW s \in Sessions
  PROVE  Marked(s) \in Partial(Ids) /\ ToSet(Marked(s)) = MarkIds(sess[s].maildrop)
  <1>1. sess[s] \in PopSess
    BY DEF PopInv, ServerInv
  <1>2. /\ sess[s].maildrop \in [DOMAIN sess[s].maildrop -> [id : Ids, deleted : BOOLEAN]]
        /\ DOMAIN sess[s].maildrop \subseteq Nat
    BY <1>1, DropTyped
  <1> DEFINE D == {m \in DOMAIN sess[s].maildrop : sess[s].maildrop[m].deleted}
  <1>3. Marked(s) = [n \in D |-> sess[s].maildrop[n].id]
    BY DEF Marked
  <1>4. MarkIds(sess[s].maildrop) = {sess[s].maildrop[n].id : n \in D}
    BY DEF MarkIds
  <1>5. D \in SUBSET Nat /\ D \subseteq DOMAIN sess[s].maildrop
    BY <1>2
  <1> HIDE DEF D
  <1>6. Marked(s) \in [D -> Ids]
    BY <1>2, <1>3, <1>5
  <1> QED BY <1>3, <1>4, <1>5, <1>6, MakesPartial DEF ToSet

LEMMA HandleTransactionHolds ==
  ASSUME PopInv, NEW s \in Sessions, NEW q \in PopRequest, Asked(s, q),
         HandleTransaction(s, q.cmd, q.number, q.line)
  PROVE  PopInv'
  <1>1. Nothing \in Partial(Ids) /\ ShowsOf(sess[s].maildrop, Nothing)
    BY ShowsNothing
  <1>2. sess[s] \in PopSess /\ sess = [sess EXCEPT ![s] = sess[s]]
    BY KeptOfOne DEF PopInv, ServerInv
  <1>3. CASE q.cmd = "UIDL" /\ Answer(s, TRUE, q.line, Uidl(s)) /\ UNCHANGED sess
    <2>1. sess' = [sess EXCEPT ![s] = sess[s]]
      BY <1>2, <1>3
    <2> DEFINE shows == Uidl(s)
    <2>2. shows \in Partial(Ids) /\ ShowsOf(sess[s].maildrop, shows)
      BY UidlTyped DEF ShowsOf
    <2>3. Answer(s, TRUE, q.line, shows)
      BY <1>3
    <2>4. q.cmd \notin {"DELE", "RSET", "QUIT"}
      BY <1>3
    <2> HIDE DEF shows
    <2> QED BY <1>2, <2>1, <2>2, <2>3, <2>4, PlainAnswer
  <1>4. CASE q.cmd = "NOOP" /\ Answer(s, TRUE, q.line, Nothing) /\ UNCHANGED sess
    <2>1. sess' = [sess EXCEPT ![s] = sess[s]]
      BY <1>2, <1>4
    <2> QED BY <1>1, <1>2, <1>4, <2>1, PlainAnswer
  <1>5. CASE /\ q.cmd = "RETR" /\ Listed(s, q.number)
             /\ Starts(s, q.cmd, q.number, q.line, <<sess[s].maildrop[q.number].id>>)
    <2> DEFINE ids == <<sess[s].maildrop[q.number].id>>
    <2>1. sess[s].maildrop[q.number].id \in Ids /\ q.number \in DOMAIN sess[s].maildrop
      BY <1>2, <1>5, DropTyped DEF Listed
    <2>2. ids \in Partial(Ids) /\ 1 \in DOMAIN ids /\ ids[1] = sess[s].maildrop[q.number].id
      BY <2>1, SinglePartial
    <2> HIDE DEF ids
    <2>3. Starts(s, q.cmd, q.number, q.line, ids)
      BY <1>5 DEF ids
    <2> QED BY <1>5, <2>1, <2>2, <2>3, StartsHolds DEF Asked
  <1>6. CASE /\ q.cmd = "DELE" /\ Listed(s, q.number)
             /\ sess' = [sess EXCEPT ![s].maildrop[q.number].deleted = TRUE]
             /\ Answer(s, TRUE, q.line, Nothing)
    BY <1>6, DeleHolds
  <1>7. CASE Refuse(s, q.line)
    BY <1>7, RefuseHolds
  <1>8. CASE /\ q.cmd = "RSET"
             /\ sess' = [sess EXCEPT ![s].maildrop = [n \in DOMAIN @ |-> AfterRset(@[n])]]
             /\ Answer(s, TRUE, q.line, Nothing)
    BY <1>8, RsetHolds
  <1> QED BY <1>3, <1>4, <1>5, <1>6, <1>7, <1>8 DEF HandleTransaction

LEMMA HandleQuitHolds ==
  ASSUME PopInv, NEW s \in Sessions, NEW q \in PopRequest, Asked(s, q),
         q.cmd = "QUIT", q.number = 0, HandleQuit(s, q.line)
  PROVE  PopInv'
  <1>1. CASE Starts(s, "QUIT", 0, q.line, Marked(s))
    <2>1. Starts(s, q.cmd, q.number, q.line, Marked(s))
      BY <1>1
    <2> QED BY <2>1, MarkedTyped, StartsHolds DEF Asked
  <1>2. CASE /\ sess[s].state = "AUTHORIZATION"
             /\ Answer(s, TRUE, q.line, Nothing)
             /\ sess' = [sess EXCEPT ![s].open = FALSE]
    <2> DEFINE to == [sess[s] EXCEPT !.open = FALSE]
               r == Reply(TRUE, q.line, Nothing)
    <2>1. /\ to \in PopSess /\ to.tasks = sess[s].tasks /\ to.maildrop = sess[s].maildrop
          /\ to.state = sess[s].state /\ to.open = FALSE
      BY DEF PopInv, ServerInv, PopSess
    <2>2. Nothing \in Partial(Ids) /\ DOMAIN Nothing = {}
      BY EmptyPartial DEF Nothing
    <2>3. r \in PopReply /\ r.ok = TRUE /\ r.shows = Nothing
      BY <2>2, ReplyIs DEF PopRequest
    <2>4. replies' = [replies EXCEPT ![s] = Append(@, r)]
      BY <1>2 DEF Asked, Answer, Reply
    <2>5. sess' = [sess EXCEPT ![s] = to]
      BY <1>2
    <2> HIDE DEF to, r
    <2>6. ASSUME s \notin Eager, client[s].marks = MarkIds(sess[s].maildrop),
                 KnowsOK(sess[s], client[s]), DropOK(sess[s], fate)
          PROVE  /\ ReplyOK(r, q, to, client[s], fate)
                 /\ KnowsOK(to, client[s]) /\ DropOK(to, fate)
      <3>1. MarkIds(to.maildrop) = {}
        BY <1>2, <2>1, <2>6, NoMarks DEF DropOK
      <3> QED BY <2>1, <2>2, <2>3, <2>6, <3>1 DEF ReplyOK, KnowsOK, DropOK, AllGone
    <2> QED BY <2>1, <2>3, <2>4, <2>5, <2>6, AtOnce DEF Asked
  <1> QED BY <1>1, <1>2 DEF HandleQuit

LEMMA SendHolds ==
  ASSUME PopInv, NEW s \in Sessions, Send(s)
  PROVE  PopInv'
  <1>1. PICK cmd \in Commands, number \in Number :
          /\ sess[s].open
          /\ client[s].waiting = <<>> \/ s \in Eager
          /\ (number = 0) <=> cmd \notin {"RETR", "DELE"}
          /\ cmd = "DELE" => number \in DOMAIN client[s].knows
          /\ LET line == client[s].sent + 1 IN
               /\ client' = [client EXCEPT ![s].sent = line,
                    ![s].waiting = Append(@, [cmd |-> cmd, number |-> number, line |-> line])]
               /\ HandleCommand(s, cmd, number, line)
          /\ UNCHANGED <<inbox, fate>>
    BY DEF Send
  <1> DEFINE line == client[s].sent + 1
             q == [cmd |-> cmd, number |-> number, line |-> line]
  <1>2. client[s].sent \in Nat /\ DOMAIN client[s] = ClientFields
    BY DEF PopInv, ServerInv
  <1>3. number \in Nat
    BY Pop3Assumption, FS_CardinalityType DEF Number
  <1>4. q \in PopRequest /\ q.cmd = cmd /\ q.number = number /\ q.line = line
    BY <1>2, <1>3 DEF PopRequest
  <1>5. client' = [client EXCEPT ![s] = Asks(@, q)]
    BY <1>1, <1>2 DEF Asks, ClientFields, PopInv, ServerInv
  <1>6. HandleCommand(s, q.cmd, q.number, q.line)
    BY <1>1
  <1>7. /\ q.cmd \in {"PASS", "QUIT"} => q.number = 0
        /\ q.cmd = "DELE" => q.number \in DOMAIN client[s].knows
    BY <1>1
  <1> HIDE DEF q, line
  <1>8. Asked(s, q)
    BY <1>1, <1>5, <1>7 DEF Asked
  <1>9. CASE q.cmd = "QUIT" /\ HandleQuit(s, q.line)
    BY <1>4, <1>7, <1>8, <1>9, HandleQuitHolds
  <1>10. CASE sess[s].state = "AUTHORIZATION" /\ HandleAuth(s, q.cmd, q.line)
    BY <1>4, <1>7, <1>8, <1>10, HandleAuthHolds
  <1>11. CASE HandleTransaction(s, q.cmd, q.number, q.line)
    BY <1>4, <1>8, <1>11, HandleTransactionHolds
  <1> QED BY <1>6, <1>9, <1>10, <1>11 DEF HandleCommand

-----------------------------------------------------------------------------
LEMMA PopStep == PopInv /\ [Next]_vars => PopInv'
  <1> SUFFICES ASSUME PopInv, [Next]_vars PROVE PopInv'
    OBVIOUS
  <1>1. ASSUME NEW s \in Sessions, Send(s) PROVE PopInv'
    BY <1>1, SendHolds
  <1>2. ASSUME NEW s \in Sessions, Resume(s) PROVE PopInv'
    BY <1>2, ResumeHolds
  <1>3. ASSUME NEW s \in Sessions, ReadReply(s) PROVE PopInv'
    BY <1>3, ReadReplyHolds
  <1>4. ASSUME NEW s \in Sessions, Hangup(s) PROVE PopInv'
    BY <1>4, HangupHolds
  <1>5. CASE Others
    BY <1>5, OthersHold
  <1>6. CASE UNCHANGED vars
    BY <1>6 DEF vars, PopInv, ServerInv
  <1> QED BY <1>1, <1>2, <1>3, <1>4, <1>5, <1>6 DEF Next

LEMMA PopAlways == Spec => []PopInv
  <1> QED BY PopInitially, PopStep, PTL DEF Spec

(* What a reply to a client that waits its turn shows under a number is    *)
(* what UIDL or RETR showed it under that number before: nothing another   *)
(* server or another session does to the INBOX renumbers the maildrop.     *)
THEOREM NumbersNeverChange == Spec => []SameNumberSameMessage
  <1>1. PopInv => SameNumberSameMessage
    <2> SUFFICES ASSUME PopInv, NEW s \in Sessions \ Eager, NEW k \in DOMAIN replies[s],
                        NEW n \in DOMAIN replies[s][k].shows \cap DOMAIN client[s].knows
                 PROVE  replies[s][k].shows[n] = client[s].knows[n]
      BY DEF SameNumberSameMessage
    <2>1. PatientOK(sess[s], replies[s], client[s], fate)
      BY DEF PopInv
    <2>2. replies[s] # <<>>
      OBVIOUS
    <2>3. PICK q \in PopRequest : Answered(sess[s], replies[s], client[s], fate, q)
      BY <2>1, <2>2 DEF PatientOK, TurnOK, Working, Lost
    <2>4. PICK r \in PopReply : replies[s] = <<r>> /\ ReplyOK(r, q, sess[s], client[s], fate)
      BY <2>3 DEF Answered
    <2>5. replies[s][k] = r
      BY <2>4, OneLine
    <2>6. r.shows[n] = sess[s].maildrop[n].id
      BY <2>4, <2>5 DEF ReplyOK
    <2>7. client[s].knows[n] = sess[s].maildrop[n].id
      BY <2>1 DEF PatientOK, KnowsOK
    <2> QED BY <2>5, <2>6, <2>7
  <1> QED BY <1>1, PopAlways, PTL

(* QUIT answered +OK has deleted every message its client had marked, in   *)
(* whatever folder the others had put it (UpdateAndDelete goes by id).     *)
THEOREM QuitAlwaysDeletes == Spec => []QuitDeletes
  <1>1. PopInv => QuitDeletes
    <2> SUFFICES ASSUME PopInv, NEW s \in Sessions \ Eager, client[s].done
                 PROVE  \A m \in client[s].marks : fate[m] \in {"deleted", "destroyed"}
      BY DEF QuitDeletes
    <2>1. PatientOK(sess[s], replies[s], client[s], fate)
      BY DEF PopInv
    <2>2. client[s].waiting = <<>> /\ AllGone(MarkIds(sess[s].maildrop), fate)
      BY <2>1 DEF PatientOK, DoneOK
    <2>3. client[s].marks = MarkIds(sess[s].maildrop)
      BY <2>1, <2>2, OneLine DEF PatientOK, TurnOK
    <2> QED BY <2>2, <2>3 DEF AllGone
  <1> QED BY <1>1, PopAlways, PTL

(* And no QUIT deletes a message its client had no mark on when it asked.  *)
THEOREM OnlyMarksAreDeleted == Spec => DeletesOnlyMarks
  <1> DEFINE Takes == \A s \in Sessions \ Eager : \A t \in sess[s].tasks :
               UpdateAndDelete(s, t) => \A m \in Ids : fate'[m] # fate[m] => m \in client[s].marks
  <1>1. PopInv => Takes
    <2> SUFFICES ASSUME PopInv, NEW s \in Sessions \ Eager, NEW t \in sess[s].tasks,
                        UpdateAndDelete(s, t), NEW m \in Ids, fate'[m] # fate[m]
                 PROVE  m \in client[s].marks
      OBVIOUS
    <2>1. PatientOK(sess[s], replies[s], client[s], fate)
      BY DEF PopInv
    <2>2. PICK q \in PopRequest : HandlerOf(t, q, sess[s], replies[s], client[s], fate)
      BY <2>1, IsHandler
    <2>3. ToSet(t.ids) = client[s].marks
      BY <2>2 DEF HandlerOf, QuitOK, UpdateAndDelete
    <2>4. fate' = [n \in Ids |-> IF n \in ToSet(t.ids) /\ fate[n] = "live" THEN "deleted" ELSE fate[n]]
      BY DEF UpdateAndDelete, AfterUpdate
    <2> QED BY <2>3, <2>4
  <1> HIDE DEF Takes
  <1>2. PopInv /\ [Next]_vars => [Takes]_vars
    BY <1>1
  <1>3. Spec => [][Takes]_vars
    BY <1>2, PopAlways, PTL DEF Spec
  <1> QED BY <1>3 DEF DeletesOnlyMarks, Takes

(* What a POP3 client's QUIT deletes is what it has marked, no less and no *)
(* more, for any number of sessions on the INBOX beside it.                *)
THEOREM QuitAlwaysDoesAsMarked == Spec => QuitDoesAsMarked
  BY QuitAlwaysDeletes, OnlyMarksAreDeleted, PTL DEF QuitDoesAsMarked

-----------------------------------------------------------------------------
(* WebMail.  The invariant says of each request in work what it still owes *)
(* to the messages that it names: where it will leave them, and with which *)
(* flags, is what the requests so far say, unless another may write the    *)
(* same field meanwhile.  Whether "undo" is true follows from which lists  *)
(* are, and whether the blocklist is from the work behind the requests.    *)

(* A request that is in work. *)
Busy(t) == t.at \notin {"idle", "answered"}
Whole == {"empty", "rmdir", "rmdirIfEmpty"}
Rmdirs == {"rmdir", "rmdirIfEmpty"}
OfFlags == {"mark", "patch", "open", "reply"}

Single == {"open", "reply", "file", "trash", "erase"}

CastInv == wmCast \in WmCasts
OwnInv == ~wmOwn => \A m \in WmIds : wmRow[m].at # "Own"

(* What the steps of a request look like.                                  *)
ShapeOK(t) ==
  /\ t.at = "aimed" => t.do \in {"move", "file", "rmdirIfEmpty"}
  /\ t.at = "rest" => t.do = "delete"
  /\ t.at = "count" => t.do \in {"open", "empty"}
  /\ t.do \in Whole => t.ids = {}
  /\ t.do \in Rmdirs => t.to = "Own"
  /\ t.at # "idle" /\ t.do \in Single => \E m \in WmIds : t.ids = {m}
  /\ \A m \in WmIds : t.read[m].at # "none" => m \in t.ids /\ t.read[m].at # "gone"
ShapeInv == \A s \in WmSlots : ShapeOK(wmTask[s])

(* Only messages that came are in lists, toasts and requests.              *)
CameOK(m) ==
  /\ wmRow[m].at = "none" => wmRow[m].flags = {} /\ wmSaid[m] = WmNoMail
  /\ wmSaid[m].at = "none" => wmRow[m].at = "none"
  /\ wmRow[m].at = "none" =>
       /\ wmShown[m] = "none" /\ wmHeld[m] = {} /\ m \notin wmGot /\ m \notin wmToast.ids
       /\ \A s \in WmSlots : m \notin wmTask[s].ids
       /\ \A k \in WmWorks : m \notin wmWork[k].ids
  /\ wmMail[m] # "no" => wmRow[m].at = "none"
CameInv == \A m \in WmIds : CameOK(m)

BinOK(m) ==
  /\ wmRow[m].at \in WmBins \cup {"gone"} => m \in wmBinned
  /\ \A s \in WmSlots :
       /\ wmTask[s].read[m].at \in WmBins => m \in wmBinned
       /\ wmTask[s].do = "erase" /\ m \in wmTask[s].ids => m \in wmBinned
BinInv == \A m \in WmIds : BinOK(m)

JunkInv ==
  /\ \A k \in WmWorks : wmWork[k].at \in {"exists", "create"} => wmWork[k].do = "spam"
  /\ \A k \in WmWorks : wmWork[k].at = "remove" => wmWork[k].do = "notSpam"
  /\ ~wmMuddled =>
       /\ \A j, k \in WmWorks : wmWork[j].at # "idle" /\ wmWork[k].at # "idle" => j = k
       /\ \A k \in WmWorks : wmWork[k].at # "idle" => wmWork[k].do = wmVerdict
       /\ (\A k \in WmWorks : wmWork[k].at = "idle") => wmBlocked = (wmVerdict = "spam")

(* A request that has changed rows and was not told to the client's lists. *)
Wrote(t) ==
  \/ t.at \in {"rest", "count"} /\ t.do # "open"
  \/ t.at = "answered" /\ t.ok /\ t.do \notin OfFlags
Silent == \A s \in WmSlots : ~Wrote(wmTask[s])

ListInv ==
  /\ Silent => \A f \in wmCast.views :
       f \notin wmDirty /\ f \notin wmOld /\ (f = wmView => wmFetch = "no") =>
         \A m \in WmIds : wmShown[m] = f => wmRow[m].at = f
  /\ Silent /\ wmFetch = "read" /\ wmView \notin wmDirty => wmGot \subseteq WmIn(wmView)
  /\ wmFetch # "read" => wmGot = {}
  /\ wmFetch # "sent" => wmView \notin wmOld

-----------------------------------------------------------------------------
Mover(m, s) == Busy(wmTask[s]) /\ m \in WmMoves(wmTask[s])
Marker(m, s) == Busy(wmTask[s]) /\ m \in WmMarks(wmTask[s])
Opener(m, s) == Busy(wmTask[s]) /\ m \in WmOpens(wmTask[s])
(* It has not written Seen yet, but will.                                  *)
Opening(m, s) == Opener(m, s) /\ wmTask[s].at \in {"sent", "found"}

(* A request that moves it, but not out of the Trash.                      *)
SparesOK(t, m) ==
  \/ t.do \in {"archive", "move"}
  \/ /\ t.do = "delete"
     /\ t.at = "sent" => wmRow[m].at # "Trash"
     /\ t.at # "sent" => t.read[m].at # "Trash"

FreshOK(m) ==
  wmToast.fresh /\ ~(wmToast.of = "delete" /\ wmToast.to = "Trash") /\ m \in wmToast.ids =>
    /\ wmRow[m].at # "gone"
    /\ \A s, q \in WmSlots : Mover(m, s) /\ Mover(m, q) => s = q
    /\ \A s \in WmSlots : Mover(m, s) => SparesOK(wmTask[s], m)
FreshInv == \A m \in WmIds : FreshOK(m)

(* Where a request that is in work leaves a message in the end.            *)
Means(t, at) ==
  IF at = "gone" \/ t.do = "rmdirIfEmpty" THEN at
  ELSE IF t.do \in {"empty", "rmdir"} /\ at # t.to THEN at
  ELSE WmMeans(t, at)

OwedOK(t, m) ==
  /\ t.at \in {"sent", "found", "aimed"} => wmSaid[m].at = Means(t, wmRow[m].at)
  /\ t.at = "rest" =>
       wmSaid[m].at = IF t.read[m].at = "Trash" THEN wmRow[m].at ELSE Means(t, wmRow[m].at)
  /\ t.at = "count" => wmSaid[m].at = wmRow[m].at
  /\ t.at # "sent" /\ m \in t.ids /\ ~(t.at = "rest" /\ t.read[m].at = "Trash") =>
       t.read[m].at = IF WmPresent(m) THEN wmRow[m].at ELSE "none"
  /\ t.at = "aimed" /\ t.do = "rmdirIfEmpty" => wmRow[m].at # "Own"

AtOK(m) ==
  <<m, "at">> \notin wmMixed =>
    /\ \A s, q \in WmSlots : Mover(m, s) /\ Mover(m, q) => s = q
    /\ (\A s \in WmSlots : ~Mover(m, s)) => wmRow[m].at = wmSaid[m].at
    /\ \A s \in WmSlots : Mover(m, s) => OwedOK(wmTask[s], m)
AtInv == \A m \in WmIds : AtOK(m)

MarkOK(t, m, f) ==
  /\ (f \in wmSaid[m].flags) = (f \in WmWritten(t, wmRow[m].flags))
  /\ t.at # "sent" => t.read[m].at # "none" /\ (f \in t.read[m].flags) = (f \in wmRow[m].flags)
OpenOK(t, m) ==
  /\ "Seen" \in wmSaid[m].flags
  /\ t.at = "found" /\ "Seen" \in t.read[m].flags => "Seen" \in wmRow[m].flags

FlagOK(m, f) ==
  <<m, f>> \notin wmMixed /\ wmRow[m].at # "gone" =>
    /\ \A s, q \in WmSlots : Marker(m, s) /\ Marker(m, q) => s = q
    /\ f = "Seen" => \A s, q \in WmSlots : ~(Marker(m, s) /\ Opener(m, q))
    /\ (\A s \in WmSlots : ~Marker(m, s) /\ ~(f = "Seen" /\ Opening(m, s))) =>
         (f \in wmRow[m].flags) = (f \in wmSaid[m].flags)
    /\ \A s \in WmSlots : Marker(m, s) => MarkOK(wmTask[s], m, f)
    /\ \A s \in WmSlots : f = "Seen" /\ Opening(m, s) => OpenOK(wmTask[s], m)
FlagInv == \A m \in WmIds : \A f \in WmFlags : FlagOK(m, f)

WebInv ==
  /\ CastInv /\ WmTypeOK /\ OwnInv /\ ShapeInv /\ CameInv /\ BinInv /\ JunkInv
  /\ ListInv /\ FreshInv /\ AtInv /\ FlagInv
-----------------------------------------------------------------------------
WmAts == {"idle", "sent", "found", "aimed", "rest", "count", "answered"}
WmTaskType ==
  [do : WmDoes, ids : SUBSET WmIds, to : WmFolders, flag : WmFlags, on : BOOLEAN,
   list : SUBSET WmFlags, ok : BOOLEAN, read : [WmIds -> WmRowType], at : WmAts]
WmToastType == [ids : SUBSET WmIds, of : WmDoes, to : WmFolders, fresh : BOOLEAN]
WmWorkType ==
  [do : {"spam", "notSpam"}, ids : SUBSET WmIds,
   at : {"idle", "senders", "exists", "create", "remove"}]

LEMMA WmTypeIs ==
  WmTypeOK =
    (/\ wmRow \in [WmIds -> WmRowType] /\ wmSaid \in [WmIds -> WmRowType]
     /\ {wmOwn, wmBlocked, wmMuddled} \subseteq BOOLEAN
     /\ wmTask \in [WmSlots -> WmTaskType]
     /\ wmWork \in [WmWorks -> WmWorkType]
     /\ wmMail \in [WmIds -> {"no", "INBOX", "Junk"}]
     /\ wmShown \in [WmIds -> WmFolders \cup {"none"}]
     /\ wmHeld \in [WmIds -> SUBSET (SUBSET WmFlags)]
     /\ wmView \in wmCast.views /\ wmFetch \in {"no", "sent", "read"}
     /\ wmGot \subseteq WmIds /\ wmOld \subseteq wmCast.views /\ wmDirty \subseteq wmCast.views
     /\ wmToast \in WmToastType
     /\ wmMixed \subseteq WmIds \X (WmFlags \cup {"at"}) /\ wmBinned \subseteq WmIds
     /\ wmVerdict \in {"none", "spam", "notSpam"})
BY DEF WmTypeOK, WmTaskType, WmAts, WmToastType, WmWorkType

(* What a request is, and a row.                                           *)
LEMMA WmTaskIs ==
  ASSUME NEW t \in WmTaskType
  PROVE  /\ t.do \in WmDoes /\ t.ids \subseteq WmIds /\ t.to \in WmFolders /\ t.flag \in WmFlags
         /\ t.on \in BOOLEAN /\ t.ok \in BOOLEAN /\ t.list \subseteq WmFlags
         /\ t.read \in [WmIds -> WmRowType]
         /\ t.at \in WmAts
         /\ \A m \in WmIds : t.read[m] \in WmRowType
BY DEF WmTaskType

LEMMA WmRowIs ==
  ASSUME NEW row \in WmRowType
  PROVE  row.at \in WmFolders \cup {"none", "gone"} /\ row.flags \subseteq WmFlags
BY DEF WmRowType

LEMMA WmTasksAre ==
  ASSUME WmTypeOK, NEW s \in WmSlots
  PROVE  wmTask[s] \in WmTaskType
BY WmTypeIs

LEMMA WmRowsAre ==
  ASSUME WmTypeOK, NEW m \in WmIds
  PROVE  wmRow[m] \in WmRowType /\ wmSaid[m] \in WmRowType
BY WmTypeIs

LEMMA WmNoTaskIs ==
  /\ WmNoMail \in WmRowType /\ WmNoMail.at = "none" /\ WmNoMail.flags = {}
  /\ WmNoTask \in WmTaskType /\ WmNoTask.at = "idle" /\ WmNoTask.ids = {}
  /\ WmNoTask.do = "mark" /\ WmNoTask.flag = "Seen" /\ WmNoTask.on
  /\ \A m \in WmIds : WmNoTask.read[m] = WmNoMail
<1>1. WmNoMail \in WmRowType /\ WmNoMail.at = "none" /\ WmNoMail.flags = {}
  BY DEF WmNoMail, WmRowType
<1>2. WmNoTask \in WmTaskType
  BY <1>1 DEF WmNoTask, WmTaskType, WmDoes, WmFolders, WmFlags, WmAts
<1>3. QED
  BY <1>1, <1>2 DEF WmNoTask

-----------------------------------------------------------------------------
(* A step of the gateway for one request, with what every such step keeps. *)
ServeStep(s, n) ==
  /\ Busy(wmTask[s]) /\ n \in WmTaskType /\ n.at # "idle" /\ n.at # "sent"
  /\ n.do = wmTask[s].do /\ n.ids = wmTask[s].ids /\ n.to = wmTask[s].to
  /\ n.flag = wmTask[s].flag /\ n.on = wmTask[s].on /\ n.list = wmTask[s].list
  /\ wmTask' = [wmTask EXCEPT ![s] = n]
  /\ ShapeOK(n)
  /\ \A m \in WmIds : n.read[m].at \in {"none", wmTask[s].read[m].at, wmRow[m].at}
  /\ \/ Wrote(n)
     \/ ~Wrote(wmTask[s]) /\ \A m \in WmIds : wmRow'[m].at = wmRow[m].at
  /\ UNCHANGED <<wmCast, wmMail, wmClient, wmHistory, wmDirty, wmCount>>

(* What it does to the rows: it makes none, and lets no folder but its own *)
(* messages' change.                                                       *)
RowsStep(t) ==
  /\ wmRow' \in [WmIds -> WmRowType]
  /\ wmOwn' \in BOOLEAN /\ OwnInv'
  /\ wmOwn' # wmOwn => WmMoves(t) = WmIds
  /\ wmBinned' \subseteq WmIds /\ wmBinned \subseteq wmBinned'
  /\ \A m \in WmIds :
       /\ wmRow'[m] # wmRow[m] => WmPresent(m) /\ wmRow'[m].at # "none"
       /\ wmRow'[m].at # wmRow[m].at => m \in WmMoves(t)
       /\ wmRow'[m].at \in WmBins => m \in wmBinned'
       /\ wmRow'[m].at = "gone" => m \in wmBinned

(* And what it owes to the messages that it moves.                         *)
MovesStep(t, n) ==
  \A m \in WmMoves(t) :
    /\ OwedOK(t, m) =>
         IF Busy(n) THEN OwedOK(n, m)' ELSE wmRow'[m].at = wmSaid[m].at
    /\ wmRow[m].at # "gone" /\ SparesOK(t, m) =>
         wmRow'[m].at # "gone" /\ (Busy(n) => SparesOK(n, m)')

LEMMA ServeTasks ==
  ASSUME WmTypeOK, NEW s \in WmSlots, NEW n, ServeStep(s, n)
  PROVE  /\ wmTask'[s] = n /\ n \in WmTaskType
         /\ \A q \in WmSlots : q # s => wmTask'[q] = wmTask[q]
         /\ wmTask' \in [WmSlots -> WmTaskType]
         /\ WmMoves(n) = WmMoves(wmTask[s]) /\ WmMarks(n) = WmMarks(wmTask[s])
         /\ WmOpens(n) = WmOpens(wmTask[s])
         /\ Busy(wmTask[s])
<1>1. wmTask \in [WmSlots -> WmTaskType] /\ wmTask' = [wmTask EXCEPT ![s] = n]
  /\ n \in WmTaskType
  BY WmTypeIs DEF ServeStep
<1>2. n.do = wmTask[s].do /\ n.ids = wmTask[s].ids /\ Busy(wmTask[s])
  BY DEF ServeStep
<1>3. QED
  BY <1>1, <1>2 DEF WmMoves, WmMarks, WmOpens

(* What the request is not about keeps its type.                           *)
LEMMA ServeTypes ==
  ASSUME WmTypeOK, NEW s \in WmSlots, NEW n, ServeStep(s, n), RowsStep(wmTask[s]),
         wmWork' \in [WmWorks -> WmWorkType], {wmBlocked, wmMuddled}' \subseteq BOOLEAN,
         wmVerdict' \in {"none", "spam", "notSpam"}
  PROVE  WmTypeOK'
<1>1. wmTask' \in [WmSlots -> WmTaskType]
  BY ServeTasks
<1>2. /\ wmRow' \in [WmIds -> WmRowType] /\ wmOwn' \in BOOLEAN /\ wmBinned' \subseteq WmIds
  BY DEF RowsStep
<1>3. UNCHANGED <<wmCast, wmMail, wmSaid, wmMixed, wmDirty>>
      /\ UNCHANGED <<wmShown, wmHeld, wmView, wmFetch, wmGot, wmOld, wmToast>>
  BY DEF ServeStep, wmHistory, wmClient
<1>4. WmTypeOK' =
    (/\ wmRow' \in [WmIds -> WmRowType] /\ wmSaid' \in [WmIds -> WmRowType]
     /\ {wmOwn, wmBlocked, wmMuddled}' \subseteq BOOLEAN
     /\ wmTask' \in [WmSlots -> WmTaskType]
     /\ wmWork' \in [WmWorks -> WmWorkType]
     /\ wmMail' \in [WmIds -> {"no", "INBOX", "Junk"}]
     /\ wmShown' \in [WmIds -> WmFolders \cup {"none"}]
     /\ wmHeld' \in [WmIds -> SUBSET (SUBSET WmFlags)]
     /\ wmView' \in wmCast'.views /\ wmFetch' \in {"no", "sent", "read"}
     /\ wmGot' \subseteq WmIds /\ wmOld' \subseteq wmCast'.views /\ wmDirty' \subseteq wmCast'.views
     /\ wmToast' \in WmToastType
     /\ wmMixed' \subseteq WmIds \X (WmFlags \cup {"at"}) /\ wmBinned' \subseteq WmIds
     /\ wmVerdict' \in {"none", "spam", "notSpam"})
  BY DEF WmTypeOK, WmTaskType, WmAts, WmToastType, WmWorkType
<1>5. QED
  BY <1>1, <1>2, <1>3, <1>4, WmTypeIs

(* The request still looks like one.                                       *)
LEMMA ServeShape ==
  ASSUME WebInv, NEW s \in WmSlots, NEW n, ServeStep(s, n)
  PROVE  ShapeInv'
<1>1. ASSUME NEW q \in WmSlots PROVE ShapeOK(wmTask[q])'
  <2>1. CASE q = s
    <3>1. wmTask'[q] = n
      BY <2>1, ServeTasks DEF WebInv
    <3>2. QED
      BY <3>1 DEF ServeStep, ShapeOK
  <2>2. CASE q # s
    <3>1. wmTask'[q] = wmTask[q]
      BY <2>2, ServeTasks DEF WebInv
    <3>2. QED
      BY <3>1 DEF WebInv, ShapeInv, ShapeOK
  <2>3. QED
    BY <2>1, <2>2
<1>2. QED
  BY <1>1 DEF ShapeInv

(* No message comes or is forgotten by it.                                 *)
LEMMA ServeCame ==
  ASSUME WebInv, NEW s \in WmSlots, NEW n, ServeStep(s, n), RowsStep(wmTask[s]),
         \A k \in WmWorks :
           \/ wmWork'[k].ids \subseteq wmWork[k].ids
           \/ \A m \in wmWork'[k].ids : wmRow[m].at # "none"
  PROVE  CameInv'
<1>1. ASSUME NEW m \in WmIds PROVE CameOK(m)'
  <2>1. CameOK(m) /\ wmRow[m] \in WmRowType
    BY WmRowsAre DEF WebInv, CameInv
  <2>2. wmRow'[m] # wmRow[m] => WmPresent(m) /\ wmRow'[m].at # "none"
    BY DEF RowsStep
  <2>3. UNCHANGED <<wmMail, wmSaid, wmShown, wmHeld, wmGot, wmToast>>
    BY DEF ServeStep, wmHistory, wmClient
  <2>4. \A q \in WmSlots : wmTask'[q].ids = wmTask[q].ids
    BY ServeTasks DEF WebInv, ServeStep
  <2>5. wmRow'[m].at = "none" <=> wmRow[m].at = "none"
    BY <2>2 DEF WmPresent
  <2>6. wmRow'[m].at = "none" => wmRow'[m] = wmRow[m] /\ ~WmPresent(m)
    BY <2>2, <2>5 DEF WmPresent
  <2>7. QED
    BY <2>1, <2>3, <2>4, <2>5, <2>6 DEF CameOK
<1>2. QED
  BY <1>1 DEF CameInv

(* What it writes into a bin is noted as having been there.                *)
LEMMA ServeBin ==
  ASSUME WebInv, NEW s \in WmSlots, NEW n, ServeStep(s, n), RowsStep(wmTask[s])
  PROVE  BinInv'
<1>1. ASSUME NEW m \in WmIds PROVE BinOK(m)'
  <2>1. BinOK(m) /\ wmBinned \subseteq wmBinned'
    BY DEF WebInv, BinInv, RowsStep
  <2>2. wmRow'[m].at \in WmBins \cup {"gone"} => m \in wmBinned'
    BY <2>1 DEF RowsStep
  <2>3. ASSUME NEW q \in WmSlots
        PROVE  /\ wmTask'[q].read[m].at \in WmBins => m \in wmBinned'
               /\ wmTask'[q].do = "erase" /\ m \in wmTask'[q].ids => m \in wmBinned'
    <3>1. CASE q # s
      BY <2>1, <3>1, ServeTasks DEF BinOK, WebInv
    <3>2. CASE q = s
      <4>1. wmTask'[q] = n
        BY <3>2, ServeTasks DEF WebInv
      <4>2. n.do = wmTask[s].do /\ n.ids = wmTask[s].ids
            /\ n.read[m].at \in {"none", wmTask[s].read[m].at, wmRow[m].at}
        BY DEF ServeStep
      <4>3. "none" \notin WmBins
        BY DEF WmBins
      <4>4. QED
        BY <2>1, <4>1, <4>2, <4>3 DEF BinOK
    <3>3. QED
      BY <3>1, <3>2
  <2>4. QED
    BY <2>2, <2>3 DEF BinOK
<1>2. QED
  BY <1>1 DEF BinInv

LEMMA ServeList ==
  ASSUME WebInv, NEW s \in WmSlots, NEW n, ServeStep(s, n)
  PROVE  ListInv'
<1>1. UNCHANGED <<wmCast, wmShown, wmView, wmFetch, wmGot, wmOld, wmDirty>>
  BY DEF ServeStep, wmClient
<1>2. wmTask'[s] = n /\ \A q \in WmSlots : q # s => wmTask'[q] = wmTask[q]
  BY ServeTasks DEF WebInv
<1>3. CASE Wrote(n)
  <2>1. ~Silent'
    BY <1>2, <1>3 DEF Silent, Wrote
  <2>2. QED
    BY <1>1, <2>1 DEF ListInv, WebInv
<1>4. CASE ~Wrote(n)
  <2>1. ~Wrote(wmTask[s]) /\ \A m \in WmIds : wmRow'[m].at = wmRow[m].at
    BY <1>4 DEF ServeStep
  <2>2. Silent' => Silent
    BY <1>2, <2>1 DEF Silent, Wrote
  <2>3. \A f : WmIn(f)' = WmIn(f)
    BY <2>1 DEF WmIn
  <2>4. QED
    BY <1>1, <2>1, <2>2, <2>3 DEF ListInv, WebInv
<1>5. QED
  BY <1>3, <1>4

(* Who moves a message is who moved it, unless it is done.                 *)
LEMMA ServeMovers ==
  ASSUME WebInv, NEW s \in WmSlots, NEW n, ServeStep(s, n), NEW m \in WmIds
  PROVE  /\ \A q \in WmSlots : Mover(m, q)' => Mover(m, q)
         /\ \A q \in WmSlots : q # s => (Mover(m, q)' <=> Mover(m, q))
         /\ Mover(m, s)' <=> Busy(n) /\ m \in WmMoves(wmTask[s])
         /\ Mover(m, s) <=> m \in WmMoves(wmTask[s])
<1>1. /\ wmTask'[s] = n /\ \A q \in WmSlots : q # s => wmTask'[q] = wmTask[q]
      /\ WmMoves(n) = WmMoves(wmTask[s]) /\ Busy(wmTask[s])
  BY ServeTasks DEF WebInv
<1>2. \A q \in WmSlots : Mover(m, q)' <=> Busy(wmTask'[q]) /\ m \in WmMoves(wmTask'[q])
  BY DEF Mover, Busy, WmMoves
<1>3. QED
  BY <1>1, <1>2 DEF Mover

(* What is owed for a message depends on its row and on the user's folder. *)
LEMMA OwedSame ==
  ASSUME NEW m, wmRow'[m].at = wmRow[m].at, wmSaid'[m].at = wmSaid[m].at, wmOwn' = wmOwn,
         NEW t, OwedOK(t, m)
  PROVE  OwedOK(t, m)'
BY DEF OwedOK, Means, WmMeans, WmExists, WmTarget, WmPresent

(* Folders: it owes to the end what it owed before.                        *)
LEMMA ServeAt ==
  ASSUME WebInv, NEW s \in WmSlots, NEW n, ServeStep(s, n), RowsStep(wmTask[s]),
         MovesStep(wmTask[s], n)
  PROVE  AtInv'
<1>1. ASSUME NEW m \in WmIds, <<m, "at">> \notin wmMixed'
      PROVE  /\ \A q, r \in WmSlots : Mover(m, q)' /\ Mover(m, r)' => q = r
             /\ (\A q \in WmSlots : ~Mover(m, q)') => wmRow'[m].at = wmSaid'[m].at
             /\ \A q \in WmSlots : Mover(m, q)' => OwedOK(wmTask[q], m)'
  <2>1. wmMixed' = wmMixed /\ wmSaid' = wmSaid
    BY DEF ServeStep, wmHistory
  <2>2. /\ \A q, r \in WmSlots : Mover(m, q) /\ Mover(m, r) => q = r
        /\ (\A q \in WmSlots : ~Mover(m, q)) => wmRow[m].at = wmSaid[m].at
        /\ \A q \in WmSlots : Mover(m, q) => OwedOK(wmTask[q], m)
    BY <1>1, <2>1 DEF WebInv, AtInv, AtOK
  <2>3. /\ \A q \in WmSlots : Mover(m, q)' => Mover(m, q)
        /\ \A q \in WmSlots : q # s => (Mover(m, q)' <=> Mover(m, q))
        /\ Mover(m, s)' <=> Busy(n) /\ m \in WmMoves(wmTask[s])
        /\ Mover(m, s) <=> m \in WmMoves(wmTask[s])
    BY ServeMovers
  <2>4. wmTask'[s] = n /\ \A q \in WmSlots : q # s => wmTask'[q] = wmTask[q]
    BY ServeTasks DEF WebInv
  <2>5. \A q, r \in WmSlots : Mover(m, q)' /\ Mover(m, r)' => q = r
    BY <2>2, <2>3
  <2>6. CASE m \in WmMoves(wmTask[s])
    <3>1. OwedOK(wmTask[s], m)
      BY <2>2, <2>3, <2>6
    <3>2. IF Busy(n) THEN OwedOK(n, m)' ELSE wmRow'[m].at = wmSaid[m].at
      BY <2>6, <3>1 DEF MovesStep
    <3>3. \A q \in WmSlots : Mover(m, q)' => q = s
      BY <2>2, <2>3, <2>6
    <3>4. ASSUME NEW q \in WmSlots, Mover(m, q)' PROVE OwedOK(wmTask[q], m)'
      <4>1. q = s /\ Busy(n)
        BY <2>3, <3>3, <3>4
      <4>2. OwedOK(n, m)' /\ wmTask'[q] = n
        BY <2>4, <3>2, <4>1
      <4>3. QED
        BY <4>2 DEF OwedOK, Means, WmMeans, WmExists, WmTarget, WmPresent
    <3>5. (\A q \in WmSlots : ~Mover(m, q)') => wmRow'[m].at = wmSaid'[m].at
      BY <2>1, <2>3, <2>6, <3>2
    <3>6. QED
      BY <2>5, <3>4, <3>5
  <2>7. CASE m \notin WmMoves(wmTask[s])
    <3>1. wmRow'[m].at = wmRow[m].at /\ wmOwn' = wmOwn
      BY <2>7 DEF RowsStep
    <3>2. \A q \in WmSlots : Mover(m, q)' <=> Mover(m, q)
      BY <2>3, <2>7
    <3>3. ASSUME NEW q \in WmSlots, Mover(m, q)' PROVE OwedOK(wmTask[q], m)'
      <4>1. q # s /\ Mover(m, q)
        BY <2>3, <2>7, <3>3
      <4>2. OwedOK(wmTask[q], m) /\ wmTask'[q] = wmTask[q]
        BY <2>2, <2>4, <4>1
      <4>3. PICK t : t = wmTask[q]
        OBVIOUS
      <4>4. OwedOK(t, m)'
        BY <2>1, <3>1, <4>2, <4>3, OwedSame
      <4>5. QED
        BY <4>2, <4>3, <4>4 DEF OwedOK, Means, WmMeans, WmExists, WmTarget, WmPresent
    <3>4. QED
      BY <2>1, <2>2, <2>5, <3>1, <3>2, <3>3
  <2>8. QED
    BY <2>6, <2>7
<1>2. QED
  BY <1>1 DEF AtInv, AtOK

(* What "undo" offers is not destroyed by it.                              *)
LEMMA ServeFresh ==
  ASSUME WebInv, NEW s \in WmSlots, NEW n, ServeStep(s, n), RowsStep(wmTask[s]),
         MovesStep(wmTask[s], n)
  PROVE  FreshInv'
<1>1. ASSUME NEW m \in WmIds, wmToast'.fresh, m \in wmToast'.ids,
             ~(wmToast.of = "delete" /\ wmToast.to = "Trash")'
      PROVE  /\ wmRow'[m].at # "gone"
             /\ \A q, r \in WmSlots : Mover(m, q)' /\ Mover(m, r)' => q = r
             /\ \A q \in WmSlots : Mover(m, q)' => SparesOK(wmTask[q], m)'
  <2>1. wmToast' = wmToast
    BY DEF ServeStep, wmClient
  <2>2. /\ wmRow[m].at # "gone"
        /\ \A q, r \in WmSlots : Mover(m, q) /\ Mover(m, r) => q = r
        /\ \A q \in WmSlots : Mover(m, q) => SparesOK(wmTask[q], m)
    BY <1>1, <2>1 DEF WebInv, FreshInv, FreshOK
  <2>3. /\ \A q \in WmSlots : Mover(m, q)' => Mover(m, q)
        /\ \A q \in WmSlots : q # s => (Mover(m, q)' <=> Mover(m, q))
        /\ Mover(m, s)' <=> Busy(n) /\ m \in WmMoves(wmTask[s])
        /\ Mover(m, s) <=> m \in WmMoves(wmTask[s])
    BY ServeMovers
  <2>4. wmTask'[s] = n /\ \A q \in WmSlots : q # s => wmTask'[q] = wmTask[q]
    BY ServeTasks DEF WebInv
  <2>5. \A q, r \in WmSlots : Mover(m, q)' /\ Mover(m, r)' => q = r
    BY <2>2, <2>3
  <2>6. CASE m \in WmMoves(wmTask[s])
    <3>1. wmRow'[m].at # "gone" /\ (Busy(n) => SparesOK(n, m)')
      BY <2>2, <2>3, <2>6 DEF MovesStep
    <3>2. ASSUME NEW q \in WmSlots, Mover(m, q)' PROVE SparesOK(wmTask[q], m)'
      <4>1. q = s /\ Busy(n)
        BY <2>2, <2>3, <2>6, <3>2
      <4>2. SparesOK(n, m)' /\ wmTask'[q] = n
        BY <2>4, <3>1, <4>1
      <4>3. QED
        BY <4>2 DEF SparesOK
    <3>3. QED
      BY <2>5, <3>1, <3>2
  <2>7. CASE m \notin WmMoves(wmTask[s])
    <3>1. wmRow'[m].at = wmRow[m].at
      BY <2>7 DEF RowsStep
    <3>2. ASSUME NEW q \in WmSlots, Mover(m, q)' PROVE SparesOK(wmTask[q], m)'
      <4>1. q # s /\ Mover(m, q)
        BY <2>3, <2>7, <3>2
      <4>2. SparesOK(wmTask[q], m) /\ wmTask'[q] = wmTask[q]
        BY <2>2, <2>4, <4>1
      <4>3. QED
        BY <3>1, <4>2 DEF SparesOK
    <3>3. QED
      BY <2>2, <2>5, <3>1, <3>2
  <2>8. QED
    BY <2>6, <2>7
<1>2. QED
  BY <1>1 DEF FreshInv, FreshOK

(* The flags of a message that a request neither marks nor opens.          *)
LEMMA ServeFlag ==
  ASSUME WebInv, NEW s \in WmSlots, NEW n, ServeStep(s, n), RowsStep(wmTask[s]),
         NEW m \in WmIds, NEW f \in WmFlags,
         m \notin WmMarks(wmTask[s]), m \notin WmOpens(wmTask[s]),
         wmRow'[m].flags = wmRow[m].flags
  PROVE  FlagOK(m, f)'
<1>1. wmMixed' = wmMixed /\ wmSaid' = wmSaid /\ wmRow'[m].flags = wmRow[m].flags
  BY DEF ServeStep, wmHistory
<1>2. wmRow'[m].at # "gone" => wmRow[m].at # "gone"
  BY DEF RowsStep, WmPresent
<1>3. /\ wmTask'[s] = n /\ \A q \in WmSlots : q # s => wmTask'[q] = wmTask[q]
      /\ WmMarks(n) = WmMarks(wmTask[s]) /\ WmOpens(n) = WmOpens(wmTask[s])
  BY ServeTasks DEF WebInv
<1>4. m \notin WmMarks(wmTask[s]) /\ m \notin WmOpens(wmTask[s])
  OBVIOUS
<1>5. \A q \in WmSlots : /\ Marker(m, q)' <=> Marker(m, q)
                         /\ Opener(m, q)' <=> Opener(m, q)
                         /\ Opening(m, q)' <=> Opening(m, q)
                         /\ Marker(m, q) \/ Opening(m, q) => wmTask'[q] = wmTask[q]
  BY <1>3, <1>4 DEF Marker, Opener, Opening, Busy, WmMarks, WmOpens
<1>6. FlagOK(m, f)
  BY DEF WebInv, FlagInv
<1>7. CASE wmRow'[m].at # "gone" /\ <<m, f>> \notin wmMixed'
  <2>1. ASSUME NEW q \in WmSlots, Marker(m, q)' PROVE MarkOK(wmTask[q], m, f)'
    BY <1>1, <1>2, <1>5, <1>6, <1>7, <2>1 DEF FlagOK, MarkOK, WmFlagsBy, WmWritten
  <2>2. ASSUME NEW q \in WmSlots, f = "Seen", Opening(m, q)' PROVE OpenOK(wmTask[q], m)'
    BY <1>1, <1>2, <1>5, <1>6, <1>7, <2>2 DEF FlagOK, OpenOK
  <2>3. QED
    BY <1>1, <1>2, <1>5, <1>6, <1>7, <2>1, <2>2 DEF FlagOK
<1>8. QED
  BY <1>7 DEF FlagOK

(* Requests that move do not write flags.                                  *)
LEMMA ServeFlags ==
  ASSUME WebInv, NEW s \in WmSlots, NEW n, ServeStep(s, n), RowsStep(wmTask[s]),
         wmTask[s].do \notin OfFlags \cup {"file"},
         \A m \in WmIds : wmRow'[m].flags = wmRow[m].flags
  PROVE  FlagInv'
<1>1. WmMarks(wmTask[s]) = {} /\ WmOpens(wmTask[s]) = {}
  BY DEF WmMarks, WmOpens, OfFlags
<1>2. ASSUME NEW m \in WmIds, NEW f \in WmFlags PROVE FlagOK(m, f)'
  BY <1>1, ServeFlag
<1>3. QED
  BY <1>2 DEF FlagInv

(* The blocklist, and what is done for it.                                 *)
JunkStep ==
  /\ wmWork' \in [WmWorks -> WmWorkType]
  /\ \A k \in WmWorks :
       \/ wmWork'[k].ids \subseteq wmWork[k].ids
       \/ \A m \in wmWork'[k].ids : wmRow[m].at # "none"
  /\ {wmBlocked, wmMuddled}' \subseteq BOOLEAN /\ wmVerdict' \in {"none", "spam", "notSpam"}
  /\ JunkInv'

LEMMA JunkSame ==
  ASSUME WebInv, UNCHANGED wmJunk
  PROVE  JunkStep
<1>1. UNCHANGED <<wmBlocked, wmWork, wmVerdict, wmMuddled>>
  BY DEF wmJunk
<1>2. QED
  BY <1>1, WmTypeIs DEF WebInv, JunkInv, JunkStep

(* All parts together: what each step below has to show.                   *)
LEMMA ServeKeeps ==
  ASSUME WebInv, NEW s \in WmSlots, NEW n, ServeStep(s, n), RowsStep(wmTask[s]),
         MovesStep(wmTask[s], n), JunkStep, FlagInv'
  PROVE  WebInv'
<1>1. WmTypeOK'
  BY ServeTypes DEF WebInv, JunkStep
<1>2. CastInv' /\ OwnInv' /\ JunkInv'
  BY DEF WebInv, CastInv, ServeStep, RowsStep, JunkStep
<1>3. ShapeInv' /\ BinInv' /\ ListInv'
  BY ServeShape, ServeBin, ServeList
<1>4. CameInv'
  BY ServeCame DEF JunkStep
<1>5. AtInv' /\ FreshInv'
  BY ServeAt, ServeFresh
<1>6. QED
  BY <1>1, <1>2, <1>3, <1>4, <1>5 DEF WebInv

-----------------------------------------------------------------------------
(* The gateway's end: nobody moves or marks afterwards, and what was in    *)
(* work counts as torn.                                                    *)
LEMMA DiesTasks ==
  ASSUME WmTypeOK, WmDies, NEW s \in WmSlots
  PROVE  /\ wmTask'[s] \in WmTaskType /\ ~Busy(wmTask'[s])
         /\ wmTask'[s].ids = wmTask[s].ids /\ wmTask'[s].do = wmTask[s].do
         /\ wmTask'[s].to = wmTask[s].to /\ wmTask'[s].read = wmTask[s].read
         /\ wmTask'[s].at # "idle" => wmTask[s].at # "idle" /\ wmTask'[s].at = "answered"
         /\ (wmTask'[s].at = "answered" /\ wmTask'[s].ok) => wmTask'[s] = wmTask[s]
<1>1. wmTask[s] \in WmTaskType
  BY WmTasksAre
<1>2. wmTask'[s] = IF Busy(wmTask[s])
                   THEN [wmTask[s] EXCEPT !.at = "answered", !.ok = FALSE] ELSE wmTask[s]
  BY DEF WmDies, WmBusy, Busy
<1>3. ~Busy(wmTask[s]) => wmTask[s].at \in {"idle", "answered"}
  BY DEF Busy
<1>4. CASE Busy(wmTask[s])
  <2>1. PICK t \in WmTaskType : t = wmTask[s]
    BY <1>1
  <2>2. [t EXCEPT !.at = "answered", !.ok = FALSE] \in WmTaskType
    BY DEF WmTaskType, WmAts
  <2>3. wmTask'[s] = [t EXCEPT !.at = "answered", !.ok = FALSE]
    BY <1>2, <1>4, <2>1
  <2>4. QED
    BY <1>4, <2>1, <2>2, <2>3 DEF WmTaskType, Busy
<1>5. CASE ~Busy(wmTask[s])
  <2>1. wmTask'[s] = wmTask[s]
    BY <1>2, <1>5
  <2>2. QED
    BY <1>1, <1>3, <1>5, <2>1 DEF Busy
<1>6. QED
  BY <1>4, <1>5

LEMMA DiesTorn ==
  ASSUME WmTypeOK, WmDies
  PROVE  /\ wmMixed \subseteq wmMixed'
         /\ \A m \in WmIds : <<m, "at">> \notin wmMixed' => \A s \in WmSlots : ~Mover(m, s)
         /\ \A m \in WmIds, f \in WmFlags : <<m, f>> \notin wmMixed' =>
              \A s \in WmSlots : ~Marker(m, s) /\ ~Opener(m, s)
         /\ wmMixed' \subseteq WmIds \X (WmFlags \cup {"at"})
<1> DEFINE busy == {s \in WmSlots : WmBusy(s)}
           torn(t) == (WmMoves(t) \X {"at"}) \cup ((WmMarks(t) \cup WmOpens(t)) \X WmFlags)
<1>1. wmMixed' = wmMixed \cup UNION {torn(wmTask[s]) : s \in busy}
  BY DEF WmDies
<1>2. ASSUME NEW s \in WmSlots, Busy(wmTask[s]) PROVE torn(wmTask[s]) \subseteq wmMixed'
  BY <1>1, <1>2 DEF WmBusy, Busy
<1>3. \A s \in WmSlots : torn(wmTask[s]) \subseteq WmIds \X (WmFlags \cup {"at"})
  <2> SUFFICES ASSUME NEW s \in WmSlots
               PROVE  torn(wmTask[s]) \subseteq WmIds \X (WmFlags \cup {"at"})
    OBVIOUS
  <2>1. wmTask[s].ids \subseteq WmIds
    BY WmTasksAre, WmTaskIs
  <2>2. WmMoves(wmTask[s]) \subseteq WmIds /\ WmMarks(wmTask[s]) \subseteq WmIds
        /\ WmOpens(wmTask[s]) \subseteq WmIds
    BY <2>1 DEF WmMoves, WmMarks, WmOpens
  <2>3. QED
    BY <2>2
<1>4. wmMixed \subseteq WmIds \X (WmFlags \cup {"at"})
  BY WmTypeIs
<1>5. wmMixed' \subseteq WmIds \X (WmFlags \cup {"at"})
  BY <1>1, <1>3, <1>4
<1>6. \A m \in WmIds : <<m, "at">> \notin wmMixed' => \A s \in WmSlots : ~Mover(m, s)
  BY <1>2 DEF Mover
<1>7. \A m \in WmIds, f \in WmFlags : <<m, f>> \notin wmMixed' =>
          \A s \in WmSlots : ~Marker(m, s) /\ ~Opener(m, s)
  BY <1>2 DEF Marker, Opener
<1>8. QED
  BY <1>1, <1>5, <1>6, <1>7

LEMMA DiesStep ==
  ASSUME WebInv, WmDies, UNCHANGED wmCast
  PROVE  WebInv'
<1>1. UNCHANGED <<wmRow, wmOwn, wmBinned, wmMail, wmSaid, wmBlocked, wmVerdict>>
      /\ UNCHANGED <<wmShown, wmHeld, wmView, wmFetch, wmGot, wmOld, wmToast>>
      /\ wmDirty' = wmCast.views
  BY DEF WmDies, wmStore, wmClient
<1>2. wmWork' = [k \in WmWorks |-> WmNoWork]
      /\ wmMuddled' = (wmMuddled \/ \E k \in WmWorks : wmWork[k].at # "idle")
  BY DEF WmDies
<1>3. WmNoWork \in WmWorkType /\ WmNoWork.at = "idle" /\ WmNoWork.ids = {}
  BY DEF WmNoWork, WmWorkType
<1>4. \A s \in WmSlots :
         /\ wmTask'[s] \in WmTaskType /\ ~Busy(wmTask'[s])
         /\ wmTask'[s].ids = wmTask[s].ids /\ wmTask'[s].do = wmTask[s].do
         /\ wmTask'[s].to = wmTask[s].to /\ wmTask'[s].read = wmTask[s].read
         /\ wmTask'[s].at # "idle" => wmTask[s].at # "idle" /\ wmTask'[s].at = "answered"
         /\ (wmTask'[s].at = "answered" /\ wmTask'[s].ok) => wmTask'[s] = wmTask[s]
  BY DiesTasks DEF WebInv
<1>5. /\ wmMixed \subseteq wmMixed'
      /\ \A m \in WmIds : <<m, "at">> \notin wmMixed' => \A s \in WmSlots : ~Mover(m, s)
      /\ \A m \in WmIds, f \in WmFlags : <<m, f>> \notin wmMixed' =>
           \A s \in WmSlots : ~Marker(m, s) /\ ~Opener(m, s)
      /\ wmMixed' \subseteq WmIds \X (WmFlags \cup {"at"})
  BY DiesTorn DEF WebInv
<1>6. \A m \in WmIds, s \in WmSlots : ~Mover(m, s)' /\ ~Marker(m, s)' /\ ~Opener(m, s)'
                                      /\ ~Opening(m, s)'
  BY <1>4 DEF Mover, Marker, Opener, Opening, Busy
<1>7. WmTypeOK'
  <2>1. wmTask' \in [WmSlots -> WmTaskType]
    BY <1>4 DEF WmDies
  <2>2. wmMixed' \subseteq WmIds \X (WmFlags \cup {"at"})
    BY <1>5
  <2>3. wmWork' \in [WmWorks -> WmWorkType] /\ wmMuddled' \in BOOLEAN
    BY <1>2, <1>3, WmTypeIs DEF WebInv
  <2>4. QED
    BY <1>1, <2>1, <2>2, <2>3, WmTypeIs
       DEF WebInv, WmTypeOK, WmTaskType, WmAts, WmToastType, WmWorkType
<1>8. CastInv' /\ OwnInv' /\ ShapeInv' /\ CameInv' /\ BinInv'
  <2>1. CastInv' /\ OwnInv'
    BY <1>1 DEF WebInv, CastInv, OwnInv
  <2>2. ShapeInv'
    BY <1>4 DEF WebInv, ShapeInv, ShapeOK
  <2>3. CameInv'
    BY <1>1, <1>2, <1>3, <1>4 DEF WebInv, CameInv, CameOK
  <2>4. BinInv'
    BY <1>1, <1>4 DEF WebInv, BinInv, BinOK
  <2>5. QED
    BY <2>1, <2>2, <2>3, <2>4
<1>9. JunkInv'
  BY <1>1, <1>2, <1>3 DEF WebInv, JunkInv
<1>10. ListInv'
  <2>1. wmView \in wmCast.views
    BY WmTypeIs DEF WebInv
  <2>2. QED
    BY <1>1, <2>1 DEF WebInv, ListInv
<1>11. FreshInv' /\ AtInv' /\ FlagInv'
  <2>1. FreshInv'
    BY <1>1, <1>6 DEF WebInv, FreshInv, FreshOK
  <2>2. AtInv'
    BY <1>1, <1>5, <1>6 DEF WebInv, AtInv, AtOK
  <2>3. FlagInv'
    BY <1>1, <1>5, <1>6 DEF WebInv, FlagInv, FlagOK, Opening
  <2>4. QED
    BY <2>1, <2>2, <2>3
<1>12. QED
  BY <1>7, <1>8, <1>9, <1>10, <1>11 DEF WebInv

-----------------------------------------------------------------------------
(* A request that goes on with what it has read.                           *)
SameTask(t, n) ==
  /\ n \in WmTaskType
  /\ n.do = t.do /\ n.ids = t.ids /\ n.to = t.to /\ n.flag = t.flag /\ n.on = t.on
  /\ n.list = t.list /\ n.read = t.read

LEMMA WmAnswerIs ==
  ASSUME WmTypeOK, NEW s \in WmSlots, NEW ok \in BOOLEAN, WmAnswer(s, ok)
  PROVE  \E n : /\ SameTask(wmTask[s], n) /\ n.at = "answered" /\ n.ok = ok
                /\ wmTask' = [wmTask EXCEPT ![s] = n]
<1>1. PICK t \in WmTaskType : t = wmTask[s]
  BY WmTasksAre
<1>2. PICK n \in WmTaskType : n = [t EXCEPT !.at = "answered", !.ok = ok]
  BY DEF WmTaskType, WmAts
<1>3. wmTask' = [wmTask EXCEPT ![s] = n]
  BY <1>1, <1>2 DEF WmAnswer
<1>4. SameTask(t, n) /\ n.at = "answered" /\ n.ok = ok
  BY <1>2 DEF SameTask, WmTaskType
<1>5. QED
  BY <1>1, <1>3, <1>4

LEMMA GoesIs ==
  ASSUME WmTypeOK, NEW s \in WmSlots, NEW at \in WmAts, WmGoes(s, at)
  PROVE  \E n : /\ SameTask(wmTask[s], n) /\ n.at = at /\ wmTask' = [wmTask EXCEPT ![s] = n]
<1>1. PICK t \in WmTaskType : t = wmTask[s]
  BY WmTasksAre
<1>2. PICK n \in WmTaskType : n = [t EXCEPT !.at = at]
  BY DEF WmTaskType
<1>3. wmTask' = [wmTask EXCEPT ![s] = n]
  BY <1>1, <1>2, WmTypeIs DEF WmGoes
<1>4. SameTask(t, n) /\ n.at = at
  BY <1>2 DEF SameTask, WmTaskType
<1>5. QED
  BY <1>1, <1>3, <1>4

(* Where the shape allows it, such a step is one for the request.          *)
LEMMA SameServes ==
  ASSUME WebInv, NEW s \in WmSlots, NEW n, SameTask(wmTask[s], n), Busy(wmTask[s]),
         wmTask' = [wmTask EXCEPT ![s] = n], n.at \notin {"idle", "sent"},
         n.at = "aimed" => n.do \in {"move", "file", "rmdirIfEmpty"},
         n.at = "rest" => n.do = "delete",
         n.at = "count" => n.do \in {"open", "empty"},
         \/ Wrote(n)
         \/ ~Wrote(wmTask[s]) /\ \A m \in WmIds : wmRow'[m].at = wmRow[m].at,
         UNCHANGED <<wmCast, wmMail, wmClient, wmHistory, wmDirty, wmCount>>
  PROVE  ServeStep(s, n)
<1>1. ShapeOK(wmTask[s])
  BY DEF WebInv, ShapeInv
<1>2. ShapeOK(n)
  <2>1. wmTask[s].at # "idle"
    BY DEF Busy
  <2>2. n.do = wmTask[s].do /\ n.ids = wmTask[s].ids /\ n.to = wmTask[s].to
        /\ n.read = wmTask[s].read
    BY DEF SameTask
  <2>3. QED
    BY <1>1, <2>1, <2>2 DEF ShapeOK
<1>3. QED
  BY <1>2 DEF ServeStep, SameTask

(* Nothing is written to the rows.                                         *)
LEMMA RowsSame ==
  ASSUME WebInv, UNCHANGED wmStore, NEW t
  PROVE  RowsStep(t) /\ \A m \in WmIds : wmRow'[m] = wmRow[m]
<1>1. wmRow' = wmRow /\ wmOwn' = wmOwn /\ wmBinned' = wmBinned
  BY DEF wmStore
<1>2. /\ wmRow \in [WmIds -> WmRowType] /\ wmOwn \in BOOLEAN /\ wmBinned \subseteq WmIds
  BY WmTypeIs DEF WebInv
<1>3. OwnInv'
  BY <1>1 DEF WebInv, OwnInv
<1>4. \A m \in WmIds : wmRow[m].at \in WmBins \cup {"gone"} => m \in wmBinned
  BY DEF WebInv, BinInv, BinOK
<1>5. QED
  BY <1>1, <1>2, <1>3, <1>4 DEF RowsStep

LEMMA StaysIs ==
  ASSUME WmStays
  PROVE  /\ UNCHANGED wmStore /\ UNCHANGED wmJunk /\ wmRow' = wmRow /\ wmOwn' = wmOwn
         /\ UNCHANGED <<wmMail, wmClient, wmHistory, wmDirty, wmCount>>
         /\ wmSaid' = wmSaid /\ wmMixed' = wmMixed
BY DEF WmStays, wmStore, wmHistory

(* A message that is named by a request came.                              *)
LEMMA NamedCame ==
  ASSUME WebInv, NEW s \in WmSlots, NEW m \in WmIds, m \in wmTask[s].ids
  PROVE  wmRow[m].at # "none" /\ (~WmPresent(m) => wmRow[m].at = "gone")
BY DEF WebInv, CameInv, CameOK, WmPresent

-----------------------------------------------------------------------------
(* The rows that are named are looked up.                                  *)
LEMMA ReadStep ==
  ASSUME WebInv, NEW s \in WmSlots, WmRead(s), UNCHANGED wmCast
  PROVE  WebInv'
<1> DEFINE t == wmTask[s]
           rd == [m \in WmIds |-> IF m \in t.ids /\ WmPresent(m) THEN wmRow[m] ELSE WmNoMail]
           found == IF t.do \in Whole THEN WmExists(t.to) ELSE \E m \in t.ids : WmPresent(m)
<1>1. /\ t.at = "sent" /\ WmStays /\ t \in WmTaskType /\ Busy(t) /\ ShapeOK(t)
      /\ t.ids \subseteq WmIds
  BY WmTasksAre, WmTaskIs DEF WmRead, WmAt, WebInv, Busy, ShapeInv
<1>2. IF found THEN wmTask' = [wmTask EXCEPT ![s] = [t EXCEPT !.at = "found", !.read = rd]]
      ELSE WmAnswer(s, FALSE)
  BY DEF WmRead, Whole
<1>3. /\ UNCHANGED wmStore /\ UNCHANGED wmJunk /\ wmRow' = wmRow /\ wmOwn' = wmOwn
      /\ UNCHANGED <<wmMail, wmClient, wmHistory, wmDirty, wmCount>>
      /\ wmSaid' = wmSaid /\ wmMixed' = wmMixed
  BY <1>1, StaysIs
<1>4. RowsStep(t) /\ \A m \in WmIds : wmRow'[m] = wmRow[m]
  BY <1>3, RowsSame
<1>5. JunkStep
  BY <1>3, JunkSame
<1>6. CASE found
  <2>1. rd \in [WmIds -> WmRowType]
    <3>1. WmNoMail \in WmRowType /\ \A m \in WmIds : wmRow[m] \in WmRowType
      BY WmNoTaskIs, WmRowsAre DEF WebInv
    <3>2. QED
      BY <3>1
  <2>2. PICK t0 \in WmTaskType : t0 = t
    BY <1>1
  <2>3. PICK r \in [WmIds -> WmRowType] : r = rd
    BY <2>1
  <2>4. PICK n \in WmTaskType : n = [t0 EXCEPT !.at = "found", !.read = r]
    BY DEF WmTaskType, WmAts
  <2>5. n.do = t.do /\ n.ids = t.ids /\ n.to = t.to /\ n.flag = t.flag /\ n.on = t.on
        /\ n.at = "found" /\ n.list = t.list /\ n.read = rd
    BY <2>2, <2>3, <2>4 DEF WmTaskType
  <2>6. wmTask' = [wmTask EXCEPT ![s] = n]
    BY <1>2, <1>6, <2>2, <2>3, <2>4
  <2>7. \A m \in WmIds :
          n.read[m] = IF m \in t.ids /\ WmPresent(m) THEN wmRow[m] ELSE WmNoMail
    BY <2>5
  <2>8. ShapeOK(n)
    BY <1>1, <2>5, <2>7, WmNoTaskIs DEF ShapeOK, WmPresent
  <2>9. ~Wrote(t)
    BY <1>1 DEF Wrote
  <2>10. \A m \in WmIds : n.read[m].at \in {"none", t.read[m].at, wmRow[m].at}
    BY <2>7, WmNoTaskIs
  <2>11. ServeStep(s, n)
    BY <1>1, <1>3, <1>4, <2>5, <2>6, <2>8, <2>9, <2>10 DEF ServeStep
  <2>12. MovesStep(t, n)
    <3> SUFFICES ASSUME NEW m \in WmMoves(t)
                 PROVE  /\ OwedOK(t, m) => OwedOK(n, m)'
                        /\ wmRow[m].at # "gone" /\ SparesOK(t, m) =>
                             wmRow'[m].at # "gone" /\ SparesOK(n, m)'
      BY <2>5 DEF MovesStep, Busy
    <3>1. m \in WmIds
      BY <1>1 DEF WmMoves
    <3>2. wmRow'[m] = wmRow[m] /\ wmSaid'[m] = wmSaid[m] /\ (WmPresent(m)' <=> WmPresent(m))
      BY <1>3, <3>1 DEF WmPresent
    <3>3. ASSUME OwedOK(t, m) PROVE OwedOK(n, m)'
      <4>1. wmSaid[m].at = Means(t, wmRow[m].at)
        BY <1>1, <3>3 DEF OwedOK
      <4>2. Means(t, wmRow[m].at) = Means(n, wmRow[m].at)'
        BY <1>3, <2>5, <3>2 DEF Means, WmMeans, WmTarget, WmExists
      <4>3. m \in n.ids => n.read[m].at = IF WmPresent(m) THEN wmRow[m].at ELSE "none"
        BY <2>5, <2>7, <3>1, WmNoTaskIs
      <4>4. QED
        BY <2>5, <3>2, <4>1, <4>2, <4>3 DEF OwedOK
    <3>4. ASSUME wmRow[m].at # "gone", SparesOK(t, m) PROVE SparesOK(n, m)'
      BY <1>1, <2>5, <2>7, <3>1, <3>4, WmNoTaskIs DEF SparesOK
    <3>5. QED
      BY <3>2, <3>3, <3>4
  <2>13. FlagInv'
    <3>1. ASSUME NEW m \in WmIds, NEW f \in WmFlags PROVE FlagOK(m, f)'
      <4>1. FlagOK(m, f) /\ wmRow'[m] = wmRow[m]
        BY <1>4 DEF WebInv, FlagInv
      <4>2. /\ wmTask'[s] = n /\ \A q \in WmSlots : q # s => wmTask'[q] = wmTask[q]
            /\ WmMarks(n) = WmMarks(t) /\ WmOpens(n) = WmOpens(t)
        BY <2>11, ServeTasks DEF WebInv
      <4>3. \A q \in WmSlots : /\ Marker(m, q)' <=> Marker(m, q)
                               /\ Opener(m, q)' <=> Opener(m, q)
                               /\ Opening(m, q)' <=> Opening(m, q)
        BY <1>1, <2>5, <4>2 DEF Marker, Opener, Opening, Busy, WmMarks, WmOpens
      <4>4. CASE <<m, f>> \notin wmMixed' /\ wmRow'[m].at # "gone"
        <5>1. <<m, f>> \notin wmMixed /\ wmRow[m].at # "gone"
          BY <1>3, <4>1, <4>4
        <5>2. m \in t.ids => n.read[m] = wmRow[m] /\ wmRow[m].at # "none"
          BY <2>7, <5>1, NamedCame
        <5>3. ASSUME NEW q \in WmSlots, Marker(m, q)' PROVE MarkOK(wmTask[q], m, f)'
          <6>1. MarkOK(wmTask[q], m, f) /\ Marker(m, q)
            BY <4>1, <4>3, <5>1, <5>3 DEF FlagOK
          <6>2. CASE q = s
            <7>1. m \in t.ids
              BY <6>1, <6>2 DEF Marker, WmMarks
            <7>2. WmWritten(n, wmRow[m].flags) = WmWritten(t, wmRow[m].flags)
              BY <2>5 DEF WmFlagsBy, WmWritten
            <7>3. MarkOK(n, m, f)'
              BY <1>3, <4>1, <5>2, <6>1, <6>2, <7>1, <7>2 DEF MarkOK, WmFlagsBy, WmWritten
            <7>4. QED
              BY <4>2, <6>2, <7>3 DEF MarkOK, WmFlagsBy, WmWritten
          <6>3. CASE q # s
            BY <1>3, <4>1, <4>2, <6>1, <6>3 DEF MarkOK, WmFlagsBy, WmWritten
          <6>4. QED
            BY <6>2, <6>3
        <5>4. ASSUME NEW q \in WmSlots, f = "Seen", Opening(m, q)' PROVE OpenOK(wmTask[q], m)'
          <6>1. OpenOK(wmTask[q], m) /\ Opening(m, q)
            BY <4>1, <4>3, <5>1, <5>4 DEF FlagOK
          <6>2. CASE q = s
            <7>1. m \in t.ids
              BY <6>1, <6>2 DEF Opening, Opener, WmOpens
            <7>2. OpenOK(n, m)'
              BY <1>3, <4>1, <5>2, <6>1, <7>1 DEF OpenOK
            <7>3. QED
              BY <4>2, <6>2, <7>2 DEF OpenOK
          <6>3. CASE q # s
            BY <1>3, <4>1, <4>2, <6>1, <6>3 DEF OpenOK
          <6>4. QED
            BY <6>2, <6>3
        <5>5. QED
          BY <1>3, <4>1, <4>3, <5>1, <5>3, <5>4 DEF FlagOK
      <4>5. QED
        BY <4>4 DEF FlagOK
    <3>2. QED
      BY <3>1 DEF FlagInv
  <2>14. QED
    BY <1>4, <1>5, <2>11, <2>12, <2>13, ServeKeeps
<1>7. CASE ~found
  <2>1. PICK n : /\ SameTask(t, n) /\ n.at = "answered" /\ n.ok = FALSE
                 /\ wmTask' = [wmTask EXCEPT ![s] = n]
    BY <1>2, <1>7, WmAnswerIs DEF WebInv
  <2>2. ServeStep(s, n)
    <3>1. ~Wrote(t)
      BY <1>1 DEF Wrote
    <3>2. QED
      BY <1>1, <1>3, <1>4, <2>1, <3>1, SameServes
  <2>3. \A m \in t.ids : wmRow[m].at = "gone"
    <3>1. t.ids # {} => t.do \notin Whole
      BY <1>1 DEF ShapeOK
    <3>2. QED
      BY <1>1, <1>7, <3>1, NamedCame
  <2>4. MovesStep(t, n)
    <3> SUFFICES ASSUME NEW m \in WmMoves(t)
                 PROVE  /\ OwedOK(t, m) => wmRow'[m].at = wmSaid[m].at
                        /\ wmRow[m].at # "gone" => wmRow'[m].at # "gone"
      BY <2>1 DEF MovesStep, Busy
    <3>1. m \in WmIds /\ wmRow'[m] = wmRow[m]
      BY <1>1, <1>4 DEF WmMoves
    <3>2. OwedOK(t, m) => wmSaid[m].at = Means(t, wmRow[m].at)
      BY <1>1 DEF OwedOK
    <3>3. Means(t, wmRow[m].at) = wmRow[m].at
      <4>1. CASE t.do \in Whole
        <5>1. wmRow[m].at # t.to
          BY <1>7, <3>1, <4>1 DEF WmExists, WebInv, OwnInv
        <5>2. QED
          BY <4>1, <5>1 DEF Means, Whole
      <4>2. CASE t.do \notin Whole
        <5>1. m \in t.ids
          BY <4>2 DEF WmMoves, Whole
        <5>2. QED
          BY <2>3, <5>1 DEF Means
      <4>3. QED
        BY <4>1, <4>2
    <3>4. QED
      BY <3>1, <3>2, <3>3
  <2>5. FlagInv'
    <3>1. ASSUME NEW m \in WmIds, NEW f \in WmFlags, <<m, f>> \notin wmMixed',
                 wmRow'[m].at # "gone"
          PROVE FlagOK(m, f)'
      <4>1. wmRow'[m] = wmRow[m] /\ m \notin t.ids
        BY <1>4, <2>3, <3>1
      <4>2. m \notin WmMarks(t) /\ m \notin WmOpens(t)
        BY <4>1 DEF WmMarks, WmOpens
      <4>3. QED
        BY <1>4, <2>2, <4>1, <4>2, ServeFlag
    <3>2. QED
      BY <3>1 DEF FlagInv, FlagOK
  <2>6. QED
    BY <1>4, <1>5, <2>2, <2>4, <2>5, ServeKeeps
<1>8. QED
  BY <1>6, <1>7

-----------------------------------------------------------------------------
(* Rows that are put into a folder, and rows that are destroyed.           *)
LEMMA PutRows ==
  ASSUME WebInv, NEW ids \in SUBSET WmIds, NEW f \in WmFolders, WmRows(WmPut(ids, f)),
         wmOwn' = wmOwn, WmExists(f) \/ \A m \in ids : ~WmPresent(m),
         NEW t, ids \subseteq WmMoves(t)
  PROVE  /\ RowsStep(t)
         /\ \A m \in WmIds :
              /\ wmRow'[m].flags = wmRow[m].flags
              /\ wmRow'[m].at = IF m \in ids /\ WmPresent(m) THEN f ELSE wmRow[m].at
<1>1. /\ wmRow' = WmPut(ids, f)
      /\ wmBinned' = wmBinned \cup {m \in WmIds : wmRow'[m].at \in WmBins}
  BY DEF WmRows
<1>2. \A m \in WmIds : wmRow[m] \in WmRowType
  BY WmRowsAre DEF WebInv
<1>3. \A row \in WmRowType : /\ [row EXCEPT !.at = f] \in WmRowType
                             /\ [row EXCEPT !.at = f].at = f
                             /\ [row EXCEPT !.at = f].flags = row.flags
  BY DEF WmRowType
<1>4. \A m \in WmIds :
        wmRow'[m] = IF m \in ids /\ WmPresent(m) THEN [wmRow[m] EXCEPT !.at = f] ELSE wmRow[m]
  BY <1>1 DEF WmPut
<1>5. \A m \in WmIds :
        /\ wmRow'[m] \in WmRowType /\ wmRow'[m].flags = wmRow[m].flags
        /\ wmRow'[m].at = IF m \in ids /\ WmPresent(m) THEN f ELSE wmRow[m].at
        /\ wmRow'[m] # wmRow[m] => m \in ids /\ WmPresent(m)
  BY <1>2, <1>3, <1>4
<1>6. wmRow' \in [WmIds -> WmRowType]
  BY <1>1, <1>5 DEF WmPut
<1>7. OwnInv'
  BY <1>5 DEF WebInv, OwnInv, WmExists
<1>8. wmOwn' \in BOOLEAN /\ wmBinned' \subseteq WmIds /\ wmBinned \subseteq wmBinned'
  BY <1>1, WmTypeIs DEF WebInv
<1>9. f \notin {"none", "gone"}
  BY DEF WmFolders
<1>10. \A m \in WmIds : wmRow[m].at = "gone" => m \in wmBinned
  BY DEF WebInv, BinInv, BinOK
<1>11. RowsStep(t)
  BY <1>1, <1>5, <1>6, <1>7, <1>8, <1>9, <1>10 DEF RowsStep, WmPresent
<1>12. QED
  BY <1>5, <1>11

(* Rows that are destroyed.                                                *)
LEMMA DestroyRows ==
  ASSUME WebInv, NEW ids \in SUBSET WmIds, WmRows(WmDestroyed(ids)),
         \A m \in ids : WmPresent(m) => m \in wmBinned,
         NEW t, ids \subseteq WmMoves(t), wmOwn' \in BOOLEAN, wmOwn' # wmOwn => WmMoves(t) = WmIds,
         ~wmOwn' => ~wmOwn \/ WmIn("Own") \subseteq ids
  PROVE  /\ RowsStep(t)
         /\ \A m \in WmIds :
              /\ wmRow'[m].flags = wmRow[m].flags
              /\ wmRow'[m].at = IF m \in ids /\ WmPresent(m) THEN "gone" ELSE wmRow[m].at
<1>1. /\ wmRow' = WmDestroyed(ids)
      /\ wmBinned' = wmBinned \cup {m \in WmIds : wmRow'[m].at \in WmBins}
  BY DEF WmRows
<1>2. \A m \in WmIds : wmRow[m] \in WmRowType
  BY WmRowsAre DEF WebInv
<1>3. \A row \in WmRowType : /\ [row EXCEPT !.at = "gone"] \in WmRowType
                             /\ [row EXCEPT !.at = "gone"].at = "gone"
                             /\ [row EXCEPT !.at = "gone"].flags = row.flags
  BY DEF WmRowType
<1>4. \A m \in WmIds :
        wmRow'[m] = IF m \in ids /\ WmPresent(m) THEN [wmRow[m] EXCEPT !.at = "gone"]
                    ELSE wmRow[m]
  BY <1>1 DEF WmDestroyed
<1>5. \A m \in WmIds :
        /\ wmRow'[m] \in WmRowType /\ wmRow'[m].flags = wmRow[m].flags
        /\ wmRow'[m].at = IF m \in ids /\ WmPresent(m) THEN "gone" ELSE wmRow[m].at
        /\ wmRow'[m] # wmRow[m] => m \in ids /\ WmPresent(m)
  BY <1>2, <1>3, <1>4
<1>6. wmRow' \in [WmIds -> WmRowType]
  BY <1>1, <1>5 DEF WmDestroyed
<1>7. OwnInv'
  BY <1>5 DEF WebInv, OwnInv, WmIn, WmPresent
<1>8. wmBinned' \subseteq WmIds /\ wmBinned \subseteq wmBinned'
  BY <1>1, WmTypeIs DEF WebInv
<1>9. \A m \in WmIds : wmRow[m].at = "gone" => m \in wmBinned
  BY DEF WebInv, BinInv, BinOK
<1>10. RowsStep(t)
  BY <1>1, <1>5, <1>6, <1>7, <1>8, <1>9 DEF RowsStep, WmPresent
<1>11. QED
  BY <1>5, <1>10

(* Nothing but rows and tasks.                                             *)
LEMMA OnlyIs ==
  ASSUME WmOnly
  PROVE  /\ UNCHANGED wmOwn /\ UNCHANGED wmJunk
         /\ UNCHANGED <<wmMail, wmClient, wmHistory, wmDirty, wmCount>>
         /\ wmSaid' = wmSaid /\ wmMixed' = wmMixed
BY DEF WmOnly, wmHistory

(* A request in work, and what it has found.                               *)
LEMMA FoundIs ==
  ASSUME WebInv, NEW s \in WmSlots
  PROVE  /\ wmTask[s] \in WmTaskType /\ ShapeOK(wmTask[s])
         /\ wmTask[s].ids \subseteq WmIds /\ WmFound(wmTask[s]) \subseteq wmTask[s].ids
         /\ WmMoves(wmTask[s]) \subseteq WmIds
         /\ wmTask[s].to \in WmFolders /\ WmTarget(wmTask[s]) \in WmFolders
<1>1. wmTask[s] \in WmTaskType /\ ShapeOK(wmTask[s])
  BY WmTasksAre DEF WebInv, ShapeInv
<1>2. wmTask[s].ids \subseteq WmIds /\ wmTask[s].to \in WmFolders
  BY <1>1, WmTaskIs
<1>3. WmFound(wmTask[s]) \subseteq wmTask[s].ids
  BY <1>1 DEF WmFound, ShapeOK
<1>4. WmTarget(wmTask[s]) \in WmFolders
  BY <1>2 DEF WmTarget, WmFolders
<1>5. QED
  BY <1>1, <1>2, <1>3, <1>4 DEF WmMoves

(* The flags of a message that a request has marked.                       *)
LEMMA MarkedFlag ==
  ASSUME WebInv, NEW s \in WmSlots, NEW n, ServeStep(s, n), RowsStep(wmTask[s]),
         NEW m \in WmMarks(wmTask[s]), NEW f \in WmFlags, m \in WmIds,
         wmTask[s].at # "sent", n.at = "answered",
         wmTask[s].read[m].at # "none" =>
           wmRow'[m].flags = WmWritten(wmTask[s], wmTask[s].read[m].flags)
  PROVE  FlagOK(m, f)'
<1> DEFINE t == wmTask[s]
<1>1. wmMixed' = wmMixed /\ wmSaid' = wmSaid /\ Busy(t)
  BY DEF ServeStep, wmHistory
<1>2. ASSUME <<m, f>> \notin wmMixed', wmRow'[m].at # "gone" PROVE FlagOK(m, f)'
  <2>1. FlagOK(m, f) /\ <<m, f>> \notin wmMixed /\ wmRow[m].at # "gone"
    BY <1>1, <1>2 DEF WebInv, FlagInv, RowsStep, WmPresent
  <2>2. Marker(m, s)
    BY <1>1 DEF Marker
  <2>3. MarkOK(t, m, f)
    BY <2>1, <2>2 DEF FlagOK
  <2>4. (f \in wmRow'[m].flags) <=> (f \in wmSaid'[m].flags)
    BY <1>1, <2>3 DEF MarkOK, WmFlagsBy, WmWritten
  <2>5. /\ wmTask'[s] = n /\ \A q \in WmSlots : q # s => wmTask'[q] = wmTask[q]
        /\ WmMarks(n) = WmMarks(t) /\ WmOpens(n) = WmOpens(t)
    BY ServeTasks DEF WebInv
  <2>6. \A q \in WmSlots : ~Marker(m, q)' /\ (Opener(m, q)' => Opener(m, q))
    BY <1>1, <2>1, <2>2, <2>5 DEF FlagOK, Marker, Opener, Busy, WmMarks, WmOpens
  <2>7. f = "Seen" => \A q \in WmSlots : ~Opener(m, q)
    BY <2>1, <2>2 DEF FlagOK
  <2>8. \A q \in WmSlots : ~(f = "Seen" /\ Opening(m, q)')
    BY <2>6, <2>7 DEF Opening
  <2>9. QED
    BY <2>4, <2>6, <2>8 DEF FlagOK
<1>3. QED
  BY <1>2 DEF FlagOK

(* A filing of a message does not change its flags before the statement.   *)
LEMMA FileKeepsFlags ==
  ASSUME WebInv, NEW s \in WmSlots, NEW n, ServeStep(s, n), RowsStep(wmTask[s]),
         SameTask(wmTask[s], n), wmTask[s].do = "file", wmTask[s].at = "found",
         \A m \in WmIds : wmRow'[m] = wmRow[m]
  PROVE  FlagInv'
<1> DEFINE t == wmTask[s]
<1>1. wmMixed' = wmMixed /\ wmSaid' = wmSaid /\ Busy(t)
  BY DEF ServeStep, wmHistory
<1>2. /\ wmTask'[s] = n /\ \A q \in WmSlots : q # s => wmTask'[q] = wmTask[q]
      /\ WmMarks(n) = t.ids /\ WmMarks(t) = t.ids /\ WmOpens(n) = {} /\ WmOpens(t) = {}
  <2>1. WmMarks(t) = t.ids /\ WmOpens(t) = {}
    BY DEF WmMarks, WmOpens
  <2>2. QED
    BY <2>1, ServeTasks DEF WebInv
<1>3. n.do = "file" /\ n.read = t.read /\ n.at # "sent"
  BY DEF SameTask, ServeStep
<1>4. \A flags : WmWritten(t, flags) = flags /\ WmWritten(n, flags) = flags
  BY <1>3 DEF WmWritten, WmFlagsBy
<1>5. ASSUME NEW m \in WmIds, NEW f \in WmFlags PROVE FlagOK(m, f)'
  <2>1. FlagOK(m, f)
    BY DEF WebInv, FlagInv
  <2>2. CASE m \notin t.ids
    BY <1>2, <2>2, ServeFlag
  <2>3. CASE m \in t.ids
    <3>1. ASSUME <<m, f>> \notin wmMixed', wmRow'[m].at # "gone" PROVE FlagOK(m, f)'
      <4>1. <<m, f>> \notin wmMixed /\ wmRow[m].at # "gone" /\ wmRow'[m] = wmRow[m]
        BY <1>1, <3>1
      <4>2. Marker(m, s)
        BY <1>1, <1>2, <2>3 DEF Marker
      <4>3. MarkOK(t, m, f)
        BY <2>1, <4>1, <4>2 DEF FlagOK
      <4>4. (f \in wmSaid[m].flags) = (f \in wmRow[m].flags)
        BY <1>4, <4>3 DEF MarkOK
      <4>5. MarkOK(n, m, f)'
        BY <1>1, <1>3, <4>1, <4>3, <4>4 DEF MarkOK, WmWritten, WmFlagsBy
      <4>6. \A q \in WmSlots : /\ Marker(m, q)' => q = s
                               /\ Opener(m, q)' => Opener(m, q)
        BY <1>2, <2>1, <4>1, <4>2 DEF FlagOK, Marker, Opener, Busy
      <4>7. f = "Seen" => \A q \in WmSlots : ~Opener(m, q)' /\ ~Opening(m, q)'
        BY <2>1, <4>1, <4>2, <4>6 DEF FlagOK, Opening
      <4>8. ASSUME NEW q \in WmSlots, Marker(m, q)' PROVE MarkOK(wmTask[q], m, f)'
        <5>1. wmTask'[q] = n
          BY <1>2, <4>6, <4>8
        <5>2. QED
          BY <4>5, <5>1 DEF MarkOK, WmWritten, WmFlagsBy
      <4>9. QED
        BY <1>1, <4>1, <4>4, <4>6, <4>7, <4>8 DEF FlagOK
    <3>2. QED
      BY <3>1 DEF FlagOK
  <2>4. QED
    BY <2>2, <2>3
<1>6. QED
  BY <1>5 DEF FlagInv

-----------------------------------------------------------------------------
(* A request that moves and is answered, or goes on, without a change of   *)
(* rows.                                                                   *)
LEMMA AimStep ==
  ASSUME WebInv, NEW s \in WmSlots, WmAim(s), UNCHANGED wmCast
  PROVE  WebInv'
<1> DEFINE t == wmTask[s]
<1>1. t.at = "found" /\ t.do \in {"move", "file"} /\ WmStays /\ Busy(t)
      /\ WmMoves(t) \subseteq WmIds /\ WmMoves(t) = t.ids /\ ~Wrote(t)
  BY FoundIs DEF WmAim, WmAt, Busy, WmMoves, Wrote
<1>2. /\ UNCHANGED wmStore /\ UNCHANGED wmJunk /\ wmRow' = wmRow /\ wmOwn' = wmOwn
      /\ UNCHANGED <<wmMail, wmClient, wmHistory, wmDirty, wmCount>>
      /\ wmSaid' = wmSaid /\ wmMixed' = wmMixed
  BY <1>1, StaysIs
<1>3. RowsStep(t) /\ \A m \in WmIds : wmRow'[m] = wmRow[m]
  BY <1>2, RowsSame
<1>4. JunkStep
  BY <1>2, JunkSame
<1>5. CASE WmExists(t.to)
  <2>1. PICK n : SameTask(t, n) /\ n.at = "aimed" /\ wmTask' = [wmTask EXCEPT ![s] = n]
    BY <1>5, GoesIs DEF WebInv, WmAim, WmAts
  <2>2. n.do = t.do /\ n.ids = t.ids /\ n.to = t.to /\ n.read = t.read
    BY <1>1, <2>1 DEF SameTask
  <2>3. ServeStep(s, n)
    BY <1>1, <1>2, <1>3, <2>1, <2>2, SameServes
  <2>4. MovesStep(t, n)
    <3>1. ASSUME NEW m \in WmMoves(t), OwedOK(t, m) PROVE OwedOK(n, m)'
      <4>1. wmRow'[m] = wmRow[m] /\ wmSaid'[m] = wmSaid[m] /\ (WmPresent(m)' <=> WmPresent(m))
        BY <1>1, <1>2 DEF WmPresent
      <4>2. Means(n, wmRow[m].at)' = Means(t, wmRow[m].at)
        BY <1>2, <2>2, <4>1 DEF Means, WmMeans, WmTarget, WmExists
      <4>3. QED
        BY <1>1, <2>1, <2>2, <3>1, <4>1, <4>2 DEF OwedOK
    <3>2. \A m \in WmMoves(t) : /\ wmRow'[m].at = wmRow[m].at
                                /\ SparesOK(t, m) => SparesOK(n, m)'
      BY <1>1, <1>3, <2>2 DEF SparesOK
    <3>3. QED
      BY <2>1, <3>1, <3>2 DEF MovesStep, Busy
  <2>5. FlagInv'
    BY <1>1, <1>3, <2>1, <2>3, ServeFlags, FileKeepsFlags DEF OfFlags
  <2>6. QED
    BY <1>3, <1>4, <2>3, <2>4, <2>5, ServeKeeps
<1>6. CASE ~WmExists(t.to)
  <2>1. PICK n : /\ SameTask(t, n) /\ n.at = "answered" /\ n.ok = FALSE
                 /\ wmTask' = [wmTask EXCEPT ![s] = n]
    BY <1>6, WmAnswerIs DEF WebInv, WmAim
  <2>2. ServeStep(s, n)
    BY <1>1, <1>2, <1>3, <2>1, SameServes
  <2>3. MovesStep(t, n)
    <3>1. \A at : Means(t, at) = at
      BY <1>1, <1>6 DEF Means, WmMeans, WmTarget
    <3>2. \A m \in WmMoves(t) : wmRow'[m] = wmRow[m] /\ (OwedOK(t, m) => wmSaid[m].at = wmRow[m].at)
      BY <1>1, <1>3, <3>1 DEF OwedOK
    <3>3. QED
      BY <2>1, <3>2 DEF MovesStep, Busy
  <2>4. FlagInv'
    BY <1>1, <1>3, <2>1, <2>2, ServeFlags, FileKeepsFlags DEF OfFlags
  <2>5. QED
    BY <1>3, <1>4, <2>2, <2>3, <2>4, ServeKeeps
<1>7. QED
  BY <1>5, <1>6

LEMMA CountRowsStep ==
  ASSUME WebInv, NEW s \in WmSlots, WmCountRows(s), UNCHANGED wmCast
  PROVE  WebInv'
<1> DEFINE t == wmTask[s]
<1>1. t.at = "found" /\ t.do = "rmdirIfEmpty" /\ WmStays /\ Busy(t) /\ WmMoves(t) = WmIds
      /\ ~Wrote(t) /\ t.ids = {}
  BY FoundIs DEF WmCountRows, WmAt, Busy, WmMoves, Wrote, ShapeOK, Whole
<1>2. /\ UNCHANGED wmStore /\ UNCHANGED wmJunk /\ wmRow' = wmRow /\ wmOwn' = wmOwn
      /\ UNCHANGED <<wmMail, wmClient, wmHistory, wmDirty, wmCount>>
      /\ wmSaid' = wmSaid /\ wmMixed' = wmMixed
  BY <1>1, StaysIs
<1>3. RowsStep(t) /\ \A m \in WmIds : wmRow'[m] = wmRow[m]
  BY <1>2, RowsSame
<1>4. JunkStep
  BY <1>2, JunkSame
<1>5. \A m \in WmIds : OwedOK(t, m) => wmSaid[m].at = wmRow[m].at
  BY <1>1 DEF OwedOK, Means
<1>6. \A m \in WmIds : ~SparesOK(t, m)
  BY <1>1 DEF SparesOK
<1>7. CASE WmIn("Own") = {}
  <2>1. PICK n : SameTask(t, n) /\ n.at = "aimed" /\ wmTask' = [wmTask EXCEPT ![s] = n]
    BY <1>7, GoesIs DEF WebInv, WmCountRows, WmAts
  <2>2. n.do = "rmdirIfEmpty" /\ n.do = t.do /\ n.ids = {}
    BY <1>1, <2>1 DEF SameTask
  <2>3. ServeStep(s, n)
    BY <1>1, <1>2, <1>3, <2>1, <2>2, SameServes
  <2>4. MovesStep(t, n)
    <3>1. ASSUME NEW m \in WmIds, OwedOK(t, m) PROVE OwedOK(n, m)'
      <4>1. wmRow'[m] = wmRow[m] /\ wmSaid'[m] = wmSaid[m] /\ wmRow[m].at # "Own"
        BY <1>2, <1>7 DEF WmIn
      <4>2. QED
        BY <1>5, <2>1, <2>2, <3>1, <4>1 DEF OwedOK, Means
    <3>2. QED
      BY <1>1, <1>6, <2>1, <3>1 DEF MovesStep, Busy
  <2>5. FlagInv'
    BY <1>1, <1>3, <2>3, ServeFlags DEF OfFlags
  <2>6. QED
    BY <1>3, <1>4, <2>3, <2>4, <2>5, ServeKeeps
<1>8. CASE WmIn("Own") # {}
  <2>1. PICK n : /\ SameTask(t, n) /\ n.at = "answered" /\ n.ok = FALSE
                 /\ wmTask' = [wmTask EXCEPT ![s] = n]
    BY <1>8, WmAnswerIs DEF WebInv, WmCountRows
  <2>2. ServeStep(s, n)
    BY <1>1, <1>2, <1>3, <2>1, SameServes
  <2>3. MovesStep(t, n)
    BY <1>1, <1>3, <1>5, <1>6, <2>1 DEF MovesStep, Busy
  <2>4. FlagInv'
    BY <1>1, <1>3, <2>2, ServeFlags DEF OfFlags
  <2>5. QED
    BY <1>3, <1>4, <2>2, <2>3, <2>4, ServeKeeps
<1>9. QED
  BY <1>7, <1>8

(* A request of which the rows follow: what it moved is where it was to be *)
(* moved.                                                                  *)
LEMMA AnswerStep ==
  ASSUME WebInv, NEW s \in WmSlots, UNCHANGED wmCast, WmAnswer(s, TRUE), Busy(wmTask[s]),
         wmTask[s].do \notin OfFlags \cup {"file"}, JunkStep, RowsStep(wmTask[s]),
         UNCHANGED <<wmMail, wmClient, wmHistory, wmDirty, wmCount>>,
         \A m \in WmIds : wmRow'[m].flags = wmRow[m].flags,
         \A m \in WmMoves(wmTask[s]) :
           /\ OwedOK(wmTask[s], m) => wmRow'[m].at = wmSaid[m].at
           /\ wmRow[m].at # "gone" /\ SparesOK(wmTask[s], m) => wmRow'[m].at # "gone"
  PROVE  WebInv'
<1>1. PICK n : /\ SameTask(wmTask[s], n) /\ n.at = "answered" /\ n.ok = TRUE
               /\ wmTask' = [wmTask EXCEPT ![s] = n]
  BY WmAnswerIs DEF WebInv
<1>2. Wrote(n)
  BY <1>1 DEF Wrote, SameTask
<1>3. ServeStep(s, n)
  BY <1>1, <1>2, SameServes
<1>4. MovesStep(wmTask[s], n)
  BY <1>1 DEF MovesStep, Busy
<1>5. FlagInv'
  BY <1>3, ServeFlags
<1>6. QED
  BY <1>3, <1>4, <1>5, ServeKeeps

LEMMA MoveRowsStep ==
  ASSUME WebInv, NEW s \in WmSlots, WmMoveRows(s), UNCHANGED wmCast
  PROVE  WebInv'
<1> DEFINE t == wmTask[s]
           f == WmTarget(t)
           found == WmFound(t)
<1>1. /\ t.at \in {"found", "aimed"} /\ t.do \in {"move", "archive"} /\ Busy(t)
      /\ WmMoves(t) = t.ids
  BY DEF WmMoveRows, WmAt, Busy, WmMoves
<1>2. /\ t.ids \subseteq WmIds /\ found \subseteq t.ids /\ f \in WmFolders
  BY FoundIs
<1>3. CASE WmExists(f) \/ \A m \in found : ~WmPresent(m)
  <2>1. WmRows(WmPut(found, f)) /\ WmAnswer(s, TRUE) /\ WmOnly
    BY <1>3 DEF WmMoveRows
  <2>2. /\ UNCHANGED wmOwn /\ UNCHANGED wmJunk
        /\ UNCHANGED <<wmMail, wmClient, wmHistory, wmDirty, wmCount>>
    BY <2>1, OnlyIs
  <2>3. /\ RowsStep(t)
        /\ \A m \in WmIds :
              /\ wmRow'[m].flags = wmRow[m].flags
              /\ wmRow'[m].at = IF m \in found /\ WmPresent(m) THEN f ELSE wmRow[m].at
    BY <1>1, <1>2, <1>3, <2>1, <2>2, PutRows
  <2>4. ASSUME NEW m \in WmMoves(t)
        PROVE  /\ OwedOK(t, m) => wmRow'[m].at = wmSaid[m].at
               /\ wmRow[m].at # "gone" => wmRow'[m].at # "gone"
    <3>1. m \in t.ids /\ m \in WmIds
      BY <1>1, <1>2
    <3>2. f # "gone"
      BY <1>2 DEF WmFolders
    <3>3. ASSUME OwedOK(t, m) PROVE wmRow'[m].at = wmSaid[m].at
      <4>1. /\ wmSaid[m].at = Means(t, wmRow[m].at)
            /\ t.read[m].at = IF WmPresent(m) THEN wmRow[m].at ELSE "none"
        BY <1>1, <3>1, <3>3 DEF OwedOK
      <4>2. CASE WmPresent(m)
        <5>1. m \in found
          BY <3>1, <4>1, <4>2 DEF WmFound, WmPresent
        <5>2. Means(t, wmRow[m].at) = f
          BY <1>1, <1>3, <4>2, <5>1 DEF Means, WmMeans, WmPresent
        <5>3. QED
          BY <2>3, <3>1, <4>1, <4>2, <5>1, <5>2
      <4>3. CASE ~WmPresent(m)
        BY <2>3, <3>1, <4>1, <4>3, NamedCame DEF Means
      <4>4. QED
        BY <4>2, <4>3
    <3>4. QED
      BY <2>3, <3>1, <3>2, <3>3
  <2>5. JunkStep
    BY <2>2, JunkSame
  <2>6. QED
    BY <1>1, <2>1, <2>2, <2>3, <2>4, <2>5, AnswerStep DEF OfFlags
<1>4. CASE ~(WmExists(f) \/ \A m \in found : ~WmPresent(m))
  BY <1>4, DiesStep DEF WmMoveRows
<1>5. QED
  BY <1>3, <1>4

LEMMA DeleteRowsStep ==
  ASSUME WebInv, NEW s \in WmSlots, WmDeleteRows(s), UNCHANGED wmCast
  PROVE  WebInv'
<1> DEFINE t == wmTask[s]
           inTrash == {m \in WmFound(t) : t.read[m].at = "Trash"}
<1>1. /\ t.at = "found" /\ t.do = "delete" /\ Busy(t) /\ WmMoves(t) = t.ids
      /\ WmRows(WmDestroyed(inTrash)) /\ WmOnly
      /\ IF WmFound(t) = inTrash THEN WmAnswer(s, TRUE) ELSE WmGoes(s, "rest")
  BY DEF WmDeleteRows, WmAt, Busy, WmMoves
<1>2. /\ t.ids \subseteq WmIds /\ WmFound(t) \subseteq t.ids /\ inTrash \in SUBSET WmIds
  BY FoundIs
<1>3. /\ UNCHANGED wmOwn /\ UNCHANGED wmJunk
      /\ UNCHANGED <<wmMail, wmClient, wmHistory, wmDirty, wmCount>>
      /\ wmSaid' = wmSaid /\ wmOwn \in BOOLEAN
  BY <1>1, OnlyIs, WmTypeIs DEF WebInv
<1>4. \A m \in inTrash : m \in wmBinned
  BY <1>2 DEF WebInv, BinInv, BinOK, WmBins
<1>5. /\ RowsStep(t)
      /\ \A m \in WmIds :
            /\ wmRow'[m].flags = wmRow[m].flags
            /\ wmRow'[m].at = IF m \in inTrash /\ WmPresent(m) THEN "gone" ELSE wmRow[m].at
  BY <1>1, <1>2, <1>3, <1>4, DestroyRows
<1>6. JunkStep
  BY <1>3, JunkSame
<1>7. \A m \in t.ids : m \in inTrash <=> t.read[m].at = "Trash"
  BY <1>2 DEF WmFound
<1>8. ASSUME NEW m \in t.ids, OwedOK(t, m)
      PROVE  /\ wmSaid[m].at = Means(t, wmRow[m].at)
             /\ t.read[m].at = IF WmPresent(m) THEN wmRow[m].at ELSE "none"
             /\ ~WmPresent(m) => wmRow[m].at = "gone"
             /\ m \in inTrash => wmRow'[m].at = "gone" /\ wmSaid[m].at = "gone"
             /\ m \notin inTrash => wmRow'[m].at = wmRow[m].at
  <2>1. /\ wmSaid[m].at = Means(t, wmRow[m].at)
        /\ t.read[m].at = IF WmPresent(m) THEN wmRow[m].at ELSE "none"
    BY <1>1, <1>8 DEF OwedOK
  <2>2. ~WmPresent(m) => wmRow[m].at = "gone"
    BY <1>2, NamedCame
  <2>3. m \in inTrash => WmPresent(m) /\ wmRow[m].at = "Trash"
    BY <1>7, <2>1
  <2>4. Means(t, "Trash") = "gone"
    BY <1>1 DEF Means, WmMeans
  <2>5. QED
    BY <1>2, <1>5, <2>1, <2>2, <2>3, <2>4
<1>9. \A m \in t.ids : wmRow[m].at # "gone" /\ SparesOK(t, m) =>
                       t.read[m].at # "Trash" /\ wmRow'[m].at # "gone"
  BY <1>1, <1>2, <1>5, <1>7 DEF SparesOK
<1>10. CASE WmFound(t) = inTrash
  <2>1. \A m \in t.ids : OwedOK(t, m) => wmRow'[m].at = wmSaid[m].at
    <3> SUFFICES ASSUME NEW m \in t.ids, OwedOK(t, m) PROVE wmRow'[m].at = wmSaid[m].at
      OBVIOUS
    <3>1. WmPresent(m) => m \in inTrash
      BY <1>2, <1>8, <1>10 DEF WmFound, WmPresent
    <3>2. Means(t, "gone") = "gone"
      BY DEF Means
    <3>3. QED
      BY <1>8, <3>1, <3>2
  <2>2. QED
    BY <1>1, <1>3, <1>5, <1>6, <1>9, <1>10, <2>1, AnswerStep DEF OfFlags
<1>11. CASE WmFound(t) # inTrash
  <2>1. PICK n : SameTask(t, n) /\ n.at = "rest" /\ wmTask' = [wmTask EXCEPT ![s] = n]
    BY <1>1, <1>11, GoesIs DEF WebInv, WmAts
  <2>2. n.do = "delete" /\ n.do = t.do /\ n.ids = t.ids /\ n.to = t.to /\ n.read = t.read
    BY <1>1, <2>1 DEF SameTask
  <2>3. ServeStep(s, n)
    BY <1>1, <1>3, <2>1, <2>2, SameServes DEF Wrote
  <2>4. MovesStep(t, n)
    <3>1. ASSUME NEW m \in t.ids, OwedOK(t, m) PROVE OwedOK(n, m)'
      <4>1. n.read[m].at = "Trash" <=> m \in inTrash
        BY <1>7, <2>2
      <4>2. CASE m \in inTrash
        BY <1>3, <1>8, <2>1, <2>2, <3>1, <4>1, <4>2 DEF OwedOK
      <4>3. CASE m \notin inTrash
        <5>1. wmRow'[m].at = wmRow[m].at /\ (WmPresent(m)' <=> WmPresent(m))
          BY <1>8, <3>1, <4>3 DEF WmPresent
        <5>2. Means(n, wmRow[m].at)' = Means(t, wmRow[m].at)
          BY <1>1, <2>2, <5>1 DEF Means, WmMeans
        <5>3. QED
          BY <1>3, <1>8, <2>1, <2>2, <3>1, <4>1, <4>3, <5>1, <5>2 DEF OwedOK
      <4>4. QED
        BY <4>2, <4>3
    <3>2. ASSUME NEW m \in t.ids, wmRow[m].at # "gone", SparesOK(t, m)
          PROVE  wmRow'[m].at # "gone" /\ SparesOK(n, m)'
      BY <1>9, <2>1, <2>2, <3>2 DEF SparesOK
    <3>3. QED
      BY <1>1, <2>1, <3>1, <3>2 DEF MovesStep, Busy
  <2>5. FlagInv'
    BY <1>1, <1>5, <2>3, ServeFlags DEF OfFlags
  <2>6. QED
    BY <1>5, <1>6, <2>3, <2>4, <2>5, ServeKeeps
<1>12. QED
  BY <1>10, <1>11

LEMMA TrashRowsStep ==
  ASSUME WebInv, NEW s \in WmSlots, WmTrashRows(s), UNCHANGED wmCast
  PROVE  WebInv'
<1> DEFINE t == wmTask[s]
           notInTrash == {m \in WmFound(t) : t.read[m].at # "Trash"}
<1>1. /\ t.at \in {"found", "rest"} /\ Busy(t)
      /\ t.at = "found" => t.do = "delete" /\ notInTrash = WmFound(t)
      /\ WmRows(WmPut(notInTrash, "Trash")) /\ WmOnly /\ WmAnswer(s, TRUE)
  BY DEF WmTrashRows, WmAt, Busy
<1>2. /\ t.ids \subseteq WmIds /\ WmFound(t) \subseteq t.ids
      /\ notInTrash \in SUBSET WmIds /\ notInTrash \subseteq t.ids
      /\ t.do = "delete" /\ WmMoves(t) = t.ids /\ "Trash" \in WmFolders /\ WmExists("Trash")
  BY <1>1, FoundIs DEF ShapeOK, WmMoves, WmFolders, WmExists
<1>3. /\ UNCHANGED wmOwn /\ UNCHANGED wmJunk
      /\ UNCHANGED <<wmMail, wmClient, wmHistory, wmDirty, wmCount>>
  BY <1>1, OnlyIs
<1>4. /\ RowsStep(t)
      /\ \A m \in WmIds :
            /\ wmRow'[m].flags = wmRow[m].flags
            /\ wmRow'[m].at = IF m \in notInTrash /\ WmPresent(m) THEN "Trash" ELSE wmRow[m].at
  <2>1. PICK ids \in SUBSET WmIds : ids = notInTrash
    BY <1>2
  <2>2. WmRows(WmPut(ids, "Trash")) /\ ids \subseteq WmMoves(t) /\ wmOwn' = wmOwn
    BY <1>1, <1>2, <1>3, <2>1
  <2>3. /\ RowsStep(t)
        /\ \A m \in WmIds :
             /\ wmRow'[m].flags = wmRow[m].flags
             /\ wmRow'[m].at = IF m \in ids /\ WmPresent(m) THEN "Trash" ELSE wmRow[m].at
    BY <1>2, <2>2, PutRows
  <2>4. QED
    BY <2>1, <2>3
<1>5. JunkStep
  BY <1>3, JunkSame
<1>6. ASSUME NEW m \in t.ids, OwedOK(t, m) PROVE wmRow'[m].at = wmSaid[m].at
  <2>1. ~WmPresent(m) => wmRow[m].at = "gone"
    BY <1>2, NamedCame
  <2>2. m \in notInTrash <=> t.read[m].at \notin {"none", "Trash"}
    BY <1>2 DEF WmFound
  <2>3. wmRow[m].at # "Trash" /\ WmPresent(m) => Means(t, wmRow[m].at) = "Trash"
    BY <1>2 DEF Means, WmMeans, WmPresent
  <2>4. Means(t, "gone") = "gone"
    BY DEF Means
  <2>5. CASE t.at = "rest" /\ t.read[m].at = "Trash"
    BY <1>2, <1>4, <1>6, <2>2, <2>5 DEF OwedOK
  <2>6. CASE ~(t.at = "rest" /\ t.read[m].at = "Trash")
    <3>1. t.read[m].at = IF WmPresent(m) THEN wmRow[m].at ELSE "none"
      BY <1>1, <1>6, <2>6 DEF OwedOK
    <3>2. wmSaid[m].at = Means(t, wmRow[m].at)
      BY <1>1, <1>6, <2>6 DEF OwedOK
    <3>3. t.read[m].at # "Trash"
      BY <1>1, <1>2, <2>6 DEF WmFound
    <3>4. CASE WmPresent(m)
      BY <1>2, <1>4, <2>2, <2>3, <3>1, <3>2, <3>3, <3>4 DEF WmPresent
    <3>5. CASE ~WmPresent(m)
      BY <1>2, <1>4, <2>1, <2>4, <3>2, <3>5
    <3>6. QED
      BY <3>4, <3>5
  <2>7. QED
    BY <2>5, <2>6
<1>7. \A m \in t.ids : wmRow[m].at # "gone" => wmRow'[m].at # "gone"
  BY <1>2, <1>4
<1>8. QED
  BY <1>1, <1>2, <1>3, <1>4, <1>5, <1>6, <1>7, AnswerStep DEF OfFlags

LEMMA EmptyRowsStep ==
  ASSUME WebInv, NEW s \in WmSlots, WmEmptyRows(s), UNCHANGED wmCast
  PROVE  WebInv'
<1> DEFINE t == wmTask[s]
           bin == t.to \in {"Trash", "Junk"}
<1>1. /\ t.at = "found" /\ t.do = "empty" /\ Busy(t) /\ WmMoves(t) = WmIds /\ t.ids = {}
      /\ WmRows(IF bin THEN WmDestroyed(WmIn(t.to)) ELSE WmPut(WmIn(t.to), "Trash"))
      /\ WmOnly /\ WmGoes(s, "count")
  BY FoundIs DEF WmEmptyRows, WmAt, Busy, WmMoves, ShapeOK, Whole
<1>2. /\ UNCHANGED wmOwn /\ UNCHANGED wmJunk
      /\ UNCHANGED <<wmMail, wmClient, wmHistory, wmDirty, wmCount>>
      /\ wmSaid' = wmSaid /\ wmOwn \in BOOLEAN
  BY <1>1, OnlyIs, WmTypeIs DEF WebInv
<1>3. WmIn(t.to) \in SUBSET WmIds /\ \A m \in WmIds : m \in WmIn(t.to) <=> wmRow[m].at = t.to
  BY DEF WmIn
<1>4. t.to \in WmFolders /\ "gone" \notin WmFolders /\ "none" \notin WmFolders
  BY FoundIs DEF WmFolders
<1>5. /\ RowsStep(t)
      /\ \A m \in WmIds :
            /\ wmRow'[m].flags = wmRow[m].flags
            /\ wmRow'[m].at = IF wmRow[m].at # t.to THEN wmRow[m].at
                              ELSE IF bin THEN "gone" ELSE "Trash"
  <2>1. CASE bin
    <3>1. \A m \in WmIn(t.to) : m \in wmBinned
      BY <1>3, <2>1 DEF WebInv, BinInv, BinOK, WmBins
    <3>2. /\ RowsStep(t)
          /\ \A m \in WmIds :
               /\ wmRow'[m].flags = wmRow[m].flags
               /\ wmRow'[m].at = IF m \in WmIn(t.to) /\ WmPresent(m) THEN "gone" ELSE wmRow[m].at
      BY <1>1, <1>2, <1>3, <2>1, <3>1, DestroyRows
    <3>3. QED
      BY <1>3, <1>4, <2>1, <3>2 DEF WmPresent
  <2>2. CASE ~bin
    <3>1. "Trash" \in WmFolders /\ WmExists("Trash")
      BY DEF WmFolders, WmExists
    <3>2. /\ RowsStep(t)
          /\ \A m \in WmIds :
               /\ wmRow'[m].flags = wmRow[m].flags
               /\ wmRow'[m].at = IF m \in WmIn(t.to) /\ WmPresent(m) THEN "Trash"
                                 ELSE wmRow[m].at
      BY <1>1, <1>2, <1>3, <2>2, <3>1, PutRows
    <3>3. QED
      BY <1>3, <1>4, <2>2, <3>2 DEF WmPresent
  <2>3. QED
    BY <2>1, <2>2
<1>6. JunkStep
  BY <1>2, JunkSame
<1>7. PICK n : SameTask(t, n) /\ n.at = "count" /\ wmTask' = [wmTask EXCEPT ![s] = n]
  BY <1>1, GoesIs DEF WebInv, WmAts
<1>8. n.do = "empty" /\ n.ids = {}
  BY <1>1, <1>7 DEF SameTask
<1>9. ServeStep(s, n)
  BY <1>1, <1>2, <1>7, <1>8, SameServes DEF Wrote
<1>10. MovesStep(t, n)
  <2>1. ASSUME NEW m \in WmIds, OwedOK(t, m) PROVE OwedOK(n, m)'
    <3>1. wmSaid[m].at = Means(t, wmRow[m].at)
      BY <1>1, <2>1 DEF OwedOK
    <3>2. Means(t, wmRow[m].at) = wmRow'[m].at
      BY <1>1, <1>4, <1>5 DEF Means, WmMeans
    <3>3. QED
      BY <1>2, <1>7, <1>8, <3>1, <3>2 DEF OwedOK
  <2>2. \A m \in WmIds : ~SparesOK(t, m)
    BY <1>1 DEF SparesOK
  <2>3. QED
    BY <1>1, <1>7, <2>1, <2>2 DEF MovesStep, Busy
<1>11. FlagInv'
  BY <1>1, <1>5, <1>9, ServeFlags DEF OfFlags
<1>12. QED
  BY <1>5, <1>6, <1>9, <1>10, <1>11, ServeKeeps

LEMMA RemoveFolderStep ==
  ASSUME WebInv, NEW s \in WmSlots, WmRemoveFolder(s), UNCHANGED wmCast
  PROVE  WebInv'
<1> DEFINE t == wmTask[s]
<1>1. CASE wmOwn
  <2>1. /\ t.do \in Rmdirs /\ t.at \in {"found", "aimed"}
        /\ t.at = "aimed" => t.do = "rmdirIfEmpty"
        /\ t.at = "found" => t.do = "rmdir"
        /\ Busy(t) /\ WmMoves(t) = WmIds /\ t.to = "Own"
        /\ WmRows(WmDestroyed(WmIn("Own"))) /\ wmOwn' = FALSE /\ WmAnswer(s, TRUE)
        /\ UNCHANGED <<wmMail, wmClient, wmHistory, wmDirty, wmCount>> /\ UNCHANGED wmJunk
    BY <1>1, FoundIs DEF WmRemoveFolder, WmAt, Busy, WmMoves, ShapeOK, Rmdirs
  <2>2. WmIn("Own") \in SUBSET WmIds /\ \A m \in WmIds : m \in WmIn("Own") <=> wmRow[m].at = "Own"
    BY DEF WmIn
  <2>3. \A m \in WmIn("Own") : m \in wmBinned
    BY <2>2 DEF WebInv, BinInv, BinOK, WmBins
  <2>4. /\ RowsStep(t)
        /\ \A m \in WmIds :
             /\ wmRow'[m].flags = wmRow[m].flags
             /\ wmRow'[m].at = IF m \in WmIn("Own") /\ WmPresent(m) THEN "gone" ELSE wmRow[m].at
    BY <1>1, <2>1, <2>2, <2>3, DestroyRows
  <2>5. JunkStep
    BY <2>1, JunkSame
  <2>6. \A m \in WmIds : OwedOK(t, m) => wmRow'[m].at = wmSaid[m].at
    <3> SUFFICES ASSUME NEW m \in WmIds, OwedOK(t, m) PROVE wmRow'[m].at = wmSaid[m].at
      OBVIOUS
    <3>1. wmSaid[m].at = Means(t, wmRow[m].at)
      BY <2>1, <2>6 DEF OwedOK
    <3>2. t.do = "rmdirIfEmpty" => wmRow[m].at # "Own"
      BY <2>1, <2>6 DEF OwedOK
    <3>3. Means(t, wmRow[m].at) = IF wmRow[m].at = "Own" THEN "gone" ELSE wmRow[m].at
      BY <2>1, <3>2 DEF Means, WmMeans, Rmdirs
    <3>4. QED
      BY <2>2, <2>4, <3>1, <3>3 DEF WmPresent
  <2>7. \A m \in WmIds : ~SparesOK(t, m)
    BY <2>1 DEF SparesOK, Rmdirs
  <2>8. QED
    BY <2>1, <2>4, <2>5, <2>6, <2>7, AnswerStep DEF OfFlags, Rmdirs
<1>2. CASE ~wmOwn
  BY <1>2, DiesStep DEF WmRemoveFolder
<1>3. QED
  BY <1>1, <1>2

LEMMA EraseRowStep ==
  ASSUME WebInv, NEW s \in WmSlots, WmEraseRow(s), UNCHANGED wmCast
  PROVE  WebInv'
<1> DEFINE t == wmTask[s]
<1>1. CASE \A m \in t.ids : WmPresent(m)
  <2>1. /\ t.do \in {"trash", "erase"} /\ t.at = "found" /\ Busy(t) /\ WmMoves(t) = t.ids
        /\ WmRows(IF t.do = "erase" THEN WmDestroyed(t.ids) ELSE WmPut(t.ids, "Trash"))
        /\ WmAnswer(s, TRUE) /\ WmOnly
    BY <1>1 DEF WmEraseRow, WmAt, Busy, WmMoves
  <2>2. /\ UNCHANGED wmOwn /\ UNCHANGED wmJunk
        /\ UNCHANGED <<wmMail, wmClient, wmHistory, wmDirty, wmCount>>
        /\ wmOwn \in BOOLEAN
    BY <2>1, OnlyIs, WmTypeIs DEF WebInv
  <2>3. t.ids \in SUBSET WmIds /\ "Trash" \in WmFolders /\ WmExists("Trash")
    BY FoundIs DEF WmFolders, WmExists
  <2>4. /\ RowsStep(t)
        /\ \A m \in WmIds :
             /\ wmRow'[m].flags = wmRow[m].flags
             /\ wmRow'[m].at = IF m \notin t.ids THEN wmRow[m].at
                               ELSE IF t.do = "erase" THEN "gone" ELSE "Trash"
    <3>1. CASE t.do = "erase"
      <4>1. \A m \in t.ids : m \in wmBinned
        BY <2>3, <3>1 DEF WebInv, BinInv, BinOK
      <4>2. /\ RowsStep(t)
            /\ \A m \in WmIds :
                 /\ wmRow'[m].flags = wmRow[m].flags
                 /\ wmRow'[m].at = IF m \in t.ids /\ WmPresent(m) THEN "gone" ELSE wmRow[m].at
        BY <2>1, <2>2, <2>3, <3>1, <4>1, DestroyRows
      <4>3. QED
        BY <1>1, <3>1, <4>2
    <3>2. CASE t.do # "erase"
      <4>1. /\ RowsStep(t)
            /\ \A m \in WmIds :
                 /\ wmRow'[m].flags = wmRow[m].flags
                 /\ wmRow'[m].at = IF m \in t.ids /\ WmPresent(m) THEN "Trash" ELSE wmRow[m].at
        BY <2>1, <2>2, <2>3, <3>2, PutRows
      <4>2. QED
        BY <1>1, <3>2, <4>1
    <3>3. QED
      BY <3>1, <3>2
  <2>5. JunkStep
    BY <2>2, JunkSame
  <2>6. \A m \in t.ids : OwedOK(t, m) => wmRow'[m].at = wmSaid[m].at
    <3> SUFFICES ASSUME NEW m \in t.ids, OwedOK(t, m) PROVE wmRow'[m].at = wmSaid[m].at
      OBVIOUS
    <3>1. wmSaid[m].at = Means(t, wmRow[m].at)
      BY <2>1 DEF OwedOK
    <3>2. Means(t, wmRow[m].at) = IF t.do = "erase" THEN "gone" ELSE "Trash"
      BY <1>1, <2>1, <2>3 DEF Means, WmMeans, WmPresent, WmTarget
    <3>3. QED
      BY <2>3, <2>4, <3>1, <3>2
  <2>7. \A m \in t.ids : ~SparesOK(t, m)
    BY <2>1 DEF SparesOK
  <2>8. QED
    BY <2>1, <2>2, <2>4, <2>5, <2>6, <2>7, AnswerStep DEF OfFlags
<1>2. CASE ~\A m \in t.ids : WmPresent(m)
  BY <1>2, DiesStep DEF WmEraseRow
<1>3. QED
  BY <1>1, <1>2

LEMMA JudgeStep ==
  ASSUME WebInv, NEW s \in WmSlots, NEW k \in WmWorks, WmJudge(s, k), UNCHANGED wmCast
  PROVE  WebInv'
<1> DEFINE t == wmTask[s]
           f == WmTarget(t)
           found == WmFound(t)
<1>1. /\ t.at = "found" /\ t.do \in {"spam", "notSpam"} /\ Busy(t) /\ WmMoves(t) = t.ids
      /\ WmRows(WmPut(found, f)) /\ WmAnswer(s, TRUE)
      /\ UNCHANGED <<wmOwn, wmMail, wmClient, wmHistory, wmBlocked, wmDirty, wmCount>>
  BY DEF WmJudge, WmAt, Busy, WmMoves
<1>2. /\ wmWork[k].at = "idle" /\ wmVerdict' = t.do
      /\ wmWork' = [wmWork EXCEPT ![k] = [do |-> t.do, at |-> "senders", ids |-> found]]
      /\ wmMuddled' = \E j \in WmWorks : wmWork[j].at # "idle"
  BY DEF WmJudge
<1>3. /\ t.ids \subseteq WmIds /\ found \subseteq t.ids /\ f \in WmFolders /\ WmExists(f)
      /\ f # "gone"
  BY <1>1, FoundIs DEF WmTarget, WmExists, WmFolders
<1>4. /\ RowsStep(t)
      /\ \A m \in WmIds :
            /\ wmRow'[m].flags = wmRow[m].flags
            /\ wmRow'[m].at = IF m \in found /\ WmPresent(m) THEN f ELSE wmRow[m].at
  BY <1>1, <1>3, PutRows
<1>5. JunkStep
  <2>1. wmWork \in [WmWorks -> WmWorkType] /\ wmBlocked \in BOOLEAN
    BY WmTypeIs DEF WebInv
  <2>2. [do |-> t.do, at |-> "senders", ids |-> found] \in WmWorkType
    BY <1>1, <1>3 DEF WmWorkType
  <2>3. PICK w \in WmWorkType : w = [do |-> t.do, at |-> "senders", ids |-> found]
    BY <2>2
  <2>4. wmWork' = [wmWork EXCEPT ![k] = w] /\ w.do = t.do /\ w.at = "senders" /\ w.ids = found
    BY <1>2, <2>3
  <2>5. /\ wmWork' \in [WmWorks -> WmWorkType] /\ wmWork'[k] = w
        /\ \A j \in WmWorks : j # k => wmWork'[j] = wmWork[j]
    BY <2>1, <2>4
  <2>6. \A j \in WmWorks : \/ wmWork'[j].ids \subseteq wmWork[j].ids
                           \/ \A m \in wmWork'[j].ids : wmRow[m].at # "none"
    <3>1. \A m \in found : wmRow[m].at # "none"
      BY <1>3, NamedCame
    <3>2. QED
      BY <2>4, <2>5, <3>1
  <2>7. /\ wmMuddled' \in BOOLEAN /\ wmBlocked' \in BOOLEAN
        /\ wmVerdict' \in {"none", "spam", "notSpam"}
    BY <1>1, <1>2, <2>1
  <2>8. JunkInv'
    <3>1. \A j \in WmWorks : wmWork'[j].at \in {"exists", "create"} => wmWork'[j].do = "spam"
      BY <2>4, <2>5 DEF WebInv, JunkInv
    <3>2. \A j \in WmWorks : wmWork'[j].at = "remove" => wmWork'[j].do = "notSpam"
      BY <2>4, <2>5 DEF WebInv, JunkInv
    <3>3. ~wmMuddled' => \A j \in WmWorks : j # k => wmWork'[j].at = "idle"
      BY <1>2, <2>5
    <3>4. QED
      BY <1>2, <2>4, <2>5, <3>1, <3>2, <3>3 DEF JunkInv
  <2>9. QED
    BY <2>5, <2>6, <2>7, <2>8 DEF JunkStep
<1>6. ASSUME NEW m \in t.ids, OwedOK(t, m) PROVE wmRow'[m].at = wmSaid[m].at
  <2>1. /\ wmSaid[m].at = Means(t, wmRow[m].at)
        /\ t.read[m].at = IF WmPresent(m) THEN wmRow[m].at ELSE "none"
    BY <1>1, <1>6 DEF OwedOK
  <2>2. CASE WmPresent(m)
    <3>1. m \in found
      BY <1>3, <2>1, <2>2 DEF WmFound, WmPresent
    <3>2. Means(t, wmRow[m].at) = f
      BY <1>1, <1>3, <2>2 DEF Means, WmMeans, WmPresent
    <3>3. QED
      BY <1>3, <1>4, <2>1, <2>2, <3>1, <3>2
  <2>3. CASE ~WmPresent(m)
    BY <1>3, <1>4, <2>1, <2>3, NamedCame DEF Means
  <2>4. QED
    BY <2>2, <2>3
<1>7. \A m \in t.ids : wmRow[m].at # "gone" => wmRow'[m].at # "gone"
  BY <1>3, <1>4
<1>8. QED
  BY <1>1, <1>4, <1>5, <1>6, <1>7, AnswerStep DEF OfFlags

-----------------------------------------------------------------------------
(* Counters follow.                                                        *)
LEMMA CountersStep ==
  ASSUME WebInv, NEW s \in WmSlots, WmCounters(s), UNCHANGED wmCast
  PROVE  WebInv'
<1> DEFINE t == wmTask[s]
<1>1. CASE WmAnswer(s, TRUE) /\ WmStays
  <2>1. /\ t.at = "count" /\ Busy(t) /\ t.do \in {"open", "empty"}
        /\ WmMoves(t) \subseteq WmIds
        /\ t.do = "open" => WmMoves(t) = {}
    BY FoundIs DEF WmCounters, WmAt, Busy, ShapeOK, WmMoves
  <2>2. /\ UNCHANGED wmStore /\ UNCHANGED wmJunk /\ wmRow' = wmRow /\ wmOwn' = wmOwn
        /\ UNCHANGED <<wmMail, wmClient, wmHistory, wmDirty, wmCount>>
        /\ wmSaid' = wmSaid /\ wmMixed' = wmMixed
    BY <1>1, StaysIs
  <2>3. RowsStep(t) /\ \A m \in WmIds : wmRow'[m] = wmRow[m]
    BY <2>2, RowsSame
  <2>4. PICK n : /\ SameTask(t, n) /\ n.at = "answered" /\ n.ok = TRUE
                 /\ wmTask' = [wmTask EXCEPT ![s] = n]
    BY <1>1, WmAnswerIs DEF WebInv
  <2>5. ServeStep(s, n)
    <3>1. Wrote(n) \/ ~Wrote(t)
      BY <2>1, <2>4 DEF Wrote, SameTask, OfFlags
    <3>2. QED
      BY <2>1, <2>2, <2>3, <2>4, <3>1, SameServes
  <2>6. MovesStep(t, n)
    <3>1. \A m \in WmMoves(t) : OwedOK(t, m) => wmRow'[m].at = wmSaid[m].at
      BY <2>1, <2>3 DEF OwedOK
    <3>2. \A m \in WmMoves(t) : ~SparesOK(t, m)
      BY <2>1 DEF SparesOK
    <3>3. QED
      BY <2>4, <3>1, <3>2 DEF MovesStep, Busy
  <2>7. FlagInv'
    <3>1. CASE t.do = "empty"
      BY <2>3, <2>5, <3>1, ServeFlags DEF OfFlags
    <3>2. CASE t.do = "open"
      <4>1. ASSUME NEW m \in WmIds, NEW f \in WmFlags PROVE FlagOK(m, f)'
        <5>1. FlagOK(m, f) /\ wmRow'[m] = wmRow[m]
          BY <2>3 DEF WebInv, FlagInv
        <5>2. /\ wmTask'[s] = n /\ \A q \in WmSlots : q # s => wmTask'[q] = wmTask[q]
              /\ WmMarks(n) = {} /\ WmMarks(t) = {}
          <6>1. WmMarks(t) = {}
            BY <3>2 DEF WmMarks
          <6>2. QED
            BY <2>5, <6>1, ServeTasks DEF WebInv
        <5>3. \A q \in WmSlots : /\ Marker(m, q)' <=> Marker(m, q)
                                 /\ Opener(m, q)' => Opener(m, q)
                                 /\ Opening(m, q)' <=> Opening(m, q)
                                 /\ Marker(m, q) \/ Opening(m, q) => wmTask'[q] = wmTask[q]
          BY <2>1, <2>4, <5>2 DEF Marker, Opener, Opening, Busy, WmMarks, WmOpens
        <5>4. CASE <<m, f>> \notin wmMixed /\ wmRow[m].at # "gone"
          <6>1. ASSUME NEW q \in WmSlots, Marker(m, q)' PROVE MarkOK(wmTask[q], m, f)'
            BY <2>2, <5>1, <5>3, <5>4, <6>1 DEF FlagOK, MarkOK, WmFlagsBy, WmWritten
          <6>2. ASSUME NEW q \in WmSlots, f = "Seen", Opening(m, q)'
                PROVE  OpenOK(wmTask[q], m)'
            BY <2>2, <5>1, <5>3, <5>4, <6>2 DEF FlagOK, OpenOK
          <6>3. QED
            BY <2>2, <5>1, <5>3, <5>4, <6>1, <6>2 DEF FlagOK
        <5>5. QED
          BY <2>2, <5>1, <5>4 DEF FlagOK
      <4>2. QED
        BY <4>1 DEF FlagInv
    <3>3. QED
      BY <2>1, <3>1, <3>2
  <2>8. JunkStep
    BY <2>2, JunkSame
  <2>9. QED
    BY <2>3, <2>5, <2>6, <2>7, <2>8, ServeKeeps
<1>2. CASE WmDies
  BY <1>2, DiesStep
<1>3. QED
  BY <1>1, <1>2 DEF WmCounters

-----------------------------------------------------------------------------
(* Flags.                                                                  *)
LEMMA MarkRowsStep ==
  ASSUME WebInv, NEW s \in WmSlots, WmMarkRows(s), UNCHANGED wmCast
  PROVE  WebInv'
<1> DEFINE t == wmTask[s]
           found == WmFound(t)
<1>1. /\ t.at = "found" /\ t.do \in {"mark", "patch", "reply"} /\ Busy(t) /\ WmMoves(t) = {}
      /\ WmMarks(t) = t.ids /\ WmOpens(t) = {} /\ ~Wrote(t)
  BY DEF WmMarkRows, WmAt, Busy, WmMoves, WmMarks, WmOpens, Wrote
<1>2. /\ t \in WmTaskType /\ t.ids \subseteq WmIds /\ found \subseteq t.ids
  BY FoundIs
<1>3. CASE \A m \in found : WmPresent(m)
  <2>1. /\ wmRow' = [m \in WmIds |->
              IF m \in found THEN [wmRow[m] EXCEPT !.flags = WmWritten(t, t.read[m].flags)]
              ELSE wmRow[m]]
        /\ wmBinned' = wmBinned \cup {m \in WmIds : wmRow'[m].at \in WmBins}
        /\ WmAnswer(s, TRUE) /\ WmOnly
    BY <1>3 DEF WmMarkRows, WmRows
  <2>2. /\ UNCHANGED wmOwn /\ UNCHANGED wmJunk
        /\ UNCHANGED <<wmMail, wmClient, wmHistory, wmDirty, wmCount>>
        /\ wmSaid' = wmSaid /\ wmMixed' = wmMixed
    BY <2>1, OnlyIs
  <2>3. \A m \in WmIds : WmWritten(t, t.read[m].flags) \subseteq WmFlags
    <3> SUFFICES ASSUME NEW m \in WmIds PROVE WmWritten(t, t.read[m].flags) \subseteq WmFlags
      OBVIOUS
    <3>1. t.read[m].flags \subseteq WmFlags /\ t.flag \in WmFlags /\ t.list \subseteq WmFlags
      BY <1>2, WmTaskIs, WmRowIs
    <3>2. QED
      BY <3>1 DEF WmFlagsBy, WmWritten
  <2>4. ASSUME NEW m \in WmIds
        PROVE  /\ wmRow'[m] \in WmRowType /\ wmRow'[m].at = wmRow[m].at
               /\ wmRow'[m].flags = IF m \in found THEN WmWritten(t, t.read[m].flags)
                                    ELSE wmRow[m].flags
               /\ wmRow'[m] # wmRow[m] => m \in found
    <3>1. \A row \in WmRowType, flags \in SUBSET WmFlags :
            /\ [row EXCEPT !.flags = flags] \in WmRowType
            /\ [row EXCEPT !.flags = flags].at = row.at
            /\ [row EXCEPT !.flags = flags].flags = flags
      BY DEF WmRowType
    <3>2. wmRow'[m] = IF m \in found
                      THEN [wmRow[m] EXCEPT !.flags = WmWritten(t, t.read[m].flags)]
                      ELSE wmRow[m]
      BY <2>1
    <3>3. wmRow[m] \in WmRowType
      BY WmRowsAre DEF WebInv
    <3>4. QED
      BY <2>3, <3>1, <3>2, <3>3
  <2>5. RowsStep(t)
    <3>1. wmRow' \in [WmIds -> WmRowType]
      BY <2>1, <2>4
    <3>2. OwnInv'
      BY <2>2, <2>4 DEF WebInv, OwnInv
    <3>3. wmOwn' \in BOOLEAN /\ wmBinned' \subseteq WmIds /\ wmBinned \subseteq wmBinned'
      BY <2>1, <2>2, WmTypeIs DEF WebInv
    <3>4. \A m \in WmIds : wmRow[m].at = "gone" => m \in wmBinned
      BY DEF WebInv, BinInv, BinOK
    <3>5. QED
      BY <1>3, <2>1, <2>2, <2>4, <3>1, <3>2, <3>3, <3>4 DEF RowsStep, WmPresent
  <2>6. PICK n : /\ SameTask(t, n) /\ n.at = "answered" /\ n.ok = TRUE
                 /\ wmTask' = [wmTask EXCEPT ![s] = n]
    BY <2>1, WmAnswerIs DEF WebInv
  <2>7. ServeStep(s, n)
    BY <1>1, <2>2, <2>4, <2>6, SameServes
  <2>8. MovesStep(t, n)
    BY <1>1 DEF MovesStep
  <2>9. FlagInv'
    <3>1. ASSUME NEW m \in WmIds, NEW f \in WmFlags PROVE FlagOK(m, f)'
      <4>1. CASE m \notin t.ids
        BY <1>1, <1>2, <2>4, <2>5, <2>7, <4>1, ServeFlag
      <4>2. CASE m \in t.ids
        BY <1>1, <2>4, <2>5, <2>6, <2>7, <4>2, MarkedFlag DEF WmFound
      <4>3. QED
        BY <4>1, <4>2
    <3>2. QED
      BY <3>1 DEF FlagInv, FlagOK
  <2>10. JunkStep
    BY <2>2, JunkSame
  <2>11. QED
    BY <2>5, <2>7, <2>8, <2>9, <2>10, ServeKeeps
<1>4. CASE ~\A m \in found : WmPresent(m)
  BY <1>4, DiesStep DEF WmMarkRows
<1>5. QED
  BY <1>3, <1>4

LEMMA FileRowStep ==
  ASSUME WebInv, NEW s \in WmSlots, WmFileRow(s), UNCHANGED wmCast
  PROVE  WebInv'
<1> DEFINE t == wmTask[s]
<1>1. /\ t.at = "aimed" /\ t.do = "file" /\ Busy(t) /\ WmMoves(t) = t.ids
      /\ WmMarks(t) = t.ids /\ WmOpens(t) = {} /\ ~Wrote(t)
  BY DEF WmFileRow, WmAt, Busy, WmMoves, WmMarks, WmOpens, Wrote
<1>2. /\ t \in WmTaskType /\ t.ids \subseteq WmIds /\ t.to \in WmFolders
  BY FoundIs, WmTaskIs
<1>3. CASE WmExists(t.to) /\ \A m \in t.ids : WmPresent(m)
  <2>1. /\ wmRow' = [m \in WmIds |->
              IF m \in t.ids THEN [at |-> t.to, flags |-> t.read[m].flags] ELSE wmRow[m]]
        /\ wmBinned' = wmBinned \cup {m \in WmIds : wmRow'[m].at \in WmBins}
        /\ WmAnswer(s, TRUE) /\ WmOnly
    BY <1>3 DEF WmFileRow, WmRows
  <2>2. /\ UNCHANGED wmOwn /\ UNCHANGED wmJunk
        /\ UNCHANGED <<wmMail, wmClient, wmHistory, wmDirty, wmCount>>
        /\ wmSaid' = wmSaid /\ wmMixed' = wmMixed
    BY <2>1, OnlyIs
  <2>3. ASSUME NEW m \in WmIds
        PROVE  /\ wmRow'[m] \in WmRowType
               /\ m \in t.ids => wmRow'[m].at = t.to /\ wmRow'[m].flags = t.read[m].flags
               /\ m \notin t.ids => wmRow'[m] = wmRow[m]
    <3>1. t.read[m].flags \subseteq WmFlags /\ wmRow[m] \in WmRowType
      BY <1>2, WmTaskIs, WmRowIs, WmRowsAre DEF WebInv
    <3>2. wmRow'[m] = IF m \in t.ids THEN [at |-> t.to, flags |-> t.read[m].flags] ELSE wmRow[m]
      BY <2>1
    <3>3. QED
      BY <1>2, <3>1, <3>2 DEF WmRowType
  <2>4. t.to \notin {"none", "gone"}
    BY <1>2 DEF WmFolders
  <2>5. RowsStep(t)
    <3>1. wmRow' \in [WmIds -> WmRowType]
      BY <2>1, <2>3
    <3>2. OwnInv'
      BY <1>3, <2>2, <2>3 DEF WebInv, OwnInv, WmExists
    <3>3. wmOwn' \in BOOLEAN /\ wmBinned' \subseteq WmIds /\ wmBinned \subseteq wmBinned'
      BY <2>1, <2>2, WmTypeIs DEF WebInv
    <3>4. \A m \in WmIds : wmRow[m].at = "gone" => m \in wmBinned
      BY DEF WebInv, BinInv, BinOK
    <3>5. ASSUME NEW m \in WmIds
          PROVE  /\ wmRow'[m] # wmRow[m] => WmPresent(m) /\ wmRow'[m].at # "none"
                 /\ wmRow'[m].at # wmRow[m].at => m \in WmMoves(t)
                 /\ wmRow'[m].at \in WmBins => m \in wmBinned'
                 /\ wmRow'[m].at = "gone" => m \in wmBinned
      BY <1>1, <1>3, <2>1, <2>3, <2>4, <3>4
    <3>6. QED
      BY <2>2, <3>1, <3>2, <3>3, <3>5 DEF RowsStep
  <2>6. PICK n : /\ SameTask(t, n) /\ n.at = "answered" /\ n.ok = TRUE
                 /\ wmTask' = [wmTask EXCEPT ![s] = n]
    BY <2>1, WmAnswerIs DEF WebInv
  <2>7. Wrote(n)
    BY <1>1, <2>6 DEF Wrote, SameTask, OfFlags
  <2>8. ServeStep(s, n)
    BY <1>1, <2>2, <2>6, <2>7, SameServes
  <2>9. MovesStep(t, n)
    <3>1. ASSUME NEW m \in WmMoves(t), OwedOK(t, m) PROVE wmRow'[m].at = wmSaid[m].at
      <4>1. wmSaid[m].at = Means(t, wmRow[m].at) /\ WmPresent(m) /\ wmRow'[m].at = t.to
        BY <1>1, <1>2, <1>3, <2>3, <3>1 DEF OwedOK
      <4>2. Means(t, wmRow[m].at) = t.to
        BY <1>1, <1>3, <4>1 DEF Means, WmMeans, WmTarget, WmPresent
      <4>3. QED
        BY <4>1, <4>2
    <3>2. \A m : ~SparesOK(t, m)
      BY <1>1 DEF SparesOK
    <3>3. QED
      BY <2>6, <3>1, <3>2 DEF MovesStep, Busy
  <2>10. FlagInv'
    <3>1. ASSUME NEW m \in WmIds, NEW f \in WmFlags PROVE FlagOK(m, f)'
      <4>1. CASE m \notin t.ids
        BY <1>1, <2>3, <2>5, <2>8, <4>1, ServeFlag
      <4>2. CASE m \in t.ids
        <5>1. WmWritten(t, t.read[m].flags) = t.read[m].flags
          BY <1>1 DEF WmWritten, WmFlagsBy
        <5>2. QED
          BY <1>1, <2>3, <2>5, <2>6, <2>8, <4>2, <5>1, MarkedFlag
      <4>3. QED
        BY <4>1, <4>2
    <3>2. QED
      BY <3>1 DEF FlagInv
  <2>11. JunkStep
    BY <2>2, JunkSame
  <2>12. QED
    BY <2>5, <2>8, <2>9, <2>10, <2>11, ServeKeeps
<1>4. CASE ~(WmExists(t.to) /\ \A m \in t.ids : WmPresent(m))
  BY <1>4, DiesStep DEF WmFileRow
<1>5. QED
  BY <1>3, <1>4

(* A message that is opened ends up seen, whoever else opens it, and its   *)
(* other flags are left alone.                                             *)
LEMMA OpenedFlag ==
  ASSUME WebInv, NEW s \in WmSlots, NEW n, ServeStep(s, n), NEW m \in WmIds, NEW f \in WmFlags,
         wmTask[s].do = "open", wmTask[s].at = "found", n.at \in {"count", "answered"},
         m \in wmTask[s].ids, wmRow'[m].at = wmRow[m].at,
         wmRow[m].flags \subseteq wmRow'[m].flags,
         wmRow'[m].flags \subseteq wmRow[m].flags \cup {"Seen"},
         "Seen" \in wmTask[s].read[m].flags \/ "Seen" \in wmRow'[m].flags
  PROVE  FlagOK(m, f)'
<1>1. wmMixed' = wmMixed /\ wmSaid' = wmSaid
  BY DEF ServeStep, wmHistory
<1>2. FlagOK(m, f)
  BY DEF WebInv, FlagInv
<1>3. /\ wmTask'[s] = n /\ \A q \in WmSlots : q # s => wmTask'[q] = wmTask[q]
      /\ WmMarks(n) = {} /\ WmMarks(wmTask[s]) = {}
  <2>1. WmMarks(wmTask[s]) = {}
    BY DEF WmMarks
  <2>2. QED
    BY <2>1, ServeTasks DEF WebInv
<1>4. /\ Opening(m, s) /\ ~Opening(m, s)'
  BY <1>3 DEF Opening, Opener, WmOpens, Busy
<1>5. \A q \in WmSlots : /\ Marker(m, q)' <=> Marker(m, q)
                         /\ Opener(m, q)' => Opener(m, q)
                         /\ q # s => (Opening(m, q)' <=> Opening(m, q))
                         /\ Marker(m, q) => wmTask'[q] = wmTask[q]
  <2>1. Opener(m, s)
    BY <1>4 DEF Opening
  <2>2. ~Marker(m, s) /\ ~Marker(m, s)'
    BY <1>3 DEF Marker
  <2>3. QED
    BY <1>3, <2>1, <2>2 DEF Marker, Opener, Opening
<1>6. CASE <<m, f>> \notin wmMixed /\ wmRow[m].at # "gone"
  <2>1. CASE f = "Seen"
    <3>1. OpenOK(wmTask[s], m)
      BY <1>2, <1>4, <1>6, <2>1 DEF FlagOK
    <3>2. "Seen" \in wmRow'[m].flags /\ "Seen" \in wmSaid'[m].flags
      BY <1>1, <3>1 DEF OpenOK
    <3>3. \A q \in WmSlots : ~Marker(m, q)'
      BY <1>2, <1>4, <1>5, <1>6, <2>1 DEF FlagOK, Opening
    <3>4. ASSUME NEW q \in WmSlots, Opening(m, q)' PROVE OpenOK(wmTask[q], m)'
      BY <3>2 DEF OpenOK
    <3>5. QED
      BY <2>1, <3>2, <3>3, <3>4 DEF FlagOK
  <2>2. CASE f # "Seen"
    <3>1. (f \in wmRow'[m].flags) <=> (f \in wmRow[m].flags)
      BY <2>2
    <3>2. ASSUME NEW q \in WmSlots, Marker(m, q)' PROVE MarkOK(wmTask[q], m, f)'
      BY <1>1, <1>2, <1>5, <1>6, <3>1, <3>2 DEF FlagOK, MarkOK, WmFlagsBy, WmWritten
    <3>3. QED
      BY <1>1, <1>2, <1>5, <1>6, <2>2, <3>1, <3>2 DEF FlagOK
  <2>3. QED
    BY <2>1, <2>2
<1>7. QED
  BY <1>1, <1>6 DEF FlagOK

LEMMA MarkSeenStep ==
  ASSUME WebInv, NEW s \in WmSlots, WmMarkSeen(s), UNCHANGED wmCast
  PROVE  WebInv'
<1> DEFINE t == wmTask[s]
<1>1. /\ t.at = "found" /\ t.do = "open" /\ Busy(t) /\ WmMoves(t) = {} /\ ~Wrote(t)
      /\ WmMarks(t) = {} /\ WmOpens(t) = t.ids
  BY DEF WmMarkSeen, WmAt, Busy, WmMoves, Wrote, WmMarks, WmOpens
<1>2. PICK x \in WmIds : t.ids = {x}
  <2>1. t.at # "idle"
    BY <1>1
  <2>2. QED
    BY <1>1, <2>1, FoundIs DEF ShapeOK, Single
<1>3. (CHOOSE i \in WmIds : i \in t.ids) = x
  BY <1>2
<1>4. CASE "Seen" \in t.read[x].flags
  <2>1. WmAnswer(s, TRUE) /\ WmStays
    BY <1>3, <1>4 DEF WmMarkSeen
  <2>2. /\ UNCHANGED wmStore /\ UNCHANGED wmJunk /\ wmRow' = wmRow /\ wmOwn' = wmOwn
        /\ UNCHANGED <<wmMail, wmClient, wmHistory, wmDirty, wmCount>>
    BY <2>1, StaysIs
  <2>3. RowsStep(t) /\ \A m \in WmIds : wmRow'[m] = wmRow[m]
    BY <2>2, RowsSame
  <2>4. PICK n : /\ SameTask(t, n) /\ n.at = "answered" /\ n.ok = TRUE
                 /\ wmTask' = [wmTask EXCEPT ![s] = n]
    BY <2>1, WmAnswerIs DEF WebInv
  <2>5. ServeStep(s, n)
    BY <1>1, <2>2, <2>3, <2>4, SameServes
  <2>6. MovesStep(t, n)
    BY <1>1 DEF MovesStep
  <2>7. FlagInv'
    <3>1. ASSUME NEW m \in WmIds, NEW f \in WmFlags PROVE FlagOK(m, f)'
      <4>1. CASE m = x
        BY <1>1, <1>2, <1>4, <2>3, <2>4, <2>5, <4>1, OpenedFlag
      <4>2. CASE m # x
        BY <1>1, <1>2, <2>3, <2>5, <4>2, ServeFlag
      <4>3. QED
        BY <4>1, <4>2
    <3>2. QED
      BY <3>1 DEF FlagInv
  <2>8. JunkStep
    BY <2>2, JunkSame
  <2>9. QED
    BY <2>3, <2>5, <2>6, <2>7, <2>8, ServeKeeps
<1>5. CASE "Seen" \notin t.read[x].flags /\ WmPresent(x)
  <2>1. /\ WmRows([wmRow EXCEPT ![x].flags = @ \cup {"Seen"}])
        /\ WmGoes(s, "count") /\ WmOnly
    BY <1>3, <1>5 DEF WmMarkSeen
  <2>2. /\ UNCHANGED wmOwn /\ UNCHANGED wmJunk
        /\ UNCHANGED <<wmMail, wmClient, wmHistory, wmDirty, wmCount>>
    BY <2>1, OnlyIs
  <2>3. PICK row \in WmRowType : row = wmRow[x]
    BY WmRowsAre DEF WebInv
  <2>4. PICK r \in WmRowType : r = [row EXCEPT !.flags = @ \cup {"Seen"}]
    BY DEF WmRowType, WmFlags
  <2>5. r.at = wmRow[x].at /\ r.flags = wmRow[x].flags \cup {"Seen"}
    BY <2>3, <2>4 DEF WmRowType
  <2>6. /\ wmRow' \in [WmIds -> WmRowType] /\ wmRow'[x] = r
        /\ \A m \in WmIds : m # x => wmRow'[m] = wmRow[m]
        /\ wmBinned' = wmBinned \cup {m \in WmIds : wmRow'[m].at \in WmBins}
    BY <2>1, <2>3, <2>4, WmTypeIs DEF WebInv, WmRows
  <2>7. \A m \in WmIds : wmRow'[m].at = wmRow[m].at
    BY <2>5, <2>6
  <2>8. RowsStep(t)
    <3>1. OwnInv'
      BY <2>2, <2>7 DEF WebInv, OwnInv
    <3>2. wmOwn' \in BOOLEAN /\ wmBinned' \subseteq WmIds /\ wmBinned \subseteq wmBinned'
      BY <2>2, <2>6, WmTypeIs DEF WebInv
    <3>3. \A m \in WmIds : wmRow[m].at = "gone" => m \in wmBinned
      BY DEF WebInv, BinInv, BinOK
    <3>4. QED
      BY <1>5, <2>2, <2>6, <2>7, <3>1, <3>2, <3>3 DEF RowsStep, WmPresent
  <2>9. PICK n : SameTask(t, n) /\ n.at = "count" /\ wmTask' = [wmTask EXCEPT ![s] = n]
    BY <2>1, GoesIs DEF WebInv, WmAts
  <2>10. n.do = "open"
    BY <1>1, <2>9 DEF SameTask
  <2>11. ServeStep(s, n)
    BY <1>1, <2>2, <2>7, <2>9, <2>10, SameServes
  <2>12. MovesStep(t, n)
    BY <1>1 DEF MovesStep
  <2>13. FlagInv'
    <3>1. ASSUME NEW m \in WmIds, NEW f \in WmFlags PROVE FlagOK(m, f)'
      <4>1. CASE m = x
        BY <1>1, <1>2, <2>5, <2>6, <2>9, <2>11, <4>1, OpenedFlag
      <4>2. CASE m # x
        BY <1>1, <1>2, <2>6, <2>8, <2>11, <4>2, ServeFlag
      <4>3. QED
        BY <4>1, <4>2
    <3>2. QED
      BY <3>1 DEF FlagInv
  <2>14. JunkStep
    BY <2>2, JunkSame
  <2>15. QED
    BY <2>8, <2>11, <2>12, <2>13, <2>14, ServeKeeps
<1>6. CASE "Seen" \notin t.read[x].flags /\ ~WmPresent(x)
  BY <1>3, <1>6, DiesStep DEF WmMarkSeen
<1>7. QED
  BY <1>4, <1>5, <1>6

-----------------------------------------------------------------------------
(* A request that is sent.                                                 *)
AskOK(t) ==
  /\ t \in WmTaskType /\ t.at = "idle"
  /\ t.do \in Whole => t.ids = {}
  /\ t.do \in Rmdirs => t.to = "Own"
  /\ t.do \in Single => \E m \in WmIds : t.ids = {m}
  /\ t.do = "open" => t.flag = "Seen" /\ t.on
  /\ \A m \in WmIds : t.read[m] = WmNoMail
  /\ \A m \in t.ids : wmRow[m].at # "none"

(* What it offers to undo.                                                 *)
ToastOK(t, toast) ==
  /\ toast \in WmToastType /\ \A m \in toast.ids : wmRow[m].at # "none"
  /\ \/ toast = wmToast \/ ~toast.fresh
     \/ /\ WmListIsTrue /\ toast.ids = t.ids /\ \A m \in t.ids : wmShown[m] = wmView
        /\ toast.of = t.do /\ toast.to = wmView /\ t.do \in {"archive", "move", "delete"}

(* The request that the client sends.                                      *)
LEMMA AskTasks ==
  ASSUME WmTypeOK, NEW s \in WmSlots, NEW t, AskOK(t), NEW toast, WmAsk(s, t, toast)
  PROVE  /\ wmTask[s].at = "idle" /\ wmTask'[s] \in WmTaskType /\ wmTask'[s].at = "sent"
         /\ wmTask'[s].do = t.do /\ wmTask'[s].ids = t.ids /\ wmTask'[s].to = t.to
         /\ wmTask'[s].flag = t.flag /\ wmTask'[s].on = t.on /\ wmTask'[s].read = t.read
         /\ wmTask'[s].list = t.list
         /\ \A q \in WmSlots : q # s => wmTask'[q] = wmTask[q]
         /\ wmTask' \in [WmSlots -> WmTaskType]
<1>1. t \in WmTaskType
  BY DEF AskOK
<1>2. PICK n \in WmTaskType : n = [t EXCEPT !.at = "sent"]
  BY <1>1 DEF WmTaskType, WmAts
<1>3. n.at = "sent" /\ n.do = t.do /\ n.ids = t.ids /\ n.to = t.to /\ n.flag = t.flag
      /\ n.on = t.on /\ n.list = t.list /\ n.read = t.read
  BY <1>1, <1>2 DEF WmTaskType
<1>4. wmTask \in [WmSlots -> WmTaskType] /\ wmTask' = [wmTask EXCEPT ![s] = n]
      /\ wmTask[s].at = "idle"
  BY <1>2, WmTypeIs DEF WmAsk, WmFree
<1>5. QED
  BY <1>3, <1>4

(* Where everything would be afterwards.                                   *)
LEMMA AskSays ==
  ASSUME WebInv, NEW t, AskOK(t), wmSaid' = WmSays(t), NEW m \in WmIds
  PROVE  /\ wmSaid'[m] \in WmRowType
         /\ m \notin WmMoves(t) => wmSaid'[m].at = wmSaid[m].at
         /\ m \in WmMoves(t) => wmSaid'[m].at = Means(t, wmSaid[m].at)
         /\ m \notin WmMarks(t) /\ m \notin WmOpens(t) => wmSaid'[m].flags = wmSaid[m].flags
         /\ m \in WmMarks(t) \/ m \in WmOpens(t) =>
              wmSaid'[m].flags = WmFlagsBy(t, wmSaid[m].flags)
         /\ wmSaid'[m].at = "none" => wmRow[m].at = "none"
         /\ wmRow[m].at = "none" => wmSaid'[m] = wmSaid[m]
<1> DEFINE named == IF t.do \in {"empty", "rmdir"} THEN {i \in WmIds : wmSaid[i].at = t.to}
                    ELSE t.ids
           new == [at |-> IF wmSaid[m].at = "gone" THEN "gone" ELSE WmMeans(t, wmSaid[m].at),
                   flags |-> WmFlagsBy(t, wmSaid[m].flags)]
<1>1. wmSaid'[m] = IF m \in named THEN new ELSE wmSaid[m]
  BY DEF WmSays
<1>2. /\ t \in WmTaskType /\ t.do \in WmDoes /\ t.ids \subseteq WmIds /\ t.to \in WmFolders
      /\ t.flag \in WmFlags
      /\ t.do \in Whole => t.ids = {}
      /\ \A i \in t.ids : wmRow[i].at # "none"
  BY WmTaskIs DEF AskOK
<1>3. /\ wmSaid[m].at \in WmFolders \cup {"none", "gone"} /\ wmSaid[m].flags \subseteq WmFlags
      /\ wmSaid[m] \in WmRowType
  BY WmRowsAre, WmRowIs DEF WebInv
<1>4. /\ wmRow[m].at = "none" => wmSaid[m].at = "none"
      /\ wmSaid[m].at = "none" => wmRow[m].at = "none"
  BY WmNoTaskIs DEF WebInv, CameInv, CameOK
<1>5. m \in named => wmRow[m].at # "none" /\ wmSaid[m].at # "none"
  BY <1>2, <1>4 DEF WmFolders
<1>6. WmFlagsBy(t, wmSaid[m].flags) \subseteq WmFlags
  BY <1>2, <1>3 DEF WmFlagsBy, WmWritten
<1>7. wmSaid[m].at \in WmFolders =>
        WmMeans(t, wmSaid[m].at) \in WmFolders \cup {"gone"}
  BY <1>2 DEF WmMeans, WmTarget, WmFolders
<1>8. new.flags = WmFlagsBy(t, wmSaid[m].flags)
      /\ new.at = IF wmSaid[m].at = "gone" THEN "gone" ELSE WmMeans(t, wmSaid[m].at)
  OBVIOUS
<1>9. m \in named => new \in WmRowType /\ new.at # "none"
  BY <1>3, <1>5, <1>6, <1>7, <1>8 DEF WmRowType, WmFolders
<1>10. m \notin WmMoves(t) => wmSaid'[m].at = wmSaid[m].at
  BY <1>1, <1>2, <1>8 DEF WmMoves, WmMeans
<1>11. m \in WmMoves(t) => wmSaid'[m].at = Means(t, wmSaid[m].at)
  <2> SUFFICES ASSUME m \in WmMoves(t) PROVE wmSaid'[m].at = Means(t, wmSaid[m].at)
    OBVIOUS
  <2>1. CASE t.do \in {"empty", "rmdir"}
    <3>1. m \in named <=> wmSaid[m].at = t.to
      BY <2>1
    <3>2. wmSaid[m].at = t.to => wmSaid[m].at # "gone"
      BY <1>2 DEF WmFolders
    <3>3. QED
      BY <1>1, <1>8, <2>1, <3>1, <3>2 DEF Means
  <2>2. CASE t.do = "rmdirIfEmpty"
    BY <1>1, <1>2, <2>2 DEF Means, Whole
  <2>3. CASE t.do \notin Whole
    <3>1. m \in named
      BY <2>3 DEF WmMoves, Whole
    <3>2. QED
      BY <1>1, <1>8, <2>3, <3>1 DEF Means, Whole
  <2>4. QED
    BY <2>1, <2>2, <2>3 DEF Whole
<1>12. /\ m \notin WmMarks(t) /\ m \notin WmOpens(t) => wmSaid'[m].flags = wmSaid[m].flags
       /\ m \in WmMarks(t) \/ m \in WmOpens(t) =>
            wmSaid'[m].flags = WmFlagsBy(t, wmSaid[m].flags)
  BY <1>1, <1>8 DEF WmMarks, WmOpens, WmFlagsBy, WmWritten
<1>13. QED
  BY <1>1, <1>3, <1>4, <1>5, <1>9, <1>10, <1>11, <1>12

(* And with what it gets into each other's way.                            *)
LEMMA AskMixed ==
  ASSUME WebInv, NEW t, AskOK(t), wmMixed' = wmMixed \cup WmClashes(t) \cup WmStale(t)
  PROVE  /\ wmMixed \subseteq wmMixed' /\ wmMixed' \subseteq WmIds \X (WmFlags \cup {"at"})
         /\ \A m \in WmMoves(t) : <<m, "at">> \notin wmMixed' =>
              \A q \in WmSlots : ~Mover(m, q)
         /\ \A m \in WmMarks(t), f \in WmFlags : <<m, f>> \notin wmMixed' =>
              \A q \in WmSlots : ~Marker(m, q) /\ (f = "Seen" => ~Opener(m, q))
         /\ \A m \in WmOpens(t) : <<m, "Seen">> \notin wmMixed' =>
              \A q \in WmSlots : ~Marker(m, q)
<1> DEFINE busy == {q \in WmSlots : WmBusy(q)}
<1>1. wmMixed' = wmMixed \cup (UNION {WmClash(t, wmTask[q]) : q \in busy}) \cup WmStale(t)
  <2>1. WmClashes(t) = UNION {WmClash(t, wmTask[q]) : q \in busy}
    BY DEF WmClashes
  <2>2. QED
    BY <2>1
<1>2. \A q \in WmSlots : Busy(wmTask[q]) => WmClash(t, wmTask[q]) \subseteq wmMixed'
  BY <1>1 DEF WmBusy, Busy
<1>3. t.ids \subseteq WmIds
  BY WmTaskIs DEF AskOK
<1>4. WmMoves(t) \subseteq WmIds /\ WmMarks(t) \subseteq WmIds /\ WmOpens(t) \subseteq WmIds
  BY <1>3 DEF WmMoves, WmMarks, WmOpens
<1>5. \A q \in WmSlots : WmClash(t, wmTask[q]) \subseteq WmIds \X (WmFlags \cup {"at"})
  BY <1>4 DEF WmClash, WmFlags
<1>6. wmMixed \subseteq WmIds \X (WmFlags \cup {"at"})
  BY WmTypeIs DEF WebInv
<1>7. wmMixed' \subseteq WmIds \X (WmFlags \cup {"at"})
  <2>1. WmStale(t) \subseteq WmIds \X (WmFlags \cup {"at"})
    BY <1>4 DEF WmStale
  <2>2. UNION {WmClash(t, wmTask[q]) : q \in busy} \subseteq WmIds \X (WmFlags \cup {"at"})
    BY <1>5
  <2>3. QED
    BY <1>1, <1>6, <2>1, <2>2
<1>8. ASSUME NEW m \in WmMoves(t), NEW q \in WmSlots, Mover(m, q) PROVE <<m, "at">> \in wmMixed'
  <2>1. <<m, "at">> \in WmClash(t, wmTask[q])
    BY <1>8 DEF WmClash, Mover
  <2>2. QED
    BY <1>2, <1>8, <2>1 DEF Mover
<1>9. ASSUME NEW m \in WmMarks(t), NEW f \in WmFlags, NEW q \in WmSlots, Marker(m, q)
      PROVE  <<m, f>> \in wmMixed'
  <2>1. <<m, f>> \in WmClash(t, wmTask[q])
    BY <1>9 DEF WmClash, Marker
  <2>2. QED
    BY <1>2, <1>9, <2>1 DEF Marker
<1>10. ASSUME NEW m, NEW q \in WmSlots,
              \/ m \in WmMarks(t) /\ Opener(m, q)
              \/ m \in WmOpens(t) /\ Marker(m, q)
       PROVE  <<m, "Seen">> \in wmMixed'
  <2>1. <<m, "Seen">> \in WmClash(t, wmTask[q])
    BY <1>10 DEF WmClash, Marker, Opener
  <2>2. QED
    BY <1>2, <1>10, <2>1 DEF Marker, Opener
<1>11. QED
  BY <1>1, <1>7, <1>8, <1>9, <1>10

(* Folders: it owes all of it yet.                                         *)
LEMMA AskAt ==
  ASSUME WebInv, NEW s \in WmSlots, NEW t, AskOK(t), NEW toast, WmAsk(s, t, toast)
  PROVE  AtInv'
<1>1. /\ wmTask[s].at = "idle" /\ wmTask'[s].at = "sent"
      /\ wmTask'[s].do = t.do /\ wmTask'[s].ids = t.ids /\ wmTask'[s].to = t.to
      /\ \A q \in WmSlots : q # s => wmTask'[q] = wmTask[q]
  BY AskTasks DEF WebInv
<1>2. wmRow' = wmRow /\ wmOwn' = wmOwn /\ wmSaid' = WmSays(t)
      /\ wmMixed' = wmMixed \cup WmClashes(t) \cup WmStale(t)
  BY DEF WmAsk
<1>3. t.ids \subseteq WmIds /\ WmMoves(t) \subseteq WmIds
  BY WmTaskIs DEF AskOK, WmMoves
<1>4. ASSUME NEW m \in WmIds, <<m, "at">> \notin wmMixed' PROVE AtOK(m)'
  <2>1. AtOK(m) /\ <<m, "at">> \notin wmMixed
    BY <1>2, <1>4 DEF WebInv, AtInv
  <2>2. /\ Mover(m, s)' <=> m \in WmMoves(t)
        /\ ~Mover(m, s)
        /\ \A q \in WmSlots : q # s => (Mover(m, q)' <=> Mover(m, q))
    BY <1>1 DEF Mover, Busy, WmMoves
  <2>3. m \in WmMoves(t) => \A q \in WmSlots : ~Mover(m, q)
    BY <1>2, <1>4, AskMixed
  <2>4. \A q, r \in WmSlots : Mover(m, q)' /\ Mover(m, r)' => q = r
    BY <2>1, <2>2, <2>3 DEF AtOK
  <2>5. CASE m \in WmMoves(t)
    <3>1. wmRow[m].at = wmSaid[m].at
      BY <2>1, <2>3, <2>5 DEF AtOK
    <3>2. wmSaid'[m].at = Means(t, wmRow[m].at)
      BY <1>2, <2>5, <3>1, AskSays
    <3>3. \A q \in WmSlots : Mover(m, q)' => q = s
      BY <2>2, <2>3, <2>5
    <3>4. OwedOK(wmTask[s], m)'
      <4>1. Means(wmTask[s], wmRow[m].at)' = Means(t, wmRow[m].at)
        BY <1>1, <1>2 DEF Means, WmMeans, WmTarget, WmExists
      <4>2. QED
        BY <1>1, <3>2, <4>1 DEF OwedOK
    <3>5. Mover(m, s)'
      BY <2>2, <2>5
    <3>6. QED
      BY <2>4, <3>3, <3>4, <3>5 DEF AtOK
  <2>6. CASE m \notin WmMoves(t)
    <3>1. wmSaid'[m].at = wmSaid[m].at /\ wmRow'[m].at = wmRow[m].at
      BY <1>2, <2>6, AskSays
    <3>2. \A q \in WmSlots : Mover(m, q)' <=> Mover(m, q)
      BY <2>2, <2>6
    <3>3. ASSUME NEW q \in WmSlots, Mover(m, q)' PROVE OwedOK(wmTask[q], m)'
      <4>1. q # s /\ OwedOK(wmTask[q], m) /\ wmTask'[q] = wmTask[q]
        BY <1>1, <2>1, <2>2, <3>2, <3>3 DEF AtOK
      <4>2. PICK o : o = wmTask[q]
        OBVIOUS
      <4>3. OwedOK(o, m)'
        BY <1>2, <3>1, <4>1, <4>2, OwedSame
      <4>4. QED
        BY <4>1, <4>2, <4>3 DEF OwedOK, Means, WmMeans, WmExists, WmTarget, WmPresent
    <3>4. QED
      BY <2>1, <2>4, <3>1, <3>2, <3>3 DEF AtOK
  <2>7. QED
    BY <2>5, <2>6
<1>5. QED
  BY <1>4 DEF AtInv, AtOK

(* Flags: likewise.                                                        *)
LEMMA AskFlags ==
  ASSUME WebInv, NEW s \in WmSlots, NEW t, AskOK(t), NEW toast, WmAsk(s, t, toast)
  PROVE  FlagInv'
<1>1. /\ wmTask[s].at = "idle" /\ wmTask'[s].at = "sent"
      /\ wmTask'[s].do = t.do /\ wmTask'[s].ids = t.ids /\ wmTask'[s].to = t.to
      /\ wmTask'[s].flag = t.flag /\ wmTask'[s].on = t.on /\ wmTask'[s].list = t.list
      /\ \A q \in WmSlots : q # s => wmTask'[q] = wmTask[q]
  BY AskTasks DEF WebInv
<1>2. wmRow' = wmRow /\ wmSaid' = WmSays(t) /\ wmMixed' = wmMixed \cup WmClashes(t) \cup WmStale(t)
  BY DEF WmAsk
<1>3. ASSUME NEW m \in WmIds, NEW f \in WmFlags, <<m, f>> \notin wmMixed',
             wmRow'[m].at # "gone"
      PROVE  FlagOK(m, f)'
  <2>1. FlagOK(m, f) /\ <<m, f>> \notin wmMixed /\ wmRow[m].at # "gone"
    BY <1>2, <1>3 DEF WebInv, FlagInv
  <2>2. /\ Marker(m, s)' <=> m \in WmMarks(t)
        /\ Opener(m, s)' <=> m \in WmOpens(t)
        /\ Opening(m, s)' <=> m \in WmOpens(t)
        /\ ~Marker(m, s) /\ ~Opener(m, s) /\ ~Opening(m, s)
        /\ \A q \in WmSlots : q # s => /\ Marker(m, q)' <=> Marker(m, q)
                                       /\ Opener(m, q)' <=> Opener(m, q)
                                       /\ Opening(m, q)' <=> Opening(m, q)
    BY <1>1 DEF Marker, Opener, Opening, Busy, WmMarks, WmOpens
  <2>3. /\ m \in WmMarks(t) => \A q \in WmSlots : ~Marker(m, q) /\ (f = "Seen" => ~Opener(m, q))
        /\ m \in WmOpens(t) /\ f = "Seen" => \A q \in WmSlots : ~Marker(m, q)
    BY <1>2, <1>3, AskMixed
  <2>4. /\ m \notin WmMarks(t) /\ m \notin WmOpens(t) => wmSaid'[m].flags = wmSaid[m].flags
        /\ m \in WmMarks(t) \/ m \in WmOpens(t) =>
              wmSaid'[m].flags = WmFlagsBy(t, wmSaid[m].flags)
    BY <1>2, AskSays
  <2>5. m \in WmOpens(t) => t.do = "open" /\ t.flag = "Seen" /\ t.on /\ m \notin WmMarks(t)
    BY DEF WmOpens, WmMarks, AskOK
  <2>6. wmRow'[m] = wmRow[m]
    BY <1>2
  <2>7. ASSUME m \notin WmMarks(t), ~(f = "Seen" /\ m \in WmOpens(t))
        PROVE  (f \in wmSaid'[m].flags) <=> (f \in wmSaid[m].flags)
    BY <2>4, <2>5, <2>7 DEF WmFlagsBy, WmWritten
  <2>8. CASE m \in WmMarks(t)
    <3>1. (f \in wmRow[m].flags) = (f \in wmSaid[m].flags)
      BY <2>1, <2>3, <2>8 DEF FlagOK, Opening
    <3>2. (f \in WmWritten(t, wmSaid[m].flags)) <=> (f \in WmFlagsBy(t, wmSaid[m].flags))
      <4>1. <<m, f>> \notin WmStale(t)
        BY <1>2, <1>3
      <4>2. QED
        BY <2>8, <4>1 DEF WmStale
    <3>3. MarkOK(wmTask[s], m, f)'
      <4>1. (f \in wmSaid'[m].flags) <=> (f \in WmWritten(t, wmRow[m].flags))
        BY <2>4, <2>8, <3>1, <3>2 DEF WmFlagsBy, WmWritten
      <4>2. (f \in wmSaid'[m].flags) <=> (f \in WmWritten(wmTask[s], wmRow[m].flags)')
        BY <1>1, <2>6, <4>1 DEF WmFlagsBy, WmWritten
      <4>3. QED
        BY <1>1, <4>2 DEF MarkOK
    <3>4. m \notin WmOpens(t)
      BY <2>5, <2>8
    <3>5. \A q \in WmSlots : Marker(m, q)' => q = s
      BY <2>2, <2>3, <2>8
    <3>6. f = "Seen" => \A q \in WmSlots : ~Opener(m, q)' /\ ~Opening(m, q)'
      BY <2>2, <2>3, <2>8, <3>4 DEF Opening
    <3>7. Marker(m, s)'
      BY <2>2, <2>8
    <3>8. QED
      BY <3>3, <3>5, <3>6, <3>7 DEF FlagOK
  <2>9. CASE f = "Seen" /\ m \in WmOpens(t)
    <3>1. "Seen" \in wmSaid'[m].flags
      BY <2>4, <2>5, <2>9 DEF WmFlagsBy, WmWritten
    <3>2. \A q \in WmSlots : ~Marker(m, q)'
      BY <2>2, <2>3, <2>5, <2>9
    <3>3. ASSUME NEW q \in WmSlots, Opening(m, q)' PROVE OpenOK(wmTask[q], m)'
      <4>1. CASE q = s
        BY <1>1, <3>1, <4>1 DEF OpenOK
      <4>2. CASE q # s
        BY <1>1, <2>1, <2>2, <2>6, <2>9, <3>1, <3>3, <4>2 DEF FlagOK, OpenOK
      <4>3. QED
        BY <4>1, <4>2
    <3>4. Opening(m, s)'
      BY <2>2, <2>9
    <3>5. QED
      BY <2>9, <3>2, <3>3, <3>4 DEF FlagOK
  <2>10. CASE m \notin WmMarks(t) /\ ~(f = "Seen" /\ m \in WmOpens(t))
    <3>1. (f \in wmSaid'[m].flags) <=> (f \in wmSaid[m].flags)
      BY <2>7, <2>10
    <3>2. /\ \A q \in WmSlots : Marker(m, q)' <=> Marker(m, q)
          /\ f = "Seen" => \A q \in WmSlots : /\ Opener(m, q)' <=> Opener(m, q)
                                              /\ Opening(m, q)' <=> Opening(m, q)
      BY <2>2, <2>10
    <3>3. ASSUME NEW q \in WmSlots, Marker(m, q)' PROVE MarkOK(wmTask[q], m, f)'
      <4>1. q # s /\ Marker(m, q) /\ wmTask'[q] = wmTask[q]
        BY <1>1, <2>2, <2>10, <3>2, <3>3
      <4>2. MarkOK(wmTask[q], m, f)
        BY <2>1, <4>1 DEF FlagOK
      <4>3. QED
        BY <2>6, <3>1, <4>1, <4>2 DEF MarkOK, WmFlagsBy, WmWritten
    <3>4. ASSUME NEW q \in WmSlots, f = "Seen", Opening(m, q)' PROVE OpenOK(wmTask[q], m)'
      <4>1. q # s /\ Opening(m, q) /\ wmTask'[q] = wmTask[q]
        BY <1>1, <2>2, <2>10, <3>2, <3>4
      <4>2. OpenOK(wmTask[q], m)
        BY <2>1, <3>4, <4>1 DEF FlagOK
      <4>3. QED
        BY <2>6, <3>1, <3>4, <4>1, <4>2 DEF OpenOK
    <3>5. QED
      BY <2>1, <2>6, <3>1, <3>2, <3>3, <3>4 DEF FlagOK
  <2>11. QED
    BY <2>8, <2>9, <2>10
<1>4. QED
  BY <1>3 DEF FlagInv, FlagOK

(* What "undo" offers is there: the list it came from was true, nothing    *)
(* was under way, and the request does not destroy.                        *)
LEMMA AskFresh ==
  ASSUME WebInv, NEW s \in WmSlots, NEW t, AskOK(t), NEW toast, ToastOK(t, toast),
         WmAsk(s, t, toast)
  PROVE  FreshInv' /\ wmToast' \in WmToastType /\ wmToast'.ids = toast.ids
<1>1. /\ wmTask[s].at = "idle" /\ wmTask'[s].at = "sent"
      /\ wmTask'[s].do = t.do /\ wmTask'[s].ids = t.ids
      /\ \A q \in WmSlots : q # s => wmTask'[q] = wmTask[q]
  BY AskTasks DEF WebInv
<1>2. wmRow' = wmRow
      /\ wmToast' = IF WmMoves(t) \cap toast.ids # {} /\ toast = wmToast
                    THEN [toast EXCEPT !.fresh = FALSE] ELSE toast
  BY DEF WmAsk
<1>3. toast \in WmToastType
  BY DEF ToastOK
<1>4. /\ wmToast' \in WmToastType /\ wmToast'.ids = toast.ids
      /\ wmToast'.fresh => wmToast' = toast /\ ~(WmMoves(t) \cap toast.ids # {} /\ toast = wmToast)
  <2>1. PICK u \in WmToastType : u = [toast EXCEPT !.fresh = FALSE]
    BY <1>3 DEF WmToastType
  <2>2. u.ids = toast.ids /\ u.fresh = FALSE
    BY <1>3, <2>1 DEF WmToastType
  <2>3. QED
    BY <1>2, <1>3, <2>1, <2>2
<1>5. ASSUME NEW m \in WmIds, wmToast'.fresh, m \in wmToast'.ids,
             ~(wmToast.of = "delete" /\ wmToast.to = "Trash")'
      PROVE  FreshOK(m)'
  <2>1. /\ Mover(m, s)' <=> m \in WmMoves(t)
        /\ ~Mover(m, s)
        /\ \A q \in WmSlots : q # s => (Mover(m, q)' <=> Mover(m, q))
    BY <1>1 DEF Mover, Busy, WmMoves
  <2>2. CASE toast = wmToast
    <3>1. m \notin WmMoves(t)
      BY <1>4, <1>5, <2>2
    <3>2. FreshOK(m) /\ wmToast' = wmToast
      BY <1>4, <1>5, <2>2 DEF WebInv, FreshInv
    <3>3. \A q \in WmSlots : Mover(m, q)' => Mover(m, q) /\ wmTask'[q] = wmTask[q]
      BY <1>1, <2>1, <3>1
    <3>4. QED
      BY <1>2, <1>5, <3>2, <3>3 DEF FreshOK, SparesOK
  <2>3. CASE toast # wmToast
    <3>1. /\ WmListIsTrue /\ m \in t.ids /\ wmShown[m] = wmView
          /\ t.do \in {"archive", "move", "delete"}
          /\ ~(t.do = "delete" /\ wmView = "Trash")
      BY <1>4, <1>5, <2>3 DEF ToastOK
    <3>2. Silent /\ wmFetch = "no" /\ wmView \notin wmDirty /\ wmView \notin wmOld
      BY <3>1 DEF WmListIsTrue, WmFree, Silent, Wrote, WebInv, ListInv
    <3>3. wmView \in wmCast.views /\ wmView \in WmFolders
      BY WmTypeIs, WmAssumption DEF WebInv, CastInv
    <3>4. wmRow[m].at = wmView
      BY <3>1, <3>2, <3>3 DEF WebInv, ListInv
    <3>5. wmRow'[m].at # "gone"
      BY <1>2, <3>3, <3>4 DEF WmFolders
    <3>6. \A q \in WmSlots : Mover(m, q)' => q = s
      BY <2>1, <3>1 DEF WmListIsTrue, WmFree, Mover, Busy
    <3>7. SparesOK(wmTask[s], m)'
      BY <1>1, <1>2, <3>1, <3>4 DEF SparesOK
    <3>8. QED
      BY <3>5, <3>6, <3>7 DEF FreshOK
  <2>4. QED
    BY <2>2, <2>3
<1>6. QED
  BY <1>4, <1>5 DEF FreshInv, FreshOK

(* All parts together.                                                     *)
LEMMA AskStep ==
  ASSUME WebInv, NEW s \in WmSlots, NEW t, AskOK(t), NEW toast, ToastOK(t, toast),
         WmAsk(s, t, toast), UNCHANGED wmCast,
         wmBinned \subseteq wmBinned', wmBinned' \subseteq WmIds,
         t.do = "erase" => t.ids \subseteq wmBinned'
  PROVE  WebInv'
<1>1. /\ wmTask[s].at = "idle" /\ wmTask'[s] \in WmTaskType /\ wmTask'[s].at = "sent"
      /\ wmTask'[s].do = t.do /\ wmTask'[s].ids = t.ids /\ wmTask'[s].to = t.to
      /\ wmTask'[s].read = t.read
      /\ \A q \in WmSlots : q # s => wmTask'[q] = wmTask[q]
      /\ wmTask' \in [WmSlots -> WmTaskType]
  BY AskTasks DEF WebInv
<1>2. /\ wmSaid' = WmSays(t) /\ wmMixed' = wmMixed \cup WmClashes(t) \cup WmStale(t)
      /\ UNCHANGED <<wmRow, wmOwn, wmMail, wmShown, wmHeld, wmView, wmFetch, wmGot, wmOld, wmDirty>>
      /\ UNCHANGED <<wmBlocked, wmWork, wmVerdict, wmMuddled>>
  BY DEF WmAsk, wmJunk
<1>3. wmToast' \in WmToastType /\ wmToast'.ids = toast.ids /\ FreshInv'
  BY AskFresh
<1>4. \A m \in WmIds : /\ wmSaid'[m] \in WmRowType
                       /\ wmSaid'[m].at = "none" => wmRow[m].at = "none"
                       /\ wmRow[m].at = "none" => wmSaid'[m] = wmSaid[m]
  BY <1>2, AskSays
<1>5. \A m \in WmIds : t.read[m] = WmNoMail
  BY DEF AskOK
<1>6. WmTypeOK'
  <2>1. wmSaid' \in [WmIds -> WmRowType]
    BY <1>2, <1>4 DEF WmSays
  <2>2. wmMixed' \subseteq WmIds \X (WmFlags \cup {"at"})
    BY <1>2, AskMixed
  <2>3. QED
    BY <1>1, <1>2, <1>3, <2>1, <2>2, WmTypeIs
       DEF WebInv, WmTypeOK, WmTaskType, WmAts, WmToastType, WmWorkType
<1>7. CastInv' /\ OwnInv' /\ JunkInv'
  BY <1>2 DEF WebInv, CastInv, OwnInv, JunkInv
<1>8. ShapeInv'
  <2>1. ASSUME NEW q \in WmSlots PROVE ShapeOK(wmTask[q])'
    <3>1. CASE q = s
      BY <1>1, <1>5, <3>1, WmNoTaskIs DEF AskOK, ShapeOK, Single
    <3>2. CASE q # s
      BY <1>1, <3>2 DEF WebInv, ShapeInv, ShapeOK
    <3>3. QED
      BY <3>1, <3>2
  <2>2. QED
    BY <2>1 DEF ShapeInv
<1>9. CameInv'
  <2>1. ASSUME NEW m \in WmIds PROVE CameOK(m)'
    <3>1. CameOK(m)
      BY DEF WebInv, CameInv
    <3>2. wmRow[m].at = "none" => m \notin t.ids /\ m \notin wmToast'.ids
      BY <1>3 DEF AskOK, ToastOK
    <3>3. \A q \in WmSlots : wmRow[m].at = "none" => m \notin wmTask'[q].ids
      BY <1>1, <3>1, <3>2 DEF CameOK
    <3>4. QED
      BY <1>2, <1>4, <3>1, <3>2, <3>3 DEF CameOK
  <2>2. QED
    BY <2>1 DEF CameInv
<1>10. BinInv'
  <2>1. ASSUME NEW m \in WmIds PROVE BinOK(m)'
    <3>1. BinOK(m)
      BY DEF WebInv, BinInv
    <3>2. ASSUME NEW q \in WmSlots
          PROVE  /\ wmTask'[q].read[m].at \in WmBins => m \in wmBinned'
                 /\ wmTask'[q].do = "erase" /\ m \in wmTask'[q].ids => m \in wmBinned'
      <4>1. CASE q = s
        BY <1>1, <1>5, <4>1, WmNoTaskIs DEF WmBins
      <4>2. CASE q # s
        BY <1>1, <3>1, <4>2 DEF BinOK
      <4>3. QED
        BY <4>1, <4>2
    <3>3. QED
      BY <1>2, <3>1, <3>2 DEF BinOK
  <2>2. QED
    BY <2>1 DEF BinInv
<1>11. ListInv'
  <2>1. Silent' => Silent
    BY <1>1 DEF Silent, Wrote
  <2>2. QED
    BY <1>2, <2>1 DEF WebInv, ListInv, WmIn
<1>12. AtInv' /\ FlagInv'
  BY AskAt, AskFlags
<1>13. QED
  BY <1>3, <1>6, <1>7, <1>8, <1>9, <1>10, <1>11, <1>12 DEF WebInv

-----------------------------------------------------------------------------
(* What is clicked.                                                        *)
LEMMA ShownCame ==
  ASSUME WebInv
  PROVE  /\ \A m \in WmIds : wmShown[m] # "none" => wmRow[m].at # "none"
         /\ \A m \in WmListed : m \in WmIds /\ wmShown[m] = wmView /\ wmRow[m].at # "none"
         /\ \A m \in wmToast.ids : m \in WmIds /\ wmRow[m].at # "none"
         /\ wmToast \in WmToastType /\ wmToast.ids \subseteq WmIds /\ wmToast.to \in WmFolders
         /\ wmView \in WmFolders /\ wmBinned \subseteq WmIds /\ wmCast \in WmCasts
         /\ \A t : ToastOK(t, wmToast)
<1>1. wmView \in WmFolders /\ wmCast \in WmCasts
  BY WmTypeIs, WmAssumption DEF WebInv, CastInv
<1>2. wmToast \in WmToastType /\ wmBinned \subseteq WmIds
  BY WmTypeIs DEF WebInv
<1>3. wmToast.ids \subseteq WmIds /\ wmToast.to \in WmFolders
  BY <1>2 DEF WmToastType
<1>4. \A m \in WmIds : wmRow[m].at = "none" => wmShown[m] = "none" /\ m \notin wmToast.ids
  BY DEF WebInv, CameInv, CameOK
<1>5. \A m \in WmListed : m \in WmIds /\ wmShown[m] = wmView /\ wmRow[m].at # "none"
  BY <1>1, <1>4 DEF WmListed, WmFolders
<1>6. \A t : ToastOK(t, wmToast)
  BY <1>2, <1>3, <1>4 DEF ToastOK
<1>7. QED
  BY <1>1, <1>2, <1>3, <1>4, <1>5, <1>6

LEMMA MarkSomeStep ==
  ASSUME WebInv, NEW s \in WmSlots, NEW ids \in SUBSET WmListed, NEW flag \in WmFlags,
         NEW on \in BOOLEAN, WmMarkSome(s, ids, flag, on), UNCHANGED wmCast
  PROVE  WebInv'
<1>1. PICK do \in {"mark", "patch"} :
        WmAsk(s, [WmNoTask EXCEPT !.do = do, !.ids = ids, !.flag = flag, !.on = on], wmToast)
  BY DEF WmMarkSome
<1>2. ids \in SUBSET WmIds
  BY ShownCame
<1>3. PICK t \in WmTaskType :
        t = [WmNoTask EXCEPT !.do = do, !.ids = ids, !.flag = flag, !.on = on]
  <2>1. do \in WmDoes
    BY DEF WmDoes
  <2>2. \A w \in WmTaskType :
          [w EXCEPT !.do = do, !.ids = ids, !.flag = flag, !.on = on] \in WmTaskType
    BY <1>2, <2>1 DEF WmTaskType
  <2>3. QED
    BY <2>2, WmNoTaskIs
<1>4. t.do = do /\ t.ids = ids /\ t.at = "idle" /\ \A m \in WmIds : t.read[m] = WmNoMail
  BY <1>3 DEF WmNoTask
<1>5. AskOK(t)
  BY <1>4, ShownCame DEF AskOK, Whole, Rmdirs, Single
<1>6. QED
  BY <1>1, <1>3, <1>4, <1>5, ShownCame, AskStep DEF WmMarkSome, WmKept

LEMMA OpenStep ==
  ASSUME WebInv, NEW s \in WmSlots, NEW m \in WmListed, WmOpen(s, m), UNCHANGED wmCast
  PROVE  WebInv'
<1>1. m \in WmIds /\ wmRow[m].at # "none"
  BY ShownCame
<1>2. PICK t \in WmTaskType : t = [WmNoTask EXCEPT !.do = "open", !.ids = {m}]
  BY <1>1, WmNoTaskIs DEF WmNoTask, WmTaskType, WmDoes
<1>3. /\ t.do = "open" /\ t.ids = {m} /\ t.at = "idle" /\ t.flag = "Seen" /\ t.on
      /\ \A i \in WmIds : t.read[i] = WmNoMail
  BY <1>2 DEF WmNoTask
<1>4. AskOK(t)
  BY <1>1, <1>3 DEF AskOK, Whole, Rmdirs, Single
<1>5. QED
  BY <1>2, <1>3, <1>4, ShownCame, AskStep DEF WmOpen, WmKept

LEMMA MoveSomeStep ==
  ASSUME WebInv, NEW s \in WmSlots, NEW ids \in SUBSET WmListed, NEW to \in WmFolders,
         NEW do \in {"archive", "delete", "spam", "notSpam", "move"},
         WmMoveSome(s, ids, do, to), UNCHANGED wmCast
  PROVE  WebInv'
<1>1. ids \in SUBSET WmIds
  BY ShownCame
<1>2. PICK t \in WmTaskType : t = [WmNoTask EXCEPT !.do = do, !.ids = ids, !.to = to]
  BY <1>1, WmNoTaskIs, ZenonT(30) DEF WmNoTask, WmTaskType, WmDoes
<1>3. t.do = do /\ t.ids = ids /\ t.at = "idle" /\ \A m \in WmIds : t.read[m] = WmNoMail
  BY <1>2 DEF WmNoTask
<1>4. AskOK(t)
  BY <1>3, ShownCame DEF AskOK, Whole, Rmdirs, Single
<1>5. /\ wmBinned' = wmBinned
      /\ \/ WmAsk(s, t, wmToast)
         \/ /\ WmAsk(s, t, [ids |-> ids, of |-> do, to |-> wmView, fresh |-> WmListIsTrue])
            /\ do \in {"archive", "delete", "move"}
  BY <1>2 DEF WmMoveSome, WmKept
<1>6. CASE /\ WmAsk(s, t, [ids |-> ids, of |-> do, to |-> wmView, fresh |-> WmListIsTrue])
           /\ do \in {"archive", "delete", "move"}
  <2>1. WmListIsTrue \in BOOLEAN
    BY DEF WmListIsTrue
  <2>2. PICK toast \in WmToastType :
          toast = [ids |-> ids, of |-> do, to |-> wmView, fresh |-> WmListIsTrue]
    BY <1>1, <2>1, ShownCame DEF WmToastType, WmDoes
  <2>3. toast.ids = ids /\ toast.fresh = WmListIsTrue /\ toast.of = do /\ toast.to = wmView
    BY <2>2
  <2>4. ToastOK(t, toast)
    BY <1>3, <1>6, <2>3, ShownCame DEF ToastOK
  <2>5. WmAsk(s, t, toast)
    BY <1>6, <2>2
  <2>6. QED
    BY <1>3, <1>4, <1>5, <2>4, <2>5, ShownCame, AskStep
<1>7. CASE WmAsk(s, t, wmToast)
  BY <1>3, <1>4, <1>5, <1>7, ShownCame, AskStep
<1>8. QED
  BY <1>5, <1>6, <1>7

LEMMA UndoStep ==
  ASSUME WebInv, NEW s \in WmSlots, WmUndo(s), UNCHANGED wmCast
  PROVE  WebInv'
<1>1. wmToast.ids \in SUBSET WmIds /\ wmToast.to \in WmFolders
  BY ShownCame
<1>2. PICK ids \in SUBSET WmIds, to \in WmFolders : ids = wmToast.ids /\ to = wmToast.to
  BY <1>1
<1>3. PICK t \in WmTaskType : t = [WmNoTask EXCEPT !.do = "move", !.ids = ids, !.to = to]
  BY WmNoTaskIs DEF WmNoTask, WmTaskType, WmDoes
<1>4. t.do = "move" /\ t.ids = ids /\ t.at = "idle" /\ \A m \in WmIds : t.read[m] = WmNoMail
  BY <1>3 DEF WmNoTask
<1>5. AskOK(t)
  BY <1>2, <1>4, ShownCame DEF AskOK, Whole, Rmdirs, Single
<1>6. ToastOK(t, WmNoToast)
  BY DEF ToastOK, WmNoToast, WmToastType, WmFolders, WmDoes
<1>7. WmAsk(s, t, WmNoToast) /\ wmBinned' = wmBinned
  BY <1>2, <1>3 DEF WmUndo, WmKept
<1>8. QED
  BY <1>4, <1>5, <1>6, <1>7, ShownCame, AskStep

LEMMA EmptyFolderStep ==
  ASSUME WebInv, NEW s \in WmSlots, WmEmptyFolder(s, wmView), UNCHANGED wmCast
  PROVE  WebInv'
<1>1. PICK to \in WmFolders : to = wmView
  BY ShownCame
<1>2. PICK t \in WmTaskType : t = [WmNoTask EXCEPT !.do = "empty", !.to = to]
  BY WmNoTaskIs DEF WmNoTask, WmTaskType, WmDoes
<1>3. t.do = "empty" /\ t.ids = {} /\ t.at = "idle" /\ \A m \in WmIds : t.read[m] = WmNoMail
  BY <1>2 DEF WmNoTask
<1>4. AskOK(t)
  BY <1>3 DEF AskOK, Whole, Rmdirs, Single
<1>5. WmAsk(s, t, wmToast) /\ wmBinned' = wmBinned
  BY <1>1, <1>2 DEF WmEmptyFolder, WmKept
<1>6. QED
  BY <1>3, <1>4, <1>5, ShownCame, AskStep

LEMMA DeleteFolderStep ==
  ASSUME WebInv, NEW s \in WmSlots, WmDeleteFolder(s), UNCHANGED wmCast
  PROVE  WebInv'
<1>1. PICK do \in {"rmdir", "rmdirIfEmpty"} :
        WmAsk(s, [WmNoTask EXCEPT !.do = do, !.to = "Own"], wmToast)
  BY DEF WmDeleteFolder
<1>2. PICK t \in WmTaskType : t = [WmNoTask EXCEPT !.do = do, !.to = "Own"]
  BY WmNoTaskIs DEF WmNoTask, WmTaskType, WmDoes, WmFolders
<1>3. /\ t.do = do /\ t.ids = {} /\ t.to = "Own" /\ t.at = "idle"
      /\ \A m \in WmIds : t.read[m] = WmNoMail
  BY <1>2 DEF WmNoTask
<1>4. AskOK(t)
  BY <1>3 DEF AskOK, Whole, Rmdirs, Single
<1>5. WmAsk(s, t, wmToast) /\ wmBinned' = wmBinned
  BY <1>1, <1>2 DEF WmDeleteFolder, WmKept
<1>6. QED
  BY <1>3, <1>4, <1>5, ShownCame, AskStep

LEMMA DeleteMessageStep ==
  ASSUME WebInv, NEW s \in WmSlots, NEW m \in WmIds, WmPresent(m), WmDeleteMessage(s, m),
         UNCHANGED wmCast
  PROVE  WebInv'
<1>1. ASSUME NEW do \in {"trash", "erase"},
             WmAsk(s, [WmNoTask EXCEPT !.do = do, !.ids = {m}], wmToast),
             wmBinned \subseteq wmBinned', wmBinned' \subseteq WmIds,
             do = "erase" => m \in wmBinned'
      PROVE  WebInv'
  <2>1. PICK t \in WmTaskType : t = [WmNoTask EXCEPT !.do = do, !.ids = {m}]
    BY WmNoTaskIs DEF WmNoTask, WmTaskType, WmDoes
  <2>2. /\ t.do = do /\ t.ids = {m} /\ t.at = "idle"
        /\ \A i \in WmIds : t.read[i] = WmNoMail
    BY <2>1 DEF WmNoTask
  <2>3. AskOK(t)
    BY <2>2 DEF AskOK, Whole, Rmdirs, Single, WmPresent
  <2>4. WmAsk(s, t, wmToast)
    BY <1>1, <2>1
  <2>5. QED
    BY <1>1, <2>2, <2>3, <2>4, ShownCame, AskStep
<1>2. wmBinned \subseteq WmIds
  BY ShownCame
<1>3. CASE WmAsk(s, [WmNoTask EXCEPT !.do = "trash", !.ids = {m}], wmToast) /\ WmKept
  BY <1>1, <1>2, <1>3 DEF WmKept
<1>4. CASE /\ WmAsk(s, [WmNoTask EXCEPT !.do = "erase", !.ids = {m}], wmToast)
           /\ wmBinned' = wmBinned \cup {m}
  BY <1>1, <1>2, <1>4
<1>5. QED
  BY <1>3, <1>4 DEF WmDeleteMessage

LEMMA ReplyStep ==
  ASSUME WebInv, NEW s \in WmSlots, NEW m \in WmIds, WmReply(s, m), UNCHANGED wmCast
  PROVE  WebInv'
<1>1. PICK held \in wmHeld[m] :
        WmAsk(s, [WmNoTask EXCEPT !.do = "reply", !.ids = {m}, !.flag = "Answered",
                                  !.list = held \cup {"Answered"}], wmToast)
  BY DEF WmReply
<1>2. wmRow[m].at # "none" /\ held \subseteq WmFlags
  <2>1. wmHeld[m] \subseteq SUBSET WmFlags
    BY WmTypeIs DEF WebInv
  <2>2. QED
    BY <2>1 DEF WebInv, CameInv, CameOK
<1>3. PICK list \in SUBSET WmFlags : list = held \cup {"Answered"}
  BY <1>2 DEF WmFlags
<1>4. PICK t \in WmTaskType :
        t = [WmNoTask EXCEPT !.do = "reply", !.ids = {m}, !.flag = "Answered", !.list = list]
  BY WmNoTaskIs DEF WmNoTask, WmTaskType, WmDoes, WmFlags
<1>5. t.do = "reply" /\ t.ids = {m} /\ t.at = "idle" /\ \A i \in WmIds : t.read[i] = WmNoMail
  BY <1>4 DEF WmNoTask
<1>6. AskOK(t)
  BY <1>2, <1>5 DEF AskOK, Whole, Rmdirs, Single
<1>7. WmAsk(s, t, wmToast) /\ wmBinned' = wmBinned
  BY <1>1, <1>3, <1>4 DEF WmReply, WmKept
<1>8. QED
  BY <1>5, <1>6, <1>7, ShownCame, AskStep

LEMMA FileStep ==
  ASSUME WebInv, NEW s \in WmSlots, NEW m \in WmIds, WmPresent(m), NEW to \in WmFolders,
         WmFile(s, m, to), UNCHANGED wmCast
  PROVE  WebInv'
<1>1. PICK t \in WmTaskType : t = [WmNoTask EXCEPT !.do = "file", !.ids = {m}, !.to = to]
  BY WmNoTaskIs DEF WmNoTask, WmTaskType, WmDoes
<1>2. t.do = "file" /\ t.ids = {m} /\ t.at = "idle" /\ \A i \in WmIds : t.read[i] = WmNoMail
  BY <1>1 DEF WmNoTask
<1>3. AskOK(t)
  BY <1>2 DEF AskOK, Whole, Rmdirs, Single, WmPresent
<1>4. WmAsk(s, t, wmToast) /\ wmBinned' = wmBinned
  BY <1>1 DEF WmFile, WmKept
<1>5. QED
  BY <1>2, <1>3, <1>4, ShownCame, AskStep

LEMMA ClickStep ==
  ASSUME WebInv, NEW s \in WmSlots, WmClick(s), UNCHANGED wmCast
  PROVE  WebInv'
<1>1. ASSUME NEW ids \in SUBSET WmListed \ {{}},
             NEW flag \in WmFlags, NEW on \in BOOLEAN, WmMarkSome(s, ids, flag, on)
      PROVE  WebInv'
  BY <1>1, MarkSomeStep
<1>2. ASSUME NEW ids \in SUBSET WmListed \ {{}},
             NEW do \in {"archive", "delete", "spam", "notSpam"}, WmMoveSome(s, ids, do, "INBOX")
      PROVE  WebInv'
  BY <1>2, MoveSomeStep DEF WmFolders
<1>3. ASSUME NEW ids \in SUBSET WmListed \ {{}}, NEW to \in wmCast.to \ {wmView},
             WmMoveSome(s, ids, "move", to)
      PROVE  WebInv'
  <2>1. to \in WmFolders
    BY ShownCame, WmAssumption
  <2>2. QED
    BY <1>3, <2>1, MoveSomeStep
<1>4. ASSUME NEW m \in WmListed, WmOpen(s, m) PROVE WebInv'
  BY <1>4, OpenStep
<1>5. ASSUME NEW m \in WmIds, WmPresent(m), WmDeleteMessage(s, m) PROVE WebInv'
  BY <1>5, DeleteMessageStep
<1>6. ASSUME NEW m \in WmIds, WmReply(s, m) PROVE WebInv'
  BY <1>6, ReplyStep
<1>7. ASSUME NEW m \in WmIds, WmPresent(m), NEW to \in wmCast.to, WmFile(s, m, to) PROVE WebInv'
  <2>1. to \in WmFolders
    BY ShownCame, WmAssumption
  <2>2. QED
    BY <1>7, <2>1, FileStep
<1>8. CASE \E ids \in SUBSET WmListed \ {{}} :
              \/ \E flag \in {"Seen", "Flagged"}, on \in BOOLEAN : WmMarkSome(s, ids, flag, on)
              \/ \E do \in {"archive", "delete", "spam", "notSpam"} :
                    WmMoveSome(s, ids, do, "INBOX")
              \/ \E to \in wmCast.to \ {wmView} : WmMoveSome(s, ids, "move", to)
  <2>1. {"Seen", "Flagged"} \subseteq WmFlags
    BY DEF WmFlags
  <2>2. QED
    BY <1>1, <1>2, <1>3, <1>8, <2>1
<1>9. QED
  BY <1>4, <1>5, <1>6, <1>7, <1>8, UndoStep, EmptyFolderStep, DeleteFolderStep DEF WmClick

-----------------------------------------------------------------------------
(* What the client looks at.                                               *)
LEMMA WmReceiveStep ==
  ASSUME WebInv, NEW s \in WmSlots, WmReceive(s), UNCHANGED wmCast
  PROVE  WebInv'
<1> DEFINE t == wmTask[s]
<1>1. /\ t.at = "answered" /\ wmTask' = [wmTask EXCEPT ![s] = WmNoTask]
      /\ IF t.ok /\ t.do # "open" /\ ~WmByOthers(t) THEN WmRefetch
         ELSE UNCHANGED <<wmOld, wmFetch, wmGot>>
      /\ wmDirty' = IF WmByOthers(t) THEN wmCast.views ELSE wmDirty
      /\ UNCHANGED <<wmRow, wmOwn, wmBinned, wmMail, wmShown, wmView, wmToast, wmSaid, wmMixed>>
      /\ UNCHANGED <<wmBlocked, wmWork, wmVerdict, wmMuddled>>
      /\ WmHolds(t)
  BY DEF WmReceive, wmStore, wmHistory, wmJunk
<1>2. /\ wmTask' \in [WmSlots -> WmTaskType] /\ wmTask'[s] = WmNoTask
      /\ \A q \in WmSlots : q # s => wmTask'[q] = wmTask[q]
  BY <1>1, WmTypeIs, WmNoTaskIs DEF WebInv
<1>3. \A m \in WmIds, q \in WmSlots :
        /\ Mover(m, q)' <=> Mover(m, q)
        /\ Marker(m, q)' <=> Marker(m, q)
        /\ Opener(m, q)' <=> Opener(m, q)
        /\ Opening(m, q)' <=> Opening(m, q)
        /\ Mover(m, q) \/ Marker(m, q) \/ Opening(m, q) => wmTask'[q] = wmTask[q]
  BY <1>1, <1>2, WmNoTaskIs
     DEF Mover, Marker, Opener, Opening, Busy, WmMoves, WmMarks, WmOpens
<1>4. /\ wmHeld' \in [WmIds -> SUBSET (SUBSET WmFlags)]
         /\ \A m \in WmIds : wmRow[m].at = "none" => wmHeld'[m] = {}
  <2>1. ASSUME NEW m \in WmIds
        PROVE  /\ wmHeld'[m] = IF t.do = "open" /\ t.ok /\ m \in t.ids THEN {t.read[m].flags}
                               ELSE wmHeld[m]
               /\ wmHeld'[m] \subseteq SUBSET WmFlags
               /\ wmRow[m].at = "none" => wmHeld'[m] = {}
    <3>1. wmHeld'[m] = IF t.do = "open" /\ t.ok /\ m \in t.ids THEN {t.read[m].flags}
                       ELSE wmHeld[m]
      BY <1>1 DEF WmHolds
    <3>2. t.read[m].flags \subseteq WmFlags
      BY WmTasksAre, WmTaskIs, WmRowIs DEF WebInv
    <3>3. wmHeld[m] \subseteq SUBSET WmFlags
      BY WmTypeIs DEF WebInv
    <3>4. wmRow[m].at = "none" => m \notin t.ids /\ wmHeld[m] = {}
      BY DEF WebInv, CameInv, CameOK
    <3>5. QED
      BY <3>1, <3>2, <3>3, <3>4
  <2>2. wmHeld' = [m \in WmIds |-> wmHeld'[m]]
    BY <1>1 DEF WmHolds
  <2>3. QED
    BY <2>1, <2>2
<1>5. WmTypeOK'
  <2>1. wmFetch' \in {"no", "sent", "read"} /\ wmGot' \subseteq WmIds
        /\ wmOld' \subseteq wmCast.views /\ wmDirty' \subseteq wmCast.views
    BY <1>1, WmTypeIs DEF WebInv, WmRefetch
  <2>2. QED
    BY <1>1, <1>2, <1>4, <2>1, WmTypeIs
       DEF WebInv, WmTypeOK, WmTaskType, WmAts, WmToastType, WmWorkType
<1>6. CastInv' /\ OwnInv' /\ JunkInv'
  BY <1>1 DEF WebInv, CastInv, OwnInv, JunkInv
<1>7. ShapeInv'
  <2>1. ShapeOK(WmNoTask)
    BY WmNoTaskIs DEF ShapeOK, Whole, Rmdirs
  <2>2. \A q \in WmSlots : ShapeOK(wmTask[q])'
    BY <1>2, <2>1 DEF WebInv, ShapeInv, ShapeOK
  <2>3. QED
    BY <2>2 DEF ShapeInv
<1>8. CameInv'
  <2>1. \A m \in WmIds : m \in wmGot' => m \in wmGot
    BY <1>1 DEF WmRefetch
  <2>2. \A q \in WmSlots : wmTask'[q].ids \subseteq wmTask[q].ids
    BY <1>2, WmNoTaskIs
  <2>3. ASSUME NEW m \in WmIds PROVE CameOK(m)'
    BY <1>1, <1>4, <2>1, <2>2 DEF WebInv, CameInv, CameOK
  <2>4. QED
    BY <2>3 DEF CameInv
<1>9. BinInv'
  <2>1. ASSUME NEW m \in WmIds PROVE BinOK(m)'
    <3>1. BinOK(m)
      BY DEF WebInv, BinInv
    <3>2. \A q \in WmSlots :
            /\ wmTask'[q].read[m].at \in WmBins => m \in wmBinned
            /\ wmTask'[q].do = "erase" /\ m \in wmTask'[q].ids => m \in wmBinned
      BY <1>2, <3>1, WmNoTaskIs DEF BinOK, WmBins
    <3>3. QED
      BY <1>1, <3>1, <3>2 DEF BinOK
  <2>2. QED
    BY <2>1 DEF BinInv
<1>10. ListInv'
  <2>1. CASE t.ok /\ t.do # "open" /\ ~WmByOthers(t)
    BY <1>1, <2>1 DEF ListInv, WmRefetch
  <2>2. CASE WmByOthers(t)
    <3>1. wmView \in wmCast.views
      BY WmTypeIs DEF WebInv
    <3>2. QED
      BY <1>1, <2>2, <3>1 DEF WebInv, ListInv
  <2>3. CASE ~(t.ok /\ t.do # "open") /\ ~WmByOthers(t)
    <3>1. ~Wrote(t)
      BY <1>1, <2>3 DEF Wrote, OfFlags
    <3>2. Silent' => Silent
      BY <1>2, <3>1 DEF Silent, Wrote
    <3>3. QED
      BY <1>1, <2>3, <3>2 DEF WebInv, ListInv, WmIn
  <2>4. QED
    BY <2>1, <2>2, <2>3
<1>11. FreshInv'
  <2>1. ASSUME NEW m \in WmIds PROVE FreshOK(m)'
    BY <1>1, <1>3 DEF WebInv, FreshInv, FreshOK, SparesOK
  <2>2. QED
    BY <2>1 DEF FreshInv
<1>12. AtInv'
  <2>1. ASSUME NEW m \in WmIds, <<m, "at">> \notin wmMixed' PROVE AtOK(m)'
    <3>1. AtOK(m)
      BY DEF WebInv, AtInv
    <3>2. ASSUME NEW q \in WmSlots, Mover(m, q)' PROVE OwedOK(wmTask[q], m)'
      <4>1. OwedOK(wmTask[q], m) /\ wmTask'[q] = wmTask[q]
        BY <1>1, <1>3, <2>1, <3>1, <3>2 DEF AtOK
      <4>2. PICK o : o = wmTask[q]
        OBVIOUS
      <4>3. OwedOK(o, m)'
        BY <1>1, <4>1, <4>2, OwedSame
      <4>4. QED
        BY <4>1, <4>2, <4>3 DEF OwedOK, Means, WmMeans, WmExists, WmTarget, WmPresent
    <3>3. QED
      BY <1>1, <1>3, <3>1, <3>2 DEF AtOK
  <2>2. QED
    BY <2>1 DEF AtInv, AtOK
<1>13. FlagInv'
  <2>1. ASSUME NEW m \in WmIds, NEW f \in WmFlags PROVE FlagOK(m, f)'
    <3>1. FlagOK(m, f)
      BY DEF WebInv, FlagInv
    <3>2. \A q \in WmSlots : Marker(m, q)' /\ MarkOK(wmTask[q], m, f) => MarkOK(wmTask[q], m, f)'
      BY <1>1, <1>3 DEF MarkOK, WmFlagsBy, WmWritten
    <3>3. \A q \in WmSlots : Opening(m, q)' /\ OpenOK(wmTask[q], m) => OpenOK(wmTask[q], m)'
      BY <1>1, <1>3 DEF OpenOK
    <3>4. QED
      BY <1>1, <1>3, <3>1, <3>2, <3>3 DEF FlagOK
  <2>2. QED
    BY <2>1 DEF FlagInv
<1>14. QED
  BY <1>5, <1>6, <1>7, <1>8, <1>9, <1>10, <1>11, <1>12, <1>13 DEF WebInv

(* The rows and the requests stay as they are, and lists change.           *)
LEMMA LooksStep ==
  ASSUME WebInv,
         UNCHANGED <<wmCast, wmRow, wmOwn, wmBinned, wmTask, wmMail, wmHeld, wmSaid, wmMixed>>,
         JunkStep,
         \/ wmToast' = wmToast \/ wmToast' = WmNoToast,
         WmTypeOK', ListInv',
         \A m \in WmIds : wmRow[m].at = "none" => wmShown'[m] = "none" /\ m \notin wmGot'
  PROVE  WebInv'
<1>1. CastInv' /\ OwnInv' /\ ShapeInv' /\ BinInv' /\ JunkInv'
  BY DEF WebInv, CastInv, OwnInv, ShapeInv, ShapeOK, BinInv, BinOK, JunkStep
<1>2. WmNoToast.ids = {} /\ ~WmNoToast.fresh
  BY DEF WmNoToast
<1>3. CameInv'
  BY <1>2 DEF WebInv, CameInv, CameOK, JunkStep
<1>4. \A m \in WmIds, q \in WmSlots :
        /\ Mover(m, q)' <=> Mover(m, q)
        /\ Marker(m, q)' <=> Marker(m, q)
        /\ Opener(m, q)' <=> Opener(m, q)
        /\ Opening(m, q)' <=> Opening(m, q)
  BY DEF Mover, Marker, Opener, Opening, Busy, WmMoves, WmMarks, WmOpens
<1>5. FreshInv'
  BY <1>2, <1>4 DEF WebInv, FreshInv, FreshOK, SparesOK
<1>6. AtInv'
  <2>1. \A m \in WmIds, q \in WmSlots : OwedOK(wmTask[q], m) => OwedOK(wmTask[q], m)'
    BY DEF OwedOK, Means, WmMeans, WmExists, WmTarget, WmPresent
  <2>2. QED
    BY <1>4, <2>1 DEF WebInv, AtInv, AtOK
<1>7. FlagInv'
  <2>1. \A m \in WmIds, f \in WmFlags, q \in WmSlots :
          /\ MarkOK(wmTask[q], m, f) => MarkOK(wmTask[q], m, f)'
          /\ OpenOK(wmTask[q], m) => OpenOK(wmTask[q], m)'
    BY DEF MarkOK, OpenOK, WmFlagsBy, WmWritten
  <2>2. QED
    BY <1>4, <2>1 DEF WebInv, FlagInv, FlagOK
<1>8. QED
  BY <1>1, <1>3, <1>5, <1>6, <1>7 DEF WebInv

LEMMA LooksTypes ==
  ASSUME WmTypeOK,
         UNCHANGED <<wmCast, wmRow, wmOwn, wmBinned, wmTask, wmMail, wmHeld, wmSaid, wmMixed>>,
         UNCHANGED <<wmBlocked, wmWork, wmVerdict, wmMuddled>>,
         wmShown' \in [WmIds -> WmFolders \cup {"none"}],
         wmView' \in wmCast.views, wmFetch' \in {"no", "sent", "read"},
         wmGot' \subseteq WmIds, wmOld' \subseteq wmCast.views, wmDirty' \subseteq wmCast.views,
         wmToast' \in WmToastType
  PROVE  WmTypeOK'
BY DEF WmTypeOK, WmTaskType, WmAts, WmToastType, WmWorkType

LEMMA ListStep ==
  ASSUME WebInv, WmList, UNCHANGED wmCast
  PROVE  WebInv'
<1>1. /\ wmFetch = "sent" /\ wmFetch' = "read" /\ wmGot' = WmIn(wmView)
      /\ wmOld' = wmOld \ {wmView} /\ wmDirty' = wmDirty \ {wmView}
      /\ UNCHANGED <<wmRow, wmOwn, wmBinned, wmTask, wmMail, wmShown, wmHeld, wmView, wmToast>>
      /\ UNCHANGED <<wmSaid, wmMixed, wmBlocked, wmWork, wmVerdict, wmMuddled>>
  BY DEF WmList, wmStore, wmHistory, wmJunk
<1>2. WmTypeOK'
  <2>1. wmGot' \subseteq WmIds
    BY <1>1 DEF WmIn
  <2>2. QED
    BY <1>1, <2>1, WmTypeIs, LooksTypes DEF WebInv
<1>3. ListInv'
  <2>1. Silent' => Silent
    BY <1>1 DEF Silent, Wrote
  <2>2. WmIn(wmView)' = WmIn(wmView)
    BY <1>1 DEF WmIn
  <2>3. QED
    BY <1>1, <2>1, <2>2 DEF WebInv, ListInv
<1>4. \A m \in WmIds : wmRow[m].at = "none" => wmShown'[m] = "none" /\ m \notin wmGot'
  <2>1. wmView # "none"
    BY ShownCame DEF WmFolders
  <2>2. QED
    BY <1>1, <2>1 DEF WebInv, CameInv, CameOK, WmIn
<1>5. QED
  BY <1>1, <1>2, <1>3, <1>4, JunkSame, LooksStep DEF wmJunk

LEMMA ShowStep ==
  ASSUME WebInv, WmShow, UNCHANGED wmCast
  PROVE  WebInv'
<1>1. /\ wmFetch = "read" /\ wmFetch' = "no" /\ wmGot' = {}
      /\ wmShown' = [m \in WmIds |-> IF m \in wmGot THEN wmView
                                     ELSE IF wmShown[m] = wmView THEN "none" ELSE wmShown[m]]
      /\ UNCHANGED <<wmRow, wmOwn, wmBinned, wmTask, wmMail, wmHeld, wmView, wmOld, wmToast>>
      /\ wmDirty' = wmDirty
      /\ UNCHANGED <<wmSaid, wmMixed, wmBlocked, wmWork, wmVerdict, wmMuddled>>
  BY DEF WmShow, wmStore, wmHistory, wmJunk
<1>2. \A m \in WmIds :
        wmShown'[m] = IF m \in wmGot THEN wmView
                      ELSE IF wmShown[m] = wmView THEN "none" ELSE wmShown[m]
  BY <1>1
<1>3. WmTypeOK'
  <2>1. wmShown' \in [WmIds -> WmFolders \cup {"none"}]
    <3>1. wmShown \in [WmIds -> WmFolders \cup {"none"}] /\ wmView \in WmFolders
      BY WmTypeIs, ShownCame DEF WebInv
    <3>2. QED
      BY <1>1, <3>1
  <2>2. QED
    BY <1>1, <2>1, WmTypeIs, LooksTypes DEF WebInv
<1>4. ListInv'
  <2>1. Silent' => Silent
    BY <1>1 DEF Silent, Wrote
  <2>2. wmView # "none" /\ \A f \in wmCast.views : f # "none"
    BY ShownCame, WmAssumption DEF WmFolders
  <2>3. ASSUME Silent', NEW f \in wmCast.views, f \notin wmDirty, f \notin wmOld,
               NEW m \in WmIds, wmShown'[m] = f
        PROVE  wmRow[m].at = f
    <3>1. CASE f = wmView
      <4>1. m \in wmGot
        BY <1>2, <2>2, <2>3, <3>1
      <4>2. wmGot \subseteq WmIn(wmView)
        BY <1>1, <2>1, <2>3, <3>1 DEF WebInv, ListInv
      <4>3. QED
        BY <3>1, <4>1, <4>2 DEF WmIn
    <3>2. CASE f # wmView
      <4>1. wmShown[m] = f
        BY <1>2, <2>2, <2>3, <3>2
      <4>2. QED
        BY <2>1, <2>3, <3>2, <4>1 DEF WebInv, ListInv
    <3>3. QED
      BY <3>1, <3>2
  <2>4. wmView \notin wmOld
    BY <1>1 DEF WebInv, ListInv
  <2>5. QED
    BY <1>1, <2>3, <2>4 DEF ListInv
<1>5. \A m \in WmIds : wmRow[m].at = "none" => wmShown'[m] = "none" /\ m \notin wmGot'
  BY <1>1, <1>2 DEF WebInv, CameInv, CameOK
<1>6. QED
  BY <1>1, <1>3, <1>4, <1>5, JunkSame, LooksStep DEF wmJunk

LEMMA ChangeViewStep ==
  ASSUME WebInv, NEW f \in wmCast.views, WmChangeView(f), UNCHANGED wmCast
  PROVE  WebInv'
<1>1. /\ wmFetch = "no" /\ f # wmView /\ wmView' = f
      /\ wmFetch' \in (IF f \in wmOld THEN {"sent"} ELSE {"no", "sent"})
      /\ UNCHANGED <<wmRow, wmOwn, wmBinned, wmTask, wmMail, wmShown, wmHeld, wmGot, wmOld>>
      /\ UNCHANGED <<wmToast, wmDirty, wmSaid, wmMixed>>
      /\ UNCHANGED <<wmBlocked, wmWork, wmVerdict, wmMuddled>>
  BY DEF WmChangeView, wmStore, wmHistory, wmJunk
<1>2. WmTypeOK'
  BY <1>1, WmTypeIs, LooksTypes DEF WebInv
<1>3. ListInv'
  <2>1. Silent' => Silent
    BY <1>1 DEF Silent, Wrote
  <2>2. QED
    BY <1>1, <2>1 DEF WebInv, ListInv
<1>4. \A m \in WmIds : wmRow[m].at = "none" => wmShown'[m] = "none" /\ m \notin wmGot'
  BY <1>1 DEF WebInv, CameInv, CameOK
<1>5. QED
  BY <1>1, <1>2, <1>3, <1>4, JunkSame, LooksStep DEF wmJunk

LEMMA ToastGoesStep ==
  ASSUME WebInv, WmToastGoes, UNCHANGED wmCast
  PROVE  WebInv'
<1>1. /\ wmToast' = WmNoToast
      /\ UNCHANGED <<wmRow, wmOwn, wmBinned, wmTask, wmMail, wmShown, wmHeld, wmView, wmFetch>>
      /\ UNCHANGED <<wmGot, wmOld, wmDirty, wmSaid, wmMixed>>
      /\ UNCHANGED <<wmBlocked, wmWork, wmVerdict, wmMuddled>>
  BY DEF WmToastGoes, wmStore, wmHistory, wmJunk
<1>2. WmTypeOK'
  <2>1. WmNoToast \in WmToastType
    BY DEF WmNoToast, WmToastType, WmFolders, WmDoes
  <2>2. QED
    BY <1>1, <2>1, WmTypeIs, LooksTypes DEF WebInv
<1>3. ListInv'
  BY <1>1 DEF WebInv, ListInv, Silent, Wrote, WmIn
<1>4. \A m \in WmIds : wmRow[m].at = "none" => wmShown'[m] = "none" /\ m \notin wmGot'
  BY <1>1 DEF WebInv, CameInv, CameOK
<1>5. QED
  BY <1>1, <1>2, <1>3, <1>4, JunkSame, LooksStep DEF wmJunk

-----------------------------------------------------------------------------
(* The blocklist.                                                          *)
LEMMA WorkStep ==
  ASSUME WebInv, NEW k \in WmWorks, WmBackground(k), UNCHANGED wmCast
  PROVE  WebInv'
<1> DEFINE w == wmWork[k]
<1>1. wmWork \in [WmWorks -> WmWorkType] /\ w \in WmWorkType /\ wmBlocked \in BOOLEAN
      /\ wmMuddled \in BOOLEAN /\ wmVerdict \in {"none", "spam", "notSpam"}
  BY WmTypeIs DEF WebInv
<1>2. WmBehind
  BY DEF WmBackground, WmSenders, WmLooksUp, WmWritesList, WmWorkFails
<1>3. /\ UNCHANGED <<wmRow, wmOwn, wmBinned, wmTask, wmMail, wmShown, wmHeld, wmView, wmFetch>>
      /\ wmGot' = wmGot
      /\ UNCHANGED <<wmOld, wmToast, wmSaid, wmMixed, wmVerdict, wmDirty>>
  BY <1>2 DEF WmBehind, wmStore, wmClient, wmHistory
<1>4. WmNoWork \in WmWorkType /\ WmNoWork.at = "idle" /\ WmNoWork.ids = {}
  BY DEF WmNoWork, WmWorkType
<1>5. ASSUME NEW at \in {"idle", "exists", "create", "remove"}, WmWorks_(k, at)
      PROVE  \E n \in WmWorkType :
               /\ n.at = at /\ n.ids \subseteq w.ids /\ (at # "idle" => n.do = w.do)
               /\ wmWork' = [wmWork EXCEPT ![k] = n]
  <2>1. CASE at = "idle"
    BY <1>4, <1>5, <2>1 DEF WmWorks_
  <2>2. CASE at # "idle"
    <3>1. PICK v \in WmWorkType : v = w
      BY <1>1
    <3>2. PICK n \in WmWorkType : n = [v EXCEPT !.at = at]
      BY DEF WmWorkType
    <3>3. n.at = at /\ n.ids = v.ids /\ n.do = v.do
      BY <3>2 DEF WmWorkType
    <3>4. QED
      BY <1>5, <2>2, <3>1, <3>2, <3>3 DEF WmWorks_
  <2>3. QED
    BY <2>1, <2>2
<1>6. \E n \in WmWorkType :
        /\ wmWork' = [wmWork EXCEPT ![k] = n] /\ n.ids \subseteq w.ids
        /\ {wmBlocked, wmMuddled}' \subseteq BOOLEAN /\ JunkInv'
  <2>1. CASE WmSenders(k)
    <3>1. PICK at \in {"idle", "exists", "remove"} :
            /\ WmWorks_(k, at)
            /\ at = "exists" => w.do = "spam"
            /\ at = "remove" => w.do = "notSpam"
            /\ at = "idle" => wmMuddled'
            /\ w.at = "senders" /\ wmBlocked' = wmBlocked /\ wmMuddled' \in BOOLEAN
            /\ wmMuddled => wmMuddled'
      BY <1>1, <2>1 DEF WmSenders, WmWorkType
    <3>2. PICK n \in WmWorkType :
               /\ n.at = at /\ n.ids \subseteq w.ids /\ (at # "idle" => n.do = w.do)
               /\ wmWork' = [wmWork EXCEPT ![k] = n]
      BY <1>5, <3>1
    <3>3. wmWork'[k] = n /\ \A j \in WmWorks : j # k => wmWork'[j] = wmWork[j]
      BY <1>1, <3>2
    <3>4. JunkInv'
      BY <1>3, <3>1, <3>2, <3>3 DEF WebInv, JunkInv
    <3>5. QED
      BY <1>1, <3>1, <3>2, <3>4
  <2>2. CASE WmLooksUp(k)
    <3>1. PICK at \in {"idle", "create"} :
            /\ WmWorks_(k, at) /\ w.at = "exists" /\ wmBlocked' = wmBlocked
            /\ wmMuddled' = wmMuddled
            /\ at = "idle" => wmBlocked
      BY <2>2 DEF WmLooksUp
    <3>2. PICK n \in WmWorkType :
               /\ n.at = at /\ n.ids \subseteq w.ids /\ (at # "idle" => n.do = w.do)
               /\ wmWork' = [wmWork EXCEPT ![k] = n]
      BY <1>5, <3>1
    <3>3. wmWork'[k] = n /\ \A j \in WmWorks : j # k => wmWork'[j] = wmWork[j]
      BY <1>1, <3>2
    <3>4. w.do = "spam"
      BY <3>1 DEF WebInv, JunkInv
    <3>5. JunkInv'
      BY <1>1, <1>3, <3>1, <3>2, <3>3, <3>4 DEF WebInv, JunkInv
    <3>6. QED
      BY <1>1, <3>1, <3>2, <3>5
  <2>3. CASE WmWritesList(k)
    <3>1. /\ w.at \in {"create", "remove"} /\ wmBlocked' = (w.at = "create")
          /\ WmWorks_(k, "idle") /\ wmMuddled' = wmMuddled
      BY <2>3 DEF WmWritesList
    <3>2. PICK n \in WmWorkType : /\ n.at = "idle" /\ n.ids \subseteq w.ids
                                  /\ wmWork' = [wmWork EXCEPT ![k] = n]
      BY <1>5, <3>1
    <3>3. wmWork'[k] = n /\ \A j \in WmWorks : j # k => wmWork'[j] = wmWork[j]
      BY <1>1, <3>2
    <3>4. (w.at = "create") <=> (w.do = "spam")
      BY <3>1 DEF WebInv, JunkInv
    <3>5. JunkInv'
      BY <1>1, <1>3, <3>1, <3>2, <3>3, <3>4 DEF WebInv, JunkInv
    <3>6. QED
      BY <1>1, <3>1, <3>2, <3>5
  <2>4. CASE WmWorkFails(k)
    <3>1. WmWorks_(k, "idle") /\ wmMuddled' = TRUE /\ wmBlocked' = wmBlocked
      BY <2>4 DEF WmWorkFails
    <3>2. PICK n \in WmWorkType : /\ n.at = "idle" /\ n.ids \subseteq w.ids
                                  /\ wmWork' = [wmWork EXCEPT ![k] = n]
      BY <1>5, <3>1
    <3>3. wmWork'[k] = n /\ \A j \in WmWorks : j # k => wmWork'[j] = wmWork[j]
      BY <1>1, <3>2
    <3>4. JunkInv'
      BY <3>1, <3>2, <3>3 DEF WebInv, JunkInv
    <3>5. QED
      BY <1>1, <3>1, <3>2, <3>4
  <2>5. QED
    BY <2>1, <2>2, <2>3, <2>4 DEF WmBackground
<1>7. PICK n \in WmWorkType :
        /\ wmWork' = [wmWork EXCEPT ![k] = n] /\ n.ids \subseteq w.ids
        /\ {wmBlocked, wmMuddled}' \subseteq BOOLEAN /\ JunkInv'
  BY <1>6
<1>8. /\ wmWork' \in [WmWorks -> WmWorkType]
      /\ \A j \in WmWorks : wmWork'[j].ids \subseteq wmWork[j].ids
  BY <1>1, <1>7
<1>9. WmTypeOK'
  BY <1>3, <1>7, <1>8 DEF WebInv, WmTypeOK, WmTaskType, WmAts, WmToastType, WmWorkType
<1>10. ListInv'
  BY <1>3 DEF WebInv, ListInv, Silent, Wrote, WmIn
<1>11. JunkStep
  BY <1>1, <1>3, <1>7, <1>8 DEF JunkStep
<1>12. \A m \in WmIds : wmRow[m].at = "none" => wmShown'[m] = "none" /\ m \notin wmGot'
  BY <1>3 DEF WebInv, CameInv, CameOK
<1>13. QED
  BY <1>3, <1>9, <1>10, <1>11, <1>12, LooksStep

-----------------------------------------------------------------------------
(* Others.                                                                 *)
LEMMA ArrivesStep ==
  ASSUME WebInv, NEW m \in WmIds, WmArrives(m), UNCHANGED wmCast
  PROVE  WebInv'
<1>1. /\ wmRow[m].at = "none"
      /\ wmMail' = [wmMail EXCEPT ![m] = IF wmBlocked THEN "Junk" ELSE "INBOX"]
      /\ UNCHANGED <<wmRow, wmOwn, wmBinned, wmTask, wmShown, wmHeld, wmView, wmFetch, wmGot>>
      /\ UNCHANGED <<wmOld, wmToast, wmSaid, wmMixed, wmDirty, wmJunk>>
  BY DEF WmArrives, wmStore, wmClient, wmHistory
<1>2. UNCHANGED <<wmBlocked, wmWork, wmVerdict, wmMuddled>> /\ JunkStep
  BY <1>1, JunkSame DEF wmJunk
<1>3. wmMail' \in [WmIds -> {"no", "INBOX", "Junk"}]
      /\ \A i \in WmIds : wmMail'[i] # "no" => i = m \/ wmMail[i] # "no"
  <2>1. wmMail \in [WmIds -> {"no", "INBOX", "Junk"}]
    BY WmTypeIs DEF WebInv
  <2>2. QED
    BY <1>1, <2>1
<1>4. WmTypeOK'
  BY <1>1, <1>2, <1>3 DEF WebInv, WmTypeOK, WmTaskType, WmAts, WmToastType, WmWorkType
<1>5. CastInv' /\ OwnInv' /\ ShapeInv' /\ BinInv' /\ JunkInv' /\ ListInv'
  BY <1>1, <1>2 DEF WebInv, CastInv, OwnInv, ShapeInv, ShapeOK, BinInv, BinOK, JunkStep, ListInv,
                    Silent, Wrote, WmIn
<1>6. CameInv'
  BY <1>1, <1>2, <1>3 DEF WebInv, CameInv, CameOK
<1>7. \A i \in WmIds, q \in WmSlots :
        /\ Mover(i, q)' <=> Mover(i, q)
        /\ Marker(i, q)' <=> Marker(i, q)
        /\ Opener(i, q)' <=> Opener(i, q)
        /\ Opening(i, q)' <=> Opening(i, q)
  BY <1>1 DEF Mover, Marker, Opener, Opening, Busy, WmMoves, WmMarks, WmOpens
<1>8. FreshInv'
  BY <1>1, <1>7 DEF WebInv, FreshInv, FreshOK, SparesOK
<1>9. AtInv'
  <2>1. \A i \in WmIds, q \in WmSlots : OwedOK(wmTask[q], i) => OwedOK(wmTask[q], i)'
    BY <1>1 DEF OwedOK, Means, WmMeans, WmExists, WmTarget, WmPresent
  <2>2. QED
    BY <1>1, <1>7, <2>1 DEF WebInv, AtInv, AtOK
<1>10. FlagInv'
  <2>1. \A i \in WmIds, f \in WmFlags, q \in WmSlots :
          /\ MarkOK(wmTask[q], i, f) => MarkOK(wmTask[q], i, f)'
          /\ OpenOK(wmTask[q], i) => OpenOK(wmTask[q], i)'
    BY <1>1 DEF MarkOK, OpenOK, WmFlagsBy, WmWritten
  <2>2. QED
    BY <1>1, <1>7, <2>1 DEF WebInv, FlagInv, FlagOK
<1>11. QED
  BY <1>4, <1>5, <1>6, <1>8, <1>9, <1>10 DEF WebInv

(* One row is written from outside: what it was to become is what it is.   *)
LEMMA OutsideStep ==
  ASSUME WebInv, NEW m \in WmIds, NEW row \in WmRowType, WmOutside(m, row),
         UNCHANGED <<wmCast, wmOwn, wmTask, wmShown, wmHeld, wmView, wmJunk>>,
         row.at \in WmFolders, WmExists(row.at),
         \/ WmPresent(m) /\ row.flags = wmRow[m].flags
         \/ wmRow[m].at = "none" /\ row.flags = {},
         wmMail' \in [WmIds -> {"no", "INBOX", "Junk"}], wmMail'[m] = "no",
         \A i \in WmIds : wmMail'[i] # "no" => wmMail[i] # "no",
         \/ WmRefetch /\ UNCHANGED wmDirty
         \/ wmDirty' = wmCast.views /\ UNCHANGED <<wmOld, wmFetch, wmGot>>,
         wmToast' \in WmToastType, wmToast'.ids = wmToast.ids,
         wmToast'.of = wmToast.of, wmToast'.to = wmToast.to,
         wmToast'.fresh => wmToast.fresh /\ m \notin wmToast.ids
  PROVE  WebInv'
<1>1. /\ wmRow' = [wmRow EXCEPT ![m] = row]
      /\ wmBinned' = wmBinned \cup {i \in WmIds : wmRow'[i].at \in WmBins}
      /\ wmSaid' = [wmSaid EXCEPT ![m].at = row.at]
      /\ wmMixed' = IF \E s \in WmSlots : Mover(m, s) THEN wmMixed \cup {<<m, "at">>} ELSE wmMixed
  BY DEF WmOutside, WmRows, Mover, WmBusy, Busy
<1>2. /\ wmRow' \in [WmIds -> WmRowType] /\ wmRow'[m] = row
      /\ \A i \in WmIds : i # m => wmRow'[i] = wmRow[i]
  BY <1>1, WmTypeIs DEF WebInv
<1>3. /\ wmSaid' \in [WmIds -> WmRowType] /\ wmSaid'[m].at = row.at
      /\ wmSaid'[m].flags = wmSaid[m].flags
      /\ \A i \in WmIds : i # m => wmSaid'[i] = wmSaid[i]
  <2>1. PICK said \in WmRowType : said = wmSaid[m]
    BY WmRowsAre DEF WebInv
  <2>2. PICK new \in WmRowType : new = [said EXCEPT !.at = row.at]
    BY DEF WmRowType
  <2>3. new.at = row.at /\ new.flags = said.flags
    BY <2>2 DEF WmRowType
  <2>4. wmSaid \in [WmIds -> WmRowType]
    BY WmTypeIs DEF WebInv
  <2>5. wmSaid' = [wmSaid EXCEPT ![m] = new]
    BY <1>1, <2>1, <2>2
  <2>6. QED
    BY <2>1, <2>3, <2>4, <2>5
<1>4. row.at \notin {"none", "gone"}
  BY DEF WmFolders
<1>5. UNCHANGED <<wmBlocked, wmWork, wmVerdict, wmMuddled>> /\ JunkStep
  BY JunkSame DEF wmJunk
<1>6. wmMixed \subseteq wmMixed'
  BY <1>1
<1>7. WmTypeOK'
  <2>1. wmMixed' \subseteq WmIds \X (WmFlags \cup {"at"}) /\ wmBinned' \subseteq WmIds
    <3>1. wmMixed \subseteq WmIds \X (WmFlags \cup {"at"}) /\ wmBinned \subseteq WmIds
      BY WmTypeIs DEF WebInv
    <3>2. <<m, "at">> \in WmIds \X (WmFlags \cup {"at"})
      OBVIOUS
    <3>3. wmMixed' \subseteq wmMixed \cup {<<m, "at">>}
      BY <1>1
    <3>4. wmBinned' \subseteq WmIds
      BY <1>1, <3>1
    <3>5. QED
      BY <3>1, <3>2, <3>3, <3>4
  <2>2. wmFetch' \in {"no", "sent", "read"} /\ wmGot' \subseteq WmIds
        /\ wmOld' \subseteq wmCast.views /\ wmDirty' \subseteq wmCast.views
    BY WmTypeIs DEF WebInv, WmRefetch
  <2>3. QED
    BY <1>2, <1>3, <1>5, <2>1, <2>2
       DEF WebInv, WmTypeOK, WmTaskType, WmAts, WmToastType, WmWorkType
<1>8. CastInv' /\ ShapeInv' /\ JunkInv'
  BY <1>5 DEF WebInv, CastInv, ShapeInv, ShapeOK, JunkStep
<1>9. OwnInv'
  BY <1>2 DEF WebInv, OwnInv, WmExists
<1>10. CameInv'
  <2>1. ASSUME NEW i \in WmIds PROVE CameOK(i)'
    <3>1. CameOK(i) /\ wmGot' \subseteq wmGot
      BY DEF WebInv, CameInv, WmRefetch
    <3>2. CASE i = m
      BY <1>2, <1>3, <1>4, <3>2 DEF CameOK
    <3>3. CASE i # m
      BY <1>2, <1>3, <1>5, <3>1, <3>3 DEF CameOK
    <3>4. QED
      BY <3>2, <3>3
  <2>2. QED
    BY <2>1 DEF CameInv
<1>11. BinInv'
  <2>1. \A i \in WmIds : wmRow'[i].at = "gone" => wmRow[i].at = "gone"
    BY <1>2, <1>4
  <2>2. QED
    BY <1>1, <2>1 DEF WebInv, BinInv, BinOK
<1>12. ListInv'
  <2>1. CASE WmRefetch
    BY <2>1 DEF ListInv, WmRefetch
  <2>2. CASE wmDirty' = wmCast.views /\ UNCHANGED <<wmOld, wmFetch, wmGot>>
    <3>1. wmView \in wmCast.views
      BY WmTypeIs DEF WebInv
    <3>2. QED
      BY <2>2, <3>1 DEF WebInv, ListInv
  <2>3. QED
    BY <2>1, <2>2
<1>13. \A i \in WmIds, q \in WmSlots :
        /\ Mover(i, q)' <=> Mover(i, q)
        /\ Marker(i, q)' <=> Marker(i, q)
        /\ Opener(i, q)' <=> Opener(i, q)
        /\ Opening(i, q)' <=> Opening(i, q)
  BY DEF Mover, Marker, Opener, Opening, Busy, WmMoves, WmMarks, WmOpens
<1>14. FreshInv'
  <2>1. \A i \in WmIds : wmToast'.fresh /\ i \in wmToast'.ids => i # m /\ FreshOK(i)
    BY DEF WebInv, FreshInv
  <2>2. ASSUME NEW i \in WmIds, wmToast'.fresh, i \in wmToast'.ids PROVE FreshOK(i)'
    BY <1>2, <1>13, <2>1, <2>2 DEF FreshOK, SparesOK
  <2>3. QED
    BY <2>2 DEF FreshInv, FreshOK
<1>15. AtInv'
  <2>1. ASSUME NEW i \in WmIds, <<i, "at">> \notin wmMixed' PROVE AtOK(i)'
    <3>1. AtOK(i) /\ <<i, "at">> \notin wmMixed
      BY <1>6, <2>1 DEF WebInv, AtInv
    <3>2. CASE i = m
      <4>1. \A q \in WmSlots : ~Mover(i, q)
        BY <1>1, <2>1, <3>2
      <4>2. QED
        BY <1>2, <1>3, <1>13, <3>2, <4>1 DEF AtOK
    <3>3. CASE i # m
      <4>1. wmRow'[i] = wmRow[i] /\ wmSaid'[i] = wmSaid[i]
        BY <1>2, <1>3, <3>3
      <4>2. \A q \in WmSlots : OwedOK(wmTask[q], i) => OwedOK(wmTask[q], i)'
        BY <4>1 DEF OwedOK, Means, WmMeans, WmExists, WmTarget, WmPresent
      <4>3. QED
        BY <1>13, <3>1, <4>1, <4>2 DEF AtOK
    <3>4. QED
      BY <3>2, <3>3
  <2>2. QED
    BY <2>1 DEF AtInv, AtOK
<1>16. FlagInv'
  <2>1. ASSUME NEW i \in WmIds, NEW f \in WmFlags PROVE FlagOK(i, f)'
    <3>1. FlagOK(i, f) /\ (<<i, f>> \notin wmMixed' => <<i, f>> \notin wmMixed)
      BY <1>6 DEF WebInv, FlagInv
    <3>2. CASE i = m /\ wmRow[m].at = "none"
      <4>1. \A q \in WmSlots : m \notin wmTask[q].ids
        BY <3>2 DEF WebInv, CameInv, CameOK
      <4>2. \A q \in WmSlots : ~Marker(i, q) /\ ~Opener(i, q) /\ ~Opening(i, q)
        BY <3>2, <4>1 DEF Marker, Opener, Opening, WmMarks, WmOpens
      <4>3. wmSaid[m].flags = {} /\ row.flags = {}
        BY <3>2, WmNoTaskIs DEF WebInv, CameInv, CameOK, WmPresent
      <4>4. QED
        BY <1>2, <1>3, <1>13, <3>2, <4>2, <4>3 DEF FlagOK
    <3>3. CASE ~(i = m /\ wmRow[m].at = "none")
      <4>1. /\ wmRow'[i].flags = wmRow[i].flags /\ wmSaid'[i].flags = wmSaid[i].flags
            /\ wmRow'[i].at # "gone" => wmRow[i].at # "gone"
        BY <1>2, <1>3, <3>3 DEF WmPresent
      <4>2. \A q \in WmSlots :
              /\ MarkOK(wmTask[q], i, f) => MarkOK(wmTask[q], i, f)'
              /\ OpenOK(wmTask[q], i) => OpenOK(wmTask[q], i)'
        BY <4>1 DEF MarkOK, OpenOK, WmFlagsBy, WmWritten
      <4>3. QED
        BY <1>13, <3>1, <4>1, <4>2 DEF FlagOK
    <3>4. QED
      BY <3>2, <3>3
  <2>2. QED
    BY <2>1 DEF FlagInv
<1>17. QED
  BY <1>7, <1>8, <1>9, <1>10, <1>11, <1>12, <1>14, <1>15, <1>16 DEF WebInv

LEMMA StoredStep ==
  ASSUME WebInv, NEW m \in WmIds, WmStored(m), UNCHANGED wmCast
  PROVE  WebInv'
<1>1. /\ wmMail[m] # "no" /\ wmMail' = [wmMail EXCEPT ![m] = "no"]
      /\ WmOutside(m, [at |-> wmMail[m], flags |-> {}])
      /\ \/ WmRefetch /\ UNCHANGED wmDirty
         \/ wmDirty' = wmCast.views /\ UNCHANGED <<wmOld, wmFetch, wmGot>>
      /\ UNCHANGED <<wmOwn, wmTask, wmShown, wmHeld, wmView, wmToast, wmJunk>>
  BY DEF WmStored
<1>2. wmMail \in [WmIds -> {"no", "INBOX", "Junk"}] /\ wmToast \in WmToastType
  BY WmTypeIs DEF WebInv
<1>3. /\ wmMail' \in [WmIds -> {"no", "INBOX", "Junk"}] /\ wmMail'[m] = "no"
      /\ \A i \in WmIds : wmMail'[i] # "no" => wmMail[i] # "no"
  BY <1>1, <1>2
<1>4. wmMail[m] \in {"INBOX", "Junk"} /\ wmRow[m].at = "none" /\ m \notin wmToast.ids
  BY <1>1, <1>2 DEF WebInv, CameInv, CameOK
<1>5. PICK row \in WmRowType : row = [at |-> wmMail[m], flags |-> {}]
  BY <1>4 DEF WmRowType, WmFolders
<1>6. row.at \in WmFolders /\ WmExists(row.at) /\ row.flags = {}
  BY <1>4, <1>5 DEF WmFolders, WmExists
<1>7. WmOutside(m, row)
  BY <1>1, <1>5
<1>8. wmToast' \in WmToastType /\ wmToast' = wmToast
  BY <1>1, <1>2
<1>9. QED
  BY <1>1, <1>3, <1>4, <1>6, <1>7, <1>8, OutsideStep

LEMMA OtherMovesStep ==
  ASSUME WebInv, NEW m \in WmIds, NEW f \in wmCast.others, WmOtherMoves(m, f),
         UNCHANGED wmCast
  PROVE  WebInv'
<1>1. /\ WmPresent(m) /\ WmExists(f)
      /\ WmOutside(m, [wmRow[m] EXCEPT !.at = f])
      /\ wmToast' = IF m \in wmToast.ids THEN [wmToast EXCEPT !.fresh = FALSE] ELSE wmToast
      /\ wmDirty' = wmCast.views /\ UNCHANGED <<wmOld, wmFetch, wmGot>>
      /\ UNCHANGED <<wmOwn, wmTask, wmMail, wmShown, wmHeld, wmView, wmJunk>>
  BY DEF WmOtherMoves
<1>2. wmMail \in [WmIds -> {"no", "INBOX", "Junk"}] /\ wmToast \in WmToastType
  BY WmTypeIs DEF WebInv
<1>3. f \in WmFolders
  BY WmAssumption DEF WebInv, CastInv
<1>4. PICK old \in WmRowType : old = wmRow[m]
  BY WmRowsAre DEF WebInv
<1>5. PICK row \in WmRowType : row = [old EXCEPT !.at = f]
  BY <1>3 DEF WmRowType
<1>6. row.at = f /\ row.flags = wmRow[m].flags
  BY <1>4, <1>5 DEF WmRowType
<1>7. WmOutside(m, row)
  BY <1>1, <1>4, <1>5
<1>8. wmMail[m] = "no" /\ wmMail' = wmMail
  BY <1>1 DEF WebInv, CameInv, CameOK, WmPresent
<1>9. /\ wmToast' \in WmToastType /\ wmToast'.ids = wmToast.ids
      /\ wmToast'.of = wmToast.of /\ wmToast'.to = wmToast.to
      /\ wmToast'.fresh => wmToast.fresh /\ m \notin wmToast.ids
  <2>1. PICK toast \in WmToastType : toast = wmToast
    BY <1>2
  <2>2. PICK stale \in WmToastType : stale = [toast EXCEPT !.fresh = FALSE]
    BY DEF WmToastType
  <2>3. ~stale.fresh /\ stale.ids = toast.ids /\ stale.of = toast.of /\ stale.to = toast.to
    BY <2>2 DEF WmToastType
  <2>4. QED
    BY <1>1, <2>1, <2>2, <2>3
<1>10. QED
  BY <1>1, <1>2, <1>3, <1>6, <1>7, <1>8, <1>9, OutsideStep

-----------------------------------------------------------------------------
LEMMA ServeAllStep ==
  ASSUME WebInv, NEW s \in WmSlots, WmServe(s), UNCHANGED wmCast
  PROVE  WebInv'
BY ReadStep, MarkRowsStep, FileRowStep, MarkSeenStep, CountersStep, AimStep, MoveRowsStep,
   DeleteRowsStep, TrashRowsStep, EmptyRowsStep, CountRowsStep, RemoveFolderStep, EraseRowStep,
   JudgeStep DEF WmServe

(* Every step keeps it.                                                    *)
LEMMA WmNextInv ==
  ASSUME WebInv, [WmNext]_wmVars
  PROVE  WebInv'
<1>1. CASE WmNext
  <2>1. UNCHANGED wmCast
    BY <1>1 DEF WmNext
  <2>2. ASSUME NEW s \in WmSlots, WmClick(s) \/ WmServe(s) \/ WmReceive(s) PROVE WebInv'
    BY <2>1, <2>2, ClickStep, ServeAllStep, WmReceiveStep
  <2>3. ASSUME NEW k \in WmWorks, WmBackground(k) PROVE WebInv'
    BY <2>1, <2>3, WorkStep
  <2>4. ASSUME NEW m \in WmIds, WmOther(m) PROVE WebInv'
    BY <2>1, <2>4, ArrivesStep, StoredStep, OtherMovesStep DEF WmOther
  <2>5. ASSUME WmLooks PROVE WebInv'
    BY <2>1, <2>5, ListStep, ShowStep, ToastGoesStep, ChangeViewStep DEF WmLooks
  <2>6. QED
    BY <1>1, <2>2, <2>3, <2>4, <2>5 DEF WmNext
<1>2. CASE UNCHANGED wmVars
  <2>1. /\ UNCHANGED <<wmCast, wmRow, wmOwn, wmBinned, wmTask, wmMail, wmShown, wmHeld, wmView>>
        /\ UNCHANGED <<wmFetch, wmGot, wmOld, wmToast, wmSaid, wmMixed, wmDirty, wmJunk>>
        /\ UNCHANGED <<wmBlocked, wmWork, wmVerdict, wmMuddled>>
    BY <1>2 DEF wmVars, wmStore, wmClient, wmHistory, wmJunk
  <2>2. WmTypeOK'
    BY <2>1 DEF WebInv, WmTypeOK
  <2>3. ListInv'
    BY <2>1 DEF WebInv, ListInv, Silent, Wrote, WmIn
  <2>4. \A m \in WmIds : wmRow[m].at = "none" => wmShown'[m] = "none" /\ m \notin wmGot'
    BY <2>1 DEF WebInv, CameInv, CameOK
  <2>5. QED
    BY <2>1, <2>2, <2>3, <2>4, JunkSame, LooksStep
<1>3. QED
  BY <1>1, <1>2

(* It holds in the beginning.                                              *)
LEMMA WmInitInv == WmInit => WebInv
<1> SUFFICES ASSUME WmInit PROVE WebInv
  OBVIOUS
<1>1. PICK from \in [wmCast.mails -> wmCast.from] :
        wmRow = [m \in WmIds |-> IF m \in wmCast.mails THEN [WmNoMail EXCEPT !.at = from[m]]
                                ELSE WmNoMail]
  BY DEF WmInit
<1>2. wmCast \in WmCasts /\ wmCast.from \subseteq WmFolders \cup {"none"}
      /\ wmCast.views \subseteq WmFolders
  BY WmAssumption DEF WmInit
<1>3. ASSUME NEW m \in WmIds
      PROVE  /\ wmRow[m] \in WmRowType /\ wmRow[m].at \in WmFolders \cup {"none"}
             /\ wmRow[m].flags = {}
             /\ wmRow[m].at = "none" => wmRow[m] = WmNoMail
  <2>1. CASE m \in wmCast.mails
    <3>1. PICK at \in WmFolders \cup {"none"} : at = from[m]
      BY <1>2, <2>1
    <3>2. wmRow[m] = [at |-> at, flags |-> {}]
      BY <1>1, <2>1, <3>1 DEF WmNoMail
    <3>3. QED
      BY <3>2 DEF WmRowType, WmNoMail
  <2>2. CASE m \notin wmCast.mails
    BY <1>1, <2>2 DEF WmRowType, WmNoMail
  <2>3. QED
    BY <2>1, <2>2
<1>4. /\ wmSaid = wmRow /\ wmOwn = TRUE /\ wmBlocked = FALSE
      /\ wmTask = [s \in WmSlots |-> WmNoTask] /\ wmWork = [k \in WmWorks |-> WmNoWork]
      /\ wmMail = [m \in WmIds |-> "no"] /\ wmShown = [m \in WmIds |-> wmRow[m].at]
      /\ wmHeld = [m \in WmIds |-> {}]
      /\ wmView \in wmCast.views /\ wmFetch = "no" /\ wmGot = {} /\ wmOld = {}
      /\ wmToast = WmNoToast /\ wmMixed = {}
      /\ wmBinned = {m \in WmIds : wmRow[m].at \in WmBins}
      /\ wmVerdict = "none" /\ wmMuddled = FALSE /\ wmDirty = {}
  BY DEF WmInit
<1>5. wmRow \in [WmIds -> WmRowType]
  BY <1>1, <1>3
<1>6. \A s \in WmSlots :
        /\ wmTask[s] = WmNoTask /\ wmTask[s].at = "idle" /\ wmTask[s].ids = {}
        /\ wmTask[s].do = "mark" /\ ~Busy(wmTask[s])
        /\ \A m \in WmIds : wmTask[s].read[m].at = "none"
  BY <1>4, WmNoTaskIs DEF Busy
<1>7. \A k \in WmWorks : wmWork[k].at = "idle" /\ wmWork[k].ids = {}
  BY <1>4 DEF WmNoWork
<1>8. wmToast.ids = {} /\ wmToast.fresh = FALSE /\ wmToast \in WmToastType
  BY <1>4 DEF WmNoToast, WmToastType, WmFolders, WmDoes
<1>9. WmTypeOK
  <2>1. wmTask \in [WmSlots -> WmTaskType]
    BY <1>4, WmNoTaskIs
  <2>2. wmWork \in [WmWorks -> WmWorkType]
    BY <1>4 DEF WmNoWork, WmWorkType
  <2>3. wmShown \in [WmIds -> WmFolders \cup {"none"}]
    BY <1>3, <1>4
  <2>4. QED
    BY <1>4, <1>5, <1>8, <2>1, <2>2, <2>3, WmTypeIs
<1>10. CastInv /\ OwnInv
  BY <1>2, <1>4 DEF CastInv, OwnInv
<1>11. ShapeInv
  BY <1>6 DEF ShapeInv, ShapeOK, Whole, Rmdirs
<1>12. CameInv
  BY <1>3, <1>4, <1>6, <1>7, <1>8 DEF CameInv, CameOK
<1>13. BinInv
  BY <1>3, <1>4, <1>6 DEF BinInv, BinOK, WmFolders, WmBins
<1>14. JunkInv
  BY <1>4, <1>7 DEF JunkInv
<1>15. ListInv
  BY <1>4 DEF ListInv
<1>16. FreshInv
  BY <1>8 DEF FreshInv, FreshOK
<1>17. AtInv
  BY <1>4, <1>6 DEF AtInv, AtOK, Mover
<1>18. FlagInv
  BY <1>4, <1>6 DEF FlagInv, FlagOK, Marker, Opening, Opener
<1>19. QED
  BY <1>9, <1>10, <1>11, <1>12, <1>13, <1>14, <1>15, <1>16, <1>17, <1>18 DEF WebInv

(* It says more than the properties do.                                    *)
LEMMA WmInvHolds == WebInv => WebHolds
<1> SUFFICES ASSUME WebInv PROVE WebHolds
  OBVIOUS
<1>1. WmTypeOK
  BY DEF WebInv
<1>2. NothingIsLost
  BY DEF WebInv, BinInv, BinOK, NothingIsLost
<1>3. RequestsStand
  <2>1. ASSUME \A s \in WmSlots : ~WmBusy(s), NEW m \in WmIds
        PROVE  /\ <<m, "at">> \notin wmMixed => wmRow[m].at = wmSaid[m].at
               /\ wmRow[m].at # "gone" =>
                    \A f \in WmFlags : <<m, f>> \notin wmMixed =>
                      (f \in wmRow[m].flags) = (f \in wmSaid[m].flags)
    <3>1. \A s \in WmSlots : ~Mover(m, s) /\ ~Marker(m, s) /\ ~Opening(m, s)
      BY <2>1 DEF Mover, Marker, Opening, Opener, Busy, WmBusy
    <3>2. QED
      BY <3>1 DEF WebInv, AtInv, AtOK, FlagInv, FlagOK
  <2>2. QED
    BY <2>1 DEF RequestsStand
<1>4. UndoIsTrue
  <2>1. wmToast.ids \subseteq WmIds
    BY WmTypeIs DEF WebInv, WmToastType
  <2>2. QED
    BY <2>1 DEF WebInv, FreshInv, FreshOK, UndoIsTrue
<1>5. JunkIsRemembered
  BY DEF WebInv, JunkInv, JunkIsRemembered
<1>6. QED
  BY <1>1, <1>2, <1>3, <1>4, <1>5 DEF WebHolds

(* The inductive invariant of the web client and its requests holds:       *)
(* what every request in work still owes to the messages it names, whose   *)
(* lists are true, and which verdict is still being worked on.             *)
THEOREM WmInvariant == WmSpec => []WebInv
BY WmInitInv, WmNextInv, PTL DEF WmSpec

(* Its state stays within its types: rows, requests, lists and the toast.  *)
THEOREM WmTypes == WmSpec => []WmTypeOK
BY WmInvariant, WmInvHolds, PTL DEF WebHolds

(* Nothing is destroyed that was not in a bin, requests that do not cross  *)
(* leave every message where and as they say, what undo offers can be      *)
(* undone, and the blocklist follows the last verdict: whatever folders    *)
(* are asked for, and whatever other devices and the mail do meanwhile.    *)
THEOREM WebAlwaysHolds == WmSpec => []WebHolds
BY WmInvariant, WmInvHolds, PTL
=============================================================================
