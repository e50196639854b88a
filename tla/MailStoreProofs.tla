---------------------------- MODULE MailStoreProofs ----------------------------
(* Theorems about MailStore and JmapSync, for any folders, messages and requests. *)
EXTENDS JmapSync, Sequences, FiniteSetTheorems, WellFoundedInduction, TLAPS

(* There are finitely many messages. *)
LEMMA IdsFinite == IsFiniteSet(Ids)
  BY MailStoreAssumption

-----------------------------------------------------------------------------
(* Rows and requests. *)

LEMMA AnyFolderIsOne == AnyFolder \in Folders
  BY MailStoreAssumption DEF AnyFolder

LEMMA IdleTyped == Idle \in Request
  BY AnyFolderIsOne DEF Idle, Request, Pcs

(* The requests that the actions build from an older one. *)
LEMMA AppendedTyped ==
  ASSUME NEW r \in Request, NEW pc \in Pcs, NEW op \in OpNames \cup {"none", "ruleCopy"},
         NEW f \in Folders, NEW u \in Nat, NEW m \in Nat,
         NEW fl \in SUBSET Flags, NEW t \in Nat
  PROVE  [r EXCEPT !.pc = pc, !.op = op, !.folder = f, !.uid = u, !.modSeq = m,
                   !.flags = fl, !.since = t] \in Request
  BY DEF Request

LEMMA RuleCopiedTyped ==
  ASSUME NEW r \in Request, NEW pc \in Pcs, NEW op \in OpNames \cup {"none", "ruleCopy"},
         NEW f \in Folders, NEW cp \in SUBSET Folders, NEW u \in Nat, NEW m \in Nat,
         NEW t \in Nat
  PROVE  [r EXCEPT !.pc = pc, !.op = op, !.folder = f, !.copies = cp, !.uid = u,
                   !.modSeq = m, !.since = t] \in Request
  BY DEF Request

LEMMA AdvancedTyped ==
  ASSUME NEW r \in Request, NEW pc \in Pcs, NEW u \in Nat
  PROVE  [r EXCEPT !.pc = pc, !.uid = u] \in Request
  BY DEF Request

LEMMA NoRowsTyped == IsRows(NoRows) /\ DOMAIN NoRows = {}
  BY DEF IsRows, NoRows

(* A function on ids whose values are rows. *)
LEMMA RowsByValue ==
  ASSUME NEW S \in SUBSET Ids, NEW rows, rows = [i \in S |-> rows[i]],
         \A i \in S : rows[i] \in Row
  PROVE  IsRows(rows) /\ DOMAIN rows = S
  <1>1. DOMAIN rows = S
    OBVIOUS
  <1>2. rows \in [S -> Row]
    OBVIOUS
  <1> QED BY <1>1, <1>2 DEF IsRows

LEMMA RowOf ==
  ASSUME NEW rows, IsRows(rows), NEW i \in DOMAIN rows
  PROVE  rows[i] \in Row /\ i \in Ids
  BY DEF IsRows

LEMMA OnlyTyped ==
  ASSUME NEW rows, IsRows(rows), NEW S \in SUBSET DOMAIN rows
  PROVE  IsRows(Only(rows, S)) /\ DOMAIN Only(rows, S) = S
  <1>1. S \in SUBSET Ids
    BY DEF IsRows
  <1>2. DOMAIN Only(rows, S) = S /\ \A i \in S : Only(rows, S)[i] = rows[i]
    BY DEF Only
  <1>3. Only(rows, S) \in [S -> Row]
    BY RowOf DEF Only
  <1> QED BY <1>1, <1>2, <1>3 DEF IsRows

LEMMA AddedTyped ==
  ASSUME IsRows(msgs), NEW i \in Ids, NEW row \in Row
  PROVE  /\ IsRows(Added(i, row))
         /\ DOMAIN Added(i, row) = DOMAIN msgs \cup {i}
         /\ Added(i, row)[i] = row
         /\ \A j \in DOMAIN msgs \ {i} : Added(i, row)[j] = msgs[j]
  <1>1. DOMAIN msgs \cup {i} \in SUBSET Ids
    BY DEF IsRows
  <1>2. Added(i, row) \in [DOMAIN msgs \cup {i} -> Row]
    BY RowOf DEF Added
  <1>3. DOMAIN Added(i, row) = DOMAIN msgs \cup {i}
    BY DEF Added
  <1> QED BY <1>1, <1>2, <1>3 DEF IsRows, Added

(* The rows the updates write are rows. *)
LEMMA NewRowTyped ==
  ASSUME NEW f \in Folders, NEW u \in Nat, NEW m \in Nat, NEW fl \in SUBSET Flags,
         NEW c \in Nat
  PROVE  [folder |-> f, uid |-> u, modSeq |-> m, flags |-> fl, live |-> TRUE,
          created |-> c] \in Row
  BY DEF Row

LEMMA RowFields ==
  ASSUME NEW row \in Row
  PROVE  /\ row.folder \in Folders /\ row.uid \in Nat /\ row.modSeq \in Nat
         /\ row.flags \in SUBSET Flags /\ row.created \in Nat
  BY DEF Row

LEMMA ChangedRowTyped ==
  ASSUME NEW row \in Row, NEW fl \in SUBSET Flags, NEW m \in Nat, NEW f \in Folders
  PROVE  /\ [row EXCEPT !.flags = fl] \in Row
         /\ [row EXCEPT !.flags = fl, !.modSeq = m] \in Row
         /\ [row EXCEPT !.folder = f] \in Row
         /\ [row EXCEPT !.flags = fl, !.folder = f, !.modSeq = m] \in Row
         /\ [row EXCEPT !.live = FALSE] \in Row
         /\ [row EXCEPT !.flags = fl].uid = row.uid
         /\ [row EXCEPT !.flags = fl, !.modSeq = m].uid = row.uid
         /\ [row EXCEPT !.folder = f].uid = row.uid
         /\ [row EXCEPT !.flags = fl, !.folder = f, !.modSeq = m].uid = row.uid
         /\ [row EXCEPT !.live = FALSE].uid = row.uid
  BY DEF Row

LEMMA BecomesTyped ==
  ASSUME wr \in [Writers -> Request], NEW w \in Writers, NEW r \in Request,
         Becomes(w, r)
  PROVE  /\ wr' \in [Writers -> Request]
         /\ wr'[w] = r
         /\ \A v \in Writers \ {w} : wr'[v] = wr[v]
  BY DEF Becomes

LEMMA HoldsTyped ==
  ASSUME DOMAIN snap = Writers, \A v \in Writers : IsRows(snap[v]),
         NEW w \in Writers, NEW rows, IsRows(rows), Holds(w, rows)
  PROVE  /\ DOMAIN snap' = Writers
         /\ \A v \in Writers : IsRows(snap'[v])
         /\ snap'[w] = rows
         /\ \A v \in Writers \ {w} : snap'[v] = snap[v]
  <1>1. snap' = [snap EXCEPT ![w] = rows]
    BY DEF Holds
  <1>2. DOMAIN snap' = Writers /\ snap'[w] = rows
    BY <1>1
  <1>3. \A v \in Writers \ {w} : snap'[v] = snap[v]
    BY <1>1
  <1> QED BY <1>2, <1>3

-----------------------------------------------------------------------------
(* Type correctness, one lemma per group of actions. *)

LEMMA EndsTyped ==
  ASSUME StoreOK, NEW w \in Writers, Ends(w)
  PROVE  /\ wr' \in [Writers -> Request] /\ wr'[w] = Idle
         /\ \A v \in Writers \ {w} : wr'[v] = wr[v]
         /\ DOMAIN snap' = Writers /\ \A v \in Writers : IsRows(snap'[v])
         /\ snap'[w] = NoRows
         /\ \A v \in Writers \ {w} : snap'[v] = snap[v]
  BY IdleTyped, NoRowsTyped, BecomesTyped, HoldsTyped DEF Ends, StoreOK

LEMMA ReadsTyped ==
  ASSUME StoreOK, NEW w \in Writers, NEW op \in OpNames, NEW pc \in Pcs, NEW rows,
         IsRows(rows), NEW target \in Folders, Reads(w, op, pc, rows, target)
  PROVE  StoreOK'
  <1> DEFINE r == [Idle EXCEPT !.pc = pc, !.op = op, !.folder = target, !.since = clock]
  <1>0. clock \in Nat
    BY MailStoreAssumption DEF StoreOK
  <1>1. r \in Request
    BY <1>0, IdleTyped DEF Request
  <1>2. Becomes(w, r) /\ Holds(w, rows)
    BY DEF Reads
  <1>3. wr' \in [Writers -> Request]
    BY <1>1, <1>2, BecomesTyped DEF StoreOK
  <1>4. DOMAIN snap' = Writers /\ \A v \in Writers : IsRows(snap'[v])
    BY <1>2, HoldsTyped DEF StoreOK
  <1>5. ops' \in 0..MaxOps
    BY MailStoreAssumption DEF Reads, Begins, StoreOK
  <1>6. UNCHANGED <<uidNext, highestModSeq, msgs, total, clock, given, crashes>>
    BY DEF Reads
  <1>7. IsRows(msgs')
    BY <1>6 DEF StoreOK
  <1> QED BY <1>3, <1>4, <1>5, <1>6, <1>7 DEF StoreOK

LEMMA InsertTyped ==
  ASSUME StoreOK, NEW w \in Writers, Insert(w)
  PROVE  StoreOK'
  <1>1. wr[w] \in Request
    BY DEF StoreOK
  <1>2. AfterRefusal(w) \in Request
    BY <1>1, IdleTyped DEF AfterRefusal, Request, Pcs
  <1>3. AfterInsert(w) \in Request
    BY <1>1 DEF AfterInsert, Request, Pcs
  <1>4. wr' \in [Writers -> Request]
    BY <1>2, <1>3, BecomesTyped DEF Insert, StoreOK
  <1>5. IsRows(msgs') /\ given' \subseteq Ids \X Nat
    <2>1. CASE UNCHANGED <<msgs, given>>
      BY <2>1 DEF StoreOK
    <2>2. ASSUME NEW i \in NewIds, NEW m \in ModSeqs(w), NEW c \in CreationTimes(w),
                 msgs' = Added(i, [folder |-> wr[w].folder, uid |-> wr[w].uid,
                                   modSeq |-> m, flags |-> wr[w].flags,
                                   live |-> TRUE, created |-> c]),
                 given' = given \cup {<<i, wr[w].uid>>}
          PROVE  IsRows(msgs') /\ given' \subseteq Ids \X Nat
      <3>1. i \in Ids
        BY DEF NewIds
      <3>2. /\ wr[w].folder \in Folders /\ wr[w].uid \in Nat /\ wr[w].flags \in SUBSET Flags
            /\ wr[w].modSeq \in Nat /\ wr[w].since \in Nat
        BY <1>1 DEF Request
      <3>3. clock \in Nat /\ CounterLimit \in Nat
        BY MailStoreAssumption DEF StoreOK
      <3>4. m \in Nat /\ c \in Nat
        BY <3>2, <3>3 DEF ModSeqs, CreationTimes, Times, Stamp
      <3>5. [folder |-> wr[w].folder, uid |-> wr[w].uid, modSeq |-> m,
             flags |-> wr[w].flags, live |-> TRUE, created |-> c] \in Row
        BY <3>2, <3>4, NewRowTyped
      <3>6. IsRows(msgs)
        BY DEF StoreOK
      <3>7. IsRows(msgs')
        BY <2>2, <3>1, <3>5, <3>6, AddedTyped, Zenon
      <3>8. given' \subseteq Ids \X Nat
        BY <2>2, <3>1, <3>2 DEF StoreOK
      <3> QED BY <3>7, <3>8
    <2> QED BY <2>1, <2>2 DEF Insert
  <1>6. UNCHANGED <<uidNext, highestModSeq, total, snap, clock, ops, crashes>>
    BY DEF Insert
  <1> QED BY <1>4, <1>5, <1>6 DEF StoreOK

LEMMA CreatesTyped ==
  ASSUME StoreOK, NEW w \in Writers, Creates(w)
  PROVE  StoreOK'
  <1> USE MailStoreAssumption
  <1>0. wr[w] \in Request /\ FirstFree \in Nat /\ clock \in Nat /\ highestModSeq \in Nat
    BY DEF StoreOK, FirstFree
  <1>00. /\ {"none", "ruleCopy"} \subseteq OpNames \cup {"none", "ruleCopy"}
         /\ highestModSeq + 1 \in Nat
         /\ {"insert", "next", "count", "copies", "bump"} \subseteq Pcs
         /\ {"deliver", "jmapCreate", "append", "createItem", "import"} \subseteq OpNames
         /\ uidNext \in Nat
    BY DEF Pcs, OpNames, StoreOK
  <1>1. CASE Allocate(w)
    <2>1. PICK op \in {"deliver", "jmapCreate"}, f \in Folders, fl \in SUBSET Flags,
              cp \in SUBSET Folders :
            /\ Begins(w, op)
            /\ Becomes(w, [Idle EXCEPT !.pc = "insert", !.op = op, !.folder = f,
                               !.home = f, !.copies = cp, !.uid = FirstFree,
                               !.modSeq = highestModSeq + 1, !.flags = fl,
                               !.since = clock])
      BY <1>1 DEF Allocate
    <2>2. [Idle EXCEPT !.pc = "insert", !.op = op, !.folder = f,
                       !.home = f, !.copies = cp, !.uid = FirstFree,
                       !.modSeq = highestModSeq + 1, !.flags = fl,
                       !.since = clock] \in Request
      <3>1. op \in OpNames \cup {"none", "ruleCopy"} /\ "insert" \in Pcs
        BY <1>00
      <3>2. FirstFree \in Nat /\ highestModSeq + 1 \in Nat /\ clock \in Nat
        BY <1>0, <1>00
      <3> QED BY <3>1, <3>2, IdleTyped DEF Request
    <2>3. wr' \in [Writers -> Request]
      BY <2>1, <2>2, BecomesTyped DEF StoreOK
    <2>4. /\ uidNext' = uidNext + 1 /\ highestModSeq' = highestModSeq + 1
          /\ UNCHANGED <<msgs, total, snap, clock, given, crashes>>
      BY <1>1 DEF Allocate
    <2>5. ops' \in 0..MaxOps
      BY <2>1 DEF Begins, StoreOK
    <2> QED BY <2>3, <2>4, <2>5 DEF StoreOK
  <1>2. CASE AllocateUid(w)
    <2>1. wr' \in [Writers -> Request] /\ ops' \in 0..MaxOps
      <3>1. ASSUME NEW op \in {"append", "createItem"}, NEW f \in Folders,
                   NEW fl \in SUBSET Flags, Begins(w, op),
                   Becomes(w, [Idle EXCEPT !.pc = "insert", !.op = op, !.folder = f,
                                     !.uid = FirstFree, !.modSeq = highestModSeq + 1,
                                     !.flags = fl, !.since = clock])
            PROVE  wr' \in [Writers -> Request] /\ ops' \in 0..MaxOps
        <4>1. [Idle EXCEPT !.pc = "insert", !.op = op, !.folder = f,
                           !.uid = FirstFree, !.modSeq = highestModSeq + 1,
                           !.flags = fl, !.since = clock] \in Request
          <5>1. op \in OpNames \cup {"none", "ruleCopy"} /\ "insert" \in Pcs
            BY <1>00
          <5>2. FirstFree \in Nat /\ highestModSeq + 1 \in Nat /\ clock \in Nat
            BY <1>0, <1>00
          <5> QED BY <5>1, <5>2, IdleTyped, AppendedTyped, Zenon
        <4>2. wr' \in [Writers -> Request]
          BY <3>1, <4>1, BecomesTyped, Zenon DEF StoreOK
        <4>3. ops' \in 0..MaxOps
          BY <3>1 DEF StoreOK, Begins
        <4> QED BY <4>2, <4>3
      <3>2. ASSUME Becomes(w, [wr[w] EXCEPT !.pc = "insert", !.since = clock]),
                   UNCHANGED ops
            PROVE  wr' \in [Writers -> Request] /\ ops' \in 0..MaxOps
        <4>1. [wr[w] EXCEPT !.pc = "insert", !.since = clock] \in Request
          BY <1>0 DEF Request, Pcs
        <4> QED BY <3>2, <4>1, BecomesTyped DEF StoreOK
      <3> QED BY <1>2, <3>1, <3>2 DEF AllocateUid
    <2>2. /\ uidNext' = uidNext + 1
          /\ UNCHANGED <<highestModSeq, msgs, total, snap, clock, given, crashes>>
      BY <1>2 DEF AllocateUid
    <2> QED BY <2>1, <2>2 DEF StoreOK
  <1>3. CASE ImportOpen(w)
    <2>1. PICK f \in Folders :
            /\ Begins(w, "import")
            /\ Becomes(w, [Idle EXCEPT !.pc = "next", !.op = "import", !.folder = f,
                               !.uid = uidNext])
      BY <1>3 DEF ImportOpen
    <2>2. [Idle EXCEPT !.pc = "next", !.op = "import", !.folder = f,
                       !.uid = uidNext] \in Request
      BY <1>0, <1>00, IdleTyped DEF Request
    <2>3. wr' \in [Writers -> Request] /\ ops' \in 0..MaxOps
      BY <2>1, <2>2, BecomesTyped DEF StoreOK, Begins
    <2> QED BY <1>3, <2>3 DEF StoreOK, ImportOpen
  <1>4. CASE ImportClose(w)
    <2>1. wr' \in [Writers -> Request]
      BY <1>4, IdleTyped, BecomesTyped DEF StoreOK, ImportClose
    <2> QED BY <1>4, <2>1 DEF StoreOK, ImportClose
  <1>5. CASE Insert(w)
    BY <1>5, InsertTyped
  <1>6. CASE RuleCopy(w)
    <2>1. PICK f \in wr[w].copies :
            Becomes(w, [wr[w] EXCEPT !.pc = "insert", !.op = "ruleCopy", !.folder = f,
                                !.copies = wr[w].copies \ {f}, !.uid = FirstFree,
                                !.modSeq = highestModSeq + 1, !.since = clock])
      BY <1>6 DEF RuleCopy
    <2>2. f \in Folders /\ wr[w].copies \ {f} \in SUBSET Folders
      BY <1>0 DEF Request
    <2>3. [wr[w] EXCEPT !.pc = "insert", !.op = "ruleCopy", !.folder = f,
                        !.copies = wr[w].copies \ {f}, !.uid = FirstFree,
                        !.modSeq = highestModSeq + 1, !.since = clock] \in Request
      <3>1. "ruleCopy" \in OpNames \cup {"none", "ruleCopy"} /\ "insert" \in Pcs
        BY <1>00
      <3> QED BY <1>0, <1>00, <2>2, <3>1, RuleCopiedTyped
    <2>4. wr' \in [Writers -> Request]
      BY <2>1, <2>3, BecomesTyped DEF StoreOK
    <2> QED BY <1>6, <2>4 DEF StoreOK, RuleCopy
  <1>7. CASE CopiesDone(w)
    <2>1. [wr[w] EXCEPT !.pc = "count", !.op = "deliver", !.folder = wr[w].home] \in Request
      BY <1>0 DEF Request, Pcs, OpNames
    <2>2. wr' \in [Writers -> Request]
      BY <1>7, <2>1, BecomesTyped DEF StoreOK, CopiesDone
    <2> QED BY <1>7, <2>2 DEF StoreOK, CopiesDone
  <1>8. CASE Count(w)
    <2>1. AfterCount(w) \in Request
      BY <1>0, IdleTyped DEF AfterCount, Request, Pcs
    <2>2. wr' \in [Writers -> Request]
      BY <1>8, <2>1, BecomesTyped DEF StoreOK, Count
    <2>3. total' \in [Folders -> Int]
      <3>1. wr[w].folder \in Folders
        BY <1>0 DEF Request
      <3> QED BY <1>8, <3>1 DEF StoreOK, Count, CountedIn
    <2> QED BY <1>8, <2>2, <2>3 DEF StoreOK, Count
  <1>9. CASE BumpModSeq(w)
    <2>1. wr' \in [Writers -> Request]
      BY <1>9, IdleTyped, BecomesTyped DEF StoreOK, BumpModSeq
    <2> QED BY <1>9, <2>1 DEF StoreOK, BumpModSeq
  <1> QED BY <1>1, <1>2, <1>3, <1>4, <1>5, <1>6, <1>7, <1>8, <1>9 DEF Creates

LEMMA LiveIsRow == \A f : Live(f) \in SUBSET DOMAIN msgs
  BY DEF Live

LEMMA CopiesTyped ==
  ASSUME StoreOK, NEW w \in Writers, Copies(w)
  PROVE  StoreOK'
  <1> USE MailStoreAssumption
  <1>0. /\ wr[w] \in Request /\ clock \in Nat /\ highestModSeq + 1 \in Nat
        /\ uidNext \in Nat /\ IsRows(msgs) /\ IsRows(snap[w])
    BY DEF StoreOK
  <1>00. /\ {"sources", "reserve", "insert", "bump"} \subseteq Pcs
         /\ "copy" \in OpNames \cup {"none", "ruleCopy"}
    BY DEF Pcs, OpNames
  <1>1. CASE CopyTarget(w)
    <2>1. PICK source \in Folders, target \in Folders :
            /\ Begins(w, "copy")
            /\ Becomes(w, [Idle EXCEPT !.pc = "sources", !.op = "copy", !.folder = target,
                               !.home = source, !.uid = uidNext,
                               !.modSeq = highestModSeq + 1])
      BY <1>1 DEF CopyTarget
    <2>2. [Idle EXCEPT !.pc = "sources", !.op = "copy", !.folder = target,
                       !.home = source, !.uid = uidNext,
                       !.modSeq = highestModSeq + 1] \in Request
      BY <1>0, <1>00, IdleTyped DEF Request
    <2>3. wr' \in [Writers -> Request] /\ ops' \in 0..MaxOps
      BY <2>1, <2>2, BecomesTyped DEF StoreOK, Begins
    <2> QED BY <1>1, <2>3 DEF StoreOK, CopyTarget
  <1>2. CASE CopySources(w)
    <2>1. wr' \in [Writers -> Request]
      <3>1. [wr[w] EXCEPT !.pc = "reserve"] \in Request
        BY <1>0, <1>00 DEF Request
      <3> QED BY <1>2, <3>1, IdleTyped, BecomesTyped DEF StoreOK, CopySources
    <2>2. DOMAIN snap' = Writers /\ \A v \in Writers : IsRows(snap'[v])
      <3>1. CASE UNCHANGED snap
        BY <3>1 DEF StoreOK
      <3>2. ASSUME NEW S \in SUBSET Live(wr[w].home), Holds(w, Only(msgs, S))
            PROVE  DOMAIN snap' = Writers /\ \A v \in Writers : IsRows(snap'[v])
        <4>1. S \in SUBSET DOMAIN msgs
          BY LiveIsRow
        <4>2. IsRows(Only(msgs, S))
          BY <1>0, <4>1, OnlyTyped
        <4> QED BY <3>2, <4>2, HoldsTyped DEF StoreOK
      <3> QED BY <1>2, <3>1, <3>2 DEF CopySources
    <2> QED BY <1>2, <2>1, <2>2 DEF StoreOK, CopySources
  <1>3. CASE CopyReserve(w)
    <2>1. [wr[w] EXCEPT !.pc = "insert", !.since = clock] \in Request
      BY <1>0, <1>00 DEF Request
    <2>2. wr' \in [Writers -> Request]
      BY <1>3, <2>1, BecomesTyped DEF StoreOK, CopyReserve
    <2>3. uidNext' \in Nat \ {0}
      <3>1. IsFiniteSet(DOMAIN snap[w])
        BY <1>0, FS_Subset, IdsFinite DEF IsRows
      <3>2. Reserved(w) \in Nat
        BY <3>1, FS_CardinalityType DEF Reserved
      <3> QED BY <1>3, <3>2 DEF StoreOK, CopyReserve
    <2> QED BY <1>3, <2>2, <2>3 DEF StoreOK, CopyReserve
  <1>4. CASE CopyInsert(w)
    <2>1. CASE Ends(w) /\ UNCHANGED <<msgs, given>>
      BY <1>4, <2>1, EndsTyped DEF StoreOK, CopyInsert
    <2>2. CASE ~Ends(w) \/ ~UNCHANGED <<msgs, given>>
      <3>1. PICK i \in DOMAIN snap[w], k \in NewIds, c \in Times(w) :
              /\ msgs' = Added(k, [folder |-> wr[w].folder, uid |-> wr[w].uid,
                                  modSeq |-> wr[w].modSeq,
                                  flags |-> snap[w][i].flags,
                                  live |-> TRUE, created |-> c])
              /\ given' = given \cup {<<k, wr[w].uid>>}
              /\ Becomes(w, [wr[w] EXCEPT
                              !.pc = IF DOMAIN snap[w] \ {i} = {} THEN "bump" ELSE "insert",
                              !.uid = wr[w].uid + 1])
              /\ Holds(w, Only(snap[w], DOMAIN snap[w] \ {i}))
        BY <1>4, <2>2 DEF CopyInsert
      <3>2. /\ wr[w].folder \in Folders /\ wr[w].uid \in Nat /\ wr[w].modSeq \in Nat
            /\ wr[w].since \in Nat
        BY <1>0 DEF Request
      <3>3. snap[w][i].flags \in SUBSET Flags
        BY <1>0, RowOf, RowFields
      <3>4. c \in Nat /\ k \in Ids
        BY <1>0, <3>2 DEF Times, NewIds
      <3>5. [folder |-> wr[w].folder, uid |-> wr[w].uid, modSeq |-> wr[w].modSeq,
             flags |-> snap[w][i].flags, live |-> TRUE, created |-> c] \in Row
        BY <3>2, <3>3, <3>4, NewRowTyped
      <3>6. IsRows(msgs')
        BY <1>0, <3>1, <3>4, <3>5, AddedTyped, Zenon
      <3>7. given' \subseteq Ids \X Nat
        BY <3>1, <3>2, <3>4 DEF StoreOK
      <3>8. wr' \in [Writers -> Request]
        <4> DEFINE pc == IF DOMAIN snap[w] \ {i} = {} THEN "bump" ELSE "insert"
        <4>1. pc \in Pcs
          BY <1>00
        <4>2. wr[w].uid + 1 \in Nat
          BY <3>2
        <4>3. [wr[w] EXCEPT !.pc = pc, !.uid = wr[w].uid + 1] \in Request
          BY <1>0, <4>1, <4>2, AdvancedTyped
        <4>4. Becomes(w, [wr[w] EXCEPT !.pc = pc, !.uid = wr[w].uid + 1])
          BY <3>1
        <4>5. wr \in [Writers -> Request]
          BY DEF StoreOK
        <4> QED BY <4>3, <4>4, <4>5, BecomesTyped
      <3>9. DOMAIN snap' = Writers /\ \A v \in Writers : IsRows(snap'[v])
        <4>1. IsRows(Only(snap[w], DOMAIN snap[w] \ {i}))
          BY <1>0, OnlyTyped
        <4> QED BY <3>1, <4>1, HoldsTyped DEF StoreOK
      <3>10. UNCHANGED <<uidNext, highestModSeq, total, clock, ops, crashes>>
        BY <1>4 DEF CopyInsert
      <3> QED BY <3>6, <3>7, <3>8, <3>9, <3>10 DEF StoreOK
    <2> QED BY <2>1, <2>2
  <1> QED BY <1>1, <1>2, <1>3, <1>4 DEF Copies

(* The actions that change messages create none and keep the UIDs. *)
UidsKept ==
  /\ DOMAIN msgs' \subseteq DOMAIN msgs
  /\ \A i \in DOMAIN msgs' : msgs'[i].uid = msgs[i].uid

LEMMA RereadTyped ==
  ASSUME StoreOK, NEW w \in Writers, NEW op \in OpNames, NEW pc \in Pcs, NEW rows,
         IsRows(rows), NEW target \in Folders, Reads(w, op, pc, rows, target)
  PROVE  StoreOK' /\ UidsKept
  <1>1. UNCHANGED msgs
    BY DEF Reads
  <1> QED BY <1>1, ReadsTyped DEF UidsKept

LEMMA OneMessageChanged ==
  ASSUME StoreOK, NEW i \in DOMAIN msgs, NEW row \in Row, row.uid = msgs[i].uid,
         msgs' = Added(i, row)
  PROVE  IsRows(msgs') /\ UidsKept
  <1>1. IsRows(msgs) /\ i \in Ids
    BY RowOf DEF StoreOK
  <1>2. /\ IsRows(msgs')
        /\ DOMAIN msgs' = DOMAIN msgs \cup {i}
        /\ msgs'[i] = row
        /\ \A j \in DOMAIN msgs \ {i} : msgs'[j] = msgs[j]
    BY <1>1, AddedTyped, Zenon
  <1> QED BY <1>2 DEF UidsKept

LEMMA RowGoneTyped ==
  ASSUME StoreOK, NEW w \in Writers, NEW i, RowGone(w, i)
  PROVE  /\ wr' \in [Writers -> Request]
         /\ DOMAIN snap' = Writers /\ \A v \in Writers : IsRows(snap'[v])
         /\ IsRows(msgs') /\ UidsKept
  <1>1. Ends(w) /\ UNCHANGED msgs
    BY DEF RowGone
  <1>2. IsRows(msgs') /\ UidsKept
    BY <1>1 DEF StoreOK, UidsKept
  <1> QED BY <1>1, <1>2, EndsTyped

LEMMA NextRowTyped ==
  ASSUME StoreOK, NEW w \in Writers, NEW rest \in SUBSET DOMAIN snap[w],
         NextRow(w, rest)
  PROVE  /\ wr' \in [Writers -> Request]
         /\ DOMAIN snap' = Writers /\ \A v \in Writers : IsRows(snap'[v])
  <1>1. CASE Ends(w)
    BY <1>1, EndsTyped
  <1>2. CASE Holds(w, Only(snap[w], rest)) /\ UNCHANGED wr
    <2>1. IsRows(Only(snap[w], rest))
      BY OnlyTyped DEF StoreOK
    <2>2. DOMAIN snap' = Writers /\ \A v \in Writers : IsRows(snap'[v])
      BY <1>2, <2>1, HoldsTyped DEF StoreOK
    <2> QED BY <1>2, <2>2 DEF StoreOK
  <1> QED BY <1>1, <1>2 DEF NextRow

LEMMA MovedRowsTyped ==
  ASSUME StoreOK, NEW w \in Writers, msgs' = MovedRows(w)
  PROVE  IsRows(msgs') /\ UidsKept
  <1>1. IsRows(msgs) /\ wr[w] \in Request
    BY DEF StoreOK
  <1>2. wr[w].folder \in Folders
    BY <1>1 DEF Request
  <1> DEFINE to(i) == IF i \in DOMAIN snap[w] THEN wr[w].folder ELSE msgs[i].folder
             moved(i) == [msgs[i] EXCEPT !.folder = to(i)]
  <1>3. ASSUME NEW i \in DOMAIN msgs
        PROVE  moved(i) \in Row /\ moved(i).uid = msgs[i].uid
    <2>1. msgs[i] \in Row
      BY <1>1, RowOf
    <2>2. to(i) \in Folders
      BY <1>2, <2>1, RowFields
    <2> HIDE DEF to
    <2> QED BY <2>1, <2>2, ChangedRowTyped
  <1>4. msgs' = [i \in DOMAIN msgs |-> moved(i)]
    BY DEF MovedRows
  <1> HIDE DEF moved
  <1>5. DOMAIN msgs' = DOMAIN msgs /\ \A i \in DOMAIN msgs : msgs'[i] = moved(i)
    BY <1>4
  <1>6. msgs' \in [DOMAIN msgs -> Row]
    BY <1>3, <1>4
  <1>7. DOMAIN msgs \subseteq Ids
    BY <1>1 DEF IsRows
  <1> QED BY <1>3, <1>5, <1>6, <1>7 DEF IsRows, UidsKept

LEMMA ChangesTyped ==
  ASSUME StoreOK, NEW w \in Writers, Changes(w)
  PROVE  StoreOK' /\ UidsKept
  <1> USE MailStoreAssumption
  <1>0. /\ wr[w] \in Request /\ IsRows(msgs) /\ IsRows(snap[w])
        /\ clock \in Nat /\ CounterLimit \in Nat
    BY DEF StoreOK
  <1>00. /\ {"move", "store", "expunge", "update", "destroy"} \subseteq Pcs
         /\ {"move", "store", "expunge", "jmapUpdate", "jmapDestroy"} \subseteq OpNames
    BY DEF Pcs, OpNames
  <1>1. CASE MoveRead(w)
    <2>0. PICK source \in Folders, target \in Folders : \E S \in SUBSET Live(source) :
            Reads(w, "move", "move", Only(msgs, S), target)
      BY <1>1 DEF MoveRead
    <2>1. PICK S \in SUBSET Live(source) :
            Reads(w, "move", "move", Only(msgs, S), target)
      BY <2>0
    <2>2. IsRows(Only(msgs, S))
      BY <1>0, LiveIsRow, OnlyTyped
    <2> QED BY <1>00, <2>1, <2>2, RereadTyped
  <1>2. CASE MoveWrite(w)
    <2>1. IsRows(msgs') /\ UidsKept
      <3>1. CASE UNCHANGED msgs
        BY <1>0, <3>1 DEF UidsKept
      <3> QED BY <1>2, <3>1, MovedRowsTyped DEF MoveWrite
    <2>2. Ends(w)
      BY <1>2 DEF MoveWrite
    <2>3. UNCHANGED <<uidNext, highestModSeq, total, clock, given, ops, crashes>>
      BY <1>2 DEF MoveWrite
    <2> QED BY <2>1, <2>2, <2>3, EndsTyped DEF StoreOK
  <1>3. CASE StoreRead(w)
    <2>0. PICK source \in Folders, fl \in SUBSET Flags,
              mode \in {"FLAGS", "+FLAGS", "-FLAGS"} : \E S \in SUBSET Live(source) :
            Reads(w, "store", "store",
                  [i \in S |-> [msgs[i] EXCEPT !.flags = NewFlags(mode, msgs[i].flags, fl)]],
                  source)
      BY <1>3 DEF StoreRead
    <2>1. PICK S \in SUBSET Live(source) :
            Reads(w, "store", "store",
                  [i \in S |-> [msgs[i] EXCEPT !.flags = NewFlags(mode, msgs[i].flags, fl)]],
                  source)
      BY <2>0
    <2>2. S \in SUBSET DOMAIN msgs
      BY LiveIsRow
    <2>3. ASSUME NEW i \in S
          PROVE  [msgs[i] EXCEPT !.flags = NewFlags(mode, msgs[i].flags, fl)] \in Row
      <3>1. msgs[i] \in Row
        BY <1>0, <2>2, RowOf
      <3>2. NewFlags(mode, msgs[i].flags, fl) \in SUBSET Flags
        <4>1. msgs[i].flags \in SUBSET Flags
          BY <3>1, RowFields
        <4> QED BY <4>1 DEF NewFlags
      <3> QED BY <3>1, <3>2 DEF Row
    <2>4. S \subseteq Ids
      BY <1>0, <2>2 DEF IsRows
    <2>5. IsRows([i \in S |-> [msgs[i] EXCEPT !.flags = NewFlags(mode, msgs[i].flags, fl)]])
      BY <2>3, <2>4 DEF IsRows
    <2> QED BY <1>00, <2>1, <2>5, RereadTyped
  <1>4. CASE StoreWrite(w)
    <2>1. PICK i \in DOMAIN snap[w] :
            \/ RowGone(w, i)
            \/ /\ i \in DOMAIN msgs
               /\ msgs' = Added(i, [msgs[i] EXCEPT !.flags = snap[w][i].flags,
                                                   !.modSeq = msgs[i].modSeq + 1])
               /\ NextRow(w, DOMAIN snap[w] \ {i})
      BY <1>4 DEF StoreWrite
    <2>2. UNCHANGED <<uidNext, highestModSeq, total, clock, given, ops, crashes>>
      BY <1>4 DEF StoreWrite
    <2>3. CASE RowGone(w, i)
      BY <2>2, <2>3, RowGoneTyped DEF StoreOK
    <2>4. CASE ~RowGone(w, i)
      <3>1. msgs[i] \in Row /\ snap[w][i] \in Row
        BY <1>0, <2>1, <2>4, RowOf
      <3>2. snap[w][i].flags \in SUBSET Flags /\ msgs[i].modSeq + 1 \in Nat
        BY <3>1, RowFields
      <3> DEFINE row == [msgs[i] EXCEPT !.flags = snap[w][i].flags,
                                        !.modSeq = msgs[i].modSeq + 1]
      <3>3. row \in Row /\ row.uid = msgs[i].uid
        BY <3>1, <3>2 DEF Row
      <3>4. i \in DOMAIN msgs /\ msgs' = Added(i, row) /\ NextRow(w, DOMAIN snap[w] \ {i})
        BY <2>1, <2>4
      <3> HIDE DEF row
      <3>5. IsRows(msgs') /\ UidsKept
        BY <3>3, <3>4, OneMessageChanged
      <3>6. /\ wr' \in [Writers -> Request]
            /\ DOMAIN snap' = Writers /\ \A v \in Writers : IsRows(snap'[v])
        BY <3>4, NextRowTyped
      <3> QED BY <2>2, <3>5, <3>6 DEF StoreOK
    <2> QED BY <2>3, <2>4
  <1>5. CASE ExpungeRead(w)
    <2>1. PICK source \in Folders :
            Reads(w, "expunge", "expunge",
                  Only(msgs, {i \in Live(source) : "Deleted" \in msgs[i].flags}), source)
      BY <1>5 DEF ExpungeRead
    <2>2. IsRows(Only(msgs, {i \in Live(source) : "Deleted" \in msgs[i].flags}))
      <3>1. {i \in Live(source) : "Deleted" \in msgs[i].flags} \in SUBSET DOMAIN msgs
        BY LiveIsRow
      <3> QED BY <1>0, <3>1, OnlyTyped
    <2> QED BY <1>00, <2>1, <2>2, RereadTyped
  <1>6. CASE ExpungeWrite(w)
    <2>1. PICK i \in DOMAIN snap[w] :
            \/ RowGone(w, i)
            \/ /\ i \in DOMAIN msgs
               /\ msgs' = Added(i, [msgs[i] EXCEPT !.live = FALSE])
               /\ NextRow(w, DOMAIN snap[w] \ {i})
      BY <1>6 DEF ExpungeWrite
    <2>2. UNCHANGED <<uidNext, highestModSeq, total, clock, given, ops, crashes>>
      BY <1>6 DEF ExpungeWrite
    <2>3. CASE RowGone(w, i)
      BY <2>2, <2>3, RowGoneTyped DEF StoreOK
    <2>4. CASE ~RowGone(w, i)
      <3> DEFINE row == [msgs[i] EXCEPT !.live = FALSE]
      <3>1. i \in DOMAIN msgs /\ msgs' = Added(i, row) /\ NextRow(w, DOMAIN snap[w] \ {i})
        BY <2>1, <2>4
      <3>2. msgs[i] \in Row
        BY <1>0, <3>1, RowOf
      <3>3. row \in Row /\ row.uid = msgs[i].uid
        BY <3>2 DEF Row
      <3> HIDE DEF row
      <3>4. IsRows(msgs') /\ UidsKept
        BY <3>1, <3>3, OneMessageChanged
      <3>5. /\ wr' \in [Writers -> Request]
            /\ DOMAIN snap' = Writers /\ \A v \in Writers : IsRows(snap'[v])
        BY <3>1, NextRowTyped
      <3> QED BY <2>2, <3>4, <3>5 DEF StoreOK
    <2> QED BY <2>3, <2>4
  <1>7. CASE UpdateRead(w)
    <2>1. PICK i \in DOMAIN msgs, target \in Folders, kw \in SUBSET (Flags \ {"Deleted"}) :
            Reads(w, "jmapUpdate", "update",
                  [j \in {i} |-> [msgs[i] EXCEPT
                                    !.flags = kw \cup (msgs[i].flags \cap {"Deleted"})]],
                  target)
      BY <1>7 DEF UpdateRead
    <2>2. msgs[i] \in Row /\ i \in Ids
      BY <1>0, RowOf
    <2>3. kw \cup (msgs[i].flags \cap {"Deleted"}) \in SUBSET Flags
      BY <2>2, RowFields
    <2>4. [msgs[i] EXCEPT !.flags = kw \cup (msgs[i].flags \cap {"Deleted"})] \in Row
      BY <2>2, <2>3 DEF Row
    <2>5. IsRows([j \in {i} |-> [msgs[i] EXCEPT
                                    !.flags = kw \cup (msgs[i].flags \cap {"Deleted"})]])
      BY <2>2, <2>4 DEF IsRows
    <2> QED BY <1>00, <2>1, <2>5, RereadTyped
  <1>8. CASE UpdateWrite(w)
    <2>1. IsRows(msgs') /\ UidsKept /\ total' \in [Folders -> Int]
      <3>1. CASE UNCHANGED <<msgs, total>>
        BY <3>1 DEF StoreOK, UidsKept
      <3>2. ASSUME NEW i \in DOMAIN snap[w], NEW t \in Times(w), i \in DOMAIN msgs,
                   msgs' = UpdatedRows(w, i, t),
                   total' = CountMove(snap[w][i].folder, wr[w].folder)
            PROVE  IsRows(msgs') /\ UidsKept /\ total' \in [Folders -> Int]
        <4>1. msgs[i] \in Row /\ snap[w][i] \in Row
          BY <1>0, <3>2, RowOf
        <4>2. /\ snap[w][i].flags \in SUBSET Flags /\ wr[w].folder \in Folders
              /\ wr[w].since \in Nat
          BY <1>0, <4>1, RowFields DEF Request
        <4>3. Stamp(t) \in Nat
          BY <1>0, <4>2 DEF Stamp, Times
        <4> DEFINE row == [msgs[i] EXCEPT !.flags = snap[w][i].flags,
                                          !.folder = wr[w].folder, !.modSeq = Stamp(t)]
        <4>4. row \in Row /\ row.uid = msgs[i].uid
          BY <4>1, <4>2, <4>3 DEF Row
        <4>5. msgs' = Added(i, row)
          BY <3>2 DEF UpdatedRows
        <4> HIDE DEF row
        <4>6. IsRows(msgs') /\ UidsKept
          BY <3>2, <4>4, <4>5, OneMessageChanged
        <4>7. total' \in [Folders -> Int]
          BY <3>2 DEF CountMove, One, StoreOK
        <4> QED BY <4>6, <4>7
      <3> QED BY <1>8, <3>1, <3>2 DEF UpdateWrite
    <2>2. Ends(w) /\ UNCHANGED <<uidNext, highestModSeq, clock, given, ops, crashes>>
      BY <1>8 DEF UpdateWrite
    <2> QED BY <2>1, <2>2, EndsTyped DEF StoreOK
  <1>9. CASE DestroyRead(w)
    <2>1. PICK i \in DOMAIN msgs :
            Reads(w, "jmapDestroy", "destroy", Only(msgs, {i}), msgs[i].folder)
      BY <1>9 DEF DestroyRead
    <2>2. IsRows(Only(msgs, {i}))
      <3>1. {i} \in SUBSET DOMAIN msgs
        OBVIOUS
      <3> QED BY <1>0, <3>1, OnlyTyped
    <2>3. msgs[i].folder \in Folders
      BY <1>0, RowOf, RowFields
    <2> QED BY <1>00, <2>1, <2>2, <2>3, RereadTyped
  <1>10. CASE DestroyWrite(w)
    <2>1. IsRows(msgs') /\ UidsKept /\ total' \in [Folders -> Int]
      <3>1. CASE UNCHANGED <<msgs, total>>
        BY <3>1 DEF StoreOK, UidsKept
      <3>2. CASE /\ msgs' = Only(msgs, DOMAIN msgs \ DOMAIN snap[w])
                 /\ total' = [total EXCEPT ![wr[w].folder] = @ - 1]
        <4>1. DOMAIN msgs \ DOMAIN snap[w] \in SUBSET DOMAIN msgs
          OBVIOUS
        <4>2. IsRows(msgs') /\ DOMAIN msgs' = DOMAIN msgs \ DOMAIN snap[w]
          BY <1>0, <3>2, <4>1, OnlyTyped
        <4>3. \A i \in DOMAIN msgs' : msgs'[i] = msgs[i]
          BY <3>2, <4>2 DEF Only
        <4>4. total' \in [Folders -> Int]
          BY <1>0, <3>2 DEF StoreOK, Request
        <4> QED BY <4>2, <4>3, <4>4 DEF UidsKept
      <3> QED BY <1>10, <3>1, <3>2 DEF DestroyWrite
    <2>2. Ends(w) /\ UNCHANGED <<uidNext, highestModSeq, clock, given, ops, crashes>>
      BY <1>10 DEF DestroyWrite
    <2> QED BY <2>1, <2>2, EndsTyped DEF StoreOK
  <1> QED BY <1>1, <1>2, <1>3, <1>4, <1>5, <1>6, <1>7, <1>8, <1>9, <1>10 DEF Changes

LEMMA InitTyped == Init => StoreOK
  <1> SUFFICES ASSUME Init PROVE StoreOK
    OBVIOUS
  <1>1. \A w \in Writers : wr[w] = Idle /\ snap[w] = NoRows
    BY DEF Init
  <1>2. wr \in [Writers -> Request]
    BY IdleTyped DEF Init
  <1> QED BY <1>1, <1>2, NoRowsTyped, MailStoreAssumption DEF Init, StoreOK

LEMMA CrashTyped ==
  ASSUME StoreOK, NEW w \in Writers, Crash(w)
  PROVE  StoreOK'
  <1>1. crashes' \in 0..MaxCrashes
    BY MailStoreAssumption DEF StoreOK, Crash
  <1>2. Ends(w) /\ UNCHANGED <<uidNext, highestModSeq, msgs, total, clock, given, ops>>
    BY DEF Crash
  <1> QED BY <1>1, <1>2, EndsTyped DEF StoreOK

LEMMA TypePreserved == StoreOK /\ [Next]_vars => StoreOK'
  <1> SUFFICES ASSUME StoreOK, [Next]_vars PROVE StoreOK'
    OBVIOUS
  <1>1. CASE Tick
    BY <1>1, MailStoreAssumption DEF Tick, StoreOK
  <1>2. ASSUME NEW w \in Writers, Creates(w) PROVE StoreOK'
    BY <1>2, CreatesTyped
  <1>3. ASSUME NEW w \in Writers, Copies(w) PROVE StoreOK'
    BY <1>3, CopiesTyped
  <1>4. ASSUME NEW w \in Writers, Changes(w) PROVE StoreOK'
    BY <1>4, ChangesTyped
  <1>5. ASSUME NEW w \in Writers, Crash(w) PROVE StoreOK'
    BY <1>5, CrashTyped
  <1>6. CASE UNCHANGED vars
    BY <1>6 DEF vars, StoreOK
  <1> QED BY <1>1, <1>2, <1>3, <1>4, <1>5, <1>6 DEF Next

(* The mailbox keeps the shape its tables and requests have in the code.   *)
THEOREM TypeCorrect == Spec => []TypeOK
  <1>1. Init => TypeOK
    BY InitTyped DEF Init, TypeOK
  <1>2. TypeOK /\ [Next]_vars => TypeOK'
    <2> SUFFICES ASSUME TypeOK, [Next]_vars PROVE TypeOK'
      OBVIOUS
    <2>1. mix' = mix
      BY DEF Next, vars
    <2> QED BY <2>1, TypePreserved DEF TypeOK
  <1> QED BY <1>1, <1>2, PTL DEF Spec

-----------------------------------------------------------------------------
(* UIDs.  A request that is about to insert holds a UID below UIDNEXT, and *)
(* a COPY as many of them as it has messages left: it reserved that many   *)
(* after it had read the UIDNEXT it counts from.                           *)

UidOfRow == \A i \in DOMAIN msgs : <<i, msgs[i].uid>> \in given

InStep(r) ==
  /\ r.pc \in {"sources", "reserve"} => r.op = "copy"
  /\ r.pc = "next" => r.op = "import"

HoldsUid(r, rows, next) ==
  /\ r.uid <= next
  /\ r.pc = "insert" /\ r.op # "copy" => r.uid < next
  /\ r.pc = "insert" /\ r.op = "copy" => r.uid + Cardinality(DOMAIN rows) <= next
  /\ r.pc = "insert" /\ r.op = "copy" => DOMAIN rows # {}
  /\ r.pc = "reserve" => DOMAIN rows # {}

UidInv ==
  /\ StoreOK
  /\ UidOfRow
  /\ UidsBelowNext
  /\ \A w \in Writers : InStep(wr[w]) /\ HoldsUid(wr[w], snap[w], uidNext)

LEMMA HoldsMore ==
  ASSUME NEW r \in Request, NEW rows, IsFiniteSet(DOMAIN rows), NEW n \in Nat,
         NEW m \in Nat, n <= m, HoldsUid(r, rows, n)
  PROVE  HoldsUid(r, rows, m)
  <1>1. r.uid \in Nat
    BY DEF Request
  <1>2. Cardinality(DOMAIN rows) \in Nat
    BY FS_CardinalityType
  <1> QED BY <1>1, <1>2 DEF HoldsUid

LEMMA IdleHolds ==
  ASSUME NEW rows, NEW n \in Nat
  PROVE  InStep(Idle) /\ HoldsUid(Idle, rows, n)
  BY DEF InStep, HoldsUid, Idle

LEMMA SnapFinite ==
  ASSUME StoreOK, NEW w \in Writers
  PROVE  IsFiniteSet(DOMAIN snap[w]) /\ Cardinality(DOMAIN snap[w]) \in Nat
  BY IdsFinite, FS_Subset, FS_CardinalityType DEF StoreOK, IsRows

(* A step of w leaves what the others hold as it was. *)
LEMMA OthersHold ==
  ASSUME UidInv, NEW next \in Nat, uidNext <= next, NEW w \in Writers,
         \A v \in Writers \ {w} : wr'[v] = wr[v] /\ snap'[v] = snap[v],
         InStep(wr'[w]), HoldsUid(wr'[w], snap'[w], next)
  PROVE  \A v \in Writers : InStep(wr'[v]) /\ HoldsUid(wr'[v], snap'[v], next)
  <1>1. ASSUME NEW v \in Writers \ {w}
        PROVE  InStep(wr'[v]) /\ HoldsUid(wr'[v], snap'[v], next)
    <2>1. wr'[v] = wr[v] /\ snap'[v] = snap[v] /\ v \in Writers
      OBVIOUS
    <2>2. InStep(wr[v]) /\ HoldsUid(wr[v], snap[v], uidNext) /\ StoreOK
      BY DEF UidInv
    <2>3. wr[v] \in Request /\ uidNext \in Nat /\ IsFiniteSet(DOMAIN snap[v])
      BY <2>2, SnapFinite DEF StoreOK
    <2>4. HoldsUid(wr[v], snap[v], next)
      BY <2>2, <2>3, HoldsMore
    <2> QED BY <2>1, <2>2, <2>4
  <1> QED BY <1>1

(* A new message gets a UID below UIDNEXT. *)
LEMMA NewUidBelow ==
  ASSUME UidInv, NEW i \in Ids, NEW row \in Row, row.uid < uidNext,
         msgs' = Added(i, row), given' = given \cup {<<i, row.uid>>}, UNCHANGED uidNext
  PROVE  UidOfRow' /\ UidsBelowNext'
  <1>1. IsRows(msgs)
    BY DEF UidInv, StoreOK
  <1>2. /\ DOMAIN msgs' = DOMAIN msgs \cup {i}
        /\ msgs'[i] = row
        /\ \A j \in DOMAIN msgs \ {i} : msgs'[j] = msgs[j]
    BY <1>1, AddedTyped, Zenon
  <1>3. UidOfRow'
    BY <1>2 DEF UidInv, UidOfRow
  <1>4. UidsBelowNext'
    BY DEF UidInv, UidsBelowNext
  <1> QED BY <1>3, <1>4

LEMMA RowsAsBefore ==
  ASSUME UidInv, UidsKept, UNCHANGED given, uidNext' \in Nat, uidNext <= uidNext'
  PROVE  UidOfRow' /\ UidsBelowNext'
  <1>1. UidOfRow'
    BY DEF UidInv, UidOfRow, UidsKept
  <1>2. \A p \in given : p[2] \in Nat /\ p[2] < uidNext
    BY DEF UidInv, UidsBelowNext, StoreOK
  <1>3. uidNext \in Nat
    BY DEF UidInv, StoreOK
  <1>4. UidsBelowNext'
    BY <1>2, <1>3 DEF UidsBelowNext
  <1> QED BY <1>1, <1>4

LEMMA ChangesKeepUids ==
  ASSUME UidInv, NEW w \in Writers, Changes(w)
  PROVE  UidInv'
  <1>0. StoreOK /\ wr[w] \in Request /\ uidNext \in Nat
    BY DEF UidInv, StoreOK
  <1>1. StoreOK' /\ UidsKept
    BY <1>0, ChangesTyped
  <1>2. UNCHANGED <<uidNext, given>>
    BY DEF Changes, MoveRead, MoveWrite, StoreRead, StoreWrite, ExpungeRead,
           ExpungeWrite, UpdateRead, UpdateWrite, DestroyRead, DestroyWrite, Reads
  <1>3. UidOfRow' /\ UidsBelowNext'
    BY <1>0, <1>1, <1>2, RowsAsBefore
  <1>4. /\ \A v \in Writers \ {w} : wr'[v] = wr[v] /\ snap'[v] = snap[v]
        /\ InStep(wr'[w]) /\ HoldsUid(wr'[w], snap'[w], uidNext)
    <2>1. CASE Ends(w)
      BY <1>0, <2>1, EndsTyped, IdleHolds
    <2>2. ASSUME NEW op, NEW pc \in {"move", "store", "expunge", "update", "destroy"},
                 NEW rows, NEW target, Reads(w, op, pc, rows, target)
          PROVE  /\ \A v \in Writers \ {w} : wr'[v] = wr[v] /\ snap'[v] = snap[v]
                 /\ InStep(wr'[w]) /\ HoldsUid(wr'[w], snap'[w], uidNext)
      <3>1. /\ wr' = [wr EXCEPT ![w] = [Idle EXCEPT !.pc = pc, !.op = op,
                                                    !.folder = target, !.since = clock]]
            /\ snap' = [snap EXCEPT ![w] = rows]
        BY <2>2 DEF Reads, Becomes, Holds
      <3>2. /\ wr'[w].pc = pc /\ wr'[w].uid = 0
            /\ \A v \in Writers \ {w} : wr'[v] = wr[v] /\ snap'[v] = snap[v]
        BY <1>0, <3>1 DEF StoreOK, Idle
      <3> QED BY <1>0, <3>2 DEF InStep, HoldsUid
    <2>3. ASSUME wr[w].pc \in {"store", "expunge"}, NEW rest, NextRow(w, rest)
          PROVE  /\ \A v \in Writers \ {w} : wr'[v] = wr[v] /\ snap'[v] = snap[v]
                 /\ InStep(wr'[w]) /\ HoldsUid(wr'[w], snap'[w], uidNext)
      <3>1. CASE Holds(w, Only(snap[w], rest)) /\ UNCHANGED wr
        <4>1. \A v \in Writers \ {w} : wr'[v] = wr[v] /\ snap'[v] = snap[v]
          BY <1>0, <3>1 DEF Holds, StoreOK
        <4>2. HoldsUid(wr[w], snap[w], uidNext)
          BY DEF UidInv
        <4> QED BY <2>3, <3>1, <4>1, <4>2 DEF InStep, HoldsUid
      <3> QED BY <2>1, <2>3, <3>1 DEF NextRow
    <2> QED
      BY <2>1, <2>2, <2>3
      DEF Changes, MoveRead, MoveWrite, StoreRead, StoreWrite, ExpungeRead,
          ExpungeWrite, UpdateRead, UpdateWrite, DestroyRead, DestroyWrite, RowGone
  <1>5. \A v \in Writers : InStep(wr'[v]) /\ HoldsUid(wr'[v], snap'[v], uidNext)
    BY <1>0, <1>4, OthersHold
  <1> QED BY <1>1, <1>2, <1>3, <1>5 DEF UidInv

LEMMA AllocationStep ==
  ASSUME UidInv, NEW w \in Writers, Allocate(w) \/ AllocateUid(w) \/ RuleCopy(w)
  PROVE  /\ uidNext' = uidNext + 1
         /\ UNCHANGED <<msgs, given, snap>>
         /\ \A v \in Writers \ {w} : wr'[v] = wr[v]
         /\ wr'[w].pc = "insert" /\ wr'[w].op # "copy" /\ wr'[w].uid < uidNext + 1
         /\ wr[w].op # "import" => wr'[w].uid = uidNext
  <1>0. wr \in [Writers -> Request] /\ wr[w] \in Request /\ uidNext \in Nat
    BY DEF UidInv, StoreOK
  <1>1. wr[w].uid <= uidNext /\ wr[w].uid \in Nat /\ InStep(wr[w])
    BY <1>0 DEF UidInv, HoldsUid, Request
  <1>2. CASE Allocate(w)
    <2>1. PICK op \in {"deliver", "jmapCreate"}, f \in Folders, fl \in SUBSET Flags,
              cp \in SUBSET Folders :
            /\ Begins(w, op)
            /\ Becomes(w, [Idle EXCEPT !.pc = "insert", !.op = op, !.folder = f,
                               !.home = f, !.copies = cp, !.uid = FirstFree,
                               !.modSeq = highestModSeq + 1, !.flags = fl,
                               !.since = clock])
      BY <1>2 DEF Allocate
    <2>2. /\ wr'[w].pc = "insert" /\ wr'[w].op = op /\ wr'[w].uid = uidNext
          /\ \A v \in Writers \ {w} : wr'[v] = wr[v]
      BY <1>0, <2>1 DEF Becomes, Idle, FirstFree
    <2>3. uidNext' = uidNext + 1 /\ UNCHANGED <<msgs, given, snap>>
      BY <1>2 DEF Allocate
    <2> QED BY <1>0, <2>2, <2>3
  <1>3. CASE AllocateUid(w)
    <2>3. uidNext' = uidNext + 1 /\ UNCHANGED <<msgs, given, snap>>
      BY <1>3 DEF AllocateUid
    <2>1. CASE wr[w].pc = "next" /\ Becomes(w, [wr[w] EXCEPT !.pc = "insert", !.since = clock])
      <3>1. wr'[w] = [wr[w] EXCEPT !.pc = "insert", !.since = clock]
            /\ \A v \in Writers \ {w} : wr'[v] = wr[v]
        BY <1>0, <2>1 DEF Becomes
      <3>2. wr[w].op = "import"
        BY <1>1, <2>1 DEF InStep
      <3>3. wr'[w].pc = "insert" /\ wr'[w].op = wr[w].op /\ wr'[w].uid = wr[w].uid
        BY <1>0, <3>1 DEF Request
      <3>4. wr'[w].op # "copy" /\ wr'[w].uid < uidNext + 1
        BY <1>0, <1>1, <3>2, <3>3
      <3> QED BY <2>3, <3>1, <3>2, <3>3, <3>4
    <2>2. ASSUME NEW op \in {"append", "createItem"}, NEW f \in Folders,
                 NEW fl \in SUBSET Flags,
                 Becomes(w, [Idle EXCEPT !.pc = "insert", !.op = op, !.folder = f,
                                   !.uid = FirstFree, !.modSeq = highestModSeq + 1,
                                   !.flags = fl, !.since = clock])
          PROVE  /\ wr'[w].pc = "insert" /\ wr'[w].op # "copy"
                 /\ wr'[w].uid < uidNext + 1 /\ wr'[w].uid = uidNext
                 /\ \A v \in Writers \ {w} : wr'[v] = wr[v]
      BY <1>0, <2>2 DEF Becomes, FirstFree, Idle
    <2> QED BY <1>3, <2>1, <2>2, <2>3 DEF AllocateUid
  <1>4. CASE RuleCopy(w)
    <2>1. PICK f \in wr[w].copies :
            wr' = [wr EXCEPT ![w] =
                     [wr[w] EXCEPT !.pc = "insert", !.op = "ruleCopy", !.folder = f,
                                   !.copies = wr[w].copies \ {f}, !.uid = FirstFree,
                                   !.modSeq = highestModSeq + 1, !.since = clock]]
      BY <1>4 DEF RuleCopy, Becomes
    <2>2. /\ wr'[w].pc = "insert" /\ wr'[w].op = "ruleCopy" /\ wr'[w].uid = uidNext
          /\ \A v \in Writers \ {w} : wr'[v] = wr[v]
      BY <1>0, <2>1 DEF Request, FirstFree
    <2>3. uidNext' = uidNext + 1 /\ UNCHANGED <<msgs, given, snap>>
      BY <1>4 DEF RuleCopy
    <2> QED BY <1>0, <2>2, <2>3
  <1> QED BY <1>2, <1>3, <1>4

(* The steps of a request that only move it on or end it. *)
LEMMA AdvanceStep ==
  ASSUME UidInv, NEW w \in Writers,
         ImportClose(w) \/ CopiesDone(w) \/ Count(w) \/ BumpModSeq(w)
  PROVE  /\ UNCHANGED <<uidNext, msgs, given, snap>>
         /\ \A v \in Writers \ {w} : wr'[v] = wr[v]
         /\ wr'[w].pc # "insert"
         /\ InStep(wr'[w]) /\ HoldsUid(wr'[w], snap[w], uidNext)
  <1>0. /\ wr \in [Writers -> Request] /\ wr[w] \in Request /\ uidNext \in Nat
        /\ HoldsUid(wr[w], snap[w], uidNext)
    BY DEF UidInv, StoreOK
  <1>1. UNCHANGED <<uidNext, msgs, given, snap>>
    BY DEF ImportClose, CopiesDone, Count, BumpModSeq
  <1>2. PICK r : /\ Becomes(w, r)
                 /\ \/ r = Idle
                    \/ /\ r.uid = wr[w].uid
                       /\ \/ r.pc \in {"count", "copies"}
                          \/ r.pc = "next" /\ r.op = "import"
    <2>1. CASE ImportClose(w) \/ BumpModSeq(w)
      BY <2>1 DEF ImportClose, BumpModSeq
    <2>2. CASE CopiesDone(w)
      <3>1. Becomes(w, [wr[w] EXCEPT !.pc = "count", !.op = "deliver", !.folder = wr[w].home])
        BY <2>2 DEF CopiesDone
      <3>2. /\ [wr[w] EXCEPT !.pc = "count", !.op = "deliver",
                             !.folder = wr[w].home].pc = "count"
            /\ [wr[w] EXCEPT !.pc = "count", !.op = "deliver",
                             !.folder = wr[w].home].uid = wr[w].uid
        BY <1>0 DEF Request
      <3> QED BY <3>1, <3>2
    <2>3. CASE Count(w)
      <3>1. Becomes(w, AfterCount(w))
        BY <2>3 DEF Count
      <3>2. \/ AfterCount(w) = Idle
            \/ /\ AfterCount(w).uid = wr[w].uid
               /\ \/ AfterCount(w).pc = "copies"
                  \/ AfterCount(w).pc = "next" /\ AfterCount(w).op = "import"
        BY <1>0 DEF AfterCount, Request
      <3> QED BY <3>1, <3>2
    <2> QED BY <2>1, <2>2, <2>3
  <1>3. wr'[w] = r /\ \A v \in Writers \ {w} : wr'[v] = wr[v]
    BY <1>0, <1>2 DEF Becomes
  <1>4. r.pc # "insert" /\ InStep(r) /\ HoldsUid(r, snap[w], uidNext)
    BY <1>0, <1>2, IdleHolds DEF InStep, HoldsUid, Idle
  <1> QED BY <1>1, <1>3, <1>4

(* What Insert does to the messages, and to its request. *)
LEMMA InsertStep ==
  ASSUME UidInv, NEW w \in Writers, Insert(w)
  PROVE  /\ UNCHANGED <<uidNext, snap>>
         /\ \A v \in Writers \ {w} : wr'[v] = wr[v]
         /\ wr'[w].pc # "insert"
         /\ InStep(wr'[w]) /\ HoldsUid(wr'[w], snap[w], uidNext)
         /\ \/ UNCHANGED <<msgs, given>>
            \/ \E i \in NewIds, row \in Row :
                 /\ row.uid = wr[w].uid
                 /\ msgs' = Added(i, row)
                 /\ given' = given \cup {<<i, row.uid>>}
  <1>0. /\ wr \in [Writers -> Request] /\ wr[w] \in Request /\ uidNext \in Nat
        /\ HoldsUid(wr[w], snap[w], uidNext) /\ StoreOK
    BY DEF UidInv, StoreOK
  <1>1. /\ UNCHANGED <<uidNext, snap>>
        /\ Becomes(w, AfterRefusal(w)) \/ Becomes(w, AfterInsert(w))
    BY DEF Insert
  <1>2. ASSUME NEW r, r \in {AfterRefusal(w), AfterInsert(w)}
        PROVE  r.pc # "insert" /\ InStep(r) /\ HoldsUid(r, snap[w], uidNext)
    <2>1. \/ r = Idle
          \/ /\ r.uid = wr[w].uid
             /\ \/ r.pc \in {"copies", "bump", "count"}
                \/ r.pc = "next" /\ r.op = "import"
      BY <1>0, <1>2 DEF AfterRefusal, AfterInsert, Request
    <2> QED BY <1>0, <2>1, IdleHolds DEF InStep, HoldsUid, Idle
  <1>3. /\ wr'[w] \in {AfterRefusal(w), AfterInsert(w)}
        /\ \A v \in Writers \ {w} : wr'[v] = wr[v]
    BY <1>0, <1>1 DEF Becomes
  <1>4. \/ UNCHANGED <<msgs, given>>
        \/ \E i \in NewIds, row \in Row :
             /\ row.uid = wr[w].uid
             /\ msgs' = Added(i, row)
             /\ given' = given \cup {<<i, row.uid>>}
    <2>1. ASSUME NEW i \in NewIds, NEW m \in ModSeqs(w), NEW c \in CreationTimes(w),
                 msgs' = Added(i, [folder |-> wr[w].folder, uid |-> wr[w].uid,
                                   modSeq |-> m, flags |-> wr[w].flags,
                                   live |-> TRUE, created |-> c]),
                 given' = given \cup {<<i, wr[w].uid>>}
          PROVE  \E row \in Row :
                   /\ row.uid = wr[w].uid
                   /\ msgs' = Added(i, row)
                   /\ given' = given \cup {<<i, row.uid>>}
      <3> DEFINE row == [folder |-> wr[w].folder, uid |-> wr[w].uid, modSeq |-> m,
                         flags |-> wr[w].flags, live |-> TRUE, created |-> c]
      <3>1. /\ wr[w].folder \in Folders /\ wr[w].uid \in Nat /\ wr[w].flags \in SUBSET Flags
            /\ wr[w].modSeq \in Nat /\ wr[w].since \in Nat
        BY <1>0 DEF Request
      <3>2. clock \in Nat /\ CounterLimit \in Nat
        BY <1>0, MailStoreAssumption DEF StoreOK
      <3>3. m \in Nat /\ c \in Nat
        BY <3>1, <3>2 DEF ModSeqs, CreationTimes, Times, Stamp
      <3>4. row \in Row
        BY <3>1, <3>3, NewRowTyped
      <3>5. row.uid = wr[w].uid /\ msgs' = Added(i, row)
        BY <2>1
      <3> HIDE DEF row
      <3>6. given' = given \cup {<<i, row.uid>>}
        BY <2>1, <3>5
      <3> QED BY <3>4, <3>5, <3>6
    <2> QED BY <2>1 DEF Insert
  <1> QED BY <1>1, <1>2, <1>3, <1>4

LEMMA CreatesKeepUids ==
  ASSUME UidInv, NEW w \in Writers, Creates(w)
  PROVE  UidInv'
  <1>0. StoreOK /\ StoreOK' /\ uidNext \in Nat /\ uidNext + 1 \in Nat
    BY CreatesTyped DEF UidInv, StoreOK
  <1>1. CASE Allocate(w) \/ AllocateUid(w) \/ RuleCopy(w)
    <2>1. /\ uidNext' = uidNext + 1 /\ UidsKept /\ UNCHANGED <<given, snap>>
          /\ \A v \in Writers \ {w} : wr'[v] = wr[v] /\ snap'[v] = snap[v]
          /\ InStep(wr'[w]) /\ HoldsUid(wr'[w], snap'[w], uidNext + 1)
      <3>1. /\ uidNext' = uidNext + 1 /\ UNCHANGED <<msgs, given, snap>>
            /\ \A v \in Writers \ {w} : wr'[v] = wr[v]
            /\ wr'[w].pc = "insert" /\ wr'[w].op # "copy" /\ wr'[w].uid < uidNext + 1
        BY <1>1, AllocationStep
      <3>2. wr'[w].uid \in Nat
        BY <1>0 DEF StoreOK, Request
      <3>3. InStep(wr'[w]) /\ HoldsUid(wr'[w], snap'[w], uidNext + 1)
        BY <1>0, <3>1, <3>2 DEF InStep, HoldsUid
      <3> QED BY <3>1, <3>3 DEF UidsKept
    <2>2. UidOfRow' /\ UidsBelowNext'
      BY <1>0, <2>1, RowsAsBefore
    <2>3. \A v \in Writers : InStep(wr'[v]) /\ HoldsUid(wr'[v], snap'[v], uidNext + 1)
      BY <1>0, <2>1, OthersHold
    <2> QED BY <1>0, <2>1, <2>2, <2>3 DEF UidInv
  <1>2. CASE ImportOpen(w)
    <2>1. /\ UNCHANGED <<uidNext, msgs, given, snap>>
          /\ \A v \in Writers \ {w} : wr'[v] = wr[v] /\ snap'[v] = snap[v]
          /\ wr'[w].pc = "next" /\ wr'[w].op = "import" /\ wr'[w].uid = uidNext
      BY <1>0, <1>2 DEF ImportOpen, Becomes, StoreOK, Idle
    <2>2. InStep(wr'[w]) /\ HoldsUid(wr'[w], snap'[w], uidNext)
      BY <1>0, <2>1 DEF InStep, HoldsUid
    <2>3. \A v \in Writers : InStep(wr'[v]) /\ HoldsUid(wr'[v], snap'[v], uidNext)
      BY <1>0, <2>1, <2>2, OthersHold
    <2> QED BY <1>0, <2>1, <2>3, RowsAsBefore DEF UidInv, UidsKept
  <1>3. CASE ImportClose(w) \/ CopiesDone(w) \/ Count(w) \/ BumpModSeq(w)
    <2>1. /\ UNCHANGED <<uidNext, msgs, given, snap>>
          /\ \A v \in Writers \ {w} : wr'[v] = wr[v] /\ snap'[v] = snap[v]
          /\ InStep(wr'[w]) /\ HoldsUid(wr'[w], snap'[w], uidNext)
      BY <1>3, AdvanceStep
    <2>2. \A v \in Writers : InStep(wr'[v]) /\ HoldsUid(wr'[v], snap'[v], uidNext)
      BY <1>0, <2>1, OthersHold
    <2> QED BY <1>0, <2>1, <2>2, RowsAsBefore DEF UidInv, UidsKept
  <1>4. CASE Insert(w)
    <2>1. /\ UNCHANGED <<uidNext, snap>>
          /\ \A v \in Writers \ {w} : wr'[v] = wr[v] /\ snap'[v] = snap[v]
          /\ InStep(wr'[w]) /\ HoldsUid(wr'[w], snap'[w], uidNext)
      BY <1>4, InsertStep
    <2>2. \A v \in Writers : InStep(wr'[v]) /\ HoldsUid(wr'[v], snap'[v], uidNext)
      BY <1>0, <2>1, OthersHold
    <2>3. UidOfRow' /\ UidsBelowNext'
      <3>1. CASE UNCHANGED <<msgs, given>>
        BY <1>0, <2>1, <3>1, RowsAsBefore DEF UidsKept
      <3>2. CASE \E i \in NewIds, row \in Row :
                   /\ row.uid = wr[w].uid
                   /\ msgs' = Added(i, row)
                   /\ given' = given \cup {<<i, row.uid>>}
        <4>1. PICK i \in Ids, row \in Row :
                /\ row.uid = wr[w].uid
                /\ msgs' = Added(i, row)
                /\ given' = given \cup {<<i, row.uid>>}
          BY <3>2 DEF NewIds
        <4>2. wr[w].uid < uidNext
          BY <1>4 DEF Insert, UidInv, HoldsUid
        <4> QED BY <2>1, <4>1, <4>2, NewUidBelow
      <3> QED BY <1>4, <3>1, <3>2, InsertStep
    <2> QED BY <1>0, <2>1, <2>2, <2>3 DEF UidInv
  <1> QED BY <1>1, <1>2, <1>3, <1>4 DEF Creates

(* A COPY that has a message left to insert counts below what it reserved. *)
LEMMA CopyInsertStep ==
  ASSUME UidInv, NEW w \in Writers, CopyInsert(w), ~Ends(w)
  PROVE  \E i \in DOMAIN snap[w], k \in NewIds, row \in Row, pc \in {"bump", "insert"} :
           /\ row.uid = wr[w].uid
           /\ msgs' = Added(k, row)
           /\ given' = given \cup {<<k, row.uid>>}
           /\ pc = "insert" => DOMAIN snap[w] \ {i} # {}
           /\ Becomes(w, [wr[w] EXCEPT !.pc = pc, !.uid = wr[w].uid + 1])
           /\ Holds(w, Only(snap[w], DOMAIN snap[w] \ {i}))
  <1>0. /\ wr[w] \in Request /\ StoreOK /\ IsRows(snap[w])
    BY DEF UidInv, StoreOK
  <1>1. PICK i \in DOMAIN snap[w], k \in NewIds, c \in Times(w) :
          /\ msgs' = Added(k, [folder |-> wr[w].folder, uid |-> wr[w].uid,
                               modSeq |-> wr[w].modSeq,
                               flags |-> snap[w][i].flags,
                               live |-> TRUE, created |-> c])
          /\ given' = given \cup {<<k, wr[w].uid>>}
          /\ Becomes(w, [wr[w] EXCEPT
                          !.pc = IF DOMAIN snap[w] \ {i} = {} THEN "bump" ELSE "insert",
                          !.uid = wr[w].uid + 1])
          /\ Holds(w, Only(snap[w], DOMAIN snap[w] \ {i}))
    BY DEF CopyInsert
  <1> DEFINE row == [folder |-> wr[w].folder, uid |-> wr[w].uid, modSeq |-> wr[w].modSeq,
                     flags |-> snap[w][i].flags, live |-> TRUE, created |-> c]
             pc == IF DOMAIN snap[w] \ {i} = {} THEN "bump" ELSE "insert"
  <1>2. /\ wr[w].folder \in Folders /\ wr[w].uid \in Nat /\ wr[w].modSeq \in Nat
        /\ wr[w].since \in Nat
    BY <1>0 DEF Request
  <1>3. snap[w][i].flags \in SUBSET Flags
    BY <1>0, RowOf, RowFields
  <1>4. c \in Nat
    BY <1>0, <1>2, MailStoreAssumption DEF Times, StoreOK
  <1>5. row \in Row /\ row.uid = wr[w].uid
    BY <1>2, <1>3, <1>4, NewRowTyped
  <1>6. pc \in {"bump", "insert"} /\ (pc = "insert" => DOMAIN snap[w] \ {i} # {})
    OBVIOUS
  <1>7. /\ msgs' = Added(k, row)
        /\ Becomes(w, [wr[w] EXCEPT !.pc = pc, !.uid = wr[w].uid + 1])
    BY <1>1
  <1> HIDE DEF row, pc
  <1>8. given' = given \cup {<<k, row.uid>>}
    BY <1>1, <1>5
  <1> QED BY <1>1, <1>5, <1>6, <1>7, <1>8

LEMMA OneFewer ==
  ASSUME NEW S, IsFiniteSet(S), NEW i \in S
  PROVE  /\ IsFiniteSet(S \ {i}) /\ Cardinality(S) \in Nat
         /\ Cardinality(S \ {i}) \in Nat /\ Cardinality(S) = Cardinality(S \ {i}) + 1
  <1>1. IsFiniteSet(S \ {i}) /\ Cardinality(S \ {i}) = Cardinality(S) - 1
    BY FS_RemoveElement
  <1>2. Cardinality(S) \in Nat /\ Cardinality(S \ {i}) \in Nat
    BY <1>1, FS_CardinalityType
  <1> QED BY <1>1, <1>2

LEMMA CopiesKeepUids ==
  ASSUME UidInv, NEW w \in Writers, Copies(w)
  PROVE  UidInv'
  <1>0. /\ StoreOK /\ StoreOK' /\ uidNext \in Nat /\ uidNext' \in Nat
        /\ wr[w] \in Request /\ wr[w].uid \in Nat /\ wr[w].uid <= uidNext
        /\ wr \in [Writers -> Request] /\ DOMAIN snap = Writers
    BY CopiesTyped DEF UidInv, StoreOK, HoldsUid, Request
  <1>00. HoldsUid(wr[w], snap[w], uidNext) /\ InStep(wr[w])
    BY DEF UidInv
  <1>1. CASE CopyTarget(w)
    <2>1. /\ UNCHANGED <<uidNext, msgs, given, snap>>
          /\ \A v \in Writers \ {w} : wr'[v] = wr[v] /\ snap'[v] = snap[v]
          /\ wr'[w].pc = "sources" /\ wr'[w].op = "copy" /\ wr'[w].uid = uidNext
      BY <1>0, <1>1 DEF CopyTarget, Becomes, Idle
    <2>2. InStep(wr'[w]) /\ HoldsUid(wr'[w], snap'[w], uidNext)
      BY <1>0, <2>1 DEF InStep, HoldsUid
    <2>3. \A v \in Writers : InStep(wr'[v]) /\ HoldsUid(wr'[v], snap'[v], uidNext)
      BY <1>0, <2>1, <2>2, OthersHold
    <2> QED BY <1>0, <2>1, <2>3, RowsAsBefore DEF UidInv, UidsKept
  <1>2. CASE CopySources(w)
    <2>1. UNCHANGED <<uidNext, msgs, given>>
      BY <1>2 DEF CopySources
    <2>2. /\ \A v \in Writers \ {w} : wr'[v] = wr[v] /\ snap'[v] = snap[v]
          /\ InStep(wr'[w]) /\ HoldsUid(wr'[w], snap'[w], uidNext)
      <3>1. CASE Becomes(w, Idle) /\ UNCHANGED snap
        <4>1. wr'[w] = Idle /\ \A v \in Writers \ {w} : wr'[v] = wr[v]
          BY <1>0, <3>1 DEF Becomes
        <4> QED BY <1>0, <3>1, <4>1, IdleHolds
      <3>2. ASSUME NEW S \in (SUBSET Live(wr[w].home)) \ {{}},
                   Becomes(w, [wr[w] EXCEPT !.pc = "reserve"]), Holds(w, Only(msgs, S))
            PROVE  /\ \A v \in Writers \ {w} : wr'[v] = wr[v] /\ snap'[v] = snap[v]
                   /\ InStep(wr'[w]) /\ HoldsUid(wr'[w], snap'[w], uidNext)
        <4>1. wr[w].op = "copy"
          BY <1>00, <1>2 DEF InStep, CopySources
        <4>2. /\ \A v \in Writers \ {w} : wr'[v] = wr[v] /\ snap'[v] = snap[v]
              /\ snap'[w] = Only(msgs, S)
          BY <1>0, <3>2 DEF Becomes, Holds
        <4>3. wr'[w].pc = "reserve" /\ wr'[w].op = "copy" /\ wr'[w].uid = wr[w].uid
          BY <1>0, <3>2, <4>1 DEF Becomes, Request
        <4>4. DOMAIN snap'[w] # {}
          BY <4>2 DEF Only
        <4> QED BY <1>0, <4>2, <4>3, <4>4 DEF InStep, HoldsUid
      <3> QED BY <1>2, <3>1, <3>2 DEF CopySources
    <2>3. \A v \in Writers : InStep(wr'[v]) /\ HoldsUid(wr'[v], snap'[v], uidNext)
      BY <1>0, <2>1, <2>2, OthersHold
    <2> QED BY <1>0, <2>1, <2>3, RowsAsBefore DEF UidInv, UidsKept
  <1>3. CASE CopyReserve(w)
    <2>1. IsFiniteSet(DOMAIN snap[w]) /\ Reserved(w) \in Nat
      BY <1>0, SnapFinite DEF Reserved
    <2>2. uidNext' = uidNext + Reserved(w) /\ UNCHANGED <<msgs, given, snap>>
      BY <1>3 DEF CopyReserve
    <2>3. wr[w].op = "copy" /\ DOMAIN snap[w] # {}
      BY <1>00, <1>3 DEF CopyReserve, InStep, HoldsUid
    <2>4. /\ \A v \in Writers \ {w} : wr'[v] = wr[v] /\ snap'[v] = snap[v]
          /\ wr'[w].pc = "insert" /\ wr'[w].op = "copy" /\ wr'[w].uid = wr[w].uid
      BY <1>0, <1>3, <2>2, <2>3 DEF CopyReserve, Becomes, Request
    <2>5. uidNext <= uidNext' /\ wr[w].uid + Cardinality(DOMAIN snap[w]) <= uidNext'
      BY <1>0, <2>1, <2>2 DEF Reserved
    <2>6. InStep(wr'[w]) /\ HoldsUid(wr'[w], snap'[w], uidNext')
      <3>1. wr[w].uid <= uidNext'
        BY <1>0, <2>5
      <3> QED BY <2>2, <2>3, <2>4, <2>5, <3>1 DEF InStep, HoldsUid
    <2>7. \A v \in Writers : InStep(wr'[v]) /\ HoldsUid(wr'[v], snap'[v], uidNext')
      BY <1>0, <2>4, <2>5, <2>6, OthersHold
    <2> QED BY <1>0, <2>2, <2>5, <2>7, RowsAsBefore DEF UidInv, UidsKept
  <1>4. CASE CopyInsert(w)
    <2>0. UNCHANGED uidNext
      BY <1>4 DEF CopyInsert
    <2>1. CASE Ends(w)
      <3>1. wr[w].pc = "insert" /\ wr[w].op = "copy" /\ Idle.pc = "idle"
        BY <1>4 DEF CopyInsert, Idle
      <3>2. wr'[w] = Idle /\ \A v \in Writers \ {w} : wr'[v] = wr[v] /\ snap'[v] = snap[v]
        BY <1>0, <2>1, EndsTyped
      <3>3. UNCHANGED <<msgs, given>>
        <4>1. ASSUME NEW i \in DOMAIN snap[w],
                     Becomes(w, [wr[w] EXCEPT
                          !.pc = IF DOMAIN snap[w] \ {i} = {} THEN "bump" ELSE "insert",
                          !.uid = wr[w].uid + 1])
              PROVE  FALSE
          <5>1. wr'[w].pc # "idle"
            BY <1>0, <4>1 DEF Becomes, Request
          <5> QED BY <3>1, <3>2, <5>1
        <4> QED BY <1>4, <4>1 DEF CopyInsert
      <3>4. \A v \in Writers : InStep(wr'[v]) /\ HoldsUid(wr'[v], snap'[v], uidNext)
        BY <1>0, <3>2, IdleHolds, OthersHold
      <3> QED BY <1>0, <2>0, <3>3, <3>4, RowsAsBefore DEF UidInv, UidsKept
    <2>2. CASE ~Ends(w)
      <3>1. PICK i \in DOMAIN snap[w], k \in NewIds, row \in Row, pc \in {"bump", "insert"} :
              /\ row.uid = wr[w].uid
              /\ msgs' = Added(k, row)
              /\ given' = given \cup {<<k, row.uid>>}
              /\ pc = "insert" => DOMAIN snap[w] \ {i} # {}
              /\ Becomes(w, [wr[w] EXCEPT !.pc = pc, !.uid = wr[w].uid + 1])
              /\ Holds(w, Only(snap[w], DOMAIN snap[w] \ {i}))
        BY <1>4, <2>2, CopyInsertStep
      <3> DEFINE rest == DOMAIN snap[w] \ {i}
      <3>2. wr[w].op = "copy" /\ wr[w].uid + Cardinality(DOMAIN snap[w]) <= uidNext
        BY <1>00, <1>4 DEF CopyInsert, HoldsUid
      <3>3. /\ Cardinality(rest) \in Nat
            /\ Cardinality(DOMAIN snap[w]) = Cardinality(rest) + 1
        BY <1>0, SnapFinite, OneFewer
      <3>4. DOMAIN Only(snap[w], rest) = rest
        BY DEF Only
      <3> HIDE DEF rest
      <3>5. wr[w].uid + 1 + Cardinality(rest) <= uidNext
        BY <1>0, <3>2, <3>3
      <3>6. wr[w].uid < uidNext /\ wr[w].uid + 1 <= uidNext
        BY <1>0, <3>3, <3>5
      <3>7. UidOfRow' /\ UidsBelowNext'
        <4>1. k \in Ids
          BY DEF NewIds
        <4> QED BY <2>0, <3>1, <3>6, <4>1, NewUidBelow
      <3>8. /\ \A v \in Writers \ {w} : wr'[v] = wr[v] /\ snap'[v] = snap[v]
            /\ DOMAIN snap'[w] = rest
        BY <1>0, <3>1, <3>4 DEF Becomes, Holds, rest
      <3>9. /\ wr'[w].pc = pc /\ wr'[w].op = "copy" /\ wr'[w].uid = wr[w].uid + 1
        BY <1>0, <3>1, <3>2 DEF Becomes, Request
      <3>10. InStep(wr'[w]) /\ HoldsUid(wr'[w], snap'[w], uidNext)
        BY <3>1, <3>5, <3>6, <3>8, <3>9 DEF InStep, HoldsUid, rest
      <3>11. \A v \in Writers : InStep(wr'[v]) /\ HoldsUid(wr'[v], snap'[v], uidNext)
        BY <1>0, <3>8, <3>10, OthersHold
      <3> QED BY <1>0, <2>0, <3>7, <3>11 DEF UidInv
    <2> QED BY <2>1, <2>2
  <1> QED BY <1>1, <1>2, <1>3, <1>4 DEF Copies

LEMMA UidInvInit == Init => UidInv
  <1> SUFFICES ASSUME Init PROVE UidInv
    OBVIOUS
  <1>1. StoreOK
    BY InitTyped
  <1>2. UidOfRow /\ UidsBelowNext
    BY NoRowsTyped DEF Init, UidOfRow, UidsBelowNext
  <1>3. \A w \in Writers : InStep(wr[w]) /\ HoldsUid(wr[w], snap[w], uidNext)
    BY <1>1, IdleHolds DEF Init, StoreOK
  <1> QED BY <1>1, <1>2, <1>3 DEF UidInv

LEMMA QuietKeepsUids ==
  ASSUME UidInv, StoreOK', Tick \/ UNCHANGED vars
  PROVE  UidInv'
  BY DEF UidInv, UidOfRow, UidsBelowNext, Tick, vars

LEMMA CrashKeepsUids ==
  ASSUME UidInv, NEW w \in Writers, Crash(w)
  PROVE  UidInv'
  <1>1. StoreOK /\ StoreOK' /\ uidNext \in Nat
    BY CrashTyped DEF UidInv, StoreOK
  <1>2. Ends(w) /\ UNCHANGED <<uidNext, msgs, given>>
    BY DEF Crash
  <1>3. wr'[w] = Idle /\ \A v \in Writers \ {w} : wr'[v] = wr[v] /\ snap'[v] = snap[v]
    BY <1>1, <1>2, EndsTyped
  <1>4. \A v \in Writers : InStep(wr'[v]) /\ HoldsUid(wr'[v], snap'[v], uidNext)
    BY <1>1, <1>3, IdleHolds, OthersHold
  <1> QED BY <1>1, <1>2, <1>4, RowsAsBefore DEF UidInv, UidsKept

LEMMA UidInvPreserved == UidInv /\ [Next]_vars => UidInv'
  <1> SUFFICES ASSUME UidInv, [Next]_vars PROVE UidInv'
    OBVIOUS
  <1>0. StoreOK'
    BY TypePreserved DEF UidInv
  <1>1. CASE Tick \/ UNCHANGED vars
    BY <1>0, <1>1, QuietKeepsUids
  <1>2. ASSUME NEW w \in Writers, Creates(w) PROVE UidInv'
    BY <1>2, CreatesKeepUids
  <1>3. ASSUME NEW w \in Writers, Copies(w) PROVE UidInv'
    BY <1>3, CopiesKeepUids
  <1>4. ASSUME NEW w \in Writers, Changes(w) PROVE UidInv'
    BY <1>4, ChangesKeepUids
  <1>5. ASSUME NEW w \in Writers, Crash(w) PROVE UidInv'
    BY <1>5, CrashKeepsUids
  <1> QED BY <1>1, <1>2, <1>3, <1>4, <1>5 DEF Next

(* Every message there is or was has a UID below the UIDNEXT announced to  *)
(* clients, whatever the operations that write at the same time, COPY and  *)
(* its old reading of UIDNEXT included, and wherever a request dies.       *)
THEOREM UidNextIsAbove == Spec => []UidsBelowNext
  <1>1. UidInv => UidsBelowNext
    BY DEF UidInv
  <1> QED BY <1>1, UidInvInit, UidInvPreserved, PTL DEF Spec

-----------------------------------------------------------------------------
(* Without COPY and the import, a request owns the UID it was given: it is *)
(* no message's yet, and no other request's.                               *)

OwnOp(op) == op \notin {"copy", "import"}

OwnInv ==
  /\ UidInv
  /\ EachUidOnce
  /\ \A w \in Writers : OwnOp(wr[w].op)
  /\ \A w \in Writers : wr[w].pc = "insert" => \A p \in given : p[2] # wr[w].uid
  /\ \A v, w \in Writers :
       wr[v].pc = "insert" /\ wr[w].pc = "insert" /\ v # w => wr[v].uid # wr[w].uid

(* A request does what it was asked for. *)
LEMMA OpsAsked ==
  ASSUME StoreOK, AllocateOnly, NEW w \in Writers, OwnOp(wr[w].op),
         Creates(w) \/ Changes(w) \/ Crash(w) \/ CopyTarget(w)
  PROVE  OwnOp(wr'[w].op)
  <1> USE DEF OwnOp
  <1>0. wr \in [Writers -> Request] /\ wr[w] \in Request /\ OwnOp(Idle.op)
    BY DEF StoreOK, Idle
  <1>1. CASE Allocate(w)
    BY <1>0, <1>1 DEF Allocate, Becomes, Idle
  <1>2. CASE AllocateUid(w)
    <2>1. CASE Becomes(w, [wr[w] EXCEPT !.pc = "insert", !.since = clock])
      BY <1>0, <2>1 DEF Becomes, Request
    <2>2. ASSUME NEW op \in {"append", "createItem"}, NEW f \in Folders,
                 NEW fl \in SUBSET Flags,
                 Becomes(w, [Idle EXCEPT !.pc = "insert", !.op = op, !.folder = f,
                                   !.uid = FirstFree, !.modSeq = highestModSeq + 1,
                                   !.flags = fl, !.since = clock])
          PROVE  OwnOp(wr'[w].op)
      BY <1>0, <2>2 DEF Becomes, Idle
    <2> QED BY <1>2, <2>1, <2>2 DEF AllocateUid
  <1>3. CASE ImportOpen(w) \/ CopyTarget(w)
    BY <1>3 DEF ImportOpen, CopyTarget, Begins, AllocateOnly
  <1>4. CASE ImportClose(w) \/ BumpModSeq(w)
    BY <1>0, <1>4 DEF ImportClose, BumpModSeq, Becomes
  <1>5. CASE Insert(w)
    <2>1. OwnOp(AfterRefusal(w).op) /\ OwnOp(AfterInsert(w).op)
      BY <1>0 DEF AfterRefusal, AfterInsert, Request
    <2> QED BY <1>0, <1>5, <2>1 DEF Insert, Becomes
  <1>6. CASE RuleCopy(w)
    BY <1>0, <1>6 DEF RuleCopy, Becomes, Request
  <1>7. CASE CopiesDone(w)
    BY <1>0, <1>7 DEF CopiesDone, Becomes, Request
  <1>8. CASE Count(w)
    <2>1. OwnOp(AfterCount(w).op)
      BY <1>0 DEF AfterCount, Request
    <2> QED BY <1>0, <1>8, <2>1 DEF Count, Becomes
  <1>9. CASE Changes(w) \/ Crash(w)
    <2>1. CASE Ends(w)
      BY <1>0, <2>1 DEF Ends, Becomes
    <2>2. ASSUME NEW op \in {"move", "store", "expunge", "jmapUpdate", "jmapDestroy"},
                 NEW pc, NEW rows, NEW target, Reads(w, op, pc, rows, target)
          PROVE  OwnOp(wr'[w].op)
      BY <1>0, <2>2 DEF Reads, Becomes, Idle
    <2>3. CASE UNCHANGED wr
      BY <2>3
    <2> QED
      BY <1>9, <2>1, <2>2, <2>3
      DEF Changes, MoveRead, MoveWrite, StoreRead, StoreWrite, ExpungeRead, ExpungeWrite,
          UpdateRead, UpdateWrite, DestroyRead, DestroyWrite, RowGone, NextRow, Crash
  <1> QED BY <1>1, <1>2, <1>3, <1>4, <1>5, <1>6, <1>7, <1>8, <1>9 DEF Creates

(* A step that gives no UID away keeps what the requests own. *)
LEMMA OwnKept ==
  ASSUME OwnInv, UidInv', NEW w \in Writers, UNCHANGED given,
         \A v \in Writers \ {w} : wr'[v] = wr[v],
         wr'[w].pc # "insert", OwnOp(wr'[w].op)
  PROVE  OwnInv'
  <1>1. EachUidOnce'
    BY DEF OwnInv, EachUidOnce
  <1>2. \A v \in Writers : OwnOp(wr'[v].op)
    BY DEF OwnInv
  <1>3. \A v \in Writers : wr'[v].pc = "insert" => v # w /\ wr'[v] = wr[v]
    OBVIOUS
  <1> QED BY <1>1, <1>2, <1>3 DEF OwnInv

LEMMA OwnAllocated ==
  ASSUME OwnInv, UidInv', AllocateOnly, NEW w \in Writers,
         Allocate(w) \/ AllocateUid(w) \/ RuleCopy(w)
  PROVE  OwnInv'
  <1>0. StoreOK /\ UidInv
    BY DEF OwnInv, UidInv
  <1>1. /\ UNCHANGED given
        /\ \A v \in Writers \ {w} : wr'[v] = wr[v]
        /\ wr'[w].uid = uidNext
    BY <1>0, AllocationStep DEF OwnInv, OwnOp
  <1>2. OwnOp(wr'[w].op)
    BY <1>0, OpsAsked DEF OwnInv, Creates
  <1>3. \A v \in Writers : wr[v].pc = "insert" => wr[v].uid < uidNext /\ wr[v].uid \in Nat
    BY <1>0 DEF OwnInv, UidInv, HoldsUid, OwnOp, StoreOK, Request
  <1>4. \A p \in given : p[2] \in Nat /\ p[2] < uidNext
    BY <1>0 DEF UidInv, UidsBelowNext, StoreOK
  <1>5. uidNext \in Nat
    BY <1>0 DEF StoreOK
  <1>6. EachUidOnce'
    BY <1>1 DEF OwnInv, EachUidOnce
  <1>7. \A v \in Writers : OwnOp(wr'[v].op)
    BY <1>1, <1>2 DEF OwnInv
  <1>8. \A v \in Writers : wr'[v].pc = "insert" => \A p \in given' : p[2] # wr'[v].uid
    BY <1>1, <1>4, <1>5 DEF OwnInv
  <1>9. \A u, v \in Writers :
          wr'[u].pc = "insert" /\ wr'[v].pc = "insert" /\ u # v => wr'[u].uid # wr'[v].uid
    <2> SUFFICES ASSUME NEW u \in Writers, NEW v \in Writers, u # v,
                        wr'[u].pc = "insert", wr'[v].pc = "insert"
                 PROVE  wr'[u].uid # wr'[v].uid
      OBVIOUS
    <2>1. CASE u = w
      BY <1>1, <1>3, <1>5, <2>1
    <2>2. CASE v = w
      BY <1>1, <1>3, <1>5, <2>2
    <2>3. CASE u # w /\ v # w
      BY <1>1, <2>3 DEF OwnInv
    <2> QED BY <2>1, <2>2, <2>3
  <1> QED BY <1>6, <1>7, <1>8, <1>9 DEF OwnInv

LEMMA OwnInserted ==
  ASSUME OwnInv, UidInv', AllocateOnly, NEW w \in Writers, Insert(w)
  PROVE  OwnInv'
  <1>0. StoreOK /\ UidInv
    BY DEF OwnInv, UidInv
  <1>1. /\ \A v \in Writers \ {w} : wr'[v] = wr[v]
        /\ wr'[w].pc # "insert"
    BY <1>0, InsertStep
  <1>2. OwnOp(wr'[w].op)
    BY <1>0, OpsAsked DEF OwnInv, Creates
  <1>3. CASE UNCHANGED given
    BY <1>1, <1>2, <1>3, OwnKept
  <1>4. ASSUME NEW i \in NewIds, given' = given \cup {<<i, wr[w].uid>>}
        PROVE  OwnInv'
    <2>1. wr[w].pc = "insert" /\ \A p \in given : p[2] # wr[w].uid
      BY DEF Insert, OwnInv
    <2>2. EachUidOnce'
      BY <1>4, <2>1 DEF OwnInv, EachUidOnce
    <2>3. \A v \in Writers : OwnOp(wr'[v].op)
      BY <1>1, <1>2 DEF OwnInv
    <2>4. \A v \in Writers : wr'[v].pc = "insert" => v # w /\ wr'[v] = wr[v]
      BY <1>1
    <2>5. \A v \in Writers : wr'[v].pc = "insert" => \A p \in given' : p[2] # wr'[v].uid
      BY <1>4, <2>1, <2>4 DEF OwnInv
    <2> QED BY <2>2, <2>3, <2>4, <2>5 DEF OwnInv
  <1>5. \/ UNCHANGED given
        \/ \E i \in NewIds : given' = given \cup {<<i, wr[w].uid>>}
    BY <1>0, InsertStep
  <1> QED BY <1>3, <1>4, <1>5

LEMMA OwnPreserved == AllocateOnly /\ OwnInv /\ [Next]_vars => OwnInv'
  <1> SUFFICES ASSUME AllocateOnly, OwnInv, [Next]_vars PROVE OwnInv'
    OBVIOUS
  <1>0. UidInv /\ StoreOK /\ UidInv'
    BY UidInvPreserved DEF OwnInv, UidInv
  <1>1. CASE Tick \/ UNCHANGED vars
    BY <1>0, <1>1 DEF OwnInv, EachUidOnce, Tick, vars
  <1>2. ASSUME NEW w \in Writers, Creates(w) PROVE OwnInv'
    <2>1. CASE Allocate(w) \/ AllocateUid(w) \/ RuleCopy(w)
      BY <1>0, <2>1, OwnAllocated
    <2>2. CASE ImportOpen(w)
      BY <2>2 DEF ImportOpen, Begins, AllocateOnly
    <2>3. CASE ImportClose(w) \/ CopiesDone(w) \/ Count(w) \/ BumpModSeq(w)
      <3>1. /\ UNCHANGED given /\ wr'[w].pc # "insert"
            /\ \A v \in Writers \ {w} : wr'[v] = wr[v]
        BY <1>0, <2>3, AdvanceStep
      <3>2. OwnOp(wr'[w].op)
        BY <1>0, <1>2, OpsAsked DEF OwnInv
      <3> QED BY <1>0, <3>1, <3>2, OwnKept
    <2>4. CASE Insert(w)
      BY <1>0, <2>4, OwnInserted
    <2> QED BY <1>2, <2>1, <2>2, <2>3, <2>4 DEF Creates
  <1>3. ASSUME NEW w \in Writers, Copies(w) PROVE OwnInv'
    <2>1. OwnOp(wr[w].op) /\ InStep(wr[w])
      BY <1>0 DEF OwnInv, UidInv
    <2>2. CopyTarget(w)
      BY <1>3, <2>1 DEF Copies, CopySources, CopyReserve, CopyInsert, OwnOp, InStep
    <2> QED BY <2>2 DEF CopyTarget, Begins, AllocateOnly
  <1>4. ASSUME NEW w \in Writers, Changes(w) \/ Crash(w) PROVE OwnInv'
    <2>1. OwnOp(wr'[w].op)
      BY <1>0, <1>4, OpsAsked DEF OwnInv
    <2>2. UNCHANGED given
      BY <1>4 DEF Changes, MoveRead, MoveWrite, StoreRead, StoreWrite, ExpungeRead,
           ExpungeWrite, UpdateRead, UpdateWrite, DestroyRead, DestroyWrite, Reads, Crash
    <2>3. wr'[w].pc # "insert" /\ \A v \in Writers \ {w} : wr'[v] = wr[v]
      <3>0. wr \in [Writers -> Request] /\ Idle.pc = "idle"
        BY <1>0 DEF StoreOK, Idle
      <3>1. CASE Ends(w)
        BY <1>0, <3>0, <3>1, EndsTyped
      <3>2. ASSUME NEW op, NEW pc \in {"move", "store", "expunge", "update", "destroy"},
                   NEW rows, NEW target, Reads(w, op, pc, rows, target)
            PROVE  wr'[w].pc # "insert" /\ \A v \in Writers \ {w} : wr'[v] = wr[v]
        BY <3>0, <3>2 DEF Reads, Becomes, Idle
      <3>3. CASE wr[w].pc \in {"store", "expunge"} /\ UNCHANGED wr
        BY <3>3
      <3> QED
        BY <1>4, <3>1, <3>2, <3>3
        DEF Changes, MoveRead, MoveWrite, StoreRead, StoreWrite, ExpungeRead, ExpungeWrite,
            UpdateRead, UpdateWrite, DestroyRead, DestroyWrite, RowGone, NextRow, Crash
    <2> QED BY <1>0, <2>1, <2>2, <2>3, OwnKept
  <1> QED BY <1>1, <1>2, <1>3, <1>4 DEF Next

LEMMA OwnInit == Init => OwnInv
  <1> SUFFICES ASSUME Init PROVE OwnInv
    OBVIOUS
  <1>1. \A w \in Writers : wr[w].pc = "idle" /\ wr[w].op = "none"
    BY DEF Init, Idle
  <1>2. EachUidOnce /\ given = {}
    BY DEF Init, EachUidOnce
  <1> QED BY <1>1, <1>2, UidInvInit DEF OwnInv, OwnOp

(* The mix of clients does not change, and only an allocating one counts.  *)
LEMMA OwnedWhenAllocated ==
  Init /\ [][Next]_vars => [](AllocateOnly => OwnInv)
  <1>1. Init => (AllocateOnly => OwnInv)
    BY OwnInit
  <1>2. (AllocateOnly => OwnInv) /\ [Next]_vars => (AllocateOnly => OwnInv)'
    <2> SUFFICES ASSUME AllocateOnly => OwnInv, [Next]_vars, AllocateOnly'
                 PROVE  OwnInv'
      OBVIOUS
    <2>1. AllocateOnly
      BY DEF AllocateOnly, Next, vars
    <2> QED BY <2>1, OwnPreserved
  <1> QED BY <1>1, <1>2, PTL

(* When every writer takes its UID from the increment, a UID names one     *)
(* message of the mailbox for ever, through moves, copies by rules,        *)
(* destroyed messages and requests that die half way.                      *)
THEOREM UidsAreForEver == Spec => []UidsNeverReused
  <1>1. (AllocateOnly => OwnInv) => UidsNeverReused
    BY DEF OwnInv, UidsNeverReused
  <1> QED BY <1>1, OwnedWhenAllocated, PTL DEF Spec

(* The same writers are never refused by the unique index on folder and    *)
(* UID: a message accepted by SMTP, JMAP, APPEND or CreateItem is stored.  *)
THEOREM AcceptedIsStored == Spec => []InsertNotRefused
  <1>1. (AllocateOnly => OwnInv) => InsertNotRefused
    <2> SUFFICES ASSUME OwnInv, NEW w \in Writers, wr[w].pc = "insert",
                        NEW i \in DOMAIN msgs, msgs[i].uid = wr[w].uid
                 PROVE  FALSE
      BY DEF InsertNotRefused, ReservationsHold, Taken
    <2>1. <<i, msgs[i].uid>> \in given
      BY DEF OwnInv, UidInv, UidOfRow
    <2> QED BY <2>1 DEF OwnInv
  <1> QED BY <1>1, OwnedWhenAllocated, PTL DEF Spec

(* So a UID is all that clients and handlers take it for.                  *)
THEOREM UidsAreAlwaysSound == Spec => []UidsAreSound
  <1>1. UidsBelowNext /\ UidsNeverReused /\ InsertNotRefused => UidsAreSound
    BY DEF UidsAreSound
  <1> QED BY <1>1, UidNextIsAbove, UidsAreForEver, AcceptedIsStored, PTL


-----------------------------------------------------------------------------
(* totalCount.  What a folder holds and does not count yet is owed by a    *)
(* request that is on its way to count it; the one client that updates and *)
(* destroys counts from a row that nobody else takes away or moves.        *)

Owes(r, f) ==
  \/ r.pc = "count" /\ r.folder = f
  \/ r.op = "ruleCopy" /\ r.home = f
  \/ r.pc = "copies" /\ r.home = f

Balanced ==
  \A f \in Folders : total[f] + Cardinality(Owed(f)) = Cardinality(Live(f))

Counters == {"deliver", "jmapCreate", "createItem", "import", "ruleCopy"}

(* A delivery makes its copies before it counts its message; no copy goes  *)
(* to the folder the message itself is in.                                 *)
InTurn(r, asked) ==
  /\ r.op \in asked \cup {"none", "ruleCopy"}
  /\ r.op = "ruleCopy" => "deliver" \in asked
  /\ r.pc \in {"idle", "insert", "copies", "count", "next", "store", "update", "destroy"}
  /\ r.pc = "idle" => r.op = "none"
  /\ r.pc = "next" => r.op = "import"
  /\ r.pc \in {"insert", "count"} => r.op \in Counters
  /\ r.pc = "copies" => r.op \in {"deliver", "ruleCopy"}
  /\ r.pc \in {"update", "destroy"} => r.op \in {"jmapUpdate", "jmapDestroy"}
  /\ r.pc = "store" => r.op = "store"
  /\ r.op = "ruleCopy" /\ r.pc # "copies" => r.folder # r.home
  /\ r.op = "ruleCopy" \/ r.pc = "copies" => r.home \notin r.copies
  /\ r.op = "deliver" /\ r.pc = "insert" => r.folder = r.home /\ r.home \notin r.copies

Fresh(r, rows, held) ==
  r.pc \in {"update", "destroy"} =>
    \E i \in DOMAIN held :
      /\ DOMAIN rows = {i}
      /\ rows[i].folder = held[i].folder
      /\ r.pc = "destroy" => r.folder = held[i].folder

CountInv ==
  /\ UidInv
  /\ \A i \in DOMAIN msgs : msgs[i].live
  /\ Balanced
  /\ \A w \in Writers : InTurn(wr[w], mix[w]) /\ Fresh(wr[w], snap[w], msgs)

LEMMA OneElement ==
  ASSUME NEW S, IsFiniteSet(S), NEW T, NEW x, T \ {x} = S \ {x}
  PROVE  /\ IsFiniteSet(T) /\ Cardinality(S) \in Nat /\ Cardinality(T) \in Nat
         /\ Cardinality(T) + One(x \in S) = Cardinality(S) + One(x \in T)
  <1>1. /\ IsFiniteSet(S \ {x}) /\ Cardinality(S) \in Nat
        /\ Cardinality(S \ {x}) = IF x \in S THEN Cardinality(S) - 1 ELSE Cardinality(S)
    BY FS_RemoveElement, FS_CardinalityType
  <1>2. CASE x \in T
    <2>1. T = (S \ {x}) \cup {x}
      BY <1>2
    <2>2. IsFiniteSet(T) /\ Cardinality(T) = Cardinality(S \ {x}) + 1
      <3>1. x \notin S \ {x}
        OBVIOUS
      <3> QED BY <1>1, <2>1, <3>1, FS_AddElement
    <2> QED BY <1>1, <1>2, <2>2, FS_CardinalityType DEF One
  <1>3. CASE x \notin T
    <2>1. T = S \ {x}
      BY <1>3
    <2> QED BY <1>1, <1>3, <2>1, FS_CardinalityType DEF One
  <1> QED BY <1>2, <1>3

LEMMA SetsFinite ==
  ASSUME StoreOK, NEW f
  PROVE  IsFiniteSet(Owed(f)) /\ IsFiniteSet(Live(f))
  <1>1. IsFiniteSet(Owed(f))
    <2>1. Owed(f) \subseteq Writers
      BY DEF Owed
    <2> QED BY <2>1, MailStoreAssumption, FS_Subset
  <1>2. Live(f) \subseteq Ids
    BY DEF Live, StoreOK, IsRows
  <1> QED BY <1>1, <1>2, IdsFinite, FS_Subset

(* One request moves on and at most one message changes. *)
LEMMA BalanceKept ==
  ASSUME StoreOK, StoreOK', Balanced, NEW w \in Writers, NEW i,
         \A v \in Writers \ {w} : wr'[v] = wr[v],
         \A f \in Folders : Live(f)' \ {i} = Live(f) \ {i},
         \A f \in Folders :
           total'[f] + One(Owes(wr'[w], f)) + One(i \in Live(f))
             = total[f] + One(Owes(wr[w], f)) + One(i \in Live(f)')
  PROVE  Balanced'
  <1> SUFFICES ASSUME NEW f \in Folders
               PROVE  total'[f] + Cardinality(Owed(f)') = Cardinality(Live(f)')
    BY DEF Balanced
  <1>1. /\ w \in Owed(f) <=> Owes(wr[w], f)
        /\ w \in Owed(f)' <=> Owes(wr'[w], f)
        /\ Owed(f)' \ {w} = Owed(f) \ {w}
    BY DEF Owed, Owes
  <1>2. /\ Cardinality(Owed(f)) \in Nat /\ Cardinality(Owed(f)') \in Nat
        /\ Cardinality(Owed(f)') + One(w \in Owed(f)) = Cardinality(Owed(f)) + One(w \in Owed(f)')
    BY <1>1, SetsFinite, OneElement
  <1>3. /\ Cardinality(Live(f)) \in Nat /\ Cardinality(Live(f)') \in Nat
        /\ Cardinality(Live(f)') + One(i \in Live(f)) = Cardinality(Live(f)) + One(i \in Live(f)')
    BY SetsFinite, OneElement
  <1>4. /\ total[f] \in Int /\ total'[f] \in Int
        /\ total[f] + Cardinality(Owed(f)) = Cardinality(Live(f))
        /\ total'[f] + One(Owes(wr'[w], f)) + One(i \in Live(f))
             = total[f] + One(Owes(wr[w], f)) + One(i \in Live(f)')
    BY DEF StoreOK, Balanced
  <1>5. /\ One(w \in Owed(f)) = One(Owes(wr[w], f)) /\ One(w \in Owed(f)') = One(Owes(wr'[w], f))
    BY <1>1 DEF One
  <1>6. \A b \in {One(Owes(wr[w], f)), One(Owes(wr'[w], f)), One(i \in Live(f)), One(i \in Live(f)')} :
          b \in Int
    BY DEF One
  <1> DEFINE a == One(Owes(wr[w], f))
             b == One(Owes(wr'[w], f))
             c == One(i \in Live(f))
             d == One(i \in Live(f)')
             m == Cardinality(Owed(f))
             n == Cardinality(Owed(f)')
             p == Cardinality(Live(f))
             q == Cardinality(Live(f)')
             s == total[f]
             t == total'[f]
  <1>7. /\ a \in Int /\ b \in Int /\ c \in Int /\ d \in Int
        /\ m \in Int /\ n \in Int /\ p \in Int /\ q \in Int /\ s \in Int /\ t \in Int
        /\ n + a = m + b /\ q + c = p + d /\ s + m = p /\ t + b + c = s + a + d
    BY <1>2, <1>3, <1>4, <1>5, <1>6
  <1> HIDE DEF a, b, c, d, m, n, p, q, s, t
  <1>8. t + n = q
    BY <1>7
  <1> QED BY <1>8 DEF t, n, q

(* No message changes its folder, none goes: what is counted is owed by w. *)
LEMMA BalancePaid ==
  ASSUME StoreOK, StoreOK', Balanced, NEW w \in Writers, UNCHANGED msgs,
         \A v \in Writers \ {w} : wr'[v] = wr[v],
         \A f \in Folders : total'[f] + One(Owes(wr'[w], f)) = total[f] + One(Owes(wr[w], f))
  PROVE  Balanced'
  <1>1. \A f \in Folders : Live(f)' = Live(f)
    BY DEF Live
  <1>2. ASSUME NEW f \in Folders
        PROVE  total'[f] + One(Owes(wr'[w], f)) + One(w \in Live(f))
                 = total[f] + One(Owes(wr[w], f)) + One(w \in Live(f)')
    BY <1>1
  <1>3. \A f \in Folders : Live(f)' \ {w} = Live(f) \ {w}
    BY <1>1
  <1> QED BY <1>2, <1>3, BalanceKept

(* A step of w that leaves the messages where they are. *)
LEMMA CountKept ==
  ASSUME CountInv, UidInv', NEW w \in Writers, UNCHANGED mix,
         \A v \in Writers \ {w} : wr'[v] = wr[v] /\ snap'[v] = snap[v],
         InTurn(wr'[w], mix[w]), Fresh(wr'[w], snap'[w], msgs'), Balanced',
         \A i \in DOMAIN msgs' : msgs'[i].live,
         \A i \in DOMAIN msgs : i \in DOMAIN msgs' /\ msgs'[i].folder = msgs[i].folder
  PROVE  CountInv'
  <1> SUFFICES ASSUME NEW v \in Writers
               PROVE  InTurn(wr'[v], mix[v]) /\ Fresh(wr'[v], snap'[v], msgs')
    BY DEF CountInv
  <1>1. CASE v = w
    BY <1>1
  <1>2. CASE v # w
    <2>1. wr'[v] = wr[v] /\ snap'[v] = snap[v] /\ InTurn(wr[v], mix[v]) /\ Fresh(wr[v], snap[v], msgs)
      BY <1>2 DEF CountInv
    <2>2. Fresh(wr'[v], snap'[v], msgs')
      BY <2>1 DEF Fresh
    <2> QED BY <2>1, <2>2
  <1> QED BY <1>1, <1>2

(* A request that neither reads nor counts and owes the same as before. *)
LEMMA CountQuiet ==
  ASSUME CountInv, UidInv', NEW w \in Writers, UNCHANGED <<mix, msgs, total, snap>>,
         \A v \in Writers \ {w} : wr'[v] = wr[v],
         InTurn(wr'[w], mix[w]), wr'[w].pc \notin {"update", "destroy"},
         \A f \in Folders : Owes(wr'[w], f) <=> Owes(wr[w], f)
  PROVE  CountInv'
  <1>1. StoreOK /\ StoreOK' /\ Balanced
    BY DEF CountInv, UidInv
  <1>2. \A f \in Folders : One(Owes(wr'[w], f)) = One(Owes(wr[w], f))
    BY DEF One
  <1>3. Balanced'
    BY <1>1, <1>2, BalancePaid
  <1>4. Fresh(wr'[w], snap'[w], msgs')
    BY DEF Fresh
  <1>5. \A i \in DOMAIN msgs' : msgs'[i].live
    BY DEF CountInv
  <1> QED BY <1>3, <1>4, <1>5, CountKept

(* The inserted message is owed until its folder is updated. *)
LEMMA CountInserts ==
  ASSUME CountInv, UidInv', UNCHANGED mix, NEW w \in Writers, Insert(w)
  PROVE  CountInv'
  <1>1. /\ StoreOK /\ StoreOK' /\ Balanced
        /\ wr \in [Writers -> Request] /\ wr[w] \in Request
        /\ InTurn(wr[w], mix[w])
    BY DEF CountInv, UidInv, StoreOK
  <1>2. /\ wr[w].pc = "insert" /\ wr[w].op \in Counters
        /\ UNCHANGED <<total, snap>>
    BY <1>1 DEF Insert, InTurn
  <1>3. CASE Becomes(w, AfterRefusal(w)) /\ UNCHANGED <<msgs, given>>
    <2>1. /\ \A v \in Writers \ {w} : wr'[v] = wr[v]
          /\ wr'[w] = AfterRefusal(w)
      BY <1>1, <1>3 DEF Becomes
    <2>2. CASE wr[w].op = "ruleCopy"
      <3>1. /\ wr'[w].pc = "copies" /\ wr'[w].op = "ruleCopy" /\ wr'[w].home = wr[w].home
            /\ wr'[w].copies = wr[w].copies
        BY <1>1, <2>1, <2>2 DEF AfterRefusal, Request
      <3>2. InTurn(wr'[w], mix[w])
        BY <1>1, <2>2, <3>1 DEF InTurn
      <3> QED BY <1>2, <1>3, <2>1, <2>2, <3>1, <3>2, CountQuiet DEF Owes
    <2>3. CASE wr[w].op = "import"
      <3>1. wr'[w].pc = "next" /\ wr'[w].op = "import"
        BY <1>1, <2>1, <2>3 DEF AfterRefusal, Request
      <3>2. InTurn(wr'[w], mix[w])
        BY <1>1, <2>3, <3>1 DEF InTurn
      <3> QED BY <1>2, <1>3, <2>1, <2>3, <3>1, <3>2, CountQuiet DEF Owes
    <2>4. CASE wr[w].op \notin {"ruleCopy", "import"}
      <3>1. wr'[w].pc = "idle" /\ wr'[w].op = "none"
        BY <1>1, <2>1, <2>4 DEF AfterRefusal, Idle
      <3>2. InTurn(wr'[w], mix[w])
        BY <3>1 DEF InTurn
      <3> QED BY <1>2, <1>3, <2>1, <2>4, <3>1, <3>2, CountQuiet DEF Owes
    <2> QED BY <2>2, <2>3, <2>4
  <1>4. ASSUME NEW i \in NewIds, NEW m, NEW c, Becomes(w, AfterInsert(w)),
               msgs' = Added(i, [folder |-> wr[w].folder, uid |-> wr[w].uid,
                                 modSeq |-> m, flags |-> wr[w].flags,
                                 live |-> TRUE, created |-> c])
        PROVE  CountInv'
    <2> DEFINE row == [folder |-> wr[w].folder, uid |-> wr[w].uid, modSeq |-> m,
                       flags |-> wr[w].flags, live |-> TRUE, created |-> c]
    <2>1. /\ \A v \in Writers \ {w} : wr'[v] = wr[v]
          /\ wr'[w] = AfterInsert(w)
      BY <1>1, <1>4 DEF Becomes
    <2>2. i \notin DOMAIN msgs
      <3>1. \A j \in DOMAIN msgs : j \in {p[1] : p \in given}
        <4> SUFFICES ASSUME NEW j \in DOMAIN msgs
                     PROVE  j \in {p[1] : p \in given}
          OBVIOUS
        <4>1. <<j, msgs[j].uid>> \in given /\ <<j, msgs[j].uid>>[1] = j
          BY DEF CountInv, UidInv, UidOfRow
        <4> QED BY <4>1
      <3> QED BY <1>4, <3>1 DEF NewIds
    <2>3. msgs' = Added(i, row)
      BY <1>4
    <2>4. row.folder = wr[w].folder /\ row.live
      OBVIOUS
    <2> HIDE DEF row
    <2>5. /\ DOMAIN msgs' = DOMAIN msgs \cup {i} /\ msgs'[i] = row
          /\ \A j \in DOMAIN msgs : msgs'[j] = msgs[j]
      BY <2>2, <2>3 DEF Added
    <2>6. \A j \in DOMAIN msgs' : msgs'[j].live
      BY <2>4, <2>5 DEF CountInv
    <2>7. \A f \in Folders : Live(f)' \ {i} = Live(f) \ {i}
      BY <2>2, <2>4, <2>5 DEF Live
    <2>8. /\ InTurn(wr'[w], mix[w])
          /\ \A f \in Folders : One(Owes(wr'[w], f)) = One(Owes(wr[w], f)) + One(wr[w].folder = f)
          /\ wr'[w].pc \notin {"update", "destroy"}
      <3>1. CASE wr[w].op = "deliver"
        <4>1. /\ wr'[w].pc = "copies" /\ wr'[w].op = "deliver" /\ wr'[w].home = wr[w].home
              /\ wr'[w].copies = wr[w].copies
          BY <1>1, <2>1, <3>1 DEF AfterInsert, Request
        <4>2. wr[w].home = wr[w].folder /\ wr[w].home \notin wr[w].copies
          BY <1>1, <1>2, <3>1 DEF InTurn
        <4>3. InTurn(wr'[w], mix[w])
          BY <1>1, <3>1, <4>1, <4>2 DEF InTurn
        <4>4. \A f \in Folders : /\ Owes(wr'[w], f) <=> wr[w].folder = f
                                /\ ~Owes(wr[w], f)
          BY <1>2, <3>1, <4>1, <4>2 DEF Owes
        <4> QED BY <4>1, <4>3, <4>4 DEF One
      <3>2. CASE wr[w].op = "ruleCopy"
        <4>1. /\ wr'[w].pc = "count" /\ wr'[w].op = "ruleCopy" /\ wr'[w].home = wr[w].home
              /\ wr'[w].copies = wr[w].copies /\ wr'[w].folder = wr[w].folder
          BY <1>1, <2>1, <3>2 DEF AfterInsert, Request
        <4>2. wr[w].home # wr[w].folder /\ wr[w].home \notin wr[w].copies
          BY <1>1, <1>2, <3>2 DEF InTurn
        <4>3. InTurn(wr'[w], mix[w])
          BY <1>1, <3>2, <4>1, <4>2 DEF InTurn, Counters
        <4>4. \A f \in Folders :
                /\ Owes(wr'[w], f) <=> wr[w].folder = f \/ wr[w].home = f
                /\ Owes(wr[w], f) <=> wr[w].home = f
          BY <1>2, <3>2, <4>1 DEF Owes
        <4> QED BY <4>1, <4>2, <4>3, <4>4 DEF One
      <3>3. CASE wr[w].op \notin {"deliver", "ruleCopy"}
        <4>1. wr'[w].pc = "count" /\ wr'[w].op = wr[w].op /\ wr'[w].folder = wr[w].folder
          BY <1>1, <1>2, <2>1, <3>3 DEF AfterInsert, Request, Counters
        <4>2. InTurn(wr'[w], mix[w])
          BY <1>1, <1>2, <3>3, <4>1 DEF InTurn
        <4>3. \A f \in Folders : /\ Owes(wr'[w], f) <=> wr[w].folder = f
                                /\ ~Owes(wr[w], f)
          BY <1>2, <3>3, <4>1 DEF Owes
        <4> QED BY <4>1, <4>2, <4>3 DEF One
      <3> QED BY <3>1, <3>2, <3>3
    <2>9. Balanced'
      <3>1. ASSUME NEW f \in Folders
            PROVE  total'[f] + One(Owes(wr'[w], f)) + One(i \in Live(f))
                     = total[f] + One(Owes(wr[w], f)) + One(i \in Live(f)')
        <4>1. total'[f] = total[f] /\ total[f] \in Int
          BY <1>1, <1>2 DEF StoreOK
        <4>2. /\ One(Owes(wr'[w], f)) = One(Owes(wr[w], f)) + One(wr[w].folder = f)
              /\ One(i \in Live(f)) = 0 /\ One(i \in Live(f)') = One(wr[w].folder = f)
          <5>1. i \notin Live(f)
            BY <2>2 DEF Live
          <5>2. One(i \in Live(f)) = 0
            BY <5>1 DEF One
          <5>3. i \in Live(f)' <=> wr[w].folder = f
            BY <2>4, <2>5 DEF Live
          <5>4. One(i \in Live(f)') = One(wr[w].folder = f)
            BY <5>3 DEF One
          <5> QED BY <2>8, <5>2, <5>4
        <4>3. One(Owes(wr[w], f)) \in Int /\ One(wr[w].folder = f) \in Int
          BY DEF One
        <4> QED BY <4>1, <4>2, <4>3
      <3> QED BY <1>1, <2>1, <2>7, <3>1, BalanceKept
    <2>10. Fresh(wr'[w], snap'[w], msgs')
      BY <2>8 DEF Fresh
    <2> QED BY <1>2, <2>1, <2>5, <2>6, <2>8, <2>9, <2>10, CountKept
  <1> QED BY <1>3, <1>4 DEF Insert

(* What was owed is counted. *)
LEMMA CountCounts ==
  ASSUME CountInv, UidInv', UNCHANGED mix, NEW w \in Writers, Count(w)
  PROVE  CountInv'
  <1>1. /\ StoreOK /\ StoreOK' /\ Balanced
        /\ wr \in [Writers -> Request] /\ wr[w] \in Request
        /\ InTurn(wr[w], mix[w]) /\ total \in [Folders -> Int]
    BY DEF CountInv, UidInv, StoreOK
  <1>2. /\ wr[w].pc = "count" /\ wr[w].op \in Counters
        /\ UNCHANGED <<msgs, snap>>
        /\ \A v \in Writers \ {w} : wr'[v] = wr[v]
        /\ wr'[w] = AfterCount(w)
    BY <1>1 DEF Count, Becomes, InTurn
  <1>3. \A f \in Folders : total'[f] = total[f] + One(wr[w].folder = f)
    <2>1. wr[w].folder \in Folders
      BY <1>1 DEF Request
    <2>2. total' = [total EXCEPT ![wr[w].folder] = @ + 1]
      BY DEF Count, CountedIn
    <2> QED BY <1>1, <2>1, <2>2 DEF One
  <1>4. /\ InTurn(wr'[w], mix[w])
        /\ \A f \in Folders : One(Owes(wr[w], f)) = One(Owes(wr'[w], f)) + One(wr[w].folder = f)
        /\ wr'[w].pc \notin {"update", "destroy"}
    <2>1. CASE wr[w].op = "ruleCopy"
      <3>1. /\ wr'[w].pc = "copies" /\ wr'[w].op = "ruleCopy" /\ wr'[w].home = wr[w].home
            /\ wr'[w].copies = wr[w].copies
        BY <1>1, <1>2, <2>1 DEF AfterCount, Request
      <3>2. wr[w].home # wr[w].folder /\ wr[w].home \notin wr[w].copies
        BY <1>1, <1>2, <2>1 DEF InTurn
      <3>3. InTurn(wr'[w], mix[w])
        BY <1>1, <2>1, <3>1, <3>2 DEF InTurn
      <3>4. \A f \in Folders :
              /\ Owes(wr[w], f) <=> wr[w].folder = f \/ wr[w].home = f
              /\ Owes(wr'[w], f) <=> wr[w].home = f
        BY <1>2, <2>1, <3>1 DEF Owes
      <3> QED BY <3>1, <3>2, <3>3, <3>4 DEF One
    <2>2. CASE wr[w].op = "import"
      <3>1. wr'[w].pc = "next" /\ wr'[w].op = "import"
        BY <1>1, <1>2, <2>2 DEF AfterCount, Request
      <3>2. InTurn(wr'[w], mix[w])
        BY <1>1, <2>2, <3>1 DEF InTurn
      <3>3. \A f \in Folders : /\ Owes(wr[w], f) <=> wr[w].folder = f
                              /\ ~Owes(wr'[w], f)
        BY <1>2, <2>2, <3>1 DEF Owes
      <3> QED BY <3>1, <3>2, <3>3 DEF One
    <2>3. CASE wr[w].op \notin {"ruleCopy", "import"}
      <3>1. wr'[w].pc = "idle" /\ wr'[w].op = "none"
        BY <1>2, <2>3 DEF AfterCount, Idle
      <3>2. InTurn(wr'[w], mix[w])
        BY <3>1 DEF InTurn
      <3>3. \A f \in Folders : /\ Owes(wr[w], f) <=> wr[w].folder = f
                              /\ ~Owes(wr'[w], f)
        BY <1>2, <2>3, <3>1 DEF Owes
      <3> QED BY <3>1, <3>2, <3>3 DEF One
    <2> QED BY <2>1, <2>2, <2>3
  <1>5. Balanced'
    <2>1. ASSUME NEW f \in Folders
          PROVE  total'[f] + One(Owes(wr'[w], f)) = total[f] + One(Owes(wr[w], f))
      <3>1. /\ total[f] \in Int /\ One(wr[w].folder = f) \in Int
            /\ One(Owes(wr[w], f)) \in Int /\ One(Owes(wr'[w], f)) \in Int
        BY <1>1 DEF One
      <3> QED BY <1>3, <1>4, <3>1
    <2> QED BY <1>1, <1>2, <2>1, BalancePaid
  <1>6. /\ Fresh(wr'[w], snap'[w], msgs')
        /\ \A i \in DOMAIN msgs' : msgs'[i].live
        /\ \A i \in DOMAIN msgs : i \in DOMAIN msgs' /\ msgs'[i].folder = msgs[i].folder
    BY <1>2, <1>4 DEF Fresh, CountInv
  <1> QED BY <1>2, <1>4, <1>5, <1>6, CountKept

LEMMA CountCreates ==
  ASSUME CountingOnly, CountInv, UidInv', UNCHANGED mix, NEW w \in Writers, Creates(w)
  PROVE  CountInv'
  <1>1. /\ StoreOK /\ StoreOK' /\ Balanced
        /\ wr \in [Writers -> Request] /\ wr[w] \in Request
        /\ InTurn(wr[w], mix[w]) /\ Fresh(wr[w], snap[w], msgs)
    BY DEF CountInv, UidInv, StoreOK
  <1>3. mix[w] \subseteq {"deliver", "jmapCreate", "createItem", "import", "store",
                          "jmapUpdate", "jmapDestroy"}
    BY DEF CountingOnly
  <1>4. CASE Allocate(w)
    <2>1. PICK op \in {"deliver", "jmapCreate"}, f \in Folders, fl \in SUBSET Flags,
               cp \in SUBSET Folders :
            /\ Begins(w, op)
            /\ op = "deliver" => f \notin cp /\ fl \subseteq RuleFlags
            /\ op = "jmapCreate" => cp = {} /\ "Deleted" \notin fl
            /\ uidNext' = uidNext + 1
            /\ highestModSeq' = highestModSeq + 1
            /\ Becomes(w, [Idle EXCEPT !.pc = "insert", !.op = op, !.folder = f,
                               !.home = f, !.copies = cp, !.uid = FirstFree,
                               !.modSeq = highestModSeq + 1, !.flags = fl,
                               !.since = clock])
            /\ UNCHANGED <<msgs, total, snap, clock, given, crashes>>
      BY <1>4, Zenon DEF Allocate
    <2>2. /\ wr'[w].pc = "insert" /\ wr'[w].op = op /\ wr'[w].folder = f /\ wr'[w].home = f
          /\ wr'[w].copies = cp /\ \A v \in Writers \ {w} : wr'[v] = wr[v]
      BY <1>1, <2>1 DEF Becomes, Idle
    <2>3. wr[w].pc = "idle" /\ wr[w].op = "none" /\ op \in mix[w]
      BY <1>1, <2>1 DEF Begins, InTurn
    <2>4. InTurn(wr'[w], mix[w])
      BY <2>1, <2>2, <2>3 DEF InTurn, Counters
    <2> QED BY <2>1, <2>2, <2>3, <2>4, CountQuiet DEF Owes
  <1>5. CASE AllocateUid(w)
    <2>1. UNCHANGED <<msgs, total, snap>>
      BY <1>5 DEF AllocateUid
    <2>2. ASSUME NEW op \in {"append", "createItem"}, NEW f, NEW fl, Begins(w, op),
                 Becomes(w, [Idle EXCEPT !.pc = "insert", !.op = op, !.folder = f,
                                     !.uid = FirstFree,
                                     !.modSeq = highestModSeq + 1,
                                     !.flags = fl, !.since = clock])
          PROVE  CountInv'
      <3>1. wr'[w].pc = "insert" /\ wr'[w].op = op /\ \A v \in Writers \ {w} : wr'[v] = wr[v]
        BY <1>1, <2>2 DEF Becomes, Idle
      <3>2. wr[w].pc = "idle" /\ wr[w].op = "none" /\ op = "createItem" /\ op \in mix[w]
        BY <1>1, <1>3, <2>2 DEF Begins, InTurn
      <3>3. InTurn(wr'[w], mix[w])
        BY <3>1, <3>2 DEF InTurn, Counters
      <3> QED BY <2>1, <2>2, <3>1, <3>2, <3>3, CountQuiet DEF Owes
    <2>3. CASE wr[w].pc = "next" /\ Becomes(w, [wr[w] EXCEPT !.pc = "insert", !.since = clock])
      <3>1. /\ wr'[w].pc = "insert" /\ wr'[w].op = wr[w].op /\ wr[w].op = "import"
            /\ \A v \in Writers \ {w} : wr'[v] = wr[v]
        BY <1>1, <2>3 DEF Becomes, Request, InTurn
      <3>2. InTurn(wr'[w], mix[w])
        BY <1>1, <3>1 DEF InTurn, Counters
      <3> QED BY <2>1, <2>3, <3>1, <3>2, CountQuiet DEF Owes
    <2> QED BY <1>5, <2>2, <2>3 DEF AllocateUid
  <1>6. CASE ImportOpen(w)
    <2>1. PICK f \in Folders :
            /\ Begins(w, "import")
            /\ Becomes(w, [Idle EXCEPT !.pc = "next", !.op = "import", !.folder = f,
                                       !.uid = uidNext])
            /\ UNCHANGED <<msgs, total, snap>>
      BY <1>6 DEF ImportOpen
    <2>2. wr'[w].pc = "next" /\ wr'[w].op = "import" /\ \A v \in Writers \ {w} : wr'[v] = wr[v]
      BY <1>1, <2>1 DEF Becomes, Idle
    <2>3. wr[w].pc = "idle" /\ wr[w].op = "none" /\ "import" \in mix[w]
      BY <1>1, <2>1 DEF Begins, InTurn
    <2>4. InTurn(wr'[w], mix[w])
      BY <2>2, <2>3 DEF InTurn
    <2> QED BY <2>1, <2>2, <2>3, <2>4, CountQuiet DEF Owes
  <1>7. CASE ImportClose(w)
    <2>1. wr[w].pc = "next" /\ Becomes(w, Idle) /\ UNCHANGED <<msgs, total, snap>>
      BY <1>7 DEF ImportClose
    <2>2. /\ wr'[w].pc = "idle" /\ wr'[w].op = "none" /\ wr[w].op = "import"
          /\ \A v \in Writers \ {w} : wr'[v] = wr[v]
      BY <1>1, <2>1 DEF Becomes, Idle, InTurn
    <2>3. InTurn(wr'[w], mix[w])
      BY <2>2 DEF InTurn
    <2> QED BY <2>1, <2>2, <2>3, CountQuiet DEF Owes
  <1>8. CASE RuleCopy(w)
    <2>1. PICK f \in wr[w].copies :
            /\ wr[w].pc = "copies" /\ UNCHANGED <<msgs, total, snap>>
            /\ Becomes(w, [wr[w] EXCEPT !.pc = "insert", !.op = "ruleCopy", !.folder = f,
                                !.copies = @ \ {f}, !.uid = FirstFree,
                                !.modSeq = highestModSeq + 1, !.since = clock])
      BY <1>8 DEF RuleCopy
    <2>2. /\ wr'[w].pc = "insert" /\ wr'[w].op = "ruleCopy" /\ wr'[w].folder = f
          /\ wr'[w].home = wr[w].home /\ wr'[w].copies = wr[w].copies \ {f}
          /\ \A v \in Writers \ {w} : wr'[v] = wr[v]
      BY <1>1, <2>1 DEF Becomes, Request
    <2>3. wr[w].op \in {"deliver", "ruleCopy"} /\ wr[w].home \notin wr[w].copies /\ f # wr[w].home
      BY <1>1, <2>1 DEF InTurn
    <2>4. InTurn(wr'[w], mix[w])
      BY <1>1, <2>1, <2>2, <2>3 DEF InTurn, Counters
    <2> QED BY <2>1, <2>2, <2>3, <2>4, CountQuiet DEF Owes
  <1>9. CASE CopiesDone(w)
    <2>1. /\ wr[w].pc = "copies" /\ UNCHANGED <<msgs, total, snap>>
          /\ Becomes(w, [wr[w] EXCEPT !.pc = "count", !.op = "deliver", !.folder = wr[w].home])
      BY <1>9 DEF CopiesDone
    <2>2. /\ wr'[w].pc = "count" /\ wr'[w].op = "deliver" /\ wr'[w].folder = wr[w].home
          /\ wr'[w].home = wr[w].home
          /\ \A v \in Writers \ {w} : wr'[v] = wr[v]
      BY <1>1, <2>1 DEF Becomes, Request
    <2>3. wr[w].op \in {"deliver", "ruleCopy"} /\ wr[w].home \notin wr[w].copies
      BY <1>1, <2>1 DEF InTurn
    <2>4. InTurn(wr'[w], mix[w])
      BY <1>1, <2>2, <2>3 DEF InTurn, Counters
    <2> QED BY <2>1, <2>2, <2>3, <2>4, CountQuiet DEF Owes
  <1>10. CASE Count(w)
    BY <1>10, CountCounts
  <1>11. CASE Insert(w)
    BY <1>11, CountInserts
  <1>12. CASE BumpModSeq(w)
    BY <1>1, <1>12 DEF BumpModSeq, InTurn
  <1> QED BY <1>4, <1>5, <1>6, <1>7, <1>8, <1>9, <1>10, <1>11, <1>12 DEF Creates

(* A step that counts nothing and moves nothing. *)
LEMMA CountStays ==
  ASSUME CountInv, UidInv', UNCHANGED <<mix, total>>, NEW w \in Writers,
         \A v \in Writers \ {w} : wr'[v] = wr[v] /\ snap'[v] = snap[v],
         InTurn(wr'[w], mix[w]), Fresh(wr'[w], snap'[w], msgs'),
         \A f \in Folders : ~Owes(wr[w], f) /\ ~Owes(wr'[w], f),
         DOMAIN msgs' = DOMAIN msgs,
         \A i \in DOMAIN msgs : msgs'[i].folder = msgs[i].folder /\ msgs'[i].live
  PROVE  CountInv'
  <1>1. StoreOK /\ StoreOK' /\ Balanced
    BY DEF CountInv, UidInv
  <1>2. \A f \in Folders : Live(f)' = Live(f)
    BY DEF Live, CountInv
  <1>3. ASSUME NEW f \in Folders
        PROVE  total'[f] + One(Owes(wr'[w], f)) + One(w \in Live(f))
                 = total[f] + One(Owes(wr[w], f)) + One(w \in Live(f)')
    <2>1. One(Owes(wr'[w], f)) = One(Owes(wr[w], f))
      BY DEF One
    <2> QED BY <1>2, <2>1
  <1>4. \A f \in Folders : Live(f)' \ {w} = Live(f) \ {w}
    BY <1>2
  <1>5. Balanced'
    BY <1>1, <1>3, <1>4, BalanceKept
  <1> QED BY <1>5, CountKept

LEMMA CountReads ==
  ASSUME CountInv, UidInv', UNCHANGED mix, NEW w \in Writers,
         NEW op, NEW pc, NEW rows, NEW target, Reads(w, op, pc, rows, target),
         \/ op = "store" /\ pc = "store"
         \/ op = "jmapUpdate" /\ pc = "update"
         \/ op = "jmapDestroy" /\ pc = "destroy",
         pc # "store" =>
           \E i \in DOMAIN msgs : /\ DOMAIN rows = {i}
                                  /\ rows[i].folder = msgs[i].folder
                                  /\ pc = "destroy" => target = msgs[i].folder
  PROVE  CountInv'
  <1>1. /\ wr \in [Writers -> Request] /\ DOMAIN snap = Writers
        /\ InTurn(wr[w], mix[w])
    BY DEF CountInv, UidInv, StoreOK
  <1>2. /\ wr[w].pc = "idle" /\ op \in mix[w] /\ UNCHANGED <<total, msgs>>
        /\ wr'[w].pc = pc /\ wr'[w].op = op /\ wr'[w].folder = target
        /\ \A v \in Writers \ {w} : wr'[v] = wr[v]
    BY <1>1 DEF Reads, Begins, Becomes, Idle
  <1>3. snap'[w] = rows /\ \A v \in Writers \ {w} : snap'[v] = snap[v]
    BY <1>1 DEF Reads, Holds
  <1>4. InTurn(wr'[w], mix[w])
    BY <1>2 DEF InTurn
  <1>5. Fresh(wr'[w], snap'[w], msgs')
    BY <1>2, <1>3 DEF Fresh
  <1>6. \A f \in Folders : ~Owes(wr[w], f) /\ ~Owes(wr'[w], f)
    BY <1>1, <1>2 DEF Owes, InTurn
  <1>7. \A i \in DOMAIN msgs : msgs'[i].folder = msgs[i].folder /\ msgs'[i].live
    BY <1>2 DEF CountInv
  <1> QED BY <1>2, <1>3, <1>4, <1>5, <1>6, <1>7, CountStays

LEMMA CountStores ==
  ASSUME CountInv, UidInv', UNCHANGED mix, NEW w \in Writers, StoreWrite(w)
  PROVE  CountInv'
  <1>0. StoreOK
    BY DEF CountInv, UidInv
  <1>1. /\ wr[w].pc = "store" /\ InTurn(wr[w], mix[w]) /\ UNCHANGED total
        /\ wr[w].op = "store" /\ DOMAIN snap = Writers
    BY <1>0 DEF StoreWrite, InTurn, CountInv, StoreOK
  <1>2. PICK i \in DOMAIN snap[w] :
          \/ RowGone(w, i)
          \/ /\ i \in DOMAIN msgs
             /\ msgs' = Added(i, [msgs[i] EXCEPT !.flags = snap[w][i].flags,
                                                 !.modSeq = @ + 1])
             /\ NextRow(w, DOMAIN snap[w] \ {i})
    BY DEF StoreWrite
  <1>3. Ends(w) \/ (UNCHANGED wr /\ \E rows : Holds(w, rows))
    BY <1>2 DEF RowGone, NextRow
  <1>4. /\ \A v \in Writers \ {w} : wr'[v] = wr[v] /\ snap'[v] = snap[v]
        /\ InTurn(wr'[w], mix[w]) /\ wr'[w].pc \notin {"update", "destroy"}
        /\ \A f \in Folders : ~Owes(wr'[w], f)
    <2>1. CASE Ends(w)
      <3>1. wr'[w].pc = "idle" /\ wr'[w].op = "none"
        BY <1>0, <2>1, EndsTyped DEF Idle
      <3>2. \A v \in Writers \ {w} : wr'[v] = wr[v] /\ snap'[v] = snap[v]
        BY <1>0, <2>1, EndsTyped
      <3> QED BY <3>1, <3>2 DEF InTurn, Owes
    <2>2. ASSUME NEW rows, Holds(w, rows), UNCHANGED wr
          PROVE  /\ \A v \in Writers \ {w} : wr'[v] = wr[v] /\ snap'[v] = snap[v]
                 /\ wr'[w] = wr[w]
      BY <1>1, <2>2 DEF Holds
    <2>3. CASE UNCHANGED wr /\ \E rows : Holds(w, rows)
      <3>1. \A v \in Writers \ {w} : wr'[v] = wr[v] /\ snap'[v] = snap[v]
        BY <2>2, <2>3
      <3> QED BY <1>1, <2>3, <3>1 DEF Owes
    <2> QED BY <1>3, <2>1, <2>3
  <1>5. /\ DOMAIN msgs' = DOMAIN msgs
        /\ \A j \in DOMAIN msgs : msgs'[j].folder = msgs[j].folder /\ msgs'[j].live
    <2>1. CASE UNCHANGED msgs
      BY <2>1 DEF CountInv
    <2>2. CASE /\ i \in DOMAIN msgs
               /\ msgs' = Added(i, [msgs[i] EXCEPT !.flags = snap[w][i].flags,
                                                   !.modSeq = @ + 1])
      <3> DEFINE row == [msgs[i] EXCEPT !.flags = snap[w][i].flags, !.modSeq = @ + 1]
      <3>1. msgs[i] \in Row
        BY <1>0, <2>2, RowOf DEF StoreOK
      <3>2. row.folder = msgs[i].folder /\ row.live = msgs[i].live
        BY <3>1 DEF Row
      <3>3. msgs' = Added(i, row)
        BY <2>2
      <3> HIDE DEF row
      <3> QED BY <2>2, <3>2, <3>3 DEF Added, CountInv
    <2> QED BY <1>2, <2>1, <2>2 DEF RowGone
  <1>6. Fresh(wr'[w], snap'[w], msgs') /\ \A f \in Folders : ~Owes(wr[w], f)
    BY <1>1, <1>4 DEF Fresh, Owes
  <1> QED BY <1>1, <1>4, <1>5, <1>6, CountStays

(* Only one client updates and destroys, so no other holds a row it read. *)
LEMMA CountWrites ==
  ASSUME CountingOnly, CountInv, UidInv', UNCHANGED mix, NEW w \in Writers,
         wr[w].pc \in {"update", "destroy"}, Ends(w), Balanced',
         \A i \in DOMAIN msgs' : msgs'[i].live
  PROVE  CountInv'
  <1>0. StoreOK /\ InTurn(wr[w], mix[w])
    BY DEF CountInv, UidInv
  <1>1. /\ wr'[w].pc = "idle" /\ wr'[w].op = "none"
        /\ \A v \in Writers \ {w} : wr'[v] = wr[v] /\ snap'[v] = snap[v]
    <2>1. wr'[w] = Idle /\ \A v \in Writers \ {w} : wr'[v] = wr[v] /\ snap'[v] = snap[v]
      BY <1>0, EndsTyped
    <2> QED BY <2>1 DEF Idle
  <1>2. mix[w] \cap {"jmapUpdate", "jmapDestroy"} # {}
    BY <1>0 DEF InTurn
  <1> SUFFICES ASSUME NEW v \in Writers
               PROVE  InTurn(wr'[v], mix[v]) /\ Fresh(wr'[v], snap'[v], msgs')
    BY DEF CountInv
  <1>3. CASE v = w
    BY <1>1, <1>3 DEF InTurn, Fresh
  <1>4. CASE v # w
    <2>1. wr'[v] = wr[v] /\ InTurn(wr[v], mix[v])
      BY <1>1, <1>4 DEF CountInv
    <2>2. mix[v] \cap {"jmapUpdate", "jmapDestroy"} = {}
      BY <1>2, <1>4 DEF CountingOnly
    <2>3. wr[v].pc \notin {"update", "destroy"}
      BY <2>1, <2>2 DEF InTurn
    <2> QED BY <2>1, <2>3 DEF Fresh
  <1> QED BY <1>3, <1>4

LEMMA CountUpdates ==
  ASSUME CountingOnly, CountInv, UidInv', UNCHANGED mix, NEW w \in Writers, UpdateWrite(w)
  PROVE  CountInv'
  <1>1. /\ StoreOK /\ StoreOK' /\ Balanced /\ Ends(w)
        /\ wr[w].pc = "update" /\ InTurn(wr[w], mix[w]) /\ Fresh(wr[w], snap[w], msgs)
    BY DEF CountInv, UidInv, UpdateWrite
  <1>2. /\ wr'[w].pc = "idle" /\ wr'[w].op = "none"
        /\ \A v \in Writers \ {w} : wr'[v] = wr[v]
    BY <1>1, EndsTyped DEF Idle
  <1>3. \A f \in Folders : One(Owes(wr[w], f)) = 0 /\ One(Owes(wr'[w], f)) = 0
    BY <1>1, <1>2 DEF One, Owes, InTurn
  <1>4. PICK i \in DOMAIN snap[w], t \in Times(w) :
          \/ /\ i \in DOMAIN msgs
             /\ msgs' = UpdatedRows(w, i, t)
             /\ total' = CountMove(snap[w][i].folder, wr[w].folder)
          \/ UNCHANGED <<msgs, total>>
    BY DEF UpdateWrite
  <1>5. CASE UNCHANGED <<msgs, total>>
    <2>1. Balanced'
      BY <1>1, <1>2, <1>3, <1>5, BalancePaid
    <2> QED BY <1>1, <1>5, <2>1, CountWrites DEF CountInv
  <1>6. CASE /\ i \in DOMAIN msgs
             /\ msgs' = UpdatedRows(w, i, t)
             /\ total' = CountMove(snap[w][i].folder, wr[w].folder)
    <2> DEFINE row == [msgs[i] EXCEPT !.flags = snap[w][i].flags, !.folder = wr[w].folder,
                                      !.modSeq = Stamp(t)]
               from == msgs[i].folder
               to == wr[w].folder
    <2>1. snap[w][i].folder = from
      BY <1>1, <1>4 DEF Fresh
    <2>2. row.folder = to /\ row.live
      <3>1. msgs[i] \in Row /\ msgs[i].live
        BY <1>1, <1>6, RowOf DEF StoreOK, CountInv
      <3> QED BY <3>1 DEF Row
    <2>3. msgs' = Added(i, row)
      BY <1>6 DEF UpdatedRows
    <2>4. total' = CountMove(from, to)
      BY <1>6, <2>1
    <2> HIDE DEF row
    <2>5. /\ DOMAIN msgs' = DOMAIN msgs /\ msgs'[i] = row
          /\ \A j \in DOMAIN msgs \ {i} : msgs'[j] = msgs[j]
      BY <1>6, <2>3 DEF Added
    <2>6. \A j \in DOMAIN msgs' : msgs'[j].live
      BY <2>2, <2>5 DEF CountInv
    <2>7. \A f \in Folders : Live(f)' \ {i} = Live(f) \ {i}
      BY <2>5 DEF Live
    <2>8. ASSUME NEW f \in Folders
          PROVE  total'[f] + One(Owes(wr'[w], f)) + One(i \in Live(f))
                   = total[f] + One(Owes(wr[w], f)) + One(i \in Live(f)')
      <3>1. i \in Live(f) <=> f = from
        BY <1>6 DEF Live, CountInv
      <3>2. i \in Live(f)' <=> f = to
        BY <1>6, <2>2, <2>5 DEF Live
      <3>3. total'[f] = total[f] + One(f = to) - One(f = from) /\ total[f] \in Int
        BY <1>1, <2>4 DEF CountMove, StoreOK
      <3>4. One(i \in Live(f)) = One(f = from) /\ One(i \in Live(f)') = One(f = to)
        BY <3>1, <3>2 DEF One
      <3>5. One(f = from) \in Int /\ One(f = to) \in Int
        BY DEF One
      <3> HIDE DEF from, to
      <3> QED BY <1>3, <3>3, <3>4, <3>5
    <2>9. Balanced'
      BY <1>1, <1>2, <2>7, <2>8, BalanceKept
    <2> QED BY <1>1, <2>6, <2>9, CountWrites
  <1> QED BY <1>4, <1>5, <1>6

LEMMA CountDestroys ==
  ASSUME CountingOnly, CountInv, UidInv', UNCHANGED mix, NEW w \in Writers, DestroyWrite(w)
  PROVE  CountInv'
  <1>1. /\ StoreOK /\ StoreOK' /\ Balanced /\ Ends(w)
        /\ wr[w].pc = "destroy" /\ InTurn(wr[w], mix[w]) /\ Fresh(wr[w], snap[w], msgs)
    BY DEF CountInv, UidInv, DestroyWrite
  <1>2. /\ wr'[w].pc = "idle" /\ wr'[w].op = "none"
        /\ \A v \in Writers \ {w} : wr'[v] = wr[v]
    BY <1>1, EndsTyped DEF Idle
  <1>3. \A f \in Folders : One(Owes(wr[w], f)) = 0 /\ One(Owes(wr'[w], f)) = 0
    BY <1>1, <1>2 DEF One, Owes, InTurn
  <1>4. PICK i \in DOMAIN msgs : DOMAIN snap[w] = {i} /\ wr[w].folder = msgs[i].folder
    BY <1>1 DEF Fresh
  <1>5. /\ msgs' = Only(msgs, DOMAIN msgs \ {i})
        /\ total' = [total EXCEPT ![wr[w].folder] = @ - 1]
    BY <1>4 DEF DestroyWrite
  <1>6. DOMAIN msgs' = DOMAIN msgs \ {i} /\ \A j \in DOMAIN msgs \ {i} : msgs'[j] = msgs[j]
    BY <1>5 DEF Only
  <1>7. \A j \in DOMAIN msgs' : msgs'[j].live
    BY <1>6 DEF CountInv
  <1>8. \A f \in Folders : Live(f)' \ {i} = Live(f) \ {i}
    BY <1>6 DEF Live
  <1>9. ASSUME NEW f \in Folders
        PROVE  total'[f] + One(Owes(wr'[w], f)) + One(i \in Live(f))
                 = total[f] + One(Owes(wr[w], f)) + One(i \in Live(f)')
    <2>1. i \in Live(f) <=> f = wr[w].folder
      BY <1>4 DEF Live, CountInv
    <2>2. i \notin Live(f)'
      BY <1>6 DEF Live
    <2>3. total'[f] = total[f] - One(f = wr[w].folder) /\ total[f] \in Int
      <3>1. total \in [Folders -> Int] /\ wr[w].folder \in Folders
        BY <1>1 DEF StoreOK, Request
      <3> QED BY <1>5, <3>1 DEF One
    <2>4. One(i \in Live(f)) = One(f = wr[w].folder) /\ One(i \in Live(f)') = 0
      BY <2>1, <2>2 DEF One
    <2>5. One(f = wr[w].folder) \in Int
      BY DEF One
    <2> QED BY <1>3, <2>3, <2>4, <2>5
  <1>10. Balanced'
    BY <1>1, <1>2, <1>8, <1>9, BalanceKept
  <1> QED BY <1>1, <1>7, <1>10, CountWrites

(* MOVE, EXPUNGE and COPY are not asked for in such a mix. *)
LEMMA CountChanges ==
  ASSUME CountingOnly, CountInv, UidInv', UNCHANGED mix, NEW w \in Writers, Changes(w)
  PROVE  CountInv'
  <1>0. /\ InTurn(wr[w], mix[w]) /\ "move" \notin mix[w] /\ "expunge" \notin mix[w]
        /\ IsRows(msgs)
    BY DEF CountInv, CountingOnly, UidInv, StoreOK
  <1>1. CASE MoveRead(w)
    BY <1>0, <1>1 DEF MoveRead, Reads, Begins
  <1>2. CASE MoveWrite(w)
    BY <1>0, <1>2 DEF MoveWrite, InTurn
  <1>3. CASE StoreRead(w)
    <2>1. \E rows, target : Reads(w, "store", "store", rows, target)
      BY <1>3 DEF StoreRead
    <2> QED BY <2>1, CountReads
  <1>4. CASE StoreWrite(w)
    BY <1>4, CountStores
  <1>5. CASE ExpungeRead(w)
    BY <1>0, <1>5 DEF ExpungeRead, Reads, Begins
  <1>6. CASE ExpungeWrite(w)
    BY <1>0, <1>6 DEF ExpungeWrite, InTurn
  <1>7. CASE UpdateRead(w)
    <2>1. PICK i \in DOMAIN msgs, target \in Folders, kw \in SUBSET (Flags \ {"Deleted"}) :
            Reads(w, "jmapUpdate", "update",
                  [j \in {i} |-> [msgs[i] EXCEPT
                                    !.flags = kw \cup (@ \cap {"Deleted"})]], target)
      BY <1>7 DEF UpdateRead
    <2> DEFINE rows == [j \in {i} |-> [msgs[i] EXCEPT
                                         !.flags = kw \cup (@ \cap {"Deleted"})]]
    <2>2. DOMAIN rows = {i} /\ rows[i].folder = msgs[i].folder
      <3>1. msgs[i] \in Row
        BY <1>0, RowOf
      <3> QED BY <3>1 DEF Row
    <2>3. Reads(w, "jmapUpdate", "update", rows, target)
      BY <2>1
    <2> HIDE DEF rows
    <2> QED BY <2>2, <2>3, CountReads
  <1>8. CASE UpdateWrite(w)
    BY <1>8, CountUpdates
  <1>9. CASE DestroyRead(w)
    <2>1. PICK i \in DOMAIN msgs :
            Reads(w, "jmapDestroy", "destroy", Only(msgs, {i}), msgs[i].folder)
      BY <1>9 DEF DestroyRead
    <2>2. DOMAIN Only(msgs, {i}) = {i} /\ Only(msgs, {i})[i].folder = msgs[i].folder
      BY DEF Only
    <2> QED BY <2>1, <2>2, CountReads
  <1>10. CASE DestroyWrite(w)
    BY <1>10, CountDestroys
  <1> QED BY <1>1, <1>2, <1>3, <1>4, <1>5, <1>6, <1>7, <1>8, <1>9, <1>10 DEF Changes

LEMMA CountCopies ==
  ASSUME CountingOnly, CountInv, NEW w \in Writers, Copies(w)
  PROVE  FALSE
  <1>1. /\ InTurn(wr[w], mix[w]) /\ "copy" \notin mix[w]
    BY DEF CountInv, CountingOnly
  <1> QED BY <1>1 DEF Copies, CopyTarget, Begins, CopySources, CopyReserve, CopyInsert,
                      InTurn, Counters

LEMMA CountTicks ==
  ASSUME CountInv, UidInv', UNCHANGED <<mix, msgs, total, wr, snap>>
  PROVE  CountInv'
  <1>1. Balanced'
    BY DEF CountInv, Balanced, Owed, Live
  <1> QED BY <1>1 DEF CountInv

CountsWell == CountingOnly /\ crashes = 0 => CountInv

LEMMA CountPreserved == UidInv /\ CountsWell /\ [Next]_vars => CountsWell'
  <1> SUFFICES ASSUME UidInv, CountsWell, [Next]_vars, CountingOnly', crashes' = 0
               PROVE  CountInv'
    BY DEF CountsWell
  <1>1. UNCHANGED mix /\ CountingOnly
    BY DEF Next, vars, CountingOnly
  <1>2. UidInv'
    BY UidInvPreserved
  <1>3. crashes \in Nat /\ MaxCrashes \in Nat
    BY MailStoreAssumption DEF UidInv, StoreOK
  <1>4. crashes = 0 /\ \A w \in Writers : ~Crash(w)
    <2>1. crashes' = crashes \/ \E w \in Writers : Crash(w)
      <3>1. ASSUME NEW w \in Writers, Creates(w) \/ Copies(w) \/ Changes(w)
            PROVE  crashes' = crashes
        BY <3>1 DEF Creates, Copies, Changes, Allocate, AllocateUid, ImportOpen, ImportClose,
             Insert, RuleCopy, CopiesDone, Count, BumpModSeq, CopyTarget, CopySources,
             CopyReserve, CopyInsert, MoveRead, MoveWrite, StoreRead, StoreWrite, ExpungeRead,
             ExpungeWrite, UpdateRead, UpdateWrite, DestroyRead, DestroyWrite, Reads
      <3> QED BY <3>1 DEF Next, vars, Tick
    <2>2. ASSUME NEW w \in Writers, Crash(w)
          PROVE  FALSE
      BY <1>3, <2>2 DEF Crash
    <2> QED BY <2>1, <2>2
  <1>5. CountInv
    BY <1>1, <1>4 DEF CountsWell
  <1>6. CASE UNCHANGED vars \/ Tick
    BY <1>1, <1>2, <1>5, <1>6, CountTicks DEF vars, Tick
  <1>7. ASSUME NEW w \in Writers, Creates(w) \/ Changes(w)
        PROVE  CountInv'
    BY <1>1, <1>2, <1>5, <1>7, CountCreates, CountChanges
  <1>8. \A w \in Writers : ~Copies(w)
    BY <1>1, <1>5, CountCopies
  <1> QED BY <1>4, <1>6, <1>7, <1>8 DEF Next

LEMMA CountInit == Init => CountsWell
  <1> SUFFICES ASSUME Init
               PROVE  CountInv
    BY DEF CountsWell
  <1>1. \A w \in Writers : wr[w].pc = "idle" /\ wr[w].op = "none"
    BY DEF Init, Idle
  <1>2. \A f : Owed(f) = {} /\ Live(f) = {}
    BY <1>1, NoRowsTyped DEF Owed, Live, Init
  <1>3. Balanced
    BY <1>2, FS_EmptySet DEF Balanced, Init
  <1>4. \A i \in DOMAIN msgs : msgs[i].live
    BY NoRowsTyped DEF Init
  <1> QED BY <1>1, <1>3, <1>4, UidInvInit DEF CountInv, InTurn, Fresh

(* As long as no request has died, totalCount of every folder is what is   *)
(* in it less what the requests under way still have to count, whatever    *)
(* their order: deliveries with their rule copies, JMAP and EWS creation,  *)
(* imports, changes of flags, and one client that updates and destroys.    *)
THEOREM TotalsAlwaysAgree == Spec => []TotalsAgree
  <1>1. CountsWell => TotalsAgree
    BY DEF CountsWell, CountInv, Balanced, TotalsAgree
  <1>2. Init => UidInv /\ CountsWell
    BY UidInvInit, CountInit
  <1>3. UidInv /\ CountsWell /\ [Next]_vars => (UidInv /\ CountsWell)'
    BY UidInvPreserved, CountPreserved
  <1> QED BY <1>1, <1>2, <1>3, PTL DEF Spec

-----------------------------------------------------------------------------
(* JmapSync.  A state is its reader's knowledge of two maxima: what is     *)
(* stamped or made above them will be told, and what its copy has wrong or *)
(* has not is above them, or came late.                                    *)

(* A finite set of numbers, indexed, has a largest one: else take the      *)
(* shortest beginning of an enumeration that has none.                     *)
LEMMA TopExists ==
  ASSUME NEW S, IsFiniteSet(S), S # {}, NEW f \in [S -> Nat]
  PROVE  \E m \in S : \A x \in S : f[x] <= f[m]
  <1>1. PICK seq \in Seq(S) : \A x \in S : \E n \in 1..Len(seq) : seq[n] = x
    BY DEF IsFiniteSet
  <1>2. Len(seq) \in Nat /\ \A n \in 1..Len(seq) : seq[n] \in S /\ f[seq[n]] \in Nat
    OBVIOUS
  <1>3. PICK N \in Nat : N = Len(seq)
    BY <1>2
  <1>4. PICK g \in [1..N -> Nat] : \A n \in 1..N : g[n] = f[seq[n]]
    <2>1. [n \in 1..N |-> f[seq[n]]] \in [1..N -> Nat]
      BY <1>2, <1>3
    <2> QED BY <2>1
  <1> DEFINE Has(k) == \E m \in 1..k : \A j \in 1..k : g[j] <= g[m]
             Bad == {k \in 1..N : ~Has(k)}
  <1>5. Bad = {}
    <2> SUFFICES ASSUME Bad # {} PROVE FALSE
      OBVIOUS
    <2>1. Bad \subseteq Nat
      OBVIOUS
    <2>2. PICK k \in Bad : \A j \in Bad : ~(<<j, k>> \in OpToRel(<, Nat))
      <3> HIDE DEF Bad
      <3> QED BY <2>1, NatLessThanWellFounded, WFMin
    <2>3. k \in 1..N /\ ~Has(k) /\ g[k] \in Nat
      BY <2>2
    <2>4. k # 1
      BY <2>3
    <2>5. k - 1 \in 1..N /\ k - 1 < k /\ k \in Nat /\ k - 1 \in Nat
      BY <2>3, <2>4
    <2>6. <<k - 1, k>> \in OpToRel(<, Nat)
      BY <2>5 DEF OpToRel
    <2>7. PICK m \in 1..(k - 1) : \A j \in 1..(k - 1) : g[j] <= g[m]
      BY <2>2, <2>5, <2>6
    <2> HIDE DEF Has, Bad
    <2>8. \A j \in 1..k : j = k \/ j \in 1..(k - 1)
      BY <2>5
    <2>9. /\ m \in 1..k /\ k \in 1..k /\ 1..(k - 1) \subseteq 1..N
          /\ \A j \in 1..N : g[j] \in Nat
      BY <2>5
    <2>10. /\ g[m] \in Nat /\ g[k] \in Nat /\ g[k] <= g[k]
           /\ \A j \in 1..(k - 1) : g[j] \in Nat
      BY <2>3, <2>5, <2>9
    <2>11. \A a, b, c \in Nat : a <= b /\ b <= c => a <= c
      OBVIOUS
    <2>12. CASE g[k] <= g[m]
      <3>1. \A j \in 1..k : g[j] <= g[m]
        BY <2>7, <2>8, <2>12, Zenon
      <3> QED BY <2>3, <2>9, <3>1, Zenon DEF Has
    <2>13. CASE g[m] <= g[k]
      <3>1. \A j \in 1..k : g[j] <= g[k]
        BY <2>7, <2>8, <2>10, <2>11, <2>13, Zenon
      <3> QED BY <2>3, <2>9, <3>1, Zenon DEF Has
    <2> QED BY <2>10, <2>12, <2>13
  <1>6. N \in 1..N
    <2>1. PICK x \in S : TRUE
      OBVIOUS
    <2>2. \E n \in 1..N : seq[n] = x
      BY <1>1, <1>3
    <2> QED BY <1>3, <2>2
  <1>7. PICK m \in 1..N : \A j \in 1..N : g[j] <= g[m]
    BY <1>5, <1>6
  <1>8. \A x \in S : f[x] <= f[seq[m]]
    BY <1>1, <1>3, <1>4, <1>7
  <1> QED BY <1>2, <1>3, <1>7, <1>8

(* What Largest is, with the zero that an empty mailbox gives.             *)
LEMMA LargestIs ==
  ASSUME NEW S, IsFiniteSet(S), NEW f \in [S -> Nat]
  PROVE  /\ Largest({f[x] : x \in S}) \in Nat
         /\ \A x \in S : f[x] <= Largest({f[x_] : x_ \in S})
         /\ \A n \in Nat : (\A x \in S : f[x] < n) /\ 0 < n => Largest({f[x] : x \in S}) < n
  <1> DEFINE T == {f[x] : x \in S} \cup {0}
  <1>1. T \subseteq Nat /\ 0 \in T /\ \A x \in S : f[x] \in T
    OBVIOUS
  <1>2. \E m \in T : \A n \in T : m >= n
    <2>1. CASE S = {}
      <3>1. T = {0}
        BY <2>1
      <3> QED BY <3>1
    <2>2. CASE S # {}
      <3>1. PICK m \in S : \A x \in S : f[x] <= f[m]
        BY <2>2, TopExists
      <3>2. f[m] \in T /\ f[m] \in Nat
        BY <3>1
      <3>3. \A n \in T : f[m] >= n
        BY <3>1, <3>2
      <3> QED BY <3>2, <3>3
    <2> QED BY <2>1, <2>2
  <1>3. Max(T) \in T /\ \A n \in T : Max(T) >= n
    <2> HIDE DEF T
    <2> QED BY <1>2 DEF Max
  <1>4. Largest({f[x] : x \in S}) = Max(T)
    BY DEF Largest
  <1>5. Max(T) \in Nat
    BY <1>1, <1>3
  <1>6. \A x \in S : f[x] <= Max(T)
    BY <1>1, <1>3, <1>5
  <1>7. \A n \in Nat : (\A x \in S : f[x] < n) /\ 0 < n => Max(T) < n
    BY <1>3
  <1> QED BY <1>4, <1>5, <1>6, <1>7
LEMMA StoredIs ==
  ASSUME StoreOK
  PROVE  /\ Stored = {i \in DOMAIN msgs : msgs[i].live}
         /\ Stored \subseteq Ids /\ IsFiniteSet(Stored)
         /\ \A i \in Stored : i \in DOMAIN msgs /\ msgs[i] \in Row
  <1>1. IsRows(msgs)
    BY DEF StoreOK
  <1>2. \A i \in DOMAIN msgs : msgs[i] \in Row /\ i \in Ids /\ msgs[i].folder \in Folders
    BY <1>1, RowOf, RowFields
  <1>3. Stored = {i \in DOMAIN msgs : msgs[i].live}
    BY <1>2 DEF Stored, Live
  <1>4. Stored \subseteq Ids
    BY <1>2, <1>3
  <1>5. IsFiniteSet(Stored)
    BY <1>4, IdsFinite, FS_Subset
  <1> QED BY <1>2, <1>3, <1>4, <1>5

TopSeq     == Largest({msgs[i].modSeq : i \in Stored})
TopCreated == Largest({msgs[i].created : i \in Stored})

LEMMA TopSeqIs ==
  ASSUME StoreOK
  PROVE  /\ TopSeq \in Nat
         /\ \A i \in Stored : msgs[i].modSeq \in Nat /\ msgs[i].modSeq <= TopSeq
         /\ \A n \in Nat : (\A i \in Stored : msgs[i].modSeq < n) /\ 0 < n => TopSeq < n
  <1>1. IsFiniteSet(Stored) /\ \A i \in Stored : msgs[i].modSeq \in Nat
    BY StoredIs, RowFields
  <1>2. PICK S : S = Stored
    OBVIOUS
  <1>3. PICK f \in [S -> Nat] : \A i \in S : f[i] = msgs[i].modSeq
    <2>1. [i \in S |-> msgs[i].modSeq] \in [S -> Nat]
      BY <1>1, <1>2
    <2> QED BY <2>1
  <1>4. {f[i] : i \in S} = {msgs[i].modSeq : i \in Stored}
    BY <1>2, <1>3
  <1>5. /\ Largest({f[i] : i \in S}) \in Nat
        /\ \A i \in S : f[i] <= Largest({f[j] : j \in S})
        /\ \A n \in Nat : (\A i \in S : f[i] < n) /\ 0 < n => Largest({f[i] : i \in S}) < n
    BY <1>1, <1>2, LargestIs
  <1>6. TopSeq = Largest({f[i] : i \in S})
    BY <1>4 DEF TopSeq
  <1> QED BY <1>1, <1>2, <1>3, <1>5, <1>6

LEMMA TopCreatedIs ==
  ASSUME StoreOK
  PROVE  /\ TopCreated \in Nat
         /\ \A i \in Stored : msgs[i].created \in Nat /\ msgs[i].created <= TopCreated
         /\ \A n \in Nat : (\A i \in Stored : msgs[i].created < n) /\ 0 < n => TopCreated < n
  <1>1. IsFiniteSet(Stored) /\ \A i \in Stored : msgs[i].created \in Nat
    BY StoredIs, RowFields
  <1>2. PICK S : S = Stored
    OBVIOUS
  <1>3. PICK f \in [S -> Nat] : \A i \in S : f[i] = msgs[i].created
    <2>1. [i \in S |-> msgs[i].created] \in [S -> Nat]
      BY <1>1, <1>2
    <2> QED BY <2>1
  <1>4. {f[i] : i \in S} = {msgs[i].created : i \in Stored}
    BY <1>2, <1>3
  <1>5. /\ Largest({f[i] : i \in S}) \in Nat
        /\ \A i \in S : f[i] <= Largest({f[j] : j \in S})
        /\ \A n \in Nat : (\A i \in S : f[i] < n) /\ 0 < n => Largest({f[i] : i \in S}) < n
    BY <1>1, <1>2, LargestIs
  <1>6. TopCreated = Largest({f[i] : i \in S})
    BY <1>4 DEF TopCreated
  <1> QED BY <1>1, <1>2, <1>3, <1>5, <1>6

TopsProp ==
  /\ Stored \subseteq Ids /\ TopSeq \in Nat /\ TopCreated \in Nat
  /\ \A i \in Stored : /\ msgs[i].modSeq \in Nat /\ msgs[i].modSeq <= TopSeq
                       /\ msgs[i].created \in Nat /\ msgs[i].created <= TopCreated
  /\ \A n \in Nat : (\A i \in Stored : msgs[i].modSeq < n) /\ 0 < n => TopSeq < n
  /\ \A n \in Nat : (\A i \in Stored : msgs[i].created < n) /\ 0 < n => TopCreated < n

LEMMA TopsAre == StoreOK => TopsProp
  BY StoredIs, TopSeqIs, TopCreatedIs DEF TopsProp

LEMMA TopsAreNext == StoreOK' => TopsProp'
  BY TopsAre, PTL

-----------------------------------------------------------------------------
(* The requests whose effects a state can show never write as the others.  *)
Unshown == {"move", "store", "expunge", "destroy"}

ShownInv == \A w \in Writers : wr[w].pc \notin Unshown

LEMMA CreatesShown ==
  ASSUME StoreOK, NEW w \in Writers, wr[w].pc \notin Unshown, Creates(w) \/ Copies(w)
  PROVE  wr'[w].pc \notin Unshown
  <1> USE DEF Unshown
  <1>0. wr \in [Writers -> Request] /\ wr[w] \in Request /\ Idle.pc = "idle"
    BY DEF StoreOK, Idle
  <1>1. CASE Allocate(w)
    BY <1>0, <1>1 DEF Allocate, Becomes, Idle
  <1>2. CASE AllocateUid(w)
    <2>1. CASE Becomes(w, [wr[w] EXCEPT !.pc = "insert", !.since = clock])
      BY <1>0, <2>1 DEF Becomes, Request
    <2>2. ASSUME NEW op \in {"append", "createItem"}, NEW f \in Folders,
                 NEW fl \in SUBSET Flags,
                 Becomes(w, [Idle EXCEPT !.pc = "insert", !.op = op, !.folder = f,
                                   !.uid = FirstFree, !.modSeq = highestModSeq + 1,
                                   !.flags = fl, !.since = clock])
          PROVE  wr'[w].pc \notin Unshown
      BY <1>0, <2>2 DEF Becomes, Idle
    <2> QED BY <1>2, <2>1, <2>2 DEF AllocateUid
  <1>3. CASE ImportOpen(w) \/ CopyTarget(w)
    <2>1. CASE ImportOpen(w)
      <3>1. PICK f \in Folders : Becomes(w, [Idle EXCEPT !.pc = "next", !.op = "import",
                                                       !.folder = f, !.uid = uidNext])
        BY <2>1 DEF ImportOpen
      <3> QED BY <1>0, <3>1 DEF Becomes, Idle
    <2>2. CASE CopyTarget(w)
      <3>1. PICK source, target \in Folders :
              Becomes(w, [Idle EXCEPT !.pc = "sources", !.op = "copy", !.folder = target,
                                      !.home = source, !.uid = uidNext,
                                      !.modSeq = highestModSeq + 1])
        BY <2>2 DEF CopyTarget
      <3> QED BY <1>0, <3>1 DEF Becomes, Idle
    <2> QED BY <1>3, <2>1, <2>2
  <1>4. CASE ImportClose(w) \/ BumpModSeq(w)
    BY <1>0, <1>4 DEF ImportClose, BumpModSeq, Becomes
  <1>5. CASE Insert(w)
    <2>1. AfterRefusal(w).pc \notin Unshown /\ AfterInsert(w).pc \notin Unshown
      BY <1>0 DEF AfterRefusal, AfterInsert, Request
    <2> QED BY <1>0, <1>5, <2>1 DEF Insert, Becomes
  <1>6. CASE RuleCopy(w)
    BY <1>0, <1>6 DEF RuleCopy, Becomes, Request
  <1>7. CASE CopiesDone(w)
    BY <1>0, <1>7 DEF CopiesDone, Becomes, Request
  <1>8. CASE Count(w)
    <2>1. AfterCount(w).pc \notin Unshown
      BY <1>0 DEF AfterCount, Request
    <2> QED BY <1>0, <1>8, <2>1 DEF Count, Becomes
  <1>9. CASE CopySources(w)
    BY <1>0, <1>9 DEF CopySources, Becomes, Request
  <1>10. CASE CopyReserve(w)
    BY <1>0, <1>10 DEF CopyReserve, Becomes, Request
  <1>11. CASE CopyInsert(w)
    <2>1. CASE Ends(w)
      BY <1>0, <2>1 DEF Ends, Becomes
    <2>2. ASSUME NEW pc \in {"bump", "insert"},
                 Becomes(w, [wr[w] EXCEPT !.pc = pc, !.uid = @ + 1])
          PROVE  wr'[w].pc \notin Unshown
      BY <1>0, <2>2 DEF Becomes, Request
    <2>3. \/ Ends(w)
          \/ \E pc \in {"bump", "insert"} : Becomes(w, [wr[w] EXCEPT !.pc = pc, !.uid = @ + 1])
      BY <1>11 DEF CopyInsert
    <2> QED BY <2>1, <2>2, <2>3
  <1> QED BY <1>1, <1>2, <1>3, <1>4, <1>5, <1>6, <1>7, <1>8, <1>9, <1>10, <1>11
          DEF Creates, Copies

LEMMA ChangesShown ==
  ASSUME StoreOK, OnlyShown, NEW w \in Writers, wr[w].pc \notin Unshown,
         Changes(w) \/ Crash(w)
  PROVE  \/ Ends(w) /\ wr'[w].pc = "idle"
         \/ UpdateRead(w) /\ wr'[w].pc = "update" /\ wr'[w].since = clock
  <1>0. wr \in [Writers -> Request] /\ Idle.pc = "idle"
    BY DEF StoreOK, Idle
  <1>1. CASE MoveRead(w)
    <2>1. "move" \in mix[w]
      BY <1>1 DEF MoveRead, Reads, Begins
    <2> QED BY <2>1 DEF OnlyShown
  <1>2. CASE StoreRead(w)
    <2>1. "store" \in mix[w]
      BY <1>2 DEF StoreRead, Reads, Begins
    <2> QED BY <2>1 DEF OnlyShown
  <1>3. CASE ExpungeRead(w)
    <2>1. "expunge" \in mix[w]
      BY <1>3 DEF ExpungeRead, Reads, Begins
    <2> QED BY <2>1 DEF OnlyShown
  <1>4. CASE DestroyRead(w)
    <2>1. "jmapDestroy" \in mix[w]
      BY <1>4 DEF DestroyRead, Reads, Begins
    <2> QED BY <2>1 DEF OnlyShown
  <1>5. CASE UpdateRead(w)
    <2>1. PICK rows, target : Reads(w, "jmapUpdate", "update", rows, target)
      BY <1>5 DEF UpdateRead
    <2> QED BY <1>0, <1>5, <2>1 DEF Reads, Becomes, Idle
  <1>6. CASE UpdateWrite(w) \/ Crash(w)
    <2>1. Ends(w)
      BY <1>6 DEF UpdateWrite, Crash
    <2> QED BY <1>0, <2>1 DEF Ends, Becomes
  <1>7. ~MoveWrite(w) /\ ~StoreWrite(w) /\ ~ExpungeWrite(w) /\ ~DestroyWrite(w)
    BY DEF MoveWrite, StoreWrite, ExpungeWrite, DestroyWrite, Unshown
  <1> QED BY <1>1, <1>2, <1>3, <1>4, <1>5, <1>6, <1>7 DEF Changes

(* So rows come, and change with a stamp that is above all others.         *)
RowsGrow ==
  \A i \in Stored :
    /\ i \in Stored' /\ msgs'[i].created = msgs[i].created
    /\ \/ /\ msgs'[i].flags = msgs[i].flags /\ msgs'[i].folder = msgs[i].folder
          /\ msgs'[i].modSeq = msgs[i].modSeq
       \/ TopSeq < msgs'[i].modSeq

LEMMA SameRowsGrow ==
  ASSUME UNCHANGED msgs
  PROVE  RowsGrow
  BY DEF RowsGrow, Stored, Live

LEMMA AddedRowsGrow ==
  ASSUME UidInv, StoreOK', NEW k \in NewIds, NEW row \in Row, msgs' = Added(k, row)
  PROVE  RowsGrow
  <1>1. k \notin DOMAIN msgs /\ k \in Ids
    <2>1. ASSUME k \in DOMAIN msgs PROVE FALSE
      <3>1. PICK p \in given : p = <<k, msgs[k].uid>>
        BY <2>1 DEF UidInv, UidOfRow
      <3>2. p[1] = k
        BY <3>1
      <3> QED BY <3>2 DEF NewIds
    <2> QED BY <2>1 DEF NewIds
  <1>2. /\ DOMAIN msgs' = DOMAIN msgs \cup {k}
        /\ \A i \in DOMAIN msgs : msgs'[i] = msgs[i]
    <2>1. IsRows(msgs)
      BY DEF UidInv, StoreOK
    <2>2. /\ DOMAIN Added(k, row) = DOMAIN msgs \cup {k}
          /\ \A i \in DOMAIN msgs \ {k} : Added(k, row)[i] = msgs[i]
      BY <1>1, <2>1, AddedTyped
    <2> QED BY <1>1, <2>2
  <1> QED BY <1>1, <1>2 DEF RowsGrow, Stored, Live

LEMMA UpdatedRowsGrow ==
  ASSUME StoreOK, ~SharesStamp, NEW w \in Writers, wr[w].pc = "update",
         NEW i \in DOMAIN snap[w], NEW t \in Times(w), i \in DOMAIN msgs,
         msgs' = UpdatedRows(w, i, t)
  PROVE  RowsGrow
  <1>1. /\ IsRows(msgs) /\ IsRows(snap[w]) /\ wr[w] \in Request /\ CounterLimit \in Nat
        /\ wr[w].since \in Nat /\ clock \in Nat
    BY MailStoreAssumption DEF StoreOK, Request
  <1>2. /\ msgs[i] \in Row /\ i \in Ids /\ snap[w][i].flags \in SUBSET Flags
        /\ wr[w].folder \in Folders
    BY <1>1, RowOf, RowFields DEF Request
  <1>3. t \in Nat /\ wr[w].since <= t /\ Stamp(t) \in Nat /\ Stamp(wr[w].since) <= Stamp(t)
        /\ Stamp(wr[w].since) \in Nat
    BY <1>1 DEF Times, Stamp
  <1>4. \A j \in DOMAIN msgs : msgs[j].modSeq \in Nat /\ msgs[j].modSeq < Stamp(t)
    <2> SUFFICES ASSUME NEW j \in DOMAIN msgs
                 PROVE  msgs[j].modSeq \in Nat /\ msgs[j].modSeq < Stamp(t)
      OBVIOUS
    <2>1. msgs[j].modSeq \in Nat
      BY <1>1, RowOf, RowFields
    <2>2. ~(msgs[j].modSeq >= Stamp(wr[w].since))
      BY DEF SharesStamp
    <2> QED BY <1>3, <2>1, <2>2
  <1>5. 0 < Stamp(t)
    BY <1>2, <1>3, <1>4
  <1>6. TopSeq < Stamp(t)
    <2>1. TopsProp /\ \A j \in Stored : j \in DOMAIN msgs
      BY TopsAre, StoredIs
    <2> QED BY <1>3, <1>4, <1>5, <2>1 DEF TopsProp
  <1>7. PICK row \in Row : row = [msgs[i] EXCEPT !.flags = snap[w][i].flags,
                                   !.folder = wr[w].folder, !.modSeq = Stamp(t)]
    BY <1>2, <1>3, ChangedRowTyped
  <1>8. /\ row.live = msgs[i].live /\ row.created = msgs[i].created
        /\ row.modSeq = Stamp(t) /\ row.folder \in Folders
    BY <1>2, <1>7 DEF Row
  <1>9. /\ DOMAIN msgs' = DOMAIN msgs /\ msgs'[i] = row
        /\ \A j \in DOMAIN msgs \ {i} : msgs'[j] = msgs[j]
    <2>1. /\ DOMAIN Added(i, row) = DOMAIN msgs \cup {i} /\ Added(i, row)[i] = row
          /\ \A j \in DOMAIN msgs \ {i} : Added(i, row)[j] = msgs[j]
      BY <1>1, <1>2, AddedTyped
    <2>2. msgs' = Added(i, row)
      BY <1>7 DEF UpdatedRows
    <2> QED BY <2>1, <2>2
  <1> QED BY <1>6, <1>8, <1>9 DEF RowsGrow, Stored, Live

(* A step is one request's.                                                *)
LEMMA OthersStay ==
  ASSUME StoreOK, NEW w \in Writers,
         Creates(w) \/ Copies(w) \/ Changes(w) \/ Crash(w)
  PROVE  \A v \in Writers \ {w} : wr'[v] = wr[v]
  <1>0. wr \in [Writers -> Request]
    BY DEF StoreOK
  <1>1. ASSUME NEW r, Becomes(w, r)
        PROVE  \A v \in Writers \ {w} : wr'[v] = wr[v]
    BY <1>0, <1>1 DEF Becomes
  <1>2. CASE UNCHANGED wr
    BY <1>2
  <1>3. CASE Allocate(w) \/ AllocateUid(w) \/ ImportOpen(w)
    BY <1>1, <1>3, Zenon DEF Allocate, AllocateUid, ImportOpen
  <1>4. CASE ImportClose(w) \/ Insert(w) \/ RuleCopy(w) \/ CopiesDone(w) \/ Count(w)
               \/ BumpModSeq(w)
    BY <1>1, <1>4, Zenon DEF ImportClose, Insert, RuleCopy, CopiesDone, Count, BumpModSeq
  <1>5. CASE CopyTarget(w) \/ CopySources(w) \/ CopyReserve(w)
    BY <1>1, <1>5, Zenon DEF CopyTarget, CopySources, CopyReserve
  <1>6. CASE CopyInsert(w)
    BY <1>1, <1>6, Zenon DEF CopyInsert, Ends
  <1>7. ASSUME NEW op, NEW pc, NEW rows, NEW target, Reads(w, op, pc, rows, target)
        PROVE  \A v \in Writers \ {w} : wr'[v] = wr[v]
    BY <1>1, <1>7, Zenon DEF Reads
  <1>8. CASE Ends(w)
    BY <1>1, <1>8, Zenon DEF Ends
  <1>9. CASE Changes(w) \/ Crash(w)
    BY <1>2, <1>7, <1>8, <1>9
    DEF Changes, MoveRead, MoveWrite, StoreRead, StoreWrite, ExpungeRead, ExpungeWrite,
        UpdateRead, UpdateWrite, DestroyRead, DestroyWrite, RowGone, NextRow, Crash
  <1> QED BY <1>3, <1>4, <1>5, <1>6, <1>9 DEF Creates, Copies

LEMMA ShownKept ==
  ASSUME StoreOK, OnlyShown, ShownInv, [Next]_vars
  PROVE  ShownInv' /\ OnlyShown'
  <1>1. OnlyShown'
    BY DEF Next, vars, OnlyShown
  <1>2. CASE Tick \/ UNCHANGED vars
    BY <1>1, <1>2 DEF Tick, vars, ShownInv
  <1>3. ASSUME NEW w \in Writers, Creates(w) \/ Copies(w) \/ Changes(w) \/ Crash(w)
        PROVE  ShownInv'
    <2>1. wr[w].pc \notin Unshown
      BY DEF ShownInv
    <2>2. wr'[w].pc \notin Unshown
      <3>1. CASE Creates(w) \/ Copies(w)
        BY <2>1, <3>1, CreatesShown
      <3>2. CASE Changes(w) \/ Crash(w)
        <4>1. wr'[w].pc \in {"idle", "update"}
          BY <2>1, <3>2, ChangesShown
        <4> QED BY <4>1 DEF Unshown
      <3> QED BY <1>3, <3>1, <3>2
    <2>3. \A v \in Writers \ {w} : wr'[v] = wr[v]
      BY <1>3, OthersStay
    <2> QED BY <2>2, <2>3 DEF ShownInv
  <1> QED BY <1>1, <1>2, <1>3 DEF Next

LEMMA ShownRowsGrow ==
  ASSUME UidInv, StoreOK', OnlyShown, ShownInv, ~SharesStamp, [Next]_vars
  PROVE  RowsGrow
  <1>0. StoreOK
    BY DEF UidInv
  <1>1. CASE Tick \/ UNCHANGED vars
    BY <1>1, SameRowsGrow DEF Tick, vars
  <1>2. ASSUME NEW w \in Writers, Creates(w) PROVE RowsGrow
    <2>1. CASE Insert(w)
      <3>1. UNCHANGED msgs \/ \E i \in NewIds, row \in Row : msgs' = Added(i, row)
        BY <2>1, InsertStep
      <3> QED BY <3>1, SameRowsGrow, AddedRowsGrow
    <2>2. CASE ~Insert(w)
      <3>1. UNCHANGED msgs
        BY <1>2, <2>2 DEF Creates, Allocate, AllocateUid, ImportOpen, ImportClose, RuleCopy,
                          CopiesDone, Count, BumpModSeq
      <3> QED BY <3>1, SameRowsGrow
    <2> QED BY <2>1, <2>2
  <1>3. ASSUME NEW w \in Writers, Copies(w) PROVE RowsGrow
    <2>1. CASE CopyInsert(w) /\ ~Ends(w)
      <3>1. \E i \in NewIds, row \in Row : msgs' = Added(i, row)
        BY <2>1, CopyInsertStep
      <3> QED BY <3>1, AddedRowsGrow
    <2>2. CASE CopyInsert(w) /\ Ends(w)
      <3>1. wr'[w].pc = "idle" /\ wr \in [Writers -> Request]
        BY <1>0, <2>2, EndsTyped DEF StoreOK, Idle
      <3>2. ASSUME NEW pc \in {"bump", "insert"},
                   Becomes(w, [wr[w] EXCEPT !.pc = pc, !.uid = @ + 1])
            PROVE  FALSE
        BY <3>1, <3>2 DEF Becomes, Request
      <3>3. \/ UNCHANGED msgs
            \/ \E pc \in {"bump", "insert"} :
                 Becomes(w, [wr[w] EXCEPT !.pc = pc, !.uid = @ + 1])
        BY <2>2 DEF CopyInsert
      <3> QED BY <3>2, <3>3, SameRowsGrow
    <2>3. CASE CopyTarget(w) \/ CopySources(w) \/ CopyReserve(w)
      BY <2>3, SameRowsGrow DEF CopyTarget, CopySources, CopyReserve
    <2> QED BY <1>3, <2>1, <2>2, <2>3 DEF Copies
  <1>4. ASSUME NEW w \in Writers, Changes(w) \/ Crash(w) PROVE RowsGrow
    <2>1. wr[w].pc \notin Unshown
      BY DEF ShownInv
    <2>2. CASE UpdateWrite(w)
      <3>1. \/ UNCHANGED msgs
            \/ \E i \in DOMAIN snap[w], t \in Times(w) :
                 i \in DOMAIN msgs /\ msgs' = UpdatedRows(w, i, t)
        BY <2>2 DEF UpdateWrite
      <3>2. wr[w].pc = "update"
        BY <2>2 DEF UpdateWrite
      <3> QED BY <1>0, <3>1, <3>2, SameRowsGrow, UpdatedRowsGrow
    <2>3. CASE ~UpdateWrite(w)
      <3>1. UNCHANGED msgs
        BY <1>4, <2>1, <2>3
        DEF Changes, MoveRead, MoveWrite, StoreRead, StoreWrite, ExpungeRead, ExpungeWrite,
            UpdateRead, DestroyRead, DestroyWrite, Reads, Crash, Unshown
      <3> QED BY <3>1, SameRowsGrow
    <2> QED BY <2>2, <2>3
  <1> QED BY <1>1, <1>2, <1>3, <1>4 DEF Next

-----------------------------------------------------------------------------
(* What a copy may have wrong: of the messages that the request in hand    *)
(* (ids) does not fetch, those stamped above the state or cut off; and it  *)
(* may lack those made above the state, late or cut off.                   *)
Follows(parts, ids) ==
  /\ ids \subseteq Stored /\ DOMAIN cache \subseteq Stored
  /\ \A i \in DOMAIN cache \ (ids \cup cut) :
       cache[i] = Data(i) \/ msgs[i].modSeq > parts.maxModSeq
  /\ \A i \in Stored \ (DOMAIN cache \cup ids \cup cut) :
       i \in late \/ msgs[i].created > parts.maxCreated

(* A state never is ahead of the rows.                                     *)
Reached(parts) == parts.maxModSeq <= TopSeq /\ parts.maxCreated <= TopCreated

FollowInv ==
  /\ Reached(client.old) /\ Reached(client.now)
  /\ client.pc \in {"ready", "rows", "get"} => client.known
  /\ client.known /\ client.pc # "get" => Follows(client.old, {})
  /\ client.pc = "get" => Follows(client.now, client.ids)

SyncInv ==
  /\ UidInv /\ SyncTypeOK
  /\ Apart => ~SharesStamp
  /\ OnlyShown => ShownInv
  /\ OnlyShown /\ Apart => FollowInv

LEMMA ReachedMore ==
  ASSUME TopsProp, TopsProp', RowsGrow, NEW p \in Parts, Reached(p)
  PROVE  Reached(p)'
  <1>1. TopSeq <= TopSeq'
    <2>0. TopSeq \in Nat /\ TopSeq' \in Nat
      BY DEF TopsProp
    <2>1. PICK n \in Nat : n = TopSeq' + 1 /\ 0 < n /\ \A k \in Nat : k <= TopSeq' <=> k < n
      <3>1. PICK top \in Nat : top = TopSeq'
        BY <2>0
      <3>2. top + 1 \in Nat /\ 0 < top + 1 /\ \A k \in Nat : k <= top <=> k < top + 1
        OBVIOUS
      <3> QED BY <3>1, <3>2
    <2>2. ASSUME NEW i \in Stored PROVE msgs[i].modSeq < n
      <3>1. /\ msgs[i].modSeq \in Nat /\ msgs[i].modSeq <= TopSeq /\ TopSeq \in Nat
            /\ msgs'[i].modSeq \in Nat /\ msgs'[i].modSeq <= TopSeq' /\ TopSeq' \in Nat
        BY DEF TopsProp, RowsGrow
      <3>2. msgs'[i].modSeq = msgs[i].modSeq \/ TopSeq < msgs'[i].modSeq
        BY DEF RowsGrow
      <3>3. msgs[i].modSeq <= TopSeq'
        BY <3>1, <3>2
      <3> QED BY <2>1, <3>1, <3>3
    <2>3. TopSeq < n
      BY <2>1, <2>2 DEF TopsProp
    <2> QED BY <2>0, <2>1, <2>3
  <1>2. TopCreated <= TopCreated'
    <2>0. TopCreated \in Nat /\ TopCreated' \in Nat
      BY DEF TopsProp
    <2>1. PICK n \in Nat : n = TopCreated' + 1 /\ 0 < n /\ \A k \in Nat : k <= TopCreated' <=> k < n
      <3>1. PICK top \in Nat : top = TopCreated'
        BY <2>0
      <3>2. top + 1 \in Nat /\ 0 < top + 1 /\ \A k \in Nat : k <= top <=> k < top + 1
        OBVIOUS
      <3> QED BY <3>1, <3>2
    <2>2. ASSUME NEW i \in Stored PROVE msgs[i].created < n
      <3>1. /\ msgs[i].created \in Nat /\ msgs'[i].created = msgs[i].created
            /\ msgs'[i].created <= TopCreated' /\ TopCreated' \in Nat
        BY DEF TopsProp, RowsGrow
      <3> QED BY <2>1, <3>1
    <2>3. TopCreated < n
      BY <2>1, <2>2 DEF TopsProp
    <2> QED BY <2>0, <2>1, <2>3
  <1>3. /\ TopSeq \in Nat /\ TopSeq' \in Nat /\ TopCreated \in Nat /\ TopCreated' \in Nat
        /\ p.maxModSeq \in Nat /\ p.maxCreated \in Nat
    BY DEF TopsProp, Parts
  <1>4. p.maxModSeq <= TopSeq /\ p.maxCreated <= TopCreated
    BY DEF Reached
  <1>5. p.maxModSeq <= TopSeq' /\ p.maxCreated <= TopCreated'
    BY <1>1, <1>2, <1>3, <1>4
  <1> QED BY <1>5 DEF Reached

LEMMA FollowsMore ==
  ASSUME TopsProp, TopsProp', RowsGrow, ComeLate, UNCHANGED <<cache, cut>>,
         NEW p \in Parts, NEW ids, Reached(p), Follows(p, ids)
  PROVE  Follows(p, ids)'
  <1>1. /\ p.maxModSeq \in Nat /\ p.maxModSeq <= TopSeq /\ TopSeq \in Nat
        /\ p.maxCreated \in Nat /\ p.maxCreated <= TopCreated /\ TopCreated \in Nat
    BY DEF TopsProp, Parts, Reached
  <1>2. ids \subseteq Stored' /\ DOMAIN cache' \subseteq Stored'
    BY DEF Follows, RowsGrow
  <1>3. ASSUME NEW i \in DOMAIN cache' \ (ids \cup cut')
        PROVE  cache'[i] = Data(i)' \/ msgs'[i].modSeq > p.maxModSeq
    <2>1. i \in Stored /\ i \in DOMAIN cache \ (ids \cup cut)
      BY <1>3 DEF Follows
    <2>2. cache[i] = Data(i) \/ msgs[i].modSeq > p.maxModSeq
      BY <2>1 DEF Follows
    <2>3. msgs'[i].modSeq \in Nat
      BY <2>1 DEF RowsGrow, TopsProp
    <2>4. CASE TopSeq < msgs'[i].modSeq
      BY <1>1, <2>3, <2>4
    <2>5. CASE /\ msgs'[i].flags = msgs[i].flags /\ msgs'[i].folder = msgs[i].folder
               /\ msgs'[i].modSeq = msgs[i].modSeq
      <3>1. Data(i)' = Data(i)
        BY <2>5 DEF Data
      <3> QED BY <2>2, <2>5, <3>1
    <2> QED BY <2>1, <2>4, <2>5 DEF RowsGrow
  <1>4. ASSUME NEW i \in Stored' \ (DOMAIN cache' \cup ids \cup cut')
        PROVE  i \in late' \/ msgs'[i].created > p.maxCreated
    <2>1. CASE i \in Stored
      <3>1. i \in late \/ msgs[i].created > p.maxCreated
        BY <1>4, <2>1 DEF Follows
      <3> QED BY <2>1, <3>1 DEF ComeLate, RowsGrow
    <2>2. CASE i \notin Stored
      <3>1. msgs'[i].created <= TopCreated => i \in late'
        BY <1>4, <2>2 DEF ComeLate, TopCreated
      <3>2. msgs'[i].created \in Nat
        BY <1>4 DEF TopsProp
      <3> QED BY <1>1, <3>1, <3>2
    <2> QED BY <2>1, <2>2
  <1> QED BY <1>2, <1>3, <1>4 DEF Follows

-----------------------------------------------------------------------------
(* The client's own steps leave the rows as they are.                      *)
LEMMA RowsStay ==
  ASSUME UNCHANGED <<vars, late>>
  PROVE  /\ Stored' = Stored /\ TopSeq' = TopSeq /\ TopCreated' = TopCreated
         /\ \A i : Data(i)' = Data(i)
         /\ \A p : Reached(p)' <=> Reached(p)
         /\ UNCHANGED <<cache, cut>> => \A p, ids : Follows(p, ids)' <=> Follows(p, ids)
  <1>1. msgs' = msgs /\ late' = late
    BY DEF vars
  <1>2. Stored' = Stored
    BY <1>1 DEF Stored, Live
  <1>3. TopSeq' = TopSeq /\ TopCreated' = TopCreated
    BY <1>1, <1>2 DEF TopSeq, TopCreated
  <1>4. \A i : Data(i)' = Data(i)
    BY <1>1 DEF Data
  <1>5. \A p : Reached(p)' <=> Reached(p)
    BY <1>3 DEF Reached
  <1>6. ASSUME UNCHANGED <<cache, cut>>, NEW p, NEW ids
        PROVE  Follows(p, ids)' <=> Follows(p, ids)
    BY <1>1, <1>2, <1>4, <1>6 DEF Follows
  <1> QED BY <1>2, <1>3, <1>4, <1>5, <1>6

LEMMA NoPartsReached ==
  ASSUME TopsProp
  PROVE  NoParts \in Parts /\ Reached(NoParts)
  BY DEF TopsProp, NoParts, Parts, Reached

LEMMA StatePartsTyped ==
  ASSUME StoreOK
  PROVE  /\ StateParts \in Parts
         /\ StateParts.maxModSeq = TopSeq /\ StateParts.maxCreated = TopCreated
  <1>1. TopSeq \in Nat /\ TopCreated \in Nat /\ highestModSeq \in Nat
    BY TopsAre DEF TopsProp, StoreOK
  <1>2. Cardinality(Stored) \in Nat
    BY StoredIs, FS_CardinalityType
  <1>3. StateParts = [maxModSeq |-> TopSeq, highestModSeq |-> highestModSeq,
                      maxCreated |-> TopCreated, count |-> Cardinality(Stored)]
    BY DEF StateParts, TopSeq, TopCreated
  <1> QED BY <1>1, <1>2, <1>3 DEF Parts

LEMMA AskStateKeeps ==
  ASSUME StoreOK, SyncTypeOK, UNCHANGED <<vars, late>>, AskState
  PROVE  SyncTypeOK' /\ (FollowInv => FollowInv')
  <1>1. PICK c \in Client : c = client
    BY DEF SyncTypeOK
  <1>2. /\ c.pc \in {"new", "ready"} /\ client' = [c EXCEPT !.pc = "state"]
        /\ UNCHANGED <<cache, cut>>
    BY <1>1 DEF AskState
  <1>3. /\ client' \in Client /\ client'.pc = "state" /\ client'.known = c.known
        /\ client'.old = c.old /\ client'.now = c.now
    BY <1>2 DEF Client
  <1>4. SyncTypeOK'
    BY <1>2, <1>3 DEF SyncTypeOK
  <1>5. ASSUME FollowInv PROVE FollowInv'
    <2>1. Reached(c.old)' /\ Reached(c.now)'
      BY <1>1, <1>5, RowsStay DEF FollowInv
    <2>2. c.known => Follows(c.old, {})'
      BY <1>1, <1>2, <1>5, RowsStay DEF FollowInv
    <2> QED BY <1>3, <2>1, <2>2 DEF FollowInv
  <1> QED BY <1>4, <1>5

(* Half of the state is read; with both halves the request goes on.        *)
LEMMA StateReadKeeps ==
  ASSUME StoreOK, SyncTypeOK, UNCHANGED <<vars, late, cache, cut>>, client.pc = "state",
         NEW pc \in {"state", AfterState}, NEW read \in SUBSET {"messages", "mailbox"},
         NEW now \in Parts, FollowInv => Reached(now),
         client' = [client EXCEPT !.pc = pc, !.read = read, !.now = now]
  PROVE  SyncTypeOK' /\ (FollowInv => FollowInv')
  <1>1. PICK c \in Client : c = client
    BY DEF SyncTypeOK
  <1>2. pc \in {"state", "rows", "load"} /\ (pc = "rows" => c.known)
    BY <1>1 DEF AfterState, Client
  <1>3. /\ client' \in Client /\ client'.pc = pc /\ client'.known = c.known
        /\ client'.old = c.old /\ client'.now = now
    BY <1>1, <1>2 DEF Client
  <1>4. SyncTypeOK'
    BY <1>3 DEF SyncTypeOK
  <1>5. ASSUME FollowInv PROVE FollowInv'
    <2>1. Reached(c.old)' /\ Reached(now)'
      BY <1>1, <1>5, RowsStay DEF FollowInv
    <2>2. c.known => Follows(c.old, {})'
      BY <1>1, <1>5, RowsStay DEF FollowInv
    <2> QED BY <1>2, <1>3, <2>1, <2>2 DEF FollowInv
  <1> QED BY <1>4, <1>5

LEMMA AggregateKeeps ==
  ASSUME StoreOK, SyncTypeOK, UNCHANGED <<vars, late>>, AggregateMessages
  PROVE  SyncTypeOK' /\ (FollowInv => FollowInv')
  <1>1. PICK c \in Client : c = client
    BY DEF SyncTypeOK
  <1>2. PICK pc \in {"state", AfterState} : pc = IF "mailbox" \in c.read THEN AfterState ELSE c.pc
    BY <1>1 DEF AggregateMessages
  <1>3. PICK read \in SUBSET {"messages", "mailbox"} : read = c.read \cup {"messages"}
    BY DEF Client
  <1>4. PICK now \in Parts : now = [StateParts EXCEPT !.highestModSeq = c.now.highestModSeq]
    BY StatePartsTyped DEF Client, Parts
  <1>5. now.maxModSeq = TopSeq /\ now.maxCreated = TopCreated
    BY <1>4, StatePartsTyped DEF Parts
  <1>6. TopSeq \in Nat /\ TopCreated \in Nat
    BY TopsAre DEF TopsProp
  <1>7. Reached(now)
    BY <1>5, <1>6 DEF Reached
  <1>8. client.pc = "state" /\ client' = [client EXCEPT !.pc = pc, !.read = read, !.now = now]
    BY <1>1, <1>2, <1>3, <1>4 DEF AggregateMessages
  <1> QED BY <1>7, <1>8, StateReadKeeps DEF AggregateMessages

LEMMA MailboxRowKeeps ==
  ASSUME StoreOK, SyncTypeOK, UNCHANGED <<vars, late>>, ReadMailboxRow
  PROVE  SyncTypeOK' /\ (FollowInv => FollowInv')
  <1>1. PICK c \in Client : c = client
    BY DEF SyncTypeOK
  <1>2. PICK pc \in {"state", AfterState} : pc = IF "messages" \in c.read THEN AfterState ELSE c.pc
    BY <1>1 DEF ReadMailboxRow
  <1>3. PICK read \in SUBSET {"messages", "mailbox"} : read = c.read \cup {"mailbox"}
    BY DEF Client
  <1>4. PICK now \in Parts : now = [c.now EXCEPT !.highestModSeq = highestModSeq]
    BY DEF Client, Parts, StoreOK
  <1>5. now.maxModSeq = c.now.maxModSeq /\ now.maxCreated = c.now.maxCreated
    BY <1>4 DEF Client, Parts
  <1>6. FollowInv => Reached(now)
    BY <1>1, <1>5 DEF FollowInv, Reached
  <1>7. client.pc = "state" /\ client' = [client EXCEPT !.pc = pc, !.read = read, !.now = now]
    BY <1>1, <1>2, <1>3, <1>4 DEF ReadMailboxRow, Client
  <1> QED BY <1>6, <1>7, StateReadKeeps DEF ReadMailboxRow

LEMMA LoadKeeps ==
  ASSUME StoreOK, SyncTypeOK, UNCHANGED <<vars, late>>, Load
  PROVE  SyncTypeOK' /\ (FollowInv => FollowInv')
  <1>0. TopsProp
    BY TopsAre
  <1>1. PICK c \in Client : c = client
    BY DEF SyncTypeOK
  <1>2. /\ client' = [c EXCEPT !.pc = "ready", !.read = {}, !.known = TRUE, !.old = c.now,
                             !.now = NoParts]
        /\ cache' = [i \in Stored |-> Data(i)] /\ cut' = {}
    BY <1>1 DEF Load
  <1>3. /\ client' \in Client /\ client'.pc = "ready" /\ client'.known = TRUE
        /\ client'.old = c.now /\ client'.now = NoParts
    BY <1>0, <1>2, NoPartsReached DEF Client
  <1>4. DOMAIN cache' = Stored /\ \A i \in Stored : cache'[i] = Data(i)
    BY <1>2
  <1>5. SyncTypeOK'
    BY <1>0, <1>2, <1>3, <1>4 DEF SyncTypeOK, TopsProp
  <1>6. ASSUME FollowInv PROVE FollowInv'
    <2>1. Reached(c.now)' /\ Reached(NoParts)'
      BY <1>0, <1>1, <1>6, RowsStay, NoPartsReached DEF FollowInv
    <2>2. Follows(c.now, {})'
      BY <1>4, RowsStay DEF Follows
    <2> QED BY <1>3, <2>1, <2>2 DEF FollowInv
  <1> QED BY <1>5, <1>6

LEMMA ChangedRowsKeeps ==
  ASSUME StoreOK, SyncTypeOK, UNCHANGED <<vars, late>>, ChangedRows
  PROVE  SyncTypeOK' /\ (FollowInv => FollowInv')
  <1>0. TopsProp
    BY TopsAre
  <1>1. PICK c \in Client : c = client
    BY DEF SyncTypeOK
  <1>2. NoParts \in Parts /\ c.pc = "rows" /\ UNCHANGED cache
    BY <1>0, <1>1, NoPartsReached DEF ChangedRows
  <1>3. FollowInv => /\ Reached(c.old)' /\ Reached(c.now)' /\ Reached(NoParts)'
                     /\ c.known /\ Follows(c.old, {})
    BY <1>0, <1>1, <1>2, RowsStay, NoPartsReached DEF FollowInv
  <1>4. CASE /\ client' = [c EXCEPT !.pc = "ready", !.read = {}, !.now = NoParts]
             /\ UNCHANGED cut
    <2>1. /\ client' \in Client /\ client'.pc = "ready" /\ client'.known = c.known
          /\ client'.old = c.old /\ client'.now = NoParts
      BY <1>2, <1>4 DEF Client
    <2>2. SyncTypeOK'
      BY <1>2, <1>4, <2>1 DEF SyncTypeOK
    <2>3. FollowInv => Follows(c.old, {})'
      BY <1>2, <1>3, <1>4, RowsStay
    <2> QED BY <1>3, <2>1, <2>2, <2>3 DEF FollowInv
  <1>5. CASE /\ client' = [c EXCEPT !.pc = "new", !.read = {}, !.known = FALSE,
                                    !.old = NoParts, !.now = NoParts]
             /\ UNCHANGED cut
    <2>1. /\ client' \in Client /\ client'.pc = "new" /\ client'.known = FALSE
          /\ client'.old = NoParts /\ client'.now = NoParts
      BY <1>2, <1>5 DEF Client
    <2>2. SyncTypeOK'
      BY <1>2, <1>5, <2>1 DEF SyncTypeOK
    <2> QED BY <1>3, <2>1, <2>2 DEF FollowInv
  <1>6. ASSUME NEW ids \in SUBSET Matching, client' = [c EXCEPT !.pc = "get", !.ids = ids],
               cut' = cut \cup (Matching \ ids)
        PROVE  SyncTypeOK' /\ (FollowInv => FollowInv')
    <2>1. ids \subseteq Stored /\ Matching \subseteq Ids
      BY <1>0 DEF Matching, TopsProp
    <2>2. /\ client' \in Client /\ client'.pc = "get" /\ client'.known = c.known
          /\ client'.old = c.old /\ client'.now = c.now /\ client'.ids = ids
      BY <1>6, <2>1 DEF Client
    <2>3. SyncTypeOK'
      BY <1>2, <1>6, <2>1, <2>2 DEF SyncTypeOK
    <2>4. ASSUME FollowInv PROVE Follows(c.now, ids)'
      <3>1. Follows(c.old, {})
        BY <1>3, <2>4
      <3>2. DOMAIN cache \subseteq Stored
        BY <3>1 DEF Follows
      <3>3. ASSUME NEW i \in Stored \ (ids \cup cut')
            PROVE  /\ ~(msgs[i].modSeq > c.old.maxModSeq) /\ ~(msgs[i].created > c.old.maxCreated)
                   /\ i \notin cut
        BY <1>1, <1>6, <3>3 DEF Matching, IsChanged, IsNew
      <3>4. ASSUME NEW i \in DOMAIN cache \ (ids \cup cut') PROVE cache[i] = Data(i)
        BY <3>1, <3>2, <3>3, <3>4 DEF Follows
      <3>5. ASSUME NEW i \in Stored \ (DOMAIN cache \cup ids \cup cut') PROVE i \in late
        BY <3>1, <3>3, <3>5 DEF Follows
      <3>6. Stored' = Stored /\ cache' = cache /\ late' = late /\ \A i : Data(i)' = Data(i)
        BY <1>2, RowsStay
      <3> QED BY <2>1, <3>2, <3>4, <3>5, <3>6 DEF Follows
    <2> QED BY <1>3, <2>2, <2>3, <2>4 DEF FollowInv
  <1>7. \A ids \in Found : ids \subseteq Matching
    BY DEF Found
  <1> QED BY <1>1, <1>4, <1>5, <1>6, <1>7
          DEF ChangedRows, Unaltered, ToldChanges, CannotCalculate

LEMMA GetChangedKeeps ==
  ASSUME StoreOK, SyncTypeOK, UNCHANGED <<vars, late>>, GetChanged
  PROVE  SyncTypeOK' /\ (FollowInv => FollowInv')
  <1>0. TopsProp
    BY TopsAre
  <1>1. PICK c \in Client : c = client
    BY DEF SyncTypeOK
  <1>2. /\ c.pc = "get"
        /\ client' = [c EXCEPT !.pc = "ready", !.read = {}, !.old = c.now, !.now = NoParts,
                             !.ids = {}]
        /\ cache' = [i \in DOMAIN cache \cup (c.ids \cap Stored) |->
                       IF i \in c.ids \cap Stored THEN Data(i) ELSE cache[i]]
        /\ cut' = cut \ c.ids
    BY <1>1 DEF GetChanged
  <1>3. /\ client' \in Client /\ client'.pc = "ready" /\ client'.known = c.known
        /\ client'.old = c.now /\ client'.now = NoParts
    BY <1>0, <1>2, NoPartsReached DEF Client
  <1>4. /\ DOMAIN cache' = DOMAIN cache \cup (c.ids \cap Stored)
        /\ \A i \in DOMAIN cache' : cache'[i] = IF i \in c.ids \cap Stored THEN Data(i)
                                                ELSE cache[i]
    BY <1>2
  <1>5. SyncTypeOK'
    BY <1>0, <1>2, <1>3, <1>4 DEF SyncTypeOK, TopsProp
  <1>6. ASSUME FollowInv PROVE FollowInv'
    <2>1. c.known /\ Reached(c.now)' /\ Reached(NoParts)'
      BY <1>0, <1>1, <1>2, <1>6, RowsStay, NoPartsReached DEF FollowInv
    <2>2. Follows(c.now, c.ids)
      BY <1>1, <1>2, <1>6 DEF FollowInv
    <2>3. DOMAIN cache' \subseteq Stored
      BY <1>4, <2>2 DEF Follows
    <2>4. ASSUME NEW i \in DOMAIN cache' \ cut'
          PROVE  cache'[i] = Data(i) \/ msgs[i].modSeq > c.now.maxModSeq
      BY <1>2, <1>4, <2>2, <2>4 DEF Follows
    <2>5. ASSUME NEW i \in Stored \ (DOMAIN cache' \cup cut')
          PROVE  i \in late \/ msgs[i].created > c.now.maxCreated
      BY <1>2, <1>4, <2>2, <2>5 DEF Follows
    <2>6. msgs' = msgs /\ late' = late
      BY DEF vars
    <2>7. Follows(c.now, {})'
      BY <2>3, <2>4, <2>5, <2>6, RowsStay DEF Follows
    <2> QED BY <1>3, <2>1, <2>7 DEF FollowInv
  <1> QED BY <1>5, <1>6

LEMMA SyncInvInit == SyncInit => SyncInv
  <1> SUFFICES ASSUME SyncInit PROVE SyncInv
    OBVIOUS
  <1>1. UidInv /\ TopsProp
    BY UidInvInit, TopsAre DEF SyncInit, UidInv
  <1>2. /\ client = [pc |-> "new", read |-> {}, known |-> FALSE, old |-> NoParts,
                     now |-> NoParts, ids |-> {}]
        /\ DOMAIN cache = {} /\ late = {} /\ cut = {}
    BY DEF SyncInit
  <1>3. SyncTypeOK
    BY <1>1, <1>2, NoPartsReached DEF SyncTypeOK, Client
  <1>4. \A w \in Writers : wr[w].pc = "idle"
    BY DEF SyncInit, Init, Idle
  <1>5. ~SharesStamp /\ ShownInv
    BY <1>4 DEF SharesStamp, ShownInv, Unshown
  <1>6. FollowInv
    BY <1>1, <1>2, NoPartsReached DEF FollowInv
  <1> QED BY <1>1, <1>3, <1>5, <1>6 DEF SyncInv

LEMMA SyncsKeep ==
  ASSUME SyncInv, Syncs \/ UNCHANGED syncVars
  PROVE  SyncInv'
  <1>1. StoreOK /\ SyncTypeOK
    BY DEF SyncInv, UidInv
  <1>2. UNCHANGED <<vars, late>>
    BY DEF Syncs, syncVars
  <1>3. SyncTypeOK' /\ (FollowInv => FollowInv')
    <2>1. CASE UNCHANGED syncVars
      <3>1. client' = client /\ cache' = cache /\ late' = late /\ cut' = cut
        BY <2>1 DEF syncVars
      <3> QED BY <1>1, <1>2, <3>1, RowsStay DEF SyncTypeOK, FollowInv
    <2> QED BY <1>1, <1>2, <2>1, AskStateKeeps, AggregateKeeps, MailboxRowKeeps, LoadKeeps,
               ChangedRowsKeeps, GetChangedKeeps DEF Syncs
  <1>4. UidInv'
    BY <1>2, UidInvPreserved DEF SyncInv
  <1>5. /\ SharesStamp' <=> SharesStamp
        /\ OnlyShown' <=> OnlyShown
        /\ ShownInv' <=> ShownInv
    BY <1>2 DEF vars, SharesStamp, Stamp, OnlyShown, ShownInv
  <1> QED BY <1>3, <1>4, <1>5 DEF SyncInv

LEMMA NextKeepsSync ==
  ASSUME SyncInv, Next, ComeLate, UNCHANGED <<client, cache, cut>>, Apart => ~SharesStamp'
  PROVE  SyncInv'
  <1>1. UidInv /\ UidInv' /\ StoreOK /\ StoreOK'
    BY UidInvPreserved DEF SyncInv, UidInv
  <1>2. TopsProp /\ TopsProp'
    BY <1>1, TopsAre, TopsAreNext
  <1>3. SyncTypeOK'
    <2>1. late' \subseteq Ids
      BY <1>2 DEF ComeLate, SyncInv, SyncTypeOK, TopsProp
    <2> QED BY <2>1 DEF SyncInv, SyncTypeOK
  <1>4. OnlyShown' => OnlyShown
    BY DEF Next, OnlyShown
  <1>5. OnlyShown' => ShownInv'
    BY <1>1, <1>4, ShownKept DEF SyncInv
  <1>6. ASSUME OnlyShown, Apart PROVE FollowInv'
    <2>1. FollowInv /\ ShownInv /\ ~SharesStamp /\ SyncTypeOK
      BY <1>6 DEF SyncInv
    <2>2. RowsGrow
      BY <1>1, <1>6, <2>1, ShownRowsGrow
    <2>3. PICK c \in Client : c = client
      BY <2>1 DEF SyncTypeOK
    <2>4. c.old \in Parts /\ c.now \in Parts /\ c' = c
      BY DEF Client
    <2>5. Reached(c.old) /\ Reached(c.now)
      BY <2>1, <2>3 DEF FollowInv
    <2>6. Reached(c.old)' /\ Reached(c.now)'
      BY <1>2, <2>2, <2>4, <2>5, ReachedMore
    <2>7. c.known /\ c.pc # "get" => Follows(c.old, {})'
      <3>1. c.known /\ c.pc # "get" => Follows(c.old, {})
        BY <2>1, <2>3 DEF FollowInv
      <3> QED BY <1>2, <2>2, <2>4, <2>5, <3>1, FollowsMore
    <2>8. c.pc = "get" => Follows(c.now, c.ids)'
      <3>1. c.pc = "get" => Follows(c.now, c.ids)
        BY <2>1, <2>3 DEF FollowInv
      <3> QED BY <1>2, <2>2, <2>4, <2>5, <3>1, FollowsMore
    <2>9. client' = c /\ (c.pc \in {"ready", "rows", "get"} => c.known)
      BY <2>1, <2>3 DEF FollowInv
    <2> QED BY <2>6, <2>7, <2>8, <2>9 DEF FollowInv
  <1> QED BY <1>1, <1>3, <1>4, <1>5, <1>6 DEF SyncInv

LEMMA SyncInvPreserved == SyncInv /\ [SyncNext]_syncVars => SyncInv'
  BY SyncsKeep, NextKeepsSync DEF SyncNext

(* What the JMAP client holds keeps its type, whoever writes beside it.    *)
THEOREM SyncTypes == SyncSpec => []SyncTypeOK
  <1>1. SyncInv => SyncTypeOK
    BY DEF SyncInv
  <1> QED BY <1>1, SyncInvInit, SyncInvPreserved, PTL DEF SyncSpec

(* A JMAP client whose state is the current one has, of the messages that  *)
(* neither came late nor were cut off a delta by the limit on its rows,    *)
(* all, each as it is now: state.ts and email-changes.ts                   *)
(* tell every stamp and every time above what the state has seen, however  *)
(* its two queries, the rows and the writers follow each other.            *)
THEOREM MissesOnlyLateAlways == SyncSpec => []MissesOnlyLate
  <1>1. SyncInv => MissesOnlyLate
    <2> SUFFICES ASSUME SyncInv, Apart, OnlyShown, IsCurrent
                 PROVE  /\ Stored \ (late \cup cut) \subseteq DOMAIN cache
                        /\ DOMAIN cache \subseteq Stored
                        /\ \A i \in DOMAIN cache \ cut : cache[i] = Data(i)
      BY DEF MissesOnlyLate
    <2>1. StoreOK /\ TopsProp
      BY TopsAre DEF SyncInv, UidInv
    <2>2. Follows(StateParts, {})
      BY DEF SyncInv, FollowInv, IsCurrent
    <2>3. StateParts.maxModSeq = TopSeq /\ StateParts.maxCreated = TopCreated
      BY <2>1, StatePartsTyped
    <2>4. ASSUME NEW i \in Stored
          PROVE  ~(msgs[i].modSeq > TopSeq) /\ ~(msgs[i].created > TopCreated)
      BY <2>1 DEF TopsProp
    <2>5. DOMAIN cache \subseteq Stored
      BY <2>2 DEF Follows
    <2> QED BY <2>2, <2>3, <2>4, <2>5 DEF Follows
  <1> QED BY <1>1, SyncInvInit, SyncInvPreserved, PTL DEF SyncSpec
==============================================================================
