------------------------------- MODULE MailStore -------------------------------
(***************************************************************************)
(* One mailbox in PostgreSQL and the requests that write it at the same    *)
(* time: SMTP delivery with its rule copies, IMAP APPEND, COPY, MOVE,      *)
(* STORE and EXPUNGE, JMAP create, update and destroy, EWS CreateItem and  *)
(* the MBOX import.                                                        *)
(*                                                                         *)
(* There is no lock and, JMAP update and destroy apart, no transaction: a  *)
(* request is a sequence of statements, each atomic, and the state between *)
(* two of them is what the other servers see.  A writer w is one request   *)
(* being served; wr[w] and snap[w] hold what it has read and not used yet. *)
(***************************************************************************)
EXTENDS Integers, FiniteSets

CONSTANTS
  Folders,        \* folders of the mailbox
  Ids,            \* message ids: bounds the messages ever created
  Writers,        \* requests served at the same time
  Mixes,          \* the mixes of clients: what each writer may be asked for
  Flags,          \* flags told apart
  RuleFlags,      \* flags the user's mail rules may set on delivery
  CounterLimit,   \* COUNTER_LIMIT: a modSeq below it is the mailbox counter
  MaxOps,         \* bound: requests served
  MaxClock,       \* bound: the last millisecond
  MaxUid,         \* bound: the UIDNEXT at which an import's file ends
  MaxCrashes      \* bound: requests that die half way

OpNames == {"deliver", "jmapCreate", "append", "createItem", "import", "copy",
            "move", "store", "expunge", "jmapUpdate", "jmapDestroy"}

ASSUME MailStoreAssumption ==
  /\ Folders # {}
  /\ IsFiniteSet(Ids) /\ IsFiniteSet(Writers)
  /\ Mixes \subseteq [Writers -> SUBSET OpNames]
  /\ RuleFlags \subseteq Flags
  /\ CounterLimit \in Nat
  /\ MaxOps \in Nat /\ MaxClock \in Nat \ {0} /\ MaxUid \in Nat /\ MaxCrashes \in Nat

VARIABLES
  mix,                      \* the clients of this mailbox
  uidNext, highestModSeq,   \* the mailbox row
  msgs,                     \* the message rows, by id
  total,                    \* totalCount of each folder
  wr,                       \* the requests under way
  snap,                     \* the rows a request has read, as it writes them
  clock,                    \* Date.now(), in milliseconds
  given,                    \* history: the UID of every message ever created
  ops, crashes

vars == <<mix, uidNext, highestModSeq, msgs, total, wr, snap, clock, given, ops,
          crashes>>

Row == [folder : Folders, uid : Nat, modSeq : Nat, flags : SUBSET Flags,
        live : BOOLEAN, created : Nat]

IsRows(rows) == DOMAIN rows \subseteq Ids /\ rows \in [DOMAIN rows -> Row]

Pcs == {"idle", "insert", "copies", "count", "bump", "next", "sources",
        "reserve", "move", "store", "expunge", "update", "destroy"}

Request == [pc : Pcs, op : OpNames \cup {"none", "ruleCopy"},
            folder : Folders, home : Folders, copies : SUBSET Folders,
            uid : Nat, modSeq : Nat, flags : SUBSET Flags, since : Nat]

StoreOK ==
  /\ uidNext \in Nat \ {0}
  /\ highestModSeq \in Nat
  /\ IsRows(msgs)
  /\ total \in [Folders -> Int]
  /\ wr \in [Writers -> Request]
  /\ DOMAIN snap = Writers /\ \A w \in Writers : IsRows(snap[w])
  /\ clock \in 1..MaxClock
  /\ given \subseteq Ids \X Nat
  /\ ops \in 0..MaxOps
  /\ crashes \in 0..MaxCrashes

TypeOK == mix \in Mixes /\ StoreOK

AnyFolder == CHOOSE f \in Folders : TRUE

NoRows == [i \in {} |-> [folder |-> AnyFolder, uid |-> 0, modSeq |-> 0,
                         flags |-> {}, live |-> FALSE, created |-> 0]]

Idle == [pc |-> "idle", op |-> "none", folder |-> AnyFolder, home |-> AnyFolder,
         copies |-> {}, uid |-> 0, modSeq |-> 0, flags |-> {}, since |-> 0]

Init ==
  /\ mix \in Mixes
  /\ uidNext = 1
  /\ highestModSeq = 0
  /\ msgs = NoRows
  /\ total = [f \in Folders |-> 0]
  /\ wr = [w \in Writers |-> Idle]
  /\ snap = [w \in Writers |-> NoRows]
  /\ clock = 1
  /\ given = {}
  /\ ops = 0
  /\ crashes = 0

-----------------------------------------------------------------------------
(* Message rows. *)

Live(f) == {i \in DOMAIN msgs : msgs[i].folder = f /\ msgs[i].live}

(* @@unique([folderId, uid]): a statement that breaks it fails. *)
Unique(rows) ==
  \A i, j \in DOMAIN rows :
    rows[i].folder = rows[j].folder /\ rows[i].uid = rows[j].uid => i = j

Taken(f, u) == \E i \in DOMAIN msgs : msgs[i].folder = f /\ msgs[i].uid = u

Only(rows, S) == [i \in S |-> rows[i]]

Added(i, row) ==
  [j \in DOMAIN msgs \cup {i} |-> IF j = i THEN row ELSE msgs[j]]

NewIds == Ids \ {p[1] : p \in given}

(* A value of Date.now() between the request's last statement and now; as  *)
(* a modSeq it lies above every mailbox counter.                           *)
Times(w) == wr[w].since..clock
Stamp(t) == CounterLimit + t

(* The mailbox row is changed by one UPDATE with increment; the UID is the *)
(* value it had before.                                                    *)
FirstFree_AboveHighest ==   \* mutant: above the messages there are now
  CHOOSE u \in 1..uidNext :
    /\ \A i \in DOMAIN msgs : msgs[i].uid < u
    /\ \A v \in 1..(u - 1) : \E i \in DOMAIN msgs : msgs[i].uid >= v
FirstFree == uidNext

Begins(w, op) ==
  /\ wr[w].pc = "idle"
  /\ op \in mix[w]
  /\ ops < MaxOps
  /\ ops' = ops + 1

Becomes(w, request) == wr' = [wr EXCEPT ![w] = request]

Holds(w, rows) == snap' = [snap EXCEPT ![w] = rows]

Ends(w) == Becomes(w, Idle) /\ Holds(w, NoRows)

-----------------------------------------------------------------------------
(* Operations that create one message: allocate a UID, insert the row,     *)
(* update the folder.                                                      *)

(* SMTP delivery and JMAP create take the UID and the mod-sequence from    *)
(* one UPDATE.                                                             *)
Allocate(w) ==
  \E op \in {"deliver", "jmapCreate"}, f \in Folders, fl \in SUBSET Flags,
     cp \in SUBSET Folders :
    /\ Begins(w, op)
    /\ op = "deliver" => f \notin cp /\ fl \subseteq RuleFlags
    /\ op = "jmapCreate" => cp = {} /\ "Deleted" \notin fl
    /\ uidNext' = uidNext + 1
    /\ highestModSeq' = highestModSeq + 1
    /\ Becomes(w, [Idle EXCEPT !.pc = "insert", !.op = op, !.folder = f,
                               !.home = f, !.copies = cp, !.uid = FirstFree,
                               !.modSeq = highestModSeq + 1, !.flags = fl,
                               !.since = clock])
    /\ UNCHANGED <<msgs, total, snap, clock, given, crashes>>

(* APPEND, CreateItem and the import take a UID only.  APPEND derives the  *)
(* mod-sequence from the row it got back; the import took its UID from the *)
(* mailbox it read before the first message.                               *)
AllocateUid(w) ==
  /\ \/ \E op \in {"append", "createItem"}, f \in Folders, fl \in SUBSET Flags :
          /\ Begins(w, op)
          /\ Becomes(w, [Idle EXCEPT !.pc = "insert", !.op = op, !.folder = f,
                                     !.uid = FirstFree,
                                     !.modSeq = highestModSeq + 1,
                                     !.flags = fl, !.since = clock])
     \/ /\ wr[w].pc = "next"
        /\ uidNext < MaxUid
        /\ Becomes(w, [wr[w] EXCEPT !.pc = "insert", !.since = clock])
        /\ UNCHANGED ops
  /\ uidNext' = uidNext + 1
  /\ UNCHANGED <<highestModSeq, msgs, total, snap, clock, given, crashes>>

ImportOpen(w) ==
  \E f \in Folders :
    /\ Begins(w, "import")
    /\ Becomes(w, [Idle EXCEPT !.pc = "next", !.op = "import", !.folder = f,
                               !.uid = uidNext])
    /\ UNCHANGED <<uidNext, highestModSeq, msgs, total, snap, clock, given, crashes>>

ImportClose(w) ==
  /\ wr[w].pc = "next"
  /\ Becomes(w, Idle)
  /\ UNCHANGED <<uidNext, highestModSeq, msgs, total, snap, clock, given, ops, crashes>>

(* The values the columns of the new row may get. *)
ModSeqs(w) ==
  IF wr[w].op \in {"createItem", "import"} THEN {Stamp(t) : t \in Times(w)}
  ELSE {wr[w].modSeq}

(* receivedAt of a JMAP client becomes createdAt; else it is now(). *)
CreationTimes(w) == IF wr[w].op = "jmapCreate" THEN 0..clock ELSE Times(w)

AfterInsert(w) ==
  [wr[w] EXCEPT !.pc = IF wr[w].op = "deliver" THEN "copies"
                       ELSE IF wr[w].op = "append" THEN "bump" ELSE "count"]

(* A rule copy and an imported message that fail are skipped, any other    *)
(* failure ends the request.                                               *)
AfterRefusal(w) ==
  IF wr[w].op = "ruleCopy" THEN [wr[w] EXCEPT !.pc = "copies"]
  ELSE IF wr[w].op = "import" THEN [wr[w] EXCEPT !.pc = "next"]
  ELSE Idle

Insert(w) ==
  /\ wr[w].pc = "insert"
  /\ wr[w].op # "copy"
  /\ \/ /\ Taken(wr[w].folder, wr[w].uid)
        /\ Becomes(w, AfterRefusal(w))
        /\ UNCHANGED <<msgs, given>>
     \/ /\ ~Taken(wr[w].folder, wr[w].uid)
        /\ \E i \in NewIds, m \in ModSeqs(w), c \in CreationTimes(w) :
             /\ msgs' = Added(i, [folder |-> wr[w].folder, uid |-> wr[w].uid,
                                  modSeq |-> m, flags |-> wr[w].flags,
                                  live |-> TRUE, created |-> c])
             /\ given' = given \cup {<<i, wr[w].uid>>}
        /\ Becomes(w, AfterInsert(w))
  /\ UNCHANGED <<uidNext, highestModSeq, total, snap, clock, ops, crashes>>

(* The loop over the copy targets of the rules, before the delivered       *)
(* message itself is counted.                                              *)
RuleCopy(w) ==
  /\ wr[w].pc = "copies"
  /\ \E f \in wr[w].copies :
       Becomes(w, [wr[w] EXCEPT !.pc = "insert", !.op = "ruleCopy", !.folder = f,
                                !.copies = @ \ {f}, !.uid = FirstFree,
                                !.modSeq = highestModSeq + 1, !.since = clock])
  /\ uidNext' = uidNext + 1
  /\ highestModSeq' = highestModSeq + 1
  /\ UNCHANGED <<msgs, total, snap, clock, given, ops, crashes>>

CopiesDone(w) ==
  /\ wr[w].pc = "copies"
  /\ wr[w].copies = {}
  /\ Becomes(w, [wr[w] EXCEPT !.pc = "count", !.op = "deliver", !.folder = wr[w].home])
  /\ UNCHANGED <<uidNext, highestModSeq, msgs, total, snap, clock, given, ops, crashes>>

AfterCount(w) ==
  IF wr[w].op = "ruleCopy" THEN [wr[w] EXCEPT !.pc = "copies"]
  ELSE IF wr[w].op = "import" THEN [wr[w] EXCEPT !.pc = "next"]
  ELSE Idle

CountedIn_Home(w) == wr[w].home   \* mutant: a rule copy counts for the inbox
CountedIn(w) == wr[w].folder

Count(w) ==
  /\ wr[w].pc = "count"
  /\ total' = [total EXCEPT ![CountedIn(w)] = @ + 1]
  /\ Becomes(w, AfterCount(w))
  /\ UNCHANGED <<uidNext, highestModSeq, msgs, snap, clock, given, ops, crashes>>

(* APPEND and COPY raise highestModSeq last. *)
BumpModSeq(w) ==
  /\ wr[w].pc = "bump"
  /\ highestModSeq' = highestModSeq + 1
  /\ Becomes(w, Idle)
  /\ UNCHANGED <<uidNext, msgs, total, snap, clock, given, ops, crashes>>

-----------------------------------------------------------------------------
(* IMAP COPY: the mailbox row is read with the target folder, the UIDs are *)
(* reserved two statements later, and what was read is what is used.       *)

CopyTarget(w) ==
  \E source, target \in Folders :
    /\ Begins(w, "copy")
    /\ Becomes(w, [Idle EXCEPT !.pc = "sources", !.op = "copy", !.folder = target,
                               !.home = source, !.uid = uidNext,
                               !.modSeq = highestModSeq + 1])
    /\ UNCHANGED <<uidNext, highestModSeq, msgs, total, snap, clock, given, crashes>>

(* The messages of the selected folder that the sequence set names. *)
CopySources(w) ==
  /\ wr[w].pc = "sources"
  /\ \/ Becomes(w, Idle) /\ UNCHANGED snap
     \/ \E S \in (SUBSET Live(wr[w].home)) \ {{}} :
          /\ Becomes(w, [wr[w] EXCEPT !.pc = "reserve"])
          /\ Holds(w, Only(msgs, S))
  /\ UNCHANGED <<uidNext, highestModSeq, msgs, total, clock, given, ops, crashes>>

Reserved(w) == Cardinality(DOMAIN snap[w])

CopyReserve(w) ==
  /\ wr[w].pc = "reserve"
  /\ uidNext' = uidNext + Reserved(w)
  /\ Becomes(w, [wr[w] EXCEPT !.pc = "insert", !.since = clock])
  /\ UNCHANGED <<highestModSeq, msgs, total, snap, clock, given, ops, crashes>>

Lowest(rows, i)  == \A j \in DOMAIN rows : rows[i].uid <= rows[j].uid
Highest(rows, i) == \A j \in DOMAIN rows : rows[i].uid >= rows[j].uid

CopyInsert(w) ==
  /\ wr[w].pc = "insert"
  /\ wr[w].op = "copy"
  /\ \/ /\ Taken(wr[w].folder, wr[w].uid)
        /\ Ends(w)
        /\ UNCHANGED <<msgs, given>>
     \/ /\ ~Taken(wr[w].folder, wr[w].uid)
        /\ \E i \in DOMAIN snap[w], k \in NewIds, c \in Times(w) :
             LET rest == DOMAIN snap[w] \ {i} IN
             /\ Lowest(snap[w], i)
             /\ msgs' = Added(k, [folder |-> wr[w].folder, uid |-> wr[w].uid,
                                  modSeq |-> wr[w].modSeq,
                                  flags |-> snap[w][i].flags,
                                  live |-> TRUE, created |-> c])
             /\ given' = given \cup {<<k, wr[w].uid>>}
             /\ Becomes(w, [wr[w] EXCEPT !.pc = IF rest = {} THEN "bump" ELSE "insert",
                                         !.uid = @ + 1])
             /\ Holds(w, Only(snap[w], rest))
  /\ UNCHANGED <<uidNext, highestModSeq, total, clock, ops, crashes>>

-----------------------------------------------------------------------------
(* Operations that change messages they have read before. *)

Reads(w, op, pc, rows, target) ==
  /\ Begins(w, op)
  /\ DOMAIN rows # {}
  /\ Becomes(w, [Idle EXCEPT !.pc = pc, !.op = op, !.folder = target, !.since = clock])
  /\ Holds(w, rows)
  /\ UNCHANGED <<uidNext, highestModSeq, msgs, total, clock, given, crashes>>

(* IMAP MOVE: one UPDATE of folderId; the messages keep their UIDs. *)
MoveRead(w) ==
  \E source, target \in Folders : \E S \in SUBSET Live(source) :
    Reads(w, "move", "move", Only(msgs, S), target)

MovedRows(w) ==
  [i \in DOMAIN msgs |->
     [msgs[i] EXCEPT !.folder = IF i \in DOMAIN snap[w] THEN wr[w].folder ELSE @]]

MoveWrite(w) ==
  /\ wr[w].pc = "move"
  /\ \/ Unique(MovedRows(w)) /\ msgs' = MovedRows(w)
     \/ ~Unique(MovedRows(w)) /\ UNCHANGED msgs
  /\ Ends(w)
  /\ UNCHANGED <<uidNext, highestModSeq, total, clock, given, ops, crashes>>

(* The loops of STORE and EXPUNGE: an UPDATE per message, and an error     *)
(* that ends the command if the row is gone.                               *)
NextRow(w, rest) ==
  \/ rest = {} /\ Ends(w)
  \/ /\ rest # {}
     /\ Holds(w, Only(snap[w], rest))
     /\ UNCHANGED wr

RowGone(w, i) == i \notin DOMAIN msgs /\ Ends(w) /\ UNCHANGED msgs

(* STORE computes the new flags from the flags it read. *)
NewFlags(mode, old, fl) ==
  CASE mode = "FLAGS"  -> fl
    [] mode = "+FLAGS" -> old \cup fl
    [] mode = "-FLAGS" -> old \ fl

StoreRead(w) ==
  \E source \in Folders, fl \in SUBSET Flags, mode \in {"FLAGS", "+FLAGS", "-FLAGS"} :
    \E S \in SUBSET Live(source) :
      Reads(w, "store", "store",
            [i \in S |-> [msgs[i] EXCEPT !.flags = NewFlags(mode, @, fl)]], source)

StoreWrite(w) ==
  /\ wr[w].pc = "store"
  /\ \E i \in DOMAIN snap[w] :
       /\ Lowest(snap[w], i)
       /\ \/ RowGone(w, i)
          \/ /\ i \in DOMAIN msgs
             /\ msgs' = Added(i, [msgs[i] EXCEPT !.flags = snap[w][i].flags,
                                                 !.modSeq = @ + 1])
             /\ NextRow(w, DOMAIN snap[w] \ {i})
  /\ UNCHANGED <<uidNext, highestModSeq, total, clock, given, ops, crashes>>

ExpungeRead(w) ==
  \E source \in Folders :
    Reads(w, "expunge", "expunge",
          Only(msgs, {i \in Live(source) : "Deleted" \in msgs[i].flags}), source)

ExpungeWrite(w) ==
  /\ wr[w].pc = "expunge"
  /\ \E i \in DOMAIN snap[w] :
       /\ Highest(snap[w], i)
       /\ \/ RowGone(w, i)
          \/ /\ i \in DOMAIN msgs
             /\ msgs' = Added(i, [msgs[i] EXCEPT !.live = FALSE])
             /\ NextRow(w, DOMAIN snap[w] \ {i})
  /\ UNCHANGED <<uidNext, highestModSeq, total, clock, given, ops, crashes>>

(* JMAP Email/set update: new keywords, a new mailbox, or both.  \Deleted   *)
(* is no keyword and stays.  The row and the counters are written in one   *)
(* transaction, from the folder that was read.                             *)
UpdateRead(w) ==
  \E i \in DOMAIN msgs, target \in Folders, kw \in SUBSET (Flags \ {"Deleted"}) :
    /\ msgs[i].live
    /\ Reads(w, "jmapUpdate", "update",
             [j \in {i} |-> [msgs[i] EXCEPT
                               !.flags = kw \cup (@ \cap {"Deleted"})]], target)

One(b) == IF b THEN 1 ELSE 0

CountMove_OnlyTarget(from, to) ==   \* mutant: the old folder is forgotten
  [f \in Folders |-> total[f] + One(f = to /\ from # to)]
CountMove(from, to) ==
  [f \in Folders |-> total[f] + One(f = to) - One(f = from)]

UpdatedRows(w, i, t) ==
  Added(i, [msgs[i] EXCEPT !.flags = snap[w][i].flags, !.folder = wr[w].folder,
                           !.modSeq = Stamp(t)])

UpdateWrite(w) ==
  /\ wr[w].pc = "update"
  /\ \E i \in DOMAIN snap[w], t \in Times(w) :
       LET done == i \in DOMAIN msgs /\ Unique(UpdatedRows(w, i, t)) IN
       \/ /\ done
          /\ msgs' = UpdatedRows(w, i, t)
          /\ total' = CountMove(snap[w][i].folder, wr[w].folder)
       \/ /\ ~done
          /\ UNCHANGED <<msgs, total>>
  /\ Ends(w)
  /\ UNCHANGED <<uidNext, highestModSeq, clock, given, ops, crashes>>

(* JMAP Email/set destroy: the row is deleted, not marked. *)
DestroyRead(w) ==
  \E i \in DOMAIN msgs :
    Reads(w, "jmapDestroy", "destroy", Only(msgs, {i}), msgs[i].folder)

DestroyWrite(w) ==
  /\ wr[w].pc = "destroy"
  /\ \/ /\ DOMAIN snap[w] \subseteq DOMAIN msgs
        /\ msgs' = Only(msgs, DOMAIN msgs \ DOMAIN snap[w])
        /\ total' = [total EXCEPT ![wr[w].folder] = @ - 1]
     \/ /\ ~(DOMAIN snap[w] \subseteq DOMAIN msgs)
        /\ UNCHANGED <<msgs, total>>
  /\ Ends(w)
  /\ UNCHANGED <<uidNext, highestModSeq, clock, given, ops, crashes>>

-----------------------------------------------------------------------------
Tick ==
  /\ clock < MaxClock
  /\ clock' = clock + 1
  /\ UNCHANGED <<uidNext, highestModSeq, msgs, total, wr, snap, given, ops, crashes>>

(* The process that serves the request dies: what it has not written yet   *)
(* is never written.                                                       *)
Crash(w) ==
  /\ wr[w].pc # "idle"
  /\ crashes < MaxCrashes
  /\ crashes' = crashes + 1
  /\ Ends(w)
  /\ UNCHANGED <<uidNext, highestModSeq, msgs, total, clock, given, ops>>

Creates(w) ==
  \/ Allocate(w) \/ AllocateUid(w) \/ ImportOpen(w) \/ ImportClose(w)
  \/ Insert(w) \/ RuleCopy(w) \/ CopiesDone(w) \/ Count(w) \/ BumpModSeq(w)

Copies(w) ==
  CopyTarget(w) \/ CopySources(w) \/ CopyReserve(w) \/ CopyInsert(w)

Changes(w) ==
  \/ MoveRead(w) \/ MoveWrite(w) \/ StoreRead(w) \/ StoreWrite(w)
  \/ ExpungeRead(w) \/ ExpungeWrite(w) \/ UpdateRead(w) \/ UpdateWrite(w)
  \/ DestroyRead(w) \/ DestroyWrite(w)

Next ==
  /\ UNCHANGED mix
  /\ Tick \/ \E w \in Writers : Creates(w) \/ Copies(w) \/ Changes(w) \/ Crash(w)

Spec == Init /\ [][Next]_vars

-----------------------------------------------------------------------------
(* The UIDNEXT that SELECT and STATUS announce is above the UID of every   *)
(* message there is or ever was, whoever wrote it: a client that asks for  *)
(* UIDNEXT:* later gets every new message.  COPY relies on it too: it uses *)
(* a UIDNEXT that may be old, but reserves before it inserts.              *)
UidsBelowNext == \A p \in given : p[2] < uidNext

(* Nobody copies over IMAP or imports an MBOX file: every request takes    *)
(* its UID from the increment itself.                                      *)
AllocateOnly == \A w \in Writers : mix[w] \cap {"copy", "import"} = {}

(* A UID names one message of the mailbox for ever, in whatever folder it  *)
(* is now.  MOVE, JMAP update and the move to Trash keep the UID when they *)
(* change the folder, so nothing less than this makes them safe.           *)
EachUidOnce == \A p, q \in given : p[2] = q[2] => p = q

UidsNeverReused == AllocateOnly => EachUidOnce

(* A request that has allocated a UID is not refused by the unique index:  *)
(* the message it accepted gets stored.  COPY too reserves UIDs: see       *)
(* ReservationsHold.                                                       *)
ReservationsHold ==
  \A w \in Writers : wr[w].pc = "insert" => ~Taken(wr[w].folder, wr[w].uid)

InsertNotRefused == AllocateOnly => ReservationsHold

(* What clients and handlers take for granted of a UID: below UIDNEXT for  *)
(* every kind of request, one message's for ever and free for the insert   *)
(* for those that allocate.                                                *)
UidsAreSound == UidsBelowNext /\ UidsNeverReused /\ InsertNotRefused

(* The requests that keep totalCount, or need not: the others change what  *)
(* there is to count and leave it alone.  One of the clients updates and   *)
(* destroys: two that have read the same row both count it out of there.   *)
CountingOnly ==
  /\ \A w \in Writers :
       mix[w] \subseteq {"deliver", "jmapCreate", "createItem", "import", "store",
                       "jmapUpdate", "jmapDestroy"}
  /\ \A v, w \in Writers :
       /\ mix[v] \cap {"jmapUpdate", "jmapDestroy"} # {}
       /\ mix[w] \cap {"jmapUpdate", "jmapDestroy"} # {}
       => v = w

(* totalCount of a folder is the number of its messages, less those whose  *)
(* request has not come to its folder.update yet: the mailbox list of JMAP *)
(* and EWS shows what is there once the requests are done.  (A request     *)
(* that dies leaves its count undone for ever.)                            *)
Owed(f) ==
  {w \in Writers : \/ wr[w].pc = "count" /\ wr[w].folder = f
                   \/ wr[w].op = "ruleCopy" /\ wr[w].home = f
                   \/ wr[w].pc = "copies" /\ wr[w].home = f}

TotalsAgree ==
  CountingOnly /\ crashes = 0 =>
    \A f \in Folders : total[f] + Cardinality(Owed(f)) = Cardinality(Live(f))

=============================================================================
