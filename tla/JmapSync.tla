-------------------------------- MODULE JmapSync --------------------------------
(***************************************************************************)
(* A JMAP client that keeps a copy of the mailbox with Email/changes while *)
(* MailStore's requests write it: the state string of state.ts, the delta  *)
(* of email-changes.ts and the Email/get that follows.                     *)
(*                                                                         *)
(* The client is external.  It does what RFC 8620 asks of one: it takes a  *)
(* state, loads everything, and from then on applies changes; when the     *)
(* server cannot calculate them it starts again.                           *)
(***************************************************************************)
EXTENDS MailStore, FiniteSetsExt

CONSTANTS
  Apart,     \* JMAP updates never share a millisecond with another stamp
  MaxRows    \* rows of a delta, 5000 in the code

ASSUME SyncAssumption == MaxRows \in Nat \ {0}

VARIABLES
  client,   \* how far the client's request is, and the state it holds
  cache,    \* the client's copy
  late,     \* history: messages that the state's maxCreated was not below when they came
  cut       \* history: messages that the limit kept out of a delta, and no later one brought

syncVars == <<vars, client, cache, late, cut>>

Parts == [maxModSeq : Nat, highestModSeq : Nat, maxCreated : Nat, count : Nat]

Client == [pc : {"new", "ready", "state", "load", "rows", "get"},
           read : SUBSET {"messages", "mailbox"}, known : BOOLEAN,
           old : Parts, now : Parts, ids : SUBSET Ids]

SyncTypeOK == client \in Client /\ DOMAIN cache \subseteq Ids /\ late \cup cut \subseteq Ids

NoParts == [maxModSeq |-> 0, highestModSeq |-> 0, maxCreated |-> 0, count |-> 0]

SyncInit ==
  /\ Init
  /\ client = [pc |-> "new", read |-> {}, known |-> FALSE, old |-> NoParts,
               now |-> NoParts, ids |-> {}]
  /\ cache = [i \in {} |-> NoParts]
  /\ late = {} /\ cut = {}

-----------------------------------------------------------------------------
Stored == UNION {Live(f) : f \in Folders}

(* What a client shows of a message. *)
Data(i) == [flags |-> msgs[i].flags, folder |-> msgs[i].folder]

Largest(S) == Max(S \cup {0})

(* mutant: the aggregate has no _max of modSeq                             *)
StateParts_NoModSeq ==
  [maxModSeq     |-> 0,
   highestModSeq |-> highestModSeq,
   maxCreated    |-> Largest({msgs[i].created : i \in Stored}),
   count         |-> Cardinality(Stored)]
(* emailStateParts: one aggregate over the messages and one read of the    *)
(* mailbox row, sent together and answered in any order.                   *)
StateParts ==
  [maxModSeq     |-> Largest({msgs[i].modSeq : i \in Stored}),
   highestModSeq |-> highestModSeq,
   maxCreated    |-> Largest({msgs[i].created : i \in Stored}),
   count         |-> Cardinality(Stored)]

AskState ==
  /\ client.pc \in {"new", "ready"}
  /\ client' = [client EXCEPT !.pc = "state"]
  /\ UNCHANGED <<cache, cut>>

AfterState == IF client.known THEN "rows" ELSE "load"

AggregateMessages ==
  /\ client.pc = "state"
  /\ "messages" \notin client.read
  /\ client' = [client EXCEPT
       !.pc = IF "mailbox" \in client.read THEN AfterState ELSE @,
       !.read = @ \cup {"messages"},
       !.now = [StateParts EXCEPT !.highestModSeq = client.now.highestModSeq]]
  /\ UNCHANGED <<cache, cut>>

ReadMailboxRow ==
  /\ client.pc = "state"
  /\ "mailbox" \notin client.read
  /\ client' = [client EXCEPT
       !.pc = IF "messages" \in client.read THEN AfterState ELSE @,
       !.read = @ \cup {"mailbox"},
       !.now.highestModSeq = highestModSeq]
  /\ UNCHANGED <<cache, cut>>

(* The first load: the state came first, so what is newer shows up as a    *)
(* change later.                                                           *)
Load ==
  /\ client.pc = "load"
  /\ client' = [client EXCEPT !.pc = "ready", !.read = {}, !.known = TRUE,
                           !.old = client.now, !.now = NoParts]
  /\ cache' = [i \in Stored |-> Data(i)]
  /\ cut' = {}

(* changedMessageIds *)
IsNew(i) == msgs[i].created > client.old.maxCreated

IsChanged(i) ==
  \/ IsNew(i)
  \/ msgs[i].modSeq > client.old.maxModSeq
  \/ msgs[i].modSeq < CounterLimit /\ msgs[i].modSeq > client.old.highestModSeq

(* The rows of the query, which orders nothing: of more than MaxRows, any. *)
Matching == {i \in Stored : IsChanged(i)}

Found == {rows \in SUBSET Matching :
            Cardinality(rows) = Min({MaxRows, Cardinality(Matching)})}

(* Old count and newly created among the rows must give the current count. *)
Calculable(rows) ==
  client.old.count + Cardinality({i \in rows : IsNew(i)}) = client.now.count

Unaltered ==
  /\ client.old = client.now
  /\ client' = [client EXCEPT !.pc = "ready", !.read = {}, !.now = NoParts]
  /\ UNCHANGED cut

(* The answer names the new state, whether or not the limit has cut the    *)
(* rows off.                                                               *)
ToldChanges(rows) ==
  /\ client.old # client.now /\ Calculable(rows)
  /\ client' = [client EXCEPT !.pc = "get", !.ids = rows]
  /\ cut' = cut \cup (Matching \ rows)

CannotCalculate(rows) ==
  /\ client.old # client.now /\ ~Calculable(rows)
  /\ client' = [client EXCEPT !.pc = "new", !.read = {}, !.known = FALSE,
                              !.old = NoParts, !.now = NoParts]
  /\ UNCHANGED cut

ChangedRows ==
  /\ client.pc = "rows"
  /\ Unaltered \/ \E rows \in Found : ToldChanges(rows) \/ CannotCalculate(rows)
  /\ UNCHANGED cache

(* Email/get for the changed messages. *)
GetChanged ==
  /\ client.pc = "get"
  /\ cache' = [i \in DOMAIN cache \cup (client.ids \cap Stored) |->
                 IF i \in client.ids \cap Stored THEN Data(i) ELSE cache[i]]
  /\ client' = [client EXCEPT !.pc = "ready", !.read = {}, !.old = client.now,
                           !.now = NoParts, !.ids = {}]
  /\ cut' = cut \ client.ids

Syncs ==
  /\ \/ AskState \/ AggregateMessages \/ ReadMailboxRow \/ Load
     \/ ChangedRows \/ GetChanged
  /\ UNCHANGED <<vars, late>>

(* A JMAP update that begins in the millisecond of an earlier stamp.       *)
SharesStamp ==
  \E w \in Writers, i \in DOMAIN msgs :
    wr[w].pc = "update" /\ msgs[i].modSeq >= Stamp(wr[w].since)

(* Those that come with a createdAt that is not above all there are.       *)
ComeLate ==
  late' = late \cup {i \in Stored' \ Stored :
                        msgs'[i].created <= Largest({msgs[j].created : j \in Stored})}

SyncNext ==
  \/ Syncs
  \/ Next /\ ComeLate /\ UNCHANGED <<client, cache, cut>> /\ (Apart => ~SharesStamp')

SyncSpec == SyncInit /\ [][SyncNext]_syncVars

-----------------------------------------------------------------------------
(* "/changes misses nothing" (state.ts): once the writers are done, a      *)
(* client whose state is the current one has the current messages.  If it  *)
(* has not, no later /changes will tell it.                                *)
IsCurrent ==
  /\ client.pc = "ready"
  /\ \A w \in Writers : wr[w].pc = "idle"
  /\ client.old = StateParts

ChangesMissNothing == IsCurrent => cache = [i \in Stored |-> Data(i)]

(* The requests whose effects a state can show: they add messages, or      *)
(* stamp those that they change.  The others change rows unstamped (MOVE), *)
(* add one to the stamp (STORE) or remove rows.                            *)
OnlyShown ==
  \A w \in Writers :
    mix[w] \subseteq {"deliver", "jmapCreate", "append", "createItem", "import", "copy",
                     "jmapUpdate"}

(* What it misses is no more than messages that came with a createdAt not  *)
(* above the state's, and those that the limit cut off a delta whose count *)
(* came out right: the copy has all others, each as it is now, and nothing *)
(* else.                                                                   *)
MissesOnlyLate ==
  Apart /\ OnlyShown /\ IsCurrent =>
    /\ Stored \ (late \cup cut) \subseteq DOMAIN cache /\ DOMAIN cache \subseteq Stored
    /\ \A i \in DOMAIN cache \ cut : cache[i] = Data(i)

=============================================================================
