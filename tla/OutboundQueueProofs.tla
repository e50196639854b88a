------------------------- MODULE OutboundQueueProofs -------------------------
(***************************************************************************)
(* Theorems about OutboundQueue, for any recipients, hops, hosts and       *)
(* bounds.                                                                 *)
(*                                                                         *)
(* The invariant follows one attempt: pc and the queue state agree, what   *)
(* the attempt no longer has to do is done, and a recipient still to be    *)
(* served has no more copies than the earlier failures, the crashes and    *)
(* the hosts this attempt was rejected by account for.                     *)
(***************************************************************************)
EXTENDS OutboundQueue, TLAPS

PartyOf(r) == IF r \in Local THEN r ELSE HopOf[r]

(* The running or next attempt has yet to serve r. *)
Ahead(r) ==
  \/ jobState \in {"delayed", "waiting", "stalled", "backoff", "failed"}
  \/ pc \in {"check", "build"}
  \/ pc = "deliver" /\ PartyOf(r) \in todo

(* What r may have at most, and how many hosts of r's domain this attempt  *)
(* already went through.                                                   *)
Room(r)  == HostsOf(r) * (1 + attemptsMade + crashes)
Begun(r) == IF r \in Local THEN 0 ELSE tried[HopOf[r]]

PcInv == pc = "idle" <=> jobState # "active"

DoneInv ==
  /\ pc = "deliver" => \A p \in Parties \ todo : Served(p)
  /\ pc = "complete" => EveryoneServed \/ seen.stopped

CopiesInv ==
  /\ \A h \in Hop : tried[h] < Hosts[h]
  /\ \A r \in Rcpts : Ahead(r) => copies[r] + HostsOf(r) <= Room(r) + Begun(r)

CancelInv ==
  seen.cancelFirst => schedStatus = "CANCELLED" /\ pc \notin {"build", "deliver"}

IInv ==
  /\ TypeOK
  /\ PcInv
  /\ DoneInv
  /\ SentMeansServed
  /\ CompletedMeansServed
  /\ CopiesInv
  /\ CopiesBounded
  /\ CancelInv

-----------------------------------------------------------------------------
(* Type correctness on its own. *)
LEMMA InitTypeOK == Init => TypeOK
BY BoundAssumption DEF Init, TypeOK, JobStates, Parties, Rcpts, NoneTried

LEMMA FailTypeOK ==
  ASSUME TypeOK, NEW fiveXX \in BOOLEAN, FailAttempt(fiveXX),
         copies' \in [Rcpts -> Nat]
  PROVE  TypeOK'
<1> USE BoundAssumption DEF TypeOK, JobStates
<1>1. seen' \in [permanent : BOOLEAN, stopped : BOOLEAN, cancelFirst : BOOLEAN,
                 dropped : SUBSET Local]
  BY DEF FailAttempt
<1>2. pending' \in [cleanup : BOOLEAN, dsn : Nat]
  <2>1. pending' = pending
        \/ pending' = [cleanup |-> pending.cleanup \/ job.attachments,
                       dsn     |-> pending.dsn + 1]
    BY Zenon DEF FailAttempt
  <2>2. QED
    BY <2>1
<1>3. attemptsMade' \in Nat /\ tried' \in [Hop -> Nat] /\ todo' \subseteq Parties
  BY DEF FailAttempt, Counted, NoneTried
<1>4. jobState' \in {"backoff", "failed"} /\ pc' = "idle"
  BY Zenon DEF FailAttempt
<1>5. UNCHANGED <<job, stored, dsn, schedStatus, cancelPc, crashes, adminRetries>>
  BY Zenon DEF FailAttempt
<1>6. QED
  BY <1>1, <1>2, <1>3, <1>4, <1>5

LEMMA GivenType ==
  TypeOK => \A taken : Given(taken) \in [Rcpts -> Nat]
BY DEF TypeOK, Given

LEMMA NextTypeOK == TypeOK /\ [Next]_vars => TypeOK'
<1> SUFFICES ASSUME TypeOK, [Next]_vars PROVE TypeOK'
  OBVIOUS
<1>g. \A taken : Given(taken) \in [Rcpts -> Nat]
  BY GivenType
<1> USE BoundAssumption DEF TypeOK, JobStates
<1>1. CASE BecomeWaiting
  BY <1>1 DEF BecomeWaiting
<1>2. CASE StartAttempt
  BY <1>2 DEF StartAttempt
<1>3. CASE CheckCancelled
  <2>1. seen' = [seen EXCEPT !.stopped = TRUE] \/ seen' = seen
    BY <1>3, Zenon DEF CheckCancelled
  <2>2. seen' \in [permanent : BOOLEAN, stopped : BOOLEAN, cancelFirst : BOOLEAN,
                   dropped : SUBSET Local]
    BY <2>1
  <2>3. pc' \in {"complete", "build"}
    BY <1>3, Zenon DEF CheckCancelled
  <2>4. QED
    BY <1>3, <2>2, <2>3 DEF CheckCancelled
<1>4. CASE BuildMessage
  BY <1>4 DEF BuildMessage
<1>5. ASSUME NEW r \in Local, StoreLocal(r) PROVE TypeOK'
  BY <1>5, <1>g DEF StoreLocal, StoringTo, Rest
<1>6. ASSUME NEW r \in Local, DropLocal(r) PROVE TypeOK'
  BY <1>6 DEF DropLocal, StoringTo, Rest
<1>7. ASSUME NEW h \in Hop, NEW taken \in SUBSET Behind(h), RelayTo(h, taken)
      PROVE TypeOK'
  BY <1>7, <1>g DEF RelayTo, Rest, NoneTried
<1>8. ASSUME NEW h \in Hop, NEW taken \in SUBSET Behind(h), NextHost(h, taken)
      PROVE TypeOK'
  BY <1>8, <1>g DEF NextHost
<1>9. ASSUME NEW h \in Hop, NEW taken \in SUBSET Behind(h), NEW fiveXX \in BOOLEAN,
             RelayThrows(h, taken, fiveXX)
      PROVE TypeOK'
  BY <1>9, <1>g, FailTypeOK DEF RelayThrows
<1>10. CASE Throws
  BY <1>10, FailTypeOK DEF Throws
<1>10a. ASSUME NEW r \in Local, StoreThrows(r) PROVE TypeOK'
  BY <1>10a, <1>g, FailTypeOK DEF StoreThrows
<1>11. CASE MarkSent
  BY <1>11 DEF MarkSent, StatusAfterSend
<1>12. CASE CompleteJob
  <2>1. pending' \in [cleanup : BOOLEAN, dsn : Nat]
    BY <1>12 DEF CompleteJob
  <2>2. QED
    BY <1>12, <2>1 DEF CompleteJob
<1>13. CASE CleanupAttachments
  <2>1. pending' \in [cleanup : BOOLEAN, dsn : Nat]
    BY <1>13 DEF CleanupAttachments
  <2>2. stored' \in BOOLEAN
    BY <1>13, Zenon DEF CleanupAttachments
  <2>3. UNCHANGED <<job, jobState, attemptsMade, pc, todo, tried, copies, dsn,
                    schedStatus, cancelPc, crashes, adminRetries, seen>>
    BY <1>13, Zenon DEF CleanupAttachments
  <2>4. QED
    BY <2>1, <2>2, <2>3
<1>14. CASE SendDsnBounce
  BY <1>14 DEF SendDsnBounce, BounceWanted
<1>15. CASE Crash
  BY <1>15 DEF Crash, NoneTried
<1>16. CASE CancelRead \/ CancelRemove \/ CancelWrite
  BY <1>16 DEF CancelRead, CancelRemove, CancelWrite
<1>17. CASE AdminRetry \/ AdminRemove
  BY <1>17 DEF AdminRetry, AdminRemove
<1>18. CASE StoreSentCopy
  BY <1>18 DEF StoreSentCopy
<1>19. CASE UNCHANGED vars
  BY <1>19 DEF vars
<1> HIDE DEF TypeOK, JobStates
<1>20. CASE Handler
  BY <1>3, <1>4, <1>5, <1>6, <1>7, <1>8, <1>9, <1>10, <1>10a, <1>11,
     <1>12, <1>20, Zenon DEF Handler
<1>21. QED
  BY <1>1, <1>2, <1>13, <1>14, <1>15, <1>16, <1>17, <1>18, <1>19, <1>20,
     Zenon DEF Next, Listeners, Users

(* Every reachable state is well typed. *)
THEOREM TypeCorrect == Spec => []TypeOK
<1>1. QED
  BY InitTypeOK, NextTypeOK, PTL DEF Spec

-----------------------------------------------------------------------------
(* What a step gives, and to whom. *)

LEMMA PartyFacts ==
  /\ \A r \in Local : r \in Rcpts /\ r \in Parties /\ PartyOf(r) = r
  /\ \A h \in Hop : /\ h \in Parties /\ h \notin Local
                    /\ \A r \in Behind(h) : /\ r \in Rcpts /\ r \notin Local
                                            /\ PartyOf(r) = h
                                            /\ HostsOf(r) = Hosts[h]
                                            /\ Begun(r) = tried[h]
BY HopAssumption DEF Rcpts, Parties, PartyOf, Behind, HostsOf, Begun

(* What is given to those of one party reaches that party and no other.    *)
LEMMA GivenReaches ==
  ASSUME TypeOK, NEW p \in Parties, NEW taken \in SUBSET Rcpts,
         \A r \in taken : PartyOf(r) = p, copies' = Given(taken)
  PROVE  /\ \A q \in Parties \ {p} : Reached(q)' <=> Reached(q)
         /\ taken # {} => Reached(p)'
<1>1. ASSUME NEW q \in Parties \ {p} PROVE Reached(q)' <=> Reached(q)
  <2>1. CASE q \in Local
    <3>1. q \in Rcpts /\ q \notin taken
      BY <1>1, <2>1 DEF Rcpts, PartyOf
    <3>2. QED
      BY <2>1, <3>1 DEF Reached, Given
  <2>2. CASE q \notin Local
    <3>1. \A e \in Behind(q) : e \in Rcpts /\ e \notin taken
      BY <1>1, HopAssumption DEF Behind, Rcpts, PartyOf
    <3>2. \A e \in Behind(q) : copies'[e] = copies[e]
      BY <3>1 DEF Given
    <3>3. QED
      BY <2>2, <3>2 DEF Reached, Behind
  <2>3. QED
    BY <2>1, <2>2
<1>2. ASSUME taken # {} PROVE Reached(p)'
  <2>1. PICK r \in taken : TRUE
    BY <1>2
  <2>2. r \in Rcpts /\ copies[r] \in Nat /\ copies'[r] = copies[r] + 1
    BY <2>1 DEF Given, TypeOK
  <2>3. copies'[r] > 0
    BY <2>2
  <2>4. CASE r \in Local
    BY <2>1, <2>3, <2>4 DEF Reached, PartyOf
  <2>5. CASE r \notin Local
    <3>1. p \in Hop /\ p \notin Local /\ r \in Behind(p)
      BY <2>1, <2>2, <2>5, HopAssumption DEF PartyOf, Behind, Rcpts
    <3>2. QED
      BY <2>3, <3>1 DEF Reached, Behind
  <2>6. QED
    BY <2>4, <2>5
<1>3. QED
  BY <1>1, <1>2

(* Nobody loses a copy, and what was dropped stays dropped. *)
LEMMA NothingLost ==
  ASSUME TypeOK, [Next]_vars
  PROVE  /\ \A r \in Rcpts : copies'[r] >= copies[r]
         /\ seen.dropped \subseteq seen'.dropped
<1>1. \A r \in Rcpts : copies[r] \in Nat
  BY DEF TypeOK
<1>2. \/ copies' = copies
      \/ \E taken : copies' = Given(taken)
  BY DEF Next, Handler, Listeners, Users, BecomeWaiting, StartAttempt,
     CheckCancelled, BuildMessage, StoreLocal, DropLocal, RelayTo, NextHost,
     RelayThrows, StoreThrows, Throws, MarkSent, CompleteJob, FailAttempt,
     CleanupAttachments, SendDsnBounce, Crash, CancelRead, CancelRemove,
     CancelWrite, AdminRetry, AdminRemove, StoreSentCopy, vars
<1>3. \A r \in Rcpts : copies'[r] >= copies[r]
  BY <1>1, <1>2 DEF Given
<1>4. \/ seen' = seen
      \/ seen' = [seen EXCEPT !.cancelFirst = schedStatus = "CANCELLED"]
      \/ seen' = [seen EXCEPT !.stopped = TRUE]
      \/ \E r \in Local : seen' = [seen EXCEPT !.dropped = @ \cup {r}]
      \/ \E fiveXX \in BOOLEAN : seen' = [seen EXCEPT !.permanent = @ \/ fiveXX]
  BY DEF Next, Handler, Listeners, Users, BecomeWaiting, StartAttempt,
     CheckCancelled, BuildMessage, StoreLocal, DropLocal, RelayTo, NextHost,
     RelayThrows, StoreThrows, Throws, MarkSent, CompleteJob, FailAttempt,
     CleanupAttachments, SendDsnBounce, Crash, CancelRead, CancelRemove,
     CancelWrite, AdminRetry, AdminRemove, StoreSentCopy, vars
<1>5. seen.dropped \subseteq seen'.dropped
  BY <1>4 DEF TypeOK
<1>6. QED
  BY <1>3, <1>5

(* So who is served stays served. *)
LEMMA ServedGrows ==
  ASSUME TypeOK, TypeOK', [Next]_vars
  PROVE  /\ \A p \in Parties : Served(p) => Served(p)'
         /\ EveryoneServed => EveryoneServed'
<1>1. /\ \A r \in Rcpts : copies[r] \in Nat /\ copies'[r] \in Nat
                          /\ copies'[r] >= copies[r]
      /\ seen.dropped \subseteq seen'.dropped
  BY NothingLost DEF TypeOK
<1>2. ASSUME NEW p \in Parties, Reached(p) PROVE Reached(p)'
  <2>1. CASE p \in Local
    <3>1. p \in Rcpts /\ copies[p] > 0
      BY <1>2, <2>1 DEF Rcpts, Reached
    <3>2. copies'[p] > 0
      BY <1>1, <3>1
    <3>3. QED
      BY <2>1, <3>2 DEF Reached
  <2>2. CASE p \notin Local
    <3>1. PICK r \in Behind(p) : copies[r] > 0
      BY <1>2, <2>2 DEF Reached
    <3>2. r \in Rcpts
      BY DEF Behind, Rcpts
    <3>3. copies'[r] > 0
      BY <1>1, <3>1, <3>2
    <3>4. QED
      BY <2>2, <3>3 DEF Reached, Behind
  <2>3. QED
    BY <2>1, <2>2
<1>3. \A p \in Parties : Served(p) => Served(p)'
  BY <1>1, <1>2 DEF Served
<1>4. QED
  BY <1>3 DEF EveryoneServed, Parties

-----------------------------------------------------------------------------
(* The inductive invariant. *)

LEMMA InitInv == Init => IInv
<1> SUFFICES ASSUME Init PROVE IInv
  OBVIOUS
<1>1. TypeOK
  BY InitTypeOK
<1>2. /\ \A r \in Rcpts : copies[r] = 0
      /\ attemptsMade = 0 /\ crashes = 0
      /\ \A h \in Hop : tried[h] = 0
  BY DEF Init, NoneTried
<1>3. \A r \in Rcpts : HostsOf(r) \in Nat
  BY HopAssumption DEF HostsOf, Rcpts
<1>4. \A r \in Rcpts : Begun(r) = 0 /\ Room(r) = HostsOf(r)
  BY <1>2, <1>3, HopAssumption DEF Begun, Room, Rcpts
<1>5. CopiesBounded
  BY <1>2, <1>3, <1>4 DEF CopiesBounded, Room
<1>6. CopiesInv
  BY <1>2, <1>3, <1>4, HopAssumption DEF CopiesInv
<1>7. QED
  BY <1>1, <1>5, <1>6 DEF Init, IInv, PcInv, DoneInv, SentMeansServed,
     CompletedMeansServed, CancelInv

(* The steps that neither end an attempt nor give anything to anybody.     *)
Quiet ==
  \/ BecomeWaiting \/ StartAttempt \/ CheckCancelled \/ BuildMessage
  \/ MarkSent \/ CompleteJob \/ CleanupAttachments \/ SendDsnBounce
  \/ CancelRead \/ CancelRemove \/ CancelWrite \/ AdminRetry \/ AdminRemove
  \/ StoreSentCopy \/ UNCHANGED vars

LEMMA StepCases ==
  ASSUME [Next]_vars
  PROVE  \/ Quiet
         \/ \E r \in Local : StoreLocal(r) \/ DropLocal(r)
         \/ \E r \in Local : StoreThrows(r)
         \/ \E h \in Hop : \E taken \in SUBSET Behind(h) :
              RelayTo(h, taken) \/ NextHost(h, taken)
         \/ \E h \in Hop : \E taken \in SUBSET Behind(h) :
              \E fiveXX \in BOOLEAN : RelayThrows(h, taken, fiveXX)
         \/ Throws
         \/ Crash
BY Zenon DEF Quiet, Next, Handler, Listeners, Users

(* pc, the status and who is served. *)
LEMMA ServedInv ==
  ASSUME IInv, TypeOK', [Next]_vars
  PROVE  PcInv' /\ DoneInv' /\ SentMeansServed' /\ CompletedMeansServed' /\ CancelInv'
<1>t. TypeOK
  BY DEF IInv
<1>i. PcInv /\ DoneInv /\ SentMeansServed /\ CompletedMeansServed /\ CancelInv
  BY DEF IInv
<1>g. /\ \A p \in Parties : Served(p) => Served(p)'
      /\ EveryoneServed => EveryoneServed'
  BY <1>t, ServedGrows
<1>p. Parties' = Parties
  BY DEF Parties
<1> DEFINE Goal == PcInv' /\ DoneInv' /\ SentMeansServed' /\ CompletedMeansServed'
                   /\ CancelInv'
<1> USE <1>t, <1>i, <1>g, <1>p
    DEF PcInv, DoneInv, SentMeansServed, CompletedMeansServed, CancelInv
<1>1. CASE BecomeWaiting
  BY <1>1 DEF BecomeWaiting
<1>2. CASE StartAttempt
  <2>1. /\ seen'.cancelFirst => schedStatus = "CANCELLED"
        /\ seen'.stopped = seen.stopped
    BY <1>2 DEF StartAttempt, TypeOK
  <2>2. QED
    BY <1>2, <2>1 DEF StartAttempt
<1>3. CASE CheckCancelled
  BY <1>3 DEF CheckCancelled, Stops, TypeOK
<1>4. CASE BuildMessage
  BY <1>4 DEF BuildMessage
<1>5. ASSUME NEW r \in Local, StoreLocal(r) \/ DropLocal(r) PROVE Goal
  <2>1. seen'.cancelFirst = seen.cancelFirst /\ seen'.stopped = seen.stopped
    BY <1>5 DEF StoreLocal, DropLocal, TypeOK
  <2>2. Served(r)'
    <3>1. CASE StoreLocal(r)
      <4>1. Reached(r)'
        BY <3>1, PartyFacts, GivenReaches DEF StoreLocal
      <4>2. QED
        BY <4>1 DEF Served
    <3>2. CASE DropLocal(r)
      BY <3>2 DEF DropLocal, Served, TypeOK
    <3>3. QED
      BY <1>5, <3>1, <3>2
  <2>3. todo' = todo \ {r} /\ UNCHANGED <<pc, jobState, schedStatus>> /\ pc = "deliver"
    BY <1>5 DEF StoreLocal, DropLocal, StoringTo, Rest
  <2>4. QED
    BY <2>1, <2>2, <2>3
<1>6. ASSUME NEW h \in Hop, NEW taken \in SUBSET Behind(h), RelayTo(h, taken)
      PROVE  Goal
  <2>1. Served(h)'
    <3>1. Reached(h)'
      BY <1>6, PartyFacts, GivenReaches DEF RelayTo
    <3>2. QED
      BY <3>1 DEF Served
  <2>2. /\ todo' = todo \ {h} /\ pc = "deliver"
        /\ UNCHANGED <<pc, jobState, schedStatus, seen>>
    BY <1>6 DEF RelayTo, Relays, Rest
  <2>3. QED
    BY <2>1, <2>2
<1>7. ASSUME NEW h \in Hop, NEW taken \in SUBSET Behind(h), NextHost(h, taken)
      PROVE  Goal
  BY <1>7 DEF NextHost
<1>8. ASSUME NEW fiveXX \in BOOLEAN, FailAttempt(fiveXX) PROVE Goal
  <2>1. seen'.cancelFirst = seen.cancelFirst /\ seen'.stopped = seen.stopped
    BY <1>8 DEF FailAttempt, TypeOK
  <2>2. jobState' \in {"backoff", "failed"} /\ pc' = "idle"
    BY <1>8, Zenon DEF FailAttempt
  <2>3. schedStatus' = schedStatus
    BY <1>8 DEF FailAttempt
  <2>4. QED
    BY <2>1, <2>2, <2>3
<1>9. CASE MarkSent
  <2>1. EveryoneServed
    BY <1>9 DEF MarkSent, AllServed, EveryoneServed
  <2>2. QED
    BY <1>9, <2>1 DEF MarkSent, StatusAfterSend, TypeOK
<1>10. CASE CompleteJob
  BY <1>10 DEF CompleteJob
<1>11. CASE CleanupAttachments \/ SendDsnBounce
  BY <1>11 DEF CleanupAttachments, SendDsnBounce
<1>12. CASE Crash
  BY <1>12 DEF Crash
<1>13. CASE CancelRead \/ CancelRemove \/ CancelWrite
  BY <1>13 DEF CancelRead, CancelRemove, CancelWrite, Removable
<1>14. CASE AdminRetry \/ AdminRemove
  BY <1>14 DEF AdminRetry, AdminRemove, Removable
<1>15. CASE StoreSentCopy \/ UNCHANGED vars
  BY <1>15 DEF StoreSentCopy, vars
<1>16. CASE Quiet
  BY <1>1, <1>2, <1>3, <1>4, <1>9, <1>10, <1>11, <1>13, <1>14, <1>15, <1>16, Zenon
     DEF Quiet
<1>17. CASE Throws
  BY <1>8, <1>17, Zenon DEF Throws
<1>18. ASSUME NEW h \in Hop, NEW taken \in SUBSET Behind(h), NEW fiveXX \in BOOLEAN,
              RelayThrows(h, taken, fiveXX)
       PROVE  Goal
  BY <1>8, <1>18, Zenon DEF RelayThrows
<1>19. ASSUME NEW r \in Local, StoreThrows(r) PROVE Goal
  BY <1>8, <1>19, Zenon DEF StoreThrows
<1>20. QED
  BY <1>5, <1>6, <1>7, <1>12, <1>16, <1>17, <1>18, <1>19, StepCases, Zenon

-----------------------------------------------------------------------------
(* The copies. *)

(* One more failure or crash makes room for one more round of the hosts.   *)
LEMMA MoreRoom ==
  \A h, a, c \in Nat :
    /\ h * (1 + (a + 1) + c) = h * (1 + a + c) + h
    /\ h * (1 + a + (c + 1)) = h * (1 + a + c) + h
OBVIOUS

LEMMA RoomType ==
  ASSUME TypeOK, NEW r \in Rcpts
  PROVE  /\ HostsOf(r) \in Nat /\ Room(r) \in Nat /\ Begun(r) \in Nat
         /\ copies[r] \in Nat
<1>1. HostsOf(r) \in Nat /\ Begun(r) \in Nat
  BY HopAssumption DEF HostsOf, Begun, Rcpts, TypeOK
<1>2. attemptsMade \in Nat /\ crashes \in Nat /\ copies[r] \in Nat
  BY BoundAssumption DEF TypeOK
<1>3. QED
  BY <1>1, <1>2 DEF Room

LEMMA QuietAhead ==
  ASSUME Quiet, PcInv, NEW r, Ahead(r)'
  PROVE  Ahead(r)
<1> USE DEF Ahead, PartyOf, PcInv
<1>1. CASE BecomeWaiting \/ StartAttempt
  BY <1>1 DEF BecomeWaiting, StartAttempt
<1>2. CASE CheckCancelled \/ BuildMessage \/ MarkSent \/ CompleteJob
  BY <1>2 DEF CheckCancelled, BuildMessage, MarkSent, CompleteJob
<1>3. CASE CleanupAttachments \/ SendDsnBounce \/ StoreSentCopy \/ UNCHANGED vars
  BY <1>3 DEF CleanupAttachments, SendDsnBounce, StoreSentCopy, vars
<1>4. CASE CancelRead \/ CancelRemove \/ CancelWrite \/ AdminRetry \/ AdminRemove
  BY <1>4 DEF CancelRead, CancelRemove, CancelWrite, AdminRetry, AdminRemove
<1>5. QED
  BY <1>1, <1>2, <1>3, <1>4, Zenon DEF Quiet

(* What the steps leave alone. *)
LEMMA QuietFrame ==
  Quiet => UNCHANGED <<copies, attemptsMade, crashes, tried>>
<1>1. BecomeWaiting \/ StartAttempt \/ CheckCancelled \/ BuildMessage
        => UNCHANGED <<copies, attemptsMade, crashes, tried>>
  BY DEF BecomeWaiting, StartAttempt, CheckCancelled, BuildMessage
<1>2. MarkSent \/ CompleteJob \/ CleanupAttachments \/ SendDsnBounce
        => UNCHANGED <<copies, attemptsMade, crashes, tried>>
  BY DEF MarkSent, CompleteJob, CleanupAttachments, SendDsnBounce
<1>3. CancelRead \/ CancelRemove \/ CancelWrite \/ AdminRetry \/ AdminRemove
        => UNCHANGED <<copies, attemptsMade, crashes, tried>>
  BY DEF CancelRead, CancelRemove, CancelWrite, AdminRetry, AdminRemove
<1>4. StoreSentCopy \/ UNCHANGED vars
        => UNCHANGED <<copies, attemptsMade, crashes, tried>>
  BY DEF StoreSentCopy, vars
<1>5. QED
  BY <1>1, <1>2, <1>3, <1>4, Zenon DEF Quiet

LEMMA TriedStep ==
  ASSUME TypeOK, [Next]_vars, \A h \in Hop : tried[h] < Hosts[h]
  PROVE  \A h \in Hop : tried'[h] < Hosts[h]
<1>1. NoneTried \in [Hop -> Nat] /\ \A h \in Hop : NoneTried[h] < Hosts[h]
  BY HopAssumption DEF NoneTried
<1>2. CASE tried' = tried \/ tried' = NoneTried
  BY <1>1, <1>2
<1>3. ASSUME NEW h \in Hop, NEW taken \in SUBSET Behind(h), NextHost(h, taken)
      PROVE  \A g \in Hop : tried'[g] < Hosts[g]
  <2>1. tried' = [tried EXCEPT ![h] = @ + 1] /\ tried[h] + 1 < Hosts[h]
    BY <1>3 DEF NextHost
  <2>2. QED
    BY <2>1 DEF TypeOK
<1>4. Quiet => tried' = tried
  BY QuietFrame
<1>5. \A r \in Local : StoreLocal(r) \/ DropLocal(r) => tried' = tried
  BY DEF StoreLocal, DropLocal
<1>6. \A h, taken : RelayTo(h, taken) => tried' = NoneTried
  BY DEF RelayTo
<1>7. \A fiveXX : FailAttempt(fiveXX) => tried' = NoneTried
  BY DEF FailAttempt
<1>8. \A r, h, taken, fiveXX :
        Throws \/ StoreThrows(r) \/ RelayThrows(h, taken, fiveXX) => tried' = NoneTried
  BY <1>7, Zenon DEF Throws, StoreThrows, RelayThrows
<1>9. Crash => tried' = NoneTried
  BY DEF Crash
<1>10. QED
  BY <1>2, <1>3, <1>4, <1>5, <1>6, <1>8, <1>9, StepCases, Zenon

LEMMA CopiesStep ==
  ASSUME IInv, TypeOK', [Next]_vars
  PROVE  CopiesInv' /\ CopiesBounded'
<1>t. TypeOK /\ PcInv /\ CopiesInv /\ CopiesBounded
  BY DEF IInv
<1>a. attemptsMade \in Nat /\ crashes \in Nat
  BY <1>t, BoundAssumption DEF TypeOK
(* It is enough to follow one recipient. *)
<1>s. SUFFICES ASSUME NEW r \in Rcpts
               PROVE  /\ Ahead(r)' => copies'[r] + HostsOf(r) <= Room(r)' + Begun(r)'
                      /\ copies'[r] <= Room(r)'
  <2>1. \A r \in Rcpts : HostsOf(r)' = HostsOf(r)
    BY DEF HostsOf
  <2>2. \A h \in Hop : tried'[h] < Hosts[h]
    BY <1>t, TriedStep DEF CopiesInv
  <2>3. \A r \in Rcpts : /\ Ahead(r)' => copies'[r] + HostsOf(r) <= Room(r)' + Begun(r)'
                         /\ copies'[r] <= Room(r)'
    BY <1>s
  <2>4. CopiesBounded'
    BY <2>1, <2>3 DEF CopiesBounded, Room
  <2>5. CopiesInv'
    BY <2>1, <2>2, <2>3 DEF CopiesInv
  <2>6. QED
    BY <2>4, <2>5
<1>r. /\ HostsOf(r) \in Nat /\ Room(r) \in Nat /\ Begun(r) \in Nat /\ copies[r] \in Nat
      /\ HostsOf(r)' = HostsOf(r)
  BY <1>t, RoomType DEF HostsOf
<1>b. /\ copies[r] <= Room(r)
      /\ Ahead(r) => copies[r] + HostsOf(r) <= Room(r) + Begun(r)
  BY <1>t DEF CopiesBounded, CopiesInv, Room
<1>h. Begun(r) < HostsOf(r)
  BY <1>t, HopAssumption DEF CopiesInv, Begun, HostsOf, Rcpts
<1>n. Begun(r)' \in Nat
  BY HopAssumption DEF Begun, Rcpts, TypeOK
<1>f. attemptsMade' = attemptsMade /\ crashes' = crashes => Room(r)' = Room(r)
  BY <1>r DEF Room
<1> DEFINE Goal == /\ Ahead(r)' => copies'[r] + HostsOf(r) <= Room(r)' + Begun(r)'
                   /\ copies'[r] <= Room(r)'
(* Nobody gets anything, and who is ahead was so before. *)
<1>1. ASSUME UNCHANGED <<copies, attemptsMade, crashes, tried>>, Ahead(r)' => Ahead(r)
      PROVE  Goal
  BY <1>1, <1>b, <1>f DEF Begun
(* A failure or a crash, perhaps with a copy given on the way. *)
<1>2. ASSUME copies'[r] <= Room(r),
             \/ attemptsMade' = attemptsMade + 1 /\ crashes' = crashes
             \/ attemptsMade' = attemptsMade /\ crashes' = crashes + 1,
             copies'[r] \in Nat
      PROVE  Goal
  <2>1. Room(r)' = Room(r) + HostsOf(r)
    <3>1. HostsOf(r) * (1 + (attemptsMade + 1) + crashes) = Room(r) + HostsOf(r)
      BY <1>a, <1>r, MoreRoom, Zenon DEF Room
    <3>2. HostsOf(r) * (1 + attemptsMade + (crashes + 1)) = Room(r) + HostsOf(r)
      BY <1>a, <1>r, MoreRoom, Zenon DEF Room
    <3>3. QED
      BY <1>2, <1>r, <3>1, <3>2 DEF Room
  <2>2. QED
    BY <1>2, <1>r, <1>n, <2>1
<1>3. CASE Quiet
  BY <1>1, <1>3, <1>t, QuietFrame, QuietAhead
<1>4. ASSUME NEW l \in Local, DropLocal(l) PROVE Goal
  <2>1. Ahead(r)' => Ahead(r)
    BY <1>4 DEF DropLocal, StoringTo, Rest, Ahead, PartyOf
  <2>2. QED
    BY <1>1, <1>4, <2>1 DEF DropLocal
<1>5. ASSUME NEW l \in Local, StoreLocal(l) PROVE Goal
  <2>1. CASE r = l
    <3>1. Ahead(r) /\ ~Ahead(r)'
      BY <1>5, <1>t, <2>1, PartyFacts DEF StoreLocal, StoringTo, Rest, Ahead, PcInv, PartyOf
    <3>2. copies'[r] = copies[r] + 1
      BY <1>5, <2>1 DEF StoreLocal, Given
    <3>3. QED
      BY <1>5, <1>b, <1>f, <1>h, <1>r, <3>1, <3>2 DEF StoreLocal
  <2>2. CASE r # l
    <3>1. Ahead(r)' => Ahead(r)
      BY <1>5 DEF StoreLocal, StoringTo, Rest, Ahead, PartyOf
    <3>2. copies'[r] = copies[r] /\ Begun(r)' = Begun(r)
      BY <1>5, <2>2 DEF StoreLocal, Given, Begun
    <3>3. QED
      BY <1>5, <1>b, <1>f, <3>1, <3>2 DEF StoreLocal
  <2>3. QED
    BY <2>1, <2>2
<1>6. ASSUME NEW h \in Hop, NEW taken \in SUBSET Behind(h), RelayTo(h, taken)
      PROVE  Goal
  <2>1. CASE r \in Behind(h)
    <3>1. Ahead(r) /\ ~Ahead(r)'
      BY <1>6, <1>t, <2>1, PartyFacts DEF RelayTo, Relays, Rest, Ahead, PcInv, PartyOf
    <3>2. copies'[r] \in {copies[r], copies[r] + 1}
      BY <1>6 DEF RelayTo, Given
    <3>3. QED
      BY <1>6, <1>b, <1>f, <1>h, <1>r, <3>1, <3>2 DEF RelayTo
  <2>2. CASE r \notin Behind(h)
    <3>1. Ahead(r)' => Ahead(r)
      BY <1>6 DEF RelayTo, Relays, Rest, Ahead, PartyOf
    <3>2. copies'[r] = copies[r]
      BY <1>6, <2>2 DEF RelayTo, Given
    <3>3. Begun(r)' = Begun(r)
      BY <1>6, <2>2, HopAssumption
         DEF RelayTo, Relays, Begun, Behind, NoneTried, Rcpts
    <3>4. QED
      BY <1>6, <1>b, <1>f, <3>1, <3>2, <3>3 DEF RelayTo
  <2>3. QED
    BY <2>1, <2>2
<1>7. ASSUME NEW h \in Hop, NEW taken \in SUBSET Behind(h), NextHost(h, taken)
      PROVE  Goal
  <2>1. CASE r \in Behind(h)
    <3>1. Ahead(r)
      BY <1>7, <2>1, PartyFacts DEF NextHost, Relays, Ahead
    <3>2. copies'[r] \in {copies[r], copies[r] + 1}
      BY <1>7 DEF NextHost, Given
    <3>3. Begun(r)' = Begun(r) + 1
      BY <1>7, <1>t, <2>1, PartyFacts DEF NextHost, Begun, Behind, TypeOK
    <3>4. QED
      BY <1>7, <1>b, <1>f, <1>h, <1>r, <3>1, <3>2, <3>3 DEF NextHost
  <2>2. CASE r \notin Behind(h)
    <3>1. Ahead(r)' => Ahead(r)
      BY <1>7 DEF NextHost, Ahead
    <3>2. copies'[r] = copies[r]
      BY <1>7, <2>2 DEF NextHost, Given
    <3>3. Begun(r)' = Begun(r)
      BY <1>7, <1>t, <2>2, HopAssumption DEF NextHost, Begun, Behind, Rcpts, TypeOK
    <3>4. QED
      BY <1>7, <1>b, <1>f, <3>1, <3>2, <3>3 DEF NextHost
  <2>3. QED
    BY <2>1, <2>2
<1>8. ASSUME NEW h \in Hop, NEW taken \in SUBSET Behind(h), NEW fiveXX \in BOOLEAN,
             RelayThrows(h, taken, fiveXX)
      PROVE  Goal
  <2>1. attemptsMade' = attemptsMade + 1 /\ crashes' = crashes
    BY <1>8 DEF RelayThrows, FailAttempt, Counted
  <2>2. CASE r \in Behind(h)
    <3>1. Ahead(r)
      BY <1>8, <2>2, PartyFacts DEF RelayThrows, Relays, Ahead
    <3>2. copies'[r] \in {copies[r], copies[r] + 1}
      BY <1>8 DEF RelayThrows, Given
    <3>3. copies'[r] \in Nat /\ copies'[r] <= Room(r)
      BY <1>b, <1>h, <1>r, <3>1, <3>2
    <3>4. QED
      BY <1>2, <2>1, <3>3
  <2>3. CASE r \notin Behind(h)
    <3>1. copies'[r] = copies[r]
      BY <1>8, <2>3 DEF RelayThrows, Given
    <3>2. QED
      BY <1>2, <1>b, <1>r, <2>1, <3>1
  <2>4. QED
    BY <2>2, <2>3
<1>9. CASE Throws
  <2>1. attemptsMade' = attemptsMade + 1 /\ crashes' = crashes /\ copies' = copies
    BY <1>9 DEF Throws, FailAttempt, Counted
  <2>2. QED
    BY <1>2, <1>b, <1>r, <2>1
<1>10. CASE Crash
  <2>1. attemptsMade' = attemptsMade /\ crashes' = crashes + 1 /\ copies' = copies
    BY <1>10 DEF Crash
  <2>2. QED
    BY <1>2, <1>b, <1>r, <2>1
<1>11. ASSUME NEW l \in Local, StoreThrows(l) PROVE Goal
  <2>1. attemptsMade' = attemptsMade + 1 /\ crashes' = crashes
    BY <1>11 DEF StoreThrows, FailAttempt, Counted
  <2>2. CASE r = l
    <3>1. Ahead(r)
      BY <1>11, <2>2, PartyFacts DEF StoreThrows, Ahead
    <3>2. copies'[r] = copies[r] + 1
      BY <1>11, <2>2 DEF StoreThrows, Given
    <3>3. copies'[r] \in Nat /\ copies'[r] <= Room(r)
      BY <1>b, <1>h, <1>r, <3>1, <3>2
    <3>4. QED
      BY <1>2, <2>1, <3>3
  <2>3. CASE r # l
    <3>1. copies'[r] = copies[r]
      BY <1>11, <2>3 DEF StoreThrows, Given
    <3>2. QED
      BY <1>2, <1>b, <1>r, <2>1, <3>1
  <2>4. QED
    BY <2>2, <2>3
<1>12. QED
  BY <1>3, <1>4, <1>5, <1>6, <1>7, <1>8, <1>9, <1>10, <1>11, StepCases, Zenon

LEMMA NextInv == IInv /\ [Next]_vars => IInv'
<1> SUFFICES ASSUME IInv, [Next]_vars PROVE IInv'
  OBVIOUS
<1>1. TypeOK'
  BY NextTypeOK DEF IInv
<1>2. PcInv' /\ DoneInv' /\ SentMeansServed' /\ CompletedMeansServed' /\ CancelInv'
  BY <1>1, ServedInv
<1>3. CopiesInv' /\ CopiesBounded'
  BY <1>1, CopiesStep
<1>4. QED
  BY <1>1, <1>2, <1>3 DEF IInv

LEMMA SpecInv == Spec => []IInv
BY InitInv, NextInv, PTL DEF Spec

(* "SENT" is shown only for a mail that every hop took and every local     *)
(* recipient has, or had dropped on the way to the mailbox.                *)
THEOREM SentIsServed == Spec => []SentMeansServed
<1>1. IInv => SentMeansServed
  BY DEF IInv
<1>2. QED
  BY <1>1, SpecInv, PTL

(* A completed job was served to everyone or stopped by its owner. *)
THEOREM CompletedIsServed == Spec => []CompletedMeansServed
<1>1. IInv => CompletedMeansServed
  BY DEF IInv
<1>2. QED
  BY <1>1, SpecInv, PTL

(* Nothing is shown as done, to the user or to the administrator, while    *)
(* somebody still has to be served.                                        *)
THEOREM DoneIsServed == Spec => []DoneMeansServed
<1>1. SentMeansServed /\ CompletedMeansServed => DoneMeansServed
  BY DEF DoneMeansServed
<1>2. QED
  BY <1>1, SentIsServed, CompletedIsServed, PTL

(* Repeated deliveries are accounted for by failed attempts, crashes and   *)
(* the hosts of the recipient's domain.                                    *)
THEOREM RepeatsAreBounded == Spec => []CopiesBounded
<1>1. IInv => CopiesBounded
  BY DEF IInv
<1>2. QED
  BY <1>1, SpecInv, PTL

-----------------------------------------------------------------------------
(* What a step may not do. *)

(* Only a running attempt hands copies out. *)
LEMMA OnlyDelivery ==
  [Next]_vars => copies' = copies \/ pc = "deliver"
<1>1. Quiet => copies' = copies
  BY QuietFrame
<1>2. Crash \/ Throws => copies' = copies
  BY DEF Crash, Throws
<1>3. \A r : StoreLocal(r) \/ DropLocal(r) \/ StoreThrows(r) => pc = "deliver"
  BY DEF StoreLocal, DropLocal, StoringTo, StoreThrows
<1>4. \A h, taken, fiveXX :
        RelayTo(h, taken) \/ NextHost(h, taken) \/ RelayThrows(h, taken, fiveXX)
          => pc = "deliver"
  BY DEF RelayTo, NextHost, RelayThrows, Relays
<1>5. QED
  BY <1>1, <1>2, <1>3, <1>4, StepCases, Zenon

(* An attempt that began after the cancellation hands nothing out. *)
THEOREM CancelIsHonoured == Spec => CancelHonoured
<1>1. IInv /\ [Next]_vars =>
        [seen.cancelFirst /\ jobState = "active" => copies' = copies]_vars
  BY OnlyDelivery DEF IInv, CancelInv, vars
<1>2. QED
  BY <1>1, SpecInv, PTL DEF Spec, CancelHonoured

(* CANCELLED is never overwritten. *)
THEOREM CancelIsFinal == Spec => CancelledForGood
<1>1. [Next]_vars => [schedStatus = "CANCELLED" => schedStatus' = "CANCELLED"]_vars
  <2> SUFFICES ASSUME Next, schedStatus = "CANCELLED"
               PROVE  schedStatus' = "CANCELLED"
    OBVIOUS
  <2>1. CASE MarkSent
    BY <2>1 DEF MarkSent, StatusAfterSend
  <2>2. CASE ~ MarkSent
    BY <2>2 DEF Next, Handler, Listeners, Users, BecomeWaiting, StartAttempt,
       CheckCancelled, BuildMessage, StoreLocal, DropLocal, RelayTo, NextHost,
       RelayThrows, StoreThrows, Throws, CompleteJob, FailAttempt, CleanupAttachments,
       SendDsnBounce, Crash, CancelRead, CancelRemove, CancelWrite, AdminRetry,
       AdminRemove, StoreSentCopy
  <2>3. QED
    BY <2>1, <2>2
<1>2. QED
  BY <1>1, PTL DEF Spec, CancelledForGood

(* A cancellation the user was told of stands. *)
THEOREM CancelIsKept == Spec => CancelStands
<1>1. QED
  BY CancelIsHonoured, CancelIsFinal, PTL DEF CancelStands

-----------------------------------------------------------------------------
(* What a failure leaves behind. *)

(* Every retry of the administrator's was preceded by a failure for good,  *)
(* and so by a bounce; a job that is failed now has had one more.          *)
ReportInv == Bounces >= adminRetries /\ FailureIsReported

LEMMA BounceType ==
  TypeOK => /\ pending.dsn \in Nat /\ dsn.over \in Nat /\ dsn.lost \in Nat
            /\ adminRetries \in Nat /\ attemptsMade \in Nat
BY BoundAssumption DEF TypeOK

(* A failure for good always starts a bounce, because BullMQ's count and   *)
(* the listener's agree.                                                   *)
LEMMA ReportStep ==
  TypeOK /\ PcInv /\ ReportInv /\ [Next]_vars => ReportInv'
<1> SUFFICES ASSUME TypeOK, PcInv, ReportInv, [Next]_vars
             PROVE  ReportInv'
  OBVIOUS
<1>t. /\ pending.dsn \in Nat /\ dsn.over \in Nat /\ dsn.lost \in Nat
      /\ adminRetries \in Nat /\ attemptsMade \in Nat
  BY BounceType
<1>i. /\ pending.dsn + dsn.over + dsn.lost >= adminRetries
      /\ jobState = "failed" => pending.dsn + dsn.over + dsn.lost > adminRetries
  BY DEF ReportInv, FailureIsReported, Bounces
<1> USE DEF ReportInv, FailureIsReported, Bounces
<1>1. ASSUME NEW fiveXX \in BOOLEAN, FailAttempt(fiveXX) PROVE ReportInv'
  <2>1. dsn' = dsn /\ adminRetries' = adminRetries
    BY <1>1 DEF FailAttempt
  <2>2. CASE Final(fiveXX, Counted)
    <3>1. pending' = [cleanup |-> pending.cleanup \/ job.attachments,
                      dsn     |-> pending.dsn + 1]
      BY <1>1, <2>2, Zenon DEF FailAttempt
    <3>2. pending'.dsn = pending.dsn + 1
      BY <3>1
    <3>3. QED
      BY <1>t, <1>i, <2>1, <3>2
  <2>3. CASE ~Final(fiveXX, Counted)
    <3>1. Retries(Counted)
      BY <1>t, <2>3, BoundAssumption DEF Final, Retries, Counted
    <3>2. jobState' = "backoff" /\ pending' = pending
      BY <1>1, <2>3, <3>1, Zenon DEF FailAttempt
    <3>3. QED
      BY <1>i, <2>1, <3>2
  <2>4. QED
    BY <2>2, <2>3
<1>2. CASE SendDsnBounce
  <2>1. /\ pending'.dsn = pending.dsn - 1
        /\ dsn'.over = dsn.over + 1 /\ dsn'.lost = dsn.lost
        /\ UNCHANGED <<jobState, adminRetries>>
    BY <1>2 DEF SendDsnBounce, TypeOK
  <2>2. QED
    BY <1>t, <1>i, <2>1
<1>3. CASE Crash
  <2>1. pending'.dsn = 0 /\ dsn'.over = dsn.over /\ dsn'.lost = dsn.lost + pending.dsn
    BY <1>3 DEF Crash, TypeOK
  <2>2. adminRetries' = adminRetries /\ jobState' \in {jobState, "stalled"}
    BY <1>3 DEF Crash
  <2>3. QED
    BY <1>t, <1>i, <2>1, <2>2
<1>4. CASE CleanupAttachments
  <2>1. pending'.dsn = pending.dsn /\ UNCHANGED <<jobState, dsn, adminRetries>>
    BY <1>4 DEF CleanupAttachments, TypeOK
  <2>2. QED
    BY <1>i, <2>1
<1>5. CASE CompleteJob
  <2>1. /\ pending'.dsn = pending.dsn /\ UNCHANGED <<dsn, adminRetries>>
        /\ jobState' = "completed"
    BY <1>5 DEF CompleteJob, TypeOK
  <2>2. QED
    BY <1>i, <2>1
<1>6. CASE AdminRetry
  <2>1. /\ UNCHANGED <<pending, dsn>> /\ adminRetries' = adminRetries + 1
        /\ jobState = "failed" /\ jobState' = "waiting"
    BY <1>6 DEF AdminRetry
  <2>2. QED
    BY <1>t, <1>i, <2>1
<1>7. ASSUME UNCHANGED <<pending, dsn, adminRetries>>,
             jobState' # "failed" \/ jobState' = jobState
      PROVE  ReportInv'
  BY <1>7, <1>i
<1>8. CASE \/ BecomeWaiting \/ StartAttempt \/ CheckCancelled \/ BuildMessage
           \/ MarkSent \/ StoreSentCopy \/ CancelRead
           \/ CancelRemove \/ CancelWrite \/ AdminRemove \/ UNCHANGED vars
  BY <1>7, <1>8 DEF BecomeWaiting, StartAttempt, CheckCancelled, BuildMessage,
     MarkSent, CancelRead, CancelRemove, CancelWrite, AdminRemove, StoreSentCopy,
     vars
<1>9. ASSUME NEW r \in Local, StoreLocal(r) \/ DropLocal(r) PROVE ReportInv'
  BY <1>7, <1>9 DEF StoreLocal, DropLocal
<1>10. ASSUME NEW h \in Hop, NEW taken \in SUBSET Behind(h),
              RelayTo(h, taken) \/ NextHost(h, taken)
       PROVE  ReportInv'
  BY <1>7, <1>10 DEF RelayTo, NextHost
<1> HIDE DEF ReportInv
<1>11. CASE Throws
  BY <1>1, <1>11, Zenon DEF Throws
<1>12. ASSUME NEW h \in Hop, NEW taken \in SUBSET Behind(h), NEW fiveXX \in BOOLEAN,
              RelayThrows(h, taken, fiveXX)
       PROVE  ReportInv'
  BY <1>1, <1>12, Zenon DEF RelayThrows
<1>13. ASSUME NEW r \in Local, StoreThrows(r) PROVE ReportInv'
  BY <1>1, <1>13, Zenon DEF StoreThrows
<1>14. CASE Quiet
  BY <1>2, <1>4, <1>5, <1>6, <1>8, <1>14, Zenon DEF Quiet
<1>15. QED
  BY <1>3, <1>9, <1>10, <1>11, <1>12, <1>13, <1>14, StepCases, Zenon

(* Each time the job failed for good a bounce was started, whatever became *)
(* of it: after k retries by the administrator a failed job has had k + 1. *)
THEOREM FailuresAreReported == Spec => []FailureIsReported
<1>1. Init => ReportInv
  BY DEF Init, ReportInv, FailureIsReported, Bounces
<1>2. IInv => TypeOK /\ PcInv
  BY DEF IInv
<1>3. ReportInv => FailureIsReported
  BY DEF ReportInv
<1>4. QED
  BY <1>1, <1>2, <1>3, ReportStep, SpecInv, PTL DEF Spec

(* Until the job is closed, and unless an attempt was refused for good or an *)
(* administrator revived it, nobody has started to delete the attachments:   *)
(* only the listeners do, and BullMQ's retry and theirs agree on the count.  *)
KeptInv ==
  /\ job.attachments
  /\ ~seen.permanent
  /\ adminRetries = 0
  /\ jobState \notin {"completed", "failed", "removed"}
  => stored /\ ~pending.cleanup

LEMMA JobFixed == [Next]_vars => job' = job
<1>1. Quiet => job' = job
  BY DEF Quiet, BecomeWaiting, StartAttempt, CheckCancelled, BuildMessage,
     MarkSent, CompleteJob, CleanupAttachments, SendDsnBounce, CancelRead,
     CancelRemove, CancelWrite, AdminRetry, AdminRemove, StoreSentCopy, vars
<1>2. \A r : StoreLocal(r) \/ DropLocal(r) => job' = job
  BY DEF StoreLocal, DropLocal
<1>3. \A h, taken : RelayTo(h, taken) \/ NextHost(h, taken) => job' = job
  BY DEF RelayTo, NextHost
<1>4. \A fiveXX : FailAttempt(fiveXX) => job' = job
  BY DEF FailAttempt
<1>5. \A r, h, taken, fiveXX :
        Throws \/ StoreThrows(r) \/ RelayThrows(h, taken, fiveXX) => job' = job
  BY <1>4, Zenon DEF Throws, StoreThrows, RelayThrows
<1>6. Crash => job' = job
  BY DEF Crash
<1>7. QED
  BY <1>1, <1>2, <1>3, <1>5, <1>6, StepCases, Zenon

LEMMA KeptStep ==
  TypeOK /\ PcInv /\ KeptInv /\ [Next]_vars => KeptInv'
<1> SUFFICES ASSUME TypeOK, PcInv, KeptInv, [Next]_vars PROVE KeptInv'
  OBVIOUS
<1> USE BoundAssumption DEF KeptInv
<1>t. adminRetries \in Nat /\ attemptsMade \in Nat
  BY DEF TypeOK
<1>j. job' = job
  BY JobFixed
<1>1. ASSUME NEW fiveXX \in BOOLEAN, pc # "idle", FailAttempt(fiveXX) PROVE KeptInv'
  <2> SUFFICES ASSUME job.attachments, ~seen'.permanent, adminRetries' = 0,
                      jobState' \notin {"completed", "failed", "removed"}
               PROVE  stored' /\ ~pending'.cleanup
    BY <1>j
  <2>1. ~fiveXX /\ ~seen.permanent
    <3>1. seen'.permanent = (seen.permanent \/ fiveXX)
      BY <1>1 DEF FailAttempt, TypeOK
    <3>2. QED
      BY <3>1
  <2>2. Retries(Counted)
    BY <1>1, Zenon DEF FailAttempt
  <2>3. ~Final(fiveXX, Counted)
    BY <1>t, <2>1, <2>2 DEF Final, Retries, Counted
  <2>4. pending' = pending
    BY <1>1, <2>3, Zenon DEF FailAttempt
  <2>5. jobState = "active" /\ UNCHANGED <<stored, adminRetries>>
    BY <1>1 DEF FailAttempt, PcInv
  <2>6. stored /\ ~pending.cleanup
    BY <2>1, <2>5
  <2>7. QED
    BY <2>4, <2>5, <2>6
<1>2. CASE CleanupAttachments
  BY <1>2, <1>j DEF CleanupAttachments
<1>3. CASE CompleteJob
  BY <1>3 DEF CompleteJob
<1>4. CASE AdminRetry
  BY <1>4, <1>t DEF AdminRetry
<1>5. CASE SendDsnBounce
  <2>1. pending'.cleanup = pending.cleanup
    BY <1>5 DEF SendDsnBounce, TypeOK
  <2>2. QED
    BY <1>5, <2>1, <1>j DEF SendDsnBounce
<1>6. CASE Crash
  BY <1>6 DEF Crash
<1>7. CASE StartAttempt
  <2>1. seen'.permanent = seen.permanent
    BY <1>7 DEF StartAttempt, TypeOK
  <2>2. QED
    BY <1>7, <2>1 DEF StartAttempt
<1>8. CASE CheckCancelled
  <2>1. seen'.permanent = seen.permanent
    BY <1>8 DEF CheckCancelled, TypeOK
  <2>2. QED
    BY <1>8, <2>1 DEF CheckCancelled
<1>9. CASE \/ BecomeWaiting \/ BuildMessage \/ MarkSent \/ StoreSentCopy
           \/ CancelRead \/ CancelRemove \/ CancelWrite \/ AdminRemove
           \/ UNCHANGED vars
  <2>1. UNCHANGED <<stored, pending, seen, adminRetries>>
    BY <1>9 DEF BecomeWaiting, BuildMessage, MarkSent, CancelRead, CancelRemove,
       CancelWrite, AdminRemove, StoreSentCopy, vars
  <2>2. jobState' = jobState \/ jobState' = "removed"
        \/ (jobState' = "waiting" /\ jobState \in {"delayed", "backoff", "stalled"})
    BY <1>9 DEF BecomeWaiting, BuildMessage, MarkSent, CancelRead, CancelRemove,
       CancelWrite, AdminRemove, StoreSentCopy, vars
  <2>3. QED
    BY <2>1, <2>2, <1>j
<1>10. ASSUME NEW r \in Local, StoreLocal(r) \/ DropLocal(r) PROVE KeptInv'
  <2>1. seen'.permanent = seen.permanent
    BY <1>10 DEF StoreLocal, DropLocal, TypeOK
  <2>2. QED
    BY <1>10, <2>1 DEF StoreLocal, DropLocal
<1>11. ASSUME NEW h \in Hop, NEW taken \in SUBSET Behind(h),
              RelayTo(h, taken) \/ NextHost(h, taken)
       PROVE  KeptInv'
  BY <1>11 DEF RelayTo, NextHost
<1> HIDE DEF KeptInv
<1>12. CASE Throws
  <2>1. pc # "idle"
    BY <1>12 DEF Throws
  <2>2. QED
    BY <1>1, <1>12, <2>1, Zenon DEF Throws
<1>13. ASSUME NEW h \in Hop, NEW taken \in SUBSET Behind(h), NEW fiveXX \in BOOLEAN,
              RelayThrows(h, taken, fiveXX)
       PROVE  KeptInv'
  <2>1. pc # "idle"
    BY <1>13 DEF RelayThrows, Relays
  <2>2. QED
    BY <1>1, <1>13, <2>1, Zenon DEF RelayThrows
<1>14. ASSUME NEW r \in Local, StoreThrows(r) PROVE KeptInv'
  <2>1. pc # "idle"
    BY <1>14 DEF StoreThrows
  <2>2. QED
    BY <1>1, <1>14, <2>1, Zenon DEF StoreThrows
<1>15. CASE Quiet
  BY <1>2, <1>3, <1>4, <1>5, <1>7, <1>8, <1>9, <1>15, Zenon DEF Quiet
<1>16. QED
  BY <1>6, <1>10, <1>11, <1>12, <1>13, <1>14, <1>15, StepCases, Zenon

(* An attempt that may still come finds the attachments, as long as no     *)
(* refusal was taken for permanent and nobody revived the job.             *)
THEOREM AttachmentsAreKept == Spec => []AttachmentsKept
<1>1. Init => KeptInv
  BY DEF Init, KeptInv
<1>2. IInv => TypeOK /\ PcInv
  BY DEF IInv
<1>3. KeptInv => AttachmentsKept
  BY DEF KeptInv, AttachmentsKept
<1>4. QED
  BY <1>1, <1>2, <1>3, KeptStep, SpecInv, PTL DEF Spec

-----------------------------------------------------------------------------
(* The refinement. *)

LEMMA InitRefines == Init => Abstract!Init
<1> SUFFICES ASSUME Init PROVE Abstract!Init
  OBVIOUS
<1>1. \A p \in Parties : ~ Reached(p)
  BY DEF Init, Reached, Behind, Rcpts, Parties
<1>2. Outcome = "open"
  BY DEF Init, Outcome
<1>3. seen.dropped = {}
  BY DEF Init
<1>4. QED
  BY <1>1, <1>2, <1>3 DEF Abstract!Init

(* A step that hands nothing out is seen by its effect on the outcome. *)
LEMMA OutcomeStep ==
  ASSUME copies' = copies, seen'.dropped = seen.dropped,
         \/ Outcome' = Outcome
         \/ /\ Outcome = "open"
            /\ \/ Outcome' = "sent" /\ EveryoneServed
               \/ Outcome' \in {"stopped", "failed"}
         \/ Outcome = "failed" /\ Outcome' = "open"
         \/ Outcome # "removed" /\ Outcome' = "removed",
         seen.dropped \subseteq Parties
  PROVE  [Abstract!Next]_Abstract!vars
<1>1. {p \in Parties : Reached(p)}' = {p \in Parties : Reached(p)}
  BY DEF Parties, Reached, Behind
<1>2. EveryoneServed => {p \in Parties : Reached(p)} \cup seen.dropped = Parties
  BY DEF EveryoneServed, Served
<1>3. QED
  BY <1>1, <1>2 DEF Abstract!Next, Abstract!vars, Abstract!Sent, Abstract!Give,
     Abstract!Reopen, Abstract!Forget

(* A step that gives to those of one party: Hand(p), or a stutter when     *)
(* nobody gets anything; at the end of an attempt it may be Give.          *)
LEMMA GivingStep ==
  ASSUME TypeOK, NEW p \in Parties, NEW taken \in SUBSET Rcpts,
         \A r \in taken : PartyOf(r) = p, copies' = Given(taken),
         seen'.dropped = seen.dropped, Outcome = "open",
         Outcome' \in {"open", "failed"}
  PROVE  [Abstract!Next]_Abstract!vars
<1>1. /\ \A q \in Parties \ {p} : Reached(q)' <=> Reached(q)
      /\ taken # {} => Reached(p)'
  BY GivenReaches
<1>2. Parties' = Parties
  BY DEF Parties
<1>3. CASE taken = {}
  <2>1. \A r \in Rcpts : copies'[r] = copies[r]
    BY <1>3 DEF Given
  <2>2. \A q \in Parties : Reached(q)' <=> Reached(q)
    BY <2>1 DEF Reached, Behind, Rcpts, Parties
  <2>3. {q \in Parties : Reached(q)}' = {q \in Parties : Reached(q)}
    BY <1>2, <2>2
  <2>4. QED
    BY <2>3 DEF Abstract!Next, Abstract!vars, Abstract!Give
<1>4. CASE taken # {}
  <2>1. {q \in Parties : Reached(q)}' = {q \in Parties : Reached(q)} \cup {p}
    BY <1>1, <1>2, <1>4
  <2>2. CASE Outcome' = "open"
    <3>1. Abstract!Hand(p)
      BY <2>1, <2>2 DEF Abstract!Hand
    <3>2. QED
      BY <3>1 DEF Abstract!Next
  <2>3. CASE Outcome' = "failed"
    <3>1. Abstract!Give("failed")
      BY <2>1, <2>3 DEF Abstract!Give
    <3>2. QED
      BY <3>1 DEF Abstract!Next
  <2>4. QED
    BY <2>2, <2>3
<1>5. QED
  BY <1>3, <1>4

LEMMA QuietRefines ==
  ASSUME IInv, TypeOK', Quiet
  PROVE  [Abstract!Next]_Abstract!vars
<1>t. TypeOK /\ PcInv /\ DoneInv /\ copies' = copies
  BY QuietFrame DEF IInv
<1>d. seen.dropped \subseteq Parties
  BY <1>t DEF TypeOK, Parties
<1>s. seen'.dropped = seen.dropped
  <2>1. \/ seen' = seen
        \/ seen' = [seen EXCEPT !.cancelFirst = schedStatus = "CANCELLED"]
        \/ seen' = [seen EXCEPT !.stopped = TRUE]
    BY DEF Quiet, BecomeWaiting, StartAttempt, CheckCancelled, BuildMessage,
       MarkSent, CompleteJob, CleanupAttachments, SendDsnBounce, CancelRead,
       CancelRemove, CancelWrite, AdminRetry, AdminRemove, StoreSentCopy, vars
  <2>2. QED
    BY <1>t, <2>1 DEF TypeOK
<1>o. \/ Outcome' = Outcome
      \/ /\ Outcome = "open"
         /\ \/ Outcome' = "sent" /\ EveryoneServed
            \/ Outcome' \in {"stopped", "failed"}
      \/ Outcome = "failed" /\ Outcome' = "open"
      \/ Outcome # "removed" /\ Outcome' = "removed"
  <2> USE DEF Outcome
  <2>1. CASE BecomeWaiting
    BY <2>1 DEF BecomeWaiting
  <2>2. CASE StartAttempt
    BY <2>2 DEF StartAttempt
  <2>3. CASE CheckCancelled \/ BuildMessage \/ MarkSent
    <3>1. jobState' = jobState /\ pc # "idle"
      BY <2>3 DEF CheckCancelled, BuildMessage, MarkSent
    <3>2. QED
      BY <1>t, <3>1 DEF PcInv
  <2>4. CASE CompleteJob
    <3>1. Outcome = "open" /\ jobState' = "completed" /\ seen' = seen
      BY <2>4, <1>t DEF CompleteJob, PcInv
    <3>2. EveryoneServed \/ seen.stopped
      BY <2>4, <1>t DEF CompleteJob, DoneInv
    <3>3. QED
      BY <3>1, <3>2
  <2>5. CASE CleanupAttachments \/ SendDsnBounce \/ StoreSentCopy \/ CancelRead
             \/ CancelWrite \/ UNCHANGED vars
    <3>1. UNCHANGED <<jobState, seen>>
      BY <2>5 DEF CleanupAttachments, SendDsnBounce, StoreSentCopy, CancelRead,
         CancelWrite, vars
    <3>2. QED
      BY <3>1
  <2>6. CASE CancelRemove \/ AdminRemove
    <3>1. /\ jobState' = jobState \/ (Removable /\ jobState' = "removed")
          /\ seen' = seen
      BY <2>6 DEF CancelRemove, AdminRemove
    <3>2. Removable => Outcome # "removed"
      BY DEF Removable
    <3>3. QED
      BY <3>1, <3>2
  <2>7. CASE AdminRetry
    BY <2>7 DEF AdminRetry
  <2>8. QED
    BY <2>1, <2>2, <2>3, <2>4, <2>5, <2>6, <2>7 DEF Quiet
<1>1. QED
  BY <1>t, <1>d, <1>s, <1>o, OutcomeStep

LEMMA NextRefines == IInv /\ [Next]_vars => [Abstract!Next]_Abstract!vars
<1> SUFFICES ASSUME IInv, [Next]_vars PROVE [Abstract!Next]_Abstract!vars
  OBVIOUS
<1>t. TypeOK /\ TypeOK' /\ PcInv
  BY NextTypeOK DEF IInv
<1>d. seen.dropped \subseteq Parties
  BY <1>t DEF TypeOK, Parties
<1>1. CASE Quiet
  BY <1>1, <1>t, QuietRefines
<1>2. ASSUME NEW r \in Local, StoreLocal(r)
      PROVE  [Abstract!Next]_Abstract!vars
  <2>1. Outcome = "open" /\ Outcome' = "open"
    BY <1>2, <1>t DEF StoreLocal, StoringTo, PcInv, Outcome
  <2>2. copies' = Given({r}) /\ seen' = seen
    BY <1>2 DEF StoreLocal
  <2>3. QED
    BY <1>t, <2>1, <2>2, PartyFacts, GivingStep
<1>3. ASSUME NEW r \in Local, DropLocal(r)
      PROVE  [Abstract!Next]_Abstract!vars
  <2>1. Outcome = "open" /\ Outcome' = "open"
    BY <1>3, <1>t DEF DropLocal, StoringTo, PcInv, Outcome, TypeOK
  <2>2. copies' = copies /\ seen'.dropped = seen.dropped \cup {r}
    BY <1>3, <1>t DEF DropLocal, TypeOK
  <2>3. {p \in Parties : Reached(p)}' = {p \in Parties : Reached(p)}
    BY <2>2 DEF Parties, Reached, Behind
  <2>4. Abstract!Drop(r)
    BY <2>1, <2>2, <2>3 DEF Abstract!Drop
  <2>5. QED
    BY <2>4 DEF Abstract!Next
<1>4. ASSUME NEW h \in Hop, NEW taken \in SUBSET Behind(h),
             RelayTo(h, taken) \/ NextHost(h, taken)
      PROVE  [Abstract!Next]_Abstract!vars
  <2>1. Outcome = "open" /\ Outcome' = "open"
    BY <1>4, <1>t DEF RelayTo, NextHost, Relays, PcInv, Outcome
  <2>2. copies' = Given(taken) /\ seen' = seen
    BY <1>4 DEF RelayTo, NextHost
  <2>3. QED
    BY <1>t, <2>1, <2>2, PartyFacts, GivingStep
<1>5. ASSUME NEW fiveXX \in BOOLEAN, FailAttempt(fiveXX), pc # "idle"
      PROVE  /\ Outcome = "open" /\ Outcome' \in {"open", "failed"}
             /\ seen'.dropped = seen.dropped
  <2>1. jobState' \in {"backoff", "failed"}
    BY <1>5, Zenon DEF FailAttempt
  <2>2. seen' = [seen EXCEPT !.permanent = @ \/ fiveXX]
    BY <1>5, Zenon DEF FailAttempt
  <2>3. QED
    BY <1>5, <1>t, <2>1, <2>2 DEF PcInv, Outcome, TypeOK
<1>6. CASE Throws
  <2>1. pc # "idle" /\ copies' = copies
    BY <1>6 DEF Throws
  <2>2. FailAttempt(FALSE)
    BY <1>6, Zenon DEF Throws
  <2>3. QED
    BY <1>5, <1>d, <2>1, <2>2, OutcomeStep
<1>7. ASSUME NEW h \in Hop, NEW taken \in SUBSET Behind(h), NEW fiveXX \in BOOLEAN,
             RelayThrows(h, taken, fiveXX)
      PROVE  [Abstract!Next]_Abstract!vars
  <2>1. pc # "idle" /\ copies' = Given(taken)
    BY <1>7 DEF RelayThrows, Relays
  <2>2. FailAttempt(fiveXX)
    BY <1>7, Zenon DEF RelayThrows
  <2>3. QED
    BY <1>5, <1>t, <2>1, <2>2, PartyFacts, GivingStep
<1>8. CASE Crash
  <2>1. copies' = copies /\ Outcome' = Outcome /\ seen' = seen
    BY <1>8 DEF Crash, Outcome
  <2>2. QED
    BY <1>d, <2>1, OutcomeStep
<1>9. ASSUME NEW r \in Local, StoreThrows(r)
      PROVE  [Abstract!Next]_Abstract!vars
  <2>1. pc # "idle" /\ copies' = Given({r})
    BY <1>9 DEF StoreThrows
  <2>2. FailAttempt(FALSE)
    BY <1>9, Zenon DEF StoreThrows
  <2>3. r \in Parties /\ {r} \in SUBSET Rcpts /\ \A q \in {r} : PartyOf(q) = r
    BY PartyFacts
  <2>4. /\ Outcome = "open" /\ Outcome' \in {"open", "failed"}
        /\ seen'.dropped = seen.dropped
    BY <1>5, <2>1, <2>2
  <2>5. QED
    BY <1>t, <2>1, <2>3, <2>4, GivingStep
<1>10. QED
  BY <1>1, <1>2, <1>3, <1>4, <1>6, <1>7, <1>8, <1>9, StepCases, Zenon

(* The queue implements the abstract delivery. *)
THEOREM QueueImplementsDelivery == Spec => ImplementsDelivery
<1>1. QED
  BY InitRefines, NextRefines, SpecInv, PTL
     DEF Spec, ImplementsDelivery, Abstract!Spec
=============================================================================
