--------------------------- MODULE InboundMailProofs ---------------------------
(***************************************************************************)
(* Theorems about InboundMail, for any addresses, envelopes, switches and  *)
(* any number of tries, failures and acts of the administrator.            *)
(*                                                                         *)
(* The invariant follows an accepted recipient through its handler: at     *)
(* each step one of the addresses it stands for still waits in a list of   *)
(* the handler, or has a fate.  The copies are counted by the tries that   *)
(* can no longer store: each list is free of repetitions when it is walked.*)
(***************************************************************************)
EXTENDS InboundMail, FiniteSetTheorems, TLAPS

(* The handler has no list of its own yet.                                 *)
Early   == {"none", "rcpt", "filter", "upload", "row", "publish"}
Filters == {"filter", "upload", "row", "publish"}
Looping == {"find", "insert", "count"}
Placed  == {"split", "find", "insert", "count", "queue", "rooms"}

Distinct(s) == \A i, j \in DOMAIN s : s[i] = s[j] => i = j

(* What the handler of a try has in hand.                                  *)
ShapeOK(t) ==
  /\ task[t].at \in {"rcpt", "expand", "split"} \cup Looping => task[t].todo # <<>>
  /\ task[t].at \in Early =>
       /\ task[t].local = <<>> /\ task[t].ext = <<>> /\ task[t].became = {}
  /\ task[t].at \in Early \cup {"expand", "split"} => task[t].fate = {}
  /\ task[t].at \in Filters =>
       mail.port = "inbound" /\ task[t].todo = task[t].to /\ task[t].to # <<>>
  /\ task[t].at = "split" /\ mail.port # "inbound" => task[t].became = {}
  /\ task[t].at = "expand" /\ mail.port = "inbound" => task[t].ext = <<>>
  /\ task[t].at \in {"insert", "count"} => Head(task[t].todo) \in Boxes
  /\ task[t].at = "rcpt" => t = peer.try /\ peer.state = "talking"
  /\ t > peer.try => task[t] = Idle

(* No list that is walked names an address twice.                          *)
OnceOK(t) ==
  /\ task[t].at = "expand" => Distinct(task[t].local)
  /\ task[t].at = "split" /\ mail.port = "inbound" =>
       /\ Distinct(task[t].todo) /\ Distinct(task[t].local)
       /\ ToSet(task[t].todo) \cap ToSet(task[t].local) = {}
  /\ task[t].at \in Looping => Distinct(task[t].todo)

(* What was written down as done was done.                                 *)
FateOK(t) ==
  /\ \A x \in Address : <<x, "stored">> \in task[t].fate => x \in Boxes /\ copies[x] > 0
  /\ \A x \in Address : <<x, "queued">> \in task[t].fate => jobs[x] > 0
  /\ \A x \in Address : <<x, "lost">> \in task[t].fate => task[t].hurt
  /\ task[t].at = "count" => copies[Head(task[t].todo)] > 0
  /\ task[t].at = "publish" => held > 0

(* A recipient that must not end without a mailbox.                        *)
Sure(t, a) == mail.port = "inbound" /\ a \notin Rooms /\ ~task[t].stale

Good(r) == r \in Boxes \cap on

StillTrue(t) ==
  /\ task[t].at \in {"rcpt", "expand"} \cup Filters
  /\ mail.port = "inbound" /\ ~task[t].stale
  => \A a \in ToSet(task[t].to) : VerifyRecipient(a)

Waiting(t) ==
  ToSet(task[t].ext) \cup
  (IF task[t].at = "split" THEN ToSet(task[t].todo) \cup ToSet(task[t].local)
   ELSE IF task[t].at \in Looping THEN ToSet(task[t].todo) ELSE {})

StandsFor(t, a, r) == r = a \/ <<a, r>> \in task[t].became

InHand(t, a, r) ==
  /\ task[t].at \in {"split", "queue"} \cup Looping
  /\ r \in Waiting(t)
  /\ Sure(t, a) => Good(r)

Ended(t, a, r) == \E w \in What : /\ <<r, w>> \in task[t].fate
                                  /\ Sure(t, a) => w # "unknown"

Covered(t, a) ==
  \E r \in Address : StandsFor(t, a, r) /\ (InHand(t, a, r) \/ Ended(t, a, r))

Expanding(t, a) ==
  \/ a \in ToSet(task[t].todo) \cup ToSet(task[t].ext)
  \/ \E r \in ToSet(task[t].local) :
       <<a, r>> \in task[t].became /\ (Sure(t, a) => Good(r))

CoverOK(t) ==
  /\ task[t].at = "expand" =>
       /\ \A a \in ToSet(task[t].to) : Expanding(t, a)
       /\ \A p \in task[t].became :
            /\ p[2] \in ToSet(task[t].local)
            /\ p[1] # p[2] => p[1] \in Aliases /\ p[2] = TargetOf[p[1]]
  /\ task[t].at \in Placed => \A a \in ToSet(task[t].to) : Covered(t, a)
  /\ task[t].at = "ok" =>
       \/ task[t].became = {} /\ task[t].fate = {} /\ held > 0
       \/ \A a \in ToSet(task[t].to) : Covered(t, a)

TryOK(t) == ShapeOK(t) /\ OnceOK(t) /\ FateOK(t) /\ StillTrue(t) /\ CoverOK(t)

-----------------------------------------------------------------------------
(* Counting.                                                               *)

MayStore(t, b) ==
  \/ task[t].at \in {"rcpt", "expand", "split"} \cup Filters
  \/ task[t].at \in {"find", "insert"} /\ b \in ToSet(task[t].todo)
  \/ task[t].at = "count" /\ b \in ToSet(Tail(task[t].todo))
MayQueue(t) == task[t].at \in {"rcpt", "expand", "split", "queue"} \cup Filters \cup Looping
MayHold(t)  == task[t].at \in {"rcpt", "filter", "upload", "row"}

Stored(b) == {t \in 1..peer.try : ~MayStore(t, b)}
Queued    == {t \in 1..peer.try : ~MayQueue(t)}
Held      == {t \in 1..peer.try : ~MayHold(t)}

CountOK ==
  /\ \A b \in Boxes : copies[b] <= Cardinality(Stored(b))
  /\ \A a \in Address : jobs[a] <= Cardinality(Queued)
  /\ held <= Cardinality(Held)

(* Without a failure there is one try.                                     *)
OneTry ==
  /\ peer.try <= 1
  /\ peer.try = 1 => peer.state = "talking" \/ peer.left = <<>>
  /\ \A t \in Tries : task[t].at # "temporary"
  /\ \A t \in Tries : task[t].at = "permanent" => \A b \in Boxes : copies[b] = 0

CleanOK == budget.faults = 0 => OneTry

PeerOK == peer.state = "talking" => peer.try \in Tries

IInv ==
  InboundTypeOK /\ PeerOK /\ (\A t \in Tries : TryOK(t)) /\ CountOK /\ CleanOK

-----------------------------------------------------------------------------
(* Sequences.                                                              *)

LEMMA FirstAndRest ==
  ASSUME NEW S, NEW s \in Seq(S), s # <<>>
  PROVE  /\ Head(s) \in S /\ Tail(s) \in Seq(S)
         /\ Len(s) \in Nat \ {0}
         /\ ToSet(s) = {Head(s)} \cup ToSet(Tail(s))
         /\ Len(s) = 1 => Tail(s) = <<>>
         /\ Len(s) # 1 => Tail(s) # <<>> /\ Len(s) > 1
<1>1. /\ Head(s) \in S /\ Tail(s) \in Seq(S) /\ Len(s) \in Nat \ {0}
      /\ Head(s) = s[1] /\ Len(Tail(s)) = Len(s) - 1
      /\ \A i \in 1..Len(s) - 1 : Tail(s)[i] = s[i + 1]
      /\ DOMAIN s = 1..Len(s) /\ DOMAIN Tail(s) = 1..Len(s) - 1
  OBVIOUS
<1>2. ASSUME NEW x \in ToSet(s) PROVE x \in {Head(s)} \cup ToSet(Tail(s))
  <2>1. PICK i \in 1..Len(s) : x = s[i]
    BY <1>1, <1>2 DEF ToSet
  <2>2. CASE i = 1
    BY <1>1, <2>1, <2>2
  <2>3. CASE i # 1
    <3>1. i - 1 \in 1..Len(s) - 1 /\ (i - 1) + 1 = i
      BY <1>1, <2>1, <2>3
    <3>2. Tail(s)[i - 1] = x
      BY <1>1, <2>1, <3>1
    <3>3. QED
      BY <1>1, <3>1, <3>2 DEF ToSet
  <2>4. QED
    BY <2>2, <2>3
<1>3. Head(s) \in ToSet(s)
  BY <1>1 DEF ToSet
<1>4. ASSUME NEW x \in ToSet(Tail(s)) PROVE x \in ToSet(s)
  <2>1. PICK i \in 1..Len(s) - 1 : x = Tail(s)[i]
    BY <1>1, <1>4 DEF ToSet
  <2>2. i + 1 \in DOMAIN s /\ x = s[i + 1]
    BY <1>1, <2>1
  <2>3. QED
    BY <2>2 DEF ToSet
<1>5. Len(s) # 1 => Len(s) > 1 /\ Tail(s) # <<>>
  <2>1. Len(s) # 1 => Len(s) > 1 /\ Len(Tail(s)) # 0
    BY <1>1
  <2>2. Len(<<>>) = 0
    OBVIOUS
  <2>3. QED
    BY <2>1, <2>2
<1>6. Len(s) = 1 => Tail(s) = <<>>
  BY <1>1
<1>7. ToSet(s) = {Head(s)} \cup ToSet(Tail(s))
  BY <1>2, <1>3, <1>4
<1>8. QED
  BY <1>1, <1>5, <1>6, <1>7

LEMMA OneMore ==
  ASSUME NEW S, NEW s \in Seq(S), NEW x \in S
  PROVE  /\ Append(s, x) \in Seq(S) /\ Append(s, x) # <<>>
         /\ ToSet(Append(s, x)) = ToSet(s) \cup {x}
<1>1. /\ Append(s, x) \in Seq(S) /\ Append(s, x) # <<>> /\ Len(s) \in Nat
      /\ DOMAIN s = 1..Len(s) /\ DOMAIN Append(s, x) = 1..Len(s) + 1
      /\ \A i \in 1..Len(s) : Append(s, x)[i] = s[i]
      /\ Append(s, x)[Len(s) + 1] = x
  OBVIOUS
<1>2. ASSUME NEW y \in ToSet(Append(s, x)) PROVE y \in ToSet(s) \cup {x}
  <2>1. PICK i \in 1..Len(s) + 1 : y = Append(s, x)[i]
    BY <1>1, <1>2 DEF ToSet
  <2>2. CASE i = Len(s) + 1
    BY <1>1, <2>1, <2>2
  <2>3. CASE i \in 1..Len(s)
    BY <1>1, <2>1, <2>3 DEF ToSet
  <2>4. QED
    BY <1>1, <2>1, <2>2, <2>3
<1>3. ASSUME NEW y \in ToSet(s) PROVE y \in ToSet(Append(s, x))
  <2>1. PICK i \in 1..Len(s) : y = s[i]
    BY <1>1, <1>3 DEF ToSet
  <2>2. i \in DOMAIN Append(s, x) /\ y = Append(s, x)[i]
    BY <1>1, <2>1
  <2>3. QED
    BY <2>2 DEF ToSet
<1>4. x \in ToSet(Append(s, x))
  <2>1. Len(s) + 1 \in DOMAIN Append(s, x)
    BY <1>1
  <2>2. QED
    BY <1>1, <2>1 DEF ToSet
<1>5. QED
  BY <1>1, <1>2, <1>3, <1>4

LEMMA DistinctRest ==
  ASSUME NEW S, NEW s \in Seq(S), s # <<>>, Distinct(s)
  PROVE  Distinct(Tail(s)) /\ Head(s) \notin ToSet(Tail(s))
<1>1. /\ Head(s) = s[1] /\ Len(s) \in Nat \ {0}
      /\ \A i \in 1..Len(s) - 1 : Tail(s)[i] = s[i + 1]
      /\ DOMAIN s = 1..Len(s) /\ DOMAIN Tail(s) = 1..Len(s) - 1
  OBVIOUS
<1>2. \A i \in 1..Len(s) - 1 : i + 1 \in DOMAIN s /\ i + 1 # 1
  BY <1>1
<1>3. Head(s) \notin ToSet(Tail(s))
  <2> SUFFICES ASSUME NEW i \in DOMAIN Tail(s), Tail(s)[i] = Head(s) PROVE FALSE
    BY DEF ToSet
  <2>1. s[i + 1] = s[1] /\ i + 1 \in DOMAIN s /\ 1 \in DOMAIN s /\ i + 1 # 1
    BY <1>1, <1>2
  <2>2. QED
    BY <2>1 DEF Distinct
<1>4. ASSUME NEW i \in DOMAIN Tail(s), NEW j \in DOMAIN Tail(s), Tail(s)[i] = Tail(s)[j]
      PROVE  i = j
  <2>1. s[i + 1] = s[j + 1] /\ i + 1 \in DOMAIN s /\ j + 1 \in DOMAIN s
    BY <1>1, <1>2, <1>4
  <2>2. i + 1 = j + 1
    BY <2>1 DEF Distinct
  <2>3. QED
    BY <1>1, <2>2
<1>5. QED
  BY <1>3, <1>4 DEF Distinct

LEMMA DistinctMore ==
  ASSUME NEW S, NEW s \in Seq(S), NEW x \in S, Distinct(s), x \notin ToSet(s)
  PROVE  Distinct(Append(s, x))
<1>1. /\ Len(s) \in Nat
      /\ DOMAIN s = 1..Len(s) /\ DOMAIN Append(s, x) = 1..Len(s) + 1
      /\ \A i \in 1..Len(s) : Append(s, x)[i] = s[i]
      /\ Append(s, x)[Len(s) + 1] = x
  OBVIOUS
<1>2. \A i \in 1..Len(s) : s[i] # x
  BY <1>1 DEF ToSet
<1>3. QED
  BY <1>1, <1>2 DEF Distinct

LEMMA NothingIn == ToSet(<<>>) = {} /\ Distinct(<<>>) /\ \A S : <<>> \in Seq(S)
BY DEF ToSet, Distinct

LEMMA AddOnceAdds ==
  ASSUME NEW S, NEW s \in Seq(S), NEW x \in S
  PROVE  /\ AddOnce(s, x) \in Seq(S) /\ AddOnce(s, x) # <<>>
         /\ ToSet(AddOnce(s, x)) = ToSet(s) \cup {x}
         /\ Distinct(s) => Distinct(AddOnce(s, x))
<1>1. CASE x \in ToSet(s)
  BY <1>1, NothingIn DEF AddOnce
<1>2. CASE x \notin ToSet(s)
  BY <1>2, OneMore, DistinctMore DEF AddOnce
<1>3. QED
  BY <1>1, <1>2

LEMMA InSet == ASSUME NEW S, NEW s \in Seq(S) PROVE ToSet(s) \subseteq S
BY DEF ToSet

-----------------------------------------------------------------------------
(* What a step leaves alone.                                               *)

Same(s) == task'[s] = task[s]

Grows ==
  /\ mail' = mail /\ on' = on
  /\ copies' \in [Boxes -> Nat] /\ \A b \in Boxes : copies'[b] >= copies[b]
  /\ jobs' \in [Address -> Nat] /\ \A a \in Address : jobs'[a] >= jobs[a]
  /\ held' \in Nat /\ held' >= held

(* A try that does not move keeps what was true of it.                     *)
LEMMA OtherTry ==
  ASSUME IInv, NEW s \in Tries, Same(s), Grows,
         peer'.try \in Nat, peer'.try >= peer.try,
         task[s].at = "rcpt" => s = peer'.try /\ peer'.state = "talking"
  PROVE  TryOK(s)'
<1>t. /\ TryOK(s) /\ s \in Nat /\ peer.try \in Nat
      /\ task[s].todo \in Seq(Address) /\ held \in Nat
      /\ copies \in [Boxes -> Nat] /\ jobs \in [Address -> Nat]
  BY DEF IInv, InboundTypeOK, Tries, Task
<1>1. ShapeOK(s)'
  BY <1>t DEF Same, Grows, TryOK, ShapeOK
<1>2. OnceOK(s)'
  BY <1>t DEF Same, Grows, TryOK, OnceOK
<1>3. FateOK(s)'
  <2>1. task[s].at = "count" => Head(task[s].todo) \in Boxes
    BY <1>t DEF TryOK, ShapeOK
  <2>2. \A b \in Boxes : copies[b] > 0 => copies'[b] > 0
    BY <1>t DEF Grows
  <2>3. \A a \in Address : jobs[a] > 0 => jobs'[a] > 0
    BY <1>t DEF Grows
  <2>4. held > 0 => held' > 0
    BY <1>t DEF Grows
  <2>5. QED
    BY <1>t, <2>1, <2>2, <2>3, <2>4 DEF Same, TryOK, FateOK
<1>4. StillTrue(s)'
  BY <1>t DEF Same, Grows, TryOK, StillTrue, VerifyRecipient
<1>5. CoverOK(s)'
  <2>1. \A a : Sure(s, a)' <=> Sure(s, a)
    BY DEF Same, Grows, Sure
  <2>2. \A r : Good(r)' <=> Good(r)
    BY DEF Grows, Good
  <2>3. Waiting(s)' = Waiting(s)
    BY DEF Same, Waiting
  <2>4. \A a : Covered(s, a) => Covered(s, a)'
    BY <2>1, <2>2, <2>3 DEF Same, Covered, StandsFor, InHand, Ended
  <2>5. \A a : Expanding(s, a) => Expanding(s, a)'
    BY <2>1, <2>2 DEF Same, Expanding
  <2>6. held > 0 => held' > 0
    BY <1>t DEF Grows
  <2>7. QED
    BY <1>t, <2>4, <2>5, <2>6 DEF Same, TryOK, CoverOK
<1>6. QED
  BY <1>1, <1>2, <1>3, <1>4, <1>5 DEF TryOK

(* Counting tries.                                                         *)
LEMMA Pays ==
  ASSUME NEW S, NEW T, IsFiniteSet(T), S \subseteq T, NEW n \in Nat,
         n <= Cardinality(S)
  PROVE  /\ n <= Cardinality(T)
         /\ \A x \in T \ S : n + 1 <= Cardinality(T)
<1>1. IsFiniteSet(S) /\ Cardinality(S) \in Nat /\ Cardinality(T) \in Nat
      /\ Cardinality(S) <= Cardinality(T)
  BY FS_Subset, FS_CardinalityType
<1>2. ASSUME NEW x \in T \ S PROVE n + 1 <= Cardinality(T)
  <2>1. Cardinality(S \cup {x}) = Cardinality(S) + 1
    BY <1>1, <1>2, FS_AddElement
  <2>2. Cardinality(S \cup {x}) <= Cardinality(T)
    BY <1>2, FS_Subset
  <2>3. QED
    BY <1>1, <2>1, <2>2
<1>3. QED
  BY <1>1, <1>2

LEMMA FiniteTries ==
  ASSUME peer.try \in Nat
  PROVE  /\ \A b : IsFiniteSet(Stored(b)) /\ Cardinality(Stored(b)) \in Nat
                   /\ Cardinality(Stored(b)) <= peer.try
         /\ IsFiniteSet(Queued) /\ Cardinality(Queued) \in Nat
         /\ Cardinality(Queued) <= peer.try
         /\ IsFiniteSet(Held) /\ Cardinality(Held) \in Nat
         /\ Cardinality(Held) <= peer.try
<1>1. IsFiniteSet(1..peer.try) /\ Cardinality(1..peer.try) = peer.try
  BY FS_Interval
<1>2. \A T \in SUBSET (1..peer.try) :
        IsFiniteSet(T) /\ Cardinality(T) \in Nat /\ Cardinality(T) <= peer.try
  BY <1>1, FS_Subset, FS_CardinalityType
<1>3. Queued \in SUBSET (1..peer.try) /\ Held \in SUBSET (1..peer.try)
  BY DEF Queued, Held
<1>4. \A b : Stored(b) \in SUBSET (1..peer.try)
  BY DEF Stored
<1>5. QED
  BY <1>2, <1>3, <1>4

(* Nothing is stored, queued or held, and no try may do more than before.  *)
LEMMA CountStays ==
  ASSUME IInv, UNCHANGED <<copies, jobs, held>>,
         peer'.try \in Nat, peer'.try >= peer.try,
         \A s \in 1..peer.try :
           /\ \A b \in Boxes : MayStore(s, b)' => MayStore(s, b)
           /\ MayQueue(s)' => MayQueue(s)
           /\ MayHold(s)' => MayHold(s)
  PROVE  CountOK'
<1>t. /\ peer.try \in Nat /\ held \in Nat /\ CountOK
      /\ copies \in [Boxes -> Nat] /\ jobs \in [Address -> Nat]
  BY DEF IInv, InboundTypeOK
<1>s. 1..peer.try \subseteq 1..peer'.try
  BY <1>t
<1>f. /\ IsFiniteSet(Queued') /\ IsFiniteSet(Held')
      /\ \A b : IsFiniteSet(Stored(b)')
  <2>1. IsFiniteSet(1..peer'.try)
    BY FS_Interval
  <2>2. Queued' \in SUBSET (1..peer'.try) /\ Held' \in SUBSET (1..peer'.try)
        /\ \A b : Stored(b)' \in SUBSET (1..peer'.try)
    BY DEF Queued, Held, Stored
  <2>3. QED
    BY <2>1, <2>2, FS_Subset
<1>1. ASSUME NEW b \in Boxes PROVE copies'[b] <= Cardinality(Stored(b)')
  <2>1. Stored(b) \subseteq Stored(b)'
    BY <1>s DEF Stored
  <2>2. QED
    BY <1>t, <1>f, <2>1, Pays DEF CountOK
<1>2. ASSUME NEW a \in Address PROVE jobs'[a] <= Cardinality(Queued')
  <2>1. Queued \subseteq Queued'
    BY <1>s DEF Queued
  <2>2. QED
    BY <1>t, <1>f, <2>1, Pays DEF CountOK
<1>3. held' <= Cardinality(Held')
  <2>1. Held \subseteq Held'
    BY <1>s DEF Held
  <2>2. QED
    BY <1>t, <1>f, <2>1, Pays DEF CountOK
<1>4. QED
  BY <1>1, <1>2, <1>3 DEF CountOK

LEMMA InitInv == InboundInit => IInv
<1> SUFFICES ASSUME InboundInit PROVE IInv
  OBVIOUS
<1>1. InboundTypeOK
  <2>1. mail.rcpts \in Seq(Address) /\ mail \in [port : Ports, rcpts : Envelopes]
    BY InboundAssumption DEF InboundInit
  <2>2. Idle \in Task
    BY DEF Idle, Task, Ends
  <2>3. QED
    BY <2>1, <2>2, InboundAssumption DEF InboundInit, InboundTypeOK
<1>2. ASSUME NEW t \in Tries PROVE TryOK(t)
  <2>1. task[t] = Idle /\ peer.try = 0
    BY DEF InboundInit
  <2>2. QED
    BY <2>1 DEF Idle, TryOK, ShapeOK, OnceOK, FateOK, StillTrue, CoverOK, Early,
       Filters, Looping, Placed, Tries
<1>3. CountOK
  <2>1. peer.try = 0 /\ held = 0 /\ (\A b \in Boxes : copies[b] = 0)
        /\ \A a \in Address : jobs[a] = 0
    BY DEF InboundInit
  <2>2. QED
    BY <2>1, FiniteTries DEF CountOK
<1>4. CleanOK /\ PeerOK
  BY DEF InboundInit, CleanOK, OneTry, PeerOK, Idle
<1>5. QED
  BY <1>1, <1>2, <1>3, <1>4 DEF IInv

-----------------------------------------------------------------------------
(* RCPT.                                                                   *)

LEMMA Fields ==
  ASSUME IInv, NEW t \in Tries
  PROVE  /\ task[t] \in Task /\ TryOK(t)
         /\ task[t].at \in Steps \cup Ends
         /\ task[t].to \in Seq(Address) /\ task[t].todo \in Seq(Address)
         /\ task[t].local \in Seq(Address) /\ task[t].ext \in Seq(Address)
         /\ task[t].became \in SUBSET (Address \X Address)
         /\ task[t].fate \in SUBSET (Address \X What)
         /\ task[t].stale \in BOOLEAN /\ task[t].hurt \in BOOLEAN
         /\ t \in Nat /\ peer.try \in Nat
         /\ task[t].at \in Steps => t <= peer.try
<1>1. task[t] \in Task /\ TryOK(t) /\ t \in Nat /\ peer.try \in Nat
  BY DEF IInv, InboundTypeOK, Tries
<1>2. task[t].at \in Steps => t <= peer.try
  BY <1>1 DEF TryOK, ShapeOK, Idle, Steps
<1>3. QED
  BY <1>1, <1>2 DEF Task

(* The next address of the envelope was accepted or refused.               *)
LEMMA AfterRcpt ==
  ASSUME IInv, NEW t \in Tries, task[t].at = "rcpt",
         task' \in [Tries -> Task], \A s \in Tries \ {t} : task'[s] = task[s],
         ToSet(task'[t].to) \subseteq ToSet(task[t].to) \cup {x \in Address : OnRcptTo(x)},
         task'[t].at \in {"rcpt", "gone", "filter", "split"},
         task'[t].at = "rcpt" => task'[t].todo # <<>>,
         task'[t].at # "rcpt" =>
           task'[t].todo = task'[t].to /\ task'[t].at = FirstStep(task'[t].to),
         task'[t].local = task[t].local, task'[t].ext = task[t].ext,
         task'[t].became = task[t].became, task'[t].fate = task[t].fate,
         task'[t].stale = task[t].stale,
         UNCHANGED <<mail, on, copies, jobs, held>>,
         peer'.try = peer.try,
         task'[t].at = "rcpt" => peer'.state = peer.state,
         peer'.state \in {peer.state, "waiting"}
  PROVE  /\ \A s \in Tries : TryOK(s)'
         /\ CountOK' /\ PeerOK'
         /\ \A s \in Tries : task'[s].at \in {"temporary", "permanent"} =>
              task'[s].at = task[s].at
<1> DEFINE to == task'[t].to
           todo == task'[t].todo
           at == task'[t].at
<1>t. /\ task \in [Tries -> Task] /\ task[t] \in Task /\ peer.try \in Nat
      /\ peer.try <= MaxTries /\ MaxTries \in Nat
      /\ copies \in [Boxes -> Nat] /\ jobs \in [Address -> Nat] /\ held \in Nat
  BY InboundAssumption DEF IInv, InboundTypeOK
<1>w. to \in Seq(Address) /\ todo \in Seq(Address)
  <2>1. task'[t] \in Task
    OBVIOUS
  <2>2. QED
    BY <2>1 DEF Task
<1>o. /\ TryOK(t) /\ t = peer.try /\ peer.state = "talking" /\ task[t].todo # <<>>
      /\ task[t].local = <<>> /\ task[t].ext = <<>>
      /\ task[t].became = {} /\ task[t].fate = {}
  BY DEF IInv, TryOK, ShapeOK, Early
<1>2. /\ task'[t].at = at /\ task'[t].to = to /\ task'[t].todo = todo
      /\ task'[t].local = <<>> /\ task'[t].ext = <<>>
      /\ task'[t].became = {} /\ task'[t].fate = {}
      /\ task'[t].stale = task[t].stale
      /\ \A s \in Tries \ {t} : task'[s] = task[s]
  BY <1>o
<1>3. ASSUME NEW s \in Tries \ {t} PROVE TryOK(s)'
  <2>1. task[s].at # "rcpt"
    BY <1>o DEF IInv, TryOK, ShapeOK
  <2>2. Grows
    BY <1>t DEF Grows
  <2>3. QED
    BY <1>t, <1>2, <2>1, <2>2, OtherTry DEF Same
<1>4. TryOK(t)'
  <2>1. ShapeOK(t)'
    BY <1>t, <1>o, <1>2 DEF ShapeOK, Early, Filters, Looping, FirstStep, Tries
  <2>2. OnceOK(t)'
    <3>1. at = "split" => mail.port # "inbound"
      BY DEF FirstStep
    <3>2. QED
      BY <1>2, <3>1 DEF OnceOK, Looping
  <2>3. FateOK(t)'
    BY <1>2 DEF FateOK
  <2>4. StillTrue(t)'
    <3> SUFFICES ASSUME task'[t].at \in {"rcpt", "expand"} \cup Filters,
                        mail.port = "inbound", ~task[t].stale,
                        NEW a \in ToSet(to)
                 PROVE  VerifyRecipient(a)
      BY <1>2 DEF StillTrue, VerifyRecipient
    <3>1. CASE a \in ToSet(task[t].to)
      BY <1>o, <3>1 DEF TryOK, StillTrue
    <3>2. CASE OnRcptTo(a)
      BY <3>2 DEF OnRcptTo
    <3>3. QED
      BY <3>1, <3>2
  <2>5. CoverOK(t)'
    <3>1. ASSUME at = "split", NEW a \in ToSet(to) PROVE Covered(t, a)'
      <4>1. a \in Waiting(t)' /\ a \in Address
        <5>1. a \in ToSet(todo)
          BY <3>1
        <5>2. QED
          BY <1>w, <3>1, <5>1, InSet DEF Waiting
      <4>2. mail.port # "inbound"
        BY <3>1 DEF FirstStep
      <4>3. ~Sure(t, a)'
        BY <4>2 DEF Sure
      <4>4. InHand(t, a, a)'
        BY <1>2, <3>1, <4>1, <4>3 DEF InHand
      <4>5. QED
        BY <4>1, <4>4 DEF Covered, StandsFor
    <3>2. QED
      BY <1>2, <3>1 DEF CoverOK, Placed
  <2>6. QED
    BY <2>1, <2>2, <2>3, <2>4, <2>5 DEF TryOK
<1>5. CountOK'
  <2>1. ASSUME NEW s \in 1..peer.try
        PROVE  /\ \A b \in Boxes : MayStore(s, b)' => MayStore(s, b)
               /\ MayQueue(s)' => MayQueue(s)
               /\ MayHold(s)' => MayHold(s)
    <3>1. s \in Tries
      BY <1>t, <1>o, <2>1 DEF Tries
    <3>2. CASE s = t
      BY <3>2 DEF MayStore, MayQueue, MayHold
    <3>3. CASE s # t
      BY <1>2, <3>1, <3>3 DEF MayStore, MayQueue, MayHold
    <3>4. QED
      BY <3>2, <3>3
  <2>2. QED
    BY <1>t, <2>1, CountStays
<1>6. PeerOK'
  BY <1>o DEF PeerOK
<1>7. QED
  BY <1>2, <1>3, <1>4, <1>5, <1>6

LEMMA RcptStep == ASSUME IInv, NEW t \in Tries, Rcpt(t) PROVE IInv'
<1> DEFINE a    == Head(task[t].todo)
           ok   == OnRcptTo(a)
           to   == IF ok THEN Append(task[t].to, a) ELSE task[t].to
           end  == Len(task[t].todo) = 1
           todo == IF end THEN to ELSE Tail(task[t].todo)
           at   == IF end THEN FirstStep(to) ELSE task[t].at
<1>t. /\ task[t] \in Task /\ task \in [Tries -> Task]
      /\ task[t].to \in Seq(Address) /\ task[t].todo \in Seq(Address)
      /\ task[t].hurt \in BOOLEAN /\ task[t].at = "rcpt"
      /\ task[t].todo # <<>> /\ t = peer.try /\ peer.state = "talking"
  BY Fields DEF Rcpt, TryOK, ShapeOK, IInv, InboundTypeOK
<1>p. peer \in [try : 0..MaxTries, state : {"waiting", "talking", "done"},
                left : Seq(Address), sent : SUBSET Address, bounced : SUBSET Address]
  BY DEF IInv, InboundTypeOK
<1>1. /\ a \in Address /\ Tail(task[t].todo) \in Seq(Address)
      /\ end => Tail(task[t].todo) = <<>>
      /\ ~end => Tail(task[t].todo) # <<>>
  BY <1>t, FirstAndRest
<1>2. to \in Seq(Address) /\ todo \in Seq(Address)
      /\ ToSet(to) \subseteq ToSet(task[t].to) \cup {x \in Address : OnRcptTo(x)}
  BY <1>t, <1>1, OneMore
<1>3. at \in {"rcpt", "gone", "filter", "split"}
  BY <1>t DEF FirstStep
<1>4. /\ task' = [task EXCEPT ![t].to = to, ![t].todo = todo, ![t].at = at]
      /\ peer' = [peer EXCEPT
             !.left = IF ok THEN @ ELSE to \o Tail(task[t].todo),
             !.bounced = IF ok THEN @ ELSE @ \cup {a},
             !.state = IF end /\ to = <<>> THEN "waiting" ELSE @]
      /\ UNCHANGED <<mail, on, copies, jobs, held, budget>>
  BY DEF Rcpt
<1>5. /\ task' \in [Tries -> Task] /\ \A s \in Tries \ {t} : task'[s] = task[s]
      /\ task'[t].to = to /\ task'[t].todo = todo /\ task'[t].at = at
      /\ task'[t].local = task[t].local /\ task'[t].ext = task[t].ext
      /\ task'[t].became = task[t].became /\ task'[t].fate = task[t].fate
      /\ task'[t].stale = task[t].stale
  <2> HIDE DEF a, ok, to, end, todo, at
  <2>1. task'[t] = [task[t] EXCEPT !.to = to, !.todo = todo, !.at = at]
    BY <1>4, <1>t
  <2>2. /\ task'[t].to = to /\ task'[t].todo = todo /\ task'[t].at = at
        /\ task'[t].local = task[t].local /\ task'[t].ext = task[t].ext
        /\ task'[t].became = task[t].became /\ task'[t].fate = task[t].fate
        /\ task'[t].stale = task[t].stale
    BY <2>1, <1>t DEF Task
  <2>3. task'[t] \in Task
    BY <2>1, <1>t, <1>2, <1>3 DEF Task, Steps, Ends
  <2>4. QED
    BY <2>2, <2>3, <1>4, <1>t
<1>6. /\ peer'.try = peer.try /\ peer'.state \in {peer.state, "waiting"}
      /\ at = "rcpt" => peer'.state = peer.state
      /\ peer'.state = "waiting" => peer'.left = <<>>
  <2>1. peer'.try = peer.try
        /\ peer'.state = (IF end /\ to = <<>> THEN "waiting" ELSE peer.state)
        /\ peer'.left = (IF ok THEN peer.left ELSE to \o Tail(task[t].todo))
    <3> HIDE DEF a, ok, to, end, todo, at
    <3>1. QED
      BY <1>4, <1>p
  <2>2. end /\ to = <<>> => ~ok /\ to \o Tail(task[t].todo) = <<>>
    BY <1>1, <1>t, OneMore
  <2>3. at = "rcpt" => ~end
    BY DEF FirstStep
  <2>4. QED
    BY <2>1, <2>2, <2>3, <1>t
<1>7. peer' \in [try : 0..MaxTries, state : {"waiting", "talking", "done"},
                left : Seq(Address), sent : SUBSET Address, bounced : SUBSET Address]
  <2>1. to \o Tail(task[t].todo) \in Seq(Address)
    BY <1>1, <1>2
  <2>2. QED
    BY <1>4, <1>p, <1>1, <2>1
<1> HIDE DEF a, ok, to, end, todo, at
<1>8. /\ at = "rcpt" => todo # <<>>
      /\ at # "rcpt" => todo = to /\ at = FirstStep(to)
  BY <1>1, <1>t DEF todo, at, end, FirstStep
<1>a. /\ ToSet(task'[t].to) \subseteq ToSet(task[t].to) \cup {x \in Address : OnRcptTo(x)}
      /\ task'[t].at \in {"rcpt", "gone", "filter", "split"}
      /\ task'[t].at = "rcpt" => task'[t].todo # <<>> /\ peer'.state = peer.state
      /\ task'[t].at # "rcpt" =>
           task'[t].todo = task'[t].to /\ task'[t].at = FirstStep(task'[t].to)
  BY <1>2, <1>3, <1>5, <1>6, <1>8
<1>9. /\ \A s \in Tries : TryOK(s)'
      /\ CountOK' /\ PeerOK'
      /\ \A s \in Tries : task'[s].at \in {"temporary", "permanent"} =>
           task'[s].at = task[s].at
  BY <1>t, <1>4, <1>5, <1>6, <1>a, AfterRcpt
<1>10. InboundTypeOK'
  BY <1>4, <1>5, <1>7 DEF IInv, InboundTypeOK
<1>11. CleanOK'
  <2> SUFFICES ASSUME OneTry PROVE OneTry'
    BY <1>4 DEF IInv, CleanOK
  <2>1. UNCHANGED copies
    BY <1>4
  <2>2. QED
    BY <1>6, <1>9, <1>t, <2>1 DEF OneTry
<1>12. QED
  BY <1>9, <1>10, <1>11 DEF IInv

LEMMA RcptThrowsStep == ASSUME IInv, NEW t \in Tries, RcptThrows(t) PROVE IInv'
<1> DEFINE a    == Head(task[t].todo)
           to   == task[t].to
           end  == Len(task[t].todo) = 1
           todo == IF end THEN to ELSE Tail(task[t].todo)
           at   == IF end THEN FirstStep(to) ELSE task[t].at
<1>t. /\ task[t] \in Task /\ task \in [Tries -> Task]
      /\ task[t].to \in Seq(Address) /\ task[t].todo \in Seq(Address)
      /\ task[t].at = "rcpt"
      /\ task[t].todo # <<>> /\ t = peer.try /\ peer.state = "talking"
  BY Fields DEF RcptThrows, TryOK, ShapeOK, IInv, InboundTypeOK
<1>p. /\ peer \in [try : 0..MaxTries, state : {"waiting", "talking", "done"},
                   left : Seq(Address), sent : SUBSET Address, bounced : SUBSET Address]
      /\ budget \in [faults : 0..MaxFaults, switches : 0..MaxSwitches]
      /\ MaxFaults \in Nat
  BY InboundAssumption DEF IInv, InboundTypeOK
<1>1. /\ a \in Address /\ Tail(task[t].todo) \in Seq(Address)
      /\ end => Tail(task[t].todo) = <<>>
      /\ ~end => Tail(task[t].todo) # <<>>
  BY <1>t, FirstAndRest
<1>2. todo \in Seq(Address) /\ at \in {"rcpt", "gone", "filter", "split"}
  BY <1>t, <1>1 DEF FirstStep
<1>4. /\ task' = [task EXCEPT ![t].hurt = TRUE, ![t].todo = todo, ![t].at = at]
      /\ peer' = [peer EXCEPT !.left = to \o Tail(task[t].todo), !.bounced = @ \cup {a},
                              !.state = IF end /\ to = <<>> THEN "waiting" ELSE @]
      /\ budget.faults < MaxFaults /\ budget' = [budget EXCEPT !.faults = @ + 1]
      /\ UNCHANGED <<mail, on, copies, jobs, held>>
  BY DEF RcptThrows, Fault
<1>5. /\ task' \in [Tries -> Task] /\ \A s \in Tries \ {t} : task'[s] = task[s]
      /\ task'[t].to = to /\ task'[t].todo = todo /\ task'[t].at = at
      /\ task'[t].local = task[t].local /\ task'[t].ext = task[t].ext
      /\ task'[t].became = task[t].became /\ task'[t].fate = task[t].fate
      /\ task'[t].stale = task[t].stale
  <2> HIDE DEF a, to, end, todo, at
  <2>1. task'[t] = [task[t] EXCEPT !.hurt = TRUE, !.todo = todo, !.at = at]
    BY <1>4, <1>t
  <2>2. /\ task'[t].to = task[t].to /\ task'[t].todo = todo /\ task'[t].at = at
        /\ task'[t].local = task[t].local /\ task'[t].ext = task[t].ext
        /\ task'[t].became = task[t].became /\ task'[t].fate = task[t].fate
        /\ task'[t].stale = task[t].stale
    BY <2>1, <1>t DEF Task
  <2>3. task'[t] \in Task
    BY <2>1, <1>t, <1>2 DEF Task, Steps, Ends
  <2>4. QED
    BY <2>2, <2>3, <1>4, <1>t DEF to
<1>6. /\ peer'.try = peer.try /\ peer'.state \in {peer.state, "waiting"}
      /\ at = "rcpt" => peer'.state = peer.state
  <2>1. peer'.try = peer.try
        /\ peer'.state = (IF end /\ to = <<>> THEN "waiting" ELSE peer.state)
    <3> HIDE DEF a, to, end, todo, at
    <3>1. QED
      BY <1>4, <1>p
  <2>2. at = "rcpt" => ~end
    BY DEF FirstStep
  <2>3. QED
    BY <2>1, <2>2, <1>t
<1>7. peer' \in [try : 0..MaxTries, state : {"waiting", "talking", "done"},
                left : Seq(Address), sent : SUBSET Address, bounced : SUBSET Address]
  <2>1. to \o Tail(task[t].todo) \in Seq(Address)
    BY <1>1, <1>t
  <2>2. QED
    BY <1>4, <1>p, <1>1, <2>1
<1> HIDE DEF a, to, end, todo, at
<1>8. /\ at = "rcpt" => todo # <<>>
      /\ at # "rcpt" => todo = to /\ at = FirstStep(to)
  BY <1>1, <1>t DEF todo, at, end, FirstStep
<1>a. /\ ToSet(task'[t].to) \subseteq ToSet(task[t].to) \cup {x \in Address : OnRcptTo(x)}
      /\ task'[t].at \in {"rcpt", "gone", "filter", "split"}
      /\ task'[t].at = "rcpt" => task'[t].todo # <<>> /\ peer'.state = peer.state
      /\ task'[t].at # "rcpt" =>
           task'[t].todo = task'[t].to /\ task'[t].at = FirstStep(task'[t].to)
  BY <1>2, <1>5, <1>6, <1>8 DEF to
<1>9. (\A s \in Tries : TryOK(s)') /\ CountOK' /\ PeerOK'
  BY <1>t, <1>4, <1>5, <1>6, <1>a, AfterRcpt
<1>b. budget' \in [faults : 0..MaxFaults, switches : 0..MaxSwitches] /\ budget'.faults # 0
  BY <1>4, <1>p
<1>10. InboundTypeOK'
  BY <1>4, <1>5, <1>7, <1>b DEF IInv, InboundTypeOK
<1>11. QED
  BY <1>9, <1>10, <1>b DEF IInv, CleanOK

-----------------------------------------------------------------------------
(* A handler moves.                                                        *)

LEMMA CountOne ==
  ASSUME IInv, NEW t \in Tries, \A s \in Tries \ {t} : task'[s] = task[s],
         UNCHANGED <<peer, copies, jobs, held>>,
         \A b \in Boxes : MayStore(t, b)' => MayStore(t, b),
         MayQueue(t)' => MayQueue(t), MayHold(t)' => MayHold(t)
  PROVE  CountOK'
<1>1. peer.try \in Nat /\ 1..peer.try \subseteq Tries
  BY InboundAssumption DEF IInv, InboundTypeOK, Tries
<1>2. ASSUME NEW s \in 1..peer.try
      PROVE  /\ \A b \in Boxes : MayStore(s, b)' => MayStore(s, b)
             /\ MayQueue(s)' => MayQueue(s)
             /\ MayHold(s)' => MayHold(s)
  <2>1. CASE s = t
    BY <2>1
  <2>2. CASE s # t
    BY <1>1, <2>2 DEF MayStore, MayQueue, MayHold
  <2>3. QED
    BY <2>1, <2>2
<1>3. QED
  BY <1>1, <1>2, CountStays

LEMMA HandlerStep ==
  ASSUME IInv, NEW t \in Tries, task[t].at \in Steps \ {"rcpt"},
         task' \in [Tries -> Task], \A s \in Tries \ {t} : task'[s] = task[s],
         TryOK(t)', CountOK', Grows, peer' = peer,
         budget' \in [faults : 0..MaxFaults, switches : 0..MaxSwitches],
         budget'.faults = 0 => budget.faults = 0 /\ task'[t].at # "temporary",
         budget'.faults = 0 /\ task'[t].at = "permanent" => \A b \in Boxes : copies'[b] = 0
  PROVE  IInv'
<1>t. peer.try \in Nat /\ t <= peer.try /\ t \in Nat /\ t > 0
  BY Fields DEF Tries
<1>1. InboundTypeOK'
  BY DEF IInv, InboundTypeOK, Grows
<1>2. ASSUME NEW s \in Tries \ {t} PROVE TryOK(s)'
  <2>1. task[s].at = "rcpt" => s = peer'.try /\ peer'.state = "talking"
    BY DEF IInv, TryOK, ShapeOK
  <2>2. peer'.try \in Nat /\ peer'.try >= peer.try
    BY <1>t
  <2>3. Same(s) /\ s \in Tries
    BY DEF Same
  <2>4. QED
    BY <2>1, <2>2, <2>3, OtherTry
<1>3. CleanOK'
  <2> SUFFICES ASSUME budget'.faults = 0 PROVE OneTry'
    BY DEF CleanOK
  <2>1. OneTry
    BY DEF IInv, CleanOK
  <2>2. ASSUME NEW s \in Tries \ {t} PROVE task[s].at = "none"
    <3>1. s > peer.try
      BY <1>t, <2>1 DEF OneTry, Tries
    <3>2. QED
      BY <3>1 DEF IInv, TryOK, ShapeOK, Idle
  <2>3. QED
    BY <2>1, <2>2 DEF OneTry
<1>4. QED
  BY <1>1, <1>2, <1>3 DEF IInv, PeerOK

LEMMA Still ==
  ASSUME IInv, UNCHANGED <<mail, on, copies, jobs, held, budget>>
  PROVE  /\ Grows
         /\ budget' \in [faults : 0..MaxFaults, switches : 0..MaxSwitches]
         /\ budget'.faults = 0 <=> budget.faults = 0
BY DEF IInv, InboundTypeOK, Grows

(* Only the step changes.                                                  *)
LEMMA GoesOn ==
  ASSUME IInv, NEW t \in Tries, NEW at \in Steps \cup Ends, Goes(t, at)
  PROVE  /\ task' \in [Tries -> Task] /\ \A s \in Tries \ {t} : task'[s] = task[s]
         /\ task'[t].at = at
         /\ task'[t].to = task[t].to /\ task'[t].todo = task[t].todo
         /\ task'[t].local = task[t].local /\ task'[t].ext = task[t].ext
         /\ task'[t].became = task[t].became /\ task'[t].fate = task[t].fate
         /\ task'[t].stale = task[t].stale /\ task'[t].hurt = task[t].hurt
<1>1. task \in [Tries -> Task] /\ task[t] \in Task
  BY DEF IInv, InboundTypeOK
<1>2. task'[t] = [task[t] EXCEPT !.at = at]
  BY <1>1 DEF Goes
<1>3. task'[t] \in Task
  BY <1>1, <1>2 DEF Task
<1>4. QED
  BY <1>1, <1>2, <1>3 DEF Goes, Task

LEMMA FilterStep == ASSUME IInv, NEW t \in Tries, Filter(t) PROVE IInv'
<1>1. PICK at \in {"permanent", "upload", "expand"} : Goes(t, at)
  BY DEF Filter
<1>a. at \in Steps \cup Ends
  BY <1>1 DEF Steps, Ends
<1>2. /\ task' \in [Tries -> Task] /\ \A s \in Tries \ {t} : task'[s] = task[s]
      /\ task'[t].at = at
      /\ task'[t].to = task[t].to /\ task'[t].todo = task[t].todo
      /\ task'[t].local = task[t].local /\ task'[t].ext = task[t].ext
      /\ task'[t].became = task[t].became /\ task'[t].fate = task[t].fate
      /\ task'[t].stale = task[t].stale /\ task'[t].hurt = task[t].hurt
  BY <1>1, <1>a, GoesOn
<1>3. task[t].at = "filter" /\ UNCHANGED <<mail, on, peer, copies, jobs, held, budget>>
  BY DEF Filter
<1>4. TryOK(t) /\ task[t].to \in Seq(Address)
  BY Fields
<1>5. ShapeOK(t)' /\ OnceOK(t)'
  BY <1>1, <1>2, <1>3, <1>4, NothingIn
     DEF TryOK, ShapeOK, OnceOK, Early, Filters, Looping, Idle
<1>6. FateOK(t)' /\ StillTrue(t)'
  BY <1>1, <1>2, <1>3, <1>4
     DEF TryOK, ShapeOK, FateOK, StillTrue, Early, Filters, VerifyRecipient
<1>7. CoverOK(t)'
  BY <1>1, <1>2, <1>3, <1>4
     DEF TryOK, ShapeOK, CoverOK, Expanding, Early, Filters, Placed
<1>8. CountOK'
  BY <1>1, <1>2, <1>3, CountOne DEF MayStore, MayQueue, MayHold, Filters, Looping
<1>9. budget.faults = 0 => \A b \in Boxes : copies[b] = 0
  <2> SUFFICES ASSUME budget.faults = 0, NEW b \in Boxes PROVE copies[b] = 0
    OBVIOUS
  <2>1. peer.try \in Nat /\ peer.try <= 1 /\ t <= peer.try /\ t \in Nat /\ t > 0
    BY <1>3, Fields DEF IInv, CleanOK, OneTry, Steps, Tries
  <2>2. MayStore(t, b) /\ \A s \in 1..peer.try : s = t
    BY <1>3, <2>1 DEF MayStore, Filters
  <2>3. Stored(b) = {}
    BY <2>2 DEF Stored
  <2>4. Cardinality(Stored(b)) = 0
    BY <2>3, FS_EmptySet
  <2>5. copies[b] \in Nat /\ copies[b] <= Cardinality(Stored(b))
    BY DEF IInv, InboundTypeOK, CountOK
  <2>6. QED
    BY <2>4, <2>5
<1>10. QED
  BY <1>1, <1>2, <1>3, <1>5, <1>6, <1>7, <1>8, <1>9, Still, HandlerStep
     DEF TryOK, Steps

LEMMA RoomsStep == ASSUME IInv, NEW t \in Tries, ProcessRooms(t) PROVE IInv'
<1>1. /\ task' \in [Tries -> Task] /\ \A s \in Tries \ {t} : task'[s] = task[s]
      /\ task'[t].at = "ok"
      /\ task'[t].to = task[t].to /\ task'[t].todo = task[t].todo
      /\ task'[t].local = task[t].local /\ task'[t].ext = task[t].ext
      /\ task'[t].became = task[t].became /\ task'[t].fate = task[t].fate
      /\ task'[t].stale = task[t].stale /\ task'[t].hurt = task[t].hurt
  BY GoesOn DEF ProcessRooms, Ends
<1>2. task[t].at = "rooms" /\ UNCHANGED <<mail, on, peer, copies, jobs, held, budget>>
  BY DEF ProcessRooms
<1>3. TryOK(t)
  BY Fields
<1>4. ShapeOK(t)' /\ OnceOK(t)' /\ FateOK(t)' /\ StillTrue(t)'
  BY <1>1, <1>2, <1>3
     DEF TryOK, ShapeOK, OnceOK, FateOK, StillTrue, Early, Filters, Looping, Idle
<1>5. CoverOK(t)'
  <2>1. ASSUME NEW a \in ToSet(task[t].to) PROVE Covered(t, a)'
    <3>1. PICK r \in Address : StandsFor(t, a, r) /\ (InHand(t, a, r) \/ Ended(t, a, r))
      BY <1>2, <1>3 DEF TryOK, CoverOK, Covered, Placed
    <3>2. Ended(t, a, r)
      BY <1>2, <3>1 DEF InHand, Looping
    <3>3. StandsFor(t, a, r)' /\ Ended(t, a, r)'
      BY <1>1, <1>2, <3>1, <3>2 DEF StandsFor, Ended, Sure
    <3>4. QED
      BY <3>3 DEF Covered
  <2>2. QED
    BY <1>1, <2>1 DEF CoverOK, Placed
<1>6. CountOK'
  BY <1>1, <1>2, CountOne DEF MayStore, MayQueue, MayHold, Filters, Looping
<1>7. QED
  BY <1>1, <1>2, <1>4, <1>5, <1>6, Still, HandlerStep DEF TryOK, Steps

(* What the step adds, the try can no longer add.                          *)
LEMMA CountPaid ==
  ASSUME IInv, NEW t \in Tries, task[t].at \in Steps,
         \A s \in Tries \ {t} : task'[s] = task[s], peer' = peer,
         \A b \in Boxes :
           /\ MayStore(t, b)' => MayStore(t, b)
           /\ copies'[b] # copies[b] =>
                copies'[b] = copies[b] + 1 /\ MayStore(t, b) /\ ~MayStore(t, b)',
         MayQueue(t)' => MayQueue(t),
         \A a \in Address : jobs'[a] # jobs[a] =>
           jobs'[a] = jobs[a] + 1 /\ MayQueue(t) /\ ~MayQueue(t)',
         MayHold(t)' => MayHold(t),
         held' # held => held' = held + 1 /\ MayHold(t) /\ ~MayHold(t)'
  PROVE  CountOK'
<1>t. /\ peer.try \in Nat /\ held \in Nat /\ CountOK
      /\ copies \in [Boxes -> Nat] /\ jobs \in [Address -> Nat]
      /\ t \in 1..peer.try /\ 1..peer.try \subseteq Tries
  BY Fields, InboundAssumption DEF IInv, InboundTypeOK, Tries
<1>f. /\ IsFiniteSet(Queued') /\ IsFiniteSet(Held')
      /\ \A b : IsFiniteSet(Stored(b)')
  <2>0. peer.try \in Nat
    BY <1>t
  <2>1. IsFiniteSet(1..peer.try)
    BY <2>0, FS_Interval
  <2>2. Queued' \in SUBSET (1..peer.try) /\ Held' \in SUBSET (1..peer.try)
        /\ \A b : Stored(b)' \in SUBSET (1..peer.try)
    BY DEF Queued, Held, Stored
  <2>3. QED
    BY <2>1, <2>2, FS_Subset
<1>1. ASSUME NEW b \in Boxes PROVE copies'[b] <= Cardinality(Stored(b)')
  <2>1. \A s \in 1..peer.try : MayStore(s, b)' => MayStore(s, b)
    BY <1>t DEF MayStore
  <2>2. Stored(b) \subseteq Stored(b)'
    BY <2>1 DEF Stored
  <2>3. copies'[b] # copies[b] => t \in Stored(b)' \ Stored(b)
    BY <1>t DEF Stored
  <2>4. copies[b] \in Nat /\ copies[b] <= Cardinality(Stored(b))
    BY <1>t DEF CountOK
  <2>5. /\ copies[b] <= Cardinality(Stored(b)')
        /\ \A x \in Stored(b)' \ Stored(b) : copies[b] + 1 <= Cardinality(Stored(b)')
    BY <1>f, <2>2, <2>4, Pays
  <2>6. QED
    BY <2>3, <2>5
<1>2. ASSUME NEW a \in Address PROVE jobs'[a] <= Cardinality(Queued')
  <2>1. \A s \in 1..peer.try : MayQueue(s)' => MayQueue(s)
    BY <1>t DEF MayQueue
  <2>2. Queued \subseteq Queued'
    BY <2>1 DEF Queued
  <2>3. jobs'[a] # jobs[a] => t \in Queued' \ Queued
    BY <1>t DEF Queued
  <2>4. jobs[a] \in Nat /\ jobs[a] <= Cardinality(Queued)
    BY <1>t DEF CountOK
  <2>5. /\ jobs[a] <= Cardinality(Queued')
        /\ \A x \in Queued' \ Queued : jobs[a] + 1 <= Cardinality(Queued')
    BY <1>f, <2>2, <2>4, Pays
  <2>6. QED
    BY <2>3, <2>5
<1>3. held' <= Cardinality(Held')
  <2>1. \A s \in 1..peer.try : MayHold(s)' => MayHold(s)
    BY <1>t DEF MayHold
  <2>2. Held \subseteq Held'
    BY <2>1 DEF Held
  <2>3. held' # held => t \in Held' \ Held
    BY <1>t DEF Held
  <2>4. held <= Cardinality(Held)
    BY <1>t DEF CountOK
  <2>5. /\ held <= Cardinality(Held')
        /\ \A x \in Held' \ Held : held + 1 <= Cardinality(Held')
    BY <1>t, <1>f, <2>2, <2>4, Pays
  <2>6. QED
    BY <2>3, <2>5
<1>4. QED
  BY <1>1, <1>2, <1>3 DEF CountOK

LEMMA QuarantineStep ==
  ASSUME IInv, NEW t \in Tries, QuarantineMessage(t) PROVE IInv'
<1>1. PICK at \in {"row", "publish", "ok"} :
        /\ Goes(t, at)
        /\ \/ task[t].at = "upload" /\ at = "row" /\ held' = held
           \/ task[t].at = "row" /\ at = "publish" /\ held' = held + 1
           \/ task[t].at = "publish" /\ at = "ok" /\ held' = held
  BY DEF QuarantineMessage
<1>a. at \in Steps \cup Ends
  BY <1>1 DEF Steps, Ends
<1>2. /\ task' \in [Tries -> Task] /\ \A s \in Tries \ {t} : task'[s] = task[s]
      /\ task'[t].at = at
      /\ task'[t].to = task[t].to /\ task'[t].todo = task[t].todo
      /\ task'[t].local = task[t].local /\ task'[t].ext = task[t].ext
      /\ task'[t].became = task[t].became /\ task'[t].fate = task[t].fate
      /\ task'[t].stale = task[t].stale /\ task'[t].hurt = task[t].hurt
  BY <1>1, <1>a, GoesOn
<1>3. UNCHANGED <<mail, on, peer, copies, jobs, budget>>
  BY DEF QuarantineMessage
<1>4. /\ TryOK(t) /\ held \in Nat /\ copies \in [Boxes -> Nat] /\ jobs \in [Address -> Nat]
      /\ budget \in [faults : 0..MaxFaults, switches : 0..MaxSwitches]
  BY Fields DEF IInv, InboundTypeOK
<1>5. ShapeOK(t)' /\ OnceOK(t)'
  BY <1>1, <1>2, <1>3, <1>4
     DEF TryOK, ShapeOK, OnceOK, Early, Filters, Looping, Idle
<1>6. FateOK(t)'
  BY <1>1, <1>2, <1>3, <1>4 DEF TryOK, ShapeOK, FateOK, Early
<1>7. StillTrue(t)'
  BY <1>1, <1>2, <1>3, <1>4 DEF TryOK, StillTrue, Filters, VerifyRecipient
<1>8. CoverOK(t)'
  BY <1>1, <1>2, <1>3, <1>4 DEF TryOK, ShapeOK, FateOK, CoverOK, Early, Placed
<1>9. CountOK'
  <2>1. \A b \in Boxes : MayStore(t, b)' => MayStore(t, b)
    BY <1>1, <1>2 DEF MayStore, Filters
  <2>2. MayQueue(t)' => MayQueue(t)
    BY <1>1, <1>2 DEF MayQueue, Filters
  <2>3. /\ MayHold(t)' => MayHold(t)
        /\ held' # held => held' = held + 1 /\ MayHold(t) /\ ~MayHold(t)'
    BY <1>1, <1>2 DEF MayHold
  <2>4. task[t].at \in Steps
    BY <1>1 DEF Steps
  <2>5. QED
    BY <1>2, <1>3, <2>1, <2>2, <2>3, <2>4, CountPaid
<1>10. Grows
  BY <1>1, <1>3, <1>4 DEF Grows
<1>11. task[t].at \in Steps \ {"rcpt"} /\ at \notin {"temporary", "permanent"}
  BY <1>1 DEF Steps
<1>12. QED
  BY <1>2, <1>3, <1>4, <1>5, <1>6, <1>7, <1>8, <1>9, <1>10, <1>11, HandlerStep DEF TryOK

LEMMA InsertStep == ASSUME IInv, NEW t \in Tries, Insert(t) PROVE IInv'
<1> DEFINE b0 == Head(task[t].todo)
<1>1. /\ task' \in [Tries -> Task] /\ \A s \in Tries \ {t} : task'[s] = task[s]
      /\ task'[t].at = "count"
      /\ task'[t].to = task[t].to /\ task'[t].todo = task[t].todo
      /\ task'[t].local = task[t].local /\ task'[t].ext = task[t].ext
      /\ task'[t].became = task[t].became /\ task'[t].fate = task[t].fate
      /\ task'[t].stale = task[t].stale /\ task'[t].hurt = task[t].hurt
  BY GoesOn DEF Insert, Steps
<1>2. task[t].at = "insert" /\ UNCHANGED <<mail, on, peer, jobs, held, budget>>
  BY DEF Insert
<1>3. /\ TryOK(t) /\ held \in Nat /\ copies \in [Boxes -> Nat] /\ jobs \in [Address -> Nat]
      /\ budget \in [faults : 0..MaxFaults, switches : 0..MaxSwitches]
      /\ task[t].todo \in Seq(Address)
  BY Fields DEF IInv, InboundTypeOK
<1>4. b0 \in Boxes /\ task[t].todo # <<>> /\ Distinct(task[t].todo)
  BY <1>2, <1>3 DEF TryOK, ShapeOK, OnceOK, Looping
<1>5. /\ copies' \in [Boxes -> Nat] /\ copies'[b0] = copies[b0] + 1
      /\ \A b \in Boxes \ {b0} : copies'[b] = copies[b]
  BY <1>3, <1>4 DEF Insert
<1>6. ToSet(task[t].todo) = {b0} \cup ToSet(Tail(task[t].todo))
      /\ b0 \notin ToSet(Tail(task[t].todo))
  BY <1>3, <1>4, FirstAndRest, DistinctRest
<1> HIDE DEF b0
<1>g. Grows /\ \A b \in Boxes : copies[b] > 0 => copies'[b] > 0
  <2>1. ASSUME NEW b \in Boxes PROVE copies'[b] >= copies[b] /\ copies[b] \in Nat
    <3>1. copies[b] \in Nat /\ (copies'[b] = copies[b] \/ copies'[b] = copies[b] + 1)
      BY <1>3, <1>4, <1>5
    <3>2. QED
      BY <3>1
  <2>2. QED
    BY <1>2, <1>3, <1>5, <2>1 DEF Grows
<1>7. ShapeOK(t)' /\ OnceOK(t)' /\ StillTrue(t)'
  BY <1>1, <1>2, <1>3, <1>4
     DEF TryOK, ShapeOK, OnceOK, StillTrue, Early, Filters, Looping, Idle, b0
<1>8. FateOK(t)'
  <2>1. copies'[b0] > 0
    BY <1>3, <1>4, <1>5
  <2>2. QED
    BY <1>1, <1>2, <1>3, <1>g, <2>1 DEF TryOK, FateOK, b0
<1>9. CoverOK(t)'
  <2>1. ASSUME NEW a \in ToSet(task[t].to) PROVE Covered(t, a)'
    <3>1. PICK r \in Address : StandsFor(t, a, r) /\ (InHand(t, a, r) \/ Ended(t, a, r))
      BY <1>2, <1>3 DEF TryOK, CoverOK, Covered, Placed
    <3>2. StandsFor(t, a, r)' /\ (InHand(t, a, r)' \/ Ended(t, a, r)')
      BY <1>1, <1>2, <3>1 DEF StandsFor, InHand, Ended, Sure, Good, Waiting, Looping
    <3>3. QED
      BY <3>2 DEF Covered
  <2>2. QED
    BY <1>1, <2>1 DEF CoverOK
<1>10. CountOK'
  <2>1. ASSUME NEW b \in Boxes
        PROVE  /\ MayStore(t, b)' => MayStore(t, b)
               /\ copies'[b] # copies[b] =>
                    copies'[b] = copies[b] + 1 /\ MayStore(t, b) /\ ~MayStore(t, b)'
    BY <1>1, <1>2, <1>5, <1>6 DEF MayStore, Filters
  <2>2. MayQueue(t) /\ ~MayHold(t)'
    BY <1>1, <1>2 DEF MayQueue, MayHold, Looping
  <2>3. task[t].at \in Steps
    BY <1>2 DEF Steps
  <2>4. QED
    BY <1>1, <1>2, <2>1, <2>2, <2>3, CountPaid
<1>11. QED
  BY <1>1, <1>2, <1>3, <1>7, <1>8, <1>9, <1>10, <1>g, HandlerStep DEF TryOK, Steps

(* The whole record of a try is replaced.                                  *)
LEMMA Becomes ==
  ASSUME IInv, NEW t \in Tries, NEW x \in Task, task' = [task EXCEPT ![t] = x]
  PROVE  /\ task' \in [Tries -> Task] /\ \A s \in Tries \ {t} : task'[s] = task[s]
         /\ task'[t] = x
BY DEF IInv, InboundTypeOK

(* Continue, field by field.                                               *)
LEMMA ContinueFields ==
  ASSUME NEW tk \in Task, NEW left \in Seq(Address)
  PROVE  /\ Continue(tk, left) \in Task
         /\ Continue(tk, left).at =
              IF left # <<>> THEN "find" ELSE IF tk.ext # <<>> THEN "queue" ELSE AfterStore
         /\ Continue(tk, left).todo = left
         /\ Continue(tk, left).to = tk.to
         /\ Continue(tk, left).local = tk.local /\ Continue(tk, left).ext = tk.ext
         /\ Continue(tk, left).became = tk.became /\ Continue(tk, left).fate = tk.fate
         /\ Continue(tk, left).stale = tk.stale /\ Continue(tk, left).hurt = tk.hurt
<1>1. AfterStore \in {"rooms", "ok"}
  BY DEF AfterStore
<1>2. CASE left # <<>>
  <2>1. Continue(tk, left) = [tk EXCEPT !.at = "find", !.todo = left]
    BY <1>2 DEF Continue
  <2>2. QED
    BY <1>2, <2>1 DEF Task, Steps
<1>3. CASE left = <<>>
  <2> DEFINE at == IF tk.ext # <<>> THEN "queue" ELSE AfterStore
  <2>1. Continue(tk, left) = [tk EXCEPT !.at = at, !.todo = <<>>]
    BY <1>3 DEF Continue
  <2>2. at \in Steps \cup Ends
    BY <1>1 DEF Steps, Ends
  <2> HIDE DEF at
  <2>3. /\ Continue(tk, left) \in Task
        /\ Continue(tk, left).at = at /\ Continue(tk, left).todo = <<>>
        /\ Continue(tk, left).to = tk.to
        /\ Continue(tk, left).local = tk.local /\ Continue(tk, left).ext = tk.ext
        /\ Continue(tk, left).became = tk.became /\ Continue(tk, left).fate = tk.fate
        /\ Continue(tk, left).stale = tk.stale /\ Continue(tk, left).hurt = tk.hurt
    BY <2>1, <2>2, NothingIn DEF Task
  <2>4. QED
    BY <1>3, <2>3 DEF at
<1>4. QED
  BY <1>2, <1>3

(* One address of the mailbox loop is settled.                             *)
LEMMA SettleStep ==
  ASSUME IInv, NEW t \in Tries, task[t].at \in {"find", "count"}, NEW what \in What,
         what = "stored" => task[t].at = "count",
         what = "unknown" => ~Good(Head(task[t].todo)),
         what \notin {"queued", "lost"},
         task' = [task EXCEPT ![t] = Settle(task[t], what)],
         UNCHANGED <<mail, on, peer, copies, jobs, held, budget>>
  PROVE  IInv'
<1> DEFINE b0   == Head(task[t].todo)
           left == Tail(task[t].todo)
           fate == task[t].fate \cup {<<b0, what>>}
           done == [task[t] EXCEPT !.fate = fate]
<1>1. /\ TryOK(t) /\ task[t] \in Task /\ task[t].todo \in Seq(Address)
      /\ task[t].ext \in Seq(Address) /\ task[t].fate \in SUBSET (Address \X What)
  BY Fields
<1>2. task[t].todo # <<>> /\ Distinct(task[t].todo)
  BY <1>1 DEF TryOK, ShapeOK, OnceOK, Looping
<1>3. /\ b0 \in Address /\ left \in Seq(Address) /\ Distinct(left)
      /\ ToSet(task[t].todo) = {b0} \cup ToSet(left)
  BY <1>1, <1>2, FirstAndRest, DistinctRest
<1>4. done \in Task /\ done.ext = task[t].ext /\ done.to = task[t].to
      /\ done.local = task[t].local /\ done.became = task[t].became
      /\ done.stale = task[t].stale /\ done.hurt = task[t].hurt /\ done.fate = fate
  <2>1. fate \in SUBSET (Address \X What)
    BY <1>1, <1>3
  <2> HIDE DEF b0, left, fate
  <2>2. QED
    BY <1>1, <2>1 DEF Task
<1>5. Settle(task[t], what) = Continue(done, left)
  BY DEF Settle
<1> HIDE DEF b0, left, fate, done
<1>6. /\ task' \in [Tries -> Task] /\ \A s \in Tries \ {t} : task'[s] = task[s]
      /\ task'[t].at =
           IF left # <<>> THEN "find" ELSE IF task[t].ext # <<>> THEN "queue" ELSE AfterStore
      /\ task'[t].todo = left /\ task'[t].to = task[t].to
      /\ task'[t].local = task[t].local /\ task'[t].ext = task[t].ext
      /\ task'[t].became = task[t].became /\ task'[t].fate = fate
      /\ task'[t].stale = task[t].stale /\ task'[t].hurt = task[t].hurt
  <2>1. Continue(done, left) \in Task
    BY <1>3, <1>4, ContinueFields
  <2>2. /\ task' \in [Tries -> Task] /\ \A s \in Tries \ {t} : task'[s] = task[s]
        /\ task'[t] = Continue(done, left)
    BY <1>5, <2>1, Becomes
  <2>3. QED
    BY <1>3, <1>4, <2>2, ContinueFields
<1>7. /\ task'[t].at \in {"find", "queue", "rooms", "ok"}
      /\ task'[t].at = "find" <=> left # <<>>
      /\ task[t].ext # <<>> => task'[t].at \in {"find", "queue"}
  BY <1>6 DEF AfterStore
<1>8. ShapeOK(t)' /\ OnceOK(t)' /\ StillTrue(t)'
  BY <1>1, <1>3, <1>6, <1>7
     DEF TryOK, ShapeOK, OnceOK, StillTrue, Early, Filters, Looping, Idle
<1>9. FateOK(t)'
  <2>1. what = "stored" => b0 \in Boxes /\ copies[b0] > 0
    BY <1>1 DEF TryOK, ShapeOK, FateOK, b0
  <2>2. \A x \in Address, w \in {"stored", "queued", "lost"} :
          <<x, w>> \in fate => \/ <<x, w>> \in task[t].fate
                               \/ x = b0 /\ w = "stored" /\ what = "stored"
    BY DEF fate
  <2>3. QED
    BY <1>1, <1>6, <1>7, <2>1, <2>2 DEF TryOK, FateOK
<1>10. CoverOK(t)'
  <2>1. ASSUME NEW a \in ToSet(task[t].to) PROVE Covered(t, a)'
    <3>1. PICK r \in Address : StandsFor(t, a, r) /\ (InHand(t, a, r) \/ Ended(t, a, r))
      BY <1>1 DEF TryOK, CoverOK, Covered, Placed
    <3>2. StandsFor(t, a, r)' /\ (Sure(t, a)' <=> Sure(t, a)) /\ (Good(r)' <=> Good(r))
      BY <1>6, <3>1 DEF StandsFor, Sure, Good
    <3>3. CASE Ended(t, a, r)
      <4>1. Ended(t, a, r)'
        BY <1>6, <3>2, <3>3 DEF Ended, fate
      <4>2. QED
        BY <3>2, <4>1 DEF Covered
    <3>4. CASE InHand(t, a, r) /\ r = b0
      <4>1. Ended(t, a, r)'
        BY <1>6, <3>2, <3>4 DEF Ended, fate, InHand, b0
      <4>2. QED
        BY <3>2, <4>1 DEF Covered
    <3>5. CASE InHand(t, a, r) /\ r # b0
      <4>1. r \in ToSet(task[t].ext) \cup ToSet(left)
        BY <1>3, <3>5 DEF InHand, Waiting, Looping
      <4>2. r \in ToSet(left) => left # <<>>
        BY NothingIn
      <4>3. r \in ToSet(task[t].ext) => task[t].ext # <<>>
        BY NothingIn
      <4>4. InHand(t, a, r)'
        BY <1>6, <1>7, <3>2, <3>5, <4>1, <4>2, <4>3 DEF InHand, Waiting, Looping
      <4>5. QED
        BY <3>2, <4>4 DEF Covered
    <3>6. QED
      BY <3>1, <3>3, <3>4, <3>5
  <2>2. QED
    BY <1>6, <1>7, <2>1 DEF CoverOK
<1>11. CountOK'
  <2>1. \A b \in Boxes : MayStore(t, b)' => MayStore(t, b)
    BY <1>3, <1>6, <1>7 DEF MayStore, Filters, left
  <2>2. MayQueue(t) /\ ~MayHold(t)'
    BY <1>6, <1>7 DEF MayQueue, MayHold, Looping
  <2>3. QED
    BY <1>6, <2>1, <2>2, CountOne
<1>12. QED
  BY <1>1, <1>6, <1>7, <1>8, <1>9, <1>10, <1>11, Still, HandlerStep DEF TryOK, Steps

LEMMA FindStep == ASSUME IInv, NEW t \in Tries, Find(t) PROVE IInv'
<1>2. task[t].at = "find" /\ UNCHANGED <<mail, on, peer, copies, jobs, held, budget>>
  BY DEF Find
<1>3. CASE Head(task[t].todo) \in Boxes \cap on /\ Goes(t, "insert")
  <2>1. /\ task' \in [Tries -> Task] /\ \A s \in Tries \ {t} : task'[s] = task[s]
        /\ task'[t].at = "insert"
        /\ task'[t].to = task[t].to /\ task'[t].todo = task[t].todo
        /\ task'[t].local = task[t].local /\ task'[t].ext = task[t].ext
        /\ task'[t].became = task[t].became /\ task'[t].fate = task[t].fate
        /\ task'[t].stale = task[t].stale /\ task'[t].hurt = task[t].hurt
    BY <1>3, GoesOn DEF Steps
  <2>2. TryOK(t)
    BY Fields
  <2>3. ShapeOK(t)' /\ OnceOK(t)' /\ FateOK(t)' /\ StillTrue(t)'
    BY <1>2, <1>3, <2>1, <2>2
       DEF TryOK, ShapeOK, OnceOK, FateOK, StillTrue, Early, Filters, Looping, Idle
  <2>4. CoverOK(t)'
    <3>1. ASSUME NEW a \in ToSet(task[t].to) PROVE Covered(t, a)'
      <4>1. PICK r \in Address : StandsFor(t, a, r) /\ (InHand(t, a, r) \/ Ended(t, a, r))
        BY <1>2, <2>2 DEF TryOK, CoverOK, Covered, Placed
      <4>2. StandsFor(t, a, r)' /\ (InHand(t, a, r)' \/ Ended(t, a, r)')
        BY <1>2, <2>1, <4>1 DEF StandsFor, InHand, Ended, Sure, Good, Waiting, Looping
      <4>3. QED
        BY <4>2 DEF Covered
    <3>2. QED
      BY <2>1, <3>1 DEF CoverOK
  <2>5. CountOK'
    BY <1>2, <2>1, CountOne DEF MayStore, MayQueue, MayHold, Filters, Looping
  <2>6. QED
    BY <1>2, <2>1, <2>3, <2>4, <2>5, Still, HandlerStep DEF TryOK, Steps
<1>4. ASSUME NEW what \in {"refused", "held", "discarded", "unknown"},
             what = "unknown" => Head(task[t].todo) \notin Boxes \cap on,
             task' = [task EXCEPT ![t] = Settle(task[t], what)]
      PROVE  IInv'
  <2>1. what \in What /\ what \notin {"stored", "queued", "lost"}
    BY DEF What
  <2>2. what = "unknown" => ~Good(Head(task[t].todo))
    BY <1>4 DEF Good
  <2>3. QED
    BY <1>2, <1>4, <2>1, <2>2, SettleStep
<1>5. QED
  BY <1>3, <1>4 DEF Find

LEMMA CountStep == ASSUME IInv, NEW t \in Tries, Count(t) PROVE IInv'
<1>1. "stored" \in What
  BY DEF What
<1>2. QED
  BY <1>1, SettleStep DEF Count

(* The addresses of other domains are settled together.                    *)
LEMMA ExternalStep ==
  ASSUME IInv, NEW t \in Tries, task[t].at = "queue", NEW what \in {"queued", "lost"},
         NEW hurt \in BOOLEAN, what = "lost" => hurt, task[t].hurt => hurt,
         task' = [task EXCEPT ![t] = [AllExternal(task[t], what) EXCEPT !.hurt = hurt]],
         UNCHANGED <<mail, on, peer, copies, held>>,
         jobs' = [a \in Address |->
                    IF what = "queued" /\ a \in ToSet(task[t].ext)
                    THEN jobs[a] + 1 ELSE jobs[a]],
         budget' \in [faults : 0..MaxFaults, switches : 0..MaxSwitches],
         budget'.faults = 0 => budget.faults = 0
  PROVE  IInv'
<1> DEFINE fate == task[t].fate \cup {<<a, what>> : a \in ToSet(task[t].ext)}
           at   == AfterStore
           done == [[task[t] EXCEPT !.fate = fate, !.at = at] EXCEPT !.hurt = hurt]
<1>1. /\ TryOK(t) /\ task[t] \in Task /\ ToSet(task[t].ext) \subseteq Address
      /\ task[t].fate \in SUBSET (Address \X What)
      /\ copies \in [Boxes -> Nat] /\ jobs \in [Address -> Nat] /\ held \in Nat
  BY Fields, InSet DEF IInv, InboundTypeOK
<1>2. fate \in SUBSET (Address \X What) /\ at \in {"rooms", "ok"}
      /\ at \in Steps \cup Ends
  BY <1>1 DEF What, AfterStore, Steps, Ends
<1>3. done = [AllExternal(task[t], what) EXCEPT !.hurt = hurt]
  BY DEF AllExternal
<1> HIDE DEF fate, at
<1>4. /\ done \in Task
      /\ done.at = at /\ done.to = task[t].to /\ done.todo = task[t].todo
      /\ done.local = task[t].local /\ done.ext = task[t].ext
      /\ done.became = task[t].became /\ done.fate = fate
      /\ done.stale = task[t].stale /\ done.hurt = hurt
  BY <1>1, <1>2 DEF Task
<1> HIDE DEF done
<1>6. /\ task' \in [Tries -> Task] /\ \A s \in Tries \ {t} : task'[s] = task[s]
      /\ task'[t].at = at
      /\ task'[t].todo = task[t].todo /\ task'[t].to = task[t].to
      /\ task'[t].local = task[t].local /\ task'[t].ext = task[t].ext
      /\ task'[t].became = task[t].became /\ task'[t].fate = fate
      /\ task'[t].stale = task[t].stale /\ task'[t].hurt = hurt
  <2>1. task' = [task EXCEPT ![t] = done]
    BY <1>3
  <2>2. /\ task' \in [Tries -> Task] /\ \A s \in Tries \ {t} : task'[s] = task[s]
        /\ task'[t] = done
    BY <1>4, <2>1, Becomes
  <2>3. QED
    BY <1>4, <2>2
<1>j. /\ \A a \in Address : jobs'[a] \in Nat /\ jobs'[a] >= jobs[a]
      /\ \A a \in Address : jobs'[a] # jobs[a] => jobs'[a] = jobs[a] + 1
      /\ what = "queued" => \A a \in ToSet(task[t].ext) : jobs'[a] > 0
      /\ jobs' \in [Address -> Nat]
  <2>1. ASSUME NEW a \in Address
        PROVE  /\ jobs'[a] \in Nat /\ jobs'[a] >= jobs[a]
               /\ jobs'[a] # jobs[a] => jobs'[a] = jobs[a] + 1
               /\ what = "queued" /\ a \in ToSet(task[t].ext) => jobs'[a] > 0
    BY <1>1
  <2>2. QED
    BY <1>1, <2>1
<1>7. Grows
  BY <1>1, <1>j DEF Grows
<1>8. ShapeOK(t)' /\ OnceOK(t)' /\ StillTrue(t)'
  BY <1>1, <1>2, <1>6
     DEF TryOK, ShapeOK, OnceOK, StillTrue, Early, Filters, Looping, Idle
<1>9. FateOK(t)'
  <2>1. ASSUME NEW x \in Address, <<x, "queued">> \in fate PROVE jobs'[x] > 0
    <3>1. CASE <<x, "queued">> \in task[t].fate
      <4>1. jobs[x] > 0 /\ jobs[x] \in Nat /\ jobs'[x] \in Nat /\ jobs'[x] >= jobs[x]
        BY <1>1, <1>j, <3>1 DEF TryOK, FateOK
      <4>2. QED
        BY <4>1
    <3>2. CASE <<x, "queued">> \notin task[t].fate
      <4>1. x \in ToSet(task[t].ext) /\ what = "queued"
        BY <2>1, <3>2 DEF fate
      <4>2. QED
        BY <1>j, <4>1
    <3>3. QED
      BY <3>1, <3>2
  <2>2. ASSUME NEW x \in Address, <<x, "lost">> \in fate PROVE hurt
    BY <1>1, <2>2 DEF TryOK, FateOK, fate
  <2>3. ASSUME NEW x \in Address, <<x, "stored">> \in fate PROVE x \in Boxes /\ copies[x] > 0
    BY <1>1, <2>3 DEF TryOK, FateOK, fate
  <2>4. QED
    BY <1>2, <1>6, <2>1, <2>2, <2>3 DEF FateOK
<1>10. CoverOK(t)'
  <2>1. ASSUME NEW a \in ToSet(task[t].to) PROVE Covered(t, a)'
    <3>1. PICK r \in Address : StandsFor(t, a, r) /\ (InHand(t, a, r) \/ Ended(t, a, r))
      BY <1>1 DEF TryOK, CoverOK, Covered, Placed
    <3>2. StandsFor(t, a, r)' /\ (Sure(t, a)' <=> Sure(t, a))
      BY <1>6, <3>1 DEF StandsFor, Sure
    <3>3. CASE Ended(t, a, r)
      <4>1. Ended(t, a, r)'
        BY <1>6, <3>2, <3>3 DEF Ended, fate
      <4>2. QED
        BY <3>2, <4>1 DEF Covered
    <3>4. CASE InHand(t, a, r)
      <4>1. r \in ToSet(task[t].ext)
        BY <3>4 DEF InHand, Waiting, Looping
      <4>2. <<r, what>> \in task'[t].fate /\ what \in What /\ what # "unknown"
        BY <1>6, <4>1 DEF fate, What
      <4>3. QED
        BY <3>2, <4>2 DEF Covered, Ended
    <3>5. QED
      BY <3>1, <3>3, <3>4
  <2>2. QED
    BY <1>2, <1>6, <2>1 DEF CoverOK
<1>11. CountOK'
  <2>1. \A b \in Boxes : ~MayStore(t, b)'
    BY <1>2, <1>6 DEF MayStore, Filters
  <2>2. MayQueue(t) /\ ~MayQueue(t)' /\ ~MayHold(t)'
    BY <1>2, <1>6 DEF MayQueue, MayHold, Filters, Looping
  <2>3. task[t].at \in Steps
    BY DEF Steps
  <2>4. QED
    BY <1>6, <1>j, <2>1, <2>2, <2>3, CountPaid
<1>12. QED
  BY <1>1, <1>2, <1>6, <1>7, <1>8, <1>9, <1>10, <1>11, HandlerStep DEF TryOK, Steps

LEMMA EnqueueStep == ASSUME IInv, NEW t \in Tries, EnqueueOutbound(t) PROVE IInv'
<1>1. /\ task[t].at = "queue" /\ UNCHANGED <<mail, on, peer, copies, held, budget>>
      /\ task' = [task EXCEPT ![t] = AllExternal(task[t], "queued")]
      /\ jobs' = [a \in Address |-> IF a \in ToSet(task[t].ext) THEN jobs[a] + 1 ELSE jobs[a]]
  BY DEF EnqueueOutbound
<1>2. task[t] \in Task /\ task[t].hurt \in BOOLEAN
      /\ budget \in [faults : 0..MaxFaults, switches : 0..MaxSwitches]
  BY Fields DEF IInv, InboundTypeOK
<1>3. [AllExternal(task[t], "queued") EXCEPT !.hurt = task[t].hurt]
        = AllExternal(task[t], "queued")
  BY <1>2 DEF AllExternal, Task
<1>4. QED
  BY <1>1, <1>2, <1>3, ExternalStep

LEMMA ThrowsStep == ASSUME IInv, NEW t \in Tries, Throws(t) PROVE IInv'
<1>1. /\ task[t].at \in Steps \ {"rcpt"} /\ UNCHANGED <<mail, on, peer, copies, jobs, held>>
      /\ task' = [task EXCEPT ![t] = [AfterThrow(task[t]) EXCEPT !.hurt = TRUE]]
      /\ budget.faults < MaxFaults /\ budget' = [budget EXCEPT !.faults = @ + 1]
  BY DEF Throws, Fault
<1>2. /\ budget \in [faults : 0..MaxFaults, switches : 0..MaxSwitches] /\ MaxFaults \in Nat
      /\ task[t] \in Task /\ jobs \in [Address -> Nat] /\ copies \in [Boxes -> Nat]
      /\ held \in Nat /\ TryOK(t)
  BY Fields, InboundAssumption DEF IInv, InboundTypeOK
<1>3. budget' \in [faults : 0..MaxFaults, switches : 0..MaxSwitches] /\ budget'.faults # 0
  BY <1>1, <1>2
<1>4. CASE task[t].at = "queue" /\ mail.port = "inbound"
  <2>1. jobs' = [a \in Address |->
                   IF "lost" = "queued" /\ a \in ToSet(task[t].ext)
                   THEN jobs[a] + 1 ELSE jobs[a]]
    BY <1>1, <1>2
  <2>2. AfterThrow(task[t]) = AllExternal(task[t], "lost")
    BY <1>4 DEF AfterThrow
  <2>3. QED
    BY <1>1, <1>3, <1>4, <2>1, <2>2, ExternalStep
<1>5. CASE ~(task[t].at = "queue" /\ mail.port = "inbound")
  <2> DEFINE done == [[task[t] EXCEPT !.at = "temporary"] EXCEPT !.hurt = TRUE]
  <2>1. done \in Task /\ done.at = "temporary" /\ done.fate = task[t].fate
        /\ done.hurt = TRUE
    BY <1>2 DEF Task, Ends
  <2>2. task' = [task EXCEPT ![t] = done]
    BY <1>1, <1>5 DEF AfterThrow
  <2> HIDE DEF done
  <2>3. /\ task' \in [Tries -> Task] /\ \A s \in Tries \ {t} : task'[s] = task[s]
        /\ task'[t].at = "temporary" /\ task'[t].fate = task[t].fate
        /\ task'[t].hurt = TRUE
    BY <2>1, <2>2, Becomes
  <2>4. t \in Nat /\ peer.try \in Nat /\ t <= peer.try
    BY <1>1, Fields
  <2>5. ShapeOK(t)' /\ OnceOK(t)' /\ StillTrue(t)' /\ CoverOK(t)'
    BY <1>1, <2>3, <2>4
       DEF ShapeOK, OnceOK, StillTrue, CoverOK, Early, Filters, Looping, Placed
  <2>6. FateOK(t)'
    BY <1>1, <1>2, <2>3 DEF TryOK, FateOK
  <2>7. CountOK'
    BY <1>1, <2>3, CountOne DEF MayStore, MayQueue, MayHold, Filters, Looping
  <2>8. Grows
    BY <1>1, <1>2 DEF Grows
  <2>9. QED
    BY <1>1, <1>3, <2>3, <2>5, <2>6, <2>7, <2>8, HandlerStep DEF TryOK
<1>6. QED
  BY <1>4, <1>5

-----------------------------------------------------------------------------
(* Domains and aliases.                                                    *)

(* A handler without a fate covers its recipients by what it still has.    *)
LEMMA CoveredByList ==
  ASSUME NEW t, NEW a \in Address, task[t].fate = {}, Covered(t, a)
  PROVE  /\ task[t].at \in {"split", "queue"} \cup Looping
         /\ \E r \in Address : StandsFor(t, a, r) /\ r \in Waiting(t) /\ (Sure(t, a) => Good(r))
BY DEF Covered, InHand, Ended

(* A step of "split" or "expand" that hands a list on.                     *)
LEMMA HandsOn ==
  ASSUME IInv, NEW t \in Tries, task[t].at \in {"expand", "split"},
         task' \in [Tries -> Task], \A s \in Tries \ {t} : task'[s] = task[s],
         UNCHANGED <<mail, on, peer, copies, jobs, held, budget>>,
         task'[t].at \in {"expand", "split", "find", "queue", "rooms", "ok"},
         task'[t].to = task[t].to, task'[t].fate = {},
         task'[t].stale = task[t].stale, task'[t].hurt = task[t].hurt,
         task'[t].at \in {"expand", "split", "find"} => task'[t].todo # <<>>,
         task'[t].at = "split" /\ mail.port # "inbound" => task'[t].became = {},
         task'[t].at = "expand" /\ mail.port = "inbound" =>
           task'[t].ext = <<>> /\ task[t].at = "expand",
         OnceOK(t)', CoverOK(t)'
  PROVE  IInv'
<1>1. TryOK(t) /\ t \in Nat /\ peer.try \in Nat /\ t <= peer.try
  BY Fields DEF Steps
<1>2. ShapeOK(t)'
  BY <1>1 DEF ShapeOK, Early, Filters, Looping
<1>3. FateOK(t)'
  BY DEF FateOK
<1>4. StillTrue(t)'
  BY <1>1 DEF TryOK, StillTrue, Filters, VerifyRecipient
<1>5. CountOK'
  BY CountOne DEF MayStore, MayQueue, MayHold, Filters, Looping
<1>6. QED
  BY <1>2, <1>3, <1>4, <1>5, Still, HandlerStep DEF TryOK, Steps

(* The lists after the last address has its domain looked at.              *)
LEMMA AfterSplitCovers ==
  ASSUME IInv, NEW t \in Tries, NEW next \in Task, task[t].at = "split",
         task' = [task EXCEPT ![t] = AfterSplit(next)],
         UNCHANGED <<mail, on, peer, copies, jobs, held, budget>>,
         next.to = task[t].to, next.fate = {}, next.became = task[t].became,
         next.stale = task[t].stale, next.hurt = task[t].hurt,
         mail.port = "inbound" => Distinct(next.local),
         ToSet(next.local) \cup ToSet(next.ext) = Waiting(t),
         Waiting(t) # {}
  PROVE  IInv'
<1>1. /\ TryOK(t) /\ next.local \in Seq(Address) /\ next.ext \in Seq(Address)
      /\ task[t].fate = {} /\ task[t].to \in Seq(Address)
      /\ mail.port # "inbound" => task[t].became = {}
  <2>1. TryOK(t) /\ task[t].to \in Seq(Address)
    BY Fields
  <2>2. QED
    BY <2>1 DEF TryOK, ShapeOK, Task
<1>2. next.local # <<>> \/ next.ext # <<>>
  BY NothingIn
<1>3. \A a \in ToSet(task[t].to) :
        \E r \in Address : StandsFor(t, a, r) /\ r \in Waiting(t) /\ (Sure(t, a) => Good(r))
  BY <1>1, CoveredByList, InSet DEF TryOK, CoverOK, Placed
<1>4. ASSUME NEW left \in Seq(Address), left = next.local,
             AfterSplit(next) = Continue(next, left),
             mail.port = "inbound" \/ left = <<>>
      PROVE  IInv'
  <2>1. Continue(next, left) \in Task
    BY <1>4, ContinueFields
  <2>2. /\ task' \in [Tries -> Task] /\ \A s \in Tries \ {t} : task'[s] = task[s]
        /\ task'[t] = Continue(next, left)
    BY <1>4, <2>1, Becomes
  <2>3. /\ task'[t].at =
              IF left # <<>> THEN "find" ELSE IF next.ext # <<>> THEN "queue" ELSE AfterStore
        /\ task'[t].todo = left /\ task'[t].to = task[t].to
        /\ task'[t].ext = next.ext
        /\ task'[t].became = task[t].became /\ task'[t].fate = {}
        /\ task'[t].stale = task[t].stale /\ task'[t].hurt = task[t].hurt
    BY <2>2, ContinueFields
  <2>4. /\ task'[t].at \in {"find", "queue"}
        /\ task'[t].at = "find" <=> left # <<>>
    BY <1>2, <1>4, <2>3
  <2>5. Waiting(t)' = Waiting(t)
    <3>1. Waiting(t)' = ToSet(next.ext) \cup ToSet(left)
      BY <2>3, <2>4, NothingIn DEF Waiting, Looping
    <3>2. QED
      BY <1>4, <3>1
  <2>6. CoverOK(t)'
    <3>1. ASSUME NEW a \in ToSet(task[t].to) PROVE Covered(t, a)'
      <4>1. PICK r \in Address : StandsFor(t, a, r) /\ r \in Waiting(t)
                                 /\ (Sure(t, a) => Good(r))
        BY <1>3
      <4>2. StandsFor(t, a, r)' /\ InHand(t, a, r)'
        BY <2>3, <2>4, <2>5, <4>1 DEF StandsFor, InHand, Looping, Sure, Good
      <4>3. QED
        BY <4>2 DEF Covered
    <3>2. QED
      BY <2>3, <2>4, <3>1 DEF CoverOK
  <2>7. OnceOK(t)'
    <3>1. Distinct(left)
      BY <1>4, NothingIn
    <3>2. QED
      BY <2>3, <2>4, <3>1 DEF OnceOK, Looping
  <2>8. QED
    BY <2>2, <2>3, <2>4, <2>6, <2>7, HandsOn
<1>5. CASE mail.port = "inbound"
  <2>1. AfterSplit(next) = Continue(next, next.local)
    BY <1>5 DEF AfterSplit
  <2>2. QED
    <3>1. next.local \in Seq(Address)
      BY <1>1
    <3>2. QED
      BY <1>4, <1>5, <2>1, <3>1
<1>6. CASE mail.port # "inbound" /\ next.local = <<>>
  BY <1>1, <1>4, <1>6, NothingIn DEF AfterSplit
<1>7. CASE mail.port # "inbound" /\ next.local # <<>>
  <2> DEFINE done == [next EXCEPT !.at = "expand", !.todo = next.local, !.local = <<>>]
  <2>1. /\ done \in Task /\ done.at = "expand" /\ done.todo = next.local
        /\ done.local = <<>> /\ done.ext = next.ext /\ done.to = task[t].to
        /\ done.became = task[t].became /\ done.fate = {}
        /\ done.stale = task[t].stale /\ done.hurt = task[t].hurt
    BY <1>1, NothingIn DEF Task, Steps
  <2>2. task' = [task EXCEPT ![t] = done]
    BY <1>7 DEF AfterSplit
  <2> HIDE DEF done
  <2>3. /\ task' \in [Tries -> Task] /\ \A s \in Tries \ {t} : task'[s] = task[s]
        /\ task'[t] = done
    BY <2>1, <2>2, Becomes
  <2>4. CoverOK(t)'
    <3>1. ASSUME NEW a \in ToSet(task[t].to) PROVE Expanding(t, a)'
      <4>1. a \in Waiting(t)
        BY <1>1, <1>3, <1>7 DEF StandsFor
      <4>2. QED
        BY <2>1, <2>3, <4>1 DEF Expanding
    <3>2. task'[t].became = {}
      BY <1>1, <1>7, <2>1, <2>3
    <3>3. QED
      BY <2>1, <2>3, <3>1, <3>2 DEF CoverOK, Placed
  <2>5. OnceOK(t)'
    BY <2>1, <2>3, NothingIn DEF OnceOK, Looping
  <2>6. QED
    BY <1>7, <2>1, <2>3, <2>4, <2>5, HandsOn
<1>8. QED
  BY <1>5, <1>6, <1>7

LEMMA SplitStep == ASSUME IInv, NEW t \in Tries, Split(t) PROVE IInv'
<1> DEFINE a     == Head(task[t].todo)
           rest  == Tail(task[t].todo)
           local == IF IsLocal(a) THEN Append(task[t].local, a) ELSE task[t].local
           ext   == IF IsLocal(a) THEN task[t].ext ELSE Append(task[t].ext, a)
           next  == [task[t] EXCEPT !.todo = rest, !.local = local, !.ext = ext]
<1>1. /\ task[t].at = "split" /\ UNCHANGED <<mail, on, peer, copies, jobs, held, budget>>
      /\ task' = [task EXCEPT ![t] =
                    IF Len(task[t].todo) > 1 THEN next ELSE AfterSplit(next)]
  <2>1. [task[t] EXCEPT !.todo = Tail(@),
                        !.local = IF IsLocal(a) THEN Append(@, a) ELSE @,
                        !.ext = IF IsLocal(a) THEN @ ELSE Append(@, a)] = next
    OBVIOUS
  <2>2. QED
    BY <2>1 DEF Split
<1>2. /\ TryOK(t) /\ task[t] \in Task
      /\ task[t].todo \in Seq(Address) /\ task[t].local \in Seq(Address)
      /\ task[t].ext \in Seq(Address) /\ task[t].to \in Seq(Address)
  BY Fields
<1>3. /\ task[t].todo # <<>> /\ task[t].fate = {}
      /\ mail.port # "inbound" => task[t].became = {}
      /\ mail.port = "inbound" =>
           /\ Distinct(task[t].todo) /\ Distinct(task[t].local)
           /\ ToSet(task[t].todo) \cap ToSet(task[t].local) = {}
  BY <1>1, <1>2 DEF TryOK, ShapeOK, OnceOK
<1>4. /\ a \in Address /\ rest \in Seq(Address)
      /\ ToSet(task[t].todo) = {a} \cup ToSet(rest)
      /\ Len(task[t].todo) > 1 => rest # <<>>
      /\ ~(Len(task[t].todo) > 1) => rest = <<>>
  <2> HIDE DEF a, rest, local, ext
  <2>1. /\ a \in Address /\ rest \in Seq(Address) /\ Len(task[t].todo) \in Nat \ {0}
        /\ ToSet(task[t].todo) = {a} \cup ToSet(rest)
        /\ Len(task[t].todo) = 1 => rest = <<>>
        /\ Len(task[t].todo) # 1 => rest # <<>>
    BY <1>2, <1>3, FirstAndRest DEF a, rest
  <2>2. \A n \in Nat \ {0} : n > 1 <=> n # 1
    OBVIOUS
  <2>3. Len(task[t].todo) > 1 <=> Len(task[t].todo) # 1
    BY <2>1, <2>2
  <2>4. QED
    BY <2>1, <2>3
<1>5. /\ local \in Seq(Address) /\ ext \in Seq(Address)
      /\ ToSet(local) \cup ToSet(ext) = {a} \cup ToSet(task[t].local) \cup ToSet(task[t].ext)
      /\ ToSet(local) \subseteq {a} \cup ToSet(task[t].local)
  BY <1>2, <1>4, OneMore
<1>6. mail.port = "inbound" =>
        /\ Distinct(rest) /\ Distinct(local) /\ ToSet(rest) \cap ToSet(local) = {}
  <2> SUFFICES ASSUME mail.port = "inbound"
               PROVE  Distinct(rest) /\ Distinct(local) /\ ToSet(rest) \cap ToSet(local) = {}
    OBVIOUS
  <2>1. Distinct(rest) /\ a \notin ToSet(rest) /\ a \notin ToSet(task[t].local)
    BY <1>2, <1>3, <1>4, DistinctRest
  <2>2. Distinct(local)
    BY <1>2, <1>3, <1>4, <2>1, DistinctMore
  <2>3. QED
    BY <1>3, <1>4, <1>5, <2>1, <2>2
<1> HIDE DEF a, rest, local, ext
<1>7. /\ next \in Task /\ next.at = "split" /\ next.todo = rest /\ next.local = local
      /\ next.ext = ext /\ next.to = task[t].to /\ next.became = task[t].became
      /\ next.fate = {} /\ next.stale = task[t].stale /\ next.hurt = task[t].hurt
  BY <1>1, <1>2, <1>3, <1>4, <1>5 DEF Task
<1> HIDE DEF next
<1>8. CASE Len(task[t].todo) > 1
  <2>1. /\ task' \in [Tries -> Task] /\ \A s \in Tries \ {t} : task'[s] = task[s]
        /\ task'[t] = next
    BY <1>1, <1>7, <1>8, Becomes
  <2>2. Waiting(t)' = Waiting(t)
    BY <1>1, <1>4, <1>5, <1>7, <2>1 DEF Waiting
  <2>3. CoverOK(t)'
    <3>1. ASSUME NEW x \in ToSet(task[t].to) PROVE Covered(t, x)'
      <4>1. PICK r \in Address : StandsFor(t, x, r) /\ r \in Waiting(t)
                                 /\ (Sure(t, x) => Good(r))
        BY <1>1, <1>2, <1>3, CoveredByList, InSet DEF TryOK, CoverOK, Placed
      <4>2. StandsFor(t, x, r)' /\ InHand(t, x, r)'
        BY <1>1, <1>7, <2>1, <2>2, <4>1 DEF StandsFor, InHand, Sure, Good
      <4>3. QED
        BY <4>2 DEF Covered
    <3>2. QED
      BY <1>7, <2>1, <3>1 DEF CoverOK
  <2>4. OnceOK(t)'
    BY <1>1, <1>6, <1>7, <2>1 DEF OnceOK, Looping
  <2>5. QED
    BY <1>1, <1>3, <1>4, <1>7, <1>8, <2>1, <2>3, <2>4, HandsOn
<1>9. CASE ~(Len(task[t].todo) > 1)
  <2>1. ToSet(next.local) \cup ToSet(next.ext) = Waiting(t) /\ Waiting(t) # {}
    BY <1>1, <1>4, <1>5, <1>7, <1>9, NothingIn DEF Waiting
  <2>2. QED
    BY <1>1, <1>6, <1>7, <1>9, <2>1, AfterSplitCovers
<1>10. QED
  BY <1>8, <1>9

(* An accepted address is a mailbox, or an alias of one, while no switch   *)
(* is turned; an alias that is not resolved again was resolved before.     *)
LEMMA ResolveFinds ==
  ASSUME IInv, NEW t \in Tries, task[t].at = "expand",
         NEW a \in ToSet(task[t].to), NEW visited,
         visited = {p[1] : p \in {q \in task[t].became : q[1] # q[2]}},
         Sure(t, a)
  PROVE  \/ Good(Resolve(a, visited))
         \/ \E r \in ToSet(task[t].local) : <<a, r>> \in task[t].became /\ Good(r)
<1>1. /\ TryOK(t) /\ a \in Address /\ task[t].became \in SUBSET (Address \X Address)
      /\ on \subseteq Switches
  BY Fields, InSet DEF IInv, InboundTypeOK
<1>2. VerifyRecipient(a) /\ a \notin Rooms
  BY <1>1 DEF TryOK, StillTrue, Sure
<1>3. a \in Boxes \cup Aliases
  BY <1>1, <1>2, InboundAssumption DEF VerifyRecipient, Switches, Here
<1>4. CASE a \notin Aliases
  BY <1>2, <1>3, <1>4 DEF VerifyRecipient, Resolve, Good
<1>5. CASE a \in Aliases
  <2>1. Good(TargetOf[a]) /\ a \in on
    BY <1>2, <1>5, InboundAssumption DEF VerifyRecipient, Good
  <2>2. CASE a \notin visited
    BY <1>5, <2>1, <2>2 DEF Resolve, Good
  <2>3. CASE a \in visited
    <3>1. PICK p \in task[t].became : p[1] # p[2] /\ p[1] = a
      BY <2>3
    <3>2. p[2] = TargetOf[a] /\ p[2] \in ToSet(task[t].local)
      BY <1>1, <3>1 DEF TryOK, CoverOK
    <3>3. p = <<a, p[2]>>
      BY <1>1, <3>1
    <3>4. QED
      BY <2>1, <3>1, <3>2, <3>3
  <2>4. QED
    BY <2>2, <2>3
<1>6. QED
  BY <1>4, <1>5

LEMMA ExpandStep == ASSUME IInv, NEW t \in Tries, ExpandRecipients(t) PROVE IInv'
<1> DEFINE tk      == task[t]
           a       == Head(tk.todo)
           rest    == Tail(tk.todo)
           visited == {p[1] : p \in {q \in tk.became : q[1] # q[2]}}
           r       == Resolve(a, visited)
           out     == AddOnce(tk.local, r)
           became  == tk.became \cup {<<a, r>>}
           next    == [tk EXCEPT !.became = became, !.local = out, !.todo = rest]
           split   == [next EXCEPT !.at = "split", !.local = <<>>, !.todo = out]
<1>1. /\ task[t].at = "expand" /\ UNCHANGED <<mail, on, peer, copies, jobs, held, budget>>
      /\ task' = [task EXCEPT ![t] =
                    IF Len(tk.todo) > 1 THEN next
                    ELSE IF mail.port = "inbound" THEN split ELSE Continue(next, out)]
  <2>1. [tk EXCEPT !.became = @ \cup {<<a, r>>}, !.local = out, !.todo = Tail(@)] = next
    OBVIOUS
  <2>2. QED
    BY <2>1 DEF ExpandRecipients
<1>2. /\ TryOK(t) /\ tk \in Task
      /\ tk.todo \in Seq(Address) /\ tk.local \in Seq(Address)
      /\ tk.ext \in Seq(Address) /\ tk.to \in Seq(Address)
      /\ tk.became \in SUBSET (Address \X Address)
  BY Fields
<1>3. /\ tk.todo # <<>> /\ tk.fate = {} /\ Distinct(tk.local)
      /\ mail.port = "inbound" => tk.ext = <<>>
  BY <1>1, <1>2 DEF TryOK, ShapeOK, OnceOK
<1>4. /\ a \in Address /\ rest \in Seq(Address)
      /\ ToSet(tk.todo) = {a} \cup ToSet(rest)
      /\ Len(tk.todo) > 1 => rest # <<>>
      /\ ~(Len(tk.todo) > 1) => rest = <<>>
  <2> HIDE DEF a, rest, tk
  <2>1. /\ a \in Address /\ rest \in Seq(Address) /\ Len(tk.todo) \in Nat \ {0}
        /\ ToSet(tk.todo) = {a} \cup ToSet(rest)
        /\ Len(tk.todo) = 1 => rest = <<>>
        /\ Len(tk.todo) # 1 => rest # <<>>
    BY <1>2, <1>3, FirstAndRest DEF a, rest
  <2>2. \A n \in Nat \ {0} : n > 1 <=> n # 1
    OBVIOUS
  <2>3. Len(tk.todo) > 1 <=> Len(tk.todo) # 1
    BY <2>1, <2>2
  <2>4. QED
    BY <2>1, <2>3
<1>5. r \in Address /\ (r # a => a \in Aliases /\ r = TargetOf[a])
  BY <1>4, InboundAssumption DEF Resolve, Address, Here
<1>6. /\ out \in Seq(Address) /\ out # <<>> /\ Distinct(out)
      /\ ToSet(out) = ToSet(tk.local) \cup {r}
  <2> HIDE DEF r, tk
  <2>1. tk.local \in Seq(Address) /\ r \in Address /\ Distinct(tk.local)
    BY <1>2, <1>3, <1>5
  <2>2. QED
    BY <2>1, AddOnceAdds
<1>7. /\ became \in SUBSET (Address \X Address)
      /\ \A p \in became : /\ p[2] \in ToSet(out)
                           /\ p[1] # p[2] => p[1] \in Aliases /\ p[2] = TargetOf[p[1]]
  <2>1. \A p \in tk.became :
          /\ p[2] \in ToSet(tk.local)
          /\ p[1] # p[2] => p[1] \in Aliases /\ p[2] = TargetOf[p[1]]
    BY <1>1, <1>2 DEF TryOK, CoverOK
  <2> HIDE DEF a, r, out, tk
  <2>2. became \in SUBSET (Address \X Address)
    BY <1>2, <1>4, <1>5
  <2>3. ASSUME NEW p \in became
        PROVE  /\ p[2] \in ToSet(out)
               /\ p[1] # p[2] => p[1] \in Aliases /\ p[2] = TargetOf[p[1]]
    <3>1. p \in tk.became \/ (p[1] = a /\ p[2] = r)
      OBVIOUS
    <3>2. QED
      BY <1>5, <1>6, <2>1, <3>1
  <2>4. QED
    BY <2>2, <2>3
<1>8. ASSUME NEW x \in ToSet(tk.to)
      PROVE  \/ x \in ToSet(rest) \cup ToSet(tk.ext)
             \/ \E y \in ToSet(out) : <<x, y>> \in became /\ (Sure(t, x) => Good(y))
  <2>1. Expanding(t, x)
    BY <1>1, <1>2 DEF TryOK, CoverOK
  <2>2. CASE \E y \in ToSet(tk.local) : <<x, y>> \in tk.became /\ (Sure(t, x) => Good(y))
    BY <1>6, <2>2
  <2>3. CASE x = a
    <3>1. CASE Sure(t, x) /\ ~Good(r)
      <4>1. \E y \in ToSet(tk.local) : <<x, y>> \in tk.became /\ Good(y)
        BY <1>1, <2>3, <3>1, ResolveFinds
      <4>2. QED
        BY <1>6, <4>1
    <3>2. CASE ~(Sure(t, x) /\ ~Good(r))
      BY <1>6, <2>3, <3>2
    <3>3. QED
      BY <3>1, <3>2
  <2>4. QED
    BY <1>4, <2>1, <2>2, <2>3 DEF Expanding
<1> HIDE DEF a, rest, visited, r, out, became
<1>9. /\ next \in Task /\ next.at = "expand" /\ next.todo = rest /\ next.local = out
      /\ next.ext = tk.ext /\ next.to = tk.to /\ next.became = became
      /\ next.fate = {} /\ next.stale = tk.stale /\ next.hurt = tk.hurt
  BY <1>1, <1>2, <1>3, <1>4, <1>6, <1>7 DEF Task
<1>b. /\ split \in Task /\ split.at = "split" /\ split.todo = out /\ split.local = <<>>
      /\ split.ext = tk.ext /\ split.to = tk.to /\ split.became = became
      /\ split.fate = {} /\ split.stale = tk.stale /\ split.hurt = tk.hurt
  <2> HIDE DEF next
  <2>1. QED
    BY <1>6, <1>9, NothingIn DEF Task, Steps
<1> HIDE DEF next, split
<1>10. CASE Len(tk.todo) > 1
  <2>1. /\ task' \in [Tries -> Task] /\ \A s \in Tries \ {t} : task'[s] = task[s]
        /\ task'[t] = next
    BY <1>1, <1>9, <1>10, Becomes
  <2>2. CoverOK(t)'
    <3>1. \A x \in ToSet(tk.to) : Expanding(t, x)'
      BY <1>1, <1>8, <1>9, <2>1 DEF Expanding, Sure, Good
    <3>2. QED
      BY <1>7, <1>9, <2>1, <3>1 DEF CoverOK, Placed
  <2>3. OnceOK(t)'
    BY <1>6, <1>9, <2>1 DEF OnceOK, Looping
  <2>4. QED
    BY <1>1, <1>3, <1>4, <1>9, <1>10, <2>1, <2>2, <2>3, HandsOn
<1>11. CASE ~(Len(tk.todo) > 1) /\ mail.port = "inbound"
  <2>1. /\ task' \in [Tries -> Task] /\ \A s \in Tries \ {t} : task'[s] = task[s]
        /\ task'[t] = split
    BY <1>1, <1>b, <1>11, Becomes
  <2>2. CoverOK(t)'
    <3>1. ASSUME NEW x \in ToSet(tk.to) PROVE Covered(t, x)'
      <4>1. PICK y \in ToSet(out) : <<x, y>> \in became /\ (Sure(t, x) => Good(y))
        BY <1>3, <1>4, <1>8, <1>11, NothingIn
      <4>2. y \in Address /\ y \in Waiting(t)'
        BY <1>6, <1>b, <2>1, InSet DEF Waiting
      <4>3. StandsFor(t, x, y)' /\ InHand(t, x, y)'
        BY <1>1, <1>b, <2>1, <4>1, <4>2 DEF StandsFor, InHand, Sure, Good
      <4>4. QED
        BY <4>2, <4>3 DEF Covered
    <3>2. QED
      BY <1>b, <2>1, <3>1 DEF CoverOK
  <2>3. OnceOK(t)'
    BY <1>6, <1>b, <2>1, NothingIn DEF OnceOK, Looping
  <2>4. QED
    BY <1>1, <1>6, <1>b, <1>11, <2>1, <2>2, <2>3, HandsOn
<1>12. CASE ~(Len(tk.todo) > 1) /\ mail.port # "inbound"
  <2>1. Continue(next, out) \in Task
    BY <1>6, <1>9, ContinueFields
  <2>2. /\ task' \in [Tries -> Task] /\ \A s \in Tries \ {t} : task'[s] = task[s]
        /\ task'[t] = Continue(next, out)
    BY <1>1, <1>12, <2>1, Becomes
  <2>3. /\ task'[t].at = "find" /\ task'[t].todo = out /\ task'[t].to = tk.to
        /\ task'[t].ext = tk.ext /\ task'[t].became = became /\ task'[t].fate = {}
        /\ task'[t].stale = tk.stale /\ task'[t].hurt = tk.hurt
    BY <1>6, <1>9, <2>2, ContinueFields
  <2>4. CoverOK(t)'
    <3>1. ASSUME NEW x \in ToSet(tk.to) PROVE Covered(t, x)'
      <4>1. x \in Address
        BY <1>2, InSet
      <4>2. ~Sure(t, x)'
        BY <1>1, <1>12 DEF Sure
      <4>3. CASE x \in ToSet(tk.ext)
        BY <2>3, <4>1, <4>2, <4>3 DEF Covered, StandsFor, InHand, Waiting, Looping
      <4>4. CASE \E y \in ToSet(out) : <<x, y>> \in became
        <5>1. PICK y \in ToSet(out) : <<x, y>> \in became
          BY <4>4
        <5>2. y \in Address
          BY <1>6, InSet
        <5>3. QED
          BY <2>3, <4>2, <5>1, <5>2 DEF Covered, StandsFor, InHand, Waiting, Looping
      <4>5. QED
        BY <1>4, <1>8, <1>12, <4>3, <4>4, NothingIn
    <3>2. QED
      BY <2>3, <3>1 DEF CoverOK
  <2>5. OnceOK(t)'
    BY <1>6, <2>3 DEF OnceOK, Looping
  <2>6. QED
    BY <1>1, <1>6, <1>12, <2>2, <2>3, <2>4, <2>5, HandsOn
<1>13. QED
  BY <1>10, <1>11, <1>12

-----------------------------------------------------------------------------
(* The peer, the network and the administrator.                            *)

(* A handler that is gone; a connection that is lost before DATA.          *)
LEMMA GoneOK ==
  ASSUME IInv, NEW s \in Tries, task[s].at \in Steps,
         task'[s] = [task[s] EXCEPT !.at = "gone"],
         UNCHANGED <<mail, copies, jobs, held>>, peer'.try = peer.try
  PROVE  task'[s] \in Task /\ task'[s].at = "gone" /\ TryOK(s)'
<1>1. task[s] \in Task /\ TryOK(s) /\ s \in Nat /\ peer.try \in Nat /\ s <= peer.try
  BY Fields
<1>2. /\ task'[s] \in Task /\ task'[s].at = "gone"
      /\ task'[s].fate = task[s].fate /\ task'[s].hurt = task[s].hurt
  BY <1>1 DEF Task, Ends
<1>3. ShapeOK(s)' /\ OnceOK(s)' /\ StillTrue(s)' /\ CoverOK(s)'
  BY <1>1, <1>2
     DEF ShapeOK, OnceOK, StillTrue, CoverOK, Early, Filters, Looping, Placed
<1>4. FateOK(s)'
  BY <1>1, <1>2 DEF TryOK, FateOK
<1>5. QED
  BY <1>2, <1>3, <1>4 DEF TryOK

(* Handlers go, no other moves.                                            *)
LEMMA SomeGo ==
  ASSUME IInv, NEW S \in SUBSET Tries, \A s \in S : task[s].at \in Steps,
         \A s \in Tries : task[s].at = "rcpt" => s \in S,
         task' = [s \in Tries |-> IF s \in S THEN [task[s] EXCEPT !.at = "gone"] ELSE task[s]],
         peer' = [peer EXCEPT !.state = IF @ = "talking" THEN "waiting" ELSE @],
         budget.faults < MaxFaults, budget' = [budget EXCEPT !.faults = @ + 1],
         UNCHANGED <<mail, on, copies, jobs, held>>
  PROVE  IInv'
<1>1. /\ peer \in [try : 0..MaxTries, state : {"waiting", "talking", "done"},
                   left : Seq(Address), sent : SUBSET Address, bounced : SUBSET Address]
      /\ budget \in [faults : 0..MaxFaults, switches : 0..MaxSwitches]
      /\ MaxFaults \in Nat /\ MaxTries \in Nat /\ task \in [Tries -> Task]
  BY InboundAssumption DEF IInv, InboundTypeOK
<1>2. /\ peer' \in [try : 0..MaxTries, state : {"waiting", "talking", "done"},
                    left : Seq(Address), sent : SUBSET Address, bounced : SUBSET Address]
      /\ peer'.try = peer.try /\ peer'.state # "talking"
  BY <1>1
<1>3. /\ budget' \in [faults : 0..MaxFaults, switches : 0..MaxSwitches]
      /\ budget'.faults # 0
  BY <1>1
<1>4. Grows
  BY DEF IInv, InboundTypeOK, Grows
<1>5. ASSUME NEW s \in Tries
      PROVE  /\ task'[s] \in Task /\ TryOK(s)'
             /\ task'[s] = task[s] \/ task'[s].at = "gone"
  <2>1. CASE s \in S
    <3>1. task'[s] = [task[s] EXCEPT !.at = "gone"] /\ task[s].at \in Steps
      BY <2>1
    <3>2. QED
      BY <1>2, <3>1, GoneOK
  <2>2. CASE s \notin S
    <3>1. task'[s] = task[s] /\ task[s].at # "rcpt" /\ task[s] \in Task
      BY <1>1, <2>2
    <3>2. peer'.try \in Nat /\ peer'.try >= peer.try
      BY <1>1, <1>2
    <3>3. QED
      BY <1>4, <3>1, <3>2, OtherTry DEF Same
  <2>3. QED
    BY <2>1, <2>2
<1>6. InboundTypeOK'
  BY <1>2, <1>3, <1>5 DEF IInv, InboundTypeOK
<1>7. CountOK'
  <2>1. peer'.try \in Nat /\ peer'.try >= peer.try /\ 1..peer.try \subseteq Tries
    BY <1>1, <1>2 DEF Tries
  <2>2. ASSUME NEW s \in 1..peer.try
        PROVE  /\ \A b \in Boxes : MayStore(s, b)' => MayStore(s, b)
               /\ MayQueue(s)' => MayQueue(s)
               /\ MayHold(s)' => MayHold(s)
    BY <1>5, <2>1 DEF MayStore, MayQueue, MayHold, Filters, Looping
  <2>3. QED
    BY <2>1, <2>2, CountStays
<1>8. QED
  BY <1>2, <1>3, <1>5, <1>6, <1>7 DEF IInv, PeerOK, CleanOK

LEMMA HangupStep == IInv /\ Hangup => IInv'
<1> SUFFICES ASSUME IInv, Hangup PROVE IInv'
  OBVIOUS
<1> DEFINE S == {s \in {peer.try} : task[s].at = "rcpt"}
<1>1. /\ peer.state = "talking" /\ peer' = [peer EXCEPT !.state = "waiting"]
      /\ task' = [task EXCEPT ![peer.try].at = IF @ = "rcpt" THEN "gone" ELSE @]
      /\ budget.faults < MaxFaults /\ budget' = [budget EXCEPT !.faults = @ + 1]
      /\ UNCHANGED <<mail, on, copies, jobs, held>>
  BY DEF Hangup, Fault
<1>2. /\ peer.try \in Tries /\ task \in [Tries -> Task] /\ task[peer.try] \in Task
      /\ peer \in [try : 0..MaxTries, state : {"waiting", "talking", "done"},
                   left : Seq(Address), sent : SUBSET Address, bounced : SUBSET Address]
  BY <1>1 DEF IInv, PeerOK, InboundTypeOK
<1>3. S \in SUBSET Tries /\ \A s \in S : task[s].at \in Steps
  BY <1>2 DEF Steps
<1>4. \A s \in Tries : task[s].at = "rcpt" => s \in S
  BY DEF IInv, TryOK, ShapeOK
<1>5. task' = [s \in Tries |-> IF s \in S THEN [task[s] EXCEPT !.at = "gone"] ELSE task[s]]
  <2>1. CASE task[peer.try].at = "rcpt"
    BY <1>1, <1>2, <2>1
  <2>2. CASE task[peer.try].at # "rcpt"
    <3>1. [task[peer.try] EXCEPT !.at = task[peer.try].at] = task[peer.try]
      BY <1>2 DEF Task
    <3>2. task' = task
      BY <1>1, <1>2, <2>2, <3>1
    <3>3. S = {}
      BY <2>2
    <3>4. QED
      BY <1>2, <3>2, <3>3
  <2>3. QED
    BY <2>1, <2>2
<1>6. peer' = [peer EXCEPT !.state = IF @ = "talking" THEN "waiting" ELSE @]
  BY <1>1, <1>2
<1>7. QED
  BY <1>1, <1>3, <1>4, <1>5, <1>6, SomeGo

LEMMA CrashStep == IInv /\ Crash => IInv'
<1> SUFFICES ASSUME IInv, Crash PROVE IInv'
  OBVIOUS
<1> DEFINE S == {s \in Tries : Busy(s)}
<1>1. /\ task' = [t \in Tries |-> IF Busy(t) THEN [task[t] EXCEPT !.at = "gone"] ELSE task[t]]
      /\ peer' = [peer EXCEPT !.state = IF @ = "talking" THEN "waiting" ELSE @]
      /\ budget.faults < MaxFaults /\ budget' = [budget EXCEPT !.faults = @ + 1]
      /\ UNCHANGED <<mail, on, copies, jobs, held>>
  BY DEF Crash, Fault
<1>2. /\ S \in SUBSET Tries /\ \A s \in S : task[s].at \in Steps
      /\ \A s \in Tries : task[s].at = "rcpt" => s \in S
  BY DEF Busy, Steps
<1>3. task' = [s \in Tries |-> IF s \in S THEN [task[s] EXCEPT !.at = "gone"] ELSE task[s]]
  BY <1>1
<1> HIDE DEF S
<1>4. QED
  BY <1>1, <1>2, <1>3, SomeGo

(* Only what the peer knows changes, and nobody talks to it any more.      *)
LEMMA PeerAlone ==
  ASSUME IInv, UNCHANGED <<mail, on, task, copies, jobs, held, budget>>,
         peer' \in [try : 0..MaxTries, state : {"waiting", "done"},
                    left : Seq(Address), sent : SUBSET Address, bounced : SUBSET Address],
         peer'.try = peer.try, \A s \in Tries : task[s].at # "rcpt",
         OneTry => peer'.left = <<>> \/ peer.try = 0
  PROVE  IInv'
<1>1. InboundTypeOK' /\ PeerOK' /\ peer.try \in Nat
  BY DEF IInv, InboundTypeOK, PeerOK
<1>2. ASSUME NEW s \in Tries PROVE TryOK(s)'
  <2>1. Same(s) /\ Grows
    BY Still DEF Same
  <2>2. peer'.try \in Nat /\ peer'.try >= peer.try
    BY <1>1
  <2>3. QED
    BY <2>1, <2>2, OtherTry
<1>3. CountOK'
  <2>1. peer'.try \in Nat /\ peer'.try >= peer.try
    BY <1>1
  <2>2. \A s \in 1..peer.try :
          /\ \A b \in Boxes : MayStore(s, b)' => MayStore(s, b)
          /\ MayQueue(s)' => MayQueue(s)
          /\ MayHold(s)' => MayHold(s)
    BY DEF MayStore, MayQueue, MayHold
  <2>3. QED
    BY <2>1, <2>2, CountStays
<1>4. CleanOK'
  BY <1>1 DEF IInv, CleanOK, OneTry
<1>5. QED
  BY <1>1, <1>2, <1>3, <1>4 DEF IInv

LEMMA FinishStep == IInv /\ Finish => IInv'
<1> SUFFICES ASSUME IInv, Finish PROVE IInv'
  OBVIOUS
<1>1. /\ peer.state = "waiting" /\ UNCHANGED <<mail, on, task, copies, jobs, held, budget>>
      /\ peer' = [peer EXCEPT !.state = "done", !.left = <<>>,
                              !.bounced = @ \cup ToSet(peer.left)]
      /\ peer \in [try : 0..MaxTries, state : {"waiting", "talking", "done"},
                   left : Seq(Address), sent : SUBSET Address, bounced : SUBSET Address]
  BY DEF Finish, IInv, InboundTypeOK
<1>2. ToSet(peer.left) \subseteq Address
  BY <1>1, InSet
<1>3. /\ peer' \in [try : 0..MaxTries, state : {"waiting", "done"},
                    left : Seq(Address), sent : SUBSET Address, bounced : SUBSET Address]
      /\ peer'.try = peer.try /\ peer'.left = <<>>
  <2> DEFINE all == peer.bounced \cup ToSet(peer.left)
  <2>1. all \in SUBSET Address /\ <<>> \in Seq(Address)
    BY <1>1, <1>2
  <2>2. peer' = [peer EXCEPT !.state = "done", !.left = <<>>, !.bounced = all]
    BY <1>1
  <2> HIDE DEF all
  <2>3. QED
    BY <1>1, <2>1, <2>2
<1>4. \A s \in Tries : task[s].at # "rcpt"
  BY <1>1 DEF IInv, TryOK, ShapeOK
<1>5. QED
  BY <1>1, <1>3, <1>4, PeerAlone

LEMMA ReadReplyStep == IInv /\ ReadReply => IInv'
<1> SUFFICES ASSUME IInv, ReadReply PROVE IInv'
  OBVIOUS
<1> DEFINE tk == task[peer.try]
<1>1. /\ peer.state = "talking" /\ tk.at \in {"ok", "temporary", "permanent"}
      /\ UNCHANGED <<mail, on, task, copies, jobs, held, budget>>
      /\ peer' = [peer EXCEPT
           !.state = "waiting",
           !.left = IF tk.at = "temporary" THEN @ ELSE <<>>,
           !.sent = IF tk.at = "ok" THEN @ \cup ToSet(tk.to) ELSE @,
           !.bounced = IF tk.at = "permanent" THEN @ \cup ToSet(tk.to) ELSE @]
  BY DEF ReadReply
<1>2. /\ peer.try \in Tries
      /\ peer \in [try : 0..MaxTries, state : {"waiting", "talking", "done"},
                   left : Seq(Address), sent : SUBSET Address, bounced : SUBSET Address]
  BY <1>1 DEF IInv, PeerOK, InboundTypeOK
<1>3. ToSet(tk.to) \subseteq Address
  BY <1>2, Fields, InSet
<1>4. /\ peer' \in [try : 0..MaxTries, state : {"waiting", "done"},
                    left : Seq(Address), sent : SUBSET Address, bounced : SUBSET Address]
      /\ peer'.try = peer.try /\ (tk.at # "temporary" => peer'.left = <<>>)
  <2> DEFINE left    == IF tk.at = "temporary" THEN peer.left ELSE <<>>
             sent    == IF tk.at = "ok" THEN peer.sent \cup ToSet(tk.to) ELSE peer.sent
             bounced == IF tk.at = "permanent" THEN peer.bounced \cup ToSet(tk.to)
                        ELSE peer.bounced
  <2> HIDE DEF tk
  <2>1. left \in Seq(Address) /\ sent \in SUBSET Address /\ bounced \in SUBSET Address
    BY <1>2, <1>3
  <2>2. peer' = [peer EXCEPT !.state = "waiting", !.left = left,
                             !.sent = sent, !.bounced = bounced]
    BY <1>1
  <2>3. tk.at # "temporary" => left = <<>>
    OBVIOUS
  <2> HIDE DEF left, sent, bounced
  <2>4. QED
    BY <1>2, <2>1, <2>2, <2>3
<1>5. \A s \in Tries : task[s].at # "rcpt"
  BY <1>1 DEF IInv, TryOK, ShapeOK
<1>6. OneTry => tk.at # "temporary"
  BY <1>2 DEF OneTry
<1>7. QED
  BY <1>1, <1>4, <1>5, <1>6, PeerAlone

LEMMA ConnectStep == IInv /\ Connect => IInv'
<1> SUFFICES ASSUME IInv, Connect PROVE IInv'
  OBVIOUS
<1>t. PICK t \in Nat : t = peer.try + 1
  BY DEF IInv, InboundTypeOK
<1>1. /\ peer.state = "waiting" /\ peer.left # <<>> /\ peer.try < MaxTries
      /\ peer' = [peer EXCEPT !.try = t, !.state = "talking"]
      /\ task' = [task EXCEPT ![t].at = "rcpt", ![t].todo = peer.left]
      /\ UNCHANGED <<mail, on, copies, jobs, held, budget>>
  BY <1>t DEF Connect
<1>2. /\ peer \in [try : 0..MaxTries, state : {"waiting", "talking", "done"},
                   left : Seq(Address), sent : SUBSET Address, bounced : SUBSET Address]
      /\ task \in [Tries -> Task] /\ MaxTries \in Nat /\ peer.try \in Nat
  BY InboundAssumption DEF IInv, InboundTypeOK
<1>3. t \in Tries /\ t > peer.try /\ t \in 0..MaxTries /\ t \in Nat
  BY <1>t, <1>1, <1>2 DEF Tries
<1>4. task[t] = Idle
  BY <1>3 DEF IInv, TryOK, ShapeOK
<1>5. /\ peer' \in [try : 0..MaxTries, state : {"waiting", "talking", "done"},
                    left : Seq(Address), sent : SUBSET Address, bounced : SUBSET Address]
      /\ peer'.try = t /\ peer'.state = "talking"
  BY <1>1, <1>2, <1>3
<1>6. /\ task' \in [Tries -> Task] /\ \A s \in Tries \ {t} : task'[s] = task[s]
      /\ task'[t] = [Idle EXCEPT !.at = "rcpt", !.todo = peer.left]
  <2>0. Idle \in Task /\ peer.left \in Seq(Address) /\ "rcpt" \in Steps
    BY <1>2 DEF Idle, Task, Ends, Steps
  <2>1. [Idle EXCEPT !.at = "rcpt", !.todo = peer.left] \in Task
    BY <2>0 DEF Task
  <2>2. QED
    BY <1>1, <1>2, <1>3, <1>4, <2>1
<1>7. /\ task'[t].at = "rcpt" /\ task'[t].todo = peer.left /\ task'[t].to = <<>>
      /\ task'[t].local = <<>> /\ task'[t].ext = <<>> /\ task'[t].became = {}
      /\ task'[t].fate = {}
  BY <1>6 DEF Idle
<1>8. TryOK(t)'
  <2>1. ShapeOK(t)'
    <3>1. ~(t > peer'.try)
      BY <1>3, <1>5
    <3>2. QED
      BY <1>1, <1>5, <1>7, <3>1 DEF ShapeOK, Early, Filters, Looping
  <2>a. OnceOK(t)' /\ FateOK(t)' /\ CoverOK(t)'
    BY <1>7 DEF OnceOK, FateOK, CoverOK, Looping, Placed
  <2>2. StillTrue(t)'
    BY <1>7, NothingIn DEF StillTrue
  <2>3. QED
    BY <2>1, <2>a, <2>2 DEF TryOK
<1>9. ASSUME NEW s \in Tries \ {t} PROVE TryOK(s)'
  <2>1. task[s].at # "rcpt"
    BY <1>1 DEF IInv, TryOK, ShapeOK
  <2>2. Same(s) /\ Grows
    BY <1>1, <1>6, Still DEF Same
  <2>3. peer'.try \in Nat /\ peer'.try >= peer.try
    BY <1>2, <1>3, <1>5
  <2>4. QED
    BY <2>1, <2>2, <2>3, OtherTry
<1>10. CountOK'
  <2>1. peer'.try \in Nat /\ peer'.try >= peer.try
    BY <1>2, <1>3, <1>5
  <2>2. ASSUME NEW s \in 1..peer.try
        PROVE  /\ \A b \in Boxes : MayStore(s, b)' => MayStore(s, b)
               /\ MayQueue(s)' => MayQueue(s)
               /\ MayHold(s)' => MayHold(s)
    <3>1. s \in Tries \ {t}
      BY <1>2, <1>3 DEF Tries
    <3>2. task'[s] = task[s]
      BY <1>6, <3>1
    <3>3. QED
      BY <3>2 DEF MayStore, MayQueue, MayHold
  <2>3. QED
    BY <1>1, <2>1, <2>2, CountStays
<1>11. CleanOK'
  <2> SUFFICES ASSUME OneTry PROVE OneTry'
    BY <1>1 DEF IInv, CleanOK
  <2>1. peer.try = 0
    BY <1>1, <1>2 DEF OneTry
  <2>2. t = 1
    BY <1>t, <2>1
  <2>3. \A s \in Tries : task'[s].at \in {"temporary", "permanent"} =>
          s # t /\ task'[s] = task[s]
    BY <1>6, <1>7
  <2>4. peer'.try <= 1 /\ peer'.state = "talking"
    BY <1>5, <2>2
  <2>5. \A s \in Tries : task'[s].at # "temporary"
    BY <2>3 DEF OneTry
  <2>6. \A s \in Tries : task'[s].at = "permanent" => \A b \in Boxes : copies'[b] = 0
    BY <1>1, <2>3 DEF OneTry
  <2>7. QED
    BY <2>4, <2>5, <2>6 DEF OneTry
<1>12. InboundTypeOK' /\ PeerOK'
  BY <1>1, <1>3, <1>5, <1>6 DEF IInv, InboundTypeOK, PeerOK
<1>13. QED
  BY <1>8, <1>9, <1>10, <1>11, <1>12 DEF IInv

LEMMA SwitchStep == IInv /\ Switch => IInv'
<1> SUFFICES ASSUME IInv, Switch PROVE IInv'
  OBVIOUS
<1>1. /\ budget.switches < MaxSwitches
      /\ budget' = [budget EXCEPT !.switches = @ + 1]
      /\ task' = [t \in Tries |->
                    IF Busy(t) THEN [task[t] EXCEPT !.stale = TRUE] ELSE task[t]]
      /\ UNCHANGED <<mail, peer, copies, jobs, held>>
      /\ \E x \in Switches : on' = IF x \in on THEN on \ {x} ELSE on \cup {x}
  BY DEF Switch
<1>2. /\ budget \in [faults : 0..MaxFaults, switches : 0..MaxSwitches]
      /\ MaxSwitches \in Nat /\ task \in [Tries -> Task] /\ on \subseteq Switches
      /\ peer.try \in Nat
  BY InboundAssumption DEF IInv, InboundTypeOK
<1>3. /\ budget' \in [faults : 0..MaxFaults, switches : 0..MaxSwitches]
      /\ budget'.faults = budget.faults /\ on' \subseteq Switches
  <2>1. budget' \in [faults : 0..MaxFaults, switches : 0..MaxSwitches]
        /\ budget'.faults = budget.faults
    BY <1>1, <1>2
  <2>2. on' \subseteq Switches
    BY <1>1, <1>2
  <2>3. QED
    BY <2>1, <2>2
<1>4. ASSUME NEW s \in Tries
      PROVE  /\ task'[s] \in Task /\ task'[s].at = task[s].at
             /\ task'[s].to = task[s].to /\ task'[s].todo = task[s].todo
             /\ task'[s].local = task[s].local /\ task'[s].ext = task[s].ext
             /\ task'[s].became = task[s].became /\ task'[s].fate = task[s].fate
             /\ task'[s].hurt = task[s].hurt
             /\ task[s].at \in Steps => task'[s].stale
             /\ task[s].at \notin Steps => task'[s] = task[s]
  <2>1. task[s] \in Task /\ task'[s] = IF Busy(s) THEN [task[s] EXCEPT !.stale = TRUE] ELSE task[s]
    BY <1>1, <1>2
  <2>2. CASE Busy(s)
    BY <2>1, <2>2 DEF Task, Busy
  <2>3. CASE ~Busy(s)
    BY <2>1, <2>3 DEF Busy
  <2>4. QED
    BY <2>2, <2>3
<1>5. ASSUME NEW s \in Tries PROVE TryOK(s)'
  <2>1. TryOK(s) /\ s \in Nat /\ (task[s].at \in Steps => s <= peer.try)
    BY Fields
  <2>2. ShapeOK(s)' /\ OnceOK(s)' /\ FateOK(s)'
    <3>1. s > peer.try => task'[s] = task[s]
      BY <1>2, <1>4, <2>1
    <3>2. ShapeOK(s)'
      BY <1>1, <1>4, <2>1, <3>1 DEF TryOK, ShapeOK
    <3>3. OnceOK(s)' /\ FateOK(s)'
      BY <1>1, <1>4, <2>1 DEF TryOK, OnceOK, FateOK
    <3>4. QED
      BY <3>2, <3>3
  <2>3. StillTrue(s)'
    <3>1. task'[s].at \in {"rcpt", "expand"} \cup Filters => task'[s].stale
      BY <1>4 DEF Filters, Steps
    <3>2. QED
      BY <3>1 DEF StillTrue
  <2>4. \A a : Sure(s, a)' => Sure(s, a) /\ task[s].at \notin Steps
    BY <1>1, <1>4 DEF Sure
  <2>5. \A a : Covered(s, a) => Covered(s, a)'
    <3>1. Waiting(s)' = Waiting(s)
      BY <1>4 DEF Waiting
    <3>2. \A a, r : StandsFor(s, a, r) => StandsFor(s, a, r)'
      BY <1>4 DEF StandsFor
    <3>3. \A a, r : InHand(s, a, r) => InHand(s, a, r)'
      BY <1>4, <2>4, <3>1 DEF InHand, Looping, Steps
    <3>4. \A a, r : Ended(s, a, r) => Ended(s, a, r)'
      BY <1>4, <2>4 DEF Ended
    <3>5. QED
      BY <3>2, <3>3, <3>4 DEF Covered
  <2>6. task[s].at = "expand" => \A a : Expanding(s, a) => Expanding(s, a)'
    BY <1>4, <2>4 DEF Expanding, Steps
  <2>7. CoverOK(s)'
    BY <1>1, <1>4, <2>1, <2>5, <2>6 DEF TryOK, CoverOK
  <2>8. QED
    BY <2>2, <2>3, <2>7 DEF TryOK
<1>6. InboundTypeOK'
  <2>1. task' \in [Tries -> Task]
    BY <1>1, <1>4
  <2>2. QED
    BY <1>1, <1>3, <2>1 DEF IInv, InboundTypeOK
<1>7. CountOK'
  <2>1. peer'.try \in Nat /\ peer'.try >= peer.try /\ 1..peer.try \subseteq Tries
    BY <1>1, <1>2, InboundAssumption DEF IInv, InboundTypeOK, Tries
  <2>2. ASSUME NEW s \in 1..peer.try
        PROVE  /\ \A b \in Boxes : MayStore(s, b)' => MayStore(s, b)
               /\ MayQueue(s)' => MayQueue(s)
               /\ MayHold(s)' => MayHold(s)
    BY <1>4, <2>1 DEF MayStore, MayQueue, MayHold
  <2>3. QED
    BY <1>1, <2>1, <2>2, CountStays
<1>8. CleanOK' /\ PeerOK'
  BY <1>1, <1>3, <1>4 DEF IInv, CleanOK, OneTry, PeerOK
<1>9. QED
  BY <1>5, <1>6, <1>7, <1>8 DEF IInv

-----------------------------------------------------------------------------
(* The theorems.                                                           *)

LEMMA NextInv == IInv /\ [InboundNext]_vars => IInv'
<1> SUFFICES ASSUME IInv, [InboundNext]_vars PROVE IInv'
  OBVIOUS
<1>1. ASSUME NEW t \in Tries, Handle(t) \/ Throws(t) \/ RcptThrows(t) PROVE IInv'
  <2>1. CASE Rcpt(t)
    BY <2>1, RcptStep
  <2>2. CASE Filter(t) \/ QuarantineMessage(t)
    BY <2>2, FilterStep, QuarantineStep
  <2>3. CASE ExpandRecipients(t) \/ Split(t)
    BY <2>3, ExpandStep, SplitStep
  <2>4. CASE Find(t) \/ Insert(t) \/ Count(t)
    BY <2>4, FindStep, InsertStep, CountStep
  <2>5. CASE EnqueueOutbound(t) \/ ProcessRooms(t)
    BY <2>5, EnqueueStep, RoomsStep
  <2>6. CASE Throws(t) \/ RcptThrows(t)
    BY <2>6, ThrowsStep, RcptThrowsStep
  <2>7. QED
    BY <1>1, <2>1, <2>2, <2>3, <2>4, <2>5, <2>6 DEF Handle
<1>2. CASE Hangup \/ Crash \/ Connect \/ Finish \/ ReadReply \/ Switch
  BY <1>2, HangupStep, CrashStep, ConnectStep, FinishStep, ReadReplyStep, SwitchStep
<1>3. CASE UNCHANGED vars
  <2>1. UNCHANGED <<mail, on, peer, task, copies, jobs, held, budget>>
    BY <1>3 DEF vars
  <2>2. InboundTypeOK' /\ PeerOK' /\ CleanOK'
    BY <2>1 DEF IInv, InboundTypeOK, PeerOK, CleanOK, OneTry
  <2>3. ASSUME NEW s \in Tries PROVE TryOK(s)'
    <3>1. Same(s) /\ Grows /\ peer'.try \in Nat /\ peer'.try >= peer.try
      BY <2>1, Still DEF Same, IInv, InboundTypeOK
    <3>2. task[s].at = "rcpt" => s = peer'.try /\ peer'.state = "talking"
      BY <2>1 DEF IInv, TryOK, ShapeOK
    <3>3. QED
      BY <3>1, <3>2, OtherTry
  <2>4. CountOK'
    <3>1. peer'.try \in Nat /\ peer'.try >= peer.try
      BY <2>1 DEF IInv, InboundTypeOK
    <3>2. \A s : /\ \A b : MayStore(s, b)' <=> MayStore(s, b)
                 /\ MayQueue(s)' <=> MayQueue(s)
                 /\ MayHold(s)' <=> MayHold(s)
      BY <2>1 DEF MayStore, MayQueue, MayHold
    <3>3. QED
      BY <2>1, <3>1, <3>2, CountStays
  <2>5. QED
    BY <2>2, <2>3, <2>4 DEF IInv
<1>4. QED
  BY <1>1, <1>2, <1>3 DEF InboundNext

LEMMA InvHolds == InboundSpec => []IInv
<1>1. InboundInit => IInv
  BY InitInv
<1>2. IInv /\ [InboundNext]_vars => IInv'
  BY NextInv
<1>3. QED
  BY <1>1, <1>2, PTL DEF InboundSpec

(* Every variable keeps its type, for any number of tries.                 *)
THEOREM InboundTypes == InboundSpec => []InboundTypeOK
<1>1. IInv => InboundTypeOK
  BY DEF IInv
<1>2. QED
  BY <1>1, InvHolds, PTL

(* Whatever fails, is lost or is switched between RCPT and the 250: each   *)
(* recipient of a message that processMessage answered with 250 is in a    *)
(* mailbox, in the queue, in the content filter's quarantine, or has one   *)
(* of these fates: a rule refused, held or discarded it, which stores it   *)
(* nowhere; it was dropped as unknown, which takes a client's envelope, a  *)
(* room, or a switch turned after RCPT; its job could not be added on      *)
(* port 25, which takes a statement that failed.                           *)
THEOREM AcceptedAreAccounted == InboundSpec => []AcceptedIsAccounted
<1>1. ASSUME IInv PROVE AcceptedIsAccounted
  <2> SUFFICES ASSUME NEW t \in Tries, task[t].at = "ok",
                      ~(task[t].became = {} /\ task[t].fate = {} /\ held > 0),
                      NEW a \in ToSet(task[t].to)
               PROVE  /\ Fates(t, a) # {}
                      /\ "stored" \in Fates(t, a) =>
                           \E b \in Final(t, a) \cap Boxes : copies[b] > 0
                      /\ "queued" \in Fates(t, a) => \E b \in Final(t, a) : jobs[b] > 0
                      /\ Fates(t, a) = {"unknown"} =>
                           mail.port = "submission" \/ a \in Rooms \/ task[t].stale
                      /\ "lost" \in Fates(t, a) => task[t].hurt
    BY DEF AcceptedIsAccounted
  <2>1. /\ TryOK(t) /\ a \in Address
        /\ task[t].became \in SUBSET (Address \X Address)
        /\ task[t].fate \in SUBSET (Address \X What)
        /\ mail.port \in {"inbound", "submission"}
    BY <1>1, Fields, InSet, InboundAssumption DEF IInv, InboundTypeOK
  <2>2. PICK r \in Address : StandsFor(t, a, r) /\ Ended(t, a, r)
    BY <2>1 DEF TryOK, CoverOK, Covered, InHand, Looping
  <2>3. PICK w \in What : <<r, w>> \in task[t].fate /\ (Sure(t, a) => w # "unknown")
    BY <2>2 DEF Ended
  <2>4. r \in Final(t, a) /\ Final(t, a) \subseteq Address
    BY <2>1, <2>2 DEF Final, StandsFor
  <2>5. w \in Fates(t, a)
    BY <2>3, <2>4 DEF Fates
  <2>6. ASSUME NEW x, x \in Fates(t, a)
        PROVE  \E b \in Final(t, a) : <<b, x>> \in task[t].fate
    BY <2>1, <2>6 DEF Fates
  <2>7. "stored" \in Fates(t, a) => \E b \in Final(t, a) \cap Boxes : copies[b] > 0
    BY <2>1, <2>4, <2>6 DEF TryOK, FateOK
  <2>8. "queued" \in Fates(t, a) => \E b \in Final(t, a) : jobs[b] > 0
    BY <2>1, <2>4, <2>6 DEF TryOK, FateOK
  <2>9. "lost" \in Fates(t, a) => task[t].hurt
    BY <2>1, <2>4, <2>6 DEF TryOK, FateOK
  <2>10. Fates(t, a) = {"unknown"} =>
           mail.port = "submission" \/ a \in Rooms \/ task[t].stale
    BY <2>1, <2>3, <2>5 DEF Sure
  <2>11. QED
    BY <2>5, <2>7, <2>8, <2>9, <2>10
<1>2. QED
  BY <1>1, InvHolds, PTL

(* However often the peer tries and whatever fails on the way, a try       *)
(* leaves one copy in a mailbox and one job for an address; without a      *)
(* failure there is one try, and a message refused with 550 is nowhere.    *)
THEOREM CopiesStayCounted == InboundSpec => []CopiesAreCounted
<1>1. ASSUME IInv PROVE CopiesAreCounted
  <2>1. /\ peer.try \in Nat /\ held \in Nat
        /\ copies \in [Boxes -> Nat] /\ jobs \in [Address -> Nat] /\ CountOK
    BY <1>1 DEF IInv, InboundTypeOK
  <2>2. /\ \A b \in Boxes : copies[b] \in Nat /\ copies[b] <= peer.try
        /\ \A a \in Address : jobs[a] <= peer.try
        /\ held <= peer.try
    <3>1. \A m, n, k \in Nat : m <= n /\ n <= k => m <= k
      OBVIOUS
    <3>2. \A b \in Boxes : copies[b] \in Nat /\ copies[b] <= peer.try
      BY <2>1, <3>1, FiniteTries DEF CountOK
    <3>3. \A a \in Address : jobs[a] <= peer.try
      BY <2>1, <3>1, FiniteTries DEF CountOK
    <3>4. held <= peer.try
      BY <2>1, <3>1, FiniteTries DEF CountOK
    <3>5. QED
      BY <3>2, <3>3, <3>4
  <2>3. OneCopyPerTry
    BY <2>2 DEF OneCopyPerTry
  <2>4. CleanRun
    <3> SUFFICES ASSUME budget.faults = 0
                 PROVE  /\ \A b \in Boxes : copies[b] <= 1
                        /\ \A t \in Tries : task[t].at = "permanent" =>
                             \A b \in Boxes : copies[b] = 0
      BY DEF CleanRun
    <3>1. OneTry
      BY <1>1 DEF IInv, CleanOK
    <3>2. \A b \in Boxes : copies[b] <= 1
      BY <2>1, <2>2, <3>1 DEF OneTry
    <3>3. QED
      BY <3>1, <3>2 DEF OneTry
  <2>5. QED
    BY <2>3, <2>4 DEF CopiesAreCounted
<1>2. QED
  BY <1>1, InvHolds, PTL
=============================================================================
