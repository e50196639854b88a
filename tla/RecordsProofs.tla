----------------------------- MODULE RecordsProofs -----------------------------
(***************************************************************************)
(* Theorems about what MCRecords checks on small instances: the push of    *)
(* changes, mail submission, bookings of rooms and retention, for any      *)
(* accounts, slots, requests, rooms, meetings, messages, tags and bounds.  *)
(* The four share no state; each has its part below.                       *)
(***************************************************************************)
EXTENDS JmapPush, JmapSubmission, RoomBooking, Retention, FiniteSetTheorems,
        SequenceTheorems, TLAPS

-----------------------------------------------------------------------------
(* JmapPush.  What holds at rest is not inductive.  The invariant says     *)
(* where the account of an announcement is until its state has been sent:  *)
(* noted with a timer, noted with a flush that has not taken the notes     *)
(* yet, taken by a flush that has not read it, or read, and read after the *)
(* announcement.                                                           *)

(* What each kind of connection can be at.                                 *)
KindInv ==
  /\ pushOnce => pushKind = "eventsource"
  /\ \A f \in PushSlots :
       /\ pushFlush[f].at = "resolve" => /\ pushKind # "eventsource"
                                         /\ pushFlush[f].got = NothingSent
       /\ pushFlush[f].all => pushKind = "websocket"
       /\ pushFlush[f].at = "resolve" /\ pushKind = "websocket" => pushFlush[f].todo = {}

(* An announcement is heard after its change.                              *)
HeardInv == \A a \in PushAccounts : pushHeard[a] <= pushState[a]

InNotes(a) ==
  /\ a \in pushDirty
  /\ \/ pushTimer
     \/ \E f \in PushSlots : /\ pushKind = "websocket"
                             /\ pushFlush[f].at = "resolve" /\ ~pushFlush[f].all

InFlush(a, f) ==
  /\ pushFlush[f].at # "idle"
  /\ a \in pushFlush[f].todo \/ pushFlush[f].got[a] >= pushHeard[a]

OnItsWay(a) == a \in pushLost \/ InNotes(a) \/ \E f \in PushSlots : InFlush(a, f)

WayInv ==
  pushOpen \/ pushKind # "eventsource" =>
    \A a \in PushAccounts : pushHeard[a] > pushSent[a] => OnItsWay(a)

PushInv == PushTypeOK /\ KindInv /\ HeardInv /\ WayInv

-----------------------------------------------------------------------------
LEMMA NoFlushType == NoFlush \in PushFlush /\ NothingSent \in [PushAccounts -> Nat]
BY DEF NoFlush, PushFlush, NothingSent

LEMMA PushInitInv == PushInit => PushInv
<1> SUFFICES ASSUME PushInit PROVE PushInv
  OBVIOUS
<1>1. PushTypeOK
  <2>1. /\ pushKind \in {"eventsource", "websocket", "webpush"}
        /\ pushOpen \in BOOLEAN /\ pushTimer \in BOOLEAN
        /\ pushDirty \subseteq PushAccounts /\ pushLost \subseteq PushAccounts
    BY DEF PushInit
  <2>2. pushOnce \in BOOLEAN
    BY Zenon DEF PushInit
  <2>3. /\ pushState \in [PushAccounts -> Nat] /\ pushNews \in [PushAccounts -> Nat]
        /\ pushSent \in [PushAccounts -> Nat] /\ pushHeard \in [PushAccounts -> Nat]
    BY NoFlushType DEF PushInit
  <2>4. pushFlush \in [PushSlots -> PushFlush]
    BY NoFlushType DEF PushInit
  <2>5. pushToggles \in 0..PushMaxToggles /\ pushFaults \in 0..PushMaxFaults
    BY PushAssumption DEF PushInit
  <2>6. QED
    BY <2>1, <2>2, <2>3, <2>4, <2>5 DEF PushTypeOK
<1>2. \A f \in PushSlots : /\ pushFlush[f].at = "idle" /\ ~pushFlush[f].all
  BY DEF PushInit, NoFlush
<1>3. KindInv
  BY <1>2 DEF PushInit, KindInv
<1>4. \A a \in PushAccounts : pushHeard[a] = 0 /\ pushSent[a] = 0 /\ pushState[a] = 1
  BY DEF PushInit, NothingSent
<1>5. QED
  BY <1>1, <1>3, <1>4 DEF PushInv, HeardInv, WayInv

(* A step on the flush f to the record rec keeps the types.                *)
LEMMA GoesType ==
  ASSUME PushTypeOK, NEW f \in PushSlots, NEW rec \in PushFlush, PushGoes(f, rec)
  PROVE  /\ pushFlush' \in [PushSlots -> PushFlush]
         /\ pushFlush'[f] = rec
         /\ \A g \in PushSlots \ {f} : pushFlush'[g] = pushFlush[g]
BY DEF PushTypeOK, PushGoes

LEMMA PushChangeInv ==
  ASSUME PushInv, NEW a \in PushAccounts, PushChange(a) \/ OnChange(a)
  PROVE  PushInv'
<1>0. PushTypeOK /\ KindInv /\ HeardInv /\ WayInv
  BY DEF PushInv
<1>1. CASE PushChange(a)
  <2>1. UNCHANGED <<pushKind, pushOpen, pushOnce, pushDirty, pushTimer, pushFlush, pushSent,
                    pushHeard, pushLost, pushToggles>>
    BY <1>1 DEF PushChange
  <2>2. pushState' \in [PushAccounts -> Nat] /\ \A b \in PushAccounts : pushState'[b] >= pushState[b]
    BY <1>0, <1>1 DEF PushChange, PushTypeOK
  <2>3. pushNews' \in [PushAccounts -> Nat] /\ pushFaults' \in 0..PushMaxFaults
    BY <1>0, <1>1, PushAssumption DEF PushChange, PushTypeOK, PushFault
  <2>4. PushTypeOK'
    BY <1>0, <2>1, <2>2, <2>3 DEF PushTypeOK
  <2>5. KindInv' /\ WayInv'
    BY <1>0, <2>1 DEF KindInv, WayInv, OnItsWay, InNotes, InFlush
  <2>6. HeardInv'
    BY <1>0, <2>1, <2>2 DEF HeardInv, PushTypeOK
  <2>7. QED
    BY <2>4, <2>5, <2>6 DEF PushInv
<1>2. CASE OnChange(a)
  <2>1. /\ UNCHANGED <<pushKind, pushOpen, pushOnce, pushState, pushFlush, pushSent, pushToggles,
                       pushFaults>>
        /\ pushNews' \in [PushAccounts -> Nat]
    BY <1>0, <1>2 DEF OnChange, PushTypeOK
  <2>2. CASE Listens
    <3>1. /\ pushDirty' = pushDirty \cup {a} /\ pushTimer' = TRUE
          /\ pushHeard' = [pushHeard EXCEPT ![a] = pushState[a]]
          /\ pushLost' = pushLost \ {a}
      BY <1>2, <2>2 DEF OnChange, Noted
    <3>2. PushTypeOK'
      BY <1>0, <2>1, <3>1 DEF PushTypeOK
    <3>3. KindInv'
      BY <1>0, <2>1 DEF KindInv
    <3>4. HeardInv'
      BY <1>0, <2>1, <3>1 DEF HeardInv, PushTypeOK
    <3>5. ASSUME pushOpen \/ pushKind # "eventsource", NEW b \in PushAccounts,
                 pushHeard'[b] > pushSent[b]
          PROVE  OnItsWay(b)'
      <4>1. CASE b = a
        BY <3>1, <4>1 DEF OnItsWay, InNotes
      <4>2. CASE b # a
        <5>1. pushHeard'[b] = pushHeard[b] /\ OnItsWay(b)
          BY <1>0, <3>1, <3>5, <4>2 DEF WayInv, PushTypeOK
        <5>2. QED
          BY <2>1, <3>1, <4>2, <5>1 DEF OnItsWay, InNotes, InFlush
      <4>3. QED
        BY <4>1, <4>2
    <3>6. WayInv'
      BY <2>1, <3>5 DEF WayInv
    <3>7. QED
      BY <3>2, <3>3, <3>4, <3>6 DEF PushInv
  <2>3. CASE ~Listens
    <3>1. UNCHANGED <<pushDirty, pushTimer, pushHeard, pushLost>>
      BY <1>2, <2>3 DEF OnChange
    <3>2. PushTypeOK'
      BY <1>0, <2>1, <3>1 DEF PushTypeOK
    <3>3. KindInv' /\ HeardInv' /\ WayInv'
      BY <1>0, <2>1, <3>1 DEF KindInv, HeardInv, WayInv, OnItsWay, InNotes, InFlush
    <3>4. QED
      BY <3>2, <3>3 DEF PushInv
  <2>4. QED
    BY <2>2, <2>3
<1>3. QED
  BY <1>1, <1>2

(* The timer fires: the notes go to a flush, wait for one that has begun   *)
(* to look up the accounts, or are lost to a client that has paused.       *)
LEMMA TimerInv ==
  ASSUME PushInv, NEW f \in PushSlots, TimerFires(f)
  PROVE  PushInv'
<1>0. PushTypeOK /\ KindInv /\ HeardInv /\ WayInv
  BY DEF PushInv
<1>1. /\ pushTimer /\ pushFlush[f].at = "idle" /\ pushTimer' = FALSE
      /\ UNCHANGED <<pushKind, pushOpen, pushOnce, pushState, pushNews, pushSent, pushHeard,
                     pushToggles, pushFaults>>
  BY DEF TimerFires
<1>2. CASE /\ pushKind = "websocket" /\ ~pushOpen
           /\ pushLost' = pushLost \cup pushDirty
           /\ UNCHANGED <<pushDirty, pushFlush>>
  <2>1. PushTypeOK'
    BY <1>0, <1>1, <1>2 DEF PushTypeOK
  <2>2. KindInv' /\ HeardInv'
    BY <1>0, <1>1, <1>2 DEF KindInv, HeardInv
  <2>3. WayInv'
    BY <1>0, <1>1, <1>2 DEF WayInv, OnItsWay, InNotes, InFlush
  <2>4. QED
    BY <2>1, <2>2, <2>3 DEF PushInv
<1>3. CASE \/ /\ pushKind = "websocket" /\ pushOpen
              /\ PushGoes(f, [NoFlush EXCEPT !.at = "resolve"])
              /\ UNCHANGED <<pushDirty, pushLost>>
           \/ /\ pushKind # "websocket"
              /\ PushGoes(f, [NoFlush EXCEPT !.todo = pushDirty, !.at = FirstAwait])
              /\ pushDirty' = {}
              /\ UNCHANGED pushLost
  <2>1. PICK rec \in PushFlush :
          /\ PushGoes(f, rec)
          /\ rec.at # "idle" /\ ~rec.all /\ rec.got = NothingSent
          /\ rec.at = "resolve" => pushKind # "eventsource"
          /\ pushKind = "websocket" => rec.at = "resolve" /\ rec.todo = {} /\ pushDirty' = pushDirty
          /\ pushKind # "websocket" => rec.todo = pushDirty /\ pushDirty' = {}
    <3>1. pushDirty \subseteq PushAccounts
      BY <1>0 DEF PushTypeOK
    <3>2. CASE pushKind = "websocket"
      <4> DEFINE r == [NoFlush EXCEPT !.at = "resolve"]
      <4>1. /\ r \in PushFlush /\ r.at = "resolve" /\ ~r.all /\ r.got = NothingSent /\ r.todo = {}
        BY NoFlushType DEF NoFlush, PushFlush
      <4>2. PushGoes(f, r) /\ pushDirty' = pushDirty
        BY <1>3, <3>2
      <4>3. QED
        BY <3>2, <4>1, <4>2
    <3>3. CASE pushKind # "websocket"
      <4> DEFINE r == [NoFlush EXCEPT !.todo = pushDirty, !.at = FirstAwait]
      <4>1. /\ r \in PushFlush /\ r.at # "idle" /\ ~r.all /\ r.got = NothingSent
            /\ r.todo = pushDirty /\ (r.at = "resolve" => pushKind # "eventsource")
        BY <3>1, NoFlushType DEF NoFlush, PushFlush, FirstAwait
      <4>2. PushGoes(f, r) /\ pushDirty' = {}
        BY <1>3, <3>3
      <4>3. QED
        BY <3>3, <4>1, <4>2
    <3>4. QED
      BY <3>2, <3>3
  <2>2. /\ pushFlush' \in [PushSlots -> PushFlush] /\ pushFlush'[f] = rec
        /\ \A g \in PushSlots \ {f} : pushFlush'[g] = pushFlush[g]
    BY <1>0, <2>1, GoesType
  <2>3. pushLost' = pushLost
    BY <1>3
  <2>4. PushTypeOK'
    BY <1>0, <1>1, <2>1, <2>2, <2>3 DEF PushTypeOK
  <2>5. KindInv' /\ HeardInv'
    BY <1>0, <1>1, <2>1, <2>2 DEF KindInv, HeardInv
  <2>6. ASSUME NEW a \in PushAccounts, OnItsWay(a) PROVE OnItsWay(a)'
    <3>1. ASSUME InNotes(a) PROVE OnItsWay(a)'
      <4>1. CASE pushKind = "websocket"
        BY <1>1, <2>1, <2>2, <3>1, <4>1 DEF OnItsWay, InNotes
      <4>2. CASE pushKind # "websocket"
        BY <1>1, <2>1, <2>2, <3>1, <4>2 DEF OnItsWay, InNotes, InFlush
      <4>3. QED
        BY <4>1, <4>2
    <3>2. ASSUME NEW g \in PushSlots, InFlush(a, g) PROVE OnItsWay(a)'
      <4>1. g # f
        BY <1>1, <3>2 DEF InFlush
      <4>2. QED
        BY <1>1, <2>2, <3>2, <4>1 DEF OnItsWay, InFlush
    <3>3. QED
      BY <2>3, <2>6, <3>1, <3>2 DEF OnItsWay
  <2>7. WayInv'
    BY <1>0, <1>1, <2>6 DEF WayInv
  <2>8. QED
    BY <2>4, <2>5, <2>7 DEF PushInv
<1>4. QED
  BY <1>2, <1>3 DEF TimerFires

(* A flush moves on: f becomes rec, what it had to read it still has or    *)
(* has read by now, and nothing else of what is on its way is disturbed.   *)
LEMMA FlushGoesInv ==
  ASSUME PushInv, NEW f \in PushSlots, NEW rec \in PushFlush, PushGoes(f, rec),
         pushFlush[f].at # "idle", rec.at = "read", rec.all = pushFlush[f].all,
         UNCHANGED <<pushKind, pushOpen, pushOnce, pushState, pushNews, pushTimer, pushSent,
                     pushHeard, pushLost, pushToggles, pushFaults>>,
         pushDirty' \subseteq pushDirty,
         \A a \in PushAccounts : a \in pushDirty /\ a \notin pushDirty' => a \in rec.todo,
         \A a \in PushAccounts : InFlush(a, f) =>
             a \in rec.todo \/ rec.got[a] >= pushHeard[a],
         \A a \in PushAccounts : a \in pushDirty => a \in rec.todo \/ pushFlush[f].at = "read"
                                                    \/ pushFlush[f].all \/ pushKind # "websocket"
  PROVE  PushInv'
<1>0. PushTypeOK /\ KindInv /\ HeardInv /\ WayInv
  BY DEF PushInv
<1>1. /\ pushFlush' \in [PushSlots -> PushFlush] /\ pushFlush'[f] = rec
      /\ \A g \in PushSlots \ {f} : pushFlush'[g] = pushFlush[g]
  BY <1>0, GoesType
<1>2. PushTypeOK'
  BY <1>0, <1>1 DEF PushTypeOK
<1>3. KindInv' /\ HeardInv'
  BY <1>0, <1>1 DEF KindInv, HeardInv
<1>4. ASSUME NEW a \in PushAccounts, OnItsWay(a) PROVE OnItsWay(a)'
  <2>1. ASSUME a \in rec.todo PROVE OnItsWay(a)'
    BY <1>1, <2>1 DEF OnItsWay, InFlush
  <2>2. ASSUME NEW g \in PushSlots, InFlush(a, g) PROVE OnItsWay(a)'
    <3>1. CASE g = f
      BY <1>1, <2>2, <3>1 DEF OnItsWay, InFlush
    <3>2. CASE g # f
      BY <1>1, <2>2, <3>2 DEF OnItsWay, InFlush
    <3>3. QED
      BY <3>1, <3>2
  <2>3. ASSUME InNotes(a) PROVE OnItsWay(a)'
    <3>1. CASE a \notin rec.todo
      <4>1. a \in pushDirty'
        BY <2>3, <3>1 DEF InNotes
      <4>2. CASE pushTimer
        BY <4>1, <4>2 DEF OnItsWay, InNotes
      <4>3. ASSUME NEW g \in PushSlots, pushKind = "websocket",
                   pushFlush[g].at = "resolve", ~pushFlush[g].all
            PROVE  OnItsWay(a)'
        <5>1. g # f
          BY <2>3, <3>1, <4>3 DEF InNotes
        <5>2. QED
          BY <1>1, <4>1, <4>3, <5>1 DEF OnItsWay, InNotes
      <4>4. QED
        BY <2>3, <4>2, <4>3 DEF InNotes
    <3>2. QED
      BY <2>1, <3>1
  <2>4. QED
    BY <1>4, <2>2, <2>3 DEF OnItsWay
<1>5. WayInv'
  BY <1>0, <1>4 DEF WayInv
<1>6. QED
  BY <1>2, <1>3, <1>5 DEF PushInv

(* A flush ends without sending: what it had is lost, or there was nothing *)
(* to say, and so is what it would have taken.                             *)
LEMMA FlushEndsInv ==
  ASSUME PushInv, NEW f \in PushSlots, PushGoes(f, NoFlush),
         UNCHANGED <<pushKind, pushOpen, pushOnce, pushState, pushNews, pushDirty, pushTimer,
                     pushSent, pushHeard, pushToggles>>,
         pushFaults' \in 0..PushMaxFaults,
         pushLost \subseteq pushLost', pushLost' \subseteq PushAccounts,
         \A a \in PushAccounts : InFlush(a, f) => a \in pushLost' \/ 0 >= pushHeard[a],
         \A a \in PushAccounts : a \in pushDirty =>
             a \in pushLost' \/ pushTimer \/ pushFlush[f].all \/ pushKind # "websocket"
                  \/ pushFlush[f].at # "resolve"
  PROVE  PushInv'
<1>0. PushTypeOK /\ KindInv /\ HeardInv /\ WayInv
  BY DEF PushInv
<1>1. /\ pushFlush' \in [PushSlots -> PushFlush] /\ pushFlush'[f] = NoFlush
      /\ \A g \in PushSlots \ {f} : pushFlush'[g] = pushFlush[g]
  BY <1>0, GoesType, NoFlushType
<1>2. NoFlush.at = "idle" /\ ~NoFlush.all
  BY DEF NoFlush
<1>3. PushTypeOK'
  BY <1>0, <1>1 DEF PushTypeOK
<1>4. KindInv' /\ HeardInv'
  BY <1>0, <1>1, <1>2 DEF KindInv, HeardInv
<1>5. ASSUME NEW a \in PushAccounts, pushHeard[a] > pushSent[a], OnItsWay(a) PROVE OnItsWay(a)'
  <2>1. ~(0 >= pushHeard[a])
    BY <1>0, <1>5 DEF PushTypeOK
  <2>2. ASSUME NEW g \in PushSlots, InFlush(a, g) PROVE OnItsWay(a)'
    <3>1. CASE g = f
      BY <2>1, <2>2, <3>1 DEF OnItsWay
    <3>2. CASE g # f
      BY <1>1, <2>2, <3>2 DEF OnItsWay, InFlush
    <3>3. QED
      BY <3>1, <3>2
  <2>3. ASSUME InNotes(a), a \notin pushLost' PROVE OnItsWay(a)'
    <3>1. CASE pushTimer
      BY <2>3, <3>1 DEF OnItsWay, InNotes
    <3>2. ASSUME NEW g \in PushSlots, pushKind = "websocket", pushFlush[g].at = "resolve",
                 ~pushFlush[g].all, ~pushTimer
          PROVE  OnItsWay(a)'
      <4>1. g # f
        BY <2>3, <3>2 DEF InNotes
      <4>2. QED
        BY <1>1, <2>3, <3>2, <4>1 DEF OnItsWay, InNotes
    <3>3. QED
      BY <2>3, <3>1, <3>2 DEF InNotes
  <2>4. QED
    BY <1>5, <2>2, <2>3 DEF OnItsWay
<1>6. WayInv'
  BY <1>0, <1>5 DEF WayInv
<1>7. QED
  BY <1>3, <1>4, <1>6 DEF PushInv

LEMMA ResolveInv ==
  ASSUME PushInv, NEW f \in PushSlots, Resolve(f)
  PROVE  PushInv'
<1>0. PushTypeOK /\ KindInv /\ HeardInv /\ WayInv
  BY DEF PushInv
<1>1. /\ pushFlush[f].at = "resolve" /\ pushFlush[f] \in PushFlush
      /\ pushFlush[f].got = NothingSent /\ pushDirty \subseteq PushAccounts
      /\ UNCHANGED <<pushKind, pushOpen, pushOnce, pushState, pushNews, pushTimer, pushSent,
                     pushHeard, pushToggles, pushFaults>>
  BY <1>0 DEF Resolve, PushTypeOK, KindInv
<1>2. CASE /\ pushFlush[f].all
           /\ PushGoes(f, [pushFlush[f] EXCEPT !.at = "read", !.todo = PushAccounts])
           /\ UNCHANGED <<pushDirty, pushLost>>
  <2> DEFINE rec == [pushFlush[f] EXCEPT !.at = "read", !.todo = PushAccounts]
  <2>1. /\ rec \in PushFlush /\ rec.at = "read" /\ rec.all = pushFlush[f].all
        /\ rec.todo = PushAccounts
    BY <1>1 DEF PushFlush
  <2>2. PushGoes(f, rec) /\ pushDirty' = pushDirty /\ pushLost' = pushLost
    BY <1>2
  <2> HIDE DEF rec
  <2>3. QED
    BY <1>1, <2>1, <2>2, FlushGoesInv
<1>3. CASE /\ pushKind = "websocket" /\ ~pushFlush[f].all
           /\ PushGoes(f, [pushFlush[f] EXCEPT !.at = "read", !.todo = PushTaken])
           /\ pushDirty' = {}
           /\ UNCHANGED pushLost
  <2> DEFINE rec == [pushFlush[f] EXCEPT !.at = "read", !.todo = PushTaken]
  <2>1. /\ rec \in PushFlush /\ rec.at = "read" /\ rec.all = pushFlush[f].all
        /\ rec.todo = pushDirty /\ rec.got = pushFlush[f].got
    BY <1>1 DEF PushFlush, PushTaken
  <2>2. PushGoes(f, rec) /\ pushDirty' = {} /\ pushLost' = pushLost
    BY <1>3
  <2>3. pushFlush[f].todo = {}
    BY <1>0, <1>1, <1>3 DEF KindInv
  <2>4. \A a \in PushAccounts : InFlush(a, f) => rec.got[a] >= pushHeard[a]
    BY <2>1, <2>3 DEF InFlush
  <2> HIDE DEF rec
  <2>5. QED
    BY <1>1, <2>1, <2>2, <2>4, FlushGoesInv
<1>4. CASE /\ pushKind = "webpush" /\ pushOpen
           /\ PushGoes(f, [pushFlush[f] EXCEPT !.at = "read"])
           /\ UNCHANGED <<pushDirty, pushLost>>
  <2> DEFINE rec == [pushFlush[f] EXCEPT !.at = "read"]
  <2>1. /\ rec \in PushFlush /\ rec.at = "read" /\ rec.all = pushFlush[f].all
        /\ rec.todo = pushFlush[f].todo /\ rec.got = pushFlush[f].got
    BY <1>1 DEF PushFlush
  <2>2. PushGoes(f, rec) /\ pushDirty' = pushDirty /\ pushLost' = pushLost
    BY <1>4
  <2>3. \A a \in PushAccounts : InFlush(a, f) => a \in rec.todo \/ rec.got[a] >= pushHeard[a]
    BY <2>1 DEF InFlush
  <2>4. pushKind # "websocket"
    BY <1>4
  <2> HIDE DEF rec
  <2>5. QED
    BY <1>1, <2>1, <2>2, <2>3, <2>4, FlushGoesInv
<1>5. CASE /\ pushKind = "webpush" /\ ~pushOpen
           /\ PushGoes(f, NoFlush)
           /\ pushLost' = pushLost \cup pushFlush[f].todo
           /\ UNCHANGED pushDirty
  <2>1. \A a \in PushAccounts : InFlush(a, f) => a \in pushLost' \/ 0 >= pushHeard[a]
    BY <1>1, <1>5 DEF InFlush, NothingSent
  <2>2. pushLost \subseteq pushLost' /\ pushLost' \subseteq PushAccounts
    BY <1>0, <1>1, <1>5 DEF PushTypeOK, PushFlush
  <2>3. pushKind # "websocket" /\ pushDirty' = pushDirty
    BY <1>5
  <2>4. pushFaults' \in 0..PushMaxFaults
    BY <1>0, <1>1 DEF PushTypeOK
  <2>5. QED
    BY <1>1, <1>5, <2>1, <2>2, <2>3, <2>4, FlushEndsInv
<1>6. QED
  BY <1>2, <1>3, <1>4, <1>5 DEF Resolve

LEMMA ReadAccountInv ==
  ASSUME PushInv, NEW f \in PushSlots, NEW a \in PushAccounts, ReadAccount(f, a)
  PROVE  PushInv'
<1>0. PushTypeOK /\ KindInv /\ HeardInv /\ WayInv
  BY DEF PushInv
<1> DEFINE rec == [pushFlush[f] EXCEPT !.todo = @ \ {a}, !.got[a] = pushState[a]]
<1>1. /\ pushFlush[f].at = "read" /\ a \in pushFlush[f].todo /\ pushFlush[f] \in PushFlush
      /\ PushGoes(f, rec)
      /\ UNCHANGED <<pushKind, pushOpen, pushOnce, pushState, pushNews, pushDirty, pushTimer,
                     pushSent, pushHeard, pushLost, pushToggles, pushFaults>>
  BY <1>0 DEF ReadAccount, PushTypeOK
<1>2. pushState[a] \in Nat /\ pushState[a] >= pushHeard[a]
  BY <1>0 DEF PushTypeOK, HeardInv
<1>3. /\ rec \in PushFlush /\ rec.at = "read" /\ rec.all = pushFlush[f].all
      /\ rec.todo = pushFlush[f].todo \ {a}
      /\ rec.got = [pushFlush[f].got EXCEPT ![a] = pushState[a]]
  BY <1>1, <1>2 DEF PushFlush
<1>4. \A b \in PushAccounts : InFlush(b, f) => b \in rec.todo \/ rec.got[b] >= pushHeard[b]
  BY <1>1, <1>2, <1>3 DEF InFlush, PushFlush
<1> HIDE DEF rec
<1>5. QED
  BY <1>1, <1>3, <1>4, FlushGoesInv

(* All is read: what is sent is no older than what was heard, or the       *)
(* account is on its way otherwise.                                        *)
LEMMA PushSendsInv ==
  ASSUME PushInv, NEW f \in PushSlots, PushSends(f)
  PROVE  PushInv'
<1>0. PushTypeOK /\ KindInv /\ HeardInv /\ WayInv
  BY DEF PushInv
<1>1. /\ pushFlush[f].at = "read" /\ pushFlush[f].todo = {} /\ pushFlush[f] \in PushFlush
      /\ PushGoes(f, NoFlush) /\ pushSent' = Newest(f)
      /\ UNCHANGED <<pushKind, pushOnce, pushState, pushNews, pushDirty, pushHeard, pushLost,
                     pushToggles, pushFaults>>
  BY <1>0 DEF PushSends, PushTypeOK
<1>2. /\ pushFlush' \in [PushSlots -> PushFlush] /\ pushFlush'[f] = NoFlush
      /\ \A g \in PushSlots \ {f} : pushFlush'[g] = pushFlush[g]
  BY <1>0, <1>1, GoesType, NoFlushType
<1>3. /\ pushSent' \in [PushAccounts -> Nat]
      /\ \A a \in PushAccounts : pushSent'[a] >= pushSent[a]
      /\ \A a \in PushAccounts : pushSent'[a] >= pushFlush[f].got[a]
  BY <1>0, <1>1 DEF Newest, PushTypeOK, PushFlush
<1>4. pushOpen' \in BOOLEAN /\ pushTimer' \in BOOLEAN
  BY <1>0, Zenon DEF PushSends, PushTypeOK
<1>5. PushTypeOK'
  BY <1>0, <1>1, <1>2, <1>3, <1>4 DEF PushTypeOK
<1>6. NoFlush.at = "idle" /\ ~NoFlush.all
  BY DEF NoFlush
<1>7. KindInv' /\ HeardInv'
  BY <1>0, <1>1, <1>2, <1>6 DEF KindInv, HeardInv
<1>8. CASE pushOnce /\ pushFlush[f].got # NothingSent
  <2>1. ~pushOpen' /\ pushKind' = "eventsource"
    BY <1>0, <1>1, <1>8 DEF PushSends, KindInv
  <2>2. WayInv'
    BY <2>1 DEF WayInv
  <2>3. QED
    BY <1>5, <1>7, <2>2 DEF PushInv
<1>9. CASE ~(pushOnce /\ pushFlush[f].got # NothingSent)
  <2>1. UNCHANGED <<pushOpen, pushTimer>>
    BY <1>9 DEF PushSends
  <2>2. ASSUME pushOpen \/ pushKind # "eventsource", NEW a \in PushAccounts,
               pushHeard[a] > pushSent'[a]
        PROVE  OnItsWay(a)'
    <3>1. /\ pushSent[a] \in Nat /\ pushSent'[a] \in Nat /\ pushHeard[a] \in Nat
          /\ pushFlush[f].got[a] \in Nat
      BY <1>0, <1>1, <1>3 DEF PushTypeOK, PushFlush
    <3>2. pushHeard[a] > pushSent[a]
      BY <1>3, <2>2, <3>1
    <3>3. OnItsWay(a)
      BY <1>0, <2>2, <3>2 DEF WayInv
    <3>4. ~(pushFlush[f].got[a] >= pushHeard[a])
      BY <1>3, <2>2, <3>1
    <3>5. ~InFlush(a, f)
      BY <1>1, <3>4 DEF InFlush
    <3>6. ASSUME InNotes(a) PROVE InNotes(a)'
      BY <1>1, <1>2, <2>1, <3>6 DEF InNotes
    <3>7. ASSUME NEW g \in PushSlots, InFlush(a, g) PROVE InFlush(a, g)'
      BY <1>1, <1>2, <3>5, <3>7 DEF InFlush
    <3>8. QED
      BY <1>1, <3>3, <3>6, <3>7 DEF OnItsWay
  <2>3. WayInv'
    BY <1>1, <2>1, <2>2 DEF WayInv
  <2>4. QED
    BY <1>5, <1>7, <2>3 DEF PushInv
<1>10. QED
  BY <1>8, <1>9

LEMMA PushFailsInv ==
  ASSUME PushInv, NEW f \in PushSlots, PushFails(f)
  PROVE  PushInv'
<1>0. PushTypeOK /\ KindInv /\ HeardInv /\ WayInv
  BY DEF PushInv
<1>1. /\ pushFlush[f].at # "idle" /\ pushFlush[f] \in PushFlush
      /\ PushGoes(f, NoFlush) /\ pushLost' = pushLost \cup Forgone(f)
      /\ UNCHANGED <<pushKind, pushOpen, pushOnce, pushState, pushNews, pushDirty, pushTimer,
                     pushSent, pushHeard, pushToggles>>
  BY <1>0 DEF PushFails, PushTypeOK
<1>2. pushFaults' \in 0..PushMaxFaults
  BY <1>0, PushAssumption DEF PushFails, PushFault, PushTypeOK
<1>3. pushLost \subseteq pushLost' /\ pushLost' \subseteq PushAccounts
  BY <1>0, <1>1 DEF Forgone, PushTypeOK, PushFlush
<1>4. CASE pushKind = "websocket" /\ pushFlush[f].at = "resolve"
  <2>1. pushFlush[f].todo = {} /\ pushFlush[f].got = NothingSent
    BY <1>0, <1>4 DEF KindInv
  <2>2. \A a \in PushAccounts : InFlush(a, f) => a \in pushLost' \/ 0 >= pushHeard[a]
    BY <2>1 DEF InFlush, NothingSent
  <2>3. \A a \in PushAccounts : a \in pushDirty =>
           a \in pushLost' \/ pushTimer \/ pushFlush[f].all
    BY <1>1, <1>4 DEF Forgone
  <2>4. QED
    BY <1>1, <1>2, <1>3, <2>2, <2>3, FlushEndsInv
<1>5. CASE ~(pushKind = "websocket" /\ pushFlush[f].at = "resolve")
  <2>1. \A a \in PushAccounts : InFlush(a, f) => a \in pushLost' \/ 0 >= pushHeard[a]
    <3>1. SUFFICES ASSUME NEW a \in PushAccounts, InFlush(a, f), a \notin pushLost'
                   PROVE  0 >= pushHeard[a]
      OBVIOUS
    <3>2. a \notin pushFlush[f].todo /\ ~(pushFlush[f].got[a] > 0)
      BY <1>1, <1>5, <3>1 DEF Forgone
    <3>3. pushFlush[f].got[a] \in Nat /\ pushHeard[a] \in Nat
      BY <1>0, <1>1 DEF PushTypeOK, PushFlush
    <3>4. QED
      BY <3>1, <3>2, <3>3 DEF InFlush
  <2>2. \A a \in PushAccounts : a \in pushDirty =>
           a \in pushLost' \/ pushTimer \/ pushFlush[f].all \/ pushKind # "websocket"
                \/ pushFlush[f].at # "resolve"
    BY <1>5
  <2>3. QED
    BY <1>1, <1>2, <1>3, <2>1, <2>2, FlushEndsInv
<1>6. QED
  BY <1>4, <1>5

LEMMA PushEnableInv ==
  ASSUME PushInv, NEW f \in PushSlots, PushEnable(f)
  PROVE  PushInv'
<1>0. PushTypeOK /\ KindInv /\ HeardInv /\ WayInv
  BY DEF PushInv
<1>1. /\ pushKind # "eventsource" /\ pushOpen' = TRUE
      /\ UNCHANGED <<pushKind, pushOnce, pushState, pushNews, pushDirty, pushTimer, pushSent,
                     pushHeard, pushLost, pushFaults>>
  BY DEF PushEnable
<1>2. pushToggles' \in 0..PushMaxToggles
  BY <1>0, PushAssumption DEF PushEnable, PushToggle, PushTypeOK
<1>3. CASE UNCHANGED pushFlush
  <2>1. PushTypeOK' /\ KindInv' /\ HeardInv'
    BY <1>0, <1>1, <1>2, <1>3 DEF PushTypeOK, KindInv, HeardInv
  <2>2. WayInv'
    BY <1>0, <1>1, <1>3 DEF WayInv, OnItsWay, InNotes, InFlush
  <2>3. QED
    BY <2>1, <2>2 DEF PushInv
<1>4. CASE /\ pushKind = "websocket" /\ pushFlush[f].at = "idle"
           /\ PushGoes(f, [NoFlush EXCEPT !.at = "resolve", !.all = TRUE])
  <2> DEFINE rec == [NoFlush EXCEPT !.at = "resolve", !.all = TRUE]
  <2>1. /\ rec \in PushFlush /\ rec.at = "resolve" /\ rec.all /\ rec.todo = {}
        /\ rec.got = NothingSent
    BY NoFlushType DEF NoFlush, PushFlush
  <2>2. PushGoes(f, rec) /\ pushKind = "websocket" /\ pushFlush[f].at = "idle"
    BY <1>4
  <2> HIDE DEF rec
  <2>3. /\ pushFlush' \in [PushSlots -> PushFlush] /\ pushFlush'[f] = rec
        /\ \A g \in PushSlots \ {f} : pushFlush'[g] = pushFlush[g]
    BY <1>0, <2>1, <2>2, GoesType
  <2>4. PushTypeOK'
    BY <1>0, <1>1, <1>2, <2>3 DEF PushTypeOK
  <2>5. KindInv' /\ HeardInv'
    BY <1>0, <1>1, <2>1, <2>2, <2>3 DEF KindInv, HeardInv
  <2>6. ASSUME NEW a \in PushAccounts, OnItsWay(a) PROVE OnItsWay(a)'
    <3>1. ASSUME InNotes(a) PROVE InNotes(a)'
      BY <1>1, <2>2, <2>3, <3>1 DEF InNotes
    <3>2. ASSUME NEW g \in PushSlots, InFlush(a, g) PROVE InFlush(a, g)'
      BY <1>1, <2>2, <2>3, <3>2 DEF InFlush
    <3>3. QED
      BY <1>1, <2>6, <3>1, <3>2 DEF OnItsWay
  <2>7. WayInv'
    BY <1>0, <1>1, <2>6 DEF WayInv
  <2>8. QED
    BY <2>4, <2>5, <2>7 DEF PushInv
<1>5. QED
  BY <1>3, <1>4 DEF PushEnable

LEMMA PushDisableInv == PushInv /\ PushDisable => PushInv'
<1> SUFFICES ASSUME PushInv, PushDisable PROVE PushInv'
  OBVIOUS
<1>0. PushTypeOK /\ KindInv /\ HeardInv /\ WayInv
  BY DEF PushInv
<1>1. /\ pushOpen' = FALSE
      /\ UNCHANGED <<pushKind, pushOnce, pushState, pushNews, pushDirty, pushFlush, pushSent,
                     pushHeard, pushLost, pushFaults>>
  BY DEF PushDisable
<1>2. pushToggles' \in 0..PushMaxToggles
  BY <1>0, PushAssumption DEF PushDisable, PushToggle, PushTypeOK
<1>3. pushTimer' \in BOOLEAN /\ (pushKind # "eventsource" => pushTimer' = pushTimer)
  BY <1>0, Zenon DEF PushDisable, PushTypeOK
<1>4. PushTypeOK' /\ KindInv' /\ HeardInv'
  BY <1>0, <1>1, <1>2, <1>3 DEF PushTypeOK, KindInv, HeardInv
<1>5. WayInv'
  BY <1>0, <1>1, <1>3 DEF WayInv, OnItsWay, InNotes, InFlush
<1>6. QED
  BY <1>4, <1>5 DEF PushInv

-----------------------------------------------------------------------------
LEMMA PushNextInv == PushInv /\ [PushNext]_pushVars => PushInv'
<1> SUFFICES ASSUME PushInv, [PushNext]_pushVars PROVE PushInv'
  OBVIOUS
<1>1. ASSUME NEW a \in PushAccounts, PushChange(a) \/ OnChange(a) PROVE PushInv'
  BY <1>1, PushChangeInv
<1>2. ASSUME NEW f \in PushSlots, TimerFires(f) PROVE PushInv'
  BY <1>2, TimerInv
<1>3. ASSUME NEW f \in PushSlots, Resolve(f) PROVE PushInv'
  BY <1>3, ResolveInv
<1>4. ASSUME NEW f \in PushSlots, NEW a \in PushAccounts, ReadAccount(f, a) PROVE PushInv'
  BY <1>4, ReadAccountInv
<1>5. ASSUME NEW f \in PushSlots, PushSends(f) PROVE PushInv'
  BY <1>5, PushSendsInv
<1>6. ASSUME NEW f \in PushSlots, PushFails(f) PROVE PushInv'
  BY <1>6, PushFailsInv
<1>7. ASSUME NEW f \in PushSlots, PushEnable(f) PROVE PushInv'
  BY <1>7, PushEnableInv
<1>8. CASE PushDisable
  BY <1>8, PushDisableInv
<1>9. CASE UNCHANGED pushVars
  BY <1>9 DEF PushInv, PushTypeOK, KindInv, HeardInv, WayInv, OnItsWay, InNotes, InFlush, pushVars
<1>10. QED
  BY <1>1, <1>2, <1>3, <1>4, <1>5, <1>6, <1>7, <1>8, <1>9 DEF PushNext

(* Timers, flushes and states read of a connection keep their types, for   *)
(* any accounts and any number of flushes side by side (push/).            *)
THEOREM PushTyped == PushSpec => []PushTypeOK
  <1>1. PushInv => PushTypeOK
    BY DEF PushInv
  <1> QED BY <1>1, PushInitInv, PushNextInv, PTL DEF PushSpec

(* At rest nothing is on its way, so all that was heard has been sent:     *)
(* whatever the timers, flushes and toggles did, an open connection with   *)
(* no timer and no flush has sent a state no older than the last           *)
(* announcement of each account whose note was not lost by a failure.      *)
THEOREM PushNothingForgotten == PushSpec => []NothingForgotten
<1>1. PushInv => NothingForgotten
  <2>1. SUFFICES ASSUME PushInv, AtRest, NEW a \in PushAccounts \ pushLost
                 PROVE  pushSent[a] >= pushHeard[a]
    BY DEF NothingForgotten
  <2>2. PushTypeOK /\ WayInv
    BY <2>1 DEF PushInv
  <2>3. pushSent[a] \in Nat /\ pushHeard[a] \in Nat
    BY <2>2 DEF PushTypeOK
  <2>4. ~InNotes(a) /\ \A f \in PushSlots : ~InFlush(a, f)
    BY <2>1 DEF AtRest, InNotes, InFlush
  <2>5. ~(pushHeard[a] > pushSent[a])
    BY <2>1, <2>2, <2>4 DEF AtRest, WayInv, OnItsWay
  <2>6. QED
    BY <2>3, <2>5
<1>2. QED
  BY <1>1, PushInitInv, PushNextInv, PTL DEF PushSpec


-----------------------------------------------------------------------------
(* JmapSubmission.  A job that is removed stays so and nobody holds it,    *)
(* because only a request that still has to enqueue may give the queue a   *)
(* job, and then it is the first request of all; a job there is has an     *)
(* object, or an answer, or a request that is about to save one.           *)

RemovedInv ==
  /\ ~subLate
  /\ subJob = "removed" => ~subWorker
  /\ "canceled" \in subTold => subJob = "removed"
  /\ \A t \in subTasks : t.at = "cancel" => subJob = "removed"

FirstInv ==
  /\ subActs = 0 => subTasks = {} /\ subTold = {} /\ subJob = "none"
  /\ \A t \in subTasks : t.at = "enqueue" => subTasks = {t} /\ subTold = {} /\ subJob = "none"

Known ==
  \/ "created" \in subTold \/ "notCreated" \in subTold
  \/ \E t \in subTasks : t.at = "save"

KnownInv ==
  /\ subSent \/ subWorker => subJob # "none"
  /\ subJob # "none" => Known
  /\ \A t \in subTasks : t.at \notin {"enqueue", "save"} => "created" \in subTold

SubInv == SubTypeOK /\ RemovedInv /\ FirstInv /\ KnownInv

LEMMA SubInitInv == SubInit => SubInv
  <1> SUFFICES ASSUME SubInit PROVE SubInv
    OBVIOUS
  <1>1. SubTypeOK
    <2>1. /\ 0 \in 0..SubMaxActs /\ 0 \in 0..SubMaxFaults
          /\ "none" \in SubJobStates /\ FALSE \in BOOLEAN
      BY SubAssumption DEF SubJobStates
    <2> QED BY <2>1 DEF SubInit, SubTypeOK
  <1>2. RemovedInv /\ FirstInv /\ KnownInv
    BY DEF SubInit, RemovedInv, FirstInv, KnownInv, Known
  <1> QED BY <1>1, <1>2 DEF SubInv

LEMMA SubBeginsType ==
  ASSUME SubTypeOK, NEW r \in SubRequests, NEW at \in {"enqueue", "getJob", "delete"},
         SubBegins(r, at)
  PROVE  /\ subTasks' \subseteq SubTask /\ \A t, u \in subTasks' : t.id = u.id => t = u
         /\ subActs' \in 0..SubMaxActs /\ subActs' # 0
         /\ \A t \in subTasks' : t \in subTasks \/ t.at = at
  <1> DEFINE new == [id |-> r, at |-> at]
  <1>1. /\ subTasks' = subTasks \cup {new} /\ \A t \in subTasks : t.id # r
        /\ new \in SubTask /\ new.id = r /\ new.at = at
    BY DEF SubBegins, SubTask
  <1>2. subActs' \in 0..SubMaxActs /\ subActs' # 0
    BY SubAssumption DEF SubBegins, SubTypeOK
  <1> HIDE DEF new
  <1> QED BY <1>1, <1>2 DEF SubTypeOK

LEMMA SubGoesType ==
  ASSUME SubTypeOK, NEW t \in subTasks, NEW at \in {"save", "remove", "cancel"},
         SubGoes(t, at)
  PROVE  /\ subTasks' \subseteq SubTask /\ \A u, v \in subTasks' : u.id = v.id => u = v
         /\ \E new \in subTasks' : new.at = at
         /\ \A u \in subTasks' : u \in subTasks \/ u.at = at
         /\ \A u \in subTasks : u = t \/ u \in subTasks'
  <1> DEFINE new == [t EXCEPT !.at = at]
  <1>1. t \in SubTask /\ t.id \in SubRequests
    BY DEF SubTypeOK, SubTask
  <1>2. new \in SubTask /\ new.id = t.id /\ new.at = at
    BY <1>1 DEF SubTask
  <1>3. subTasks' = (subTasks \ {t}) \cup {new}
    BY DEF SubGoes
  <1> HIDE DEF new
  <1> QED BY <1>2, <1>3 DEF SubTypeOK

LEMMA SubEndsType ==
  ASSUME SubTypeOK, NEW t \in subTasks, NEW answer, SubEnds(t, answer)
  PROVE  /\ subTasks' \subseteq SubTask /\ \A u, v \in subTasks' : u.id = v.id => u = v
         /\ subTasks' = subTasks \ {t}
         /\ subTold' = subTold \cup {answer}
  BY DEF SubEnds, SubTypeOK

LEMMA SubFaultType ==
  ASSUME SubTypeOK, SubFault
  PROVE  subFaults' \in 0..SubMaxFaults
  BY SubAssumption DEF SubTypeOK, SubFault

LEMMA SubAskInv ==
  ASSUME SubInv, NEW r \in SubRequests, AskCreate(r) \/ AskCancel(r) \/ AskDestroy(r)
  PROVE  SubInv'
  <1>0. SubTypeOK
    BY DEF SubInv
  <1>1. CASE AskCreate(r)
    <2>1. /\ SubBegins(r, "enqueue") /\ subActs = 0
          /\ UNCHANGED <<subJob, subWorker, subRow, subTold, subSent, subLate, subFaults>>
      BY <1>1 DEF AskCreate
    <2>2. /\ subTasks' \subseteq SubTask /\ \A t, u \in subTasks' : t.id = u.id => t = u
          /\ subActs' \in 0..SubMaxActs /\ subActs' # 0
          /\ \A t \in subTasks' : t \in subTasks \/ t.at = "enqueue"
      BY <1>0, <2>1, SubBeginsType
    <2>3. subTasks = {} /\ subTold = {} /\ subJob = "none"
      BY <2>1 DEF SubInv, FirstInv
    <2>4. \E t : subTasks' = {t}
      BY <2>1, <2>3 DEF SubBegins
    <2>5. SubTypeOK'
      BY <1>0, <2>1, <2>2 DEF SubTypeOK
    <2>6. RemovedInv' /\ FirstInv'
      BY <2>1, <2>2, <2>3, <2>4 DEF SubInv, RemovedInv, FirstInv
    <2>7. KnownInv'
      BY <2>1, <2>2, <2>3 DEF SubInv, KnownInv
    <2> QED BY <2>5, <2>6, <2>7 DEF SubInv
  <1>2. CASE "created" \in subTold /\ (SubBegins(r, "getJob") \/ SubBegins(r, "delete"))
             /\ UNCHANGED <<subJob, subWorker, subRow, subTold, subSent, subLate, subFaults>>
    <2>1. /\ subTasks' \subseteq SubTask /\ \A t, u \in subTasks' : t.id = u.id => t = u
          /\ subActs' \in 0..SubMaxActs /\ subActs' # 0
          /\ \A t \in subTasks' : t \in subTasks \/ t.at \in {"getJob", "delete"}
      BY <1>0, <1>2, SubBeginsType
    <2>2. \A t \in subTasks' : t.at # "enqueue"
      BY <1>2, <2>1 DEF SubInv, FirstInv
    <2>3. SubTypeOK'
      BY <1>0, <1>2, <2>1 DEF SubTypeOK
    <2>4. RemovedInv' /\ FirstInv'
      BY <1>2, <2>1, <2>2 DEF SubInv, RemovedInv, FirstInv
    <2>5. KnownInv'
      BY <1>2 DEF SubInv, KnownInv, Known
    <2> QED BY <2>3, <2>4, <2>5 DEF SubInv
  <1>3. CASE /\ "created" \in subTold /\ subActs < SubMaxActs
             /\ subTold' = subTold \cup {IF subRow = "none" THEN "notFound" ELSE "cannotUnsend"}
             /\ subActs' = subActs + 1
             /\ UNCHANGED subTasks
             /\ UNCHANGED <<subJob, subWorker, subRow, subSent, subLate, subFaults>>
    <2>1. SubTypeOK'
      BY <1>0, <1>3, SubAssumption DEF SubTypeOK
    <2>2. "canceled" \in subTold' <=> "canceled" \in subTold
      BY <1>3
    <2>3. subActs' # 0
      BY <1>0, <1>3, SubAssumption DEF SubTypeOK
    <2>4. RemovedInv' /\ FirstInv'
      BY <1>3, <2>2, <2>3 DEF SubInv, RemovedInv, FirstInv
    <2>5. KnownInv'
      BY <1>3 DEF SubInv, KnownInv, Known
    <2> QED BY <2>1, <2>4, <2>5 DEF SubInv
  <1> QED BY <1>1, <1>2, <1>3 DEF AskCancel, AskDestroy

(* A request ends, and may have written the object. *)
LEMMA SubAnswerInv ==
  ASSUME SubInv, NEW t \in subTasks, NEW answer, SubEnds(t, answer),
         UNCHANGED <<subJob, subWorker, subSent, subLate, subActs>>,
         subRow' \in {"none", "pending", "final", "canceled"},
         subFaults' \in 0..SubMaxFaults,
         answer \in {"created", "notCreated", "canceled", "cannotUnsend", "destroyed",
                     "serverFail"},
         answer = "canceled" => t.at = "cancel",
         t.at = "save" => answer \in {"created", "notCreated"}
  PROVE  SubInv'
  <1>1. SubTypeOK
    BY DEF SubInv
  <1>2. /\ subTasks' \subseteq SubTask /\ \A u, v \in subTasks' : u.id = v.id => u = v
        /\ subTasks' = subTasks \ {t}
        /\ subTold' = subTold \cup {answer}
    BY <1>1, SubEndsType
  <1>3. SubTypeOK'
    BY <1>1, <1>2 DEF SubTypeOK
  <1>4. RemovedInv'
    BY <1>2 DEF SubInv, RemovedInv
  <1>5. subActs # 0 /\ \A u \in subTasks' : u.at # "enqueue"
    BY <1>2 DEF SubInv, FirstInv
  <1>6. FirstInv'
    BY <1>5 DEF FirstInv
  <1>7. Known => Known'
    BY <1>2 DEF Known
  <1>8. KnownInv'
    BY <1>2, <1>7 DEF SubInv, KnownInv
  <1> QED BY <1>3, <1>4, <1>6, <1>8 DEF SubInv

LEMMA SubStepInv ==
  ASSUME SubInv, NEW t \in subTasks, SubStep(t)
  PROVE  SubInv'
  <1>0. SubTypeOK /\ t \in SubTask /\ RemovedInv /\ FirstInv /\ KnownInv
    BY DEF SubInv, SubTypeOK
  <1>1. CASE Enqueue(t)
    <2>1. /\ t.at = "enqueue" /\ subJob' \in {"delayed", "waiting"} /\ SubGoes(t, "save")
          /\ UNCHANGED <<subWorker, subRow, subTold, subSent, subLate, subActs, subFaults>>
      BY <1>1 DEF Enqueue
    <2>2. /\ subTasks' \subseteq SubTask /\ \A u, v \in subTasks' : u.id = v.id => u = v
          /\ \E new \in subTasks' : new.at = "save"
          /\ \A u \in subTasks' : u \in subTasks \/ u.at = "save"
      BY <1>0, <2>1, SubGoesType
    <2>3. subTasks = {t} /\ subTold = {} /\ subActs # 0
      BY <1>0, <2>1 DEF FirstInv
    <2>4. \A u \in subTasks' : u.at = "save"
      BY <2>1, <2>3 DEF SubGoes, SubTask, SubTypeOK, SubInv
    <2>5. SubTypeOK'
      BY <1>0, <2>1, <2>2 DEF SubTypeOK, SubJobStates
    <2>6. RemovedInv' /\ FirstInv'
      BY <1>0, <2>1, <2>3, <2>4 DEF RemovedInv, FirstInv
    <2>7. KnownInv'
      BY <2>1, <2>2, <2>4 DEF KnownInv, Known
    <2> QED BY <2>5, <2>6, <2>7 DEF SubInv
  <1>2. CASE SaveCreated(t)
    BY <1>0, <1>2, SubAnswerInv DEF SaveCreated, SubTypeOK
  <1>3. CASE GetJob(t) \/ (RemoveJob(t) /\ SubRemovable)
    <2>1. /\ t.at \in {"getJob", "remove"}
          /\ \/ SubGoes(t, "remove") /\ UNCHANGED subJob
             \/ SubGoes(t, "cancel") /\ subJob' = "removed" /\ subJob = "removed"
             \/ SubGoes(t, "cancel") /\ subJob' = "removed" /\ ~subWorker /\ t.at = "remove"
          /\ UNCHANGED <<subWorker, subRow, subTold, subSent, subLate, subActs, subFaults>>
      BY <1>3, Zenon DEF GetJob, RemoveJob, SubRemovable
    <2>2. /\ subTasks' \subseteq SubTask /\ \A u, v \in subTasks' : u.id = v.id => u = v
          /\ \A u \in subTasks' : u \in subTasks \/ u.at \in {"remove", "cancel"}
          /\ \A u \in subTasks : u = t \/ u \in subTasks'
          /\ SubGoes(t, "remove") => \A u \in subTasks' : u \in subTasks \/ u.at = "remove"
      BY <1>0, <2>1, SubGoesType
    <2>3. subActs # 0 /\ \A u \in subTasks : u.at # "enqueue"
      BY <1>0, <2>1 DEF FirstInv
    <2>4. SubTypeOK'
      BY <1>0, <2>1, <2>2 DEF SubTypeOK, SubJobStates
    <2>5. RemovedInv'
      BY <1>0, <2>1, <2>2 DEF RemovedInv
    <2>6. FirstInv'
      BY <2>1, <2>2, <2>3 DEF FirstInv
    <2>7. Known => Known'
      BY <2>1, <2>2 DEF Known
    <2>8. "created" \in subTold
      BY <1>0, <2>1 DEF KnownInv
    <2>9. KnownInv'
      BY <1>0, <2>1, <2>2, <2>7, <2>8 DEF KnownInv, Known
    <2> QED BY <2>4, <2>5, <2>6, <2>9 DEF SubInv
  <1>4. CASE RemoveJob(t) /\ ~SubRemovable
    <2>1. /\ t.at = "remove" /\ SubEnds(t, "cannotUnsend")
          /\ UNCHANGED <<subJob, subWorker, subRow, subSent, subLate, subActs, subFaults>>
      BY <1>4 DEF RemoveJob
    <2> QED BY <1>0, <2>1, SubAnswerInv DEF SubTypeOK
  <1>5. CASE SaveCanceled(t)
    BY <1>0, <1>5, SubAnswerInv DEF SaveCanceled, SubTypeOK
  <1>6. CASE DestroyRow(t)
    BY <1>0, <1>6, SubAnswerInv DEF DestroyRow, SubTypeOK
  <1>7. CASE SubFails(t)
    <2>1. /\ SubEnds(t, Refusal(t))
          /\ UNCHANGED <<subJob, subWorker, subSent, subLate, subActs>>
          /\ subRow' \in {subRow} \cup Halfway(t) /\ SubFault
      BY <1>7 DEF SubFails
    <2>2. subFaults' \in 0..SubMaxFaults
      BY <1>0, <2>1, SubFaultType
    <2>3. subRow' \in {"none", "pending", "final", "canceled"}
      BY <1>0, <2>1 DEF Halfway, SubTypeOK
    <2>4. /\ Refusal(t) \in {"notCreated", "serverFail", "cannotUnsend"}
          /\ t.at = "save" => Refusal(t) = "notCreated"
      BY DEF Refusal
    <2> QED BY <2>1, <2>2, <2>3, <2>4, SubAnswerInv
  <1> QED BY <1>1, <1>2, <1>3, <1>4, <1>5, <1>6, <1>7 DEF SubStep

LEMMA SubQueueInv ==
  ASSUME SubInv, SubDue \/ SubTaken \/ SubDelivers \/ SubOver \/ SubAdmin \/ SubExpires
  PROVE  SubInv'
  <1>0. SubTypeOK /\ RemovedInv /\ FirstInv /\ KnownInv
    BY DEF SubInv
  <1>1. UNCHANGED <<subTasks, subTold, subActs>>
    BY DEF SubDue, SubTaken, SubDelivers, SubOver, SubAdmin, SubExpires
  <1>2. SubTypeOK'
    <2>1. subFaults' \in 0..SubMaxFaults
      BY <1>0, SubFaultType
      DEF SubDue, SubTaken, SubDelivers, SubOver, SubAdmin, SubExpires, SubTypeOK
    <2>2. subJob' \in SubJobStates
      BY <1>0 DEF SubDue, SubTaken, SubDelivers, SubOver, SubAdmin, SubExpires, SubTypeOK,
                  SubJobStates
    <2>3. subWorker' \in BOOLEAN /\ subSent' \in BOOLEAN
      BY <1>0 DEF SubDue, SubTaken, SubDelivers, SubOver, SubAdmin, SubExpires, SubTypeOK
    <2>4. subLate' \in BOOLEAN
      BY <1>0, Zenon DEF SubDue, SubTaken, SubDelivers, SubOver, SubAdmin, SubExpires, SubTypeOK
    <2>5. subRow' \in {"none", "pending", "final", "canceled"}
      BY <1>0 DEF SubDue, SubTaken, SubDelivers, SubOver, SubAdmin, SubExpires, SubTypeOK
    <2> QED BY <1>0, <1>1, <2>1, <2>2, <2>3, <2>4, <2>5 DEF SubTypeOK
  <1>3. /\ subJob = "removed" => subJob' = "removed"
        /\ subJob = "none" <=> subJob' = "none"
        /\ subWorker' => subJob' # "removed"
        /\ ~subLate'
    <2>1. CASE SubDue
      BY <1>0, <2>1 DEF SubDue, RemovedInv
    <2>2. CASE SubTaken
      BY <1>0, <2>2 DEF SubTaken, RemovedInv
    <2>3. CASE SubDelivers
      BY <1>0, <2>3 DEF SubDelivers, RemovedInv
    <2>4. CASE SubOver
      BY <1>0, <2>4 DEF SubOver, RemovedInv, KnownInv
    <2>5. CASE SubAdmin
      BY <1>0, <2>5 DEF SubAdmin, RemovedInv
    <2>6. CASE SubExpires
      BY <1>0, <2>6 DEF SubExpires, RemovedInv
    <2> QED BY <2>1, <2>2, <2>3, <2>4, <2>5, <2>6
  <1>4. RemovedInv' /\ FirstInv'
    BY <1>0, <1>1, <1>3 DEF RemovedInv, FirstInv
  <1>5. subSent' => subSent \/ subWorker
    BY DEF SubDue, SubTaken, SubDelivers, SubOver, SubAdmin, SubExpires
  <1>6. subWorker' => subWorker \/ subJob # "none"
    BY DEF SubDue, SubTaken, SubDelivers, SubOver, SubAdmin, SubExpires
  <1>7. KnownInv'
    BY <1>0, <1>1, <1>3, <1>5, <1>6 DEF KnownInv, Known
  <1> QED BY <1>2, <1>4, <1>7 DEF SubInv

LEMMA SubNextInv == SubInv /\ [SubNext]_subVars => SubInv'
  <1>1. SubInv /\ UNCHANGED subVars => SubInv'
    BY DEF SubInv, SubTypeOK, RemovedInv, FirstInv, KnownInv, Known, subVars
  <1> QED BY <1>1, SubAskInv, SubStepInv, SubQueueInv DEF SubNext

(* The object in Redis, its job and the requests keep their types, for any *)
(* number of requests and failures (methods/submission.ts).                *)
THEOREM SubmissionTyped == SubSpec => []SubTypeOK
  <1>1. SubInv => SubTypeOK
    BY DEF SubInv
  <1> QED BY <1>1, SubInitInv, SubNextInv, PTL DEF SubSpec

(* What the client of a submission was told of it holds, for any number of *)
(* requests at a time and of failures: nothing goes out once it is taken   *)
(* back, and what goes out the client knows or can know of.                *)
THEOREM SubmissionsAlwaysTrue == SubSpec => []SubmissionsAreTrue
  <1>1. SubInv => SubmissionsAreTrue
    BY DEF SubInv, RemovedInv, KnownInv, Known, SubmissionsAreTrue, TakenBackStays, SentIsKnown
  <1> QED BY <1>1, SubInitInv, SubNextInv, PTL DEF SubSpec

-----------------------------------------------------------------------------
(* RoomBooking.  A handler that has checked a room and has not written yet *)
(* still is right, or it counts as raced; a meeting for which a request is *)
(* in work is not among the cancelled ones.                                *)

StageInv ==
  \A k \in roomTasks :
    /\ k.at = "delete" => k.cancel
    /\ k.at \in {"pend", "check", "decline", "accept"} => ~k.cancel

CheckedInv ==
  \A k \in roomTasks : k.at = "accept" /\ k.basis = "checked" => ~Conflict(k)

AskedInv == \A k \in roomTasks : ~k.cancel => k.uid \notin cancelled

RoomInv == RoomTypeOK /\ StageInv /\ CheckedInv /\ AskedInv /\ OverlapIsExplained /\ CancelledIsFree

LEMMA RoomInitInv == RoomInit => RoomInv
  <1> SUFFICES ASSUME RoomInit PROVE RoomInv
    OBVIOUS
  <1>1. 0 \in 0..RoomMaxActs /\ 0 \in 0..RoomMaxEdits
    BY RoomAssumption
  <1>2. RoomTypeOK
    BY <1>1 DEF RoomInit, RoomTypeOK
  <1>3. StageInv /\ CheckedInv /\ AskedInv /\ OverlapIsExplained /\ CancelledIsFree
    BY DEF RoomInit, StageInv, CheckedInv, AskedInv, OverlapIsExplained, CancelledIsFree
  <1> QED BY <1>2, <1>3 DEF RoomInv

LEMMA RestOfList ==
  ASSUME NEW S, NEW q \in Seq(S) \ {<<>>}
  PROVE  Head(q) \in S /\ (Len(q) # 1 => Tail(q) \in Seq(S) \ {<<>>})
  <1>1. q \in Seq(S) /\ Len(q) \in Nat /\ Len(q) # 0
    BY EmptySeq
  <1>2. Head(q) \in S
    BY <1>1, HeadTailProperties
  <1>3. Tail(q) \in Seq(S) /\ Len(Tail(q)) = Len(q) - 1
    BY <1>1, HeadTailProperties
  <1>4. Len(q) # 1 => Tail(q) # <<>>
    <2>1. SUFFICES ASSUME Len(q) # 1, Tail(q) = <<>> PROVE FALSE
      OBVIOUS
    <2>2. Len(Tail(q)) = 0
      BY <2>1, EmptySeq
    <2>3. \A n \in Nat : n - 1 = 0 => n = 1
      OBVIOUS
    <2>4. Len(q) - 1 = 0
      BY <1>3, <2>2
    <2> QED BY <1>1, <2>1, <2>3, <2>4
  <1> QED BY <1>2, <1>3, <1>4

(* Handlers by their identity. *)
OneEach(tasks) == tasks \subseteq RoomTask /\ \A j, k \in tasks : j.id = k.id => j = k

Follows(j, k) == j.id = k.id /\ j.cancel = k.cancel /\ j.uid = k.uid /\ j.time = k.time

LEMMA OnwardTyped ==
  ASSUME RoomTypeOK, NEW k \in roomTasks
  PROVE  /\ OneEach(Onward(k))
         /\ \A j \in Onward(k) : j \in roomTasks \/ (j.at = "find" /\ Follows(j, k))
  <1>1. k \in RoomTask /\ k.todo \in Seq(RoomIds) \ {<<>>}
    BY DEF RoomTypeOK, RoomTask
  <1>2. CASE Len(k.todo) = 1
    BY <1>2 DEF Onward, RoomTypeOK, OneEach
  <1>3. CASE Len(k.todo) # 1
    <2> DEFINE new == [k EXCEPT !.at = "find", !.basis = "none", !.todo = Tail(k.todo)]
    <2>1. Tail(k.todo) \in Seq(RoomIds) \ {<<>>}
      BY <1>1, <1>3, RestOfList
    <2>2. new \in RoomTask /\ new.id = k.id /\ new.at = "find" /\ Follows(new, k)
      BY <1>1, <2>1 DEF RoomTask, Basis, Follows
    <2>3. Onward(k) = (roomTasks \ {k}) \cup {new}
      BY <1>3 DEF Onward
    <2> HIDE DEF new
    <2> QED BY <2>2, <2>3 DEF RoomTypeOK, OneEach
  <1> QED BY <1>2, <1>3

LEMMA TaskGoesTyped ==
  ASSUME RoomTypeOK, NEW k \in roomTasks, NEW basis \in Basis,
         NEW at \in {"delete", "pend", "check", "decline", "accept"},
         TaskGoes(k, at, basis)
  PROVE  /\ OneEach(roomTasks')
         /\ \A j \in roomTasks' :
              \/ j \in roomTasks
              \/ j.at = at /\ j.basis = basis /\ j.todo = k.todo /\ Follows(j, k)
  <1> DEFINE new == [k EXCEPT !.at = at, !.basis = basis]
  <1>1. k \in RoomTask
    BY DEF RoomTypeOK
  <1>2. /\ new \in RoomTask /\ new.id = k.id /\ Follows(new, k)
        /\ new.at = at /\ new.basis = basis /\ new.todo = k.todo
    BY <1>1 DEF RoomTask, Follows
  <1>3. roomTasks' = (roomTasks \ {k}) \cup {new}
    BY DEF TaskGoes
  <1> HIDE DEF new
  <1> QED BY <1>2, <1>3 DEF RoomTypeOK, OneEach

LEMMA RaceTyped ==
  ASSUME NEW tasks, OneEach(tasks), NEW rooms
  PROVE  /\ OneEach(Race(tasks, rooms))
         /\ \A j \in Race(tasks, rooms) :
              \E i \in tasks :
                /\ Follows(j, i) /\ j.at = i.at
                /\ j.at = "accept" /\ j.basis = "checked" => j = i /\ Head(j.todo) \notin rooms
  <1> DEFINE raced(i) == i.at = "accept" /\ i.basis = "checked" /\ Head(i.todo) \in rooms
             to(i) == IF raced(i) THEN [i EXCEPT !.basis = "raced"] ELSE i
  <1>1. Race(tasks, rooms) = {to(i) : i \in tasks}
    BY DEF Race
  <1>2. ASSUME NEW i \in tasks
        PROVE  /\ to(i) \in RoomTask /\ Follows(to(i), i) /\ to(i).at = i.at
               /\ to(i).at = "accept" /\ to(i).basis = "checked" =>
                    to(i) = i /\ Head(to(i).todo) \notin rooms
    <2>1. i \in RoomTask
      BY DEF OneEach
    <2>2. CASE raced(i)
      <3>1. to(i) = [i EXCEPT !.basis = "raced"]
        BY <2>2
      <3> QED BY <2>1, <3>1 DEF RoomTask, Basis, Follows
    <2>3. CASE ~raced(i)
      <3>1. to(i) = i
        BY <2>3
      <3> QED BY <2>1, <2>3, <3>1 DEF Follows
    <2> QED BY <2>2, <2>3
  <1> HIDE DEF to
  <1>3. ASSUME NEW a \in Race(tasks, rooms), NEW b \in Race(tasks, rooms), a.id = b.id
        PROVE  a = b
    <2>1. PICK i \in tasks : a = to(i)
      BY <1>1
    <2>2. PICK j \in tasks : b = to(j)
      BY <1>1
    <2>3. i.id = j.id
      BY <1>2, <1>3, <2>1, <2>2 DEF Follows
    <2> QED BY <2>1, <2>2, <2>3 DEF OneEach
  <1>4. ASSUME NEW a \in Race(tasks, rooms)
        PROVE  /\ a \in RoomTask
               /\ \E i \in tasks :
                    /\ Follows(a, i) /\ a.at = i.at
                    /\ a.at = "accept" /\ a.basis = "checked" => a = i /\ Head(a.todo) \notin rooms
    <2>1. PICK i \in tasks : a = to(i)
      BY <1>1
    <2> QED BY <1>2, <2>1
  <1> QED BY <1>3, <1>4 DEF OneEach

(* The meeting has one row afterwards, which is right if it was checked.   *)
LEMMA WrittenIsOne ==
  ASSUME RoomTypeOK, NEW k \in roomTasks, NEW status \in {"ACCEPTED", "DECLINED", "PENDING"}
  PROVE  \E b \in Booking :
           /\ Written(k, status) = {b}
           /\ b.uid = k.uid /\ b.time = k.time /\ b.status = status
           /\ b.room = Head(k.todo) => b.basis = k.basis
           /\ b.room # Head(k.todo) => b.basis = "elsewhere"
  <1> DEFINE Goal == \E b \in Booking :
           /\ Written(k, status) = {b}
           /\ b.uid = k.uid /\ b.time = k.time /\ b.status = status
           /\ b.room = Head(k.todo) => b.basis = k.basis
           /\ b.room # Head(k.todo) => b.basis = "elsewhere"
  <1>1. k \in RoomTask /\ k.todo \in Seq(RoomIds) \ {<<>>}
    BY DEF RoomTypeOK, RoomTask
  <1>2. Head(k.todo) \in RoomIds /\ k.uid \in Meetings /\ k.time \in RoomTimes /\ k.basis \in Basis
    BY <1>1, RestOfList DEF RoomTask
  <1>3. CASE Rows(k) = {}
    <2> DEFINE b == [uid |-> k.uid, room |-> Head(k.todo), time |-> k.time, status |-> status,
                     basis |-> k.basis]
    <2>1. b \in Booking
      BY <1>2 DEF Booking
    <2>2. /\ Written(k, status) = {b}
          /\ b.uid = k.uid /\ b.time = k.time /\ b.status = status
          /\ b.room = Head(k.todo) /\ b.basis = k.basis
      BY <1>3 DEF Written
    <2> HIDE DEF b
    <2> QED BY <2>1, <2>2
  <1>4. CASE Rows(k) # {}
    <2>1. PICK a \in bookings : a.uid = k.uid
      BY <1>4 DEF Rows
    <2>2. Rows(k) = {a} /\ a \in Booking
      BY <2>1 DEF Rows, RoomTypeOK
    <2> DEFINE basis == IF a.room = Head(k.todo) THEN k.basis ELSE "elsewhere"
               b == [a EXCEPT !.time = k.time, !.status = status, !.basis = basis]
    <2>3. basis \in Basis /\ (a.room = Head(k.todo) => basis = k.basis)
          /\ (a.room # Head(k.todo) => basis = "elsewhere")
      BY <1>2 DEF Basis
    <2>4. Written(k, status) = {b}
      BY <1>4, <2>2 DEF Written
    <2> HIDE DEF basis
    <2>5. /\ b \in Booking /\ b.uid = a.uid /\ b.time = k.time /\ b.status = status
          /\ b.room = a.room /\ b.basis = basis
      BY <1>2, <2>2, <2>3 DEF Booking
    <2> HIDE DEF b
    <2> QED BY <2>1, <2>3, <2>4, <2>5
  <1> QED BY <1>3, <1>4

(* No booking becomes accepted and no handler does: handlers go on.        *)
LEMMA RoomQuiet ==
  ASSUME RoomInv, OneEach(roomTasks'), bookings' \subseteq Booking,
         \A a, b \in bookings' : a.uid = b.uid => a = b,
         roomSetting' \in [RoomIds -> RoomSettings \cup {"deleted"}],
         roomMails' \in 0..RoomMaxActs, roomEdits' \in 0..RoomMaxEdits,
         UNCHANGED cancelled,
         \A b \in bookings' :
           \/ b \in bookings
           \/ b.status # "ACCEPTED" /\ b.uid \notin cancelled,
         \A j \in roomTasks' :
           \/ j \in roomTasks
           \/ /\ j.at = "accept" => j.basis # "checked"
              /\ j.at = "delete" => j.cancel
              /\ j.at \in {"pend", "check", "decline", "accept"} => ~j.cancel
              /\ ~j.cancel => j.uid \notin cancelled
  PROVE  RoomInv'
  <1>1. RoomTypeOK'
    BY DEF RoomInv, RoomTypeOK, OneEach
  <1>2. StageInv' /\ AskedInv'
    BY DEF RoomInv, StageInv, AskedInv
  <1>3. CheckedInv'
    <2> SUFFICES ASSUME NEW k \in roomTasks', k.at = "accept", k.basis = "checked", Conflict(k)'
                 PROVE  FALSE
      BY DEF CheckedInv
    <2>1. k \in roomTasks
      OBVIOUS
    <2>2. Conflict(k)
      BY DEF Conflict, Accepted
    <2> QED BY <2>1, <2>2 DEF RoomInv, CheckedInv
  <1>4. OverlapIsExplained' /\ CancelledIsFree'
    BY DEF RoomInv, OverlapIsExplained, CancelledIsFree
  <1> QED BY <1>1, <1>2, <1>3, <1>4 DEF RoomInv

LEMMA RoomArriveInv ==
  ASSUME RoomInv, NEW h \in RoomHandlers, RoomArrive(h)
  PROVE  RoomInv'
  <1>0. RoomTypeOK
    BY DEF RoomInv
  <1>1. PICK guests \in RoomGuests, cancel \in BOOLEAN, u \in Meetings, t \in RoomTimes :
          /\ roomTasks' = roomTasks \cup
               {[id |-> h, todo |-> guests, at |-> "find", cancel |-> cancel,
                 uid |-> u, time |-> t, basis |-> "none"]}
          /\ cancelled' = IF cancel THEN cancelled ELSE cancelled \ {u}
    BY DEF RoomArrive
  <1>2. /\ \A k \in roomTasks : k.id # h
        /\ roomMails' = roomMails + 1 /\ roomMails + roomEdits < RoomMaxActs
        /\ UNCHANGED <<roomSetting, bookings, roomEdits>>
    BY DEF RoomArrive
  <1> DEFINE new == [id |-> h, todo |-> guests, at |-> "find", cancel |-> cancel,
                     uid |-> u, time |-> t, basis |-> "none"]
  <1>3. /\ new \in RoomTask /\ new.id = h /\ new.at = "find" /\ new.cancel = cancel /\ new.uid = u
    BY RoomAssumption DEF RoomTask, Basis
  <1>4. roomTasks' = roomTasks \cup {new}
    BY <1>1
  <1> HIDE DEF new
  <1>5. OneEach(roomTasks')
    BY <1>0, <1>2, <1>3, <1>4 DEF OneEach, RoomTypeOK
  <1>6. roomMails' \in 0..RoomMaxActs
    BY <1>0, <1>2, RoomAssumption DEF RoomTypeOK
  <1>7. cancelled' \subseteq cancelled /\ (~cancel => u \notin cancelled')
    BY <1>1
  <1>8. RoomTypeOK'
    BY <1>0, <1>2, <1>5, <1>6, <1>7 DEF RoomTypeOK, OneEach
  <1>9. StageInv' /\ AskedInv'
    BY <1>3, <1>4, <1>7 DEF RoomInv, StageInv, AskedInv
  <1>10. CheckedInv'
    <2> SUFFICES ASSUME NEW k \in roomTasks', k.at = "accept", k.basis = "checked", Conflict(k)'
                 PROVE  FALSE
      BY DEF CheckedInv
    <2>1. k \in roomTasks
      BY <1>3, <1>4
    <2>2. Conflict(k)
      BY <1>2 DEF Conflict, Accepted
    <2> QED BY <2>1, <2>2 DEF RoomInv, CheckedInv
  <1>11. OverlapIsExplained' /\ CancelledIsFree'
    BY <1>2, <1>7 DEF RoomInv, OverlapIsExplained, CancelledIsFree
  <1> QED BY <1>8, <1>9, <1>10, <1>11 DEF RoomInv

LEMMA RoomGoesOn ==
  ASSUME RoomInv, NEW k \in roomTasks, bookings' \subseteq Booking,
         \A a, b \in bookings' : a.uid = b.uid => a = b,
         \A b \in bookings' :
           \/ b \in bookings
           \/ b.status # "ACCEPTED" /\ b.uid \notin cancelled,
         roomTasks' = Onward(k), UNCHANGED <<roomSetting, cancelled, roomMails, roomEdits>>
  PROVE  RoomInv'
  <1>0. RoomTypeOK
    BY DEF RoomInv
  <1>1. /\ OneEach(Onward(k))
        /\ \A j \in Onward(k) : j \in roomTasks \/ (j.at = "find" /\ Follows(j, k))
    BY <1>0, OnwardTyped
  <1>2. ASSUME NEW j \in roomTasks'
        PROVE  \/ j \in roomTasks
               \/ /\ j.at = "accept" => j.basis # "checked"
                  /\ j.at = "delete" => j.cancel
                  /\ j.at \in {"pend", "check", "decline", "accept"} => ~j.cancel
                  /\ ~j.cancel => j.uid \notin cancelled
    BY <1>1 DEF Follows, RoomInv, AskedInv
  <1>3. /\ roomSetting' \in [RoomIds -> RoomSettings \cup {"deleted"}]
        /\ roomMails' \in 0..RoomMaxActs /\ roomEdits' \in 0..RoomMaxEdits
    BY <1>0 DEF RoomTypeOK
  <1> QED BY <1>1, <1>2, <1>3, RoomQuiet

LEMMA FindRoomInv ==
  ASSUME RoomInv, NEW k \in roomTasks, FindRoom(k)
  PROVE  RoomInv'
  <1>0. RoomTypeOK /\ UNCHANGED <<roomSetting, bookings, cancelled, roomMails, roomEdits>>
    BY DEF RoomInv, FindRoom
  <1>1. CASE roomTasks' = Onward(k)
    BY <1>0, <1>1, RoomGoesOn DEF RoomTypeOK
  <1>2. ASSUME NEW at \in {"delete", "pend", "check", "accept"}, NEW basis \in {"none", "unchecked"},
               TaskGoes(k, at, basis), at = "delete" <=> k.cancel
        PROVE  RoomInv'
    <2>1. basis \in Basis
      BY DEF Basis
    <2>2. /\ OneEach(roomTasks')
          /\ \A j \in roomTasks' :
               \/ j \in roomTasks
               \/ j.at = at /\ j.basis = basis /\ j.todo = k.todo /\ Follows(j, k)
      BY <1>0, <1>2, <2>1, TaskGoesTyped
    <2>3. ASSUME NEW j \in roomTasks'
          PROVE  \/ j \in roomTasks
                 \/ /\ j.at = "accept" => j.basis # "checked"
                    /\ j.at = "delete" => j.cancel
                    /\ j.at \in {"pend", "check", "decline", "accept"} => ~j.cancel
                    /\ ~j.cancel => j.uid \notin cancelled
      BY <1>2, <2>2 DEF Follows, RoomInv, AskedInv
    <2> QED BY <1>0, <2>2, <2>3, RoomQuiet DEF RoomTypeOK
  <1>3. \/ roomTasks' = Onward(k)
        \/ k.cancel /\ TaskGoes(k, "delete", "none")
        \/ ~k.cancel /\ TaskGoes(k, "pend", "none")
        \/ ~k.cancel /\ TaskGoes(k, "accept", "unchecked")
        \/ ~k.cancel /\ TaskGoes(k, "check", "none")
    BY DEF FindRoom
  <1> QED BY <1>1, <1>2, <1>3

LEMMA DeleteBookingsInv ==
  ASSUME RoomInv, NEW k \in roomTasks, DeleteBookings(k)
  PROVE  RoomInv'
  <1>0. /\ RoomTypeOK /\ k.cancel /\ bookings' = WithoutMeeting(k)
        /\ roomTasks' = Onward(k) /\ UNCHANGED <<roomSetting, roomMails, roomEdits>>
    BY DEF RoomInv, StageInv, DeleteBookings
  <1>1. /\ OneEach(roomTasks')
        /\ \A j \in roomTasks' : j \in roomTasks \/ (j.at = "find" /\ Follows(j, k))
    BY <1>0, OnwardTyped
  <1>2. bookings' \subseteq bookings /\ \A b \in bookings' : b.uid # k.uid
    BY <1>0 DEF WithoutMeeting
  <1>3. \/ cancelled' = cancelled
        \/ /\ cancelled' = cancelled \cup {k.uid}
           /\ \A j \in roomTasks : j.uid = k.uid => j.cancel
    BY DEF DeleteBookings
  <1>4. RoomTypeOK'
    <2>1. k.uid \in Meetings
      BY <1>0 DEF RoomTypeOK, RoomTask
    <2> QED BY <1>0, <1>1, <1>2, <1>3, <2>1 DEF RoomTypeOK, OneEach
  <1>5. StageInv' /\ AskedInv'
    BY <1>0, <1>1, <1>3 DEF RoomInv, StageInv, AskedInv, Follows
  <1>6. CheckedInv'
    <2> SUFFICES ASSUME NEW j \in roomTasks', j.at = "accept", j.basis = "checked", Conflict(j)'
                 PROVE  FALSE
      BY DEF CheckedInv
    <2>1. j \in roomTasks
      BY <1>1
    <2>2. Conflict(j)
      BY <1>2 DEF Conflict, Accepted
    <2> QED BY <2>1, <2>2 DEF RoomInv, CheckedInv
  <1>7. OverlapIsExplained' /\ CancelledIsFree'
    BY <1>2, <1>3 DEF RoomInv, OverlapIsExplained, CancelledIsFree
  <1> QED BY <1>4, <1>5, <1>6, <1>7 DEF RoomInv

LEMMA CheckConflictInv ==
  ASSUME RoomInv, NEW k \in roomTasks, CheckConflict(k)
  PROVE  RoomInv'
  <1>0. /\ RoomTypeOK /\ ~k.cancel
        /\ UNCHANGED <<roomSetting, bookings, cancelled, roomMails, roomEdits>>
    BY DEF RoomInv, StageInv, CheckConflict
  <1>1. ASSUME NEW at \in {"decline", "accept"}, NEW basis \in {"none", "checked"},
               TaskGoes(k, at, basis), basis = "checked" => ~Conflict(k)
        PROVE  RoomInv'
    <2>1. basis \in Basis
      BY DEF Basis
    <2>2. /\ OneEach(roomTasks')
          /\ \A j \in roomTasks' :
               \/ j \in roomTasks
               \/ j.at = at /\ j.basis = basis /\ j.todo = k.todo /\ Follows(j, k)
      BY <1>0, <1>1, <2>1, TaskGoesTyped
    <2>3. RoomTypeOK'
      BY <1>0, <2>2 DEF RoomTypeOK, OneEach
    <2>4. StageInv' /\ AskedInv'
      BY <1>0, <1>1, <2>2 DEF RoomInv, StageInv, AskedInv, Follows
    <2>5. CheckedInv'
      <3> SUFFICES ASSUME NEW j \in roomTasks', j.at = "accept", j.basis = "checked", Conflict(j)'
                   PROVE  FALSE
        BY DEF CheckedInv
      <3>1. Conflict(j)
        BY <1>0 DEF Conflict, Accepted
      <3>2. CASE j \in roomTasks
        BY <3>1, <3>2 DEF RoomInv, CheckedInv
      <3>3. CASE j.basis = basis /\ j.todo = k.todo /\ Follows(j, k)
        BY <1>1, <3>1, <3>3 DEF Follows, Conflict
      <3> QED BY <2>2, <3>2, <3>3
    <2>6. OverlapIsExplained' /\ CancelledIsFree'
      BY <1>0 DEF RoomInv, OverlapIsExplained, CancelledIsFree
    <2> QED BY <2>3, <2>4, <2>5, <2>6 DEF RoomInv
  <1>2. \/ TaskGoes(k, "decline", "none")
        \/ ~Conflict(k) /\ TaskGoes(k, "accept", "checked")
    BY DEF CheckConflict
  <1> QED BY <1>1, <1>2

LEMMA PendInv ==
  ASSUME RoomInv, NEW k \in roomTasks, Pend(k)
  PROVE  RoomInv'
  <1>0. /\ RoomTypeOK /\ ~k.cancel /\ k.uid \notin cancelled
        /\ bookings' = WithoutMeeting(k) \cup Written(k, "PENDING")
        /\ roomTasks' = Onward(k)
        /\ UNCHANGED <<roomSetting, cancelled, roomMails, roomEdits>>
    BY DEF RoomInv, StageInv, AskedInv, Pend
  <1>1. PICK b \in Booking :
           /\ Written(k, "PENDING") = {b} /\ b.uid = k.uid /\ b.status = "PENDING"
    BY <1>0, WrittenIsOne
  <1>2. bookings' = WithoutMeeting(k) \cup {b}
    BY <1>0, <1>1
  <1>3. /\ bookings' \subseteq Booking /\ \A a, c \in bookings' : a.uid = c.uid => a = c
        /\ \A a \in bookings' : \/ a \in bookings
                                \/ a.status # "ACCEPTED" /\ a.uid \notin cancelled
    BY <1>0, <1>1, <1>2 DEF WithoutMeeting, RoomTypeOK
  <1> QED BY <1>0, <1>3, RoomGoesOn

LEMMA DeclineInv ==
  ASSUME RoomInv, NEW k \in roomTasks, Decline(k)
  PROVE  RoomInv'
  <1>0. /\ RoomTypeOK /\ ~k.cancel /\ k.uid \notin cancelled
        /\ bookings' = WithoutMeeting(k) \cup
             (IF Rows(k) = {} THEN Written(k, "DECLINED")
              ELSE {[b EXCEPT !.status = "DECLINED"] : b \in Rows(k)})
        /\ roomTasks' = Onward(k)
        /\ UNCHANGED <<roomSetting, cancelled, roomMails, roomEdits>>
    BY DEF RoomInv, StageInv, AskedInv, Decline
  <1>1. \E b \in Booking :
          /\ bookings' = WithoutMeeting(k) \cup {b}
          /\ b.uid = k.uid /\ b.status = "DECLINED"
    <2> DEFINE Goal == \E b \in Booking :
                         /\ bookings' = WithoutMeeting(k) \cup {b}
                         /\ b.uid = k.uid /\ b.status = "DECLINED"
    <2>1. CASE Rows(k) = {}
      <3>1. PICK b \in Booking :
              /\ Written(k, "DECLINED") = {b} /\ b.uid = k.uid /\ b.status = "DECLINED"
        BY <1>0, WrittenIsOne
      <3> QED BY <1>0, <2>1, <3>1
    <2>2. CASE Rows(k) # {}
      <3>1. PICK a \in bookings : a.uid = k.uid
        BY <2>2 DEF Rows
      <3>2. Rows(k) = {a} /\ a \in Booking
        BY <1>0, <3>1 DEF Rows, RoomTypeOK
      <3> DEFINE b == [a EXCEPT !.status = "DECLINED"]
      <3>3. bookings' = WithoutMeeting(k) \cup {b}
        BY <1>0, <2>2, <3>2
      <3>4. b \in Booking /\ b.uid = k.uid /\ b.status = "DECLINED"
        BY <3>1, <3>2 DEF Booking
      <3> HIDE DEF b
      <3> QED BY <3>3, <3>4
    <2> QED BY <2>1, <2>2
  <1>2. PICK b \in Booking :
          /\ bookings' = WithoutMeeting(k) \cup {b}
          /\ b.uid = k.uid /\ b.status = "DECLINED"
    BY <1>1
  <1>3. /\ bookings' \subseteq Booking /\ \A a, c \in bookings' : a.uid = c.uid => a = c
        /\ \A a \in bookings' : \/ a \in bookings
                                \/ a.status # "ACCEPTED" /\ a.uid \notin cancelled
    BY <1>0, <1>2 DEF WithoutMeeting, RoomTypeOK
  <1> QED BY <1>0, <1>3, RoomGoesOn

LEMMA AcceptInv ==
  ASSUME RoomInv, NEW k \in roomTasks, Accept(k)
  PROVE  RoomInv'
  <1>0. /\ RoomTypeOK /\ ~k.cancel /\ k.uid \notin cancelled /\ k.at = "accept"
        /\ bookings' = WithoutMeeting(k) \cup Written(k, "ACCEPTED")
        /\ roomTasks' = Race(Onward(k), {b.room : b \in Written(k, "ACCEPTED")})
        /\ UNCHANGED <<roomSetting, cancelled, roomMails, roomEdits>>
    BY DEF RoomInv, StageInv, AskedInv, Accept
  <1>1. PICK b \in Booking :
           /\ Written(k, "ACCEPTED") = {b}
           /\ b.uid = k.uid /\ b.time = k.time /\ b.status = "ACCEPTED"
           /\ b.room = Head(k.todo) => b.basis = k.basis
           /\ b.room # Head(k.todo) => b.basis = "elsewhere"
    BY <1>0, WrittenIsOne
  <1>2. /\ bookings' = WithoutMeeting(k) \cup {b}
        /\ roomTasks' = Race(Onward(k), {b.room})
    BY <1>0, <1>1
  <1>3. /\ OneEach(Onward(k))
        /\ \A j \in Onward(k) : j \in roomTasks \/ (j.at = "find" /\ Follows(j, k))
    BY <1>0, OnwardTyped
  <1>4. /\ OneEach(roomTasks')
        /\ \A j \in roomTasks' :
              \E i \in Onward(k) :
                /\ Follows(j, i) /\ j.at = i.at
                /\ j.at = "accept" /\ j.basis = "checked" => j = i /\ Head(j.todo) \notin {b.room}
    BY <1>2, <1>3, RaceTyped
  <1>5. /\ bookings' \subseteq Booking /\ \A a, c \in bookings' : a.uid = c.uid => a = c
        /\ \A a \in bookings' : a = b \/ (a \in bookings /\ a.uid # k.uid)
    BY <1>0, <1>1, <1>2 DEF WithoutMeeting, RoomTypeOK
  <1>6. RoomTypeOK'
    BY <1>0, <1>4, <1>5 DEF RoomTypeOK, OneEach
  <1>7. StageInv' /\ AskedInv'
    BY <1>0, <1>3, <1>4 DEF RoomInv, StageInv, AskedInv, Follows
  <1>8. CheckedInv'
    <2> SUFFICES ASSUME NEW j \in roomTasks', j.at = "accept", j.basis = "checked", Conflict(j)'
                 PROVE  FALSE
      BY DEF CheckedInv
    <2>1. j \in roomTasks /\ Head(j.todo) # b.room
      BY <1>3, <1>4
    <2>2. Conflict(j)
      BY <1>5, <2>1 DEF Conflict, Accepted
    <2> QED BY <2>1, <2>2 DEF RoomInv, CheckedInv
  <1>9. ASSUME NEW a \in bookings, a.uid # k.uid, a.room = b.room, a.status = "ACCEPTED",
               Overlap(a.time, b.time)
        PROVE  b.basis # "checked"
    <2>1. SUFFICES ASSUME b.basis = "checked" PROVE FALSE
      OBVIOUS
    <2>2. b.room = Head(k.todo) /\ k.basis = "checked"
      BY <1>1, <2>1
    <2>3. ~Conflict(k)
      BY <1>0, <2>2 DEF RoomInv, CheckedInv
    <2> QED BY <1>1, <1>9, <2>2, <2>3 DEF Conflict, Accepted
  <1>10. OverlapIsExplained'
    <2> SUFFICES ASSUME NEW a \in bookings', NEW c \in bookings', a # c, a.room = c.room,
                        a.status = "ACCEPTED", c.status = "ACCEPTED", Overlap(a.time, c.time)
                 PROVE  a.basis # "checked" \/ c.basis # "checked"
      BY DEF OverlapIsExplained
    <2>1. CASE a = b
      <3>1. Overlap(c.time, b.time)
        BY <2>1 DEF Overlap
      <3> QED BY <1>5, <1>9, <2>1, <3>1
    <2>2. CASE c = b
      BY <1>5, <1>9, <2>2
    <2>3. CASE a # b /\ c # b
      BY <1>5, <2>3 DEF RoomInv, OverlapIsExplained
    <2> QED BY <2>1, <2>2, <2>3
  <1>11. CancelledIsFree'
    BY <1>0, <1>1, <1>5 DEF RoomInv, CancelledIsFree
  <1> QED BY <1>6, <1>7, <1>8, <1>10, <1>11 DEF RoomInv

LEMMA RoomThrowsInv ==
  ASSUME RoomInv, NEW k \in roomTasks, RoomThrows(k)
  PROVE  RoomInv'
  <1>1. /\ RoomTypeOK /\ roomTasks' \subseteq roomTasks
        /\ UNCHANGED <<roomSetting, bookings, cancelled, roomMails, roomEdits>>
    BY DEF RoomInv, RoomThrows
  <1>2. OneEach(roomTasks')
    BY <1>1 DEF RoomTypeOK, OneEach
  <1> QED BY <1>1, <1>2, RoomQuiet DEF RoomTypeOK

LEMMA RoomEditInv ==
  ASSUME RoomInv, RoomEdit, bookings' \subseteq bookings,
         roomSetting' \in [RoomIds -> RoomSettings \cup {"deleted"}]
  PROVE  RoomInv'
  <1>1. RoomTypeOK /\ UNCHANGED <<roomTasks, cancelled, roomMails>>
    BY DEF RoomInv, RoomEdit
  <1>2. roomEdits' \in 0..RoomMaxEdits /\ roomMails' \in 0..RoomMaxActs
    BY <1>1, RoomAssumption DEF RoomEdit, RoomTypeOK
  <1>3. OneEach(roomTasks')
    BY <1>1 DEF RoomTypeOK, OneEach
  <1> QED BY <1>1, <1>2, <1>3, RoomQuiet DEF RoomTypeOK

LEMMA RoomNextInv == RoomInv /\ [RoomNext]_roomVars => RoomInv'
  <1>1. RoomInv /\ UNCHANGED roomVars => RoomInv'
    BY DEF RoomInv, RoomTypeOK, StageInv, CheckedInv, AskedInv, OverlapIsExplained,
           CancelledIsFree, Conflict, Accepted, roomVars
  <1>2. ASSUME RoomInv, NEW r \in RoomIds, PutRoom(r) \/ DeleteRoom(r)
        PROVE  RoomInv'
    <2>1. /\ RoomEdit /\ bookings' \subseteq bookings
          /\ \E s \in RoomSettings \cup {"deleted"} : roomSetting' = [roomSetting EXCEPT ![r] = s]
      BY <1>2 DEF PutRoom, DeleteRoom
    <2>2. roomSetting' \in [RoomIds -> RoomSettings \cup {"deleted"}]
      BY <1>2, <2>1 DEF RoomInv, RoomTypeOK
    <2> QED BY <1>2, <2>1, <2>2, RoomEditInv
  <1>3. ASSUME RoomInv, NEW b \in bookings, DeleteBooking(b)
        PROVE  RoomInv'
    BY <1>3, RoomEditInv DEF DeleteBooking, RoomInv, RoomTypeOK
  <1>4. ASSUME RoomInv, NEW k \in roomTasks, RoomHandle(k)
        PROVE  RoomInv'
    BY <1>4, FindRoomInv, DeleteBookingsInv, PendInv, CheckConflictInv, DeclineInv, AcceptInv
    DEF RoomHandle
  <1> QED BY <1>1, <1>2, <1>3, <1>4, RoomArriveInv, RoomThrowsInv DEF RoomNext

(* Mails, handlers, bookings and settings keep their types, for any rooms, *)
(* meetings and times (inbound/handler.ts).                                *)
THEOREM RoomTyped == RoomSpec => []RoomTypeOK
  <1>1. RoomInv => RoomTypeOK
    BY DEF RoomInv
  <1> QED BY <1>1, RoomInitInv, RoomNextInv, PTL DEF RoomSpec

(* Whatever mails are in work side by side and whatever the administrator  *)
(* does: two accepted bookings of a room overlap only in the three ways    *)
(* that are named, and a cancelled meeting holds no room.                  *)
THEOREM BookingsAlwaysHold == RoomSpec => []BookingsHold
  <1>1. RoomInv => BookingsHold
    BY DEF RoomInv, BookingsHold
  <1> QED BY <1>1, RoomInitInv, RoomNextInv, PTL DEF RoomSpec

-----------------------------------------------------------------------------
(* Retention.  What destroys a message reads its row as it is then, so the *)
(* invariant is about rows: one in a folder of the owner bears no run's    *)
(* mark, one in Deletions was brought there by a tag that allows recovery, *)
(* and the one before last is what the sweep makes of it.                  *)

Due(row, day) ==
  \/ RetAction[row.by] = "purge" /\ RetDays[row.by] <= day
  \/ RetAction[row.by] = "soft" /\ row.soft + RetTtl < day /\ RetDays[row.by] <= row.soft

SoundRow(row, day) ==
  /\ row.folder \in RetKept => row.by = NoTag
  /\ row.folder = "Deletions" =>
       \/ row.by = NoTag
       \/ row.why = "stale"
       \/ RetAction[row.by] = "soft" /\ RetDays[row.by] <= row.soft
  /\ row.folder \in {"Purges", "none"} =>
       row.by = NoTag \/ row.why = "stale" \/ Due(row, day)
  /\ row.by # NoTag /\ row.tag # NoTag /\ row.why = "due" => row.by = row.tag

GoodRow(row, day) == row \in RetRow /\ row.soft <= day /\ SoundRow(row, day)

RowsInv == retMsg \in [RetIds -> RetRow] /\ \A m \in RetIds : GoodRow(retMsg[m], retDay)

(* Everything but the rows.                                                *)
RunsInv ==
  /\ retDay \in 0..RetMaxDay
  /\ retFolderTag \in [RetKept -> TagOrNone]
  /\ retRun \in [RetRuns -> RetTask]
  /\ retUsed \in Int
  /\ retRaced \in BOOLEAN
  /\ retActs \in 0..RetMaxActs

RetInv == RunsInv /\ RowsInv /\ QuotaAgrees

There(rows) == {m \in RetIds : rows[m].folder # "none"}

LEMMA RowTags ==
  ASSUME NEW row \in RetRow
  PROVE  /\ row.by # NoTag => RetDays[row.by] \in Nat
         /\ row.soft \in Int /\ RetTtl \in Nat
  BY RetAssumption DEF RetRow, TagOrNone

LEMMA GoodLater ==
  ASSUME NEW row, NEW day \in Nat, NEW later \in Nat, day <= later, GoodRow(row, day)
  PROVE  GoodRow(row, later)
  <1>1. /\ row.by # NoTag => RetDays[row.by] \in Nat
        /\ row.soft \in Int /\ RetTtl \in Nat
    BY RowTags DEF GoodRow
  <1>2. row.soft <= later
    BY <1>1 DEF GoodRow
  <1>3. ASSUME row.by # NoTag, Due(row, day) PROVE Due(row, later)
    BY <1>1, <1>3 DEF Due
  <1> QED BY <1>2, <1>3 DEF GoodRow, SoundRow

LEMMA ThereCounted ==
  ASSUME NEW rows
  PROVE  IsFiniteSet(There(rows)) /\ Cardinality(There(rows)) \in Nat
  <1>1. There(rows) \in SUBSET RetIds
    BY DEF There
  <1>2. IsFiniteSet(There(rows))
    BY <1>1, FS_Subset, RetAssumption
  <1> QED BY <1>2, FS_CardinalityType

LEMMA QuotaOf == QuotaAgrees <=> (~retRaced => retUsed = Cardinality(There(retMsg)))
  BY DEF QuotaAgrees, There

(* A step that neither deletes rows nor touches the quota.                 *)
LEMMA RowsStep ==
  ASSUME RetInv, RunsInv', retUsed' = retUsed, retRaced' = retRaced, retDay' = retDay,
         retMsg' \in [RetIds -> RetRow],
         \A m \in RetIds : /\ GoodRow(retMsg'[m], retDay)
                           /\ retMsg'[m].folder = "none" <=> retMsg[m].folder = "none"
  PROVE  RetInv'
  <1>1. RowsInv'
    BY DEF RowsInv
  <1>2. There(retMsg') = There(retMsg)
    BY DEF There
  <1>3. QuotaAgrees'
    BY <1>2 DEF RetInv, QuotaAgrees, There
  <1> QED BY <1>1, <1>3 DEF RetInv

LEMMA OneRowStep ==
  ASSUME RetInv, RunsInv', retUsed' = retUsed, retRaced' = retRaced, retDay' = retDay,
         NEW n \in RetIds, NEW row, GoodRow(row, retDay),
         retMsg' = [retMsg EXCEPT ![n] = row],
         retMsg[n].folder # "none", row.folder # "none"
  PROVE  RetInv'
  <1>1. retMsg \in [RetIds -> RetRow] /\ row \in RetRow
    BY DEF RetInv, RowsInv, GoodRow
  <1>2. retMsg' \in [RetIds -> RetRow]
    BY <1>1
  <1>3. ASSUME NEW m \in RetIds
        PROVE  /\ GoodRow(retMsg'[m], retDay)
               /\ retMsg'[m].folder = "none" <=> retMsg[m].folder = "none"
    <2>1. retMsg'[m] = IF m = n THEN row ELSE retMsg[m]
      BY <1>1
    <2> QED BY <2>1 DEF RetInv, RowsInv
  <1> QED BY <1>2, <1>3, RowsStep

(* The rows stay; the quota too.                                           *)
LEMMA SameRowsStep ==
  ASSUME RetInv, RunsInv', UNCHANGED <<retMsg, retUsed, retRaced, retDay>>
  PROVE  RetInv'
  BY DEF RetInv, RowsInv, QuotaAgrees

LEMMA IdleTyped == RetIdle \in RetTask /\ NoFolderTags \in [RetKept -> TagOrNone]
  BY RetAssumption DEF RetIdle, RetTask, NoFolderTags, TagOrNone

LEMMA TaskSet ==
  ASSUME NEW task \in RetTask, NEW r \in RetRuns, RunsInv,
         RunGoes(r, task), retUsed' \in Int, retRaced' \in BOOLEAN, retActs' \in 0..RetMaxActs
  PROVE  RunsInv'
  BY DEF RunGoes, RunsInv

LEMMA AfterItemsTyped ==
  ASSUME NEW task \in RetTask
  PROVE  AfterItems(task) \in RetTask
  BY DEF AfterItems, RetTask

LEMMA EffectiveTyped ==
  ASSUME NEW a \in TagOrNone, NEW b \in TagOrNone, NEW f \in RetKept
  PROVE  Effective(a, b, f) \in TagOrNone /\ (a # NoTag => Effective(a, b, f) = a)
  BY RetAssumption DEF Effective, First

LEMMA RetInitInv == RetInit => RetInv
  <1> SUFFICES ASSUME RetInit PROVE RetInv
    OBVIOUS
  <1>1. PICK place \in [RetIds -> RetKept] :
          retMsg = [m \in RetIds |-> [folder |-> place[m], tag |-> NoTag, soft |-> -1,
                                      by |-> NoTag, why |-> "none"]]
    BY DEF RetInit
  <1>2. RunsInv
    <2>1. 0 \in 0..RetMaxDay /\ 0 \in 0..RetMaxActs
      BY RetAssumption
    <2>2. Cardinality(RetIds) \in Int
      BY FS_CardinalityType, RetAssumption
    <2> QED BY <2>1, <2>2, IdleTyped DEF RetInit, RunsInv
  <1>3. RowsInv
    <2>1. ASSUME NEW m \in RetIds
          PROVE  retMsg[m] \in RetRow /\ GoodRow(retMsg[m], retDay)
      <3>1. /\ retMsg[m] \in RetRow
            /\ retMsg[m].soft = -1 /\ retMsg[m].by = NoTag
            /\ retMsg[m].folder \in RetKept
        BY <1>1 DEF RetRow, TagOrNone
      <3> QED BY <3>1, RetAssumption DEF RetInit, GoodRow, SoundRow, Hidden
    <2>2. retMsg \in [RetIds -> RetRow]
      BY <1>1, <2>1
    <2> QED BY <2>1, <2>2 DEF RowsInv
  <1>4. QuotaAgrees
    <2>1. There(retMsg) = RetIds
      BY <1>1, RetAssumption DEF There
    <2> QED BY <2>1, QuotaOf DEF RetInit
  <1> QED BY <1>2, <1>3, <1>4 DEF RetInv

LEMMA TickInv ==
  ASSUME RetInv, RetTick
  PROVE  RetInv'
  <1>1. retDay \in Nat /\ retDay' \in 0..RetMaxDay /\ retDay' \in Nat /\ retDay <= retDay'
    BY RetAssumption DEF RetInv, RunsInv, RetTick
  <1>2. RunsInv'
    BY <1>1 DEF RetInv, RunsInv, RetTick
  <1>3. RowsInv'
    BY <1>1, GoodLater DEF RetInv, RowsInv, RetTick
  <1>4. QuotaAgrees'
    BY DEF RetInv, QuotaAgrees, RetTick
  <1> QED BY <1>2, <1>3, <1>4 DEF RetInv

LEMMA ActTyped ==
  ASSUME RetInv, RetAct
  PROVE  retActs' \in 0..RetMaxActs
  BY RetAssumption DEF RetInv, RunsInv, RetAct

LEMMA MoveMessageInv ==
  ASSUME RetInv, NEW m \in RetIds, NEW f \in RetKept \cup Hidden, MoveMessage(m, f)
  PROVE  RetInv'
  <1> DEFINE row == [retMsg[m] EXCEPT !.folder = f, !.by = NoTag,
                                      !.why = IF f \in Hidden THEN "owner" ELSE "none"]
  <1>1. RunsInv'
    BY ActTyped DEF MoveMessage, RetInv, RunsInv
  <1>2. GoodRow(retMsg[m], retDay)
    BY DEF RetInv, RowsInv
  <1>3. row \in RetRow /\ row.soft = retMsg[m].soft /\ row.by = NoTag /\ row.folder = f
    BY <1>2 DEF GoodRow, RetRow, TagOrNone
  <1>4. GoodRow(row, retDay)
    BY <1>2, <1>3 DEF GoodRow, SoundRow
  <1>5. f # "none"
    BY RetAssumption DEF Hidden
  <1>6. /\ retMsg' = [retMsg EXCEPT ![m] = row] /\ retMsg[m].folder # "none"
        /\ UNCHANGED <<retDay, retUsed, retRaced>>
    BY DEF MoveMessage
  <1> HIDE DEF row
  <1> QED BY <1>1, <1>3, <1>4, <1>5, <1>6, OneRowStep

LEMMA TagMessageInv ==
  ASSUME RetInv, NEW m \in RetIds, NEW t \in RetPersonal \cup {NoTag}, TagMessage(m, t)
  PROVE  RetInv'
  <1> DEFINE row == [retMsg[m] EXCEPT !.tag = t]
  <1>1. RunsInv'
    BY ActTyped DEF TagMessage, RetInv, RunsInv
  <1>2. GoodRow(retMsg[m], retDay) /\ retMsg \in [RetIds -> RetRow] /\ retMsg[m].folder \in RetKept
    BY DEF RetInv, RowsInv, TagMessage
  <1>3. /\ row \in RetRow /\ row.soft = retMsg[m].soft /\ row.by = NoTag
        /\ row.folder \in RetKept
    BY <1>2, RetAssumption DEF GoodRow, SoundRow, RetRow, TagOrNone
  <1>4. GoodRow(row, retDay)
    BY <1>2, <1>3, RetAssumption DEF GoodRow, SoundRow, Hidden
  <1>5. retMsg[m].folder # "none" /\ row.folder # "none"
    BY <1>2, <1>3, RetAssumption
  <1>6. retMsg' = [retMsg EXCEPT ![m] = row] /\ UNCHANGED <<retDay, retUsed, retRaced>>
    BY <1>2 DEF TagMessage
  <1> HIDE DEF row
  <1> QED BY <1>1, <1>4, <1>5, <1>6, OneRowStep

LEMMA TagFolderInv ==
  ASSUME RetInv, NEW f \in RetKept, NEW t \in RetPersonal \cup {NoTag}, TagFolder(f, t)
  PROVE  RetInv'
  <1>1. t \in TagOrNone
    BY RetAssumption DEF TagOrNone
  <1>2. RunsInv'
    BY <1>1, ActTyped DEF TagFolder, RetInv, RunsInv
  <1> QED BY <1>2, SameRowsStep DEF TagFolder

(* The steps of a run that read, and its early end.                        *)
LEMMA ReadingInv ==
  ASSUME RetInv, NEW r \in RetRuns,
         \/ BeginRun(r) \/ ReadPurges(r) \/ RunCutShort(r) \/ \E f \in RetKept : ListFolder(r, f)
  PROVE  RetInv'
  <1>1. SUFFICES /\ UNCHANGED <<retMsg, retUsed, retRaced, retDay>> /\ retActs' \in 0..RetMaxActs
                 /\ \E task \in RetTask : RunGoes(r, task)
    <2>1. retUsed \in Int /\ retRaced \in BOOLEAN
      BY DEF RetInv, RunsInv
    <2> QED BY <1>1, <2>1, TaskSet, SameRowsStep DEF RetInv
  <1>a. retRun[r] \in RetTask /\ retFolderTag \in [RetKept -> TagOrNone]
        /\ retActs \in 0..RetMaxActs
    BY DEF RetInv, RunsInv
  <1>2. CASE BeginRun(r)
    <2>1. [RetIdle EXCEPT !.at = "list", !.todo = RetKept, !.folderTag = retFolderTag] \in RetTask
      BY <1>a, IdleTyped DEF RetTask
    <2> QED BY <1>2, <2>1, <1>a DEF BeginRun, RunGoes
  <1>3. CASE ReadPurges(r)
    <2> DEFINE ids == {m \in RetIds : retMsg[m].folder = "Purges"}
               task == IF ids = {} THEN RetIdle ELSE [RetIdle EXCEPT !.at = "delete", !.ids = ids]
    <2>1. task \in RetTask
      BY IdleTyped DEF RetTask
    <2>2. RunGoes(r, task)
      BY <1>3 DEF ReadPurges
    <2> HIDE DEF task
    <2> QED BY <1>3, <2>1, <2>2, <1>a DEF ReadPurges, RunGoes
  <1>4. CASE RunCutShort(r)
    <2>1. PICK at \in {"idle", "sweep"} : RunGoes(r, [RetIdle EXCEPT !.at = at])
      BY <1>4 DEF RunCutShort
    <2>2. [RetIdle EXCEPT !.at = at] \in RetTask
      BY IdleTyped DEF RetTask
    <2> QED BY <1>4, <2>1, <2>2, ActTyped DEF RunCutShort, RunGoes
  <1>5. ASSUME NEW f \in RetKept, ListFolder(r, f)
        PROVE  /\ UNCHANGED <<retMsg, retUsed, retRaced, retDay>> /\ retActs' \in 0..RetMaxActs
               /\ \E task \in RetTask : RunGoes(r, task)
    <2> DEFINE items == {i \in Listed(r, f) : i[2] # NoTag}
               task == [retRun[r] EXCEPT !.todo = retRun[r].todo \ {f}, !.here = f,
                                         !.items = items]
    <2>1. items \subseteq RetIds \X RetTags
      <3>1. ASSUME NEW m \in RetIds
            PROVE  Effective(retMsg[m].tag, retRun[r].folderTag[f], f) \in TagOrNone
        <4>1. retMsg[m].tag \in TagOrNone
          BY DEF RetInv, RowsInv, RetRow
        <4>2. retRun[r].folderTag[f] \in TagOrNone
          BY <1>a DEF RetTask
        <4> QED BY <4>1, <4>2, EffectiveTyped
      <3> QED BY <3>1 DEF Listed, TagOrNone
    <2>2. task \in RetTask
      <3> HIDE DEF items
      <3> QED BY <2>1, <1>a DEF RetTask
    <2>3. RunGoes(r, AfterItems(task))
      BY <1>5 DEF ListFolder
    <2> HIDE DEF task
    <2>4. AfterItems(task) \in RetTask
      BY <2>2, AfterItemsTyped
    <2> QED BY <1>5, <2>3, <2>4, <1>a DEF ListFolder, RunGoes
  <1> QED BY <1>2, <1>3, <1>4, <1>5

(* Of the tag from a run's list: "due" only when the message has it still. *)
LEMMA TreatedIsGood ==
  ASSUME RetInv, NEW m \in RetIds, NEW t \in RetTags, NEW f \in RetKept,
         Expired(t), retMsg[m].folder # "none"
  PROVE  GoodRow(Treated(m, t, f), retDay) /\ Treated(m, t, f).folder # "none"
  <1> DEFINE row == retMsg[m]
             why == IF StillHas(m, t, f) THEN "due" ELSE "stale"
  <1>1. GoodRow(row, retDay) /\ row \in RetRow /\ retDay \in Nat
    BY RetAssumption DEF RetInv, RunsInv, RowsInv, GoodRow
  <1>2. t # NoTag /\ t \in TagOrNone /\ RetDays[t] \in Nat /\ RetDays[t] <= retDay
    BY RetAssumption DEF TagOrNone, Expired
  <1>3. why \in {"due", "stale"} /\ (why = "due" /\ row.tag # NoTag => t = row.tag)
    <2>1. row.tag \in TagOrNone /\ retFolderTag[f] \in TagOrNone
      BY <1>1 DEF RetInv, RunsInv, RetRow
    <2>2. row.tag # NoTag => Effective(row.tag, retFolderTag[f], f) = row.tag
      BY <2>1, EffectiveTyped
    <2> QED BY <2>2 DEF StillHas
  <1> HIDE DEF why
  <1>4. CASE RetAction[t] = "purge"
    <2> DEFINE new == [row EXCEPT !.folder = "Purges", !.by = t, !.why = why]
    <2>1. /\ new \in RetRow /\ new.folder = "Purges" /\ new.by = t /\ new.why = why
          /\ new.soft = row.soft /\ new.tag = row.tag
      BY <1>1, <1>2, <1>3 DEF RetRow, Hidden
    <2>2. Treated(m, t, f) = new
      BY <1>4 DEF Treated, why
    <2> HIDE DEF new
    <2>3. "Purges" \notin RetKept
      BY RetAssumption DEF Hidden
    <2>4. SoundRow(new, retDay)
      BY <1>2, <1>3, <1>4, <2>1, <2>3 DEF SoundRow, Due
    <2> QED BY <1>1, <2>1, <2>2, <2>4 DEF GoodRow
  <1>5. CASE RetAction[t] = "soft"
    <2> DEFINE new == [row EXCEPT !.folder = "Deletions", !.by = t, !.why = why, !.soft = retDay]
    <2>1. /\ new \in RetRow /\ new.folder = "Deletions" /\ new.by = t /\ new.why = why
          /\ new.soft = retDay /\ new.tag = row.tag
      BY <1>1, <1>2, <1>3 DEF RetRow, Hidden
    <2>2. Treated(m, t, f) = new
      BY <1>5 DEF Treated, why, SoftDate
    <2> HIDE DEF new
    <2>3. "Deletions" \notin RetKept
      BY RetAssumption DEF Hidden
    <2>4. SoundRow(new, retDay)
      BY <1>2, <1>3, <1>5, <2>1, <2>3 DEF SoundRow, Due
    <2> QED BY <1>1, <2>1, <2>2, <2>4 DEF GoodRow
  <1>6. CASE RetAction[t] = "archive"
    <2> DEFINE new == [row EXCEPT !.folder = Archive, !.by = NoTag, !.why = "none"]
    <2>1. /\ new \in RetRow /\ new.folder = Archive /\ new.by = NoTag
          /\ new.soft = row.soft
      BY <1>1, RetAssumption DEF RetRow, TagOrNone
    <2>2. Treated(m, t, f) = new
      BY <1>6 DEF Treated
    <2> HIDE DEF new
    <2>3. SoundRow(new, retDay)
      BY <2>1 DEF SoundRow
    <2>4. new.folder # "none"
      BY <2>1, RetAssumption
    <2> QED BY <1>1, <2>1, <2>2, <2>3, <2>4 DEF GoodRow
  <1>7. CASE RetAction[t] \notin {"purge", "soft", "archive"}
    <2> DEFINE then == IF row.folder \in Hidden THEN "stale" ELSE row.why
               new == [row EXCEPT !.tag = t, !.why = then]
    <2>1. /\ new \in RetRow /\ new.folder = row.folder /\ new.by = row.by
          /\ new.soft = row.soft /\ new.why = then /\ new.tag = t
      BY <1>1, <1>2 DEF RetRow
    <2>2. Treated(m, t, f) = new
      BY <1>7 DEF Treated
    <2> HIDE DEF new
    <2>3. row.folder \in RetKept => row.by = NoTag
      BY <1>1 DEF GoodRow, SoundRow
    <2>4. row.folder \notin RetKept => then = "stale"
      BY <1>1 DEF RetRow
    <2> HIDE DEF then
    <2>5. SoundRow(new, retDay)
      BY <2>1, <2>3, <2>4 DEF SoundRow
    <2> QED BY <1>1, <2>1, <2>2, <2>5 DEF GoodRow
  <1> QED BY <1>4, <1>5, <1>6, <1>7

LEMMA TreatItemInv ==
  ASSUME RetInv, NEW r \in RetRuns, NEW i \in retRun[r].items, TreatItem(r, i)
  PROVE  RetInv'
  <1> DEFINE rest == [retRun[r] EXCEPT !.items = retRun[r].items \ {i}]
  <1>1. retRun[r] \in RetTask /\ i \in RetIds \X RetTags /\ retRun[r].here \in RetKept
    BY DEF RetInv, RunsInv, RetTask
  <1>2. UNCHANGED <<retDay, retUsed, retRaced, retActs>>
    BY DEF TreatItem, RunGoes
  <1>3. AfterItems(rest) \in RetTask /\ [RetIdle EXCEPT !.at = "sweep"] \in RetTask
    <2>1. rest \in RetTask
      BY <1>1 DEF RetTask
    <2> HIDE DEF rest
    <2> QED BY <2>1, AfterItemsTyped, IdleTyped DEF RetTask
  <1>4. RunsInv'
    <2>1. RunGoes(r, AfterItems(rest)) \/ RunGoes(r, [RetIdle EXCEPT !.at = "sweep"])
      BY DEF TreatItem
    <2>2. retUsed' \in Int /\ retRaced' \in BOOLEAN /\ retActs' \in 0..RetMaxActs
      BY <1>2 DEF RetInv, RunsInv
    <2> HIDE DEF rest
    <2> QED BY <1>3, <2>1, <2>2, TaskSet DEF RetInv
  <1>5. CASE UNCHANGED retMsg
    BY <1>2, <1>4, <1>5, SameRowsStep
  <1>6. CASE /\ Expired(i[2]) /\ retMsg[i[1]].folder # "none"
             /\ retMsg' = [retMsg EXCEPT ![i[1]] = Treated(i[1], i[2], retRun[r].here)]
    <2>1. i[1] \in RetIds /\ i[2] \in RetTags
      BY <1>1
    <2>2. /\ GoodRow(Treated(i[1], i[2], retRun[r].here), retDay)
          /\ Treated(i[1], i[2], retRun[r].here).folder # "none"
      BY <1>1, <1>6, <2>1, TreatedIsGood
    <2> QED BY <1>2, <1>4, <1>6, <2>1, <2>2, OneRowStep
  <1> QED BY <1>5, <1>6 DEF TreatItem

LEMMA SweepDeletionsInv ==
  ASSUME RetInv, NEW r \in RetRuns, SweepDeletions(r)
  PROVE  RetInv'
  <1>1. /\ UNCHANGED <<retDay, retUsed, retRaced, retActs>>
        /\ retMsg' = [m \in RetIds |-> IF retMsg[m].folder = "Deletions" /\ Over(m)
                                       THEN [retMsg[m] EXCEPT !.folder = "Purges"] ELSE retMsg[m]]
    BY DEF SweepDeletions, RunGoes
  <1>2. RunsInv'
    <2>1. [RetIdle EXCEPT !.at = "read"] \in RetTask
      BY IdleTyped DEF RetTask
    <2>2. retUsed' \in Int /\ retRaced' \in BOOLEAN /\ retActs' \in 0..RetMaxActs
      BY <1>1 DEF RetInv, RunsInv
    <2> QED BY <2>1, <2>2, TaskSet DEF RetInv, SweepDeletions
  <1>3. ASSUME NEW m \in RetIds
        PROVE  /\ GoodRow(retMsg'[m], retDay)
               /\ retMsg'[m].folder = "none" <=> retMsg[m].folder = "none"
    <2>1. GoodRow(retMsg[m], retDay) /\ retMsg[m] \in RetRow /\ retDay \in Nat
      BY RetAssumption DEF RetInv, RowsInv, RunsInv, GoodRow
    <2>2. CASE ~(retMsg[m].folder = "Deletions" /\ Over(m))
      BY <1>1, <2>1, <2>2
    <2>3. CASE retMsg[m].folder = "Deletions" /\ Over(m)
      <3> DEFINE new == [retMsg[m] EXCEPT !.folder = "Purges"]
      <3>1. /\ new \in RetRow /\ new.folder = "Purges" /\ new.by = retMsg[m].by
            /\ new.soft = retMsg[m].soft /\ new.why = retMsg[m].why /\ new.tag = retMsg[m].tag
        BY <2>1 DEF RetRow, Hidden
      <3>2. retMsg'[m] = new
        BY <1>1, <2>3
      <3> HIDE DEF new
      <3>3. new.soft + RetTtl < retDay
        BY <2>1, <2>3, <3>1, RowTags DEF Over
      <3>4. "Purges" \notin RetKept
        BY RetAssumption DEF Hidden
      <3>5. SoundRow(new, retDay)
        BY <2>1, <2>3, <3>1, <3>3, <3>4 DEF GoodRow, SoundRow, Due
      <3> QED BY <2>1, <2>3, <3>1, <3>2, <3>5 DEF GoodRow
    <2> QED BY <2>2, <2>3
  <1>4. retMsg' \in [RetIds -> RetRow]
    BY <1>1, <1>3 DEF GoodRow
  <1> QED BY <1>1, <1>2, <1>3, <1>4, RowsStep

(* When two sweeps took the same message off, the quota is given up; else  *)
(* what is deleted is there.                                               *)
LEMMA DeletePurgesInv ==
  ASSUME RetInv, NEW r \in RetRuns, DeletePurges(r)
  PROVE  RetInv'
  <1> DEFINE ids == retRun[r].ids
  <1>1. ids \subseteq RetIds /\ retUsed \in Int
    BY DEF RetInv, RunsInv, RetTask
  <1>2. /\ UNCHANGED <<retDay, retActs>>
        /\ retMsg' = [m \in RetIds |->
             IF m \notin ids THEN retMsg[m]
             ELSE [retMsg[m] EXCEPT !.folder = "none",
                     !.why = IF retMsg[m].folder = "Purges" THEN retMsg[m].why ELSE "stale"]]
        /\ retUsed' = retUsed - Cardinality(ids)
        /\ retRaced' = (retRaced \/ \E m \in ids : retMsg[m].folder = "none")
        /\ RunGoes(r, RetIdle)
    BY DEF DeletePurges, Freed, RunGoes
  <1> HIDE DEF ids
  <1>3. IsFiniteSet(ids) /\ Cardinality(ids) \in Nat
    BY <1>1, FS_Subset, FS_CardinalityType, RetAssumption
  <1>4. RunsInv'
    <2>1. retUsed' \in Int
      <3>1. \A a \in Int, b \in Nat : a - b \in Int
        OBVIOUS
      <3> QED BY <1>1, <1>2, <1>3, <3>1
    <2>2. retRaced' \in BOOLEAN
      BY <1>2 DEF RetInv, RunsInv
    <2>3. retActs' \in 0..RetMaxActs
      BY <1>2 DEF RetInv, RunsInv
    <2> QED BY <1>2, <2>1, <2>2, <2>3, IdleTyped, TaskSet DEF RetInv
  <1>5. ASSUME NEW m \in RetIds
        PROVE  GoodRow(retMsg'[m], retDay)
    <2>1. GoodRow(retMsg[m], retDay) /\ retMsg[m] \in RetRow
      BY DEF RetInv, RowsInv, GoodRow
    <2>2. CASE m \notin ids
      BY <1>2, <2>1, <2>2
    <2>3. CASE m \in ids
      <3> DEFINE then == IF retMsg[m].folder = "Purges" THEN retMsg[m].why ELSE "stale"
                 new == [retMsg[m] EXCEPT !.folder = "none", !.why = then]
      <3>1. /\ new \in RetRow /\ new.folder = "none" /\ new.by = retMsg[m].by
            /\ new.soft = retMsg[m].soft /\ new.why = then /\ new.tag = retMsg[m].tag
        BY <2>1 DEF RetRow
      <3>2. retMsg'[m] = new
        BY <1>2, <2>3
      <3> HIDE DEF new
      <3>3. then = "stale" \/ (then = retMsg[m].why /\ retMsg[m].folder = "Purges")
        OBVIOUS
      <3> HIDE DEF then
      <3>4. "none" \notin RetKept
        BY RetAssumption
      <3>5. SoundRow(new, retDay)
        BY <2>1, <3>1, <3>3, <3>4 DEF GoodRow, SoundRow, Due
      <3> QED BY <2>1, <3>1, <3>2, <3>5 DEF GoodRow
    <2> QED BY <2>2, <2>3
  <1>6. RowsInv'
    <2>1. retMsg' \in [RetIds -> RetRow]
      BY <1>2, <1>5 DEF GoodRow
    <2> QED BY <1>2, <1>5, <2>1 DEF RowsInv
  <1>7. QuotaAgrees'
    <2>1. SUFFICES ASSUME ~retRaced' PROVE retUsed' = Cardinality(There(retMsg'))
      BY DEF QuotaAgrees, There
    <2>2. ~retRaced /\ ids \subseteq There(retMsg)
      BY <1>1, <1>2, <2>1 DEF There
    <2>3. There(retMsg') = There(retMsg) \ ids
      <3>1. ASSUME NEW m \in RetIds
            PROVE  retMsg'[m].folder = IF m \in ids THEN "none" ELSE retMsg[m].folder
        BY <1>2 DEF RetInv, RowsInv, RetRow
      <3> QED BY <3>1 DEF There
    <2>4. There(retMsg) \cap ids = ids
      BY <2>2
    <2>5. Cardinality(There(retMsg) \ ids) = Cardinality(There(retMsg)) - Cardinality(ids)
      BY <2>4, ThereCounted, FS_Difference
    <2>6. retUsed = Cardinality(There(retMsg))
      BY <2>2, QuotaOf DEF RetInv
    <2> QED BY <1>2, <2>3, <2>5, <2>6
  <1> QED BY <1>4, <1>6, <1>7 DEF RetInv

LEMMA RetNextInv == RetInv /\ [RetNext]_retVars => RetInv'
  <1>1. ASSUME RetInv, UNCHANGED retVars PROVE RetInv'
    BY <1>1 DEF RetInv, RunsInv, RowsInv, QuotaAgrees, retVars
  <1>2. ASSUME RetInv, NEW m \in RetIds, NEW f \in RetKept \cup Hidden, MoveMessage(m, f)
        PROVE  RetInv'
    BY <1>2, MoveMessageInv
  <1>3. ASSUME RetInv, NEW m \in RetIds, NEW t \in RetPersonal \cup {NoTag}, TagMessage(m, t)
        PROVE  RetInv'
    BY <1>3, TagMessageInv
  <1>4. ASSUME RetInv, NEW f \in RetKept, NEW t \in RetPersonal \cup {NoTag}, TagFolder(f, t)
        PROVE  RetInv'
    BY <1>4, TagFolderInv
  <1>5. ASSUME RetInv, NEW r \in RetRuns,
               \/ BeginRun(r) \/ ReadPurges(r) \/ RunCutShort(r)
               \/ \E f \in RetKept : ListFolder(r, f)
        PROVE  RetInv'
    BY <1>5, ReadingInv
  <1>6. ASSUME RetInv, NEW r \in RetRuns, NEW i \in retRun[r].items, TreatItem(r, i)
        PROVE  RetInv'
    BY <1>6, TreatItemInv
  <1> QED
    BY <1>1, <1>2, <1>3, <1>4, <1>5, <1>6, TickInv, SweepDeletionsInv, DeletePurgesInv DEF RetNext

(* Types, at any number of runs beside each other.                         *)
THEOREM RetentionTyped == RetSpec => []RetTypeOK
  <1>1. RetInv => RetTypeOK
    BY DEF RetInv, RunsInv, RowsInv, GoodRow, RetTypeOK
  <1> QED BY <1>1, RetInitInv, RetNextInv, PTL DEF RetSpec

(* No message is destroyed early, by any tags, of any number of days, with *)
(* any number of runs beside each other and the owner moving and tagging   *)
(* between their steps; and a tag of the owner decides.                    *)
THEOREM TagsAlwaysObeyed == RetSpec => []TagsAreObeyed
  <1>1. RetInv => PurgedIsDue
    BY DEF RetInv, RowsInv, GoodRow, SoundRow, Due, PurgedIsDue, Expired
  <1>2. RetInv => OwnTagWins
    BY DEF RetInv, RowsInv, GoodRow, SoundRow, OwnTagWins
  <1>3. RetInv => TagsAreObeyed
    BY <1>1, <1>2 DEF TagsAreObeyed
  <1> QED BY <1>3, RetInitInv, RetNextInv, PTL DEF RetSpec

(* The quota counts what is there until two sweeps take the same message.  *)
THEOREM QuotaAlwaysAgrees == RetSpec => []QuotaAgrees
  <1>1. RetInv => QuotaAgrees
    BY DEF RetInv
  <1> QED BY <1>1, RetInitInv, RetNextInv, PTL DEF RetSpec
=============================================================================
