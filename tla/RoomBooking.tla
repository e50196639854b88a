----------------------------- MODULE RoomBooking -----------------------------
(***************************************************************************)
(* Resource mailboxes (rooms and equipment): invitations and cancellations *)
(* that arrive by mail, beside an administrator.                           *)
(*                                                                         *)
(* Each message has a handler of its own, which serves the rooms among its *)
(* recipients one after the other; handlers run side by side.  A booking   *)
(* is a row that is unique by the meeting's uid, whatever room it belongs  *)
(* to, and an update leaves it in that room.                               *)
(*                                                                         *)
(* A room's setting is what active, autoAccept, requireApproval and        *)
(* autoDeclineConflict amount to.  Summary, organizer and the iCal text    *)
(* are left out, and so are durations and booking windows, which nothing   *)
(* reads.                                                                  *)
(***************************************************************************)
EXTENDS Naturals, Sequences

CONSTANTS
  RoomIds,
  Meetings,        \* iCal uids
  RoomTimes,       \* the [from, to] a request may name
  RoomGuests,      \* the lists of rooms among a message's recipients
  RoomHandlers,    \* messages in work at one time
  RoomMaxActs,     \* bound: messages, and acts of the administrator
  RoomMaxEdits     \* bound: of these, acts of the administrator

RoomSettings == {"checked", "unchecked", "approval", "inactive"}

ASSUME RoomAssumption ==
  /\ RoomTimes \subseteq [from : Nat, to : Nat]
  /\ RoomGuests \subseteq Seq(RoomIds) \ {<<>>}
  /\ RoomMaxActs \in Nat /\ RoomMaxEdits \in Nat

VARIABLES
  roomSetting,     \* of each room
  bookings,        \* the rows
  roomTasks,       \* the handlers at work
  cancelled,       \* history: meetings with no request since their cancellation
  roomMails,
  roomEdits

roomVars == <<roomSetting, bookings, roomTasks, cancelled, roomMails, roomEdits>>

(* What an acceptance stood on (history).                                  *)
Basis == {"none", "checked", "raced", "unchecked", "elsewhere"}

Booking == [uid : Meetings, room : RoomIds, time : RoomTimes, basis : Basis,
            status : {"ACCEPTED", "DECLINED", "PENDING"}]

RoomTask == [id : RoomHandlers, todo : Seq(RoomIds) \ {<<>>},
             at : {"find", "delete", "pend", "check", "decline", "accept"},
             cancel : BOOLEAN, uid : Meetings, time : RoomTimes, basis : Basis]

RoomTypeOK ==
  /\ roomSetting \in [RoomIds -> RoomSettings \cup {"deleted"}]
  /\ bookings \subseteq Booking
  /\ \A a, b \in bookings : a.uid = b.uid => a = b
  /\ roomTasks \subseteq RoomTask
  /\ \A j, k \in roomTasks : j.id = k.id => j = k
  /\ cancelled \subseteq Meetings
  /\ roomMails \in 0..RoomMaxActs
  /\ roomEdits \in 0..RoomMaxEdits

RoomInit ==
  /\ roomSetting \in [RoomIds -> RoomSettings]
  /\ bookings = {}
  /\ roomTasks = {}
  /\ cancelled = {}
  /\ roomMails = 0
  /\ roomEdits = 0

Accepted(r) == {b \in bookings : b.room = r /\ b.status = "ACCEPTED"}

-----------------------------------------------------------------------------
(* A message to one or more rooms.                                         *)

RoomArrive(h) ==
  /\ roomMails + roomEdits < RoomMaxActs
  /\ \A k \in roomTasks : k.id # h
  /\ \E guests \in RoomGuests, cancel \in BOOLEAN, u \in Meetings, t \in RoomTimes :
       /\ roomTasks' = roomTasks \cup
            {[id |-> h, todo |-> guests, at |-> "find", cancel |-> cancel,
              uid |-> u, time |-> t, basis |-> "none"]}
       /\ cancelled' = IF cancel THEN cancelled ELSE cancelled \ {u}
  /\ roomMails' = roomMails + 1
  /\ UNCHANGED <<roomSetting, bookings, roomEdits>>

TaskGoes(k, at, basis) ==
  roomTasks' = (roomTasks \ {k}) \cup {[k EXCEPT !.at = at, !.basis = basis]}

(* The handlers at work when k goes on to its next room, or ends.          *)
Onward(k) ==
  IF Len(k.todo) = 1 THEN roomTasks \ {k}
  ELSE (roomTasks \ {k}) \cup
         {[k EXCEPT !.at = "find", !.basis = "none", !.todo = Tail(k.todo)]}

(* The room as it is read here decides, whatever is done to it later.      *)
FindRoom(k) ==
  /\ k.at = "find"
  /\ LET s == roomSetting[Head(k.todo)] IN
       \/ s \in {"inactive", "deleted"} /\ roomTasks' = Onward(k)
       \/ /\ s \notin {"inactive", "deleted"}
          /\ \/ k.cancel /\ TaskGoes(k, "delete", "none")
             \/ ~k.cancel /\ s = "approval"  /\ TaskGoes(k, "pend", "none")
             \/ ~k.cancel /\ s = "unchecked" /\ TaskGoes(k, "accept", "unchecked")
             \/ ~k.cancel /\ s = "checked"   /\ TaskGoes(k, "check", "none")
  /\ UNCHANGED <<roomSetting, bookings, cancelled, roomMails, roomEdits>>

WithoutMeeting(k) == {b \in bookings : b.uid # k.uid}

DeleteBookings(k) ==
  /\ k.at = "delete"
  /\ bookings' = WithoutMeeting(k)
  /\ cancelled' = IF \E j \in roomTasks : j.uid = k.uid /\ ~j.cancel
                  THEN cancelled ELSE cancelled \cup {k.uid}
  /\ roomTasks' = Onward(k)
  /\ UNCHANGED <<roomSetting, roomMails, roomEdits>>

Overlap(s, t) == s.from < t.to /\ t.from < s.to

Conflict_Within(k) ==
  \E b \in Accepted(Head(k.todo)) :
    b.uid # k.uid /\ k.time.from <= b.time.from /\ b.time.to <= k.time.to

Conflict(k) ==
  \E b \in Accepted(Head(k.todo)) : b.uid # k.uid /\ Overlap(b.time, k.time)

CheckConflict(k) ==
  /\ k.at = "check"
  /\ IF Conflict(k) THEN TaskGoes(k, "decline", "none")
                    ELSE TaskGoes(k, "accept", "checked")
  /\ UNCHANGED <<roomSetting, bookings, cancelled, roomMails, roomEdits>>

(* The row of the meeting, if there is one, stays in its room; a new one   *)
(* needs a calendar that still exists.                                     *)
Rows(k) == {b \in bookings : b.uid = k.uid}

CanUpsert(k) == Rows(k) # {} \/ roomSetting[Head(k.todo)] # "deleted"

Written(k, status) ==
  IF Rows(k) = {}
  THEN {[uid |-> k.uid, room |-> Head(k.todo), time |-> k.time, status |-> status,
         basis |-> k.basis]}
  ELSE {[b EXCEPT !.time = k.time, !.status = status,
                  !.basis = IF b.room = Head(k.todo) THEN k.basis ELSE "elsewhere"]
        : b \in Rows(k)}

Pend(k) ==
  /\ k.at = "pend"
  /\ CanUpsert(k)
  /\ bookings' = WithoutMeeting(k) \cup Written(k, "PENDING")
  /\ roomTasks' = Onward(k)
  /\ UNCHANGED <<roomSetting, cancelled, roomMails, roomEdits>>

(* A declined meeting that had a row keeps its old time.                   *)
Decline(k) ==
  /\ k.at = "decline"
  /\ CanUpsert(k)
  /\ bookings' = WithoutMeeting(k) \cup
       (IF Rows(k) = {} THEN Written(k, "DECLINED")
        ELSE {[b EXCEPT !.status = "DECLINED"] : b \in Rows(k)})
  /\ roomTasks' = Onward(k)
  /\ UNCHANGED <<roomSetting, cancelled, roomMails, roomEdits>>

(* History: whoever has checked a room, and not yet accepted, has checked  *)
(* too early.                                                              *)
Race(tasks, rooms) ==
  {IF j.at = "accept" /\ j.basis = "checked" /\ Head(j.todo) \in rooms
   THEN [j EXCEPT !.basis = "raced"] ELSE j : j \in tasks}

Accept(k) ==
  /\ k.at = "accept"
  /\ CanUpsert(k)
  /\ bookings' = WithoutMeeting(k) \cup Written(k, "ACCEPTED")
  /\ roomTasks' = Race(Onward(k), {b.room : b \in Written(k, "ACCEPTED")})
  /\ UNCHANGED <<roomSetting, cancelled, roomMails, roomEdits>>

(* A statement fails, or there is no calendar any more: the peer hears 451 *)
(* and may send again.                                                     *)
RoomThrows(k) ==
  /\ roomTasks' = roomTasks \ {k}
  /\ UNCHANGED <<roomSetting, bookings, cancelled, roomMails, roomEdits>>

-----------------------------------------------------------------------------
(* The administrator: PUT and DELETE of a resource, DELETE of a booking.   *)

RoomEdit ==
  /\ roomEdits < RoomMaxEdits /\ roomMails + roomEdits < RoomMaxActs
  /\ roomEdits' = roomEdits + 1
  /\ UNCHANGED <<roomTasks, cancelled, roomMails>>

PutRoom(r) ==
  /\ RoomEdit
  /\ roomSetting[r] # "deleted"
  /\ \E s \in RoomSettings : roomSetting' = [roomSetting EXCEPT ![r] = s]
  /\ UNCHANGED bookings

DeleteRoom(r) ==
  /\ RoomEdit
  /\ roomSetting[r] # "deleted"
  /\ roomSetting' = [roomSetting EXCEPT ![r] = "deleted"]
  /\ bookings' = {b \in bookings : b.room # r}

DeleteBooking(b) ==
  /\ RoomEdit
  /\ bookings' = bookings \ {b}
  /\ UNCHANGED roomSetting

RoomHandle(k) ==
  FindRoom(k) \/ DeleteBookings(k) \/ Pend(k) \/ CheckConflict(k) \/ Decline(k) \/ Accept(k)

RoomNext ==
  \/ \E h \in RoomHandlers : RoomArrive(h)
  \/ \E k \in roomTasks : RoomHandle(k) \/ RoomThrows(k)
  \/ \E r \in RoomIds : PutRoom(r) \/ DeleteRoom(r)
  \/ \E b \in bookings : DeleteBooking(b)

RoomSpec == RoomInit /\ [][RoomNext]_roomVars

-----------------------------------------------------------------------------
(* Properties.                                                             *)

(* Two accepted bookings of one room do not overlap, but for three cases:  *)
(* one was accepted without a check because the room said so, between the  *)
(* check and the acceptance another meeting was accepted, or the row of    *)
(* the meeting lies in another room than the one that was checked.         *)
OverlapIsExplained ==
  \A a, b \in bookings :
    /\ a # b /\ a.room = b.room
    /\ a.status = "ACCEPTED" /\ b.status = "ACCEPTED"
    /\ Overlap(a.time, b.time)
    => a.basis # "checked" \/ b.basis # "checked"

(* A meeting that was cancelled while no request for it was in work, and   *)
(* for which none has come since, holds no room: the row goes whichever of *)
(* its rooms it is in.                                                     *)
CancelledIsFree ==
  \A b \in bookings : b.uid \notin cancelled

(* What an organizer and the owner of a room may rely on.                  *)
BookingsHold == OverlapIsExplained /\ CancelledIsFree
=============================================================================
