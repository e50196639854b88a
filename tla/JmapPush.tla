------------------------------- MODULE JmapPush -------------------------------
(***************************************************************************)
(* Push of JMAP: from an account's change to the StateChange that a client *)
(* gets, over EventSource, WebSocket or Web Push.                          *)
(*                                                                         *)
(* Changes are announced on Redis; each connection notes the account and   *)
(* starts a timer, unless it has one (300 ms; Web Push: one second for an  *)
(* account).  When the timer fires, a flush takes the accounts noted,      *)
(* reads their states one after the other and sends them; a timer that     *)
(* fires meanwhile starts another flush beside it.  Node runs a handler to *)
(* its next await.                                                         *)
(*                                                                         *)
(* This is one connection, of one kind.  A state is a number that each     *)
(* change raises; JmapSync has the reading of one.  Types, pings and the   *)
(* encryption of Web Push are left out, and so is the look-up of a         *)
(* folder's account before an announcement is acted upon.                  *)
(***************************************************************************)
EXTENDS Naturals

CONSTANTS
  PushAccounts,    \* of the client
  PushSlots,       \* bound: flushes under way at one time
  PushMaxState,    \* bound: states of each account
  PushMaxToggles,  \* bound: acts of the client
  PushMaxFaults    \* bound: statements and posts that fail, announcements lost

ASSUME PushAssumption ==
  PushMaxState \in [PushAccounts -> Nat] /\ PushMaxToggles \in Nat /\ PushMaxFaults \in Nat

VARIABLES
  pushKind,      \* of the connection
  pushOpen,      \* connected; WebSocket: pushEnabled; Web Push: verified
  pushOnce,      \* EventSource: closeafter=state
  pushState,     \* the state of each account
  pushNews,      \* announcements of each account on their way
  pushDirty,     \* accounts noted
  pushTimer,     \* the timer runs
  pushFlush,     \* the flushes
  pushSent,      \* the newest state of each account that was sent
  pushHeard,     \* history: the state when its last announcement was heard
  pushLost,      \* history: accounts whose note was lost by a failure or a pause
  pushToggles,
  pushFaults

pushVars == <<pushKind, pushOpen, pushOnce, pushState, pushNews, pushDirty, pushTimer, pushFlush,
              pushSent, pushHeard, pushLost, pushToggles, pushFaults>>

NothingSent == [a \in PushAccounts |-> 0]

PushFlush == [at : {"idle", "resolve", "read"}, todo : SUBSET PushAccounts, all : BOOLEAN,
              got : [PushAccounts -> Nat]]
NoFlush   == [at |-> "idle", todo |-> {}, all |-> FALSE, got |-> NothingSent]

PushTypeOK ==
  /\ pushKind \in {"eventsource", "websocket", "webpush"}
  /\ pushOpen \in BOOLEAN /\ pushOnce \in BOOLEAN
  /\ pushState \in [PushAccounts -> Nat]
  /\ pushNews \in [PushAccounts -> Nat]
  /\ pushDirty \subseteq PushAccounts
  /\ pushTimer \in BOOLEAN
  /\ pushFlush \in [PushSlots -> PushFlush]
  /\ pushSent \in [PushAccounts -> Nat]
  /\ pushHeard \in [PushAccounts -> Nat]
  /\ pushLost \subseteq PushAccounts
  /\ pushToggles \in 0..PushMaxToggles /\ pushFaults \in 0..PushMaxFaults

(* An EventSource is open from its start; a WebSocket has to be enabled, a *)
(* subscription to be verified.                                            *)
PushInit ==
  /\ pushKind \in {"eventsource", "websocket", "webpush"}
  /\ pushOpen = (pushKind = "eventsource")
  /\ pushOnce \in {FALSE, pushKind = "eventsource"}
  /\ pushState = [a \in PushAccounts |-> 1]
  /\ pushNews = [a \in PushAccounts |-> 0]
  /\ pushDirty = {} /\ pushTimer = FALSE
  /\ pushFlush = [f \in PushSlots |-> NoFlush]
  /\ pushSent = NothingSent /\ pushHeard = NothingSent /\ pushLost = {}
  /\ pushToggles = 0 /\ pushFaults = 0

PushFault == pushFaults < PushMaxFaults /\ pushFaults' = pushFaults + 1

PushGoes(f, rec) == pushFlush' = [pushFlush EXCEPT ![f] = rec]

-----------------------------------------------------------------------------
(* Changes.                                                                *)

(* A writer changes the account and then announces it.                     *)
PushChange(a) ==
  /\ pushState[a] < PushMaxState[a]
  /\ pushState' = [pushState EXCEPT ![a] = @ + 1]
  /\ \/ pushNews' = [pushNews EXCEPT ![a] = @ + 1] /\ UNCHANGED pushFaults
     \/ PushFault /\ UNCHANGED pushNews
  /\ UNCHANGED <<pushKind, pushOpen, pushOnce, pushDirty, pushTimer, pushFlush, pushSent,
                 pushHeard, pushLost, pushToggles>>

(* Web Push has a timer for each account, whatever the subscriptions; the  *)
(* others note the account while they are open.                            *)
Listens == pushOpen \/ pushKind = "webpush"

Noted_First(a) == IF pushTimer THEN pushDirty ELSE pushDirty \cup {a}

Noted(a) == pushDirty \cup {a}

OnChange(a) ==
  /\ pushNews[a] > 0
  /\ pushNews' = [pushNews EXCEPT ![a] = @ - 1]
  /\ IF Listens
     THEN /\ pushDirty' = Noted(a)
          /\ pushTimer' = TRUE
          /\ pushHeard' = [pushHeard EXCEPT ![a] = pushState[a]]
          /\ pushLost' = pushLost \ {a}
     ELSE UNCHANGED <<pushDirty, pushTimer, pushHeard, pushLost>>
  /\ UNCHANGED <<pushKind, pushOpen, pushOnce, pushState, pushFlush, pushSent, pushToggles,
                 pushFaults>>

-----------------------------------------------------------------------------
(* Flushes.                                                                *)

(* EventSource and Web Push take the notes at once.  WebSocket asks for    *)
(* the client's accounts first and takes them then; one that is disabled   *)
(* lets the notes lie.                                                     *)
FirstAwait == IF pushKind = "webpush" THEN "resolve" ELSE "read"

TimerFires(f) ==
  /\ pushTimer /\ pushFlush[f].at = "idle"
  /\ pushTimer' = FALSE
  /\ \/ /\ pushKind = "websocket" /\ ~pushOpen
        /\ pushLost' = pushLost \cup pushDirty
        /\ UNCHANGED <<pushDirty, pushFlush>>
     \/ /\ pushKind = "websocket" /\ pushOpen
        /\ PushGoes(f, [NoFlush EXCEPT !.at = "resolve"])
        /\ UNCHANGED <<pushDirty, pushLost>>
     \/ /\ pushKind # "websocket"
        /\ PushGoes(f, [NoFlush EXCEPT !.todo = pushDirty, !.at = FirstAwait])
        /\ pushDirty' = {}
        /\ UNCHANGED pushLost
  /\ UNCHANGED <<pushKind, pushOpen, pushOnce, pushState, pushNews, pushSent, pushHeard,
                 pushToggles, pushFaults>>

(* resolveAccounts; Web Push: usersForAccount and the subscriptions.       *)
PushTaken == pushDirty

Resolve(f) ==
  /\ pushFlush[f].at = "resolve"
  /\ \/ /\ pushFlush[f].all
        /\ PushGoes(f, [pushFlush[f] EXCEPT !.at = "read", !.todo = PushAccounts])
        /\ UNCHANGED <<pushDirty, pushLost>>
     \/ /\ pushKind = "websocket" /\ ~pushFlush[f].all
        /\ PushGoes(f, [pushFlush[f] EXCEPT !.at = "read", !.todo = PushTaken])
        /\ pushDirty' = {}
        /\ UNCHANGED pushLost
     \/ /\ pushKind = "webpush" /\ pushOpen
        /\ PushGoes(f, [pushFlush[f] EXCEPT !.at = "read"])
        /\ UNCHANGED <<pushDirty, pushLost>>
     \/ /\ pushKind = "webpush" /\ ~pushOpen
        /\ PushGoes(f, NoFlush)
        /\ pushLost' = pushLost \cup pushFlush[f].todo
        /\ UNCHANGED pushDirty
  /\ UNCHANGED <<pushKind, pushOpen, pushOnce, pushState, pushNews, pushTimer, pushSent,
                 pushHeard, pushToggles, pushFaults>>

(* buildStateChange, one account.                                          *)
ReadAccount(f, a) ==
  /\ pushFlush[f].at = "read" /\ a \in pushFlush[f].todo
  /\ PushGoes(f, [pushFlush[f] EXCEPT !.todo = @ \ {a}, !.got[a] = pushState[a]])
  /\ UNCHANGED <<pushKind, pushOpen, pushOnce, pushState, pushNews, pushDirty, pushTimer,
                 pushSent, pushHeard, pushLost, pushToggles, pushFaults>>

Newest(f) ==
  [a \in PushAccounts |-> IF pushFlush[f].got[a] > pushSent[a] THEN pushFlush[f].got[a]
                          ELSE pushSent[a]]

(* All is read, and sent; flushes that overlap may come in any order, and  *)
(* one with nothing to say ends here too.  closeafter=state ends the       *)
(* connection, with its timer.                                             *)
PushSends(f) ==
  /\ pushFlush[f].at = "read" /\ pushFlush[f].todo = {}
  /\ PushGoes(f, NoFlush)
  /\ pushSent' = Newest(f)
  /\ IF pushOnce /\ pushFlush[f].got # NothingSent
     THEN pushOpen' = FALSE /\ pushTimer' = FALSE
     ELSE UNCHANGED <<pushOpen, pushTimer>>
  /\ UNCHANGED <<pushKind, pushOnce, pushState, pushNews, pushDirty, pushHeard, pushLost,
                 pushToggles, pushFaults>>

(* A query fails, or Web Push's post: there is a warning in the log.  The  *)
(* accounts a flush has taken are lost; those that WebSocket has not taken *)
(* yet lie until the next timer, if there is none already.                 *)
Forgone(f) ==
  IF pushKind = "websocket" /\ pushFlush[f].at = "resolve"
  THEN IF pushTimer \/ pushFlush[f].all THEN {} ELSE pushDirty
  ELSE pushFlush[f].todo \cup {a \in PushAccounts : pushFlush[f].got[a] > 0}

PushFails(f) ==
  /\ pushFlush[f].at # "idle"
  /\ PushFault
  /\ PushGoes(f, NoFlush)
  /\ pushLost' = pushLost \cup Forgone(f)
  /\ UNCHANGED <<pushKind, pushOpen, pushOnce, pushState, pushNews, pushDirty, pushTimer,
                 pushSent, pushHeard, pushToggles>>

-----------------------------------------------------------------------------
(* The client.                                                             *)

PushToggle == pushToggles < PushMaxToggles /\ pushToggles' = pushToggles + 1

(* WebSocketPushEnable, with pushState or without; a Web Push subscription *)
(* is verified.                                                            *)
PushEnable(f) ==
  /\ PushToggle
  /\ pushKind # "eventsource"
  /\ pushOpen' = TRUE
  /\ \/ pushKind = "websocket" /\ pushFlush[f].at = "idle"
        /\ PushGoes(f, [NoFlush EXCEPT !.at = "resolve", !.all = TRUE])
     \/ UNCHANGED pushFlush
  /\ UNCHANGED <<pushKind, pushOnce, pushState, pushNews, pushDirty, pushTimer, pushSent,
                 pushHeard, pushLost, pushFaults>>

(* WebSocketPushDisable; a subscription is destroyed or runs out; the      *)
(* client of an EventSource hangs up, which ends its timer.                *)
PushDisable ==
  /\ PushToggle
  /\ pushOpen
  /\ pushOpen' = FALSE
  /\ pushTimer' = (pushTimer /\ pushKind # "eventsource")
  /\ UNCHANGED <<pushKind, pushOnce, pushState, pushNews, pushDirty, pushFlush, pushSent,
                 pushHeard, pushLost, pushFaults>>

PushNext ==
  \/ \E a \in PushAccounts : PushChange(a) \/ OnChange(a)
  \/ \E f \in PushSlots : TimerFires(f) \/ Resolve(f) \/ PushSends(f) \/ PushFails(f)
                          \/ PushEnable(f)
  \/ \E f \in PushSlots, a \in PushAccounts : ReadAccount(f, a)
  \/ PushDisable

PushSpec == PushInit /\ [][PushNext]_pushVars

-----------------------------------------------------------------------------
(* Properties.                                                             *)

(* When a connection is open and at rest, with no timer and no flush, the  *)
(* client has been sent a state no older than the last announcement it     *)
(* heard, for each account: none falls between a timer that has fired, a   *)
(* flush at an await and the next timer.  Left out are accounts whose note *)
(* was lost because a query or a post failed, or the client paused.        *)
AtRest == pushOpen /\ ~pushTimer /\ \A f \in PushSlots : pushFlush[f].at = "idle"

NothingForgotten ==
  AtRest => \A a \in PushAccounts \ pushLost : pushSent[a] >= pushHeard[a]
=============================================================================
