------------------------------ MODULE Delivery ------------------------------
(***************************************************************************)
(* What the outbound path promises about one accepted message, without     *)
(* hosts, attempts, retries, listeners or crashes: parties are given the   *)
(* message one at a time while it is open, a mailbox of one's own may drop *)
(* it, it may be called sent only when all parties are through, and only a *)
(* failed message can be opened again.                                     *)
(***************************************************************************)
CONSTANTS
  Party,
  Private   \* the parties that may drop a message

VARIABLES reached, dropped, outcome

vars == <<reached, dropped, outcome>>

Init ==
  /\ reached = {} /\ dropped = {}
  /\ outcome = "open"

Hand(p) ==
  /\ outcome = "open"
  /\ reached' = reached \cup {p}
  /\ UNCHANGED <<dropped, outcome>>

Drop(p) ==
  /\ outcome = "open"
  /\ dropped' = dropped \cup {p}
  /\ UNCHANGED <<reached, outcome>>

Sent ==
  /\ outcome = "open"
  /\ reached \cup dropped = Party
  /\ outcome' = "sent"
  /\ UNCHANGED <<reached, dropped>>

(* Gives up: on the sender's request, or because it cannot be delivered;   *)
(* one more party may have it by then, without having said so.             *)
Give(up) ==
  /\ outcome = "open"
  /\ \/ UNCHANGED reached
     \/ \E p \in Party : reached' = reached \cup {p}
  /\ outcome' = up
  /\ UNCHANGED dropped

Reopen ==
  /\ outcome = "failed"
  /\ outcome' = "open"
  /\ UNCHANGED <<reached, dropped>>

Forget ==
  /\ outcome # "removed"
  /\ outcome' = "removed"
  /\ UNCHANGED <<reached, dropped>>

Next ==
  \/ \E p \in Party : Hand(p)
  \/ \E p \in Private : Drop(p)
  \/ Sent
  \/ \E up \in {"stopped", "failed"} : Give(up)
  \/ Reopen
  \/ Forget

Spec == Init /\ [][Next]_vars
=============================================================================
