--------------------------- MODULE MCOutboundQueue ---------------------------
(* Instances of OutboundQueue: a local recipient and an external one. *)
EXTENDS OutboundQueue, TLC

CONSTANTS e1, h1

MCHopOfOne   == e1 :> h1
MCHostsOfOne == h1 :> 1
=============================================================================
