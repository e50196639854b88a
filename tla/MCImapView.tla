------------------------------- MODULE MCImapView -------------------------------
(* One IMAP client that waits for its answers. *)
EXTENDS ImapView, TLC

CONSTANTS s1, f1

OneSession == {s1}
OneFolder  == {f1}
Patient    == {}
FourLines  == s1 :> 4
Storing    == s1 :> {"FETCH", "STORE", "EXPUNGE"}
Mark       == {[op |-> "+", flag |-> "Deleted"]}
=============================================================================
