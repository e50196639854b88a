------------------------------ MODULE MCMailStore ------------------------------
(* Instances of MailStore: which requests are served at the same time. *)
EXTENDS MailStore, TLC

CONSTANTS w1, w2

(* A request that creates a message beside one that changes messages; all  *)
(* take their UID from the increment.                                      *)
Creating == {"deliver", "append"}
Changing == {"jmapCreate", "createItem", "move", "store", "expunge", "jmapUpdate",
             "jmapDestroy"}
Allocating == w1 :> Creating @@ w2 :> Changing

(* A request that uses a UIDNEXT it read before, beside another one and    *)
(* beside a delivery.                                                      *)
Stale == w1 :> {"deliver", "import"} @@ w2 :> {"copy"}

(* All that keep the counts, and the one JMAP client that updates and      *)
(* destroys.                                                               *)
Counting == w1 :> {"deliver", "jmapCreate", "createItem", "import"}
         @@ w2 :> {"deliver", "jmapCreate", "store", "jmapUpdate", "jmapDestroy"}

MCMixes   == {Allocating, Stale, Counting}

Symmetry == Permutations(Ids)
=============================================================================
