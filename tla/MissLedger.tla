----------------------------- MODULE MissLedger -----------------------------
(***************************************************************************)
(* What the registry promises the tracker about one daemon: the miss count *)
(* of a known container grows by one with every listing that leaves it out *)
(* and is zero after a listing that names it.  The process keeps the ledger*)
(* in memory only, so a restart starts an empty one.                       *)
(***************************************************************************)
EXTENDS Misses

VARIABLES
    known,      \* ids with an entry in DaemonState.containers
    misses      \* listing_seq - last_seen_seq, cut off at Threshold

ledger == <<known, misses>>

Init == known = {} /\ misses = [c \in Containers |-> 0]

(* Registry.update with the set of ids of one `docker ps` listing *)
Listed(listing) ==
    /\ known' = KnownAfter(known, listing)
    /\ misses' = MissesAfter(known, misses, listing)

(* Registry.forget *)
Forgotten(c) ==
    /\ known' = KnownWithout(known, c)
    /\ misses' = MissesWithout(misses, c)

(* The listener process died and was restarted by its supervisor *)
Lost == known' = {} /\ misses' = [c \in Containers |-> 0]

Next == \/ \E listing \in SUBSET Containers : Listed(listing)
        \/ \E c \in Containers : Forgotten(c)
        \/ Lost

Spec == Init /\ [][Next]_ledger
=============================================================================
