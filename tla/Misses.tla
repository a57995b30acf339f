------------------------------- MODULE Misses -------------------------------
(***************************************************************************)
(* The liveness arithmetic of the registry, seen by one daemon.            *)
(*                                                                         *)
(* Registry.update numbers the `docker ps` listings of a daemon and stamps *)
(* every listed container with the number of the listing; container_tracker*)
(* only ever looks at the difference listing_seq - last_seen_seq and only  *)
(* compares it with missing_threshold_cycles.  A container is therefore    *)
(* described by whether it is known (has an entry in DaemonState.containers)*)
(* and by a miss count cut off at Threshold.  Registry.tla shows that the   *)
(* exact counters implement this view; Watch.tla is built on it.           *)
(***************************************************************************)
EXTENDS Naturals

CONSTANTS
    Containers,     \* container ids a daemon may ever list
    Threshold       \* missing_threshold_cycles

(* config.py puts no lower bound on missing_threshold_cycles; a negative    *)
(* value behaves like 0, every listener is stopped by every sweep.         *)
ASSUME ThresholdAssumption == Threshold \in Nat

(* Mutant of NewRefs: every listed container is reported as new.           *)
AllRefs(known, listing) == listing

(* Registry.update: the ids of a listing that have no entry yet.  These,    *)
(* and only these, are handed to the on_new_container callback.            *)
NewRefs(known, listing) == listing \ known

(* Mutant of KnownAfter: update() drops what is missing on the first miss. *)
KnownIfListed(known, listing) == listing

(* Registry.update: every listed container gets an entry.                  *)
KnownAfter(known, listing) == known \cup listing

(* listing_seq - last_seen_seq after one more listing: 0 for the listed    *)
(* containers, one more (up to the cut-off) for the known ones left out.   *)
MissesAfter(known, misses, listing) ==
    [c \in Containers |->
        IF c \in listing \/ c \notin known THEN 0
        ELSE IF misses[c] < Threshold THEN misses[c] + 1 ELSE Threshold]

(* Registry.forget drops the entry (pop with a default: no-op if absent).   *)
KnownWithout(known, c) == known \ {c}
MissesWithout(misses, c) == [misses EXCEPT ![c] = 0]

(* Mutant of Vanished: only a container with no entry counts as missing.   *)
GoneFromRegistry(known, misses, c) == c \notin known

(* ContainerTracker.run_once: a container with no entry counts as missing  *)
(* for the whole threshold.                                                *)
Vanished(known, misses, c) == c \in known => misses[c] >= Threshold
=============================================================================
