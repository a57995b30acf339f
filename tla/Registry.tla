------------------------------ MODULE Registry ------------------------------
(***************************************************************************)
(* registry.py for one daemon, with its counters at full precision:        *)
(* DaemonState.listing_seq and the last_seen_seq of every entry.  update() *)
(* has no await between its reads and writes, so each call is one action   *)
(* (its callbacks into the spawner are in Watch.tla).                      *)
(***************************************************************************)
EXTENDS Misses, Sequences

CONSTANT MaxListings    \* bound: listings per process lifetime

ASSUME MaxListingsAssumption == MaxListings \in Nat

VARIABLES
    listing_seq,    \* DaemonState.listing_seq
    last_seen,      \* ContainerState.last_seen_seq; 0: no entry
    history         \* history variable: the listings, in order

vars == <<listing_seq, last_seen, history>>

Entries == {c \in Containers : last_seen[c] # 0}

Init ==
    /\ listing_seq = 0
    /\ last_seen = [c \in Containers |-> 0]
    /\ history = <<>>

(* Mutant of Stamped: the number of the listing before *)
StampedLate(seq, listing) ==
    [c \in Containers |-> IF c \in listing THEN seq - 1 ELSE last_seen[c]]

Stamped(seq, listing) ==
    [c \in Containers |-> IF c \in listing THEN seq ELSE last_seen[c]]

update(listing) ==
    /\ listing_seq < MaxListings
    /\ listing_seq' = listing_seq + 1
    /\ last_seen' = Stamped(listing_seq', listing)
    /\ history' = Append(history, listing)

forget(c) ==
    /\ last_seen' = [last_seen EXCEPT ![c] = 0]
    /\ UNCHANGED <<listing_seq, history>>

Next ==
    \/ \E listing \in SUBSET Containers : update(listing)
    \/ \E c \in Containers : forget(c)

Spec == Init /\ [][Next]_vars

-----------------------------------------------------------------------------
TypeOK ==
    /\ listing_seq \in Nat
    /\ last_seen \in [Containers -> Nat]
    /\ history \in Seq(SUBSET Containers)

(* What container_tracker computes, cut off where it stops mattering       *)
MissCount(c) ==
    LET missed == listing_seq - last_seen[c]
    IN  IF last_seen[c] = 0 THEN 0
        ELSE IF missed < Threshold THEN missed ELSE Threshold

(* The subtraction of container_tracker.run_once means what the doc says:   *)
(* a known container was in the listing its entry is stamped with and in    *)
(* none of the later ones, so the miss count is a number of CONSECUTIVE    *)
(* absences and one reappearance resets it.                                *)
MissesAreConsecutiveAbsences ==
    /\ Len(history) = listing_seq
    /\ \A c \in Entries :
        /\ last_seen[c] \in 1..listing_seq
        /\ c \in history[last_seen[c]]
        /\ \A i \in (last_seen[c] + 1)..listing_seq : c \notin history[i]

Ledger == INSTANCE MissLedger
    WITH known <- Entries, misses <- [c \in Containers |-> MissCount(c)]

(* registry.py keeps the ledger of MissLedger.tla: the exact counters of    *)
(* update() and forget() move the cut-off miss counts the way it allows.   *)
LedgerSpec == Ledger!Spec
=============================================================================
