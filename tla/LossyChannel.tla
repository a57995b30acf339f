----------------------------- MODULE LossyChannel -----------------------------
(***************************************************************************)
(* What ingestion promises whoever pushes a record and whoever reads the    *)
(* streams: a channel that keeps the order, delivers a record to the stream *)
(* that it names, drops malformed ones, and with each fault may lose the    *)
(* first few records on their way, a batch at most.  How the consumer does  *)
(* it is Ingest.                                                           *)
(***************************************************************************)
EXTENDS Naturals, SequencesExt

CONSTANTS Streams, Malformed, Batch

VARIABLES
    sent,       \* the stream that each record names, by its arrival
    transit,    \* the records on their way, in order
    streams,    \* the records of each stream
    faults      \* what may have cost records

Init ==
    /\ sent = <<>> /\ transit = <<>>
    /\ streams = [s \in Streams |-> <<>>]
    /\ faults = 0

Pushed(to) ==
    /\ sent' = Append(sent, to)
    /\ transit' = Append(transit, Len(sent) + 1)
    /\ UNCHANGED <<streams, faults>>

Delivered ==
    /\ transit # <<>>
    /\ sent[Head(transit)] \in Streams
    /\ streams' = [streams EXCEPT ![sent[Head(transit)]] = Append(@, Head(transit))]
    /\ transit' = Tail(transit)
    /\ UNCHANGED <<sent, faults>>

Discarded ==
    /\ \E i \in 1..Len(transit) :
        /\ i <= Batch
        /\ sent[transit[i]] = Malformed
        /\ transit' = RemoveAt(transit, i)
    /\ UNCHANGED <<sent, streams, faults>>

Lost ==
    /\ \E i \in 0..Len(transit) :
        /\ i <= Batch
        /\ transit' = SubSeq(transit, i + 1, Len(transit))
    /\ faults' = faults + 1
    /\ UNCHANGED <<sent, streams>>

Next == (\E to \in Streams \cup {Malformed} : Pushed(to)) \/ Delivered \/ Discarded \/ Lost

Spec == Init /\ [][Next]_<<sent, transit, streams, faults>>
=============================================================================
