--------------------------- MODULE ContainerStats ---------------------------
(***************************************************************************)
(* container_stats.py beside the registry it asks: one `docker stats` per   *)
(* cycle, a look at the registry's ids when it is back, and a record for    *)
(* each known row with an await per record, while listings come in and the  *)
(* tracker forgets containers.  Rows come in any order; what a row says is  *)
(* left out, except that it may be one that raises ValueError.             *)
(***************************************************************************)
EXTENDS Registry

VARIABLES
    spc,        \* the sampler: "sleeping", "sampling" (docker stats runs),
                \* "shipping" (a record), "crashed" (and the process with it)
    rows,       \* known rows of the answer that are still to come
    shipped,    \* the container of the record being shipped, as a set
    forgotten   \* forgotten since the answer came (history)

sampler == <<spc, rows, shipped, forgotten>>
statsVars == <<vars, sampler>>

StatsInit == Init /\ spc = "sleeping" /\ rows = {} /\ shipped = {} /\ forgotten = {}

-----------------------------------------------------------------------------
StatsStarts ==
    /\ spc = "sleeping"
    /\ spc' = "sampling"
    /\ UNCHANGED <<vars, rows, shipped, forgotten>>

(* A nonzero exit (TransportError), then the next cycle *)
StatsFails ==
    /\ spc = "sampling"
    /\ spc' = "sleeping"
    /\ UNCHANGED <<vars, rows, shipped, forgotten>>

(* Mutant of CycleFails: the `try` is around the loop instead of in it *)
CycleFailsForGood == spc' = "ended" /\ rows' = {} /\ shipped' = {}

(* A row that is no JSON or makes no record: the rest of the answer is      *)
(* dropped with it                                                         *)
CycleFails == spc' = "sleeping" /\ rows' = {} /\ shipped' = {}

(* Mutant of KnownIds: every row is taken *)
AnyIds == Containers

KnownIds == Entries

(* The loop goes on to its next known row, or to its end *)
NextRow(todo) ==
    \/ \E c \in todo : spc' = "shipping" /\ shipped' = {c} /\ rows' = todo \ {c}
    \/ todo = {} /\ spc' = "sleeping" /\ rows' = {} /\ shipped' = {}
    \/ CycleFails

StatsReturns ==
    /\ spc = "sampling"
    /\ \E answer \in SUBSET Containers : NextRow(answer \cap KnownIds)
    /\ forgotten' = {}
    /\ UNCHANGED vars

Ships ==
    /\ spc = "shipping"
    /\ NextRow(rows)
    /\ UNCHANGED <<vars, forgotten>>

(* A command that cannot be run, a row that is JSON but no object *)
Crashes ==
    /\ spc \in {"sampling", "shipping"}
    /\ spc' = "crashed" /\ rows' = {} /\ shipped' = {}
    /\ UNCHANGED <<vars, forgotten>>

Listing == \E listing \in SUBSET Containers : update(listing) /\ UNCHANGED sampler

Forgetting ==
    \E c \in Containers :
        forget(c) /\ forgotten' = forgotten \cup {c} /\ UNCHANGED <<spc, rows, shipped>>

SamplerStep == StatsStarts \/ StatsFails \/ StatsReturns \/ Ships

Gone == spc = "crashed" /\ UNCHANGED statsVars

StatsNext ==
    \/ spc # "crashed" /\ (Listing \/ Forgetting \/ SamplerStep \/ Crashes)
    \/ Gone

(* Commands and log calls return *)
StatsSpec == StatsInit /\ [][StatsNext]_statsVars /\ WF_statsVars(SamplerStep)

-----------------------------------------------------------------------------
(* A container that has been torn down is sampled no more, but by the answer *)
(* that was being worked on when the tracker forgot it.                    *)
StraysAreOfOneAnswer == shipped \subseteq Entries \cup forgotten

(* No row and no failing command ends the sampling of the other containers   *)
(* for good, unless the process goes down.                                  *)
SamplingGoesOn == []<>(spc = "sampling") \/ <>[](spc = "crashed")

(* container_stats.py 7-8: "a container that has already been torn down      *)
(* doesn't get one last stray sample".  But known_ids is not looked at again *)
(* after the await of a record.                                            *)
NoStraySample == [][shipped' # shipped => shipped' \subseteq Entries]_statsVars
=============================================================================
