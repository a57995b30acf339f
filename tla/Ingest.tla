------------------------------- MODULE Ingest -------------------------------
(***************************************************************************)
(* The ingestion consumer of log-server: it moves records from the Redis   *)
(* list that Logstash RPUSHes to into one Redis stream per daemon and kind. *)
(* A record is the number of its arrival; sent[n] is the stream that its   *)
(* docker_host and kind name, or Malformed.                                *)
(*                                                                         *)
(* Redis executes the commands of the pipeline one by one, and a command    *)
(* may be executed although its reply never arrives.  The client does not   *)
(* send a command again on its own.                                        *)
(***************************************************************************)
EXTENDS Naturals, SequencesExt

CONSTANTS
    Streams,        \* stream keys
    Malformed,      \* what a record is that RecordAdapter refuses
    BatchSize,      \* BATCH_SIZE
    MaxSent,        \* bound: records that Logstash pushes
    MaxFaults       \* bound: refused commands, lost connections, restarts

ASSUME IngestAssumption ==
    /\ Malformed \notin Streams
    /\ BatchSize \in Nat \ {0}

VARIABLES
    sent,           \* what Logstash has pushed, in order (history)
    inbox,          \* INGEST_LIST
    cpc,            \* "polling" (BLPOP), "draining" (LPOP), "validating",
                    \* "writing" (the pipeline), "backoff", "down"
    batch,          \* _consume_once's batch
    queued,         \* XADDs of the pipeline that Redis has not executed
    refused,        \* one of them was answered by an error
    streams,        \* the records of each stream, in stream order
    faults          \* how often something went wrong (bounded)

vars == <<sent, inbox, cpc, batch, queued, refused, streams, faults>>

-----------------------------------------------------------------------------
Init ==
    /\ sent = <<>> /\ inbox = <<>>
    /\ cpc = "polling"
    /\ batch = <<>> /\ queued = <<>> /\ refused = FALSE
    /\ streams = [s \in Streams |-> <<>>]
    /\ faults = 0

(* Logstash's redis output *)
Push(to) ==
    /\ Len(sent) < MaxSent
    /\ sent' = Append(sent, to)
    /\ inbox' = Append(inbox, Len(sent) + 1)
    /\ UNCHANGED <<cpc, batch, queued, refused, streams, faults>>

(* How much one command pops: LPOP key count takes what there is *)
Popped(count) == IF count < Len(inbox) THEN count ELSE Len(inbox)
Rest(count) == SubSeq(inbox, Popped(count) + 1, Len(inbox))

(* blpop returns an entry, or None after POLL_TIMEOUT_S *)
Blpop ==
    /\ cpc = "polling"
    /\ inbox # <<>>
    /\ batch' = <<Head(inbox)>>
    /\ inbox' = Tail(inbox)
    /\ cpc' = IF BatchSize > 1 THEN "draining" ELSE "validating"
    /\ UNCHANGED <<sent, queued, refused, streams, faults>>

PollTimesOut == cpc = "polling" /\ inbox = <<>> /\ UNCHANGED vars

(* Mutant of Lpop: the entry that blpop returned is not counted *)
LpopFullBatch ==
    /\ cpc = "draining"
    /\ batch' = batch \o SubSeq(inbox, 1, Popped(BatchSize))
    /\ inbox' = Rest(BatchSize)
    /\ cpc' = "validating"
    /\ UNCHANGED <<sent, queued, refused, streams, faults>>

(* lpop of up to BatchSize - 1 more *)
Lpop ==
    /\ cpc = "draining"
    /\ batch' = batch \o SubSeq(inbox, 1, Popped(BatchSize - 1))
    /\ inbox' = Rest(BatchSize - 1)
    /\ cpc' = "validating"
    /\ UNCHANGED <<sent, queued, refused, streams, faults>>

Valid(n) == sent[n] # Malformed

(* Mutant of Validate: an invalid record takes its batch with it *)
ValidateBatch ==
    /\ cpc = "validating"
    /\ batch # <<>>
    /\ queued' = IF Valid(Head(batch)) THEN Append(queued, Head(batch)) ELSE <<>>
    /\ batch' = IF Valid(Head(batch)) THEN Tail(batch) ELSE <<>>
    /\ UNCHANGED <<sent, inbox, cpc, refused, streams, faults>>

(* The loop of _ingest_batch takes the next record of the batch: an invalid  *)
(* one is logged, in an executor, and dropped                              *)
Validate ==
    /\ cpc = "validating"
    /\ batch # <<>>
    /\ queued' = IF Valid(Head(batch)) THEN Append(queued, Head(batch)) ELSE queued
    /\ batch' = Tail(batch)
    /\ UNCHANGED <<sent, inbox, cpc, refused, streams, faults>>

(* The loop is over: pipe.execute(), if there is anything to write *)
Execute ==
    /\ cpc = "validating"
    /\ batch = <<>>
    /\ cpc' = IF queued = <<>> THEN "polling" ELSE "writing"
    /\ UNCHANGED <<sent, inbox, batch, queued, refused, streams, faults>>

(* Redis executes the next command of the pipeline *)
Xadd ==
    /\ cpc = "writing"
    /\ queued # <<>>
    /\ streams' = [streams EXCEPT ![sent[Head(queued)]] = Append(@, Head(queued))]
    /\ queued' = Tail(queued)
    /\ UNCHANGED <<sent, inbox, cpc, batch, refused, faults>>

(* Mutant of XaddRefused: the record is tried again after the others *)
XaddRetried ==
    /\ cpc = "writing"
    /\ queued # <<>>
    /\ faults < MaxFaults
    /\ faults' = faults + 1
    /\ queued' = Append(Tail(queued), Head(queued))
    /\ UNCHANGED <<sent, inbox, cpc, batch, refused, streams>>

(* ... or answers it with an error, such as OOM *)
XaddRefused ==
    /\ cpc = "writing"
    /\ queued # <<>>
    /\ faults < MaxFaults
    /\ faults' = faults + 1
    /\ queued' = Tail(queued)
    /\ refused' = TRUE
    /\ UNCHANGED <<sent, inbox, cpc, batch, streams>>

(* execute() has all the replies; it raises the first error among them *)
ExecuteReturns ==
    /\ cpc = "writing"
    /\ queued = <<>>
    /\ cpc' = IF refused THEN "backoff" ELSE "polling"
    /\ refused' = FALSE
    /\ UNCHANGED <<sent, inbox, batch, queued, streams, faults>>

(* Mutant of BackoffOver: the error ends the task *)
NoNextCycle == cpc = "backoff" /\ UNCHANGED vars

(* asyncio.sleep(ERROR_BACKOFF_S), then the next cycle *)
BackoffOver ==
    /\ cpc = "backoff"
    /\ cpc' = "polling"
    /\ UNCHANGED <<sent, inbox, batch, queued, refused, streams, faults>>

(* The cycle in progress comes to nothing.  A pop in flight may have been   *)
(* executed all the same.                                                  *)
Abandoned(next) ==
    /\ faults < MaxFaults
    /\ faults' = faults + 1
    /\ cpc' = next
    /\ batch' = <<>> /\ queued' = <<>> /\ refused' = FALSE
    /\ \/ inbox' = inbox
       \/ cpc = "polling" /\ inbox' = Rest(1)
       \/ cpc = "draining" /\ inbox' = Rest(BatchSize - 1)
    /\ UNCHANGED <<sent, streams>>

(* The connection breaks under a command: RedisError *)
ConnectionLost == cpc \in {"polling", "draining", "writing"} /\ Abandoned("backoff")

(* log-server crashes, or its lifespan cancels the consumer at an await *)
ServerStops == cpc # "down" /\ Abandoned("down")

ServerStarts ==
    /\ cpc = "down"
    /\ cpc' = "polling"
    /\ UNCHANGED <<sent, inbox, batch, queued, refused, streams, faults>>

Consume == Blpop \/ PollTimesOut \/ Lpop \/ Validate \/ Execute \/ Xadd
           \/ ExecuteReturns \/ BackoffOver

Next ==
    \/ \E to \in Streams \cup {Malformed} : Push(to)
    \/ Consume
    \/ XaddRefused \/ ConnectionLost
    \/ ServerStops \/ ServerStarts

Spec == Init /\ [][Next]_vars

(* The consumer task runs, Redis answers, s6 restarts log-server; faults    *)
(* are finitely many.                                                      *)
FairSpec == Spec /\ WF_vars(Consume) /\ WF_vars(ServerStarts)

-----------------------------------------------------------------------------
(* Records that the consumer has taken off the list, then those still on it *)
OnTheWay == queued \o batch \o inbox
Stored == UNION {ToSet(streams[s]) : s \in Streams}

TypeOK ==
    /\ sent \in Seq(Streams \cup {Malformed})
    /\ cpc \in {"polling", "draining", "validating", "writing", "backoff", "down"}
    /\ inbox \in Seq(Nat) /\ batch \in Seq(Nat) /\ queued \in Seq(Nat)
    /\ Len(queued) + Len(batch) <= BatchSize
    /\ refused \in BOOLEAN
    /\ streams \in [Streams -> Seq(Nat)]
    /\ faults \in Nat

Increasing(seq) == \A i, j \in 1..Len(seq) : i < j => seq[i] < seq[j]

(* The streams keep the order of arrival and hold no record twice, through  *)
(* every failure; and whatever is on its way arrived, in its order, after   *)
(* all that is stored.                                                     *)
ArrivalOrderKept ==
    /\ Increasing(OnTheWay)
    /\ \A s \in Streams : Increasing(streams[s])
    /\ \A n \in Stored, m \in ToSet(OnTheWay) : n < m

(* Valid records that are neither stored nor on their way *)
Missing == {n \in 1..Len(sent) : Valid(n)} \ (Stored \cup ToSet(OnTheWay))

(* Nothing goes missing without a fault, one fault costs one batch at most  *)
(* and only the batch in hand or just popped, and nothing stored is lost.  *)
LossNeedsAFault ==
    [][/\ Missing' # Missing => faults' = faults + 1
       /\ Cardinality(Missing' \ Missing) <= BatchSize
       /\ Stored \subseteq Stored']_vars

(* All faults together cost a batch each at most, and without any every     *)
(* valid record is stored or on its way.                                   *)
LossIsBounded == Cardinality(Missing) <= BatchSize * faults

(* A record is stored in the stream of the daemon and kind that it names.   *)
StoredWhereNamed ==
    \A s \in Streams : \A n \in ToSet(streams[s]) : n \in 1..Len(sent) /\ sent[n] = s

(* Ingestion is an ordered channel that loses a batch per fault at most, with *)
(* whatever the consumer has in hand in front of what is on the list.      *)
Channel == INSTANCE LossyChannel WITH transit <- OnTheWay, Batch <- BatchSize
ChannelSpec == Channel!Spec

(* Every record is settled in the end: stored, dropped or lost, it does not *)
(* stay on the list or in the consumer's hands, whatever fails before.     *)
EveryRecordIsSettled ==
    \A n \in 1..MaxSent : n \in ToSet(OnTheWay) ~> n \notin ToSet(OnTheWay)

(* test_consumer.py: the streams can be read once the list is empty; with    *)
(* nothing gone wrong, every valid record is in its stream by then.        *)
EmptyListMeansStored ==
    inbox = <<>> /\ faults = 0 => \A n \in 1..Len(sent) : Valid(n) => n \in Stored
=============================================================================
