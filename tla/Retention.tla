----------------------------- MODULE Retention ------------------------------
(***************************************************************************)
(* The retention trimmer of log-server: one sweep after another over the    *)
(* streams of the configured daemons, while the consumer goes on adding    *)
(* entries.  Time is the clock of Redis and log-server, which share a host *)
(* and are assumed to agree and never to be set back; its unit stands for a *)
(* day.  An entry is the time in its stream id.                            *)
(***************************************************************************)
EXTENDS Integers, Sequences, FiniteSets

CONSTANTS
    Configured,             \* sequence of the ids of settings.daemons
    Others,                 \* daemons no longer configured, with old streams
    RetentionDays,          \* retention_days
    MetricsRetentionDays,   \* metrics_retention_days, or Unset
    Unset,
    MaxNow,                 \* bound: the clock
    MaxEntries,             \* bound: entries added to each stream
    MaxStops                \* bound: how often log-server goes down

Kinds == {"log", "metric"}

Hosts == {Configured[i] : i \in DOMAIN Configured} \cup Others

ASSUME RetentionAssumption ==
    /\ Configured \in Seq(Hosts)
    /\ \A i \in DOMAIN Configured : Configured[i] \notin Others
    /\ RetentionDays \in Nat
    /\ MetricsRetentionDays \in Nat \cup {Unset}
    /\ Unset \notin Nat
    /\ MaxNow \in Nat /\ MaxEntries \in Nat /\ MaxStops \in Nat

VARIABLES
    now,            \* the clock
    stream,         \* stream[d][kind]: times of its entries
    added,          \* how many entries each stream was given (bound)
    tpc,            \* "sweeping", "sleeping", "down"
    next,           \* the streams this sweep has dealt with
    sweepTime,      \* now_ms of _trim_once
    stops           \* how often log-server went down (bound)

vars == <<now, stream, added, tpc, next, sweepTime, stops>>

-----------------------------------------------------------------------------
EffectiveMetricsRetentionDays ==
    IF MetricsRetentionDays # Unset THEN MetricsRetentionDays ELSE RetentionDays

(* Mutant of MinId: one horizon for both kinds *)
MinIdOfMetrics(kind, t) == t - EffectiveMetricsRetentionDays

(* log_minid and metric_minid *)
MinId(kind, t) ==
    t - (IF kind = "log" THEN RetentionDays ELSE EffectiveMetricsRetentionDays)

(* The i-th XTRIM of a sweep: every daemon's :log, then its :metric *)
SweepLength == 2 * Len(Configured)
HostAt(i) == Configured[(i + 1) \div 2]
KindAt(i) == IF i % 2 = 1 THEN "log" ELSE "metric"

(* Mutant of Trimmed: approximate trimming leaves a short stream alone *)
TrimmedRoughly(entries, minid) == entries

(* XTRIM MINID, exact *)
Trimmed(entries, minid) == {t \in entries : t >= minid}

Init ==
    /\ now = 0
    /\ stream = [d \in Hosts |-> [k \in Kinds |-> {}]]
    /\ added = [d \in Hosts |-> [k \in Kinds |-> 0]]
    /\ tpc = "sleeping"
    /\ next = 0
    /\ sweepTime = 0
    /\ stops = 0

Tick ==
    /\ now < MaxNow
    /\ now' = now + 1
    /\ UNCHANGED <<stream, added, tpc, next, sweepTime, stops>>

(* The consumer's XADD with an automatic id *)
Add(d, kind) ==
    /\ added[d][kind] < MaxEntries
    /\ added' = [added EXCEPT ![d][kind] = @ + 1]
    /\ stream' = [stream EXCEPT ![d][kind] = @ \cup {now}]
    /\ UNCHANGED <<now, tpc, next, sweepTime, stops>>

(* Mutant of NextStream: one stream too many *)
OneStreamMore ==
    /\ next' = IF next <= SweepLength THEN next + 1 ELSE 0
    /\ tpc' = IF next <= SweepLength THEN "sweeping" ELSE "sleeping"

(* On to the next stream (of a sweep that begins: the first), or asleep     *)
(* after the last                                                          *)
NextStream ==
    /\ next' = IF next < SweepLength THEN next + 1 ELSE 0
    /\ tpc' = IF next < SweepLength THEN "sweeping" ELSE "sleeping"

(* run_trimmer's next turn: _trim_once reads the clock once *)
SweepStarts ==
    /\ tpc = "sleeping"
    /\ NextStream
    /\ sweepTime' = now
    /\ UNCHANGED <<now, stream, added, stops>>

Trim ==
    /\ tpc = "sweeping"
    /\ stream' = [stream EXCEPT ![HostAt(next)][KindAt(next)] =
                      Trimmed(@, MinId(KindAt(next), sweepTime))]
    /\ NextStream
    /\ UNCHANGED <<now, added, sweepTime, stops>>

(* RedisError: log it and go on *)
TrimFails ==
    /\ tpc = "sweeping"
    /\ NextStream
    /\ UNCHANGED <<now, stream, added, sweepTime, stops>>

(* log-server goes down between two commands and comes up again *)
ServerStops ==
    /\ tpc # "down"
    /\ stops < MaxStops
    /\ stops' = stops + 1
    /\ tpc' = "down"
    /\ next' = 0
    /\ UNCHANGED <<now, stream, added, sweepTime>>

ServerStarts ==
    /\ tpc = "down"
    /\ tpc' = "sleeping"
    /\ UNCHANGED <<now, stream, added, next, sweepTime, stops>>

TrimmerStep == SweepStarts \/ Trim \/ TrimFails

Next ==
    \/ Tick
    \/ \E d \in Hosts, kind \in Kinds : Add(d, kind)
    \/ TrimmerStep
    \/ ServerStops \/ ServerStarts

Spec == Init /\ [][Next]_vars

(* The trimmer and s6 keep going, and log-server goes down finitely often   *)
(* (MaxStops); a stream whose turn comes again and again is trimmed some    *)
(* day: XTRIM does not fail for ever.                                      *)
FairSpec ==
    /\ Spec
    /\ WF_vars(TrimmerStep) /\ WF_vars(ServerStarts)
    /\ \A i \in 1..SweepLength : SF_vars(next = i /\ Trim)

-----------------------------------------------------------------------------
TypeOK ==
    /\ now \in 0..MaxNow
    /\ stream \in [Hosts -> [Kinds -> SUBSET (0..now)]]
    /\ added \in [Hosts -> [Kinds -> 0..MaxEntries]]
    /\ tpc \in {"sweeping", "sleeping", "down"}
    /\ next \in 0..SweepLength /\ (tpc = "sweeping" <=> next > 0)
    /\ sweepTime \in 0..now
    /\ stops \in 0..MaxStops

Days(kind) == IF kind = "log" \/ MetricsRetentionDays = Unset
              THEN RetentionDays ELSE MetricsRetentionDays

(* Whenever it is removed, an entry has outlived the retention of its own   *)
(* kind, and only configured daemons lose any; the clock may have moved on *)
(* since the sweep read it, and sweeps may have failed or been cut short.  *)
OnlyExpiredEntriesGo ==
    [][\A d \in Hosts, kind \in Kinds : \A t \in stream[d][kind] \ stream[d][kind]' :
           now - t > Days(kind) /\ d \notin Others]_vars

(* An expired entry of a configured daemon does not stay for ever, though   *)
(* other streams' trims fail, sweeps start late and log-server is          *)
(* restarted.                                                              *)
ExpiredEntriesGo ==
    \A d \in Hosts \ Others, kind \in Kinds, t \in 0..MaxNow :
        t \in stream[d][kind] /\ now - t > Days(kind) ~> t \notin stream[d][kind]
=============================================================================
