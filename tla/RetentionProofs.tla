-------------------------- MODULE RetentionProofs ---------------------------
(***************************************************************************)
(* The trimmer removes nothing before its time, for any configured daemons *)
(* and any retention periods.                                              *)
(***************************************************************************)
EXTENDS Retention, TLAPS

(* What the trims of one sweep look at. *)
LEMMA SweepIndex ==
    ASSUME NEW i \in 1..SweepLength
    PROVE  /\ HostAt(i) \in Hosts \ Others
           /\ KindAt(i) \in Kinds
<1>1. Len(Configured) \in Nat /\ DOMAIN Configured = 1..Len(Configured)
  BY RetentionAssumption
<1>2. (i + 1) \div 2 \in DOMAIN Configured
  BY <1>1 DEF SweepLength
<1> QED
  BY <1>2, RetentionAssumption DEF HostAt, KindAt, Kinds, Hosts

LEMMA SweepLengthType == SweepLength \in Nat
BY RetentionAssumption DEF SweepLength

LEMMA InitType == Init => TypeOK
BY RetentionAssumption, SweepLengthType DEF Init, TypeOK, Kinds

LEMMA NextType == TypeOK /\ [Next]_vars => TypeOK'
<1> SUFFICES ASSUME TypeOK, [Next]_vars PROVE TypeOK'
  OBVIOUS
<1>1. CASE Tick
  <2>1. now' = now + 1 /\ now' \in 0..MaxNow /\ 0..now \subseteq 0..now'
    BY <1>1, RetentionAssumption DEF Tick, TypeOK
  <2>2. stream' \in [Hosts -> [Kinds -> SUBSET (0..now')]]
    <3>1. stream \in [Hosts -> [Kinds -> SUBSET (0..now)]] /\ stream' = stream
      BY <1>1 DEF Tick, TypeOK
    <3>2. SUBSET (0..now) \subseteq SUBSET (0..now')
      BY <2>1
    <3> QED
      BY <3>1, <3>2
  <2> QED
    BY <1>1, <2>1, <2>2 DEF Tick, TypeOK
<1>2. ASSUME NEW d \in Hosts, NEW kind \in Kinds, Add(d, kind) PROVE TypeOK'
  <2>1. now \in 0..now
    BY DEF TypeOK
  <2>2. added' \in [Hosts -> [Kinds -> 0..MaxEntries]]
    BY <1>2, RetentionAssumption DEF Add, TypeOK
  <2>3. stream' \in [Hosts -> [Kinds -> SUBSET (0..now)]]
    BY <1>2, <2>1 DEF Add, TypeOK
  <2> QED
    BY <1>2, <2>2, <2>3 DEF Add, TypeOK
<1>3. CASE SweepStarts
  <2>1. next' \in 0..SweepLength /\ (tpc' = "sweeping" <=> next' > 0)
        /\ tpc' \in {"sweeping", "sleeping", "down"}
    BY <1>3, SweepLengthType DEF SweepStarts, NextStream, TypeOK
  <2> QED
    BY <1>3, <2>1 DEF SweepStarts, TypeOK
<1>4. CASE Trim \/ TrimFails
  <2>1. next' \in 0..SweepLength /\ (tpc' = "sweeping" <=> next' > 0)
        /\ tpc' \in {"sweeping", "sleeping", "down"}
    BY <1>4, SweepLengthType DEF Trim, TrimFails, NextStream, TypeOK
  <2>2. stream' \in [Hosts -> [Kinds -> SUBSET (0..now)]]
    <3>1. CASE Trim
      <4>1. next \in 1..SweepLength
        BY <3>1, SweepLengthType DEF Trim, TypeOK
      <4>2. HostAt(next) \in Hosts /\ KindAt(next) \in Kinds
        BY <4>1, SweepIndex
      <4>3. Trimmed(stream[HostAt(next)][KindAt(next)], MinId(KindAt(next), sweepTime))
                \in SUBSET (0..now)
        BY <4>2 DEF TypeOK, Trimmed
      <4> QED
        BY <3>1, <4>2, <4>3 DEF Trim, TypeOK
    <3> QED
      BY <1>4, <3>1 DEF TrimFails, TypeOK
  <2> QED
    BY <1>4, <2>1, <2>2 DEF Trim, TrimFails, TypeOK
<1>5. CASE ServerStops \/ ServerStarts
  BY <1>5, RetentionAssumption, SweepLengthType DEF ServerStops, ServerStarts, TypeOK
<1>6. CASE UNCHANGED vars
  BY <1>6 DEF vars, TypeOK
<1> QED
  BY <1>1, <1>2, <1>3, <1>4, <1>5, <1>6 DEF Next, TrimmerStep

(* Type correctness of the trimmer. *)
THEOREM TypesHold == Spec => []TypeOK
BY InitType, NextType, PTL DEF Spec

(* No entry is removed before it has outlived the retention period of its   *)
(* own kind, however late in its sweep a trim comes and whatever failed     *)
(* before, and no stream of a daemon that is not configured is touched      *)
(* (trimmer.py lines 56-80).                                               *)
THEOREM NothingYoungGoes == Spec => OnlyExpiredEntriesGo
<1> DEFINE Kept(d, kind) ==
        \A t \in stream[d][kind] \ stream[d][kind]' :
            now - t > Days(kind) /\ d \notin Others
<1>1. ASSUME TypeOK, [Next]_vars, NEW d \in Hosts, NEW kind \in Kinds
      PROVE  Kept(d, kind)
  <2>1. CASE Trim
    <3>1. /\ next \in 1..SweepLength /\ sweepTime \in Int /\ now \in Int
          /\ sweepTime <= now
      BY <1>1, <2>1, SweepLengthType, RetentionAssumption DEF Trim, TypeOK
    <3>2. HostAt(next) \in Hosts \ Others /\ KindAt(next) \in Kinds
      BY <3>1, SweepIndex
    <3>3. ASSUME NEW t \in stream[d][kind] \ stream[d][kind]'
          PROVE  /\ d = HostAt(next) /\ kind = KindAt(next)
                 /\ t \in 0..now /\ ~ (t >= MinId(kind, sweepTime))
      BY <1>1, <2>1, <3>2 DEF Trim, Trimmed, TypeOK
    <3>4. /\ MinId(kind, sweepTime) = sweepTime - Days(kind)
          /\ Days(kind) \in Nat
      BY RetentionAssumption DEF MinId, Days, EffectiveMetricsRetentionDays
    <3> QED
      BY <3>1, <3>2, <3>3, <3>4
  <2>2. CASE ~ Trim
    <3>1. CASE \E e \in Hosts, k \in Kinds : Add(e, k)
      <4>1. PICK e \in Hosts, k \in Kinds :
                stream' = [stream EXCEPT ![e][k] = @ \cup {now}]
        BY <3>1 DEF Add
      <4> QED
        BY <1>1, <4>1 DEF TypeOK
    <3>2. CASE stream' = stream
      BY <3>2
    <3> QED
      BY <1>1, <2>2, <3>1, <3>2 DEF Next, Tick, TrimmerStep, SweepStarts, TrimFails,
                                    ServerStops, ServerStarts, vars
  <2> QED
    BY <2>1, <2>2
<1>2. TypeOK /\ [Next]_vars
          => [\A d \in Hosts, kind \in Kinds : Kept(d, kind)]_vars
  BY <1>1
<1> QED
  BY <1>2, TypesHold, PTL DEF Spec, OnlyExpiredEntriesGo
=============================================================================
