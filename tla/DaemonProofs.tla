---------------------------- MODULE DaemonProofs ----------------------------
(***************************************************************************)
(* Proofs about what is kept of one daemon beside its listeners: the       *)
(* registry's counters mean consecutive absences and implement the ledger  *)
(* that Watch.tla is built on, the container-stats loop only reads them,   *)
(* and the CPU percentage of the system-stats loop is what it says, for    *)
(* any set of containers, any threshold and any number of listings,        *)
(* samples and restarts.                                                   *)
(***************************************************************************)
EXTENDS ContainerStats, SystemStats, TLAPS

IInv == TypeOK /\ MissesAreConsecutiveAbsences

LEMMA InitInv == Init => IInv
BY DEF Init, IInv, TypeOK, MissesAreConsecutiveAbsences, Entries

(* Registry.update: the new listing is the last of the history.            *)
LEMMA UpdateInv ==
    ASSUME IInv, NEW listing \in SUBSET Containers, update(listing)
    PROVE  IInv'
<1>1. /\ listing_seq \in Nat /\ listing_seq' = listing_seq + 1
      /\ last_seen \in [Containers -> Nat]
      /\ last_seen' = [c \in Containers |->
                           IF c \in listing THEN listing_seq + 1 ELSE last_seen[c]]
      /\ history \in Seq(SUBSET Containers) /\ Len(history) = listing_seq
      /\ history' = Append(history, listing)
  BY DEF IInv, TypeOK, MissesAreConsecutiveAbsences, update, Stamped
<1>2. /\ history' \in Seq(SUBSET Containers) /\ Len(history') = listing_seq + 1
      /\ history'[listing_seq + 1] = listing
      /\ \A i \in 1..listing_seq : history'[i] = history[i]
  BY <1>1
<1>3. TypeOK'
  BY <1>1, <1>2 DEF TypeOK
<1>4. ASSUME NEW c \in Entries'
      PROVE  /\ last_seen'[c] \in 1..listing_seq'
             /\ c \in history'[last_seen'[c]]
             /\ \A i \in (last_seen'[c] + 1)..listing_seq' : c \notin history'[i]
  <2>1. c \in Containers /\ last_seen'[c] # 0
    BY DEF Entries
  <2>2. CASE c \in listing
    <3>1. last_seen'[c] = listing_seq + 1
      BY <1>1, <2>1, <2>2
    <3> QED
      BY <1>1, <1>2, <2>2, <3>1
  <2>3. CASE c \notin listing
    <3>1. last_seen'[c] = last_seen[c] /\ c \in Entries
      BY <1>1, <2>1, <2>3 DEF Entries
    <3>2. /\ last_seen[c] \in 1..listing_seq
          /\ c \in history[last_seen[c]]
          /\ \A i \in (last_seen[c] + 1)..listing_seq : c \notin history[i]
      BY <3>1 DEF IInv, MissesAreConsecutiveAbsences
    <3>3. ASSUME NEW i \in (last_seen[c] + 1)..(listing_seq + 1)
          PROVE  c \notin history'[i]
      <4>1. CASE i = listing_seq + 1
        BY <1>2, <2>3, <4>1
      <4>2. CASE i # listing_seq + 1
        <5>1. i \in (last_seen[c] + 1)..listing_seq /\ i \in 1..listing_seq
          BY <1>1, <2>1, <4>2
        <5> QED
          BY <1>2, <3>2, <5>1
      <4> QED
        BY <4>1, <4>2
    <3> QED
      BY <1>1, <1>2, <3>1, <3>2, <3>3
  <2> QED
    BY <2>2, <2>3
<1> QED
  BY <1>1, <1>2, <1>3, <1>4 DEF IInv, MissesAreConsecutiveAbsences

(* Registry.forget: one entry less. *)
LEMMA ForgetInv ==
    ASSUME IInv, NEW c \in Containers, forget(c)
    PROVE  IInv'
<1>1. /\ last_seen \in [Containers -> Nat]
      /\ last_seen' = [last_seen EXCEPT ![c] = 0]
      /\ listing_seq' = listing_seq /\ history' = history
  BY DEF IInv, TypeOK, forget
<1>2. TypeOK'
  BY <1>1 DEF IInv, TypeOK
<1>3. \A x \in Entries' : x \in Entries /\ last_seen'[x] = last_seen[x]
  BY <1>1 DEF Entries
<1>4. MissesAreConsecutiveAbsences'
  BY <1>1, <1>3 DEF IInv, MissesAreConsecutiveAbsences
<1> QED
  BY <1>2, <1>4 DEF IInv

LEMMA NextInv == IInv /\ [Next]_vars => IInv'
<1> SUFFICES ASSUME IInv, [Next]_vars PROVE IInv'
  OBVIOUS
<1>1. CASE UNCHANGED vars
  BY <1>1 DEF vars, IInv, TypeOK, MissesAreConsecutiveAbsences, Entries
<1>2. CASE Next
  BY <1>2, UpdateInv, ForgetInv DEF Next
<1> QED
  BY <1>1, <1>2

(* The counters have their types and last_seen_seq points at the last       *)
(* listing that named the container, so that their difference counts       *)
(* consecutive absences (registry.py lines 60-81, container_tracker.py 54). *)
THEOREM AbsencesAreConsecutive == Spec => [](TypeOK /\ MissesAreConsecutiveAbsences)
<1>1. IInv => TypeOK /\ MissesAreConsecutiveAbsences
  BY DEF IInv
<1> QED
  BY <1>1, InitInv, NextInv, PTL DEF Spec

-----------------------------------------------------------------------------
(* The refinement of MissLedger.                                           *)

MissCounts == [c \in Containers |-> MissCount(c)]

LEMMA UpdateIsListed ==
    ASSUME IInv, NEW listing \in SUBSET Containers, update(listing)
    PROVE  Ledger!Listed(listing)
<1>1. /\ listing_seq \in Nat /\ listing_seq' = listing_seq + 1
      /\ last_seen \in [Containers -> Nat]
      /\ last_seen' = [c \in Containers |->
                           IF c \in listing THEN listing_seq + 1 ELSE last_seen[c]]
      /\ \A c \in Containers : last_seen[c] # 0 => last_seen[c] \in 1..listing_seq
      /\ Threshold \in Nat
  BY ThresholdAssumption
     DEF IInv, TypeOK, MissesAreConsecutiveAbsences, Entries, update, Stamped
<1>2. Entries' = KnownAfter(Entries, listing)
  BY <1>1 DEF Entries, KnownAfter
<1>3. ASSUME NEW c \in Containers
      PROVE  MissCount(c)' = IF c \in listing \/ c \notin Entries THEN 0
                             ELSE IF MissCount(c) < Threshold THEN MissCount(c) + 1
                             ELSE Threshold
  <2>1. CASE c \in listing
    BY <1>1, <2>1 DEF MissCount
  <2>2. CASE c \notin listing
    <3>1. last_seen'[c] = last_seen[c] /\ last_seen[c] \in Nat
      BY <1>1, <2>2
    <3>2. CASE last_seen[c] = 0
      BY <2>2, <3>1, <3>2 DEF MissCount, Entries
    <3>3. CASE last_seen[c] # 0
      <4>1. c \in Entries /\ last_seen[c] <= listing_seq
        BY <1>1, <3>3 DEF Entries
      <4> QED
        BY <1>1, <2>2, <3>1, <3>3, <4>1 DEF MissCount
    <3> QED
      BY <3>2, <3>3
  <2> QED
    BY <2>1, <2>2
<1>4. MissCounts' = MissesAfter(Entries, MissCounts, listing)
  BY <1>3 DEF MissCounts, MissesAfter
<1> QED
  BY <1>2, <1>4 DEF Ledger!Listed, MissCounts, Ledger!KnownAfter, Ledger!MissesAfter,
                    KnownAfter, MissesAfter

LEMMA ForgetIsForgotten ==
    ASSUME IInv, NEW c \in Containers, forget(c)
    PROVE  Ledger!Forgotten(c)
<1>1. /\ last_seen \in [Containers -> Nat]
      /\ last_seen' = [last_seen EXCEPT ![c] = 0]
      /\ listing_seq' = listing_seq
  BY DEF IInv, TypeOK, forget
<1>2. Entries' = Entries \ {c}
  BY <1>1 DEF Entries
<1>3. \A x \in Containers : MissCount(x)' = IF x = c THEN 0 ELSE MissCount(x)
  BY <1>1 DEF MissCount
<1>4. MissCounts' = [MissCounts EXCEPT ![c] = 0]
  BY <1>3 DEF MissCounts
<1> QED
  BY <1>2, <1>4 DEF Ledger!Forgotten, MissCounts, Ledger!KnownWithout, Ledger!MissesWithout

(* registry.py implements the ledger: the tracker may be told miss counts   *)
(* that saturate at the threshold in place of the two growing counters.    *)
THEOREM RegistryKeepsLedger == Spec => LedgerSpec
<1>1. Init => Ledger!Init
  BY DEF Init, Ledger!Init, Entries, MissCount
<1>2. IInv /\ [Next]_vars => [Ledger!Next]_(Ledger!ledger)
  <2> SUFFICES ASSUME IInv, [Next]_vars PROVE [Ledger!Next]_(Ledger!ledger)
    OBVIOUS
  <2>1. CASE UNCHANGED vars
    BY <2>1 DEF vars, Ledger!ledger, Entries, MissCount
  <2>2. ASSUME NEW listing \in SUBSET Containers, update(listing)
        PROVE  Ledger!Next
    BY <2>2, UpdateIsListed DEF Ledger!Next
  <2>3. ASSUME NEW c \in Containers, forget(c)
        PROVE  Ledger!Next
    BY <2>3, ForgetIsForgotten DEF Ledger!Next
  <2> QED
    BY <2>1, <2>2, <2>3 DEF Next
<1>3. Spec => []IInv
  BY InitInv, NextInv, PTL DEF Spec
<1> QED
  BY <1>1, <1>2, <1>3, PTL DEF Spec, LedgerSpec, Ledger!Spec

-----------------------------------------------------------------------------
(* The container-stats loop only reads: with it the registry is what it is   *)
(* without it, so what is proved above holds of ContainerStats too.        *)
THEOREM SamplingOnlyReads == StatsSpec => Spec
<1>1. StatsInit => Init
  BY DEF StatsInit
<1>2. [StatsNext]_statsVars => [Next]_vars
  BY DEF StatsNext, statsVars, Listing, Forgetting, SamplerStep, StatsStarts, StatsFails,
         StatsReturns, Ships, Crashes, Gone, Next
<1> QED
  BY <1>1, <1>2, PTL DEF StatsSpec, Spec

(* The tracker's subtraction counts consecutive absences while containers   *)
(* are being sampled.                                                      *)
THEOREM AbsencesStayConsecutive == StatsSpec => []MissesAreConsecutiveAbsences
BY SamplingOnlyReads, AbsencesAreConsecutive, PTL

(* ... and the counters implement the ledger. *)
THEOREM LedgerIsKept == StatsSpec => LedgerSpec
BY SamplingOnlyReads, RegistryKeepsLedger

-----------------------------------------------------------------------------
(* What is still to be shipped was known when the answer came *)
AnswerInv ==
    /\ last_seen \in [Containers -> Nat] /\ listing_seq \in Nat
    /\ rows \cup shipped \subseteq Entries \cup forgotten

LEMMA InitAnswer == StatsInit => AnswerInv
BY DEF StatsInit, Init, AnswerInv

(* A listing adds to the entries; a forget moves its container to forgotten *)
LEMMA NextAnswer == AnswerInv /\ [StatsNext]_statsVars => AnswerInv'
<1> SUFFICES ASSUME AnswerInv, [StatsNext]_statsVars PROVE AnswerInv'
  OBVIOUS
<1>1. CASE Listing
  <2>1. PICK listing \in SUBSET Containers : update(listing) /\ UNCHANGED sampler
    BY <1>1 DEF Listing
  <2>2. /\ listing_seq' \in Nat \ {0}
        /\ last_seen' = [c \in Containers |-> IF c \in listing THEN listing_seq' ELSE last_seen[c]]
    BY <2>1 DEF update, Stamped, AnswerInv
  <2>3. last_seen' \in [Containers -> Nat] /\ Entries \subseteq Entries'
    BY <2>2 DEF Entries, AnswerInv
  <2> QED
    BY <2>1, <2>2, <2>3 DEF AnswerInv, sampler
<1>2. CASE Forgetting
  <2>1. PICK c \in Containers :
            forget(c) /\ forgotten' = forgotten \cup {c} /\ UNCHANGED <<spc, rows, shipped>>
    BY <1>2 DEF Forgetting
  <2>2. last_seen' \in [Containers -> Nat] /\ Entries \subseteq Entries' \cup {c}
    BY <2>1 DEF forget, Entries, AnswerInv
  <2> QED
    BY <2>1, <2>2 DEF AnswerInv, forget
<1>3. CASE StatsReturns
  <2>1. PICK answer \in SUBSET Containers : NextRow(answer \cap KnownIds)
    BY <1>3 DEF StatsReturns
  <2>2. rows' \cup shipped' \subseteq Entries
    BY <2>1 DEF NextRow, CycleFails, KnownIds
  <2> QED
    BY <1>3, <2>2 DEF StatsReturns, vars, AnswerInv, Entries
<1>4. CASE Ships
  <2>1. rows' \cup shipped' \subseteq rows
    BY <1>4 DEF Ships, NextRow, CycleFails
  <2> QED
    BY <1>4, <2>1 DEF Ships, vars, AnswerInv, Entries
<1>5. CASE StatsStarts \/ StatsFails \/ Crashes \/ Gone \/ UNCHANGED statsVars
  <2>1. /\ UNCHANGED <<vars, forgotten>>
        /\ rows' \cup shipped' \subseteq rows \cup shipped
    BY <1>5 DEF StatsStarts, StatsFails, Crashes, Gone, statsVars, sampler
  <2> QED
    BY <2>1 DEF vars, AnswerInv, Entries
<1> QED
  BY <1>1, <1>2, <1>3, <1>4, <1>5 DEF StatsNext, SamplerStep

(* A container that was torn down is sampled no more, but by the answer in   *)
(* work when the tracker forgot it (_sample_once's known_ids).              *)
THEOREM NoStrayOfALaterAnswer == StatsSpec => []StraysAreOfOneAnswer
<1>1. AnswerInv => StraysAreOfOneAnswer
  BY DEF AnswerInv, StraysAreOfOneAnswer
<1> QED
  BY <1>1, InitAnswer, NextAnswer, PTL DEF StatsSpec

-----------------------------------------------------------------------------
(* The system-stats loop.                                                  *)

Counters == [total : Nat, idle : Nat]
Elapsed == [first : BOOLEAN, ticks : Nat, busy : Nat, rebooted : BOOLEAN]

(* The figures of the last record that was computed from two samples *)
FiguresInv ==
    /\ covered \in Elapsed
    /\ cpu = None \/ cpu = Sum \/ cpu \in Nat \X (Nat \ {0})
    /\ cpu = Sum => source = "container-aggregate"
    /\ cpu \in Nat \X (Nat \ {0}) => source = "/proc"
    /\ PercentIsBusyShare /\ PercentIsThere

(* What happened since the sample that is kept is the difference between    *)
(* it and the host's counters, unless the host was rebooted in between      *)
SampleInv ==
    /\ host \in Counters /\ host.idle <= host.total
    /\ prev \in Counters \cup {NoSample}
    /\ since \in Elapsed
    /\ since.first <=> prev = NoSample
    /\ prev # NoSample /\ ~ since.rebooted =>
           /\ host.total - prev.total = since.ticks
           /\ host.total - prev.total - (host.idle - prev.idle) = since.busy

LEMMA InitSample == SystemInit => SampleInv /\ FiguresInv
<1> SUFFICES ASSUME SystemInit PROVE SampleInv /\ FiguresInv
  OBVIOUS
<1>1. NothingYet \in Elapsed /\ NothingYet.first
  BY DEF NothingYet, Elapsed
<1>2. host \in Counters /\ host.idle <= host.total
  <2>1. host = [total |-> 0, idle |-> 0]
    BY DEF SystemInit
  <2>2. host.total = 0 /\ host.idle = 0 /\ host \in Counters
    BY <2>1 DEF Counters
  <2> QED
    BY <2>2
<1>3. SampleInv
  BY <1>1, <1>2 DEF SystemInit, SampleInv
<1>4. source # "/proc" /\ source # "container-aggregate" /\ cpu = None
  BY DEF SystemInit
<1>5. None # Sum /\ None \notin Nat \X (Nat \ {0})
  BY DEF None, Sum
<1>6. FiguresInv
  BY <1>1, <1>4, <1>5 DEF SystemInit, FiguresInv, PercentIsBusyShare, PercentIsThere
<1> QED
  BY <1>3, <1>6

(* _cpu_percent: the share of the busy ticks since the sample *)
LEMMA PercentOfTheHost ==
    ASSUME SampleInv, prev # NoSample
    PROVE  /\ CpuPercent(host) = None \/ CpuPercent(host) \in Nat \X (Nat \ {0})
           /\ CpuPercent(host) # None => CpuPercent(host)[2] > 0
           /\ CpuPercent(host) # None /\ ~ since.rebooted =>
                  CpuPercent(host) = <<since.busy, since.ticks>>
           /\ CpuPercent(host) = None => since.rebooted \/ since.ticks = 0
<1> DEFINE total == host.total - prev.total
           busy == total - (host.idle - prev.idle)
           kept == IF busy > 0 THEN busy ELSE 0
<1>1. total \in Int /\ busy \in Int /\ kept \in Nat
  BY DEF SampleInv, Counters
<1>2. ~ since.rebooted => total = since.ticks /\ busy = since.busy
  BY DEF SampleInv
<1>3. since.ticks \in Nat /\ since.busy \in Nat
  BY DEF SampleInv, Elapsed
<1>4. CpuPercent(host) = IF total <= 0 THEN None ELSE <<kept, total>>
  BY DEF CpuPercent
<1> HIDE DEF total, busy
<1>5. ~ since.rebooted => kept = since.busy
  BY <1>1, <1>2, <1>3
<1> HIDE DEF kept
<1>6. CASE total <= 0
  <2>1. CpuPercent(host) = None
    BY <1>4, <1>6
  <2>2. ~ since.rebooted => since.ticks = 0
    BY <1>2, <1>3, <1>6
  <2> QED
    BY <2>1, <2>2
<1>7. CASE ~ (total <= 0)
  <2>1. CpuPercent(host) = <<kept, total>> /\ total \in Nat \ {0}
    BY <1>1, <1>4, <1>7
  <2>2. <<kept, total>> # None
    BY DEF None
  <2> QED
    BY <1>1, <1>2, <1>5, <2>1, <2>2
<1> QED
  BY <1>6, <1>7

LEMMA TickKeepsSample ==
    ASSUME SampleInv, NEW busy \in {0, 1}, Tick(busy)
    PROVE  SampleInv'
<1>1. /\ host' = [total |-> host.total + 1, idle |-> host.idle + 1 - busy]
      /\ since' = [since EXCEPT !.ticks = @ + 1, !.busy = @ + busy]
      /\ prev' = prev
  BY DEF Tick
<1>2. /\ host.total \in Nat /\ host.idle \in Nat /\ host.idle <= host.total
      /\ since \in Elapsed /\ since.ticks \in Nat /\ since.busy \in Nat
  BY DEF SampleInv, Counters, Elapsed
<1>3. /\ host'.total = host.total + 1 /\ host'.idle = host.idle + 1 - busy
      /\ host' \in Counters /\ host'.idle <= host'.total
  BY <1>1, <1>2 DEF Counters
<1>4. /\ since'.ticks = since.ticks + 1 /\ since'.busy = since.busy + busy
      /\ since'.first = since.first /\ since'.rebooted = since.rebooted
      /\ since' \in Elapsed
  <2>1. since.ticks + 1 \in Nat /\ since.busy + busy \in Nat
    BY <1>2
  <2>2. since' \in Elapsed
    BY <1>1, <1>2, <2>1 DEF Elapsed
  <2>3. since'.ticks = since.ticks + 1 /\ since'.busy = since.busy + busy
    BY <1>1, <1>2 DEF Elapsed
  <2>4. since'.first = since.first /\ since'.rebooted = since.rebooted
    BY <1>1, <1>2 DEF Elapsed
  <2> QED
    BY <2>2, <2>3, <2>4
<1>5. ASSUME prev' # NoSample, ~ since'.rebooted
      PROVE  /\ host'.total - prev'.total = since'.ticks
             /\ host'.total - prev'.total - (host'.idle - prev'.idle) = since'.busy
  <2>1. prev.total \in Nat /\ prev.idle \in Nat
    BY <1>1, <1>5 DEF SampleInv, Counters
  <2>2. /\ host.total - prev.total = since.ticks
        /\ host.total - prev.total - (host.idle - prev.idle) = since.busy
    BY <1>1, <1>4, <1>5 DEF SampleInv
  <2> QED
    BY <1>1, <1>2, <1>3, <1>4, <2>1, <2>2
<1> QED
  BY <1>1, <1>3, <1>4, <1>5 DEF SampleInv

LEMMA ProcSampledKeepsSample ==
    ASSUME SampleInv, FiguresInv, ProcSampled
    PROVE  SampleInv' /\ FiguresInv'
<1>1. /\ prev' = host /\ host' = host /\ covered' = since /\ since' = SinceSample
      /\ source' = "/proc" /\ cpu' = IF prev = NoSample THEN None ELSE CpuPercent(host)
  BY DEF ProcSampled
<1>2. host \in Counters /\ host # NoSample
  BY SystemStatsAssumption DEF SampleInv, Counters
<1>3. /\ SinceSample \in Elapsed /\ ~ SinceSample.first
      /\ SinceSample.ticks = 0 /\ SinceSample.busy = 0
  BY DEF SinceSample, NothingYet, Elapsed
<1>4. SampleInv'
  <2>1. /\ host.total - host.total = 0
        /\ host.total - host.total - (host.idle - host.idle) = 0
    BY <1>2 DEF Counters
  <2> QED
    BY <1>1, <1>2, <1>3, <2>1 DEF SampleInv
<1>5. None # Sum /\ None \notin Nat \X (Nat \ {0}) /\ Sum \notin Nat \X (Nat \ {0})
  BY DEF None, Sum
<1>6. FiguresInv'
  <2>1. CASE prev = NoSample
    <3>1. cpu' = None /\ covered'.first
      BY <1>1, <2>1 DEF SampleInv
    <3> QED
      BY <1>1, <1>5, <3>1 DEF SampleInv, FiguresInv, PercentIsBusyShare, PercentIsThere
  <2>2. CASE prev # NoSample
    <3>1. cpu' = CpuPercent(host) /\ ~ covered'.first
      BY <1>1, <2>2 DEF SampleInv
    <3> QED
      BY <1>1, <1>5, <2>2, <3>1, PercentOfTheHost
         DEF SampleInv, FiguresInv, PercentIsBusyShare, PercentIsThere
  <2> QED
    BY <2>1, <2>2
<1> QED
  BY <1>4, <1>6

LEMMA StepKeepsSample ==
    ASSUME SampleInv, FiguresInv, [SystemNext]_systemVars
    PROVE  SampleInv' /\ FiguresInv'
<1>1. None # Sum /\ None \notin Nat \X (Nat \ {0}) /\ Sum \notin Nat \X (Nat \ {0})
  BY DEF None, Sum
<1>2. NothingYet \in Elapsed /\ NothingYet.first
  BY DEF NothingYet, Elapsed
<1>3. CASE \E busy \in {0, 1} : Tick(busy)
  <2>1. FiguresInv'
    BY <1>3 DEF Tick, figures, FiguresInv, PercentIsBusyShare, PercentIsThere
  <2> QED
    BY <1>3, <2>1, TickKeepsSample
<1>4. CASE Reboot
  <2>1. /\ since' = [since EXCEPT !.rebooted = TRUE] /\ host' = [total |-> 0, idle |-> 0]
        /\ prev' = prev
    BY <1>4 DEF Reboot
  <2>2. since' \in Elapsed /\ since'.rebooted /\ since'.first = since.first
    BY <2>1 DEF SampleInv, Elapsed
  <2>3. host' \in Counters /\ host'.idle <= host'.total
    BY <2>1 DEF Counters
  <2>4. SampleInv'
    BY <2>1, <2>2, <2>3 DEF SampleInv
  <2>5. FiguresInv'
    BY <1>4 DEF Reboot, figures, FiguresInv, PercentIsBusyShare, PercentIsThere
  <2> QED
    BY <2>4, <2>5
<1>5. CASE ProcSampled
  BY <1>5, ProcSampledKeepsSample
<1>6. CASE \E known \in BOOLEAN : DiskKnown(known)
  BY <1>1, <1>2, <1>6 DEF DiskKnown, SampleInv, FiguresInv, PercentIsBusyShare, PercentIsThere
<1>7. CASE \E sum \in {None, Sum} : Aggregated(sum)
  BY <1>1, <1>7 DEF Aggregated, SampleInv, FiguresInv, PercentIsBusyShare, PercentIsThere
<1>8. CASE ProcFails \/ Shipped \/ Wakes \/ UNCHANGED systemVars
  BY <1>8 DEF ProcFails, Shipped, Wakes, systemVars, figures,
              SampleInv, FiguresInv, PercentIsBusyShare, PercentIsThere
<1>9. CASE Restart
  BY <1>1, <1>2, <1>9 DEF Restart, SampleInv, FiguresInv, PercentIsBusyShare, PercentIsThere
<1> QED
  BY <1>3, <1>4, <1>5, <1>6, <1>7, <1>8, <1>9 DEF SystemNext, Step

LEMMA SamplesHold == SystemSpec => [](SampleInv /\ FiguresInv)
<1>1. (SampleInv /\ FiguresInv) /\ [SystemNext]_systemVars => (SampleInv /\ FiguresInv)'
  BY StepKeepsSample
<1> QED
  BY InitSample, <1>1, PTL DEF SystemSpec

(* _cpu_percent, over any number of cycles, fallbacks, restarts of          *)
(* log-listener and reboots of the host: what is divided is what was busy   *)
(* since the sample before, by all that passed, and never by zero.          *)
THEOREM PercentCoversTheTime == SystemSpec => []PercentIsBusyShare
<1>1. FiguresInv => PercentIsBusyShare
  BY DEF FiguresInv
<1> QED
  BY <1>1, SamplesHold, PTL

(* A percentage is missing only when there is no telling it; cycles that    *)
(* fell back to docker stats do not lose the sample.                       *)
THEOREM PercentIsNotLost == SystemSpec => []PercentIsThere
<1>1. FiguresInv => PercentIsThere
  BY DEF FiguresInv
<1> QED
  BY <1>1, SamplesHold, PTL
=============================================================================
