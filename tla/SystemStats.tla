---------------------------- MODULE SystemStats -----------------------------
(***************************************************************************)
(* The system-stats loop of one daemon: Docker disk usage and the host's    *)
(* figures, read by one command after another, and cpu_pct, the one figure  *)
(* that is computed from two samples of /proc/stat.  Of the figures the     *)
(* model keeps cpu_pct and whether there are others.                       *)
(*                                                                         *)
(* The counters of /proc/stat count the host's ticks since its boot.  They  *)
(* never fall while it is up (iowait, which may, is not counted here).     *)
(***************************************************************************)
EXTENDS Integers

CONSTANTS
    Source,         \* system_metrics_source
    NoSample,       \* no prev_cpu
    MaxTicks,       \* bound: ticks of the host per boot
    MaxBoots,       \* bound: reboots of the host
    MaxRestarts     \* bound: restarts of log-listener

None == <<>>        \* a cpu_pct of None
Sum == <<"sum">>    \* the total of all containers

ASSUME SystemStatsAssumption ==
    /\ Source \in {"proc", "container-aggregate", "none"}
    /\ NoSample \notin [total : Nat, idle : Nat]
    /\ MaxTicks \in Nat /\ MaxBoots \in Nat /\ MaxRestarts \in Nat

VARIABLES
    host,       \* /proc/stat: total and idle
    boots,
    restarts,
    pc,         \* "df", "proc", "aggregate": the command in flight;
                \* "record": the record is with the records logger; "sleep"
    prev,       \* prev_cpu
    disk,       \* docker_disk_usage is not None
    source,     \* the record's source
    cpu,        \* its cpu_pct: None, Sum (over the containers) or the
                \* fraction <<busy, total>>, both in ticks
    since,      \* history: what happened on the host since prev was taken
    covered     \* history: what it was when cpu was computed

figures == <<disk, source, cpu, covered>>
systemVars == <<host, boots, restarts, pc, prev, figures, since>>

-----------------------------------------------------------------------------
NothingYet == [first |-> TRUE, ticks |-> 0, busy |-> 0, rebooted |-> FALSE]
SinceSample == [NothingYet EXCEPT !.first = FALSE]

SystemInit ==
    /\ host = [total |-> 0, idle |-> 0]
    /\ boots = 0 /\ restarts = 0
    /\ pc = "df"
    /\ prev = NoSample
    /\ disk = FALSE /\ source = "docker system df" /\ cpu = None
    /\ since = NothingYet /\ covered = NothingYet

(* A tick of the host, spent idle or busy *)
Tick(busy) ==
    /\ host.total < MaxTicks
    /\ host' = [total |-> host.total + 1, idle |-> host.idle + 1 - busy]
    /\ since' = [since EXCEPT !.ticks = @ + 1, !.busy = @ + busy]
    /\ UNCHANGED <<boots, restarts, pc, prev, figures>>

Reboot ==
    /\ boots < MaxBoots
    /\ boots' = boots + 1
    /\ host' = [total |-> 0, idle |-> 0]
    /\ since' = [since EXCEPT !.rebooted = TRUE]
    /\ UNCHANGED <<restarts, pc, prev, figures>>

-----------------------------------------------------------------------------
(* _cpu_percent *)
CpuPercent(curr) ==
    LET total == curr.total - prev.total
        busy == total - (curr.idle - prev.idle)
    IN  IF total <= 0 THEN None ELSE <<IF busy > 0 THEN busy ELSE 0, total>>

AfterDisk == CASE Source = "proc" -> "proc"
               [] Source = "container-aggregate" -> "aggregate"
               [] Source = "none" -> "record"

(* Mutant of DiskKnown: a docker system df that fails ends the loop *)
DiskOrNothing(known) ==
    /\ pc = "df"
    /\ disk' = known
    /\ source' = "docker system df" /\ cpu' = None /\ covered' = NothingYet
    /\ pc' = IF known THEN AfterDisk ELSE "ended"
    /\ UNCHANGED <<host, boots, restarts, prev, since>>

(* docker system df returned rows, or failed or had none *)
DiskKnown(known) ==
    /\ pc = "df"
    /\ disk' = known
    /\ source' = "docker system df" /\ cpu' = None /\ covered' = NothingYet
    /\ pc' = AfterDisk
    /\ UNCHANGED <<host, boots, restarts, prev, since>>

(* Mutant of ProcSampled: the first sample of the process is kept *)
ProcSampledOnce ==
    /\ pc = "proc"
    /\ source' = "/proc"
    /\ cpu' = IF prev = NoSample THEN None ELSE CpuPercent(host)
    /\ prev' = IF prev = NoSample THEN host ELSE prev
    /\ covered' = since /\ since' = SinceSample
    /\ pc' = "record"
    /\ UNCHANGED <<host, boots, restarts, disk>>

(* /proc was read: a percentage if there is a sample to compare with *)
ProcSampled ==
    /\ pc = "proc"
    /\ source' = "/proc"
    /\ cpu' = IF prev = NoSample THEN None ELSE CpuPercent(host)
    /\ prev' = host
    /\ covered' = since /\ since' = SinceSample
    /\ pc' = "record"
    /\ UNCHANGED <<host, boots, restarts, disk>>

(* Mutant of ProcFails: the last sample is given up *)
ProcFailsForgetting ==
    /\ pc = "proc"
    /\ pc' = "aggregate"
    /\ prev' = NoSample
    /\ UNCHANGED <<host, boots, restarts, figures, since>>

(* The command failed or could not be parsed: fall back *)
ProcFails ==
    /\ pc = "proc"
    /\ pc' = "aggregate"
    /\ UNCHANGED <<host, boots, restarts, prev, figures, since>>

(* docker stats: a sum over the containers, or nothing if it failed or      *)
(* there is none                                                           *)
Aggregated(sum) ==
    /\ pc = "aggregate"
    /\ source' = "container-aggregate"
    /\ cpu' = sum
    /\ pc' = "record"
    /\ UNCHANGED <<host, boots, restarts, prev, disk, covered, since>>

(* The records logger has it *)
Shipped ==
    /\ pc = "record"
    /\ pc' = "sleep"
    /\ UNCHANGED <<host, boots, restarts, prev, figures, since>>

Wakes ==
    /\ pc = "sleep"
    /\ pc' = "df"
    /\ UNCHANGED <<host, boots, restarts, prev, figures, since>>

(* The process ends, whatever the reason, and is started again *)
Restart ==
    /\ restarts < MaxRestarts
    /\ restarts' = restarts + 1
    /\ pc' = "df"
    /\ prev' = NoSample
    /\ disk' = FALSE /\ source' = "docker system df" /\ cpu' = None
    /\ covered' = NothingYet /\ since' = NothingYet
    /\ UNCHANGED <<host, boots>>

Step ==
    \/ \E known \in BOOLEAN : DiskKnown(known)
    \/ ProcSampled \/ ProcFails
    \/ \E sum \in {None, Sum} : Aggregated(sum)
    \/ Shipped \/ Wakes

SystemNext == Step \/ Restart \/ Reboot \/ \E busy \in {0, 1} : Tick(busy)

SystemSpec == SystemInit /\ [][SystemNext]_systemVars

(* Commands return, be it with an error, and the records logger answers *)
FairSystemSpec == SystemSpec /\ WF_systemVars(Step)

-----------------------------------------------------------------------------
SystemTypeOK ==
    /\ host \in [total : 0..MaxTicks, idle : 0..MaxTicks]
    /\ boots \in 0..MaxBoots /\ restarts \in 0..MaxRestarts
    /\ pc \in {"df", "proc", "aggregate", "record", "sleep"}
    /\ prev \in {NoSample} \cup [total : 0..MaxTicks, idle : 0..MaxTicks]
    /\ disk \in BOOLEAN
    /\ source \in {"docker system df", "/proc", "container-aggregate"}
    /\ \/ cpu = None
       \/ cpu = Sum /\ source = "container-aggregate"
       \/ cpu \in Nat \X (Nat \ {0}) /\ source = "/proc"

(* A percentage of /proc is the share of busy ticks since the sample before *)
(* it, over any number of cycles that fell back in between, and the sample  *)
(* is one of this process; a reboot in between spoils it (README.md), but   *)
(* the number of ticks that is divided by is never zero.                   *)
PercentIsBusyShare ==
    source = "/proc" /\ cpu # None
        => /\ cpu[2] > 0
           /\ ~ covered.rebooted => ~ covered.first /\ cpu = <<covered.busy, covered.ticks>>

(* It is missing from a record of /proc only when there is no telling: the  *)
(* sample is the first one of the process, no tick has passed, or the host  *)
(* was rebooted; a cycle that fell back does not cost the next one its      *)
(* percentage.                                                             *)
PercentIsThere ==
    source = "/proc" /\ cpu = None
        => covered.first \/ covered.ticks = 0 \/ covered.rebooted

(* Whatever fails, the loop reports something again and again (system_stats *)
(* docstring: "every failure is caught, logged, and skipped").             *)
KeepsReporting == []<>(pc = "record")
=============================================================================
