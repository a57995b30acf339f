---------------------------- MODULE WatchProofs -----------------------------
(***************************************************************************)
(* Proofs about Watch, for every set of daemons, containers and slots and  *)
(* every threshold and semaphore size.                                     *)
(***************************************************************************)
EXTENDS Watch, TLAPS

(* What is proved of the semaphore and of its spawners in SpawnGateProofs  *)
Sem == INSTANCE SpawnGateProofs
    WITH Spawners <- Daemons,
         spc <- [d \in Daemons |-> CASE lpc[d] = "waiting" -> "waiting"
                                     [] lpc[d] = "logging" -> "holding"
                                     [] OTHER -> "out"]

(* The semaphores that the tasks of a set W may use *)
Semaphores(W) == [value : Nat, queue : Seq(W), granted : SUBSET W]

(* What SpawnGate assumes of its constants is so here. *)
LEMMA GateAssumption == Sem!MaxSpawnsAssumption
BY WatchAssumption DEF Sem!MaxSpawnsAssumption

(* The operations of asyncio.Semaphore keep a semaphore a semaphore.       *)
LEMMA NewSemaphoreType ==
    ASSUME NEW W, NEW n \in Nat
    PROVE  NewSemaphore(n) \in Semaphores(W)
BY DEF NewSemaphore, Semaphore, Semaphores

LEMMA TakeType ==
    ASSUME NEW W, NEW s \in Semaphores(W), ~Locked(s)
    PROVE  Take(s) \in Semaphores(W)
BY DEF Take, Semaphore, Semaphores, Locked

LEMMA EnqueueType ==
    ASSUME NEW W, NEW s \in Semaphores(W), NEW w \in W
    PROVE  Enqueue(s, w) \in Semaphores(W)
BY DEF Enqueue, Semaphore, Semaphores

LEMMA ReleaseType ==
    ASSUME NEW W, NEW s \in Semaphores(W)
    PROVE  Release(s) \in Semaphores(W)
<1>1. Sem!Release(s) \in Sem!Semaphores(W)
  BY Sem!ReleaseType, GateAssumption DEF Semaphores, Sem!Semaphores
<1> QED
  BY <1>1 DEF Release, WakeFirst, Semaphore, Semaphores,
              Sem!Release, Sem!WakeFirst, Sem!Semaphore, Sem!Semaphores

LEMMA ResumeType ==
    ASSUME NEW W, NEW s \in Semaphores(W), NEW w \in W
    PROVE  Resume(s, w) \in Semaphores(W)
<1>1. Sem!Resume(s, w) \in Sem!Semaphores(W)
  BY Sem!ResumeType, GateAssumption DEF Semaphores, Sem!Semaphores
<1> QED
  BY <1>1 DEF Resume, WakeFirst, Semaphore, Semaphores,
              Sem!Resume, Sem!WakeFirst, Sem!Semaphore, Sem!Semaphores

-----------------------------------------------------------------------------

(* The manager of d: _tasks and the states of the tasks agree.             *)
ManagerInv(d) ==
    \A c \in Containers, k \in Slots :
        /\ status[d][c][k] \in Live => tasks[d][c] = k
        /\ tasks[d][c] = k => status[d][c][k] \in Live \cup EndedStates
        /\ status[d][c][k] \in {"cancelling", "cancelled"} =>
               tpc[d] = "stopping" /\ cur[d] = c /\ victim[d] = k

(* The tracker of d: what it is handling is known, and what it has          *)
(* cancelled is out of _tasks.                                             *)
TrackerInv(d) ==
    /\ Active(d) \subseteq known[d]
    /\ tpc[d] = "sleep" => cur[d] = NoContainer /\ todo[d] = {}
    /\ tpc[d] # "sleep" => /\ cur[d] \in known[d]
                           /\ todo[d] \subseteq known[d] \ {cur[d]}
    /\ tpc[d] = "stopping" =>
           /\ victim[d] \in Slots
           /\ tasks[d][cur[d]] = NoSlot
           /\ status[d][cur[d]][victim[d]] \in {"cancelling", "cancelled"}

(* The listing loop of d: what is still to be spawned is known, has no task *)
(* and is nothing the tracker is handling.                                 *)
SpawnerInv(d) ==
    /\ lpc[d] \in {"idle", "ps"} => pending[d] = {}
    /\ lpc[d] = "waiting" => spawning[d] \in Containers \ pending[d]
    /\ ToSpawn(d) \subseteq known[d] \ (Active(d) \cup {cur[d]} \cup todo[d])

DaemonInv(d) == ManagerInv(d) /\ TrackerInv(d) /\ SpawnerInv(d)

IInv ==
    /\ TypeOK
    /\ \A d \in Daemons : DaemonInv(d)

-----------------------------------------------------------------------------
(* Types.                                                                  *)

(* The conjuncts of TypeOK about what a spawn may change *)
TasksTypeOK ==
    /\ tasks \in [Daemons -> [Containers -> Slots \cup {NoSlot}]]
    /\ status \in [Daemons -> [Containers -> [Slots -> Statuses]]]

SpawnTypeOK ==
    /\ TasksTypeOK
    /\ lpc \in [Daemons -> {"idle", "ps", "waiting", "logging"}]
    /\ pending \in [Daemons -> SUBSET Containers]
    /\ spawning \in [Daemons -> Containers \cup {NoContainer}]
    /\ sem \in Semaphores(Daemons)

(* Registry.update keeps the registry well-formed. *)
LEMMA MissesType ==
    ASSUME NEW kn \in SUBSET Containers, NEW listed \in SUBSET Containers,
           NEW ms \in [Containers -> 0..Threshold]
    PROVE  /\ KnownAfter(kn, listed) \in SUBSET Containers
           /\ NewRefs(kn, listed) \in SUBSET Containers
           /\ MissesAfter(kn, ms, listed) \in [Containers -> 0..Threshold]
BY ThresholdAssumption DEF KnownAfter, NewRefs, MissesAfter

(* So does Registry.forget. *)
LEMMA ForgetType ==
    ASSUME NEW kn \in SUBSET Containers, NEW c \in Containers,
           NEW ms \in [Containers -> 0..Threshold]
    PROVE  /\ KnownWithout(kn, c) \in SUBSET Containers
           /\ MissesWithout(ms, c) \in [Containers -> 0..Threshold]
BY ThresholdAssumption DEF KnownWithout, MissesWithout

(* create_task adds one listener. *)
LEMMA CreateTaskType ==
    ASSUME TypeOK, NEW d \in Daemons, NEW c \in Containers, CreateTask(d, c)
    PROVE  TasksTypeOK'
<1>1. PICK k \in Slots :
        /\ status' = [status EXCEPT ![d][c][k] = "starting"]
        /\ tasks' = [tasks EXCEPT ![d][c] = k]
  BY DEF CreateTask
<1>2. "starting" \in Statuses
  BY DEF Statuses, Live
<1> QED
  BY <1>1, <1>2 DEF TypeOK, TasksTypeOK

(* The loop over new_refs keeps everything it touches well-formed. *)
LEMMA SpawnNextType ==
    ASSUME TypeOK, NEW d \in Daemons, NEW refs \in SUBSET Containers,
           NEW s \in Semaphores(Daemons), SpawnNext(d, refs, s)
    PROVE  SpawnTypeOK'
<1>1. CASE refs \subseteq Active(d) /\ UNCHANGED listeners
           /\ lpc' = [lpc EXCEPT ![d] = "idle"]
           /\ pending' = [pending EXCEPT ![d] = {}]
           /\ spawning' = [spawning EXCEPT ![d] = NoContainer]
           /\ sem' = s
  BY <1>1 DEF TypeOK, listeners, SpawnTypeOK, TasksTypeOK
<1>2. ASSUME NEW c \in refs \ Active(d), NEW skip \in SUBSET (refs \cap Active(d)),
             pending' = [pending EXCEPT ![d] = refs \ (skip \cup {c})],
             BeginSpawn(d, c, s)
      PROVE  SpawnTypeOK'
  <2>1. pending' \in [Daemons -> SUBSET Containers]
    BY <1>2 DEF TypeOK
  <2>2. spawning' \in [Daemons -> Containers \cup {NoContainer}]
    BY <1>2 DEF TypeOK, BeginSpawn
  <2>3. CASE Locked(s)
    <3>1. Enqueue(s, d) \in Semaphores(Daemons)
      BY EnqueueType
    <3> QED
      <4>1. /\ sem' \in Semaphores(Daemons)
            /\ lpc' = [lpc EXCEPT ![d] = "waiting"] /\ UNCHANGED <<tasks, status>>
        BY <1>2, <2>3, <3>1 DEF BeginSpawn, listeners
      <4> QED
        BY <2>1, <2>2, <4>1 DEF TypeOK, SpawnTypeOK, TasksTypeOK
  <2>4. CASE ~Locked(s)
    <3>1. Take(s) \in Semaphores(Daemons)
      BY <2>4, TakeType
    <3>2. CreateTask(d, c) /\ sem' = Take(s) /\ lpc' = [lpc EXCEPT ![d] = "logging"]
      BY <1>2, <2>4 DEF BeginSpawn, SpawnHolding
    <3>3. c \in Containers
      BY <1>2
    <3> QED
      BY <2>1, <2>2, <3>1, <3>2, <3>3, CreateTaskType DEF TypeOK, SpawnTypeOK
  <2> QED
    BY <2>3, <2>4
<1> QED
  BY <1>1, <1>2 DEF SpawnNext

(* The conjuncts of TypeOK about the registry and about the tracker's sweep *)
SweepTypeOK ==
    /\ tpc \in [Daemons -> {"sleep", "logging", "stopping"}]
    /\ todo \in [Daemons -> SUBSET Containers]
    /\ cur \in [Daemons -> Containers \cup {NoContainer}]

RegistryTypeOK ==
    /\ known \in [Daemons -> SUBSET Containers]
    /\ misses \in [Daemons -> [Containers -> 0..Threshold]]

(* The loop of run_once keeps what it touches well-formed. *)
LEMMA SweepType ==
    ASSUME TypeOK, NEW d \in Daemons, NEW ids \in SUBSET Containers, NEW kn, NEW ms,
           Sweep(d, ids, kn, ms)
    PROVE  SweepTypeOK'
<1>1. CASE /\ tpc' = [tpc EXCEPT ![d] = "sleep"]
           /\ todo' = [todo EXCEPT ![d] = {}]
           /\ cur' = [cur EXCEPT ![d] = NoContainer]
  BY <1>1 DEF TypeOK, SweepTypeOK
<1>2. ASSUME NEW c \in ids, NEW passed,
             tpc' = [tpc EXCEPT ![d] = "logging"],
             todo' = [todo EXCEPT ![d] = ids \ (passed \cup {c})],
             cur' = [cur EXCEPT ![d] = c]
      PROVE  SweepTypeOK'
  BY <1>2 DEF TypeOK, SweepTypeOK
<1> QED
  BY <1>1, <1>2 DEF Sweep

(* And the end of a stop, which forgets the container and goes on with it.  *)
LEMMA ForgetAndSweepType ==
    ASSUME TypeOK, NEW d \in Daemons, cur[d] \in Containers, ForgetAndSweep(d)
    PROVE  SweepTypeOK' /\ RegistryTypeOK'
<1> DEFINE kn == KnownWithout(known[d], cur[d])
           ms == MissesWithout(misses[d], cur[d])
<1>1. /\ known' = [known EXCEPT ![d] = kn]
      /\ misses' = [misses EXCEPT ![d] = ms]
      /\ Sweep(d, todo[d], kn, ms)
  BY DEF ForgetAndSweep
<1>2. kn \in SUBSET Containers /\ ms \in [Containers -> 0..Threshold]
  BY ForgetType DEF TypeOK
<1>3. RegistryTypeOK'
  BY <1>1, <1>2 DEF TypeOK, RegistryTypeOK
<1>4. todo[d] \in SUBSET Containers
  BY DEF TypeOK
<1>5. SweepTypeOK'
  BY <1>1, <1>4, SweepType
<1> QED
  BY <1>3, <1>5

(* A process that goes down leaves nothing ill-typed behind. *)
LEMMA CrashType ==
    ASSUME TypeOK, NEW culprit \in {"listing", "tracker"}, Crash(culprit)
    PROVE  TypeOK'
<1>1. NewSemaphore(MaxSpawns) \in Semaphores(Daemons)
  BY WatchAssumption, NewSemaphoreType
<1>2. "none" \in Statuses /\ 0 \in 0..Threshold
  BY ThresholdAssumption DEF Statuses
<1> QED
  BY <1>1, <1>2 DEF TypeOK, Crash, PerDaemon, Semaphores

(* The steps of a container-listener task preserve the types. *)
LEMMA ListenerType ==
    ASSUME TypeOK, NEW d \in Daemons, NEW c \in Containers, NEW k \in Slots,
           ListenerStep(d, c, k)
    PROVE  TypeOK'
<1>1. ASSUME NEW from, NEW to \in Statuses, Becomes(d, c, k, from, to)
      PROVE  TypeOK'
  <2>1. status' \in [Daemons -> [Containers -> [Slots -> Statuses]]]
    BY <1>1 DEF TypeOK, Becomes
  <2> QED
    BY <1>1, <2>1 DEF TypeOK, Becomes, registry, listing, tracker
<1>2. {"none", "streaming", "exited", "failed", "cancelled"} \subseteq Statuses
  BY DEF Statuses, Live, EndedStates
<1>3. CASE DoneCallback(d, c, k)
  <2>1. tasks' \in [Daemons -> [Containers -> Slots \cup {NoSlot}]]
    BY <1>3 DEF TypeOK, DoneCallback, Unregistered
  <2>2. status' \in [Daemons -> [Containers -> [Slots -> Statuses]]]
    BY <1>2, <1>3 DEF TypeOK, DoneCallback
  <2> QED
    BY <1>3, <2>1, <2>2 DEF TypeOK, DoneCallback, registry, listing, tracker
<1> QED
  BY <1>1, <1>2, <1>3 DEF ListenerStep, Connects, StreamEnds, ListenerFails, CancelDelivered

(* So do the steps of the listing loop, *)
LEMMA ListingType ==
    ASSUME TypeOK, NEW d \in Daemons, SpawnerInv(d), ListingStep(d)
    PROVE  TypeOK'
<1> USE DEF registry, listeners, tracker
<1>1. CASE PsStart(d)
  BY <1>1 DEF TypeOK, PsStart
<1>2. CASE PsFails(d)
  BY <1>2 DEF TypeOK, PsFails
<1>3. CASE PsCrashes(d)
  BY <1>3, CrashType DEF PsCrashes
<1>4. CASE PsReturns(d)
  <2>1. /\ KnownAfter(known[d], seen[d]) \in SUBSET Containers
        /\ NewRefs(known[d], seen[d]) \in SUBSET Containers
        /\ MissesAfter(known[d], misses[d], seen[d]) \in [Containers -> 0..Threshold]
    BY MissesType DEF TypeOK
  <2>2. SpawnTypeOK'
    <3>1. sem \in Semaphores(Daemons)
      BY DEF TypeOK, Semaphores
    <3> QED
      BY <1>4, <2>1, <3>1, SpawnNextType DEF PsReturns
  <2> QED
    BY <1>4, <2>1, <2>2 DEF TypeOK, PsReturns, SpawnTypeOK, TasksTypeOK, Semaphores
<1>5. CASE SpawnGranted(d)
  <2>1. Resume(sem, d) \in Semaphores(Daemons)
    BY ResumeType DEF TypeOK, Semaphores
  <2>2. CASE spawning[d] \in Active(d)
    <3>1. Release(Resume(sem, d)) \in Semaphores(Daemons)
      BY <2>1, ReleaseType
    <3>2. pending[d] \in SUBSET Containers
      BY DEF TypeOK
    <3>3. SpawnTypeOK'
      BY <1>5, <2>2, <3>1, <3>2, SpawnNextType DEF SpawnGranted
    <3> QED
      BY <1>5, <3>3 DEF TypeOK, SpawnGranted, SpawnTypeOK, TasksTypeOK, Semaphores
  <2>3. CASE spawning[d] \notin Active(d)
    <3>0. spawning[d] \in Containers
      BY <1>5 DEF SpawnGranted, SpawnerInv
    <3>1. TasksTypeOK'
      BY <1>5, <2>3, <3>0, CreateTaskType DEF SpawnGranted, SpawnHolding
    <3>2. sem' = Resume(sem, d) /\ lpc' = [lpc EXCEPT ![d] = "logging"]
          /\ UNCHANGED <<pending, spawning>>
      BY <1>5, <2>3 DEF SpawnGranted, SpawnHolding
    <3> QED
      BY <1>5, <2>1, <3>1, <3>2 DEF TypeOK, SpawnGranted, TasksTypeOK, Semaphores
  <2> QED
    BY <2>2, <2>3
<1>6. CASE SpawnLogged(d)
  <2>1. Release(sem) \in Semaphores(Daemons)
    BY ReleaseType DEF TypeOK, Semaphores
  <2>2. pending[d] \in SUBSET Containers
    BY DEF TypeOK
  <2>3. SpawnTypeOK'
    BY <1>6, <2>1, <2>2, SpawnNextType DEF SpawnLogged
  <2> QED
    BY <1>6, <2>3 DEF TypeOK, SpawnLogged, SpawnTypeOK, TasksTypeOK, Semaphores
<1> QED
  BY <1>1, <1>2, <1>3, <1>4, <1>5, <1>6 DEF ListingStep

(* and those of the tracker, which handles known containers only.          *)
LEMMA TrackerType ==
    ASSUME TypeOK, NEW d \in Daemons, TrackerInv(d), TrackerStep(d)
    PROVE  TypeOK'
<1> USE DEF registry, listing, listeners
<1>1. CASE TrackerWakes(d)
  <2>1. Active(d) \in SUBSET Containers
    BY DEF Active
  <2>2. SweepTypeOK'
    BY <1>1, <2>1, SweepType DEF TrackerWakes
  <2> QED
    BY <1>1, <2>2 DEF TypeOK, TrackerWakes, SweepTypeOK
<1>2. CASE tpc[d] # "sleep"
  <2>1. cur[d] \in Containers
    BY <1>2 DEF TypeOK, TrackerInv
  <2>2. CASE StopFindsNothing(d)
    <3>1. SweepTypeOK' /\ RegistryTypeOK'
      BY <2>1, <2>2, ForgetAndSweepType DEF StopFindsNothing
    <3> QED
      BY <2>2, <3>1 DEF TypeOK, StopFindsNothing, SweepTypeOK, RegistryTypeOK
  <2>3. CASE StopCancels(d)
    <3>1. "cancelling" \in Statuses /\ Target(d) \in Slots
      BY <2>1, <2>3 DEF StopCancels, Statuses, Target, TypeOK
    <3> QED
      BY <2>1, <2>3, <3>1 DEF TypeOK, StopCancels
  <2>4. CASE StopFindsExited(d)
    <3>1. SweepTypeOK' /\ RegistryTypeOK'
      BY <2>1, <2>4, ForgetAndSweepType DEF StopFindsExited
    <3> QED
      BY <2>1, <2>4, <3>1 DEF TypeOK, StopFindsExited, SweepTypeOK, RegistryTypeOK
  <2>5. CASE StopFindsFailed(d)
    BY <2>5, CrashType DEF StopFindsFailed
  <2>6. CASE StopReturns(d)
    <3>1. SweepTypeOK' /\ RegistryTypeOK'
      BY <2>1, <2>6, ForgetAndSweepType DEF StopReturns
    <3>2. tasks' \in [Daemons -> [Containers -> Slots \cup {NoSlot}]]
      BY <2>1, <2>6 DEF TypeOK, StopReturns, Unregistered
    <3>3. status' \in [Daemons -> [Containers -> [Slots -> Statuses]]]
      <4>1. "none" \in Statuses
        BY DEF Statuses
      <4>2. status \in [Daemons -> [Containers -> [Slots -> Statuses]]]
        BY DEF TypeOK
      <4>3. status' = [status EXCEPT ![d][cur[d]][victim[d]] = "none"]
        BY <2>6 DEF StopReturns
      <4> HIDE DEF Statuses
      <4> QED
        BY <2>1, <4>1, <4>2, <4>3
    <3> QED
      BY <2>6, <3>1, <3>2, <3>3 DEF TypeOK, StopReturns, SweepTypeOK, RegistryTypeOK
  <2> QED
    BY <1>2, <2>2, <2>3, <2>4, <2>5, <2>6 DEF TrackerStep, TrackerWakes
<1> QED
  BY <1>1, <1>2 DEF TrackerStep, TrackerWakes, StopFindsNothing, StopCancels,
                    StopFindsExited, StopFindsFailed, StopReturns

(* Containers that come and go on the host, and a restart, change no type. *)
LEMMA HostType ==
    ASSUME TypeOK,
           \/ Restart
           \/ \E d \in Daemons, c \in Containers : HostStep(d, c)
    PROVE  TypeOK'
<1> USE DEF registry, listing, listeners, tracker
<1>1. CASE Restart
  BY <1>1 DEF TypeOK, Restart
<1>2. ASSUME NEW d \in Daemons, NEW c \in Containers, HostStep(d, c)
      PROVE  TypeOK'
  <2>1. CASE ContainerStarts(d, c)
    BY <2>1 DEF TypeOK, ContainerStarts
  <2>2. CASE ContainerStops(d, c)
    BY <2>2 DEF TypeOK, ContainerStops
  <2> QED
    BY <1>2, <2>1, <2>2 DEF HostStep
<1> QED
  BY <1>1, <1>2

-----------------------------------------------------------------------------
(* The inductive invariant.                                                *)

(* What DaemonInv(d) speaks of *)
SpawnerUnchanged(d) ==
    lpc'[d] = lpc[d] /\ pending'[d] = pending[d] /\ spawning'[d] = spawning[d]

ManagerUnchanged(d) == tasks'[d] = tasks[d] /\ status'[d] = status[d]

TrackerUnchanged(d) == /\ tpc'[d] = tpc[d] /\ todo'[d] = todo[d]
                       /\ cur'[d] = cur[d] /\ victim'[d] = victim[d]

(* Steps of one daemon leave the invariant of the others alone. *)
LEMMA Frame ==
    ASSUME NEW e \in Daemons, DaemonInv(e), known'[e] = known[e],
           SpawnerUnchanged(e), ManagerUnchanged(e), TrackerUnchanged(e)
    PROVE  DaemonInv(e)'
<1> USE DEF SpawnerUnchanged, ManagerUnchanged, TrackerUnchanged
<1>1. Active(e)' = Active(e)
  BY DEF Active
<1>2. ToSpawn(e)' = ToSpawn(e)
  BY DEF ToSpawn
<1>3. ManagerInv(e)'
  BY DEF DaemonInv, ManagerInv
<1>4. TrackerInv(e)'
  BY <1>1 DEF DaemonInv, TrackerInv
<1>5. SpawnerInv(e)'
  BY <1>1, <1>2 DEF DaemonInv, SpawnerInv
<1> QED
  BY <1>3, <1>4, <1>5 DEF DaemonInv

(* create_task for a known container that has no task and is not the one   *)
(* the tracker is stopping.                                                *)
LEMMA CreateTaskInv ==
    ASSUME TypeOK, NEW d \in Daemons, DaemonInv(d),
           NEW c \in Containers, c \in known'[d], known[d] \subseteq known'[d],
           c \notin Active(d), c # cur[d],
           CreateTask(d, c), TrackerUnchanged(d)
    PROVE  /\ ManagerInv(d)' /\ TrackerInv(d)'
           /\ Active(d)' = Active(d) \cup {c}
           /\ \A e \in Daemons : e # d => ManagerUnchanged(e)
<1>1. PICK k \in Slots :
        /\ status[d][c][k] = "none"
        /\ status' = [status EXCEPT ![d][c][k] = "starting"]
        /\ tasks' = [tasks EXCEPT ![d][c] = k]
  BY DEF CreateTask
<1>2. \A e \in Daemons : e # d => ManagerUnchanged(e)
  BY <1>1 DEF TypeOK, ManagerUnchanged
<1>3. \A x \in Containers : tasks'[d][x] = IF x = c THEN k ELSE tasks[d][x]
  BY <1>1 DEF TypeOK
<1>4. \A x \in Containers, j \in Slots :
        status'[d][x][j] = IF x = c /\ j = k THEN "starting" ELSE status[d][x][j]
  BY <1>1 DEF TypeOK
<1>5. tasks[d][c] = NoSlot
  BY DEF Active
<1>6. NoSlot \notin Slots
  BY WatchAssumption
<1>7. Active(d)' = Active(d) \cup {c}
  BY <1>3, <1>6 DEF Active
<1>8. ManagerInv(d)'
  BY <1>3, <1>4, <1>5, <1>6
     DEF DaemonInv, ManagerInv, TrackerUnchanged, Live, EndedStates
<1>9. TrackerInv(d)'
  <2>1. ASSUME tpc[d] = "stopping"
        PROVE  /\ tasks'[d][cur[d]] = NoSlot
               /\ status'[d][cur[d]][victim[d]] = status[d][cur[d]][victim[d]]
    <3>1. cur[d] \in Containers /\ victim[d] \in Slots
      BY <2>1 DEF DaemonInv, TrackerInv, TypeOK
    <3> QED
      BY <2>1, <3>1, <1>3, <1>4 DEF DaemonInv, TrackerInv
  <2> QED
    BY <2>1, <1>7 DEF DaemonInv, TrackerInv, TrackerUnchanged
<1> QED
  BY <1>2, <1>7, <1>8, <1>9

(* The loop over new_refs, when all of them are known, have no task and are *)
(* nothing the tracker is handling.                                        *)
LEMMA SpawnNextInv ==
    ASSUME TypeOK, NEW d \in Daemons, DaemonInv(d),
           NEW refs \in SUBSET Containers, NEW s, SpawnNext(d, refs, s),
           known[d] \subseteq known'[d],
           refs \subseteq known'[d] \ (Active(d) \cup {cur[d]} \cup todo[d]),
           TrackerUnchanged(d)
    PROVE  /\ DaemonInv(d)'
           /\ \A e \in Daemons : e # d => SpawnerUnchanged(e) /\ ManagerUnchanged(e)
<1>1. CASE /\ lpc' = [lpc EXCEPT ![d] = "idle"]
           /\ pending' = [pending EXCEPT ![d] = {}]
           /\ spawning' = [spawning EXCEPT ![d] = NoContainer]
           /\ UNCHANGED listeners
  <2>1. /\ lpc'[d] = "idle" /\ pending'[d] = {}
        /\ tasks' = tasks /\ status' = status
        /\ \A e \in Daemons : e # d => SpawnerUnchanged(e)
    BY <1>1 DEF TypeOK, listeners, SpawnerUnchanged
  <2>2. Active(d)' = Active(d) /\ ToSpawn(d)' = {}
    BY <2>1 DEF Active, ToSpawn
  <2>3. ManagerInv(d)'
    BY <2>1 DEF DaemonInv, ManagerInv, TrackerUnchanged
  <2>4. TrackerInv(d)'
    BY <2>1, <2>2 DEF DaemonInv, TrackerInv, TrackerUnchanged
  <2>5. SpawnerInv(d)'
    BY <2>1, <2>2 DEF SpawnerInv
  <2> QED
    BY <2>1, <2>3, <2>4, <2>5 DEF DaemonInv, ManagerUnchanged
<1>2. ASSUME NEW c \in refs, NEW skip \in SUBSET (refs \cap Active(d)),
             pending' = [pending EXCEPT ![d] = refs \ (skip \cup {c})],
             BeginSpawn(d, c, s)
      PROVE  /\ DaemonInv(d)'
             /\ \A e \in Daemons : e # d => SpawnerUnchanged(e) /\ ManagerUnchanged(e)
  <2>1. /\ pending'[d] \subseteq refs \ {c}
        /\ spawning'[d] = c
        /\ c \in Containers
        /\ \A e \in Daemons : e # d => pending'[e] = pending[e] /\ spawning'[e] = spawning[e]
    BY <1>2 DEF TypeOK, BeginSpawn
  <2>2. CASE Locked(s)
    <3>1. /\ lpc'[d] = "waiting"
          /\ tasks' = tasks /\ status' = status
          /\ \A e \in Daemons : e # d => lpc'[e] = lpc[e]
      BY <1>2, <2>2 DEF TypeOK, listeners, BeginSpawn
    <3>2. Active(d)' = Active(d) /\ ToSpawn(d)' \subseteq refs
      BY <2>1, <3>1 DEF Active, ToSpawn
    <3>3. ManagerInv(d)'
      BY <3>1 DEF DaemonInv, ManagerInv, TrackerUnchanged
    <3>4. TrackerInv(d)'
      BY <3>1, <3>2 DEF DaemonInv, TrackerInv, TrackerUnchanged
    <3>5. SpawnerInv(d)'
      BY <2>1, <3>1, <3>2 DEF SpawnerInv, TrackerUnchanged
    <3> QED
      BY <2>1, <3>1, <3>3, <3>4, <3>5 DEF DaemonInv, SpawnerUnchanged, ManagerUnchanged
  <2>3. CASE ~Locked(s)
    <3>1. /\ CreateTask(d, c)
          /\ lpc'[d] = "logging"
          /\ \A e \in Daemons : e # d => lpc'[e] = lpc[e]
      BY <1>2, <2>3 DEF TypeOK, BeginSpawn, SpawnHolding
    <3>2. c \in known'[d] /\ c \notin Active(d) /\ c # cur[d]
      BY <1>2
    <3>3. /\ ManagerInv(d)' /\ TrackerInv(d)'
          /\ Active(d)' = Active(d) \cup {c}
          /\ \A e \in Daemons : e # d => ManagerUnchanged(e)
      BY <2>1, <3>1, <3>2, CreateTaskInv
    <3>4. ToSpawn(d)' \subseteq refs \ {c}
      BY <2>1, <3>1 DEF ToSpawn
    <3>5. SpawnerInv(d)'
      BY <3>1, <3>3, <3>4 DEF SpawnerInv, TrackerUnchanged
    <3> QED
      BY <2>1, <3>1, <3>3, <3>5 DEF DaemonInv, SpawnerUnchanged
  <2> QED
    BY <2>2, <2>3
<1> QED
  BY <1>1, <1>2 DEF SpawnNext

(* The steps of the listing loop preserve the invariant. *)
LEMMA ListingInv ==
    ASSUME TypeOK, NEW d \in Daemons, DaemonInv(d), ListingStep(d),
           ~ PsCrashes(d)
    PROVE  /\ DaemonInv(d)'
           /\ \A e \in Daemons : e # d =>
                  /\ known'[e] = known[e]
                  /\ SpawnerUnchanged(e) /\ ManagerUnchanged(e)
           /\ \A e \in Daemons : TrackerUnchanged(e)
<1> DEFINE Goal == /\ DaemonInv(d)'
                   /\ \A e \in Daemons : e # d =>
                         /\ known'[e] = known[e]
                         /\ SpawnerUnchanged(e) /\ ManagerUnchanged(e)
                   /\ \A e \in Daemons : TrackerUnchanged(e)
<1>1. CASE PsStart(d) \/ PsFails(d)
  <2>1. /\ known' = known /\ tasks' = tasks /\ status' = status
        /\ pending' = pending /\ spawning' = spawning
        /\ lpc[d] \in {"idle", "ps"} /\ lpc'[d] \in {"idle", "ps"}
        /\ \A e \in Daemons : e # d => lpc'[e] = lpc[e]
    BY <1>1 DEF TypeOK, PsStart, PsFails, registry, listeners
  <2>2. \A e \in Daemons : TrackerUnchanged(e)
    BY <1>1 DEF PsStart, PsFails, tracker, TrackerUnchanged
  <2>3. Active(d)' = Active(d) /\ ToSpawn(d)' = {}
    BY <2>1 DEF Active, ToSpawn, DaemonInv, SpawnerInv
  <2>4. ManagerInv(d)'
    BY <2>1, <2>2 DEF DaemonInv, ManagerInv, TrackerUnchanged
  <2>5. TrackerInv(d)'
    BY <2>1, <2>2, <2>3 DEF DaemonInv, TrackerInv, TrackerUnchanged
  <2>6. SpawnerInv(d)'
    BY <2>1, <2>3 DEF DaemonInv, SpawnerInv
  <2> QED
    BY <2>1, <2>2, <2>4, <2>5, <2>6 DEF DaemonInv, SpawnerUnchanged, ManagerUnchanged
<1>2. CASE PsReturns(d)
  <2>1. /\ known'[d] = KnownAfter(known[d], seen[d])
        /\ \A e \in Daemons : e # d => known'[e] = known[e]
        /\ SpawnNext(d, NewRefs(known[d], seen[d]), sem)
    BY <1>2 DEF TypeOK, PsReturns
  <2>2. \A e \in Daemons : TrackerUnchanged(e)
    BY <1>2 DEF PsReturns, tracker, TrackerUnchanged
  <2>3. NewRefs(known[d], seen[d])
          \subseteq known'[d] \ (Active(d) \cup {cur[d]} \cup todo[d])
    <3>1. cur[d] \in known[d] \/ cur[d] = NoContainer
      BY DEF DaemonInv, TrackerInv
    <3>2. seen[d] \subseteq Containers /\ NoContainer \notin Containers
      BY WatchAssumption DEF TypeOK
    <3>3. todo[d] \subseteq known[d] /\ Active(d) \subseteq known[d]
      BY DEF DaemonInv, TrackerInv
    <3> QED
      BY <2>1, <3>1, <3>2, <3>3 DEF NewRefs, KnownAfter
  <2>4. known[d] \subseteq known'[d]
    BY <2>1 DEF KnownAfter
  <2>5. NewRefs(known[d], seen[d]) \in SUBSET Containers
    BY DEF NewRefs, TypeOK
  <2> QED
    BY <2>1, <2>2, <2>3, <2>4, <2>5, SpawnNextInv
<1>3. CASE SpawnGranted(d) \/ SpawnLogged(d)
  <2>1. /\ known' = known
        /\ \A e \in Daemons : TrackerUnchanged(e)
        /\ pending[d] \in SUBSET Containers
    BY <1>3 DEF SpawnGranted, SpawnLogged, registry, tracker, TrackerUnchanged, TypeOK
  <2>2. ToSpawn(d) \subseteq known'[d] \ (Active(d) \cup {cur[d]} \cup todo[d])
    BY <2>1 DEF DaemonInv, SpawnerInv
  <2>3. pending[d] \subseteq ToSpawn(d)
    BY DEF ToSpawn
  <2>4. ASSUME NEW s, SpawnNext(d, pending[d], s)
        PROVE  Goal
    BY <2>1, <2>2, <2>3, <2>4, SpawnNextInv
  <2>5. CASE SpawnGranted(d) /\ spawning[d] \notin Active(d)
    <3>1. /\ CreateTask(d, spawning[d])
          /\ lpc[d] = "waiting" /\ lpc' = [lpc EXCEPT ![d] = "logging"]
          /\ pending' = pending /\ spawning' = spawning
      BY <2>5 DEF SpawnGranted, SpawnHolding
    <3>2. spawning[d] \in Containers \ pending[d] /\ spawning[d] \in ToSpawn(d)
      BY <3>1 DEF DaemonInv, SpawnerInv, ToSpawn
    <3>3. /\ ManagerInv(d)' /\ TrackerInv(d)'
          /\ Active(d)' = Active(d) \cup {spawning[d]}
          /\ \A e \in Daemons : e # d => ManagerUnchanged(e)
      BY <2>1, <2>2, <2>5, <3>1, <3>2, CreateTaskInv
    <3>4. lpc'[d] = "logging" /\ \A e \in Daemons : e # d => lpc'[e] = lpc[e]
      BY <3>1 DEF TypeOK
    <3>5. ToSpawn(d)' = pending[d]
      BY <3>1, <3>4 DEF ToSpawn
    <3>6. SpawnerInv(d)'
      BY <2>1, <2>2, <2>3, <3>2, <3>3, <3>4, <3>5 DEF SpawnerInv, TrackerUnchanged
    <3> QED
      BY <2>1, <3>1, <3>3, <3>4, <3>6 DEF DaemonInv, SpawnerUnchanged
  <2> QED
    BY <1>3, <2>4, <2>5 DEF SpawnGranted, SpawnLogged
<1> QED
  BY <1>1, <1>2, <1>3 DEF ListingStep

(* Where the loop of run_once can get to. *)
LEMMA SweepResult ==
    ASSUME TypeOK, NEW d \in Daemons, NEW ids, NEW kn, NEW ms, Sweep(d, ids, kn, ms)
    PROVE  /\ \/ tpc'[d] = "sleep" /\ todo'[d] = {} /\ cur'[d] = NoContainer
              \/ tpc'[d] = "logging" /\ cur'[d] \in ids /\ todo'[d] \subseteq ids \ {cur'[d]}
           /\ \A e \in Daemons : e # d =>
                  tpc'[e] = tpc[e] /\ todo'[e] = todo[e] /\ cur'[e] = cur[e]
<1>1. CASE /\ tpc' = [tpc EXCEPT ![d] = "sleep"]
           /\ todo' = [todo EXCEPT ![d] = {}]
           /\ cur' = [cur EXCEPT ![d] = NoContainer]
  BY <1>1 DEF TypeOK
<1>2. ASSUME NEW c \in ids, NEW passed,
             tpc' = [tpc EXCEPT ![d] = "logging"],
             todo' = [todo EXCEPT ![d] = ids \ (passed \cup {c})],
             cur' = [cur EXCEPT ![d] = c]
      PROVE  /\ tpc'[d] = "logging" /\ cur'[d] \in ids /\ todo'[d] \subseteq ids \ {cur'[d]}
             /\ \A e \in Daemons : e # d =>
                    tpc'[e] = tpc[e] /\ todo'[e] = todo[e] /\ cur'[e] = cur[e]
  BY <1>2 DEF TypeOK
<1> QED
  BY <1>1, <1>2 DEF Sweep

(* The end of a stop: c, the container that was being stopped, has no task  *)
(* any more and is forgotten; no task of d is being cancelled.             *)
LEMMA ForgetAndSweepInv ==
    ASSUME TypeOK, NEW d \in Daemons, DaemonInv(d), tpc[d] # "sleep",
           ForgetAndSweep(d),
           \A x \in Containers : tasks'[d][x] = IF x = cur[d] THEN NoSlot ELSE tasks[d][x],
           \A x \in Containers, k \in Slots :
               \/ status'[d][x][k] = status[d][x][k]
               \/ status'[d][x][k] = "none" /\ tasks[d][x] # k,
           \A k \in Slots : status'[d][cur[d]][k] \notin Live,
           \A x \in Containers, k \in Slots :
               status'[d][x][k] \notin {"cancelling", "cancelled"},
           SpawnerUnchanged(d)
    PROVE  /\ DaemonInv(d)'
           /\ \A e \in Daemons : e # d => /\ known'[e] = known[e]
                                        /\ tpc'[e] = tpc[e] /\ todo'[e] = todo[e]
                                        /\ cur'[e] = cur[e]
<1>1. /\ known'[d] = known[d] \ {cur[d]}
      /\ \A e \in Daemons : e # d => known'[e] = known[e]
      /\ Sweep(d, todo[d], KnownWithout(known[d], cur[d]), MissesWithout(misses[d], cur[d]))
  BY DEF TypeOK, ForgetAndSweep, KnownWithout
<1>2. /\ \/ tpc'[d] = "sleep" /\ todo'[d] = {} /\ cur'[d] = NoContainer
         \/ tpc'[d] = "logging" /\ cur'[d] \in todo[d] /\ todo'[d] \subseteq todo[d] \ {cur'[d]}
      /\ \A e \in Daemons : e # d =>
             tpc'[e] = tpc[e] /\ todo'[e] = todo[e] /\ cur'[e] = cur[e]
  BY <1>1, SweepResult
<1>3. /\ cur[d] \in known[d] /\ todo[d] \subseteq known[d] \ {cur[d]}
      /\ known[d] \subseteq Containers /\ NoContainer \notin Containers
      /\ NoSlot \notin Slots
  BY WatchAssumption DEF TypeOK, DaemonInv, TrackerInv
<1>4. Active(d)' = Active(d) \ {cur[d]}
  BY DEF Active
<1>5. ManagerInv(d)'
  BY <1>3 DEF DaemonInv, ManagerInv, Live, EndedStates
<1>6. TrackerInv(d)'
  BY <1>1, <1>2, <1>3, <1>4 DEF DaemonInv, TrackerInv
<1>7. SpawnerInv(d)'
  <2>1. ToSpawn(d)' = ToSpawn(d)
    BY DEF ToSpawn, SpawnerUnchanged
  <2>2. ToSpawn(d) \subseteq known[d] \ (Active(d) \cup {cur[d]} \cup todo[d])
    BY DEF DaemonInv, SpawnerInv
  <2>3. cur'[d] \in todo[d] \cup {NoContainer} /\ todo'[d] \subseteq todo[d]
    BY <1>2
  <2>4. ToSpawn(d)' \subseteq (known[d] \ {cur[d]})
                               \ ((Active(d) \ {cur[d]}) \cup {cur'[d]} \cup todo'[d])
    BY <1>3, <2>1, <2>2, <2>3
  <2>5. ToSpawn(d)' \subseteq known'[d] \ (Active(d)' \cup {cur'[d]} \cup todo'[d])
    BY <1>1, <1>4, <2>4
  <2> QED
    BY <2>5 DEF DaemonInv, SpawnerInv, SpawnerUnchanged
<1> QED
  BY <1>1, <1>2, <1>5, <1>6, <1>7 DEF DaemonInv

(* The steps of the tracker preserve the invariant. *)
LEMMA TrackerStepInv ==
    ASSUME TypeOK, NEW d \in Daemons, DaemonInv(d), TrackerStep(d),
           ~ StopFindsFailed(d)
    PROVE  /\ DaemonInv(d)'
           /\ \A e \in Daemons : e # d =>
                  /\ known'[e] = known[e]
                  /\ TrackerUnchanged(e) /\ ManagerUnchanged(e)
           /\ \A e \in Daemons : SpawnerUnchanged(e)
<1>0. \A e \in Daemons : SpawnerUnchanged(e)
  BY DEF TrackerStep, TrackerWakes, StopFindsNothing, StopCancels, StopFindsExited,
         StopFindsFailed, StopReturns, listing, SpawnerUnchanged
<1>1. CASE TrackerWakes(d)
  <2>1. /\ known' = known /\ tasks' = tasks /\ status' = status /\ victim' = victim
        /\ tpc[d] = "sleep"
        /\ Sweep(d, Active(d), known[d], misses[d])
    BY <1>1 DEF TrackerWakes, registry, listeners
  <2>2. /\ \/ tpc'[d] = "sleep" /\ todo'[d] = {} /\ cur'[d] = NoContainer
           \/ tpc'[d] = "logging" /\ cur'[d] \in Active(d)
              /\ todo'[d] \subseteq Active(d) \ {cur'[d]}
        /\ \A e \in Daemons : e # d =>
               tpc'[e] = tpc[e] /\ todo'[e] = todo[e] /\ cur'[e] = cur[e]
    BY <2>1, SweepResult
  <2>3. Active(d)' = Active(d) /\ ToSpawn(d)' = ToSpawn(d)
    BY <1>0, <2>1 DEF Active, ToSpawn, SpawnerUnchanged
  <2>4. Active(d) \subseteq known[d]
    BY DEF DaemonInv, TrackerInv
  <2>5. ManagerInv(d)'
    BY <2>1 DEF DaemonInv, ManagerInv
  <2>6. TrackerInv(d)'
    BY <2>1, <2>2, <2>3, <2>4 DEF TrackerInv
  <2>7. SpawnerInv(d)'
    <3>1. NoContainer \notin known[d]
      BY WatchAssumption DEF TypeOK
    <3>2. ToSpawn(d) \subseteq known[d] \ Active(d)
      BY DEF DaemonInv, SpawnerInv
    <3>3. cur'[d] \in Active(d) \cup {NoContainer} /\ todo'[d] \subseteq Active(d)
      BY <2>2
    <3>4. ToSpawn(d)' \subseteq known'[d] \ (Active(d)' \cup {cur'[d]} \cup todo'[d])
      BY <2>1, <2>3, <3>1, <3>2, <3>3
    <3> QED
      BY <1>0, <3>4 DEF DaemonInv, SpawnerInv, SpawnerUnchanged
  <2> QED
    BY <1>0, <2>1, <2>2, <2>5, <2>6, <2>7 DEF DaemonInv, TrackerUnchanged, ManagerUnchanged
<1>2. CASE tpc[d] # "sleep"
  <2>1. /\ cur[d] \in Containers /\ cur[d] \in known[d]
        /\ NoSlot \notin Slots /\ NoContainer \notin Containers
    BY <1>2, WatchAssumption DEF TypeOK, DaemonInv, TrackerInv
  <2>2. CASE StopFindsNothing(d) \/ StopFindsExited(d)
    <3>1. /\ tpc[d] = "logging" /\ ForgetAndSweep(d)
          /\ status' = status /\ victim' = victim
          /\ \A e \in Daemons : e # d => tasks'[e] = tasks[e]
          /\ \A x \in Containers :
                 tasks'[d][x] = IF x = cur[d] THEN NoSlot ELSE tasks[d][x]
      BY <2>1, <2>2 DEF TypeOK, StopFindsNothing, StopFindsExited, listeners, Target
    <3>2. \A x \in Containers, k \in Slots :
             status[d][x][k] \notin {"cancelling", "cancelled"}
      BY <3>1 DEF DaemonInv, ManagerInv
    <3>3. \A k \in Slots : status[d][cur[d]][k] \notin Live
      <4>1. \A k \in Slots : status[d][cur[d]][k] \in Live => tasks[d][cur[d]] = k
        BY <2>1 DEF DaemonInv, ManagerInv
      <4> QED
        BY <2>1, <2>2, <4>1 DEF StopFindsNothing, StopFindsExited, Target, Live
    <3>4. /\ DaemonInv(d)'
          /\ \A e \in Daemons : e # d => /\ known'[e] = known[e]
                                       /\ tpc'[e] = tpc[e] /\ todo'[e] = todo[e]
                                       /\ cur'[e] = cur[e]
      BY <1>0, <1>2, <3>1, <3>2, <3>3, ForgetAndSweepInv
    <3> QED
      BY <1>0, <3>1, <3>4 DEF TrackerUnchanged, ManagerUnchanged
  <2>3. CASE StopCancels(d)
    <3>1. PICK k \in Slots :
             /\ k = tasks[d][cur[d]] /\ status[d][cur[d]][k] \in Live
             /\ status' = [status EXCEPT ![d][cur[d]][k] = "cancelling"]
             /\ tasks' = [tasks EXCEPT ![d][cur[d]] = NoSlot]
             /\ victim' = [victim EXCEPT ![d] = k]
             /\ tpc' = [tpc EXCEPT ![d] = "stopping"]
             /\ known' = known /\ todo' = todo /\ cur' = cur
             /\ tpc[d] = "logging"
      <4>1. Target(d) \in Slots /\ Target(d) = tasks[d][cur[d]]
        BY <2>1, <2>3 DEF TypeOK, StopCancels, Target
      <4> QED
        BY <2>3, <4>1 DEF StopCancels, registry
    <3>2. /\ \A x \in Containers :
                 tasks'[d][x] = IF x = cur[d] THEN NoSlot ELSE tasks[d][x]
          /\ \A x \in Containers, j \in Slots :
                 status'[d][x][j] = IF x = cur[d] /\ j = k THEN "cancelling"
                                    ELSE status[d][x][j]
          /\ tpc'[d] = "stopping" /\ victim'[d] = k
          /\ \A e \in Daemons : e # d =>
                 /\ tasks'[e] = tasks[e] /\ status'[e] = status[e]
                 /\ tpc'[e] = tpc[e] /\ victim'[e] = victim[e]
      BY <2>1, <3>1 DEF TypeOK
    <3>3. Active(d)' = Active(d) \ {cur[d]} /\ ToSpawn(d)' = ToSpawn(d)
      BY <1>0, <3>2 DEF Active, ToSpawn, SpawnerUnchanged
    <3>4. ManagerInv(d)'
      BY <2>1, <3>1, <3>2 DEF DaemonInv, ManagerInv, Live, EndedStates
    <3>5. TrackerInv(d)'
      BY <2>1, <3>1, <3>2, <3>3 DEF DaemonInv, TrackerInv
    <3>6. SpawnerInv(d)'
      BY <1>0, <3>1, <3>3 DEF DaemonInv, SpawnerInv, SpawnerUnchanged
    <3> QED
      BY <1>0, <3>1, <3>2, <3>4, <3>5, <3>6 DEF DaemonInv, TrackerUnchanged, ManagerUnchanged
  <2>4. CASE StopReturns(d)
    <3>1. /\ victim[d] \in Slots /\ tasks[d][cur[d]] = NoSlot
          /\ tpc[d] = "stopping"
      BY <2>4 DEF StopReturns, DaemonInv, TrackerInv
    <3>2. /\ tasks' = tasks /\ ForgetAndSweep(d)
          /\ status' = [status EXCEPT ![d][cur[d]][victim[d]] = "none"]
          /\ victim' = [victim EXCEPT ![d] = NoSlot]
      BY <2>1, <2>4, <3>1 DEF StopReturns, Unregistered
    <3>3. /\ \A x \in Containers, j \in Slots :
                 status'[d][x][j] = IF x = cur[d] /\ j = victim[d] THEN "none"
                                    ELSE status[d][x][j]
          /\ \A e \in Daemons : e # d => status'[e] = status[e] /\ victim'[e] = victim[e]
      BY <2>1, <3>1, <3>2 DEF TypeOK
    <3>4. \A x \in Containers, j \in Slots :
             status'[d][x][j] \notin {"cancelling", "cancelled"}
      BY <3>3 DEF DaemonInv, ManagerInv
    <3>5. \A j \in Slots : status'[d][cur[d]][j] \notin Live
      BY <2>1, <3>1, <3>3 DEF DaemonInv, ManagerInv, Live
    <3>6. \A x \in Containers, j \in Slots :
             \/ status'[d][x][j] = status[d][x][j]
             \/ status'[d][x][j] = "none" /\ tasks[d][x] # j
      BY <2>1, <3>1, <3>3
    <3>7. \A x \in Containers :
             tasks'[d][x] = IF x = cur[d] THEN NoSlot ELSE tasks[d][x]
      BY <3>1, <3>2
    <3>8. /\ DaemonInv(d)'
          /\ \A e \in Daemons : e # d => /\ known'[e] = known[e]
                                       /\ tpc'[e] = tpc[e] /\ todo'[e] = todo[e]
                                       /\ cur'[e] = cur[e]
      BY <1>0, <1>2, <3>2, <3>4, <3>5, <3>6, <3>7, ForgetAndSweepInv
    <3> QED
      BY <1>0, <3>2, <3>3, <3>8 DEF TrackerUnchanged, ManagerUnchanged
  <2> QED
    BY <1>2, <2>2, <2>3, <2>4 DEF TrackerStep, TrackerWakes
<1> QED
  BY <1>1, <1>2 DEF TrackerStep, TrackerWakes, StopFindsNothing, StopCancels,
                    StopFindsExited, StopFindsFailed, StopReturns

(* So do those of the listener tasks, which touch the manager only. *)
LEMMA ListenerStepInv ==
    ASSUME TypeOK, NEW d \in Daemons, NEW c \in Containers, NEW k \in Slots,
           DaemonInv(d), ListenerStep(d, c, k)
    PROVE  /\ DaemonInv(d)'
           /\ \A e \in Daemons : e # d => known'[e] = known[e] /\ ManagerUnchanged(e)
           /\ \A e \in Daemons : SpawnerUnchanged(e) /\ TrackerUnchanged(e)
<1>0. \A e \in Daemons : /\ known'[e] = known[e]
                      /\ SpawnerUnchanged(e) /\ TrackerUnchanged(e)
  BY DEF ListenerStep, Connects, StreamEnds, ListenerFails, CancelDelivered, Becomes,
         DoneCallback, registry, listing, tracker, SpawnerUnchanged, TrackerUnchanged
<1>1. ASSUME NEW from, NEW to, Becomes(d, c, k, from, to),
             \/ from \subseteq Live /\ to \in Live \cup EndedStates
             \/ from = {"cancelling"} /\ to = "cancelled"
      PROVE  DaemonInv(d)' /\ \A e \in Daemons : e # d => ManagerUnchanged(e)
  <2>1. /\ tasks' = tasks
        /\ status[d][c][k] \in from
        /\ \A x \in Containers, j \in Slots :
               status'[d][x][j] = IF x = c /\ j = k THEN to ELSE status[d][x][j]
        /\ \A e \in Daemons : e # d => status'[e] = status[e]
    BY <1>1 DEF Becomes, TypeOK
  <2>2. Active(d)' = Active(d) /\ ToSpawn(d)' = ToSpawn(d)
    BY <1>0, <2>1 DEF Active, ToSpawn, SpawnerUnchanged
  <2>3. ManagerInv(d)'
    BY <1>0, <1>1, <2>1 DEF DaemonInv, ManagerInv, TrackerUnchanged, Live, EndedStates
  <2>4. TrackerInv(d)'
    <3>1. ASSUME tpc[d] = "stopping"
          PROVE  status'[d][cur[d]][victim[d]] \in {"cancelling", "cancelled"}
      <4>1. cur[d] \in Containers /\ victim[d] \in Slots
        BY <3>1 DEF TypeOK, DaemonInv, TrackerInv
      <4> QED
        BY <1>1, <2>1, <3>1, <4>1 DEF DaemonInv, TrackerInv, Live
    <3> QED
      BY <1>0, <2>1, <2>2, <3>1 DEF DaemonInv, TrackerInv, TrackerUnchanged
  <2>5. SpawnerInv(d)'
    BY <1>0, <2>2 DEF DaemonInv, SpawnerInv, SpawnerUnchanged, TrackerUnchanged
  <2> QED
    BY <2>1, <2>3, <2>4, <2>5 DEF DaemonInv, ManagerUnchanged
<1>2. CASE DoneCallback(d, c, k)
  <2>1. /\ status[d][c][k] \in EndedStates
        /\ \A x \in Containers, j \in Slots :
               status'[d][x][j] = IF x = c /\ j = k THEN "none" ELSE status[d][x][j]
        /\ \A x \in Containers :
               tasks'[d][x] = IF x = c /\ tasks[d][c] = k THEN NoSlot ELSE tasks[d][x]
        /\ \A e \in Daemons : e # d => status'[e] = status[e] /\ tasks'[e] = tasks[e]
    BY <1>2 DEF DoneCallback, Unregistered, TypeOK
  <2>2. NoSlot \notin Slots
    BY WatchAssumption
  <2>3. Active(d)' \subseteq Active(d) /\ ToSpawn(d)' = ToSpawn(d)
    BY <1>0, <2>1 DEF Active, ToSpawn, SpawnerUnchanged
  <2>4. ManagerInv(d)'
    BY <1>0, <2>1, <2>2 DEF DaemonInv, ManagerInv, TrackerUnchanged, Live, EndedStates
  <2>5. TrackerInv(d)'
    <3>1. ASSUME tpc[d] = "stopping"
          PROVE  /\ status'[d][cur[d]][victim[d]] \in {"cancelling", "cancelled"}
                 /\ tasks'[d][cur[d]] = NoSlot
      <4>1. cur[d] \in Containers /\ victim[d] \in Slots
        BY <3>1 DEF TypeOK, DaemonInv, TrackerInv
      <4> QED
        BY <2>1, <3>1, <4>1 DEF DaemonInv, TrackerInv, EndedStates
    <3> QED
      BY <1>0, <2>3, <3>1 DEF DaemonInv, TrackerInv, TrackerUnchanged
  <2>6. SpawnerInv(d)'
    BY <1>0, <2>3 DEF DaemonInv, SpawnerInv, SpawnerUnchanged, TrackerUnchanged
  <2>7. \A e \in Daemons : e # d => known'[e] = known[e] /\ ManagerUnchanged(e)
    BY <1>0, <2>1 DEF ManagerUnchanged
  <2> QED
    BY <1>0, <2>4, <2>5, <2>6, <2>7 DEF DaemonInv
<1>3. CASE ~ DoneCallback(d, c, k)
  <2>1. DaemonInv(d)' /\ \A e \in Daemons : e # d => ManagerUnchanged(e)
    BY <1>1, <1>3 DEF ListenerStep, Connects, StreamEnds, ListenerFails, CancelDelivered,
                      Live, EndedStates
  <2> QED
    BY <1>0, <2>1
<1> QED
  BY <1>2, <1>3

(* A process that has just started satisfies the invariant. *)
LEMMA InitInv == Init => IInv
<1> SUFFICES ASSUME Init PROVE IInv
  OBVIOUS
<1>1. TypeOK
  <2>1. NewSemaphore(MaxSpawns) \in Semaphores(Daemons)
    BY WatchAssumption, NewSemaphoreType
  <2>2. "none" \in Statuses /\ 0 \in 0..Threshold
    BY ThresholdAssumption DEF Statuses
  <2> QED
    BY <2>1, <2>2 DEF TypeOK, Init, PerDaemon, Semaphores
<1>2. ASSUME NEW d \in Daemons PROVE DaemonInv(d)
  BY WatchAssumption DEF Init, PerDaemon, DaemonInv, ManagerInv, TrackerInv, SpawnerInv,
                         Active, ToSpawn, Live
<1> QED
  BY <1>1, <1>2 DEF IInv

(* So does one that has gone down. *)
LEMMA CrashInv ==
    ASSUME IInv, NEW culprit \in {"listing", "tracker"}, Crash(culprit)
    PROVE  IInv'
<1>1. TypeOK'
  BY CrashType DEF IInv
<1>2. ASSUME NEW d \in Daemons PROVE DaemonInv(d)'
  BY WatchAssumption DEF Crash, PerDaemon, DaemonInv, ManagerInv, TrackerInv, SpawnerInv,
                         Active, ToSpawn, Live
<1> QED
  BY <1>1, <1>2 DEF IInv

(* Every step preserves the invariant. *)
LEMMA NextInv == IInv /\ [Next]_vars => IInv'
<1> SUFFICES ASSUME IInv, [Next]_vars PROVE IInv'
  OBVIOUS
<1>1. ASSUME NEW d \in Daemons, ListingStep(d) PROVE IInv'
  <2>1. CASE PsCrashes(d)
    BY <2>1, CrashInv DEF PsCrashes
  <2>2. CASE ~ PsCrashes(d)
    <3>1. TypeOK'
      BY <1>1, ListingType DEF IInv, DaemonInv
    <3>2. /\ DaemonInv(d)'
          /\ \A e \in Daemons : e # d =>
                 /\ known'[e] = known[e]
                 /\ SpawnerUnchanged(e) /\ ManagerUnchanged(e)
          /\ \A e \in Daemons : TrackerUnchanged(e)
      BY <1>1, <2>2, ListingInv DEF IInv
    <3>3. ASSUME NEW e \in Daemons PROVE DaemonInv(e)'
      BY <3>2, Frame DEF IInv
    <3> QED
      BY <3>1, <3>3 DEF IInv
  <2> QED
    BY <2>1, <2>2
<1>2. ASSUME NEW d \in Daemons, TrackerStep(d) PROVE IInv'
  <2>1. CASE StopFindsFailed(d)
    BY <2>1, CrashInv DEF StopFindsFailed
  <2>2. CASE ~ StopFindsFailed(d)
    <3>1. TypeOK'
      BY <1>2, TrackerType DEF IInv, DaemonInv
    <3>2. /\ DaemonInv(d)'
          /\ \A e \in Daemons : e # d =>
                 /\ known'[e] = known[e]
                 /\ TrackerUnchanged(e) /\ ManagerUnchanged(e)
          /\ \A e \in Daemons : SpawnerUnchanged(e)
      BY <1>2, <2>2, TrackerStepInv DEF IInv
    <3>3. ASSUME NEW e \in Daemons PROVE DaemonInv(e)'
      BY <3>2, Frame DEF IInv
    <3> QED
      BY <3>1, <3>3 DEF IInv
  <2> QED
    BY <2>1, <2>2
<1>3. ASSUME NEW d \in Daemons, NEW c \in Containers, NEW k \in Slots,
             ListenerStep(d, c, k)
      PROVE  IInv'
  <2>1. TypeOK'
    BY <1>3, ListenerType DEF IInv
  <2>2. /\ DaemonInv(d)'
        /\ \A e \in Daemons : e # d => known'[e] = known[e] /\ ManagerUnchanged(e)
        /\ \A e \in Daemons : SpawnerUnchanged(e) /\ TrackerUnchanged(e)
    BY <1>3, ListenerStepInv DEF IInv
  <2>3. ASSUME NEW e \in Daemons PROVE DaemonInv(e)'
    BY <2>2, Frame DEF IInv
  <2> QED
    BY <2>1, <2>3 DEF IInv
<1>4. CASE \/ Restart
           \/ \E d \in Daemons, c \in Containers : HostStep(d, c)
           \/ UNCHANGED vars
  <2>1. UNCHANGED <<registry, listing, sem, listeners, tracker>>
    BY <1>4 DEF Restart, HostStep, ContainerStarts, ContainerStops, vars
  <2>2. TypeOK'
    <3>1. CASE UNCHANGED vars
      BY <3>1 DEF IInv, TypeOK, vars, registry, listing, listeners, tracker
    <3> QED
      BY <1>4, <3>1, HostType DEF IInv
  <2>3. ASSUME NEW e \in Daemons PROVE DaemonInv(e)'
    <3>1. /\ known'[e] = known[e]
          /\ SpawnerUnchanged(e) /\ ManagerUnchanged(e) /\ TrackerUnchanged(e)
      BY <2>1 DEF registry, listing, listeners, tracker,
                  SpawnerUnchanged, ManagerUnchanged, TrackerUnchanged
    <3> QED
      BY <3>1, Frame DEF IInv
  <2> QED
    BY <2>2, <2>3 DEF IInv
<1> QED
  BY <1>1, <1>2, <1>3, <1>4 DEF Next

(* IInv holds in every reachable state. *)
THEOREM InvariantHolds == Spec => []IInv
BY InitInv, NextInv, PTL DEF Spec

-----------------------------------------------------------------------------
(* What follows from it.                                                   *)

(* Type correctness of the listener process. *)
THEOREM TypesHold == Spec => []TypeOK
<1>1. IInv => TypeOK
  BY DEF IInv
<1> QED
  BY <1>1, InvariantHolds, PTL

(* No container's logs are ever streamed by two listeners at a time,        *)
(* whatever the spawns, stops, listings and callbacks of any number of     *)
(* daemons do in between (container_listener.py line 1).                    *)
THEOREM OneListener == Spec => []OneListenerPerContainer
<1>1. ASSUME IInv, NEW d \in Daemons, NEW c \in Containers,
             NEW j \in Streaming(d, c), NEW k \in Streaming(d, c)
      PROVE  j = k
  <2>1. DaemonInv(d) /\ NoSlot \notin Slots
    BY <1>1, WatchAssumption DEF IInv
  <2>2. /\ j \in Slots /\ status[d][c][j] \in Live \cup {"cancelling"}
        /\ k \in Slots /\ status[d][c][k] \in Live \cup {"cancelling"}
    BY DEF Streaming
  <2> QED
    BY <2>1, <2>2 DEF DaemonInv, ManagerInv, TrackerInv
<1>2. IInv => OneListenerPerContainer
  BY <1>1 DEF OneListenerPerContainer
<1> QED
  BY <1>2, InvariantHolds, PTL

(* No listener escapes the manager: stop() can find every listener that     *)
(* nobody has cancelled (app.py lines 78, 92 and 110).                      *)
THEOREM NoOrphans == Spec => []NoOrphanListener
<1>1. IInv => NoOrphanListener
  BY DEF IInv, DaemonInv, ManagerInv, NoOrphanListener
<1> QED
  BY <1>1, InvariantHolds, PTL

(* Every active id has an entry in the registry: the branch of run_once for *)
(* an id that is not there (container_tracker.py line 54) is dead code.     *)
THEOREM ActiveIdsAreKnown == Spec => []ActiveAreKnown
<1>1. IInv => ActiveAreKnown
  BY DEF IInv, DaemonInv, TrackerInv, ActiveAreKnown
<1> QED
  BY <1>1, InvariantHolds, PTL

(* spawn() never meets a listener of the container it is called for, not    *)
(* even one that is being stopped: both early returns are dead code         *)
(* (app.py lines 63 and 66).                                               *)
THEOREM SpawnsMeetNoRival == Spec => []SpawnMeetsNoRival
<1>1. ASSUME IInv, NEW d \in Daemons
      PROVE  /\ ToSpawn(d) \subseteq known[d] \ (Active(d) \cup {cur[d]} \cup todo[d])
             /\ \A c \in ToSpawn(d) : Streaming(d, c) = {}
  <2>1. ToSpawn(d) \subseteq known[d] \ (Active(d) \cup {cur[d]} \cup todo[d])
    BY <1>1 DEF IInv, DaemonInv, SpawnerInv
  <2>2. ASSUME NEW c \in ToSpawn(d), NEW k \in Streaming(d, c)
        PROVE  FALSE
    <3>1. /\ c \in Containers /\ c \notin Active(d) /\ c # cur[d]
          /\ NoSlot \notin Slots
      BY <1>1, <2>1, WatchAssumption DEF IInv, TypeOK
    <3>2. k \in Slots /\ status[d][c][k] \in Live \cup {"cancelling"}
      BY DEF Streaming
    <3>3. tasks[d][c] = NoSlot
      BY <3>1 DEF Active
    <3> QED
      BY <1>1, <3>1, <3>2, <3>3 DEF IInv, DaemonInv, ManagerInv
  <2> QED
    BY <2>1, <2>2
<1>2. IInv => SpawnMeetsNoRival
  BY <1>1 DEF SpawnMeetsNoRival
<1> QED
  BY <1>2, InvariantHolds, PTL

-----------------------------------------------------------------------------
(* The spawns of all daemons use the semaphore as SpawnGate.tla says.       *)

GatePc ==
    [d \in Daemons |-> CASE lpc[d] = "waiting" -> "waiting"
                          [] lpc[d] = "logging" -> "holding"
                          [] OTHER -> "out"]

(* The operators are those of AsyncSemaphore, by whatever name. *)
LEMMA GateSemaphore ==
    \A s, d, n : /\ Gate!NewSemaphore(n) = NewSemaphore(n)
                /\ Gate!Locked(s) = Locked(s)
                /\ Gate!Take(s) = Take(s)
                /\ Gate!Enqueue(s, d) = Enqueue(s, d)
                /\ Gate!Release(s) = Release(s)
                /\ Gate!Resume(s, d) = Resume(s, d)
BY DEF NewSemaphore, Locked, Take, Enqueue, Release, Resume, WakeFirst, Semaphore,
       Gate!NewSemaphore, Gate!Locked, Gate!Take, Gate!Enqueue, Gate!Release,
       Gate!Resume, Gate!WakeFirst, Gate!Semaphore

(* The place of one spawner changes with its loop. *)
LEMMA GatePcUpdate ==
    ASSUME lpc \in [Daemons -> {"idle", "ps", "waiting", "logging"}], NEW d \in Daemons,
           NEW l \in {"idle", "ps", "waiting", "logging"},
           lpc' = [lpc EXCEPT ![d] = l]
    PROVE  GatePc' = [GatePc EXCEPT ![d] = CASE l = "waiting" -> "waiting"
                                             [] l = "logging" -> "holding"
                                             [] OTHER -> "out"]
BY DEF GatePc

(* The loop over the new refs leaves the semaphore in state s, or asks it   *)
(* for a permit again.                                                     *)
LEMMA SpawnNextGate ==
    ASSUME lpc \in [Daemons -> {"idle", "ps", "waiting", "logging"}], NEW d \in Daemons,
           NEW s, NEW refs, SpawnNext(d, refs, s)
    PROVE  \/ sem' = s /\ GatePc' = [GatePc EXCEPT ![d] = "out"]
           \/ Gate!Acquire(s, d)
<1>1. CASE sem' = s /\ lpc' = [lpc EXCEPT ![d] = "idle"]
  BY <1>1, GatePcUpdate
<1>2. ASSUME NEW c, BeginSpawn(d, c, s)
      PROVE  Gate!Acquire(s, d)
  <2>1. CASE Locked(s)
    <3>1. sem' = Enqueue(s, d) /\ lpc' = [lpc EXCEPT ![d] = "waiting"]
      BY <1>2, <2>1 DEF BeginSpawn
    <3>2. GatePc' = [GatePc EXCEPT ![d] = "waiting"]
      BY <3>1, GatePcUpdate
    <3> QED
      BY <2>1, <3>1, <3>2, GateSemaphore DEF Gate!Acquire, GatePc
  <2>2. CASE ~Locked(s)
    <3>1. sem' = Take(s) /\ lpc' = [lpc EXCEPT ![d] = "logging"]
      BY <1>2, <2>2 DEF BeginSpawn, SpawnHolding
    <3>2. GatePc' = [GatePc EXCEPT ![d] = "holding"]
      BY <3>1, GatePcUpdate
    <3> QED
      BY <2>2, <3>1, <3>2, GateSemaphore DEF Gate!Acquire, GatePc
  <2> QED
    BY <2>1, <2>2
<1> QED
  BY <1>1, <1>2 DEF SpawnNext

LEMMA ListingGate ==
    ASSUME IInv, NEW d \in Daemons, ListingStep(d)
    PROVE  Gate!Next \/ UNCHANGED Gate!gate
<1>1. /\ lpc \in [Daemons -> {"idle", "ps", "waiting", "logging"}]
      /\ GatePc \in [Daemons -> {"out", "waiting", "holding"}]
  BY DEF IInv, TypeOK, GatePc
<1>2. CASE PsStart(d) \/ PsFails(d)
  <2>1. UNCHANGED <<sem, GatePc>>
    BY <1>1, <1>2 DEF PsStart, PsFails, GatePc
  <2> QED
    BY <2>1 DEF Gate!gate, GatePc
<1>3. CASE PsCrashes(d)
  <2>1. Gate!Restarted
    BY <1>3, GateSemaphore DEF PsCrashes, Crash, PerDaemon, Gate!Restarted
  <2> QED
    BY <2>1 DEF Gate!Next
<1>4. CASE PsReturns(d)
  <2>1. GatePc[d] = "out"
    BY <1>4 DEF PsReturns, GatePc
  <2>2. SpawnNext(d, NewRefs(known[d], seen[d]), sem)
    BY <1>4 DEF PsReturns
  <2>3. CASE sem' = sem /\ GatePc' = [GatePc EXCEPT ![d] = "out"]
    <3>1. UNCHANGED <<sem, GatePc>>
      BY <1>1, <2>1, <2>3
    <3> QED
      BY <3>1 DEF Gate!gate, GatePc
  <2>4. CASE Gate!Acquire(sem, d)
    <3>1. Gate!Enter(d)
      BY <2>1, <2>4 DEF Gate!Enter, GatePc
    <3> QED
      BY <3>1 DEF Gate!Next
  <2> QED
    BY <1>1, <2>2, <2>3, <2>4, SpawnNextGate
<1>5. CASE SpawnGranted(d)
  <2>1. GatePc[d] = "waiting" /\ d \in sem.granted
    BY <1>5 DEF SpawnGranted, GatePc
  <2>2. CASE spawning[d] \in Active(d)
    <3>1. SpawnNext(d, pending[d], Release(Resume(sem, d)))
      BY <1>5, <2>2 DEF SpawnGranted
    <3>2. \E again \in BOOLEAN : Gate!Leave(Resume(sem, d), d, again)
      BY <1>1, <3>1, SpawnNextGate, GateSemaphore DEF Gate!Leave, GatePc
    <3> QED
      BY <2>1, <3>2, GateSemaphore DEF Gate!Granted, Gate!Next, GatePc
  <2>3. CASE spawning[d] \notin Active(d)
    <3>1. sem' = Resume(sem, d) /\ lpc' = [lpc EXCEPT ![d] = "logging"]
      BY <1>5, <2>3 DEF SpawnGranted, SpawnHolding
    <3>2. GatePc' = [GatePc EXCEPT ![d] = "holding"]
      BY <1>1, <3>1, GatePcUpdate
    <3> QED
      BY <2>1, <3>1, <3>2, GateSemaphore DEF Gate!Granted, Gate!Next, GatePc
  <2> QED
    BY <2>2, <2>3
<1>6. CASE SpawnLogged(d)
  <2>1. GatePc[d] = "holding" /\ SpawnNext(d, pending[d], Release(sem))
    BY <1>6 DEF SpawnLogged, GatePc
  <2>2. \E again \in BOOLEAN : Gate!Leave(sem, d, again)
    BY <1>1, <2>1, SpawnNextGate, GateSemaphore DEF Gate!Leave, GatePc
  <2> QED
    BY <2>1, <2>2 DEF Gate!Spawned, Gate!Next, GatePc
<1> QED
  BY <1>2, <1>3, <1>4, <1>5, <1>6 DEF ListingStep

(* The other steps do not touch it, but for the end of the process. *)
LEMMA OtherGate ==
    ASSUME \/ \E d \in Daemons : TrackerStep(d)
           \/ \E d \in Daemons, c \in Containers : HostStep(d, c)
           \/ \E d \in Daemons, c \in Containers, k \in Slots : ListenerStep(d, c, k)
           \/ Restart \/ UNCHANGED vars
    PROVE  Gate!Next \/ UNCHANGED Gate!gate
<1>1. CASE UNCHANGED <<lpc, sem>>
  BY <1>1 DEF Gate!gate
<1>2. CASE Crash("tracker")
  <2>1. Gate!Restarted
    BY <1>2, GateSemaphore DEF Crash, PerDaemon, Gate!Restarted
  <2> QED
    BY <2>1 DEF Gate!Next
<1>3. ASSUME NEW d \in Daemons, TrackerStep(d)
      PROVE  UNCHANGED <<lpc, sem>> \/ Crash("tracker")
  <2>1. CASE StopFindsFailed(d)
    BY <2>1 DEF StopFindsFailed
  <2>2. CASE TrackerWakes(d) \/ StopFindsNothing(d) \/ StopCancels(d)
    BY <2>2 DEF TrackerWakes, StopFindsNothing, StopCancels, listing
  <2>3. CASE StopFindsExited(d) \/ StopReturns(d)
    BY <2>3 DEF StopFindsExited, StopReturns, listing
  <2> QED
    BY <1>3, <2>1, <2>2, <2>3 DEF TrackerStep
<1>4. ASSUME NEW d \in Daemons, NEW c \in Containers, HostStep(d, c)
      PROVE  UNCHANGED <<lpc, sem>>
  BY <1>4 DEF HostStep, ContainerStarts, ContainerStops, listing
<1>5. ASSUME NEW d \in Daemons, NEW c \in Containers, NEW k \in Slots, ListenerStep(d, c, k)
      PROVE  UNCHANGED <<lpc, sem>>
  BY <1>5 DEF ListenerStep, Connects, StreamEnds, ListenerFails, CancelDelivered,
              DoneCallback, Becomes, listing
<1>6. ASSUME Restart \/ UNCHANGED vars
      PROVE  UNCHANGED <<lpc, sem>>
  BY <1>6 DEF Restart, vars, listing
<1> QED
  BY <1>1, <1>2, <1>3, <1>4, <1>5, <1>6

(* The semaphore of the listener process is only ever used the way          *)
(* SpawnGate.tla says (ListenerManager.spawn, app.py lines 62-85).         *)
THEOREM SpawnsUseTheGate == Spec => GateSpec
<1>1. Init => Gate!Init
  BY GateSemaphore DEF Init, PerDaemon, Gate!Init
<1>2. IInv /\ [Next]_vars => [Gate!Next]_(Gate!gate)
  BY ListingGate, OtherGate DEF Next
<1> QED
  BY <1>1, <1>2, InvariantHolds, PTL DEF Spec, GateSpec, Gate!Spec

(* The same by the names of SpawnGateProofs. *)
LEMMA SpawnsAreTheGates == Spec => Sem!Spec
<1>1. Gate!Init => Sem!Init
  BY Zenon DEF Gate!Init, Gate!NewSemaphore, Gate!Semaphore,
         Sem!Init, Sem!NewSemaphore, Sem!Semaphore
<1>2. [Gate!Next]_(Gate!gate) => [Sem!Next]_(Sem!gate)
  BY Zenon DEF Gate!Next, Gate!gate, Gate!Enter, Gate!Granted, Gate!Spawned, Gate!Restarted,
         Gate!Acquire, Gate!Leave, Gate!NewSemaphore, Gate!Locked, Gate!Take, Gate!Enqueue,
         Gate!Release, Gate!Resume, Gate!WakeFirst, Gate!Semaphore,
         Sem!Next, Sem!gate, Sem!Enter, Sem!Granted, Sem!Spawned, Sem!Restarted,
         Sem!Acquire, Sem!Leave, Sem!NewSemaphore, Sem!Locked, Sem!Take, Sem!Enqueue,
         Sem!Release, Sem!Resume, Sem!WakeFirst, Sem!Semaphore
<1> QED
  BY <1>1, <1>2, SpawnsUseTheGate, PTL DEF GateSpec, Gate!Spec, Sem!Spec

(* What SpawnGateProofs shows of the spawners therefore holds of the whole   *)
(* listener process: its loops neither lose a permit nor forget a waiter,   *)
(* and the daemons' spawns are served in turn.                             *)
THEOREM PermitsOfTheProcess ==
    Spec => [](Sem!PermitsConserved /\ Sem!NoLostWakeup) /\ Sem!FirstComeFirstServed
<1>1. Sem!Spec => []Sem!PermitsConserved
  BY Sem!PermitsAddUp, GateAssumption
<1>2. Sem!Spec => []Sem!NoLostWakeup
  BY Sem!WaitersAreKept, GateAssumption
<1>3. Sem!Spec => Sem!FirstComeFirstServed
  BY Sem!SpawnsAreServedInTurn, GateAssumption
<1> QED
  BY <1>1, <1>2, <1>3, SpawnsAreTheGates, PTL

(* No more than max_concurrent_listener_spawns daemons are inside            *)
(* ListenerManager.spawn's section at once (app.run line 192).             *)
THEOREM SpawnsAreCapped ==
    Spec => [](Cardinality({d \in Daemons : lpc[d] = "logging"}) <= MaxSpawns)
<1>1. Sem!Holding = {d \in Daemons : lpc[d] = "logging"}
  <2>1. \A d \in Daemons :
            (CASE lpc[d] = "waiting" -> "waiting"
               [] lpc[d] = "logging" -> "holding"
               [] OTHER -> "out") = "holding" <=> lpc[d] = "logging"
    OBVIOUS
  <2> QED
    BY <2>1 DEF Sem!Holding
<1>2. Sem!Spec => []Sem!Capped
  BY Sem!InsideIsCapped, GateAssumption
<1>3. Sem!Capped => Cardinality({d \in Daemons : lpc[d] = "logging"}) <= MaxSpawns
  <2>1. \A S : Sem!Cardinality(S) = Cardinality(S)
    BY DEF Cardinality, Sem!Cardinality
  <2> QED
    BY <1>1, <2>1 DEF Sem!Capped
<1> QED
  BY <1>2, <1>3, SpawnsAreTheGates, PTL

-----------------------------------------------------------------------------
(* Steps that drop a container from the registry.                          *)

(* What the end of stop() does to the registry *)
LEMMA ForgetAndSweepForgets ==
    ASSUME TypeOK, NEW d \in Daemons, ForgetAndSweep(d)
    PROVE  /\ known'[d] = known[d] \ {cur[d]}
           /\ misses'[d] = [misses[d] EXCEPT ![cur[d]] = 0]
           /\ \A x \in Daemons \ {d} : known'[x] = known[x] /\ misses'[x] = misses[x]
BY DEF TypeOK, ForgetAndSweep, KnownWithout, MissesWithout

(* A process that died reads no logs. *)
LEMMA CrashIsQuiet ==
    ASSUME NEW culprit, Crash(culprit), NEW x \in Daemons, NEW c \in Containers
    PROVE  Streaming(x, c)' = {}
<1>1. \A k \in Slots : status'[x][c][k] = "none"
  BY DEF Crash, PerDaemon
<1> QED
  BY <1>1 DEF Streaming, Live

LEMMA TrackerForgetsQuiet ==
    ASSUME IInv, NEW d \in Daemons, TrackerStep(d),
           NEW x \in Daemons, NEW c \in known[x] \ known'[x]
    PROVE  Streaming(x, c)' = {}
<1>1. TypeOK /\ ManagerInv(d) /\ TrackerInv(d) /\ NoSlot \notin Slots
  BY WatchAssumption DEF IInv, DaemonInv
<1>2. CASE StopFindsFailed(d)
  BY <1>1, <1>2, CrashIsQuiet DEF StopFindsFailed, TypeOK
<1>3. CASE StopFindsNothing(d) \/ StopFindsExited(d) \/ StopReturns(d)
  <2>1. x = d /\ c = cur[d] /\ c \in Containers
    <3>1. ForgetAndSweep(d)
      BY <1>3 DEF StopFindsNothing, StopFindsExited, StopReturns
    <3>2. known[x] \subseteq Containers
      BY <1>1 DEF TypeOK
    <3> QED
      BY <1>1, <3>1, <3>2, ForgetAndSweepForgets
  <2>2. CASE StopFindsNothing(d)
    <3>1. tpc[d] = "logging" /\ tasks[d][c] = NoSlot /\ status' = status
      BY <2>1, <2>2 DEF StopFindsNothing, Target, listeners
    <3> QED
      BY <1>1, <2>1, <3>1 DEF ManagerInv, Streaming
  <2>3. CASE StopFindsExited(d)
    <3>1. /\ tpc[d] = "logging" /\ status' = status
          /\ tasks[d][c] # NoSlot /\ status[d][c][tasks[d][c]] = "exited"
      BY <2>1, <2>3 DEF StopFindsExited, Target
    <3> QED
      BY <1>1, <2>1, <3>1 DEF ManagerInv, Streaming, Live
  <2>4. CASE StopReturns(d)
    <3>1. /\ tpc[d] = "stopping" /\ tasks[d][c] = NoSlot
          /\ status' = [status EXCEPT ![d][c][victim[d]] = "none"]
      BY <1>1, <2>1, <2>4 DEF StopReturns, TrackerInv
    <3>2. ASSUME NEW k \in Slots PROVE status'[d][c][k] \notin Live \cup {"cancelling"}
      <4>1. CASE k = victim[d]
        BY <1>1, <2>1, <3>1, <4>1 DEF TypeOK, Live
      <4>2. CASE k # victim[d]
        <5>1. status'[d][c][k] = status[d][c][k]
          BY <1>1, <2>1, <3>1, <4>2 DEF TypeOK
        <5> QED
          BY <1>1, <2>1, <3>1, <4>2, <5>1 DEF ManagerInv
      <4> QED
        BY <4>1, <4>2
    <3> QED
      BY <2>1, <3>2 DEF Streaming
  <2> QED
    BY <1>3, <2>2, <2>3, <2>4
<1>4. CASE TrackerWakes(d) \/ StopCancels(d)
  BY <1>4 DEF TrackerWakes, StopCancels, registry
<1> QED
  BY <1>2, <1>3, <1>4 DEF TrackerStep

(* forget() never drops a container whose logs are still being read: the     *)
(* next listing would start a second listener beside the first             *)
(* (container_tracker.py lines 68-69).                                     *)
THEOREM ForgottenAreQuiet == Spec => ForgottenOnlyWhenQuiet
<1> DEFINE Quiet == \A d \in Daemons : \A c \in known[d] \ known'[d] : Streaming(d, c)' = {}
<1>1. IInv /\ [Next]_vars => Quiet
  <2> SUFFICES ASSUME IInv, [Next]_vars PROVE Quiet
    OBVIOUS
  <2>1. ASSUME NEW d \in Daemons, TrackerStep(d) PROVE Quiet
    BY <2>1, TrackerForgetsQuiet
  <2>2. ASSUME NEW d \in Daemons, ListingStep(d) PROVE Quiet
    <3>1. CASE PsCrashes(d)
      BY <3>1, CrashIsQuiet DEF PsCrashes, IInv, TypeOK
    <3>2. CASE ~PsCrashes(d)
      <4>1. known' = known \/ known' = [known EXCEPT ![d] = KnownAfter(known[d], seen[d])]
        BY <2>2, <3>2 DEF ListingStep, PsStart, PsFails, PsReturns, SpawnGranted, SpawnLogged,
                         registry
      <4>2. known \in [Daemons -> SUBSET Containers]
        BY DEF IInv, TypeOK
      <4>3. \A x \in Daemons : known[x] \subseteq known'[x]
        BY <4>1, <4>2 DEF KnownAfter
      <4> QED
        BY <4>3
    <3> QED
      BY <3>1, <3>2
  <2>3. CASE known' = known
    BY <2>3
  <2>4. \/ \E d \in Daemons : ListingStep(d) \/ TrackerStep(d)
        \/ known' = known
    BY DEF Next, HostStep, ContainerStarts, ContainerStops, ListenerStep, Connects, StreamEnds,
           ListenerFails, CancelDelivered, DoneCallback, Becomes, Restart, vars, registry
  <2> QED
    BY <2>1, <2>2, <2>3, <2>4
<1> QED
  BY <1>1, InvariantHolds, PTL DEF Spec, ForgottenOnlyWhenQuiet

-----------------------------------------------------------------------------
(* The registry of a daemon changes by whole calls of update() and forget(). *)

LEMMA ListingKeepsLedger ==
    ASSUME IInv, NEW d \in Daemons, PsReturns(d), NEW x \in Daemons
    PROVE  LedgerOf(x)!Next \/ UNCHANGED <<known[x], misses[x]>>
<1>1. CASE x = d
  <2>1. /\ seen[x] \in SUBSET Containers
        /\ known'[x] = KnownAfter(known[x], seen[x])
        /\ misses'[x] = MissesAfter(known[x], misses[x], seen[x])
    BY <1>1 DEF IInv, TypeOK, PsReturns
  <2>2. LedgerOf(x)!Listed(seen[x])
    BY <2>1 DEF LedgerOf!Listed, LedgerOf!KnownAfter, LedgerOf!MissesAfter, KnownAfter, MissesAfter
  <2> QED
    BY <2>1, <2>2 DEF LedgerOf!Next
<1>2. CASE x # d
  BY <1>2 DEF IInv, TypeOK, PsReturns
<1> QED
  BY <1>1, <1>2

LEMMA CrashKeepsLedger ==
    ASSUME NEW culprit, Crash(culprit), NEW x \in Daemons
    PROVE  LedgerOf(x)!Next
<1>1. LedgerOf(x)!Lost
  BY DEF Crash, PerDaemon, LedgerOf!Lost
<1> QED
  BY <1>1 DEF LedgerOf!Next

LEMMA TrackerKeepsLedger ==
    ASSUME IInv, NEW d \in Daemons, ForgetAndSweep(d), tpc[d] # "sleep", NEW x \in Daemons
    PROVE  LedgerOf(x)!Next \/ UNCHANGED <<known[x], misses[x]>>
<1>1. TypeOK
  BY DEF IInv
<1>2. CASE x = d
  <2>1. cur[x] \in Containers
    BY <1>1, <1>2 DEF IInv, DaemonInv, TrackerInv, TypeOK
  <2>2. /\ known'[x] = known[x] \ {cur[x]}
        /\ misses'[x] = [misses[x] EXCEPT ![cur[x]] = 0]
    BY <1>1, <1>2, ForgetAndSweepForgets
  <2>3. LedgerOf(x)!Forgotten(cur[x])
    BY <2>2 DEF LedgerOf!Forgotten, LedgerOf!KnownWithout, LedgerOf!MissesWithout
  <2> QED
    BY <2>1, <2>3 DEF LedgerOf!Next
<1>3. CASE x # d
  BY <1>1, <1>3, ForgetAndSweepForgets
<1> QED
  BY <1>2, <1>3

(* The two loops, the manager and its callbacks change the entries of a      *)
(* daemon only by whole calls of update() and forget(), as MissLedger.tla   *)
(* describes them (registry.py lines 60-87).                               *)
THEOREM LedgersAreKept == Spec => LedgersKept
<1> DEFINE Kept(x) == LedgerOf(x)!Next \/ UNCHANGED <<known[x], misses[x]>>
<1>1. ASSUME IInv, [Next]_vars, NEW x \in Daemons PROVE Kept(x)
  <2>1. CASE registry' = registry
    BY <2>1 DEF registry
  <2>2. ASSUME NEW d \in Daemons, PsReturns(d) PROVE Kept(x)
    BY <1>1, <2>2, ListingKeepsLedger
  <2>3. ASSUME NEW d \in Daemons, PsCrashes(d) \/ StopFindsFailed(d) PROVE Kept(x)
    <3>1. LedgerOf(x)!Next
      BY <2>3, CrashKeepsLedger DEF PsCrashes, StopFindsFailed
    <3> QED
      BY <3>1
  <2>4. ASSUME NEW d \in Daemons, StopFindsNothing(d) \/ StopFindsExited(d) \/ StopReturns(d)
        PROVE  Kept(x)
    <3>1. ForgetAndSweep(d) /\ tpc[d] # "sleep"
      BY <2>4 DEF StopFindsNothing, StopFindsExited, StopReturns
    <3> QED
      BY <1>1, <3>1, TrackerKeepsLedger
  <2> HIDE DEF Kept
  <2>5. ASSUME NEW d \in Daemons, ListingStep(d) PROVE Kept(x)
    <3>1. CASE PsStart(d) \/ PsFails(d) \/ SpawnGranted(d) \/ SpawnLogged(d)
      BY <2>1, <3>1 DEF PsStart, PsFails, SpawnGranted, SpawnLogged
    <3> QED
      BY <2>2, <2>3, <2>5, <3>1 DEF ListingStep
  <2>6. ASSUME NEW d \in Daemons, TrackerStep(d) PROVE Kept(x)
    <3>1. CASE TrackerWakes(d) \/ StopCancels(d)
      BY <2>1, <3>1 DEF TrackerWakes, StopCancels
    <3> QED
      BY <2>3, <2>4, <2>6, <3>1 DEF TrackerStep
  <2>7. ASSUME NEW d \in Daemons, NEW c \in Containers, HostStep(d, c) PROVE Kept(x)
    BY <2>1, <2>7 DEF HostStep, ContainerStarts, ContainerStops
  <2>8. ASSUME NEW d \in Daemons, NEW c \in Containers, NEW k \in Slots, ListenerStep(d, c, k)
        PROVE  Kept(x)
    BY <2>1, <2>8 DEF ListenerStep, Connects, StreamEnds, ListenerFails, CancelDelivered,
                      DoneCallback, Becomes
  <2>9. CASE Restart \/ UNCHANGED vars
    BY <2>1, <2>9 DEF Restart, vars
  <2> QED
    BY <1>1, <2>5, <2>6, <2>7, <2>8, <2>9 DEF Next
<1>2. IInv /\ [Next]_vars =>
          \A d \in Daemons : LedgerOf(d)!Next \/ UNCHANGED <<known[d], misses[d]>>
  BY <1>1
<1> QED
  BY <1>2, InvariantHolds, PTL DEF Spec, LedgersKept

-----------------------------------------------------------------------------
(* The life cycle of ContainerLife.tla.  What phase a container is in       *)
(* depends on four things only: whether it is known, still to be spawned,   *)
(* listened to, or has a listener that is being cancelled.                 *)

Listened(d, c) == \E k \in Slots : status[d][c][k] \in Live
Cancelling(d, c) == \E k \in Slots : status[d][c][k] = "cancelling"

PhaseMeans(d, c) ==
    /\ Phase(d, c) \in Life!Phases
    /\ Phase(d, c) = "unwatched" <=> c \notin known[d]
    /\ Phase(d, c) = "expected" <=> c \in ToSpawn(d)
    /\ Phase(d, c) = "open" <=> Listened(d, c)
    /\ Phase(d, c) = "closing" <=> Cancelling(d, c)

PhaseInv == \A d \in Daemons, c \in Containers : PhaseMeans(d, c)

LEMMA PhaseIsMeant == IInv => PhaseInv
<1> SUFFICES ASSUME IInv, NEW d \in Daemons, NEW c \in Containers
             PROVE  PhaseMeans(d, c)
  BY DEF PhaseInv
<1>1. /\ TypeOK /\ ManagerInv(d) /\ TrackerInv(d) /\ NoSlot \notin Slots
      /\ ToSpawn(d) \subseteq known[d] \ (Active(d) \cup {cur[d]} \cup todo[d])
  BY WatchAssumption DEF IInv, DaemonInv, SpawnerInv
<1>2. Streaming(d, c) = {} <=> ~Listened(d, c) /\ ~Cancelling(d, c)
  BY DEF Streaming, Listened, Cancelling
<1>3. ASSUME Listened(d, c)
      PROVE  /\ c \in known[d] \ ToSpawn(d)
             /\ Streaming(d, c) = {tasks[d][c]} /\ ~Cancelling(d, c)
  <2>1. PICK k \in Slots : status[d][c][k] \in Live
    BY <1>3 DEF Listened
  <2>2. tasks[d][c] = k /\ c \in Active(d)
    BY <1>1, <2>1 DEF ManagerInv, Active
  <2>3. c \in known[d] \ ToSpawn(d)
    BY <1>1, <2>2 DEF TrackerInv
  <2>4. ~Cancelling(d, c)
    BY <1>1, <2>2 DEF Cancelling, ManagerInv, TrackerInv
  <2>5. Streaming(d, c) = {k}
    BY <1>1, <2>1, <2>2, <2>4 DEF Streaming, Cancelling, ManagerInv
  <2> QED
    BY <2>2, <2>3, <2>4, <2>5
<1>4. ASSUME Cancelling(d, c)
      PROVE  /\ c \in known[d] \ ToSpawn(d)
             /\ Streaming(d, c) = {victim[d]} /\ cur[d] = c /\ tasks[d][c] # victim[d]
  <2>1. PICK k \in Slots : status[d][c][k] = "cancelling"
    BY <1>4 DEF Cancelling
  <2>2. tpc[d] = "stopping" /\ cur[d] = c /\ victim[d] = k
    BY <1>1, <2>1 DEF ManagerInv
  <2>3. c \in known[d] \ ToSpawn(d) /\ tasks[d][c] = NoSlot
    BY <1>1, <2>2 DEF TrackerInv
  <2>4. Streaming(d, c) = {k}
    BY <1>1, <2>1, <2>2, <2>3 DEF Streaming, ManagerInv
  <2> QED
    BY <1>1, <2>2, <2>3, <2>4
<1>5. c \in ToSpawn(d) => c \in known[d]
  BY <1>1
<1>6. CASE Listened(d, c)
  BY <1>3, <1>6 DEF Phase, PhaseMeans, Life!Phases
<1>7. CASE Cancelling(d, c)
  <2>1. ~Listened(d, c)
    BY <1>3, <1>7
  <2>2. Streaming(d, c) # {} /\ Streaming(d, c) # {tasks[d][c]}
    BY <1>2, <1>4, <1>7
  <2> QED
    BY <1>4, <1>7, <2>1, <2>2 DEF Phase, PhaseMeans, Life!Phases
<1>8. CASE ~Listened(d, c) /\ ~Cancelling(d, c)
  BY <1>2, <1>5, <1>8 DEF Phase, PhaseMeans, Life!Phases
<1> QED
  BY <1>6, <1>7, <1>8

(* What a step does to one container of one daemon *)
Moved(d, c) ==
    Phase(d, c)' # Phase(d, c) => <<Phase(d, c), Phase(d, c)'>> \in Life!Moves

Stays(d, c) ==
    /\ (c \in known[d])' <=> c \in known[d]
    /\ (c \in ToSpawn(d))' <=> c \in ToSpawn(d)
    /\ Listened(d, c)' <=> Listened(d, c)
    /\ Cancelling(d, c)' <=> Cancelling(d, c)

Discovered(d, c) ==
    /\ c \notin known[d] \/ c \in ToSpawn(d)
    /\ (c \in ToSpawn(d))' \/ Listened(d, c)'

Stopped(d, c) == Listened(d, c) /\ Cancelling(d, c)'

Ended(d, c) ==
    /\ Listened(d, c) \/ Cancelling(d, c)
    /\ (c \in known[d])' /\ ~(c \in ToSpawn(d))' /\ ~Listened(d, c)' /\ ~Cancelling(d, c)'

Dropped(d, c) ==
    /\ c \in known[d] \ ToSpawn(d) /\ ~Listened(d, c) /\ ~Cancelling(d, c)
    /\ ~(c \in known[d])'

LEMMA MovesAlong ==
    ASSUME NEW d \in Daemons, NEW c \in Containers, PhaseMeans(d, c), PhaseMeans(d, c)',
           Stays(d, c) \/ Discovered(d, c) \/ Stopped(d, c) \/ Ended(d, c) \/ Dropped(d, c)
    PROVE  Moved(d, c)
<1> DEFINE p == Phase(d, c)
           q == Phase(d, c)'
<1>1. /\ p \in {"unwatched", "expected", "open", "closing", "over"}
      /\ p = "unwatched" <=> c \notin known[d]
      /\ p = "expected" <=> c \in ToSpawn(d)
      /\ p = "open" <=> Listened(d, c)
      /\ p = "closing" <=> Cancelling(d, c)
  BY DEF PhaseMeans, Life!Phases
<1>2. /\ q \in {"unwatched", "expected", "open", "closing", "over"}
      /\ q = "unwatched" <=> ~(c \in known[d])'
      /\ q = "expected" <=> (c \in ToSpawn(d))'
      /\ q = "open" <=> Listened(d, c)'
      /\ q = "closing" <=> Cancelling(d, c)'
  BY DEF PhaseMeans, Life!Phases
<1> HIDE DEF p, q
<1>3. CASE Stays(d, c)
  <2>1. p = q
    BY <1>1, <1>2, <1>3 DEF Stays
  <2> QED
    BY <2>1 DEF Moved, p, q
<1>4. CASE Discovered(d, c)
  <2>1. p \in {"unwatched", "expected"} /\ q \in {"expected", "open"}
    BY <1>1, <1>2, <1>4 DEF Discovered
  <2> QED
    BY <2>1 DEF Moved, Life!Moves, p, q
<1>5. CASE Stopped(d, c)
  <2>1. p = "open" /\ q = "closing"
    BY <1>1, <1>2, <1>5 DEF Stopped
  <2> QED
    BY <2>1 DEF Moved, Life!Moves, p, q
<1>6. CASE Ended(d, c)
  <2>1. p \in {"open", "closing"} /\ q = "over"
    BY <1>1, <1>2, <1>6 DEF Ended
  <2> QED
    BY <2>1 DEF Moved, Life!Moves, p, q
<1>7. CASE Dropped(d, c)
  <2>1. p = "over" /\ q = "unwatched"
    BY <1>1, <1>2, <1>7 DEF Dropped
  <2> QED
    BY <2>1 DEF Moved, Life!Moves, p, q
<1> QED
  BY <1>3, <1>4, <1>5, <1>6, <1>7

(* A step that leaves the phases of a daemon's containers alone *)
Untouched(x) == UNCHANGED <<known[x], pending[x], spawning[x], lpc[x], status[x]>>

LEMMA UntouchedStays ==
    ASSUME NEW x \in Daemons, Untouched(x), NEW c \in Containers
    PROVE  Stays(x, c)
BY DEF Untouched, Stays, ToSpawn, Listened, Cancelling

(* The loop over the new refs spawns each of them or keeps it for later. *)
LEMMA SpawnNextMoves ==
    ASSUME TypeOK, NEW d \in Daemons, NEW refs \in SUBSET Containers, NEW s,
           refs \cap Active(d) = {}, SpawnNext(d, refs, s)
    PROVE  /\ \A x \in Daemons \ {d} : UNCHANGED <<pending[x], spawning[x], lpc[x], status[x]>>
           /\ \A c \in refs : (c \in ToSpawn(d))' \/ Listened(d, c)'
           /\ \A c \in Containers \ refs :
                  ~(c \in ToSpawn(d))' /\ status'[d][c] = status[d][c]
<1>1. CASE refs \subseteq Active(d)
  <2>1. refs = {}
    BY <1>1
  <2>2. /\ lpc' = [lpc EXCEPT ![d] = "idle"] /\ pending' = [pending EXCEPT ![d] = {}]
        /\ spawning' = [spawning EXCEPT ![d] = NoContainer] /\ status' = status
    BY <2>1 DEF SpawnNext, listeners
  <2> QED
    BY <2>1, <2>2 DEF TypeOK, ToSpawn
<1>2. CASE ~(refs \subseteq Active(d))
  <2>1. PICK c0 \in refs : /\ pending' = [pending EXCEPT ![d] = refs \ {c0}]
                           /\ BeginSpawn(d, c0, s)
    <3>1. \A skip \in SUBSET (refs \cap Active(d)) : skip = {}
      OBVIOUS
    <3> QED
      BY <1>2, <3>1 DEF SpawnNext
  <2>2. spawning' = [spawning EXCEPT ![d] = c0]
    BY <2>1 DEF BeginSpawn
  <2>3. /\ \A x \in Daemons \ {d} : UNCHANGED <<pending[x], spawning[x]>>
        /\ pending'[d] = refs \ {c0} /\ spawning'[d] = c0
    BY <2>1, <2>2 DEF TypeOK
  <2>4. CASE Locked(s)
    <3>1. lpc' = [lpc EXCEPT ![d] = "waiting"] /\ status' = status
      BY <2>1, <2>4 DEF BeginSpawn, listeners
    <3>2. ToSpawn(d)' = refs
      BY <2>3, <3>1 DEF ToSpawn, TypeOK
    <3> QED
      BY <2>3, <3>1, <3>2 DEF TypeOK
  <2>5. CASE ~Locked(s)
    <3>1. PICK k \in Slots : /\ lpc' = [lpc EXCEPT ![d] = "logging"]
                             /\ status' = [status EXCEPT ![d][c0][k] = "starting"]
      BY <2>1, <2>5 DEF BeginSpawn, SpawnHolding, CreateTask
    <3>2. ToSpawn(d)' = refs \ {c0}
      BY <2>3, <3>1 DEF ToSpawn, TypeOK
    <3>3. status'[d][c0][k] = "starting"
      BY <3>1 DEF TypeOK
    <3>4. Listened(d, c0)'
      BY <3>3 DEF Listened, Live
    <3>5. /\ \A x \in Daemons \ {d} : UNCHANGED <<lpc[x], status[x]>>
          /\ \A c \in Containers \ {c0} : status'[d][c] = status[d][c]
      BY <3>1 DEF TypeOK
    <3> QED
      BY <2>3, <3>2, <3>4, <3>5
  <2> QED
    BY <2>4, <2>5
<1> QED
  BY <1>1, <1>2

(* What the spawner takes up has just been discovered or was waiting; the   *)
(* rest of its daemon's containers, and the other daemons, stay as they are. *)
LEMMA SpawnerMoves ==
    ASSUME TypeOK, NEW d \in Daemons, NEW refs \in SUBSET Containers, NEW s,
           SpawnNext(d, refs, s), refs \cap Active(d) = {}, ToSpawn(d) \subseteq refs,
           \A c \in refs : c \notin known[d] \/ c \in ToSpawn(d),
           known'[d] \cup refs = known[d] \cup refs,
           \A x \in Daemons \ {d} : known'[x] = known[x],
           NEW x \in Daemons, NEW c \in Containers
    PROVE  Stays(x, c) \/ Discovered(x, c)
<1>1. CASE x # d
  <2>1. Untouched(x)
    BY <1>1, SpawnNextMoves DEF Untouched
  <2> QED
    BY <2>1, UntouchedStays
<1>2. CASE x = d /\ c \in refs
  BY <1>2, SpawnNextMoves DEF Discovered
<1>3. CASE x = d /\ c \notin refs
  <2>1. ~(c \in ToSpawn(d))' /\ status'[d][c] = status[d][c]
    BY <1>3, SpawnNextMoves
  <2>2. (c \in known[d])' <=> c \in known[d]
    BY <1>3
  <2> QED
    BY <1>3, <2>1, <2>2 DEF Stays, Listened, Cancelling
<1> QED
  BY <1>1, <1>2, <1>3

LEMMA ListingMoves ==
    ASSUME IInv, NEW d \in Daemons, ListingStep(d), ~PsCrashes(d),
           NEW x \in Daemons, NEW c \in Containers
    PROVE  Stays(x, c) \/ Discovered(x, c)
<1>1. /\ TypeOK
      /\ lpc[d] \in {"idle", "ps"} => pending[d] = {}
      /\ lpc[d] = "waiting" => spawning[d] \in Containers \ pending[d]
      /\ ToSpawn(d) \subseteq known[d] \ Active(d)
      /\ Active(d) \subseteq known[d]
      /\ known[d] \in SUBSET Containers /\ pending[d] \in SUBSET Containers
      /\ seen[d] \in SUBSET Containers
  BY DEF IInv, DaemonInv, SpawnerInv, TrackerInv, TypeOK
<1>2. CASE PsStart(d) \/ PsFails(d)
  <2>1. /\ lpc[d] # "waiting" /\ lpc'[d] # "waiting"
        /\ UNCHANGED <<known, pending, status>>
        /\ x # d => UNCHANGED <<lpc[x], spawning[x]>>
    BY <1>1, <1>2 DEF PsStart, PsFails, TypeOK, registry, listeners
  <2> QED
    BY <2>1 DEF Stays, ToSpawn, Listened, Cancelling
<1>3. CASE PsReturns(d)
  <2> DEFINE refs == NewRefs(known[d], seen[d])
  <2>1. /\ known' = [known EXCEPT ![d] = KnownAfter(known[d], seen[d])]
        /\ SpawnNext(d, refs, sem) /\ lpc[d] = "ps"
    BY <1>3 DEF PsReturns
  <2>2. refs = seen[d] \ known[d] /\ KnownAfter(known[d], seen[d]) = known[d] \cup seen[d]
    BY DEF NewRefs, KnownAfter
  <2>3. /\ known'[d] = known[d] \cup seen[d]
        /\ \A y \in Daemons \ {d} : known'[y] = known[y]
    BY <1>1, <2>1, <2>2 DEF TypeOK
  <2>4. ToSpawn(d) = {}
    BY <1>1, <2>1 DEF ToSpawn
  <2> HIDE DEF refs
  <2> QED
    BY <1>1, <2>1, <2>2, <2>3, <2>4, SpawnerMoves
<1>4. CASE SpawnLogged(d)
  <2>1. /\ lpc[d] = "logging" /\ known' = known
        /\ SpawnNext(d, pending[d], Release(sem))
    BY <1>4 DEF SpawnLogged, registry
  <2>2. ToSpawn(d) = pending[d]
    BY <2>1 DEF ToSpawn
  <2>3. pending[d] \cap Active(d) = {} /\ \A y \in pending[d] : y \in ToSpawn(d)
    BY <1>1, <2>2
  <2> QED
    BY <1>1, <2>1, <2>2, <2>3, SpawnerMoves
<1>5. CASE SpawnGranted(d)
  <2> DEFINE c0 == spawning[d]
  <2>1. lpc[d] = "waiting" /\ c0 \in ToSpawn(d) /\ c0 \in Containers \ pending[d]
    BY <1>1, <1>5 DEF SpawnGranted, ToSpawn
  <2>2. /\ SpawnHolding(d, c0, Resume(sem, d))
        /\ UNCHANGED <<known, pending, spawning>>
    BY <1>1, <1>5, <2>1 DEF SpawnGranted, registry
  <2>3. PICK k \in Slots : /\ lpc' = [lpc EXCEPT ![d] = "logging"]
                           /\ status' = [status EXCEPT ![d][c0][k] = "starting"]
    BY <2>2 DEF SpawnHolding, CreateTask
  <2>4. CASE x = d /\ c = c0
    <3>1. status'[d][c0][k] = "starting"
      BY <1>1, <2>1, <2>3 DEF TypeOK
    <3> QED
      BY <2>1, <2>4, <3>1 DEF Discovered, Listened, Live
  <2>5. CASE x = d /\ c # c0
    <3>1. status'[x][c] = status[x][c] /\ lpc'[x] = "logging"
      BY <1>1, <2>3, <2>5 DEF TypeOK
    <3>2. ToSpawn(x) = pending[x] \cup {c0} /\ ToSpawn(x)' = pending[x]
      BY <2>1, <2>2, <2>5, <3>1 DEF ToSpawn
    <3> QED
      BY <2>2, <2>5, <3>1, <3>2 DEF Stays, Listened, Cancelling
  <2>6. CASE x # d
    <3>1. Untouched(x)
      BY <1>1, <2>2, <2>3, <2>6 DEF TypeOK, Untouched
    <3> QED
      BY <3>1, UntouchedStays
  <2> QED
    BY <2>4, <2>5, <2>6
<1> QED
  BY <1>2, <1>3, <1>4, <1>5 DEF ListingStep

(* A task changes its state; the registry and the spawner do nothing *)
TaskOnly(d, c, k, to) ==
    /\ status' = [status EXCEPT ![d][c][k] = to]
    /\ UNCHANGED <<known, listing>>

(* That touches no other container. *)
LEMMA StatusMoves ==
    ASSUME TypeOK, NEW d \in Daemons, NEW c \in Containers, NEW k \in Slots, NEW to,
           TaskOnly(d, c, k, to)
    PROVE  /\ \A x \in Daemons, y \in Containers : x # d \/ y # c => Stays(x, y)
           /\ (c \in known[d])' <=> c \in known[d]
           /\ (c \in ToSpawn(d))' <=> c \in ToSpawn(d)
           /\ status'[d][c][k] = to
           /\ \A j \in Slots \ {k} : status'[d][c][j] = status[d][c][j]
<1>1. /\ \A x \in Daemons, y \in Containers : x # d \/ y # c => status'[x][y] = status[x][y]
      /\ status'[d][c][k] = to
      /\ \A j \in Slots \ {k} : status'[d][c][j] = status[d][c][j]
  BY DEF TypeOK, TaskOnly
<1> QED
  BY <1>1 DEF Stays, Listened, Cancelling, ToSpawn, listing, TaskOnly

LEMMA ListenerMoves ==
    ASSUME IInv, NEW d \in Daemons, NEW c \in Containers, NEW k \in Slots,
           ListenerStep(d, c, k), NEW x \in Daemons, NEW y \in Containers
    PROVE  Stays(x, y) \/ Ended(x, y)
<1>1. /\ TypeOK /\ ManagerInv(d) /\ TrackerInv(d) /\ NoSlot \notin Slots
      /\ ToSpawn(d) \subseteq known[d] \ (Active(d) \cup {cur[d]})
  BY WatchAssumption DEF IInv, DaemonInv, SpawnerInv
<1>2. PICK from, to :
        /\ \/ from \subseteq Live /\ to = "streaming"
           \/ from \subseteq EndedStates /\ to = "none"
           \/ from \subseteq Live \cup {"cancelling"} /\ to \in EndedStates \cup {"cancelled"}
        /\ status[d][c][k] \in from
        /\ TaskOnly(d, c, k, to)
  BY DEF TaskOnly, ListenerStep, Connects, StreamEnds, ListenerFails, CancelDelivered, DoneCallback,
         Becomes, registry, Live, EndedStates
<1>3. /\ \A u \in Daemons, v \in Containers : u # d \/ v # c => Stays(u, v)
      /\ (c \in known[d])' <=> c \in known[d]
      /\ (c \in ToSpawn(d))' <=> c \in ToSpawn(d)
      /\ status'[d][c][k] = to
      /\ \A j \in Slots \ {k} : status'[d][c][j] = status[d][c][j]
  BY <1>1, <1>2, StatusMoves
<1>4. CASE x # d \/ y # c
  BY <1>3, <1>4
<1>5. CASE x = d /\ y = c /\ to \in {"streaming", "none"}
  <2>1. /\ status'[d][c][k] \in Live <=> status[d][c][k] \in Live
        /\ status'[d][c][k] # "cancelling" /\ status[d][c][k] # "cancelling"
    BY <1>2, <1>3, <1>5 DEF Live, EndedStates
  <2> QED
    BY <1>3, <1>5, <2>1 DEF Stays, Listened, Cancelling
<1>6. CASE x = d /\ y = c /\ to \notin {"streaming", "none"}
  <2>1. status[d][c][k] \in Live \cup {"cancelling"} /\ to \in EndedStates \cup {"cancelled"}
    BY <1>2, <1>6
  <2>2. Listened(d, c) \/ Cancelling(d, c)
    BY <2>1 DEF Listened, Cancelling
  <2>3. c \in known[d] \ ToSpawn(d)
    <3>1. CASE status[d][c][k] \in Live
      BY <1>1, <3>1 DEF ManagerInv, TrackerInv, Active
    <3>2. CASE status[d][c][k] = "cancelling"
      BY <1>1, <3>2 DEF ManagerInv, TrackerInv
    <3> QED
      BY <2>1, <3>1, <3>2
  <2>4. \A j \in Slots \ {k} : status[d][c][j] \notin Live \cup {"cancelling"}
    BY <1>1, <2>1 DEF ManagerInv, TrackerInv
  <2>5. \A j \in Slots : status'[d][c][j] \notin Live \cup {"cancelling"}
    BY <1>3, <2>1, <2>4 DEF Live, EndedStates
  <2> QED
    BY <1>3, <1>6, <2>2, <2>3, <2>5 DEF Ended, Listened, Cancelling
<1> QED
  BY <1>4, <1>5, <1>6

(* When stop() is through with a container, nothing reads its logs. *)
LEMMA StopFindsQuiet ==
    ASSUME IInv, NEW d \in Daemons,
           StopFindsNothing(d) \/ StopFindsExited(d) \/ StopReturns(d)
    PROVE  /\ cur[d] \in known[d] \ ToSpawn(d) /\ cur[d] \in Containers
           /\ ~Listened(d, cur[d]) /\ ~Cancelling(d, cur[d])
<1>1. /\ TypeOK /\ ManagerInv(d) /\ TrackerInv(d) /\ NoSlot \notin Slots
      /\ ToSpawn(d) \subseteq known[d] \ (Active(d) \cup {cur[d]})
      /\ known[d] \in SUBSET Containers
  BY WatchAssumption DEF IInv, DaemonInv, SpawnerInv, TypeOK
<1>2. tpc[d] # "sleep"
  BY DEF StopFindsNothing, StopFindsExited, StopReturns
<1>3. cur[d] \in known[d] \ ToSpawn(d) /\ cur[d] \in Containers
  BY <1>1, <1>2 DEF TrackerInv
<1>4. CASE StopFindsNothing(d)
  <2>1. tpc[d] = "logging" /\ tasks[d][cur[d]] = NoSlot
    BY <1>4 DEF StopFindsNothing, Target
  <2> QED
    BY <1>1, <1>3, <2>1 DEF ManagerInv, Listened, Cancelling
<1>5. CASE StopFindsExited(d)
  <2>1. /\ tpc[d] = "logging" /\ tasks[d][cur[d]] # NoSlot
        /\ status[d][cur[d]][tasks[d][cur[d]]] = "exited"
    BY <1>5 DEF StopFindsExited, Target
  <2> QED
    BY <1>1, <1>3, <2>1 DEF ManagerInv, Listened, Cancelling, Live
<1>6. CASE StopReturns(d)
  <2>1. /\ tpc[d] = "stopping" /\ tasks[d][cur[d]] = NoSlot
        /\ status[d][cur[d]][victim[d]] = "cancelled"
    BY <1>1, <1>6 DEF StopReturns, TrackerInv
  <2> QED
    BY <1>1, <1>3, <2>1 DEF ManagerInv, Listened, Cancelling
<1> QED
  BY <1>3, <1>4, <1>5, <1>6

LEMMA TrackerMoves ==
    ASSUME IInv, NEW d \in Daemons, TrackerStep(d), ~StopFindsFailed(d),
           NEW x \in Daemons, NEW c \in Containers
    PROVE  Stays(x, c) \/ Stopped(x, c) \/ Dropped(x, c)
<1>1. /\ TypeOK /\ ManagerInv(d) /\ TrackerInv(d) /\ NoSlot \notin Slots
  BY WatchAssumption DEF IInv, DaemonInv
<1>2. CASE TrackerWakes(d)
  BY <1>2 DEF TrackerWakes, registry, listing, listeners, Stays, ToSpawn, Listened, Cancelling
<1>3. CASE StopCancels(d)
  <2>1. PICK c0 \in Containers, k0 \in Slots : c0 = cur[d] /\ k0 = Target(d)
    BY <1>1, <1>3 DEF StopCancels, Target, TrackerInv, TypeOK
  <2>2. status[d][c0][k0] \in Live /\ TaskOnly(d, c0, k0, "cancelling")
    BY <1>3, <2>1 DEF StopCancels, registry, TaskOnly
  <2>3. /\ \A u \in Daemons, v \in Containers : u # d \/ v # c0 => Stays(u, v)
        /\ status'[d][c0][k0] = "cancelling"
    BY <1>1, <2>1, <2>2, StatusMoves
  <2>4. Stopped(d, c0)
    BY <2>1, <2>2, <2>3 DEF Stopped, Listened, Cancelling
  <2> QED
    BY <2>3, <2>4
<1>4. CASE StopFindsNothing(d) \/ StopFindsExited(d) \/ StopReturns(d)
  <2>1. /\ known'[d] = known[d] \ {cur[d]}
        /\ \A u \in Daemons \ {d} : known'[u] = known[u]
    <3>1. ForgetAndSweep(d)
      BY <1>4 DEF StopFindsNothing, StopFindsExited, StopReturns
    <3> QED
      BY <1>1, <3>1, ForgetAndSweepForgets
  <2>2. UNCHANGED <<lpc, pending, spawning>>
    BY <1>4 DEF StopFindsNothing, StopFindsExited, StopReturns, listing
  <2>3. /\ cur[d] \in known[d] \ ToSpawn(d) /\ cur[d] \in Containers
        /\ ~Listened(d, cur[d]) /\ ~Cancelling(d, cur[d])
    BY <1>4, StopFindsQuiet
  <2>4. CASE x = d /\ c = cur[d]
    BY <2>1, <2>3, <2>4 DEF Dropped
  <2>5. CASE x # d \/ c # cur[d]
    <3>1. status'[x][c] = status[x][c]
      BY <1>1, <1>4, <2>5 DEF StopFindsNothing, StopFindsExited, StopReturns, TypeOK, listeners
    <3>2. (c \in known[x])' <=> c \in known[x]
      BY <2>1, <2>5
    <3>3. (c \in ToSpawn(x))' <=> c \in ToSpawn(x)
      BY <2>2 DEF ToSpawn
    <3> QED
      BY <3>1, <3>2, <3>3 DEF Stays, Listened, Cancelling
  <2> QED
    BY <2>4, <2>5
<1> QED
  BY <1>2, <1>3, <1>4 DEF TrackerStep

(* A process that died watches nothing. *)
LEMMA CrashResets ==
    ASSUME NEW culprit, Crash(culprit)
    PROVE  Life!Reset
<1>1. ASSUME NEW d \in Daemons, NEW c \in Containers PROVE Phase(d, c)' = "unwatched"
  <2>1. known'[d] = {}
    BY DEF Crash, PerDaemon
  <2> QED
    BY <2>1 DEF Phase
<1> QED
  BY <1>1 DEF Life!Reset

(* The loops, the manager and its listener tasks implement the life cycle   *)
(* of ContainerLife.tla: each discovery of a container gets one listener,   *)
(* which the manager can reach until it ends, and the container is          *)
(* forgotten, to be discovered again, only after that                      *)
(* (container_listener.py lines 102-129, container_tracker.py lines 56-69). *)
THEOREM ListenersLiveTheCycle == Spec => LifeSpec
<1> DEFINE Seen == IInv /\ PhaseInv
           ph == [d \in Daemons |-> [c \in Containers |-> Phase(d, c)]]
<1>1. Spec => []Seen
  BY InvariantHolds, PhaseIsMeant, PTL
<1>2. Init => Life!Init
  BY DEF Init, PerDaemon, Phase, Life!Init
<1>3. Seen /\ Seen' /\ [Next]_vars => [Life!Next]_ph
  <2> SUFFICES ASSUME IInv, PhaseInv, PhaseInv', [Next]_vars
               PROVE  [Life!Next]_ph
    OBVIOUS
  <2>1. CASE \E d \in Daemons : PsCrashes(d) \/ StopFindsFailed(d)
    <3>1. Life!Reset
      BY <2>1, CrashResets DEF PsCrashes, StopFindsFailed
    <3> QED
      BY <3>1 DEF Life!Next
  <2>2. CASE ~\E d \in Daemons : PsCrashes(d) \/ StopFindsFailed(d)
    <3>1. ASSUME NEW x \in Daemons, NEW c \in Containers
          PROVE  Stays(x, c) \/ Discovered(x, c) \/ Stopped(x, c) \/ Ended(x, c) \/ Dropped(x, c)
      <4>1. ASSUME NEW d \in Daemons, ListingStep(d) PROVE Stays(x, c) \/ Discovered(x, c)
        BY <2>2, <4>1, ListingMoves
      <4>2. ASSUME NEW d \in Daemons, TrackerStep(d)
            PROVE  Stays(x, c) \/ Stopped(x, c) \/ Dropped(x, c)
        BY <2>2, <4>2, TrackerMoves
      <4>3. ASSUME NEW d \in Daemons, NEW y \in Containers, NEW k \in Slots,
                   ListenerStep(d, y, k)
            PROVE  Stays(x, c) \/ Ended(x, c)
        BY <4>3, ListenerMoves
      <4>4. CASE UNCHANGED <<registry, listing, listeners>>
        BY <4>4, UntouchedStays DEF Untouched, registry, listing, listeners
      <4>5. \/ \E d \in Daemons : ListingStep(d) \/ TrackerStep(d)
            \/ \E d \in Daemons, y \in Containers, k \in Slots : ListenerStep(d, y, k)
            \/ UNCHANGED <<registry, listing, listeners>>
        BY DEF Next, HostStep, ContainerStarts, ContainerStops, Restart, vars
      <4> QED
        BY <4>1, <4>2, <4>3, <4>4, <4>5
    <3>2. \A x \in Daemons, c \in Containers : Moved(x, c)
      <4> SUFFICES ASSUME NEW x \in Daemons, NEW c \in Containers PROVE Moved(x, c)
        OBVIOUS
      <4>1. PhaseMeans(x, c) /\ PhaseMeans(x, c)'
        BY DEF PhaseInv
      <4> QED
        BY <3>1, <4>1, MovesAlong
    <3>3. ph' \in [Daemons -> [Containers -> Life!Phases]]
      BY DEF PhaseInv, PhaseMeans
    <3> QED
      BY <3>2, <3>3 DEF Life!Next, Life!Proceed, Moved
  <2> QED
    BY <2>1, <2>2
<1> QED
  BY <1>1, <1>2, <1>3, PTL DEF Spec, LifeSpec, Life!Spec
=============================================================================
