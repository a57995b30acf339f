------------------------------- MODULE Watch --------------------------------
(***************************************************************************)
(* The watching side of the listener process: per enabled daemon the       *)
(* containers-listing loop, the container-tracker loop and the             *)
(* ListenerManager with its container-listener tasks, around the shared    *)
(* Registry and the process-wide spawn semaphore.                          *)
(*                                                                         *)
(* Everything runs on one asyncio event loop, so an action is one segment   *)
(* of a task from the await it resumes at to the await it suspends at, and  *)
(* the actions of different tasks interleave freely.  A log call            *)
(* (`await logger.ainfo`) is such an await: structlog runs it in an         *)
(* executor.                                                               *)
(*                                                                         *)
(* A task object of container c of daemon d is a member of Slots: the slots *)
(* tell apart the listeners that one container has over time.              *)
(***************************************************************************)
EXTENDS Misses, AsyncSemaphore, FiniteSets

CONSTANTS
    Daemons,        \* ids of the enabled daemons
    Slots,          \* bound: task objects alive at once per container
    NoSlot,         \* the container id is not a key of ListenerManager._tasks
    NoContainer,    \* a loop that is handling no container
    MaxSpawns,      \* max_concurrent_listener_spawns
    PsOutcomes      \* how a `docker ps` cycle may end in this instance

(* What _list_containers can do.  nonzero_exit is TransportError, bad_json  *)
(* is ValueError; a line with no "ID" is a KeyError and a missing docker or *)
(* ssh binary a FileNotFoundError, which the loop does not catch.          *)
CaughtOutcomes == {"nonzero_exit", "bad_json"}
UncaughtOutcomes == {"missing_key", "cannot_exec"}

ASSUME WatchAssumption ==
    /\ MaxSpawns \in Nat
    /\ NoSlot \notin Slots
    /\ NoContainer \notin Containers
    /\ PsOutcomes \subseteq {"listing"} \cup CaughtOutcomes \cup UncaughtOutcomes

VARIABLES
    running,        \* running[d]: containers running on the host (external)
    known,          \* Registry, see Misses.tla
    misses,
    lpc,            \* containers-listing loop: "idle" (between two cycles),
                    \* "ps", "waiting" (for the semaphore), "logging"
    seen,           \* the listing the `docker ps` in flight will return
    pending,        \* Registry.update's new_refs still to be spawned
    spawning,       \* the ref that spawn() is working on
    sem,            \* spawn_semaphore
    tasks,          \* ListenerManager._tasks: container id -> task
    status,         \* state of every container-listener task
    tpc,            \* container-tracker loop: "sleep", "logging", "stopping"
    todo,           \* rest of the sweep's snapshot of active_container_ids
    cur,            \* the container the tracker is stopping
    victim,         \* the task that stop() has cancelled and awaits
    up              \* "up", or which loop brought the process down

registry  == <<known, misses>>
listing   == <<lpc, seen, pending, spawning>>
listeners == <<tasks, status>>
tracker   == <<tpc, todo, cur, victim>>
vars == <<running, registry, listing, sem, listeners, tracker, up>>

(* A listener task has not ended and nobody has cancelled it                *)
Live == {"starting", "streaming"}
(* It has ended on its own; its done callback has not run yet              *)
EndedStates == {"exited", "failed"}
Statuses == {"none", "cancelling", "cancelled"} \cup Live \cup EndedStates

-----------------------------------------------------------------------------
PerDaemon(x) == [d \in Daemons |-> x]

(* run(): a process that has just started knows nothing.                   *)
Init ==
    /\ running \in [Daemons -> SUBSET Containers]
    /\ up = "up"
    /\ known = PerDaemon({})
    /\ misses = PerDaemon([c \in Containers |-> 0])
    /\ lpc = PerDaemon("idle")
    /\ seen = PerDaemon({})
    /\ pending = PerDaemon({})
    /\ spawning = PerDaemon(NoContainer)
    /\ sem = NewSemaphore(MaxSpawns)
    /\ tasks = PerDaemon([c \in Containers |-> NoSlot])
    /\ status = PerDaemon([c \in Containers |-> [k \in Slots |-> "none"]])
    /\ tpc = PerDaemon("sleep")
    /\ todo = PerDaemon({})
    /\ cur = PerDaemon(NoContainer)
    /\ victim = PerDaemon(NoSlot)

(* An exception leaves one of the loops: gather and asyncio.run end the     *)
(* process, its tasks and their subprocesses; nothing of it survives.      *)
Crash(culprit) ==
    /\ up' = culprit
    /\ known' = PerDaemon({})
    /\ misses' = PerDaemon([c \in Containers |-> 0])
    /\ lpc' = PerDaemon("idle")
    /\ seen' = PerDaemon({})
    /\ pending' = PerDaemon({})
    /\ spawning' = PerDaemon(NoContainer)
    /\ sem' = NewSemaphore(MaxSpawns)
    /\ tasks' = PerDaemon([c \in Containers |-> NoSlot])
    /\ status' = PerDaemon([c \in Containers |-> [k \in Slots |-> "none"]])
    /\ tpc' = PerDaemon("sleep")
    /\ todo' = PerDaemon({})
    /\ cur' = PerDaemon(NoContainer)
    /\ victim' = PerDaemon(NoSlot)
    /\ UNCHANGED running

(* s6 starts log-listener again *)
Restart ==
    /\ up # "up"
    /\ up' = "up"
    /\ UNCHANGED <<running, registry, listing, sem, listeners, tracker>>

-----------------------------------------------------------------------------
(* The Docker host: containers start and stop whenever they like.          *)
ContainerStarts(d, c) ==
    /\ c \notin running[d]
    /\ running' = [running EXCEPT ![d] = @ \cup {c}]
    /\ UNCHANGED <<registry, listing, sem, listeners, tracker, up>>

ContainerStops(d, c) ==
    /\ c \in running[d]
    /\ running' = [running EXCEPT ![d] = @ \ {c}]
    /\ UNCHANGED <<registry, listing, sem, listeners, tracker, up>>

-----------------------------------------------------------------------------
(* ListenerManager.spawn *)
Active(d) == {c \in Containers : tasks[d][c] # NoSlot}

(* asyncio.create_task and the entry in _tasks *)
CreateTask(d, c) ==
    \E k \in Slots :
        /\ status[d][c][k] = "none"
        /\ status' = [status EXCEPT ![d][c][k] = "starting"]
        /\ tasks' = [tasks EXCEPT ![d][c] = k]

(* Inside `async with` with the permit in hand: s is the semaphore          *)
SpawnHolding(d, c, s) ==
    /\ CreateTask(d, c)
    /\ sem' = s
    /\ lpc' = [lpc EXCEPT ![d] = "logging"]

(* Mutant of BeginSpawn: the semaphore is not waited for *)
BeginSpawnUnlocked(d, c, s) ==
    /\ spawning' = [spawning EXCEPT ![d] = c]
    /\ SpawnHolding(d, c, Take(s))

(* spawn() of a container that is not active, up to its first await *)
BeginSpawn(d, c, s) ==
    /\ spawning' = [spawning EXCEPT ![d] = c]
    /\ IF Locked(s)
       THEN /\ sem' = Enqueue(s, d)
            /\ lpc' = [lpc EXCEPT ![d] = "waiting"]
            /\ UNCHANGED listeners
       ELSE SpawnHolding(d, c, Take(s))

(* The rest of Registry.update's loop over new_refs, a Python list built    *)
(* from a set: any order.  spawn() returns at once for the refs in skip.    *)
SpawnNext(d, refs, s) ==
    \/ /\ refs \subseteq Active(d)
       /\ lpc' = [lpc EXCEPT ![d] = "idle"]
       /\ pending' = [pending EXCEPT ![d] = {}]
       /\ spawning' = [spawning EXCEPT ![d] = NoContainer]
       /\ sem' = s
       /\ UNCHANGED listeners
    \/ \E c \in refs \ Active(d), skip \in SUBSET (refs \cap Active(d)) :
       /\ pending' = [pending EXCEPT ![d] = refs \ (skip \cup {c})]
       /\ BeginSpawn(d, c, s)

-----------------------------------------------------------------------------
(* run_containers_listing *)
PsStart(d) ==
    /\ up = "up"
    /\ lpc[d] = "idle"
    /\ lpc' = [lpc EXCEPT ![d] = "ps"]
    /\ seen' = [seen EXCEPT ![d] = running[d]]
    /\ UNCHANGED <<running, registry, pending, spawning, sem, listeners, tracker, up>>

(* TransportError or ValueError: log, sleep, try again *)
PsFails(d) ==
    /\ up = "up"
    /\ lpc[d] = "ps"
    /\ PsOutcomes \cap CaughtOutcomes # {}
    /\ lpc' = [lpc EXCEPT ![d] = "idle"]
    /\ seen' = [seen EXCEPT ![d] = {}]
    /\ UNCHANGED <<running, registry, pending, spawning, sem, listeners, tracker, up>>

(* Any other exception goes through gather to main() *)
PsCrashes(d) ==
    /\ up = "up"
    /\ lpc[d] = "ps"
    /\ PsOutcomes \cap UncaughtOutcomes # {}
    /\ Crash("listing")

(* Registry.update and its callbacks, up to the first spawn that suspends *)
PsReturns(d) ==
    /\ up = "up"
    /\ lpc[d] = "ps"
    /\ "listing" \in PsOutcomes
    /\ known' = [known EXCEPT ![d] = KnownAfter(known[d], seen[d])]
    /\ misses' = [misses EXCEPT ![d] = MissesAfter(known[d], misses[d], seen[d])]
    /\ seen' = [seen EXCEPT ![d] = {}]
    /\ SpawnNext(d, NewRefs(known[d], seen[d]), sem)
    /\ UNCHANGED <<running, tracker, up>>

(* The semaphore let the waiting spawn() in; it checks _tasks again *)
SpawnGranted(d) ==
    /\ up = "up"
    /\ lpc[d] = "waiting"
    /\ d \in sem.granted
    /\ IF spawning[d] \in Active(d)
       THEN SpawnNext(d, pending[d], Release(Resume(sem, d)))
       ELSE /\ SpawnHolding(d, spawning[d], Resume(sem, d))
            /\ UNCHANGED <<pending, spawning>>
    /\ UNCHANGED <<running, registry, seen, tracker, up>>

(* Mutant of SpawnLogged: the permit is not given back *)
SpawnLoggedInside(d) ==
    /\ up = "up"
    /\ lpc[d] = "logging"
    /\ SpawnNext(d, pending[d], sem)
    /\ UNCHANGED <<running, registry, seen, tracker, up>>

(* "listener.spawned" is logged: release the permit, on to the next ref *)
SpawnLogged(d) ==
    /\ up = "up"
    /\ lpc[d] = "logging"
    /\ SpawnNext(d, pending[d], Release(sem))
    /\ UNCHANGED <<running, registry, seen, tracker, up>>

-----------------------------------------------------------------------------
(* run_container_listener, as far as its task's life goes *)
Becomes(d, c, k, from, to) ==
    /\ up = "up"
    /\ status[d][c][k] \in from
    /\ status' = [status EXCEPT ![d][c][k] = to]
    /\ UNCHANGED <<running, registry, listing, sem, tasks, tracker, up>>

(* The `docker logs -f` subprocess has been started *)
Connects(d, c, k) == Becomes(d, c, k, {"starting"}, "streaming")

(* End of its output: the container stopped, or the ssh connection dropped *)
StreamEnds(d, c, k) == Becomes(d, c, k, {"streaming"}, "exited")

(* An exception: no such binary, a line that cannot be handled, ... *)
ListenerFails(d, c, k) == Becomes(d, c, k, Live, "failed")

(* CancelledError went through stream_lines, which killed the subprocess *)
CancelDelivered(d, c, k) == Becomes(d, c, k, {"cancelling"}, "cancelled")

(* Mutant of Unregistered: the entry goes whoever owns it *)
UnregisteredAnyway(d, c, k) == [tasks EXCEPT ![d][c] = NoSlot]

(* on_done: the entry goes only if it is still this task's *)
Unregistered(d, c, k) ==
    IF tasks[d][c] = k THEN [tasks EXCEPT ![d][c] = NoSlot] ELSE tasks

(* on_done of a task that ended on its own (call_soon'ed, so other ready    *)
(* callbacks may come first); on_done of a cancelled task runs right before *)
(* the tracker that awaits it, in StopReturns.                             *)
DoneCallback(d, c, k) ==
    /\ up = "up"
    /\ status[d][c][k] \in EndedStates
    /\ status' = [status EXCEPT ![d][c][k] = "none"]
    /\ tasks' = Unregistered(d, c, k)
    /\ UNCHANGED <<running, registry, listing, sem, tracker, up>>

-----------------------------------------------------------------------------
(* ContainerTracker.run_once: the loop over the ids left, up to the log     *)
(* call before the next stop.  kn and ms are the registry as it now stands. *)
Sweep(d, ids, kn, ms) ==
    LET gone == {c \in ids : Vanished(kn, ms, c)}
    IN  \/ /\ gone = {}
           /\ tpc' = [tpc EXCEPT ![d] = "sleep"]
           /\ todo' = [todo EXCEPT ![d] = {}]
           /\ cur' = [cur EXCEPT ![d] = NoContainer]
        \/ \E c \in gone, passed \in SUBSET (ids \ gone) :
           /\ tpc' = [tpc EXCEPT ![d] = "logging"]
           /\ todo' = [todo EXCEPT ![d] = ids \ (passed \cup {c})]
           /\ cur' = [cur EXCEPT ![d] = c]

TrackerWakes(d) ==
    /\ up = "up"
    /\ tpc[d] = "sleep"
    /\ Sweep(d, Active(d), known[d], misses[d])
    /\ UNCHANGED <<running, registry, listing, sem, listeners, victim, up>>

(* Mutant of ForgetAndSweep: the whole sweep is forgotten at once *)
ForgetSweep(d) ==
    /\ known' = [known EXCEPT ![d] = @ \ (todo[d] \cup {cur[d]})]
    /\ misses' = [misses EXCEPT ![d] = MissesWithout(@, cur[d])]
    /\ Sweep(d, {}, known[d], misses[d])

(* registry.forget after stop() has returned, and the rest of the sweep *)
ForgetAndSweep(d) ==
    LET kn == KnownWithout(known[d], cur[d])
        ms == MissesWithout(misses[d], cur[d])
    IN  /\ known' = [known EXCEPT ![d] = kn]
        /\ misses' = [misses EXCEPT ![d] = ms]
        /\ Sweep(d, todo[d], kn, ms)

(* stop(): the task that the tracker finds when its log call returns *)
Target(d) == tasks[d][cur[d]]

(* ... none: it ended meanwhile and its done callback ran *)
StopFindsNothing(d) ==
    /\ up = "up"
    /\ tpc[d] = "logging"
    /\ Target(d) = NoSlot
    /\ ForgetAndSweep(d)
    /\ UNCHANGED <<running, listing, sem, listeners, victim, up>>

(* Mutant of StopCancels: cancel, but do not wait for the end *)
StopDoesNotWait(d) ==
    /\ up = "up"
    /\ tpc[d] = "logging"
    /\ Target(d) # NoSlot
    /\ status[d][cur[d]][Target(d)] \in Live
    /\ status' = [status EXCEPT ![d][cur[d]][Target(d)] = "cancelling"]
    /\ tasks' = [tasks EXCEPT ![d][cur[d]] = NoSlot]
    /\ ForgetAndSweep(d)
    /\ UNCHANGED <<running, listing, sem, victim, up>>

(* ... a running one: pop it, cancel it and wait for its end *)
StopCancels(d) ==
    /\ up = "up"
    /\ tpc[d] = "logging"
    /\ Target(d) # NoSlot
    /\ status[d][cur[d]][Target(d)] \in Live
    /\ status' = [status EXCEPT ![d][cur[d]][Target(d)] = "cancelling"]
    /\ tasks' = [tasks EXCEPT ![d][cur[d]] = NoSlot]
    /\ victim' = [victim EXCEPT ![d] = Target(d)]
    /\ tpc' = [tpc EXCEPT ![d] = "stopping"]
    /\ UNCHANGED <<running, registry, listing, sem, todo, cur, up>>

(* ... one that returned but whose done callback is still to come: awaiting *)
(* it does not suspend                                                     *)
StopFindsExited(d) ==
    /\ up = "up"
    /\ tpc[d] = "logging"
    /\ Target(d) # NoSlot
    /\ status[d][cur[d]][Target(d)] = "exited"
    /\ tasks' = [tasks EXCEPT ![d][cur[d]] = NoSlot]
    /\ ForgetAndSweep(d)
    /\ UNCHANGED <<running, listing, sem, status, victim, up>>

(* ... one that raised: `await task` raises it again, and stop() catches    *)
(* CancelledError only                                                     *)
StopFindsFailed(d) ==
    /\ up = "up"
    /\ tpc[d] = "logging"
    /\ Target(d) # NoSlot
    /\ status[d][cur[d]][Target(d)] = "failed"
    /\ Crash("tracker")

(* The cancelled task is over: its on_done, then stop() returns *)
StopReturns(d) ==
    /\ up = "up"
    /\ tpc[d] = "stopping"
    /\ status[d][cur[d]][victim[d]] = "cancelled"
    /\ status' = [status EXCEPT ![d][cur[d]][victim[d]] = "none"]
    /\ tasks' = Unregistered(d, cur[d], victim[d])
    /\ victim' = [victim EXCEPT ![d] = NoSlot]
    /\ ForgetAndSweep(d)
    /\ UNCHANGED <<running, listing, sem, up>>

-----------------------------------------------------------------------------
ListingStep(d) == PsStart(d) \/ PsFails(d) \/ PsCrashes(d) \/ PsReturns(d)
                  \/ SpawnGranted(d) \/ SpawnLogged(d)

TrackerStep(d) == TrackerWakes(d) \/ StopFindsNothing(d) \/ StopCancels(d)
                  \/ StopFindsExited(d) \/ StopFindsFailed(d) \/ StopReturns(d)

ListenerStep(d, c, k) == Connects(d, c, k) \/ StreamEnds(d, c, k)
    \/ ListenerFails(d, c, k) \/ CancelDelivered(d, c, k) \/ DoneCallback(d, c, k)

HostStep(d, c) == ContainerStarts(d, c) \/ ContainerStops(d, c)

Next ==
    \/ \E d \in Daemons : ListingStep(d) \/ TrackerStep(d)
    \/ \E d \in Daemons, c \in Containers : HostStep(d, c)
    \/ \E d \in Daemons, c \in Containers, k \in Slots : ListenerStep(d, c, k)
    \/ Restart

Spec == Init /\ [][Next]_vars

(* The loops run for ever, ready tasks run, a cancelled subprocess dies, s6 *)
(* restarts the process, and a daemon does not fail `docker ps` for ever.   *)
(* Nothing obliges a listener to connect, to end or to fail.               *)
Fairness ==
    /\ \A d \in Daemons :
        /\ WF_vars(ListingStep(d))
        /\ SF_vars(PsReturns(d))
        /\ WF_vars(TrackerStep(d))
    /\ \A d \in Daemons, c \in Containers, k \in Slots :
        WF_vars(CancelDelivered(d, c, k)) /\ WF_vars(DoneCallback(d, c, k))
    /\ WF_vars(Restart)

FairSpec == Spec /\ Fairness

-----------------------------------------------------------------------------
TypeOK ==
    /\ running \in [Daemons -> SUBSET Containers]
    /\ known \in [Daemons -> SUBSET Containers]
    /\ misses \in [Daemons -> [Containers -> 0..Threshold]]
    /\ lpc \in [Daemons -> {"idle", "ps", "waiting", "logging"}]
    /\ seen \in [Daemons -> SUBSET Containers]
    /\ pending \in [Daemons -> SUBSET Containers]
    /\ spawning \in [Daemons -> Containers \cup {NoContainer}]
    /\ sem \in [value : Nat, queue : Seq(Daemons), granted : SUBSET Daemons]
    /\ tasks \in [Daemons -> [Containers -> Slots \cup {NoSlot}]]
    /\ status \in [Daemons -> [Containers -> [Slots -> Statuses]]]
    /\ tpc \in [Daemons -> {"sleep", "logging", "stopping"}]
    /\ todo \in [Daemons -> SUBSET Containers]
    /\ cur \in [Daemons -> Containers \cup {NoContainer}]
    /\ victim \in [Daemons -> Slots \cup {NoSlot}]
    /\ up \in {"up", "listing", "tracker"}

(* Listeners that hold, or are about to open, a `docker logs -f` stream     *)
Streaming(d, c) == {k \in Slots : status[d][c][k] \in Live \cup {"cancelling"}}

(* A container's logs are never read twice at the same time: one task per   *)
(* (daemon, container), container_listener.py line 1, whatever the order   *)
(* of spawns, stops, listings and done callbacks.                          *)
OneListenerPerContainer ==
    \A d \in Daemons, c \in Containers :
        \A j, k \in Streaming(d, c) : j = k

(* No listener runs out of the manager's reach: one that nobody has         *)
(* cancelled is the entry of its container in _tasks, where stop() will     *)
(* find it (on_done's `is task` test keeps a late callback off its         *)
(* successor's entry).                                                     *)
NoOrphanListener ==
    \A d \in Daemons, c \in Containers, k \in Slots :
        status[d][c][k] \in Live => tasks[d][c] = k

(* Every active id is in the registry, so run_once's branch for a container *)
(* that is not there at all is never taken and no healthy listener is       *)
(* stopped by it.                                                          *)
ActiveAreKnown == \A d \in Daemons : Active(d) \subseteq known[d]

(* The refs whose spawn() has not created its task yet *)
ToSpawn(d) == pending[d] \cup (IF lpc[d] = "waiting" THEN {spawning[d]} ELSE {})

(* spawn() never meets an active id: both its early returns are dead, no    *)
(* new container is dropped by them and none is spawned while the tracker   *)
(* is still stopping its previous listener.                                *)
SpawnMeetsNoRival ==
    \A d \in Daemons :
        /\ ToSpawn(d) \subseteq known[d] \ (Active(d) \cup {cur[d]} \cup todo[d])
        /\ \A c \in ToSpawn(d) : Streaming(d, c) = {}

(* forget() drops a container only when nothing streams its logs, also when *)
(* the listener ended by itself while the tracker was about to stop it;    *)
(* otherwise the next listing would spawn a second listener beside it.     *)
ForgottenOnlyWhenQuiet ==
    [][\A d \in Daemons : \A c \in known[d] \ known'[d] : Streaming(d, c)' = {}]_vars

Phase(d, c) ==
    IF c \notin known[d] THEN "unwatched"
    ELSE IF c \in ToSpawn(d) THEN "expected"
    ELSE IF Streaming(d, c) = {} THEN "over"
    ELSE IF Streaming(d, c) = {tasks[d][c]} THEN "open"
    ELSE IF Streaming(d, c) = {victim[d]} /\ cur[d] = c THEN "closing"
    ELSE "astray"

Life == INSTANCE ContainerLife
    WITH phase <- [d \in Daemons |-> [c \in Containers |-> Phase(d, c)]]

(* The loops, the manager and its tasks implement the life cycle of         *)
(* ContainerLife.tla: one listener per discovery, forgotten after its end.  *)
LifeSpec == Life!Spec

Gate == INSTANCE SpawnGate
    WITH Spawners <- Daemons,
         spc <- [d \in Daemons |-> CASE lpc[d] = "waiting" -> "waiting"
                                     [] lpc[d] = "logging" -> "holding"
                                     [] OTHER -> "out"]

(* The spawns of all daemons use the semaphore as SpawnGate.tla says, so    *)
(* what is shown there of its permits holds of the whole process.          *)
GateSpec == Gate!Spec

LedgerOf(d) == INSTANCE MissLedger WITH known <- known[d], misses <- misses[d]

(* The tracker and the listing loop of a daemon leave its registry entries  *)
(* to update() and forget(), whole.                                        *)
LedgersKept ==
    [][\A d \in Daemons : LedgerOf(d)!Next \/ UNCHANGED <<known[d], misses[d]>>]_vars

-----------------------------------------------------------------------------
(* A container that runs and has no entry in the registry gets a listener,  *)
(* though other daemons compete for the semaphore, unless it stops first or *)
(* the process goes down (a daemon whose tracker crashes the process again  *)
(* and again keeps the others from ever finishing a listing).              *)
NewContainersGetAListener ==
    \A d \in Daemons, c \in Containers :
        c \in running[d] \ known[d]
            ~> tasks[d][c] # NoSlot \/ c \notin running[d] \/ up # "up"

(* A container that is gone for good is not listened to for ever: the       *)
(* tracker cancels a listener whose stream does not end by itself.         *)
VanishedAreStopped ==
    \A d \in Daemons, c \in Containers :
        <>[](c \notin running[d]) => <>[](Streaming(d, c) = {})
=============================================================================
