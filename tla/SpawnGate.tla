----------------------------- MODULE SpawnGate ------------------------------
(***************************************************************************)
(* The process-wide semaphore around ListenerManager.spawn, and nothing    *)
(* else of the listener process.  A spawner is the containers-listing task *)
(* of one daemon: Registry.update awaits the spawns of its new containers  *)
(* one after the other, so a daemon holds or wants at most one permit.     *)
(*                                                                         *)
(* Releasing a permit at the end of one spawn and asking for one at the     *)
(* start of the next happen with no await in between, hence `again` below. *)
(***************************************************************************)
EXTENDS AsyncSemaphore, FiniteSets

CONSTANTS
    Spawners,       \* daemon ids
    MaxSpawns       \* max_concurrent_listener_spawns

ASSUME MaxSpawnsAssumption == MaxSpawns \in Nat

VARIABLES
    sem,            \* app.run's spawn_semaphore
    spc             \* where each spawner is: "out", "waiting", "holding"

gate == <<sem, spc>>

Init ==
    /\ sem = NewSemaphore(MaxSpawns)
    /\ spc = [d \in Spawners |-> "out"]

(* `async with self._spawn_semaphore`, entered with the semaphore in state s *)
Acquire(s, d) ==
    IF Locked(s)
    THEN sem' = Enqueue(s, d) /\ spc' = [spc EXCEPT ![d] = "waiting"]
    ELSE sem' = Take(s) /\ spc' = [spc EXCEPT ![d] = "holding"]

(* ... and left; with another new container to spawn it is entered again   *)
Leave(s, d, again) ==
    IF again THEN Acquire(Release(s), d)
    ELSE sem' = Release(s) /\ spc' = [spc EXCEPT ![d] = "out"]

Enter(d) == spc[d] = "out" /\ Acquire(sem, d)

(* The waiter runs: it holds the permit, or lost the race and gives it back *)
Granted(d) ==
    /\ spc[d] = "waiting"
    /\ d \in sem.granted
    /\ \/ sem' = Resume(sem, d) /\ spc' = [spc EXCEPT ![d] = "holding"]
       \/ \E again \in BOOLEAN : Leave(Resume(sem, d), d, again)

(* listener.spawned has been logged *)
Spawned(d) ==
    /\ spc[d] = "holding"
    /\ \E again \in BOOLEAN : Leave(sem, d, again)

(* The process died; a new one starts with a new semaphore *)
Restarted ==
    /\ sem' = NewSemaphore(MaxSpawns)
    /\ spc' = [d \in Spawners |-> "out"]

Next == \/ \E d \in Spawners : Enter(d) \/ Granted(d) \/ Spawned(d)
        \/ Restarted

Spec == Init /\ [][Next]_gate

(* Tasks of the event loop run when they are ready *)
Fairness == \A d \in Spawners : WF_gate(Granted(d)) /\ WF_gate(Spawned(d))

FairSpec == Spec /\ Fairness

-----------------------------------------------------------------------------
Holding == {d \in Spawners : spc[d] = "holding"}
Waiting == {d \in Spawners : spc[d] = "waiting"}

TypeOK ==
    /\ sem \in [value : Nat, queue : Seq(Spawners), granted : SUBSET Spawners]
    /\ spc \in [Spawners -> {"out", "waiting", "holding"}]

(* No permit is lost or minted: those in the counter, those given to a task *)
(* that has not run yet and those in use always add up to the configured   *)
(* max_concurrent_listener_spawns (app.run line 192).                      *)
PermitsConserved ==
    sem.value + Cardinality(sem.granted) + Cardinality(Holding) = MaxSpawns

(* Every waiter is in the semaphore exactly once, and a free permit never   *)
(* idles while somebody queues unless a woken task is about to pass it on.  *)
NoLostWakeup ==
    /\ Waiting = {sem.queue[i] : i \in 1..Len(sem.queue)} \cup sem.granted
    /\ \A i, j \in 1..Len(sem.queue) : sem.queue[i] = sem.queue[j] => i = j
    /\ \A i \in 1..Len(sem.queue) : sem.queue[i] \notin sem.granted
    /\ sem.queue # <<>> /\ sem.value > 0 => sem.granted # {}

(* First come, first served: nobody is woken before one who queued in front *)
(* of it, and while anybody waits nobody but a woken waiter gets in, neither *)
(* a newcomer nor a spawner that has just given its permit back.           *)
FirstComeFirstServed ==
    [][/\ \A i, j \in 1..Len(sem.queue) :
              i < j /\ sem.queue[j] \in sem'.granted => sem.queue[i] \in sem'.granted
       /\ Waiting # {} =>
              \A d \in Holding' : d \in sem.granted \/ (d \in Holding /\ ~ Spawned(d))]_gate

(* A burst of new containers on one daemon does not starve another daemon's *)
(* spawn (app.py lines 5-8): whoever waits for a permit is handed one, even *)
(* if the others ask again as soon as they have given theirs back.         *)
NoStarvation ==
    \A d \in Spawners :
        spc[d] = "waiting" ~> d \in sem.granted \/ spc[d] # "waiting"
=============================================================================
