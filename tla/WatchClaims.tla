---------------------------- MODULE WatchClaims -----------------------------
(***************************************************************************)
(* What comments and docs of the listener say of its loops and tasks and   *)
(* the code does not do.  Each statement is refuted by TLC on its own;     *)
(* README.md explains the counterexamples.                                 *)
(***************************************************************************)
EXTENDS Watch

(* app.py 89-91, of a listener that ended on its own: "either way, drop our *)
(* bookkeeping so a future registry re-discovery can respawn it".  But the  *)
(* registry still knows the container, so update() never reports it as new *)
(* again and a running container stays without a listener.                 *)
EndedListenersAreRespawned ==
    \A d \in Daemons, c \in Containers :
        c \in running[d] /\ tasks[d][c] = NoSlot
            ~> tasks[d][c] # NoSlot \/ c \notin running[d] \/ up # "up"

(* registry.py 6-8: vanished containers are not removed on the first miss,  *)
(* "that is `container_tracker`'s job".  But run_once walks the active      *)
(* listeners only, so the entry of a container whose listener ended by      *)
(* itself (it stopped normally) is never removed.                          *)
VanishedAreForgotten ==
    \A d \in Daemons, c \in Containers :
        <>[](c \notin running[d]) => <>[](c \notin known[d])

(* app.py 5-8: the semaphore "caps how many listener startups can be in     *)
(* flight at once, process-wide".  But the permit is given back once the    *)
(* task has been created and logged, while its `docker logs` is starting.   *)
StartupsAreCapped ==
    Cardinality({s \in Daemons \X Containers \X Slots :
                    status[s[1]][s[2]][s[3]] = "starting"}) <= MaxSpawns

(* container_tracker.py 3-5: it stops the listeners "whose containers have  *)
(* vanished from `docker ps` for `missing_threshold_cycles` consecutive     *)
(* listings".  But a listing that comes in while run_once logs its decision *)
(* does not call the stop off, though it has reset the miss count.         *)
StoppedOnlyWhileMissing ==
    [][\A d \in Daemons, c \in Containers, k \in Slots :
        status[d][c][k] \in Live /\ status'[d][c][k] = "cancelling"
            => Vanished(known[d], misses[d], c)]_vars

(* containers_listing.py 5-6: "this loop must never crash, or the daemon    *)
(* silently stops being watched".  But KeyError and FileNotFoundError are   *)
(* not among the exceptions it catches.                                    *)
ListingNeverCrashes == up # "listing"

(* app.py 89-91: a listener "can end on its own (container exited,          *)
(* transport error) as well as via stop() below -- either way, drop our     *)
(* bookkeeping".  But stop() of a listener that has just failed raises the  *)
(* listener's exception in the tracker, and the process goes down.         *)
FailedListenersAreDropped == up # "tracker"
=============================================================================
