--------------------------- MODULE ContainerLife ----------------------------
(***************************************************************************)
(* What the listener process promises about the log stream of every        *)
(* container, whatever its loops and tasks are doing:                      *)
(*                                                                         *)
(*   unwatched   no listing has named the container since it was forgotten  *)
(*   expected    discovered, its listener is still to be spawned           *)
(*   open        exactly one listener, and the manager can reach it        *)
(*   closing     the tracker has cancelled that listener                   *)
(*   over        the listener has ended; the container is still known      *)
(*                                                                         *)
(* A container that is being watched gets one listener, once: the next one *)
(* comes only after the container has been forgotten, and it is forgotten  *)
(* only when nothing streams its logs any more.                            *)
(***************************************************************************)
CONSTANTS Daemons, Containers

VARIABLE phase

Phases == {"unwatched", "expected", "open", "closing", "over"}

Moves == {<<"unwatched", "expected">>, <<"unwatched", "open">>,
          <<"expected", "open">>, <<"open", "closing">>, <<"open", "over">>,
          <<"closing", "over">>, <<"over", "unwatched">>}

Init == phase = [d \in Daemons |-> [c \in Containers |-> "unwatched"]]

(* One listing may discover several containers of a daemon in one step *)
Proceed ==
    /\ phase' \in [Daemons -> [Containers -> Phases]]
    /\ \A d \in Daemons, c \in Containers :
        phase'[d][c] # phase[d][c] => <<phase[d][c], phase'[d][c]>> \in Moves

(* The process died, and its subprocesses with it *)
Reset == phase' = [d \in Daemons |-> [c \in Containers |-> "unwatched"]]

Next == Proceed \/ Reset

Spec == Init /\ [][Next]_phase
=============================================================================
