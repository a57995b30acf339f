------------------------------ MODULE Shutdown ------------------------------
(***************************************************************************)
(* The end of the listener process: the signal, the cancellation of run(),  *)
(* the closing of the records logger and asyncio.run's own cancellation of  *)
(* every task that is left.  One daemon with its loops that poll by         *)
(* one-shot commands (the listing and the stats loops), its tracker and     *)
(* its listeners; gather joins further daemons as it joins these loops.     *)
(*                                                                         *)
(* A cancellation is delivered to the await that a task is in.  A task that *)
(* awaits another task passes it on, which is what happens in stop().       *)
(***************************************************************************)
EXTENDS Naturals

CONSTANTS Polls, Listeners

ASSUME ShutdownAssumption == Polls \cap Listeners = {}

VARIABLES
    main,       \* _run_until_signal and asyncio.run: "watching" (asyncio.wait),
                \* "announcing" (its log call), "joining" (await run_task),
                \* "left" (returned or raised), "collecting", "exited"
    run,        \* run_task: "running", "returned", "cancelled", "failed"
    flushed,    \* close_records_logger has been called
    poll,       \* "waiting" (asleep, or for a log call or a spawn), "command",
                \* "cancelled" (while waiting), "aborted" (in the command),
                \* "reaping", "over", "failed" (an exception)
    tracker,    \* "sleeping", "logging", "stopping", "cancelled", "over", "failed"
    victim,     \* the listener that the tracker is stopping
    listener,   \* "none" (yet), "running", "closing", "reaping", "over"
    child,      \* the tasks whose subprocess runs
    hit         \* listeners cancelled while they were closing (history)

vars == <<main, run, flushed, poll, tracker, victim, listener, child, hit>>

(* run() starts the loops, or returns when no daemon is enabled *)
Init ==
    /\ main = "watching" /\ flushed = FALSE
    /\ \/ run = "running" /\ poll = [p \in Polls |-> "waiting"] /\ tracker = "sleeping"
       \/ run = "returned" /\ poll = [p \in Polls |-> "over"] /\ tracker = "over"
    /\ victim \in Listeners
    /\ listener = [c \in Listeners |-> "none"]
    /\ child = {} /\ hit = {}

-----------------------------------------------------------------------------
(* The loops: `docker ps`, `docker stats` and the like.  A command may hang  *)
PollIs(p, from, to) == poll[p] = from /\ poll' = [poll EXCEPT ![p] = to]
OnlyPolls == UNCHANGED <<main, run, flushed, tracker, victim, listener, hit>>

CommandStarts(p) ==
    /\ PollIs(p, "waiting", "command")
    /\ child' = child \cup {p}
    /\ OnlyPolls

CommandExits(p) ==
    /\ poll[p] \in {"command", "aborted"} /\ p \in child
    /\ child' = child \ {p}
    /\ UNCHANGED <<poll>> /\ OnlyPolls

CommandReturns(p) ==
    /\ p \notin child
    /\ PollIs(p, "command", "waiting")
    /\ UNCHANGED child /\ OnlyPolls

(* An exception that the loop does not catch *)
PollFails(p) ==
    /\ p \notin child
    /\ PollIs(p, "command", "failed")
    /\ UNCHANGED child /\ OnlyPolls

(* Mutants of Aborts: nobody kills the command; it is waited for instead *)
AbortsQuietly(p) ==
    /\ PollIs(p, "aborted", "over")
    /\ UNCHANGED child /\ OnlyPolls
AbortsWhenItIsOver(p) ==
    /\ p \notin child
    /\ PollIs(p, "aborted", "over")
    /\ UNCHANGED child /\ OnlyPolls

(* Transport.run: kill and wait.  When the command has just exited and the  *)
(* transport has let go of it, kill() raises ProcessLookupError            *)
Aborts(p) ==
    /\ \/ p \in child /\ PollIs(p, "aborted", "reaping")
       \/ p \notin child /\ PollIs(p, "aborted", "over")
       \/ p \notin child /\ PollIs(p, "aborted", "failed")
    /\ child' = child \ {p}
    /\ OnlyPolls

PollEnds(p) ==
    /\ PollIs(p, "cancelled", "over") \/ PollIs(p, "reaping", "over")
    /\ UNCHANGED child /\ OnlyPolls

-----------------------------------------------------------------------------
(* The listeners, as LogStream.tla has them in detail *)
ListenerIs(c, from, to) == listener[c] = from /\ listener' = [listener EXCEPT ![c] = to]
OnlyListeners == UNCHANGED <<main, run, flushed, poll, tracker, victim, hit>>

(* spawn, in the listing loop *)
Spawns(c) ==
    /\ \E p \in Polls : poll[p] = "waiting"
    /\ ListenerIs(c, "none", "running")
    /\ child' = child \cup {c}
    /\ OnlyListeners

(* It ends by itself: its subprocess exited, or it failed *)
ListenerEnds(c) ==
    /\ ListenerIs(c, "running", "closing")
    /\ child' \in {child, child \ {c}}
    /\ OnlyListeners

Closes(c) ==
    /\ ListenerIs(c, "closing", IF c \in child THEN "reaping" ELSE "over")
    /\ child' = child \ {c}
    /\ OnlyListeners

Reaped(c) ==
    /\ ListenerIs(c, "reaping", "over")
    /\ UNCHANGED child /\ OnlyListeners

(* What a cancellation makes of each of the listeners cs: one that is        *)
(* closing already may leave its finally blocks before the kill            *)
ListenersCancelled(cs) ==
    /\ listener' \in [Listeners -> {"none", "running", "closing", "reaping", "over"}]
    /\ \A c \in Listeners :
          listener'[c] \in IF c \notin cs THEN {listener[c]}
                           ELSE CASE listener[c] = "running" -> {"closing"}
                                  [] listener[c] = "closing" -> {"closing", "over"}
                                  [] OTHER -> {"over"}
    /\ hit' = hit \cup {c \in cs : listener[c] = "closing"}
    /\ UNCHANGED child

-----------------------------------------------------------------------------
Alive == {c \in Listeners : listener[c] \notin {"none", "over"}}

(* The tracker: a decision, its log line, stop() *)
Decides ==
    /\ tracker = "sleeping"
    /\ tracker' = "logging"
    /\ \E c \in Alive : victim' = c
    /\ UNCHANGED <<main, run, flushed, poll, listener, child, hit>>

StopCancels ==
    /\ tracker = "logging"
    /\ IF listener[victim] = "over"    \* with an exception, perhaps
       THEN tracker' \in {"sleeping", "failed"} /\ UNCHANGED <<listener, child, hit>>
       ELSE tracker' = "stopping" /\ ListenersCancelled({victim})
    /\ UNCHANGED <<main, run, flushed, poll, victim>>

(* `except asyncio.CancelledError: pass` catches the victim's cancellation   *)
(* and the tracker's own alike; the sweep goes on with the next one        *)
StopReturns ==
    /\ tracker = "stopping" /\ listener[victim] = "over"
    /\ \/ tracker' = "sleeping" /\ UNCHANGED victim
       \/ /\ tracker' = "logging"
          /\ \E c \in Alive : victim' = c
    /\ UNCHANGED <<main, run, flushed, poll, listener, child, hit>>

TrackerEnds ==
    /\ tracker = "cancelled"
    /\ tracker' = "over"
    /\ UNCHANGED <<main, run, flushed, poll, victim, listener, child, hit>>

-----------------------------------------------------------------------------
LoopFailed == tracker = "failed" \/ \E p \in Polls : poll[p] = "failed"

(* gather: the first of the loops that ends, ends run_daemon and run() *)
RunEnds ==
    /\ run = "running"
    /\ \/ run' = "failed" /\ LoopFailed
       \/ run' = "cancelled" /\ (tracker = "over" \/ \E p \in Polls : poll[p] = "over")
    /\ UNCHANGED <<main, flushed, poll, tracker, victim, listener, child, hit>>

(* A cancellation of all loops and of the listeners cs *)
LoopsCancelled(cs) ==
    /\ poll' = [p \in Polls |-> CASE poll[p] = "waiting" -> "cancelled"
                                  [] poll[p] = "command" -> "aborted"
                                  [] poll[p] = "reaping" -> "over"
                                  [] OTHER -> poll[p]]
    /\ tracker' = IF tracker \in {"sleeping", "logging"} THEN "cancelled" ELSE tracker
    /\ ListenersCancelled(cs \cup (IF tracker = "stopping" THEN {victim} ELSE {}))

SignalArrives ==
    /\ main = "watching" /\ run = "running"
    /\ main' = "announcing"
    /\ UNCHANGED <<run, flushed, poll, tracker, victim, listener, child, hit>>

RunIsOver ==
    /\ main = "watching" /\ run # "running"
    /\ main' = "joining"
    /\ UNCHANGED <<run, flushed, poll, tracker, victim, listener, child, hit>>

(* The log call is back: run_task.cancel() *)
Announced ==
    /\ main = "announcing"
    /\ main' = "joining"
    /\ IF run = "running" THEN LoopsCancelled({})
       ELSE UNCHANGED <<poll, tracker, listener, child, hit>>
    /\ UNCHANGED <<run, flushed, victim>>

(* Every handler is flushed and closed *)
close_records_logger == flushed' = TRUE

(* Mutant of Joined: without the suppress(CancelledError) *)
JoinedAndRaised ==
    /\ main = "joining" /\ run # "running"
    /\ main' = "left"
    /\ UNCHANGED <<run, flushed, poll, tracker, victim, listener, child, hit>>

(* await run_task; close_records_logger, unless run() raised *)
Joined ==
    /\ main = "joining" /\ run # "running"
    /\ main' = "left"
    /\ IF run = "failed" THEN UNCHANGED flushed ELSE close_records_logger
    /\ UNCHANGED <<run, poll, tracker, victim, listener, child, hit>>

(* asyncio.run (external): every task that is left is cancelled, once ... *)
CancelsRest ==
    /\ main = "left"
    /\ main' = "collecting"
    /\ LoopsCancelled(Alive)
    /\ UNCHANGED <<run, flushed, victim>>

(* ... and waited for *)
AllOver ==
    /\ \A p \in Polls : poll[p] \in {"over", "failed"}
    /\ tracker \in {"over", "failed"}
    /\ Alive = {}

Exits ==
    /\ main = "collecting" /\ AllOver
    /\ main' = "exited"
    /\ UNCHANGED <<run, flushed, poll, tracker, victim, listener, child, hit>>

(* The tracker has outlived the last cancellation there is *)
Unstoppable == main = "collecting" /\ tracker \in {"sleeping", "logging", "stopping"}

(* A process that has exited, and sweeps that find nothing to stop *)
Rests ==
    /\ main = "exited" \/ (Unstoppable /\ tracker = "sleeping")
    /\ UNCHANGED vars

-----------------------------------------------------------------------------
PollStep(p) == Aborts(p) \/ PollEnds(p)
ListenerStep(c) == Closes(c) \/ Reaped(c)
TrackerStep == StopCancels \/ StopReturns \/ TrackerEnds
MainStep == RunEnds \/ RunIsOver \/ Announced \/ Joined \/ CancelsRest \/ Exits

Next ==
    \/ \E p \in Polls :
        \/ CommandStarts(p) \/ CommandExits(p) \/ CommandReturns(p) \/ PollFails(p)
        \/ PollStep(p)
    \/ \E c \in Listeners : Spawns(c) \/ ListenerEnds(c) \/ ListenerStep(c)
    \/ Decides \/ TrackerStep
    \/ SignalArrives \/ MainStep
    \/ Rests

Spec == Init /\ [][Next]_vars

(* Ready tasks run, killed processes are reaped and log calls return.  A     *)
(* command need not return, a container need not stop.                     *)
FairSpec ==
    /\ Spec
    /\ WF_vars(TrackerStep) /\ WF_vars(MainStep)
    /\ \A p \in Polls : WF_vars(PollStep(p))
    /\ \A c \in Listeners : WF_vars(ListenerStep(c))

-----------------------------------------------------------------------------
TypeOK ==
    /\ main \in {"watching", "announcing", "joining", "left", "collecting", "exited"}
    /\ run \in {"running", "returned", "cancelled", "failed"}
    /\ flushed \in BOOLEAN
    /\ poll \in [Polls -> {"waiting", "command", "cancelled", "aborted", "reaping",
                           "over", "failed"}]
    /\ tracker \in {"sleeping", "logging", "stopping", "cancelled", "over", "failed"}
    /\ victim \in Listeners
    /\ listener \in [Listeners -> {"none", "running", "closing", "reaping", "over"}]
    /\ child \subseteq Polls \cup Listeners
    /\ hit \subseteq Listeners

(* When the process exits, no one-shot command and no `docker logs -f` is    *)
(* left of it, whatever was in flight at the signal or at the failure; but  *)
(* for listeners that a cancellation hit while they were closing (the       *)
(* tracker was stopping them, or they were ending by themselves).          *)
NothingOutlivesTheProcess == main = "exited" => child \subseteq hit

(* The records logger is closed after every signal, and left open only when *)
(* a loop failed, be it while the signal was being handled.                *)
OnlyFailuresSkipTheFlush ==
    main = "exited" /\ ~ flushed => LoopFailed

(* Once the signal is there or a loop has failed, the process exits, hung    *)
(* commands or not, unless stop() swallowed the tracker's cancellation.     *)
ShutdownEnds == main # "watching" ~> main = "exited" \/ Unstoppable

(* docs/architecture.md 247-253: on SIGTERM log-listener cancels its tasks,  *)
(* flushes the buffer and exits.  But the cancellations that arrive while    *)
(* the tracker awaits a listener in stop() are taken for the listener's.    *)
SignalledProcessExits == main = "announcing" ~> main = "exited"

(* __main__.py 54-57: before the records logger is closed the listeners      *)
(* "already killed their `docker logs -f` subprocesses on cancellation".    *)
(* But run() does not own them, so nobody has cancelled them yet.           *)
ListenersAreOverBeforeTheFlush ==
    flushed => Alive = {}
=============================================================================
