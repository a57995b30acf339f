--------------------------- MODULE ShutdownProofs ---------------------------
(***************************************************************************)
(* The listener process takes its subprocesses with it, and leaves the      *)
(* records logger open only after a failure: for any number of loops and    *)
(* listeners, whatever they were doing when the end came.                  *)
(***************************************************************************)
EXTENDS Shutdown, TLAPS

-----------------------------------------------------------------------------
(* Who has a subprocess: a loop in its command, a listener that has not been *)
(* closed, or one that was cancelled out of its closing.                   *)
PollsOwn == \A p \in Polls : p \in child => poll[p] \in {"command", "aborted"}
ListenersOwn ==
    \A c \in Listeners :
        c \in child => listener[c] \in {"running", "closing"} \/ c \in hit

(* Once it has exited, nothing of the process moves *)
ExitedIsOver == main = "exited" => AllOver

(* Only a failure makes _run_until_signal leave without the closing ... *)
LeftOpenByFailure ==
    main \in {"left", "collecting", "exited"} /\ ~ flushed => run = "failed"

(* ... and the loop that failed stays failed *)
FailureIsALoops == run = "failed" => LoopFailed

IInv ==
    /\ TypeOK
    /\ PollsOwn /\ ListenersOwn
    /\ ExitedIsOver
    /\ LeftOpenByFailure /\ FailureIsALoops

LEMMA InitInv == Init => IInv
BY DEF Init, IInv, TypeOK, PollsOwn, ListenersOwn, ExitedIsOver,
       LeftOpenByFailure, FailureIsALoops

-----------------------------------------------------------------------------
(* The steps of the loops *)
LEMMA PollSteps ==
    ASSUME IInv, NEW p \in Polls,
           CommandStarts(p) \/ CommandExits(p) \/ CommandReturns(p) \/ PollFails(p)
               \/ PollStep(p)
    PROVE  IInv'
<1> USE DEF IInv
<1>1. p \notin Listeners
  BY ShutdownAssumption
<1>2. UNCHANGED <<main, run, flushed, tracker, victim, listener, hit>>
  BY DEF CommandStarts, CommandExits, CommandReturns, PollFails, PollStep, Aborts,
         PollEnds, OnlyPolls
<1>3. /\ child' \subseteq child \cup {p}
      /\ p \in child' => poll'[p] \in {"command", "aborted"}
  BY DEF CommandStarts, CommandExits, CommandReturns, PollFails, PollStep, Aborts,
         PollEnds, PollIs, TypeOK, PollsOwn
<1>4. /\ poll' \in [Polls -> {"waiting", "command", "cancelled", "aborted", "reaping",
                              "over", "failed"}]
      /\ \A q \in Polls \ {p} : poll'[q] = poll[q]
      /\ poll[p] \notin {"over", "failed"}
  BY DEF CommandStarts, CommandExits, CommandReturns, PollFails, PollStep, Aborts,
         PollEnds, PollIs, TypeOK
<1>5. TypeOK'
  BY <1>2, <1>3, <1>4 DEF TypeOK
<1>6. PollsOwn' /\ ListenersOwn'
  BY <1>1, <1>2, <1>3, <1>4 DEF PollsOwn, ListenersOwn
<1>7. ExitedIsOver'
  BY <1>2, <1>4 DEF ExitedIsOver, AllOver
<1>8. LeftOpenByFailure' /\ FailureIsALoops'
  BY <1>2, <1>4 DEF LeftOpenByFailure, FailureIsALoops, LoopFailed
<1> QED
  BY <1>5, <1>6, <1>7, <1>8

(* The steps of the listeners *)
LEMMA ListenerSteps ==
    ASSUME IInv, NEW c \in Listeners,
           Spawns(c) \/ ListenerEnds(c) \/ ListenerStep(c)
    PROVE  IInv'
<1> USE DEF IInv
<1>1. c \notin Polls
  BY ShutdownAssumption
<1>2. UNCHANGED <<main, run, flushed, poll, tracker, victim, hit>>
  BY DEF Spawns, ListenerEnds, ListenerStep, Closes, Reaped, OnlyListeners
<1>3. /\ child' \subseteq child \cup {c}
      /\ c \in child' => listener'[c] \in {"running", "closing"} \/ c \in hit
  BY DEF Spawns, ListenerEnds, ListenerStep, Closes, Reaped, ListenerIs, TypeOK, ListenersOwn
<1>4. /\ listener' \in [Listeners -> {"none", "running", "closing", "reaping", "over"}]
      /\ \A x \in Listeners \ {c} : listener'[x] = listener[x]
  BY DEF Spawns, ListenerEnds, ListenerStep, Closes, Reaped, ListenerIs, TypeOK
<1>5. ~ AllOver
  BY DEF Spawns, ListenerEnds, ListenerStep, Closes, Reaped, ListenerIs, AllOver, Alive
<1>6. TypeOK'
  BY <1>2, <1>3, <1>4 DEF TypeOK
<1>7. PollsOwn' /\ ListenersOwn'
  BY <1>1, <1>2, <1>3, <1>4 DEF PollsOwn, ListenersOwn
<1>8. ExitedIsOver' /\ LeftOpenByFailure' /\ FailureIsALoops'
  BY <1>2, <1>5 DEF ExitedIsOver, LeftOpenByFailure, FailureIsALoops, LoopFailed
<1> QED
  BY <1>6, <1>7, <1>8

-----------------------------------------------------------------------------
(* What cancelling any listeners leaves of their subprocesses: those in hit *)
LEMMA CancelledListeners ==
    ASSUME IInv, NEW STATE cs, cs \subseteq Listeners, ListenersCancelled(cs)
    PROVE  /\ listener' \in [Listeners -> {"none", "running", "closing", "reaping", "over"}]
           /\ child' = child /\ hit' \subseteq Listeners
           /\ ListenersOwn'
<1>1. /\ listener' \in [Listeners -> {"none", "running", "closing", "reaping", "over"}]
      /\ child' = child
      /\ hit' = hit \cup {c \in cs : listener[c] = "closing"}
  BY DEF ListenersCancelled
<1>2. hit' \subseteq Listeners
  BY <1>1 DEF IInv, TypeOK
<1>3. ASSUME NEW c \in Listeners, c \in child'
      PROVE  listener'[c] \in {"running", "closing"} \/ c \in hit'
  <2>1. c \in hit \/ listener[c] \in {"running", "closing"}
    BY <1>1, <1>3 DEF IInv, ListenersOwn
  <2>2. CASE c \in hit
    BY <1>1, <2>2
  <2>3. CASE c \notin cs
    BY <1>1, <2>1, <2>3 DEF ListenersCancelled
  <2>4. CASE c \in cs /\ listener[c] = "running"
    BY <2>4 DEF ListenersCancelled
  <2>5. CASE c \in cs /\ listener[c] = "closing"
    BY <1>1, <2>5
  <2> QED
    BY <2>1, <2>2, <2>3, <2>4, <2>5
<1> QED
  BY <1>1, <1>2, <1>3 DEF ListenersOwn

(* Cancelling every loop leaves commands only where they will be killed, and *)
(* changes nothing that is over.                                           *)
LEMMA CancelledLoops ==
    ASSUME IInv, NEW STATE cs, cs \subseteq Listeners, LoopsCancelled(cs),
           UNCHANGED <<run, victim>>
    PROVE  /\ main' \in {"watching", "announcing", "joining", "left", "collecting", "exited"}
                  /\ flushed' \in BOOLEAN => TypeOK'
           /\ PollsOwn' /\ ListenersOwn' /\ FailureIsALoops'
<1>1. /\ listener' \in [Listeners -> {"none", "running", "closing", "reaping", "over"}]
      /\ child' = child /\ hit' \subseteq Listeners
      /\ ListenersOwn'
  <2>1. PICK of \in SUBSET Listeners : ListenersCancelled(of)
    BY DEF LoopsCancelled, IInv, TypeOK
  <2> QED
    BY <2>1, CancelledListeners
<1>2. /\ poll' \in [Polls -> {"waiting", "command", "cancelled", "aborted", "reaping",
                              "over", "failed"}]
      /\ \A p \in Polls : poll[p] \in {"command", "aborted"}
             => poll'[p] \in {"command", "aborted"}
      /\ \A p \in Polls : poll[p] = "failed" => poll'[p] = "failed"
  BY DEF LoopsCancelled, IInv, TypeOK
<1>3. /\ tracker' \in {"sleeping", "logging", "stopping", "cancelled", "over", "failed"}
      /\ tracker = "failed" => tracker' = "failed"
  BY DEF LoopsCancelled, IInv, TypeOK
<1>4. PollsOwn'
  BY <1>1, <1>2 DEF PollsOwn, IInv
<1>5. FailureIsALoops'
  BY <1>2, <1>3 DEF FailureIsALoops, LoopFailed, IInv
<1> QED
  BY <1>1, <1>2, <1>3, <1>4, <1>5 DEF IInv, TypeOK

-----------------------------------------------------------------------------
(* The steps of the tracker *)
LEMMA TrackerSteps ==
    ASSUME IInv, Decides \/ TrackerStep
    PROVE  IInv'
<1>1. UNCHANGED <<main, run, flushed, poll>> /\ child' = child
  BY DEF Decides, TrackerStep, StopCancels, StopReturns, TrackerEnds, ListenersCancelled
<1>2. /\ tracker \notin {"over", "failed"}
      /\ tracker' \in {"sleeping", "logging", "stopping", "cancelled", "over", "failed"}
      /\ victim' \in Listeners
  BY DEF Decides, TrackerStep, StopCancels, StopReturns, TrackerEnds, Alive, IInv, TypeOK
<1>3. /\ listener' \in [Listeners -> {"none", "running", "closing", "reaping", "over"}]
      /\ hit' \subseteq Listeners
      /\ ListenersOwn'
  <2>1. CASE UNCHANGED <<listener, child, hit>>
    BY <2>1 DEF IInv, TypeOK, ListenersOwn
  <2>2. CASE ListenersCancelled({victim})
    <3>1. {victim} \subseteq Listeners
      BY DEF IInv, TypeOK
    <3> QED
      BY <2>2, <3>1, CancelledListeners
  <2> QED
    BY <2>1, <2>2 DEF Decides, TrackerStep, StopCancels, StopReturns, TrackerEnds
<1>4. TypeOK'
  BY <1>1, <1>2, <1>3 DEF IInv, TypeOK
<1>5. PollsOwn'
  BY <1>1 DEF IInv, PollsOwn
<1>6. ExitedIsOver'
  BY <1>1, <1>2 DEF IInv, ExitedIsOver, AllOver
<1>7. LeftOpenByFailure' /\ FailureIsALoops'
  BY <1>1, <1>2 DEF IInv, LeftOpenByFailure, FailureIsALoops, LoopFailed
<1> QED
  BY <1>3, <1>4, <1>5, <1>6, <1>7 DEF IInv

(* The steps of _run_until_signal and asyncio.run *)
LEMMA MainSteps ==
    ASSUME IInv, SignalArrives \/ MainStep
    PROVE  IInv'
<1>1. CASE SignalArrives \/ RunIsOver
  BY <1>1 DEF SignalArrives, RunIsOver, IInv, TypeOK, PollsOwn, ListenersOwn, ExitedIsOver,
       LeftOpenByFailure, FailureIsALoops, LoopFailed
<1>2. CASE RunEnds
  BY <1>2 DEF RunEnds, IInv, TypeOK, PollsOwn, ListenersOwn, ExitedIsOver, AllOver, Alive,
       LeftOpenByFailure, FailureIsALoops, LoopFailed
<1>3. CASE Announced
  <2>1. CASE run = "running"
    <3>1. LoopsCancelled({}) /\ UNCHANGED <<run, flushed, victim>> /\ main' = "joining"
      BY <1>3, <2>1 DEF Announced
    <3>2. TypeOK' /\ PollsOwn' /\ ListenersOwn' /\ FailureIsALoops'
      BY <3>1, CancelledLoops DEF IInv, TypeOK
    <3> QED
      BY <3>1, <3>2 DEF IInv, ExitedIsOver, LeftOpenByFailure
  <2>2. CASE run # "running"
    BY <1>3, <2>2 DEF Announced, IInv, TypeOK, PollsOwn, ListenersOwn, ExitedIsOver,
         LeftOpenByFailure, FailureIsALoops, LoopFailed
  <2> QED
    BY <2>1, <2>2
<1>4. CASE Joined
  BY <1>4 DEF Joined, close_records_logger, IInv, TypeOK, PollsOwn, ListenersOwn,
       ExitedIsOver, LeftOpenByFailure, FailureIsALoops, LoopFailed
<1>5. CASE CancelsRest
  <2>1. /\ LoopsCancelled(Alive) /\ UNCHANGED <<run, flushed, victim>>
        /\ main = "left" /\ main' = "collecting" /\ Alive \subseteq Listeners
    BY <1>5 DEF CancelsRest, Alive
  <2>2. TypeOK' /\ PollsOwn' /\ ListenersOwn' /\ FailureIsALoops'
    BY <2>1, CancelledLoops DEF IInv, TypeOK
  <2> QED
    BY <2>1, <2>2 DEF IInv, ExitedIsOver, LeftOpenByFailure
<1>6. CASE Exits
  BY <1>6 DEF Exits, IInv, TypeOK, PollsOwn, ListenersOwn, ExitedIsOver, AllOver, Alive,
       LeftOpenByFailure, FailureIsALoops, LoopFailed
<1> QED
  BY <1>1, <1>2, <1>3, <1>4, <1>5, <1>6 DEF MainStep

LEMMA NextInv == IInv /\ [Next]_vars => IInv'
<1> SUFFICES ASSUME IInv, [Next]_vars PROVE IInv'
  OBVIOUS
<1>1. CASE UNCHANGED vars
  BY <1>1 DEF vars, IInv, TypeOK, PollsOwn, ListenersOwn, ExitedIsOver, AllOver, Alive,
       LeftOpenByFailure, FailureIsALoops, LoopFailed
<1>2. CASE Next
  BY <1>1, <1>2, PollSteps, ListenerSteps, TrackerSteps, MainSteps DEF Next, Rests
<1> QED
  BY <1>1, <1>2

-----------------------------------------------------------------------------
(* Every reachable state satisfies the invariant: a subprocess always has an *)
(* owner that will kill it, or one that was kept from doing so.            *)
THEOREM InvariantHolds == Spec => []IInv
BY InitInv, NextInv, PTL DEF Spec

(* When the process exits, all its subprocesses are gone, but for those of   *)
(* listeners cancelled out of their closing (Transport.run and             *)
(* stream_lines, for any number of loops and listeners).                    *)
THEOREM NothingIsLeft == Spec => []NothingOutlivesTheProcess
<1>1. IInv => NothingOutlivesTheProcess
  BY DEF IInv, TypeOK, PollsOwn, ListenersOwn, ExitedIsOver, AllOver, Alive,
         NothingOutlivesTheProcess
<1> QED
  BY <1>1, InvariantHolds, PTL

(* _run_until_signal skips close_records_logger only after a loop failed. *)
THEOREM FlushIsSkippedByFailuresOnly == Spec => []OnlyFailuresSkipTheFlush
<1>1. IInv => OnlyFailuresSkipTheFlush
  BY DEF IInv, LeftOpenByFailure, FailureIsALoops, OnlyFailuresSkipTheFlush
<1> QED
  BY <1>1, InvariantHolds, PTL
=============================================================================
