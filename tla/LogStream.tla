----------------------------- MODULE LogStream ------------------------------
(***************************************************************************)
(* One container-listener: a `docker logs -f` subprocess with two pipes,    *)
(* the two pump tasks and the queue of _merge_streams, and the listener    *)
(* task that takes lines from it and ships them to the records logger.     *)
(*                                                                         *)
(* The n-th line that the subprocess writes to a pipe is the number n; its  *)
(* kind says what the listener makes of it.                                *)
(***************************************************************************)
EXTENDS Naturals, SequencesExt

CONSTANT MaxLines       \* bound: lines written to each pipe

Pipes == {"stdout", "stderr"}

(* "record": a line with a timestamp; "noise": _parse_line returns None;    *)
(* "overlong": longer than the StreamReader's limit; "poison": one that     *)
(* makes run_container_listener raise                                      *)
LineKinds == {"record", "noise", "overlong", "poison"}

End == <<"end", 0>>      \* the None that a pump puts on the queue

ASSUME MaxLinesAssumption == MaxLines \in Nat

VARIABLES
    proc,       \* the subprocess: "running", "exited", "killed"
    kinds,      \* kinds[p]: what was written to pipe p so far (history)
    pipe,       \* lines in the pipe that its pump has not read
    pump,       \* "reading", "done", "failed" (with its exception), "cancelled"
    queue,      \* of <<p, n>> and End
    remaining,  \* pumps of which the End is still to come
    lpc,        \* listener: "getting", "shipping", "closing" (the stream),
                \* "reaping" (the subprocess), "ended"
    item,       \* the line being shipped, as a sequence of length 0 or 1
    handled,    \* handled[p]: lines shipped or dropped, in order (history)
    outcome     \* how the listener ends: "none" (yet), "returned", "raised",
                \* "cancelled", "interrupted" (cancelled while closing)

vars == <<proc, kinds, pipe, pump, queue, remaining, lpc, item, handled, outcome>>

-----------------------------------------------------------------------------
Init ==
    /\ proc = "running"
    /\ kinds = [p \in Pipes |-> <<>>]
    /\ pipe = [p \in Pipes |-> <<>>]
    /\ pump = [p \in Pipes |-> "reading"]
    /\ queue = <<>>
    /\ remaining = 2
    /\ lpc = "getting"
    /\ item = <<>>
    /\ handled = [p \in Pipes |-> <<>>]
    /\ outcome = "none"

(* docker logs -f (external) *)
Writes(p, kind) ==
    /\ proc = "running"
    /\ Len(kinds[p]) < MaxLines
    /\ kinds' = [kinds EXCEPT ![p] = Append(@, kind)]
    /\ pipe' = [pipe EXCEPT ![p] = Append(@, Len(kinds[p]) + 1)]
    /\ UNCHANGED <<proc, pump, queue, remaining, lpc, item, handled, outcome>>

Exits ==
    /\ proc = "running"
    /\ proc' = "exited"
    /\ UNCHANGED <<kinds, pipe, pump, queue, remaining, lpc, item, handled, outcome>>

-----------------------------------------------------------------------------
KindOf(p, n) == kinds[p][n]

(* Mutant of PumpReads: the latest line comes first *)
PumpReadsToFront(p) ==
    /\ pump[p] = "reading"
    /\ pipe[p] # <<>>
    /\ KindOf(p, Head(pipe[p])) # "overlong"
    /\ queue' = <<<<p, Head(pipe[p])>>>> \o queue
    /\ pipe' = [pipe EXCEPT ![p] = Tail(@)]
    /\ UNCHANGED <<proc, kinds, pump, remaining, lpc, item, handled, outcome>>

(* pump: one line from the pipe to the (unbounded) queue *)
PumpReads(p) ==
    /\ pump[p] = "reading"
    /\ pipe[p] # <<>>
    /\ KindOf(p, Head(pipe[p])) # "overlong"
    /\ queue' = Append(queue, <<p, Head(pipe[p])>>)
    /\ pipe' = [pipe EXCEPT ![p] = Tail(@)]
    /\ UNCHANGED <<proc, kinds, pump, remaining, lpc, item, handled, outcome>>

(* readline() raises ValueError: the pump task is over, without its None *)
PumpFails(p) ==
    /\ pump[p] = "reading"
    /\ pipe[p] # <<>>
    /\ KindOf(p, Head(pipe[p])) = "overlong"
    /\ pipe' = [pipe EXCEPT ![p] = Tail(@)]
    /\ pump' = [pump EXCEPT ![p] = "failed"]
    /\ UNCHANGED <<proc, kinds, queue, remaining, lpc, item, handled, outcome>>

(* End of file *)
PumpEnds(p) ==
    /\ pump[p] = "reading"
    /\ pipe[p] = <<>>
    /\ proc # "running"
    /\ queue' = Append(queue, End)
    /\ pump' = [pump EXCEPT ![p] = "done"]
    /\ UNCHANGED <<proc, kinds, pipe, remaining, lpc, item, handled, outcome>>

-----------------------------------------------------------------------------
(* Mutant of GetsEnd: the first pump that ends ends the stream *)
GetsFirstEnd ==
    /\ lpc = "getting"
    /\ queue # <<>> /\ Head(queue) = End
    /\ queue' = Tail(queue)
    /\ remaining' = remaining - 1
    /\ lpc' = "closing"
    /\ outcome' = "returned"
    /\ UNCHANGED <<proc, kinds, pipe, pump, item, handled>>

(* Mutant of GetsEnd: it waits for one End more than there are pumps *)
GetsEveryEnd ==
    /\ lpc = "getting"
    /\ queue # <<>> /\ Head(queue) = End
    /\ queue' = Tail(queue)
    /\ remaining' = remaining - 1
    /\ UNCHANGED <<proc, kinds, pipe, pump, lpc, item, handled, outcome>>

(* The loops of _merge_streams and run_container_listener: the next item *)
GetsEnd ==
    /\ lpc = "getting"
    /\ queue # <<>> /\ Head(queue) = End
    /\ queue' = Tail(queue)
    /\ remaining' = remaining - 1
    /\ lpc' = IF remaining = 1 THEN "closing" ELSE "getting"
    /\ outcome' = IF remaining = 1 THEN "returned" ELSE outcome
    /\ UNCHANGED <<proc, kinds, pipe, pump, item, handled>>

GetsLine ==
    /\ lpc = "getting"
    /\ queue # <<>> /\ Head(queue) # End
    /\ queue' = Tail(queue)
    /\ LET p == Head(queue)[1]
           n == Head(queue)[2]
       IN  \/ /\ KindOf(p, n) = "record"
              /\ item' = <<Head(queue)>>
              /\ lpc' = "shipping"
              /\ UNCHANGED <<handled, outcome>>
           \/ /\ KindOf(p, n) = "noise"
              /\ handled' = [handled EXCEPT ![p] = Append(@, n)]
              /\ UNCHANGED <<item, lpc, outcome>>
           \/ /\ KindOf(p, n) = "poison"
              /\ handled' = [handled EXCEPT ![p] = Append(@, n)]
              /\ lpc' = "closing"
              /\ outcome' = "raised"
              /\ UNCHANGED item
    /\ UNCHANGED <<proc, kinds, pipe, pump, remaining>>

(* The line being shipped is with the records logger *)
Handed == [handled EXCEPT ![item[1][1]] = Append(@, item[1][2])]

Ships ==
    /\ lpc = "shipping"
    /\ handled' = Handed
    /\ item' = <<>>
    /\ lpc' = "getting"
    /\ UNCHANGED <<proc, kinds, pipe, pump, queue, remaining, outcome>>

(* stop() or the end of the process cancels the task; a log call in an      *)
(* executor cannot be called back, so the record may still go out          *)
IsCancelled ==
    /\ lpc \in {"getting", "shipping"}
    /\ lpc' = "closing"
    /\ outcome' = "cancelled"
    /\ handled' \in {handled} \cup (IF item # <<>> THEN {Handed} ELSE {})
    /\ item' = <<>>
    /\ UNCHANGED <<proc, kinds, pipe, pump, queue, remaining>>

PumpsCancelled ==
    [p \in Pipes |-> IF pump[p] = "reading" THEN "cancelled" ELSE pump[p]]

(* Mutant of Closes: the subprocess is left to itself *)
ClosesPumpsOnly ==
    /\ lpc = "closing"
    /\ pump' = PumpsCancelled
    /\ lpc' = "ended"
    /\ UNCHANGED <<proc, kinds, pipe, queue, remaining, item, handled, outcome>>

(* The finally blocks: the pumps are cancelled and gathered, then the       *)
(* subprocess is killed if it is still there                               *)
Closes ==
    /\ lpc = "closing"
    /\ pump' = PumpsCancelled
    /\ proc' = IF proc = "running" THEN "killed" ELSE proc
    /\ lpc' = IF proc = "running" THEN "reaping" ELSE "ended"
    /\ UNCHANGED <<kinds, pipe, queue, remaining, item, handled, outcome>>

(* proc.wait() *)
Reaped ==
    /\ lpc = "reaping"
    /\ lpc' = "ended"
    /\ UNCHANGED <<proc, kinds, pipe, pump, queue, remaining, item, handled, outcome>>

(* The first cancellation of a listener that is closing by itself, or the   *)
(* second one of a cancelled listener (the tracker that awaits it is       *)
(* cancelled): CancelledError comes out of an await of the finally blocks  *)
Interrupted ==
    /\ lpc \in {"closing", "reaping"}
    /\ pump' = PumpsCancelled
    /\ lpc' = "ended"
    /\ outcome' = "interrupted"
    /\ UNCHANGED <<proc, kinds, pipe, queue, remaining, item, handled>>

Over == lpc = "ended" /\ UNCHANGED vars

PumpStep(p) == PumpReads(p) \/ PumpFails(p) \/ PumpEnds(p)
Listen == GetsEnd \/ GetsLine \/ Ships \/ Closes \/ Reaped

Next ==
    \/ \E p \in Pipes : PumpStep(p) \/ \E kind \in LineKinds : Writes(p, kind)
    \/ Exits
    \/ Listen
    \/ IsCancelled \/ Interrupted
    \/ Over

Spec == Init /\ [][Next]_vars

(* Ready tasks run and the records logger answers.  Nothing obliges the     *)
(* subprocess to exit or anybody to cancel the listener.                   *)
FairSpec == Spec /\ WF_vars(Listen) /\ \A p \in Pipes : WF_vars(PumpStep(p))

-----------------------------------------------------------------------------
(* What a pump can put on the queue *)
Lines == Pipes \X (1..MaxLines)

TypeOK ==
    /\ proc \in {"running", "exited", "killed"}
    /\ kinds \in [Pipes -> Seq(LineKinds)]
    /\ \A p \in Pipes : Len(kinds[p]) <= MaxLines
    /\ pipe \in [Pipes -> Seq(1..MaxLines)]
    /\ pump \in [Pipes -> {"reading", "done", "failed", "cancelled"}]
    /\ queue \in Seq(Lines \cup {End})
    /\ remaining \in 0..2
    /\ lpc \in {"getting", "shipping", "closing", "reaping", "ended"}
    /\ item \in Seq(Lines) /\ Len(item) <= 1
    /\ handled \in [Pipes -> Seq(1..MaxLines)]
    /\ outcome \in {"none", "returned", "raised", "cancelled", "interrupted"}

(* The lines of pipe p in a sequence of items, and whether they are in order *)
NumbersOf(p, items) == {items[i][2] : i \in {j \in DOMAIN items : items[j][1] = p}}

InOrder(p, items) ==
    \A i, j \in DOMAIN items :
        i < j /\ items[i][1] = p /\ items[j][1] = p => items[i][2] < items[j][2]

(* The last line that the pump took out of the pipe, the last one that it   *)
(* put on the queue (it broke on the one after it, if it did), and the last *)
(* one that the listener took off the queue                                *)
LastRead(p) == Len(kinds[p]) - Len(pipe[p])
LastQueued(p) == LastRead(p) - (IF pump[p] = "failed" THEN 1 ELSE 0)
InHand(p) == item # <<>> /\ item[1][1] = p
LastTaken(p) == Len(handled[p]) + (IF InHand(p) THEN 1 ELSE 0)

(* Nothing is between two places and nothing in both of them: the line in   *)
(* the listener's hand follows what it handled, the queue holds all from    *)
(* there to the last one queued, and the pipe what comes after that         *)
Unbroken(p) ==
    /\ InHand(p) => item[1][2] = LastTaken(p)
    /\ LastTaken(p) <= LastQueued(p)
    /\ NumbersOf(p, queue) = (LastTaken(p) + 1)..LastQueued(p)
    /\ InOrder(p, queue)
    /\ \A i \in DOMAIN pipe[p] : pipe[p][i] = LastRead(p) + i

(* Each line of a pipe is handled once and in the order it was written,     *)
(* whatever the other pipe, the queue and the log calls do meanwhile; while *)
(* the listener is at work the only line that is ever left out is the one   *)
(* its pump broke on.                                                      *)
LinesInOrder ==
    \A p \in Pipes :
        /\ \A i \in DOMAIN handled[p] : handled[p][i] = i
        /\ lpc \in {"getting", "shipping"} => Unbroken(p)

(* A listener that ended by itself because its subprocess did has handled   *)
(* everything that was written.                                            *)
ReturnsWithEverything ==
    outcome = "returned" => \A p \in Pipes : Len(handled[p]) = Len(kinds[p])

(* However the listener ends, no pump outlives it, and no subprocess does   *)
(* unless the closing was interrupted; and no pump is cancelled under a     *)
(* listener that still waits for lines.                                    *)
NothingOutlivesTheListener ==
    /\ lpc = "ended" => \A p \in Pipes : pump[p] # "reading"
    /\ lpc = "ended" /\ outcome # "interrupted" => proc # "running"
    /\ lpc \in {"getting", "shipping"} => \A p \in Pipes : pump[p] # "cancelled"

(* The listener of a container that stopped comes to its end, unless a pump *)
(* broke; one that was cancelled does so in any case.                      *)
ListenersEnd ==
    /\ proc = "exited" ~> lpc = "ended" \/ \E p \in Pipes : pump[p] = "failed"
    /\ outcome = "cancelled" ~> lpc = "ended"

(* app.py 89-90: a listener ends on its own when the container exited.  But *)
(* a line beyond the StreamReader's limit ends the pump without the None    *)
(* that _merge_streams waits for.                                          *)
ExitEndsTheListener == proc = "exited" ~> lpc = "ended"

(* transport.py 116-118: stream_lines "guarantees the subprocess is         *)
(* terminated on cancellation or normal exit".  But a cancellation that     *)
(* arrives while the stream is being closed skips the kill.                *)
SubprocessIsTerminated == lpc = "ended" => proc # "running"
=============================================================================
