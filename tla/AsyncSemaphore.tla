--------------------------- MODULE AsyncSemaphore ---------------------------
(***************************************************************************)
(* asyncio.Semaphore of the Python the project pins (3.12), as operators   *)
(* on a record.  External code: modelled from how app.py uses it, i.e.     *)
(* `async with` and no cancellation of a waiter before the process exits.  *)
(*                                                                         *)
(*   value    the counter                                                  *)
(*   queue    waiters whose future is not done, in FIFO order              *)
(*   granted  waiters whose future is done but whose task has not resumed; *)
(*            they still sit in the semaphore's _waiters                   *)
(***************************************************************************)
EXTENDS Naturals, Sequences

Semaphore(v, q, g) == [value |-> v, queue |-> q, granted |-> g]

NewSemaphore(n) == Semaphore(n, <<>>, {})

(* locked(): also true for a newcomer while anybody is still in _waiters    *)
Locked(s) == s.value = 0 \/ s.queue # <<>> \/ s.granted # {}

(* Mutant of Take: entering takes no permit *)
TakeNothing(s) == s

Take(s) == Semaphore(s.value - 1, s.queue, s.granted)

Enqueue(s, w) == Semaphore(s.value, Append(s.queue, w), s.granted)

(* Mutant of WakeFirst: the latest waiters are woken *)
WakeLast(s, n) ==
    Semaphore(s.value - n,
              SubSeq(s.queue, 1, Len(s.queue) - n),
              s.granted \cup {s.queue[i] : i \in (Len(s.queue) - n + 1)..Len(s.queue)})

(* The first n waiters that are not done get their future set              *)
WakeFirst(s, n) ==
    Semaphore(s.value - n,
              SubSeq(s.queue, n + 1, Len(s.queue)),
              s.granted \cup {s.queue[i] : i \in 1..n})

(* Mutant of Release: the permit is put back and nobody is woken *)
ReleaseQuietly(s) == Semaphore(s.value + 1, s.queue, s.granted)

(* release(): one more permit, handed to the first waiter if there is one   *)
Release(s) ==
    LET r == Semaphore(s.value + 1, s.queue, s.granted)
    IN  IF s.queue = <<>> THEN r ELSE WakeFirst(r, 1)

(* The tail of acquire() in the woken task: it leaves _waiters and wakes as *)
(* many of the others as the counter allows.                               *)
Resume(s, w) ==
    WakeFirst(Semaphore(s.value, s.queue, s.granted \ {w}),
              IF s.value < Len(s.queue) THEN s.value ELSE Len(s.queue))
=============================================================================
