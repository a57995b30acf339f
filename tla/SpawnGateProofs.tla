-------------------------- MODULE SpawnGateProofs ---------------------------
(***************************************************************************)
(* The spawn semaphore neither loses nor mints a permit and forgets no     *)
(* waiter, for any set of spawners and any max_concurrent_listener_spawns. *)
(* First what asyncio.Semaphore's operations do to a semaphore, whoever    *)
(* uses it; then the steps of the spawners.                                *)
(***************************************************************************)
EXTENDS SpawnGate, FiniteSetTheorems, TLAPS

(* The semaphores that the tasks of a set W may use *)
Semaphores(W) == [value : Nat, queue : Seq(W), granted : SUBSET W]

(* Those in the semaphore's _waiters *)
Queued(s) == {s.queue[i] : i \in 1..Len(s.queue)}
Waiters(s) == Queued(s) \cup s.granted

(* Nobody is in _waiters twice *)
Tidy(s) ==
    /\ \A i, j \in 1..Len(s.queue) : s.queue[i] = s.queue[j] => i = j
    /\ Queued(s) \cap s.granted = {}
    /\ IsFiniteSet(s.granted)

(* Permits in the counter, or given to a task that has not run yet *)
Permits(s) == s.value + Cardinality(s.granted)

(* A free permit idles only if a woken task is about to pass it on *)
Prompt(s) == s.queue # <<>> /\ s.value > 0 => s.granted # {}

-----------------------------------------------------------------------------
(* A new semaphore is one. *)
LEMMA NewSemaphoreType ==
    ASSUME NEW W, NEW n \in Nat
    PROVE  NewSemaphore(n) \in Semaphores(W)
BY DEF NewSemaphore, Semaphore, Semaphores

(* It has n permits and no waiters. *)
LEMMA NewSemaphoreFacts ==
    ASSUME NEW n \in Nat
    PROVE  LET s == NewSemaphore(n)
           IN  Tidy(s) /\ Prompt(s) /\ Permits(s) = n /\ Waiters(s) = {}
<1> DEFINE s == NewSemaphore(n)
<1>1. s.value = n /\ s.queue = <<>> /\ s.granted = {}
  BY DEF NewSemaphore, Semaphore
<1>2. IsFiniteSet(s.granted) /\ Cardinality(s.granted) = 0
  BY <1>1, FS_EmptySet
<1> QED
  BY <1>1, <1>2 DEF Tidy, Prompt, Permits, Waiters, Queued

(* A task that finds the semaphore not locked can take a permit. *)
LEMMA TakeType ==
    ASSUME NEW W, NEW s \in Semaphores(W), ~Locked(s)
    PROVE  Take(s) \in Semaphores(W)
BY DEF Take, Semaphore, Semaphores, Locked

(* It does not overtake anybody. *)
LEMMA TakeFacts ==
    ASSUME NEW W, NEW s \in Semaphores(W), Tidy(s), ~Locked(s)
    PROVE  LET t == Take(s)
           IN  /\ Tidy(t) /\ Prompt(t)
               /\ Permits(t) = Permits(s) - 1
               /\ Waiters(t) = Waiters(s)
<1> DEFINE t == Take(s)
<1>1. t.value = s.value - 1 /\ t.queue = s.queue /\ t.granted = s.granted
  BY DEF Take, Semaphore
<1>2. Cardinality(s.granted) \in Nat /\ s.value \in Nat
  BY FS_CardinalityType DEF Tidy, Semaphores
<1>3. s.queue = <<>>
  BY DEF Locked
<1> QED
  BY <1>1, <1>2, <1>3 DEF Tidy, Prompt, Permits, Waiters, Queued

(* One that finds it locked queues. *)
LEMMA EnqueueType ==
    ASSUME NEW W, NEW s \in Semaphores(W), NEW w \in W
    PROVE  Enqueue(s, w) \in Semaphores(W)
BY DEF Enqueue, Semaphore, Semaphores

LEMMA EnqueueFacts ==
    ASSUME NEW W, NEW s \in Semaphores(W), Tidy(s), Prompt(s), Locked(s),
           NEW w \in W \ Waiters(s)
    PROVE  LET t == Enqueue(s, w)
           IN  /\ Tidy(t) /\ Prompt(t)
               /\ Permits(t) = Permits(s)
               /\ Waiters(t) = Waiters(s) \cup {w}
<1> DEFINE t == Enqueue(s, w)
<1>1. t.value = s.value /\ t.queue = Append(s.queue, w) /\ t.granted = s.granted
  BY DEF Enqueue, Semaphore
<1>2. s.queue \in Seq(W)
  BY DEF Semaphores
<1>3. /\ Len(t.queue) = Len(s.queue) + 1
      /\ t.queue[Len(s.queue) + 1] = w
      /\ \A i \in 1..Len(s.queue) : t.queue[i] = s.queue[i]
  BY <1>1, <1>2
<1>4. Queued(t) = Queued(s) \cup {w}
  <2>1. \A i \in 1..Len(t.queue) : i \in 1..Len(s.queue) \/ t.queue[i] = w
    BY <1>2, <1>3
  <2>2. 1..Len(s.queue) \subseteq 1..Len(t.queue) /\ Len(s.queue) + 1 \in 1..Len(t.queue)
    BY <1>2, <1>3
  <2> HIDE DEF t
  <2> QED
    BY <1>3, <2>1, <2>2 DEF Queued
<1>5. \A i \in 1..Len(s.queue) : s.queue[i] # w
  BY DEF Waiters, Queued
<1>6. ASSUME NEW i \in 1..Len(t.queue), NEW j \in 1..Len(t.queue), t.queue[i] = t.queue[j]
      PROVE  i = j
  <2>1. Len(s.queue) \in Nat
    BY <1>2
  <2>2. \A k \in 1..Len(t.queue) : k \in 1..Len(s.queue) \/ k = Len(s.queue) + 1
    BY <1>3, <2>1
  <2>3. CASE i \in 1..Len(s.queue) /\ j \in 1..Len(s.queue)
    BY <1>3, <1>6, <2>3 DEF Tidy
  <2>4. CASE i = Len(s.queue) + 1 \/ j = Len(s.queue) + 1
    BY <1>3, <1>5, <1>6, <2>2, <2>4
  <2> QED
    BY <2>2, <2>3, <2>4
<1>7. Tidy(t)
  BY <1>1, <1>4, <1>6 DEF Tidy, Waiters
<1>8. Prompt(t)
  BY <1>1 DEF Prompt, Locked, Semaphores
<1> QED
  BY <1>1, <1>4, <1>7, <1>8 DEF Waiters, Permits

(* Waking no more tasks than there are permits and waiters is well-formed. *)
LEMMA WakeFirstType ==
    ASSUME NEW W, NEW s \in Semaphores(W), NEW n \in Nat,
           n <= s.value, n <= Len(s.queue)
    PROVE  WakeFirst(s, n) \in Semaphores(W)
<1>1. s.value - n \in Nat
  BY DEF Semaphores
<1>2. SubSeq(s.queue, n + 1, Len(s.queue)) \in Seq(W)
  BY DEF Semaphores
<1>3. {s.queue[i] : i \in 1..n} \subseteq W
  BY DEF Semaphores
<1> QED
  BY <1>1, <1>2, <1>3 DEF WakeFirst, Semaphore, Semaphores

(* It moves the first n waiters from one part of _waiters to the other and  *)
(* a permit to each of them.                                               *)
LEMMA WakeFirstFacts ==
    ASSUME NEW W, NEW s \in Semaphores(W), Tidy(s), NEW n \in Nat,
           n <= s.value, n <= Len(s.queue)
    PROVE  LET t == WakeFirst(s, n)
           IN  /\ t.value = s.value - n
               /\ Len(t.queue) = Len(s.queue) - n
               /\ n > 0 => t.granted # {}
               /\ Tidy(t)
               /\ Permits(t) = Permits(s)
               /\ Waiters(t) = Waiters(s)
<1> DEFINE t == WakeFirst(s, n)
           woken == {s.queue[i] : i \in 1..n}
<1>1. /\ t.value = s.value - n
      /\ t.queue = SubSeq(s.queue, n + 1, Len(s.queue))
      /\ t.granted = s.granted \cup woken
  BY DEF WakeFirst, Semaphore
<1>2. s.queue \in Seq(W) /\ s.value \in Nat
  BY DEF Semaphores
<1>3. /\ Len(t.queue) = Len(s.queue) - n
      /\ \A i \in 1..Len(t.queue) : t.queue[i] = s.queue[i + n]
  BY <1>1, <1>2, SMTT(30)
<1>4. Queued(s) = Queued(t) \cup woken
  <2>1. ASSUME NEW i \in 1..Len(s.queue)
        PROVE  i \in 1..n \/ (i - n \in 1..Len(t.queue) /\ s.queue[i] = t.queue[i - n])
    <3>1. i \in 1..n \/ i - n \in 1..Len(t.queue)
      BY <1>2, <1>3
    <3>2. (i - n) + n = i
      OBVIOUS
    <3> QED
      BY <1>3, <3>1, <3>2
  <2>2. Queued(s) \subseteq Queued(t) \cup woken
    BY <2>1 DEF Queued
  <2>3. woken \subseteq Queued(s)
    BY <1>2 DEF Queued
  <2>4. Queued(t) \subseteq Queued(s)
    BY <1>2, <1>3 DEF Queued
  <2> QED
    BY <2>2, <2>3, <2>4
<1>5. Queued(t) \cap woken = {}
  <2>1. ASSUME NEW i \in 1..Len(t.queue), NEW j \in 1..n
        PROVE  t.queue[i] # s.queue[j]
    BY <1>2, <1>3, <2>1 DEF Tidy
  <2> QED
    BY <2>1 DEF Queued
<1>6. \A i, j \in 1..Len(t.queue) : t.queue[i] = t.queue[j] => i = j
  BY <1>2, <1>3 DEF Tidy
<1>7. IsFiniteSet(woken) /\ Cardinality(woken) = n
  <2> DEFINE f == [i \in 1..n |-> s.queue[i]]
  <2>1. f \in Bijection(1..n, woken)
    BY <1>2 DEF Tidy, Bijection, Injection, Surjection, IsInjective
  <2>2. ExistsBijection(1..n, woken)
    BY <2>1 DEF ExistsBijection
  <2> QED
    BY <2>2, FS_CountingElements, FS_NatBijection
<1>8. woken \cap s.granted = {}
  BY <1>4 DEF Tidy
<1>9. /\ IsFiniteSet(t.granted)
      /\ Cardinality(t.granted) = Cardinality(s.granted) + n
  <2> HIDE DEF woken
  <2>1. Cardinality(s.granted \cap woken) = 0
    BY <1>8, FS_EmptySet
  <2>2. IsFiniteSet(s.granted) /\ Cardinality(s.granted) \in Nat
    BY FS_CardinalityType DEF Tidy
  <2>3. /\ IsFiniteSet(s.granted \cup woken)
        /\ Cardinality(s.granted \cup woken) =
               Cardinality(s.granted) + Cardinality(woken) - Cardinality(s.granted \cap woken)
    BY <1>7, <2>2, FS_Union
  <2> QED
    BY <1>1, <1>7, <2>1, <2>2, <2>3
<1>10. Permits(t) = Permits(s)
  BY <1>1, <1>2, <1>9, FS_CardinalityType DEF Permits, Tidy
<1>11. n > 0 => t.granted # {}
  <2>1. n > 0 => s.queue[1] \in woken
    OBVIOUS
  <2> QED
    BY <1>1, <2>1
<1>12. Tidy(t)
  BY <1>1, <1>4, <1>5, <1>6, <1>9 DEF Tidy
<1> QED
  BY <1>1, <1>3, <1>4, <1>10, <1>11, <1>12 DEF Waiters

(* release() keeps a semaphore a semaphore. *)
LEMMA ReleaseType ==
    ASSUME NEW W, NEW s \in Semaphores(W)
    PROVE  Release(s) \in Semaphores(W)
<1> DEFINE r == Semaphore(s.value + 1, s.queue, s.granted)
<1>1. r \in Semaphores(W) /\ r.value = s.value + 1 /\ r.queue = s.queue
  BY DEF Semaphore, Semaphores
<1>2. CASE s.queue = <<>>
  BY <1>1, <1>2 DEF Release
<1>3. CASE s.queue # <<>>
  <2>1. 1 <= r.value /\ 1 <= Len(r.queue)
    BY <1>1, <1>3 DEF Semaphores
  <2>2. WakeFirst(r, 1) \in Semaphores(W)
    BY <1>1, <2>1, WakeFirstType
  <2> QED
    BY <1>3, <2>2 DEF Release
<1> QED
  BY <1>2, <1>3

(* It adds a permit, and wakes somebody if anybody queues. *)
LEMMA ReleaseFacts ==
    ASSUME NEW W, NEW s \in Semaphores(W), Tidy(s)
    PROVE  LET t == Release(s)
           IN  /\ Tidy(t) /\ Prompt(t)
               /\ Permits(t) = Permits(s) + 1
               /\ Waiters(t) = Waiters(s)
<1> DEFINE r == Semaphore(s.value + 1, s.queue, s.granted)
<1>1. /\ r \in Semaphores(W)
      /\ r.value = s.value + 1 /\ r.queue = s.queue /\ r.granted = s.granted
  BY DEF Semaphore, Semaphores
<1>2. s.value \in Nat /\ Cardinality(s.granted) \in Nat
  BY FS_CardinalityType DEF Tidy, Semaphores
<1> HIDE DEF r
<1>3. Tidy(r) /\ Permits(r) = Permits(s) + 1 /\ Waiters(r) = Waiters(s)
  BY <1>1, <1>2 DEF Tidy, Permits, Waiters, Queued
<1>4. CASE s.queue = <<>>
  <2>1. Release(s) = r
    BY <1>4 DEF Release, r
  <2>2. Prompt(r)
    BY <1>1, <1>4 DEF Prompt
  <2> QED
    BY <1>3, <2>1, <2>2
<1>5. CASE s.queue # <<>>
  <2>1. Release(s) = WakeFirst(r, 1)
    BY <1>5 DEF Release, r
  <2>2. 1 <= r.value /\ 1 <= Len(r.queue)
    BY <1>1, <1>2, <1>5 DEF Semaphores
  <2>3. LET t == WakeFirst(r, 1)
        IN  t.granted # {} /\ Tidy(t) /\ Permits(t) = Permits(r) /\ Waiters(t) = Waiters(r)
    BY <1>1, <1>3, <2>2, WakeFirstFacts
  <2> QED
    BY <1>3, <2>1, <2>3 DEF Prompt
<1> QED
  BY <1>4, <1>5

(* So does the rest of acquire() in the task that was woken. *)
LEMMA ResumeType ==
    ASSUME NEW W, NEW s \in Semaphores(W), NEW w \in W
    PROVE  Resume(s, w) \in Semaphores(W)
<1> DEFINE r == Semaphore(s.value, s.queue, s.granted \ {w})
           n == IF s.value < Len(s.queue) THEN s.value ELSE Len(s.queue)
<1>1. /\ r \in Semaphores(W)
      /\ r.value = s.value /\ r.queue = s.queue
  BY DEF Semaphore, Semaphores
<1>2. n \in Nat /\ n <= r.value /\ n <= Len(r.queue)
  BY <1>1 DEF Semaphores
<1>3. WakeFirst(r, n) \in Semaphores(W)
  BY <1>1, <1>2, WakeFirstType
<1> QED
  BY <1>3 DEF Resume

(* It takes the permit along and leaves no free one to a queue. *)
LEMMA ResumeFacts ==
    ASSUME NEW W, NEW s \in Semaphores(W), Tidy(s), NEW w \in s.granted
    PROVE  LET t == Resume(s, w)
           IN  /\ Tidy(t) /\ Prompt(t)
               /\ Permits(t) = Permits(s) - 1
               /\ Waiters(t) = Waiters(s) \ {w}
<1> DEFINE r == Semaphore(s.value, s.queue, s.granted \ {w})
           n == IF s.value < Len(s.queue) THEN s.value ELSE Len(s.queue)
           t == WakeFirst(r, n)
<1>1. /\ r \in Semaphores(W)
      /\ r.value = s.value /\ r.queue = s.queue /\ r.granted = s.granted \ {w}
  BY DEF Semaphore, Semaphores
<1>2. s.value \in Nat /\ Len(s.queue) \in Nat /\ (Len(s.queue) = 0 => s.queue = <<>>)
  BY DEF Semaphores
<1>3. n \in Nat /\ n <= r.value /\ n <= Len(r.queue)
  BY <1>1, <1>2
<1>4. /\ IsFiniteSet(r.granted)
      /\ Cardinality(r.granted) = Cardinality(s.granted) - 1
      /\ Cardinality(s.granted) \in Nat
  <2>1. IsFiniteSet(s.granted)
    BY DEF Tidy
  <2> DEFINE g == s.granted
  <2>2. r.granted = g \ {w} /\ w \in g /\ IsFiniteSet(g)
    BY <1>1, <2>1
  <2> HIDE DEF g, r
  <2>3. IsFiniteSet(g \ {w}) /\ Cardinality(g \ {w}) = Cardinality(g) - 1
    BY <2>2, FS_RemoveElement
  <2>4. Cardinality(g) \in Nat
    BY <2>2, FS_CardinalityType
  <2> QED
    BY <2>2, <2>3, <2>4 DEF g
<1> HIDE DEF r
<1>5. Tidy(r) /\ Permits(r) = Permits(s) - 1 /\ Waiters(r) = Waiters(s) \ {w}
  <2>1. Queued(r) = Queued(s)
    BY <1>1 DEF Queued
  <2>2. w \in s.granted /\ w \notin Queued(s)
    BY DEF Tidy
  <2>3. Tidy(r)
    BY <1>1, <1>4, <2>1 DEF Tidy
  <2>4. Permits(r) = Permits(s) - 1
    BY <1>1, <1>2, <1>4 DEF Permits
  <2>5. Waiters(r) = Waiters(s) \ {w}
    BY <1>1, <2>1, <2>2 DEF Waiters
  <2> QED
    BY <2>3, <2>4, <2>5
<1>6. /\ t \in Semaphores(W)
      /\ t.value = s.value - n /\ Len(t.queue) = Len(s.queue) - n
      /\ Tidy(t) /\ Permits(t) = Permits(r) /\ Waiters(t) = Waiters(r)
  <2> HIDE DEF n
  <2>1. t \in Semaphores(W)
    BY <1>1, <1>3, WakeFirstType
  <2>2. /\ t.value = r.value - n /\ Len(t.queue) = Len(r.queue) - n
        /\ Tidy(t) /\ Permits(t) = Permits(r) /\ Waiters(t) = Waiters(r)
    BY <1>1, <1>3, <1>5, WakeFirstFacts
  <2> QED
    BY <1>1, <2>1, <2>2
<1>7. t.queue = <<>> \/ t.value = 0
  <2>1. n = s.value \/ n = Len(s.queue)
    OBVIOUS
  <2> HIDE DEF n, t
  <2>2. Len(t.queue) = 0 => t.queue = <<>>
    BY <1>6 DEF Semaphores
  <2> QED
    BY <1>2, <1>6, <2>1, <2>2
<1>8. Prompt(t)
  BY <1>7 DEF Prompt
<1> QED
  BY <1>5, <1>6, <1>8 DEF Resume, r

-----------------------------------------------------------------------------
(* The spawners: the ones waiting are those in _waiters, the ones inside    *)
(* have their permit.                                                      *)
Seated(s, waiting, holding) ==
    /\ s \in Semaphores(Spawners)
    /\ Tidy(s) /\ Prompt(s)
    /\ Waiters(s) = waiting
    /\ IsFiniteSet(holding)
    /\ Permits(s) + Cardinality(holding) = MaxSpawns

IInv ==
    /\ spc \in [Spawners -> {"out", "waiting", "holding"}]
    /\ Seated(sem, Waiting, Holding)

(* With all of them outside and a new semaphore. *)
LEMMA FreshInv == Seated(NewSemaphore(MaxSpawns), {}, {})
<1>1. NewSemaphore(MaxSpawns) \in Semaphores(Spawners)
  BY MaxSpawnsAssumption, NewSemaphoreType
<1>2. LET s == NewSemaphore(MaxSpawns)
      IN  Tidy(s) /\ Prompt(s) /\ Permits(s) = MaxSpawns /\ Waiters(s) = {}
  BY MaxSpawnsAssumption, NewSemaphoreFacts
<1> QED
  BY <1>1, <1>2, MaxSpawnsAssumption, FS_EmptySet DEF Seated

(* Entering with the semaphore in state s, from outside: holding are the    *)
(* others that are inside.                                                 *)
LEMMA AcquireInv ==
    ASSUME NEW s, NEW d \in Spawners,
           NEW waiting \in SUBSET (Spawners \ {d}), NEW holding \in SUBSET (Spawners \ {d}),
           Seated(s, waiting, holding),
           IF Locked(s) THEN sem' = Enqueue(s, d) ELSE sem' = Take(s)
    PROVE  IF Locked(s) THEN Seated(sem', waiting \cup {d}, holding)
                        ELSE Seated(sem', waiting, holding \cup {d})
<1>1. Cardinality(holding) \in Nat
  BY FS_CardinalityType DEF Seated
<1>2. CASE Locked(s)
  <2>1. d \in Spawners \ Waiters(s)
    BY DEF Seated
  <2>2. sem' \in Semaphores(Spawners)
    BY <1>2, EnqueueType DEF Seated
  <2>3. /\ Tidy(sem') /\ Prompt(sem')
        /\ Permits(sem') = Permits(s)
        /\ Waiters(sem') = Waiters(s) \cup {d}
    BY <1>2, <2>1, EnqueueFacts DEF Seated
  <2> QED
    BY <1>2, <2>2, <2>3 DEF Seated
<1>3. CASE ~Locked(s)
  <2>1. sem' \in Semaphores(Spawners)
    BY <1>3, TakeType DEF Seated
  <2>2. /\ Tidy(sem') /\ Prompt(sem')
        /\ Permits(sem') = Permits(s) - 1
        /\ Waiters(sem') = Waiters(s)
    BY <1>3, TakeFacts DEF Seated
  <2>3. Permits(s) \in Nat
    BY FS_CardinalityType DEF Permits, Seated, Semaphores, Tidy
  <2>4. /\ IsFiniteSet(holding \cup {d})
        /\ Cardinality(holding \cup {d}) = Cardinality(holding) + 1
    BY FS_AddElement DEF Seated
  <2> QED
    BY <1>1, <1>3, <2>1, <2>2, <2>3, <2>4 DEF Seated
<1> QED
  BY <1>2, <1>3

(* `async with`, by a spawner that is outside once s is the semaphore.      *)
LEMMA EntersInv ==
    ASSUME NEW s, NEW d \in Spawners,
           spc \in [Spawners -> {"out", "waiting", "holding"}],
           Seated(s, Waiting \ {d}, Holding \ {d}),
           Acquire(s, d)
    PROVE  IInv'
<1>1. /\ Waiting \ {d} \in SUBSET (Spawners \ {d})
      /\ Holding \ {d} \in SUBSET (Spawners \ {d})
  BY DEF Waiting, Holding
<1>2. IF Locked(s) THEN sem' = Enqueue(s, d) ELSE sem' = Take(s)
  BY DEF Acquire
<1>3. IF Locked(s) THEN Seated(sem', (Waiting \ {d}) \cup {d}, Holding \ {d})
                   ELSE Seated(sem', Waiting \ {d}, (Holding \ {d}) \cup {d})
  BY <1>1, <1>2, AcquireInv
<1>4. spc' = [spc EXCEPT ![d] = IF Locked(s) THEN "waiting" ELSE "holding"]
  BY DEF Acquire
<1>5. spc' \in [Spawners -> {"out", "waiting", "holding"}]
  BY <1>4
<1>6. CASE Locked(s)
  <2>1. Waiting' = (Waiting \ {d}) \cup {d} /\ Holding' = Holding \ {d}
    BY <1>4, <1>6 DEF Waiting, Holding
  <2> QED
    BY <1>3, <1>5, <1>6, <2>1 DEF IInv, Seated
<1>7. CASE ~Locked(s)
  <2>1. Waiting' = Waiting \ {d} /\ Holding' = (Holding \ {d}) \cup {d}
    BY <1>4, <1>7 DEF Waiting, Holding
  <2> QED
    BY <1>3, <1>5, <1>7, <2>1 DEF IInv, Seated
<1> QED
  BY <1>6, <1>7

(* The end of `async with`, by the only spawner that s counts as neither    *)
(* waiting nor inside.                                                     *)
LEMMA LeavesInv ==
    ASSUME NEW s, NEW d \in Spawners, NEW again \in BOOLEAN,
           spc \in [Spawners -> {"out", "waiting", "holding"}],
           s \in Semaphores(Spawners), Tidy(s),
           Waiters(s) = Waiting \ {d},
           IsFiniteSet(Holding),
           Permits(s) + Cardinality(Holding \ {d}) + 1 = MaxSpawns,
           Leave(s, d, again)
    PROVE  IInv'
<1>1. Release(s) \in Semaphores(Spawners)
  BY ReleaseType
<1>2. /\ Tidy(Release(s)) /\ Prompt(Release(s))
      /\ Permits(Release(s)) = Permits(s) + 1
      /\ Waiters(Release(s)) = Waiters(s)
  BY ReleaseFacts
<1>3. IsFiniteSet(Holding \ {d}) /\ Cardinality(Holding \ {d}) \in Nat
  BY FS_RemoveElement, FS_CardinalityType
<1>4. Permits(s) \in Nat
  BY FS_CardinalityType DEF Permits, Semaphores, Tidy
<1>5. Seated(Release(s), Waiting \ {d}, Holding \ {d})
  BY <1>1, <1>2, <1>3, <1>4 DEF Seated
<1>6. CASE again
  BY <1>5, <1>6, EntersInv DEF Leave
<1>7. CASE ~again
  <2>1. sem' = Release(s) /\ spc' = [spc EXCEPT ![d] = "out"]
    BY <1>7 DEF Leave
  <2>2. /\ spc' \in [Spawners -> {"out", "waiting", "holding"}]
        /\ Waiting' = Waiting \ {d} /\ Holding' = Holding \ {d}
    BY <2>1 DEF Waiting, Holding
  <2> QED
    BY <1>5, <2>1, <2>2 DEF IInv, Seated
<1> QED
  BY <1>6, <1>7

(* A step of one spawner. *)
LEMMA SpawnerInv ==
    ASSUME IInv, NEW d \in Spawners, Enter(d) \/ Granted(d) \/ Spawned(d)
    PROVE  IInv'
<1>1. /\ spc \in [Spawners -> {"out", "waiting", "holding"}]
      /\ sem \in Semaphores(Spawners) /\ Tidy(sem) /\ Prompt(sem)
      /\ Waiters(sem) = Waiting
      /\ IsFiniteSet(Holding) /\ Cardinality(Holding) \in Nat
      /\ Permits(sem) + Cardinality(Holding) = MaxSpawns
  BY FS_CardinalityType DEF IInv, Seated
<1>2. Permits(sem) \in Nat
  BY <1>1, FS_CardinalityType DEF Permits, Semaphores, Tidy
<1>3. CASE Enter(d)
  <2>1. Waiting \ {d} = Waiting /\ Holding \ {d} = Holding
    BY <1>3 DEF Enter, Waiting, Holding
  <2> QED
    BY <1>1, <1>3, <2>1, EntersInv DEF Enter, IInv
<1>4. CASE Spawned(d)
  <2>1. PICK again \in BOOLEAN : Leave(sem, d, again)
    BY <1>4 DEF Spawned
  <2>2. d \in Holding /\ Waiting \ {d} = Waiting
    BY <1>4 DEF Spawned, Waiting, Holding
  <2>3. Cardinality(Holding \ {d}) = Cardinality(Holding) - 1
    BY <1>1, <2>2, FS_RemoveElement
  <2>4. Permits(sem) + Cardinality(Holding \ {d}) + 1 = MaxSpawns
    BY <1>1, <1>2, <2>3
  <2> QED
    BY <1>1, <2>1, <2>2, <2>4, LeavesInv
<1>5. CASE Granted(d)
  <2> DEFINE s == Resume(sem, d)
  <2>1. d \in sem.granted /\ d \in Waiting /\ d \notin Holding /\ Holding \ {d} = Holding
    BY <1>5 DEF Granted, Waiting, Holding
  <2>2. s \in Semaphores(Spawners)
    BY <1>1, ResumeType
  <2>3. /\ Tidy(s) /\ Prompt(s)
        /\ Permits(s) = Permits(sem) - 1
        /\ Waiters(s) = Waiting \ {d}
    BY <1>1, <2>1, ResumeFacts
  <2> HIDE DEF s
  <2>4. CASE sem' = s /\ spc' = [spc EXCEPT ![d] = "holding"]
    <3>1. /\ spc' \in [Spawners -> {"out", "waiting", "holding"}]
          /\ Waiting' = Waiting \ {d} /\ Holding' = Holding \cup {d}
      BY <1>1, <2>4 DEF Waiting, Holding
    <3>2. /\ IsFiniteSet(Holding \cup {d})
          /\ Cardinality(Holding \cup {d}) = Cardinality(Holding) + 1
      BY <1>1, <2>1, FS_AddElement
    <3>3. Seated(s, Waiting \ {d}, Holding \cup {d})
      BY <1>1, <1>2, <2>2, <2>3, <3>2 DEF Seated
    <3> QED
      BY <2>4, <3>1, <3>3 DEF IInv, Seated
  <2>5. ASSUME NEW again \in BOOLEAN, Leave(s, d, again)
        PROVE  IInv'
    <3>1. Permits(s) + Cardinality(Holding \ {d}) + 1 = MaxSpawns
      <4>1. Cardinality(Holding \ {d}) = Cardinality(Holding)
        BY <2>1
      <4> QED
        BY <1>1, <1>2, <2>3, <4>1
    <3> QED
      BY <1>1, <2>2, <2>3, <2>5, <3>1, LeavesInv
  <2> QED
    BY <1>5, <2>4, <2>5 DEF Granted, s
<1> QED
  BY <1>3, <1>4, <1>5

LEMMA NextInv == IInv /\ [Next]_gate => IInv'
<1> SUFFICES ASSUME IInv, [Next]_gate PROVE IInv'
  OBVIOUS
<1>1. CASE Restarted
  <2>1. /\ spc' \in [Spawners -> {"out", "waiting", "holding"}]
        /\ Waiting' = {} /\ Holding' = {}
    BY <1>1 DEF Restarted, Waiting, Holding
  <2> QED
    BY <1>1, <2>1, FreshInv DEF Restarted, IInv, Seated
<1>2. CASE UNCHANGED gate
  BY <1>2 DEF gate, IInv, Waiting, Holding
<1> QED
  BY <1>1, <1>2, SpawnerInv DEF Next

(* Every reachable state is seated. *)
THEOREM InvariantHolds == Spec => []IInv
<1>1. Init => IInv
  <2> SUFFICES ASSUME Init PROVE IInv
    OBVIOUS
  <2>1. /\ spc \in [Spawners -> {"out", "waiting", "holding"}]
        /\ Waiting = {} /\ Holding = {}
    BY DEF Init, Waiting, Holding
  <2> QED
    BY <2>1, FreshInv DEF Init, IInv
<1> QED
  BY <1>1, NextInv, PTL DEF Spec

(* No permit of the spawn semaphore is lost or minted, and what is in the   *)
(* counter, given away and in use adds up to max_concurrent_listener_spawns *)
(* (app.run line 192).                                                     *)
THEOREM PermitsAddUp == Spec => []PermitsConserved
<1>1. IInv => PermitsConserved
  <2> SUFFICES ASSUME IInv PROVE PermitsConserved
    OBVIOUS
  <2> QED
    BY DEF IInv, Seated, Permits, PermitsConserved
<1> QED
  BY <1>1, InvariantHolds, PTL

(* No more spawners are inside at once than there are permits *)
Capped == Cardinality(Holding) <= MaxSpawns

LEMMA InsideIsCapped == Spec => []Capped
<1>1. IInv => Capped
  <2> SUFFICES ASSUME IInv PROVE Capped
    OBVIOUS
  <2>1. /\ IsFiniteSet(Holding) /\ IsFiniteSet(sem.granted) /\ sem.value \in Nat
        /\ sem.value + Cardinality(sem.granted) + Cardinality(Holding) = MaxSpawns
    BY DEF IInv, Seated, Tidy, Permits, Semaphores
  <2>2. Cardinality(Holding) \in Nat /\ Cardinality(sem.granted) \in Nat
    BY <2>1, FS_CardinalityType
  <2> QED
    BY <2>1, <2>2, MaxSpawnsAssumption DEF Capped
<1> QED
  BY <1>1, InvariantHolds, PTL

(* Nobody who waits in spawn() is forgotten by the semaphore, or is in it    *)
(* twice, and no permit lies idle with nobody woken while somebody queues.  *)
THEOREM WaitersAreKept == Spec => []NoLostWakeup
<1>1. IInv => NoLostWakeup
  BY DEF IInv, Seated, Tidy, Prompt, Waiters, Queued, NoLostWakeup
<1> QED
  BY <1>1, InvariantHolds, PTL
-----------------------------------------------------------------------------
(* The order in which waiters are served.                                  *)

(* From s to t the first n of the queue have been woken, and nobody else    *)
Serves(s, t, n) ==
    /\ n \in 0..Len(s.queue)
    /\ {s.queue[i] : i \in 1..n} \subseteq t.granted
    /\ t.granted \subseteq s.granted \cup {s.queue[i] : i \in 1..n}
    /\ Len(t.queue) = Len(s.queue) - n
    /\ \A i \in 1..Len(t.queue) : t.queue[i] = s.queue[i + n]

InOrder(s, t) ==
    \A i, j \in 1..Len(s.queue) :
        i < j /\ s.queue[j] \in t.granted => s.queue[i] \in t.granted

(* Waking the first n. *)
LEMMA WakeFirstServes ==
    ASSUME NEW W, NEW s \in Semaphores(W), NEW n \in Nat, n <= Len(s.queue)
    PROVE  Serves(s, WakeFirst(s, n), n) /\ s.granted \subseteq WakeFirst(s, n).granted
<1> DEFINE t == WakeFirst(s, n)
           q == s.queue
<1>1. /\ t.queue = SubSeq(q, n + 1, Len(q))
      /\ t.granted = s.granted \cup {q[i] : i \in 1..n}
  BY DEF WakeFirst, Semaphore
<1>2. q \in Seq(W) /\ Len(q) \in Nat
  BY DEF Semaphores
<1>3. n <= Len(q)
  OBVIOUS
<1> HIDE DEF t, q
<1>4. Len(t.queue) = Len(q) - n /\ \A i \in 1..Len(t.queue) : t.queue[i] = q[i + n]
  BY <1>1, <1>2, <1>3, SMTT(30)
<1> QED
  BY <1>1, <1>2, <1>3, <1>4 DEF Serves, t, q

(* Two such steps in a row, the second of which lets nobody go. *)
LEMMA ServesTwice ==
    ASSUME NEW W, NEW s \in Semaphores(W), NEW t, NEW u, NEW n, NEW m,
           Serves(s, t, n), Serves(t, u, m), t.granted \subseteq u.granted
    PROVE  Serves(s, u, n + m)
<1> DEFINE q == s.queue
<1>1. Len(q) \in Nat
  BY DEF Semaphores
<1>2. /\ n \in 0..Len(q) /\ m \in 0..(Len(q) - n)
      /\ Len(t.queue) = Len(q) - n /\ Len(u.queue) = Len(q) - (n + m)
  BY <1>1 DEF Serves
<1>3. n + m \in 0..Len(q)
  BY <1>1, <1>2
<1>4. \A i \in 1..m : t.queue[i] = q[i + n]
  BY <1>1, <1>2 DEF Serves
<1>5. \A i \in 1..(n + m) : i \in 1..n \/ (i - n \in 1..m /\ (i - n) + n = i)
  BY <1>1, <1>2
<1>6. {q[i] : i \in 1..(n + m)} \subseteq u.granted
  <2> SUFFICES ASSUME NEW i \in 1..(n + m) PROVE q[i] \in u.granted
    OBVIOUS
  <2>1. CASE i \in 1..n
    BY <2>1 DEF Serves
  <2>2. CASE i - n \in 1..m /\ (i - n) + n = i
    <3>1. t.queue[i - n] = q[i] /\ t.queue[i - n] \in u.granted
      BY <1>4, <2>2 DEF Serves
    <3> QED
      BY <3>1
  <2> QED
    BY <1>5, <2>1, <2>2
<1>7. u.granted \subseteq s.granted \cup {q[i] : i \in 1..(n + m)}
  <2>1. ASSUME NEW w \in t.granted PROVE w \in s.granted \cup {q[i] : i \in 1..(n + m)}
    <3>1. 1..n \subseteq 1..(n + m)
      BY <1>1, <1>2
    <3> QED
      BY <3>1 DEF Serves
  <2>2. ASSUME NEW i \in 1..m PROVE t.queue[i] \in {q[k] : k \in 1..(n + m)}
    <3>1. i + n \in 1..(n + m)
      BY <1>1, <1>2
    <3> QED
      BY <1>4, <3>1
  <2>3. u.granted \subseteq t.granted \cup {t.queue[i] : i \in 1..m}
    BY DEF Serves
  <2> QED
    BY <2>1, <2>2, <2>3, Zenon
<1>8. \A i \in 1..Len(u.queue) : u.queue[i] = q[i + (n + m)]
  <2> SUFFICES ASSUME NEW i \in 1..Len(u.queue) PROVE u.queue[i] = q[i + (n + m)]
    OBVIOUS
  <2>1. i + m \in 1..Len(t.queue) /\ (i + m) + n = i + (n + m)
    BY <1>1, <1>2
  <2>2. u.queue[i] = t.queue[i + m] /\ t.queue[i + m] = q[(i + m) + n]
    BY <2>1 DEF Serves
  <2> QED
    BY <2>1, <2>2
<1> QED
  BY <1>2, <1>3, <1>6, <1>7, <1>8 DEF Serves

(* A release wakes the first of the queue, if there is one. *)
LEMMA ReleaseServes ==
    ASSUME NEW W, NEW s \in Semaphores(W)
    PROVE  \E n : Serves(s, Release(s), n) /\ s.granted \subseteq Release(s).granted
<1> DEFINE r == Semaphore(s.value + 1, s.queue, s.granted)
<1>1. r \in Semaphores(W) /\ r.queue = s.queue /\ r.granted = s.granted
  BY DEF Semaphore, Semaphores
<1>2. s.queue \in Seq(W) /\ Len(s.queue) \in Nat /\ (s.queue # <<>> => 1 <= Len(s.queue))
  BY DEF Semaphores
<1>3. CASE s.queue = <<>>
  <2>1. Release(s) = r
    BY <1>3 DEF Release
  <2> HIDE DEF r
  <2>2. Serves(s, r, 0)
    BY <1>1, <1>2 DEF Serves
  <2> QED
    BY <1>1, <2>1, <2>2
<1>4. CASE s.queue # <<>>
  <2>1. Release(s) = WakeFirst(r, 1)
    BY <1>4 DEF Release
  <2> HIDE DEF r
  <2>2. Serves(r, WakeFirst(r, 1), 1) /\ r.granted \subseteq WakeFirst(r, 1).granted
    BY <1>1, <1>2, <1>4, WakeFirstServes
  <2>3. Serves(s, WakeFirst(r, 1), 1)
    BY <1>1, <2>2 DEF Serves
  <2> QED
    BY <1>1, <2>1, <2>2, <2>3
<1> QED
  BY <1>3, <1>4

(* A woken task that resumes wakes the first ones of the queue. *)
LEMMA ResumeServes ==
    ASSUME NEW W, NEW s \in Semaphores(W), NEW w \in s.granted
    PROVE  \E n : Serves(s, Resume(s, w), n)
<1> DEFINE r == Semaphore(s.value, s.queue, s.granted \ {w})
           n == IF s.value < Len(s.queue) THEN s.value ELSE Len(s.queue)
<1>1. /\ r \in Semaphores(W) /\ r.queue = s.queue
      /\ r.granted \subseteq s.granted
  BY DEF Semaphore, Semaphores
<1>2. n \in Nat /\ n <= Len(s.queue)
  BY DEF Semaphores
<1>3. Resume(s, w) = WakeFirst(r, n)
  BY DEF Resume
<1> HIDE DEF r, n
<1>4. Serves(r, WakeFirst(r, n), n)
  BY <1>1, <1>2, WakeFirstServes
<1>5. Serves(s, WakeFirst(r, n), n)
  BY <1>1, <1>4 DEF Serves
<1> QED
  BY <1>3, <1>5

(* Whoever is served so is served in the order of the queue. *)
LEMMA ServedInOrder ==
    ASSUME NEW W, NEW s \in Semaphores(W), Tidy(s), NEW t, NEW n, Serves(s, t, n)
    PROVE  InOrder(s, t)
<1> SUFFICES ASSUME NEW i \in 1..Len(s.queue), NEW j \in 1..Len(s.queue),
                    i < j, s.queue[j] \in t.granted
             PROVE  s.queue[i] \in t.granted
  BY DEF InOrder
<1>1. s.queue[j] \notin s.granted
  BY DEF Tidy, Queued
<1>2. PICK k \in 1..n : s.queue[j] = s.queue[k]
  BY <1>1 DEF Serves
<1>3. k \in 1..Len(s.queue) /\ n \in Nat
  BY DEF Serves, Semaphores
<1>4. j = k
  BY <1>2, <1>3 DEF Tidy
<1>5. i \in 1..n
  BY <1>3, <1>4
<1> QED
  BY <1>5 DEF Serves

(* Entering and leaving the section wake nobody out of order. *)
LEMMA AcquireInOrder ==
    ASSUME NEW s, NEW d, Acquire(s, d)
    PROVE  sem'.granted = s.granted
BY DEF Acquire, Enqueue, Take, Semaphore

LEMMA LeaveInOrder ==
    ASSUME sem \in Semaphores(Spawners), Tidy(sem),
           NEW s \in Semaphores(Spawners), NEW n, Serves(sem, s, n),
           NEW d, NEW again \in BOOLEAN, Leave(s, d, again)
    PROVE  InOrder(sem, sem')
<1>1. PICK m : Serves(s, Release(s), m) /\ s.granted \subseteq Release(s).granted
  BY ReleaseServes
<1>2. Serves(sem, Release(s), n + m)
  BY <1>1, ServesTwice
<1>3. InOrder(sem, Release(s))
  BY <1>2, ServedInOrder
<1>4. sem'.granted = Release(s).granted
  BY AcquireInOrder DEF Leave
<1> QED
  BY <1>3, <1>4 DEF InOrder

(* While somebody is in _waiters the semaphore is locked to the others, and *)
(* it still is when a permit has been put back.                            *)
LEMMA WaitersLock ==
    ASSUME NEW W, NEW s \in Semaphores(W), Waiters(s) # {}
    PROVE  Locked(s) /\ Locked(Release(s))
<1>1. s.queue # <<>> \/ s.granted # {}
  <2>1. s.queue = <<>> => Queued(s) = {}
    BY DEF Queued
  <2> QED
    BY <2>1 DEF Waiters
<1>2. CASE s.queue = <<>>
  BY <1>1, <1>2 DEF Release, Locked, Semaphore
<1>3. CASE s.queue # <<>>
  <2> DEFINE r == Semaphore(s.value + 1, s.queue, s.granted)
  <2>1. Release(s) = WakeFirst(r, 1) /\ r.queue = s.queue
    BY <1>3 DEF Release, Semaphore
  <2>2. WakeFirst(r, 1).granted = r.granted \cup {r.queue[i] : i \in 1..1}
    BY DEF WakeFirst, Semaphore
  <2>3. 1 \in 1..1
    OBVIOUS
  <2> HIDE DEF r
  <2>4. Release(s).granted # {}
    BY <2>1, <2>2, <2>3
  <2> QED
    BY <1>3, <2>4 DEF Locked
<1> QED
  BY <1>2, <1>3

(* Whoever gives its permit back while somebody waits is not inside after   *)
(* that step, even if it has another container to spawn.                   *)
LEMMA SpawnedLetsGo ==
    ASSUME IInv, Waiting # {}, NEW e \in Spawners, Spawned(e)
    PROVE  e \notin Holding'
<1>1. sem \in Semaphores(Spawners) /\ Waiters(sem) # {}
  BY DEF IInv, Seated
<1>2. Locked(Release(sem))
  BY <1>1, WaitersLock
<1>3. spc \in [Spawners -> {"out", "waiting", "holding"}]
  BY DEF IInv
<1>4. PICK again \in BOOLEAN : Leave(sem, e, again)
  BY DEF Spawned
<1>5. spc' = [spc EXCEPT ![e] = "waiting"] \/ spc' = [spc EXCEPT ![e] = "out"]
  BY <1>2, <1>4 DEF Leave, Acquire
<1> QED
  BY <1>3, <1>5 DEF Holding

(* A spawner's step, with the one step that can let somebody in given.      *)
LEMMA StepInTurn ==
    ASSUME IInv, NEW d \in Spawners, Enter(d) \/ Granted(d) \/ Spawned(d)
    PROVE  /\ InOrder(sem, sem')
           /\ Waiting # {} => Holding' \subseteq Holding \cup sem.granted
<1>1. /\ sem \in Semaphores(Spawners) /\ Tidy(sem)
      /\ Waiters(sem) = Waiting
      /\ spc \in [Spawners -> {"out", "waiting", "holding"}]
  BY DEF IInv, Seated
<1>2. ASSUME NEW s, NEW again \in BOOLEAN, Leave(s, d, again) \/ Acquire(s, d)
      PROVE  \E v : spc' = [spc EXCEPT ![d] = v]
  BY <1>2 DEF Leave, Acquire
<1>3. CASE Enter(d)
  <2>1. Acquire(sem, d)
    BY <1>3 DEF Enter
  <2>2. InOrder(sem, sem')
    BY <1>1, <2>1, AcquireInOrder DEF InOrder, Tidy, Queued
  <2>3. Waiting # {} => spc' = [spc EXCEPT ![d] = "waiting"]
    BY <1>1, <2>1, WaitersLock DEF Acquire
  <2> QED
    BY <1>1, <2>2, <2>3 DEF Holding
<1>4. CASE Granted(d)
  <2>1. d \in sem.granted
    BY <1>4 DEF Granted
  <2> DEFINE s == Resume(sem, d)
  <2>2. s \in Semaphores(Spawners)
    BY <1>1, ResumeType
  <2>3. PICK n : Serves(sem, s, n)
    BY <1>1, <2>1, ResumeServes
  <2>4. \/ sem' = s /\ spc' = [spc EXCEPT ![d] = "holding"]
        \/ \E again \in BOOLEAN : Leave(s, d, again)
    BY <1>4 DEF Granted
  <2> HIDE DEF s
  <2>5. InOrder(sem, sem')
    BY <1>1, <2>2, <2>3, <2>4, ServedInOrder, LeaveInOrder
  <2>6. \E v : spc' = [spc EXCEPT ![d] = v]
    BY <1>2, <2>4
  <2> QED
    BY <1>1, <2>1, <2>5, <2>6 DEF Holding
<1>5. CASE Spawned(d)
  <2>1. d \in Holding
    BY <1>5 DEF Spawned, Holding
  <2>2. PICK again \in BOOLEAN : Leave(sem, d, again)
    BY <1>5 DEF Spawned
  <2>3. Serves(sem, sem, 0)
    BY <1>1 DEF Serves, Semaphores
  <2>4. InOrder(sem, sem')
    BY <1>1, <2>2, <2>3, LeaveInOrder
  <2>5. \E v : spc' = [spc EXCEPT ![d] = v]
    BY <1>2, <2>2
  <2> QED
    BY <1>1, <2>1, <2>4, <2>5 DEF Holding
<1> QED
  BY <1>3, <1>4, <1>5

(* The spawn semaphore is first come, first served: a burst of spawns of    *)
(* one daemon queues up behind the spawns of the others, one at a time      *)
(* (app.py lines 5-8 and 62-85).                                           *)
THEOREM SpawnsAreServedInTurn == Spec => FirstComeFirstServed
<1> DEFINE Turn == /\ InOrder(sem, sem')
                   /\ Waiting # {} =>
                        \A e \in Holding' : e \in sem.granted \/ (e \in Holding /\ ~ Spawned(e))
<1>1. ASSUME IInv, [Next]_gate PROVE Turn \/ UNCHANGED gate
  <2>1. CASE \E d \in Spawners : Enter(d) \/ Granted(d) \/ Spawned(d)
    <3>1. InOrder(sem, sem') /\ (Waiting # {} => Holding' \subseteq Holding \cup sem.granted)
      BY <1>1, <2>1, StepInTurn
    <3>2. Waiting # {} => \A e \in Holding' : e \in Spawners /\ ~ Spawned(e)
      BY <1>1, SpawnedLetsGo DEF Holding
    <3> QED
      BY <3>1, <3>2
  <2>2. CASE Restarted
    <3>1. sem'.granted = {} /\ Holding' = {}
      BY <2>2 DEF Restarted, NewSemaphore, Semaphore, Holding
    <3> QED
      BY <3>1 DEF InOrder
  <2> QED
    BY <1>1, <2>1, <2>2 DEF Next
<1>2. IInv /\ [Next]_gate =>
         [/\ \A i, j \in 1..Len(sem.queue) :
                 i < j /\ sem.queue[j] \in sem'.granted => sem.queue[i] \in sem'.granted
          /\ Waiting # {} =>
                 \A d \in Holding' : d \in sem.granted \/ (d \in Holding /\ ~ Spawned(d))]_gate
  BY <1>1 DEF InOrder
<1> QED
  BY <1>2, InvariantHolds, PTL DEF Spec, FirstComeFirstServed
=============================================================================
