---------------------------- MODULE IngestProofs ----------------------------
(***************************************************************************)
(* Proofs about Ingest, for every set of streams and every batch size, and *)
(* for any number of records and faults.                                   *)
(***************************************************************************)
EXTENDS Ingest, SequenceTheorems, FiniteSetTheorems, TLAPS

-----------------------------------------------------------------------------
(* Sequences.                                                              *)

(* An element appended to the second part is appended to the whole. *)
LEMMA AppendToSecond ==
    ASSUME NEW S, NEW s \in Seq(S), NEW t \in Seq(S), NEW e \in S
    PROVE  s \o Append(t, e) = Append(s \o t, e)
<1>1. <<e>> \in Seq(S) /\ s \o t \in Seq(S)
  BY ConcatProperties
<1>2. Append(t, e) = t \o <<e>> /\ Append(s \o t, e) = (s \o t) \o <<e>>
  BY <1>1, AppendIsConcat
<1> QED
  BY <1>1, <1>2, ConcatAssociative

(* The first element of a sequence is the first of what it begins. *)
LEMMA HeadOfFirst ==
    ASSUME NEW S, NEW s \in Seq(S), NEW t \in Seq(S), s # <<>>
    PROVE  Head(s \o t) = Head(s) /\ Tail(s \o t) = Tail(s) \o t
<1>1. /\ s \o t \in Seq(S) /\ Len(s \o t) = Len(s) + Len(t)
      /\ \A i \in 1..Len(s) + Len(t) : (s \o t)[i] = IF i <= Len(s) THEN s[i] ELSE t[i - Len(s)]
      /\ Len(s) \in Nat \ {0} /\ Len(t) \in Nat
  BY ConcatProperties, EmptySeq, LenProperties
<1>2. s \o t # <<>>
  BY <1>1
<1>3. Head(s \o t) = Head(s)
  BY <1>1
<1>4. /\ Tail(s) \in Seq(S) /\ Len(Tail(s)) = Len(s) - 1
      /\ \A i \in 1..Len(Tail(s)) : Tail(s)[i] = s[i + 1]
  BY HeadTailProperties
<1>5. /\ Tail(s \o t) \in Seq(S) /\ Len(Tail(s \o t)) = Len(s) + Len(t) - 1
      /\ \A i \in 1..Len(Tail(s \o t)) : Tail(s \o t)[i] = (s \o t)[i + 1]
  BY <1>1, <1>2, HeadTailProperties
<1>6. /\ Tail(s) \o t \in Seq(S) /\ Len(Tail(s) \o t) = Len(Tail(s)) + Len(t)
      /\ \A i \in 1..Len(Tail(s)) + Len(t) :
            (Tail(s) \o t)[i] = IF i <= Len(Tail(s)) THEN Tail(s)[i] ELSE t[i - Len(Tail(s))]
  BY <1>4, ConcatProperties
<1>7. \A i \in 1..Len(Tail(s \o t)) : Tail(s \o t)[i] = (Tail(s) \o t)[i]
  BY <1>1, <1>4, <1>5, <1>6
<1>8. Len(Tail(s \o t)) = Len(Tail(s) \o t)
  BY <1>1, <1>4, <1>5, <1>6
<1>9. Tail(s \o t) = Tail(s) \o t
  BY <1>5, <1>6, <1>7, <1>8, SeqEqual
<1> QED
  BY <1>3, <1>9

(* A sequence is its head and its tail. *)
LEMMA HeadAndTail ==
    ASSUME NEW S, NEW t \in Seq(S), t # <<>>
    PROVE  <<Head(t)>> \o Tail(t) = t
<1>1. Len(t) \in Nat \ {0}
  BY EmptySeq
<1>2. SubSeq(t, 1, Len(t)) = <<t[1]>> \o SubSeq(t, 2, Len(t))
  BY <1>1, SubSeqRecursiveFirst
<1> QED
  BY <1>1, <1>2, SubSeqFull, TailIsSubSeq

(* The first element of the second part goes to the end of the first.      *)
LEMMA HeadMovesOver ==
    ASSUME NEW S, NEW s \in Seq(S), NEW t \in Seq(S), t # <<>>
    PROVE  Append(s, Head(t)) \o Tail(t) = s \o t
<1>1. Head(t) \in S /\ Tail(t) \in Seq(S)
  BY HeadTailProperties
<1>2. <<Head(t)>> \in Seq(S) /\ Append(s, Head(t)) = s \o <<Head(t)>>
  BY <1>1, AppendIsConcat
<1>3. (s \o <<Head(t)>>) \o Tail(t) = s \o (<<Head(t)>> \o Tail(t))
  BY <1>1, <1>2, ConcatAssociative
<1> QED
  BY <1>2, <1>3, HeadAndTail

(* What comes after the first part and n elements of the second. *)
LEMMA DropFromSecond ==
    ASSUME NEW S, NEW s \in Seq(S), NEW t \in Seq(S), NEW n \in 0..Len(t)
    PROVE  SubSeq(s \o t, Len(s) + n + 1, Len(s \o t)) = SubSeq(t, n + 1, Len(t))
<1>1. Len(s \o t) = Len(s) + Len(t) /\ Len(s) \in Nat /\ Len(t) \in Nat
  BY ConcatProperties, LenProperties
<1>2. CASE n = Len(t)
  BY <1>1, <1>2, SubSeqEmpty
<1>3. CASE n # Len(t)
  <2>1. /\ Len(s) + n + 1 \in Len(s) + 1..Len(s) + Len(t)
        /\ Len(s) + Len(t) \in Len(s) + 1..Len(s) + Len(t)
        /\ Len(s) + n + 1 - Len(s) = n + 1 /\ Len(s) + Len(t) - Len(s) = Len(t)
    BY <1>1, <1>3
  <2> QED
    BY <1>1, <2>1, SubSeqOfConcat2
<1> QED
  BY <1>2, <1>3

(* Two halves are the whole. *)
LEMMA SplitAt ==
    ASSUME NEW S, NEW t \in Seq(S), NEW n \in 0..Len(t)
    PROVE  /\ SubSeq(t, 1, n) \in Seq(S) /\ Len(SubSeq(t, 1, n)) = n
           /\ SubSeq(t, n + 1, Len(t)) \in Seq(S)
           /\ SubSeq(t, 1, n) \o SubSeq(t, n + 1, Len(t)) = t
<1>1. Len(t) \in Nat /\ \A i \in 1..Len(t) : t[i] \in S
  BY LenProperties, ElementOfSeq
<1>2. SubSeq(t, 1, n) \in Seq(S) /\ Len(SubSeq(t, 1, n)) = n
  BY <1>1, SubSeqProperties
<1>3. SubSeq(t, n + 1, Len(t)) \in Seq(S)
  BY <1>1, SubSeqProperties
<1>4. SubSeq(t, 1, n) \o SubSeq(t, n + 1, Len(t)) = SubSeq(t, 1, Len(t))
  <2>1. 1 \in 1..Len(t) + 1 /\ n \in 1 - 1..Len(t) /\ Len(t) \in n..Len(t)
    BY <1>1
  <2> QED
    BY <2>1, ConcatAdjacentSubSeq
<1> QED
  BY <1>2, <1>3, <1>4, SubSeqFull

(* The first element of the second part is taken out of the whole. *)
LEMMA RemoveFromSecond ==
    ASSUME NEW S, NEW s \in Seq(S), NEW t \in Seq(S), t # <<>>
    PROVE  RemoveAt(s \o t, Len(s) + 1) = s \o Tail(t)
<1>1. Len(s) \in Nat /\ Len(t) \in Nat \ {0} /\ Len(s \o t) = Len(s) + Len(t)
  BY ConcatProperties, LenProperties, EmptySeq
<1>2. SubSeq(s \o t, 1, Len(s)) = s
  <2>1. CASE Len(s) = 0
    <3>1. s = <<>>
      BY <2>1, EmptySeq
    <3> QED
      BY <2>1, <3>1, SubSeqEmpty
  <2>2. CASE Len(s) # 0
    BY <1>1, <2>2, SubSeqOfConcat1, SubSeqFull
  <2> QED
    BY <2>1, <2>2
<1>3. SubSeq(s \o t, Len(s) + 1 + 1, Len(s \o t)) = SubSeq(t, 1 + 1, Len(t))
  BY <1>1, DropFromSecond
<1>4. Tail(t) = SubSeq(t, 2, Len(t))
  BY TailIsSubSeq
<1>5. (Len(s) + 1) - 1 = Len(s) /\ Len(s) + 1 + 1 = Len(s) + 2 /\ 1 + 1 = 2
  BY <1>1
<1>6. RemoveAt(s \o t, Len(s) + 1)
          = SubSeq(s \o t, 1, Len(s)) \o SubSeq(s \o t, Len(s) + 2, Len(s \o t))
  <2>1. RemoveAt(s \o t, Len(s) + 1) = SubSeq(s \o t, 1, (Len(s) + 1) - 1)
                                          \o SubSeq(s \o t, Len(s) + 1 + 1, Len(s \o t))
    BY DEF RemoveAt
  <2> QED
    BY <1>5, <2>1
<1> QED
  BY <1>2, <1>3, <1>4, <1>5, <1>6

(* What is left of a sequence without one element. *)
LEMMA RemoveAtProperties ==
    ASSUME NEW S, NEW t \in Seq(S), NEW k \in 1..Len(t)
    PROVE  /\ RemoveAt(t, k) \in Seq(S) /\ Len(RemoveAt(t, k)) = Len(t) - 1
           /\ \A i \in 1..Len(t) - 1 : RemoveAt(t, k)[i] = IF i < k THEN t[i] ELSE t[i + 1]
<1> DEFINE a == SubSeq(t, 1, k - 1)
           b == SubSeq(t, k + 1, Len(t))
<1>1. Len(t) \in Nat /\ \A i \in 1..Len(t) : t[i] \in S
  BY LenProperties, ElementOfSeq
<1>2. a \in Seq(S) /\ Len(a) = k - 1 /\ \A i \in 1..k - 1 : a[i] = t[i]
  BY <1>1, SubSeqProperties
<1>3. b \in Seq(S) /\ Len(b) = Len(t) - k /\ \A i \in 1..Len(t) - k : b[i] = t[i + k]
  BY <1>1, SubSeqProperties
<1>4. RemoveAt(t, k) = a \o b
  BY DEF RemoveAt
<1> HIDE DEF a, b
<1>5. /\ a \o b \in Seq(S) /\ Len(a \o b) = Len(a) + Len(b)
      /\ \A i \in 1..Len(a) + Len(b) : (a \o b)[i] = IF i <= Len(a) THEN a[i] ELSE b[i - Len(a)]
  BY <1>2, <1>3, ConcatProperties
<1>6. ASSUME NEW i \in 1..Len(t) - 1
      PROVE  (a \o b)[i] = IF i < k THEN t[i] ELSE t[i + 1]
  <2>1. i \in 1..Len(a) + Len(b) /\ i \in Nat /\ k \in Nat
    BY <1>1, <1>2, <1>3
  <2>2. CASE i < k
    <3>1. i <= Len(a) /\ i \in 1..k - 1
      BY <1>2, <2>1, <2>2
    <3> QED
      BY <1>2, <1>5, <2>1, <2>2, <3>1
  <2>3. CASE ~(i < k)
    <3>1. ~(i <= Len(a)) /\ i - Len(a) \in 1..Len(t) - k /\ i - Len(a) + k = i + 1
      BY <1>1, <1>2, <2>1, <2>3
    <3> QED
      BY <1>3, <1>5, <2>1, <2>3, <3>1
  <2> QED
    BY <2>2, <2>3
<1> QED
  BY <1>1, <1>2, <1>3, <1>4, <1>5, <1>6

(* The elements of a sequence, by their positions *)
LEMMA Elements ==
    ASSUME NEW S, NEW seq \in Seq(S)
    PROVE  \A n : n \in ToSet(seq) <=> \E i \in 1..Len(seq) : seq[i] = n
<1>1. DOMAIN seq = 1..Len(seq)
  BY LenProperties
<1> QED
  BY <1>1 DEF ToSet

-----------------------------------------------------------------------------
(* The consumer.                                                           *)

Arrived == 1..Len(sent)

(* What the consumer has in hand at each await of its cycle; only valid      *)
(* records are written.                                                    *)
ConsumerInv ==
    /\ inbox \in Seq(Arrived) /\ batch \in Seq(Arrived) /\ queued \in Seq(Arrived)
    /\ cpc \in {"polling", "backoff", "down"} => batch = <<>> /\ queued = <<>>
    /\ cpc = "draining" => queued = <<>> /\ Len(batch) = 1
    /\ cpc = "writing" => batch = <<>>
    /\ \A i \in 1..Len(queued) : sent[queued[i]] \in Streams

Hands == TypeOK /\ ConsumerInv

(* LPOP with a count takes what there is, that many entries at most. *)
LEMMA PoppedProperties ==
    ASSUME Hands, NEW count \in Nat
    PROVE  /\ Popped(count) \in 0..Len(inbox) /\ Popped(count) <= count
           /\ SubSeq(inbox, 1, Popped(count)) \in Seq(Arrived)
           /\ Len(SubSeq(inbox, 1, Popped(count))) = Popped(count)
           /\ Rest(count) \in Seq(Arrived)
           /\ SubSeq(inbox, 1, Popped(count)) \o Rest(count) = inbox
<1>1. inbox \in Seq(Arrived) /\ Len(inbox) \in Nat
  BY LenProperties DEF Hands, ConsumerInv
<1>2. Popped(count) \in 0..Len(inbox) /\ Popped(count) <= count
  BY <1>1 DEF Popped
<1> QED
  BY <1>1, <1>2, SplitAt DEF Rest

(* A record that arrives changes nothing for those that are there. *)
LEMMA PushKeepsHands ==
    ASSUME Hands, NEW to \in Streams \cup {Malformed}, Push(to)
    PROVE  Hands'
<1>1. /\ sent \in Seq(Streams \cup {Malformed})
      /\ inbox \in Seq(Arrived) /\ batch \in Seq(Arrived) /\ queued \in Seq(Arrived)
      /\ Len(sent) \in Nat
  BY LenProperties DEF Hands, TypeOK, ConsumerInv
<1>2. /\ sent' \in Seq(Streams \cup {Malformed}) /\ Len(sent') = Len(sent) + 1
      /\ \A n \in Arrived : sent'[n] = sent[n]
  BY <1>1, AppendProperties DEF Push, Arrived
<1>3. Arrived \subseteq Arrived' /\ Len(sent) + 1 \in Arrived' /\ Arrived' \subseteq Nat
  BY <1>1, <1>2 DEF Arrived
<1>4. inbox \in Seq(Arrived') /\ batch \in Seq(Arrived') /\ queued \in Seq(Arrived')
  BY <1>1, <1>3, SeqMonotonic
<1>5. inbox' \in Seq(Arrived')
  BY <1>3, <1>4, AppendProperties DEF Push
<1>6. inbox' \in Seq(Nat)
  BY <1>3, <1>5, SeqMonotonic
<1>7. \A i \in 1..Len(queued) : sent'[queued[i]] \in Streams
  <2>1. \A i \in 1..Len(queued) : queued[i] \in Arrived
    BY <1>1, ElementOfSeq
  <2> QED
    BY <1>2, <2>1 DEF Hands, ConsumerInv
<1>8. TypeOK'
  BY <1>2, <1>6 DEF Push, Hands, TypeOK
<1>9. ConsumerInv'
  BY <1>4, <1>5, <1>7 DEF Push, Hands, ConsumerInv
<1> QED
  BY <1>8, <1>9 DEF Hands

(* What a step of the consumer has to establish *)
LEMMA HandsKept ==
    ASSUME Hands, UNCHANGED sent, cpc' \in {"polling", "draining", "validating",
                                             "writing", "backoff", "down"},
           inbox' \in Seq(Arrived), batch' \in Seq(Arrived), queued' \in Seq(Arrived),
           Len(queued') + Len(batch') <= BatchSize,
           refused' \in BOOLEAN, streams' \in [Streams -> Seq(Nat)], faults' \in Nat,
           cpc' \in {"polling", "backoff", "down"} => batch' = <<>> /\ queued' = <<>>,
           cpc' = "draining" => queued' = <<>> /\ Len(batch') = 1,
           cpc' = "writing" => batch' = <<>>,
           \A i \in 1..Len(queued') : sent[queued'[i]] \in Streams
    PROVE  Hands'
<1>1. Arrived' = Arrived /\ Arrived \subseteq Nat
  BY DEF Arrived
<1>2. inbox' \in Seq(Nat) /\ batch' \in Seq(Nat) /\ queued' \in Seq(Nat)
  BY <1>1, SeqMonotonic
<1>3. TypeOK'
  BY <1>2 DEF Hands, TypeOK
<1>4. ConsumerInv'
  BY <1>1 DEF ConsumerInv
<1> QED
  BY <1>3, <1>4 DEF Hands

(* The facts about a state that every step below starts from *)
LEMMA HandsMeans ==
    ASSUME Hands
    PROVE  /\ inbox \in Seq(Arrived) /\ batch \in Seq(Arrived) /\ queued \in Seq(Arrived)
           /\ Len(queued) + Len(batch) <= BatchSize /\ BatchSize \in Nat \ {0}
           /\ Len(inbox) \in Nat /\ Len(batch) \in Nat /\ Len(queued) \in Nat
           /\ \A i \in 1..Len(queued) : queued[i] \in Arrived /\ sent[queued[i]] \in Streams
           /\ cpc \in {"polling", "draining", "validating", "writing", "backoff", "down"}
           /\ refused \in BOOLEAN /\ streams \in [Streams -> Seq(Nat)] /\ faults \in Nat
           /\ sent \in Seq(Streams \cup {Malformed}) /\ Len(sent) \in Nat
           /\ Arrived \subseteq Nat /\ <<>> \in Seq(Arrived) /\ Len(<<>>) = 0
<1>1. /\ inbox \in Seq(Arrived) /\ batch \in Seq(Arrived) /\ queued \in Seq(Arrived)
      /\ sent \in Seq(Streams \cup {Malformed})
  BY DEF Hands, TypeOK, ConsumerInv
<1>2. \A i \in 1..Len(queued) : queued[i] \in Arrived
  BY <1>1, ElementOfSeq
<1>3. /\ Len(inbox) \in Nat /\ Len(batch) \in Nat /\ Len(queued) \in Nat
      /\ Len(sent) \in Nat /\ <<>> \in Seq(Arrived) /\ Len(<<>>) = 0
  BY <1>1, LenProperties, EmptySeq
<1> QED
  BY <1>1, <1>2, <1>3, IngestAssumption DEF Hands, TypeOK, ConsumerInv, Arrived

-----------------------------------------------------------------------------
(* Every step leaves the consumer's hands in order, and is a step of the    *)
(* channel or none.                                                        *)

ChannelStays == UNCHANGED <<sent, OnTheWay, streams, faults>>

LEMMA OnTheWayParts ==
    ASSUME Hands
    PROVE  /\ queued \o batch \in Seq(Arrived) /\ OnTheWay \in Seq(Arrived)
           /\ Len(OnTheWay) = Len(queued) + Len(batch) + Len(inbox)
           /\ Len(queued \o batch) = Len(queued) + Len(batch)
           /\ OnTheWay = queued \o (batch \o inbox)
           /\ batch \o inbox \in Seq(Arrived)
<1>1. inbox \in Seq(Arrived) /\ batch \in Seq(Arrived) /\ queued \in Seq(Arrived)
  BY HandsMeans
<1>2. /\ queued \o batch \in Seq(Arrived) /\ Len(queued \o batch) = Len(queued) + Len(batch)
      /\ batch \o inbox \in Seq(Arrived)
  BY <1>1, ConcatProperties
<1>3. /\ (queued \o batch) \o inbox \in Seq(Arrived)
      /\ Len((queued \o batch) \o inbox) = Len(queued \o batch) + Len(inbox)
      /\ (queued \o batch) \o inbox = queued \o (batch \o inbox)
  BY <1>1, <1>2, ConcatProperties, ConcatAssociative
<1> QED
  BY <1>2, <1>3 DEF OnTheWay

LEMMA PushStep ==
    ASSUME Hands, NEW to \in Streams \cup {Malformed}, Push(to)
    PROVE  Channel!Pushed(to)
<1> DEFINE n == Len(sent) + 1
<1>1. /\ inbox \in Seq(Nat) /\ batch \in Seq(Nat) /\ queued \in Seq(Nat) /\ n \in Nat
  BY HandsMeans DEF Hands, TypeOK
<1>2. queued \o batch \in Seq(Nat)
  BY <1>1, ConcatProperties
<1>3. (queued \o batch) \o Append(inbox, n) = Append((queued \o batch) \o inbox, n)
  BY <1>1, <1>2, AppendToSecond, SMTT(30)
<1>4. /\ sent' = Append(sent, to) /\ inbox' = Append(inbox, n)
      /\ queued' = queued /\ batch' = batch /\ UNCHANGED <<streams, faults>>
  BY DEF Push
<1> HIDE DEF n
<1>5. OnTheWay' = Append(OnTheWay, n)
  BY <1>3, <1>4 DEF OnTheWay
<1> QED
  BY <1>4, <1>5 DEF Channel!Pushed, n

(* BLPOP: the first record of the list becomes the batch. *)
LEMMA BlpopStep ==
    ASSUME Hands, Blpop
    PROVE  Hands' /\ ChannelStays
<1>1. /\ Head(inbox) \in Arrived /\ Tail(inbox) \in Seq(Arrived)
      /\ batch = <<>> /\ queued = <<>>
  BY HandsMeans, HeadTailProperties DEF Blpop, Hands, ConsumerInv
<1>2. batch' \in Seq(Arrived) /\ Len(batch') = 1 /\ queued' = <<>>
  BY <1>1 DEF Blpop
<1>3. batch' \o inbox' = inbox
  BY HandsMeans, HeadAndTail DEF Blpop
<1>4. OnTheWay' = OnTheWay
  <2>1. OnTheWay = inbox
    BY <1>1, HandsMeans, ConcatEmptySeq DEF OnTheWay
  <2>2. OnTheWay' = batch' \o inbox'
    BY <1>2, ConcatEmptySeq DEF OnTheWay
  <2> QED
    BY <1>3, <2>1, <2>2
<1>5. Hands'
  <2>1. cpc' \in {"draining", "validating"}
    BY DEF Blpop
  <2>2. Len(queued') + Len(batch') <= BatchSize
    BY <1>2, HandsMeans
  <2> QED
    BY <1>1, <1>2, <2>1, <2>2, HandsMeans, HandsKept DEF Blpop
<1> QED
  BY <1>4, <1>5 DEF Blpop, ChannelStays

(* LPOP with a count: the next records of the list join the batch. *)
LEMMA LpopStep ==
    ASSUME Hands, Lpop
    PROVE  Hands' /\ ChannelStays
<1> DEFINE n == Popped(BatchSize - 1)
           more == SubSeq(inbox, 1, n)
           rest == Rest(BatchSize - 1)
<1>1. /\ BatchSize - 1 \in Nat /\ batch \in Seq(Arrived) /\ queued = <<>> /\ Len(batch) = 1
  BY HandsMeans DEF Lpop, Hands, ConsumerInv
<1>2. /\ n \in Nat /\ n <= BatchSize - 1 /\ more \in Seq(Arrived) /\ Len(more) = n
      /\ rest \in Seq(Arrived) /\ more \o rest = inbox
  <2>1. /\ n \in 0..Len(inbox) /\ n <= BatchSize - 1
        /\ more \in Seq(Arrived) /\ Len(more) = n
        /\ rest \in Seq(Arrived) /\ more \o rest = inbox
    BY <1>1, PoppedProperties
  <2>2. Len(inbox) \in Nat
    BY HandsMeans
  <2> HIDE DEF n, more, rest
  <2> QED
    BY <2>1, <2>2
<1>3. batch' = batch \o more /\ inbox' = rest /\ queued' = <<>> /\ cpc' = "validating"
  BY <1>1 DEF Lpop
<1> HIDE DEF n, more, rest
<1>4. batch \o more \in Seq(Arrived) /\ Len(batch \o more) = 1 + n
  <2>1. batch \o more \in Seq(Arrived) /\ Len(batch \o more) = Len(batch) + Len(more)
    BY <1>1, <1>2, ConcatProperties, Zenon
  <2> QED
    BY <1>1, <1>2, <2>1
<1>5. OnTheWay' = OnTheWay
  <2>1. (batch \o more) \o rest = batch \o (more \o rest)
    <3>1. batch \in Seq(Arrived) /\ more \in Seq(Arrived) /\ rest \in Seq(Arrived)
      BY <1>1, <1>2
    <3> HIDE DEF Arrived
    <3> QED
      BY <3>1, ConcatAssociative
  <2>2. <<>> \o batch = batch /\ <<>> \o (batch \o more) = batch \o more
    BY <1>1, <1>4, ConcatEmptySeq
  <2>3. OnTheWay = batch \o inbox
    BY <1>1, <2>2 DEF OnTheWay
  <2>4. OnTheWay' = (batch \o more) \o rest
    BY <1>3, <2>2 DEF OnTheWay
  <2> QED
    BY <1>2, <2>1, <2>3, <2>4
<1>6. Hands'
  <2>1. Len(queued') + Len(batch') <= BatchSize
    BY <1>1, <1>2, <1>3, <1>4, HandsMeans
  <2> QED
    BY <1>1, <1>2, <1>3, <1>4, <2>1, HandsMeans, HandsKept DEF Lpop
<1> QED
  BY <1>5, <1>6 DEF Lpop, ChannelStays

(* A valid record is queued; an invalid one is discarded, no deeper than a  *)
(* batch.                                                                  *)
LEMMA ValidateStep ==
    ASSUME Hands, Validate
    PROVE  Hands' /\ (ChannelStays \/ Channel!Discarded)
<1> DEFINE n == Head(batch)
<1>0. /\ batch \in Seq(Arrived) /\ queued \in Seq(Arrived) /\ inbox \in Seq(Arrived)
      /\ batch # <<>> /\ BatchSize \in Nat
  BY HandsMeans DEF Validate
<1>1. /\ n \in Arrived /\ Tail(batch) \in Seq(Arrived) /\ Len(Tail(batch)) = Len(batch) - 1
      /\ Len(batch) \in Nat \ {0} /\ Len(queued) \in Nat /\ Len(inbox) \in Nat
  BY <1>0, HeadTailProperties, EmptySeq, LenProperties
<1>2. sent[n] \in Streams \cup {Malformed}
  BY <1>1, HandsMeans, ElementOfSeq DEF Arrived
<1>3. /\ batch' = Tail(batch) /\ cpc' = "validating"
      /\ UNCHANGED <<sent, inbox, refused, streams, faults>>
  BY DEF Validate
<1>4. CASE Valid(n)
  <2>1. queued' = Append(queued, n) /\ sent[n] \in Streams
    BY <1>2, <1>4 DEF Validate, Valid
  <2> HIDE DEF n
  <2>2. /\ queued' \in Seq(Arrived) /\ Len(queued') = Len(queued) + 1
        /\ \A i \in 1..Len(queued) : queued'[i] = queued[i]
        /\ queued'[Len(queued) + 1] = n
    BY <1>0, <1>1, <2>1, AppendProperties
  <2>3. \A i \in 1..Len(queued') : sent[queued'[i]] \in Streams
    <3>1. ASSUME NEW i \in 1..Len(queued') PROVE i \in 1..Len(queued) \/ i = Len(queued) + 1
      BY <1>1, <2>2
    <3> QED
      BY <2>1, <2>2, <3>1, HandsMeans
  <2>4. OnTheWay' = OnTheWay
    <3>1. Append(queued, n) \o Tail(batch) = queued \o batch
      BY <1>0, HeadMovesOver DEF n
    <3> QED
      BY <1>3, <2>1, <3>1 DEF OnTheWay
  <2>5. Len(queued') + Len(batch') <= BatchSize
    BY <1>1, <1>3, <2>2, HandsMeans
  <2>6. Hands'
    BY <1>0, <1>1, <1>3, <2>2, <2>3, <2>5, HandsMeans, HandsKept
  <2> QED
    BY <1>3, <2>4, <2>6 DEF ChannelStays
<1>5. CASE ~Valid(n)
  <2>1. queued' = queued /\ sent[n] = Malformed
    BY <1>5 DEF Validate, Valid
  <2>2. Len(queued') + Len(batch') <= BatchSize
    BY <1>1, <1>3, <2>1, HandsMeans
  <2>3. Hands'
    BY <1>0, <1>1, <1>3, <2>1, <2>2, HandsMeans, HandsKept
  <2> DEFINE t == batch \o inbox
             k == Len(queued) + 1
  <2>4. /\ t \in Seq(Arrived) /\ t # <<>> /\ Head(t) = n /\ Tail(t) = Tail(batch) \o inbox
    <3>1. t \in Seq(Arrived) /\ Head(t) = n /\ Tail(t) = Tail(batch) \o inbox
      BY <1>0, HeadOfFirst, ConcatProperties
    <3>2. t # <<>>
      BY <1>0, ConcatEqualIffEmpty
    <3> QED
      BY <3>1, <3>2
  <2>5. /\ OnTheWay = queued \o t /\ OnTheWay' = queued \o Tail(t)
        /\ k \in 1..Len(OnTheWay) /\ k <= BatchSize
    <3>1. OnTheWay = queued \o t /\ Len(OnTheWay) = Len(queued) + Len(batch) + Len(inbox)
      BY OnTheWayParts
    <3>2. OnTheWay' = (queued \o Tail(batch)) \o inbox
      BY <1>3, <2>1 DEF OnTheWay
    <3>3. (queued \o Tail(batch)) \o inbox = queued \o Tail(t)
      <4>1. queued \in Seq(Arrived) /\ Tail(batch) \in Seq(Arrived) /\ inbox \in Seq(Arrived)
        BY <1>0, <1>1
      <4>2. (queued \o Tail(batch)) \o inbox = queued \o (Tail(batch) \o inbox)
        BY <4>1, ConcatAssociative, SMTT(30)
      <4> QED
        BY <2>4, <4>2
    <3>4. k \in 1..Len(OnTheWay) /\ k <= BatchSize
      BY <1>0, <1>1, <3>1, HandsMeans
    <3> QED
      BY <3>1, <3>2, <3>3, <3>4
  <2> HIDE DEF t
  <2>6. OnTheWay' = Channel!RemoveAt(OnTheWay, k)
    BY <1>0, <2>4, <2>5, RemoveFromSecond DEF RemoveAt, Channel!RemoveAt
  <2>7. OnTheWay[k] = n
    <3>1. (queued \o t)[k] = t[1] /\ t[1] = Head(t)
      <4>1. /\ Len(t) \in Nat \ {0} /\ k \in 1..Len(queued) + Len(t)
            /\ ~(k <= Len(queued)) /\ k - Len(queued) = 1
        BY <1>1, <2>4, EmptySeq
      <4> QED
        BY <1>0, <2>4, <4>1, ConcatProperties
    <3> QED
      BY <2>4, <2>5, <3>1
  <2> HIDE DEF k
  <2>8. Channel!Discarded
    BY <1>3, <2>1, <2>5, <2>6, <2>7 DEF Channel!Discarded
  <2> QED
    BY <2>3, <2>8
<1> QED
  BY <1>4, <1>5

(* The commands of the pipeline: the first record goes to its stream, or is  *)
(* refused and lost.                                                       *)
LEMMA TailOfQueued ==
    ASSUME Hands, queued # <<>>, queued' = Tail(queued), UNCHANGED <<sent, inbox, batch>>
    PROVE  /\ OnTheWay # <<>> /\ Head(OnTheWay) = Head(queued)
           /\ OnTheWay' = Tail(OnTheWay)
           /\ sent[Head(queued)] \in Streams /\ Head(queued) \in Arrived
           /\ queued' \in Seq(Arrived) /\ Len(queued') = Len(queued) - 1
           /\ \A i \in 1..Len(queued') : sent[queued'[i]] \in Streams
<1>1. queued \in Seq(Arrived) /\ batch \o inbox \in Seq(Arrived)
      /\ batch \in Seq(Arrived) /\ inbox \in Seq(Arrived)
  BY HandsMeans, OnTheWayParts
<1>2. /\ Tail(queued) \in Seq(Arrived) /\ Len(Tail(queued)) = Len(queued) - 1
      /\ \A i \in 1..Len(Tail(queued)) : Tail(queued)[i] = queued[i + 1]
      /\ Len(queued) \in Nat \ {0}
  BY <1>1, HeadTailProperties, EmptySeq
<1>3. Head(queued) = queued[1] /\ 1 \in 1..Len(queued)
  BY <1>1, <1>2
<1>4. sent[Head(queued)] \in Streams /\ Head(queued) \in Arrived
  BY <1>3, HandsMeans
<1>5. \A i \in 1..Len(queued') : sent[queued'[i]] \in Streams
  <2>1. \A i \in 1..Len(queued') : queued'[i] = queued[i + 1] /\ i + 1 \in 1..Len(queued)
    BY <1>2
  <2> QED
    BY <2>1, HandsMeans
<1>6. /\ Head(OnTheWay) = Head(queued) /\ Tail(OnTheWay) = Tail(queued) \o (batch \o inbox)
  <2>1. /\ Head(queued \o (batch \o inbox)) = Head(queued)
        /\ Tail(queued \o (batch \o inbox)) = Tail(queued) \o (batch \o inbox)
    BY <1>1, HeadOfFirst
  <2> QED
    BY <2>1, OnTheWayParts
<1>7. OnTheWay # <<>>
  BY <1>1, ConcatEqualIffEmpty, OnTheWayParts
<1>8. OnTheWay' = Tail(OnTheWay)
  <2>1. (Tail(queued) \o batch) \o inbox = Tail(queued) \o (batch \o inbox)
    <3>1. Tail(queued) \in Seq(Arrived) /\ batch \in Seq(Arrived) /\ inbox \in Seq(Arrived)
      BY <1>1, <1>2
    <3> QED
      BY <3>1, ConcatAssociative, SMTT(30)
  <2> QED
    BY <1>6, <2>1 DEF OnTheWay
<1> QED
  BY <1>2, <1>4, <1>5, <1>6, <1>7, <1>8

LEMMA XaddStep ==
    ASSUME Hands, Xadd
    PROVE  Hands' /\ Channel!Delivered
<1> DEFINE n == Head(queued)
<1>1. /\ cpc = "writing" /\ batch = <<>> /\ queued # <<>> /\ queued' = Tail(queued)
      /\ streams' = [streams EXCEPT ![sent[n]] = Append(@, n)]
      /\ UNCHANGED <<sent, inbox, cpc, batch, refused, faults>>
  BY DEF Xadd, Hands, ConsumerInv
<1>2. /\ OnTheWay # <<>> /\ Head(OnTheWay) = n /\ OnTheWay' = Tail(OnTheWay)
      /\ sent[n] \in Streams /\ n \in Arrived
      /\ queued' \in Seq(Arrived) /\ Len(queued') = Len(queued) - 1
      /\ \A i \in 1..Len(queued') : sent[queued'[i]] \in Streams
  BY <1>1, TailOfQueued
<1> HIDE DEF n
<1>3. streams' \in [Streams -> Seq(Nat)]
  <2>1. n \in Nat /\ streams \in [Streams -> Seq(Nat)]
    BY <1>2, HandsMeans
  <2>2. Append(streams[sent[n]], n) \in Seq(Nat)
    BY <1>2, <2>1, AppendProperties
  <2> QED
    BY <1>1, <2>1, <2>2
<1>4. Hands'
  <2>1. Len(queued') + Len(batch') <= BatchSize
    BY <1>1, <1>2, HandsMeans
  <2> QED
    BY <1>1, <1>2, <1>3, <2>1, HandsMeans, HandsKept
<1>5. Channel!Delivered
  BY <1>1, <1>2 DEF Channel!Delivered
<1> QED
  BY <1>4, <1>5

LEMMA XaddRefusedStep ==
    ASSUME Hands, XaddRefused
    PROVE  Hands' /\ Channel!Lost
<1>1. /\ cpc = "writing" /\ batch = <<>> /\ queued # <<>> /\ queued' = Tail(queued)
      /\ refused' = TRUE /\ faults' = faults + 1
      /\ UNCHANGED <<sent, inbox, cpc, batch, streams>>
  BY DEF XaddRefused, Hands, ConsumerInv
<1>2. /\ OnTheWay # <<>> /\ OnTheWay' = Tail(OnTheWay)
      /\ queued' \in Seq(Arrived) /\ Len(queued') = Len(queued) - 1
      /\ \A i \in 1..Len(queued') : sent[queued'[i]] \in Streams
  BY <1>1, TailOfQueued
<1>3. Hands'
  <2>1. Len(queued') + Len(batch') <= BatchSize
    BY <1>1, <1>2, HandsMeans
  <2> QED
    BY <1>1, <1>2, <2>1, HandsMeans, HandsKept
<1>4. Channel!Lost
  <2>1. OnTheWay \in Seq(Arrived)
    BY OnTheWayParts
  <2>2. Tail(OnTheWay) = SubSeq(OnTheWay, 1 + 1, Len(OnTheWay))
    <3>1. Tail(OnTheWay) = SubSeq(OnTheWay, 2, Len(OnTheWay)) /\ 1 + 1 = 2
      BY <1>2, <2>1, TailIsSubSeq
    <3> QED
      BY <3>1
  <2>3. 1 \in 0..Len(OnTheWay) /\ 1 <= BatchSize
    <3>1. Len(OnTheWay) \in Nat /\ Len(OnTheWay) # 0
      BY <1>2, <2>1, EmptySeq, LenProperties
    <3> QED
      BY <3>1, IngestAssumption
  <2> QED
    BY <1>1, <1>2, <2>2, <2>3 DEF Channel!Lost
<1> QED
  BY <1>3, <1>4

(* The other steps of a cycle move no record. *)
LEMMA QuietStep ==
    ASSUME Hands, PollTimesOut \/ Execute \/ ExecuteReturns \/ BackoffOver \/ ServerStarts
    PROVE  Hands' /\ ChannelStays
<1>1. UNCHANGED <<sent, inbox, batch, queued, streams, faults>>
  BY DEF PollTimesOut, Execute, ExecuteReturns, BackoffOver, ServerStarts, vars
<1>2. /\ cpc' \in {"polling", "draining", "validating", "writing", "backoff", "down"}
      /\ refused' \in BOOLEAN
      /\ cpc' \in {"polling", "backoff", "down"} => batch = <<>> /\ queued = <<>>
      /\ cpc' = "draining" => queued = <<>> /\ Len(batch) = 1
      /\ cpc' = "writing" => batch = <<>>
  BY DEF PollTimesOut, Execute, ExecuteReturns, BackoffOver, ServerStarts, vars,
         Hands, TypeOK, ConsumerInv
<1>3. Hands'
  BY <1>1, <1>2, HandsMeans, HandsKept
<1> QED
  BY <1>1, <1>3 DEF ChannelStays, OnTheWay

(* A cycle that comes to nothing loses what it had in hand, and what a pop   *)
(* in flight takes: a batch in all.                                        *)
LEMMA AbandonedStep ==
    ASSUME Hands, NEW next \in {"backoff", "down"}, Abandoned(next)
    PROVE  Hands' /\ Channel!Lost
<1>1. /\ cpc' = next /\ batch' = <<>> /\ queued' = <<>> /\ refused' = FALSE
      /\ faults' = faults + 1 /\ UNCHANGED <<sent, streams>>
  BY DEF Abandoned
<1>2. inbox \in Seq(Arrived) /\ Len(inbox) \in Nat
  BY HandsMeans
<1>3. PICK m \in 0..Len(inbox) :
         /\ inbox' = SubSeq(inbox, m + 1, Len(inbox))
         /\ Len(queued) + Len(batch) + m <= BatchSize
  <2>1. CASE inbox' = inbox
    <3>1. /\ inbox' = SubSeq(inbox, 0 + 1, Len(inbox)) /\ 0 \in 0..Len(inbox)
          /\ Len(queued) + Len(batch) + 0 <= BatchSize
      <4>1. 0 + 1 = 1 /\ Len(queued) + Len(batch) + 0 <= BatchSize /\ 0 \in 0..Len(inbox)
        BY HandsMeans
      <4> QED
        BY <1>2, <2>1, <4>1, SubSeqFull
    <3> QED
      BY <3>1
  <2>2. CASE cpc = "polling" /\ inbox' = Rest(1)
    <3>1. Popped(1) \in 0..Len(inbox) /\ Popped(1) <= 1
      BY PoppedProperties
    <3>2. Len(queued) + Len(batch) = 0 /\ BatchSize \in Nat \ {0}
      BY <2>2, HandsMeans DEF Hands, ConsumerInv
    <3>3. Len(queued) + Len(batch) + Popped(1) <= BatchSize
      BY <1>2, <3>1, <3>2
    <3> QED
      BY <2>2, <3>1, <3>3 DEF Rest
  <2>3. CASE cpc = "draining" /\ inbox' = Rest(BatchSize - 1)
    <3>1. BatchSize - 1 \in Nat
      BY HandsMeans
    <3>2. Popped(BatchSize - 1) \in 0..Len(inbox) /\ Popped(BatchSize - 1) <= BatchSize - 1
      BY <3>1, PoppedProperties
    <3>3. Len(queued) + Len(batch) = 1 /\ BatchSize \in Nat \ {0}
      BY <2>3, HandsMeans DEF Hands, ConsumerInv
    <3>4. Len(queued) + Len(batch) + Popped(BatchSize - 1) <= BatchSize
      BY <1>2, <3>2, <3>3
    <3> QED
      BY <2>3, <3>2, <3>4 DEF Rest
  <2> QED
    BY <2>1, <2>2, <2>3 DEF Abandoned
<1>4. inbox' \in Seq(Arrived)
  BY <1>2, <1>3, SplitAt
<1>5. Hands'
  <2>1. /\ batch' \in Seq(Arrived) /\ queued' \in Seq(Arrived)
        /\ Len(queued') = 0 /\ Len(batch') = 0
    BY <1>1, HandsMeans
  <2>2. Len(queued') + Len(batch') <= BatchSize
    BY <2>1, HandsMeans
  <2>3. \A i \in 1..Len(queued') : sent[queued'[i]] \in Streams
    BY <2>1
  <2>4. faults' \in Nat /\ streams' \in [Streams -> Seq(Nat)]
    BY <1>1, HandsMeans
  <2>5. refused' \in BOOLEAN
    BY <1>1
  <2> QED
    BY <1>1, <1>4, <2>1, <2>2, <2>3, <2>4, <2>5, HandsKept
<1>6. Channel!Lost
  <2> DEFINE held == queued \o batch
             i == Len(held) + m
  <2>1. held \in Seq(Arrived) /\ Len(held) = Len(queued) + Len(batch)
        /\ OnTheWay = held \o inbox /\ Len(OnTheWay) = Len(held) + Len(inbox)
    BY OnTheWayParts DEF OnTheWay
  <2>2. OnTheWay' = inbox'
    <3>1. OnTheWay' = (<<>> \o <<>>) \o inbox'
      BY <1>1 DEF OnTheWay
    <3> QED
      BY <1>4, <3>1, ConcatEmptySeq, EmptySeq
  <2> HIDE DEF held
  <2>3. SubSeq(held \o inbox, Len(held) + m + 1, Len(held \o inbox))
            = SubSeq(inbox, m + 1, Len(inbox))
    BY <1>2, <2>1, DropFromSecond
  <2>4. OnTheWay' = SubSeq(OnTheWay, i + 1, Len(OnTheWay))
    BY <1>3, <2>1, <2>2, <2>3
  <2>5. i \in 0..Len(OnTheWay) /\ i <= BatchSize
    BY <1>2, <1>3, <2>1, HandsMeans
  <2> HIDE DEF i
  <2> QED
    BY <1>1, <2>4, <2>5 DEF Channel!Lost
<1> QED
  BY <1>5, <1>6

(* All together. *)
LEMMA StepOfTheChannel ==
    ASSUME Hands, [Next]_vars
    PROVE  Hands' /\ (ChannelStays \/ Channel!Next)
<1>1. ASSUME NEW to \in Streams \cup {Malformed}, Push(to)
      PROVE  Hands' /\ Channel!Next
  BY <1>1, PushKeepsHands, PushStep DEF Channel!Next
<1>2. CASE XaddRefused
  BY <1>2, XaddRefusedStep DEF Channel!Next
<1>3. CASE ConnectionLost \/ ServerStops
  BY <1>3, AbandonedStep DEF Channel!Next, ConnectionLost, ServerStops
<1>4. CASE Validate
  BY <1>4, ValidateStep DEF Channel!Next
<1>5. CASE Xadd
  BY <1>5, XaddStep DEF Channel!Next
<1>6. CASE Blpop \/ Lpop
  BY <1>6, BlpopStep, LpopStep
<1>7. CASE PollTimesOut \/ Execute \/ ExecuteReturns \/ BackoffOver \/ ServerStarts
  BY <1>7, QuietStep
<1>8. CASE UNCHANGED vars
  <2>1. ChannelStays
    BY <1>8 DEF vars, ChannelStays, OnTheWay
  <2>2. Hands'
    BY <1>8 DEF vars, Hands, TypeOK, ConsumerInv, Arrived
  <2> QED
    BY <2>1, <2>2
<1> QED
  BY <1>1, <1>2, <1>3, <1>4, <1>5, <1>6, <1>7, <1>8 DEF Next, Consume

LEMMA InitHands == Init => Hands /\ Channel!Init
<1> SUFFICES ASSUME Init PROVE Hands /\ Channel!Init
  OBVIOUS
<1>1. \A S : <<>> \in Seq(S) /\ Len(<<>>) = 0
  BY EmptySeq
<1>2. OnTheWay = <<>>
  <2>1. (<<>> \o <<>>) \o <<>> = <<>>
    BY <1>1, ConcatEmptySeq
  <2> QED
    BY <2>1 DEF Init, OnTheWay
<1>3. TypeOK
  <2>1. streams \in [Streams -> Seq(Nat)]
    BY <1>1 DEF Init
  <2>2. Len(queued) + Len(batch) <= BatchSize
    BY <1>1, IngestAssumption DEF Init
  <2> QED
    BY <1>1, <2>1, <2>2 DEF Init, TypeOK
<1>4. ConsumerInv
  <2>1. Len(queued) = 0
    BY <1>1 DEF Init
  <2> QED
    BY <1>1, <2>1 DEF Init, ConsumerInv
<1> QED
  BY <1>2, <1>3, <1>4 DEF Hands, Init, Channel!Init

THEOREM HandsHold == Spec => []Hands
BY InitHands, StepOfTheChannel, PTL DEF Spec

(* The consumer, with what it holds and what is still on the list, is the    *)
(* lossy channel of LossyChannel.tla: it keeps the order, drops malformed   *)
(* records only, and loses a batch per fault at most (consumer.py lines     *)
(* 45-93).                                                                 *)
THEOREM ConsumerIsAChannel == Spec => ChannelSpec
<1>1. Hands /\ [Next]_vars => [Channel!Next]_<<sent, OnTheWay, streams, faults>>
  BY StepOfTheChannel DEF ChannelStays
<1> QED
  BY <1>1, InitHands, HandsHold, PTL DEF Spec, ChannelSpec, Channel!Spec

-----------------------------------------------------------------------------
(* The order of arrival.                                                   *)

(* The records of the streams and those on their way, by their positions;    *)
(* every record is in the stream that it names.                            *)
StoredBefore(s) ==
    \A i \in 1..Len(streams[s]) :
        /\ streams[s][i] \in Arrived
        /\ sent[streams[s][i]] = s
        /\ \A j \in 1..Len(OnTheWay) : streams[s][i] < OnTheWay[j]

OrderInv ==
    /\ Increasing(OnTheWay)
    /\ \A s \in Streams : Increasing(streams[s]) /\ StoredBefore(s)

(* Records go from those on their way, and the rest keeps its order *)
Thinner ==
    /\ \A j \in 1..Len(OnTheWay') :
          \E b \in 1..Len(OnTheWay) : OnTheWay'[j] = OnTheWay[b]
    /\ \A i, j \in 1..Len(OnTheWay') : i < j =>
          \E a, b \in 1..Len(OnTheWay) :
              a < b /\ OnTheWay'[i] = OnTheWay[a] /\ OnTheWay'[j] = OnTheWay[b]

LEMMA LostIsThinner ==
    ASSUME OnTheWay \in Seq(Nat), NEW k \in 0..Len(OnTheWay),
           OnTheWay' = SubSeq(OnTheWay, k + 1, Len(OnTheWay))
    PROVE  Thinner
<1>1. Len(OnTheWay) \in Nat /\ \A i \in 1..Len(OnTheWay) : OnTheWay[i] \in Nat
  BY LenProperties, ElementOfSeq
<1>2. /\ Len(OnTheWay') = Len(OnTheWay) - k
      /\ \A i \in 1..Len(OnTheWay) - k : OnTheWay'[i] = OnTheWay[i + k]
  <2>1. /\ Len(OnTheWay') = IF k + 1 <= Len(OnTheWay) THEN Len(OnTheWay) - (k + 1) + 1 ELSE 0
        /\ \A i \in 1..Len(OnTheWay) - (k + 1) + 1 : OnTheWay'[i] = OnTheWay[(k + 1) + i - 1]
    BY <1>1, SubSeqProperties
  <2> QED
    BY <1>1, <2>1
<1>3. \A i \in 1..Len(OnTheWay') : i + k \in 1..Len(OnTheWay) /\ OnTheWay'[i] = OnTheWay[i + k]
  BY <1>1, <1>2
<1>4. \A i, j \in 1..Len(OnTheWay') : i < j => i + k < j + k
  BY <1>1, <1>2
<1> QED
  BY <1>3, <1>4 DEF Thinner

LEMMA DiscardedIsThinner ==
    ASSUME OnTheWay \in Seq(Nat), NEW k \in 1..Len(OnTheWay),
           OnTheWay' = RemoveAt(OnTheWay, k)
    PROVE  Thinner
<1> DEFINE f(i) == IF i < k THEN i ELSE i + 1
<1>1. Len(OnTheWay) \in Nat
  BY LenProperties
<1>2. /\ Len(OnTheWay') = Len(OnTheWay) - 1
      /\ \A i \in 1..Len(OnTheWay) - 1 : OnTheWay'[i] = IF i < k THEN OnTheWay[i] ELSE OnTheWay[i + 1]
  BY RemoveAtProperties
<1>3. ASSUME NEW i \in 1..Len(OnTheWay')
      PROVE  f(i) \in 1..Len(OnTheWay) /\ OnTheWay'[i] = OnTheWay[f(i)]
  <2>1. i \in 1..Len(OnTheWay) /\ i + 1 \in 1..Len(OnTheWay)
        /\ i \in 1..Len(OnTheWay) - 1
    BY <1>1, <1>2
  <2>2. OnTheWay'[i] = IF i < k THEN OnTheWay[i] ELSE OnTheWay[i + 1]
    BY <1>2, <2>1
  <2>3. CASE i < k
    BY <2>1, <2>2, <2>3
  <2>4. CASE ~(i < k)
    BY <2>1, <2>2, <2>4
  <2> QED
    BY <2>3, <2>4
<1>4. ASSUME NEW i \in 1..Len(OnTheWay'), NEW j \in 1..Len(OnTheWay'), i < j
      PROVE  f(i) < f(j)
  BY <1>4
<1> HIDE DEF f
<1> QED
  BY <1>3, <1>4 DEF Thinner

LEMMA ThinnerKeepsOrder ==
    ASSUME Thinner, OrderInv, UNCHANGED <<sent, streams>>
    PROVE  OrderInv'
<1>1. Increasing(OnTheWay)'
  BY DEF Thinner, OrderInv, Increasing
<1>2. \A s \in Streams : Increasing(streams[s])' /\ StoredBefore(s)'
  BY DEF Thinner, OrderInv, StoredBefore, Increasing, Arrived
<1> QED
  BY <1>1, <1>2 DEF OrderInv

LEMMA PushedKeepsOrder ==
    ASSUME Hands, OrderInv, NEW to \in Streams \cup {Malformed}, Channel!Pushed(to)
    PROVE  OrderInv'
<1> DEFINE n == Len(sent) + 1
<1>1. /\ OnTheWay \in Seq(Arrived) /\ OnTheWay \in Seq(Nat) /\ n \in Nat
      /\ \A i \in 1..Len(OnTheWay) : OnTheWay[i] \in Arrived
      /\ Len(OnTheWay) \in Nat /\ Len(sent) \in Nat
  BY OnTheWayParts, HandsMeans, SeqMonotonic, ElementOfSeq, LenProperties
<1>2. OnTheWay' = Append(OnTheWay, n) /\ sent' = Append(sent, to) /\ streams' = streams
  BY DEF Channel!Pushed
<1>3. /\ Len(OnTheWay') = Len(OnTheWay) + 1 /\ OnTheWay'[Len(OnTheWay) + 1] = n
      /\ \A i \in 1..Len(OnTheWay) : OnTheWay'[i] = OnTheWay[i]
  BY <1>1, <1>2, AppendProperties
<1>4. Arrived \subseteq Arrived' /\ \A m \in Arrived : sent'[m] = sent[m] /\ m < n
  <2>1. /\ Len(sent') = Len(sent) + 1 /\ \A m \in 1..Len(sent) : sent'[m] = sent[m]
    BY <1>2, HandsMeans, AppendProperties
  <2> QED
    BY <1>1, <2>1 DEF Arrived
<1> HIDE DEF n
<1>5. \A j \in 1..Len(OnTheWay') : j \in 1..Len(OnTheWay) \/ OnTheWay'[j] = n
  BY <1>1, <1>3
<1>6. Increasing(OnTheWay)'
  <2> SUFFICES ASSUME NEW i \in 1..Len(OnTheWay'), NEW j \in 1..Len(OnTheWay'), i < j
               PROVE  OnTheWay'[i] < OnTheWay'[j]
    BY DEF Increasing
  <2>1. i \in 1..Len(OnTheWay)
    BY <1>1, <1>3
  <2>2. CASE j \in 1..Len(OnTheWay)
    BY <1>3, <2>1, <2>2 DEF OrderInv, Increasing
  <2>3. CASE OnTheWay'[j] = n
    BY <1>1, <1>3, <1>4, <2>1, <2>3
  <2> QED
    BY <1>5, <2>2, <2>3
<1>7. ASSUME NEW s \in Streams PROVE Increasing(streams[s])' /\ StoredBefore(s)'
  <2>1. ASSUME NEW i \in 1..Len(streams[s])
        PROVE  streams[s][i] \in Arrived /\ sent[streams[s][i]] = s
               /\ \A j \in 1..Len(OnTheWay) : streams[s][i] < OnTheWay[j]
    BY DEF OrderInv, StoredBefore
  <2>2. ASSUME NEW i \in 1..Len(streams[s]), NEW j \in 1..Len(OnTheWay')
        PROVE  streams[s][i] < OnTheWay'[j]
    BY <1>3, <1>4, <1>5, <2>1, <2>2
  <2>3. StoredBefore(s)'
    BY <1>2, <1>4, <2>1, <2>2 DEF StoredBefore
  <2> QED
    BY <1>2, <2>3 DEF OrderInv, Increasing
<1> QED
  BY <1>6, <1>7 DEF OrderInv

LEMMA DeliveredKeepsOrder ==
    ASSUME Hands, OrderInv, Channel!Delivered
    PROVE  OrderInv'
<1> DEFINE n == Head(OnTheWay)
<1>1. /\ OnTheWay # <<>> /\ sent[n] \in Streams /\ OnTheWay' = Tail(OnTheWay) /\ sent' = sent
      /\ streams' = [streams EXCEPT ![sent[n]] = Append(@, n)]
  BY DEF Channel!Delivered
<1>2. /\ OnTheWay \in Seq(Arrived) /\ OnTheWay \in Seq(Nat) /\ Arrived \subseteq Nat
      /\ streams \in [Streams -> Seq(Nat)]
      /\ \A i \in 1..Len(OnTheWay) : OnTheWay[i] \in Arrived
  BY OnTheWayParts, HandsMeans, SeqMonotonic, ElementOfSeq
<1>3. /\ n = OnTheWay[1] /\ Len(OnTheWay) \in Nat \ {0} /\ n \in Arrived
  BY <1>1, <1>2, EmptySeq
<1>4. Len(OnTheWay') = Len(OnTheWay) - 1
      /\ \A i \in 1..Len(OnTheWay) - 1 : OnTheWay'[i] = OnTheWay[i + 1]
  BY <1>1, <1>2, HeadTailProperties
<1> HIDE DEF n
<1>5. Increasing(OnTheWay)'
  BY <1>3, <1>4 DEF OrderInv, Increasing
<1>6. \A j \in 1..Len(OnTheWay') : /\ n < OnTheWay'[j]
                                  /\ \E b \in 1..Len(OnTheWay) : OnTheWay'[j] = OnTheWay[b]
  <2>1. \A j \in 1..Len(OnTheWay') : j + 1 \in 1..Len(OnTheWay) /\ 1 < j + 1
    BY <1>3, <1>4
  <2> QED
    BY <1>3, <1>4, <2>1 DEF OrderInv, Increasing
<1>7. ASSUME NEW s \in Streams, s # sent[n] PROVE Increasing(streams[s])' /\ StoredBefore(s)'
  <2>1. streams'[s] = streams[s]
    BY <1>1, <1>2, <1>7
  <2>2. Increasing(streams[s])'
    BY <2>1 DEF OrderInv, Increasing
  <2>3. ASSUME NEW i \in 1..Len(streams[s])
        PROVE  /\ streams[s][i] \in Arrived /\ sent[streams[s][i]] = s
               /\ \A b \in 1..Len(OnTheWay) : streams[s][i] < OnTheWay[b]
    BY DEF OrderInv, StoredBefore
  <2>4. StoredBefore(s)'
    BY <1>1, <1>6, <2>1, <2>3 DEF StoredBefore, Arrived
  <2> QED
    BY <2>2, <2>4
<1>8. ASSUME NEW s \in Streams, s = sent[n] PROVE Increasing(streams[s])' /\ StoredBefore(s)'
  <2>1. streams[s] \in Seq(Nat) /\ streams'[s] = Append(streams[s], n) /\ Len(streams[s]) \in Nat
    BY <1>1, <1>2, <1>8, LenProperties
  <2>2. /\ Len(streams'[s]) = Len(streams[s]) + 1 /\ streams'[s][Len(streams[s]) + 1] = n
        /\ \A i \in 1..Len(streams[s]) : streams'[s][i] = streams[s][i]
    BY <1>2, <1>3, <2>1, AppendProperties
  <2>3. \A i \in 1..Len(streams'[s]) : i \in 1..Len(streams[s]) \/ i = Len(streams[s]) + 1
    BY <2>1, <2>2
  <2>4. ASSUME NEW i \in 1..Len(streams[s])
        PROVE  /\ streams[s][i] \in Arrived /\ sent[streams[s][i]] = s
               /\ \A b \in 1..Len(OnTheWay) : streams[s][i] < OnTheWay[b]
    BY DEF OrderInv, StoredBefore
  <2>5. \A i \in 1..Len(streams[s]) : streams[s][i] < n
    BY <1>3, <2>4
  <2>6. Increasing(streams[s])'
    <3> SUFFICES ASSUME NEW i \in 1..Len(streams'[s]), NEW j \in 1..Len(streams'[s]), i < j
                 PROVE  streams'[s][i] < streams'[s][j]
      BY DEF Increasing
    <3>1. i \in 1..Len(streams[s])
      BY <2>1, <2>2
    <3>2. CASE j \in 1..Len(streams[s])
      BY <2>2, <3>1, <3>2 DEF OrderInv, Increasing
    <3>3. CASE j = Len(streams[s]) + 1
      BY <2>2, <2>5, <3>1, <3>3
    <3> QED
      BY <2>3, <3>2, <3>3
  <2>7. StoredBefore(s)'
    <3> SUFFICES ASSUME NEW i \in 1..Len(streams'[s])
                 PROVE  /\ streams'[s][i] \in Arrived' /\ sent'[streams'[s][i]] = s
                        /\ \A j \in 1..Len(OnTheWay') : streams'[s][i] < OnTheWay'[j]
      BY DEF StoredBefore
    <3>1. CASE i \in 1..Len(streams[s])
      BY <1>1, <1>6, <2>2, <2>4, <3>1 DEF Arrived
    <3>2. CASE i = Len(streams[s]) + 1
      BY <1>1, <1>3, <1>6, <1>8, <2>2, <3>2 DEF Arrived
    <3> QED
      BY <2>3, <3>1, <3>2
  <2> QED
    BY <2>6, <2>7
<1> QED
  BY <1>5, <1>7, <1>8 DEF OrderInv

LEMMA ChannelKeepsOrder ==
    ASSUME Hands, OrderInv, ChannelStays \/ Channel!Next
    PROVE  OrderInv'
<1>1. OnTheWay \in Seq(Nat)
  BY OnTheWayParts, HandsMeans, SeqMonotonic
<1>2. CASE ChannelStays
  BY <1>2 DEF ChannelStays, OrderInv, StoredBefore, Increasing, Arrived
<1>3. ASSUME NEW to \in Streams \cup {Malformed}, Channel!Pushed(to) PROVE OrderInv'
  BY <1>3, PushedKeepsOrder
<1>4. CASE Channel!Delivered
  BY <1>4, DeliveredKeepsOrder
<1>5. CASE Channel!Discarded
  <2>1. PICK k \in 1..Len(OnTheWay) : OnTheWay' = RemoveAt(OnTheWay, k)
    BY <1>5 DEF Channel!Discarded, RemoveAt, Channel!RemoveAt
  <2> QED
    BY <1>1, <1>5, <2>1, DiscardedIsThinner, ThinnerKeepsOrder DEF Channel!Discarded
<1>6. CASE Channel!Lost
  BY <1>1, <1>6, LostIsThinner, ThinnerKeepsOrder DEF Channel!Lost
<1> QED
  BY <1>2, <1>3, <1>4, <1>5, <1>6 DEF Channel!Next

LEMMA OrderHolds == Spec => []OrderInv
<1>1. Init => OrderInv
  <2> SUFFICES ASSUME Init PROVE OrderInv
    OBVIOUS
  <2>1. OnTheWay = <<>>
    BY InitHands DEF Channel!Init
  <2>2. \A s \in Streams : streams[s] = <<>>
    BY DEF Init
  <2>3. Len(<<>>) = 0
    BY EmptySeq
  <2> QED
    BY <2>1, <2>2, <2>3 DEF OrderInv, StoredBefore, Increasing
<1>2. Hands /\ OrderInv /\ [Next]_vars => OrderInv'
  BY StepOfTheChannel, ChannelKeepsOrder
<1> QED
  BY <1>1, <1>2, HandsHold, PTL DEF Spec

(* The streams keep the order of arrival, hold no record twice and are ahead *)
(* of everything that is on its way, through refused commands, broken       *)
(* connections, crashes and restarts: redis_keys.stream_key's streams are    *)
(* read by position (consumer.py lines 59-93).                             *)
THEOREM ArrivalOrder == Spec => []ArrivalOrderKept
<1>1. Hands /\ OrderInv => ArrivalOrderKept
  <2> SUFFICES ASSUME Hands, OrderInv PROVE ArrivalOrderKept
    OBVIOUS
  <2>1. ASSUME NEW n \in Stored, NEW m \in ToSet(OnTheWay) PROVE n < m
    <3>1. PICK s \in Streams : n \in ToSet(streams[s])
      BY DEF Stored
    <3>2. DOMAIN streams[s] = 1..Len(streams[s]) /\ DOMAIN OnTheWay = 1..Len(OnTheWay)
      BY HandsMeans, OnTheWayParts, LenProperties
    <3>3. PICK i \in 1..Len(streams[s]) : n = streams[s][i]
      BY <3>1, <3>2 DEF ToSet
    <3>4. PICK j \in 1..Len(OnTheWay) : m = OnTheWay[j]
      BY <3>2 DEF ToSet
    <3> QED
      BY <3>3, <3>4 DEF OrderInv, StoredBefore
  <2> QED
    BY <2>1 DEF OrderInv, ArrivalOrderKept
<1> QED
  BY <1>1, HandsHold, OrderHolds, PTL

(* Redis streams are read per daemon and kind: each holds only records that *)
(* name it, whatever batch or pipeline they came with (redis_keys.stream_key, *)
(* consumer.py lines 72-84).                                               *)
THEOREM StoredUnderTheirName == Spec => []StoredWhereNamed
<1>1. Hands /\ OrderInv => StoredWhereNamed
  <2> SUFFICES ASSUME Hands, OrderInv, NEW s \in Streams, NEW n \in ToSet(streams[s])
               PROVE  n \in 1..Len(sent) /\ sent[n] = s
    BY DEF StoredWhereNamed
  <2>1. streams[s] \in Seq(Nat)
    BY HandsMeans
  <2>2. PICK i \in 1..Len(streams[s]) : streams[s][i] = n
    BY <2>1, Elements
  <2> QED
    BY <2>2 DEF OrderInv, StoredBefore, Arrived
<1> QED
  BY <1>1, HandsHold, OrderHolds, PTL

-----------------------------------------------------------------------------
(* What goes missing.                                                      *)

(* The elements of the streams, by their positions *)
LEMMA ElementsOfAll ==
    ASSUME NEW all \in [Streams -> Seq(Nat)]
    PROVE  \A n : n \in UNION {ToSet(all[s]) : s \in Streams} <=>
               \E s \in Streams : \E i \in 1..Len(all[s]) : all[s][i] = n
<1>1. \A s \in Streams : \A n : n \in ToSet(all[s]) <=> \E i \in 1..Len(all[s]) : all[s][i] = n
  BY Elements
<1> QED
  BY <1>1

(* Records that only move, or that are malformed, are not missing *)
NothingGoesMissing == Missing' = Missing /\ Stored \subseteq Stored'

LEMMA PushedLosesNothing ==
    ASSUME Hands, Hands', NEW to \in Streams \cup {Malformed}, Channel!Pushed(to)
    PROVE  NothingGoesMissing
<1> DEFINE n == Len(sent) + 1
<1>1. /\ OnTheWay \in Seq(Nat) /\ n \in Nat /\ Len(OnTheWay) \in Nat
      /\ OnTheWay' = Append(OnTheWay, n) /\ sent' = Append(sent, to) /\ streams' = streams
  BY OnTheWayParts, HandsMeans, SeqMonotonic, LenProperties DEF Channel!Pushed
<1>2. /\ Arrived' = Arrived \cup {n} /\ \A m \in Arrived : sent'[m] = sent[m]
  <2>1. Len(sent') = Len(sent) + 1 /\ \A m \in 1..Len(sent) : sent'[m] = sent[m]
    BY <1>1, HandsMeans, AppendProperties
  <2> QED
    BY <2>1, HandsMeans DEF Arrived
<1>3. /\ Len(OnTheWay') = Len(OnTheWay) + 1 /\ OnTheWay'[Len(OnTheWay) + 1] = n
      /\ \A i \in 1..Len(OnTheWay) : OnTheWay'[i] = OnTheWay[i]
  BY <1>1, AppendProperties
<1>4. \A m : m \in ToSet(OnTheWay)' <=> m \in ToSet(OnTheWay) \cup {n}
  <2>1. \A i \in 1..Len(OnTheWay') : i \in 1..Len(OnTheWay) \/ OnTheWay'[i] = n
    BY <1>1, <1>3
  <2>2. 1..Len(OnTheWay) \subseteq 1..Len(OnTheWay') /\ Len(OnTheWay) + 1 \in 1..Len(OnTheWay')
    BY <1>1, <1>3
  <2>3. OnTheWay' \in Seq(Nat)
    BY <1>1, AppendProperties
  <2>4. \A m : m \in ToSet(OnTheWay) <=> \E i \in 1..Len(OnTheWay) : OnTheWay[i] = m
    BY <1>1, Elements
  <2>5. \A m : m \in ToSet(OnTheWay)' <=> \E i \in 1..Len(OnTheWay') : OnTheWay'[i] = m
    BY <2>3, Elements
  <2> HIDE DEF n
  <2> QED
    BY <1>3, <2>1, <2>2, <2>4, <2>5
<1>5. Stored' = Stored
  BY <1>1 DEF Stored
<1>6. n \notin Arrived
  BY HandsMeans DEF Arrived
<1> HIDE DEF n
<1> QED
  BY <1>2, <1>4, <1>5, <1>6 DEF NothingGoesMissing, Missing, Valid, Arrived

LEMMA DeliveredLosesNothing ==
    ASSUME Hands, Hands', Channel!Delivered
    PROVE  NothingGoesMissing
<1> DEFINE n == Head(OnTheWay)
<1>1. /\ OnTheWay # <<>> /\ sent[n] \in Streams /\ OnTheWay' = Tail(OnTheWay) /\ sent' = sent
      /\ streams' = [streams EXCEPT ![sent[n]] = Append(@, n)]
  BY DEF Channel!Delivered
<1>2. /\ OnTheWay \in Seq(Arrived) /\ OnTheWay \in Seq(Nat) /\ Arrived \subseteq Nat
      /\ streams \in [Streams -> Seq(Nat)]
  BY OnTheWayParts, HandsMeans, SeqMonotonic
<1>3. /\ n = OnTheWay[1] /\ Len(OnTheWay) \in Nat \ {0} /\ n \in Nat
  BY <1>1, <1>2, EmptySeq, HeadTailProperties
<1>4. Len(OnTheWay') = Len(OnTheWay) - 1
      /\ \A i \in 1..Len(OnTheWay) - 1 : OnTheWay'[i] = OnTheWay[i + 1]
  BY <1>1, <1>2, HeadTailProperties
<1> HIDE DEF n
<1>5. \A m : m \in ToSet(OnTheWay) <=> m \in ToSet(OnTheWay)' \cup {n}
  <2>1. \A i \in 1..Len(OnTheWay) :
            \/ i = 1
            \/ i - 1 \in 1..Len(OnTheWay') /\ OnTheWay'[i - 1] = OnTheWay[i]
    BY <1>3, <1>4
  <2>2. \A i \in 1..Len(OnTheWay') : i + 1 \in 1..Len(OnTheWay) /\ OnTheWay'[i] = OnTheWay[i + 1]
    BY <1>3, <1>4
  <2>3. 1 \in 1..Len(OnTheWay) /\ OnTheWay' \in Seq(Nat)
    BY <1>1, <1>2, <1>3, HeadTailProperties
  <2>4. \A m : m \in ToSet(OnTheWay) <=> \E i \in 1..Len(OnTheWay) : OnTheWay[i] = m
    BY <1>2, Elements
  <2>5. \A m : m \in ToSet(OnTheWay)' <=> \E i \in 1..Len(OnTheWay') : OnTheWay'[i] = m
    BY <2>3, Elements
  <2> QED
    BY <1>3, <2>1, <2>2, <2>3, <2>4, <2>5
<1>6. \A m : m \in Stored' <=> m \in Stored \cup {n}
  <2> DEFINE s0 == sent[n]
  <2>1. /\ streams[s0] \in Seq(Nat) /\ Len(streams[s0]) \in Nat
        /\ streams'[s0] = Append(streams[s0], n)
        /\ \A s \in Streams \ {s0} : streams'[s] = streams[s]
    BY <1>1, <1>2, LenProperties
  <2>2. /\ Len(streams'[s0]) = Len(streams[s0]) + 1 /\ streams'[s0][Len(streams[s0]) + 1] = n
        /\ \A i \in 1..Len(streams[s0]) : streams'[s0][i] = streams[s0][i]
    BY <1>3, <2>1, AppendProperties
  <2>3. /\ \A i \in 1..Len(streams'[s0]) : i \in 1..Len(streams[s0]) \/ streams'[s0][i] = n
        /\ 1..Len(streams[s0]) \subseteq 1..Len(streams'[s0])
        /\ Len(streams[s0]) + 1 \in 1..Len(streams'[s0])
    BY <2>1, <2>2
  <2>4. s0 \in Streams /\ streams' \in [Streams -> Seq(Nat)]
    BY <1>1 DEF Hands, TypeOK
  <2> HIDE DEF s0
  <2>5. \A m : m \in Stored <=>
            \E s \in Streams : \E i \in 1..Len(streams[s]) : streams[s][i] = m
    BY <1>2, ElementsOfAll DEF Stored
  <2>6. \A m : m \in Stored' <=>
            \E s \in Streams : \E i \in 1..Len(streams'[s]) : streams'[s][i] = m
    BY <2>4, ElementsOfAll DEF Stored
  <2>7. ASSUME NEW s \in Streams, NEW i \in 1..Len(streams'[s])
        PROVE  streams'[s][i] = n \/ \E j \in 1..Len(streams[s]) : streams[s][j] = streams'[s][i]
    BY <2>1, <2>2, <2>3
  <2>8. ASSUME NEW s \in Streams, NEW i \in 1..Len(streams[s])
        PROVE  \E j \in 1..Len(streams'[s]) : streams'[s][j] = streams[s][i]
    BY <2>1, <2>2, <2>3
  <2>9. n \in Stored'
    BY <2>2, <2>3, <2>4, <2>6
  <2>10. ASSUME NEW m \in Stored' PROVE m \in Stored \cup {n}
    <3>1. PICK s \in Streams : \E i \in 1..Len(streams'[s]) : streams'[s][i] = m
      BY <2>6
    <3>2. m = n \/ \E j \in 1..Len(streams[s]) : streams[s][j] = m
      BY <2>7, <3>1
    <3> QED
      BY <2>5, <3>2
  <2>11. ASSUME NEW m \in Stored PROVE m \in Stored'
    <3>1. PICK s \in Streams : \E i \in 1..Len(streams[s]) : streams[s][i] = m
      BY <2>5
    <3>2. \E j \in 1..Len(streams'[s]) : streams'[s][j] = m
      BY <2>8, <3>1
    <3> QED
      BY <2>6, <3>2
  <2> QED
    BY <2>9, <2>10, <2>11
<1>7. Stored \subseteq Stored'
  BY <1>6
<1> QED
  BY <1>1, <1>5, <1>6, <1>7 DEF NothingGoesMissing, Missing, Valid

LEMMA DiscardedLosesNothing ==
    ASSUME Hands, Hands', Channel!Discarded
    PROVE  NothingGoesMissing
<1>1. PICK k \in 1..Len(OnTheWay) :
         sent[OnTheWay[k]] = Malformed /\ OnTheWay' = RemoveAt(OnTheWay, k)
  BY DEF Channel!Discarded, RemoveAt, Channel!RemoveAt
<1>2. sent' = sent /\ streams' = streams
  BY DEF Channel!Discarded
<1>3. OnTheWay \in Seq(Arrived) /\ Len(OnTheWay) \in Nat
  BY OnTheWayParts, LenProperties
<1>4. /\ Len(OnTheWay') = Len(OnTheWay) - 1
      /\ \A i \in 1..Len(OnTheWay) - 1 : OnTheWay'[i] = IF i < k THEN OnTheWay[i] ELSE OnTheWay[i + 1]
  BY <1>1, <1>3, RemoveAtProperties
<1>5. ASSUME NEW i \in 1..Len(OnTheWay), i # k
      PROVE  \E j \in 1..Len(OnTheWay') : OnTheWay'[j] = OnTheWay[i]
  <2>1. CASE i < k
    <3>1. i \in 1..Len(OnTheWay) - 1
      BY <1>3, <2>1
    <3> QED
      BY <1>4, <2>1, <3>1
  <2>2. CASE ~(i < k)
    <3>1. i - 1 \in 1..Len(OnTheWay) - 1 /\ ~(i - 1 < k) /\ (i - 1) + 1 = i
      BY <1>3, <1>5, <2>2
    <3>2. OnTheWay'[i - 1] = OnTheWay[(i - 1) + 1]
      BY <1>4, <3>1
    <3> QED
      BY <1>4, <3>1, <3>2
  <2> QED
    BY <2>1, <2>2
<1>6. ASSUME NEW j \in 1..Len(OnTheWay') PROVE \E i \in 1..Len(OnTheWay) : OnTheWay'[j] = OnTheWay[i]
  <2>1. j \in 1..Len(OnTheWay) - 1 /\ j \in 1..Len(OnTheWay) /\ j + 1 \in 1..Len(OnTheWay)
    BY <1>3, <1>4
  <2>2. OnTheWay'[j] = OnTheWay[j] \/ OnTheWay'[j] = OnTheWay[j + 1]
    BY <1>4, <2>1
  <2> QED
    BY <2>1, <2>2
<1>p. /\ \A m : m \in ToSet(OnTheWay) <=> \E i \in 1..Len(OnTheWay) : OnTheWay[i] = m
      /\ \A m : m \in ToSet(OnTheWay)' <=> \E i \in 1..Len(OnTheWay') : OnTheWay'[i] = m
  <2>1. OnTheWay' \in Seq(Arrived)
    BY <1>1, <1>3, RemoveAtProperties
  <2> QED
    BY <1>3, <2>1, Elements
<1>7. \A m : m \in ToSet(OnTheWay)' => m \in ToSet(OnTheWay)
  BY <1>6, <1>p
<1>8. \A m : m \in ToSet(OnTheWay) => m \in ToSet(OnTheWay)' \/ ~Valid(m)
  BY <1>1, <1>5, <1>p DEF Valid
<1> QED
  BY <1>2, <1>7, <1>8 DEF NothingGoesMissing, Missing, Valid, Stored

(* A loss takes the first records on their way, a batch at most. *)
LEMMA LostIsABatch ==
    ASSUME Hands, Hands', Channel!Lost
    PROVE  /\ Cardinality(Missing' \ Missing) <= BatchSize
           /\ Stored \subseteq Stored' /\ faults' = faults + 1
<1>1. PICK k \in 0..Len(OnTheWay) :
         k <= BatchSize /\ OnTheWay' = SubSeq(OnTheWay, k + 1, Len(OnTheWay))
  BY DEF Channel!Lost
<1>2. UNCHANGED <<sent, streams>> /\ faults' = faults + 1
  BY DEF Channel!Lost
<1>3. OnTheWay \in Seq(Arrived) /\ Len(OnTheWay) \in Nat
      /\ \A i \in 1..Len(OnTheWay) : OnTheWay[i] \in Arrived
  BY OnTheWayParts, LenProperties, ElementOfSeq
<1>4. /\ Len(OnTheWay') = Len(OnTheWay) - k
      /\ \A i \in 1..Len(OnTheWay) - k : OnTheWay'[i] = OnTheWay[i + k]
  <2>1. /\ Len(OnTheWay') = IF k + 1 <= Len(OnTheWay) THEN Len(OnTheWay) - (k + 1) + 1 ELSE 0
        /\ \A i \in 1..Len(OnTheWay) - (k + 1) + 1 : OnTheWay'[i] = OnTheWay[(k + 1) + i - 1]
    BY <1>1, <1>3, SubSeqProperties
  <2> QED
    BY <1>3, <2>1
<1> DEFINE gone == {OnTheWay[i] : i \in 1..k}
           f == [i \in 1..k |-> OnTheWay[i]]
<1>5. Missing' \ Missing \subseteq gone
  <2> SUFFICES ASSUME NEW n \in Missing', n \notin Missing PROVE n \in gone
    OBVIOUS
  <2>1. n \in ToSet(OnTheWay) /\ n \notin ToSet(OnTheWay)'
    BY <1>2 DEF Missing, Valid, Stored
  <2>2. PICK i \in 1..Len(OnTheWay) : OnTheWay[i] = n
    BY <1>3, <2>1, Elements
  <2>3. ASSUME i > k PROVE FALSE
    <3>1. i - k \in 1..Len(OnTheWay) - k /\ (i - k) + k = i
      BY <1>3, <2>3
    <3>2. OnTheWay'[i - k] = n /\ i - k \in 1..Len(OnTheWay')
      BY <1>4, <2>2, <3>1
    <3>3. OnTheWay' \in Seq(Arrived)
      BY <1>1, <1>3, SplitAt
    <3> QED
      BY <2>1, <3>2, <3>3, Elements
  <2>4. i \in 1..k
    BY <1>3, <2>3
  <2> QED
    BY <2>2, <2>4
<1>6. IsFiniteSet(gone) /\ Cardinality(gone) <= k
  <2>1. IsFiniteSet(1..k) /\ Cardinality(1..k) = k
    BY FS_Interval
  <2>2. f \in Surjection(1..k, gone)
    BY DEF Surjection
  <2> HIDE DEF f, gone
  <2> QED
    BY <2>1, <2>2, FS_Surjection
<1> HIDE DEF gone
<1>7. Cardinality(Missing' \ Missing) <= k
  <2>1. /\ IsFiniteSet(Missing' \ Missing)
        /\ Cardinality(Missing' \ Missing) <= Cardinality(gone)
    BY <1>5, <1>6, FS_Subset
  <2>2. Cardinality(Missing' \ Missing) \in Nat /\ Cardinality(gone) \in Nat
    BY <1>6, <2>1, FS_CardinalityType
  <2> QED
    BY <1>6, <2>1, <2>2
<1>8. IsFiniteSet(Missing' \ Missing)
  BY <1>5, <1>6, FS_Subset
<1>9. Cardinality(Missing' \ Missing) <= BatchSize
  <2>1. Cardinality(Missing' \ Missing) \in Nat
    BY <1>8, FS_CardinalityType
  <2> QED
    BY <1>1, <1>7, <2>1, HandsMeans
<1> QED
  BY <1>2, <1>9 DEF Stored

(* What one step may cost *)
Harmless == NothingGoesMissing /\ faults' = faults

Costly == /\ Cardinality(Missing' \ Missing) <= BatchSize
          /\ Stored \subseteq Stored'
          /\ faults' = faults + 1

LEMMA StepCosts ==
    ASSUME Hands, [Next]_vars
    PROVE  Harmless \/ Costly
<1>1. Hands' /\ (ChannelStays \/ Channel!Next)
  BY StepOfTheChannel
<1>2. CASE ChannelStays
  BY <1>2 DEF ChannelStays, Harmless, NothingGoesMissing, Missing, Stored, Valid
<1>3. ASSUME NEW to \in Streams \cup {Malformed}, Channel!Pushed(to) PROVE Harmless
  <2>1. faults' = faults
    BY <1>3 DEF Channel!Pushed
  <2> QED
    BY <1>1, <1>3, <2>1, PushedLosesNothing DEF Harmless
<1>4. CASE Channel!Delivered
  <2>1. faults' = faults
    BY <1>4 DEF Channel!Delivered
  <2> QED
    BY <1>1, <1>4, <2>1, DeliveredLosesNothing DEF Harmless
<1>5. CASE Channel!Discarded
  <2>1. faults' = faults
    BY <1>5 DEF Channel!Discarded
  <2> QED
    BY <1>1, <1>5, <2>1, DiscardedLosesNothing DEF Harmless
<1>6. CASE Channel!Lost
  BY <1>1, <1>6, LostIsABatch DEF Costly
<1> QED
  BY <1>1, <1>2, <1>3, <1>4, <1>5, <1>6 DEF Channel!Next

(* A valid record goes missing only together with a fault, a batch at most   *)
(* per fault, and what a stream holds it keeps (consumer.py lines 51-93).    *)
THEOREM LossesAreFaults == Spec => LossNeedsAFault
<1> DEFINE Bounded == /\ Missing' # Missing => faults' = faults + 1
                      /\ Cardinality(Missing' \ Missing) <= BatchSize
                      /\ Stored \subseteq Stored'
<1>1. Harmless => Bounded
  <2>1. Cardinality({}) = 0 /\ BatchSize \in Nat
    BY FS_EmptySet, IngestAssumption
  <2>2. Missing' = Missing => Missing' \ Missing = {}
    OBVIOUS
  <2> QED
    BY <2>1, <2>2 DEF Harmless, NothingGoesMissing
<1>2. Costly => Bounded
  BY DEF Costly
<1>3. Hands /\ [Next]_vars => Bounded
  BY <1>1, <1>2, StepCosts
<1> QED
  BY <1>3, HandsHold, PTL DEF Spec, LossNeedsAFault

LEMMA SomeAreFinite ==
    ASSUME NEW n \in Nat, NEW S \in SUBSET (1..n)
    PROVE  IsFiniteSet(S) /\ Cardinality(S) \in Nat
<1>1. IsFiniteSet(1..n)
  BY FS_Interval
<1>2. IsFiniteSet(S)
  BY <1>1, FS_Subset
<1> QED
  BY <1>2, FS_CardinalityType

(* What all the faults have cost together. *)
LEMMA CostAddsUp ==
    ASSUME Hands, Hands', LossIsBounded, Harmless \/ Costly
    PROVE  LossIsBounded'
<1>1. /\ IsFiniteSet(Missing) /\ Cardinality(Missing) \in Nat
      /\ IsFiniteSet(Missing') /\ Cardinality(Missing') \in Nat
  <2>1. Len(sent) \in Nat /\ Len(sent)' \in Nat
    BY LenProperties DEF Hands, TypeOK
  <2>2. Missing \in SUBSET (1..Len(sent)) /\ Missing' \in SUBSET (1..Len(sent)')
    BY DEF Missing
  <2> QED
    BY <2>1, <2>2, SomeAreFinite
<1>2. BatchSize \in Nat /\ faults \in Nat
  BY IngestAssumption DEF Hands, TypeOK
<1> DEFINE c == BatchSize * faults
<1>3. c \in Nat /\ BatchSize * (faults + 1) = c + BatchSize
  <2>1. \A b, f \in Nat : b * f \in Nat
    OBVIOUS
  <2>2. \A b, f \in Nat : b * (f + 1) = b * f + b
    BY Z3
  <2> QED
    BY <1>2, <2>1, <2>2
<1>4. Cardinality(Missing) <= c
  BY DEF LossIsBounded
<1>5. CASE Harmless
  BY <1>4, <1>5 DEF Harmless, NothingGoesMissing, LossIsBounded
<1>6. CASE Costly
  <2> DEFINE new == Missing' \ Missing
  <2>1. Cardinality(new) <= BatchSize /\ faults' = faults + 1
    BY <1>6 DEF Costly
  <2>2. new \subseteq Missing' /\ Missing' \subseteq Missing \cup new /\ Missing \cap new = {}
    OBVIOUS
  <2> HIDE DEF new, c
  <2>3. IsFiniteSet(new) /\ Cardinality(new) \in Nat
    BY <1>1, <2>2, FS_Subset, FS_CardinalityType
  <2>4. /\ IsFiniteSet(Missing \cup new)
        /\ Cardinality(Missing \cup new)
               = Cardinality(Missing) + Cardinality(new) - Cardinality(Missing \cap new)
    BY <1>1, <2>3, FS_Union
  <2>5. Cardinality(Missing \cap new) = 0
    BY <2>2, FS_EmptySet
  <2>6. Cardinality(Missing') <= Cardinality(Missing \cup new)
    BY <2>2, <2>4, FS_Subset
  <2>7. Cardinality(Missing') <= c + BatchSize
    BY <1>1, <1>2, <1>3, <1>4, <2>1, <2>3, <2>4, <2>5, <2>6
  <2> QED
    BY <1>3, <2>1, <2>7 DEF LossIsBounded
<1> QED
  BY <1>5, <1>6

(* However many records pass and however the server fails, what is missing   *)
(* is no more than a batch for every fault (consumer.py lines 51-93): the    *)
(* loss does not grow with the traffic.                                     *)
THEOREM LossesAddUp == Spec => []LossIsBounded
<1>1. Init => LossIsBounded
  <2> SUFFICES ASSUME Init PROVE LossIsBounded
    OBVIOUS
  <2>1. Len(sent) = 0
    BY EmptySeq DEF Init
  <2>2. Missing = {}
    BY <2>1 DEF Missing
  <2>3. Cardinality({}) = 0 /\ BatchSize * 0 = 0 /\ faults = 0
    BY FS_EmptySet, IngestAssumption DEF Init
  <2> QED
    BY <2>2, <2>3 DEF LossIsBounded
<1>2. Hands /\ Hands' /\ LossIsBounded /\ [Next]_vars => LossIsBounded'
  BY StepCosts, CostAddsUp
<1> QED
  BY <1>1, <1>2, HandsHold, PTL DEF Spec
=============================================================================
