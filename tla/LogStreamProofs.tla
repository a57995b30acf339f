--------------------------- MODULE LogStreamProofs --------------------------
(***************************************************************************)
(* Proofs about LogStream, for every number of lines.                      *)
(***************************************************************************)
EXTENDS LogStream, SequenceTheorems, FiniteSetTheorems, TLAPS

-----------------------------------------------------------------------------
(* The inductive invariant.                                                *)

Items == Lines \cup {End}

EndsOf(items) == {i \in DOMAIN items : items[i] = End}

(* Pumps of which the End is not on the queue yet *)
Unfinished == (IF pump["stdout"] = "done" THEN 0 ELSE 1)
            + (IF pump["stderr"] = "done" THEN 0 ELSE 1)

AllDone == \A p \in Pipes : pump[p] = "done"

(* An End follows every line of its pump, and the Ends on the queue are     *)
(* those that the listener still waits for and that some pump has put there *)
EndsInv ==
    /\ \A p \in Pipes : pump[p] = "done" => pipe[p] = <<>> /\ proc # "running"
    /\ Cardinality(EndsOf(queue)) = remaining - Unfinished
    /\ AllDone /\ queue # <<>> => queue[Len(queue)] = End

(* Where the listener is, and what is left of the pumps and the subprocess  *)
PhaseInv ==
    /\ lpc = "getting" => item = <<>>
    /\ lpc = "shipping" => Len(item) = 1
    /\ lpc \in {"getting", "shipping"} =>
           outcome = "none" /\ \A p \in Pipes : pump[p] # "cancelled"
    /\ lpc \in {"reaping", "ended"} => \A p \in Pipes : pump[p] # "reading"
    /\ lpc = "reaping" => proc # "running"
    /\ lpc = "ended" /\ outcome # "interrupted" => proc # "running"

ReturnInv ==
    outcome = "returned" =>
        proc # "running" /\ \A p \in Pipes : Len(handled[p]) = Len(kinds[p])

IInv == TypeOK /\ EndsInv /\ PhaseInv /\ ReturnInv /\ LinesInOrder

-----------------------------------------------------------------------------
(* Items, and the queue.                                                   *)

(* An item is the End or a line of a pipe. *)
LEMMA AnItem ==
    ASSUME NEW e \in Items
    PROVE  /\ e = End <=> e[1] \notin Pipes
           /\ e[1] \in Pipes => e[2] \in 1..MaxLines /\ e = <<e[1], e[2]>> /\ e \in Lines
<1>1. CASE e = End
  BY <1>1 DEF End, Pipes
<1>2. CASE e \in Lines
  <2>1. PICK p \in Pipes, n \in 1..MaxLines : e = <<p, n>>
    BY <1>2 DEF Lines
  <2>2. e[1] = p /\ e[2] = n
    BY <2>1
  <2>3. p # "end"
    BY DEF Pipes
  <2> QED
    BY <1>2, <2>1, <2>2, <2>3 DEF End
<1> QED
  BY <1>1, <1>2 DEF Items

(* What an item put on the queue adds to it. *)
LEMMA PutProperties ==
    ASSUME NEW q \in Seq(Items), NEW e \in Items
    PROVE  /\ Append(q, e) \in Seq(Items)
           /\ EndsOf(Append(q, e)) = EndsOf(q) \cup (IF e = End THEN {Len(q) + 1} ELSE {})
           /\ \A p \in Pipes : NumbersOf(p, Append(q, e)) =
                  NumbersOf(p, q) \cup (IF e[1] = p THEN {e[2]} ELSE {})
<1>1. /\ DOMAIN q = 1..Len(q) /\ Len(q) \in Nat /\ Append(q, e) \in Seq(Items)
      /\ DOMAIN Append(q, e) = 1..(Len(q) + 1)
      /\ \A i \in 1..Len(q) : Append(q, e)[i] = q[i]
      /\ Append(q, e)[Len(q) + 1] = e
  BY LenProperties, AppendProperties
<1>2. \A i : i \in 1..(Len(q) + 1) <=> i \in 1..Len(q) \/ i = Len(q) + 1
  BY <1>1
<1>3. Len(q) + 1 \notin 1..Len(q)
  BY <1>1
<1>4. EndsOf(Append(q, e)) = EndsOf(q) \cup (IF e = End THEN {Len(q) + 1} ELSE {})
  BY <1>1, <1>2, <1>3 DEF EndsOf
<1>5. ASSUME NEW p \in Pipes
      PROVE  NumbersOf(p, Append(q, e)) = NumbersOf(p, q) \cup (IF e[1] = p THEN {e[2]} ELSE {})
  BY <1>1, <1>2 DEF NumbersOf
<1> QED
  BY <1>1, <1>4, <1>5

(* What the listener takes off the queue. *)
LEMMA TakeProperties ==
    ASSUME NEW q \in Seq(Items), q # <<>>
    PROVE  /\ Tail(q) \in Seq(Items) /\ Head(q) \in Items /\ Head(q) = q[1]
           /\ \A p \in Pipes : NumbersOf(p, q) =
                  NumbersOf(p, Tail(q)) \cup (IF Head(q)[1] = p THEN {Head(q)[2]} ELSE {})
<1>1. /\ DOMAIN q = 1..Len(q) /\ Len(q) \in Nat \ {0} /\ Tail(q) \in Seq(Items)
      /\ DOMAIN Tail(q) = 1..(Len(q) - 1)
      /\ \A i \in 1..(Len(q) - 1) : Tail(q)[i] = q[i + 1]
      /\ Head(q) \in Items /\ Head(q) = q[1]
  BY LenProperties, EmptySeq, HeadTailProperties
<1>2. ASSUME NEW p \in Pipes
      PROVE  NumbersOf(p, q) =
                 NumbersOf(p, Tail(q)) \cup (IF Head(q)[1] = p THEN {Head(q)[2]} ELSE {})
  <2>1. \A i \in 1..Len(q) :
            \/ i = 1
            \/ i - 1 \in 1..(Len(q) - 1) /\ Tail(q)[i - 1] = q[i]
    BY <1>1
  <2>2. 1 \in 1..Len(q) /\ \A i \in 1..(Len(q) - 1) : i + 1 \in 1..Len(q)
    BY <1>1
  <2>3. \A n : n \in NumbersOf(p, q) <=> \E i \in 1..Len(q) : q[i][1] = p /\ q[i][2] = n
    BY <1>1 DEF NumbersOf
  <2>4. \A n : n \in NumbersOf(p, Tail(q)) <=>
                \E i \in 1..(Len(q) - 1) : Tail(q)[i][1] = p /\ Tail(q)[i][2] = n
    BY <1>1 DEF NumbersOf
  <2>5. ASSUME NEW n \in NumbersOf(p, q)
        PROVE  n \in NumbersOf(p, Tail(q)) \/ (Head(q)[1] = p /\ n = Head(q)[2])
    <3>1. PICK i \in 1..Len(q) : q[i][1] = p /\ q[i][2] = n
      BY <2>3
    <3>2. CASE i = 1
      BY <3>1, <3>2, <1>1
    <3>3. CASE i # 1
      <4>1. i - 1 \in 1..(Len(q) - 1) /\ Tail(q)[i - 1] = q[i]
        BY <3>3, <2>1
      <4> QED
        BY <3>1, <4>1, <2>4
    <3> QED
      BY <3>2, <3>3
  <2>6. ASSUME NEW n \in NumbersOf(p, Tail(q)) PROVE n \in NumbersOf(p, q)
    BY <1>1, <2>2, <2>3, <2>4
  <2>7. Head(q)[1] = p => Head(q)[2] \in NumbersOf(p, q)
    BY <1>1, <2>2, <2>3
  <2> QED
    BY <2>5, <2>6, <2>7
<1> QED
  BY <1>1, <1>2

(* The Ends of what is left, in number. *)
LEMMA EndsAreFinite ==
    ASSUME NEW q \in Seq(Items)
    PROVE  IsFiniteSet(EndsOf(q)) /\ Cardinality(EndsOf(q)) \in Nat
<1>1. EndsOf(q) \subseteq 1..Len(q) /\ Len(q) \in Nat
  BY LenProperties DEF EndsOf
<1>2. IsFiniteSet(1..Len(q))
  BY <1>1, FS_Interval
<1>3. IsFiniteSet(EndsOf(q))
  BY <1>1, <1>2, FS_Subset
<1> QED
  BY <1>3, FS_CardinalityType

LEMMA EndsLeft ==
    ASSUME NEW q \in Seq(Items), q # <<>>
    PROVE  Cardinality(EndsOf(q)) =
               Cardinality(EndsOf(Tail(q))) + (IF Head(q) = End THEN 1 ELSE 0)
<1> DEFINE later == EndsOf(q) \ {1}
           back == [i \in later |-> i - 1]
<1>1. /\ DOMAIN q = 1..Len(q) /\ Len(q) \in Nat \ {0} /\ Tail(q) \in Seq(Items)
      /\ DOMAIN Tail(q) = 1..(Len(q) - 1)
      /\ \A i \in 1..(Len(q) - 1) : Tail(q)[i] = q[i + 1]
      /\ Head(q) = q[1]
  BY LenProperties, EmptySeq, HeadTailProperties
<1>2. \A i \in later : i \in 2..Len(q) /\ q[i] = End
  BY <1>1 DEF EndsOf
<1>3. \A i \in later : i - 1 \in EndsOf(Tail(q))
  BY <1>1, <1>2 DEF EndsOf
<1>4. \A i \in EndsOf(Tail(q)) : i + 1 \in later /\ i + 1 - 1 = i
  BY <1>1 DEF EndsOf
<1>5. back \in Bijection(later, EndsOf(Tail(q)))
  <2>1. back \in [later -> EndsOf(Tail(q))]
    BY <1>3
  <2>2. \A i, j \in later : back[i] = back[j] => i = j
    BY <1>2
  <2>3. \A i \in EndsOf(Tail(q)) : \E j \in later : back[j] = i
    <3> SUFFICES ASSUME NEW i \in EndsOf(Tail(q)) PROVE back[i + 1] = i /\ i + 1 \in later
      OBVIOUS
    <3> QED
      BY <1>4
  <2> QED
    BY <2>1, <2>2, <2>3 DEF Bijection, Injection, IsInjective, Surjection
<1>6. IsFiniteSet(EndsOf(q)) /\ IsFiniteSet(later)
  BY EndsAreFinite, FS_RemoveElement
<1>7. Cardinality(EndsOf(Tail(q))) = Cardinality(later)
  <2> HIDE DEF later, back
  <2> QED
    BY <1>5, <1>6, FS_Bijection DEF ExistsBijection
<1>8. 1 \in EndsOf(q) <=> Head(q) = End
  BY <1>1 DEF EndsOf
<1>9. Cardinality(later) = IF 1 \in EndsOf(q) THEN Cardinality(EndsOf(q)) - 1
                                              ELSE Cardinality(EndsOf(q))
  BY <1>6, FS_RemoveElement
<1> HIDE DEF later
<1> QED
  BY <1>7, <1>8, <1>9, EndsAreFinite

(* The order on the queue: a line with a larger number is put behind it, and *)
(* the one that is taken has the smallest number.                            *)
LEMMA PutKeepsOrder ==
    ASSUME NEW q \in Seq(Items), NEW e \in Items, NEW p \in Pipes, InOrder(p, q),
           e[1] = p => \A n \in NumbersOf(p, q) : n < e[2]
    PROVE  InOrder(p, Append(q, e))
<1>1. /\ DOMAIN q = 1..Len(q) /\ Len(q) \in Nat
      /\ DOMAIN Append(q, e) = 1..(Len(q) + 1)
      /\ \A i \in 1..Len(q) : Append(q, e)[i] = q[i]
      /\ Append(q, e)[Len(q) + 1] = e
  BY LenProperties, AppendProperties
<1> SUFFICES ASSUME NEW i \in 1..(Len(q) + 1), NEW j \in 1..(Len(q) + 1), i < j,
                    Append(q, e)[i][1] = p, Append(q, e)[j][1] = p
             PROVE  Append(q, e)[i][2] < Append(q, e)[j][2]
  BY <1>1 DEF InOrder
<1>2. i \in 1..Len(q)
  BY <1>1
<1>3. CASE j \in 1..Len(q)
  BY <1>1, <1>2, <1>3 DEF InOrder
<1>4. CASE j = Len(q) + 1
  <2>1. q[i][2] \in NumbersOf(p, q)
    BY <1>1, <1>2 DEF NumbersOf
  <2> QED
    BY <1>1, <1>2, <1>4, <2>1
<1> QED
  BY <1>1, <1>3, <1>4

LEMMA TakeKeepsOrder ==
    ASSUME NEW q \in Seq(Items), q # <<>>, NEW p \in Pipes, InOrder(p, q)
    PROVE  /\ InOrder(p, Tail(q))
           /\ Head(q)[1] = p => \A n \in NumbersOf(p, Tail(q)) : Head(q)[2] < n
<1>1. /\ DOMAIN q = 1..Len(q) /\ Len(q) \in Nat \ {0} /\ Tail(q) \in Seq(Items)
      /\ DOMAIN Tail(q) = 1..(Len(q) - 1)
      /\ \A i \in 1..(Len(q) - 1) : Tail(q)[i] = q[i + 1]
      /\ Head(q) = q[1]
  BY LenProperties, EmptySeq, HeadTailProperties
<1>2. \A i \in 1..(Len(q) - 1) : i + 1 \in 1..Len(q) /\ 1 < i + 1
  BY <1>1
<1>3. \A i, j \in 1..(Len(q) - 1) : i < j => i + 1 < j + 1
  BY <1>1
<1>4. InOrder(p, Tail(q))
  <2> SUFFICES ASSUME NEW i \in 1..(Len(q) - 1), NEW j \in 1..(Len(q) - 1), i < j,
                      q[i + 1][1] = p, q[j + 1][1] = p
               PROVE  q[i + 1][2] < q[j + 1][2]
    BY <1>1 DEF InOrder
  <2> QED
    BY <1>1, <1>2, <1>3 DEF InOrder
<1>5. ASSUME Head(q)[1] = p, NEW n \in NumbersOf(p, Tail(q))
      PROVE  Head(q)[2] < n
  <2>1. PICK i \in 1..(Len(q) - 1) : Tail(q)[i][1] = p /\ Tail(q)[i][2] = n
    BY <1>1 DEF NumbersOf
  <2>2. q[i + 1][1] = p /\ q[i + 1][2] = n /\ i + 1 \in DOMAIN q /\ 1 \in DOMAIN q /\ 1 < i + 1
    BY <1>1, <1>2, <2>1
  <2> QED
    BY <1>1, <1>5, <2>2 DEF InOrder
<1> QED
  BY <1>4, <1>5

-----------------------------------------------------------------------------
(* Types.                                                                  *)

LEMMA ItemsMeans ==
    ASSUME TypeOK
    PROVE  /\ queue \in Seq(Items)
           /\ \A p \in Pipes :
                  /\ Len(kinds[p]) \in Nat /\ Len(pipe[p]) \in Nat /\ Len(handled[p]) \in Nat
                  /\ DOMAIN pipe[p] = 1..Len(pipe[p]) /\ DOMAIN handled[p] = 1..Len(handled[p])
                  /\ kinds[p] \in Seq(LineKinds) /\ pipe[p] \in Seq(1..MaxLines)
                  /\ handled[p] \in Seq(1..MaxLines)
           /\ InHand("stdout") \/ InHand("stderr") <=> item # <<>>
           /\ item # <<>> => Len(item) = 1 /\ item[1] \in Lines
<1>1. queue \in Seq(Items)
  BY DEF TypeOK, Items
<1>2. \A p \in Pipes :
          /\ kinds[p] \in Seq(LineKinds) /\ pipe[p] \in Seq(1..MaxLines)
          /\ handled[p] \in Seq(1..MaxLines)
  BY DEF TypeOK
<1>3. item # <<>> => Len(item) = 1 /\ item[1] \in Lines
  <2>1. item \in Seq(Lines) /\ Len(item) <= 1
    BY DEF TypeOK
  <2>2. item # <<>> => Len(item) \in Nat \ {0}
    BY <2>1, EmptySeq
  <2>3. item # <<>> => Len(item) = 1
    <3> SUFFICES ASSUME item # <<>> PROVE Len(item) = 1
      OBVIOUS
    <3>1. Len(item) \in Nat /\ Len(item) # 0 /\ Len(item) <= 1
      BY <2>1, <2>2
    <3>2. \A k \in Nat : k # 0 /\ k <= 1 => k = 1
      OBVIOUS
    <3> QED
      BY <3>1, <3>2
  <2>4. Len(item) = 1 => item[1] \in Lines
    BY <2>1, LenProperties
  <2> QED
    BY <2>3, <2>4
<1>4. \A e \in Lines : e[1] \in Pipes
  BY DEF Lines
<1>5. InHand("stdout") \/ InHand("stderr") <=> item # <<>>
  BY <1>3, <1>4 DEF InHand, Pipes
<1> QED
  BY <1>1, <1>2, <1>3, <1>5, LenProperties

(* The item at the head of the queue, in the listener's loop. *)
LEMMA HeadMeans ==
    ASSUME TypeOK, queue # <<>>
    PROVE  /\ Head(queue) \in Items /\ Tail(queue) \in Seq(Items)
           /\ Head(queue) # End =>
                  /\ Head(queue) \in Lines
                  /\ Head(queue)[1] \in Pipes /\ Head(queue)[2] \in 1..MaxLines
<1>1. queue \in Seq(Items)
  BY ItemsMeans
<1>2. Head(queue) \in Items /\ Tail(queue) \in Seq(Items)
  BY <1>1, TakeProperties
<1> QED
  BY <1>2, AnItem

(* A line of a pipe more, at the end of what is kept of that pipe. *)
LEMMA AppendAt ==
    ASSUME NEW S, NEW f \in [Pipes -> Seq(S)], NEW p \in Pipes, NEW n \in S
    PROVE  /\ [f EXCEPT ![p] = Append(@, n)] \in [Pipes -> Seq(S)]
           /\ \A r \in Pipes \ {p} : [f EXCEPT ![p] = Append(@, n)][r] = f[r]
           /\ Len([f EXCEPT ![p] = Append(@, n)][p]) = Len(f[p]) + 1
           /\ [f EXCEPT ![p] = Append(@, n)][p][Len(f[p]) + 1] = n
           /\ \A i \in 1..Len(f[p]) : [f EXCEPT ![p] = Append(@, n)][p][i] = f[p][i]
<1>1. f[p] \in Seq(S)
  OBVIOUS
<1>2. [f EXCEPT ![p] = Append(@, n)][p] = Append(f[p], n)
  OBVIOUS
<1>3. /\ Append(f[p], n) \in Seq(S) /\ Len(Append(f[p], n)) = Len(f[p]) + 1
      /\ Append(f[p], n)[Len(f[p]) + 1] = n
      /\ \A i \in 1..Len(f[p]) : Append(f[p], n)[i] = f[p][i]
  BY <1>1, AppendProperties
<1> QED
  BY <1>2, <1>3

(* The first line of a pipe is read. *)
LEMMA TailAt ==
    ASSUME NEW S, NEW f \in [Pipes -> Seq(S)], NEW p \in Pipes, f[p] # <<>>
    PROVE  /\ [f EXCEPT ![p] = Tail(@)] \in [Pipes -> Seq(S)]
           /\ \A r \in Pipes \ {p} : [f EXCEPT ![p] = Tail(@)][r] = f[r]
           /\ Len([f EXCEPT ![p] = Tail(@)][p]) = Len(f[p]) - 1 /\ Len(f[p]) \in Nat \ {0}
           /\ \A i \in 1..(Len(f[p]) - 1) : [f EXCEPT ![p] = Tail(@)][p][i] = f[p][i + 1]
           /\ Head(f[p]) \in S /\ Head(f[p]) = f[p][1]
<1>1. f[p] \in Seq(S)
  OBVIOUS
<1>2. [f EXCEPT ![p] = Tail(@)][p] = Tail(f[p])
  OBVIOUS
<1>3. /\ Tail(f[p]) \in Seq(S) /\ Len(Tail(f[p])) = Len(f[p]) - 1 /\ Len(f[p]) \in Nat \ {0}
      /\ \A i \in 1..(Len(f[p]) - 1) : Tail(f[p])[i] = f[p][i + 1]
      /\ Head(f[p]) \in S /\ Head(f[p]) = f[p][1]
  BY <1>1, EmptySeq, HeadTailProperties
<1> QED
  BY <1>2, <1>3

LEMMA InitTypes == Init => TypeOK
<1> SUFFICES ASSUME Init PROVE TypeOK
  OBVIOUS
<1>1. /\ <<>> \in Seq(LineKinds) /\ <<>> \in Seq(1..MaxLines) /\ <<>> \in Seq(Lines)
      /\ <<>> \in Seq(Lines \cup {End}) /\ Len(<<>>) = 0
  BY EmptySeq
<1>2. Len(item) <= 1 /\ \A p \in Pipes : Len(kinds[p]) <= MaxLines
  BY <1>1, MaxLinesAssumption DEF Init
<1> QED
  BY <1>1, <1>2 DEF Init, TypeOK

LEMMA WritesKeepTypes ==
    ASSUME TypeOK, NEW p \in Pipes, NEW kind \in LineKinds, Writes(p, kind)
    PROVE  TypeOK'
<1>1. /\ Len(kinds[p]) \in Nat /\ Len(kinds[p]) < MaxLines
      /\ kinds' = [kinds EXCEPT ![p] = Append(@, kind)]
      /\ pipe' = [pipe EXCEPT ![p] = Append(@, Len(kinds[p]) + 1)]
  BY ItemsMeans DEF Writes
<1>2. Len(kinds[p]) + 1 \in 1..MaxLines
  BY <1>1, MaxLinesAssumption
<1>3. kinds' \in [Pipes -> Seq(LineKinds)] /\ pipe' \in [Pipes -> Seq(1..MaxLines)]
  BY <1>1, <1>2, AppendAt DEF TypeOK
<1>4. \A r \in Pipes : Len(kinds'[r]) <= MaxLines
  <2>1. /\ \A r \in Pipes \ {p} : kinds'[r] = kinds[r]
        /\ Len(kinds'[p]) = Len(kinds[p]) + 1
    BY <1>1, AppendAt DEF TypeOK
  <2>2. \A r \in Pipes : Len(kinds[r]) <= MaxLines
    BY DEF TypeOK
  <2>3. Len(kinds'[p]) <= MaxLines
    BY <1>2, <2>1, MaxLinesAssumption
  <2> QED
    BY <2>1, <2>2, <2>3
<1> QED
  BY <1>3, <1>4 DEF TypeOK, Writes

LEMMA PumpKeepsTypes ==
    ASSUME TypeOK, NEW p \in Pipes, PumpStep(p)
    PROVE  TypeOK'
<1>1. CASE PumpReads(p)
  <2>1. /\ pipe[p] # <<>> /\ pipe' = [pipe EXCEPT ![p] = Tail(@)]
        /\ queue' = Append(queue, <<p, Head(pipe[p])>>)
    BY <1>1 DEF PumpReads
  <2>2. pipe' \in [Pipes -> Seq(1..MaxLines)] /\ Head(pipe[p]) \in 1..MaxLines
    BY <2>1, TailAt DEF TypeOK
  <2>3. <<p, Head(pipe[p])>> \in Items /\ queue \in Seq(Items)
    BY <2>2, ItemsMeans DEF Items, Lines
  <2>4. queue' \in Seq(Lines \cup {End})
    BY <2>1, <2>3, AppendProperties DEF Items
  <2> QED
    BY <1>1, <2>2, <2>4 DEF TypeOK, PumpReads
<1>2. CASE PumpFails(p)
  <2>1. pipe' \in [Pipes -> Seq(1..MaxLines)]
    BY <1>2, TailAt DEF TypeOK, PumpFails
  <2> QED
    BY <1>2, <2>1 DEF TypeOK, PumpFails
<1>3. CASE PumpEnds(p)
  <2>1. queue \in Seq(Items) /\ End \in Items
    BY ItemsMeans DEF Items
  <2>2. queue' \in Seq(Lines \cup {End})
    BY <1>3, <2>1, AppendProperties DEF Items, PumpEnds
  <2> QED
    BY <1>3, <2>2 DEF TypeOK, PumpEnds
<1> QED
  BY <1>1, <1>2, <1>3 DEF PumpStep

(* The line in the listener's hand is of some pipe. *)
LEMMA HandedTypes ==
    ASSUME TypeOK, item # <<>>
    PROVE  /\ item[1][1] \in Pipes /\ item[1][2] \in 1..MaxLines
           /\ Handed \in [Pipes -> Seq(1..MaxLines)]
<1>1. item[1] \in Items
  BY ItemsMeans DEF Items
<1>2. item[1][1] \in Pipes /\ item[1][2] \in 1..MaxLines
  BY ItemsMeans DEF Lines
<1> QED
  BY <1>2, AppendAt DEF TypeOK, Handed

LEMMA NothingInHand == <<>> \in Seq(Lines) /\ Len(<<>>) <= 1
<1>1. <<>> \in Seq(Lines) /\ Len(<<>>) = 0
  BY EmptySeq
<1> QED
  BY <1>1

LEMMA GetsEndKeepsTypes ==
    ASSUME TypeOK, GetsEnd, remaining \in 1..2
    PROVE  TypeOK'
<1>1. queue' \in Seq(Lines \cup {End})
  BY HeadMeans DEF GetsEnd, Items
<1>2. remaining' \in 0..2
  BY DEF GetsEnd
<1> QED
  BY <1>1, <1>2 DEF TypeOK, GetsEnd

LEMMA GetsLineKeepsTypes ==
    ASSUME TypeOK, GetsLine
    PROVE  TypeOK'
<1> DEFINE p == Head(queue)[1]
           n == Head(queue)[2]
<1>1. /\ Head(queue) \in Lines /\ p \in Pipes /\ n \in 1..MaxLines
      /\ queue' \in Seq(Lines \cup {End})
  BY HeadMeans DEF GetsLine, Items
<1>2. <<Head(queue)>> \in Seq(Lines) /\ Len(<<Head(queue)>>) <= 1
  BY <1>1
<1>3. [handled EXCEPT ![p] = Append(@, n)] \in [Pipes -> Seq(1..MaxLines)]
  BY <1>1, AppendAt DEF TypeOK
<1>4. /\ handled' \in [Pipes -> Seq(1..MaxLines)]
      /\ item' \in Seq(Lines) /\ Len(item') <= 1
  BY <1>2, <1>3 DEF GetsLine, TypeOK
<1> QED
  BY <1>1, <1>4 DEF TypeOK, GetsLine

LEMMA OtherStepsKeepTypes ==
    ASSUME TypeOK, Exits \/ Ships \/ IsCancelled \/ Closes \/ Reaped \/ Interrupted,
           lpc = "shipping" => item # <<>>
    PROVE  TypeOK'
<1>1. CASE Exits
  BY <1>1 DEF TypeOK, Exits
<1>2. CASE Ships
  BY <1>2, HandedTypes, NothingInHand DEF TypeOK, Ships
<1>3. CASE IsCancelled
  <2>1. handled' \in [Pipes -> Seq(1..MaxLines)]
    BY <1>3, HandedTypes DEF TypeOK, IsCancelled
  <2> QED
    BY <1>3, <2>1, NothingInHand DEF TypeOK, IsCancelled
<1>4. CASE Closes \/ Reaped \/ Interrupted
  <2>1. PumpsCancelled \in [Pipes -> {"reading", "done", "failed", "cancelled"}]
    BY DEF TypeOK, PumpsCancelled
  <2> QED
    BY <1>4, <2>1 DEF TypeOK, Closes, Reaped, Interrupted
<1> QED
  BY <1>1, <1>2, <1>3, <1>4

-----------------------------------------------------------------------------
(* The Ends of the pumps.                                                  *)

LEMMA UnfinishedMeans == Unfinished \in 0..2 /\ (Unfinished = 0 <=> AllDone)
  BY DEF Unfinished, AllDone, Pipes

(* A done pump stays done, and nothing else comes to be done. *)
LEMMA CancelledKeepsUnfinished ==
    ASSUME TypeOK, pump' = PumpsCancelled
    PROVE  /\ \A p \in Pipes : pump'[p] = "done" <=> pump[p] = "done"
           /\ \A p \in Pipes : pump'[p] # "reading"
           /\ Unfinished' = Unfinished /\ (AllDone' <=> AllDone)
<1>1. \A p \in Pipes : pump'[p] = IF pump[p] = "reading" THEN "cancelled" ELSE pump[p]
  BY DEF PumpsCancelled
<1>2. /\ \A p \in Pipes : pump'[p] = "done" <=> pump[p] = "done"
      /\ \A p \in Pipes : pump'[p] # "reading"
  BY <1>1
<1> QED
  BY <1>2 DEF Unfinished, AllDone, Pipes

LEMMA LastOfTail ==
    ASSUME NEW S, NEW q \in Seq(S), q # <<>>, Tail(q) # <<>>
    PROVE  Tail(q)[Len(Tail(q))] = q[Len(q)]
<1>1. /\ Len(q) \in Nat \ {0} /\ Len(Tail(q)) = Len(q) - 1 /\ Len(Tail(q)) \in Nat \ {0}
      /\ \A i \in 1..Len(Tail(q)) : Tail(q)[i] = q[i + 1]
  BY EmptySeq, HeadTailProperties
<1>2. Len(Tail(q)) \in 1..Len(Tail(q)) /\ Len(Tail(q)) + 1 = Len(q)
  BY <1>1
<1> QED
  BY <1>1, <1>2

(* An End is among those that the listener still waits for. *)
LEMMA EndIsAwaited ==
    ASSUME TypeOK, EndsInv, GetsEnd
    PROVE  /\ remaining \in 1..2
           /\ Cardinality(EndsOf(queue)) \in Nat
           /\ Cardinality(EndsOf(Tail(queue))) = Cardinality(EndsOf(queue)) - 1
<1>1. queue \in Seq(Items) /\ queue # <<>> /\ Head(queue) = End
  BY ItemsMeans DEF GetsEnd
<1>2. /\ Cardinality(EndsOf(queue)) \in Nat /\ Cardinality(EndsOf(Tail(queue))) \in Nat
      /\ Cardinality(EndsOf(queue)) = Cardinality(EndsOf(Tail(queue))) + 1
  <2>1. Tail(queue) \in Seq(Items)
    BY <1>1, TakeProperties
  <2> QED
    BY <1>1, <2>1, EndsAreFinite, EndsLeft
<1>3. remaining \in 0..2 /\ Cardinality(EndsOf(queue)) = remaining - Unfinished
  BY DEF TypeOK, EndsInv
<1> QED
  BY <1>2, <1>3, UnfinishedMeans

LEMMA InitEnds == Init => EndsInv
<1> SUFFICES ASSUME Init PROVE EndsInv
  OBVIOUS
<1>1. /\ \A p \in Pipes : pump[p] = "reading"
      /\ remaining = 2 /\ queue = <<>>
  BY DEF Init
<1>2. Unfinished = 2
  BY <1>1 DEF Unfinished, Pipes
<1>3. EndsOf(queue) = {}
  BY <1>1 DEF EndsOf
<1>4. Cardinality(EndsOf(queue)) = 0
  BY <1>3, FS_EmptySet
<1> QED
  BY <1>1, <1>2, <1>4 DEF EndsInv

LEMMA PumpKeepsEnds ==
    ASSUME TypeOK, EndsInv, NEW p \in Pipes, PumpStep(p)
    PROVE  EndsInv'
<1>1. CASE PumpReads(p)
  <2>1. /\ queue' = Append(queue, <<p, Head(pipe[p])>>) /\ Head(pipe[p]) \in 1..MaxLines
        /\ \A r \in Pipes \ {p} : pipe'[r] = pipe[r]
        /\ pump' = pump /\ pump[p] = "reading" /\ proc' = proc /\ remaining' = remaining
    <3>1. /\ pipe[p] # <<>> /\ pipe' = [pipe EXCEPT ![p] = Tail(@)]
          /\ pipe \in [Pipes -> Seq(1..MaxLines)]
      BY <1>1 DEF TypeOK, PumpReads
    <3>2. /\ Head(pipe[p]) \in 1..MaxLines
          /\ \A r \in Pipes \ {p} : pipe'[r] = pipe[r]
      BY <3>1, TailAt
    <3> QED
      BY <1>1, <3>2 DEF PumpReads
  <2>2. /\ <<p, Head(pipe[p])>> \in Items /\ <<p, Head(pipe[p])>> # End
        /\ queue \in Seq(Items)
    <3>1. <<p, Head(pipe[p])>> \in Items /\ <<p, Head(pipe[p])>>[1] = p
      BY <2>1 DEF Items, Lines
    <3> QED
      BY <3>1, ItemsMeans, AnItem
  <2>3. EndsOf(queue') = EndsOf(queue)
    <3> DEFINE e == <<p, Head(pipe[p])>>
    <3>1. e \in Items /\ e # End /\ queue' = Append(queue, e) /\ queue \in Seq(Items)
      BY <2>1, <2>2
    <3> HIDE DEF e
    <3>2. EndsOf(Append(queue, e)) = EndsOf(queue) \cup (IF e = End THEN {Len(queue) + 1} ELSE {})
      BY <3>1, PutProperties
    <3> QED
      BY <3>1, <3>2
  <2>4. Unfinished' = Unfinished /\ ~AllDone'
    BY <2>1 DEF Unfinished, AllDone
  <2>5. Cardinality(EndsOf(queue')) = remaining' - Unfinished'
    BY <2>1, <2>3, <2>4 DEF EndsInv
  <2>6. \A r \in Pipes : pump'[r] = "done" => pipe'[r] = <<>> /\ proc' # "running"
    BY <2>1 DEF EndsInv
  <2> QED
    BY <2>4, <2>5, <2>6 DEF EndsInv
<1>2. CASE PumpFails(p)
  <2>1. /\ \A r \in Pipes \ {p} : pipe'[r] = pipe[r] /\ pump'[r] = pump[r]
        /\ pump'[p] = "failed" /\ pump[p] = "reading" /\ proc' = proc
        /\ remaining' = remaining /\ queue' = queue
    BY <1>2, TailAt DEF TypeOK, PumpFails
  <2>2. Unfinished' = Unfinished /\ ~AllDone'
    BY <2>1 DEF Unfinished, AllDone, Pipes
  <2>3. Cardinality(EndsOf(queue')) = remaining' - Unfinished'
    BY <2>1, <2>2 DEF EndsInv
  <2>4. \A r \in Pipes : pump'[r] = "done" => pipe'[r] = <<>> /\ proc' # "running"
    BY <2>1 DEF EndsInv
  <2> QED
    BY <2>2, <2>3, <2>4 DEF EndsInv
<1>3. CASE PumpEnds(p)
  <2>1. /\ queue' = Append(queue, End) /\ pipe' = pipe /\ proc' = proc /\ remaining' = remaining
        /\ pump' = [pump EXCEPT ![p] = "done"] /\ pump[p] = "reading"
        /\ pipe[p] = <<>> /\ proc # "running"
    BY <1>3 DEF PumpEnds
  <2>2. End \in Items /\ queue \in Seq(Items)
    BY ItemsMeans DEF Items
  <2>3. /\ EndsOf(queue') = EndsOf(queue) \cup {Len(queue) + 1}
        /\ Len(queue') = Len(queue) + 1 /\ queue'[Len(queue) + 1] = End
    BY <2>1, <2>2, PutProperties, AppendProperties
  <2>4. Len(queue) + 1 \notin EndsOf(queue)
    BY <2>2, LenProperties DEF EndsOf
  <2>5. /\ Cardinality(EndsOf(queue')) = Cardinality(EndsOf(queue)) + 1
        /\ Cardinality(EndsOf(queue)) \in Nat
    BY <2>2, <2>3, <2>4, EndsAreFinite, FS_AddElement
  <2>6. /\ \A r \in Pipes \ {p} : pump'[r] = pump[r]
        /\ pump'[p] = "done"
    BY <2>1 DEF TypeOK
  <2>7. Unfinished' = Unfinished - 1
    BY <2>1, <2>6 DEF Unfinished, Pipes
  <2>8. Cardinality(EndsOf(queue')) = remaining' - Unfinished'
    <3>1. Cardinality(EndsOf(queue)) = remaining - Unfinished /\ remaining \in 0..2
      BY DEF EndsInv, TypeOK
    <3> QED
      BY <3>1, <2>1, <2>5, <2>7, UnfinishedMeans
  <2>9. \A r \in Pipes : pump'[r] = "done" => pipe'[r] = <<>> /\ proc' # "running"
    BY <2>1, <2>6 DEF EndsInv
  <2>10. queue'[Len(queue')] = End
    BY <2>3
  <2> QED
    BY <2>8, <2>9, <2>10 DEF EndsInv
<1> QED
  BY <1>1, <1>2, <1>3 DEF PumpStep

LEMMA GetKeepsEnds ==
    ASSUME TypeOK, EndsInv, GetsEnd \/ GetsLine
    PROVE  EndsInv'
<1>1. /\ queue \in Seq(Items) /\ queue # <<>> /\ queue' = Tail(queue)
      /\ pump' = pump /\ pipe' = pipe /\ proc' = proc
  BY ItemsMeans DEF GetsEnd, GetsLine
<1>2. Unfinished' = Unfinished /\ AllDone' = AllDone
  BY <1>1 DEF Unfinished, AllDone
<1>3. Cardinality(EndsOf(queue')) = remaining' - Unfinished'
  <2>1. Cardinality(EndsOf(queue)) = remaining - Unfinished /\ remaining \in 0..2
    BY DEF EndsInv, TypeOK
  <2>2. CASE GetsEnd
    <3>1. remaining' = remaining - 1
      BY <2>2 DEF GetsEnd
    <3> QED
      BY <1>1, <1>2, <2>1, <2>2, <3>1, EndIsAwaited, UnfinishedMeans
  <2>3. CASE GetsLine
    <3>1. Head(queue) # End /\ remaining' = remaining
      BY <2>3 DEF GetsLine
    <3>2. Cardinality(EndsOf(Tail(queue))) \in Nat
      BY <1>1, TakeProperties, EndsAreFinite
    <3>3. Cardinality(EndsOf(queue)) = Cardinality(EndsOf(Tail(queue)))
      BY <1>1, <3>1, <3>2, EndsLeft
    <3>4. queue' = Tail(queue)
      BY <1>1
    <3> QED
      BY <1>2, <2>1, <3>1, <3>3, <3>4, SMTT(30)
  <2> QED
    BY <2>2, <2>3
<1>4. AllDone' /\ queue' # <<>> => queue'[Len(queue')] = End
  BY <1>1, <1>2, LastOfTail DEF EndsInv
<1>5. \A r \in Pipes : pump'[r] = "done" => pipe'[r] = <<>> /\ proc' # "running"
  BY <1>1 DEF EndsInv
<1> QED
  BY <1>3, <1>4, <1>5 DEF EndsInv

LEMMA OthersKeepEnds ==
    ASSUME TypeOK, EndsInv,
           \/ \E p \in Pipes : \E kind \in LineKinds : Writes(p, kind)
           \/ Exits \/ Ships \/ IsCancelled \/ Closes \/ Reaped \/ Interrupted
           \/ UNCHANGED vars
    PROVE  EndsInv'
<1>1. queue' = queue /\ remaining' = remaining
  BY DEF Writes, Exits, Ships, IsCancelled, Closes, Reaped, Interrupted, vars
<1>2. pump' = pump \/ pump' = PumpsCancelled
  BY DEF Writes, Exits, Ships, IsCancelled, Closes, Reaped, Interrupted, vars
<1>3. /\ \A p \in Pipes : pump'[p] = "done" <=> pump[p] = "done"
      /\ Unfinished' = Unfinished /\ (AllDone' <=> AllDone)
  <2>1. CASE pump' = pump
    BY <2>1 DEF Unfinished, AllDone
  <2> QED
    BY <1>2, <2>1, CancelledKeepsUnfinished
<1>4. Cardinality(EndsOf(queue')) = remaining' - Unfinished'
  BY <1>1, <1>3 DEF EndsInv
<1>5. AllDone' /\ queue' # <<>> => queue'[Len(queue')] = End
  BY <1>1, <1>3 DEF EndsInv
<1>6. \A r \in Pipes : pump'[r] = "done" => pipe'[r] = <<>> /\ proc' # "running"
  <2>1. CASE \E p \in Pipes : \E kind \in LineKinds : Writes(p, kind)
    BY <1>3, <2>1 DEF EndsInv, Writes
  <2>2. CASE ~\E p \in Pipes : \E kind \in LineKinds : Writes(p, kind)
    <3>1. pipe' = pipe /\ (proc # "running" => proc' # "running")
      BY <2>2 DEF Exits, Ships, IsCancelled, Closes, Reaped, Interrupted, vars
    <3> QED
      BY <1>3, <3>1 DEF EndsInv
  <2> QED
    BY <2>1, <2>2
<1> QED
  BY <1>4, <1>5, <1>6 DEF EndsInv

-----------------------------------------------------------------------------
(* Where the listener is.                                                  *)

LEMMA InitPhase == Init => PhaseInv
  BY DEF Init, PhaseInv

LEMMA AroundKeepsPhase ==
    ASSUME TypeOK, PhaseInv,
           \/ \E p \in Pipes : \/ PumpStep(p)
                            \/ \E kind \in LineKinds : Writes(p, kind)
           \/ Exits
    PROVE  PhaseInv'
<1>1. /\ lpc' = lpc /\ item' = item /\ outcome' = outcome
      /\ proc # "running" => proc' # "running"
  BY DEF PumpStep, PumpReads, PumpFails, PumpEnds, Writes, Exits
<1>2. \A r \in Pipes : pump'[r] = pump[r] \/ pump'[r] \in {"done", "failed"}
  <2>1. ASSUME NEW p \in Pipes, PumpStep(p)
        PROVE  \A r \in Pipes : pump'[r] = pump[r] \/ pump'[r] \in {"done", "failed"}
    <3>1. CASE PumpReads(p)
      BY <3>1 DEF PumpReads
    <3>2. CASE PumpFails(p)
      BY <3>2 DEF PumpFails, TypeOK
    <3>3. CASE PumpEnds(p)
      BY <3>3 DEF PumpEnds, TypeOK
    <3> QED
      BY <2>1, <3>1, <3>2, <3>3 DEF PumpStep
  <2>2. CASE Exits \/ \E p \in Pipes : \E kind \in LineKinds : Writes(p, kind)
    BY <2>2 DEF Exits, Writes
  <2> QED
    BY <2>1, <2>2
<1> QED
  BY <1>1, <1>2 DEF PhaseInv

LEMMA ListenerKeepsPhase ==
    ASSUME TypeOK, PhaseInv,
           GetsEnd \/ GetsLine \/ Ships \/ IsCancelled \/ Closes \/ Reaped \/ Interrupted
    PROVE  PhaseInv'
<1>1. CASE GetsEnd
  <2>1. /\ lpc = "getting" /\ lpc' \in {"getting", "closing"}
        /\ lpc' = "getting" => outcome' = outcome
        /\ UNCHANGED <<pump, item>>
    BY <1>1, SMTT(30) DEF GetsEnd
  <2> QED
    BY <2>1 DEF PhaseInv
<1>2. CASE GetsLine
  <2>1. Len(<<Head(queue)>>) = 1
    OBVIOUS
  <2> QED
    BY <1>2, <2>1 DEF PhaseInv, GetsLine
<1>3. CASE Ships \/ IsCancelled
  BY <1>3 DEF PhaseInv, Ships, IsCancelled
<1>4. CASE Closes \/ Interrupted
  <2>1. pump' = PumpsCancelled
    BY <1>4 DEF Closes, Interrupted
  <2> QED
    BY <1>4, <2>1, CancelledKeepsUnfinished DEF PhaseInv, Closes, Interrupted
<1>5. CASE Reaped
  BY <1>5 DEF PhaseInv, Reaped
<1> QED
  BY <1>1, <1>2, <1>3, <1>4, <1>5

-----------------------------------------------------------------------------
(* The end of a listener.  The last End that it waits for is the last item  *)
(* on the queue.                                                           *)
LEMMA LastEndIsLast ==
    ASSUME TypeOK, EndsInv, GetsEnd, remaining = 1
    PROVE  AllDone /\ \A p \in Pipes : NumbersOf(p, queue) = {}
<1>1. queue \in Seq(Items) /\ queue # <<>> /\ Head(queue) = End
  BY ItemsMeans DEF GetsEnd
<1>2. /\ DOMAIN queue = 1..Len(queue) /\ Len(queue) \in Nat \ {0}
      /\ queue[1] = End
  BY <1>1, EmptySeq, LenProperties, TakeProperties
<1>3. 1 \in EndsOf(queue) /\ IsFiniteSet(EndsOf(queue))
  BY <1>1, <1>2, EndsAreFinite DEF EndsOf
<1>4. Cardinality(EndsOf(queue)) # 0
  BY <1>3, FS_EmptySet
<1>5. Unfinished = 0 /\ Cardinality(EndsOf(queue)) = 1
  <2>1. Cardinality(EndsOf(queue)) = 1 - Unfinished /\ Cardinality(EndsOf(queue)) \in Nat
    BY <1>1, EndsAreFinite DEF EndsInv
  <2> QED
    BY <1>4, <2>1, UnfinishedMeans
<1>6. AllDone
  BY <1>5, UnfinishedMeans
<1>7. Len(queue) \in EndsOf(queue)
  BY <1>1, <1>2, <1>6 DEF EndsInv, EndsOf
<1>8. PICK i : EndsOf(queue) = {i}
  BY <1>3, <1>5, FS_Singleton
<1>9. Len(queue) = 1
  BY <1>3, <1>7, <1>8
<1>10. \A j \in DOMAIN queue : queue[j] = End
  BY <1>2, <1>9
<1>11. \A p \in Pipes : End[1] # p
  BY DEF End, Pipes
<1> QED
  BY <1>6, <1>10, <1>11 DEF NumbersOf

(* What the positions mean as numbers *)
LEMMA PositionsAreNumbers ==
    ASSUME TypeOK, NEW p \in Pipes
    PROVE  /\ LastRead(p) \in Int /\ LastQueued(p) \in Int /\ LastTaken(p) \in Nat
           /\ pump[p] # "failed" => LastQueued(p) = LastRead(p)
           /\ pump[p] = "failed" => LastQueued(p) = LastRead(p) - 1
           /\ InHand(p) => LastTaken(p) = Len(handled[p]) + 1
           /\ ~InHand(p) => LastTaken(p) = Len(handled[p])
<1>1. Len(kinds[p]) \in Nat /\ Len(pipe[p]) \in Nat /\ Len(handled[p]) \in Nat
  BY ItemsMeans
<1>2. LastRead(p) \in Int
  BY <1>1 DEF LastRead
<1>3. /\ LastQueued(p) \in Int
      /\ pump[p] # "failed" => LastQueued(p) = LastRead(p)
      /\ pump[p] = "failed" => LastQueued(p) = LastRead(p) - 1
  BY <1>2 DEF LastQueued
<1>4. /\ LastTaken(p) \in Nat
      /\ InHand(p) => LastTaken(p) = Len(handled[p]) + 1
      /\ ~InHand(p) => LastTaken(p) = Len(handled[p])
  <2>1. CASE InHand(p)
    <3>1. LastTaken(p) = Len(handled[p]) + 1
      BY <2>1 DEF LastTaken
    <3> QED
      BY <1>1, <2>1, <3>1
  <2>2. CASE ~InHand(p)
    <3>1. LastTaken(p) = Len(handled[p]) + 0
      BY <2>2 DEF LastTaken
    <3> QED
      BY <1>1, <2>2, <3>1
  <2> QED
    BY <2>1, <2>2
<1> QED
  BY <1>2, <1>3, <1>4

LEMMA GetsEndKeepsReturn ==
    ASSUME TypeOK, EndsInv, PhaseInv, LinesInOrder, GetsEnd
    PROVE  ReturnInv'
<1>1. /\ lpc = "getting" /\ outcome = "none" /\ item = <<>> /\ handled' = handled /\ kinds' = kinds
      /\ outcome' = "returned" => remaining = 1 /\ proc' = proc
  BY DEF GetsEnd, PhaseInv
<1> SUFFICES ASSUME remaining = 1, proc' = proc
             PROVE  proc # "running" /\ \A p \in Pipes : Len(handled[p]) = Len(kinds[p])
  BY <1>1 DEF ReturnInv
<1>2. AllDone /\ \A p \in Pipes : NumbersOf(p, queue) = {}
  BY LastEndIsLast
<1>3. proc # "running" /\ \A p \in Pipes : pump[p] = "done" /\ pipe[p] = <<>>
  BY <1>2 DEF AllDone, EndsInv, Pipes
<1>4. ASSUME NEW p \in Pipes PROVE Len(handled[p]) = Len(kinds[p])
  <2>1. ~InHand(p) /\ Unbroken(p)
    BY <1>1 DEF InHand, LinesInOrder
  <2>2. LastTaken(p) = Len(handled[p]) /\ LastQueued(p) = Len(kinds[p])
    <3>1. Len(pipe[p]) = 0
      BY <1>3, EmptySeq
    <3>2. LastRead(p) = Len(kinds[p])
      BY <3>1, ItemsMeans DEF LastRead
    <3> QED
      BY <1>3, <2>1, <3>2, PositionsAreNumbers
  <2>3. /\ LastTaken(p) <= LastQueued(p)
        /\ (LastTaken(p) + 1)..LastQueued(p) = {}
    BY <1>2, <2>1 DEF Unbroken
  <2>4. Len(handled[p]) \in Nat /\ Len(kinds[p]) \in Nat
    BY ItemsMeans
  <2> QED
    BY <2>2, <2>3, <2>4
<1> QED
  BY <1>3, <1>4

LEMMA OthersKeepReturn ==
    ASSUME TypeOK, PhaseInv, ReturnInv, [Next]_vars, ~GetsEnd
    PROVE  ReturnInv'
<1> SUFFICES ASSUME outcome' = "returned"
             PROVE  proc' # "running" /\ \A p \in Pipes : Len(handled'[p]) = Len(kinds'[p])
  BY DEF ReturnInv
<1>1. outcome = "returned"
  BY DEF Next, Listen, Over, vars, PumpStep, PumpReads, PumpFails, PumpEnds, Writes, Exits,
         GetsLine, Ships, IsCancelled, Closes, Reaped, Interrupted
<1>2. lpc \notin {"getting", "shipping"} /\ proc # "running"
  BY <1>1 DEF PhaseInv, ReturnInv
<1>3. handled' = handled /\ kinds' = kinds /\ proc' = proc
  BY <1>2 DEF Next, Listen, Over, vars, PumpStep, PumpReads, PumpFails, PumpEnds, Writes, Exits,
         GetsLine, Ships, IsCancelled, Closes, Reaped, Interrupted
<1> QED
  BY <1>1, <1>2, <1>3 DEF ReturnInv

-----------------------------------------------------------------------------
(* The order of the lines, pipe by pipe.                                   *)

HandledInOrder(p) == \A i \in DOMAIN handled[p] : handled[p][i] = i

(* Whatever happens to the other pipe leaves this one alone. *)
LEMMA OtherPipe ==
    ASSUME NEW p \in Pipes, Unbroken(p),
           kinds'[p] = kinds[p], pipe'[p] = pipe[p], pump'[p] = "failed" <=> pump[p] = "failed",
           handled'[p] = handled[p], InHand(p)' <=> InHand(p), InHand(p) => item' = item,
           NumbersOf(p, queue') = NumbersOf(p, queue), InOrder(p, queue')
    PROVE  Unbroken(p)'
<1>1. /\ LastRead(p)' = LastRead(p) /\ LastTaken(p)' = LastTaken(p)
  BY DEF LastRead, LastTaken
<1>2. LastQueued(p)' = LastQueued(p)
  BY <1>1 DEF LastQueued
<1> QED
  BY <1>1, <1>2 DEF Unbroken

LEMMA WritesKeepOrder ==
    ASSUME TypeOK, NEW r \in Pipes, NEW kind \in LineKinds, Writes(r, kind),
           NEW p \in Pipes, Unbroken(p), TypeOK'
    PROVE  Unbroken(p)'
<1>1. /\ kinds' = [kinds EXCEPT ![r] = Append(@, kind)] /\ kinds \in [Pipes -> Seq(LineKinds)]
      /\ pipe' = [pipe EXCEPT ![r] = Append(@, Len(kinds[r]) + 1)]
      /\ pipe \in [Pipes -> Seq(1..MaxLines)]
      /\ pump' = pump /\ handled' = handled /\ item' = item /\ queue' = queue
      /\ Len(kinds[r]) + 1 \in 1..MaxLines
  <2>1. Len(kinds[r]) \in Nat /\ Len(kinds[r]) < MaxLines
    BY ItemsMeans DEF Writes
  <2>2. Len(kinds[r]) + 1 \in 1..MaxLines
    BY <2>1, MaxLinesAssumption
  <2> QED
    BY <2>2 DEF Writes, TypeOK
<1>2. CASE p # r
  <2>1. kinds'[p] = kinds[p] /\ pipe'[p] = pipe[p]
    BY <1>1, <1>2
  <2>2. (InHand(p)' <=> InHand(p)) /\ InOrder(p, queue')
    BY <1>1 DEF InHand, Unbroken
  <2> QED
    BY <1>1, <2>1, <2>2, OtherPipe
<1>3. CASE p = r
  <2>1. /\ Len(kinds'[p]) = Len(kinds[p]) + 1 /\ Len(pipe'[p]) = Len(pipe[p]) + 1
        /\ pipe'[p][Len(pipe[p]) + 1] = Len(kinds[p]) + 1
        /\ \A i \in 1..Len(pipe[p]) : pipe'[p][i] = pipe[p][i]
    BY <1>1, <1>3, AppendAt
  <2>2. /\ Len(kinds[p]) \in Nat /\ Len(pipe[p]) \in Nat
        /\ DOMAIN pipe[p] = 1..Len(pipe[p]) /\ DOMAIN pipe'[p] = 1..Len(pipe'[p])
    <3>1. pipe'[p] \in Seq(1..MaxLines)
      BY DEF TypeOK
    <3> QED
      BY <3>1, ItemsMeans, LenProperties
  <2>3. LastRead(p)' = LastRead(p) /\ LastRead(p) = Len(kinds[p]) - Len(pipe[p])
    BY <2>1, <2>2 DEF LastRead
  <2>4. LastTaken(p)' = LastTaken(p) /\ LastQueued(p)' = LastQueued(p)
    BY <1>1, <2>3 DEF LastTaken, LastQueued, InHand
  <2>5. \A i \in DOMAIN pipe'[p] : pipe'[p][i] = LastRead(p) + i
    <3>1. \A i \in 1..Len(pipe'[p]) : i \in 1..Len(pipe[p]) \/ i = Len(pipe[p]) + 1
      BY <2>1, <2>2
    <3>2. \A m, n \in Nat : m + 1 = (m - n) + (n + 1)
      OBVIOUS
    <3>3. Len(kinds[p]) + 1 = LastRead(p) + (Len(pipe[p]) + 1)
      BY <2>2, <2>3, <3>2
    <3> QED
      BY <2>1, <2>2, <3>1, <3>3 DEF Unbroken
  <2> QED
    BY <1>1, <2>3, <2>4, <2>5 DEF Unbroken, InHand
<1> QED
  BY <1>2, <1>3

(* The first line in the pipe is the one after the last that was read. *)
LEMMA NextOfPipe ==
    ASSUME TypeOK, TypeOK', NEW r \in Pipes, Unbroken(r), pipe[r] # <<>>,
           pipe' = [pipe EXCEPT ![r] = Tail(@)], kinds' = kinds
    PROVE  /\ Head(pipe[r]) = LastRead(r) + 1 /\ LastRead(r) \in Int
           /\ LastRead(r)' = LastRead(r) + 1
           /\ \A i \in DOMAIN pipe'[r] : pipe'[r][i] = LastRead(r) + 1 + i
           /\ \A p \in Pipes \ {r} : pipe'[p] = pipe[p]
<1>1. /\ \A p \in Pipes \ {r} : pipe'[p] = pipe[p]
      /\ Len(pipe'[r]) = Len(pipe[r]) - 1 /\ Len(pipe[r]) \in Nat \ {0}
      /\ \A i \in 1..(Len(pipe[r]) - 1) : pipe'[r][i] = pipe[r][i + 1]
      /\ Head(pipe[r]) = pipe[r][1]
  BY TailAt DEF TypeOK
<1>2. /\ Len(kinds[r]) \in Nat
      /\ DOMAIN pipe[r] = 1..Len(pipe[r]) /\ DOMAIN pipe'[r] = 1..Len(pipe'[r])
  <2>1. pipe'[r] \in Seq(1..MaxLines)
    BY DEF TypeOK
  <2> QED
    BY <2>1, ItemsMeans, LenProperties
<1>3. LastRead(r) = Len(kinds[r]) - Len(pipe[r]) /\ LastRead(r)' = Len(kinds[r]) - Len(pipe'[r])
  BY DEF LastRead
<1>4. LastRead(r) \in Int /\ LastRead(r)' = LastRead(r) + 1
  BY <1>1, <1>2, <1>3
<1>5. \A i \in 1..Len(pipe[r]) : pipe[r][i] = LastRead(r) + i
  BY <1>2 DEF Unbroken
<1>6. Head(pipe[r]) = LastRead(r) + 1
  BY <1>1, <1>5
<1>7. \A i \in 1..(Len(pipe[r]) - 1) : i + 1 \in 1..Len(pipe[r])
  BY <1>1
<1>8. ASSUME NEW i \in DOMAIN pipe'[r] PROVE pipe'[r][i] = LastRead(r) + 1 + i
  <2>1. i \in 1..(Len(pipe[r]) - 1)
    BY <1>1, <1>2
  <2>2. pipe'[r][i] = LastRead(r) + (i + 1)
    BY <1>1, <1>5, <1>7, <2>1
  <2> QED
    BY <1>4, <2>1, <2>2
<1> QED
  BY <1>1, <1>4, <1>6, <1>8

(* An item that is put on the queue is a line of its pump, or the End. *)
LEMMA PumpKeepsOrder ==
    ASSUME TypeOK, TypeOK', NEW r \in Pipes, PumpStep(r), Unbroken(r),
           NEW p \in Pipes, Unbroken(p)
    PROVE  Unbroken(p)'
<1>1. queue \in Seq(Items) /\ kinds' = kinds /\ handled' = handled /\ item' = item
  BY ItemsMeans DEF PumpStep, PumpReads, PumpFails, PumpEnds
<1>2. /\ InHand(p)' <=> InHand(p)
      /\ LastTaken(p)' = LastTaken(p)
  BY <1>1 DEF LastTaken, InHand
<1>3. CASE PumpReads(r)
  <2> DEFINE n == Head(pipe[r])
             e == <<r, n>>
  <2>1. /\ pipe[r] # <<>> /\ pipe' = [pipe EXCEPT ![r] = Tail(@)]
        /\ pump' = pump /\ pump[r] = "reading" /\ queue' = Append(queue, e)
    BY <1>3 DEF PumpReads
  <2>2. /\ n = LastRead(r) + 1 /\ LastRead(r) \in Int
        /\ LastRead(r)' = LastRead(r) + 1
        /\ \A i \in DOMAIN pipe'[r] : pipe'[r][i] = LastRead(r) + 1 + i
        /\ \A q \in Pipes \ {r} : pipe'[q] = pipe[q]
    BY <1>1, <2>1, NextOfPipe
  <2>3. e \in Items /\ e[1] = r /\ e[2] = n
    <3>1. n \in 1..MaxLines
      BY <2>1, TailAt DEF TypeOK
    <3> QED
      BY <3>1 DEF Items, Lines
  <2> HIDE DEF e, n
  <2>4. NumbersOf(p, queue') = NumbersOf(p, queue) \cup (IF r = p THEN {n} ELSE {})
    BY <1>1, <2>1, <2>3, PutProperties
  <2>5. LastQueued(r) = LastRead(r) /\ LastQueued(r)' = LastRead(r)'
    <3>1. pump'[r] = "reading"
      BY <2>1
    <3> QED
      BY <2>1, <2>2, <3>1 DEF LastQueued
  <2>6. r = p => \A m \in NumbersOf(p, queue) : m < n
    BY <2>2, <2>5, PositionsAreNumbers DEF Unbroken
  <2>7. InOrder(p, queue')
    BY <1>1, <2>1, <2>3, <2>6, PutKeepsOrder DEF Unbroken
  <2>8. CASE p # r
    BY <1>1, <1>2, <2>1, <2>2, <2>4, <2>7, <2>8, OtherPipe
  <2>9. CASE p = r
    <3>1. /\ LastTaken(p) <= LastQueued(p) /\ LastTaken(p) \in Nat
          /\ NumbersOf(p, queue) = (LastTaken(p) + 1)..LastQueued(p)
          /\ InHand(p) => item[1][2] = LastTaken(p)
      BY PositionsAreNumbers DEF Unbroken
    <3>2. LastQueued(p)' = LastQueued(p) + 1 /\ LastQueued(p) \in Int /\ n = LastQueued(p) + 1
      BY <2>2, <2>5, <2>9
    <3>3. (LastTaken(p) + 1)..(LastQueued(p) + 1)
              = ((LastTaken(p) + 1)..LastQueued(p)) \cup {LastQueued(p) + 1}
      BY <3>1, <3>2
    <3>4. NumbersOf(p, queue') = (LastTaken(p) + 1)..(LastQueued(p) + 1)
      BY <2>4, <2>9, <3>1, <3>2, <3>3
    <3>5. LastTaken(p) <= LastQueued(p) + 1
      BY <3>1, <3>2
    <3>6. \A i \in DOMAIN pipe'[p] : pipe'[p][i] = LastRead(p)' + i
      BY <2>2, <2>9
    <3> QED
      BY <1>1, <1>2, <2>7, <3>1, <3>2, <3>4, <3>5, <3>6 DEF Unbroken
  <2> QED
    BY <2>8, <2>9
<1>4. CASE PumpFails(r)
  <2>1. /\ pipe[r] # <<>> /\ pipe' = [pipe EXCEPT ![r] = Tail(@)] /\ queue' = queue
        /\ pump[r] = "reading" /\ pump'[r] = "failed"
        /\ \A q \in Pipes \ {r} : pump'[q] = pump[q]
    BY <1>4 DEF PumpFails, TypeOK
  <2>2. /\ LastRead(r) \in Int /\ LastRead(r)' = LastRead(r) + 1
        /\ \A i \in DOMAIN pipe'[r] : pipe'[r][i] = LastRead(r) + 1 + i
        /\ \A q \in Pipes \ {r} : pipe'[q] = pipe[q]
    BY <1>1, <2>1, NextOfPipe
  <2>3. LastQueued(r)' = LastQueued(r)
    BY <2>1, <2>2 DEF LastQueued
  <2>4. CASE p # r
    <3>1. InOrder(p, queue')
      BY <2>1 DEF Unbroken
    <3> QED
      BY <1>1, <1>2, <2>1, <2>2, <2>4, <3>1, OtherPipe
  <2>5. CASE p = r
    <3>1. \A i \in DOMAIN pipe'[p] : pipe'[p][i] = LastRead(p)' + i
      BY <2>2, <2>5
    <3> QED
      BY <1>1, <1>2, <2>1, <2>3, <2>5, <3>1 DEF Unbroken
  <2> QED
    BY <2>4, <2>5
<1>5. CASE PumpEnds(r)
  <2>1. /\ pipe' = pipe /\ queue' = Append(queue, End)
        /\ pump[r] = "reading" /\ pump'[r] = "done"
        /\ \A q \in Pipes \ {r} : pump'[q] = pump[q]
    BY <1>5 DEF PumpEnds, TypeOK
  <2>2. End \in Items /\ End[1] # p
    BY DEF Items, End, Pipes
  <2>3. NumbersOf(p, queue') = NumbersOf(p, queue)
    <3>1. NumbersOf(p, Append(queue, End)) =
              NumbersOf(p, queue) \cup (IF End[1] = p THEN {End[2]} ELSE {})
      BY <1>1, <2>2, PutProperties
    <3> QED
      BY <2>1, <2>2, <3>1
  <2>4. InOrder(p, queue')
    BY <1>1, <2>1, <2>2, PutKeepsOrder DEF Unbroken
  <2> QED
    BY <1>1, <1>2, <2>1, <2>3, <2>4, OtherPipe
<1> QED
  BY <1>3, <1>4, <1>5 DEF PumpStep

LEMMA GetsEndKeepsOrder ==
    ASSUME TypeOK, GetsEnd, NEW p \in Pipes, Unbroken(p)
    PROVE  Unbroken(p)'
<1>1. /\ queue \in Seq(Items) /\ queue # <<>> /\ Head(queue) = End /\ queue' = Tail(queue)
      /\ kinds' = kinds /\ handled' = handled /\ item' = item /\ pipe' = pipe /\ pump' = pump
  BY ItemsMeans DEF GetsEnd
<1>2. End[1] # p
  BY DEF End, Pipes
<1>3. NumbersOf(p, queue) =
          NumbersOf(p, Tail(queue)) \cup (IF Head(queue)[1] = p THEN {Head(queue)[2]} ELSE {})
  BY <1>1, TakeProperties
<1>4. NumbersOf(p, queue') = NumbersOf(p, queue)
  BY <1>1, <1>2, <1>3
<1>5. InOrder(p, queue')
  BY <1>1, TakeKeepsOrder DEF Unbroken
<1> QED
  BY <1>1, <1>4, <1>5, OtherPipe DEF InHand

(* The line at the head of the queue is the one after the last that was     *)
(* handled, and the queue goes on with the one after it.                   *)
LEMMA NextOfQueue ==
    ASSUME TypeOK, GetsLine, item = <<>>, NEW p \in Pipes, Unbroken(p), Head(queue)[1] = p
    PROVE  /\ Head(queue)[2] = Len(handled[p]) + 1
           /\ Len(handled[p]) + 1 <= LastQueued(p)
           /\ NumbersOf(p, queue') = (Len(handled[p]) + 2)..LastQueued(p)
<1> DEFINE n == Head(queue)[2]
           h == Len(handled[p])
<1>1. queue \in Seq(Items) /\ queue # <<>> /\ queue' = Tail(queue)
  BY ItemsMeans DEF GetsLine
<1>2. h \in Nat /\ LastTaken(p) = h /\ LastQueued(p) \in Int
  BY PositionsAreNumbers, ItemsMeans DEF InHand
<1>3. NumbersOf(p, queue) = (h + 1)..LastQueued(p)
  BY <1>2 DEF Unbroken
<1>4. NumbersOf(p, queue) =
          NumbersOf(p, Tail(queue)) \cup (IF Head(queue)[1] = p THEN {Head(queue)[2]} ELSE {})
  BY <1>1, TakeProperties
<1>5. NumbersOf(p, queue) = NumbersOf(p, queue') \cup {n}
  BY <1>1, <1>4
<1>6. \A m \in NumbersOf(p, queue') : n < m
  BY <1>1, TakeKeepsOrder DEF Unbroken
<1> HIDE DEF n, h
<1>7. n \in (h + 1)..LastQueued(p)
  BY <1>3, <1>5
<1>8. h + 1 \in (h + 1)..LastQueued(p)
  BY <1>2, <1>7
<1>9. n = h + 1
  <2>1. h + 1 = n \/ n < h + 1
    BY <1>3, <1>5, <1>6, <1>8
  <2> QED
    BY <1>2, <1>7, <2>1
<1>10. NumbersOf(p, queue') = (h + 2)..LastQueued(p)
  <2>1. ASSUME NEW m \in NumbersOf(p, queue') PROVE m \in (h + 2)..LastQueued(p)
    <3>1. m \in (h + 1)..LastQueued(p) /\ h + 1 < m
      BY <1>3, <1>5, <1>6, <1>9
    <3> QED
      BY <1>2, <3>1
  <2>2. ASSUME NEW m \in (h + 2)..LastQueued(p) PROVE m \in NumbersOf(p, queue')
    <3>1. m \in (h + 1)..LastQueued(p) /\ m # h + 1
      BY <1>2
    <3> QED
      BY <1>3, <1>5, <1>9, <3>1
  <2> QED
    BY <2>1, <2>2
<1>11. h + 1 <= LastQueued(p)
  BY <1>2, <1>8
<1> QED
  BY <1>9, <1>10, <1>11 DEF n, h

LEMMA GetsLineKeepsOrder ==
    ASSUME TypeOK, GetsLine, item = <<>>, NEW p \in Pipes, Unbroken(p), HandledInOrder(p)
    PROVE  HandledInOrder(p)' /\ Unbroken(p)'
<1> DEFINE r == Head(queue)[1]
           n == Head(queue)[2]
<1>1. /\ queue \in Seq(Items) /\ queue # <<>> /\ queue' = Tail(queue)
      /\ kinds' = kinds /\ pipe' = pipe /\ pump' = pump
      /\ r \in Pipes /\ n \in 1..MaxLines
  BY ItemsMeans, HeadMeans DEF GetsLine
<1>2. /\ handled \in [Pipes -> Seq(1..MaxLines)]
      /\ \/ handled' = handled /\ item' = <<Head(queue)>>
         \/ handled' = [handled EXCEPT ![r] = Append(@, n)] /\ item' = item
  BY DEF TypeOK, GetsLine
<1>3. InOrder(p, queue')
  BY <1>1, TakeKeepsOrder DEF Unbroken
<1>4. LastRead(p)' = LastRead(p) /\ LastQueued(p)' = LastQueued(p)
  BY <1>1 DEF LastRead, LastQueued
<1>5. CASE r # p
  <2>1. NumbersOf(p, queue) =
            NumbersOf(p, Tail(queue)) \cup (IF Head(queue)[1] = p THEN {Head(queue)[2]} ELSE {})
    BY <1>1, TakeProperties
  <2>2. NumbersOf(p, queue') = NumbersOf(p, queue)
    BY <1>1, <1>5, <2>1
  <2>3. handled'[p] = handled[p]
    BY <1>1, <1>2, <1>5, AppendAt
  <2>4. ~InHand(p) /\ ~InHand(p)'
    BY <1>2, <1>5 DEF InHand
  <2>5. Unbroken(p)'
    BY <1>1, <1>3, <2>2, <2>3, <2>4, OtherPipe
  <2> QED
    BY <2>3, <2>5 DEF HandledInOrder
<1>6. CASE r = p
  <2>1. /\ n = Len(handled[p]) + 1 /\ Len(handled[p]) + 1 <= LastQueued(p)
        /\ NumbersOf(p, queue') = (Len(handled[p]) + 2)..LastQueued(p)
        /\ Len(handled[p]) \in Nat
    BY <1>6, NextOfQueue, ItemsMeans
  <2>2. \A h \in Nat : h + 1 + 1 = h + 2
    OBVIOUS
  <2>3. CASE handled' = handled /\ item' = <<Head(queue)>>
    <3>1. InHand(p)' /\ item'[1][2] = n
      BY <1>6, <2>3 DEF InHand
    <3>2. LastTaken(p)' = Len(handled[p]) + 1
      BY <2>3, <3>1 DEF LastTaken
    <3>3. Unbroken(p)'
      BY <1>1, <1>3, <1>4, <2>1, <2>2, <3>1, <3>2 DEF Unbroken
    <3> QED
      BY <2>3, <3>3 DEF HandledInOrder
  <2>4. CASE handled' = [handled EXCEPT ![r] = Append(@, n)] /\ item' = item
    <3>1. /\ Len(handled'[p]) = Len(handled[p]) + 1 /\ handled'[p][Len(handled[p]) + 1] = n
          /\ \A i \in 1..Len(handled[p]) : handled'[p][i] = handled[p][i]
          /\ handled'[p] \in Seq(1..MaxLines)
      <4>1. /\ handled' = [handled EXCEPT ![p] = Append(@, n)] /\ n \in 1..MaxLines
            /\ handled \in [Pipes -> Seq(1..MaxLines)]
        BY <1>1, <1>2, <1>6, <2>4
      <4> HIDE DEF n
      <4>2. handled' \in [Pipes -> Seq(1..MaxLines)]
        BY <4>1, AppendAt
      <4> QED
        BY <4>1, <4>2, AppendAt
    <3>2. ~InHand(p)'
      BY <2>4 DEF InHand
    <3>3. LastTaken(p)' = Len(handled[p]) + 1
      BY <2>1, <3>1, <3>2 DEF LastTaken
    <3>4. Unbroken(p)'
      BY <1>1, <1>3, <1>4, <2>1, <2>2, <3>2, <3>3 DEF Unbroken
    <3>5. HandledInOrder(p)'
      <4>1. DOMAIN handled'[p] = 1..(Len(handled[p]) + 1) /\ DOMAIN handled[p] = 1..Len(handled[p])
        BY <3>1, ItemsMeans, LenProperties
      <4>2. \A i \in 1..(Len(handled[p]) + 1) :
                i \in 1..Len(handled[p]) \/ i = Len(handled[p]) + 1
        BY <2>1
      <4> QED
        BY <2>1, <3>1, <4>1, <4>2 DEF HandledInOrder
    <3> QED
      BY <3>4, <3>5
  <2> QED
    BY <1>2, <2>3, <2>4
<1> QED
  BY <1>5, <1>6

(* The line in the listener's hand is handled. *)
LEMMA HandedKeepsOrder ==
    ASSUME TypeOK, item # <<>>, handled' = Handed, item' = <<>>,
           NEW p \in Pipes, Unbroken(p), HandledInOrder(p)
    PROVE  HandledInOrder(p)' /\ LastTaken(p)' = LastTaken(p)
<1> DEFINE r == item[1][1]
           n == item[1][2]
<1>1. /\ r \in Pipes /\ n \in 1..MaxLines /\ handled \in [Pipes -> Seq(1..MaxLines)]
      /\ handled' = [handled EXCEPT ![r] = Append(@, n)]
      /\ handled' \in [Pipes -> Seq(1..MaxLines)]
  BY HandedTypes DEF Handed, TypeOK
<1>2. ~InHand(p)' /\ (InHand(p) <=> r = p)
  BY DEF InHand
<1>3. CASE r # p
  <2>1. handled'[p] = handled[p]
    <3> HIDE DEF r, n
    <3> QED
      BY <1>1, <1>3, AppendAt
  <2> QED
    BY <1>2, <1>3, <2>1 DEF HandledInOrder, LastTaken
<1>4. CASE r = p
  <2>1. n = Len(handled[p]) + 1 /\ LastTaken(p) = Len(handled[p]) + 1
    BY <1>2, <1>4, PositionsAreNumbers DEF Unbroken
  <2>2. /\ Len(handled'[p]) = Len(handled[p]) + 1 /\ handled'[p][Len(handled[p]) + 1] = n
        /\ \A i \in 1..Len(handled[p]) : handled'[p][i] = handled[p][i]
    <3> HIDE DEF r, n
    <3> QED
      BY <1>1, <1>4, AppendAt
  <2>3. /\ DOMAIN handled'[p] = 1..(Len(handled[p]) + 1) /\ DOMAIN handled[p] = 1..Len(handled[p])
        /\ Len(handled[p]) \in Nat
    BY <1>1, <2>2, ItemsMeans, LenProperties
  <2>4. \A i \in 1..(Len(handled[p]) + 1) :
            i \in 1..Len(handled[p]) \/ i = Len(handled[p]) + 1
    BY <2>3
  <2>5. HandledInOrder(p)'
    BY <2>1, <2>2, <2>3, <2>4 DEF HandledInOrder
  <2>6. LastTaken(p)' = Len(handled[p]) + 1
    BY <1>2, <2>2, <2>3 DEF LastTaken
  <2> QED
    BY <2>1, <2>5, <2>6
<1> QED
  BY <1>3, <1>4

LEMMA ShipsKeepsOrder ==
    ASSUME TypeOK, Ships, item # <<>>, NEW p \in Pipes, Unbroken(p), HandledInOrder(p)
    PROVE  HandledInOrder(p)' /\ Unbroken(p)'
<1>1. /\ handled' = Handed /\ item' = <<>> /\ kinds' = kinds /\ pipe' = pipe
      /\ pump' = pump /\ queue' = queue
  BY DEF Ships
<1>2. HandledInOrder(p)' /\ LastTaken(p)' = LastTaken(p) /\ ~InHand(p)'
  BY <1>1, HandedKeepsOrder DEF InHand
<1>3. LastRead(p)' = LastRead(p) /\ LastQueued(p)' = LastQueued(p)
  BY <1>1 DEF LastRead, LastQueued
<1> QED
  BY <1>1, <1>2, <1>3 DEF Unbroken

LEMMA InitOrder == Init => LinesInOrder
<1> SUFFICES ASSUME Init, NEW p \in Pipes PROVE HandledInOrder(p) /\ Unbroken(p)
  BY DEF LinesInOrder, HandledInOrder
<1>1. /\ kinds[p] = <<>> /\ pipe[p] = <<>> /\ handled[p] = <<>> /\ pump[p] = "reading"
      /\ queue = <<>> /\ item = <<>>
  BY DEF Init
<1>2. LastRead(p) = 0 /\ LastTaken(p) = 0 /\ LastQueued(p) = 0 /\ ~InHand(p)
  BY <1>1, EmptySeq DEF LastRead, LastTaken, LastQueued, InHand
<1>3. NumbersOf(p, queue) = {} /\ (0 + 1)..0 = {}
  BY <1>1 DEF NumbersOf
<1>4. InOrder(p, queue)
  BY <1>1 DEF InOrder
<1> QED
  BY <1>1, <1>2, <1>3, <1>4 DEF HandledInOrder, Unbroken

LEMMA LinesStayInOrder ==
    ASSUME IInv, TypeOK', [Next]_vars
    PROVE  LinesInOrder'
<1> SUFFICES ASSUME NEW p \in Pipes
             PROVE  /\ HandledInOrder(p)'
                    /\ lpc' \in {"getting", "shipping"} => Unbroken(p)'
  BY DEF LinesInOrder, HandledInOrder
<1>1. /\ TypeOK /\ PhaseInv
      /\ \A r \in Pipes : HandledInOrder(r)
      /\ lpc \in {"getting", "shipping"} => \A r \in Pipes : Unbroken(r)
  BY DEF IInv, LinesInOrder, HandledInOrder
<1>2. lpc = "getting" => item = <<>>
  BY <1>1 DEF PhaseInv
<1>3. lpc = "shipping" => item # <<>>
  <2>1. Len(<<>>) = 0
    BY EmptySeq
  <2> QED
    BY <1>1, <2>1 DEF PhaseInv
<1>4. CASE \E r \in Pipes : \E kind \in LineKinds : Writes(r, kind)
  <2>1. handled' = handled /\ lpc' = lpc
    BY <1>4 DEF Writes
  <2> QED
    BY <1>1, <1>4, <2>1, WritesKeepOrder DEF HandledInOrder
<1>5. CASE \E r \in Pipes : PumpStep(r)
  <2>1. handled' = handled /\ lpc' = lpc
    BY <1>5 DEF PumpStep, PumpReads, PumpFails, PumpEnds
  <2> QED
    BY <1>1, <1>5, <2>1, PumpKeepsOrder DEF HandledInOrder
<1>6. CASE GetsEnd
  <2>1. handled' = handled /\ lpc = "getting"
    BY <1>6 DEF GetsEnd
  <2> QED
    BY <1>1, <1>6, <2>1, GetsEndKeepsOrder DEF HandledInOrder
<1>7. CASE GetsLine
  <2>1. lpc = "getting"
    BY <1>7 DEF GetsLine
  <2> QED
    BY <1>1, <1>2, <1>7, <2>1, GetsLineKeepsOrder
<1>8. CASE Ships
  <2>1. lpc = "shipping"
    BY <1>8 DEF Ships
  <2> QED
    BY <1>1, <1>3, <1>8, <2>1, ShipsKeepsOrder
<1>9. CASE IsCancelled
  <2>1. /\ lpc' = "closing" /\ lpc \in {"getting", "shipping"} /\ item' = <<>>
        /\ \/ handled' = handled
           \/ handled' = Handed /\ item # <<>>
    BY <1>9 DEF IsCancelled
  <2>2. CASE handled' = handled
    BY <1>1, <2>1, <2>2 DEF HandledInOrder
  <2>3. CASE handled' = Handed /\ item # <<>>
    BY <1>1, <2>1, <2>3, HandedKeepsOrder
  <2> QED
    BY <2>1, <2>2, <2>3
<1>10. CASE Closes \/ Reaped \/ Interrupted
  BY <1>1, <1>10 DEF HandledInOrder, Closes, Reaped, Interrupted
<1>11. CASE Exits \/ UNCHANGED vars
  <2>1. UNCHANGED <<kinds, pipe, pump, queue, lpc, item, handled>>
    BY <1>11 DEF Exits, vars
  <2>2. Unbroken(p) => Unbroken(p)'
    BY <2>1 DEF Unbroken, LastRead, LastQueued, LastTaken, InHand
  <2> QED
    BY <1>1, <2>1, <2>2 DEF HandledInOrder
<1> QED
  BY <1>4, <1>5, <1>6, <1>7, <1>8, <1>9, <1>10, <1>11 DEF Next, Listen, Over

-----------------------------------------------------------------------------
(* The inductive invariant holds, and the properties follow from it.       *)

LEMMA InitIInv == Init => IInv
<1>1. Init => ReturnInv
  BY DEF Init, ReturnInv
<1> QED
  BY <1>1, InitTypes, InitEnds, InitPhase, InitOrder DEF IInv

LEMMA StepTypes ==
    ASSUME IInv, [Next]_vars
    PROVE  TypeOK'
<1>1. TypeOK /\ EndsInv /\ PhaseInv
  BY DEF IInv
<1>2. lpc = "shipping" => item # <<>>
  <2>1. Len(<<>>) = 0
    BY EmptySeq
  <2> QED
    BY <1>1, <2>1 DEF PhaseInv
<1>3. CASE \E r \in Pipes : \E kind \in LineKinds : Writes(r, kind)
  BY <1>1, <1>3, WritesKeepTypes
<1>4. CASE \E r \in Pipes : PumpStep(r)
  BY <1>1, <1>4, PumpKeepsTypes
<1>5. CASE GetsEnd
  BY <1>1, <1>5, EndIsAwaited, GetsEndKeepsTypes
<1>6. CASE GetsLine
  BY <1>1, <1>6, GetsLineKeepsTypes
<1>7. CASE Exits \/ Ships \/ IsCancelled \/ Closes \/ Reaped \/ Interrupted
  BY <1>1, <1>2, <1>7, OtherStepsKeepTypes
<1>8. CASE UNCHANGED vars
  BY <1>1, <1>8 DEF TypeOK, vars
<1> QED
  BY <1>3, <1>4, <1>5, <1>6, <1>7, <1>8 DEF Next, Listen, Over

LEMMA StepIInv ==
    ASSUME IInv, [Next]_vars
    PROVE  IInv'
<1>1. TypeOK /\ EndsInv /\ PhaseInv /\ ReturnInv /\ LinesInOrder
  BY DEF IInv
<1>2. TypeOK' /\ LinesInOrder'
  BY StepTypes, LinesStayInOrder
<1>3. EndsInv'
  BY <1>1, PumpKeepsEnds, GetKeepsEnds, OthersKeepEnds DEF Next, Listen, Over
<1>4. PhaseInv'
  <2>1. CASE UNCHANGED vars
    BY <1>1, <2>1 DEF PhaseInv, vars
  <2> QED
    BY <1>1, <2>1, AroundKeepsPhase, ListenerKeepsPhase DEF Next, Listen, Over
<1>5. ReturnInv'
  BY <1>1, GetsEndKeepsReturn, OthersKeepReturn
<1> QED
  BY <1>2, <1>3, <1>4, <1>5 DEF IInv

(* At every moment the lines of a pipe are, in this order and without a     *)
(* gap, handled, in hand, on the queue and in the pipe; the Ends on the     *)
(* queue are those that _merge_streams still waits for, and each of them    *)
(* follows the lines of its pump.                                          *)
THEOREM StreamInvariant == Spec => []IInv
<1>1. IInv /\ [Next]_vars => IInv'
  BY StepIInv
<1> QED
  BY InitIInv, <1>1, PTL DEF Spec

(* run_container_listener ships or drops each line of a pipe once and in    *)
(* the order it was written, whatever the other pipe does.                 *)
THEOREM LinesKeepTheirOrder == Spec => []LinesInOrder
<1>1. IInv => LinesInOrder
  BY DEF IInv
<1> QED
  BY <1>1, StreamInvariant, PTL

(* A listener that returns has handled all that its subprocess wrote: the   *)
(* last of the two Ends comes after every line of both pipes.              *)
THEOREM ReturnIsComplete == Spec => []ReturnsWithEverything
<1>1. IInv => ReturnsWithEverything
  BY DEF IInv, ReturnInv, ReturnsWithEverything
<1> QED
  BY <1>1, StreamInvariant, PTL

(* The finally blocks of _merge_streams and stream_lines leave no pump      *)
(* behind, and no subprocess unless they are interrupted.                  *)
THEOREM NothingIsLeftBehind == Spec => []NothingOutlivesTheListener
<1>1. IInv => NothingOutlivesTheListener
  BY DEF IInv, PhaseInv, NothingOutlivesTheListener
<1> QED
  BY <1>1, StreamInvariant, PTL
=============================================================================
