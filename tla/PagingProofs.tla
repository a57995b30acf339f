---------------------------- MODULE PagingProofs ----------------------------
(***************************************************************************)
(* Paging through GET /records: for any page size, range and contents of    *)
(* the streams, nothing comes twice, nothing is passed over, and a revoked  *)
(* key gets one more page at most.                                         *)
(***************************************************************************)
EXTENDS Paging, FiniteSetTheorems, WellFoundedInduction, TLAPS

-----------------------------------------------------------------------------
(* Sets of ids *)

(* A nonempty set of numbers below a bound has a greatest element. *)
LEMMA MaxExists ==
    ASSUME NEW n \in Nat, NEW S \in SUBSET (0..n), S # {}
    PROVE  Max(S) \in S /\ \A x \in S : x <= Max(S)
<1> DEFINE below == {m \in Nat : \E x \in S : m = n - x}
<1>1. below \subseteq Nat /\ below # {}
  <2>1. PICK x \in S : TRUE
    OBVIOUS
  <2>2. x \in 0..n /\ n - x \in Nat
    OBVIOUS
  <2> QED
    BY <2>2
<1>2. PICK m \in below : \A y \in below : ~ (<<y, m>> \in OpToRel(<, Nat))
  <2> HIDE DEF below
  <2> QED
    BY <1>1, NatLessThanWellFounded, WFMin
<1>3. \A y \in below : ~ (y < m)
  BY <1>1, <1>2 DEF OpToRel
<1>4. PICK x \in S : m = n - x
  BY <1>2
<1>5. \A y \in S : x >= y
  BY <1>3, <1>4
<1> QED
  BY <1>4, <1>5 DEF Max

(* COUNT n leaves out the end of a range, never something in its middle. *)
LEMMA SmallestHasNoGap ==
    ASSUME NEW n \in Nat, NEW m \in Nat, NEW ids \in SUBSET (0..m),
           NEW id \in ids, NEW later \in Smallest(n, ids), id < later
    PROVE  id \in Smallest(n, ids)
<1> DEFINE before(x) == {i \in ids : i < x}
<1>1. IsFiniteSet(0..m)
  BY FS_Interval
<1>2. IsFiniteSet(before(later)) /\ IsFiniteSet(before(id))
  <2>1. before(later) \subseteq 0..m /\ before(id) \subseteq 0..m
    OBVIOUS
  <2> HIDE DEF before
  <2> QED
    BY <1>1, <2>1, FS_Subset, Zenon
<1>3. before(id) \subseteq before(later)
  <2>1. later \in Int /\ id \in Int /\ \A i \in ids : i \in Int
    BY DEF Smallest
  <2>2. \A i \in ids : i < id => i < later
    BY <2>1
  <2> QED
    BY <2>2
<1>4. Cardinality(before(id)) <= Cardinality(before(later))
  BY <1>2, <1>3, FS_Subset
<1>5. Cardinality(before(later)) < n
  BY DEF Smallest
<1> HIDE DEF before
<1>6. Cardinality(before(id)) < n
  BY <1>2, <1>4, <1>5, FS_CardinalityType
<1> QED
  BY <1>6 DEF Smallest, before

(* COUNT n never returns more than n ids, and leaves nothing out unless it   *)
(* returns n of them.                                                      *)
LEMMA SmallestLeavesOutFullOnly ==
    ASSUME NEW n \in Nat, NEW m \in Nat, NEW ids \in SUBSET (0..m),
           Cardinality(Smallest(n, ids)) # n
    PROVE  Smallest(n, ids) = ids
<1> DEFINE out == ids \ Smallest(n, ids)
<1> SUFFICES ASSUME out # {} PROVE FALSE
  <2>1. Smallest(n, ids) \subseteq ids
    BY DEF Smallest
  <2> QED
    BY <2>1
<1>0. PICK first \in out : \A y \in out : ~ (y < first)
  <2>1. out \subseteq Nat
    <3>1. 0..m \subseteq Nat
      OBVIOUS
    <3> QED
      BY <3>1
  <2> HIDE DEF out
  <2>2. PICK x \in out : \A y \in out : ~ (<<y, x>> \in OpToRel(<, Nat))
    BY <2>1, NatLessThanWellFounded, WFMin
  <2> QED
    BY <2>1, <2>2 DEF OpToRel
<1> DEFINE before(x) == {i \in ids : i < x}
<1>1. IsFiniteSet(ids)
  <2>1. IsFiniteSet(0..m)
    BY FS_Interval
  <2> QED
    BY <2>1, FS_Subset
<1>2. \A x \in ids : before(x) \subseteq ids /\ IsFiniteSet(before(x)) /\ Cardinality(before(x)) \in Nat
  <2>1. \A x \in ids : before(x) \subseteq ids
    OBVIOUS
  <2> HIDE DEF before
  <2> QED
    BY <1>1, <2>1, FS_Subset, FS_CardinalityType
<1>3. /\ Smallest(n, ids) \subseteq ids /\ IsFiniteSet(Smallest(n, ids))
      /\ Cardinality(Smallest(n, ids)) \in Nat
  <2>1. Smallest(n, ids) \subseteq ids
    BY DEF Smallest
  <2> QED
    BY <1>1, <2>1, FS_Subset, FS_CardinalityType
<1>4. before(first) \subseteq Smallest(n, ids) /\ Cardinality(before(first)) >= n
  <2>1. before(first) \subseteq Smallest(n, ids)
    BY <1>0
  <2>2. ~ (Cardinality(before(first)) < n) /\ first \in ids
    BY <1>0 DEF Smallest
  <2> HIDE DEF before
  <2> QED
    BY <1>2, <2>1, <2>2
<1>5. Cardinality(Smallest(n, ids)) >= n
  <2> HIDE DEF before
  <2>1. Cardinality(before(first)) <= Cardinality(Smallest(n, ids))
    BY <1>3, <1>4, FS_Subset
  <2>2. Cardinality(before(first)) \in Nat
    BY <1>0, <1>2
  <2> QED
    BY <1>3, <1>4, <2>1, <2>2
<1>6. Cardinality(Smallest(n, ids)) <= n
  <2>1. CASE Smallest(n, ids) = {}
    BY <2>1, FS_EmptySet
  <2>2. CASE Smallest(n, ids) # {}
    <3>1. Smallest(n, ids) \in SUBSET (0..m)
      BY <1>3
    <3>2. PICK top \in Smallest(n, ids) : \A x \in Smallest(n, ids) : x <= top
      BY <2>2, <3>1, MaxExists
    <3>3. top \in ids /\ Cardinality(before(top)) < n
      BY <3>2 DEF Smallest
    <3>4. Smallest(n, ids) \subseteq before(top) \cup {top}
      BY <3>1, <3>2, <1>3
    <3>5. top \notin before(top)
      BY <3>1
    <3> HIDE DEF before
    <3>6. /\ IsFiniteSet(before(top) \cup {top})
          /\ Cardinality(before(top) \cup {top}) = Cardinality(before(top)) + 1
      BY <1>2, <3>3, <3>5, FS_AddElement
    <3>7. Cardinality(Smallest(n, ids)) <= Cardinality(before(top) \cup {top})
      BY <3>4, <3>6, FS_Subset
    <3> QED
      BY <1>2, <1>3, <3>3, <3>6, <3>7
  <2> QED
    BY <2>1, <2>2
<1> QED
  BY <1>3, <1>5, <1>6

-----------------------------------------------------------------------------
(* The invariant *)
Types ==
    /\ last \in [Kinds -> Nat] /\ stream \in [Kinds -> SUBSET Nat]
    /\ permitted \in BOOLEAN /\ over \in BOOLEAN /\ late \in Nat
    /\ rpc \in {"client", "admitted", "log_done", "metric_done", "failed", "refused"}
    /\ wanted \in SUBSET Kinds
    /\ cursor \in [Kinds -> Nat] /\ next \in [Kinds -> Nat]
    /\ page \in [Kinds -> SUBSET Nat] /\ got \in [Kinds -> SUBSET Nat]

(* Ids are given out once: all that is known of a stream is up to its last *)
UpToLast ==
    \A k \in Kinds :
        /\ (stream[k] \cup page[k] \cup got[k]) \subseteq 1..last[k]
        /\ cursor[k] <= last[k] /\ next[k] <= last[k]

(* A page lies past the cursor sent and not past the one given back *)
PageAhead ==
    \A k \in Kinds :
        /\ \A id \in page[k] : cursor[k] < id
        /\ next[k] # NoCursor => /\ cursor[k] < next[k]
                                 /\ \A id \in page[k] : id <= next[k]

PageWanted ==
    /\ \A k \in Kinds : k \notin wanted => page[k] = {}
    /\ rpc \in {"client", "admitted", "refused"} =>
           page = [k \in Kinds |-> {}] /\ next = [k \in Kinds |-> NoCursor]
    /\ over => rpc = "client"

Readable(k) == {id \in (stream[k] \cap Matching) \ Unreadable : id >= Lo}

(* No gap in what the client got, nor in the page it is about to get *)
NoGap ==
    \A k \in Kinds : \A id \in Readable(k) :
        /\ id <= cursor[k] \/ (\E later \in got[k] : id < later) => id \in got[k]
        /\ cursor[k] < id /\ (id <= next[k] \/ \E later \in page[k] : id < later)
               => id \in page[k]

(* A request that was admitted is the first since the revocation *)
LateOnce ==
    /\ permitted \/ rpc \in {"admitted", "log_done", "metric_done"} => late = 0
    /\ late <= 1

IInv == Types /\ UpToLast /\ PageAhead /\ PageWanted /\ NoGap /\ LateOnce

(* A client that drops finished kinds has nothing past its cursors *)
GotBehind == \A k \in wanted : ~ over => \A id \in got[k] : id <= cursor[k]

LEMMA InitInv == Init => IInv /\ GotBehind
<1> SUFFICES ASSUME Init PROVE IInv /\ GotBehind
  OBVIOUS
<1>1. /\ last = [k \in Kinds |-> 0] /\ stream = [k \in Kinds |-> {}]
      /\ cursor = [k \in Kinds |-> 0] /\ next = [k \in Kinds |-> 0]
      /\ page = [k \in Kinds |-> {}] /\ got = [k \in Kinds |-> {}]
  BY DEF Init, NoCursor
<1>2. Types
  <2>1. wanted \in SUBSET Kinds
    BY PagingAssumption DEF Init
  <2>2. /\ stream \in [Kinds -> SUBSET Nat] /\ page \in [Kinds -> SUBSET Nat]
        /\ got \in [Kinds -> SUBSET Nat]
    BY <1>1
  <2>3. last \in [Kinds -> Nat] /\ cursor \in [Kinds -> Nat] /\ next \in [Kinds -> Nat]
    BY <1>1
  <2> QED
    BY <2>1, <2>2, <2>3 DEF Init, Types
<1>3. UpToLast /\ PageAhead /\ NoGap /\ GotBehind
  <2>1. wanted \subseteq Kinds
    BY <1>2 DEF Types
  <2>2. \A k \in Kinds : /\ last[k] = 0 /\ cursor[k] = 0 /\ next[k] = 0
                         /\ stream[k] = {} /\ page[k] = {} /\ got[k] = {}
    BY <1>1
  <2> QED
    BY <2>1, <2>2 DEF UpToLast, PageAhead, NoGap, Readable, GotBehind, NoCursor
<1>4. PageWanted /\ LateOnce
  BY <1>1 DEF Init, PageWanted, LateOnce, NoCursor
<1> QED
  BY <1>2, <1>3, <1>4 DEF IInv

-----------------------------------------------------------------------------
(* The consumer, the trimmer and the provisioning *)
LEMMA AddedInv ==
    ASSUME IInv, NEW k \in Kinds, Added(k)
    PROVE  IInv'
<1> USE DEF IInv
<1>1. PICK id \in Nat :
          /\ last[k] < id
          /\ last' = [last EXCEPT ![k] = id]
          /\ stream' = [stream EXCEPT ![k] = @ \cup {id}]
          /\ UNCHANGED <<permitted, rpc, request, got, over, late>>
  <2>1. last[k] \in Nat
    BY DEF Types
  <2>2. \A id \in last[k] + 1 .. MaxId : id \in Nat /\ last[k] < id
    BY <2>1, PagingAssumption
  <2> QED
    BY <2>2 DEF Added
<1>2. Types'
  BY <1>1 DEF Types, request
<1>3. UpToLast'
  BY <1>1 DEF Types, UpToLast, request
<1>4. PageAhead' /\ PageWanted' /\ LateOnce'
  BY <1>1 DEF PageAhead, PageWanted, LateOnce, request
<1>5. NoGap'
  <2> SUFFICES ASSUME NEW j \in Kinds, NEW i \in Readable(j)'
               PROVE  /\ i <= cursor[j] \/ (\E later \in got[j] : i < later) => i \in got[j]
                      /\ cursor[j] < i /\ (i <= next[j] \/ \E later \in page[j] : i < later)
                             => i \in page[j]
    BY <1>1 DEF NoGap, request
  <2>1. CASE i \in Readable(j)
    BY <2>1 DEF NoGap
  <2>2. CASE i = id /\ j = k
    BY <1>1, <2>2 DEF UpToLast, Types
  <2> QED
    BY <1>1, <2>1, <2>2 DEF Readable, Types
<1> QED
  BY <1>2, <1>3, <1>4, <1>5

LEMMA TrimmedInv ==
    ASSUME IInv, NEW k \in Kinds, NEW id, TrimmedBelow(k, id)
    PROVE  IInv'
<1> USE DEF IInv
<1>1. /\ stream' \in [Kinds -> SUBSET Nat]
      /\ \A j \in Kinds : stream'[j] \subseteq stream[j]
      /\ UNCHANGED <<last, permitted, rpc, request, got, over, late>>
  BY DEF TrimmedBelow, Types
<1>2. Types' /\ UpToLast' /\ PageAhead' /\ PageWanted' /\ LateOnce'
  BY <1>1 DEF Types, UpToLast, PageAhead, PageWanted, LateOnce, request
<1>3. NoGap'
  BY <1>1 DEF NoGap, Readable, request
<1> QED
  BY <1>2, <1>3

LEMMA ProvisionInv ==
    ASSUME IInv, Provision
    PROVE  IInv'
BY DEF Provision, IInv, Types, UpToLast, PageAhead, PageWanted, NoGap, Readable, LateOnce,
       request

-----------------------------------------------------------------------------
(* The request *)
LEMMA AuthorizeInv ==
    ASSUME IInv, Authorize
    PROVE  IInv'
BY DEF Authorize, Admit, IInv, Types, UpToLast, PageAhead, PageWanted, NoGap, Readable, LateOnce,
       request

(* What fetch_kind_page reads: past the cursor, in the range, without a gap *)
LEMMA FetchedEntries ==
    ASSUME IInv, NEW k \in Kinds
    PROVE  /\ Entries(k) \subseteq stream[k]
           /\ \A id \in Entries(k) : cursor[k] < id
           /\ \A id \in Readable(k) :
                 cursor[k] < id /\ (\E later \in Entries(k) : id < later)
                     => id \in Entries(k)
<1> DEFINE range == {id \in stream[k] :
        id <= Hi /\ IF cursor[k] = NoCursor THEN id >= Lo ELSE id > cursor[k]}
<1>1. /\ range \subseteq stream[k] /\ range \in SUBSET (0..last[k]) /\ last[k] \in Nat
      /\ cursor[k] \in Nat /\ \A id \in range : cursor[k] < id /\ id <= Hi
  BY PagingAssumption DEF IInv, Types, UpToLast, NoCursor
<1>2. Xrange(k) = Smallest(PageSize, range) /\ Xrange(k) \subseteq range
  BY DEF Xrange, Smallest
<1>3. ASSUME NEW id \in Readable(k), cursor[k] < id,
             NEW later \in Entries(k), id < later
      PROVE  id \in Entries(k)
  <2>1. id \in range /\ id \notin Unreadable
    BY <1>1, <1>2, <1>3, PagingAssumption DEF Readable, Entries, IInv, Types
  <2>2. PageSize \in Nat /\ later \in Smallest(PageSize, range)
    BY <1>2, PagingAssumption DEF Entries
  <2> HIDE DEF range
  <2>3. id \in Smallest(PageSize, range)
    BY <1>1, <1>3, <2>1, <2>2, SmallestHasNoGap
  <2> QED
    BY <1>2, <2>1, <2>3 DEF Entries
<1> QED
  BY <1>1, <1>2, <1>3 DEF Entries

LEMMA FetchInv ==
    ASSUME IInv, NEW k \in wanted, NEW then \in {"log_done", "metric_done"},
           rpc \in {"admitted", "log_done", "metric_done"}, FetchKind(k, then)
    PROVE  IInv'
<1> USE DEF IInv
<1>1. UNCHANGED <<last, stream, permitted, wanted, cursor, got, over, late>> /\ k \in Kinds
  BY DEF FetchKind, Types
<1>2. CASE CannotPage(k)
  BY <1>1, <1>2 DEF FetchKind, Types, UpToLast, PageAhead, PageWanted, NoGap, Readable,
       LateOnce
<1>3. CASE ~ CannotPage(k)
  <2>1. /\ rpc' = then
        /\ next' = [next EXCEPT ![k] = NextCursor(k)]
        /\ page' = [page EXCEPT ![k] = Entries(k)]
    BY <1>3 DEF FetchKind
  <2>2. Entries(k) \subseteq 1..last[k] /\ last[k] \in Nat
    BY <1>1, FetchedEntries DEF UpToLast, Types
  <2>3. NextCursor(k) = NoCursor
        \/ /\ NextCursor(k) \in Entries(k)
           /\ \A id \in Entries(k) : id <= NextCursor(k)
    <3>1. CASE PageIsFull(k)
      <4>1. Entries(k) # {} /\ Entries(k) \in SUBSET (0..last[k])
        BY <1>3, <2>2, <3>1 DEF CannotPage
      <4> QED
        BY <2>2, <3>1, <4>1, MaxExists DEF NextCursor
    <3>2. CASE ~ PageIsFull(k)
      BY <3>2 DEF NextCursor
    <3> QED
      BY <3>1, <3>2
  <2>4. Types'
    BY <1>1, <2>1, <2>2, <2>3 DEF Types, NoCursor
  <2>5. UpToLast'
    BY <1>1, <2>1, <2>2, <2>3 DEF Types, UpToLast, NoCursor
  <2>6. PageAhead'
    BY <1>1, <2>1, <2>3, FetchedEntries DEF Types, PageAhead
  <2>7. PageWanted' /\ LateOnce'
    BY <1>1, <2>1 DEF Types, PageWanted, LateOnce
  <2>8. NoGap'
    <3> SUFFICES ASSUME NEW j \in Kinds, NEW i \in Readable(j)
                 PROVE  /\ i <= cursor[j] \/ (\E later \in got[j] : i < later) => i \in got[j]
                        /\ cursor[j] < i /\ (i <= next'[j] \/ \E later \in page'[j] : i < later)
                               => i \in page'[j]
      BY <1>1 DEF NoGap, Readable
    <3>1. i \in Nat \ {0}
      BY PagingAssumption DEF Readable, Types
    <3>2. CASE j # k
      BY <2>1, <3>2 DEF NoGap, Types
    <3>3. CASE j = k
      <4>1. page'[k] = Entries(k) /\ next'[k] = NextCursor(k)
        BY <1>1, <2>1 DEF Types
      <4>2. i <= NextCursor(k) => i \in Entries(k) \/ \E later \in Entries(k) : i < later
        BY <2>2, <2>3, <3>1 DEF NoCursor
      <4> QED
        BY <1>1, <3>3, <4>1, <4>2, FetchedEntries DEF NoGap
    <3> QED
      BY <3>2, <3>3
  <2> QED
    BY <2>4, <2>5, <2>6, <2>7, <2>8
<1> QED
  BY <1>2, <1>3

LEMMA RespondInv ==
    ASSUME IInv, Respond
    PROVE  IInv'
<1> USE DEF IInv
<1>1. /\ got' = [k \in Kinds |-> got[k] \cup (page[k] \cap Matching)]
      /\ cursor' = next /\ next' = [k \in Kinds |-> 0]
      /\ page' = [k \in Kinds |-> {}]
      /\ rpc' = "client" /\ rpc \in {"log_done", "metric_done"}
      /\ late' = (IF permitted THEN 0 ELSE late + 1)
      /\ UNCHANGED <<last, stream, permitted>>
  BY DEF Respond, Filtered, NoCursor
<1>2. over' \in BOOLEAN /\ wanted' \subseteq wanted
  BY DEF Respond, Types
<1>3. Types'
  BY <1>1, <1>2 DEF Types
<1>4. UpToLast'
  BY <1>1 DEF Types, UpToLast
<1>5. PageAhead' /\ PageWanted' /\ LateOnce'
  BY <1>1 DEF Types, PageAhead, PageWanted, LateOnce, NoCursor
<1>6. NoGap'
  <2> SUFFICES ASSUME NEW k \in Kinds, NEW id \in Readable(k)
               PROVE  /\ id <= next[k] \/ (\E later \in got'[k] : id < later) => id \in got'[k]
                      /\ ~ (id <= 0)
    BY <1>1 DEF NoGap, Readable
  <2>1. id \in Nat \ {0} /\ id \in Matching /\ cursor[k] \in Nat
    BY PagingAssumption DEF Readable, Types
  <2>2. CASE id <= cursor[k]
    BY <1>1, <2>1, <2>2 DEF NoGap
  <2>3. CASE cursor[k] < id
    BY <1>1, <2>1, <2>3 DEF NoGap
  <2> QED
    BY <2>1, <2>2, <2>3
<1> QED
  BY <1>3, <1>4, <1>5, <1>6

LEMMA NextInv == IInv /\ [Next]_vars => IInv'
<1> SUFFICES ASSUME IInv, [Next]_vars PROVE IInv'
  OBVIOUS
<1>1. CASE UNCHANGED vars
  BY <1>1 DEF vars, request, IInv, Types, UpToLast, PageAhead, PageWanted, NoGap, Readable,
       LateOnce
<1>2. CASE FetchLogs \/ FetchMetrics
  BY <1>2, FetchInv DEF FetchLogs, FetchMetrics
<1>3. CASE Next
  BY <1>1, <1>2, <1>3, AddedInv, TrimmedInv, ProvisionInv, AuthorizeInv, RespondInv
     DEF Next, Serve, ClientIsDone
<1> QED
  BY <1>1, <1>3

(* With the cursors dropped as they become null, what is still asked for has *)
(* been received up to the cursor and no further.                          *)
LEMMA NextBehind == DropsFinished /\ IInv /\ GotBehind /\ [Next]_vars => GotBehind'
<1> SUFFICES ASSUME DropsFinished, IInv, GotBehind, [Next]_vars PROVE GotBehind'
  OBVIOUS
<1>1. CASE Respond
  <2> SUFFICES ASSUME NEW k \in wanted', ~ over', NEW id \in got'[k]
               PROVE  id <= next[k]
    BY <1>1 DEF GotBehind, Respond
  <2>1. k \in wanted /\ k \in Kinds /\ next[k] # NoCursor
    BY <1>1 DEF Respond, IInv, Types
  <2>2. ~ over
    BY <1>1 DEF Respond, IInv, PageWanted
  <2>3. id \in got[k] \/ id \in page[k]
    BY <1>1, <2>1 DEF Respond, Filtered
  <2>4. id \in got[k] => id <= cursor[k]
    BY <2>1, <2>2 DEF GotBehind
  <2>5. cursor[k] \in Nat /\ next[k] \in Nat /\ (id \in got[k] => id \in Nat)
    BY <2>1 DEF IInv, Types
  <2> QED
    BY <2>1, <2>3, <2>4, <2>5 DEF IInv, PageAhead
<1>2. CASE ~ Respond
  <2>1. UNCHANGED <<wanted, cursor, got, over>>
    BY <1>2 DEF Next, Serve, ClientIsDone, Added, TrimmedBelow, Provision, Authorize, Admit,
         FetchLogs, FetchMetrics, FetchKind, vars, request
  <2> QED
    BY <2>1 DEF GotBehind
<1> QED
  BY <1>1, <1>2

-----------------------------------------------------------------------------
(* Whatever the streams do between two requests, the client's pages have no  *)
(* gap (fetch_kind_page's exclusive start and last readable cursor).        *)
THEOREM PagesHaveNoGap == Spec => []NothingSkipped
<1>1. IInv => NothingSkipped
  BY DEF IInv, NoGap, Readable, NothingSkipped
<1> QED
  BY <1>1, InitInv, NextInv, PTL DEF Spec

(* A client that drops the kinds whose cursor came back null gets no entry   *)
(* twice.                                                                  *)
THEOREM PagesDoNotOverlap == DropsFinished /\ Spec => []NothingTwice
<1>1. IInv /\ GotBehind => NothingTwice
  <2> SUFFICES ASSUME IInv, GotBehind, NEW k \in Kinds, NEW id \in page[k], id \in got[k]
               PROVE  FALSE
    BY DEF NothingTwice, Filtered
  <2>1. k \in wanted /\ ~ over
    BY DEF IInv, PageWanted
  <2>2. id <= cursor[k] /\ cursor[k] < id /\ cursor[k] \in Nat /\ id \in Nat
    BY <2>1 DEF GotBehind, IInv, PageAhead, Types
  <2> QED
    BY <2>2
<1> DEFINE J == DropsFinished /\ IInv /\ GotBehind
<1>2. DropsFinished /\ Init => J
  BY InitInv
<1>3. J /\ [Next]_vars => J'
  BY NextInv, NextBehind
<1>4. J => NothingTwice
  BY <1>1
<1> QED
  BY <1>2, <1>3, <1>4, PTL DEF Spec

(* Whoever follows a cursor gets further: fetch_kind_page gives back the id  *)
(* of a readable entry past the one it was sent.                           *)
THEOREM CursorsGoForward == Spec => []CursorsAdvance
<1>1. IInv => CursorsAdvance
  <2> SUFFICES ASSUME IInv, NEW k \in Kinds, next[k] # NoCursor PROVE next[k] > cursor[k]
    BY DEF CursorsAdvance
  <2> QED
    BY DEF IInv, PageAhead, Types
<1> QED
  BY <1>1, InitInv, NextInv, PTL DEF Spec

(* From its revocation on a key gets one more page at most, of the request   *)
(* that get_permitted_daemons had admitted.                                 *)
THEOREM OneLatePage == Spec => []AtMostOneLatePage
<1>1. IInv => AtMostOneLatePage
  BY DEF IInv, LateOnce, AtMostOneLatePage
<1> QED
  BY <1>1, InitInv, NextInv, PTL DEF Spec

(* fetch_kind_page gives a null cursor only when XRANGE returned less than   *)
(* it was asked for, and so all that there was past the cursor sent.        *)
LEMMA NullCursorEndsTheRange ==
    ASSUME IInv, NEW k \in Kinds, NextCursor(k) = NoCursor, ~ CannotPage(k),
           NEW id \in (stream[k] \cap Matching \cap Lo..Hi) \ Unreadable, cursor[k] < id
    PROVE  id \in Entries(k)
<1> DEFINE range == {i \in stream[k] :
        i <= Hi /\ IF cursor[k] = NoCursor THEN i >= Lo ELSE i > cursor[k]}
<1>1. /\ range \in SUBSET (0..last[k]) /\ last[k] \in Nat /\ cursor[k] \in Nat
      /\ stream[k] \subseteq 1..last[k]
  BY DEF IInv, Types, UpToLast
<1>2. Xrange(k) = Smallest(PageSize, range) /\ PageSize \in Nat
  BY PagingAssumption DEF Xrange, Smallest
<1>3. id \in range /\ id \notin Unreadable
  BY <1>1, PagingAssumption
<1> HIDE DEF range
<1>4. ~ PageIsFull(k)
  <2> SUFFICES ASSUME PageIsFull(k) PROVE FALSE
    OBVIOUS
  <2>1. Entries(k) # {} /\ Entries(k) \subseteq stream[k]
    BY FetchedEntries DEF CannotPage
  <2>2. Entries(k) \in SUBSET (0..last[k]) /\ 0 \notin Entries(k)
    BY <1>1, <2>1
  <2>3. Max(Entries(k)) \in Entries(k)
    BY <1>1, <2>1, <2>2, MaxExists
  <2> QED
    BY <2>2, <2>3 DEF NextCursor, NoCursor
<1>5. Smallest(PageSize, range) = range
  BY <1>1, <1>2, <1>4, SmallestLeavesOutFullOnly DEF PageIsFull
<1> QED
  BY <1>2, <1>3, <1>5 DEF Entries

(* A null cursor means that there is no more: with the page that it comes   *)
(* with, the client has all readable entries of the range that are in the   *)
(* stream when the page is fetched.                                        *)
THEOREM NullCursorIsTheEnd == Spec => NullCursorMeansAll
<1> DEFINE All(k) ==
        rpc' # rpc /\ rpc' = Done(k) /\ next'[k] = NoCursor
            => (stream[k] \cap Matching \cap Lo..Hi) \ Unreadable \subseteq got[k] \cup page'[k]
<1>1. ASSUME IInv, [Next]_vars, NEW k \in Kinds PROVE All(k)
  <2> SUFFICES ASSUME rpc' # rpc, rpc' = Done(k), next'[k] = NoCursor,
                      NEW id \in (stream[k] \cap Matching \cap Lo..Hi) \ Unreadable
               PROVE  id \in got[k] \cup page'[k]
    OBVIOUS
  <2>1. FetchKind(k, Done(k))
    <3> HIDE DEF All
    <3>1. Done(k) \in {"log_done", "metric_done"} /\ (Done(k) = "log_done" <=> k = "log")
      BY DEF Done
    <3>2. rpc' = rpc \/ rpc' \in {"admitted", "refused", "client"} \/ FetchLogs \/ FetchMetrics
      BY <1>1 DEF Next, Serve, Added, TrimmedBelow, Provision, Authorize, Admit, Respond, ClientIsDone, vars
    <3>3. FetchLogs \/ FetchMetrics
      BY <3>1, <3>2
    <3>4. CASE FetchLogs
      <4>1. FetchKind("log", "log_done") /\ rpc' \in {"log_done", "failed"}
        BY <3>4 DEF FetchLogs, FetchKind
      <4> QED
        BY <3>1, <4>1
    <3>5. CASE FetchMetrics
      <4>1. FetchKind("metric", "metric_done") /\ rpc' \in {"metric_done", "failed"}
        BY <3>5 DEF FetchMetrics, FetchKind
      <4> QED
        BY <3>1, <4>1 DEF Kinds
    <3> QED
      BY <3>3, <3>4, <3>5
  <2>2. /\ ~ CannotPage(k) /\ NextCursor(k) = NoCursor /\ page'[k] = Entries(k)
    <3>1. ~ CannotPage(k)
      BY <2>1 DEF FetchKind, Done
    <3>2. next' = [next EXCEPT ![k] = NextCursor(k)] /\ page' = [page EXCEPT ![k] = Entries(k)]
      BY <2>1, <3>1 DEF FetchKind
    <3>3. next'[k] = NextCursor(k) /\ page'[k] = Entries(k)
      BY <1>1, <3>2 DEF IInv, Types
    <3> QED
      BY <3>1, <3>3
  <2>3. id \in Readable(k) /\ id \in Nat /\ cursor[k] \in Nat
    BY <1>1, PagingAssumption DEF Readable, IInv, Types
  <2>4. CASE id <= cursor[k]
    BY <1>1, <2>3, <2>4 DEF IInv, NoGap
  <2>5. CASE cursor[k] < id
    BY <1>1, <2>2, <2>5, NullCursorEndsTheRange
  <2> QED
    BY <2>3, <2>4, <2>5
<1>2. IInv /\ [Next]_vars => [\A k \in Kinds : All(k)]_vars
  BY <1>1
<1>3. Init => IInv
  BY InitInv
<1> QED
  BY <1>2, <1>3, NextInv, PTL DEF Spec, NullCursorMeansAll
=============================================================================
