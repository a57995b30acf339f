------------------------------- MODULE Paging -------------------------------
(***************************************************************************)
(* GET /records and a client that pages through one daemon's records of a   *)
(* time range, following the cursors, while the consumer appends to the    *)
(* streams, the trimmer cuts their old ends off and an operator grants and *)
(* revokes what the client's API key permits.                              *)
(*                                                                         *)
(* A stream id is a number; ids Lo..Hi lie within the requested range.      *)
(* A request is an SMEMBERS for the key and two XRANGE commands, one per     *)
(* kind, with awaits in between.                                           *)
(***************************************************************************)
EXTENDS Naturals, FiniteSetsExt

CONSTANTS
    Lo, Hi,         \* _id_floor(start) and _id_ceiling(end)
    PageSize,       \* effective_limit
    Asked,          \* the kinds the client wants
    DropsFinished,  \* the client asks no more for a kind whose cursor is null
    Unreadable,     \* ids whose data is not a Record to this version
    Matching,       \* ids whose record passes the filters of the request
    MaxId           \* bound: the last stream id

Kinds == {"log", "metric"}
NoCursor == 0

ASSUME PagingAssumption ==
    /\ Lo \in Nat \ {0} /\ Hi \in Nat /\ MaxId \in Nat
    /\ PageSize \in Nat \ {0}
    /\ Asked \in (SUBSET Kinds) \ {{}}
    /\ DropsFinished \in BOOLEAN

VARIABLES
    last,           \* last[kind]: the id of the newest entry (0: none)
    stream,         \* stream[kind]: the ids that XRANGE sees
    permitted,      \* the key's set names the daemon
    rpc,            \* "client", "admitted", "log_done", "metric_done" (the kind
                    \* that was fetched last), "failed" or "refused" for good
    wanted,         \* the kinds of the request
    cursor,         \* cursor[kind], as sent with the request
    next,           \* next_log_cursor and next_metric_cursor
    page,           \* the entries fetched for the response
    got,            \* got[kind]: all that the client received
    over,           \* the client has got all its pages
    late            \* pages served since the permission was revoked (history)

request == <<wanted, cursor, next, page>>
vars == <<last, stream, permitted, rpc, request, got, over, late>>

-----------------------------------------------------------------------------
Init ==
    /\ last = [k \in Kinds |-> 0]
    /\ stream = [k \in Kinds |-> {}]
    /\ permitted \in BOOLEAN
    /\ rpc = "client"
    /\ wanted = Asked
    /\ cursor = [k \in Kinds |-> NoCursor]
    /\ next = [k \in Kinds |-> NoCursor]
    /\ page = [k \in Kinds |-> {}]
    /\ got = [k \in Kinds |-> {}]
    /\ over = FALSE
    /\ late = 0

(* The consumer: a new id is greater than all before it *)
Added(k) ==
    /\ last[k] < MaxId
    /\ \E id \in last[k] + 1 .. MaxId :
        /\ last' = [last EXCEPT ![k] = id]
        /\ stream' = [stream EXCEPT ![k] = @ \cup {id}]
    /\ UNCHANGED <<permitted, rpc, request, got, over, late>>

(* The trimmer *)
TrimmedBelow(k, id) ==
    /\ \E old \in stream[k] : old < id
    /\ stream' = [stream EXCEPT ![k] = {i \in @ : i >= id}]
    /\ UNCHANGED <<last, permitted, rpc, request, got, over, late>>

(* Provisioning, outside the repository: SADD, SREM or DEL of the key's set *)
Provision ==
    /\ permitted' = ~ permitted
    /\ late' = 0
    /\ UNCHANGED <<last, stream, rpc, request, got, over>>

-----------------------------------------------------------------------------
Smallest(n, ids) == {id \in ids : Cardinality({i \in ids : i < id}) < n}

(* Mutant of Xrange: the cursor's own entry is fetched again *)
XrangeFrom(k) ==
    Smallest(PageSize, {id \in stream[k] :
        id <= Hi /\ IF cursor[k] = NoCursor THEN id >= Lo ELSE id >= cursor[k]})

(* XRANGE from start or past the cursor to end, COUNT limit *)
Xrange(k) ==
    Smallest(PageSize, {id \in stream[k] :
        id <= Hi /\ IF cursor[k] = NoCursor THEN id >= Lo ELSE id > cursor[k]})

(* fetch_kind_page: what it could read, and a cursor if the page is full *)
Entries(k) == Xrange(k) \ Unreadable

(* Mutant of PageIsFull: len(entries) in place of len(raw_entries) *)
PageIsFullOfEntries(k) == Cardinality(Entries(k)) = PageSize

PageIsFull(k) == Cardinality(Xrange(k)) = PageSize

(* Mutants of NextCursor: the end of the stream; never null *)
NextCursorAtEnd(k) == IF PageIsFull(k) THEN Max(stream[k]) ELSE NoCursor
NextCursorAlways(k) == IF Entries(k) # {} THEN Max(Entries(k)) ELSE cursor[k]

NextCursor(k) == IF PageIsFull(k) THEN Max(Entries(k)) ELSE NoCursor

(* A full page with no readable entry: entries[-1] is an IndexError *)
CannotPage(k) == PageIsFull(k) /\ Entries(k) = {}

FetchKind(k, then) ==
    /\ IF CannotPage(k)
       THEN /\ rpc' = "failed"
            /\ UNCHANGED <<next, page>>
       ELSE /\ rpc' = then
            /\ next' = [next EXCEPT ![k] = NextCursor(k)]
            /\ page' = [page EXCEPT ![k] = Entries(k)]
    /\ UNCHANGED <<last, stream, permitted, wanted, cursor, got, over, late>>

Admit(ok) ==
    /\ rpc = "client" /\ ~ over
    /\ rpc' = IF ok THEN "admitted" ELSE "refused"
    /\ UNCHANGED <<last, stream, permitted, request, got, over, late>>

(* Mutant of Authorize: only the first page of a client is asked about *)
AuthorizeOnce == Admit(permitted \/ \E k \in Kinds : cursor[k] # NoCursor)

(* get_permitted_daemons and require_daemon_access: SMEMBERS, 401 or 403 *)
Authorize == Admit(permitted)

(* get_records *)
FetchLogs == rpc = "admitted" /\ "log" \in wanted /\ FetchKind("log", "log_done")

FetchMetrics ==
    /\ "metric" \in wanted
    /\ rpc = IF "log" \in wanted THEN "log_done" ELSE "admitted"
    /\ FetchKind("metric", "metric_done")

(* apply_filters *)
Filtered(k) == page[k] \cap Matching

(* The page of all kinds is there: the client takes it and, unless every    *)
(* cursor is null, asks for the next one with the cursors it was given     *)
Respond ==
    /\ rpc = IF "metric" \in wanted THEN "metric_done" ELSE "log_done"
    /\ rpc' = "client"
    /\ got' = [k \in Kinds |-> got[k] \cup Filtered(k)]
    /\ over' = \A k \in wanted : next[k] = NoCursor
    /\ wanted' = IF DropsFinished /\ ~ over'
                 THEN {k \in wanted : next[k] # NoCursor} ELSE wanted
    /\ cursor' = next
    /\ next' = [k \in Kinds |-> NoCursor]
    /\ page' = [k \in Kinds |-> {}]
    /\ late' = IF permitted THEN 0 ELSE late + 1
    /\ UNCHANGED <<last, stream, permitted>>

Serve == Authorize \/ FetchLogs \/ FetchMetrics \/ Respond

(* The client has all its pages, or an error status and gives up *)
IsDone == over \/ rpc \in {"failed", "refused"}
ClientIsDone == IsDone /\ UNCHANGED vars

Next ==
    \/ \E k \in Kinds : Added(k) \/ \E id \in 1..MaxId : TrimmedBelow(k, id)
    \/ Provision
    \/ Serve
    \/ ClientIsDone

Spec == Init /\ [][Next]_vars

(* Requests are answered, and the client keeps asking *)
FairSpec == Spec /\ WF_vars(Serve)

-----------------------------------------------------------------------------
TypeOK ==
    /\ last \in [Kinds -> 0..MaxId]
    /\ \A k \in Kinds : stream[k] \subseteq 1..last[k]
    /\ permitted \in BOOLEAN
    /\ rpc \in {"client", "admitted", "log_done", "metric_done", "failed", "refused"}
    /\ wanted \in (SUBSET Kinds) \ {{}}
    /\ cursor \in [Kinds -> 0..MaxId] /\ next \in [Kinds -> 0..MaxId]
    /\ \A k \in Kinds : (got[k] \cup page[k]) \subseteq Lo..Hi \ Unreadable
    /\ over \in BOOLEAN /\ late \in Nat

(* No entry comes on two pages: whatever is fetched, the client has not got *)
(* yet, also when entries were added or trimmed since the last page.       *)
NothingTwice == \A k \in Kinds : Filtered(k) \cap got[k] = {}

(* No entry is passed over: those before the last one of the client, or not *)
(* past the cursor it goes on from, that are still in the stream are with   *)
(* the client.                                                             *)
NothingSkipped ==
    \A k \in Kinds : \A id \in (stream[k] \cap Matching) \ Unreadable :
        /\ id >= Lo
        /\ id <= cursor[k] \/ \E later \in got[k] : id < later
        => id \in got[k]

Done(k) == IF k = "log" THEN "log_done" ELSE "metric_done"

(* A null cursor is given only with the last of the entries that the range  *)
(* had at that moment.                                                     *)
NullCursorMeansAll ==
    [][\A k \in Kinds :
           rpc' # rpc /\ rpc' = Done(k) /\ next'[k] = NoCursor
               => (stream[k] \cap Matching \cap Lo..Hi) \ Unreadable
                      \subseteq got[k] \cup page'[k]]_vars

(* A cursor that is given back is past the one that was sent, and whoever    *)
(* follows it gets further.                                                *)
CursorsAdvance == \A k \in Kinds : next[k] # NoCursor => next[k] > cursor[k]

(* A client that follows the cursors comes to an end. *)
PagingEnds == <>IsDone

(* The permission is read once per request: from its revocation on a client  *)
(* gets one more page at most, however long the request in flight takes.    *)
AtMostOneLatePage == late <= 1

(* queries.py: a record that cannot be read is passed over on read, so no   *)
(* request fails because of what is stored.                                *)
ReadsAreLenient == rpc # "failed"
=============================================================================
