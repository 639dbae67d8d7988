------------------------------ MODULE RangeCache ------------------------------
(***************************************************************************)
(* range-cache/range-cache.go and the remote file reader in front of it    *)
(* (split-car-fetcher/remote-file.go): several goroutines ReadAt one        *)
(* remote file through a shared cache of byte ranges, while a collector     *)
(* drops old entries and the owner of the file may close it.                *)
(*                                                                         *)
(* The server may answer a request for a range with any bytes: remoteReadAt *)
(* looks at no status, and io.ReadFull only counts.                         *)
(*                                                                         *)
(* A range [start, end) is the pair <<start, end>>; a value is a function   *)
(* from 0 .. len-1 to bytes.  The mutex is implicit in pc: a goroutine is   *)
(* in "fetch" exactly while it holds the write lock, and every other        *)
(* critical section is one step that needs the lock to be free.             *)
(***************************************************************************)
EXTENDS Integers, FiniteSets

CONSTANTS Size,      \* length of the remote file (rc.size, contentLength)
          Byte,
          File,      \* its bytes
          Asked,     \* what ReadAt is asked for: pairs of an offset and a length
          MaxWrong,  \* ranges for which the server sends something else
          Readers    \* goroutines that call ReadAt

ASSUME SizeAssumption == Size \in Nat
ASSUME FileAssumption == File \in [0 .. (Size - 1) -> Byte]
ASSUME AskedAssumption == Asked \subseteq Nat \X Nat

\* A file to check with: two neighbours are never the same.
OddBytes == [i \in 0 .. (Size - 1) |-> i % 2]

\* Ranges that overlap, nest and touch, one without bytes, one past the end, one
\* that begins there.
SomeReads == {<<0, 2>>, <<1, 2>>, <<0, 3>>, <<1, 1>>, <<1, 0>>, <<1, 3>>, <<3, 1>>}

VARIABLES cache,     \* rc.cache: a function from cached ranges to values
          closed,    \* rc.cache is nil
          occupied,  \* rc.occupiedSpace
          pc,        \* where each reader is: idle, lookup, miss, fetch, panicked
          req,       \* the range each reader last asked for
          out,       \* what its last ReadAt returned
          wrong      \* the ranges that the server answered with other bytes

vars == <<cache, closed, occupied, pc, req, out, wrong>>

Ranges == {r \in (0 .. Size) \X (0 .. Size) : r[1] <= r[2]}

Contains(r, q) == r[1] <= q[1] /\ r[2] >= q[2]

IsValidFor(r, size) == r[1] >= 0 /\ r[2] <= size /\ r[1] <= r[2]

Length(r) == r[2] - r[1]

\* What a set of cached values takes up: one for each byte of each value.
TotalLength(S) == Cardinality({b \in S \X (0 .. (Size - 1)) : b[1][1] <= b[2] /\ b[2] < b[1][2]})

\* The bytes of the remote file in range r.
Content(r) == [i \in 0 .. (Length(r) - 1) |-> File[r[1] + i]]

\* The Go slice v[a:b].
Slice(v, a, b) == [i \in 0 .. (b - a - 1) |-> v[a + i]]

Ok(v) == [status |-> "ok", value |-> v]
Failed(s) == [status |-> s, value |-> <<>>]

Restricted(c, S) == [r \in S |-> c[r]]

\* No goroutine holds the write lock.
Unlocked == \A t \in Readers : pc[t] # "fetch"

Init ==
    /\ cache = [r \in {} |-> <<>>]
    /\ closed = FALSE
    /\ occupied = 0
    /\ pc = [t \in Readers |-> "idle"]
    /\ req = [t \in Readers |-> <<0, 0>>]
    /\ out = [t \in Readers |-> Failed("none")]
    /\ wrong = {}

(* HTTPSingleFileRemoteReaderAt.ReadAt up to the lookup, with GetRange's    *)
(* and getRange's range checks.                                             *)
ReadAt(t, off, len) ==
    /\ pc[t] = "idle"
    /\ IF off >= Size \/ ~IsValidFor(<<off, off + len>>, Size)
       THEN /\ out' = [out EXCEPT ![t] =
                          Failed(IF off >= Size THEN "EOF" ELSE "invalid")]
            /\ UNCHANGED <<pc, req>>
       ELSE /\ pc' = [pc EXCEPT ![t] = "lookup"]
            /\ req' = [req EXCEPT ![t] = <<off, off + len>>]
            /\ out' = [out EXCEPT ![t] = Failed("none")]
    /\ UNCHANGED <<cache, closed, occupied, wrong>>

\* Mutant of LookupHit: the superset's value is cut at 0, not at start-r[0].
LookupHitFromZero(t) ==
    /\ pc[t] = "lookup"
    /\ Unlocked
    /\ \E r \in DOMAIN cache :
          /\ Contains(r, req[t])
          /\ out' = [out EXCEPT ![t] = Ok(Slice(cache[r], 0, Length(req[t])))]
    /\ pc' = [pc EXCEPT ![t] = "idle"]
    /\ UNCHANGED <<cache, closed, occupied, req, wrong>>

\* getRangeFromCache under the read lock.  The superset it finds first
\* depends on Go's map order.
LookupHit(t) ==
    /\ pc[t] = "lookup"
    /\ Unlocked
    /\ \E r \in DOMAIN cache :
          /\ Contains(r, req[t])
          /\ req[t] \in DOMAIN cache => r = req[t]
          /\ out' = [out EXCEPT ![t] =
                Ok(Slice(cache[r], req[t][1] - r[1], req[t][2] - r[1]))]
    /\ pc' = [pc EXCEPT ![t] = "idle"]
    /\ UNCHANGED <<cache, closed, occupied, req, wrong>>

LookupMiss(t) ==
    /\ pc[t] = "lookup"
    /\ Unlocked
    /\ \A r \in DOMAIN cache : ~Contains(r, req[t])
    /\ pc' = [pc EXCEPT ![t] = "miss"]
    /\ UNCHANGED <<cache, closed, occupied, req, out, wrong>>

\* Mutant of StartFetch: the read lock is still held when the write lock is
\* taken, so two readers that miss wait for each other.
StartFetchUpgrade(t) ==
    /\ pc[t] = "miss"
    /\ \A u \in Readers \ {t} : pc[u] \notin {"miss", "fetch"}
    /\ pc' = [pc EXCEPT ![t] = "fetch"]
    /\ UNCHANGED <<cache, closed, occupied, req, out, wrong>>

\* getRange takes the write lock and calls the fetcher without looking again.
StartFetch(t) ==
    /\ pc[t] = "miss"
    /\ Unlocked
    /\ pc' = [pc EXCEPT ![t] = "fetch"]
    /\ UNCHANGED <<cache, closed, occupied, req, out, wrong>>

-----------------------------------------------------------------------------
(* setRange: the loop visits the cached ranges in any order.  It stops at    *)
(* the first one that contains q, having already dropped the set D of        *)
(* visited ranges that q contains; or it sees all of them, drops every       *)
(* range that q contains and stores the value.                               *)
Subsumed(q) == {r \in DOMAIN cache : Contains(q, r)}

\* Mutant of Drop: occupiedSpace is not reduced.
DropUncounted(D) ==
    /\ cache' = Restricted(cache, DOMAIN cache \ D)
    /\ UNCHANGED occupied

Drop(D) ==
    /\ cache' = Restricted(cache, DOMAIN cache \ D)
    /\ occupied' = occupied - TotalLength(D)

\* Mutants of SetRange: subsets of the new range stay; every range that
\* overlaps or touches the new one goes.
SetRangeKeepSubsets(q, value) ==
    /\ \A s \in DOMAIN cache : ~Contains(s, q)
    /\ cache' = [r \in DOMAIN cache \cup {q} |-> IF r = q THEN value ELSE cache[r]]
    /\ occupied' = occupied + Length(q)

SetRangeDropOverlaps(q, value) ==
    LET gone == {r \in DOMAIN cache : r[1] <= q[2] /\ q[1] <= r[2]} IN
    /\ \A s \in DOMAIN cache : ~Contains(s, q)
    /\ cache' = [r \in (DOMAIN cache \ gone) \cup {q} |->
                    IF r = q THEN value ELSE cache[r]]
    /\ occupied' = occupied - TotalLength(gone) + Length(q)

SetRange(q, value) ==
    \/ \E s \in DOMAIN cache, D \in SUBSET Subsumed(q) :
          /\ Contains(s, q)
          /\ \A d \in D : ~Contains(d, q)
          /\ Drop(D)
    \/ /\ \A s \in DOMAIN cache : ~Contains(s, q)
       /\ LET kept == DOMAIN cache \ Subsumed(q) IN
          /\ cache' = [r \in kept \cup {q} |-> IF r = q THEN value ELSE cache[r]]
          /\ occupied' = occupied - TotalLength(Subsumed(q)) + Length(q)

\* What io.ReadFull can take from the body of a response.
Bodies(q) == [0 .. (Length(q) - 1) -> Byte]

\* remoteReadAt answered with enough bytes for io.ReadFull: those of the range,
\* or any others (an error page, the file from its start), which nothing tells
\* apart.  The context of setRange is the background's, which never ends.
Fetched(t) ==
    /\ pc[t] = "fetch"
    /\ ~closed
    /\ \E body \in Bodies(req[t]) :
          /\ wrong' = IF body = Content(req[t]) THEN wrong ELSE wrong \cup {req[t]}
          /\ Cardinality(wrong') <= MaxWrong
          /\ SetRange(req[t], body)
          /\ out' = [out EXCEPT ![t] = Ok(body)]
    /\ pc' = [pc EXCEPT ![t] = "idle"]
    /\ UNCHANGED <<closed, req>>

\* The same after Close: setRange assigns to a nil map.  The deferred Unlock
\* still runs.
FetchedClosed(t) ==
    /\ pc[t] = "fetch"
    /\ closed
    /\ pc' = [pc EXCEPT ![t] = "panicked"]
    /\ UNCHANGED <<cache, closed, occupied, req, out, wrong>>

\* remoteReadAt failed after its retries, or the body was short.
FetchFailed(t) ==
    /\ pc[t] = "fetch"
    /\ pc' = [pc EXCEPT ![t] = "idle"]
    /\ out' = [out EXCEPT ![t] = Failed("fetch")]
    /\ UNCHANGED <<cache, closed, occupied, req, wrong>>

-----------------------------------------------------------------------------
\* DeleteOldEntries: any set of entries may be old; a context that ends
\* stops the loop early, which leaves a smaller set.
DeleteOldEntries ==
    /\ Unlocked
    /\ \E D \in SUBSET DOMAIN cache : D # {} /\ Drop(D)
    /\ UNCHANGED <<closed, pc, req, out, wrong>>

\* Close sets the map to nil and leaves occupiedSpace as it is.
Close ==
    /\ Unlocked
    /\ closed' = TRUE
    /\ cache' = [r \in {} |-> <<>>]
    /\ UNCHANGED <<occupied, pc, req, out, wrong>>

ReaderStep(t) ==
    \/ LookupHit(t)
    \/ LookupMiss(t)
    \/ StartFetch(t)
    \/ Fetched(t)
    \/ FetchedClosed(t)
    \/ FetchFailed(t)

Next ==
    \/ \E t \in Readers, a \in Asked : ReadAt(t, a[1], a[2])
    \/ \E t \in Readers : ReaderStep(t)
    \/ DeleteOldEntries
    \/ Close

Spec == Init /\ [][Next]_vars

\* Every goroutine keeps running and Go's RWMutex starves nobody, neither a
\* reader nor a writer, so a step that is enabled again and again is taken.
FairSpec == Spec /\ \A t \in Readers : SF_vars(ReaderStep(t))
-----------------------------------------------------------------------------
Statuses == {"none", "ok", "EOF", "invalid", "fetch"}

\* Every variable of the cache and of its readers keeps its type, and a reader
\* past the range checks of getRange holds a valid range.
TypeOK ==
    /\ DOMAIN cache \subseteq Ranges
    /\ cache = [r \in DOMAIN cache |-> cache[r]]
    /\ closed \in BOOLEAN
    /\ pc \in [Readers -> {"idle", "lookup", "miss", "fetch", "panicked"}]
    /\ req \in [Readers -> Ranges]
    /\ DOMAIN out = Readers
    /\ \A t \in Readers : out[t].status \in Statuses
    /\ wrong \subseteq Ranges

\* setRange refuses a range inside a cached one and drops the cached ranges
\* inside the new one, so no cached range ever contains another: the cache
\* holds no byte range twice in full, whatever readers raced to fetch it.
Antichain ==
    \A r, q \in DOMAIN cache : Contains(r, q) => r = q

\* The bytes of the file that the server answered wrongly at some time.
Spoilt == {i \in 0 .. (Size - 1) : \E r \in wrong : r[1] <= i /\ i < r[2]}

\* A value is the content of a range but for spoilt bytes.
Faithful(r, v) ==
    /\ DOMAIN v = 0 .. (Length(r) - 1)
    /\ \A i \in DOMAIN v : r[1] + i \notin Spoilt => v[i] = File[r[1] + i]

\* A wrong answer stays in its place: every cached value is the content of its
\* range, except for bytes that the server itself sent wrongly.
CacheFaithful ==
    \A r \in DOMAIN cache : Faithful(r, cache[r])

\* A ReadAt that succeeds returns as many bytes as asked for, and they are the
\* bytes of the file at these offsets, except where the server answered a
\* request for that very offset wrongly: whether getRangeFromCache cut them out
\* of a larger cached range, or this goroutine or another fetched them.
ReadsExact ==
    \A t \in Readers :
        out[t].status = "ok" => Faithful(req[t], out[t].value)

\* The unsigned counter occupiedSpace is the total length of the cached
\* values (so it never wraps below zero) through every order of insertion,
\* replacement by a superset and collection, until Close.
OccupiedExact ==
    ~closed => occupied = TotalLength(DOMAIN cache)

Served(q) == \E r \in DOMAIN cache : Contains(r, q)

\* Storing a fetched range takes nothing away: each range the cache could
\* answer before setRange it can answer afterwards.
HitsSurvive ==
    [][\A t \in Readers :
          pc[t] = "fetch" /\ cache' # cache /\ req[t] \in DOMAIN cache'
            => \A q \in Ranges : Served(q) => Served(q)']_vars

\* getRange does not look again after it gets the write lock.  When another
\* reader has cached the range meanwhile, the second fetch leaves the cache
\* as it is (and the counter with it, by OccupiedExact): the loop of setRange
\* cannot have dropped anything before it meets the range that contains the
\* new one.
RefetchHarmless ==
    [][\A t \in Readers :
          pc[t] = "fetch" /\ pc'[t] # "fetch" /\ Served(req[t])
            => UNCHANGED cache]_vars

\* Storing a range takes nothing from what the cache serves, and nothing at all
\* changes when the range is served already.
StoringHarmless == HitsSurvive /\ RefetchHarmless

\* Every ReadAt returns (or panics after Close): no reader waits for ever on
\* the lock that a failing fetch of another one held.
ReadReturns ==
    \A t \in Readers :
        pc[t] \in {"lookup", "miss", "fetch"} ~> pc[t] \in {"idle", "panicked"}
=============================================================================
