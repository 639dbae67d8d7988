--------------------------- MODULE RangeCacheProofs ---------------------------
(***************************************************************************)
(* The cache of RangeCache serves what the server sent for each offset, and  *)
(* the file wherever the server sent the file, for every file, file size,   *)
(* set of readers and choice of wrong answers.                              *)
(***************************************************************************)
EXTENDS RangeCache, FiniteSetTheorems, TLAPS

\* A leaf that names no prover is tried with SMT, with Zenon, and again with SMT;
\* the numbers are seconds.
USE SMTT(60), ZenonT(60), SMTT(90)

\* The invariant is inductive: that a result is exact needs that the cached
\* values are, and that setRange loses nothing needs the antichain.
IInv == TypeOK /\ Antichain /\ CacheFaithful /\ ReadsExact

\* Cutting a range q out of a value cached for a larger range r, at the
\* offsets getRangeFromCache computes, keeps every byte at its offset.
LEMMA SliceFaithful ==
    ASSUME NEW r \in Ranges, NEW q \in Ranges, Contains(r, q), NEW v, Faithful(r, v)
    PROVE  Faithful(q, Slice(v, q[1] - r[1], q[2] - r[1]))
<1> DEFINE a == q[1] - r[1]
           b == q[2] - r[1]
           s == Slice(v, a, b)
<1>1. /\ r[1] \in Int /\ r[2] \in Int /\ q[1] \in Int /\ q[2] \in Int
      /\ r[1] <= q[1] /\ q[1] <= q[2] /\ q[2] <= r[2]
  BY SizeAssumption DEF Ranges, Contains
<1>2. b - a - 1 = Length(q) - 1
  BY <1>1 DEF Length
<1>3. s = [i \in 0 .. (Length(q) - 1) |-> v[a + i]]
  BY <1>2 DEF Slice
<1>4. ASSUME NEW i \in 0 .. (Length(q) - 1), q[1] + i \notin Spoilt
      PROVE  s[i] = File[q[1] + i]
  <2>1. a + i \in 0 .. (Length(r) - 1)
    BY <1>1 DEF Length
  <2>2. r[1] + (a + i) = q[1] + i
    BY <1>1
  <2>3. v[a + i] = File[q[1] + i]
    BY <1>4, <2>1, <2>2 DEF Faithful
  <2> QED
    BY <1>3, <2>3
<1> HIDE DEF s
<1> QED
  BY <1>3, <1>4 DEF Faithful, s

\* The bytes of a range are faithful to it, also once the server has sent others.
LEMMA ContentFaithful ==
    ASSUME NEW q \in Ranges
    PROVE  Faithful(q, Content(q))
  BY DEF Faithful, Content

\* What was faithful stays so when more ranges are answered wrongly.
LEMMA StaysFaithful ==
    ASSUME NEW r, NEW v, Faithful(r, v), wrong \subseteq wrong'
    PROVE  Faithful(r, v)'
<1>1. Spoilt \subseteq Spoilt'
  BY DEF Spoilt
<1> QED
  BY <1>1 DEF Faithful

\* The body that io.ReadFull took is faithful, whatever the server sent, once
\* Fetched has noted the range.
LEMMA BodyFaithful ==
    ASSUME NEW q \in Ranges, NEW body \in Bodies(q),
           wrong' = IF body = Content(q) THEN wrong ELSE wrong \cup {q}
    PROVE  Faithful(q, body)'
<1>1. CASE body = Content(q)
  BY <1>1, ContentFaithful, StaysFaithful
<1>2. CASE body # Content(q)
  <2>1. ASSUME NEW i \in 0 .. (Length(q) - 1) PROVE q[1] + i \in Spoilt'
    <3>1. /\ q[1] \in Int /\ q[2] \in Int /\ 0 <= q[1] /\ q[2] <= Size
          /\ q[1] <= q[1] + i /\ q[1] + i < q[2]
      BY SizeAssumption DEF Ranges, Length
    <3>2. q[1] + i \in 0 .. (Size - 1)
      BY <3>1, SizeAssumption
    <3>3. q \in wrong'
      BY <1>2
    <3> QED
      BY <3>1, <3>2, <3>3 DEF Spoilt
  <2> QED
    BY <2>1 DEF Faithful, Bodies
<1> QED
  BY <1>1, <1>2

\* The range checks of ReadAt and getRange let through only ranges of the file.
LEMMA ValidRange ==
    ASSUME NEW off \in Nat, NEW len \in Nat, IsValidFor(<<off, off + len>>, Size)
    PROVE  <<off, off + len>> \in Ranges
  BY SizeAssumption DEF IsValidFor, Ranges

\* contains is transitive and reflexive on ranges.
LEMMA ContainsTransitive ==
    ASSUME NEW r \in Ranges, NEW q \in Ranges, NEW s \in Ranges,
           Contains(r, q), Contains(q, s)
    PROVE  Contains(r, s)
  BY SizeAssumption DEF Contains, Ranges

LEMMA ContainsReflexive ==
    ASSUME NEW r \in Ranges
    PROVE  Contains(r, r)
  BY SizeAssumption DEF Contains, Ranges

\* What the invariant says of the cached ranges, on its own.
CacheInv(c) ==
    /\ DOMAIN c \subseteq Ranges
    /\ c = [r \in DOMAIN c |-> c[r]]
    /\ \A r, q \in DOMAIN c : Contains(r, q) => r = q

\* Dropping entries, as the collector and setRange do, keeps the cache sound.
LEMMA DropKeeps ==
    ASSUME NEW D, CacheInv(cache), Drop(D)
    PROVE  CacheInv(cache')
  BY DEF CacheInv, Drop, Restricted

\* So does storing a value with setRange; every entry is an old one or the new.
LEMMA SetRangeKeeps ==
    ASSUME NEW q \in Ranges, NEW v, CacheInv(cache), SetRange(q, v)
    PROVE  /\ CacheInv(cache')
           /\ \A r \in DOMAIN cache' :
                 (r = q /\ cache'[r] = v) \/ (r \in DOMAIN cache /\ cache'[r] = cache[r])
<1>1. CASE \E s \in DOMAIN cache, D \in SUBSET Subsumed(q) :
              Contains(s, q) /\ (\A d \in D : ~Contains(d, q)) /\ Drop(D)
  BY <1>1, DropKeeps DEF Drop, Restricted
<1>2. CASE /\ \A s \in DOMAIN cache : ~Contains(s, q)
           /\ LET kept == DOMAIN cache \ Subsumed(q) IN
              /\ cache' = [r \in kept \cup {q} |->
                              IF r = q THEN v ELSE cache[r]]
              /\ occupied' = occupied - TotalLength(Subsumed(q)) + Length(q)
  <2> DEFINE kept == DOMAIN cache \ Subsumed(q)
  <2>1. cache' = [r \in kept \cup {q} |-> IF r = q THEN v ELSE cache[r]]
    BY <1>2
  <2>2. \A r \in kept : ~Contains(q, r) /\ ~Contains(r, q)
    BY <1>2 DEF Subsumed
  <2> QED
    BY <2>1, <2>2 DEF CacheInv
<1> QED
  BY <1>1, <1>2 DEF SetRange

LEMMA CacheInvOfIInv ==
    IInv <=> CacheInv(cache) /\ CacheFaithful
             /\ closed \in BOOLEAN
             /\ pc \in [Readers -> {"idle", "lookup", "miss", "fetch", "panicked"}]
             /\ req \in [Readers -> Ranges]
             /\ DOMAIN out = Readers
             /\ (\A t \in Readers : out[t].status \in Statuses)
             /\ wrong \subseteq Ranges
             /\ ReadsExact
  BY DEF IInv, TypeOK, Antichain, CacheInv

-----------------------------------------------------------------------------
LEMMA InitIInv == Init => IInv
<1> SUFFICES ASSUME Init PROVE IInv
  OBVIOUS
<1>1. DOMAIN cache = {} /\ cache = [r \in DOMAIN cache |-> cache[r]]
  BY DEF Init
<1>2. <<0, 0>> \in Ranges
  BY SizeAssumption DEF Ranges
<1>3. \A t \in Readers : out[t].status = "none"
  BY DEF Init, Failed
<1>4. TypeOK
  BY <1>1, <1>2, <1>3, ZenonT(60) DEF Init, TypeOK, Statuses
<1> QED
  BY <1>1, <1>3, <1>4 DEF IInv, Antichain, CacheFaithful, ReadsExact

\* Nothing more is spoilt by a step that gets no answer from the server.
LEMMA SameSpoilt ==
    ASSUME UNCHANGED wrong
    PROVE  Spoilt' = Spoilt
  BY DEF Spoilt

\* The invariant is kept; one case per action.
LEMMA NextIInv == IInv /\ [Next]_vars => IInv'
<1> SUFFICES ASSUME IInv, [Next]_vars PROVE IInv'
  OBVIOUS
<1> USE DEF IInv, TypeOK
<1>0. CacheInv(cache)
  BY CacheInvOfIInv
<1>1. ASSUME NEW t \in Readers, NEW a \in Asked, ReadAt(t, a[1], a[2])
      PROVE  IInv'
  <2>0. a[1] \in Nat /\ a[2] \in Nat
    BY AskedAssumption
  <2>1. CASE a[1] >= Size \/ ~IsValidFor(<<a[1], a[1] + a[2]>>, Size)
    <3>1. out' = [out EXCEPT ![t] = Failed(IF a[1] >= Size THEN "EOF" ELSE "invalid")]
          /\ UNCHANGED <<cache, closed, occupied, pc, req, wrong>>
      BY <1>1, <2>1 DEF ReadAt
    <3> QED
      BY <3>1, SameSpoilt DEF Failed, Statuses, Antichain, CacheFaithful, ReadsExact, Faithful
  <2>2. CASE ~(a[1] >= Size \/ ~IsValidFor(<<a[1], a[1] + a[2]>>, Size))
    <3>1. <<a[1], a[1] + a[2]>> \in Ranges
      BY <2>0, <2>2, ValidRange
    <3>2. /\ out' = [out EXCEPT ![t] = Failed("none")]
          /\ pc' = [pc EXCEPT ![t] = "lookup"]
          /\ req' = [req EXCEPT ![t] = <<a[1], a[1] + a[2]>>]
          /\ UNCHANGED <<cache, closed, occupied, wrong>>
      BY <1>1, <2>2 DEF ReadAt
    <3> QED
      BY <3>1, <3>2, SameSpoilt DEF Failed, Statuses, Antichain, CacheFaithful, ReadsExact, Faithful
  <2> QED
    BY <2>1, <2>2
<1>2. ASSUME NEW t \in Readers, LookupHit(t)
      PROVE  IInv'
  <2>1. PICK r \in DOMAIN cache :
           /\ Contains(r, req[t])
           /\ out' = [out EXCEPT ![t] =
                 Ok(Slice(cache[r], req[t][1] - r[1], req[t][2] - r[1]))]
    BY <1>2, ZenonT(60) DEF LookupHit
  <2>2. Faithful(req[t], Slice(cache[r], req[t][1] - r[1], req[t][2] - r[1]))
    BY <2>1, SliceFaithful DEF CacheFaithful
  <2>3. pc' = [pc EXCEPT ![t] = "idle"] /\ UNCHANGED <<cache, closed, req, wrong>>
    BY <1>2 DEF LookupHit
  <2>4. Spoilt' = Spoilt
    BY <2>3, SameSpoilt
  <2>5. ReadsExact'
    BY <2>1, <2>2, <2>3, <2>4 DEF Ok, ReadsExact, Faithful
  <2> QED
    BY <2>1, <2>3, <2>4, <2>5 DEF Ok, Statuses, Antichain, CacheFaithful, Faithful
<1>3. ASSUME NEW t \in Readers,
             LookupMiss(t) \/ StartFetch(t) \/ FetchedClosed(t) \/ FetchFailed(t)
      PROVE  IInv'
  BY <1>3, SameSpoilt DEF LookupMiss, StartFetch, FetchedClosed, FetchFailed, Failed, Statuses,
                          Antichain, CacheFaithful, ReadsExact, Faithful
<1>4. ASSUME NEW t \in Readers, Fetched(t)
      PROVE  IInv'
  <2>0. PICK q \in Ranges : q = req[t]
    OBVIOUS
  <2>1. PICK body \in Bodies(q) :
          /\ wrong' = IF body = Content(q) THEN wrong ELSE wrong \cup {q}
          /\ SetRange(q, body)
          /\ out' = [out EXCEPT ![t] = Ok(body)]
    BY <1>4, <2>0, ZenonT(60) DEF Fetched
  <2>2. q \in Ranges /\ wrong \subseteq wrong' /\ wrong' \subseteq Ranges
    BY <2>1
  <2>3. Faithful(q, body)'
    BY <2>1, <2>2, BodyFaithful
  <2>4. /\ CacheInv(cache')
        /\ \A r \in DOMAIN cache' :
              (r = q /\ cache'[r] = body) \/ (r \in DOMAIN cache /\ cache'[r] = cache[r])
    BY <1>0, <2>1, <2>2, SetRangeKeeps
  <2>5. CacheFaithful'
    <3> SUFFICES ASSUME NEW r \in DOMAIN cache' PROVE Faithful(r, cache[r])'
      BY DEF CacheFaithful
    <3>1. CASE r \in DOMAIN cache /\ cache'[r] = cache[r]
      <4>1. Faithful(r, cache[r])
        BY <3>1 DEF CacheFaithful
      <4>2. Spoilt \subseteq Spoilt'
        BY <2>2 DEF Spoilt
      <4> QED
        BY <3>1, <4>1, <4>2 DEF Faithful
    <3>2. CASE r = q /\ cache'[r] = body
      <4>1. /\ DOMAIN body = 0 .. (Length(q) - 1)
            /\ \A i \in DOMAIN body : q[1] + i \notin Spoilt' => body[i] = File[q[1] + i]
        BY <2>3, ZenonT(60) DEF Faithful
      <4> QED
        BY <3>2, <4>1, ZenonT(60) DEF Faithful
    <3> QED
      BY <2>4, <3>1, <3>2
  <2>6. ReadsExact'
    <3> SUFFICES ASSUME NEW u \in Readers, out'[u].status = "ok"
                 PROVE  Faithful(req[u], out[u].value)'
      BY DEF ReadsExact
    <3>1. req' = req
      BY <1>4 DEF Fetched
    <3>2. CASE u = t
      <4>1. req'[u] = q /\ out'[u].value = body
        BY <2>0, <2>1, <3>1, <3>2 DEF Ok
      <4>2. /\ DOMAIN body = 0 .. (Length(q) - 1)
            /\ \A i \in DOMAIN body : q[1] + i \notin Spoilt' => body[i] = File[q[1] + i]
        BY <2>3, ZenonT(60) DEF Faithful
      <4> QED
        BY <4>1, <4>2, ZenonT(60) DEF Faithful
    <3>3. CASE u # t
      <4>1. out'[u] = out[u] /\ Faithful(req[u], out[u].value)
        BY <2>1, <3>3 DEF ReadsExact
      <4>2. Spoilt \subseteq Spoilt'
        BY <2>2 DEF Spoilt
      <4> QED
        BY <3>1, <4>1, <4>2 DEF Faithful
    <3> QED
      BY <3>2, <3>3
  <2>7. \A u \in Readers : out'[u].status \in Statuses
    BY <2>1 DEF Ok, Statuses
  <2> QED
    BY <1>4, <2>1, <2>2, <2>4, <2>5, <2>6, <2>7 DEF Fetched, CacheInv, Antichain
<1>5. CASE DeleteOldEntries
  <2>1. PICK D \in SUBSET DOMAIN cache : Drop(D)
    BY <1>5 DEF DeleteOldEntries
  <2>2. CacheInv(cache')
    BY <1>0, <2>1, DropKeeps
  <2>3. UNCHANGED <<closed, pc, req, out, wrong>>
    BY <1>5 DEF DeleteOldEntries
  <2>4. CacheFaithful'
    BY <2>1, <2>3 DEF Drop, Restricted, CacheFaithful, Faithful, Spoilt
  <2>5. ReadsExact'
    BY <2>3 DEF ReadsExact, Faithful, Spoilt
  <2> QED
    BY <2>2, <2>3, <2>4, <2>5 DEF CacheInv, Antichain
<1>6. CASE Close
  BY <1>6 DEF Close, Antichain, CacheFaithful, ReadsExact, Faithful, Spoilt
<1>7. CASE UNCHANGED vars
  BY <1>7 DEF vars, Antichain, CacheFaithful, ReadsExact, Faithful, Spoilt
<1> QED
  BY <1>1, <1>2, <1>3, <1>4, <1>5, <1>6, <1>7 DEF Next, ReaderStep

\* The inductive invariant holds in every reachable state.
THEOREM Invariance == Spec => []IInv
  BY InitIInv, NextIInv, PTL DEF Spec

\* The variables of the cache and its readers keep their types.
THEOREM TypeCorrect == Spec => []TypeOK
  BY Invariance, PTL DEF IInv

\* No cached range contains another.
THEOREM CacheIsAntichain == Spec => []Antichain
  BY Invariance, PTL DEF IInv

\* Whatever bytes the server sent, a cached value differs from the file only at
\* offsets that the server answered wrongly: remoteReadAt checks no status, but
\* what setRange stored, replaced and cut never moves a byte to another offset.
THEOREM CacheIsFaithful == Spec => []CacheFaithful
  BY Invariance, PTL DEF IInv

\* The same of the results of ReadAt: without a wrong answer they are the bytes
\* of the file, and a wrong answer spoils only the offsets it was asked for.
THEOREM ReadsAreExact == Spec => [](CacheFaithful /\ ReadsExact)
  BY Invariance, PTL DEF IInv
-----------------------------------------------------------------------------
\* The write lock is held across a fetch, so at most one reader is fetching.
OneFetch ==
    \A t, u \in Readers : pc[t] = "fetch" /\ pc[u] = "fetch" => t = u

LEMMA OneFetchInvariant == Spec => []OneFetch
<1>1. Init => OneFetch
  BY DEF Init, OneFetch
<1>2. TypeOK /\ OneFetch /\ [Next]_vars => OneFetch'
  <2> SUFFICES ASSUME TypeOK, OneFetch, [Next]_vars PROVE OneFetch'
    OBVIOUS
  <2> USE DEF TypeOK, OneFetch
  <2>1. CASE UNCHANGED vars \/ DeleteOldEntries \/ Close
    BY <2>1 DEF vars, DeleteOldEntries, Close
  <2>2. ASSUME NEW t \in Readers, NEW a \in Asked, ReadAt(t, a[1], a[2])
        PROVE  OneFetch'
    BY <2>2 DEF ReadAt
  <2>3. ASSUME NEW t \in Readers, StartFetch(t) PROVE OneFetch'
    BY <2>3 DEF StartFetch, Unlocked
  <2>4. ASSUME NEW t \in Readers, \E s \in {"idle", "miss", "panicked"} : pc' = [pc EXCEPT ![t] = s]
        PROVE  OneFetch'
    BY <2>4
  <2>5. ASSUME NEW t \in Readers, ReaderStep(t) PROVE OneFetch'
    BY <2>3, <2>4, <2>5 DEF ReaderStep, LookupHit, LookupMiss, Fetched, FetchedClosed, FetchFailed
  <2> QED
    BY <2>1, <2>2, <2>5 DEF Next
<1> QED
  BY <1>1, <1>2, TypeCorrect, PTL DEF Spec

\* Because cached ranges never nest, the loop of setRange drops nothing that
\* q contains when some cached range contains q.
LEMMA NothingDropped ==
    ASSUME NEW q \in Ranges, NEW s \in DOMAIN cache, NEW D \in SUBSET Subsumed(q),
           CacheInv(cache), Contains(s, q), \A d \in D : ~Contains(d, q), Drop(D)
    PROVE  cache' = cache
<1>1. ASSUME NEW d \in D PROVE FALSE
  <2>1. d \in DOMAIN cache /\ Contains(q, d)
    BY <1>1 DEF Subsumed
  <2>2. Contains(s, d)
    BY <2>1, ContainsTransitive DEF CacheInv
  <2> QED
    BY <2>1, <2>2 DEF CacheInv
<1>2. D = {}
  BY <1>1
<1> QED
  BY <1>2 DEF Drop, Restricted, CacheInv

\* Storing a range takes no hit away: what the entries it replaces could
\* answer, the new entry answers.
LEMMA StoredHitsSurvive ==
    ASSUME NEW q \in Ranges, CacheInv(cache), NEW p \in Ranges, Served(p),
           NEW v, SetRange(q, v)
    PROVE  Served(p)'
<1>1. CASE \E s \in DOMAIN cache, D \in SUBSET Subsumed(q) :
              Contains(s, q) /\ (\A d \in D : ~Contains(d, q)) /\ Drop(D)
  <2>1. cache' = cache
    BY <1>1, NothingDropped
  <2> QED
    BY <2>1 DEF Served
<1>2. CASE \A s \in DOMAIN cache : ~Contains(s, q)
  <2>1. DOMAIN cache' = (DOMAIN cache \ Subsumed(q)) \cup {q}
    BY <1>2 DEF SetRange
  <2>2. PICK r \in DOMAIN cache : Contains(r, p)
    BY DEF Served
  <2>3. CASE r \in Subsumed(q)
    BY <2>1, <2>2, <2>3, ContainsTransitive DEF Subsumed, Served, CacheInv
  <2>4. CASE r \notin Subsumed(q)
    BY <2>1, <2>2, <2>4 DEF Served
  <2> QED
    BY <2>3, <2>4
<1> QED
  BY <1>1, <1>2 DEF SetRange

\* Storing a fetched range with setRange never makes a range that was a hit a
\* miss.
THEOREM StoringKeepsHits == Spec => HitsSurvive
<1> DEFINE Kept == \A t \in Readers :
              pc[t] = "fetch" /\ cache' # cache /\ req[t] \in DOMAIN cache'
                => \A q \in Ranges : Served(q) => Served(q)'
<1>1. IInv /\ OneFetch /\ [Next]_vars => [Kept]_vars
  <2> SUFFICES ASSUME IInv, OneFetch, [Next]_vars,
                      NEW t \in Readers, pc[t] = "fetch", cache' # cache,
                      req[t] \in DOMAIN cache',
                      NEW q \in Ranges, Served(q)
               PROVE  Served(q)'
    OBVIOUS
  <2>1. Fetched(t)
    BY ZenonT(60) DEF OneFetch, Next, ReaderStep, vars, Unlocked, ReadAt, LookupHit, LookupMiss,
           StartFetch, Fetched, FetchedClosed, FetchFailed, DeleteOldEntries, Close
  <2>2. CacheInv(cache) /\ req[t] \in Ranges
    BY CacheInvOfIInv
  <2>3. PICK body : SetRange(req[t], body)
    BY <2>1, ZenonT(60) DEF Fetched
  <2> QED
    BY <2>2, <2>3, StoredHitsSurvive
<1> QED
  BY <1>1, Invariance, OneFetchInvariant, PTL DEF Spec, HitsSurvive

\* A second fetch of a range that is cached by then changes nothing.
THEOREM RefetchIsHarmless == Spec => RefetchHarmless
<1> DEFINE Same == \A t \in Readers :
              pc[t] = "fetch" /\ pc'[t] # "fetch" /\ Served(req[t]) => UNCHANGED cache
<1>1. IInv /\ OneFetch /\ [Next]_vars => [Same]_vars
  <2> SUFFICES ASSUME IInv, OneFetch, [Next]_vars,
                      NEW t \in Readers, pc[t] = "fetch", pc'[t] # "fetch", Served(req[t])
               PROVE  cache' = cache
    OBVIOUS
  <2>1. CacheInv(cache) /\ req[t] \in Ranges
    BY CacheInvOfIInv
  <2>2. PICK s \in DOMAIN cache : Contains(s, req[t])
    BY DEF Served
  <2>3. CASE Fetched(t)
    <3>0. PICK body : SetRange(req[t], body)
      BY <2>3, ZenonT(60) DEF Fetched
    <3>1. PICK D \in SUBSET Subsumed(req[t]) :
             (\A d \in D : ~Contains(d, req[t])) /\ Drop(D)
      BY <2>2, <3>0 DEF SetRange
    <3> QED
      BY <2>1, <2>2, <3>1, NothingDropped
  <2>4. CASE ~Fetched(t)
    BY ZenonT(60), <2>4, CacheInvOfIInv
    DEF Next, ReaderStep, vars, Unlocked, OneFetch, ReadAt, LookupHit, LookupMiss,
        StartFetch, Fetched, FetchedClosed, FetchFailed, DeleteOldEntries, Close
  <2> QED
    BY <2>3, <2>4
<1> QED
  BY <1>1, Invariance, OneFetchInvariant, PTL DEF Spec, RefetchHarmless

\* Both together, as the run checks them.
THEOREM StoringIsHarmless == Spec => StoringHarmless
  BY StoringKeepsHits, RefetchIsHarmless DEF StoringHarmless
-----------------------------------------------------------------------------
\* The bytes that TotalLength counts.
Bytes(S) == {b \in S \X (0 .. (Size - 1)) : b[1][1] <= b[2] /\ b[2] < b[1][2]}

LEMMA TotalIsBytes ==
    ASSUME NEW S
    PROVE  TotalLength(S) = Cardinality(Bytes(S))
  BY DEF TotalLength, Bytes

LEMMA BytesFinite ==
    ASSUME NEW S \in SUBSET Ranges
    PROVE  IsFiniteSet(Bytes(S))
<1>1. IsFiniteSet(0 .. Size) /\ IsFiniteSet(0 .. (Size - 1))
  BY SizeAssumption, FS_Interval
<1>2. IsFiniteSet((0 .. Size) \X (0 .. Size))
  BY <1>1, FS_Product, ZenonT(60)
<1>3. IsFiniteSet(S)
  BY <1>2, FS_Subset DEF Ranges
<1>4. IsFiniteSet(S \X (0 .. (Size - 1)))
  BY <1>1, <1>3, FS_Product, ZenonT(60)
<1> QED
  BY <1>4, FS_Subset DEF Bytes

\* What is left after some values are dropped.
LEMMA TotalAfterDrop ==
    ASSUME NEW S \in SUBSET Ranges, NEW D \in SUBSET S
    PROVE  TotalLength(S \ D) = TotalLength(S) - TotalLength(D)
<1>1. IsFiniteSet(Bytes(S))
  BY BytesFinite
<1>2. Bytes(S \ D) = Bytes(S) \ Bytes(D)
  BY DEF Bytes
<1>3. Bytes(S) \cap Bytes(D) = Bytes(D)
  BY DEF Bytes
<1>4. Cardinality(Bytes(S) \ Bytes(D)) = Cardinality(Bytes(S)) - Cardinality(Bytes(D))
  BY <1>1, <1>3, FS_Difference
<1> QED
  BY <1>2, <1>4, TotalIsBytes

\* One value takes up as many bytes as its range is long.
LEMMA TotalOfOne ==
    ASSUME NEW q \in Ranges
    PROVE  TotalLength({q}) = Length(q)
<1>1. q[1] \in 0 .. Size /\ q[2] \in 0 .. Size /\ q[1] <= q[2]
  BY DEF Ranges
<1>2. Bytes({q}) = {q} \X (q[1] .. (q[2] - 1))
  <2>1. \A b \in Bytes({q}) : b \in {q} \X (q[1] .. (q[2] - 1))
    BY <1>1, SizeAssumption DEF Bytes
  <2>2. \A b \in {q} \X (q[1] .. (q[2] - 1)) : b \in Bytes({q})
    BY <1>1, SizeAssumption DEF Bytes
  <2> QED
    BY <2>1, <2>2, ZenonT(60)
<1>3. /\ IsFiniteSet(q[1] .. (q[2] - 1))
      /\ Cardinality(q[1] .. (q[2] - 1)) = q[2] - q[1]
  <2>1. q[1] \in Int /\ q[2] - 1 \in Int
    BY <1>1, SizeAssumption
  <2>2. Cardinality(q[1] .. (q[2] - 1)) =
           IF q[1] > q[2] - 1 THEN 0 ELSE (q[2] - 1) - q[1] + 1
    BY <2>1, FS_Interval
  <2>3. IsFiniteSet(q[1] .. (q[2] - 1))
    BY <2>1, FS_Interval
  <2>4. (IF q[1] > q[2] - 1 THEN 0 ELSE (q[2] - 1) - q[1] + 1) = q[2] - q[1]
    BY <1>1, SizeAssumption
  <2> QED
    BY <2>2, <2>3, <2>4
<1>4. IsFiniteSet({q}) /\ Cardinality({q}) = 1
  BY FS_Singleton
<1>5. Cardinality(Bytes({q})) = 1 * (q[2] - q[1])
  <2>1. Cardinality({q} \X (q[1] .. (q[2] - 1))) =
           Cardinality({q}) * Cardinality(q[1] .. (q[2] - 1))
    BY <1>3, <1>4, FS_Product, ZenonT(60)
  <2> QED
    BY <1>2, <1>3, <1>4, <2>1, ZenonT(60)
<1>6. 1 * (q[2] - q[1]) = Length(q)
  BY <1>1, SizeAssumption DEF Length
<1> QED
  BY <1>5, <1>6, TotalIsBytes

\* Storing a value for a range that is not cached adds its length.
LEMMA TotalAfterStore ==
    ASSUME NEW S \in SUBSET Ranges, NEW q \in Ranges, q \notin S
    PROVE  TotalLength(S \cup {q}) = TotalLength(S) + Length(q)
<1> DEFINE A == Bytes(S)
           B == Bytes({q})
<1>1. Bytes(S \cup {q}) = A \cup B
  BY DEF Bytes
<1>2. A \cap B = {}
  BY DEF Bytes
<1>3. IsFiniteSet(A) /\ IsFiniteSet(B)
  BY BytesFinite
<1>4. TotalLength(S \cup {q}) = Cardinality(A \cup B)
  BY <1>1, ZenonT(60) DEF TotalLength, Bytes
<1>5. TotalLength(S) = Cardinality(A) /\ Length(q) = Cardinality(B)
  BY TotalIsBytes, TotalOfOne
<1> HIDE DEF A, B
<1>6. Cardinality(A \cup B) = Cardinality(A) + Cardinality(B) - Cardinality(A \cap B)
  BY <1>3, FS_Union
<1>7. Cardinality(A) \in Nat /\ Cardinality(B) \in Nat /\ Cardinality(A \cap B) = 0
  BY <1>2, <1>3, FS_CardinalityType, FS_EmptySet, ZenonT(60)
<1> QED
  BY <1>4, <1>5, <1>6, <1>7

\* Dropping entries takes from the counter what they took up.
LEMMA DropCounts ==
    ASSUME NEW D \in SUBSET DOMAIN cache, CacheInv(cache), Drop(D),
           occupied = TotalLength(DOMAIN cache)
    PROVE  occupied' = TotalLength(DOMAIN cache')
<1>1. DOMAIN cache' = DOMAIN cache \ D /\ occupied' = occupied - TotalLength(D)
  BY DEF Drop, Restricted
<1> QED
  BY <1>1, TotalAfterDrop DEF CacheInv

\* So does storing a value: what it replaces goes, its own length comes.
LEMMA SetRangeCounts ==
    ASSUME NEW q \in Ranges, NEW v, CacheInv(cache), SetRange(q, v),
           occupied = TotalLength(DOMAIN cache)
    PROVE  occupied' = TotalLength(DOMAIN cache')
<1>1. CASE \E s \in DOMAIN cache, D \in SUBSET Subsumed(q) :
              Contains(s, q) /\ (\A d \in D : ~Contains(d, q)) /\ Drop(D)
  BY <1>1, DropCounts DEF Subsumed
<1>2. CASE \A s \in DOMAIN cache : ~Contains(s, q)
  <2> DEFINE kept == DOMAIN cache \ Subsumed(q)
  <2>1. /\ DOMAIN cache' = kept \cup {q}
        /\ occupied' = occupied - TotalLength(Subsumed(q)) + Length(q)
    BY <1>2 DEF SetRange
  <2>2. q \notin kept /\ kept \in SUBSET Ranges
    BY <1>2, ContainsReflexive DEF CacheInv
  <2>3. TotalLength(kept) = TotalLength(DOMAIN cache) - TotalLength(Subsumed(q))
    BY TotalAfterDrop DEF CacheInv, Subsumed
  <2>4. TotalLength(kept \cup {q}) = TotalLength(kept) + Length(q)
    BY <2>2, TotalAfterStore
  <2> QED
    BY <2>1, <2>3, <2>4
<1> QED
  BY <1>1, <1>2 DEF SetRange

\* occupiedSpace is the total length of the cached values until Close, through the
\* replacements of setRange and the eviction of old entries.  It
\* counts the range that setRange adds once, because a range that is cached already
\* makes setRange return before it stores.
THEOREM CounterIsExact == Spec => []OccupiedExact
<1>1. Init => OccupiedExact
  <2> SUFFICES ASSUME Init PROVE TotalLength(DOMAIN cache) = 0
    BY ZenonT(60) DEF Init, OccupiedExact
  <2>1. DOMAIN cache = {}
    BY DEF Init
  <2>2. Bytes({}) = {}
    BY DEF Bytes
  <2> QED
    BY <2>1, <2>2, FS_EmptySet, TotalIsBytes
<1>2. IInv /\ OccupiedExact /\ [Next]_vars => OccupiedExact'
  <2> SUFFICES ASSUME IInv, OccupiedExact, [Next]_vars, ~closed'
               PROVE  occupied' = TotalLength(DOMAIN cache')
    BY DEF OccupiedExact
  <2>1. CacheInv(cache) /\ req \in [Readers -> Ranges]
    BY CacheInvOfIInv
  <2>2. CASE UNCHANGED <<cache, closed, occupied>>
    BY <2>2 DEF OccupiedExact
  <2>3. ASSUME NEW t \in Readers, Fetched(t)
        PROVE  occupied' = TotalLength(DOMAIN cache')
    <3>1. occupied = TotalLength(DOMAIN cache)
      BY <2>3 DEF Fetched, OccupiedExact
    <3>2. PICK body : SetRange(req[t], body)
      BY <2>3, ZenonT(60) DEF Fetched
    <3> QED
      BY <2>1, <3>1, <3>2, SetRangeCounts
  <2>4. CASE DeleteOldEntries
    BY <2>1, <2>4, DropCounts DEF DeleteOldEntries, OccupiedExact
  <2>5. CASE Close
    BY <2>5 DEF Close
  <2> QED
    BY ZenonT(60), <2>2, <2>3, <2>4, <2>5
    DEF Next, ReaderStep, vars, ReadAt, LookupHit, LookupMiss, StartFetch,
        FetchedClosed, FetchFailed
<1> QED
  BY <1>1, <1>2, Invariance, PTL DEF Spec
=============================================================================
