---------------------------- MODULE GetTransaction ----------------------------
(***************************************************************************)
(* multiepoch-getTransaction.go and the reply path of multiepoch.go: a        *)
(* getTransaction request looks for the epoch of its signature in all loaded *)
(* epochs at once (FirstSuccess), then reads the transaction from it, while  *)
(* config reloads add, replace and remove epochs.  The registry's operations *)
(* are atomic here (see MultiEpoch); a replaced or removed handle is closed. *)
(***************************************************************************)
EXTENDS FirstSuccess

CONSTANTS NotFound,   \* ErrNotFound
          Failed,     \* any other error
          MaxChanges, \* bound on the changes of the registry
          MaxFaults,  \* bound on failed reads
          MayCancel   \* the request's context may end

Epochs == Fns

ASSUME EpochsAssumption == Epochs \subseteq Nat \ {0} /\ Values = Epochs
ASSUME NotFoundAssumption == {NotFound, Failed} \subseteq Errors /\ NotFound \notin {Failed, CtxErr}
ASSUME BoundsAssumption == MaxChanges \in Nat /\ MaxFaults \in Nat /\ MayCancel \in BOOLEAN

VARIABLES epochs,     \* the registry: the handle of each loaded epoch, or 0
          changes,    \* number of changes made
          holders,    \* the epochs that hold the signature
          inBucket,   \* those whose sig-exists index answers yes,
          inIndex,    \* and whose sig-to-cid index finds it: false hits included
          faults,     \* number of reads that failed
          pc,         \* count, single, numbers, buckets, search, epoch, read, time, decode, done
          numbers,    \* GetEpochNumbers
          buckets,    \* getAllBucketteers
          step,       \* each epoch's function: probe, get, find
          handle,     \* the handle each function, and then the request, uses
          found,      \* the epoch that findEpochNumberFromSignature gave
          reply,      \* none, result, null, error, proxied
          counted,    \* the request was counted as success or failure
          steady      \* the epochs loaded ever since the request came in

dataVars == <<holders, inBucket, inIndex>>
registryVars == <<epochs, changes, steady>>
requestVars == <<pc, numbers, buckets, found, reply, counted>>
jobVars == <<step, handle>>
vars == <<searchVars, dataVars, registryVars, faults, requestVars, jobVars>>

Available == {e \in Epochs : epochs[e] # 0}

Init ==
    /\ SearchInit
    /\ epochs \in [Epochs -> {0, 1}]
    /\ changes = 0
    /\ holders \in SUBSET Epochs /\ Cardinality(holders) <= 1
    /\ inBucket \in SUBSET Epochs /\ holders \subseteq inBucket
    /\ inIndex \in SUBSET Epochs /\ holders \subseteq inIndex
    /\ faults = 0
    /\ pc = "count"
    /\ numbers = <<>>
    /\ buckets = [e \in Epochs |-> 0]
    /\ step = [e \in Epochs |-> "probe"]
    /\ handle = [e \in Epochs |-> 0]
    /\ found = None
    /\ reply = "none"
    /\ counted = "none"
    /\ steady = Available
-----------------------------------------------------------------------------
(* Config reloads; those after the request was answered do not matter.      *)

\* AddEpoch or ReplaceOrAddEpoch with a new handle; RemoveEpochByConfigFilepath.
InstallEpoch(e) ==
    /\ pc # "done"
    /\ changes < MaxChanges
    /\ epochs' = [epochs EXCEPT ![e] = changes + 2]
    /\ changes' = changes + 1
    /\ UNCHANGED <<searchVars, dataVars, steady, faults, requestVars, jobVars>>

RemoveEpoch(e) ==
    /\ pc # "done"
    /\ changes < MaxChanges
    /\ epochs[e] # 0
    /\ epochs' = [epochs EXCEPT ![e] = 0]
    /\ changes' = changes + 1
    /\ steady' = steady \ {e}
    /\ UNCHANGED <<searchVars, dataVars, faults, requestVars, jobVars>>

\* A read through a handle fails when the handle is closed, and may fail.
Read(e, h, failed) ==
    \E fault \in BOOLEAN :
        /\ fault => faults < MaxFaults
        /\ faults' = IF fault THEN faults + 1 ELSE faults
        /\ failed = (fault \/ epochs[e] # h)
-----------------------------------------------------------------------------
(* findEpochNumberFromSignature.                                            *)

\* One loaded epoch is taken without a look at its indexes.
Single ==
    /\ pc = "single"
    /\ IF Cardinality(Available) = 1
       THEN found' = (CHOOSE e \in Available : TRUE) /\ pc' = "epoch"
       ELSE pc' = "numbers" /\ UNCHANGED found
    /\ UNCHANGED <<searchVars, dataVars, registryVars, faults, numbers, buckets, reply,
                   counted, jobVars>>

\* From the most recent epoch to the oldest.
Descending(S) ==
    {seq \in [1..Cardinality(S) -> S] : \A i, j \in 1..Cardinality(S) : i < j => seq[i] > seq[j]}

GetEpochNumbers ==
    /\ pc = "numbers"
    /\ numbers' \in Descending(Available)
    /\ pc' = "buckets"
    /\ UNCHANGED <<searchVars, dataVars, registryVars, faults, buckets, found, reply,
                   counted, jobVars>>

\* Mutant of Search: every epoch is searched twice.
SearchTwice ==
    /\ pc = "buckets"
    /\ buckets' = epochs
    /\ Call(numbers \o numbers)
    /\ pc' = "search"
    /\ UNCHANGED <<dataVars, registryVars, faults, numbers, found, reply, counted, jobVars>>

\* getAllBucketteers, then the search over the numbers read before.
Search ==
    /\ pc = "buckets"
    /\ buckets' = epochs
    /\ Call(numbers)
    /\ pc' = "search"
    /\ UNCHANGED <<dataVars, registryVars, faults, numbers, found, reply, counted, jobVars>>

At(e, s) == job[e] = "running" /\ step[e] = s

Goto(e, s) == step' = [step EXCEPT ![e] = s] /\ UNCHANGED searchVars

\* Mutant of Probe: the answer of the sig-exists index is ignored.
ProbeIgnored(e) ==
    /\ At(e, "probe")
    /\ \E failed \in BOOLEAN :
          /\ IF ctxDone \/ buckets[e] = 0
             THEN failed = FALSE /\ UNCHANGED faults
             ELSE Read(e, buckets[e], failed)
          /\ IF ~ctxDone /\ ~failed /\ buckets[e] # 0
             THEN Goto(e, "get")
             ELSE /\ Finish(e, IF ctxDone THEN CtxErr ELSE IF failed THEN Failed ELSE NotFound)
                  /\ UNCHANGED step
    /\ UNCHANGED <<dataVars, registryVars, requestVars, handle>>

\* The function of an epoch: its sig-exists index is asked first ...
Probe(e) ==
    /\ At(e, "probe")
    /\ \E failed \in BOOLEAN :
          /\ IF ctxDone \/ buckets[e] = 0
             THEN failed = FALSE /\ UNCHANGED faults
             ELSE Read(e, buckets[e], failed)
          /\ IF ~ctxDone /\ ~failed /\ buckets[e] # 0 /\ e \in inBucket
             THEN Goto(e, "get")
             ELSE /\ Finish(e, IF ctxDone THEN CtxErr ELSE IF failed THEN Failed ELSE NotFound)
                  /\ UNCHANGED step
    /\ UNCHANGED <<dataVars, registryVars, requestVars, handle>>

\* ... then the epoch is looked up again ...
GetEpoch(e) ==
    /\ At(e, "get")
    /\ IF epochs[e] = 0
       THEN Finish(e, Failed) /\ UNCHANGED jobVars
       ELSE handle' = [handle EXCEPT ![e] = epochs[e]] /\ Goto(e, "find")
    /\ UNCHANGED <<dataVars, registryVars, faults, requestVars>>

\* Mutant of Find: the sig-exists index is trusted.
FindTrust(e) ==
    /\ At(e, "find")
    /\ Finish(e, e)
    /\ UNCHANGED <<faults, dataVars, registryVars, requestVars, jobVars>>

\* ... and FindCidFromSignature decides; all its errors count as not found.
Find(e) ==
    /\ At(e, "find")
    /\ \E failed \in BOOLEAN :
          /\ Read(e, handle[e], failed)
          /\ Finish(e, IF ~failed /\ e \in inIndex THEN e ELSE NotFound)
    /\ UNCHANGED <<dataVars, registryVars, requestVars, jobVars>>
-----------------------------------------------------------------------------
(* handleGetTransaction, and what newMultiEpochHandler makes of its outcome. *)

\* An error response is proxied if ProxyFailedRequests is set; else an error that
\* wraps ErrNotFound is a null result.
Fail(error) ==
    /\ reply' \in {"proxied", IF error = NotFound THEN "null" ELSE "error"}
    /\ counted' = "failure"
    /\ pc' = "done"

\* CountEpochs; then the parameters are parsed and validated.
Count ==
    /\ pc = "count"
    /\ \/ Available # {} /\ pc' = "single" /\ UNCHANGED <<reply, counted>>
       \/ Fail(Failed)
    /\ UNCHANGED <<searchVars, dataVars, registryVars, faults, numbers, buckets, found, jobVars>>

\* The search returned: without a success it is ErrNotFound if all the errors
\* received are.
Searched ==
    /\ pc = "search"
    /\ phase = "returned"
    /\ IF winner # None
       THEN found' = result[winner] /\ pc' = "epoch" /\ UNCHANGED <<reply, counted>>
       ELSE /\ UNCHANGED found
            /\ Fail(IF \A e \in errs : result[e] = NotFound THEN NotFound ELSE Failed)
    /\ UNCHANGED <<searchVars, dataVars, registryVars, faults, numbers, buckets, jobVars>>

GetFound ==
    /\ pc = "epoch"
    /\ IF epochs[found] = 0
       THEN Fail(Failed) /\ UNCHANGED handle
       ELSE /\ handle' = [handle EXCEPT ![found] = epochs[found]]
            /\ pc' = "read"
            /\ UNCHANGED <<reply, counted>>
    /\ UNCHANGED <<searchVars, dataVars, registryVars, faults, numbers, buckets, found, step>>

\* Epoch.GetTransaction: the index, then the node; its not found is an error
\* that does not wrap ErrNotFound.
ReadTransaction ==
    /\ pc = "read"
    /\ \E failed \in BOOLEAN :
          /\ Read(found, handle[found], failed)
          /\ IF failed \/ found \notin inIndex
             THEN Fail(Failed)
             ELSE pc' = "time" /\ UNCHANGED <<reply, counted>>
    /\ UNCHANGED <<searchVars, dataVars, registryVars, numbers, buckets, found, jobVars>>

\* The block time, from an index held in memory: an error returns no error
\* response, so nothing is sent and a success is counted.
BlockTime ==
    /\ pc = "time"
    /\ \/ pc' = "decode" /\ UNCHANGED <<faults, counted>>
       \/ /\ faults < MaxFaults
          /\ faults' = faults + 1
          /\ counted' = "success"
          /\ pc' = "done"
    /\ UNCHANGED <<searchVars, dataVars, registryVars, numbers, buckets, found, reply, jobVars>>

\* Mutant of Decode: a failure returns no error response.
DecodeSilent ==
    /\ pc = "decode"
    /\ \E failed \in BOOLEAN :
          /\ Read(found, handle[found], failed)
          /\ reply' = IF failed THEN reply ELSE "result"
          /\ counted' = "success"
          /\ pc' = "done"
    /\ UNCHANGED <<searchVars, dataVars, registryVars, numbers, buckets, found, jobVars>>

\* The transaction's data frames are read and decoded, and the reply sent.
Decode ==
    /\ pc = "decode"
    /\ \E failed \in BOOLEAN :
          /\ Read(found, handle[found], failed)
          /\ IF failed
             THEN Fail(Failed)
             ELSE reply' = "result" /\ counted' = "success" /\ pc' = "done"
    /\ UNCHANGED <<searchVars, dataVars, registryVars, numbers, buckets, found, jobVars>>
-----------------------------------------------------------------------------
FrameSearch == UNCHANGED <<dataVars, registryVars, faults, requestVars, jobVars>>

RequestStep ==
    \/ Count \/ Single \/ GetEpochNumbers \/ Search \/ Searched \/ GetFound
    \/ ReadTransaction \/ BlockTime \/ Decode
    \/ CallerStep /\ FrameSearch

JobStep(e) ==
    \/ Probe(e) \/ GetEpoch(e) \/ Find(e)
    \/ GoroutineEnd(e) /\ FrameSearch

Next ==
    \/ RequestStep
    \/ \E e \in Epochs : JobStep(e)
    \/ CloseResults /\ FrameSearch
    \/ MayCancel /\ Cancel /\ FrameSearch
    \/ \E e \in Epochs : InstallEpoch(e) \/ RemoveEpoch(e)

Spec == Init /\ [][Next]_vars

\* The Go scheduler runs every goroutine that can run.
FairSpec ==
    /\ Spec
    /\ WF_vars(RequestStep)
    /\ WF_vars(CloseResults /\ FrameSearch)
    /\ \A e \in Epochs : WF_vars(JobStep(e))
-----------------------------------------------------------------------------
\* Every variable of the request keeps its type.
TypeOK ==
    /\ SearchTypeOK
    /\ epochs \in [Epochs -> 0..MaxChanges + 1]
    /\ changes \in 0..MaxChanges
    /\ faults \in 0..MaxFaults
    /\ pc \in {"count", "single", "numbers", "buckets", "search", "epoch", "read", "time",
               "decode", "done"}
    /\ numbers \in Seq(Epochs)
    /\ buckets \in [Epochs -> 0..MaxChanges + 1]
    /\ step \in [Epochs -> {"probe", "get", "find"}]
    /\ handle \in [Epochs -> 0..MaxChanges + 1]
    /\ found \in Epochs \cup {None}
    /\ reply \in {"none", "result", "null", "error", "proxied"}
    /\ counted \in {"none", "success", "failure"}
    /\ steady \subseteq Epochs

\* The search for the epoch is a use of FirstSuccess as specified.
ImplementsFirstSuccess == SearchSpec

\* "All epochs were searched, but the signature was not found": a null result
\* means that no epoch that was loaded all the time holds the signature.
NotFoundSearched == reply = "null" => holders \cap steady = {}

\* A result is read from an epoch whose sig-to-cid index finds the signature,
\* and, unless it was the only one loaded, whose sig-exists index does too.
ResultVerified ==
    reply = "result" => found \in inIndex /\ (phase = "returned" => found \in inBucket)

\* While no epoch is reloaded, no read fails and the context lives, a signature
\* that a loaded epoch holds is answered with a result (a false hit of another
\* epoch's indexes included).
HeldIsServed ==
    changes = 0 /\ faults = 0 /\ ~ctxDone /\ pc = "done" /\ holders \cap steady # {}
        => reply = "result" \/ (phase = "idle" /\ found = None)

\* Every request that is done was answered, unless its block time failed.
Answered == pc = "done" /\ faults = 0 => reply # "none"

\* The request ends, and so do all the goroutines it started, whether or not
\* their results are received.
SearchEnds ==
    /\ <>(pc = "done")
    /\ \A e \in Epochs : [](job[e] # "idle" => <>(job[e] = "done"))
=============================================================================
