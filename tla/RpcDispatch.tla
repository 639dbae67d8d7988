---------------------------- MODULE RpcDispatch -----------------------------
(***************************************************************************)
(* The HTTP front of the server: newMultiEpochHandler with the fallback to  *)
(* another RPC server (multiepoch.go, multiepoch-getVersion.go), the lookup *)
(* endpoints (api.go), and the JSON-RPC methods that are short enough to    *)
(* have no module of their own: getBlockTime, getSlot,                      *)
(* getFirstAvailableBlock and getGenesisHash.                               *)
(*                                                                          *)
(* Epochs are added, replaced and removed while a request runs (module      *)
(* EpochRegistry); a handle that was replaced or removed is closed and its  *)
(* reads fail.  Any read may fail.  The other methods are modules           *)
(* GetTransaction, GetBlock and SignaturesForAddress; here they have an     *)
(* outcome.                                                                 *)
(***************************************************************************)
EXTENDS Integers, Sequences, FiniteSets

CONSTANTS Epochs,   \* a function from numbers to the versions an epoch may be loaded with:
                    \* [subsets, times, exists, sigs], with what its sig-exists and sig-to-cid
                    \* indexes find, false hits included
          Starts,   \* [mode, cids]: what goes to the other server ("none", "unhandled" or "failed"),
                    \* and what earlier requests left in the cache, from slots to versions
          EpochLen,
          Asked,    \* requests: [path, verb, large, json, method, arg]
          MaxRequests, MaxChanges

VARIABLES pc, server, request

vars == <<pc, server, request>>

\* The handle of a loaded epoch; serial tells the handles of one version apart.
Handle(e, version, serial) == [epoch |-> e, version |-> version, serial |-> serial]

Empty(loaded) ==
    [asked |-> <<>>, handle |-> <<>>, err |-> "none", proxied |-> FALSE, replies |-> <<>>,
     jobs |-> <<>>, buckets |-> {}, faulty |-> FALSE, ever |-> loaded, always |-> loaded]

\* At most one version of each epoch is loaded.
Registries ==
    LET all == UNION {{Handle(e, v, 0) : v \in DOMAIN Epochs[e]} : e \in DOMAIN Epochs}
    IN  {H \in SUBSET all : \A g, h \in H : g.epoch = h.epoch => g = h}

Init ==
    /\ pc = "idle"
    /\ \E loaded \in Registries, start \in Starts :
          /\ server = [loaded |-> loaded, mode |-> start.mode, cids |-> start.cids, requests |-> 0, changes |-> 0,
                       first |-> <<>>, last |-> <<>>]
          /\ request = Empty(loaded)

CalcEpochForSlot(slot) == slot \div EpochLen

Asks == request.asked[1]

Reply(status, body) == [request EXCEPT !.replies = Append(@, [status |-> status, body |-> body])]

Done(status, body) == pc' = "done" /\ request' = Reply(status, body) /\ UNCHANGED server

\* The two error values of a handler: the response, and the Go error that is tested for ErrNotFound.
Error(err) == pc' = "errors" /\ request' = [request EXCEPT !.err = err] /\ UNCHANGED server

Step(next) == pc' = next /\ UNCHANGED <<server, request>>

Call ==
    /\ pc \in {"idle", "done"} /\ server.requests < MaxRequests
    /\ \E a \in Asked : request' = [Empty(server.loaded) EXCEPT !.asked = <<a>>]
    /\ server' = [server EXCEPT !.requests = @ + 1]
    /\ pc' = "received"

-----------------------------------------------------------------------------
Receive ==
    /\ pc = "received"
    /\ CASE Asks.path = "metrics" -> Done(200, "metrics")
         [] Asks.path = "health" /\ Asks.verb = "get" -> Done(200, "empty")
         [] Asks.path \in {"slot-to-cid", "sig-to-cid", "api"} -> Step("api")
         [] OTHER -> Step("post")

\* The checks of a JSON-RPC call, up to its parsing.
Post ==
    /\ pc = "post"
    /\ CASE Asks.verb # "post" -> Done(405, "error")
         [] Asks.verb = "post" /\ Asks.large -> Done(413, "error")
         [] Asks.verb = "post" /\ ~Asks.large /\ ~Asks.json -> Done(400, "error")
         [] OTHER -> Step("route")

isValidLocalMethod(method) ==
    method \in {"getBlock", "getTransaction", "getSignaturesForAddress", "getBlockTime", "getGenesisHash",
                "getFirstAvailableBlock", "getSlot"}

Route ==
    /\ pc = "route"
    /\ IF server.mode # "none" /\ ~isValidLocalMethod(Asks.method) THEN Step("proxy")
       ELSE IF Asks.method = "getVersion" THEN Done(200, "version")
       ELSE Step("handle")

HandleRequest ==
    /\ pc = "handle"
    /\ IF isValidLocalMethod(Asks.method) THEN Step(Asks.method) ELSE Error("error")

\* What getTransaction, getBlock and getSignaturesForAddress return: a result was sent, an
\* error, ErrNotFound, or an error without a response.
Others ==
    /\ \/ pc \in {"getTransaction", "getBlock", "getSignaturesForAddress"} /\ Done(200, "result")
       \/ pc \in {"getTransaction", "getBlock", "getSignaturesForAddress"} /\ Error("error")
       \/ pc = "getTransaction" /\ Error("notfound")
       \/ /\ pc = "getTransaction"
          /\ pc' = "done" /\ request' = [request EXCEPT !.err = "silent"] /\ UNCHANGED server

Errors ==
    /\ pc = "errors"
    /\ IF server.mode = "failed" THEN Step("proxy")
       ELSE IF request.err = "notfound" THEN Done(200, "null")
       ELSE Done(200, "error")

\* getVersion is enriched when the other server's answer is a success.
ProxyToAlternativeRPCServer ==
    /\ pc = "proxy"
    /\ \E answer \in {"remote", "refused", "failed"} :
          /\ pc' = "done" /\ UNCHANGED server
          /\ request' = [Reply(IF answer = "failed" THEN 500 ELSE 200,
                               CASE answer = "failed" -> "error"
                                 [] answer = "remote" /\ Asks.method = "getVersion" -> "enriched"
                                 [] OTHER -> "remote") EXCEPT !.proxied = TRUE]

-----------------------------------------------------------------------------
Loaded == {h.epoch : h \in server.loaded}

\* The handle of an epoch, from the registry.
GetEpoch(e, next) ==
    \E h \in server.loaded :
        /\ h.epoch = e
        /\ pc' = next /\ request' = [request EXCEPT !.handle = <<h>>] /\ UNCHANGED server

Uses == request.handle[1]

Open == Uses \in server.loaded

Content(h) == Epochs[h.epoch][h.version]

Here == Content(Uses)

\* Mutant of GetBlockTime: the epoch of the slot before.
GetBlockTimeBefore ==
    /\ pc = "getBlockTime"
    /\ LET e == CalcEpochForSlot(Asks.arg - 1)
       IN  IF e \in Loaded THEN GetEpoch(e, "blocktime") ELSE Error("error")

GetBlockTime ==
    /\ pc = "getBlockTime"
    /\ LET e == CalcEpochForSlot(Asks.arg)
       IN  IF e \in Loaded THEN GetEpoch(e, "blocktime") ELSE Error("error")

\* The block times of an epoch are in memory: they outlive its removal.  No blocktime index
\* (<<>>), and a slot outside of it, are errors.
BlockTime ==
    /\ pc = "blocktime"
    /\ IF Here.times = <<>> THEN Error("error")
       ELSE IF Asks.arg \notin DOMAIN Here.times[1] THEN Error("error")
       ELSE Done(200, IF Here.times[1][Asks.arg] = 0 THEN "null" ELSE "time")

\* A handle of epoch 0 always has its genesis (module EpochOpen).
GetGenesisHash ==
    /\ pc = "getGenesisHash"
    /\ IF 0 \in Loaded THEN Done(200, "genesis") ELSE Error("error")

\* The registry's numbers from the newest to the oldest.
GetMostRecentAvailableEpoch ==
    /\ pc = "getSlot"
    /\ IF server.loaded = {} THEN Error("error")
       ELSE GetEpoch(CHOOSE e \in Loaded : \A f \in Loaded : f <= e, "lastblock")

GetOldestAvailableEpoch ==
    /\ pc = "getFirstAvailableBlock"
    /\ IF server.loaded = {} THEN Error("error")
       ELSE GetEpoch(CHOOSE e \in Loaded : \A f \in Loaded : e <= f, "firstblock")

\* The three reads of the root, a subset and a block: one may fail, and all fail of a closed handle.
\* The client remembers the answer if the registry did not change during the request.
EndBlock(last, known) ==
    LET End(seq) == IF last THEN seq[Len(seq)] ELSE seq[1]
    IN  \/ Error("error")
        \/ /\ Open /\ Here.subsets # <<>>
           /\ End(Here.subsets) # <<>>
           /\ pc' = "done" /\ request' = Reply(200, "slot")
           /\ server' = IF request.ever = request.always
                        THEN [server EXCEPT ![known] = <<End(End(Here.subsets))>>]
                        ELSE server

GetMostRecentAvailableBlock ==
    /\ pc = "lastblock"
    /\ EndBlock(TRUE, "last")

GetFirstAvailableBlock ==
    /\ pc = "firstblock"
    /\ EndBlock(FALSE, "first")

-----------------------------------------------------------------------------
\* The lookup endpoints.  An argument of -1 does not parse.
ApiHandler ==
    /\ pc = "api"
    /\ IF Asks.verb # "get" THEN Done(405, "empty")
       ELSE IF Asks.path = "api" THEN Done(404, "empty")
       ELSE IF Asks.arg = -1 THEN Done(400, "empty")
       ELSE IF Asks.path = "slot-to-cid"
       THEN LET e == CalcEpochForSlot(Asks.arg)
            IN  IF e \in Loaded THEN GetEpoch(e, "slot") ELSE Done(404, "empty")
       ELSE Step("single")

Slots(version) ==
    UNION {{version.subsets[i][j] : j \in DOMAIN version.subsets[i]} : i \in DOMAIN version.subsets}

\* A read that fails although its handle is open.
Fault == pc' = "done" /\ request' = [Reply(500, "empty") EXCEPT !.faulty = TRUE] /\ UNCHANGED server

\* The CID of a slot is cached for all epochs and their versions; an entry may have been
\* evicted when it is asked for.
FindCidFromSlot(slot) ==
    {<<"cid", v>> : v \in {server.cids[s] : s \in DOMAIN server.cids \cap {slot}}}
    \cup {IF ~Open THEN <<"closed">>
          ELSE IF slot \notin Slots(Here) THEN <<"not found">> ELSE <<"cid", Uses.version>>}

PutSlotToCid(slot, version) ==
    [server EXCEPT !.cids = [s \in DOMAIN @ \cup {slot} |-> IF s = slot THEN version ELSE @[s]]]

SlotToCid ==
    /\ pc = "slot"
    /\ \/ Fault
       \/ \E found \in FindCidFromSlot(Asks.arg) :
             CASE found[1] = "closed" -> Done(500, "empty")
               [] found[1] = "not found" -> Done(404, "empty")
               [] found[1] = "cid" ->
                     /\ pc' = "done" /\ request' = Reply(200, found)
                     /\ server' = PutSlotToCid(Asks.arg, found[2])

\* findEpochNumberFromSignature.  One loaded epoch is taken without a look at its indexes.
Single ==
    /\ pc = "single"
    /\ IF Cardinality(Loaded) = 1
       THEN \E e \in Loaded : GetEpoch(e, "found")
       ELSE Step("numbers")

\* Every epoch is searched by a job, in any order.
GetEpochNumbers ==
    /\ pc = "numbers" /\ pc' = "buckets"
    /\ request' = [request EXCEPT !.jobs = [e \in Loaded |-> [at |-> "probe", handle |-> <<>>]]]
    /\ UNCHANGED server

GetAllBucketteers ==
    /\ pc = "buckets" /\ pc' = "search"
    /\ request' = [request EXCEPT !.buckets = server.loaded]
    /\ UNCHANGED server

Job(e, at, next, handle, faulty) ==
    /\ request.jobs[e].at = at
    /\ request' = [request EXCEPT !.jobs[e] = [at |-> next, handle |-> handle], !.faulty = @ \/ faulty]
    /\ UNCHANGED <<pc, server>>

\* The sig-exists index of the handle that the epoch had.
Probe(e) ==
    \/ (\A h \in request.buckets : h.epoch # e) /\ Job(e, "probe", "missing", <<>>, FALSE)
    \/ \E h \in request.buckets :
          /\ h.epoch = e
          /\ \/ Job(e, "probe", "failed", <<>>, h \in server.loaded)
             \/ /\ h \in server.loaded
                /\ Job(e, "probe", IF Asks.arg \in Content(h).exists THEN "get" ELSE "missing", <<>>, FALSE)

JobGetEpoch(e) ==
    \/ e \notin Loaded /\ Job(e, "get", "failed", <<>>, FALSE)
    \/ \E h \in server.loaded : h.epoch = e /\ Job(e, "get", "find", <<h>>, FALSE)

\* Every error of the sig-to-cid index counts as not found.
Find(e) ==
    LET h == request.jobs[e].handle[1]
    IN  \/ request.jobs[e].at = "find" /\ Job(e, "find", "missing", <<h>>, h \in server.loaded)
        \/ /\ request.jobs[e].at = "find" /\ h \in server.loaded
           /\ Job(e, "find", IF Asks.arg \in Content(h).sigs THEN "found" ELSE "missing", <<h>>, FALSE)

Search == pc = "search" /\ \E e \in DOMAIN request.jobs : Probe(e) \/ JobGetEpoch(e) \/ Find(e)

\* The first epoch that has the signature; without one, the errors of all the jobs.
Searched ==
    /\ pc = "search"
    /\ \/ \E e \in DOMAIN request.jobs :
             /\ request.jobs[e].at = "found"
             /\ pc' = "found" /\ UNCHANGED server
             /\ request' = [request EXCEPT !.handle = request.jobs[e].handle, !.jobs = <<>>, !.buckets = {}]
       \/ /\ \A e \in DOMAIN request.jobs : request.jobs[e].at \in {"missing", "failed"}
          /\ pc' = "done" /\ UNCHANGED server
          /\ request' = [Reply(IF \E e \in DOMAIN request.jobs : request.jobs[e].at = "failed" THEN 500 ELSE 404,
                               "empty") EXCEPT !.jobs = <<>>, !.buckets = {}]

\* The epoch that was found is asked for again.
SigEpoch ==
    /\ pc = "found"
    /\ IF Uses.epoch \in Loaded THEN GetEpoch(Uses.epoch, "sig") ELSE Done(404, "empty")

SigToCid ==
    /\ pc = "sig"
    /\ \/ Fault
       \/ ~Open /\ Done(500, "empty")
       \/ Open /\ Asks.arg \notin Here.sigs /\ Done(404, "empty")
       \/ Open /\ Asks.arg \in Here.sigs /\ Done(200, <<"cid", Uses.version>>)

-----------------------------------------------------------------------------
(* The reloads of module ConfigWatcher.                                     *)

Change(now) ==
    /\ server.changes < MaxChanges /\ pc \notin {"idle", "done"}
    /\ server' = [server EXCEPT !.loaded = now, !.changes = @ + 1, !.first = <<>>, !.last = <<>>]
    /\ request' = [request EXCEPT !.ever = @ \cup now, !.always = @ \cap now]
    /\ UNCHANGED pc

ReplaceOrAddEpoch(e, version) ==
    Change({h \in server.loaded : h.epoch # e} \cup {Handle(e, version, server.changes + 1)})

RemoveEpochByConfigFilepath(e) ==
    e \in Loaded /\ Change({h \in server.loaded : h.epoch # e})

Reload ==
    \E e \in DOMAIN Epochs :
        \/ \E version \in DOMAIN Epochs[e] : ReplaceOrAddEpoch(e, version)
        \/ RemoveEpochByConfigFilepath(e)

Run ==
    \/ Receive \/ Post \/ Route \/ HandleRequest \/ Others \/ Errors \/ ProxyToAlternativeRPCServer
    \/ GetBlockTime \/ BlockTime \/ GetGenesisHash
    \/ GetMostRecentAvailableEpoch \/ GetOldestAvailableEpoch
    \/ GetMostRecentAvailableBlock \/ GetFirstAvailableBlock
    \/ ApiHandler \/ SlotToCid \/ Single \/ GetEpochNumbers \/ GetAllBucketteers \/ Search \/ Searched
    \/ SigEpoch \/ SigToCid

Next == Call \/ Run \/ Reload

Spec == Init /\ [][Next]_vars /\ WF_vars(Run)

-----------------------------------------------------------------------------
Answered == pc = "done"

Status == request.replies[1].status
Body == request.replies[1].body

\* Every request is answered exactly once, whether by this server, by the other one, or by the
\* fallback after a local failure; the one exception is a handler that fails without an error
\* response, whose caller gets an empty reply.
OneReply == Answered => Len(request.replies) = (IF request.err = "silent" THEN 0 ELSE 1)

\* The other server sees a method of this server only after this server failed and if failed
\* requests are configured to go there; and an error of this server's own reaches the client
\* only if they are not, or if the other server could not be asked.
RoutedRight ==
    Answered /\ request.asked # <<>> =>
        /\ request.proxied /\ isValidLocalMethod(Asks.method) => request.err # "none" /\ server.mode = "failed"
        /\ request.err \in {"error", "notfound"} /\ server.mode = "failed" => request.proxied

\* A null result of this server means that the transaction was not found or that the block of
\* the slot has no time, in a version of its epoch that was loaded at some moment of the request.
NullExplained ==
    Answered /\ request.replies # <<>> =>
        (Body = "null" =>
           \/ Asks.method = "getTransaction" /\ request.err = "notfound"
           \/ /\ Asks.method = "getBlockTime"
              /\ \E h \in request.ever : /\ h.epoch = CalcEpochForSlot(Asks.arg)
                                        /\ Content(h).times # <<>>
                                        /\ Content(h).times[1][Asks.arg] = 0)

\* The CID of a slot is that of a version that was loaded at some moment of the request or one
\* that an earlier request left in the cache, and of a signature that of a version that was
\* loaded.  "Not found" (404) is said of a slot only if no version that was loaded throughout has
\* it.  It is said of a signature only if no version that was loaded throughout finds it, or if
\* the search found it in an epoch that was replaced or removed since; nothing is said after a
\* failed read, which the search takes for not found.  The lookups fail (500) only if a read
\* failed or the registry changed.
LookupExact ==
    Answered /\ request.replies # <<>> =>
        /\ Asks.path = "slot-to-cid" /\ Status = 200 =>
               \/ \E h \in request.ever : Asks.arg \in Slots(Content(h)) /\ Body = <<"cid", h.version>>
               \/ \E start \in Starts : Asks.arg \in DOMAIN start.cids /\ Body = <<"cid", start.cids[Asks.arg]>>
        /\ Asks.path = "slot-to-cid" /\ Status = 404 => \A h \in request.always : Asks.arg \notin Slots(Content(h))
        /\ Asks.path = "sig-to-cid" /\ Status = 200 =>
               \E h \in request.ever : Asks.arg \in Content(h).sigs /\ Body = <<"cid", h.version>>
        /\ Asks.path = "sig-to-cid" /\ Status = 404 /\ ~request.faulty =>
               \/ \A h \in request.always : Asks.arg \notin Content(h).exists \cap Content(h).sigs
               \/ request.handle # <<>> /\ Uses \notin request.always
        /\ Asks.path \in {"slot-to-cid", "sig-to-cid"} /\ Status = 500 =>
               request.faulty \/ request.ever # request.always

\* getBlockTime answers from a version of the slot's epoch that was loaded at some moment of the
\* request, and fails only if the epoch or the slot's time is missing, or was at some moment.
BlockTimeExact ==
    Answered /\ Asks.method = "getBlockTime" =>
        /\ request.replies # <<>> =>
              (Body = "time" => \E h \in request.ever : h.epoch = CalcEpochForSlot(Asks.arg))
        /\ request.err = "error" =>
              \A h \in request.always :
                  h.epoch = CalcEpochForSlot(Asks.arg) =>
                      Content(h).times = <<>> \/ Asks.arg \notin DOMAIN Content(h).times[1]

\* As long as the registry does not change, the answers of getFirstAvailableBlock and getSlot
\* are the two ends of all the slots that are served, whichever epochs are loaded.
EndsBracket ==
    \A h \in server.loaded :
        /\ server.first # <<>> => \A s \in Slots(Content(h)) : server.first[1] <= s
        /\ server.last # <<>> => \A s \in Slots(Content(h)) : s <= server.last[1]
=============================================================================
