------------------------ MODULE SignaturesForAddress ------------------------
(***************************************************************************)
(* getSignaturesForAddress (multiepoch-getSignaturesForAddress.go) over the *)
(* gsfa indexes of the epochs (gsfa/gsfa-read-multiepoch.go), and a client  *)
(* that reads the whole history of the address page by page, passing the    *)
(* last signature of a page as the next "before".                           *)
(*                                                                          *)
(* Epochs are replaced and removed at any time, which closes their handles. *)
(* A request keeps the gsfa readers of the handles it found, but reads each *)
(* transaction from the handle that its epoch has then, at the offset that  *)
(* the index gave; the CID there is not compared.                           *)
(***************************************************************************)
EXTENDS Integers, Sequences, FiniteSets

CONSTANTS Versions,     \* a function from epochs to the versions they may be loaded with:
                        \* [gsfa, records, car], whether there is a gsfa index, the linked-log
                        \* records of the address, newest first, each a sequence of offsets, newest
                        \* first, and the signatures of the transactions at the offsets of the CAR file
          Asked,        \* what clients ask for: [valid, limit, until]
          MaxLimit,     \* 1000
          MaxChanges

VARIABLES pc, server, request

vars == <<pc, server, request>>

\* The handle of a loaded epoch; serial tells the handles of one version apart.
Handle(e, version, serial) == [epoch |-> e, version |-> version, serial |-> serial]

Content(h) == Versions[h.epoch][h.version]

SortedDown(hs) ==
    [i \in 1..Cardinality(hs) |-> CHOOSE h \in hs : Cardinality({g \in hs : g.epoch > h.epoch}) = i - 1]

\* before, seen: of the client; limit, until: of its requests; readers: the
\* handles of this request; locs: the offsets of the record it reads; found:
\* what it collected, as <<epoch, signature>>; steady: no epoch of the readers
\* was loaded again; response: the reply that is made, numBefore its length so
\* far, and todo the epochs it still lacks.
Init ==
    /\ pc = "client"
    /\ server = [loaded |-> {Handle(e, 1, 0) : e \in DOMAIN Versions}, changes |-> 0]
    /\ \E a \in Asked :
          request = [asked |-> a, limit |-> 0, before |-> <<>>, readers |-> <<>>, epoch |-> 0,
                     batch |-> 0, locs |-> <<>>, reached |-> FALSE, found |-> <<>>, steady |-> TRUE,
                     response |-> <<>>, numBefore |-> 0, todo |-> {}, seen |-> {}]

\* parseGetSignaturesForAddressParams
Limit(n) == IF n <= 0 \/ n > MaxLimit THEN MaxLimit ELSE n

\* Mutant of Readers: the list ends with the first epoch without an index.
ReadersUpToGap(hs) ==
    SortedDown({h \in hs : \A g \in hs : g.epoch >= h.epoch => Content(g).gsfa})

\* getGsfaReadersInEpochDescendingOrder
Readers(hs) == SortedDown({h \in hs : Content(h).gsfa})

Ask ==
    /\ pc = "client"
    /\ LET rs == Readers(server.loaded)
       IN  /\ pc' = IF ~request.asked.valid \/ rs = <<>> THEN "failed" ELSE "epoch"
           /\ request' = [request EXCEPT !.limit = Limit(request.asked.limit), !.readers = rs, !.epoch = 1,
                            !.reached = (request.before = <<>>), !.found = <<>>, !.steady = TRUE]
    /\ UNCHANGED server

Reader == request.readers[request.epoch]
Records == Content(Reader).records
Open == Reader \in server.loaded

Fail == pc' = "failed" /\ UNCHANGED request

\* The next epoch; one that does not know the address is passed over.
OpenEpoch ==
    /\ pc = "epoch"
    /\ IF request.epoch > Len(request.readers)
       THEN /\ pc' = "reply"
            /\ request' = [request EXCEPT !.response = [i \in DOMAIN request.found |-> "nil"], !.numBefore = 0,
                                          !.todo = {request.found[i][1] : i \in DOMAIN request.found}]
       ELSE IF ~Open THEN Fail
       ELSE IF Records = <<>> THEN pc' = pc /\ request' = [request EXCEPT !.epoch = @ + 1]
       ELSE pc' = "record" /\ request' = [request EXCEPT !.batch = 1]
    /\ UNCHANGED server

\* break epochLoop
Enough == request' = [request EXCEPT !.epoch = Len(request.readers) + 1, !.locs = <<>>] /\ pc' = "epoch"

\* The next record of the linked log.
ReadRecord ==
    /\ pc = "record"
    /\ IF request.batch > Len(Records)
       THEN pc' = "epoch" /\ request' = [request EXCEPT !.epoch = @ + 1]
       ELSE IF Len(request.found) >= request.limit THEN Enough
       ELSE IF ~Open THEN Fail
       ELSE pc' = "locations" /\ request' = [request EXCEPT !.locs = Records[request.batch], !.batch = @ + 1]
    /\ UNCHANGED server

\* The transaction with this signature is at the location.
Located(sig) ==
    LET next == [request EXCEPT !.locs = Tail(@)]
    IN  IF ~request.reached
        THEN pc' = pc /\ request' = [next EXCEPT !.reached = (request.before = <<sig>>)]
        ELSE IF Len(request.found) >= request.limit THEN Enough
        ELSE IF request.asked.until = <<sig>>
        THEN /\ pc' = "epoch"
             /\ request' = [next EXCEPT !.found = Append(@, <<Reader.epoch, sig>>),
                                        !.epoch = Len(request.readers) + 1, !.locs = <<>>]
        ELSE pc' = pc /\ request' = [next EXCEPT !.found = Append(@, <<Reader.epoch, sig>>)]

\* One location of the record: the transaction is read, for its signature, from
\* the CAR file that its epoch has now.
Fetch ==
    /\ pc = "locations"
    /\ IF request.locs = <<>> THEN pc' = "record" /\ UNCHANGED request
       ELSE LET now == {h \in server.loaded : h.epoch = Reader.epoch /\ request.locs[1] \in DOMAIN Content(h).car}
            IN  IF now = {} THEN Fail
                ELSE \E h \in now : Located(Content(h).car[request.locs[1]])
    /\ UNCHANGED server

\* A read of an index or of the CAR file fails, or the request is cancelled.
Fails ==
    /\ pc \in {"epoch", "record", "locations"} /\ request.epoch <= Len(request.readers)
    /\ Fail
    /\ UNCHANGED server

Group(e) ==
    LET mine == SelectSeq(request.found, LAMBDA x : x[1] = e)
    IN  [i \in DOMAIN mine |-> mine[i][2]]

\* The range statement goes through the map of epochs in any order: the group of
\* an epoch, from response[numBefore] on; the epoch has to be loaded still.
FillGroup ==
    /\ pc = "reply"
    /\ \E e \in request.todo :
          IF \A h \in server.loaded : h.epoch # e THEN Fail
          ELSE LET group == Group(e)
                   n == request.numBefore
               IN  /\ pc' = pc
                   /\ request' = [request EXCEPT !.todo = @ \ {e}, !.numBefore = n + Len(group),
                                    !.response = [i \in DOMAIN @ |-> IF i - n \in DOMAIN group THEN group[i - n]
                                                                     ELSE @[i]]]
    /\ UNCHANGED server

Reply ==
    /\ pc = "reply" /\ request.todo = {}
    /\ pc' = "replied"
    /\ UNCHANGED <<server, request>>

\* The client asks for the next page until one is empty.
NextPage ==
    /\ pc = "replied"
    /\ IF request.response = <<>> THEN pc' = "done" /\ UNCHANGED request
       ELSE /\ pc' = "client"
            /\ request' = [request EXCEPT !.before = <<request.response[Len(request.response)]>>,
                             !.response = <<>>, !.found = <<>>, !.readers = <<>>, !.epoch = 0,
                             !.seen = @ \cup {request.response[i] : i \in DOMAIN request.response}]
    /\ UNCHANGED server

\* What the watcher does.
Change(now) ==
    /\ pc \notin {"failed", "done"} /\ server.changes < MaxChanges
    /\ server' = [loaded |-> now, changes |-> server.changes + 1]
    /\ UNCHANGED pc

RemoveEpochByConfigFilepath(h) ==
    /\ Change(server.loaded \ {h})
    /\ UNCHANGED request

ReplaceOrAddEpoch(e, version) ==
    /\ Change({h \in server.loaded : h.epoch # e} \cup {Handle(e, version, server.changes + 1)})
    /\ request' = [request EXCEPT !.steady = @ /\ \A i \in DOMAIN request.readers : request.readers[i].epoch # e]

Reload ==
    \/ \E h \in server.loaded : RemoveEpochByConfigFilepath(h)
    \/ \E e \in DOMAIN Versions : \E version \in DOMAIN Versions[e] : ReplaceOrAddEpoch(e, version)

Run == Ask \/ OpenEpoch \/ ReadRecord \/ Fetch \/ FillGroup \/ Reply \/ NextPage

Next == Run \/ Fails \/ Reload

\* The handler runs until it replies, and the client goes on.
Spec == Init /\ [][Next]_vars /\ WF_vars(Run)
-----------------------------------------------------------------------------
(* Properties.                                                              *)

Flatten(ss) ==
    LET upTo[n \in 0..Len(ss)] == IF n = 0 THEN <<>> ELSE upTo[n - 1] \o ss[n]
    IN  upTo[Len(ss)]

\* The history of the address by some handles, from the newest epoch on.
History(hs) ==
    LET Sigs(h) == LET locs == Flatten(Content(h).records) IN [i \in DOMAIN locs |-> Content(h).car[locs[i]]]
    IN  Flatten([i \in DOMAIN hs |-> Sigs(hs[i])])

\* The page that the request defines: after "before", at most limit signatures,
\* and no further than "until", which is part of it.
Page(hs, before, until, limit) ==
    LET all == History(hs)
        from == IF before = <<>> THEN 1
                ELSE IF \E i \in DOMAIN all : all[i] = before[1]
                     THEN 1 + CHOOSE i \in DOMAIN all : all[i] = before[1] ELSE Len(all) + 1
        upTo == {i \in from..Len(all) : i < from + limit /\ \A j \in from..(i - 1) : <<all[j]>> # until}
    IN  [k \in 1..Cardinality(upTo) |-> all[from + k - 1]]

\* A page has exactly the signatures the request defines, though they come from
\* several epochs and records, and though epochs are removed while it is made -
\* unless one of its epochs is loaded again meanwhile, after which the offsets of
\* the old index are looked up in the new CAR file: then nothing is said but that
\* the signatures are of transactions of that epoch.
PageExact ==
    pc \in {"reply", "replied"} =>
        /\ request.steady =>
              [i \in DOMAIN request.found |-> request.found[i][2]] =
                  Page(request.readers, request.before, request.asked.until, request.limit)
        /\ \A i \in DOMAIN request.found :
              \E version \in DOMAIN Versions[request.found[i][1]] :
                  LET car == Versions[request.found[i][1]][version].car
                  IN  \E offset \in DOMAIN car : car[offset] = request.found[i][2]

\* The reply has each of them once, in its own place, although its length was
\* counted before and the epochs come in any order: those of an epoch in order,
\* and no place is left empty.  Which epoch comes first is not said.
ReplyFilled ==
    pc = "replied" =>
        /\ \A e \in {request.found[i][1] : i \in DOMAIN request.found} :
              \E i \in 0..Len(request.response) :
                  /\ i + Len(Group(e)) <= Len(request.response)
                  /\ \A k \in DOMAIN Group(e) : request.response[i + k] = Group(e)[k]
        /\ \A i \in DOMAIN request.response : request.response[i] # "nil"

\* A client that reads page after page sees the whole history, down to "until",
\* in spite of the order of the epochs in a reply: it may see a signature twice,
\* but misses none, as long as no epoch is removed or loaded again.
PagingMissesNothing ==
    pc = "done" /\ server.changes = 0 =>
        LET all == SortedDown({h \in server.loaded : Content(h).gsfa})
            page == Page(all, <<>>, request.asked.until, Len(History(all)))
        IN  \A i \in DOMAIN page : page[i] \in request.seen

\* Paging comes to an end: every page starts after the one before.
PagingEnds == <>(pc \in {"done", "failed"})
=============================================================================
