------------------------------ MODULE MultiEpoch ------------------------------
(***************************************************************************)
(* multiepoch.go: the map of loaded epochs behind a sync.RWMutex.            *)
(* Requests read it (GetEpoch, and the two getters that take the read lock   *)
(* a second time inside GetEpochNumbers); updaters, the goroutines that load *)
(* configs, change it under the write lock and close what they displace.     *)
(*                                                                         *)
(* RWMutex: Lock first announces the writer, which keeps every later RLock   *)
(* waiting, then waits until the read locks already held are released.       *)
(***************************************************************************)
EXTENDS Integers

CONSTANTS EpochNums, Handles, EpochOf, ConfigOf, NoHandle, Requests,
          Updaters,   \* goroutines that add, replace and remove epochs
          NoUpdater,  \* no writer
          Ops         \* getters the requests use, of GetEpoch, Newest, Oldest

ASSUME EpochNumsAssumption == EpochNums \subseteq Nat
\* A Go map has finitely many keys, so a non-empty one has extreme keys.
ASSUME ExtremaAssumption ==
    \A S \in SUBSET EpochNums : S # {} =>
        (\E e \in S : \A f \in S : f <= e) /\ (\E e \in S : \A f \in S : e <= f)
ASSUME NoHandleAssumption == NoHandle \notin Handles
ASSUME EpochOfAssumption == EpochOf \in [Handles -> EpochNums]
ASSUME NoUpdaterAssumption == NoUpdater \notin Updaters
ASSUME OpsAssumption == Ops \subseteq {"GetEpoch", "Newest", "Oldest"}

\* Handles to check with: versions of one config file, one of which has another epoch number.
EpochOfVersion == [h \in Handles |-> IF h = "renumbered" THEN 2 ELSE 1]
OneConfig == [h \in Handles |-> "config"]

VARIABLES epochs, closed, shut, got,
          used,      \* handles that have been built
          writer,    \* the updater that announced or holds the write lock
          wpc,       \* idle, waiting, announced, critical, displaced
          job,       \* what each updater is about to do
          rpc,       \* idle, outer, inner, numbers, using
          rlocks,    \* read locks held by each request
          ask,       \* the getter and the epoch each request asks for
          number     \* the number GetEpochNumbers gave it

mapVars == <<epochs, closed, shut>>
writeVars == <<used, writer, wpc, job>>
readVars == <<got, rpc, rlocks, ask, number>>
vars == <<mapVars, writeVars, readVars>>

\* A handle that the lock holder has closed but not yet taken out of the map
\* counts as open: nobody else can see it.
Displaced == {job[u].old : u \in {v \in Updaters : wpc[v] = "displaced"}}

Phase(r) == IF r = "idle" THEN "idle" ELSE IF r = "using" THEN "answered" ELSE "asked"

Registry == INSTANCE EpochRegistry
    WITH closed <- closed \ Displaced,
         phase  <- [p \in Requests |-> Phase(rpc[p])]

Available == {e \in EpochNums : epochs[e] # NoHandle}

\* op and its argument (a handle or a config file); then, while the lock is
\* held, the epoch whose handle is displaced, and that handle if it was open.
NoJob == [op |-> "none", arg |-> NoHandle, epoch |-> 0, old |-> NoHandle]

Init ==
    /\ epochs = [e \in EpochNums |-> NoHandle]
    /\ closed = {}
    /\ shut = FALSE
    /\ used = {}
    /\ writer = NoUpdater
    /\ wpc = [u \in Updaters |-> "idle"]
    /\ job = [u \in Updaters |-> NoJob]
    /\ got = [p \in Requests |-> NoHandle]
    /\ rpc = [p \in Requests |-> "idle"]
    /\ rlocks = [p \in Requests |-> 0]
    /\ ask = [p \in Requests |-> <<"none", 0>>]
    /\ number = [p \in Requests |-> 0]

-----------------------------------------------------------------------------
(* Requests.                                                                *)

\* RLock: waits while a writer has announced itself or holds the lock.
CanRLock == writer = NoUpdater

Ask(p, op, e) ==
    /\ rpc[p] = "idle"
    /\ ask' = [ask EXCEPT ![p] = <<op, e>>]
    /\ rpc' = [rpc EXCEPT ![p] = "outer"]
    /\ UNCHANGED <<mapVars, writeVars, got, rlocks, number>>

\* GetEpoch: one critical section.
GetEpoch(p) ==
    /\ rpc[p] = "outer"
    /\ ask[p][1] = "GetEpoch"
    /\ CanRLock
    /\ got' = [got EXCEPT ![p] = epochs[ask[p][2]]]
    /\ rpc' = [rpc EXCEPT ![p] = "using"]
    /\ UNCHANGED <<mapVars, writeVars, rlocks, ask, number>>

\* Mutant of OuterRLock: only GetEpochNumbers locks.
OuterRLockNone(p) ==
    /\ rpc[p] = "outer"
    /\ ask[p][1] \in {"Newest", "Oldest"}
    /\ rpc' = [rpc EXCEPT ![p] = "inner"]
    /\ UNCHANGED <<mapVars, writeVars, got, rlocks, ask, number>>

\* GetMostRecentAvailableEpoch and GetOldestAvailableEpoch take the read lock
OuterRLock(p) ==
    /\ rpc[p] = "outer"
    /\ ask[p][1] \in {"Newest", "Oldest"}
    /\ CanRLock
    /\ rlocks' = [rlocks EXCEPT ![p] = 1]
    /\ rpc' = [rpc EXCEPT ![p] = "inner"]
    /\ UNCHANGED <<mapVars, writeVars, got, ask, number>>

\* ... and GetEpochNumbers takes it again, sorts the numbers and releases it.
GetEpochNumbers(p) ==
    /\ rpc[p] = "inner"
    /\ CanRLock
    /\ IF Available = {}
       THEN UNCHANGED number
       ELSE number' = [number EXCEPT ![p] =
                IF ask[p][1] = "Newest" THEN Registry!Newest(epochs)
                                        ELSE Registry!Oldest(epochs)]
    /\ rpc' = [rpc EXCEPT ![p] = IF Available = {} THEN "empty" ELSE "numbers"]
    /\ UNCHANGED <<mapVars, writeVars, got, rlocks, ask>>

\* The map is read at that number, still under the outer read lock.
ReadNumber(p) ==
    /\ rpc[p] \in {"numbers", "empty"}
    /\ got' = [got EXCEPT ![p] = IF rpc[p] = "empty" THEN NoHandle ELSE epochs[number[p]]]
    /\ rlocks' = [rlocks EXCEPT ![p] = 0]
    /\ rpc' = [rpc EXCEPT ![p] = "using"]
    /\ UNCHANGED <<mapVars, writeVars, ask, number>>

\* The request answers with what it read through its handle (or an error).
Answer(p) ==
    /\ rpc[p] = "using"
    /\ got' = [got EXCEPT ![p] = NoHandle]
    /\ rpc' = [rpc EXCEPT ![p] = "idle"]
    /\ ask' = [ask EXCEPT ![p] = <<"none", 0>>]
    /\ number' = [number EXCEPT ![p] = 0]
    /\ UNCHANGED <<mapVars, writeVars, rlocks>>

-----------------------------------------------------------------------------
(* Updaters.                                                                *)

Begin(u, op, x) ==
    /\ wpc[u] = "idle"
    /\ job' = [job EXCEPT ![u] = [NoJob EXCEPT !.op = op, !.arg = x]]
    /\ wpc' = [wpc EXCEPT ![u] = "waiting"]
    /\ UNCHANGED <<mapVars, writer, readVars>>

\* An updater calls AddEpoch or ReplaceOrAddEpoch with a handle it has just
\* built, RemoveEpochByConfigFilepath, or Close at shutdown.
CallInstall(u, op, h) ==
    /\ h \notin used
    /\ used' = used \cup {h}
    /\ Begin(u, op, h)

CallRemove(u, config) == Begin(u, "Remove", config) /\ UNCHANGED used

CallClose(u) == ~shut /\ Begin(u, "Close", NoHandle) /\ UNCHANGED used

\* Lock, first half: no new read lock is granted from here on.
Announce(u) ==
    /\ wpc[u] = "waiting"
    /\ writer = NoUpdater
    /\ writer' = u
    /\ wpc' = [wpc EXCEPT ![u] = "announced"]
    /\ UNCHANGED <<mapVars, used, job, readVars>>

\* Lock, second half: the read locks held before are gone.
Acquire(u) ==
    /\ wpc[u] = "announced"
    /\ \A p \in Requests : rlocks[p] = 0
    /\ wpc' = [wpc EXCEPT ![u] = "critical"]
    /\ UNCHANGED <<mapVars, used, writer, job, readVars>>

Unlock(u) ==
    /\ writer' = NoUpdater
    /\ wpc' = [wpc EXCEPT ![u] = "idle"]
    /\ job' = [job EXCEPT ![u] = NoJob]

\* Mutant of AddEpoch: it waits for the epoch to go away.
AddEpochRetry(u) ==
    /\ wpc[u] = "critical"
    /\ job[u].op = "Add"
    /\ writer' = NoUpdater
    /\ LET h == job[u].arg IN
       IF epochs[EpochOf[h]] = NoHandle
       THEN /\ epochs' = [epochs EXCEPT ![EpochOf[h]] = h]
            /\ wpc' = [wpc EXCEPT ![u] = "idle"]
       ELSE /\ wpc' = [wpc EXCEPT ![u] = "waiting"]
            /\ UNCHANGED epochs
    /\ UNCHANGED <<closed, shut, used, job, readVars>>

\* AddEpoch refuses an epoch that is there; its caller drops the new handle.
AddEpoch(u) ==
    /\ wpc[u] = "critical"
    /\ job[u].op = "Add"
    /\ LET h == job[u].arg IN
       epochs' = IF epochs[EpochOf[h]] = NoHandle
                 THEN [epochs EXCEPT ![EpochOf[h]] = h]
                 ELSE epochs
    /\ Unlock(u)
    /\ UNCHANGED <<closed, shut, used, readVars>>

\* Mutant of CloseDisplaced: the closed handle stays in the map.
CloseOnly(u, e) ==
    /\ wpc[u] = "critical"
    /\ epochs[e] # NoHandle
    /\ \/ job[u].op = "ReplaceOrAdd" /\ e = EpochOf[job[u].arg]
       \/ job[u].op = "Remove" /\ ConfigOf[epochs[e]] = job[u].arg
    /\ closed' = closed \cup {epochs[e]}
    /\ Unlock(u)
    /\ UNCHANGED <<epochs, shut, used, readVars>>

\* ReplaceOrAddEpoch closes the handle of its epoch, RemoveEpochByConfigFilepath
\* the first one it meets that was built from the config file.
CloseDisplaced(u, e) ==
    /\ wpc[u] = "critical"
    /\ epochs[e] # NoHandle
    /\ \/ job[u].op = "ReplaceOrAdd" /\ e = EpochOf[job[u].arg]
       \/ job[u].op = "Remove" /\ ConfigOf[epochs[e]] = job[u].arg
    /\ closed' = closed \cup {epochs[e]}
    /\ job' = [job EXCEPT ![u] =
          [op |-> job[u].op, arg |-> job[u].arg, epoch |-> e,
           old |-> IF epochs[e] \in closed THEN NoHandle ELSE epochs[e]]]
    /\ wpc' = [wpc EXCEPT ![u] = "displaced"]
    /\ UNCHANGED <<epochs, shut, used, writer, readVars>>

\* Then the map entry is overwritten or deleted.
UpdateMap(u) ==
    /\ wpc[u] = "displaced"
    /\ epochs' = [epochs EXCEPT ![job[u].epoch] =
                     IF job[u].op = "Remove" THEN NoHandle ELSE job[u].arg]
    /\ Unlock(u)
    /\ UNCHANGED <<closed, shut, used, readVars>>

\* ReplaceOrAddEpoch with nothing to close.
AddNew(u) ==
    /\ wpc[u] = "critical"
    /\ job[u].op = "ReplaceOrAdd"
    /\ epochs[EpochOf[job[u].arg]] = NoHandle
    /\ epochs' = [epochs EXCEPT ![EpochOf[job[u].arg]] = job[u].arg]
    /\ Unlock(u)
    /\ UNCHANGED <<closed, shut, used, readVars>>

\* Mutant of RemoveNothing: the error path keeps the lock.
RemoveNothingLocked(u) ==
    /\ wpc[u] = "critical"
    /\ job[u].op = "Remove"
    /\ \A e \in Available : ConfigOf[epochs[e]] # job[u].arg
    /\ wpc' = [wpc EXCEPT ![u] = "idle"]
    /\ job' = [job EXCEPT ![u] = NoJob]
    /\ UNCHANGED <<mapVars, used, writer, readVars>>

\* RemoveEpochByConfigFilepath without a match returns an error.
RemoveNothing(u) ==
    /\ wpc[u] = "critical"
    /\ job[u].op = "Remove"
    /\ \A e \in Available : ConfigOf[epochs[e]] # job[u].arg
    /\ Unlock(u)
    /\ UNCHANGED <<mapVars, used, readVars>>

\* Close closes every epoch and leaves the map as it is.
Close(u) ==
    /\ wpc[u] = "critical"
    /\ job[u].op = "Close"
    /\ closed' = closed \cup {epochs[e] : e \in Available}
    /\ shut' = TRUE
    /\ Unlock(u)
    /\ UNCHANGED <<epochs, used, readVars>>

-----------------------------------------------------------------------------
RequestStep(p) ==
    GetEpoch(p) \/ OuterRLock(p) \/ GetEpochNumbers(p) \/ ReadNumber(p) \/ Answer(p)

UpdaterStep(u) ==
    \/ Announce(u) \/ Acquire(u) \/ AddEpoch(u) \/ UpdateMap(u) \/ AddNew(u)
    \/ RemoveNothing(u) \/ Close(u)
    \/ \E e \in EpochNums : CloseDisplaced(u, e)

Next ==
    \/ \E p \in Requests, op \in Ops, e \in EpochNums : Ask(p, op, e)
    \/ \E p \in Requests : RequestStep(p)
    \/ \E u \in Updaters, op \in {"Add", "ReplaceOrAdd"}, h \in Handles : CallInstall(u, op, h)
    \/ \E u \in Updaters, h \in Handles : CallRemove(u, ConfigOf[h])
    \/ \E u \in Updaters : CallClose(u)
    \/ \E u \in Updaters : UpdaterStep(u)

Spec == Init /\ [][Next]_vars

\* Goroutines keep running, and the RWMutex lets the readers that wait in when
\* a writer unlocks and serves waiting writers in turn.
FairSpec ==
    /\ Spec
    /\ \A p \in Requests : SF_vars(RequestStep(p))
    /\ \A u \in Updaters : SF_vars(UpdaterStep(u))
-----------------------------------------------------------------------------
Jobs == [op : {"none", "Add", "ReplaceOrAdd", "Remove", "Close"},
         arg : Handles \cup {ConfigOf[h] : h \in Handles} \cup {NoHandle},
         epoch : EpochNums \cup {0},
         old : Handles \cup {NoHandle}]

\* Every variable of the registry, its lock and its clients keeps its type.
TypeOK ==
    /\ epochs \in [EpochNums -> Handles \cup {NoHandle}]
    /\ closed \subseteq Handles
    /\ shut \in BOOLEAN
    /\ used \subseteq Handles
    /\ writer \in Updaters \cup {NoUpdater}
    /\ wpc \in [Updaters -> {"idle", "waiting", "announced", "critical", "displaced"}]
    /\ job \in [Updaters -> Jobs]
    /\ got \in [Requests -> Handles \cup {NoHandle}]
    /\ rpc \in [Requests -> {"idle", "outer", "inner", "numbers", "empty", "using"}]
    /\ rlocks \in [Requests -> {0, 1}]
    /\ ask \in [Requests -> {<<"none", 0>>} \cup (Ops \X EpochNums)]
    /\ number \in [Requests -> EpochNums \cup {0}]

\* Until shutdown a handle in the map is open, except the one that the holder
\* of the write lock is displacing right now: the close and the map update of
\* ReplaceOrAddEpoch and RemoveEpochByConfigFilepath are one critical section.
MappedOpen ==
    \A e \in Available :
        epochs[e] \in closed /\ ~shut
            => \E u \in Updaters : wpc[u] = "displaced" /\ job[u].epoch = e

\* The registry with its lock behaves as the atomic registry: what GetEpoch,
\* GetMostRecentAvailableEpoch and GetOldestAvailableEpoch hand out is in the
\* map at that moment (the number found under the inner read lock is still
\* the right one when the map is read), and a displaced handle is closed in
\* the step that takes it out of the map.
ImplementsRegistry == Registry!Spec

\* A getter that waits for its second read lock behind a writer that waits for
\* its first.
NestedDeadlock ==
    \E p \in Requests, u \in Updaters : rpc[p] = "inner" /\ wpc[u] = "announced"

\* The next step of a getter or of an updater does not wait for a lock.
RequestCanStep(p) ==
    \/ rpc[p] \in {"outer", "inner"} /\ CanRLock
    \/ rpc[p] \in {"numbers", "empty", "using"}

UpdaterCanStep(u) ==
    \/ wpc[u] = "waiting" /\ writer = NoUpdater
    \/ wpc[u] = "announced" /\ \A p \in Requests : rlocks[p] = 0
    \/ wpc[u] = "critical" /\ job[u].op \in {"Add", "ReplaceOrAdd", "Remove", "Close"}
    \/ wpc[u] = "displaced"

\* While getters or updates are under way one of them can go on: the nested
\* read lock is the only way for all of them to block on the RWMutex.
StuckOnlyNested ==
    (\E p \in Requests : rpc[p] # "idle") \/ (\E u \in Updaters : wpc[u] # "idle")
    => \/ \E p \in Requests : RequestCanStep(p)
       \/ \E u \in Updaters : UpdaterCanStep(u)
       \/ NestedDeadlock

\* Every request returns from its getter and answers, unless the nested read
\* lock has blocked the registry.
RequestsReturn ==
    \A p \in Requests : rpc[p] # "idle" ~> rpc[p] = "idle" \/ NestedDeadlock

\* Likewise every change of the registry is made.
UpdatesReturn ==
    \A u \in Updaters : wpc[u] # "idle" ~> wpc[u] = "idle" \/ NestedDeadlock

\* Requests and changes of the registry come to an end, but for the nested lock.
CallsReturn == RequestsReturn /\ UpdatesReturn

\* Every change of the registry that a changed config file asks for is made.
UpdatesComplete ==
    \A u \in Updaters : wpc[u] # "idle" ~> wpc[u] = "idle"
=============================================================================
