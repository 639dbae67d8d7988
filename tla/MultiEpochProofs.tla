--------------------------- MODULE MultiEpochProofs ---------------------------
(***************************************************************************)
(* The registry with its RWMutex implements the atomic registry, for any     *)
(* epochs, handles, requests and updaters.                                   *)
(***************************************************************************)
EXTENDS MultiEpoch, TLAPS

\* A leaf that names no prover is tried with SMT, with Zenon, and again with SMT;
\* the numbers are seconds.
USE SMTT(60), ZenonT(60), SMTT(90)

\* Who announced or holds the write lock, and that a holder excludes readers.
LockInv ==
    /\ \A u \in Updaters : wpc[u] \in {"announced", "critical", "displaced"} <=> writer = u
    /\ \A u \in Updaters : wpc[u] \in {"critical", "displaced"} => \A p \in Requests : rlocks[p] = 0
    /\ \A p \in Requests : rpc[p] \in {"inner", "numbers", "empty"} <=> rlocks[p] = 1

\* What a request inside a getter knows: the number it found is still right,
\* because the read lock it holds keeps the map as it is.
ReadInv ==
    /\ \A p \in Requests : rpc[p] \notin {"idle", "using"} => ask[p] \in Ops \X EpochNums
    /\ \A p \in Requests : rpc[p] \in {"inner", "numbers", "empty"} => ask[p][1] # "GetEpoch"
    /\ \A p \in Requests :
          rpc[p] = "numbers" =>
              number[p] \in EpochNums /\ epochs[number[p]] = Registry!Result(epochs, ask[p])
    /\ \A p \in Requests : rpc[p] = "empty" => Registry!Result(epochs, ask[p]) = NoHandle

Installing(u) == job[u].op \in {"Add", "ReplaceOrAdd"}

\* The handles that updaters are about to install are new to the map, open,
\* and different from each other.
FreshInv ==
    /\ closed \cup Registry!Mapped(epochs) \subseteq used
    /\ \A u \in Updaters : Installing(u) =>
          /\ job[u].arg \in Handles
          /\ job[u].arg \in used
          /\ job[u].arg \notin closed \cup Registry!Mapped(epochs)
    /\ \A u, v \in Updaters : Installing(u) /\ Installing(v) /\ job[u].arg = job[v].arg => u = v

\* What an updater knows between the close and the map update.
DisplaceInv ==
    \A u \in Updaters : wpc[u] = "displaced" =>
        /\ job[u].op \in {"ReplaceOrAdd", "Remove"}
        /\ job[u].epoch \in EpochNums
        /\ epochs[job[u].epoch] # NoHandle
        /\ epochs[job[u].epoch] \in closed
        /\ job[u].op = "ReplaceOrAdd" => EpochOf[job[u].arg] = job[u].epoch
        /\ job[u].old \in {NoHandle, epochs[job[u].epoch]}

Inv == TypeOK /\ LockInv /\ ReadInv /\ FreshInv /\ DisplaceInv
-----------------------------------------------------------------------------
\* The first and the last of GetEpochNumbers are keys of the map.
LEMMA NewestOldestAvailable ==
    ASSUME Available # {}
    PROVE  Registry!Newest(epochs) \in Available /\ Registry!Oldest(epochs) \in Available
<1>1. Available \in SUBSET EpochNums /\ Registry!Available(epochs) = Available
  BY DEF Available, Registry!Available
<1>2. \E e \in Available : \A f \in Available : f <= e
  BY <1>1, ExtremaAssumption
<1>3. \E e \in Available : \A f \in Available : e <= f
  BY <1>1, ExtremaAssumption
<1> QED
  BY <1>1, <1>2, <1>3 DEF Registry!Newest, Registry!Oldest

\* While an updater is about to close or to update, no other one is.
LEMMA OneWriter ==
    ASSUME LockInv, NEW u \in Updaters, NEW v \in Updaters,
           wpc[u] \in {"announced", "critical", "displaced"},
           wpc[v] \in {"announced", "critical", "displaced"}
    PROVE  u = v
  BY DEF LockInv

LEMMA TypeStep == Inv /\ [Next]_vars => TypeOK'
<1> SUFFICES ASSUME Inv, [Next]_vars PROVE TypeOK'
  OBVIOUS
<1> USE DEF Inv, TypeOK, mapVars, writeVars, readVars
<1>1. ASSUME NEW p \in Requests, NEW op \in Ops, NEW e \in EpochNums, Ask(p, op, e)
      PROVE  TypeOK'
  BY <1>1 DEF Ask
<1>2. ASSUME NEW p \in Requests, GetEpoch(p) PROVE TypeOK'
  BY <1>2 DEF GetEpoch, ReadInv
<1>3. ASSUME NEW p \in Requests, OuterRLock(p) PROVE TypeOK'
  BY <1>3 DEF OuterRLock
<1>4. ASSUME NEW p \in Requests, GetEpochNumbers(p) PROVE TypeOK'
  BY <1>4, NewestOldestAvailable DEF GetEpochNumbers, Available
<1>5. ASSUME NEW p \in Requests, ReadNumber(p) PROVE TypeOK'
  <2>1. rpc[p] = "numbers" => epochs[number[p]] \in Handles \cup {NoHandle}
    BY DEF ReadInv
  <2> QED
    BY <1>5, <2>1 DEF ReadNumber
<1>6. ASSUME NEW p \in Requests, Answer(p) PROVE TypeOK'
  BY <1>6 DEF Answer
<1>7. ASSUME NEW u \in Updaters, NEW op \in {"Add", "ReplaceOrAdd"}, NEW h \in Handles,
             CallInstall(u, op, h)
      PROVE  TypeOK'
  BY <1>7, ZenonT(60) DEF CallInstall, Begin, NoJob, Jobs
<1>8. ASSUME NEW u \in Updaters, NEW h \in Handles, CallRemove(u, ConfigOf[h])
      PROVE  TypeOK'
  BY <1>8, ZenonT(60) DEF CallRemove, Begin, NoJob, Jobs
<1>9. ASSUME NEW u \in Updaters, CallClose(u) PROVE TypeOK'
  BY <1>9, ZenonT(60) DEF CallClose, Begin, NoJob, Jobs
<1>10. ASSUME NEW u \in Updaters, Announce(u) \/ Acquire(u) PROVE TypeOK'
  BY <1>10 DEF Announce, Acquire
<1>11. ASSUME NEW u \in Updaters, AddEpoch(u) \/ AddNew(u) \/ RemoveNothing(u) \/ Close(u)
       PROVE  TypeOK'
  <2>1. NoJob \in Jobs
    BY DEF NoJob, Jobs
  <2>2. CASE AddEpoch(u)
    BY <2>1, <2>2, EpochOfAssumption DEF AddEpoch, Unlock, FreshInv, Installing
  <2>3. CASE AddNew(u)
    BY <2>1, <2>3, EpochOfAssumption DEF AddNew, Unlock, FreshInv, Installing
  <2>4. CASE RemoveNothing(u)
    BY <2>1, <2>4 DEF RemoveNothing, Unlock
  <2>5. CASE Close(u)
    BY <2>1, <2>5 DEF Close, Unlock, Available
  <2> QED
    BY <1>11, <2>2, <2>3, <2>4, <2>5
<1>12. ASSUME NEW u \in Updaters, NEW e \in EpochNums, CloseDisplaced(u, e) PROVE TypeOK'
  <2>1. epochs[e] \in Handles
    BY <1>12 DEF CloseDisplaced
  <2>2. /\ job[u].op \in {"ReplaceOrAdd", "Remove"}
        /\ job[u].arg \in Handles \cup {ConfigOf[h] : h \in Handles} \cup {NoHandle}
    BY <1>12 DEF CloseDisplaced, Jobs
  <2>3. job' \in [Updaters -> Jobs]
    BY <1>12, <2>1, <2>2 DEF CloseDisplaced, Jobs
  <2> QED
    BY <1>12, <2>1, <2>3 DEF CloseDisplaced
<1>13. ASSUME NEW u \in Updaters, UpdateMap(u) PROVE TypeOK'
  BY <1>13 DEF UpdateMap, Unlock, NoJob, Jobs, FreshInv, Installing, DisplaceInv
<1>14. CASE UNCHANGED vars
  BY <1>14 DEF vars
<1> QED
  BY ZenonT(60), <1>1, <1>2, <1>3, <1>4, <1>5, <1>6, <1>7, <1>8, <1>9, <1>10, <1>11, <1>12, <1>13, <1>14
  DEF Next, RequestStep, UpdaterStep
-----------------------------------------------------------------------------
\* The lock: a step of a request is possible only without a writer, or holds
\* on to the read lock it has; a step of an updater moves only that updater.
LEMMA LockStep == Inv /\ [Next]_vars => LockInv'
<1> SUFFICES ASSUME Inv, [Next]_vars PROVE LockInv'
  OBVIOUS
<1> USE DEF Inv, TypeOK, LockInv, mapVars, writeVars, readVars
<1>1. ASSUME NEW p \in Requests, NEW op \in Ops, NEW e \in EpochNums, Ask(p, op, e)
      PROVE  LockInv'
  BY <1>1 DEF Ask
<1>2. ASSUME NEW p \in Requests, RequestStep(p) PROVE LockInv'
  BY <1>2, NoUpdaterAssumption
  DEF RequestStep, GetEpoch, OuterRLock, GetEpochNumbers, ReadNumber, Answer, CanRLock
<1>3. ASSUME NEW u \in Updaters, NEW op, NEW x, Begin(u, op, x) PROVE LockInv'
  BY <1>3 DEF Begin
<1>4. ASSUME NEW u \in Updaters, Announce(u) PROVE LockInv'
  BY <1>4, NoUpdaterAssumption DEF Announce
<1>5. ASSUME NEW u \in Updaters, Acquire(u) PROVE LockInv'
  BY <1>5, NoUpdaterAssumption DEF Acquire
<1>6. ASSUME NEW u \in Updaters, Unlock(u), wpc[u] \in {"critical", "displaced"}, UNCHANGED readVars
      PROVE  LockInv'
  BY <1>6, NoUpdaterAssumption DEF Unlock
<1>7. ASSUME NEW u \in Updaters, NEW e \in EpochNums, CloseDisplaced(u, e) PROVE LockInv'
  BY <1>7 DEF CloseDisplaced
<1>8. CASE UNCHANGED vars
  BY <1>8 DEF vars
<1> QED
  BY ZenonT(60), <1>1, <1>2, <1>3, <1>4, <1>5, <1>6, <1>7, <1>8
  DEF Next, UpdaterStep, CallInstall, CallRemove, CallClose, AddEpoch, UpdateMap, AddNew,
      RemoveNothing, Close

\* A request inside a getter: its own steps establish what it knows, and an
\* updater that changes the map excludes it.
LEMMA ReadStep == Inv /\ [Next]_vars => ReadInv'
<1> SUFFICES ASSUME Inv, [Next]_vars PROVE ReadInv'
  OBVIOUS
<1> USE DEF Inv, TypeOK, mapVars, writeVars, readVars
<1>1. ASSUME NEW p \in Requests, NEW op \in Ops, NEW e \in EpochNums, Ask(p, op, e)
      PROVE  ReadInv'
  BY <1>1 DEF Ask, ReadInv
<1>2. ASSUME NEW p \in Requests, GetEpoch(p) \/ OuterRLock(p) \/ ReadNumber(p) \/ Answer(p)
      PROVE  ReadInv'
  BY <1>2 DEF GetEpoch, OuterRLock, ReadNumber, Answer, ReadInv
<1>3. ASSUME NEW p \in Requests, GetEpochNumbers(p) PROVE ReadInv'
  <2>1. ask[p][1] # "GetEpoch" /\ ask[p] \in Ops \X EpochNums
    BY <1>3 DEF GetEpochNumbers, ReadInv
  <2>2. Available = {} => Registry!Result(epochs, ask[p]) = NoHandle
    BY <2>1 DEF Registry!Result, Registry!Available, Available
  <2>3. Available # {} =>
          /\ number'[p] \in EpochNums
          /\ epochs[number'[p]] = Registry!Result(epochs, ask[p])
    BY <1>3, <2>1, NewestOldestAvailable, OpsAssumption
    DEF GetEpochNumbers, Registry!Result, Registry!Available, Available
  <2> QED
    BY <1>3, <2>1, <2>2, <2>3 DEF GetEpochNumbers, ReadInv
<1>4. ASSUME NEW u \in Updaters, wpc[u] \in {"critical", "displaced"}, UNCHANGED readVars
      PROVE  ReadInv'
  <2>1. \A p \in Requests : rpc'[p] \notin {"inner", "numbers", "empty"}
    BY <1>4 DEF LockInv
  <2> QED
    BY <1>4, <2>1 DEF ReadInv
<1>5. CASE UNCHANGED <<epochs, readVars>>
  BY <1>5, ZenonT(60) DEF ReadInv
<1> QED
  BY ZenonT(60), <1>1, <1>2, <1>3, <1>4, <1>5
  DEF Next, RequestStep, UpdaterStep, CallInstall, CallRemove, CallClose, Begin, Announce,
      Acquire, AddEpoch, UpdateMap, AddNew, RemoveNothing, Close, CloseDisplaced, vars
-----------------------------------------------------------------------------
\* Installing a handle, displacing one and closing keep the handles of the
\* other updaters fresh.
LEMMA FreshStep == Inv /\ [Next]_vars => FreshInv'
<1> SUFFICES ASSUME Inv, [Next]_vars PROVE FreshInv'
  OBVIOUS
<1> USE DEF Inv, TypeOK, mapVars, writeVars, readVars, Installing
<1>0. ASSUME NEW map \in [EpochNums -> Handles \cup {NoHandle}]
      PROVE  \A h : h \in Registry!Mapped(map) <=> h # NoHandle /\ \E e \in EpochNums : map[e] = h
  BY DEF Registry!Mapped, Registry!Available
<1>1. ASSUME NEW u \in Updaters, NEW op \in {"Add", "ReplaceOrAdd"}, NEW h \in Handles,
             CallInstall(u, op, h)
      PROVE  FreshInv'
  BY <1>1 DEF CallInstall, Begin, NoJob, FreshInv
<1>2. ASSUME NEW u \in Updaters, NEW op \in {"Remove", "Close"}, NEW x, Begin(u, op, x),
             UNCHANGED used
      PROVE  FreshInv'
  BY <1>2 DEF Begin, NoJob, FreshInv
<1>3. CASE UNCHANGED <<epochs, closed, used, job>>
  BY <1>3 DEF FreshInv
<1>4. ASSUME NEW u \in Updaters, Unlock(u), Installing(u), UNCHANGED <<closed, used>>,
             \/ UNCHANGED epochs
             \/ epochs' = [epochs EXCEPT ![EpochOf[job[u].arg]] = job[u].arg]
      PROVE  FreshInv'
  <2>1. job[u].arg \in Handles /\ EpochOf[job[u].arg] \in EpochNums
    BY <1>4, EpochOfAssumption DEF FreshInv
  <2>2. epochs' \in [EpochNums -> Handles \cup {NoHandle}]
    BY <1>4, <2>1
  <2>3. Registry!Mapped(epochs') \subseteq Registry!Mapped(epochs) \cup {job[u].arg}
    BY <1>0, <1>4, <2>1, <2>2
  <2>4. \A v \in Updaters : Installing(v)' => v # u /\ Installing(v) /\ job'[v] = job[v]
    BY <1>4 DEF Unlock, NoJob
  <2> QED
    BY <1>4, <2>3, <2>4 DEF FreshInv
<1>5. ASSUME NEW u \in Updaters, NEW e \in EpochNums, CloseDisplaced(u, e) PROVE FreshInv'
  <2>1. epochs[e] \in Registry!Mapped(epochs)
    BY <1>0, <1>5 DEF CloseDisplaced
  <2>2. \A v \in Updaters : job'[v].op = job[v].op /\ job'[v].arg = job[v].arg
    BY <1>5 DEF CloseDisplaced, Jobs
  <2> QED
    BY <1>5, <2>1, <2>2 DEF CloseDisplaced, FreshInv
<1>6. ASSUME NEW u \in Updaters, UpdateMap(u), job[u].op = "Remove" PROVE FreshInv'
  <2>1. epochs' = [epochs EXCEPT ![job[u].epoch] = NoHandle]
    BY <1>6 DEF UpdateMap
  <2>2. Registry!Mapped(epochs') \subseteq Registry!Mapped(epochs)
    <3> SUFFICES ASSUME NEW e \in EpochNums, epochs'[e] # NoHandle
                 PROVE  epochs'[e] = epochs[e]
      BY DEF Registry!Mapped, Registry!Available
    <3> QED
      BY <2>1
  <2>3. \A v \in Updaters : Installing(v)' => v # u /\ Installing(v) /\ job'[v] = job[v]
    BY <1>6 DEF UpdateMap, Unlock, NoJob
  <2> QED
    BY <1>6, <2>2, <2>3, ZenonT(60) DEF UpdateMap, FreshInv
<1>7. ASSUME NEW u \in Updaters, UpdateMap(u), job[u].op # "Remove" PROVE FreshInv'
  BY <1>4, <1>7, ZenonT(60) DEF UpdateMap, DisplaceInv
<1>8. ASSUME NEW u \in Updaters, RemoveNothing(u) \/ Close(u) PROVE FreshInv'
  <2>1. closed' \subseteq closed \cup Registry!Mapped(epochs) /\ UNCHANGED <<epochs, used>>
    BY <1>8 DEF RemoveNothing, Close, Available, Registry!Mapped, Registry!Available
  <2>2. \A v \in Updaters : Installing(v)' => v # u /\ Installing(v) /\ job'[v] = job[v]
    BY <1>8 DEF RemoveNothing, Close, Unlock, NoJob
  <2> QED
    BY <2>1, <2>2 DEF FreshInv
<1>9. ASSUME NEW u \in Updaters, AddEpoch(u) \/ AddNew(u) PROVE FreshInv'
  BY <1>4, <1>9 DEF AddEpoch, AddNew
<1> QED
  BY <1>1, <1>2, <1>3, <1>5, <1>6, <1>7, <1>8, <1>9
  DEF Next, RequestStep, UpdaterStep, CallRemove, CallClose, Ask, GetEpoch, OuterRLock,
      GetEpochNumbers, ReadNumber, Answer, Announce, Acquire, vars

\* Only the holder of the write lock changes the map or what it displaces.
LEMMA DisplaceStep == Inv /\ [Next]_vars => DisplaceInv'
<1> SUFFICES ASSUME Inv, [Next]_vars PROVE DisplaceInv'
  OBVIOUS
<1> USE DEF Inv, TypeOK, mapVars, writeVars, readVars
<1>1. CASE UNCHANGED <<epochs, closed, wpc, job>>
  BY <1>1 DEF DisplaceInv
<1>2. ASSUME NEW u \in Updaters, NEW op, NEW x, Begin(u, op, x) PROVE DisplaceInv'
  BY <1>2 DEF Begin, DisplaceInv
<1>3. ASSUME NEW u \in Updaters, Announce(u) \/ Acquire(u) PROVE DisplaceInv'
  BY <1>3 DEF Announce, Acquire, DisplaceInv
<1>4. ASSUME NEW u \in Updaters, wpc[u] \in {"critical", "displaced"}, Unlock(u)
      PROVE  DisplaceInv'
  BY <1>4, OneWriter DEF Unlock, DisplaceInv
<1>5. ASSUME NEW u \in Updaters, NEW e \in EpochNums, CloseDisplaced(u, e) PROVE DisplaceInv'
  <2>1. \A v \in Updaters : wpc'[v] = "displaced" => v = u
    BY <1>5, OneWriter DEF CloseDisplaced
  <2>2. /\ job'[u].op = job[u].op /\ job'[u].arg = job[u].arg /\ job'[u].epoch = e
        /\ job'[u].old \in {NoHandle, epochs[e]}
    BY <1>5 DEF CloseDisplaced
  <2> QED
    BY <1>5, <2>1, <2>2 DEF CloseDisplaced, DisplaceInv
<1> QED
  BY ZenonT(60), <1>1, <1>2, <1>3, <1>4, <1>5
  DEF Next, RequestStep, UpdaterStep, CallInstall, CallRemove, CallClose, Ask, GetEpoch,
      OuterRLock, GetEpochNumbers, ReadNumber, Answer, AddEpoch, UpdateMap, AddNew,
      RemoveNothing, Close, vars
-----------------------------------------------------------------------------
LEMMA InitInv == Init => Inv
<1> SUFFICES ASSUME Init PROVE Inv
  OBVIOUS
<1>1. TypeOK
  BY ZenonT(60) DEF Init, TypeOK, NoJob, Jobs
<1>2. LockInv /\ ReadInv /\ DisplaceInv
  BY NoUpdaterAssumption DEF Init, LockInv, ReadInv, DisplaceInv
<1>3. Registry!Mapped(epochs) = {}
  BY DEF Init, Registry!Mapped, Registry!Available
<1>4. FreshInv
  BY <1>3 DEF Init, FreshInv, Installing, NoJob
<1> QED
  BY <1>1, <1>2, <1>4 DEF Inv

\* The inductive invariant of the registry and its lock.
THEOREM RegistryInvariant == Spec => []Inv
<1>1. Inv /\ [Next]_vars => Inv'
  BY TypeStep, LockStep, ReadStep, FreshStep, DisplaceStep DEF Inv
<1> QED
  BY InitInv, <1>1, PTL DEF Spec

\* The variables of the registry keep their types.
THEOREM TypeCorrect == Spec => []TypeOK
  BY RegistryInvariant, PTL DEF Inv

-----------------------------------------------------------------------------
AbstractPhase == [p \in Requests |-> Phase(rpc[p])]

LEMMA PhaseUpdate ==
    ASSUME TypeOK, NEW p \in Requests, NEW r, rpc' = [rpc EXCEPT ![p] = r]
    PROVE  AbstractPhase' = [AbstractPhase EXCEPT ![p] = Phase(r)]
<1>1. AbstractPhase' = [q \in Requests |-> Phase(rpc'[q])]
  BY DEF AbstractPhase
<1>2. \A q \in Requests : rpc'[q] = IF q = p THEN r ELSE rpc[q]
  BY DEF TypeOK
<1>3. [AbstractPhase EXCEPT ![p] = Phase(r)]
         = [q \in Requests |-> IF q = p THEN Phase(r) ELSE Phase(rpc[q])]
  BY ZenonT(60) DEF AbstractPhase
<1>4. \A q \in Requests : Phase(rpc'[q]) = IF q = p THEN Phase(r) ELSE Phase(rpc[q])
  BY <1>2
<1> QED
  BY <1>1, <1>3, <1>4

\* A step that only moves the lock is invisible in the atomic registry.
LEMMA Invisible ==
    ASSUME Inv, Displaced' = Displaced, AbstractPhase' = AbstractPhase,
           UNCHANGED <<epochs, closed, shut, ask, got>>
    PROVE  UNCHANGED Registry!vars
  BY DEF Registry!vars, AbstractPhase

LEMMA DisplacedEmpty ==
    ASSUME Inv, NEW u \in Updaters, wpc[u] \in {"announced", "critical"}
    PROVE  Displaced = {}
  BY OneWriter DEF Inv, Displaced

LEMMA DisplacedOld ==
    ASSUME Inv, NEW u \in Updaters, wpc[u] = "displaced"
    PROVE  Displaced = {job[u].old}
  BY OneWriter DEF Inv, Displaced

LEMMA DisplacedAfterUnlock ==
    ASSUME Inv, NEW u \in Updaters, wpc[u] \in {"critical", "displaced"}, Unlock(u)
    PROVE  Displaced' = {}
<1>1. \A v \in Updaters : wpc'[v] # "displaced"
  BY OneWriter, ZenonT(60) DEF Inv, TypeOK, Unlock
<1> QED
  BY <1>1 DEF Displaced

\* Every step of the registry with its lock is a step of the atomic registry
\* or invisible in it.
LEMMA StepRefines == Inv /\ Inv' /\ [Next]_vars => [Registry!Next]_(Registry!vars)
<1> SUFFICES ASSUME Inv, Inv', [Next]_vars PROVE [Registry!Next]_(Registry!vars)
  OBVIOUS
<1> USE DEF mapVars, writeVars, readVars
<1>1. ASSUME NEW p \in Requests, NEW op \in Ops, NEW e \in EpochNums, Ask(p, op, e)
      PROVE  Registry!Ask(p, op, e)
  <2>1. Displaced' = Displaced
    BY <1>1 DEF Ask, Displaced
  <2>2. AbstractPhase' = [AbstractPhase EXCEPT ![p] = "asked"] /\ AbstractPhase[p] = "idle"
    <3>1. rpc' = [rpc EXCEPT ![p] = "outer"] /\ rpc[p] = "idle"
      BY <1>1 DEF Ask
    <3>2. AbstractPhase' = [AbstractPhase EXCEPT ![p] = Phase("outer")]
      BY <3>1, PhaseUpdate, ZenonT(60) DEF Inv
    <3>3. AbstractPhase[p] = Phase("idle")
      BY <3>1 DEF AbstractPhase
    <3> QED
      BY <3>2, <3>3 DEF Phase
  <2> QED
    BY <1>1, <2>1, <2>2 DEF Ask, Registry!Ask, AbstractPhase
<1>2. ASSUME NEW p \in Requests, GetEpoch(p) \/ ReadNumber(p)
      PROVE  Registry!Reply(p)
  <2>1. Displaced' = Displaced
    BY <1>2 DEF GetEpoch, ReadNumber, Displaced
  <2>2. AbstractPhase' = [AbstractPhase EXCEPT ![p] = "answered"] /\ AbstractPhase[p] = "asked"
    <3>1. rpc' = [rpc EXCEPT ![p] = "using"] /\ rpc[p] \in {"outer", "numbers", "empty"}
      BY <1>2 DEF GetEpoch, ReadNumber
    <3> QED
      BY <3>1, PhaseUpdate, ZenonT(60) DEF AbstractPhase, Phase, Inv
  <2>3. got' = [got EXCEPT ![p] = Registry!Result(epochs, ask[p])]
    <3>1. CASE GetEpoch(p)
      BY <3>1 DEF GetEpoch, Registry!Result
    <3>2. CASE ReadNumber(p)
      BY <3>2, ZenonT(60) DEF ReadNumber, Inv, ReadInv
    <3> QED
      BY <1>2, <3>1, <3>2
  <2> QED
    BY <1>2, <2>1, <2>2, <2>3 DEF GetEpoch, ReadNumber, Registry!Reply, AbstractPhase
<1>3. ASSUME NEW p \in Requests, OuterRLock(p) \/ GetEpochNumbers(p)
      PROVE  UNCHANGED Registry!vars
  <2>1. Displaced' = Displaced /\ AbstractPhase' = AbstractPhase
    BY <1>3 DEF OuterRLock, GetEpochNumbers, Displaced, AbstractPhase, Phase, Inv, TypeOK
  <2> QED
    BY <1>3, <2>1, Invisible, ZenonT(60) DEF OuterRLock, GetEpochNumbers
<1>4. ASSUME NEW p \in Requests, Answer(p) PROVE Registry!Release(p)
  <2>1. Displaced' = Displaced
    BY <1>4 DEF Answer, Displaced
  <2>2. AbstractPhase' = [AbstractPhase EXCEPT ![p] = "idle"] /\ AbstractPhase[p] = "answered"
    BY <1>4, PhaseUpdate, ZenonT(60) DEF Answer, AbstractPhase, Phase, Inv
  <2> QED
    BY <1>4, <2>1, <2>2 DEF Answer, Registry!Release, AbstractPhase
<1>5. ASSUME NEW u \in Updaters, NEW op, NEW x, Begin(u, op, x)
      PROVE  UNCHANGED Registry!vars
  <2>1. Displaced' = Displaced
    BY <1>5 DEF Begin, Displaced, Inv, TypeOK
  <2> QED
    BY <1>5, <2>1, Invisible DEF Begin, AbstractPhase
<1>6. ASSUME NEW u \in Updaters, Announce(u) \/ Acquire(u) PROVE UNCHANGED Registry!vars
  <2>1. Displaced' = Displaced
    BY <1>6 DEF Announce, Acquire, Displaced, Inv, TypeOK
  <2> QED
    BY <1>6, <2>1, Invisible, ZenonT(60) DEF Announce, Acquire, AbstractPhase
<1>7. ASSUME NEW u \in Updaters, AddEpoch(u)
      PROVE  Registry!Add(job[u].arg) \/ UNCHANGED Registry!vars
  <2>1. Displaced = {} /\ Displaced' = {}
    BY <1>7, DisplacedEmpty, DisplacedAfterUnlock DEF AddEpoch
  <2>2. AbstractPhase' = AbstractPhase
    BY <1>7 DEF AddEpoch, AbstractPhase
  <2>3. CASE epochs[EpochOf[job[u].arg]] = NoHandle
    <3>1. job[u].arg \notin closed \cup Registry!Mapped(epochs)
      BY <1>7 DEF AddEpoch, Inv, FreshInv, Installing
    <3> QED
      BY ZenonT(60), <1>7, <2>1, <2>2, <2>3, <3>1
      DEF AddEpoch, Registry!Add, Registry!Fresh, Registry!requestVars, AbstractPhase
  <2>4. CASE epochs[EpochOf[job[u].arg]] # NoHandle
    BY <1>7, <2>1, <2>2, <2>4, Invisible, ZenonT(60) DEF AddEpoch
  <2> QED
    BY <2>3, <2>4, ZenonT(60)
<1>8. ASSUME NEW u \in Updaters, AddNew(u) PROVE Registry!ReplaceOrAdd(job[u].arg)
  <2>1. Displaced = {} /\ Displaced' = {}
    BY <1>8, DisplacedEmpty, DisplacedAfterUnlock DEF AddNew
  <2>2. AbstractPhase' = AbstractPhase
    BY <1>8, ZenonT(60) DEF AddNew, AbstractPhase
  <2>3. job[u].arg \notin closed \cup Registry!Mapped(epochs)
    BY <1>8 DEF AddNew, Inv, FreshInv, Installing
  <2> QED
    BY <1>8, <2>1, <2>2, <2>3
    DEF AddNew, Registry!ReplaceOrAdd, Registry!Fresh, Registry!requestVars, AbstractPhase
<1>9. ASSUME NEW u \in Updaters, NEW e \in EpochNums, CloseDisplaced(u, e)
      PROVE  UNCHANGED Registry!vars
  <2>1. Displaced = {}
    BY <1>9, DisplacedEmpty, ZenonT(60) DEF CloseDisplaced
  <2>2. wpc'[u] = "displaced"
    BY <1>9, ZenonT(60) DEF CloseDisplaced, Inv, TypeOK
  <2>3. \A v \in Updaters : wpc'[v] = "displaced" => v = u
    BY <2>2 DEF Inv, LockInv
  <2>4. Displaced' = {job'[u].old}
    BY <2>2, <2>3, ZenonT(60) DEF Displaced
  <2>5. job'[u].old = IF epochs[e] \in closed THEN NoHandle ELSE epochs[e]
    BY <1>9, ZenonT(60) DEF CloseDisplaced, Inv, TypeOK
  <2>6. closed' \ Displaced' = closed \ Displaced
    BY <1>9, <2>1, <2>4, <2>5, NoHandleAssumption DEF CloseDisplaced, Inv, TypeOK
  <2>7. AbstractPhase' = AbstractPhase
    BY <1>9 DEF CloseDisplaced, AbstractPhase
  <2> QED
    BY <1>9, <2>6, <2>7 DEF CloseDisplaced, Registry!vars, AbstractPhase
<1>10. ASSUME NEW u \in Updaters, UpdateMap(u)
       PROVE  \/ job[u].arg \in Handles /\ Registry!ReplaceOrAdd(job[u].arg)
              \/ Registry!Remove(job[u].epoch)
  <2>1. Displaced = {job[u].old} /\ Displaced' = {}
    BY <1>10, DisplacedOld, DisplacedAfterUnlock DEF UpdateMap
  <2>2. AbstractPhase' = AbstractPhase
    BY <1>10 DEF UpdateMap, AbstractPhase
  <2> DEFINE e == job[u].epoch
  <2>3. /\ e \in EpochNums /\ epochs[e] # NoHandle /\ epochs[e] \in closed
        /\ job[u].old \in {NoHandle, epochs[e]}
        /\ job[u].op \in {"ReplaceOrAdd", "Remove"}
        /\ job[u].op = "ReplaceOrAdd" => EpochOf[job[u].arg] = e
    BY <1>10, ZenonT(60) DEF UpdateMap, Inv, DisplaceInv
  <2>4. closed' \ Displaced' = (closed \ Displaced) \cup {epochs[e]}
    <3>1. closed' = closed /\ NoHandle \notin closed
      BY <1>10, NoHandleAssumption, ZenonT(60) DEF UpdateMap, Inv, TypeOK
    <3> QED
      BY <2>1, <2>3, <3>1
  <2>5. CASE job[u].op = "Remove"
    BY ZenonT(60), <1>10, <2>2, <2>3, <2>4, <2>5
    DEF UpdateMap, Registry!Remove, Registry!requestVars, AbstractPhase
  <2>6. CASE job[u].op = "ReplaceOrAdd"
    <3>1. job[u].arg \in Handles /\ job[u].arg \notin closed \cup Registry!Mapped(epochs)
      BY <2>6 DEF Inv, FreshInv, Installing
    <3> QED
      BY ZenonT(60), <1>10, <2>2, <2>3, <2>4, <2>6, <3>1
      DEF UpdateMap, Registry!ReplaceOrAdd, Registry!Fresh, Registry!requestVars, AbstractPhase
  <2> QED
    BY <2>3, <2>5, <2>6
<1>11. ASSUME NEW u \in Updaters, RemoveNothing(u) PROVE UNCHANGED Registry!vars
  <2>1. Displaced' = Displaced
    BY <1>11, DisplacedEmpty, DisplacedAfterUnlock, ZenonT(60) DEF RemoveNothing
  <2> QED
    BY <1>11, <2>1, Invisible DEF RemoveNothing, AbstractPhase
<1>12. ASSUME NEW u \in Updaters, Close(u) PROVE Registry!CloseAll
  <2>1. Displaced = {} /\ Displaced' = {}
    BY <1>12, DisplacedEmpty, DisplacedAfterUnlock DEF Close
  <2>2. AbstractPhase' = AbstractPhase
    BY <1>12 DEF Close, AbstractPhase
  <2> QED
    BY <1>12, <2>1, <2>2, ZenonT(60) DEF Close, Registry!CloseAll, Registry!Mapped, Registry!Available,
       Registry!requestVars, Available, AbstractPhase
<1>13. CASE UNCHANGED vars
  BY <1>13 DEF vars, Registry!vars, Displaced
<1>14. ASSUME NEW u \in Updaters, wpc[u] \in {"critical", "displaced"}, job[u].op = "Add"
       PROVE  job[u].arg \in Handles
  BY <1>14 DEF Inv, FreshInv, Installing
<1>15. ASSUME NEW u \in Updaters, job[u].op = "ReplaceOrAdd" PROVE job[u].arg \in Handles
  BY <1>15 DEF Inv, FreshInv, Installing
<1>16. ASSUME NEW u \in Updaters, UpdaterStep(u) PROVE [Registry!Next]_(Registry!vars)
  <2>1. CASE AddEpoch(u)
    BY <1>7, <1>14, <2>1 DEF AddEpoch, Registry!Next
  <2>2. CASE AddNew(u)
    BY <1>8, <1>15, <2>2, ZenonT(60) DEF AddNew, Registry!Next
  <2>3. CASE UpdateMap(u)
    <3>1. job[u].epoch \in EpochNums
      BY <2>3 DEF UpdateMap, Inv, DisplaceInv
    <3> QED
      BY <1>10, <2>3, <3>1, ZenonT(60) DEF Registry!Next
  <2> QED
    BY <1>6, <1>9, <1>11, <1>12, <1>16, <2>1, <2>2, <2>3, ZenonT(60) DEF UpdaterStep, Registry!Next
<1> QED
  BY <1>1, <1>2, <1>3, <1>4, <1>5, <1>13, <1>16, OpsAssumption
  DEF Next, RequestStep, CallInstall, CallRemove, CallClose, Registry!Next

\* The initial states of the registry are initial in the atomic registry.
LEMMA InitRefines == Init => Registry!Init
  BY DEF Init, Registry!Init, Displaced, Phase

\* The registry behind its RWMutex implements the atomic registry.
THEOREM Refinement == Spec => ImplementsRegistry
<1>1. Inv /\ Inv' /\ [Next]_vars => [Registry!Next]_(Registry!vars)
  BY StepRefines
<1> QED
  BY InitRefines, RegistryInvariant, <1>1, PTL DEF Spec, ImplementsRegistry, Registry!Spec
-----------------------------------------------------------------------------
\* A handle is in the map only under its own epoch.
KeyInv == \A e \in Available : EpochOf[epochs[e]] = e

OpenInv == Inv /\ KeyInv /\ MappedOpen

LEMMA KeyStep == Inv /\ KeyInv /\ [Next]_vars => KeyInv'
<1> SUFFICES ASSUME Inv, KeyInv, [Next]_vars PROVE KeyInv'
  OBVIOUS
<1> USE DEF Inv, TypeOK, KeyInv, Available
<1>1. CASE UNCHANGED epochs
  BY <1>1
<1>2. ASSUME NEW u \in Updaters, AddEpoch(u) \/ AddNew(u) PROVE KeyInv'
  <2>1. \A e \in EpochNums :
            epochs'[e] = epochs[e] \/ (e = EpochOf[job[u].arg] /\ epochs'[e] = job[u].arg)
    <3>1. \/ epochs' = epochs
          \/ epochs' = [epochs EXCEPT ![EpochOf[job[u].arg]] = job[u].arg]
      BY <1>2, ZenonT(60) DEF AddEpoch, AddNew
    <3>2. epochs \in [EpochNums -> Handles \cup {NoHandle}]
      OBVIOUS
    <3>3. CASE epochs' = epochs
      BY <3>3
    <3>4. CASE epochs' = [epochs EXCEPT ![EpochOf[job[u].arg]] = job[u].arg]
      BY <3>2, <3>4, ZenonT(60)
    <3> QED
      BY <3>1, <3>3, <3>4
  <2> QED
    BY <2>1, ZenonT(60)
<1>3. ASSUME NEW u \in Updaters, UpdateMap(u) PROVE KeyInv'
  BY <1>3 DEF UpdateMap, DisplaceInv
<1> QED
  BY ZenonT(60), <1>1, <1>2, <1>3
  DEF Next, RequestStep, UpdaterStep, vars, mapVars, Ask, GetEpoch, OuterRLock, GetEpochNumbers,
      ReadNumber, Answer, CallInstall, CallRemove, CallClose, Begin, Announce, Acquire,
      CloseDisplaced, RemoveNothing, Close

LEMMA OpenStep == OpenInv /\ [Next]_vars => MappedOpen'
<1> SUFFICES ASSUME OpenInv, [Next]_vars PROVE MappedOpen'
  OBVIOUS
<1> USE DEF OpenInv, Inv, MappedOpen, Available, TypeOK
<1>1. CASE UNCHANGED <<mapVars, wpc, job>>
  BY <1>1 DEF mapVars
<1>2. ASSUME NEW u \in Updaters, UNCHANGED mapVars, wpc[u] # "displaced",
             \A v \in Updaters \ {u} : wpc'[v] = wpc[v] /\ job'[v] = job[v]
      PROVE  MappedOpen'
  BY <1>2 DEF mapVars
<1>3. ASSUME NEW u \in Updaters, AddEpoch(u) \/ AddNew(u) PROVE MappedOpen'
  <2>1. \A v \in Updaters : wpc[v] # "displaced"
    BY <1>3, OneWriter, ZenonT(60) DEF AddEpoch, AddNew
  <2>2. job[u].arg \notin closed
    BY <1>3, ZenonT(60) DEF AddEpoch, AddNew, FreshInv, Installing
  <2>3. \A e \in EpochNums : epochs'[e] \in {epochs[e], job[u].arg}
    BY <1>3, ZenonT(60) DEF AddEpoch, AddNew
  <2>4. UNCHANGED <<closed, shut>>
    BY <1>3, ZenonT(60) DEF AddEpoch, AddNew
  <2> QED
    BY <2>1, <2>2, <2>3, <2>4, ZenonT(60)
<1>4. ASSUME NEW u \in Updaters, NEW e \in EpochNums, CloseDisplaced(u, e) PROVE MappedOpen'
  <2>1. \A v \in Updaters : wpc[v] # "displaced"
    BY <1>4, OneWriter, ZenonT(60) DEF CloseDisplaced
  <2>2. wpc'[u] = "displaced" /\ job'[u].epoch = e
    BY <1>4, ZenonT(60) DEF CloseDisplaced
  <2>3. \A f \in EpochNums : epochs[f] # NoHandle /\ epochs[f] = epochs[e] => f = e
    BY ZenonT(60) DEF KeyInv
  <2> QED
    BY <1>4, <2>1, <2>2, <2>3, ZenonT(60) DEF CloseDisplaced
<1>5. ASSUME NEW u \in Updaters, UpdateMap(u) PROVE MappedOpen'
  <2>1. \A v \in Updaters : wpc[v] = "displaced" => v = u
    BY <1>5, OneWriter, ZenonT(60) DEF UpdateMap
  <2>2. job[u].op = "ReplaceOrAdd" => job[u].arg \notin closed
    BY ZenonT(60) DEF FreshInv, Installing
  <2>3. job[u].op \in {"ReplaceOrAdd", "Remove"} /\ job[u].epoch \in EpochNums
    BY <1>5 DEF UpdateMap, DisplaceInv
  <2> QED
    BY <1>5, <2>1, <2>2, <2>3, ZenonT(60) DEF UpdateMap
<1>6. ASSUME NEW u \in Updaters, Close(u) PROVE MappedOpen'
  BY <1>6 DEF Close
<1>7. ASSUME NEW u \in Updaters, UpdaterStep(u) PROVE MappedOpen'
  <2>1. CASE Announce(u) \/ Acquire(u) \/ RemoveNothing(u)
    <3>1. UNCHANGED mapVars /\ wpc[u] # "displaced"
      BY <2>1, ZenonT(60) DEF Announce, Acquire, RemoveNothing, mapVars
    <3>2. \A v \in Updaters \ {u} : wpc'[v] = wpc[v] /\ job'[v] = job[v]
      BY <2>1 DEF Announce, Acquire, RemoveNothing, Unlock
    <3> QED
      BY <1>2, <3>1, <3>2, ZenonT(60)
  <2> QED
    BY <1>3, <1>4, <1>5, <1>6, <1>7, <2>1, ZenonT(60) DEF UpdaterStep
<1>8. ASSUME NEW u \in Updaters, NEW op, NEW x, Begin(u, op, x) PROVE MappedOpen'
  BY <1>2, <1>8 DEF Begin
<1>9. ASSUME NEW p \in Requests,
             RequestStep(p) \/ \E op \in Ops, e \in EpochNums : Ask(p, op, e)
      PROVE  MappedOpen'
  BY <1>1, <1>9, ZenonT(60) DEF RequestStep, Ask, GetEpoch, OuterRLock, GetEpochNumbers, ReadNumber, Answer,
                    writeVars
<1> QED
  BY <1>1, <1>7, <1>8, <1>9, ZenonT(60) DEF Next, CallInstall, CallRemove, CallClose, vars, writeVars

\* Until shutdown a handle that the map gives out is open, except to the holder
\* of the write lock that is displacing it: the close and the map update of
\* ReplaceOrAddEpoch and RemoveEpochByConfigFilepath are seen as one step.
THEOREM MappedStaysOpen == Spec => []MappedOpen
<1>1. Init => OpenInv
  BY InitInv DEF OpenInv, Init, KeyInv, MappedOpen, Available
<1>2. OpenInv /\ [Next]_vars => OpenInv'
  BY TypeStep, LockStep, ReadStep, FreshStep, DisplaceStep, KeyStep, OpenStep DEF OpenInv, Inv
<1>3. OpenInv => MappedOpen
  BY DEF OpenInv
<1> QED
  BY <1>1, <1>2, <1>3, PTL DEF Spec
-----------------------------------------------------------------------------
\* An updater that has begun knows what to do.
JobInv == \A u \in Updaters : wpc[u] # "idle" => job[u].op # "none"

LEMMA JobStep == Inv /\ JobInv /\ [Next]_vars => JobInv'
<1> SUFFICES ASSUME Inv, JobInv, [Next]_vars PROVE JobInv'
  OBVIOUS
<1> USE DEF Inv, TypeOK, JobInv
<1>1. CASE UNCHANGED <<wpc, job>>
  BY <1>1, ZenonT(60)
<1>2. ASSUME NEW u \in Updaters, NEW op \in {"Add", "ReplaceOrAdd", "Remove", "Close"}, NEW x,
             Begin(u, op, x)
      PROVE  JobInv'
  BY <1>2 DEF Begin, NoJob
<1>3. ASSUME NEW u \in Updaters, Announce(u) \/ Acquire(u) PROVE JobInv'
  BY <1>3, ZenonT(60) DEF Announce, Acquire
<1>4. ASSUME NEW u \in Updaters, Unlock(u) PROVE JobInv'
  BY <1>4 DEF Unlock
<1>5. ASSUME NEW u \in Updaters, NEW e \in EpochNums, CloseDisplaced(u, e) PROVE JobInv'
  BY <1>5, ZenonT(60) DEF CloseDisplaced
<1> QED
  BY ZenonT(60), <1>1, <1>2, <1>3, <1>4, <1>5
  DEF Next, RequestStep, UpdaterStep, vars, writeVars, Ask, GetEpoch, OuterRLock, GetEpochNumbers,
      ReadNumber, Answer, CallInstall, CallRemove, CallClose, AddEpoch, UpdateMap, AddNew,
      RemoveNothing, Close

\* Without a writer everyone can go on; a writer can, or waits for a reader
\* that can, or for one that waits for its second read lock.
LEMMA OnlyNestedBlocks == Inv /\ JobInv => StuckOnlyNested
<1> SUFFICES ASSUME Inv, JobInv,
                    (\E p \in Requests : rpc[p] # "idle") \/ (\E u \in Updaters : wpc[u] # "idle")
             PROVE  \/ \E p \in Requests : RequestCanStep(p)
                    \/ \E u \in Updaters : UpdaterCanStep(u)
                    \/ NestedDeadlock
  BY DEF StuckOnlyNested
<1> USE DEF Inv, TypeOK
<1>1. CASE writer = NoUpdater
  <2>1. ASSUME NEW p \in Requests, rpc[p] # "idle" PROVE RequestCanStep(p)
    BY <1>1, <2>1 DEF RequestCanStep, CanRLock
  <2>2. ASSUME NEW u \in Updaters, wpc[u] # "idle" PROVE UpdaterCanStep(u)
    <3>1. wpc[u] \notin {"announced", "critical", "displaced"}
      BY <1>1, NoUpdaterAssumption, ZenonT(60) DEF LockInv
    <3> QED
      BY <1>1, <2>2, <3>1 DEF UpdaterCanStep
  <2> QED
    BY <2>1, <2>2
<1>2. CASE writer \in Updaters
  <2>1. wpc[writer] \in {"announced", "critical", "displaced"}
    BY <1>2 DEF LockInv
  <2>2. CASE wpc[writer] = "displaced"
    BY <1>2, <2>2, ZenonT(60) DEF UpdaterCanStep
  <2>3. CASE wpc[writer] = "critical"
    <3>1. job[writer].op \in {"Add", "ReplaceOrAdd", "Remove", "Close"}
      BY <1>2, <2>3, ZenonT(60) DEF JobInv, Jobs
    <3> QED
      BY <1>2, <2>3, <3>1 DEF UpdaterCanStep
  <2>4. CASE wpc[writer] = "announced" /\ \A p \in Requests : rlocks[p] = 0
    BY <1>2, <2>4 DEF UpdaterCanStep
  <2>5. ASSUME wpc[writer] = "announced", NEW p \in Requests, rlocks[p] # 0
        PROVE  RequestCanStep(p) \/ NestedDeadlock
    <3>1. rpc[p] \in {"inner", "numbers", "empty"}
      BY <2>5 DEF LockInv
    <3> QED
      BY <1>2, <2>5, <3>1, ZenonT(60) DEF RequestCanStep, NestedDeadlock
  <2> QED
    BY <2>1, <2>2, <2>3, <2>4, <2>5
<1> QED
  BY <1>1, <1>2

\* All getters and updates under way block on the RWMutex only when a getter
\* waits for its second read lock behind a writer that waits for its first.
THEOREM StuckByNesting == Spec => []StuckOnlyNested
<1>1. Init => JobInv
  BY DEF Init, JobInv
<1>2. Inv /\ JobInv /\ [Next]_vars => JobInv'
  BY JobStep
<1>3. Inv /\ JobInv => StuckOnlyNested
  BY OnlyNestedBlocks
<1> QED
  BY <1>1, <1>2, <1>3, RegistryInvariant, PTL DEF Spec
=============================================================================
