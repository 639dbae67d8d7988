----------------------------- MODULE WalksProofs ----------------------------
(***************************************************************************)
(* Proofs about the walks of module Walks, for every CAR file, queue and    *)
(* pool: the accumulator hands the groups over in order, returns only when  *)
(* every group it read was flushed, and never after an ErrStop; `index      *)
(* sig-exists` seals its index with every signature.                        *)
(***************************************************************************)
EXTENDS Walks, TLAPS

\* A leaf that names no prover is tried with SMT, with Zenon, and again with SMT;
\* the numbers are seconds.
USE SMTT(60), ZenonT(60), SMTT(90)

-----------------------------------------------------------------------------
(* The accumulator.                                                         *)

Groups == [first : Int, last : Int, parent : BOOLEAN, at : Int]

AccTypeOK ==
    /\ car \in AccumulatorCars /\ skip \in SkipNodes
    /\ pos \in 1..Len(car.kind) + 1 /\ first \in 1..pos
    /\ offset \in Int
    /\ main \in {"start", "run", "send", "last", "wait", "returned", "crashed"}
    /\ result \in {"none", "ok", "error", "cancelled"}
    /\ queue \in Seq(Groups) /\ current \in Groups /\ delivered \in Seq(Groups)
    /\ wg \in Int
    /\ flusher \in {"idle", "busy", "gone"}
    /\ cancelled \in BOOLEAN /\ stopped \in BOOLEAN

\* Run may send more groups.
Sending == main \in {"start", "run", "send"}

\* What Run has read: no object to flush on is left among those it holds back.
Reads ==
    /\ main \in {"run", "send", "last"} => offset = car.start[pos]
    /\ main = "start" => pos = 1
    /\ \A o \in first..(pos - 1) : o <= skip \/ car.kind[o] # FlushOnKind
    /\ result = "ok" => ~Sending /\ first = Len(car.kind) + 1

\* The wait group counts the groups in the queue and in the flusher's hands,
\* and the one that ErrStop came for, which nobody counts down.
AccCounts ==
    /\ wg = Len(queue) + (IF flusher = "busy" THEN 1 ELSE 0) + (IF stopped THEN 1 ELSE 0)
    /\ stopped => flusher = "gone"
    /\ main = "returned" => wg = 0

\* A group ends with an object to flush on, or with the file.
Good(c, k, g) ==
    /\ 1 <= g.first /\ g.last <= Len(c.kind)
    /\ \A o \in g.first..g.last : o <= k \/ c.kind[o] # FlushOnKind \/ (g.parent /\ o = g.last)
    /\ g.parent => /\ g.first <= g.last /\ g.last > k
                   /\ c.kind[g.last] = FlushOnKind /\ g.at = c.start[g.last]
    /\ ~g.parent => g.last = Len(c.kind)

\* The groups of the queue follow one another, and Run goes on behind them.
Queued ==
    /\ \A i \in DOMAIN queue : Good(car, skip, queue[i])
    /\ \A i \in DOMAIN queue : i < Len(queue) => queue[i].parent /\ queue[i + 1].first = queue[i].last + 1
    /\ queue # <<>> => queue[Len(queue)].last + 1 = first
    /\ queue # <<>> /\ Sending => queue[Len(queue)].parent

AfterCurrent == IF queue # <<>> THEN queue[1].first ELSE first

InHand ==
    flusher = "busy" =>
        /\ Good(car, skip, current)
        /\ current.last + 1 = AfterCurrent
        /\ ~current.parent => queue = <<>> /\ ~Sending

\* The first object that was not flushed yet.
NextFirst == IF flusher = "busy" THEN current.first ELSE AfterCurrent

AfterDelivered == IF delivered = <<>> THEN 1 ELSE delivered[Len(delivered)].last + 1

Delivered ==
    /\ \A i \in DOMAIN delivered : Good(car, skip, delivered[i])
    /\ \A i \in DOMAIN delivered : delivered[i].first = IF i = 1 THEN 1 ELSE delivered[i - 1].last + 1
    /\ \A i \in DOMAIN delivered : ~delivered[i].parent =>
           i = Len(delivered) /\ queue = <<>> /\ flusher # "busy" /\ ~Sending
    /\ Sending \/ flusher = "busy" \/ queue # <<>> => NextFirst = AfterDelivered

\* What lies before the first object that was not flushed was in a callback,
\* unless it is skipped or ignored.
Covered ==
    \A o \in A!Wanted : o < NextFirst =>
        \E i \in DOMAIN delivered : o \in delivered[i].first..delivered[i].last

\* A step that sends and flushes nothing.
Quiet ==
    /\ UNCHANGED <<car, skip, first, queue, wg, flusher, current, delivered, stopped>>
    /\ Sending' => Sending

AccInv == AccTypeOK /\ Reads /\ AccCounts /\ Queued /\ InHand /\ Delivered /\ Covered
-----------------------------------------------------------------------------
\* The file is one of Cars: it has a number of objects, and each a start.
LEMMA CarFacts ==
    ASSUME A!CarsOk, car \in AccumulatorCars, skip \in SkipNodes
    PROVE  /\ Len(car.kind) \in Nat
           /\ car.kind \in Seq(Kinds)
           /\ car.start \in [1..Len(car.kind) + 1 -> Nat]
           /\ skip \in Nat
BY DEF A!CarsOk

LEMMA GroupType ==
    ASSUME NEW f \in Int, NEW l \in Int, NEW p \in BOOLEAN, NEW a \in Int
    PROVE  /\ A!Group(f, l, p, a) \in Groups
           /\ A!Group(f, l, p, a).first = f
           /\ A!Group(f, l, p, a).last = l
           /\ A!Group(f, l, p, a).parent = p
           /\ A!Group(f, l, p, a).at = a
BY DEF A!Group, Groups

LEMMA NoGroupType == A!NoGroup \in Groups
BY GroupType, 0 \in Int, FALSE \in BOOLEAN, ZenonT(60) DEF A!NoGroup

LEMMA Concatenated ==
    ASSUME NEW S, NEW p \in Seq(S), NEW q \in Seq(S)
    PROVE  /\ p \o q \in Seq(S)
           /\ Len(p \o q) = Len(p) + Len(q)
           /\ \A i \in 1..Len(p) + Len(q) : (p \o q)[i] = IF i <= Len(p) THEN p[i] ELSE q[i - Len(p)]
OBVIOUS

LEMMA Appends ==
    ASSUME NEW S, NEW q \in Seq(S), NEW e \in S
    PROVE  Append(q, e) \in Seq(S)
OBVIOUS

\* The invariant holds at first: nothing was read, sent or flushed.
LEMMA AccInitInv ==
    ASSUME A!CarsOk, A!Init
    PROVE  AccInv
<1>0. /\ Len(car.kind) \in Nat
      /\ car.start \in [1..Len(car.kind) + 1 -> Nat]
      /\ skip \in Nat
  BY CarFacts DEF A!Init
<1>a. A!NoGroup \in Groups
  BY NoGroupType
<1>1. AccTypeOK
  <2>1. queue \in Seq(Groups) /\ delivered \in Seq(Groups)
    BY DEF A!Init
  <2>2. cancelled \in BOOLEAN /\ stopped \in BOOLEAN
    BY ZenonT(60) DEF A!Init
  <2> QED
    BY <1>0, <1>a, <2>1, <2>2 DEF A!Init, AccTypeOK
<1>2. Reads /\ AccCounts
  BY <1>0 DEF A!Init, Reads, AccCounts, Sending
<1>3. Queued /\ InHand /\ Delivered
  BY <1>0 DEF A!Init, Queued, InHand, Delivered, NextFirst, AfterCurrent, AfterDelivered
<1>4. Covered
  BY <1>0 DEF A!Init, Covered, NextFirst, AfterCurrent, A!Wanted, A!Objects
<1> QED
  BY <1>1, <1>2, <1>3, <1>4 DEF AccInv

\* No step changes the file or the number of objects to skip.
LEMMA AccFrame ==
    ASSUME [A!Next]_(A!vars)
    PROVE  car' = car /\ skip' = skip
BY ZenonT(60) DEF A!Next, A!Run, A!StartFlusher, A!HeaderSize, A!Collect, A!Parent, A!EndOfFile, A!Sent, A!ReadError, A!ShortData, A!CtxErr,
       A!Return, A!Receive, A!FlusherLeaves, A!FlushOk, A!FlushStop, A!FlushPanic, A!Cancel, A!vars

\* The steps that touch the queue or the flusher, and the others.
LEMMA AccSteps ==
    ASSUME [A!Next]_(A!vars)
    PROVE  Quiet \/ A!Parent \/ A!EndOfFile \/ A!Receive \/ A!FlusherLeaves \/ A!FlushOk \/ A!FlushStop
<1>1. CASE A!HeaderSize
  BY <1>1 DEF A!HeaderSize, Quiet, Sending, A!flushing
<1>2. CASE A!Collect
  BY <1>2 DEF A!Collect, Quiet, Sending, A!flushing
<1>3. CASE A!Sent
  BY <1>3 DEF A!Sent, Quiet, Sending, A!reading, A!flushing
<1>4. CASE A!ReadError \/ A!ShortData \/ A!CtxErr \/ A!Return
  BY <1>4 DEF A!ReadError, A!ShortData, A!CtxErr, A!Return, Quiet, Sending, A!reading, A!flushing
<1>5. CASE A!FlushPanic \/ A!Cancel
  BY <1>5 DEF A!FlushPanic, A!Cancel, Quiet, Sending, A!reading, A!flushing
<1>6. CASE UNCHANGED A!vars
  BY <1>6 DEF A!vars, Quiet, Sending
<1> QED
  BY <1>1, <1>2, <1>3, <1>4, <1>5, <1>6 DEF A!Next, A!Run, A!StartFlusher

\* What a flush adds to the callbacks.
LEMMA FlushDelivers ==
    ASSUME A!FlushOk \/ A!FlushStop
    PROVE  \/ A!NothingToFlush(current) /\ delivered' = delivered
           \/ ~A!NothingToFlush(current) /\ delivered' = Append(delivered, current)
<1>1. CASE A!NothingToFlush(current)
  BY <1>1, ZenonT(60) DEF A!FlushOk, A!FlushStop
<1>2. CASE ~A!NothingToFlush(current)
  BY <1>2, ZenonT(60) DEF A!FlushOk, A!FlushStop
<1> QED
  BY <1>1, <1>2

\* The types are kept: a group has numbers for its ends, and the place in the
\* file never passes its end.
LEMMA AccTypeStep ==
    ASSUME A!CarsOk, AccTypeOK, [A!Next]_(A!vars)
    PROVE  AccTypeOK'
<1>0. /\ Len(car.kind) \in Nat
      /\ car.start \in [1..Len(car.kind) + 1 -> Nat]
  BY CarFacts DEF AccTypeOK
<1>a. pos \in Nat /\ first \in 1..pos /\ offset \in Int
  BY <1>0 DEF AccTypeOK
<1>b. car.start[1] \in Int
  BY <1>0
<1>c. A!NextNodeBytes => offset' \in Int /\ pos' = pos + 1 /\ pos' \in 1..Len(car.kind) + 1
  BY <1>0, <1>a DEF A!NextNodeBytes
<1>d. A!HeaderSize => offset' \in Int
  BY <1>a, <1>b DEF A!HeaderSize
<1> USE <1>0 DEF AccTypeOK, A!reading, A!flushing
<1>1. CASE A!HeaderSize
  <2>1. offset' \in Int
    BY <1>1, <1>d
  <2>2. main' \in {"run", "wait"} /\ result' \in {result, "error"}
    BY <1>1, ZenonT(60) DEF A!HeaderSize
  <2>3. UNCHANGED <<car, skip, pos, first, queue, wg, flusher, current, delivered, stopped, cancelled>>
    BY <1>1 DEF A!HeaderSize
  <2> QED
    BY <2>1, <2>2, <2>3
<1>2. CASE A!Collect
  <2>1. offset' \in Int /\ pos' \in 1..Len(car.kind) + 1 /\ first' \in 1..pos'
    BY <1>2, <1>a, <1>c DEF A!Collect
  <2> QED
    BY <1>2, <2>1 DEF A!Collect
<1>3. CASE A!Parent
  <2> DEFINE g == A!Group(first, pos, TRUE, offset)
  <2>1. g \in Groups
    BY GroupType, first \in Int, pos \in Int, offset \in Int, TRUE \in BOOLEAN, ZenonT(60)
  <2>2. offset' \in Int /\ pos' \in 1..Len(car.kind) + 1 /\ first' \in 1..pos'
    BY <1>3, <1>a, <1>c DEF A!Parent
  <2>3. queue' \in Seq(Groups) /\ wg' \in Int
    <3>1. queue' = Append(queue, g) /\ wg' = wg + 1
      BY <1>3, ZenonT(60) DEF A!Parent, A!SendToFlusher
    <3> HIDE DEF g
    <3> QED
      BY <2>1, <3>1
  <2>4. main' = "send" /\ UNCHANGED <<car, skip, result, flusher, current, delivered, stopped, cancelled>>
    BY <1>3 DEF A!Parent, A!SendToFlusher
  <2> QED
    BY <2>2, <2>3, <2>4
<1>4. CASE A!EndOfFile
  <2> DEFINE g == A!Group(first, pos - 1, FALSE, offset)
  <2>1. g \in Groups
    BY GroupType, first \in Int, pos - 1 \in Int, offset \in Int, FALSE \in BOOLEAN, ZenonT(60)
  <2>2. queue' \in Seq(Groups) /\ wg' \in Int
    <3>1. queue' = Append(queue, g) /\ wg' = wg + 1
      BY <1>4, ZenonT(60) DEF A!EndOfFile, A!SendToFlusher
    <3> HIDE DEF g
    <3> QED
      BY <2>1, <3>1
  <2>3. /\ main' = "last" /\ result' = "ok" /\ first' = pos
        /\ UNCHANGED <<car, skip, pos, offset, flusher, current, delivered, stopped, cancelled>>
    BY <1>4 DEF A!EndOfFile, A!SendToFlusher
  <2> QED
    BY <2>2, <2>3
<1>5. CASE A!Sent
  BY <1>5 DEF A!Sent
<1>6. CASE A!ReadError \/ A!ShortData \/ A!CtxErr \/ A!Return
  BY <1>6, ZenonT(60) DEF A!ReadError, A!ShortData, A!CtxErr, A!Return
<1>7. CASE A!Receive
  <2>1. current' \in Groups /\ queue' \in Seq(Groups)
    BY <1>7 DEF A!Receive
  <2> QED
    BY <1>7, <2>1 DEF A!Receive
<1>8. CASE A!FlusherLeaves
  BY <1>8 DEF A!FlusherLeaves
<1>9. CASE A!FlushOk \/ A!FlushStop
  <2>1. A!NoGroup \in Groups
    BY NoGroupType
  <2>2. delivered' \in Seq(Groups)
    <3>1. delivered' = delivered \/ delivered' = Append(delivered, current)
      BY <1>9, FlushDelivers
    <3>2. delivered \in Seq(Groups) /\ current \in Groups
      OBVIOUS
    <3> HIDE DEF AccTypeOK
    <3> QED
      BY <3>1, <3>2, Appends
  <2>3. wg' \in Int
    BY <1>9 DEF A!FlushOk, A!FlushStop
  <2>4. stopped' \in BOOLEAN
    BY <1>9, ZenonT(60) DEF A!FlushOk, A!FlushStop
  <2>5. UNCHANGED <<car, skip, pos, offset, first, main, result, queue, cancelled>>
    BY <1>9 DEF A!FlushOk, A!FlushStop
  <2> QED
    BY <1>9, <2>1, <2>2, <2>3, <2>4, <2>5 DEF A!FlushOk, A!FlushStop
<1>10. CASE A!FlushPanic
  BY <1>10 DEF A!FlushPanic
<1>11. CASE A!Cancel
  BY <1>11 DEF A!Cancel
<1>12. CASE UNCHANGED A!vars
  BY <1>12, ZenonT(60) DEF A!vars
<1> QED
  BY <1>1, <1>2, <1>3, <1>4, <1>5, <1>6, <1>7, <1>8, <1>9, <1>10, <1>11, <1>12
     DEF A!Next, A!Run, A!StartFlusher

\* Reads is kept: what is held back is what was collected since the last object
\* to flush on.
LEMMA ReadsStep ==
    ASSUME A!CarsOk, AccTypeOK, Reads, [A!Next]_(A!vars)
    PROVE  Reads'
<1>0. /\ Len(car.kind) \in Nat
      /\ car.start \in [1..Len(car.kind) + 1 -> Nat]
      /\ pos \in 1..Len(car.kind) + 1 /\ first \in 1..pos /\ offset \in Int
  BY CarFacts DEF AccTypeOK
<1>a. A!NextNodeBytes /\ offset = car.start[pos] => offset' = car.start[pos']
  <2> SUFFICES ASSUME A!NextNodeBytes, offset = car.start[pos]
               PROVE  offset' = car.start[pos']
    OBVIOUS
  <2>0. pos \in 1..Len(car.kind) + 1 /\ pos + 1 \in 1..Len(car.kind) + 1
    BY <1>0 DEF A!NextNodeBytes
  <2>1. car.start[pos] \in Int /\ car.start[pos + 1] \in Int
    BY <1>0, <2>0
  <2>2. pos' = pos + 1 /\ offset' = car.start[pos] + (car.start[pos + 1] - car.start[pos])
    BY DEF A!NextNodeBytes
  <2> QED
    BY <2>1, <2>2
<1> USE <1>0 DEF Reads, Sending, A!reading, A!flushing
<1>1. CASE A!HeaderSize
  BY <1>1 DEF A!HeaderSize
<1>2. CASE A!Collect
  <2>1. offset' = car.start[pos']
    BY <1>2, <1>a DEF A!Collect, A!NextNodeBytes
  <2>2. \A o \in first'..(pos' - 1) : o <= skip \/ car.kind[o] # FlushOnKind
    BY <1>2 DEF A!Collect, A!NextNodeBytes
  <2> QED
    BY <1>2, <2>1, <2>2 DEF A!Collect, A!NextNodeBytes
<1>3. CASE A!Parent
  <2>1. offset' = car.start[pos']
    BY <1>3, <1>a DEF A!Parent, A!NextNodeBytes
  <2>2. first' = pos' /\ pos' \in Nat
    BY <1>3 DEF A!Parent, A!NextNodeBytes
  <2>3. result' # "ok"
    BY <1>3 DEF A!Parent, A!NextNodeBytes
  <2>4. main' = "send"
    BY <1>3 DEF A!Parent, A!SendToFlusher
  <2>5. \A o \in first'..(pos' - 1) : (o <= skip \/ car.kind[o] # FlushOnKind)'
    BY <2>2
  <2>6. car' = car
    BY <1>3 DEF A!Parent
  <2> QED
    BY <2>1, <2>3, <2>4, <2>5, <2>6
<1>4. CASE A!EndOfFile
  BY <1>4 DEF A!EndOfFile, A!SendToFlusher
<1>5. CASE A!Sent
  BY <1>5 DEF A!Sent
<1>6. CASE A!ReadError \/ A!ShortData \/ A!CtxErr \/ A!Return
  BY <1>6 DEF A!ReadError, A!ShortData, A!CtxErr, A!Return
<1>7. CASE A!Receive \/ A!FlusherLeaves
  BY <1>7 DEF A!Receive, A!FlusherLeaves
<1>8. CASE A!FlushOk \/ A!FlushStop
  BY <1>8 DEF A!FlushOk, A!FlushStop
<1>9. CASE A!FlushPanic \/ A!Cancel
  BY <1>9 DEF A!FlushPanic, A!Cancel
<1>10. CASE UNCHANGED A!vars
  BY <1>10 DEF A!vars
<1> QED
  BY <1>1, <1>2, <1>3, <1>4, <1>5, <1>6, <1>7, <1>8, <1>9, <1>10 DEF A!Next, A!Run, A!StartFlusher

\* sendToFlusher appends a group that starts where Run had got to.
LEMMA Sends ==
    ASSUME A!CarsOk, AccTypeOK, Reads, A!Parent \/ A!EndOfFile
    PROVE  /\ \E g \in Groups : /\ queue' = Append(queue, g)
                                /\ Good(car, skip, g)
                                /\ g.first = first /\ g.last + 1 = first'
                                /\ Sending' => g.parent
           /\ wg' = wg + 1 /\ main' # "returned" /\ Sending
           /\ UNCHANGED <<car, skip, flusher, current, delivered, stopped>>
<1>0. /\ Len(car.kind) \in Nat
      /\ car.start \in [1..Len(car.kind) + 1 -> Nat]
      /\ skip \in Nat
      /\ pos \in 1..Len(car.kind) + 1 /\ first \in 1..pos /\ offset \in Int
  BY CarFacts DEF AccTypeOK
<1>1. CASE A!Parent
  <2> DEFINE g == A!Group(first, pos, TRUE, offset)
  <2>1. /\ g \in Groups /\ g.first = first /\ g.last = pos /\ g.parent = TRUE /\ g.at = offset
    BY <1>0 DEF A!Group, Groups
  <2>2. queue' = Append(queue, g) /\ wg' = wg + 1 /\ main' = "send" /\ first' = pos + 1
    BY <1>1, ZenonT(60) DEF A!Parent, A!SendToFlusher
  <2>3. /\ UNCHANGED <<car, skip, flusher, current, delivered, stopped>>
        /\ main = "run" /\ pos <= Len(car.kind) /\ pos > skip /\ car.kind[pos] = FlushOnKind
    BY <1>1 DEF A!Parent, A!NextNodeBytes, A!flushing
  <2> HIDE DEF g
  <2>4. Good(car, skip, g)
    BY <1>0, <2>1, <2>3 DEF Good, Reads
  <2>5. g.first = first /\ g.last + 1 = first' /\ g.parent
    BY <2>1, <2>2
  <2> QED
    BY <2>1, <2>2, <2>3, <2>4, <2>5 DEF Sending
<1>2. CASE A!EndOfFile
  <2> DEFINE g == A!Group(first, pos - 1, FALSE, offset)
  <2>1. /\ g \in Groups /\ g.first = first /\ g.last = pos - 1 /\ g.parent = FALSE
    BY <1>0 DEF A!Group, Groups
  <2>2. queue' = Append(queue, g) /\ wg' = wg + 1 /\ main' = "last" /\ first' = pos
    BY <1>2, ZenonT(60) DEF A!EndOfFile, A!SendToFlusher
  <2>3. /\ UNCHANGED <<car, skip, flusher, current, delivered, stopped>>
        /\ main = "run" /\ pos = Len(car.kind) + 1
    BY <1>2 DEF A!EndOfFile, A!flushing
  <2> HIDE DEF g
  <2>4. Good(car, skip, g)
    BY <1>0, <2>1, <2>3 DEF Good, Reads
  <2>5. g.first = first /\ g.last + 1 = first'
    BY <1>0, <2>1, <2>2
  <2>6. ~Sending'
    BY <2>2 DEF Sending
  <2> QED
    BY <2>1, <2>2, <2>3, <2>4, <2>5, <2>6 DEF Sending
<1> QED
  BY <1>1, <1>2

\* The wait group goes up with the queue and down with the flusher, except on
\* ErrStop; once Run has returned there is nothing left to receive.
LEMMA AccCountsStep ==
    ASSUME A!CarsOk, AccTypeOK, Reads, AccCounts, [A!Next]_(A!vars)
    PROVE  AccCounts'
<1>0. Len(queue) \in Nat /\ wg \in Int
  BY DEF AccTypeOK
<1>1. CASE A!Parent \/ A!EndOfFile
  <2>1. PICK g \in Groups : queue' = Append(queue, g)
    BY <1>1, Sends
  <2>2. Len(queue') = Len(queue) + 1
    BY <2>1 DEF AccTypeOK
  <2>3. wg' = wg + 1 /\ main' # "returned" /\ UNCHANGED <<flusher, stopped>>
    BY <1>1, Sends
  <2> DEFINE busy == IF flusher = "busy" THEN 1 ELSE 0
  <2> DEFINE lost == IF stopped THEN 1 ELSE 0
  <2>4. busy \in Int /\ lost \in Int
    OBVIOUS
  <2>5. busy' = busy /\ lost' = lost
    BY <2>3, ZenonT(60)
  <2>6. wg = Len(queue) + busy + lost
    BY ZenonT(60) DEF AccCounts
  <2>7. (stopped => flusher = "gone")'
    BY <2>3, ZenonT(60) DEF AccCounts
  <2>8. SUFFICES wg' = Len(queue') + busy' + lost'
    BY <2>3, <2>7, ZenonT(60) DEF AccCounts
  <2> HIDE DEF busy, lost
  <2> QED
    BY <1>0, <2>2, <2>3, <2>4, <2>5, <2>6
<1>2. CASE A!Receive
  <2>1. Len(queue') = Len(queue) - 1 /\ Len(queue) > 0
    BY <1>2 DEF A!Receive, AccTypeOK
  <2>2. UNCHANGED <<wg, main, stopped>> /\ flusher = "idle" /\ flusher' = "busy"
    BY <1>2 DEF A!Receive
  <2>3. ~stopped
    BY <2>2 DEF AccCounts
  <2> QED
    BY <1>0, <2>1, <2>2, <2>3 DEF AccCounts
<1>3. CASE A!FlusherLeaves
  BY <1>0, <1>3 DEF A!FlusherLeaves, AccCounts
<1>4. CASE A!FlushOk
  BY <1>0, <1>4 DEF A!FlushOk, AccCounts
<1>5. CASE A!FlushStop
  BY <1>0, <1>5 DEF A!FlushStop, AccCounts
<1>6. CASE A!Return
  BY <1>0, <1>6, ZenonT(60) DEF A!Return, AccCounts, A!flushing
<1>7. CASE Quiet /\ ~A!Return
  <2>1. main' = "returned" => main = "returned"
    BY <1>7 DEF A!Next, A!Run, A!StartFlusher, A!HeaderSize, A!Collect, A!Parent, A!EndOfFile, A!SendToFlusher, A!Sent,
       A!ReadError, A!ShortData, A!CtxErr, A!Receive, A!FlusherLeaves, A!FlushOk, A!FlushStop, A!FlushPanic, A!Cancel, A!vars
  <2> QED
    BY <1>0, <1>7, <2>1, ZenonT(60) DEF Quiet, AccCounts
<1> QED
  BY <1>1, <1>2, <1>3, <1>4, <1>5, <1>6, <1>7, AccSteps

\* The queue stays a chain: a group is appended where the last one ended, and
\* the first one is taken.
LEMMA QueuedStep ==
    ASSUME A!CarsOk, AccTypeOK, Reads, Queued, [A!Next]_(A!vars)
    PROVE  Queued'
<1>0. queue \in Seq(Groups) /\ Len(queue) \in Nat
  BY DEF AccTypeOK
<1>f. car' = car /\ skip' = skip
  BY AccFrame, ZenonT(60)
<1>1. CASE A!Parent \/ A!EndOfFile
  <2>1. PICK g \in Groups : /\ queue' = Append(queue, g)
                            /\ Good(car, skip, g)
                            /\ g.first = first /\ g.last + 1 = first'
                            /\ Sending' => g.parent
    BY <1>1, Sends
  <2>2. Sending
    BY <1>1, Sends
  <2>3. /\ Len(queue') = Len(queue) + 1 /\ queue' # <<>>
        /\ queue'[Len(queue) + 1] = g
        /\ \A i \in 1..Len(queue) : queue'[i] = queue[i]
    BY <1>0, <2>1
  <2>4. \A i \in DOMAIN queue' : Good(car, skip, queue'[i])
    BY <1>0, <2>1, <2>3 DEF Queued
  <2>5. \A i \in DOMAIN queue' : i < Len(queue') =>
            queue'[i].parent /\ queue'[i + 1].first = queue'[i].last + 1
    <3>1. SUFFICES ASSUME NEW i \in 1..Len(queue)
                   PROVE  queue[i].parent /\ queue'[i + 1].first = queue[i].last + 1
      BY <1>0, <2>1, <2>3
    <3>2. CASE i < Len(queue)
      BY <1>0, <2>3, <3>2 DEF Queued
    <3>3. CASE i = Len(queue)
      BY <1>0, <2>1, <2>2, <2>3, <3>3 DEF Queued
    <3> QED
      BY <1>0, <3>2, <3>3
  <2> QED
    BY <1>f, <2>1, <2>3, <2>4, <2>5 DEF Queued
<1>2. CASE A!Receive
  <2>1. queue # <<>> /\ queue' = Tail(queue) /\ UNCHANGED <<first, main>>
    BY <1>2 DEF A!Receive, A!reading
  <2>2. Len(queue') = Len(queue) - 1 /\ \A i \in 1..Len(queue') : queue'[i] = queue[i + 1]
    BY <1>0, <2>1
  <2>3. \A i \in DOMAIN queue' : Good(car, skip, queue'[i])
    BY <1>0, <2>1, <2>2 DEF Queued
  <2>4. \A i \in DOMAIN queue' : i < Len(queue') =>
            queue'[i].parent /\ queue'[i + 1].first = queue'[i].last + 1
    BY <1>0, <2>1, <2>2 DEF Queued
  <2>5. queue' # <<>> => queue'[Len(queue')] = queue[Len(queue)]
    BY <1>0, <2>1, <2>2
  <2> QED
    BY <1>f, <2>1, <2>3, <2>4, <2>5 DEF Queued, Sending
<1>3. CASE A!FlusherLeaves \/ A!FlushOk \/ A!FlushStop
  BY <1>3, ZenonT(60) DEF A!FlusherLeaves, A!FlushOk, A!FlushStop, Queued, Sending, A!reading
<1>4. CASE Quiet
  BY <1>4 DEF Quiet, Queued
<1> QED
  BY <1>1, <1>2, <1>3, <1>4, AccSteps

\* The group in the flusher's hands comes before the queue.
LEMMA InHandStep ==
    ASSUME A!CarsOk, AccTypeOK, Reads, Queued, InHand, [A!Next]_(A!vars)
    PROVE  InHand'
<1>0. queue \in Seq(Groups) /\ Len(queue) \in Nat
  BY DEF AccTypeOK
<1>f. car' = car /\ skip' = skip
  BY AccFrame
<1>1. CASE A!Parent \/ A!EndOfFile
  <2>1. PICK g \in Groups : queue' = Append(queue, g) /\ g.first = first
    BY <1>1, Sends
  <2>2. Sending /\ UNCHANGED <<flusher, current>>
    BY <1>1, Sends
  <2>3. queue' # <<>> /\ queue'[1] = (IF queue = <<>> THEN g ELSE queue[1])
    BY <1>0, <2>1
  <2>4. AfterCurrent' = AfterCurrent
    BY <2>1, <2>3 DEF AfterCurrent
  <2> QED
    BY <1>f, <2>2, <2>4 DEF InHand
<1>2. CASE A!Receive
  <2>1. queue # <<>> /\ queue' = Tail(queue) /\ current' = Head(queue) /\ UNCHANGED <<first, main>>
    BY <1>2 DEF A!Receive, A!reading
  <2>2. current' = queue[1] /\ Len(queue') = Len(queue) - 1 /\ Len(queue) >= 1
    BY <1>0, <2>1
  <2>3. CASE Len(queue) = 1
    <3>1. queue' = <<>>
      BY <1>0, <2>1, <2>3
    <3>2. Good(car, skip, queue[1]) /\ queue[1].last + 1 = first /\ (Sending => queue[1].parent)
      BY <1>0, <2>1, <2>3 DEF Queued
    <3> QED
      BY <1>f, <2>1, <2>2, <3>1, <3>2 DEF InHand, AfterCurrent, Sending
  <2>4. CASE Len(queue) > 1
    <3>1. queue' # <<>>
      <4>1. Len(queue') > 0
        BY <1>0, <2>2, <2>4
      <4> QED
        BY <4>1
    <3>3. queue'[1] = queue[2]
      BY <1>0, <2>1, <2>4
    <3>2. Good(car, skip, queue[1]) /\ queue[1].parent /\ queue[2].first = queue[1].last + 1
      BY <1>0, <2>4 DEF Queued
    <3> QED
      BY <1>f, <2>1, <2>2, <3>1, <3>2, <3>3 DEF InHand, AfterCurrent
  <2> QED
    BY <1>0, <2>2, <2>3, <2>4
<1>3. CASE A!FlusherLeaves \/ A!FlushOk \/ A!FlushStop
  BY <1>3 DEF A!FlusherLeaves, A!FlushOk, A!FlushStop, InHand
<1>4. CASE Quiet
  BY <1>4 DEF Quiet, InHand, AfterCurrent
<1> QED
  BY <1>1, <1>2, <1>3, <1>4, AccSteps

\* The first object that was not flushed moves with a flush only.
LEMMA NextFirstStep ==
    ASSUME A!CarsOk, AccTypeOK, Reads, Queued, InHand, [A!Next]_(A!vars)
    PROVE  IF A!FlushOk \/ A!FlushStop
           THEN NextFirst = current.first /\ NextFirst' = current.last + 1
           ELSE NextFirst' = NextFirst
<1>0. queue \in Seq(Groups) /\ Len(queue) \in Nat
  BY DEF AccTypeOK
<1>1. CASE A!FlushOk \/ A!FlushStop
  BY <1>1 DEF A!FlushOk, A!FlushStop, NextFirst, AfterCurrent, InHand, A!reading
<1>2. CASE A!Parent \/ A!EndOfFile
  <2>1. PICK g \in Groups : queue' = Append(queue, g) /\ g.first = first
    BY <1>2, Sends
  <2>2. UNCHANGED <<flusher, current>>
    BY <1>2, Sends
  <2>3. queue' # <<>> /\ queue'[1] = (IF queue = <<>> THEN g ELSE queue[1])
    BY <1>0, <2>1
  <2>4. ~(A!FlushOk \/ A!FlushStop)
    BY <1>2, ZenonT(60) DEF A!Parent, A!EndOfFile, A!FlushOk, A!FlushStop, A!flushing
  <2> QED
    BY <2>1, <2>2, <2>3, <2>4 DEF NextFirst, AfterCurrent
<1>3. CASE A!Receive
  BY <1>0, <1>3 DEF A!Receive, A!FlushOk, A!FlushStop, NextFirst, AfterCurrent
<1>4. CASE A!FlusherLeaves
  BY <1>4 DEF A!FlusherLeaves, A!FlushOk, A!FlushStop, NextFirst, AfterCurrent, A!reading
<1>5. CASE Quiet
  <2>1. ~(A!FlushOk \/ A!FlushStop)
    BY <1>5 DEF Quiet, A!FlushOk, A!FlushStop
  <2> QED
    BY <1>5, <2>1 DEF Quiet, NextFirst, AfterCurrent
<1> QED
  BY <1>1, <1>2, <1>3, <1>4, <1>5, AccSteps, ZenonT(60)

\* The callbacks follow one another: a flush continues where the one before it
\* ended.  A group without objects is the last one of the file.
LEMMA DeliveredStep ==
    ASSUME A!CarsOk, AccTypeOK, Reads, Queued, InHand, Delivered, [A!Next]_(A!vars)
    PROVE  Delivered'
<1>0. /\ delivered \in Seq(Groups) /\ Len(delivered) \in Nat
      /\ current \in Groups
  BY DEF AccTypeOK
<1>f. car' = car /\ skip' = skip
  BY AccFrame
<1>1. CASE A!FlushOk \/ A!FlushStop
  <2>1. /\ flusher = "busy" /\ flusher' # "busy" /\ UNCHANGED <<queue, main>>
    BY <1>1 DEF A!FlushOk, A!FlushStop
  <2>2. NextFirst = current.first /\ NextFirst' = current.last + 1 /\ current.first = AfterDelivered
    BY <1>1, <2>1, NextFirstStep DEF Delivered
  <2>3. Good(car, skip, current) /\ (~current.parent => queue = <<>> /\ ~Sending)
    BY <2>1 DEF InHand
  <2>4. \A i \in DOMAIN delivered : delivered[i].parent
    BY <2>1, ZenonT(60) DEF Delivered
  <2>5. CASE A!NothingToFlush(current) /\ delivered' = delivered
    <3>1. ~current.parent
      BY <2>5 DEF A!NothingToFlush
    <3>2. queue' = <<>> /\ ~Sending'
      BY <2>1, <2>3, <3>1, ZenonT(60) DEF Sending
    <3> QED
      BY <1>f, <2>1, <2>4, <2>5, <3>2 DEF Delivered
  <2>6. CASE delivered' = Append(delivered, current)
    <3>1. /\ Len(delivered') = Len(delivered) + 1 /\ delivered' # <<>>
          /\ delivered'[Len(delivered) + 1] = current
          /\ \A i \in 1..Len(delivered) : delivered'[i] = delivered[i]
      BY <1>0, <2>6
    <3>2. \A i \in DOMAIN delivered' : Good(car, skip, delivered'[i])
      BY <1>0, <2>3, <2>6, <3>1 DEF Delivered
    <3>3. \A i \in DOMAIN delivered' :
              delivered'[i].first = IF i = 1 THEN 1 ELSE delivered'[i - 1].last + 1
      BY <1>0, <2>2, <2>6, <3>1 DEF Delivered, AfterDelivered
    <3>4. \A i \in DOMAIN delivered' : ~delivered'[i].parent =>
              i = Len(delivered') /\ queue' = <<>> /\ flusher' # "busy" /\ ~Sending'
      <4>1. Sending' = Sending
        BY <2>1 DEF Sending
      <4> QED
        BY <1>0, <2>1, <2>3, <2>4, <2>6, <3>1, <4>1
    <3>5. NextFirst' = AfterDelivered'
      BY <2>2, <3>1, ZenonT(60) DEF AfterDelivered
    <3> QED
      BY <1>f, <3>2, <3>3, <3>4, <3>5 DEF Delivered
  <2> QED
    BY <1>1, <2>5, <2>6, FlushDelivers
<1>2. CASE ~(A!FlushOk \/ A!FlushStop)
  <2>1. NextFirst' = NextFirst
    BY <1>2, NextFirstStep
  <2>2. UNCHANGED delivered /\ AfterDelivered' = AfterDelivered
    BY <1>2, AccSteps, Sends DEF Quiet, A!Receive, A!FlusherLeaves, AfterDelivered
  <2>3. (Sending \/ flusher = "busy" \/ queue # <<>>)' => (Sending \/ flusher = "busy" \/ queue # <<>>)
    <3>1. CASE Quiet
      BY <3>1 DEF Quiet
    <3>2. CASE A!Parent \/ A!EndOfFile
      BY <3>2, Sends
    <3>3. CASE A!Receive
      BY <3>3 DEF A!Receive
    <3>4. CASE A!FlusherLeaves
      BY <3>4 DEF A!FlusherLeaves, Sending
    <3> QED
      BY <1>2, <3>1, <3>2, <3>3, <3>4, AccSteps
  <2> QED
    BY <1>f, <2>1, <2>2, <2>3 DEF Delivered
<1> QED
  BY <1>1, <1>2

\* What a flush moves past was in its callback: a group that is not given to
\* the callback has no object that is wanted.
LEMMA CoveredStep ==
    ASSUME A!CarsOk, AccTypeOK, Reads, Queued, InHand, Covered, [A!Next]_(A!vars)
    PROVE  Covered'
<1>0. /\ delivered \in Seq(Groups) /\ Len(delivered) \in Nat
      /\ current \in Groups /\ current.first \in Int /\ current.last \in Int
      /\ Len(car.kind) \in Nat
  BY CarFacts DEF AccTypeOK, Groups
<1>f. car' = car /\ skip' = skip /\ A!Wanted' = A!Wanted
  BY AccFrame DEF A!Wanted, A!Objects
<1>1. CASE A!FlushOk \/ A!FlushStop
  <2>1. NextFirst = current.first /\ NextFirst' = current.last + 1
    BY <1>1, NextFirstStep
  <2>2. CASE A!NothingToFlush(current) /\ delivered' = delivered
    <3>1. ~current.parent /\ A!Children(current) = {}
      BY <2>2 DEF A!NothingToFlush
    <3>2. \A o \in A!Wanted : o \notin current.first..current.last
      BY <3>1 DEF A!Children, A!Wanted
    <3>3. \A o \in A!Wanted : o < NextFirst' => o < NextFirst
      BY <1>0, <2>1, <3>2 DEF A!Wanted, A!Objects
    <3> QED
      BY <1>f, <2>2, <3>3 DEF Covered
  <2>3. CASE delivered' = Append(delivered, current)
    <3>1. /\ Len(delivered') = Len(delivered) + 1
          /\ delivered'[Len(delivered) + 1] = current
          /\ \A i \in 1..Len(delivered) : delivered'[i] = delivered[i]
          /\ DOMAIN delivered' = 1..Len(delivered) + 1
          /\ DOMAIN delivered = 1..Len(delivered)
      BY <1>0, <2>3
    <3>2. ASSUME NEW o \in A!Wanted, o < NextFirst'
          PROVE  \E i \in DOMAIN delivered' : o \in delivered'[i].first..delivered'[i].last
      <4>1. CASE o < NextFirst
        BY <1>0, <3>1, <4>1 DEF Covered
      <4>2. CASE ~(o < NextFirst)
        <5>1. o \in current.first..current.last
          BY <1>0, <2>1, <3>2, <4>2 DEF A!Wanted, A!Objects
        <5> QED
          BY <1>0, <3>1, <5>1
      <4> QED
        BY <4>1, <4>2
    <3> QED
      BY <1>f, <3>2 DEF Covered
  <2> QED
    BY <1>1, <2>2, <2>3, FlushDelivers
<1>2. CASE ~(A!FlushOk \/ A!FlushStop)
  <2>1. NextFirst' = NextFirst
    BY <1>2, NextFirstStep
  <2>2. UNCHANGED delivered
    BY <1>2, AccSteps, Sends DEF Quiet, A!Receive, A!FlusherLeaves
  <2> QED
    BY <1>f, <2>1, <2>2, ZenonT(60) DEF Covered
<1> QED
  BY <1>1, <1>2

LEMMA AccStepInv ==
    ASSUME A!CarsOk, AccInv, [A!Next]_(A!vars)
    PROVE  AccInv'
BY AccTypeStep, ReadsStep, AccCountsStep, QueuedStep, InHandStep, DeliveredStep, CoveredStep, ZenonT(60) DEF AccInv

LEMMA InvInOrder ==
    ASSUME A!CarsOk, AccInv
    PROVE  A!InOrder
<1>0. skip \in Nat /\ delivered \in Seq(Groups)
  BY CarFacts, ZenonT(60) DEF AccInv, AccTypeOK
<1>1. SUFFICES ASSUME NEW i \in DOMAIN delivered
               PROVE  /\ delivered[i].first = IF i = 1 THEN 1 ELSE delivered[i - 1].last + 1
                      /\ \A c \in A!Children(delivered[i]) : car.kind[c] # FlushOnKind
                      /\ IF delivered[i].parent
                         THEN /\ delivered[i].last > skip /\ car.kind[delivered[i].last] = FlushOnKind
                              /\ delivered[i].at = car.start[delivered[i].last]
                         ELSE delivered[i].last = Len(car.kind) /\ i = Len(delivered)
  BY ZenonT(60) DEF A!InOrder
<1>2. Good(car, skip, delivered[i])
  BY DEF AccInv, Delivered
<1>3. delivered[i].first = IF i = 1 THEN 1 ELSE delivered[i - 1].last + 1
  BY DEF AccInv, Delivered
<1>4. \A c \in A!Children(delivered[i]) : car.kind[c] # FlushOnKind
  BY <1>0, <1>2 DEF Good, A!Children
<1>5. ~delivered[i].parent => i = Len(delivered)
  BY DEF AccInv, Delivered
<1> QED
  BY <1>2, <1>3, <1>4, <1>5, ZenonT(60) DEF Good

LEMMA InvComplete ==
    ASSUME A!CarsOk, AccInv
    PROVE  A!CompleteOnReturn
<1>1. SUFFICES ASSUME main = "returned"
               PROVE  /\ NextFirst = first
                      /\ result = "ok" => first = Len(car.kind) + 1
  BY DEF A!CompleteOnReturn, AccInv, Covered
<1>2. Len(queue) \in Nat /\ queue \in Seq(Groups)
  BY DEF AccInv, AccTypeOK
<1>3. Len(queue) = 0 /\ flusher # "busy"
  <2>1. wg = 0 /\ wg = Len(queue) + (IF flusher = "busy" THEN 1 ELSE 0) + (IF stopped THEN 1 ELSE 0)
    BY <1>1, ZenonT(60) DEF AccInv, AccCounts
  <2>2. CASE stopped
    BY <1>2, <2>1, <2>2
  <2>3. CASE ~stopped
    BY <1>2, <2>1, <2>3
  <2> QED
    BY <2>2, <2>3
<1>4. queue = <<>>
  BY <1>2, <1>3
<1>5. NextFirst = first
  BY <1>3, <1>4 DEF NextFirst, AfterCurrent
<1> QED
  BY <1>5 DEF AccInv, Reads

LEMMA InvStop ==
    ASSUME AccInv
    PROVE  A!StopNeverReturns
<1>1. Len(queue) \in Nat
  BY DEF AccInv, AccTypeOK
<1> QED
  BY <1>1 DEF A!StopNeverReturns, AccInv, AccCounts

\* For every file, every number of objects to skip and every queue: the callback gets the
\* objects of the file in their order, in groups that end with an object to flush on whose
\* offset is right; Run returns only after the callback was called for every group that was
\* read, and without an error only at the end of the file (the deferred flushWg.Wait); and
\* after an ErrStop it never returns, because startFlusher returns before flushWg.Done.
THEOREM AccumulatorIsExact == WalkSpec => []AccumulatorExact
<1> DEFINE I == which = "accumulator" => AccInv
<1>1. WalkInit => I
  BY AccInitInv, AccumulatorAssumption DEF WalkInit
<1>2. I /\ [WalkNext]_all => I'
  <2> SUFFICES ASSUME I, [WalkNext]_all, which' = "accumulator" PROVE AccInv'
    OBVIOUS
  <2>1. which = "accumulator" /\ [A!Next]_(A!vars)
    BY DEF WalkNext, all, accumulator, A!vars
  <2> QED
    BY <2>1, AccStepInv, AccumulatorAssumption
<1>3. I => AccumulatorExact
  BY InvInOrder, InvComplete, InvStop, AccumulatorAssumption DEF AccumulatorExact
<1> QED
  BY <1>1, <1>2, <1>3, PTL DEF WalkSpec
-----------------------------------------------------------------------------
(* The `index sig-exists` command.                                          *)

SigNodes == UNION {{c[i] : i \in DOMAIN c} : c \in SigCars}

\* A CAR file is a sequence of nodes.
SigCarsOk == SigCars \subseteq Seq(SigNodes)

Writers ==
  [pos : Nat, executed : Int, received : Int, input : Seq(SigNodes), closed : BOOLEAN,
   busy : Seq(SigNodes), finished : Seq(SigNodes), output : Seq(SigNodes), taken : Seq(SigNodes),
   index : SUBSET SigNodes]

SigTypeOK ==
  /\ pc \in {"reading", "draining", "sealed", "failed", "crashed"}
  /\ input \in [car : SigCars, sealed : SUBSET SigNodes]
  /\ state \in Writers
  /\ state.pos \in 1..Len(input.car) + 1

Elements(q) == {q[i] : i \in DOMAIN q}

Executed == state.executed
Received == state.received
Waiting == Len(state.input)
Running == Len(state.busy)
Finished == Len(state.finished)
Returned == Len(state.output)
Taken == Len(state.taken)

\* The wait groups count what is on its way: up to the end of its execution,
\* and up to its place in the index.
SigCounts ==
  /\ Executed = Waiting + Running
  /\ Received = Executed + Finished + Returned + Taken
  /\ Taken \in {0, 1}

\* A transaction that was read is on its way or in the index.
SigKept ==
  {input.car[i] : i \in 1..state.pos - 1} \ {"other"}
    = Elements(state.input) \cup Elements(state.busy) \cup Elements(state.finished)
      \cup Elements(state.output) \cup state.index

\* The main goroutine goes on when a wait group is at zero, at the end of the file.
SigEnded ==
  /\ pc \in {"draining", "sealed"} => SX!AtEnd /\ Executed = 0
  /\ pc = "sealed" => Received = 0 /\ input.sealed = state.index

SigInv == SigTypeOK /\ SigCounts /\ SigKept /\ SigEnded
-----------------------------------------------------------------------------
\* What the operations on a channel do to its elements.
LEMMA AppendElements ==
  ASSUME NEW S, NEW q \in Seq(S), NEW e \in S
  PROVE  /\ Append(q, e) \in Seq(S) /\ Len(Append(q, e)) = Len(q) + 1
         /\ Elements(Append(q, e)) = Elements(q) \cup {e}
<1>1. /\ Append(q, e) \in Seq(S) /\ Len(Append(q, e)) = Len(q) + 1 /\ Len(q) \in Nat
      /\ DOMAIN q = 1..Len(q) /\ DOMAIN Append(q, e) = 1..Len(q) + 1
      /\ \A i \in 1..Len(q) : Append(q, e)[i] = q[i]
      /\ Append(q, e)[Len(q) + 1] = e
  OBVIOUS
<1>2. ASSUME NEW x PROVE x \in Elements(Append(q, e)) <=> x \in Elements(q) \cup {e}
  BY <1>1 DEF Elements
<1> QED
  BY <1>1, <1>2

LEMMA TailElements ==
  ASSUME NEW S, NEW q \in Seq(S), q # <<>>
  PROVE  /\ Tail(q) \in Seq(S) /\ Len(Tail(q)) = Len(q) - 1 /\ Head(q) \in S
         /\ Elements(q) = Elements(Tail(q)) \cup {Head(q)}
<1>1. /\ Tail(q) \in Seq(S) /\ Len(Tail(q)) = Len(q) - 1 /\ Len(q) \in Nat \ {0}
      /\ DOMAIN q = 1..Len(q) /\ DOMAIN Tail(q) = 1..Len(q) - 1
      /\ \A i \in 1..Len(q) - 1 : Tail(q)[i] = q[i + 1]
      /\ Head(q) = q[1]
  OBVIOUS
<1>2. ASSUME NEW x \in Elements(q) PROVE x \in Elements(Tail(q)) \cup {Head(q)}
  <2>1. PICK i \in 1..Len(q) : x = q[i]
    BY <1>1 DEF Elements
  <2>2. CASE i = 1
    BY <1>1, <2>1, <2>2
  <2>3. CASE i # 1
    <3>1. i - 1 \in 1..Len(q) - 1 /\ Tail(q)[i - 1] = q[i]
      BY <1>1, <2>3
    <3> QED
      BY <1>1, <2>1, <3>1, ZenonT(60) DEF Elements
  <2> QED
    BY <2>2, <2>3
<1>3. Elements(Tail(q)) \cup {Head(q)} \subseteq Elements(q)
  BY <1>1 DEF Elements
<1> QED
  BY <1>1, <1>2, <1>3

Without(q, i) == SubSeq(q, 1, i - 1) \o SubSeq(q, i + 1, Len(q))

LEMMA RemoveElements ==
  ASSUME NEW S, NEW q \in Seq(S), NEW i \in DOMAIN q
  PROVE  /\ Without(q, i) \in Seq(S) /\ Len(Without(q, i)) = Len(q) - 1 /\ q[i] \in S
         /\ Elements(q) = Elements(Without(q, i)) \cup {q[i]}
<1> DEFINE a == SubSeq(q, 1, i - 1)
           b == SubSeq(q, i + 1, Len(q))
           r == Without(q, i)
<1>0. r = a \o b
  BY DEF Without
<1>1. Len(q) \in Nat /\ i \in 1..Len(q) /\ DOMAIN q = 1..Len(q) /\ q[i] \in S
  OBVIOUS
<1>2. a \in Seq(S) /\ Len(a) = i - 1 /\ \A j \in 1..i - 1 : a[j] = q[j]
  BY <1>1
<1>3. b \in Seq(S) /\ Len(b) = Len(q) - i /\ \A j \in 1..Len(q) - i : b[j] = q[i + j]
  <2>1. b \in Seq(S) /\ Len(b) = Len(q) - i
    BY <1>1
  <2>2. ASSUME NEW j \in 1..Len(q) - i PROVE b[j] = q[i + j]
    BY <1>1
  <2> QED
    BY <2>1, <2>2
<1> HIDE DEF a, b, r
<1>4. /\ r \in Seq(S) /\ Len(r) = Len(q) - 1 /\ DOMAIN r = 1..Len(q) - 1
      /\ \A j \in 1..Len(q) - 1 : r[j] = IF j <= Len(a) THEN a[j] ELSE b[j - Len(a)]
  <2>1. /\ r \in Seq(S) /\ Len(r) = Len(a) + Len(b)
        /\ \A j \in 1..Len(a) + Len(b) : r[j] = IF j <= Len(a) THEN a[j] ELSE b[j - Len(a)]
    BY <1>0, <1>2, <1>3, Concatenated, ZenonT(60)
  <2>2. Len(a) + Len(b) = Len(q) - 1
    BY <1>1, <1>2, <1>3
  <2> QED
    BY <2>1, <2>2
<1>5. \A j \in 1..Len(q) - 1 : r[j] = IF j < i THEN q[j] ELSE q[j + 1]
  <2> SUFFICES ASSUME NEW j \in 1..Len(q) - 1 PROVE r[j] = IF j < i THEN q[j] ELSE q[j + 1]
    OBVIOUS
  <2>1. CASE j < i
    BY <1>1, <1>2, <1>4, <2>1
  <2>2. CASE ~(j < i)
    <3>1. j - Len(a) \in 1..Len(q) - i /\ i + (j - Len(a)) = j + 1
      BY <1>1, <1>2, <2>2
    <3>2. r[j] = b[j - Len(a)]
      BY <1>1, <1>2, <1>4, <2>2
    <3> QED
      BY <1>3, <2>2, <3>1, <3>2
  <2> QED
    BY <2>1, <2>2
<1>6. ASSUME NEW x \in Elements(q) PROVE x \in Elements(r) \cup {q[i]}
  <2>1. PICK j \in 1..Len(q) : x = q[j]
    BY <1>1 DEF Elements
  <2>2. CASE j < i
    <3>1. j \in 1..Len(q) - 1 /\ r[j] = q[j]
      BY <1>1, <1>5, <2>2
    <3> QED
      BY <1>4, <2>1, <3>1, ZenonT(60) DEF Elements
  <2>3. CASE j = i
    BY <2>1, <2>3
  <2>4. CASE j > i
    <3>1. j - 1 \in 1..Len(q) - 1 /\ r[j - 1] = q[j]
      BY <1>1, <1>5, <2>4
    <3> QED
      BY <1>4, <2>1, <3>1, ZenonT(60) DEF Elements
  <2> QED
    BY <1>1, <2>2, <2>3, <2>4
<1>7. ASSUME NEW x \in Elements(r) PROVE x \in Elements(q)
  <2>1. PICK j \in 1..Len(q) - 1 : x = r[j]
    BY <1>4, ZenonT(60) DEF Elements
  <2>2. j \in 1..Len(q) /\ j + 1 \in 1..Len(q) /\ (x = q[j] \/ x = q[j + 1])
    BY <1>1, <1>5, <2>1
  <2> QED
    BY <1>1, <2>2 DEF Elements
<1>8. q[i] \in Elements(q)
  BY DEF Elements
<1> QED
  BY <1>1, <1>4, <1>6, <1>7, <1>8 DEF r

LEMMA NoElements ==
  ASSUME NEW S, NEW q \in Seq(S), Len(q) = 0
  PROVE  Elements(q) = {}
BY DEF Elements
-----------------------------------------------------------------------------
\* The invariant holds at first: nothing was read.
LEMMA SigInitInv ==
  ASSUME SigCarsOk, SX!Init
  PROVE  SigInv
<1>1. PICK c \in SigCars : input = [car |-> c, sealed |-> {}]
  BY ZenonT(60) DEF SX!Init
<1>2. Len(input.car) \in Nat /\ input.car = c /\ input \in [car : SigCars, sealed : SUBSET SigNodes]
  BY <1>1 DEF SigCarsOk
<1>0. /\ state.pos = 1 /\ state.executed = 0 /\ state.received = 0 /\ state.input = <<>>
      /\ state.busy = <<>> /\ state.finished = <<>> /\ state.output = <<>> /\ state.taken = <<>>
      /\ state.index = {} /\ input.sealed = {} /\ pc = "reading"
  BY <1>1, ZenonT(60) DEF SX!Init
<1>a. state \in Writers
  BY DEF SX!Init, Writers
<1>3. SigTypeOK
  BY <1>0, <1>2, <1>a DEF SigTypeOK
<1>4. SigCounts
  BY <1>0 DEF SigCounts, Executed, Received, Waiting, Running, Finished, Returned, Taken
<1>5. SigKept
  <2>1. Elements(<<>>) = {}
    BY DEF Elements
  <2>2. {input.car[i] : i \in 1..0} = {}
    OBVIOUS
  <2>3. state.pos - 1 = 0
    BY <1>0
  <2> QED
    BY <1>0, <2>1, <2>2, <2>3, ZenonT(60) DEF SigKept
<1>6. SigEnded
  BY <1>0, ZenonT(60) DEF SigEnded
<1> QED
  BY <1>3, <1>4, <1>5, <1>6, ZenonT(60) DEF SigInv

\* The fields of the writer's record have their types.
WriterFields ==
  /\ state.pos \in Nat /\ state.executed \in Int /\ state.received \in Int
  /\ state.input \in Seq(SigNodes) /\ state.busy \in Seq(SigNodes) /\ state.finished \in Seq(SigNodes)
  /\ state.output \in Seq(SigNodes) /\ state.taken \in Seq(SigNodes) /\ state.index \in SUBSET SigNodes
  /\ state.closed \in BOOLEAN

LEMMA SigFields ==
  ASSUME SigCarsOk, SigTypeOK
  PROVE  /\ WriterFields
         /\ input.car \in Seq(SigNodes) /\ Len(input.car) \in Nat
BY DEF SigTypeOK, SigCarsOk, WriterFields, Writers

LEMMA SigLengths ==
  ASSUME SigCarsOk, SigTypeOK
  PROVE  /\ Executed \in Int /\ Received \in Int
         /\ Waiting \in Nat /\ Running \in Nat /\ Finished \in Nat /\ Returned \in Nat /\ Taken \in Nat
<1>1. WriterFields
  BY SigFields
<1>2. Executed \in Int /\ Received \in Int
  BY <1>1 DEF WriterFields, Executed, Received
<1>3. Waiting \in Nat /\ Running \in Nat /\ Finished \in Nat
  BY <1>1 DEF WriterFields, Waiting, Running, Finished
<1>4. Returned \in Nat /\ Taken \in Nat
  BY <1>1 DEF WriterFields, Returned, Taken
<1> QED
  BY <1>2, <1>3, <1>4

\* A step that leaves the records alone.
LEMMA SameRecords ==
  ASSUME SigInv, UNCHANGED <<state, input>>, pc' \in {pc, "failed", "crashed"}
  PROVE  SigInv'
<1>1. UNCHANGED <<Executed, Received, Waiting, Running, Finished, Returned, Taken, SX!AtEnd>>
  BY ZenonT(60) DEF Executed, Received, Waiting, Running, Finished, Returned, Taken, SX!AtEnd
<1>2. SigTypeOK' /\ SigCounts' /\ SigKept'
  BY <1>1, ZenonT(60) DEF SigInv, SigTypeOK, SigCounts, SigKept
<1>3. SigEnded'
  BY <1>1 DEF SigInv, SigEnded
<1> QED
  BY <1>2, <1>3 DEF SigInv

\* Reading one node more adds it to the nodes that were read.
LEMMA OneMore ==
  ASSUME NEW q, NEW p \in Nat \ {0}
  PROVE  {q[i] : i \in 1..(p + 1) - 1} = {q[i] : i \in 1..p - 1} \cup {q[p]}
<1>1. (p + 1) - 1 = p /\ \A i : i \in 1..p <=> i \in 1..p - 1 \/ i = p
  OBVIOUS
<1> QED
  BY <1>1

LEMMA DispatchStep ==
  ASSUME SigCarsOk, SigInv, SX!Dispatch
  PROVE  SigInv'
<1> DEFINE n == input.car[state.pos]
<1>0. SigTypeOK /\ pc = "reading" /\ UNCHANGED <<pc, input>>
  BY DEF SigInv, SX!Dispatch
<1>t. WriterFields /\ input.car \in Seq(SigNodes) /\ Len(input.car) \in Nat
  BY <1>0, SigFields
<1>l. /\ Executed \in Int /\ Received \in Int
      /\ Waiting \in Nat /\ Running \in Nat /\ Finished \in Nat /\ Returned \in Nat /\ Taken \in Nat
  BY <1>0, SigLengths
<1>a. state.pos \in 1..Len(input.car) /\ state.pos \in Nat \ {0} /\ n \in SigNodes
  BY <1>t, <1>0 DEF WriterFields, SX!Dispatch, SX!AtEnd, SigTypeOK
<1>b. {input.car[i] : i \in 1..(state.pos + 1) - 1} = {input.car[i] : i \in 1..state.pos - 1} \cup {n}
  BY <1>a, OneMore, ZenonT(60)
<1>1. CASE n = "other" /\ state' = [state EXCEPT !.pos = @ + 1]
  <2>1. /\ state'.pos = state.pos + 1 /\ state'.executed = state.executed
        /\ state'.received = state.received /\ state'.input = state.input
        /\ state'.busy = state.busy /\ state'.finished = state.finished
        /\ state'.output = state.output /\ state'.taken = state.taken
        /\ state'.index = state.index
    BY <1>0, <1>1 DEF SigTypeOK, Writers
  <2>2. SigTypeOK'
    <3>1. state' \in Writers
      <4>1. state \in Writers /\ state.pos + 1 \in Nat
        BY <1>0, <1>a DEF SigTypeOK
      <4>2. state' = [state EXCEPT !.pos = state.pos + 1]
        BY <1>1, ZenonT(60)
      <4> HIDE DEF n
      <4> QED
        BY <4>1, <4>2, ZenonT(60) DEF Writers
    <3> QED
      BY <1>0, <1>a, <1>t, <2>1, <3>1 DEF SigTypeOK
  <2>3. SigCounts'
    BY <2>1 DEF SigInv, SigCounts, Executed, Received, Waiting, Running, Finished, Returned, Taken
  <2>4. SigKept'
    BY <1>0, <1>1, <1>b, <2>1 DEF SigInv, SigKept
  <2> QED
    BY <1>0, <2>2, <2>3, <2>4 DEF SigInv, SigEnded
<1>2. CASE /\ n # "other"
           /\ state' = [state EXCEPT !.pos = @ + 1, !.executed = @ + 1,
                          !.received = @ + 1, !.input = Append(@, n)]
  <2>1. /\ state'.pos = state.pos + 1 /\ state'.executed = state.executed + 1
        /\ state'.received = state.received + 1 /\ state'.input = Append(state.input, n)
        /\ state'.busy = state.busy /\ state'.finished = state.finished
        /\ state'.output = state.output /\ state'.taken = state.taken
        /\ state'.index = state.index
    BY <1>0, <1>2, ZenonT(60) DEF SigTypeOK, Writers
  <2>2. /\ state'.input \in Seq(SigNodes) /\ Len(state'.input) = Len(state.input) + 1
        /\ Elements(state'.input) = Elements(state.input) \cup {n}
    <3>1. state.input \in Seq(SigNodes)
      BY <1>t DEF WriterFields
    <3> HIDE DEF n
    <3> QED
      BY <1>a, <2>1, <3>1, AppendElements
  <2>3. SigTypeOK'
    <3>1. state' \in Writers
      <4>0. state \in Writers /\ state.pos + 1 \in Nat
        BY <1>0, <1>a DEF SigTypeOK
      <4>a. Append(state.input, n) \in Seq(SigNodes)
        BY <2>1, <2>2
      <4>1. state.executed + 1 \in Int /\ state.received + 1 \in Int
        BY <1>l DEF Executed, Received
      <4>2. state' = [state EXCEPT !.pos = state.pos + 1, !.executed = state.executed + 1,
                         !.received = state.received + 1, !.input = Append(state.input, n)]
        BY <1>2
      <4> HIDE DEF n
      <4> QED
        BY <4>0, <4>a, <4>1, <4>2, ZenonT(60) DEF Writers
    <3> QED
      BY <1>0, <1>a, <1>t, <2>1, <3>1 DEF SigTypeOK
  <2>4. SigCounts'
    <3>1. /\ Executed' = Executed + 1 /\ Received' = Received + 1 /\ Waiting' = Waiting + 1
          /\ UNCHANGED <<Running, Finished, Returned, Taken>>
      BY <2>1, <2>2 DEF Executed, Received, Waiting, Running, Finished, Returned, Taken
    <3> QED
      BY <1>l, <3>1 DEF SigInv, SigCounts
  <2>5. SigKept'
    <3>1. /\ {input'.car[i] : i \in 1..state'.pos - 1} = {input.car[i] : i \in 1..state.pos - 1} \cup {n}
          /\ n # "other"
      BY <1>0, <1>2, <1>b, <2>1, ZenonT(60)
    <3>2. SigKept
      BY DEF SigInv
    <3> HIDE DEF n
    <3> QED
      BY <2>1, <2>2, <3>1, <3>2, ZenonT(60) DEF SigKept
  <2> QED
    BY <1>0, <2>3, <2>4, <2>5 DEF SigInv, SigEnded
<1> QED
  BY <1>1, <1>2 DEF SX!Dispatch

LEMMA WorkerTakesStep ==
  ASSUME SigCarsOk, SigInv, SX!WorkerTakes
  PROVE  SigInv'
<1>0. SigTypeOK /\ UNCHANGED <<pc, input>> /\ state.input # <<>>
  BY DEF SigInv, SX!WorkerTakes
<1>t. WriterFields /\ input.car \in Seq(SigNodes) /\ Len(input.car) \in Nat
  BY <1>0, SigFields
<1>l. /\ Executed \in Int /\ Received \in Int
      /\ Waiting \in Nat /\ Running \in Nat /\ Finished \in Nat /\ Returned \in Nat /\ Taken \in Nat
  BY <1>0, SigLengths
<1>1. /\ state'.pos = state.pos /\ state'.executed = state.executed
      /\ state'.received = state.received /\ state'.input = Tail(state.input)
      /\ state'.busy = Append(state.busy, Head(state.input)) /\ state'.finished = state.finished
      /\ state'.output = state.output /\ state'.taken = state.taken
      /\ state'.index = state.index
  BY <1>0, ZenonT(60) DEF SigTypeOK, Writers, SX!WorkerTakes
<1>2. /\ state'.input \in Seq(SigNodes) /\ Len(state'.input) = Len(state.input) - 1
      /\ Elements(state.input) = Elements(state'.input) \cup {Head(state.input)}
      /\ Head(state.input) \in SigNodes
  BY <1>0, <1>1, <1>t, TailElements, ZenonT(60) DEF WriterFields
<1>3. /\ state'.busy \in Seq(SigNodes) /\ Len(state'.busy) = Len(state.busy) + 1
      /\ Elements(state'.busy) = Elements(state.busy) \cup {Head(state.input)}
  BY <1>0, <1>1, <1>2, <1>t, AppendElements DEF WriterFields
<1>4. SigTypeOK'
  <2>1. state' \in Writers
    BY <1>0, <1>1, <1>2, <1>3, ZenonT(60) DEF SigTypeOK, Writers, SX!WorkerTakes
  <2> QED
    BY <1>0, <1>1, <2>1 DEF SigTypeOK
<1>5. SigCounts'
  <2>1. /\ Waiting' = Waiting - 1 /\ Running' = Running + 1
        /\ UNCHANGED <<Executed, Received, Finished, Returned, Taken>>
    BY <1>1, <1>2, <1>3, ZenonT(60) DEF Executed, Received, Waiting, Running, Finished, Returned, Taken
  <2> QED
    BY <1>l, <2>1 DEF SigInv, SigCounts
<1>6. SigKept'
  BY <1>0, <1>1, <1>2, <1>3, ZenonT(60) DEF SigInv, SigKept
<1>7. SigEnded'
  BY <1>0, <1>1 DEF SigInv, SigEnded, SX!AtEnd, Executed, Received
<1> QED
  BY <1>4, <1>5, <1>6, <1>7 DEF SigInv

LEMMA RunStep ==
  ASSUME SigCarsOk, SigInv, NEW i \in DOMAIN state.busy, SX!Run(i)
  PROVE  SigInv'
<1>0. SigTypeOK /\ UNCHANGED <<pc, input>>
  BY DEF SigInv, SX!Run
<1>t. WriterFields /\ input.car \in Seq(SigNodes) /\ Len(input.car) \in Nat
  BY <1>0, SigFields
<1>l. /\ Executed \in Int /\ Received \in Int
      /\ Waiting \in Nat /\ Running \in Nat /\ Finished \in Nat /\ Returned \in Nat /\ Taken \in Nat
  BY <1>0, SigLengths
<1>1. /\ state'.pos = state.pos /\ state'.executed = state.executed - 1
      /\ state'.received = state.received /\ state'.input = state.input
      /\ state'.busy = Without(state.busy, i)
      /\ state'.finished = Append(state.finished, state.busy[i])
      /\ state'.output = state.output /\ state'.taken = state.taken
      /\ state'.index = state.index
  BY <1>0, ZenonT(60) DEF SigTypeOK, Writers, SX!Run, Without
<1>2. /\ state'.busy \in Seq(SigNodes) /\ Len(state'.busy) = Len(state.busy) - 1
      /\ Elements(state.busy) = Elements(state'.busy) \cup {state.busy[i]}
      /\ state.busy[i] \in SigNodes
  <2>1. state.busy \in Seq(SigNodes)
    BY <1>t, ZenonT(60) DEF WriterFields
  <2>2. /\ Without(state.busy, i) \in Seq(SigNodes) /\ state.busy[i] \in SigNodes
        /\ Len(Without(state.busy, i)) = Len(state.busy) - 1
        /\ Elements(state.busy) = Elements(Without(state.busy, i)) \cup {state.busy[i]}
    BY <2>1, RemoveElements, ZenonT(60)
  <2> QED
    BY <1>1, <2>2, ZenonT(60)
<1>3. /\ state'.finished \in Seq(SigNodes) /\ Len(state'.finished) = Len(state.finished) + 1
      /\ Elements(state'.finished) = Elements(state.finished) \cup {state.busy[i]}
  <2>1. state.finished \in Seq(SigNodes) /\ state.busy[i] \in SigNodes
    BY <1>2, <1>t, ZenonT(60) DEF WriterFields
  <2> DEFINE x == state.busy[i]
  <2>2. state'.finished = Append(state.finished, x)
    BY <1>1
  <2> HIDE DEF x
  <2>3. x \in SigNodes
    BY <2>1, ZenonT(60) DEF x
  <2>4. /\ state'.finished \in Seq(SigNodes) /\ Len(state'.finished) = Len(state.finished) + 1
        /\ Elements(state'.finished) = Elements(state.finished) \cup {x}
    BY <2>1, <2>2, <2>3, AppendElements
  <2> QED
    BY <2>4, ZenonT(60) DEF x
<1>4. SigTypeOK'
  <2>1. state' \in Writers
    <3>1. /\ state \in Writers /\ Without(state.busy, i) \in Seq(SigNodes)
          /\ Append(state.finished, state.busy[i]) \in Seq(SigNodes) /\ state.executed - 1 \in Int
      BY <1>0, <1>1, <1>2, <1>3, <1>l DEF SigTypeOK, Executed
    <3>2. state' = [state EXCEPT !.busy = Without(state.busy, i),
                       !.finished = Append(state.finished, state.busy[i]),
                       !.executed = state.executed - 1]
      BY DEF SX!Run, Without
    <3> QED
      BY <3>1, <3>2, ZenonT(60) DEF Writers
  <2> QED
    BY <1>0, <1>1, <2>1 DEF SigTypeOK
<1>5. SigCounts'
  <2>1. /\ Executed' = Executed - 1 /\ Running' = Running - 1 /\ Finished' = Finished + 1
        /\ UNCHANGED <<Received, Waiting, Returned, Taken>>
    BY <1>1, <1>2, <1>3, ZenonT(60) DEF Executed, Received, Waiting, Running, Finished, Returned, Taken
  <2> QED
    BY <1>l, <2>1 DEF SigInv, SigCounts
<1>6. SigKept'
  <2> DEFINE x == state.busy[i]
  <2>1. /\ Elements(state'.input) = Elements(state.input) /\ state'.pos = state.pos
        /\ Elements(state'.output) = Elements(state.output) /\ state'.index = state.index
    BY <1>1, ZenonT(60)
  <2>2. /\ Elements(state.busy) = Elements(state'.busy) \cup {x}
        /\ Elements(state'.finished) = Elements(state.finished) \cup {x}
    BY <1>2, <1>3, ZenonT(60)
  <2> HIDE DEF x
  <2>3. Elements(state.busy) \cup Elements(state.finished)
          = Elements(state'.busy) \cup Elements(state'.finished)
    BY <2>2
  <2> QED
    BY <1>0, <2>1, <2>3, ZenonT(60) DEF SigInv, SigKept
<1>7. SigEnded'
  <2>1. pc \notin {"draining", "sealed"}
    <3>1. Running > 0
      BY <1>t DEF WriterFields, Running
    <3>2. pc \in {"draining", "sealed"} => Executed = 0
      BY DEF SigInv, SigEnded
    <3> QED
      BY <1>l, <3>1, <3>2 DEF SigInv, SigCounts
  <2> QED
    BY <1>0, <2>1 DEF SigEnded
<1> QED
  BY <1>4, <1>5, <1>6, <1>7 DEF SigInv

LEMMA DeliverStep ==
  ASSUME SigCarsOk, SigInv, SX!Deliver
  PROVE  SigInv'
<1>0. SigTypeOK /\ UNCHANGED <<pc, input>> /\ state.finished # <<>>
  BY DEF SigInv, SX!Deliver
<1>t. WriterFields /\ input.car \in Seq(SigNodes) /\ Len(input.car) \in Nat
  BY <1>0, SigFields
<1>l. /\ Executed \in Int /\ Received \in Int
      /\ Waiting \in Nat /\ Running \in Nat /\ Finished \in Nat /\ Returned \in Nat /\ Taken \in Nat
  BY <1>0, SigLengths
<1>1. /\ state'.pos = state.pos /\ state'.executed = state.executed
      /\ state'.received = state.received /\ state'.input = state.input
      /\ state'.busy = state.busy /\ state'.finished = Tail(state.finished)
      /\ state'.output = Append(state.output, Head(state.finished)) /\ state'.taken = state.taken
      /\ state'.index = state.index
  BY <1>0, ZenonT(60) DEF SigTypeOK, Writers, SX!Deliver
<1>2. /\ state'.finished \in Seq(SigNodes) /\ Len(state'.finished) = Len(state.finished) - 1
      /\ Elements(state.finished) = Elements(state'.finished) \cup {Head(state.finished)}
      /\ Head(state.finished) \in SigNodes
  BY <1>0, <1>1, <1>t, TailElements, ZenonT(60) DEF WriterFields
<1>3. /\ state'.output \in Seq(SigNodes) /\ Len(state'.output) = Len(state.output) + 1
      /\ Elements(state'.output) = Elements(state.output) \cup {Head(state.finished)}
  <2>1. state.output \in Seq(SigNodes)
    BY <1>t, ZenonT(60) DEF WriterFields
  <2> DEFINE h == Head(state.finished)
             o == state.output
  <2>2. o \in Seq(SigNodes) /\ h \in SigNodes /\ state'.output = Append(o, h)
    BY <1>1, <1>2, <2>1, ZenonT(60)
  <2> HIDE DEF h, o
  <2>3. /\ Append(o, h) \in Seq(SigNodes) /\ Len(Append(o, h)) = Len(o) + 1
        /\ Elements(Append(o, h)) = Elements(o) \cup {h}
    BY <2>2, AppendElements
  <2> QED
    BY <2>2, <2>3, ZenonT(60) DEF h, o
<1>4. SigTypeOK'
  <2>1. state' \in Writers
    BY <1>0, <1>1, <1>2, <1>3, ZenonT(60) DEF SigTypeOK, Writers, SX!Deliver
  <2> QED
    BY <1>0, <1>1, <2>1 DEF SigTypeOK
<1>5. SigCounts'
  <2>1. /\ Finished' = Finished - 1 /\ Returned' = Returned + 1
        /\ UNCHANGED <<Executed, Received, Waiting, Running, Taken>>
    BY <1>1, <1>2, <1>3, ZenonT(60) DEF Executed, Received, Waiting, Running, Finished, Returned, Taken
  <2> QED
    BY <1>l, <2>1 DEF SigInv, SigCounts
<1>6. SigKept'
  BY <1>0, <1>1, <1>2, <1>3, ZenonT(60) DEF SigInv, SigKept
<1>7. SigEnded'
  BY <1>0, <1>1 DEF SigInv, SigEnded, SX!AtEnd, Executed, Received
<1> QED
  BY <1>4, <1>5, <1>6, <1>7 DEF SigInv

LEMMA ReceiveStep ==
  ASSUME SigCarsOk, SigInv, SX!Receive
  PROVE  SigInv'
<1>0. SigTypeOK /\ UNCHANGED input
  BY DEF SigInv, SX!Receive
<1>t. WriterFields /\ input.car \in Seq(SigNodes) /\ Len(input.car) \in Nat
  BY <1>0, SigFields
<1>l. /\ Executed \in Int /\ Received \in Int
      /\ Waiting \in Nat /\ Running \in Nat /\ Finished \in Nat /\ Returned \in Nat /\ Taken \in Nat
  BY <1>0, SigLengths
<1>1. CASE pc' = "crashed" /\ UNCHANGED state
  BY <1>0, <1>1, SameRecords, ZenonT(60)
<1>2. CASE /\ state.output # <<>> /\ state.taken = <<>> /\ pc' = pc
           /\ state' = [state EXCEPT !.output = Tail(@), !.index = @ \cup {Head(state.output)},
                           !.taken = <<Head(state.output)>>]
  <2>1. /\ state'.pos = state.pos /\ state'.executed = state.executed
        /\ state'.received = state.received /\ state'.input = state.input
        /\ state'.busy = state.busy /\ state'.finished = state.finished
        /\ state'.output = Tail(state.output) /\ state'.taken = <<Head(state.output)>>
        /\ state'.index = state.index \cup {Head(state.output)}
    BY <1>0, <1>2 DEF SigTypeOK, Writers
  <2>2. state.output \in Seq(SigNodes) /\ state.index \in SUBSET SigNodes
    BY <1>t DEF WriterFields
  <2>3. /\ Tail(state.output) \in Seq(SigNodes) /\ Len(Tail(state.output)) = Len(state.output) - 1
        /\ Elements(state.output) = Elements(Tail(state.output)) \cup {Head(state.output)}
        /\ Head(state.output) \in SigNodes
    BY <1>2, <2>2, TailElements
  <2>4. <<Head(state.output)>> \in Seq(SigNodes) /\ Len(<<Head(state.output)>>) = 1
    BY <2>3
  <2>5. SigTypeOK'
    <3>1. state' \in Writers
      <4>1. state \in Writers /\ state.index \cup {Head(state.output)} \in SUBSET SigNodes
        BY <1>0, <2>2, <2>3 DEF SigTypeOK
      <4> QED
        BY <1>2, <2>3, <2>4, <4>1, ZenonT(60) DEF Writers
    <3> QED
      BY <1>0, <1>2, <2>1, <3>1 DEF SigTypeOK
  <2>6. SigCounts'
    <3>1. /\ Returned' = Returned - 1 /\ Taken' = 1 /\ Taken = 0
          /\ UNCHANGED <<Executed, Received, Waiting, Running, Finished>>
      <4>1. Returned' = Returned - 1
        BY <2>1, <2>3 DEF Returned
      <4>2. Taken' = 1 /\ Taken = 0
        BY <1>2, <2>1, <2>4, ZenonT(60) DEF Taken
      <4>3. UNCHANGED <<Executed, Received, Waiting, Running, Finished>>
        BY <2>1, ZenonT(60) DEF Executed, Received, Waiting, Running, Finished
      <4> QED
        BY <4>1, <4>2, <4>3, ZenonT(60)
    <3> QED
      BY <1>l, <3>1 DEF SigInv, SigCounts
  <2>7. SigKept'
    <3>1. Elements(state.output) \cup state.index = Elements(state'.output) \cup state'.index
      BY <2>1, <2>3
    <3>2. UNCHANGED <<state.pos, state.input, state.busy, state.finished>>
      BY <2>1
    <3> QED
      BY <1>0, <3>1, <3>2, ZenonT(60) DEF SigInv, SigKept
  <2>8. SigEnded'
    <3>1. pc # "sealed"
      <4>1. Returned > 0
        BY <1>2, <2>2 DEF Returned
      <4> QED
        BY <1>l, <4>1 DEF SigInv, SigEnded, SigCounts
    <3>2. UNCHANGED <<Executed, SX!AtEnd>>
      BY <1>0, <2>1 DEF Executed, SX!AtEnd
    <3> QED
      BY <1>2, <3>1, <3>2 DEF SigInv, SigEnded
  <2> QED
    BY <2>5, <2>6, <2>7, <2>8 DEF SigInv
<1>3. CASE /\ state.taken # <<>> /\ pc' = pc
           /\ state' = [state EXCEPT !.received = @ - 1, !.taken = <<>>]
  <2>1. /\ state'.pos = state.pos /\ state'.executed = state.executed
        /\ state'.received = state.received - 1 /\ state'.input = state.input
        /\ state'.busy = state.busy /\ state'.finished = state.finished
        /\ state'.output = state.output /\ state'.taken = <<>>
        /\ state'.index = state.index
    BY <1>0, <1>3 DEF SigTypeOK, Writers
  <2>2. SigTypeOK'
    <3>1. state' \in Writers
      <4>1. state \in Writers /\ state.received - 1 \in Int /\ <<>> \in Seq(SigNodes)
        BY <1>0, <1>l DEF SigTypeOK, Received
      <4> QED
        BY <1>3, <4>1, ZenonT(60) DEF Writers
    <3> QED
      BY <1>0, <1>3, <2>1, <3>1 DEF SigTypeOK
  <2>3. SigCounts'
    <3>1. Taken = 1
      <4>1. Taken > 0
        BY <1>3, <1>t DEF Taken, WriterFields
      <4> QED
        BY <4>1 DEF SigInv, SigCounts
    <3>2. /\ Received' = Received - 1 /\ Taken' = 0
          /\ UNCHANGED <<Executed, Waiting, Running, Finished, Returned>>
      BY <2>1, ZenonT(60) DEF Executed, Received, Waiting, Running, Finished, Returned, Taken
    <3> QED
      BY <1>l, <3>1, <3>2 DEF SigInv, SigCounts
  <2>4. SigKept'
    BY <1>0, <2>1 DEF SigInv, SigKept
  <2>5. SigEnded'
    <3>1. pc # "sealed"
      <4>1. Taken > 0
        BY <1>3, <1>t DEF Taken, WriterFields
      <4> QED
        BY <1>l, <4>1 DEF SigInv, SigEnded, SigCounts
    <3>2. UNCHANGED <<Executed, SX!AtEnd>>
      BY <1>0, <2>1 DEF Executed, SX!AtEnd
    <3> QED
      BY <1>3, <3>1, <3>2 DEF SigInv, SigEnded
  <2> QED
    BY <2>2, <2>3, <2>4, <2>5 DEF SigInv
<1> QED
  BY <1>1, <1>2, <1>3 DEF SX!Receive

LEMMA WaitStep ==
  ASSUME SigCarsOk, SigInv, SX!WaitExecuted
  PROVE  SigInv'
<1>0. SigTypeOK /\ UNCHANGED input /\ pc' = "draining" /\ SX!AtEnd /\ Executed = 0
  BY DEF SigInv, SX!WaitExecuted, Executed
<1>1. /\ state'.pos = state.pos /\ state'.executed = state.executed
      /\ state'.received = state.received /\ state'.input = state.input
      /\ state'.busy = state.busy /\ state'.finished = state.finished
      /\ state'.output = state.output /\ state'.taken = state.taken
      /\ state'.index = state.index
  BY <1>0 DEF SigTypeOK, Writers, SX!WaitExecuted
<1>2. SigTypeOK'
  <2>1. state' \in Writers
    BY <1>0, ZenonT(60) DEF SigTypeOK, Writers, SX!WaitExecuted
  <2> QED
    BY <1>0, <1>1, <2>1 DEF SigTypeOK
<1>3. SigCounts'
  BY <1>1, ZenonT(60) DEF SigInv, SigCounts, Executed, Received, Waiting, Running, Finished, Returned, Taken
<1>4. SigKept'
  BY <1>0, <1>1, ZenonT(60) DEF SigInv, SigKept
<1>5. SigEnded'
  BY <1>0, <1>1 DEF SigEnded, SX!AtEnd, Executed
<1> QED
  BY <1>2, <1>3, <1>4, <1>5 DEF SigInv

LEMMA SealStep ==
  ASSUME SigCarsOk, SigInv, SX!Seal
  PROVE  SigInv'
<1>0. /\ SigTypeOK /\ UNCHANGED state /\ pc = "draining" /\ pc' = "sealed" /\ Received = 0
      /\ input' = [input EXCEPT !.sealed = state.index]
  BY DEF SigInv, SX!Seal, Received
<1>1. WriterFields
  BY <1>0, SigFields
<1>2. input'.car = input.car /\ input'.sealed = state.index
  BY <1>0 DEF SigTypeOK
<1>3. SigTypeOK'
  BY <1>0, <1>1, <1>2, ZenonT(60) DEF SigTypeOK, WriterFields
<1>4. SigCounts'
  BY <1>0, ZenonT(60) DEF SigInv, SigCounts, Executed, Received, Waiting, Running, Finished, Returned, Taken
<1>5. SigKept'
  BY <1>0, <1>2 DEF SigInv, SigKept
<1>6. SigEnded'
  BY <1>0, <1>2 DEF SigInv, SigEnded, SX!AtEnd, Executed, Received
<1> QED
  BY <1>3, <1>4, <1>5, <1>6 DEF SigInv

LEMMA SigStepInv ==
  ASSUME SigCarsOk, SigInv, [SX!Next]_(SX!vars)
  PROVE  SigInv'
<1>1. CASE UNCHANGED SX!vars \/ SX!ReadFails
  BY <1>1, SameRecords, ZenonT(60) DEF SX!vars, SX!ReadFails
<1> QED
  BY ZenonT(60), <1>1, DispatchStep, WorkerTakesStep, RunStep, DeliverStep, ReceiveStep, WaitStep, SealStep
  DEF SX!Next, SX!Goroutines

LEMMA InvSeals ==
  ASSUME SigCarsOk, SigInv
  PROVE  SX!SealsEverySignature
<1> SUFFICES ASSUME pc = "sealed"
             PROVE  input.sealed = {input.car[i] : i \in DOMAIN input.car} \ {"other"}
  BY DEF SX!SealsEverySignature
<1>0. SigTypeOK
  BY DEF SigInv
<1>t. WriterFields /\ input.car \in Seq(SigNodes) /\ Len(input.car) \in Nat
  BY <1>0, SigFields
<1>l. /\ Executed \in Int /\ Received \in Int
      /\ Waiting \in Nat /\ Running \in Nat /\ Finished \in Nat /\ Returned \in Nat /\ Taken \in Nat
  BY <1>0, SigLengths, ZenonT(60)
<1>1. Waiting = 0 /\ Running = 0 /\ Finished = 0 /\ Returned = 0
  BY <1>l DEF SigInv, SigEnded, SigCounts
<1>2. /\ Elements(state.input) = {} /\ Elements(state.busy) = {}
      /\ Elements(state.finished) = {} /\ Elements(state.output) = {}
  BY <1>1, <1>t, NoElements, ZenonT(60) DEF Waiting, Running, Finished, Returned, WriterFields
<1>3. state.pos - 1 = Len(input.car)
  BY <1>0, <1>t DEF SigInv, SigEnded, SX!AtEnd, SigTypeOK
<1>4. DOMAIN input.car = 1..Len(input.car)
  BY <1>t
<1> QED
  BY <1>2, <1>3, <1>4, ZenonT(60) DEF SigInv, SigEnded, SigKept

\* For every CAR file and every size of the pool: an index that is sealed has the
\* signature of every transaction of the file (cmd-x-index-sig-exists.go, the two
\* wait groups).
THEOREM AlwaysSealsEverySignature == WalkSpec => []SealsEverySignature
<1> DEFINE I == which = "sig-exists" => SigInv
<1>a. SigCarsOk
  BY SigCarsAssumption, ZenonT(60) DEF SigCarsOk, SigNodes
<1>1. WalkInit => I
  BY <1>a, SigInitInv DEF WalkInit
<1>2. I /\ [WalkNext]_all => I'
  <2> SUFFICES ASSUME I, [WalkNext]_all, which' = "sig-exists" PROVE SigInv'
    OBVIOUS
  <2>1. which = "sig-exists" /\ [SX!Next]_(SX!vars)
    BY DEF WalkNext, all, SX!vars
  <2> QED
    BY <1>a, <2>1, SigStepInv
<1>3. I => SealsEverySignature
  BY <1>a, InvSeals DEF SealsEverySignature
<1> QED
  BY <1>1, <1>2, <1>3, PTL DEF WalkSpec
=============================================================================
