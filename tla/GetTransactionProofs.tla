------------------------- MODULE GetTransactionProofs -------------------------
(***************************************************************************)
(* Proofs about getTransaction, for any set of epochs, any number of reloads *)
(* and failed reads, and any search concurrency.                             *)
(***************************************************************************)
EXTENDS GetTransaction, FiniteSetTheorems, TLAPS

\* A leaf that names no prover is tried with SMT, with Zenon, and again with SMT;
\* the numbers are seconds.
USE SMTT(60), ZenonT(60), SMTT(90)

-----------------------------------------------------------------------------
(* FirstSuccess, for any functions, outcomes and concurrency.               *)

Done == {f \in fns : job[f] = "done"}

\* The caller's loop: what is still to be started is distinct and idle.
LoopInv ==
    /\ phase = "idle" => fns = {}
    /\ phase = "starting" => todo # <<>>
    /\ \A i \in 1..Len(todo) : todo[i] \in fns /\ job[todo[i]] = "idle"
    /\ \A i, j \in 1..Len(todo) : todo[i] = todo[j] => i = j
    /\ closed => phase \in {"receiving", "returned"} /\ fns = Done
    /\ winner # None => phase = "returned"

\* Where a result can be: with its goroutine, in the channel or received, or
\* lost once the context is done.
FlowInv ==
    /\ \A f \in Fns : job[f] # "idle" => f \in fns
    /\ \A f \in Fns : job[f] \in {"sending", "selecting", "done"} => result[f] \in Values \cup Errors
    /\ \A i \in 1..Len(results) : job[results[i]] = "done"
    /\ \A f \in errs : job[f] = "done" /\ result[f] \in Errors
    /\ winner # None => job[winner] = "done" /\ result[winner] \in Values
    /\ \A f \in Fns : job[f] = "done" =>
          ctxDone \/ f = winner \/ f \in errs \/ \E i \in 1..Len(results) : results[i] = f

\* The channel never holds more results than goroutines have ended.
RoomInv == Len(results) <= Cardinality(Done)

ReturnInv == phase = "returned" /\ winner = None /\ ~ctxDone => errs = fns

SearchInv == SearchTypeOK /\ LoopInv /\ FlowInv /\ RoomInv /\ ReturnInv

\* The functions of a call are finitely many.
LEMMA Finite ==
    ASSUME SearchTypeOK
    PROVE  /\ IsFiniteSet(fns) /\ IsFiniteSet(Done) /\ IsFiniteSet(errs)
           /\ Cardinality(fns) \in Nat /\ Cardinality(Done) \in Nat /\ Cardinality(errs) \in Nat
<1>1. fns \subseteq Fns /\ Done \subseteq fns /\ errs \subseteq fns
  BY DEF SearchTypeOK, Done
<1>2. IsFiniteSet(fns)
  BY <1>1, FnsAssumption, FS_Subset
<1>3. IsFiniteSet(Done) /\ IsFiniteSet(errs)
  BY <1>1, <1>2, FS_Subset
<1> QED
  BY <1>2, <1>3, FS_CardinalityType

\* A call passes a sequence.
LEMMA CallSeq == ASSUME NEW seq \in Calls PROVE seq \in Seq(Fns) /\ Len(seq) \in Nat
<1>1. Cardinality(Fns) \in Nat
  BY FnsAssumption, FS_CardinalityType
<1>2. PICK n \in 0..Cardinality(Fns) : seq \in [1..n -> Fns]
  BY DEF Calls
<1> QED
  BY <1>1, <1>2

LEMMA InitInv == SearchInit => SearchInv
<1> SUFFICES ASSUME SearchInit PROVE SearchInv
  OBVIOUS
<1>0. <<>> \in Seq(Fns) /\ Len(<<>>) = 0
  OBVIOUS
<1>1. SearchTypeOK /\ LoopInv /\ FlowInv /\ ReturnInv
  <2>1. SearchTypeOK
    BY <1>0, ZenonT(60) DEF SearchInit, SearchTypeOK
  <2>2. LoopInv
    BY <1>0 DEF SearchInit, LoopInv
  <2>3. FlowInv
    BY <1>0 DEF SearchInit, FlowInv
  <2> QED
    BY <2>1, <2>2, <2>3 DEF SearchInit, ReturnInv
<1>2. RoomInv
  BY <1>1, Finite DEF SearchInit, RoomInv
<1> QED
  BY <1>1, <1>2 DEF SearchInv

\* Type correctness is preserved.
LEMMA StepType == ASSUME SearchInv, [SearchNext]_searchVars PROVE SearchTypeOK'
<1> USE DEF SearchInv
<1>1. ASSUME NEW seq \in Calls, Call(seq) PROVE SearchTypeOK'
  BY <1>1, CallSeq DEF Call, SearchTypeOK, LoopInv
<1>2. CASE Start
  <2>1. todo # <<>> /\ Head(todo) \in Fns /\ Tail(todo) \in Seq(Fns)
    BY <1>2 DEF Start, SearchTypeOK, LoopInv
  <2> QED
    BY <1>2, <2>1 DEF Start, SearchTypeOK
<1>3. ASSUME NEW f \in Fns, GoroutineEnd(f) PROVE SearchTypeOK'
  <2>1. CASE Begin(f)
    BY <2>1, ErrorsAssumption, ZenonT(60) DEF Begin, SearchTypeOK
  <2>2. CASE Send(f)
    BY <2>2 DEF Send, SearchTypeOK
  <2>3. CASE Discard(f)
    BY <2>3 DEF Discard, SearchTypeOK
  <2> QED
    BY <1>3, <2>1, <2>2, <2>3 DEF GoroutineEnd
<1>4. ASSUME NEW f \in Fns, NEW r \in Values \cup Errors, Finish(f, r) PROVE SearchTypeOK'
  BY <1>4 DEF Finish, SearchTypeOK
<1>5. CASE CloseResults
  BY <1>5 DEF CloseResults, SearchTypeOK
<1>6. CASE Receive
  <2>1. Head(results) \in Fns /\ Tail(results) \in Seq(Fns) /\ Head(results) \in fns
    <3>1. results \in Seq(Fns) /\ results # <<>>
      BY <1>6 DEF Receive, SearchTypeOK
    <3>2. 1 \in 1..Len(results) /\ Head(results) = results[1]
      BY <3>1
    <3> QED
      BY <3>1, <3>2 DEF FlowInv
  <2> QED
    BY <1>6, <2>1 DEF Receive, SearchTypeOK
<1>7. CASE ReceiveClosed
  BY <1>7 DEF ReceiveClosed, SearchTypeOK
<1>8. CASE Cancel
  BY <1>8 DEF Cancel, SearchTypeOK
<1>9. CASE UNCHANGED searchVars
  BY <1>9 DEF searchVars, SearchTypeOK
<1> QED
  BY <1>1, <1>2, <1>3, <1>4, <1>5, <1>6, <1>7, <1>8, <1>9 DEF SearchNext, CallerStep

\* The caller's loop stays in order.
LEMMA StepLoop == ASSUME SearchInv, [SearchNext]_searchVars PROVE LoopInv'
<1> USE DEF SearchInv
<1>1. ASSUME NEW seq \in Calls, Call(seq) PROVE LoopInv'
  <2>1. seq \in Seq(Fns) /\ Len(seq) \in Nat /\ \A i \in 1..Len(seq) : seq[i] \in Fns
    BY CallSeq
  <2>2. \A i \in 1..Len(seq) : job[seq[i]] = "idle"
    BY <1>1, <2>1 DEF Call, LoopInv, FlowInv, SearchTypeOK
  <2> QED
    BY <1>1, <2>1, <2>2 DEF Call, LoopInv, Calls
<1>2. CASE Start
  <2>1. /\ todo \in Seq(Fns) /\ todo # <<>> /\ Len(todo) \in Nat \ {0}
        /\ Head(todo) = todo[1] /\ todo[1] \in Fns /\ Len(Tail(todo)) = Len(todo) - 1
        /\ \A i \in 1..Len(Tail(todo)) : Tail(todo)[i] = todo[i + 1]
    BY <1>2 DEF Start, SearchTypeOK, LoopInv
  <2>2. Tail(todo) = <<>> => Len(todo) = 1
    <3>1. Len(<<>>) = 0
      OBVIOUS
    <3>2. Tail(todo) = <<>> => Len(Tail(todo)) = 0
      BY ONLY <3>1, ZenonT(60)
    <3> QED
      BY ONLY <2>1, <3>2
  <2>3. \A i \in 1..Len(todo') : /\ i + 1 \in 1..Len(todo) /\ i + 1 # 1
                               /\ todo'[i] = todo[i + 1]
    BY <1>2, <2>1 DEF Start
  <2>4. \A i \in 1..Len(todo') : todo'[i] \in fns' /\ job'[todo'[i]] = "idle"
    BY <1>2, <2>1, <2>3 DEF Start, LoopInv, SearchTypeOK
  <2>5. \A i, j \in 1..Len(todo') : todo'[i] = todo'[j] => i = j
    <3> SUFFICES ASSUME NEW i \in 1..Len(todo'), NEW j \in 1..Len(todo'), todo'[i] = todo'[j]
                 PROVE  i = j
      OBVIOUS
    <3>1. i + 1 = j + 1
      BY <2>3 DEF LoopInv
    <3> QED
      BY <3>1, <2>1, <1>2 DEF Start
  <2> QED
    BY <1>2, <2>1, <2>2, <2>4, <2>5 DEF Start, LoopInv
<1>3. ASSUME NEW f \in Fns, job[f] \in {"started", "running", "sending", "selecting"},
             NEW s, s # "idle", job' = [job EXCEPT ![f] = s],
             UNCHANGED <<phase, fns, todo, closed, winner>>
      PROVE  LoopInv'
  <2>1. f \in fns /\ ~closed
    BY <1>3 DEF LoopInv, FlowInv, Done
  <2>2. \A i \in 1..Len(todo) : job'[todo[i]] = job[todo[i]]
    BY <1>3 DEF LoopInv, SearchTypeOK
  <2> QED
    BY <1>3, <2>1, <2>2 DEF LoopInv
<1>4. ASSUME NEW f \in Fns, GoroutineEnd(f) PROVE LoopInv'
  <2>1. CASE Begin(f) /\ ctxDone
    BY <2>1, <1>3 DEF Begin
  <2>2. CASE Begin(f) /\ ~ctxDone
    BY <2>2, <1>3 DEF Begin
  <2>3. CASE Send(f)
    BY <2>3, <1>3, ZenonT(60) DEF Send
  <2>4. CASE Discard(f)
    BY <2>4, <1>3, ZenonT(60) DEF Discard
  <2> QED
    BY <1>4, <2>1, <2>2, <2>3, <2>4 DEF GoroutineEnd
<1>5. ASSUME NEW f \in Fns, NEW r, Finish(f, r) PROVE LoopInv'
  BY <1>3, <1>5, ZenonT(60) DEF Finish
<1>6. CASE CloseResults
  BY <1>6 DEF CloseResults, LoopInv, Done
<1>7. CASE Receive
  BY <1>7 DEF Receive, LoopInv, Done
<1>8. CASE ReceiveClosed
  BY <1>8 DEF ReceiveClosed, LoopInv, Done
<1>9. CASE Cancel
  BY <1>9 DEF Cancel, LoopInv, Done
<1>10. CASE UNCHANGED searchVars
  BY <1>10 DEF searchVars, LoopInv, Done
<1> QED
  BY <1>1, <1>2, <1>4, <1>5, <1>6, <1>7, <1>8, <1>9, <1>10 DEF SearchNext, CallerStep

\* A result stays where it can be found.
LEMMA StepFlow == ASSUME SearchInv, [SearchNext]_searchVars PROVE FlowInv'
<1> USE DEF SearchInv
<1>1. ASSUME NEW seq \in Calls, Call(seq) PROVE FlowInv'
  BY <1>1 DEF Call, LoopInv, FlowInv
<1>2. CASE Start
  <2>1. todo \in Seq(Fns) /\ Head(todo) = todo[1] /\ 1 \in 1..Len(todo) /\ todo[1] \in Fns
    BY <1>2 DEF Start, SearchTypeOK, LoopInv
  <2>2. todo[1] \in fns /\ job[todo[1]] = "idle"
    BY <2>1 DEF LoopInv
  <2>3. \A f \in Fns : job'[f] = IF f = todo[1] THEN "started" ELSE job[f]
    BY <1>2, <2>1 DEF Start, SearchTypeOK
  <2>4. \A i \in 1..Len(results) : results[i] \in Fns
    BY DEF SearchTypeOK
  <2> QED
    BY <1>2, <2>2, <2>3, <2>4 DEF Start, FlowInv, SearchTypeOK
<1>3. ASSUME NEW f \in Fns, job[f] \in {"started", "running"}, NEW s, s \in {"running", "sending", "selecting"},
             job' = [job EXCEPT ![f] = s],
             \A g \in Fns \ {f} : result'[g] = result[g],
             s # "running" => result'[f] \in Values \cup Errors,
             UNCHANGED <<ctxDone, fns, results, errs, winner>>
      PROVE  FlowInv'
  <2>1. \A g \in Fns : job'[g] = IF g = f THEN s ELSE job[g]
    BY <1>3 DEF SearchTypeOK
  <2>2. \A i \in 1..Len(results) : results[i] \in Fns
    BY DEF SearchTypeOK
  <2> QED
    BY <1>3, <2>1, <2>2 DEF FlowInv, SearchTypeOK
<1>4. ASSUME NEW f \in Fns, Begin(f) PROVE FlowInv'
  <2>1. CASE ctxDone
    BY <1>3, <1>4, <2>1, ErrorsAssumption DEF Begin, SearchTypeOK
  <2>2. CASE ~ctxDone
    BY <1>3, <1>4, <2>2 DEF Begin
  <2> QED
    BY <2>1, <2>2
<1>5. ASSUME NEW f \in Fns, NEW r \in Values \cup Errors, Finish(f, r) PROVE FlowInv'
  BY <1>3, <1>5, ZenonT(60) DEF Finish, SearchTypeOK
<1>6. ASSUME NEW f \in Fns, Send(f) PROVE FlowInv'
  <2>1. \A g \in Fns : job'[g] = IF g = f THEN "done" ELSE job[g]
    BY <1>6 DEF Send, SearchTypeOK
  <2>2. /\ Len(results') = Len(results) + 1 /\ Len(results) \in Nat
        /\ \A i \in 1..Len(results) : results'[i] = results[i] /\ results[i] \in Fns
        /\ results'[Len(results) + 1] = f
    BY <1>6 DEF Send, SearchTypeOK
  <2>3. \A i \in 1..Len(results') : i \in 1..Len(results) \/ i = Len(results) + 1
    BY <2>2
  <2>4. \A i \in 1..Len(results) : i \in 1..Len(results')
    BY <2>2
  <2>5. Len(results) + 1 \in 1..Len(results')
    BY <2>2
  <2> QED
    BY <1>6, <2>1, <2>2, <2>3, <2>4, <2>5 DEF Send, FlowInv, SearchTypeOK
<1>7. ASSUME NEW f \in Fns, Discard(f) PROVE FlowInv'
  <2>1. \A g \in Fns : job'[g] = IF g = f THEN "done" ELSE job[g]
    BY <1>7 DEF Discard, SearchTypeOK
  <2>2. \A i \in 1..Len(results) : results[i] \in Fns
    BY DEF SearchTypeOK
  <2> QED
    BY <1>7, <2>1, <2>2 DEF Discard, FlowInv, SearchTypeOK
<1>8. CASE CloseResults
  BY <1>8 DEF CloseResults, FlowInv
<1>9. CASE Receive
  <2>1. results \in Seq(Fns) /\ results # <<>>
    BY <1>9 DEF Receive, SearchTypeOK
  <2>2. /\ Len(results) \in Nat \ {0} /\ Len(results') = Len(results) - 1
        /\ Head(results) = results[1] /\ results[1] \in Fns
        /\ \A i \in 1..Len(results') : results'[i] = results[i + 1]
    BY <1>9, <2>1 DEF Receive
  <2>3. job[results[1]] = "done" /\ result[results[1]] \in Values \cup Errors
    BY <2>2 DEF FlowInv
  <2>4. \A i \in 1..Len(results') : i + 1 \in 1..Len(results)
    BY <2>2
  <2>5. \A i \in 1..Len(results) : i = 1 \/ (i - 1 \in 1..Len(results') /\ results'[i - 1] = results[i])
    BY <2>2
  <2>6. \A f \in Fns : job[f] = "done" =>
           \/ ctxDone \/ f = winner' \/ f \in errs'
           \/ \E i \in 1..Len(results') : results'[i] = f
    <3> SUFFICES ASSUME NEW f \in Fns, job[f] = "done", ~ctxDone, f # winner', f \notin errs'
                 PROVE  \E i \in 1..Len(results') : results'[i] = f
      OBVIOUS
    <3>1. f # results[1] /\ f # winner /\ f \notin errs
      BY <1>9, <2>2, FnsAssumption DEF Receive, LoopInv
    <3> QED
      BY <3>1, <2>5 DEF FlowInv
  <2> QED
    BY <1>9, <2>2, <2>3, <2>4, <2>6 DEF Receive, FlowInv
<1>10. CASE ReceiveClosed
  BY <1>10 DEF ReceiveClosed, FlowInv
<1>11. CASE Cancel
  BY <1>11 DEF Cancel, FlowInv
<1>12. CASE UNCHANGED searchVars
  BY <1>12 DEF searchVars, FlowInv
<1> QED
  BY ZenonT(60), <1>1, <1>2, <1>4, <1>5, <1>6, <1>7, <1>8, <1>9, <1>10, <1>11, <1>12
  DEF SearchNext, CallerStep, GoroutineEnd

\* A result is sent by a goroutine that ends with it.
LEMMA StepRoom == ASSUME SearchInv, [SearchNext]_searchVars PROVE RoomInv'
<1> USE DEF SearchInv
<1>1. SearchTypeOK' /\ LoopInv' /\ FlowInv'
  BY StepType, StepLoop, StepFlow
<1>2. IsFiniteSet(Done) /\ Cardinality(Done) \in Nat /\ IsFiniteSet(Done') /\ Cardinality(Done') \in Nat
  <2>1. IsFiniteSet(Done')
    <3>1. Done' \subseteq Fns
      BY <1>1 DEF Done, SearchTypeOK
    <3> QED
      BY <3>1, FnsAssumption, FS_Subset
  <2> QED
    BY <2>1, Finite, FS_CardinalityType
<1>3. Len(results) \in Nat
  BY DEF SearchTypeOK
<1>4. ASSUME Done \subseteq Done', Len(results') \in Nat, Len(results') <= Len(results)
      PROVE  RoomInv'
  <2>1. Cardinality(Done) <= Cardinality(Done')
    BY <1>2, <1>4, FS_Subset
  <2> QED
    BY <1>2, <1>3, <1>4, <2>1 DEF RoomInv
<1>5. ASSUME NEW seq \in Calls, Call(seq) PROVE RoomInv'
  BY <1>3, <1>4, <1>5 DEF Call, LoopInv, Done
<1>6. CASE Start
  <2>1. todo[1] \in Fns /\ job[todo[1]] = "idle" /\ Head(todo) = todo[1]
    BY <1>6 DEF Start, SearchTypeOK, LoopInv
  <2> QED
    BY <1>3, <1>4, <1>6, <2>1 DEF Start, Done, SearchTypeOK
<1>7. ASSUME NEW f \in Fns, Send(f) PROVE RoomInv'
  <2>1. f \in fns /\ f \notin Done
    BY <1>7 DEF Send, FlowInv, Done
  <2>2. Done' = Done \cup {f}
    BY <1>7, <2>1 DEF Send, Done, SearchTypeOK
  <2>3. Cardinality(Done') = Cardinality(Done) + 1
    BY <1>2, <2>1, <2>2, FS_AddElement
  <2>4. Len(results') = Len(results) + 1
    BY <1>7 DEF Send, SearchTypeOK
  <2> QED
    BY <1>2, <1>3, <2>3, <2>4 DEF RoomInv
<1>8. ASSUME NEW f \in Fns, Begin(f) PROVE RoomInv'
  BY <1>3, <1>4, <1>8 DEF Begin, Done, SearchTypeOK
<1>9. ASSUME NEW f \in Fns, Discard(f) PROVE RoomInv'
  BY <1>3, <1>4, <1>9 DEF Discard, Done, SearchTypeOK
<1>10. ASSUME NEW f \in Fns, NEW r, Finish(f, r) PROVE RoomInv'
  BY <1>3, <1>4, <1>10 DEF Finish, Done, SearchTypeOK
<1>11. CASE Receive
  <2>1. Len(results') \in Nat /\ Len(results') <= Len(results)
    BY <1>11 DEF Receive, SearchTypeOK
  <2> QED
    BY <1>4, <1>11, <2>1 DEF Receive, Done
<1>12. CASE CloseResults \/ ReceiveClosed \/ Cancel \/ UNCHANGED searchVars
  BY <1>3, <1>4, <1>12 DEF CloseResults, ReceiveClosed, Cancel, searchVars, Done
<1> QED
  BY <1>5, <1>6, <1>7, <1>8, <1>9, <1>10, <1>11, <1>12 DEF SearchNext, CallerStep, GoroutineEnd

\* Without a success the caller returns only with all the errors.
LEMMA StepReturn == ASSUME SearchInv, [SearchNext]_searchVars PROVE ReturnInv'
<1> USE DEF SearchInv
<1>1. CASE Receive
  <2> SUFFICES ASSUME phase' = "returned", winner' = None, ~ctxDone' PROVE errs' = fns'
    BY DEF ReturnInv
  <2>1. Head(results) \in Fns
    BY <1>1 DEF Receive, SearchTypeOK
  <2>2. Cardinality(errs') = Cardinality(fns)
    BY <1>1, <2>1, FnsAssumption DEF Receive
  <2>3. errs' \subseteq fns
    BY <1>1, StepType DEF SearchTypeOK, Receive
  <2> QED
    BY <1>1, <2>2, <2>3, Finite, FS_Subset DEF Receive
<1>2. CASE ReceiveClosed
  <2>1. Len(results) = 0
    BY <1>2 DEF ReceiveClosed
  <2>2. winner = None
    BY <1>2 DEF ReceiveClosed, LoopInv
  <2>3. ~ctxDone => \A f \in fns : f \in errs
    BY <1>2, <2>1, <2>2, FnsAssumption DEF ReceiveClosed, LoopInv, FlowInv, Done, SearchTypeOK
  <2> QED
    BY <1>2, <2>3, ZenonT(60) DEF ReceiveClosed, ReturnInv, SearchTypeOK
<1>3. ASSUME NEW seq \in Calls, Call(seq) PROVE ReturnInv'
  BY <1>3 DEF Call, ReturnInv
<1>4. CASE Start
  BY <1>4 DEF Start, ReturnInv
<1>5. ASSUME NEW f \in Fns, GoroutineEnd(f) PROVE ReturnInv'
  BY <1>5 DEF GoroutineEnd, Begin, Send, Discard, ReturnInv
<1>6. ASSUME NEW f \in Fns, NEW r, Finish(f, r) PROVE ReturnInv'
  BY <1>6, ZenonT(60) DEF Finish, ReturnInv
<1>7. CASE CloseResults \/ Cancel \/ UNCHANGED searchVars
  BY <1>7 DEF CloseResults, Cancel, searchVars, ReturnInv
<1> QED
  BY <1>1, <1>2, <1>3, <1>4, <1>5, <1>6, <1>7 DEF SearchNext, CallerStep

\* The inductive invariant of FirstSuccess: how the functions, the channel and
\* the goroutine that closes it account for every result.
THEOREM SearchInvariant == SearchSpec => []SearchInv
<1>1. SearchInv /\ [SearchNext]_searchVars => SearchInv'
  BY StepType, StepLoop, StepFlow, StepRoom, StepReturn DEF SearchInv
<1> QED
  BY <1>1, InitInv, PTL DEF SearchSpec

\* FirstSuccess returns without a success only when it has every error, unless
\* the context ended: for any number of functions and any concurrency.
THEOREM ErrorsComplete == SearchSpec => []AllErrorsReturned
<1>1. SearchInv => AllErrorsReturned
  BY DEF SearchInv, ReturnInv, FlowInv, AllErrorsReturned
<1> QED
  BY <1>1, SearchInvariant, PTL

\* No goroutine of FirstSuccess waits for room in the result channel.
THEOREM SendersFree == SearchSpec => []SendersNeverBlock
<1>1. SearchInv => SendersNeverBlock
  <2> SUFFICES ASSUME SearchInv, NEW f \in Fns, job[f] \in {"sending", "selecting"}
               PROVE  Len(results) < Cardinality(fns)
    BY DEF SendersNeverBlock
  <2>1. f \in fns /\ f \notin Done /\ Done \subseteq fns
    BY DEF SearchInv, FlowInv, Done
  <2>2. SearchTypeOK
    BY DEF SearchInv
  <2>3. Cardinality(Done) < Cardinality(fns)
    BY <2>1, <2>2, Finite, FS_Subset
  <2> QED
    BY <2>2, <2>3, Finite DEF SearchInv, RoomInv, SearchTypeOK
<1> QED
  BY <1>1, SearchInvariant, PTL

-----------------------------------------------------------------------------
(* The request.                                                             *)

\* A sorted list of loaded epochs is a list of distinct functions.
LEMMA DescendingCalls == ASSUME NEW S, S \subseteq Fns PROVE Descending(S) \subseteq Calls
<1> SUFFICES ASSUME NEW seq \in Descending(S) PROVE seq \in Calls
  OBVIOUS
<1>1. IsFiniteSet(S) /\ Cardinality(S) \in Nat /\ Cardinality(Fns) \in Nat
  BY FnsAssumption, FS_Subset, FS_CardinalityType
<1>2. Cardinality(S) \in 0..Cardinality(Fns)
  BY <1>1, FnsAssumption, FS_Subset
<1>3. seq \in [1..Cardinality(S) -> Fns]
  BY DEF Descending
<1>4. Len(seq) = Cardinality(S)
  BY <1>1, <1>3
<1>5. \A i, j \in 1..Len(seq) : seq[i] = seq[j] => i = j
  <2> SUFFICES ASSUME NEW i \in 1..Len(seq), NEW j \in 1..Len(seq), i # j PROVE seq[i] # seq[j]
    OBVIOUS
  <2>1. seq[i] \in Nat /\ seq[j] \in Nat
    BY <1>3, <1>4, EpochsAssumption, ZenonT(60) DEF Epochs
  <2>2. i < j \/ j < i
    BY <1>1, <1>4
  <2> QED
    BY <1>4, <2>1, <2>2 DEF Descending
<1> QED
  BY <1>2, <1>3, <1>5 DEF Calls

\* The empty list is a call.
LEMMA EmptyCall == <<>> \in Calls
<1>1. Cardinality(Fns) \in Nat
  BY FnsAssumption, FS_CardinalityType
<1>2. <<>> \in [1..0 -> Fns] /\ Len(<<>>) = 0
  OBVIOUS
<1>3. 0 \in 0..Cardinality(Fns)
  BY <1>1
<1> QED
  BY <1>2, <1>3 DEF Calls

\* GetEpochNumbers returns each epoch once.
Listed == numbers \in Calls

\* Every step of a request is a step of FirstSuccess or leaves it alone.
LEMMA SearchStep ==
    ASSUME numbers \in Calls, [Next]_vars
    PROVE  [SearchNext]_searchVars /\ numbers' \in Calls
<1> USE DEF Epochs
<1>1. CASE Search
  BY <1>1 DEF Search, SearchNext
<1>2. CASE GetEpochNumbers
  <2>1. Available \subseteq Fns
    BY ZenonT(60) DEF Available
  <2> QED
    BY <1>2, <2>1, DescendingCalls DEF GetEpochNumbers, searchVars
<1>3. CASE Count \/ Single \/ Searched \/ GetFound \/ ReadTransaction \/ BlockTime \/ Decode
  BY <1>3 DEF Count, Single, Searched, GetFound, ReadTransaction, BlockTime, Decode
<1>4. CASE FrameSearch /\ (CallerStep \/ CloseResults \/ Cancel)
  BY <1>4 DEF FrameSearch, SearchNext, requestVars
<1>5. ASSUME NEW e \in Epochs, JobStep(e) PROVE [SearchNext]_searchVars /\ numbers' \in Calls
  <2>1. e \in Values /\ {NotFound, Failed, CtxErr} \subseteq Errors
    BY EpochsAssumption, NotFoundAssumption, ErrorsAssumption, ZenonT(60)
  <2>2. CASE Probe(e)
    BY <2>1, <2>2 DEF Probe, Goto, SearchNext, requestVars
  <2>3. CASE GetEpoch(e)
    BY <2>1, <2>3 DEF GetEpoch, Goto, SearchNext, requestVars
  <2>4. CASE Find(e)
    BY <2>1, <2>4 DEF Find, SearchNext, requestVars
  <2>5. CASE GoroutineEnd(e) /\ FrameSearch
    BY <2>5 DEF FrameSearch, SearchNext, requestVars
  <2> QED
    BY <1>5, <2>2, <2>3, <2>4, <2>5 DEF JobStep
<1>6. ASSUME NEW e \in Epochs, InstallEpoch(e) \/ RemoveEpoch(e)
      PROVE  [SearchNext]_searchVars /\ numbers' \in Calls
  BY <1>6 DEF InstallEpoch, RemoveEpoch, requestVars
<1>7. CASE UNCHANGED vars
  BY <1>7 DEF vars, requestVars
<1> QED
  BY <1>1, <1>2, <1>3, <1>4, <1>5, <1>6, <1>7 DEF Next, RequestStep

\* A getTransaction request uses FirstSuccess as it is specified: each epoch is
\* searched by one function, which returns once.
THEOREM Refinement == Spec => ImplementsFirstSuccess
<1>1. Init => SearchInit /\ Listed
  BY EmptyCall DEF Init, Listed
<1>2. Listed /\ [Next]_vars => [SearchNext]_searchVars /\ Listed'
  BY SearchStep DEF Listed
<1> QED
  BY <1>1, <1>2, PTL DEF Spec, ImplementsFirstSuccess, SearchSpec

\* So what is proved of FirstSuccess holds of the search for the epoch.
THEOREM SearchComplete == Spec => [](AllErrorsReturned /\ SendersNeverBlock)
  BY Refinement, ErrorsComplete, SendersFree, PTL DEF ImplementsFirstSuccess

\* Which epochs a request can have come to: a function that got past its probe
\* and a value it returned name an epoch of whose sig-exists index it is in.
FoundInv ==
    /\ inIndex \subseteq Fns
    /\ \A e \in Fns : step[e] \in {"get", "find"} => e \in inBucket
    /\ \A e \in Fns : result[e] \in Values => result[e] = e /\ e \in inBucket
    /\ pc \in {"count", "single", "numbers", "buckets", "search"} => found = None
    /\ pc \in {"count", "single", "numbers", "buckets"} => phase = "idle"
    /\ pc # "done" => reply = "none"
    /\ found # None /\ phase # "idle" => found \in inBucket
    /\ pc \in {"time", "decode"} \/ reply = "result" => found \in inIndex

RequestInv == SearchInv /\ Listed /\ TypeOK /\ FoundInv

LEMMA RequestInit == Init => RequestInv
<1> SUFFICES ASSUME Init PROVE RequestInv
  OBVIOUS
<1>1. SearchInv /\ Listed
  BY InitInv, EmptyCall DEF Init, Listed
<1>2. TypeOK
  <2>1. SearchTypeOK /\ <<>> \in Seq(Epochs)
    BY <1>1 DEF SearchInv
  <2> QED
    BY <2>1, BoundsAssumption DEF Init, TypeOK, Available
<1>3. FoundInv
  BY NoneAssumption DEF Init, FoundInv, SearchInit, Epochs
<1> QED
  BY <1>1, <1>2, <1>3 DEF RequestInv

\* Type correctness is preserved.
LEMMA RequestType == ASSUME RequestInv, [Next]_vars PROVE TypeOK'
<1> USE DEF RequestInv, Epochs
<1>0. SearchTypeOK'
  BY SearchStep, StepType, ZenonT(60) DEF Listed
<1>1. CASE Count
  BY <1>0, <1>1, ZenonT(60) DEF Count, Fail, TypeOK, dataVars, registryVars, jobVars
<1>2. CASE Single
  <2>1. Cardinality(Available) = 1 => (CHOOSE e \in Available : TRUE) \in Fns
    <3>1. Cardinality(Available) = 1 => Available # {}
      BY FS_EmptySet
    <3> QED
      BY <3>1 DEF Available
  <2> QED
    BY <1>0, <1>2, <2>1, ZenonT(60) DEF Single, TypeOK, dataVars, registryVars, jobVars
<1>3. CASE GetEpochNumbers
  <2>1. numbers' \in Calls
    BY SearchStep, ZenonT(60) DEF Listed
  <2> QED
    BY <1>0, <1>3, <2>1, CallSeq DEF GetEpochNumbers, TypeOK, dataVars, registryVars, jobVars
<1>4. CASE Search
  BY <1>0, <1>4, ZenonT(60) DEF Search, TypeOK, dataVars, registryVars, jobVars
<1>5. CASE Searched
  <2>1. winner # None => result[winner] \in Fns
    BY EpochsAssumption DEF SearchInv, FlowInv
  <2> QED
    BY <1>0, <1>5, <2>1, ZenonT(60) DEF Searched, Fail, TypeOK, dataVars, registryVars, jobVars
<1>6. CASE GetFound
  BY <1>0, <1>6, ZenonT(60) DEF GetFound, Fail, TypeOK, dataVars, registryVars
<1>7. CASE ReadTransaction
  BY <1>0, <1>7, BoundsAssumption DEF ReadTransaction, Read, Fail, TypeOK, dataVars, registryVars, jobVars
<1>8. CASE BlockTime
  BY <1>0, <1>8, BoundsAssumption DEF BlockTime, TypeOK, dataVars, registryVars, jobVars
<1>9. CASE Decode
  BY <1>0, <1>9, BoundsAssumption DEF Decode, Read, Fail, TypeOK, dataVars, registryVars, jobVars
<1>10. CASE FrameSearch
  BY <1>0, <1>10, ZenonT(60) DEF FrameSearch, TypeOK, dataVars, registryVars, requestVars, jobVars
<1>11. ASSUME NEW e \in Epochs, Probe(e) PROVE TypeOK'
  <2>1. step' \in [Epochs -> {"probe", "get", "find"}]
    BY <1>11, ZenonT(60) DEF Probe, Goto, TypeOK
  <2>2. faults' \in 0..MaxFaults
    BY <1>11, BoundsAssumption DEF Probe, Read, TypeOK
  <2> QED
    BY <1>0, <1>11, <2>1, <2>2, ZenonT(60) DEF Probe, TypeOK, dataVars, registryVars, requestVars
<1>12. ASSUME NEW e \in Epochs, GetEpoch(e) PROVE TypeOK'
  BY <1>0, <1>12, ZenonT(60) DEF GetEpoch, Goto, TypeOK, dataVars, registryVars, requestVars, jobVars
<1>13. ASSUME NEW e \in Epochs, Find(e) PROVE TypeOK'
  BY <1>0, <1>13, BoundsAssumption DEF Find, Read, TypeOK, dataVars, registryVars, requestVars, jobVars
<1>14. ASSUME NEW e \in Epochs, InstallEpoch(e) \/ RemoveEpoch(e) PROVE TypeOK'
  <2>1. changes' \in 0..MaxChanges /\ epochs' \in [Epochs -> 0..MaxChanges + 1]
    <3>1. CASE InstallEpoch(e)
      BY <3>1, BoundsAssumption DEF InstallEpoch, TypeOK
    <3>2. CASE RemoveEpoch(e)
      BY <3>2, BoundsAssumption DEF RemoveEpoch, TypeOK
    <3> QED
      BY <1>14, <3>1, <3>2, ZenonT(60)
  <2>2. CASE InstallEpoch(e)
    BY <1>0, <2>1, <2>2, ZenonT(60) DEF InstallEpoch, TypeOK, dataVars, requestVars, jobVars
  <2>3. CASE RemoveEpoch(e)
    BY <1>0, <2>1, <2>3, ZenonT(60) DEF RemoveEpoch, TypeOK, dataVars, requestVars, jobVars
  <2> QED
    BY <1>14, <2>2, <2>3
<1>15. CASE UNCHANGED vars
  BY <1>0, <1>15, ZenonT(60) DEF vars, TypeOK, dataVars, registryVars, requestVars, jobVars
<1> QED
  BY ZenonT(60), <1>1, <1>2, <1>3, <1>4, <1>5, <1>6, <1>7, <1>8, <1>9, <1>10, <1>11, <1>12, <1>13, <1>14, <1>15
  DEF Next, RequestStep, JobStep

\* What the functions returned is only changed by their return.
LEMMA ResultStep ==
    ASSUME SearchTypeOK, CallerStep \/ CloseResults \/ Cancel \/ \E f \in Fns : GoroutineEnd(f)
    PROVE  /\ \A e \in Fns : result'[e] \in {result[e], CtxErr}
           /\ phase = "idle" <=> phase' = "idle"
  BY DEF CallerStep, Start, Receive, ReceiveClosed, CloseResults, Cancel, GoroutineEnd, Begin, Send,
         Discard, SearchTypeOK

\* FoundInv is preserved.
LEMMA RequestFound == ASSUME RequestInv, [Next]_vars PROVE FoundInv'
<1> USE DEF RequestInv, Epochs
<1>0. Values = Fns /\ \A e \in Errors \cup {None} : e \notin Values
  BY EpochsAssumption, ErrorsAssumption, NoneAssumption, ZenonT(60)
<1>1. CASE Count
  BY <1>1, ZenonT(60) DEF Count, Fail, FoundInv, dataVars, jobVars, searchVars
<1>2. CASE Single
  BY <1>2, ZenonT(60) DEF Single, FoundInv, dataVars, jobVars, searchVars
<1>3. CASE GetEpochNumbers
  BY <1>3, ZenonT(60) DEF GetEpochNumbers, FoundInv, dataVars, jobVars, searchVars
<1>4. CASE Search
  BY <1>4, ZenonT(60) DEF Search, Call, FoundInv, dataVars, jobVars
<1>5. CASE Searched
  <2>1. winner # None => winner \in Fns /\ result[winner] \in Values
    BY ZenonT(60) DEF SearchInv, FlowInv, SearchTypeOK
  <2> QED
    BY <1>5, <2>1, ZenonT(60) DEF Searched, Fail, FoundInv, dataVars, jobVars, searchVars
<1>6. CASE GetFound
  BY <1>6, ZenonT(60) DEF GetFound, Fail, FoundInv, dataVars, searchVars
<1>7. CASE ReadTransaction
  BY <1>7, ZenonT(60) DEF ReadTransaction, Fail, FoundInv, dataVars, jobVars, searchVars
<1>8. CASE BlockTime
  BY <1>8, ZenonT(60) DEF BlockTime, FoundInv, dataVars, jobVars, searchVars
<1>9. CASE Decode
  BY <1>9, ZenonT(60) DEF Decode, Fail, FoundInv, dataVars, jobVars, searchVars
<1>10. CASE FrameSearch /\ (CallerStep \/ CloseResults \/ Cancel \/ \E e \in Fns : GoroutineEnd(e))
  <2>1. CtxErr \notin Values
    BY <1>0, ErrorsAssumption, ZenonT(60)
  <2> QED
    BY <1>10, <2>1, ResultStep DEF FrameSearch, FoundInv, SearchInv, dataVars, requestVars, jobVars
<1>11. ASSUME NEW e \in Epochs, NEW r, Finish(e, r), r \in Errors \/ (r = e /\ e \in inBucket),
              UNCHANGED <<dataVars, requestVars, step>>
       PROVE  FoundInv'
  BY <1>0, <1>11, ZenonT(60) DEF Finish, FoundInv, SearchInv, SearchTypeOK, dataVars, requestVars
<1>12. ASSUME NEW e \in Epochs, NEW s, Goto(e, s), e \in inBucket, UNCHANGED <<dataVars, requestVars>>
       PROVE  FoundInv'
  BY <1>12 DEF Goto, FoundInv, TypeOK, dataVars, requestVars, searchVars
<1>13. {NotFound, Failed, CtxErr} \subseteq Errors
  BY NotFoundAssumption, ErrorsAssumption
<1>14. ASSUME NEW e \in Epochs, Probe(e) PROVE FoundInv'
  <2>1. UNCHANGED <<dataVars, requestVars>>
    BY <1>14 DEF Probe
  <2>2. \/ e \in inBucket /\ Goto(e, "get")
        \/ UNCHANGED step /\ \E r \in {NotFound, Failed, CtxErr} : Finish(e, r)
    BY <1>14, ZenonT(60) DEF Probe
  <2> QED
    BY <1>11, <1>12, <1>13, <2>1, <2>2
<1>15. ASSUME NEW e \in Epochs, GetEpoch(e) PROVE FoundInv'
  <2>1. e \in inBucket
    BY <1>15 DEF GetEpoch, At, FoundInv
  <2> QED
    BY <1>11, <1>12, <1>13, <1>15, <2>1, ZenonT(60) DEF GetEpoch, jobVars
<1>16. ASSUME NEW e \in Epochs, Find(e) PROVE FoundInv'
  <2>1. e \in inBucket
    BY <1>16, ZenonT(60) DEF Find, At, FoundInv
  <2> QED
    BY <1>11, <1>13, <1>16, <2>1, ZenonT(60) DEF Find, jobVars
<1>17. ASSUME NEW e \in Epochs, InstallEpoch(e) \/ RemoveEpoch(e) PROVE FoundInv'
  BY <1>17, ZenonT(60) DEF InstallEpoch, RemoveEpoch, FoundInv, dataVars, requestVars, jobVars, searchVars
<1>18. CASE UNCHANGED vars
  BY <1>18, ZenonT(60) DEF vars, FoundInv, dataVars, requestVars, jobVars, searchVars
<1> QED
  BY ZenonT(60), <1>1, <1>2, <1>3, <1>4, <1>5, <1>6, <1>7, <1>8, <1>9, <1>10, <1>14, <1>15, <1>16, <1>17, <1>18
  DEF Next, RequestStep, JobStep

\* The inductive invariant of a getTransaction request.
THEOREM RequestInvariant == Spec => []RequestInv
<1>1. RequestInv /\ [Next]_vars => RequestInv'
  <2> SUFFICES ASSUME RequestInv, [Next]_vars PROVE RequestInv'
    OBVIOUS
  <2>1. [SearchNext]_searchVars /\ Listed'
    BY SearchStep DEF RequestInv, Listed
  <2>2. SearchInv'
    BY <2>1, StepType, StepLoop, StepFlow, StepRoom, StepReturn DEF RequestInv, SearchInv
  <2> QED
    BY <2>1, <2>2, RequestType, RequestFound DEF RequestInv
<1> QED
  BY <1>1, RequestInit, PTL DEF Spec

\* The state of a getTransaction request stays well typed.
THEOREM TypeCorrect == Spec => []TypeOK
<1>1. RequestInv => TypeOK
  BY ZenonT(60) DEF RequestInv
<1> QED
  BY <1>1, RequestInvariant, PTL

\* A transaction is only served from an epoch whose sig-to-cid index finds the
\* signature, and after a search whose sig-exists index does too: whatever is
\* reloaded between the search, the second GetEpoch and the reads.
THEOREM ResultsVerified == Spec => []ResultVerified
<1>1. RequestInv => ResultVerified
  BY FnsAssumption, ZenonT(60) DEF RequestInv, FoundInv, ResultVerified
<1> QED
  BY <1>1, RequestInvariant, PTL

\* Answered is preserved: faults never go down, and only BlockTime ends a
\* request without a reply.
LEMMA AnsweredStep == ASSUME TypeOK, Answered, [Next]_vars PROVE Answered'
<1> USE DEF Answered
<1>0. faults \in Nat
  BY BoundsAssumption DEF TypeOK
<1>1. ASSUME NEW error, Fail(error) PROVE Answered'
  BY <1>1 DEF Fail
<1>2. CASE Count
  BY <1>1, <1>2 DEF Count
<1>3. CASE Single \/ GetEpochNumbers \/ Search
  BY <1>3 DEF Single, GetEpochNumbers, Search
<1>4. CASE Searched
  BY <1>1, <1>4 DEF Searched
<1>5. CASE GetFound
  BY <1>1, <1>5 DEF GetFound
<1>6. CASE ReadTransaction
  BY <1>1, <1>6 DEF ReadTransaction
<1>7. CASE BlockTime
  BY <1>0, <1>7 DEF BlockTime
<1>8. CASE Decode
  BY <1>1, <1>8 DEF Decode
<1>9. CASE FrameSearch
  BY <1>9 DEF FrameSearch, requestVars
<1>10. ASSUME NEW e \in Epochs, Probe(e) \/ GetEpoch(e) \/ Find(e) PROVE Answered'
  <2>1. pc' = pc /\ reply' = reply
    BY <1>10, ZenonT(60) DEF Probe, GetEpoch, Find, requestVars
  <2>2. faults' \in {faults, faults + 1}
    BY <1>10, ZenonT(60) DEF Probe, GetEpoch, Find, Read
  <2> QED
    BY <1>0, <2>1, <2>2
<1>11. ASSUME NEW e \in Epochs, InstallEpoch(e) \/ RemoveEpoch(e) PROVE Answered'
  BY <1>11 DEF InstallEpoch, RemoveEpoch, requestVars
<1>12. CASE UNCHANGED vars
  BY <1>12 DEF vars, requestVars
<1> QED
  BY ZenonT(60), <1>2, <1>3, <1>4, <1>5, <1>6, <1>7, <1>8, <1>9, <1>10, <1>11, <1>12
  DEF Next, RequestStep, JobStep

\* Only a failed block time leaves a request without a reply: every other path of
\* handleGetTransaction ends with a result or an error for newMultiEpochHandler.
THEOREM AlwaysAnswered == Spec => []Answered
<1>1. Init => Answered
  BY DEF Init, Answered
<1>2. TypeOK /\ Answered /\ [Next]_vars => Answered'
  BY AnsweredStep
<1> QED
  BY <1>1, <1>2, TypeCorrect, PTL DEF Spec
-----------------------------------------------------------------------------
(* A calm request: no epoch was reloaded, no read failed, the context lives. *)

Calm == changes = 0 /\ faults = 0 /\ ~ctxDone

Held == holders \cap steady

\* What leads a calm request to the holder of its signature: the loaded epochs are the
\* steady ones and the handles in use are the registry's, ...
RegistryKept ==
    /\ holders \subseteq inBucket /\ holders \subseteq inIndex
    /\ Calm => \A e \in Epochs : epochs[e] # 0 <=> e \in steady

HandlesFresh ==
    Calm => /\ phase # "idle" => buckets = epochs
            /\ \A e \in Epochs : step[e] = "find" => handle[e] = epochs[e] /\ e \in steady
            /\ pc \in {"read", "time", "decode"} => handle[found] = epochs[found]

\* ... the holder is among the epochs that are searched and its function does not fail, ...
SearchReaches ==
    Calm => /\ pc = "buckets" => \A e \in Held : \E i \in 1..Len(numbers) : numbers[i] = e
            /\ phase # "idle" => Held \subseteq fns
            /\ \A e \in Epochs : result[e] \in Values => e \in inIndex /\ e \in steady
            /\ \A e \in Held : result[e] \notin Errors

\* ... and an epoch that was found is one to read the transaction from.
FoundHolds ==
    Calm => /\ pc \in {"epoch", "read", "time", "decode"} => found \in steady
            /\ pc \in {"epoch", "read"} /\ Held # {} => found \in inIndex
            /\ HeldIsServed

ServeInv == RegistryKept /\ HandlesFresh /\ SearchReaches /\ FoundHolds

\* A request is calm as long as it has been, and the registry stays as it was.
LEMMA CalmBack ==
    ASSUME RequestInv, [Next]_vars
    PROVE  UNCHANGED dataVars /\ (Calm' => Calm /\ UNCHANGED <<registryVars, faults>>)
<1> USE DEF Epochs
<1>1. ctxDone => ctxDone'
  <2>1. [SearchNext]_searchVars /\ ctxDone \in BOOLEAN
    BY SearchStep DEF RequestInv, Listed, SearchInv, SearchTypeOK
  <2> QED
    BY <2>1, ZenonT(60) DEF SearchNext, searchVars, Call, CallerStep, Start, Receive, ReceiveClosed, CloseResults,
                GoroutineEnd, Begin, Send, Discard, Finish, Cancel
<1>2. changes \in Nat /\ faults \in Nat
  BY BoundsAssumption DEF RequestInv, TypeOK
<1>3. /\ UNCHANGED dataVars
      /\ faults' \in {faults, faults + 1}
      /\ UNCHANGED registryVars \/ changes' = changes + 1
  <2>1. CASE Count \/ Single \/ GetEpochNumbers \/ Search \/ Searched \/ GetFound
    BY <2>1, ZenonT(60) DEF Count, Single, GetEpochNumbers, Search, Searched, GetFound
  <2>2. CASE ReadTransaction \/ BlockTime \/ Decode
    BY <2>2, ZenonT(60) DEF ReadTransaction, BlockTime, Decode, Read
  <2>3. CASE FrameSearch
    BY <2>3 DEF FrameSearch
  <2>4. ASSUME NEW e \in Epochs, Probe(e) \/ GetEpoch(e) \/ Find(e)
        PROVE  UNCHANGED <<dataVars, registryVars>> /\ faults' \in {faults, faults + 1}
    BY <2>4, ZenonT(60) DEF Probe, GetEpoch, Find, Read
  <2>5. ASSUME NEW e \in Epochs, InstallEpoch(e) \/ RemoveEpoch(e)
        PROVE  UNCHANGED <<dataVars, faults>> /\ changes' = changes + 1
    BY <2>5 DEF InstallEpoch, RemoveEpoch
  <2>6. CASE UNCHANGED vars
    BY <2>6 DEF vars
  <2> QED
    BY <2>1, <2>2, <2>3, <2>4, <2>5, <2>6 DEF Next, RequestStep, JobStep
<1>4. changes' = 0 /\ faults' = 0 => changes = 0 /\ faults = 0 /\ UNCHANGED <<registryVars, faults>>
  BY <1>2, <1>3 DEF registryVars
<1> QED
  BY <1>1, <1>3, <1>4, ZenonT(60) DEF Calm

\* A read through the registry's handle does not fail in a calm step.
LEMMA CalmRead ==
    ASSUME RequestInv, NEW e \in Epochs, NEW h, NEW failed \in BOOLEAN, Read(e, h, failed),
           UNCHANGED faults, epochs[e] = h
    PROVE  failed = FALSE
<1>1. faults \in Nat
  BY BoundsAssumption DEF RequestInv, TypeOK
<1>2. PICK fault \in BOOLEAN : /\ faults' = IF fault THEN faults + 1 ELSE faults
                               /\ failed = (fault \/ epochs[e] # h)
  BY ZenonT(60) DEF Read
<1>3. fault => faults' = faults + 1
  BY <1>2, ZenonT(60)
<1>4. ~fault
  BY <1>1, <1>3
<1> QED
  BY <1>2, <1>4, ZenonT(60)

\* Only Search starts the search.
LEMMA OtherStep ==
    ASSUME RequestInv, [Next]_vars, ~Search
    PROVE  UNCHANGED <<buckets, fns>> /\ (phase = "idle" <=> phase' = "idle")
<1> USE DEF Epochs
<1>1. CASE Count \/ Single \/ GetEpochNumbers \/ Searched \/ GetFound
  BY <1>1, ZenonT(60) DEF Count, Single, GetEpochNumbers, Searched, GetFound, searchVars
<1>2. CASE ReadTransaction \/ BlockTime \/ Decode
  BY <1>2 DEF ReadTransaction, BlockTime, Decode, searchVars
<1>3. CASE FrameSearch /\ (CallerStep \/ CloseResults \/ Cancel \/ \E e \in Fns : GoroutineEnd(e))
  <2>1. UNCHANGED fns
    BY <1>3 DEF CallerStep, Start, Receive, ReceiveClosed, CloseResults, Cancel, GoroutineEnd, Begin,
                Send, Discard
  <2> QED
    BY <1>3, <2>1, ResultStep, ZenonT(60) DEF FrameSearch, requestVars, RequestInv, SearchInv
<1>4. ASSUME NEW e \in Epochs, Probe(e) \/ GetEpoch(e) \/ Find(e)
      PROVE  UNCHANGED <<buckets, fns, phase>>
  <2>1. UNCHANGED buckets
    BY <1>4, ZenonT(60) DEF Probe, GetEpoch, Find, requestVars
  <2>2. Goto(e, "get") \/ Goto(e, "find") \/ \E r : Finish(e, r)
    BY <1>4, ZenonT(60) DEF Probe, GetEpoch, Find
  <2> QED
    BY <2>1, <2>2, ZenonT(60) DEF Goto, Finish, searchVars
<1>5. ASSUME NEW e \in Epochs, InstallEpoch(e) \/ RemoveEpoch(e)
      PROVE  UNCHANGED <<buckets, fns, phase>>
  BY <1>5, ZenonT(60) DEF InstallEpoch, RemoveEpoch, requestVars, searchVars
<1>6. CASE UNCHANGED vars
  BY <1>6, ZenonT(60) DEF vars, requestVars, searchVars
<1> QED
  BY <1>1, <1>2, <1>3, <1>4, <1>5, <1>6 DEF Next, RequestStep, JobStep

\* The handles in use stay the registry's.
LEMMA FreshStep == ASSUME RequestInv, ServeInv, [Next]_vars PROVE RegistryKept' /\ HandlesFresh'
<1> USE DEF Epochs
<1>1. RegistryKept'
  BY CalmBack, ZenonT(60) DEF ServeInv, RegistryKept, dataVars, registryVars
<1> SUFFICES ASSUME Calm' PROVE HandlesFresh'
  BY <1>1 DEF HandlesFresh
<1>2. Calm /\ UNCHANGED <<epochs, steady, faults>>
  BY CalmBack, ZenonT(60) DEF registryVars
<1>3. /\ phase # "idle" => buckets = epochs
      /\ \A e \in Epochs : step[e] = "find" => handle[e] = epochs[e] /\ e \in steady
      /\ pc \in {"read", "time", "decode"} => handle[found] = epochs[found]
      /\ pc \in {"epoch", "read", "time", "decode"} => found \in Epochs
      /\ \A e \in Epochs : epochs[e] # 0 => e \in steady
      /\ step \in [Epochs -> {"probe", "get", "find"}]
      /\ handle \in [Epochs -> 0..MaxChanges + 1]
  BY <1>2, ZenonT(60) DEF ServeInv, HandlesFresh, FoundHolds, RegistryKept, RequestInv, TypeOK
<1>4. phase' # "idle" => buckets' = epochs'
  <2>1. CASE Search
    BY <1>2, <2>1 DEF Search
  <2> QED
    BY <1>2, <1>3, <2>1, OtherStep, ZenonT(60)
<1>5. /\ \A e \in Epochs : step'[e] = "find" => handle'[e] = epochs'[e] /\ e \in steady'
      /\ pc' \in {"read", "time", "decode"} => handle'[found'] = epochs'[found']
  <2>1. CASE Count \/ Single \/ GetEpochNumbers \/ Search \/ Searched
    BY <1>2, <1>3, <2>1, ZenonT(60) DEF Count, Single, GetEpochNumbers, Search, Searched, Fail, jobVars
  <2>2. CASE GetFound
    BY <1>2, <1>3, <2>2, ZenonT(60) DEF GetFound, Fail
  <2>3. CASE ReadTransaction \/ BlockTime \/ Decode
    BY <1>2, <1>3, <2>3, ZenonT(60) DEF ReadTransaction, BlockTime, Decode, Fail, jobVars
  <2>4. CASE FrameSearch
    BY <1>2, <1>3, <2>4, ZenonT(60) DEF FrameSearch, requestVars, jobVars
  <2>5. ASSUME NEW e \in Epochs, Probe(e) PROVE <1>5!:
    <3>1. step' = step \/ step' = [step EXCEPT ![e] = "get"]
      BY <2>5, ZenonT(60) DEF Probe, Goto
    <3>2. UNCHANGED <<pc, found, handle>>
      BY <2>5, ZenonT(60) DEF Probe, requestVars
    <3> QED
      BY <1>2, <1>3, <3>1, <3>2, ZenonT(60)
  <2>6. ASSUME NEW e \in Epochs, GetEpoch(e) PROVE <1>5!:
    <3>1. \/ UNCHANGED jobVars
          \/ /\ epochs[e] # 0
             /\ handle' = [handle EXCEPT ![e] = epochs[e]]
             /\ step' = [step EXCEPT ![e] = "find"]
      BY <2>6 DEF GetEpoch, Goto
    <3>2. UNCHANGED <<pc, found>>
      BY <2>6, ZenonT(60) DEF GetEpoch, requestVars
    <3> QED
      BY <1>2, <1>3, <3>1, <3>2, ZenonT(60) DEF jobVars
  <2>7. ASSUME NEW e \in Epochs, Find(e) PROVE <1>5!:
    BY <1>2, <1>3, <2>7, ZenonT(60) DEF Find, requestVars, jobVars
  <2>8. ASSUME NEW e \in Epochs, InstallEpoch(e) \/ RemoveEpoch(e) PROVE <1>5!:
    BY <1>2, <1>3, <2>8, ZenonT(60) DEF InstallEpoch, RemoveEpoch, requestVars, jobVars
  <2>9. CASE UNCHANGED vars
    BY <1>2, <1>3, <2>9, ZenonT(60) DEF vars, requestVars, jobVars
  <2> QED
    BY <2>1, <2>2, <2>3, <2>4, <2>5, <2>6, <2>7, <2>8, <2>9, ZenonT(60) DEF Next, RequestStep, JobStep
<1> QED
  BY <1>1, <1>4, <1>5, ZenonT(60) DEF HandlesFresh

\* GetEpochNumbers lists every loaded epoch.
LEMMA DescendingLists ==
    ASSUME NEW S, S \subseteq Fns, NEW seq \in Descending(S)
    PROVE  \A e \in S : \E i \in 1..Len(seq) : seq[i] = e
<1>1. IsFiniteSet(S) /\ Cardinality(S) \in Nat
  BY FnsAssumption, FS_Subset, FS_CardinalityType, ZenonT(60)
<1>2. seq \in [1..Cardinality(S) -> S] /\ Len(seq) = Cardinality(S)
  BY <1>1 DEF Descending
<1>3. \A i, j \in 1..Cardinality(S) : seq[i] = seq[j] => i = j
  BY <1>2, DescendingCalls, ZenonT(60) DEF Calls
<1>4. seq \in Injection(1..Cardinality(S), S)
  BY <1>2, <1>3 DEF Injection, IsInjective
<1>5. Cardinality(1..Cardinality(S)) = Cardinality(S)
  BY <1>1, FS_Interval
<1>6. seq \in Surjection(1..Cardinality(S), S)
  BY <1>1, <1>4, <1>5, FS_Injection, ZenonT(60)
<1> QED
  BY <1>2, <1>6 DEF Surjection

\* The holder stays among the epochs searched, and its function does not fail.
LEMMA ReachesStep == ASSUME RequestInv, ServeInv, [Next]_vars PROVE SearchReaches'
<1> USE DEF Epochs
<1> SUFFICES ASSUME Calm' PROVE SearchReaches'
  BY ZenonT(60) DEF SearchReaches
<1>1. Calm /\ ~ctxDone /\ UNCHANGED <<epochs, steady, holders, inIndex, faults>>
  BY CalmBack DEF registryVars, dataVars, Calm
<1>2. UNCHANGED Held
  BY <1>1, ZenonT(60) DEF Held
<1>3. /\ pc = "buckets" => \A e \in Held : \E i \in 1..Len(numbers) : numbers[i] = e
      /\ phase # "idle" => Held \subseteq fns
      /\ \A e \in Epochs : result[e] \in Values => e \in inIndex /\ e \in steady
      /\ \A e \in Held : result[e] \notin Errors
      /\ Held \subseteq Epochs /\ Held \subseteq steady /\ Held \subseteq inBucket /\ Held \subseteq inIndex
      /\ \A e \in Epochs : epochs[e] # 0 <=> e \in steady
  <2>1. SearchReaches /\ RegistryKept
    BY <1>1, ZenonT(60) DEF ServeInv
  <2>2. /\ pc = "buckets" => \A e \in Held : \E i \in 1..Len(numbers) : numbers[i] = e
        /\ phase # "idle" => Held \subseteq fns
        /\ \A e \in Held : result[e] \notin Errors
    BY <1>1, <2>1, ZenonT(60) DEF SearchReaches
  <2>3. /\ \A e \in Epochs : result[e] \in Values => e \in inIndex /\ e \in steady
        /\ \A e \in Epochs : epochs[e] # 0 <=> e \in steady
    BY <1>1, <2>1, ZenonT(60) DEF ServeInv, RegistryKept, SearchReaches
  <2>4. Held \subseteq Epochs /\ Held \subseteq steady /\ Held \subseteq inBucket /\ Held \subseteq inIndex
    BY <1>1, <2>1 DEF RegistryKept, RequestInv, TypeOK, Held
  <2> QED
    BY <2>2, <2>3, <2>4, ZenonT(60)
<1>4. pc' = "buckets" => \A e \in Held' : \E i \in 1..Len(numbers') : numbers'[i] = e
  <2>1. CASE GetEpochNumbers
    <3>1. Available \subseteq Fns /\ Held \subseteq Available
      BY <1>3, ZenonT(60) DEF Available
    <3>2. numbers' \in Descending(Available)
      BY <2>1, ZenonT(60) DEF GetEpochNumbers
    <3>3. \A e \in Available : \E i \in 1..Len(numbers') : numbers'[i] = e
      BY <3>1, <3>2, DescendingLists, ZenonT(60)
    <3> QED
      BY <1>2, <3>1, <3>3, ZenonT(60)
  <2>2. CASE ~GetEpochNumbers
    <3>1. pc' = "buckets" => pc = "buckets" /\ UNCHANGED numbers
      <4>1. CASE Count \/ Single \/ Search \/ Searched \/ GetFound
        BY <4>1, ZenonT(60) DEF Count, Single, Search, Searched, GetFound, Fail
      <4>2. CASE ReadTransaction \/ BlockTime \/ Decode
        BY <4>2 DEF ReadTransaction, BlockTime, Decode, Fail
      <4>3. CASE FrameSearch
        BY <4>3, ZenonT(60) DEF FrameSearch, requestVars
      <4>4. ASSUME NEW e \in Epochs, Probe(e) \/ GetEpoch(e) \/ Find(e) \/ InstallEpoch(e) \/ RemoveEpoch(e)
            PROVE  UNCHANGED requestVars
        BY <4>4, ZenonT(60) DEF Probe, GetEpoch, Find, InstallEpoch, RemoveEpoch
      <4>5. CASE UNCHANGED vars
        BY <4>5, ZenonT(60) DEF vars, requestVars
      <4> QED
        BY <2>2, <4>1, <4>2, <4>3, <4>4, <4>5 DEF Next, RequestStep, JobStep, requestVars
    <3> QED
      BY <1>2, <1>3, <3>1, ZenonT(60)
  <2> QED
    BY <2>1, <2>2
<1>5. phase' # "idle" => Held' \subseteq fns'
  <2>1. CASE Search
    BY <1>2, <1>3, <2>1, ZenonT(60) DEF Search, Call
  <2> QED
    BY <1>2, <1>3, <2>1, OtherStep, ZenonT(60)
<1>6. /\ \A e \in Epochs : result'[e] \in Values => e \in inIndex' /\ e \in steady'
      /\ \A e \in Held' : result'[e] \notin Errors
  <2>0. /\ result \in [Fns -> Values \cup Errors \cup {None}]
        /\ \A r \in Errors : r \notin Values
        /\ {NotFound, Failed, CtxErr} \subseteq Errors
        /\ Values = Fns
    BY NotFoundAssumption, ErrorsAssumption, EpochsAssumption, ZenonT(60) DEF RequestInv, SearchInv, SearchTypeOK
  <2>1. ASSUME UNCHANGED result PROVE <1>6!:
    BY <1>1, <1>2, <1>3, <2>1, ZenonT(60)
  <2>2. ASSUME NEW e \in Epochs, NEW r, result' = [result EXCEPT ![e] = r],
               (r \in Errors /\ e \notin Held) \/ (r = e /\ e \in inIndex /\ e \in steady)
        PROVE  <1>6!:
    <3>1. ASSUME NEW x \in Epochs PROVE result'[x] = IF x = e THEN r ELSE result[x]
      BY <2>0, <2>2, ZenonT(60)
    <3> QED
      BY <1>1, <1>2, <1>3, <2>0, <2>2, <3>1, ZenonT(60)
  <2>3. ASSUME NEW e \in Epochs, job[e] = "running" PROVE buckets[e] = epochs[e]
    BY <1>1, <2>3, ZenonT(60) DEF RequestInv, SearchInv, FlowInv, LoopInv, ServeInv, HandlesFresh
  <2>4. CASE Count \/ Single \/ GetEpochNumbers \/ Search \/ Searched \/ GetFound
    BY <2>1, <2>4, ZenonT(60) DEF Count, Single, GetEpochNumbers, Search, Searched, GetFound, Call, searchVars
  <2>5. CASE ReadTransaction \/ BlockTime \/ Decode
    BY <2>1, <2>5 DEF ReadTransaction, BlockTime, Decode, searchVars
  <2>6. CASE CallerStep \/ CloseResults \/ Cancel \/ \E e \in Fns : GoroutineEnd(e)
    BY <1>1, <2>1, <2>6, ZenonT(60) DEF CallerStep, Start, Receive, ReceiveClosed, CloseResults, Cancel,
                            GoroutineEnd, Begin, Send, Discard
  <2>7. ASSUME NEW e \in Epochs, Probe(e) PROVE <1>6!:
    <3>1. job[e] = "running"
      BY <2>7, ZenonT(60) DEF Probe, At
    <3>2. CASE UNCHANGED result
      BY <2>1, <3>2
    <3>3. CASE e \in Held
      <4>1. buckets[e] # 0 /\ buckets[e] = epochs[e] /\ e \in inBucket
        BY <1>3, <2>3, <3>1, <3>3, ZenonT(60)
      <4>2. PICK failed \in BOOLEAN : Read(e, buckets[e], failed)
                                      /\ (~failed => Goto(e, "get"))
        BY <1>1, <2>7, <4>1, ZenonT(60) DEF Probe
      <4>3. failed = FALSE
        BY <1>1, <4>1, <4>2, CalmRead, ZenonT(60)
      <4> QED
        BY <3>2, <4>2, <4>3, ZenonT(60) DEF Goto, searchVars
    <3>4. CASE e \notin Held
      <4>1. UNCHANGED result \/ \E r \in {NotFound, Failed, CtxErr} : Finish(e, r)
        BY <2>7 DEF Probe, Goto, searchVars
      <4> QED
        BY <2>0, <2>2, <3>2, <3>4, <4>1, ZenonT(60) DEF Finish
    <3> QED
      BY <3>3, <3>4, ZenonT(60)
  <2>8. ASSUME NEW e \in Epochs, GetEpoch(e) PROVE <1>6!:
    <3>1. UNCHANGED result \/ (epochs[e] = 0 /\ Finish(e, Failed))
      BY <2>8, ZenonT(60) DEF GetEpoch, Goto, searchVars
    <3>2. epochs[e] = 0 => e \notin Held
      BY <1>3, ZenonT(60)
    <3> QED
      BY <2>0, <2>1, <2>2, <3>1, <3>2, ZenonT(60) DEF Finish
  <2>9. ASSUME NEW e \in Epochs, Find(e) PROVE <1>6!:
    <3>1. handle[e] = epochs[e] /\ e \in steady
      BY <1>1, <2>9, ZenonT(60) DEF Find, At, ServeInv, HandlesFresh
    <3>2. PICK failed \in BOOLEAN : Read(e, handle[e], failed)
                                    /\ Finish(e, IF ~failed /\ e \in inIndex THEN e ELSE NotFound)
      BY <2>9 DEF Find
    <3>3. failed = FALSE
      BY <1>1, <3>1, <3>2, CalmRead, ZenonT(60)
    <3>4. (e \in inIndex /\ Finish(e, e)) \/ (e \notin inIndex /\ Finish(e, NotFound))
      BY <3>2, <3>3, ZenonT(60)
    <3> QED
      BY <1>3, <2>0, <2>2, <3>1, <3>4, ZenonT(60) DEF Finish
  <2>10. ASSUME NEW e \in Epochs, InstallEpoch(e) \/ RemoveEpoch(e) PROVE <1>6!:
    BY <2>1, <2>10, ZenonT(60) DEF InstallEpoch, RemoveEpoch, searchVars
  <2>11. CASE UNCHANGED vars
    BY <2>1, <2>11 DEF vars, searchVars
  <2> QED
    BY <2>4, <2>5, <2>6, <2>7, <2>8, <2>9, <2>10, <2>11, ZenonT(60) DEF Next, RequestStep, JobStep
<1> QED
  BY <1>4, <1>5, <1>6 DEF SearchReaches

\* The sole loaded epoch is the one that holds the signature, if one does.
LEMMA SingleHolds ==
    ASSUME Available \subseteq Fns, Cardinality(Available) = 1, NEW e \in Available
    PROVE  (CHOOSE x \in Available : TRUE) = e
<1>1. IsFiniteSet(Available)
  BY FnsAssumption, FS_Subset
<1>2. PICK y : Available = {y}
  BY <1>1, FS_Singleton
<1> QED
  BY <1>2

\* The epoch found stays one to read from, and a request that ends is served.
LEMMA HoldsStep == ASSUME RequestInv, ServeInv, [Next]_vars PROVE FoundHolds'
<1> USE DEF Epochs
<1> SUFFICES ASSUME Calm' PROVE FoundHolds'
  BY ZenonT(60) DEF FoundHolds
<1> DEFINE Served == reply = "result" \/ (phase = "idle" /\ found = None)
<1>1. Calm /\ ~ctxDone /\ UNCHANGED <<epochs, steady, holders, inIndex, faults>>
  BY CalmBack DEF registryVars, dataVars, Calm
<1>2. UNCHANGED Held
  BY <1>1 DEF Held
<1>3. /\ pc \in {"epoch", "read", "time", "decode"} => found \in steady
      /\ pc \in {"epoch", "read"} /\ Held # {} => found \in inIndex
      /\ pc = "done" /\ Held # {} => Served
      /\ Held \subseteq steady /\ steady \subseteq Epochs /\ Held \subseteq inIndex
      /\ \A e \in Epochs : epochs[e] # 0 <=> e \in steady
      /\ pc \in {"read", "time", "decode"} => handle[found] = epochs[found]
  BY <1>1, ZenonT(60) DEF ServeInv, FoundHolds, HeldIsServed, HandlesFresh, RegistryKept, RequestInv, TypeOK,
              Held, Calm
<1>4. SUFFICES /\ pc' \in {"epoch", "read", "time", "decode"} => found' \in steady
               /\ pc' \in {"epoch", "read"} /\ Held # {} => found' \in inIndex
               /\ pc' = "done" /\ Held # {} => Served'
  BY <1>1, <1>2 DEF FoundHolds, HeldIsServed, Held
<1>5. CASE Count
  BY <1>5, ZenonT(60) DEF Count, Fail, RequestInv, FoundInv, searchVars
<1>6. CASE Single
  <2>1. Available = steady
    BY <1>3, ZenonT(60) DEF Available
  <2>2. Cardinality(Available) = 1 => Available # {}
    BY FS_EmptySet
  <2>3. ASSUME Cardinality(Available) = 1
        PROVE  /\ (CHOOSE x \in Available : TRUE) \in steady
               /\ Held # {} => (CHOOSE x \in Available : TRUE) \in inIndex
    BY <1>3, <2>1, <2>2, <2>3, SingleHolds, ZenonT(60)
  <2> QED
    BY <1>6, <2>3, ZenonT(60) DEF Single
<1>7. CASE GetEpochNumbers \/ Search
  BY <1>7, ZenonT(60) DEF GetEpochNumbers, Search
<1>8. CASE Searched
  <2>1. CASE winner # None
    <3>1. winner \in Fns /\ result[winner] = winner /\ result[winner] \in Values
      BY <2>1, ZenonT(60) DEF RequestInv, SearchInv, SearchTypeOK, FlowInv, FoundInv
    <3>2. winner \in inIndex /\ winner \in steady
      BY <1>1, <3>1, ZenonT(60) DEF ServeInv, SearchReaches
    <3> QED
      BY <1>8, <2>1, <3>1, <3>2, ZenonT(60) DEF Searched
  <2>2. CASE winner = None
    <3>1. errs = fns /\ \A e \in errs : result[e] \in Errors
      BY <1>1, <1>8, <2>2, ZenonT(60) DEF Searched, RequestInv, SearchInv, ReturnInv, FlowInv
    <3>2. Held \subseteq fns /\ \A e \in Held : result[e] \notin Errors
      BY <1>1, <1>8, ZenonT(60) DEF Searched, ServeInv, SearchReaches
    <3>3. Held = {}
      BY <3>1, <3>2, ZenonT(60)
    <3> QED
      BY <1>8, <2>2, <3>3, ZenonT(60) DEF Searched, Fail
  <2> QED
    BY <2>1, <2>2, ZenonT(60)
<1>9. CASE GetFound
  <2>1. found \in Epochs /\ epochs[found] # 0
    BY <1>3, <1>9, ZenonT(60) DEF GetFound
  <2> QED
    BY <1>3, <1>9, <2>1, ZenonT(60) DEF GetFound
<1>10. CASE ReadTransaction
  <2>1. PICK failed \in BOOLEAN :
           /\ Read(found, handle[found], failed)
           /\ IF failed \/ found \notin inIndex
              THEN Fail(Failed)
              ELSE pc' = "time" /\ UNCHANGED <<reply, counted>>
    BY <1>10, ZenonT(60) DEF ReadTransaction
  <2>2. pc = "read" /\ UNCHANGED found
    BY <1>10 DEF ReadTransaction
  <2>3. failed = FALSE
    BY <1>1, <1>3, <2>1, <2>2, CalmRead, ZenonT(60)
  <2>4. pc' = "time" \/ (found \notin inIndex /\ pc' = "done")
    BY <2>1, <2>3, ZenonT(60) DEF Fail
  <2> QED
    BY <1>3, <2>2, <2>4
<1>11. CASE BlockTime
  <2>1. faults \in Nat
    BY BoundsAssumption DEF RequestInv, TypeOK
  <2>2. pc = "time" /\ pc' = "decode" /\ UNCHANGED found
    BY <1>1, <1>11, <2>1 DEF BlockTime
  <2> QED
    BY <1>3, <2>2, ZenonT(60)
<1>12. CASE Decode
  <2>1. PICK failed \in BOOLEAN :
           /\ Read(found, handle[found], failed)
           /\ IF failed
              THEN Fail(Failed)
              ELSE reply' = "result" /\ counted' = "success" /\ pc' = "done"
    BY <1>12, ZenonT(60) DEF Decode
  <2>2. pc = "decode"
    BY <1>12 DEF Decode
  <2>3. failed = FALSE
    BY <1>1, <1>3, <2>1, <2>2, CalmRead, ZenonT(60)
  <2>4. reply' = "result" /\ pc' = "done"
    BY <2>1, <2>3, ZenonT(60)
  <2> QED
    BY <2>4
<1>13. ASSUME UNCHANGED <<pc, found, reply>>, ~Search PROVE <1>4!1
  BY <1>3, <1>13, OtherStep, ZenonT(60)
<1>14. CASE FrameSearch
  BY <1>7, <1>13, <1>14, ZenonT(60) DEF FrameSearch, requestVars
<1>15. ASSUME NEW e \in Epochs, Probe(e) \/ GetEpoch(e) \/ Find(e) \/ InstallEpoch(e) \/ RemoveEpoch(e)
       PROVE  UNCHANGED requestVars
  BY <1>15 DEF Probe, GetEpoch, Find, InstallEpoch, RemoveEpoch
<1>16. CASE UNCHANGED vars
  BY <1>7, <1>13, <1>16 DEF vars, requestVars
<1> HIDE DEF Served
<1> QED
  BY ZenonT(60), <1>5, <1>6, <1>7, <1>8, <1>9, <1>10, <1>11, <1>12, <1>13, <1>14, <1>15, <1>16
  DEF Next, RequestStep, JobStep, requestVars

\* A signature that a loaded epoch holds is served whenever nothing is reloaded, no read
\* fails and the context lives: for any number of epochs, any false hits of the indexes,
\* any order of the goroutines and any concurrency of FirstSuccess.
THEOREM HeldServed == Spec => []HeldIsServed
<1>1. Init => ServeInv
  <2> SUFFICES ASSUME Init PROVE ServeInv
    OBVIOUS
  <2>1. RegistryKept /\ HandlesFresh
    BY ZenonT(60) DEF Init, RegistryKept, HandlesFresh, SearchInit, Available
  <2>2. SearchReaches
    BY NoneAssumption, ZenonT(60) DEF Init, SearchReaches, SearchInit, Held, Epochs
  <2>3. FoundHolds
    BY DEF Init, FoundHolds, HeldIsServed
  <2> QED
    BY <2>1, <2>2, <2>3, ZenonT(60) DEF ServeInv
<1>2. RequestInv /\ ServeInv /\ [Next]_vars => ServeInv'
  BY FreshStep, ReachesStep, HoldsStep, ZenonT(60) DEF ServeInv
<1>3. ServeInv => HeldIsServed
  BY DEF ServeInv, FoundHolds, HeldIsServed, Calm
<1> QED
  BY <1>1, <1>2, <1>3, RequestInvariant, PTL DEF Spec
=============================================================================
