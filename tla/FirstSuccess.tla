----------------------------- MODULE FirstSuccess -----------------------------
(***************************************************************************)
(* first-success.go: functions run concurrently, at most concurrency at a    *)
(* time; the first success is returned, or else all the errors.              *)
(* Each goroutine sends its result over a channel with room for all of them. *)
(***************************************************************************)
EXTENDS Integers, Sequences, FiniteSets

CONSTANTS Fns,          \* the functions that may be passed
          Values,       \* what a function may return on success
          Errors,       \* ... and on failure
          CtxErr,       \* the error of a context that is done
          None,         \* no function, no result
          Concurrency   \* limit of the errgroup; none if not positive

ASSUME FnsAssumption == IsFiniteSet(Fns) /\ None \notin Fns
ASSUME ErrorsAssumption == CtxErr \in Errors /\ Values \cap Errors = {}
ASSUME NoneAssumption == None \notin Values \cup Errors
ASSUME ConcurrencyAssumption == Concurrency \in Int

VARIABLES ctxDone,    \* the caller's context is done
          phase,      \* of the caller: idle, starting, receiving, returned
          fns,        \* the functions passed
          todo,       \* those not yet started, in order
          job,        \* each: idle, started, running, sending, selecting, done
          result,     \* what each returned
          results,    \* the channel: the functions whose results it holds
          closed,     \* the channel is closed
          errs,       \* the functions whose errors were received
          winner      \* the function whose success is returned

searchVars == <<ctxDone, phase, fns, todo, job, result, results, closed, errs, winner>>

SearchInit ==
    /\ ctxDone = FALSE
    /\ phase = "idle"
    /\ fns = {}
    /\ todo = <<>>
    /\ job = [f \in Fns |-> "idle"]
    /\ result = [f \in Fns |-> None]
    /\ results = <<>>
    /\ closed = FALSE
    /\ errs = {}
    /\ winner = None

Active == {f \in fns : job[f] \in {"started", "running", "sending", "selecting"}}

\* The call: a sequence of distinct functions.
Call(seq) ==
    /\ phase = "idle"
    /\ fns' = {seq[i] : i \in 1..Len(seq)}
    /\ todo' = seq
    /\ phase' = IF seq = <<>> THEN "receiving" ELSE "starting"
    /\ UNCHANGED <<ctxDone, job, result, results, closed, errs, winner>>

\* The loop over the functions: errgroup's Go waits while the limit is reached.
Start ==
    /\ phase = "starting"
    /\ Concurrency > 0 => Cardinality(Active) < Concurrency
    /\ job' = [job EXCEPT ![Head(todo)] = "started"]
    /\ todo' = Tail(todo)
    /\ phase' = IF Len(todo) = 1 THEN "receiving" ELSE "starting"
    /\ UNCHANGED <<ctxDone, fns, result, results, closed, errs, winner>>

\* A goroutine whose context is done sends that error and runs nothing.
Begin(f) ==
    /\ job[f] = "started"
    /\ IF ctxDone
       THEN /\ result' = [result EXCEPT ![f] = CtxErr]
            /\ job' = [job EXCEPT ![f] = "sending"]
       ELSE /\ job' = [job EXCEPT ![f] = "running"]
            /\ UNCHANGED result
    /\ UNCHANGED <<ctxDone, phase, fns, todo, results, closed, errs, winner>>

\* The function returns.
Finish(f, r) ==
    /\ job[f] = "running"
    /\ result' = [result EXCEPT ![f] = r]
    /\ job' = [job EXCEPT ![f] = "selecting"]
    /\ UNCHANGED <<ctxDone, phase, fns, todo, results, closed, errs, winner>>

\* Mutant of Send: the channel is not buffered.
SendUnbuffered(f) ==
    /\ job[f] \in {"sending", "selecting"}
    /\ phase = "receiving" /\ results = <<>>
    /\ results' = Append(results, f)
    /\ job' = [job EXCEPT ![f] = "done"]
    /\ UNCHANGED <<ctxDone, phase, fns, todo, result, closed, errs, winner>>

\* The result is sent; the channel has room for len(fns) of them.
Send(f) ==
    /\ job[f] \in {"sending", "selecting"}
    /\ Len(results) < Cardinality(fns)
    /\ results' = Append(results, f)
    /\ job' = [job EXCEPT ![f] = "done"]
    /\ UNCHANGED <<ctxDone, phase, fns, todo, result, closed, errs, winner>>

\* Mutant of Discard: the select has a default case.
DiscardAny(f) ==
    /\ job[f] = "selecting"
    /\ job' = [job EXCEPT ![f] = "done"]
    /\ UNCHANGED <<ctxDone, phase, fns, todo, result, results, closed, errs, winner>>

\* The select may instead take ctx.Done, and the result is lost.
Discard(f) ==
    /\ job[f] = "selecting"
    /\ ctxDone
    /\ job' = [job EXCEPT ![f] = "done"]
    /\ UNCHANGED <<ctxDone, phase, fns, todo, result, results, closed, errs, winner>>

\* wg.Wait and close, in a goroutine started after the loop.
CloseResults ==
    /\ phase \in {"receiving", "returned"}
    /\ ~closed
    /\ \A f \in fns : job[f] = "done"
    /\ closed' = TRUE
    /\ UNCHANGED <<ctxDone, phase, fns, todo, job, result, results, errs, winner>>

\* A result is received: the first success is returned, the last error ends
\* the loop.
Receive ==
    /\ phase = "receiving"
    /\ results # <<>>
    /\ results' = Tail(results)
    /\ LET f == Head(results) IN
       IF result[f] \in Values
       THEN /\ winner' = f
            /\ phase' = "returned"
            /\ UNCHANGED errs
       ELSE /\ errs' = errs \cup {f}
            /\ phase' = IF Cardinality(errs') = Cardinality(fns) THEN "returned" ELSE phase
            /\ UNCHANGED winner
    /\ UNCHANGED <<ctxDone, fns, todo, job, result, closed>>

\* The range over the channel ends.
ReceiveClosed ==
    /\ phase = "receiving"
    /\ results = <<>>
    /\ closed
    /\ phase' = "returned"
    /\ UNCHANGED <<ctxDone, fns, todo, job, result, results, closed, errs, winner>>

\* The context ends at any time.
Cancel ==
    /\ ~ctxDone
    /\ ctxDone' = TRUE
    /\ UNCHANGED <<phase, fns, todo, job, result, results, closed, errs, winner>>

\* Sequences of distinct functions.
Calls ==
    {seq \in UNION {[1..n -> Fns] : n \in 0..Cardinality(Fns)} :
        \A i, j \in 1..Len(seq) : seq[i] = seq[j] => i = j}

CallerStep == Start \/ Receive \/ ReceiveClosed
GoroutineEnd(f) == Begin(f) \/ Send(f) \/ Discard(f)

SearchNext ==
    \/ \E seq \in Calls : Call(seq)
    \/ CallerStep
    \/ CloseResults
    \/ \E f \in Fns : GoroutineEnd(f)
    \/ \E f \in Fns, r \in Values \cup Errors : Finish(f, r)
    \/ Cancel

SearchSpec == SearchInit /\ [][SearchNext]_searchVars
-----------------------------------------------------------------------------
\* Every variable of a search keeps its type.
SearchTypeOK ==
    /\ ctxDone \in BOOLEAN
    /\ phase \in {"idle", "starting", "receiving", "returned"}
    /\ fns \subseteq Fns
    /\ todo \in Seq(Fns)
    /\ job \in [Fns -> {"idle", "started", "running", "sending", "selecting", "done"}]
    /\ result \in [Fns -> Values \cup Errors \cup {None}]
    /\ results \in Seq(Fns)
    /\ closed \in BOOLEAN
    /\ errs \subseteq fns
    /\ winner \in Fns \cup {None}

\* FirstSuccess returns without a success only when it has the error of every
\* function it was given, unless the context ended: no success is lost between
\* the goroutines, the channel and the goroutine that closes it.
AllErrorsReturned ==
    phase = "returned" /\ winner = None /\ ~ctxDone
        => /\ errs = fns
           /\ \A f \in fns : result[f] \in Errors

\* A goroutine never waits for room in the channel, so it ends although nobody
\* receives: before the loop has started all functions, and after the return.
SendersNeverBlock ==
    (\E f \in Fns : job[f] \in {"sending", "selecting"}) => Len(results) < Cardinality(fns)
=============================================================================
