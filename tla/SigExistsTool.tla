--------------------------- MODULE SigExistsTool ----------------------------
(***************************************************************************)
(* The `index sig-exists` command (cmd-x-index-sig-exists.go).  The main   *)
(* goroutine hands the transactions of a CAR file to a pool of workers;    *)
(* one goroutine puts the signatures they return in the index; two wait    *)
(* groups tell the main goroutine when it may seal.                        *)
(*                                                                         *)
(* A node is the signature of a transaction, "other" for another kind of   *)
(* node and "bad" for a transaction whose signature cannot be read.        *)
(***************************************************************************)
EXTENDS Integers, Sequences

CONSTANTS Cars,       \* the CAR files: sequences of nodes
          NumWorkers  \* the size of the pool and of the two channels

VARIABLES pc, writer, file

vars == <<pc, writer, file>>

\* executed and received are the counts of the two wait groups; input and
\* output the channels; busy the transactions the pool works on, finished
\* those whose result waits for room in the output channel.
Init ==
  /\ pc = "reading"
  /\ file \in {[car |-> c, sealed |-> {}] : c \in Cars}
  /\ writer = [pos |-> 1, executed |-> 0, received |-> 0, input |-> <<>>,
               closed |-> FALSE, busy |-> <<>>, finished |-> <<>>, output |-> <<>>, taken |-> <<>>,
               index |-> {}]

AtEnd == writer.pos > Len(file.car)

\* rd.Next: a transaction is added to both wait groups and sent to the pool.
Dispatch ==
  /\ pc = "reading" /\ ~AtEnd
  /\ LET n == file.car[writer.pos]
     IN IF n = "other" THEN writer' = [writer EXCEPT !.pos = @ + 1]
        ELSE /\ Len(writer.input) < NumWorkers
             /\ writer' = [writer EXCEPT !.pos = @ + 1, !.executed = @ + 1,
                            !.received = @ + 1, !.input = Append(@, n)]
  /\ UNCHANGED <<pc, file>>

\* A section that cannot be read ends the command; the index is closed by the
\* deferred call, unsealed.
ReadFails ==
  /\ pc = "reading" /\ ~AtEnd
  /\ pc' = "failed"
  /\ UNCHANGED <<writer, file>>

\* The pool (ordered-concurrently): a worker takes a transaction ...
WorkerTakes ==
  /\ pc \notin {"failed", "crashed"}
  /\ writer.input # <<>> /\ Len(writer.busy) < NumWorkers
  /\ writer' = [writer EXCEPT !.input = Tail(@), !.busy = Append(@, Head(writer.input))]
  /\ UNCHANGED <<pc, file>>

\* ... runs it, and its deferred done() counts it executed ...
Run(i) ==
  /\ pc \notin {"failed", "crashed"}
  /\ writer' = [writer EXCEPT !.busy = SubSeq(@, 1, i - 1) \o SubSeq(@, i + 1, Len(@)),
                  !.finished = Append(@, writer.busy[i]), !.executed = @ - 1]
  /\ UNCHANGED <<pc, file>>

\* ... before its result reaches the output channel.
Deliver ==
  /\ pc \notin {"failed", "crashed"}
  /\ writer.finished # <<>> /\ Len(writer.output) < NumWorkers
  /\ writer' = [writer EXCEPT !.finished = Tail(@), !.output = Append(@, Head(writer.finished))]
  /\ UNCHANGED <<pc, file>>

\* The receiving goroutine takes a result: it panics on an error; it puts the
\* signature in the index and then counts the result received.
Receive ==
  /\ pc \notin {"failed", "crashed"}
  /\ \/ /\ writer.output # <<>> /\ writer.taken = <<>>
        /\ IF Head(writer.output) = "bad"
           THEN pc' = "crashed" /\ UNCHANGED writer
           ELSE /\ pc' = pc
                /\ writer' = [writer EXCEPT !.output = Tail(@),
                                !.index = @ \cup {Head(writer.output)},
                                !.taken = <<Head(writer.output)>>]
     \/ /\ writer.taken # <<>> /\ pc' = pc
        /\ writer' = [writer EXCEPT !.received = @ - 1, !.taken = <<>>]
  /\ UNCHANGED file

\* The end of the file: waitExecuted.Wait, close, waitResultsReceived.Wait.
WaitExecuted ==
  /\ pc = "reading" /\ AtEnd /\ writer.executed = 0
  /\ pc' = "draining"
  /\ writer' = [writer EXCEPT !.closed = TRUE]
  /\ UNCHANGED file

\* Mutant of Seal: only the executed transactions are waited for.
SealWhenExecuted ==
  /\ pc = "draining"
  /\ pc' = "sealed"
  /\ file' = [file EXCEPT !.sealed = writer.index]
  /\ UNCHANGED writer

Seal ==
  /\ pc = "draining" /\ writer.received = 0
  /\ pc' = "sealed"
  /\ file' = [file EXCEPT !.sealed = writer.index]
  /\ UNCHANGED writer

Goroutines ==
  \/ Dispatch \/ WorkerTakes \/ (\E i \in DOMAIN writer.busy : Run(i))
  \/ Deliver \/ Receive \/ WaitExecuted \/ Seal

Next == Goroutines \/ ReadFails

\* The Go runtime does not stop while some goroutine can run.
Fairness == WF_vars(Goroutines)

Spec == Init /\ [][Next]_vars /\ Fairness

-----------------------------------------------------------------------------
(* Properties.                                                             *)

\* The index is sealed only with the signature of every transaction of the
\* CAR file in it: the two wait groups of the command together cover a
\* transaction from the input channel to index.Put.
SealsEverySignature ==
  pc = "sealed" => file.sealed = {file.car[i] : i \in DOMAIN file.car} \ {"other"}

\* The command ends: it seals, or it stops at an unreadable section or at a
\* transaction it cannot parse.  The bounded channels never hold everybody up.
CommandEnds == <>(pc \in {"sealed", "failed", "crashed"})
=============================================================================
