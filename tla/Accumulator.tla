---------------------------- MODULE Accumulator ----------------------------
(***************************************************************************)
(* accum/block.go: the tools that walk a CAR file object by object.  Run    *)
(* reads the objects and groups them: a group is the objects up to and      *)
(* including one of the kind to flush on.  Groups go through a bounded      *)
(* queue to a second goroutine, startFlusher, which calls the callback; a   *)
(* wait group counts the groups that were sent and not yet flushed.         *)
(***************************************************************************)
EXTENDS Integers, Sequences

CONSTANTS Cars,        \* CAR files: kinds of the objects, start of each section, how the file ends
          Kinds,       \* kinds of objects
          FlushOnKind, IgnoreKinds,
          SkipNodes,   \* values of SetSkip
          QueueCap     \* 1000 in the code

(* The sections of a file follow one another from the end of the header.    *)
CarsOk ==
    /\ QueueCap \in Nat \ {0}
    /\ SkipNodes \subseteq Nat
    /\ \A c \in Cars : /\ c.kind \in Seq(Kinds)
                       /\ c.start \in [1..Len(c.kind) + 1 -> Nat]
                       /\ c.end \in {"eof", "torn", "short"}

VARIABLES car, skip,   \* the file, skipNodes
          pos,         \* the next object
          offset,      \* totalOffset
          first,       \* the first object of the group being collected
          main,        \* start, run, send, last, wait, returned, crashed
          result,      \* what Run returns
          queue, wg,   \* flushQueue, flushWg
          flusher,     \* idle, busy, gone
          current,     \* the group in the flusher's hands
          delivered,   \* the groups the callback was called with
          cancelled, stopped    \* the context; the callback returned ErrStop

vars == <<car, skip, pos, offset, first, main, result, queue, wg, flusher, current, delivered,
          cancelled, stopped>>

Objects == 1..Len(car.kind)

\* A flushBuffer: the objects first..last of the file, less the skipped and the ignored
\* ones, the last one being the parent if there is one; at is the offset of the parent.
Group(f, l, parent, at) == [first |-> f, last |-> l, parent |-> parent, at |-> at]
NoGroup == Group(0, 0, FALSE, 0)

Children(g) ==
    {i \in g.first..g.last : i > skip /\ car.kind[i] \notin IgnoreKinds /\ ~(g.parent /\ i = g.last)}

Init ==
    /\ car \in Cars
    /\ skip \in SkipNodes
    /\ pos = 1 /\ offset = 0 /\ first = 1
    /\ main = "start" /\ result = "none"
    /\ queue = <<>> /\ wg = 0
    /\ flusher = "idle" /\ current = NoGroup
    /\ delivered = <<>>
    /\ cancelled = FALSE /\ stopped = FALSE

reading == <<pos, offset, first>>
flushing == <<flusher, current, delivered, stopped>>
-----------------------------------------------------------------------------
(* Run.                                                                     *)

\* The offset of the first object is the size of the header.
HeaderSize ==
    /\ main = "start"
    /\ \/ main' = "run" /\ offset' = car.start[1] /\ UNCHANGED result
       \/ main' = "wait" /\ result' = "error" /\ UNCHANGED offset
    /\ UNCHANGED <<car, skip, pos, first, queue, wg, flushing, cancelled>>

\* currentOffset := totalOffset; totalOffset += sectionLength
NextNodeBytes ==
    /\ main = "run" /\ ~cancelled
    /\ pos <= Len(car.kind)
    /\ pos' = pos + 1
    /\ offset' = offset + (car.start[pos + 1] - car.start[pos])

\* A child, or an object that is skipped or ignored.
Collect ==
    /\ NextNodeBytes
    /\ pos <= skip \/ car.kind[pos] # FlushOnKind
    /\ UNCHANGED <<car, skip, first, main, result, queue, wg, flushing, cancelled>>

\* sendToFlusher, up to the send on the channel.
SendToFlusher(g, then) ==
    /\ wg' = wg + 1
    /\ main' = then
    /\ queue' = Append(queue, g)

Parent ==
    /\ NextNodeBytes
    /\ pos > skip /\ car.kind[pos] = FlushOnKind
    /\ SendToFlusher(Group(first, pos, TRUE, offset), "send")
    /\ first' = pos + 1
    /\ UNCHANGED <<car, skip, result, flushing, cancelled>>

\* NextNodeBytes never returns nil data without an error.
EndOfFile ==
    /\ main = "run" /\ ~cancelled
    /\ pos = Len(car.kind) + 1
    /\ car.end = "eof" \/ (car.end = "short" /\ pos <= skip)
    /\ SendToFlusher(Group(first, pos - 1, FALSE, offset), "last")
    /\ first' = pos
    /\ result' = "ok"
    /\ UNCHANGED <<car, skip, pos, offset, flushing, cancelled>>

\* The send completes when the group fits into the buffer of the channel; until then it is
\* the last element of the queue, and Run waits.
Sent ==
    /\ main \in {"send", "last"}
    /\ Len(queue) <= QueueCap
    /\ main' = IF main = "send" THEN "run" ELSE "wait"
    /\ UNCHANGED <<car, skip, reading, result, queue, wg, flushing, cancelled>>

ReadError ==
    /\ main = "run" /\ ~cancelled
    /\ pos = Len(car.kind) + 1 /\ car.end = "torn"
    /\ main' = "wait" /\ result' = "error"
    /\ UNCHANGED <<car, skip, reading, queue, wg, flushing, cancelled>>

\* data[1] of an object, not skipped, that has fewer than two bytes: panic.
ShortData ==
    /\ main = "run" /\ ~cancelled
    /\ pos = Len(car.kind) + 1 /\ car.end = "short" /\ pos > skip
    /\ main' = "crashed"
    /\ UNCHANGED <<car, skip, reading, result, queue, wg, flushing, cancelled>>

CtxErr ==
    /\ main = "run" /\ cancelled
    /\ main' = "wait" /\ result' = "cancelled"
    /\ UNCHANGED <<car, skip, reading, queue, wg, flushing, cancelled>>

\* Mutant of Return: Run does not wait.
ReturnAtOnce ==
    /\ main = "wait"
    /\ main' = "returned"
    /\ UNCHANGED <<car, skip, reading, result, queue, wg, flushing, cancelled>>

\* The deferred flushWg.Wait() and close(flushQueue).
Return ==
    /\ main = "wait" /\ wg = 0
    /\ main' = "returned"
    /\ UNCHANGED <<car, skip, reading, result, queue, wg, flushing, cancelled>>

Run == HeaderSize \/ Collect \/ Parent \/ EndOfFile \/ Sent \/ ReadError \/ ShortData \/ CtxErr
       \/ Return
-----------------------------------------------------------------------------
(* startFlusher.                                                            *)

Receive ==
    /\ main # "crashed"
    /\ flusher = "idle" /\ queue # <<>>
    /\ flusher' = "busy" /\ current' = Head(queue)
    /\ queue' = Tail(queue)
    /\ UNCHANGED <<car, skip, reading, main, result, wg, delivered, cancelled, stopped>>

\* ctx.Done, or the nil of a closed channel.
FlusherLeaves ==
    /\ flusher = "idle"
    /\ cancelled \/ (main = "returned" /\ queue = <<>>)
    /\ flusher' = "gone"
    /\ UNCHANGED <<car, skip, reading, main, result, queue, wg, current, delivered, cancelled, stopped>>

\* flush: no callback without objects.
NothingToFlush(g) == ~g.parent /\ Children(g) = {}

\* Mutant of FlushOk: Done is called after a callback only.
FlushOkAfterCallback ==
    /\ flusher = "busy" /\ main # "crashed"
    /\ delivered' = IF NothingToFlush(current) THEN delivered ELSE Append(delivered, current)
    /\ flusher' = "idle" /\ current' = NoGroup
    /\ wg' = IF NothingToFlush(current) THEN wg ELSE wg - 1
    /\ UNCHANGED <<car, skip, reading, main, result, queue, cancelled, stopped>>

FlushOk ==
    /\ flusher = "busy" /\ main # "crashed"
    /\ delivered' = IF NothingToFlush(current) THEN delivered ELSE Append(delivered, current)
    /\ flusher' = "idle" /\ current' = NoGroup
    /\ wg' = wg - 1
    /\ UNCHANGED <<car, skip, reading, main, result, queue, cancelled, stopped>>

\* On ErrStop the flusher returns before flushWg.Done().
FlushStop ==
    /\ flusher = "busy" /\ main # "crashed"
    /\ ~NothingToFlush(current)
    /\ delivered' = Append(delivered, current)
    /\ flusher' = "gone" /\ current' = NoGroup
    /\ stopped' = TRUE
    /\ UNCHANGED <<car, skip, reading, main, result, queue, wg, cancelled>>

\* Any other error: panic.
FlushPanic ==
    /\ flusher = "busy" /\ main # "crashed"
    /\ ~NothingToFlush(current)
    /\ main' = "crashed"
    /\ UNCHANGED <<car, skip, reading, result, queue, wg, flushing, cancelled>>

StartFlusher == Receive \/ FlusherLeaves \/ FlushOk \/ FlushStop \/ FlushPanic

Cancel ==
    /\ ~cancelled /\ main # "crashed"
    /\ cancelled' = TRUE
    /\ UNCHANGED <<car, skip, reading, main, result, queue, wg, flushing>>

Next == Run \/ StartFlusher \/ Cancel

(* The Go runtime does not stop while one of the goroutines can run, and a  *)
(* callback ends.                                                           *)
Goroutines == Run \/ StartFlusher

Spec == Init /\ [][Next]_vars /\ WF_vars(Goroutines)
-----------------------------------------------------------------------------
(* Properties.                                                              *)

\* The callback gets the objects of the file in their order, each once: a group starts
\* where the one before it ended, ends at the next object to flush on, whose offset in
\* the file it knows, skipped objects or not, and only the last group has no parent.
InOrder ==
    \A i \in DOMAIN delivered :
        LET g == delivered[i]
        IN  /\ g.first = IF i = 1 THEN 1 ELSE delivered[i - 1].last + 1
            /\ \A c \in Children(g) : car.kind[c] # FlushOnKind
            /\ IF g.parent
               THEN g.last > skip /\ car.kind[g.last] = FlushOnKind /\ g.at = car.start[g.last]
               ELSE g.last = Len(car.kind) /\ i = Len(delivered)

Wanted == {o \in Objects : o > skip /\ car.kind[o] \notin IgnoreKinds}

\* Run does not return before the callback was called for every group that was read, and
\* when it returns no error that is the whole file.
CompleteOnReturn ==
    main = "returned" =>
        /\ \A o \in Wanted : o < first => \E i \in DOMAIN delivered :
                                            o \in delivered[i].first..delivered[i].last
        /\ result = "ok" => first = Len(car.kind) + 1

\* After an ErrStop, Run never returns: its flushWg.Wait() waits for a Done that the
\* flusher skipped.
StopNeverReturns == stopped => main # "returned"

\* Unless the context is cancelled or the callback gives an error, Run returns.
RunReturns == <>(main \in {"returned", "crashed"} \/ cancelled \/ stopped)
=============================================================================
