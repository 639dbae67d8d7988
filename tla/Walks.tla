-------------------------------- MODULE Walks -------------------------------
(***************************************************************************)
(* The goroutines that walk the CAR file of an epoch: the accumulator, or   *)
(* `index sig-exists`.  A behaviour is about one of them.                   *)
(***************************************************************************)
EXTENDS Integers, Sequences

CONSTANTS SigCars, NumWorkers,
          AccumulatorCars, Kinds, FlushOnKind, IgnoreKinds, SkipNodes, QueueCap

VARIABLES which, pc, state, input

VARIABLES car, skip, pos, offset, first, main, result, queue, wg, flusher, current, delivered,
          cancelled, stopped

accumulator == <<car, skip, pos, offset, first, main, result, queue, wg, flusher, current, delivered,
                 cancelled, stopped>>

all == <<which, pc, state, input, accumulator>>

SX == INSTANCE SigExistsTool WITH writer <- state, file <- input, Cars <- SigCars

A == INSTANCE Accumulator WITH Cars <- AccumulatorCars

\* A CAR file is a sequence of nodes; its sections follow one another.
ASSUME SigCarsAssumption == SigCars \subseteq Seq(UNION {{c[i] : i \in DOMAIN c} : c \in SigCars})
ASSUME AccumulatorAssumption == A!CarsOk

NoAccumulator ==
    /\ car = 0 /\ skip = 0 /\ pos = 0 /\ offset = 0 /\ first = 0 /\ main = "none" /\ result = "none"
    /\ queue = <<>> /\ wg = 0 /\ flusher = "none" /\ current = 0 /\ delivered = <<>>
    /\ cancelled = FALSE /\ stopped = FALSE

WalkInit ==
    \/ which = "sig-exists" /\ SX!Init /\ NoAccumulator
    \/ which = "accumulator" /\ A!Init /\ pc = "none" /\ state = 0 /\ input = 0

WalkNext ==
    /\ \/ which = "sig-exists" /\ SX!Next /\ UNCHANGED accumulator
       \/ which = "accumulator" /\ A!Next /\ UNCHANGED <<pc, state, input>>
    /\ UNCHANGED which

WalkRuns ==
    /\ \/ which = "sig-exists" /\ SX!Goroutines /\ UNCHANGED accumulator
       \/ which = "accumulator" /\ A!Goroutines /\ UNCHANGED <<pc, state, input>>
    /\ UNCHANGED which

WalkSpec == WalkInit /\ [][WalkNext]_all /\ WF_all(WalkRuns)
-----------------------------------------------------------------------------
(* The properties of the walks; their modules state the parts one by one.   *)

\* The sig-exists index is sealed with every signature.
SealsEverySignature == which = "sig-exists" => SX!SealsEverySignature

\* The accumulator's callback gets the objects in the order of the file, each once; Run
\* returns only after everything that was read was handed over, and never after ErrStop.
AccumulatorExact ==
    which = "accumulator" => A!InOrder /\ A!CompleteOnReturn /\ A!StopNeverReturns
=============================================================================
