----------------------------- MODULE EpochRegistry -----------------------------
(***************************************************************************)
(* What the registry of loaded epochs (MultiEpoch in multiepoch.go)          *)
(* promises its callers: an atomic map from epoch numbers to epoch handles,  *)
(* in which a handle is closed in the same step that takes it out.  Module   *)
(* MultiEpoch models the code with its lock and implements this one.         *)
(***************************************************************************)
EXTENDS Naturals

CONSTANTS EpochNums,  \* epoch numbers
          Handles,    \* *Epoch values, each built once by NewEpochFromConfig
          EpochOf,    \* the epoch number of each handle (ep.Epoch())
          ConfigOf,   \* the config file each handle was built from
          NoHandle,   \* an absent map entry, or an error to the caller
          Requests    \* goroutines that serve RPC requests

VARIABLES epochs,     \* the map, total: an absent entry is NoHandle
          closed,     \* handles on which Close was called
          shut,       \* MultiEpoch.Close was called
          phase,      \* each request: idle, asked or answered
          ask,        \* the getter it called and the epoch it asked for
          got         \* the handle it was given

vars == <<epochs, closed, shut, phase, ask, got>>
requestVars == <<phase, ask, got>>

Available(map) == {e \in EpochNums : map[e] # NoHandle}
Mapped(map) == {map[e] : e \in Available(map)}

\* GetEpochNumbers sorts from most recent to oldest; its first and its last.
Newest(map) == CHOOSE e \in Available(map) : \A f \in Available(map) : f <= e
Oldest(map) == CHOOSE e \in Available(map) : \A f \in Available(map) : e <= f

Init ==
    /\ epochs = [e \in EpochNums |-> NoHandle]
    /\ closed = {}
    /\ shut = FALSE
    /\ phase = [p \in Requests |-> "idle"]
    /\ ask = [p \in Requests |-> <<"none", 0>>]
    /\ got = [p \in Requests |-> NoHandle]

Fresh(h) == h \notin closed \cup Mapped(epochs)

Add(h) ==
    /\ Fresh(h)
    /\ epochs[EpochOf[h]] = NoHandle
    /\ epochs' = [epochs EXCEPT ![EpochOf[h]] = h]
    /\ UNCHANGED <<closed, shut, requestVars>>

ReplaceOrAdd(h) ==
    /\ Fresh(h)
    /\ epochs' = [epochs EXCEPT ![EpochOf[h]] = h]
    /\ closed' = closed \cup ({epochs[EpochOf[h]]} \ {NoHandle})
    /\ UNCHANGED <<shut, requestVars>>

Remove(e) ==
    /\ epochs[e] # NoHandle
    /\ epochs' = [epochs EXCEPT ![e] = NoHandle]
    /\ closed' = closed \cup {epochs[e]}
    /\ UNCHANGED <<shut, requestVars>>

CloseAll ==
    /\ shut' = TRUE
    /\ closed' = closed \cup Mapped(epochs)
    /\ UNCHANGED <<epochs, requestVars>>

\* A request calls GetEpoch, or asks for the newest or the oldest epoch.
Ask(p, op, e) ==
    /\ phase[p] = "idle"
    /\ phase' = [phase EXCEPT ![p] = "asked"]
    /\ ask' = [ask EXCEPT ![p] = <<op, e>>]
    /\ UNCHANGED <<epochs, closed, shut, got>>

\* What the getter returns on the map; NoHandle stands for its error.
Result(map, question) ==
    IF question[1] = "GetEpoch" THEN map[question[2]]
    ELSE IF Available(map) = {} THEN NoHandle
    ELSE IF question[1] = "Newest" THEN map[Newest(map)]
    ELSE map[Oldest(map)]

Reply(p) ==
    /\ phase[p] = "asked"
    /\ phase' = [phase EXCEPT ![p] = "answered"]
    /\ got' = [got EXCEPT ![p] = Result(epochs, ask[p])]
    /\ UNCHANGED <<epochs, closed, shut, ask>>

\* The request is answered and forgets its handle.
Release(p) ==
    /\ phase[p] = "answered"
    /\ phase' = [phase EXCEPT ![p] = "idle"]
    /\ ask' = [ask EXCEPT ![p] = <<"none", 0>>]
    /\ got' = [got EXCEPT ![p] = NoHandle]
    /\ UNCHANGED <<epochs, closed, shut>>

Next ==
    \/ \E h \in Handles : Add(h) \/ ReplaceOrAdd(h)
    \/ \E e \in EpochNums : Remove(e)
    \/ CloseAll
    \/ \E p \in Requests :
          \/ \E op \in {"GetEpoch", "Newest", "Oldest"}, e \in EpochNums : Ask(p, op, e)
          \/ Reply(p)
          \/ Release(p)

Spec == Init /\ [][Next]_vars
=============================================================================
