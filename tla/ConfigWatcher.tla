---------------------------- MODULE ConfigWatcher ----------------------------
(***************************************************************************)
(* cmd-rpc.go: the epochs served follow the config files. At startup the     *)
(* configs already read are turned into epochs in the background; with       *)
(* --watch an event loop hands each file event to one of epochLoadConcurrency *)
(* goroutines, which skip a file that another goroutine is working on.       *)
(* The registry's operations are atomic here (see MultiEpoch).               *)
(***************************************************************************)
EXTENDS Integers, Sequences

CONSTANTS Files,      \* config files, all in watched directories
          Home,       \* the epochs a file's contents may name
          Workers,    \* epochLoadConcurrency goroutines
          Edits,      \* kinds of edits, of write, create, movein, save, remove, rename
          Qualities,  \* kinds of contents written: good, broken, unset, garbled
          Disciplines,\* how the files may be edited: see discipline
          MaxEdits,   \* bound on the number of edits
          None        \* no file, no config, no epoch

EpochNums == UNION {Home[f] : f \in Files}

ASSUME HomeAssumption == \A f \in Files : Home[f] # {} /\ Home[f] \subseteq Nat
ASSUME MaxEditsAssumption == MaxEdits \in Nat

VARIABLES disk,      \* content of each file
          edits,     \* number of edits made
          discipline,\* files are edited at any time (none), once their startup load is
                     \* over (started), or, written in place, added and removed, once
                     \* their earlier edits are processed (calm)
          watching,  \* the directories are being watched
          stopped,   \* the context of the event loop is done
          queue,     \* file events not yet handed to a goroutine
          tracked,   \* fileProcessingTracker
          worker,    \* what each goroutine is doing
          boot,      \* startup load of each file: load, set0, set1, done
          configs,   \* the configs read at startup
          epochs,    \* the registry: config and file of each loaded epoch
          metric,    \* metrics.EpochsAvailable
          crashed    \* a goroutine panicked

editVars == <<disk, edits>>
loopVars == <<watching, stopped, discipline>>
bootVars == <<boot, configs>>
vars == <<editVars, loopVars, queue, tracked, worker, bootVars, epochs, metric, crashed>>

\* A content: the epoch it names, the edit that wrote it, what loading it comes
\* to (a broken one names files that cannot be opened, an unset one lacks the
\* epoch number, a garbled one, empty or half written, does not parse) and the
\* edit that put it into its file.
Contents == [epoch : EpochNums, edit : 0..MaxEdits, quality : Qualities \cup {"good", "broken", "garbled"},
             at : 0..MaxEdits]

\* hashFileSha256: depends on the bytes only.
Sum(content) == <<content.epoch, content.edit, content.quality>>
Sums == {Sum(c) : c \in Contents}

\* What the registry holds of a loaded epoch.
Entries == [config : Contents, hash : Sums, file : Files]

ASSUME NoneAssumption == None \notin Files \cup Contents \cup Sums \cup Entries

Idle == [pc |-> "idle", file |-> None, op |-> "none", config |-> None, hash |-> None,
         num |-> 0, value |-> 0]

Loaded(e) == epochs[e] # None

Init ==
    /\ disk \in [Files -> {None} \cup
                 [epoch : EpochNums, edit : {0}, quality : {"good", "broken"},
                  at : {0}]]
    /\ \A f \in Files : disk[f] # None => disk[f].epoch \in Home[f]
    \* ConfigSlice.Validate: every config is valid and epochs are unique.
    /\ \A f, g \in Files :
          f # g /\ disk[f] # None /\ disk[g] # None => disk[f].epoch # disk[g].epoch
    /\ edits = 0
    /\ discipline \in Disciplines
    /\ watching = FALSE
    /\ stopped = FALSE
    /\ queue = <<>>
    /\ tracked = {}
    /\ worker = [w \in Workers |-> Idle]
    /\ configs = disk
    /\ boot = [f \in Files |-> IF disk[f] = None THEN "done" ELSE "load"]
    /\ epochs = [e \in EpochNums |-> None]
    /\ metric = [e \in EpochNums \cup {0} |-> 0]
    /\ crashed = FALSE
-----------------------------------------------------------------------------
(* Edits of the config files and the events fsnotify reports for them.      *)

Event(f, op) == [file |-> f, op |-> op]

Started(f) == watching /\ boot[f] = "done"

\* Nothing is under way for the file.
Calm(f) ==
    /\ Started(f)
    /\ \A i \in DOMAIN queue : queue[i].file # f
    /\ \A w \in Workers : worker[w].file # f

Edited(fs, contents, events) ==
    /\ edits < MaxEdits
    /\ ~crashed
    /\ discipline = "started" => \A f \in fs : Started(f)
    /\ discipline = "calm" => \A f \in fs : Calm(f)
    /\ edits' = edits + 1
    /\ disk' = contents
    /\ queue' = IF watching THEN queue \o events ELSE queue
    /\ UNCHANGED <<loopVars, tracked, worker, bootVars, epochs, metric, crashed>>

New(f, e, q) ==
    [disk EXCEPT ![f] = [epoch |-> e, edit |-> edits + 1, quality |-> q, at |-> edits + 1]]

\* A file is written in place, created empty, moved into the directory or over
\* an older file (the rename that ends an atomic save), removed, or renamed.
WriteFile(f, e, q) ==
    /\ "write" \in Edits
    /\ disk[f] # None
    /\ Edited({f}, New(f, e, q), <<Event(f, "Write")>>)

CreateFile(f, e) ==
    /\ "create" \in Edits
    /\ disk[f] = None
    /\ Edited({f}, New(f, e, "garbled"), <<Event(f, "Create")>>)

MoveFile(f, e, q) ==
    /\ (IF disk[f] = None THEN "movein" ELSE "save") \in Edits
    /\ discipline = "calm" => disk[f] = None
    /\ Edited({f}, New(f, e, q), <<Event(f, "Create")>>)

RemoveFile(f) ==
    /\ "remove" \in Edits
    /\ disk[f] # None
    /\ Edited({f}, [disk EXCEPT ![f] = None], <<Event(f, "Remove")>>)

Moved(content) ==
    [epoch |-> content.epoch, edit |-> content.edit, quality |-> content.quality,
     at |-> edits + 1]

RenameFile(f, g) ==
    /\ "rename" \in Edits
    /\ discipline # "calm"
    /\ disk[f] # None
    /\ disk[g] = None
    /\ Edited({f, g}, [disk EXCEPT ![f] = None, ![g] = Moved(disk[f])],
              <<Event(f, "Rename"), Event(g, "Create")>>)

Edit ==
    \/ \E f \in Files, q \in Qualities : \E e \in Home[f] : WriteFile(f, e, q)
    \/ \E f \in Files : \E e \in Home[f] : CreateFile(f, e)
    \/ \E f \in Files, q \in Qualities : \E e \in Home[f] : MoveFile(f, e, q)
    \/ \E f \in Files : RemoveFile(f)
    \/ \E f, g \in Files : RenameFile(f, g)
-----------------------------------------------------------------------------
(* Startup.                                                                 *)

\* onFileChanged adds the directories to the watcher.
StartWatch ==
    /\ ~watching
    /\ ~crashed
    /\ watching' = TRUE
    /\ UNCHANGED <<editVars, stopped, discipline, queue, tracked, worker, bootVars, epochs, metric, crashed>>

\* Mutant of BootLoad: the startup load replaces.
BootLoadReplace(f) ==
    /\ boot[f] = "load"
    /\ ~crashed
    /\ boot' = [boot EXCEPT ![f] = IF configs[f].quality = "good" THEN "set1" ELSE "set0"]
    /\ epochs' = IF configs[f].quality = "good"
                 THEN [epochs EXCEPT ![configs[f].epoch] =
                          [config |-> configs[f], hash |-> Sum(configs[f]), file |-> f]]
                 ELSE epochs
    /\ UNCHANGED <<editVars, loopVars, queue, tracked, worker, configs, metric, crashed>>

\* NewEpochFromConfig and AddEpoch for a config read at startup.
BootLoad(f) ==
    /\ boot[f] = "load"
    /\ ~crashed
    /\ LET added == configs[f].quality = "good" /\ ~Loaded(configs[f].epoch) IN
       /\ boot' = [boot EXCEPT ![f] = IF added THEN "set1" ELSE "set0"]
       /\ epochs' = IF added
                    THEN [epochs EXCEPT ![configs[f].epoch] =
                             [config |-> configs[f], hash |-> Sum(configs[f]), file |-> f]]
                    ELSE epochs
    /\ UNCHANGED <<editVars, loopVars, queue, tracked, worker, configs, metric, crashed>>

\* EpochsAvailable is set by the outcome.
BootMetric(f) ==
    /\ boot[f] \in {"set0", "set1"}
    /\ ~crashed
    /\ metric' = [metric EXCEPT ![configs[f].epoch] = IF boot[f] = "set1" THEN 1 ELSE 0]
    /\ boot' = [boot EXCEPT ![f] = "done"]
    /\ UNCHANGED <<editVars, loopVars, queue, tracked, worker, configs, epochs, crashed>>
-----------------------------------------------------------------------------
(* The event loop and its goroutines.                                       *)

\* The loop hands the next event to a goroutine; it waits in errgroup's Go
\* while all epochLoadConcurrency of them are busy.
Dispatch(w) ==
    /\ watching
    /\ ~stopped
    /\ ~crashed
    /\ queue # <<>>
    /\ worker[w].pc = "idle"
    /\ worker' = [worker EXCEPT ![w] =
          [Idle EXCEPT !.pc = "track", !.file = Head(queue).file, !.op = Head(queue).op]]
    /\ queue' = Tail(queue)
    /\ UNCHANGED <<editVars, loopVars, tracked, bootVars, epochs, metric, crashed>>

\* ctx.Done: events are no longer taken; running goroutines finish.
Stop ==
    /\ watching
    /\ ~stopped
    /\ ~crashed
    /\ stopped' = TRUE
    /\ UNCHANGED <<editVars, watching, discipline, queue, tracked, worker, bootVars, epochs, metric, crashed>>

At(w, pc) == worker[w].pc = pc /\ ~crashed

Goto(w, pc) == worker' = [worker EXCEPT ![w] = [@ EXCEPT !.pc = pc]]

\* isBeingProcessedOrAdd: an event of a file that is being processed is dropped.
Track(w) ==
    /\ At(w, "track")
    /\ IF worker[w].file \in tracked
       THEN worker' = [worker EXCEPT ![w] = Idle] /\ UNCHANGED tracked
       ELSE Goto(w, "check") /\ tracked' = tracked \cup {worker[w].file}
    /\ UNCHANGED <<editVars, loopVars, queue, bootVars, epochs, metric, crashed>>

\* HasEpochWithSameHashAsFile, over all loaded epochs, then the switch.
Check(w) ==
    /\ At(w, "check")
    /\ LET f == worker[w].file
           op == worker[w].op
           same == disk[f] # None /\ \E e \in EpochNums : Loaded(e) /\ epochs[e].hash = Sum(disk[f])
       IN  Goto(w, IF op = "Rename" \/ (op # "Remove" /\ same) THEN "untrack"
                   ELSE IF op = "Remove" THEN "remove" ELSE "parse")
    /\ UNCHANGED <<editVars, loopVars, queue, tracked, bootVars, epochs, metric, crashed>>

\* Mutant of Parse: a file that does not parse is checked again.
ParseRetry(w) ==
    /\ At(w, "parse")
    /\ LET content == disk[worker[w].file] IN
       IF content = None \/ content.quality = "garbled"
       THEN Goto(w, "check")
       ELSE worker' = [worker EXCEPT ![w] = [@ EXCEPT !.config = content, !.pc = "hash"]]
    /\ UNCHANGED <<editVars, loopVars, queue, tracked, bootVars, epochs, metric, crashed>>

\* LoadConfig reads the file once to parse it ...
Parse(w) ==
    /\ At(w, "parse")
    /\ LET content == disk[worker[w].file] IN
       IF content = None \/ content.quality = "garbled"
       THEN Goto(w, "untrack")
       ELSE worker' = [worker EXCEPT ![w] = [@ EXCEPT !.config = content, !.pc = "hash"]]
    /\ UNCHANGED <<editVars, loopVars, queue, tracked, bootVars, epochs, metric, crashed>>

\* ... and once more to hash it.
Hash(w) ==
    /\ At(w, "hash")
    /\ LET content == disk[worker[w].file] IN
       IF content = None
       THEN Goto(w, "untrack")
       ELSE worker' = [worker EXCEPT ![w] = [@ EXCEPT !.hash = Sum(content), !.pc = "build"]]
    /\ UNCHANGED <<editVars, loopVars, queue, tracked, bootVars, epochs, metric, crashed>>

\* NewEpochFromConfig: dereferences the epoch number, then opens the files.
Build(w) ==
    /\ At(w, "build")
    /\ LET quality == worker[w].config.quality IN
       IF quality = "unset"
       THEN crashed' = TRUE /\ UNCHANGED worker
       ELSE Goto(w, IF quality = "good" THEN "install" ELSE "untrack") /\ UNCHANGED crashed
    /\ UNCHANGED <<editVars, loopVars, queue, tracked, bootVars, epochs, metric>>

\* Mutant of Install: a Write is handled as a Create.
InstallAddOnly(w) ==
    /\ At(w, "install")
    /\ LET c == worker[w].config IN
       IF Loaded(c.epoch)
       THEN Goto(w, "untrack") /\ UNCHANGED epochs
       ELSE /\ epochs' = [epochs EXCEPT ![c.epoch] =
                             [config |-> c, hash |-> worker[w].hash, file |-> worker[w].file]]
            /\ worker' = [worker EXCEPT ![w] = [@ EXCEPT !.pc = "metric", !.num = c.epoch, !.value = 1]]
    /\ UNCHANGED <<editVars, loopVars, queue, tracked, bootVars, metric, crashed>>

\* Write: ReplaceOrAddEpoch. Create: AddEpoch, which refuses a loaded epoch.
Install(w) ==
    /\ At(w, "install")
    /\ LET c == worker[w].config IN
       IF worker[w].op = "Create" /\ Loaded(c.epoch)
       THEN Goto(w, "untrack") /\ UNCHANGED epochs
       ELSE /\ epochs' = [epochs EXCEPT ![c.epoch] =
                             [config |-> c, hash |-> worker[w].hash, file |-> worker[w].file]]
            /\ worker' = [worker EXCEPT ![w] = [@ EXCEPT !.pc = "metric", !.num = c.epoch, !.value = 1]]
    /\ UNCHANGED <<editVars, loopVars, queue, tracked, bootVars, metric, crashed>>

\* RemoveEpochByConfigFilepath takes out one epoch loaded from the file. When
\* there is none it returns an error and the number 0, and the caller goes on.
Remove(w) ==
    /\ At(w, "remove")
    /\ LET from == {e \in EpochNums : Loaded(e) /\ epochs[e].file = worker[w].file} IN
       \E e \in IF from = {} THEN {0} ELSE from :
          /\ epochs' = IF from = {} THEN epochs ELSE [epochs EXCEPT ![e] = None]
          /\ worker' = [worker EXCEPT ![w] = [@ EXCEPT !.pc = "metric", !.num = e, !.value = 0]]
    /\ UNCHANGED <<editVars, loopVars, queue, tracked, bootVars, metric, crashed>>

SetMetric(w) ==
    /\ At(w, "metric")
    /\ metric' = [metric EXCEPT ![worker[w].num] = worker[w].value]
    /\ Goto(w, "untrack")
    /\ UNCHANGED <<editVars, loopVars, queue, tracked, bootVars, epochs, crashed>>

\* removeFromList, deferred; the goroutine ends.
Untrack(w) ==
    /\ At(w, "untrack")
    /\ tracked' = tracked \ {worker[w].file}
    /\ worker' = [worker EXCEPT ![w] = Idle]
    /\ UNCHANGED <<editVars, loopVars, queue, bootVars, epochs, metric, crashed>>
-----------------------------------------------------------------------------
Step(w) ==
    \/ Dispatch(w) \/ Track(w) \/ Check(w) \/ Parse(w) \/ Hash(w) \/ Build(w)
    \/ Install(w) \/ Remove(w) \/ SetMetric(w) \/ Untrack(w)

Boot(f) == BootLoad(f) \/ BootMetric(f)

Next ==
    \/ Edit
    \/ StartWatch
    \/ Stop
    \/ \E f \in Files : Boot(f)
    \/ \E w \in Workers : Step(w)

Spec == Init /\ [][Next]_vars

\* The Go scheduler runs every goroutine that can run.
FairSpec ==
    /\ Spec
    /\ WF_vars(StartWatch)
    /\ \A f \in Files : WF_vars(Boot(f))
    /\ \A w \in Workers : WF_vars(Step(w))
-----------------------------------------------------------------------------
Settled ==
    /\ watching /\ ~stopped /\ ~crashed
    /\ queue = <<>>
    /\ \A w \in Workers : worker[w].pc = "idle"
    /\ \A f \in Files : boot[f] = "done"

Jobs == [pc : {"idle", "track", "check", "parse", "hash", "build", "install", "remove",
               "metric", "untrack"},
         file : Files \cup {None}, op : {"none", "Write", "Create", "Remove", "Rename"},
         config : Contents \cup {None}, hash : Sums \cup {None},
         num : EpochNums \cup {0}, value : {0, 1}]

\* Every variable of the loader and the watcher keeps its type.
TypeOK ==
    /\ disk \in [Files -> Contents \cup {None}]
    /\ edits \in 0..MaxEdits
    /\ watching \in BOOLEAN /\ stopped \in BOOLEAN /\ crashed \in BOOLEAN
    /\ queue \in Seq([file : Files, op : {"Write", "Create", "Remove", "Rename"}])
    /\ tracked \subseteq Files
    /\ worker \in [Workers -> Jobs]
    /\ boot \in [Files -> {"load", "set0", "set1", "done"}]
    /\ configs \in [Files -> Contents \cup {None}]
    /\ epochs \in [EpochNums -> Entries \cup {None}]
    /\ metric \in [EpochNums \cup {0} -> {0, 1}]

\* fileProcessingTracker: at most one goroutine processes a file, and the
\* tracker holds exactly the files that some goroutine is processing.
Processing(w) == worker[w].pc \notin {"idle", "track"}
OneWorkerPerFile ==
    /\ \A v, w \in Workers :
          Processing(v) /\ Processing(w) /\ worker[v].file = worker[w].file => v = w
    /\ tracked = {worker[w].file : w \in {v \in Workers : Processing(v)}}

\* The config that an epoch is served from never goes back to an older content
\* of the same file, whatever the order of the events, of the goroutines and
\* of the startup load.
NoRegress ==
    [][\A e \in EpochNums :
          Loaded(e) /\ Loaded(e)' /\ epochs[e].file = epochs'[e].file
              => epochs'[e].config.at >= epochs[e].config.at]_vars

\* When nothing is under way, every config on disk that can be loaded is what
\* its epoch is served from: changes are reloaded, new files are added.
Reloaded ==
    Settled => \A f \in Files :
        disk[f] # None /\ disk[f].quality = "good"
            => Loaded(disk[f].epoch) /\ Sum(epochs[disk[f].epoch].config) = Sum(disk[f])

\* That holds for files that are edited calmly.
CalmReloaded == discipline = "calm" => Reloaded

\* With calm edits, when nothing is under way, no epoch is served that no config
\* on disk names: the epoch of a removed file is removed.
CalmRemoved ==
    discipline = "calm" /\ Settled => \A e \in EpochNums :
        Loaded(e) => \E f \in Files : disk[f] # None /\ disk[f].epoch = e

\* With calm edits, when nothing is under way, the gauge EpochsAvailable is 1 for
\* exactly the loaded epochs (epoch 0 aside, see Remove).
CalmMetric ==
    discipline = "calm" /\ Settled => \A e \in EpochNums \ {0} : metric[e] = 1 <=> Loaded(e)

\* After calm edits what is served is what the files on disk say, and the gauge
\* tells so.
CalmFollowed == CalmReloaded /\ CalmRemoved /\ CalmMetric

\* The events of the last edits are all processed and the goroutines end,
\* unless the loop is stopped or a goroutine panics first.
Drains == <>[](stopped \/ crashed \/ Settled)
=============================================================================
