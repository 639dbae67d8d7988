------------------------- MODULE ConfigWatcherProofs -------------------------
(***************************************************************************)
(* For any files, goroutines and edits: one goroutine per file, and an epoch *)
(* never goes back to an older content of its file; and calm edits are       *)
(* followed, if each file has an epoch of its own.                           *)
(***************************************************************************)
EXTENDS ConfigWatcher, TLAPS

\* A leaf that names no prover is tried with SMT, with Zenon, and again with SMT;
\* the numbers are seconds.
USE SMTT(60), ZenonT(60), SMTT(90)

Parsed(w) == worker[w].pc \in {"hash", "build", "install"}

\* What a busy goroutine works on.
JobInv ==
    /\ \A f \in Files : boot[f] # "done" => configs[f] # None
    /\ \A w \in Workers : worker[w].pc # "idle" => worker[w].file \in Files
    /\ \A w \in Workers : Parsed(w) => worker[w].config # None
    /\ \A w \in Workers : worker[w].pc \in {"build", "install"} => worker[w].hash # None

\* Contents are stamped with edits of the past.
StampInv ==
    /\ \A f \in Files : disk[f] # None => disk[f].at <= edits
    /\ \A f \in Files : configs[f] # None => configs[f].at = 0
    /\ \A e \in EpochNums : Loaded(e) => epochs[e].config.at <= edits
    /\ \A w \in Workers : Parsed(w) => worker[w].config.at <= edits

\* What is on disk is at least as new as what a goroutine has parsed, and that
\* is at least as new as what is loaded from the same file.
NewerInv ==
    /\ \A e \in EpochNums :
          Loaded(e) /\ disk[epochs[e].file] # None
              => epochs[e].config.at <= disk[epochs[e].file].at
    /\ \A w \in Workers :
          Parsed(w) /\ disk[worker[w].file] # None
              => worker[w].config.at <= disk[worker[w].file].at
    /\ \A w \in Workers, e \in EpochNums :
          Parsed(w) /\ Loaded(e) /\ epochs[e].file = worker[w].file
              => epochs[e].config.at <= worker[w].config.at

Inv == TypeOK /\ JobInv /\ OneWorkerPerFile /\ StampInv /\ NewerInv
-----------------------------------------------------------------------------
Pcs == {"idle", "track", "check", "parse", "hash", "build", "install", "remove",
        "metric", "untrack"}

\* A step of one goroutine leaves the jobs of the others alone.
LEMMA JobStep ==
    ASSUME worker \in [Workers -> Jobs], NEW w \in Workers, NEW j \in Jobs,
           worker' = [worker EXCEPT ![w] = j]
    PROVE  /\ worker' \in [Workers -> Jobs]
           /\ worker'[w] = j
           /\ \A v \in Workers : v # w => worker'[v] = worker[v]
  OBVIOUS

LEMMA GotoStep ==
    ASSUME worker \in [Workers -> Jobs], NEW w \in Workers, NEW pc \in Pcs, Goto(w, pc)
    PROVE  /\ worker' \in [Workers -> Jobs]
           /\ worker'[w].pc = pc
           /\ worker'[w].file = worker[w].file
           /\ worker'[w].config = worker[w].config
           /\ worker'[w].hash = worker[w].hash
           /\ worker'[w].op = worker[w].op
           /\ \A v \in Workers : v # w => worker'[v] = worker[v]
<1> DEFINE j == [worker[w] EXCEPT !.pc = pc]
<1>1. worker[w] \in Jobs
  OBVIOUS
<1>2. /\ j \in Jobs /\ j.pc = pc /\ j.file = worker[w].file
      /\ j.config = worker[w].config /\ j.hash = worker[w].hash /\ j.op = worker[w].op
  BY <1>1 DEF Jobs, Pcs
<1>3. worker' = [worker EXCEPT ![w] = j]
  BY DEF Goto
<1> HIDE DEF j
<1> QED
  BY <1>2, <1>3, JobStep

\* The changes that the steps make to a goroutine's job.
LEMMA ParsedStep ==
    ASSUME worker \in [Workers -> Jobs], NEW w \in Workers, NEW c \in Contents,
           worker' = [worker EXCEPT ![w] = [@ EXCEPT !.config = c, !.pc = "hash"]]
    PROVE  /\ worker' \in [Workers -> Jobs]
           /\ worker'[w].pc = "hash"
           /\ worker'[w].file = worker[w].file
           /\ worker'[w].op = worker[w].op
           /\ worker'[w].config = c
           /\ \A v \in Workers : v # w => worker'[v] = worker[v]
<1> DEFINE j == [worker[w] EXCEPT !.config = c, !.pc = "hash"]
<1>1. worker[w] \in Jobs
  OBVIOUS
<1>2. j \in Jobs
  BY <1>1, ZenonT(60) DEF Jobs
<1>3. j.pc = "hash" /\ j.file = worker[w].file /\ j.op = worker[w].op /\ j.config = c
  BY <1>1 DEF Jobs
<1>4. worker' = [worker EXCEPT ![w] = j]
  OBVIOUS
<1> HIDE DEF j
<1> QED
  BY <1>2, <1>3, <1>4, JobStep

LEMMA HashedStep ==
    ASSUME worker \in [Workers -> Jobs], NEW w \in Workers, NEW h \in Sums,
           worker' = [worker EXCEPT ![w] = [@ EXCEPT !.hash = h, !.pc = "build"]]
    PROVE  /\ worker' \in [Workers -> Jobs]
           /\ worker'[w].pc = "build"
           /\ worker'[w].file = worker[w].file
           /\ worker'[w].op = worker[w].op
           /\ worker'[w].config = worker[w].config
           /\ worker'[w].hash = h
           /\ \A v \in Workers : v # w => worker'[v] = worker[v]
<1> DEFINE j == [worker[w] EXCEPT !.hash = h, !.pc = "build"]
<1>1. worker[w] \in Jobs
  OBVIOUS
<1>2. j \in Jobs
  BY <1>1, ZenonT(60) DEF Jobs
<1>3. j.pc = "build" /\ j.file = worker[w].file /\ j.op = worker[w].op /\ j.config = worker[w].config /\ j.hash = h
  BY <1>1 DEF Jobs
<1>4. worker' = [worker EXCEPT ![w] = j]
  OBVIOUS
<1> HIDE DEF j
<1> QED
  BY <1>2, <1>3, <1>4, JobStep

LEMMA DoneStep ==
    ASSUME worker \in [Workers -> Jobs], NEW w \in Workers, NEW e \in EpochNums \cup {0}, NEW n \in {0, 1},
           worker' = [worker EXCEPT ![w] = [@ EXCEPT !.pc = "metric", !.num = e, !.value = n]]
    PROVE  /\ worker' \in [Workers -> Jobs]
           /\ worker'[w].pc = "metric"
           /\ worker'[w].file = worker[w].file
           /\ worker'[w].num = e
           /\ worker'[w].value = n
           /\ \A v \in Workers : v # w => worker'[v] = worker[v]
<1> DEFINE j == [worker[w] EXCEPT !.pc = "metric", !.num = e, !.value = n]
<1>1. worker[w] \in Jobs
  OBVIOUS
<1>2. j \in Jobs
  BY <1>1, ZenonT(60) DEF Jobs
<1>3. j.pc = "metric" /\ j.file = worker[w].file /\ j.num = e /\ j.value = n
  BY <1>1 DEF Jobs
<1>4. worker' = [worker EXCEPT ![w] = j]
  OBVIOUS
<1> HIDE DEF j
<1> QED
  BY <1>2, <1>3, <1>4, JobStep

Events == [file : Files, op : {"Write", "Create", "Remove", "Rename"}]

\* What every edit does, from what it writes and the events it causes.
LEMMA EditedEffect ==
    ASSUME TypeOK, NEW fs, NEW contents \in [Files -> Contents \cup {None}],
           NEW events \in Seq(Events), Edited(fs, contents, events),
           \A f \in Files :
               contents[f] # None => contents[f] = disk[f] \/ contents[f].at = edits + 1
    PROVE  /\ edits' = edits + 1 /\ edits' \in 0..MaxEdits
           /\ disk' \in [Files -> Contents \cup {None}]
           /\ \A f \in Files :
                 disk'[f] # None => disk'[f] = disk[f] \/ disk'[f].at = edits'
           /\ queue' \in Seq(Events)
           /\ UNCHANGED <<loopVars, tracked, worker, bootVars, epochs, metric, crashed>>
<1>1. edits' = edits + 1 /\ edits' \in 0..MaxEdits
  BY MaxEditsAssumption DEF Edited, TypeOK
<1>2. queue \o events \in Seq(Events) /\ queue \in Seq(Events)
  BY DEF TypeOK, Events
<1>3. queue' \in Seq(Events)
  BY <1>2, ZenonT(60) DEF Edited
<1> QED
  BY <1>1, <1>3 DEF Edited

\* An edit changes some contents, each to nothing or to one with a new stamp.
LEMMA EditEffect ==
    ASSUME TypeOK, Edit
    PROVE  /\ edits' = edits + 1 /\ edits' \in 0..MaxEdits
           /\ disk' \in [Files -> Contents \cup {None}]
           /\ \A f \in Files :
                 disk'[f] # None => disk'[f] = disk[f] \/ disk'[f].at = edits'
           /\ queue' \in Seq(Events)
           /\ UNCHANGED <<loopVars, tracked, worker, bootVars, epochs, metric, crashed>>
<1> DEFINE
      Effect == /\ edits' = edits + 1 /\ edits' \in 0..MaxEdits
                /\ disk' \in [Files -> Contents \cup {None}]
                /\ \A f \in Files :
                      disk'[f] # None => disk'[f] = disk[f] \/ disk'[f].at = edits'
                /\ queue' \in Seq(Events)
                /\ UNCHANGED <<loopVars, tracked, worker, bootVars, epochs, metric, crashed>>
<1>1. ASSUME NEW f \in Files, NEW op \in {"Write", "Create", "Remove", "Rename"}
      PROVE  <<Event(f, op)>> \in Seq(Events)
  BY DEF Event, Events
<1>2. ASSUME NEW f \in Files, NEW e \in Home[f], NEW q \in Qualities \cup {"garbled"},
             edits < MaxEdits
      PROVE  /\ New(f, e, q) \in [Files -> Contents \cup {None}]
             /\ \A g \in Files : New(f, e, q)[g] = disk[g] \/ New(f, e, q)[g].at = edits + 1
  <2>1. e \in EpochNums /\ edits + 1 \in 0..MaxEdits
    BY <1>2, MaxEditsAssumption DEF EpochNums, TypeOK
  <2>2. [epoch |-> e, edit |-> edits + 1, quality |-> q, at |-> edits + 1] \in Contents
    BY <2>1 DEF Contents
  <2> QED
    BY <2>2 DEF New, TypeOK
<1>3. ASSUME NEW f \in Files, NEW e \in Home[f], NEW q \in Qualities \cup {"garbled"},
             NEW op \in {"Write", "Create"}, Edited({f}, New(f, e, q), <<Event(f, op)>>)
      PROVE  Effect
  <2>1. edits < MaxEdits
    BY <1>3 DEF Edited
  <2>2. <<Event(f, op)>> \in Seq(Events)
    BY <1>1
  <2>3. /\ New(f, e, q) \in [Files -> Contents \cup {None}]
        /\ \A g \in Files : New(f, e, q)[g] = disk[g] \/ New(f, e, q)[g].at = edits + 1
    BY <1>2, <2>1
  <2> QED
    BY <1>3, <2>2, <2>3, EditedEffect, ZenonT(60)
<1>4. ASSUME NEW f \in Files, RemoveFile(f) PROVE Effect
  <2>1. [disk EXCEPT ![f] = None] \in [Files -> Contents \cup {None}]
    BY DEF TypeOK
  <2>2. \A g \in Files : [disk EXCEPT ![f] = None][g] # None => [disk EXCEPT ![f] = None][g] = disk[g]
    BY DEF TypeOK
  <2> QED
    BY <1>1, <1>4, <2>1, <2>2, EditedEffect, ZenonT(60) DEF RemoveFile
<1>5. ASSUME NEW f \in Files, NEW g \in Files, RenameFile(f, g) PROVE Effect
  <2> DEFINE moved == [disk EXCEPT ![f] = None, ![g] = Moved(disk[f])]
  <2>1. edits + 1 \in 0..MaxEdits /\ disk[f] \in Contents
    BY <1>5, MaxEditsAssumption DEF RenameFile, Edited, TypeOK
  <2>2. Moved(disk[f]) \in Contents /\ Moved(disk[f]).at = edits + 1
    BY <2>1 DEF Moved, Contents
  <2>3. moved \in [Files -> Contents \cup {None}]
    BY <2>2 DEF TypeOK
  <2>4. \A h \in Files : moved[h] # None => moved[h] = disk[h] \/ moved[h].at = edits + 1
    BY <2>2 DEF TypeOK
  <2>5. <<Event(f, "Rename"), Event(g, "Create")>> \in Seq(Events)
    BY DEF Event, Events
  <2>6. Edited({f, g}, moved, <<Event(f, "Rename"), Event(g, "Create")>>)
    BY <1>5 DEF RenameFile
  <2> HIDE DEF moved
  <2> QED
    BY <2>3, <2>4, <2>5, <2>6, EditedEffect, ZenonT(60)
<1> QED
  BY <1>3, <1>4, <1>5, ZenonT(60) DEF Edit, WriteFile, CreateFile, MoveFile

LEMMA TypeStep == Inv /\ [Next]_vars => TypeOK'
<1> SUFFICES ASSUME Inv, [Next]_vars PROVE TypeOK'
  OBVIOUS
<1> USE DEF Inv, editVars, loopVars, bootVars
<1>1. CASE Edit
  BY <1>1, EditEffect DEF TypeOK, Events
<1>2. CASE StartWatch \/ Stop
  BY <1>2, ZenonT(60) DEF StartWatch, Stop, TypeOK
<1>3. ASSUME NEW f \in Files, Boot(f) PROVE TypeOK'
  <2>1. configs[f] \in Contents
    BY <1>3 DEF Boot, BootLoad, BootMetric, JobInv, TypeOK
  <2>2. configs[f].epoch \in EpochNums /\ Sum(configs[f]) \in Sums
    BY <2>1 DEF Contents, Sums
  <2>3. CASE BootLoad(f)
    BY <2>1, <2>2, <2>3 DEF BootLoad, TypeOK, Entries
  <2>4. CASE BootMetric(f)
    BY <2>1, <2>2, <2>4 DEF BootMetric, TypeOK
  <2> QED
    BY <1>3, <2>3, <2>4 DEF Boot
<1>4. ASSUME NEW w \in Workers, Dispatch(w) PROVE TypeOK'
  <2>0. queue \in Seq(Events) /\ queue # <<>>
    BY <1>4 DEF Dispatch, TypeOK, Events
  <2>1. Head(queue) \in Events /\ Tail(queue) \in Seq(Events)
    BY <2>0
  <2>2. worker' \in [Workers -> Jobs]
    BY <1>4, <2>1, ZenonT(60) DEF Dispatch, TypeOK, Events, Idle, Jobs
  <2> QED
    BY <1>4, <2>1, <2>2 DEF Dispatch, TypeOK, Events
<1>5. Idle \in Jobs /\ worker \in [Workers -> Jobs]
  BY DEF Idle, Jobs, TypeOK
<1>6. ASSUME NEW w \in Workers, Track(w) \/ Untrack(w) PROVE TypeOK'
  <2>1. worker[w].file \in Files
    BY <1>6 DEF Track, Untrack, At, JobInv
  <2>2. worker' \in [Workers -> Jobs]
    BY <1>5, <1>6, GotoStep DEF Track, Untrack, Pcs
  <2> QED
    BY <1>6, <2>1, <2>2 DEF Track, Untrack, TypeOK
<1>7. ASSUME NEW w \in Workers, Check(w) \/ Build(w) PROVE TypeOK'
  <2>1. worker' \in [Workers -> Jobs]
    BY <1>5, <1>7, GotoStep DEF Check, Build, Pcs
  <2> QED
    BY <1>7, <2>1, ZenonT(60) DEF Check, Build, TypeOK
<1>8. ASSUME NEW w \in Workers, Parse(w) \/ Hash(w) PROVE TypeOK'
  <2>1. disk[worker[w].file] # None =>
            disk[worker[w].file] \in Contents /\ Sum(disk[worker[w].file]) \in Sums
    BY <1>8 DEF Parse, Hash, At, JobInv, TypeOK, Sums
  <2>2. worker' \in [Workers -> Jobs]
    <3>1. \A pc : Goto(w, pc) /\ pc \in Pcs => worker' \in [Workers -> Jobs]
      BY <1>5, GotoStep
    <3>2. CASE disk[worker[w].file] # None
      BY <1>5, <1>8, <2>1, <3>1, <3>2, ParsedStep, HashedStep, ZenonT(60) DEF Parse, Hash, Pcs
    <3>3. CASE disk[worker[w].file] = None
      BY <1>8, <3>1, <3>3 DEF Parse, Hash, Pcs
    <3> QED
      BY <3>2, <3>3
  <2> QED
    BY <1>8, <2>2 DEF Parse, Hash, TypeOK
<1>9. ASSUME NEW w \in Workers, Install(w) PROVE TypeOK'
  <2>1. worker[w].config \in Contents /\ worker[w].hash \in Sums /\ worker[w].file \in Files
    BY <1>9 DEF Install, At, JobInv, Parsed, TypeOK, Jobs
  <2>2. worker[w].config.epoch \in EpochNums
    BY <2>1 DEF Contents
  <2>3. [config |-> worker[w].config, hash |-> worker[w].hash, file |-> worker[w].file] \in Entries
    BY <2>1 DEF Entries
  <2>4. epochs' \in [EpochNums -> Entries \cup {None}]
    BY <1>9, <2>2, <2>3 DEF Install, TypeOK
  <2>5. worker' \in [Workers -> Jobs]
    BY <1>5, <1>9, <2>2, GotoStep, DoneStep, ZenonT(60) DEF Install, Pcs
  <2> QED
    BY <1>9, <2>4, <2>5 DEF Install, TypeOK
<1>10. ASSUME NEW w \in Workers, Remove(w) PROVE TypeOK'
  <2>1. epochs' \in [EpochNums -> Entries \cup {None}]
    BY <1>10 DEF Remove, TypeOK
  <2>2. PICK e \in EpochNums \cup {0} :
            worker' = [worker EXCEPT ![w] = [@ EXCEPT !.pc = "metric", !.num = e, !.value = 0]]
    BY <1>10, ZenonT(60) DEF Remove
  <2>3. worker' \in [Workers -> Jobs]
    BY <1>5, <2>2, DoneStep, ZenonT(60)
  <2> QED
    BY <1>10, <2>1, <2>3 DEF Remove, TypeOK
<1>11. ASSUME NEW w \in Workers, SetMetric(w) PROVE TypeOK'
  <2>1. worker[w].value \in {0, 1}
    BY DEF TypeOK, Jobs
  <2>2. worker' \in [Workers -> Jobs]
    BY <1>5, <1>11, GotoStep DEF SetMetric, Pcs
  <2> QED
    BY <1>11, <2>1, <2>2, ZenonT(60) DEF SetMetric, TypeOK
<1>12. CASE UNCHANGED vars
  BY <1>12 DEF vars, TypeOK
<1> QED
  BY <1>1, <1>2, <1>3, <1>4, <1>6, <1>7, <1>8, <1>9, <1>10, <1>11, <1>12 DEF Next, Step
-----------------------------------------------------------------------------
(* What a step of a goroutine does to its own job and to the registry.      *)

Enters(w) ==
    /\ worker[w].pc = "idle" /\ worker'[w].pc = "track" /\ worker'[w].file \in Files
    /\ UNCHANGED <<tracked, epochs>>

Skips(w) ==
    /\ worker[w].pc = "track" /\ worker'[w].pc = "idle"
    /\ UNCHANGED <<tracked, epochs>>

Claims(w) ==
    /\ worker[w].pc = "track" /\ worker'[w].pc = "check"
    /\ worker'[w].file = worker[w].file
    /\ worker[w].file \notin tracked
    /\ tracked' = tracked \cup {worker[w].file}
    /\ UNCHANGED epochs

Leaves(w) ==
    /\ worker[w].pc = "untrack" /\ worker'[w].pc = "idle"
    /\ tracked' = tracked \ {worker[w].file}
    /\ UNCHANGED epochs

\* What a goroutine that goes on with its file does to the parsed config.
Parses(w) ==
    /\ worker'[w].pc = "hash"
    /\ disk[worker[w].file] # None
    /\ worker'[w].config = disk[worker[w].file]
    /\ UNCHANGED epochs

Keeps(w) ==
    /\ Parsed(w) /\ Parsed(w)'
    /\ worker'[w].config = worker[w].config
    /\ worker'[w].hash # None
    /\ UNCHANGED epochs

Installs(w) ==
    /\ Parsed(w) /\ ~Parsed(w)'
    /\ worker[w].config.epoch \in EpochNums
    /\ epochs' = [epochs EXCEPT ![worker[w].config.epoch] =
                     [config |-> worker[w].config, hash |-> worker[w].hash, file |-> worker[w].file]]

Drops(w) ==
    /\ ~Parsed(w)'
    /\ \A e \in EpochNums : epochs'[e] \in {epochs[e], None}

GoesOn(w) ==
    /\ Processing(w) /\ worker'[w].pc \in Pcs \ {"idle", "track"}
    /\ worker'[w].file = worker[w].file
    /\ UNCHANGED tracked
    /\ Parses(w) \/ Keeps(w) \/ Installs(w) \/ Drops(w)

Effect(w) == Enters(w) \/ Skips(w) \/ Claims(w) \/ Leaves(w) \/ GoesOn(w)

LEMMA StepEffect ==
    ASSUME Inv, NEW w \in Workers, Step(w)
    PROVE  /\ Effect(w)
           /\ \A v \in Workers : v # w => worker'[v] = worker[v]
           /\ UNCHANGED <<editVars, bootVars>>
<1> USE DEF Inv
<1>0. worker \in [Workers -> Jobs] /\ worker[w] \in Jobs
  BY DEF TypeOK
<1>1. CASE Dispatch(w)
  <2>0. queue \in Seq(Events) /\ queue # <<>>
    BY <1>1 DEF Dispatch, TypeOK, Events
  <2>1. Head(queue) \in Events
    BY <2>0
  <2>2. worker'[w].pc = "track" /\ worker'[w].file = Head(queue).file
    BY <1>0, <1>1 DEF Dispatch, Idle
  <2> QED
    BY <1>0, <1>1, <2>1, <2>2 DEF Dispatch, Effect, Enters, Events
<1>2. CASE Track(w)
  <2>1. CASE worker[w].file \in tracked
    BY <1>0, <1>2, <2>1 DEF Track, At, Effect, Skips, Idle
  <2>2. CASE worker[w].file \notin tracked
    BY <1>0, <1>2, <2>2, GotoStep DEF Track, At, Effect, Claims, Pcs
  <2> QED
    BY <2>1, <2>2
<1>3. CASE Untrack(w)
  BY <1>0, <1>3, ZenonT(60) DEF Untrack, At, Effect, Leaves, Idle
<1>4. CASE Check(w)
  <2>1. PICK pc \in {"untrack", "remove", "parse"} : Goto(w, pc)
    BY <1>4 DEF Check
  <2> QED
    BY <1>0, <1>4, <2>1, GotoStep
    DEF Check, At, Effect, GoesOn, Drops, Processing, Parsed, Pcs
<1>5. CASE SetMetric(w)
  BY <1>0, <1>5, GotoStep DEF SetMetric, At, Effect, GoesOn, Drops, Processing, Parsed, Pcs
<1>6. CASE Build(w)
  <2>1. CASE UNCHANGED worker
    BY <1>0, <1>6, <2>1
    DEF Build, At, Effect, GoesOn, Keeps, Processing, Parsed, Pcs, JobInv
  <2>2. CASE Goto(w, "untrack")
    BY ZenonT(60), <1>0, <1>6, <2>2, GotoStep
    DEF Build, At, Effect, GoesOn, Drops, Processing, Parsed, Pcs
  <2>3. CASE Goto(w, "install")
    BY ZenonT(60), <1>0, <1>6, <2>3, GotoStep
    DEF Build, At, Effect, GoesOn, Keeps, Processing, Parsed, Pcs, JobInv
  <2> QED
    BY <1>6, <2>1, <2>2, <2>3 DEF Build
<1>7. ASSUME Goto(w, "untrack"), Parse(w) \/ Hash(w) \/ Install(w), UNCHANGED epochs
      PROVE  Effect(w) /\ \A v \in Workers : v # w => worker'[v] = worker[v]
  BY <1>0, <1>7, GotoStep
  DEF Parse, Hash, Install, At, Effect, GoesOn, Drops, Processing, Parsed, Pcs
<1>8. CASE Parse(w)
  <2> DEFINE content == disk[worker[w].file]
             j == [worker[w] EXCEPT !.config = content, !.pc = "hash"]
  <2>1. CASE content # None /\ worker' = [worker EXCEPT ![w] = j]
    <3>1. content \in Contents
      BY <1>8, <2>1 DEF Parse, At, JobInv, TypeOK
    <3>2. j \in Jobs /\ j.pc = "hash" /\ j.file = worker[w].file /\ j.config = content
      BY <1>0, <3>1, ZenonT(60) DEF Jobs
    <3> HIDE DEF j
    <3> QED
      BY <1>0, <1>8, <2>1, <3>2, JobStep
      DEF Parse, At, Effect, GoesOn, Parses, Processing, Pcs
  <2> QED
    BY <1>7, <1>8, <2>1 DEF Parse
<1>9. CASE Hash(w)
  <2> DEFINE content == disk[worker[w].file]
             j == [worker[w] EXCEPT !.hash = Sum(content), !.pc = "build"]
  <2>1. CASE content # None /\ worker' = [worker EXCEPT ![w] = j]
    <3>0. content \in Contents
      BY <1>9, <2>1 DEF Hash, At, JobInv, TypeOK
    <3>1. Sum(content) \in Sums /\ Sum(content) # None
      BY <3>0, NoneAssumption DEF Sums
    <3>2. /\ j \in Jobs /\ j.pc = "build" /\ j.file = worker[w].file
          /\ j.config = worker[w].config /\ j.hash = Sum(content)
      BY <1>0, <3>1, ZenonT(60) DEF Jobs
    <3> HIDE DEF j
    <3> QED
      BY <1>0, <1>9, <2>1, <3>1, <3>2, JobStep
      DEF Hash, At, Effect, GoesOn, Keeps, Processing, Parsed, Pcs
  <2> QED
    BY <1>7, <1>9, <2>1 DEF Hash
<1>10. CASE Install(w)
  <2> DEFINE j == [worker[w] EXCEPT !.pc = "metric", !.num = worker[w].config.epoch, !.value = 1]
  <2>0. worker[w].config.epoch \in EpochNums
    BY <1>0, <1>10 DEF Install, At, JobInv, Parsed, Jobs, Contents
  <2>1. CASE /\ worker' = [worker EXCEPT ![w] = j]
             /\ epochs' = [epochs EXCEPT ![worker[w].config.epoch] =
                              [config |-> worker[w].config, hash |-> worker[w].hash,
                               file |-> worker[w].file]]
    <3>1. j \in Jobs /\ j.pc = "metric" /\ j.file = worker[w].file
      BY <1>0, <2>0, ZenonT(60) DEF Jobs
    <3> HIDE DEF j
    <3> QED
      BY <1>0, <1>10, <2>0, <2>1, <3>1, JobStep
      DEF Install, At, Effect, GoesOn, Installs, Processing, Parsed, Pcs
  <2> QED
    BY <1>7, <1>10, <2>1 DEF Install
<1>11. CASE Remove(w)
  <2>1. PICK e \in EpochNums \cup {0} :
            worker' = [worker EXCEPT ![w] = [@ EXCEPT !.pc = "metric", !.num = e, !.value = 0]]
    BY <1>11, ZenonT(60) DEF Remove
  <2>2. \A d \in EpochNums : epochs'[d] \in {epochs[d], None}
    BY <1>11 DEF Remove, TypeOK
  <2> DEFINE j == [worker[w] EXCEPT !.pc = "metric", !.num = e, !.value = 0]
  <2>3. j \in Jobs /\ j.pc = "metric" /\ j.file = worker[w].file
    BY <1>0, ZenonT(60) DEF Jobs
  <2>4. worker' = [worker EXCEPT ![w] = j]
    BY <2>1
  <2> HIDE DEF j
  <2> QED
    BY <1>0, <1>11, <2>2, <2>3, <2>4, JobStep
    DEF Remove, At, Effect, GoesOn, Drops, Processing, Parsed, Pcs
<1>12. UNCHANGED <<editVars, bootVars>>
  BY ZenonT(60) DEF Step, Dispatch, Track, Untrack, Check, SetMetric, Build, Parse, Hash, Install, Remove
<1> QED
  BY <1>1, <1>2, <1>3, <1>4, <1>5, <1>6, <1>8, <1>9, <1>10, <1>11, <1>12 DEF Step

\* The startup load adds an epoch that is not loaded, or nothing.
LEMMA BootEffect ==
    ASSUME Inv, NEW f \in Files, Boot(f)
    PROVE  /\ UNCHANGED <<editVars, tracked, worker, configs>>
           /\ configs[f] \in Contents
           /\ \A g \in Files : boot'[g] # "done" => boot[g] # "done"
           /\ \A e \in EpochNums :
                 \/ epochs'[e] = epochs[e]
                 \/ epochs[e] = None /\ epochs'[e].config = configs[f] /\ epochs'[e].file = f
<1>1. configs[f] \in Contents
  BY DEF Boot, BootLoad, BootMetric, Inv, JobInv, TypeOK
<1>2. configs[f].epoch \in EpochNums
  BY <1>1 DEF Contents
<1>3. CASE BootLoad(f)
  BY <1>1, <1>2, <1>3 DEF BootLoad, Inv, TypeOK, Loaded
<1>4. CASE BootMetric(f)
  BY <1>1, <1>4 DEF BootMetric, Inv, TypeOK
<1> QED
  BY <1>3, <1>4 DEF Boot

LEMMA JobInvStep == Inv /\ [Next]_vars => JobInv'
<1> SUFFICES ASSUME Inv, [Next]_vars PROVE JobInv'
  OBVIOUS
<1> USE DEF Inv, JobInv, Parsed, editVars, loopVars, bootVars
<1>1. CASE Edit
  BY <1>1, EditEffect
<1>2. CASE StartWatch \/ Stop \/ UNCHANGED vars
  BY <1>2 DEF StartWatch, Stop, vars
<1>3. ASSUME NEW f \in Files, Boot(f) PROVE JobInv'
  BY <1>3, BootEffect
<1>4. ASSUME NEW w \in Workers, Step(w) PROVE JobInv'
  <2>1. /\ Effect(w)
        /\ \A v \in Workers : v # w => worker'[v] = worker[v]
        /\ UNCHANGED <<disk, edits, boot, configs>>
    BY <1>4, StepEffect
  <2>2. worker'[w].pc # "idle" => worker'[w].file \in Files
    BY <2>1, ZenonT(60) DEF Effect, Enters, Skips, Claims, Leaves, GoesOn, Processing
  <2>3. Parsed(w)' => worker'[w].config # None
    BY <2>1, ZenonT(60) DEF Effect, Enters, Skips, Claims, Leaves, GoesOn, Parses, Keeps, Installs, Drops
  <2>4. worker'[w].pc \in {"build", "install"} => worker'[w].hash # None
    BY <2>1 DEF Effect, Enters, Skips, Claims, Leaves, GoesOn, Parses, Keeps, Installs, Drops
  <2> QED
    BY <2>1, <2>2, <2>3, <2>4
<1> QED
  BY <1>1, <1>2, <1>3, <1>4 DEF Next

LEMMA OneWorkerStep == Inv /\ [Next]_vars => OneWorkerPerFile'
<1> SUFFICES ASSUME Inv, [Next]_vars PROVE OneWorkerPerFile'
  OBVIOUS
<1> USE DEF Inv, OneWorkerPerFile, Processing, editVars, loopVars, bootVars
<1>1. CASE UNCHANGED <<worker, tracked>>
  BY <1>1
<1>2. ASSUME NEW w \in Workers, Step(w) PROVE OneWorkerPerFile'
  <2>1. Effect(w) /\ \A v \in Workers : v # w => worker'[v] = worker[v]
    BY <1>2, StepEffect
  <2>2. CASE Enters(w) \/ Skips(w)
    <3>1. \A v \in Workers : Processing(v)' <=> Processing(v)
      BY <2>1, <2>2 DEF Enters, Skips
    <3>2. \A v \in Workers : Processing(v) => worker'[v] = worker[v]
      BY <2>1, <2>2 DEF Enters, Skips
    <3> QED
      BY <2>2, <3>1, <3>2 DEF Enters, Skips
  <2>3. CASE Claims(w)
    <3>1. \A v \in Workers : Processing(v)' <=> Processing(v) \/ v = w
      BY <2>1, <2>3 DEF Claims
    <3>2. \A v \in Workers : worker'[v].file = worker[v].file
      BY <2>1, <2>3 DEF Claims
    <3>3. \A v \in Workers : Processing(v) => worker[v].file # worker[w].file
      BY <2>3 DEF Claims
    <3> QED
      BY <2>3, <3>1, <3>2, <3>3 DEF Claims
  <2>4. CASE Leaves(w)
    <3>1. \A v \in Workers : Processing(v)' <=> Processing(v) /\ v # w
      BY <2>1, <2>4 DEF Leaves
    <3>2. \A v \in Workers : Processing(v)' => worker'[v].file = worker[v].file
      BY <2>1, <3>1
    <3>3. Processing(w)
      BY <2>4 DEF Leaves
    <3> QED
      BY <2>4, <3>1, <3>2, <3>3 DEF Leaves
  <2>5. CASE GoesOn(w)
    <3>1. \A v \in Workers : Processing(v)' <=> Processing(v)
      BY <2>1, <2>5 DEF GoesOn
    <3>2. \A v \in Workers : worker'[v].file = worker[v].file
      BY <2>1, <2>5 DEF GoesOn
    <3> QED
      BY <2>5, <3>1, <3>2 DEF GoesOn
  <2> QED
    BY <2>1, <2>2, <2>3, <2>4, <2>5 DEF Effect
<1> QED
  BY <1>1, <1>2, EditEffect, BootEffect DEF Next, StartWatch, Stop, vars

\* Stamps are numbers.
LEMMA Stamps ==
    ASSUME TypeOK
    PROVE  /\ edits \in Int
           /\ \A f \in Files : disk[f] # None => disk[f].at \in Int
           /\ \A f \in Files : configs[f] # None => configs[f].at \in Int
           /\ \A e \in EpochNums : Loaded(e) => epochs[e].config.at \in Int /\ epochs[e].file \in Files
           /\ \A w \in Workers : worker[w].config # None => worker[w].config.at \in Int
<1>0. \A c \in Contents : c.at \in Int
  BY DEF Contents
<1>1. edits \in Int
  BY DEF TypeOK
<1>2. \A f \in Files : (disk[f] # None => disk[f] \in Contents)
                       /\ (configs[f] # None => configs[f] \in Contents)
  BY DEF TypeOK
<1>3. \A e \in EpochNums : Loaded(e) => epochs[e].config \in Contents /\ epochs[e].file \in Files
  BY DEF TypeOK, Loaded, Entries
<1>4. \A w \in Workers : worker[w].config # None => worker[w].config \in Contents
  BY DEF TypeOK, Jobs
<1> QED
  BY <1>0, <1>1, <1>2, <1>3, <1>4

\* The entry that a goroutine installs.
LEMMA InstalledEntry ==
    ASSUME Inv, NEW w \in Workers, Installs(w)
    PROVE  \A e \in EpochNums :
              \/ epochs'[e] = epochs[e]
              \/ /\ epochs'[e].config = worker[w].config
                 /\ epochs'[e].file = worker[w].file
  BY ZenonT(60) DEF Installs, Inv, TypeOK

LEMMA StampStep == Inv /\ [Next]_vars => StampInv'
<1> SUFFICES ASSUME Inv, [Next]_vars PROVE StampInv'
  OBVIOUS
<1> USE DEF Inv, StampInv, Loaded, editVars, loopVars, bootVars
<1>0. TypeOK'
  BY TypeStep
<1>1. CASE Edit
  <2>1. edits <= edits' /\ edits \in Int /\ edits' \in Int
    BY <1>1, EditEffect, Stamps
  <2>2. \A f \in Files : disk'[f] # None => disk'[f].at <= edits'
    BY <1>1, <2>1, EditEffect, Stamps
  <2>3. UNCHANGED <<worker, epochs, configs>>
    BY <1>1, EditEffect
  <2>4. \A e \in EpochNums : Loaded(e)' => epochs'[e].config.at <= edits'
    BY <2>1, <2>3, Stamps
  <2>5. \A w \in Workers : Parsed(w)' => worker'[w].config.at <= edits'
    BY <2>1, <2>3, Stamps DEF Parsed, JobInv
  <2> QED
    BY <2>2, <2>3, <2>4, <2>5
<1>2. CASE StartWatch \/ Stop \/ UNCHANGED vars
  BY <1>2 DEF StartWatch, Stop, vars, Parsed
<1>3. ASSUME NEW f \in Files, Boot(f) PROVE StampInv'
  <2>1. configs[f] # None /\ 0 <= edits
    <3>1. configs[f] \in Contents
      BY <1>3, BootEffect, ZenonT(60)
    <3>2. 0 <= edits
      BY DEF TypeOK
    <3> QED
      BY <3>1, <3>2, NoneAssumption
  <2>2. UNCHANGED <<disk, edits, worker, configs>>
    BY <1>3, BootEffect
  <2>3. \A e \in EpochNums : Loaded(e)' => epochs'[e].config.at <= edits
    BY <1>3, <2>1, BootEffect
  <2> QED
    BY <2>2, <2>3 DEF Parsed
<1>4. ASSUME NEW w \in Workers, Step(w) PROVE StampInv'
  <2>1. /\ Effect(w)
        /\ \A v \in Workers : v # w => worker'[v] = worker[v]
        /\ UNCHANGED <<disk, edits, boot, configs>>
    BY <1>4, StepEffect
  <2>2. Parsed(w)' => worker'[w].config.at <= edits
    <3>1. worker[w].pc # "idle" => worker[w].file \in Files
      BY ZenonT(60) DEF JobInv
    <3>2. CASE GoesOn(w)
      BY <3>1, <3>2, ZenonT(60) DEF GoesOn, Parses, Keeps, Installs, Drops, Parsed, Processing
    <3> QED
      BY <2>1, <3>2 DEF Effect, Enters, Skips, Claims, Leaves, Parsed
  <2>3. \A e \in EpochNums : Loaded(e)' => epochs'[e].config.at <= edits
    <3>1. CASE Installs(w)
      BY <3>1, InstalledEntry, ZenonT(60) DEF Installs
    <3> QED
      BY <2>1, <3>1, ZenonT(60) DEF Effect, Enters, Skips, Claims, Leaves, GoesOn, Parses, Keeps, Drops
  <2> QED
    BY <2>1, <2>2, <2>3, ZenonT(60) DEF Parsed
<1> QED
  BY <1>1, <1>2, <1>3, <1>4, ZenonT(60) DEF Next

LEMMA NewerStep == Inv /\ [Next]_vars => NewerInv'
<1> SUFFICES ASSUME Inv, [Next]_vars PROVE NewerInv'
  OBVIOUS
<1> USE DEF Inv, NewerInv, Loaded, editVars, loopVars, bootVars
<1>1. CASE Edit
  <2>1. edits' = edits + 1 /\ edits \in Int
    BY <1>1, EditEffect, Stamps
  <2>2. \A f \in Files : disk'[f] # None => disk'[f] = disk[f] \/ disk'[f].at = edits + 1
    BY <1>1, EditEffect
  <2>3. UNCHANGED <<worker, epochs>>
    BY <1>1, EditEffect, ZenonT(60)
  <2>4. \A e \in EpochNums :
            Loaded(e) /\ disk'[epochs[e].file] # None
                => epochs[e].config.at <= disk'[epochs[e].file].at
    BY <2>1, <2>2, Stamps DEF StampInv
  <2>5. \A w \in Workers :
            Parsed(w) /\ disk'[worker[w].file] # None
                => worker[w].config.at <= disk'[worker[w].file].at
    BY <2>1, <2>2, Stamps DEF StampInv, JobInv, Parsed
  <2> QED
    BY <2>3, <2>4, <2>5, ZenonT(60) DEF Parsed
<1>2. CASE StartWatch \/ Stop \/ UNCHANGED vars
  BY <1>2, ZenonT(60) DEF StartWatch, Stop, vars, Parsed
<1>3. ASSUME NEW f \in Files, Boot(f) PROVE NewerInv'
  <2>1. configs[f].at = 0
    BY <1>3, BootEffect, NoneAssumption, ZenonT(60) DEF StampInv
  <2>2. \A c \in Contents : 0 <= c.at
    BY DEF Contents
  <2>3. disk[f] # None => 0 <= disk[f].at
    BY <2>2 DEF TypeOK
  <2>4. \A w \in Workers : Parsed(w) => 0 <= worker[w].config.at
    BY <2>2, ZenonT(60) DEF TypeOK, Jobs, JobInv
  <2>5. UNCHANGED <<disk, worker>>
    BY <1>3, BootEffect, ZenonT(60)
  <2>6. \A e \in EpochNums :
            \/ epochs'[e] = epochs[e]
            \/ epochs'[e].config.at = 0 /\ epochs'[e].file = f
    BY <1>3, <2>1, BootEffect, ZenonT(60)
  <2>7. \A e \in EpochNums :
            Loaded(e)' /\ disk'[epochs'[e].file] # None
                => epochs'[e].config.at <= disk'[epochs'[e].file].at
    BY <2>3, <2>5, <2>6, ZenonT(60)
  <2>8. \A w \in Workers, e \in EpochNums :
            Parsed(w)' /\ Loaded(e)' /\ epochs'[e].file = worker'[w].file
                => epochs'[e].config.at <= worker'[w].config.at
    BY <2>4, <2>5, <2>6 DEF Parsed
  <2> QED
    BY <2>5, <2>7, <2>8, ZenonT(60) DEF Parsed
<1>4. ASSUME NEW w \in Workers, Step(w) PROVE NewerInv'
  <2>1. /\ Effect(w)
        /\ \A v \in Workers : v # w => worker'[v] = worker[v]
        /\ UNCHANGED <<disk, edits, boot, configs>>
    BY <1>4, StepEffect, ZenonT(60)
  <2>2. ASSUME UNCHANGED epochs, ~Parsed(w)' PROVE NewerInv'
    BY <2>1, <2>2, ZenonT(60) DEF Parsed
  <2>3. CASE Enters(w) \/ Skips(w) \/ Claims(w) \/ Leaves(w)
    BY <2>2, <2>3 DEF Enters, Skips, Claims, Leaves, Parsed
  <2>4. CASE GoesOn(w) /\ Parses(w)
    <3>1. /\ worker'[w].config = disk[worker[w].file]
          /\ worker'[w].file = worker[w].file
          /\ disk[worker[w].file] # None
          /\ UNCHANGED epochs
      BY <2>4, ZenonT(60) DEF GoesOn, Parses
    <3>2. disk[worker[w].file].at \in Int
      BY <2>4, <3>1, Stamps, ZenonT(60) DEF GoesOn, Processing, JobInv
    <3>3. \A v \in Workers : v # w /\ Parsed(v)' => Parsed(v) /\ worker'[v] = worker[v]
      BY <2>1, ZenonT(60) DEF Parsed
    <3>4. \A e \in EpochNums :
              Loaded(e)' /\ disk'[epochs'[e].file] # None
                  => epochs'[e].config.at <= disk'[epochs'[e].file].at
      BY <2>1, <3>1, ZenonT(60)
    <3>5. \A v \in Workers :
              Parsed(v)' /\ disk'[worker'[v].file] # None
                  => worker'[v].config.at <= disk'[worker'[v].file].at
      BY <2>1, <3>1, <3>2, <3>3
    <3>6. \A v \in Workers, e \in EpochNums :
              Parsed(v)' /\ Loaded(e)' /\ epochs'[e].file = worker'[v].file
                  => epochs'[e].config.at <= worker'[v].config.at
      BY <2>1, <3>1, <3>3
    <3> QED
      BY <3>4, <3>5, <3>6, ZenonT(60)
  <2>5. CASE GoesOn(w) /\ Keeps(w)
    <3>1. /\ worker'[w].config = worker[w].config
          /\ worker'[w].file = worker[w].file
          /\ Parsed(w)
          /\ UNCHANGED <<disk, epochs>>
      BY <2>1, <2>5, ZenonT(60) DEF GoesOn, Keeps
    <3>2. \A v \in Workers :
              Parsed(v)' => /\ Parsed(v)
                            /\ worker'[v].config = worker[v].config
                            /\ worker'[v].file = worker[v].file
      BY <2>1, <3>1, ZenonT(60) DEF Parsed
    <3> QED
      BY <3>1, <3>2, ZenonT(60)
  <2>6. CASE GoesOn(w) /\ Installs(w)
    <3>1. \A v \in Workers : v # w /\ Parsed(v) => worker[v].file # worker[w].file
      BY <2>6, ZenonT(60) DEF GoesOn, OneWorkerPerFile, Parsed, Processing
    <3>2. \A e \in EpochNums :
              \/ epochs'[e] = epochs[e]
              \/ /\ epochs'[e].config = worker[w].config
                 /\ epochs'[e].file = worker[w].file
      BY <2>6, InstalledEntry, ZenonT(60)
    <3>3. Parsed(w) /\ ~Parsed(w)'
      BY <2>6 DEF Installs
    <3>4. \A v \in Workers : Parsed(v)' => v # w /\ Parsed(v) /\ worker'[v] = worker[v]
      BY <2>1, <3>3, ZenonT(60) DEF Parsed
    <3>5. \A e \in EpochNums :
              Loaded(e)' /\ disk'[epochs'[e].file] # None
                  => epochs'[e].config.at <= disk'[epochs'[e].file].at
      BY <2>1, <3>2, <3>3, ZenonT(60)
    <3>6. \A v \in Workers :
              Parsed(v)' /\ disk'[worker'[v].file] # None
                  => worker'[v].config.at <= disk'[worker'[v].file].at
      BY <2>1, <3>4, ZenonT(60)
    <3>7. \A v \in Workers, e \in EpochNums :
              Parsed(v)' /\ Loaded(e)' /\ epochs'[e].file = worker'[v].file
                  => epochs'[e].config.at <= worker'[v].config.at
      BY <3>1, <3>2, <3>4, ZenonT(60)
    <3> QED
      BY <3>5, <3>6, <3>7
  <2>7. CASE GoesOn(w) /\ Drops(w)
    <3>1. \A v \in Workers : Parsed(v)' => v # w /\ Parsed(v) /\ worker'[v] = worker[v]
      BY <2>1, <2>7 DEF Drops, Parsed
    <3> QED
      BY <2>1, <2>7, <3>1, ZenonT(60) DEF Drops
  <2> QED
    BY <2>1, <2>3, <2>4, <2>5, <2>6, <2>7, ZenonT(60) DEF Effect, GoesOn
<1> QED
  BY <1>1, <1>2, <1>3, <1>4, ZenonT(60) DEF Next

LEMMA InitInv == Init => Inv
<1> SUFFICES ASSUME Init PROVE Inv
  OBVIOUS
<1>1. \A f \in Files : disk[f] # None => disk[f] \in Contents /\ disk[f].at = 0
  BY MaxEditsAssumption DEF Init, Contents
<1>2. disk \in [Files -> Contents \cup {None}]
  BY <1>1 DEF Init
<1>3. Idle \in Jobs
  BY DEF Idle, Jobs
<1>4. TypeOK
  <2>1. edits \in 0..MaxEdits
    BY MaxEditsAssumption DEF Init
  <2>2. queue \in Seq([file : Files, op : {"Write", "Create", "Remove", "Rename"}])
    BY DEF Init
  <2>3. boot \in [Files -> {"load", "set0", "set1", "done"}]
    BY DEF Init
  <2>4. watching \in BOOLEAN /\ stopped \in BOOLEAN /\ crashed \in BOOLEAN
    BY ZenonT(60) DEF Init
  <2>5. /\ worker \in [Workers -> Jobs]
        /\ epochs \in [EpochNums -> Entries \cup {None}]
        /\ metric \in [EpochNums \cup {0} -> {0, 1}]
    BY <1>3, ZenonT(60) DEF Init
  <2> QED
    BY <1>2, <2>1, <2>2, <2>3, <2>4, <2>5 DEF Init, TypeOK
<1>5. JobInv /\ OneWorkerPerFile
  BY DEF Init, JobInv, OneWorkerPerFile, Processing, Parsed, Idle
<1>6. StampInv /\ NewerInv
  BY <1>1 DEF Init, StampInv, NewerInv, Loaded, Parsed, Idle
<1> QED
  BY <1>4, <1>5, <1>6 DEF Inv

\* The invariant of the watcher: the tracker holds exactly the files being
\* processed, and disk, parsed and loaded contents of a file are in order.
THEOREM WatcherInvariant == Spec => []Inv
<1>1. Inv /\ [Next]_vars => Inv'
  BY TypeStep, JobInvStep, OneWorkerStep, StampStep, NewerStep DEF Inv
<1> QED
  BY InitInv, <1>1, PTL DEF Spec

\* The state of the loader and the watcher is well typed.
THEOREM TypeCorrect == Spec => []TypeOK
<1>1. Inv => TypeOK
  BY DEF Inv
<1> QED
  BY WatcherInvariant, <1>1, PTL

\* fileProcessingTracker: at most one goroutine processes a file.
THEOREM OnePerFile == Spec => []OneWorkerPerFile
<1>1. Inv => OneWorkerPerFile
  BY DEF Inv
<1> QED
  BY WatcherInvariant, <1>1, PTL

LEMMA RegressStep ==
    ASSUME Inv, [Next]_vars, NEW e \in EpochNums,
           Loaded(e), Loaded(e)', epochs[e].file = epochs'[e].file
    PROVE  epochs'[e].config.at >= epochs[e].config.at
<1> USE DEF Inv, editVars, loopVars, bootVars
<1>0. epochs[e].config.at \in Int
  BY Stamps
<1>1. CASE epochs'[e] = epochs[e]
  BY <1>0, <1>1
<1>2. ASSUME NEW f \in Files, Boot(f) PROVE epochs'[e] = epochs[e]
  BY <1>2, BootEffect, ZenonT(60) DEF Loaded
<1>3. ASSUME NEW w \in Workers, Step(w)
      PROVE  epochs'[e].config.at >= epochs[e].config.at
  <2>1. Effect(w)
    BY <1>3, StepEffect
  <2>2. CASE Installs(w)
    <3>1. CASE /\ epochs'[e].config = worker[w].config
               /\ epochs'[e].file = worker[w].file
      <4>1. Parsed(w) /\ worker[w].config.at \in Int
        BY <2>2, Stamps DEF Installs, JobInv
      <4> QED
        BY <1>0, <3>1, <4>1, ZenonT(60) DEF NewerInv
    <3> QED
      BY <1>1, <2>2, <3>1, InstalledEntry, ZenonT(60)
  <2>3. CASE epochs'[e] \in {epochs[e], None}
    BY <1>1, <2>3 DEF Loaded
  <2> QED
    BY ZenonT(60), <2>1, <2>2, <2>3
    DEF Effect, Enters, Skips, Claims, Leaves, GoesOn, Parses, Keeps, Drops
<1> QED
  BY <1>1, <1>2, <1>3, EditEffect DEF Next, StartWatch, Stop, vars

\* The config of a loaded epoch is never replaced by an older content of the
\* same file, although events are reordered between goroutines and the startup
\* load runs beside them: a goroutine holds the tracker's entry of its file
\* from the parse to ReplaceOrAddEpoch, and the startup load only adds.
THEOREM NeverRegresses == Spec => NoRegress
<1>1. Inv /\ [Next]_vars =>
        [\A e \in EpochNums :
            Loaded(e) /\ Loaded(e)' /\ epochs[e].file = epochs'[e].file
                => epochs'[e].config.at >= epochs[e].config.at]_vars
  BY RegressStep
<1> QED
  BY WatcherInvariant, <1>1, PTL DEF Spec, NoRegress

-----------------------------------------------------------------------------
(* Calm edits, of files that each keep to an epoch of their own.            *)

OwnEpochs ==
    /\ \A f \in Files : \E e \in Home[f] : Home[f] = {e}
    /\ \A f, g \in Files : Home[f] \cap Home[g] # {} => f = g

Own(f) == CHOOSE e \in Home[f] : TRUE

\* The epoch is served from what the file holds.
Served(f) == Loaded(Own(f)) /\ Sum(epochs[Own(f)].config) = Sum(disk[f])

\* The gauge tells whether the epoch is loaded.
Counted(f) == Own(f) # 0 => (metric[Own(f)] = 1 <=> Loaded(Own(f)))

Followed(f) ==
    /\ Counted(f)
    /\ disk[f] = None => ~Loaded(Own(f))
    /\ disk[f] # None /\ disk[f].quality = "good" => Served(f)

\* An event of the file, of the last edit, is still to be processed.
Due(f, op) ==
    /\ Counted(f)
    /\ op \in {"Write", "Create", "Remove"}
    /\ op = "Remove" <=> disk[f] = None
    /\ op = "Create" => ~Loaded(Own(f))

\* How far a goroutine has come with the event of its file.
Stage(w) ==
    LET job == worker[w]
        f == job.file
        reading == Due(f, job.op) /\ disk[f] # None
    IN  /\ job.pc \in {"track", "check"} => Due(f, job.op)
        /\ job.pc = "remove" => Due(f, job.op) /\ disk[f] = None
        /\ job.pc = "parse" => reading
        /\ job.pc = "hash" => reading /\ job.config = disk[f]
        /\ job.pc \in {"build", "install"} => reading /\ job.config = disk[f] /\ job.hash = Sum(disk[f])
        /\ job.pc = "install" => disk[f].quality = "good"
        /\ job.pc = "metric" =>
              \/ disk[f] # None /\ Served(f) /\ job.num = Own(f) /\ job.value = 1
              \/ /\ disk[f] = None /\ ~Loaded(Own(f)) /\ job.value = 0
                 /\ job.num = Own(f) \/ (job.num = 0 /\ Counted(f))
        /\ job.pc = "untrack" => Followed(f)

\* No event of the file waits and no goroutine is busy with it.
Quiet(f) ==
    /\ \A i \in 1..Len(queue) : queue[i].file # f
    /\ \A w \in Workers : worker[w].file # f

FileInv(f) ==
    /\ disk[f] # None => disk[f].epoch = Own(f)
    /\ boot[f] # "done" => disk[f] = configs[f] /\ Quiet(f)
    /\ boot[f] \in {"load", "set0"} =>
          ~Loaded(Own(f)) /\ (Own(f) # 0 => metric[Own(f)] = 0)
    /\ boot[f] = "set0" => disk[f].quality # "good"
    /\ boot[f] = "set1" => Served(f)
    /\ boot[f] = "done" /\ Quiet(f) => Followed(f)
    /\ \A i \in 1..Len(queue) : queue[i].file = f => Due(f, queue[i].op)
    /\ \A w \in Workers : worker[w].file = f => Stage(w)

\* A file has at most one event waiting or being processed.
OneEventPerFile ==
    /\ \A i, j \in 1..Len(queue) : queue[i].file = queue[j].file => i = j
    /\ \A i \in 1..Len(queue), w \in Workers : queue[i].file # worker[w].file
    /\ \A v, w \in Workers : worker[v].file = worker[w].file /\ worker[v].file # None => v = w
    /\ \A w \in Workers : worker[w].pc = "idle" => worker[w].file = None

\* What is loaded comes from the file whose epoch it is.
EpochInv ==
    \A e \in EpochNums :
        Loaded(e) => /\ e = Own(epochs[e].file)
                     /\ epochs[e].config.epoch = e
                     /\ epochs[e].hash = Sum(epochs[e].config)

Calmly == OneEventPerFile /\ EpochInv /\ \A f \in Files : FileInv(f)

CalmInv == discipline = "calm" => Calmly

LEMMA OwnEpoch ==
    ASSUME OwnEpochs
    PROVE  /\ \A f \in Files : Own(f) \in EpochNums /\ Home[f] = {Own(f)}
           /\ \A f, g \in Files : Own(f) = Own(g) => f = g
<1>1. ASSUME NEW f \in Files PROVE Own(f) \in Home[f] /\ Home[f] = {Own(f)}
  <2>1. PICK e \in Home[f] : Home[f] = {e}
    BY DEF OwnEpochs
  <2>2. Own(f) \in Home[f]
    BY <2>1 DEF Own
  <2> QED
    BY <2>1, <2>2
<1>2. \A f \in Files : Own(f) \in EpochNums
  BY <1>1, ZenonT(60) DEF EpochNums
<1>3. ASSUME NEW f \in Files, NEW g \in Files, Own(f) = Own(g) PROVE f = g
  <2>1. Home[f] \cap Home[g] # {}
    BY <1>1, <1>3, ZenonT(60)
  <2> QED
    BY <2>1 DEF OwnEpochs
<1> QED
  BY <1>1, <1>2, <1>3

\* What is said of a file depends on its contents, its epoch and its gauge.
LEMMA SameFile ==
    ASSUME NEW f \in Files, disk'[f] = disk[f], epochs'[Own(f)] = epochs[Own(f)],
           Own(f) # 0 => metric'[Own(f)] = metric[Own(f)]
    PROVE  /\ Served(f)' <=> Served(f)
           /\ Counted(f)' <=> Counted(f)
           /\ Followed(f)' <=> Followed(f)
           /\ \A op : Due(f, op)' <=> Due(f, op)
           /\ Loaded(Own(f))' <=> Loaded(Own(f))
<1>1. Loaded(Own(f))' <=> Loaded(Own(f))
  BY ZenonT(60) DEF Loaded
<1>2. Served(f)' <=> Served(f)
  BY <1>1 DEF Served
<1>3. Counted(f)' <=> Counted(f)
  BY <1>1 DEF Counted
<1> QED
  BY <1>1, <1>2, <1>3 DEF Followed, Due

LEMMA OtherFile ==
    ASSUME NEW f \in Files, FileInv(f), disk'[f] = disk[f], epochs'[Own(f)] = epochs[Own(f)],
           Own(f) # 0 => metric'[Own(f)] = metric[Own(f)],
           boot'[f] = boot[f], configs'[f] = configs[f],
           \A i \in 1..Len(queue') : queue'[i].file = f =>
               \E j \in 1..Len(queue) : queue[j] = queue'[i],
           \A j \in 1..Len(queue) : queue[j].file = f =>
               \E i \in 1..Len(queue') : queue'[i] = queue[j],
           \A w \in Workers : worker'[w].file = f \/ worker[w].file = f => worker'[w] = worker[w]
    PROVE  FileInv(f)'
<1>1. /\ Served(f)' <=> Served(f)
      /\ Followed(f)' <=> Followed(f)
      /\ \A op : Due(f, op)' <=> Due(f, op)
      /\ Loaded(Own(f))' <=> Loaded(Own(f))
      /\ Counted(f)' <=> Counted(f)
  BY SameFile, ZenonT(60)
<1>2. Quiet(f)' <=> Quiet(f)
  BY DEF Quiet
<1>3. ASSUME NEW w \in Workers, worker'[w].file = f PROVE Stage(w)'
  <2>1. worker'[w] = worker[w] /\ worker[w].file = f
    BY <1>3, ZenonT(60)
  <2>2. Stage(w)
    BY <2>1, ZenonT(60) DEF FileInv
  <2> QED
    BY <1>1, <2>1, <2>2, ZenonT(60) DEF Stage
<1>4. ASSUME NEW i \in 1..Len(queue'), queue'[i].file = f PROVE Due(f, queue[i].op)'
  BY <1>1, <1>4, ZenonT(60) DEF FileInv, Due
<1>5. /\ disk'[f] # None => disk'[f].epoch = Own(f)
      /\ boot'[f] # "done" => disk'[f] = configs'[f] /\ Quiet(f)'
      /\ boot'[f] \in {"load", "set0"} =>
            ~Loaded(Own(f))' /\ (Own(f) # 0 => metric'[Own(f)] = 0)
      /\ boot'[f] = "set0" => disk'[f].quality # "good"
      /\ boot'[f] = "set1" => Served(f)'
      /\ boot'[f] = "done" /\ Quiet(f)' => Followed(f)'
  BY <1>1, <1>2, ZenonT(60) DEF FileInv
<1> QED
  BY <1>3, <1>4, <1>5, ZenonT(60) DEF FileInv

\* A goroutine goes on with its file and touches nothing of another file.
Proceeds(w) ==
    /\ worker[w].pc # "idle" /\ worker'[w].pc # "idle"
    /\ worker'[w].file = worker[w].file
    /\ \A v \in Workers : v # w => worker'[v] = worker[v]
    /\ UNCHANGED <<disk, queue, boot, configs>>
    /\ \A e \in EpochNums : e # Own(worker[w].file) => epochs'[e] = epochs[e]
    /\ \A e \in EpochNums \ {0} : e # Own(worker[w].file) => metric'[e] = metric[e]

\* A file that a goroutine is busy with is past its startup load, and neither
\* another goroutine nor the queue has anything of it.
LEMMA BusyFile ==
    ASSUME Inv, Calmly, NEW w \in Workers, worker[w].pc # "idle"
    PROVE  /\ worker[w].file \in Files
           /\ boot[worker[w].file] = "done"
           /\ \A v \in Workers : worker[v].file = worker[w].file => v = w
           /\ \A i \in 1..Len(queue) : queue[i].file # worker[w].file
           /\ FileInv(worker[w].file) /\ Stage(w)
<1>1. worker[w].file \in Files
  BY DEF Inv, JobInv
<1>2. worker[w].file # None
  BY <1>1, NoneAssumption
<1>3. FileInv(worker[w].file)
  BY <1>1, ZenonT(60) DEF Calmly
<1>4. boot[worker[w].file] = "done" /\ Stage(w)
  BY <1>3 DEF FileInv, Quiet
<1> QED
  BY <1>1, <1>2, <1>3, <1>4, ZenonT(60) DEF Calmly, OneEventPerFile

LEMMA ProceedsCalmly ==
    ASSUME Inv, Calmly, OwnEpochs, NEW w \in Workers, Proceeds(w), EpochInv', Stage(w)'
    PROVE  Calmly'
<1> DEFINE g == worker[w].file
<1>1. /\ g \in Files
      /\ boot[g] = "done"
      /\ \A v \in Workers : worker[v].file = g => v = w
      /\ \A i \in 1..Len(queue) : queue[i].file # g
      /\ FileInv(g)
  BY BusyFile, ZenonT(60) DEF Proceeds
<1>2. \A v \in Workers : worker'[v].file = worker[v].file
  BY ZenonT(60) DEF Proceeds
<1>3. OneEventPerFile'
  <2>1. OneEventPerFile
    BY ZenonT(60) DEF Calmly
  <2>2. queue' = queue /\ \A v \in Workers : worker'[v].pc = "idle" => worker[v].file = None
    BY <2>1, ZenonT(60) DEF Proceeds, OneEventPerFile
  <2> QED
    BY <1>2, <2>1, <2>2 DEF OneEventPerFile
<1>4. ASSUME NEW f \in Files, f # g PROVE FileInv(f)'
  <2>1. Own(f) \in EpochNums /\ Own(f) # Own(g)
    BY <1>1, <1>4, OwnEpoch
  <2>2. FileInv(f)
    BY ZenonT(60) DEF Calmly
  <2>3. /\ disk'[f] = disk[f] /\ boot'[f] = boot[f] /\ configs'[f] = configs[f]
        /\ queue' = queue /\ epochs'[Own(f)] = epochs[Own(f)]
        /\ Own(f) # 0 => metric'[Own(f)] = metric[Own(f)]
    BY <2>1, ZenonT(60) DEF Proceeds
  <2>4. \A v \in Workers : worker'[v].file = f \/ worker[v].file = f => worker'[v] = worker[v]
    BY <1>2, <1>4, ZenonT(60) DEF Proceeds
  <2> QED
    BY <2>2, <2>3, <2>4, OtherFile, ZenonT(60)
<1>5. ASSUME NEW f \in Files, f = g PROVE FileInv(f)'
  <2>1. /\ disk'[f] = disk[f] /\ boot'[f] = "done" /\ queue' = queue
        /\ worker'[w].file = f
    BY <1>1, <1>5 DEF Proceeds
  <2>2. ~Quiet(f)'
    BY <2>1, ZenonT(60) DEF Quiet
  <2>3. \A v \in Workers : worker'[v].file = f => Stage(v)'
    BY <1>1, <1>2, <1>5
  <2>4. disk[f] # None => disk[f].epoch = Own(f)
    BY <1>1, <1>5, ZenonT(60) DEF FileInv
  <2>5. \A i \in 1..Len(queue) : queue[i].file # f
    BY <1>1, <1>5
  <2> QED
    BY <2>1, <2>2, <2>3, <2>4, <2>5, ZenonT(60) DEF FileInv
<1>6. \A f \in Files : FileInv(f)'
  BY <1>4, <1>5, ZenonT(60)
<1> QED
  BY <1>3, <1>6 DEF Calmly

\* A step that only moves the goroutine's own job.
LEMMA ReadsCalmly ==
    ASSUME Inv, Calmly, OwnEpochs, NEW w \in Workers, worker[w].pc # "idle",
           worker'[w].pc # "idle", worker'[w].file = worker[w].file,
           \A v \in Workers : v # w => worker'[v] = worker[v],
           UNCHANGED <<disk, queue, bootVars, epochs, metric>>,
           Stage(w)'
    PROVE  Calmly'
<1>1. Proceeds(w)
  BY ZenonT(60) DEF Proceeds, bootVars
<1>2. EpochInv'
  <2>1. EpochInv
    BY DEF Calmly
  <2> QED
    BY <2>1 DEF EpochInv, Loaded
<1> QED
  BY <1>1, <1>2, ProceedsCalmly, ZenonT(60)

\* Tracking, comparing hashes, parsing, hashing and building change only the job.
LEMMA ReadStepCalmly ==
    ASSUME Inv, Calmly, OwnEpochs, NEW w \in Workers,
           Track(w) \/ Check(w) \/ Parse(w) \/ Hash(w) \/ Build(w)
    PROVE  Calmly'
<1> DEFINE f == worker[w].file
<1>1. /\ worker[w].pc # "idle"
      /\ UNCHANGED <<disk, queue, bootVars, epochs, metric>>
  BY ZenonT(60) DEF Track, Check, Parse, Hash, Build, At, editVars
<1>2. /\ f \in Files /\ Stage(w) /\ FileInv(f)
      /\ \A v \in Workers : worker[v].file = f => v = w
  BY <1>1, BusyFile
<1>3. worker \in [Workers -> Jobs] /\ worker[w] \in Jobs
  BY DEF Inv, TypeOK
<1>4. ASSUME NEW g \in Files
      PROVE  /\ Served(g)' <=> Served(g)
             /\ Counted(g)' <=> Counted(g)
             /\ Followed(g)' <=> Followed(g)
             /\ \A op : Due(g, op)' <=> Due(g, op)
             /\ Loaded(Own(g))' <=> Loaded(Own(g))
  BY <1>1, SameFile, ZenonT(60)
<1>5. ASSUME NEW pc \in Pcs, Goto(w, pc)
      PROVE  /\ worker'[w].pc = pc /\ worker'[w].file = f /\ worker'[w].op = worker[w].op
             /\ worker'[w].config = worker[w].config /\ worker'[w].hash = worker[w].hash
             /\ \A v \in Workers : v # w => worker'[v] = worker[v]
  BY <1>3, <1>5, GotoStep
<1>6. CASE Track(w)
  <2>1. f \notin tracked
    <3>1. SUFFICES ASSUME f \in tracked PROVE FALSE
      BY ZenonT(60)
    <3>2. PICK v \in Workers : Processing(v) /\ worker[v].file = f
      BY <3>1 DEF Inv, OneWorkerPerFile
    <3> QED
      BY <1>2, <1>6, <3>2 DEF Processing, Track, At
  <2>2. Goto(w, "check")
    BY <1>6, <2>1, ZenonT(60) DEF Track
  <2>3. /\ worker'[w].pc = "check" /\ worker'[w].file = f /\ worker'[w].op = worker[w].op
        /\ \A v \in Workers : v # w => worker'[v] = worker[v]
    BY <1>5, <2>2 DEF Pcs
  <2>4. Due(f, worker[w].op)
    BY <1>2, <1>6, ZenonT(60) DEF Track, At, Stage
  <2>5. Stage(w)'
    BY <1>2, <1>4, <2>3, <2>4, ZenonT(60) DEF Stage
  <2> QED
    BY <1>1, <2>3, <2>5, ReadsCalmly, ZenonT(60)
<1>7. CASE Check(w)
  <2>1. Due(f, worker[w].op)
    BY <1>2, <1>7, ZenonT(60) DEF Check, At, Stage
  <2>2. ASSUME disk[f] # None, NEW e \in EpochNums, Loaded(e), epochs[e].hash = Sum(disk[f])
        PROVE  Followed(f)
    <3>1. /\ epochs[e].config.epoch = e
          /\ Sum(epochs[e].config) = Sum(disk[f])
      BY <2>2, ZenonT(60) DEF Calmly, EpochInv
    <3>2. e = disk[f].epoch
      BY <3>1 DEF Sum
    <3>3. e = Own(f)
      BY <1>2, <2>2, <3>2, ZenonT(60) DEF FileInv
    <3> QED
      BY <2>1, <2>2, <3>1, <3>3, ZenonT(60) DEF Followed, Served, Due
  <2>3. PICK pc \in {"untrack", "remove", "parse"} :
            /\ Goto(w, pc)
            /\ pc = "untrack" => Followed(f)
            /\ pc = "remove" => Due(f, worker[w].op) /\ disk[f] = None
            /\ pc = "parse" => Due(f, worker[w].op) /\ disk[f] # None
    <3> DEFINE same == disk[f] # None /\ \E e \in EpochNums : Loaded(e) /\ epochs[e].hash = Sum(disk[f])
    <3>1. same => Followed(f)
      BY <2>2, ZenonT(60)
    <3>2. Goto(w, IF worker[w].op = "Rename" \/ (worker[w].op # "Remove" /\ same) THEN "untrack"
                  ELSE IF worker[w].op = "Remove" THEN "remove" ELSE "parse")
      BY <1>7, ZenonT(60) DEF Check
    <3>3. worker[w].op # "Rename" /\ (worker[w].op = "Remove" <=> disk[f] = None)
      BY <2>1, ZenonT(60) DEF Due
    <3> HIDE DEF same
    <3> QED
      BY <2>1, <3>1, <3>2, <3>3, ZenonT(60)
  <2>4. /\ worker'[w].pc = pc /\ worker'[w].file = f /\ worker'[w].op = worker[w].op
        /\ \A v \in Workers : v # w => worker'[v] = worker[v]
    BY <1>5, <2>3, ZenonT(60) DEF Pcs
  <2>5. Stage(w)'
    BY <1>1, <1>2, <1>4, <2>3, <2>4, ZenonT(60) DEF Stage
  <2> QED
    BY <1>1, <2>4, <2>5, ReadsCalmly, ZenonT(60)
<1>8. CASE Parse(w)
  <2>1. Due(f, worker[w].op) /\ disk[f] # None
    BY <1>2, <1>8 DEF Parse, At, Stage
  <2>2. CASE disk[f].quality = "garbled"
    <3>1. Goto(w, "untrack")
      BY <1>8, <2>2, ZenonT(60) DEF Parse
    <3>2. /\ worker'[w].pc = "untrack" /\ worker'[w].file = f
          /\ \A v \in Workers : v # w => worker'[v] = worker[v]
      BY <1>5, <3>1, ZenonT(60) DEF Pcs
    <3>3. Followed(f)
      BY <2>1, <2>2 DEF Followed, Due
    <3>4. Stage(w)'
      BY <1>2, <1>4, <3>2, <3>3, ZenonT(60) DEF Stage
    <3> QED
      BY <1>1, <3>2, <3>4, ReadsCalmly, ZenonT(60)
  <2>3. CASE disk[f].quality # "garbled"
    <3>1. disk[f] \in Contents
      BY <1>2, <2>1 DEF Inv, TypeOK
    <3>2. /\ worker'[w].pc = "hash" /\ worker'[w].file = f
          /\ worker'[w].op = worker[w].op /\ worker'[w].config = disk[f]
          /\ \A v \in Workers : v # w => worker'[v] = worker[v]
      BY <1>3, <1>8, <2>1, <2>3, <3>1, ParsedStep, ZenonT(60) DEF Parse
    <3>3. Stage(w)'
      BY <1>1, <1>2, <1>4, <2>1, <3>2, ZenonT(60) DEF Stage
    <3> QED
      BY <1>1, <3>2, <3>3, ReadsCalmly, ZenonT(60)
  <2> QED
    BY <2>2, <2>3, ZenonT(60)
<1>9. CASE Hash(w)
  <2>1. Due(f, worker[w].op) /\ disk[f] # None /\ worker[w].config = disk[f]
    BY <1>2, <1>9, ZenonT(60) DEF Hash, At, Stage
  <2>2. Sum(disk[f]) \in Sums
    BY <1>2, <2>1 DEF Inv, TypeOK, Sums
  <2>3. /\ worker'[w].pc = "build" /\ worker'[w].file = f /\ worker'[w].op = worker[w].op
        /\ worker'[w].config = disk[f] /\ worker'[w].hash = Sum(disk[f])
        /\ \A v \in Workers : v # w => worker'[v] = worker[v]
    BY <1>3, <1>9, <2>1, <2>2, HashedStep, ZenonT(60) DEF Hash
  <2>4. disk'[f] = disk[f] /\ Sum(disk'[f]) = Sum(disk[f])
    BY <1>1
  <2>5. Stage(w)'
    BY <1>2, <1>4, <2>1, <2>3, <2>4, ZenonT(60) DEF Stage
  <2> QED
    BY <1>1, <2>3, <2>5, ReadsCalmly, ZenonT(60)
<1>10. CASE Build(w)
  <2>1. /\ Due(f, worker[w].op) /\ disk[f] # None
        /\ worker[w].config = disk[f] /\ worker[w].hash = Sum(disk[f])
    BY <1>2, <1>10, ZenonT(60) DEF Build, At, Stage
  <2>2. disk'[f] = disk[f] /\ Sum(disk'[f]) = Sum(disk[f])
    BY <1>1
  <2>3. CASE worker[w].config.quality = "unset"
    <3>1. worker' = worker
      BY <1>10, <2>3, ZenonT(60) DEF Build
    <3>2. worker[w].pc = "build"
      BY <1>10, ZenonT(60) DEF Build, At
    <3>3. Stage(w)'
      BY <1>2, <1>4, <2>1, <2>2, <3>1, <3>2, ZenonT(60) DEF Stage
    <3> QED
      BY <1>1, <3>1, <3>3, ReadsCalmly, ZenonT(60)
  <2>4. CASE worker[w].config.quality = "good"
    <3>1. Goto(w, "install")
      BY <1>10, <2>4, ZenonT(60) DEF Build
    <3>2. /\ worker'[w].pc = "install" /\ worker'[w].file = f /\ worker'[w].op = worker[w].op
          /\ worker'[w].config = worker[w].config /\ worker'[w].hash = worker[w].hash
          /\ \A v \in Workers : v # w => worker'[v] = worker[v]
      BY <1>5, <3>1, ZenonT(60) DEF Pcs
    <3>3. Stage(w)'
      BY <1>2, <1>4, <2>1, <2>2, <2>4, <3>2, ZenonT(60) DEF Stage
    <3> QED
      BY <1>1, <3>2, <3>3, ReadsCalmly, ZenonT(60)
  <2>5. CASE worker[w].config.quality \notin {"unset", "good"}
    <3>1. Goto(w, "untrack")
      BY <1>10, <2>5, ZenonT(60) DEF Build
    <3>2. /\ worker'[w].pc = "untrack" /\ worker'[w].file = f
          /\ \A v \in Workers : v # w => worker'[v] = worker[v]
      BY <1>5, <3>1, ZenonT(60) DEF Pcs
    <3>3. Followed(f)
      BY <2>1, <2>5, ZenonT(60) DEF Followed, Due
    <3>4. Stage(w)'
      BY <1>2, <1>4, <3>2, <3>3, ZenonT(60) DEF Stage
    <3> QED
      BY <1>1, <3>2, <3>4, ReadsCalmly, ZenonT(60)
  <2> QED
    BY <2>3, <2>4, <2>5, ZenonT(60)
<1> QED
  BY <1>6, <1>7, <1>8, <1>9, <1>10, ZenonT(60)

\* Installing, removing and setting the gauge touch the epoch of the file.
LEMMA InstallCalmly ==
    ASSUME Inv, Calmly, OwnEpochs, NEW w \in Workers, Install(w)
    PROVE  Calmly'
<1> DEFINE f == worker[w].file
           c == worker[w].config
           entry == [config |-> c, hash |-> worker[w].hash, file |-> f]
<1>1. worker[w].pc = "install" /\ UNCHANGED <<disk, queue, bootVars, metric>>
  BY ZenonT(60) DEF Install, At, editVars
<1>2. f \in Files /\ Stage(w) /\ FileInv(f)
  BY <1>1, BusyFile
<1>3. worker \in [Workers -> Jobs] /\ worker[w] \in Jobs
  BY DEF Inv, TypeOK
<1>4. /\ Due(f, worker[w].op) /\ disk[f] # None /\ c = disk[f]
      /\ worker[w].hash = Sum(disk[f])
  BY <1>1, <1>2, ZenonT(60) DEF Stage
<1>5. c.epoch = Own(f)
  BY <1>2, <1>4, ZenonT(60) DEF FileInv
<1>6. Own(f) \in EpochNums /\ \A g \in Files : Own(g) = Own(f) => g = f
  BY <1>2, OwnEpoch, ZenonT(60)
<1>7. epochs' = [epochs EXCEPT ![Own(f)] = entry]
  BY <1>4, <1>5 DEF Install, Due
<1>8. worker' = [worker EXCEPT ![w] = [@ EXCEPT !.pc = "metric", !.num = Own(f), !.value = 1]]
  BY <1>4, <1>5 DEF Install, Due
<1>9. /\ worker'[w].pc = "metric" /\ worker'[w].file = f
      /\ worker'[w].num = Own(f) /\ worker'[w].value = 1
      /\ \A v \in Workers : v # w => worker'[v] = worker[v]
  BY <1>3, <1>6, <1>8, DoneStep, ZenonT(60)
<1>10. /\ epochs'[Own(f)] = entry
       /\ \A e \in EpochNums : e # Own(f) => epochs'[e] = epochs[e]
  BY <1>6, <1>7, ZenonT(60) DEF Inv, TypeOK
<1>11. entry.config = c /\ entry.hash = Sum(c) /\ entry.file = f /\ entry # None
  <2>1. entry.config = c /\ entry.hash = Sum(c) /\ entry.file = f
    BY <1>4, ZenonT(60)
  <2>2. c \in Contents /\ worker[w].hash \in Sums
    BY <1>2, <1>4 DEF Inv, TypeOK, Sums
  <2>3. entry \in Entries
    BY <1>2, <2>2, ZenonT(60) DEF Entries
  <2> QED
    BY <2>1, <2>3, NoneAssumption, ZenonT(60)
<1> HIDE DEF entry
<1>12. Proceeds(w)
  BY <1>1, <1>9, <1>10, ZenonT(60) DEF Proceeds, bootVars
<1>13. EpochInv'
  BY <1>5, <1>10, <1>11 DEF Calmly, EpochInv, Loaded
<1>14. Stage(w)'
  BY <1>1, <1>2, <1>4, <1>9, <1>10, <1>11, ZenonT(60) DEF Stage, Served, Loaded
<1> QED
  BY <1>12, <1>13, <1>14, ProceedsCalmly

LEMMA RemoveCalmly ==
    ASSUME Inv, Calmly, OwnEpochs, NEW w \in Workers, Remove(w)
    PROVE  Calmly'
<1> DEFINE f == worker[w].file
           from == {e \in EpochNums : Loaded(e) /\ epochs[e].file = f}
<1>1. worker[w].pc = "remove" /\ UNCHANGED <<disk, queue, bootVars, metric>>
  BY DEF Remove, At, editVars
<1>2. f \in Files /\ Stage(w)
  BY <1>1, BusyFile, ZenonT(60)
<1>3. worker \in [Workers -> Jobs] /\ worker[w] \in Jobs
  BY DEF Inv, TypeOK
<1>4. Counted(f) /\ disk[f] = None
  BY <1>1, <1>2, ZenonT(60) DEF Stage, Due
<1>5. Own(f) \in EpochNums
  BY <1>2, OwnEpoch, ZenonT(60)
<1>6. from = IF Loaded(Own(f)) THEN {Own(f)} ELSE {}
  <2>1. \A e \in from : e = Own(f)
    BY ZenonT(60) DEF Calmly, EpochInv
  <2>2. ASSUME Loaded(Own(f)) PROVE epochs[Own(f)].file = f
    <3>1. epochs[Own(f)] \in Entries
      BY <1>5, <2>2, ZenonT(60) DEF Inv, TypeOK, Loaded
    <3>2. epochs[Own(f)].file \in Files
      BY <3>1, ZenonT(60) DEF Entries
    <3>3. Own(f) = Own(epochs[Own(f)].file)
      BY <1>5, <2>2 DEF Calmly, EpochInv
    <3> QED
      BY <1>2, <3>2, <3>3, OwnEpoch, ZenonT(60)
  <2> QED
    BY <1>5, <2>1, <2>2, ZenonT(60)
<1>7. PICK e \in EpochNums \cup {0} :
          /\ e \in IF from = {} THEN {0} ELSE from
          /\ epochs' = IF from = {} THEN epochs ELSE [epochs EXCEPT ![e] = None]
          /\ worker' = [worker EXCEPT ![w] = [@ EXCEPT !.pc = "metric", !.num = e, !.value = 0]]
  BY ZenonT(60) DEF Remove
<1>8. /\ worker'[w].pc = "metric" /\ worker'[w].file = f
      /\ worker'[w].num = e /\ worker'[w].value = 0
      /\ \A v \in Workers : v # w => worker'[v] = worker[v]
  BY <1>3, <1>7, DoneStep, ZenonT(60)
<1>9. /\ e = Own(f) \/ (e = 0 /\ ~Loaded(Own(f)) /\ epochs' = epochs)
      /\ epochs'[Own(f)] = None
      /\ \A d \in EpochNums : d # Own(f) => epochs'[d] = epochs[d]
  <2>1. CASE Loaded(Own(f))
    BY <1>5, <1>6, <1>7, <2>1 DEF Inv, TypeOK
  <2>2. CASE ~Loaded(Own(f))
    BY <1>6, <1>7, <2>2, ZenonT(60) DEF Loaded
  <2> QED
    BY <2>1, <2>2
<1>10. Proceeds(w)
  BY <1>1, <1>8, <1>9, ZenonT(60) DEF Proceeds, bootVars
<1>11. EpochInv'
  BY <1>9 DEF Calmly, EpochInv, Loaded
<1>12. Stage(w)'
  <2>1. e = 0 /\ e # Own(f) => Counted(f)'
    BY <1>1, <1>4, <1>8, <1>9, ZenonT(60) DEF Counted, Loaded
  <2> QED
    BY <1>1, <1>2, <1>4, <1>8, <1>9, <2>1, ZenonT(60) DEF Stage, Loaded
<1> QED
  BY <1>10, <1>11, <1>12, ProceedsCalmly

LEMMA SetMetricCalmly ==
    ASSUME Inv, Calmly, OwnEpochs, NEW w \in Workers, SetMetric(w)
    PROVE  Calmly'
<1> DEFINE f == worker[w].file
           n == worker[w].num
<1>1. worker[w].pc = "metric" /\ UNCHANGED <<disk, queue, bootVars, epochs>>
  BY DEF SetMetric, At, editVars
<1>2. f \in Files /\ Stage(w)
  BY <1>1, BusyFile, ZenonT(60)
<1>3. worker \in [Workers -> Jobs] /\ worker[w] \in Jobs
  BY DEF Inv, TypeOK
<1>4. /\ worker'[w].pc = "untrack" /\ worker'[w].file = f
      /\ \A v \in Workers : v # w => worker'[v] = worker[v]
  BY <1>3, GotoStep DEF SetMetric, Pcs
<1>5. Own(f) \in EpochNums
  BY <1>2, OwnEpoch, ZenonT(60)
<1>6. \/ disk[f] # None /\ Served(f) /\ n = Own(f) /\ worker[w].value = 1
      \/ /\ disk[f] = None /\ ~Loaded(Own(f)) /\ worker[w].value = 0
         /\ n = Own(f) \/ (n = 0 /\ Counted(f))
  BY <1>1, <1>2, ZenonT(60) DEF Stage
<1>7. /\ metric' = [metric EXCEPT ![n] = worker[w].value]
      /\ DOMAIN metric = EpochNums \cup {0}
  BY ZenonT(60) DEF SetMetric, Inv, TypeOK
<1>8. \A e \in EpochNums \ {0} : e # Own(f) => metric'[e] = metric[e]
  BY <1>6, <1>7
<1>9. Loaded(Own(f)) <=> disk[f] # None
  BY <1>6, ZenonT(60) DEF Served
<1>10. Own(f) # 0 => (metric'[Own(f)] = 1 <=> Loaded(Own(f)))
  <2>1. CASE n = Own(f)
    <3>1. metric'[Own(f)] = worker[w].value
      BY <1>5, <1>7, <2>1, ZenonT(60)
    <3> QED
      BY <1>6, <1>9, <3>1
  <2>2. CASE n # Own(f)
    <3>1. metric'[Own(f)] = metric[Own(f)]
      BY <1>5, <1>7, <2>2, ZenonT(60)
    <3> QED
      BY <1>6, <2>2, <3>1, ZenonT(60) DEF Counted
  <2> QED
    BY <2>1, <2>2, ZenonT(60)
<1>11. Loaded(Own(f)) => Served(f)
  BY <1>6, ZenonT(60)
<1>12. ASSUME NEW g \in Files, g = f PROVE Followed(g)'
  <2>1. /\ disk'[g] = disk[g] /\ epochs'[Own(g)] = epochs[Own(g)]
    BY <1>1
  <2>2. Loaded(Own(g))' <=> Loaded(Own(g))
    BY <2>1 DEF Loaded
  <2>3. Counted(g)'
    BY <1>10, <1>12, <2>2, ZenonT(60) DEF Counted
  <2>4. Loaded(Own(g)) => Served(g)'
    BY <1>11, <1>12, <2>1, <2>2 DEF Served
  <2> QED
    BY <1>9, <1>12, <2>1, <2>2, <2>3, <2>4, ZenonT(60) DEF Followed
<1>13. Stage(w)'
  BY <1>2, <1>4, <1>12, ZenonT(60) DEF Stage
<1>14. Proceeds(w)
  BY <1>1, <1>4, <1>8, ZenonT(60) DEF Proceeds, bootVars
<1>15. EpochInv'
  BY <1>1, ZenonT(60) DEF Calmly, EpochInv, Loaded
<1> QED
  BY <1>13, <1>14, <1>15, ProceedsCalmly

LEMMA UntrackCalmly ==
    ASSUME Inv, Calmly, OwnEpochs, NEW w \in Workers, Untrack(w)
    PROVE  Calmly'
<1> DEFINE g == worker[w].file
<1>1. worker[w].pc = "untrack" /\ UNCHANGED <<disk, queue, bootVars, epochs, metric>>
  BY ZenonT(60) DEF Untrack, At, editVars
<1>2. /\ g \in Files /\ Stage(w) /\ FileInv(g)
      /\ boot[g] = "done"
      /\ \A v \in Workers : worker[v].file = g => v = w
      /\ \A i \in 1..Len(queue) : queue[i].file # g
  BY <1>1, BusyFile, ZenonT(60)
<1>3. /\ worker'[w].pc = "idle" /\ worker'[w].file = None
      /\ \A v \in Workers : v # w => worker'[v] = worker[v]
  BY DEF Untrack, Inv, TypeOK, Idle
<1>4. \A f \in Files : f # None
  BY NoneAssumption
<1>5. \A i \in 1..Len(queue) : queue[i].file # None
  <2>1. queue \in Seq(Events)
    BY DEF Inv, TypeOK, Events
  <2>2. \A i \in 1..Len(queue) : queue[i] \in Events
    BY <2>1
  <2> QED
    BY <1>4, <2>2 DEF Events
<1>6. OneEventPerFile'
  <2>0. OneEventPerFile /\ queue' = queue
    BY <1>1, ZenonT(60) DEF Calmly
  <2>1. \A i, j \in 1..Len(queue') : queue'[i].file = queue'[j].file => i = j
    BY <2>0, ZenonT(60) DEF OneEventPerFile
  <2>2. ASSUME NEW i \in 1..Len(queue'), NEW v \in Workers PROVE queue'[i].file # worker'[v].file
    BY <1>3, <1>5, <2>0, <2>2, ZenonT(60) DEF OneEventPerFile
  <2>3. ASSUME NEW u \in Workers, NEW v \in Workers, worker'[u].file = worker'[v].file, worker'[u].file # None
        PROVE  u = v
    <3>1. u # w /\ v # w
      BY <1>3, <2>3, ZenonT(60)
    <3>2. worker[u].file = worker[v].file /\ worker[u].file # None
      BY <1>3, <2>3, <3>1, ZenonT(60)
    <3> QED
      BY <2>0, <3>2, ZenonT(60) DEF OneEventPerFile
  <2>4. ASSUME NEW v \in Workers, worker'[v].pc = "idle" PROVE worker'[v].file = None
    BY <1>3, <2>0, <2>4, ZenonT(60) DEF OneEventPerFile
  <2> QED
    BY <2>1, <2>2, <2>3, <2>4, ZenonT(60) DEF OneEventPerFile
<1>7. EpochInv'
  BY <1>1, ZenonT(60) DEF Calmly, EpochInv, Loaded
<1>8. ASSUME NEW f \in Files, f # g PROVE FileInv(f)'
  <2>1. FileInv(f)
    BY DEF Calmly
  <2>2. \A v \in Workers : worker'[v].file = f \/ worker[v].file = f => worker'[v] = worker[v]
    BY <1>3, <1>4, <1>8
  <2> QED
    BY <1>1, <2>1, <2>2, OtherFile DEF bootVars
<1>9. ASSUME NEW f \in Files, f = g PROVE FileInv(f)'
  <2>1. Followed(f)
    BY <1>1, <1>2, <1>9, ZenonT(60) DEF Stage
  <2>2. Followed(f)'
    BY <1>1, <2>1, SameFile, ZenonT(60)
  <2>3. \A v \in Workers : worker'[v].file # f
    BY <1>2, <1>3, <1>4, <1>9, ZenonT(60)
  <2>4. disk[f] # None => disk[f].epoch = Own(f)
    BY <1>2, <1>9, ZenonT(60) DEF FileInv
  <2>5. disk' = disk /\ boot'[f] = "done" /\ queue' = queue
    BY <1>1, <1>2, <1>9, ZenonT(60) DEF bootVars
  <2>6. \A i \in 1..Len(queue') : queue'[i].file # f
    BY <1>2, <1>9, <2>5, ZenonT(60)
  <2> QED
    BY <2>2, <2>3, <2>4, <2>5, <2>6, ZenonT(60) DEF FileInv
<1> QED
  BY <1>6, <1>7, <1>8, <1>9 DEF Calmly

LEMMA DispatchCalmly ==
    ASSUME Inv, Calmly, OwnEpochs, NEW w \in Workers, Dispatch(w)
    PROVE  Calmly'
<1> DEFINE g == queue[1].file
<1>1. queue \in Seq(Events) /\ queue # <<>>
  BY DEF Dispatch, Inv, TypeOK, Events
<1>2. /\ Len(queue) \in Nat /\ 1 \in 1..Len(queue) /\ Head(queue) = queue[1]
      /\ Len(Tail(queue)) = Len(queue) - 1
      /\ \A i \in 1..(Len(queue) - 1) : Tail(queue)[i] = queue[i + 1]
      /\ \A i \in 1..Len(queue) : queue[i] \in Events
  BY <1>1
<1>3. /\ queue' = Tail(queue) /\ worker[w].pc = "idle"
      /\ UNCHANGED <<disk, bootVars, epochs, metric>>
  BY ZenonT(60) DEF Dispatch, editVars
<1>4. g \in Files /\ FileInv(g) /\ worker[w].file = None
  BY <1>2, <1>3, ZenonT(60) DEF Events, Calmly, OneEventPerFile
<1>5. /\ worker'[w].pc = "track" /\ worker'[w].file = g /\ worker'[w].op = queue[1].op
      /\ \A v \in Workers : v # w => worker'[v] = worker[v]
  BY <1>2, ZenonT(60) DEF Dispatch, Inv, TypeOK, Idle
<1>6. \A f \in Files : f # None
  BY NoneAssumption
<1>7. ASSUME NEW i \in 1..Len(queue')
      PROVE  i + 1 \in 1..Len(queue) /\ queue'[i] = queue[i + 1] /\ i + 1 # 1
  BY <1>2, <1>3
<1>8. \A i \in 1..Len(queue) : queue[i].file = g => i = 1
  BY <1>2, ZenonT(60) DEF Calmly, OneEventPerFile
<1>9. \A v \in Workers : worker[v].file # g
  BY <1>2, ZenonT(60) DEF Calmly, OneEventPerFile
<1>10. OneEventPerFile'
  <2>1. ASSUME NEW i \in 1..Len(queue'), NEW j \in 1..Len(queue'), queue'[i].file = queue'[j].file
        PROVE  i = j
    <3>1. /\ i + 1 \in 1..Len(queue) /\ j + 1 \in 1..Len(queue)
          /\ queue[i + 1].file = queue[j + 1].file
      BY <1>7, <2>1, ZenonT(60)
    <3>2. \A k, l \in 1..Len(queue) : queue[k].file = queue[l].file => k = l
      BY DEF Calmly, OneEventPerFile
    <3>3. i + 1 = j + 1
      BY <3>1, <3>2, ZenonT(60)
    <3> QED
      BY <1>2, <1>3, <3>3
  <2>2. ASSUME NEW i \in 1..Len(queue'), NEW v \in Workers PROVE queue'[i].file # worker'[v].file
    <3> DEFINE k == i + 1
    <3>1. k \in 1..Len(queue) /\ queue'[i] = queue[k] /\ k # 1
      BY <1>7, <2>2, ZenonT(60)
    <3> HIDE DEF k
    <3>2. queue[k].file # g /\ queue[k].file # worker[v].file
      BY <1>8, <3>1, ZenonT(60) DEF Calmly, OneEventPerFile
    <3> QED
      BY <1>5, <3>1, <3>2, ZenonT(60)
  <2>3. ASSUME NEW u \in Workers, NEW v \in Workers,
               worker'[u].file = worker'[v].file, worker'[u].file # None
        PROVE  u = v
    BY <1>5, <1>9, <2>3 DEF Calmly, OneEventPerFile
  <2>4. \A v \in Workers : worker'[v].pc = "idle" => worker'[v].file = None
    BY <1>5, ZenonT(60) DEF Calmly, OneEventPerFile
  <2> QED
    BY <2>1, <2>2, <2>3, <2>4, ZenonT(60) DEF OneEventPerFile
<1>11. EpochInv'
  BY <1>3 DEF Calmly, EpochInv, Loaded
<1>12. ASSUME NEW f \in Files, f # g PROVE FileInv(f)'
  <2>1. FileInv(f)
    BY DEF Calmly
  <2>2. \A v \in Workers : worker'[v].file = f \/ worker[v].file = f => worker'[v] = worker[v]
    BY <1>4, <1>5, <1>6, <1>12
  <2>3. \A i \in 1..Len(queue') : \E j \in 1..Len(queue) : queue[j] = queue'[i]
    BY <1>7, ZenonT(60)
  <2>4. ASSUME NEW j \in 1..Len(queue), queue[j].file = f
        PROVE  \E i \in 1..Len(queue') : queue'[i] = queue[j]
    <3>1. j # 1
      BY <1>12, <2>4, ZenonT(60)
    <3>2. j - 1 \in 1..Len(queue') /\ queue'[j - 1] = queue[j]
      BY <1>2, <1>3, <3>1
    <3> QED
      BY <3>2
  <2> QED
    BY <1>3, <2>1, <2>2, <2>3, <2>4, OtherFile, ZenonT(60) DEF bootVars
<1>13. ASSUME NEW f \in Files, f = g PROVE FileInv(f)'
  <2>1. PICK op : op = queue[1].op
    OBVIOUS
  <2>2. ~Quiet(f) /\ Due(f, op)
    BY <1>2, <1>4, <1>13, <2>1, ZenonT(60) DEF Quiet, FileInv
  <2>3. boot'[f] = "done" /\ disk' = disk
    BY <1>3, <1>4, <1>13, <2>2, ZenonT(60) DEF FileInv, bootVars
  <2>4. Due(f, op)'
    BY <1>3, <2>2, SameFile, ZenonT(60)
  <2>5. worker'[w].pc = "track" /\ worker'[w].file = f /\ worker'[w].op = op
    BY <1>5, <1>13, <2>1, ZenonT(60)
  <2>6. Stage(w)' /\ ~Quiet(f)'
    BY <2>4, <2>5, ZenonT(60) DEF Stage, Quiet
  <2>7. \A v \in Workers : worker'[v].file = f => v = w
    BY <1>5, <1>9, <1>13, ZenonT(60)
  <2>8. \A i \in 1..Len(queue') : queue'[i].file # f
    BY <1>7, <1>8, <1>13
  <2>9. disk[f] # None => disk[f].epoch = Own(f)
    BY <1>4, <1>13, ZenonT(60) DEF FileInv
  <2> QED
    BY <2>3, <2>6, <2>7, <2>8, <2>9, ZenonT(60) DEF FileInv
<1> QED
  BY <1>10, <1>11, <1>12, <1>13 DEF Calmly

LEMMA BootCalmly ==
    ASSUME Inv, Calmly, OwnEpochs, NEW f \in Files, Boot(f)
    PROVE  Calmly'
<1>1. boot[f] # "done" /\ UNCHANGED <<disk, queue, worker, configs>>
  BY ZenonT(60) DEF Boot, BootLoad, BootMetric, editVars
<1>2. FileInv(f) /\ configs[f] \in Contents
  BY <1>1 DEF Calmly, Inv, JobInv, TypeOK
<1>3. configs[f] = disk[f] /\ Quiet(f) /\ configs[f].epoch = Own(f) /\ disk[f] # None
  BY <1>1, <1>2, NoneAssumption, ZenonT(60) DEF FileInv
<1>4. Own(f) \in EpochNums
  BY OwnEpoch, ZenonT(60)
<1>5. OneEventPerFile'
  BY <1>1, ZenonT(60) DEF Calmly, OneEventPerFile
<1>6. Quiet(f)'
  BY <1>1, <1>3, ZenonT(60) DEF Quiet
<1>7. ASSUME NEW g \in Files, g # f, epochs'[Own(g)] = epochs[Own(g)],
             metric'[Own(g)] = metric[Own(g)], boot'[g] = boot[g]
      PROVE  FileInv(g)'
  <2>1. FileInv(g)
    BY DEF Calmly
  <2> QED
    BY <1>1, <1>7, <2>1, OtherFile
<1>8. ASSUME boot'[f] # "load",
             boot'[f] = "set0" => disk[f].quality # "good" /\ ~Loaded(Own(f))'
                                  /\ (Own(f) # 0 => metric'[Own(f)] = 0),
             boot'[f] = "set1" => Served(f)',
             boot'[f] = "done" => Followed(f)'
      PROVE  FileInv(f)'
  <2>1. \A i \in 1..Len(queue') : queue'[i].file # f
    BY <1>6 DEF Quiet
  <2>2. \A w \in Workers : worker'[w].file # f
    BY <1>6 DEF Quiet
  <2> QED
    BY <1>1, <1>3, <1>6, <1>8, <2>1, <2>2, ZenonT(60) DEF FileInv
<1>9. CASE BootLoad(f)
  <2> DEFINE entry == [config |-> configs[f], hash |-> Sum(configs[f]), file |-> f]
  <2>1. ~Loaded(Own(f)) /\ (Own(f) # 0 => metric[Own(f)] = 0)
    BY <1>2, <1>9, ZenonT(60) DEF BootLoad, FileInv
  <2>2. /\ entry.config = configs[f] /\ entry.hash = Sum(configs[f]) /\ entry.file = f
        /\ entry # None
    <3>1. entry \in Entries
      BY <1>2 DEF Entries, Sums
    <3> QED
      BY <3>1, NoneAssumption, ZenonT(60)
  <2>3. /\ metric' = metric
        /\ boot' = [boot EXCEPT ![f] = IF configs[f].quality = "good" THEN "set1" ELSE "set0"]
        /\ epochs' = IF configs[f].quality = "good" THEN [epochs EXCEPT ![Own(f)] = entry] ELSE epochs
    BY <1>3, <1>9, <2>1, ZenonT(60) DEF BootLoad
  <2> HIDE DEF entry
  <2>4. /\ \A e \in EpochNums : e # Own(f) => epochs'[e] = epochs[e]
        /\ epochs'[Own(f)] = IF configs[f].quality = "good" THEN entry ELSE None
        /\ \A g \in Files : g # f => boot'[g] = boot[g]
        /\ boot'[f] = IF configs[f].quality = "good" THEN "set1" ELSE "set0"
    BY <1>4, <2>1, <2>3 DEF Inv, TypeOK, Loaded
  <2>5. \A g \in Files : g # f => FileInv(g)'
    BY <1>7, <2>3, <2>4, OwnEpoch, ZenonT(60)
  <2>6. EpochInv'
    BY <1>3, <2>2, <2>4 DEF Calmly, EpochInv, Loaded
  <2>7. FileInv(f)'
    <3>1. CASE configs[f].quality = "good"
      <4>1. Served(f)'
        BY <1>1, <1>3, <2>2, <2>4, <3>1, ZenonT(60) DEF Served, Loaded
      <4> QED
        BY <1>8, <2>4, <3>1, <4>1, ZenonT(60)
    <3>2. CASE configs[f].quality # "good"
      <4>1. ~Loaded(Own(f))'
        BY <2>4, <3>2, ZenonT(60) DEF Loaded
      <4>2. boot'[f] = "set0"
        BY <2>4, <3>2, ZenonT(60)
      <4>3. disk[f].quality # "good" /\ (Own(f) # 0 => metric'[Own(f)] = 0)
        BY <1>3, <2>1, <2>3, <3>2, ZenonT(60)
      <4> QED
        BY <1>8, <4>1, <4>2, <4>3, ZenonT(60)
    <3> QED
      BY <3>1, <3>2, ZenonT(60)
  <2> QED
    BY <1>5, <2>5, <2>6, <2>7 DEF Calmly
<1>10. CASE BootMetric(f)
  <2>1. /\ epochs' = epochs
        /\ boot' = [boot EXCEPT ![f] = "done"]
        /\ metric' = [metric EXCEPT ![Own(f)] = IF boot[f] = "set1" THEN 1 ELSE 0]
        /\ boot[f] \in {"set0", "set1"}
    BY <1>3, <1>10, ZenonT(60) DEF BootMetric
  <2>2. /\ \A e \in EpochNums : e # Own(f) => metric'[e] = metric[e]
        /\ metric'[Own(f)] = IF boot[f] = "set1" THEN 1 ELSE 0
        /\ \A g \in Files : g # f => boot'[g] = boot[g]
        /\ boot'[f] = "done"
    BY <1>4, <2>1, ZenonT(60) DEF Inv, TypeOK
  <2>3. \A g \in Files : g # f => FileInv(g)'
    BY <1>7, <2>1, <2>2, OwnEpoch, ZenonT(60)
  <2>4. EpochInv'
    BY <2>1 DEF Calmly, EpochInv, Loaded
  <2>5. Followed(f)'
    <3>1. Loaded(Own(f))' <=> Loaded(Own(f))
      BY <2>1, ZenonT(60) DEF Loaded
    <3>2. Served(f)' <=> Served(f)
      BY <1>1, <2>1, <3>1 DEF Served
    <3>3. CASE boot[f] = "set1"
      <4>1. Served(f)
        BY <1>2, <3>3, ZenonT(60) DEF FileInv
      <4> QED
        BY <1>1, <1>3, <2>2, <3>1, <3>2, <3>3, <4>1, ZenonT(60) DEF Followed, Counted, Served
    <3>4. CASE boot[f] = "set0"
      <4>1. ~Loaded(Own(f)) /\ disk[f].quality # "good"
        BY <1>2, <3>4, ZenonT(60) DEF FileInv
      <4> QED
        BY <1>1, <2>2, <3>1, <3>4, <4>1 DEF Followed, Counted
    <3> QED
      BY <2>1, <3>3, <3>4
  <2>6. FileInv(f)'
    BY <1>8, <2>2, <2>5
  <2> QED
    BY <1>5, <2>3, <2>4, <2>6 DEF Calmly
<1> QED
  BY <1>9, <1>10 DEF Boot

LEMMA EditedCalmly ==
    ASSUME Inv, Calmly, OwnEpochs, discipline = "calm", NEW f \in Files, NEW c,
           NEW op \in {"Write", "Create", "Remove"},
           Edited({f}, [disk EXCEPT ![f] = c], <<Event(f, op)>>),
           c # None => c.epoch = Own(f),
           op = "Remove" <=> c = None,
           op = "Create" => disk[f] = None
    PROVE  Calmly'
<1>1. watching /\ boot[f] = "done" /\ Quiet(f)
  BY DEF Edited, Calm, Started, Quiet, Inv, TypeOK
<1>2. /\ queue' = queue \o <<Event(f, op)>>
      /\ disk' = [disk EXCEPT ![f] = c]
      /\ UNCHANGED <<worker, bootVars, epochs, metric>>
  BY <1>1, ZenonT(60) DEF Edited
<1>3. disk'[f] = c /\ \A g \in Files : g # f => disk'[g] = disk[g]
  BY <1>2 DEF Inv, TypeOK
<1>4. FileInv(f) /\ Followed(f)
  BY <1>1, ZenonT(60) DEF Calmly, FileInv
<1>5. Due(f, op)'
  <2>1. Counted(f)'
    BY <1>2, <1>4, ZenonT(60) DEF Followed, Counted, Loaded
  <2>2. op = "Create" => ~Loaded(Own(f))'
    BY <1>2, <1>4, ZenonT(60) DEF Followed, Loaded
  <2> QED
    BY <1>3, <2>1, <2>2, ZenonT(60) DEF Due
<1>6. queue \in Seq(Events) /\ Len(queue) \in Nat
  BY DEF Inv, TypeOK, Events
<1>7. /\ Len(queue') = Len(queue) + 1
      /\ \A i \in 1..Len(queue) : queue'[i] = queue[i]
      /\ queue'[Len(queue) + 1] = Event(f, op)
  <2> DEFINE ev == Event(f, op)
  <2>1. ev \in Events
    BY DEF Event, Events
  <2> HIDE DEF ev
  <2>2. queue' = queue \o <<ev>>
    BY <1>2, ZenonT(60) DEF ev
  <2>3. /\ Len(queue') = Len(queue) + 1
        /\ \A i \in 1..Len(queue) : queue'[i] = queue[i]
        /\ queue'[Len(queue) + 1] = ev
    BY <1>6, <2>1, <2>2
  <2> QED
    BY <2>3 DEF ev
<1>8. Event(f, op).file = f /\ Event(f, op).op = op
  BY ZenonT(60) DEF Event
<1>9. \A i \in 1..Len(queue') : i \in 1..Len(queue) \/ i = Len(queue) + 1
  BY <1>6, <1>7
<1>10. OneEventPerFile'
  <2>1. ASSUME NEW i \in 1..Len(queue'), NEW j \in 1..Len(queue'), queue'[i].file = queue'[j].file
        PROVE  i = j
    <3>1. \A n \in 1..Len(queue) : queue[n].file # f
      BY <1>1, ZenonT(60) DEF Quiet
    <3>2. \A m, n \in 1..Len(queue) : queue[m].file = queue[n].file => m = n
      BY ZenonT(60) DEF Calmly, OneEventPerFile
    <3>3. \A n \in 1..Len(queue') : n \in 1..Len(queue) \/ (n = Len(queue) + 1 /\ queue'[n].file = f)
      BY <1>7, <1>8, <1>9, ZenonT(60)
    <3>4. \A n \in 1..Len(queue) : queue'[n].file = queue[n].file
      BY <1>7, ZenonT(60)
    <3>5. CASE i \in 1..Len(queue)
      BY <2>1, <3>1, <3>2, <3>3, <3>4, <3>5, ZenonT(60)
    <3>6. CASE i = Len(queue) + 1 /\ queue'[i].file = f
      BY <2>1, <3>1, <3>3, <3>4, <3>6, ZenonT(60)
    <3> QED
      BY <3>3, <3>5, <3>6, ZenonT(60)
  <2>2. ASSUME NEW i \in 1..Len(queue'), NEW w \in Workers PROVE queue'[i].file # worker'[w].file
    <3>1. worker[w].file # f
      BY <1>1, ZenonT(60) DEF Quiet
    <3>2. \A n \in 1..Len(queue) : queue[n].file # worker[w].file
      BY ZenonT(60) DEF Calmly, OneEventPerFile
    <3> QED
      BY <1>2, <1>7, <1>8, <1>9, <3>1, <3>2, ZenonT(60)
  <2> QED
    BY <1>2, <2>1, <2>2, ZenonT(60) DEF Calmly, OneEventPerFile
<1>11. EpochInv'
  BY <1>2 DEF Calmly, EpochInv, Loaded
<1>12. ASSUME NEW g \in Files, g # f PROVE FileInv(g)'
  <2>1. FileInv(g)
    BY ZenonT(60) DEF Calmly
  <2>2. \A i \in 1..Len(queue') : queue'[i].file = g => \E j \in 1..Len(queue) : queue[j] = queue'[i]
    BY <1>7, <1>8, <1>9, <1>12, ZenonT(60)
  <2>3. \A j \in 1..Len(queue) : j \in 1..Len(queue') /\ queue'[j] = queue[j]
    BY <1>6, <1>7
  <2> QED
    BY <1>2, <1>3, <1>12, <2>1, <2>2, <2>3, OtherFile, ZenonT(60) DEF bootVars
<1>13. FileInv(f)'
  <2>1. boot'[f] = "done" /\ \A w \in Workers : worker'[w].file # f
    BY <1>1, <1>2, ZenonT(60) DEF bootVars, Quiet
  <2>2. Len(queue) + 1 \in 1..Len(queue')
    BY <1>6, <1>7
  <2>3. ~Quiet(f)'
    BY <1>7, <1>8, <2>2, ZenonT(60) DEF Quiet
  <2>4. ASSUME NEW i \in 1..Len(queue'), queue'[i].file = f PROVE queue'[i].op = op
    BY <1>1, <1>7, <1>8, <1>9, <2>4, ZenonT(60) DEF Quiet
  <2>5. \A i \in 1..Len(queue') : queue'[i].file = f => Due(f, queue[i].op)'
    BY <1>5, <2>4 DEF Due
  <2> QED
    BY <1>3, <2>1, <2>3, <2>5, ZenonT(60) DEF FileInv
<1> QED
  BY <1>10, <1>11, <1>12, <1>13, ZenonT(60) DEF Calmly

LEMMA EditCalmly ==
    ASSUME Inv, Calmly, OwnEpochs, discipline = "calm", Edit
    PROVE  Calmly'
<1>1. ASSUME NEW f \in Files, NEW e \in Home[f], NEW q \in Qualities \cup {"garbled"},
             NEW op \in {"Write", "Create"}, Edited({f}, New(f, e, q), <<Event(f, op)>>),
             op = "Create" => disk[f] = None
      PROVE  Calmly'
  <2> DEFINE c == [epoch |-> e, edit |-> edits + 1, quality |-> q, at |-> edits + 1]
  <2>1. Edited({f}, [disk EXCEPT ![f] = c], <<Event(f, op)>>)
    BY <1>1, ZenonT(60) DEF New
  <2>2. c \in Contents
    <3>1. e \in EpochNums /\ edits + 1 \in 0..MaxEdits
      BY <1>1, MaxEditsAssumption DEF EpochNums, Edited, Inv, TypeOK
    <3> QED
      BY <3>1, ZenonT(60) DEF Contents
  <2>3. c # None /\ c.epoch = Own(f)
    <3>1. e = Own(f)
      BY OwnEpoch
    <3> QED
      BY <2>2, <3>1, NoneAssumption, ZenonT(60)
  <2> HIDE DEF c
  <2> QED
    BY <1>1, <2>1, <2>3, EditedCalmly, ZenonT(60)
<1>2. ASSUME NEW f \in Files, RemoveFile(f) PROVE Calmly'
  BY <1>2, EditedCalmly, ZenonT(60) DEF RemoveFile
<1>3. ASSUME NEW f \in Files, NEW g \in Files, RenameFile(f, g) PROVE FALSE
  BY <1>3 DEF RenameFile
<1>4. ASSUME NEW f \in Files, NEW q \in Qualities, NEW e \in Home[f], WriteFile(f, e, q) PROVE Calmly'
  BY <1>1, <1>4, ZenonT(60) DEF WriteFile
<1>5. ASSUME NEW f \in Files, NEW e \in Home[f], CreateFile(f, e) PROVE Calmly'
  BY <1>1, <1>5, ZenonT(60) DEF CreateFile
<1>6. ASSUME NEW f \in Files, NEW q \in Qualities, NEW e \in Home[f], MoveFile(f, e, q) PROVE Calmly'
  BY <1>1, <1>6, ZenonT(60) DEF MoveFile
<1> QED
  BY <1>2, <1>3, <1>4, <1>5, <1>6, ZenonT(60) DEF Edit

LEMMA CalmStep == OwnEpochs /\ Inv /\ CalmInv /\ [Next]_vars => CalmInv'
<1> SUFFICES ASSUME OwnEpochs, Inv, CalmInv, [Next]_vars, discipline' = "calm" PROVE Calmly'
  BY DEF CalmInv
<1>1. discipline = "calm"
  BY ZenonT(60) DEF Next, Edit, WriteFile, CreateFile, MoveFile, RemoveFile, RenameFile, Edited, StartWatch, Stop,
         Boot, BootLoad, BootMetric, Step, Dispatch, Track, Check, Parse, Hash, Build, Install,
         Remove, SetMetric, Untrack, loopVars, vars
<1>2. Calmly
  BY <1>1 DEF CalmInv
<1>3. CASE StartWatch \/ Stop \/ UNCHANGED vars
  <2>1. UNCHANGED <<disk, queue, worker, boot, configs, epochs, metric>>
    BY <1>3, ZenonT(60) DEF StartWatch, Stop, vars, editVars, bootVars
  <2>2. OneEventPerFile' /\ EpochInv'
    BY <1>2, <2>1 DEF Calmly, OneEventPerFile, EpochInv, Loaded
  <2>3. ASSUME NEW f \in Files PROVE FileInv(f)'
    BY <1>2, <2>1, OtherFile, ZenonT(60) DEF Calmly
  <2> QED
    BY <2>2, <2>3, ZenonT(60) DEF Calmly
<1>4. CASE Edit
  BY <1>1, <1>2, <1>4, EditCalmly
<1>5. ASSUME NEW f \in Files, Boot(f) PROVE Calmly'
  BY <1>2, <1>5, BootCalmly
<1>6. ASSUME NEW w \in Workers, Step(w) PROVE Calmly'
  BY <1>2, <1>6, DispatchCalmly, ReadStepCalmly, InstallCalmly, RemoveCalmly, SetMetricCalmly,
     UntrackCalmly DEF Step
<1> QED
  BY <1>3, <1>4, <1>5, <1>6 DEF Next

LEMMA CalmInit == OwnEpochs /\ Init => CalmInv
<1> SUFFICES ASSUME OwnEpochs, Init PROVE Calmly
  BY ZenonT(60) DEF CalmInv
<1>1. queue = <<>> /\ \A w \in Workers : worker[w] = Idle
  BY ZenonT(60) DEF Init
<1>2. Len(queue) = 0 /\ \A w \in Workers : worker[w].file = None
  BY <1>1 DEF Idle
<1>3. OneEventPerFile
  <2>1. \A i \in 1..Len(queue) : FALSE
    BY <1>2
  <2> QED
    BY <1>2, <2>1 DEF OneEventPerFile
<1>4. \A e \in EpochNums : ~Loaded(e) /\ metric[e] = 0
  BY ZenonT(60) DEF Init, Loaded
<1>5. EpochInv
  BY <1>4 DEF EpochInv
<1>6. ASSUME NEW f \in Files PROVE FileInv(f)
  <2>1. Own(f) \in EpochNums /\ Home[f] = {Own(f)}
    BY OwnEpoch
  <2>2. ~Loaded(Own(f)) /\ metric[Own(f)] = 0
    BY <1>4, <2>1, ZenonT(60)
  <2>3. disk[f] # None => disk[f].epoch = Own(f)
    BY <2>1, ZenonT(60) DEF Init
  <2>4. boot[f] = (IF disk[f] = None THEN "done" ELSE "load") /\ configs[f] = disk[f]
    BY ZenonT(60) DEF Init
  <2>5. Quiet(f)
    BY <1>2, NoneAssumption DEF Quiet
  <2>6. boot[f] = "done" => Followed(f)
    BY <2>2, <2>4 DEF Followed, Counted
  <2> QED
    BY <2>2, <2>3, <2>4, <2>5, <2>6, ZenonT(60) DEF FileInv, Quiet
<1> QED
  BY <1>3, <1>5, <1>6 DEF Calmly

LEMMA FollowedWhenSettled == OwnEpochs /\ Inv /\ CalmInv => CalmFollowed
<1> SUFFICES ASSUME OwnEpochs, Inv, CalmInv, discipline = "calm", Settled
             PROVE  CalmFollowed
  BY DEF CalmFollowed, CalmReloaded, CalmRemoved, CalmMetric, Reloaded
<1>1. Calmly
  BY ZenonT(60) DEF CalmInv
<1>2. ASSUME NEW f \in Files PROVE Followed(f) /\ (disk[f] # None => disk[f].epoch = Own(f))
  <2>1. \A w \in Workers : worker[w].file = None
    BY <1>1, ZenonT(60) DEF Settled, Calmly, OneEventPerFile
  <2>2. Quiet(f)
    BY <2>1, NoneAssumption DEF Quiet, Settled
  <2> QED
    BY <1>1, <2>2, ZenonT(60) DEF Settled, Calmly, FileInv
<1>3. Reloaded
  BY <1>2, ZenonT(60) DEF Reloaded, Followed, Served
<1>4. ASSUME NEW e \in EpochNums, Loaded(e)
      PROVE  \E f \in Files : disk[f] # None /\ disk[f].epoch = e
  <2>1. epochs[e] \in Entries
    BY <1>4, ZenonT(60) DEF Loaded, Inv, TypeOK
  <2>2. epochs[e].file \in Files /\ e = Own(epochs[e].file)
    BY <1>1, <1>4, <2>1, ZenonT(60) DEF Entries, Calmly, EpochInv
  <2> QED
    BY <1>2, <1>4, <2>2, ZenonT(60) DEF Followed
<1>5. ASSUME NEW e \in EpochNums \ {0} PROVE metric[e] = 1 <=> Loaded(e)
  <2>1. PICK f \in Files : e \in Home[f]
    BY DEF EpochNums
  <2>2. e = Own(f)
    BY <2>1, OwnEpoch
  <2> QED
    BY <1>2, <1>5, <2>2 DEF Followed, Counted
<1> QED
  BY <1>3, <1>4, <1>5, ZenonT(60) DEF CalmFollowed, CalmReloaded, CalmRemoved, CalmMetric

\* Once the events of calm edits are processed, the epochs served and the gauge
\* EpochsAvailable are those of the config files on disk, when every file keeps
\* to an epoch of its own (as ConfigSlice.Validate demands at startup).
THEOREM CalmIsFollowed ==
    ASSUME OwnEpochs
    PROVE  Spec => []CalmFollowed
<1>1. Init => CalmInv
  BY CalmInit
<1>2. Inv /\ CalmInv /\ [Next]_vars => CalmInv'
  BY CalmStep
<1>3. Inv /\ CalmInv => CalmFollowed
  BY FollowedWhenSettled
<1> QED
  BY WatcherInvariant, <1>1, <1>2, <1>3, PTL DEF Spec
=============================================================================
