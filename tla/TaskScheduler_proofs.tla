------------------------ MODULE TaskScheduler_proofs ------------------------
(***************************************************************************)
(* Proofs about TaskScheduler, for any number of files, loads, edits and   *)
(* restarts.                                                               *)
(***************************************************************************)
EXTENDS TaskScheduler, TLAPS

LoadRecords == [pc : Pcs, name : Names \cup {Nothing}, md : Versions \cup {Nothing},
                config : Configs \cup {Nothing}, boot : BOOLEAN]

(* The parts of TypeOK, by the step that changes them.                       *)
DiskKinds ==
  /\ file \in [Names -> Versions \cup {Nothing}] /\ seen \in [Names -> Versions \cup {Nothing}]
  /\ json \in [Names -> Configs \cup {Nothing}]
  /\ disabled \subseteq Names
  /\ edits \in 0..MaxEdits /\ restarts \in 0..MaxRestarts

TaskKinds ==
  /\ tasks \in [Names -> Tasks \cup {Nothing}]
  /\ \A n \in Names : tasks[n] # Nothing =>
       (tasks[n].next = "never" <=> ~tasks[n].config.scheduled)
  /\ request \in [name : Names, id : Loads] \cup {Nothing}

LoadKinds ==
  /\ configs \subseteq Names
  /\ \A b \in boot : b.name \in Names /\ b.md \in Versions /\ b.json \in Configs \cup {Nothing}
  /\ load \in [Loads -> LoadRecords]
  /\ \A l \in Loads : load[l].pc \in {"writing", "saving", "committing"} =>
       load[l].config # Nothing

(* A load under way knows its file and the version it has read.              *)
LoadsNamed ==
  \A l \in Loads : load[l].pc \notin {"idle", "done"} =>
    load[l].name \in Names /\ load[l].md \in Versions

SchedulerInv == DiskKinds /\ TaskKinds /\ LoadKinds /\ LoadsNamed /\ EnabledAsSet

LEMMA Parts == SchedulerInv => TypeOK
BY DEF SchedulerInv, TypeOK, DiskKinds, TaskKinds, LoadKinds, LoadRecords

LEMMA NothingElse ==
  /\ Nothing \notin Configs /\ Nothing \notin Tasks /\ Nothing \notin Versions
  /\ Nothing \notin Names
BY BoundsAssumption

LEMMA ConfigKinds ==
  /\ \A v \in Versions, b \in BOOLEAN : [of |-> v, scheduled |-> b] \in Configs
  /\ \A v \in Versions : Basic(v) \in Configs
  /\ \A c \in Configs : c.scheduled \in BOOLEAN
BY DEF Configs, Basic

(* The end of a load: a task of the kind it should be, enabled as the        *)
(* settings say at that moment.                                              *)
LEMMA SetTaskKeeps ==
  ASSUME SchedulerInv, NEW l \in Loads, NEW n \in Names, NEW config \in Configs,
         SetTask(l, n, config), UNCHANGED <<disabled, request>>
  PROVE  /\ TaskKinds' /\ EnabledAsSet' /\ LoadsNamed'
         /\ load' = [load EXCEPT ![l] = [Idle EXCEPT !.pc = "done"]]
<1> DEFINE new == [id |-> IF tasks[n] = Nothing THEN l ELSE tasks[n].id, config |-> config,
                   enabled |-> n \notin disabled, next |-> NextRun(config)]
<1>1. tasks' = [tasks EXCEPT ![n] = new]
  BY DEF SetTask, SchedulerInv, TaskKinds
<1>2. new \in Tasks /\ (new.next = "never" <=> ~new.config.scheduled)
  BY NothingElse, ConfigKinds DEF SchedulerInv, TaskKinds, Tasks, NextRun
<1>3. new.enabled <=> n \notin disabled
  OBVIOUS
<1> HIDE DEF new
<1>4. TaskKinds' /\ EnabledAsSet'
  BY <1>1, <1>2, <1>3 DEF SchedulerInv, TaskKinds, EnabledAsSet
<1>5. load' = [load EXCEPT ![l] = [Idle EXCEPT !.pc = "done"]]
  BY DEF SetTask
<1>6. LoadsNamed'
  BY <1>5 DEF SchedulerInv, LoadKinds, LoadsNamed, Idle
<1> QED
  BY <1>4, <1>5, <1>6

LEMMA DoneKeeps ==
  ASSUME SchedulerInv, NEW l \in Loads,
         load' = [load EXCEPT ![l] = [Idle EXCEPT !.pc = "done"]],
         configs' \subseteq Names, boot' \subseteq boot
  PROVE  LoadKinds' /\ LoadsNamed'
<1>1. [Idle EXCEPT !.pc = "done"] \in LoadRecords
  BY DEF Idle, Pcs, LoadRecords
<1> QED
  BY <1>1 DEF SchedulerInv, LoadKinds, LoadsNamed, Idle

(* A load that moves on keeps its file.                                      *)
LEMMA MoveKeeps ==
  ASSUME SchedulerInv, NEW l \in Loads,
         load' \in [Loads -> LoadRecords], \A k \in Loads \ {l} : load'[k] = load[k],
         load'[l].name \in Names, load'[l].md \in Versions,
         load'[l].pc \in {"writing", "saving", "committing"} => load'[l].config # Nothing,
         configs' \subseteq Names, boot' \subseteq boot
  PROVE  LoadKinds' /\ LoadsNamed'
<1>1. LoadsNamed'
  BY DEF SchedulerInv, LoadsNamed
<1>2. \A k \in Loads : load'[k].pc \in {"writing", "saving", "committing"} =>
        load'[k].config # Nothing
  BY DEF SchedulerInv, LoadKinds
<1>3. \A x \in boot' : x.name \in Names /\ x.md \in Versions /\ x.json \in Configs \cup {Nothing}
  BY DEF SchedulerInv, LoadKinds
<1> QED
  BY <1>1, <1>2, <1>3 DEF LoadKinds, LoadRecords

LEMMA InitKeeps == Init => SchedulerInv
<1> SUFFICES ASSUME Init PROVE SchedulerInv
  OBVIOUS
<1>1. 1 \in Versions /\ MaxEdits \in Nat /\ MaxRestarts \in Nat
  BY BoundsAssumption DEF Versions
<1>2. [of |-> 1, scheduled |-> TRUE] \in Configs
  BY <1>1, ConfigKinds
<1>3. DiskKinds
  <2>1. {Nothing, 1} \subseteq Versions \cup {Nothing}
        /\ {Nothing, [of |-> 1, scheduled |-> TRUE]} \subseteq Configs \cup {Nothing}
    BY <1>1, <1>2
  <2>2. file \in [Names -> {Nothing, 1}] /\ seen = file
        /\ json \in [Names -> {Nothing, [of |-> 1, scheduled |-> TRUE]}]
    BY DEF Init
  <2>3. file \in [Names -> Versions \cup {Nothing}] /\ seen \in [Names -> Versions \cup {Nothing}]
    BY <2>1, <2>2
  <2>4. json \in [Names -> Configs \cup {Nothing}]
    BY <2>1, <2>2, Zenon
  <2>5. disabled \subseteq Names /\ edits \in 0..MaxEdits /\ restarts \in 0..MaxRestarts
    BY <1>1 DEF Init
  <2> QED
    BY <2>3, <2>4, <2>5 DEF DiskKinds
<1>4. TaskKinds /\ EnabledAsSet
  BY DEF Init, TaskKinds, EnabledAsSet
<1>5. LoadsNamed
  BY DEF Init, LoadsNamed, Idle
<1>6. LoadKinds
  BY <1>3 DEF Init, LoadKinds, DiskKinds, Existing, Idle, Pcs, LoadRecords
<1> QED
  BY <1>3, <1>4, <1>5, <1>6 DEF SchedulerInv

(* loadTask, by its two ways.                                                *)
LEMMA LoadTaskKeeps ==
  ASSUME SchedulerInv, NEW l \in Loads, NEW n \in Names, NEW md \in Versions,
         NEW cached \in Configs \cup {Nothing}, NEW booting \in BOOLEAN,
         LoadTask(l, n, md, cached, booting), UNCHANGED <<disabled, request>>,
         configs' \subseteq Names, boot' \subseteq boot
  PROVE  TaskKinds' /\ EnabledAsSet' /\ LoadKinds' /\ LoadsNamed'
<1>1. CASE cached # Nothing
  <2>1. cached \in Configs /\ SetTask(l, n, cached)
    BY <1>1 DEF LoadTask
  <2> QED
    BY <2>1, SetTaskKeeps, DoneKeeps
<1>2. CASE cached = Nothing
  <2>1. load' = [load EXCEPT ![l] = [pc |-> "parsing", name |-> n, md |-> md,
                                     config |-> Nothing, boot |-> booting]]
        /\ tasks' = tasks
    BY <1>2 DEF LoadTask
  <2>2. LoadKinds' /\ LoadsNamed'
    <3>1. load \in [Loads -> LoadRecords]
      BY DEF SchedulerInv, LoadKinds
    <3>2. /\ load' \in [Loads -> LoadRecords] /\ \A k \in Loads \ {l} : load'[k] = load[k]
          /\ load'[l].name = n /\ load'[l].md = md /\ load'[l].pc = "parsing"
      BY <2>1, <3>1 DEF LoadRecords, Pcs
    <3> QED
      BY <3>2, MoveKeeps
  <2>3. TaskKinds' /\ EnabledAsSet'
    BY <2>1 DEF SchedulerInv, TaskKinds, EnabledAsSet
  <2> QED
    BY <2>2, <2>3
<1> QED
  BY <1>1, <1>2

(* A load under way has its kind, and moves as MoveKeeps says.               *)
LEMMA UnderWay ==
  ASSUME SchedulerInv, NEW l \in Loads, load[l].pc \notin {"idle", "done"}
  PROVE  /\ load[l].name \in Names /\ load[l].md \in Versions /\ load[l].boot \in BOOLEAN
         /\ load[l].config \in Configs \cup {Nothing}
         /\ Basic(load[l].md) \in Configs
         /\ load[l].pc \in {"writing", "saving", "committing"} => load[l].config \in Configs
<1>1. load[l].name \in Names /\ load[l].md \in Versions
  BY DEF SchedulerInv, LoadsNamed
<1>2. load[l] \in LoadRecords
  BY DEF SchedulerInv, LoadKinds
<1>3. load[l].pc \in {"writing", "saving", "committing"} => load[l].config # Nothing
  BY DEF SchedulerInv, LoadKinds
<1> QED
  BY <1>1, <1>2, <1>3, ConfigKinds DEF LoadRecords

LEMMA UpdateKeeps ==
  ASSUME SchedulerInv, NEW l \in Loads, NEW config \in Configs, NEW pc \in {"writing", "saving"},
         load[l].pc \notin {"idle", "done"}, Update(l, config, pc),
         UNCHANGED <<disabled, request, configs, boot>>
  PROVE  TaskKinds' /\ EnabledAsSet' /\ LoadKinds' /\ LoadsNamed'
<1>1. configs' \subseteq Names /\ boot' \subseteq boot
  BY DEF SchedulerInv, LoadKinds
<1>2. CASE load[l].name \in configs
  <2>1. load' = [load EXCEPT ![l].pc = pc, ![l].config = config] /\ tasks' = tasks
    BY <1>2 DEF Update
  <2>2. load[l].name \in Names /\ load[l].md \in Versions /\ load \in [Loads -> LoadRecords]
    BY UnderWay DEF SchedulerInv, LoadKinds
  <2>3. config # Nothing /\ pc \in Pcs
    BY NothingElse DEF Pcs
  <2>4. /\ load' \in [Loads -> LoadRecords] /\ \A k \in Loads \ {l} : load'[k] = load[k]
        /\ load'[l].name = load[l].name /\ load'[l].md = load[l].md
        /\ load'[l].config = config
    BY <2>1, <2>2, <2>3 DEF LoadRecords
  <2>5. LoadKinds' /\ LoadsNamed'
    BY <1>1, <2>2, <2>3, <2>4, MoveKeeps
  <2>6. TaskKinds' /\ EnabledAsSet'
    BY <2>1 DEF SchedulerInv, TaskKinds, EnabledAsSet
  <2> QED
    BY <2>5, <2>6
<1>3. CASE load[l].name \notin configs
  <2>1. SetTask(l, load[l].name, Basic(load[l].md))
    BY <1>3 DEF Update
  <2> QED
    BY <1>1, <2>1, UnderWay, SetTaskKeeps, DoneKeeps
<1> QED
  BY <1>2, <1>3

(* The steps of a load change nothing on disk but the .json.                 *)
LEMMA DiskStays ==
  ASSUME SchedulerInv, UNCHANGED <<disk, seen, edits, restarts>>
  PROVE  DiskKinds'
BY DEF SchedulerInv, DiskKinds, disk

LEMMA LoadStepKeeps ==
  ASSUME SchedulerInv, NEW l \in Loads,
         ReadJson(l) \/ ReadFails(l) \/ Parse(l) \/ Write(l) \/ Committed(l)
  PROVE  SchedulerInv'
<1>0. configs \subseteq Names
  BY DEF SchedulerInv, LoadKinds
<1>1. CASE ReadJson(l)
  <2>1. /\ load[l].pc \notin {"idle", "done"} /\ configs' = configs \cup {load[l].name}
        /\ LoadTask(l, load[l].name, load[l].md, json[load[l].name], FALSE)
        /\ UNCHANGED <<disabled, request, boot>> /\ UNCHANGED <<disk, seen, edits, restarts>>
    BY <1>1 DEF ReadJson, disk
  <2>2. load[l].name \in Names /\ load[l].md \in Versions
    BY <2>1, UnderWay
  <2>3. json[load[l].name] \in Configs \cup {Nothing}
    BY <2>2 DEF SchedulerInv, DiskKinds
  <2>4. configs' \subseteq Names /\ boot' \subseteq boot
    BY <1>0, <2>1, <2>2
  <2>5. TaskKinds' /\ EnabledAsSet' /\ LoadKinds' /\ LoadsNamed'
    BY <2>1, <2>2, <2>3, <2>4, LoadTaskKeeps
  <2> QED
    BY <2>1, <2>5, DiskStays DEF SchedulerInv
<1>2. CASE ReadFails(l)
  <2>1. /\ load' = [load EXCEPT ![l] = [Idle EXCEPT !.pc = "done"]]
        /\ UNCHANGED <<disabled, request, boot, configs, tasks>>
        /\ UNCHANGED <<disk, seen, edits, restarts>>
    BY <1>2 DEF ReadFails, disk
  <2>2. LoadKinds' /\ LoadsNamed'
    BY <1>0, <2>1, DoneKeeps
  <2>3. TaskKinds' /\ EnabledAsSet'
    BY <2>1 DEF SchedulerInv, TaskKinds, EnabledAsSet
  <2> QED
    BY <2>1, <2>2, <2>3, DiskStays DEF SchedulerInv
<1>3. CASE Parse(l)
  <2>1. /\ load[l].pc = "parsing"
        /\ UNCHANGED <<disabled, request, configs, boot>> /\ UNCHANGED <<disk, seen, edits, restarts>>
    BY <1>3 DEF Parse, ParseSucceeds, ParseFails, disk
  <2>2. load[l].md \in Versions /\ Basic(load[l].md) \in Configs
    BY <2>1, UnderWay
  <2>3. PICK config \in Configs, pc \in {"writing", "saving"} : Update(l, config, pc)
    BY <1>3, <2>2, ConfigKinds DEF Parse, ParseSucceeds, ParseFails
  <2>4. TaskKinds' /\ EnabledAsSet' /\ LoadKinds' /\ LoadsNamed'
    BY <2>1, <2>3, UpdateKeeps
  <2> QED
    BY <2>1, <2>4, DiskStays DEF SchedulerInv
<1>4. CASE Written(l)
  <2>1. /\ load[l].pc \in {"writing", "saving"}
        /\ json' = [json EXCEPT ![load[l].name] = load[l].config]
        /\ configs' = configs \cup {load[l].name}
        /\ load' = [load EXCEPT ![l].pc = "committing"]
        /\ UNCHANGED <<file, disabled, seen, boot, tasks, request, edits, restarts>>
    BY <1>4 DEF Written
  <2>2. /\ load[l].name \in Names /\ load[l].md \in Versions /\ load[l].boot \in BOOLEAN
        /\ load[l].config \in Configs
    BY <2>1, UnderWay
  <2>3. DiskKinds'
    BY <2>1, <2>2 DEF SchedulerInv, DiskKinds
  <2>4. configs' \subseteq Names /\ boot' \subseteq boot /\ load[l].config # Nothing
        /\ "committing" \in Pcs /\ load \in [Loads -> LoadRecords]
    BY <1>0, <2>1, <2>2, NothingElse DEF Pcs, SchedulerInv, LoadKinds
  <2>5. /\ load' \in [Loads -> LoadRecords] /\ \A k \in Loads \ {l} : load'[k] = load[k]
        /\ load'[l].name = load[l].name /\ load'[l].md = load[l].md
        /\ load'[l].config = load[l].config
    BY <2>1, <2>4 DEF LoadRecords
  <2>6. LoadKinds' /\ LoadsNamed'
    BY <2>2, <2>4, <2>5, MoveKeeps
  <2>7. TaskKinds' /\ EnabledAsSet'
    BY <2>1 DEF SchedulerInv, TaskKinds, EnabledAsSet
  <2> QED
    BY <2>3, <2>6, <2>7 DEF SchedulerInv
<1>5. CASE WriteFails(l)
  <2>1. /\ UNCHANGED <<disabled, request, configs, boot>>
        /\ UNCHANGED <<disk, seen, edits, restarts>>
    BY <1>5 DEF WriteFails, disk
  <2>2. CASE load[l].pc = "writing" /\ Update(l, Basic(load[l].md), "saving")
    BY <2>1, <2>2, UnderWay, UpdateKeeps, DiskStays DEF SchedulerInv
  <2>3. CASE load[l].pc = "saving" /\ SetTask(l, load[l].name, load[l].config)
    BY <1>0, <2>1, <2>3, UnderWay, SetTaskKeeps, DoneKeeps, DiskStays DEF SchedulerInv
  <2> QED
    BY <1>5, <2>2, <2>3 DEF WriteFails
<1>6. CASE Committed(l)
  <2>1. /\ load[l].pc = "committing" /\ SetTask(l, load[l].name, load[l].config)
        /\ UNCHANGED <<disabled, request, configs, boot>>
        /\ UNCHANGED <<disk, seen, edits, restarts>>
    BY <1>6 DEF Committed, disk
  <2> QED
    BY <1>0, <2>1, UnderWay, SetTaskKeeps, DoneKeeps, DiskStays DEF SchedulerInv
<1> QED
  BY <1>1, <1>2, <1>3, <1>4, <1>5, <1>6 DEF Write

(* The watcher and init.                                                     *)
LEMMA ReportKeeps ==
  ASSUME SchedulerInv, BootNext \/ \E n \in Names : Unlink(n) \/ AddOrChange(n)
  PROVE  SchedulerInv'
<1>0. configs \subseteq Names /\ load \in [Loads -> LoadRecords]
  BY DEF SchedulerInv, LoadKinds
<1>1. CASE BootNext
  <2>1. PICK b \in boot, l \in Loads : boot' = boot \ {b} /\ LoadTask(l, b.name, b.md, b.json, TRUE)
    BY <1>1 DEF BootNext
  <2>2. b.name \in Names /\ b.md \in Versions /\ b.json \in Configs \cup {Nothing}
    BY DEF SchedulerInv, LoadKinds
  <2>3. /\ UNCHANGED <<disabled, request, configs>> /\ UNCHANGED <<disk, seen, edits, restarts>>
        /\ configs' \subseteq Names /\ boot' \subseteq boot
    BY <1>0, <1>1, <2>1 DEF BootNext, disk
  <2> QED
    BY <2>1, <2>2, <2>3, LoadTaskKeeps, DiskStays DEF SchedulerInv
<1>2. ASSUME NEW n \in Names, Unlink(n)
      PROVE  SchedulerInv'
  <2>1. DiskKinds'
    BY <1>2 DEF SchedulerInv, DiskKinds, Unlink, disk
  <2>2. TaskKinds' /\ EnabledAsSet'
    BY <1>2 DEF SchedulerInv, TaskKinds, EnabledAsSet, Unlink, disk
  <2>3. LoadKinds' /\ LoadsNamed'
    BY <1>2 DEF SchedulerInv, LoadKinds, LoadsNamed, Unlink
  <2> QED
    BY <2>1, <2>2, <2>3 DEF SchedulerInv
<1>3. ASSUME NEW n \in Names, AddOrChange(n)
      PROVE  SchedulerInv'
  <2>1. file[n] \in Versions
    BY <1>3 DEF SchedulerInv, DiskKinds, AddOrChange
  <2>2. DiskKinds'
    BY <1>3, <2>1 DEF SchedulerInv, DiskKinds, AddOrChange, disk
  <2>3. TaskKinds' /\ EnabledAsSet'
    BY <1>3 DEF SchedulerInv, TaskKinds, EnabledAsSet, AddOrChange, disk
  <2>4. PICK l \in Loads :
          load' = [load EXCEPT ![l] = [pc |-> "reading", name |-> n, md |-> file[n],
                                       config |-> Nothing, boot |-> FALSE]]
    BY <1>3 DEF AddOrChange
  <2>5. /\ load' \in [Loads -> LoadRecords] /\ \A k \in Loads \ {l} : load'[k] = load[k]
        /\ load'[l].name = n /\ load'[l].md = file[n] /\ load'[l].pc = "reading"
    BY <1>0, <2>1, <2>4 DEF LoadRecords, Pcs
  <2>6. configs' \subseteq Names /\ boot' \subseteq boot
    BY <1>0, <1>3 DEF AddOrChange
  <2>7. LoadKinds' /\ LoadsNamed'
    BY <2>1, <2>5, <2>6, MoveKeeps
  <2> QED
    BY <2>2, <2>3, <2>7 DEF SchedulerInv
<1> QED
  BY <1>1, <1>2, <1>3

(* A task whose time to run changes as its config says stays what it is.     *)
LEMMA MarkKeeps ==
  ASSUME SchedulerInv, NEW t \in Tasks, t.next = "never" <=> ~t.config.scheduled
  PROVE  /\ [t EXCEPT !.next = NextRun(t.config)] \in Tasks
         /\ [t EXCEPT !.next = NextRun(t.config)].config = t.config
         /\ [t EXCEPT !.next = NextRun(t.config)].enabled = t.enabled
         /\ [t EXCEPT !.next = NextRun(t.config)].next = "never" <=> ~t.config.scheduled
BY DEF Tasks, NextRun

(* Tasks that are marked, whichever they are.                                *)
LEMMA MarksKeep ==
  ASSUME SchedulerInv, NEW Marked \in SUBSET {n \in Names : tasks[n] # Nothing},
         tasks' = [n \in Names |-> IF n \in Marked
                                   THEN [tasks[n] EXCEPT !.next = NextRun(tasks[n].config)]
                                   ELSE tasks[n]],
         request' = request \/ request' = Nothing,
         UNCHANGED <<disk, seen, configs, boot, load, edits, restarts>>
  PROVE  SchedulerInv'
<1>1. ASSUME NEW n \in Names
      PROVE  /\ tasks'[n] \in Tasks \cup {Nothing}
             /\ tasks'[n] # Nothing =>
                  /\ tasks'[n].next = "never" <=> ~tasks'[n].config.scheduled
                  /\ tasks'[n].enabled <=> n \notin disabled
  <2>1. CASE n \in Marked
    <3>1. tasks[n] \in Tasks /\ (tasks[n].next = "never" <=> ~tasks[n].config.scheduled)
          /\ (tasks[n].enabled <=> n \notin disabled)
      BY <2>1 DEF SchedulerInv, TaskKinds, EnabledAsSet
    <3>2. tasks'[n] = [tasks[n] EXCEPT !.next = NextRun(tasks[n].config)]
      BY <2>1
    <3> QED
      BY <3>1, <3>2, MarkKeeps
  <2>2. CASE n \notin Marked
    BY <2>2 DEF SchedulerInv, TaskKinds, EnabledAsSet
  <2> QED
    BY <2>1, <2>2
<1>2. TaskKinds' /\ EnabledAsSet'
  BY <1>1 DEF SchedulerInv, TaskKinds, EnabledAsSet, disk
<1>3. LoadKinds' /\ LoadsNamed'
  BY DEF SchedulerInv, LoadKinds, LoadsNamed
<1> QED
  BY <1>2, <1>3, DiskStays DEF SchedulerInv

LEMMA TimerKeeps ==
  ASSUME SchedulerInv, CheckDueTasks \/ RunTask
  PROVE  SchedulerInv'
<1>1. CASE CheckDueTasks
  <2> DEFINE Marked == {n \in Names : Due(n)}
  <2>1. Marked \in SUBSET {n \in Names : tasks[n] # Nothing}
    BY DEF Due
  <2> QED
    BY <1>1, <2>1, MarksKeep DEF CheckDueTasks
<1>2. CASE RunTask
  <2> DEFINE Marked == {n \in Names :
               tasks[n] # Nothing /\ n = request.name /\ tasks[n].id = request.id}
  <2>1. Marked \in SUBSET {n \in Names : tasks[n] # Nothing}
    OBVIOUS
  <2> QED
    BY <1>2, <2>1, MarksKeep DEF RunTask
<1> QED
  BY <1>1, <1>2

(* Time, the user and the person who edits the files.                        *)
LEMMA PersonKeeps ==
  ASSUME SchedulerInv, NEW n \in Names,
         BecomesDue(n) \/ RunRequest(n) \/ WriteFile(n)
           \/ \E enabled \in BOOLEAN : SetTaskEnabled(n, enabled)
  PROVE  SchedulerInv'
<1>1. CASE BecomesDue(n)
  <2>1. /\ tasks[n] \in Tasks /\ tasks[n].next = "later" /\ tasks[n].config.scheduled
        /\ tasks' = [tasks EXCEPT ![n].next = "due"] /\ tasks \in [Names -> Tasks \cup {Nothing}]
        /\ UNCHANGED <<disk, seen, configs, boot, load, request, edits, restarts>>
    BY <1>1 DEF BecomesDue, SchedulerInv, TaskKinds
  <2>2. /\ tasks' \in [Names -> Tasks \cup {Nothing}]
        /\ \A k \in Names \ {n} : tasks'[k] = tasks[k]
        /\ tasks'[n].next = "due" /\ tasks'[n].config = tasks[n].config
        /\ tasks'[n].enabled = tasks[n].enabled
    BY <2>1 DEF Tasks
  <2>3. TaskKinds' /\ EnabledAsSet'
    BY <2>1, <2>2, NothingElse DEF SchedulerInv, TaskKinds, EnabledAsSet, disk
  <2> QED
    BY <2>1, <2>3, DiskStays DEF SchedulerInv, LoadKinds, LoadsNamed
<1>2. CASE RunRequest(n)
  <2>1. tasks[n] \in Tasks /\ request' = [name |-> n, id |-> tasks[n].id]
        /\ UNCHANGED <<disk, seen, configs, boot, load, tasks, edits, restarts>>
    BY <1>2 DEF RunRequest, SchedulerInv, TaskKinds
  <2>2. TaskKinds' /\ EnabledAsSet'
    BY <2>1 DEF SchedulerInv, TaskKinds, EnabledAsSet, Tasks, disk
  <2> QED
    BY <2>1, <2>2, DiskStays DEF SchedulerInv, LoadKinds, LoadsNamed
<1>3. CASE WriteFile(n)
  <2>1. edits \in Nat /\ edits < MaxEdits /\ edits' = edits + 1 /\ MaxEdits \in Nat
    BY <1>3, BoundsAssumption DEF WriteFile, SchedulerInv, DiskKinds
  <2>2. edits + 2 \in Versions /\ edits' \in 0..MaxEdits
    BY <2>1 DEF Versions
  <2>3. DiskKinds'
    BY <1>3, <2>2 DEF WriteFile, SchedulerInv, DiskKinds
  <2>4. UNCHANGED <<disabled, configs, boot, load, tasks, request>>
    BY <1>3 DEF WriteFile
  <2> QED
    BY <2>3, <2>4 DEF SchedulerInv, TaskKinds, LoadKinds, LoadsNamed, EnabledAsSet
<1>4. ASSUME NEW enabled \in BOOLEAN, SetTaskEnabled(n, enabled)
      PROVE  SchedulerInv'
  <2>1. /\ tasks[n] \in Tasks /\ tasks' = [tasks EXCEPT ![n].enabled = enabled]
        /\ tasks \in [Names -> Tasks \cup {Nothing}]
        /\ disabled' = (IF enabled THEN disabled \ {n} ELSE disabled \cup {n})
        /\ UNCHANGED <<file, json, seen, configs, boot, load, request, edits, restarts>>
    BY <1>4 DEF SetTaskEnabled, SchedulerInv, TaskKinds
  <2>2. /\ tasks' \in [Names -> Tasks \cup {Nothing}]
        /\ \A k \in Names \ {n} : tasks'[k] = tasks[k]
        /\ tasks'[n].next = tasks[n].next /\ tasks'[n].config = tasks[n].config
        /\ tasks'[n].enabled = enabled
    BY <2>1 DEF Tasks
  <2>3. TaskKinds'
    BY <2>1, <2>2, NothingElse DEF SchedulerInv, TaskKinds
  <2>4. EnabledAsSet'
    BY <2>1, <2>2 DEF SchedulerInv, EnabledAsSet
  <2>5. DiskKinds' /\ LoadKinds' /\ LoadsNamed'
    BY <2>1 DEF SchedulerInv, DiskKinds, LoadKinds, LoadsNamed
  <2> QED
    BY <2>3, <2>4, <2>5 DEF SchedulerInv
<1> QED
  BY <1>1, <1>2, <1>3, <1>4

(* A restart forgets everything but the disk, which is all that the loads it *)
(* begins with come from.                                                    *)
LEMMA RestartKeeps ==
  ASSUME SchedulerInv, Restart
  PROVE  SchedulerInv'
<1>1. DiskKinds'
  BY BoundsAssumption DEF SchedulerInv, DiskKinds, Restart, disk
<1>2. TaskKinds' /\ EnabledAsSet'
  BY DEF Restart, TaskKinds, EnabledAsSet
<1>3. LoadsNamed'
  BY DEF Restart, LoadsNamed, Idle
<1>4. LoadKinds'
  BY DEF Restart, LoadKinds, SchedulerInv, DiskKinds, Existing, Idle, Pcs, LoadRecords
<1> QED
  BY <1>1, <1>2, <1>3, <1>4 DEF SchedulerInv

LEMMA NextKeeps == SchedulerInv /\ [Next]_vars => SchedulerInv'
<1> SUFFICES ASSUME SchedulerInv, [Next]_vars
             PROVE  SchedulerInv'
  OBVIOUS
<1>1. CASE UNCHANGED vars
  BY <1>1 DEF vars, disk, SchedulerInv, DiskKinds, TaskKinds, LoadKinds, LoadsNamed, EnabledAsSet
<1>2. CASE Next
  BY <1>2, ReportKeeps, LoadStepKeeps, TimerKeeps, PersonKeeps, RestartKeeps DEF Next
<1> QED
  BY <1>1, <1>2

(* Every variable keeps its kind of value, and a task has a time to run      *)
(* exactly if its config has a schedule, however loads overlap and fail.     *)
THEOREM TypeCorrect == Spec => []TypeOK
BY InitKeeps, NextKeeps, Parts, PTL DEF Spec

(* A task is enabled exactly if the user's settings do not list it, through  *)
(* every load, removal and restart.                                          *)
THEOREM EnabledCorrect == Spec => []EnabledAsSet
<1>1. SchedulerInv => EnabledAsSet
  BY DEF SchedulerInv
<1> QED
  BY <1>1, InitKeeps, NextKeeps, PTL DEF Spec
-----------------------------------------------------------------------------
(* Why every file has its task in the end: a version that the watcher has    *)
(* reported, and that is still the one on disk, has its task or something    *)
(* that will load it, a config init has kept or a load under way.            *)
UnderWayFor(l, n) == load[l].name = n /\ load[l].pc \notin {"idle", "done"}

Coming(n) ==
  \/ tasks[n] # Nothing
  \/ \E b \in boot : b.name = n
  \/ \E l \in Loads : UnderWayFor(l, n)

(* A version is written once, so that a file that is written again is not    *)
(* taken for one that was reported.                                          *)
VersionsGrow ==
  \A n \in Names : /\ file[n] # Nothing => file[n] <= edits + 1
                   /\ seen[n] # Nothing => seen[n] <= edits + 1

ReportedComes == \A n \in Names : file[n] # Nothing /\ seen[n] = file[n] => Coming(n)

LoadedInv == VersionsGrow /\ ReportedComes

LEMMA LoadedFirst == Init => LoadedInv
<1> SUFFICES ASSUME Init PROVE LoadedInv
  OBVIOUS
<1>1. VersionsGrow
  BY DEF Init, VersionsGrow
<1>2. ASSUME NEW n \in Names, file[n] # Nothing
      PROVE  Coming(n)
  <2>1. [name |-> n, md |-> file[n], json |-> json[n]] \in boot
    BY <1>2 DEF Init, Existing
  <2> QED
    BY <2>1 DEF Coming
<1> QED
  BY <1>1, <1>2 DEF LoadedInv, ReportedComes

(* A step that writes and reports no file keeps the invariant if it leaves   *)
(* coming what was.                                                          *)
LEMMA ComingStays ==
  ASSUME LoadedInv, UNCHANGED <<file, seen, edits>>,
         \A n \in Names : file[n] # Nothing /\ seen[n] = file[n] /\ Coming(n) => Coming(n)'
  PROVE  LoadedInv'
BY DEF LoadedInv, VersionsGrow, ReportedComes

(* The end of a load leaves its task behind; others are where they were.     *)
LEMMA EndLeavesTask ==
  ASSUME SchedulerInv, NEW l \in Loads, NEW n \in Names, NEW config \in Configs,
         load[l].name = n \/ load[l].pc \in {"idle", "done"}, SetTask(l, n, config),
         \A b \in boot : b.name = n \/ b \in boot'
  PROVE  \A k \in Names : Coming(k) => Coming(k)'
<1> DEFINE new == [id |-> IF tasks[n] = Nothing THEN l ELSE tasks[n].id, config |-> config,
                   enabled |-> n \notin disabled, next |-> NextRun(config)]
<1>1. tasks' = [tasks EXCEPT ![n] = new] /\ tasks \in [Names -> Tasks \cup {Nothing}]
  BY DEF SetTask, SchedulerInv, TaskKinds
<1>2. new # Nothing
  <2>1. new \in Tasks
    BY NothingElse, ConfigKinds DEF SchedulerInv, TaskKinds, Tasks, NextRun
  <2> QED
    BY <2>1, NothingElse
<1> HIDE DEF new
<1>3. tasks'[n] # Nothing /\ \A k \in Names \ {n} : tasks'[k] = tasks[k]
  BY <1>1, <1>2
<1>4. load \in [Loads -> LoadRecords] /\ \A j \in Loads \ {l} : load'[j] = load[j]
  BY DEF SetTask, SchedulerInv, LoadKinds
<1>5. ASSUME NEW k \in Names, Coming(k), k # n
      PROVE  Coming(k)'
  <2>1. ~UnderWayFor(l, k)
    BY <1>5 DEF UnderWayFor
  <2> QED
    BY <1>3, <1>4, <1>5, <2>1 DEF Coming, UnderWayFor
<1>6. Coming(n)'
  BY <1>3 DEF Coming
<1> QED
  BY <1>5, <1>6

(* A load that goes on is still under way.                                   *)
LEMMA GoesOn ==
  ASSUME NEW l \in Loads, NEW n \in Names, tasks' = tasks,
         \A j \in Loads \ {l} : load'[j] = load[j],
         load[l].name = n \/ load[l].pc \in {"idle", "done"},
         load'[l].name = n, load'[l].pc \notin {"idle", "done"},
         \A b \in boot : b.name = n \/ b \in boot'
  PROVE  \A k \in Names : Coming(k) => Coming(k)'
<1>1. Coming(n)'
  BY DEF Coming, UnderWayFor
<1>2. ASSUME NEW k \in Names, Coming(k), k # n
      PROVE  Coming(k)'
  <2>1. ~UnderWayFor(l, k)
    BY <1>2 DEF UnderWayFor
  <2> QED
    BY <1>2, <2>1 DEF Coming, UnderWayFor
<1> QED
  BY <1>1, <1>2

LEMMA LoadTaskComes ==
  ASSUME SchedulerInv, NEW l \in Loads, NEW n \in Names, NEW md \in Versions,
         NEW cached \in Configs \cup {Nothing}, NEW booting \in BOOLEAN,
         load[l].name = n \/ load[l].pc \in {"idle", "done"},
         LoadTask(l, n, md, cached, booting), \A b \in boot : b.name = n \/ b \in boot'
  PROVE  \A k \in Names : Coming(k) => Coming(k)'
<1>1. CASE cached # Nothing
  <2>1. cached \in Configs /\ SetTask(l, n, cached)
    BY <1>1 DEF LoadTask
  <2> QED
    BY <2>1, EndLeavesTask
<1>2. CASE cached = Nothing
  <2>1. load' = [load EXCEPT ![l] = [pc |-> "parsing", name |-> n, md |-> md,
                                     config |-> Nothing, boot |-> booting]]
        /\ tasks' = tasks /\ load \in [Loads -> LoadRecords]
    BY <1>2 DEF LoadTask, SchedulerInv, LoadKinds
  <2>2. /\ \A j \in Loads \ {l} : load'[j] = load[j]
        /\ load'[l].name = n /\ load'[l].pc = "parsing"
    BY <2>1
  <2> QED
    BY <2>1, <2>2, GoesOn
<1> QED
  BY <1>1, <1>2

LEMMA UpdateComes ==
  ASSUME SchedulerInv, NEW l \in Loads, NEW config \in Configs, NEW pc \in {"writing", "saving"},
         load[l].pc \notin {"idle", "done"}, Update(l, config, pc), boot' = boot
  PROVE  \A k \in Names : Coming(k) => Coming(k)'
<1>0. load[l].name \in Names /\ load[l].md \in Versions /\ Basic(load[l].md) \in Configs
      /\ load \in [Loads -> LoadRecords]
  BY UnderWay DEF SchedulerInv, LoadKinds
<1>1. CASE load[l].name \in configs
  <2>1. load' = [load EXCEPT ![l].pc = pc, ![l].config = config] /\ tasks' = tasks
    BY <1>1 DEF Update
  <2>2. /\ \A j \in Loads \ {l} : load'[j] = load[j]
        /\ load'[l].name = load[l].name /\ load'[l].pc = pc
    BY <1>0, <2>1 DEF LoadRecords
  <2> QED
    BY <1>0, <2>1, <2>2, GoesOn
<1>2. CASE load[l].name \notin configs
  <2>1. SetTask(l, load[l].name, Basic(load[l].md))
    BY <1>2 DEF Update
  <2> QED
    BY <1>0, <2>1, EndLeavesTask
<1> QED
  BY <1>1, <1>2

LEMMA LoadStepComes ==
  ASSUME SchedulerInv, LoadedInv, NEW l \in Loads,
         ReadJson(l) \/ ReadFails(l) \/ Parse(l) \/ Write(l) \/ Committed(l)
  PROVE  LoadedInv'
<1>0. UNCHANGED <<file, seen, edits>> /\ boot' = boot
  BY DEF ReadJson, ReadFails, Parse, ParseSucceeds, ParseFails, Write, Written, WriteFails,
         Committed, disk
<1>1. CASE ReadJson(l)
  <2>1. load[l].name \in Names /\ load[l].md \in Versions
        /\ LoadTask(l, load[l].name, load[l].md, json[load[l].name], FALSE)
    BY <1>1, UnderWay DEF ReadJson
  <2>2. json[load[l].name] \in Configs \cup {Nothing}
    BY <2>1 DEF SchedulerInv, DiskKinds
  <2> QED
    BY <1>0, <2>1, <2>2, LoadTaskComes, ComingStays
<1>2. CASE ReadFails(l)
  <2>1. /\ load' = [load EXCEPT ![l] = [Idle EXCEPT !.pc = "done"]] /\ tasks' = tasks
        /\ load \in [Loads -> LoadRecords] /\ file[load[l].name] = Nothing
    BY <1>2 DEF ReadFails, SchedulerInv, LoadKinds
  <2>2. \A k \in Names : file[k] # Nothing /\ Coming(k) => Coming(k)'
    BY <1>0, <2>1 DEF Coming, UnderWayFor
  <2> QED
    BY <1>0, <2>2, ComingStays
<1>3. CASE Parse(l)
  <2>1. load[l].pc = "parsing"
    BY <1>3 DEF Parse, ParseSucceeds, ParseFails
  <2>2. load[l].md \in Versions /\ Basic(load[l].md) \in Configs
    BY <2>1, UnderWay
  <2>3. PICK config \in Configs, pc \in {"writing", "saving"} : Update(l, config, pc)
    BY <1>3, <2>2, ConfigKinds DEF Parse, ParseSucceeds, ParseFails
  <2> QED
    BY <1>0, <2>1, <2>3, UpdateComes, ComingStays
<1>4. CASE Written(l)
  <2>1. /\ load[l].pc \in {"writing", "saving"} /\ tasks' = tasks
        /\ load' = [load EXCEPT ![l].pc = "committing"] /\ load \in [Loads -> LoadRecords]
    BY <1>4 DEF Written, SchedulerInv, LoadKinds
  <2>2. /\ \A j \in Loads \ {l} : load'[j] = load[j]
        /\ load'[l].name = load[l].name /\ load'[l].pc = "committing"
    BY <2>1 DEF LoadRecords
  <2>3. load[l].name \in Names
    BY <2>1, UnderWay
  <2> QED
    BY <1>0, <2>1, <2>2, <2>3, GoesOn, ComingStays
<1>5. CASE WriteFails(l)
  <2>1. CASE load[l].pc = "writing" /\ Update(l, Basic(load[l].md), "saving")
    BY <1>0, <2>1, UnderWay, UpdateComes, ComingStays
  <2>2. CASE load[l].pc = "saving" /\ SetTask(l, load[l].name, load[l].config)
    BY <1>0, <2>2, UnderWay, EndLeavesTask, ComingStays
  <2> QED
    BY <1>5, <2>1, <2>2 DEF WriteFails
<1>6. CASE Committed(l)
  BY <1>0, <1>6, UnderWay, EndLeavesTask, ComingStays DEF Committed
<1> QED
  BY <1>1, <1>2, <1>3, <1>4, <1>5, <1>6 DEF Write

LEMMA ReportComes ==
  ASSUME SchedulerInv, LoadedInv, BootNext \/ \E n \in Names : Unlink(n) \/ AddOrChange(n)
  PROVE  LoadedInv'
<1>1. CASE BootNext
  <2>1. PICK b \in boot, l \in Loads :
          Starts(l) /\ boot' = boot \ {b} /\ LoadTask(l, b.name, b.md, b.json, TRUE)
    BY <1>1 DEF BootNext
  <2>2. b.name \in Names /\ b.md \in Versions /\ b.json \in Configs \cup {Nothing}
    BY DEF SchedulerInv, LoadKinds
  <2>3. load[l].pc = "idle" /\ \A c \in boot : c.name = b.name \/ c \in boot'
    BY <2>1 DEF Starts
  <2>4. UNCHANGED <<file, seen, edits>>
    BY <1>1 DEF BootNext, disk
  <2> QED
    BY <2>1, <2>2, <2>3, <2>4, LoadTaskComes, ComingStays
<1>2. ASSUME NEW n \in Names, Unlink(n)
      PROVE  LoadedInv'
  <2>1. /\ file[n] = Nothing /\ file' = file /\ edits' = edits
        /\ seen' = [seen EXCEPT ![n] = Nothing] /\ tasks' = [tasks EXCEPT ![n] = Nothing]
        /\ boot' = boot /\ load' = load
    BY <1>2 DEF Unlink, disk
  <2>2. seen \in [Names -> Versions \cup {Nothing}] /\ tasks \in [Names -> Tasks \cup {Nothing}]
    BY DEF SchedulerInv, DiskKinds, TaskKinds
  <2>3. VersionsGrow'
    BY <2>1, <2>2 DEF LoadedInv, VersionsGrow
  <2>4. ASSUME NEW k \in Names, file[k] # Nothing, seen'[k] = file[k]
        PROVE  Coming(k)'
    <3>1. k # n /\ seen[k] = file[k] /\ tasks'[k] = tasks[k]
      BY <2>1, <2>2, <2>4
    <3> QED
      BY <2>1, <2>4, <3>1 DEF LoadedInv, ReportedComes, Coming, UnderWayFor
  <2> QED
    BY <2>1, <2>3, <2>4 DEF LoadedInv, ReportedComes
<1>3. ASSUME NEW n \in Names, AddOrChange(n)
      PROVE  LoadedInv'
  <2>1. /\ file[n] # Nothing /\ seen' = [seen EXCEPT ![n] = file[n]]
        /\ UNCHANGED <<file, edits, boot, tasks>>
    BY <1>3 DEF AddOrChange, disk
  <2>2. PICK l \in Loads : /\ Starts(l)
                           /\ load' = [load EXCEPT ![l] =
                                [pc |-> "reading", name |-> n, md |-> file[n],
                                 config |-> Nothing, boot |-> FALSE]]
    BY <1>3 DEF AddOrChange
  <2>3. seen \in [Names -> Versions \cup {Nothing}] /\ load \in [Loads -> LoadRecords]
    BY DEF SchedulerInv, DiskKinds, LoadKinds
  <2>4. VersionsGrow'
    BY <2>1, <2>3 DEF LoadedInv, VersionsGrow
  <2>5. /\ load[l].pc = "idle" /\ \A j \in Loads \ {l} : load'[j] = load[j]
        /\ load'[l].name = n /\ load'[l].pc = "reading"
    BY <2>2, <2>3 DEF Starts
  <2>6. \A k \in Names : Coming(k) => Coming(k)'
    BY <2>1, <2>5, GoesOn
  <2>7. Coming(n)'
    BY <2>5 DEF Coming, UnderWayFor
  <2>8. \A k \in Names \ {n} : seen'[k] = seen[k]
    BY <2>1, <2>3
  <2> QED
    BY <2>1, <2>4, <2>6, <2>7, <2>8 DEF LoadedInv, ReportedComes
<1> QED
  BY <1>1, <1>2, <1>3

(* Marking tasks, enabling them and letting time pass removes none.          *)
LEMMA TasksStay ==
  ASSUME LoadedInv, UNCHANGED <<file, seen, edits, boot, load>>,
         \A n \in Names : tasks[n] # Nothing => tasks'[n] # Nothing
  PROVE  LoadedInv'
BY ComingStays DEF Coming, UnderWayFor

LEMMA MarkedIsTask ==
  ASSUME SchedulerInv, NEW n \in Names, tasks[n] # Nothing
  PROVE  [tasks[n] EXCEPT !.next = NextRun(tasks[n].config)] # Nothing
BY NothingElse DEF SchedulerInv, TaskKinds, Tasks, NextRun

LEMMA RestComes ==
  ASSUME SchedulerInv, LoadedInv,
         \/ CheckDueTasks \/ RunTask \/ Restart
         \/ \E n \in Names : BecomesDue(n) \/ RunRequest(n) \/ WriteFile(n)
         \/ \E n \in Names, enabled \in BOOLEAN : SetTaskEnabled(n, enabled)
  PROVE  LoadedInv'
<1>0. tasks \in [Names -> Tasks \cup {Nothing}]
  BY DEF SchedulerInv, TaskKinds
<1>1. CASE CheckDueTasks
  BY <1>1, MarkedIsTask, TasksStay DEF CheckDueTasks, disk
<1>2. CASE RunTask
  BY <1>2, MarkedIsTask, TasksStay DEF RunTask, disk
<1>3. ASSUME NEW n \in Names, BecomesDue(n)
      PROVE  LoadedInv'
  <2>1. tasks'[n] \in Tasks
    BY <1>0, <1>3 DEF BecomesDue, Tasks
  <2> QED
    BY <1>0, <1>3, <2>1, NothingElse, TasksStay DEF BecomesDue, disk
<1>4. ASSUME NEW n \in Names, RunRequest(n)
      PROVE  LoadedInv'
  BY <1>4, TasksStay DEF RunRequest, disk
<1>5. ASSUME NEW n \in Names, NEW enabled \in BOOLEAN, SetTaskEnabled(n, enabled)
      PROVE  LoadedInv'
  <2>1. tasks'[n] \in Tasks
    BY <1>0, <1>5 DEF SetTaskEnabled, Tasks
  <2> QED
    BY <1>0, <1>5, <2>1, NothingElse, TasksStay DEF SetTaskEnabled
<1>6. ASSUME NEW n \in Names, WriteFile(n)
      PROVE  LoadedInv'
  <2>1. PICK v \in {edits + 2, Nothing} \ {file[n]} : file' = [file EXCEPT ![n] = v]
    BY <1>6 DEF WriteFile
  <2>2. /\ edits \in Nat /\ edits' = edits + 1 /\ UNCHANGED <<seen, boot, load, tasks>>
        /\ file \in [Names -> Versions \cup {Nothing}] /\ seen \in [Names -> Versions \cup {Nothing}]
    BY <1>6, BoundsAssumption DEF WriteFile, SchedulerInv, DiskKinds
  <2>3. Versions \subseteq Nat
    BY BoundsAssumption DEF Versions
  <2>4. VersionsGrow'
    <3>1. ASSUME NEW k \in Names
          PROVE  /\ file'[k] # Nothing => file'[k] <= edits' + 1
                 /\ seen'[k] # Nothing => seen'[k] <= edits' + 1
      <4>1. /\ file[k] \in Nat \cup {Nothing} /\ (file[k] # Nothing => file[k] <= edits + 1)
            /\ seen[k] \in Nat \cup {Nothing} /\ (seen[k] # Nothing => seen[k] <= edits + 1)
        BY <2>2, <2>3 DEF LoadedInv, VersionsGrow
      <4>2. file'[k] = file[k] \/ file'[k] = edits + 2 \/ file'[k] = Nothing
        BY <2>1, <2>2
      <4>3. file[k] # Nothing => file[k] <= edits' + 1
        BY <2>2, <4>1
      <4>4. seen'[k] # Nothing => seen'[k] <= edits' + 1
        BY <2>2, <4>1
      <4>5. edits + 2 <= edits' + 1
        BY <2>2
      <4> QED
        BY <4>2, <4>3, <4>4, <4>5
    <3> QED
      BY <3>1 DEF VersionsGrow
  <2>5. file'[n] = Nothing \/ seen'[n] # file'[n]
    BY <2>1, <2>2, <2>3 DEF LoadedInv, VersionsGrow
  <2>6. \A k \in Names \ {n} : file'[k] = file[k]
    BY <2>1, <2>2
  <2> QED
    BY <2>2, <2>4, <2>5, <2>6 DEF LoadedInv, ReportedComes, Coming, UnderWayFor
<1>7. CASE Restart
  <2>1. seen' = file /\ boot' = Existing /\ file' = file /\ edits' = edits
    BY <1>7 DEF Restart, disk
  <2>2. ASSUME NEW n \in Names, file[n] # Nothing
        PROVE  Coming(n)'
    <3>1. [name |-> n, md |-> file[n], json |-> json[n]] \in boot'
      BY <2>1, <2>2 DEF Existing
    <3> QED
      BY <3>1 DEF Coming
  <2> QED
    BY <2>1, <2>2 DEF LoadedInv, VersionsGrow, ReportedComes
<1> QED
  BY <1>1, <1>2, <1>3, <1>4, <1>5, <1>6, <1>7

LEMMA LoadedInductive == SchedulerInv /\ LoadedInv /\ [Next]_vars => LoadedInv'
<1> SUFFICES ASSUME SchedulerInv, LoadedInv, [Next]_vars
             PROVE  LoadedInv'
  OBVIOUS
<1>1. CASE UNCHANGED vars
  BY <1>1, TasksStay DEF vars, disk
<1>2. CASE Next
  BY <1>2, ReportComes, LoadStepComes, RestComes DEF Next
<1> QED
  BY <1>1, <1>2

LEMMA QuietIsLoaded == LoadedInv => EveryFileLoaded
BY DEF LoadedInv, ReportedComes, EveryFileLoaded, Quiet, Booting, Coming, UnderWayFor

(* When everything reported is loaded, every .md file has its task: no       *)
(* interleaving of removals, changes, failed reads, failed writes and        *)
(* answers of the model loses one.                                           *)
THEOREM LoadedCorrect == Spec => []EveryFileLoaded
BY InitKeeps, NextKeeps, LoadedFirst, LoadedInductive, QuietIsLoaded, PTL DEF Spec
=============================================================================
