--------------------------- MODULE TaskScheduler ---------------------------
(***************************************************************************)
(* Scheduled tasks (src/src/tasks/manager.ts, src/src/config/watcher.ts).  *)
(* A task is a file .md that a person writes and a file .json that a model *)
(* derives from it.  The watcher reports changes of the .md files; every   *)
(* report starts a load of its own, which reads the files, asks the model  *)
(* if there is no .json, writes and commits the .json and puts the task    *)
(* into a map, with an await between each of these.  A timer runs what is  *)
(* due in the map.                                                         *)
(***************************************************************************)
EXTENDS Naturals, FiniteSets

CONSTANTS
  Names,       \* base names of .md files
  Nothing,     \* no file, no task, no config
  MayFail,     \* whether a .json file may fail to be written
  MaxLoads,    \* bound of the model: calls of loadTask in one life of the process
  MaxEdits,    \* bound of the model: changes of files
  MaxRestarts  \* bound of the model: restarts

Versions == 1..MaxEdits + 1
Loads == 1..MaxLoads    \* in the order of their start

(* A config knows the version of the .md it was derived from; one that is   *)
(* derived without the model (createBasicConfig) has no schedule.           *)
Configs == [of : Versions, scheduled : BOOLEAN]
Basic(v) == [of |-> v, scheduled |-> FALSE]
Tasks == [id : Loads, config : Configs, enabled : BOOLEAN, next : {"never", "later", "due"}]

ASSUME BoundsAssumption ==
  /\ MaxLoads \in Nat /\ MaxEdits \in Nat /\ MaxRestarts \in Nat /\ MayFail \in BOOLEAN
  /\ Nothing \notin Configs \cup Tasks \cup Versions \cup Names

VARIABLES
  file,      \* the version of each .md file on disk
  json,      \* the config in each .json file on disk
  disabled,  \* disabled_tasks of the user's settings, on disk
  seen,      \* the versions the watcher has reported
  configs,   \* names in the watcher's configs
  boot,      \* existing configs that init has not loaded yet
  load,      \* the loads
  tasks,     \* the map of tasks
  request,   \* a request to run a task that waits for its body
  edits, restarts \* bounds of the model

disk == <<file, json, disabled>>
vars == <<disk, seen, configs, boot, load, tasks, request, edits, restarts>>

Idle == [pc |-> "idle", name |-> Nothing, md |-> Nothing, config |-> Nothing, boot |-> FALSE]
Pcs == {"idle", "reading", "parsing", "writing", "saving", "committing", "done"}

(* loadExistingConfigs: what is on disk when the process starts.            *)
Existing == {[name |-> n, md |-> file[n], json |-> json[n]] :
               n \in {k \in Names : file[k] # Nothing}}

Init ==
  /\ file \in [Names -> {Nothing, 1}]
  /\ json \in [Names -> {Nothing, [of |-> 1, scheduled |-> TRUE]}]
  /\ \A n \in Names : json[n] # Nothing => file[n] # Nothing
  /\ disabled = {}
  /\ seen = file
  /\ configs = {n \in Names : file[n] # Nothing}
  /\ boot = Existing
  /\ load = [l \in Loads |-> Idle]
  /\ tasks = [n \in Names |-> Nothing]
  /\ request = Nothing
  /\ edits = 0 /\ restarts = 0

(* init awaits one load after the other; the timer is started after it.     *)
Booting == boot # {} \/ \E l \in Loads : load[l].boot

NextRun(config) == IF config.scheduled THEN "later" ELSE "never"

(* The next load; AddOrChange leaves the loads that init needs.             *)
Starts(l) == load[l].pc = "idle" /\ \A k \in 1..l - 1 : load[k].pc # "idle"

(* Mutant: what the map says is kept, not what the settings say.            *)
SetTaskKeepsEnabled(l, n, config) ==
  /\ tasks' = [tasks EXCEPT ![n] =
                 [id |-> IF @ = Nothing THEN l ELSE @.id, config |-> config,
                  enabled |-> @ = Nothing \/ @.enabled, next |-> NextRun(config)]]
  /\ load' = [load EXCEPT ![l] = [Idle EXCEPT !.pc = "done"]]

(* The end of loadTask: the task is put into the map, under the id it had.  *)
SetTask(l, n, config) ==
  /\ tasks' = [tasks EXCEPT ![n] =
                 [id |-> IF @ = Nothing THEN l ELSE @.id, config |-> config,
                  enabled |-> n \notin disabled, next |-> NextRun(config)]]
  /\ load' = [load EXCEPT ![l] = [Idle EXCEPT !.pc = "done"]]

(* loadTask: a config that has its .json is used as it is, one that has     *)
(* none is given to the model.                                              *)
LoadTask(l, n, md, cached, booting) ==
  IF cached # Nothing THEN SetTask(l, n, cached)
  ELSE /\ load' = [load EXCEPT ![l] = [pc |-> "parsing", name |-> n, md |-> md,
                                       config |-> Nothing, boot |-> booting]]
       /\ UNCHANGED tasks

BootNext ==
  /\ \A l \in Loads : ~load[l].boot
  /\ \E b \in boot, l \in Loads :
       /\ Starts(l)
       /\ boot' = boot \ {b}
       /\ LoadTask(l, b.name, b.md, b.json, TRUE)
  /\ UNCHANGED <<disk, seen, configs, request, edits, restarts>>

(* The watcher reports a file that is gone ...                              *)
Unlink(n) ==
  /\ file[n] = Nothing /\ seen[n] # Nothing
  /\ seen' = [seen EXCEPT ![n] = Nothing]
  /\ configs' = configs \ {n}
  /\ tasks' = [tasks EXCEPT ![n] = Nothing]
  /\ UNCHANGED <<disk, boot, load, request, edits, restarts>>

(* ... or one that is new or changed, and loadConfigFile reads the .md.     *)
AddOrChange(n) ==
  /\ file[n] # Nothing /\ seen[n] # file[n]
  /\ seen' = [seen EXCEPT ![n] = file[n]]
  /\ \E l \in Loads :
       /\ Starts(l) /\ l + Cardinality(boot) <= MaxLoads
       /\ load' = [load EXCEPT ![l] = [pc |-> "reading", name |-> n, md |-> file[n],
                                       config |-> Nothing, boot |-> FALSE]]
  /\ UNCHANGED <<disk, configs, boot, tasks, request, edits, restarts>>

(* loadConfigFile ends with the .json, if there is one; the handler notes   *)
(* the config and emits it to loadTask.                                     *)
ReadJson(l) ==
  /\ load[l].pc = "reading"
  /\ LET n == load[l].name
     IN /\ configs' = configs \cup {n}
        /\ LoadTask(l, n, load[l].md, json[n], FALSE)
  /\ UNCHANGED <<disk, seen, boot, request, edits, restarts>>

(* A file that is gone again when loadConfigFile asks for its date.         *)
ReadFails(l) ==
  /\ load[l].pc = "reading"
  /\ file[load[l].name] = Nothing
  /\ load' = [load EXCEPT ![l] = [Idle EXCEPT !.pc = "done"]]
  /\ UNCHANGED <<disk, seen, configs, boot, tasks, request, edits, restarts>>

(* updateJsonConfig begins if the watcher still has the config; else it     *)
(* throws, and so does the second attempt with the basic config.            *)
Update(l, config, pc) ==
  IF load[l].name \in configs
  THEN load' = [load EXCEPT ![l].pc = pc, ![l].config = config] /\ UNCHANGED tasks
  ELSE SetTask(l, load[l].name, Basic(load[l].md))

ParseSucceeds(l) ==
  /\ load[l].pc = "parsing"
  /\ \E scheduled \in BOOLEAN :
       Update(l, [of |-> load[l].md, scheduled |-> scheduled], "writing")
  /\ UNCHANGED <<disk, seen, configs, boot, request, edits, restarts>>

(* Mutant: a task that cannot be parsed is given up.                        *)
ParseGivesUp(l) ==
  /\ load[l].pc = "parsing"
  /\ load' = [load EXCEPT ![l] = [Idle EXCEPT !.pc = "done"]]
  /\ UNCHANGED <<disk, seen, configs, boot, tasks, request, edits, restarts>>

(* The model's answer is an error or no JSON: the basic config is saved.    *)
ParseFails(l) ==
  /\ load[l].pc = "parsing"
  /\ Update(l, Basic(load[l].md), "saving")
  /\ UNCHANGED <<disk, seen, configs, boot, request, edits, restarts>>

(* updateJsonConfig after the write; the config is in the watcher's map     *)
(* again, whatever became of it.                                            *)
Written(l) ==
  /\ load[l].pc \in {"writing", "saving"}
  /\ json' = [json EXCEPT ![load[l].name] = load[l].config]
  /\ configs' = configs \cup {load[l].name}
  /\ load' = [load EXCEPT ![l].pc = "committing"]
  /\ UNCHANGED <<file, disabled, seen, boot, tasks, request, edits, restarts>>

(* A write that fails is followed by one of the basic config, and if that   *)
(* fails by none.                                                           *)
WriteFails(l) ==
  /\ MayFail
  /\ \/ load[l].pc = "writing" /\ Update(l, Basic(load[l].md), "saving")
     \/ load[l].pc = "saving" /\ SetTask(l, load[l].name, load[l].config)
  /\ UNCHANGED <<disk, seen, configs, boot, request, edits, restarts>>

(* commitChanges has ended, with a commit or an error it logs.              *)
Committed(l) ==
  /\ load[l].pc = "committing"
  /\ SetTask(l, load[l].name, load[l].config)
  /\ UNCHANGED <<disk, seen, configs, boot, request, edits, restarts>>

(* The time of a task's nextRun comes.                                      *)
BecomesDue(n) ==
  /\ tasks[n] # Nothing /\ tasks[n].next = "later"
  /\ tasks' = [tasks EXCEPT ![n].next = "due"]
  /\ UNCHANGED <<disk, seen, configs, boot, load, request, edits, restarts>>

Due(n) == tasks[n] # Nothing /\ tasks[n].enabled /\ tasks[n].next = "due"

(* Mutant: a task is marked when its run has ended, not when it starts.     *)
CheckDueTasksUnmarked ==
  /\ ~Booting
  /\ \E n \in Names : Due(n)
  /\ UNCHANGED vars

(* checkDueTasks emits every due task; the handler marks it as executed     *)
(* before it hands its message to the supervisor.                           *)
CheckDueTasks ==
  /\ ~Booting
  /\ \E n \in Names : Due(n)
  /\ tasks' = [n \in Names |->
                 IF Due(n) THEN [tasks[n] EXCEPT !.next = NextRun(tasks[n].config)] ELSE tasks[n]]
  /\ UNCHANGED <<disk, seen, configs, boot, load, request, edits, restarts>>

(* POST /api/tasks/:id/run finds the task and then awaits the body.         *)
RunRequest(n) ==
  /\ request = Nothing /\ tasks[n] # Nothing
  /\ request' = [name |-> n, id |-> tasks[n].id]
  /\ UNCHANGED <<disk, seen, configs, boot, load, tasks, edits, restarts>>

(* It runs the task it has found; markTaskExecuted looks it up once more.   *)
RunTask ==
  /\ request # Nothing
  /\ tasks' = [n \in Names |->
                 IF tasks[n] # Nothing /\ n = request.name /\ tasks[n].id = request.id
                 THEN [tasks[n] EXCEPT !.next = NextRun(tasks[n].config)] ELSE tasks[n]]
  /\ request' = Nothing
  /\ UNCHANGED <<disk, seen, configs, boot, load, edits, restarts>>

(* PATCH /api/tasks/:id                                                     *)
SetTaskEnabled(n, enabled) ==
  /\ tasks[n] # Nothing
  /\ tasks' = [tasks EXCEPT ![n].enabled = enabled]
  /\ disabled' = IF enabled THEN disabled \ {n} ELSE disabled \cup {n}
  /\ UNCHANGED <<file, json, seen, configs, boot, load, request, edits, restarts>>

(* A person writes a .md file, or removes it.                               *)
WriteFile(n) ==
  /\ edits < MaxEdits
  /\ edits' = edits + 1
  /\ \E v \in {edits + 2, Nothing} \ {file[n]} : file' = [file EXCEPT ![n] = v]
  /\ UNCHANGED <<json, disabled, seen, configs, boot, load, tasks, request, restarts>>

Restart ==
  /\ restarts < MaxRestarts
  /\ restarts' = restarts + 1
  /\ seen' = file
  /\ configs' = {n \in Names : file[n] # Nothing}
  /\ boot' = Existing
  /\ load' = [l \in Loads |-> Idle]
  /\ tasks' = [n \in Names |-> Nothing]
  /\ request' = Nothing
  /\ UNCHANGED <<disk, edits>>

Parse(l) == ParseSucceeds(l) \/ ParseFails(l)
Write(l) == Written(l) \/ WriteFails(l)

Next ==
  \/ BootNext
  \/ \E n \in Names : Unlink(n) \/ AddOrChange(n)
  \/ \E l \in Loads : ReadJson(l) \/ ReadFails(l) \/ Parse(l) \/ Write(l) \/ Committed(l)
  \/ \E n \in Names : BecomesDue(n) \/ RunRequest(n) \/ WriteFile(n)
  \/ \E n \in Names, enabled \in BOOLEAN : SetTaskEnabled(n, enabled)
  \/ CheckDueTasks
  \/ RunTask
  \/ Restart

Spec == Init /\ [][Next]_vars

(* Awaited calls return, the model answers or fails, the timer fires.       *)
FairSpec ==
  /\ Spec
  /\ WF_vars(BootNext) /\ WF_vars(CheckDueTasks)
  /\ \A l \in Loads : WF_vars(Parse(l)) /\ WF_vars(Write(l)) /\ WF_vars(Committed(l))

-----------------------------------------------------------------------------
(* Properties *)

(* Every variable keeps its kind of value, and a task has a time to run     *)
(* exactly if its config has a schedule.                                    *)
TypeOK ==
  /\ file \in [Names -> Versions \cup {Nothing}] /\ seen \in [Names -> Versions \cup {Nothing}]
  /\ json \in [Names -> Configs \cup {Nothing}]
  /\ tasks \in [Names -> Tasks \cup {Nothing}]
  /\ \A n \in Names : tasks[n] # Nothing =>
       (tasks[n].next = "never" <=> ~tasks[n].config.scheduled)
  /\ disabled \subseteq Names /\ configs \subseteq Names
  /\ \A b \in boot : b.name \in Names /\ b.md \in Versions /\ b.json \in Configs \cup {Nothing}
  /\ load \in [Loads -> [pc : Pcs, name : Names \cup {Nothing}, md : Versions \cup {Nothing},
                         config : Configs \cup {Nothing}, boot : BOOLEAN]]
  /\ \A l \in Loads : load[l].pc \in {"writing", "saving", "committing"} =>
       load[l].config # Nothing
  /\ request \in [name : Names, id : Loads] \cup {Nothing}
  /\ edits \in 0..MaxEdits /\ restarts \in 0..MaxRestarts

(* A task is enabled exactly if the user's settings do not list it, also    *)
(* when it was disabled, removed or loaded again while a load was awaiting. *)
EnabledAsSet == \A n \in Names : tasks[n] # Nothing => (tasks[n].enabled <=> n \notin disabled)

Quiet ==
  /\ ~Booting /\ seen = file
  /\ \A l \in Loads : load[l].pc \in {"idle", "done"}

(* When everything reported is loaded, every .md file has its task,         *)
(* whichever of its loads failed or was overtaken by a removal.             *)
EveryFileLoaded == Quiet => \A n \in Names : file[n] # Nothing => tasks[n] # Nothing

(* A task that is due does not stay due: it is run, disabled, loaded again  *)
(* or removed; also after a start, which has to load every file first.      *)
DueIsServed == \A n \in Names : Due(n) ~> ~Due(n)

(* "generate and re-generate a .json file from it"                          *)
(* (src/docs/olliebot-seed-prompt.md:7) and "Task updates without server    *)
(* restart" (src/docs/e2e-test-plan.md:72): when everything reported is     *)
(* loaded, a task is the one its .md file describes.  The code never leaves *)
(* out a .json that is there, and it removes none.                          *)
TaskFollowsFile ==
  Quiet => \A n \in Names :
    file[n] # Nothing /\ tasks[n] # Nothing => tasks[n].config.of = file[n]
=============================================================================
