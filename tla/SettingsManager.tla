---------------------------- MODULE SettingsManager ----------------------------
(***************************************************************************)
(* packages/coding-agent/src/core/settings-manager.ts: processes that      *)
(* share the global and the project's settings.json.                       *)
(*                                                                         *)
(* A process keeps both files in memory.  A setter changes the memory,     *)
(* marks the field as modified and queues a write of the marked fields,    *)
(* with a copy of the memory.  The queue is run later, one write after the *)
(* other: a write reads the file, puts the fields of its copy over it and  *)
(* writes it back.  Nothing else of the process runs during a write, but   *)
(* other processes do: the lock keeps them out, if there is a file to lock.*)
(*                                                                         *)
(* The project's settings are read and written while the user trusts the   *)
(* project.  A nested key is a field of its own; values are numbers in the *)
(* order they are set, and 0 is a field without a value.                   *)
(***************************************************************************)
EXTENDS Integers, Sequences

CONSTANTS
  Processes, Fields,
  Absent, Broken,  \* no file, and one that is not JSON
  Nobody,          \* holds a lock
  MaxValues,       \* bound: setters and edits altogether
  MaxFaults,       \* bound: crashes and locks that are not to be had
  MaxReloads, MaxTrusts  \* bounds: reloads, and changes of trust

ASSUME SettingsAssumption ==
  /\ MaxValues \in Nat /\ MaxFaults \in Nat /\ MaxReloads \in Nat /\ MaxTrusts \in Nat
  /\ Nobody \notin Processes

Scope == {"global", "project"}
Content == [Fields -> 0..MaxValues]
Nothing == [f \in Fields |-> 0]
Task == [scope : Scope, settings : Content, fields : SUBSET Fields]

VARIABLES
  file,            \* of each scope: a content, Absent or Broken
  holder,          \* of each scope: who has its lock
  values,          \* set so far
  faults, reloads, trusts,
  alive,           \* the processes that run
  memory,          \* globalSettings and projectSettings
  settings,        \* what the getters answer from
  trusted,         \* projectTrusted
  loadFailed,      \* the scopes with a load error
  modified,        \* modifiedFields and modifiedProjectFields
  queue,           \* writeQueue
  step,            \* of the write at its head: "none", "missing" or "locked"
  merged,          \* what it is about to write
  awaited,         \* writes that a reload still waits for, or -1
  owed,            \* history: the values set and not written
  forgotten,       \* history: fields of these that lost their mark
  reported         \* history: an error was recorded

disk == <<file, holder>>
bounds == <<values, faults, reloads, trusts>>
state == <<memory, settings, trusted, loadFailed, modified>>
writing == <<step, merged>>
history == <<owed, forgotten, reported>>
vars == <<disk, bounds, alive, state, queue, writing, awaited, history>>

\* deepMergeSettings: the project's values over the global ones.
Effective(global, project) ==
  [f \in Fields |-> IF project[f] # 0 THEN project[f] ELSE global[f]]

\* tryLoadFromStorage fails: not JSON, or the lock is not to be had.
LoadFails(s) == file[s] = Broken \/ (file[s] # Absent /\ holder[s] # Nobody)

\* What it answers otherwise.
Loaded(s) == IF file[s] = Absent THEN Nothing ELSE file[s]

\* loadFromStorage, which does not look at the file of an untrusted project.
LoadFailsFor(s, trust) == (s = "global" \/ trust) /\ LoadFails(s)
LoadedFor(s, trust) == IF s = "project" /\ ~trust THEN Nothing ELSE Loaded(s)

(* Every process has loaded the files that were there when it started: the one
   of an untrusted project not. *)
Init ==
  /\ file \in [Scope -> {Absent, Nothing}]
  /\ holder = [s \in Scope |-> Nobody]
  /\ values = 0 /\ faults = 0 /\ reloads = 0 /\ trusts = 0
  /\ alive = Processes
  /\ memory = [p \in Processes |-> [s \in Scope |-> Nothing]]
  /\ settings = [p \in Processes |-> Nothing]
  /\ trusted \in [Processes -> BOOLEAN]
  /\ loadFailed = [p \in Processes |-> {}]
  /\ modified = [p \in Processes |-> [s \in Scope |-> {}]]
  /\ queue = [p \in Processes |-> <<>>]
  /\ step = [p \in Processes |-> "none"] /\ merged = [p \in Processes |-> Nothing]
  /\ awaited = [p \in Processes |-> -1]
  /\ owed = [p \in Processes |-> [s \in Scope |-> Nothing]]
  /\ forgotten = [p \in Processes |-> [s \in Scope |-> {}]]
  /\ reported = [p \in Processes |-> FALSE]

\* Code of the process runs: it is not in the middle of a write.
Runs(p) == p \in alive /\ step[p] = "none"

Fault == faults < MaxFaults /\ faults' = faults + 1

-----------------------------------------------------------------------------
(* The setters. *)

(* A setter of a global setting, or updateProjectSettings, which throws when the
   project is not trusted.  Nothing is queued while the file could not be
   loaded. *)
Sets(p, s, f) ==
  LET mine == [memory[p] EXCEPT ![s][f] = values + 1]
      marks == modified[p][s] \cup {f}
      task == [scope |-> s, settings |-> mine[s], fields |-> marks]
  IN  /\ Runs(p) /\ values < MaxValues
      /\ s = "global" \/ trusted[p]
      /\ values' = values + 1
      /\ memory' = [memory EXCEPT ![p] = mine]
      /\ settings' = [settings EXCEPT ![p] = Effective(mine["global"], mine["project"])]
      /\ modified' = [modified EXCEPT ![p][s] = marks]
      /\ queue' = IF s \in loadFailed[p] THEN queue ELSE [queue EXCEPT ![p] = Append(@, task)]
      /\ owed' = [owed EXCEPT ![p][s][f] = values + 1]
      /\ forgotten' = [forgotten EXCEPT ![p][s] = @ \ {f}]
      /\ UNCHANGED <<disk, faults, reloads, trusts, alive, trusted, loadFailed, writing, awaited, reported>>

-----------------------------------------------------------------------------
(* The queue of writes. *)

\* Slip: the whole copy is written.
PersistedWhole(task) == task.settings

\* persistScopedSettings: the task's fields over those of the file.
Persisted(task) ==
  [f \in Fields |-> IF f \in task.fields THEN task.settings[f] ELSE Loaded(task.scope)[f]]

\* Slip: only the setter looks at the trust.
MayWriteQueued(p, task) == TRUE

\* assertProjectTrustedForWrite, when the write is run.
MayWrite(p, task) == task.scope = "global" \/ trusted[p]

\* The queue, and the reload that waits for it, go on after a write.
NextTask(p) ==
  /\ queue' = [queue EXCEPT ![p] = Tail(@)]
  /\ awaited' = [awaited EXCEPT ![p] = IF @ > 0 THEN @ - 1 ELSE @]

\* Slip: the marks go in any case.
MarksAfterFailureNone(p, s) == [modified EXCEPT ![p][s] = {}]

\* The marks after a write that threw are kept, for the next setter.
MarksAfterFailure(p, s) == modified

\* recordError, in the catch of a write.
Caught(p) == reported' = [reported EXCEPT ![p] = TRUE]

\* The write threw: its error is recorded, and the next one is run.
TaskFailed(p) ==
  /\ modified' = MarksAfterFailure(p, Head(queue[p]).scope)
  /\ NextTask(p) /\ Caught(p)
  /\ UNCHANGED <<alive, memory, settings, trusted, loadFailed, owed, forgotten>>

(* withLock: a file that is there is locked and read, one that is missing is
   only found missing. *)
TaskBegins(p) ==
  LET task == Head(queue[p])
      s == task.scope
  IN  /\ Runs(p) /\ queue[p] # <<>>
      /\ MayWrite(p, task) /\ file[s] # Broken
      /\ \/ file[s] = Absent /\ step' = [step EXCEPT ![p] = "missing"] /\ UNCHANGED holder
         \/ /\ file[s] # Absent /\ holder[s] = Nobody
            /\ step' = [step EXCEPT ![p] = "locked"] /\ holder' = [holder EXCEPT ![s] = p]
      /\ merged' = [merged EXCEPT ![p] = Persisted(task)]
      /\ UNCHANGED <<file, bounds, alive, state, queue, awaited, history>>

\* The write is refused, or what is to be merged with is not JSON.
TaskRefused(p) ==
  LET task == Head(queue[p])
  IN  /\ Runs(p) /\ queue[p] # <<>>
      /\ ~MayWrite(p, task) \/ (file[task.scope] = Broken /\ holder[task.scope] = Nobody)
      /\ TaskFailed(p)
      /\ UNCHANGED <<disk, bounds, writing>>

\* The lock is not to be had in time, before the file is read or before it is created.
LockBusy(p) ==
  LET s == Head(queue[p]).scope
  IN  /\ p \in alive /\ queue[p] # <<>> /\ Fault
      /\ \/ step[p] = "none" /\ file[s] # Absent /\ MayWrite(p, Head(queue[p]))
         \/ step[p] = "missing"
      /\ step' = [step EXCEPT ![p] = "none"] /\ merged' = [merged EXCEPT ![p] = Nothing]
      /\ TaskFailed(p)
      /\ UNCHANGED <<disk, values, reloads, trusts>>

\* clearModifiedScope: all marks of the scope, those made since the copy included.
Cleared(p, s) == [modified EXCEPT ![p][s] = {}]

\* What is not written yet after the write.
StillOwed(p, task) ==
  [f \in Fields |-> IF f \in task.fields /\ owed[p][task.scope][f] = task.settings[f]
                   THEN 0 ELSE owed[p][task.scope][f]]

\* Fields without a mark whose value is still to be written.
Forgets(p, scopes) ==
  forgotten' = [forgotten EXCEPT ![p] =
    [s \in Scope |-> @[s] \cup (IF s \in scopes THEN {f \in Fields : owed'[p][s][f] # 0} ELSE {})]]

\* Slip: only a lock taken for a missing file is given back.
UnlockedNew(p, s) == IF step[p] = "missing" THEN [holder EXCEPT ![s] = Nobody] ELSE holder

\* The lock is given back.
Unlocked(p, s) == [holder EXCEPT ![s] = Nobody]

\* The file is written, with the lock, and the lock is given back.
TaskWrites(p) ==
  LET task == Head(queue[p])
      s == task.scope
  IN  /\ p \in alive
      /\ step[p] = "locked" \/ (step[p] = "missing" /\ holder[s] = Nobody)
      /\ file' = [file EXCEPT ![s] = merged[p]]
      /\ holder' = Unlocked(p, s)
      /\ modified' = Cleared(p, s)
      /\ owed' = [owed EXCEPT ![p][s] = StillOwed(p, task)] /\ Forgets(p, {s})
      /\ step' = [step EXCEPT ![p] = "none"] /\ merged' = [merged EXCEPT ![p] = Nothing]
      /\ NextTask(p)
      /\ UNCHANGED <<bounds, alive, memory, settings, trusted, loadFailed, reported>>

-----------------------------------------------------------------------------
(* Reloading and trust. *)

\* reload() waits for the writes that are queued when it is called.
Reload(p) ==
  /\ Runs(p) /\ awaited[p] = -1
  /\ reloads < MaxReloads /\ reloads' = reloads + 1
  /\ awaited' = [awaited EXCEPT ![p] = Len(queue[p])]
  /\ UNCHANGED <<disk, values, faults, trusts, alive, state, queue, writing, history>>

\* The trust that a reload goes by.
TrustAtReload(p) == trusted[p]

(* ... and loads the files.  A file that cannot be loaded leaves the memory as it
   is; the marks go in any case. *)
Reloaded(p) ==
  LET trust == TrustAtReload(p)
      failed == {s \in Scope : LoadFailsFor(s, trust)}
      mine == [s \in Scope |-> IF s \in failed THEN memory[p][s] ELSE LoadedFor(s, trust)]
  IN  /\ Runs(p) /\ awaited[p] = 0
      /\ awaited' = [awaited EXCEPT ![p] = -1]
      /\ memory' = [memory EXCEPT ![p] = mine]
      /\ settings' = [settings EXCEPT ![p] = Effective(mine["global"], mine["project"])]
      /\ loadFailed' = [loadFailed EXCEPT ![p] = failed]
      /\ modified' = [modified EXCEPT ![p] = [s \in Scope |-> {}]]
      /\ reported' = [reported EXCEPT ![p] = @ \/ failed # {}]
      /\ UNCHANGED owed /\ Forgets(p, Scope)
      /\ UNCHANGED <<disk, bounds, alive, trusted, queue, writing>>

(* setProjectTrusted: the settings of the project are dropped, or loaded. *)
SetProjectTrusted(p, trust) ==
  LET failed == LoadFailsFor("project", trust)
      project == IF failed THEN Nothing ELSE LoadedFor("project", trust)
  IN  /\ Runs(p) /\ trusted[p] # trust
      /\ trusts < MaxTrusts /\ trusts' = trusts + 1
      /\ trusted' = [trusted EXCEPT ![p] = trust]
      /\ modified' = [modified EXCEPT ![p]["project"] = {}]
      /\ memory' = [memory EXCEPT ![p]["project"] = project]
      /\ settings' = [settings EXCEPT ![p] = Effective(memory[p]["global"], project)]
      /\ loadFailed' = [loadFailed EXCEPT ![p] =
                          (@ \ {"project"}) \cup (IF failed THEN {"project"} ELSE {})]
      /\ reported' = [reported EXCEPT ![p] = @ \/ failed]
      /\ UNCHANGED owed /\ Forgets(p, {"project"})
      /\ UNCHANGED <<disk, values, faults, reloads, alive, queue, writing, awaited>>

-----------------------------------------------------------------------------
(* The user's editor, which writes while no process holds the lock, and the end
   of a process, which leaves a file that was being written empty or torn. *)

Edits(s, f) ==
  /\ holder[s] = Nobody /\ values < MaxValues
  /\ values' = values + 1
  /\ file' \in {[file EXCEPT ![s] = Broken],
                [file EXCEPT ![s] = IF @ = Broken THEN Nothing ELSE [Loaded(s) EXCEPT ![f] = values + 1]]}
  /\ UNCHANGED <<holder, faults, reloads, trusts, alive, state, queue, writing, awaited, history>>

Crash(p) ==
  LET torn == {s \in Scope : step[p] # "none" /\ s = Head(queue[p]).scope
                              /\ holder[s] \in {p, Nobody}}
  IN  /\ p \in alive /\ Fault
      /\ alive' = alive \ {p}
      /\ holder' = [s \in Scope |-> IF holder[s] = p THEN Nobody ELSE holder[s]]
      /\ file' \in {file} \cup {[file EXCEPT ![s] = left] : s \in torn, left \in {Nothing, Broken}}
      /\ step' = [step EXCEPT ![p] = "none"] /\ merged' = [merged EXCEPT ![p] = Nothing]
      /\ queue' = [queue EXCEPT ![p] = <<>>] /\ awaited' = [awaited EXCEPT ![p] = -1]
      /\ UNCHANGED <<values, reloads, trusts, state, history>>

-----------------------------------------------------------------------------
Step(p) == TaskBegins(p) \/ TaskRefused(p) \/ TaskWrites(p) \/ Reloaded(p)

Next ==
  \/ \E p \in Processes :
       \/ Step(p) \/ LockBusy(p) \/ Reload(p) \/ Crash(p)
       \/ \E trust \in BOOLEAN : SetProjectTrusted(p, trust)
       \/ \E s \in Scope : \E f \in Fields : Sets(p, s, f)
  \/ \E s \in Scope : \E f \in Fields : Edits(s, f)

Spec == Init /\ [][Next]_vars

\* Queued writes and a reload that has waited for them are run.
FairSpec == Spec /\ \A p \in Processes : WF_vars(Step(p))

-----------------------------------------------------------------------------
(* Properties. *)

TypeOK ==
  /\ file \in [Scope -> Content \cup {Absent, Broken}]
  /\ holder \in [Scope -> Processes \cup {Nobody}]
  /\ values \in 0..MaxValues /\ faults \in 0..MaxFaults 
  /\ reloads \in 0..MaxReloads /\ trusts \in 0..MaxTrusts
  /\ alive \subseteq Processes
  /\ memory \in [Processes -> [Scope -> Content]] /\ settings \in [Processes -> Content]
  /\ trusted \in [Processes -> BOOLEAN] /\ loadFailed \in [Processes -> SUBSET Scope]
  /\ modified \in [Processes -> [Scope -> SUBSET Fields]]
  /\ queue \in [Processes -> Seq(Task)]
  /\ step \in [Processes -> {"none", "missing", "locked"}] /\ merged \in [Processes -> Content]
  /\ awaited \in [Processes -> Int] /\ \A p \in Processes : awaited[p] \in -1..Len(queue[p])
  /\ owed \in [Processes -> [Scope -> Content]]
  /\ forgotten \in [Processes -> [Scope -> SUBSET Fields]]
  /\ reported \in [Processes -> BOOLEAN]
  /\ \A p \in Processes : step[p] # "none" => queue[p] # <<>>

\* Nothing of an untrusted project is in use, whatever was queued, loaded or being loaded
\* when the trust was withdrawn.
ProjectNeedsTrust ==
  \A p \in Processes : ~trusted[p] => settings[p] = memory[p]["global"]

\* A write in progress of the project's file is one of a process that trusts the project.
UntrustedUnwritten ==
  \A p \in Processes :
    step[p] # "none" /\ Head(queue[p]).scope = "project" => trusted[p]

\* No setting is lost in silence: when the queue is empty, what was set is in the file
\* or an error was recorded.
LostIsReported ==
  \A p \in alive : \A s \in Scope :
    queue[p] = <<>> /\ owed[p][s] # Nothing => reported[p]

Wrote(p, s) == step[p] # "none" /\ step'[p] = "none" /\ p \in alive' /\ Head(queue[p]).scope = s

\* What a write leaves of the work of other processes and of the user's editor: every
\* field that the process itself has not set, and a file that is not JSON altogether.
\* The exception is a write that found no file, and so no lock.
OthersKept ==
  [][\A p \in Processes : \A s \in Scope :
       Wrote(p, s) /\ step[p] = "locked" =>
         /\ file[s] # Broken
         /\ file'[s] # file[s] =>
              \A f \in Fields \ Head(queue[p]).fields : file'[s][f] = file[s][f]]_vars

\* What is not written keeps its mark and is written with the next setter of the scope,
\* whatever failed meanwhile.  The exceptions are marks that went with a write that was
\* queued before, a reload or a change of trust.
Remembered ==
  \A p \in alive : \A s \in Scope : \A f \in Fields :
    owed[p][s][f] # 0 => f \in modified[p][s] \cup forgotten[p][s]

\* Every queued write is run, the ones behind a failed one too, and every reload ends.
WritesAndReloadsEnd ==
  \A p \in Processes : /\ queue[p] # <<>> ~> queue[p] = <<>>
                       /\ awaited[p] >= 0 ~> awaited[p] = -1

\* What trust decides: what of the project is used, and what is written to it.
TrustDecides == ProjectNeedsTrust /\ UntrustedUnwritten

\* What was set and is not written is remembered, or else its loss is known.
SettingsSurvive == LostIsReported /\ Remembered
=============================================================================
