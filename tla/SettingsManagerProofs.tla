------------------------ MODULE SettingsManagerProofs ------------------------
(***************************************************************************)
(* Theorems of SettingsManager for any number of processes, fields, setters*)
(* and faults: the types, that an untrusted project is neither used nor    *)
(* written, and that no setting is lost in silence.                        *)
(***************************************************************************)
EXTENDS SettingsManager, SequenceTheorems, TLAPS

Steps == {"none", "missing", "locked"}

\* TypeOK, one part for each of the variables.
LEMMA Types ==
  ASSUME TypeOK
  PROVE  /\ file \in [Scope -> Content \cup {Absent, Broken}]
         /\ holder \in [Scope -> Processes \cup {Nobody}]
         /\ values \in 0..MaxValues /\ alive \subseteq Processes
         /\ memory \in [Processes -> [Scope -> Content]] /\ settings \in [Processes -> Content]
         /\ trusted \in [Processes -> BOOLEAN] /\ loadFailed \in [Processes -> SUBSET Scope]
         /\ modified \in [Processes -> [Scope -> SUBSET Fields]]
         /\ queue \in [Processes -> Seq(Task)]
         /\ step \in [Processes -> Steps] /\ merged \in [Processes -> Content]
         /\ awaited \in [Processes -> Int]
         /\ \A p \in Processes : awaited[p] \in -1..Len(queue[p])
         /\ owed \in [Processes -> [Scope -> Content]]
         /\ reported \in [Processes -> BOOLEAN]
         /\ \A p \in Processes : step[p] # "none" => queue[p] # <<>>
BY DEF TypeOK, Steps

\* The settings of the project over those of the user are settings.
LEMMA EffectiveType ==
  ASSUME NEW g \in Content, NEW q \in Content
  PROVE  Effective(g, q) \in Content
BY DEF Effective, Content

\* Without settings of a project those of the user are in effect.
LEMMA EffectiveOfNothing ==
  ASSUME NEW g \in Content
  PROVE  Effective(g, Nothing) = g
BY DEF Effective, Content, Nothing

\* Having set nothing is one content of a file.
LEMMA NothingType == Nothing \in Content
BY SettingsAssumption DEF Nothing, Content

\* What is loaded from a file that can be read are settings.
LEMMA LoadedType ==
  ASSUME TypeOK, NEW s \in Scope, ~LoadFails(s)
  PROVE  Loaded(s) \in Content
BY NothingType, Types DEF Loaded, LoadFails

\* The same, when a project that is not trusted counts as empty.
LEMMA LoadedForType ==
  ASSUME TypeOK, NEW s \in Scope, NEW trust \in BOOLEAN, ~LoadFailsFor(s, trust)
  PROVE  LoadedFor(s, trust) \in Content
BY NothingType, LoadedType DEF LoadedFor, LoadFailsFor, Scope

\* The head of a queue of tasks is a task, and its tail is a queue.
LEMMA QueueType ==
  ASSUME TypeOK, NEW p \in Processes, queue[p] # <<>>
  PROVE  /\ Head(queue[p]) \in Task /\ Tail(queue[p]) \in Seq(Task)
         /\ Len(Tail(queue[p])) = Len(queue[p]) - 1 /\ Len(queue[p]) \in Nat \ {0}
BY Types, HeadTailProperties, EmptySeq

-----------------------------------------------------------------------------
(* The invariant.  A value that is not written is in the queue, in the copy that some
   write will put over the file, unless the process has reported an error. *)
Current(p) ==
  /\ settings[p] = Effective(memory[p]["global"], memory[p]["project"])
  /\ ~trusted[p] => memory[p]["project"] = Nothing

TrustInv == \A p \in Processes : Current(p)

Queued(q, s, f, v) ==
  \E i \in 1..Len(q) : q[i].scope = s /\ f \in q[i].fields /\ q[i].settings[f] = v

OwedQueued(p) ==
  reported[p] \/ \A s \in Scope : \A f \in Fields :
    owed[p][s][f] # 0 => Queued(queue[p], s, f, owed[p][s][f])

LossInv ==
  \A p \in Processes : p \in alive => (loadFailed[p] # {} => reported[p]) /\ OwedQueued(p)
-----------------------------------------------------------------------------
(* Types. *)

\* The settings start with their types.
LEMMA TypeInit == Init => TypeOK
<1> SUFFICES ASSUME Init PROVE TypeOK
  OBVIOUS
<1> USE SettingsAssumption DEF Init
<1>1. file \in [Scope -> Content \cup {Absent, Broken}]
  BY NothingType
<1>2. memory \in [Processes -> [Scope -> Content]] /\ settings \in [Processes -> Content]
      /\ merged \in [Processes -> Content] /\ owed \in [Processes -> [Scope -> Content]]
  BY NothingType
<1>3. queue \in [Processes -> Seq(Task)] /\ \A p \in Processes : Len(queue[p]) = 0
  OBVIOUS
<1>4. awaited \in [Processes -> Int] /\ \A p \in Processes : awaited[p] \in -1..Len(queue[p])
  BY <1>3
<1>5. values \in 0..MaxValues /\ faults \in 0..MaxFaults /\ reloads \in 0..MaxReloads
      /\ trusts \in 0..MaxTrusts
  OBVIOUS
<1>6. /\ holder \in [Scope -> Processes \cup {Nobody}] /\ alive \subseteq Processes
      /\ trusted \in [Processes -> BOOLEAN] /\ loadFailed \in [Processes -> SUBSET Scope]
      /\ modified \in [Processes -> [Scope -> SUBSET Fields]]
      /\ step \in [Processes -> Steps]
      /\ forgotten \in [Processes -> [Scope -> SUBSET Fields]]
      /\ reported \in [Processes -> BOOLEAN]
  BY DEF Steps
<1>7. \A p \in Processes : step[p] = "none"
  OBVIOUS
<1> HIDE DEF Init
<1>8. QED
  BY <1>1, <1>2, <1>3, <1>4, <1>5, <1>6, <1>7 DEF TypeOK, Steps

\* The bounds stay bounds, whatever is counted.
LEMMA BoundsType ==
  ASSUME TypeOK, [Next]_vars
  PROVE  /\ values' \in 0..MaxValues /\ faults' \in 0..MaxFaults
         /\ reloads' \in 0..MaxReloads /\ trusts' \in 0..MaxTrusts
<1> DEFINE Goal == /\ values' \in 0..MaxValues /\ faults' \in 0..MaxFaults
                   /\ reloads' \in 0..MaxReloads /\ trusts' \in 0..MaxTrusts
<1> USE SettingsAssumption DEF TypeOK
<1>1. CASE UNCHANGED bounds
  BY <1>1 DEF bounds
<1>2. ASSUME NEW p \in Processes, Step(p) PROVE UNCHANGED bounds
  BY <1>2 DEF Step, TaskBegins, TaskRefused, TaskWrites, Reloaded
<1>3. ASSUME NEW p \in Processes, LockBusy(p) PROVE Goal
  BY <1>3 DEF LockBusy, Fault
<1>4. ASSUME NEW p \in Processes, Reload(p) PROVE Goal
  BY <1>4 DEF Reload
<1>5. ASSUME NEW p \in Processes, Crash(p) PROVE Goal
  BY <1>5 DEF Crash, Fault
<1>6. ASSUME NEW p \in Processes, NEW trust \in BOOLEAN, SetProjectTrusted(p, trust) PROVE Goal
  BY <1>6 DEF SetProjectTrusted
<1>7. ASSUME NEW p \in Processes, NEW s \in Scope, NEW f \in Fields, Sets(p, s, f) PROVE Goal
  BY <1>7 DEF Sets
<1>8. ASSUME NEW s \in Scope, NEW f \in Fields, Edits(s, f) PROVE Goal
  BY <1>8 DEF Edits
<1>9. UNCHANGED vars => UNCHANGED bounds
  BY DEF vars
<1> HIDE DEF Goal, TypeOK
<1>10. QED
  BY <1>1, <1>2, <1>3, <1>4, <1>5, <1>6, <1>7, <1>8, <1>9 DEF Next, Goal

\* The queue after a write, and the reload that waits for it.
LEMMA NextTaskType ==
  ASSUME TypeOK, NEW p \in Processes, queue[p] # <<>>, NextTask(p)
  PROVE  /\ queue' \in [Processes -> Seq(Task)]
         /\ queue'[p] = Tail(queue[p])
         /\ \A r \in Processes \ {p} : queue'[r] = queue[r]
         /\ \A r \in Processes : awaited'[r] \in -1..Len(queue'[r])
         /\ awaited' \in [Processes -> Int]
<1>1. queue' = [queue EXCEPT ![p] = Tail(queue[p])]
      /\ awaited' = [awaited EXCEPT ![p] = IF awaited[p] > 0 THEN awaited[p] - 1 ELSE awaited[p]]
  BY DEF NextTask
<1>2. QED
  BY <1>1, Types, QueueType
\* A setter.
LEMMA SetsType ==
  ASSUME TypeOK, NEW p \in Processes, NEW s \in Scope, NEW f \in Fields, Sets(p, s, f)
  PROVE  LET mine == [memory[p] EXCEPT ![s][f] = values + 1]
             task == [scope |-> s, settings |-> mine[s], fields |-> modified[p][s] \cup {f}]
         IN  /\ memory' = [memory EXCEPT ![p] = mine] /\ mine \in [Scope -> Content]
             /\ mine[s][f] = values + 1 /\ values + 1 \in 1..MaxValues
             /\ task \in Task
             /\ settings' = [settings EXCEPT ![p] = Effective(mine["global"], mine["project"])]
             /\ modified' = [modified EXCEPT ![p] = [modified[p] EXCEPT ![s] = modified[p][s] \cup {f}]]
             /\ queue' = IF s \in loadFailed[p] THEN queue
                         ELSE [queue EXCEPT ![p] = Append(queue[p], task)]
             /\ owed' = [owed EXCEPT ![p] = [owed[p] EXCEPT ![s] = [owed[p][s] EXCEPT ![f] = values + 1]]]
<1> USE SettingsAssumption
<1> DEFINE mine == [memory[p] EXCEPT ![s][f] = values + 1]
           task == [scope |-> s, settings |-> mine[s], fields |-> modified[p][s] \cup {f}]
<1>1. values + 1 \in 1..MaxValues
  BY Types DEF Sets
<1>2. mine \in [Scope -> Content] /\ mine[s][f] = values + 1
  <2>1. memory[p] \in [Scope -> Content] /\ memory[p][s] \in Content
    BY Types
  <2>2. mine = [memory[p] EXCEPT ![s] = [memory[p][s] EXCEPT ![f] = values + 1]]
    OBVIOUS
  <2>3. [memory[p][s] EXCEPT ![f] = values + 1] \in Content
    BY <1>1, <2>1 DEF Content
  <2>4. QED
    BY <2>1, <2>2, <2>3 DEF Content
<1>3. task \in Task
  <2>1. mine[s] \in Content /\ modified[p][s] \cup {f} \subseteq Fields
    BY <1>2, Types
  <2> HIDE DEF mine
  <2>2. QED
    BY <2>1 DEF Task
<1>4. QED
  BY <1>1, <1>2, <1>3 DEF Sets

\* What a write puts into the file.
LEMMA PersistedType ==
  ASSUME TypeOK, NEW task \in Task, file[task.scope] # Broken
  PROVE  Persisted(task) \in Content
<1>1. task.scope \in Scope /\ task.settings \in Content /\ task.fields \subseteq Fields
  BY DEF Task
<1>2. Loaded(task.scope) \in Content
  BY <1>1, NothingType, Types DEF Loaded
<1>3. QED
  BY <1>1, <1>2 DEF Persisted, Content

\* What is still owed after a write.
LEMMA StillOwedType ==
  ASSUME TypeOK, NEW p \in Processes, NEW task \in Task
  PROVE  StillOwed(p, task) \in Content
<1>1. task.scope \in Scope
  BY DEF Task
<1>2. owed[p][task.scope] \in Content
  BY <1>1, Types
<1>3. QED
  BY <1>2, SettingsAssumption DEF StillOwed, Content

\* The memory after a reload.
LEMMA ReloadedType ==
  ASSUME TypeOK, NEW p \in Processes, Reloaded(p)
  PROVE  LET failed == {s \in Scope : LoadFailsFor(s, TrustAtReload(p))}
             mine == [s \in Scope |-> IF s \in failed THEN memory[p][s]
                                     ELSE LoadedFor(s, TrustAtReload(p))]
         IN  /\ mine \in [Scope -> Content] /\ memory' = [memory EXCEPT ![p] = mine]
             /\ settings' = [settings EXCEPT ![p] = Effective(mine["global"], mine["project"])]
             /\ loadFailed' = [loadFailed EXCEPT ![p] = failed] /\ failed \subseteq Scope
             /\ reported' = [reported EXCEPT ![p] = reported[p] \/ failed # {}]
<1>1. TrustAtReload(p) \in BOOLEAN
  BY Types DEF TrustAtReload
<1>2. \A s \in Scope : memory[p][s] \in Content
  BY Types
<1>3. \A s \in Scope : ~LoadFailsFor(s, TrustAtReload(p)) => LoadedFor(s, TrustAtReload(p)) \in Content
  BY <1>1, LoadedForType
<1>4. QED
  BY <1>2, <1>3 DEF Reloaded

\* The project's settings after a change of trust.
LEMMA TrustType ==
  ASSUME TypeOK, NEW p \in Processes, NEW trust \in BOOLEAN, SetProjectTrusted(p, trust)
  PROVE  LET failed == LoadFailsFor("project", trust)
             project == IF failed THEN Nothing ELSE LoadedFor("project", trust)
         IN  /\ project \in Content
             /\ ~trust => project = Nothing
             /\ trusted' = [trusted EXCEPT ![p] = trust]
             /\ memory' = [memory EXCEPT ![p] = [memory[p] EXCEPT !["project"] = project]]
             /\ settings' = [settings EXCEPT ![p] = Effective(memory[p]["global"], project)]
             /\ loadFailed' = [loadFailed EXCEPT ![p] =
                  (loadFailed[p] \ {"project"}) \cup (IF failed THEN {"project"} ELSE {})]
             /\ reported' = [reported EXCEPT ![p] = reported[p] \/ failed]
BY NothingType, LoadedForType DEF SetProjectTrusted, LoadedFor, Scope
\* No step of a process, of another program or of a fault breaks a type.
LEMMA TypeNext == TypeOK /\ [Next]_vars => TypeOK'
<1> SUFFICES ASSUME TypeOK, [Next]_vars PROVE TypeOK'
  OBVIOUS
<1>b. /\ values' \in 0..MaxValues /\ faults' \in 0..MaxFaults
      /\ reloads' \in 0..MaxReloads /\ trusts' \in 0..MaxTrusts
  BY BoundsType
<1>1. ASSUME NEW p \in Processes, NEW s \in Scope, NEW f \in Fields, Sets(p, s, f)
      PROVE  TypeOK'
  <2>1. /\ UNCHANGED <<disk, alive, trusted, loadFailed, writing, awaited, reported>>
        /\ forgotten' = [forgotten EXCEPT ![p] = [forgotten[p] EXCEPT ![s] = forgotten[p][s] \ {f}]]
    BY <1>1 DEF Sets
  <2>2. forgotten' \in [Processes -> [Scope -> SUBSET Fields]]
    BY <2>1 DEF TypeOK
  <2> DEFINE mine == [memory[p] EXCEPT ![s][f] = values + 1]
             task == [scope |-> s, settings |-> mine[s], fields |-> modified[p][s] \cup {f}]
  <2>3. /\ memory' = [memory EXCEPT ![p] = mine] /\ mine \in [Scope -> Content]
        /\ values + 1 \in 1..MaxValues /\ task \in Task
        /\ settings' = [settings EXCEPT ![p] = Effective(mine["global"], mine["project"])]
        /\ modified' = [modified EXCEPT ![p] = [modified[p] EXCEPT ![s] = modified[p][s] \cup {f}]]
        /\ queue' = IF s \in loadFailed[p] THEN queue
                    ELSE [queue EXCEPT ![p] = Append(queue[p], task)]
        /\ owed' = [owed EXCEPT ![p] = [owed[p] EXCEPT ![s] = [owed[p][s] EXCEPT ![f] = values + 1]]]
    BY <1>1, SetsType
  <2> HIDE DEF mine, task
  <2>4. memory' \in [Processes -> [Scope -> Content]] /\ settings' \in [Processes -> Content]
    <3>1. Effective(mine["global"], mine["project"]) \in Content
      BY <2>3, EffectiveType DEF Scope
    <3>2. QED
      BY <2>3, <3>1, Types
  <2>5. modified' \in [Processes -> [Scope -> SUBSET Fields]]
    BY <2>3, Types
  <2>6. owed' \in [Processes -> [Scope -> Content]]
    <3>1. [owed[p][s] EXCEPT ![f] = values + 1] \in Content
      BY <2>3, Types DEF Content
    <3>2. QED
      BY <2>3, <3>1, Types
  <2>7. /\ queue' \in [Processes -> Seq(Task)]
        /\ \A r \in Processes : Len(queue'[r]) >= Len(queue[r])
        /\ \A r \in Processes : queue[r] # <<>> => queue'[r] # <<>>
    <3>1. CASE s \in loadFailed[p]
      <4>1. queue' = queue
        BY <2>3, <3>1
      <4>2. QED
        BY <4>1, Types
    <3>2. CASE s \notin loadFailed[p]
      <4>1. queue' = [queue EXCEPT ![p] = Append(queue[p], task)]
        BY <2>3, <3>2
      <4>2. /\ Append(queue[p], task) \in Seq(Task) /\ Append(queue[p], task) # <<>>
            /\ Len(Append(queue[p], task)) = Len(queue[p]) + 1 /\ Len(queue[p]) \in Nat
        <5>1. queue[p] \in Seq(Task) /\ task \in Task
          BY <2>3, Types
        <5>2. QED
          BY <5>1, AppendProperties, LenProperties
      <4>3. \A r \in Processes : queue'[r] = IF r = p THEN Append(queue[p], task) ELSE queue[r]
        BY <4>1, Types
      <4>4. \A r \in Processes : Len(queue[r]) \in Nat
        BY Types, LenProperties
      <4>5. QED
        BY <4>1, <4>2, <4>3, <4>4, Types
    <3>3. QED
      BY <3>1, <3>2
  <2>8. \A r \in Processes : awaited'[r] \in -1..Len(queue'[r])
    BY <2>1, <2>7, Types
  <2>9. QED
    BY <1>b, <2>1, <2>2, <2>4, <2>5, <2>6, <2>7, <2>8 DEF TypeOK, disk, writing
<1>2. ASSUME NEW p \in Processes, TaskBegins(p) PROVE TypeOK'
  <2>1. queue[p] # <<>> /\ Head(queue[p]) \in Task /\ file[Head(queue[p]).scope] # Broken
    BY <1>2, QueueType DEF TaskBegins
  <2>2. Persisted(Head(queue[p])) \in Content
    BY <2>1, PersistedType
  <2>3. Head(queue[p]).scope \in Scope
    BY <2>1 DEF Task
  <2>4. /\ UNCHANGED <<file, bounds, alive, state, queue, awaited, history>>
        /\ merged' = [merged EXCEPT ![p] = Persisted(Head(queue[p]))]
        /\ step' = [step EXCEPT ![p] = "missing"] \/ step' = [step EXCEPT ![p] = "locked"]
        /\ holder' = holder \/ holder' = [holder EXCEPT ![Head(queue[p]).scope] = p]
    BY <1>2 DEF TaskBegins
  <2>5. merged' \in [Processes -> Content] /\ step' \in [Processes -> Steps]
        /\ holder' \in [Scope -> Processes \cup {Nobody}]
        /\ \A r \in Processes : step'[r] # "none" => queue[r] # <<>>
    <3>1. merged' \in [Processes -> Content]
      BY <2>2, <2>4, Types
    <3>2. holder' \in [Scope -> Processes \cup {Nobody}]
      BY <2>3, <2>4, Types
    <3>3. step' \in [Processes -> Steps] /\ \A r \in Processes \ {p} : step'[r] = step[r]
      BY <2>4, Types DEF Steps
    <3>4. QED
      BY <2>1, <3>1, <3>2, <3>3, Types
  <2>6. QED
    BY <1>b, <2>4, <2>5 DEF TypeOK, Steps, state, history
<1>3. ASSUME NEW p \in Processes, TaskRefused(p) \/ LockBusy(p) PROVE TypeOK'
  <2>1. queue[p] # <<>> /\ NextTask(p) /\ UNCHANGED disk
        /\ reported' = [reported EXCEPT ![p] = TRUE] /\ modified' = modified
        /\ UNCHANGED <<alive, memory, settings, trusted, loadFailed, owed, forgotten>>
    BY <1>3 DEF TaskRefused, LockBusy, TaskFailed, Caught, MarksAfterFailure
  <2>2. \/ step' = step /\ merged' = merged
        \/ step' = [step EXCEPT ![p] = "none"] /\ merged' = [merged EXCEPT ![p] = Nothing]
    <3>1. CASE TaskRefused(p)
      BY <3>1 DEF TaskRefused, writing
    <3>2. CASE LockBusy(p)
      BY <3>2 DEF LockBusy
    <3>3. QED
      BY <1>3, <3>1, <3>2
  <2>3. step'[p] = "none"
    BY <1>3, Types DEF TaskRefused, LockBusy, Runs, writing
  <2>4. step' \in [Processes -> Steps] /\ merged' \in [Processes -> Content]
        /\ \A r \in Processes \ {p} : step'[r] = step[r]
    <3>1. CASE step' = step /\ merged' = merged
      BY <3>1, Types
    <3>2. CASE step' = [step EXCEPT ![p] = "none"] /\ merged' = [merged EXCEPT ![p] = Nothing]
      BY <3>2, Types, NothingType DEF Steps
    <3>3. QED
      BY <2>2, <3>1, <3>2
  <2>5. /\ queue' \in [Processes -> Seq(Task)] /\ awaited' \in [Processes -> Int]
        /\ \A r \in Processes \ {p} : queue'[r] = queue[r]
        /\ \A r \in Processes : awaited'[r] \in -1..Len(queue'[r])
    BY <2>1, NextTaskType
  <2>6. \A r \in Processes : step'[r] # "none" => queue'[r] # <<>>
    BY <2>3, <2>4, <2>5, Types
  <2>7. reported' \in [Processes -> BOOLEAN]
    BY <2>1, Types
  <2>8. QED
    BY <1>b, <2>1, <2>4, <2>5, <2>6, <2>7 DEF TypeOK, Steps, disk
<1>4. ASSUME NEW p \in Processes, TaskWrites(p) PROVE TypeOK'
  <2> DEFINE task == Head(queue[p])
             s == task.scope
  <2>1. step[p] # "none" /\ queue[p] # <<>> /\ task \in Task
    BY <1>4, Types, QueueType DEF TaskWrites
  <2>2. s \in Scope
    BY <2>1 DEF Task
  <2>3. /\ file' = [file EXCEPT ![s] = merged[p]] /\ holder' = [holder EXCEPT ![s] = Nobody]
        /\ modified' = [modified EXCEPT ![p] = [modified[p] EXCEPT ![s] = {}]]
        /\ owed' = [owed EXCEPT ![p] = [owed[p] EXCEPT ![s] = StillOwed(p, task)]]
        /\ step' = [step EXCEPT ![p] = "none"] /\ merged' = [merged EXCEPT ![p] = Nothing]
        /\ NextTask(p) /\ Forgets(p, {s})
        /\ UNCHANGED <<alive, memory, settings, trusted, loadFailed, reported>>
    BY <1>4 DEF TaskWrites, Unlocked, Cleared
  <2>4. StillOwed(p, task) \in Content
    BY <2>1, StillOwedType
  <2> HIDE DEF task, s
  <2>5. file' \in [Scope -> Content \cup {Absent, Broken}]
        /\ holder' \in [Scope -> Processes \cup {Nobody}]
        /\ modified' \in [Processes -> [Scope -> SUBSET Fields]]
        /\ owed' \in [Processes -> [Scope -> Content]]
    BY <2>2, <2>3, <2>4, Types
  <2>6. step' \in [Processes -> Steps] /\ merged' \in [Processes -> Content]
        /\ step'[p] = "none" /\ \A r \in Processes \ {p} : step'[r] = step[r]
    BY <2>3, Types, NothingType DEF Steps
  <2>7. /\ queue' \in [Processes -> Seq(Task)] /\ awaited' \in [Processes -> Int]
        /\ \A r \in Processes \ {p} : queue'[r] = queue[r]
        /\ \A r \in Processes : awaited'[r] \in -1..Len(queue'[r])
    BY <2>1, <2>3, NextTaskType
  <2>8. \A r \in Processes : step'[r] # "none" => queue'[r] # <<>>
    BY <2>6, <2>7, Types
  <2>9. forgotten' \in [Processes -> [Scope -> SUBSET Fields]]
    BY <2>3 DEF Forgets, TypeOK
  <2>10. QED
    BY <1>b, <2>3, <2>5, <2>6, <2>7, <2>8, <2>9 DEF TypeOK, Steps
<1>5. ASSUME NEW p \in Processes, Reload(p) PROVE TypeOK'
  <2>1. awaited' = [awaited EXCEPT ![p] = Len(queue[p])]
        /\ UNCHANGED <<disk, alive, state, queue, writing, history>>
    BY <1>5 DEF Reload
  <2>2. awaited' \in [Processes -> Int] /\ \A r \in Processes : awaited'[r] \in -1..Len(queue[r])
    BY <2>1, Types
  <2>3. QED
    BY <1>b, <2>1, <2>2 DEF TypeOK, disk, state, writing, history
<1>6. ASSUME NEW p \in Processes, Reloaded(p) PROVE TypeOK'
  <2> DEFINE failed == {s \in Scope : LoadFailsFor(s, TrustAtReload(p))}
             mine == [s \in Scope |-> IF s \in failed THEN memory[p][s]
                                     ELSE LoadedFor(s, TrustAtReload(p))]
  <2>1. /\ mine \in [Scope -> Content] /\ memory' = [memory EXCEPT ![p] = mine]
        /\ settings' = [settings EXCEPT ![p] = Effective(mine["global"], mine["project"])]
        /\ loadFailed' = [loadFailed EXCEPT ![p] = failed] /\ failed \subseteq Scope
        /\ reported' = [reported EXCEPT ![p] = reported[p] \/ failed # {}]
    BY <1>6, ReloadedType
  <2>2. /\ awaited' = [awaited EXCEPT ![p] = -1]
        /\ modified' = [modified EXCEPT ![p] = [s \in Scope |-> {}]]
        /\ UNCHANGED <<disk, alive, trusted, queue, writing, owed>> /\ Forgets(p, Scope)
    BY <1>6 DEF Reloaded
  <2> HIDE DEF failed, mine
  <2>3. Effective(mine["global"], mine["project"]) \in Content
    BY <2>1, EffectiveType DEF Scope
  <2>4. memory' \in [Processes -> [Scope -> Content]] /\ settings' \in [Processes -> Content]
        /\ loadFailed' \in [Processes -> SUBSET Scope] /\ reported' \in [Processes -> BOOLEAN]
    BY <2>1, <2>3, Types
  <2>5. modified' \in [Processes -> [Scope -> SUBSET Fields]]
    BY <2>2, Types
  <2>6. awaited' \in [Processes -> Int] /\ \A r \in Processes : awaited'[r] \in -1..Len(queue[r])
    BY <2>2, Types
  <2>7. forgotten' \in [Processes -> [Scope -> SUBSET Fields]]
    BY <2>2 DEF Forgets, TypeOK
  <2>8. QED
    BY <1>b, <2>2, <2>4, <2>5, <2>6, <2>7 DEF TypeOK, disk, writing
<1>7. ASSUME NEW p \in Processes, NEW trust \in BOOLEAN, SetProjectTrusted(p, trust) PROVE TypeOK'
  <2> DEFINE failed == LoadFailsFor("project", trust)
             project == IF failed THEN Nothing ELSE LoadedFor("project", trust)
  <2>1. /\ project \in Content
        /\ trusted' = [trusted EXCEPT ![p] = trust]
        /\ memory' = [memory EXCEPT ![p] = [memory[p] EXCEPT !["project"] = project]]
        /\ settings' = [settings EXCEPT ![p] = Effective(memory[p]["global"], project)]
        /\ loadFailed' = [loadFailed EXCEPT ![p] =
             (loadFailed[p] \ {"project"}) \cup (IF failed THEN {"project"} ELSE {})]
        /\ reported' = [reported EXCEPT ![p] = reported[p] \/ failed]
    BY <1>7, TrustType
  <2>2. /\ modified' = [modified EXCEPT ![p] = [modified[p] EXCEPT !["project"] = {}]]
        /\ UNCHANGED <<disk, alive, queue, writing, awaited, owed>> /\ Forgets(p, {"project"})
    BY <1>7 DEF SetProjectTrusted
  <2> HIDE DEF project
  <2>3. failed \in BOOLEAN
    BY DEF LoadFailsFor, LoadFails
  <2> HIDE DEF failed
  <2>4. Effective(memory[p]["global"], project) \in Content
    BY <2>1, EffectiveType, Types DEF Scope
  <2>5. memory' \in [Processes -> [Scope -> Content]] /\ settings' \in [Processes -> Content]
    BY <2>1, <2>4, Types DEF Scope
  <2>6. loadFailed' \in [Processes -> SUBSET Scope]
    BY <2>1, Types DEF Scope
  <2>7. reported' \in [Processes -> BOOLEAN] /\ trusted' \in [Processes -> BOOLEAN]
    BY <2>1, <2>3, Types
  <2>8. modified' \in [Processes -> [Scope -> SUBSET Fields]]
    BY <2>2, Types DEF Scope
  <2>9. forgotten' \in [Processes -> [Scope -> SUBSET Fields]]
    BY <2>2 DEF Forgets, TypeOK
  <2>10. QED
    BY <1>b, <2>2, <2>5, <2>6, <2>7, <2>8, <2>9 DEF TypeOK, disk, writing
<1>8. ASSUME NEW s \in Scope, NEW f \in Fields, Edits(s, f) PROVE TypeOK'
  <2>1. /\ UNCHANGED <<holder, alive, state, queue, writing, awaited, history>>
        /\ values < MaxValues /\ values' = values + 1
        /\ \/ file' = [file EXCEPT ![s] = Broken]
           \/ file[s] = Broken /\ file' = [file EXCEPT ![s] = Nothing]
           \/ file[s] # Broken /\ file' = [file EXCEPT ![s] = [Loaded(s) EXCEPT ![f] = values + 1]]
    BY <1>8 DEF Edits
  <2>2. file[s] # Broken => [Loaded(s) EXCEPT ![f] = values + 1] \in Content
    <3>1. file[s] # Broken => Loaded(s) \in Content
      BY NothingType, Types DEF Loaded
    <3>2. QED
      BY <1>b, <2>1, <3>1, Types, SettingsAssumption DEF Content
  <2>3. file' \in [Scope -> Content \cup {Absent, Broken}]
    BY <2>1, <2>2, Types, NothingType
  <2>4. QED
    BY <1>b, <2>1, <2>3 DEF TypeOK, state, writing, history
<1>9. ASSUME NEW p \in Processes, Crash(p) PROVE TypeOK'
  <2>1. /\ alive' = alive \ {p} /\ UNCHANGED <<state, history>>
        /\ holder' = [s \in Scope |-> IF holder[s] = p THEN Nobody ELSE holder[s]]
        /\ step' = [step EXCEPT ![p] = "none"] /\ merged' = [merged EXCEPT ![p] = Nothing]
        /\ queue' = [queue EXCEPT ![p] = <<>>] /\ awaited' = [awaited EXCEPT ![p] = -1]
        /\ \/ file' = file
           \/ \E s \in Scope : \E left \in {Nothing, Broken} : file' = [file EXCEPT ![s] = left]
    BY <1>9 DEF Crash
  <2>2. file' \in [Scope -> Content \cup {Absent, Broken}]
    BY <2>1, Types, NothingType
  <2>3. holder' \in [Scope -> Processes \cup {Nobody}]
    BY <2>1, Types
  <2>4. /\ queue' \in [Processes -> Seq(Task)] /\ awaited' \in [Processes -> Int]
        /\ queue'[p] = <<>> /\ awaited'[p] = -1
        /\ \A r \in Processes \ {p} : queue'[r] = queue[r] /\ awaited'[r] = awaited[r]
    BY <2>1, Types
  <2>5. \A r \in Processes : awaited'[r] \in -1..Len(queue'[r])
    BY <2>4, Types
  <2>6. /\ step' \in [Processes -> Steps] /\ merged' \in [Processes -> Content]
        /\ \A r \in Processes : step'[r] # "none" => queue'[r] # <<>>
    BY <2>1, <2>4, Types, NothingType DEF Steps
  <2>7. QED
    BY <1>b, <2>1, <2>2, <2>3, <2>4, <2>5, <2>6 DEF TypeOK, Steps, state, history
<1>10. ASSUME UNCHANGED vars PROVE TypeOK'
  BY <1>10 DEF TypeOK, vars, disk, bounds, state, writing, history
<1>11. QED
  BY <1>1, <1>2, <1>3, <1>4, <1>5, <1>6, <1>7, <1>8, <1>9, <1>10 DEF Next, Step

\* Every variable keeps its type, for any number of processes, fields and faults: a write
\* is in progress only at the head of a queue, and a reload waits for no more writes than
\* are queued.
THEOREM TypeCorrect == Spec => []TypeOK
BY TypeInit, TypeNext, PTL DEF Spec

-----------------------------------------------------------------------------
(* Trust. *)

\* At the start the settings in use are those of trusted files, and nothing was written.
LEMMA TrustInit == Init => TrustInv /\ UntrustedUnwritten
<1> SUFFICES ASSUME Init PROVE TrustInv /\ UntrustedUnwritten
  OBVIOUS
<1>1. Effective(Nothing, Nothing) = Nothing
  BY NothingType, EffectiveOfNothing
<1>2. QED
  BY <1>1 DEF Init, TrustInv, Current, UntrustedUnwritten, Scope

\* The settings in use stay the effective ones, and those of an untrusted project stay empty.
LEMMA TrustNext == TypeOK /\ TrustInv /\ [Next]_vars => TrustInv'
<1> SUFFICES ASSUME TypeOK, TrustInv, [Next]_vars, NEW r \in Processes PROVE Current(r)'
  BY DEF TrustInv
<1>0. Current(r)
  BY DEF TrustInv
<1>1. ASSUME NEW p \in Processes, NEW s \in Scope, NEW f \in Fields, Sets(p, s, f)
      PROVE  Current(r)'
  <2> DEFINE mine == [memory[p] EXCEPT ![s][f] = values + 1]
  <2>1. /\ memory' = [memory EXCEPT ![p] = mine]
        /\ settings' = [settings EXCEPT ![p] = Effective(mine["global"], mine["project"])]
        /\ trusted' = trusted
    BY <1>1, SetsType DEF Sets
  <2>2. s = "global" \/ trusted[p]
    BY <1>1 DEF Sets
  <2>3. s = "global" => mine["project"] = memory[p]["project"]
    BY Types DEF Scope
  <2> HIDE DEF mine
  <2>4. QED
    BY <1>0, <2>1, <2>2, <2>3, Types DEF Current
<1>2. ASSUME NEW p \in Processes, Reloaded(p) PROVE Current(r)'
  <2> DEFINE failed == {s \in Scope : LoadFailsFor(s, TrustAtReload(p))}
             mine == [s \in Scope |-> IF s \in failed THEN memory[p][s]
                                     ELSE LoadedFor(s, TrustAtReload(p))]
  <2>1. /\ memory' = [memory EXCEPT ![p] = mine] /\ trusted' = trusted
        /\ settings' = [settings EXCEPT ![p] = Effective(mine["global"], mine["project"])]
    BY <1>2, ReloadedType DEF Reloaded
  <2>2. ~trusted[p] => mine["project"] = Nothing
    BY DEF Scope, TrustAtReload, LoadFailsFor, LoadedFor
  <2> HIDE DEF mine
  <2>3. QED
    BY <1>0, <2>1, <2>2, Types DEF Current
<1>3. ASSUME NEW p \in Processes, NEW trust \in BOOLEAN, SetProjectTrusted(p, trust)
      PROVE  Current(r)'
  <2> DEFINE project == IF LoadFailsFor("project", trust) THEN Nothing ELSE LoadedFor("project", trust)
  <2>1. /\ ~trust => project = Nothing
        /\ trusted' = [trusted EXCEPT ![p] = trust]
        /\ memory' = [memory EXCEPT ![p] = [memory[p] EXCEPT !["project"] = project]]
        /\ settings' = [settings EXCEPT ![p] = Effective(memory[p]["global"], project)]
    BY <1>3, TrustType
  <2> HIDE DEF project
  <2>2. memory'[p]["global"] = memory[p]["global"] /\ memory'[p]["project"] = project
    BY <2>1, Types DEF Scope
  <2>3. QED
    BY <1>0, <2>1, <2>2, Types DEF Current
<1>4. ASSUME UNCHANGED <<memory, settings, trusted>> PROVE Current(r)'
  BY <1>0, <1>4 DEF Current
<1>5. ASSUME NEW p \in Processes,
             TaskBegins(p) \/ TaskRefused(p) \/ TaskWrites(p) \/ LockBusy(p) \/ Reload(p) \/ Crash(p)
      PROVE  UNCHANGED <<memory, settings, trusted>>
  BY <1>5 DEF TaskBegins, TaskRefused, TaskWrites, LockBusy, TaskFailed, Reload, Crash, state
<1>6. ASSUME NEW s \in Scope, NEW f \in Fields, Edits(s, f)
      PROVE  UNCHANGED <<memory, settings, trusted>>
  BY <1>6 DEF Edits, state
<1>7. UNCHANGED vars => UNCHANGED <<memory, settings, trusted>>
  BY DEF vars, state
<1>8. QED
  BY <1>1, <1>2, <1>3, <1>4, <1>5, <1>6, <1>7 DEF Next, Step

\* Nothing of an untrusted project is in use, for any number of processes and whatever is
\* loaded, set, reloaded or fails.
THEOREM UntrustedUnused == Spec => []ProjectNeedsTrust
<1>1. TypeOK /\ TrustInv => ProjectNeedsTrust
  <2> SUFFICES ASSUME TypeOK, TrustInv, NEW p \in Processes, ~trusted[p]
               PROVE  settings[p] = memory[p]["global"]
    BY DEF ProjectNeedsTrust
  <2>1. memory[p]["global"] \in Content
    BY Types DEF Scope
  <2>2. QED
    BY <2>1, EffectiveOfNothing DEF TrustInv, Current
<1>2. QED
  BY <1>1, TypeInit, TypeNext, TrustInit, TrustNext, PTL DEF Spec

\* No write of an untrusted project begins, and one that runs ends without writing.
LEMMA UnwrittenNext == TypeOK /\ UntrustedUnwritten /\ [Next]_vars => UntrustedUnwritten'
<1> SUFFICES ASSUME TypeOK, UntrustedUnwritten, [Next]_vars, NEW r \in Processes,
                    step'[r] # "none", Head(queue'[r]).scope = "project"
             PROVE  trusted'[r]
  BY DEF UntrustedUnwritten
<1>0. step[r] # "none" /\ Head(queue[r]).scope = "project" => trusted[r]
  BY DEF UntrustedUnwritten
<1>1. ASSUME NEW p \in Processes, NEW s \in Scope, NEW f \in Fields, Sets(p, s, f)
      PROVE  trusted'[r]
  <2>1. trusted' = trusted /\ step' = step /\ step[p] = "none"
    BY <1>1 DEF Sets, Runs, writing
  <2>2. r # p
    BY <2>1
  <2>3. queue' = queue \/ \E task : queue' = [queue EXCEPT ![p] = Append(@, task)]
    BY <1>1 DEF Sets
  <2>4. queue'[r] = queue[r]
    BY <2>2, <2>3, Types
  <2>5. QED
    BY <1>0, <2>1, <2>4
<1>2. ASSUME NEW p \in Processes, TaskBegins(p) PROVE trusted'[r]
  <2>1. UNCHANGED <<trusted, queue>> /\ MayWrite(p, Head(queue[p]))
        /\ \A q \in Processes \ {p} : step'[q] = step[q]
    BY <1>2, Types DEF TaskBegins, state
  <2>2. QED
    BY <1>0, <2>1 DEF MayWrite
<1>3. ASSUME NEW p \in Processes, TaskRefused(p) \/ LockBusy(p) \/ TaskWrites(p) PROVE trusted'[r]
  <2>1. trusted' = trusted /\ queue[p] # <<>> /\ NextTask(p)
    BY <1>3, Types DEF TaskRefused, LockBusy, TaskWrites, TaskFailed
  <2>2. step'[p] = "none" /\ \A q \in Processes \ {p} : step'[q] = step[q]
    BY <1>3, Types DEF TaskRefused, LockBusy, TaskWrites, Runs, writing
  <2>3. r # p /\ queue'[r] = queue[r]
    BY <2>1, <2>2, NextTaskType
  <2>4. QED
    BY <1>0, <2>1, <2>2, <2>3
<1>4. ASSUME NEW p \in Processes, NEW trust \in BOOLEAN, SetProjectTrusted(p, trust)
      PROVE  trusted'[r]
  <2>1. step' = step /\ queue' = queue /\ step[p] = "none" /\ trusted' = [trusted EXCEPT ![p] = trust]
    BY <1>4 DEF SetProjectTrusted, Runs, writing
  <2>2. QED
    BY <1>0, <2>1, Types
<1>5. ASSUME NEW p \in Processes, Crash(p) PROVE trusted'[r]
  <2>1. trusted' = trusted /\ step' = [step EXCEPT ![p] = "none"] /\ queue' = [queue EXCEPT ![p] = <<>>]
    BY <1>5 DEF Crash, state
  <2>2. QED
    BY <1>0, <2>1, Types
<1>6. ASSUME UNCHANGED <<trusted, queue, step>> PROVE trusted'[r]
  BY <1>0, <1>6
<1>7. ASSUME NEW p \in Processes, Reload(p) \/ Reloaded(p) PROVE UNCHANGED <<trusted, queue, step>>
  BY <1>7 DEF Reload, Reloaded, state, writing
<1>8. ASSUME NEW s \in Scope, NEW f \in Fields, Edits(s, f) PROVE UNCHANGED <<trusted, queue, step>>
  BY <1>8 DEF Edits, state, writing
<1>9. UNCHANGED vars => UNCHANGED <<trusted, queue, step>>
  BY DEF vars, state, writing
<1>10. QED
  BY <1>1, <1>2, <1>3, <1>4, <1>5, <1>6, <1>7, <1>8, <1>9 DEF Next, Step

\* No process is ever in the middle of a write of the settings of a project that it does not
\* trust, also when the trust was withdrawn after the write was queued.
THEOREM UntrustedNeverWritten == Spec => []UntrustedUnwritten
BY TypeInit, TypeNext, TrustInit, UnwrittenNext, PTL DEF Spec

-----------------------------------------------------------------------------
(* No setting is lost in silence. *)

\* At the start nothing is owed.
LEMMA LossInit == Init => LossInv
BY DEF Init, LossInv, OwedQueued, Nothing

\* A value stays in the queue when a task is appended ...
LEMMA QueuedAppend ==
  ASSUME NEW q \in Seq(Task), NEW task \in Task, NEW s, NEW f, NEW v, Queued(q, s, f, v)
  PROVE  Queued(Append(q, task), s, f, v)
<1>1. PICK i \in 1..Len(q) : q[i].scope = s /\ f \in q[i].fields /\ q[i].settings[f] = v
  BY DEF Queued
<1>2. i \in 1..Len(Append(q, task)) /\ Append(q, task)[i] = q[i]
  BY AppendProperties
<1>3. QED
  BY <1>1, <1>2 DEF Queued

\* ... and when the task at the head is dropped that does not hold it.
LEMMA QueuedTail ==
  ASSUME NEW q \in Seq(Task), q # <<>>, NEW s, NEW f, NEW v, Queued(q, s, f, v),
         ~(Head(q).scope = s /\ f \in Head(q).fields /\ Head(q).settings[f] = v)
  PROVE  Queued(Tail(q), s, f, v)
<1>1. PICK i \in 1..Len(q) : q[i].scope = s /\ f \in q[i].fields /\ q[i].settings[f] = v
  BY DEF Queued
<1>2. Head(q) = q[1] /\ Len(Tail(q)) = Len(q) - 1 /\ Len(q) \in Nat
      /\ \A j \in 1..Len(Tail(q)) : Tail(q)[j] = q[j + 1]
  BY HeadTailProperties, EmptySeq
<1>3. i # 1
  BY <1>1, <1>2
<1>4. i - 1 \in 1..Len(Tail(q)) /\ Tail(q)[i - 1] = q[i]
  BY <1>2, <1>3
<1>5. QED
  BY <1>1, <1>4 DEF Queued

\* Steps that leave what a process owes, its queue and its errors alone.
LEMMA LossKept ==
  ASSUME LossInv, NEW r \in Processes, r \in alive,
         owed'[r] = owed[r], queue'[r] = queue[r], loadFailed'[r] = loadFailed[r], reported'[r] = reported[r]
  PROVE  (loadFailed'[r] # {} => reported'[r]) /\ OwedQueued(r)'
BY DEF LossInv, OwedQueued

\* A setter.
LEMMA LossSets ==
  ASSUME TypeOK, LossInv, NEW p \in Processes, NEW s \in Scope, NEW f \in Fields, Sets(p, s, f)
  PROVE  (loadFailed'[p] # {} => reported'[p]) /\ OwedQueued(p)'
<1> DEFINE mine == [memory[p] EXCEPT ![s][f] = values + 1]
           task == [scope |-> s, settings |-> mine[s], fields |-> modified[p][s] \cup {f}]
<1>1. /\ task \in Task /\ mine[s][f] = values + 1
      /\ queue' = IF s \in loadFailed[p] THEN queue ELSE [queue EXCEPT ![p] = Append(queue[p], task)]
      /\ owed' = [owed EXCEPT ![p] = [owed[p] EXCEPT ![s] = [owed[p][s] EXCEPT ![f] = values + 1]]]
  <2>1. task \in Task
    BY SetsType
  <2>2. mine[s][f] = values + 1
    BY SetsType
  <2>3. queue' = IF s \in loadFailed[p] THEN queue ELSE [queue EXCEPT ![p] = Append(queue[p], task)]
    BY SetsType
  <2>4. owed' = [owed EXCEPT ![p] = [owed[p] EXCEPT ![s] = [owed[p][s] EXCEPT ![f] = values + 1]]]
    BY DEF Sets
  <2>5. QED
    BY <2>1, <2>2, <2>3, <2>4
<1>2. loadFailed' = loadFailed /\ reported' = reported /\ p \in alive
  BY DEF Sets, Runs, state
<1>3. task.scope = s /\ f \in task.fields /\ task.settings[f] = values + 1
  BY <1>1
<1> HIDE DEF mine, task
<1>4. loadFailed[p] # {} => reported[p]
  BY <1>2 DEF LossInv
<1>5. CASE reported[p]
  BY <1>2, <1>5 DEF OwedQueued
<1>6. CASE ~reported[p]
  <2>1. queue'[p] = Append(queue[p], task) /\ queue[p] \in Seq(Task)
    BY <1>1, <1>4, <1>6, Types
  <2>2. ASSUME NEW t \in Scope, NEW g \in Fields, owed'[p][t][g] # 0
        PROVE  Queued(queue'[p], t, g, owed'[p][t][g])
    <3>1. owed[p] \in [Scope -> Content] /\ owed[p][s] \in [Fields -> 0..MaxValues]
          /\ owed'[p] = [owed[p] EXCEPT ![s] = [owed[p][s] EXCEPT ![f] = values + 1]]
      BY <1>1, Types DEF Content
    <3>2. CASE t = s /\ g = f
      <4>1. owed'[p][t][g] = values + 1
        BY <3>1, <3>2
      <4>2. Len(queue[p]) + 1 \in 1..Len(Append(queue[p], task))
            /\ Append(queue[p], task)[Len(queue[p]) + 1] = task
        BY <1>1, <2>1, AppendProperties
      <4>3. QED
        BY <1>3, <2>1, <3>2, <4>1, <4>2 DEF Queued
    <3>3. CASE ~(t = s /\ g = f)
      <4>1. owed'[p][t][g] = owed[p][t][g]
        BY <3>1, <3>3
      <4>2. Queued(queue[p], t, g, owed[p][t][g])
        BY <1>2, <1>6, <2>2, <4>1 DEF LossInv, OwedQueued
      <4>3. QED
        BY <1>1, <2>1, <4>1, <4>2, QueuedAppend
    <3>4. QED
      BY <3>2, <3>3
  <2>3. QED
    BY <1>2, <1>4, <2>2 DEF OwedQueued
<1>7. QED
  BY <1>5, <1>6

\* A write: what it puts into the file is no longer owed.
LEMMA LossWrites ==
  ASSUME TypeOK, LossInv, NEW p \in Processes, TaskWrites(p)
  PROVE  (loadFailed'[p] # {} => reported'[p]) /\ OwedQueued(p)'
<1> DEFINE task == Head(queue[p])
           s == task.scope
<1>1. /\ p \in alive /\ loadFailed' = loadFailed /\ reported' = reported
      /\ owed' = [owed EXCEPT ![p][s] = StillOwed(p, task)] /\ NextTask(p)
      /\ queue[p] # <<>>
  BY Types DEF TaskWrites
<1>2. task \in Task /\ queue[p] \in Seq(Task) /\ queue'[p] = Tail(queue[p])
  BY <1>1, QueueType, NextTaskType, Types
<1>3. s \in Scope /\ task.fields \subseteq Fields
  BY <1>2 DEF Task
<1> HIDE DEF task
<1>4. owed'[p] = [owed[p] EXCEPT ![s] = StillOwed(p, task)] /\ owed[p] \in [Scope -> Content]
  BY <1>1, Types
<1> HIDE DEF s
<1>5. ASSUME ~reported[p], NEW t \in Scope, NEW g \in Fields, owed'[p][t][g] # 0
      PROVE  Queued(queue'[p], t, g, owed'[p][t][g])
  <2>1. owed'[p][t][g] = owed[p][t][g]
        /\ ~(t = s /\ g \in task.fields /\ task.settings[g] = owed[p][t][g])
    <3>1. CASE t = s
      <4>1. owed'[p][t] = StillOwed(p, task)
        BY <1>3, <1>4, <3>1
      <4>2. StillOwed(p, task)[g] = IF g \in task.fields /\ owed[p][s][g] = task.settings[g]
                                    THEN 0 ELSE owed[p][s][g]
        BY DEF StillOwed, s
      <4>3. QED
        BY <1>5, <3>1, <4>1, <4>2
    <3>2. CASE t # s
      BY <1>3, <1>4, <3>2
    <3>3. QED
      BY <3>1, <3>2
  <2>2. Queued(queue[p], t, g, owed[p][t][g])
    BY <1>1, <1>5, <2>1 DEF LossInv, OwedQueued
  <2>3. QED
    BY <1>1, <1>2, <2>1, <2>2, QueuedTail DEF task, s
<1>6. loadFailed[p] # {} => reported[p]
  BY <1>1 DEF LossInv
<1>7. QED
  BY <1>1, <1>5, <1>6 DEF OwedQueued

\* A step of one process leaves what the others owe, their queues and their errors alone.
LEMMA LossOthers ==
  ASSUME TypeOK, NEW p \in Processes, NEW r \in Processes, r # p,
         \/ Step(p) \/ LockBusy(p) \/ Reload(p) \/ Crash(p)
         \/ \E trust \in BOOLEAN : SetProjectTrusted(p, trust)
         \/ \E s \in Scope : \E f \in Fields : Sets(p, s, f)
  PROVE  /\ owed'[r] = owed[r] /\ queue'[r] = queue[r]
         /\ loadFailed'[r] = loadFailed[r] /\ reported'[r] = reported[r]
<1>1. CASE TaskBegins(p) \/ Reload(p)
  BY <1>1 DEF TaskBegins, Reload, state, history
<1>2. CASE TaskRefused(p) \/ LockBusy(p)
  <2>1. queue[p] # <<>> /\ TaskFailed(p)
    BY <1>2 DEF TaskRefused, LockBusy
  <2>2. NextTask(p) /\ owed' = owed /\ loadFailed' = loadFailed /\ reported' = [reported EXCEPT ![p] = TRUE]
    BY <2>1 DEF TaskFailed, Caught
  <2>3. QED
    BY <2>1, <2>2, NextTaskType, Types
<1>3. CASE TaskWrites(p)
  <2>1. queue[p] # <<>> /\ NextTask(p) /\ loadFailed' = loadFailed /\ reported' = reported
        /\ \E x, y : owed' = [owed EXCEPT ![p][x] = y]
    BY <1>3, Types DEF TaskWrites
  <2>2. QED
    BY <2>1, NextTaskType, Types
<1>4. CASE Reloaded(p)
  <2>1. /\ queue' = queue /\ owed' = owed
        /\ \E x : loadFailed' = [loadFailed EXCEPT ![p] = x]
        /\ \E x : reported' = [reported EXCEPT ![p] = x]
    BY <1>4 DEF Reloaded
  <2>2. QED
    BY <2>1, Types
<1>5. CASE Crash(p)
  <2>1. owed' = owed /\ loadFailed' = loadFailed /\ reported' = reported
        /\ queue' = [queue EXCEPT ![p] = <<>>]
    BY <1>5 DEF Crash, state, history
  <2>2. QED
    BY <2>1, Types
<1>6. ASSUME NEW trust \in BOOLEAN, SetProjectTrusted(p, trust)
      PROVE  /\ owed'[r] = owed[r] /\ queue'[r] = queue[r]
             /\ loadFailed'[r] = loadFailed[r] /\ reported'[r] = reported[r]
  <2>1. /\ queue' = queue /\ owed' = owed
        /\ \E x : loadFailed' = [loadFailed EXCEPT ![p] = x]
        /\ \E x : reported' = [reported EXCEPT ![p] = x]
    BY <1>6 DEF SetProjectTrusted
  <2>2. QED
    BY <2>1, Types
<1>7. ASSUME NEW s \in Scope, NEW f \in Fields, Sets(p, s, f)
      PROVE  /\ owed'[r] = owed[r] /\ queue'[r] = queue[r]
             /\ loadFailed'[r] = loadFailed[r] /\ reported'[r] = reported[r]
  <2>1. loadFailed' = loadFailed /\ reported' = reported
        /\ \E x, y, z : owed' = [owed EXCEPT ![p][x][y] = z]
        /\ (queue' = queue \/ \E task : queue' = [queue EXCEPT ![p] = Append(@, task)])
    BY <1>7 DEF Sets, state
  <2>2. QED
    BY <2>1, Types
<1>8. QED
  BY <1>1, <1>2, <1>3, <1>4, <1>5, <1>6, <1>7 DEF Step

\* What is owed stays queued, or its loss is reported.
LEMMA LossNext == TypeOK /\ LossInv /\ [Next]_vars => LossInv'
<1> SUFFICES ASSUME TypeOK, LossInv, [Next]_vars, NEW r \in Processes, r \in alive'
             PROVE  (loadFailed'[r] # {} => reported'[r]) /\ OwedQueued(r)'
  BY DEF LossInv
<1> DEFINE Goal == (loadFailed'[r] # {} => reported'[r]) /\ OwedQueued(r)'
<1>0. r \in alive /\ (loadFailed[r] # {} => reported[r]) /\ OwedQueued(r)
  <2>1. ASSUME NEW p \in Processes, Step(p) \/ LockBusy(p) \/ Reload(p) \/ Crash(p)
        PROVE  alive' \subseteq alive
    BY <2>1 DEF Step, TaskBegins, TaskRefused, TaskWrites, TaskFailed, Reloaded, LockBusy, Reload, Crash
  <2>2. ASSUME NEW p \in Processes, NEW trust \in BOOLEAN, SetProjectTrusted(p, trust)
        PROVE  alive' \subseteq alive
    BY <2>2 DEF SetProjectTrusted
  <2>3. ASSUME NEW p \in Processes, NEW s \in Scope, NEW f \in Fields, Sets(p, s, f)
        PROVE  alive' \subseteq alive
    BY <2>3 DEF Sets
  <2>4. ASSUME NEW s \in Scope, NEW f \in Fields, Edits(s, f) PROVE alive' \subseteq alive
    BY <2>4 DEF Edits
  <2>5. alive' \subseteq alive
    BY <2>1, <2>2, <2>3, <2>4 DEF Next, vars
  <2>6. QED
    BY <2>5 DEF LossInv
<1>1. ASSUME NEW p \in Processes,
             \/ Step(p) \/ LockBusy(p) \/ Reload(p) \/ Crash(p)
             \/ \E trust \in BOOLEAN : SetProjectTrusted(p, trust)
             \/ \E s \in Scope : \E f \in Fields : Sets(p, s, f)
      PROVE  Goal
  <2>1. CASE r # p
    BY <1>0, <1>1, <2>1, LossOthers, LossKept
  <2>2. ASSUME r = p, NEW s \in Scope, NEW f \in Fields, Sets(p, s, f) PROVE Goal
    BY <2>2, LossSets
  <2>3. ASSUME r = p, TaskWrites(p) PROVE Goal
    BY <2>3, LossWrites
  <2>4. ASSUME r = p, TaskRefused(p) \/ LockBusy(p) PROVE Goal
    <3>1. reported' = [reported EXCEPT ![p] = TRUE]
      BY <2>4 DEF TaskRefused, LockBusy, TaskFailed, Caught
    <3>2. QED
      BY <2>4, <3>1, Types DEF OwedQueued
  <2>5. ASSUME r = p, TaskBegins(p) \/ Reload(p) PROVE Goal
    <3>1. UNCHANGED <<owed, queue, loadFailed, reported>>
      BY <2>5 DEF TaskBegins, Reload, state, history
    <3>2. QED
      BY <1>0, <3>1, LossKept
  <2>6. ASSUME r = p, Reloaded(p) PROVE Goal
    <3>1. \E failed : /\ loadFailed' = [loadFailed EXCEPT ![p] = failed]
                      /\ reported' = [reported EXCEPT ![p] = reported[p] \/ failed # {}]
      BY ReloadedType, <2>6
    <3>2. owed' = owed /\ queue' = queue
      BY <2>6 DEF Reloaded
    <3>3. PICK failed : loadFailed'[r] = failed /\ reported'[r] = (reported[r] \/ failed # {})
      BY <2>6, <3>1, Types
    <3>4. QED
      BY <1>0, <3>2, <3>3 DEF OwedQueued
  <2>7. ASSUME r = p, NEW trust \in BOOLEAN, SetProjectTrusted(p, trust) PROVE Goal
    <3> DEFINE failed == LoadFailsFor("project", trust)
    <3>1. /\ loadFailed' = [loadFailed EXCEPT ![p] =
               (loadFailed[p] \ {"project"}) \cup (IF failed THEN {"project"} ELSE {})]
          /\ reported' = [reported EXCEPT ![p] = reported[p] \/ failed]
      BY TrustType, <2>7
    <3>2. owed' = owed /\ queue' = queue
      BY <2>7 DEF SetProjectTrusted
    <3> HIDE DEF failed
    <3>3. /\ loadFailed'[r] = (loadFailed[r] \ {"project"}) \cup (IF failed THEN {"project"} ELSE {})
          /\ reported'[r] = (reported[r] \/ failed)
      BY <2>7, <3>1, Types
    <3>4. QED
      BY <1>0, <3>2, <3>3 DEF OwedQueued
  <2>8. ASSUME r = p, Crash(p) PROVE Goal
    BY <2>8 DEF Crash
  <2>9. QED
    BY <1>1, <2>1, <2>2, <2>3, <2>4, <2>5, <2>6, <2>7, <2>8 DEF Step
<1>2. ASSUME NEW s \in Scope, NEW f \in Fields, Edits(s, f) PROVE Goal
  <2>1. UNCHANGED <<owed, queue, loadFailed, reported>>
    BY <1>2 DEF Edits, state, history
  <2>2. QED
    BY <1>0, <2>1, LossKept
<1>3. CASE UNCHANGED vars
  <2>1. UNCHANGED <<owed, queue, loadFailed, reported>>
    BY <1>3 DEF vars, state, history
  <2>2. QED
    BY <1>0, <2>1, LossKept
<1>4. QED
  BY <1>1, <1>2, <1>3 DEF Next

\* What was set is in the file, in a queued write or behind a recorded error, for any number
\* of processes that set, reload, lose their trust, fail and crash in any order.
THEOREM NoSilentLoss == Spec => []LostIsReported
<1>1. TypeOK /\ LossInv => LostIsReported
  <2> SUFFICES ASSUME TypeOK, LossInv, NEW p \in alive, NEW s \in Scope,
                      queue[p] = <<>>, owed[p][s] # Nothing
               PROVE  reported[p]
    BY DEF LostIsReported
  <2>1. p \in Processes /\ owed[p][s] \in Content
    BY Types
  <2>2. PICK f \in Fields : owed[p][s][f] # 0
    BY <2>1 DEF Content, Nothing
  <2>3. ~Queued(queue[p], s, f, owed[p][s][f])
    BY DEF Queued
  <2>4. QED
    BY <2>1, <2>2, <2>3 DEF LossInv, OwedQueued
<1>2. QED
  BY <1>1, TypeInit, TypeNext, LossInit, LossNext, PTL DEF Spec

-----------------------------------------------------------------------------
(* What is not written stays marked. *)

Marked(p) ==
  \A s \in Scope : \A f \in Fields : owed[p][s][f] # 0 => f \in modified[p][s] \cup forgotten[p][s]

RememberInv == \A p \in Processes : Marked(p)

\* The marks that Forgets accounts for: whatever happens to the others of the scopes.
LEMMA ForgetsMarks ==
  ASSUME TypeOK, TypeOK', NEW p \in Processes, NEW scopes \in SUBSET Scope, Forgets(p, scopes),
         Marked(p),
         \A s \in Scope \ scopes : owed'[p][s] = owed[p][s] /\ modified'[p][s] = modified[p][s]
  PROVE  Marked(p)'
<1> SUFFICES ASSUME NEW s \in Scope, NEW f \in Fields, owed'[p][s][f] # 0
             PROVE  f \in modified'[p][s] \cup forgotten'[p][s]
  BY DEF Marked
<1>1. forgotten'[p] = [t \in Scope |-> forgotten[p][t] \cup
                        (IF t \in scopes THEN {g \in Fields : owed'[p][t][g] # 0} ELSE {})]
  BY DEF Forgets, TypeOK
<1>2. forgotten'[p][s] = forgotten[p][s] \cup
                        (IF s \in scopes THEN {g \in Fields : owed'[p][s][g] # 0} ELSE {})
  BY <1>1
<1>3. CASE s \in scopes
  BY <1>2, <1>3
<1>4. CASE s \notin scopes
  <2>1. owed[p][s][f] # 0 /\ modified'[p][s] = modified[p][s]
    BY <1>4
  <2>2. f \in modified[p][s] \cup forgotten[p][s]
    BY <2>1 DEF Marked
  <2>3. QED
    BY <1>2, <2>1, <2>2
<1>5. QED
  BY <1>3, <1>4

\* Forgets and the marks of a process are of no concern to the others.
LEMMA MarksOfOthers ==
  ASSUME TypeOK, TypeOK', RememberInv, NEW r \in Processes,
         owed'[r] = owed[r], modified'[r] = modified[r], forgotten'[r] = forgotten[r]
  PROVE  Marked(r)'
BY DEF RememberInv, Marked

\* What is owed stays marked as modified, unless a reload has forgotten it.
LEMMA RememberNext == TypeOK /\ TypeOK' /\ RememberInv /\ [Next]_vars => RememberInv'
<1> SUFFICES ASSUME TypeOK, TypeOK', RememberInv, [Next]_vars, NEW r \in Processes PROVE Marked(r)'
  BY DEF RememberInv
<1>0. Marked(r)
  BY DEF RememberInv
<1>1. ASSUME NEW p \in Processes, NEW s \in Scope, NEW f \in Fields, Sets(p, s, f)
      PROVE  Marked(r)'
  <2>1. /\ modified' = [modified EXCEPT ![p] = [modified[p] EXCEPT ![s] = modified[p][s] \cup {f}]]
        /\ owed' = [owed EXCEPT ![p] = [owed[p] EXCEPT ![s] = [owed[p][s] EXCEPT ![f] = values + 1]]]
        /\ forgotten' = [forgotten EXCEPT ![p] = [forgotten[p] EXCEPT ![s] = forgotten[p][s] \ {f}]]
    BY <1>1, SetsType DEF Sets
  <2>2. CASE r # p
    BY <2>1, <2>2, MarksOfOthers, Types DEF TypeOK
  <2>3. CASE r = p
    <3> SUFFICES ASSUME NEW t \in Scope, NEW g \in Fields, owed'[p][t][g] # 0
                 PROVE  g \in modified'[p][t] \cup forgotten'[p][t]
      BY <2>3 DEF Marked
    <3>0. owed[p][t][g] # 0 => g \in modified[p][t] \cup forgotten[p][t]
      BY <1>0, <2>3 DEF Marked
    <3>1. /\ modified'[p][t] = IF t = s THEN modified[p][s] \cup {f} ELSE modified[p][t]
          /\ forgotten'[p][t] = IF t = s THEN forgotten[p][s] \ {f} ELSE forgotten[p][t]
      BY <2>1 DEF TypeOK
    <3>2. owed'[p][t][g] = IF t = s /\ g = f THEN values + 1 ELSE owed[p][t][g]
      <4>1. owed[p][s] \in Content
        BY Types
      <4>2. owed'[p][t] = IF t = s THEN [owed[p][s] EXCEPT ![f] = values + 1] ELSE owed[p][t]
        BY <2>1, Types
      <4>3. QED
        BY <4>1, <4>2 DEF Content
    <3>3. QED
      BY <3>0, <3>1, <3>2
  <2>4. QED
    BY <2>2, <2>3
<1>2. ASSUME NEW p \in Processes, TaskWrites(p) PROVE Marked(r)'
  <2>1. PICK s \in Scope : s = Head(queue[p]).scope
    <3>1. queue[p] # <<>>
      BY <1>2, Types DEF TaskWrites
    <3>2. QED
      BY <3>1, QueueType DEF Task
  <2>2. /\ modified' = [modified EXCEPT ![p] = [modified[p] EXCEPT ![s] = {}]] /\ Forgets(p, {s})
        /\ owed' = [owed EXCEPT ![p] = [owed[p] EXCEPT ![s] = StillOwed(p, Head(queue[p]))]]
    BY <1>2, <2>1 DEF TaskWrites, Cleared
  <2>3. CASE r # p
    BY <2>2, <2>3, MarksOfOthers, Types DEF Forgets, TypeOK
  <2>4. CASE r = p
    <3>1. \A t \in Scope \ {s} : owed'[p][t] = owed[p][t] /\ modified'[p][t] = modified[p][t]
      BY <2>2, Types
    <3>2. QED
      BY <1>0, <2>2, <2>4, <3>1, ForgetsMarks
  <2>5. QED
    BY <2>3, <2>4
<1>3. ASSUME NEW p \in Processes, Reloaded(p) PROVE Marked(r)'
  <2>1. /\ modified' = [modified EXCEPT ![p] = [s \in Scope |-> {}]] /\ Forgets(p, Scope)
        /\ owed' = owed
    BY <1>3 DEF Reloaded
  <2>2. CASE r # p
    BY <2>1, <2>2, MarksOfOthers, Types DEF Forgets, TypeOK
  <2>3. CASE r = p
    <3>1. \A t \in Scope \ Scope : owed'[p][t] = owed[p][t] /\ modified'[p][t] = modified[p][t]
      OBVIOUS
    <3>2. QED
      BY <1>0, <2>1, <2>3, <3>1, ForgetsMarks
  <2>4. QED
    BY <2>2, <2>3
<1>4. ASSUME NEW p \in Processes, NEW trust \in BOOLEAN, SetProjectTrusted(p, trust)
      PROVE  Marked(r)'
  <2>1. /\ modified' = [modified EXCEPT ![p] = [modified[p] EXCEPT !["project"] = {}]]
        /\ Forgets(p, {"project"}) /\ owed' = owed
    BY <1>4 DEF SetProjectTrusted
  <2>2. CASE r # p
    BY <2>1, <2>2, MarksOfOthers, Types DEF Forgets, TypeOK
  <2>3. CASE r = p
    <3>1. \A t \in Scope \ {"project"} : owed'[p][t] = owed[p][t] /\ modified'[p][t] = modified[p][t]
      BY <2>1, Types
    <3>2. QED
      BY <1>0, <2>1, <2>3, <3>1, ForgetsMarks DEF Scope
  <2>4. QED
    BY <2>2, <2>3
<1>5. ASSUME UNCHANGED <<owed, modified, forgotten>> PROVE Marked(r)'
  BY <1>0, <1>5 DEF Marked
<1>6. ASSUME NEW p \in Processes,
             TaskBegins(p) \/ TaskRefused(p) \/ LockBusy(p) \/ Reload(p) \/ Crash(p)
      PROVE  UNCHANGED <<owed, modified, forgotten>>
  BY <1>6 DEF TaskBegins, TaskRefused, LockBusy, TaskFailed, MarksAfterFailure, Reload, Crash, state, history
<1>7. ASSUME NEW s \in Scope, NEW f \in Fields, Edits(s, f)
      PROVE  UNCHANGED <<owed, modified, forgotten>>
  BY <1>7 DEF Edits, state, history
<1>8. UNCHANGED vars => UNCHANGED <<owed, modified, forgotten>>
  BY DEF vars, state, history
<1>9. QED
  BY <1>1, <1>2, <1>3, <1>4, <1>5, <1>6, <1>7, <1>8 DEF Next, Step

\* At the start nothing is owed, so that nothing needs a mark.
LEMMA RememberInit == Init => RememberInv
BY DEF Init, RememberInv, Marked, Nothing

\* What a process has set and not written keeps its mark, so that the next setter of the
\* scope writes it too, or its loss is known; for any number of processes, fields and faults.
THEOREM SettingsAreKept == Spec => []SettingsSurvive
<1>1. RememberInv /\ TypeOK => Remembered
  BY DEF RememberInv, Marked, Remembered, TypeOK
<1>2. QED
  BY <1>1, RememberInit, RememberNext, TypeCorrect, NoSilentLoss, PTL DEF Spec, SettingsSurvive

\* Nothing of an untrusted project is in use and nothing is written to it.
THEOREM TrustIsRespected == Spec => []TrustDecides
BY UntrustedUnused, UntrustedNeverWritten, PTL DEF TrustDecides

-----------------------------------------------------------------------------
(* The work of others.  A process in the middle of a write with the lock still has the
   lock, the file is still as it was read, and what is to be written is made of it. *)

Writing(p) ==
  step[p] = "locked" =>
    /\ holder[Head(queue[p]).scope] = p
    /\ file[Head(queue[p]).scope] \notin {Absent, Broken}
    /\ merged[p] = Persisted(Head(queue[p]))

WriteInv == \A p \in Processes : Writing(p)

\* At the start nobody writes.
LEMMA WriteInit == Init => WriteInv
BY DEF Init, WriteInv, Writing

\* A step of another that leaves the file and its lock alone does not disturb a write.
LEMMA WriteKept ==
  ASSUME WriteInv, NEW r \in Processes, NEW s, s = Head(queue[r]).scope,
         step'[r] = step[r], queue'[r] = queue[r], merged'[r] = merged[r],
         step[r] = "locked" => holder'[s] = holder[s] /\ file'[s] = file[s]
  PROVE  Writing(r)'
<1>1. Writing(r)
  BY DEF WriteInv
<1>2. QED
  BY <1>1 DEF Writing, Persisted, Loaded

\* A write that begins reads the file under the lock and merges with what it read.
LEMMA WriteBegins ==
  ASSUME TypeOK, WriteInv, NEW r \in Processes, NEW p \in Processes, TaskBegins(p)
  PROVE  Writing(r)'
<1> DEFINE t == Head(queue[p]).scope
<1>1. /\ file' = file /\ queue' = queue /\ queue[p] # <<>>
      /\ merged' = [merged EXCEPT ![p] = Persisted(Head(queue[p]))]
      /\ \/ step' = [step EXCEPT ![p] = "missing"] /\ holder' = holder
         \/ /\ file[t] # Absent /\ holder[t] = Nobody
            /\ step' = [step EXCEPT ![p] = "locked"] /\ holder' = [holder EXCEPT ![t] = p]
      /\ file[t] # Broken
  BY DEF TaskBegins
<1>2. t \in Scope
  BY <1>1, QueueType DEF Task
<1> HIDE DEF t
<1>3. CASE r # p
  <2>1. step[r] = "locked" => holder[Head(queue[r]).scope] # Nobody
    BY SettingsAssumption DEF WriteInv, Writing
  <2>2. step'[r] = step[r] /\ merged'[r] = merged[r]
    BY <1>1, <1>3, Types
  <2>3. step[r] = "locked" => holder'[Head(queue[r]).scope] = holder[Head(queue[r]).scope]
    <3>1. step[r] = "locked" => queue[r] # <<>>
      BY Types
    <3>2. step[r] = "locked" => Head(queue[r]).scope \in Scope
      BY <3>1, QueueType DEF Task
    <3>3. QED
      BY <1>1, <1>2, <2>1, <3>2, Types
  <2>4. QED
    BY <1>1, <2>2, <2>3, WriteKept
<1>4. CASE r = p
  <2>1. SUFFICES ASSUME step'[p] = "locked"
                 PROVE  /\ holder'[Head(queue'[p]).scope] = p
                        /\ file'[Head(queue'[p]).scope] \notin {Absent, Broken}
                        /\ merged'[p] = Persisted(Head(queue[p]))'
    BY <1>4 DEF Writing
  <2>2. file[t] # Absent /\ holder' = [holder EXCEPT ![t] = p]
    BY <1>1, <2>1, Types
  <2>3. file[t] \notin {Absent, Broken}
    BY <1>1, <2>2
  <2>4. merged'[p] = Persisted(Head(queue[p]))
    BY <1>1, Types
  <2>5. Persisted(Head(queue[p]))' = Persisted(Head(queue[p]))
    BY <1>1 DEF Persisted, Loaded
  <2>6. QED
    BY <1>1, <1>2, <2>2, <2>3, <2>4, <2>5, Types DEF t
<1>5. QED
  BY <1>3, <1>4

\* A write that ends is over, and disturbs nobody who waits for the lock.
LEMMA WriteEnds ==
  ASSUME TypeOK, WriteInv, NEW r \in Processes, NEW p \in Processes, TaskWrites(p)
  PROVE  Writing(r)'
<1> DEFINE t == Head(queue[p]).scope
<1>1. /\ step' = [step EXCEPT ![p] = "none"] /\ merged' = [merged EXCEPT ![p] = Nothing]
      /\ file' = [file EXCEPT ![t] = merged[p]] /\ holder' = [holder EXCEPT ![t] = Nobody]
      /\ NextTask(p) /\ step[p] # "none"
      /\ step[p] = "locked" \/ holder[t] = Nobody
  BY DEF TaskWrites, Unlocked
<1>2. t \in Scope
  <2>1. queue[p] # <<>>
    BY <1>1, Types
  <2>2. QED
    BY <2>1, QueueType DEF Task
<1>3. CASE r = p
  BY <1>1, <1>3, Types DEF Writing
<1>4. CASE r # p
  <2>1. holder[t] \in {p, Nobody}
    BY <1>1 DEF WriteInv, Writing
  <2>2. step[r] = "locked" => holder[Head(queue[r]).scope] = r
    BY DEF WriteInv, Writing
  <2>3. step[r] = "locked" => Head(queue[r]).scope # t
    BY <1>4, <2>1, <2>2, SettingsAssumption
  <2> HIDE DEF t
  <2>4. queue[p] # <<>>
    BY <1>1, Types
  <2>5. queue'[r] = queue[r] /\ step'[r] = step[r] /\ merged'[r] = merged[r]
    BY <1>1, <1>4, <2>4, NextTaskType, Types
  <2>6. step[r] = "locked" => /\ holder'[Head(queue[r]).scope] = holder[Head(queue[r]).scope]
                              /\ file'[Head(queue[r]).scope] = file[Head(queue[r]).scope]
    BY <1>1, <1>2, <2>3, Types
  <2>7. QED
    BY <2>5, <2>6, WriteKept
<1>5. QED
  BY <1>3, <1>4

\* The crash of another process disturbs no write of a live one.
LEMMA WriteCrash ==
  ASSUME TypeOK, WriteInv, NEW r \in Processes, NEW p \in Processes, Crash(p)
  PROVE  Writing(r)'
<1> DEFINE torn == {s \in Scope : step[p] # "none" /\ s = Head(queue[p]).scope
                                   /\ holder[s] \in {p, Nobody}}
<1>1. /\ step' = [step EXCEPT ![p] = "none"] /\ merged' = [merged EXCEPT ![p] = Nothing]
      /\ queue' = [queue EXCEPT ![p] = <<>>]
      /\ holder' = [s \in Scope |-> IF holder[s] = p THEN Nobody ELSE holder[s]]
      /\ file' = file \/ \E s \in torn : \E left \in {Nothing, Broken} : file' = [file EXCEPT ![s] = left]
  BY DEF Crash
<1>2. CASE r = p
  BY <1>1, <1>2, Types DEF Writing
<1>3. CASE r # p
  <2>1. step[r] = "locked" => holder[Head(queue[r]).scope] = r
    BY DEF WriteInv, Writing
  <2>2. step[r] = "locked" => Head(queue[r]).scope \notin torn
    BY <1>3, <2>1, SettingsAssumption
  <2>3. step[r] = "locked" => Head(queue[r]).scope \in Scope
    <3>1. step[r] = "locked" => queue[r] # <<>>
      BY Types
    <3>2. QED
      BY <3>1, QueueType DEF Task
  <2>4. \A s \in torn : s \in Scope
    OBVIOUS
  <2> HIDE DEF torn
  <2>5. step[r] = "locked" => file'[Head(queue[r]).scope] = file[Head(queue[r]).scope]
    BY <1>1, <2>2, <2>3, <2>4, Types
  <2>6. step[r] = "locked" => holder'[Head(queue[r]).scope] = holder[Head(queue[r]).scope]
    BY <1>1, <1>3, <2>1, <2>3
  <2>7. queue'[r] = queue[r] /\ step'[r] = step[r] /\ merged'[r] = merged[r]
    BY <1>1, <1>3, Types
  <2>8. QED
    BY <2>5, <2>6, <2>7, WriteKept
<1>4. QED
  BY <1>2, <1>3

\* Whoever holds the lock of a file has merged with what the file says, until it writes.
LEMMA WriteNext == TypeOK /\ WriteInv /\ [Next]_vars => WriteInv'
<1> SUFFICES ASSUME TypeOK, WriteInv, [Next]_vars, NEW r \in Processes PROVE Writing(r)'
  BY DEF WriteInv
<1>1. ASSUME NEW p \in Processes, NEW s \in Scope, NEW f \in Fields, Sets(p, s, f)
      PROVE  Writing(r)'
  <2>1. UNCHANGED <<file, holder, step, merged>> /\ step[p] = "none"
    BY <1>1 DEF Sets, Runs, writing, disk
  <2>2. CASE r = p
    BY <2>1, <2>2 DEF Writing
  <2>3. CASE r # p
    <3>1. queue' = queue \/ \E task : queue' = [queue EXCEPT ![p] = Append(@, task)]
      BY <1>1 DEF Sets
    <3>2. queue'[r] = queue[r]
      BY <2>3, <3>1, Types
    <3>3. QED
      BY <2>1, <3>2, WriteKept
  <2>4. QED
    BY <2>2, <2>3
<1>2. ASSUME NEW p \in Processes, TaskRefused(p) \/ LockBusy(p) PROVE Writing(r)'
  <2>1. UNCHANGED <<file, holder>> /\ queue[p] # <<>> /\ NextTask(p) /\ step'[p] # "locked"
        /\ \A q \in Processes \ {p} : step'[q] = step[q] /\ merged'[q] = merged[q]
    BY <1>2, Types DEF TaskRefused, LockBusy, TaskFailed, disk, writing, Runs
  <2>2. CASE r = p
    BY <2>1, <2>2 DEF Writing
  <2>3. CASE r # p
    <3>1. queue'[r] = queue[r]
      BY <2>1, <2>3, NextTaskType
    <3>2. QED
      BY <2>1, <2>3, <3>1, WriteKept
  <2>4. QED
    BY <2>2, <2>3
<1>3. ASSUME NEW s \in Scope, NEW f \in Fields, Edits(s, f) PROVE Writing(r)'
  <2>1. /\ UNCHANGED <<holder, queue, step, merged>> /\ holder[s] = Nobody
        /\ \E new : file' = [file EXCEPT ![s] = new]
    BY <1>3 DEF Edits, writing
  <2>2. step[r] = "locked" => Head(queue[r]).scope # s
    BY <2>1, SettingsAssumption DEF WriteInv, Writing
  <2>3. step[r] = "locked" => file'[Head(queue[r]).scope] = file[Head(queue[r]).scope]
    <3>1. step[r] = "locked" => queue[r] # <<>>
      BY Types
    <3>2. step[r] = "locked" => Head(queue[r]).scope \in Scope
      BY <3>1, QueueType DEF Task
    <3>3. QED
      BY <2>1, <2>2, <3>2, Types
  <2>4. QED
    BY <2>1, <2>3, WriteKept
<1>4. ASSUME UNCHANGED <<file, holder, queue, step, merged>> PROVE Writing(r)'
  BY <1>4, WriteKept
<1>5. ASSUME NEW p \in Processes,
             Reload(p) \/ Reloaded(p) \/ \E trust \in BOOLEAN : SetProjectTrusted(p, trust)
      PROVE  UNCHANGED <<file, holder, queue, step, merged>>
  BY <1>5 DEF Reload, Reloaded, SetProjectTrusted, disk, writing
<1>6. UNCHANGED vars => UNCHANGED <<file, holder, queue, step, merged>>
  BY DEF vars, disk, writing
<1>7. QED
  BY <1>1, <1>2, <1>3, <1>4, <1>5, <1>6, WriteBegins, WriteEnds, WriteCrash DEF Next, Step

\* Only TaskWrites ends a write that holds the lock and leaves its process running.
LEMMA WroteByWriting ==
  ASSUME TypeOK, Next, NEW p \in Processes, NEW s \in Scope, Wrote(p, s), step[p] = "locked"
  PROVE  TaskWrites(p)
<1>1. step[p] # "none" /\ step'[p] = "none" /\ p \in alive'
  BY DEF Wrote
<1>2. ASSUME NEW q \in Processes, TaskBegins(q) \/ LockBusy(q) PROVE FALSE
  BY <1>1, <1>2, Types DEF TaskBegins, LockBusy, Runs
<1>3. ASSUME NEW q \in Processes, TaskWrites(q) PROVE q = p
  BY <1>1, <1>3, Types DEF TaskWrites
<1>4. ASSUME NEW q \in Processes, Crash(q) PROVE FALSE
  BY <1>1, <1>4, Types DEF Crash
<1>5. ASSUME NEW q \in Processes,
             \/ TaskRefused(q) \/ Reload(q) \/ Reloaded(q)
             \/ \E trust \in BOOLEAN : SetProjectTrusted(q, trust)
             \/ \E t \in Scope : \E f \in Fields : Sets(q, t, f)
      PROVE  step' = step
  BY <1>5 DEF TaskRefused, Reload, Reloaded, SetProjectTrusted, Sets, writing
<1>6. ASSUME NEW t \in Scope, NEW f \in Fields, Edits(t, f) PROVE step' = step
  BY <1>6 DEF Edits, writing
<1>7. QED
  BY <1>1, <1>2, <1>3, <1>4, <1>5, <1>6 DEF Next, Step

\* Every write that found a file leaves in it the fields of other processes and of the user's
\* editor, and never overwrites one that is not JSON.
THEOREM WritesKeepOthers == Spec => OthersKept
<1> DEFINE Kept == \A p \in Processes : \A s \in Scope :
       Wrote(p, s) /\ step[p] = "locked" =>
         /\ file[s] # Broken
         /\ file'[s] # file[s] =>
              \A f \in Fields \ Head(queue[p]).fields : file'[s][f] = file[s][f]
<1>1. TypeOK /\ WriteInv /\ [Next]_vars => [Kept]_vars
  <2> SUFFICES ASSUME TypeOK, WriteInv, Next,
                      NEW p \in Processes, NEW s \in Scope, Wrote(p, s), step[p] = "locked"
               PROVE  /\ file[s] # Broken
                      /\ \A f \in Fields \ Head(queue[p]).fields : file'[s][f] = file[s][f]
    OBVIOUS
  <2>1. TaskWrites(p) /\ s = Head(queue[p]).scope
    BY WroteByWriting DEF Wrote
  <2>2. file[s] # Broken /\ file[s] # Absent
    BY <2>1 DEF WriteInv, Writing
  <2>3. file'[s] = Persisted(Head(queue[p]))
    BY <2>1, Types DEF TaskWrites, WriteInv, Writing
  <2>4. QED
    BY <2>1, <2>2, <2>3 DEF Persisted, Loaded
<1>2. QED
  BY <1>1, TypeInit, TypeNext, WriteInit, WriteNext, PTL DEF Spec, OthersKept
==============================================================================
