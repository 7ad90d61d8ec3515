----------------------------- MODULE Supervisor -----------------------------
(***************************************************************************)
(* packages/server/src: the supervisor of agent instances (supervisor.ts), *)
(* their child processes (rpc-process.ts), the file instances.json         *)
(* (storage.ts), their presence at the Radius service (radius.ts), and     *)
(* the recovery of the records when the server starts (serve.ts).          *)
(*                                                                         *)
(* spawnInstance, stopInstance, the handler of an unexpected exit, the     *)
(* requests of clients and the re-registration at Radius are coroutines    *)
(* that share an instance's record and resources and meet at every await.  *)
(* Files are read and written synchronously.  A continuation whose promise *)
(* is settled runs before the next event: Settled guards the events.       *)
(*                                                                         *)
(* Radius is enabled.  Session ids, labels and times are left out of the   *)
(* records.  That heartbeats are missed three times before Radius is asked *)
(* again is abstracted to the service having forgotten the Pi.             *)
(***************************************************************************)
EXTENDS Naturals, FiniteSets

CONSTANTS
  Inst,          \* instances, each spawned at most once
  Stop,          \* calls of stopInstance
  None,
  MaxExits,      \* bound: children that exit by themselves
  MaxFailures,   \* bound: requests to Radius that fail
  MaxForgotten,  \* bound: Pis or machines that the service forgets
  MaxCrashes     \* bound: crashes of the server

ASSUME SupervisorAssumption ==
  /\ Inst \cap Stop = {} /\ None \notin Inst \cup Stop
  /\ {MaxExits, MaxFailures, MaxForgotten, MaxCrashes} \subseteq Nat

VARIABLES
  server,      \* "up", "recovering" (already serving requests) or "down"
  live,        \* the keys of liveInstances
  record,      \* record[i]: status and radiusPiId (0: none) of the LiveInstance
  resources,   \* resources[i]: whether it has its rpcProcess; its radiusPiId
  bound,       \* the instances whose exit handler is attached
  file,        \* file[i]: the record in instances.json, or None
  child,       \* child[i]: the process
  spawn,       \* spawn[i]: how far spawnInstance is
  cleanup,     \* cleanup[c]: cleanupAcquiredResources, called by stop c or by
               \* failSpawn of instance c
  exit,        \* exit[i]: the Pi that the exit handler is disconnecting, or None
  rpc,         \* rpc[i]: a client's request to the child
  renewal,     \* renewal[i]: the record that reRegisterPi is registering, or None
  beat,        \* beat[i]: the Pi that piHeartbeatStates knows for i, or 0
  recovery,    \* recoverAfterRestart: its records, and those still to disconnect
  registered,  \* the pairs of instance and Pi that the service knows
  count,       \* counters that the bounds limit
  history,     \* what the properties remember of earlier steps
  overtaken,   \* history: the instances whose registration was overtaken
  crossed      \* history: the instances that two coroutines ended at once

radius == <<beat, registered>>
state == <<live, record, resources, bound, file>>
steps == <<server, state, child, spawn, cleanup, exit, rpc, renewal, recovery, radius,
           count, history>>
vars == <<steps, overtaken, crossed>>

(* Every instance registers once, and again for each time it is forgotten. *)
Pi == 1 .. Cardinality(Inst) + MaxForgotten

Status == {"starting", "online", "stopping", "stopped", "error"}
Record == [status : Status, pi : Nat]
ASSUME RecordAssumption == None \notin Record /\ None \notin Nat

NoCleanup == [of |-> None, at |-> "ready", pi |-> 0, rpc |-> FALSE]
NoRecovery == [records |-> <<>>, left |-> {}]

Init ==
  /\ server = "up" /\ live = {}
  /\ record = [i \in Inst |-> [status |-> "starting", pi |-> 0]]
  /\ resources = [i \in Inst |-> [rpc |-> FALSE, pi |-> 0]]
  /\ bound = {} /\ file = [i \in Inst |-> None]
  /\ child = [i \in Inst |-> "none"] /\ spawn = [i \in Inst |-> "none"]
  /\ cleanup = [c \in Stop \cup Inst |-> NoCleanup]
  /\ exit = [i \in Inst |-> None] /\ rpc = [i \in Inst |-> "none"]
  /\ renewal = [i \in Inst |-> None] /\ beat = [i \in Inst |-> 0]
  /\ recovery = NoRecovery /\ registered = {}
  /\ count = [exits |-> 0, failures |-> 0, forgotten |-> 0, pis |-> 0, crashes |-> 0]
  /\ history = [stranded |-> {}, early |-> {}, stopped |-> {}]
  /\ overtaken = {} /\ crossed = {}

Counts(what, max) == count[what] < max /\ count' = [count EXCEPT ![what] = @ + 1]
Fails == Counts("failures", MaxFailures)

-----------------------------------------------------------------------------
(* Continuations that are due. *)

CleaningUp(c) == cleanup[c].at \in {"disconnect", "dispose"}
Leaving(i) == \E c \in DOMAIN cleanup : cleanup[c].of = i /\ CleaningUp(c)

\* Slip: dispose starts to listen for the exit when the child is gone.
DueMissed(c) ==
  \/ cleanup[c].at = "disconnect" /\ cleanup[c].pi = 0
  \/ cleanup[c].at = "dispose" /\ ~cleanup[c].rpc

Due(c) ==
  \/ cleanup[c].at = "disconnect" /\ cleanup[c].pi = 0
  \/ cleanup[c].at = "dispose" /\ (cleanup[c].rpc => child[cleanup[c].of] = "exited")

Settled ==
  /\ \A i \in Inst : spawn[i] # "rejected"
  /\ \A c \in DOMAIN cleanup : ~Due(c)
  /\ server = "recovering" => recovery.left # {}

(* setStatus and updateRecord write the record to the file, whether or not
   the instance is still among those in the file. *)
Upsert(i, r) ==
  /\ record' = [record EXCEPT ![i] = r]
  /\ file' = [file EXCEPT ![i] = r]

WithStatus(i, s) == [record[i] EXCEPT !.status = s]

\* Slip: the heartbeat goes on.
CleanupBeginsBeating(c, i) ==
  /\ bound' = bound \ {i}
  /\ cleanup' = [cleanup EXCEPT ![c] =
       [of |-> i, at |-> "disconnect", rpc |-> resources[i].rpc,
        pi |-> IF resources[i].pi = 0 THEN 0 ELSE record[i].pi]]
  /\ UNCHANGED beat

(* The first part of cleanupAcquiredResources: the bindings are cleared, and
   disconnectPi ends the heartbeat and sends its request. *)
CleanupBegins(c, i) ==
  /\ bound' = bound \ {i}
  /\ cleanup' = [cleanup EXCEPT ![c] =
       [of |-> i, at |-> "disconnect", rpc |-> resources[i].rpc,
        pi |-> IF resources[i].pi = 0 THEN 0 ELSE record[i].pi]]
  /\ beat' = IF resources[i].pi = 0 THEN beat ELSE [beat EXCEPT ![i] = 0]

-----------------------------------------------------------------------------
(* spawnInstance *)

Spawn(i) ==
  /\ server # "down" /\ Settled
  /\ spawn[i] = "none"
  /\ live' = live \cup {i}
  /\ Upsert(i, [status |-> "starting", pi |-> 0])
  /\ resources' = [resources EXCEPT ![i].rpc = TRUE]
  /\ bound' = bound \cup {i}
  /\ child' = [child EXCEPT ![i] = "running"]
  /\ spawn' = [spawn EXCEPT ![i] = "state"]
  /\ history' = IF server = "up" THEN history
                ELSE [history EXCEPT !.early = @ \cup {i}]
  /\ UNCHANGED <<server, cleanup, exit, rpc, renewal, recovery, radius, count>>

(* syncInstanceRecord: get_state is answered; the registration is sent. *)
StateKnown(i) ==
  /\ spawn[i] = "state" /\ child[i] = "running" /\ Settled
  /\ Upsert(i, record[i])
  /\ spawn' = [spawn EXCEPT ![i] = "register"]
  /\ UNCHANGED <<server, live, resources, bound, child, cleanup, exit, rpc, renewal,
                 recovery, radius, count, history>>

(* registerPi's answer: the heartbeat starts, whatever became of the instance. *)
Registers(i, n) ==
  /\ n = count["pis"] + 1 /\ count' = [count EXCEPT !["pis"] = n]
  /\ registered' = registered \cup {<<i, n>>}
  /\ beat' = [beat EXCEPT ![i] = n]

SpawnRegistered(i) ==
  /\ spawn[i] = "register" /\ Settled
  /\ \E n \in Pi :
       /\ Registers(i, n)
       /\ Upsert(i, [status |-> "online", pi |-> n])
       /\ resources' = [resources EXCEPT ![i].pi = n]
  /\ spawn' = [spawn EXCEPT ![i] = "online"]
  /\ UNCHANGED <<server, live, bound, child, cleanup, exit, rpc, renewal, recovery, history>>

(* failSpawn, after a rejected get_state or a failed registration. *)
FailSpawn(i) ==
  /\ \/ spawn[i] = "rejected" /\ UNCHANGED count
     \/ spawn[i] = "register" /\ Settled /\ Fails
  /\ Upsert(i, WithStatus(i, "error"))
  /\ CleanupBegins(i, i)
  /\ spawn' = [spawn EXCEPT ![i] = "failing"]
  /\ UNCHANGED <<server, live, resources, child, exit, rpc, renewal, recovery,
                 registered, history>>

-----------------------------------------------------------------------------
(* stopInstance *)

StopInstance(c, i) ==
  /\ server # "down" /\ Settled
  /\ c \in Stop /\ cleanup[c].at = "ready"
  /\ i \in live
  /\ Upsert(i, WithStatus(i, "stopping"))
  /\ CleanupBegins(c, i)
  /\ UNCHANGED <<server, live, resources, child, spawn, exit, rpc, renewal, recovery,
                 registered, count, history>>

(* Both callers of cleanupAcquiredResources drop the instance when it is over
   and when it has failed; failSpawn leaves its record in the file. *)
DropInstance(c, at) ==
  LET i == cleanup[c].of
      r == [WithStatus(i, "stopped") EXCEPT !.pi = IF at = "done" THEN 0 ELSE @]
  IN /\ live' = live \ {i}
     /\ record' = [record EXCEPT ![i] = r]
     /\ file' = [file EXCEPT ![i] = IF c \in Stop THEN None ELSE r]
     /\ cleanup' = [cleanup EXCEPT ![c].at = at]
     /\ spawn' = IF c \in Stop THEN spawn ELSE [spawn EXCEPT ![c] = "failed"]

(* The Pi is disconnected (or there is none): the child is disposed of, which
   rejects the requests that wait for it. *)
Disconnected(c) ==
  LET i == cleanup[c].of
      stops == cleanup[c].rpc /\ child[i] \in {"running", "terminating"}
  IN /\ cleanup[c].at = "disconnect"
     /\ cleanup[c].pi # 0 => Settled
     /\ registered' = registered \ {<<i, cleanup[c].pi>>}
     /\ resources' = [resources EXCEPT ![i] =
          [rpc |-> IF cleanup[c].rpc THEN FALSE ELSE @.rpc, pi |-> 0]]
     /\ record' = [record EXCEPT ![i].pi = 0]
     /\ cleanup' = [cleanup EXCEPT ![c].at = "dispose"]
     /\ child' = IF stops THEN [child EXCEPT ![i] = "terminating"] ELSE child
     /\ spawn' = IF cleanup[c].rpc /\ spawn[i] = "state"
                 THEN [spawn EXCEPT ![i] = "rejected"] ELSE spawn
     /\ rpc' = IF cleanup[c].rpc THEN [rpc EXCEPT ![i] = "none"] ELSE rpc
     /\ UNCHANGED <<server, live, bound, file, exit, renewal, recovery, beat, count,
                    history>>

(* The service fails to disconnect the Pi: the child is not disposed of. *)
DisconnectFails(c) ==
  /\ cleanup[c].at = "disconnect" /\ cleanup[c].pi # 0 /\ Settled
  /\ Fails
  /\ DropInstance(c, "failed")
  /\ history' = [history EXCEPT !.stranded = @ \cup {cleanup[c].of}]
  /\ UNCHANGED <<server, resources, bound, child, exit, rpc, renewal, recovery, radius>>

(* The child has exited, or there was none to dispose of. *)
Disposed(c) ==
  /\ cleanup[c].at = "dispose" /\ Due(c)
  /\ DropInstance(c, "done")
  /\ history' = IF c \in Stop
                THEN [history EXCEPT !.stopped = @ \cup {cleanup[c].of}] ELSE history
  /\ UNCHANGED <<server, resources, bound, child, exit, rpc, renewal, recovery, radius,
                 count>>

-----------------------------------------------------------------------------
(* The exit of a child, and handleUnexpectedRpcExit when it is bound. *)

Handled(i) == i \in bound /\ i \in live /\ record[i].status \notin {"stopping", "stopped"}

ChildExits(i) ==
  /\ child[i] \in {"running", "terminating"} /\ Settled
  /\ IF child[i] = "running" THEN Counts("exits", MaxExits) ELSE UNCHANGED count
  /\ child' = [child EXCEPT ![i] = "exited"]
  /\ spawn' = IF spawn[i] = "state" THEN [spawn EXCEPT ![i] = "rejected"] ELSE spawn
  /\ rpc' = [rpc EXCEPT ![i] = "none"]
  /\ IF Handled(i)
     THEN /\ Upsert(i, WithStatus(i, "error"))
          /\ bound' = bound \ {i}
          /\ resources' = [resources EXCEPT ![i].rpc = FALSE]
          /\ IF resources[i].pi = 0
             THEN live' = live \ {i} /\ UNCHANGED <<exit, beat>>
             ELSE /\ exit' = [exit EXCEPT ![i] = record[i].pi]
                  /\ beat' = [beat EXCEPT ![i] = 0]
                  /\ UNCHANGED live
     ELSE UNCHANGED <<state, exit, beat>>
  /\ UNCHANGED <<server, cleanup, renewal, recovery, registered, history>>

(* The Pi of an exited child is disconnected, or the failure is logged. *)
ExitHandled(i) ==
  /\ exit[i] # None /\ Settled
  /\ exit' = [exit EXCEPT ![i] = None]
  /\ live' = live \ {i}
  /\ \/ /\ registered' = registered \ {<<i, exit[i]>>}
        /\ Upsert(i, [record[i] EXCEPT !.pi = 0])
        /\ UNCHANGED <<count, history>>
     \/ /\ Fails
        /\ history' = [history EXCEPT !.stranded = @ \cup {i}]
        /\ UNCHANGED <<registered, record, file>>
  /\ UNCHANGED <<server, resources, bound, child, spawn, cleanup, rpc, renewal,
                 recovery, beat>>

-----------------------------------------------------------------------------
(* handleRpc, or a stream that openRpcStream opened while the instance was
   live: after a command that may change the session, get_state. *)

Request(i) ==
  /\ server # "down" /\ Settled
  /\ child[i] \in {"running", "terminating"} /\ rpc[i] = "none"
  /\ rpc' = [rpc EXCEPT ![i] = "command"]
  /\ UNCHANGED <<server, state, child, spawn, cleanup, exit, renewal, recovery, radius,
                 count, history>>

Answered(i) ==
  /\ rpc[i] # "none" /\ Settled
  /\ IF rpc[i] = "command" /\ resources[i].rpc
     THEN /\ rpc' = [rpc EXCEPT ![i] = "state"]
          /\ UNCHANGED <<record, file>>
     ELSE /\ rpc' = [rpc EXCEPT ![i] = "none"]
          /\ Upsert(i, record[i])
  /\ UNCHANGED <<server, live, resources, bound, child, spawn, cleanup, exit, renewal,
                 recovery, radius, count, history>>

-----------------------------------------------------------------------------
(* Heartbeats: a Pi, or the machine, that the service has forgotten is
   registered once more. *)

Forget(i, n) ==
  /\ <<i, n>> \in registered /\ Settled
  /\ Counts("forgotten", MaxForgotten)
  /\ registered' = registered \ {<<i, n>>}
  /\ UNCHANGED <<server, state, child, spawn, cleanup, exit, rpc, renewal, recovery,
                 beat, history>>

(* reRegisterPi, for a Pi whose heartbeat finds it forgotten, or for every
   live instance when the machine is; the heartbeat of a dead one ends. *)
Renew(i) ==
  /\ server # "down" /\ Settled
  /\ renewal[i] = None
  /\ \/ /\ beat[i] # 0 /\ <<i, beat[i]>> \notin registered
        /\ UNCHANGED <<registered, count>>
     \/ /\ i \in live
        /\ Counts("forgotten", MaxForgotten)
        /\ registered' = {p \in registered : p[1] # i}
  /\ IF i \in live
     THEN renewal' = [renewal EXCEPT ![i] = record[i]] /\ UNCHANGED beat
     ELSE beat' = [beat EXCEPT ![i] = 0] /\ UNCHANGED renewal
  /\ UNCHANGED <<server, state, child, spawn, cleanup, exit, rpc, recovery, history>>

(* The answer: updateInstance puts back the record that was sent. *)
Renewed(i) ==
  /\ renewal[i] # None /\ Settled
  /\ renewal' = [renewal EXCEPT ![i] = None]
  /\ \/ /\ \E n \in Pi :
             LET r == [renewal[i] EXCEPT !.pi = n]
             IN /\ Registers(i, n)
                /\ file' = [file EXCEPT ![i] = r]
                /\ IF i \in live
                   THEN /\ record' = [record EXCEPT ![i] = r]
                        /\ resources' = [resources EXCEPT ![i].pi = n]
                   ELSE UNCHANGED <<record, resources>>
     \/ Fails /\ UNCHANGED <<record, resources, file, radius>>
  /\ UNCHANGED <<server, live, bound, child, spawn, cleanup, exit, rpc, recovery, history>>

-----------------------------------------------------------------------------
(* Crash and restart, also when a request of the recovery fails.  Only the
   file and the service remember; the children end when their input closes. *)

Crash ==
  /\ \/ server # "down" /\ Counts("crashes", MaxCrashes)
     \/ server = "recovering" /\ recovery.left # {} /\ Settled /\ Fails
  /\ server' = "down"
  /\ live' = {} /\ bound' = {}
  /\ record' = [i \in Inst |-> [status |-> "starting", pi |-> 0]]
  /\ resources' = [i \in Inst |-> [rpc |-> FALSE, pi |-> 0]]
  /\ child' = [i \in Inst |-> IF child[i] = "none" THEN "none" ELSE "exited"]
  /\ spawn' = [i \in Inst |-> IF spawn[i] = "none" THEN "none" ELSE "lost"]
  /\ cleanup' = [c \in DOMAIN cleanup |->
       IF CleaningUp(c) THEN [cleanup[c] EXCEPT !.at = "lost"] ELSE cleanup[c]]
  /\ exit' = [i \in Inst |-> None] /\ rpc' = [i \in Inst |-> "none"]
  /\ renewal' = [i \in Inst |-> None] /\ beat' = [i \in Inst |-> 0]
  /\ recovery' = NoRecovery
  /\ UNCHANGED <<file, registered, history>>

(* serve() listens first and then calls recoverAfterRestart, which reads the
   file and keeps its contents until every Pi is disconnected. *)
Restart ==
  /\ server = "down"
  /\ server' = "recovering"
  /\ recovery' =
       [records |-> [i \in Inst |->
          IF file[i] = None THEN None
          ELSE [file[i] EXCEPT !.status =
                  IF @ \in {"online", "starting"} THEN "stopped" ELSE @]],
        left |-> {i \in Inst : file[i] # None /\ file[i].pi # 0}]
  /\ UNCHANGED <<state, child, spawn, cleanup, exit, rpc, renewal, radius, count, history>>

RecoverPi(i) ==
  /\ server = "recovering" /\ i \in recovery.left /\ Settled
  /\ registered' = registered \ {<<i, recovery.records[i].pi>>}
  /\ recovery' = [recovery EXCEPT !.left = @ \ {i}]
  /\ UNCHANGED <<server, state, child, spawn, cleanup, exit, rpc, renewal, beat, count,
                 history>>

Recovered ==
  /\ server = "recovering" /\ recovery.left = {}
  /\ server' = "up"
  /\ file' = recovery.records
  /\ recovery' = NoRecovery
  /\ UNCHANGED <<live, record, resources, bound, child, spawn, cleanup, exit, rpc,
                 renewal, radius, count, history>>

-----------------------------------------------------------------------------
Continue(c) == Disconnected(c) \/ DisconnectFails(c) \/ Disposed(c)
SpawnGoesOn(i) == StateKnown(i) \/ SpawnRegistered(i) \/ FailSpawn(i)
ServerGoesOn == Restart \/ (\E i \in Inst : RecoverPi(i)) \/ Recovered

Step ==
  \/ \E i \in Inst :
       \/ Spawn(i) \/ SpawnGoesOn(i) \/ ChildExits(i) \/ ExitHandled(i)
       \/ Request(i) \/ Answered(i) \/ Renew(i) \/ Renewed(i)
       \/ \E c \in Stop : StopInstance(c, i)
       \/ \E n \in Pi : Forget(i, n)
  \/ \E c \in Stop \cup Inst : Continue(c)
  \/ Crash \/ ServerGoesOn

(* A registration of i is under way while the instance goes away, or two are,
   when the machine is registered again during a spawn. *)
Overtaken(i) ==
  \/ /\ spawn[i] = "register" \/ renewal[i] # None
     /\ i \notin live \/ exit[i] # None \/ Leaving(i)
  \/ spawn[i] \in {"state", "register"} /\ renewal[i] # None

(* Two of the coroutines that end an instance are under way at once. *)
Crossed(i) ==
  LET ending == {c \in DOMAIN cleanup : cleanup[c].of = i /\ CleaningUp(c)}
  IN \/ exit[i] # None /\ ending # {}
     \/ \E c, d \in ending : c # d

Next ==
  /\ Step
  /\ overtaken' = overtaken \cup {i \in Inst : Overtaken(i)'}
  /\ crossed' = crossed \cup {i \in Inst : Crossed(i)'}

Spec == Init /\ [][Next]_vars

(* Continuations run; Radius answers or fails; a child answers get_state, and
   exits when it is told to; the server is restarted. *)
Fairness ==
  /\ \A c \in Stop \cup Inst : WF_steps(Continue(c))
  /\ \A i \in Inst : /\ WF_steps(SpawnGoesOn(i))
                      /\ WF_steps(child[i] = "terminating" /\ ChildExits(i))
  /\ WF_steps(ServerGoesOn)

FairSpec == Spec /\ Fairness

-----------------------------------------------------------------------------
(* Properties. *)

Resources == [rpc : BOOLEAN, pi : Nat]
Progress == {"none", "state", "rejected", "register", "failing", "online", "failed", "lost"}
Cleanup ==
  [of : Inst \cup {None}, at : {"ready", "disconnect", "dispose", "done", "failed", "lost"},
   pi : Nat, rpc : BOOLEAN]

(* Every variable keeps its type. *)
TypeOK ==
  /\ server \in {"up", "recovering", "down"}
  /\ live \subseteq Inst /\ bound \subseteq Inst
  /\ record \in [Inst -> Record]
  /\ resources \in [Inst -> Resources]
  /\ file \in [Inst -> Record \cup {None}]
  /\ child \in [Inst -> {"none", "running", "terminating", "exited"}]
  /\ spawn \in [Inst -> Progress] /\ cleanup \in [Stop \cup Inst -> Cleanup]
  /\ exit \in [Inst -> Nat \cup {None}] /\ rpc \in [Inst -> {"none", "command", "state"}]
  /\ renewal \in [Inst -> Record \cup {None}] /\ beat \in [Inst -> Nat]
  /\ recovery.left \subseteq Inst
  /\ registered \subseteq Inst \X Nat /\ overtaken \subseteq Inst

(* A child that runs belongs to a live instance or is being disposed of,
   unless Radius failed to disconnect its Pi (cleanupAcquiredResources). *)
ChildrenOwned ==
  \A i \in Inst : child[i] \in {"running", "terminating"} =>
    \/ i \in live /\ resources[i].rpc
    \/ \E c \in DOMAIN cleanup : cleanup[c].of = i /\ CleaningUp(c) /\ cleanup[c].rpc
    \/ i \in history.stranded

(* What clients are told from the file agrees with the live instance, unless
   it was spawned while the records were still being recovered. *)
FileMirrorsLive ==
  server = "up" => \A i \in live \ history.early :
    /\ file[i] # None
    /\ file[i].status = record[i].status
    /\ file[i].pi = record[i].pi \/ Leaving(i)

(* The file says of no dead instance that it runs, unless its registration at
   Radius was overtaken; after a crash not before the recovery, which leaves
   those that were being stopped as they are. *)
DeadAreNotOnline ==
  server = "up" => \A i \in Inst \ (live \cup overtaken) :
    file[i] # None =>
      \/ file[i].status \in {"stopped", "error"} \/ Leaving(i)
      \/ /\ file[i].status = "stopping"
         /\ \E c \in Stop : cleanup[c].of = i /\ cleanup[c].at = "lost"

(* A Pi that the service knows is the one of a live instance, until it is
   disconnected, unless that failed, its registration was overtaken, or the
   instance was spawned during a recovery, which drops its record: the next
   recovery does not know its Pi.  And no instance that is gone sends
   heartbeats. *)
NoGhostAtRadius ==
  server = "up" => \A i \in Inst \ overtaken :
    /\ i \notin history.stranded \cup history.early =>
         \A n \in Pi : <<i, n>> \in registered => i \in live /\ resources[i].pi = n
    /\ beat[i] # 0 => i \in live

(* An instance that was stopped does not come back to the file, unless its
   registration, its exit, the failure of its spawn or another stop crossed the
   stop. *)
StoppedStaysGone ==
  \A i \in history.stopped :
    file[i] # None => i \in overtaken \cup crossed

(* Every spawn, every stop and every recovery comes to its end. *)
Settles ==
  []<>(/\ server = "up"
       /\ \A c \in DOMAIN cleanup : ~CleaningUp(c)
       /\ \A i \in Inst : spawn[i] \in {"none", "online", "failed", "lost"})

(* Children, records and registrations agree on which instances there are. *)
RecordsAreTrue ==
  /\ TypeOK /\ ChildrenOwned /\ FileMirrorsLive /\ DeadAreNotOnline
  /\ NoGhostAtRadius /\ StoppedStaysGone
=============================================================================
