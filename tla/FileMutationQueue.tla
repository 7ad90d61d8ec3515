-------------------------- MODULE FileMutationQueue --------------------------
(***************************************************************************)
(* withFileMutationQueues (packages/coding-agent/src/core/tools/           *)
(* file-mutation-queue.ts), which the write, edit and apply_patch tools    *)
(* wrap around every change of a file.                                     *)
(*                                                                         *)
(* A call is one coroutine.  Registrations run one after the other; each   *)
(* looks up the key of every path, which awaits the file system, and then, *)
(* in one step, puts its promise behind the last promise of each key.      *)
(* fileMutationQueues[k] is the operation whose promise is the last of k.  *)
(*                                                                         *)
(* A key is a canonical path: the target of a symbolic link that leads to  *)
(* a file, the path itself otherwise.                                      *)
(***************************************************************************)
EXTENDS Integers, Sequences

CONSTANTS
  Op,         \* calls of withFileMutationQueues, each made at most once
  File,       \* canonical paths of files
  Link,       \* symbolic links
  PointsTo,   \* PointsTo[l]: the file that link l names
  Present,    \* the files that exist at first
  Removable,  \* the files a mutation may remove
  NoOp        \* stands for an absent entry of fileMutationQueues

Path == File \cup Link

ASSUME QueueAssumption ==
  /\ PointsTo \in [Link -> File] /\ File \cap Link = {}
  /\ Present \subseteq File /\ Removable \subseteq File
  /\ NoOp \notin Op

VARIABLES
  present,             \* the files that exist
  state,               \* how far each call is
  paths,               \* filePaths of each call
  registrationQueue,   \* the calls that are not registered yet, in order
  lookups,             \* lookups[o]: the paths whose key o has still to look up
  keys,                \* keys[o]: the keys found so far, then those registered
  currentQueues,       \* currentQueues[o]: the operations o waits for
  fileMutationQueues,
  registered,          \* registrations so far
  ticket               \* ticket[o]: the number of o's registration, 0 before

vars == <<present, state, paths, registrationQueue, lookups, keys, currentQueues,
          fileMutationQueues, registered, ticket>>

-----------------------------------------------------------------------------
(* Paths *)

FileOf(p) == IF p \in Link THEN PointsTo[p] ELSE p

\* Slip: aliases of a file are different keys.
UnresolvedKey(p) == p

\* getMutationQueueKey: realpath, or the path as it is where that fails.
MutationQueueKey(p) == IF FileOf(p) \in present THEN FileOf(p) ELSE p

-----------------------------------------------------------------------------
(* The calls *)

Call(o, ps) ==
  /\ state[o] = "idle"
  /\ paths' = [paths EXCEPT ![o] = ps]
  /\ IF ps = {}
     THEN /\ state' = [state EXCEPT ![o] = "running"]
          /\ UNCHANGED <<registrationQueue, lookups>>
     ELSE /\ state' = [state EXCEPT ![o] = "registering"]
          /\ registrationQueue' = Append(registrationQueue, o)
          /\ lookups' = [lookups EXCEPT ![o] = ps]
  /\ UNCHANGED <<present, keys, currentQueues, fileMutationQueues, registered, ticket>>

\* The registration whose turn it is.
Registering(o) == registrationQueue # <<>> /\ o = Head(registrationQueue)

Lookup(o, p) ==
  /\ Registering(o) /\ p \in lookups[o]
  /\ keys' = [keys EXCEPT ![o] = @ \cup {MutationQueueKey(p)}]
  /\ lookups' = [lookups EXCEPT ![o] = @ \ {p}]
  /\ UNCHANGED <<present, state, paths, registrationQueue, currentQueues,
                 fileMutationQueues, registered, ticket>>

\* A lookup rejects: so does the call, and the next registration goes on.
LookupFails(o) ==
  /\ Registering(o) /\ lookups[o] # {}
  /\ state' = [state EXCEPT ![o] = "failed"]
  /\ registrationQueue' = Tail(registrationQueue)
  /\ UNCHANGED <<present, paths, lookups, keys, currentQueues, fileMutationQueues,
                 registered, ticket>>

\* Slip: the queues are read after the call has put itself into them.
QueuesWithItself(o) == {o}

\* Slip: the call waits for one queue of those it needs.
OneQueue(o) ==
  LET busy == {k \in keys[o] : fileMutationQueues[k] # NoOp}
  IN IF busy = {} THEN {} ELSE {fileMutationQueues[CHOOSE k \in busy : TRUE]}

QueuesOf(o) == {fileMutationQueues[k] : k \in keys[o]} \ {NoOp}

Register(o) ==
  /\ Registering(o) /\ lookups[o] = {}
  /\ currentQueues' = [currentQueues EXCEPT ![o] = QueuesOf(o)]
  /\ fileMutationQueues' =
       [k \in Path |-> IF k \in keys[o] THEN o ELSE fileMutationQueues[k]]
  /\ state' = [state EXCEPT ![o] = "waiting"]
  /\ registrationQueue' = Tail(registrationQueue)
  /\ registered' = registered + 1
  /\ ticket' = [ticket EXCEPT ![o] = registered + 1]
  /\ UNCHANGED <<present, paths, lookups, keys>>

\* chainedQueue of p: what p waited for has settled before p runs.
Settled(p) == state[p] = "done"

Enter(o) ==
  /\ state[o] = "waiting" /\ \A p \in currentQueues[o] : Settled(p)
  /\ state' = [state EXCEPT ![o] = "running"]
  /\ UNCHANGED <<present, paths, registrationQueue, lookups, keys, currentQueues,
                 fileMutationQueues, registered, ticket>>

\* fn writes to a path, which creates the file it leads to, or removes a file.
Mutate(o, p) ==
  /\ state[o] = "running" /\ p \in paths[o]
  /\ \/ present' = present \cup {FileOf(p)}
     \/ p \in Removable /\ present' = present \ {p}
  /\ UNCHANGED <<state, paths, registrationQueue, lookups, keys, currentQueues,
                 fileMutationQueues, registered, ticket>>

Deleted(o) ==
  [k \in Path |-> IF k \in keys[o] /\ fileMutationQueues[k] = o THEN NoOp
                  ELSE fileMutationQueues[k]]

\* fn has returned or thrown: the finally block.
Leave(o) ==
  /\ state[o] = "running"
  /\ state' = [state EXCEPT ![o] = "done"]
  /\ fileMutationQueues' = Deleted(o)
  /\ UNCHANGED <<present, paths, registrationQueue, lookups, keys, currentQueues,
                 registered, ticket>>

-----------------------------------------------------------------------------
Init ==
  /\ present = Present
  /\ state = [o \in Op |-> "idle"] /\ paths = [o \in Op |-> {}]
  /\ registrationQueue = <<>> /\ lookups = [o \in Op |-> {}]
  /\ keys = [o \in Op |-> {}] /\ currentQueues = [o \in Op |-> {}]
  /\ fileMutationQueues = [k \in Path |-> NoOp]
  /\ registered = 0 /\ ticket = [o \in Op |-> 0]

\* What an operation does without being asked again.
GoesOn(o) ==
  \/ \E p \in Path : Lookup(o, p)
  \/ LookupFails(o) \/ Register(o) \/ Enter(o) \/ Leave(o)

Next ==
  \E o \in Op :
     \/ \E ps \in SUBSET Path : Call(o, ps)
     \/ GoesOn(o)
     \/ \E p \in Path : Mutate(o, p)

Spec == Init /\ [][Next]_vars

\* Promises settle, file-system calls and mutations return.
FairSpec == Spec /\ \A o \in Op : WF_vars(GoesOn(o))

-----------------------------------------------------------------------------
(* Properties *)

\* Every variable has its type: a call waits for calls, never for the absent entry of
\* a key (the map's get may find nothing).
TypeOK ==
  /\ present \subseteq File
  /\ state \in [Op -> {"idle", "registering", "waiting", "running", "done", "failed"}]
  /\ paths \in [Op -> SUBSET Path]
  /\ registrationQueue \in Seq(Op)
  /\ lookups \in [Op -> SUBSET Path] /\ keys \in [Op -> SUBSET Path]
  /\ currentQueues \in [Op -> SUBSET Op]
  /\ fileMutationQueues \in [Path -> Op \cup {NoOp}]
  /\ registered \in Nat /\ ticket \in [Op -> Nat]

\* Two operations that run have no key in common.
KeysExclusive ==
  \A o, p \in Op :
     o # p /\ state[o] = "running" /\ state[p] = "running" => keys[o] \cap keys[p] = {}

\* The queue implements locks on keys that are granted in the order of registration.
Locks == INSTANCE KeyLocks WITH
  Key <- Path, issued <- registered,
  ticket <- [o \in Op |-> IF state[o] \in {"waiting", "running"} THEN ticket[o] ELSE 0],
  need <- [o \in Op |-> IF ticket[o] # 0 THEN keys[o] ELSE {}],
  inside <- {o \in Op : state[o] = "running" /\ ticket[o] # 0}
GrantsInOrder == Locks!Spec

\* Operations without a common key run in parallel: whoever waits, waits for an
\* operation that it shares a key with and that has not returned yet.
WaitsForSharedKey ==
  \A o \in Op : state[o] = "waiting" =>
     \A p \in currentQueues[o] :
        keys[o] \cap keys[p] # {} /\ (Settled(p) \/ state[p] \in {"waiting", "running"})

\* The map holds nothing for an operation that has returned, so it does not grow.
NoStaleEntry ==
  \A k \in Path :
     fileMutationQueues[k] # NoOp => state[fileMutationQueues[k]] \in {"waiting", "running"}

\* Every call settles, those that need several keys in any overlap too.
EveryCallSettles ==
  \A o \in Op : state[o] # "idle" ~> state[o] \in {"done", "failed"}

\* Two operations that run lead to different files.
FilesExclusive ==
  \A o, p \in Op :
     o # p /\ state[o] = "running" /\ state[p] = "running" =>
        {FileOf(q) : q \in paths[o]} \cap {FileOf(q) : q \in paths[p]} = {}
=============================================================================
