----------------------------- MODULE AuthStorage -----------------------------
(***************************************************************************)
(* packages/coding-agent/src/core/auth-storage.ts and the locked refresh   *)
(* of packages/ai/src/auth/resolve.ts: processes that share auth.json.     *)
(*                                                                         *)
(* A process keeps a copy of the file, made when it starts and renewed     *)
(* whenever it has the lock.  A login, a logout and the refresh of an      *)
(* expired token are calls of modify and delete: they take the lock, read  *)
(* the file, wait for the provider when there is a token to refresh, write *)
(* the file and release the lock.  All of a call that runs while nobody    *)
(* else can act is one step; a write empties the file and then fills it.   *)
(*                                                                         *)
(* The lock (proper-lockfile), the file system and the providers are not   *)
(* part of the repository.  A lock whose holder died is taken over; one    *)
(* whose holder was suspended too long is taken over too, and the holder   *)
(* learns of it late.  A provider takes a refresh token once, and answers  *)
(* with the next one.                                                      *)
(***************************************************************************)
EXTENDS Integers

CONSTANTS
  Processes,
  Calls,
  Providers,
  Owner, About,    \* of each call: the process that makes it, and for which provider
  None, ApiKey,    \* no credential, and an API key
  Absent, Torn,    \* no file, and one that is not JSON
  Nobody,          \* holds the lock
  MaxTokens,       \* bound: tokens altogether
  MaxFaults        \* bound: crashes, failed writes, lost answers and stolen locks

ASSUME AuthStorageAssumption ==
  /\ Owner \in [Calls -> Processes] /\ About \in [Calls -> Providers]
  /\ MaxTokens \in Nat \ {0} /\ MaxFaults \in Nat
  /\ None \notin Nat /\ ApiKey \notin Nat /\ None # ApiKey
  /\ Nobody \notin Calls

Token == 1..MaxTokens
Credential == Token \cup {None, ApiKey}
Content == [Providers -> Credential]
Nothing == [q \in Providers |-> None]

\* No file and a file that is not JSON are not taken for one that holds credentials.
ASSUME FileAssumption == Absent \notin Content /\ Torn \notin Content /\ Absent # Torn

VARIABLES
  file,            \* auth.json
  holder,          \* of the lock
  up, data,        \* of each process: how far it is, and its copy
  pc, op,          \* of each call: how far it is, and what it does
  given,           \* the credential of a login
  next,            \* what the call has read, and then what it writes
  issued,          \* tokens are numbered in the order they are issued
  lapsed,          \* those that have expired
  spent,           \* those that the provider has taken for a refresh
  lost, noticed,   \* the calls whose lock was taken over, and those that know
  faults,
  wanted,          \* history: the tokens that users are logged in with
  harmed           \* history: credentials were lost to a fault

tokens == <<issued, lapsed, spent>>
calls == <<op, given>>
theft == <<lost, noticed>>
vars == <<file, holder, up, data, pc, calls, next, tokens, theft, faults, wanted, harmed>>

Init ==
  /\ file \in {Absent} \cup {[Nothing EXCEPT ![q] = 1] : q \in Providers}
  /\ issued = IF file = Absent THEN 0 ELSE 1
  /\ wanted = 1..issued
  /\ lapsed = {} /\ spent = {}
  /\ holder = Nobody /\ lost = {} /\ noticed = {}
  /\ up = [p \in Processes |-> "down"] /\ data = [p \in Processes |-> Nothing]
  /\ pc = [c \in Calls |-> "idle"]
  /\ op = [c \in Calls |-> "refresh"]
  /\ given = [c \in Calls |-> None] /\ next = [c \in Calls |-> Nothing]
  /\ faults = 0 /\ harmed = FALSE

At(c, step) == pc' = [pc EXCEPT ![c] = step]
Fault == faults < MaxFaults /\ faults' = faults + 1
Harm == harmed' = TRUE

\* parseStorageData, of a file that is JSON.
Parsed == IF file = Absent THEN Nothing ELSE file

\* Slip: a holder that waits for its provider counts as dead.
FreeWhenSlow ==
  holder = Nobody \/ (holder \in Calls /\ pc[holder] \in {"dead", "refreshing"})

\* The lock can be had: nobody has it, or its holder died.
Free == holder = Nobody \/ (holder \in Calls /\ pc[holder] = "dead")

-----------------------------------------------------------------------------
(* Processes. *)

(* ensureFileExists finds no file, and creates one a moment later. *)
FindsNone(p) ==
  /\ up[p] = "down" /\ file = Absent
  /\ up' = [up EXCEPT ![p] = "creating"]
  /\ UNCHANGED <<file, holder, data, pc, calls, next, tokens, theft, faults, wanted, harmed>>

\* The file once ensureFileExists is over: an empty one is created over whatever another
\* process has written in the meantime.
Ensured(p) == IF up[p] = "creating" THEN Nothing ELSE file

\* That loses credentials, unless the other process had stored none.
Overwrites(p) == Ensured(p) \notin {file, Parsed}

(* The constructor reads the file under the lock, which it waits for but a
   moment.  Without the lock, or when the file is not JSON, the process starts
   with no credentials. *)
Starts(p) ==
  /\ up[p] = "creating" \/ (up[p] = "down" /\ file # Absent)
  /\ up' = [up EXCEPT ![p] = "up"]
  /\ file' = Ensured(p)
  /\ \/ /\ holder # Nobody
        /\ data' = data
        /\ UNCHANGED <<holder, lost, faults>>
        /\ harmed' = (harmed \/ Overwrites(p))
     \/ /\ \/ /\ Free /\ UNCHANGED <<lost, faults>>
              /\ harmed' = (harmed \/ Overwrites(p))
           \/ \* A lock that was not renewed for ten seconds is stale for the constructor,
              \* and a refresh renews its lock every fifteen.
              /\ holder \in Calls /\ pc[holder] = "refreshing"
              /\ Fault /\ Harm /\ lost' = lost \cup {holder}
        /\ holder' = Nobody
        /\ data' = [data EXCEPT ![p] = IF file' = Torn THEN Nothing ELSE file']
  /\ UNCHANGED <<pc, calls, next, tokens, noticed, wanted>>

\* getAuth() with a token that has expired.
GetAuth(c) ==
  /\ data[Owner[c]][About[c]] \in lapsed
  /\ op' = [op EXCEPT ![c] = "refresh"]
  /\ UNCHANGED <<given, issued>>

\* login(), once the user has logged in.
Login(c) ==
  /\ op' = [op EXCEPT ![c] = "login"]
  /\ \/ given' = [given EXCEPT ![c] = ApiKey] /\ UNCHANGED issued
     \/ /\ issued < MaxTokens
        /\ issued' = issued + 1 /\ given' = [given EXCEPT ![c] = issued']

Logout(c) ==
  /\ op' = [op EXCEPT ![c] = "logout"]
  /\ given' = [given EXCEPT ![c] = None]
  /\ UNCHANGED issued

\* A call begins.
Calling(c) ==
  /\ pc[c] = "idle" /\ up[Owner[c]] = "up"
  /\ GetAuth(c) \/ Login(c) \/ Logout(c)
  /\ At(c, "lock")
  /\ UNCHANGED <<file, holder, up, data, next, lapsed, spent, theft, faults, wanted, harmed>>

\* Time passes: a token that some process has expires.
Lapses(t) ==
  /\ t \in (1..issued) \ lapsed /\ \E p \in Processes : \E q \in Providers : data[p][q] = t
  /\ lapsed' = lapsed \cup {t}
  /\ UNCHANGED <<file, holder, up, data, pc, calls, next, issued, spent, theft, faults, wanted, harmed>>

-----------------------------------------------------------------------------
(* modify() and delete(): withLockAsync. *)

\* What calls that are over knew.
Forgets(over) ==
  /\ given' = [c \in Calls |-> IF c \in over THEN None ELSE given[c]]
  /\ next' = [c \in Calls |-> IF c \in over THEN Nothing ELSE next[c]]
  /\ lost' = lost \ over /\ noticed' = noticed \ over

\* The retries are used up.
TimesOut(c) ==
  /\ pc[c] = "lock" /\ holder # Nobody
  /\ At(c, "done")
  /\ Forgets({c})
  /\ UNCHANGED <<file, holder, up, data, op, tokens, faults, wanted, harmed>>

\* The credential that the file has for the call's provider.
Current(c) == Parsed[About[c]]

MustRefresh(c) == Current(c) \in lapsed

\* Slip: into the copy of the process.
MergedCached(c) == [data[Owner[c]] EXCEPT ![About[c]] = given[c]]

\* The file with the credential of a login, or with none after a logout.
Merged(c) == [Parsed EXCEPT ![About[c]] = given[c]]

(* With the lock: the file is read, and modify's function begins.  A refresh
   looks again whether it is needed, and waits for the provider. *)
Enters(c) ==
  /\ holder' = c
  /\ \/ /\ file = Torn
        /\ At(c, "release")
        /\ UNCHANGED <<data, next, wanted>>
     \/ /\ file # Torn /\ op[c] = "refresh" /\ ~MustRefresh(c)
        /\ data' = [data EXCEPT ![Owner[c]] = Parsed]
        /\ At(c, "release")
        /\ UNCHANGED <<next, wanted>>
     \/ /\ file # Torn /\ op[c] = "refresh" /\ MustRefresh(c)
        /\ next' = [next EXCEPT ![c] = [Parsed EXCEPT ![About[c]] = Current(c)]]
        /\ At(c, "refreshing")
        /\ UNCHANGED <<data, wanted>>
     \/ /\ file # Torn /\ op[c] # "refresh"
        /\ next' = [next EXCEPT ![c] = Merged(c)]
        /\ data' = [data EXCEPT ![Owner[c]] = Merged(c)]
        /\ wanted' = (wanted \ {Parsed[About[c]]}) \cup ({given[c]} \cap Token)
        /\ At(c, "write")

Acquires(c) ==
  /\ pc[c] = "lock"
  /\ Free
  /\ Enters(c)
  /\ UNCHANGED <<file, up, calls, tokens, theft, faults, harmed>>

\* The lock of a process that was suspended is taken over.
Steals(c) ==
  /\ pc[c] = "lock" /\ holder \in Calls /\ pc[holder] # "dead" /\ Owner[holder] # Owner[c]
  /\ Fault /\ Harm
  /\ lost' = lost \cup {holder}
  /\ Enters(c)
  /\ UNCHANGED <<file, up, calls, tokens, noticed>>

\* onCompromised.
Notices(c) ==
  /\ c \in lost \ noticed /\ pc[c] \in {"refreshing", "write"}
  /\ noticed' = noticed \cup {c}
  /\ UNCHANGED <<file, holder, up, data, pc, calls, next, tokens, lost, faults, wanted, harmed>>

\* The token that the call presents to its provider.
Presented(c) == next[c][About[c]]

\* Slip: the file has the refreshed credential and no other.
RenewedAlone(c, t) == [Nothing EXCEPT ![About[c]] = t]

\* The file with the refreshed credential.
Renewed(c, t) == [next[c] EXCEPT ![About[c]] = t]

(* The provider takes the token and answers with the next one; the copy of the
   process has it before the file. *)
Refreshes(c) ==
  /\ pc[c] = "refreshing" /\ Presented(c) \in Token \ spent /\ issued < MaxTokens
  /\ issued' = issued + 1 /\ spent' = spent \cup {Presented(c)}
  /\ wanted' = (wanted \ {Presented(c)}) \cup {issued'}
  /\ next' = [next EXCEPT ![c] = Renewed(c, issued')]
  /\ data' = [data EXCEPT ![Owner[c]] = next'[c]]
  /\ At(c, "write")
  /\ UNCHANGED <<file, holder, up, calls, lapsed, theft, faults, harmed>>

\* The provider refuses or cannot be reached, and modify throws.
RefreshFails(c) ==
  /\ pc[c] = "refreshing"
  /\ At(c, "release")
  /\ UNCHANGED <<file, holder, up, data, calls, next, tokens, theft, faults, wanted, harmed>>

\* The provider has taken the token, and its answer is lost.
AnswerLost(c) ==
  /\ pc[c] = "refreshing" /\ Presented(c) \notin spent
  /\ Fault /\ Harm
  /\ spent' = spent \cup {Presented(c)}
  /\ At(c, "release")
  /\ UNCHANGED <<file, holder, up, data, calls, next, issued, lapsed, theft, wanted>>

\* A call that knows it has lost its lock throws and writes nothing.
GivesUp(c) ==
  /\ pc[c] = "write" /\ c \in noticed
  /\ At(c, "release")
  /\ UNCHANGED <<file, holder, up, data, calls, next, tokens, theft, faults, wanted, harmed>>

WriteBegins(c) ==
  /\ pc[c] = "write" /\ c \notin noticed
  /\ file' = Nothing
  /\ At(c, "writing")
  /\ UNCHANGED <<holder, up, data, calls, next, tokens, theft, faults, wanted, harmed>>

WriteEnds(c) ==
  /\ pc[c] = "writing"
  /\ file' = next[c]
  /\ At(c, "release")
  /\ UNCHANGED <<holder, up, data, calls, next, tokens, theft, faults, wanted, harmed>>

WriteFails(c) ==
  /\ pc[c] = "writing"
  /\ Fault /\ Harm
  /\ file' \in {file, Torn}
  /\ At(c, "release")
  /\ UNCHANGED <<holder, up, data, calls, next, tokens, theft, wanted>>

\* Slip: only a call that succeeds releases the lock.
FreedOnSuccess(c) == IF file = next[c] THEN Nobody ELSE holder

(* The holder of the lock after the call: nobody, unless the call knows that the
   lock is another's now. *)
Freed(c) == IF c \in noticed THEN holder ELSE Nobody

Releases(c) ==
  /\ pc[c] = "release"
  /\ holder' = Freed(c)
  /\ At(c, "done")
  /\ Forgets({c})
  /\ UNCHANGED <<file, up, data, op, tokens, faults, wanted, harmed>>

(* A process dies: its calls are over, a lock stays, and a write is torn. *)
Crash(p) ==
  LET own == {c \in Calls : Owner[c] = p /\ pc[c] \notin {"idle", "done"}}
  IN  /\ up[p] = "up" /\ Fault
      /\ up' = [up EXCEPT ![p] = "down"] /\ data' = [data EXCEPT ![p] = Nothing]
      /\ pc' = [c \in Calls |-> IF c \in own THEN "dead" ELSE pc[c]]
      /\ harmed' = (harmed \/ \E c \in own : pc[c] \in {"write", "writing"})
      /\ file' \in {file} \cup (IF \E c \in own : pc[c] = "writing" THEN {Torn} ELSE {})
      /\ Forgets(own)
      /\ UNCHANGED <<holder, op, tokens, wanted>>

-----------------------------------------------------------------------------
CallStep(c) ==
  \/ Acquires(c) \/ Refreshes(c) \/ RefreshFails(c)
  \/ GivesUp(c) \/ WriteBegins(c) \/ WriteEnds(c) \/ Releases(c)

FaultStep ==
  \/ \E p \in Processes : Crash(p)
  \/ \E c \in Calls : TimesOut(c) \/ Steals(c) \/ Notices(c) \/ AnswerLost(c) \/ WriteFails(c)

Next ==
  \/ \E p \in Processes : FindsNone(p) \/ Starts(p)
  \/ \E c \in Calls : Calling(c) \/ CallStep(c)
  \/ \E t \in Token : Lapses(t)
  \/ FaultStep

Spec == Init /\ [][Next]_vars

\* A process that runs goes on with its calls, and a provider answers.
FairSpec == Spec /\ \A c \in Calls : WF_vars(CallStep(c))

-----------------------------------------------------------------------------
(* Properties. *)

TypeOK ==
  /\ file \in Content \cup {Absent, Torn} /\ holder \in Calls \cup {Nobody}
  /\ up \in [Processes -> {"down", "creating", "up"}] /\ data \in [Processes -> Content]
  /\ pc \in [Calls -> {"idle", "lock", "refreshing", "write", "writing",
                       "release", "done", "dead"}]
  /\ op \in [Calls -> {"refresh", "login", "logout"}]
  /\ given \in [Calls -> Credential] /\ next \in [Calls -> Content]
  /\ issued \in 0..MaxTokens /\ lapsed \subseteq 1..issued /\ spent \subseteq 1..issued
  /\ lost \subseteq Calls /\ noticed \subseteq lost
  /\ faults \in 0..MaxFaults /\ wanted \subseteq 1..issued /\ harmed \in BOOLEAN

Locked == {"refreshing", "write", "writing", "release"}

\* The lock serves: calls that read, refresh or write are one at a time, unless the lock
\* of a suspended process was taken over.
LockExcludes ==
  harmed \/ \A c \in Calls : pc[c] \in Locked => holder = c

\* What the README of packages/ai says: requests and processes do not refresh a rotated
\* token again.  The exceptions are credentials lost to a fault.
NoDoubleRefresh ==
  \A c \in Calls : pc[c] = "refreshing" => harmed \/ Presented(c) \notin spent

\* The credentials that the file has, or has once the write is over.
Stored ==
  IF \E c \in Calls : pc[c] = "writing"
  THEN next[CHOOSE c \in Calls : pc[c] = "writing"]
  ELSE IF file = Torn THEN Nothing ELSE Parsed

\* Whoever is logged in stays so: the newest token of a login is stored, or its call is
\* about to store it with the lock still held, unless a fault has lost credentials.
GrantKept ==
  harmed \/ \A t \in wanted :
    \/ \E q \in Providers : Stored[q] = t
    \/ \E c \in Calls : pc[c] = "write" /\ Presented(c) = t

Writes(c) == pc[c] = "write" /\ pc'[c] = "writing"

\* A call changes what is stored for its own provider, and nothing that other calls or
\* other processes have stored for the others.
OthersKept ==
  [][harmed' \/ \A q \in Providers :
       Stored'[q] # Stored[q] => \E c \in Calls : Writes(c) /\ About[c] = q]_vars

\* Who has logged out stays logged out until the next login, whatever copies other
\* processes keep and whatever refresh was on its way.
StaysOut ==
  [][harmed' \/ \A q \in Providers :
       Stored[q] = None /\ Stored'[q] # None =>
         \E c \in Calls : Writes(c) /\ op[c] = "login" /\ About[c] = q]_vars

\* A call gives the lock back, or dies.
LockReleased ==
  \A c \in Calls : holder = c ~> holder # c \/ pc[c] = "dead"

\* A write in auth.json changes what its call is about, and follows what was stored last.
WritesAreMerged == OthersKept /\ StaysOut

\* A token that its owner has is neither given up nor used twice.
TokensAreKept == NoDoubleRefresh /\ GrantKept
=============================================================================
