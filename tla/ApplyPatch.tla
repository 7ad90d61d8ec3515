-------------------------------- MODULE ApplyPatch --------------------------------
(***************************************************************************)
(* One call of the apply_patch tool (packages/coding-agent/src/core/tools/ *)
(* apply-patch.ts): several files are added, updated and deleted together. *)
(* The call reads all of them and plans its operations, and only then      *)
(* changes them one after the other; when one fails, it takes back those   *)
(* before it.  FileMutationQueue keeps the other tools away from the files *)
(* meanwhile, but nothing keeps an editor or another process away.         *)
(*                                                                         *)
(* A text is a sequence of lines.  A directory has an entry for each path: *)
(* a file, a symbolic link to one, or nothing.                             *)
(***************************************************************************)
EXTENDS Integers, Sequences, SequencesExt, FiniteSetsExt

CONSTANTS
  Path,
  Patches,      \* sequences of operations [type, path, lines, hunks]
  Directories,  \* the entries of all paths, at first; a link is [kind |-> "link", to],
                \* and leads to no link
  Outside,      \* the entries that other programs may make
  MaxEdits,     \* bound: changes made by other programs
  MaxFailures   \* bound: file-system calls that fail

Missing == [kind |-> "missing"]
FileOf(lines) == [kind |-> "file", lines |-> lines]

VARIABLES
  entry,          \* the directory
  patch,
  phase,          \* "targets", "preflight", "commit", "rollback", and how it ended
  at,             \* the operation the call is at
  targets,        \* canonicalTargets
  planned,        \* the operations planned, with the file each found
  checked,        \* the operation it is at has passed assertPreflightUnchanged
  applied,        \* the operations that were applied
  rollbackErrors, \* paths
  failures, edits,
  \* history
  cancelled,      \* "no", or whether the signal came before or in the commit
  theirs,         \* the entries as other programs last left them
  writer,         \* who wrote an entry last: "nobody", "outside", "patch" or "rollback"
  late,           \* paths changed by others after their operation was checked
  lost            \* paths where the call replaced what another program had written

history == <<cancelled, theirs, writer, late, lost>>
vars == <<entry, patch, phase, at, targets, planned, checked, applied, rollbackErrors, failures, edits,
          history>>

Init ==
  /\ entry \in Directories /\ patch \in Patches
  /\ phase = "targets" /\ at = 1 /\ targets = {} /\ planned = <<>>
  /\ checked = FALSE /\ applied = {} /\ rollbackErrors = {} /\ failures = 0 /\ edits = 0
  /\ cancelled = "no" /\ theirs = entry /\ writer = [p \in Path |-> "nobody"]
  /\ late = {} /\ lost = {}

Ended == phase \in {"answered", "failed", "crashed"}
PathOf(i) == patch[i].path

\* readFileState: through a link.
StateOf(p) == IF entry[p].kind = "link" THEN entry[entry[p].to] ELSE entry[p]

\* resolveCanonicalPath: realpath, or the path as it is where that fails.
CanonicalPath(p) == IF entry[p].kind = "link" /\ StateOf(p) # Missing THEN entry[p].to ELSE p

-----------------------------------------------------------------------------
(* Hunks *)

findHunkMatch(lines, old, start) ==
  {i \in start..(Len(lines) - Len(old) + 1) : SubSeq(lines, i, i + Len(old) - 1) = old}

\* Slip: the search goes on where the hunk ended before it was replaced.
AfterOldLines(match, hunk) == match + Len(hunk.old)

AfterHunk(match, hunk) == match + Len(hunk.new)

\* applyHunks: the text so far, where to go on, and whether every hunk had one match.
applyHunks(lines, hunks) ==
  LET splice(done, hunk) ==
        LET matches == findHunkMatch(done.lines, hunk.old, done.from)
            match == Min(matches)
        IN  IF ~done.ok \/ Cardinality(matches) # 1 THEN [done EXCEPT !.ok = FALSE]
            ELSE [lines |-> SubSeq(done.lines, 1, match - 1) \o hunk.new
                              \o SubSeq(done.lines, match + Len(hunk.old), Len(done.lines)),
                  from |-> AfterHunk(match, hunk), ok |-> TRUE]
  IN  FoldLeft(splice, [lines |-> lines, from |-> 1, ok |-> TRUE], hunks)

-----------------------------------------------------------------------------
(* Before the commit *)

Aborted == cancelled # "no"

Fail == phase' = "failed"
Unchanged == UNCHANGED <<entry, patch, applied, rollbackErrors, edits, history>>

\* Two paths of a patch that lead to the same file.
CheckTarget ==
  /\ phase = "targets" /\ Unchanged /\ UNCHANGED <<planned, checked, failures>>
  /\ LET target == CanonicalPath(PathOf(at))
     IN  IF Aborted \/ target \in targets THEN Fail /\ UNCHANGED <<at, targets>>
         ELSE /\ targets' = targets \cup {target}
              /\ at' = (IF at = Len(patch) THEN 1 ELSE at + 1)
              /\ phase' = (IF at = Len(patch) THEN "preflight" ELSE phase)

\* What the operation makes of the file it found.
Outcome(op, found) ==
  CASE op.type = "add" -> FileOf(op.lines)
    [] op.type = "update" -> FileOf(applyHunks(found.lines, op.hunks).lines)
    [] op.type = "delete" -> Missing

CanApply(op, found) ==
  /\ (op.type = "add") = (found = Missing)
  /\ op.type = "update" => applyHunks(found.lines, op.hunks).ok

\* planPatchOperations
PlanOperation ==
  /\ phase = "preflight" /\ at <= Len(patch)
  /\ Unchanged /\ UNCHANGED <<targets, checked, failures>>
  /\ LET op == patch[at]
         found == StateOf(op.path)
     IN  IF Aborted \/ ~CanApply(op, found) THEN Fail /\ UNCHANGED <<at, planned>>
         ELSE /\ planned' = Append(planned, [preflight |-> found, next |-> Outcome(op, found)])
              /\ at' = at + 1 /\ UNCHANGED phase

\* The last look at the signal.
BeginCommit ==
  /\ phase = "preflight" /\ at > Len(patch)
  /\ IF Aborted THEN Fail /\ UNCHANGED at ELSE phase' = "commit" /\ at' = 1
  /\ Unchanged /\ UNCHANGED <<targets, planned, checked, failures>>

-----------------------------------------------------------------------------
(* The commit *)

\* Slip: the file is not read again before it is replaced.
TakenAsUnchanged == TRUE

\* statesMatch
PreflightUnchanged == StateOf(PathOf(at)) = planned[at].preflight

\* assertPreflightUnchanged
CheckPreflight ==
  /\ phase = "commit" /\ at <= Len(patch) /\ ~checked
  /\ IF PreflightUnchanged THEN checked' = TRUE /\ UNCHANGED phase
     ELSE phase' = "rollback" /\ UNCHANGED checked
  /\ Unchanged /\ UNCHANGED <<at, targets, planned, failures>>

\* The call replaces the entry of operation i.
Replace(i, new, who) ==
  LET p == PathOf(i)
  IN  /\ entry' = [entry EXCEPT ![p] = new]
      /\ writer' = [writer EXCEPT ![p] = who]
      /\ lost' = (IF writer[p] = "outside" /\ entry[p] # planned[i].preflight THEN lost \cup {p} ELSE lost)
      /\ UNCHANGED <<cancelled, theirs, late>>

\* unlink, which wants an entry, or writeAtomically, which renames a file over the entry.
ApplyOperation ==
  /\ phase = "commit" /\ checked
  /\ UNCHANGED <<patch, targets, planned, rollbackErrors, failures, edits>>
  /\ IF patch[at].type = "delete" /\ entry[PathOf(at)] = Missing
     THEN phase' = "rollback" /\ UNCHANGED <<entry, at, checked, applied, history>>
     ELSE /\ Replace(at, planned[at].next, "patch")
          /\ applied' = applied \cup {at} /\ at' = at + 1 /\ checked' = FALSE
          /\ UNCHANGED phase

Answer ==
  /\ phase = "commit" /\ at > Len(patch) /\ phase' = "answered"
  /\ Unchanged /\ UNCHANGED <<at, targets, planned, checked, failures>>

\* A call of the file system rejects.
FailOperation ==
  /\ phase \in {"targets", "preflight", "commit"} /\ at <= Len(patch)
  /\ failures < MaxFailures /\ failures' = failures + 1
  /\ phase' = (IF phase = "commit" THEN "rollback" ELSE "failed")
  /\ Unchanged /\ UNCHANGED <<at, targets, planned, checked>>

-----------------------------------------------------------------------------
(* The rollback *)

Restoring == Max(applied)

\* Slip: files that were added stay.
RestoredButAdded(i) == IF planned[i].preflight = Missing THEN entry[PathOf(i)] ELSE planned[i].preflight

\* rm, or writeAtomically with the content the file had.
Restored(i) == planned[i].preflight

Restore ==
  /\ phase = "rollback" /\ applied # {} /\ applied' = applied \ {Restoring}
  /\ UNCHANGED <<patch, phase, at, targets, planned, checked, edits>>
  /\ \/ Replace(Restoring, Restored(Restoring), "rollback") /\ UNCHANGED <<rollbackErrors, failures>>
     \/ /\ failures < MaxFailures /\ failures' = failures + 1
        /\ rollbackErrors' = rollbackErrors \cup {PathOf(Restoring)}
        /\ UNCHANGED <<entry, history>>

\* The error says what was changed, and for which paths the rollback failed.
Throw ==
  /\ phase = "rollback" /\ applied = {} /\ Fail
  /\ Unchanged /\ UNCHANGED <<at, targets, planned, checked, failures>>

-----------------------------------------------------------------------------
(* The environment *)

\* Operation i has been looked at for the last time.
LookedAt(i) == \/ phase = "rollback"
               \/ phase = "commit" /\ (i < at \/ (i = at /\ checked))

\* Another program writes or removes a file.
Edit(p, e) ==
  /\ ~Ended /\ edits < MaxEdits /\ entry[p] # e /\ edits' = edits + 1
  /\ entry' = [entry EXCEPT ![p] = e] /\ theirs' = [theirs EXCEPT ![p] = e]
  /\ writer' = [writer EXCEPT ![p] = "outside"]
  /\ late' = (IF \E i \in DOMAIN patch : PathOf(i) = p /\ LookedAt(i) THEN late \cup {p} ELSE late)
  /\ UNCHANGED <<patch, phase, at, targets, planned, checked, applied, rollbackErrors, failures,
                 cancelled, lost>>

Abort ==
  /\ ~Ended /\ cancelled = "no"
  /\ cancelled' = (IF phase \in {"commit", "rollback"} THEN "late" ELSE "early")
  /\ UNCHANGED <<entry, patch, phase, at, targets, planned, checked, applied, rollbackErrors, failures, edits,
                 theirs, writer, late, lost>>

\* The process ends.  A file that was being written is a temporary one.
Crash ==
  /\ ~Ended /\ phase' = "crashed"
  /\ Unchanged /\ UNCHANGED <<at, targets, planned, checked, failures>>

Next ==
  \/ CheckTarget \/ PlanOperation \/ BeginCommit \/ CheckPreflight \/ ApplyOperation \/ Answer
  \/ FailOperation \/ Restore \/ Throw \/ Abort \/ Crash
  \/ \E p \in Path : \E e \in Outside : Edit(p, e)

Spec == Init /\ [][Next]_vars

-----------------------------------------------------------------------------
(* Properties *)

(* A patch that answers has been applied whole, and one that fails not at all: each
   path is as the other programs left it, unless the error names it, a change made
   during the commit was rolled back with the patch, or the path was a symbolic link,
   which the rollback puts a copy of the file in place of. *)
AllOrNothing ==
  /\ phase = "answered" =>
       \A i \in DOMAIN patch :
          \/ writer[PathOf(i)] = "patch" /\ entry[PathOf(i)] = planned[i].next
          \/ writer[PathOf(i)] = "outside" /\ PathOf(i) \in late
  /\ phase = "failed" =>
       \A p \in Path :
          entry[p] = theirs[p] \/ p \in rollbackErrors \cup lost \/ theirs[p].kind = "link"

(* What other programs change before the call has looked at the file for the last
   time is never overwritten, in the rollback neither. *)
OutsideEditsKept == lost \subseteq late

(* Wherever the process ends, a prefix of the patch has been applied, but for files
   that could not be restored or that others changed. *)
CrashLeavesPrefix ==
  \A i, j \in DOMAIN patch :
     i < j /\ writer[PathOf(j)] = "patch" =>
        writer[PathOf(i)] \in {"patch", "outside"} \/ PathOf(j) \in rollbackErrors

(* A call that is cancelled before its commit changes nothing; one cancelled later
   is not left half done, which AllOrNothing says of it too. *)
EarlyAbortChangesNothing ==
  cancelled = "early" => \A p \in Path : writer[p] \in {"nobody", "outside"}

(* The lines that hunks replace are never ambiguous: where a patch is planned, its
   hunks fit one way in order without overlap, and the text is what that way gives. *)
HunksFitOneWay ==
  \A i \in DOMAIN planned : patch[i].type = "update" =>
     LET lines == planned[i].preflight.lines
         hunks == patch[i].hunks
         n == Len(hunks)
         end(pos, k) == IF k = 0 THEN 1 ELSE pos[k] + Len(hunks[k].old)
         fits(pos) == \A k \in 1..n : /\ pos[k] \in findHunkMatch(lines, hunks[k].old, 1)
                                      /\ pos[k] >= end(pos, k - 1)
         ways == {pos \in [1..n -> DOMAIN lines] : fits(pos)}
         pieces(pos) == [k \in 1..n |-> SubSeq(lines, end(pos, k - 1), pos[k] - 1) \o hunks[k].new]
         result(pos) == FlattenSeq(pieces(pos)) \o SubSeq(lines, end(pos, n), Len(lines))
     IN  Cardinality(ways) = 1 /\ \A pos \in ways : planned[i].next = FileOf(result(pos))

(* Whether a patch succeeds, fails, is cancelled or is cut off: none of it is half done,
   and none of it at the cost of what others wrote. *)
PatchIsWhole == AllOrNothing /\ OutsideEditsKept /\ CrashLeavesPrefix /\ EarlyAbortChangesNothing
=============================================================================
