------------------------------- MODULE FileTools -------------------------------
(***************************************************************************)
(* The tools that change files: the queue of their mutations               *)
(* (FileMutationQueue) and a call of apply_patch (ApplyPatch), side by     *)
(* side.  The queue gives the call its files, and they share no other      *)
(* state: what keeps the call's promises against other programs is its     *)
(* own care.                                                               *)
(***************************************************************************)
EXTENDS FileMutationQueue

CONSTANTS
  PatchPath,   \* the paths of the patches and of the directories
  Patches, Directories, Outside, MaxEdits, MaxFailures    \* see ApplyPatch

VARIABLES
  entry, patch, phase, at, targets, planned, checked, applied, rollbackErrors, failures, edits,
  cancelled, theirs, writer, late, lost

patchVars == <<entry, patch, phase, at, targets, planned, checked, applied, rollbackErrors, failures, edits,
               cancelled, theirs, writer, late, lost>>

Patch == INSTANCE ApplyPatch WITH Path <- PatchPath

\* parsePatch wants an operation, and lets no path occur twice.  Other programs make files
\* and remove them.
ASSUME PatchAssumption ==
  /\ \A q \in Patches :
       /\ Len(q) \in Nat \ {0} /\ DOMAIN q = 1 .. Len(q)
       /\ \A i \in DOMAIN q : q[i].path \in PatchPath
       /\ \A i, j \in DOMAIN q : q[i].path = q[j].path => i = j
  /\ \A d \in Directories : d = [p \in PatchPath |-> d[p]]
  /\ \A e \in Outside : e.kind # "link"

-----------------------------------------------------------------------------
(* Properties *)

\* A patch is applied whole, or taken back but for what its error names, wherever it fails,
\* and never at the cost of what others wrote before its last look.
PatchIsWhole == Patch!PatchIsWhole

\* What a planned patch makes of a file is what its hunks say, without ambiguity.
HunksFitOneWay == Patch!HunksFitOneWay

\* What other programs change before the last look at a file is kept.
OutsideEditsKept == Patch!OutsideEditsKept
=============================================================================
