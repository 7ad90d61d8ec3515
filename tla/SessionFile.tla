---------------------------- MODULE SessionFile ----------------------------
(***************************************************************************)
(* The sessions of SessionManager under a name of their own, with what is  *)
(* assumed of the constants, so that the runs and the proofs speak of the  *)
(* same ones.                                                              *)
(***************************************************************************)
EXTENDS Naturals, Sequences

CONSTANTS Files, NoFile, Cut, Bad, None, Scenarios  \* see SessionManager

VARIABLES
  disk, sessionFile, fileEntries, leafId, flushed, labelsById, compacting, nextId, faults, moves, bounds

Store == INSTANCE SessionManager

\* What a line holds when it parses, and what a file may hold.
Record ==
  [id : Nat, parent : Nat, kind : Store!EntryKinds \cup {"session"}, ref : Nat, covers : SUBSET Nat]
FileContent == [lines : Seq(Record \cup {Bad}), tail : Record \cup {None, Cut}]

\* Of the kinds of entries those that callers append.
Kinds == Store!EntryKinds \ {"compaction", "branchSummary"}

\* An old file has, and callers append, entries of those kinds; a compaction keeps something.
\* In an old file too a tool result comes after its call or another result of it.
ASSUME StoreAssumption ==
  \A b \in Scenarios :
    /\ b.legacy \in Seq(Kinds) /\ b.kinds \subseteq Kinds
    /\ \A i \in DOMAIN b.legacy : b.legacy[i] = "toolResult" =>
         \E j \in 1 .. (i - 1) : /\ b.legacy[j] \in {"assistant", "toolResult"}
                                /\ \A x \in (j + 1) .. (i - 1) : b.legacy[x] \in Store!Metadata
    /\ b.keepRecent \in Nat \ {0}
    /\ {b.entries, b.faults, b.moves} \subseteq Nat /\ Len(b.legacy) <= b.entries

\* What stands for no file, a piece of a line, a line that does not parse, or nothing, is nothing else.
ASSUME LinesAssumption ==
  /\ NoFile \notin Files /\ NoFile \notin FileContent
  /\ Cut # None /\ \A x \in {Cut, Bad, None} : x \notin Record

-----------------------------------------------------------------------------
(* Properties *)

\* What a file keeps of a session, and what the indexes in memory say of it.
FileIsSound == Store!FileIsSound

\* What the model is shown of a session, after every cut.
ContextIsWhole == Store!ContextIsWhole

\* A fork has the messages of the branch in their order and the labels that they bear.
ForkKeepsBranch == Store!ForkKeepsBranch

\* docs/sessions.md:32 "`/clone` | Duplicate the current active branch into a new session".
CloneDuplicates == Store!CloneDuplicates
=============================================================================
