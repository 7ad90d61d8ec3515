---------------------------- MODULE Compaction ----------------------------
(***************************************************************************)
(* The entries of a session and the algorithms over a path of its tree:    *)
(* core/session-manager.ts (buildSessionPath, buildContextEntries) and     *)
(* core/compaction/compaction.ts (findCutPoint, prepareCompaction).        *)
(*                                                                         *)
(* A path is the sequence of the entries from the root to a leaf.  Every   *)
(* message that reaches the model weighs one token.  The text of a summary *)
(* is the set of the entries that it stands for, in the field covers.      *)
(***************************************************************************)
EXTENDS Naturals, Sequences, FiniteSets, SequencesExt

\* A change of model or of thinking level, a session name, data of an
\* extension: none is shown to the model.  A compaction's ref is its
\* firstKeptEntryId, a label's its targetId.
Metadata == {"settings", "label", "unlabel"}

EntryKinds ==
  {"user", "assistant", "toolResult", "bash", "compaction", "branchSummary"} \cup Metadata

\* sessionEntryToContextMessages(entry).length > 0
Visible(e) == e.kind \notin Metadata

IsCutPoint(e) == e.kind \in {"user", "assistant", "bash", "branchSummary"}
IsTurnStart(e) == e.kind \in {"user", "bash", "branchSummary"}

Ids(es) == {es[i].id : i \in DOMAIN es}

\* The position of the parent of es[i] among the entries before it, 0 if none.
ParentAt(es, i) == SelectLastInSubSeq(es, 1, i - 1, LAMBDA e : e.id = es[i].parent)

\* getBranch and buildSessionPath: the path from the root to the entry.
PathTo(es, id) ==
  LET path[i \in 0..Len(es)] ==
        IF i = 0 THEN <<>> ELSE Append(path[ParentAt(es, i)], es[i])
  IN  IF id = 0 THEN <<>> ELSE path[SelectInSeq(es, LAMBDA e : e.id = id)]

LastCompaction(path) == SelectLastInSubSeq(path, 1, Len(path), LAMBDA e : e.kind = "compaction")

\* The first entry at or after position from with that id, 0 if none.
Find(path, id) == SelectInSeq(path, LAMBDA e : e.id = id)

(***************************************************************************)
(* buildContextEntries: the latest compaction, the entries that it keeps,  *)
(* and the entries after it.                                               *)
(***************************************************************************)
ContextEntries(path) ==
  LET c == LastCompaction(path)
      k == Find(path, path[c].ref)
  IN  IF c = 0 THEN path
      ELSE <<path[c]>>
             \o (IF k \in 1..(c - 1) THEN SubSeq(path, k, c - 1) ELSE <<>>)
             \o SubSeq(path, c + 1, Len(path))

\* The ids of what the model still sees of a path, in full or summarised.
Known(path) ==
  UNION {{e.id} \cup e.covers : e \in {f \in Range(ContextEntries(path)) : Visible(f)}}

-----------------------------------------------------------------------------

\* findCutPoint, first half: walk back from the newest entry until the
\* messages fill the budget, then to the next place where a cut is allowed.
CutByBudget(path, start, keep) ==
  LET n == Len(path)
      Weight(i) == Cardinality({j \in i..n : Visible(path[j])})
      Cuts == {i \in start..n : IsCutPoint(path[i])}
      Full == {i \in start..n : Visible(path[i]) /\ Weight(i) >= keep}
      After == {c \in Cuts : Full # {} /\ c >= Max(Full)}
  IN  IF Cuts = {} THEN start
      ELSE IF After = {} THEN Min(Cuts) ELSE Min(After)

\* findCutPoint: the metadata just before the cut is kept with it.
FindCutPoint(path, start, keep) ==
  LET cut == CutByBudget(path, start, keep)
  IN  IF \A i \in start..Len(path) : ~IsCutPoint(path[i]) THEN start
      ELSE Min({c \in start..cut : \A j \in c..(cut - 1) : ~Visible(path[j])})

\* Where the entries of a split turn begin: the cut itself when it starts a turn.
HistoryEnd(path, start, cut) ==
  LET Starts == {i \in start..cut : IsTurnStart(path[i])}
  IN  IF Starts = {} THEN cut ELSE Max(Starts)

\* Slip: what a split turn loses is not summarised.
SummarizedNoPrefix(path, start, cut) ==
  {i \in start..(HistoryEnd(path, start, cut) - 1) :
     Visible(path[i]) /\ path[i].kind # "compaction"}

\* prepareCompaction: messagesToSummarize and turnPrefixMessages.
Summarized(path, start, cut) ==
  LET history == start..(HistoryEnd(path, start, cut) - 1)
      turnPrefix == HistoryEnd(path, start, cut)..(cut - 1)
  IN  {i \in history \cup turnPrefix : Visible(path[i]) /\ path[i].kind # "compaction"}

\* Where the last compaction left off.
BoundaryStart(path) ==
  LET c == LastCompaction(path)
      k == Find(path, path[c].ref)
  IN  IF c = 0 THEN 1 ELSE IF k > 0 THEN k ELSE c + 1

(***************************************************************************)
(* prepareCompaction: the first kept entry and what the summary stands     *)
(* for, with the previous summary, which the new one updates; None when    *)
(* there is nothing to compact.                                            *)
(***************************************************************************)
PrepareCompaction(path, keep, None) ==
  LET start == BoundaryStart(path)
      cut == FindCutPoint(path, start, keep)
      gone == Summarized(path, start, cut)
      previous == IF LastCompaction(path) = 0 THEN {} ELSE path[LastCompaction(path)].covers
  IN  IF \/ path = <<>> \/ path[Len(path)].kind = "compaction"
         \/ start > Len(path) \/ gone = {}
      THEN None
      ELSE [firstKept |-> path[cut].id, covers |-> previous \cup {path[i].id : i \in gone}]
=============================================================================
