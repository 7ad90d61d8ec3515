-------------------------- MODULE SessionManager --------------------------
(***************************************************************************)
(* packages/coding-agent/src/core/session-manager.ts: the tree of entries  *)
(* of a session, its leaf and labels in memory, and its append-only file;  *)
(* the forks of agent-session-runtime.ts and the compactions of            *)
(* agent-session.ts as its clients.                                        *)
(*                                                                         *)
(* A file is a sequence of lines and a tail: what follows the last line    *)
(* feed.  A write that fails, or that a crash cuts, leaves nothing, a      *)
(* piece of JSON (Cut) or the whole JSON without its line feed; the line   *)
(* written next is joined to it and then parses as nothing (Bad).          *)
(*                                                                         *)
(* One process uses the files.  Sessions in memory only, the list of       *)
(* sessions, working directories and the texts of entries are left out.    *)
(***************************************************************************)
EXTENDS Compaction

CONSTANTS
  Files,        \* paths of session files
  NoFile,       \* a path at which there is no file
  Cut, Bad,     \* a piece of a line; a line that does not parse
  None,
  Scenarios     \* the bounds, one record of which holds for a whole behaviour:
                \*   legacy: kinds of the entries of a file of version 1, or <<>>
                \*   kinds: of the entries that are appended
                \*   keepRecent: keepRecentTokens, a setting
                \*   entries: ever made
                \*   faults: writes that fail
                \*   moves: sessions opened or forked, moves in the tree
                \*   steady: no move in the tree while a compaction is awaited

VARIABLES
  disk,         \* disk[f]: the lines and the tail of a file, or NoFile
  sessionFile,  \* the file of the open session, or NoFile
  fileEntries,  \* the header and the entries; <<>> when no session is open
  leafId,       \* 0: before any entry
  flushed,
  labelsById,   \* the entries that bear a label
  compacting,   \* the preparation of the compaction in progress, or None
  nextId,       \* ids are never used twice
  faults,
  moves,
  bounds        \* the scenario
vars == <<disk, sessionFile, fileEntries, leafId, flushed, labelsById, compacting,
          nextId, faults, moves, bounds>>
session == <<sessionFile, fileEntries, leafId, flushed, labelsById, compacting>>

Entry(id, parent, kind, ref, covers) ==
  [id |-> id, parent |-> parent, kind |-> kind, ref |-> ref, covers |-> covers]

CurrentVersion == 3
Header(version) == Entry(0, 0, "session", version, {})
IsHeader(e) == e.kind = "session"

\* The elements of s at those positions, in their order.
At(s, positions) ==
  LET taken[n \in 0..Len(s)] ==
        IF n = 0 THEN <<>>
        ELSE IF n \in positions THEN Append(taken[n - 1], s[n]) ELSE taken[n - 1]
  IN  taken[Len(s)]

\* What SelectSeq of the standard modules does, of which the provers know nothing.
Filter(s, Test(_)) == At(s, {i \in DOMAIN s : Test(s[i])})

Open == fileEntries # <<>>
\* The header is the first entry, and no other is one.
Body(es) == IF es = <<>> THEN <<>> ELSE Tail(es)
Entries == Body(fileEntries)
HasAssistant(es) == \E e \in Range(es) : e.kind = "assistant"

-----------------------------------------------------------------------------
(* Files *)

Content(lines, tail) == [lines |-> lines, tail |-> tail]

\* loadEntriesFromFile: the lines that parse, unless the first is no header.
Load(c) ==
  LET parsed == Filter(Append(c.lines, c.tail), LAMBDA e : e \notin {Bad, Cut, None})
  IN  IF parsed # <<>> /\ ~IsHeader(parsed[1]) THEN <<>> ELSE parsed

\* What an interrupted write of those lines to a new file may leave.
Partial(es) ==
  UNION {{Content(SubSeq(es, 1, n), t) : t \in {None, Cut, es[n + 1]}} : n \in 0..(Len(es) - 1)}

Write(f, content) == disk' = [disk EXCEPT ![f] = content]

Fails == faults < bounds.faults /\ faults' = faults + 1

\* appendFileSync of one line; ok: it did not throw.
AppendLine(f, e, ok) ==
  LET c == disk[f]
  IN  \/ /\ ok
         /\ Write(f, Content(Append(c.lines, IF c.tail = None THEN e ELSE Bad), None))
         /\ UNCHANGED faults
      \/ /\ ~ok /\ Fails
         /\ \E tail \in {c.tail, Cut} \cup (IF c.tail = None THEN {e} ELSE {}) :
              Write(f, Content(c.lines, tail))

\* Every line, to a file that is created or truncated first.
WriteAll(f, es, ok) ==
  \/ ok /\ Write(f, Content(es, None)) /\ UNCHANGED faults
  \/ ~ok /\ Fails /\ \E c \in Partial(es) : Write(f, c)

\* Slip: the first flush writes the new entry only.
FlushLast(es, ok) ==
  IF disk[sessionFile] # NoFile
  THEN ~ok /\ UNCHANGED <<disk, faults>>
  ELSE WriteAll(sessionFile, <<es[1], es[Len(es)]>>, ok)

\* _persist, first flush: the file must not exist ("wx").
Flush(es, ok) ==
  IF disk[sessionFile] # NoFile
  THEN ~ok /\ UNCHANGED <<disk, faults>>
  ELSE WriteAll(sessionFile, es, ok)

\* _persist: no file before the first answer of the assistant.
Persist(es, ok) ==
  \/ /\ flushed /\ AppendLine(sessionFile, es[Len(es)], ok) /\ UNCHANGED flushed
  \/ /\ ~flushed /\ ~HasAssistant(es) /\ ok /\ UNCHANGED <<disk, faults, flushed>>
  \/ /\ ~flushed /\ HasAssistant(es) /\ Flush(es, ok) /\ flushed' = ok

-----------------------------------------------------------------------------
(* Opening.  A file that is no session, or that cannot be rewritten, makes *)
(* the call throw: the session that was open, if any, stays.               *)

\* _buildIndex: the last change of a label counts.
LabelsOf(es) ==
  LET Change(id) == SelectLastInSubSeq(es, 1, Len(es),
                    LAMBDA e : e.kind \in {"label", "unlabel"} /\ e.ref = id)
  IN  {e.ref : e \in {x \in Range(es) : x.kind = "label" /\ es[Change(x.ref)].kind = "label"}}

\* The file is the session's, with those entries: _buildIndex.
Becomes(f, es, isFlushed) ==
  /\ sessionFile' = f /\ fileEntries' = es
  /\ leafId' = es[Len(es)].id
  /\ labelsById' = LabelsOf(es)
  /\ flushed' = isFlushed
  /\ compacting' = None

\* newSession: a new path, and no file yet.
NewSession(f) ==
  /\ disk[f] = NoFile
  /\ Becomes(f, <<Header(CurrentVersion)>>, FALSE)
  /\ UNCHANGED <<disk, nextId, faults>>

\* migrateToCurrentVersion: entries of version 1 are chained in file order.
Migrated(es) ==
  [i \in DOMAIN es |->
     IF IsHeader(es[i]) THEN Header(CurrentVersion)
     ELSE [es[i] EXCEPT !.id = nextId + i - 2, !.parent = IF i = 2 THEN 0 ELSE nextId + i - 3]]

\* _setSessionFile of an existing file that needs no rewriting.
OpenFile(f) ==
  /\ disk[f] # NoFile
  /\ Load(disk[f]) # <<>> /\ Load(disk[f])[1].ref = CurrentVersion
  /\ Becomes(f, Load(disk[f]), TRUE)
  /\ UNCHANGED <<disk, nextId, faults>>

\* _setSessionFile of a file of an old version: _rewriteFile.
OpenLegacy(f) ==
  /\ disk[f] # NoFile
  /\ Load(disk[f]) # <<>> /\ Load(disk[f])[1].ref < CurrentVersion
  /\ LET es == Migrated(Load(disk[f]))
     IN  /\ nextId' = nextId + Len(es) - 1
         /\ nextId' <= bounds.entries + 1
         /\ \E ok \in BOOLEAN :
              /\ WriteAll(f, es, ok)
              /\ IF ok THEN Becomes(f, es, TRUE) ELSE UNCHANGED session

\* _setSessionFile of an empty file: it gets a header.
OpenEmpty(f) ==
  /\ disk[f] = Content(<<>>, None)
  /\ \E ok \in BOOLEAN :
       /\ WriteAll(f, <<Header(CurrentVersion)>>, ok)
       /\ IF ok THEN Becomes(f, <<Header(CurrentVersion)>>, TRUE) ELSE UNCHANGED session
  /\ UNCHANGED nextId

\* The process ends, by itself or not, and loses what is in memory.
Crash ==
  /\ Open
  /\ sessionFile' = NoFile /\ fileEntries' = <<>> /\ leafId' = 0
  /\ flushed' = FALSE /\ labelsById' = {} /\ compacting' = None
  /\ UNCHANGED <<disk, nextId, faults>>

-----------------------------------------------------------------------------
(* The tree *)

NewEntry(parent, kind, ref, covers) == Entry(nextId, parent, kind, ref, covers)

\* _appendEntry: memory first, then the file; the call throws unless ok.
AppendEntry(e, ok) ==
  /\ Open /\ nextId <= bounds.entries
  /\ fileEntries' = Append(fileEntries, e)
  /\ leafId' = e.id
  /\ nextId' = nextId + 1
  /\ Persist(Append(fileEntries, e), ok)
  /\ UNCHANGED sessionFile

\* The last message on the path of the leaf.
LastMessage ==
  LET messages == Filter(PathTo(Entries, leafId), Visible)
  IN  IF messages = <<>> THEN None ELSE messages[Len(messages)]

\* appendMessage, appendModelChange, appendThinkingLevelChange,
\* appendCustomEntry, appendSessionInfo.  The assistant answers messages,
\* and tool results follow their call, before the leaf moves elsewhere.
AppendMessage(kind) ==
  /\ kind \in bounds.kinds \ {"label", "unlabel"}
  /\ kind = "assistant" => LastMessage # None
  /\ kind = "toolResult" =>
       /\ LastMessage # None /\ LastMessage.kind \in {"assistant", "toolResult"}
       /\ \A e \in Range(Entries) : Visible(e) => e.id <= LastMessage.id
  /\ \E ok \in BOOLEAN : AppendEntry(NewEntry(leafId, kind, 0, {}), ok)
  /\ UNCHANGED <<labelsById, compacting>>

\* appendLabelChange: the index follows unless the write throws.
AppendLabel(kind, target) ==
  /\ kind \in bounds.kinds \cap {"label", "unlabel"} /\ target \in Ids(Entries)
  /\ \E ok \in BOOLEAN :
       /\ AppendEntry(NewEntry(leafId, kind, target, {}), ok)
       /\ labelsById' = IF ~ok THEN labelsById
                        ELSE IF kind = "label" THEN labelsById \cup {target}
                        ELSE labelsById \ {target}
  /\ UNCHANGED compacting

\* branch and resetLeaf: in memory only.
Branch(target) ==
  /\ Open /\ target \in Ids(Entries) \cup {0}
  /\ leafId' = target
  /\ UNCHANGED <<disk, sessionFile, fileEntries, flushed, labelsById, compacting, nextId, faults>>

BranchWithSummary(target) ==
  /\ target \in Ids(Entries) \cup {0}
  /\ \E ok \in BOOLEAN : AppendEntry(NewEntry(target, "branchSummary", 0, {}), ok)
  /\ UNCHANGED <<labelsById, compacting>>

(***************************************************************************)
(* agent-session.ts, compact and _runAutoCompaction: the path is read, the *)
(* summary is awaited, and the compaction goes where the leaf is then.     *)
(***************************************************************************)
CompactionStart ==
  /\ Open /\ compacting = None
  /\ compacting' = PrepareCompaction(PathTo(Entries, leafId), bounds.keepRecent, None)
  /\ compacting' # None
  /\ UNCHANGED <<disk, sessionFile, fileEntries, leafId, flushed, labelsById, nextId, faults>>

CompactionEnd ==
  /\ compacting # None
  /\ \E ok \in BOOLEAN :
       AppendEntry(NewEntry(leafId, "compaction", compacting.firstKept, compacting.covers), ok)
  /\ compacting' = None
  /\ UNCHANGED labelsById

CompactionFails ==
  /\ compacting # None /\ compacting' = None
  /\ UNCHANGED <<disk, sessionFile, fileEntries, leafId, flushed, labelsById, nextId, faults>>

-----------------------------------------------------------------------------
(* Forks *)

\* createBranchedSession: the path without its labels, chained anew.
UnlabelledPath(es, leaf) ==
  LET kept == Filter(PathTo(es, leaf), LAMBDA e : e.kind \notin {"label", "unlabel"})
  IN  [i \in DOMAIN kept |-> [kept[i] EXCEPT !.parent = IF i = 1 THEN 0 ELSE kept[i - 1].id]]

\* Slip: labels of entries that are not copied are written too.
LabelEntriesAll(path, labels) ==
  LET targets == At([id \in 1..(nextId - 1) |-> id], labels)
      last == IF path = <<>> THEN 0 ELSE path[Len(path)].id
  IN  [i \in DOMAIN targets |->
         Entry(nextId + i - 1, IF i = 1 THEN last ELSE nextId + i - 2, "label", targets[i], {})]

\* createBranchedSession: the labels still borne are entries after the path.
LabelEntries(path, labels) ==
  LET targets == At([id \in 1..(nextId - 1) |-> id], labels \cap Ids(path))
      last == IF path = <<>> THEN 0 ELSE path[Len(path)].id
  IN  [i \in DOMAIN targets |->
         Entry(nextId + i - 1, IF i = 1 THEN last ELSE nextId + i - 2, "label", targets[i], {})]

\* createBranchedSession: whether the new file is written at once.
Written(es) == HasAssistant(es)

(***************************************************************************)
(* AgentSessionRuntime.fork: the file is read again, the branch that ends  *)
(* in the entry goes to a new file.  When that throws the session stays.   *)
(* Left out: the header that a fork writes to the session's file when a    *)
(* failed first flush has left it empty.                                   *)
(***************************************************************************)
Fork(leaf, f) ==
  /\ Open /\ leaf \in Ids(Entries)
  /\ disk[sessionFile] # NoFile /\ disk[f] = NoFile /\ f # sessionFile
  /\ LET loaded == Load(disk[sessionFile])
         path == UnlabelledPath(Body(loaded), leaf)
         labels == LabelEntries(path, LabelsOf(loaded))
         es == <<Header(CurrentVersion)>> \o path \o labels
     IN  /\ leaf \in Ids(loaded)
         /\ nextId' = nextId + Len(labels)
         /\ nextId' <= bounds.entries + 1
         /\ IF ~Written(es)
            THEN Becomes(f, es, FALSE) /\ UNCHANGED <<disk, faults>>
            ELSE \E ok \in BOOLEAN :
                   /\ WriteAll(f, es, ok)
                   /\ IF ok THEN Becomes(f, es, TRUE) ELSE UNCHANGED session

\* forkFrom (--fork): every entry of a file is copied and the copy is opened.
ForkFrom(source, f) ==
  /\ disk[source] # NoFile /\ disk[f] = NoFile /\ Load(disk[source]) # <<>>
  /\ Load(disk[source])[1].ref = CurrentVersion
  /\ \E ok \in BOOLEAN :
       /\ WriteAll(f, Load(disk[source]), ok)
       /\ IF ok THEN Becomes(f, Load(disk[source]), TRUE) ELSE UNCHANGED session
  /\ UNCHANGED nextId

-----------------------------------------------------------------------------

LegacyFile ==
  Content(<<Header(1)>> \o [i \in DOMAIN bounds.legacy |-> Entry(0, 0, bounds.legacy[i], 0, {})],
          None)

Init ==
  /\ bounds \in Scenarios
  /\ \/ disk = [f \in Files |-> NoFile]
     \/ /\ bounds.legacy # <<>>
        /\ \E g \in Files : disk = [f \in Files |-> IF f = g THEN LegacyFile ELSE NoFile]
  /\ sessionFile = NoFile /\ fileEntries = <<>> /\ leafId = 0
  /\ flushed = FALSE /\ labelsById = {} /\ compacting = None
  /\ nextId = 1 /\ faults = 0 /\ moves = 0

Move == moves < bounds.moves /\ moves' = moves + 1

Next ==
  /\ UNCHANGED bounds
  /\ \/ Move /\ \E f \in Files :
          \/ NewSession(f) \/ OpenFile(f) \/ OpenLegacy(f) \/ OpenEmpty(f)
          \/ \E g \in Files : ForkFrom(g, f)
          \/ \E leaf \in Ids(Entries) : Fork(leaf, f)
     \/ /\ Move /\ (bounds.steady => compacting = None)
        /\ \E target \in Ids(Entries) \cup {0} : Branch(target) \/ BranchWithSummary(target)
     \/ /\ UNCHANGED moves
        /\ \/ \E kind \in bounds.kinds :
                \/ AppendMessage(kind)
                \/ \E target \in Ids(Entries) : AppendLabel(kind, target)
           \/ CompactionStart \/ CompactionEnd \/ CompactionFails
           \/ Crash

Spec == Init /\ [][Next]_vars

-----------------------------------------------------------------------------
(* Properties *)

\* The state has its type; the leaf is an entry of the session, and only an
\* open session has a file, a flush or a compaction.
TypeOK ==
  /\ \A f \in Files : disk[f] = NoFile \/ DOMAIN disk[f] = {"lines", "tail"}
  /\ sessionFile \in Files \cup {NoFile}
  /\ Open <=> sessionFile \in Files
  /\ flushed \in BOOLEAN
  /\ flushed => Open /\ disk[sessionFile] # NoFile
  /\ leafId \in Ids(Entries) \cup {0}
  /\ compacting = None \/ (Open /\ compacting.covers \subseteq 1..(nextId - 1))
  /\ nextId \in 1..(bounds.entries + 1) /\ faults \in 0..bounds.faults /\ moves \in 0..bounds.moves

\* A reload of a flushed session gives its entries in their order, and each
\* failed write costs at most two of them: the one written, and the next one
\* if it is joined to what was left of it (session-manager.ts:1015-1042); a
\* header without its line feed costs the whole file.
FaultsCostTwo ==
  flushed /\ disk[sessionFile].lines # <<>> /\ disk[sessionFile].lines[1] # Bad =>
    LET stored == Load(disk[sessionFile])
    IN  /\ stored = Filter(fileEntries, LAMBDA e : e \in Range(stored))
        /\ Len(fileEntries) - Len(stored) <= 2 * faults

\* In memory and in every file that loads, the parent of an entry comes before
\* it, so that walks to the root end; only a failed write makes an orphan.
ParentsPrecede ==
  \A es \in {fileEntries} \cup {Load(disk[f]) : f \in {g \in Files : disk[g] # NoFile}} :
    \A i \in DOMAIN es :
      \/ es[i].parent = 0 \/ ParentAt(es, i) # 0
      \/ faults > 0 /\ es[i].parent \notin Ids(es)

\* As long as no write failed, a session is saved from the first answer on,
\* and before it has no file that would make the first flush throw.
SavedOnceAnswered ==
  Open /\ faults = 0 =>
    flushed \/ (~HasAssistant(fileEntries) /\ disk[sessionFile] = NoFile)

\* The index of labels that the calls maintain is the one a reload builds.
LabelsAgree == faults = 0 => labelsById = LabelsOf(fileEntries)

\* Every compaction of the path finds the first entry that it keeps.
Anchored(path) ==
  \A c \in DOMAIN path :
    path[c].kind = "compaction" => Find(path, path[c].ref) \in 1..(c - 1)

\* Where every compaction finds the first entry that it keeps, each message of
\* the active path is in the model's context or in a summary that is.
NothingForgotten ==
  LET path == PathTo(Entries, leafId)
  IN  Anchored(path) =>
        {e.id : e \in {f \in Range(path) : Visible(f) /\ f.kind # "compaction"}} \subseteq Known(path)

\* No tool result is in the model's context without the call it answers, as
\* the model providers require, where the tree is left alone while a compaction
\* is awaited: nothing in navigateTree sees to that.
ResultsFollowCalls ==
  LET context == Filter(ContextEntries(PathTo(Entries, leafId)), Visible)
  IN  faults = 0 /\ bounds.steady =>
        \A i \in DOMAIN context :
          context[i].kind = "toolResult" =>
            i > 1 /\ context[i - 1].kind \in {"assistant", "toolResult"}

MessagesOf(path) == Filter(path, Visible)

\* A fork has the messages of the branch in their order and the labels that
\* they bear, though the labels are taken out and written anew.
ForkKeepsBranch ==
  [][\A leaf \in Ids(Entries), f \in Files : Fork(leaf, f) /\ sessionFile' = f /\ faults = 0 =>
       LET before == MessagesOf(PathTo(Entries, leaf))
           after == MessagesOf(PathTo(Entries', leafId'))
       IN  /\ [i \in DOMAIN after |-> after[i].id] = [i \in DOMAIN before |-> before[i].id]
           /\ labelsById' = labelsById \cap Ids(Entries')]_vars

\* docs/sessions.md:32 "`/clone` | Duplicate the current active branch into a
\* new session": the model knows as much of the conversation in the clone.
CloneDuplicates ==
  [][\A f \in Files : Fork(leafId, f) /\ sessionFile' = f =>
       Known(PathTo(Entries', leafId')) = Known(PathTo(Entries, leafId))]_vars

\* What a file keeps of a session, and what the indexes in memory say of it.
FileIsSound == TypeOK /\ FaultsCostTwo /\ ParentsPrecede /\ SavedOnceAnswered /\ LabelsAgree

\* What the model is shown of a session, after every cut.
ContextIsWhole == NothingForgotten /\ ResultsFollowCalls
=============================================================================
