---------------------------- MODULE OutputAccumulator ----------------------------
(***************************************************************************)
(* packages/coding-agent/src/core/tools/output-accumulator.ts: the output  *)
(* of a command, of any size, in bounded memory.                           *)
(*                                                                         *)
(* Chunks come as the process writes them, cut anywhere, inside of a       *)
(* character too.  The accumulator decodes them, keeps the end of the text *)
(* for snapshots, counts, and moves the bytes to a temporary file once     *)
(* there are too many.  The bash tool takes snapshots between the chunks   *)
(* and a last one after finish, and closes the file then.                  *)
(*                                                                         *)
(* A byte is a line feed, a letter, the first byte of an accented letter,  *)
(* or its second.                                                          *)
(***************************************************************************)
EXTENDS Truncate

CONSTANT Cases  \* bounds: maxLines, maxBytes, and the length, the chunks and the alphabet of
                \* the input of a behaviour

NoFile == <<"none">>

VARIABLES
  limits,      \* the case
  rawChunks,   \* their bytes, in order
  pendingLead, \* the decoder waits for the second byte of a character
  tailText, tailBytes, tailStartsAtLineBoundary,
  totalRawBytes, totalDecodedBytes, completedLines, hasOpenLine, currentLineBytes,
  finished,
  tempFile,    \* the bytes written to it, or NoFile: tempFilePath is undefined
  closed,      \* closeTempFile was called
  input        \* history: all bytes appended

vars == <<limits, rawChunks, pendingLead, tailText, tailBytes, tailStartsAtLineBoundary, totalRawBytes,
          totalDecodedBytes, completedLines, hasOpenLine, currentLineBytes, finished, tempFile, closed,
          input>>

Init ==
  /\ limits \in Cases
  /\ rawChunks = <<>> /\ pendingLead = FALSE
  /\ tailText = <<>> /\ tailBytes = 0 /\ tailStartsAtLineBoundary = TRUE
  /\ totalRawBytes = 0 /\ totalDecodedBytes = 0 /\ completedLines = 0
  /\ hasOpenLine = FALSE /\ currentLineBytes = 0
  /\ finished = FALSE /\ tempFile = NoFile /\ closed = FALSE
  /\ input = <<>>

totalLines == completedLines + (IF hasOpenLine THEN 1 ELSE 0)
maxRollingBytes == limits.maxBytes * 2

-----------------------------------------------------------------------------
(* TextDecoder, in stream mode. *)

Chars(lead, byte) ==
  LET lost == IF lead THEN <<Replacement>> ELSE <<>>
  IN  CASE byte = "trail" -> IF lead THEN <<"accented">> ELSE <<Replacement>>
        [] byte = "lead" -> lost
        [] OTHER -> Append(lost, byte)

Decoded(lead, bytes) ==
  FlattenSeq([i \in DOMAIN bytes |->
                Chars(IF i = 1 THEN lead ELSE bytes[i - 1] = "lead", bytes[i])])

\* decode() without an argument: what is incomplete is lost.
Flushed(lead) == IF lead THEN <<Replacement>> ELSE <<>>

-----------------------------------------------------------------------------
(* The tail. *)

\* trimTail: the last maxRollingBytes, from the start of a character.
Trimmed(text) == EndOf(text, maxRollingBytes)

\* Slip: a cut tail always begins a line.
StartsLineAnyway(text) == TRUE

\* The character before the trimmed text is a line feed.
StartsLine(text) ==
  LET start == Len(text) - Len(Trimmed(text))
  IN  IF start = 0 THEN tailStartsAtLineBoundary ELSE text[start] = Newline

\* appendDecodedText
AppendText(text) ==
  LET tail == tailText \o text
      bytes == tailBytes + ByteLength(text)
      trims == bytes > maxRollingBytes * 2
      newlines == {i \in DOMAIN text : text[i] = Newline}
      rest == SubSeq(text, Max(newlines \cup {0}) + 1, Len(text))
  IN  /\ totalDecodedBytes' = totalDecodedBytes + ByteLength(text)
      /\ tailText' = (IF trims THEN Trimmed(tail) ELSE tail)
      /\ tailBytes' = (IF trims THEN ByteLength(Trimmed(tail)) ELSE bytes)
      /\ tailStartsAtLineBoundary' = (IF trims THEN StartsLine(tail) ELSE tailStartsAtLineBoundary)
      /\ completedLines' = completedLines + Cardinality(newlines)
      /\ currentLineBytes' = ByteLength(rest) + (IF newlines = {} THEN currentLineBytes ELSE 0)
      /\ hasOpenLine' = (IF newlines = {} THEN hasOpenLine \/ text # <<>> ELSE rest # <<>>)

TooMuch(raw, decoded, lines) ==
  raw > limits.maxBytes \/ decoded > limits.maxBytes \/ lines > limits.maxLines

shouldUseTempFile == TooMuch(totalRawBytes, totalDecodedBytes, totalLines)

\* ensureTempFile: a new file begins with the chunks so far.
Opened == IF tempFile = NoFile THEN rawChunks ELSE tempFile

-----------------------------------------------------------------------------
(* The methods. *)

append(data) ==
  /\ ~finished /\ Len(input) + Len(data) <= limits.length
  /\ UNCHANGED <<limits, finished, closed>>
  /\ input' = input \o data
  /\ totalRawBytes' = totalRawBytes + Len(data)
  /\ pendingLead' = (Last(data) = "lead")
  /\ AppendText(Decoded(pendingLead, data))
  /\ IF tempFile # NoFile \/ shouldUseTempFile'
     THEN tempFile' = Opened \o data /\ rawChunks' = <<>>
     ELSE rawChunks' = rawChunks \o data /\ UNCHANGED tempFile

finish ==
  /\ ~finished /\ finished' = TRUE
  /\ UNCHANGED <<limits, totalRawBytes, closed, input>>
  /\ AppendText(Flushed(pendingLead)) /\ pendingLead' = FALSE
  /\ IF shouldUseTempFile'
     THEN tempFile' = Opened /\ rawChunks' = <<>>
     ELSE UNCHANGED <<tempFile, rawChunks>>

truncated == totalLines > limits.maxLines \/ totalDecodedBytes > limits.maxBytes

\* snapshot({ persistIfTruncated: true }): what it answers is Snapshot.
snapshot ==
  /\ truncated /\ tempFile = NoFile
  /\ tempFile' = Opened /\ rawChunks' = <<>>
  /\ UNCHANGED <<limits, pendingLead, tailText, tailBytes, tailStartsAtLineBoundary, totalRawBytes,
                 totalDecodedBytes, completedLines, hasOpenLine, currentLineBytes, finished, closed, input>>

\* closeTempFile, which the bash tool calls after finish.
closeTempFile ==
  /\ finished /\ ~closed /\ tempFile # NoFile /\ closed' = TRUE
  /\ UNCHANGED <<limits, rawChunks, pendingLead, tailText, tailBytes, tailStartsAtLineBoundary,
                 totalRawBytes, totalDecodedBytes, completedLines, hasOpenLine, currentLineBytes,
                 finished, tempFile, input>>

Chunk == UNION {[1..n -> limits.alphabet] : n \in 1..limits.chunk}

Next == (\E data \in Chunk : append(data)) \/ finish \/ snapshot \/ closeTempFile

Spec == Init /\ [][Next]_vars

-----------------------------------------------------------------------------
\* Without the line that a cut tail begins in the middle of.
getSnapshotText ==
  LET newlines == {i \in DOMAIN tailText : tailText[i] = Newline}
  IN  IF tailStartsAtLineBoundary \/ newlines = {} THEN tailText
      ELSE SubSeq(tailText, Min(newlines) + 1, Len(tailText))

\* What snapshot answers, but for the flag `truncated`, which it sets to the operator above.
Snapshot == truncateTail(getSnapshotText, limits.maxLines, limits.maxBytes)

\* What the process wrote, as one text.
Whole == Decoded(FALSE, input) \o (IF finished THEN Flushed(input # <<>> /\ Last(input) = "lead") ELSE <<>>)

\* The tail was cut within a line, and nothing follows the end of that line: the
\* snapshot is empty (a last line of more than twice the limit, with its line feed).
LineDropped == ~tailStartsAtLineBoundary /\ getSnapshotText = <<>>

(* However the output was cut into chunks, and whatever was trimmed in between, the
   snapshot is what truncateTail makes of all of it, but for a line feed after its
   last line. *)
SnapshotIsTail ==
  LET whole == truncateTail(Whole, limits.maxLines, limits.maxBytes)
      Shown(result) == IF result.truncated THEN result.content ELSE Joined(LinesOf(result.content))
  IN  \/ LineDropped
      \/ /\ Shown(Snapshot) = Shown(whole)
         /\ Snapshot.outputLines = whole.outputLines
         /\ Snapshot.lastLinePartial = whole.lastLinePartial
         /\ truncated = whole.truncated

(* The counts are those of the whole output. *)
CountsAreRight ==
  /\ totalDecodedBytes = ByteLength(Whole)
  /\ totalLines = Len(LinesOf(Whole))
  /\ totalRawBytes = Len(input)

\* Every byte is in memory or in the file, once and in order.
NoByteIsLost == IF tempFile = NoFile THEN rawChunks = input ELSE tempFile = input /\ rawChunks = <<>>

\* The memory is bounded: the tail by four times the limit, the raw chunks by the limit.
MemoryIsBounded ==
  /\ tailBytes = ByteLength(tailText) /\ tailBytes <= 4 * limits.maxBytes
  /\ Len(rawChunks) <= limits.maxBytes

\* What is shown, counted, saved and kept in memory of an output agree with all of it.
OutputIsKept == SnapshotIsTail /\ CountsAreRight /\ NoByteIsLost /\ MemoryIsBounded
=============================================================================
