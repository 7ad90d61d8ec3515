-------------------------------- MODULE Truncate --------------------------------
(***************************************************************************)
(* packages/coding-agent/src/core/tools/truncate.ts: tool output is cut to *)
(* a number of lines and of bytes.  truncateTail keeps the last lines that *)
(* fit, or the end of the last line.                                       *)
(*                                                                         *)
(* A text is a sequence of characters, of which only the size in UTF-8     *)
(* matters: a line feed, a letter (1), an accented letter (2) and the      *)
(* replacement character (3).                                              *)
(***************************************************************************)
EXTENDS Integers, Sequences, SequencesExt, FiniteSetsExt

Newline == "newline"
Replacement == "replacement"
Width(c) == CASE c = "accented" -> 2 [] c = Replacement -> 3 [] OTHER -> 1

\* Buffer.byteLength
ByteLength(text) == FoldSeq(LAMBDA c, n : n + Width(c), 0, text)

\* splitLinesForCounting: split("\n"), without the empty line after a trailing one.
LinesOf(text) ==
  LET put(lines, c) == IF c = Newline THEN Append(lines, <<>>)
                       ELSE [lines EXCEPT ![Len(lines)] = Append(@, c)]
      lines == FoldLeft(put, << <<>> >>, text)
  IN  IF Last(lines) = <<>> THEN Front(lines) ELSE lines

\* join("\n")
Joined(lines) ==
  IF lines = <<>> THEN <<>>
  ELSE FlattenSeq([n \in DOMAIN lines |-> IF n = 1 THEN lines[n] ELSE <<Newline>> \o lines[n]])

Fits(text, maxBytes) == ByteLength(text) <= maxBytes

Result(content, truncated, lines, partial) ==
  [content |-> content, truncated |-> truncated, outputLines |-> lines, lastLinePartial |-> partial]

FitsWhole(text, maxLines, maxBytes) == Len(LinesOf(text)) <= maxLines /\ Fits(text, maxBytes)

\* truncateStringToBytesFromEnd: the end of the line, from the start of a character.
EndOf(line, maxBytes) ==
  LET n == Max({k \in 0..Len(line) : Fits(SubSeq(line, Len(line) - k + 1, Len(line)), maxBytes)})
  IN  SubSeq(line, Len(line) - n + 1, Len(line))

LastLines(lines, n) == SubSeq(lines, Len(lines) - n + 1, Len(lines))

\* The number of lines that the loop keeps.
TailCount(lines, maxLines, maxBytes) ==
  Max({n \in 0..Len(lines) : n <= maxLines /\ Fits(Joined(LastLines(lines, n)), maxBytes)})

truncateTail(text, maxLines, maxBytes) ==
  LET lines == LinesOf(text)
      n == TailCount(lines, maxLines, maxBytes)
  IN  IF FitsWhole(text, maxLines, maxBytes) THEN Result(text, FALSE, Len(lines), FALSE)
      ELSE IF n = 0 THEN Result(EndOf(Last(lines), maxBytes), TRUE, 1, TRUE)
      ELSE Result(Joined(LastLines(lines, n)), TRUE, n, FALSE)
=============================================================================
