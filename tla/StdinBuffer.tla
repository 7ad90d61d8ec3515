------------------------------- MODULE StdinBuffer -------------------------------
(***************************************************************************)
(* The buffer between the standard input and the keys of the terminal      *)
(* interface (packages/tui/src/stdin-buffer.ts): chunks of bytes become    *)
(* key sequences and pastes; an incomplete sequence waits for its end, and *)
(* a timer emits it as it is.                                              *)
(*                                                                         *)
(* Bytes are tokens: ESC, the bracket that introduces a control sequence,  *)
(* a digit, a letter, and the ends "200~" and "201~" of the paste markers, *)
(* which no chunk cuts.  Other kinds of sequences, the conversion of high  *)
(* bytes and the suppression of doubled printable keys are left out.       *)
(***************************************************************************)
EXTENDS Naturals, Sequences, SequencesExt

CONSTANT Streams  \* what is typed: sequences of items [paste, text]

ESC == "esc"
Bracket == "["
BRACKETED_PASTE_START == <<ESC, Bracket, "200~">>
BRACKETED_PASTE_END == <<ESC, Bracket, "201~">>

\* What ends a control sequence: 0x40 to 0x7E.
Final == {Bracket, "letter", "200~", "201~"}

VARIABLES
  stream,    \* what is typed
  received,  \* how many of its bytes have been read
  input,     \* buffer, pasteMode, pasteBuffer; what was emitted, with the pastes
             \* marked; dropped: history
  timer,     \* timeout
  flushed    \* history: the numbers of bytes read when the timer fired

vars == <<stream, received, input, timer, flushed>>

\* What is typed, as bytes, up to item k.
Bytes(item) ==
  IF item.paste THEN BRACKETED_PASTE_START \o item.text \o BRACKETED_PASTE_END ELSE item.text

BytesOf(items) == FoldLeft(LAMBDA bytes, item : bytes \o Bytes(item), <<>>, items)

Init ==
  /\ stream \in Streams /\ received = 0
  /\ input = [buffer |-> <<>>, pasteMode |-> FALSE, pasteBuffer |-> <<>>, emitted |-> <<>>,
              dropped |-> <<>>]
  /\ timer = FALSE /\ flushed = {}

-----------------------------------------------------------------------------
isCompleteSequence(s) ==
  Len(s) >= 2 /\ (s[2] = Bracket => Len(s) >= 3 /\ Last(s) \in Final)

\* The length of the first sequence, or 0 when it is incomplete.  ESC ESC is one, unless
\* the second begins another.
FirstLength(bytes) ==
  LET complete == {n \in 1 .. Len(bytes) : isCompleteSequence(SubSeq(bytes, 1, n))}
  IN IF Head(bytes) # ESC THEN 1
     ELSE IF complete = {} THEN 0
     ELSE IF bytes[2] = ESC /\ Len(bytes) >= 3 /\ bytes[3] = Bracket THEN 1
     ELSE CHOOSE n \in complete : \A k \in complete : n <= k

RECURSIVE extractCompleteSequences(_)
extractCompleteSequences(bytes) ==
  IF bytes = <<>> \/ FirstLength(bytes) = 0 THEN [sequences |-> <<>>, remainder |-> bytes]
  ELSE LET n == FirstLength(bytes)
           rest == extractCompleteSequences(SubSeq(bytes, n + 1, Len(bytes)))
       IN [rest EXCEPT !.sequences =
             <<[paste |-> FALSE, text |-> SubSeq(bytes, 1, n)]>> \o @]

\* Where the marker begins, or 0.
IndexOf(bytes, marker) ==
  LET found == {i \in 1 .. Len(bytes) - 2 : SubSeq(bytes, i, i + 2) = marker}
  IN IF found = {} THEN 0 ELSE CHOOSE i \in found : \A k \in found : i <= k

\* Slip: the end of the paste is looked for in the new bytes only.
PasteEndInChunk(pasted, bytes) ==
  LET i == IndexOf(bytes, BRACKETED_PASTE_END)
  IN IF i = 0 THEN 0 ELSE Len(pasted) - Len(bytes) + i

PasteEnd(pasted, bytes) == IndexOf(pasted, BRACKETED_PASTE_END)

Remaining(bytes, i) == SubSeq(bytes, i + 3, Len(bytes))

\* process, without the timer; s is the state of the buffer.
RECURSIVE process(_, _)
process(s, bytes) ==
  LET all == s.buffer \o bytes
      start == IndexOf(all, BRACKETED_PASTE_START)
      pasted == s.pasteBuffer \o all
      end == PasteEnd(pasted, all)
      before == extractCompleteSequences(SubSeq(all, 1, start - 1))
      result == extractCompleteSequences(all)
  IN IF s.pasteMode /\ end = 0 THEN [s EXCEPT !.buffer = <<>>, !.pasteBuffer = pasted]
     ELSE IF s.pasteMode
     THEN process([s EXCEPT !.buffer = <<>>, !.pasteMode = FALSE, !.pasteBuffer = <<>>,
                            !.emitted = Append(@, [paste |-> TRUE, text |-> SubSeq(pasted, 1, end - 1)])],
                  Remaining(pasted, end))
     ELSE IF start # 0
     THEN process([s EXCEPT !.buffer = <<>>, !.pasteMode = TRUE, !.pasteBuffer = <<>>,
                            !.emitted = @ \o before.sequences, !.dropped = @ \o before.remainder],
                  SubSeq(all, start + 3, Len(all)))
     ELSE [s EXCEPT !.buffer = result.remainder, !.emitted = @ \o result.sequences]

Armed == input'.buffer # <<>>

\* A chunk of n bytes.
Receive(n) ==
  /\ received + n <= Len(BytesOf(stream)) /\ received' = received + n
  /\ input' = process(input, SubSeq(BytesOf(stream), received + 1, received + n))
  /\ timer' = Armed
  /\ UNCHANGED <<stream, flushed>>

\* flush
Timeout ==
  /\ timer /\ timer' = FALSE
  /\ input' = [input EXCEPT !.buffer = <<>>,
                            !.emitted = Append(@, [paste |-> FALSE, text |-> input.buffer])]
  /\ flushed' = flushed \cup {received}
  /\ UNCHANGED <<stream, received>>

Next == Timeout \/ \E n \in 1 .. Len(BytesOf(stream)) : Receive(n)

Spec == Init /\ [][Next]_vars

\* Timers fire.
Fairness == WF_vars(Timeout)

FairSpec == Spec /\ Fairness

-----------------------------------------------------------------------------
(* Properties *)

\* How many bytes item k, and those before it, have.
End(k) == Len(BytesOf(SubSeq(stream, 1, k)))

Escape == [paste |-> FALSE, text |-> <<ESC>>]

\* The bytes of item k are not taken for a part of an Escape before it.
Apart(k) == k > 1 /\ stream[k - 1] = Escape => End(k - 1) \in flushed

(* However the bytes are cut into chunks, the keys and pastes are emitted as they were
   typed, if no timer fired within one, and one fired after every Escape, which alone
   is the beginning of another sequence. *)
KeysAreWhole ==
  (\A k \in 1 .. Len(stream) :
     /\ flushed \cap End(k - 1) + 1 .. End(k) - 1 = {}
     /\ received > End(k - 1) => Apart(k))
  => IsPrefix(input.emitted, stream)

(* No byte is lost, doubled or reordered, whatever the timer cuts, but for what looks
   incomplete when the marker of a paste follows it in the same chunk. *)
NothingIsLost ==
  input.dropped = <<>> =>
    BytesOf(input.emitted) \o input.buffer
      \o (IF input.pasteMode THEN BRACKETED_PASTE_START \o input.pasteBuffer ELSE <<>>)
    = SubSeq(BytesOf(stream), 1, received)

(* A paste is one paste, whatever its text and its pauses, unless the timer cut its
   first marker or an Escape came right before it. *)
PastesArriveWhole ==
  \A k \in 1 .. Len(stream) :
    stream[k].paste /\ received >= End(k) /\ Apart(k) /\ flushed \cap End(k - 1) + 1 .. End(k - 1) + 2 = {}
      => stream[k] \in ToSet(input.emitted)

(* What waits for its end is emitted in the end. *)
InputIsEmitted == input.buffer # <<>> ~> input.buffer = <<>>

(* However the bytes are cut, nothing of what was typed is lost or changed. *)
TypedArrives == NothingIsLost /\ PastesArriveWhole /\ KeysAreWhole
=============================================================================
