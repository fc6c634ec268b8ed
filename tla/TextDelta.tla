------------------------------ MODULE TextDelta ------------------------------
(***************************************************************************)
(* The text edit that modify_note_title and modify_block carry: replace    *)
(* `del` runes at zero-based position `index` by the runes of `ins`.       *)
(* A text is a sequence of runes, as in the code, which converts the       *)
(* strings to []rune before it indexes them.                               *)
(***************************************************************************)
EXTENDS Integers, Sequences

\* The TextDelta values of a request over an alphabet of runes.  The decoder
\* lets any JSON integer through: the range checks are applyTextDelta's.
TextDeltas(Rune) == [index : Int, del : Int, ins : Seq(Rune)]

\* The three range checks.  The third one subtracts instead of adding, so that
\* index + del is computed only after it is known to be at most Len(text).
DeltaInRange(text, delta) ==
  /\ delta.index >= 0
  /\ delta.index <= Len(text)
  /\ delta.del >= 0
  /\ delta.del <= Len(text) - delta.index

\* Prefix, inserted runes, and what follows the deleted range.
ApplyTextDelta(text, delta) ==
  SubSeq(text, 1, delta.index)
    \o delta.ins
    \o SubSeq(text, delta.index + delta.del + 1, Len(text))
=============================================================================
