--------------------------- MODULE FenceStripper ---------------------------
(***************************************************************************)
(* _FenceStripper: takes the ```-fenced blocks out of an answer while its  *)
(* pieces arrive.  A text is a sequence of ticks and of letters.           *)
(***************************************************************************)
EXTENDS Naturals, Sequences, FiniteSets

CONSTANTS Backtick, Letter

Texts == Seq({Backtick, Letter})

\* find("```"): where the markers of a text may begin.
Marks(text) == {i \in 1 .. Len(text) - 2 : \A j \in i .. i + 2 : text[j] = Backtick}
First(S) == CHOOSE i \in S : \A j \in S : i <= j

\* Mutated form: nothing is held back.
HeldNothing(text) == 0

\* A trailing run of up to two ticks may be the beginning of a marker.
Held(text) ==
  LET n == Len(text)
      ends(h) == h <= n /\ \A j \in n - h + 1 .. n : text[j] = Backtick
  IN  IF ends(2) THEN 2 ELSE IF ends(1) THEN 1 ELSE 0

Fresh == [buf |-> <<>>, inFence |-> FALSE]

\* What the stripper is left with and emits, on a buffer.
Cut[text \in Texts, inFence \in BOOLEAN] ==
  LET visible(s) == IF inFence THEN <<>> ELSE s IN
  IF Marks(text) = {}
  THEN LET cut == Len(text) - Held(text) IN
       [out |-> visible(SubSeq(text, 1, cut)),
        state |-> [buf |-> SubSeq(text, cut + 1, Len(text)), inFence |-> inFence]]
  ELSE LET i == First(Marks(text))
           rest == Cut[SubSeq(text, i + 3, Len(text)), ~inFence]
       IN  [rest EXCEPT !.out = visible(SubSeq(text, 1, i - 1)) \o @]

Feed(state, delta) == Cut[state.buf \o delta, state.inFence]

Flush(state) == IF state.inFence THEN <<>> ELSE state.buf

-----------------------------------------------------------------------------
(* The reference: what is outside the fences of a whole text               *)

\* The run of ticks position i is in, and whether i is in one of its markers.
RunFrom(text, i) == First({j \in 1 .. i : \A k \in j .. i : text[k] = Backtick})
RunLength(text, i) ==
  Cardinality({j \in RunFrom(text, i) .. Len(text) :
                 \A k \in RunFrom(text, i) .. j : text[k] = Backtick})
InMarker(text, i) ==
  /\ text[i] = Backtick
  /\ i - RunFrom(text, i) < 3 * (RunLength(text, i) \div 3)

Fences(text, i) == Cardinality({j \in 1 .. i - 1 : InMarker(text, j)}) \div 3

\* The positions that are prose, and the text they spell.
Shown(text) ==
  {i \in 1 .. Len(text) : ~InMarker(text, i) /\ Fences(text, i) % 2 = 0}

Prose(text) ==
  LET S == Shown(text)
      nth(k) == CHOOSE i \in S : Cardinality({j \in S : j <= i}) = k
  IN  [k \in 1 .. Cardinality(S) |-> text[nth(k)]]
=============================================================================
