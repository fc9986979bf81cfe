-------------------------------- MODULE Terms --------------------------------
(***************************************************************************)
(* The tokeniser both halves of search use (src/search/tokenise.ts,        *)
(* normalise.ts).  A text is a sequence of characters, a term a nonempty   *)
(* one; characters are numbers, ordered as their code units are.  NFKC is  *)
(* given character by character, as the Arabic table is.                   *)
(***************************************************************************)
EXTENDS Naturals, Sequences, FiniteSets, SequencesExt

CONSTANTS Chars,     \* the characters a text is made of
          Kinds,     \* Kinds[c] : "cjk", "word" or "separator", by Unicode's tables
          IsCjk,     \* the characters whose script extensions are Han or kana
          Nfkc,      \* Nfkc[c] : its compatibility form
          Arabic,    \* Arabic[c] : what ARABIC_FOLDS makes of it, or Gone
          Lower,     \* Lower[c] : its lower case
          Gone       \* a character the folding removes

ASSUME TermsAssumption ==
  /\ Chars \subseteq Nat /\ Gone \notin Chars
  /\ Kinds \in [Chars -> {"cjk", "word", "separator"}]
  /\ Nfkc \in [Chars -> Chars] /\ Lower \in [Chars -> Chars]
  /\ Arabic \in [Chars -> Chars \cup {Gone}]
  /\ \A c \in Chars : Kinds[c] = "cjk" => c \in IsCjk

\* What a text is made of once it is prepared.
Prepared == {Arabic[Nfkc[c]] : c \in Chars} \ {Gone}

\* Folding folded text changes nothing ("idempotent by construction"), no lower case is
\* rewritten by a table or of another class, and CJK has no case.  (A character whose
\* lower case is two, as U+0130, has no place in tables of single characters.)
ASSUME FoldingAssumption ==
  \A c \in Prepared : /\ Nfkc[c] = c /\ Arabic[c] = c
                      /\ Nfkc[Lower[c]] = Lower[c] /\ Arabic[Lower[c]] = Lower[c]
                      /\ Lower[Lower[c]] = Lower[c] /\ Kinds[Lower[c]] = Kinds[c]
                      /\ Kinds[c] = "cjk" => Lower[c] = c

\* a < b on strings: by code unit, a proper prefix first.
Less(a, b) ==
  \E i \in 1..Len(b) : /\ i <= Len(a) + 1
                       /\ \A j \in 1..(i - 1) : a[j] = b[j]
                       /\ i <= Len(a) => a[i] < b[i]

BeginsWith(text, prefix) ==
  Len(prefix) <= Len(text) /\ SubSeq(text, 1, Len(prefix)) = prefix

Each(f, text) == [i \in DOMAIN text |-> f[text[i]]]

FoldArabic(text) ==
  FlattenSeq([i \in DOMAIN text |-> IF Arabic[text[i]] = Gone THEN <<>> ELSE <<Arabic[text[i]]>>])

\* What is classified.
Prepare(text) == FoldArabic(Each(Nfkc, text))

\* A finished word as the dictionary spells it.
FoldTerm(run) == FoldArabic(Each(Lower, run))

\* Mutant of Classify: script extensions alone, so that CJK punctuation joins the run
\* beside it.
ScriptAlone(c) == IF c \in IsCjk THEN "cjk" ELSE Kinds[c]

\* CJK and a word character, or a word character, or a separator.
Classify(c) == Kinds[c]

\* What a finished run contributes: a word is one term, a CJK run its overlapping
\* bigrams, or its only character.
TermsOf(kind, run) ==
  IF run = <<>> THEN <<>>
  ELSE IF kind # "cjk" THEN <<FoldTerm(run)>>
  ELSE IF Len(run) = 1 THEN <<run>>
  ELSE [i \in 1..(Len(run) - 1) |-> <<run[i], run[i + 1]>>]

Flush(s) == [s EXCEPT !.terms = @ \o TermsOf(s.kind, s.run), !.run = <<>>]

\* One character of the walk: a change of class ends the run.
Walk(s, c) ==
  LET kind == Classify(c)
      t    == IF kind = s.kind THEN s ELSE [Flush(s) EXCEPT !.kind = kind]
  IN  IF kind = "separator" THEN t ELSE [t EXCEPT !.run = Append(@, c)]

\* The walk over a text, character by character.
Walked(text) ==
  LET state[i \in 0..Len(text)] ==
        IF i = 0 THEN [terms |-> <<>>, run |-> <<>>, kind |-> "separator"]
                 ELSE Walk(state[i - 1], text[i])
  IN  state

\* The terms of a text, in order, duplicates kept; of a query too.
Tokenise(text) == Flush(Walked(Prepare(text))[Len(Prepare(text))]).terms
=============================================================================
