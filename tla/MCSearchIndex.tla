--------------------------- MODULE MCSearchIndex ---------------------------
\* Nine characters: a space, an ideographic full stop, a mark that folds away, A and its
\* small letter, b, two ideographs and a full-width A.  Two pages: one with a heading, one for developers
\* that begins at the same words.
EXTENDS SearchIndex

sp == 1
stop == 2
mark == 3
A == 4
a == 5
b == 6
zi == 7
hua == 8
fullA == 9

MCChars    == 1..9
MCKinds    == <<"separator", "separator", "separator", "word", "word", "word", "cjk", "cjk", "word">>
MCNfkc     == [c \in MCChars |-> IF c = fullA THEN A ELSE c]
MCArabic   == [c \in MCChars |-> IF c = mark THEN Gone ELSE c]
MCLower    == [c \in MCChars |-> IF c = A THEN a ELSE c]
MCWeight   == [title |-> 4, heading |-> 2, body |-> 1]

\* ln((n + 1) / (df + 0.5)) in thousandths.
MCIdf(n, df) ==
  CASE n = 1 -> 288
    [] n = 2 -> <<693, 182>>[df]
    [] n = 3 -> <<981, 470, 134>>[df]
    [] n = 4 -> <<1204, 693, 357, 105>>[df]

Both == {"user", "developer"}
MCAudiences == {{"user"}, {"developer"}, Both}
MCRoot == <<3>>
MCNothing == -1000

Page(slug, title, audience, body) ==
  [slug |-> slug, title |-> title, navTitle |-> <<>>, tags |-> <<>>, audience |-> audience, body |-> body]

MCWords  == {<<a>>, <<a, b, sp, a>>, <<A, mark, b, zi, hua>>, <<zi, stop, hua>>}
MCHeads  == {<<b, sp, a, a>>, <<hua, a>>}

MCCorpora ==
  {<<Page(<<b>>, <<fullA, b>>, Both, <<[kind |-> "text", text |-> w],
                                   [kind |-> "heading", id |-> <<b>>, text |-> h],
                                   [kind |-> "text", text |-> v]>>),
     Page(<<a>>, IF h[1] = b THEN <<a, a>> ELSE <<>>, {"developer"},
          <<[kind |-> "text", text |-> v]>>)>> :
   w \in MCWords, v \in MCWords, h \in MCHeads}
=============================================================================
