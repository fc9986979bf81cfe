------------------------------ MODULE MCShell ------------------------------
\* The two indexes of MCSearchDialog, over three articles: one with a part that
\* folds, one that fits in two screens, and one without headings.
EXTENDS Shell, TLC

CONSTANTS en, ar, word, other

MCHits == en :> (Blank :> 0 @@ word :> 2 @@ other :> 1)
       @@ ar :> (Blank :> 0 @@ word :> 0 @@ other :> 2)

Long  == << [height |-> 40, tops |-> <<2, 12, 36>>], [height |-> 50, tops |-> <<2, 12, 46>>] >>
Short == << [height |-> 20, tops |-> <<0, 8>>] >>
Bare  == << [height |-> 20, tops |-> <<>>] >>

MCArticles == {Long, Short, Bare}
=============================================================================
