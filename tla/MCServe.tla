------------------------------- MODULE MCServe -------------------------------
\* Four trees: nothing translated; `guide` and its snippet translated; `guide` renamed
\* to `old`, with the home page still linking it by its first name; and a page that
\* exists only as a translation.  A third reader asks in a language no tree has.
EXTENDS Serve

MCWalk == <<"guide", "index", "old">>
MCUses == [s \in Slugs |-> IF s = "index" THEN {} ELSE {"note"}]
MCLinks == [s \in Slugs |-> IF s = "guide" THEN {} ELSE {"guide"}]

MCNav == {"index"}

Tree(sources, translations, from0) ==
  [file |-> [d \in Docs |-> [l \in Langs |->
       IF d \in (IF l = Src THEN sources ELSE translations)
       THEN [text |-> [lang |-> l, of |-> 0], untranslated |-> FALSE, at |-> 0] ELSE None]],
   from |-> [s \in Slugs |-> IF s = "old" THEN from0 ELSE {}]]

MCTrees == {Tree({"index", "guide", "note"}, {}, {}),
            Tree({"index", "guide", "note"}, {"guide", "note"}, {}),
            Tree({"index", "old", "note"}, {"old", "note"}, {"guide"}),
            Tree({"index", "guide", "note"}, {"old", "note"}, {})}
=============================================================================
