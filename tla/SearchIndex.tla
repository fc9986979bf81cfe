---------------------------- MODULE SearchIndex ----------------------------
(***************************************************************************)
(* The search index of one language: how `build` writes it                 *)
(* (kit/src/compile/search.ts), what a loader accepts                      *)
(* (src/contracts/search.ts) and how a query is answered from it           *)
(* (src/search/query.ts).  `pages` is what was indexed, `index` the file a *)
(* client holds, `query` what the reader has typed so far.  Document ids   *)
(* count from 0 and positions in a dictionary from 1.                      *)
(*                                                                         *)
(* A score is an integer: BM25 in thousandths, rounded up (a posting is    *)
(* never worth nothing), and the logarithm a table.  What a result only    *)
(* carries along (title, heading, depth, translation state) is left out,   *)
(* and so is the header, whose fields are constants of one release.        *)
(***************************************************************************)
EXTENDS Terms, Integers, TLC

CONSTANTS Weight,      \* DEFAULT_FIELD_WEIGHTS
          Idf(_, _),   \* Idf(n, df) : the inverse document frequency, in thousandths
          Space,       \* the character the parts of a title are joined with
          Root,        \* PAGE_ROOT_ANCHOR, as a text
          Corpora,     \* the sequences of pages a language may have
          Audiences,   \* the masks a reader may ask with, as sets
          Keys,        \* bound: the characters a reader types
          MaxQuery,    \* bound: the length of a query
          Nothing      \* what a read past the end of an array returns

VARIABLES pages, index, query,
          whole  \* the file is the one that was built

vars == <<pages, index, query, whole>>

SearchFields == <<"title", "heading", "body">>

Fields == ToSet(SearchFields)

\* Sums(seq)[i] : the sum of the first i numbers.
Sums(seq) ==
  LET total[i \in 0..Len(seq)] == IF i = 0 THEN 0 ELSE total[i - 1] + seq[i]
  IN  total

Sum(seq) == Sums(seq)[Len(seq)]

\* The elements of S in the order Before.
Sorted(S, Before(_, _)) ==
  [i \in 1..Cardinality(S) |-> CHOOSE x \in S : Cardinality({y \in S : Before(y, x)}) = i - 1]

At(seq, i) == IF i \in DOMAIN seq THEN seq[i] ELSE Nothing
-----------------------------------------------------------------------------
\* Building.

Heads(page) == Sorted({i \in DOMAIN page.body : page.body[i].kind = "heading"}, <)

\* The text of the blocks from `first` to `last`.
Part(page, first, last) ==
  FlattenSeq([i \in 1..(last - first + 1) |-> page.body[first + i - 1].text \o <<Space>>])

\* A page is cut at its headings; the text above the first is a section too.
SectionsOf(page) ==
  LET heads  == Heads(page)
      End(k) == IF k = Len(heads) THEN Len(page.body) ELSE heads[k + 1] - 1
      top    == [anchor |-> Root, heading |-> <<>>,
                 body |-> Part(page, 1, IF heads = <<>> THEN Len(page.body) ELSE heads[1] - 1)]
  IN  <<top>> \o [k \in DOMAIN heads |->
                    [anchor  |-> page.body[heads[k]].id,
                     heading |-> page.body[heads[k]].text,
                     body    |-> Part(page, heads[k] + 1, End(k))]]

\* The title field: the title, or the slug of a page without one, the sidebar's label
\* and the tags.
TitleOf(page) ==
  FlattenSeq([i \in 1..(2 + Len(page.tags)) |->
              CASE i = 1 -> (IF page.title = <<>> THEN page.slug ELSE page.title)
                [] i = 2 -> <<Space>> \o page.navTitle
                [] i > 2 -> <<Space>> \o page.tags[i - 2]])

\* Every section with its identity, its audience and the text of each field.
Sections(ps) ==
  FlattenSeq([p \in DOMAIN ps |->
    LET cut == SectionsOf(ps[p])
    IN  [k \in DOMAIN cut |->
           [doc  |-> [slug |-> ps[p].slug, anchor |-> cut[k].anchor, audience |-> ps[p].audience],
            text |-> [title |-> TitleOf(ps[p]), heading |-> cut[k].heading, body |-> cut[k].body]]]])

IsBlock(block) ==
  /\ block.kind \in {"text", "heading"} /\ block.text \in Seq(Chars)
  /\ block.kind = "heading" => block.id \in Seq(Chars)

IsPage(page) ==
  /\ page.slug \in Seq(Chars) /\ page.title \in Seq(Chars) /\ page.navTitle \in Seq(Chars)
  /\ page.tags \in Seq(Seq(Chars))
  /\ page.body \in Seq(ToSet(page.body)) /\ \A i \in DOMAIN page.body : IsBlock(page.body[i])
  /\ page.audience \cap UNION Audiences # {}

\* The pages of a language, no two sections of which have one address (buildSearchIndex
\* throws on such).
IsCorpus(ps) ==
  /\ ps \in Seq(ToSet(ps)) /\ \A p \in DOMAIN ps : IsPage(ps[p])
  /\ \A d, e \in DOMAIN Sections(ps) :
       d # e => \/ Sections(ps)[d].doc.slug # Sections(ps)[e].doc.slug
                \/ Sections(ps)[d].doc.anchor # Sections(ps)[e].doc.anchor

\* A term that some of n sections have has a weight.
ASSUME SearchAssumption ==
  /\ Keys \subseteq Chars /\ Space \in Chars /\ Root \in Seq(Chars) /\ Nothing \in Int
  /\ Weight \in [Fields -> Nat \ {0}]
  /\ \A ps \in Corpora : IsCorpus(ps)
  /\ \A ps \in Corpora : \A df \in 1..Len(Sections(ps)) : Idf(Len(Sections(ps)), df) \in Nat \ {0}

\* The words of every section, field by field.
Words(sections) == [f \in Fields |-> [d \in DOMAIN sections |-> Tokenise(sections[d].text[f])]]

\* What `add` gathers of one term in one field: the sections that have it, with how often.
Gathered(words, t) ==
  [id \in {k \in 0..(Len(words) - 1) : t \in ToSet(words[k + 1])} |->
     Cardinality({i \in DOMAIN words[id + 1] : words[id + 1][i] = t})]

\* Mutant of Slice: every delta is an absolute document id.
SliceAbsolute(tf) ==
  LET ids == Sorted(DOMAIN tf, <)
  IN  FlattenSeq([k \in DOMAIN ids |-> <<ids[k], tf[ids[k]]>>])

\* The postings of one term, tf[id] for each section that has it: the first id, then
\* the gaps.
Slice(tf) ==
  LET ids == Sorted(DOMAIN tf, <)
  IN  FlattenSeq([k \in DOMAIN ids |->
                  <<ids[k] - (IF k = 1 THEN 0 ELSE ids[k - 1]), tf[ids[k]]>>])

Encode(dictionary, words) ==
  [cnt  |-> [i \in DOMAIN dictionary |-> Cardinality(DOMAIN Gathered(words, dictionary[i]))],
   post |-> FlattenSeq([i \in DOMAIN dictionary |-> Slice(Gathered(words, dictionary[i]))])]

\* buildSearchIndex.
Build(ps) ==
  LET sections   == Sections(ps)
      words      == Words(sections)
      dictionary == Sorted(UNION {ToSet(words[f][d]) : f \in Fields, d \in DOMAIN sections}, Less)
      len        == [f \in Fields |-> [d \in DOMAIN sections |-> Len(words[f][d])]]
  IN  [n        |-> Len(sections),
       terms    |-> dictionary,
       df       |-> [i \in DOMAIN dictionary |->
                       Cardinality(UNION {DOMAIN Gathered(words[f], dictionary[i]) : f \in Fields})],
       f        |-> [f \in Fields |-> Encode(dictionary, words[f])],
       len      |-> len,
       totalLen |-> [f \in Fields |-> Sum(len[f])],
       docs     |-> [d \in DOMAIN sections |-> sections[d].doc]]
-----------------------------------------------------------------------------
\* Reading.

\* Where the postings of term i begin: counts are pairs.
Start(cnt, i) == 2 * Sums(cnt)[i - 1]

\* The postings of term i in one field, ids summed up from the gaps.
Postings(p, i) ==
  LET start == Start(p.cnt, i)
      id    == Sums([k \in 1..p.cnt[i] |-> At(p.post, start + 2 * k - 1)])
  IN  [k \in 1..p.cnt[i] |-> [id |-> id[k], tf |-> At(p.post, start + 2 * k)]]

Holding(ix, i) == UNION {{q.id : q \in ToSet(Postings(ix.f[f], i))} : f \in Fields}

\* decodePostings: ids in range and ascending, no posting without an occurrence.
SlicesHold(p, n) ==
  \A i \in DOMAIN p.cnt :
    LET ps == Postings(p, i)
    IN  \A k \in DOMAIN ps : /\ ps[k].id \in 0..(n - 1)
                             /\ k > 1 => ps[k].id > ps[k - 1].id
                             /\ ps[k].tf >= 1

\* One field's arrays agree with each other.
FieldHolds(ix, f) ==
  /\ Len(ix.f[f].cnt) = Len(ix.terms)
  /\ \A i \in DOMAIN ix.f[f].cnt : ix.f[f].cnt[i] >= 0
  /\ Len(ix.f[f].post) = 2 * Sum(ix.f[f].cnt)
  /\ Len(ix.len[f]) = ix.n
  /\ ix.totalLen[f] = Sum(ix.len[f])
  /\ SlicesHold(ix.f[f], ix.n)

\* Mutant of Accepted: df is compared with [1, n] only.
AcceptedInRange(ix) ==
  /\ Len(ix.df) = Len(ix.terms)
  /\ Len(ix.docs) = ix.n
  /\ \A i \in 2..Len(ix.terms) : Less(ix.terms[i - 1], ix.terms[i])
  /\ \A f \in Fields : FieldHolds(ix, f)
  /\ \A i \in DOMAIN ix.df : ix.df[i] \in 1..ix.n
  /\ \A d, e \in DOMAIN ix.docs : d # e => <<ix.docs[d].slug, ix.docs[d].anchor>>
                                            # <<ix.docs[e].slug, ix.docs[e].anchor>>

\* validateSearchIndexShape finds no problem.
Accepted(ix) ==
  /\ Len(ix.df) = Len(ix.terms)
  /\ Len(ix.docs) = ix.n
  /\ \A i \in 2..Len(ix.terms) : Less(ix.terms[i - 1], ix.terms[i])
  /\ \A f \in Fields : FieldHolds(ix, f)
  /\ \A i \in DOMAIN ix.df : ix.df[i] \in 1..ix.n /\ ix.df[i] = Cardinality(Holding(ix, i))
  /\ \A d, e \in DOMAIN ix.docs : d # e => <<ix.docs[d].slug, ix.docs[d].anchor>>
                                            # <<ix.docs[e].slug, ix.docs[e].anchor>>

\* One turn of lowerBound's loop; the range is [low, high).
Halve(dictionary, prefix, r) ==
  LET mid == (r.low + r.high) \div 2
  IN  IF r.low >= r.high THEN r
      ELSE IF Less(dictionary[mid], prefix) THEN [r EXCEPT !.low = mid + 1]
      ELSE [r EXCEPT !.high = mid]

Halved(dictionary, prefix) ==
  LET range[k \in 0..Len(dictionary)] ==
        IF k = 0 THEN [low |-> 1, high |-> Len(dictionary) + 1]
                 ELSE Halve(dictionary, prefix, range[k - 1])
  IN  range

\* The first position at or after `prefix`.
LowerBound(dictionary, prefix) == Halved(dictionary, prefix)[Len(dictionary)].low

\* The terms that begin with `prefix`: the walk from the lower bound, while it holds.
ExpandPrefix(dictionary, prefix) ==
  LET low == LowerBound(dictionary, prefix)
  IN  {i \in low..Len(dictionary) : \A j \in low..i : BeginsWith(dictionary[j], prefix)}

\* Only the last token is still being typed.
Expansion(ix, tokens, t) ==
  IF t = tokens[Len(tokens)] THEN ExpandPrefix(ix.terms, t)
                             ELSE {i \in DOMAIN ix.terms : ix.terms[i] = t}

Ceiling(a, b) == (a + b - 1) \div b

\* One posting's share, saturated by tf and set off against the length of the field;
\* k1 = 1.2 and b = 0.75.
Share(ix, f, i, q) ==
  LET total == ix.totalLen[f]
      len   == ix.len[f][q.id + 1] * ix.n
      norm  == IF total = 0 THEN Ceiling(2200000 * q.tf, 1000 * q.tf + 1200)
                            ELSE Ceiling(2200000 * q.tf * total,
                                         1000 * q.tf * total + 300 * total + 900 * len)
  IN  Weight[f] * Idf(ix.n, ix.df[i]) * norm

\* What the postings of one term in one field are worth to a section.
Worth(ix, f, i, id) ==
  LET ps == Postings(ix.f[f], i)
  IN  Sum([k \in DOMAIN ps |-> IF ps[k].id = id THEN Share(ix, f, i, ps[k]) ELSE 0])

\* One term's evidence for a section: its fields add up.
Evidence(ix, i, id) == Sum([k \in DOMAIN SearchFields |-> Worth(ix, SearchFields[k], i, id)])

\* Mutant of Best: the expansions of a token add up.
BestSummed(ix, expansion, id) ==
  Sum([i \in DOMAIN ix.terms |-> IF i \in expansion THEN Evidence(ix, i, id) ELSE 0])

\* A token is worth its best expansion.
Best(ix, expansion, id) == Max({0} \cup {Evidence(ix, i, id) : i \in expansion})

\* Score descending, then the slug and the anchor.
Before(a, b) ==
  \/ a.score > b.score
  \/ a.score = b.score /\ Less(a.doc.slug, b.doc.slug)
  \/ a.score = b.score /\ a.doc.slug = b.doc.slug /\ Less(a.doc.anchor, b.doc.anchor)

\* The words of a query a section has.
Matched(ix, tokens, id) ==
  {t \in ToSet(tokens) : \E i \in Expansion(ix, tokens, t) : id \in Holding(ix, i)}

\* The tokens of a section add up, each counted once, and the total counts by the share
\* of the tokens it matched (the number of tokens is one for all and left out).
Score(ix, tokens, id) ==
  Cardinality(Matched(ix, tokens, id))
  * Sum([k \in DOMAIN tokens |-> IF \E j \in 1..(k - 1) : tokens[j] = tokens[k] THEN 0
                                 ELSE Best(ix, Expansion(ix, tokens, tokens[k]), id)])

\* The words of the dictionary a section was found by.
HitTerms(ix, tokens, id) ==
  {ix.terms[i] : i \in {j \in UNION {Expansion(ix, tokens, t) : t \in ToSet(tokens)} :
                           id \in Holding(ix, j)}}

Hit(ix, tokens, id) ==
  [id |-> id, doc |-> ix.docs[id + 1], score |-> Score(ix, tokens, id), terms |-> HitTerms(ix, tokens, id)]

\* The sections for this reader that have a word of the query.
Seen(ix, tokens, wanted) ==
  {id \in 0..(ix.n - 1) : /\ ix.docs[id + 1].audience \cap wanted # {}
                          /\ Matched(ix, tokens, id) # {}}

\* searchIndex.
SearchIndex(ix, text, wanted) ==
  LET tokens == Tokenise(text)
  IN  IF tokens = <<>> \/ ix.n = 0 THEN <<>>
      ELSE Sorted({Hit(ix, tokens, id) : id \in Seen(ix, tokens, wanted)}, Before)
-----------------------------------------------------------------------------
\* A built index is whole; the reader has typed nothing.
Init ==
  /\ pages \in Corpora
  /\ index = Build(pages)
  /\ query = <<>> /\ whole = TRUE

\* A damaged file is asked for each of its words, below, and not for what is typed.
Type(c) ==
  /\ whole /\ Len(query) < MaxQuery
  /\ query' = Append(query, c)
  /\ UNCHANGED <<pages, index, whole>>

Clear ==
  /\ query # <<>>
  /\ query' = <<>>
  /\ UNCHANGED <<pages, index, whole>>

\* One thing in the file is wrong: a number of an array, an array cut short, a posting
\* moved to the next term, two terms exchanged, a section named twice.
PostingDamaged(ix, f, i) ==
  {[ix EXCEPT !.f[f].post[i] = @ - 1], [ix EXCEPT !.f[f].post[i] = @ + 1],
   [ix EXCEPT !.f[f].post = SubSeq(@, 1, i - 1)]}

Moved(cnt, i, k) == [[cnt EXCEPT ![i] = @ - 1] EXCEPT ![k] = @ + 1]

CountDamaged(ix, f, i) ==
  {[ix EXCEPT !.f[f].cnt[i] = @ - 1], [ix EXCEPT !.f[f].cnt[i] = @ + 1],
   [ix EXCEPT !.f[f].cnt = Moved(@, i, (i % Len(ix.terms)) + 1)]}

TermDamaged(ix, i) ==
  {[ix EXCEPT !.df[i] = @ - 1], [ix EXCEPT !.df[i] = @ + 1], [ix EXCEPT !.terms[i] = ix.terms[1]]}

Damaged(ix) ==
  (UNION {UNION {PostingDamaged(ix, f, i) : i \in DOMAIN ix.f[f].post} : f \in Fields})
  \cup (UNION {UNION {CountDamaged(ix, f, i) : i \in DOMAIN ix.terms} : f \in Fields})
  \cup (UNION {TermDamaged(ix, i) : i \in DOMAIN ix.terms})
  \cup {[ix EXCEPT !.docs[d] = ix.docs[1]] : d \in DOMAIN ix.docs}

Damage ==
  /\ query = <<>> /\ whole
  /\ index' \in Damaged(index) \ {index}
  /\ whole' = FALSE
  /\ UNCHANGED <<pages, query>>

Next == (\E c \in Keys : Type(c)) \/ Clear \/ Damage

Spec == Init /\ [][Next]_vars
-----------------------------------------------------------------------------
Asked == Tokenise(query)

Answers(t, term) == IF t = Asked[Len(Asked)] THEN BeginsWith(term, t) ELSE term = t

\* The words of a section, in any of its fields.
WordsOf(section) == UNION {ToSet(Tokenise(section.text[f])) : f \in Fields}

\* A query finds exactly the sections for this reader that have one of its finished
\* words, or a word that begins with the one still being typed.  (The columnar postings,
\* their starts and gaps, the halving and the walk lose nothing and add nothing, and the
\* audience is a filter.)
FindsExactly ==
  whole => \A wanted \in Audiences :
    LET sections == ToSet(Sections(pages))
        found == {h.doc : h \in ToSet(SearchIndex(index, query, wanted))}
    IN  found = {s.doc : s \in {x \in sections :
                   /\ x.doc.audience \cap wanted # {}
                   /\ \E t \in ToSet(Asked), w \in WordsOf(x) : Answers(t, w)}}

Spelled(text) == FoldTerm(Prepare(text))

\* The pieces of a text a reader may take: from where a word begins, or two characters
\* or more of a CJK run.
TakenFrom(text, piece) ==
  \E k \in 1..Len(text) :
    /\ BeginsWith(SubSeq(text, k, Len(text)), piece)
    /\ \/ k = 1 \/ Kinds[text[k]] # Kinds[text[k - 1]]
       \/ Kinds[text[k]] = "separator"
       \/ Kinds[text[k]] = "cjk" /\ Len(piece) > 1 /\ Kinds[piece[2]] = "cjk"

\* What a reader copies from a section, or types as it is written there in any spelling,
\* finds that section, with all of its words.  (Both halves of search fold, classify and
\* cut alike, whatever scripts stand side by side.)
FindsWhatIsOnThePage ==
  whole => \A s \in ToSet(Sections(pages)) :
    (Asked # <<>> /\ \E f \in Fields : TakenFrom(Spelled(s.text[f]), Spelled(query)))
    => \E h \in ToSet(SearchIndex(index, query, s.doc.audience)) :
         /\ h.doc = s.doc
         /\ \A t \in ToSet(Asked) : \E w \in h.terms : Answers(t, w)

Order(ix) ==
  LET hits == SearchIndex(ix, query, UNION Audiences)
  IN  [k \in DOMAIN hits |-> hits[k].doc]

\* Who stands first has the better single word of a one-word query, is never behind a
\* section that has as much of every word and more of the words, and stands there
\* whatever the order the pages were built in.
RankedByEvidence ==
  whole /\ Asked # <<>> =>
    LET hits == SearchIndex(index, query, UNION Audiences)
        Of(t, id) == {Evidence(index, i, id) : i \in Expansion(index, Asked, t)} \cup {0}
        Has(id) == {t \in ToSet(Asked) : Max(Of(t, id)) > 0}
    IN  /\ \A a, b \in DOMAIN hits : a < b =>
             /\ Cardinality(ToSet(Asked)) = 1
                => Max(Of(Asked[1], hits[a].id)) >= Max(Of(Asked[1], hits[b].id))
             /\ (\A t \in ToSet(Asked) : Max(Of(t, hits[b].id)) >= Max(Of(t, hits[a].id)))
                => Has(hits[b].id) = Has(hits[a].id)
        /\ Order(index) = Order(Build(Reverse(pages)))

\* A file a loader accepts can be scored: no section is found twice, no score is not a
\* number, and a word is found in as many sections as its weight was computed from.
AcceptedIsQueryable ==
  Accepted(index) =>
    \A i \in DOMAIN index.terms :
      LET hits == SearchIndex(index, index.terms[i], UNION Audiences)
      IN  /\ \A a, b \in DOMAIN hits : a # b => <<hits[a].doc.slug, hits[a].doc.anchor>>
                                                # <<hits[b].doc.slug, hits[b].doc.anchor>>
          /\ \A h \in ToSet(hits) : h.score > 0
          /\ index.df[i] = Cardinality({h \in ToSet(hits) : index.terms[i] \in h.terms})
=============================================================================
