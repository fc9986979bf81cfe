---------------------------- MODULE ServeProofs ----------------------------
(***************************************************************************)
(* What a site serves agrees with itself, for every tree, set of languages *)
(* and history of commits: the manifest has its shape, links answer, the   *)
(* alternates, search rows and redirects fit the pages, and a page without *)
(* a notice is a translation of the latest source.                         *)
(*                                                                         *)
(* Most of it follows from one fact, PageAnswers: on a live site the       *)
(* address of a page is answered with the payload of its served language.  *)
(* The config's tables need an invariant (ConfigInv), since they are of an *)
(* older bundle, and the freshness of a silent page one of the history     *)
(* (HistoryInv): dates never say that an old translation is current.       *)
(***************************************************************************)
EXTENDS Serve, TLAPS

States == {"source", "current", "stale", "scaffolded", "missing"}

TypeInv ==
  /\ file \in [Docs -> [Langs -> Files \cup {None}]]
  /\ draft \in [Slugs -> BOOLEAN]
  /\ from \in [Slugs -> SUBSET Slugs]
  /\ now \in 0..MaxCommits

\* The config is of some bundle: its redirects lead from no page to a page.
LeadToPages(c) ==
  \A old \in DOMAIN c.redirects : old \notin c.pages /\ c.redirects[old] \in c.pages

ConfigInv == LeadToPages(config)

\* The languages a page has a file in.
LangsOf(s) == {m \in Langs : Has(s, m)}
-----------------------------------------------------------------------------
(* The tree.                                                               *)

LEMMA FileType ==
  ASSUME TypeInv, NEW d \in Docs, NEW l \in Langs, Has(d, l)
  PROVE  /\ file[d][l] \in Files
         /\ file[d][l].untranslated \in BOOLEAN
         /\ file[d][l].at \in 0..MaxCommits
         /\ Text(d, l) \in Texts
         /\ Text(d, l).of \in 0..MaxCommits
<1>1. file[d][l] \in Files
  BY DEF TypeInv, Has
<1>2. file[d][l].text \in Texts
  BY <1>1 DEF Files
<1> QED BY <1>1, <1>2 DEF Files, Texts, Text

LEMMA SlugsAreDocs == Slugs \subseteq Docs /\ Snippets \subseteq Docs /\ Src \in Langs
  BY CorpusAssumption DEF Docs

LEMMA CommitType ==
  ASSUME TypeInv, NEW d \in Docs, NEW l \in Langs, NEW text \in Texts, NEW u \in BOOLEAN,
         Commit(d, l, text, u)
  PROVE  file' \in [Docs -> [Langs -> Files \cup {None}]] /\ now' \in 0..MaxCommits
<1>1. now' = now + 1 /\ now' \in 0..MaxCommits
  BY CorpusAssumption DEF Commit, TypeInv
<1>2. [text |-> text, untranslated |-> u, at |-> now + 1] \in Files
  BY <1>1 DEF Files
<1> QED BY <1>1, <1>2 DEF Commit, TypeInv

\* A commit changes the file it writes and no other.
LEMMA CommitFile ==
  ASSUME TypeInv, NEW d \in Docs, NEW l \in Langs, NEW text, NEW u,
         Commit(d, l, text, u), NEW e \in Docs, NEW k \in Langs
  PROVE  file'[e][k] = IF e = d /\ k = l
                       THEN [text |-> text, untranslated |-> u, at |-> now + 1]
                       ELSE file[e][k]
<1>1. file' = [file EXCEPT ![d][l] = [text |-> text, untranslated |-> u, at |-> now + 1]]
  BY DEF Commit
<1>2. file \in [Docs -> [Langs -> Files \cup {None}]]
  BY DEF TypeInv
<1> DEFINE new == [text |-> text, untranslated |-> u, at |-> now + 1]
<1>3. file' = [file EXCEPT ![d][l] = new]
  BY <1>1
<1> HIDE DEF new
<1>4. file'[e][k] = IF e = d /\ k = l THEN new ELSE file[e][k]
  BY <1>2, <1>3
<1> QED BY <1>4 DEF new

LEMMA TypeInit == Init => TypeInv
<1> SUFFICES ASSUME Init PROVE TypeInv
  OBVIOUS
<1>1. PICK tree \in Trees : file = tree.file /\ from = tree.from
  BY DEF Init
<1> QED BY <1>1, TreesAssumption, CorpusAssumption DEF Init, TypeInv

LEMMA TypeStep ==
  ASSUME TypeInv, Author
  PROVE  TypeInv'
<1>1. \A a \in Langs \cup {Todo}, b \in 0..MaxCommits : [lang |-> a, of |-> b] \in Texts
  BY DEF Texts
<1>2. \A d \in Docs, l \in Langs : Has(d, l) => Text(d, l) \in Texts /\ Text(d, l).of \in 0..MaxCommits
  BY FileType
<1>3. now < MaxCommits => now + 1 \in 0..MaxCommits
  BY CorpusAssumption DEF TypeInv
<1>4. Src \in Langs /\ Slugs \subseteq Docs
  BY SlugsAreDocs
<1>5. ASSUME NEW d \in Docs, NEW l \in Langs, NEW text \in Texts, NEW u \in BOOLEAN,
             Commit(d, l, text, u), draft' \in [Slugs -> BOOLEAN], from' \in [Slugs -> SUBSET Slugs]
      PROVE  TypeInv'
  BY <1>5, CommitType DEF TypeInv
<1>6. draft \in [Slugs -> BOOLEAN] /\ from \in [Slugs -> SUBSET Slugs]
  BY DEF TypeInv
<1>7. ASSUME NEW d \in Docs, Write(d) PROVE TypeInv'
  <2>1. Commit(d, Src, [lang |-> Src, of |-> now + 1], FALSE) /\ draft' = draft /\ from' = from
    BY <1>7 DEF Write
  <2>2. [lang |-> Src, of |-> now + 1] \in Texts
    BY <1>1, <1>3, <1>4, <2>1 DEF Commit
  <2> QED BY <1>4, <1>5, <1>6, <2>1, <2>2
<1>8. ASSUME NEW d \in Docs, NEW l \in Langs, Translate(d, l) PROVE TypeInv'
  <2>1. /\ Commit(d, l, [lang |-> l, of |-> Text(d, Src).of], FALSE)
        /\ draft' = draft /\ from' = from /\ Has(d, Src)
    BY <1>8 DEF Translate
  <2>2. [lang |-> l, of |-> Text(d, Src).of] \in Texts
    BY <1>1, <1>2, <1>4, <2>1
  <2> QED BY <1>5, <1>6, <2>1, <2>2
<1>9. ASSUME NEW d \in Docs, NEW l \in Langs, Unflag(d, l) PROVE TypeInv'
  <2>1. Commit(d, l, Text(d, l), FALSE) /\ draft' = draft /\ from' = from /\ Has(d, l)
    BY <1>9 DEF Unflag
  <2> QED BY <1>2, <1>5, <1>6, <2>1
<1>10. ASSUME NEW d \in Docs, NEW l \in Langs, Delete(d, l) PROVE TypeInv'
  <2>1. file' = [file EXCEPT ![d][l] = None] /\ now' = now + 1 /\ now < MaxCommits
        /\ draft' = [s \in Slugs |-> draft[s] /\ <<s, Src>> # <<d, l>>]
        /\ from' = [s \in Slugs |-> IF <<s, Src>> = <<d, l>> THEN {} ELSE from[s]]
    BY <1>10 DEF Delete
  <2>2. draft' \in [Slugs -> BOOLEAN]
    BY <2>1
  <2>3. from' \in [Slugs -> SUBSET Slugs]
    BY <1>6, <2>1
  <2>4. file' \in [Docs -> [Langs -> Files \cup {None}]]
    BY <2>1 DEF TypeInv
  <2> QED BY <1>3, <2>1, <2>2, <2>3, <2>4 DEF TypeInv
<1>11. ASSUME NEW d \in Docs, NEW l \in Langs, NEW u \in BOOLEAN, Copy(d, l, u) PROVE TypeInv'
  <2>1. Commit(d, l, Text(d, Src), u) /\ draft' = draft /\ from' = from /\ Has(d, Src)
    BY <1>11 DEF Copy
  <2> QED BY <1>2, <1>4, <1>5, <1>6, <2>1
<1>12. ASSUME NEW s \in Slugs, NEW l \in Langs, Scaffold(s, l) PROVE TypeInv'
  <2>1. /\ Commit(s, l, [lang |-> Todo, of |-> Text(s, Src).of], TRUE)
        /\ draft' = draft /\ from' = from /\ Has(s, Src)
    BY <1>12 DEF Scaffold
  <2>2. [lang |-> Todo, of |-> Text(s, Src).of] \in Texts
    BY <1>1, <1>2, <1>4, <2>1
  <2> QED BY <1>4, <1>5, <1>6, <2>1, <2>2
<1>13. ASSUME NEW s \in Slugs, ToggleDraft(s) PROVE TypeInv'
  <2>1. /\ Commit(s, Src, Text(s, Src), FALSE) /\ Has(s, Src)
        /\ draft' = [draft EXCEPT ![s] = ~@] /\ from' = from
    BY <1>13 DEF ToggleDraft
  <2>2. draft' \in [Slugs -> BOOLEAN]
    BY <1>6, <2>1
  <2> QED BY <1>2, <1>4, <1>5, <1>6, <2>1, <2>2
<1>14. ASSUME NEW s \in Slugs, NEW old \in Slugs, ToggleRedirect(s, old) PROVE TypeInv'
  <2>1. /\ Commit(s, Src, Text(s, Src), FALSE) /\ Has(s, Src) /\ draft' = draft
        /\ from' = [from EXCEPT ![s] = IF old \in @ THEN @ \ {old} ELSE @ \cup {old}]
    BY <1>14 DEF ToggleRedirect
  <2>2. from' \in [Slugs -> SUBSET Slugs]
    BY <1>6, <2>1
  <2> QED BY <1>2, <1>4, <1>5, <1>6, <2>1, <2>2
<1> QED BY <1>7, <1>8, <1>9, <1>10, <1>11, <1>12, <1>13, <1>14 DEF Author
-----------------------------------------------------------------------------
(* The states of a translation.                                            *)

LEMMA StateNames == ToSet(StateOrder) = States /\ None \notin States
<1>1. DOMAIN StateOrder = 1..5 /\ Len(StateOrder) = 5
  BY DEF StateOrder
<1>2. /\ StateOrder[1] = "source" /\ StateOrder[2] = "current" /\ StateOrder[3] = "stale"
      /\ StateOrder[4] = "scaffolded" /\ StateOrder[5] = "missing"
  BY DEF StateOrder
<1>3. ToSet(StateOrder) = {StateOrder[i] : i \in 1..5}
  BY <1>1, Zenon DEF ToSet
<1>4. ToSet(StateOrder) = States
  BY <1>2, <1>3 DEF States
<1> QED BY <1>4, ServeAssumption

\* The worst of some states is one of them, and none of them is worse.
LEMMA WorstOf ==
  ASSUME NEW states \in SUBSET States, states # {}
  PROVE  /\ Worst(states) \in states
         /\ Worst(states) \in {"source", "current"} => states \subseteq {"source", "current"}
         /\ Worst(states) = "stale" => "scaffolded" \notin states /\ "missing" \notin states
<1>1. DOMAIN StateOrder = 1..5
      /\ StateOrder[1] = "source" /\ StateOrder[2] = "current" /\ StateOrder[3] = "stale"
      /\ StateOrder[4] = "scaffolded" /\ StateOrder[5] = "missing"
  BY DEF StateOrder
<1> DEFINE Good(i) == /\ StateOrder[i] \in states
                      /\ \A j \in DOMAIN StateOrder : StateOrder[j] \in states => j <= i
           at == CHOOSE i \in DOMAIN StateOrder : Good(i)
<1>2. \E i \in DOMAIN StateOrder : Good(i)
  <2>1. "missing" \in states => Good(5)
    BY <1>1
  <2>2. "missing" \notin states /\ "scaffolded" \in states => Good(4)
    BY <1>1
  <2>3. "missing" \notin states /\ "scaffolded" \notin states /\ "stale" \in states => Good(3)
    BY <1>1
  <2>4. states \cap {"missing", "scaffolded", "stale"} = {} /\ "current" \in states => Good(2)
    BY <1>1
  <2>5. states \cap {"missing", "scaffolded", "stale", "current"} = {} => Good(1)
    <3> SUFFICES ASSUME states \cap {"missing", "scaffolded", "stale", "current"} = {}
                 PROVE  Good(1)
      OBVIOUS
    <3>1. states = {"source"}
      BY DEF States
    <3>2. \A j \in DOMAIN StateOrder : StateOrder[j] \in states => j <= 1
      BY <1>1, <3>1
    <3> QED BY <1>1, <3>1, <3>2
  <2> QED BY <1>1, <2>1, <2>2, <2>3, <2>4, <2>5
<1>3. at \in DOMAIN StateOrder /\ Good(at)
  BY <1>2, Zenon
<1>4. Worst(states) = StateOrder[at]
  BY DEF Worst
<1> HIDE DEF at
<1>5. Worst(states) \in states
  BY <1>3, <1>4
<1>6. CASE Worst(states) \in {"source", "current"}
  <2>1. at < 3
    BY <1>1, <1>3, <1>4, <1>6
  <2>2. "stale" \notin states /\ "scaffolded" \notin states /\ "missing" \notin states
    BY <1>1, <1>3, <2>1
  <2> QED BY <1>5, <1>6, <2>2 DEF States
<1>7. CASE Worst(states) = "stale"
  <2>1. at < 4
    <3>1. at \in {1, 2, 3, 4, 5} /\ StateOrder[at] = "stale"
      BY <1>1, <1>3, <1>4, <1>7
    <3> QED BY <1>1, <3>1
  <2>2. "scaffolded" \notin states /\ "missing" \notin states
    BY <1>1, <1>3, <2>1
  <2> QED BY <1>5, <1>7, <2>2
<1> QED BY <1>5, <1>6, <1>7

LEMMA StateOfIs ==
  ASSUME TypeInv, NEW d \in Docs, NEW l \in Langs, Has(d, l), NEW is \in BOOLEAN
  PROVE  /\ StateOf(d, l, is) \in States \ {"missing"}
         /\ StateOf(d, l, is) = "source" <=> l = Src
         /\ StateOf(d, l, is) = "current" =>
              ~file[d][l].untranslated /\ ~is /\ ~Older(d, l)
<1>1. file[d][l].untranslated \in BOOLEAN
  BY FileType
<1>2. CASE l = Src
  BY <1>2 DEF StateOf, States
<1>3. CASE l # Src /\ (file[d][l].untranslated \/ is)
  <2>1. StateOf(d, l, is) = "scaffolded"
    BY <1>1, <1>3 DEF StateOf
  <2> QED BY <1>3, <2>1 DEF States
<1>4. CASE l # Src /\ ~file[d][l].untranslated /\ ~is
  <2>1. StateOf(d, l, is) = IF Older(d, l) THEN "stale" ELSE "current"
    BY <1>1, <1>4 DEF StateOf
  <2> QED BY <1>4, <2>1 DEF States
<1> QED BY <1>1, <1>2, <1>3, <1>4

LEMMA OwnIs ==
  ASSUME TypeInv, NEW s \in Slugs, NEW l \in Langs, Has(s, l)
  PROVE  /\ Own(s, l) \in States \ {"missing"}
         /\ Own(s, l) = "source" <=> l = Src
         /\ Own(s, l) = "current" =>
              ~file[s][l].untranslated /\ ~IsSourceText(s, l) /\ ~Older(s, l)
<1>1. s \in Docs /\ IsSourceText(s, l) \in BOOLEAN
  BY SlugsAreDocs DEF IsSourceText
<1> QED BY <1>1, StateOfIs DEF Own

LEMMA SnippetStateIs ==
  ASSUME TypeInv, NEW u \in Snippets, NEW l \in Langs, Has(u, l)
  PROVE  /\ SnippetState(u, l) \in States \ {"missing"}
         /\ SnippetState(u, l) = "source" <=> l = Src
         /\ SnippetState(u, l) = "current" =>
              ~file[u][l].untranslated /\ ~IsSourceBody(u, l) /\ ~Older(u, l)
<1>1. u \in Docs /\ IsSourceBody(u, l) \in BOOLEAN
  BY SlugsAreDocs DEF IsSourceBody
<1> QED BY <1>1, StateOfIs DEF SnippetState

\* A page is no fresher than itself and than what it includes.
LEMMA EffectiveIs ==
  ASSUME TypeInv, NEW s \in Slugs, NEW l \in Langs, Has(s, l)
  PROVE  /\ Effective(s, l) \in States \ {"missing"}
         /\ Effective(s, l) # "scaffolded" => Own(s, l) # "scaffolded"
         /\ Effective(s, l) \in {"source", "current"} =>
              /\ Own(s, l) \in {"source", "current"}
              /\ \A u \in Included(s, l) : SnippetState(u, l) \in {"source", "current"}
<1> DEFINE states == {Own(s, l)} \cup {SnippetState(u, l) : u \in Included(s, l)}
<1>1. \A u \in Included(s, l) : u \in Snippets /\ Has(u, l)
  BY CorpusAssumption DEF Included
<1>2. states \in SUBSET (States \ {"missing"}) /\ states # {}
  BY <1>1, OwnIs, SnippetStateIs
<1>3. Effective(s, l) = Worst(states)
  BY DEF Effective
<1>4. Own(s, l) \in states /\ \A u \in Included(s, l) : SnippetState(u, l) \in states
  OBVIOUS
<1> HIDE DEF states
<1>5. /\ Worst(states) \in states
      /\ Worst(states) \in {"source", "current"} => states \subseteq {"source", "current"}
      /\ Worst(states) = "stale" => "scaffolded" \notin states /\ "missing" \notin states
  BY <1>2, WorstOf
<1> QED BY <1>2, <1>3, <1>4, <1>5 DEF States
-----------------------------------------------------------------------------
(* The bundle.                                                             *)

LEMMA SourcedIs ==
  /\ Sourced \subseteq Slugs
  /\ \A s \in Sourced : Has(s, Src) /\ Src \in LangsOf(s)
  /\ Kept \cap Sourced = {} /\ Kept \subseteq Slugs
  BY SlugsAreDocs DEF Sourced, Known, LangsOf, Kept, Redirects

LEMMA BundleIs ==
  /\ DOMAIN Bundle.pages = Sourced
  /\ \A s \in Sourced : Bundle.pages[s] = [l \in LangsOf(s) |-> LocaleRecord(s, l)]
  /\ Bundle.nav = Nav \cap Sourced /\ Bundle.llmsOrder = Nav \cap Sourced
  /\ DOMAIN Bundle.redirects = Kept
  /\ \A old \in Kept : Bundle.redirects[old] \in Sourced
  /\ DOMAIN Bundle.search = Langs
  /\ \A l \in Langs :
       Bundle.search[l]
         = [s \in Sourced |-> [page |-> Indexed(s, l), translated |-> RowState(s, l)]]
  /\ \A s \in Sourced :
       Bundle.payloads[s]
         = [l \in LangsOf(s) |->
              [locale |-> l, state |-> Effective(s, l), links |-> LinksOf(s, l)]]
<1>1. Bundle.pages = [s \in Sourced |-> [l \in LangsOf(s) |-> LocaleRecord(s, l)]]
  BY DEF Bundle, LangsOf
<1>2. Bundle.nav = Nav \cap Sourced /\ Bundle.llmsOrder = Nav \cap Sourced
  BY DEF Bundle
<1>3. Bundle.redirects = [old \in Kept |-> Redirects[old]]
  BY DEF Bundle
<1>4. Bundle.search = [l \in Langs |->
          [s \in Sourced |-> [page |-> Indexed(s, l), translated |-> RowState(s, l)]]]
  BY DEF Bundle
<1>5. Bundle.payloads = [s \in Sourced |-> [l \in LangsOf(s) |->
          [locale |-> l, state |-> Effective(s, l), links |-> LinksOf(s, l)]]]
  BY DEF Bundle, LangsOf
<1>6. \A old \in Kept : Redirects[old] \in Sourced
  BY DEF Kept
<1> QED BY <1>1, <1>2, <1>3, <1>4, <1>5, <1>6

\* What the manifest says of a file.
LEMMA RecordIs ==
  ASSUME TypeInv, NEW s \in Sourced, NEW l \in LangsOf(s)
  PROVE  /\ Bundle.pages[s][l] = LocaleRecord(s, l)
         /\ Bundle.pages[s][l].state = Own(s, l)
         /\ Bundle.pages[s][l].effective = (IF Effective(s, l) = Own(s, l) THEN None ELSE Effective(s, l))
         /\ DOMAIN Bundle.pages[s] = LangsOf(s)
         /\ s \in Slugs /\ l \in Langs /\ Has(s, l)
<1>1. Bundle.pages[s] = [k \in LangsOf(s) |-> LocaleRecord(s, k)]
  BY BundleIs
<1>2. Bundle.pages[s][l] = LocaleRecord(s, l) /\ DOMAIN Bundle.pages[s] = LangsOf(s)
  BY <1>1
<1> QED BY <1>2, SourcedIs DEF LocaleRecord, LangsOf

\* The manifest of any tree that has the shape of one passes the rules it is
\* checked against before it is served.
LEMMA ShapeHolds ==
  ASSUME TypeInv
  PROVE  BundleHasShape
<1> DEFINE m == Bundle
<1>1. Src \in Langs /\ DOMAIN m.search = Langs
  BY SlugsAreDocs, BundleIs
<1>2. ASSUME NEW s \in DOMAIN m.pages
      PROVE  /\ DOMAIN m.pages[s] \subseteq Langs
             /\ \A l \in DOMAIN m.pages[s] :
                  m.pages[s][l].state \notin {"missing", m.pages[s][l].effective}
  <2>1. s \in Sourced /\ DOMAIN m.pages[s] = LangsOf(s)
    <3>1. s \in Sourced
      BY BundleIs
    <3>2. m.pages[s] = [l \in LangsOf(s) |-> LocaleRecord(s, l)]
      BY <3>1, BundleIs
    <3> HIDE DEF m
    <3> QED BY <3>1, <3>2
  <2>2. ASSUME NEW l \in LangsOf(s)
        PROVE  m.pages[s][l].state \notin {"missing", m.pages[s][l].effective}
    <3>1. /\ m.pages[s][l].state = Own(s, l)
          /\ m.pages[s][l].effective = (IF Effective(s, l) = Own(s, l) THEN None ELSE Effective(s, l))
          /\ s \in Slugs /\ l \in Langs /\ Has(s, l)
      BY <2>1, RecordIs
    <3>2. Own(s, l) \in States \ {"missing"} /\ None \notin States
      BY <3>1, OwnIs, StateNames
    <3> HIDE DEF m
    <3> QED BY <3>1, <3>2
  <2> QED BY <2>1, <2>2 DEF LangsOf
<1>3. ASSUME NEW old \in DOMAIN m.redirects
      PROVE  old \notin DOMAIN m.pages /\ m.redirects[old] \in DOMAIN m.pages
  BY BundleIs, SourcedIs
<1>4. m.nav \cup m.llmsOrder \subseteq DOMAIN m.pages
  BY BundleIs
<1> HIDE DEF m
<1>5. ShapeOk(m)
  BY <1>1, <1>2, <1>3, <1>4 DEF ShapeOk
<1> QED BY <1>5 DEF BundleHasShape, m
-----------------------------------------------------------------------------
(* A live site.                                                            *)

LEMMA TablesAre == LeadToPages(Tables)
<1> DEFINE c == Tables
<1>1. c = [pages |-> DOMAIN Bundle.pages, redirects |-> Bundle.redirects]
  BY DEF Tables
<1>2. c.pages = Sourced /\ c.redirects = Bundle.redirects
  BY <1>1, BundleIs
<1> HIDE DEF c
<1>3. /\ DOMAIN c.redirects = Kept
      /\ \A old \in Kept : c.redirects[old] \in Sourced
  BY <1>2, BundleIs
<1>4. LeadToPages(c)
  BY <1>2, <1>3, SourcedIs DEF LeadToPages
<1> QED BY <1>4 DEF c

\* The site is live: its pages are those of the head, its redirects maybe not.
LEMMA LivePages ==
  ASSUME Live
  PROVE  config.pages = Sourced /\ Shown(Bundle) = Sourced
<1>1. PageSkew(Bundle) = {}
  BY DEF Live
<1>2. DOMAIN Bundle.pages = Sourced
  BY BundleIs
<1>3. config.pages = Sourced
  BY <1>1, <1>2 DEF PageSkew
<1> QED BY <1>2, <1>3 DEF Shown

LEMMA ReaderNames ==
  /\ Langs \subseteq Readers /\ Src \in Readers
  /\ None \notin Readers /\ Odd \notin Readers /\ None # Odd
  BY ServeAssumption, SlugsAreDocs

\* The language a page is served in is one it has a file in.
LEMMA ServedIs ==
  ASSUME TypeInv, NEW s \in Sourced, NEW l
  PROVE  /\ ServedLocale(Bundle.pages[s], l) \in LangsOf(s)
         /\ ServedLocale(Bundle.pages[s], l)
              = IF l \in LangsOf(s) /\ Own(s, l) # "scaffolded" THEN l ELSE Src
<1>1. DOMAIN Bundle.pages[s] = LangsOf(s)
      /\ \A k \in LangsOf(s) : Bundle.pages[s][k].state = Own(s, k)
  <2>1. Src \in LangsOf(s)
    BY SourcedIs
  <2> QED BY <2>1, RecordIs
<1>2. ServedLocale(Bundle.pages[s], l)
        = IF l \in LangsOf(s) /\ Own(s, l) # "scaffolded" THEN l ELSE Src
  BY <1>1 DEF ServedLocale
<1> QED BY <1>2, SourcedIs

\* The address of a page, as the site writes it.
LEMMA HrefIs ==
  ASSUME NEW l, NEW slug
  PROVE  /\ Href(l, slug).seg = (IF l = Src THEN None ELSE l)
         /\ Href(l, slug).exact = TRUE /\ Href(l, slug).tidy = TRUE
         /\ Href(l, slug).slug = slug
  BY DEF Href, Url

\* What an address is located as.
LEMMA LocateIs ==
  ASSUME NEW url
  PROVE  /\ url.seg = None /\ Routed(url.slug) => Locate(url) = [kind |-> "found", locale |-> Src]
         /\ url.seg = None /\ ~Routed(url.slug) => Locate(url) = Missing
         /\ url.seg = Odd => Locate(url) = Missing
         /\ url.seg \in Readers /\ Routed(url.slug)
              => Locate(url) = [kind |-> "found", locale |-> url.seg]
         /\ url.seg \in Readers /\ ~Routed(url.slug) =>
              Locate(url) = IF url.seg = Src THEN Moved([url EXCEPT !.seg = None, !.exact = TRUE])
                            ELSE IF ~url.exact THEN Moved([url EXCEPT !.exact = TRUE])
                            ELSE Missing
<1>1. CASE url.seg = None
  BY <1>1, ReaderNames DEF Locate
<1>2. CASE url.seg = Odd
  BY <1>2, ReaderNames DEF Locate
<1>3. CASE url.seg \in Readers
  BY <1>3, ReaderNames DEF Locate
<1> QED BY <1>1, <1>2, <1>3

\* The address of a page of a live site is that page, in the payload of the
\* language it is served in.
LEMMA PageAnswers ==
  ASSUME TypeInv, ConfigInv, Live, NEW l \in Readers, NEW t \in Sourced
  PROVE  Answer(Bundle, Href(l, t))
           = [kind |-> "page", slug |-> t, locale |-> l,
              payload |-> Bundle.payloads[t][ServedLocale(Bundle.pages[t], l)]]
<1> DEFINE m == Bundle
           url == Href(l, t)
           served == ServedLocale(m.pages[t], l)
<1>1. t \in config.pages /\ t \in DOMAIN m.pages /\ t \notin DOMAIN m.redirects
      /\ DOMAIN m.pages[t] = LangsOf(t) /\ served \in LangsOf(t)
  BY LivePages, BundleIs, SourcedIs, ServedIs, RecordIs
<1>2. url.slug = t /\ (url.seg = IF l = Src THEN None ELSE l) /\ Routed(url.slug)
  <2>1. url.slug = t /\ url.seg = IF l = Src THEN None ELSE l
    BY HrefIs
  <2>2. Routed(t)
    BY <1>1 DEF Routed
  <2> HIDE DEF url
  <2> QED BY <2>1, <2>2, Zenon
<1>3. Locate(url) = [kind |-> "found", locale |-> l]
  BY <1>2, LocateIs
<1>4. t \notin DOMAIN config.redirects
  BY <1>1 DEF ConfigInv, LeadToPages
<1>5. Route(m, l, t) = [kind |-> "page", slug |-> t, locale |-> l,
                        payload |-> m.payloads[t][served]]
  <2> HIDE DEF m
  <2> QED BY <1>1 DEF Route
<1>6. Answer(m, url) = Route(m, l, t)
  <2> HIDE DEF m
  <2>1. [kind |-> "found", locale |-> l].kind = "found" /\ [kind |-> "found", locale |-> l].locale = l
    OBVIOUS
  <2>2. url = Href(l, url.slug)
    BY <1>2
  <2> HIDE DEF url
  <2> QED BY <1>2, <1>3, <1>4, <2>1, <2>2 DEF Answer
<1> QED BY <1>5, <1>6

\* The payload an address of a live site is answered with.
LEMMA PayloadIs ==
  ASSUME TypeInv, ConfigInv, Live, NEW l \in Readers, NEW t \in Sourced
  PROVE  LET a == Answer(Bundle, Href(l, t))
             served == ServedLocale(Bundle.pages[t], l)
         IN  /\ a.kind = "page" /\ a.locale = l
             /\ a.payload = Bundle.payloads[t][served]
             /\ a.payload.locale = served
             /\ a.payload.state = Effective(t, served)
             /\ a.payload.links = LinksOf(t, served)
<1> DEFINE a == Answer(Bundle, Href(l, t))
           served == ServedLocale(Bundle.pages[t], l)
<1>1. a = [kind |-> "page", slug |-> t, locale |-> l, payload |-> Bundle.payloads[t][served]]
  BY PageAnswers
<1>2. served \in LangsOf(t)
  BY ServedIs
<1>3. Bundle.payloads[t] = [k \in LangsOf(t) |->
          [locale |-> k, state |-> Effective(t, k), links |-> LinksOf(t, k)]]
  BY BundleIs
<1> HIDE DEF a, served
<1>4. Bundle.payloads[t][served]
        = [locale |-> served, state |-> Effective(t, served), links |-> LinksOf(t, served)]
  BY <1>2, <1>3, Zenon
<1>5. a.kind = "page" /\ a.locale = l /\ a.payload = Bundle.payloads[t][served]
  BY <1>1
<1>6. /\ a.payload.locale = served /\ a.payload.state = Effective(t, served)
      /\ a.payload.links = LinksOf(t, served)
  BY <1>4, <1>5
<1> QED BY <1>5, <1>6 DEF a, served

LEMMA LinksAnswer ==
  ASSUME TypeInv, ConfigInv
  PROVE  EveryLinkAnswers
<1> DEFINE m == Bundle
           linked(l) == UNION {m.payloads[s][ServedLocale(m.pages[s], l)].links : s \in Shown(m)}
<1> SUFFICES ASSUME Live, NEW l \in Readers,
                    NEW t \in linked(l) \cup m.nav \cup m.llmsOrder
                               \cup DOMAIN m.search[SearchLocale(m, l)]
             PROVE  Answer(m, Href(l, t)).kind = "page"
  BY Zenon DEF EveryLinkAnswers
<1>1. t \in Sourced
  <2>1. CASE t \in m.nav \cup m.llmsOrder
    BY <2>1, BundleIs
  <2>2. CASE t \in DOMAIN m.search[SearchLocale(m, l)]
    <3>1. SearchLocale(m, l) \in Langs
      BY BundleIs, SlugsAreDocs DEF SearchLocale
    <3>2. m.search[SearchLocale(m, l)]
            = [s \in Sourced |-> [page |-> Indexed(s, SearchLocale(m, l)),
                                  translated |-> RowState(s, SearchLocale(m, l))]]
      BY <3>1, BundleIs
    <3>3. DOMAIN m.search[SearchLocale(m, l)] = Sourced
      BY <3>2, Zenon
    <3> QED BY <2>2, <3>3
  <2>3. CASE t \in linked(l)
    <3>1. PICK s \in Sourced : t \in m.payloads[s][ServedLocale(m.pages[s], l)].links
      BY <2>3, LivePages
    <3>2. t \in LinksOf(s, ServedLocale(m.pages[s], l))
      BY <3>1, PayloadIs
    <3>3. PICK x \in Links[s] : t = Target(x) /\ t # None
      BY <3>2 DEF LinksOf
    <3> QED BY <3>3 DEF Target
  <2> QED BY <2>1, <2>2, <2>3, Zenon
<1> QED BY <1>1, PayloadIs

LEMMA AlternatesHold ==
  ASSUME TypeInv, ConfigInv
  PROVE  AlternatesMatchNoindex
<1> DEFINE m == Bundle
<1> SUFFICES ASSUME Live, NEW s \in Shown(m), NEW l \in Readers
             PROVE  LET a == Answer(m, Href(l, s))
                    IN a.kind = "page" /\ (Indexable(a.payload, l) <=> l \in Sitemap(m)[s])
  BY DEF AlternatesMatchNoindex
<1>1. s \in Sourced /\ Sitemap(m)[s] = IndexableLanguages(m.pages[s])
  BY LivePages DEF Sitemap
<1> DEFINE a == Answer(m, Href(l, s))
           served == ServedLocale(m.pages[s], l)
<1>2. a.kind = "page" /\ a.payload.locale = served /\ a.payload.state = Effective(s, served)
  BY <1>1, PayloadIs
<1>3. served = (IF l \in LangsOf(s) /\ Own(s, l) # "scaffolded" THEN l ELSE Src)
      /\ served \in LangsOf(s)
  BY <1>1, ServedIs
<1>4. l \in IndexableLanguages(m.pages[s]) <=>
        l \in LangsOf(s) /\ Effective(s, l) \notin {"scaffolded", "missing"}
  <2>1. CASE l \in LangsOf(s)
    <3>1. /\ m.pages[s][l].state = Own(s, l)
          /\ m.pages[s][l].effective = (IF Effective(s, l) = Own(s, l) THEN None ELSE Effective(s, l))
          /\ DOMAIN m.pages[s] = LangsOf(s) /\ s \in Slugs /\ l \in Langs /\ Has(s, l)
      BY <1>1, <2>1, RecordIs
    <3>2. Own(s, l) # None /\ Effective(s, l) # None
      BY <3>1, OwnIs, EffectiveIs, StateNames
    <3> HIDE DEF m
    <3> QED BY <2>1, <3>1, <3>2 DEF IndexableLanguages
  <2>2. CASE l \notin LangsOf(s)
    <3>1. Src \in LangsOf(s)
      BY <1>1, SourcedIs
    <3>2. DOMAIN m.pages[s] = LangsOf(s)
      BY <1>1, <3>1, RecordIs
    <3> HIDE DEF m
    <3> QED BY <2>2, <3>2 DEF IndexableLanguages
  <2> QED BY <2>1, <2>2
<1>5. l \in LangsOf(s) => /\ Effective(s, l) \in States
                          /\ Effective(s, l) # "scaffolded" => Own(s, l) # "scaffolded"
                          /\ l = Src => Own(s, l) = "source"
  BY <1>1, SourcedIs, EffectiveIs, OwnIs DEF LangsOf
<1> HIDE DEF a, served
<1>6. Indexable(a.payload, l) <=>
        served = l /\ Effective(s, served) \notin {"scaffolded", "missing"}
  BY <1>2, <1>5 DEF Indexable, Notice
<1>7. served = l <=> l \in LangsOf(s) /\ Own(s, l) # "scaffolded"
  BY <1>3, <1>5
<1>8. Indexable(a.payload, l) <=> l \in Sitemap(m)[s]
  BY <1>1, <1>4, <1>5, <1>6, <1>7
<1> QED BY <1>2, <1>8 DEF a

LEMMA SearchHolds ==
  ASSUME TypeInv, ConfigInv
  PROVE  SearchMatchesPage
<1> DEFINE m == Bundle
<1> SUFFICES ASSUME Live, NEW s \in Shown(m), NEW l \in Readers
             PROVE  LET row == m.search[SearchLocale(m, l)][s]
                        a == Answer(m, Href(l, s))
                        mark == IF row.translated = "missing" THEN "fallback" ELSE row.translated
                    IN /\ row.page = a.payload.locale
                       /\ l \in Langs => mark = Notice(a.payload, l)
  BY Zenon DEF SearchMatchesPage
<1> DEFINE a == Answer(m, Href(l, s))
           k == SearchLocale(m, l)
           row == m.search[k][s]
           served == ServedLocale(m.pages[s], l)
<1>1. s \in Sourced /\ s \in Slugs /\ Has(s, Src)
  BY LivePages, SourcedIs
<1>2. a.payload.locale = served /\ a.payload.state = Effective(s, served)
  BY <1>1, PayloadIs
<1>3. k = (IF l \in Langs THEN l ELSE Src) /\ k \in Langs
  BY BundleIs, SlugsAreDocs DEF SearchLocale
<1>4. row.page = Indexed(s, k) /\ row.translated = RowState(s, k)
  <2> HIDE DEF k
  <2>1. m.search[k] = [x \in Sourced |-> [page |-> Indexed(x, k), translated |-> RowState(x, k)]]
    BY <1>3, BundleIs
  <2> HIDE DEF m
  <2>2. row = [page |-> Indexed(s, k), translated |-> RowState(s, k)]
    BY <1>1, <2>1, Zenon
  <2> HIDE DEF row
  <2> QED BY <2>2
<1>5. served = IF l \in LangsOf(s) /\ Own(s, l) # "scaffolded" THEN l ELSE Src
  BY <1>1, ServedIs
<1>6. Own(s, Src) = "source"
  BY <1>1, OwnIs, SlugsAreDocs
<1> HIDE DEF a, k, row, served
<1>7. row.page = served
  BY <1>3, <1>4, <1>5, <1>6 DEF Indexed, LangsOf
<1>8. ASSUME l \in Langs
      PROVE  Notice(a.payload, l)
               = IF row.translated = "missing" THEN "fallback" ELSE row.translated
  <2>1. k = l /\ row.translated = RowState(s, l) /\ Indexed(s, l) = served
    BY <1>3, <1>4, <1>7, <1>8
  <2>2. CASE served # l
    <3>1. RowState(s, l) = "missing"
      BY <2>1, <2>2 DEF RowState
    <3>2. Notice(a.payload, l) = "fallback"
      BY <1>2, <2>2 DEF Notice
    <3> QED BY <2>1, <3>1, <3>2
  <2>3. CASE served = l
    <3>1. Has(s, l)
      BY <1>1, <1>5, <2>3 DEF LangsOf
    <3>2. Effective(s, l) \in {"source", "current", "stale", "scaffolded"}
      BY <1>1, <1>8, <3>1, EffectiveIs DEF States
    <3>3. RowState(s, l) = (IF Effective(s, l) \in {"source", "current"} THEN "current"
                            ELSE IF Effective(s, l) = "stale" THEN "stale" ELSE "missing")
      BY <2>1, <2>3, <3>2 DEF RowState
    <3>4. Notice(a.payload, l) = (IF Effective(s, l) = "scaffolded" THEN "fallback"
                                  ELSE IF Effective(s, l) = "stale" THEN "stale" ELSE "current")
      BY <1>2, <2>3, <3>2 DEF Notice
    <3> QED BY <2>1, <3>2, <3>3, <3>4
  <2> QED BY <2>2, <2>3
<1> QED BY <1>2, <1>7, <1>8 DEF a, k, row, served

\* Where an address leads that names a language and a slug the table has: to
\* the page, at once or by one redirect to the address the site itself writes.
LEMMA RoutedAnswers ==
  ASSUME TypeInv, ConfigInv, Live, NEW url, NEW l \in Readers, Routed(url.slug),
         Locate(url) = [kind |-> "found", locale |-> l]
  PROVE  \E t \in Sourced :
           \/ Answer(Bundle, url) = Moved(Href(l, t))
           \/ url = Href(l, t)
<1> DEFINE slug == url.slug
<1>1. config.pages = Sourced
  BY LivePages
<1>2. Locate(url).kind = "found" /\ Locate(url).locale = l
  OBVIOUS
<1>3. CASE slug \in DOMAIN config.redirects /\ slug \notin config.pages
  <2>1. config.redirects[slug] \in Sourced
    BY <1>1, <1>3 DEF ConfigInv, LeadToPages
  <2>2. Answer(Bundle, url) = Moved(Href(l, config.redirects[slug]))
    BY <1>2, <1>3 DEF Answer
  <2> QED BY <2>1, <2>2
<1>4. CASE slug \in config.pages
  <2>1. CASE url = Href(l, slug)
    BY <1>1, <1>4, <2>1
  <2>2. CASE url # Href(l, slug)
    <3>1. Answer(Bundle, url) = Moved(Href(l, slug))
      BY <1>2, <1>4, <2>2 DEF Answer
    <3> QED BY <1>1, <1>4, <3>1
  <2> QED BY <2>1, <2>2
<1> QED BY <1>3, <1>4 DEF Routed

LEMMA OneHopHolds ==
  ASSUME TypeInv, ConfigInv
  PROVE  OneHop
<1> DEFINE m == Bundle
           last(url) == IF Answer(m, url).kind = "moved" THEN Answer(m, Answer(m, url).to)
                        ELSE Answer(m, url)
<1> SUFFICES ASSUME Live, NEW url \in Urls
             PROVE  /\ last(url).kind # "moved"
                    /\ Routed(url.slug) /\ url.seg # Odd => last(url).kind = "page"
                    /\ last(url).kind = "page" =>
                         last(url).locale = IF url.seg = None THEN Src ELSE url.seg
  BY Zenon DEF OneHop
<1>1. /\ url \in [seg : Readers \cup {None, Odd}, exact : BOOLEAN,
                  slug : Slugs \cup {Unknown}, tidy : BOOLEAN]
      /\ url.seg \in Readers \cup {None, Odd}
  BY DEF Urls
<1>2. \A x : Moved(x).kind = "moved" /\ Moved(x).to = x
  BY DEF Moved
<1>3. Missing.kind = "missing"
  BY DEF Missing
<1>4. ASSUME Locate(url) = Missing PROVE Answer(m, url) = Missing
  BY <1>3, <1>4 DEF Answer
<1>5. ASSUME NEW x, Locate(url) = Moved(x) PROVE Answer(m, url) = Moved(x)
  BY <1>2, <1>5 DEF Answer
<1>6. ASSUME NEW l \in Readers, Routed(url.slug), Locate(url) = [kind |-> "found", locale |-> l]
      PROVE  last(url).kind = "page" /\ last(url).locale = l
  <2>1. PICK t \in Sourced : Answer(m, url) = Moved(Href(l, t)) \/ url = Href(l, t)
    BY <1>6, RoutedAnswers
  <2>2. Answer(m, Href(l, t)).kind = "page" /\ Answer(m, Href(l, t)).locale = l
    BY PayloadIs
  <2> HIDE DEF m
  <2>3. CASE Answer(m, url) = Moved(Href(l, t))
    BY <1>2, <2>2, <2>3
  <2>4. CASE url = Href(l, t)
    BY <2>2, <2>4
  <2> QED BY <2>1, <2>3, <2>4
<1>7. ASSUME Answer(m, url) = Missing PROVE last(url).kind = "missing"
  BY <1>3, <1>7
<1>8. CASE url.seg = None
  <2>1. CASE Routed(url.slug)
    <3>1. Locate(url) = [kind |-> "found", locale |-> Src]
      BY <1>8, <2>1, LocateIs
    <3>2. last(url).kind = "page" /\ last(url).locale = Src
      BY <1>6, <2>1, <3>1, ReaderNames
    <3> HIDE DEF last
    <3> QED BY <1>8, <3>2
  <2>2. CASE ~Routed(url.slug)
    <3>1. last(url).kind = "missing"
      BY <1>4, <1>7, <1>8, <2>2, LocateIs
    <3> HIDE DEF last
    <3> QED BY <2>2, <3>1
  <2> QED BY <2>1, <2>2
<1>9. CASE url.seg = Odd
  <2>1. last(url).kind = "missing"
    BY <1>4, <1>7, <1>9, LocateIs
  <2> HIDE DEF last
  <2> QED BY <1>9, <2>1
<1>10. CASE url.seg \in Readers /\ Routed(url.slug)
  <2>1. Locate(url) = [kind |-> "found", locale |-> url.seg]
    BY <1>10, LocateIs
  <2>2. last(url).kind = "page" /\ last(url).locale = url.seg
    BY <1>6, <1>10, <2>1
  <2> HIDE DEF last
  <2> QED BY <1>10, <2>2, ReaderNames
<1>11. CASE url.seg \in Readers /\ ~Routed(url.slug)
  <2>1. Locate(url) = IF url.seg = Src THEN Moved([url EXCEPT !.seg = None, !.exact = TRUE])
                      ELSE IF ~url.exact THEN Moved([url EXCEPT !.exact = TRUE])
                      ELSE Missing
    BY <1>11, LocateIs
  <2>2. ASSUME NEW to, Locate(url) = Moved(to), Locate(to) = Missing
        PROVE  last(url).kind = "missing"
    <3>1. Answer(m, url) = Moved(to)
      BY <1>5, <2>2
    <3>2. Answer(m, to) = Missing
      BY <1>3, <2>2 DEF Answer
    <3> HIDE DEF m
    <3> QED BY <1>2, <1>3, <3>1, <3>2
  <2>3. ASSUME url.seg = Src PROVE last(url).kind = "missing"
    <3> DEFINE to == [url EXCEPT !.seg = None, !.exact = TRUE]
    <3>1. to.seg = None /\ to.slug = url.slug
      BY <1>1
    <3> HIDE DEF to
    <3>2. Locate(to) = Missing
      BY <1>11, <3>1, LocateIs
    <3>3. Locate(url) = Moved(to)
      BY <2>1, <2>3 DEF to
    <3> HIDE DEF last, to
    <3> QED BY <2>2, <3>2, <3>3
  <2>4. ASSUME url.seg # Src, ~url.exact PROVE last(url).kind = "missing"
    <3> DEFINE to == [url EXCEPT !.exact = TRUE]
    <3>1. to.seg = url.seg /\ to.slug = url.slug /\ to.exact = TRUE
      BY <1>1
    <3> HIDE DEF to
    <3>2. Locate(to) = Missing
      BY <1>11, <2>4, <3>1, LocateIs
    <3>3. Locate(url) = Moved(to)
      BY <2>1, <2>4 DEF to
    <3> HIDE DEF last, to
    <3> QED BY <2>2, <3>2, <3>3
  <2>5. ASSUME url.seg # Src, url.exact PROVE last(url).kind = "missing"
    <3>1. Locate(url) = Missing
      BY <2>1, <2>5
    <3> HIDE DEF last, m
    <3> QED BY <1>4, <1>7, <3>1
  <2> HIDE DEF last
  <2>6. last(url).kind = "missing"
    BY <2>3, <2>4, <2>5
  <2> QED BY <1>11, <2>6
<1> QED BY <1>1, <1>8, <1>9, <1>10, <1>11
-----------------------------------------------------------------------------
(* The history of the tree.                                                *)

\* The source is in its language; a flagged file is no translation; and a
\* translation not older than its source is of the source's text.
HistoryInv ==
  \A d \in Docs :
    /\ Has(d, Src) => Text(d, Src).lang = Src
    /\ \A l \in Langs : Has(d, l) => file[d][l].at <= now
    /\ \A l \in Langs \ {Src} : Has(d, l) =>
         /\ file[d][l].untranslated => Text(d, l).lang # l
         /\ Has(d, Src) /\ Text(d, l).lang = l /\ ~Older(d, l) => Text(d, l).of = Text(d, Src).of

\* A commit keeps it that makes no flagged file a translation, and none of
\* another source than the one there is.
LEMMA CommitHistory ==
  ASSUME TypeInv, HistoryInv, NEW d \in Docs, NEW l \in Langs, NEW text \in Texts, NEW u \in BOOLEAN,
         Commit(d, l, text, u),
         l = Src => text.lang = Src,
         l # Src => /\ u => text.lang # l
                    /\ Has(d, Src) /\ text.lang = l => text.of = Text(d, Src).of
  PROVE  HistoryInv'
<1>1. Src \in Langs /\ now \in Int /\ now' = now + 1
  BY SlugsAreDocs, CorpusAssumption DEF Commit, TypeInv
<1> DEFINE new == [text |-> text, untranslated |-> u, at |-> now + 1]
<1>2. \A e \in Docs, k \in Langs : file'[e][k] = IF e = d /\ k = l THEN new ELSE file[e][k]
  BY CommitFile
<1>3. new.text = text /\ new.untranslated = u /\ new.at = now + 1 /\ new # None
  <2>1. now + 1 \in 0..MaxCommits
    BY CorpusAssumption DEF Commit, TypeInv
  <2>2. new \in Files
    BY <2>1 DEF Files
  <2> QED BY <2>2, TreesAssumption
<1> HIDE DEF new
<1>4. ASSUME NEW e \in Docs, NEW k \in Langs, Has(e, k)
      PROVE  file[e][k].at \in Int /\ file[e][k].at <= now /\ file[e][k].untranslated \in BOOLEAN
  BY <1>4, FileType DEF HistoryInv
<1> SUFFICES ASSUME NEW e \in Docs
             PROVE  /\ Has(e, Src)' => Text(e, Src)'.lang = Src
                    /\ \A k \in Langs : Has(e, k)' => file'[e][k].at <= now'
                    /\ \A k \in Langs \ {Src} : Has(e, k)' =>
                         /\ file'[e][k].untranslated => Text(e, k)'.lang # k
                         /\ Has(e, Src)' /\ Text(e, k)'.lang = k /\ ~Older(e, k)'
                              => Text(e, k)'.of = Text(e, Src)'.of
  BY DEF HistoryInv
<1>5. CASE e # d
  <2>1. \A k \in Langs : file'[e][k] = file[e][k]
    BY <1>2, <1>5
  <2> QED BY <1>1, <1>4, <2>1 DEF HistoryInv, Has, Text, Older
<1>6. CASE e = d
  <2>1. file'[d][l] = new /\ \A k \in Langs \ {l} : file'[d][k] = file[d][k]
    BY <1>2
  <2>2. Has(d, Src)' => Text(d, Src)'.lang = Src
    BY <1>1, <1>3, <2>1 DEF HistoryInv, Has, Text
  <2>3. ASSUME NEW k \in Langs, Has(d, k)' PROVE file'[d][k].at <= now'
    BY <1>1, <1>3, <1>4, <2>1, <2>3 DEF Has
  <2>4. ASSUME NEW k \in Langs \ {Src}, Has(d, k)'
        PROVE  /\ file'[d][k].untranslated => Text(d, k)'.lang # k
               /\ Has(d, Src)' /\ Text(d, k)'.lang = k /\ ~Older(d, k)'
                    => Text(d, k)'.of = Text(d, Src)'.of
    <3>1. CASE k = l
      <4>1. l # Src /\ file'[d][Src] = file[d][Src] /\ file'[d][k] = new
        BY <1>1, <2>1, <3>1
      <4> QED BY <1>3, <3>1, <4>1 DEF Has, Text
    <3>2. CASE k # l /\ l # Src
      <4>1. file'[d][Src] = file[d][Src] /\ file'[d][k] = file[d][k]
        BY <1>1, <2>1, <3>2
      <4> QED BY <2>4, <4>1 DEF HistoryInv, Has, Text, Older
    <3>3. CASE l = Src
      <4>1. file'[d][Src] = new /\ file'[d][k] = file[d][k] /\ k \in Langs
        BY <2>1, <3>3
      <4>2. Has(d, k) /\ file[d][k].at \in Int /\ file[d][k].at <= now
        BY <1>4, <2>4, <4>1 DEF Has
      <4>3. Older(d, k)'
        BY <1>1, <1>3, <4>1, <4>2 DEF Older, Has
      <4>4. file'[d][k].untranslated => Text(d, k)'.lang # k
        BY <4>1, <4>2 DEF HistoryInv, Text
      <4> QED BY <4>3, <4>4
    <3> QED BY <3>1, <3>2, <3>3
  <2> QED BY <1>6, <2>2, <2>3, <2>4
<1> QED BY <1>5, <1>6

LEMMA DeleteHistory ==
  ASSUME TypeInv, HistoryInv, NEW d \in Docs, NEW l \in Langs, Delete(d, l)
  PROVE  HistoryInv'
<1>1. file' = [file EXCEPT ![d][l] = None] /\ now' = now + 1 /\ now \in Int /\ Src \in Langs
  BY SlugsAreDocs, CorpusAssumption DEF Delete, TypeInv
<1>2. \A e \in Docs, k \in Langs : file'[e][k] = IF e = d /\ k = l THEN None ELSE file[e][k]
  BY <1>1 DEF TypeInv
<1>3. \A e \in Docs, k \in Langs : Has(e, k)' => Has(e, k) /\ file'[e][k] = file[e][k]
  BY <1>2 DEF Has
<1>4. \A e \in Docs, k \in Langs : Has(e, k) => file[e][k].at \in Int
  BY FileType
<1>5. ASSUME NEW e \in Docs, NEW k \in Langs, Has(e, k)' PROVE file'[e][k].at <= now'
  BY <1>1, <1>3, <1>4, <1>5 DEF HistoryInv
<1>6. ASSUME NEW e \in Docs, Has(e, Src)' PROVE Text(e, Src)'.lang = Src
  BY <1>1, <1>3, <1>6 DEF HistoryInv, Text
<1>7. ASSUME NEW e \in Docs, NEW k \in Langs \ {Src}, Has(e, k)'
      PROVE  /\ file'[e][k].untranslated => Text(e, k)'.lang # k
             /\ Has(e, Src)' /\ Text(e, k)'.lang = k /\ ~Older(e, k)'
                  => Text(e, k)'.of = Text(e, Src)'.of
  BY <1>1, <1>3, <1>7 DEF HistoryInv, Text, Older
<1> QED BY <1>5, <1>6, <1>7 DEF HistoryInv

LEMMA HistoryInit == Init => HistoryInv
<1> SUFFICES ASSUME Init PROVE HistoryInv
  OBVIOUS
<1>1. PICK tree \in Trees : file = tree.file
  BY DEF Init
<1>2. \A d \in Docs, l \in Langs :
        file[d][l] = None
        \/ file[d][l] = [text |-> [lang |-> l, of |-> 0], untranslated |-> FALSE, at |-> 0]
  BY <1>1, TreesAssumption
<1>3. ASSUME NEW d \in Docs, NEW l \in Langs, Has(d, l)
      PROVE  /\ Text(d, l).lang = l /\ Text(d, l).of = 0
             /\ file[d][l].untranslated = FALSE /\ file[d][l].at = 0
  <2>1. file[d][l] = [text |-> [lang |-> l, of |-> 0], untranslated |-> FALSE, at |-> 0]
    BY <1>2, <1>3 DEF Has
  <2> QED BY <2>1 DEF Text
<1>4. now = 0 /\ Src \in Langs
  BY SlugsAreDocs DEF Init
<1> SUFFICES ASSUME NEW d \in Docs
             PROVE  /\ Has(d, Src) => Text(d, Src).lang = Src
                    /\ \A l \in Langs : Has(d, l) => file[d][l].at <= now
                    /\ \A l \in Langs \ {Src} : Has(d, l) =>
                         /\ file[d][l].untranslated => Text(d, l).lang # l
                         /\ Has(d, Src) /\ Text(d, l).lang = l /\ ~Older(d, l)
                              => Text(d, l).of = Text(d, Src).of
  BY DEF HistoryInv
<1>5. ASSUME NEW l \in Langs, Has(d, l) PROVE file[d][l].at <= now
  <2>1. file[d][l].at = 0
    BY <1>3, <1>5
  <2> QED BY <1>4, <2>1
<1>6. Has(d, Src) => Text(d, Src).lang = Src
  BY <1>3, <1>4
<1>7. ASSUME NEW l \in Langs \ {Src}, Has(d, l) PROVE ~file[d][l].untranslated
  BY <1>3, <1>7
<1>8. ASSUME NEW l \in Langs \ {Src}, Has(d, l), Has(d, Src)
      PROVE  Text(d, l).of = Text(d, Src).of
  BY <1>3, <1>4, <1>8
<1> QED BY <1>5, <1>6, <1>7, <1>8

LEMMA HistoryStep ==
  ASSUME TypeInv, HistoryInv, Author
  PROVE  HistoryInv'
<1>1. \A a \in Langs \cup {Todo}, b \in 0..MaxCommits :
        /\ [lang |-> a, of |-> b] \in Texts
        /\ [lang |-> a, of |-> b].lang = a /\ [lang |-> a, of |-> b].of = b
  BY DEF Texts
<1>2. \A d \in Docs, l \in Langs : Has(d, l) => Text(d, l) \in Texts /\ Text(d, l).of \in 0..MaxCommits
  BY FileType
<1>3. now < MaxCommits => now + 1 \in 0..MaxCommits
  BY CorpusAssumption DEF TypeInv
<1>4. Src \in Langs /\ Slugs \subseteq Docs /\ Todo \notin Langs
  BY SlugsAreDocs, CorpusAssumption
<1>5. \A d \in Docs : Has(d, Src) => Text(d, Src).lang = Src
  BY DEF HistoryInv
<1>6. ASSUME NEW d \in Docs, Write(d) PROVE HistoryInv'
  <2> DEFINE text == [lang |-> Src, of |-> now + 1]
  <2>1. Commit(d, Src, text, FALSE)
    BY <1>6 DEF Write
  <2>2. text \in Texts /\ text.lang = Src
    BY <1>1, <1>3, <1>4, <2>1 DEF Commit
  <2> HIDE DEF text
  <2> QED BY <1>4, <2>1, <2>2, CommitHistory
<1>7. ASSUME NEW d \in Docs, NEW l \in Langs, Translate(d, l) PROVE HistoryInv'
  <2> DEFINE text == [lang |-> l, of |-> Text(d, Src).of]
  <2>1. Commit(d, l, text, FALSE) /\ Has(d, Src) /\ l # Src
    BY <1>7 DEF Translate
  <2>2. text \in Texts /\ text.of = Text(d, Src).of
    BY <1>1, <1>2, <1>4, <2>1
  <2> HIDE DEF text
  <2> QED BY <2>1, <2>2, CommitHistory
<1>8. ASSUME NEW d \in Docs, NEW l \in Langs, Unflag(d, l) PROVE HistoryInv'
  <2> DEFINE text == Text(d, l)
  <2>1. Commit(d, l, text, FALSE) /\ Has(d, l) /\ file[d][l].untranslated
    BY <1>8 DEF Unflag
  <2>2. text \in Texts /\ (l = Src => text.lang = Src) /\ (l # Src => text.lang # l)
    BY <1>2, <1>5, <2>1 DEF HistoryInv
  <2> HIDE DEF text
  <2> QED BY <2>1, <2>2, CommitHistory
<1>9. ASSUME NEW d \in Docs, NEW l \in Langs, NEW u \in BOOLEAN, Copy(d, l, u) PROVE HistoryInv'
  <2> DEFINE text == Text(d, Src)
  <2>1. Commit(d, l, text, u) /\ Has(d, Src) /\ ~Has(d, l)
    BY <1>9 DEF Copy
  <2>2. text \in Texts /\ text.lang = Src /\ l # Src
    BY <1>2, <1>4, <1>5, <2>1
  <2> HIDE DEF text
  <2> QED BY <2>1, <2>2, CommitHistory
<1>10. ASSUME NEW s \in Slugs, NEW l \in Langs, Scaffold(s, l) PROVE HistoryInv'
  <2> DEFINE text == [lang |-> Todo, of |-> Text(s, Src).of]
  <2>1. Commit(s, l, text, TRUE) /\ Has(s, Src) /\ ~Has(s, l) /\ s \in Docs
    BY <1>4, <1>10 DEF Scaffold
  <2>2. text \in Texts /\ text.lang = Todo /\ l # Src
    BY <1>1, <1>2, <1>4, <2>1
  <2> HIDE DEF text
  <2> QED BY <1>4, <2>1, <2>2, CommitHistory
<1>11. ASSUME NEW s \in Slugs, Has(s, Src), Commit(s, Src, Text(s, Src), FALSE) PROVE HistoryInv'
  <2> DEFINE text == Text(s, Src)
  <2>1. Commit(s, Src, text, FALSE) /\ s \in Docs /\ text \in Texts /\ text.lang = Src
    BY <1>2, <1>4, <1>5, <1>11
  <2> HIDE DEF text
  <2> QED BY <1>4, <2>1, CommitHistory
<1> QED BY <1>6, <1>7, <1>8, <1>9, <1>10, <1>11, DeleteHistory DEF Author, ToggleDraft, ToggleRedirect

LEMMA SilentHolds ==
  ASSUME TypeInv, ConfigInv, HistoryInv
  PROVE  SilentPageIsFresh
<1> DEFINE m == Bundle
<1> SUFFICES ASSUME Live, NEW s \in Shown(m), NEW l \in Langs \ {Src},
                    Notice(Answer(m, Href(l, s)).payload, l) = "current",
                    NEW d \in {s} \cup Uses[s]
             PROVE  UpToDate(d, l) \/ Disguised(d, l)
  BY Zenon DEF SilentPageIsFresh
<1> DEFINE a == Answer(m, Href(l, s))
           served == ServedLocale(m.pages[s], l)
<1>1. s \in Sourced /\ s \in Slugs /\ s \in Docs /\ Has(s, Src) /\ l \in Readers
  BY LivePages, SourcedIs, SlugsAreDocs, ReaderNames
<1>2. a.payload.locale = served /\ a.payload.state = Effective(s, served)
  BY <1>1, PayloadIs
<1>3. served = (IF l \in LangsOf(s) /\ Own(s, l) # "scaffolded" THEN l ELSE Src)
  BY <1>1, ServedIs
<1>4. Notice(a.payload, l) = "current"
  OBVIOUS
<1> HIDE DEF a, served
<1>5. served = l /\ Effective(s, l) \notin {"scaffolded", "missing", "stale"}
  BY <1>2, <1>4 DEF Notice
<1>6. Has(s, l) /\ l \in Langs
  BY <1>3, <1>5 DEF LangsOf
<1>7. Effective(s, l) \in {"source", "current"}
  BY <1>1, <1>5, <1>6, EffectiveIs DEF States
<1>8. /\ Own(s, l) \in {"source", "current"}
      /\ \A u \in Included(s, l) : SnippetState(u, l) \in {"source", "current"}
  BY <1>1, <1>6, <1>7, EffectiveIs
<1>9. Uses[s] = Included(s, l) /\ Uses[s] = Included(s, Src)
  BY <1>1, <1>6, SlugsAreDocs DEF Live, Publishable, SnippetsResolve
<1>10. ASSUME NEW e \in Docs, Has(e, l), Has(e, Src), ~Older(e, l), Text(e, l).lang = l
       PROVE  UpToDate(e, l)
  <2>1. Text(e, l).of = Text(e, Src).of
    BY <1>10 DEF HistoryInv
  <2>2. Text(e, l) \in Texts
    BY <1>6, <1>10, FileType
  <2>3. Text(e, l) = [lang |-> l, of |-> Text(e, Src).of]
    BY <1>10, <2>1, <2>2 DEF Texts
  <2> QED BY <1>10, <2>3 DEF UpToDate
<1>11. CASE d = s
  <2>1. ~IsSourceText(s, l) /\ ~Older(s, l)
    BY <1>1, <1>6, <1>8, OwnIs
  <2>2. CASE Text(s, l).lang = l
    BY <1>1, <1>6, <1>10, <1>11, <2>1, <2>2
  <2>3. CASE Text(s, l).lang # l
    BY <1>1, <1>6, <1>11, <2>1, <2>3 DEF Disguised
  <2> QED BY <2>2, <2>3
<1>12. CASE d \in Uses[s]
  <2>1. d \in Snippets /\ d \in Docs /\ d \notin Slugs /\ Has(d, l) /\ Has(d, Src)
    BY <1>1, <1>9, <1>12, CorpusAssumption, SlugsAreDocs DEF Included
  <2>2. SnippetState(d, l) \in {"source", "current"}
    BY <1>8, <1>9, <1>12
  <2>3. ~IsSourceBody(d, l) /\ ~Older(d, l)
    BY <1>6, <2>1, <2>2, SnippetStateIs
  <2>4. CASE Text(d, l).lang = l
    BY <1>10, <2>1, <2>3, <2>4
  <2>5. CASE Text(d, l).lang # l
    BY <2>1, <2>3, <2>5 DEF Disguised
  <2> QED BY <2>4, <2>5
<1> QED BY <1>11, <1>12
-----------------------------------------------------------------------------
(* What is proved.                                                         *)

ServeInv == TypeInv /\ ConfigInv /\ HistoryInv

LEMMA ServeStart == ServeInit => ServeInv
  BY TypeInit, HistoryInit, TablesAre DEF ServeInit, ServeInv, ConfigInv

LEMMA ServeStep == ServeInv /\ [Next]_vars => ServeInv'
<1> SUFFICES ASSUME ServeInv, [Next]_vars PROVE ServeInv'
  OBVIOUS
<1>1. CASE Author /\ UNCHANGED config
  BY <1>1, TypeStep, HistoryStep DEF ServeInv, ConfigInv, LeadToPages
<1>2. ASSUME UNCHANGED repo PROVE TypeInv' /\ HistoryInv'
  BY <1>2 DEF repo, ServeInv, TypeInv, HistoryInv, Has, Text, Older
<1>3. CASE Sync
  <2>1. config' = Tables /\ UNCHANGED repo
    BY <1>3 DEF Sync
  <2>2. ConfigInv'
    BY <2>1, TablesAre DEF ConfigInv, LeadToPages
  <2> QED BY <1>2, <2>1, <2>2 DEF ServeInv
<1>4. CASE UNCHANGED vars
  BY <1>2, <1>4 DEF vars, repo, ServeInv, ConfigInv, LeadToPages
<1> QED BY <1>1, <1>3, <1>4 DEF Next

LEMMA ServeInvariant == Spec => []ServeInv
  BY ServeStart, ServeStep, PTL DEF Spec

\* The trees, the drafts, the redirects and the dates stay in their types, and
\* the config's redirects lead from no page to a page of it.
THEOREM TypeCorrect == Spec => [](TypeInv /\ ConfigInv)
<1>1. ServeInv => TypeInv /\ ConfigInv
  BY DEF ServeInv
<1> QED BY <1>1, ServeInvariant, PTL

\* The manifest of every tree an author can reach passes the rules it is
\* checked against: buildBundle never makes a bundle that cannot be served.
THEOREM ShapeAlways == Spec => []BundleHasShape
<1>1. ServeInv => BundleHasShape
  BY ShapeHolds DEF ServeInv
<1> QED BY <1>1, ServeInvariant, PTL

\* No link of a live site, its sidebar, llms.txt or search is dead or moved.
THEOREM LinksAnswerAlways == Spec => []EveryLinkAnswers
<1>1. ServeInv => EveryLinkAnswers
  BY LinksAnswer DEF ServeInv
<1> QED BY <1>1, ServeInvariant, PTL

\* The manifest's alternates and the page's noindex are one decision.
THEOREM AlternatesAlways == Spec => []AlternatesMatchNoindex
<1>1. ServeInv => AlternatesMatchNoindex
  BY AlternatesHold DEF ServeInv
<1> QED BY <1>1, ServeInvariant, PTL

\* A search row says what its page says of its language and freshness.
THEOREM SearchAlways == Spec => []SearchMatchesPage
<1>1. ServeInv => SearchMatchesPage
  BY SearchHolds DEF ServeInv
<1> QED BY <1>1, ServeInvariant, PTL

\* Every spelling of every address is answered after one redirect at most.
THEOREM OneHopAlways == Spec => []OneHop
<1>1. ServeInv => OneHop
  BY OneHopHolds DEF ServeInv
<1> QED BY <1>1, ServeInvariant, PTL

\* A page without a notice is a translation of the latest source, with every
\* snippet in it, unless a stub or a copy passes for one.
THEOREM SilentAlways == Spec => []SilentPageIsFresh
<1>1. ServeInv => SilentPageIsFresh
  BY SilentHolds DEF ServeInv
<1> QED BY <1>1, ServeInvariant, PTL
=============================================================================
