------------------------------- MODULE Corpus -------------------------------
(***************************************************************************)
(* The documentation of one app repository and the bundle `hexdocs build`  *)
(* compiles from a commit of it (kit/src/compile: project, git, links,     *)
(* build, search, lint).  Authors write, translate, scaffold, copy and     *)
(* delete pages and snippets, one commit each; a bundle is a function of   *)
(* the tree and of the committer date of each file.                        *)
(*                                                                         *)
(* A text is the language it is in and the source version it was made      *)
(* from.  Markdown, anchors, images, assets, the order and groups of the   *)
(* nav and hidden pages are left out, and so are two commits with one date.*)
(***************************************************************************)
EXTENDS Naturals, Sequences, FiniteSets, SequencesExt

CONSTANTS Walk,       \* the slugs, in the order the tree is walked
          Snippets,
          Langs,      \* i18n.locales
          Src,        \* SOURCE_LOCALE
          Uses,       \* Uses[s] : the snippets page s transcludes
          Links,      \* Links[s] : the slugs the prose of page s links to
          Nav,        \* the slugs nav.json names
          Trees,      \* the trees a history begins with: `file` and `from`
          Todo,       \* the language of a stub: TODO under each heading
          None,
          MaxCommits  \* bound: commits after the first

Slugs == ToSet(Walk)
Docs == Slugs \cup Snippets

ASSUME CorpusAssumption ==
  /\ Slugs \cap Snippets = {}
  /\ Src \in Langs /\ Todo \notin Langs
  /\ Uses \in [Slugs -> SUBSET Snippets]
  /\ Links \in [Slugs -> SUBSET Slugs]
  /\ Nav \subseteq Slugs
  /\ MaxCommits \in Nat

VARIABLES
  file,   \* file[d][l] : content/<l>/<d>.md or snippets/<l>/<d>.md, or None
  draft,  \* draft[s] : `draft: true` in the source file of s
  from,   \* from[s] : its `redirectFrom`
  now     \* the committer date of the head

repo == <<file, draft, from, now>>

Texts == [lang : Langs \cup {Todo}, of : 0..MaxCommits]
Files == [text : Texts, untranslated : BOOLEAN, at : 0..MaxCommits]

\* A history begins with a tree in which every file is what its name says.
ASSUME TreesAssumption ==
  /\ None \notin Files
  /\ \A tree \in Trees :
       /\ tree.from \in [Slugs -> SUBSET Slugs]
       /\ tree.file \in [Docs -> [Langs -> Files \cup {None}]]
       /\ \A d \in Docs, l \in Langs :
            tree.file[d][l] \in {None, [text |-> [lang |-> l, of |-> 0],
                                       untranslated |-> FALSE, at |-> 0]}

Has(d, l) == file[d][l] # None
Text(d, l) == file[d][l].text
-----------------------------------------------------------------------------
\* The head is some commit of a history that goes on.
Init ==
  /\ \E tree \in Trees : file = tree.file /\ from = tree.from
  /\ draft = [s \in Slugs |-> FALSE]
  /\ now = 0

\* A commit writes one file, and its date is the file's.
Commit(d, l, text, untranslated) ==
  /\ now < MaxCommits
  /\ now' = now + 1
  /\ file' = [file EXCEPT ![d][l] =
                [text |-> text, untranslated |-> untranslated, at |-> now + 1]]

\* The source is written or rewritten.
Write(d) ==
  /\ Commit(d, Src, [lang |-> Src, of |-> now + 1], FALSE)
  /\ UNCHANGED <<draft, from>>

\* `hexdocs scaffold page`: the source's headings with TODO under each and
\* `translated: false`, where there is no file yet.
Scaffold(s, l) ==
  /\ Has(s, Src) /\ ~Has(s, l)
  /\ Commit(s, l, [lang |-> Todo, of |-> Text(s, Src).of], TRUE)
  /\ UNCHANGED <<draft, from>>

\* The source is translated, or the translation is brought up to date.
Translate(d, l) ==
  /\ Has(d, Src) /\ l # Src
  /\ Commit(d, l, [lang |-> l, of |-> Text(d, Src).of], FALSE)
  /\ UNCHANGED <<draft, from>>

\* The source's text is copied under the translation's name, flagged or not.
Copy(d, l, untranslated) ==
  /\ Has(d, Src) /\ ~Has(d, l)
  /\ Commit(d, l, Text(d, Src), untranslated)
  /\ UNCHANGED <<draft, from>>

\* `translated: false` is taken out and nothing is translated.
Unflag(d, l) ==
  /\ Has(d, l) /\ file[d][l].untranslated
  /\ Commit(d, l, Text(d, l), FALSE)
  /\ UNCHANGED <<draft, from>>

\* The front matter of a source goes with its file.
Delete(d, l) ==
  /\ Has(d, l)
  /\ now < MaxCommits
  /\ now' = now + 1
  /\ file' = [file EXCEPT ![d][l] = None]
  /\ draft' = [s \in Slugs |-> draft[s] /\ <<s, Src>> # <<d, l>>]
  /\ from' = [s \in Slugs |-> IF <<s, Src>> = <<d, l>> THEN {} ELSE from[s]]

\* Front matter is in the source file, so an edit of it dates the file again.
ToggleDraft(s) ==
  /\ Has(s, Src)
  /\ Commit(s, Src, Text(s, Src), FALSE)
  /\ draft' = [draft EXCEPT ![s] = ~@]
  /\ UNCHANGED from

ToggleRedirect(s, old) ==
  /\ Has(s, Src)
  /\ Commit(s, Src, Text(s, Src), FALSE)
  /\ from' = [from EXCEPT ![s] = IF old \in @ THEN @ \ {old} ELSE @ \cup {old}]
  /\ UNCHANGED draft

Author ==
  \/ \E d \in Docs : Write(d)
  \/ \E d \in Docs, l \in Langs : Translate(d, l) \/ Unflag(d, l) \/ Delete(d, l)
  \/ \E d \in Docs, l \in Langs, u \in BOOLEAN : Copy(d, l, u)
  \/ \E s \in Slugs, l \in Langs : Scaffold(s, l)
  \/ \E s \in Slugs : ToggleDraft(s)
  \/ \E s, old \in Slugs : ToggleRedirect(s, old)
-----------------------------------------------------------------------------
\* What a link may point at.
Known == {s \in Slugs : \E l \in Langs : Has(s, l)}
Drafts == {s \in Slugs : Has(s, Src) /\ draft[s]}

\* The slugs that get a page record: no draft, and a file in the source language.
Sourced == {s \in Known \ Drafts : Has(s, Src)}

\* `redirects`, where the page walked last wins a source two pages declare.
Declaring(old) == {i \in DOMAIN Walk : Has(Walk[i], Src) /\ old \in from[Walk[i]]}
Redirects ==
  [old \in {o \in Slugs : Declaring(o) # {}} |->
     Walk[CHOOSE i \in Declaring(old) : \A j \in Declaring(old) : j <= i]]

\* Mutant of Target: an old slug resolves whatever became of the page.
TargetUnfiltered(slug) ==
  CASE slug \in Sourced -> slug
    [] slug \notin Sourced /\ slug \in DOMAIN Redirects -> Redirects[slug]
    [] OTHER -> None

\* createLinkResolver: a page of the bundle, or the page an old slug redirects to.
Target(slug) ==
  CASE slug \in Sourced -> slug
    [] slug \notin Sourced /\ slug \in DOMAIN Redirects /\ Redirects[slug] \in Sourced
         -> Redirects[slug]
    [] OTHER -> None

\* The links of a compiled page.  One that does not resolve is left as plain words,
\* and a stub has headings and includes, and no prose.
LinksOf(s, l) ==
  IF Text(s, l).lang = Todo THEN {} ELSE {Target(t) : t \in Links[s]} \ {None}
-----------------------------------------------------------------------------
\* The snippets in the page's own language: a missing one leaves nothing.
Included(s, l) == {u \in Uses[s] : Has(u, l)}

\* blockText of the body: the page's words and those of what it includes.
Flat(s, l) == <<Text(s, l), [u \in Included(s, l) |-> Text(u, l)]>>

IsSourceText(s, l) == Has(s, Src) /\ Flat(s, l) = Flat(s, Src)
IsSourceBody(u, l) == Has(u, Src) /\ Text(u, l) = Text(u, Src)

Older(d, l) == Has(d, Src) /\ file[d][l].at < file[d][Src].at

\* stateOf, of a page or a snippet that has a file in l.
StateOf(d, l, isSourceText) ==
  CASE l = Src -> "source"
    [] l # Src /\ (file[d][l].untranslated \/ isSourceText) -> "scaffolded"
    [] l # Src /\ ~file[d][l].untranslated /\ ~isSourceText ->
         IF Older(d, l) THEN "stale" ELSE "current"

Own(s, l) == StateOf(s, l, IsSourceText(s, l))
SnippetState(u, l) == StateOf(u, l, IsSourceBody(u, l))

StateOrder == <<"source", "current", "stale", "scaffolded", "missing">>
Worst(states) ==
  StateOrder[CHOOSE i \in DOMAIN StateOrder :
               /\ StateOrder[i] \in states
               /\ \A j \in DOMAIN StateOrder : StateOrder[j] \in states => j <= i]

\* Mutant of Effective: what is included does not count.
EffectiveOfPageAlone(s, l) == Own(s, l)

\* No fresher than the worst of itself and everything it includes.
Effective(s, l) == Worst({Own(s, l)} \cup {SnippetState(u, l) : u \in Included(s, l)})
-----------------------------------------------------------------------------
\* PageLocaleRecord: `effective` only where it differs.
LocaleRecord(s, l) ==
  [state |-> Own(s, l),
   effective |-> IF Effective(s, l) = Own(s, l) THEN None ELSE Effective(s, l)]

\* Mutant of Indexed: the index of a language holds that language's file.
IndexedFile(s, l) == IF Has(s, l) THEN l ELSE Src

\* The language a page is indexed in: a scaffolded file is indexed as the source.
Indexed(s, l) == IF Has(s, l) /\ Own(s, l) # "scaffolded" THEN l ELSE Src

\* indexedState, after `fallback` for a page that has no file of its own to index.
RowState(s, l) ==
  CASE Indexed(s, l) # l -> "missing"
    [] Indexed(s, l) = l /\ Effective(s, l) \in {"source", "current"} -> "current"
    [] Indexed(s, l) = l /\ Effective(s, l) = "stale" -> "stale"
    [] OTHER -> "missing"

\* Mutant of Kept: a source is not looked for among the pages.
KeptByTarget == {old \in DOMAIN Redirects : Redirects[old] \in Sourced}

\* The redirects a manifest carries: to a page of the bundle, from no page of it.
Kept == {old \in DOMAIN Redirects : Redirects[old] \in Sourced /\ old \notin Sourced}

\* buildBundle: the manifest, the payloads and the search indexes.
Bundle ==
  LET records == [s \in Sourced |-> [l \in {m \in Langs : Has(s, m)} |-> LocaleRecord(s, l)]]
      nav == Nav \cap Sourced
  IN [pages |-> records,
      nav |-> nav,
      llmsOrder |-> nav,
      redirects |-> [old \in Kept |-> Redirects[old]],
      search |-> [l \in Langs |->
                    [s \in Sourced |-> [page |-> Indexed(s, l), translated |-> RowState(s, l)]]],
      payloads |-> [s \in Sourced |-> [l \in {m \in Langs : Has(s, m)} |->
                      [locale |-> l, state |-> Effective(s, l), links |-> LinksOf(s, l)]]]]
-----------------------------------------------------------------------------
\* snippet-resolves: an include is looked up in the page's own language only.
SnippetsResolve == \A s \in Slugs, l \in Langs : Has(s, l) => Uses[s] = Included(s, l)

\* link-resolves, of the prose of every file, drafts too, and of nav.json.
LinksResolve ==
  /\ \A s \in Slugs, l \in Langs :
       Has(s, l) /\ Text(s, l).lang # Todo => \A t \in Links[s] : Target(t) # None
  /\ \A s \in Nav : Has(s, Src)

\* slug-reserved: a redirect source is no page in any language and is declared once.
RedirectsFree ==
  \A s \in Slugs : Has(s, Src) =>
    \A old \in from[s] : old \notin Known /\ Cardinality(Declaring(old)) = 1

\* No finding is an error.
Publishable == SnippetsResolve /\ LinksResolve /\ RedirectsFree
=============================================================================
