-------------------------------- MODULE Serve --------------------------------
(***************************************************************************)
(* A site that serves the bundle of Corpus (src/site: serve, route,        *)
(* notice, machine).  Its config lists the pages and redirects of the      *)
(* bundle it was last synced to; `hexdocs prefetch` lets a build through   *)
(* when the config's pages are the bundle's, redirects or not.  Everything *)
(* a request gets is a function of the config and the bundle: the page,    *)
(* its notice and noindex, the sitemap and the search rows.                *)
(*                                                                         *)
(* One mount and its default version.  An address is a language segment, a *)
(* slug and whether the rest has its canonical spelling.                   *)
(***************************************************************************)
EXTENDS Corpus

CONSTANTS Readers,  \* LOCALES of the contract: every language a site may ask in
          Odd,      \* a first segment that folds to a language and is not its spelling
          Unknown   \* a path under the mount that nothing was ever published at

ASSUME ServeAssumption ==
  /\ Langs \subseteq Readers /\ Odd \notin Readers /\ Unknown \notin Slugs
  /\ None \notin Readers \cup ToSet(StateOrder) /\ None # Odd

VARIABLE config  \* `pages` and `redirects` of <project>.docs.json

vars == <<file, draft, from, now, config>>

Tables == [pages |-> DOMAIN Bundle.pages, redirects |-> Bundle.redirects]

\* `hexdocs sync` against the bundle of the head.
Sync ==
  /\ Publishable
  /\ config # Tables
  /\ config' = Tables
  /\ UNCHANGED repo

ServeInit == Init /\ config = Tables
Next == (Author /\ UNCHANGED config) \/ Sync
Spec == ServeInit /\ [][Next]_vars

\* Mutant of PageSkew: the bundle may have lost a page the config lists.
SkewInBundleOnly(m) == DOMAIN m.pages \ config.pages

\* pageSkew: slugs of the one that are not in the other.
PageSkew(m) == (DOMAIN m.pages \ config.pages) \cup (config.pages \ DOMAIN m.pages)

\* A build of the site with the bundle of the head goes through.
Live == Publishable /\ PageSkew(Bundle) = {}
-----------------------------------------------------------------------------
\* validateManifestShape, which checkBundle runs again before it serves.
ShapeOk(m) ==
  /\ Src \in Langs /\ DOMAIN m.search = Langs
  /\ \A s \in DOMAIN m.pages :
       /\ DOMAIN m.pages[s] \subseteq Langs
       /\ \A l \in DOMAIN m.pages[s] :
            m.pages[s][l].state \notin {"missing", m.pages[s][l].effective}
  /\ \A old \in DOMAIN m.redirects :
       old \notin DOMAIN m.pages /\ m.redirects[old] \in DOMAIN m.pages
  /\ m.nav \cup m.llmsOrder \subseteq DOMAIN m.pages

\* The language a page is served in: by its own state, and never a scaffolded file.
ServedLocale(record, l) ==
  IF l \in DOMAIN record /\ record[l].state # "scaffolded" THEN l ELSE Src

\* translationNotice: the payload against the reader, then its effective state.
Notice(payload, l) ==
  CASE payload.locale # l \/ payload.state \in {"scaffolded", "missing"} -> "fallback"
    [] payload.locale = l /\ payload.state = "stale" -> "stale"
    [] OTHER -> "current"

Indexable(payload, l) == Notice(payload, l) # "fallback"

\* Mutant of IndexableLanguages: the page's own state.
LanguagesByOwnState(record) ==
  {l \in Readers \cap DOMAIN record : record[l].state \notin {"scaffolded", "missing"}}

\* The alternates of a page and its sitemap rows, from the manifest alone.
IndexableLanguages(record) ==
  {l \in Readers \cap DOMAIN record :
     LET state == IF record[l].effective = None THEN record[l].state ELSE record[l].effective
     IN state \notin {"scaffolded", "missing"}}

\* The pages of the site: what the config lists and the bundle has.
Shown(m) == config.pages \cap DOMAIN m.pages

Sitemap(m) == [s \in Shown(m) |-> IndexableLanguages(m.pages[s])]

\* searchLocale: the reader's index where the bundle has one.
SearchLocale(m, l) == IF l \in DOMAIN m.search THEN l ELSE Src
-----------------------------------------------------------------------------
\* An address.  `seg` is the language segment, `exact` its canonical casing, `tidy` the
\* canonical spelling of the rest.
Url(seg, exact, slug, tidy) == [seg |-> seg, exact |-> exact, slug |-> slug, tidy |-> tidy]
Urls == {u \in [seg : Readers \cup {None, Odd}, exact : BOOLEAN,
                slug : Slugs \cup {Unknown}, tidy : BOOLEAN] :
           u.seg \in {None, Odd} => u.exact}

\* docsHref: no prefix for the source language.
Href(l, slug) == Url(IF l = Src THEN None ELSE l, TRUE, slug, TRUE)

Missing == [kind |-> "missing"]
Moved(url) == [kind |-> "moved", to |-> url]

\* locate: the language an address names and whether the table has the rest, or the
\* redirect that corrects the language alone.
Routed(slug) == slug \in config.pages \cup DOMAIN config.redirects
Locate(url) ==
  CASE url.seg = None -> IF Routed(url.slug) THEN [kind |-> "found", locale |-> Src] ELSE Missing
    [] url.seg = Odd -> Missing
    [] url.seg \in Readers ->
         IF Routed(url.slug) THEN [kind |-> "found", locale |-> url.seg]
         ELSE IF url.seg = Src THEN Moved([url EXCEPT !.seg = None, !.exact = TRUE])
         ELSE IF ~url.exact THEN Moved([url EXCEPT !.exact = TRUE])
         ELSE Missing

\* docsRoute: the manifest's redirects, then a record the config lists too.
Route(m, l, slug) ==
  IF slug \in DOMAIN m.redirects THEN Moved(Href(l, m.redirects[slug]))
  ELSE IF slug \notin DOMAIN m.pages \cap config.pages THEN Missing
  ELSE LET served == ServedLocale(m.pages[slug], l)
       IN IF served \notin DOMAIN m.pages[slug] THEN Missing
          ELSE [kind |-> "page", slug |-> slug, locale |-> l,
                payload |-> m.payloads[slug][served]]

\* page(url).  In buildTables a slug that is both is the page.
Answer(m, url) ==
  LET at == Locate(url) IN
  IF at.kind # "found" THEN at
  ELSE IF url.slug \in DOMAIN config.redirects /\ url.slug \notin config.pages
       THEN Moved(Href(at.locale, config.redirects[url.slug]))
  ELSE IF url # Href(at.locale, url.slug) THEN Moved(Href(at.locale, url.slug))
  ELSE Route(m, at.locale, url.slug)
-----------------------------------------------------------------------------
\* Whatever state the tree is in, drafts, collisions and orphaned translations
\* included, the manifest buildBundle makes of it passes its own invariants
\* ("which must be empty", build.ts).
BundleHasShape == ShapeOk(Bundle)

\* Nothing a reader of a live site can click is a 404 or one more redirect: the sidebar,
\* the pager, llms.txt, the search rows and the links of every page served.
EveryLinkAnswers ==
  Live =>
    LET m == Bundle IN
    \A l \in Readers :
      LET linked == UNION {m.payloads[s][ServedLocale(m.pages[s], l)].links : s \in Shown(m)}
      IN \A t \in linked \cup m.nav \cup m.llmsOrder
                        \cup DOMAIN m.search[SearchLocale(m, l)] :
           Answer(m, Href(l, t)).kind = "page"

\* A language is in a page's alternates and in its sitemap row exactly when the page
\* at that address is not marked noindex: two decisions, one from the manifest and one
\* from the payload.
AlternatesMatchNoindex ==
  Live =>
    LET m == Bundle IN
    \A s \in Shown(m), l \in Readers :
      LET a == Answer(m, Href(l, s))
      IN a.kind = "page" /\ (Indexable(a.payload, l) <=> l \in Sitemap(m)[s])

\* A search row holds the words its address serves, and its mark agrees with the
\* notice the reader lands on.
SearchMatchesPage ==
  Live =>
    LET m == Bundle IN
    \A s \in Shown(m), l \in Readers :
      LET row == m.search[SearchLocale(m, l)][s]
          a == Answer(m, Href(l, s))
          mark == IF row.translated = "missing" THEN "fallback" ELSE row.translated
      IN /\ row.page = a.payload.locale
         /\ l \in Langs => mark = Notice(a.payload, l)

\* Any spelling of any address is answered after one redirect at most ("redirects it
\* in one hop", serve.ts), in the language it names, and what was ever published and
\* is still routed ends at a page.
OneHop ==
  Live =>
    LET m == Bundle IN
    \A url \in Urls :
      LET first == Answer(m, url)
          last == IF first.kind = "moved" THEN Answer(m, first.to) ELSE first
      IN /\ last.kind # "moved"
         /\ Routed(url.slug) /\ url.seg # Odd => last.kind = "page"
         /\ last.kind = "page" => last.locale = IF url.seg = None THEN Src ELSE url.seg

\* What a file says is in its own language and of the current source.
UpToDate(d, l) == Has(d, l) /\ Text(d, l) = [lang |-> l, of |-> Text(d, Src).of]

\* A stub or a copy whose flag somebody took out and whose text is not the source's
\* word for word: neither signal of stateOf sees it.
Disguised(d, l) ==
  /\ Has(d, l) /\ Text(d, l).lang # l
  /\ ~IF d \in Slugs THEN IsSourceText(d, l) ELSE IsSourceBody(d, l)

\* A page served with no notice is a translation of the latest source, and so is
\* every snippet in it.
SilentPageIsFresh ==
  Live =>
    LET m == Bundle IN
    \A s \in Shown(m), l \in Langs \ {Src} :
      Notice(Answer(m, Href(l, s)).payload, l) = "current" =>
        \A d \in {s} \cup Uses[s] : UpToDate(d, l) \/ Disguised(d, l)
=============================================================================
