---------------------------- MODULE MCSiteConfig ----------------------------
\* c1 renamed `old` to `guide` and redirects it; c2 forgot the redirect and has a page
\* more; c3 moved `guide` to `guide/index` and redirects the old slug, which is the same
\* address, and its manifest declares another commit; c4 declares another project.
\* Two labels differ in case alone.
EXTENDS SiteConfig, TLC

CONSTANTS c1, c2, c3, c4, home, guide, index, old, extra, v1, V1, v2

MCAddress == home :> home @@ guide :> guide @@ index :> guide @@ old :> old @@ extra :> extra
MCPages == c1 :> {home, guide} @@ c2 :> {home, guide, extra} @@ c3 :> {home, index}
        @@ c4 :> {home}
MCHidden == c1 :> {} @@ c2 :> {guide} @@ c3 :> {} @@ c4 :> {}
Nothing == [s \in {} |-> s]
MCRedirects == c1 :> (old :> guide) @@ c2 :> Nothing @@ c3 :> (guide :> home) @@ c4 :> Nothing
MCFold == v1 :> v1 @@ V1 :> v1 @@ v2 :> v2
=============================================================================
