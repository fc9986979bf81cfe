----------------------------- MODULE MCPrefetch -----------------------------
\* Three commits: c1 with a page and an asset, c2 with the page alone, and c3,
\* which no site should come to serve.
EXTENDS Prefetch, TLC

CONSTANTS c1, c2, c3, page, asset, l1, l2, p1, p2

MCObjects == c1 :> {page, asset} @@ c2 :> {page} @@ c3 :> {page}

V(c) == [commit |-> c, pin |-> NoPin]
Pinned(c, digest) == [commit |-> c, pin |-> digest]

\* A relabel, a second version, a retired version, a wrong pin, a flawed bundle
\* and a page list nobody synced.
MCTables == {l1 :> V(c1), l1 :> Pinned(c2, c2) @@ l2 :> V(c1), l1 :> Pinned(c2, c1),
             l1 :> V(c3), l2 :> V(c2)}
MCSkewed == {l2 :> V(c2)}
OneSite == [p \in Procs |-> "site"]
Decode == c1 :> "none" @@ c2 :> "none" @@ c3 :> "decode"

\* Two sites of one machine, each with one version of the same commit.
OwnSite == [p \in Procs |-> p]
OneTable == {l1 :> V(c1)}
Sound == c1 :> "none"
PageOnly == c1 :> {page}
=============================================================================
