----------------------------- MODULE MCPublish -----------------------------
\* Two publishers over three bundles of one commit: m1 is the content, m2 the
\* same content with one object more, m3 the content with another digest.
EXTENDS Publish, TLC

CONSTANTS p1, p2, a, b, d1, d2, m1, m2, m3

MCObjects == (m1 :> (a :> d1)) @@ (m2 :> (a :> d1 @@ b :> d1)) @@ (m3 :> (a :> d2))

\* S3 lists in key order, so the manifest is on the page after `a`.
MCPage == a :> 1 @@ MK :> 2 @@ b :> 2

\* Publishers differ in nothing but their name.  Used where no liveness is checked.
Symmetric == Permutations(Publishers)
=============================================================================
