----------------------------- MODULE MCRelease -----------------------------
\* m1 is the content, m2 the same commit built by a kit that writes one object
\* more.  S3 lists in key order, so the manifest is on the page after `a`.
EXTENDS Release, TLC

CONSTANTS p1, p2, a, b, d1, d2, m1, m2, m3

MCObjects == (m1 :> (a :> d1)) @@ (m2 :> (a :> d1 @@ b :> d1)) @@ (m3 :> (a :> d2))

MCPage == a :> 1 @@ MK :> 2 @@ b :> 2
=============================================================================
