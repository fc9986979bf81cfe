---------------------------- MODULE BundleStore ----------------------------
(***************************************************************************)
(* What a commit-addressed prefix promises its readers, and nothing else:  *)
(* it holds no bundle, or it holds one whole bundle, and it goes from the  *)
(* first to the second once.  kit/src/commands/publish.ts opens with the   *)
(* sentence: "a compiled bundle directory into a bucket, once, or not at   *)
(* all".                                                                   *)
(***************************************************************************)
CONSTANTS Manifests,  \* the manifests any build of this commit can write
          Objects     \* Objects[m] : the objects m names, each with its digest

VARIABLE store        \* what a reader that starts at the manifest can fetch

\* No manifest is stored, so a reader finds no bundle.
NoBundle == <<"no", "bundle">>

\* A stored manifest together with the stored bytes of every object it names.
Bundle(m) == <<m, Objects[m]>>

Init == store = NoBundle

\* A whole bundle appears in one step.
Publish(m) == store = NoBundle /\ store' = Bundle(m)

Next == \E m \in Manifests : Publish(m)

Spec == Init /\ [][Next]_store
=============================================================================
