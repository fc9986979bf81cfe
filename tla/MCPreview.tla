----------------------------- MODULE MCPreview -----------------------------
\* Two marks, so that one preview can close the other, on two pages, so that a
\* component is reused and a revealed node comes back.
EXTENDS Preview
=============================================================================
