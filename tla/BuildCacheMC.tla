----------------------------- MODULE BuildCacheMC -----------------------------
(* Builders sharing a download directory, and others alone in their OUT_DIR. *)
EXTENDS BuildCache

CONSTANTS
  b1, b2, b3,  \* builders
  tag1, tag2,  \* the same prebuilt of two releases
  mnn,         \* MNN's source
  shared       \* the file of tag1 in the shared download directory

\* b1 and b2 need the same prebuilt, kept in the shared directory; b3 needs
\* MNN's source, always kept in its OUT_DIR.
SharedWants == [b \in Builders |-> IF b = b3 THEN {mnn} ELSE {tag1}]
SharedFiles ==
  [b \in Builders |-> [a \in Artifacts |-> IF a \in Sources THEN mnn ELSE shared]]

\* One builder, whose MNN_PREBUILT_TAG may change from build to build.
AnyWants == [b \in Builders |-> Artifacts]
OwnFiles == [b \in Builders |-> [a \in Artifacts |-> a]]
=============================================================================
