--------------------------- MODULE MCReleaseCache ---------------------------
(* File sizes for the release cache: a binary outweighs the metadata.       *)
EXTENDS ReleaseCache

SizesDef == [k \in Kinds |-> IF k = "binary" THEN 3 ELSE 1]

\* What an earlier process may have left behind, more than fits.
FoundDef == Versions \X {"binary"}
=============================================================================
