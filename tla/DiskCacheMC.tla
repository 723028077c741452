---------------------------- MODULE DiskCacheMC ----------------------------
(***************************************************************************)
(* Instances of DiskCache for TLC.                                          *)
(***************************************************************************)
EXTENDS DiskCache

\* Two variants of one request on the same headers, a third on others, and
\* another request.
MCKeys == {"x1", "x2", "x3", "y"}
MCBases == {"x", "y"}
MCBaseOf == [k \in Keys |-> IF k = "y" THEN "y" ELSE "x"]
MCSchemaOf == [k \in Keys |-> IF k = "x3" THEN "other" ELSE "same"]
MCTagged == {"x2", "y"}
============================================================================
