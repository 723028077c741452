--------------------------- MODULE GenerationsMC ---------------------------
(***************************************************************************)
(* Instances of Generations for TLC.                                        *)
(***************************************************************************)
EXTENDS Generations

\* A revision "c" moves a listener: only a restart can take it up.
MCRestart == {"a", "b"} \X {"c"}
============================================================================
