---------------------------- MODULE SupervisionMC ----------------------------
(***************************************************************************)
(* The three data structures of crates/oxiroute-supervision for TLC.  They  *)
(* share no state, so a behaviour exercises one of them and leaves the      *)
(* others as they were made: what is explored is the sum of their state     *)
(* spaces and not the product.                                              *)
(***************************************************************************)
EXTENDS ReplacementSupervisor, GenerationCatalog, CorrelationTable, TLC

CONSTANTS a, b, c, None,        \* identities of the replacement supervisor
          i, j, k, NoId, r, NoRev   \* identities and a revision of the catalog

VARIABLE used   \* the structure that this behaviour exercises

MCInstanceIds == {a, b, c}
MCGenerations == 1..4

MCDocumentIds == {i, j, k}
MCRevisions == {r}
\* The catalog only compares its ids for equality.
MCSymmetry == Permutations(MCDocumentIds)

\* An unused structure has been made in one way, up to the symmetry.
SupervisionInit ==
    /\ Init /\ CatalogInit /\ TableInit
    /\ used \in {"supervisor", "catalog", "table"}
    /\ used # "supervisor" => sup = NewSupervisor(a, 1)
    /\ used # "catalog" => cat.doc["Active"].generation_id = 1

SupervisionNext ==
    \/ used = "supervisor" /\ Next /\ UNCHANGED <<catalogVars, tableVars, used>>
    \/ used = "catalog" /\ CatalogNext /\ UNCHANGED <<vars, tableVars, used>>
    \/ used = "table" /\ TableNext /\ UNCHANGED <<vars, catalogVars, used>>

SupervisionSpec ==
    SupervisionInit /\ [][SupervisionNext]_<<vars, catalogVars, tableVars, used>>
=============================================================================
