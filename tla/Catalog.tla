------------------------------- MODULE Catalog -------------------------------
(***************************************************************************)
(* SupervisedGenerationCatalog of crates/oxiroute-supervision/src/          *)
(* catalog.rs: the launch documents of a supervised service by role, and    *)
(* the allocator of generation ids.  Operators are functions of a catalog   *)
(*                                                                          *)
(*   doc        the document of each role, NoDocument for None              *)
(*   next       next_generation; MaxGeneration + 1 is None                  *)
(*   high       generation_high_watermark                                   *)
(*   consumed   consumed_generation_high_watermark                          *)
(*                                                                          *)
(* and give [cat, ok], the catalog left behind and whether Ok was returned. *)
(***************************************************************************)
EXTENDS Naturals

CONSTANTS
    DocumentIds,    \* instance ids of launch documents
    Revisions,      \* effective revisions
    NoDocumentId,   \* the id of an empty role
    NoRevision,     \* the revision of an empty role
    MaxGeneration   \* the largest generation id, u64::MAX in the code

ASSUME CatalogAssumption ==
    /\ NoDocumentId \notin DocumentIds /\ NoRevision \notin Revisions
    /\ MaxGeneration \in Nat

GenerationIds == 0..MaxGeneration

CatalogRoles == {"Active", "Candidate", "Previous", "Quarantined", "RestartRequired"}

Document(i, g, r) == [instance_id |-> i, generation_id |-> g, revision |-> r]

NoDocument == Document(NoDocumentId, 0, NoRevision)

Retained(cat) == {role \in CatalogRoles : cat.doc[role] # NoDocument}

NewCatalog(active) ==
    [doc |-> [role \in CatalogRoles |-> IF role = "Active" THEN active ELSE NoDocument],
     next |-> active.generation_id + 1,
     high |-> active.generation_id,
     consumed |-> active.generation_id]

Done(cat) == [cat |-> cat, ok |-> TRUE]

Refused(cat) == [cat |-> cat, ok |-> FALSE]

\* allocate_generation: the generation reserved is cat.next.
AllocateGeneration(cat) ==
    IF cat.next > MaxGeneration THEN Refused(cat)
    ELSE Done([cat EXCEPT !.next = @ + 1, !.high = cat.next])

ContainsInstanceId(cat, i) ==
    \E role \in Retained(cat) : cat.doc[role].instance_id = i

\* Mutant (ConsumedOnce): documents that were released are forgotten.
ValidatesRetainedOnly(cat, g) ==
    \A role \in Retained(cat) : g > cat.doc[role].generation_id

\* validate_generation: newer than every retained document and than every
\* generation consumed so far.
ValidGeneration(cat, g) ==
    /\ \A role \in Retained(cat) : g > cat.doc[role].generation_id
    /\ g > cat.consumed

\* Mutant (GenerationsNeverRepeat): the allocator stays behind.
ConsumesWithoutAdvance(cat, g) ==
    [cat EXCEPT !.consumed = g, !.high = IF g > @ THEN g ELSE @]

\* consume_generation and advance_generation_allocator
Consume(cat, g) ==
    [cat EXCEPT !.consumed = g,
                !.high = IF g > @ THEN g ELSE @,
                !.next = IF g >= @ THEN g + 1 ELSE @]

BeginCandidate(cat, document) ==
    IF \/ cat.doc["Candidate"] # NoDocument
       \/ ContainsInstanceId(cat, document.instance_id)
       \/ ~ValidGeneration(cat, document.generation_id)
    THEN Refused(cat)
    ELSE Done([Consume(cat, document.generation_id) EXCEPT !.doc["Candidate"] = document])

\* commit_candidate: the former active document becomes previous.
CommitCatalogCandidate(cat) ==
    IF cat.doc["Candidate"] = NoDocument THEN Refused(cat)
    ELSE Done([cat EXCEPT !.doc["Active"] = cat.doc["Candidate"],
                          !.doc["Previous"] = cat.doc["Active"],
                          !.doc["Candidate"] = NoDocument])

QuarantineCandidate(cat) ==
    IF cat.doc["Candidate"] = NoDocument THEN Refused(cat)
    ELSE Done([cat EXCEPT !.doc["Quarantined"] = cat.doc["Candidate"],
                          !.doc["Candidate"] = NoDocument])

RecordRestartRequired(cat, document) ==
    IF \/ ContainsInstanceId(cat, document.instance_id)
       \/ ~ValidGeneration(cat, document.generation_id)
    THEN Refused(cat)
    ELSE Done([Consume(cat, document.generation_id) EXCEPT !.doc["RestartRequired"] = document])

\* take_previous, take_quarantined and take_restart_required.
Take(cat, role) == Done([cat EXCEPT !.doc[role] = NoDocument])
=============================================================================
