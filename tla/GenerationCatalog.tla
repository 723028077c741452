-------------------------- MODULE GenerationCatalog --------------------------
(***************************************************************************)
(* The generation catalog as a state machine: any caller may apply any      *)
(* operation, with any document, in any order.  The history variables       *)
(* remember which generations have left the allocator and which have been   *)
(* accepted in a document.                                                  *)
(***************************************************************************)
EXTENDS Catalog

VARIABLES
    cat,        \* the catalog
    ok,         \* whether the last operation returned Ok
    reserved,   \* generations returned by allocate_generation, or active at first
    accepted    \* generations of documents accepted, or active at first

catalogVars == <<cat, ok, reserved, accepted>>

Documents == [instance_id : DocumentIds, generation_id : GenerationIds, revision : Revisions]

CatalogReturns(r) == cat' = r.cat /\ ok' = r.ok

\* The generation of the document, if it was accepted.
Accepts(r, g) ==
    /\ accepted' = IF r.ok THEN accepted \cup {g} ELSE accepted
    /\ UNCHANGED reserved

CatalogInit ==
    \E document \in Documents :
        /\ cat = NewCatalog(document) /\ ok = TRUE
        /\ reserved = {document.generation_id} /\ accepted = {document.generation_id}

Allocate ==
    /\ CatalogReturns(AllocateGeneration(cat))
    /\ reserved' = IF AllocateGeneration(cat).ok THEN reserved \cup {cat.next} ELSE reserved
    /\ UNCHANGED accepted

BeginDocument(d) ==
    /\ CatalogReturns(BeginCandidate(cat, d))
    /\ Accepts(BeginCandidate(cat, d), d.generation_id)

RecordDocument(d) ==
    /\ CatalogReturns(RecordRestartRequired(cat, d))
    /\ Accepts(RecordRestartRequired(cat, d), d.generation_id)

Commit == CatalogReturns(CommitCatalogCandidate(cat)) /\ UNCHANGED <<reserved, accepted>>

Quarantine == CatalogReturns(QuarantineCandidate(cat)) /\ UNCHANGED <<reserved, accepted>>

TakeRole(role) == CatalogReturns(Take(cat, role)) /\ UNCHANGED <<reserved, accepted>>

CatalogNext ==
    \/ Allocate \/ Commit \/ Quarantine
    \/ \E d \in Documents : BeginDocument(d) \/ RecordDocument(d)
    \/ \E role \in {"Previous", "Quarantined", "RestartRequired"} : TakeRole(role)

CatalogSpec == CatalogInit /\ [][CatalogNext]_catalogVars

-----------------------------------------------------------------------------
(* Properties *)

Catalogs ==
    [doc : [CatalogRoles -> Documents \cup {NoDocument}],
     next : 0..(MaxGeneration + 1), high : GenerationIds, consumed : GenerationIds]

\* The catalog holds documents by role, the active role always one.
CatalogTypeOK ==
    /\ cat \in Catalogs /\ cat.doc["Active"] # NoDocument
    /\ ok \in BOOLEAN
    /\ reserved \subseteq GenerationIds /\ accepted \subseteq GenerationIds

\* The two watermarks and the allocator agree: the allocator stands just past
\* the high watermark (also when it is exhausted), which covers everything
\* consumed, which covers every document retained.  The check of
\* validate_generation against retained documents adds nothing to the one
\* against the consumed watermark because of this.
WatermarksOrdered ==
    /\ cat.next = cat.high + 1
    /\ cat.consumed <= cat.high
    /\ \A role \in Retained(cat) : cat.doc[role].generation_id <= cat.consumed

\* No two roles hold documents of the same instance or the same generation, so
\* an instance named by a master event names one document.
RolesDistinct ==
    \A r, q \in Retained(cat) :
        r # q => /\ cat.doc[r].instance_id # cat.doc[q].instance_id
                 /\ cat.doc[r].generation_id # cat.doc[q].generation_id

Held(k, d) == \E role \in CatalogRoles : k.doc[role] = d

\* A generation is accepted in at most one document for the life of the
\* catalog, also after every trace of the earlier document has been taken out
\* or displaced.
NewDocumentsAreFresh ==
    \A d \in Documents :
        Held(cat', d) /\ ~Held(cat, d) => d.generation_id \notin accepted

ConsumedOnce == [][NewDocumentsAreFresh]_catalogVars

\* The allocator never returns a generation that it returned before or that a
\* document has used, whatever generations callers make up themselves.
GenerationsNeverRepeat ==
    [][Allocate /\ ok' => cat.next \notin reserved \cup accepted]_catalogVars

\* An operation that returns an error leaves the catalog as it was.
RefusalChangesNothing == [][ok' \/ cat' = cat]_catalogVars

\* What a step may do to the documents: the candidate is never overwritten and
\* leaves only for the active or the quarantined role, and the active document
\* is replaced only by the candidate and is then the previous one.
DocumentsReleased ==
    /\ cat.doc["Candidate"] # NoDocument /\ cat'.doc["Candidate"] # cat.doc["Candidate"] =>
          /\ cat'.doc["Candidate"] = NoDocument
          /\ cat.doc["Candidate"] \in {cat'.doc["Active"], cat'.doc["Quarantined"]}
    /\ cat'.doc["Active"] # cat.doc["Active"] =>
          /\ cat'.doc["Active"] = cat.doc["Candidate"]
          /\ cat'.doc["Previous"] = cat.doc["Active"]

DocumentsReleasedByRole == [][DocumentsReleased]_catalogVars
=============================================================================
