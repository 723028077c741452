------------------------------- MODULE Runner -------------------------------
(***************************************************************************)
(* The parts of MasterRunner (crates/oxiroute-server/src/supervised/        *)
(* master.rs) that are functions: how queued master events move documents   *)
(* in the generation catalog, and what reconciling the configuration file   *)
(* with the catalog does.  Generation g is launched as instance g, as       *)
(* replacement_worker_identity names it.                                    *)
(***************************************************************************)
EXTENDS Master, Catalog, Worker, SequencesExt

CONSTANTS
    ListenersOf,    \* the listener set each revision binds
    Refusable       \* revisions that load refuses or eligibility rejects

ASSUME RunnerAssumption ==
    /\ DocumentIds = InstanceIds /\ NoDocumentId = NoInstance
    /\ DOMAIN ListenersOf = Revisions
    /\ Refusable \subseteq Revisions

\* expect_catalog_instance
Expected(cat, role, i) == cat.doc[role] # NoDocument /\ cat.doc[role].instance_id = i

\* Mutants of ApplyCatalogEvent (CatalogMatchesMaster, Converges): a rollback, or a
\* spawn failure, leaves the candidate where it is.
Ignores(kind, r, event) ==
    LET cat == r.cat IN
    IF ~r.ok \/ event.kind = kind THEN r
    ELSE CASE event.kind \in {"SpawnFailed", "RollbackStarted"} ->
                 IF Expected(cat, "Candidate", event.id) THEN QuarantineCandidate(cat) ELSE Refused(cat)
           [] event.kind = "ReplacementCommitted" ->
                 IF Expected(cat, "Candidate", event.id) /\ Expected(cat, "Active", event.other)
                 THEN CommitCatalogCandidate(cat) ELSE Refused(cat)
           [] event.kind \in {"ReplacementCompleted", "RollbackCompleted"} ->
                 IF Expected(cat, "Active", event.id) THEN r ELSE Refused(cat)

IgnoresRollback(r, event) == Ignores("RollbackStarted", r, event)
IgnoresSpawnFailure(r, event) == Ignores("SpawnFailed", r, event)

\* One event of apply_catalog_events; an error ends the loop.
ApplyCatalogEvent(r, event) ==
    LET cat == r.cat IN
    IF ~r.ok THEN r
    ELSE CASE event.kind \in {"SpawnFailed", "RollbackStarted"} ->
                 IF Expected(cat, "Candidate", event.id) THEN QuarantineCandidate(cat) ELSE Refused(cat)
           [] event.kind = "ReplacementCommitted" ->
                 IF Expected(cat, "Candidate", event.id) /\ Expected(cat, "Active", event.other)
                 THEN CommitCatalogCandidate(cat) ELSE Refused(cat)
           [] event.kind \in {"ReplacementCompleted", "RollbackCompleted"} ->
                 IF Expected(cat, "Active", event.id) THEN r ELSE Refused(cat)

ApplyCatalogEvents(cat, events) == FoldLeft(ApplyCatalogEvent, Done(cat), events)

\* Mutant (SameListeners): only an unchanged revision keeps its listeners.
RestartNeverRequired(from, to) == from = to

\* listener_restart_required
RestartRequired(from, to) == ListenersOf[from] # ListenersOf[to]

\* reconcile: the configuration file holds revision disk.  A replacement whose
\* worker cannot be spawned leaves the candidate in the catalog until the
\* SpawnFailed event of the next poll.  The result is the master with err set if
\* reconcile failed, and the catalog.
Reconcile(s, cat, disk, spawned, bad) ==
    LET active == cat.doc["Active"].revision
        g == cat.next
        allocated == AllocateGeneration(cat)
        document == Document(g, g, disk)
        recorded == RecordRestartRequired(allocated.cat, document)
        begun == BeginCandidate(allocated.cat, document)
        replaced == Replace(s, g, Newborn(disk), spawned, bad)
        Ends(master, c) == [master |-> master, cat |-> c]
    IN  IF disk \in Refusable \/ disk = active THEN Ends(s, cat)
        ELSE IF RestartRequired(active, disk) /\ cat.doc["RestartRequired"].revision = disk
        THEN Ends(s, cat)
        ELSE IF ~allocated.ok THEN Ends(Fail(s), cat)
        ELSE IF RestartRequired(active, disk)
        THEN Ends([s EXCEPT !.err = ~recorded.ok], recorded.cat)
        ELSE IF ~begun.ok THEN Ends(Fail(s), begun.cat)
        ELSE Ends([replaced EXCEPT !.err = @ /\ ~IsRunning(replaced)], begun.cat)
=============================================================================
