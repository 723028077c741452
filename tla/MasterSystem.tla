---------------------------- MODULE MasterSystem ----------------------------
(***************************************************************************)
(* The supervised service: the master of Master.tla driven by MasterRunner  *)
(* (crates/oxiroute-server/src/supervised/master.rs), the worker processes  *)
(* of Worker.tla and the configuration file, interleaved.  An iteration of  *)
(* the runner is one step.  A worker that answers, or a writer that writes, *)
(* while an iteration is under way does so equally well before or after it. *)
(* What an iteration does first and last is kept apart by the workers it    *)
(* kills: a "killed" worker keeps its gate until Exit and stands for the    *)
(* worker from the first act of that iteration, a Reactivate to another     *)
(* worker for instance, until SIGKILL has ended its process.                *)
(***************************************************************************)
EXTENDS Runner, FiniteSets

CONSTANTS
    MaxInstances,   \* generations launched in a behaviour, the first one included
    Faulty,         \* workers that may crash, hang, refuse or send bad frames
    Bounds          \* how often each kind of disturbance may happen

ASSUME MasterAssumption ==
    /\ MaxInstances \in Nat \ {0} /\ InstanceIds = 1..MaxInstances /\ NoInstance = 0
    /\ MaxGeneration > MaxInstances
    /\ Faulty \subseteq InstanceIds
    /\ Bounds \in [{"crashes", "frames", "sends", "spawns", "writes", "stops"} -> Nat]

VARIABLES
    stage, forced, sup, slot, deferred, failure, nextReq, events,   \* the master
    proc,       \* the workers
    catalog,    \* the generation catalog
    disk,       \* the revision in the configuration file
    runner,     \* "driving", "stopping", "failing", "cleanup" or "ended"
    cause,      \* which call of the driving loop returned an error
    spent       \* disturbances so far, by kind

vars == <<stage, forced, sup, slot, deferred, failure, nextReq, events, proc, catalog, disk,
          runner, cause, spent>>

masterVars == <<stage, forced, sup, slot, deferred, failure, nextReq>>

\* The master and its workers as the record Master.tla works on.
Sys ==
    [stage |-> stage, forced |-> forced, sup |-> sup, slot |-> slot, deferred |-> deferred,
     failure |-> failure, nextReq |-> nextReq, events |-> events, err |-> FALSE, sends |-> 0,
     proc |-> proc]

Becomes(s) ==
    /\ stage' = s.stage /\ forced' = s.forced /\ sup' = s.sup /\ slot' = s.slot
    /\ deferred' = s.deferred /\ failure' = s.failure /\ nextReq' = s.nextReq
    /\ proc' = s.proc

Spend(kind) == spent[kind] < Bounds[kind] /\ spent' = [spent EXCEPT ![kind] = @ + 1]

\* Which sends of an iteration may fail, and that the ones that did were made.
BadSends == {bad \in SUBSET (1..4) : spent.sends + Cardinality(bad) <= Bounds.sends}

Paid(s, bad) ==
    /\ bad \subseteq 1..s.sends
    /\ spent' = [spent EXCEPT !.sends = @ + Cardinality(bad)]

Paying(s, bad) == Becomes(s) /\ Paid(s, bad)

Booted == proc[1].run # "unborn"

Terminal == stage \in {"Stopped", "Failed"}

Init ==
    /\ stage = "BootAdopting" /\ forced = FALSE /\ sup = NoSupervisor
    /\ slot = [role \in Roles |-> NoSlot]
    /\ deferred = FALSE /\ failure = FALSE /\ nextReq = 1 /\ events = << >>
    /\ proc = [i \in InstanceIds |-> Unborn(NoRevision)]
    /\ disk \in Revisions \ Refusable
    /\ catalog = NewCatalog(Document(1, 1, disk))
    /\ runner = "driving" /\ cause = "None"
    /\ spent = [kind \in DOMAIN Bounds |-> 0]

-----------------------------------------------------------------------------
(* The runner *)

LaunchFirst ==
    /\ ~Booted
    /\ \E bad \in BadSends :
          Paying(Launch(Sys, 1, Newborn(catalog.doc["Active"].revision), bad), bad)
    /\ UNCHANGED <<events, catalog, disk, runner, cause>>

\* A healthy worker answers in time; only draining and stopping depend on how
\* long its connections last.
MayBeDue ==
    \/ stage = "ShuttingDown"
    \/ \E role \in Roles :
          /\ slot[role].pending # NoPending \/ slot[role].deadline
          /\ slot[role].id \in Faulty \/ slot[role].pending.phase \in {"Drain", "Shutdown"}

\* After a poll that left s: the catalog takes the events if it returned Ok.
Polled(s, bad) ==
    LET c == ApplyCatalogEvents(catalog, s.events)
    IN  /\ Paying(s, bad)
        /\ events' = IF s.err THEN s.events ELSE << >>
        /\ catalog' = IF s.err THEN catalog ELSE c.cat
        /\ cause' = IF s.err THEN "Poll" ELSE IF ~c.ok THEN "Catalog" ELSE cause
        /\ runner' = IF s.err \/ ~c.ok THEN "failing" ELSE runner

\* An iteration of drive_inner without a reload.
DrivePoll(due) ==
    /\ Booted /\ runner = "driving" /\ ~Terminal
    /\ due => MayBeDue
    /\ \E bad \in BadSends : Polled(Poll(Sys, due, bad), bad)
    /\ UNCHANGED disk

\* A poll that left s returned Ok, the catalog c has no candidate and the next
\* generation is within MaxInstances.
MayReconcile(s, c) ==
    /\ ~s.err /\ c.ok /\ c.cat.doc["Candidate"] = NoDocument
    /\ c.cat.next \in InstanceIds

\* After a reconciliation that left r.
Reconciled(r, spawned, bad) ==
    /\ spawned \/ (spent.spawns < Bounds.spawns /\ r.cat.doc["Candidate"] # NoDocument)
    /\ Becomes(r.master)
    /\ bad \subseteq 1..r.master.sends
    /\ spent' = [spent EXCEPT !.sends = @ + Cardinality(bad),
                              !.spawns = IF spawned THEN @ ELSE @ + 1]
    /\ events' = r.master.events
    /\ catalog' = r.cat
    /\ cause' = IF r.master.err THEN "Reconcile" ELSE cause
    /\ runner' = IF r.master.err THEN "failing" ELSE runner

PolledThenReconciled(s, c, spawned, bad) ==
    /\ MayReconcile(s, c)
    /\ Reconciled(Reconcile([s EXCEPT !.events = << >>], c.cat, disk, spawned, bad), spawned, bad)

PolledWithReload(s, spawned, bad) ==
    PolledThenReconciled(s, ApplyCatalogEvents(catalog, s.events), spawned, bad)

\* An iteration with a reload, by SIGHUP, by a file event or by the periodic
\* reconciliation: the master was running before its poll and the catalog has
\* no candidate after it.
DriveReload ==
    /\ Booted /\ runner = "driving" /\ IsRunning(Sys)
    /\ \E bad \in BadSends, spawned \in BOOLEAN :
          PolledWithReload(Poll(Sys, FALSE, bad), spawned, bad)
    /\ UNCHANGED disk

\* SIGTERM or SIGINT: shutdown_master.  The starting loop looks for a failed
\* master first, the driving loop for the signal.
Stop ==
    /\ Booted /\ runner = "driving"
    /\ sup = NoSupervisor => stage # "Failed"
    /\ spent.stops < Bounds.stops
    /\ \E bad \in BadSends :
          LET s == Shutdown(Sys, bad)
          IN  /\ Becomes(s) /\ bad \subseteq 1..s.sends
              /\ spent' = [spent EXCEPT !.sends = @ + Cardinality(bad), !.stops = @ + 1]
    /\ runner' = "stopping"
    /\ UNCHANGED <<events, catalog, disk, cause>>

\* drive: an error of the loop is followed by cleanup_master, whose shutdown
\* does nothing to a master that is shutting down already.
Cleanup ==
    /\ runner = "failing" /\ ~Terminal
    /\ \E bad \in BadSends :
          Paying(IF stage = "ShuttingDown" THEN Sys ELSE Shutdown(Sys, bad), bad)
    /\ runner' = "cleanup"
    /\ UNCHANGED <<events, catalog, disk, cause>>

\* Dropping the master kills the workers it still holds.
Dropped(s) ==
    [i \in InstanceIds |->
        IF RoleFor(s, i) # "None" /\ s.proc[i].run \in {"live", "leaving"}
        THEN [s.proc[i] EXCEPT !.run = "killed"] ELSE s.proc[i]]

\* After a poll that left s and whose events nobody reads.  An error sends
\* shutdown_master to cleanup and ends cleanup_master.
WoundDown(s, bad) ==
    LET ends == s.err /\ runner = "cleanup"
    IN  /\ Becomes([s EXCEPT !.proc = IF ends THEN Dropped(s) ELSE @]) /\ Paid(s, bad)
        /\ events' = IF s.err THEN s.events ELSE << >>
        /\ cause' = IF s.err THEN "Poll" ELSE cause
        /\ runner' = IF ends THEN "ended" ELSE IF s.err THEN "failing" ELSE runner

\* A poll of shutdown_master or of cleanup_master.
WindDown(due) ==
    /\ runner \in {"stopping", "cleanup"} /\ ~Terminal
    /\ due => MayBeDue
    /\ \E bad \in BadSends : WoundDown(Poll(Sys, due, bad), bad)
    /\ UNCHANGED <<catalog, disk>>

\* The runner returns: its master is in a terminal state, or cleanup has taken
\* CLEANUP_TIMEOUT, longer than the shutdown deadline, because a worker that was
\* killed has not ended yet.
End ==
    /\ runner # "ended"
    /\ \/ Terminal
       \/ /\ runner = "cleanup" /\ forced
          /\ \E role \in Roles : Present(Sys, role) /\ proc[slot[role].id].run # "gone"
    /\ runner' = "ended"
    /\ proc' = Dropped(Sys)
    /\ UNCHANGED <<masterVars, events, catalog, disk, cause, spent>>

-----------------------------------------------------------------------------
(* The workers and the configuration file *)

WorkerChanges(i, p) ==
    /\ proc' = [proc EXCEPT ![i] = p]
    /\ UNCHANGED <<masterVars, events, catalog, disk, runner, cause>>

\* What worker i may answer: a healthy worker refuses only to have drained.
Answers(i) ==
    IF i \in Faulty \/ Request(proc[i]).phase = "Drain" THEN BOOLEAN ELSE {TRUE}

Serve(i) ==
    /\ Reads(proc[i])
    /\ \E ok \in Answers(i) : WorkerChanges(i, Turn(proc[i], disk, ok))
    /\ UNCHANGED spent

\* The endpoint of a worker that is returning closes before the process ends.
HangUp(i) ==
    /\ proc[i].run = "leaving" /\ proc[i].linked
    /\ WorkerChanges(i, HungUp(proc[i]))
    /\ UNCHANGED spent

\* Exit of a worker whose run function has returned, or that SIGKILL has hit.
Exit(i) ==
    /\ proc[i].run \in {"leaving", "killed"}
    /\ WorkerChanges(i, Gone(proc[i]))
    /\ UNCHANGED spent

\* A crash, or a failure of the worker's runtime.
Crash(i) ==
    /\ i \in Faulty /\ proc[i].run = "live"
    /\ \E p \in {Gone(proc[i]), HungUp(proc[i])} : WorkerChanges(i, p)
    /\ Spend("crashes")

\* A frame the master cannot decode.
BadFrame(i) ==
    /\ i \in Faulty /\ proc[i].run = "live" /\ proc[i].linked
    /\ WorkerChanges(i, [proc[i] EXCEPT !.outbox =
                            Append(@, [kind |-> "Bad", req |-> 0, phase |-> "None", ok |-> FALSE])])
    /\ Spend("frames")

WriteConfig ==
    /\ runner # "ended"
    /\ disk' \in Revisions \ {disk}
    /\ Spend("writes")
    /\ UNCHANGED <<masterVars, events, proc, catalog, runner, cause>>

Next ==
    \/ LaunchFirst \/ DriveReload \/ Stop \/ Cleanup \/ End \/ WriteConfig
    \/ \E due \in BOOLEAN : DrivePoll(due) \/ WindDown(due)
    \/ \E i \in InstanceIds : Serve(i) \/ HangUp(i) \/ Exit(i) \/ Crash(i) \/ BadFrame(i)

Spec == Init /\ [][Next]_vars

\* The runner polls for ever, every deadline is acted on, the configuration is
\* reconciled every 30 seconds, a killed process ends, and a healthy worker
\* answers and, once it leaves, ends.  A faulty worker owes nothing.  The steps
\* of the runner that call Poll are weakly fair with their enabling condition
\* written out: Poll is a function, so such a step can change the state exactly
\* if Poll does, or if there are events to hand over.
PollStep(due) == DrivePoll(due) \/ WindDown(due)

PollEnabled(due) ==
    /\ Booted /\ runner \in {"driving", "stopping", "cleanup"} /\ ~Terminal
    /\ due => MayBeDue
    /\ Poll(Sys, due, {}) # Sys \/ events # << >>

ReconcileChanges(s) ==
    LET c == ApplyCatalogEvents(catalog, s.events)
    IN  /\ MayReconcile(s, c)
        /\ \/ s # Sys \/ events # << >>
           \/ Reconcile(s, c.cat, disk, TRUE, {}).cat # catalog

ReloadEnabled ==
    /\ Booted /\ runner = "driving" /\ IsRunning(Sys)
    /\ ReconcileChanges(Poll(Sys, FALSE, {}))

Fairness ==
    /\ WF_vars(LaunchFirst) /\ WF_vars(Cleanup) /\ WF_vars(End)
    /\ \A due \in BOOLEAN : []<>~PollEnabled(due) \/ []<><<PollStep(due)>>_vars
    /\ []<>~ReloadEnabled \/ []<><<DriveReload>>_vars
    /\ \A i \in InstanceIds : WF_vars(proc[i].run = "killed" /\ Exit(i))
    /\ \A i \in InstanceIds \ Faulty : WF_vars(Serve(i)) /\ WF_vars(Exit(i))

FairSpec == Spec /\ Fairness

-----------------------------------------------------------------------------
(* Properties *)

Slots ==
    [id : InstanceIds \cup {NoInstance},
     pending : {NoPending} \cup [req : 1..(nextReq - 1), phase : ControlPhases],
     deadline : BOOLEAN, state : {"Running", "Terminating", "Forced"},
     open : BOOLEAN, reported : BOOLEAN]

\* The state keeps its shape, and every pending request carries an id that has
\* been given out.
TypeOK ==
    /\ stage \in {"BootAdopting", "BootActivating", "Operational", "ShuttingDown",
                  "Failing", "Stopped", "Failed"}
    /\ slot \in [Roles -> Slots]
    /\ stage = "Operational" => sup # NoSupervisor
    /\ forced \in BOOLEAN /\ deferred \in BOOLEAN /\ failure \in BOOLEAN
    /\ \A i \in InstanceIds :
          /\ proc[i].run \in {"unborn", "live", "leaving", "killed", "gone"}
          /\ proc[i].gate \in {"open", "closed"}
    /\ runner \in {"driving", "stopping", "failing", "cleanup", "ended"}

\* The master keeps roles twice, in its slots and in the replacement
\* supervisor.  While it is operational they name the same instances, in every
\* order in which acknowledgements, exits and timeouts arrive.
SlotsMatchSupervisor ==
    stage = "Operational" => \A role \in Roles : slot[role].id = sup[role].instance_id

\* Serving or about to: not hit by SIGKILL.
Alive(i) == proc[i].run \in {"live", "leaving"}

\* The gate of a worker that is being killed stays open until the process ends.
Admits(i) == proc[i].run \in {"live", "leaving", "killed"} /\ proc[i].gate = "open"

\* Worker i is active and j is its candidate, killed and on its way out: while the
\* master is operational, by the rollback that reactivates i.
Recalled(i, j) ==
    /\ slot["active"].id = i /\ slot["candidate"].id = j /\ proc[j].run = "killed"
    /\ stage = "Operational" => sup.candidate.lifecycle = "Stopping"

\* At most one worker admits connections, but for one window the order of the
\* actions of a rollback leaves open: the old worker may have read its Reactivate
\* before the SIGKILL that follows it has ended a candidate that admits already.
\* No other two workers ever admit together, whatever is lost or late.
OneWorkerAdmits ==
    \A i, j \in InstanceIds :
        Admits(i) /\ Admits(j) /\ i # j => Recalled(i, j) \/ Recalled(j, i)

\* A worker the master believes to be active and has no business with admits
\* connections: the master never rests with the service closed.
RunningMeansServing ==
    stage = "Operational" /\ sup.active.lifecycle = "Active" /\ proc[slot["active"].id].run = "live"
        => proc[slot["active"].id].gate = "open"

\* No orphans: a worker that runs and was not killed has a role.
EveryWorkerHasARole == \A i \in InstanceIds : Alive(i) => RoleFor(Sys, i) # "None"

\* The catalog's active and candidate documents are the instances of the
\* master's roles, once the events of the last iteration have been applied.
CatalogMatchesMaster ==
    stage = "Operational" /\ runner = "driving" =>
        /\ catalog.doc["Active"].instance_id = sup.active.instance_id
        /\ (catalog.doc["Candidate"] # NoDocument /\ events = << >>) =>
              /\ catalog.doc["Candidate"].instance_id = sup.candidate.instance_id
              /\ sup.candidate.lifecycle # "Stopping"

\* The service fails closed only if its active worker is at fault.
HealthyActiveSurvives ==
    stage \in {"Failing", "Failed"} /\ sup # NoSupervisor => sup.active.instance_id \in Faulty

\* poll returns no error: no event the master observes violates an invariant of
\* the replacement supervisor.
PollSucceeds == cause # "Poll"

\* The listeners are bound once, by the master: no worker runs a configuration
\* that binds other listeners than another running worker's.
SameListeners ==
    \A i, j \in InstanceIds :
        Alive(i) /\ Alive(j) => ListenersOf[proc[i].revision] = ListenersOf[proc[j].revision]

\* A stop ends in Stopped, also with workers that ignore it.
ShutdownCompletes == runner = "stopping" ~> stage = "Stopped"

\* Failing closed ends, with every worker reaped, unless a stop overtakes it.
FailingEnds == stage = "Failing" ~> stage \in {"Failed", "ShuttingDown", "Stopped"}

Replacing == stage = "Operational" /\ Phase(sup) # "Running"

\* A replacement is committed or rolled back in the end: no wait of the master
\* is without a deadline or a process that must exit.
ReplacementEnds == Replacing ~> ~Replacing

\* A runner that was stopped, met an error or has a failing master returns.
RunnerEnds == runner # "driving" \/ stage \in {"Failing", "Failed"} ~> runner = "ended"

\* Settled: the active worker runs the revision on disk, or that revision needs a
\* restart, or it is refused.
Settled ==
    \/ disk \in Refusable
    \/ catalog.doc["Active"].revision = disk
    \/ RestartRequired(catalog.doc["Active"].revision, disk)

\* Once nobody writes the configuration any more, the service settles on it for
\* good, also if a candidate for it failed to spawn, crashed, hung or was launched
\* for a revision that had changed when the worker looked.  Only a faulty worker
\* that has become the active one can stand in the way: it may refuse to quiesce.
Converges ==
    <>[](runner = "driving" => Settled \/ sup.active.instance_id \in Faulty)
=============================================================================
