---------------------------- MODULE Generations ----------------------------
(***************************************************************************)
(* Runtime generations in direct mode: the generation manager               *)
(* (generation.rs), the supervisor thread that starts, publishes and stops  *)
(* generations (main.rs), the configuration watcher (config_watcher.rs) and *)
(* the management calls that reload, roll back, drain, shut down and save   *)
(* (lifecycle_control.rs, rtmp_api/config.rs).                              *)
(*                                                                          *)
(* A step is what one thread does under one acquisition of the manager's    *)
(* state mutex, one operation of an accept gate or one atomic flag.  The    *)
(* operation gate is a lock of its own, held while a configuration is being *)
(* prepared.  The supervisor is the only thread that starts candidates, so  *)
(* a start reservation needs no token, and an identity is used again once   *)
(* nobody holds the generation it named.  A gate keeps who moved it last in *)
(* place of its epoch: that is what a close compares.  AcceptGate models    *)
(* the gate itself.                                                         *)
(***************************************************************************)
EXTENDS Integers, FiniteSets

CONSTANTS
    Ids,            \* identities of generations
    Revisions,      \* effective revisions the configuration file may hold
    Initial,        \* the revision the daemon started with
    Restart,        \* pairs: the second cannot replace the first without a restart
    Api,            \* threads that serve management calls
    MaxEdits,       \* changes of the file made by others than the daemon
    MaxCalls,       \* management calls
    MaxFaults       \* failures of preparations and runtimes, and expired deadlines

None == "none"          \* no generation, no revision
Malformed == "malformed"    \* a file the coordinator refuses to load
Watcher == "watcher"
Supervisor == "supervisor"

ASSUME GenerationsAssumption ==
    /\ Initial \in Revisions
    /\ None \notin Ids \cup Revisions
    /\ Malformed \notin Revisions
    /\ {Watcher, Supervisor, None} \cap Api = {}
    /\ Ids # {}
    /\ MaxEdits \in Nat /\ MaxCalls \in Nat /\ MaxFaults \in Nat

VARIABLES
    gens,       \* RuntimeGeneration: revision, lifecycle, failure, thread, accept gate
    st,         \* GenerationState
    operation,  \* who holds the operation gate
    disk,       \* the revision in the canonical file
    thr,        \* the watcher and the management threads
    sup,        \* the supervisor thread
    stop,       \* stop_supervisor, the flag of the process
    left        \* what remains of the bounds

vars == <<gens, st, operation, disk, thr, sup, stop, left>>

Callers == Api \cup {Watcher}

NoStart == [gen |-> None, phase |-> "none"]

Idle == [pc |-> "idle", doc |-> None, gen |-> None, seen |-> {}]

\* RuntimeGeneration::activate: a prepared generation, its gate closed.
Prepared(rev) ==
    [rev |-> rev, life |-> "prepared", failed |-> FALSE, run |-> "none",
     accepting |-> FALSE, mover |-> "none", drained |-> FALSE]

(* The daemon after its first generation was published (run, main.rs). *)
Init ==
    LET g == CHOOSE i \in Ids : TRUE IN
      /\ gens = [i \in Ids |->
                   IF i = g
                     THEN [Prepared(Initial) EXCEPT !.life = "started", !.run = "listening",
                                                    !.accepting = TRUE, !.mover = "enable"]
                     ELSE Prepared(Initial)]
      /\ st = [active |-> g, candidate |-> None, previous |-> None, quarantined |-> None,
               shutting |-> FALSE, starting |-> NoStart]
      /\ operation = None
      /\ disk = Initial
      /\ thr = [p \in Callers |-> Idle]
      /\ sup = [pc |-> "loop", current |-> g, cand |-> None, retired |-> {},
                prev |-> None, reopen |-> FALSE, quiesced |-> FALSE]
      /\ stop = FALSE
      /\ left = [edits |-> MaxEdits, calls |-> MaxCalls, faults |-> MaxFaults]

Held ==
    {st.active, st.candidate, st.previous, st.starting.gen, sup.current, sup.cand, sup.prev}
      \cup sup.retired \cup {thr[p].gen : p \in Callers}

Free == Ids \ Held

\* active.mutations != 0: some call holds a permit on g.
Mutated(g) == \E p \in Callers : thr[p].gen = g

\* A failure, or a deadline that passes: the model allows MaxFaults of them.
Fault == left.faults > 0 /\ left' = [left EXCEPT !.faults = @ - 1]

---------------------------------------------------------------------------
(* Changes of a generation. *)

\* cancel_runtime_start
CancelRuntime(gs, g) == [gs EXCEPT ![g].life = "cancelled", ![g].failed = TRUE]

\* stop_accepting, by the supervisor as it ends a process or by a drain call.
StopAccepting(gs, set, mover) ==
    [g \in Ids |-> IF g \in set
                     THEN [gs[g] EXCEPT !.accepting = FALSE, !.mover = mover,
                                        !.drained = @ \/ mover = "drain"]
                     ELSE gs[g]]

\* request_shutdown and join_until: the gate is closed and the thread ends or is detached.
EndProcesses(gs, set) ==
    LET closed == StopAccepting(gs, set, "stop")
    IN  [g \in Ids |-> IF g \in set THEN [closed[g] EXCEPT !.run = "finished"] ELSE closed[g]]

\* quarantine_locked
QuarantineLocked(s, c) ==
    IF s.candidate = c THEN [s EXCEPT !.candidate = None, !.quarantined = gens[c].rev] ELSE s

ClearStart(s) == [s EXCEPT !.starting = NoStart]

\* How far the start reservation of c has come.
Phase(c) == IF st.starting.gen = c THEN st.starting.phase ELSE "none"

\* cancel_startup_locked
CancelStartup(c) ==
    /\ gens' = IF Phase(c) = "runtime_owned" THEN CancelRuntime(gens, c) ELSE gens
    /\ st' = CASE Phase(c) = "starting" -> ClearStart(st)
               [] Phase(c) = "runtime_owned" -> QuarantineLocked(ClearStart(st), c)
               [] OTHER -> st

\* reserve_shutdown under the state mutex.
TakeCandidate ==
    /\ gens' = IF st.candidate # None /\ st.starting.phase \in {"runtime_owned", "activating"}
                 THEN CancelRuntime(gens, st.candidate)
                 ELSE gens
    /\ st' = [st EXCEPT !.shutting = TRUE, !.candidate = None,
                        !.starting = IF @.phase = "activating" THEN @ ELSE NoStart]

\* Mutant (PublishedRuntimeIsLive): the operation gate is not waited for.
ReserveShutdownUngated == TakeCandidate

ReserveShutdown == operation = None /\ TakeCandidate

---------------------------------------------------------------------------
(* Preparation: the watcher, reload and rollback.  The operation gate is    *)
(* held from the moment the document is taken to the moment the candidate   *)
(* is put in place.                                                         *)

\* acquire_preparation_operation and the test of shutting_down.
BeginPrepare(p, after) ==
    /\ thr[p].pc = "prepare"
    /\ \/ /\ operation = None
          /\ ~st.shutting
          /\ Free # {}
          /\ operation' = p
          /\ thr' = [thr EXCEPT ![p].pc = "preparing"]
          /\ UNCHANGED left
       \/ /\ operation = None
          /\ st.shutting
          /\ thr' = [thr EXCEPT ![p] = after]
          /\ UNCHANGED <<operation, left>>
       \/ /\ operation # None
          /\ Fault
          /\ thr' = [thr EXCEPT ![p] = after]
          /\ UNCHANGED operation
    /\ UNCHANGED <<gens, st, disk, sup, stop>>

\* The end of prepare_with_deadline_internal and of rollback_with_deadline_internal.
EndPrepare(p, after) ==
    /\ thr[p].pc = "preparing"
    /\ operation = p
    /\ operation' = None
    /\ thr' = [thr EXCEPT ![p] = after]
    /\ \/ LET g == CHOOSE i \in Free : TRUE
          IN  /\ Free # {}
              /\ gens' = [gens EXCEPT ![g] = Prepared(thr[p].doc)]
              /\ st' = [st EXCEPT !.candidate = g, !.quarantined = None]
              /\ UNCHANGED left
       \/ /\ Fault      \* refused
          /\ st' = [st EXCEPT !.quarantined = thr[p].doc]
          /\ UNCHANGED gens
       \/ /\ Fault      \* timed out
          /\ UNCHANGED <<st, gens>>
    /\ UNCHANGED <<disk, sup, stop>>

---------------------------------------------------------------------------
(* The watcher: reconcile reads the file, then the manager's status, then   *)
(* the active generation, and prepares later still.                         *)

WatcherLoad ==
    /\ thr[Watcher].pc = "idle"
    /\ sup.pc # "done"
    /\ disk # Malformed
    /\ thr' = [thr EXCEPT ![Watcher] = [Idle EXCEPT !.pc = "loaded", !.doc = disk]]
    /\ UNCHANGED <<gens, st, operation, disk, sup, stop, left>>

\* The revisions in generations.status() that need no preparation.
Known ==
    {gens[g].rev : g \in {st.active, st.candidate} \ {None}} \cup {st.quarantined}

WatcherStatus ==
    /\ thr[Watcher].pc = "loaded"
    /\ thr' = [thr EXCEPT ![Watcher].pc = "decide", ![Watcher].seen = Known]
    /\ UNCHANGED <<gens, st, operation, disk, sup, stop, left>>

WatcherDecide ==
    /\ thr[Watcher].pc = "decide"
    /\ LET doc == thr[Watcher].doc
           skip == doc \in thr[Watcher].seen \/ <<gens[st.active].rev, doc>> \in Restart
       IN  thr' = [thr EXCEPT ![Watcher] =
                     IF skip THEN Idle ELSE [Idle EXCEPT !.pc = "prepare", !.doc = doc]]
    /\ UNCHANGED <<gens, st, operation, disk, sup, stop, left>>

WatcherBeginPrepare == BeginPrepare(Watcher, Idle)

WatcherEndPrepare == EndPrepare(Watcher, Idle)

---------------------------------------------------------------------------
(* Management calls.  A call takes a permit on the active generation and    *)
(* drops it as it returns; one that is refused changes nothing.             *)

\* Mutant (PermitPinsActive): a start reservation is no reason to refuse.
MutationDuringStart == ~st.shutting /\ st.active # None

\* begin_active_mutation's conditions.
MutationAllowed == ~st.shutting /\ st.active # None /\ st.starting = NoStart

BeginCall(p) ==
    /\ thr[p].pc = "idle"
    /\ sup.pc # "done"
    /\ left.calls > 0
    /\ MutationAllowed
    /\ \E call \in {"reload", "rollback", "drain", "shutdown", "save"} :
         thr' = [thr EXCEPT ![p] = [Idle EXCEPT !.pc = call, !.gen = st.active]]
    /\ left' = [left EXCEPT !.calls = @ - 1]
    /\ UNCHANGED <<gens, st, operation, disk, sup, stop>>

\* The call has returned its answer and its permit is about to be dropped.
Returned(p) == [Idle EXCEPT !.pc = "return", !.gen = thr[p].gen]

EndCall(p) ==
    /\ thr[p].pc = "return"
    /\ thr' = [thr EXCEPT ![p] = Idle]
    /\ UNCHANGED <<gens, st, operation, disk, sup, stop, left>>

ReloadLoad(p) ==
    /\ thr[p].pc = "reload"
    /\ thr' = [thr EXCEPT ![p] = IF disk = Malformed
                                   THEN Returned(p)
                                   ELSE [@ EXCEPT !.pc = "prepare", !.doc = disk]]
    /\ UNCHANGED <<gens, st, operation, disk, sup, stop, left>>

ReloadBeginPrepare(p) == BeginPrepare(p, Returned(p))

EndCallPrepare(p) == EndPrepare(p, Returned(p))

RollbackBegin(p) ==
    /\ thr[p].pc = "rollback"
    /\ operation = None
    /\ Free # {}
    /\ LET rev == IF st.previous = None THEN None ELSE gens[st.previous].rev
       IN  IF st.shutting \/ st.previous = None \/ st.quarantined = rev
             THEN /\ thr' = [thr EXCEPT ![p] = Returned(p)]
                  /\ UNCHANGED operation
             ELSE /\ thr' = [thr EXCEPT ![p].pc = "preparing", ![p].doc = rev]
                  /\ operation' = p
    /\ UNCHANGED <<gens, st, disk, sup, stop, left>>

Drain(p) ==
    /\ thr[p].pc = "drain"
    /\ gens' = StopAccepting(gens, {thr[p].gen}, "drain")
    /\ thr' = [thr EXCEPT ![p] = Returned(p)]
    /\ UNCHANGED <<st, operation, disk, sup, stop, left>>

ShutdownReserve(p) ==
    /\ thr[p].pc = "shutdown"
    /\ ReserveShutdown
    /\ thr' = [thr EXCEPT ![p].pc = "signal"]
    /\ UNCHANGED <<operation, disk, sup, stop, left>>

ShutdownSignal(p) ==
    /\ thr[p].pc = "signal"
    /\ stop' = TRUE
    /\ thr' = [thr EXCEPT ![p] = Returned(p)]
    /\ UNCHANGED <<gens, st, operation, disk, sup, left>>

\* save_config_response: the draft is valid and the coordinator saves it or finds a conflict.
SaveConfig(p) ==
    /\ thr[p].pc = "save"
    /\ \E rev \in Revisions \cup {disk} : disk' = rev
    /\ thr' = [thr EXCEPT ![p] = Returned(p)]
    /\ UNCHANGED <<gens, st, operation, sup, stop, left>>

---------------------------------------------------------------------------
(* The thread of a generation. *)

\* serve_generation has built its services and reports the setup.
RuntimeSetUp(g) ==
    /\ gens[g].run = "spawned"
    /\ gens' = [gens EXCEPT ![g].run = "setup"]
    /\ UNCHANGED <<st, operation, disk, thr, sup, stop, left>>

\* Mutant (OneGenerationAccepts): the gate opens with the listeners.
ListensUngated(g) ==
    /\ gens[g].run = "setup"
    /\ gens' = [gens EXCEPT ![g].run = "listening", ![g].life = "started", ![g].accepting = TRUE]
    /\ UNCHANGED <<st, operation, disk, thr, sup, stop, left>>

\* Every listener is listening, and mark_runtime_started.
RuntimeListens(g) ==
    /\ gens[g].run = "setup"
    /\ gens' = [gens EXCEPT ![g].run = "listening",
                            ![g].life = IF @ = "claimed" THEN "started" ELSE @]
    /\ UNCHANGED <<st, operation, disk, thr, sup, stop, left>>

\* A listener service ends although nobody asked it to.
RuntimeFails(g) ==
    /\ gens[g].run \in {"spawned", "setup", "listening"}
    /\ ~gens[g].failed
    /\ Fault
    /\ gens' = [gens EXCEPT ![g].failed = TRUE]
    /\ UNCHANGED <<st, operation, disk, thr, sup, stop>>

\* The thread ends: serve_generation returned an error or panicked.
RuntimeEnds(g) ==
    /\ gens[g].run \in {"spawned", "setup", "listening"}
    /\ Fault
    /\ gens' = [gens EXCEPT ![g].run = "finished"]
    /\ UNCHANGED <<st, operation, disk, thr, sup, stop>>

---------------------------------------------------------------------------
(* The supervisor. *)

Dead(g) == gens[g].failed \/ gens[g].run = "finished"

\* The loop ends: stopped, or the active runtime is gone.
SupBreak ==
    /\ sup.pc = "loop"
    /\ stop \/ Dead(sup.current)
    /\ stop' = TRUE
    /\ sup' = [sup EXCEPT !.pc = "stopping"]
    /\ UNCHANGED <<gens, st, operation, disk, thr, left>>

\* Retired processes that drained are ended, those that finished are joined.
SupRetire ==
    /\ sup.pc = "loop"
    /\ ~stop /\ ~Dead(sup.current)
    /\ \E g \in sup.retired :
         /\ gens' = EndProcesses(gens, {g})
         /\ sup' = [sup EXCEPT !.retired = @ \ {g}]
    /\ UNCHANGED <<st, operation, disk, thr, stop, left>>

SupCandidate ==
    /\ sup.pc = "loop"
    /\ ~stop /\ ~Dead(sup.current)
    /\ st.candidate # None
    /\ sup' = [sup EXCEPT !.pc = "begin", !.cand = st.candidate]
    /\ UNCHANGED <<gens, st, operation, disk, thr, stop, left>>

\* The supervisor is done with its candidate and goes round.
Looped == [sup EXCEPT !.pc = "loop", !.cand = None, !.prev = None,
                      !.reopen = FALSE, !.quiesced = FALSE]

\* begin_candidate_start
SupBegin ==
    /\ sup.pc = "begin"
    /\ operation = None
    /\ IF \/ st.shutting
          \/ st.candidate # sup.cand
          \/ st.starting # NoStart
          \/ Mutated(st.active)
         THEN sup' = Looped /\ UNCHANGED st
         ELSE /\ st' = [st EXCEPT !.starting = [gen |-> sup.cand, phase |-> "starting"]]
              /\ sup' = [sup EXCEPT !.pc = "claim"]
    /\ UNCHANGED <<gens, operation, disk, thr, stop, left>>

\* claim_runtime_start
SupClaim ==
    /\ sup.pc = "claim"
    /\ operation = None
    /\ LET c == sup.cand
           mine == Phase(c) = "starting"
           claimable == ~st.shutting /\ mine /\ st.candidate = c /\ gens[c].life = "prepared"
       IN  \/ /\ claimable
              /\ gens' = [gens EXCEPT ![c].life = "claimed"]
              /\ st' = [st EXCEPT !.starting.phase = "runtime_owned"]
              /\ sup' = [sup EXCEPT !.pc = "spawn"]
              /\ UNCHANGED left
           \/ /\ claimable /\ Fault     \* start_rtmp failed
              /\ gens' = CancelRuntime(gens, c)
              /\ st' = QuarantineLocked(ClearStart(st), c)
              /\ sup' = [sup EXCEPT !.pc = "drop"]
           \/ /\ ~claimable
              /\ st' = IF st.shutting \/ ~mine THEN st ELSE QuarantineLocked(ClearStart(st), c)
              /\ sup' = [sup EXCEPT !.pc = "drop"]
              /\ UNCHANGED <<gens, left>>
    /\ UNCHANGED <<operation, disk, thr, stop>>

\* GenerationProcess::start spawns the thread of the generation.
SupSpawn ==
    /\ sup.pc = "spawn"
    /\ \/ /\ gens' = [gens EXCEPT ![sup.cand].run = "spawned"]
          /\ sup' = [sup EXCEPT !.pc = "setup"]
          /\ UNCHANGED left
       \/ /\ Fault
          /\ sup' = [sup EXCEPT !.pc = "quarantine"]
          /\ UNCHANGED gens
    /\ UNCHANGED <<st, operation, disk, thr, stop>>

\* ... and waits for it to report, or for the process to be stopped.
SupSetUp ==
    /\ sup.pc = "setup"
    /\ \/ /\ ~stop
          /\ gens[sup.cand].run \in {"setup", "listening"}
          /\ sup' = [sup EXCEPT !.pc = "ready"]
          /\ UNCHANGED <<gens, left>>
       \/ /\ \/ (stop \/ gens[sup.cand].run = "finished") /\ UNCHANGED left
             \/ ~stop /\ Fault      \* a setup error, or the startup deadline
          /\ gens' = EndProcesses(gens, {sup.cand})
          /\ sup' = [sup EXCEPT !.pc = "quarantine"]
    /\ UNCHANGED <<st, operation, disk, thr, stop>>

\* wait_for_generation_ready
SupReady ==
    /\ sup.pc = "ready"
    /\ LET g == gens[sup.cand]
           ready == g.life = "started" /\ g.run = "listening"
       IN  \/ /\ ~stop /\ ~g.failed /\ ready
              /\ sup' = [sup EXCEPT !.pc = "reserve"]
              /\ UNCHANGED <<gens, left>>
           \/ /\ \/ (stop \/ g.failed) /\ UNCHANGED left
                 \/ ~stop /\ ~g.failed /\ ~ready /\ g.run # "finished" /\ Fault
                 \/ ~stop /\ ~g.failed /\ g.run = "finished" /\ UNCHANGED left   \* the deadline passes
              /\ gens' = EndProcesses(gens, {sup.cand})
              /\ sup' = [sup EXCEPT !.pc = "quarantine"]
    /\ UNCHANGED <<st, operation, disk, thr, stop>>

\* quarantine
SupQuarantine ==
    /\ sup.pc = "quarantine"
    /\ operation = None
    /\ LET c == sup.cand
           cleared == IF Phase(c) = "activating" THEN st ELSE ClearStart(st)
       IN  IF st.candidate = c
             THEN /\ gens' = IF Phase(c) \in {"runtime_owned", "activating"}
                               THEN CancelRuntime(gens, c) ELSE gens
                  /\ st' = QuarantineLocked(IF Phase(c) = "none" THEN st ELSE cleared, c)
             ELSE UNCHANGED <<gens, st>>
    /\ sup' = [sup EXCEPT !.pc = "drop"]
    /\ UNCHANGED <<operation, disk, thr, stop, left>>

\* Mutant (Converges): the reservation is left behind.
DropLeaks ==
    /\ sup.pc = "drop"
    /\ sup' = Looped
    /\ UNCHANGED <<gens, st, operation, disk, thr, stop, left>>

\* GenerationStartup::drop
SupDrop ==
    /\ sup.pc = "drop"
    /\ CancelStartup(sup.cand)
    /\ sup' = Looped
    /\ UNCHANGED <<operation, disk, thr, stop, left>>

\* reserve_activation: a refused start is cancelled as far as it has come.
SupReserve ==
    /\ sup.pc = "reserve"
    /\ operation = None
    /\ LET c == sup.cand
       IN  IF /\ ~st.shutting
              /\ Phase(c) = "runtime_owned"
              /\ st.candidate = c
              /\ ~Mutated(st.active)
              /\ ~gens[c].failed /\ gens[c].life = "started"
             THEN /\ st' = [st EXCEPT !.starting.phase = "activating"]
                  /\ sup' = [sup EXCEPT !.pc = "close", !.prev = st.active]
                  /\ UNCHANGED gens
             ELSE /\ CancelStartup(c)
                  /\ sup' = [sup EXCEPT !.pc = "abandon"]
    /\ UNCHANGED <<operation, disk, thr, stop, left>>

\* previous.accept_gate.close()
SupClose ==
    /\ sup.pc = "close"
    /\ gens' = [gens EXCEPT ![sup.prev].accepting = FALSE, ![sup.prev].mover = "activation"]
    /\ sup' = [sup EXCEPT !.pc = "wait", !.reopen = gens[sup.prev].accepting]
    /\ UNCHANGED <<st, operation, disk, thr, stop, left>>

\* close.wait(quiesce_timeout)
SupWait ==
    /\ sup.pc = "wait"
    /\ \/ /\ sup' = [sup EXCEPT !.pc = "publish", !.quiesced = TRUE]
          /\ UNCHANGED left
       \/ /\ sup' = [sup EXCEPT !.pc = "publish", !.quiesced = FALSE]
          /\ Fault
    /\ UNCHANGED <<gens, st, operation, disk, thr, stop>>

\* AcceptGateClose::is_current, and what reopen does.
CloseCurrent(g) == ~gens[g].accepting /\ gens[g].mover = "activation"

\* Mutant (ActiveServesUnlessDrained): whether or not the gate was open.
ReopenedAnyway(gs, g) ==
    IF CloseCurrent(g) THEN [gs EXCEPT ![g].accepting = TRUE, ![g].mover = "enable"] ELSE gs

Reopened(gs, g) ==
    IF sup.reopen /\ CloseCurrent(g)
      THEN [gs EXCEPT ![g].accepting = TRUE, ![g].mover = "enable"]
      ELSE gs

\* The conditions of publish_reserved_candidate.
Publishable ==
    /\ ~st.shutting
    /\ st.starting = [gen |-> sup.cand, phase |-> "activating"]
    /\ st.candidate = sup.cand
    /\ st.active = sup.prev
    /\ ~gens[sup.cand].failed
    /\ sup.quiesced /\ CloseCurrent(sup.prev)
    /\ ~Mutated(st.active)

SupPublish ==
    /\ sup.pc = "publish"
    /\ operation = None
    /\ Publishable
    /\ st' = [st EXCEPT !.candidate = None, !.starting = NoStart,
                        !.active = sup.cand, !.previous = st.active]
    /\ gens' = [gens EXCEPT ![sup.cand].accepting = TRUE, ![sup.cand].mover = "enable"]
    /\ sup' = [Looped EXCEPT !.retired = @ \cup {sup.current}, !.current = sup.cand]
    /\ UNCHANGED <<operation, disk, thr, stop, left>>

SupPublishRefused ==
    /\ sup.pc = "publish"
    /\ operation = None
    /\ ~Publishable
    /\ LET c == sup.cand
           owns == st.starting = [gen |-> c, phase |-> "activating"]
           reopened == IF st.active = sup.prev /\ ~st.shutting THEN Reopened(gens, sup.prev) ELSE gens
       IN  /\ gens' = IF owns THEN CancelRuntime(reopened, c) ELSE reopened
           /\ st' = IF owns THEN QuarantineLocked(ClearStart(st), c) ELSE st
    /\ sup' = [sup EXCEPT !.pc = "abandon"]
    /\ UNCHANGED <<operation, disk, thr, stop, left>>

\* finish_candidate_generation_process after a refused activation; nothing is cancelled.
SupAbandon ==
    /\ sup.pc = "abandon"
    /\ gens' = EndProcesses(gens, {sup.cand})
    /\ sup' = Looped
    /\ UNCHANGED <<st, operation, disk, thr, stop, left>>

\* Mutant (StopCompletes): the current process is left out.
ShutdownRetiredOnly ==
    /\ sup.pc = "stopping"
    /\ ReserveShutdown
    /\ sup' = [sup EXCEPT !.pc = "closing"]
    /\ UNCHANGED <<operation, disk, thr, stop, left>>

\* shutdown_generation_processes: the manager first, then every process.
SupShutdown ==
    /\ sup.pc = "stopping"
    /\ ReserveShutdown
    /\ sup' = [sup EXCEPT !.pc = "closing", !.retired = @ \cup {sup.current}]
    /\ UNCHANGED <<operation, disk, thr, stop, left>>

SupStopped ==
    /\ sup.pc = "closing"
    /\ gens' = EndProcesses(gens, sup.retired)
    /\ sup' = [sup EXCEPT !.pc = "done", !.retired = {}]
    /\ UNCHANGED <<st, operation, disk, thr, stop, left>>

---------------------------------------------------------------------------
(* Everything else: somebody edits the file, and SIGTERM or SIGINT. *)

Edit ==
    /\ left.edits > 0
    /\ \E rev \in (Revisions \cup {Malformed}) \ {disk} : disk' = rev
    /\ left' = [left EXCEPT !.edits = @ - 1]
    /\ UNCHANGED <<gens, st, operation, thr, sup, stop>>

Signal ==
    /\ ~stop
    /\ stop' = TRUE
    /\ UNCHANGED <<gens, st, operation, disk, thr, sup, left>>

WatcherStep ==
    WatcherLoad \/ WatcherStatus \/ WatcherDecide \/ WatcherBeginPrepare \/ WatcherEndPrepare

CallStep(p) ==
    \/ EndCall(p) \/ ReloadLoad(p) \/ ReloadBeginPrepare(p) \/ EndCallPrepare(p)
    \/ RollbackBegin(p) \/ Drain(p) \/ ShutdownReserve(p) \/ ShutdownSignal(p) \/ SaveConfig(p)

RuntimeStep(g) == RuntimeSetUp(g) \/ RuntimeListens(g)

SupStep ==
    \/ SupBreak \/ SupRetire \/ SupCandidate \/ SupBegin \/ SupClaim \/ SupSpawn \/ SupSetUp
    \/ SupReady \/ SupQuarantine \/ SupDrop \/ SupReserve \/ SupClose \/ SupWait \/ SupPublish
    \/ SupPublishRefused \/ SupAbandon \/ SupShutdown \/ SupStopped

Next ==
    \/ WatcherStep
    \/ \E p \in Api : BeginCall(p) \/ CallStep(p)
    \/ \E g \in Ids : RuntimeStep(g) \/ RuntimeFails(g) \/ RuntimeEnds(g)
    \/ SupStep
    \/ Edit
    \/ Signal

Spec == Init /\ [][Next]_vars

(* Threads are scheduled and nothing waits for ever but on the operation    *)
(* gate, whose holder is a thread that prepares within its deadline.  Every *)
(* pass of the supervisor looks at the retired processes: without them the  *)
(* identities, which the model bounds, would run out.                       *)
Fairness ==
    /\ WF_vars(WatcherStep)
    /\ \A p \in Api : WF_vars(CallStep(p))
    /\ \A g \in Ids : WF_vars(RuntimeStep(g))
    /\ WF_vars(SupStep)
    /\ SF_vars(SupRetire)

FairSpec == Spec /\ Fairness

---------------------------------------------------------------------------
Phases == {"none", "starting", "runtime_owned", "activating"}

RuntimeGenerations ==
    [rev : Revisions, life : {"prepared", "claimed", "started", "cancelled"}, failed : BOOLEAN,
     run : {"none", "spawned", "setup", "listening", "finished"}, accepting : BOOLEAN,
     mover : {"none", "enable", "activation", "stop", "drain"}, drained : BOOLEAN]

GenerationStates ==
    [active : Ids, candidate : Ids \cup {None}, previous : Ids \cup {None},
     quarantined : Revisions \cup {None}, shutting : BOOLEAN,
     starting : [gen : Ids \cup {None}, phase : Phases]]

Threads ==
    [pc : {"idle", "loaded", "decide", "prepare", "preparing", "reload", "rollback", "drain",
           "shutdown", "signal", "save", "return"},
     doc : Revisions \cup {None}, gen : Ids \cup {None}, seen : SUBSET (Revisions \cup {None})]

Supervisors ==
    [pc : {"loop", "begin", "claim", "spawn", "setup", "ready", "quarantine", "drop", "reserve",
           "close", "wait", "publish", "abandon", "stopping", "closing", "done"},
     current : Ids, cand : Ids \cup {None}, retired : SUBSET Ids, prev : Ids \cup {None},
     reopen : BOOLEAN, quiesced : BOOLEAN]

(* The state of every thread and of the manager has its type. *)
TypeOK ==
    /\ gens \in [Ids -> RuntimeGenerations]
    /\ st \in GenerationStates
    /\ operation \in Callers \cup {None}
    /\ disk \in Revisions \cup {Malformed}
    /\ thr \in [Callers -> Threads]
    /\ sup \in Supervisors
    /\ stop \in BOOLEAN
    /\ left \in [edits : Nat, calls : Nat, faults : Nat]

(* Only the active generation accepts, at every instant of a publication:   *)
(* the old gate is closed and quiesced before the new one is opened, and a  *)
(* refused publication reopens the old one only.                            *)
OneGenerationAccepts == \A g \in Ids : gens[g].accepting => g = st.active

(* begin_mutation "prevents publication until it is dropped": the           *)
(* generation a management call was admitted against is still the active    *)
(* one when it acts, and no candidate is being started meanwhile.           *)
PermitPinsActive ==
    \A p \in Callers : thr[p].gen # None => thr[p].gen = st.active /\ st.starting = NoStart

(* A refused activation leaves the old generation accepting, and a drained  *)
(* generation is never opened again: outside the activation's own wait the  *)
(* active generation accepts exactly when nobody drained it.                *)
ActiveServesUnlessDrained ==
    ~st.shutting /\ sup.pc \notin {"wait", "publish"}
      => (gens[st.active].accepting <=> ~gens[st.active].drained)

(* What is published is a runtime that started and was not cancelled, and   *)
(* after the manager was told to shut down nothing can be published any     *)
(* more, whatever was being prepared at that moment.                        *)
PublishedRuntimeIsLive ==
    /\ gens[st.active].life = "started"
    /\ st.shutting => st.candidate = None /\ st.starting = NoStart

(* A changed file ends up active, needing a restart, unreadable, or         *)
(* quarantined after a failure of its own preparation or startup, for good: *)
(* no interleaving of the watcher, the calls and the supervisor loses an    *)
(* edit.  reconcile never takes up a quarantined revision again: that is    *)
(* QuarantineIsRetried, which the documentation promises and the code does  *)
(* not keep.                                                                *)
Settled ==
    \/ stop
    \/ disk = Malformed
    \/ disk = gens[st.active].rev
    \/ disk = st.quarantined
    \/ <<gens[st.active].rev, disk>> \in Restart

Converges == <>[]Settled

(* docs/MANAGEMENT_CLI.md: a startup failure "remains retryable on the next *)
(* reconciliation".  While the file holds it, a quarantined revision is     *)
(* prepared again in the end.                                               *)
QuarantineIsRetried ==
    disk = st.quarantined ~> (stop \/ disk # st.quarantined)

(* A daemon told to stop does stop, and nothing accepts from then on. *)
StopCompletes == stop ~> [](sup.pc = "done" /\ \A g \in Ids : ~gens[g].accepting)
============================================================================
