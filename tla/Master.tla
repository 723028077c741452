------------------------------- MODULE Master -------------------------------
(***************************************************************************)
(* The supervising master of crates/oxiroute-supervisor-master: role slots, *)
(* pending control requests, timeouts, process observations, rollback,      *)
(* fail-closed and shutdown.  The operators take and return the pair of the *)
(* master and the worker processes it talks to, as one record:              *)
(*                                                                          *)
(*   stage, forced      Stage and its forced flag                           *)
(*   sup                Option<ReplacementSupervisor>, NoSupervisor if None *)
(*   slot               the three Option<ManagedWorker>, by role            *)
(*   deferred           deferred_active_exit.is_some()                      *)
(*   failure            replacement_failure.is_some()                       *)
(*   nextReq            next_request_id                                     *)
(*   events             queued MasterEvents the generation catalog reads    *)
(*   err                the call has returned Err through `?'               *)
(*   sends              sends attempted so far in this call                 *)
(*   proc               the worker processes, by instance                   *)
(*                                                                          *)
(* Time is the flag due of a call: the earliest deadline has passed.  The   *)
(* n-th send of a call fails when n is in the set bad (preparation or       *)
(* transport error), or when the worker cannot be reached.  FailurePhase    *)
(* only labels events and is left out, and so are status frames.            *)
(***************************************************************************)
EXTENDS Replacement

Roles == {"active", "candidate", "retired"}

ControlPhases == {"AdoptListeners", "Activate", "Quiesce", "Reactivate", "Drain", "Shutdown"}

NoPending == [req |-> 0, phase |-> "None"]

NewSlot(i) ==
    [id |-> i, pending |-> NoPending, deadline |-> FALSE, state |-> "Running",
     open |-> TRUE, reported |-> FALSE]

NoSlot == NewSlot(NoInstance)

NoSupervisor == [active |-> Vacant, candidate |-> Vacant, retired |-> Vacant]

Present(s, role) == s.slot[role].id # NoInstance

\* replacement_phase()
PhaseOf(s) == IF s.sup = NoSupervisor THEN "None" ELSE Phase(s.sup)

\* role_for: the first role whose slot holds the instance.
RoleFor(s, i) ==
    IF s.slot["active"].id = i THEN "active"
    ELSE IF s.slot["candidate"].id = i THEN "candidate"
    ELSE IF s.slot["retired"].id = i THEN "retired" ELSE "None"

\* master.state() = MasterState::Running
IsRunning(s) == s.stage = "Operational" /\ PhaseOf(s) = "Running"

\* The `?' operator: go on with next unless the call is already failing.
Try(s, next) == IF s.err THEN s ELSE next

Fail(s) == [s EXCEPT !.err = TRUE]

Emit(s, kind, i, j) ==
    [s EXCEPT !.events = Append(@, [kind |-> kind, id |-> i, other |-> j])]

TakeWorker(s, role) == [s EXCEPT !.slot[role] = NoSlot]

-----------------------------------------------------------------------------
(* Requests *)

\* Whether a frame can reach the worker: its process has not been seen to exit
\* and the channel is open at both ends.
Reachable(p) == p.run # "gone" /\ p.linked

\* prepare_request and dispatch.  The request id is used up even if the send
\* fails; the request is pending only if it was sent.
Issued(s, role, phase) ==
    LET i == s.slot[role].id
        request == [req |-> s.nextReq, phase |-> phase]
    IN  [s EXCEPT !.nextReq = @ + 1, !.sends = @ + 1,
                  !.slot[role].pending = request,
                  !.proc[i].inbox = Append(@, request)]

NotIssued(s) == [s EXCEPT !.nextReq = @ + 1, !.sends = @ + 1]

CanIssue(s, role, bad) == s.sends + 1 \notin bad /\ Reachable(s.proc[s.slot[role].id])

\* force_role: SIGKILL once; the killed worker owes no answer.
ForceRole(s, role) ==
    IF s.slot[role].state = "Forced" THEN s
    ELSE IF ~Present(s, role) THEN Fail(s)
    ELSE [s EXCEPT !.slot[role].pending = NoPending,
                   !.slot[role].state = "Forced",
                   !.proc[s.slot[role].id].run = IF @ = "gone" THEN @ ELSE "killed"]

\* force_role after another call that may have failed.
ThenForce(s, role) == Try(s, ForceRole(s, role))

ForcePresent(s, role) == IF Present(s, role) THEN ThenForce(s, role) ELSE s

ForceAll(s) == ForcePresent(ForcePresent(ForcePresent(s, "active"), "candidate"), "retired")

\* fail_master: fail closed, reap an active exit that was deferred, kill the rest.
FailMaster(s) ==
    IF s.stage = "Failed" THEN s
    ELSE ForceAll([s EXCEPT !.stage = "Failing", !.deferred = FALSE,
                            !.slot["active"] = IF s.deferred THEN NoSlot ELSE @])

-----------------------------------------------------------------------------
(* Replacement events and the actions they ask for *)

\* supervisor.apply(event)?: the supervisor is as the handler left it.
Applied(s, answer) == [s EXCEPT !.sup = answer.sup, !.err = ~answer.ok]

\* fail_retired: RetiredFailed asks for a Kill.
FailRetired(s) ==
    IF ~Present(s, "retired") THEN Fail(s)
    ELSE ThenForce(Applied([s EXCEPT !.failure = TRUE],
                           RetiredFailed(s.sup, s.slot["retired"].id)),
                   "retired")

\* maybe_finish_rollback after a call that may have failed.
MaybeFinishRollback(s) ==
    IF ~s.err /\ PhaseOf(s) = "Running" /\ s.failure
    THEN Emit([s EXCEPT !.failure = FALSE], "RollbackCompleted", s.slot["active"].id, NoInstance)
    ELSE s

\* Mutant (OneWorkerAdmits): the candidate is not killed.
RollbackWithoutKill(s, bad) ==
    LET candidate == s.sup.candidate.instance_id
        answer == CandidateFailed(s.sup, candidate)
        failed == Applied(Emit([s EXCEPT !.failure = TRUE], "RollbackStarted", candidate, NoInstance),
                          answer)
    IN  IF s.deferred \/ (Len(answer.actions) = 2 /\ ~CanIssue(failed, "active", bad))
        THEN FailMaster(failed)
        ELSE IF Len(answer.actions) < 2 THEN failed ELSE Issued(failed, "active", "Reactivate")

\* The Reactivate action of a rollback, if there is one.  A reactivation that
\* cannot be sent meets handle_phase_failure in RollingBack, which fails closed.
Recall(s, asked, bad) ==
    IF s.err \/ ~asked THEN s
    ELSE IF CanIssue(s, "active", bad) THEN Issued(s, "active", "Reactivate")
    ELSE FailMaster(NotIssued(s))

\* begin_rollback: CandidateFailed asks to reactivate a quiesced active first,
\* then to terminate the candidate, which may admit until it is gone.
BeginRollback(s, bad) ==
    IF s.deferred THEN FailMaster(s)
    ELSE IF ~Occupied(s.sup.candidate) THEN Fail(s)
    ELSE LET candidate == s.sup.candidate.instance_id
             started == Emit([s EXCEPT !.failure = TRUE], "RollbackStarted", candidate, NoInstance)
             answer == CandidateFailed(s.sup, candidate)
         IN  MaybeFinishRollback(ThenForce(
                 Recall(Applied(started, answer), Len(answer.actions) = 2, bad), "candidate"))

\* Mutant (HealthyActiveSurvives): the failure of an activation is the service's.
ActivationFailsService(s, role, bad) ==
    CASE /\ s.stage = "Operational" /\ role = "candidate"
         /\ PhaseOf(s) \in {"AdoptingCandidate", "Quiescing"} -> BeginRollback(s, bad)
      [] s.stage = "ShuttingDown" -> ForceRole(s, role)
      [] OTHER -> FailMaster(s)

HandlePhaseFailure(s, role, bad) ==
    LET phase == PhaseOf(s) IN
    CASE /\ s.stage = "Operational"
         /\ \/ role = "candidate"
               /\ phase \in {"AdoptingCandidate", "Quiescing", "ActivatingCandidate"}
            \/ role = "active" /\ phase = "Quiescing" -> BeginRollback(s, bad)
      [] /\ s.stage = "Operational" /\ role = "retired"
         /\ phase \in {"DrainingRetired", "StoppingRetired"} -> FailRetired(s)
      [] s.stage = "ShuttingDown" -> ForceRole(s, role)
      [] OTHER -> FailMaster(s)

\* issue_or_compensate
IssueOrCompensate(s, role, phase, bad) ==
    IF CanIssue(s, role, bad) THEN Issued(s, role, phase)
    ELSE HandlePhaseFailure(NotIssued(s), role, bad)

\* issue_or_compensate after supervisor.apply.
ThenIssue(s, role, phase, bad) == Try(s, IssueOrCompensate(s, role, phase, bad))

CompleteReplacement(s) == Emit(s, "ReplacementCompleted", s.slot["active"].id, NoInstance)

\* complete_failed_retired
CompleteFailedRetired(s) ==
    IF s.failure THEN CompleteReplacement([s EXCEPT !.failure = FALSE]) ELSE Fail(s)

Complete(s, failed) ==
    Try(s, IF failed THEN CompleteFailedRetired(s) ELSE CompleteReplacement(s))

\* The retired worker is gone: forget it and report the replacement complete,
\* through complete_failed_retired when it failed.
RetiredGone(s, i, failed) ==
    Try(s, Complete(Applied(TakeWorker(s, "retired"), RetiredStopped(s.sup, i)), failed))

\* commit_candidate: the candidate takes the place of the active worker.
Promote(s) ==
    LET old == s.slot["active"]
        new == s.slot["candidate"]
    IN  Emit([s EXCEPT !.slot = [active |-> new, candidate |-> NoSlot, retired |-> old],
                       !.deferred = FALSE],
             "ReplacementCommitted", new.id, old.id)

\* CandidateActivated asks for a Drain: commit_candidate moves the slots, then
\* the old worker is drained, or reaped at once if its exit was deferred.
CommitCandidate(s, bad) ==
    LET applied == Applied(s, CandidateActivated(s.sup, s.slot["candidate"].id))
    IN  IF applied.err THEN applied
        ELSE IF s.deferred
             THEN RetiredGone(FailRetired(Promote(applied)), s.slot["active"].id, TRUE)
             ELSE IssueOrCompensate(Promote(applied), "retired", "Drain", bad)

\* Mutant (ReplacementEnds): the exit of the retired worker has no deadline.
TerminateForever(s, bad) ==
    IF s.err THEN s
    ELSE IF CanIssue(s, "retired", bad)
         THEN [Issued(s, "retired", "Shutdown") EXCEPT !.slot["retired"].state = "Terminating"]
         ELSE FailRetired(NotIssued(s))

\* The Terminate action for a drained worker; its exit has a deadline.
TerminateRetired(s, bad) ==
    IF s.err THEN s
    ELSE IF CanIssue(s, "retired", bad)
         THEN [Issued(s, "retired", "Shutdown") EXCEPT !.slot["retired"].state = "Terminating",
                                                       !.slot["retired"].deadline = TRUE]
         ELSE FailRetired(NotIssued(s))

\* RetiredDrained asks for a Snapshot, whose capture asks for a Terminate.
ShutDownRetired(s, bad) ==
    LET i == s.slot["retired"].id
        drained == Applied(s, RetiredDrained(s.sup, i))
    IN  Try(drained, TerminateRetired(Applied(drained, RetiredSnapshotCaptured(drained.sup, i)), bad))

-----------------------------------------------------------------------------
(* Observations *)

\* handle_phase_success
HandlePhaseSuccess(s, role, phase, bad) ==
    LET now == PhaseOf(s)
        At(stage, r, p) == s.stage = stage /\ role = r /\ phase = p
    IN
    CASE At("BootAdopting", "active", "AdoptListeners") ->
            IssueOrCompensate([s EXCEPT !.stage = "BootActivating"], "active", "Activate", bad)
      [] At("BootActivating", "active", "Activate") ->
            [s EXCEPT !.stage = "Operational",
                      !.sup = NewSupervisor(s.slot["active"].id, s.slot["active"].id)]
      [] At("Operational", "candidate", "AdoptListeners") /\ now = "AdoptingCandidate" ->
            ThenIssue(Applied(s, CandidatePrepared(s.sup, s.slot["candidate"].id)),
                      "active", "Quiesce", bad)
      [] At("Operational", "active", "Quiesce") /\ now = "Quiescing" ->
            ThenIssue(Applied(s, ActiveQuiesced(s.sup, s.slot["active"].id)),
                      "candidate", "Activate", bad)
      [] At("Operational", "candidate", "Activate") /\ now = "ActivatingCandidate" ->
            CommitCandidate(s, bad)
      [] At("Operational", "active", "Reactivate") /\ now = "RollingBack" ->
            MaybeFinishRollback(Applied(s, ActiveReactivated(s.sup, s.slot["active"].id)))
      [] At("Operational", "retired", "Drain") /\ now = "DrainingRetired" ->
            ShutDownRetired(s, bad)
      [] At("Operational", "retired", "Shutdown") /\ now = "StoppingRetired" -> s
      [] s.stage = "ShuttingDown" /\ phase = "Shutdown" -> s
      [] OTHER -> Fail(s)

\* Mutant (PollSucceeds): an acknowledgement is never stale.
AnswersStale(s, role, ack, bad) ==
    LET answered == [s EXCEPT !.slot[role].pending = NoPending]
    IN  IF ack.ok THEN HandlePhaseSuccess(answered, role, ack.phase, bad)
        ELSE HandlePhaseFailure(answered, role, bad)

\* handle_ack: an acknowledgement that is not of the pending request is stale.
HandleAck(s, role, ack, bad) ==
    IF s.slot[role].pending # [req |-> ack.req, phase |-> ack.phase] THEN s
    ELSE LET answered == [s EXCEPT !.slot[role].pending = NoPending]
         IN  IF ack.ok THEN HandlePhaseSuccess(answered, role, ack.phase, bad)
             ELSE HandlePhaseFailure(answered, role, bad)

\* Mutant (EveryWorkerHasARole): a closed channel is taken for an exit.
DisconnectForgets(s, role, bad) ==
    IF s.slot[role].state # "Running" THEN TakeWorker(s, role)
    ELSE HandlePhaseFailure(s, role, bad)

HandleDisconnect(s, role, bad) ==
    IF s.slot[role].state # "Running" THEN s ELSE HandlePhaseFailure(s, role, bad)

\* Mutant (SlotsMatchSupervisor): the slot of the exited candidate is kept.
CandidateGoneKeepsSlot(s, i) ==
    Try(s, MaybeFinishRollback(Applied(s, CandidateStopped(s.sup, i))))

\* The candidate is gone during a rollback.
CandidateGone(s, i) ==
    Try(s, MaybeFinishRollback(Applied(TakeWorker(s, "candidate"), CandidateStopped(s.sup, i))))

\* handle_exit: an exit of the old active while the candidate activates waits
\* for the candidate's answer.
HandleExit(s, role, bad) ==
    LET i == s.slot[role].id
        now == PhaseOf(s)
        At(r, phases) == s.stage = "Operational" /\ role = r /\ now \in phases
    IN
    IF now = "ActivatingCandidate" /\ role = "active" THEN [s EXCEPT !.deferred = TRUE]
    ELSE CASE s.stage \in {"Failing", "ShuttingDown"} -> TakeWorker(s, role)
           [] At("candidate", {"RollingBack"}) -> CandidateGone(s, i)
           [] At("retired", {"StoppingRetired"}) ->
                 RetiredGone(s, i, s.failure)
           [] At("candidate", {"AdoptingCandidate", "Quiescing", "ActivatingCandidate"}) ->
                 CandidateGone(BeginRollback(s, bad), i)
           [] At("retired", {"DrainingRetired"}) ->
                 RetiredGone(FailRetired(s), i, TRUE)
           [] OTHER -> FailMaster(TakeWorker(s, role))

\* Mutant (ShutdownCompletes): the shutdown deadline kills nobody.
TimeoutNeverForces(s, due, bad) ==
    IF ~due THEN s ELSE [s EXCEPT !.forced = s.stage = "ShuttingDown"]

\* handle_timeout: at most one deadline is acted on, the retired worker's
\* termination first, then the first role with a request pending.
HandleTimeout(s, due, bad) ==
    LET expired == {role \in Roles : s.slot[role].pending # NoPending}
        first == IF "active" \in expired THEN "active"
                 ELSE IF "candidate" \in expired THEN "candidate" ELSE "retired"
    IN
    IF ~due THEN s
    ELSE IF s.stage = "ShuttingDown" THEN ForceAll([s EXCEPT !.forced = TRUE])
    ELSE IF PhaseOf(s) = "StoppingRetired" /\ s.slot["retired"].deadline
         THEN ThenForce(Applied([s EXCEPT !.failure = TRUE, !.slot["retired"].deadline = FALSE],
                                TerminationTimedOut(s.sup, s.slot["retired"].id)),
                        "retired")
         ELSE IF expired = {} THEN s
         ELSE HandlePhaseFailure([s EXCEPT !.slot[first].pending = NoPending], first, bad)

\* Whether next_deadline() is Some.
HasDeadline(s) ==
    \/ s.stage = "ShuttingDown"
    \/ \E role \in Roles : s.slot[role].pending # NoPending \/ s.slot[role].deadline

\* observe: the exit of the process comes before its frames, is reported once,
\* and is seen again only through a channel the master still holds open.
Observed(s, role) ==
    LET w == s.slot[role]
        p == s.proc[w.id]
        Seen(kind) == [kind |-> kind, id |-> w.id, req |-> 0, phase |-> "None", ok |-> FALSE]
    IN  IF \/ ~Present(s, role)
           \/ role = "active" /\ s.deferred /\ PhaseOf(s) = "ActivatingCandidate"
        THEN Seen("Nothing")
        ELSE IF p.run = "gone"
             THEN Seen(IF w.reported /\ ~w.open THEN "Nothing" ELSE "Exit")
        ELSE IF ~w.open THEN Seen("Nothing")
        ELSE IF p.outbox # << >>
             THEN LET frame == Head(p.outbox)
                  IN  [Seen(frame.kind) EXCEPT !.req = frame.req, !.phase = frame.phase,
                                               !.ok = frame.ok]
        ELSE Seen(IF p.linked THEN "Nothing" ELSE "Disconnected")

\* What observing leaves behind: the frame is consumed, the exit reported, a
\* closed channel given up.
Consumed(s, role, o) ==
    CASE o.kind = "Exit" -> [s EXCEPT !.slot[role].reported = TRUE]
      [] o.kind = "Disconnected" -> [s EXCEPT !.slot[role].open = FALSE]
      [] o.kind \in {"Ack", "Bad"} -> [s EXCEPT !.proc[o.id].outbox = Tail(@)]
      [] OTHER -> s

\* handle_observation, for the role the instance holds by then.
Handle(s, o, bad) ==
    LET role == RoleFor(s, o.id) IN
    IF o.kind = "Nothing" \/ role = "None" \/ s.err THEN s
    ELSE CASE o.kind = "Ack" -> HandleAck(s, role, o, bad)
           [] o.kind = "Exit" -> HandleExit(s, role, bad)
           [] o.kind = "Disconnected" -> HandleDisconnect(s, role, bad)
           [] o.kind = "Bad" -> HandlePhaseFailure(s, role, bad)

\* Mutant (RunnerEnds): a failing master with no workers left is not Failed.
FinishShutdownOnly(s) ==
    IF s.stage = "ShuttingDown" /\ \A role \in Roles : ~Present(s, role)
    THEN [s EXCEPT !.stage = "Stopped"] ELSE s

FinishTerminalStates(s) ==
    IF s.err \/ \E role \in Roles : Present(s, role) THEN s
    ELSE CASE s.stage = "ShuttingDown" -> [s EXCEPT !.stage = "Stopped"]
           [] s.stage = "Failing" -> [s EXCEPT !.stage = "Failed"]
           [] OTHER -> s

\* One observation per role, taken before any is handled.
Collect(s) ==
    LET a == Observed(s, "active")
        c == Observed(s, "candidate")
        r == Observed(s, "retired")
        activated == /\ PhaseOf(s) = "ActivatingCandidate"
                     /\ c.kind = "Ack" /\ c.phase = "Activate" /\ c.ok
    IN  [rest |-> Consumed(Consumed(Consumed(s, "active", a), "candidate", c), "retired", r),
         list |-> IF activated THEN <<c, a, r>> ELSE <<a, c, r>>]

HandleAll(s, observed, bad) ==
    Handle(Handle(Handle(s, observed[1], bad), observed[2], bad), observed[3], bad)

\* Mutant (FailingEnds): an exit deferred while failing is not reaped.
DeferredStays(s) == s

\* The first act of poll after the timeouts: fail_master again while failing.
FailAgain(s) == IF ~s.err /\ s.stage = "Failing" THEN FailMaster(s) ELSE s

\* The part of poll after fail_master: observe every role, handle, finish.
ObserveAndHandle(s, bad) ==
    LET seen == Collect(s)
    IN  Try(s, FinishTerminalStates(HandleAll(seen.rest, seen.list, bad)))

\* Master::poll.  Queued events are drained by a call that returns Ok; the
\* result keeps them in events for the caller to take.
Poll(s, due, bad) == ObserveAndHandle(FailAgain(HandleTimeout(s, due, bad)), bad)

-----------------------------------------------------------------------------
(* Calls of the runner other than poll *)

\* launch_with_executor: the first worker, and its adoption request.
Launch(s, i, process, bad) ==
    LET born == [s EXCEPT !.slot["active"] = NewSlot(i), !.proc[i] = process]
    IN  IssueOrCompensate(born, "active", "AdoptListeners", bad)

\* replace.  Spawning may fail, which leaves the supervisor as it was; the
\* instance's identity doubles as its generation.
Replace(s, i, process, spawned, bad) ==
    LET answer == Begin(s.sup, Instance(i, i, "Spawned"))
        born == [s EXCEPT !.slot["candidate"] = NewSlot(i), !.proc[i] = process,
                          !.sup = answer.sup]
        met == Applied(born, CandidateSpawned(born.sup, i))
        preparing == Applied(met, CandidateHandshakeComplete(met.sup, i))
    IN  IF ~IsRunning(s) \/ ~answer.ok THEN Fail(s)
        ELSE IF ~spawned THEN Fail(Emit(s, "SpawnFailed", i, NoInstance))
        ELSE Try(met, ThenIssue(preparing, "candidate", "AdoptListeners", bad))

\* One worker of shutdown(): asked to stop, or killed if it cannot be asked.
AskToStop(s, role, bad) ==
    IF s.err \/ ~Present(s, role) THEN s
    ELSE IF CanIssue(s, role, bad)
         THEN [Issued(s, role, "Shutdown") EXCEPT !.slot[role].state = "Terminating"]
         ELSE [ForceRole(NotIssued(s), role) EXCEPT !.forced = TRUE]

\* shutdown: a deferred active exit is reaped, the supervisor given up and every
\* worker asked to stop.
Shutdown(s, bad) ==
    LET reaped == IF s.deferred THEN TakeWorker(s, "active") ELSE s
        closing == [reaped EXCEPT !.stage = "ShuttingDown", !.forced = FALSE, !.deferred = FALSE,
                                  !.sup = NoSupervisor, !.failure = FALSE]
    IN  AskToStop(AskToStop(AskToStop(closing, "active", bad), "candidate", bad), "retired", bad)
=============================================================================
