----------------------------- MODULE Replacement -----------------------------
(***************************************************************************)
(* The pure replacement state machine of crates/oxiroute-supervision: the   *)
(* lifecycle relation of one supervised instance and the role ownership of  *)
(* ReplacementSupervisor.  Every operator here is a function of its         *)
(* arguments; ReplacementSupervisor.tla gives the machine its variables and *)
(* Master.tla drives it from process observations.                          *)
(*                                                                          *)
(* A supervisor is a record [active, candidate, retired] of instances.  An  *)
(* empty Option<Instance> is the instance Vacant.  Applying an event gives  *)
(* a reply [sup, ok, actions]: the supervisor left behind, whether apply    *)
(* returned Ok, and the side effects it asked for.  The supervisor left     *)
(* behind by an Err is the one the code has mutated so far, not the one it  *)
(* started from.                                                            *)
(***************************************************************************)
EXTENDS Naturals, Sequences

CONSTANTS
    InstanceIds,    \* identities of service instances
    NoInstance      \* the identity of an empty role

ASSUME NoInstanceAssumption == NoInstance \notin InstanceIds

Lifecycles ==
    {"Spawned", "Handshaking", "Preparing", "Ready", "Activating", "Active",
     "Quiescing", "Reactivating", "Draining", "Snapshotting", "Stopping",
     "Stopped", "Failed"}

\* The edges of can_transition_to other than those into Stopping and Failed.
ForwardEdges ==
    {<<"Spawned", "Handshaking">>, <<"Handshaking", "Preparing">>,
     <<"Preparing", "Ready">>, <<"Ready", "Activating">>,
     <<"Activating", "Active">>, <<"Reactivating", "Active">>,
     <<"Active", "Quiescing">>, <<"Quiescing", "Reactivating">>,
     <<"Quiescing", "Draining">>, <<"Draining", "Snapshotting">>,
     <<"Stopping", "Stopped">>}

CanTransition(from, to) ==
    \/ <<from, to>> \in ForwardEdges
    \/ to = "Stopping" /\ from \in Lifecycles \ {"Draining", "Stopping", "Stopped"}
    \/ to = "Failed" /\ from \in Lifecycles \ {"Stopped", "Failed"}

-----------------------------------------------------------------------------
(* Instances and roles *)

Instance(i, g, l) == [instance_id |-> i, generation_id |-> g, lifecycle |-> l]

Vacant == Instance(NoInstance, 0, "Vacant")

Occupied(instance) == instance.instance_id # NoInstance

\* ReplacementSupervisor::new around an instance that is already active.
NewSupervisor(i, g) ==
    [active |-> Instance(i, g, "Active"), candidate |-> Vacant, retired |-> Vacant]

\* expect_*_id: the role is occupied by instance i.
Holds(sup, role, i) == Occupied(sup[role]) /\ sup[role].instance_id = i

\* The role's instance moved to a lifecycle.
Moved(sup, role, l) == [sup EXCEPT ![role].lifecycle = l]

\* The events that name instance i in a role and expect a lifecycle of it.
InState(sup, role, i, l) == Holds(sup, role, i) /\ sup[role].lifecycle = l

Phase(sup) ==
    CASE Occupied(sup.retired) ->
            CASE sup.retired.lifecycle \in {"Draining", "Snapshotting"} -> "DrainingRetired"
              [] sup.retired.lifecycle = "Stopping" -> "StoppingRetired"
              [] OTHER -> "Unreachable"
      [] ~Occupied(sup.retired) /\ Occupied(sup.candidate) ->
            CASE sup.candidate.lifecycle \in {"Spawned", "Handshaking", "Preparing"} ->
                    "AdoptingCandidate"
              [] sup.candidate.lifecycle = "Ready" -> "Quiescing"
              [] sup.candidate.lifecycle = "Activating" -> "ActivatingCandidate"
              [] sup.candidate.lifecycle = "Stopping" -> "RollingBack"
              [] OTHER -> "Unreachable"
      [] OTHER ->
            IF sup.active.lifecycle = "Reactivating" THEN "RollingBack" ELSE "Running"

-----------------------------------------------------------------------------
(* Events *)

Action(kind, i) == [kind |-> kind, instance_id |-> i]

Accept(sup, actions) == [sup |-> sup, ok |-> TRUE, actions |-> actions]

\* An error return: sup is whatever the handler has already written.
Reject(sup) == [sup |-> sup, ok |-> FALSE, actions |-> << >>]

\* Mutant (RolesAgree): the quiesced active is not recalled.
FailedWithoutRecall(sup, i) ==
    IF Holds(sup, "candidate", i) /\ CanTransition(sup.candidate.lifecycle, "Failed")
    THEN Accept(Moved(sup, "candidate", "Stopping"), <<Action("Terminate", i)>>)
    ELSE Reject(sup)

\* Mutant (ImplementsHandover): any lifecycle but Active is resumed.
ReactivatedFromQuiescing(sup, i) ==
    IF Holds(sup, "active", i) /\ sup.active.lifecycle # "Active"
    THEN Accept(Moved(sup, "active", "Active"), << >>)
    ELSE Reject(sup)

Begin(sup, candidate) ==
    IF /\ ~Occupied(sup.candidate) /\ ~Occupied(sup.retired)
       /\ sup.active.lifecycle = "Active"
       /\ candidate.lifecycle = "Spawned"
       /\ candidate.instance_id # sup.active.instance_id
       /\ candidate.generation_id > sup.active.generation_id
    THEN Accept([sup EXCEPT !.candidate = candidate],
                <<Action("Spawn", candidate.instance_id)>>)
    ELSE Reject(sup)

CandidateSpawned(sup, i) ==
    IF InState(sup, "candidate", i, "Spawned")
    THEN Accept(Moved(sup, "candidate", "Handshaking"), << >>)
    ELSE Reject(sup)

CandidateHandshakeComplete(sup, i) ==
    IF InState(sup, "candidate", i, "Handshaking")
    THEN Accept(Moved(sup, "candidate", "Preparing"), <<Action("Prepare", i)>>)
    ELSE Reject(sup)

\* The candidate is Ready before the active instance's transition is tried.
CandidatePrepared(sup, i) ==
    IF ~InState(sup, "candidate", i, "Preparing") THEN Reject(sup)
    ELSE LET ready == Moved(sup, "candidate", "Ready")
         IN  IF CanTransition(sup.active.lifecycle, "Quiescing")
             THEN Accept(Moved(ready, "active", "Quiescing"),
                         <<Action("Quiesce", sup.active.instance_id)>>)
             ELSE Reject(ready)

\* activate_candidate: the candidate has left its role, and the active role has
\* been overwritten, before the old instance's transition to Draining is tried.
CandidateActivated(sup, i) ==
    IF ~InState(sup, "candidate", i, "Activating") THEN Reject(sup)
    ELSE LET promoted == [active |-> [sup.candidate EXCEPT !.lifecycle = "Active"],
                          candidate |-> Vacant,
                          retired |-> sup.retired]
         IN  IF CanTransition(sup.active.lifecycle, "Draining")
             THEN Accept([promoted EXCEPT !.retired = [sup.active EXCEPT !.lifecycle = "Draining"]],
                         <<Action("Drain", sup.active.instance_id)>>)
             ELSE Reject(promoted)

\* fail_candidate: Failed, then Stopping, then the active instance is recalled
\* if it was quiescing.
CandidateFailed(sup, i) ==
    IF ~Holds(sup, "candidate", i) \/ ~CanTransition(sup.candidate.lifecycle, "Failed")
    THEN Reject(sup)
    ELSE LET stopping == Moved(sup, "candidate", "Stopping")
         IN  IF sup.active.lifecycle = "Quiescing"
             THEN Accept(Moved(stopping, "active", "Reactivating"),
                         <<Action("Activate", sup.active.instance_id), Action("Terminate", i)>>)
             ELSE Accept(stopping, <<Action("Terminate", i)>>)

CandidateStopped(sup, i) ==
    IF InState(sup, "candidate", i, "Stopping")
    THEN Accept([sup EXCEPT !.candidate = Vacant], << >>)
    ELSE Reject(sup)

ActiveQuiesced(sup, i) ==
    IF /\ InState(sup, "active", i, "Quiescing")
       /\ Occupied(sup.candidate) /\ sup.candidate.lifecycle = "Ready"
    THEN Accept(Moved(sup, "candidate", "Activating"),
                <<Action("Activate", sup.candidate.instance_id)>>)
    ELSE Reject(sup)

ActiveReactivated(sup, i) ==
    IF Holds(sup, "active", i) /\ CanTransition(sup.active.lifecycle, "Active")
    THEN Accept(Moved(sup, "active", "Active"), << >>)
    ELSE Reject(sup)

RetiredDrained(sup, i) ==
    IF InState(sup, "retired", i, "Draining")
    THEN Accept(Moved(sup, "retired", "Snapshotting"), <<Action("Snapshot", i)>>)
    ELSE Reject(sup)

RetiredSnapshotCaptured(sup, i) ==
    IF InState(sup, "retired", i, "Snapshotting")
    THEN Accept(Moved(sup, "retired", "Stopping"), <<Action("Terminate", i)>>)
    ELSE Reject(sup)

\* Failed, then Stopping.
RetiredFailed(sup, i) ==
    IF Holds(sup, "retired", i) /\ CanTransition(sup.retired.lifecycle, "Failed")
    THEN Accept(Moved(sup, "retired", "Stopping"), <<Action("Kill", i)>>)
    ELSE Reject(sup)

RetiredStopped(sup, i) ==
    IF InState(sup, "retired", i, "Stopping")
    THEN Accept([sup EXCEPT !.retired = Vacant], << >>)
    ELSE Reject(sup)

\* ensure_stopping looks at the candidate and the retired role only.
TerminationTimedOut(sup, i) ==
    IF \E role \in {"candidate", "retired"} : InState(sup, role, i, "Stopping")
    THEN Accept(sup, <<Action("Kill", i)>>)
    ELSE Reject(sup)
=============================================================================
