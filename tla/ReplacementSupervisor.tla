------------------------ MODULE ReplacementSupervisor ------------------------
(***************************************************************************)
(* ReplacementSupervisor as a state machine of its own: any event, naming   *)
(* any instance, may be applied in any state.  This is the promise the pure *)
(* machine makes to every caller, whatever order its observations arrive in *)
(* (Master.tla is one such caller).                                         *)
(***************************************************************************)
EXTENDS Replacement

CONSTANT Generations    \* generation ids a candidate may carry

ASSUME GenerationsAssumption == Generations \subseteq Nat

VARIABLES
    sup,    \* the three roles
    reply   \* what the last apply returned: its actions, or an error

vars == <<sup, reply>>

Returns(r) == sup' = r.sup /\ reply' = [ok |-> r.ok, actions |-> r.actions]

Init ==
    /\ \E i \in InstanceIds, g \in Generations : sup = NewSupervisor(i, g)
    /\ reply = [ok |-> TRUE, actions |-> << >>]

\* Begin is offered every instance, of any lifecycle and generation.
BeginStep ==
    \E i \in InstanceIds, g \in Generations, l \in Lifecycles :
        Returns(Begin(sup, Instance(i, g, l)))

CandidateStep(i) ==
    \/ Returns(CandidateSpawned(sup, i))
    \/ Returns(CandidateHandshakeComplete(sup, i))
    \/ Returns(CandidatePrepared(sup, i))
    \/ Returns(CandidateActivated(sup, i))
    \/ Returns(CandidateFailed(sup, i))
    \/ Returns(CandidateStopped(sup, i))

ActiveStep(i) ==
    \/ Returns(ActiveQuiesced(sup, i))
    \/ Returns(ActiveReactivated(sup, i))

RetiredStep(i) ==
    \/ Returns(RetiredDrained(sup, i))
    \/ Returns(RetiredSnapshotCaptured(sup, i))
    \/ Returns(RetiredFailed(sup, i))
    \/ Returns(RetiredStopped(sup, i))

TimeoutStep(i) == Returns(TerminationTimedOut(sup, i))

Next ==
    \/ BeginStep
    \/ \E i \in InstanceIds :
          CandidateStep(i) \/ ActiveStep(i) \/ RetiredStep(i) \/ TimeoutStep(i)

Spec == Init /\ [][Next]_vars

-----------------------------------------------------------------------------
(* Properties *)

Instances ==
    [instance_id : InstanceIds, generation_id : Generations, lifecycle : Lifecycles]

Supervisors ==
    [active : Instances, candidate : Instances \cup {Vacant}, retired : Instances \cup {Vacant}]

ActionKinds ==
    {"Spawn", "Prepare", "Activate", "Quiesce", "Drain", "Snapshot", "Terminate", "Kill"}

Actions == [kind : ActionKinds, instance_id : InstanceIds]

\* The roles hold instances, only the active role is always occupied, and the
\* reply is a Result of replacement actions.
TypeOK ==
    /\ sup \in Supervisors
    /\ reply \in [ok : BOOLEAN, actions : Seq(Actions)]

\* What the lifecycles of the three roles may be at the same time.  This is the
\* agreement between roles that the code never writes down: it is what makes
\* the second transition of CandidatePrepared and of CandidateActivated
\* succeed, and what makes phase() total.
RolesAgree ==
    /\ ~(Occupied(sup.candidate) /\ Occupied(sup.retired))
    /\ Occupied(sup.candidate) =>
         \/ /\ sup.candidate.lifecycle \in {"Spawned", "Handshaking", "Preparing"}
            /\ sup.active.lifecycle = "Active"
         \/ /\ sup.candidate.lifecycle \in {"Ready", "Activating"}
            /\ sup.active.lifecycle = "Quiescing"
         \/ /\ sup.candidate.lifecycle = "Stopping"
            /\ sup.active.lifecycle \in {"Active", "Reactivating"}
    /\ Occupied(sup.retired) =>
         /\ sup.retired.lifecycle \in {"Draining", "Snapshotting", "Stopping"}
         /\ sup.active.lifecycle = "Active"
    /\ ~Occupied(sup.candidate) => sup.active.lifecycle \in {"Active", "Reactivating"}

\* Roles are held by different instances, and generations grow from the
\* retired to the active to the candidate role, as begin requires of a
\* candidate and as promotion must keep.
GenerationsOrdered ==
    /\ Occupied(sup.candidate) =>
         /\ sup.candidate.instance_id # sup.active.instance_id
         /\ sup.candidate.generation_id > sup.active.generation_id
    /\ Occupied(sup.retired) =>
         /\ sup.retired.instance_id # sup.active.instance_id
         /\ sup.retired.generation_id < sup.active.generation_id

\* phase() reaches neither of its unreachable!() arms, in any state any
\* sequence of accepted and rejected events leads to.
PhaseIsTotal == Phase(sup) # "Unreachable"

\* apply's comment: state is changed only after all preconditions of the event
\* have been checked, so an event that returns an error has changed nothing.
\* The handlers check some preconditions after their first write, so this
\* rests on RolesAgree.
RejectedEventChangesNothing == [][reply'.ok \/ sup' = sup]_vars

\* The active role changes hands only from an instance that has stopped
\* admitting work to the candidate that was activating, of a newer generation,
\* and the old instance is retired rather than forgotten.
OwnershipHandedOver ==
    [][sup'.active.instance_id # sup.active.instance_id =>
         /\ sup.active.lifecycle = "Quiescing"
         /\ sup.candidate.lifecycle = "Activating"
         /\ sup'.active = [sup.candidate EXCEPT !.lifecycle = "Active"]
         /\ sup'.active.generation_id > sup.active.generation_id
         /\ sup'.retired.instance_id = sup.active.instance_id]_vars

HeldBy(s, i) == \E role \in DOMAIN s : s[role].instance_id = i

LeavesOnlyStopped ==
    \A i \in InstanceIds :
        HeldBy(sup, i) /\ ~HeldBy(sup', i) =>
            \E role \in {"candidate", "retired"} : InState(sup, role, i, "Stopping")

\* No process is lost track of: an instance that holds a role keeps holding one
\* until it is reported stopped while it was stopping.
InstanceLeavesOnlyStopped == [][LeavesOnlyStopped]_vars

(* Refinement of Handover *)

Waiting == Occupied(sup.candidate) /\ sup.candidate.lifecycle # "Stopping"

H == INSTANCE Handover WITH
        owner <- sup.active.instance_id,
        age <- sup.active.generation_id,
        admitting <- sup.active.lifecycle = "Active",
        heir <- IF Waiting
                THEN [id |-> sup.candidate.instance_id, age |-> sup.candidate.generation_id]
                ELSE [id |-> NoInstance, age |-> 0],
        leaving <- IF Occupied(sup.retired) THEN sup.retired.instance_id
                   ELSE IF Occupied(sup.candidate) /\ ~Waiting
                        THEN sup.candidate.instance_id
                        ELSE NoInstance

\* Seen as an owner, an heir and a leaver, every event of the supervisor is one
\* step of the handover protocol or changes nothing.
ImplementsHandover == H!Spec
=============================================================================
