-------------------------- MODULE Supervision_proofs --------------------------
(***************************************************************************)
(* Proofs about the three data structures of crates/oxiroute-supervision:   *)
(* the replacement supervisor, for every set of identities and of           *)
(* generations; the generation catalog, for every set of instance ids and   *)
(* revisions and every width of the generation ids; and the correlation     *)
(* table, for every set of request ids, every capacity and every width of   *)
(* the generation counter.                                                  *)
(*                                                                          *)
(* The handlers of Replacement.tla are functions with several returns.  The *)
(* proofs first reduce them, under the inductive invariant, to the ten      *)
(* things a step can do to the roles (StepEffect), and prove the invariant, *)
(* the action properties and the refinement of Handover from those.         *)
(*                                                                          *)
(* The inductive invariant of the catalog adds to the watermarks what they  *)
(* know of the past: nothing above the high watermark has been reserved and *)
(* nothing above the consumed watermark has been accepted.                  *)
(***************************************************************************)
EXTENDS ReplacementSupervisor, GenerationCatalog, CorrelationTable, FiniteSetTheorems, TLAPS

-----------------------------------------------------------------------------
(* The replacement supervisor *)

IInv == TypeOK /\ RolesAgree /\ GenerationsOrdered

-----------------------------------------------------------------------------
(* The effects of a step on the roles *)

\* An instance with another lifecycle, spelled out field by field.
At(instance, l) == Instance(instance.instance_id, instance.generation_id, l)

Roles(x, y, z) == [active |-> x, candidate |-> y, retired |-> z]

Nothing == sup' = sup

Begins ==
    \E i \in InstanceIds, g \in Generations :
        /\ ~Occupied(sup.candidate) /\ ~Occupied(sup.retired)
        /\ sup.active.lifecycle = "Active"
        /\ i # sup.active.instance_id /\ g > sup.active.generation_id
        /\ sup' = Roles(sup.active, Instance(i, g, "Spawned"), sup.retired)

Advances ==
    \E from, to \in Lifecycles :
        /\ <<from, to>> \in {<<"Spawned", "Handshaking">>, <<"Handshaking", "Preparing">>,
                             <<"Ready", "Activating">>}
        /\ Occupied(sup.candidate) /\ sup.candidate.lifecycle = from
        /\ sup' = Roles(sup.active, At(sup.candidate, to), sup.retired)

Quiesces ==
    /\ Occupied(sup.candidate) /\ sup.candidate.lifecycle = "Preparing"
    /\ sup' = Roles(At(sup.active, "Quiescing"), At(sup.candidate, "Ready"), sup.retired)

Promotes ==
    /\ Occupied(sup.candidate) /\ sup.candidate.lifecycle = "Activating"
    /\ sup' = Roles(At(sup.candidate, "Active"), Vacant, At(sup.active, "Draining"))

Abandons ==
    /\ Occupied(sup.candidate)
    /\ sup' = Roles(IF sup.active.lifecycle = "Quiescing" THEN At(sup.active, "Reactivating")
                                                         ELSE sup.active,
                    At(sup.candidate, "Stopping"), sup.retired)

DropsCandidate ==
    /\ Occupied(sup.candidate) /\ sup.candidate.lifecycle = "Stopping"
    /\ sup' = Roles(sup.active, Vacant, sup.retired)

Reactivates ==
    /\ sup.active.lifecycle = "Reactivating"
    /\ sup' = Roles(At(sup.active, "Active"), sup.candidate, sup.retired)

Retires ==
    \E to \in {"Snapshotting", "Stopping"} :
        /\ Occupied(sup.retired)
        /\ sup' = Roles(sup.active, sup.candidate, At(sup.retired, to))

DropsRetired ==
    /\ Occupied(sup.retired) /\ sup.retired.lifecycle = "Stopping"
    /\ sup' = Roles(sup.active, sup.candidate, Vacant)

Effect ==
    \/ Nothing \/ Begins \/ Advances \/ Quiesces \/ Promotes \/ Abandons
    \/ DropsCandidate \/ Reactivates \/ Retires \/ DropsRetired

ReplyOK == reply' \in [ok : BOOLEAN, actions : Seq(Actions)]

\* What every handler does: one of the effects, nothing when it returns an
\* error, and a well-formed reply.
Outcome == Effect /\ (reply'.ok \/ Nothing) /\ ReplyOK

-----------------------------------------------------------------------------
(* Updating a role *)

LEMMA ExceptLifecycle ==
    ASSUME NEW x \in Instances \cup {Vacant}, NEW l
    PROVE  [x EXCEPT !.lifecycle = l] = At(x, l)
<1>1. CASE x \in Instances
  BY <1>1 DEF Instances, At, Instance
<1>2. CASE x = Vacant
  BY <1>2 DEF Vacant, At, Instance
<1> QED BY <1>1, <1>2

LEMMA SetRole ==
    ASSUME NEW s \in Supervisors, NEW v
    PROVE  /\ s = Roles(s.active, s.candidate, s.retired)
           /\ [s EXCEPT !.active = v] = Roles(v, s.candidate, s.retired)
           /\ [s EXCEPT !.candidate = v] = Roles(s.active, v, s.retired)
           /\ [s EXCEPT !.retired = v] = Roles(s.active, s.candidate, v)
BY DEF Roles, Supervisors

LEMMA MovedActive ==
    ASSUME NEW s \in Supervisors, NEW l
    PROVE  Moved(s, "active", l) = Roles(At(s.active, l), s.candidate, s.retired)
<1>1. Moved(s, "active", l) = [s EXCEPT !.active = [s.active EXCEPT !.lifecycle = l]]
  BY DEF Moved
<1>2. [s.active EXCEPT !.lifecycle = l] = At(s.active, l)
  BY ExceptLifecycle DEF Supervisors
<1> QED BY <1>1, <1>2, SetRole

LEMMA MovedCandidate ==
    ASSUME NEW s \in Supervisors, NEW l
    PROVE  Moved(s, "candidate", l) = Roles(s.active, At(s.candidate, l), s.retired)
<1>1. Moved(s, "candidate", l) = [s EXCEPT !.candidate = [s.candidate EXCEPT !.lifecycle = l]]
  BY DEF Moved
<1>2. [s.candidate EXCEPT !.lifecycle = l] = At(s.candidate, l)
  BY ExceptLifecycle DEF Supervisors
<1> QED BY <1>1, <1>2, SetRole

LEMMA MovedRetired ==
    ASSUME NEW s \in Supervisors, NEW l
    PROVE  Moved(s, "retired", l) = Roles(s.active, s.candidate, At(s.retired, l))
<1>1. Moved(s, "retired", l) = [s EXCEPT !.retired = [s.retired EXCEPT !.lifecycle = l]]
  BY DEF Moved
<1>2. [s.retired EXCEPT !.lifecycle = l] = At(s.retired, l)
  BY ExceptLifecycle DEF Supervisors
<1>3. [s EXCEPT !.retired = At(s.retired, l)] = Roles(s.active, s.candidate, At(s.retired, l))
  BY SetRole
<1> QED BY <1>1, <1>2, <1>3

\* A role is held by an instance of the machine or is Vacant.
LEMMA RoleFacts ==
    ASSUME TypeOK
    PROVE  /\ sup.active \in Instances
           /\ Occupied(sup.candidate) => sup.candidate \in Instances
           /\ Occupied(sup.retired) => sup.retired \in Instances
           /\ ~Occupied(sup.candidate) => sup.candidate = Vacant
           /\ ~Occupied(sup.retired) => sup.retired = Vacant
BY NoInstanceAssumption DEF TypeOK, Supervisors, Occupied, Vacant, Instance, Instances

\* A candidate moved to a lifecycle leaves a supervisor.
LEMMA MovedType ==
    ASSUME TypeOK, Occupied(sup.candidate), NEW l \in Lifecycles
    PROVE  /\ At(sup.candidate, l) \in Instances
           /\ Roles(sup.active, At(sup.candidate, l), sup.retired) \in Supervisors
<1>1. At(sup.candidate, l) \in Instances
  BY RoleFacts DEF Instances, At, Instance
<1> QED BY <1>1 DEF TypeOK, Supervisors, Roles

-----------------------------------------------------------------------------
(* Each handler has an outcome *)

LEMMA RejectOutcome ==
    ASSUME Returns(Reject(sup))
    PROVE  Outcome
<1>1. sup' = sup /\ reply' = [ok |-> FALSE, actions |-> << >>]
  BY DEF Returns, Reject
<1>2. << >> \in Seq(Actions)
  OBVIOUS
<1> QED BY <1>1, <1>2 DEF Outcome, Effect, Nothing, ReplyOK

LEMMA AcceptOutcome ==
    ASSUME NEW s, NEW actions \in Seq(Actions), Returns(Accept(s, actions)),
           sup' = s => Effect
    PROVE  Outcome
<1>1. sup' = s /\ reply' = [ok |-> TRUE, actions |-> actions]
  BY DEF Returns, Accept
<1> QED BY <1>1 DEF Outcome, ReplyOK

\* Actions that name instances of the machine make a well-formed reply.
LEMMA ActionsType ==
    ASSUME NEW i \in InstanceIds, NEW j \in InstanceIds,
           NEW kind \in ActionKinds, NEW other \in ActionKinds
    PROVE  /\ << >> \in Seq(Actions)
           /\ <<Action(kind, i)>> \in Seq(Actions)
           /\ <<Action(kind, i), Action(other, j)>> \in Seq(Actions)
BY DEF Action, Actions

LEMMA BeginOutcome ==
    ASSUME IInv, NEW i \in InstanceIds, NEW g \in Generations, NEW l \in Lifecycles,
           Returns(Begin(sup, Instance(i, g, l)))
    PROVE  Outcome
<1> DEFINE Guard == /\ ~Occupied(sup.candidate) /\ ~Occupied(sup.retired)
                    /\ sup.active.lifecycle = "Active"
                    /\ l = "Spawned"
                    /\ i # sup.active.instance_id
                    /\ g > sup.active.generation_id
<1>0. /\ Instance(i, g, l).lifecycle = l /\ Instance(i, g, l).instance_id = i
      /\ Instance(i, g, l).generation_id = g
  BY DEF Instance
<1>1. CASE Guard
  <2>1. [sup EXCEPT !.candidate = Instance(i, g, l)]
            = Roles(sup.active, Instance(i, g, "Spawned"), sup.retired)
    BY <1>1, SetRole DEF IInv, TypeOK
  <2>2. Returns(Accept(Roles(sup.active, Instance(i, g, "Spawned"), sup.retired),
                       <<Action("Spawn", i)>>))
    BY <1>0, <1>1, <2>1 DEF Begin
  <2>3. sup' = Roles(sup.active, Instance(i, g, "Spawned"), sup.retired) => Begins
    BY <1>1 DEF Begins
  <2>4. <<Action("Spawn", i)>> \in Seq(Actions)
    BY ActionsType DEF ActionKinds
  <2> HIDE DEF Guard
  <2> QED BY <2>2, <2>3, <2>4, AcceptOutcome DEF Effect
<1>2. CASE ~Guard
  BY <1>0, <1>2, RejectOutcome DEF Begin
<1> QED BY <1>1, <1>2

LEMMA CandidateSpawnedOutcome ==
    ASSUME IInv, NEW i \in InstanceIds, Returns(CandidateSpawned(sup, i))
    PROVE  Outcome
<1>1. CASE InState(sup, "candidate", i, "Spawned")
  <2>1. Returns(Accept(Roles(sup.active, At(sup.candidate, "Handshaking"), sup.retired),
                       << >>))
    BY <1>1, MovedCandidate DEF IInv, TypeOK, CandidateSpawned
  <2>2. sup' = Roles(sup.active, At(sup.candidate, "Handshaking"), sup.retired) => Advances
    BY <1>1 DEF Advances, InState, Holds, Lifecycles
  <2>3. << >> \in Seq(Actions)
    BY ActionsType DEF ActionKinds
  <2> QED BY <2>1, <2>2, <2>3, AcceptOutcome DEF Effect
<1>2. CASE ~(InState(sup, "candidate", i, "Spawned"))
  BY <1>2, RejectOutcome DEF CandidateSpawned
<1> QED BY <1>1, <1>2

LEMMA CandidateHandshakeCompleteOutcome ==
    ASSUME IInv, NEW i \in InstanceIds, Returns(CandidateHandshakeComplete(sup, i))
    PROVE  Outcome
<1>1. CASE InState(sup, "candidate", i, "Handshaking")
  <2>1. Returns(Accept(Roles(sup.active, At(sup.candidate, "Preparing"), sup.retired),
                       <<Action("Prepare", i)>>))
    BY <1>1, MovedCandidate DEF IInv, TypeOK, CandidateHandshakeComplete
  <2>2. sup' = Roles(sup.active, At(sup.candidate, "Preparing"), sup.retired) => Advances
    BY <1>1 DEF Advances, InState, Holds, Lifecycles
  <2>3. <<Action("Prepare", i)>> \in Seq(Actions)
    BY ActionsType DEF ActionKinds
  <2> QED BY <2>1, <2>2, <2>3, AcceptOutcome DEF Effect
<1>2. CASE ~(InState(sup, "candidate", i, "Handshaking"))
  BY <1>2, RejectOutcome DEF CandidateHandshakeComplete
<1> QED BY <1>1, <1>2

\* The candidate's role agrees with the active one, so the second transition of
\* CandidatePrepared succeeds.
LEMMA CandidatePreparedOutcome ==
    ASSUME IInv, NEW i \in InstanceIds, Returns(CandidatePrepared(sup, i))
    PROVE  Outcome
<1> DEFINE new == Roles(At(sup.active, "Quiescing"), At(sup.candidate, "Ready"), sup.retired)
<1>1. CASE InState(sup, "candidate", i, "Preparing")
  <2>1. sup.active.lifecycle = "Active"
    BY <1>1 DEF IInv, RolesAgree, InState, Holds
  <2>2. CanTransition(sup.active.lifecycle, "Quiescing")
    BY <2>1 DEF CanTransition, ForwardEdges
  <2>3. Moved(Moved(sup, "candidate", "Ready"), "active", "Quiescing") = new
    <3>1. Moved(sup, "candidate", "Ready") = Roles(sup.active, At(sup.candidate, "Ready"), sup.retired)
      BY MovedCandidate DEF IInv, TypeOK
    <3>2. Roles(sup.active, At(sup.candidate, "Ready"), sup.retired) \in Supervisors
      BY <1>1, MovedType DEF IInv, InState, Holds, Lifecycles
    <3> QED BY <3>1, <3>2, MovedActive DEF Roles
  <2>4. Returns(Accept(new, <<Action("Quiesce", sup.active.instance_id)>>))
    BY <1>1, <2>2, <2>3 DEF CandidatePrepared
  <2>5. sup' = new => Quiesces
    BY <1>1 DEF Quiesces, InState, Holds
  <2>6. <<Action("Quiesce", sup.active.instance_id)>> \in Seq(Actions)
    <3>1. sup.active.instance_id \in InstanceIds
      BY DEF IInv, TypeOK, Supervisors, Instances
    <3> QED BY <3>1, ActionsType DEF ActionKinds
  <2> QED BY <2>4, <2>5, <2>6, AcceptOutcome DEF Effect
<1>2. CASE ~InState(sup, "candidate", i, "Preparing")
  BY <1>2, RejectOutcome DEF CandidatePrepared
<1> QED BY <1>1, <1>2

\* The old instance is Quiescing, so retiring it after the promotion succeeds.
LEMMA CandidateActivatedOutcome ==
    ASSUME IInv, NEW i \in InstanceIds, Returns(CandidateActivated(sup, i))
    PROVE  Outcome
<1> DEFINE new == Roles(At(sup.candidate, "Active"), Vacant, At(sup.active, "Draining"))
           heir == [sup.candidate EXCEPT !.lifecycle = "Active"]
           promoted == [active |-> heir, candidate |-> Vacant, retired |-> sup.retired]
           gone == [sup.active EXCEPT !.lifecycle = "Draining"]
<1>1. CASE InState(sup, "candidate", i, "Activating")
  <2>1. sup.active.lifecycle = "Quiescing"
    BY <1>1 DEF IInv, RolesAgree, InState, Holds
  <2>2. CanTransition(sup.active.lifecycle, "Draining")
    BY <2>1 DEF CanTransition, ForwardEdges
  <2>3. heir = At(sup.candidate, "Active") /\ gone = At(sup.active, "Draining")
    BY ExceptLifecycle DEF IInv, TypeOK, Supervisors
  <2>4. [promoted EXCEPT !.retired = gone] = Roles(heir, Vacant, gone)
    <3> HIDE DEF heir, gone
    <3> QED BY DEF Roles
  <2>5. Returns(Accept([promoted EXCEPT !.retired = gone],
                       <<Action("Drain", sup.active.instance_id)>>))
    BY <1>1, <2>2 DEF CandidateActivated
  <2>6. Returns(Accept(new, <<Action("Drain", sup.active.instance_id)>>))
    BY <2>3, <2>4, <2>5
  <2>7. sup' = new => Promotes
    BY <1>1 DEF Promotes, InState, Holds
  <2>8. <<Action("Drain", sup.active.instance_id)>> \in Seq(Actions)
    <3>1. sup.active.instance_id \in InstanceIds
      BY DEF IInv, TypeOK, Supervisors, Instances
    <3> QED BY <3>1, ActionsType DEF ActionKinds
  <2> HIDE DEF new
  <2> QED BY <2>6, <2>7, <2>8, AcceptOutcome DEF Effect
<1>2. CASE ~InState(sup, "candidate", i, "Activating")
  BY <1>2, RejectOutcome DEF CandidateActivated
<1> QED BY <1>1, <1>2

LEMMA CandidateFailedOutcome ==
    ASSUME IInv, NEW i \in InstanceIds, Returns(CandidateFailed(sup, i))
    PROVE  Outcome
<1>1. CASE Holds(sup, "candidate", i) /\ CanTransition(sup.candidate.lifecycle, "Failed")
  <2>0. Occupied(sup.candidate)
    BY <1>1 DEF Holds
  <2>1. Moved(sup, "candidate", "Stopping")
            = Roles(sup.active, At(sup.candidate, "Stopping"), sup.retired)
    BY MovedCandidate DEF IInv, TypeOK
  <2>2. Roles(sup.active, At(sup.candidate, "Stopping"), sup.retired) \in Supervisors
    BY <2>0, MovedType DEF IInv, Lifecycles
  <2>3. sup.active.instance_id \in InstanceIds
    BY DEF IInv, TypeOK, Supervisors, Instances
  <2>4. CASE sup.active.lifecycle = "Quiescing"
    <3> DEFINE new == Roles(At(sup.active, "Reactivating"), At(sup.candidate, "Stopping"), sup.retired)
               actions == <<Action("Activate", sup.active.instance_id), Action("Terminate", i)>>
    <3>1. Moved(Moved(sup, "candidate", "Stopping"), "active", "Reactivating") = new
      BY <2>1, <2>2, MovedActive DEF Roles
    <3>2. Returns(Accept(new, actions))
      BY <1>1, <2>4, <3>1 DEF CandidateFailed
    <3>3. sup' = new => Abandons
      BY <2>0, <2>4 DEF Abandons
    <3>4. actions \in Seq(Actions)
      BY <2>3, ActionsType DEF ActionKinds
    <3> HIDE DEF new, actions
    <3> QED BY <3>2, <3>3, <3>4, AcceptOutcome DEF Effect
  <2>5. CASE sup.active.lifecycle # "Quiescing"
    <3> DEFINE new == Roles(sup.active, At(sup.candidate, "Stopping"), sup.retired)
    <3>1. Returns(Accept(new, <<Action("Terminate", i)>>))
      BY <1>1, <2>1, <2>5 DEF CandidateFailed
    <3>2. sup' = new => Abandons
      BY <2>0, <2>5 DEF Abandons
    <3>3. <<Action("Terminate", i)>> \in Seq(Actions)
      BY ActionsType DEF ActionKinds
    <3> HIDE DEF new
    <3> QED BY <3>1, <3>2, <3>3, AcceptOutcome DEF Effect
  <2> QED BY <2>4, <2>5
<1>2. CASE ~(Holds(sup, "candidate", i) /\ CanTransition(sup.candidate.lifecycle, "Failed"))
  BY <1>2, RejectOutcome DEF CandidateFailed
<1> QED BY <1>1, <1>2

LEMMA CandidateStoppedOutcome ==
    ASSUME IInv, NEW i \in InstanceIds, Returns(CandidateStopped(sup, i))
    PROVE  Outcome
<1>1. CASE InState(sup, "candidate", i, "Stopping")
  <2>1. Returns(Accept(Roles(sup.active, Vacant, sup.retired),
                       << >>))
    BY <1>1, SetRole DEF IInv, TypeOK, CandidateStopped
  <2>2. sup' = Roles(sup.active, Vacant, sup.retired) => DropsCandidate
    BY <1>1 DEF DropsCandidate, InState, Holds
  <2>3. << >> \in Seq(Actions)
    BY ActionsType DEF ActionKinds
  <2> QED BY <2>1, <2>2, <2>3, AcceptOutcome DEF Effect
<1>2. CASE ~(InState(sup, "candidate", i, "Stopping"))
  BY <1>2, RejectOutcome DEF CandidateStopped
<1> QED BY <1>1, <1>2

LEMMA ActiveQuiescedOutcome ==
    ASSUME IInv, NEW i \in InstanceIds, Returns(ActiveQuiesced(sup, i))
    PROVE  Outcome
<1> DEFINE Guard == /\ InState(sup, "active", i, "Quiescing")
                    /\ Occupied(sup.candidate) /\ sup.candidate.lifecycle = "Ready"
           new == Roles(sup.active, At(sup.candidate, "Activating"), sup.retired)
           actions == <<Action("Activate", sup.candidate.instance_id)>>
<1>1. CASE Guard
  <2>1. Returns(Accept(new, actions))
    BY <1>1, MovedCandidate DEF IInv, TypeOK, ActiveQuiesced
  <2>2. sup' = new => Advances
    BY <1>1 DEF Advances, Lifecycles
  <2>3. actions \in Seq(Actions)
    <3>1. sup.candidate.instance_id \in InstanceIds
      BY <1>1, RoleFacts DEF IInv, Instances
    <3> QED BY <3>1, ActionsType DEF ActionKinds
  <2> HIDE DEF new, actions
  <2> QED BY <2>1, <2>2, <2>3, AcceptOutcome DEF Effect
<1>2. CASE ~Guard
  BY <1>2, RejectOutcome DEF ActiveQuiesced
<1> QED BY <1>1, <1>2

\* Of the lifecycles the active role can have, only Reactivating leads to Active.
LEMMA ActiveReactivatedOutcome ==
    ASSUME IInv, NEW i \in InstanceIds, Returns(ActiveReactivated(sup, i))
    PROVE  Outcome
<1> DEFINE Guard == Holds(sup, "active", i) /\ CanTransition(sup.active.lifecycle, "Active")
           new == Roles(At(sup.active, "Active"), sup.candidate, sup.retired)
<1>1. CASE Guard
  <2>1. sup.active.lifecycle \in {"Active", "Quiescing", "Reactivating"}
    BY DEF IInv, RolesAgree
  <2>2. sup.active.lifecycle = "Reactivating"
    BY <1>1, <2>1 DEF CanTransition, ForwardEdges
  <2>3. Returns(Accept(new, << >>))
    BY <1>1, MovedActive DEF IInv, TypeOK, ActiveReactivated
  <2>4. sup' = new => Reactivates
    BY <2>2 DEF Reactivates
  <2>5. << >> \in Seq(Actions)
    OBVIOUS
  <2> HIDE DEF new
  <2> QED BY <2>3, <2>4, <2>5, AcceptOutcome DEF Effect
<1>2. CASE ~Guard
  BY <1>2, RejectOutcome DEF ActiveReactivated
<1> QED BY <1>1, <1>2

LEMMA RetiredDrainedOutcome ==
    ASSUME IInv, NEW i \in InstanceIds, Returns(RetiredDrained(sup, i))
    PROVE  Outcome
<1>1. CASE InState(sup, "retired", i, "Draining")
  <2>1. Returns(Accept(Roles(sup.active, sup.candidate, At(sup.retired, "Snapshotting")),
                       <<Action("Snapshot", i)>>))
    BY <1>1, MovedRetired DEF IInv, TypeOK, RetiredDrained
  <2>2. sup' = Roles(sup.active, sup.candidate, At(sup.retired, "Snapshotting")) => Retires
    BY <1>1 DEF Retires, InState, Holds
  <2>3. <<Action("Snapshot", i)>> \in Seq(Actions)
    BY ActionsType DEF ActionKinds
  <2> QED BY <2>1, <2>2, <2>3, AcceptOutcome DEF Effect
<1>2. CASE ~(InState(sup, "retired", i, "Draining"))
  BY <1>2, RejectOutcome DEF RetiredDrained
<1> QED BY <1>1, <1>2

LEMMA RetiredSnapshotCapturedOutcome ==
    ASSUME IInv, NEW i \in InstanceIds, Returns(RetiredSnapshotCaptured(sup, i))
    PROVE  Outcome
<1>1. CASE InState(sup, "retired", i, "Snapshotting")
  <2>1. Returns(Accept(Roles(sup.active, sup.candidate, At(sup.retired, "Stopping")),
                       <<Action("Terminate", i)>>))
    BY <1>1, MovedRetired DEF IInv, TypeOK, RetiredSnapshotCaptured
  <2>2. sup' = Roles(sup.active, sup.candidate, At(sup.retired, "Stopping")) => Retires
    BY <1>1 DEF Retires, InState, Holds
  <2>3. <<Action("Terminate", i)>> \in Seq(Actions)
    BY ActionsType DEF ActionKinds
  <2> QED BY <2>1, <2>2, <2>3, AcceptOutcome DEF Effect
<1>2. CASE ~(InState(sup, "retired", i, "Snapshotting"))
  BY <1>2, RejectOutcome DEF RetiredSnapshotCaptured
<1> QED BY <1>1, <1>2

LEMMA RetiredFailedOutcome ==
    ASSUME IInv, NEW i \in InstanceIds, Returns(RetiredFailed(sup, i))
    PROVE  Outcome
<1>1. CASE Holds(sup, "retired", i) /\ CanTransition(sup.retired.lifecycle, "Failed")
  <2>1. Returns(Accept(Roles(sup.active, sup.candidate, At(sup.retired, "Stopping")),
                       <<Action("Kill", i)>>))
    BY <1>1, MovedRetired DEF IInv, TypeOK, RetiredFailed
  <2>2. sup' = Roles(sup.active, sup.candidate, At(sup.retired, "Stopping")) => Retires
    BY <1>1 DEF Retires, Holds
  <2>3. <<Action("Kill", i)>> \in Seq(Actions)
    BY ActionsType DEF ActionKinds
  <2> QED BY <2>1, <2>2, <2>3, AcceptOutcome DEF Effect
<1>2. CASE ~(Holds(sup, "retired", i) /\ CanTransition(sup.retired.lifecycle, "Failed"))
  BY <1>2, RejectOutcome DEF RetiredFailed
<1> QED BY <1>1, <1>2

LEMMA RetiredStoppedOutcome ==
    ASSUME IInv, NEW i \in InstanceIds, Returns(RetiredStopped(sup, i))
    PROVE  Outcome
<1>1. CASE InState(sup, "retired", i, "Stopping")
  <2>1. Returns(Accept(Roles(sup.active, sup.candidate, Vacant),
                       << >>))
    BY <1>1, SetRole DEF IInv, TypeOK, RetiredStopped
  <2>2. sup' = Roles(sup.active, sup.candidate, Vacant) => DropsRetired
    BY <1>1 DEF DropsRetired, InState, Holds
  <2>3. << >> \in Seq(Actions)
    BY ActionsType DEF ActionKinds
  <2> QED BY <2>1, <2>2, <2>3, AcceptOutcome DEF Effect
<1>2. CASE ~(InState(sup, "retired", i, "Stopping"))
  BY <1>2, RejectOutcome DEF RetiredStopped
<1> QED BY <1>1, <1>2

LEMMA TerminationTimedOutOutcome ==
    ASSUME IInv, NEW i \in InstanceIds, Returns(TerminationTimedOut(sup, i))
    PROVE  Outcome
<1> DEFINE Guard == \E role \in {"candidate", "retired"} : InState(sup, role, i, "Stopping")
<1>1. CASE Guard
  <2>1. Returns(Accept(sup, <<Action("Kill", i)>>))
    BY <1>1 DEF TerminationTimedOut
  <2>2. <<Action("Kill", i)>> \in Seq(Actions)
    BY ActionsType DEF ActionKinds
  <2>3. sup' = sup => Effect
    BY DEF Effect, Nothing
  <2> QED BY <2>1, <2>2, <2>3, AcceptOutcome
<1>2. CASE ~Guard
  BY <1>2, RejectOutcome DEF TerminationTimedOut
<1> QED BY <1>1, <1>2

LEMMA StepOutcome ==
    ASSUME IInv, Next
    PROVE  Outcome
<1>1. CASE BeginStep
  BY <1>1, BeginOutcome DEF BeginStep
<1>2. ASSUME NEW i \in InstanceIds, CandidateStep(i)
      PROVE  Outcome
  BY <1>2, CandidateSpawnedOutcome, CandidateHandshakeCompleteOutcome, CandidatePreparedOutcome,
     CandidateActivatedOutcome, CandidateFailedOutcome, CandidateStoppedOutcome DEF CandidateStep
<1>3. ASSUME NEW i \in InstanceIds, ActiveStep(i)
      PROVE  Outcome
  BY <1>3, ActiveQuiescedOutcome, ActiveReactivatedOutcome DEF ActiveStep
<1>4. ASSUME NEW i \in InstanceIds, RetiredStep(i)
      PROVE  Outcome
  BY <1>4, RetiredDrainedOutcome, RetiredSnapshotCapturedOutcome, RetiredFailedOutcome,
     RetiredStoppedOutcome DEF RetiredStep
<1>5. ASSUME NEW i \in InstanceIds, TimeoutStep(i)
      PROVE  Outcome
  BY <1>5, TerminationTimedOutOutcome DEF TimeoutStep
<1> QED BY <1>1, <1>2, <1>3, <1>4, <1>5 DEF Next

-----------------------------------------------------------------------------
(* The inductive invariant *)

\* Under the invariant an effect that abandons the candidate, or retires an
\* instance, starts from lifecycles that allow it.
LEMMA EffectKeepsIInv ==
    ASSUME IInv, Outcome
    PROVE  IInv'
<1> USE NoInstanceAssumption, GenerationsAssumption
<1>0. /\ sup.active \in Instances
      /\ Occupied(sup.candidate) => sup.candidate \in Instances
      /\ Occupied(sup.retired) => sup.retired \in Instances
      /\ ~Occupied(sup.candidate) => sup.candidate = Vacant
      /\ ~Occupied(sup.retired) => sup.retired = Vacant
  BY RoleFacts DEF IInv
<1>00. ~Occupied(Vacant) /\ \A x \in Instances : Occupied(x)
  BY DEF Occupied, Vacant, Instance, Instances
<1>000. \A x \in Instances, l \in Lifecycles :
          /\ At(x, l) \in Instances
          /\ At(x, l).lifecycle = l
          /\ At(x, l).instance_id = x.instance_id
          /\ At(x, l).generation_id = x.generation_id
  BY DEF At, Instance, Instances
<1>r. ASSUME NEW x, NEW y, NEW z, sup' = Roles(x, y, z)
      PROVE  /\ sup'.active = x /\ sup'.candidate = y /\ sup'.retired = z
             /\ x \in Instances /\ y \in Instances \cup {Vacant} /\ z \in Instances \cup {Vacant}
                   => TypeOK'
  BY <1>r DEF Roles, TypeOK, Supervisors, Outcome, ReplyOK
<1>1. CASE Nothing
  BY <1>1 DEF IInv, TypeOK, RolesAgree, GenerationsOrdered, Outcome, ReplyOK, Nothing
<1>2. CASE Begins
  <2>1. PICK i \in InstanceIds, g \in Generations :
           /\ ~Occupied(sup.candidate) /\ ~Occupied(sup.retired)
           /\ sup.active.lifecycle = "Active"
           /\ i # sup.active.instance_id /\ g > sup.active.generation_id
           /\ sup' = Roles(sup.active, Instance(i, g, "Spawned"), sup.retired)
    BY <1>2 DEF Begins
  <2>2. /\ Instance(i, g, "Spawned") \in Instances
        /\ Instance(i, g, "Spawned").lifecycle = "Spawned"
        /\ Instance(i, g, "Spawned").instance_id = i
        /\ Instance(i, g, "Spawned").generation_id = g
    BY DEF Instance, Instances, Lifecycles
  <2> QED BY <1>0, <1>00, <1>r, <2>1, <2>2 DEF IInv, RolesAgree, GenerationsOrdered
<1>3. CASE Advances
  <2>1. PICK from, to \in Lifecycles :
           /\ <<from, to>> \in {<<"Spawned", "Handshaking">>, <<"Handshaking", "Preparing">>,
                                <<"Ready", "Activating">>}
           /\ Occupied(sup.candidate) /\ sup.candidate.lifecycle = from
           /\ sup' = Roles(sup.active, At(sup.candidate, to), sup.retired)
    BY <1>3 DEF Advances
  <2>2. \/ from \in {"Spawned", "Handshaking"} /\ to \in {"Handshaking", "Preparing"}
        \/ from = "Ready" /\ to = "Activating"
    BY <2>1
  <2>3. RolesAgree'
    BY <1>0, <1>00, <1>000, <1>r, <2>1, <2>2 DEF IInv, RolesAgree
  <2>4. GenerationsOrdered'
    BY <1>0, <1>00, <1>000, <1>r, <2>1 DEF IInv, GenerationsOrdered
  <2>5. TypeOK'
    BY <1>0, <1>00, <1>000, <1>r, <2>1 DEF IInv
  <2> QED
    BY <2>3, <2>4, <2>5 DEF IInv
<1>4. CASE Quiesces
  BY <1>0, <1>00, <1>000, <1>r, <1>4
     DEF Quiesces, Lifecycles, IInv, RolesAgree, GenerationsOrdered
<1>5. CASE Promotes
  <2>1. sup.candidate.generation_id \in Nat /\ sup.active.generation_id \in Nat
    BY <1>0, <1>5 DEF Promotes, Instances
  <2> QED BY <1>0, <1>00, <1>000, <1>r, <1>5, <2>1
       DEF Promotes, Lifecycles, IInv, RolesAgree, GenerationsOrdered
<1>6. CASE Abandons
  <2>1. CASE sup.active.lifecycle = "Quiescing"
    BY <1>0, <1>00, <1>000, <1>r, <1>6, <2>1
       DEF Abandons, Lifecycles, IInv, RolesAgree, GenerationsOrdered
  <2>2. CASE sup.active.lifecycle # "Quiescing"
    BY <1>0, <1>00, <1>000, <1>r, <1>6, <2>2
       DEF Abandons, Lifecycles, IInv, RolesAgree, GenerationsOrdered
  <2> QED BY <2>1, <2>2
<1>7. CASE DropsCandidate
  BY <1>0, <1>00, <1>r, <1>7 DEF DropsCandidate, IInv, RolesAgree, GenerationsOrdered
<1>8. CASE Reactivates
  BY <1>0, <1>00, <1>000, <1>r, <1>8
     DEF Reactivates, Lifecycles, IInv, RolesAgree, GenerationsOrdered
<1>9. CASE Retires
  <2>1. PICK to \in {"Snapshotting", "Stopping"} :
           /\ Occupied(sup.retired)
           /\ sup' = Roles(sup.active, sup.candidate, At(sup.retired, to))
    BY <1>9 DEF Retires
  <2> QED BY <1>0, <1>00, <1>000, <1>r, <2>1
       DEF Lifecycles, IInv, RolesAgree, GenerationsOrdered
<1>10. CASE DropsRetired
  BY <1>0, <1>00, <1>r, <1>10 DEF DropsRetired, IInv, RolesAgree, GenerationsOrdered
<1> QED BY <1>1, <1>2, <1>3, <1>4, <1>5, <1>6, <1>7, <1>8, <1>9, <1>10 DEF Outcome, Effect

LEMMA InitIInv ==
    ASSUME Init
    PROVE  IInv
<1>1. PICK i \in InstanceIds, g \in Generations : sup = NewSupervisor(i, g)
  BY DEF Init
<1>2. Occupied(sup.active) /\ ~Occupied(sup.candidate) /\ ~Occupied(sup.retired)
  BY <1>1, NoInstanceAssumption DEF NewSupervisor, Occupied, Vacant, Instance
<1>3. TypeOK
  BY <1>1 DEF Init, TypeOK, Supervisors, NewSupervisor, Instance, Instances, Lifecycles, Vacant
<1>4. sup.active.lifecycle = "Active"
  BY <1>1 DEF NewSupervisor, Instance
<1> QED BY <1>2, <1>3, <1>4 DEF IInv, RolesAgree, GenerationsOrdered

LEMMA InvariantIInv == Spec => []IInv
<1>1. Init => IInv
  BY InitIInv
<1>2. IInv /\ [Next]_vars => IInv'
  <2>1. CASE Next
    BY <2>1, StepOutcome, EffectKeepsIInv
  <2>2. CASE UNCHANGED vars
    BY <2>2 DEF vars, IInv, TypeOK, RolesAgree, GenerationsOrdered
  <2> QED BY <2>1, <2>2
<1> QED BY <1>1, <1>2, PTL DEF Spec

\* Type correctness of ReplacementSupervisor: only the active role is always held.
THEOREM TypeCorrect == Spec => []TypeOK
BY InvariantIInv, PTL DEF IInv

\* The three roles of ReplacementSupervisor always agree, whatever events any
\* caller applies in any order.
THEOREM RolesAlwaysAgree == Spec => []RolesAgree
BY InvariantIInv, PTL DEF IInv

\* Generations grow from retired to active to candidate in every state.
THEOREM GenerationsAlwaysOrdered == Spec => []GenerationsOrdered
BY InvariantIInv, PTL DEF IInv

\* The unreachable!() arms of ReplacementSupervisor::phase are unreachable.
THEOREM PhaseAlwaysTotal == Spec => []PhaseIsTotal
<1>1. IInv => PhaseIsTotal
  BY DEF IInv, RolesAgree, PhaseIsTotal, Phase
<1> QED BY <1>1, InvariantIInv, PTL

-----------------------------------------------------------------------------
(* Action properties *)

\* An event that ReplacementSupervisor::apply rejects leaves the supervisor as
\* it was, although handlers write before their last check.
THEOREM RejectionIsAtomic == Spec => RejectedEventChangesNothing
<1>1. IInv /\ [Next]_vars => [reply'.ok \/ sup' = sup]_vars
  <2>1. ASSUME IInv, Next PROVE reply'.ok \/ sup' = sup
    BY <2>1, StepOutcome DEF Outcome, Nothing
  <2> QED BY <2>1
<1> QED BY <1>1, InvariantIInv, PTL DEF Spec, RejectedEventChangesNothing

\* A step that changes the active identity is the promotion of the candidate.
LEMMA HandOver ==
    ASSUME IInv, Outcome, sup'.active.instance_id # sup.active.instance_id
    PROVE  Promotes
BY RoleFacts DEF IInv, Outcome, Effect, Nothing, Begins, Advances, Quiesces, Abandons, DropsCandidate,
     Reactivates, Retires, DropsRetired, Roles, At, Instance

\* The active role is handed over from a quiesced instance to its activating
\* candidate and in no other way.
THEOREM OwnershipIsHandedOver == Spec => OwnershipHandedOver
<1> DEFINE A == sup'.active.instance_id # sup.active.instance_id =>
                  /\ sup.active.lifecycle = "Quiescing"
                  /\ sup.candidate.lifecycle = "Activating"
                  /\ sup'.active = [sup.candidate EXCEPT !.lifecycle = "Active"]
                  /\ sup'.active.generation_id > sup.active.generation_id
                  /\ sup'.retired.instance_id = sup.active.instance_id
<1>1. ASSUME IInv, Next PROVE A
  <2> SUFFICES ASSUME sup'.active.instance_id # sup.active.instance_id
               PROVE  /\ sup.active.lifecycle = "Quiescing"
                      /\ sup.candidate.lifecycle = "Activating"
                      /\ sup'.active = [sup.candidate EXCEPT !.lifecycle = "Active"]
                      /\ sup'.active.generation_id > sup.active.generation_id
                      /\ sup'.retired.instance_id = sup.active.instance_id
    OBVIOUS
  <2>1. Promotes
    BY <1>1, StepOutcome, HandOver
  <2>2. sup.active.lifecycle = "Quiescing" /\ sup.candidate.lifecycle = "Activating"
    BY <1>1, <2>1 DEF Promotes, IInv, RolesAgree
  <2>3. sup'.active = At(sup.candidate, "Active") /\ sup'.retired = At(sup.active, "Draining")
    BY <2>1 DEF Promotes, Roles
  <2>4. [sup.candidate EXCEPT !.lifecycle = "Active"] = At(sup.candidate, "Active")
    BY <1>1, ExceptLifecycle DEF IInv, TypeOK, Supervisors
  <2>5. sup.candidate.generation_id > sup.active.generation_id
    BY <1>1, <2>1 DEF Promotes, IInv, GenerationsOrdered
  <2>6. /\ sup'.active.generation_id = sup.candidate.generation_id
        /\ sup'.retired.instance_id = sup.active.instance_id
    BY <2>3 DEF At, Instance
  <2> QED BY <2>2, <2>3, <2>4, <2>5, <2>6
<1>2. IInv /\ [Next]_vars => [A]_vars
  BY <1>1
<1> QED BY <1>2, InvariantIInv, PTL DEF Spec, OwnershipHandedOver

\* An instance that leaves the supervisor was stopping: no handler loses one.
THEOREM InstancesLeaveStopped == Spec => InstanceLeavesOnlyStopped
<1>1. ASSUME IInv, Next PROVE LeavesOnlyStopped
  <2> USE DEF LeavesOnlyStopped
  <2> TAKE i \in InstanceIds
  <2> HAVE HeldBy(sup, i) /\ ~HeldBy(sup', i)
  <2>0. IInv'
    BY <1>1, StepOutcome, EffectKeepsIInv
  <2>1. /\ DOMAIN sup = {"active", "candidate", "retired"}
        /\ DOMAIN sup' = {"active", "candidate", "retired"}
    BY <1>1, <2>0 DEF IInv, TypeOK, Supervisors
  <2>2. \/ sup.active.instance_id = i
        \/ sup.candidate.instance_id = i
        \/ sup.retired.instance_id = i
    BY <2>1 DEF HeldBy
  <2>3. /\ sup'.active.instance_id # i
        /\ sup'.candidate.instance_id # i
        /\ sup'.retired.instance_id # i
    BY <2>1 DEF HeldBy
  <2>4. DropsCandidate \/ DropsRetired
    <3>1. Effect
      BY <1>1, StepOutcome DEF Outcome
    <3>2. ~Nothing /\ ~Begins /\ ~Advances /\ ~Quiesces /\ ~Promotes /\ ~Abandons
              /\ ~Reactivates /\ ~Retires
      <4>1. ~Occupied(sup.candidate) => sup.candidate.instance_id # i
        BY NoInstanceAssumption DEF Occupied
      <4>2. ~Occupied(sup.retired) => sup.retired.instance_id # i
        BY NoInstanceAssumption DEF Occupied
      <4>3. ~(Occupied(sup.candidate) /\ Occupied(sup.retired))
        BY <1>1 DEF IInv, RolesAgree
      <4> QED BY <2>2, <2>3, <4>1, <4>2, <4>3
           DEF Nothing, Begins, Advances, Quiesces, Promotes, Abandons, Reactivates, Retires,
               Roles, At, Instance
    <3> QED BY <3>1, <3>2 DEF Effect
  <2>5. CASE DropsCandidate
    <3>1. sup.candidate.instance_id = i
      BY <2>2, <2>3, <2>5 DEF DropsCandidate, Roles
    <3> QED BY <2>5, <3>1 DEF DropsCandidate, InState, Holds
  <2>6. CASE DropsRetired
    <3>1. sup.retired.instance_id = i
      BY <2>2, <2>3, <2>6 DEF DropsRetired, Roles
    <3> QED BY <2>6, <3>1 DEF DropsRetired, InState, Holds
  <2> QED BY <2>4, <2>5, <2>6
<1>2. IInv /\ [Next]_vars => [LeavesOnlyStopped]_vars
  BY <1>1
<1> QED BY <1>2, InvariantIInv, PTL DEF Spec, InstanceLeavesOnlyStopped

-----------------------------------------------------------------------------
(* The supervisor implements Handover *)

\* One effect of the supervisor is one step of the handover, or none.
LEMMA EffectImplements ==
    ASSUME IInv, Effect
    PROVE  [H!Next]_(H!vars)
<1> USE NoInstanceAssumption DEF H!vars, H!NoHeir
<1>0. /\ sup.active \in Instances
      /\ Occupied(sup.candidate) => sup.candidate \in Instances
      /\ Occupied(sup.retired) => sup.retired \in Instances
      /\ ~Occupied(sup.candidate) => sup.candidate = Vacant
      /\ ~Occupied(sup.retired) => sup.retired = Vacant
  BY RoleFacts DEF IInv
<1>00. ~Occupied(Vacant) /\ \A x \in Instances : Occupied(x)
  BY DEF Occupied, Vacant, Instance, Instances
<1>1. CASE Nothing
  BY <1>1 DEF Nothing, Waiting, Occupied
<1>2. CASE Begins
  <2>1. PICK i \in InstanceIds, g \in Generations :
           /\ ~Occupied(sup.candidate) /\ ~Occupied(sup.retired)
           /\ sup.active.lifecycle = "Active"
           /\ i # sup.active.instance_id /\ g > sup.active.generation_id
           /\ sup' = Roles(sup.active, Instance(i, g, "Spawned"), sup.retired)
    BY <1>2 DEF Begins
  <2>2. H!Propose(i, g)
    BY <2>1 DEF H!Propose, Waiting, Occupied, Roles, Instance
  <2> QED BY <2>2 DEF H!Next
<1>3. CASE Advances
  BY <1>3 DEF Advances, Waiting, Occupied, Roles, At, Instance
<1>4. CASE Quiesces
  <2>1. H!Pause
    BY <1>4 DEF Quiesces, IInv, RolesAgree, H!Pause, Waiting, Occupied, Roles, At, Instance
  <2> QED BY <2>1 DEF H!Next
<1>5. CASE Promotes
  <2>1. H!TakeOver
    BY <1>0, <1>5 DEF Promotes, IInv, RolesAgree, H!TakeOver, Waiting, Occupied, Roles, At,
         Instance, Vacant, Instances
  <2> QED BY <2>1 DEF H!Next
<1>6. CASE Abandons
  <2>1. CASE Waiting
    <3>1. H!GiveUp
      BY <1>6, <2>1 DEF Abandons, IInv, RolesAgree, H!GiveUp, Waiting, Occupied, Roles, At, Instance
    <3> QED BY <3>1 DEF H!Next
  <2>2. CASE ~Waiting
    BY <1>6, <2>2 DEF Abandons, IInv, RolesAgree, Waiting, Occupied, Roles, At, Instance
  <2> QED BY <2>1, <2>2
<1>7. CASE DropsCandidate
  <2>1. H!Leave
    BY <1>7 DEF DropsCandidate, IInv, RolesAgree, H!Leave, Waiting, Occupied, Roles, Vacant, Instance
  <2> QED BY <2>1 DEF H!Next
<1>8. CASE Reactivates
  <2>1. H!Resume
    BY <1>8 DEF Reactivates, IInv, RolesAgree, H!Resume, Waiting, Occupied, Roles, At, Instance
  <2> QED BY <2>1 DEF H!Next
<1>9. CASE Retires
  BY <1>9 DEF Retires, IInv, RolesAgree, Waiting, Occupied, Roles, At, Instance
<1>10. CASE DropsRetired
  <2>1. H!Leave
    BY <1>10 DEF DropsRetired, IInv, RolesAgree, H!Leave, Waiting, Occupied, Roles, Vacant, Instance
  <2> QED BY <2>1 DEF H!Next
<1> QED BY <1>1, <1>2, <1>3, <1>4, <1>5, <1>6, <1>7, <1>8, <1>9, <1>10 DEF Effect

\* ReplacementSupervisor implements the handover protocol of Handover.tla.
THEOREM SupervisorImplementsHandover == Spec => ImplementsHandover
<1>1. Init => H!Init
  <2> SUFFICES ASSUME Init PROVE H!Init
    OBVIOUS
  <2>1. PICK i \in InstanceIds, g \in Generations : sup = NewSupervisor(i, g)
    BY DEF Init
  <2> QED BY <2>1, NoInstanceAssumption
       DEF H!Init, H!NoHeir, NewSupervisor, Waiting, Occupied, Vacant, Instance
<1>2. IInv /\ [Next]_vars => [H!Next]_(H!vars)
  <2>1. ASSUME IInv, Next PROVE [H!Next]_(H!vars)
    BY <2>1, StepOutcome, EffectImplements DEF Outcome
  <2>2. ASSUME UNCHANGED vars PROVE UNCHANGED H!vars
    BY <2>2 DEF vars, H!vars, Waiting, Occupied
  <2> QED BY <2>1, <2>2
<1> QED BY <1>1, <1>2, InvariantIInv, PTL DEF Spec, H!Spec, ImplementsHandover

-----------------------------------------------------------------------------
(* The generation catalog *)

HistoryBelowWatermarks ==
    /\ \A g \in reserved : g <= cat.high
    /\ \A g \in accepted : g <= cat.consumed

CatalogIInv == CatalogTypeOK /\ WatermarksOrdered /\ RolesDistinct /\ HistoryBelowWatermarks

LEMMA NoDocumentIsNone == NoDocument \notin Documents
  BY CatalogAssumption DEF NoDocument, Document, Documents

LEMMA InitCatalogIInv == CatalogInit => CatalogIInv
<1> SUFFICES ASSUME NEW d \in Documents,
                    cat = NewCatalog(d), ok = TRUE,
                    reserved = {d.generation_id}, accepted = {d.generation_id}
             PROVE  CatalogIInv
  BY DEF CatalogInit
<1>1. /\ cat.doc \in [CatalogRoles -> Documents \cup {NoDocument}]
      /\ cat.doc["Active"] = d
      /\ \A role \in CatalogRoles \ {"Active"} : cat.doc[role] = NoDocument
      /\ cat.next = d.generation_id + 1 /\ cat.high = d.generation_id
      /\ cat.consumed = d.generation_id
  BY DEF NewCatalog, CatalogRoles
<1>2. d.generation_id \in 0..MaxGeneration
  BY DEF Documents, GenerationIds
<1>3. CatalogTypeOK
  <2>1. cat \in Catalogs
    BY <1>1, <1>2, CatalogAssumption DEF Catalogs, NewCatalog, GenerationIds
  <2> QED
    BY <2>1, <1>1, <1>2, NoDocumentIsNone DEF CatalogTypeOK, GenerationIds
<1>4. Retained(cat) = {"Active"}
  BY <1>1, NoDocumentIsNone DEF Retained, CatalogRoles
<1> QED
  BY <1>1, <1>2, <1>3, <1>4 DEF CatalogIInv, WatermarksOrdered, RolesDistinct, HistoryBelowWatermarks

-----------------------------------------------------------------------------
(* What an operation does to the four parts of a catalog *)

Parts(k, doc, next, high, consumed) ==
    k = [doc |-> doc, next |-> next, high |-> high, consumed |-> consumed]

\* The document is accepted in a role.
AcceptsIn(role, d) ==
    /\ ~ContainsInstanceId(cat, d.instance_id) /\ ValidGeneration(cat, d.generation_id)
    /\ ok' = TRUE
    /\ Parts(cat', [cat.doc EXCEPT ![role] = d],
             IF d.generation_id >= cat.next THEN d.generation_id + 1 ELSE cat.next,
             IF d.generation_id > cat.high THEN d.generation_id ELSE cat.high,
             d.generation_id)
    /\ accepted' = accepted \cup {d.generation_id} /\ UNCHANGED reserved

\* Documents change roles, and nothing else changes.
Moves(doc) ==
    /\ ok' = TRUE /\ Parts(cat', doc, cat.next, cat.high, cat.consumed)
    /\ UNCHANGED <<reserved, accepted>>

Refuses == ok' = FALSE /\ UNCHANGED <<cat, reserved, accepted>>

Allocates ==
    /\ cat.next <= MaxGeneration /\ ok' = TRUE
    /\ Parts(cat', cat.doc, cat.next + 1, cat.next, cat.consumed)
    /\ reserved' = reserved \cup {cat.next} /\ UNCHANGED accepted

Commits ==
    /\ cat.doc["Candidate"] # NoDocument
    /\ Moves([cat.doc EXCEPT !["Active"] = cat.doc["Candidate"],
                              !["Previous"] = cat.doc["Active"],
                              !["Candidate"] = NoDocument])

Quarantines ==
    /\ cat.doc["Candidate"] # NoDocument
    /\ Moves([cat.doc EXCEPT !["Quarantined"] = cat.doc["Candidate"],
                              !["Candidate"] = NoDocument])

Releases(role) == Moves([cat.doc EXCEPT ![role] = NoDocument])

LEMMA CatalogParts ==
    ASSUME CatalogTypeOK
    PROVE  Parts(cat, cat.doc, cat.next, cat.high, cat.consumed)
  BY DEF CatalogTypeOK, Catalogs, Parts

LEMMA SingletonParts ==
    ASSUME NEW doc, NEW next, NEW high, NEW consumed,
           NEW k \in [doc : {doc}, next : {next}, high : {high}, consumed : {consumed}]
    PROVE  Parts(k, doc, next, high, consumed)
  BY DEF Parts

LEMMA AllocateEffect == CatalogTypeOK /\ Allocate => Refuses \/ Allocates
<1> SUFFICES ASSUME CatalogTypeOK, Allocate PROVE Refuses \/ Allocates
  OBVIOUS
<1>1. cat.next \in Nat /\ MaxGeneration \in Nat
  BY CatalogAssumption DEF CatalogTypeOK, Catalogs
<1>2. CASE cat.next > MaxGeneration
  BY <1>2 DEF Allocate, AllocateGeneration, CatalogReturns, Refuses, Refused
<1>3. CASE ~(cat.next > MaxGeneration)
  <2>1. cat.next <= MaxGeneration
    BY <1>1, <1>3
  <2>2. AllocateGeneration(cat) = Done([cat EXCEPT !.next = @ + 1, !.high = cat.next])
    BY <1>3 DEF AllocateGeneration
  <2>3. /\ ok' = TRUE /\ cat' = [cat EXCEPT !.next = @ + 1, !.high = cat.next]
        /\ reserved' = reserved \cup {cat.next} /\ UNCHANGED accepted
    BY <2>2 DEF Allocate, CatalogReturns, Done
  <2>4. Parts([cat EXCEPT !.next = @ + 1, !.high = cat.next],
              cat.doc, cat.next + 1, cat.next, cat.consumed)
    <3>1. cat \in [doc : {cat.doc}, next : {cat.next}, high : {cat.high}, consumed : {cat.consumed}]
      BY CatalogParts DEF Parts
    <3>2. [cat EXCEPT !.next = @ + 1, !.high = cat.next] \in
             [doc : {cat.doc}, next : {cat.next + 1}, high : {cat.next}, consumed : {cat.consumed}]
      BY <3>1
    <3> QED
      BY <3>2, SingletonParts
  <2> QED
    BY <2>1, <2>3, <2>4 DEF Allocates
<1> QED
  BY <1>2, <1>3

LEMMA BeginEffect ==
    ASSUME CatalogTypeOK, NEW d \in Documents, BeginDocument(d)
    PROVE  Refuses \/ (cat.doc["Candidate"] = NoDocument /\ AcceptsIn("Candidate", d))
  BY CatalogParts
  DEF BeginDocument, BeginCandidate, CatalogReturns, Accepts, Refuses, AcceptsIn, Parts, Done, Refused,
      Consume

LEMMA RecordEffect ==
    ASSUME CatalogTypeOK, NEW d \in Documents, RecordDocument(d)
    PROVE  Refuses \/ AcceptsIn("RestartRequired", d)
  BY CatalogParts
  DEF RecordDocument, RecordRestartRequired, CatalogReturns, Accepts, Refuses, AcceptsIn, Parts, Done,
      Refused, Consume

LEMMA CommitEffect == CatalogTypeOK /\ Commit => Refuses \/ Commits
  BY CatalogParts
  DEF Commit, CommitCatalogCandidate, CatalogReturns, Refuses, Commits, Moves, Parts, Done, Refused

LEMMA QuarantineEffect == CatalogTypeOK /\ Quarantine => Refuses \/ Quarantines
  BY CatalogParts
  DEF Quarantine, QuarantineCandidate, CatalogReturns, Refuses, Quarantines, Moves, Parts, Done, Refused

LEMMA TakeEffect ==
    ASSUME CatalogTypeOK, NEW role \in {"Previous", "Quarantined", "RestartRequired"}, TakeRole(role)
    PROVE  Releases(role)
  BY CatalogParts DEF TakeRole, Take, CatalogReturns, Releases, Moves, Parts, Done

\* Every step of the catalog has one of these effects.
CatalogEffect ==
    \/ Refuses \/ Allocates \/ Commits \/ Quarantines
    \/ \E d \in Documents :
          \/ cat.doc["Candidate"] = NoDocument /\ AcceptsIn("Candidate", d)
          \/ AcceptsIn("RestartRequired", d)
    \/ \E role \in {"Previous", "Quarantined", "RestartRequired"} : Releases(role)

LEMMA NextEffect == CatalogTypeOK /\ CatalogNext => CatalogEffect
  BY AllocateEffect, BeginEffect, RecordEffect, CommitEffect, QuarantineEffect, TakeEffect
  DEF CatalogNext, CatalogEffect

-----------------------------------------------------------------------------
(* The invariant is inductive *)

LEMMA TypeStep == CatalogTypeOK /\ CatalogEffect => CatalogTypeOK'
<1> SUFFICES ASSUME CatalogTypeOK, CatalogEffect PROVE CatalogTypeOK'
  OBVIOUS
<1>0. /\ MaxGeneration \in Nat /\ cat \in Catalogs
      /\ cat.doc \in [CatalogRoles -> Documents \cup {NoDocument}]
      /\ cat.doc["Active"] # NoDocument
      /\ cat.next \in 0..(MaxGeneration + 1) /\ cat.high \in GenerationIds
      /\ cat.consumed \in GenerationIds
      /\ {"Active", "Candidate", "Previous", "Quarantined", "RestartRequired"} = CatalogRoles
  BY CatalogAssumption DEF CatalogTypeOK, Catalogs, CatalogRoles
<1>1. CASE Refuses
  BY <1>1 DEF Refuses, CatalogTypeOK
<1>2. CASE Allocates
  <2>1. cat.next \in GenerationIds /\ cat.next + 1 \in 0..(MaxGeneration + 1)
    BY <1>0, <1>2 DEF Allocates, GenerationIds
  <2> QED
    BY <2>1, <1>0, <1>2 DEF Allocates, Parts, CatalogTypeOK, Catalogs
<1>3. ASSUME NEW doc \in [CatalogRoles -> Documents \cup {NoDocument}],
             doc["Active"] # NoDocument, Moves(doc)
      PROVE  CatalogTypeOK'
  BY <1>0, <1>3 DEF Moves, Parts, CatalogTypeOK, Catalogs
<1>4. CASE Commits
  BY <1>0, <1>3, <1>4 DEF Commits
<1>5. CASE Quarantines
  BY <1>0, <1>3, <1>5 DEF Quarantines
<1>6. ASSUME NEW role \in {"Previous", "Quarantined", "RestartRequired"}, Releases(role)
      PROVE  CatalogTypeOK'
  BY <1>0, <1>3, <1>6 DEF Releases
<1>7. ASSUME NEW d \in Documents, NEW role \in {"Candidate", "RestartRequired"}, AcceptsIn(role, d)
      PROVE  CatalogTypeOK'
  <2>1. d.generation_id \in GenerationIds
    BY DEF Documents
  <2>2. /\ (IF d.generation_id >= cat.next THEN d.generation_id + 1 ELSE cat.next)
                \in 0..(MaxGeneration + 1)
        /\ (IF d.generation_id > cat.high THEN d.generation_id ELSE cat.high) \in GenerationIds
    BY <2>1, <1>0 DEF GenerationIds
  <2>3. /\ [cat.doc EXCEPT ![role] = d] \in [CatalogRoles -> Documents \cup {NoDocument}]
        /\ [cat.doc EXCEPT ![role] = d]["Active"] # NoDocument
    BY <1>0
  <2> QED
    BY <2>1, <2>2, <2>3, <1>7 DEF AcceptsIn, Parts, CatalogTypeOK, Catalogs
<1> QED
  BY <1>1, <1>2, <1>4, <1>5, <1>6, <1>7 DEF CatalogEffect

LEMMA WatermarkStep ==
    CatalogTypeOK /\ WatermarksOrdered /\ HistoryBelowWatermarks /\ CatalogEffect
        => WatermarksOrdered' /\ HistoryBelowWatermarks'
<1> SUFFICES ASSUME CatalogTypeOK, WatermarksOrdered, HistoryBelowWatermarks, CatalogEffect
             PROVE  WatermarksOrdered' /\ HistoryBelowWatermarks'
  OBVIOUS
<1>0. /\ MaxGeneration \in Nat
      /\ cat.doc \in [CatalogRoles -> Documents \cup {NoDocument}]
      /\ cat.next \in Nat /\ cat.high \in Nat /\ cat.consumed \in Nat
      /\ reserved \subseteq Nat /\ accepted \subseteq Nat
      /\ {"Active", "Candidate", "Previous", "Quarantined", "RestartRequired"} = CatalogRoles
      /\ \A d \in Documents : d.generation_id \in Nat
  BY CatalogAssumption DEF CatalogTypeOK, Catalogs, CatalogRoles, GenerationIds, Documents
<1>w. /\ cat.next = cat.high + 1 /\ cat.consumed <= cat.high
      /\ \A role \in CatalogRoles :
            cat.doc[role] = NoDocument \/ cat.doc[role].generation_id <= cat.consumed
      /\ \A g \in reserved : g <= cat.high
      /\ \A g \in accepted : g <= cat.consumed
  BY DEF WatermarksOrdered, HistoryBelowWatermarks, Retained
<1>1. CASE Refuses
  BY <1>1 DEF Refuses, WatermarksOrdered, HistoryBelowWatermarks, Retained
<1>2. CASE Allocates
  BY <1>0, <1>w, <1>2 DEF Allocates, Parts, WatermarksOrdered, HistoryBelowWatermarks, Retained
<1>3. ASSUME NEW doc, Moves(doc),
             \A role \in CatalogRoles :
                doc[role] = NoDocument \/ \E from \in CatalogRoles : doc[role] = cat.doc[from]
      PROVE  WatermarksOrdered' /\ HistoryBelowWatermarks'
  BY <1>0, <1>w, <1>3 DEF Moves, Parts, WatermarksOrdered, HistoryBelowWatermarks, Retained
<1>4. CASE Commits
  BY <1>0, <1>3, <1>4 DEF Commits
<1>5. CASE Quarantines
  BY <1>0, <1>3, <1>5 DEF Quarantines
<1>6. ASSUME NEW role \in {"Previous", "Quarantined", "RestartRequired"}, Releases(role)
      PROVE  WatermarksOrdered' /\ HistoryBelowWatermarks'
  BY <1>0, <1>3, <1>6 DEF Releases
<1>7. ASSUME NEW d \in Documents, NEW role \in {"Candidate", "RestartRequired"}, AcceptsIn(role, d)
      PROVE  WatermarksOrdered' /\ HistoryBelowWatermarks'
  <2>1. d.generation_id \in Nat /\ d.generation_id > cat.consumed
    BY <1>0, <1>7 DEF AcceptsIn, ValidGeneration
  <2>2. /\ cat'.consumed = d.generation_id
        /\ cat'.high = IF d.generation_id > cat.high THEN d.generation_id ELSE cat.high
        /\ cat'.next = IF d.generation_id >= cat.next THEN d.generation_id + 1 ELSE cat.next
        /\ cat'.doc = [cat.doc EXCEPT ![role] = d]
    BY <1>7 DEF AcceptsIn, Parts
  <2>3. cat'.next = cat'.high + 1 /\ cat'.consumed <= cat'.high /\ cat.high <= cat'.high
    BY <1>0, <1>w, <2>1, <2>2
  <2>4. \A r \in CatalogRoles :
            cat'.doc[r] = NoDocument \/ cat'.doc[r].generation_id <= cat'.consumed
    <3> SUFFICES ASSUME NEW r \in CatalogRoles, cat'.doc[r] # NoDocument
                 PROVE  cat'.doc[r].generation_id <= cat'.consumed
      OBVIOUS
    <3>1. CASE r = role
      BY <1>0, <2>1, <2>2, <3>1
    <3>2. CASE r # role
      <4>1. cat'.doc[r] = cat.doc[r] /\ cat.doc[r] \in Documents
        BY <1>0, <2>2, <3>2
      <4> QED
        BY <4>1, <1>0, <1>w, <2>1, <2>2
    <3> QED
      BY <3>1, <3>2
  <2>5. WatermarksOrdered'
    BY <2>3, <2>4 DEF WatermarksOrdered, Retained
  <2>6. HistoryBelowWatermarks'
    BY <1>0, <1>w, <1>7, <2>1, <2>2, <2>3 DEF AcceptsIn, HistoryBelowWatermarks
  <2> QED
    BY <2>5, <2>6
<1> QED
  BY <1>1, <1>2, <1>4, <1>5, <1>6, <1>7 DEF CatalogEffect

LEMMA RolesStep ==
  CatalogTypeOK /\ WatermarksOrdered /\ RolesDistinct /\ CatalogEffect => RolesDistinct'
<1> SUFFICES ASSUME CatalogTypeOK, WatermarksOrdered, RolesDistinct, CatalogEffect
             PROVE  RolesDistinct'
  OBVIOUS
<1>0. /\ cat.doc \in [CatalogRoles -> Documents \cup {NoDocument}]
      /\ cat.consumed \in Nat
      /\ {"Active", "Candidate", "Previous", "Quarantined", "RestartRequired"} = CatalogRoles
      /\ \A d \in Documents : d.generation_id \in Nat
  BY DEF CatalogTypeOK, Catalogs, CatalogRoles, GenerationIds, Documents
<1>d. \A r, q \in CatalogRoles :
         r # q /\ cat.doc[r] # NoDocument /\ cat.doc[q] # NoDocument =>
             /\ cat.doc[r].instance_id # cat.doc[q].instance_id
             /\ cat.doc[r].generation_id # cat.doc[q].generation_id
  BY DEF RolesDistinct, Retained
<1>1. CASE Refuses
  BY <1>1 DEF Refuses, RolesDistinct, Retained
<1>2. CASE Allocates
  BY <1>2, <1>d DEF Allocates, Parts, RolesDistinct, Retained
<1>3. ASSUME NEW doc, Moves(doc),
             \A r, q \in CatalogRoles :
                r # q /\ doc[r] # NoDocument /\ doc[q] # NoDocument =>
                    \E f, g \in CatalogRoles :
                        f # g /\ doc[r] = cat.doc[f] /\ doc[q] = cat.doc[g]
      PROVE  RolesDistinct'
  <2>1. cat'.doc = doc
    BY <1>3 DEF Moves, Parts
  <2> SUFFICES ASSUME NEW r \in CatalogRoles, NEW q \in CatalogRoles,
                      r # q, doc[r] # NoDocument, doc[q] # NoDocument
               PROVE  /\ doc[r].instance_id # doc[q].instance_id
                      /\ doc[r].generation_id # doc[q].generation_id
    BY <2>1 DEF RolesDistinct, Retained
  <2>2. PICK f, g \in CatalogRoles : f # g /\ doc[r] = cat.doc[f] /\ doc[q] = cat.doc[g]
    BY <1>3
  <2> QED
    BY <2>2, <1>d
<1>4. CASE Commits
  <2> DEFINE new == [cat.doc EXCEPT !["Active"] = cat.doc["Candidate"],
                                    !["Previous"] = cat.doc["Active"],
                                    !["Candidate"] = NoDocument]
             from == [r \in CatalogRoles |-> IF r = "Active" THEN "Candidate"
                                             ELSE IF r = "Previous" THEN "Active" ELSE r]
  <2>1. \A r \in CatalogRoles : new[r] # NoDocument =>
            r # "Candidate" /\ from[r] \in CatalogRoles /\ new[r] = cat.doc[from[r]]
    BY <1>0
  <2>2. \A r, q \in CatalogRoles \ {"Candidate"} : r # q => from[r] # from[q]
    BY <1>0
  <2>3. \A r, q \in CatalogRoles :
            r # q /\ new[r] # NoDocument /\ new[q] # NoDocument =>
                \E f, g \in CatalogRoles : f # g /\ new[r] = cat.doc[f] /\ new[q] = cat.doc[g]
    <3> HIDE DEF new, from
    <3> QED
      BY <2>1, <2>2
  <2> HIDE DEF new
  <2>4. Moves(new)
    BY <1>4 DEF Commits, new
  <2> QED
    BY <1>3, <2>3, <2>4
<1>5. CASE Quarantines
  <2> DEFINE new == [cat.doc EXCEPT !["Quarantined"] = cat.doc["Candidate"],
                                    !["Candidate"] = NoDocument]
             from == [r \in CatalogRoles |-> IF r = "Quarantined" THEN "Candidate" ELSE r]
  <2>1. \A r \in CatalogRoles : new[r] # NoDocument =>
            r # "Candidate" /\ from[r] \in CatalogRoles /\ new[r] = cat.doc[from[r]]
    BY <1>0
  <2>2. \A r, q \in CatalogRoles \ {"Candidate"} : r # q => from[r] # from[q]
    BY <1>0
  <2>3. \A r, q \in CatalogRoles :
            r # q /\ new[r] # NoDocument /\ new[q] # NoDocument =>
                \E f, g \in CatalogRoles : f # g /\ new[r] = cat.doc[f] /\ new[q] = cat.doc[g]
    <3> HIDE DEF new, from
    <3> QED
      BY <2>1, <2>2
  <2> HIDE DEF new
  <2>4. Moves(new)
    BY <1>5 DEF Quarantines, new
  <2> QED
    BY <1>3, <2>3, <2>4
<1>6. ASSUME NEW role \in {"Previous", "Quarantined", "RestartRequired"}, Releases(role)
      PROVE  RolesDistinct'
  <2>1. \A r \in CatalogRoles : [cat.doc EXCEPT ![role] = NoDocument][r] # NoDocument =>
            [cat.doc EXCEPT ![role] = NoDocument][r] = cat.doc[r]
    BY <1>0
  <2> QED
    BY <1>3, <1>6, <2>1 DEF Releases
<1>7. ASSUME NEW d \in Documents, NEW role \in {"Candidate", "RestartRequired"}, AcceptsIn(role, d)
      PROVE  RolesDistinct'
  <2>1. cat'.doc = [cat.doc EXCEPT ![role] = d]
    BY <1>7 DEF AcceptsIn, Parts
  <2>2. \A r \in CatalogRoles : cat.doc[r] # NoDocument =>
            /\ cat.doc[r].instance_id # d.instance_id
            /\ cat.doc[r].generation_id # d.generation_id
    BY <1>0, <1>7 DEF AcceptsIn, ContainsInstanceId, ValidGeneration, Retained
  <2>3. \A r \in CatalogRoles : cat'.doc[r] = IF r = role THEN d ELSE cat.doc[r]
    BY <1>0, <2>1
  <2> QED
    BY <1>0, <1>d, <2>2, <2>3 DEF RolesDistinct, Retained
<1> QED
  BY <1>1, <1>2, <1>4, <1>5, <1>6, <1>7 DEF CatalogEffect

LEMMA NextIInv == CatalogIInv /\ [CatalogNext]_catalogVars => CatalogIInv'
<1> SUFFICES ASSUME CatalogIInv, [CatalogNext]_catalogVars PROVE CatalogIInv'
  OBVIOUS
<1>1. CASE CatalogNext
  BY <1>1, NextEffect, TypeStep, WatermarkStep, RolesStep DEF CatalogIInv
<1>2. CASE UNCHANGED catalogVars
  BY <1>2 DEF catalogVars, CatalogIInv, CatalogTypeOK, WatermarksOrdered, RolesDistinct,
              HistoryBelowWatermarks, Retained
<1> QED
  BY <1>1, <1>2

THEOREM Inductive == CatalogSpec => []CatalogIInv
  BY InitCatalogIInv, NextIInv, PTL DEF CatalogSpec

-----------------------------------------------------------------------------
(* Theorems *)

\* The catalog keeps its shape whatever operations are applied to it, and the
\* active role always has a document.
THEOREM CatalogTypeCorrect == CatalogSpec => []CatalogTypeOK
<1>1. CatalogIInv => CatalogTypeOK
  BY DEF CatalogIInv
<1> QED
  BY <1>1, Inductive, PTL

\* The allocator stands just past the high watermark, which covers what has
\* been consumed, which covers what is retained.
THEOREM WatermarksAlwaysOrdered == CatalogSpec => []WatermarksOrdered
<1>1. CatalogIInv => WatermarksOrdered
  BY DEF CatalogIInv
<1> QED
  BY <1>1, Inductive, PTL

\* No two roles ever share an instance id or a generation.
THEOREM RolesAlwaysDistinct == CatalogSpec => []RolesDistinct
<1>1. CatalogIInv => RolesDistinct
  BY DEF CatalogIInv
<1> QED
  BY <1>1, Inductive, PTL

\* A generation accepted once is never accepted again in another document.
THEOREM GenerationsConsumedOnce == CatalogSpec => ConsumedOnce
<1>1. CatalogIInv /\ [CatalogNext]_catalogVars => [NewDocumentsAreFresh]_catalogVars
  <2> SUFFICES ASSUME CatalogIInv, CatalogNext,
                      NEW new \in Documents, Held(cat', new), ~Held(cat, new)
               PROVE  new.generation_id \notin accepted
    BY DEF NewDocumentsAreFresh
  <2>0. /\ cat.doc \in [CatalogRoles -> Documents \cup {NoDocument}]
        /\ {"Active", "Candidate", "Previous", "Quarantined", "RestartRequired"} = CatalogRoles
        /\ new # NoDocument /\ new.generation_id \in Nat
        /\ \A g \in accepted : g \in Nat /\ g <= cat.consumed
        /\ cat.consumed \in Nat
    BY NoDocumentIsNone
    DEF CatalogIInv, CatalogTypeOK, Catalogs, CatalogRoles, GenerationIds, Documents, HistoryBelowWatermarks
  <2>1. PICK role \in CatalogRoles : cat'.doc[role] = new
    BY DEF Held
  <2>2. \A r \in CatalogRoles : cat.doc[r] # new
    BY DEF Held
  <2>3. CatalogEffect
    BY NextEffect DEF CatalogIInv
  <2>4. ~Refuses /\ ~Allocates
    BY <2>1, <2>2 DEF Refuses, Allocates, Parts
  <2>5. ~Commits /\ ~Quarantines
    BY <2>0, <2>1, <2>2 DEF Commits, Quarantines, Moves, Parts
  <2>6. \A r \in {"Previous", "Quarantined", "RestartRequired"} : ~Releases(r)
    BY <2>0, <2>1, <2>2 DEF Releases, Moves, Parts
  <2>7. PICK d \in Documents, to \in {"Candidate", "RestartRequired"} : AcceptsIn(to, d)
    BY <2>3, <2>4, <2>5, <2>6 DEF CatalogEffect
  <2>8. d = new
    BY <2>0, <2>1, <2>2, <2>7 DEF AcceptsIn, Parts
  <2> QED
    BY <2>0, <2>7, <2>8 DEF AcceptsIn, ValidGeneration
<1> QED
  BY <1>1, Inductive, PTL DEF CatalogSpec, ConsumedOnce

\* The allocator never hands out a generation twice, nor one that a document
\* with a generation of the caller's own choice has used.
THEOREM AllocationsNeverRepeat == CatalogSpec => GenerationsNeverRepeat
<1>1. CatalogIInv => cat.next \notin reserved \cup accepted
  BY CatalogAssumption
  DEF CatalogIInv, CatalogTypeOK, Catalogs, GenerationIds, WatermarksOrdered, HistoryBelowWatermarks
<1>2. CatalogIInv /\ [CatalogNext]_catalogVars =>
          [Allocate /\ ok' => cat.next \notin reserved \cup accepted]_catalogVars
  BY <1>1
<1> QED
  BY <1>2, Inductive, PTL DEF CatalogSpec, GenerationsNeverRepeat

\* An operation that is refused leaves the catalog untouched.
THEOREM RefusalIsAtomic == CatalogSpec => RefusalChangesNothing
<1>1. CatalogIInv /\ [CatalogNext]_catalogVars => [ok' \/ cat' = cat]_catalogVars
  <2> SUFFICES ASSUME CatalogIInv, CatalogNext PROVE ok' \/ cat' = cat
    OBVIOUS
  <2>1. CatalogEffect
    BY NextEffect DEF CatalogIInv
  <2> QED
    BY <2>1 DEF CatalogEffect, Refuses, Allocates, Commits, Quarantines, Releases, Moves, AcceptsIn
<1> QED
  BY <1>1, Inductive, PTL DEF CatalogSpec, RefusalChangesNothing

\* A candidate leaves only for the active or the quarantined role, and only a
\* candidate replaces the active document, which is then the previous one.
THEOREM DocumentsAlwaysReleasedByRole == CatalogSpec => DocumentsReleasedByRole
<1>1. CatalogIInv /\ [CatalogNext]_catalogVars => [DocumentsReleased]_catalogVars
  <2> SUFFICES ASSUME CatalogIInv, CatalogNext PROVE DocumentsReleased
    OBVIOUS
  <2>0. /\ cat.doc \in [CatalogRoles -> Documents \cup {NoDocument}]
        /\ {"Active", "Candidate", "Previous", "Quarantined", "RestartRequired"} = CatalogRoles
    BY DEF CatalogIInv, CatalogTypeOK, Catalogs, CatalogRoles
  <2>1. CatalogEffect
    BY NextEffect DEF CatalogIInv
  <2>2. CASE Refuses \/ Allocates
    BY <2>2 DEF Refuses, Allocates, Parts, DocumentsReleased
  <2>3. CASE Commits
    BY <2>0, <2>3 DEF Commits, Moves, Parts, DocumentsReleased
  <2>4. CASE Quarantines
    BY <2>0, <2>4 DEF Quarantines, Moves, Parts, DocumentsReleased
  <2>5. ASSUME NEW role \in {"Previous", "Quarantined", "RestartRequired"}, Releases(role)
        PROVE  DocumentsReleased
    BY <2>0, <2>5 DEF Releases, Moves, Parts, DocumentsReleased
  <2>6. ASSUME NEW d \in Documents,
               \/ cat.doc["Candidate"] = NoDocument /\ AcceptsIn("Candidate", d)
               \/ AcceptsIn("RestartRequired", d)
        PROVE  DocumentsReleased
    BY <2>0, <2>6 DEF AcceptsIn, Parts, DocumentsReleased
  <2> QED
    BY <2>1, <2>2, <2>3, <2>4, <2>5, <2>6 DEF CatalogEffect
<1> QED
  BY <1>1, Inductive, PTL DEF CatalogSpec, DocumentsReleasedByRole

-----------------------------------------------------------------------------
(* The correlation table.  Its inductive invariant adds that every token      *)
(* issued so far has a generation below the next one, unless generations are  *)
(* exhausted.  That is what keeps a new token out of the ones resolved        *)
(* already.                                                                   *)

IssuedBelow == nextGeneration # 0 => \A t \in issued : t.generation < nextGeneration

TableIInv == TableTypeOK /\ TableBounded /\ ResolvedOnce /\ IssuedBelow

LEMMA PendingFinite == IsFiniteSet(Pending)
  BY CorrelationAssumption, FS_Subset DEF Pending

LEMMA EmptyTable ==
    ASSUME pending = [id \in RequestIds |-> NoEntry]
    PROVE  Pending = {} /\ TokensOf(Pending) = {}
  BY DEF Pending, TokensOf

LEMMA InitTableIInv == TableInit => TableIInv
<1> SUFFICES ASSUME TableInit PROVE TableIInv
  OBVIOUS
<1>1. Pending = {} /\ TokensOf(Pending) = {}
  BY EmptyTable DEF TableInit
<1>2. Cardinality({}) = 0
  BY FS_EmptySet
<1> QED
  BY <1>1, <1>2, CorrelationAssumption
  DEF TableInit, TableIInv, TableTypeOK, TableBounded, ResolvedOnce, IssuedBelow

-----------------------------------------------------------------------------
(* What the operations do to the entries *)

\* An insert that is not refused.
Inserts(id, deadline) ==
    /\ pending[id] = NoEntry /\ Cardinality(Pending) # MaxPending /\ nextGeneration # 0
    /\ Store(id, deadline, Advance)

LEMMA InsertEffect ==
    ASSUME NEW id \in RequestIds, NEW deadline \in Epochs, Insert(id, deadline)
    PROVE  Errs \/ Inserts(id, deadline)
  BY DEF Insert, Inserts

\* The entries of a set of request ids leave and are resolved.
Resolves(ids) ==
    /\ ids \subseteq Pending
    /\ pending' = [id \in RequestIds |-> IF id \in ids THEN NoEntry ELSE pending[id]]
    /\ returned' = TRUE
    /\ resolved' = resolved \cup TokensOf(ids)
    /\ UNCHANGED <<nextGeneration, issued>>

LEMMA CompleteEffect ==
    ASSUME TableTypeOK, NEW token \in Tokens, Complete(token)
    PROVE  Errs \/ Resolves({token.request_id})
<1> DEFINE id == token.request_id
<1>0. id \in RequestIds /\ token.generation \in 1..MaxCorrelation /\ token = Token(id, token.generation)
  BY DEF Tokens, Token
<1>1. CASE pending[id].generation # token.generation
  BY <1>1 DEF Complete
<1>2. CASE pending[id].generation = token.generation
  <2>1. id \in Pending
    BY <1>0, <1>2, CorrelationAssumption DEF Pending, NoEntry
  <2>2. TokensOf({id}) = {token}
    BY <1>0, <1>2 DEF TokensOf
  <2>3. pending \in [RequestIds -> [generation : 1..MaxCorrelation, deadline : Epochs] \cup {NoEntry}]
    BY DEF TableTypeOK
  <2>4. /\ pending' = [pending EXCEPT ![id] = NoEntry] /\ returned' = TRUE
        /\ resolved' = resolved \cup {token} /\ UNCHANGED <<nextGeneration, issued>>
    BY <1>2 DEF Complete
  <2>5. pending' = [i \in RequestIds |-> IF i \in {id} THEN NoEntry ELSE pending[i]]
    BY <2>3, <2>4
  <2> HIDE DEF id
  <2>6. Resolves({id})
    BY <2>1, <2>2, <2>4, <2>5 DEF Resolves
  <2> QED
    BY <2>6 DEF id
<1> QED
  BY <1>1, <1>2

LEMMA ExpireEffect ==
    ASSUME NEW now \in Epochs, Expire(now)
    PROVE  Resolves({id \in Pending : pending[id].deadline <= now})
  BY DEF Expire, Resolves

-----------------------------------------------------------------------------
(* The invariant is inductive *)

LEMMA InsertsStep ==
    ASSUME TableIInv, NEW id \in RequestIds, NEW deadline \in Epochs, Inserts(id, deadline)
    PROVE  TableIInv'
<1> DEFINE g == nextGeneration
           entry == [generation |-> g, deadline |-> deadline]
<1>0. /\ pending \in [RequestIds -> [generation : 1..MaxCorrelation, deadline : Epochs] \cup {NoEntry}]
      /\ g \in 1..MaxCorrelation /\ MaxCorrelation \in Nat /\ MaxPending \in Nat
      /\ issued \subseteq Tokens /\ resolved \subseteq Tokens
      /\ \A t \in issued : t.generation \in Nat /\ t.generation < g
      /\ issued = TokensOf(Pending) \cup resolved
      /\ TokensOf(Pending) \cap resolved = {}
  BY CorrelationAssumption
  DEF TableIInv, TableTypeOK, IssuedBelow, Inserts, Tokens, ResolvedOnce
<1>1. /\ pending' = [pending EXCEPT ![id] = entry]
      /\ nextGeneration' = Advance /\ returned' = TRUE
      /\ issued' = issued \cup {Token(id, g)} /\ resolved' = resolved
  BY DEF Inserts, Store
<1>2. entry \in [generation : 1..MaxCorrelation, deadline : Epochs] /\ entry # NoEntry
  BY <1>0, CorrelationAssumption DEF NoEntry
<1> HIDE DEF entry
<1>3. Pending' = Pending \cup {id} /\ id \notin Pending
  BY <1>0, <1>1, <1>2 DEF Pending, Inserts
<1>4. Token(id, g) \in Tokens /\ Token(id, g).generation = g
  BY <1>0 DEF Token, Tokens
<1>5. nextGeneration' \in 0..MaxCorrelation /\ (nextGeneration' # 0 => nextGeneration' = g + 1)
  BY <1>0, <1>1 DEF Advance
<1>6. TableTypeOK'
  BY <1>0, <1>1, <1>2, <1>4, <1>5 DEF TableTypeOK
<1>7. TableBounded'
  <2>1. /\ Cardinality(Pending \cup {id}) = Cardinality(Pending) + 1
        /\ Cardinality(Pending) \in Nat
    BY <1>3, PendingFinite, FS_AddElement, FS_CardinalityType
  <2>2. Cardinality(Pending) <= MaxPending /\ Cardinality(Pending) # MaxPending
    BY DEF TableIInv, TableBounded, Inserts
  <2>3. Cardinality(Pending) + 1 <= MaxPending
    BY <2>1, <2>2, <1>0
  <2> QED
    BY <1>3, <2>1, <2>3 DEF TableBounded
<1>8. TokensOf(Pending)' = TokensOf(Pending) \cup {Token(id, g)}
  <2>1. \A i \in Pending : pending'[i] = pending[i]
    BY <1>0, <1>1, <1>3 DEF Pending
  <2>2. pending'[id].generation = g
    BY <1>0, <1>1 DEF entry
  <2> QED
    BY <1>3, <2>1, <2>2 DEF TokensOf
<1>9. ResolvedOnce'
  <2>1. Token(id, g) \notin resolved
    BY <1>0, <1>4
  <2> QED
    BY <1>0, <1>1, <1>8, <2>1 DEF ResolvedOnce
<1>10. IssuedBelow'
  BY <1>0, <1>1, <1>4, <1>5 DEF IssuedBelow
<1> QED
  BY <1>6, <1>7, <1>9, <1>10 DEF TableIInv

LEMMA ResolvesStep ==
    ASSUME TableIInv, NEW ids, Resolves(ids)
    PROVE  TableIInv'
<1>0. /\ pending \in [RequestIds -> [generation : 1..MaxCorrelation, deadline : Epochs] \cup {NoEntry}]
      /\ nextGeneration \in 0..MaxCorrelation
      /\ issued \subseteq Tokens /\ resolved \subseteq Tokens
      /\ issued = TokensOf(Pending) \cup resolved
      /\ TokensOf(Pending) \cap resolved = {}
  BY DEF TableIInv, TableTypeOK, ResolvedOnce
<1>1. /\ ids \subseteq Pending
      /\ pending' = [id \in RequestIds |-> IF id \in ids THEN NoEntry ELSE pending[id]]
      /\ returned' = TRUE /\ resolved' = resolved \cup TokensOf(ids)
      /\ nextGeneration' = nextGeneration /\ issued' = issued
  BY DEF Resolves
<1>2. Pending' = Pending \ ids
  BY <1>1 DEF Pending
<1>3. TokensOf(ids) \subseteq TokensOf(Pending)
  BY <1>1 DEF TokensOf
<1>4. TableTypeOK'
  BY <1>0, <1>1, <1>3 DEF TableIInv, TableTypeOK
<1>5. TableBounded'
  <2>1. Pending \ ids \subseteq Pending
    OBVIOUS
  <2>2. Cardinality(Pending \ ids) <= Cardinality(Pending)
    BY <2>1, PendingFinite, FS_Subset
  <2>3. Cardinality(Pending \ ids) \in Nat /\ Cardinality(Pending) \in Nat
    BY <2>1, PendingFinite, FS_Subset, FS_CardinalityType
  <2> QED
    BY <1>2, <2>2, <2>3, CorrelationAssumption DEF TableIInv, TableBounded
<1>6. TokensOf(Pending)' = TokensOf(Pending \ ids)
  <2>1. \A i \in Pending \ ids : pending'[i] = pending[i]
    BY <1>1 DEF Pending
  <2> QED
    BY <1>2, <2>1 DEF TokensOf
<1>7. /\ TokensOf(Pending) = TokensOf(Pending \ ids) \cup TokensOf(ids)
      /\ TokensOf(Pending \ ids) \cap TokensOf(ids) = {}
  BY <1>1 DEF TokensOf, Token
<1>8. ResolvedOnce'
  BY <1>0, <1>1, <1>6, <1>7 DEF ResolvedOnce
<1>9. IssuedBelow'
  BY <1>1 DEF TableIInv, IssuedBelow
<1> QED
  BY <1>4, <1>5, <1>8, <1>9 DEF TableIInv

LEMMA NextTableIInv == TableIInv /\ [TableNext]_tableVars => TableIInv'
<1> SUFFICES ASSUME TableIInv, [TableNext]_tableVars PROVE TableIInv'
  OBVIOUS
<1>1. CASE UNCHANGED <<pending, nextGeneration, issued, resolved>> /\ returned' \in BOOLEAN
  BY <1>1 DEF TableIInv, TableTypeOK, TableBounded, ResolvedOnce, IssuedBelow, Pending, TokensOf
<1>2. CASE UNCHANGED tableVars
  BY <1>1, <1>2 DEF tableVars, TableIInv, TableTypeOK
<1>3. CASE Errs
  BY <1>1, <1>3 DEF Errs
<1>4. ASSUME NEW id \in RequestIds, NEW deadline \in Epochs, Insert(id, deadline)
      PROVE  TableIInv'
  BY <1>3, <1>4, InsertEffect, InsertsStep
<1>5. ASSUME NEW token \in Tokens, Complete(token)
      PROVE  TableIInv'
  BY <1>3, <1>5, CompleteEffect, ResolvesStep DEF TableIInv
<1>6. ASSUME NEW now \in Epochs, Expire(now)
      PROVE  TableIInv'
  BY <1>6, ExpireEffect, ResolvesStep
<1> QED
  BY <1>2, <1>4, <1>5, <1>6 DEF TableNext

THEOREM TableInductive == TableSpec => []TableIInv
  BY InitTableIInv, NextTableIInv, PTL DEF TableSpec

-----------------------------------------------------------------------------
(* Theorems *)

\* Entries carry a generation that has been used, and a deadline.
THEOREM TableTypeCorrect == TableSpec => []TableTypeOK
<1>1. TableIInv => TableTypeOK
  BY DEF TableIInv
<1> QED
  BY <1>1, TableInductive, PTL

\* The table never holds more than MAX requests.
THEOREM TableAlwaysBounded == TableSpec => []TableBounded
<1>1. TableIInv => TableBounded
  BY DEF TableIInv
<1> QED
  BY <1>1, TableInductive, PTL

\* Every issued token is pending or resolved, and never both, however late,
\* repeated or made up the completions are.
THEOREM EveryTokenResolvedOnce == TableSpec => []ResolvedOnce
<1>1. TableIInv => ResolvedOnce
  BY DEF TableIInv
<1> QED
  BY <1>1, TableInductive, PTL

\* No generation is used for two tokens, also at the end of the counter.
THEOREM TokensAlwaysUnique == TableSpec => TokensUnique
<1>1. TableIInv /\ [TableNext]_tableVars =>
        [nextGeneration' # nextGeneration =>
            \A t \in issued : t.generation # nextGeneration]_tableVars
  <2> SUFFICES ASSUME TableIInv, TableNext, nextGeneration' # nextGeneration
               PROVE  \A t \in issued : t.generation # nextGeneration
    OBVIOUS
  <2>1. nextGeneration # 0
    BY DEF TableNext, Insert, Complete, Expire, Errs
  <2>2. \A t \in issued : t.generation \in Nat /\ t.generation < nextGeneration
    BY <2>1 DEF TableIInv, TableTypeOK, IssuedBelow, Tokens
  <2> QED
    BY <2>2 DEF TableIInv, TableTypeOK
<1> QED
  BY <1>1, TableInductive, PTL DEF TableSpec, TokensUnique

\* An entry leaves only by its own token or by its own deadline.
THEOREM EntriesAlwaysLeaveForAReason == TableSpec => EntriesLeaveForAReason
<1>1. TableIInv /\ [TableNext]_tableVars => [EntriesLeave]_tableVars
  <2> SUFFICES ASSUME TableIInv, TableNext, NEW id \in Pending, pending'[id] # pending[id]
               PROVE  /\ pending'[id] = NoEntry
                      /\ Complete(Token(id, pending[id].generation)) \/ Expires(id)
    BY DEF EntriesLeave
  <2>0. /\ pending \in [RequestIds -> [generation : 1..MaxCorrelation, deadline : Epochs] \cup {NoEntry}]
        /\ id \in RequestIds /\ pending[id] # NoEntry
    BY DEF TableIInv, TableTypeOK, Pending
  <2>1. ~Errs
    BY DEF Errs
  <2>2. ASSUME NEW i \in RequestIds, NEW deadline \in Epochs, Insert(i, deadline)
        PROVE  FALSE
    <3>1. Inserts(i, deadline)
      BY <2>1, <2>2, InsertEffect
    <3> QED
      BY <2>0, <3>1 DEF Inserts, Store
  <2>3. ASSUME NEW token \in Tokens, Complete(token)
        PROVE  pending'[id] = NoEntry /\ Complete(Token(id, pending[id].generation))
    <3>1. /\ pending[token.request_id].generation = token.generation
          /\ pending' = [pending EXCEPT ![token.request_id] = NoEntry]
      BY <2>1, <2>3 DEF Complete
    <3>2. token.request_id = id
      BY <2>0, <3>1 DEF Tokens
    <3>3. token = Token(id, pending[id].generation)
      BY <3>1, <3>2 DEF Tokens, Token
    <3> QED
      BY <2>0, <2>3, <3>1, <3>2, <3>3
  <2>4. ASSUME NEW now \in Epochs, Expire(now)
        PROVE  pending'[id] = NoEntry /\ Expires(id)
    BY <2>0, <2>4 DEF Expire, Expires
  <2> QED
    BY <2>2, <2>3, <2>4 DEF TableNext
<1> QED
  BY <1>1, TableInductive, PTL DEF TableSpec, EntriesLeaveForAReason
=============================================================================
