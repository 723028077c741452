------------------------ MODULE MasterFaults_proofs -------------------------
(***************************************************************************)
(* Proofs about what the faults of workers can do to the supervised         *)
(* service, for any number of workers and disturbances.                     *)
(*                                                                          *)
(* The invariant SInv says what each role waits for and what a healthy      *)
(* worker does about it: a pending request fits the lifecycle of its role,  *)
(* a healthy worker that was not told to stop runs and answers what it is   *)
(* asked, and a master that has failed closed has a faulty active worker.   *)
(* It is preserved wherever the invariant IInv of MasterSystem_proofs       *)
(* holds. Each lemma ...Sane says that a function of Master.tla preserves   *)
(* Sane, for a master in the middle of a call with the observations O in    *)
(* hand.                                                                    *)
(***************************************************************************)
EXTENDS MasterSystem_proofs, FiniteSetTheorems

---------------------------------------------------------------------------
(* What the master waits for, and what a healthy worker does about it *)

\* No send fails, and no frame is bad.
Calm == Bounds.sends = 0 /\ Bounds.frames = 0

\* At most one worker is faulty.
Lone == \A i, j \in Faulty : i = j

Starting == {"BootAdopting", "BootActivating"}

\* What an acknowledgement says of the worker that sent it.
Says(p, f) ==
    /\ f.phase \in ControlPhases
    /\ f.ok /\ f.phase = "AdoptListeners" => p.startup # "fresh"
    /\ f.ok /\ f.phase = "Activate" => p.startup = "done"

Spoken(p) ==
    /\ \A k \in DOMAIN p.inbox : p.inbox[k].phase \in ControlPhases
    /\ \A k \in DOMAIN p.outbox : \/ p.outbox[k].kind = "Ack" /\ Says(p, p.outbox[k])
                                  \/ p.outbox[k].kind = "Bad" /\ ~Calm

Reports(p, o) ==
    /\ o.kind = "Ack" => Says(p, o)
    /\ o.kind = "Bad" => ~Calm
    /\ o.kind = "Disconnected" => ~p.linked

Truthful(s, O) ==
    /\ \A i \in InstanceIds : Spoken(s.proc[i])
    /\ \A o \in O : o.kind # "Nothing" => Reports(s.proc[o.id], o)

\* A killed worker owes no answer, and an empty role keeps nothing.
Tidy(w) == (w.state = "Forced" => w.pending = NoPending) /\ (w.id = NoInstance => w = NoSlot)

\* Only the exit of a retired worker that was told to stop has a deadline.
Timed(s) ==
    s.stage # "ShuttingDown" =>
        \A role \in Roles :
            s.slot[role].deadline => /\ role = "retired"
                                     /\ s.slot[role].id = s.sup.retired.instance_id
                                     /\ s.sup.retired.lifecycle = "Stopping"

Basic(s, O) == (\A role \in Roles : Tidy(s.slot[role])) /\ Timed(s) /\ Truthful(s, O)

Obeys(p) == \A k \in DOMAIN p.inbox : p.inbox[k].phase # "Shutdown"

Upright(p) == p.run = "live" /\ p.linked

\* Worker i has not been told to stop; if it is healthy and has adopted its
\* listeners, it runs.
Hired(i, p) == Obeys(p) /\ (i \notin Faulty /\ p.startup # "fresh" => Upright(p))

\* The first worker, slot w and process p, until it is active.
Boots(stg, w, p) ==
    /\ w.state = "Running"
    /\ w.pending # NoPending =>
          w.pending.phase = IF stg = "BootAdopting" THEN "AdoptListeners" ELSE "Activate"
    /\ w.id \in InstanceIds => Hired(w.id, p)
    /\ w.id \in InstanceIds \ Faulty /\ stg = "BootActivating" => p.startup # "fresh"

\* The active worker: what it is asked for is what the supervisor u waits for, and
\* if it is healthy it runs.
Leads(u, w, p) ==
    /\ w.state = "Running"
    /\ w.pending # NoPending =>
          \/ w.pending.phase = "Quiesce" /\ Occupied(u.candidate) /\ u.candidate.lifecycle = "Ready"
          \/ w.pending.phase = "Reactivate" /\ u.active.lifecycle = "Reactivating"
    /\ Obeys(p)
    /\ w.id \notin Faulty => Upright(p) /\ p.startup = "done"

\* It holds its gate closed, or it will when it has read what it was sent.
Held(p) ==
    \/ p.inbox = << >> /\ p.handle
    \/ Len(p.inbox) = 1 /\ p.inbox[1].phase = "Quiesce"

\* It can reopen its gate when it reads the request to.
Tame(p) ==
    \/ p.inbox = << >>
    \/ Len(p.inbox) = 1 /\ p.inbox[1].phase = "Reactivate" /\ p.handle
    \/ Len(p.inbox) = 2 /\ p.inbox[1].phase = "Quiesce" /\ p.inbox[2].phase = "Reactivate"

\* A healthy active worker reopens its gate when it is asked to.
Heeds(l, w, p, O) ==
    Calm /\ w.id \notin Faulty =>
        /\ l = "Quiescing" => Held(p)
        /\ l = "Reactivating" => Tame(p)
        /\ w.pending.phase = "Reactivate" =>
              /\ \A k \in DOMAIN p.outbox : p.outbox[k].req = w.pending.req => p.outbox[k].ok
              /\ \A o \in O : o.kind = "Ack" /\ o.id = w.id /\ o.req = w.pending.req => o.ok

\* The candidate h: as for the active worker, but it need not run before it has
\* adopted its listeners.
Tries(h, w, p) ==
    Occupied(h) =>
        /\ w.state = IF h.lifecycle = "Stopping" THEN "Forced" ELSE "Running"
        /\ w.pending # NoPending =>
              \/ w.pending.phase = "AdoptListeners" /\ h.lifecycle = "Preparing"
              \/ w.pending.phase = "Activate" /\ h.lifecycle = "Activating"
        /\ h.lifecycle # "Stopping" => Hired(w.id, p)
        /\ h.lifecycle \in {"Ready", "Activating"} /\ w.id \notin Faulty => p.startup # "fresh"

\* The retired worker h.
Retires(h, w) ==
    w.pending # NoPending => \/ w.pending.phase = "Drain" /\ h.lifecycle = "Draining"
                             \/ w.pending.phase = "Shutdown" /\ h.lifecycle = "Stopping"

Oper(s, O) ==
    /\ Leads(s.sup, s.slot["active"], s.proc[s.slot["active"].id])
    /\ Heeds(s.sup.active.lifecycle, s.slot["active"], s.proc[s.slot["active"].id], O)
    /\ Tries(s.sup.candidate, s.slot["candidate"], s.proc[s.slot["candidate"].id])
    /\ Retires(s.sup.retired, s.slot["retired"])

\* The supervisor given up with, if there was one, had an active worker at fault.
Blamed(u) == Calm /\ u # NoSupervisor => u.active.instance_id \in Faulty

Sane(s, O) ==
    /\ Basic(s, O)
    /\ s.stage \in Starting => Boots(s.stage, s.slot["active"], s.proc[s.slot["active"].id])
    /\ s.stage = "Operational" => Oper(s, O)
    /\ s.stage = "Failing" => \A role \in Roles : Present(s, role) => s.slot[role].state = "Forced"
    /\ s.stage \in {"Failing", "Failed"} => Blamed(s.sup)
    /\ s.stage = "ShuttingDown" =>
          \A role \in Roles : s.slot[role].pending # NoPending
                                 => s.slot[role].pending.phase = "Shutdown"
    /\ s.stage \in {"Stopped", "Failed"} => \A role \in Roles : ~Present(s, role)

\* A worker that is as it was for all it says and was told.
Mute(p, q) ==
    /\ q.startup = p.startup /\ q.linked = p.linked /\ q.handle = p.handle
    /\ q.inbox = p.inbox /\ q.outbox = p.outbox

Still(s, t) == t.stage = s.stage /\ t.sup = s.sup /\ t.slot = s.slot /\ t.proc = s.proc

LEMMA StillSane ==
  ASSUME NEW s, NEW t, NEW O, Still(s, t), Sane(s, O)
  PROVE  Sane(t, O)
<1>1. Basic(t, O)
  BY DEF Sane, Basic, Still, Timed, Truthful
<1>2. t.stage = "Operational" => Oper(t, O)
  BY DEF Sane, Still, Oper
<1> QED
  BY <1>1, <1>2 DEF Sane, Still, Present

LEMMA UpdStill ==
  ASSUME NEW s, NEW t, NEW F \in SUBSET {"forced", "failure", "nextReq", "events", "err", "sends",
                                         "deferred"},
         Upd(s, t, F)
  PROVE  Still(s, t)
  BY DEF Upd, Still, Fields

LEMMA MuteSpoken ==
  ASSUME NEW p, NEW q, Mute(p, q), Spoken(p)
  PROVE  Spoken(q)
<1>1. q.inbox = p.inbox /\ q.outbox = p.outbox /\ q.startup = p.startup
  BY DEF Mute
<1> QED
  BY <1>1 DEF Spoken, Says

LEMMA MuteTruthful ==
  ASSUME NEW s \in Masters, NEW t, NEW O, Truthful(s, O), \A o \in O : Seen(s, o),
         \A i \in InstanceIds : Mute(s.proc[i], t.proc[i])
  PROVE  Truthful(t, O)
<1>1. ASSUME NEW i \in InstanceIds PROVE Spoken(t.proc[i])
  <2>1. Spoken(s.proc[i]) /\ Mute(s.proc[i], t.proc[i])
    BY DEF Truthful
  <2> QED
    BY <2>1, MuteSpoken
<1>2. ASSUME NEW o \in O, o.kind # "Nothing" PROVE Reports(t.proc[o.id], o)
  <2>1. o.id \in InstanceIds /\ Reports(s.proc[o.id], o)
    BY <1>2 DEF Seen, Truthful
  <2> QED
    BY <2>1 DEF Mute, Reports, Says
<1> QED
  BY <1>1, <1>2 DEF Truthful

\* A slot and its process as another call leaves them.
Forces(s, t, role) ==
    /\ t \in Masters /\ t.stage = s.stage /\ t.sup = s.sup /\ t.deferred = s.deferred
    /\ t.err = s.err /\ t.nextReq = s.nextReq /\ t.failure = s.failure
    /\ \A b \in Roles \ {role} : t.slot[b] = s.slot[b]
    /\ t.slot[role].id = s.slot[role].id /\ t.slot[role].deadline = s.slot[role].deadline
    /\ Present(s, role) => t.slot[role].state = "Forced"
    /\ Tidy(s.slot[role]) => Tidy(t.slot[role])
    /\ \A j \in InstanceIds : Mute(s.proc[j], t.proc[j])
    /\ \A j \in InstanceIds \ {s.slot[role].id} : t.proc[j] = s.proc[j]

LEMMA ForceFacts ==
  ASSUME NEW s \in Masters, NEW role \in Roles, Present(s, role), NEW t, t = ForceRole(s, role)
  PROVE  Forces(s, t, role)
<1> DEFINE i == s.slot[role].id
           w == [s.slot[role] EXCEPT !.pending = NoPending, !.state = "Forced"]
           p == [s.proc[i] EXCEPT !.run = IF @ = "gone" THEN @ ELSE "killed"]
           u == [s EXCEPT !.slot[role].pending = NoPending, !.slot[role].state = "Forced",
                          !.proc[i].run = IF @ = "gone" THEN @ ELSE "killed"]
<1>0. s.slot[role] \in SlotRecords /\ i \in InstanceIds /\ s.proc[i] \in Procs
      /\ s.slot \in [Roles -> SlotRecords] /\ s.proc \in [InstanceIds -> Procs]
  BY MasterFields, RoleIds
<1>1. /\ t \in Masters /\ t.stage = s.stage /\ t.sup = s.sup /\ t.deferred = s.deferred
      /\ t.err = s.err /\ t.nextReq = s.nextReq /\ t.failure = s.failure
  BY ForceKeeps DEF Keeps
<1>2. CASE s.slot[role].state = "Forced"
  <2>1. t = s
    BY <1>2 DEF ForceRole
  <2> QED
    BY <1>1, <1>2, <2>1 DEF Forces, Mute
<1>3. CASE s.slot[role].state # "Forced"
  <2>1. t = u
    BY <1>3 DEF ForceRole
  <2>a. u.slot = [s.slot EXCEPT ![role] = w] /\ u.proc = [s.proc EXCEPT ![i] = p]
    BY MasterFields DEF IsRecord, Fields, SlotRecords, Procs
  <2> HIDE DEF u
  <2>2. t.slot = [s.slot EXCEPT ![role] = w] /\ t.proc = [s.proc EXCEPT ![i] = p]
    BY <2>1, <2>a
  <2>3. /\ w.id = i /\ w.pending = NoPending /\ w.state = "Forced"
        /\ w.deadline = s.slot[role].deadline
    BY <1>0 DEF SlotRecords
  <2>4. Mute(s.proc[i], p)
    BY <1>0 DEF Procs, Mute
  <2> HIDE DEF w, p
  <2>5. /\ t.slot[role] = w /\ \A b \in Roles \ {role} : t.slot[b] = s.slot[b]
    BY <1>0, <2>2
  <2>6. t.proc[i] = p /\ \A j \in InstanceIds \ {i} : t.proc[j] = s.proc[j]
    BY <1>0, <2>2
  <2>7. \A j \in InstanceIds : Mute(s.proc[j], t.proc[j])
    BY <2>4, <2>6 DEF Mute
  <2>8. Tidy(w)
    BY <1>0, <2>3, NoInstanceAssumption DEF Tidy
  <2> HIDE DEF i
  <2> QED
    BY <1>1, <2>3, <2>5, <2>6, <2>7, <2>8 DEF Forces, i
<1> QED
  BY <1>2, <1>3

LEMMA ForcePresentFacts ==
  ASSUME NEW s \in Masters, NEW role \in Roles, ~s.err, NEW t, t = ForcePresent(s, role)
  PROVE  Forces(s, t, role)
<1>1. CASE Present(s, role)
  BY <1>1, ForceFacts DEF ForcePresent, ThenForce, Try
<1>2. CASE ~Present(s, role)
  <2>1. t = s
    BY <1>2 DEF ForcePresent
  <2> QED
    BY <1>2, <2>1 DEF Forces, Mute
<1> QED
  BY <1>1, <1>2

\* Every worker has been killed.
Razes(s, t) ==
    /\ t \in Masters /\ t.stage = s.stage /\ t.sup = s.sup /\ t.deferred = s.deferred
    /\ t.err = s.err /\ t.nextReq = s.nextReq /\ t.failure = s.failure
    /\ \A b \in Roles :
          /\ t.slot[b].id = s.slot[b].id /\ t.slot[b].deadline = s.slot[b].deadline
          /\ Present(s, b) => t.slot[b].state = "Forced"
          /\ Tidy(s.slot[b]) => Tidy(t.slot[b])
    /\ \A j \in InstanceIds : Mute(s.proc[j], t.proc[j])

LEMMA ForceAllFacts ==
  ASSUME NEW s \in Masters, ~s.err, NEW t, t = ForceAll(s)
  PROVE  Razes(s, t)
<1> DEFINE a == ForcePresent(s, "active")
           c == ForcePresent(a, "candidate")
<1>1. Forces(s, a, "active")
  BY ForcePresentFacts DEF Roles
<1> HIDE DEF a
<1>2. Forces(a, c, "candidate")
  BY <1>1, ForcePresentFacts DEF Roles, Forces
<1> HIDE DEF c
<1>3. Forces(c, t, "retired")
  <2>1. t = ForcePresent(c, "retired") /\ c \in Masters /\ ~c.err
    BY <1>1, <1>2 DEF ForceAll, a, c, Forces
  <2> QED
    BY <2>1, ForcePresentFacts DEF Roles
<1>4. /\ t \in Masters /\ t.stage = s.stage /\ t.sup = s.sup /\ t.deferred = s.deferred
      /\ t.err = s.err /\ t.nextReq = s.nextReq /\ t.failure = s.failure
  BY <1>1, <1>2, <1>3 DEF Forces
<1>5. \A j \in InstanceIds : Mute(s.proc[j], t.proc[j])
  BY <1>1, <1>2, <1>3 DEF Forces, Mute
<1>6. /\ a.slot["candidate"] = s.slot["candidate"] /\ a.slot["retired"] = s.slot["retired"]
      /\ c.slot["active"] = a.slot["active"] /\ c.slot["retired"] = a.slot["retired"]
      /\ t.slot["active"] = c.slot["active"] /\ t.slot["candidate"] = c.slot["candidate"]
  BY <1>1, <1>2, <1>3 DEF Forces, Roles
<1>7. \A b \in Roles :
         /\ t.slot[b].id = s.slot[b].id /\ t.slot[b].deadline = s.slot[b].deadline
         /\ Present(s, b) => t.slot[b].state = "Forced"
         /\ Tidy(s.slot[b]) => Tidy(t.slot[b])
  BY <1>1, <1>2, <1>3, <1>6 DEF Forces, Roles, Present
<1> QED
  BY <1>4, <1>5, <1>7 DEF Razes

LEMMA NoSlotTidy == Tidy(NoSlot) /\ NoSlot.deadline = FALSE
  BY DEF Tidy, NoSlot, NewSlot

\* Failing closed: nothing is waited for, and the active worker is to blame.
LEMMA FailMasterSane ==
  ASSUME NEW s, NEW O, Net(s, O), ~s.err, Basic(s, O),
         s.stage \notin {"ShuttingDown", "Failed"}, Blamed(s.sup), NEW t, t = FailMaster(s)
  PROVE  /\ Sane(t, O) /\ ~t.err /\ t.stage = "Failing" /\ t.sup = s.sup /\ t.deferred = FALSE
         /\ \A b \in Roles \ {"active"} : t.slot[b].id = s.slot[b].id
         /\ t \in Masters /\ \A j \in InstanceIds : Mute(s.proc[j], t.proc[j])
<1> DEFINE w == IF s.deferred THEN NoSlot ELSE s.slot["active"]
           u == [s EXCEPT !.stage = "Failing", !.deferred = FALSE,
                          !.slot["active"] = IF s.deferred THEN NoSlot ELSE @]
<1>0. s \in Masters /\ (\A o \in O : Seen(s, o))
  BY DEF Net
<1>00. s.slot \in [Roles -> SlotRecords] /\ s.proc \in [InstanceIds -> Procs] /\ s.nextReq \in Nat
  BY <1>0, MasterFields
<1>1. t = ForceAll(u)
  BY DEF FailMaster
<1>2. /\ Upd(s, u, {"stage", "deferred", "slot"}) /\ u.stage = "Failing" /\ u.deferred = FALSE
      /\ u.slot = [s.slot EXCEPT !["active"] = w]
  BY <1>0, MasterFields DEF Upd, IsRecord, Fields
<1>3. w \in SlotRecords /\ Tidy(w) /\ (w.deadline => s.slot["active"].deadline)
  BY <1>00, NoSlotType, NoSlotTidy DEF Roles, Basic
<1> HIDE DEF u, w
<1>4. /\ u.sup = s.sup /\ u.nextReq = s.nextReq /\ u.forced = s.forced /\ u.failure = s.failure
      /\ u.events = s.events /\ u.err = s.err /\ u.sends = s.sends /\ u.proc = s.proc
      /\ IsRecord(u)
  BY <1>2 DEF Upd, Fields
<1>5. u.slot \in [Roles -> SlotRecords]
  BY <1>00, <1>2, <1>3
<1>6. u.stage \in Stages /\ u.deferred \in BOOLEAN
  BY <1>2 DEF Stages
<1>7. u \in Masters
  BY <1>0, <1>4, <1>5, <1>6, Rebuilt, MasterFields
<1>8. u.slot["active"] = w /\ \A b \in Roles \ {"active"} : u.slot[b] = s.slot[b]
  BY <1>00, <1>2 DEF Roles
<1>9. Razes(u, t)
  BY <1>1, <1>4, <1>7, ForceAllFacts
<1>10. /\ t \in Masters /\ ~t.err /\ t.stage = "Failing" /\ t.sup = s.sup /\ t.deferred = FALSE
       /\ \A b \in Roles \ {"active"} : t.slot[b].id = s.slot[b].id
       /\ \A j \in InstanceIds : Mute(s.proc[j], t.proc[j])
  BY <1>2, <1>4, <1>8, <1>9 DEF Razes
<1>11. \A b \in Roles : Tidy(t.slot[b])
  <2>1. \A b \in Roles : Tidy(u.slot[b])
    BY <1>3, <1>8 DEF Basic, Roles
  <2> QED
    BY <1>9, <2>1 DEF Razes
<1>12. Timed(t)
  <2>1. \A b \in Roles : t.slot[b].deadline => b # "active" /\ s.slot[b].deadline
    BY <1>3, <1>8, <1>9 DEF Razes, Basic, Timed, Roles
  <2> QED
    BY <1>10, <2>1 DEF Basic, Timed, Roles
<1>13. Truthful(t, O)
  BY <1>0, <1>10, MuteTruthful DEF Basic
<1>14. \A b \in Roles : Present(t, b) => t.slot[b].state = "Forced"
  BY <1>9 DEF Razes, Present
<1> QED
  BY <1>10, <1>11, <1>12, <1>13, <1>14 DEF Sane, Basic, Starting

LEMMA AppendCases ==
  ASSUME NEW S, NEW q \in Seq(S), NEW e \in S
  PROVE  \A k \in DOMAIN Append(q, e) :
            (k \in DOMAIN q /\ Append(q, e)[k] = q[k]) \/ Append(q, e)[k] = e
<1>1. \A k \in 1..(Len(q) + 1) : k \in 1..Len(q) \/ k = Len(q) + 1
  BY AppendFacts
<1> QED
  BY <1>1, AppendFacts

\* A request has been sent to the worker of a role.
Posts(s, t, role, request) ==
    /\ Sent(s, t, role, request)
    /\ \A b \in Roles \ {role} : t.slot[b] = s.slot[b]
    /\ t.slot[role].id = s.slot[role].id /\ t.slot[role].deadline = s.slot[role].deadline
    /\ t.slot[role].state = s.slot[role].state
    /\ LET p == s.proc[s.slot[role].id]
           q == t.proc[s.slot[role].id]
       IN  q.startup = p.startup /\ q.linked = p.linked /\ q.handle = p.handle

LEMMA IssuedFacts ==
  ASSUME NEW s \in Masters, NEW role \in Roles, Present(s, role), NEW phase \in ControlPhases,
         NEW t, t = Issued(s, role, phase)
  PROVE  Posts(s, t, role, [req |-> s.nextReq, phase |-> phase])
<1> DEFINE i == s.slot[role].id
           request == [req |-> s.nextReq, phase |-> phase]
           u == Issued(s, role, phase)
           w == [s.slot[role] EXCEPT !.pending = request]
           p == [s.proc[i] EXCEPT !.inbox = Append(@, request)]
<1>0. /\ s.slot \in [Roles -> SlotRecords] /\ s.proc \in [InstanceIds -> Procs]
      /\ s.slot[role] \in SlotRecords /\ i \in InstanceIds /\ s.proc[i] \in Procs
  BY MasterFields, RoleIds
<1>1. Sent(s, t, role, request)
  BY IssuedSent
<1> HIDE DEF request
<1>2. u.slot = [s.slot EXCEPT ![role] = w] /\ u.proc = [s.proc EXCEPT ![i] = p]
  BY MasterFields DEF Issued, IsRecord, Fields, request
<1>3. w.deadline = s.slot[role].deadline /\ w.id = i /\ w.state = s.slot[role].state
  BY <1>0 DEF SlotRecords
<1>4. p.startup = s.proc[i].startup /\ p.linked = s.proc[i].linked /\ p.handle = s.proc[i].handle
  BY <1>0 DEF Procs
<1> HIDE DEF u, w, p
<1>5. /\ u.slot[role] = w /\ u.proc[i] = p
      /\ \A b \in Roles \ {role} : u.slot[b] = s.slot[b]
  BY <1>0, <1>2
<1> QED
  BY <1>1, <1>3, <1>4, <1>5 DEF Posts, u, request

\* What a request does to the truth of what is said.
LEMMA PostsTruthful ==
  ASSUME NEW s, NEW O, Net(s, O), NEW role \in Roles, NEW request, NEW t,
         Posts(s, t, role, request), Truthful(s, O)
  PROVE  Truthful(t, O)
<1> DEFINE i == s.slot[role].id
<1>0. /\ s \in Masters /\ i \in InstanceIds /\ (\A o \in O : Seen(s, o))
      /\ request \in Requests /\ request.phase \in ControlPhases
  BY DEF Net, Posts, Sent
<1>1. /\ t.proc[i].outbox = s.proc[i].outbox /\ t.proc[i].startup = s.proc[i].startup
      /\ t.proc[i].inbox = Append(s.proc[i].inbox, request) /\ t.proc[i].linked = s.proc[i].linked
      /\ \A j \in InstanceIds \ {i} : t.proc[j] = s.proc[j]
  BY DEF Posts, Sent
<1>2. ASSUME NEW j \in InstanceIds PROVE Spoken(t.proc[j])
  <2>1. Spoken(s.proc[j])
    BY DEF Truthful
  <2>2. CASE j = i
    <3>1. s.proc[i].inbox \in Seq(Requests)
      BY <1>0, MasterFields DEF Procs
    <3>2. \A k \in DOMAIN t.proc[i].inbox : t.proc[i].inbox[k].phase \in ControlPhases
      <4> DEFINE q == s.proc[i].inbox
      <4>1. \A k \in DOMAIN q : q[k].phase \in ControlPhases
        BY <2>1, <2>2 DEF Spoken
      <4> HIDE DEF q
      <4>2. \A k \in DOMAIN Append(q, request) : Append(q, request)[k].phase \in ControlPhases
        <5>1. q \in Seq(Requests)
          BY <3>1 DEF q
        <5> QED
          BY <1>0, <4>1, <5>1, AppendCases
      <4> QED
        BY <1>1, <4>2 DEF q
    <3> QED
      BY <1>1, <2>1, <2>2, <3>2 DEF Spoken, Says
  <2>3. CASE j # i
    BY <1>1, <2>1, <2>3
  <2> QED
    BY <2>2, <2>3
<1>3. ASSUME NEW o \in O, o.kind # "Nothing" PROVE Reports(t.proc[o.id], o)
  <2>1. o.id \in InstanceIds /\ Reports(s.proc[o.id], o)
    BY <1>0, <1>3 DEF Seen, Truthful
  <2>2. t.proc[o.id].startup = s.proc[o.id].startup /\ t.proc[o.id].linked = s.proc[o.id].linked
    BY <1>1, <2>1
  <2> QED
    BY <2>1, <2>2 DEF Reports, Says
<1> QED
  BY <1>2, <1>3 DEF Truthful

LEMMA PostsBasic ==
  ASSUME NEW s, NEW O, Net(s, O), NEW role \in Roles, NEW request, NEW t,
         Posts(s, t, role, request), Basic(s, O), s.slot[role].state # "Forced"
  PROVE  /\ Basic(t, O) /\ t \in Masters /\ t.stage = s.stage /\ t.sup = s.sup /\ t.err = s.err
         /\ t.deferred = s.deferred
<1> DEFINE i == s.slot[role].id
<1>0. /\ s \in Masters /\ t \in Masters /\ i \in InstanceIds /\ t.stage = s.stage
      /\ t.sup = s.sup /\ t.err = s.err /\ t.deferred = s.deferred /\ (\A o \in O : Seen(s, o))
      /\ request \in Requests /\ request.phase \in ControlPhases
  BY DEF Net, Posts, Sent
<1>1. \A b \in Roles : Tidy(t.slot[b])
  <2>1. Tidy(t.slot[role])
    BY <1>0, NoInstanceAssumption DEF Posts, Sent, Tidy
  <2> QED
    BY <2>1 DEF Posts, Basic
<1>2. Timed(t)
  BY <1>0 DEF Posts, Basic, Timed
<1>3. Truthful(t, O)
  BY PostsTruthful DEF Basic
<1> QED
  BY <1>0, <1>1, <1>2, <1>3 DEF Basic

---------------------------------------------------------------------------
(* Rolling back *)

LEMMA FailedMoves ==
  ASSUME NEW u \in Sups, Agree(u), Occupied(u.candidate), NEW answer,
         answer = CandidateFailed(u, u.candidate.instance_id)
  PROVE  /\ answer.sup.retired = u.retired
         /\ \/ /\ Len(answer.actions) = 2 /\ u.active.lifecycle = "Quiescing"
               /\ answer.sup.active.lifecycle = "Reactivating"
            \/ /\ Len(answer.actions) # 2 /\ u.active.lifecycle = "Active"
               /\ answer.sup.active = u.active
            \/ /\ Len(answer.actions) # 2 /\ u.active.lifecycle = "Reactivating"
               /\ answer.sup.active = u.active
<1> DEFINE i == u.candidate.instance_id
           v == Moved(u, "candidate", "Stopping")
           x == Moved(v, "active", "Reactivating")
<1>1. Holds(u, "candidate", i) /\ CanTransition(u.candidate.lifecycle, "Failed")
  BY DEF Agree, Holds, CanTransition, Lifecycles
<1>2. /\ v \in Sups /\ v.retired = u.retired /\ v.active = u.active
  BY MovedFacts DEF Roles, Lifecycles
<1> HIDE DEF v
<1>3. /\ x.active.lifecycle = "Reactivating" /\ x.retired = v.retired
  BY <1>2, MovedFacts DEF Roles, Lifecycles
<1> HIDE DEF x
<1>4. CASE u.active.lifecycle = "Quiescing"
  <2>1. answer = Accept(x, <<Action("Activate", u.active.instance_id), Action("Terminate", i)>>)
    BY <1>1, <1>4 DEF CandidateFailed, x, v
  <2>2. answer.sup = x /\ Len(answer.actions) = 2
    BY <2>1 DEF Accept
  <2> QED
    BY <1>2, <1>3, <1>4, <2>2
<1>5. CASE u.active.lifecycle # "Quiescing"
  <2>1. answer = Accept(v, <<Action("Terminate", i)>>)
    BY <1>1, <1>5 DEF CandidateFailed, v
  <2>2. answer.sup = v /\ Len(answer.actions) # 2
    BY <2>1 DEF Accept
  <2>3. u.active.lifecycle \in {"Active", "Reactivating"}
    BY <1>5 DEF Agree
  <2> QED
    BY <1>2, <2>2, <2>3
<1> QED
  BY <1>4, <1>5

\* Nobody has answered a request that is about to be sent.
LEMMA Unanswered ==
  ASSUME NEW s, NEW O, Net(s, O), NEW i \in InstanceIds
  PROVE  /\ \A k \in DOMAIN s.proc[i].outbox : s.proc[i].outbox[k].req # s.nextReq
         /\ \A o \in O : o.kind = "Ack" => o.req # s.nextReq
<1>1. s.proc[i].outbox \in Seq(Frames) /\ s.nextReq \in Nat
  BY MasterFields DEF Net, Procs
<1>2. \A k \in DOMAIN s.proc[i].outbox :
         s.proc[i].outbox[k].req \in Nat /\ s.proc[i].outbox[k].req < s.nextReq
  <2> DEFINE q == s.proc[i].outbox
  <2>1. q \in Seq(Frames) /\ Below(q, s.nextReq)
    BY <1>1 DEF Net, Numbered
  <2> HIDE DEF q
  <2>2. \A k \in DOMAIN q : q[k] \in Frames
    BY <2>1, Elements
  <2>3. \A k \in DOMAIN q : q[k].req \in Nat /\ q[k].req < s.nextReq
    BY <2>1, <2>2 DEF Below, Frames
  <2> QED
    BY <2>3 DEF q
<1>3. \A o \in O : o.kind = "Ack" => o.req \in Nat /\ o.req < s.nextReq
  BY DEF Net, Seen, Observations
<1> QED
  BY <1>1, <1>2, <1>3

\* A worker that holds its gate closed will reopen it.
LEMMA HeldTame ==
  ASSUME NEW p, NEW q, NEW r \in Requests, p.inbox \in Seq(Requests), Held(p),
         q.inbox = Append(p.inbox, r), r.phase = "Reactivate", q.handle = p.handle
  PROVE  Tame(q)
<1> DEFINE b == p.inbox
<1>1. CASE b = << >> /\ p.handle
  <2>1. Len(Append(b, r)) = 1 /\ Append(b, r)[1] = r
    BY <1>1
  <2> QED
    BY <1>1, <2>1 DEF Tame
<1>2. CASE Len(b) = 1 /\ b[1].phase = "Quiesce"
  <2>0. b \in Seq(Requests)
    OBVIOUS
  <2> HIDE DEF b
  <2>1. Len(Append(b, r)) = 2 /\ Append(b, r)[1] = b[1] /\ Append(b, r)[2] = r
    <3>1. 1 \in 1..Len(b) /\ Len(b) + 1 = 2
      BY <1>2
    <3>2. /\ Len(Append(b, r)) = Len(b) + 1 /\ Append(b, r)[Len(b) + 1] = r
          /\ \A k \in 1..Len(b) : Append(b, r)[k] = b[k]
      BY <2>0, AppendFacts
    <3> QED
      BY <3>1, <3>2
  <2> QED
    BY <1>2, <2>1 DEF Tame, b
<1> QED
  BY <1>1, <1>2 DEF Held

LEMMA ObeysMore ==
  ASSUME NEW p, NEW q, NEW r \in Requests, p.inbox \in Seq(Requests), Obeys(p),
         q.inbox = Append(p.inbox, r), r.phase # "Shutdown"
  PROVE  Obeys(q)
  BY AppendCases DEF Obeys

\* A healthy worker can be asked if no send fails.
LEMMA Askable ==
  ASSUME NEW s, NEW bad, NEW role, Calm => bad = {}, Upright(s.proc[s.slot[role].id])
  PROVE  Calm => CanIssue(s, role, bad)
  BY DEF CanIssue, Reachable, Upright

\* The active worker is asked to reopen its gate.
LEMMA ReactivateSent ==
  ASSUME NEW s, NEW O, NEW t, Net(s, O), s.slot["active"].id \in InstanceIds,
         NEW u, Leads(u, s.slot["active"], s.proc[s.slot["active"].id]),
         Heeds("Quiescing", s.slot["active"], s.proc[s.slot["active"].id], O),
         Posts(s, t, "active", [req |-> s.nextReq, phase |-> "Reactivate"]),
         NEW v, v.active.lifecycle = "Reactivating"
  PROVE  /\ Leads(v, t.slot["active"], t.proc[t.slot["active"].id])
         /\ Heeds("Reactivating", t.slot["active"], t.proc[t.slot["active"].id], O)
<1> DEFINE i == s.slot["active"].id
           p == s.proc[i]
           q == t.proc[i]
           w == s.slot["active"]
           x == t.slot["active"]
           r == [req |-> s.nextReq, phase |-> "Reactivate"]
<1>1. /\ x.id = i /\ x.state = w.state /\ x.pending = r /\ r \in Requests
      /\ q.run = p.run /\ q.outbox = p.outbox /\ q.inbox = Append(p.inbox, r)
      /\ q.startup = p.startup /\ q.linked = p.linked /\ q.handle = p.handle
  BY DEF Posts, Sent, Roles
<1>2. p.inbox \in Seq(Requests)
  BY MasterFields DEF Net, Procs
<1>3. r.phase = "Reactivate" /\ r.req = s.nextReq
  OBVIOUS
<1> HIDE DEF r
<1>4. Obeys(q)
  <2>1. Obeys(p) /\ r.phase # "Shutdown"
    BY <1>3 DEF Leads
  <2> HIDE DEF p, q
  <2> QED
    BY <1>1, <1>2, <2>1, ObeysMore
<1>5. Leads(v, x, q)
  BY <1>1, <1>3, <1>4 DEF Leads, Upright
<1>6. Heeds("Reactivating", x, q, O)
  <2> SUFFICES ASSUME Calm, x.id \notin Faulty
               PROVE  /\ Tame(q)
                      /\ \A k \in DOMAIN q.outbox : q.outbox[k].req = x.pending.req => q.outbox[k].ok
                      /\ \A o \in O : o.kind = "Ack" /\ o.id = x.id /\ o.req = x.pending.req => o.ok
    BY DEF Heeds
  <2>1. Held(p)
    BY <1>1 DEF Heeds
  <2>2. Tame(q)
    BY <1>1, <1>2, <1>3, <2>1, HeldTame
  <2> QED
    BY <1>1, <1>3, <2>2, Unanswered
<1> QED
  BY <1>1, <1>5, <1>6

\* A candidate that is given up has been killed.
LEMMA Forsaken ==
  ASSUME NEW w, NEW p, NEW h, w.state = "Forced", Tidy(w), h.lifecycle = "Stopping"
  PROVE  Tries(h, w, p)
  BY DEF Tries, Tidy

\* The parts of Sane that an operational master has.
LEMMA SaneOper ==
  ASSUME NEW s, NEW O, Sane(s, O), s.stage = "Operational"
  PROVE  Basic(s, O) /\ Oper(s, O)
  BY DEF Sane

LEMMA OperSane ==
  ASSUME NEW s, NEW O, Basic(s, O), Oper(s, O), s.stage = "Operational"
  PROVE  Sane(s, O)
  BY DEF Sane, Starting

\* Steering the supervisor leaves what is said and kept alone.
LEMMA SteersBasic ==
  ASSUME NEW s, NEW t, NEW O, Basic(s, O), Steers(s, t),
         s.sup.retired.lifecycle = "Stopping" =>
            /\ t.sup.retired.lifecycle = "Stopping"
            /\ t.sup.retired.instance_id = s.sup.retired.instance_id
  PROVE  Basic(t, O)
  BY DEF Basic, Steers, Timed, Truthful

LEMMA ForcesBasic ==
  ASSUME NEW s, NEW t, NEW O, NEW role \in Roles, Net(s, O), Basic(s, O), Forces(s, t, role)
  PROVE  Basic(t, O)
<1>1. \A b \in Roles : Tidy(t.slot[b]) /\ t.slot[b].deadline = s.slot[b].deadline
                       /\ t.slot[b].id = s.slot[b].id
  BY DEF Basic, Forces
<1>2. Timed(t)
  BY <1>1 DEF Basic, Timed, Forces
<1>3. Truthful(t, O)
  BY MuteTruthful DEF Basic, Net, Forces
<1> QED
  BY <1>1, <1>2, <1>3 DEF Basic

LEMMA FinishStill ==
  ASSUME NEW s \in Masters, ~s.err
  PROVE  Still(s, MaybeFinishRollback(s)) /\ ~MaybeFinishRollback(s).err
<1> DEFINE f == [s EXCEPT !.failure = FALSE]
           t == Emit(f, "RollbackCompleted", s.slot["active"].id, NoInstance)
<1>1. Upd(s, f, {"failure"}) /\ f \in Masters
  BY FailureKeeps DEF Keeps
<1> HIDE DEF f
<1>2. Still(s, f) /\ ~f.err
  BY <1>1, UpdStill DEF Upd, Fields
<1>3. s.slot["active"].id \in Ids /\ NoInstance \in Ids /\ "RollbackCompleted" \in EventKinds
  BY RoleIds DEF Roles, Ids, EventKinds
<1>4. Upd(f, t, {"events"})
  BY <1>1, <1>3, EmitKeeps
<1> HIDE DEF t
<1>5. Still(f, t) /\ t.err = f.err
  BY <1>4, UpdStill DEF Upd, Fields
<1>6. MaybeFinishRollback(s) = t \/ MaybeFinishRollback(s) = s
  BY DEF MaybeFinishRollback, t, f
<1> QED
  BY <1>2, <1>5, <1>6 DEF Still

LEMMA BeginRollbackSane ==
  ASSUME NEW s, NEW O, NEW bad, Good(s, O), Sane(s, O), s.stage = "Operational", ~s.err,
         Occupied(s.sup.candidate), s.sup.candidate.lifecycle # "Stopping", Calm => bad = {},
         NEW t, t = BeginRollback(s, bad)
  PROVE  /\ Sane(t, O) /\ ~t.err
         /\ s.deferred \/ (/\ t.sup.candidate.lifecycle = "Stopping"
                           /\ t.sup.candidate.instance_id = s.sup.candidate.instance_id)
         /\ t.stage = "Operational" \/ (t.stage = "Failing" /\ Blamed(s.sup))
         /\ s.deferred => t.stage = "Failing"
         /\ t.sup # NoSupervisor
<1>0. /\ s \in Masters /\ Net(s, O) /\ Single(s) /\ Control(s) /\ Distinct(s) /\ Matched(s)
      /\ Reaps(s) /\ Basic(s, O) /\ Oper(s, O) /\ s.sup \in Sups /\ Agree(s.sup)
  BY SaneOper, MasterFields DEF Good, Net, Control, Matched
<1>00. /\ s.slot["active"].id \in InstanceIds
       /\ \A role \in Roles : s.slot[role].id = s.sup[role].instance_id
  BY <1>0, ActivePresent DEF Matched
<1>a. s.sup # NoSupervisor
  BY <1>0, NoSupervisorFacts DEF Agree
<1>1. CASE s.deferred
  <2>1. t = FailMaster(s)
    BY <1>1 DEF BeginRollback
  <2>2. s.proc[s.slot["active"].id].run = "gone"
    BY <1>0, <1>1 DEF Reaps
  <2>3. s.slot["active"].id \in Faulty
    BY <1>0, <2>2 DEF Oper, Leads, Upright
  <2>4. Blamed(s.sup)
    BY <1>00, <2>3 DEF Blamed, Roles
  <2>5. Sane(t, O) /\ ~t.err /\ t.stage = "Failing" /\ t.sup = s.sup
    BY <1>0, <2>1, <2>4, FailMasterSane
  <2> QED
    BY <1>1, <1>a, <2>4, <2>5
<1>2. CASE ~s.deferred
  <2> DEFINE candidate == s.sup.candidate.instance_id
             f == [s EXCEPT !.failure = TRUE]
             started == Emit(f, "RollbackStarted", candidate, NoInstance)
             answer == CandidateFailed(s.sup, candidate)
             asked == Len(answer.actions) = 2
             ap == Applied(started, answer)
             rc == Recall(ap, asked, bad)
             kl == ThenForce(rc, "candidate")
  <2>1. t = MaybeFinishRollback(kl)
    BY <1>2 DEF BeginRollback
  <2>2. candidate \in Ids /\ NoInstance \in Ids /\ "RollbackStarted" \in EventKinds
    BY <1>0 DEF Sups, Holders, Ids, EventKinds
  <2>3. /\ Accepts(answer, answer.sup) /\ SameIds(s.sup, answer.sup)
        /\ answer.sup.candidate.lifecycle = "Stopping"
    BY <1>0, CandidateFailedAgrees
  <2>3a. /\ answer.sup.retired = s.sup.retired
         /\ \/ /\ asked /\ s.sup.active.lifecycle = "Quiescing"
               /\ answer.sup.active.lifecycle = "Reactivating"
            \/ /\ ~asked /\ s.sup.active.lifecycle = "Active" /\ answer.sup.active = s.sup.active
    <3>1. s.sup.active.lifecycle # "Reactivating"
      BY <1>0 DEF Agree
    <3> QED
      BY <1>0, <3>1, FailedMoves
  <2>4. Keeps(s, f) /\ f \in Masters /\ Still(s, f)
    <3>1. Upd(s, f, {"failure"}) /\ Keeps(s, f)
      BY <1>0, FailureKeeps
    <3> HIDE DEF f
    <3> QED
      BY <3>1, UpdStill DEF Keeps
  <2> HIDE DEF f
  <2>5. Keeps(f, started) /\ started \in Masters /\ Still(f, started)
    <3>1. Upd(f, started, {"events"}) /\ Keeps(f, started)
      BY <2>2, <2>4, EmitKeeps
    <3> HIDE DEF started
    <3> QED
      BY <3>1, UpdStill DEF Keeps
  <2> HIDE DEF started, candidate, answer, asked
  <2>6. Keeps(s, started) /\ Still(s, started)
    BY <1>0, <2>4, <2>5, KeepsTwice DEF Still
  <2>7. Good(started, O) /\ Sane(started, O)
    BY <2>6, KeepGood, StillSane
  <2>8. /\ Steers(started, ap) /\ ap.sup = answer.sup /\ ap.err = FALSE
    BY <2>3, <2>5, AcceptedSteers
  <2> HIDE DEF ap
  <2>9. /\ Net(ap, O) /\ ap \in Masters
    BY <2>7, <2>8, SteerNet DEF Good, Steers
  <2>10. /\ ap.stage = "Operational" /\ ap.slot = s.slot /\ ap.proc = s.proc
         /\ ap.sup.retired = s.sup.retired
         /\ ap.sup.active.instance_id = s.sup.active.instance_id
         /\ ap.sup.candidate.instance_id = s.sup.candidate.instance_id
         /\ ap.sup.candidate.lifecycle = "Stopping"
         /\ \/ asked /\ s.sup.active.lifecycle = "Quiescing" /\ ap.sup.active.lifecycle = "Reactivating"
            \/ ~asked /\ s.sup.active.lifecycle = "Active" /\ ap.sup.active.lifecycle = "Active"
    BY <2>3, <2>3a, <2>6, <2>8 DEF Steers, Still, SameIds, Roles
  <2>11. Basic(ap, O)
    <3>1. Basic(started, O)
      BY <2>7 DEF Sane
    <3>2. ap.sup.retired = started.sup.retired
      BY <2>6, <2>10 DEF Still
    <3> QED
      BY <2>8, <3>1, <3>2, SteersBasic
  <2>12. Present(ap, "active") /\ Present(ap, "candidate") /\ ap.sup # NoSupervisor
    <3>1. Occupied(ap.sup.active)
      BY <1>0, <2>10 DEF Agree, Occupied
    <3> QED
      BY <1>00, <2>10, <3>1, NoInstanceAssumption, NoSupervisorFacts DEF Present, Occupied, Roles
  <2>13. /\ Sane(kl, O) /\ ~kl.err /\ kl \in Masters /\ kl.sup = ap.sup
         /\ kl.stage = "Operational" \/ (kl.stage = "Failing" /\ Blamed(s.sup))
    <3>1. CASE ~asked
      <4>1. kl = ForceRole(ap, "candidate")
        BY <2>8, <3>1 DEF Recall, ThenForce, Try
      <4> HIDE DEF kl
      <4>2. Forces(ap, kl, "candidate")
        BY <2>9, <2>12, <4>1, ForceFacts DEF Roles
      <4>3. Basic(kl, O)
        BY <2>9, <2>11, <4>2, ForcesBasic DEF Roles
      <4>4. /\ kl.slot["active"] = s.slot["active"] /\ kl.slot["retired"] = s.slot["retired"]
            /\ kl.sup = ap.sup /\ kl.stage = "Operational" /\ ~kl.err /\ kl \in Masters
            /\ kl.slot["candidate"].state = "Forced"
        BY <2>8, <2>10, <2>12, <4>2 DEF Forces, Roles
      <4>5. kl.proc[kl.slot["active"].id] = s.proc[s.slot["active"].id]
        <5>1. s.slot["active"].id # s.slot["candidate"].id
          BY <1>0, <1>00, NoInstanceAssumption DEF Distinct, Roles
        <5> QED
          BY <1>00, <2>10, <4>2, <4>4, <5>1 DEF Forces
      <4>6. s.slot["active"].pending = NoPending
        BY <1>0, <2>10, <3>1 DEF Oper, Leads, Agree, Occupied
      <4>7. Oper(kl, O)
        <5>1. Leads(kl.sup, kl.slot["active"], kl.proc[kl.slot["active"].id])
          BY <1>0, <4>4, <4>5, <4>6 DEF Oper, Leads
        <5>2. Heeds(kl.sup.active.lifecycle, kl.slot["active"], kl.proc[kl.slot["active"].id], O)
          BY <2>10, <3>1, <4>4, <4>6 DEF Heeds, NoPending
        <5>3. Tries(kl.sup.candidate, kl.slot["candidate"], kl.proc[kl.slot["candidate"].id])
          BY <2>10, <4>3, <4>4, Forsaken DEF Basic, Roles
        <5>4. Retires(kl.sup.retired, kl.slot["retired"])
          BY <1>0, <2>10, <4>4 DEF Oper, Retires
        <5> QED
          BY <5>1, <5>2, <5>3, <5>4 DEF Oper
      <4> QED
        BY <4>3, <4>4, <4>7, OperSane
    <3>2. CASE asked /\ ~CanIssue(ap, "active", bad)
      <4> DEFINE n == NotIssued(ap)
      <4>1. rc = FailMaster(n)
        BY <2>8, <3>2 DEF Recall
      <4>2. Keeps(ap, n) /\ Upd(ap, n, {"nextReq", "sends"})
        BY <2>9, NotIssuedKeeps
      <4> HIDE DEF n
      <4>3. Net(n, O) /\ n.err = FALSE /\ Still(ap, n)
        BY <2>8, <2>9, <4>2, KeepNet, UpdStill DEF Upd, Fields
      <4>4. Basic(n, O)
        BY <2>11, <4>3 DEF Still, Basic, Timed, Truthful
      <4>5. Blamed(s.sup) /\ Blamed(n.sup)
        <5>1. Calm => s.slot["active"].id \in Faulty
          <6>1. s.slot["active"].id \notin Faulty => Upright(ap.proc[ap.slot["active"].id])
            BY <1>0, <2>10 DEF Oper, Leads
          <6> QED
            BY <3>2, <6>1, Askable
        <5>2. n.sup.active.instance_id = s.slot["active"].id
              /\ s.sup.active.instance_id = s.slot["active"].id
          BY <1>00, <2>10, <4>3 DEF Still, Roles
        <5> QED
          BY <5>1, <5>2 DEF Blamed
      <4>6. n.stage = "Operational" /\ n.sup = ap.sup
        BY <2>10, <4>3 DEF Still
      <4> HIDE DEF rc
      <4>7. /\ Sane(rc, O) /\ ~rc.err /\ rc.stage = "Failing" /\ rc.sup = ap.sup /\ rc \in Masters
            /\ rc.slot["candidate"].id = n.slot["candidate"].id
        <5>1. n.stage \notin {"ShuttingDown", "Failed"} /\ ~n.err
          BY <4>3, <4>6
        <5>2. /\ Sane(rc, O) /\ ~rc.err /\ rc.stage = "Failing" /\ rc.sup = n.sup /\ rc \in Masters
              /\ \A b \in Roles \ {"active"} : rc.slot[b].id = n.slot[b].id
          BY <4>1, <4>3, <4>4, <4>5, <5>1, FailMasterSane
        <5> QED
          BY <4>6, <5>2 DEF Roles
      <4>8. rc.slot["candidate"].state = "Forced"
        <5>1. Present(rc, "candidate")
          BY <2>12, <4>3, <4>7 DEF Present, Still
        <5> QED
          BY <4>7, <5>1 DEF Sane, Roles
      <4>9. kl = rc
        BY <4>7, <4>8 DEF ThenForce, Try, ForceRole
      <4> QED
        BY <4>5, <4>7, <4>9
    <3>3. CASE asked /\ CanIssue(ap, "active", bad)
      <4> DEFINE request == [req |-> ap.nextReq, phase |-> "Reactivate"]
      <4>1. rc = Issued(ap, "active", "Reactivate")
        BY <2>8, <3>3 DEF Recall
      <4>3. Posts(ap, rc, "active", request)
        BY <2>9, <2>12, <4>1, IssuedFacts DEF Roles, ControlPhases
      <4> HIDE DEF rc
      <4>4. Net(rc, O)
        BY <2>9, <4>3, SentNet DEF Roles, Posts
      <4>5. s.slot["active"].state # "Forced"
        BY <1>0 DEF Oper, Leads
      <4>6. /\ Basic(rc, O) /\ rc \in Masters /\ rc.stage = "Operational" /\ rc.sup = ap.sup
            /\ ~rc.err
        BY <2>8, <2>9, <2>10, <2>11, <4>3, <4>5, PostsBasic DEF Roles
      <4>7. /\ Leads(ap.sup, rc.slot["active"], rc.proc[rc.slot["active"].id])
            /\ Heeds("Reactivating", rc.slot["active"], rc.proc[rc.slot["active"].id], O)
        <5>1. /\ Leads(s.sup, ap.slot["active"], ap.proc[ap.slot["active"].id])
              /\ Heeds("Quiescing", ap.slot["active"], ap.proc[ap.slot["active"].id], O)
          BY <1>0, <2>10, <3>3 DEF Oper
        <5>2. ap.slot["active"].id \in InstanceIds /\ ap.sup.active.lifecycle = "Reactivating"
          BY <1>00, <2>10, <3>3
        <5> QED
          BY <2>9, <4>3, <5>1, <5>2, ReactivateSent
      <4>8. /\ rc.slot["candidate"] = s.slot["candidate"] /\ rc.slot["retired"] = s.slot["retired"]
            /\ rc.slot["active"].id = s.slot["active"].id
        BY <2>10, <4>3 DEF Posts, Roles
      <4>9. kl = ForceRole(rc, "candidate") /\ Present(rc, "candidate")
        BY <2>10, <2>12, <4>6, <4>8 DEF ThenForce, Try, Present
      <4> HIDE DEF kl
      <4>10. Forces(rc, kl, "candidate")
        BY <4>6, <4>9, ForceFacts DEF Roles
      <4>11. Basic(kl, O)
        BY <4>4, <4>6, <4>10, ForcesBasic DEF Roles
      <4>12. /\ kl.slot["active"] = rc.slot["active"] /\ kl.slot["retired"] = s.slot["retired"]
             /\ kl.sup = ap.sup /\ kl.stage = "Operational" /\ ~kl.err /\ kl \in Masters
             /\ kl.slot["candidate"].state = "Forced"
        BY <4>6, <4>8, <4>9, <4>10 DEF Forces, Roles
      <4>13. kl.proc[kl.slot["active"].id] = rc.proc[rc.slot["active"].id]
        <5>1. s.slot["active"].id # s.slot["candidate"].id
          BY <1>0, <1>00, NoInstanceAssumption DEF Distinct, Roles
        <5> QED
          BY <1>00, <4>8, <4>10, <4>12, <5>1 DEF Forces
      <4>14. Oper(kl, O)
        <5>3. Tries(kl.sup.candidate, kl.slot["candidate"], kl.proc[kl.slot["candidate"].id])
          BY <2>10, <4>11, <4>12, Forsaken DEF Basic, Roles
        <5>4. Retires(kl.sup.retired, kl.slot["retired"])
          BY <1>0, <2>10, <4>12 DEF Oper, Retires
        <5> QED
          BY <2>10, <3>3, <4>7, <4>12, <4>13, <5>3, <5>4 DEF Oper
      <4> QED
        BY <4>11, <4>12, <4>14, OperSane
    <3> QED
      BY <3>1, <3>2, <3>3
  <2> HIDE DEF kl
  <2>14. Still(kl, t) /\ ~t.err
    BY <2>1, <2>13, FinishStill
  <2>15. Sane(t, O)
    BY <2>13, <2>14, StillSane
  <2> QED
    BY <1>2, <2>10, <2>12, <2>13, <2>14, <2>15 DEF Still
<1> QED
  BY <1>1, <1>2

---------------------------------------------------------------------------
(* Workers that fail and workers that are gone *)

LEMMA FailRetiredSane ==
  ASSUME NEW s, NEW O, Good(s, O), Sane(s, O), s.stage = "Operational", ~s.err,
         Occupied(s.sup.retired), NEW t, t = FailRetired(s)
  PROVE  /\ Sane(t, O) /\ ~t.err /\ t.failure = TRUE /\ t.stage = "Operational"
         /\ t.sup.retired.lifecycle = "Stopping"
<1> DEFINE f == [s EXCEPT !.failure = TRUE]
           answer == RetiredFailed(s.sup, s.slot["retired"].id)
           ap == Applied(f, answer)
<1>0. /\ s \in Masters /\ Net(s, O) /\ Matched(s) /\ Basic(s, O) /\ Oper(s, O) /\ s.sup \in Sups
      /\ Agree(s.sup) /\ s.slot["retired"].id = s.sup.retired.instance_id /\ Distinct(s)
      /\ s.slot["active"].id \in InstanceIds
  BY SaneOper, MasterFields, ActivePresent DEF Good, Net, Control, Matched, Roles
<1>1. Present(s, "retired")
  BY <1>0 DEF Present, Occupied
<1>2. Keeps(s, f) /\ Upd(s, f, {"failure"}) /\ f.failure = TRUE
  BY <1>0, FailureKeeps
<1>3. t = ThenForce(ap, "retired")
  BY <1>1 DEF FailRetired
<1> HIDE DEF f
<1>4. Still(s, f) /\ f \in Masters /\ ~f.err
  BY <1>2, UpdStill DEF Keeps, Upd, Fields
<1>5. Net(f, O) /\ Sane(f, O) /\ Basic(f, O)
  BY <1>0, <1>2, <1>4, KeepNet, StillSane DEF Sane
<1>6. /\ Accepts(answer, answer.sup) /\ SameIds(s.sup, answer.sup)
      /\ answer.sup.active = s.sup.active /\ answer.sup.retired.lifecycle = "Stopping"
  BY <1>0, RetiredFailedAgrees
<1> HIDE DEF answer
<1>7. Steers(f, ap) /\ ap.sup = answer.sup /\ ap.err = FALSE
  BY <1>4, <1>6, AcceptedSteers
<1> HIDE DEF ap
<1>8. /\ ap \in Masters /\ ap.stage = "Operational" /\ ap.slot = s.slot /\ ap.proc = s.proc
      /\ ap.failure = TRUE /\ ap.sup.active = s.sup.active /\ ~Occupied(ap.sup.candidate)
      /\ ap.sup.retired.lifecycle = "Stopping"
      /\ ap.sup.retired.instance_id = s.sup.retired.instance_id
  <2>1. ~Occupied(ap.sup.candidate)
    BY <1>0, <1>6, <1>7 DEF SameIds, Occupied, Agree, Roles
  <2> QED
    BY <1>2, <1>4, <1>6, <1>7, <2>1 DEF Steers, Still, SameIds, Roles
<1>9. Net(ap, O)
  BY <1>5, <1>7, SteerNet
<1>10. Basic(ap, O)
  <2>1. ap.sup.retired.instance_id = f.sup.retired.instance_id
    BY <1>4, <1>8 DEF Still
  <2> QED
    BY <1>5, <1>7, <1>8, <2>1, SteersBasic
<1>11. t = ForceRole(ap, "retired") /\ Present(ap, "retired")
  BY <1>1, <1>3, <1>7, <1>8 DEF ThenForce, Try, Present
<1>12. Forces(ap, t, "retired")
  BY <1>8, <1>11, ForceFacts DEF Roles
<1>13. Basic(t, O)
  BY <1>9, <1>10, <1>12, ForcesBasic DEF Roles
<1>14. /\ t.slot["active"] = s.slot["active"] /\ t.slot["candidate"] = s.slot["candidate"]
       /\ t.slot["retired"].state = "Forced" /\ t.sup = ap.sup /\ t.stage = "Operational"
       /\ ~t.err /\ t.failure = TRUE
  BY <1>7, <1>8, <1>11, <1>12 DEF Forces, Roles
<1>15. t.proc[t.slot["active"].id] = s.proc[s.slot["active"].id]
  <2>1. s.slot["active"].id # s.slot["retired"].id
    BY <1>0, NoInstanceAssumption DEF Distinct, Roles
  <2> QED
    BY <1>0, <1>8, <1>12, <1>14, <2>1 DEF Forces
<1>16. Oper(t, O)
  <2>0. ~Occupied(s.sup.candidate)
    BY <1>0 DEF Agree
  <2>1. Leads(t.sup, t.slot["active"], t.proc[t.slot["active"].id])
    BY <1>0, <1>8, <1>14, <1>15, <2>0 DEF Oper, Leads
  <2>2. Heeds(t.sup.active.lifecycle, t.slot["active"], t.proc[t.slot["active"].id], O)
    BY <1>0, <1>8, <1>14, <1>15 DEF Oper
  <2>3. Tries(t.sup.candidate, t.slot["candidate"], t.proc[t.slot["candidate"].id])
    BY <1>8, <1>14 DEF Tries
  <2>4. Retires(t.sup.retired, t.slot["retired"])
    BY <1>13, <1>14 DEF Retires, Basic, Tidy, Roles
  <2> QED
    BY <2>1, <2>2, <2>3, <2>4 DEF Oper
<1> QED
  BY <1>8, <1>13, <1>14, <1>16, OperSane

\* The worker of a role is forgotten.
LEMMA TakeSlot ==
  ASSUME NEW s \in Masters, NEW role \in Roles, NEW t, t = TakeWorker(s, role)
  PROVE  Takes(s, t, role) /\ t.slot[role] = NoSlot
<1> DEFINE u == TakeWorker(s, role)
<1>1. u.slot = [s.slot EXCEPT ![role] = NoSlot] /\ s.slot \in [Roles -> SlotRecords]
  BY MasterFields DEF TakeWorker, IsRecord, Fields
<1> HIDE DEF u
<1>2. u.slot[role] = NoSlot
  BY <1>1
<1> QED
  BY <1>2, TakeFacts DEF u

LEMMA TakesBasic ==
  ASSUME NEW s, NEW O, NEW role \in Roles, Basic(s, O), NEW t, Takes(s, t, role),
         t.slot[role] = NoSlot
  PROVE  Basic(t, O)
<1>1. \A b \in Roles : Tidy(t.slot[b])
  BY NoSlotTidy DEF Takes, Basic
<1>2. Timed(t)
  BY NoSlotTidy DEF Takes, Basic, Timed
<1> QED
  BY <1>1, <1>2 DEF Basic, Takes, Truthful

LEMMA StoppedAnswer ==
  ASSUME NEW u \in Sups, NEW i, NEW answer, answer = CandidateStopped(u, i)
  PROVE  /\ answer.ok \in BOOLEAN /\ answer.sup \in Sups
         /\ answer.sup.active = u.active /\ answer.sup.retired = u.retired
         /\ InState(u, "candidate", i, "Stopping") => answer.ok = TRUE /\ answer.sup.candidate = Vacant
<1> DEFINE v == [u EXCEPT !.candidate = Vacant]
<1>1. v \in Sups /\ v.active = u.active /\ v.retired = u.retired /\ v.candidate = Vacant
  BY VacantFacts DEF Sups
<1> HIDE DEF v
<1>2. CASE InState(u, "candidate", i, "Stopping")
  BY <1>1, <1>2 DEF CandidateStopped, Accept, v
<1>3. CASE ~InState(u, "candidate", i, "Stopping")
  BY <1>3 DEF CandidateStopped, Reject
<1> QED
  BY <1>2, <1>3

LEMMA CandidateGoneSane ==
  ASSUME NEW s, NEW O, NEW i \in InstanceIds, Net(s, O), Sane(s, O), ~s.err,
         s.stage = "Operational" => Matched(s) /\ InState(s.sup, "candidate", i, "Stopping"),
         s.slot["candidate"].id = i, s.proc[i].run = "gone", s.sup # NoSupervisor,
         s.stage \in {"Operational", "Failing"}, NEW t, t = CandidateGone(s, i)
  PROVE  /\ Sane(t, O)
         /\ InState(s.sup, "candidate", i, "Stopping") => ~t.err
<1> DEFINE k == TakeWorker(s, "candidate")
           answer == CandidateStopped(s.sup, i)
           ap == Applied(k, answer)
           e == ~answer.ok
<1>0. s \in Masters /\ Basic(s, O) /\ s.sup \in Sups /\ s.slot["active"].id \in Ids /\ Distinct(s)
  BY MasterFields, RoleIds DEF Net, Sane, Roles
<1>1. t = MaybeFinishRollback(ap)
  BY DEF CandidateGone, Try
<1>2. Takes(s, k, "candidate") /\ k.slot["candidate"] = NoSlot
  BY <1>0, TakeSlot DEF Roles
<1>3. /\ answer.ok \in BOOLEAN /\ answer.sup \in Sups
      /\ answer.sup.active = s.sup.active /\ answer.sup.retired = s.sup.retired
      /\ InState(s.sup, "candidate", i, "Stopping") => answer.ok = TRUE /\ answer.sup.candidate = Vacant
  BY <1>0, StoppedAnswer
<1> HIDE DEF k, answer
<1>4. e \in BOOLEAN /\ answer.ok = ~e /\ (InState(s.sup, "candidate", i, "Stopping") => e = FALSE)
  BY <1>3
<1> HIDE DEF e
<1>5. Steers(k, ap) /\ ap.sup = answer.sup /\ ap.err = e
  BY <1>2, <1>3, <1>4, AppliedSteers DEF Takes
<1> HIDE DEF ap
<1>6. Basic(k, O)
  BY <1>0, <1>2, TakesBasic DEF Roles
<1>7. Basic(ap, O)
  <2>1. ap.sup.retired = k.sup.retired
    BY <1>2, <1>3, <1>5 DEF Takes
  <2> QED
    BY <1>5, <1>6, <2>1, SteersBasic
<1>8. /\ ap.stage = s.stage /\ ap.sup.active = s.sup.active /\ ap.sup.retired = s.sup.retired
      /\ ap.slot["active"] = s.slot["active"] /\ ap.slot["retired"] = s.slot["retired"]
      /\ ap.slot["candidate"] = NoSlot /\ ap.proc = s.proc /\ ap \in Masters
  BY <1>2, <1>3, <1>5 DEF Takes, Steers, Roles
<1>9. Sane(ap, O)
  <2>1. CASE s.stage = "Operational"
    <3>1. Oper(s, O) /\ InState(s.sup, "candidate", i, "Stopping")
      BY <2>1 DEF Sane
    <3>2. ap.sup.candidate = Vacant /\ s.sup.candidate.lifecycle = "Stopping"
      BY <1>3, <1>5, <3>1 DEF InState
    <3>3. Leads(ap.sup, ap.slot["active"], ap.proc[ap.slot["active"].id])
      BY <1>8, <3>1, <3>2 DEF Oper, Leads
    <3>4. /\ Heeds(ap.sup.active.lifecycle, ap.slot["active"], ap.proc[ap.slot["active"].id], O)
          /\ Retires(ap.sup.retired, ap.slot["retired"])
      BY <1>8, <3>1 DEF Oper
    <3>5. Tries(ap.sup.candidate, ap.slot["candidate"], ap.proc[ap.slot["candidate"].id])
      BY <3>2, VacantFacts DEF Tries
    <3> QED
      BY <1>7, <1>8, <2>1, <3>3, <3>4, <3>5, OperSane DEF Oper
  <2>2. CASE s.stage = "Failing"
    <3>1. \A role \in Roles : Present(ap, role) => ap.slot[role].state = "Forced"
      BY <1>8, <2>2, NoSlotType DEF Sane, Present, Roles
    <3>2. Blamed(ap.sup)
      BY <1>8, <2>2 DEF Sane, Blamed
    <3> QED
      BY <1>7, <1>8, <2>2, <3>1, <3>2 DEF Sane, Starting
  <2> QED
    BY <2>1, <2>2
<1>10. CASE ap.err
  <2>1. t = ap
    BY <1>1, <1>10 DEF MaybeFinishRollback
  <2> QED
    BY <1>4, <1>5, <1>9, <1>10, <2>1
<1>11. CASE ~ap.err
  <2>1. Still(ap, t) /\ ~t.err
    BY <1>1, <1>8, <1>11, FinishStill
  <2> QED
    BY <1>9, <2>1, StillSane
<1> QED
  BY <1>10, <1>11

LEMMA CompleteStill ==
  ASSUME NEW s \in Masters, NEW failed \in BOOLEAN, ~s.err, failed => s.failure,
         NEW t, t = Complete(s, failed)
  PROVE  Still(s, t) /\ ~t.err
<1> DEFINE f == [s EXCEPT !.failure = FALSE]
<1>0. ASSUME NEW x \in Masters, ~x.err
      PROVE  Still(x, CompleteReplacement(x)) /\ ~CompleteReplacement(x).err
  <2> DEFINE y == CompleteReplacement(x)
  <2>1. x.slot["active"].id \in Ids /\ NoInstance \in Ids /\ "ReplacementCompleted" \in EventKinds
    BY RoleIds DEF Roles, Ids, EventKinds
  <2>2. Upd(x, y, {"events"})
    BY <2>1, EmitKeeps DEF CompleteReplacement
  <2> HIDE DEF y
  <2>3. Still(x, y) /\ y.err = x.err
    BY <2>2, UpdStill DEF Upd, Fields
  <2> QED
    BY <1>0, <2>3 DEF y
<1>1. Upd(s, f, {"failure"}) /\ f \in Masters
  BY FailureKeeps DEF Keeps
<1>2. t = CompleteReplacement(s) \/ t = CompleteReplacement(f)
  BY DEF Complete, Try, CompleteFailedRetired
<1> HIDE DEF f
<1>3. Still(s, f) /\ ~f.err
  BY <1>1, UpdStill DEF Upd, Fields
<1> QED
  BY <1>0, <1>1, <1>2, <1>3 DEF Still

LEMMA RetiredGoneSane ==
  ASSUME NEW s, NEW O, NEW i \in InstanceIds, NEW failed \in BOOLEAN, Good(s, O), Sane(s, O),
         ~s.err, failed => s.failure, s.slot["retired"].id = i, s.stage = "Operational",
         s.sup.retired.lifecycle = "Stopping", NEW t, t = RetiredGone(s, i, failed)
  PROVE  Sane(t, O) /\ ~t.err
<1> DEFINE k == TakeWorker(s, "retired")
           answer == RetiredStopped(s.sup, i)
           a == Applied(k, answer)
<1>0. s \in Masters /\ Net(s, O) /\ Matched(s) /\ Basic(s, O) /\ Oper(s, O)
  BY SaneOper DEF Good, Net, Control
<1>1. t = Complete(a, failed)
  BY DEF RetiredGone, Try
<1>2. Takes(s, k, "retired") /\ k.slot["retired"] = NoSlot
  BY <1>0, TakeSlot DEF Roles
<1> HIDE DEF k
<1>3. s.sup.retired.instance_id = i /\ Agree(s.sup) /\ Occupied(s.sup.retired) /\ s.sup \in Sups
  BY <1>0, MasterFields, NoInstanceAssumption DEF Matched, Occupied, Roles
<1>4. /\ Accepts(answer, answer.sup)
      /\ answer.sup.active = s.sup.active /\ answer.sup.candidate = s.sup.candidate
      /\ answer.sup.retired = Vacant
  BY <1>3, RetiredStoppedAgrees
<1> HIDE DEF answer
<1>5. Steers(k, a) /\ a.sup = answer.sup /\ a.err = FALSE
  BY <1>2, <1>4, AcceptedSteers DEF Takes
<1> HIDE DEF a
<1>6. /\ a \in Masters /\ a.stage = "Operational" /\ a.proc = s.proc /\ a.failure = s.failure
      /\ a.slot["retired"] = NoSlot /\ a.sup.active = s.sup.active
      /\ a.sup.candidate = s.sup.candidate
      /\ a.slot["active"] = s.slot["active"] /\ a.slot["candidate"] = s.slot["candidate"]
  BY <1>2, <1>4, <1>5 DEF Takes, Steers, Roles
<1>7. Basic(a, O)
  <2>1. Basic(k, O)
    BY <1>0, <1>2, TakesBasic DEF Roles
  <2>2. \A b \in Roles : a.slot[b].deadline => b # "retired" /\ s.slot[b].deadline
    BY <1>6, NoSlotTidy DEF Roles
  <2>3. Timed(a)
    BY <1>0, <1>6, <2>2 DEF Timed, Basic
  <2> QED
    BY <1>5, <2>1, <2>3 DEF Basic, Steers, Truthful
<1>8. Oper(a, O)
  <2>1. Leads(a.sup, a.slot["active"], a.proc[a.slot["active"].id])
    BY <1>0, <1>6 DEF Oper, Leads
  <2>2. Retires(a.sup.retired, a.slot["retired"])
    BY <1>6, NoSlotType DEF Retires
  <2> QED
    BY <1>0, <1>6, <2>1, <2>2 DEF Oper
<1>9. Sane(a, O)
  BY <1>6, <1>7, <1>8, OperSane
<1>10. Still(a, t) /\ ~t.err
  BY <1>1, <1>5, <1>6, CompleteStill
<1> QED
  BY <1>9, <1>10, StillSane

\* The phase an occupied role stands for.
LEMMA PhaseNames ==
  ASSUME NEW s, Matched(s), s.stage = "Operational"
  PROVE  /\ Occupied(s.sup.candidate) /\ s.sup.candidate.lifecycle # "Stopping" =>
              PhaseOf(s) \in {"AdoptingCandidate", "Quiescing", "ActivatingCandidate"}
         /\ Occupied(s.sup.candidate) /\ s.sup.candidate.lifecycle = "Preparing" =>
              PhaseOf(s) = "AdoptingCandidate"
         /\ Occupied(s.sup.candidate) /\ s.sup.candidate.lifecycle = "Ready" =>
              PhaseOf(s) = "Quiescing"
         /\ Occupied(s.sup.candidate) /\ s.sup.candidate.lifecycle = "Activating" =>
              PhaseOf(s) = "ActivatingCandidate"
         /\ s.sup.active.lifecycle = "Reactivating" => PhaseOf(s) = "RollingBack"
         /\ Occupied(s.sup.candidate) /\ s.sup.candidate.lifecycle = "Stopping" =>
              PhaseOf(s) = "RollingBack"
         /\ Occupied(s.sup.retired) => PhaseOf(s) \in {"DrainingRetired", "StoppingRetired"}
         /\ Occupied(s.sup.retired) /\ s.sup.retired.lifecycle = "Draining" =>
              PhaseOf(s) = "DrainingRetired"
         /\ Occupied(s.sup.retired) /\ s.sup.retired.lifecycle = "Stopping" =>
              PhaseOf(s) = "StoppingRetired"
<1>0. Agree(s.sup)
  BY DEF Matched
<1>1. s.sup # NoSupervisor
  BY <1>0, NoSupervisorFacts DEF Agree
<1>2. PhaseOf(s) = Phase(s.sup)
  BY <1>1 DEF PhaseOf
<1>3. CASE Occupied(s.sup.retired)
  BY <1>0, <1>2, <1>3 DEF Agree, Phase
<1>4. CASE ~Occupied(s.sup.retired) /\ Occupied(s.sup.candidate)
  BY <1>0, <1>2, <1>4 DEF Agree, Phase
<1>5. CASE ~Occupied(s.sup.retired) /\ ~Occupied(s.sup.candidate)
  BY <1>0, <1>2, <1>5 DEF Agree, Phase
<1> QED
  BY <1>3, <1>4, <1>5

\* The failure of a phase can be made good, or the active worker is at fault.
Repairs(s, role) ==
    Calm /\ s.stage = "Operational" /\ s.slot["active"].id \notin Faulty =>
        \/ role = "active" /\ PhaseOf(s) = "Quiescing"
        \/ role = "candidate" /\ s.sup.candidate.lifecycle # "Stopping"
        \/ role = "retired"

LEMMA ForcedSane ==
  ASSUME NEW s, NEW O, NEW role \in Roles, Net(s, O), Sane(s, O), Present(s, role),
         s.stage = "ShuttingDown", NEW t, Forces(s, t, role)
  PROVE  Sane(t, O)
<1>1. Basic(t, O)
  BY ForcesBasic DEF Sane
<1>2. t.stage = "ShuttingDown"
  BY DEF Forces
<1>3. \A b \in Roles : t.slot[b].pending # NoPending => t.slot[b].pending.phase = "Shutdown"
  BY <1>1 DEF Sane, Forces, Basic, Tidy
<1> QED
  BY <1>1, <1>2, <1>3 DEF Sane, Starting

LEMMA HandlePhaseFailureSane ==
  ASSUME NEW s, NEW O, NEW bad, NEW role \in Roles, Good(s, O), Sane(s, O), ~s.err,
         Present(s, role), Repairs(s, role), Calm => bad = {},
         NEW t, t = HandlePhaseFailure(s, role, bad)
  PROVE  Sane(t, O) /\ ~t.err
<1> DEFINE starting == {"AdoptingCandidate", "Quiescing", "ActivatingCandidate"}
           stopping == {"DrainingRetired", "StoppingRetired"}
           now == PhaseOf(s)
<1>0. /\ s \in Masters /\ Net(s, O) /\ Control(s) /\ Matched(s) /\ Basic(s, O) /\ BootAlone(s)
      /\ s.stage \in Stages
  BY MasterFields DEF Good, Net, Control, Sane
<1>1. \/ /\ s.stage = "Operational" /\ t = BeginRollback(s, bad)
         /\ (role = "candidate" /\ now \in starting) \/ (role = "active" /\ now = "Quiescing")
      \/ s.stage = "Operational" /\ role = "retired" /\ now \in stopping /\ t = FailRetired(s)
      \/ s.stage = "ShuttingDown" /\ t = ForceRole(s, role)
      \/ /\ s.stage # "ShuttingDown" /\ t = FailMaster(s)
         /\ ~(/\ s.stage = "Operational"
              /\ \/ role = "candidate" /\ now \in starting
                 \/ role = "active" /\ now = "Quiescing"
                 \/ role = "retired" /\ now \in stopping)
  BY DEF HandlePhaseFailure
<1>2. CASE /\ s.stage = "Operational" /\ t = BeginRollback(s, bad)
           /\ (role = "candidate" /\ now \in starting) \/ (role = "active" /\ now = "Quiescing")
  <2>1. Occupied(s.sup.candidate) /\ s.sup.candidate.lifecycle # "Stopping"
    BY <1>0, <1>2, PhaseFacts
  <2> QED
    BY <1>2, <2>1, BeginRollbackSane
<1>3. CASE s.stage = "Operational" /\ role = "retired" /\ now \in stopping /\ t = FailRetired(s)
  <2>1. Occupied(s.sup.retired)
    BY <1>0, <1>3, PhaseFacts
  <2> QED
    BY <1>3, <2>1, FailRetiredSane
<1>4. CASE s.stage = "ShuttingDown" /\ t = ForceRole(s, role)
  <2>1. Forces(s, t, role)
    BY <1>0, <1>4, ForceFacts
  <2> QED
    BY <1>0, <1>4, <2>1, ForcedSane DEF Forces
<1>5. CASE /\ s.stage # "ShuttingDown" /\ t = FailMaster(s)
           /\ ~(/\ s.stage = "Operational"
                /\ \/ role = "candidate" /\ now \in starting
                   \/ role = "active" /\ now = "Quiescing"
                   \/ role = "retired" /\ now \in stopping)
  <2>1. s.stage \in Starting \cup {"Operational", "Failing"}
    BY <1>0, <1>5 DEF Sane, Stages, Starting
  <2>2. Blamed(s.sup)
    <3>1. CASE s.stage \in Starting
      BY <1>0, <3>1 DEF BootAlone, Starting, Blamed
    <3>2. CASE s.stage = "Failing"
      BY <3>2 DEF Sane
    <3>3. CASE s.stage = "Operational"
      <4>0. Present(s, "candidate") <=> Occupied(s.sup.candidate)
        BY <1>0, <3>3 DEF Matched, Present, Occupied, Roles
      <4>1. Present(s, "retired") <=> Occupied(s.sup.retired)
        BY <1>0, <3>3 DEF Matched, Present, Occupied, Roles
      <4>2. role = "candidate" => s.sup.candidate.lifecycle = "Stopping"
        BY <1>0, <1>5, <3>3, <4>0, PhaseNames
      <4>3. role # "retired"
        BY <1>0, <1>5, <3>3, <4>1, PhaseNames
      <4>4. Calm => s.slot["active"].id \in Faulty
        BY <1>5, <3>3, <4>2, <4>3 DEF Repairs
      <4>5. s.slot["active"].id = s.sup.active.instance_id
        BY <1>0, <3>3 DEF Matched, Roles
      <4> QED
        BY <4>4, <4>5 DEF Blamed
    <3> QED
      BY <2>1, <3>1, <3>2, <3>3
  <2>3. s.stage \notin {"ShuttingDown", "Failed"}
    BY <2>1 DEF Starting
  <2> QED
    BY <1>0, <1>5, <2>2, <2>3, FailMasterSane
<1> QED
  BY <1>1, <1>2, <1>3, <1>4, <1>5

\* A request that cannot be sent meets the failure of its phase.
LEMMA CompensateSane ==
  ASSUME NEW s, NEW O, NEW bad, NEW role \in Roles, Good(s, O), Sane(s, O), ~s.err,
         Present(s, role), Repairs(s, role), Calm => bad = {}, NEW phase,
         ~CanIssue(s, role, bad), NEW t, t = IssueOrCompensate(s, role, phase, bad)
  PROVE  Sane(t, O) /\ ~t.err
<1> DEFINE n == NotIssued(s)
<1>1. t = HandlePhaseFailure(n, role, bad)
  BY DEF IssueOrCompensate
<1>2. Keeps(s, n) /\ Upd(s, n, {"nextReq", "sends"})
  BY NotIssuedKeeps DEF Good, Net
<1> HIDE DEF n
<1>3. Good(n, O) /\ Still(s, n) /\ n.err = s.err
  BY <1>2, KeepGood, UpdStill DEF Upd, Fields
<1>4. Sane(n, O) /\ Present(n, role) /\ Repairs(n, role)
  BY <1>3, StillSane DEF Still, Present, Repairs, PhaseOf
<1> QED
  BY <1>1, <1>3, <1>4, HandlePhaseFailureSane

---------------------------------------------------------------------------
(* Phases that succeed *)

LEMMA PreparedAnswer ==
  ASSUME NEW u \in Sups, Agree(u), Occupied(u.candidate), u.candidate.lifecycle = "Preparing",
         NEW answer, answer = CandidatePrepared(u, u.candidate.instance_id)
  PROVE  /\ Accepts(answer, answer.sup) /\ SameIds(u, answer.sup)
         /\ answer.sup.active.lifecycle = "Quiescing" /\ answer.sup.candidate.lifecycle = "Ready"
         /\ answer.sup.retired = u.retired
<1> DEFINE v == Moved(u, "candidate", "Ready")
           x == Moved(v, "active", "Quiescing")
<1>0. u.active.lifecycle = "Active"
  BY DEF Agree
<1>1. InState(u, "candidate", u.candidate.instance_id, "Preparing")
      /\ CanTransition(u.active.lifecycle, "Quiescing")
  BY <1>0 DEF InState, Holds, CanTransition, ForwardEdges
<1>2. v \in Sups /\ v.retired = u.retired /\ v.active = u.active /\ v.candidate.lifecycle = "Ready"
  BY MovedFacts DEF Roles, Lifecycles
<1>a. answer = Accept(x, <<Action("Quiesce", u.active.instance_id)>>)
  BY <1>1 DEF CandidatePrepared
<1> HIDE DEF v
<1>3. /\ x.retired = v.retired /\ x.active.lifecycle = "Quiescing"
      /\ x.candidate.lifecycle = v.candidate.lifecycle
  BY <1>2, MovedFacts DEF Roles, Lifecycles
<1> HIDE DEF x
<1>4. answer.sup = x /\ answer.ok = TRUE
  BY <1>a DEF Accept
<1>5. answer.sup \in Sups /\ Agree(answer.sup) /\ SameIds(u, answer.sup)
  BY CandidatePreparedAgrees
<1> QED
  BY <1>2, <1>3, <1>4, <1>5 DEF Accepts

LEMMA QuiescedAnswer ==
  ASSUME NEW u \in Sups, Agree(u), Occupied(u.candidate), u.candidate.lifecycle = "Ready",
         NEW answer, answer = ActiveQuiesced(u, u.active.instance_id)
  PROVE  /\ Accepts(answer, answer.sup) /\ SameIds(u, answer.sup)
         /\ answer.sup.active = u.active /\ answer.sup.candidate.lifecycle = "Activating"
         /\ answer.sup.retired = u.retired
<1> DEFINE v == Moved(u, "candidate", "Activating")
<1>1. InState(u, "active", u.active.instance_id, "Quiescing")
  BY DEF Agree, InState, Holds
<1>2. v.retired = u.retired /\ v.active = u.active
  BY MovedFacts DEF Roles, Lifecycles
<1> HIDE DEF v
<1>3. answer.sup = v
  BY <1>1 DEF ActiveQuiesced, Accept, v
<1> QED
  BY <1>2, <1>3, ActiveQuiescedAgrees

LEMMA ReactivatedAnswer ==
  ASSUME NEW u \in Sups, Agree(u), ~Occupied(u.retired), u.active.lifecycle = "Reactivating",
         NEW answer, answer = ActiveReactivated(u, u.active.instance_id)
  PROVE  /\ Accepts(answer, answer.sup) /\ SameIds(u, answer.sup)
         /\ answer.sup.active.lifecycle = "Active" /\ answer.sup.candidate = u.candidate
         /\ answer.sup.retired = u.retired
<1> DEFINE v == Moved(u, "active", "Active")
<1>1. Holds(u, "active", u.active.instance_id) /\ CanTransition(u.active.lifecycle, "Active")
  BY DEF Agree, Holds, CanTransition, ForwardEdges
<1>2. v.retired = u.retired
  BY MovedFacts DEF Roles, Lifecycles
<1> HIDE DEF v
<1>3. answer.sup = v /\ answer.ok = TRUE
  BY <1>1 DEF ActiveReactivated, Accept, v
<1>4. Occupied(u.candidate) => u.candidate.lifecycle = "Stopping"
  BY DEF Agree
<1>5. /\ answer.sup \in Sups /\ Agree(answer.sup) /\ SameIds(u, answer.sup)
      /\ answer.sup.active.lifecycle = "Active" /\ answer.sup.candidate = u.candidate
  BY <1>4, ActiveReactivatedAgrees
<1> QED
  BY <1>2, <1>3, <1>5 DEF Accepts

LEMMA DrainedAnswer ==
  ASSUME NEW u \in Sups, Agree(u), Occupied(u.retired), NEW from, NEW to, NEW answer,
         u.retired.lifecycle = from,
         \/ /\ from = "Draining" /\ to = "Snapshotting"
            /\ answer = RetiredDrained(u, u.retired.instance_id)
         \/ /\ from = "Snapshotting" /\ to = "Stopping"
            /\ answer = RetiredSnapshotCaptured(u, u.retired.instance_id)
  PROVE  /\ Accepts(answer, answer.sup) /\ SameIds(u, answer.sup)
         /\ answer.sup.active = u.active /\ answer.sup.candidate = u.candidate
         /\ answer.sup.retired.lifecycle = to
<1> DEFINE v == Moved(u, "retired", to)
<1>1. InState(u, "retired", u.retired.instance_id, from)
  BY DEF InState, Holds
<1>2. v.active = u.active /\ v.candidate = u.candidate /\ v.retired.lifecycle = to
  BY MovedFacts DEF Roles, Lifecycles
<1> HIDE DEF v
<1>3. answer.sup = v /\ answer.ok = TRUE
  BY <1>1 DEF RetiredDrained, RetiredSnapshotCaptured, Accept, v
<1>4. answer.sup \in Sups /\ Agree(answer.sup) /\ SameIds(u, answer.sup)
  BY RetiredDrainedAgrees, RetiredCapturedAgrees
<1> QED
  BY <1>2, <1>3, <1>4 DEF Accepts

\* A request concerns the role it is sent to.
LEMMA PostsOthers ==
  ASSUME NEW s, NEW O, Net(s, O), NEW role \in Roles, NEW request, NEW t, Posts(s, t, role, request),
         NEW b \in Roles \ {role}, s.slot[b].id \in InstanceIds
  PROVE  t.slot[b] = s.slot[b] /\ t.proc[t.slot[b].id] = s.proc[s.slot[b].id]
<1>1. s.slot[b].id # s.slot[role].id
  BY NoInstanceAssumption DEF Net, Distinct
<1> QED
  BY <1>1 DEF Posts, Sent

\* Slot and process of the role a request is sent to.
LEMMA PostsRole ==
  ASSUME NEW s, NEW O, Net(s, O), NEW role \in Roles, NEW request, NEW t, Posts(s, t, role, request),
         request.phase # "Shutdown", NEW i, i = s.slot[role].id, NEW p, p = s.proc[i],
         NEW q, q = t.proc[i]
  PROVE  /\ t.slot[role].id = i /\ i \in InstanceIds /\ t.slot[role].pending = request
         /\ t.slot[role].state = s.slot[role].state
         /\ q.run = p.run /\ q.linked = p.linked /\ q.startup = p.startup
         /\ q.handle = p.handle /\ q.inbox = Append(p.inbox, request)
         /\ Obeys(p) => Obeys(q)
         /\ Hired(i, p) => Hired(i, q)
<1>1. /\ t.slot[role].id = i /\ i \in InstanceIds /\ t.slot[role].pending = request
      /\ t.slot[role].state = s.slot[role].state
      /\ q.run = p.run /\ q.linked = p.linked /\ q.startup = p.startup
      /\ q.handle = p.handle /\ q.inbox = Append(p.inbox, request) /\ request \in Requests
  BY DEF Posts, Sent
<1>2. p.inbox \in Seq(Requests)
  BY <1>1, MasterFields DEF Net, Procs
<1>3. Obeys(p) => Obeys(q)
  BY <1>1, <1>2, ObeysMore
<1>4. Hired(i, p) => Hired(i, q)
  BY <1>1, <1>3 DEF Hired, Upright
<1> QED
  BY <1>1, <1>3, <1>4

\* The first worker has adopted its listeners and is asked to activate.
LEMMA BootAdoptedSane ==
  ASSUME NEW s, NEW O, NEW bad, Good(s, O), Sane(s, O), ~s.err, s.stage = "BootAdopting",
         Present(s, "active"), s.slot["active"].pending = NoPending, Calm => bad = {},
         s.proc[s.slot["active"].id].startup # "fresh",
         NEW t, t = IssueOrCompensate([s EXCEPT !.stage = "BootActivating"], "active", "Activate", bad)
  PROVE  Sane(t, O) /\ ~t.err
<1> DEFINE u == [s EXCEPT !.stage = "BootActivating"]
<1>0. Basic(s, O) /\ Boots("BootAdopting", s.slot["active"], s.proc[s.slot["active"].id])
  BY DEF Sane, Starting
<1>1. /\ Good(u, O) /\ u \in Masters /\ u.stage = "BootActivating" /\ u.sup = s.sup
      /\ u.slot = s.slot /\ u.proc = s.proc /\ u.err = s.err
  BY BootActivating
<1> HIDE DEF u
<1>2. Basic(u, O) /\ Boots("BootActivating", u.slot["active"], u.proc[u.slot["active"].id])
  BY <1>0, <1>1 DEF Boots, Basic, Timed, Truthful
<1>3. Sane(u, O) /\ Net(u, O) /\ Present(u, "active") /\ ~u.err
  BY <1>1, <1>2 DEF Sane, Starting, Good, Present
<1>4. t = IssueOrCompensate(u, "active", "Activate", bad)
  BY DEF u
<1>5. CASE CanIssue(u, "active", bad)
  <2> DEFINE r == [req |-> u.nextReq, phase |-> "Activate"]
  <2>1. Posts(u, t, "active", r) /\ r.phase = "Activate"
    BY <1>1, <1>3, <1>4, <1>5, IssuedFacts DEF IssueOrCompensate, Roles, ControlPhases
  <2> HIDE DEF r
  <2>2. /\ Basic(t, O) /\ t.stage = "BootActivating" /\ t.err = u.err
    BY <1>1, <1>2, <1>3, <2>1, PostsBasic DEF Roles, Boots
  <2>3. Boots("BootActivating", t.slot["active"], t.proc[t.slot["active"].id])
    <3> DEFINE i == u.slot["active"].id
               p == u.proc[i]
               q == t.proc[i]
    <3>0. Boots("BootActivating", u.slot["active"], p) /\ r.phase # "Shutdown"
      BY <1>2, <2>1
    <3> HIDE DEF i, p, q
    <3>1. /\ t.slot["active"].id = i /\ i \in InstanceIds /\ t.slot["active"].pending = r
          /\ t.slot["active"].state = u.slot["active"].state /\ q.startup = p.startup
          /\ (Hired(i, p) => Hired(i, q)) /\ u.slot["active"].id = i
      BY <1>3, <2>1, <3>0, PostsRole, RoleNames DEF i, p, q
    <3>3. Boots("BootActivating", t.slot["active"], q)
      BY <2>1, <3>0, <3>1 DEF Boots
    <3> QED
      BY <3>1, <3>3 DEF q
  <2> QED
    BY <1>3, <2>2, <2>3 DEF Sane, Starting
<1>6. CASE ~CanIssue(u, "active", bad)
  <2>1. Repairs(u, "active")
    BY <1>1 DEF Repairs
  <2> QED
    BY <1>1, <1>3, <1>4, <1>6, <2>1, CompensateSane DEF Roles
<1> QED
  BY <1>5, <1>6

\* The first worker is active.
LEMMA BootActivatedSane ==
  ASSUME NEW s, NEW O, Good(s, O), Sane(s, O), ~s.err, s.stage = "BootActivating",
         Present(s, "active"), s.slot["active"].pending = NoPending,
         s.proc[s.slot["active"].id].startup = "done",
         NEW t, t = [s EXCEPT !.stage = "Operational",
                              !.sup = NewSupervisor(s.slot["active"].id, s.slot["active"].id)]
  PROVE  Sane(t, O) /\ ~t.err
<1> DEFINE i == s.slot["active"].id
           u == NewSupervisor(i, i)
           x == [s EXCEPT !.stage = "Operational", !.sup = u]
<1>0. /\ s \in Masters /\ BootAlone(s) /\ Basic(s, O) /\ i \in InstanceIds
      /\ Boots("BootActivating", s.slot["active"], s.proc[i])
  BY RoleIds DEF Sane, Starting, Good, Net, Control, Roles
<1>1. Upd(s, x, {"stage", "sup"}) /\ x.stage = "Operational" /\ x.sup = u
  BY <1>0, MasterFields DEF Upd, IsRecord, Fields
<1>2. u.active.lifecycle = "Active" /\ u.candidate = Vacant /\ u.retired = Vacant
  BY DEF NewSupervisor, Instance
<1> HIDE DEF u, x
<1>3. x.slot = s.slot /\ x.proc = s.proc /\ x.err = s.err
  BY <1>1 DEF Upd, Fields
<1>4. s.sup = NoSupervisor /\ s.slot["candidate"].id = NoInstance /\ s.slot["retired"].id = NoInstance
  BY <1>0 DEF BootAlone
<1>5. \A b \in Roles : ~s.slot[b].deadline
  BY <1>0, <1>4, VacantFacts DEF Basic, Timed, NoSupervisor
<1>6. Basic(x, O)
  BY <1>0, <1>3, <1>5 DEF Basic, Timed, Truthful
<1>7. Oper(x, O)
  <2>1. Leads(x.sup, x.slot["active"], x.proc[x.slot["active"].id])
    BY <1>0, <1>3 DEF Boots, Leads, Hired
  <2>2. Heeds(x.sup.active.lifecycle, x.slot["active"], x.proc[x.slot["active"].id], O)
    BY <1>1, <1>2, <1>3 DEF Heeds, NoPending
  <2>3. Tries(x.sup.candidate, x.slot["candidate"], x.proc[x.slot["candidate"].id])
    BY <1>1, <1>2, VacantFacts DEF Tries
  <2>4. Retires(x.sup.retired, x.slot["retired"])
    BY <1>0, <1>3, <1>4, NoSlotType DEF Retires, Basic, Tidy, Roles
  <2> QED
    BY <2>1, <2>2, <2>3, <2>4 DEF Oper
<1>8. Sane(x, O)
  BY <1>1, <1>6, <1>7, OperSane
<1> QED
  BY <1>3, <1>8 DEF x, u, i

\* Steering an operational master.
LEMMA SteeredGood ==
  ASSUME NEW s, NEW O, Good(s, O), s.stage = "Operational", NEW answer,
         Accepts(answer, answer.sup), SameIds(s.sup, answer.sup), ~s.deferred,
         answer.sup.active.lifecycle = "Active" => s.sup.active.lifecycle = "Active",
         s.sup.candidate.lifecycle = "Stopping" => answer.sup.candidate.lifecycle = "Stopping",
         NEW t, t = Applied(s, answer)
  PROVE  /\ Good(t, O) /\ t \in Masters /\ t.stage = "Operational" /\ t.sup = answer.sup
         /\ t.slot = s.slot /\ t.proc = s.proc /\ t.err = FALSE /\ Steers(s, t)
<1>0. s \in Masters /\ Net(s, O) /\ Single(s) /\ Control(s)
  BY DEF Good, Net
<1>1. Steers(s, t) /\ t.sup = answer.sup /\ t.err = FALSE
  BY <1>0, AcceptedSteers
<1>2. Net(t, O) /\ Single(t)
  BY <1>0, <1>1, SteerNet, SteerSingle
<1>3. Control(t)
  BY <1>0, <1>1, SteerControl DEF Accepts
<1> QED
  BY <1>1, <1>2, <1>3 DEF Good, Steers

\* A worker with nothing to read.
Idle(p) == p.inbox = << >>

\* The active worker, asked to hold its gate closed.
LEMMA Quieted ==
  ASSUME NEW s, NEW O, NEW t, NEW u, NEW v, Net(s, O),
         Leads(u, s.slot["active"], s.proc[s.slot["active"].id]),
         NEW r, Posts(s, t, "active", r), r.phase = "Quiesce",
         Calm /\ s.slot["active"].id \notin Faulty => Idle(s.proc[s.slot["active"].id]),
         Occupied(v.candidate), v.candidate.lifecycle = "Ready"
  PROVE  /\ Leads(v, t.slot["active"], t.proc[t.slot["active"].id])
         /\ Heeds("Quiescing", t.slot["active"], t.proc[t.slot["active"].id], O)
<1> DEFINE i == s.slot["active"].id
           p == s.proc[i]
           q == t.proc[i]
           x == t.slot["active"]
<1>0. /\ Leads(u, s.slot["active"], p) /\ Posts(s, t, "active", r) /\ s.slot["active"].id = i
      /\ Calm /\ i \notin Faulty => Idle(p)
  OBVIOUS
<1>1. r.phase = "Quiesce"
  OBVIOUS
<1> HIDE DEF i, p, q
<1>a. r.phase # "Shutdown" /\ i = s.slot["active"].id /\ p = s.proc[i] /\ q = t.proc[i]
      /\ x = t.slot["active"]
  BY <1>1 DEF i, p, q
<1> HIDE DEF x
<1>2. /\ x.id = i /\ i \in InstanceIds /\ x.pending = r /\ x.state = s.slot["active"].state
      /\ q.run = p.run /\ q.linked = p.linked /\ q.startup = p.startup
      /\ q.inbox = Append(p.inbox, r) /\ (Obeys(p) => Obeys(q))
  <2>1. /\ t.slot["active"].id = i /\ i \in InstanceIds /\ t.slot["active"].pending = r
        /\ t.slot["active"].state = s.slot["active"].state
        /\ q.run = p.run /\ q.linked = p.linked /\ q.startup = p.startup
        /\ (Obeys(p) => Obeys(q))
    BY <1>a, RoleNames, PostsRole
  <2>2. q.inbox = Append(p.inbox, r)
    BY <1>a DEF Posts, Sent
  <2> QED
    BY <1>a, <2>1, <2>2
<1>3. Leads(v, x, q)
  BY <1>0, <1>1, <1>2 DEF Leads, Upright
<1>4. Calm /\ i \notin Faulty => Held(q)
  BY <1>0, <1>1, <1>2 DEF Held, Idle
<1>5. Heeds("Quiescing", x, q, O)
  BY <1>1, <1>2, <1>4 DEF Heeds
<1> QED
  BY <1>2, <1>3, <1>5 DEF q, x

\* The candidate has adopted its listeners, and the active worker is to quiesce.
LEMMA PreparedSane ==
  ASSUME NEW s, NEW O, NEW bad, Good(s, O), Sane(s, O), ~s.err, s.stage = "Operational",
         Occupied(s.sup.candidate), s.sup.candidate.lifecycle = "Preparing", Calm => bad = {},
         s.slot["candidate"].pending = NoPending, s.proc[s.slot["candidate"].id].startup # "fresh",
         NEW t, t = ThenIssue(Applied(s, CandidatePrepared(s.sup, s.slot["candidate"].id)),
                              "active", "Quiesce", bad)
  PROVE  Sane(t, O) /\ ~t.err
<1> DEFINE answer == CandidatePrepared(s.sup, s.slot["candidate"].id)
           a == Applied(s, answer)
<1>0. /\ s \in Masters /\ Net(s, O) /\ Matched(s) /\ Reaps(s) /\ Serving(s)
      /\ Basic(s, O) /\ Oper(s, O) /\ s.sup \in Sups /\ Agree(s.sup)
      /\ s.slot["candidate"].id = s.sup.candidate.instance_id
      /\ s.slot["active"].id \in InstanceIds /\ s.slot["candidate"].id \in InstanceIds
  <2>1. /\ s \in Masters /\ Net(s, O) /\ Matched(s) /\ Reaps(s) /\ Serving(s)
        /\ Basic(s, O) /\ Oper(s, O) /\ s.sup \in Sups /\ Agree(s.sup)
        /\ s.slot["candidate"].id = s.sup.candidate.instance_id
    BY SaneOper, MasterFields DEF Good, Net, Control, Matched, Roles
  <2> QED
    BY <2>1, ActivePresent, RoleIds DEF Roles, Present, Occupied
<1>1. ~s.deferred
  BY <1>0, PhaseFacts DEF Reaps
<1>2. /\ Accepts(answer, answer.sup) /\ SameIds(s.sup, answer.sup)
      /\ answer.sup.active.lifecycle = "Quiescing" /\ answer.sup.candidate.lifecycle = "Ready"
      /\ answer.sup.retired = s.sup.retired
  BY <1>0, PreparedAnswer
<1> HIDE DEF answer
<1>3. /\ Good(a, O) /\ a \in Masters /\ a.stage = "Operational" /\ a.sup = answer.sup
      /\ a.slot = s.slot /\ a.proc = s.proc /\ a.err = FALSE /\ Steers(s, a)
  BY <1>1, <1>2, SteeredGood
<1>4. t = IssueOrCompensate(a, "active", "Quiesce", bad)
  BY <1>3 DEF ThenIssue, Try, answer
<1> HIDE DEF a
<1>5. Basic(a, O) /\ Net(a, O)
  BY <1>0, <1>2, <1>3, SteersBasic DEF Good
<1>6. Occupied(a.sup.candidate) /\ s.sup.active.lifecycle = "Active"
  BY <1>0, <1>2, <1>3 DEF SameIds, Occupied, Roles, Agree
<1>7. Leads(s.sup, s.slot["active"], s.proc[s.slot["active"].id]) /\ s.slot["active"].pending = NoPending
  BY <1>0, <1>6 DEF Oper, Leads
<1>8. /\ Tries(a.sup.candidate, a.slot["candidate"], a.proc[a.slot["candidate"].id])
      /\ Retires(a.sup.retired, a.slot["retired"])
  BY <1>0, <1>2, <1>3 DEF Oper, Tries, Retires
<1>9. Present(a, "active")
  BY <1>0, <1>3, NoInstanceAssumption DEF Present
<1>10. CASE CanIssue(a, "active", bad)
  <2> DEFINE r == [req |-> a.nextReq, phase |-> "Quiesce"]
  <2>1. Posts(a, t, "active", r) /\ r.phase = "Quiesce"
    BY <1>3, <1>4, <1>9, <1>10, IssuedFacts DEF IssueOrCompensate, Roles, ControlPhases
  <2> HIDE DEF r
  <2>2. /\ Basic(t, O) /\ t.stage = "Operational" /\ t.sup = a.sup /\ t.err = a.err
    BY <1>3, <1>5, <1>7, <2>1, PostsBasic DEF Roles, Leads
  <2>3. Calm /\ a.slot["active"].id \notin Faulty => Idle(a.proc[a.slot["active"].id])
    BY <1>0, <1>3, <1>6, <1>7 DEF Leads, Upright, Serving, Idle
  <2>4. /\ Leads(a.sup, t.slot["active"], t.proc[t.slot["active"].id])
        /\ Heeds("Quiescing", t.slot["active"], t.proc[t.slot["active"].id], O)
    BY <1>2, <1>3, <1>5, <1>6, <1>7, <2>1, <2>3, Quieted
  <2>5. /\ t.slot["candidate"] = a.slot["candidate"] /\ t.slot["retired"] = a.slot["retired"]
        /\ t.proc[t.slot["candidate"].id] = a.proc[a.slot["candidate"].id]
    <3>1. "candidate" \in Roles \ {"active"} /\ "retired" \in Roles \ {"active"} /\ "active" \in Roles
          /\ a.slot["candidate"].id \in InstanceIds
      BY <1>0, <1>3 DEF Roles
    <3>2. t.slot["retired"] = a.slot["retired"]
      BY <2>1, <3>1 DEF Posts
    <3>3. /\ t.slot["candidate"] = a.slot["candidate"]
          /\ t.proc[t.slot["candidate"].id] = a.proc[a.slot["candidate"].id]
      BY <1>5, <2>1, <3>1, PostsOthers
    <3> QED
      BY <3>2, <3>3
  <2>6. Oper(t, O)
    BY <1>2, <1>3, <1>8, <2>2, <2>4, <2>5 DEF Oper
  <2> QED
    BY <1>3, <2>2, <2>6, OperSane
<1>11. CASE ~CanIssue(a, "active", bad)
  <2>1. Calm => a.slot["active"].id \in Faulty
    BY <1>3, <1>7, <1>11, Askable DEF Leads
  <2>2. Heeds(a.sup.active.lifecycle, a.slot["active"], a.proc[a.slot["active"].id], O)
    BY <2>1 DEF Heeds
  <2>3. Leads(a.sup, a.slot["active"], a.proc[a.slot["active"].id])
    BY <1>3, <1>7 DEF Leads
  <2>4. Sane(a, O)
    BY <1>3, <1>5, <1>8, <2>2, <2>3, OperSane DEF Oper
  <2>5. Repairs(a, "active")
    BY <2>1 DEF Repairs
  <2> QED
    BY <1>3, <1>4, <1>9, <1>11, <2>4, <2>5, CompensateSane DEF Roles
<1> QED
  BY <1>10, <1>11

\* The active worker has quiesced, and the candidate is to activate.
LEMMA QuiescedSane ==
  ASSUME NEW s, NEW O, NEW bad, Good(s, O), Sane(s, O), ~s.err, s.stage = "Operational",
         Occupied(s.sup.candidate), s.sup.candidate.lifecycle = "Ready", Calm => bad = {},
         s.slot["active"].pending = NoPending,
         NEW t, t = ThenIssue(Applied(s, ActiveQuiesced(s.sup, s.slot["active"].id)),
                              "candidate", "Activate", bad)
  PROVE  Sane(t, O) /\ ~t.err
<1> DEFINE answer == ActiveQuiesced(s.sup, s.slot["active"].id)
           a == Applied(s, answer)
<1>0. /\ s \in Masters /\ Net(s, O) /\ Matched(s) /\ Reaps(s)
      /\ Basic(s, O) /\ Oper(s, O) /\ s.sup \in Sups /\ Agree(s.sup)
      /\ s.slot["candidate"].id = s.sup.candidate.instance_id
      /\ s.slot["active"].id = s.sup.active.instance_id
      /\ s.slot["active"].id \in InstanceIds /\ s.slot["candidate"].id \in InstanceIds
  <2>1. /\ s \in Masters /\ Net(s, O) /\ Matched(s) /\ Reaps(s)
        /\ Basic(s, O) /\ Oper(s, O) /\ s.sup \in Sups /\ Agree(s.sup)
        /\ s.slot["candidate"].id = s.sup.candidate.instance_id
        /\ s.slot["active"].id = s.sup.active.instance_id
    BY SaneOper, MasterFields DEF Good, Net, Control, Matched, Roles
  <2> QED
    BY <2>1, ActivePresent, RoleIds DEF Roles, Present, Occupied
<1>1. ~s.deferred
  BY <1>0, PhaseFacts DEF Reaps
<1>2. /\ Accepts(answer, answer.sup) /\ SameIds(s.sup, answer.sup)
      /\ answer.sup.active = s.sup.active /\ answer.sup.candidate.lifecycle = "Activating"
      /\ answer.sup.retired = s.sup.retired
  BY <1>0, QuiescedAnswer
<1> HIDE DEF answer
<1>3. /\ Good(a, O) /\ a \in Masters /\ a.stage = "Operational" /\ a.sup = answer.sup
      /\ a.slot = s.slot /\ a.proc = s.proc /\ a.err = FALSE /\ Steers(s, a)
  BY <1>1, <1>2, SteeredGood
<1>4. t = IssueOrCompensate(a, "candidate", "Activate", bad)
  BY <1>3 DEF ThenIssue, Try, answer
<1> HIDE DEF a
<1>5. Basic(a, O) /\ Net(a, O)
  BY <1>0, <1>2, <1>3, SteersBasic DEF Good
<1>6. Tries(s.sup.candidate, s.slot["candidate"], s.proc[s.slot["candidate"].id])
  BY <1>0 DEF Oper
<1>7. Oper(a, O)
  <2>1. Leads(a.sup, a.slot["active"], a.proc[a.slot["active"].id])
    BY <1>0, <1>3 DEF Oper, Leads
  <2>2. Heeds(a.sup.active.lifecycle, a.slot["active"], a.proc[a.slot["active"].id], O)
    BY <1>0, <1>2, <1>3 DEF Oper
  <2>3. Tries(a.sup.candidate, a.slot["candidate"], a.proc[a.slot["candidate"].id])
    BY <1>2, <1>3, <1>6 DEF Tries
  <2>4. Retires(a.sup.retired, a.slot["retired"])
    BY <1>0, <1>2, <1>3 DEF Oper, Retires
  <2> QED
    BY <2>1, <2>2, <2>3, <2>4 DEF Oper
<1>8. Present(a, "candidate")
  BY <1>0, <1>3, NoInstanceAssumption DEF Present
<1>9. CASE CanIssue(a, "candidate", bad)
  <2> DEFINE r == [req |-> a.nextReq, phase |-> "Activate"]
             i == a.slot["candidate"].id
             p == a.proc[i]
             q == t.proc[i]
  <2>1. Posts(a, t, "candidate", r) /\ r.phase = "Activate"
    BY <1>3, <1>4, <1>8, <1>9, IssuedFacts DEF IssueOrCompensate, Roles, ControlPhases
  <2> HIDE DEF r
  <2>2. a.slot["candidate"].state = "Running"
    BY <1>3, <1>6 DEF Tries
  <2>3. /\ Basic(t, O) /\ t.stage = "Operational" /\ t.sup = a.sup /\ t.err = a.err
    BY <1>3, <1>5, <2>1, <2>2, PostsBasic DEF Roles
  <2>4. /\ t.slot["active"] = a.slot["active"] /\ t.slot["retired"] = a.slot["retired"]
        /\ t.proc[t.slot["active"].id] = a.proc[a.slot["active"].id]
    <3>1. "active" \in Roles \ {"candidate"} /\ "retired" \in Roles \ {"candidate"}
          /\ "candidate" \in Roles /\ a.slot["active"].id \in InstanceIds
      BY <1>0, <1>3 DEF Roles
    <3>2. t.slot["retired"] = a.slot["retired"]
      BY <2>1, <3>1 DEF Posts
    <3>3. /\ t.slot["active"] = a.slot["active"]
          /\ t.proc[t.slot["active"].id] = a.proc[a.slot["active"].id]
      BY <1>5, <2>1, <3>1, PostsOthers
    <3> QED
      BY <3>2, <3>3
  <2>5. Tries(t.sup.candidate, t.slot["candidate"], t.proc[t.slot["candidate"].id])
    <3>1. Tries(a.sup.candidate, a.slot["candidate"], p) /\ r.phase # "Shutdown"
      BY <1>7, <2>1 DEF Oper
    <3> HIDE DEF i, p, q
    <3>2. /\ t.slot["candidate"].id = i /\ i \in InstanceIds /\ t.slot["candidate"].pending = r
          /\ t.slot["candidate"].state = a.slot["candidate"].state /\ q.startup = p.startup
          /\ (Hired(i, p) => Hired(i, q)) /\ a.slot["candidate"].id = i
      BY <1>5, <2>1, <3>1, PostsRole, RoleNames DEF i, p, q
    <3>3. Tries(t.sup.candidate, t.slot["candidate"], q)
      BY <1>2, <1>3, <2>1, <2>3, <3>1, <3>2 DEF Tries
    <3> QED
      BY <3>2, <3>3 DEF q
  <2>6. Oper(t, O)
    BY <1>7, <2>3, <2>4, <2>5 DEF Oper
  <2> QED
    BY <1>3, <2>3, <2>6, OperSane
<1>10. CASE ~CanIssue(a, "candidate", bad)
  <2>1. Sane(a, O)
    BY <1>3, <1>5, <1>7, OperSane
  <2>2. Repairs(a, "candidate")
    BY <1>2, <1>3 DEF Repairs
  <2> QED
    BY <1>3, <1>4, <1>8, <1>10, <2>1, <2>2, CompensateSane DEF Roles
<1> QED
  BY <1>9, <1>10

\* The active worker serves again.
LEMMA ReactivatedSane ==
  ASSUME NEW s, NEW O, Good(s, O), Sane(s, O), ~s.err, s.stage = "Operational",
         s.sup.active.lifecycle = "Reactivating", s.slot["active"].pending = NoPending,
         NEW t, t = MaybeFinishRollback(Applied(s, ActiveReactivated(s.sup, s.slot["active"].id)))
  PROVE  Sane(t, O) /\ ~t.err
<1> DEFINE answer == ActiveReactivated(s.sup, s.slot["active"].id)
           a == Applied(s, answer)
<1>0. /\ s \in Masters /\ Net(s, O) /\ Matched(s) /\ Basic(s, O) /\ Oper(s, O) /\ s.sup \in Sups
      /\ Agree(s.sup) /\ s.slot["active"].id = s.sup.active.instance_id
  BY SaneOper, MasterFields DEF Good, Net, Control, Matched, Roles
<1>1. ~Occupied(s.sup.retired)
  BY <1>0 DEF Agree
<1>2. /\ Accepts(answer, answer.sup) /\ answer.sup.active.lifecycle = "Active"
      /\ answer.sup.candidate = s.sup.candidate /\ answer.sup.retired = s.sup.retired
  BY <1>0, <1>1, ReactivatedAnswer
<1> HIDE DEF answer
<1>3. Steers(s, a) /\ a.sup = answer.sup /\ a.err = FALSE
  BY <1>0, <1>2, AcceptedSteers
<1>4. t = MaybeFinishRollback(a)
  BY DEF answer
<1> HIDE DEF a
<1>5. Basic(a, O) /\ a \in Masters /\ a.slot = s.slot /\ a.proc = s.proc /\ a.stage = "Operational"
  BY <1>0, <1>2, <1>3, SteersBasic DEF Steers
<1>6. Oper(a, O)
  <2>1. Leads(a.sup, a.slot["active"], a.proc[a.slot["active"].id])
    BY <1>0, <1>5 DEF Oper, Leads
  <2>2. Heeds(a.sup.active.lifecycle, a.slot["active"], a.proc[a.slot["active"].id], O)
    BY <1>2, <1>3, <1>5 DEF Heeds, NoPending
  <2> QED
    BY <1>0, <1>2, <1>3, <1>5, <2>1, <2>2 DEF Oper
<1>7. Sane(a, O)
  BY <1>5, <1>6, OperSane
<1>8. Still(a, t) /\ ~t.err
  BY <1>3, <1>4, <1>5, FinishStill
<1> QED
  BY <1>7, <1>8, StillSane

\* The candidate has taken over: what is kept and said of the two workers.
LEMMA PromotedSane ==
  ASSUME NEW s, NEW O, Good(s, O), Sane(s, O), s.stage = "Operational",
         Occupied(s.sup.candidate), s.sup.candidate.lifecycle = "Activating",
         s.slot["candidate"].pending = NoPending, s.proc[s.slot["candidate"].id].startup = "done",
         NEW a, NEW t, Promoted(s, a, t)
  PROVE  /\ Sane(t, O) /\ Basic(t, O) /\ Oper(t, O) /\ ~t.err /\ t.stage = "Operational"
         /\ t.slot["retired"].state = "Running"
<1>0. /\ Matched(s) /\ Basic(s, O) /\ Oper(s, O) /\ Agree(s.sup)
  BY SaneOper DEF Good, Control, Matched
<1>1. /\ s.slot["active"].pending = NoPending /\ s.slot["active"].state = "Running"
      /\ s.slot["candidate"].state = "Running"
      /\ Hired(s.slot["candidate"].id, s.proc[s.slot["candidate"].id])
  BY <1>0 DEF Oper, Leads, Tries, Agree
<1>2. /\ t.slot["active"] = s.slot["candidate"] /\ t.slot["candidate"] = NoSlot
      /\ t.slot["retired"] = s.slot["active"] /\ t.proc = s.proc /\ t.stage = "Operational"
      /\ t.sup.active.lifecycle = "Active" /\ t.sup.candidate = Vacant /\ t.err = FALSE
  BY DEF Promoted
<1>3. \A b \in Roles : Tidy(t.slot[b]) /\ ~t.slot[b].deadline
  <2>1. ~s.slot["active"].deadline /\ ~s.slot["candidate"].deadline
    BY <1>0 DEF Basic, Timed, Roles
  <2> QED
    BY <1>0, <1>2, <2>1, NoSlotTidy DEF Basic, Roles
<1>4. Basic(t, O)
  BY <1>0, <1>2, <1>3 DEF Basic, Timed, Truthful
<1>5. Leads(t.sup, t.slot["active"], t.proc[t.slot["active"].id])
  BY <1>1, <1>2 DEF Leads, Hired
<1>6. Heeds(t.sup.active.lifecycle, t.slot["active"], t.proc[t.slot["active"].id], O)
  BY <1>2 DEF Heeds, NoPending
<1>7. Tries(t.sup.candidate, t.slot["candidate"], t.proc[t.slot["candidate"].id])
  BY <1>2, VacantFacts DEF Tries
<1>8. Retires(t.sup.retired, t.slot["retired"])
  BY <1>1, <1>2 DEF Retires
<1>9. Oper(t, O)
  BY <1>5, <1>6, <1>7, <1>8 DEF Oper
<1> QED
  BY <1>1, <1>2, <1>4, <1>9, OperSane

\* A request to the retired worker concerns nobody else.
LEMMA RetiredAsked ==
  ASSUME NEW s, NEW O, NEW r, NEW t, Net(s, O), Basic(s, O), Oper(s, O), s.stage = "Operational",
         ~Occupied(s.sup.candidate), s.slot["active"].id \in InstanceIds,
         s.slot["retired"].state # "Forced", Posts(s, t, "retired", r)
  PROVE  /\ Basic(t, O) /\ t \in Masters /\ t.stage = "Operational" /\ t.sup = s.sup /\ t.err = s.err
         /\ t.slot["retired"].pending = r
         /\ t.slot["retired"].id = s.slot["retired"].id /\ t.slot["retired"].id \in InstanceIds
         /\ Leads(t.sup, t.slot["active"], t.proc[t.slot["active"].id])
         /\ Heeds(t.sup.active.lifecycle, t.slot["active"], t.proc[t.slot["active"].id], O)
         /\ Tries(t.sup.candidate, t.slot["candidate"], t.proc[t.slot["candidate"].id])
<1>1. /\ Basic(t, O) /\ t \in Masters /\ t.stage = "Operational" /\ t.sup = s.sup /\ t.err = s.err
  BY PostsBasic, RoleNames
<1>2. /\ t.slot["retired"].pending = r /\ t.slot["retired"].id = s.slot["retired"].id
      /\ t.slot["retired"].id \in InstanceIds
  BY DEF Posts, Sent
<1>3. "active" \in Roles \ {"retired"} /\ "retired" \in Roles
  BY DEF Roles
<1>4. t.slot["active"] = s.slot["active"] /\ t.proc[t.slot["active"].id] = s.proc[s.slot["active"].id]
  BY <1>3, PostsOthers
<1>5. /\ Leads(t.sup, t.slot["active"], t.proc[t.slot["active"].id])
      /\ Heeds(t.sup.active.lifecycle, t.slot["active"], t.proc[t.slot["active"].id], O)
  BY <1>1, <1>4 DEF Oper
<1>6. Tries(t.sup.candidate, t.slot["candidate"], t.proc[t.slot["candidate"].id])
  BY <1>1 DEF Tries
<1> QED
  BY <1>1, <1>2, <1>5, <1>6

\* The candidate has been activated.
LEMMA CommitSane ==
  ASSUME NEW s, NEW O, NEW bad, NEW f, Good(s, O), Sane(s, O), ~s.err, s.stage = "Operational",
         Occupied(s.sup.candidate), s.sup.candidate.lifecycle = "Activating", Calm => bad = {},
         s.slot["candidate"].pending = NoPending, s.proc[s.slot["candidate"].id].startup = "done",
         Answered(s.proc[s.slot["candidate"].id], f), f.ok, f.phase = "Activate",
         NEW t, t = CommitCandidate(s, bad)
  PROVE  Sane(t, O) /\ ~t.err
<1> DEFINE answer == CandidateActivated(s.sup, s.slot["candidate"].id)
           a == Applied(s, answer)
           b == Promote(a)
           old == s.slot["active"].id
           on == TRUE
<1>0. Matched(s) /\ Reaps(s)
  BY DEF Good, Control
<1>1. PhaseOf(s) = "ActivatingCandidate"
  BY <1>0, PhaseNames
<1>2. Promoted(s, a, b) /\ Good(b, O)
  BY <1>1, PromotedGood
<1>3. t = IF s.deferred THEN RetiredGone(FailRetired(b), old, on)
          ELSE IssueOrCompensate(b, "retired", "Drain", bad)
  BY <1>2 DEF CommitCandidate, Promoted
<1>on. on \in BOOLEAN
  OBVIOUS
<1> HIDE DEF a, b, old, on
<1>4. /\ Sane(b, O) /\ Basic(b, O) /\ Oper(b, O) /\ ~b.err /\ b.stage = "Operational"
      /\ b.slot["retired"].state = "Running"
  BY <1>2, PromotedSane
<1>5. /\ b.slot["retired"].id = old /\ old \in InstanceIds /\ b.proc = s.proc
      /\ b.slot["active"].id \in InstanceIds /\ b.sup.retired.lifecycle = "Draining"
      /\ ~Occupied(b.sup.candidate) /\ b \in Masters
  BY <1>2, VacantFacts DEF Promoted, old
<1>6. Present(b, "retired") /\ Occupied(b.sup.retired) /\ Net(b, O)
  BY <1>2, <1>4, <1>5, NoInstanceAssumption DEF Present, Good, Control, Matched, Roles, Occupied
<1>7. CASE s.deferred
  <2> DEFINE r == FailRetired(b)
  <2>1. t = RetiredGone(r, old, on)
    BY <1>3, <1>7
  <2>2. /\ Good(r, O) /\ r.stage = "Operational" /\ r.slot["retired"].id = b.slot["retired"].id
    BY <1>2, <1>4, FailRetiredGood
  <2>3. /\ Sane(r, O) /\ ~r.err /\ r.failure /\ r.sup.retired.lifecycle = "Stopping"
    BY <1>2, <1>4, <1>6, FailRetiredSane
  <2> HIDE DEF r
  <2> QED
    BY <1>5, <1>on, <2>1, <2>2, <2>3, RetiredGoneSane
<1>8. CASE ~s.deferred
  <2>1. t = IssueOrCompensate(b, "retired", "Drain", bad)
    BY <1>3, <1>8
  <2>2. CASE CanIssue(b, "retired", bad)
    <3> DEFINE r == [req |-> b.nextReq, phase |-> "Drain"]
    <3>1. Posts(b, t, "retired", r) /\ r.phase = "Drain"
      BY <1>5, <1>6, <2>1, <2>2, IssuedFacts DEF IssueOrCompensate, Roles, ControlPhases
    <3> HIDE DEF r
    <3>2. /\ Basic(t, O) /\ t \in Masters /\ t.stage = "Operational" /\ t.sup = b.sup
          /\ t.err = b.err /\ t.slot["retired"].pending = r
          /\ Leads(t.sup, t.slot["active"], t.proc[t.slot["active"].id])
          /\ Heeds(t.sup.active.lifecycle, t.slot["active"], t.proc[t.slot["active"].id], O)
          /\ Tries(t.sup.candidate, t.slot["candidate"], t.proc[t.slot["candidate"].id])
      <4>1. b.slot["retired"].state # "Forced"
        BY <1>4
      <4> QED
        BY <1>4, <1>5, <1>6, <3>1, <4>1, RetiredAsked
    <3>3. Retires(t.sup.retired, t.slot["retired"])
      BY <1>5, <3>1, <3>2 DEF Retires
    <3>4. Oper(t, O)
      BY <3>2, <3>3 DEF Oper
    <3> QED
      BY <1>4, <3>2, <3>4, OperSane
  <2>3. CASE ~CanIssue(b, "retired", bad)
    <3>1. Repairs(b, "retired")
      BY DEF Repairs
    <3> QED
      BY <1>2, <1>4, <1>6, <2>1, <2>3, <3>1, CompensateSane, RoleNames
  <2> QED
    BY <2>2, <2>3
<1> QED
  BY <1>7, <1>8

\* The retired worker has been told to stop, and its exit has a deadline.
LEMMA TerminatedFacts ==
  ASSUME NEW s \in Masters, NEW t,
         t = [s EXCEPT !.slot["retired"].state = "Terminating", !.slot["retired"].deadline = TRUE]
  PROVE  /\ t \in Masters /\ t.stage = s.stage /\ t.sup = s.sup /\ t.err = s.err /\ t.proc = s.proc
         /\ t.slot["active"] = s.slot["active"] /\ t.slot["candidate"] = s.slot["candidate"]
         /\ t.slot["retired"].id = s.slot["retired"].id
         /\ t.slot["retired"].pending = s.slot["retired"].pending
         /\ t.slot["retired"].state = "Terminating"
<1> DEFINE u == [s EXCEPT !.slot["retired"].state = "Terminating", !.slot["retired"].deadline = TRUE]
           w == [s.slot["retired"] EXCEPT !.state = "Terminating", !.deadline = TRUE]
<1>1. u \in Masters
  BY DeadlineKeeps DEF Keeps
<1>2. /\ u.slot = [s.slot EXCEPT !["retired"] = w] /\ u.stage = s.stage /\ u.sup = s.sup
      /\ u.err = s.err /\ u.proc = s.proc /\ s.slot \in [Roles -> SlotRecords]
      /\ s.slot["retired"] \in SlotRecords
  BY MasterFields DEF IsRecord, Fields, Roles
<1>3. w.id = s.slot["retired"].id /\ w.pending = s.slot["retired"].pending /\ w.state = "Terminating"
  BY <1>2 DEF SlotRecords
<1> HIDE DEF u, w
<1>4. /\ u.slot["retired"] = w /\ u.slot["active"] = s.slot["active"]
      /\ u.slot["candidate"] = s.slot["candidate"]
  BY <1>2 DEF Roles
<1> QED
  BY <1>1, <1>2, <1>3, <1>4 DEF u

LEMMA TerminateRetiredSane ==
  ASSUME NEW s, NEW O, NEW bad, Good(s, O), Basic(s, O), Oper(s, O), ~s.err, s.stage = "Operational",
         Occupied(s.sup.retired), s.sup.retired.lifecycle = "Stopping",
         s.slot["retired"].state # "Forced", NEW t, t = TerminateRetired(s, bad)
  PROVE  Sane(t, O) /\ ~t.err
<1>0. /\ s \in Masters /\ Net(s, O) /\ Matched(s) /\ Agree(s.sup)
      /\ s.slot["retired"].id = s.sup.retired.instance_id /\ ~Occupied(s.sup.candidate)
      /\ s.slot["active"].id \in InstanceIds
  BY ActivePresent DEF Good, Net, Control, Matched, Roles, Agree
<1>1. Present(s, "retired")
  BY <1>0 DEF Present, Occupied
<1>2. CASE CanIssue(s, "retired", bad)
  <2> DEFINE r == [req |-> s.nextReq, phase |-> "Shutdown"]
             b == Issued(s, "retired", "Shutdown")
             u == [b EXCEPT !.slot["retired"].state = "Terminating", !.slot["retired"].deadline = TRUE]
  <2>1. t = u
    BY <1>2 DEF TerminateRetired
  <2>2. Posts(s, b, "retired", r) /\ r.phase = "Shutdown"
    BY <1>0, <1>1, IssuedFacts DEF Roles, ControlPhases
  <2> HIDE DEF r, b
  <2>3. /\ Basic(b, O) /\ b \in Masters /\ b.stage = "Operational" /\ b.sup = s.sup
        /\ b.err = s.err /\ b.slot["retired"].pending = r
        /\ b.slot["retired"].id = s.slot["retired"].id /\ b.slot["retired"].id \in InstanceIds
        /\ Leads(b.sup, b.slot["active"], b.proc[b.slot["active"].id])
        /\ Heeds(b.sup.active.lifecycle, b.slot["active"], b.proc[b.slot["active"].id], O)
        /\ Tries(b.sup.candidate, b.slot["candidate"], b.proc[b.slot["candidate"].id])
    BY <1>0, <2>2, RetiredAsked
  <2>4. /\ u.stage = b.stage /\ u.sup = b.sup /\ u.err = b.err /\ u.proc = b.proc
        /\ u.slot["active"] = b.slot["active"] /\ u.slot["candidate"] = b.slot["candidate"]
        /\ u.slot["retired"].id = b.slot["retired"].id
        /\ u.slot["retired"].pending = b.slot["retired"].pending
        /\ u.slot["retired"].state = "Terminating"
    BY <2>3, TerminatedFacts
  <2> HIDE DEF u
  <2>5. \A c \in Roles : Tidy(u.slot[c])
    <3>1. Tidy(u.slot["retired"])
      BY <2>3, <2>4, NoInstanceAssumption DEF Tidy
    <3> QED
      BY <2>3, <2>4, <3>1 DEF Basic, Roles
  <2>6. Timed(u)
    <3>1. \A c \in Roles : u.slot[c].deadline => c = "retired"
      BY <2>3, <2>4 DEF Basic, Timed, Roles
    <3> QED
      BY <1>0, <2>3, <2>4, <3>1 DEF Timed, Roles
  <2>7. Basic(u, O)
    BY <2>3, <2>4, <2>5, <2>6 DEF Basic, Truthful
  <2>8. Retires(u.sup.retired, u.slot["retired"])
    BY <2>2, <2>3, <2>4 DEF Retires
  <2>9. Oper(u, O)
    BY <2>3, <2>4, <2>8 DEF Oper
  <2> QED
    BY <2>1, <2>3, <2>4, <2>7, <2>9, OperSane
<1>3. CASE ~CanIssue(s, "retired", bad)
  <2> DEFINE n == NotIssued(s)
  <2>1. t = FailRetired(n)
    BY <1>3 DEF TerminateRetired
  <2>2. Keeps(s, n) /\ Upd(s, n, {"nextReq", "sends"})
    BY <1>0, NotIssuedKeeps
  <2> HIDE DEF n
  <2>3. Good(n, O) /\ Still(s, n) /\ n.err = s.err
    BY <2>2, KeepGood, UpdStill DEF Upd, Fields
  <2>4. Sane(n, O) /\ n.stage = "Operational" /\ Occupied(n.sup.retired)
    BY <2>3, OperSane, StillSane DEF Still
  <2> QED
    BY <2>1, <2>3, <2>4, FailRetiredSane
<1> QED
  BY <1>2, <1>3

\* The retired worker has drained, and is to stop.
LEMMA ShutDownRetiredSane ==
  ASSUME NEW s, NEW O, NEW bad, Good(s, O), Sane(s, O), ~s.err, s.stage = "Operational",
         Occupied(s.sup.retired), s.sup.retired.lifecycle = "Draining",
         s.slot["retired"].pending = NoPending, s.slot["retired"].state # "Forced",
         NEW t, t = ShutDownRetired(s, bad)
  PROVE  Sane(t, O) /\ ~t.err
<1> DEFINE i == s.slot["retired"].id
           first == RetiredDrained(s.sup, i)
           d == Applied(s, first)
           second == RetiredSnapshotCaptured(d.sup, i)
           c == Applied(d, second)
<1>0. /\ s \in Masters /\ Matched(s) /\ Reaps(s) /\ Basic(s, O) /\ Oper(s, O) /\ s.sup \in Sups
      /\ Agree(s.sup) /\ i = s.sup.retired.instance_id
  BY SaneOper, MasterFields DEF Good, Net, Control, Matched, Roles
<1>1. ~s.deferred /\ s.sup.active.lifecycle = "Active"
  BY <1>0, PhaseFacts DEF Reaps, Agree
<1>2. /\ Accepts(first, first.sup) /\ SameIds(s.sup, first.sup)
      /\ first.sup.active = s.sup.active /\ first.sup.candidate = s.sup.candidate
      /\ first.sup.retired.lifecycle = "Snapshotting"
  BY <1>0, DrainedAnswer
<1>3. t = Try(d, TerminateRetired(c, bad))
  BY DEF ShutDownRetired
<1> HIDE DEF first
<1>4. /\ Good(d, O) /\ d \in Masters /\ d.stage = "Operational" /\ d.sup = first.sup
      /\ d.slot = s.slot /\ d.proc = s.proc /\ d.err = FALSE /\ Steers(s, d)
  BY <1>1, <1>2, SteeredGood
<1> HIDE DEF d
<1>5. /\ d.sup \in Sups /\ Agree(d.sup) /\ Occupied(d.sup.retired) /\ i = d.sup.retired.instance_id
      /\ ~d.deferred
  BY <1>0, <1>1, <1>2, <1>4 DEF Accepts, SameIds, Roles, Occupied, Steers
<1>6. /\ Accepts(second, second.sup) /\ SameIds(d.sup, second.sup)
      /\ second.sup.active = d.sup.active /\ second.sup.candidate = d.sup.candidate
      /\ second.sup.retired.lifecycle = "Stopping"
  BY <1>2, <1>4, <1>5, DrainedAnswer
<1> HIDE DEF second
<1>7. /\ Good(c, O) /\ c \in Masters /\ c.stage = "Operational" /\ c.sup = second.sup
      /\ c.slot = d.slot /\ c.proc = d.proc /\ c.err = FALSE /\ Steers(d, c)
  BY <1>1, <1>2, <1>4, <1>5, <1>6, SteeredGood
<1>8. t = TerminateRetired(c, bad)
  BY <1>3, <1>4 DEF Try
<1> HIDE DEF c
<1>9. Basic(d, O)
  BY <1>0, <1>4, SteersBasic
<1>10. Basic(c, O)
  BY <1>2, <1>4, <1>7, <1>9, SteersBasic
<1>11. /\ c.slot = s.slot /\ c.proc = s.proc /\ c.sup.active = s.sup.active
       /\ c.sup.candidate = s.sup.candidate /\ c.sup.retired.lifecycle = "Stopping"
       /\ Occupied(c.sup.retired)
  BY <1>2, <1>4, <1>5, <1>6, <1>7 DEF SameIds, Roles, Occupied
<1>12. Oper(c, O)
  <2>1. Leads(c.sup, c.slot["active"], c.proc[c.slot["active"].id])
    BY <1>0, <1>11 DEF Oper, Leads
  <2>2. Retires(c.sup.retired, c.slot["retired"])
    BY <1>11 DEF Retires
  <2> QED
    BY <1>0, <1>11, <2>1, <2>2 DEF Oper
<1> QED
  BY <1>7, <1>8, <1>10, <1>11, <1>12, TerminateRetiredSane

---------------------------------------------------------------------------
(* What is asked for and how it is answered *)

\* A request, a deadline or the state of a channel is forgotten.
Edits(s, t, role) ==
    /\ t \in Masters /\ t.stage = s.stage /\ t.sup = s.sup /\ t.proc = s.proc /\ t.err = s.err
    /\ \A b \in Roles \ {role} : t.slot[b] = s.slot[b]
    /\ t.slot[role].id = s.slot[role].id /\ t.slot[role].state = s.slot[role].state
    /\ t.slot[role].pending \in {s.slot[role].pending, NoPending}
    /\ t.slot[role].deadline => s.slot[role].deadline

LEMMA EditsSane ==
  ASSUME NEW s, NEW O, NEW role \in Roles, Present(s, role), Sane(s, O), NEW t, Edits(s, t, role)
  PROVE  Sane(t, O) /\ Present(t, role)
<1>0. /\ t.stage = s.stage /\ t.sup = s.sup /\ t.proc = s.proc /\ Basic(s, O)
      /\ \A b \in Roles : /\ t.slot[b].id = s.slot[b].id /\ t.slot[b].state = s.slot[b].state
                          /\ t.slot[b].pending \in {s.slot[b].pending, NoPending}
                          /\ t.slot[b].deadline => s.slot[b].deadline
  BY DEF Edits, Sane
<1>1. \A b \in Roles : Tidy(t.slot[b])
  <2>1. Tidy(t.slot[role])
    BY <1>0 DEF Present, Basic, Tidy
  <2> QED
    BY <1>0, <2>1 DEF Edits, Basic
<1>2. Basic(t, O)
  BY <1>0, <1>1 DEF Basic, Timed, Truthful
<1>3. s.stage \in Starting => Boots(t.stage, t.slot["active"], t.proc[t.slot["active"].id])
  BY <1>0, RoleNames DEF Sane, Boots
<1>4. s.stage = "Operational" => Oper(t, O)
  <2> SUFFICES ASSUME s.stage = "Operational" PROVE Oper(t, O)
    OBVIOUS
  <2>1. Oper(s, O)
    BY DEF Sane
  <2>2. Leads(t.sup, t.slot["active"], t.proc[t.slot["active"].id])
    BY <1>0, <2>1, RoleNames DEF Oper, Leads
  <2>3. Heeds(t.sup.active.lifecycle, t.slot["active"], t.proc[t.slot["active"].id], O)
    <3>1. \/ t.slot["active"].pending = s.slot["active"].pending
          \/ t.slot["active"].pending.phase # "Reactivate"
      BY <1>0, RoleNames DEF NoPending
    <3> QED
      BY <1>0, <2>1, <3>1, RoleNames DEF Oper, Heeds
  <2>4. Tries(t.sup.candidate, t.slot["candidate"], t.proc[t.slot["candidate"].id])
    BY <1>0, <2>1, RoleNames DEF Oper, Tries
  <2>5. Retires(t.sup.retired, t.slot["retired"])
    BY <1>0, <2>1, RoleNames DEF Oper, Retires
  <2> QED
    BY <2>2, <2>3, <2>4, <2>5 DEF Oper
<1>5. /\ s.stage = "Failing" => \A b \in Roles : Present(t, b) => t.slot[b].state = "Forced"
      /\ s.stage \in {"Stopped", "Failed"} => \A b \in Roles : ~Present(t, b)
      /\ s.stage \in {"Failing", "Failed"} => Blamed(t.sup)
      /\ s.stage = "ShuttingDown" =>
            \A b \in Roles : t.slot[b].pending # NoPending => t.slot[b].pending.phase = "Shutdown"
  BY <1>0 DEF Sane, Present
<1> QED
  BY <1>0, <1>2, <1>3, <1>4, <1>5 DEF Sane, Present

\* The pending request of a role is answered, or given up.
LEMMA ClearEdits ==
  ASSUME NEW s \in Masters, NEW role \in Roles, NEW t, t = [s EXCEPT !.slot[role].pending = NoPending]
  PROVE  Edits(s, t, role) /\ Keeps(s, t) /\ t.slot[role].pending = NoPending
<1> DEFINE u == [s EXCEPT !.slot[role].pending = NoPending]
           w == [s.slot[role] EXCEPT !.pending = NoPending]
<1>0. s.slot[role] \in SlotRecords /\ s.slot \in [Roles -> SlotRecords]
  BY MasterFields
<1>1. w \in SlotRecords /\ w.id = s.slot[role].id /\ w.pending = NoPending
      /\ w.state = s.slot[role].state /\ w.deadline = s.slot[role].deadline
  BY <1>0 DEF SlotRecords, NoPending, Requests, Phases
<1>2. Upd(s, u, {"slot"}) /\ u.slot = [s.slot EXCEPT ![role] = w]
  BY MasterFields DEF Upd, IsRecord, Fields
<1>a. Keeps(s, u)
  BY AnsweredKeeps
<1> HIDE DEF u, w
<1>3. Keeps(s, u) /\ u.slot[role] = w
  BY <1>0, <1>a, <1>2
<1>4. u.stage = s.stage /\ u.sup = s.sup /\ u.proc = s.proc /\ u.err = s.err
  BY <1>2 DEF Upd, Fields
<1>5. \A b \in Roles \ {role} : u.slot[b] = s.slot[b]
  BY <1>0, <1>2
<1> QED
  BY <1>1, <1>3, <1>4, <1>5 DEF Edits, Keeps, u

\* What the master waits for when phase is pending in a role.
Due(s, role, phase) ==
    \/ s.stage = "BootAdopting" /\ role = "active" /\ phase = "AdoptListeners"
    \/ s.stage = "BootActivating" /\ role = "active" /\ phase = "Activate"
    \/ /\ s.stage = "Operational"
       /\ \/ /\ role = "active" /\ phase = "Quiesce"
             /\ Occupied(s.sup.candidate) /\ s.sup.candidate.lifecycle = "Ready"
          \/ role = "active" /\ phase = "Reactivate" /\ s.sup.active.lifecycle = "Reactivating"
          \/ /\ role = "candidate" /\ phase = "AdoptListeners"
             /\ Occupied(s.sup.candidate) /\ s.sup.candidate.lifecycle = "Preparing"
          \/ /\ role = "candidate" /\ phase = "Activate"
             /\ Occupied(s.sup.candidate) /\ s.sup.candidate.lifecycle = "Activating"
          \/ /\ role = "retired" /\ phase = "Drain"
             /\ Occupied(s.sup.retired) /\ s.sup.retired.lifecycle = "Draining"
          \/ /\ role = "retired" /\ phase = "Shutdown"
             /\ Occupied(s.sup.retired) /\ s.sup.retired.lifecycle = "Stopping"
    \/ s.stage = "ShuttingDown" /\ phase = "Shutdown"

LEMMA PendingDue ==
  ASSUME NEW s, NEW O, NEW role \in Roles, Good(s, O), Sane(s, O), Present(s, role),
         s.slot[role].pending # NoPending
  PROVE  Due(s, role, s.slot[role].pending.phase) /\ s.slot[role].state # "Forced"
<1>0. s \in Masters /\ Matched(s) /\ BootAlone(s) /\ Basic(s, O) /\ s.stage \in Stages
  BY MasterFields DEF Good, Net, Control, Sane
<1>1. s.slot[role].state # "Forced"
  BY <1>0 DEF Basic, Tidy
<1>2. CASE s.stage \in Starting
  <2>1. role = "active"
    BY <1>0, <1>2 DEF BootAlone, Starting, Present, Roles
  <2> QED
    BY <1>1, <1>2, <2>1 DEF Sane, Boots, Due, Starting
<1>3. CASE s.stage = "Operational"
  <2>1. /\ role = "candidate" => Occupied(s.sup.candidate)
        /\ role = "retired" => Occupied(s.sup.retired)
    BY <1>0, <1>3 DEF Matched, Present, Occupied, Roles
  <2>2. Oper(s, O)
    BY <1>3 DEF Sane
  <2>3. CASE role = "active"
    BY <1>1, <1>3, <2>2, <2>3 DEF Oper, Leads, Due
  <2>4. CASE role = "candidate"
    BY <1>1, <1>3, <2>1, <2>2, <2>4 DEF Oper, Tries, Due
  <2>5. CASE role = "retired"
    BY <1>1, <1>3, <2>1, <2>2, <2>5 DEF Oper, Retires, Due
  <2> QED
    BY <2>3, <2>4, <2>5 DEF Roles
<1>4. CASE s.stage = "ShuttingDown"
  BY <1>1, <1>4 DEF Sane, Due
<1>5. s.stage \notin {"Failing", "Stopped", "Failed"}
  BY <1>1 DEF Sane
<1> QED
  BY <1>0, <1>2, <1>3, <1>4, <1>5 DEF Stages, Starting

LEMMA HandlePhaseSuccessSane ==
  ASSUME NEW s, NEW O, NEW bad, NEW f, NEW role \in Roles, Good(s, O), Sane(s, O), ~s.err,
         Present(s, role), Answered(s.proc[s.slot[role].id], f), f.ok, Says(s.proc[s.slot[role].id], f),
         s.slot[role].pending = NoPending, s.slot[role].state # "Forced", Due(s, role, f.phase),
         Calm => bad = {}, NEW t, t = HandlePhaseSuccess(s, role, f.phase, bad)
  PROVE  Sane(t, O) /\ ~t.err
<1> DEFINE now == PhaseOf(s)
<1>0. Matched(s)
  BY DEF Good, Control
<1>1. CASE s.stage = "BootAdopting" /\ role = "active" /\ f.phase = "AdoptListeners"
  <2>1. t = IssueOrCompensate([s EXCEPT !.stage = "BootActivating"], "active", "Activate", bad)
    BY <1>1 DEF HandlePhaseSuccess
  <2>2. s.proc[s.slot["active"].id].startup # "fresh"
    BY <1>1 DEF Says
  <2> QED
    BY <1>1, <2>1, <2>2, BootAdoptedSane
<1>2. CASE s.stage = "BootActivating" /\ role = "active" /\ f.phase = "Activate"
  <2>1. t = [s EXCEPT !.stage = "Operational",
                      !.sup = NewSupervisor(s.slot["active"].id, s.slot["active"].id)]
    BY <1>2 DEF HandlePhaseSuccess
  <2>2. s.proc[s.slot["active"].id].startup = "done"
    BY <1>2 DEF Says
  <2> QED
    BY <1>2, <2>1, <2>2, BootActivatedSane
<1>3. CASE /\ s.stage = "Operational" /\ role = "candidate" /\ f.phase = "AdoptListeners"
           /\ Occupied(s.sup.candidate) /\ s.sup.candidate.lifecycle = "Preparing"
  <2>0. now = "AdoptingCandidate"
    BY <1>0, <1>3, PhaseNames
  <2>1. t = ThenIssue(Applied(s, CandidatePrepared(s.sup, s.slot["candidate"].id)),
                      "active", "Quiesce", bad)
    BY <1>3, <2>0 DEF HandlePhaseSuccess
  <2>2. s.proc[s.slot["candidate"].id].startup # "fresh"
    BY <1>3 DEF Says
  <2> QED
    BY <1>3, <2>1, <2>2, PreparedSane
<1>4. CASE /\ s.stage = "Operational" /\ role = "active" /\ f.phase = "Quiesce"
           /\ Occupied(s.sup.candidate) /\ s.sup.candidate.lifecycle = "Ready"
  <2>0. now = "Quiescing"
    BY <1>0, <1>4, PhaseNames
  <2>1. t = ThenIssue(Applied(s, ActiveQuiesced(s.sup, s.slot["active"].id)),
                      "candidate", "Activate", bad)
    BY <1>4, <2>0 DEF HandlePhaseSuccess
  <2> QED
    BY <1>4, <2>1, QuiescedSane
<1>5. CASE /\ s.stage = "Operational" /\ role = "candidate" /\ f.phase = "Activate"
           /\ Occupied(s.sup.candidate) /\ s.sup.candidate.lifecycle = "Activating"
  <2>0. now = "ActivatingCandidate"
    BY <1>0, <1>5, PhaseNames
  <2>1. t = CommitCandidate(s, bad)
    BY <1>5, <2>0 DEF HandlePhaseSuccess
  <2>2. s.proc[s.slot["candidate"].id].startup = "done"
    BY <1>5 DEF Says
  <2> QED
    BY <1>5, <2>1, <2>2, CommitSane
<1>6. CASE /\ s.stage = "Operational" /\ role = "active" /\ f.phase = "Reactivate"
           /\ s.sup.active.lifecycle = "Reactivating"
  <2>0. now = "RollingBack"
    BY <1>0, <1>6, PhaseNames
  <2>1. t = MaybeFinishRollback(Applied(s, ActiveReactivated(s.sup, s.slot["active"].id)))
    BY <1>6, <2>0 DEF HandlePhaseSuccess
  <2> QED
    BY <1>6, <2>1, ReactivatedSane
<1>7. CASE /\ s.stage = "Operational" /\ role = "retired" /\ f.phase = "Drain"
           /\ Occupied(s.sup.retired) /\ s.sup.retired.lifecycle = "Draining"
  <2>0. now = "DrainingRetired"
    BY <1>0, <1>7, PhaseNames
  <2>1. t = ShutDownRetired(s, bad)
    BY <1>7, <2>0 DEF HandlePhaseSuccess
  <2> QED
    BY <1>7, <2>1, ShutDownRetiredSane
<1>8. CASE /\ s.stage = "Operational" /\ role = "retired" /\ f.phase = "Shutdown"
           /\ Occupied(s.sup.retired) /\ s.sup.retired.lifecycle = "Stopping"
  <2>0. now = "StoppingRetired"
    BY <1>0, <1>8, PhaseNames
  <2>1. t = s
    BY <1>8, <2>0 DEF HandlePhaseSuccess
  <2> QED
    BY <2>1
<1>9. CASE s.stage = "ShuttingDown" /\ f.phase = "Shutdown"
  <2>1. t = s
    BY <1>9 DEF HandlePhaseSuccess
  <2> QED
    BY <2>1
<1> QED
  BY <1>1, <1>2, <1>3, <1>4, <1>5, <1>6, <1>7, <1>8, <1>9 DEF Due

\* The failure of a phase that was asked for can be made good, unless it is the
\* reopening of the active worker's gate.
LEMMA DueRepairs ==
  ASSUME NEW s, NEW role, NEW phase, Matched(s), Due(s, role, phase),
         Calm /\ phase = "Reactivate" => s.slot["active"].id \in Faulty
  PROVE  Repairs(s, role)
<1> SUFFICES ASSUME Calm, s.stage = "Operational", s.slot["active"].id \notin Faulty
             PROVE  \/ role = "active" /\ PhaseOf(s) = "Quiescing"
                    \/ role = "candidate" /\ s.sup.candidate.lifecycle # "Stopping"
                    \/ role = "retired"
  BY DEF Repairs
<1> QED
  BY PhaseNames DEF Due

LEMMA HandleAckSane ==
  ASSUME NEW s, NEW O, NEW bad, NEW o \in O, NEW role \in Roles, Good(s, O), Sane(s, O), ~s.err,
         s.slot[role].id = o.id, o.kind = "Ack", Calm => bad = {},
         NEW t, t = HandleAck(s, role, o, bad)
  PROVE  Sane(t, O) /\ ~t.err
<1> DEFINE c == [s EXCEPT !.slot[role].pending = NoPending]
<1>0. s \in Masters /\ Seen(s, o) /\ Basic(s, O) /\ Matched(s)
  BY DEF Good, Net, Sane, Control
<1>1. CASE s.slot[role].pending # [req |-> o.req, phase |-> o.phase]
  BY <1>1 DEF HandleAck
<1>2. CASE s.slot[role].pending = [req |-> o.req, phase |-> o.phase]
  <2>1. o.id \in InstanceIds /\ Says(s.proc[o.id], o)
    BY <1>0 DEF Seen, Basic, Truthful, Reports
  <2>2. s.slot[role].pending.req = o.req /\ s.slot[role].pending.phase = o.phase
    BY <1>2
  <2>3. s.slot[role].pending # NoPending
    BY <2>1, <2>2 DEF Says, NoPending, ControlPhases
  <2>4. Present(s, role)
    BY <2>1, NoInstanceAssumption DEF Present
  <2>5. Due(s, role, o.phase) /\ s.slot[role].state # "Forced"
    BY <2>2, <2>3, <2>4, PendingDue
  <2>6. Edits(s, c, role) /\ Keeps(s, c) /\ c.slot[role].pending = NoPending
    BY <1>0, ClearEdits
  <2>7. t = IF o.ok THEN HandlePhaseSuccess(c, role, o.phase, bad)
            ELSE HandlePhaseFailure(c, role, bad)
    BY <1>2 DEF HandleAck
  <2> HIDE DEF c
  <2>8. Good(c, O) /\ Sane(c, O) /\ Present(c, role) /\ ~c.err
    BY <2>4, <2>6, KeepGood, EditsSane DEF Edits
  <2>9. /\ c.slot[role].id = o.id /\ c.proc = s.proc /\ c.slot[role].state # "Forced"
        /\ Due(c, role, o.phase) /\ c.slot["active"].id = s.slot["active"].id
    BY <2>5, <2>6, RoleNames DEF Edits, Due
  <2>10. CASE o.ok
    <3>1. Answered(c.proc[c.slot[role].id], o) /\ Says(c.proc[c.slot[role].id], o)
      BY <1>0, <2>1, <2>2, <2>3, <2>9 DEF Seen
    <3>2. t = HandlePhaseSuccess(c, role, o.phase, bad)
      BY <2>7, <2>10
    <3> QED
      BY <2>6, <2>8, <2>9, <2>10, <3>1, <3>2, HandlePhaseSuccessSane
  <2>11. CASE ~o.ok
    <3>1. Calm /\ o.phase = "Reactivate" => s.slot["active"].id \in Faulty
      <4> SUFFICES ASSUME Calm, o.phase = "Reactivate" PROVE s.slot["active"].id \in Faulty
        OBVIOUS
      <4>1. s.stage = "Operational" /\ role = "active"
        BY <2>5 DEF Due
      <4> QED
        BY <2>2, <2>11, <4>1 DEF Sane, Oper, Heeds
    <3>2. Matched(c) /\ (Calm /\ o.phase = "Reactivate" => c.slot["active"].id \in Faulty)
      BY <2>8, <2>9, <3>1 DEF Good, Control
    <3>3. Repairs(c, role)
      BY <2>9, <3>2, DueRepairs
    <3> QED
      BY <2>7, <2>8, <2>11, <3>3, HandlePhaseFailureSane
  <2> QED
    BY <2>10, <2>11
<1> QED
  BY <1>1, <1>2

---------------------------------------------------------------------------
(* Exits and closed channels *)

LEMMA HandleDisconnectSane ==
  ASSUME NEW s, NEW O, NEW bad, NEW role \in Roles, Good(s, O), Sane(s, O), ~s.err,
         Present(s, role), ~s.proc[s.slot[role].id].linked, Calm => bad = {},
         NEW t, t = HandleDisconnect(s, role, bad)
  PROVE  Sane(t, O) /\ ~t.err
<1>0. Matched(s)
  BY DEF Good, Control
<1>1. CASE s.slot[role].state # "Running"
  BY <1>1 DEF HandleDisconnect
<1>2. CASE s.slot[role].state = "Running"
  <2>1. t = HandlePhaseFailure(s, role, bad)
    BY <1>2 DEF HandleDisconnect
  <2>2. Repairs(s, role)
    <3> SUFFICES ASSUME s.stage = "Operational", s.slot["active"].id \notin Faulty
                 PROVE  \/ role = "candidate" /\ s.sup.candidate.lifecycle # "Stopping"
                        \/ role = "retired"
      BY DEF Repairs
    <3>1. Oper(s, O)
      BY DEF Sane
    <3>2. role # "active"
      BY <3>1 DEF Oper, Leads, Upright
    <3>3. role = "candidate" => Occupied(s.sup.candidate)
      BY <1>0 DEF Matched, Present, Occupied
    <3>4. role = "candidate" => s.sup.candidate.lifecycle # "Stopping"
      BY <1>2, <3>1, <3>3 DEF Oper, Tries
    <3> QED
      BY <3>2, <3>4 DEF Roles
  <2> QED
    BY <2>1, <2>2, HandlePhaseFailureSane
<1> QED
  BY <1>1, <1>2

\* An active worker that is gone is to blame.
LEMMA GoneFaulty ==
  ASSUME NEW s, NEW O, Good(s, O), Sane(s, O), s.stage = "Operational"
  PROVE  /\ s.proc[s.slot["active"].id].run = "gone" =>
               s.slot["active"].id \in Faulty /\ s.sup.active.instance_id \in Faulty
         /\ /\ Occupied(s.sup.candidate) /\ s.sup.candidate.lifecycle = "Activating"
            /\ s.proc[s.slot["candidate"].id].run = "gone"
            => s.slot["candidate"].id \in Faulty
<1>1. Oper(s, O) /\ Matched(s)
  BY DEF Sane, Good, Control
<1>2. s.slot["active"].id = s.sup.active.instance_id
  BY <1>1 DEF Matched, Roles
<1>3. s.proc[s.slot["active"].id].run = "gone" => s.slot["active"].id \in Faulty
  BY <1>1 DEF Oper, Leads, Upright
<1>4. /\ Occupied(s.sup.candidate) /\ s.sup.candidate.lifecycle = "Activating"
      /\ s.proc[s.slot["candidate"].id].run = "gone"
      => s.slot["candidate"].id \in Faulty
  BY <1>1 DEF Oper, Tries, Hired, Upright
<1> QED
  BY <1>2, <1>3, <1>4

\* A worker that is gone is forgotten, and the master fails closed.
LEMMA TakenFailsSane ==
  ASSUME NEW s, NEW O, NEW role \in Roles, Good(s, O), Sane(s, O), ~s.err,
         s.slot[role].id \in InstanceIds, s.proc[s.slot[role].id].run = "gone",
         s.stage \notin {"Failing", "ShuttingDown"}, Blamed(s.sup),
         NEW k, k = TakeWorker(s, role), NEW t, t = FailMaster(k)
  PROVE  Sane(t, O) /\ ~t.err
<1>0. s \in Masters /\ Net(s, O) /\ Basic(s, O)
  BY DEF Good, Net, Sane
<1>1. Takes(s, k, role) /\ k.slot[role] = NoSlot
  BY <1>0, TakeSlot
<1>2. Net(k, O) /\ Basic(k, O)
  BY <1>0, <1>1, TakeNet, TakesBasic
<1>3. s.stage # "Failed"
  BY NoInstanceAssumption DEF Sane, Present
<1>4. k.stage \notin {"ShuttingDown", "Failed"} /\ Blamed(k.sup) /\ ~k.err
  BY <1>1, <1>3 DEF Takes
<1> QED
  BY <1>2, <1>4, FailMasterSane

\* A worker that is gone is forgotten by a master that ends.
LEMMA TakenSane ==
  ASSUME NEW s, NEW O, NEW role \in Roles, Good(s, O), Sane(s, O), ~s.err,
         s.stage \in {"Failing", "ShuttingDown"}, NEW k, k = TakeWorker(s, role)
  PROVE  Sane(k, O) /\ ~k.err
<1>0. s \in Masters /\ Basic(s, O)
  BY DEF Good, Net, Sane
<1>1. Takes(s, k, role) /\ k.slot[role] = NoSlot
  BY <1>0, TakeSlot
<1>2. Basic(k, O)
  BY <1>0, <1>1, TakesBasic
<1>3. k.stage = s.stage /\ k.sup = s.sup /\ ~k.err /\ ~Present(k, role)
      /\ k.slot[role].pending = NoPending /\ \A b \in Roles \ {role} : k.slot[b] = s.slot[b]
  BY <1>1, NoSlotType DEF Takes, Present
<1>4. s.stage = "Failing" => \A b \in Roles : Present(k, b) => k.slot[b].state = "Forced"
  BY <1>3 DEF Sane, Present
<1>5. s.stage = "ShuttingDown" =>
         \A b \in Roles : k.slot[b].pending # NoPending => k.slot[b].pending.phase = "Shutdown"
  BY <1>3 DEF Sane
<1> QED
  BY <1>2, <1>3, <1>4, <1>5 DEF Sane, Starting

\* A candidate that ends while it starts is rolled back.
LEMMA CandidateExitSane ==
  ASSUME NEW s, NEW O, NEW bad, Good(s, O), Sane(s, O), ~s.err, s.stage = "Operational",
         PhaseOf(s) \in {"AdoptingCandidate", "Quiescing", "ActivatingCandidate"},
         NEW i \in InstanceIds, i = s.slot["candidate"].id, s.proc[i].run = "gone",
         Calm => bad = {}, NEW b, b = BeginRollback(s, bad), NEW t, t = CandidateGone(b, i)
  PROVE  Sane(t, O) /\ (t.err => ~Lone)
<1>0. Matched(s) /\ Reaps(s) /\ Net(s, O) /\ Distinct(s)
  BY DEF Good, Control, Net
<1>1. Occupied(s.sup.candidate) /\ s.sup.candidate.lifecycle # "Stopping"
  BY <1>0, PhaseFacts
<1>2. s.sup.candidate.instance_id = i
  BY <1>0 DEF Matched, Roles
<1>3. /\ Sane(b, O) /\ ~b.err /\ b.sup # NoSupervisor
      /\ s.deferred \/ (/\ b.sup.candidate.lifecycle = "Stopping"
                        /\ b.sup.candidate.instance_id = s.sup.candidate.instance_id)
      /\ b.stage \in {"Operational", "Failing"}
      /\ s.deferred => b.stage = "Failing"
  BY <1>1, BeginRollbackSane
<1>4. Good(b, O) /\ StayGone(s, b) /\ b.slot["candidate"].id = s.slot["candidate"].id
  BY BeginRollbackGood
<1>5. Net(b, O) /\ Matched(b) /\ b.proc[i].run = "gone" /\ b.slot["candidate"].id = i
  BY <1>4 DEF Good, Control, StayGone
<1>6. ~s.deferred => InState(b.sup, "candidate", i, "Stopping")
  BY <1>1, <1>2, <1>3 DEF InState, Holds, Occupied
<1>7. b.stage = "Operational" => InState(b.sup, "candidate", i, "Stopping")
  BY <1>3, <1>6
<1>8. Sane(t, O) /\ (~s.deferred => ~t.err)
  BY <1>3, <1>5, <1>6, <1>7, CandidateGoneSane
<1>9. s.deferred => ~Lone
  <2> SUFFICES ASSUME s.deferred PROVE ~Lone
    OBVIOUS
  <2>1. /\ s.sup.candidate.lifecycle = "Activating" /\ s.slot["active"].id \in InstanceIds
        /\ s.proc[s.slot["active"].id].run = "gone"
    BY <1>0, PhaseFacts DEF Reaps
  <2>2. s.slot["active"].id \in Faulty /\ s.slot["candidate"].id \in Faulty
    BY <1>1, <2>1, GoneFaulty
  <2>3. s.slot["active"].id # s.slot["candidate"].id
    BY <1>0, <2>1, RoleNames, NoInstanceAssumption DEF Distinct
  <2> QED
    BY <2>2, <2>3 DEF Lone
<1> QED
  BY <1>8, <1>9

LEMMA HandleExitSane ==
  ASSUME NEW s, NEW O, NEW bad, NEW role \in Roles, Good(s, O), Sane(s, O), ~s.err,
         s.slot[role].id \in InstanceIds, s.proc[s.slot[role].id].run = "gone",
         Calm => bad = {}, NEW t, t = HandleExit(s, role, bad)
  PROVE  Sane(t, O) /\ (t.err => ~Lone)
<1> DEFINE i == s.slot[role].id
           now == PhaseOf(s)
           k == TakeWorker(s, role)
           At(r, phases) == s.stage = "Operational" /\ role = r /\ now \in phases
           starting == {"AdoptingCandidate", "Quiescing", "ActivatingCandidate"}
<1>0. s \in Masters /\ Matched(s) /\ BootAlone(s)
  BY DEF Good, Net, Control
<1>p. Present(s, role)
  BY <1>0, RoleIds
<1>1. CASE now = "ActivatingCandidate" /\ role = "active"
  <2> DEFINE u == [s EXCEPT !.deferred = TRUE]
  <2>1. t = u
    BY <1>1 DEF HandleExit
  <2>2. Upd(s, u, {"deferred"})
    BY <1>0, MasterFields DEF Upd, IsRecord, Fields
  <2> HIDE DEF u
  <2>3. Still(s, u)
    BY <2>2, UpdStill
  <2>4. ~u.err
    BY <2>2 DEF Upd, Fields
  <2> QED
    BY <2>1, <2>3, <2>4, StillSane
<1>2. CASE ~(now = "ActivatingCandidate" /\ role = "active")
  <2>k. \/ t = k /\ s.stage \in {"Failing", "ShuttingDown"}
        \/ At("candidate", {"RollingBack"}) /\ t = CandidateGone(s, i)
        \/ At("retired", {"StoppingRetired"}) /\ t = RetiredGone(s, i, s.failure)
        \/ At("candidate", starting) /\ t = CandidateGone(BeginRollback(s, bad), i)
        \/ At("retired", {"DrainingRetired"}) /\ t = RetiredGone(FailRetired(s), i, TRUE)
        \/ /\ t = FailMaster(k) /\ s.stage \notin {"Failing", "ShuttingDown"}
           /\ ~At("candidate", {"RollingBack"} \cup starting)
           /\ ~At("retired", {"DrainingRetired", "StoppingRetired"})
    BY <1>2 DEF HandleExit
  <2>4. CASE t = k /\ s.stage \in {"Failing", "ShuttingDown"}
    <3> HIDE DEF k
    <3>1. k = TakeWorker(s, role)
      BY DEF k
    <3> QED
      BY <2>4, <3>1, TakenSane
  <2>5. CASE /\ t = FailMaster(k) /\ s.stage \notin {"Failing", "ShuttingDown"}
             /\ ~At("candidate", {"RollingBack"} \cup starting)
             /\ ~At("retired", {"DrainingRetired", "StoppingRetired"})
    <3>1. s.stage \notin {"Stopped", "Failed"} /\ s.stage \in Stages
      BY <1>0, <1>p, MasterFields DEF Sane
    <3>2. Blamed(s.sup)
      <4>1. CASE s.stage = "Operational"
        <5>1. /\ role = "candidate" => Occupied(s.sup.candidate)
              /\ role = "retired" => Occupied(s.sup.retired)
          BY <1>0, <1>p, <4>1 DEF Matched, Present, Occupied
        <5>2. role \notin {"candidate", "retired"}
          BY <1>0, <2>5, <4>1, <5>1, PhaseNames
        <5>3. role = "active"
          BY <5>2 DEF Roles
        <5>4. s.sup.active.instance_id \in Faulty
          BY <4>1, <5>3, GoneFaulty
        <5> QED
          BY <5>4 DEF Blamed
      <4>2. CASE s.stage # "Operational"
        BY <1>0, <2>5, <3>1, <4>2 DEF Stages, BootAlone, Blamed
      <4> QED
        BY <4>1, <4>2
    <3> HIDE DEF k
    <3>3. k = TakeWorker(s, role)
      BY DEF k
    <3> QED
      BY <2>5, <3>2, <3>3, TakenFailsSane
  <2>6. CASE At("candidate", {"RollingBack"}) /\ t = CandidateGone(s, i)
    <3>1. Occupied(s.sup.candidate) /\ s.sup.candidate.instance_id = i
      BY <1>0, <1>p, <2>6 DEF Matched, Present, Occupied
    <3>2. s.sup.candidate.lifecycle = "Stopping"
      BY <1>0, <2>6, <3>1, PhaseFacts
    <3>3. InState(s.sup, "candidate", i, "Stopping")
      BY <3>1, <3>2 DEF InState, Holds, Occupied
    <3>4. s.sup # NoSupervisor /\ Net(s, O)
      BY <3>1, VacantFacts DEF NoSupervisor, Good
    <3> HIDE DEF i
    <3>5. i \in InstanceIds /\ s.slot["candidate"].id = i /\ s.proc[i].run = "gone"
      BY <2>6 DEF i
    <3> QED
      BY <1>0, <2>6, <3>3, <3>4, <3>5, CandidateGoneSane
  <2>7. CASE At("retired", {"StoppingRetired"}) /\ t = RetiredGone(s, i, s.failure)
    <3>1. s.failure \in BOOLEAN
      BY <1>0, MasterFields
    <3>2. s.sup.retired.lifecycle = "Stopping"
      BY <1>0, <2>7, PhaseFacts
    <3> QED
      BY <2>7, <3>1, <3>2, RetiredGoneSane
  <2>8. CASE At("candidate", starting) /\ t = CandidateGone(BeginRollback(s, bad), i)
    <3> DEFINE b == BeginRollback(s, bad)
    <3>1. b = BeginRollback(s, bad) /\ t = CandidateGone(b, i)
      BY <2>8
    <3> HIDE DEF b
    <3> QED
      BY <2>8, <3>1, CandidateExitSane
  <2>9. CASE At("retired", {"DrainingRetired"}) /\ t = RetiredGone(FailRetired(s), i, TRUE)
    <3> DEFINE b == FailRetired(s)
               on == TRUE
    <3>0. b = FailRetired(s) /\ t = RetiredGone(b, i, on)
      BY <2>9
    <3>1. /\ Good(b, O) /\ b.stage = "Operational"
          /\ b.slot["retired"].id = s.slot["retired"].id
      BY <2>9, FailRetiredGood
    <3>o. on \in BOOLEAN /\ on = TRUE
      OBVIOUS
    <3> HIDE DEF b, on
    <3>2. Occupied(s.sup.retired)
      BY <1>0, <2>9, PhaseFacts
    <3>3. /\ Sane(b, O) /\ ~b.err /\ b.failure = TRUE /\ b.sup.retired.lifecycle = "Stopping"
      BY <2>9, <3>0, <3>2, FailRetiredSane
    <3>4. b.slot["retired"].id = i
      BY <2>9, <3>1
    <3> QED
      BY <3>0, <3>o, <3>1, <3>3, <3>4, RetiredGoneSane
  <2> QED
    BY <2>k, <2>4, <2>5, <2>6, <2>7, <2>8, <2>9
<1> QED
  BY <1>1, <1>2

LEMMA HandleSane ==
  ASSUME NEW s, NEW O, NEW bad, NEW o \in O, Good(s, O), Sane(s, O), s.err => ~Lone,
         Calm => bad = {}, NEW t, t = Handle(s, o, bad)
  PROVE  Sane(t, O) /\ (t.err => ~Lone)
<1> DEFINE role == RoleFor(s, o.id)
<1>0. s \in Masters /\ Seen(s, o) /\ o.kind \in Kinds
  BY DEF Good, Net, Seen, Observations
<1>1. CASE o.kind = "Nothing" \/ role = "None" \/ s.err
  BY <1>1 DEF Handle
<1>2. CASE ~(o.kind = "Nothing" \/ role = "None" \/ s.err)
  <2>1. role \in Roles /\ s.slot[role].id = o.id
    BY <1>2 DEF RoleFor, Roles
  <2>2. o.id \in InstanceIds /\ Reports(s.proc[o.id], o)
    BY <1>0, <1>2 DEF Seen, Sane, Basic, Truthful
  <2>3. \/ o.kind = "Ack" /\ t = HandleAck(s, role, o, bad)
        \/ o.kind = "Exit" /\ t = HandleExit(s, role, bad)
        \/ o.kind = "Disconnected" /\ t = HandleDisconnect(s, role, bad)
        \/ o.kind = "Bad" /\ t = HandlePhaseFailure(s, role, bad)
    BY <1>0, <1>2 DEF Handle, Kinds
  <2>s. ~s.err
    BY <1>2
  <2> HIDE DEF role
  <2>p. Present(s, role)
    BY <1>0, <2>1, <2>2, RoleIds
  <2>4. CASE o.kind = "Ack" /\ t = HandleAck(s, role, o, bad)
    BY <2>1, <2>4, <2>s, HandleAckSane
  <2>5. CASE o.kind = "Exit" /\ t = HandleExit(s, role, bad)
    <3>1. s.proc[s.slot[role].id].run = "gone"
      BY <1>0, <2>1, <2>5 DEF Seen
    <3> QED
      BY <2>1, <2>2, <2>5, <2>s, <3>1, HandleExitSane
  <2>6. CASE o.kind = "Disconnected" /\ t = HandleDisconnect(s, role, bad)
    <3>1. ~s.proc[s.slot[role].id].linked
      BY <2>1, <2>2, <2>6 DEF Reports
    <3> QED
      BY <2>1, <2>6, <2>p, <2>s, <3>1, HandleDisconnectSane
  <2>7. CASE o.kind = "Bad" /\ t = HandlePhaseFailure(s, role, bad)
    <3>1. Repairs(s, role)
      BY <2>2, <2>7 DEF Reports, Repairs
    <3> QED
      BY <2>1, <2>7, <2>p, <2>s, <3>1, HandlePhaseFailureSane
  <2> QED
    BY <2>3, <2>4, <2>5, <2>6, <2>7
<1> QED
  BY <1>1, <1>2

---------------------------------------------------------------------------
(* Deadlines *)

\* The retired worker is killed: nobody else is concerned.
LEMMA RetiredForcedSane ==
  ASSUME NEW s, NEW O, Good(s, O), Sane(s, O), Present(s, "retired"),
         s.stage \in {"Operational", "Failing"}, NEW t, Forces(s, t, "retired")
  PROVE  Sane(t, O)
<1>0. s \in Masters /\ Net(s, O) /\ Matched(s) /\ Distinct(s) /\ Basic(s, O)
  BY DEF Good, Net, Control, Sane
<1>1. Basic(t, O)
  BY <1>0, RoleNames, ForcesBasic
<1>2. /\ t.slot["active"] = s.slot["active"] /\ t.slot["candidate"] = s.slot["candidate"]
      /\ t.slot["retired"].state = "Forced" /\ t.slot["retired"].id = s.slot["retired"].id
      /\ t.sup = s.sup /\ t.stage = s.stage
  BY DEF Forces, Roles
<1>3. CASE s.stage = "Operational"
  <2>0. Oper(s, O) /\ s.slot["active"].id \in InstanceIds
    BY <1>0, <1>3, SaneOper, ActivePresent
  <2>1. ~Occupied(s.sup.candidate)
    BY <1>0, <1>3, RoleNames DEF Matched, Agree, Present, Occupied
  <2>2. t.proc[t.slot["active"].id] = s.proc[s.slot["active"].id]
    <3>1. s.slot["active"].id # s.slot["retired"].id
      BY <1>0, <2>0, RoleNames, NoInstanceAssumption DEF Distinct
    <3> QED
      BY <1>2, <2>0, <3>1 DEF Forces
  <2>3. /\ Leads(t.sup, t.slot["active"], t.proc[t.slot["active"].id])
        /\ Heeds(t.sup.active.lifecycle, t.slot["active"], t.proc[t.slot["active"].id], O)
    BY <1>2, <2>0, <2>2 DEF Oper
  <2>4. Tries(t.sup.candidate, t.slot["candidate"], t.proc[t.slot["candidate"].id])
    BY <1>2, <2>1 DEF Tries
  <2>5. Retires(t.sup.retired, t.slot["retired"])
    BY <1>1, <1>2, RoleNames DEF Retires, Basic, Tidy
  <2>6. Oper(t, O)
    BY <2>3, <2>4, <2>5 DEF Oper
  <2> QED
    BY <1>1, <1>2, <1>3, <2>6, OperSane
<1>4. CASE s.stage = "Failing"
  <2>1. \A b \in Roles : Present(t, b) => t.slot[b].state = "Forced"
    BY <1>2, <1>4 DEF Sane, Present, Roles
  <2>2. Blamed(t.sup)
    BY <1>2, <1>4 DEF Sane
  <2> QED
    BY <1>1, <1>2, <1>4, <2>1, <2>2 DEF Sane, Starting
<1> QED
  BY <1>3, <1>4

\* The deadline of the shutdown kills every worker.
LEMMA AllForcedSane ==
  ASSUME NEW s, NEW O, Net(s, O), Sane(s, O), ~s.err, s.stage = "ShuttingDown",
         NEW t, t = ForceAll(s)
  PROVE  Sane(t, O) /\ ~t.err
<1>0. s \in Masters /\ Basic(s, O)
  BY DEF Net, Sane
<1>1. Razes(s, t)
  BY <1>0, ForceAllFacts
<1>2. t.stage = "ShuttingDown" /\ ~t.err /\ \A b \in Roles : Tidy(t.slot[b])
  BY <1>0, <1>1 DEF Razes, Basic
<1>3. Truthful(t, O)
  BY <1>0, <1>1, MuteTruthful DEF Razes, Basic, Net
<1>4. ASSUME NEW b \in Roles PROVE t.slot[b].pending = NoPending
  <2>1. Tidy(t.slot[b]) /\ t.slot[b].id = s.slot[b].id
        /\ (Present(s, b) => t.slot[b].state = "Forced")
    BY <1>1, <1>2 DEF Razes
  <2> QED
    BY <2>1, NoSlotType DEF Tidy, Present
<1> QED
  BY <1>2, <1>3, <1>4 DEF Sane, Basic, Timed, Starting

\* The deadline of the retired worker's exit is acted on.
LEMMA OverdueEdits ==
  ASSUME NEW s \in Masters
  PROVE  LET x == [s EXCEPT !.failure = TRUE, !.slot["retired"].deadline = FALSE]
         IN  Keeps(s, x) /\ Edits(s, x, "retired")
<1> DEFINE w == [s.slot["retired"] EXCEPT !.deadline = FALSE]
           f == [s EXCEPT !.failure = TRUE]
           x == [s EXCEPT !.failure = TRUE, !.slot["retired"].deadline = FALSE]
<1>0. s.slot["retired"] \in SlotRecords
  BY RoleNames, MasterFields
<1>1. Keeps(s, f) /\ Upd(s, f, {"failure"})
  BY FailureKeeps
<1>2. Upd(f, x, {"slot"}) /\ x.slot = [f.slot EXCEPT !["retired"] = w]
  BY MasterFields DEF Upd, IsRecord, Fields
<1>3. /\ w \in SlotRecords /\ w.id = s.slot["retired"].id /\ w.pending = s.slot["retired"].pending
      /\ w.state = s.slot["retired"].state
  BY <1>0 DEF SlotRecords
<1>d. w.deadline = FALSE
  BY <1>0 DEF SlotRecords
<1> HIDE DEF f, w, x
<1>4. f \in Masters /\ f.slot = s.slot /\ f.stage = s.stage /\ f.sup = s.sup /\ f.proc = s.proc
      /\ f.err = s.err
  BY <1>1 DEF Keeps, Upd, Fields
<1>5. /\ w.id = f.slot["retired"].id /\ w.state = f.slot["retired"].state
      /\ w.pending = f.slot["retired"].pending
  BY <1>3, <1>4
<1>a. Keeps(f, x)
  BY <1>2, <1>3, <1>4, <1>5, RoleNames, SlotUpdates
<1>6. Keeps(f, x) /\ x.slot["retired"] = w
  BY <1>a, <1>2, <1>4, RoleNames, MasterFields
<1>7. x \in Masters /\ Keeps(s, x)
  BY <1>1, <1>6, KeepsTwice DEF Keeps
<1>8. x.stage = s.stage /\ x.sup = s.sup /\ x.proc = s.proc /\ x.err = s.err
  BY <1>2, <1>4 DEF Upd, Fields
<1>9. \A b \in Roles \ {"retired"} : x.slot[b] = s.slot[b]
  BY <1>2, <1>4, MasterFields
<1>10. Edits(s, x, "retired")
  BY <1>3, <1>d, <1>6, <1>7, <1>8, <1>9 DEF Edits
<1> QED
  BY <1>7, <1>10 DEF x

\* The retired worker did not end in time.
LEMMA OverdueSane ==
  ASSUME NEW s, NEW O, Good(s, O), Sane(s, O), ~s.err, s.stage # "ShuttingDown",
         PhaseOf(s) = "StoppingRetired", s.slot["retired"].deadline,
         NEW x, x = [s EXCEPT !.failure = TRUE, !.slot["retired"].deadline = FALSE],
         NEW answer, answer = TerminationTimedOut(s.sup, s.slot["retired"].id),
         NEW t, t = ThenForce(Applied(x, answer), "retired")
  PROVE  Sane(t, O) /\ ~t.err
<1> DEFINE a == Applied(x, answer)
<1>0. /\ s \in Masters /\ s.sup \in Sups /\ s.stage \in Stages /\ s.slot["retired"] \in SlotRecords
      /\ Basic(s, O)
  BY RoleNames, MasterFields DEF Good, Net, Sane
<1>1. Present(s, "retired")
  BY <1>0, RoleNames, NoSlotTidy DEF Basic, Tidy, Present
<1>2. s.slot["retired"].id = s.sup.retired.instance_id /\ s.sup.retired.lifecycle = "Stopping"
  BY <1>0, RoleNames DEF Basic, Timed
<1>3. s.stage \in {"Operational", "Failing"}
  <2>1. s.sup # NoSupervisor
    BY DEF PhaseOf
  <2> QED
    BY <1>0, <1>1, <2>1, RoleNames DEF Sane, Stages, Good, Control, BootAlone
<1>8. Keeps(s, x) /\ x \in Masters /\ Edits(s, x, "retired")
  BY <1>0, OverdueEdits DEF Keeps
<1>9. Good(x, O)
  BY <1>8, KeepGood
<1>10. Edits(s, x, "retired")
  BY <1>8
<1>11. Sane(x, O) /\ Present(x, "retired")
  BY <1>1, <1>10, RoleNames, EditsSane
<1>12. Accepts(answer, s.sup) \/ (answer.sup = s.sup /\ answer.ok = TRUE)
  <2>1. InState(s.sup, "retired", s.slot["retired"].id, "Stopping")
    BY <1>1, <1>2 DEF InState, Holds, Present, Occupied
  <2> QED
    BY <2>1 DEF TerminationTimedOut, Accept
<1>13. Steers(x, a) /\ a.sup = s.sup /\ a.err = FALSE
  <2> DEFINE no == FALSE
  <2>1. answer.sup = s.sup /\ answer.ok = ~no /\ no \in BOOLEAN
    BY <1>12 DEF Accepts
  <2> HIDE DEF no
  <2>2. Steers(x, a) /\ a.sup = s.sup /\ a.err = no
    BY <1>0, <1>8, <2>1, AppliedSteers
  <2> QED
    BY <2>2 DEF no
<1> HIDE DEF a
<1>14. Still(x, a) /\ Good(a, O) /\ a \in Masters
  <2>1. a.sup = x.sup
    BY <1>10, <1>13 DEF Edits
  <2>2. Keeps(x, a)
    BY <1>8, <1>13, <2>1, SteersKeeps
  <2> QED
    BY <1>9, <1>13, <2>1, <2>2, KeepGood DEF Steers, Still
<1>15. Sane(a, O) /\ Present(a, "retired") /\ a.stage = s.stage
  BY <1>10, <1>11, <1>14, StillSane DEF Still, Present, Edits
<1>16. t = ForceRole(a, "retired")
  BY <1>13 DEF ThenForce, Try, a
<1>17. Forces(a, t, "retired")
  BY <1>14, <1>15, <1>16, RoleNames, ForceFacts
<1>18. ~t.err
  BY <1>13, <1>17 DEF Forces
<1> QED
  BY <1>3, <1>14, <1>15, <1>17, <1>18, RetiredForcedSane

\* A request that was not answered in time.
LEMMA ExpiredSane ==
  ASSUME NEW s, NEW O, NEW bad, NEW role \in Roles, Good(s, O), Sane(s, O), ~s.err,
         s.slot[role].pending # NoPending, Calm => bad = {},
         /\ Calm /\ s.stage = "Operational" /\ s.slot["active"].pending.phase = "Reactivate"
         => s.slot["active"].id \in Faulty,
         NEW c, c = [s EXCEPT !.slot[role].pending = NoPending],
         NEW t, t = HandlePhaseFailure(c, role, bad)
  PROVE  Sane(t, O) /\ ~t.err
<1> DEFINE phase == s.slot[role].pending.phase
<1>0. s \in Masters /\ Basic(s, O)
  BY DEF Good, Net, Sane
<1>1. Present(s, role)
  BY <1>0, NoSlotType DEF Basic, Tidy, Present
<1>2. Due(s, role, phase)
  BY <1>1, PendingDue
<1>3. Edits(s, c, role) /\ Keeps(s, c)
  BY <1>0, ClearEdits
<1>4. Good(c, O) /\ Sane(c, O) /\ Present(c, role) /\ ~c.err
  BY <1>1, <1>3, KeepGood, EditsSane DEF Edits
<1>5. Calm /\ phase = "Reactivate" => s.slot["active"].id \in Faulty
  BY <1>2 DEF Due
<1>6. /\ Due(c, role, phase) /\ c.slot["active"].id = s.slot["active"].id
  BY <1>2, <1>3, RoleNames DEF Edits, Due
<1> HIDE DEF phase
<1>7. Matched(c) /\ (Calm /\ phase = "Reactivate" => c.slot["active"].id \in Faulty)
  BY <1>4, <1>5, <1>6 DEF Good, Control
<1>8. Repairs(c, role)
  BY <1>6, <1>7, DueRepairs
<1> QED
  BY <1>4, <1>8, HandlePhaseFailureSane

LEMMA HandleTimeoutSane ==
  ASSUME NEW s, NEW O, NEW bad, NEW due, Good(s, O), Sane(s, O), ~s.err, Calm => bad = {},
         /\ due /\ Calm /\ s.stage = "Operational" /\ s.slot["active"].pending.phase = "Reactivate"
         => s.slot["active"].id \in Faulty,
         NEW t, t = HandleTimeout(s, due, bad)
  PROVE  Sane(t, O) /\ ~t.err
<1> DEFINE expired == {role \in Roles : s.slot[role].pending # NoPending}
           first == IF "active" \in expired THEN "active"
                    ELSE IF "candidate" \in expired THEN "candidate" ELSE "retired"
           g == [s EXCEPT !.forced = TRUE]
           x == [s EXCEPT !.failure = TRUE, !.slot["retired"].deadline = FALSE]
           answer == TerminationTimedOut(s.sup, s.slot["retired"].id)
           c == [s EXCEPT !.slot[first].pending = NoPending]
<1>0. s \in Masters
  BY DEF Good, Net
<1>1. \/ t = s
      \/ s.stage = "ShuttingDown" /\ t = ForceAll(g)
      \/ /\ s.stage # "ShuttingDown" /\ PhaseOf(s) = "StoppingRetired" /\ s.slot["retired"].deadline
         /\ t = ThenForce(Applied(x, answer), "retired")
      \/ due /\ expired # {} /\ t = HandlePhaseFailure(c, first, bad)
  BY DEF HandleTimeout
<1>2. CASE s.stage = "ShuttingDown" /\ t = ForceAll(g)
  <2>1. Keeps(s, g) /\ Upd(s, g, {"forced"})
    BY <1>0, ForcedKeeps
  <2> HIDE DEF g
  <2>2. Still(s, g) /\ Good(g, O) /\ g.err = s.err
    BY <2>1, UpdStill, KeepGood DEF Upd, Fields
  <2>3. Sane(g, O) /\ g.stage = "ShuttingDown" /\ Net(g, O)
    BY <1>2, <2>2, StillSane DEF Still, Good
  <2> QED
    BY <1>2, <2>2, <2>3, AllForcedSane
<1>3. CASE /\ s.stage # "ShuttingDown" /\ PhaseOf(s) = "StoppingRetired"
           /\ s.slot["retired"].deadline
           /\ t = ThenForce(Applied(x, answer), "retired")
  <2> HIDE DEF x, answer
  <2>1. x = [s EXCEPT !.failure = TRUE, !.slot["retired"].deadline = FALSE]
        /\ answer = TerminationTimedOut(s.sup, s.slot["retired"].id)
    BY DEF x, answer
  <2> QED
    BY <1>3, <2>1, OverdueSane
<1>4. CASE due /\ expired # {} /\ t = HandlePhaseFailure(c, first, bad)
  <2>1. first \in Roles /\ s.slot[first].pending # NoPending
    BY <1>4 DEF Roles
  <2> HIDE DEF first
  <2>2. c = [s EXCEPT !.slot[first].pending = NoPending]
    OBVIOUS
  <2> HIDE DEF c
  <2> QED
    BY <1>4, <2>1, <2>2, ExpiredSane
<1> QED
  BY <1>1, <1>2, <1>3, <1>4

\* Failing closed once more.
LEMMA FailAgainSane ==
  ASSUME NEW s, NEW O, Good(s, O), Sane(s, O), ~s.err, NEW t, t = FailAgain(s)
  PROVE  Sane(t, O) /\ ~t.err
<1>1. CASE s.stage = "Failing"
  <2>1. t = FailMaster(s)
    BY <1>1 DEF FailAgain
  <2>2. Net(s, O) /\ Basic(s, O) /\ Blamed(s.sup)
    BY <1>1 DEF Good, Sane
  <2> QED
    BY <1>1, <2>1, <2>2, FailMasterSane
<1>2. CASE s.stage # "Failing"
  BY <1>2 DEF FailAgain
<1> QED
  BY <1>1, <1>2

---------------------------------------------------------------------------
(* What a poll collects *)

\* What is observed is true, and a healthy active worker has agreed to reopen.
Believes(s, o) ==
    /\ o.kind # "Nothing" => Reports(s.proc[o.id], o)
    /\ /\ Calm /\ s.stage = "Operational" /\ s.slot["active"].id \notin Faulty
       /\ s.slot["active"].pending.phase = "Reactivate"
       /\ o.kind = "Ack" /\ o.id = s.slot["active"].id /\ o.req = s.slot["active"].pending.req
       => o.ok

LEMMA BelievesSane ==
  ASSUME NEW s, NEW O, NEW P, Sane(s, O), \A o \in P : Believes(s, o)
  PROVE  Sane(s, P)
<1>1. Basic(s, P)
  BY DEF Sane, Basic, Truthful, Believes
<1>2. s.stage = "Operational" => Oper(s, P)
  <2> SUFFICES ASSUME s.stage = "Operational" PROVE Oper(s, P)
    OBVIOUS
  <2>1. Oper(s, O)
    BY DEF Sane
  <2>2. Heeds(s.sup.active.lifecycle, s.slot["active"], s.proc[s.slot["active"].id], P)
    BY <2>1 DEF Oper, Heeds, Believes
  <2> QED
    BY <2>1, <2>2 DEF Oper
<1> QED
  BY <1>1, <1>2 DEF Sane

LEMMA ObservedBelieves ==
  ASSUME NEW s, NEW O, NEW role \in Roles, Good(s, O), Sane(s, O), NEW o, o = Observed(s, role)
  PROVE  Believes(s, o)
<1> DEFINE w == s.slot[role]
           p == s.proc[w.id]
           seen(kind) == [kind |-> kind, id |-> w.id, req |-> 0, phase |-> "None", ok |-> FALSE]
           frame == Head(p.outbox)
           read == [kind |-> frame.kind, id |-> w.id, req |-> frame.req, phase |-> frame.phase,
                    ok |-> frame.ok]
<1>0. s \in Masters /\ Basic(s, O)
  BY DEF Good, Net, Sane
<1>2. \/ o = seen("Nothing")
      \/ o = seen("Exit")
      \/ Present(s, role) /\ p.outbox # << >> /\ o = read
      \/ ~p.linked /\ o = seen("Disconnected")
  BY DEF Observed, Present
<1>3. CASE o = seen("Nothing") \/ o = seen("Exit") \/ (~p.linked /\ o = seen("Disconnected"))
  BY <1>3 DEF Believes, Reports
<1>4. CASE Present(s, role) /\ p.outbox # << >> /\ o = read
  <2>0. w.id \in InstanceIds /\ p \in Procs
    BY <1>0, <1>4, RoleIds, MasterFields
  <2>1. p.outbox \in Seq(Frames) /\ Spoken(p)
    BY <1>0, <2>0 DEF Procs, Basic, Truthful
  <2>2. o.kind = frame.kind /\ o.id = w.id /\ o.req = frame.req /\ o.phase = frame.phase
        /\ o.ok = frame.ok
    BY <1>4
  <2>i. w.id = s.slot[role].id /\ p = s.proc[s.slot[role].id]
    OBVIOUS
  <2> HIDE DEF p, w
  <2>3. frame = p.outbox[1] /\ 1 \in DOMAIN p.outbox
    BY <1>4, <2>1, TailFacts
  <2> HIDE DEF frame
  <2>4. (frame.kind = "Ack" /\ Says(p, frame)) \/ (frame.kind = "Bad" /\ ~Calm)
    BY <2>1, <2>3 DEF Spoken
  <2>5. Reports(p, o)
    BY <2>2, <2>4 DEF Reports, Says
  <2>6. ASSUME /\ Calm /\ s.stage = "Operational" /\ s.slot["active"].id \notin Faulty
               /\ s.slot["active"].pending.phase = "Reactivate"
               /\ o.kind = "Ack" /\ o.id = s.slot["active"].id
               /\ o.req = s.slot["active"].pending.req
        PROVE  o.ok
    <3>1. p = s.proc[s.slot["active"].id]
      BY <2>2, <2>6, <2>i
    <3>2. Heeds(s.sup.active.lifecycle, s.slot["active"], p, O)
      BY <2>6, <3>1 DEF Sane, Oper
    <3> QED
      BY <2>2, <2>3, <2>6, <3>2 DEF Heeds
  <2>7. Reports(s.proc[o.id], o)
    BY <2>2, <2>5, <2>i
  <2> QED
    BY <2>6, <2>7 DEF Believes
<1> QED
  BY <1>2, <1>3, <1>4

\* A worker some of whose frames have been read.
Fewer(p, q) ==
    /\ q.run = p.run /\ q.startup = p.startup /\ q.linked = p.linked /\ q.handle = p.handle
    /\ q.inbox = p.inbox
    /\ \A k \in DOMAIN q.outbox : \E m \in DOMAIN p.outbox : q.outbox[k] = p.outbox[m]

LEMMA FewerSane ==
  ASSUME NEW s, NEW O, Good(s, O), Sane(s, O), NEW t, t.stage = s.stage, t.sup = s.sup,
         t.slot = s.slot, \A j \in InstanceIds : Fewer(s.proc[j], t.proc[j])
  PROVE  Sane(t, O)
<1>0. s \in Masters /\ Net(s, O) /\ Matched(s) /\ Basic(s, O)
  BY DEF Good, Net, Control, Sane
<1>1. Truthful(t, O)
  <2>1. ASSUME NEW i \in InstanceIds PROVE Spoken(t.proc[i])
    BY <1>0 DEF Basic, Truthful, Fewer, Spoken, Says
  <2>2. ASSUME NEW o \in O, o.kind # "Nothing" PROVE Reports(t.proc[o.id], o)
    <3>1. o.id \in InstanceIds /\ Reports(s.proc[o.id], o)
      BY <1>0, <2>2 DEF Net, Seen, Basic, Truthful
    <3> QED
      BY <3>1 DEF Fewer, Reports, Says
  <2> QED
    BY <2>1, <2>2 DEF Truthful
<1>2. Basic(t, O)
  BY <1>0, <1>1 DEF Basic, Timed
<1> DEFINE i == s.slot["active"].id
           p == s.proc[i]
           q == t.proc[i]
<1>3. s.stage \in Starting => Boots(t.stage, t.slot["active"], t.proc[t.slot["active"].id])
  <2> SUFFICES ASSUME s.stage \in Starting PROVE Boots(s.stage, s.slot["active"], q)
    OBVIOUS
  <2>1. Boots(s.stage, s.slot["active"], p)
    BY DEF Sane
  <2>2. i \in InstanceIds => Fewer(p, q)
    OBVIOUS
  <2> HIDE DEF p, q
  <2> QED
    BY <2>1, <2>2 DEF Boots, Hired, Obeys, Upright, Fewer, i
<1>4. s.stage = "Operational" => Oper(t, O)
  <2> SUFFICES ASSUME s.stage = "Operational" PROVE Oper(t, O)
    OBVIOUS
  <2> DEFINE j == s.slot["candidate"].id
             x == s.proc[j]
             y == t.proc[j]
  <2>1. Oper(s, O) /\ i \in InstanceIds
    BY <1>0, ActivePresent DEF Sane
  <2>2. Occupied(s.sup.candidate) => j \in InstanceIds
    BY <1>0, RoleNames, RoleIds DEF Matched, Present, Occupied
  <2>3. Fewer(p, q) /\ (Occupied(s.sup.candidate) => Fewer(x, y))
    BY <2>1, <2>2
  <2>4. /\ Leads(s.sup, s.slot["active"], p)
        /\ Heeds(s.sup.active.lifecycle, s.slot["active"], p, O)
        /\ Tries(s.sup.candidate, s.slot["candidate"], x)
        /\ Retires(s.sup.retired, s.slot["retired"])
    BY <2>1 DEF Oper
  <2>q. t.proc[t.slot["active"].id] = q /\ t.proc[t.slot["candidate"].id] = y
    OBVIOUS
  <2> HIDE DEF p, q, x, y
  <2>5. Leads(s.sup, s.slot["active"], q)
    BY <2>3, <2>4 DEF Leads, Obeys, Upright, Fewer
  <2>6. Heeds(s.sup.active.lifecycle, s.slot["active"], q, O)
    BY <2>3, <2>4 DEF Heeds, Held, Tame, Fewer
  <2>7. Tries(s.sup.candidate, s.slot["candidate"], y)
    BY <2>3, <2>4 DEF Tries, Hired, Obeys, Upright, Fewer
  <2> QED
    BY <2>4, <2>5, <2>6, <2>7, <2>q DEF Oper
<1> QED
  BY <1>2, <1>3, <1>4 DEF Sane, Present

LEMMA PopSane ==
  ASSUME NEW s, NEW O, NEW i \in InstanceIds, Good(s, O), Sane(s, O), s.proc[i].outbox # << >>
  PROVE  LET t == [s EXCEPT !.proc[i].outbox = Tail(@)]
         IN  Sane(t, O) /\ t.err = s.err
<1> DEFINE t == [s EXCEPT !.proc[i].outbox = Tail(@)]
           p == s.proc[i]
           q == [p EXCEPT !.outbox = Tail(@)]
<1>0. s \in Masters
  BY DEF Good, Net
<1>1. p \in Procs /\ s.proc \in [InstanceIds -> Procs]
  BY <1>0, MasterFields
<1>2. p.outbox \in Seq(Frames)
  BY <1>1 DEF Procs
<1>3. \A k \in DOMAIN Tail(p.outbox) :
         k + 1 \in DOMAIN p.outbox /\ Tail(p.outbox)[k] = p.outbox[k + 1]
  BY <1>2, TailFacts
<1>4. /\ q.run = p.run /\ q.inbox = p.inbox /\ q.linked = p.linked /\ q.startup = p.startup
      /\ q.handle = p.handle /\ q.outbox = Tail(p.outbox)
  BY <1>1 DEF Procs
<1>5. Upd(s, t, {"proc"}) /\ t.proc = [s.proc EXCEPT ![i] = q]
  BY <1>0, <1>1, MasterFields DEF Upd, IsRecord, Fields
<1>p. p = s.proc[i]
  OBVIOUS
<1> HIDE DEF t, q, p
<1>6. t.stage = s.stage /\ t.sup = s.sup /\ t.slot = s.slot /\ t.err = s.err
  BY <1>5 DEF Upd, Fields
<1>7. Fewer(p, q)
  BY <1>3, <1>4 DEF Fewer
<1>8. ASSUME NEW j \in InstanceIds PROVE Fewer(s.proc[j], t.proc[j])
  <2>1. CASE j = i
    BY <1>1, <1>5, <1>7, <1>p, <2>1
  <2>2. CASE j # i
    <3>1. t.proc[j] = s.proc[j]
      BY <1>1, <1>5, <2>2
    <3> QED
      BY <3>1 DEF Fewer
  <2> QED
    BY <2>1, <2>2
<1>9. Sane(t, O)
  BY <1>6, <1>8, FewerSane
<1> QED
  BY <1>6, <1>9 DEF t

\* The state of the channel is an edit.
LEMMA ReportedEdits ==
  ASSUME NEW s \in Masters, NEW role \in Roles
  PROVE  /\ Edits(s, [s EXCEPT !.slot[role].reported = TRUE], role)
         /\ Edits(s, [s EXCEPT !.slot[role].open = FALSE], role)
<1> DEFINE x == [s EXCEPT !.slot[role].reported = TRUE]
           y == [s EXCEPT !.slot[role].open = FALSE]
           v == [s.slot[role] EXCEPT !.reported = TRUE]
           w == [s.slot[role] EXCEPT !.open = FALSE]
<1>0. s.slot[role] \in SlotRecords /\ s.slot \in [Roles -> SlotRecords]
  BY MasterFields
<1>1. /\ Upd(s, x, {"slot"}) /\ x.slot = [s.slot EXCEPT ![role] = v]
      /\ Upd(s, y, {"slot"}) /\ y.slot = [s.slot EXCEPT ![role] = w]
  BY MasterFields DEF Upd, IsRecord, Fields
<1>2. /\ v \in SlotRecords /\ v.id = s.slot[role].id /\ v.pending = s.slot[role].pending
      /\ v.state = s.slot[role].state /\ v.deadline = s.slot[role].deadline
  BY <1>0 DEF SlotRecords
<1>3. /\ w \in SlotRecords /\ w.id = s.slot[role].id /\ w.pending = s.slot[role].pending
      /\ w.state = s.slot[role].state /\ w.deadline = s.slot[role].deadline
  BY <1>0 DEF SlotRecords
<1> HIDE DEF x, y, v, w
<1>4. x \in Masters /\ y \in Masters
  <2>1. Keeps(s, x)
    BY <1>1, <1>2, SlotUpdates
  <2>2. Keeps(s, y)
    BY <1>1, <1>3, SlotUpdates
  <2> QED
    BY <2>1, <2>2 DEF Keeps
<1>5. /\ x.slot[role] = v /\ \A b \in Roles \ {role} : x.slot[b] = s.slot[b]
      /\ y.slot[role] = w /\ \A b \in Roles \ {role} : y.slot[b] = s.slot[b]
  BY <1>0, <1>1
<1>6. /\ x.stage = s.stage /\ x.sup = s.sup /\ x.proc = s.proc /\ x.err = s.err
      /\ y.stage = s.stage /\ y.sup = s.sup /\ y.proc = s.proc /\ y.err = s.err
  BY <1>1 DEF Upd, Fields
<1>7. Edits(s, x, role)
  BY <1>2, <1>4, <1>5, <1>6 DEF Edits
<1>8. Edits(s, y, role)
  BY <1>3, <1>4, <1>5, <1>6 DEF Edits
<1> QED
  BY <1>7, <1>8 DEF x, y

LEMMA ConsumeSane ==
  ASSUME NEW s, NEW O, NEW role \in Roles, NEW o, Good(s, O), Sane(s, O), Seen(s, o),
         o.id = s.slot[role].id, o.kind \in {"Ack", "Bad"} => s.proc[o.id].outbox # << >>,
         NEW t, t = Consumed(s, role, o)
  PROVE  Sane(t, O) /\ t.err = s.err
<1> DEFINE x == [s EXCEPT !.slot[role].reported = TRUE]
           d == [s EXCEPT !.slot[role].open = FALSE]
           f == [s EXCEPT !.proc[o.id].outbox = Tail(@)]
<1>0. s \in Masters
  BY DEF Good, Net
<1>1. Edits(s, x, role) /\ Edits(s, d, role)
  BY <1>0, ReportedEdits
<1>2. \/ t = s
      \/ o.kind = "Exit" /\ t = x
      \/ o.kind = "Disconnected" /\ t = d
      \/ o.kind \in {"Ack", "Bad"} /\ t = f
  BY DEF Consumed
<1>3. CASE t = s
  BY <1>3
<1>4. CASE o.kind \in {"Ack", "Bad"} /\ t = f
  <2>1. o.id \in InstanceIds /\ s.proc[o.id].outbox # << >>
    BY <1>4 DEF Seen
  <2>2. Sane(f, O) /\ f.err = s.err
    BY <2>1, PopSane
  <2> QED
    BY <1>4, <2>2
<1>5. CASE (o.kind = "Exit" /\ t = x) \/ (o.kind = "Disconnected" /\ t = d)
  <2>1. Edits(s, t, role)
    BY <1>1, <1>5
  <2>2. Present(s, role)
    BY <1>0, <1>5, RoleIds DEF Seen
  <2> HIDE DEF x, d, f
  <2>3. Sane(t, O)
    BY <2>1, <2>2, EditsSane
  <2> QED
    BY <2>1, <2>3 DEF Edits
<1> QED
  BY <1>2, <1>3, <1>4, <1>5

LEMMA CollectSane ==
  ASSUME NEW s, Good(s, {}), Sane(s, {})
  PROVE  \E O : /\ Good(Collect(s).rest, O) /\ Sane(Collect(s).rest, O)
                /\ Collect(s).rest.err = s.err
                /\ \A k \in 1..3 : Collect(s).list[k] \in O
<1> DEFINE a == Observed(s, "active")
           c == Observed(s, "candidate")
           r == Observed(s, "retired")
           O == {a, c, r}
           s1 == Consumed(s, "active", a)
           s2 == Consumed(s1, "candidate", c)
           s3 == Consumed(s2, "retired", r)
           activated == /\ PhaseOf(s) = "ActivatingCandidate"
                        /\ c.kind = "Ack" /\ c.phase = "Activate" /\ c.ok
           list == IF activated THEN <<c, a, r>> ELSE <<a, c, r>>
<1>0. s \in Masters /\ Distinct(s)
  BY DEF Good, Net
<1>1. /\ Seen(s, a) /\ a.id = s.slot["active"].id
      /\ a.kind \in {"Ack", "Bad"} => s.proc[a.id].outbox # << >>
  BY RoleNames, ObservedSeen
<1>2. /\ Seen(s, c) /\ c.id = s.slot["candidate"].id
      /\ c.kind \in {"Ack", "Bad"} => s.proc[c.id].outbox # << >>
  BY RoleNames, ObservedSeen
<1>3. /\ Seen(s, r) /\ r.id = s.slot["retired"].id
      /\ r.kind \in {"Ack", "Bad"} => s.proc[r.id].outbox # << >>
  BY RoleNames, ObservedSeen
<1>b. Believes(s, a) /\ Believes(s, c) /\ Believes(s, r)
  BY RoleNames, ObservedBelieves
<1>4. Collect(s).rest = s3 /\ Collect(s).list = list
  BY DEF Collect
<1>5. \A k \in 1..3 : list[k] \in O
  <2> HIDE DEF a, c, r, activated
  <2>1. CASE activated
    BY <2>1
  <2>2. CASE ~activated
    BY <2>2
  <2> QED
    BY <2>1, <2>2
<1> HIDE DEF a, c, r, list
<1>6. Good(s, O)
  BY <1>1, <1>2, <1>3, WithObservations
<1>s. Sane(s, O)
  BY <1>b, BelievesSane
<1>7. a.id \in Ids /\ c.id \in Ids /\ r.id \in Ids
  BY <1>1, <1>2, <1>3 DEF Seen, Observations
<1>8. /\ c.kind \in {"Ack", "Bad"} => c.id \in InstanceIds \ {a.id}
      /\ r.kind \in {"Ack", "Bad"} => r.id \in InstanceIds \ {a.id, c.id}
  <2>1. /\ c.kind \in {"Ack", "Bad"} => c.id \in InstanceIds
        /\ r.kind \in {"Ack", "Bad"} => r.id \in InstanceIds
    BY <1>2, <1>3 DEF Seen
  <2> QED
    BY <1>0, <1>1, <1>2, <1>3, <2>1, NoInstanceAssumption DEF Distinct, Roles
<1>o. O = {a, c, r}
  OBVIOUS
<1> HIDE DEF O
<1>9. /\ Good(s1, O) /\ \A j \in InstanceIds \ {a.id} : s1.proc[j] = s.proc[j]
      /\ \A b \in Roles : s1.slot[b].id = s.slot[b].id
  BY <1>1, <1>6, RoleNames, ConsumeGood
<1>t. Sane(s1, O) /\ s1.err = s.err
  BY <1>1, <1>6, <1>s, RoleNames, ConsumeSane
<1> HIDE DEF s1
<1>10. /\ Seen(s1, c) /\ Seen(s1, r)
       /\ c.kind \in {"Ack", "Bad"} => s1.proc[c.id].outbox # << >>
       /\ r.kind \in {"Ack", "Bad"} => s1.proc[r.id].outbox # << >>
       /\ c.id = s1.slot["candidate"].id /\ r.id = s1.slot["retired"].id
  BY <1>2, <1>3, <1>8, <1>9, <1>o, RoleNames DEF Good, Net
<1>11. /\ Good(s2, O) /\ \A j \in InstanceIds \ {c.id} : s2.proc[j] = s1.proc[j]
       /\ \A b \in Roles : s2.slot[b].id = s1.slot[b].id
  BY <1>9, <1>10, RoleNames, ConsumeGood
<1>u. Sane(s2, O) /\ s2.err = s.err
  <2>1. Good(s1, O) /\ "candidate" \in Roles /\ s2 = Consumed(s1, "candidate", c)
    BY <1>9, RoleNames
  <2> HIDE DEF s2
  <2>a. Seen(s1, c) /\ c.id = s1.slot["candidate"].id /\ Sane(s1, O)
    BY <1>10, <1>t
  <2>b. c.kind \in {"Ack", "Bad"} => s1.proc[c.id].outbox # << >>
    BY <1>10
  <2>2. Sane(s2, O) /\ s2.err = s1.err
    BY <2>1, <2>a, <2>b, ConsumeSane
  <2> QED
    BY <1>t, <2>2
<1> HIDE DEF s2
<1>12. /\ Seen(s2, r) /\ r.id = s2.slot["retired"].id
       /\ r.kind \in {"Ack", "Bad"} => s2.proc[r.id].outbox # << >>
  BY <1>8, <1>10, <1>11, <1>o, RoleNames DEF Good, Net
<1>13. Good(s3, O)
  BY <1>11, <1>12, RoleNames, ConsumeGood
<1>14. Sane(s3, O) /\ s3.err = s.err
  <2>1. Good(s2, O) /\ "retired" \in Roles /\ s3 = Consumed(s2, "retired", r)
    BY <1>11, RoleNames
  <2> HIDE DEF s3
  <2>a. Seen(s2, r) /\ r.id = s2.slot["retired"].id /\ Sane(s2, O)
    BY <1>12, <1>u
  <2>b. r.kind \in {"Ack", "Bad"} => s2.proc[r.id].outbox # << >>
    BY <1>12
  <2>2. Sane(s3, O) /\ s3.err = s2.err
    BY <2>1, <2>a, <2>b, ConsumeSane
  <2> QED
    BY <1>u, <2>2
<1> QED
  BY <1>4, <1>5, <1>13, <1>14

LEMMA FinishSane ==
  ASSUME NEW s, NEW O, s \in Masters, Sane(s, O), NEW t, t = FinishTerminalStates(s)
  PROVE  Sane(t, O) /\ t.err = s.err
<1>1. ASSUME NEW g \in {"Stopped", "Failed"}, \A role \in Roles : ~Present(s, role),
             g = "Failed" => s.stage = "Failing"
      PROVE  Sane([s EXCEPT !.stage = g], O) /\ [s EXCEPT !.stage = g].err = s.err
  <2> DEFINE u == [s EXCEPT !.stage = g]
  <2>1. Upd(s, u, {"stage"}) /\ u.stage = g
    BY MasterFields DEF Upd, IsRecord, Fields
  <2> HIDE DEF u
  <2>2. u.sup = s.sup /\ u.slot = s.slot /\ u.proc = s.proc /\ u.err = s.err
    BY <2>1 DEF Upd, Fields
  <2>3. \A role \in Roles : s.slot[role] = NoSlot
    BY <1>1 DEF Sane, Basic, Tidy, Present
  <2>4. Basic(u, O)
    BY <2>2, <2>3, NoSlotTidy DEF Sane, Basic, Truthful, Timed
  <2>5. Sane(u, O)
    BY <1>1, <2>1, <2>2, <2>4 DEF Sane, Starting, Present
  <2> QED
    BY <2>2, <2>5 DEF u
<1>2. \/ t = s
      \/ /\ \A role \in Roles : ~Present(s, role)
         /\ \/ t = [s EXCEPT !.stage = "Stopped"]
            \/ t = [s EXCEPT !.stage = "Failed"] /\ s.stage = "Failing"
  BY DEF FinishTerminalStates
<1> QED
  BY <1>1, <1>2

LEMMA PollSane ==
  ASSUME NEW s, NEW due, NEW bad, Good(s, {}), Sane(s, {}), ~s.err, Calm => bad = {},
         /\ due /\ Calm /\ s.stage = "Operational" /\ s.slot["active"].pending.phase = "Reactivate"
         => s.slot["active"].id \in Faulty,
         NEW t, t = Poll(s, due, bad)
  PROVE  Sane(t, {}) /\ (t.err => ~Lone)
<1> DEFINE y == HandleTimeout(s, due, bad)
           x == FailAgain(y)
           seen == Collect(x)
           h1 == Handle(seen.rest, seen.list[1], bad)
           h2 == Handle(h1, seen.list[2], bad)
           h3 == Handle(h2, seen.list[3], bad)
           e == FinishTerminalStates(h3)
<1>0. Good(y, {}) /\ Sane(y, {}) /\ ~y.err
  BY HandleTimeoutGood, HandleTimeoutSane
<1>2. t \in {x, e}
  BY DEF Poll, ObserveAndHandle, Try, HandleAll
<1> HIDE DEF y
<1>1. Good(x, {}) /\ Sane(x, {}) /\ ~x.err
  BY <1>0, FailAgainGood, FailAgainSane
<1> HIDE DEF x
<1>3. PICK O : /\ Good(seen.rest, O) /\ Sane(seen.rest, O) /\ seen.rest.err = x.err
               /\ \A k \in 1..3 : seen.list[k] \in O
  BY <1>1, CollectSane
<1>4. seen.list[1] \in O /\ seen.list[2] \in O /\ seen.list[3] \in O
  BY <1>3
<1> HIDE DEF seen
<1>5. Good(h1, O) /\ Sane(h1, O) /\ (h1.err => ~Lone)
  BY <1>1, <1>3, <1>4, HandleGood, HandleSane
<1> HIDE DEF h1
<1>6. Good(h2, O) /\ Sane(h2, O) /\ (h2.err => ~Lone)
  BY <1>4, <1>5, HandleGood, HandleSane
<1> HIDE DEF h2
<1>7. Good(h3, O) /\ Sane(h3, O) /\ (h3.err => ~Lone)
  BY <1>4, <1>6, HandleGood, HandleSane
<1> HIDE DEF h3
<1>8. h3 \in Masters
  BY <1>7 DEF Good, Net
<1>9. Sane(e, O) /\ e.err = h3.err
  BY <1>7, <1>8, FinishSane
<1> HIDE DEF e
<1>10. Sane(e, {})
  BY <1>9, BelievesSane
<1> QED
  BY <1>1, <1>2, <1>7, <1>9, <1>10

---------------------------------------------------------------------------
(* Launching, replacing and reconciling *)

LEMMA BlankSlot ==
  ASSUME NEW i \in InstanceIds
  PROVE  /\ NewSlot(i).id = i /\ NewSlot(i).pending = NoPending /\ NewSlot(i).state = "Running"
         /\ NewSlot(i).deadline = FALSE /\ Tidy(NewSlot(i))
<1>1. /\ NewSlot(i).id = i /\ NewSlot(i).pending = NoPending /\ NewSlot(i).state = "Running"
      /\ NewSlot(i).deadline = FALSE
  BY DEF NewSlot
<1> QED
  BY <1>1, NoInstanceAssumption DEF Tidy

\* A worker that has neither been told nor said anything.
LEMMA Blank ==
  ASSUME NEW p, p.inbox = << >>, p.outbox = << >>
  PROVE  Spoken(p) /\ Obeys(p)
<1>1. DOMAIN p.inbox = {} /\ DOMAIN p.outbox = {}
  OBVIOUS
<1> QED
  BY <1>1 DEF Spoken, Obeys

LEMMA BlankProcs ==
  ASSUME NEW r \in Revisions, NEW i
  PROVE  /\ Spoken(Newborn(r)) /\ Hired(i, Newborn(r)) /\ Newborn(r).startup = "fresh"
         /\ Spoken(Unborn(NoRevision))
<1>1. Newborn(r).startup = "fresh"
  BY DEF Newborn, Unborn
<1>2. /\ Newborn(r).inbox = << >> /\ Newborn(r).outbox = << >>
      /\ Unborn(NoRevision).inbox = << >> /\ Unborn(NoRevision).outbox = << >>
  BY NewbornFacts, UnbornFacts
<1>3. Spoken(Newborn(r)) /\ Obeys(Newborn(r)) /\ Spoken(Unborn(NoRevision))
  BY <1>2, Blank
<1> QED
  BY <1>1, <1>3 DEF Hired

LEMMA FirstSane ==
  ASSUME NEW s, NEW r \in Revisions, Fresh(s), NEW t, t = Begun(s, r)
  PROVE  Sane(t, {})
<1>1. /\ t.stage = "BootAdopting" /\ t.slot["active"] = NewSlot(1) /\ t.proc[1] = Newborn(r)
      /\ \A b \in Roles \ {"active"} : t.slot[b] = NoSlot
      /\ \A j \in InstanceIds \ {1} : t.proc[j] = Unborn(NoRevision)
  BY FirstBorn
<1>2. \A b \in Roles : Tidy(t.slot[b]) /\ t.slot[b].deadline = FALSE
  BY <1>1, BlankSlot, NoSlotTidy, FirstId
<1>3. Truthful(t, {})
  BY <1>1, BlankProcs DEF Truthful
<1>4. Basic(t, {})
  BY <1>2, <1>3 DEF Basic, Timed
<1>5. Boots(t.stage, t.slot["active"], t.proc[t.slot["active"].id])
  <2> DEFINE w == NewSlot(1)
             p == Newborn(r)
  <2>1. w.state = "Running" /\ w.pending = NoPending /\ w.id = 1 /\ Hired(1, p)
    BY BlankSlot, BlankProcs, FirstId
  <2>2. t.slot["active"] = w /\ t.proc[1] = p
    BY <1>1
  <2> HIDE DEF w, p
  <2>3. Boots("BootAdopting", w, p)
    BY <2>1 DEF Boots
  <2> QED
    BY <1>1, <2>1, <2>2, <2>3
<1> QED
  BY <1>1, <1>4, <1>5 DEF Sane, Starting

LEMMA FirstAsked ==
  ASSUME NEW s, NEW bad, Good(s, {}), Sane(s, {}), ~s.err, s.stage = "BootAdopting",
         Present(s, "active"), s.slot["active"].pending = NoPending, Calm => bad = {},
         NEW t, t = IssueOrCompensate(s, "active", "AdoptListeners", bad)
  PROVE  Sane(t, {})
<1>1. Basic(s, {}) /\ Boots("BootAdopting", s.slot["active"], s.proc[s.slot["active"].id])
      /\ s \in Masters /\ Net(s, {})
  BY DEF Sane, Starting, Good, Net
<1>2. CASE CanIssue(s, "active", bad)
  <2> DEFINE r == [req |-> s.nextReq, phase |-> "AdoptListeners"]
  <2>1. Posts(s, t, "active", r) /\ r.phase = "AdoptListeners"
    BY <1>1, <1>2, IssuedFacts DEF IssueOrCompensate, Roles, ControlPhases
  <2> HIDE DEF r
  <2>2. /\ Basic(t, {}) /\ t.stage = "BootAdopting"
    BY <1>1, <2>1, PostsBasic DEF Roles, Boots
  <2>3. Boots("BootAdopting", t.slot["active"], t.proc[t.slot["active"].id])
    <3> DEFINE i == s.slot["active"].id
               p == s.proc[i]
               q == t.proc[i]
    <3>0. Boots("BootAdopting", s.slot["active"], p) /\ r.phase # "Shutdown"
      BY <1>1, <2>1
    <3> HIDE DEF i, p, q
    <3>1. /\ t.slot["active"].id = i /\ i \in InstanceIds /\ t.slot["active"].pending = r
          /\ t.slot["active"].state = s.slot["active"].state /\ q.startup = p.startup
          /\ (Hired(i, p) => Hired(i, q)) /\ s.slot["active"].id = i
      BY <1>1, <2>1, <3>0, PostsRole, RoleNames DEF i, p, q
    <3>2. Boots("BootAdopting", t.slot["active"], q)
      BY <2>1, <3>0, <3>1 DEF Boots
    <3> QED
      BY <3>1, <3>2 DEF q
  <2> QED
    BY <2>2, <2>3 DEF Sane, Starting
<1>3. CASE ~CanIssue(s, "active", bad)
  <2>1. Repairs(s, "active")
    BY DEF Repairs
  <2> QED
    BY <1>3, <2>1, CompensateSane DEF Roles
<1> QED
  BY <1>2, <1>3

LEMMA LaunchSane ==
  ASSUME NEW s, NEW r \in Revisions, NEW bad, Fresh(s), ~s.err, Calm => bad = {}
  PROVE  Sane(Launch(s, 1, Newborn(r), bad), {})
<1> DEFINE t == Begun(s, r)
<1>1. /\ Good(t, {}) /\ Present(t, "active") /\ t.stage = "BootAdopting" /\ t.err = s.err
      /\ t.slot["active"] = NewSlot(1)
  BY FirstBorn
<1>2. Sane(t, {})
  BY FirstSane
<1>3. Launch(s, 1, Newborn(r), bad) = IssueOrCompensate(t, "active", "AdoptListeners", bad)
  BY DEF Launch, Begun
<1> HIDE DEF t
<1>4. t.slot["active"].pending = NoPending
  BY <1>1, NewSlotFacts
<1> QED
  BY <1>1, <1>2, <1>3, <1>4, FirstAsked

\* The candidate just spawned.
LEMMA BornSane ==
  ASSUME NEW s, NEW i \in InstanceIds, NEW r \in Revisions, Good(s, {}), Sane(s, {}), IsRunning(s),
         Begin(s.sup, Instance(i, i, "Spawned")).ok, NEW p, p = Introduced(s, i, r)
  PROVE  /\ Sane(p, {}) /\ ~Met(s, i, r).err /\ Good(p, {}) /\ ~p.err
         /\ Present(p, "candidate") /\ p.stage = "Operational"
         /\ p.slot["active"].id \in InstanceIds
         /\ Occupied(p.sup.candidate) /\ p.sup.candidate.lifecycle = "Preparing"
<1>0. s \in Masters /\ s.stage = "Operational" /\ Basic(s, {}) /\ Oper(s, {})
  BY SaneOper DEF Good, Net, IsRunning
<1>1. /\ p.stage = "Operational" /\ p.slot["candidate"] = NewSlot(i)
      /\ p.slot["active"] = s.slot["active"] /\ p.slot["retired"] = s.slot["retired"]
      /\ p.slot["retired"].id = NoInstance
      /\ p.proc = [s.proc EXCEPT ![i] = Newborn(r)] /\ s.slot["active"].id \in InstanceIds \ {i}
      /\ p.sup.active = s.sup.active /\ s.sup.active.lifecycle = "Active"
      /\ Occupied(p.sup.candidate) /\ p.sup.candidate.lifecycle = "Preparing"
      /\ ~Occupied(s.sup.candidate)
      /\ ~Met(s, i, r).err /\ Good(p, {}) /\ ~p.err /\ Present(p, "candidate")
  BY BornCandidate
<1>2. /\ p.proc[i] = Newborn(r) /\ \A j \in InstanceIds \ {i} : p.proc[j] = s.proc[j]
  BY <1>0, <1>1, MasterFields
<1>3. p.slot["retired"] = NoSlot
  BY <1>0, <1>1 DEF Basic, Tidy, Roles
<1>4. Basic(p, {})
  <2>1. \A b \in Roles : Tidy(p.slot[b])
    <3>1. Tidy(s.slot["active"]) /\ Tidy(s.slot["retired"]) /\ Tidy(NewSlot(i))
      BY <1>0, BlankSlot DEF Basic, Roles
    <3> QED
      BY <1>1, <3>1 DEF Roles
  <2>2. ~p.slot["active"].deadline /\ ~p.slot["candidate"].deadline /\ ~p.slot["retired"].deadline
    BY <1>0, <1>1, <1>3, BlankSlot, NoSlotTidy DEF Basic, Timed, Roles
  <2>3. Timed(p)
    BY <2>2 DEF Timed, Roles
  <2>4. Truthful(p, {})
    BY <1>0, <1>2, BlankProcs DEF Basic, Truthful
  <2> QED
    BY <2>1, <2>3, <2>4 DEF Basic
<1>5. Oper(p, {})
  <2> DEFINE w == s.slot["active"]
             q == s.proc[s.slot["active"].id]
  <2>0. p.slot["active"] = w /\ p.proc[p.slot["active"].id] = q
    BY <1>1, <1>2
  <2>a. Leads(s.sup, w, q) /\ Heeds("Active", w, q, {})
    BY <1>0, <1>1 DEF Oper
  <2> HIDE DEF w, q
  <2>1. w.pending = NoPending
    BY <1>1, <2>a DEF Leads
  <2>2. Leads(p.sup, w, q)
    BY <2>1, <2>a DEF Leads
  <2>3. Heeds(p.sup.active.lifecycle, w, q, {})
    BY <1>1, <2>a
  <2>4. Tries(p.sup.candidate, p.slot["candidate"], p.proc[p.slot["candidate"].id])
    <3> DEFINE x == NewSlot(i)
               y == Newborn(r)
    <3>1. x.state = "Running" /\ x.pending = NoPending /\ x.id = i /\ Hired(i, y)
      BY BlankSlot, BlankProcs
    <3>2. p.slot["candidate"] = x /\ p.proc[i] = y
      BY <1>1, <1>2
    <3> HIDE DEF x, y
    <3>3. Tries(p.sup.candidate, x, y)
      BY <1>1, <3>1 DEF Tries
    <3> QED
      BY <3>1, <3>2, <3>3
  <2>5. Retires(p.sup.retired, p.slot["retired"])
    BY <1>3, NewSlotFacts DEF Retires, NoSlot
  <2> QED
    BY <2>0, <2>2, <2>3, <2>4, <2>5 DEF Oper
<1> QED
  BY <1>1, <1>4, <1>5, OperSane

LEMMA CandidateAsked ==
  ASSUME NEW s, NEW bad, Good(s, {}), Sane(s, {}), ~s.err, s.stage = "Operational",
         Present(s, "candidate"), Occupied(s.sup.candidate),
         s.sup.candidate.lifecycle = "Preparing", Calm => bad = {},
         s.slot["active"].id \in InstanceIds,
         NEW t, t = IssueOrCompensate(s, "candidate", "AdoptListeners", bad)
  PROVE  Sane(t, {})
<1>1. Basic(s, {}) /\ Oper(s, {}) /\ s \in Masters /\ Net(s, {})
  BY SaneOper DEF Good, Net
<1>2. CASE CanIssue(s, "candidate", bad)
  <2> DEFINE r == [req |-> s.nextReq, phase |-> "AdoptListeners"]
             i == s.slot["candidate"].id
             p == s.proc[i]
             q == t.proc[i]
  <2>1. Posts(s, t, "candidate", r) /\ r.phase = "AdoptListeners"
    BY <1>1, <1>2, IssuedFacts DEF IssueOrCompensate, Roles, ControlPhases
  <2> HIDE DEF r
  <2>a. Tries(s.sup.candidate, s.slot["candidate"], p) /\ s.slot["candidate"].state = "Running"
    BY <1>1 DEF Oper, Tries
  <2>2. /\ Basic(t, {}) /\ t.stage = "Operational" /\ t.sup = s.sup
    BY <1>1, <2>1, <2>a, PostsBasic DEF Roles
  <2> HIDE DEF i, p, q
  <2>3. /\ t.slot["candidate"].id = i /\ i \in InstanceIds /\ t.slot["candidate"].pending = r
        /\ t.slot["candidate"].state = s.slot["candidate"].state /\ q.startup = p.startup
        /\ (Hired(i, p) => Hired(i, q)) /\ s.slot["candidate"].id = i
    BY <1>1, <2>1, PostsRole, RoleNames DEF i, p, q
  <2>4. Tries(t.sup.candidate, t.slot["candidate"], q)
    BY <2>1, <2>2, <2>3, <2>a DEF Tries
  <2>5. t.slot["active"] = s.slot["active"]
        /\ t.proc[t.slot["active"].id] = s.proc[s.slot["active"].id]
    BY <1>1, <2>1, PostsOthers, RoleNames
  <2>6. t.slot["retired"] = s.slot["retired"]
    BY <2>1 DEF Posts, Roles
  <2>7. Oper(t, {})
    BY <1>1, <2>2, <2>3, <2>4, <2>5, <2>6 DEF Oper, q
  <2> QED
    BY <2>2, <2>7, OperSane
<1>3. CASE ~CanIssue(s, "candidate", bad)
  <2>1. Repairs(s, "candidate")
    BY DEF Repairs
  <2> QED
    BY <1>3, <2>1, CompensateSane DEF Roles
<1> QED
  BY <1>2, <1>3

LEMMA FlagStill ==
  ASSUME NEW s \in Masters, NEW e
  PROVE  Still(s, [s EXCEPT !.err = e])
<1>1. Upd(s, [s EXCEPT !.err = e], {"err"})
  BY MasterFields DEF Upd, IsRecord, Fields
<1> QED
  BY <1>1, UpdStill

LEMMA EmitStill ==
  ASSUME NEW s \in Masters, NEW kind, NEW i, NEW j
  PROVE  Still(s, Emit(s, kind, i, j))
<1>1. Upd(s, Emit(s, kind, i, j), {"events"})
  BY MasterFields DEF Upd, IsRecord, Fields, Emit
<1> QED
  BY <1>1, UpdStill

LEMMA ReplaceSane ==
  ASSUME NEW s, NEW i \in InstanceIds, NEW r \in Revisions, NEW spawned, NEW bad, Good(s, {}),
         Sane(s, {}), Calm => bad = {}, NEW t, t = Replace(s, i, Newborn(r), spawned, bad)
  PROVE  Sane(t, {})
<1> DEFINE ok == Begin(s.sup, Instance(i, i, "Spawned")).ok
           p == Introduced(s, i, r)
           e == Emit(s, "SpawnFailed", i, NoInstance)
<1>0. s \in Masters
  BY DEF Good, Net
<1>1. CASE IsRunning(s) /\ ok
  <2>1. /\ ~Met(s, i, r).err /\ Good(p, {}) /\ ~p.err /\ Sane(p, {})
        /\ Present(p, "candidate") /\ p.stage = "Operational"
        /\ p.slot["active"].id \in InstanceIds
        /\ Occupied(p.sup.candidate) /\ p.sup.candidate.lifecycle = "Preparing"
    BY <1>1, BornSane
  <2>3. t \in {Fail(e), IssueOrCompensate(p, "candidate", "AdoptListeners", bad)}
    <3>1. t = Fail(e) \/ t = Try(Met(s, i, r), ThenIssue(p, "candidate", "AdoptListeners", bad))
      BY <1>1 DEF Replace, Introduced, Met, Bred
    <3> HIDE DEF p, e
    <3> QED
      BY <2>1, <3>1 DEF Try, ThenIssue
  <2> HIDE DEF p, e
  <2>4. Sane(IssueOrCompensate(p, "candidate", "AdoptListeners", bad), {})
    BY <2>1, CandidateAsked
  <2>5. Sane(Fail(e), {})
    <3>1. Still(s, e) /\ e \in Masters
      <4>1. "SpawnFailed" \in EventKinds /\ i \in Ids /\ NoInstance \in Ids
        BY DEF EventKinds, Ids
      <4> QED
        BY <1>0, <4>1, EmitStill, EmitKeeps DEF Keeps, e
    <3>2. Still(e, Fail(e))
      BY <3>1, FlagStill DEF Fail
    <3> QED
      BY <3>1, <3>2, StillSane
  <2> QED
    BY <2>3, <2>4, <2>5
<1>2. CASE ~(IsRunning(s) /\ ok)
  <2>1. t = Fail(s)
    BY <1>2 DEF Replace
  <2>2. Still(s, Fail(s))
    BY <1>0, FlagStill DEF Fail
  <2> QED
    BY <2>1, <2>2, StillSane
<1> QED
  BY <1>1, <1>2

LEMMA ReconcileSane ==
  ASSUME NEW s, NEW cat, NEW d \in Revisions, NEW spawned, NEW bad, Good(s, {}), Sane(s, {}),
         cat.next \in InstanceIds, Calm => bad = {}
  PROVE  Sane(Reconcile(s, cat, d, spawned, bad).master, {})
<1> DEFINE r == Replace(s, cat.next, Newborn(d), spawned, bad)
           e == ~RecordRestartRequired(AllocateGeneration(cat).cat, Document(cat.next, cat.next, d)).ok
           x == r.err /\ ~IsRunning(r)
           m == Reconcile(s, cat, d, spawned, bad).master
<1>1. Sane(r, {}) /\ r \in Masters /\ s \in Masters
  BY ReplaceSane, ReplaceGood DEF Good, Net
<1>2. m \in {s, [s EXCEPT !.err = TRUE], [s EXCEPT !.err = e], [r EXCEPT !.err = x]}
  BY DEF Reconcile, Fail
<1> HIDE DEF r, e, x, m
<1>3. /\ Still(s, [s EXCEPT !.err = TRUE]) /\ Still(s, [s EXCEPT !.err = e])
      /\ Still(r, [r EXCEPT !.err = x])
  BY <1>1, FlagStill
<1>4. Sane(m, {})
  BY <1>1, <1>2, <1>3, StillSane
<1> QED
  BY <1>4 DEF m

---------------------------------------------------------------------------
(* Shutting down *)

\* The roles of R have been asked to stop.
Winds(s, R) ==
    /\ s.stage = "ShuttingDown" /\ ~s.err /\ Basic(s, {})
    /\ \A b \in R : s.slot[b].pending # NoPending => s.slot[b].pending.phase = "Shutdown"

LEMMA StateFacts ==
  ASSUME NEW s \in Masters, NEW role \in Roles
  PROVE  LET t == [s EXCEPT !.slot[role].state = "Terminating"]
         IN  /\ t.stage = s.stage /\ t.err = s.err /\ t.proc = s.proc
             /\ \A b \in Roles \ {role} : t.slot[b] = s.slot[b]
             /\ t.slot[role].id = s.slot[role].id /\ t.slot[role].pending = s.slot[role].pending
             /\ t.slot[role].state = "Terminating"
<1> DEFINE u == [s EXCEPT !.slot[role].state = "Terminating"]
           w == [s.slot[role] EXCEPT !.state = "Terminating"]
<1>1. /\ u.slot = [s.slot EXCEPT ![role] = w] /\ u.stage = s.stage /\ u.err = s.err
      /\ u.proc = s.proc /\ s.slot \in [Roles -> SlotRecords] /\ s.slot[role] \in SlotRecords
  BY MasterFields DEF IsRecord, Fields
<1>2. w.id = s.slot[role].id /\ w.pending = s.slot[role].pending /\ w.state = "Terminating"
  BY <1>1 DEF SlotRecords
<1> HIDE DEF u, w
<1>3. u.slot[role] = w /\ \A b \in Roles \ {role} : u.slot[b] = s.slot[b]
  BY <1>1
<1> QED
  BY <1>1, <1>2, <1>3 DEF u

\* A worker that can be asked is asked, even one that has been killed.
LEMMA AskedWinds ==
  ASSUME NEW s, NEW role \in Roles, NEW R \in SUBSET Roles, Net(s, {}), Winds(s, R),
         Present(s, role),
         NEW t, t = [Issued(s, role, "Shutdown") EXCEPT !.slot[role].state = "Terminating"]
  PROVE  Winds(t, R \cup {role})
<1> DEFINE i == Issued(s, role, "Shutdown")
           r == [req |-> s.nextReq, phase |-> "Shutdown"]
<1>0. s \in Masters /\ "Shutdown" \in ControlPhases
  BY DEF Net, ControlPhases
<1>1. Posts(s, i, role, r) /\ r.phase = "Shutdown"
  BY <1>0, IssuedFacts
<1> HIDE DEF r
<1>2. i \in Masters
  BY <1>1 DEF Posts, Sent
<1>3. /\ t.stage = i.stage /\ t.err = i.err /\ t.proc = i.proc
      /\ \A b \in Roles \ {role} : t.slot[b] = i.slot[b]
      /\ t.slot[role].id = i.slot[role].id /\ t.slot[role].pending = i.slot[role].pending
      /\ t.slot[role].state = "Terminating"
  <2> DEFINE x == [i EXCEPT !.slot[role].state = "Terminating"]
  <2>1. t = x
    OBVIOUS
  <2> HIDE DEF i
  <2>2. /\ x.stage = i.stage /\ x.err = i.err /\ x.proc = i.proc
        /\ \A b \in Roles \ {role} : x.slot[b] = i.slot[b]
        /\ x.slot[role].id = i.slot[role].id /\ x.slot[role].pending = i.slot[role].pending
        /\ x.slot[role].state = "Terminating"
    BY <1>2, StateFacts
  <2> HIDE DEF x
  <2> QED
    BY <2>1, <2>2
<1> HIDE DEF i
<1>4. Truthful(i, {})
  BY <1>1, PostsTruthful DEF Winds, Basic
<1>5. /\ t.stage = "ShuttingDown" /\ ~t.err /\ \A b \in Roles \ {role} : t.slot[b] = s.slot[b]
      /\ t.slot[role].pending = r /\ t.slot[role].id \in InstanceIds
  BY <1>1, <1>3 DEF Posts, Sent, Winds
<1>6. \A b \in Roles : Tidy(t.slot[b])
  <2>1. Tidy(t.slot[role])
    BY <1>3, <1>5, NoInstanceAssumption DEF Tidy
  <2> QED
    BY <1>5, <2>1 DEF Winds, Basic
<1>7. Basic(t, {})
  BY <1>3, <1>4, <1>5, <1>6 DEF Basic, Timed, Truthful
<1> QED
  BY <1>1, <1>5, <1>7 DEF Winds

LEMMA KilledWinds ==
  ASSUME NEW s, NEW role \in Roles, NEW R \in SUBSET Roles, Good(s, {}), Winds(s, R),
         Present(s, role), NEW t, t = [ForceRole(NotIssued(s), role) EXCEPT !.forced = TRUE]
  PROVE  Winds(t, R \cup {role})
<1> DEFINE n == NotIssued(s)
           f == ForceRole(n, role)
<1>0. s \in Masters
  BY DEF Good, Net
<1>1. Keeps(s, n) /\ n \in Masters /\ Still(s, n) /\ n.err = s.err
  <2>1. Keeps(s, n) /\ Upd(s, n, {"nextReq", "sends"})
    BY <1>0, NotIssuedKeeps
  <2> HIDE DEF n
  <2>2. Still(s, n)
    BY <2>1, UpdStill
  <2> QED
    BY <2>1, <2>2 DEF Keeps, Upd, Fields
<1> HIDE DEF n
<1>2. Good(n, {}) /\ Net(n, {}) /\ Present(n, role) /\ n.stage = "ShuttingDown" /\ ~n.err
  BY <1>1, KeepGood DEF Good, Still, Present, Winds
<1>3. Basic(n, {})
  BY <1>1 DEF Winds, Basic, Still, Timed, Truthful
<1>4. Forces(n, f, role) /\ f \in Masters
  BY <1>1, <1>2, ForceFacts DEF Forces
<1>5. Still(f, t) /\ t.err = f.err
  <2>1. t = [f EXCEPT !.forced = TRUE]
    BY DEF n
  <2> HIDE DEF f
  <2>2. LET x == [f EXCEPT !.forced = TRUE] IN Upd(f, x, {"forced"})
    BY <1>4, ForcedKeeps
  <2>3. Upd(f, t, {"forced"})
    BY <2>1, <2>2
  <2> QED
    BY <2>3, UpdStill DEF Upd, Fields
<1> HIDE DEF f
<1>6. Basic(f, {})
  BY <1>2, <1>3, <1>4, ForcesBasic
<1>7. Basic(t, {}) /\ t.stage = "ShuttingDown" /\ ~t.err
  BY <1>2, <1>4, <1>5, <1>6 DEF Basic, Still, Timed, Truthful, Forces
<1>8. t.slot[role].pending = NoPending
  BY <1>2, <1>4, <1>5, <1>6 DEF Basic, Tidy, Forces, Still
<1>9. \A b \in Roles \ {role} : t.slot[b] = s.slot[b]
  BY <1>1, <1>4, <1>5 DEF Forces, Still
<1> QED
  BY <1>7, <1>8, <1>9 DEF Winds

LEMMA AskToStopWinds ==
  ASSUME NEW s, NEW role \in Roles, NEW R \in SUBSET Roles, NEW bad, Good(s, {}), Winds(s, R),
         NEW t, t = AskToStop(s, role, bad)
  PROVE  Winds(t, R \cup {role})
<1>0. Net(s, {}) /\ ~s.err
  BY DEF Good, Winds
<1>1. CASE ~Present(s, role)
  <2>1. s.slot[role] = NoSlot
    BY <1>1 DEF Winds, Basic, Tidy, Present
  <2>2. NoSlot.pending = NoPending /\ t = s
    BY <1>1, NewSlotFacts DEF NoSlot, AskToStop
  <2> QED
    BY <2>1, <2>2 DEF Winds
<1>2. CASE Present(s, role) /\ CanIssue(s, role, bad)
  BY <1>0, <1>2, AskedWinds DEF AskToStop
<1>3. CASE Present(s, role) /\ ~CanIssue(s, role, bad)
  BY <1>0, <1>3, KilledWinds DEF AskToStop
<1> QED
  BY <1>1, <1>2, <1>3

LEMMA ShutdownSane ==
  ASSUME NEW s, NEW bad, Good(s, {}), Sane(s, {}), ~s.err
  PROVE  Sane(Shutdown(s, bad), {})
<1> DEFINE k == Reaped(s)
           c == Closed(s)
           a1 == AskToStop(c, "active", bad)
           a2 == AskToStop(a1, "candidate", bad)
           a3 == AskToStop(a2, "retired", bad)
<1>0. Basic(s, {}) /\ s \in Masters
  BY DEF Sane, Good, Net
<1>1. Basic(k, {}) /\ ~k.err
  <2>1. Takes(s, TakeWorker(s, "active"), "active") /\ TakeWorker(s, "active").slot["active"] = NoSlot
    BY <1>0, TakeSlot, RoleNames
  <2>2. Basic(TakeWorker(s, "active"), {}) /\ ~TakeWorker(s, "active").err
    BY <1>0, <2>1, TakesBasic, RoleNames DEF Takes
  <2> QED
    BY <1>0, <2>2 DEF Reaped
<1>2. /\ Good(c, {}) /\ c.stage = "ShuttingDown"
      /\ c.slot = k.slot /\ c.proc = k.proc /\ c.err = k.err
  BY ClosedGood
<1>3. Shutdown(s, bad) = a3
  BY DEF Shutdown, Closed, Reaped
<1> HIDE DEF c, k
<1>4. Winds(c, {})
  BY <1>1, <1>2 DEF Winds, Basic, Timed, Truthful
<1>5. Good(a1, {}) /\ Winds(a1, {"active"}) /\ a1.stage = "ShuttingDown"
  <2>1. Winds(a1, {} \cup {"active"})
    BY <1>2, <1>4, AskToStopWinds, RoleNames
  <2> QED
    BY <1>2, <2>1, AskToStopGood, RoleNames DEF Winds
<1> HIDE DEF a1
<1>6. Good(a2, {}) /\ Winds(a2, {"active", "candidate"})
  <2>0. {"active"} \in SUBSET Roles
    BY RoleNames
  <2>1. Winds(a2, {"active"} \cup {"candidate"})
    BY <1>5, <2>0, AskToStopWinds, RoleNames
  <2> QED
    BY <1>5, <2>1, AskToStopGood, RoleNames DEF Winds
<1> HIDE DEF a2
<1>7. Winds(a3, Roles)
  <2>0. {"active", "candidate"} \in SUBSET Roles /\ "retired" \in Roles
    BY RoleNames
  <2>1. Winds(a3, {"active", "candidate"} \cup {"retired"})
    BY <1>6, <2>0, AskToStopWinds
  <2> QED
    BY <2>1 DEF Winds, Roles
<1> HIDE DEF a3
<1>8. Sane(a3, {})
  BY <1>7 DEF Winds, Sane, Starting
<1> QED
  BY <1>3, <1>8

---------------------------------------------------------------------------
(* What a worker does by itself *)

\* A turn of the control loop that answers b when the runtime answers ok.
Acts(p, q, b, ok) ==
    LET h == Head(p.inbox) IN
    /\ q.inbox = Tail(p.inbox) /\ q.linked = p.linked
    /\ q.outbox = Append(p.outbox, [kind |-> "Ack", req |-> h.req, phase |-> h.phase, ok |-> b])
    /\ p.startup = "fresh" =>
          \/ q.startup = "fresh" /\ ~b
          \/ q.startup = "pending" /\ q.run = "live" /\ h.phase = "AdoptListeners"
    /\ p.startup # "fresh" => q.startup \in {p.startup, "done"} /\ (b => h.phase # "AdoptListeners")
    /\ b /\ h.phase = "Activate" => q.startup = "done"
    /\ p.startup # "fresh" /\ h.phase # "Shutdown" /\ (ok \/ h.phase = "Drain") => q.run = "live"
    /\ p.startup = "done" /\ h.phase = "Quiesce" => q.handle /\ (ok => b)
    /\ p.startup = "done" /\ h.phase = "Reactivate" => (p.handle => b)

LEMMA AcknowledgedFacts ==
  ASSUME NEW p \in Procs, NEW b \in BOOLEAN, NEW a, a = Acknowledged(p, b), p.inbox # << >>
  PROVE  LET h == Head(p.inbox) IN
         /\ a.run = p.run /\ a.linked = p.linked /\ a.startup = p.startup /\ a.handle = p.handle
         /\ a.gate = p.gate /\ a.inbox = Tail(p.inbox)
         /\ a.outbox = Append(p.outbox, [kind |-> "Ack", req |-> h.req, phase |-> h.phase, ok |-> b])
         /\ a = [f \in {"run", "revision", "linked", "startup", "gate", "handle", "inbox", "outbox"}
                   |-> a[f]]
  BY DEF Acknowledged, Request, Procs

LEMMA TurnActs ==
  ASSUME NEW p \in Procs, NEW d, NEW ok \in BOOLEAN, Reads(p), NEW q, q = Turn(p, d, ok)
  PROVE  \E b \in BOOLEAN : Acts(p, q, b, ok)
<1> DEFINE h == Head(p.inbox)
           F(b) == [kind |-> "Ack", req |-> h.req, phase |-> h.phase, ok |-> b]
           Flds == {"run", "revision", "linked", "startup", "gate", "handle", "inbox", "outbox"}
           a(b) == Acknowledged(p, b)
<1>0. p.inbox # << >> /\ p.run = "live" /\ p.handle \in BOOLEAN
  BY DEF Reads, Procs
<1>1. ASSUME NEW b \in BOOLEAN
      PROVE  /\ a(b).run = "live" /\ a(b).linked = p.linked /\ a(b).startup = p.startup
             /\ a(b).handle = p.handle /\ a(b).inbox = Tail(p.inbox)
             /\ a(b).outbox = Append(p.outbox, F(b))
             /\ a(b) = [f \in Flds |-> a(b)[f]]
  BY <1>0, AcknowledgedFacts
<1> HIDE DEF a, F
<1>2. CASE p.startup = "fresh"
  <2>1. CASE ok /\ h.phase = "AdoptListeners" /\ d = p.revision
    <3>1. q = [a(TRUE) EXCEPT !.startup = "pending"]
      BY <1>2, <2>1 DEF Turn, AdoptFirst, Request, a
    <3>2. /\ q.run = "live" /\ q.linked = p.linked /\ q.startup = "pending"
          /\ q.inbox = Tail(p.inbox) /\ q.outbox = Append(p.outbox, F(TRUE))
      BY <1>1, <3>1
    <3>3. Acts(p, q, TRUE, ok)
      BY <1>2, <2>1, <3>2 DEF Acts, F
    <3> QED
      BY <3>3
  <2>2. CASE ~(ok /\ h.phase = "AdoptListeners" /\ d = p.revision)
    <3>1. q = [a(FALSE) EXCEPT !.run = "leaving", !.gate = "closed"]
      BY <1>2, <2>2 DEF Turn, AdoptFirst, Request, Leaves, a
    <3>2. /\ q.linked = p.linked /\ q.startup = "fresh"
          /\ q.inbox = Tail(p.inbox) /\ q.outbox = Append(p.outbox, F(FALSE))
      BY <1>1, <1>2, <3>1
    <3>3. Acts(p, q, FALSE, ok)
      BY <1>2, <3>2 DEF Acts, F
    <3> QED
      BY <3>3
  <2> QED
    BY <2>1, <2>2
<1>3. CASE p.startup # "fresh"
  <2>0. q = ServeRequest(p, ok) /\ Request(p) = h
    BY <1>3 DEF Turn, Request
  <2>a. ASSUME NEW b \in BOOLEAN, q = a(b), b => h.phase \notin {"AdoptListeners", "Activate"},
               p.startup = "done" => h.phase \notin {"Quiesce", "Reactivate"}
        PROVE  Acts(p, q, b, ok)
    <3>1. /\ q.run = "live" /\ q.linked = p.linked /\ q.startup = p.startup
          /\ q.inbox = Tail(p.inbox) /\ q.outbox = Append(p.outbox, F(b))
      BY <1>1, <2>a
    <3> QED
      BY <1>3, <2>a, <3>1 DEF Acts, F
  <2>1. CASE h.phase = "Activate"
    <3>1. CASE p.startup = "pending" /\ ok
      <4>1. q = [a(TRUE) EXCEPT !.startup = "done", !.gate = "open"]
        BY <2>0, <2>1, <3>1 DEF ServeRequest, a
      <4>2. /\ q.run = "live" /\ q.linked = p.linked /\ q.startup = "done"
            /\ q.inbox = Tail(p.inbox) /\ q.outbox = Append(p.outbox, F(TRUE))
        BY <1>1, <4>1
      <4>3. Acts(p, q, TRUE, ok)
        BY <1>3, <2>1, <4>2 DEF Acts, F
      <4> QED
        BY <4>3
    <3>2. CASE p.startup = "pending" /\ ~ok
      <4> DEFINE c == [a(FALSE) EXCEPT !.startup = "done"]
      <4>1. q = [c EXCEPT !.run = "leaving", !.gate = "closed"]
        BY <2>0, <2>1, <3>2 DEF ServeRequest, Leaves, a
      <4>2. /\ c.linked = p.linked /\ c.startup = "done" /\ c.inbox = Tail(p.inbox)
            /\ c.outbox = Append(p.outbox, F(FALSE)) /\ c = [f \in Flds |-> c[f]]
        BY <1>1
      <4> HIDE DEF c
      <4>3. /\ q.linked = p.linked /\ q.startup = "done"
            /\ q.inbox = Tail(p.inbox) /\ q.outbox = Append(p.outbox, F(FALSE))
        BY <4>1, <4>2
      <4>4. Acts(p, q, FALSE, ok)
        BY <1>3, <2>1, <3>2, <4>3 DEF Acts, F
      <4> QED
        BY <4>4
    <3>3. CASE p.startup # "pending"
      <4>1. q = a(FALSE)
        BY <2>0, <2>1, <3>3 DEF ServeRequest, a
      <4> QED
        BY <2>1, <2>a, <4>1
    <3> QED
      BY <3>1, <3>2, <3>3
  <2>2. CASE h.phase = "Shutdown"
    <3>1. q = [a(ok) EXCEPT !.run = "leaving", !.gate = "closed"]
      BY <2>0, <2>2 DEF ServeRequest, Leaves, a
    <3>2. /\ q.linked = p.linked /\ q.startup = p.startup
          /\ q.inbox = Tail(p.inbox) /\ q.outbox = Append(p.outbox, F(ok))
      BY <1>1, <3>1
    <3>3. Acts(p, q, ok, ok)
      BY <1>3, <2>2, <3>2 DEF Acts, F
    <3> QED
      BY <3>3
  <2>3. CASE h.phase = "Quiesce" /\ p.startup = "done"
    <3>1. q = [a(ok) EXCEPT !.gate = "closed", !.handle = TRUE]
      BY <2>0, <2>3 DEF ServeRequest, a
    <3>2. /\ q.run = "live" /\ q.linked = p.linked /\ q.startup = p.startup /\ q.handle
          /\ q.inbox = Tail(p.inbox) /\ q.outbox = Append(p.outbox, F(ok))
      BY <1>1, <3>1
    <3>3. Acts(p, q, ok, ok)
      BY <1>3, <2>3, <3>2 DEF Acts, F
    <3> QED
      BY <3>3
  <2>4. CASE h.phase = "Drain" /\ p.startup = "done"
    <3>1. q = [a(ok) EXCEPT !.gate = "closed", !.handle = FALSE]
      BY <2>0, <2>4 DEF ServeRequest, a
    <3>2. /\ q.run = "live" /\ q.linked = p.linked /\ q.startup = p.startup
          /\ q.inbox = Tail(p.inbox) /\ q.outbox = Append(p.outbox, F(ok))
      BY <1>1, <3>1
    <3>3. Acts(p, q, ok, ok)
      BY <1>3, <2>4, <3>2 DEF Acts, F
    <3> QED
      BY <3>3
  <2>5. CASE h.phase = "Reactivate"
    <3> DEFINE b == p.handle
               g == IF b THEN "open" ELSE a(b).gate
    <3>1. q = [a(b) EXCEPT !.gate = g, !.handle = FALSE]
      BY <2>0, <2>5 DEF ServeRequest, Reactivated, a
    <3> HIDE DEF g
    <3>2. /\ q.run = "live" /\ q.linked = p.linked /\ q.startup = p.startup
          /\ q.inbox = Tail(p.inbox) /\ q.outbox = Append(p.outbox, F(b))
      BY <1>0, <1>1, <3>1
    <3>3. Acts(p, q, b, ok)
      BY <1>3, <2>5, <3>2 DEF Acts, F
    <3> QED
      BY <1>0, <3>3
  <2>6. CASE h.phase \in {"Quiesce", "Drain"} /\ p.startup # "done"
    <3>1. q = a(FALSE)
      BY <2>0, <2>6 DEF ServeRequest, a
    <3> QED
      BY <2>6, <2>a, <3>1
  <2>7. CASE h.phase \notin {"Activate", "Shutdown", "Quiesce", "Drain", "Reactivate"}
    <3>1. q = a(FALSE)
      BY <2>0, <2>7 DEF ServeRequest, a
    <3> QED
      BY <2>7, <2>a, <3>1
  <2> QED
    BY <2>1, <2>2, <2>3, <2>4, <2>5, <2>6, <2>7
<1> QED
  BY <1>2, <1>3

\* What the master's view of worker i survives.
Fares(i, p, q) ==
    /\ Spoken(p) => Spoken(q)
    /\ Obeys(p) => Obeys(q)
    /\ Hired(i, p) => Hired(i, q)
    /\ i \notin Faulty /\ Hired(i, p) /\ p.startup # "fresh" => q.startup # "fresh"
    /\ i \notin Faulty /\ Obeys(p) /\ Upright(p) /\ p.startup = "done" =>
          /\ Upright(q) /\ q.startup = "done"
          /\ Held(p) => Held(q)
          /\ Tame(p) =>
                /\ Tame(q)
                /\ \A k \in DOMAIN q.outbox :
                      (\E m \in DOMAIN p.outbox : q.outbox[k] = p.outbox[m]) \/ q.outbox[k].ok

LEMMA FaresSelf ==
  ASSUME NEW i, NEW p
  PROVE  Fares(i, p, p)
  BY DEF Fares

LEMMA FaresSane ==
  ASSUME NEW s, NEW t, Good(s, {}), Sane(s, {}), t.stage = s.stage, t.sup = s.sup, t.slot = s.slot,
         \A j \in InstanceIds : Fares(j, s.proc[j], t.proc[j])
  PROVE  Sane(t, {})
<1>0. Basic(s, {}) /\ s \in Masters /\ Matched(s) /\ Control(s)
  BY DEF Sane, Good, Net, Control
<1>1. Basic(t, {})
  <2>1. Truthful(t, {})
    BY <1>0 DEF Basic, Truthful, Fares
  <2> QED
    BY <1>0, <2>1 DEF Basic, Timed
<1>2. ASSUME t.stage \in Starting
      PROVE  Boots(t.stage, t.slot["active"], t.proc[t.slot["active"].id])
  <2> DEFINE w == s.slot["active"]
             p == s.proc[w.id]
             q == t.proc[w.id]
  <2>1. Boots(s.stage, w, p)
    BY <1>2 DEF Sane
  <2>2. w.id \in InstanceIds => Fares(w.id, p, q)
    OBVIOUS
  <2>3. t.slot["active"] = w /\ t.proc[t.slot["active"].id] = q
    OBVIOUS
  <2> HIDE DEF w, p, q
  <2>4. Boots(s.stage, w, q)
    BY <2>1, <2>2 DEF Boots, Fares
  <2> QED
    BY <2>3, <2>4
<1>3. ASSUME t.stage = "Operational" PROVE Oper(t, {})
  <2> DEFINE w == s.slot["active"]
             p == s.proc[w.id]
             q == t.proc[w.id]
             v == s.slot["candidate"]
             m == s.proc[v.id]
             n == t.proc[v.id]
             l == s.sup.active.lifecycle
             h == s.sup.candidate
  <2>0. Oper(s, {})
    BY <1>3, SaneOper
  <2>1. Leads(s.sup, w, p) /\ Heeds(l, w, p, {}) /\ Tries(h, v, m)
        /\ Retires(s.sup.retired, s.slot["retired"])
    BY <2>0 DEF Oper
  <2>2. w.id \in InstanceIds
    BY <1>0, <1>3, ActivePresent
  <2>3. Fares(w.id, p, q)
    BY <2>2
  <2>4. Occupied(h) => v.id \in InstanceIds
    <3>1. v.id = h.instance_id /\ v.id \in InstanceIds \cup {NoInstance}
      BY <1>0, <1>3, MasterFields, RoleNames DEF Matched, SlotRecords, Ids
    <3> QED
      BY <3>1 DEF Occupied
  <2>5. Occupied(h) => Fares(v.id, m, n)
    BY <2>4
  <2>6. /\ t.slot["active"] = w /\ t.proc[t.slot["active"].id] = q
        /\ t.slot["candidate"] = v /\ t.proc[t.slot["candidate"].id] = n
        /\ t.sup.active.lifecycle = l /\ t.sup.candidate = h
    OBVIOUS
  <2> HIDE DEF w, p, q, v, m, n, l, h
  <2>7. Leads(s.sup, w, q)
    BY <2>1, <2>3 DEF Leads, Fares
  <2>8. Heeds(l, w, q, {})
    <3> SUFFICES ASSUME Calm, w.id \notin Faulty
                 PROVE  /\ l = "Quiescing" => Held(q)
                        /\ l = "Reactivating" => Tame(q)
                        /\ w.pending.phase = "Reactivate" =>
                              \A k \in DOMAIN q.outbox : q.outbox[k].req = w.pending.req
                                                            => q.outbox[k].ok
      BY DEF Heeds
    <3>1. Obeys(p) /\ Upright(p) /\ p.startup = "done"
      BY <2>1 DEF Leads
    <3>2. /\ Held(p) => Held(q)
          /\ Tame(p) =>
                /\ Tame(q)
                /\ \A k \in DOMAIN q.outbox :
                      (\E x \in DOMAIN p.outbox : q.outbox[k] = p.outbox[x]) \/ q.outbox[k].ok
      BY <2>3, <3>1 DEF Fares
    <3>3. /\ l = "Quiescing" => Held(p)
          /\ l = "Reactivating" => Tame(p)
          /\ w.pending.phase = "Reactivate" =>
                \A k \in DOMAIN p.outbox : p.outbox[k].req = w.pending.req => p.outbox[k].ok
      BY <2>1 DEF Heeds
    <3>4. w.pending.phase = "Reactivate" => l = "Reactivating"
      <4>1. NoPending.phase = "None"
        BY DEF NoPending
      <4> QED
        BY <2>1, <4>1 DEF Leads, l
    <3> QED
      BY <3>2, <3>3, <3>4
  <2>9. Tries(h, v, n)
    BY <2>1, <2>5 DEF Tries, Fares
  <2> QED
    BY <2>1, <2>6, <2>7, <2>8, <2>9 DEF Oper
<1> QED
  BY <1>1, <1>2, <1>3 DEF Sane, Present

LEMMA GoneFares ==
  ASSUME NEW i, NEW p, i \in Faulty \/ p.run # "live"
  PROVE  Fares(i, p, Gone(p))
<1> DEFINE q == Gone(p)
<1>1. q.startup = "fresh" /\ q.inbox = << >> /\ q.outbox = << >>
  BY DEF Gone, Unborn
<1> HIDE DEF q
<1>2. Spoken(q) /\ Obeys(q) /\ Hired(i, q)
  BY <1>1, Blank DEF Hired
<1>3. Fares(i, p, q)
  BY <1>2 DEF Fares, Hired, Upright
<1> QED
  BY <1>3 DEF q

LEMMA HungUpFares ==
  ASSUME NEW i, NEW p \in Procs, i \in Faulty \/ p.run # "live"
  PROVE  Fares(i, p, HungUp(p))
<1> DEFINE q == HungUp(p)
<1>1. q.startup = p.startup /\ q.inbox = p.inbox /\ q.outbox = p.outbox
  BY DEF HungUp, Leaves, Procs
<1> HIDE DEF q
<1>2. (Spoken(p) => Spoken(q)) /\ (Obeys(p) => Obeys(q))
  BY <1>1 DEF Spoken, Says, Obeys
<1>3. Fares(i, p, q)
  BY <1>1, <1>2 DEF Fares, Hired, Upright
<1> QED
  BY <1>3 DEF q

LEMMA BadFrameFares ==
  ASSUME NEW i \in Faulty, NEW p \in Procs, NEW f \in Frames, f.kind = "Bad", ~Calm
  PROVE  Fares(i, p, [p EXCEPT !.outbox = Append(@, f)])
<1> DEFINE q == [p EXCEPT !.outbox = Append(@, f)]
<1>0. p.outbox \in Seq(Frames)
  BY DEF Procs
<1>1. q.startup = p.startup /\ q.inbox = p.inbox /\ q.outbox = Append(p.outbox, f)
  BY DEF Procs
<1> HIDE DEF q
<1>2. \A k \in DOMAIN q.outbox : (k \in DOMAIN p.outbox /\ q.outbox[k] = p.outbox[k]) \/ q.outbox[k] = f
  BY <1>0, <1>1, AppendCases
<1>3. (Spoken(p) => Spoken(q)) /\ (Obeys(p) => Obeys(q))
  BY <1>1, <1>2 DEF Spoken, Says, Obeys
<1>4. Fares(i, p, q)
  BY <1>3 DEF Fares, Hired
<1> QED
  BY <1>4 DEF q

LEMMA OneLeft ==
  ASSUME NEW S, NEW e \in Seq(S), e # << >>
  PROVE  /\ Tail(e) \in Seq(S) /\ (Len(e) = 1 => Tail(e) = << >>)
         /\ Len(e) = 2 => Len(Tail(e)) = 1 /\ Tail(e)[1] = e[2]
         /\ Head(e) = e[1] /\ 1 \in DOMAIN e
         /\ \A k \in DOMAIN Tail(e) : k + 1 \in DOMAIN e /\ Tail(e)[k] = e[k + 1]
<1>1. /\ Tail(e) \in Seq(S) /\ Head(e) = e[1] /\ 1 \in DOMAIN e
      /\ \A k \in DOMAIN Tail(e) : k + 1 \in DOMAIN e /\ Tail(e)[k] = e[k + 1]
  BY TailFacts
<1>2. Len(Tail(e)) = Len(e) - 1
  OBVIOUS
<1>3. Len(e) = 1 => Tail(e) = << >>
  BY <1>1, <1>2
<1>4. Len(e) = 2 => Len(Tail(e)) = 1 /\ Tail(e)[1] = e[2]
  <2>1. DOMAIN Tail(e) = 1..Len(Tail(e))
    BY <1>1, Elements
  <2> QED
    BY <1>1, <1>2, <2>1
<1> QED
  BY <1>1, <1>3, <1>4

LEMMA ServeFares ==
  ASSUME NEW i, NEW p \in Procs, NEW d, NEW ok \in BOOLEAN, Reads(p), Spoken(p),
         i \in Faulty \/ ok \/ Head(p.inbox).phase = "Drain", NEW q, q = Turn(p, d, ok)
  PROVE  Fares(i, p, q)
<1> DEFINE h == Head(p.inbox)
<1>0. /\ p.inbox \in Seq(Requests) /\ p.inbox # << >> /\ p.run = "live" /\ p.linked
      /\ p.outbox \in Seq(Frames) /\ p.startup \in {"fresh", "pending", "done"}
  BY DEF Reads, Procs
<1>1. PICK b \in BOOLEAN : Acts(p, q, b, ok)
  BY TurnActs
<1> DEFINE f == [kind |-> "Ack", req |-> h.req, phase |-> h.phase, ok |-> b]
<1>2. /\ Tail(p.inbox) \in Seq(Requests) /\ (Len(p.inbox) = 1 => Tail(p.inbox) = << >>)
      /\ Len(p.inbox) = 2 => Len(Tail(p.inbox)) = 1 /\ Tail(p.inbox)[1] = p.inbox[2]
      /\ h = p.inbox[1] /\ 1 \in DOMAIN p.inbox
      /\ \A k \in DOMAIN Tail(p.inbox) : k + 1 \in DOMAIN p.inbox /\ Tail(p.inbox)[k] = p.inbox[k + 1]
  BY <1>0, OneLeft
<1>3. h \in Requests /\ h.req \in Nat /\ h.phase \in Phases
  <2>1. h \in Requests
    BY <1>0, <1>2, Elements
  <2> QED
    BY <2>1 DEF Requests
<1>4. f \in Frames /\ f.kind = "Ack" /\ f.phase = h.phase /\ f.ok = b
  BY <1>3 DEF Frames
<1>5. /\ q.inbox = Tail(p.inbox) /\ q.linked = p.linked /\ q.outbox = Append(p.outbox, f)
      /\ p.startup = "fresh" =>
            \/ q.startup = "fresh" /\ ~b
            \/ q.startup = "pending" /\ q.run = "live" /\ h.phase = "AdoptListeners"
      /\ p.startup # "fresh" =>
            q.startup \in {p.startup, "done"} /\ (b => h.phase # "AdoptListeners")
      /\ b /\ h.phase = "Activate" => q.startup = "done"
      /\ p.startup # "fresh" /\ h.phase # "Shutdown" /\ (ok \/ h.phase = "Drain") => q.run = "live"
      /\ p.startup = "done" /\ h.phase = "Quiesce" => q.handle /\ (ok => b)
      /\ p.startup = "done" /\ h.phase = "Reactivate" => (p.handle => b)
  BY <1>1 DEF Acts
<1> HIDE DEF f, h
<1>6. \A k \in DOMAIN q.outbox : (k \in DOMAIN p.outbox /\ q.outbox[k] = p.outbox[k]) \/ q.outbox[k] = f
  BY <1>0, <1>4, <1>5, AppendCases
<1>7. Spoken(q)
  <2>1. \A k \in DOMAIN q.inbox : q.inbox[k].phase \in ControlPhases
    BY <1>2, <1>5 DEF Spoken
  <2>2. Says(q, f)
    <3>1. h.phase \in ControlPhases
      BY <1>2 DEF Spoken
    <3> QED
      BY <1>4, <1>5, <3>1 DEF Says
  <2>3. ASSUME NEW k \in DOMAIN p.outbox, Says(p, p.outbox[k]) PROVE Says(q, p.outbox[k])
    BY <1>0, <1>5, <2>3 DEF Says
  <2>4. ASSUME NEW k \in DOMAIN q.outbox
        PROVE  \/ q.outbox[k].kind = "Ack" /\ Says(q, q.outbox[k])
               \/ q.outbox[k].kind = "Bad" /\ ~Calm
    <3>1. CASE q.outbox[k] = f
      BY <1>4, <2>2, <3>1
    <3>2. CASE k \in DOMAIN p.outbox /\ q.outbox[k] = p.outbox[k]
      <4>1. \/ p.outbox[k].kind = "Ack" /\ Says(p, p.outbox[k])
            \/ p.outbox[k].kind = "Bad" /\ ~Calm
        BY <3>2 DEF Spoken
      <4> QED
        BY <2>3, <3>2, <4>1
    <3> QED
      BY <1>6, <3>1, <3>2
  <2> QED
    BY <2>1, <2>4 DEF Spoken
<1>8. Obeys(p) => Obeys(q)
  BY <1>2, <1>5 DEF Obeys
<1>9. Obeys(p) => h.phase # "Shutdown"
  BY <1>2 DEF Obeys
<1>10. ASSUME i \notin Faulty, Obeys(p), p.startup # "fresh"
       PROVE  Upright(q) /\ q.startup \in {p.startup, "done"}
  BY <1>0, <1>5, <1>9, <1>10 DEF Upright, h
<1>11. Hired(i, p) => Hired(i, q)
  BY <1>0, <1>5, <1>8, <1>10 DEF Hired, Upright
<1>12. ASSUME i \notin Faulty, p.startup = "done"
       PROVE  /\ Held(p) => Held(q)
              /\ Tame(p) => Tame(q) /\ b
  <2>1. Held(p) => Held(q)
    BY <1>0, <1>2, <1>5, <1>12 DEF Held
  <2>2. ASSUME Len(p.inbox) = 1, p.inbox[1].phase = "Reactivate", p.handle PROVE Tame(q) /\ b
    BY <1>2, <1>5, <1>12, <2>2 DEF Tame
  <2>3. ASSUME Len(p.inbox) = 2, p.inbox[1].phase = "Quiesce", p.inbox[2].phase = "Reactivate"
        PROVE  Tame(q) /\ b
    <3>1. ok
      BY <1>2, <1>12, <2>3 DEF h
    <3> QED
      BY <1>2, <1>5, <1>12, <2>3, <3>1 DEF Tame
  <2> QED
    BY <1>0, <2>1, <2>2, <2>3 DEF Tame
<1>13. b => \A k \in DOMAIN q.outbox :
               (\E m \in DOMAIN p.outbox : q.outbox[k] = p.outbox[m]) \/ q.outbox[k].ok
  BY <1>4, <1>6
<1>14. ASSUME i \notin Faulty, Obeys(p), p.startup = "done"
       PROVE  /\ Upright(q) /\ q.startup = "done"
              /\ Held(p) => Held(q)
              /\ Tame(p) =>
                    /\ Tame(q)
                    /\ \A k \in DOMAIN q.outbox :
                          (\E m \in DOMAIN p.outbox : q.outbox[k] = p.outbox[m]) \/ q.outbox[k].ok
  BY <1>10, <1>12, <1>13, <1>14
<1>15. i \notin Faulty /\ Hired(i, p) /\ p.startup # "fresh" => q.startup # "fresh"
  BY <1>5
<1> QED
  BY <1>7, <1>8, <1>11, <1>14, <1>15 DEF Fares

---------------------------------------------------------------------------
(* The third invariant *)

\* The master and its workers behave as Sane says until the runner has returned,
\* and no poll has returned an error if at most one worker is faulty.
SInv ==
    /\ spent \in [DOMAIN Bounds -> Nat]
    /\ Lone => cause # "Poll"
    /\ Booted => IF runner = "ended" THEN stage \in {"Failing", "Failed"} => Blamed(sup)
                 ELSE Sane(Sys, {})

Disturbances == {"crashes", "frames", "sends", "spawns", "writes", "stops"}

LEMMA BoundNames == DOMAIN Bounds = Disturbances /\ Bounds.sends \in Nat /\ Bounds.frames \in Nat
  BY MasterAssumption DEF Disturbances

LEMMA BadCount ==
  ASSUME NEW bad \in BadSends
  PROVE  Cardinality(bad) \in Nat /\ (Cardinality(bad) = 0 => bad = {})
<1>1. bad \in SUBSET (1..4)
  BY DEF BadSends
<1>2. IsFiniteSet(1..4)
  <2>1. 1 \in Int /\ 4 \in Int
    OBVIOUS
  <2> QED
    BY <2>1, FS_Interval
<1>3. IsFiniteSet(bad)
  BY <1>1, <1>2, FS_Subset
<1> QED
  BY <1>3, FS_CardinalityType, FS_EmptySet

\* Nobody pays for a send that fails where none may.
LEMMA CalmSends ==
  ASSUME spent \in [DOMAIN Bounds -> Nat], NEW bad \in BadSends, Calm
  PROVE  bad = {}
<1>1. spent.sends + Cardinality(bad) <= 0 /\ spent.sends \in Nat
  BY BoundNames DEF BadSends, Calm, Disturbances
<1>2. Cardinality(bad) \in Nat
  BY BadCount
<1>3. Cardinality(bad) = 0
  BY <1>1, <1>2
<1> QED
  BY <1>3, BadCount

\* A request to reopen the gate is overdue only if the worker that owes it is faulty.
LEMMA DueFaulty ==
  ASSUME Good(Sys, {}), Sane(Sys, {}), MayBeDue, stage = "Operational",
         slot["active"].pending.phase = "Reactivate"
  PROVE  slot["active"].id \in Faulty
<1>0. /\ Basic(Sys, {}) /\ Oper(Sys, {}) /\ Matched(Sys)
  BY SysFields, SaneOper DEF Good, Control
<1>1. /\ Leads(sup, slot["active"], proc[slot["active"].id])
      /\ Tries(sup.candidate, slot["candidate"], proc[slot["candidate"].id])
      /\ Agree(sup) /\ slot["candidate"].id = sup.candidate.instance_id
      /\ slot["retired"].id = sup.retired.instance_id
      /\ \A role \in Roles : Tidy(slot[role]) /\ (slot[role].deadline => role = "retired")
  BY <1>0, SysFields, RoleNames DEF Oper, Matched, Basic, Timed
<1>2. NoPending.phase = "None" /\ NoSlot.pending = NoPending /\ NoSlot.deadline = FALSE
  BY NewSlotFacts, NoSlotTidy DEF NoPending, NoSlot
<1>3. sup.active.lifecycle = "Reactivating"
  BY <1>1, <1>2 DEF Leads
<1>4. ~Occupied(sup.retired) /\ (Occupied(sup.candidate) => sup.candidate.lifecycle = "Stopping")
  BY <1>1, <1>3 DEF Agree
<1>5. slot["retired"] = NoSlot
  BY <1>1, <1>4, RoleNames DEF Occupied, Tidy
<1>6. slot["candidate"].pending = NoPending
  <2>1. CASE Occupied(sup.candidate)
    BY <1>1, <1>4, <2>1, RoleNames DEF Tries, Tidy
  <2>2. CASE ~Occupied(sup.candidate)
    BY <1>1, <1>2, <2>2, RoleNames DEF Occupied, Tidy
  <2> QED
    BY <2>1, <2>2
<1>7. PICK role \in Roles :
         /\ slot[role].pending # NoPending \/ slot[role].deadline
         /\ slot[role].id \in Faulty \/ slot[role].pending.phase \in {"Drain", "Shutdown"}
  BY DEF MayBeDue
<1>8. role = "active"
  <2>1. role # "retired"
    BY <1>2, <1>5, <1>7
  <2>2. role # "candidate"
    BY <1>1, <1>6, <1>7
  <2> QED
    BY <2>1, <2>2 DEF Roles
<1> QED
  BY <1>7, <1>8

\* An iteration that calls poll.
LEMMA IterationSane ==
  ASSUME IInv, SInv, Booted, runner # "ended", NEW due, due => MayBeDue, NEW bad \in BadSends,
         NEW t, t = Poll(Sys, due, bad)
  PROVE  Sane(t, {}) /\ (t.err => ~Lone)
<1>1. Good(Sys, {}) /\ Sane(Sys, {}) /\ ~Sys.err
  BY FreshFacts, SysFields DEF IInv, SInv
<1>2. Calm => bad = {}
  BY CalmSends DEF SInv
<1>3. /\ due /\ Calm /\ Sys.stage = "Operational" /\ Sys.slot["active"].pending.phase = "Reactivate"
      => Sys.slot["active"].id \in Faulty
  BY <1>1, DueFaulty, SysFields
<1> QED
  BY <1>1, <1>2, <1>3, PollSane

LEMMA SysSane ==
  ASSUME NEW t, Sane(t, {}), Becomes(t)
  PROVE  Sane(Sys', {})
<1>1. Sys'.stage = stage' /\ Sys'.sup = sup' /\ Sys'.slot = slot' /\ Sys'.proc = proc'
  BY DEF Sys
<1>2. Still(t, Sys')
  BY <1>1 DEF Becomes, Still
<1> QED
  BY <1>2, StillSane

LEMMA PaidSpent ==
  ASSUME spent \in [DOMAIN Bounds -> Nat], NEW bad \in BadSends, NEW k \in Disturbances, NEW n \in Nat,
         \/ spent' = [spent EXCEPT !.sends = @ + Cardinality(bad)]
         \/ spent' = [spent EXCEPT !.sends = @ + Cardinality(bad), ![k] = n]
  PROVE  spent' \in [DOMAIN Bounds -> Nat]
<1> DEFINE c == Cardinality(bad)
<1>1. c \in Nat
  BY BadCount
<1>2. /\ DOMAIN Bounds = Disturbances /\ "sends" \in Disturbances
  BY BoundNames DEF Disturbances
<1> HIDE DEF c
<1>3. spent.sends + c \in Nat
  BY <1>1, <1>2
<1>4. CASE spent' = [spent EXCEPT !.sends = spent.sends + c]
  BY <1>3, <1>4
<1>5. CASE spent' = [spent EXCEPT !.sends = spent.sends + c, ![k] = n]
  BY <1>2, <1>3, <1>5
<1> QED
  BY <1>2, <1>4, <1>5 DEF c

LEMMA InitSInv ==
  ASSUME Init
  PROVE  SInv
<1>1. ~Booted
  BY InitIInv, UnbornFacts, FirstId DEF Init, Booted
<1>2. spent \in [DOMAIN Bounds -> Nat] /\ cause # "Poll"
  BY DEF Init
<1> QED
  BY <1>1, <1>2 DEF SInv

LEMMA LaunchFirstSInv ==
  ASSUME IInv, SInv, LaunchFirst
  PROVE  SInv'
<1>1. Fresh(Sys) /\ runner = "driving" /\ catalog.doc["Active"].revision \in Revisions
  BY GoodFacts DEF IInv, LaunchFirst
<1> DEFINE r == catalog.doc["Active"].revision
<1>2. PICK bad \in BadSends : Paying(Launch(Sys, 1, Newborn(r), bad), bad)
  BY DEF LaunchFirst
<1>3. Calm => bad = {}
  BY CalmSends DEF SInv
<1>4. ~Sys.err
  BY SysFields
<1> DEFINE t == Launch(Sys, 1, Newborn(r), bad)
<1>5. Sane(t, {})
  BY <1>1, <1>3, <1>4, LaunchSane
<1>6. Becomes(t) /\ spent' = [spent EXCEPT !.sends = @ + Cardinality(bad)]
  BY <1>2 DEF Paying, Paid
<1> HIDE DEF t
<1>7. Sane(Sys', {})
  BY <1>5, <1>6, SysSane
<1>8. spent' \in [DOMAIN Bounds -> Nat]
  BY <1>6, PaidSpent DEF SInv, Disturbances
<1> QED
  BY <1>1, <1>7, <1>8 DEF SInv, LaunchFirst

LEMMA DrivePollSInv ==
  ASSUME IInv, SInv, NEW due \in BOOLEAN, DrivePoll(due)
  PROVE  SInv'
<1>1. PICK bad \in BadSends : Polled(Poll(Sys, due, bad), bad)
  BY DEF DrivePoll
<1> DEFINE t == Poll(Sys, due, bad)
<1>2. Sane(t, {}) /\ (t.err => ~Lone)
  BY IterationSane DEF DrivePoll
<1>3. /\ Becomes(t) /\ spent' = [spent EXCEPT !.sends = @ + Cardinality(bad)]
      /\ cause' = "Poll" => t.err \/ cause = "Poll"
      /\ runner' # "ended"
  <2>1. Polled(t, bad) /\ runner = "driving"
    BY <1>1 DEF DrivePoll
  <2> HIDE DEF t
  <2> QED
    BY <2>1 DEF Polled, Paying, Paid
<1> HIDE DEF t
<1>4. Sane(Sys', {})
  BY <1>2, <1>3, SysSane
<1>5. spent' \in [DOMAIN Bounds -> Nat]
  BY <1>3, PaidSpent DEF SInv, Disturbances
<1> QED
  BY <1>2, <1>3, <1>4, <1>5 DEF SInv

LEMMA TakenStill ==
  ASSUME NEW s \in Masters
  PROVE  Still(s, [s EXCEPT !.events = << >>])
<1>1. Upd(s, [s EXCEPT !.events = << >>], {"events"})
  BY MasterFields DEF Upd, IsRecord, Fields
<1> QED
  BY <1>1, UpdStill

LEMMA DriveReloadSInv ==
  ASSUME IInv, SInv, DriveReload
  PROVE  SInv'
<1>1. Good(Sys, {}) /\ disk \in Revisions
  BY FreshFacts DEF IInv, DriveReload
<1>2. PICK bad \in BadSends, spawned \in BOOLEAN :
          PolledWithReload(Poll(Sys, FALSE, bad), spawned, bad)
  BY DEF DriveReload
<1>3. Calm => bad = {}
  BY CalmSends DEF SInv
<1> DEFINE t == Poll(Sys, FALSE, bad)
           c == ApplyCatalogEvents(catalog, t.events)
           u == [t EXCEPT !.events = << >>]
           r == Reconcile(u, c.cat, disk, spawned, bad)
<1>4. Good(t, {}) /\ Sane(t, {})
  BY <1>1, PollGood, IterationSane DEF DriveReload
<1>5. c.cat.next \in InstanceIds /\ Reconciled(r, spawned, bad)
  BY <1>2 DEF PolledWithReload, PolledThenReconciled, MayReconcile
<1> HIDE DEF t, c
<1>6. Good(u, {}) /\ Sane(u, {})
  BY <1>4, TakenGood, TakenStill, StillSane DEF Good, Net
<1> HIDE DEF u
<1>7. Sane(r.master, {})
  BY <1>1, <1>3, <1>5, <1>6, ReconcileSane
<1> HIDE DEF r
<1>8. /\ Becomes(r.master) /\ runner' # "ended" /\ (cause' = "Poll" => cause = "Poll")
      /\ \E n : /\ n = IF spawned THEN spent.spawns ELSE spent.spawns + 1
                /\ spent' = [spent EXCEPT !.sends = @ + Cardinality(bad), !.spawns = n]
  BY <1>5 DEF Reconciled, DriveReload
<1>9. Sane(Sys', {})
  BY <1>7, <1>8, SysSane
<1>10. spent' \in [DOMAIN Bounds -> Nat]
  <2>1. PICK n : /\ n = IF spawned THEN spent.spawns ELSE spent.spawns + 1
                 /\ spent' = [spent EXCEPT !.sends = @ + Cardinality(bad), !.spawns = n]
    BY <1>8
  <2>2. n \in Nat /\ "spawns" \in Disturbances
    BY <2>1, BoundNames DEF SInv, Disturbances
  <2> QED
    BY <2>1, <2>2, PaidSpent DEF SInv
<1> QED
  BY <1>8, <1>9, <1>10 DEF SInv

LEMMA StopSInv ==
  ASSUME IInv, SInv, Stop
  PROVE  SInv'
<1>1. Good(Sys, {}) /\ Sane(Sys, {}) /\ ~Sys.err
  BY FreshFacts, SysFields DEF IInv, SInv, Stop
<1>2. PICK bad \in BadSends :
         /\ Becomes(Shutdown(Sys, bad))
         /\ spent' = [spent EXCEPT !.sends = @ + Cardinality(bad), !.stops = @ + 1]
  BY DEF Stop
<1>3. Sane(Shutdown(Sys, bad), {})
  BY <1>1, ShutdownSane
<1>4. Sane(Sys', {})
  BY <1>2, <1>3, SysSane
<1>5. spent' \in [DOMAIN Bounds -> Nat]
  <2> DEFINE n == spent.stops + 1
  <2>1. spent' = [spent EXCEPT !.sends = @ + Cardinality(bad), !.stops = n]
    BY <1>2
  <2>2. n \in Nat /\ "stops" \in Disturbances
    BY BoundNames DEF SInv, Disturbances
  <2> HIDE DEF n
  <2> QED
    BY <2>1, <2>2, PaidSpent DEF SInv
<1> QED
  BY <1>4, <1>5 DEF SInv, Stop

LEMMA CleanupSInv ==
  ASSUME IInv, SInv, Cleanup
  PROVE  SInv'
<1>1. Good(Sys, {}) /\ Sane(Sys, {}) /\ ~Sys.err
  BY GoodFacts, SysFields DEF IInv, SInv, Cleanup
<1>2. PICK bad \in BadSends : Paying(IF stage = "ShuttingDown" THEN Sys ELSE Shutdown(Sys, bad), bad)
  BY DEF Cleanup
<1>3. Sane(IF stage = "ShuttingDown" THEN Sys ELSE Shutdown(Sys, bad), {})
  BY <1>1, ShutdownSane
<1>4. Sane(Sys', {}) /\ spent' = [spent EXCEPT !.sends = @ + Cardinality(bad)]
  BY <1>2, <1>3, SysSane DEF Paying, Paid
<1>5. spent' \in [DOMAIN Bounds -> Nat]
  BY <1>4, PaidSpent DEF SInv, Disturbances
<1> QED
  BY <1>4, <1>5 DEF SInv, Cleanup

LEMMA WindDownSInv ==
  ASSUME IInv, SInv, NEW due \in BOOLEAN, WindDown(due)
  PROVE  SInv'
<1>1. Good(Sys, {}) /\ Booted
  BY GoodFacts DEF IInv, WindDown
<1>2. PICK bad \in BadSends : WoundDown(Poll(Sys, due, bad), bad)
  BY DEF WindDown
<1> DEFINE t == Poll(Sys, due, bad)
           d == [t EXCEPT !.proc = Dropped(t)]
           k == [t EXCEPT !.proc = t.proc]
<1>3. Good(t, {}) /\ Sane(t, {}) /\ (t.err => ~Lone)
  BY <1>1, PollGood, IterationSane DEF WindDown
<1>4. WoundDown(t, bad) /\ runner # "ended"
  BY <1>2 DEF WindDown
<1> HIDE DEF t
<1>5. /\ IF t.err /\ runner = "cleanup" THEN Becomes(d) /\ runner' = "ended"
         ELSE Becomes(k) /\ runner' # "ended"
      /\ cause' = "Poll" => t.err \/ cause = "Poll"
      /\ spent' = [spent EXCEPT !.sends = @ + Cardinality(bad)]
  BY <1>4 DEF WoundDown, Paid
<1>6. t \in Masters
  BY <1>3 DEF Good, Net
<1>7. k = t
  BY <1>6, MasterFields DEF IsRecord, Fields
<1>8. d.stage = t.stage /\ d.sup = t.sup
  BY <1>6, MasterFields DEF IsRecord, Fields
<1> HIDE DEF d, k
<1>9. IF runner' = "ended" THEN stage' \in {"Failing", "Failed"} => Blamed(sup')
      ELSE Sane(Sys', {})
  <2>1. CASE t.err /\ runner = "cleanup"
    BY <1>3, <1>5, <1>8, <2>1 DEF Becomes, Sane
  <2>2. CASE ~(t.err /\ runner = "cleanup")
    BY <1>3, <1>5, <1>7, <2>2, SysSane
  <2> QED
    BY <2>1, <2>2
<1>10. spent' \in [DOMAIN Bounds -> Nat]
  BY <1>5, PaidSpent DEF SInv, Disturbances
<1> QED
  BY <1>3, <1>5, <1>9, <1>10 DEF SInv

LEMMA EndSInv ==
  ASSUME IInv, SInv, End
  PROVE  SInv'
<1>1. Sane(Sys, {}) /\ UNCHANGED <<masterVars, cause, spent>> /\ runner' = "ended"
  BY GoodFacts, FreshFacts DEF IInv, SInv, End, Terminal
<1>2. stage \in {"Failing", "Failed"} => Blamed(sup)
  BY <1>1, SysFields DEF Sane
<1> QED
  BY <1>1, <1>2 DEF SInv, masterVars

LEMMA FaringSInv ==
  ASSUME IInv, SInv, NEW i \in InstanceIds, NEW q, WorkerChanges(i, q), proc[i].run # "unborn",
         Good(Sys, {}) /\ Sane(Sys, {}) => Fares(i, proc[i], q),
         spent' \in [DOMAIN Bounds -> Nat]
  PROVE  SInv'
<1>1. Good(Sys, {}) /\ Booted /\ proc \in [InstanceIds -> Procs]
  <2>1. Good(Sys, {})
    BY FreshFacts DEF IInv
  <2> QED
    BY <2>1, GoodFacts, MasterFields, SysFields
<1>2. UNCHANGED <<masterVars, runner, cause>> /\ proc' = [proc EXCEPT ![i] = q]
  BY DEF WorkerChanges
<1>3. CASE runner = "ended"
  BY <1>1, <1>2, <1>3 DEF SInv, masterVars
<1>4. CASE runner # "ended"
  <2>1. Sane(Sys, {}) /\ Fares(i, proc[i], q)
    BY <1>1, <1>4 DEF SInv
  <2>2. Sys'.stage = stage' /\ Sys'.sup = sup' /\ Sys'.slot = slot' /\ Sys'.proc = proc'
    BY DEF Sys
  <2>3. Sys'.stage = Sys.stage /\ Sys'.sup = Sys.sup /\ Sys'.slot = Sys.slot
    BY <1>2, <2>2, SysFields DEF masterVars
  <2>4. \A j \in InstanceIds : Fares(j, Sys.proc[j], Sys'.proc[j])
    <3> SUFFICES ASSUME NEW j \in InstanceIds PROVE Fares(j, proc[j], proc'[j])
      BY <2>2, SysFields
    <3>1. CASE j = i
      <4>1. proc'[i] = q
        BY <1>1, <1>2
      <4> QED
        BY <2>1, <3>1, <4>1
    <3>2. CASE j # i
      <4>1. proc'[j] = proc[j]
        BY <1>1, <1>2, <3>2
      <4> QED
        BY <4>1, FaresSelf
    <3> QED
      BY <3>1, <3>2
  <2>5. Sane(Sys', {})
    BY <1>1, <2>1, <2>3, <2>4, FaresSane
  <2> QED
    BY <1>2, <1>4, <2>5 DEF SInv
<1> QED
  BY <1>3, <1>4

LEMMA SpendSpent ==
  ASSUME spent \in [DOMAIN Bounds -> Nat], NEW k \in Disturbances, Spend(k)
  PROVE  spent' \in [DOMAIN Bounds -> Nat]
  BY BoundNames DEF Spend

LEMMA WorkerSInv ==
  ASSUME IInv, SInv, NEW i \in InstanceIds,
         Serve(i) \/ HangUp(i) \/ Exit(i) \/ Crash(i) \/ BadFrame(i)
  PROVE  SInv'
<1>0. spent \in [DOMAIN Bounds -> Nat]
  BY DEF SInv
<1>1. CASE Serve(i)
  <2>1. PICK ok \in Answers(i) : WorkerChanges(i, Turn(proc[i], disk, ok))
    BY <1>1 DEF Serve
  <2>2. ok \in BOOLEAN /\ (i \in Faulty \/ ok \/ Head(proc[i].inbox).phase = "Drain")
    BY Zenon DEF Answers, Request
  <2>3. Reads(proc[i]) /\ proc[i].run # "unborn" /\ spent' = spent
    BY <1>1 DEF Serve, Reads
  <2>4. Good(Sys, {}) /\ Sane(Sys, {}) => Fares(i, proc[i], Turn(proc[i], disk, ok))
    <3> SUFFICES ASSUME Good(Sys, {}), Sane(Sys, {}) PROVE Fares(i, proc[i], Turn(proc[i], disk, ok))
      OBVIOUS
    <3>1. proc[i] \in Procs /\ Spoken(proc[i])
      BY GoodFacts, SysFields DEF Sane, Basic, Truthful
    <3> QED
      BY <2>2, <2>3, <3>1, ServeFares
  <2> QED
    BY <1>0, <2>1, <2>3, <2>4, FaringSInv
<1>2. CASE HangUp(i)
  <2>1. Good(Sys, {}) /\ Sane(Sys, {}) => Fares(i, proc[i], HungUp(proc[i]))
    BY <1>2, GoodFacts, HungUpFares DEF HangUp
  <2> QED
    BY <1>0, <1>2, <2>1, FaringSInv DEF HangUp
<1>3. CASE Exit(i)
  <2>1. Good(Sys, {}) /\ Sane(Sys, {}) => Fares(i, proc[i], Gone(proc[i]))
    BY <1>3, GoneFares DEF Exit
  <2> QED
    BY <1>0, <1>3, <2>1, FaringSInv DEF Exit
<1>4. CASE Crash(i)
  <2>0. proc[i].run # "unborn" /\ i \in Faulty
    BY <1>4 DEF Crash
  <2>1. /\ Good(Sys, {}) /\ Sane(Sys, {}) => Fares(i, proc[i], HungUp(proc[i]))
        /\ Fares(i, proc[i], Gone(proc[i]))
    BY <2>0, GoodFacts, HungUpFares, GoneFares
  <2>2. WorkerChanges(i, Gone(proc[i])) \/ WorkerChanges(i, HungUp(proc[i]))
    BY <1>4 DEF Crash
  <2>3. spent' \in [DOMAIN Bounds -> Nat]
    BY <1>0, <1>4, SpendSpent DEF Crash, Disturbances
  <2> QED
    BY <2>0, <2>1, <2>2, <2>3, FaringSInv
<1>5. CASE BadFrame(i)
  <2> DEFINE f == [kind |-> "Bad", req |-> 0, phase |-> "None", ok |-> FALSE]
             q == [proc[i] EXCEPT !.outbox = Append(@, f)]
  <2>0. proc[i].run # "unborn" /\ i \in Faulty /\ WorkerChanges(i, q) /\ Spend("frames")
    BY <1>5 DEF BadFrame
  <2>1. f \in Frames /\ f.kind = "Bad"
    BY DEF Frames, Phases
  <2> HIDE DEF f
  <2>2. ~Calm
    BY <1>0, <2>0, BoundNames DEF Spend, Calm, Disturbances
  <2>3. spent' \in [DOMAIN Bounds -> Nat]
    BY <1>0, <2>0, SpendSpent DEF Disturbances
  <2>4. Good(Sys, {}) => Fares(i, proc[i], q)
    BY <2>0, <2>1, <2>2, GoodFacts, BadFrameFares
  <2> HIDE DEF q
  <2> QED
    BY <2>0, <2>3, <2>4, FaringSInv
<1> QED
  BY <1>1, <1>2, <1>3, <1>4, <1>5

\* SInv reads only these variables.
LEMMA IdleSInv ==
  ASSUME SInv, UNCHANGED <<masterVars, events, proc, runner, cause>>,
         spent' \in [DOMAIN Bounds -> Nat]
  PROVE  SInv'
<1>1. Sys' = Sys
  BY DEF Sys, masterVars
<1> QED
  BY <1>1 DEF SInv, masterVars, Booted

\* The third invariant holds throughout.
THEOREM MasterSInv == Spec => []SInv
<1>1. Init => SInv
  BY InitSInv
<1>2. IInv /\ SInv /\ [Next]_vars => SInv'
  <2> SUFFICES ASSUME IInv, SInv, [Next]_vars PROVE SInv'
    OBVIOUS
  <2>1. CASE LaunchFirst
    BY <2>1, LaunchFirstSInv
  <2>2. CASE DriveReload
    BY <2>2, DriveReloadSInv
  <2>3. CASE Stop
    BY <2>3, StopSInv
  <2>4. CASE Cleanup
    BY <2>4, CleanupSInv
  <2>5. CASE End
    BY <2>5, EndSInv
  <2>6. CASE WriteConfig
    <3>1. spent' \in [DOMAIN Bounds -> Nat]
      BY <2>6, SpendSpent DEF WriteConfig, Disturbances, SInv
    <3> QED
      BY <2>6, <3>1, IdleSInv DEF WriteConfig
  <2>7. CASE \E due \in BOOLEAN : DrivePoll(due) \/ WindDown(due)
    BY <2>7, DrivePollSInv, WindDownSInv
  <2>8. CASE \E i \in InstanceIds : Serve(i) \/ HangUp(i) \/ Exit(i) \/ Crash(i) \/ BadFrame(i)
    BY <2>8, WorkerSInv
  <2>9. CASE UNCHANGED vars
    <3>1. UNCHANGED <<masterVars, events, proc, runner, cause>> /\ spent' = spent
      BY <2>9 DEF vars, masterVars
    <3> QED
      BY <3>1, IdleSInv DEF SInv
  <2> QED
    BY <2>1, <2>2, <2>3, <2>4, <2>5, <2>6, <2>7, <2>8, <2>9 DEF Next
<1> QED
  BY <1>1, <1>2, MasterIInv, PTL DEF Spec

\* With at most one faulty worker, poll never returns an error: no acknowledgement,
\* exit, timeout or closed channel, in whatever order the master meets them, makes an
\* event that the replacement supervisor refuses.
THEOREM PollsSucceed == Lone => (Spec => []PollSucceeds)
<1> SUFFICES ASSUME Lone PROVE Spec => []PollSucceeds
  OBVIOUS
<1>1. SInv => PollSucceeds
  BY DEF SInv, PollSucceeds
<1> QED
  BY <1>1, MasterSInv, PTL

\* Where no send fails and no frame is bad, the service fails closed only if its
\* active worker is at fault: no crash, hang, refusal or late answer of a candidate or
\* of a retired worker, and no write to the configuration, stops a healthy active one.
THEOREM HealthySurvives == Calm => (Spec => []HealthyActiveSurvives)
<1> SUFFICES ASSUME Calm PROVE Spec => []HealthyActiveSurvives
  OBVIOUS
<1>1. IInv /\ SInv => HealthyActiveSurvives
  <2> SUFFICES ASSUME IInv, SInv PROVE HealthyActiveSurvives
    OBVIOUS
  <2>1. CASE Booted
    BY <2>1, SysFields DEF SInv, Sane, Blamed, HealthyActiveSurvives
  <2>2. CASE ~Booted
    BY <2>2, FreshFacts, GoodFacts DEF IInv, HealthyActiveSurvives
  <2> QED
    BY <2>1, <2>2
<1> QED
  BY <1>1, MasterIInv, MasterSInv, PTL
====
