------------------------ MODULE MasterSystem_proofs ------------------------
(***************************************************************************)
(* Proofs about the supervised service of MasterSystem.tla, for any number  *)
(* of workers, of which any may crash, hang, refuse and send bad frames,    *)
(* and any number of failing sends, failing spawns, writes and stops.       *)
(*                                                                          *)
(* The inductive invariant, Good(Sys, {}) once the first worker has been    *)
(* launched, has three parts.  Net says what is on the wire: workers that   *)
(* run have a role, requests are numbered in the order they are sent, and   *)
(* an acknowledgement of the request the master still waits for tells what  *)
(* the gate of that worker is now.  Single counts the workers that admit    *)
(* connections, killed ones included, or will when they read what was sent  *)
(* to them: one, or the active worker and the killed candidate of a         *)
(* rollback.  Control relates slots, lifecycles and gates.  While poll      *)
(* runs, observations that were taken and are not handled yet are kept in   *)
(* the set O of Good(s, O): each lemma ...Good says that a function of      *)
(* Master.tla preserves Good, with the observations that remain.            *)
(***************************************************************************)
EXTENDS MasterSystem, TLAPS

---------------------------------------------------------------------------
(* Types *)

Ids == InstanceIds \cup {NoInstance}

Stages == {"BootAdopting", "BootActivating", "Operational", "ShuttingDown", "Failing", "Stopped",
           "Failed"}

Phases == ControlPhases \cup {"None"}

Requests == [req : Nat, phase : Phases]

SlotRecords ==
    [id : Ids, pending : Requests, deadline : BOOLEAN,
     state : {"Running", "Terminating", "Forced"}, open : BOOLEAN, reported : BOOLEAN]

Frames == [kind : {"Ack", "Bad"}, req : Nat, phase : Phases, ok : BOOLEAN]

Procs ==
    [run : {"unborn", "live", "leaving", "killed", "gone"}, revision : Revisions \cup {NoRevision},
     linked : BOOLEAN, startup : {"fresh", "pending", "done"}, gate : {"open", "closed"},
     handle : BOOLEAN, inbox : Seq(Requests), outbox : Seq(Frames)]

Holders == [instance_id : Ids, generation_id : Nat, lifecycle : Lifecycles \cup {"Vacant"}]

Sups == [active : Holders, candidate : Holders, retired : Holders]

EventKinds == {"SpawnFailed", "RollbackStarted", "RollbackCompleted", "ReplacementCommitted",
               "ReplacementCompleted"}

MasterEvents == [kind : EventKinds, id : Ids, other : Ids]

Masters ==
    [stage : Stages, forced : BOOLEAN, sup : Sups, slot : [Roles -> SlotRecords],
     deferred : BOOLEAN, failure : BOOLEAN, nextReq : Nat, events : Seq(MasterEvents),
     err : BOOLEAN, sends : Nat, proc : [InstanceIds -> Procs]]

LEMMA IdTypes == NoInstance = 0 /\ InstanceIds \subseteq Nat \ {0} /\ Ids \subseteq Nat
  BY MasterAssumption DEF Ids

LEMMA FirstId == 1 \in InstanceIds
  BY MasterAssumption

LEMMA SlotTypes == \A i \in Ids : NewSlot(i) \in SlotRecords
  BY DEF NewSlot, SlotRecords, NoPending, Requests, Phases

LEMMA RoleNames == "active" \in Roles /\ "candidate" \in Roles /\ "retired" \in Roles
  BY DEF Roles

Fields == {"stage", "forced", "sup", "slot", "deferred", "failure", "nextReq", "events", "err",
           "sends", "proc"}

IsRecord(t) == DOMAIN t = Fields /\ t = [f \in Fields |-> t[f]]

\* t is s but for the fields of F.
Upd(s, t, F) == IsRecord(t) /\ \A f \in Fields \ F : t[f] = s[f]

LEMMA Rebuilt ==
  ASSUME NEW t, IsRecord(t), t.stage \in Stages, t.forced \in BOOLEAN, t.sup \in Sups,
         t.slot \in [Roles -> SlotRecords], t.deferred \in BOOLEAN, t.failure \in BOOLEAN,
         t.nextReq \in Nat, t.events \in Seq(MasterEvents), t.err \in BOOLEAN, t.sends \in Nat,
         t.proc \in [InstanceIds -> Procs]
  PROVE  t \in Masters
  BY DEF Masters, IsRecord, Fields

LEMMA MasterFields ==
  ASSUME NEW s \in Masters
  PROVE  /\ IsRecord(s) /\ s.stage \in Stages /\ s.forced \in BOOLEAN /\ s.sup \in Sups
         /\ s.slot \in [Roles -> SlotRecords] /\ s.deferred \in BOOLEAN /\ s.failure \in BOOLEAN
         /\ s.nextReq \in Nat /\ s.events \in Seq(MasterEvents) /\ s.err \in BOOLEAN
         /\ s.sends \in Nat /\ s.proc \in [InstanceIds -> Procs]
  BY DEF Masters, IsRecord, Fields

LEMMA Elements ==
  ASSUME NEW S, NEW q \in Seq(S)
  PROVE  DOMAIN q = 1..Len(q) /\ Len(q) \in Nat /\ \A k \in DOMAIN q : q[k] \in S
  OBVIOUS

---------------------------------------------------------------------------
(* The inductive invariant, part by part *)

Alike(p, q) == p.inbox = q.inbox /\ p.outbox = q.outbox /\ p.gate = q.gate

Dead(p) == p.run \in {"killed", "gone"}

\* No two roles are held by the same worker.
Distinct(s) ==
    \A a, b \in Roles : a # b /\ s.slot[a].id = s.slot[b].id => s.slot[a].id = NoInstance

\* A worker that admits connections until it is gone, or will when it reads its requests.
Eager(p) ==
    /\ p.run # "gone"
    /\ \/ p.gate = "open"
       \/ /\ p.run = "live"
          /\ \E k \in DOMAIN p.inbox : p.inbox[k].phase \in {"Activate", "Reactivate"}

\* A worker that runs and was not killed has a role, and so has one that still admits.
Owned(s) ==
    \A i \in InstanceIds :
        s.proc[i].run \in {"live", "leaving"} \/ Eager(s.proc[i])
            => \E role \in Roles : s.slot[role].id = i

\* A worker that leaves has closed its gate.
Closing(s) == \A i \in InstanceIds : s.proc[i].run = "leaving" => s.proc[i].gate = "closed"

\* A worker the master has killed does not run.
Killed(s) ==
    \A role \in Roles :
        s.slot[role].id \in InstanceIds /\ s.slot[role].state = "Forced"
            => Dead(s.proc[s.slot[role].id])

\* Requests are numbered in the order in which they are sent.
Increasing(q) == \A j, k \in DOMAIN q : j < k => q[j].req < q[k].req

Below(q, n) == \A k \in DOMAIN q : q[k].req < n

Numbered(s) ==
    /\ s.nextReq > 0
    /\ \A i \in InstanceIds :
          /\ Increasing(s.proc[i].inbox)
          /\ Below(s.proc[i].inbox, s.nextReq) /\ Below(s.proc[i].outbox, s.nextReq)
    /\ \A role \in Roles :
          \/ s.slot[role].pending = NoPending
          \/ /\ s.slot[role].pending.req \in 1..(s.nextReq - 1)
             /\ s.slot[role].pending.phase \in ControlPhases

\* What the answer to the last request of a worker says of it.
Answered(p, f) ==
    /\ p.inbox = << >>
    /\ f.ok /\ f.phase = "Quiesce" => p.gate = "closed"
    /\ f.ok /\ f.phase \in {"Activate", "Reactivate"} /\ p.run = "live" => p.gate = "open"

\* A pending request is the last that was sent to its worker.
Tracks(p, r) ==
    /\ \A k \in DOMAIN p.inbox : p.inbox[k].req <= r
    /\ \A k \in DOMAIN p.outbox :
          p.outbox[k].kind = "Ack" /\ p.outbox[k].req = r => Answered(p, p.outbox[k])

Tracked(s) ==
    \A role \in Roles :
        s.slot[role].id \in InstanceIds /\ s.slot[role].pending # NoPending
            => Tracks(s.proc[s.slot[role].id], s.slot[role].pending.req)

Kinds == {"Nothing", "Exit", "Ack", "Bad", "Disconnected"}

Observations == [kind : Kinds, id : Ids, req : Nat, phase : Phases, ok : BOOLEAN]

\* What an observation that was taken and is not handled yet still says.
Seen(s, o) ==
    /\ o \in Observations
    /\ o.kind # "Nothing" => o.id \in InstanceIds
    /\ o.kind = "Exit" => s.proc[o.id].run = "gone"
    /\ o.kind = "Ack" =>
          /\ o.req < s.nextReq
          /\ \A role \in Roles :
                /\ s.slot[role].id = o.id
                /\ s.slot[role].pending # NoPending /\ s.slot[role].pending.req = o.req
                => Answered(s.proc[o.id], o)

\* The first worker has been launched.
Launched(s) == s.proc[1].run # "unborn"

Net(s, O) ==
    /\ s \in Masters /\ Launched(s)
    /\ Distinct(s) /\ Owned(s) /\ Closing(s) /\ Killed(s) /\ Numbered(s) /\ Tracked(s)
    /\ \A o \in O : Seen(s, o)

\* Worker i is active and j its candidate, killed, which a rollback may find admitting.
Overlaps(s, i, j) ==
    /\ s.slot["active"].id = i /\ s.slot["candidate"].id = j /\ s.proc[j].run = "killed"
    /\ s.stage = "Operational" => s.sup.candidate.lifecycle = "Stopping"

Single(s) ==
    \A i, j \in InstanceIds :
        Eager(s.proc[i]) /\ Eager(s.proc[j]) /\ i # j => Overlaps(s, i, j) \/ Overlaps(s, j, i)

\* What the lifecycles of the three roles may be at the same time.
Agree(u) ==
    /\ Occupied(u.active) /\ ~(Occupied(u.candidate) /\ Occupied(u.retired))
    /\ Occupied(u.candidate) =>
         \/ /\ u.candidate.lifecycle \in {"Spawned", "Handshaking", "Preparing"}
            /\ u.active.lifecycle = "Active"
         \/ u.candidate.lifecycle \in {"Ready", "Activating"} /\ u.active.lifecycle = "Quiescing"
         \/ /\ u.candidate.lifecycle = "Stopping"
            /\ u.active.lifecycle \in {"Active", "Reactivating"}
    /\ Occupied(u.retired) => /\ u.retired.lifecycle \in {"Draining", "Snapshotting", "Stopping"}
                              /\ u.active.lifecycle = "Active"
    /\ ~Occupied(u.candidate) => u.active.lifecycle \in {"Active", "Reactivating"}

Matched(s) ==
    s.stage = "Operational" =>
        Agree(s.sup) /\ \A role \in Roles : s.slot[role].id = s.sup[role].instance_id

BootAlone(s) ==
    s.stage \in {"BootAdopting", "BootActivating"} =>
        /\ s.sup = NoSupervisor
        /\ s.slot["candidate"].id = NoInstance /\ s.slot["retired"].id = NoInstance

\* An exit is deferred only for the worker that has exited, while its successor activates.
Reaps(s) ==
    s.deferred => /\ PhaseOf(s) = "ActivatingCandidate"
                  /\ s.slot["active"].id \in InstanceIds
                  /\ s.proc[s.slot["active"].id].run = "gone"

Serving(s) ==
    s.stage = "Operational" /\ s.sup.active.lifecycle = "Active" =>
        LET p == s.proc[s.slot["active"].id]
        IN  p.run = "live" => p.gate = "open" /\ p.inbox = << >>

Control(s) == Matched(s) /\ BootAlone(s) /\ Reaps(s) /\ Serving(s)

Good(s, O) == Net(s, O) /\ Single(s) /\ Control(s)

---------------------------------------------------------------------------
(* What may happen to workers and slots *)

\* A worker is as it was, or killed.
Suffers(p, q) == q = p \/ (Alike(p, q) /\ Dead(q) /\ (p.run = "gone" => q.run = "gone"))

\* A slot is empty or one of before, whose request may have been given up and whose
\* worker may have been killed.
From(s, t, b) ==
    \/ t.slot[b].id = NoInstance /\ t.slot[b].pending = NoPending
    \/ \E a \in Roles :
          /\ t.slot[b].id = s.slot[a].id
          /\ t.slot[b].pending \in {s.slot[a].pending, NoPending}
          /\ \/ t.slot[b].state = s.slot[a].state \/ t.slot[b].state # "Forced"
             \/ t.slot[b].id \in InstanceIds => Dead(t.proc[t.slot[b].id])

Shrinks(s, t) ==
    /\ t \in Masters /\ t.nextReq >= s.nextReq
    /\ \A i \in InstanceIds : Suffers(s.proc[i], t.proc[i])
    /\ \A b \in Roles : From(s, t, b)

LEMMA AnsweredStays ==
  ASSUME NEW p, NEW q, NEW f, Suffers(p, q), Answered(p, f)
  PROVE  Answered(q, f)
  BY DEF Suffers, Answered, Alike, Dead

LEMMA TracksStays ==
  ASSUME NEW p, NEW q, NEW r, Suffers(p, q), Tracks(p, r)
  PROVE  Tracks(q, r)
<1>1. q.inbox = p.inbox /\ q.outbox = p.outbox
  BY DEF Suffers, Alike
<1> QED
  BY <1>1, AnsweredStays DEF Tracks

LEMMA EagerStays ==
  ASSUME NEW p, NEW q, Suffers(p, q), Eager(q)
  PROVE  Eager(p)
  BY DEF Suffers, Eager, Dead, Alike

LEMMA ShrinkNet ==
  ASSUME NEW s, NEW t, NEW O, Net(s, O), Shrinks(s, t), Distinct(t), Owned(t)
  PROVE  Net(t, O)
<1>0. s \in Masters /\ t \in Masters /\ t.nextReq >= s.nextReq
  BY DEF Net, Shrinks
<1>00. s.nextReq \in Nat /\ t.nextReq \in Nat
  BY <1>0, MasterFields
<1>1. Closing(t)
  BY DEF Net, Shrinks, Closing, Suffers, Alike, Dead
<1>2. Killed(t)
  <2> SUFFICES ASSUME NEW b \in Roles, t.slot[b].id \in InstanceIds, t.slot[b].state = "Forced"
               PROVE  Dead(t.proc[t.slot[b].id])
    BY DEF Killed
  <2>1. t.slot[b].id # NoInstance
    BY IdTypes
  <2>2. CASE Dead(t.proc[t.slot[b].id])
    BY <2>2
  <2>3. PICK a \in Roles : t.slot[b].id = s.slot[a].id
                           /\ (t.slot[b].state = s.slot[a].state \/ Dead(t.proc[t.slot[b].id]))
    BY <2>1 DEF Shrinks, From
  <2>4. CASE t.slot[b].state = s.slot[a].state
    BY <2>3, <2>4 DEF Net, Killed, Shrinks, Suffers, Dead
  <2> QED
    BY <2>3, <2>4
<1>3. Numbered(t)
  <2>1. ASSUME NEW i \in InstanceIds
        PROVE  /\ Increasing(t.proc[i].inbox)
               /\ Below(t.proc[i].inbox, t.nextReq) /\ Below(t.proc[i].outbox, t.nextReq)
    <3>1. t.proc[i].inbox = s.proc[i].inbox /\ t.proc[i].outbox = s.proc[i].outbox
      BY DEF Shrinks, Suffers, Alike
    <3>2. s.proc[i].inbox \in Seq(Requests) /\ s.proc[i].outbox \in Seq(Frames)
      BY <1>0, MasterFields DEF Procs
    <3>3. /\ \A k \in DOMAIN s.proc[i].inbox : s.proc[i].inbox[k].req \in Nat
          /\ \A k \in DOMAIN s.proc[i].outbox : s.proc[i].outbox[k].req \in Nat
      <4>1. /\ \A k \in DOMAIN s.proc[i].inbox : s.proc[i].inbox[k] \in Requests
            /\ \A k \in DOMAIN s.proc[i].outbox : s.proc[i].outbox[k] \in Frames
        BY <3>2, Elements
      <4> QED
        BY <4>1 DEF Requests, Frames
    <3>4. /\ Increasing(s.proc[i].inbox)
          /\ Below(s.proc[i].inbox, s.nextReq) /\ Below(s.proc[i].outbox, s.nextReq)
      BY DEF Net, Numbered
    <3> QED
      BY <1>0, <1>00, <3>1, <3>3, <3>4 DEF Below
  <2>2. ASSUME NEW b \in Roles
        PROVE  \/ t.slot[b].pending = NoPending
               \/ /\ t.slot[b].pending.req \in 1..(t.nextReq - 1)
                  /\ t.slot[b].pending.phase \in ControlPhases
    <3>1. PICK a \in Roles : t.slot[b].pending \in {s.slot[a].pending, NoPending}
      BY DEF Shrinks, From, Roles
    <3> QED
      BY <1>0, <1>00, <3>1 DEF Net, Numbered
  <2> QED
    BY <1>0, <1>00, <2>1, <2>2 DEF Net, Numbered
<1>4. Tracked(t)
  <2> SUFFICES ASSUME NEW b \in Roles, t.slot[b].id \in InstanceIds, t.slot[b].pending # NoPending
               PROVE  Tracks(t.proc[t.slot[b].id], t.slot[b].pending.req)
    BY DEF Tracked
  <2>1. PICK a \in Roles : t.slot[b].id = s.slot[a].id /\ t.slot[b].pending = s.slot[a].pending
    BY DEF Shrinks, From
  <2>2. Tracks(s.proc[s.slot[a].id], s.slot[a].pending.req)
    BY <2>1 DEF Net, Tracked
  <2> QED
    BY <2>1, <2>2, TracksStays DEF Shrinks
<1>5. ASSUME NEW o \in O PROVE Seen(t, o)
  <2>1. Seen(s, o)
    BY DEF Net
  <2>2. o.kind = "Exit" => t.proc[o.id].run = "gone"
    BY <2>1 DEF Seen, Shrinks, Suffers
  <2>3. ASSUME o.kind = "Ack" PROVE o.req < t.nextReq
    BY <2>1, <2>3, <1>0, <1>00 DEF Seen, Observations
  <2>4. ASSUME o.kind = "Ack", NEW b \in Roles, t.slot[b].id = o.id,
               t.slot[b].pending # NoPending, t.slot[b].pending.req = o.req
        PROVE  Answered(t.proc[o.id], o)
    <3>0. o.id \in InstanceIds
      BY <2>1, <2>4 DEF Seen
    <3>1. PICK a \in Roles : t.slot[b].id = s.slot[a].id /\ t.slot[b].pending = s.slot[a].pending
      BY <2>4 DEF Shrinks, From
    <3>2. Answered(s.proc[o.id], o)
      BY <2>1, <2>4, <3>1 DEF Seen
    <3> QED
      BY <3>0, <3>2, AnsweredStays DEF Shrinks
  <2> QED
    BY <2>1, <2>2, <2>3, <2>4 DEF Seen
<1>6. Launched(t)
  BY FirstId DEF Net, Launched, Shrinks, Suffers, Dead
<1> QED
  BY <1>0, <1>1, <1>2, <1>3, <1>4, <1>5, <1>6 DEF Net

LEMMA ShrinkSingle ==
  ASSUME NEW s, NEW t, Single(s), Shrinks(s, t),
         \A i, j \in InstanceIds :
            Overlaps(s, i, j) /\ Eager(t.proc[i]) /\ Eager(t.proc[j]) => Overlaps(t, i, j)
  PROVE  Single(t)
  BY EagerStays DEF Single, Shrinks

---------------------------------------------------------------------------
(* Steps that keep stage, supervisor and the holders of the roles *)

StateKept(s, t, b) ==
    \/ t.slot[b].state = s.slot[b].state \/ t.slot[b].state # "Forced"
    \/ t.slot[b].id \in InstanceIds => Dead(t.proc[t.slot[b].id])

Keeps(s, t) ==
    /\ t \in Masters /\ t.nextReq >= s.nextReq
    /\ t.stage = s.stage /\ t.sup = s.sup /\ t.deferred = s.deferred
    /\ \A i \in InstanceIds : Suffers(s.proc[i], t.proc[i])
    /\ \A b \in Roles : /\ t.slot[b].id = s.slot[b].id
                        /\ t.slot[b].pending \in {s.slot[b].pending, NoPending}
                        /\ StateKept(s, t, b)

LEMMA KeepShrinks ==
  ASSUME NEW s, NEW t, Keeps(s, t)
  PROVE  Shrinks(s, t)
  BY DEF Keeps, Shrinks, From, StateKept

LEMMA KeepNet ==
  ASSUME NEW s, NEW t, NEW O, Net(s, O), Keeps(s, t)
  PROVE  Net(t, O)
<1>1. Distinct(t)
  BY DEF Net, Keeps, Distinct
<1>2. Owned(t)
  BY EagerStays DEF Net, Keeps, Owned, Suffers, Dead
<1> QED
  BY <1>1, <1>2, KeepShrinks, ShrinkNet

LEMMA KeepSingle ==
  ASSUME NEW s, NEW t, Single(s), Keeps(s, t)
  PROVE  Single(t)
<1>1. ASSUME NEW i \in InstanceIds, NEW j \in InstanceIds, Overlaps(s, i, j), Eager(t.proc[j])
      PROVE  Overlaps(t, i, j)
  BY <1>1 DEF Overlaps, Keeps, Suffers, Dead, Eager, Roles
<1> QED
  BY <1>1, KeepShrinks, ShrinkSingle

\* A role of an operational master is held by its supervisor's instance.
LEMMA ActivePresent ==
  ASSUME NEW s \in Masters, Matched(s), s.stage = "Operational"
  PROVE  s.slot["active"].id \in InstanceIds
<1>1. s.slot["active"].id \in Ids
  BY MasterFields DEF Roles, SlotRecords
<1>2. s.slot["active"].id # NoInstance
  BY DEF Matched, Agree, Occupied, Roles
<1> QED
  BY <1>1, <1>2 DEF Ids

LEMMA KeepControl ==
  ASSUME NEW s \in Masters, NEW t, Control(s), Keeps(s, t)
  PROVE  Control(t)
<1>1. Matched(t) /\ BootAlone(t)
  BY DEF Control, Keeps, Matched, BootAlone, Roles
<1>2. Reaps(t)
  <2>1. PhaseOf(t) = PhaseOf(s) /\ t.slot["active"].id = s.slot["active"].id
    BY DEF Keeps, PhaseOf, Roles
  <2> QED
    BY <2>1 DEF Control, Keeps, Reaps, Suffers
<1>3. Serving(t)
  <2> SUFFICES ASSUME t.stage = "Operational", t.sup.active.lifecycle = "Active",
                      t.proc[t.slot["active"].id].run = "live"
               PROVE  /\ t.proc[t.slot["active"].id].gate = "open"
                      /\ t.proc[t.slot["active"].id].inbox = << >>
    BY DEF Serving
  <2>1. /\ t.slot["active"].id = s.slot["active"].id /\ s.stage = "Operational"
        /\ s.sup.active.lifecycle = "Active"
    BY DEF Keeps, Roles
  <2>2. s.slot["active"].id \in InstanceIds
    BY <2>1, ActivePresent DEF Control
  <2>3. t.proc[t.slot["active"].id] = s.proc[s.slot["active"].id]
    BY <2>1, <2>2 DEF Keeps, Suffers, Dead
  <2> QED
    BY <2>1, <2>3 DEF Control, Serving
<1> QED
  BY <1>1, <1>2, <1>3 DEF Control

LEMMA KeepGood ==
  ASSUME NEW s, NEW t, NEW O, Good(s, O), Keeps(s, t)
  PROVE  Good(t, O)
  BY KeepNet, KeepSingle, KeepControl DEF Good, Net

LEMMA KeepsTwice ==
  ASSUME NEW s \in Masters, NEW t, NEW u, Keeps(s, t), Keeps(t, u)
  PROVE  Keeps(s, u)
<1>1. s.nextReq \in Nat /\ t.nextReq \in Nat /\ u.nextReq \in Nat
  BY MasterFields DEF Keeps
<1>2. /\ u \in Masters /\ u.nextReq >= s.nextReq
      /\ u.stage = s.stage /\ u.sup = s.sup /\ u.deferred = s.deferred
  BY <1>1 DEF Keeps
<1>3. ASSUME NEW i \in InstanceIds PROVE Suffers(s.proc[i], u.proc[i])
  BY DEF Keeps, Suffers, Alike, Dead
<1>4. ASSUME NEW b \in Roles
      PROVE  /\ u.slot[b].id = s.slot[b].id
             /\ u.slot[b].pending \in {s.slot[b].pending, NoPending}
             /\ StateKept(s, u, b)
  <2>1. /\ u.slot[b].id = t.slot[b].id /\ t.slot[b].id = s.slot[b].id
        /\ u.slot[b].pending \in {s.slot[b].pending, NoPending}
        /\ StateKept(s, t, b) /\ StateKept(t, u, b)
    BY DEF Keeps
  <2>2. t.slot[b].id \in InstanceIds /\ Dead(t.proc[t.slot[b].id]) => Dead(u.proc[u.slot[b].id])
    BY <2>1 DEF Keeps, Suffers, Dead
  <2> QED
    BY <2>1, <2>2 DEF StateKept
<1> QED
  BY <1>2, <1>3, <1>4 DEF Keeps

\* A change of nothing but flags, numbers and events.
LEMMA QuietKeeps ==
  ASSUME NEW s \in Masters, NEW t,
         Upd(s, t, {"forced", "failure", "nextReq", "events", "err", "sends"}),
         t.forced \in BOOLEAN, t.failure \in BOOLEAN, t.nextReq \in Nat,
         t.events \in Seq(MasterEvents), t.err \in BOOLEAN, t.sends \in Nat,
         t.nextReq >= s.nextReq
  PROVE  Keeps(s, t)
<1>1. /\ t.stage = s.stage /\ t.sup = s.sup /\ t.deferred = s.deferred /\ t.slot = s.slot
      /\ t.proc = s.proc /\ IsRecord(t)
  BY DEF Upd, Fields
<1>2. t \in Masters
  BY <1>1, Rebuilt, MasterFields
<1> QED
  BY <1>1, <1>2 DEF Keeps, Suffers, StateKept

\* A change of one slot's request and flags.
LEMMA SlotKeeps ==
  ASSUME NEW s \in Masters, NEW t, NEW role \in Roles, NEW w \in SlotRecords,
         Upd(s, t, {"slot"}), t.slot = [s.slot EXCEPT ![role] = w],
         w.id = s.slot[role].id, w.pending \in {s.slot[role].pending, NoPending},
         w.state = s.slot[role].state \/ w.state # "Forced"
  PROVE  Keeps(s, t)
<1>1. /\ t.stage = s.stage /\ t.sup = s.sup /\ t.deferred = s.deferred /\ t.nextReq = s.nextReq
      /\ t.proc = s.proc /\ t.forced = s.forced /\ t.failure = s.failure /\ t.events = s.events
      /\ t.err = s.err /\ t.sends = s.sends /\ IsRecord(t)
  BY DEF Upd, Fields
<1>2. s.slot \in [Roles -> SlotRecords] /\ s.nextReq \in Nat
  BY MasterFields
<1>3. t.slot \in [Roles -> SlotRecords]
  BY <1>2
<1>4. t \in Masters
  BY <1>1, <1>3, Rebuilt, MasterFields
<1> QED
  BY <1>1, <1>2, <1>4 DEF Keeps, Suffers, StateKept

LEMMA FailKeeps ==
  ASSUME NEW s \in Masters
  PROVE  /\ Keeps(s, Fail(s)) /\ Upd(s, Fail(s), {"err"}) /\ Fail(s).err = TRUE
<1> DEFINE t == Fail(s)
<1>1. Upd(s, t, {"err"}) /\ t.err = TRUE
  BY MasterFields DEF Fail, Upd, IsRecord, Fields
<1> HIDE DEF t
<1>2. /\ t.forced = s.forced /\ t.failure = s.failure /\ t.nextReq = s.nextReq
      /\ t.events = s.events /\ t.sends = s.sends
  BY <1>1 DEF Upd, Fields
<1>3. Upd(s, t, {"forced", "failure", "nextReq", "events", "err", "sends"})
  BY <1>1 DEF Upd
<1>4. /\ t.forced \in BOOLEAN /\ t.failure \in BOOLEAN /\ t.nextReq \in Nat
      /\ t.events \in Seq(MasterEvents) /\ t.err \in BOOLEAN /\ t.sends \in Nat
  BY <1>1, <1>2, MasterFields, Zenon
<1>5. s.nextReq \in Nat
  BY MasterFields
<1>6. t.nextReq >= s.nextReq
  BY <1>2, <1>5
<1>7. Keeps(s, t)
  BY <1>3, <1>4, <1>6, QuietKeeps
<1> QED
  BY <1>1, <1>7 DEF t

LEMMA ForceKeeps ==
  ASSUME NEW s \in Masters, NEW role \in Roles
  PROVE  /\ Keeps(s, ForceRole(s, role))
         /\ Present(s, role) => ForceRole(s, role).err = s.err
         /\ Present(s, role) /\ Killed(s) =>
                Dead(ForceRole(s, role).proc[ForceRole(s, role).slot[role].id])
         /\ ForceRole(s, role).nextReq = s.nextReq /\ ForceRole(s, role).sends = s.sends
         /\ ForceRole(s, role).events = s.events /\ ForceRole(s, role).failure = s.failure
<1> DEFINE i == s.slot[role].id
           t == [s EXCEPT !.slot[role].pending = NoPending,
                          !.slot[role].state = "Forced",
                          !.proc[i].run = IF @ = "gone" THEN @ ELSE "killed"]
           w == [s.slot[role] EXCEPT !.pending = NoPending, !.state = "Forced"]
           p == [s.proc[i] EXCEPT !.run = IF @ = "gone" THEN @ ELSE "killed"]
<1>0. s.slot[role] \in SlotRecords /\ i \in Ids
  BY MasterFields DEF SlotRecords
<1>1. Keeps(s, s)
  BY MasterFields DEF Keeps, Suffers, StateKept
<1>2. CASE s.slot[role].state = "Forced"
  <2>1. ForceRole(s, role) = s
    BY <1>2 DEF ForceRole
  <2>2. Present(s, role) /\ Killed(s) => Dead(s.proc[s.slot[role].id])
    BY <1>0, <1>2 DEF Present, Killed, Ids
  <2> QED
    BY <1>1, <2>1, <2>2
<1>3. CASE s.slot[role].state # "Forced" /\ ~Present(s, role)
  <2>1. ForceRole(s, role) = Fail(s)
    BY <1>3 DEF ForceRole
  <2>2. Keeps(s, Fail(s)) /\ Upd(s, Fail(s), {"err"})
    BY FailKeeps
  <2> QED
    BY <1>3, <2>1, <2>2 DEF Upd, Fields
<1>4. CASE s.slot[role].state # "Forced" /\ Present(s, role)
  <2>0. i \in InstanceIds /\ s.proc[i] \in Procs
    BY <1>0, <1>4, MasterFields DEF Present, Ids
  <2>1. ForceRole(s, role) = t
    BY <1>4 DEF ForceRole
  <2>2. /\ Upd(s, t, {"slot", "proc"})
        /\ t.slot = [s.slot EXCEPT ![role] = w] /\ t.proc = [s.proc EXCEPT ![i] = p]
    BY MasterFields DEF IsRecord, Fields, SlotRecords, Procs, Upd
  <2>3. /\ w \in SlotRecords /\ w.id = i /\ w.pending = NoPending /\ w.state = "Forced"
    BY <1>0 DEF SlotRecords, NoPending, Requests, Phases
  <2>4. p \in Procs /\ Suffers(s.proc[i], p) /\ Dead(p)
    BY <2>0 DEF Procs, Suffers, Alike, Dead
  <2> HIDE DEF t, w, p
  <2>5. /\ t.stage = s.stage /\ t.sup = s.sup /\ t.deferred = s.deferred /\ t.nextReq = s.nextReq
        /\ t.forced = s.forced /\ t.failure = s.failure /\ t.events = s.events
        /\ t.err = s.err /\ t.sends = s.sends /\ IsRecord(t)
    BY <2>2 DEF Upd, Fields
  <2>6. s.slot \in [Roles -> SlotRecords] /\ s.proc \in [InstanceIds -> Procs] /\ s.nextReq \in Nat
    BY MasterFields
  <2>7. t.slot \in [Roles -> SlotRecords] /\ t.proc \in [InstanceIds -> Procs]
    BY <2>2, <2>3, <2>4, <2>6
  <2>8. t \in Masters
    BY <2>5, <2>7, Rebuilt, MasterFields
  <2>9. \A j \in InstanceIds : Suffers(s.proc[j], t.proc[j])
    BY <2>2, <2>4, <2>6 DEF Suffers
  <2>10. \A b \in Roles : /\ t.slot[b].id = s.slot[b].id
                          /\ t.slot[b].pending \in {s.slot[b].pending, NoPending}
                          /\ StateKept(s, t, b)
    BY <2>0, <2>2, <2>3, <2>4, <2>6 DEF StateKept
  <2>11. Keeps(s, t)
    BY <2>5, <2>6, <2>8, <2>9, <2>10 DEF Keeps
  <2>12. t.proc[t.slot[role].id] = p
    BY <2>0, <2>2, <2>3, <2>6
  <2> QED
    BY <2>1, <2>4, <2>5, <2>11, <2>12
<1> QED
  BY <1>2, <1>3, <1>4

LEMMA EmitKeeps ==
  ASSUME NEW s \in Masters, NEW kind \in EventKinds, NEW i \in Ids, NEW j \in Ids
  PROVE  /\ Keeps(s, Emit(s, kind, i, j)) /\ Upd(s, Emit(s, kind, i, j), {"events"})
<1> DEFINE t == Emit(s, kind, i, j)
           e == [kind |-> kind, id |-> i, other |-> j]
<1>0. e \in MasterEvents /\ s.events \in Seq(MasterEvents)
  BY MasterFields DEF MasterEvents
<1> HIDE DEF e
<1>1. Upd(s, t, {"events"}) /\ t.events = Append(s.events, e)
  BY MasterFields DEF Emit, Upd, IsRecord, Fields, e
<1> HIDE DEF t
<1>2. /\ t.forced = s.forced /\ t.failure = s.failure /\ t.nextReq = s.nextReq
      /\ t.err = s.err /\ t.sends = s.sends
  BY <1>1 DEF Upd, Fields
<1>3. Upd(s, t, {"forced", "failure", "nextReq", "events", "err", "sends"})
  BY <1>1 DEF Upd
<1>4. t.events \in Seq(MasterEvents)
  BY <1>0, <1>1
<1>5. /\ t.forced \in BOOLEAN /\ t.failure \in BOOLEAN /\ t.nextReq \in Nat
      /\ t.err \in BOOLEAN /\ t.sends \in Nat
  BY <1>2, MasterFields, Zenon
<1>6. t.nextReq >= s.nextReq
  BY <1>2, <1>5
<1>7. Keeps(s, t)
  BY <1>3, <1>4, <1>5, <1>6, QuietKeeps
<1> QED
  BY <1>1, <1>7 DEF t

LEMMA NotIssuedKeeps ==
  ASSUME NEW s \in Masters
  PROVE  /\ Keeps(s, NotIssued(s)) /\ Upd(s, NotIssued(s), {"nextReq", "sends"})
<1> DEFINE t == NotIssued(s)
<1>0. s.nextReq \in Nat /\ s.sends \in Nat
  BY MasterFields
<1>1. Upd(s, t, {"nextReq", "sends"}) /\ t.nextReq = s.nextReq + 1 /\ t.sends = s.sends + 1
  BY MasterFields DEF NotIssued, Upd, IsRecord, Fields
<1> HIDE DEF t
<1>2. /\ t.forced = s.forced /\ t.failure = s.failure /\ t.err = s.err /\ t.events = s.events
  BY <1>1 DEF Upd, Fields
<1>3. Upd(s, t, {"forced", "failure", "nextReq", "events", "err", "sends"})
  BY <1>1 DEF Upd
<1>4. t.nextReq \in Nat /\ t.sends \in Nat /\ t.nextReq >= s.nextReq
  BY <1>0, <1>1
<1>5. /\ t.forced \in BOOLEAN /\ t.failure \in BOOLEAN /\ t.events \in Seq(MasterEvents)
      /\ t.err \in BOOLEAN
  BY <1>2, MasterFields, Zenon
<1>7. Keeps(s, t)
  BY <1>3, <1>4, <1>5, QuietKeeps
<1> QED
  BY <1>1, <1>7 DEF t

LEMMA FlagKeeps ==
  ASSUME NEW s \in Masters, NEW t, NEW F \in SUBSET {"forced", "failure", "err"},
         Upd(s, t, F), t.forced \in BOOLEAN, t.failure \in BOOLEAN, t.err \in BOOLEAN
  PROVE  Keeps(s, t)
<1>2. t.nextReq = s.nextReq /\ t.sends = s.sends /\ t.events = s.events
  BY DEF Upd, Fields
<1>3. Upd(s, t, {"forced", "failure", "nextReq", "events", "err", "sends"})
  BY DEF Upd
<1>4. t.nextReq \in Nat /\ t.sends \in Nat /\ t.nextReq >= s.nextReq
      /\ t.events \in Seq(MasterEvents)
  BY <1>2, MasterFields
<1> QED
  BY <1>3, <1>4, QuietKeeps

LEMMA FailureKeeps ==
  ASSUME NEW s \in Masters, NEW b \in BOOLEAN
  PROVE  /\ Keeps(s, [s EXCEPT !.failure = b]) /\ Upd(s, [s EXCEPT !.failure = b], {"failure"})
         /\ [s EXCEPT !.failure = b].failure = b
<1> DEFINE t == [s EXCEPT !.failure = b]
<1>1. Upd(s, t, {"failure"}) /\ t.failure = b
  BY MasterFields DEF Upd, IsRecord, Fields
<1> HIDE DEF t
<1>2. t.forced = s.forced /\ t.err = s.err
  BY <1>1 DEF Upd, Fields
<1>3. t.forced \in BOOLEAN /\ t.failure \in BOOLEAN /\ t.err \in BOOLEAN
  BY <1>1, <1>2, MasterFields, Zenon
<1>4. Keeps(s, t)
  BY <1>1, <1>3, FlagKeeps
<1> QED
  BY <1>1, <1>4 DEF t

LEMMA ForcedKeeps ==
  ASSUME NEW s \in Masters
  PROVE  /\ Keeps(s, [s EXCEPT !.forced = TRUE]) /\ Upd(s, [s EXCEPT !.forced = TRUE], {"forced"})
<1> DEFINE t == [s EXCEPT !.forced = TRUE]
<1>1. Upd(s, t, {"forced"}) /\ t.forced = TRUE
  BY MasterFields DEF Upd, IsRecord, Fields
<1> HIDE DEF t
<1>2. t.failure = s.failure /\ t.err = s.err
  BY <1>1 DEF Upd, Fields
<1>3. t.forced \in BOOLEAN /\ t.failure \in BOOLEAN /\ t.err \in BOOLEAN
  BY <1>1, <1>2, MasterFields, Zenon
<1>4. Keeps(s, t)
  BY <1>1, <1>3, FlagKeeps
<1> QED
  BY <1>1, <1>4 DEF t

LEMMA KeepsSelf ==
  ASSUME NEW s \in Masters
  PROVE  Keeps(s, s)
  BY MasterFields DEF Keeps, Suffers, StateKept

LEMMA ThenForceKeeps ==
  ASSUME NEW s \in Masters, NEW role \in Roles
  PROVE  /\ Keeps(s, ThenForce(s, role))
         /\ Keeps(s, ForcePresent(s, role))
  BY ForceKeeps, KeepsSelf DEF ThenForce, ForcePresent, Try

LEMMA ForceAllKeeps ==
  ASSUME NEW s \in Masters
  PROVE  Keeps(s, ForceAll(s))
<1> DEFINE a == ForcePresent(s, "active")
           c == ForcePresent(a, "candidate")
           r == ForcePresent(c, "retired")
<1>1. Keeps(s, a) /\ a \in Masters
  BY ThenForceKeeps DEF Roles, Keeps
<1>2. Keeps(a, c) /\ c \in Masters
  BY <1>1, ThenForceKeeps DEF Roles, Keeps
<1>3. Keeps(c, r)
  BY <1>2, ThenForceKeeps DEF Roles
<1>4. ForceAll(s) = r
  BY DEF ForceAll
<1> HIDE DEF a, c, r
<1>5. Keeps(s, c)
  BY <1>1, <1>2, KeepsTwice
<1>6. Keeps(s, r)
  BY <1>3, <1>5, KeepsTwice
<1> QED
  BY <1>4, <1>6

---------------------------------------------------------------------------
(* Failing closed *)

LEMMA NoSlotType == NoSlot \in SlotRecords /\ NoSlot.id = NoInstance /\ NoSlot.pending = NoPending
                    /\ NoSlot.state = "Running"
<1>1. NoSlot \in SlotRecords
  BY SlotTypes DEF NoSlot, Ids
<1> QED
  BY <1>1 DEF NoSlot, NewSlot

LEMMA FailMasterGood ==
  ASSUME NEW s, NEW O, Net(s, O), Single(s), Reaps(s)
  PROVE  /\ Good(FailMaster(s), O)
         /\ FailMaster(s).stage \in {"Failing", "Failed"}
         /\ s.stage # "Failed" => ~FailMaster(s).deferred
         /\ FailMaster(s).sup = s.sup
         /\ \A role \in Roles \ {"active"} : FailMaster(s).slot[role].id = s.slot[role].id
         /\ \A i \in InstanceIds : Suffers(s.proc[i], FailMaster(s).proc[i])
<1> DEFINE w == IF s.deferred THEN NoSlot ELSE s.slot["active"]
           u == [s EXCEPT !.stage = "Failing", !.deferred = FALSE,
                          !.slot["active"] = IF s.deferred THEN NoSlot ELSE @]
<1>0. s \in Masters
  BY DEF Net
<1>00. s.slot \in [Roles -> SlotRecords] /\ s.proc \in [InstanceIds -> Procs] /\ s.nextReq \in Nat
  BY <1>0, MasterFields
<1>1. CASE s.stage = "Failed"
  <2>1. FailMaster(s) = s
    BY <1>1 DEF FailMaster
  <2>2. Control(s)
    BY <1>1 DEF Control, Matched, BootAlone, Serving
  <2>3. \A i \in InstanceIds : Suffers(s.proc[i], s.proc[i])
    BY DEF Suffers
  <2> QED
    BY <1>1, <2>1, <2>2, <2>3 DEF Good
<1>2. CASE s.stage # "Failed"
  <2>1. FailMaster(s) = ForceAll(u)
    BY <1>2 DEF FailMaster
  <2>2. /\ Upd(s, u, {"stage", "deferred", "slot"}) /\ u.stage = "Failing" /\ u.deferred = FALSE
        /\ u.slot = [s.slot EXCEPT !["active"] = w]
    BY <1>0, MasterFields DEF Upd, IsRecord, Fields
  <2>3. w \in SlotRecords
    BY <1>00, NoSlotType DEF Roles
  <2> HIDE DEF u, w
  <2>4. /\ u.sup = s.sup /\ u.nextReq = s.nextReq /\ u.forced = s.forced /\ u.failure = s.failure
        /\ u.events = s.events /\ u.err = s.err /\ u.sends = s.sends /\ u.proc = s.proc
        /\ IsRecord(u)
    BY <2>2 DEF Upd, Fields
  <2>5. u.slot \in [Roles -> SlotRecords]
    BY <1>00, <2>2, <2>3
  <2>6. u.stage \in Stages /\ u.deferred \in BOOLEAN
    BY <2>2 DEF Stages
  <2>7. u \in Masters
    BY <1>0, <2>4, <2>5, <2>6, Rebuilt, MasterFields
  <2>8. \A b \in Roles : u.slot[b] = s.slot[b] \/ (b = "active" /\ s.deferred /\ u.slot[b] = NoSlot)
    BY <1>00, <2>2 DEF w
  <2>9. Shrinks(s, u)
    <3>1. \A i \in InstanceIds : Suffers(s.proc[i], u.proc[i])
      BY <2>4 DEF Suffers
    <3>2. \A b \in Roles : From(s, u, b)
      BY <2>8, NoSlotType DEF From
    <3> QED
      BY <1>00, <2>4, <2>7, <3>1, <3>2 DEF Shrinks
  <2>10. Distinct(u)
    BY <2>8, NoSlotType DEF Net, Distinct
  <2>11. Owned(u)
    BY <2>4, <2>8 DEF Net, Owned, Reaps, Eager
  <2>12. Net(u, O) /\ Single(u)
    <3>1. ASSUME NEW i \in InstanceIds, NEW j \in InstanceIds, Overlaps(s, i, j),
                 Eager(u.proc[i])
          PROVE  Overlaps(u, i, j)
      BY <2>2, <2>4, <2>8, <3>1 DEF Overlaps, Eager, Reaps, Roles
    <3> QED
      BY <2>9, <2>10, <2>11, <3>1, ShrinkNet, ShrinkSingle
  <2>13. Control(u)
    BY <2>2 DEF Control, Matched, BootAlone, Reaps, Serving
  <2>14. Keeps(u, ForceAll(u))
    BY <2>7, ForceAllKeeps
  <2>15. Good(ForceAll(u), O)
    BY <2>12, <2>13, <2>14, KeepGood DEF Good
  <2>16. /\ ForceAll(u).stage = "Failing" /\ ForceAll(u).deferred = FALSE /\ ForceAll(u).sup = s.sup
         /\ \A b \in Roles : ForceAll(u).slot[b].id = u.slot[b].id
         /\ \A i \in InstanceIds : Suffers(s.proc[i], ForceAll(u).proc[i])
    BY <2>2, <2>4, <2>14 DEF Keeps
  <2> QED
    BY <2>1, <2>8, <2>15, <2>16
<1> QED
  BY <1>1, <1>2

---------------------------------------------------------------------------
(* Requests *)

LEMMA AppendFacts ==
  ASSUME NEW S, NEW q \in Seq(S), NEW e \in S
  PROVE  /\ Append(q, e) \in Seq(S) /\ Len(Append(q, e)) = Len(q) + 1
         /\ DOMAIN Append(q, e) = 1..(Len(q) + 1) /\ DOMAIN q = 1..Len(q) /\ Len(q) \in Nat
         /\ \A k \in 1..Len(q) : Append(q, e)[k] = q[k]
         /\ Append(q, e)[Len(q) + 1] = e
  OBVIOUS

\* A request joins the end of its worker's requests and is what the slot waits for.
Sent(s, t, role, request) ==
    /\ t \in Masters /\ t.nextReq = s.nextReq + 1
    /\ t.stage = s.stage /\ t.sup = s.sup /\ t.deferred = s.deferred /\ t.err = s.err
    /\ t.failure = s.failure /\ t.events = s.events
    /\ request \in Requests /\ request.req = s.nextReq /\ request.phase \in ControlPhases
    /\ s.slot[role].id \in InstanceIds
    /\ \A b \in Roles : t.slot[b].id = s.slot[b].id /\ t.slot[b].state = s.slot[b].state
    /\ \A b \in Roles \ {role} : t.slot[b].pending = s.slot[b].pending
    /\ t.slot[role].pending = request
    /\ \A i \in InstanceIds \ {s.slot[role].id} : t.proc[i] = s.proc[i]
    /\ LET p == s.proc[s.slot[role].id]
           q == t.proc[s.slot[role].id]
       IN  /\ q.run = p.run /\ q.gate = p.gate /\ q.outbox = p.outbox
           /\ q.inbox = Append(p.inbox, request)

LEMMA IssuedSent ==
  ASSUME NEW s \in Masters, NEW role \in Roles, Present(s, role), NEW phase \in ControlPhases
  PROVE  Sent(s, Issued(s, role, phase), role, [req |-> s.nextReq, phase |-> phase])
<1> DEFINE i == s.slot[role].id
           request == [req |-> s.nextReq, phase |-> phase]
           t == Issued(s, role, phase)
           w == [s.slot[role] EXCEPT !.pending = request]
           p == [s.proc[i] EXCEPT !.inbox = Append(@, request)]
<1>0. /\ s.slot \in [Roles -> SlotRecords] /\ s.proc \in [InstanceIds -> Procs]
      /\ s.nextReq \in Nat /\ s.sends \in Nat
  BY MasterFields
<1>1. i \in InstanceIds /\ s.slot[role] \in SlotRecords /\ s.proc[i] \in Procs
  BY <1>0 DEF Present, SlotRecords, Ids
<1>2. request \in Requests /\ request.req = s.nextReq /\ request.phase = phase
  BY <1>0 DEF Requests, Phases
<1> HIDE DEF request
<1>3. /\ Upd(s, t, {"nextReq", "sends", "slot", "proc"})
      /\ t.nextReq = s.nextReq + 1 /\ t.sends = s.sends + 1
      /\ t.slot = [s.slot EXCEPT ![role] = w] /\ t.proc = [s.proc EXCEPT ![i] = p]
  BY <1>0, MasterFields DEF Issued, Upd, IsRecord, Fields, request
<1>4. w \in SlotRecords /\ w.id = i /\ w.state = s.slot[role].state /\ w.pending = request
  BY <1>1, <1>2 DEF SlotRecords
<1>5. s.proc[i].inbox \in Seq(Requests)
  BY <1>1 DEF Procs
<1>6. Append(s.proc[i].inbox, request) \in Seq(Requests)
  BY <1>2, <1>5, AppendFacts
<1>7. /\ p \in Procs /\ p.run = s.proc[i].run /\ p.gate = s.proc[i].gate
      /\ p.outbox = s.proc[i].outbox /\ p.inbox = Append(s.proc[i].inbox, request)
  BY <1>1, <1>6 DEF Procs
<1> HIDE DEF t, w, p, i
<1>8. /\ t.stage = s.stage /\ t.sup = s.sup /\ t.deferred = s.deferred /\ t.forced = s.forced
      /\ t.failure = s.failure /\ t.events = s.events /\ t.err = s.err /\ IsRecord(t)
  BY <1>3 DEF Upd, Fields
<1>9. /\ t.slot \in [Roles -> SlotRecords] /\ t.proc \in [InstanceIds -> Procs]
      /\ t.nextReq \in Nat /\ t.sends \in Nat
  <2>1. t.slot \in [Roles -> SlotRecords]
    BY <1>0, <1>3, <1>4
  <2>2. t.proc \in [InstanceIds -> Procs]
    BY <1>0, <1>3, <1>7
  <2> QED
    BY <1>0, <1>3, <2>1, <2>2
<1>10. t \in Masters
  BY <1>8, <1>9, Rebuilt, MasterFields
<1>11. /\ \A b \in Roles : t.slot[b].id = s.slot[b].id /\ t.slot[b].state = s.slot[b].state
       /\ \A b \in Roles \ {role} : t.slot[b].pending = s.slot[b].pending
       /\ t.slot[role].pending = request
  BY <1>0, <1>3, <1>4 DEF i
<1>12. /\ \A j \in InstanceIds \ {i} : t.proc[j] = s.proc[j]
       /\ t.proc[i] = p
  BY <1>0, <1>1, <1>3
<1>13. request \in Requests /\ request.req = s.nextReq /\ request.phase \in ControlPhases
  BY <1>2
<1>14. Sent(s, t, role, request)
  BY <1>1, <1>3, <1>7, <1>8, <1>10, <1>11, <1>12, <1>13 DEF Sent, i
<1> QED
  BY <1>14 DEF t, request

LEMMA SentNet ==
  ASSUME NEW s, NEW t, NEW O, NEW role \in Roles, NEW request, Net(s, O), Sent(s, t, role, request)
  PROVE  Net(t, O)
<1> DEFINE i == s.slot[role].id
           p == s.proc[i]
           q == t.proc[i]
<1>0. /\ s \in Masters /\ t \in Masters /\ t.nextReq = s.nextReq + 1 /\ i \in InstanceIds
      /\ request \in Requests /\ request.req = s.nextReq
  BY DEF Net, Sent
<1>1. s.nextReq \in Nat /\ t.nextReq \in Nat /\ p \in Procs /\ s.nextReq > 0
  BY <1>0, MasterFields DEF Net, Numbered
<1>2. /\ \A b \in Roles : t.slot[b].id = s.slot[b].id /\ t.slot[b].state = s.slot[b].state
      /\ \A b \in Roles \ {role} : t.slot[b].pending = s.slot[b].pending
      /\ t.slot[role].pending = request
      /\ \A j \in InstanceIds \ {i} : t.proc[j] = s.proc[j]
  BY DEF Sent
<1>3. q.run = p.run /\ q.gate = p.gate /\ q.outbox = p.outbox /\ q.inbox = Append(p.inbox, request)
  BY DEF Sent
<1>4. /\ p.inbox \in Seq(Requests) /\ p.outbox \in Seq(Frames)
      /\ Increasing(p.inbox) /\ Below(p.inbox, s.nextReq) /\ Below(p.outbox, s.nextReq)
  BY <1>0, <1>1 DEF Procs, Net, Numbered
<1>5. /\ \A k \in DOMAIN p.inbox : p.inbox[k].req \in Nat
      /\ \A k \in DOMAIN p.outbox : p.outbox[k].req \in Nat
  <2>1. /\ \A k \in DOMAIN p.inbox : p.inbox[k] \in Requests
        /\ \A k \in DOMAIN p.outbox : p.outbox[k] \in Frames
    BY <1>4, Elements
  <2> QED
    BY <2>1 DEF Requests, Frames
<1> HIDE DEF p, q, i
<1>6. /\ DOMAIN q.inbox = 1..(Len(p.inbox) + 1) /\ DOMAIN p.inbox = 1..Len(p.inbox)
      /\ Len(p.inbox) \in Nat
      /\ \A k \in DOMAIN p.inbox : q.inbox[k] = p.inbox[k]
      /\ q.inbox[Len(p.inbox) + 1] = request
  BY <1>0, <1>3, <1>4, AppendFacts
<1>7. Distinct(t)
  BY <1>2 DEF Net, Distinct
<1>8. \A j \in InstanceIds : t.proc[j].run = s.proc[j].run /\ t.proc[j].gate = s.proc[j].gate
  BY <1>2, <1>3 DEF p, q
<1>9. Owned(t) /\ Closing(t) /\ Killed(t)
  <2>1. Closing(t) /\ Killed(t)
    BY <1>2, <1>8 DEF Net, Closing, Killed, Dead
  <2>2. ASSUME NEW j \in InstanceIds, t.proc[j].run \in {"live", "leaving"} \/ Eager(t.proc[j])
        PROVE  \E b \in Roles : t.slot[b].id = j
    <3>1. CASE j = i
      BY <1>2, <3>1 DEF i
    <3>2. CASE j # i
      BY <1>2, <2>2, <3>2 DEF Net, Owned
    <3> QED
      BY <3>1, <3>2
  <2> QED
    BY <2>1, <2>2 DEF Owned
<1>10. Numbered(t)
  <2>1. Increasing(q.inbox)
    <3> SUFFICES ASSUME NEW j \in DOMAIN q.inbox, NEW k \in DOMAIN q.inbox, j < k
                 PROVE  q.inbox[j].req < q.inbox[k].req
      BY DEF Increasing
    <3>1. j \in DOMAIN p.inbox /\ q.inbox[j] = p.inbox[j]
      BY <1>6
    <3>2. CASE k \in DOMAIN p.inbox
      BY <1>4, <1>6, <3>1, <3>2 DEF Increasing
    <3>3. CASE k = Len(p.inbox) + 1
      BY <1>0, <1>4, <1>6, <3>1, <3>3 DEF Below
    <3> QED
      BY <1>6, <3>2, <3>3
  <2>2. Below(q.inbox, t.nextReq)
    BY <1>0, <1>1, <1>4, <1>5, <1>6 DEF Below
  <2>3. Below(q.outbox, t.nextReq)
    BY <1>0, <1>1, <1>3, <1>4, <1>5 DEF Below
  <2>4. ASSUME NEW j \in InstanceIds \ {i}
        PROVE  /\ Increasing(t.proc[j].inbox)
               /\ Below(t.proc[j].inbox, t.nextReq) /\ Below(t.proc[j].outbox, t.nextReq)
    <3>1. /\ Increasing(s.proc[j].inbox)
          /\ Below(s.proc[j].inbox, s.nextReq) /\ Below(s.proc[j].outbox, s.nextReq)
      BY DEF Net, Numbered
    <3>2. /\ \A k \in DOMAIN s.proc[j].inbox : s.proc[j].inbox[k].req \in Nat
          /\ \A k \in DOMAIN s.proc[j].outbox : s.proc[j].outbox[k].req \in Nat
      <4>0. s.proc[j].inbox \in Seq(Requests) /\ s.proc[j].outbox \in Seq(Frames)
        BY <1>0, MasterFields DEF Procs
      <4>1. /\ \A k \in DOMAIN s.proc[j].inbox : s.proc[j].inbox[k] \in Requests
            /\ \A k \in DOMAIN s.proc[j].outbox : s.proc[j].outbox[k] \in Frames
        BY <4>0, Elements
      <4> QED
        BY <4>1 DEF Requests, Frames
    <3>3. t.proc[j] = s.proc[j]
      BY <1>2
    <3> QED
      BY <1>0, <1>1, <3>1, <3>2, <3>3 DEF Below
  <2>5. ASSUME NEW b \in Roles
        PROVE  \/ t.slot[b].pending = NoPending
               \/ /\ t.slot[b].pending.req \in 1..(t.nextReq - 1)
                  /\ t.slot[b].pending.phase \in ControlPhases
    <3>1. CASE b = role
      <4>1. t.slot[b].pending = request /\ request.phase \in ControlPhases
        BY <1>2, <3>1 DEF Sent
      <4>2. request.req \in 1..(t.nextReq - 1)
        BY <1>0, <1>1
      <4> QED
        BY <4>1, <4>2
    <3>2. CASE b # role
      BY <1>0, <1>1, <1>2, <3>2 DEF Net, Numbered
    <3> QED
      BY <3>1, <3>2
  <2> QED
    BY <1>0, <1>1, <2>1, <2>2, <2>3, <2>4, <2>5 DEF Numbered, q
<1>11. ASSUME NEW b \in Roles, b # role PROVE s.slot[b].id # i
  BY <1>0, <1>11, IdTypes DEF Net, Distinct, i
<1>12. Tracked(t)
  <2> SUFFICES ASSUME NEW b \in Roles, t.slot[b].id \in InstanceIds, t.slot[b].pending # NoPending
               PROVE  Tracks(t.proc[t.slot[b].id], t.slot[b].pending.req)
    BY DEF Tracked
  <2>1. CASE b = role
    <3>1. t.slot[b].id = i /\ t.slot[b].pending.req = s.nextReq
      BY <1>0, <1>2, <2>1 DEF i
    <3>2. ASSUME NEW k \in DOMAIN q.inbox PROVE q.inbox[k].req <= s.nextReq
      <4>1. CASE k \in DOMAIN p.inbox
        BY <1>1, <1>4, <1>5, <1>6, <4>1 DEF Below
      <4>2. CASE k = Len(p.inbox) + 1
        BY <1>0, <1>1, <1>6, <4>2
      <4> QED
        BY <1>6, <4>1, <4>2
    <3>3. \A k \in DOMAIN q.outbox : q.outbox[k].req # s.nextReq
      BY <1>1, <1>3, <1>4, <1>5 DEF Below
    <3> QED
      BY <3>1, <3>2, <3>3 DEF Tracks, q
  <2>2. CASE b # role
    BY <1>2, <1>11, <2>2 DEF Net, Tracked
  <2> QED
    BY <2>1, <2>2
<1>13. ASSUME NEW o \in O PROVE Seen(t, o)
  <2>1. Seen(s, o)
    BY DEF Net
  <2>2. o.kind = "Exit" => t.proc[o.id].run = "gone"
    BY <1>8, <2>1 DEF Seen
  <2>3. ASSUME o.kind = "Ack" PROVE o.req < t.nextReq
    BY <1>0, <1>1, <2>1, <2>3 DEF Seen, Observations
  <2>4. ASSUME o.kind = "Ack", NEW b \in Roles, t.slot[b].id = o.id,
               t.slot[b].pending # NoPending, t.slot[b].pending.req = o.req
        PROVE  Answered(t.proc[o.id], o)
    <3>0. o.id \in InstanceIds /\ o.req < s.nextReq /\ o.req \in Nat
      BY <2>1, <2>4 DEF Seen, Observations
    <3>1. b # role
      BY <1>0, <1>1, <1>2, <2>4, <3>0
    <3>2. s.slot[b].id = o.id /\ s.slot[b].pending = t.slot[b].pending /\ t.proc[o.id] = s.proc[o.id]
      BY <1>2, <1>11, <2>4, <3>0, <3>1
    <3> QED
      BY <2>1, <2>4, <3>2 DEF Seen
  <2> QED
    BY <2>1, <2>2, <2>3, <2>4 DEF Seen
<1>14. Launched(t)
  BY <1>8, FirstId DEF Net, Launched
<1> QED
  BY <1>0, <1>7, <1>9, <1>10, <1>12, <1>13, <1>14 DEF Net

\* A request to open a gate is sent when nobody else admits or is about to.
LEMMA SentSingle ==
  ASSUME NEW s \in Masters, NEW t, NEW role \in Roles, NEW request, Single(s),
         Sent(s, t, role, request),
         \/ request.phase \notin {"Activate", "Reactivate"}
         \/ \A j \in InstanceIds \ {s.slot[role].id} : ~Eager(s.proc[j])
  PROVE  Single(t)
<1> DEFINE i == s.slot[role].id
           p == s.proc[i]
           q == t.proc[i]
<1>0. i \in InstanceIds /\ request \in Requests /\ p \in Procs
  BY MasterFields DEF Sent
<1>1. \A j \in InstanceIds \ {i} : t.proc[j] = s.proc[j]
  BY DEF Sent
<1>2. q.run = p.run /\ q.gate = p.gate /\ q.inbox = Append(p.inbox, request)
  BY DEF Sent
<1>3. p.inbox \in Seq(Requests)
  BY <1>0 DEF Procs
<1> HIDE DEF p, q, i
<1>4. /\ DOMAIN q.inbox = 1..(Len(p.inbox) + 1) /\ DOMAIN p.inbox = 1..Len(p.inbox)
      /\ Len(p.inbox) \in Nat
      /\ \A k \in DOMAIN p.inbox : q.inbox[k] = p.inbox[k]
      /\ q.inbox[Len(p.inbox) + 1] = request
  BY <1>0, <1>2, <1>3, AppendFacts
<1>5. request.phase \notin {"Activate", "Reactivate"} /\ Eager(q) => Eager(p)
  BY <1>2, <1>4 DEF Eager
<1>6. CASE request.phase \notin {"Activate", "Reactivate"}
  <2>1. \A j \in InstanceIds : Eager(t.proc[j]) => Eager(s.proc[j])
    BY <1>0, <1>1, <1>5, <1>6 DEF p, q
  <2>2. \A j, k \in InstanceIds : Overlaps(s, j, k) => Overlaps(t, j, k)
    BY <1>0, <1>1, <1>2 DEF Overlaps, Sent, Roles, p, q, i
  <2> QED
    BY <2>1, <2>2 DEF Single
<1>7. CASE \A j \in InstanceIds \ {i} : ~Eager(s.proc[j])
  BY <1>1, <1>7 DEF Single
<1> QED
  BY <1>6, <1>7 DEF i

LEMMA SentControl ==
  ASSUME NEW s \in Masters, NEW t, NEW role \in Roles, NEW request, Control(s),
         Sent(s, t, role, request), Distinct(s),
         role = "active" /\ s.stage = "Operational" => s.sup.active.lifecycle # "Active"
  PROVE  Control(t)
<1>1. /\ t.stage = s.stage /\ t.sup = s.sup /\ t.deferred = s.deferred
      /\ \A b \in Roles : t.slot[b].id = s.slot[b].id
      /\ \A j \in InstanceIds \ {s.slot[role].id} : t.proc[j] = s.proc[j]
      /\ t.proc[s.slot[role].id].run = s.proc[s.slot[role].id].run
  BY DEF Sent
<1>2. Matched(t) /\ BootAlone(t)
  BY <1>1 DEF Control, Matched, BootAlone, Roles
<1>3. Reaps(t)
  <2>1. PhaseOf(t) = PhaseOf(s) /\ t.slot["active"].id = s.slot["active"].id
    BY <1>1 DEF PhaseOf, Roles
  <2> QED
    BY <1>1, <2>1 DEF Control, Reaps
<1>4. Serving(t)
  <2> SUFFICES ASSUME t.stage = "Operational", t.sup.active.lifecycle = "Active"
               PROVE  LET p == t.proc[t.slot["active"].id]
                      IN  p.run = "live" => p.gate = "open" /\ p.inbox = << >>
    BY DEF Serving
  <2>1. s.slot["active"].id \in InstanceIds /\ role # "active"
    BY <1>1, ActivePresent DEF Control
  <2>2. s.slot["active"].id # s.slot[role].id
    BY <2>1, IdTypes DEF Distinct, Roles
  <2>3. t.proc[t.slot["active"].id] = s.proc[s.slot["active"].id]
    BY <1>1, <2>1, <2>2 DEF Roles
  <2> QED
    BY <1>1, <2>3 DEF Control, Serving
<1> QED
  BY <1>2, <1>3, <1>4 DEF Control

---------------------------------------------------------------------------
(* The events of the replacement supervisor, where its lifecycles agree *)

SameIds(u, v) == \A role \in Roles : v[role].instance_id = u[role].instance_id

LEMMA MovedFacts ==
  ASSUME NEW u \in Sups, NEW role \in Roles, NEW l \in Lifecycles
  PROVE  /\ Moved(u, role, l) \in Sups
         /\ Moved(u, role, l)[role].lifecycle = l
         /\ Moved(u, role, l)[role].instance_id = u[role].instance_id
         /\ \A b \in Roles \ {role} : Moved(u, role, l)[b] = u[b]
         /\ SameIds(u, Moved(u, role, l))
<1>1. CASE role = "active"
  BY <1>1 DEF Moved, Sups, Holders, Roles, SameIds
<1>2. CASE role = "candidate"
  BY <1>2 DEF Moved, Sups, Holders, Roles, SameIds
<1>3. CASE role = "retired"
  BY <1>3 DEF Moved, Sups, Holders, Roles, SameIds
<1> QED
  BY <1>1, <1>2, <1>3 DEF Roles

LEMMA VacantFacts == Vacant \in Holders /\ Vacant.instance_id = NoInstance /\ ~Occupied(Vacant)
                     /\ Vacant.lifecycle = "Vacant"
  BY DEF Vacant, Instance, Holders, Ids, Occupied

LEMMA NoSupervisorFacts == NoSupervisor \in Sups /\ ~Occupied(NoSupervisor.active)
  BY VacantFacts DEF NoSupervisor, Sups

\* What a supervisor answers to an event that its state allows: it is left behind as
\* v, with lifecycles that agree.
Accepts(answer, v) == answer.ok = TRUE /\ answer.sup = v /\ v \in Sups /\ Agree(v)

LEMMA CandidateFailedAgrees ==
  ASSUME NEW u \in Sups, Agree(u), Occupied(u.candidate), NEW answer,
         answer = CandidateFailed(u, u.candidate.instance_id)
  PROVE  /\ Accepts(answer, answer.sup) /\ SameIds(u, answer.sup)
         /\ answer.sup.candidate.lifecycle = "Stopping"
         /\ Len(answer.actions) = 2 => answer.sup.active.lifecycle # "Active"
         /\ answer.sup.active.lifecycle = "Active" => u.active.lifecycle = "Active"
<1> DEFINE v == Moved(u, "candidate", "Stopping")
           w == Moved(v, "active", "Reactivating")
<1>0. u.candidate.lifecycle \in {"Spawned", "Handshaking", "Preparing", "Ready", "Activating", "Stopping"}
  BY DEF Agree
<1>1. CanTransition(u.candidate.lifecycle, "Failed") /\ Holds(u, "candidate", u.candidate.instance_id)
  BY <1>0 DEF CanTransition, Lifecycles, Holds
<1>2. /\ v \in Sups /\ v.candidate.lifecycle = "Stopping" /\ v.active = u.active
      /\ v.retired = u.retired /\ v.candidate.instance_id = u.candidate.instance_id
  BY MovedFacts DEF Roles, Lifecycles
<1>2a. SameIds(u, v)
  BY MovedFacts DEF Roles, Lifecycles
<1> HIDE DEF v
<1>3. /\ w \in Sups /\ w.active.lifecycle = "Reactivating" /\ w.candidate = v.candidate
      /\ w.retired = v.retired /\ w.active.instance_id = v.active.instance_id
  BY <1>2, MovedFacts DEF Roles, Lifecycles
<1>3a. SameIds(v, w)
  BY <1>2, MovedFacts DEF Roles, Lifecycles
<1> HIDE DEF w
<1>4. CASE u.active.lifecycle = "Quiescing"
  <2>1. answer.ok = TRUE /\ answer.sup = w /\ Len(answer.actions) = 2
    BY <1>1, <1>4 DEF CandidateFailed, Accept, Action, v, w
  <2>2. Agree(w)
    BY <1>2, <1>3 DEF Agree, Occupied
  <2>3. SameIds(u, w)
    BY <1>2a, <1>3a DEF SameIds
  <2> QED
    BY <1>2, <1>3, <2>1, <2>2, <2>3 DEF Accepts
<1>5. CASE u.active.lifecycle # "Quiescing"
  <2>1. answer.ok = TRUE /\ answer.sup = v /\ Len(answer.actions) = 1
    BY <1>1, <1>5 DEF CandidateFailed, Accept, Action, v
  <2>2. Agree(v)
    BY <1>2, <1>5 DEF Agree, Occupied
  <2> QED
    BY <1>2, <1>2a, <2>1, <2>2 DEF Accepts
<1> QED
  BY <1>4, <1>5

LEMMA CandidateStoppedAgrees ==
  ASSUME NEW u \in Sups, Agree(u), Occupied(u.candidate), u.candidate.lifecycle = "Stopping",
         NEW answer, answer = CandidateStopped(u, u.candidate.instance_id)
  PROVE  /\ Accepts(answer, answer.sup)
         /\ answer.sup.active = u.active /\ answer.sup.candidate = Vacant
         /\ answer.sup.retired = u.retired
<1> DEFINE v == [u EXCEPT !.candidate = Vacant]
<1>1. answer.ok = TRUE /\ answer.sup = v
  BY DEF CandidateStopped, InState, Holds, Accept
<1>2. v \in Sups /\ v.active = u.active /\ v.candidate = Vacant /\ v.retired = u.retired
  BY VacantFacts DEF Sups
<1> HIDE DEF v
<1>3. Agree(v)
  BY <1>2, VacantFacts DEF Agree
<1> QED
  BY <1>1, <1>2, <1>3 DEF Accepts

LEMMA RetiredFailedAgrees ==
  ASSUME NEW u \in Sups, Agree(u), Occupied(u.retired), NEW answer,
         answer = RetiredFailed(u, u.retired.instance_id)
  PROVE  /\ Accepts(answer, answer.sup) /\ SameIds(u, answer.sup)
         /\ answer.sup.active = u.active /\ answer.sup.retired.lifecycle = "Stopping"
<1> DEFINE v == Moved(u, "retired", "Stopping")
<1>0. u.retired.lifecycle \in {"Draining", "Snapshotting", "Stopping"}
  BY DEF Agree
<1>1. CanTransition(u.retired.lifecycle, "Failed") /\ Holds(u, "retired", u.retired.instance_id)
  BY <1>0 DEF CanTransition, Lifecycles, Holds
<1>2. /\ v \in Sups /\ v.retired.lifecycle = "Stopping" /\ v.active = u.active
      /\ v.candidate = u.candidate /\ v.retired.instance_id = u.retired.instance_id
  BY MovedFacts DEF Roles, Lifecycles
<1>2a. SameIds(u, v)
  BY MovedFacts DEF Roles, Lifecycles
<1>3. answer.ok = TRUE /\ answer.sup = v
  BY <1>1 DEF RetiredFailed, Accept
<1> HIDE DEF v
<1>4. Agree(v)
  BY <1>2 DEF Agree, Occupied
<1> QED
  BY <1>2, <1>2a, <1>3, <1>4 DEF Accepts

LEMMA RetiredStoppedAgrees ==
  ASSUME NEW u \in Sups, Agree(u), Occupied(u.retired), u.retired.lifecycle = "Stopping",
         NEW answer, answer = RetiredStopped(u, u.retired.instance_id)
  PROVE  /\ Accepts(answer, answer.sup)
         /\ answer.sup.active = u.active /\ answer.sup.candidate = u.candidate
         /\ answer.sup.retired = Vacant
<1> DEFINE v == [u EXCEPT !.retired = Vacant]
<1>1. answer.ok = TRUE /\ answer.sup = v
  BY DEF RetiredStopped, InState, Holds, Accept
<1>2. v \in Sups /\ v.active = u.active /\ v.candidate = u.candidate /\ v.retired = Vacant
  BY VacantFacts DEF Sups
<1> HIDE DEF v
<1>3. Agree(v)
  BY <1>2, VacantFacts DEF Agree
<1> QED
  BY <1>1, <1>2, <1>3 DEF Accepts

LEMMA CandidatePreparedAgrees ==
  ASSUME NEW u \in Sups, Agree(u), Occupied(u.candidate), NEW answer,
         u.candidate.lifecycle \in {"Spawned", "Handshaking", "Preparing"},
         answer = CandidatePrepared(u, u.candidate.instance_id)
  PROVE  /\ answer.ok \in BOOLEAN /\ answer.sup \in Sups /\ Agree(answer.sup) /\ SameIds(u, answer.sup)
         /\ answer.ok => answer.sup.active.lifecycle = "Quiescing"
<1> DEFINE v == Moved(u, "candidate", "Ready")
           w == Moved(v, "active", "Quiescing")
<1>2. /\ v \in Sups /\ v.candidate.lifecycle = "Ready" /\ v.active = u.active
      /\ v.retired = u.retired /\ v.candidate.instance_id = u.candidate.instance_id
      /\ SameIds(u, v)
  BY MovedFacts DEF Roles, Lifecycles
<1> HIDE DEF v
<1>3. /\ w \in Sups /\ w.active.lifecycle = "Quiescing" /\ w.candidate = v.candidate
      /\ w.retired = v.retired /\ w.active.instance_id = v.active.instance_id /\ SameIds(v, w)
  BY <1>2, MovedFacts DEF Roles, Lifecycles
<1> HIDE DEF w
<1>4. u.active.lifecycle = "Active"
  BY DEF Agree
<1>5. CASE u.candidate.lifecycle = "Preparing"
  <2>1. answer.ok = TRUE /\ answer.sup = w
    BY <1>4, <1>5 DEF CandidatePrepared, InState, Holds, CanTransition, ForwardEdges, Accept, v, w
  <2>2. Agree(w)
    BY <1>2, <1>3 DEF Agree, Occupied
  <2>3. SameIds(u, w)
    BY <1>2, <1>3 DEF SameIds
  <2> QED
    BY <1>2, <1>3, <2>1, <2>2, <2>3
<1>6. CASE u.candidate.lifecycle # "Preparing"
  <2>1. answer.ok = FALSE /\ answer.sup = u
    BY <1>6 DEF CandidatePrepared, InState, Reject
  <2> QED
    BY <2>1 DEF SameIds
<1> QED
  BY <1>5, <1>6

LEMMA ActiveQuiescedAgrees ==
  ASSUME NEW u \in Sups, Agree(u), Occupied(u.candidate), u.candidate.lifecycle = "Ready",
         NEW answer, answer = ActiveQuiesced(u, u.active.instance_id)
  PROVE  /\ Accepts(answer, answer.sup) /\ SameIds(u, answer.sup)
         /\ answer.sup.active.lifecycle = "Quiescing" /\ answer.sup.candidate.lifecycle = "Activating"
<1> DEFINE v == Moved(u, "candidate", "Activating")
<1>0. u.active.lifecycle = "Quiescing" /\ Occupied(u.active)
  BY DEF Agree
<1>1. answer.ok = TRUE /\ answer.sup = v
  BY <1>0 DEF ActiveQuiesced, InState, Holds, Accept
<1>2. /\ v \in Sups /\ v.candidate.lifecycle = "Activating" /\ v.active = u.active
      /\ v.retired = u.retired /\ v.candidate.instance_id = u.candidate.instance_id
      /\ SameIds(u, v)
  BY MovedFacts DEF Roles, Lifecycles
<1> HIDE DEF v
<1>3. Agree(v)
  BY <1>0, <1>2 DEF Agree, Occupied
<1> QED
  BY <1>0, <1>1, <1>2, <1>3 DEF Accepts

LEMMA ActiveReactivatedAgrees ==
  ASSUME NEW u \in Sups, Agree(u), ~Occupied(u.retired),
         Occupied(u.candidate) => u.candidate.lifecycle = "Stopping",
         NEW answer, answer = ActiveReactivated(u, u.active.instance_id)
  PROVE  /\ answer.ok \in BOOLEAN /\ answer.sup \in Sups /\ Agree(answer.sup) /\ SameIds(u, answer.sup)
         /\ answer.sup.active.lifecycle = "Active" /\ ~Occupied(answer.sup.retired)
         /\ answer.sup.candidate = u.candidate
<1> DEFINE v == Moved(u, "active", "Active")
<1>0. u.active.lifecycle \in {"Active", "Reactivating"} /\ Occupied(u.active)
  BY DEF Agree
<1>2. /\ v \in Sups /\ v.active.lifecycle = "Active" /\ v.candidate = u.candidate
      /\ v.retired = u.retired /\ v.active.instance_id = u.active.instance_id
      /\ SameIds(u, v)
  BY MovedFacts DEF Roles, Lifecycles
<1>3. CASE u.active.lifecycle = "Reactivating"
  <2>1. answer.ok = TRUE /\ answer.sup = v
    BY <1>0, <1>3 DEF ActiveReactivated, Holds, CanTransition, ForwardEdges, Accept
  <2> HIDE DEF v
  <2>2. Agree(v)
    BY <1>0, <1>2 DEF Agree, Occupied
  <2> QED
    BY <1>2, <2>1, <2>2
<1>4. CASE u.active.lifecycle = "Active"
  <2>1. ~CanTransition("Active", "Active")
    BY DEF CanTransition, ForwardEdges
  <2>2. answer.ok = FALSE /\ answer.sup = u
    BY <1>4, <2>1 DEF ActiveReactivated, Reject
  <2> QED
    BY <1>4, <2>2 DEF SameIds
<1> QED
  BY <1>0, <1>3, <1>4

LEMMA RetiredDrainedAgrees ==
  ASSUME NEW u \in Sups, Agree(u), Occupied(u.retired), NEW answer,
         answer = RetiredDrained(u, u.retired.instance_id)
  PROVE  /\ answer.ok \in BOOLEAN /\ answer.sup \in Sups /\ Agree(answer.sup) /\ SameIds(u, answer.sup)
         /\ answer.sup.active = u.active
         /\ answer.ok => answer.sup.retired.lifecycle = "Snapshotting"
<1> DEFINE v == Moved(u, "retired", "Snapshotting")
<1>2. /\ v \in Sups /\ v.retired.lifecycle = "Snapshotting" /\ v.active = u.active
      /\ v.candidate = u.candidate /\ v.retired.instance_id = u.retired.instance_id
      /\ SameIds(u, v)
  BY MovedFacts DEF Roles, Lifecycles
<1>3. (answer.ok = TRUE /\ answer.sup = v) \/ (answer.ok = FALSE /\ answer.sup = u)
  BY DEF RetiredDrained, Accept, Reject
<1> HIDE DEF v
<1>4. Agree(v)
  BY <1>2 DEF Agree, Occupied
<1> QED
  BY <1>2, <1>3, <1>4 DEF SameIds

LEMMA RetiredCapturedAgrees ==
  ASSUME NEW u \in Sups, Agree(u), Occupied(u.retired), NEW answer,
         answer = RetiredSnapshotCaptured(u, u.retired.instance_id)
  PROVE  /\ answer.ok \in BOOLEAN /\ answer.sup \in Sups /\ Agree(answer.sup) /\ SameIds(u, answer.sup)
         /\ answer.sup.active = u.active
<1> DEFINE v == Moved(u, "retired", "Stopping")
<1>2. /\ v \in Sups /\ v.retired.lifecycle = "Stopping" /\ v.active = u.active
      /\ v.candidate = u.candidate /\ v.retired.instance_id = u.retired.instance_id
      /\ SameIds(u, v)
  BY MovedFacts DEF Roles, Lifecycles
<1>3. (answer.ok = TRUE /\ answer.sup = v) \/ (answer.ok = FALSE /\ answer.sup = u)
  BY DEF RetiredSnapshotCaptured, Accept, Reject
<1> HIDE DEF v
<1>4. Agree(v)
  BY <1>2 DEF Agree, Occupied
<1> QED
  BY <1>2, <1>3, <1>4 DEF SameIds

LEMMA CandidateActivatedAgrees ==
  ASSUME NEW u \in Sups, Agree(u), Occupied(u.candidate), u.candidate.lifecycle = "Activating",
         NEW answer, answer = CandidateActivated(u, u.candidate.instance_id)
  PROVE  /\ Accepts(answer, answer.sup)
         /\ answer.sup.active.instance_id = u.candidate.instance_id
         /\ answer.sup.active.lifecycle = "Active"
         /\ answer.sup.candidate = Vacant
         /\ answer.sup.retired.instance_id = u.active.instance_id
         /\ answer.sup.retired.lifecycle = "Draining"
<1> DEFINE v == [active |-> [u.candidate EXCEPT !.lifecycle = "Active"], candidate |-> Vacant,
                 retired |-> [u.active EXCEPT !.lifecycle = "Draining"]]
<1>0. u.active.lifecycle = "Quiescing" /\ Occupied(u.active)
  BY DEF Agree
<1>1. answer.ok = TRUE /\ answer.sup = v
  BY <1>0 DEF CandidateActivated, InState, Holds, CanTransition, ForwardEdges, Accept
<1>2. /\ v \in Sups /\ v.active.instance_id = u.candidate.instance_id
      /\ v.active.lifecycle = "Active" /\ v.candidate = Vacant
      /\ v.retired.instance_id = u.active.instance_id /\ v.retired.lifecycle = "Draining"
  BY VacantFacts DEF Sups, Holders, Lifecycles
<1> HIDE DEF v
<1>3. Agree(v)
  BY <1>0, <1>2, VacantFacts DEF Agree, Occupied
<1> QED
  BY <1>1, <1>2, <1>3 DEF Accepts

---------------------------------------------------------------------------
(* Steps that move the supervisor *)

LEMMA PhaseFacts ==
  ASSUME NEW s, Matched(s), s.stage = "Operational"
  PROVE  /\ PhaseOf(s) = Phase(s.sup)
         /\ PhaseOf(s) = "AdoptingCandidate" =>
              /\ Occupied(s.sup.candidate) /\ ~Occupied(s.sup.retired)
              /\ s.sup.candidate.lifecycle \in {"Spawned", "Handshaking", "Preparing"}
         /\ PhaseOf(s) = "Quiescing" =>
              /\ Occupied(s.sup.candidate) /\ ~Occupied(s.sup.retired)
              /\ s.sup.candidate.lifecycle = "Ready"
         /\ PhaseOf(s) = "ActivatingCandidate" <=>
              /\ Occupied(s.sup.candidate) /\ ~Occupied(s.sup.retired)
              /\ s.sup.candidate.lifecycle = "Activating"
         /\ PhaseOf(s) = "RollingBack" =>
              /\ ~Occupied(s.sup.retired)
              /\ Occupied(s.sup.candidate) => s.sup.candidate.lifecycle = "Stopping"
              /\ ~Occupied(s.sup.candidate) => s.sup.active.lifecycle = "Reactivating"
         /\ PhaseOf(s) = "Running" =>
              /\ ~Occupied(s.sup.candidate) /\ ~Occupied(s.sup.retired)
              /\ s.sup.active.lifecycle = "Active"
         /\ PhaseOf(s) = "DrainingRetired" =>
              /\ Occupied(s.sup.retired)
              /\ s.sup.retired.lifecycle \in {"Draining", "Snapshotting"}
         /\ PhaseOf(s) = "StoppingRetired" =>
              /\ Occupied(s.sup.retired) /\ s.sup.retired.lifecycle = "Stopping"
<1>0. Agree(s.sup)
  BY DEF Matched
<1>1. s.sup # NoSupervisor
  BY <1>0, NoSupervisorFacts DEF Agree
<1>2. PhaseOf(s) = Phase(s.sup)
  BY <1>1 DEF PhaseOf
<1>3. CASE Occupied(s.sup.retired)
  BY <1>0, <1>2, <1>3 DEF Agree, Phase
<1>4. CASE ~Occupied(s.sup.retired) /\ Occupied(s.sup.candidate)
  BY <1>0, <1>2, <1>4 DEF Agree, Phase
<1>5. CASE ~Occupied(s.sup.retired) /\ ~Occupied(s.sup.candidate)
  BY <1>0, <1>2, <1>5 DEF Agree, Phase
<1> QED
  BY <1>3, <1>4, <1>5

Steers(s, t) ==
    /\ t \in Masters /\ t.nextReq = s.nextReq /\ t.stage = s.stage /\ t.deferred = s.deferred
    /\ t.slot = s.slot /\ t.proc = s.proc /\ t.sends = s.sends
    /\ t.failure = s.failure /\ t.events = s.events

LEMMA SteerNet ==
  ASSUME NEW s, NEW t, NEW O, Net(s, O), Steers(s, t)
  PROVE  Net(t, O)
<1>1. s \in Masters /\ s.nextReq \in Nat
  BY MasterFields DEF Net
<1>2. Shrinks(s, t)
  BY <1>1 DEF Steers, Shrinks, From, Suffers
<1>3. Distinct(t) /\ Owned(t)
  BY DEF Steers, Net, Distinct, Owned
<1> QED
  BY <1>2, <1>3, ShrinkNet

LEMMA SteerSingle ==
  ASSUME NEW s, NEW t, Single(s), Steers(s, t),
         s.stage = "Operational" /\ s.sup.candidate.lifecycle = "Stopping" =>
            t.sup.candidate.lifecycle = "Stopping" \/ s.slot["candidate"].id = NoInstance
  PROVE  Single(t)
<1>1. \A i, j \in InstanceIds : Overlaps(s, i, j) => Overlaps(t, i, j)
  BY NoInstanceAssumption DEF Steers, Overlaps
<1> QED
  BY <1>1 DEF Steers, Single

LEMMA SteerControl ==
  ASSUME NEW s \in Masters, NEW t, Control(s), Steers(s, t), s.stage = "Operational", ~s.deferred,
         Agree(t.sup), SameIds(s.sup, t.sup),
         t.sup.active.lifecycle = "Active" =>
            \/ s.sup.active.lifecycle = "Active"
            \/ LET p == s.proc[s.slot["active"].id]
               IN  p.run = "live" => p.gate = "open" /\ p.inbox = << >>
  PROVE  Control(t)
<1>1. Matched(t)
  BY DEF Control, Matched, Steers, SameIds
<1>2. BootAlone(t) /\ Reaps(t)
  BY DEF BootAlone, Reaps, Steers
<1>3. Serving(t)
  BY DEF Control, Serving, Steers
<1> QED
  BY <1>1, <1>2, <1>3 DEF Control

LEMMA AppliedSteers ==
  ASSUME NEW s \in Masters, NEW answer, NEW v \in Sups, NEW e \in BOOLEAN,
         answer.sup = v, answer.ok = ~e
  PROVE  Steers(s, Applied(s, answer)) /\ Applied(s, answer).sup = v /\ Applied(s, answer).err = e
<1> DEFINE t == Applied(s, answer)
<1>1. Upd(s, t, {"sup", "err"}) /\ t.sup = v /\ t.err = e
  BY MasterFields DEF Applied, Upd, IsRecord, Fields
<1> HIDE DEF t
<1>2. /\ t.stage = s.stage /\ t.deferred = s.deferred /\ t.slot = s.slot /\ t.proc = s.proc
      /\ t.nextReq = s.nextReq /\ t.forced = s.forced /\ t.failure = s.failure
      /\ t.events = s.events /\ t.sends = s.sends /\ IsRecord(t)
  BY <1>1 DEF Upd, Fields
<1>3. t.err \in BOOLEAN /\ t.sup \in Sups
  BY <1>1
<1>4. t \in Masters
  BY <1>2, <1>3, Rebuilt, MasterFields
<1> QED
  BY <1>1, <1>2, <1>4 DEF Steers, t

LEMMA AcceptedSteers ==
  ASSUME NEW s \in Masters, NEW answer, NEW v, Accepts(answer, v)
  PROVE  Steers(s, Applied(s, answer)) /\ Applied(s, answer).sup = v /\ Applied(s, answer).err = FALSE
<1>1. answer.ok = TRUE /\ answer.sup = v /\ v \in Sups
  BY DEF Accepts
<1>2. answer.ok = ~FALSE /\ FALSE \in BOOLEAN
  BY <1>1
<1> QED
  BY <1>1, <1>2, AppliedSteers

\* A worker that was seen to exit stays gone.
StayGone(s, t) ==
    \A i \in InstanceIds : s.proc[i].run = "gone" => t.proc[i].run = "gone"

LEMMA KeepsStayGone ==
  ASSUME NEW s, NEW t, Keeps(s, t)
  PROVE  StayGone(s, t)
  BY DEF Keeps, Suffers, StayGone

\* A rollback whose candidate is dead leaves nobody else to admit with the active worker.
LEMMA PairSingle ==
  ASSUME NEW s, Owned(s), s.slot["retired"].id = NoInstance,
         Dead(s.proc[s.slot["candidate"].id]),
         s.stage = "Operational" => s.sup.candidate.lifecycle = "Stopping"
  PROVE  Single(s)
<1> SUFFICES ASSUME NEW i \in InstanceIds, NEW j \in InstanceIds, i # j,
                    Eager(s.proc[i]), Eager(s.proc[j])
             PROVE  Overlaps(s, i, j) \/ Overlaps(s, j, i)
  BY DEF Single
<1>1. i \in {s.slot["active"].id, s.slot["candidate"].id}
      /\ j \in {s.slot["active"].id, s.slot["candidate"].id}
  BY NoInstanceAssumption DEF Owned, Roles
<1> QED
  BY <1>1 DEF Overlaps, Dead, Eager

LEMMA RoleIds ==
  ASSUME NEW s \in Masters, NEW role \in Roles
  PROVE  /\ s.slot[role].id \in Ids /\ (Present(s, role) <=> s.slot[role].id \in InstanceIds)
         /\ s.slot[role].state \in {"Running", "Terminating", "Forced"}
<1>1. s.slot[role].id \in Ids /\ s.slot[role].state \in {"Running", "Terminating", "Forced"}
  BY MasterFields DEF SlotRecords
<1> QED
  BY <1>1, NoInstanceAssumption DEF Ids, Present

LEMMA FinishKeeps ==
  ASSUME NEW s \in Masters
  PROVE  Keeps(s, MaybeFinishRollback(s)) /\ MaybeFinishRollback(s).err = s.err
<1> DEFINE f == [s EXCEPT !.failure = FALSE]
           t == Emit(f, "RollbackCompleted", s.slot["active"].id, NoInstance)
<1>1. Keeps(s, f) /\ f \in Masters /\ f.err = s.err
  BY FailureKeeps DEF Keeps, Upd, Fields
<1>2. s.slot["active"].id \in Ids /\ NoInstance \in Ids /\ "RollbackCompleted" \in EventKinds
  BY RoleIds DEF Roles, Ids, EventKinds
<1> HIDE DEF f
<1>3. Keeps(f, t) /\ Upd(f, t, {"events"})
  BY <1>1, <1>2, EmitKeeps
<1> HIDE DEF t
<1>4. Keeps(s, t)
  BY <1>1, <1>3, KeepsTwice
<1>5. t.err = s.err
  BY <1>1, <1>3 DEF Upd, Fields
<1>6. MaybeFinishRollback(s) \in {s, t}
  BY DEF MaybeFinishRollback, f, t
<1> QED
  BY <1>4, <1>5, <1>6, KeepsSelf

---------------------------------------------------------------------------
(* Rolling back *)

LEMMA BeginRollbackGood ==
  ASSUME NEW s, NEW O, NEW bad, Good(s, O), s.stage = "Operational"
  PROVE  LET t == BeginRollback(s, bad)
         IN  /\ Good(t, O) /\ StayGone(s, t) /\ ~t.deferred
             /\ t.slot["candidate"].id = s.slot["candidate"].id
             /\ t.stage \in {"Operational", "Failing", "Failed"}
             /\ t.err \/ t.stage # "Operational" \/ t.sup.candidate.lifecycle = "Stopping"
<1> DEFINE t == BeginRollback(s, bad)
<1>0. s \in Masters /\ Net(s, O) /\ Single(s) /\ Control(s) /\ Distinct(s) /\ Matched(s) /\ Reaps(s)
  BY DEF Good, Net, Control
<1>1. CASE s.deferred
  <2>1. t = FailMaster(s)
    BY <1>1 DEF BeginRollback
  <2>2. /\ Good(FailMaster(s), O) /\ FailMaster(s).stage \in {"Failing", "Failed"}
        /\ ~FailMaster(s).deferred
        /\ FailMaster(s).slot["candidate"].id = s.slot["candidate"].id
        /\ StayGone(s, FailMaster(s))
    BY <1>0, FailMasterGood DEF Roles, StayGone, Suffers
  <2> QED
    BY <2>1, <2>2
<1>2. CASE ~s.deferred /\ ~Occupied(s.sup.candidate)
  <2>1. t = Fail(s)
    BY <1>2 DEF BeginRollback
  <2>2. Keeps(s, Fail(s)) /\ Fail(s).err = TRUE
    BY <1>0, FailKeeps
  <2>3. Good(Fail(s), O) /\ StayGone(s, Fail(s))
    BY <2>2, KeepGood, KeepsStayGone
  <2>4. Fail(s).deferred = s.deferred /\ Fail(s).stage = "Operational" /\ Fail(s).slot["candidate"].id = s.slot["candidate"].id
    BY <2>2 DEF Keeps, Roles
  <2> QED
    BY <1>2, <2>1, <2>2, <2>3, <2>4
<1>3. CASE ~s.deferred /\ Occupied(s.sup.candidate)
  <2> DEFINE candidate == s.sup.candidate.instance_id
             f == [s EXCEPT !.failure = TRUE]
             started == Emit(f, "RollbackStarted", candidate, NoInstance)
             answer == CandidateFailed(s.sup, candidate)
             asked == Len(answer.actions) = 2
             ap == Applied(started, answer)
             rc == Recall(ap, asked, bad)
             kl == ThenForce(rc, "candidate")
  <2>1. t = MaybeFinishRollback(kl)
    BY <1>3 DEF BeginRollback
  <2>2. /\ s.sup \in Sups /\ Agree(s.sup) /\ candidate \in Ids /\ NoInstance \in Ids
        /\ "RollbackStarted" \in EventKinds
    BY <1>0, MasterFields DEF Matched, Sups, Holders, Ids, EventKinds
  <2>3. /\ Accepts(answer, answer.sup) /\ SameIds(s.sup, answer.sup)
        /\ answer.sup.candidate.lifecycle = "Stopping"
        /\ asked => answer.sup.active.lifecycle # "Active"
        /\ answer.sup.active.lifecycle = "Active" => s.sup.active.lifecycle = "Active"
    BY <1>3, <2>2, CandidateFailedAgrees
  <2>4. Keeps(s, f) /\ f \in Masters
    BY <1>0, FailureKeeps DEF Keeps
  <2> HIDE DEF f
  <2>5. Keeps(f, started) /\ started \in Masters
    BY <2>2, <2>4, EmitKeeps DEF Keeps
  <2> HIDE DEF started, candidate, answer, asked
  <2>6. Keeps(s, started)
    BY <1>0, <2>4, <2>5, KeepsTwice
  <2>7. Good(started, O) /\ started.sup = s.sup /\ started.stage = "Operational"
        /\ ~started.deferred /\ \A b \in Roles : started.slot[b].id = s.slot[b].id
    BY <1>3, <2>6, KeepGood DEF Keeps
  <2>8. /\ Steers(started, ap) /\ ap.sup = answer.sup /\ ap.err = FALSE
    BY <2>3, <2>5, AcceptedSteers
  <2> HIDE DEF ap
  <2>9. /\ Net(ap, O) /\ Single(ap) /\ ap \in Masters
    BY <2>3, <2>7, <2>8, SteerNet, SteerSingle DEF Good, Steers
  <2>10. Control(ap)
    BY <2>3, <2>5, <2>7, <2>8, SteerControl DEF Good, Accepts
  <2>11. /\ ap.stage = "Operational" /\ ~ap.deferred
         /\ \A b \in Roles : ap.slot[b].id = s.slot[b].id
         /\ StayGone(s, ap)
    BY <2>6, <2>7, <2>8, KeepsStayGone DEF Steers, StayGone
  <2>12. \A b \in Roles : ap.slot[b].id = ap.sup[b].instance_id
    BY <2>10, <2>11 DEF Control, Matched
  <2>13. ap.slot["candidate"].id \in InstanceIds /\ ap.slot["active"].id \in InstanceIds
         /\ ap.slot["retired"].id = NoInstance
    <3>1. Occupied(ap.sup.candidate) /\ Occupied(ap.sup.active) /\ ~Occupied(ap.sup.retired)
      BY <1>3, <2>3, <2>8, <2>10, <2>11 DEF SameIds, Occupied, Roles, Accepts, Agree
    <3> QED
      BY <2>9, <2>12, <3>1, RoleIds DEF Occupied, Ids, Roles
  <2>14. /\ Net(kl, O) /\ Control(kl) /\ Single(kl) /\ ~kl.deferred /\ StayGone(s, kl)
         /\ kl.slot["candidate"].id = s.slot["candidate"].id
         /\ kl.stage \in {"Operational", "Failing", "Failed"}
         /\ kl.stage # "Operational" \/ kl.sup.candidate.lifecycle = "Stopping"
    <3>1. CASE ~asked
      <4>1. rc = ap
        BY <3>1 DEF Recall
      <4>2. Keeps(ap, kl)
        BY <2>9, <4>1, ThenForceKeeps DEF Roles
      <4> HIDE DEF kl
      <4>3. Good(kl, O)
        BY <2>9, <2>10, <4>2, KeepGood DEF Good
      <4>4. StayGone(s, kl)
        BY <2>11, <4>2, KeepsStayGone DEF StayGone
      <4> QED
        BY <2>3, <2>8, <2>11, <4>2, <4>3, <4>4 DEF Good, Keeps, Roles
    <3>2. CASE asked /\ ~CanIssue(ap, "active", bad)
      <4> DEFINE n == NotIssued(ap)
      <4>1. rc = FailMaster(n)
        BY <2>8, <3>2 DEF Recall
      <4>2. Keeps(ap, n)
        BY <2>9, NotIssuedKeeps
      <4> HIDE DEF n
      <4>3. Good(n, O)
        BY <2>9, <2>10, <4>2, KeepGood DEF Good
      <4>4. /\ Good(rc, O) /\ rc.stage \in {"Failing", "Failed"} /\ ~rc.deferred
            /\ rc.slot["candidate"].id = n.slot["candidate"].id /\ StayGone(n, rc)
        <5>1. n.stage # "Failed"
          BY <2>11, <4>2 DEF Keeps
        <5>2. /\ Good(FailMaster(n), O) /\ FailMaster(n).stage \in {"Failing", "Failed"}
              /\ ~FailMaster(n).deferred
              /\ FailMaster(n).slot["candidate"].id = n.slot["candidate"].id
              /\ \A i \in InstanceIds : Suffers(n.proc[i], FailMaster(n).proc[i])
          BY <4>3, <5>1, FailMasterGood DEF Good, Control, Roles
        <5> QED
          BY <4>1, <5>2 DEF StayGone, Suffers
      <4> HIDE DEF rc
      <4>5. Keeps(rc, kl)
        BY <4>4, ThenForceKeeps DEF Good, Net, Roles
      <4> HIDE DEF kl
      <4>6. Good(kl, O)
        BY <4>4, <4>5, KeepGood
      <4>7. StayGone(s, kl)
        BY <2>11, <4>2, <4>4, <4>5, KeepsStayGone DEF StayGone
      <4>8. kl.slot["candidate"].id = s.slot["candidate"].id
        BY <2>11, <4>2, <4>4, <4>5 DEF Keeps, Roles
      <4>9. kl.stage \in {"Failing", "Failed"} /\ ~kl.deferred
        BY <4>4, <4>5 DEF Keeps
      <4> QED
        BY <4>6, <4>7, <4>8, <4>9 DEF Good
    <3>3. CASE asked /\ CanIssue(ap, "active", bad)
      <4> DEFINE request == [req |-> ap.nextReq, phase |-> "Reactivate"]
      <4>1. rc = Issued(ap, "active", "Reactivate")
        BY <2>8, <3>3 DEF Recall
      <4>2. Present(ap, "active")
        BY <2>9, <2>13, RoleIds DEF Roles
      <4>3. Sent(ap, rc, "active", request)
        BY <2>9, <4>1, <4>2, IssuedSent DEF Roles, ControlPhases
      <4> HIDE DEF request, rc
      <4>4. Net(rc, O)
        BY <2>9, <4>3, SentNet DEF Roles
      <4>5. Control(rc)
        BY <2>3, <2>8, <2>9, <2>10, <3>3, <4>3, SentControl DEF Roles, Net
      <4>6. /\ rc \in Masters /\ rc.err = FALSE /\ rc.stage = "Operational" /\ ~rc.deferred
            /\ rc.sup = ap.sup
            /\ \A b \in Roles : rc.slot[b].id = ap.slot[b].id
            /\ StayGone(ap, rc)
        BY <2>8, <2>11, <4>3 DEF Sent, StayGone
      <4>7. Present(rc, "candidate")
        BY <2>13, <4>6, RoleIds DEF Roles
      <4>8. kl = ForceRole(rc, "candidate")
        BY <4>6 DEF ThenForce, Try
      <4>9. Keeps(rc, kl) /\ Dead(kl.proc[kl.slot["candidate"].id])
        BY <4>4, <4>6, <4>7, <4>8, ForceKeeps DEF Roles, Net
      <4> HIDE DEF kl
      <4>10. Net(kl, O) /\ Control(kl)
        BY <4>4, <4>5, <4>6, <4>9, KeepNet, KeepControl
      <4>11. \A b \in Roles : kl.slot[b].id = ap.slot[b].id
        BY <4>6, <4>9 DEF Keeps
      <4>12. Single(kl)
        <5>1. kl.slot["retired"].id = NoInstance
          BY <2>13, <4>11 DEF Roles
        <5>2. kl.sup.candidate.lifecycle = "Stopping"
          BY <2>3, <2>8, <4>6, <4>9 DEF Keeps
        <5> QED
          BY <4>9, <4>10, <5>1, <5>2, PairSingle DEF Net
      <4>13. StayGone(s, kl)
        BY <2>11, <4>6, <4>9, KeepsStayGone DEF StayGone
      <4>14. kl.sup = ap.sup /\ ~kl.deferred /\ kl.stage = "Operational"
        BY <4>6, <4>9 DEF Keeps
      <4> QED
        BY <2>3, <2>8, <2>11, <4>10, <4>11, <4>12, <4>13, <4>14 DEF Roles
    <3> QED
      BY <3>1, <3>2, <3>3
  <2> HIDE DEF kl
  <2>15. Keeps(kl, t)
    BY <2>1, <2>14, FinishKeeps DEF Net
  <2> HIDE DEF t
  <2>16. Good(t, O)
    BY <2>14, <2>15, KeepGood DEF Good
  <2>17. StayGone(s, t) /\ ~t.deferred /\ t.slot["candidate"].id = s.slot["candidate"].id
         /\ t.stage \in {"Operational", "Failing", "Failed"}
         /\ (t.stage # "Operational" \/ t.sup.candidate.lifecycle = "Stopping")
    BY <2>14, <2>15, KeepsStayGone DEF StayGone, Keeps, Roles
  <2> QED
    BY <2>16, <2>17 DEF t
<1> QED
  BY <1>1, <1>2, <1>3

---------------------------------------------------------------------------
(* Forgetting a worker that does not run any more *)

Takes(s, t, role) ==
    /\ t \in Masters /\ t.stage = s.stage /\ t.sup = s.sup /\ t.deferred = s.deferred
    /\ t.nextReq = s.nextReq /\ t.proc = s.proc /\ t.err = s.err /\ t.failure = s.failure
    /\ t.events = s.events /\ t.sends = s.sends
    /\ t.slot[role].id = NoInstance /\ t.slot[role].pending = NoPending
    /\ \A b \in Roles \ {role} : t.slot[b] = s.slot[b]

LEMMA TakeFacts ==
  ASSUME NEW s \in Masters, NEW role \in Roles
  PROVE  Takes(s, TakeWorker(s, role), role)
<1> DEFINE t == TakeWorker(s, role)
<1>0. s.slot \in [Roles -> SlotRecords]
  BY MasterFields
<1>1. Upd(s, t, {"slot"}) /\ t.slot = [s.slot EXCEPT ![role] = NoSlot]
  BY MasterFields DEF TakeWorker, Upd, IsRecord, Fields
<1> HIDE DEF t
<1>2. /\ t.stage = s.stage /\ t.deferred = s.deferred /\ t.sup = s.sup /\ t.proc = s.proc
      /\ t.nextReq = s.nextReq /\ t.forced = s.forced /\ t.failure = s.failure
      /\ t.events = s.events /\ t.sends = s.sends /\ t.err = s.err /\ IsRecord(t)
  BY <1>1 DEF Upd, Fields
<1>3. t.slot \in [Roles -> SlotRecords]
  BY <1>0, <1>1, NoSlotType
<1>4. t \in Masters
  BY <1>2, <1>3, Rebuilt, MasterFields
<1>5. /\ t.slot[role].id = NoInstance /\ t.slot[role].pending = NoPending
      /\ \A b \in Roles \ {role} : t.slot[b] = s.slot[b]
  BY <1>0, <1>1, NoSlotType
<1> QED
  BY <1>2, <1>4, <1>5 DEF Takes, t

LEMMA TakeNet ==
  ASSUME NEW s, NEW t, NEW O, NEW role \in Roles, Net(s, O), Takes(s, t, role),
         s.slot[role].id \in InstanceIds => s.proc[s.slot[role].id].run = "gone"
  PROVE  Net(t, O)
<1>0. s \in Masters /\ s.nextReq \in Nat
  BY MasterFields DEF Net
<1>1. Shrinks(s, t)
  BY <1>0 DEF Takes, Shrinks, From, Suffers
<1>2. Distinct(t)
  BY DEF Takes, Net, Distinct
<1>3. Owned(t)
  BY DEF Takes, Net, Owned, Eager
<1> QED
  BY <1>1, <1>2, <1>3, ShrinkNet

LEMMA TakeSingle ==
  ASSUME NEW s, NEW t, NEW role \in Roles, Single(s), Takes(s, t, role),
         s.slot[role].id \in InstanceIds => s.proc[s.slot[role].id].run = "gone"
  PROVE  Single(t)
<1>1. ASSUME NEW i \in InstanceIds, NEW j \in InstanceIds, Overlaps(s, i, j), Eager(t.proc[i]),
             Eager(t.proc[j])
      PROVE  Overlaps(t, i, j)
  BY <1>1 DEF Takes, Overlaps, Eager, Roles
<1> QED
  BY <1>1 DEF Takes, Single

\* A supervisor that moved together with the slots.
LEMMA MovedControl ==
  ASSUME NEW s, NEW t, Control(s), s.stage = "Operational", t.stage = "Operational",
         ~t.deferred, t.proc = s.proc, t.slot["active"].id = s.slot["active"].id,
         t.sup.active = s.sup.active, Agree(t.sup),
         \A role \in Roles : t.slot[role].id = t.sup[role].instance_id
  PROVE  Control(t)
<1>1. Matched(t)
  BY DEF Matched
<1>2. BootAlone(t) /\ Reaps(t)
  BY DEF BootAlone, Reaps
<1>3. Serving(t)
  BY DEF Control, Serving
<1> QED
  BY <1>1, <1>2, <1>3 DEF Control

\* Outside the stages in which it steers, the master need only not wait for a deferred exit.
LEMMA IdleControl ==
  ASSUME NEW t, t.stage \in {"Failing", "Failed", "ShuttingDown", "Stopped"}, ~t.deferred
  PROVE  Control(t)
  BY DEF Control, Matched, BootAlone, Reaps, Serving

LEMMA CandidateGoneGood ==
  ASSUME NEW s, NEW O, NEW i \in InstanceIds, Good(s, O), s.slot["candidate"].id = i,
         s.proc[i].run = "gone", ~s.deferred, s.stage \in {"Operational", "Failing", "Failed"},
         s.err \/ s.stage # "Operational" \/ s.sup.candidate.lifecycle = "Stopping"
  PROVE  Good(CandidateGone(s, i), O)
<1> DEFINE k == TakeWorker(s, "candidate")
           answer == CandidateStopped(s.sup, i)
           a == Applied(k, answer)
           t == MaybeFinishRollback(a)
<1>0. s \in Masters /\ Net(s, O) /\ Single(s) /\ Control(s)
  BY DEF Good, Net
<1>1. CASE s.err
  BY <1>1 DEF CandidateGone, Try
<1>2. CASE ~s.err
  <2>1. CandidateGone(s, i) = t
    BY <1>2 DEF CandidateGone, Try
  <2>2. Takes(s, k, "candidate") /\ "candidate" \in Roles
    BY <1>0, TakeFacts DEF Roles
  <2> HIDE DEF k
  <2>3. Net(k, O) /\ Single(k) /\ k \in Masters
    BY <1>0, <2>2, TakeNet, TakeSingle DEF Net
  <2>4. s.sup \in Sups
    BY <1>0, MasterFields
  <2>5. /\ a \in Masters /\ Net(a, O) /\ Single(a) /\ Control(a)
    <3>1. CASE s.stage = "Operational"
      <4>1. s.sup.candidate.instance_id = i /\ Agree(s.sup) /\ Occupied(s.sup.candidate)
        BY <1>0, <3>1, NoInstanceAssumption DEF Control, Matched, Occupied, Roles
      <4>2. s.sup.candidate.lifecycle = "Stopping"
        BY <1>2, <3>1
      <4>3. /\ Accepts(answer, answer.sup)
            /\ answer.sup.active = s.sup.active /\ answer.sup.candidate = Vacant
            /\ answer.sup.retired = s.sup.retired
        BY <2>4, <4>1, <4>2, CandidateStoppedAgrees
      <4> HIDE DEF answer
      <4>4. Steers(k, a) /\ a.sup = answer.sup
        BY <2>3, <4>3, AcceptedSteers
      <4> HIDE DEF a
      <4>5. Net(a, O) /\ Single(a) /\ a \in Masters
        <5>1. k.slot["candidate"].id = NoInstance
          BY <2>2 DEF Takes
        <5> QED
          BY <2>3, <4>4, <5>1, SteerNet, SteerSingle DEF Net
      <4>6. /\ a.stage = "Operational" /\ ~a.deferred /\ a.proc = s.proc
            /\ a.slot["candidate"].id = NoInstance
            /\ a.slot["active"] = s.slot["active"] /\ a.slot["retired"] = s.slot["retired"]
        BY <2>2, <3>1, <4>4 DEF Takes, Steers, Roles
      <4>7. \A role \in Roles : a.slot[role].id = a.sup[role].instance_id
        BY <1>0, <3>1, <4>3, <4>4, <4>6, VacantFacts DEF Control, Matched, Roles
      <4>8. Control(a)
        BY <1>0, <3>1, <4>3, <4>4, <4>6, <4>7, MovedControl DEF Accepts
      <4> QED
        BY <4>5, <4>8
    <3>2. CASE s.stage # "Operational"
      <4>1. /\ answer.sup \in Sups /\ \E e \in BOOLEAN : answer.ok = ~e
        <5>1. [s.sup EXCEPT !.candidate = Vacant] \in Sups
          BY <2>4, VacantFacts DEF Sups
        <5>2. (answer.ok = ~FALSE /\ answer.sup = [s.sup EXCEPT !.candidate = Vacant])
               \/ (answer.ok = ~TRUE /\ answer.sup = s.sup)
          BY DEF CandidateStopped, Accept, Reject
        <5> QED
          BY <2>4, <5>1, <5>2
      <4> HIDE DEF answer
      <4>2. Steers(k, a)
        BY <2>3, <4>1, AppliedSteers
      <4> HIDE DEF a
      <4>3. Net(a, O) /\ Single(a) /\ a \in Masters
        <5>1. k.stage # "Operational"
          BY <2>2, <3>2 DEF Takes
        <5> QED
          BY <2>3, <4>2, <5>1, SteerNet, SteerSingle DEF Net
      <4>4. a.stage \in {"Failing", "Failed"} /\ ~a.deferred
        BY <2>2, <3>2, <4>2 DEF Takes, Steers
      <4> QED
        BY <4>3, <4>4, IdleControl
    <3> QED
      BY <3>1, <3>2
  <2> HIDE DEF a
  <2>6. Keeps(a, t)
    BY <2>5, FinishKeeps
  <2> HIDE DEF t
  <2>7. Good(t, O)
    BY <2>5, <2>6, KeepGood DEF Good
  <2> QED
    BY <2>1, <2>7
<1> QED
  BY <1>1, <1>2

LEMMA FailRetiredGood ==
  ASSUME NEW s, NEW O, Good(s, O), s.stage = "Operational"
  PROVE  LET t == FailRetired(s)
         IN  /\ Good(t, O) /\ StayGone(s, t)
             /\ t.stage = "Operational" /\ t.slot["retired"].id = s.slot["retired"].id
             /\ t.err \/ t.sup.retired.lifecycle = "Stopping"
<1> DEFINE t == FailRetired(s)
<1>0. s \in Masters /\ Net(s, O) /\ Single(s) /\ Control(s) /\ Matched(s) /\ Reaps(s)
  BY DEF Good, Net, Control
<1>1. CASE ~Present(s, "retired")
  <2>1. t = Fail(s)
    BY <1>1 DEF FailRetired
  <2>2. Keeps(s, Fail(s)) /\ Fail(s).err = TRUE
    BY <1>0, FailKeeps
  <2>3. Good(Fail(s), O) /\ StayGone(s, Fail(s))
    BY <2>2, KeepGood, KeepsStayGone
  <2>4. Fail(s).stage = "Operational" /\ Fail(s).slot["retired"].id = s.slot["retired"].id
    BY <2>2 DEF Keeps, Roles
  <2> QED
    BY <2>1, <2>2, <2>3, <2>4
<1>2. CASE Present(s, "retired")
  <2> DEFINE f == [s EXCEPT !.failure = TRUE]
             answer == RetiredFailed(s.sup, s.slot["retired"].id)
             a == Applied(f, answer)
  <2>1. t = ThenForce(a, "retired")
    BY <1>2 DEF FailRetired
  <2>2. Keeps(s, f) /\ f \in Masters
    BY <1>0, FailureKeeps DEF Keeps
  <2> HIDE DEF f
  <2>3. /\ Good(f, O) /\ f.stage = "Operational" /\ f.sup = s.sup /\ f.deferred = s.deferred
        /\ f.slot["retired"].id = s.slot["retired"].id
    BY <2>2, KeepGood DEF Keeps, Roles
  <2>4. /\ s.sup \in Sups /\ Agree(s.sup) /\ Occupied(s.sup.retired)
        /\ s.slot["retired"].id = s.sup.retired.instance_id
    BY <1>0, <1>2, MasterFields DEF Matched, Roles, Occupied, Present
  <2>5. /\ Accepts(answer, answer.sup) /\ SameIds(s.sup, answer.sup)
        /\ answer.sup.active = s.sup.active /\ answer.sup.retired.lifecycle = "Stopping"
    BY <2>4, RetiredFailedAgrees
  <2> HIDE DEF answer
  <2>6. Steers(f, a) /\ a.sup = answer.sup
    BY <2>2, <2>5, AcceptedSteers
  <2> HIDE DEF a
  <2>7. ~f.deferred
    BY <1>0, <2>3, <2>4, PhaseFacts DEF Reaps
  <2>8. Net(a, O) /\ Single(a) /\ Control(a) /\ a \in Masters
    <3>1. Net(a, O) /\ Single(a) /\ a \in Masters
      <4>1. f.slot["candidate"].id = NoInstance
        BY <1>0, <2>2, <2>4 DEF Matched, Agree, Occupied, Keeps, Roles
      <4> QED
        BY <2>3, <2>6, <4>1, SteerNet, SteerSingle DEF Good, Net
    <3>2. Control(a)
      BY <2>2, <2>3, <2>5, <2>6, <2>7, SteerControl DEF Good, Accepts
    <3> QED
      BY <3>1, <3>2
  <2>9. Keeps(a, t)
    BY <2>1, <2>8, ThenForceKeeps DEF Roles
  <2> HIDE DEF t
  <2>10. Good(t, O)
    BY <2>8, <2>9, KeepGood DEF Good
  <2>11. StayGone(s, t)
    BY <2>2, <2>6, <2>9, KeepsStayGone DEF StayGone, Steers
  <2>12. /\ t.stage = "Operational" /\ t.slot["retired"].id = s.slot["retired"].id
         /\ t.sup.retired.lifecycle = "Stopping"
    BY <2>3, <2>5, <2>6, <2>9 DEF Keeps, Steers, Roles
  <2> QED
    BY <2>10, <2>11, <2>12 DEF t
<1> QED
  BY <1>1, <1>2

LEMMA CompleteKeeps ==
  ASSUME NEW s \in Masters, NEW failed \in BOOLEAN
  PROVE  Keeps(s, Complete(s, failed))
<1> DEFINE f == [s EXCEPT !.failure = FALSE]
<1>0. \A x \in Masters : Keeps(x, CompleteReplacement(x))
  <2> TAKE x \in Masters
  <2>1. x.slot["active"].id \in Ids /\ NoInstance \in Ids /\ "ReplacementCompleted" \in EventKinds
    BY RoleIds DEF Roles, Ids, EventKinds
  <2> QED
    BY <2>1, EmitKeeps DEF CompleteReplacement
<1>1. Keeps(s, f) /\ f \in Masters
  BY FailureKeeps DEF Keeps
<1> HIDE DEF f
<1>2. Keeps(s, CompleteReplacement(f))
  BY <1>0, <1>1, KeepsTwice
<1>3. Complete(s, failed) \in {s, Fail(s), CompleteReplacement(s), CompleteReplacement(f)}
  BY DEF Complete, Try, CompleteFailedRetired, f
<1> QED
  BY <1>0, <1>2, <1>3, FailKeeps, KeepsSelf

LEMMA RetiredGoneGood ==
  ASSUME NEW s, NEW O, NEW i \in InstanceIds, NEW failed \in BOOLEAN, Good(s, O),
         s.slot["retired"].id = i, s.proc[i].run = "gone", s.stage = "Operational",
         s.err \/ s.sup.retired.lifecycle = "Stopping"
  PROVE  Good(RetiredGone(s, i, failed), O)
<1> DEFINE k == TakeWorker(s, "retired")
           answer == RetiredStopped(s.sup, i)
           a == Applied(k, answer)
           t == Complete(a, failed)
<1>0. s \in Masters /\ Net(s, O) /\ Single(s) /\ Control(s) /\ Reaps(s) /\ Matched(s)
  BY DEF Good, Net, Control
<1>1. CASE s.err
  BY <1>1 DEF RetiredGone, Try
<1>2. CASE ~s.err
  <2>1. RetiredGone(s, i, failed) = t
    BY <1>2 DEF RetiredGone, Try
  <2>2. Takes(s, k, "retired") /\ "retired" \in Roles
    BY <1>0, TakeFacts DEF Roles
  <2> HIDE DEF k
  <2>3. Net(k, O) /\ Single(k) /\ k \in Masters
    BY <1>0, <2>2, TakeNet, TakeSingle DEF Net
  <2>4. s.sup \in Sups
    BY <1>0, MasterFields
  <2>5. s.sup.retired.instance_id = i /\ Agree(s.sup) /\ Occupied(s.sup.retired)
    BY <1>0, NoInstanceAssumption DEF Matched, Occupied, Roles
  <2>6. ~s.deferred
    BY <1>0, <2>5, PhaseFacts DEF Reaps
  <2>7. /\ Accepts(answer, answer.sup)
        /\ answer.sup.active = s.sup.active /\ answer.sup.candidate = s.sup.candidate
        /\ answer.sup.retired = Vacant
    BY <1>2, <2>4, <2>5, RetiredStoppedAgrees
  <2> HIDE DEF answer
  <2>8. Steers(k, a) /\ a.sup = answer.sup
    BY <2>3, <2>7, AcceptedSteers
  <2> HIDE DEF a
  <2>9. Net(a, O) /\ Single(a) /\ a \in Masters
    <3>1. k.sup = s.sup
      BY <2>2 DEF Takes
    <3> QED
      BY <2>3, <2>7, <2>8, <3>1, SteerNet, SteerSingle DEF Net
  <2>10. /\ a.stage = "Operational" /\ ~a.deferred /\ a.proc = s.proc
         /\ a.slot["retired"].id = NoInstance
         /\ a.slot["active"] = s.slot["active"] /\ a.slot["candidate"] = s.slot["candidate"]
    BY <2>2, <2>6, <2>8 DEF Takes, Steers, Roles
  <2>11. \A role \in Roles : a.slot[role].id = a.sup[role].instance_id
    BY <1>0, <2>7, <2>8, <2>10, VacantFacts DEF Matched, Roles
  <2>12. Control(a)
    BY <1>0, <2>7, <2>8, <2>10, <2>11, MovedControl DEF Accepts
  <2>13. Keeps(a, t)
    BY <2>9, CompleteKeeps
  <2> HIDE DEF t
  <2>14. Good(t, O)
    BY <2>9, <2>12, <2>13, KeepGood DEF Good
  <2> QED
    BY <2>1, <2>14
<1> QED
  BY <1>1, <1>2

---------------------------------------------------------------------------
(* Phase failures and requests that meet them *)

LEMMA HandlePhaseFailureGood ==
  ASSUME NEW s, NEW O, NEW bad, NEW role \in Roles, Good(s, O)
  PROVE  Good(HandlePhaseFailure(s, role, bad), O)
<1>0. s \in Masters /\ Net(s, O) /\ Single(s) /\ Reaps(s)
  BY DEF Good, Net, Control
<1>1. s.stage = "Operational" => Good(BeginRollback(s, bad), O)
  BY BeginRollbackGood
<1>2. s.stage = "Operational" => Good(FailRetired(s), O)
  BY FailRetiredGood
<1>3. Good(ForceRole(s, role), O)
  BY <1>0, ForceKeeps, KeepGood
<1>4. Good(FailMaster(s), O)
  BY <1>0, FailMasterGood
<1>5. \/ s.stage = "Operational" /\ HandlePhaseFailure(s, role, bad) = BeginRollback(s, bad)
      \/ s.stage = "Operational" /\ HandlePhaseFailure(s, role, bad) = FailRetired(s)
      \/ HandlePhaseFailure(s, role, bad) = ForceRole(s, role)
      \/ HandlePhaseFailure(s, role, bad) = FailMaster(s)
  BY DEF HandlePhaseFailure
<1> QED
  BY <1>1, <1>2, <1>3, <1>4, <1>5

Opening == {"Activate", "Reactivate"}

LEMMA IssueGood ==
  ASSUME NEW s, NEW O, NEW bad, NEW role \in Roles, NEW phase \in ControlPhases, Good(s, O),
         Present(s, role),
         phase \in Opening => \A j \in InstanceIds \ {s.slot[role].id} : ~Eager(s.proc[j]),
         role = "active" /\ s.stage = "Operational" => s.sup.active.lifecycle # "Active"
  PROVE  /\ Good(Issued(s, role, phase), O)
         /\ Issued(s, role, phase) \in Masters /\ Issued(s, role, phase).stage = s.stage
         /\ Good(IssueOrCompensate(s, role, phase, bad), O)
<1> DEFINE request == [req |-> s.nextReq, phase |-> phase]
           t == Issued(s, role, phase)
<1>0. s \in Masters /\ Net(s, O) /\ Single(s) /\ Control(s) /\ Distinct(s)
  BY DEF Good, Net
<1>1. Sent(s, t, role, request) /\ request.phase = phase
  BY <1>0, IssuedSent
<1> HIDE DEF request, t
<1>2. Net(t, O)
  BY <1>0, <1>1, SentNet
<1>3. Single(t)
  BY <1>0, <1>1, SentSingle DEF Opening
<1>4. Control(t)
  BY <1>0, <1>1, SentControl
<1>5. Good(t, O)
  BY <1>2, <1>3, <1>4 DEF Good
<1>6. t \in Masters /\ t.stage = s.stage
  BY <1>1 DEF Sent
<1>7. Good(NotIssued(s), O)
  BY <1>0, NotIssuedKeeps, KeepGood
<1>8. Good(HandlePhaseFailure(NotIssued(s), role, bad), O)
  BY <1>7, HandlePhaseFailureGood
<1> QED
  BY <1>5, <1>6, <1>8 DEF IssueOrCompensate, t

LEMMA NotOpening ==
  \A phase \in {"AdoptListeners", "Quiesce", "Drain", "Shutdown"} :
     phase \in ControlPhases /\ phase \notin Opening
  BY DEF ControlPhases, Opening

\* What an update of one slot does.
LEMMA SlotUpdates ==
  ASSUME NEW s \in Masters, NEW role \in Roles, NEW w \in SlotRecords, NEW t,
         Upd(s, t, {"slot"}), t.slot = [s.slot EXCEPT ![role] = w],
         w.id = s.slot[role].id, w.pending \in {s.slot[role].pending, NoPending},
         w.state = s.slot[role].state \/ w.state # "Forced"
  PROVE  /\ Keeps(s, t) /\ t.err = s.err /\ t.failure = s.failure /\ t.events = s.events
         /\ t.slot[role] = w
<1>1. Keeps(s, t)
  BY SlotKeeps
<1>2. s.slot \in [Roles -> SlotRecords]
  BY MasterFields
<1> QED
  BY <1>1, <1>2 DEF Upd, Fields

LEMMA AnsweredKeeps ==
  ASSUME NEW s \in Masters, NEW role \in Roles
  PROVE  LET t == [s EXCEPT !.slot[role].pending = NoPending]
         IN  Keeps(s, t) /\ t.err = s.err /\ t.proc = s.proc
<1> DEFINE t == [s EXCEPT !.slot[role].pending = NoPending]
           w == [s.slot[role] EXCEPT !.pending = NoPending]
<1>0. s.slot[role] \in SlotRecords
  BY MasterFields
<1>1. w \in SlotRecords /\ w.id = s.slot[role].id /\ w.pending = NoPending
      /\ w.state = s.slot[role].state
  BY <1>0, NoSlotType DEF SlotRecords
<1>2. Upd(s, t, {"slot"}) /\ t.slot = [s.slot EXCEPT ![role] = w]
  BY MasterFields DEF Upd, IsRecord, Fields
<1> HIDE DEF t, w
<1>3. Keeps(s, t) /\ t.err = s.err
  BY <1>1, <1>2, SlotUpdates
<1>4. t.proc = s.proc
  BY <1>2 DEF Upd, Fields
<1> QED
  BY <1>3, <1>4 DEF t

LEMMA TerminatingKeeps ==
  ASSUME NEW s \in Masters, NEW role \in Roles
  PROVE  Keeps(s, [s EXCEPT !.slot[role].state = "Terminating"])
<1> DEFINE t == [s EXCEPT !.slot[role].state = "Terminating"]
           w == [s.slot[role] EXCEPT !.state = "Terminating"]
<1>0. s.slot[role] \in SlotRecords
  BY MasterFields
<1>1. w \in SlotRecords /\ w.id = s.slot[role].id /\ w.pending = s.slot[role].pending
      /\ w.state # "Forced"
  BY <1>0 DEF SlotRecords
<1>2. Upd(s, t, {"slot"}) /\ t.slot = [s.slot EXCEPT ![role] = w]
  BY MasterFields DEF Upd, IsRecord, Fields
<1> HIDE DEF t, w
<1>3. Keeps(s, t)
  BY <1>1, <1>2, SlotUpdates
<1> QED
  BY <1>3 DEF t

LEMMA DeadlineKeeps ==
  ASSUME NEW s \in Masters
  PROVE  Keeps(s, [s EXCEPT !.slot["retired"].state = "Terminating", !.slot["retired"].deadline = TRUE])
<1> DEFINE t == [s EXCEPT !.slot["retired"].state = "Terminating", !.slot["retired"].deadline = TRUE]
           w == [s.slot["retired"] EXCEPT !.state = "Terminating", !.deadline = TRUE]
<1>0. s.slot["retired"] \in SlotRecords /\ "retired" \in Roles
  BY MasterFields DEF Roles
<1>1. w \in SlotRecords /\ w.id = s.slot["retired"].id /\ w.pending = s.slot["retired"].pending
      /\ w.state # "Forced"
  BY <1>0 DEF SlotRecords
<1>2. Upd(s, t, {"slot"}) /\ t.slot = [s.slot EXCEPT !["retired"] = w]
  BY <1>0, MasterFields DEF Upd, IsRecord, Fields
<1> HIDE DEF t, w
<1>3. Keeps(s, t)
  BY <1>0, <1>1, <1>2, SlotUpdates
<1> QED
  BY <1>3 DEF t

LEMMA TerminateRetiredGood ==
  ASSUME NEW s, NEW O, NEW bad, Good(s, O), s.stage = "Operational", Present(s, "retired")
  PROVE  Good(TerminateRetired(s, bad), O)
<1> DEFINE i == Issued(s, "retired", "Shutdown")
           t == [i EXCEPT !.slot["retired"].state = "Terminating", !.slot["retired"].deadline = TRUE]
<1>0. s \in Masters /\ "retired" \in Roles /\ "Shutdown" \in ControlPhases /\ "Shutdown" \notin Opening
  BY NotOpening DEF Good, Net, Roles
<1>1. Good(i, O) /\ i \in Masters
  BY <1>0, IssueGood
<1> HIDE DEF i
<1>2. Good(t, O)
  BY <1>1, DeadlineKeeps, KeepGood
<1>3. Keeps(s, NotIssued(s))
  BY <1>0, NotIssuedKeeps
<1>4. Good(NotIssued(s), O) /\ NotIssued(s).stage = "Operational"
  BY <1>3, KeepGood DEF Keeps
<1>5. Good(FailRetired(NotIssued(s)), O)
  BY <1>4, FailRetiredGood
<1> QED
  BY <1>2, <1>5 DEF TerminateRetired, i

LEMMA ShutDownRetiredGood ==
  ASSUME NEW s, NEW O, NEW bad, Good(s, O), s.stage = "Operational", Occupied(s.sup.retired)
  PROVE  Good(ShutDownRetired(s, bad), O)
<1> DEFINE i == s.slot["retired"].id
           first == RetiredDrained(s.sup, i)
           d == Applied(s, first)
           second == RetiredSnapshotCaptured(d.sup, i)
           c == Applied(d, second)
<1>0. s \in Masters /\ Net(s, O) /\ Single(s) /\ Control(s) /\ Matched(s) /\ Reaps(s)
  BY DEF Good, Net, Control
<1>1. s.sup \in Sups /\ Agree(s.sup) /\ i = s.sup.retired.instance_id
  BY <1>0, MasterFields DEF Matched, Roles
<1>2. ~s.deferred
  BY <1>0, PhaseFacts DEF Reaps
<1>3. /\ first.ok \in BOOLEAN /\ first.sup \in Sups /\ Agree(first.sup)
      /\ SameIds(s.sup, first.sup) /\ first.sup.active = s.sup.active
  BY <1>1, RetiredDrainedAgrees
<1> HIDE DEF first
<1>4. Steers(s, d) /\ d.sup = first.sup
  <2>1. (~first.ok) \in BOOLEAN /\ first.ok = ~(~first.ok)
    BY <1>3
  <2> QED
    BY <1>0, <1>3, <2>1, AppliedSteers
<1> HIDE DEF d
<1>5. Net(d, O) /\ Single(d) /\ d \in Masters
  <2>1. s.slot["candidate"].id = NoInstance
    BY <1>0, <1>1 DEF Matched, Agree, Occupied, Roles
  <2> QED
    BY <1>0, <1>4, <2>1, SteerNet, SteerSingle DEF Net
<1>6. Control(d)
  BY <1>0, <1>2, <1>3, <1>4, SteerControl
<1>7. d.stage = "Operational" /\ ~d.deferred /\ d.slot = s.slot
  BY <1>2, <1>4 DEF Steers
<1>8. Occupied(d.sup.retired) /\ i = d.sup.retired.instance_id
  BY <1>1, <1>3, <1>4 DEF SameIds, Occupied, Roles
<1>9. /\ second.ok \in BOOLEAN /\ second.sup \in Sups /\ Agree(second.sup)
      /\ SameIds(d.sup, second.sup) /\ second.sup.active = d.sup.active
  BY <1>3, <1>4, <1>8, RetiredCapturedAgrees
<1> HIDE DEF second
<1>10. Steers(d, c) /\ c.sup = second.sup
  <2>1. (~second.ok) \in BOOLEAN /\ second.ok = ~(~second.ok)
    BY <1>9
  <2> QED
    BY <1>5, <1>9, <2>1, AppliedSteers
<1> HIDE DEF c
<1>11. Net(c, O) /\ Single(c) /\ c \in Masters
  <2>1. d.slot["candidate"].id = NoInstance
    BY <1>0, <1>1, <1>7 DEF Matched, Agree, Occupied, Roles
  <2> QED
    BY <1>5, <1>10, <2>1, SteerNet, SteerSingle DEF Net
<1>12. Control(c)
  BY <1>5, <1>6, <1>7, <1>9, <1>10, SteerControl
<1>13. c.stage = "Operational" /\ Present(c, "retired")
  BY <1>1, <1>7, <1>10 DEF Steers, Present, Occupied
<1>14. Good(TerminateRetired(c, bad), O)
  BY <1>11, <1>12, <1>13, TerminateRetiredGood DEF Good
<1>15. ShutDownRetired(s, bad) \in {d, TerminateRetired(c, bad)}
  BY DEF ShutDownRetired, Try, d, first, c, second
<1> QED
  BY <1>5, <1>6, <1>14, <1>15 DEF Good

---------------------------------------------------------------------------
(* The candidate takes over *)

LEMMA PromoteFacts ==
  ASSUME NEW s \in Masters
  PROVE  /\ Promote(s) \in Masters
         /\ Promote(s).stage = s.stage /\ Promote(s).sup = s.sup /\ Promote(s).deferred = FALSE
         /\ Promote(s).nextReq = s.nextReq /\ Promote(s).proc = s.proc /\ Promote(s).err = s.err
         /\ Promote(s).slot["active"] = s.slot["candidate"]
         /\ Promote(s).slot["candidate"] = NoSlot
         /\ Promote(s).slot["retired"] = s.slot["active"]
<1> DEFINE old == s.slot["active"]
           new == s.slot["candidate"]
           slots == [active |-> new, candidate |-> NoSlot, retired |-> old]
           m == [s EXCEPT !.slot = slots, !.deferred = FALSE]
           t == Emit(m, "ReplacementCommitted", new.id, old.id)
<1>1. Promote(s) = t
  BY DEF Promote
<1>2. old \in SlotRecords /\ new \in SlotRecords
  BY MasterFields DEF Roles
<1>3. /\ slots \in [Roles -> SlotRecords] /\ slots["active"] = new /\ slots["candidate"] = NoSlot
      /\ slots["retired"] = old
  <2> HIDE DEF old, new
  <2> QED
    BY <1>2, NoSlotType DEF Roles
<1>4. Upd(s, m, {"slot", "deferred"}) /\ m.slot = slots /\ m.deferred = FALSE
  BY MasterFields DEF Upd, IsRecord, Fields
<1>5. old.id \in Ids /\ new.id \in Ids /\ "ReplacementCommitted" \in EventKinds
  BY RoleIds DEF Roles, EventKinds
<1> HIDE DEF old, new, slots, m
<1>6. /\ m.stage = s.stage /\ m.sup = s.sup /\ m.proc = s.proc
      /\ m.nextReq = s.nextReq /\ m.forced = s.forced /\ m.failure = s.failure
      /\ m.events = s.events /\ m.sends = s.sends /\ m.err = s.err /\ IsRecord(m)
  BY <1>4 DEF Upd, Fields
<1>7. m \in Masters
  BY <1>3, <1>4, <1>6, Rebuilt, MasterFields
<1>8. Keeps(m, t) /\ Upd(m, t, {"events"})
  BY <1>5, <1>7, EmitKeeps
<1> HIDE DEF t
<1>9. /\ t \in Masters /\ t.stage = m.stage /\ t.sup = m.sup /\ t.deferred = m.deferred
      /\ t.nextReq = m.nextReq /\ t.proc = m.proc /\ t.slot = m.slot /\ t.err = m.err
  BY <1>8 DEF Keeps, Upd, Fields
<1> QED
  BY <1>1, <1>3, <1>4, <1>6, <1>9 DEF old, new

\* The candidate of an operational master has been promoted.
Promoted(s, a, t) ==
    /\ a.err = FALSE /\ t.err = FALSE
    /\ t \in Masters /\ t.stage = "Operational" /\ t.deferred = FALSE /\ t.proc = s.proc
    /\ t.slot["active"] = s.slot["candidate"] /\ t.slot["candidate"] = NoSlot
    /\ t.slot["retired"] = s.slot["active"]
    /\ s.slot["active"].id \in InstanceIds /\ s.slot["candidate"].id \in InstanceIds
    /\ s.slot["retired"].id = NoInstance
    /\ t.sup.active.lifecycle = "Active" /\ t.sup.candidate = Vacant
    /\ t.sup.retired.lifecycle = "Draining"

LEMMA PromotedGood ==
  ASSUME NEW s, NEW O, NEW f, Good(s, O), s.stage = "Operational",
         PhaseOf(s) = "ActivatingCandidate",
         Answered(s.proc[s.slot["candidate"].id], f), f.ok, f.phase = "Activate"
  PROVE  LET a == Applied(s, CandidateActivated(s.sup, s.slot["candidate"].id))
         IN  Promoted(s, a, Promote(a)) /\ Good(Promote(a), O)
<1> DEFINE answer == CandidateActivated(s.sup, s.slot["candidate"].id)
           a == Applied(s, answer)
           t == Promote(a)
           old == s.slot["active"].id
           new == s.slot["candidate"].id
<1>0. s \in Masters /\ Net(s, O) /\ Single(s) /\ Control(s) /\ Matched(s) /\ Reaps(s)
  BY DEF Good, Net, Control
<1>1. /\ s.sup \in Sups /\ Agree(s.sup) /\ Occupied(s.sup.candidate) /\ Occupied(s.sup.active)
      /\ ~Occupied(s.sup.retired) /\ s.sup.candidate.lifecycle = "Activating"
      /\ new = s.sup.candidate.instance_id /\ old = s.sup.active.instance_id
      /\ s.slot["retired"].id = s.sup.retired.instance_id
  BY <1>0, PhaseFacts, MasterFields DEF Matched, Roles, Agree
<1>2. new \in InstanceIds /\ old \in InstanceIds /\ s.slot["retired"].id = NoInstance
  BY <1>0, <1>1, RoleIds DEF Roles, Occupied, Ids
<1>3. /\ Accepts(answer, answer.sup)
      /\ answer.sup.active.instance_id = new /\ answer.sup.active.lifecycle = "Active"
      /\ answer.sup.candidate = Vacant /\ answer.sup.retired.instance_id = old
      /\ answer.sup.retired.lifecycle = "Draining"
  BY <1>1, CandidateActivatedAgrees
<1> HIDE DEF answer
<1>4. Steers(s, a) /\ a.sup = answer.sup /\ a.err = FALSE
  BY <1>0, <1>3, AcceptedSteers
<1> HIDE DEF a
<1>5. a \in Masters /\ a.slot = s.slot /\ a.proc = s.proc /\ a.stage = "Operational"
      /\ a.nextReq = s.nextReq
  BY <1>4 DEF Steers
<1>6. /\ t \in Masters /\ t.stage = "Operational" /\ t.sup = answer.sup /\ t.deferred = FALSE
      /\ t.nextReq = s.nextReq /\ t.proc = s.proc /\ t.err = FALSE
      /\ t.slot["active"] = s.slot["candidate"] /\ t.slot["candidate"] = NoSlot
      /\ t.slot["retired"] = s.slot["active"]
  BY <1>4, <1>5, PromoteFacts
<1> HIDE DEF t
<1>7. Shrinks(s, t)
  <2>1. \A i \in InstanceIds : Suffers(s.proc[i], t.proc[i])
    BY <1>6 DEF Suffers
  <2>2. From(s, t, "active") /\ From(s, t, "candidate") /\ From(s, t, "retired")
    BY <1>6, NoSlotType DEF From, Roles
  <2>3. s.nextReq \in Nat
    BY <1>0, MasterFields
  <2> QED
    BY <1>6, <2>1, <2>2, <2>3 DEF Shrinks, Roles
<1>8. Distinct(t)
  BY <1>0, <1>6, NoSlotType DEF Net, Distinct, Roles
<1>9. Owned(t)
  <2> SUFFICES ASSUME NEW i \in InstanceIds,
                      t.proc[i].run \in {"live", "leaving"} \/ Eager(t.proc[i])
               PROVE  \E role \in Roles : t.slot[role].id = i
    BY DEF Owned
  <2>1. PICK role \in Roles : s.slot[role].id = i
    BY <1>0, <1>6 DEF Net, Owned
  <2>2. role \in {"active", "candidate"}
    BY <1>2, <2>1, NoInstanceAssumption DEF Roles
  <2> QED
    BY <1>6, <2>1, <2>2 DEF Roles
<1>10. Net(t, O) /\ Single(t)
  <2>1. \A i, j \in InstanceIds : ~Overlaps(s, i, j)
    BY <1>1 DEF Overlaps
  <2> QED
    BY <1>0, <1>7, <1>8, <1>9, <2>1, ShrinkNet, ShrinkSingle
<1>11. Control(t)
  <2>1. Matched(t)
    BY <1>3, <1>6, NoSlotType, VacantFacts DEF Matched, Roles, Accepts
  <2>2. BootAlone(t) /\ Reaps(t)
    BY <1>6 DEF BootAlone, Reaps
  <2>3. Serving(t)
    BY <1>6 DEF Serving, Answered
  <2> QED
    BY <2>1, <2>2, <2>3 DEF Control
<1>12. Good(t, O)
  BY <1>10, <1>11 DEF Good
<1> QED
  BY <1>0, <1>1, <1>2, <1>3, <1>4, <1>6, <1>12 DEF Promoted, t, a, answer, new, old

LEMMA CommitCandidateGood ==
  ASSUME NEW s, NEW O, NEW bad, NEW f, Good(s, O), s.stage = "Operational",
         PhaseOf(s) = "ActivatingCandidate",
         Answered(s.proc[s.slot["candidate"].id], f), f.ok, f.phase = "Activate"
  PROVE  Good(CommitCandidate(s, bad), O)
<1> DEFINE answer == CandidateActivated(s.sup, s.slot["candidate"].id)
           a == Applied(s, answer)
           t == Promote(a)
           old == s.slot["active"].id
<1>0. Reaps(s)
  BY DEF Good, Control
<1>1. Promoted(s, a, t) /\ Good(t, O)
  BY PromotedGood
<1> HIDE DEF t, a
<1>2. old \in InstanceIds
  BY <1>1 DEF Promoted
<1>3. a.err = FALSE
  BY <1>1 DEF Promoted
<1>4. /\ t.stage = "Operational" /\ t.proc = s.proc /\ t.slot["retired"] = s.slot["active"]
  BY <1>1 DEF Promoted
<1>5. CASE s.deferred
  <2> DEFINE r == FailRetired(t)
  <2>1. CommitCandidate(s, bad) = RetiredGone(r, old, TRUE)
    BY <1>3, <1>5 DEF CommitCandidate, a, answer, t
  <2>2. /\ Good(r, O) /\ StayGone(t, r) /\ r.stage = "Operational"
        /\ r.slot["retired"].id = t.slot["retired"].id
        /\ r.err \/ r.sup.retired.lifecycle = "Stopping"
    BY <1>1, <1>4, FailRetiredGood
  <2> HIDE DEF r
  <2>3. t.proc[old].run = "gone"
    BY <1>0, <1>4, <1>5 DEF Reaps
  <2>4. r.proc[old].run = "gone" /\ r.slot["retired"].id = old
    BY <1>2, <1>4, <2>2, <2>3 DEF StayGone
  <2>5. Good(RetiredGone(r, old, TRUE), O)
    BY <1>2, <2>2, <2>4, RetiredGoneGood
  <2> QED
    BY <2>1, <2>5
<1>6. CASE ~s.deferred
  <2>1. CommitCandidate(s, bad) = IssueOrCompensate(t, "retired", "Drain", bad)
    BY <1>3, <1>6 DEF CommitCandidate, a, answer, t
  <2>2. Present(t, "retired")
    BY <1>2, <1>4, NoInstanceAssumption DEF Present
  <2>3. "retired" \in Roles /\ "Drain" \in ControlPhases /\ "Drain" \notin Opening
    BY NotOpening DEF Roles
  <2>4. Good(IssueOrCompensate(t, "retired", "Drain", bad), O)
    BY <1>1, <2>2, <2>3, IssueGood
  <2> QED
    BY <2>1, <2>4
<1> QED
  BY <1>5, <1>6

---------------------------------------------------------------------------
(* Acknowledgements *)

\* The first worker has adopted its listeners.
LEMMA BootActivating ==
  ASSUME NEW s, NEW O, Good(s, O), s.stage = "BootAdopting",
         NEW t, t = [s EXCEPT !.stage = "BootActivating"]
  PROVE  /\ Good(t, O) /\ t \in Masters /\ t.stage = "BootActivating" /\ t.sup = s.sup
         /\ t.slot = s.slot /\ t.proc = s.proc /\ t.err = s.err
<1> DEFINE x == [s EXCEPT !.stage = "BootActivating"]
<1>0. s \in Masters /\ Net(s, O) /\ Single(s) /\ Control(s)
  BY DEF Good, Net
<1>1. Upd(s, x, {"stage"}) /\ x.stage = "BootActivating"
  BY <1>0, MasterFields DEF Upd, IsRecord, Fields
<1> HIDE DEF x
<1>2. /\ x.sup = s.sup /\ x.deferred = s.deferred /\ x.slot = s.slot
      /\ x.proc = s.proc /\ x.nextReq = s.nextReq /\ x.forced = s.forced /\ x.failure = s.failure
      /\ x.events = s.events /\ x.sends = s.sends /\ x.err = s.err /\ IsRecord(x)
  BY <1>1 DEF Upd, Fields
<1>3. x.stage \in Stages
  BY <1>1 DEF Stages
<1>4. x \in Masters
  BY <1>0, <1>2, <1>3, Rebuilt, MasterFields
<1>5. Net(x, O) /\ Single(x)
  <2>1. s.nextReq \in Nat
    BY <1>0, MasterFields
  <2>2. Shrinks(s, x)
    BY <1>2, <1>4, <2>1 DEF Shrinks, From, Suffers
  <2>3. Distinct(x) /\ Owned(x)
    BY <1>0, <1>2 DEF Net, Distinct, Owned
  <2>4. \A i, j \in InstanceIds : Overlaps(s, i, j) => Overlaps(x, i, j)
    BY <1>1, <1>2 DEF Overlaps
  <2> QED
    BY <1>0, <2>2, <2>3, <2>4, ShrinkNet, ShrinkSingle
<1>6. Control(x)
  <2>1. PhaseOf(x) = PhaseOf(s)
    BY <1>2 DEF PhaseOf
  <2> QED
    BY <1>0, <1>1, <1>2, <2>1 DEF Control, Matched, BootAlone, Reaps, Serving
<1> QED
  BY <1>1, <1>2, <1>4, <1>5, <1>6 DEF Good, x

LEMMA BootAdoptedGood ==
  ASSUME NEW s, NEW O, NEW bad, Good(s, O), s.stage = "BootAdopting", Present(s, "active")
  PROVE  Good(IssueOrCompensate([s EXCEPT !.stage = "BootActivating"], "active", "Activate", bad), O)
<1> DEFINE t == [s EXCEPT !.stage = "BootActivating"]
<1>1. /\ Good(t, O) /\ t \in Masters /\ t.stage = "BootActivating" /\ t.slot = s.slot
      /\ t.proc = s.proc
  BY BootActivating
<1> HIDE DEF t
<1>2. ASSUME NEW j \in InstanceIds \ {t.slot["active"].id} PROVE ~Eager(t.proc[j])
  <2>1. s.slot["candidate"].id = NoInstance /\ s.slot["retired"].id = NoInstance
    BY DEF Good, Control, BootAlone
  <2>2. \A role \in Roles : t.slot[role].id # j
    BY <1>1, <1>2, <2>1, NoInstanceAssumption DEF Roles
  <2> QED
    BY <1>1, <2>2 DEF Good, Net, Owned, Eager
<1>3. Present(t, "active") /\ "active" \in Roles /\ "Activate" \in ControlPhases
  BY <1>1 DEF Present, Roles, ControlPhases
<1>4. Good(IssueOrCompensate(t, "active", "Activate", bad), O)
  BY <1>1, <1>2, <1>3, IssueGood
<1> QED
  BY <1>4 DEF t

LEMMA BootActivatedGood ==
  ASSUME NEW s, NEW O, NEW f, Good(s, O), s.stage = "BootActivating", Present(s, "active"),
         Answered(s.proc[s.slot["active"].id], f), f.ok, f.phase = "Activate"
  PROVE  Good([s EXCEPT !.stage = "Operational",
                        !.sup = NewSupervisor(s.slot["active"].id, s.slot["active"].id)], O)
<1> DEFINE i == s.slot["active"].id
           u == NewSupervisor(i, i)
           t == [s EXCEPT !.stage = "Operational", !.sup = u]
<1>0. s \in Masters /\ Net(s, O) /\ Single(s) /\ Control(s)
  BY DEF Good, Net
<1>1. Upd(s, t, {"stage", "sup"}) /\ t.stage = "Operational" /\ t.sup = u
  BY <1>0, MasterFields DEF Upd, IsRecord, Fields
<1>2. i \in InstanceIds /\ i \in Nat
  BY <1>0, RoleIds, IdTypes DEF Roles
<1> HIDE DEF t, i
<1>3. /\ u \in Sups /\ u.active.instance_id = i /\ u.active.lifecycle = "Active"
      /\ u.candidate = Vacant /\ u.retired = Vacant
  BY <1>2, VacantFacts DEF NewSupervisor, Instance, Sups, Holders, Lifecycles, Ids
<1> HIDE DEF u
<1>4. Agree(u)
  BY <1>2, <1>3, VacantFacts, NoInstanceAssumption DEF Agree, Occupied
<1>5. /\ t.deferred = s.deferred /\ t.slot = s.slot
      /\ t.proc = s.proc /\ t.nextReq = s.nextReq /\ t.forced = s.forced /\ t.failure = s.failure
      /\ t.events = s.events /\ t.sends = s.sends /\ t.err = s.err /\ IsRecord(t)
  BY <1>1 DEF Upd, Fields
<1>6. t.stage \in Stages /\ t.sup \in Sups
  BY <1>1, <1>3 DEF Stages
<1>7. t \in Masters
  BY <1>0, <1>5, <1>6, Rebuilt, MasterFields
<1>8. Net(t, O) /\ Single(t)
  <2>1. s.nextReq \in Nat
    BY <1>0, MasterFields
  <2>2. Shrinks(s, t)
    BY <1>5, <1>7, <2>1 DEF Shrinks, From, Suffers
  <2>3. Distinct(t) /\ Owned(t)
    BY <1>0, <1>5 DEF Net, Distinct, Owned
  <2>4. \A x, y \in InstanceIds : ~Overlaps(s, x, y)
    BY <1>0, NoInstanceAssumption DEF Overlaps, Control, BootAlone
  <2> QED
    BY <1>0, <2>2, <2>3, <2>4, ShrinkNet, ShrinkSingle
<1>9. ~t.deferred
  <2>1. PhaseOf(s) = "None"
    BY <1>0 DEF Control, BootAlone, PhaseOf
  <2> QED
    BY <1>0, <1>5, <2>1 DEF Control, Reaps
<1>10. Matched(t)
  BY <1>0, <1>1, <1>3, <1>4, <1>5, VacantFacts DEF Control, BootAlone, Matched, Roles, i
<1>11. BootAlone(t) /\ Reaps(t)
  BY <1>1, <1>9 DEF BootAlone, Reaps
<1>12. Serving(t)
  BY <1>5 DEF Serving, Answered, i
<1> QED
  BY <1>8, <1>10, <1>11, <1>12 DEF Good, Control, t, u, i

LEMMA PreparedGood ==
  ASSUME NEW s, NEW O, NEW bad, Good(s, O), s.stage = "Operational",
         PhaseOf(s) = "AdoptingCandidate"
  PROVE  Good(ThenIssue(Applied(s, CandidatePrepared(s.sup, s.slot["candidate"].id)),
                        "active", "Quiesce", bad), O)
<1> DEFINE answer == CandidatePrepared(s.sup, s.slot["candidate"].id)
           a == Applied(s, answer)
<1>0. s \in Masters /\ Net(s, O) /\ Single(s) /\ Control(s) /\ Matched(s) /\ Reaps(s)
  BY DEF Good, Net, Control
<1>1. /\ s.sup \in Sups /\ Agree(s.sup) /\ Occupied(s.sup.candidate)
      /\ s.sup.candidate.lifecycle \in {"Spawned", "Handshaking", "Preparing"}
      /\ s.slot["candidate"].id = s.sup.candidate.instance_id
  BY <1>0, PhaseFacts, MasterFields DEF Matched, Roles
<1>2. ~s.deferred
  BY <1>0 DEF Reaps
<1>3. /\ answer.ok \in BOOLEAN /\ answer.sup \in Sups /\ Agree(answer.sup)
      /\ SameIds(s.sup, answer.sup)
      /\ answer.ok => answer.sup.active.lifecycle = "Quiescing"
  BY <1>1, CandidatePreparedAgrees
<1> HIDE DEF answer
<1>4. Steers(s, a) /\ a.sup = answer.sup /\ (answer.ok \/ a.err)
  <2>1. CASE answer.ok = TRUE
    <3>1. answer.ok = ~FALSE
      BY <2>1
    <3> QED
      BY <1>0, <1>3, <2>1, <3>1, AppliedSteers
  <2>2. CASE answer.ok = FALSE
    <3>1. answer.ok = ~TRUE
      BY <2>2
    <3> QED
      BY <1>0, <1>3, <3>1, AppliedSteers
  <2> QED
    BY <1>3, <2>1, <2>2
<1> HIDE DEF a
<1>5. Net(a, O) /\ Single(a) /\ a \in Masters
  BY <1>0, <1>1, <1>4, SteerNet, SteerSingle DEF Net
<1>6. Control(a)
  <2>1. s.sup.active.lifecycle = "Active"
    BY <1>1 DEF Agree
  <2> QED
    BY <1>0, <1>2, <1>3, <1>4, <2>1, SteerControl
<1>7. a.stage = "Operational"
  BY <1>4 DEF Steers
<1>8. Good(a, O)
  BY <1>5, <1>6 DEF Good
<1>9. ASSUME a.err PROVE Good(ThenIssue(a, "active", "Quiesce", bad), O)
  BY <1>8, <1>9 DEF ThenIssue, Try
<1>10. ASSUME ~a.err PROVE Good(ThenIssue(a, "active", "Quiesce", bad), O)
  <2>1. a.sup.active.lifecycle = "Quiescing"
    BY <1>3, <1>4, <1>10
  <2>2. Present(a, "active")
    BY <1>5, <1>6, <1>7, ActivePresent, RoleIds DEF Control, Roles
  <2>3. "active" \in Roles /\ "Quiesce" \in ControlPhases /\ "Quiesce" \notin Opening
    BY NotOpening DEF Roles
  <2>4. Good(IssueOrCompensate(a, "active", "Quiesce", bad), O)
    BY <1>8, <2>1, <2>2, <2>3, IssueGood
  <2> QED
    BY <1>10, <2>4 DEF ThenIssue, Try
<1> QED
  BY <1>9, <1>10 DEF a, answer

LEMMA QuiescedGood ==
  ASSUME NEW s, NEW O, NEW bad, NEW f, Good(s, O), s.stage = "Operational",
         PhaseOf(s) = "Quiescing",
         Answered(s.proc[s.slot["active"].id], f), f.ok, f.phase = "Quiesce"
  PROVE  Good(ThenIssue(Applied(s, ActiveQuiesced(s.sup, s.slot["active"].id)),
                        "candidate", "Activate", bad), O)
<1> DEFINE answer == ActiveQuiesced(s.sup, s.slot["active"].id)
           a == Applied(s, answer)
<1>0. s \in Masters /\ Net(s, O) /\ Single(s) /\ Control(s) /\ Matched(s) /\ Reaps(s)
  BY DEF Good, Net, Control
<1>1. /\ s.sup \in Sups /\ Agree(s.sup) /\ Occupied(s.sup.candidate) /\ ~Occupied(s.sup.retired)
      /\ s.sup.candidate.lifecycle = "Ready"
      /\ s.slot["active"].id = s.sup.active.instance_id
      /\ s.slot["candidate"].id = s.sup.candidate.instance_id
      /\ s.slot["retired"].id = s.sup.retired.instance_id
  BY <1>0, PhaseFacts, MasterFields DEF Matched, Roles
<1>2. ~s.deferred
  BY <1>0 DEF Reaps
<1>3. /\ Accepts(answer, answer.sup) /\ SameIds(s.sup, answer.sup)
      /\ answer.sup.active.lifecycle = "Quiescing" /\ answer.sup.candidate.lifecycle = "Activating"
  BY <1>1, ActiveQuiescedAgrees
<1> HIDE DEF answer
<1>4. Steers(s, a) /\ a.sup = answer.sup
  BY <1>0, <1>3, AcceptedSteers
<1> HIDE DEF a
<1>5. Net(a, O) /\ Single(a) /\ a \in Masters
  BY <1>0, <1>1, <1>4, SteerNet, SteerSingle DEF Net
<1>6. Control(a)
  BY <1>0, <1>2, <1>3, <1>4, SteerControl DEF Accepts
<1>7. a.stage = "Operational" /\ a.slot = s.slot /\ a.proc = s.proc
  BY <1>4 DEF Steers
<1>8. Good(a, O)
  BY <1>5, <1>6 DEF Good
<1>9. Present(a, "candidate") /\ "candidate" \in Roles /\ "Activate" \in ControlPhases
  BY <1>1, <1>7 DEF Present, Occupied, Roles, ControlPhases
<1>10. ASSUME NEW j \in InstanceIds \ {a.slot["candidate"].id} PROVE ~Eager(a.proc[j])
  <2>1. CASE j = s.slot["active"].id
    <3>1. ~Eager(s.proc[s.slot["active"].id])
      BY DEF Answered, Eager
    <3> QED
      BY <1>7, <2>1, <3>1
  <2>2. CASE j # s.slot["active"].id
    <3>1. \A role \in Roles : s.slot[role].id # j
      BY <1>1, <1>7, <1>10, <2>2, NoInstanceAssumption DEF Roles, Occupied
    <3> QED
      BY <1>0, <1>7, <3>1 DEF Net, Owned, Eager
  <2> QED
    BY <2>1, <2>2
<1>11. Good(IssueOrCompensate(a, "candidate", "Activate", bad), O)
  BY <1>8, <1>9, <1>10, IssueGood
<1>12. Good(ThenIssue(a, "candidate", "Activate", bad), O)
  BY <1>8, <1>11 DEF ThenIssue, Try
<1> QED
  BY <1>12 DEF a, answer

LEMMA ReactivatedGood ==
  ASSUME NEW s, NEW O, NEW f, Good(s, O), s.stage = "Operational",
         PhaseOf(s) = "RollingBack",
         Answered(s.proc[s.slot["active"].id], f), f.ok, f.phase = "Reactivate"
  PROVE  Good(MaybeFinishRollback(Applied(s, ActiveReactivated(s.sup, s.slot["active"].id))), O)
<1> DEFINE answer == ActiveReactivated(s.sup, s.slot["active"].id)
           a == Applied(s, answer)
<1>0. s \in Masters /\ Net(s, O) /\ Single(s) /\ Control(s) /\ Matched(s) /\ Reaps(s)
  BY DEF Good, Net, Control
<1>1. /\ s.sup \in Sups /\ Agree(s.sup) /\ ~Occupied(s.sup.retired)
      /\ Occupied(s.sup.candidate) => s.sup.candidate.lifecycle = "Stopping"
      /\ s.slot["active"].id = s.sup.active.instance_id
  BY <1>0, PhaseFacts, MasterFields DEF Matched, Roles
<1>2. ~s.deferred
  BY <1>0 DEF Reaps
<1>3. /\ answer.ok \in BOOLEAN /\ answer.sup \in Sups /\ Agree(answer.sup)
      /\ SameIds(s.sup, answer.sup) /\ answer.sup.candidate = s.sup.candidate
  BY <1>1, ActiveReactivatedAgrees
<1> HIDE DEF answer
<1>4. Steers(s, a) /\ a.sup = answer.sup
  <2>1. (~answer.ok) \in BOOLEAN /\ answer.ok = ~(~answer.ok)
    BY <1>3
  <2> QED
    BY <1>0, <1>3, <2>1, AppliedSteers
<1> HIDE DEF a
<1>5. Net(a, O) /\ Single(a) /\ a \in Masters
  BY <1>0, <1>3, <1>4, SteerNet, SteerSingle DEF Net
<1>6. s.proc[s.slot["active"].id].run = "live" =>
         s.proc[s.slot["active"].id].gate = "open" /\ s.proc[s.slot["active"].id].inbox = << >>
  BY DEF Answered
<1>7. Control(a)
  BY <1>0, <1>2, <1>3, <1>4, <1>6, SteerControl
<1>8. Good(MaybeFinishRollback(a), O)
  BY <1>5, <1>7, FinishKeeps, KeepGood DEF Good
<1> QED
  BY <1>8 DEF a, answer

LEMMA HandlePhaseSuccessGood ==
  ASSUME NEW s, NEW O, NEW bad, NEW f, NEW role \in Roles, Good(s, O), Present(s, role),
         Answered(s.proc[s.slot[role].id], f), f.ok
  PROVE  Good(HandlePhaseSuccess(s, role, f.phase, bad), O)
<1>0. s \in Masters
  BY DEF Good, Net
<1> DEFINE t == HandlePhaseSuccess(s, role, f.phase, bad)
           At(g, r, p) == s.stage = g /\ role = r /\ f.phase = p
           now == PhaseOf(s)
<1>1. CASE At("BootAdopting", "active", "AdoptListeners")
  <2>1. t = IssueOrCompensate([s EXCEPT !.stage = "BootActivating"], "active", "Activate", bad)
    BY <1>1 DEF HandlePhaseSuccess
  <2> QED
    BY <1>1, <2>1, BootAdoptedGood
<1>2. CASE At("BootActivating", "active", "Activate")
  <2>1. t = [s EXCEPT !.stage = "Operational",
                      !.sup = NewSupervisor(s.slot["active"].id, s.slot["active"].id)]
    BY <1>2 DEF HandlePhaseSuccess
  <2> QED
    BY <1>2, <2>1, BootActivatedGood
<1>3. CASE At("Operational", "candidate", "AdoptListeners") /\ now = "AdoptingCandidate"
  <2>1. t = ThenIssue(Applied(s, CandidatePrepared(s.sup, s.slot["candidate"].id)),
                      "active", "Quiesce", bad)
    BY <1>3 DEF HandlePhaseSuccess
  <2> QED
    BY <1>3, <2>1, PreparedGood
<1>4. CASE At("Operational", "active", "Quiesce") /\ now = "Quiescing"
  <2>1. t = ThenIssue(Applied(s, ActiveQuiesced(s.sup, s.slot["active"].id)),
                      "candidate", "Activate", bad)
    BY <1>4 DEF HandlePhaseSuccess
  <2> QED
    BY <1>4, <2>1, QuiescedGood
<1>5. CASE At("Operational", "candidate", "Activate") /\ now = "ActivatingCandidate"
  <2>1. t = CommitCandidate(s, bad)
    BY <1>5 DEF HandlePhaseSuccess
  <2> QED
    BY <1>5, <2>1, CommitCandidateGood
<1>6. CASE At("Operational", "active", "Reactivate") /\ now = "RollingBack"
  <2>1. t = MaybeFinishRollback(Applied(s, ActiveReactivated(s.sup, s.slot["active"].id)))
    BY <1>6 DEF HandlePhaseSuccess
  <2> QED
    BY <1>6, <2>1, ReactivatedGood
<1>7. CASE At("Operational", "retired", "Drain") /\ now = "DrainingRetired"
  <2>1. t = ShutDownRetired(s, bad)
    BY <1>7 DEF HandlePhaseSuccess
  <2>2. Occupied(s.sup.retired)
    BY <1>7, PhaseFacts DEF Good, Control
  <2> QED
    BY <1>7, <2>1, <2>2, ShutDownRetiredGood
<1>8. CASE /\ ~At("BootAdopting", "active", "AdoptListeners")
           /\ ~At("BootActivating", "active", "Activate")
           /\ ~(At("Operational", "candidate", "AdoptListeners") /\ now = "AdoptingCandidate")
           /\ ~(At("Operational", "active", "Quiesce") /\ now = "Quiescing")
           /\ ~(At("Operational", "candidate", "Activate") /\ now = "ActivatingCandidate")
           /\ ~(At("Operational", "active", "Reactivate") /\ now = "RollingBack")
           /\ ~(At("Operational", "retired", "Drain") /\ now = "DrainingRetired")
  <2>1. t \in {s, Fail(s)}
    BY <1>8 DEF HandlePhaseSuccess
  <2>2. Good(Fail(s), O)
    BY <1>0, FailKeeps, KeepGood
  <2> QED
    BY <2>1, <2>2
<1> QED
  BY <1>1, <1>2, <1>3, <1>4, <1>5, <1>6, <1>7, <1>8

---------------------------------------------------------------------------
(* Observations *)

LEMMA HandleAckGood ==
  ASSUME NEW s, NEW O, NEW bad, NEW o \in O, NEW role \in Roles, Good(s, O),
         s.slot[role].id = o.id, o.kind = "Ack"
  PROVE  Good(HandleAck(s, role, o, bad), O)
<1> DEFINE t == [s EXCEPT !.slot[role].pending = NoPending]
<1>0. s \in Masters /\ Seen(s, o) /\ Numbered(s)
  BY DEF Good, Net
<1>1. CASE s.slot[role].pending # [req |-> o.req, phase |-> o.phase]
  BY <1>1 DEF HandleAck
<1>2. CASE s.slot[role].pending = [req |-> o.req, phase |-> o.phase]
  <2>1. o.id \in InstanceIds
    BY <1>0 DEF Seen
  <2>2. Keeps(s, t) /\ t.proc = s.proc
    BY <1>0, AnsweredKeeps
  <2>3. HandleAck(s, role, o, bad) = IF o.ok THEN HandlePhaseSuccess(t, role, o.phase, bad)
                                     ELSE HandlePhaseFailure(t, role, bad)
    BY <1>2 DEF HandleAck
  <2> HIDE DEF t
  <2>4. Good(t, O) /\ t.slot[role].id = o.id
    BY <2>2, KeepGood DEF Keeps
  <2>5. Good(HandlePhaseFailure(t, role, bad), O)
    BY <2>4, HandlePhaseFailureGood
  <2>6. ASSUME o.ok PROVE Good(HandlePhaseSuccess(t, role, o.phase, bad), O)
    <3>1. s.slot[role].pending.req = o.req
      BY <1>2
    <3>2. s.slot[role].pending # NoPending => Answered(t.proc[t.slot[role].id], o)
      BY <1>0, <2>2, <2>4, <3>1 DEF Seen
    <3>3. Present(t, role)
      BY <2>1, <2>4, NoInstanceAssumption DEF Present
    <3>4. CASE s.slot[role].pending # NoPending
      BY <2>4, <2>6, <3>2, <3>3, <3>4, HandlePhaseSuccessGood
    <3>5. CASE s.slot[role].pending = NoPending
      <4>1. o.phase = "None"
        BY <1>2, <3>5 DEF NoPending
      <4>2. HandlePhaseSuccess(t, role, o.phase, bad) = Fail(t)
        BY <4>1 DEF HandlePhaseSuccess
      <4>3. Good(Fail(t), O)
        BY <2>4, FailKeeps, KeepGood DEF Good, Net
      <4> QED
        BY <4>2, <4>3
    <3> QED
      BY <3>4, <3>5
  <2> QED
    BY <2>3, <2>5, <2>6
<1> QED
  BY <1>1, <1>2

LEMMA DeferGood ==
  ASSUME NEW s, NEW O, Good(s, O), PhaseOf(s) = "ActivatingCandidate",
         s.slot["active"].id \in InstanceIds, s.proc[s.slot["active"].id].run = "gone"
  PROVE  Good([s EXCEPT !.deferred = TRUE], O)
<1> DEFINE t == [s EXCEPT !.deferred = TRUE]
<1>0. s \in Masters /\ Net(s, O) /\ Single(s) /\ Control(s)
  BY DEF Good, Net
<1>1. Upd(s, t, {"deferred"}) /\ t.deferred = TRUE
  BY <1>0, MasterFields DEF Upd, IsRecord, Fields
<1> HIDE DEF t
<1>2. /\ t.stage = s.stage /\ t.sup = s.sup /\ t.slot = s.slot
      /\ t.proc = s.proc /\ t.nextReq = s.nextReq /\ t.forced = s.forced /\ t.failure = s.failure
      /\ t.events = s.events /\ t.sends = s.sends /\ t.err = s.err /\ IsRecord(t)
  BY <1>1 DEF Upd, Fields
<1>3. t.deferred \in BOOLEAN
  BY <1>1
<1>4. t \in Masters
  BY <1>0, <1>2, <1>3, Rebuilt, MasterFields
<1>5. Net(t, O) /\ Single(t)
  <2>1. s.nextReq \in Nat
    BY <1>0, MasterFields
  <2>2. Shrinks(s, t)
    BY <1>2, <1>4, <2>1 DEF Shrinks, From, Suffers
  <2>3. Distinct(t) /\ Owned(t)
    BY <1>0, <1>2 DEF Net, Distinct, Owned
  <2>4. \A i, j \in InstanceIds : Overlaps(s, i, j) => Overlaps(t, i, j)
    BY <1>2 DEF Overlaps
  <2> QED
    BY <1>0, <2>2, <2>3, <2>4, ShrinkNet, ShrinkSingle
<1>6. Control(t)
  <2>1. PhaseOf(t) = PhaseOf(s)
    BY <1>2 DEF PhaseOf
  <2> QED
    BY <1>0, <1>2, <2>1 DEF Control, Matched, BootAlone, Reaps, Serving
<1> QED
  BY <1>5, <1>6 DEF Good, t

LEMMA HandleExitGood ==
  ASSUME NEW s, NEW O, NEW bad, NEW role \in Roles, Good(s, O),
         s.slot[role].id \in InstanceIds, s.proc[s.slot[role].id].run = "gone"
  PROVE  Good(HandleExit(s, role, bad), O)
<1> DEFINE i == s.slot[role].id
           now == PhaseOf(s)
           t == HandleExit(s, role, bad)
           k == TakeWorker(s, role)
           At(r, phases) == s.stage = "Operational" /\ role = r /\ now \in phases
           starting == {"AdoptingCandidate", "Quiescing", "ActivatingCandidate"}
<1>0. s \in Masters /\ Net(s, O) /\ Single(s) /\ Control(s) /\ Matched(s) /\ Reaps(s)
  BY DEF Good, Net, Control
<1>1. CASE now = "ActivatingCandidate" /\ role = "active"
  <2>1. t = [s EXCEPT !.deferred = TRUE]
    BY <1>1 DEF HandleExit
  <2> QED
    BY <1>1, <2>1, DeferGood
<1>2. CASE ~(now = "ActivatingCandidate" /\ role = "active")
  <2>1. Takes(s, k, role)
    BY <1>0, TakeFacts
  <2>k. \/ t = k /\ s.stage \in {"Failing", "ShuttingDown"}
        \/ t = FailMaster(k)
        \/ At("candidate", {"RollingBack"}) /\ t = CandidateGone(s, i)
        \/ At("retired", {"StoppingRetired"}) /\ t = RetiredGone(s, i, s.failure)
        \/ At("candidate", starting) /\ t = CandidateGone(BeginRollback(s, bad), i)
        \/ At("retired", {"DrainingRetired"}) /\ t = RetiredGone(FailRetired(s), i, TRUE)
    BY <1>2 DEF HandleExit
  <2> HIDE DEF k, t, starting
  <2>2. Net(k, O) /\ Single(k)
    BY <1>0, <2>1, TakeNet, TakeSingle
  <2>3. Reaps(k)
    <3>1. PhaseOf(k) = PhaseOf(s)
      BY <2>1 DEF Takes, PhaseOf
    <3>2. ASSUME k.deferred PROVE k.slot["active"] = s.slot["active"]
      <4>1. role # "active"
        BY <1>0, <1>2, <2>1, <3>2 DEF Takes, Reaps
      <4> QED
        BY <2>1, <4>1 DEF Takes, Roles
    <3> QED
      BY <1>0, <2>1, <3>1, <3>2 DEF Takes, Reaps
  <2>4. ASSUME t = k /\ s.stage \in {"Failing", "ShuttingDown"}
        PROVE  Good(t, O)
    <3>1. k.stage \in {"Failing", "ShuttingDown"}
      BY <2>1, <2>4 DEF Takes
    <3>2. Control(k)
      BY <2>3, <3>1 DEF Control, Matched, BootAlone, Serving
    <3> QED
      BY <2>2, <2>4, <3>2 DEF Good
  <2>5. ASSUME t = FailMaster(k)
        PROVE  Good(t, O)
    BY <2>2, <2>3, <2>5, FailMasterGood
  <2>6. ASSUME At("candidate", {"RollingBack"}) /\ t = CandidateGone(s, i)
        PROVE  Good(t, O)
    <3>1. ~s.deferred
      BY <1>0, <2>6 DEF Reaps
    <3>2. Occupied(s.sup.candidate)
      BY <1>0, <2>6, NoInstanceAssumption DEF Matched, Occupied, Roles
    <3>3. s.sup.candidate.lifecycle = "Stopping"
      BY <1>0, <2>6, <3>2, PhaseFacts
    <3> QED
      BY <2>6, <3>1, <3>3, CandidateGoneGood
  <2>7. ASSUME At("retired", {"StoppingRetired"}) /\ t = RetiredGone(s, i, s.failure)
        PROVE  Good(t, O)
    <3>1. s.failure \in BOOLEAN
      BY <1>0, MasterFields
    <3>2. s.sup.retired.lifecycle = "Stopping"
      BY <1>0, <2>7, PhaseFacts
    <3> QED
      BY <2>7, <3>1, <3>2, RetiredGoneGood
  <2>8. ASSUME At("candidate", starting) /\ t = CandidateGone(BeginRollback(s, bad), i)
        PROVE  Good(t, O)
    <3> DEFINE b == BeginRollback(s, bad)
    <3>1. /\ Good(b, O) /\ StayGone(s, b) /\ ~b.deferred
          /\ b.slot["candidate"].id = s.slot["candidate"].id
          /\ b.stage \in {"Operational", "Failing", "Failed"}
          /\ b.err \/ b.stage # "Operational" \/ b.sup.candidate.lifecycle = "Stopping"
      BY <2>8, BeginRollbackGood
    <3> HIDE DEF b
    <3>2. b.proc[i].run = "gone" /\ b.slot["candidate"].id = i
      BY <2>8, <3>1 DEF StayGone
    <3>3. Good(CandidateGone(b, i), O)
      BY <3>1, <3>2, CandidateGoneGood
    <3> QED
      BY <2>8, <3>3 DEF b
  <2>9. ASSUME At("retired", {"DrainingRetired"}) /\ t = RetiredGone(FailRetired(s), i, TRUE)
        PROVE  Good(t, O)
    <3> DEFINE b == FailRetired(s)
    <3>1. /\ Good(b, O) /\ StayGone(s, b) /\ b.stage = "Operational"
          /\ b.slot["retired"].id = s.slot["retired"].id
          /\ b.err \/ b.sup.retired.lifecycle = "Stopping"
      BY <2>9, FailRetiredGood
    <3> HIDE DEF b
    <3>2. b.proc[i].run = "gone" /\ b.slot["retired"].id = i
      BY <2>9, <3>1 DEF StayGone
    <3>3. Good(RetiredGone(b, i, TRUE), O)
      BY <3>1, <3>2, RetiredGoneGood
    <3> QED
      BY <2>9, <3>3 DEF b
  <2>10. Good(t, O)
    BY <2>k, <2>4, <2>5, <2>6, <2>7, <2>8, <2>9
  <2> QED
    BY <2>10 DEF t
<1> QED
  BY <1>1, <1>2

LEMMA HandleGood ==
  ASSUME NEW s, NEW O, NEW bad, NEW o \in O, Good(s, O)
  PROVE  Good(Handle(s, o, bad), O)
<1> DEFINE role == RoleFor(s, o.id)
<1>0. Seen(s, o) /\ o.kind \in Kinds
  BY DEF Good, Net, Seen, Observations
<1>1. CASE o.kind = "Nothing" \/ role = "None" \/ s.err
  BY <1>1 DEF Handle
<1>2. CASE ~(o.kind = "Nothing" \/ role = "None" \/ s.err)
  <2>1. role \in Roles /\ s.slot[role].id = o.id
    BY <1>2 DEF RoleFor, Roles
  <2>2. o.id \in InstanceIds
    BY <1>0, <1>2 DEF Seen
  <2>3. \/ o.kind = "Ack" /\ Handle(s, o, bad) = HandleAck(s, role, o, bad)
        \/ o.kind = "Exit" /\ Handle(s, o, bad) = HandleExit(s, role, bad)
        \/ o.kind = "Disconnected" /\ Handle(s, o, bad) = HandleDisconnect(s, role, bad)
        \/ o.kind = "Bad" /\ Handle(s, o, bad) = HandlePhaseFailure(s, role, bad)
    BY <1>0, <1>2 DEF Handle, Kinds
  <2> HIDE DEF role
  <2>4. CASE o.kind = "Ack" /\ Handle(s, o, bad) = HandleAck(s, role, o, bad)
    BY <2>1, <2>4, HandleAckGood
  <2>5. CASE o.kind = "Exit" /\ Handle(s, o, bad) = HandleExit(s, role, bad)
    <3>1. s.proc[s.slot[role].id].run = "gone"
      BY <1>0, <2>1, <2>5 DEF Seen
    <3> QED
      BY <2>1, <2>2, <2>5, <3>1, HandleExitGood
  <2>6. Good(HandlePhaseFailure(s, role, bad), O)
    BY <2>1, HandlePhaseFailureGood
  <2>7. CASE o.kind = "Disconnected" /\ Handle(s, o, bad) = HandleDisconnect(s, role, bad)
    BY <2>6, <2>7 DEF HandleDisconnect
  <2> QED
    BY <2>3, <2>4, <2>5, <2>6, <2>7
<1> QED
  BY <1>1, <1>2

---------------------------------------------------------------------------
(* A poll *)

LEMMA SteersKeeps ==
  ASSUME NEW s \in Masters, NEW t, Steers(s, t), t.sup = s.sup
  PROVE  Keeps(s, t)
<1>1. s.nextReq \in Nat
  BY MasterFields
<1> QED
  BY <1>1 DEF Steers, Keeps, Suffers, StateKept

LEMMA HandleTimeoutGood ==
  ASSUME NEW s, NEW O, NEW bad, NEW due, Good(s, O)
  PROVE  Good(HandleTimeout(s, due, bad), O)
<1> DEFINE expired == {role \in Roles : s.slot[role].pending # NoPending}
           first == IF "active" \in expired THEN "active"
                    ELSE IF "candidate" \in expired THEN "candidate" ELSE "retired"
           g == [s EXCEPT !.forced = TRUE]
           i == s.slot["retired"].id
           x == [s EXCEPT !.failure = TRUE, !.slot["retired"].deadline = FALSE]
           answer == TerminationTimedOut(s.sup, i)
           a == Applied(x, answer)
           c == [s EXCEPT !.slot[first].pending = NoPending]
<1>0. s \in Masters
  BY DEF Good, Net
<1>1. Good(ForceAll(g), O)
  <2>1. Keeps(s, g) /\ g \in Masters
    BY <1>0, ForcedKeeps DEF Keeps
  <2> HIDE DEF g
  <2>2. Good(g, O)
    BY <2>1, KeepGood
  <2> QED
    BY <2>1, <2>2, ForceAllKeeps, KeepGood
<1>2. Good(ThenForce(a, "retired"), O)
  <2> DEFINE w == [s.slot["retired"] EXCEPT !.deadline = FALSE]
             f == [s EXCEPT !.failure = TRUE]
  <2>1. Keeps(s, f) /\ f \in Masters /\ Upd(s, f, {"failure"})
    BY <1>0, FailureKeeps DEF Keeps
  <2>2. Upd(f, x, {"slot"}) /\ x.slot = [f.slot EXCEPT !["retired"] = w]
    BY <1>0, MasterFields DEF Upd, IsRecord, Fields
  <2> HIDE DEF f, x
  <2>3. f.slot = s.slot /\ s.slot["retired"] \in SlotRecords /\ "retired" \in Roles
    BY <1>0, <2>1, MasterFields DEF Upd, Fields, Roles
  <2>4. w \in SlotRecords /\ w.id = s.slot["retired"].id /\ w.pending = s.slot["retired"].pending
        /\ w.state = s.slot["retired"].state
    BY <2>3 DEF SlotRecords
  <2> HIDE DEF w
  <2>5. Keeps(f, x) /\ x \in Masters
    BY <2>1, <2>2, <2>3, <2>4, SlotUpdates DEF Keeps
  <2>6. Good(x, O) /\ x.sup = s.sup
    BY <2>1, <2>5, KeepGood DEF Keeps
  <2>7. s.sup \in Sups
    BY <1>0, MasterFields
  <2>8. answer.sup = s.sup /\ \E e \in BOOLEAN : answer.ok = ~e
    <3>1. answer.sup = s.sup /\ (answer.ok = ~TRUE \/ answer.ok = ~FALSE)
      BY DEF TerminationTimedOut, Accept, Reject
    <3> QED
      BY <3>1
  <2> HIDE DEF answer
  <2>9. Steers(x, a) /\ a.sup = x.sup
    BY <2>5, <2>6, <2>7, <2>8, AppliedSteers
  <2> HIDE DEF a
  <2>10. Keeps(x, a) /\ a \in Masters
    BY <2>5, <2>9, SteersKeeps DEF Steers
  <2>11. Good(a, O)
    BY <2>6, <2>10, KeepGood
  <2> QED
    BY <2>10, <2>11, ThenForceKeeps, KeepGood DEF Roles
<1>3. Good(HandlePhaseFailure(c, first, bad), O)
  <2>1. first \in Roles
    BY DEF Roles
  <2> HIDE DEF first
  <2>2. Keeps(s, c)
    BY <1>0, <2>1, AnsweredKeeps
  <2>3. Good(c, O)
    BY <2>2, KeepGood
  <2> HIDE DEF c
  <2> QED
    BY <2>1, <2>3, HandlePhaseFailureGood
<1>4. HandleTimeout(s, due, bad) \in {s, ForceAll(g), ThenForce(a, "retired"),
                                      HandlePhaseFailure(c, first, bad)}
  BY DEF HandleTimeout
<1> QED
  BY <1>1, <1>2, <1>3, <1>4

LEMMA FailAgainGood ==
  ASSUME NEW s, NEW O, Good(s, O)
  PROVE  Good(FailAgain(s), O)
  BY FailMasterGood DEF FailAgain, Good, Control

LEMMA TailFacts ==
  ASSUME NEW S, NEW q \in Seq(S), q # << >>
  PROVE  /\ Tail(q) \in Seq(S) /\ Head(q) = q[1] /\ 1 \in DOMAIN q
         /\ \A k \in DOMAIN Tail(q) : k + 1 \in DOMAIN q /\ Tail(q)[k] = q[k + 1]
         /\ \A j, k \in DOMAIN Tail(q) : j < k => j + 1 < k + 1
  OBVIOUS

\* The master reads a frame.
LEMMA PopGood ==
  ASSUME NEW s, NEW O, NEW i \in InstanceIds, Good(s, O), s.proc[i].outbox # << >>
  PROVE  LET t == [s EXCEPT !.proc[i].outbox = Tail(@)]
         IN  /\ Good(t, O) /\ t.slot = s.slot
             /\ \A j \in InstanceIds \ {i} : t.proc[j] = s.proc[j]
<1> DEFINE t == [s EXCEPT !.proc[i].outbox = Tail(@)]
           p == s.proc[i]
           q == [p EXCEPT !.outbox = Tail(@)]
<1>0. s \in Masters /\ Net(s, O) /\ Single(s) /\ Control(s)
  BY DEF Good, Net
<1>1. p \in Procs /\ s.proc \in [InstanceIds -> Procs]
  BY <1>0, MasterFields
<1>2. p.outbox \in Seq(Frames)
  BY <1>1 DEF Procs
<1>3. /\ Tail(p.outbox) \in Seq(Frames)
      /\ \A k \in DOMAIN Tail(p.outbox) :
            k + 1 \in DOMAIN p.outbox /\ Tail(p.outbox)[k] = p.outbox[k + 1]
  BY <1>2, TailFacts
<1>4. /\ q \in Procs /\ q.run = p.run /\ q.gate = p.gate /\ q.inbox = p.inbox
      /\ q.outbox = Tail(p.outbox)
  BY <1>1, <1>3 DEF Procs
<1>5. Upd(s, t, {"proc"}) /\ t.proc = [s.proc EXCEPT ![i] = q]
  BY <1>0, <1>1, MasterFields DEF Upd, IsRecord, Fields
<1> HIDE DEF t, q, p
<1>6. /\ t.stage = s.stage /\ t.sup = s.sup /\ t.deferred = s.deferred /\ t.slot = s.slot
      /\ t.nextReq = s.nextReq /\ t.forced = s.forced /\ t.failure = s.failure
      /\ t.events = s.events /\ t.sends = s.sends /\ t.err = s.err /\ IsRecord(t)
  BY <1>5 DEF Upd, Fields
<1>7. t.proc \in [InstanceIds -> Procs] /\ t.proc[i] = q
      /\ \A j \in InstanceIds \ {i} : t.proc[j] = s.proc[j]
  BY <1>1, <1>4, <1>5
<1>8. t \in Masters
  BY <1>0, <1>6, <1>7, Rebuilt, MasterFields
<1>9. \A j \in InstanceIds : /\ t.proc[j].run = s.proc[j].run /\ t.proc[j].gate = s.proc[j].gate
                             /\ t.proc[j].inbox = s.proc[j].inbox
  BY <1>4, <1>7 DEF p
<1>10. ASSUME NEW j \in InstanceIds, NEW k \in DOMAIN t.proc[j].outbox
       PROVE  \E m \in DOMAIN s.proc[j].outbox : t.proc[j].outbox[k] = s.proc[j].outbox[m]
  <2>1. CASE j = i
    <3>1. t.proc[j].outbox = Tail(p.outbox) /\ s.proc[j].outbox = p.outbox
      BY <1>4, <1>7, <2>1 DEF p
    <3>2. k + 1 \in DOMAIN s.proc[j].outbox /\ t.proc[j].outbox[k] = s.proc[j].outbox[k + 1]
      BY <1>3, <1>10, <3>1
    <3> QED
      BY <3>2
  <2>2. CASE j # i
    BY <1>7, <1>10, <2>2
  <2> QED
    BY <2>1, <2>2
<1>11. Distinct(t) /\ Owned(t) /\ Closing(t) /\ Killed(t)
  BY <1>0, <1>6, <1>9 DEF Net, Distinct, Owned, Closing, Killed, Dead, Eager
<1>12. Numbered(t)
  BY <1>0, <1>6, <1>9, <1>10 DEF Net, Numbered, Below
<1>13. \A j \in InstanceIds : \A f : Answered(s.proc[j], f) => Answered(t.proc[j], f)
  BY <1>9 DEF Answered
<1>14. Tracked(t)
  <2> SUFFICES ASSUME NEW b \in Roles, t.slot[b].id \in InstanceIds, t.slot[b].pending # NoPending
               PROVE  Tracks(t.proc[t.slot[b].id], t.slot[b].pending.req)
    BY DEF Tracked
  <2> DEFINE j == t.slot[b].id
             r == t.slot[b].pending.req
  <2>1. Tracks(s.proc[j], r)
    BY <1>0, <1>6 DEF Net, Tracked
  <2> HIDE DEF j, r
  <2>2. j \in InstanceIds
    BY DEF j
  <2>3. \A k \in DOMAIN t.proc[j].inbox : t.proc[j].inbox[k].req <= r
    BY <1>9, <2>1, <2>2 DEF Tracks
  <2>4. ASSUME NEW k \in DOMAIN t.proc[j].outbox, t.proc[j].outbox[k].kind = "Ack",
               t.proc[j].outbox[k].req = r
        PROVE  Answered(t.proc[j], t.proc[j].outbox[k])
    <3>1. PICK m \in DOMAIN s.proc[j].outbox : t.proc[j].outbox[k] = s.proc[j].outbox[m]
      BY <1>10, <2>2
    <3>2. Answered(s.proc[j], s.proc[j].outbox[m])
      BY <2>1, <2>4, <3>1 DEF Tracks
    <3> QED
      BY <1>13, <2>2, <3>1, <3>2
  <2>5. Tracks(t.proc[j], r)
    BY <2>3, <2>4 DEF Tracks
  <2> QED
    BY <2>5 DEF j, r
<1>15. ASSUME NEW o \in O PROVE Seen(t, o)
  <2>1. Seen(s, o)
    BY <1>0 DEF Net
  <2> QED
    BY <2>1, <1>6, <1>9, <1>13 DEF Seen
<1>16. Single(t)
  BY <1>0, <1>6, <1>9 DEF Single, Eager, Overlaps
<1>17. Control(t)
  <2>1. Matched(t) /\ BootAlone(t)
    BY <1>0, <1>6 DEF Control, Matched, BootAlone
  <2>2. PhaseOf(t) = PhaseOf(s)
    BY <1>6 DEF PhaseOf
  <2>3. Reaps(t)
    BY <1>0, <1>6, <1>9, <2>2 DEF Control, Reaps
  <2>4. Serving(t)
    <3> SUFFICES ASSUME t.stage = "Operational", t.sup.active.lifecycle = "Active"
                 PROVE  LET x == t.proc[t.slot["active"].id]
                        IN  x.run = "live" => x.gate = "open" /\ x.inbox = << >>
      BY DEF Serving
    <3>1. s.slot["active"].id \in InstanceIds
      BY <1>0, <1>6, ActivePresent DEF Control
    <3> QED
      BY <1>0, <1>6, <1>9, <3>1 DEF Control, Serving
  <2> QED
    BY <2>1, <2>3, <2>4 DEF Control
<1>18. Launched(t)
  BY <1>0, <1>9, FirstId DEF Net, Launched
<1>19. Good(t, O)
  BY <1>8, <1>11, <1>12, <1>14, <1>15, <1>16, <1>17, <1>18 DEF Good, Net
<1> QED
  BY <1>6, <1>7, <1>19 DEF t

LEMMA ObservedSeen ==
  ASSUME NEW s, NEW O, NEW role \in Roles, Good(s, O)
  PROVE  LET o == Observed(s, role)
         IN  /\ Seen(s, o) /\ o.id = s.slot[role].id
             /\ o.kind \in {"Ack", "Bad"} => s.proc[o.id].outbox # << >>
<1> DEFINE o == Observed(s, role)
           w == s.slot[role]
           p == s.proc[w.id]
           seen(kind) == [kind |-> kind, id |-> w.id, req |-> 0, phase |-> "None", ok |-> FALSE]
           frame == Head(p.outbox)
           read == [kind |-> frame.kind, id |-> w.id, req |-> frame.req, phase |-> frame.phase,
                    ok |-> frame.ok]
<1>0. s \in Masters /\ Numbered(s) /\ Tracked(s)
  BY DEF Good, Net
<1>1. w.id \in Ids /\ (Present(s, role) <=> w.id \in InstanceIds)
  BY <1>0, RoleIds
<1>2. \/ o = seen("Nothing")
      \/ Present(s, role) /\ p.run = "gone" /\ o = seen("Exit")
      \/ Present(s, role) /\ p.outbox # << >> /\ o = read
      \/ Present(s, role) /\ o = seen("Disconnected")
  BY DEF Observed, Present
<1>3. \A kind \in {"Nothing", "Exit", "Disconnected"} :
         seen(kind) \in Observations /\ seen(kind).id = w.id /\ seen(kind).kind = kind
  BY <1>1 DEF Observations, Kinds, Phases
<1>4. ASSUME Present(s, role), p.outbox # << >>
      PROVE  Seen(s, read) /\ read.id = w.id /\ p.outbox # << >>
  <2>0. w.id \in InstanceIds /\ p \in Procs
    BY <1>0, <1>1, <1>4, MasterFields
  <2>1. p.outbox \in Seq(Frames)
    BY <2>0 DEF Procs
  <2> HIDE DEF p, w
  <2>2. frame = p.outbox[1] /\ 1 \in DOMAIN p.outbox
    BY <1>4, <2>1, TailFacts
  <2>3. frame \in Frames
    BY <2>1, <2>2, Elements
  <2> HIDE DEF frame
  <2>4. /\ read \in Observations /\ read.id = w.id /\ read.kind \in {"Ack", "Bad"}
        /\ read.kind = frame.kind /\ read.req = frame.req /\ read.ok = frame.ok
        /\ read.phase = frame.phase
    BY <1>1, <2>3 DEF Observations, Kinds, Frames
  <2> HIDE DEF read
  <2>5. read.req < s.nextReq
    BY <1>0, <2>0, <2>2, <2>4 DEF Numbered, Below, p
  <2>6. ASSUME read.kind = "Ack", NEW b \in Roles, s.slot[b].id = read.id,
               s.slot[b].pending # NoPending, s.slot[b].pending.req = read.req
        PROVE  Answered(s.proc[read.id], read)
    <3>1. Tracks(p, read.req)
      BY <1>0, <2>0, <2>4, <2>6 DEF Tracked, p
    <3>2. Answered(p, frame)
      BY <2>2, <2>4, <2>6, <3>1 DEF Tracks
    <3>3. Answered(p, read)
      BY <2>4, <3>2 DEF Answered
    <3> QED
      BY <2>4, <3>3 DEF p
  <2>7. Seen(s, read)
    BY <2>0, <2>4, <2>5, <2>6 DEF Seen
  <2> QED
    BY <1>4, <2>4, <2>7
<1>5. CASE o = seen("Nothing")
  BY <1>3, <1>5 DEF Seen
<1>6. CASE Present(s, role) /\ p.run = "gone" /\ o = seen("Exit")
  BY <1>1, <1>3, <1>6 DEF Seen
<1>7. CASE Present(s, role) /\ p.outbox # << >> /\ o = read
  BY <1>4, <1>7
<1>8. CASE Present(s, role) /\ o = seen("Disconnected")
  BY <1>1, <1>3, <1>8 DEF Seen
<1> QED
  BY <1>2, <1>5, <1>6, <1>7, <1>8

LEMMA ConsumeGood ==
  ASSUME NEW s, NEW O, NEW role \in Roles, NEW o, Good(s, O), Seen(s, o),
         o.kind \in {"Ack", "Bad"} => s.proc[o.id].outbox # << >>
  PROVE  LET t == Consumed(s, role, o)
         IN  /\ Good(t, O) /\ \A b \in Roles : t.slot[b].id = s.slot[b].id
             /\ \A j \in InstanceIds \ {o.id} : t.proc[j] = s.proc[j]
<1> DEFINE t == Consumed(s, role, o)
           x == [s EXCEPT !.slot[role].reported = TRUE]
           d == [s EXCEPT !.slot[role].open = FALSE]
           f == [s EXCEPT !.proc[o.id].outbox = Tail(@)]
           wx == [s.slot[role] EXCEPT !.reported = TRUE]
           wd == [s.slot[role] EXCEPT !.open = FALSE]
<1>0. s \in Masters /\ s.slot[role] \in SlotRecords
  BY MasterFields DEF Good, Net
<1>1. Good(x, O) /\ (\A b \in Roles : x.slot[b].id = s.slot[b].id) /\ x.proc = s.proc
  <2>1. Upd(s, x, {"slot"}) /\ x.slot = [s.slot EXCEPT ![role] = wx]
    BY <1>0, MasterFields DEF Upd, IsRecord, Fields
  <2>2. wx \in SlotRecords /\ wx.id = s.slot[role].id /\ wx.pending = s.slot[role].pending
        /\ wx.state = s.slot[role].state
    BY <1>0 DEF SlotRecords
  <2> HIDE DEF x, wx
  <2>3. Keeps(s, x)
    BY <1>0, <2>1, <2>2, SlotUpdates
  <2> QED
    BY <2>1, <2>3, KeepGood DEF Keeps, Upd, Fields
<1>2. Good(d, O) /\ (\A b \in Roles : d.slot[b].id = s.slot[b].id) /\ d.proc = s.proc
  <2>1. Upd(s, d, {"slot"}) /\ d.slot = [s.slot EXCEPT ![role] = wd]
    BY <1>0, MasterFields DEF Upd, IsRecord, Fields
  <2>2. wd \in SlotRecords /\ wd.id = s.slot[role].id /\ wd.pending = s.slot[role].pending
        /\ wd.state = s.slot[role].state
    BY <1>0 DEF SlotRecords
  <2> HIDE DEF d, wd
  <2>3. Keeps(s, d)
    BY <1>0, <2>1, <2>2, SlotUpdates
  <2> QED
    BY <2>1, <2>3, KeepGood DEF Keeps, Upd, Fields
<1>3. ASSUME o.kind \in {"Ack", "Bad"}
      PROVE  /\ Good(f, O) /\ f.slot = s.slot
             /\ \A j \in InstanceIds \ {o.id} : f.proc[j] = s.proc[j]
  <2>1. o.id \in InstanceIds /\ s.proc[o.id].outbox # << >>
    BY <1>3 DEF Seen
  <2> QED
    BY <2>1, PopGood
<1>4. \/ t = s \/ t = x \/ t = d \/ (o.kind \in {"Ack", "Bad"} /\ t = f)
  BY DEF Consumed
<1> HIDE DEF t, x, d, f
<1>5. /\ Good(t, O) /\ \A b \in Roles : t.slot[b].id = s.slot[b].id
      /\ \A j \in InstanceIds \ {o.id} : t.proc[j] = s.proc[j]
  BY <1>1, <1>2, <1>3, <1>4
<1> QED
  BY <1>5 DEF t

LEMMA WithObservations ==
  ASSUME NEW s, NEW O, NEW P, Good(s, O), \A o \in P : Seen(s, o)
  PROVE  Good(s, P)
  BY DEF Good, Net

LEMMA CollectGood ==
  ASSUME NEW s, Good(s, {})
  PROVE  \E O : /\ Good(Collect(s).rest, O)
                /\ \A k \in 1..3 : Collect(s).list[k] \in O
<1> DEFINE a == Observed(s, "active")
           c == Observed(s, "candidate")
           r == Observed(s, "retired")
           O == {a, c, r}
           s1 == Consumed(s, "active", a)
           s2 == Consumed(s1, "candidate", c)
           s3 == Consumed(s2, "retired", r)
           activated == /\ PhaseOf(s) = "ActivatingCandidate"
                        /\ c.kind = "Ack" /\ c.phase = "Activate" /\ c.ok
           list == IF activated THEN <<c, a, r>> ELSE <<a, c, r>>
<1>0. s \in Masters /\ Distinct(s)
  BY DEF Good, Net
<1>1. /\ Seen(s, a) /\ a.id = s.slot["active"].id
      /\ a.kind \in {"Ack", "Bad"} => s.proc[a.id].outbox # << >>
  BY ObservedSeen DEF Roles
<1>2. /\ Seen(s, c) /\ c.id = s.slot["candidate"].id
      /\ c.kind \in {"Ack", "Bad"} => s.proc[c.id].outbox # << >>
  BY ObservedSeen DEF Roles
<1>3. /\ Seen(s, r) /\ r.id = s.slot["retired"].id
      /\ r.kind \in {"Ack", "Bad"} => s.proc[r.id].outbox # << >>
  BY ObservedSeen DEF Roles
<1>4. Collect(s).rest = s3 /\ Collect(s).list = list
  BY DEF Collect
<1>5. \A k \in 1..3 : list[k] \in O
  <2> HIDE DEF a, c, r, activated
  <2>1. CASE activated
    BY <2>1
  <2>2. CASE ~activated
    BY <2>2
  <2> QED
    BY <2>1, <2>2
<1> HIDE DEF a, c, r, list
<1>6. Good(s, O)
  BY <1>1, <1>2, <1>3, WithObservations
<1>7. a.id \in Ids /\ c.id \in Ids /\ r.id \in Ids
  BY <1>1, <1>2, <1>3 DEF Seen, Observations
<1>8. /\ c.kind \in {"Ack", "Bad"} => c.id \in InstanceIds \ {a.id}
      /\ r.kind \in {"Ack", "Bad"} => r.id \in InstanceIds \ {a.id, c.id}
  <2>1. /\ c.kind \in {"Ack", "Bad"} => c.id \in InstanceIds
        /\ r.kind \in {"Ack", "Bad"} => r.id \in InstanceIds
    BY <1>2, <1>3 DEF Seen
  <2> QED
    BY <1>0, <1>1, <1>2, <1>3, <2>1, NoInstanceAssumption DEF Distinct, Roles
<1>9. /\ Good(s1, O) /\ \A j \in InstanceIds \ {a.id} : s1.proc[j] = s.proc[j]
  BY <1>1, <1>6, ConsumeGood DEF Roles
<1> HIDE DEF s1
<1>10. /\ Seen(s1, c) /\ Seen(s1, r)
       /\ c.kind \in {"Ack", "Bad"} => s1.proc[c.id].outbox # << >>
       /\ r.kind \in {"Ack", "Bad"} => s1.proc[r.id].outbox # << >>
  BY <1>2, <1>3, <1>8, <1>9 DEF Good, Net
<1>11. /\ Good(s2, O) /\ \A j \in InstanceIds \ {c.id} : s2.proc[j] = s1.proc[j]
  BY <1>9, <1>10, ConsumeGood DEF Roles
<1> HIDE DEF s2
<1>12. /\ Seen(s2, r)
       /\ r.kind \in {"Ack", "Bad"} => s2.proc[r.id].outbox # << >>
  BY <1>8, <1>10, <1>11 DEF Good, Net
<1>13. Good(s3, O)
  BY <1>11, <1>12, ConsumeGood DEF Roles
<1> QED
  BY <1>4, <1>5, <1>13

LEMMA FinishGood ==
  ASSUME NEW s, NEW O, Good(s, O)
  PROVE  Good(FinishTerminalStates(s), O)
<1>0. s \in Masters /\ Net(s, O) /\ Single(s) /\ Control(s)
  BY DEF Good, Net
<1>1. ASSUME NEW g \in {"Stopped", "Failed"}, \A role \in Roles : ~Present(s, role)
      PROVE  Good([s EXCEPT !.stage = g], O)
  <2> DEFINE t == [s EXCEPT !.stage = g]
  <2>1. Upd(s, t, {"stage"}) /\ t.stage = g
    BY <1>0, MasterFields DEF Upd, IsRecord, Fields
  <2> HIDE DEF t
  <2>2. /\ t.sup = s.sup /\ t.deferred = s.deferred /\ t.slot = s.slot
        /\ t.proc = s.proc /\ t.nextReq = s.nextReq /\ t.forced = s.forced /\ t.failure = s.failure
        /\ t.events = s.events /\ t.sends = s.sends /\ t.err = s.err /\ IsRecord(t)
    BY <2>1 DEF Upd, Fields
  <2>3. t.stage \in Stages
    BY <2>1 DEF Stages
  <2>4. t \in Masters
    BY <1>0, <2>2, <2>3, Rebuilt, MasterFields
  <2>5. Net(t, O) /\ Single(t)
    <3>1. s.nextReq \in Nat
      BY <1>0, MasterFields
    <3>2. Shrinks(s, t)
      BY <2>2, <2>4, <3>1 DEF Shrinks, From, Suffers
    <3>3. Distinct(t) /\ Owned(t)
      BY <1>0, <2>2 DEF Net, Distinct, Owned
    <3>4. \A i, j \in InstanceIds : Overlaps(s, i, j) => Overlaps(t, i, j)
      BY <2>1, <2>2 DEF Overlaps
    <3> QED
      BY <1>0, <3>2, <3>3, <3>4, ShrinkNet, ShrinkSingle
  <2>6. ~t.deferred
    <3>1. s.slot["active"].id \notin InstanceIds
      BY <1>0, <1>1, RoleIds DEF Roles
    <3> QED
      BY <1>0, <2>2, <3>1 DEF Control, Reaps
  <2>7. t.stage \in {"Failing", "Failed", "ShuttingDown", "Stopped"}
    BY <2>1
  <2>8. Control(t)
    BY <2>6, <2>7, IdleControl
  <2> QED
    BY <2>5, <2>8 DEF Good, t
<1>2. \/ FinishTerminalStates(s) = s
      \/ /\ \A role \in Roles : ~Present(s, role)
         /\ \/ FinishTerminalStates(s) = [s EXCEPT !.stage = "Stopped"]
            \/ FinishTerminalStates(s) = [s EXCEPT !.stage = "Failed"]
  BY DEF FinishTerminalStates
<1> QED
  BY <1>1, <1>2

LEMMA PollGood ==
  ASSUME NEW s, NEW due, NEW bad, Good(s, {})
  PROVE  Good(Poll(s, due, bad), {})
<1> DEFINE x == FailAgain(HandleTimeout(s, due, bad))
           seen == Collect(x)
           h1 == Handle(seen.rest, seen.list[1], bad)
           h2 == Handle(h1, seen.list[2], bad)
           h3 == Handle(h2, seen.list[3], bad)
<1>1. Good(x, {})
  BY HandleTimeoutGood, FailAgainGood
<1>2. Poll(s, due, bad) \in {x, FinishTerminalStates(h3)}
  BY DEF Poll, ObserveAndHandle, Try, HandleAll
<1> HIDE DEF x
<1>3. PICK O : Good(seen.rest, O) /\ \A k \in 1..3 : seen.list[k] \in O
  BY <1>1, CollectGood
<1>4. seen.list[1] \in O /\ seen.list[2] \in O /\ seen.list[3] \in O
  BY <1>3
<1> HIDE DEF seen
<1>5. Good(h1, O)
  BY <1>3, <1>4, HandleGood
<1> HIDE DEF h1
<1>6. Good(h2, O)
  BY <1>4, <1>5, HandleGood
<1> HIDE DEF h2
<1>7. Good(h3, O)
  BY <1>4, <1>6, HandleGood
<1> HIDE DEF h3
<1>8. Good(FinishTerminalStates(h3), O)
  BY <1>7, FinishGood
<1>9. Good(FinishTerminalStates(h3), {})
  BY <1>8, WithObservations
<1> QED
  BY <1>1, <1>2, <1>9

---------------------------------------------------------------------------
(* Launching a worker *)

\* A worker that has just been spawned takes an empty role.
Bears(s, t, role, i, r) ==
    /\ t \in Masters /\ t.nextReq = s.nextReq /\ t.deferred = s.deferred /\ t.stage = s.stage
    /\ t.slot = [s.slot EXCEPT ![role] = NewSlot(i)]
    /\ t.proc = [s.proc EXCEPT ![i] = Newborn(r)]

LEMMA NewbornFacts ==
  ASSUME NEW r \in Revisions
  PROVE  /\ Newborn(r) \in Procs /\ Newborn(r).run = "live" /\ Newborn(r).gate = "closed"
         /\ Newborn(r).inbox = << >> /\ Newborn(r).outbox = << >> /\ ~Eager(Newborn(r))
<1> DEFINE p == Newborn(r)
<1>1. /\ p.run = "live" /\ p.revision = r /\ p.linked = TRUE /\ p.startup = "fresh"
      /\ p.gate = "closed" /\ p.handle = FALSE /\ p.inbox = << >> /\ p.outbox = << >>
      /\ p = [f \in {"run", "revision", "linked", "startup", "gate", "handle", "inbox", "outbox"}
                |-> p[f]]
  BY DEF Newborn, Unborn
<1> HIDE DEF p
<1>2. << >> \in Seq(Requests) /\ << >> \in Seq(Frames) /\ DOMAIN << >> = {}
  OBVIOUS
<1>3. p \in Procs
  BY <1>1, <1>2 DEF Procs
<1>4. ~Eager(p)
  BY <1>1, <1>2 DEF Eager
<1> QED
  BY <1>1, <1>3, <1>4 DEF p

LEMMA NewSlotFacts ==
  ASSUME NEW i
  PROVE  NewSlot(i).id = i /\ NewSlot(i).pending = NoPending /\ NewSlot(i).state = "Running"
  BY DEF NewSlot

LEMMA BearNet ==
  ASSUME NEW s, NEW t, NEW role \in Roles, NEW i \in InstanceIds, NEW r \in Revisions,
         role # "retired", Net(s, {}), Single(s), Bears(s, t, role, i, r),
         s.slot[role].id = NoInstance, \A b \in Roles : s.slot[b].id # i
  PROVE  Net(t, {}) /\ Single(t)
<1>0. s \in Masters /\ t \in Masters /\ t.nextReq = s.nextReq
  BY DEF Net, Bears
<1>1. s.slot \in [Roles -> SlotRecords] /\ s.proc \in [InstanceIds -> Procs]
  BY <1>0, MasterFields
<1>2. /\ t.slot[role] = NewSlot(i) /\ \A b \in Roles \ {role} : t.slot[b] = s.slot[b]
      /\ t.proc[i] = Newborn(r) /\ \A j \in InstanceIds \ {i} : t.proc[j] = s.proc[j]
  BY <1>1 DEF Bears
<1>3. Distinct(t)
  BY <1>2, NewSlotFacts DEF Net, Distinct
<1>4. Owned(t)
  <2> SUFFICES ASSUME NEW j \in InstanceIds,
                      t.proc[j].run \in {"live", "leaving"} \/ Eager(t.proc[j])
               PROVE  \E b \in Roles : t.slot[b].id = j
    BY DEF Owned
  <2>1. CASE j = i
    BY <1>2, <2>1, NewSlotFacts
  <2>2. CASE j # i
    <3>1. PICK b \in Roles : s.slot[b].id = j
      BY <1>2, <2>2 DEF Net, Owned
    <3>2. b # role
      BY <3>1, NoInstanceAssumption
    <3> QED
      BY <1>2, <3>1, <3>2
  <2> QED
    BY <2>1, <2>2
<1>5. Closing(t)
  BY <1>2, NewbornFacts DEF Net, Closing
<1>6. Killed(t)
  BY <1>2, NewSlotFacts DEF Net, Killed
<1>7. Numbered(t)
  <2>1. /\ Increasing(Newborn(r).inbox) /\ Below(Newborn(r).inbox, s.nextReq)
        /\ Below(Newborn(r).outbox, s.nextReq)
    BY NewbornFacts DEF Increasing, Below
  <2> QED
    BY <1>0, <1>2, <2>1, NewSlotFacts DEF Net, Numbered
<1>8. Tracked(t)
  BY <1>2, NewSlotFacts DEF Net, Tracked
<1>9. Single(t)
  <2>1. \A j, k \in InstanceIds : ~Overlaps(s, j, k)
    BY NoInstanceAssumption DEF Overlaps, Roles
  <2> QED
    BY <1>2, <2>1, NewbornFacts DEF Single
<1>10. Launched(t)
  BY <1>2, FirstId, NewbornFacts DEF Net, Launched
<1> QED
  BY <1>0, <1>3, <1>4, <1>5, <1>6, <1>7, <1>8, <1>9, <1>10 DEF Net

\* The service before the first worker is launched.
Fresh(s) ==
    /\ s \in Masters /\ s.stage = "BootAdopting" /\ ~s.deferred /\ s.sup = NoSupervisor
    /\ s.nextReq = 1
    /\ \A b \in Roles : s.slot[b] = NoSlot
    /\ \A j \in InstanceIds : s.proc[j] = Unborn(NoRevision)

LEMMA UnbornFacts ==
  /\ Unborn(NoRevision) \in Procs /\ Unborn(NoRevision).run = "unborn" /\ ~Eager(Unborn(NoRevision))
  /\ Unborn(NoRevision).inbox = << >> /\ Unborn(NoRevision).outbox = << >>
<1> DEFINE p == Unborn(NoRevision)
<1>1. /\ p.run = "unborn" /\ p.revision = NoRevision /\ p.linked = FALSE /\ p.startup = "fresh"
      /\ p.gate = "closed" /\ p.handle = FALSE /\ p.inbox = << >> /\ p.outbox = << >>
      /\ p = [f \in {"run", "revision", "linked", "startup", "gate", "handle", "inbox", "outbox"}
                |-> p[f]]
  BY DEF Unborn
<1> HIDE DEF p
<1>2. << >> \in Seq(Requests) /\ << >> \in Seq(Frames)
  OBVIOUS
<1>3. p \in Procs
  BY <1>1, <1>2 DEF Procs
<1> QED
  BY <1>1, <1>3 DEF Eager, p

\* The first worker, spawned.
Begun(s, r) == [s EXCEPT !.slot["active"] = NewSlot(1), !.proc[1] = Newborn(r)]

LEMMA FirstBorn ==
  ASSUME NEW s, NEW r \in Revisions, Fresh(s)
  PROVE  LET t == Begun(s, r)
         IN  /\ Good(t, {}) /\ Present(t, "active") /\ t.stage = "BootAdopting" /\ t.err = s.err
             /\ ~t.deferred /\ t.sup = NoSupervisor
             /\ t.slot["active"] = NewSlot(1) /\ t.proc[1] = Newborn(r)
             /\ \A b \in Roles \ {"active"} : t.slot[b] = NoSlot
             /\ \A j \in InstanceIds \ {1} : t.proc[j] = Unborn(NoRevision)
<1> DEFINE t == Begun(s, r)
<1>0. /\ s \in Masters /\ s.stage = "BootAdopting" /\ ~s.deferred /\ s.sup = NoSupervisor
      /\ s.nextReq = 1 /\ \A b \in Roles : s.slot[b] = NoSlot
      /\ \A j \in InstanceIds : s.proc[j] = Unborn(NoRevision)
  BY DEF Fresh
<1>1. /\ Upd(s, t, {"slot", "proc"}) /\ t.slot = [s.slot EXCEPT !["active"] = NewSlot(1)]
      /\ t.proc = [s.proc EXCEPT ![1] = Newborn(r)]
  BY <1>0, MasterFields DEF Upd, IsRecord, Fields, Begun
<1> HIDE DEF t
<1>2. /\ t.stage = s.stage /\ t.sup = s.sup /\ t.deferred = s.deferred
      /\ t.nextReq = s.nextReq /\ t.forced = s.forced /\ t.failure = s.failure
      /\ t.events = s.events /\ t.sends = s.sends /\ t.err = s.err /\ IsRecord(t)
  BY <1>1 DEF Upd, Fields
<1>3. s.slot \in [Roles -> SlotRecords] /\ s.proc \in [InstanceIds -> Procs]
      /\ NewSlot(1) \in SlotRecords /\ Newborn(r) \in Procs
  BY <1>0, MasterFields, FirstId, SlotTypes, NewbornFacts DEF Ids
<1>4. t.slot \in [Roles -> SlotRecords] /\ t.proc \in [InstanceIds -> Procs]
  BY <1>1, <1>3
<1>5. t \in Masters
  BY <1>0, <1>2, <1>4, Rebuilt, MasterFields
<1>6. /\ t.slot["active"].id = 1 /\ t.slot["active"].state = "Running"
      /\ \A b \in Roles \ {"active"} : t.slot[b].id = NoInstance /\ t.slot[b].state = "Running"
      /\ \A b \in Roles : t.slot[b].pending = NoPending
  BY <1>0, <1>1, <1>3, NewSlotFacts DEF Roles, NoSlot
<1>7. /\ t.proc[1] = Newborn(r) /\ \A j \in InstanceIds \ {1} : t.proc[j] = Unborn(NoRevision)
  BY <1>0, <1>1, <1>3, FirstId
<1>8. \A j \in InstanceIds : t.proc[j].inbox = << >> /\ t.proc[j].outbox = << >> /\ ~Eager(t.proc[j])
                             /\ t.proc[j].run # "leaving"
  BY <1>7, NewbornFacts, UnbornFacts
<1>9. Distinct(t) /\ Launched(t) /\ Closing(t) /\ Killed(t) /\ Tracked(t) /\ Single(t)
  <2>1. Distinct(t)
    BY <1>6 DEF Distinct
  <2>2. Launched(t) /\ Closing(t) /\ Single(t)
    BY <1>7, <1>8, NewbornFacts DEF Launched, Closing, Single
  <2> QED
    BY <1>6, <2>1, <2>2 DEF Killed, Tracked
<1>10. Owned(t)
  BY <1>6, <1>7, UnbornFacts DEF Owned, Roles
<1>11. Numbered(t)
  <2>1. Increasing(<< >>) /\ Below(<< >>, t.nextReq)
    BY DEF Increasing, Below
  <2> QED
    BY <1>0, <1>2, <1>6, <1>8, <2>1 DEF Numbered
<1>12. Net(t, {})
  BY <1>5, <1>9, <1>10, <1>11 DEF Net
<1>13. Control(t)
  BY <1>0, <1>2, <1>6 DEF Control, Matched, BootAlone, Reaps, Serving, Roles
<1>14. Present(t, "active")
  BY <1>6, NoInstanceAssumption, FirstId DEF Present
<1>15. t.slot["active"] = NewSlot(1) /\ \A b \in Roles \ {"active"} : t.slot[b] = NoSlot
  BY <1>0, <1>1, <1>3 DEF Roles
<1> QED
  BY <1>0, <1>2, <1>7, <1>9, <1>12, <1>13, <1>14, <1>15 DEF Good, t

LEMMA LaunchGood ==
  ASSUME NEW s, NEW r \in Revisions, NEW bad, Fresh(s)
  PROVE  Good(Launch(s, 1, Newborn(r), bad), {})
<1> DEFINE t == Begun(s, r)
<1>1. Good(t, {}) /\ Present(t, "active") /\ t.stage = "BootAdopting"
  BY FirstBorn
<1> HIDE DEF t
<1>2. /\ "AdoptListeners" \in ControlPhases /\ "AdoptListeners" \notin Opening /\ "active" \in Roles
  BY NotOpening DEF Roles
<1>3. Good(IssueOrCompensate(t, "active", "AdoptListeners", bad), {})
  BY <1>1, <1>2, IssueGood
<1> QED
  BY <1>3 DEF Launch, t, Begun

LEMMA BeginAgrees ==
  ASSUME NEW u \in Sups, Agree(u), ~Occupied(u.candidate), ~Occupied(u.retired), NEW i \in InstanceIds,
         NEW answer, answer = Begin(u, Instance(i, i, "Spawned")), answer.ok
  PROVE  /\ answer.sup \in Sups /\ Agree(answer.sup) /\ u.active.lifecycle = "Active"
         /\ u.active.instance_id # i
         /\ answer.sup.active = u.active /\ answer.sup.retired = u.retired
         /\ answer.sup.candidate = Instance(i, i, "Spawned")
<1> DEFINE n == Instance(i, i, "Spawned")
           v == [u EXCEPT !.candidate = n]
<1>1. i \in Nat /\ i \in Ids
  BY IdTypes DEF Ids
<1>2. n \in Holders /\ n.instance_id = i /\ n.lifecycle = "Spawned"
  BY <1>1 DEF Instance, Holders, Lifecycles
<1> HIDE DEF n
<1>3. v \in Sups /\ v.active = u.active /\ v.retired = u.retired /\ v.candidate = n
  BY <1>2 DEF Sups
<1>4. u.active.lifecycle = "Active" /\ n.instance_id # u.active.instance_id /\ answer.sup = v
  BY DEF Begin, Accept, Reject, n
<1> HIDE DEF v
<1>5. Agree(v)
  BY <1>2, <1>3, <1>4 DEF Agree
<1> QED
  BY <1>2, <1>3, <1>4, <1>5 DEF n

LEMMA StepAgrees ==
  ASSUME NEW u \in Sups, Agree(u), Occupied(u.candidate),
         u.candidate.lifecycle \in {"Spawned", "Handshaking", "Preparing"},
         NEW l \in {"Handshaking", "Preparing"}
  PROVE  LET v == Moved(u, "candidate", l)
         IN  /\ v \in Sups /\ Agree(v) /\ SameIds(u, v) /\ v.active = u.active
             /\ v.candidate.lifecycle = l /\ Occupied(v.candidate)
             /\ v.candidate.instance_id = u.candidate.instance_id
<1> DEFINE v == Moved(u, "candidate", l)
<1>1. /\ v \in Sups /\ v.candidate.lifecycle = l /\ v.active = u.active
      /\ v.retired = u.retired /\ v.candidate.instance_id = u.candidate.instance_id
      /\ SameIds(u, v)
  BY MovedFacts DEF Roles, Lifecycles
<1> HIDE DEF v
<1>2. Agree(v) /\ Occupied(v.candidate)
  BY <1>1 DEF Agree, Occupied
<1> QED
  BY <1>1, <1>2 DEF v

\* A candidate spawned, met and introduced, as replace leaves it at each step.
Bred(s, i, r) ==
    [s EXCEPT !.slot["candidate"] = NewSlot(i), !.proc[i] = Newborn(r),
              !.sup = Begin(s.sup, Instance(i, i, "Spawned")).sup]

Met(s, i, r) == Applied(Bred(s, i, r), CandidateSpawned(Bred(s, i, r).sup, i))

Introduced(s, i, r) == Applied(Met(s, i, r), CandidateHandshakeComplete(Met(s, i, r).sup, i))

LEMMA BornCandidate ==
  ASSUME NEW s, NEW i \in InstanceIds, NEW r \in Revisions, Good(s, {}), IsRunning(s),
         Begin(s.sup, Instance(i, i, "Spawned")).ok
  PROVE  LET p == Introduced(s, i, r)
         IN  /\ Good(Met(s, i, r), {}) /\ ~Met(s, i, r).err
             /\ Good(p, {}) /\ ~p.err
             /\ Present(p, "candidate") /\ p.stage = "Operational"
             /\ p.slot["candidate"] = NewSlot(i) /\ p.slot["active"] = s.slot["active"]
             /\ p.slot["retired"] = s.slot["retired"] /\ p.slot["retired"].id = NoInstance
             /\ p.proc = [s.proc EXCEPT ![i] = Newborn(r)]
             /\ s.slot["active"].id \in InstanceIds \ {i}
             /\ p.sup.active = s.sup.active /\ s.sup.active.lifecycle = "Active"
             /\ Occupied(p.sup.candidate) /\ p.sup.candidate.lifecycle = "Preparing"
             /\ ~Occupied(s.sup.candidate)
<1> DEFINE answer == Begin(s.sup, Instance(i, i, "Spawned"))
           b == Bred(s, i, r)
           m == Met(s, i, r)
           p == Introduced(s, i, r)
<1>0. s \in Masters /\ Net(s, {}) /\ Single(s) /\ Control(s) /\ Matched(s) /\ Reaps(s)
  BY DEF Good, Net, Control
<1>1. s.stage = "Operational" /\ PhaseOf(s) = "Running"
  BY DEF IsRunning
<1>2. ~Occupied(s.sup.candidate) /\ ~Occupied(s.sup.retired) /\ s.sup \in Sups /\ Agree(s.sup)
  BY <1>0, <1>1, PhaseFacts, MasterFields DEF Matched
<1>3. ~s.deferred
  BY <1>0, <1>1 DEF Reaps
<1>4. /\ answer.sup \in Sups /\ Agree(answer.sup) /\ s.sup.active.lifecycle = "Active"
      /\ s.sup.active.instance_id # i
      /\ answer.sup.active = s.sup.active /\ answer.sup.retired = s.sup.retired
      /\ answer.sup.candidate = Instance(i, i, "Spawned")
  BY <1>2, BeginAgrees
<1>5. /\ Upd(s, b, {"slot", "proc", "sup"}) /\ b.slot = [s.slot EXCEPT !["candidate"] = NewSlot(i)]
      /\ b.proc = [s.proc EXCEPT ![i] = Newborn(r)] /\ b.sup = answer.sup
  BY <1>0, MasterFields DEF Upd, IsRecord, Fields, Bred
<1> HIDE DEF b, answer
<1>6. /\ b.stage = s.stage /\ b.deferred = s.deferred
      /\ b.nextReq = s.nextReq /\ b.forced = s.forced /\ b.failure = s.failure
      /\ b.events = s.events /\ b.sends = s.sends /\ b.err = s.err /\ IsRecord(b)
  BY <1>5 DEF Upd, Fields
<1>7. s.slot \in [Roles -> SlotRecords] /\ s.proc \in [InstanceIds -> Procs]
      /\ NewSlot(i) \in SlotRecords /\ Newborn(r) \in Procs
  BY <1>0, MasterFields, SlotTypes, NewbornFacts DEF Ids
<1>8. b.slot \in [Roles -> SlotRecords] /\ b.proc \in [InstanceIds -> Procs]
  BY <1>5, <1>7
<1>9. b \in Masters
  BY <1>0, <1>4, <1>5, <1>6, <1>8, Rebuilt, MasterFields
<1>10. Bears(s, b, "candidate", i, r) /\ "candidate" \in Roles
  BY <1>5, <1>6, <1>9 DEF Bears, Roles
<1>11. /\ s.slot["active"].id = s.sup.active.instance_id
       /\ s.slot["candidate"].id = NoInstance /\ s.slot["retired"].id = NoInstance
  BY <1>0, <1>1, <1>2 DEF Matched, Occupied, Roles
<1>12. \A x \in Roles : s.slot[x].id # i
  BY <1>4, <1>11, NoInstanceAssumption DEF Roles
<1>13. Net(b, {}) /\ Single(b)
  BY <1>0, <1>10, <1>11, <1>12, BearNet
<1>14. /\ b.slot["candidate"].id = i /\ b.slot["active"] = s.slot["active"]
       /\ b.slot["retired"] = s.slot["retired"]
  BY <1>5, <1>7, NewSlotFacts DEF Roles
<1>15. Control(b)
  <2>0. Instance(i, i, "Spawned").instance_id = i
    BY DEF Instance
  <2>1. Matched(b)
    BY <1>0, <1>1, <1>4, <1>5, <1>11, <1>14, <2>0 DEF Matched, Roles
  <2>2. BootAlone(b) /\ Reaps(b)
    BY <1>1, <1>3, <1>6 DEF BootAlone, Reaps
  <2>3. Serving(b)
    <3>1. s.slot["active"].id \in InstanceIds \ {i}
      BY <1>0, <1>1, <1>4, <1>11, ActivePresent
    <3>2. b.proc[b.slot["active"].id] = s.proc[s.slot["active"].id]
      BY <1>5, <1>7, <1>14, <3>1
    <3> QED
      BY <1>0, <1>4, <1>5, <1>6, <3>2 DEF Control, Serving
  <2> QED
    BY <2>1, <2>2, <2>3 DEF Control
<1>16. /\ Occupied(b.sup.candidate) /\ b.sup.candidate.lifecycle = "Spawned"
       /\ b.sup.candidate.instance_id = i
  BY <1>4, <1>5, NoInstanceAssumption DEF Instance, Occupied
<1> DEFINE u == Moved(b.sup, "candidate", "Handshaking")
           v == Moved(u, "candidate", "Preparing")
<1>17. /\ u \in Sups /\ Agree(u) /\ SameIds(b.sup, u) /\ u.active = b.sup.active
       /\ u.candidate.lifecycle = "Handshaking" /\ Occupied(u.candidate)
       /\ u.candidate.instance_id = i
  BY <1>4, <1>5, <1>16, StepAgrees
<1>18. Accepts(CandidateSpawned(b.sup, i), u)
  BY <1>16, <1>17 DEF CandidateSpawned, InState, Holds, Accept, Accepts
<1> HIDE DEF u
<1>19. Steers(b, m) /\ m.sup = u /\ m.err = FALSE
  BY <1>9, <1>18, AcceptedSteers DEF Met, b
<1> HIDE DEF m
<1>20. Net(m, {}) /\ Single(m) /\ m \in Masters /\ m.stage = "Operational" /\ ~m.deferred
  BY <1>1, <1>3, <1>6, <1>13, <1>16, <1>19, SteerNet, SteerSingle DEF Steers
<1>21. Control(m)
  BY <1>1, <1>3, <1>6, <1>9, <1>15, <1>17, <1>19, SteerControl
<1>22. /\ v \in Sups /\ Agree(v) /\ SameIds(m.sup, v) /\ v.active = m.sup.active
       /\ v.candidate.lifecycle = "Preparing" /\ Occupied(v.candidate)
  BY <1>17, <1>19, StepAgrees
<1>23. Accepts(CandidateHandshakeComplete(m.sup, i), v)
  BY <1>17, <1>19, <1>22 DEF CandidateHandshakeComplete, InState, Holds, Accept, Accepts
<1> HIDE DEF v
<1>24. Steers(m, p) /\ p.sup = v /\ p.err = FALSE
  BY <1>20, <1>23, AcceptedSteers DEF Introduced, m
<1> HIDE DEF p
<1>25. Net(p, {}) /\ Single(p) /\ p \in Masters
  BY <1>17, <1>19, <1>20, <1>24, SteerNet, SteerSingle DEF Steers
<1>26. Control(p)
  BY <1>20, <1>21, <1>22, <1>24, SteerControl
<1>27. Present(p, "candidate")
  BY <1>14, <1>19, <1>24, NoInstanceAssumption DEF Steers, Present
<1>28. Good(p, {})
  BY <1>25, <1>26 DEF Good
<1>29. s.slot["active"].id \in InstanceIds \ {i}
  BY <1>0, <1>1, <1>4, <1>11, ActivePresent
<1>30. p.slot = b.slot /\ p.proc = b.proc /\ p.stage = "Operational"
  BY <1>19, <1>20, <1>24 DEF Steers
<1>31. p.slot["candidate"] = NewSlot(i) /\ p.proc = [s.proc EXCEPT ![i] = Newborn(r)]
  BY <1>5, <1>7, <1>30 DEF Roles
<1>32. p.sup.active = s.sup.active
  BY <1>4, <1>5, <1>17, <1>19, <1>22, <1>24
<1> QED
  BY <1>2, <1>4, <1>11, <1>14, <1>19, <1>20, <1>21, <1>22, <1>24, <1>27, <1>28, <1>29, <1>30, <1>31,
     <1>32 DEF Good, p, m

LEMMA ReplaceGood ==
  ASSUME NEW s, NEW i \in InstanceIds, NEW r \in Revisions, NEW spawned, NEW bad, Good(s, {})
  PROVE  Good(Replace(s, i, Newborn(r), spawned, bad), {})
<1> DEFINE answer == Begin(s.sup, Instance(i, i, "Spawned"))
           m == Met(s, i, r)
           p == Introduced(s, i, r)
           t == Replace(s, i, Newborn(r), spawned, bad)
<1>0. s \in Masters /\ Net(s, {}) /\ Single(s) /\ Control(s) /\ Matched(s) /\ Reaps(s)
  BY DEF Good, Net, Control
<1>1. \/ t = Fail(s) \/ t = Fail(Emit(s, "SpawnFailed", i, NoInstance))
      \/ IsRunning(s) /\ answer.ok /\ t \in {m, p, IssueOrCompensate(p, "candidate", "AdoptListeners", bad)}
  BY DEF Replace, Try, ThenIssue, Introduced, Met, Bred
<1>2. Good(Fail(s), {})
  BY <1>0, FailKeeps, KeepGood
<1>3. Good(Fail(Emit(s, "SpawnFailed", i, NoInstance)), {})
  <2>1. "SpawnFailed" \in EventKinds /\ i \in Ids /\ NoInstance \in Ids
    BY DEF EventKinds, Ids
  <2> DEFINE e == Emit(s, "SpawnFailed", i, NoInstance)
  <2>2. Keeps(s, e) /\ e \in Masters
    BY <1>0, <2>1, EmitKeeps DEF Keeps
  <2> HIDE DEF e
  <2>3. Good(e, {})
    BY <2>2, KeepGood
  <2>4. Good(Fail(e), {})
    BY <2>2, <2>3, FailKeeps, KeepGood
  <2> QED
    BY <2>4 DEF e
<1>4. ASSUME IsRunning(s), answer.ok
      PROVE  /\ Good(m, {}) /\ Good(p, {})
             /\ Good(IssueOrCompensate(p, "candidate", "AdoptListeners", bad), {})
  <2>1. /\ Good(m, {}) /\ Good(p, {}) /\ Present(p, "candidate")
    BY <1>4, BornCandidate
  <2> HIDE DEF m, p
  <2>2. "AdoptListeners" \in ControlPhases /\ "AdoptListeners" \notin Opening /\ "candidate" \in Roles
    BY NotOpening DEF Roles
  <2>3. Good(IssueOrCompensate(p, "candidate", "AdoptListeners", bad), {})
    BY <2>1, <2>2, IssueGood
  <2> QED
    BY <2>1, <2>3
<1> HIDE DEF t, m, p, answer
<1>5. Good(t, {})
  BY <1>1, <1>2, <1>3, <1>4
<1> QED
  BY <1>5 DEF t

---------------------------------------------------------------------------
(* Shutting down *)

LEMMA AskToStopGood ==
  ASSUME NEW s, NEW role \in Roles, NEW bad, Good(s, {}), s.stage = "ShuttingDown"
  PROVE  Good(AskToStop(s, role, bad), {}) /\ AskToStop(s, role, bad).stage = "ShuttingDown"
<1> DEFINE i == Issued(s, role, "Shutdown")
           t == [i EXCEPT !.slot[role].state = "Terminating"]
           n == NotIssued(s)
           f == ForceRole(n, role)
           g == [f EXCEPT !.forced = TRUE]
<1>0. s \in Masters
  BY DEF Good, Net
<1>1. ASSUME Present(s, role) PROVE Good(t, {}) /\ t.stage = "ShuttingDown"
  <2>1. Good(i, {}) /\ i \in Masters /\ i.stage = "ShuttingDown"
    BY <1>1, NotOpening, IssueGood
  <2> HIDE DEF i
  <2>2. Keeps(i, t)
    BY <2>1, TerminatingKeeps
  <2> HIDE DEF t
  <2> QED
    BY <2>1, <2>2, KeepGood DEF Keeps
<1>2. Good(g, {}) /\ g.stage = "ShuttingDown"
  <2>1. Keeps(s, n) /\ n \in Masters
    BY <1>0, NotIssuedKeeps DEF Keeps
  <2> HIDE DEF n
  <2>2. Keeps(n, f) /\ f \in Masters
    BY <2>1, ForceKeeps DEF Keeps
  <2> HIDE DEF f
  <2>3. Keeps(f, g)
    BY <2>2, ForcedKeeps
  <2> HIDE DEF g
  <2> QED
    BY <2>1, <2>2, <2>3, KeepGood DEF Keeps
<1>3. AskToStop(s, role, bad) \in {s, g} \/ (Present(s, role) /\ AskToStop(s, role, bad) = t)
  BY DEF AskToStop
<1> HIDE DEF t, g
<1> QED
  BY <1>1, <1>2, <1>3

\* The state shutdown starts asking from.
Reaped(s) == IF s.deferred THEN TakeWorker(s, "active") ELSE s

Closed(s) ==
    [Reaped(s) EXCEPT !.stage = "ShuttingDown", !.forced = FALSE, !.deferred = FALSE,
                      !.sup = NoSupervisor, !.failure = FALSE]

LEMMA ClosedGood ==
  ASSUME NEW s, Good(s, {})
  PROVE  LET k == Reaped(s)
             c == Closed(s)
         IN  /\ Good(c, {}) /\ c.stage = "ShuttingDown"
             /\ c.slot = k.slot /\ c.proc = k.proc /\ c.err = k.err
<1> DEFINE k == Reaped(s)
           c == Closed(s)
<1>0. s \in Masters /\ Net(s, {}) /\ Single(s) /\ Control(s)
  BY DEF Good, Net
<1>1. Net(k, {}) /\ Single(k) /\ k \in Masters
  <2>1. CASE s.deferred
    <3>1. Takes(s, TakeWorker(s, "active"), "active") /\ "active" \in Roles
      BY <1>0, TakeFacts DEF Roles
    <3>2. s.proc[s.slot["active"].id].run = "gone"
      BY <1>0, <2>1 DEF Control, Reaps
    <3>3. Net(TakeWorker(s, "active"), {}) /\ Single(TakeWorker(s, "active"))
      BY <1>0, <3>1, <3>2, TakeNet, TakeSingle
    <3> QED
      BY <2>1, <3>3 DEF Net, Reaped
  <2>2. CASE ~s.deferred
    BY <1>0, <2>2 DEF Reaped
  <2> QED
    BY <2>1, <2>2
<1> HIDE DEF k
<1>3. /\ Upd(k, c, {"stage", "forced", "deferred", "sup", "failure"}) /\ c.stage = "ShuttingDown"
      /\ c.forced = FALSE /\ c.deferred = FALSE /\ c.sup = NoSupervisor /\ c.failure = FALSE
  BY <1>1, MasterFields DEF Upd, IsRecord, Fields, Closed, k
<1> HIDE DEF c
<1>4. /\ c.slot = k.slot /\ c.proc = k.proc /\ c.nextReq = k.nextReq
      /\ c.events = k.events /\ c.sends = k.sends /\ c.err = k.err /\ IsRecord(c)
  BY <1>3 DEF Upd, Fields
<1>5. c.stage \in Stages /\ c.forced \in BOOLEAN /\ c.deferred \in BOOLEAN /\ c.failure \in BOOLEAN
      /\ c.sup \in Sups
  BY <1>3, NoSupervisorFacts DEF Stages
<1>6. c \in Masters
  BY <1>1, <1>4, <1>5, Rebuilt, MasterFields
<1>7. Net(c, {}) /\ Single(c)
  <2>1. k.nextReq \in Nat
    BY <1>1, MasterFields
  <2>2. Shrinks(k, c)
    BY <1>4, <1>6, <2>1 DEF Shrinks, From, Suffers
  <2>3. Distinct(c) /\ Owned(c)
    BY <1>1, <1>4 DEF Net, Distinct, Owned
  <2>4. \A i, j \in InstanceIds : Overlaps(k, i, j) => Overlaps(c, i, j)
    BY <1>3, <1>4 DEF Overlaps
  <2> QED
    BY <1>1, <2>2, <2>3, <2>4, ShrinkNet, ShrinkSingle
<1>8. Good(c, {})
  BY <1>3, <1>7, IdleControl DEF Good
<1> QED
  BY <1>3, <1>4, <1>8 DEF k, c

LEMMA ShutdownGood ==
  ASSUME NEW s, NEW bad, Good(s, {})
  PROVE  Good(Shutdown(s, bad), {})
<1> DEFINE c == Closed(s)
           a1 == AskToStop(c, "active", bad)
           a2 == AskToStop(a1, "candidate", bad)
           a3 == AskToStop(a2, "retired", bad)
<1>1. Good(c, {}) /\ c.stage = "ShuttingDown"
  BY ClosedGood
<1>2. Shutdown(s, bad) = a3
  BY DEF Shutdown, Closed, Reaped
<1> HIDE DEF c
<1>3. Good(a1, {}) /\ a1.stage = "ShuttingDown"
  BY <1>1, AskToStopGood DEF Roles
<1> HIDE DEF a1
<1>4. Good(a2, {}) /\ a2.stage = "ShuttingDown"
  BY <1>3, AskToStopGood DEF Roles
<1> HIDE DEF a2
<1>5. Good(a3, {})
  BY <1>4, AskToStopGood DEF Roles
<1> QED
  BY <1>2, <1>5

---------------------------------------------------------------------------
(* Reconciling, and what an iteration of the runner leaves behind *)

LEMMA QuietGood ==
  ASSUME NEW s, NEW t, Good(s, {}), Upd(s, t, {"events", "err", "sends"}),
         t.events \in Seq(MasterEvents), t.err \in BOOLEAN, t.sends \in Nat
  PROVE  Good(t, {})
<1>0. s \in Masters
  BY DEF Good, Net
<1>1. /\ s.forced \in BOOLEAN /\ s.failure \in BOOLEAN /\ s.nextReq \in Nat
  BY <1>0, MasterFields
<1>2. t.forced = s.forced /\ t.failure = s.failure /\ t.nextReq = s.nextReq
  BY DEF Upd, Fields
<1>3. Upd(s, t, {"forced", "failure", "nextReq", "events", "err", "sends"})
  BY DEF Upd
<1>4. t.nextReq >= s.nextReq
  BY <1>1, <1>2
<1>5. Keeps(s, t)
  BY <1>0, <1>1, <1>2, <1>3, <1>4, QuietKeeps
<1> QED
  BY <1>5, KeepGood

LEMMA FlaggedGood ==
  ASSUME NEW s, NEW e \in BOOLEAN, Good(s, {})
  PROVE  Good([s EXCEPT !.err = e], {})
<1> DEFINE t == [s EXCEPT !.err = e]
<1>0. s \in Masters
  BY DEF Good, Net
<1>1. Upd(s, t, {"err"}) /\ t.err = e
  BY <1>0, MasterFields DEF Upd, IsRecord, Fields
<1>2. s.events \in Seq(MasterEvents) /\ s.sends \in Nat
  BY <1>0, MasterFields
<1> HIDE DEF t
<1>3. t.events = s.events /\ t.sends = s.sends /\ Upd(s, t, {"events", "err", "sends"})
  BY <1>1 DEF Upd, Fields
<1>4. Good(t, {})
  BY <1>1, <1>2, <1>3, QuietGood
<1> QED
  BY <1>4 DEF t

LEMMA TakenGood ==
  ASSUME NEW s, Good(s, {})
  PROVE  Good([s EXCEPT !.events = << >>], {})
<1> DEFINE t == [s EXCEPT !.events = << >>]
<1>0. s \in Masters
  BY DEF Good, Net
<1>1. Upd(s, t, {"events"}) /\ t.events = << >>
  BY <1>0, MasterFields DEF Upd, IsRecord, Fields
<1>2. s.err \in BOOLEAN /\ s.sends \in Nat
  BY <1>0, MasterFields
<1> HIDE DEF t
<1>3. t.err = s.err /\ t.sends = s.sends /\ Upd(s, t, {"events", "err", "sends"})
  BY <1>1 DEF Upd, Fields
<1>4. t.events \in Seq(MasterEvents)
  BY <1>1
<1>5. Good(t, {})
  BY <1>2, <1>3, <1>4, QuietGood
<1> QED
  BY <1>5 DEF t

LEMMA ReconcileGood ==
  ASSUME NEW s, NEW cat, NEW d \in Revisions, NEW spawned, NEW bad, Good(s, {}),
         cat.next \in InstanceIds
  PROVE  Good(Reconcile(s, cat, d, spawned, bad).master, {})
<1> DEFINE r == Replace(s, cat.next, Newborn(d), spawned, bad)
           e == ~RecordRestartRequired(AllocateGeneration(cat).cat, Document(cat.next, cat.next, d)).ok
           x == r.err /\ ~IsRunning(r)
           m == Reconcile(s, cat, d, spawned, bad).master
<1>1. Good(r, {})
  BY ReplaceGood
<1>2. Good([s EXCEPT !.err = TRUE], {})
  BY FlaggedGood
<1>3. e \in BOOLEAN /\ x \in BOOLEAN
  OBVIOUS
<1>4. m \in {s, [s EXCEPT !.err = TRUE], [s EXCEPT !.err = e], [r EXCEPT !.err = x]}
  BY DEF Reconcile, Fail
<1> HIDE DEF r, e, x, m
<1>5. Good([s EXCEPT !.err = e], {}) /\ Good([r EXCEPT !.err = x], {})
  BY <1>1, <1>3, FlaggedGood
<1>6. Good(m, {})
  BY <1>2, <1>4, <1>5
<1> QED
  BY <1>6 DEF m

LEMMA SysGood ==
  ASSUME NEW t, Good(t, {}), Becomes(t), events' \in Seq(MasterEvents)
  PROVE  Good(Sys', {})
<1>1. /\ IsRecord(Sys') /\ Sys'.stage = stage' /\ Sys'.forced = forced' /\ Sys'.sup = sup'
      /\ Sys'.slot = slot' /\ Sys'.deferred = deferred' /\ Sys'.failure = failure'
      /\ Sys'.nextReq = nextReq' /\ Sys'.events = events' /\ Sys'.err = FALSE /\ Sys'.sends = 0
      /\ Sys'.proc = proc'
  BY DEF Sys, IsRecord, Fields
<1>2. Upd(t, Sys', {"events", "err", "sends"})
  BY <1>1 DEF Becomes, Upd, Fields
<1>3. Sys'.events \in Seq(MasterEvents) /\ Sys'.err \in BOOLEAN
  BY <1>1, Zenon
<1>4. Sys'.sends \in Nat
  BY <1>1
<1> QED
  BY <1>2, <1>3, <1>4, QuietGood

---------------------------------------------------------------------------
(* The steps of the workers *)

\* What a worker p may become by itself, while fewer than n requests were numbered.
Moves(p, q, n) ==
    /\ q \in Procs
    /\ q.run \in {"live", "leaving"} => p.run \in {"live", "leaving"}
    /\ q.run = "live" => p.run = "live"
    /\ (p.run # "unborn" => q.run # "unborn") /\ (Dead(p) => Dead(q))
    /\ (p.run = "gone" => q.run = "gone")
    /\ q.run = "leaving" => q.gate = "closed"
    /\ Increasing(q.inbox) /\ Below(q.inbox, n) /\ Below(q.outbox, n)
    /\ \A r \in Nat \ {0} : Tracks(p, r) => Tracks(q, r)
    /\ Eager(q) => Eager(p)
    /\ p.gate = "open" /\ p.inbox = << >> /\ q.run = "live" => q.gate = "open" /\ q.inbox = << >>

LEMMA MovesGood ==
  ASSUME NEW s, NEW t, NEW i \in InstanceIds, NEW q, Good(s, {}), Upd(s, t, {"proc"}),
         t.proc = [s.proc EXCEPT ![i] = q], Moves(s.proc[i], q, s.nextReq)
  PROVE  Good(t, {})
<1>0. s \in Masters /\ Net(s, {}) /\ Single(s) /\ Control(s)
  BY DEF Good, Net
<1>1. /\ s.proc \in [InstanceIds -> Procs] /\ s.slot \in [Roles -> SlotRecords] /\ s.nextReq \in Nat
  BY <1>0, MasterFields
<1>2. /\ t.stage = s.stage /\ t.sup = s.sup /\ t.deferred = s.deferred /\ t.nextReq = s.nextReq
      /\ t.slot = s.slot /\ t.forced = s.forced /\ t.failure = s.failure /\ t.events = s.events
      /\ t.err = s.err /\ t.sends = s.sends /\ IsRecord(t)
  BY DEF Upd, Fields
<1>3. t.proc \in [InstanceIds -> Procs]
  BY <1>1 DEF Moves
<1>4. t \in Masters
  BY <1>0, <1>2, <1>3, Rebuilt, MasterFields
<1>5. t.proc[i] = q /\ \A j \in InstanceIds \ {i} : t.proc[j] = s.proc[j]
  BY <1>1
<1>6. Distinct(t)
  BY <1>0, <1>2 DEF Net, Distinct
<1>7. Owned(t) /\ Closing(t)
  BY <1>0, <1>2, <1>5 DEF Net, Owned, Closing, Moves
<1>8. Killed(t)
  BY <1>0, <1>2, <1>5 DEF Net, Killed, Moves
<1>9. Numbered(t)
  BY <1>0, <1>2, <1>5 DEF Net, Numbered, Moves
<1>10. Tracked(t)
  <2> SUFFICES ASSUME NEW b \in Roles, t.slot[b].id \in InstanceIds, t.slot[b].pending # NoPending
               PROVE  Tracks(t.proc[t.slot[b].id], t.slot[b].pending.req)
    BY DEF Tracked
  <2>1. Tracks(s.proc[s.slot[b].id], s.slot[b].pending.req)
    BY <1>0, <1>2 DEF Net, Tracked
  <2>2. s.slot[b].pending.req \in Nat \ {0}
    BY <1>0, <1>1, <1>2 DEF Net, Numbered
  <2> QED
    BY <1>2, <1>5, <2>1, <2>2 DEF Moves
<1>11. Net(t, {})
  <2>1. Launched(t)
    BY <1>0, <1>5, FirstId DEF Net, Launched, Moves
  <2> QED
    BY <2>1, <1>4, <1>6, <1>7, <1>8, <1>9, <1>10 DEF Net
<1>12. Single(t)
  <2>1. \A j \in InstanceIds : Eager(t.proc[j]) => Eager(s.proc[j])
    BY <1>5 DEF Moves
  <2>2. ASSUME NEW j \in InstanceIds, NEW k \in InstanceIds, Overlaps(s, j, k), Eager(t.proc[k])
        PROVE  Overlaps(t, j, k)
    BY <1>2, <1>5, <2>2 DEF Overlaps, Moves, Dead, Eager
  <2> QED
    BY <1>0, <2>1, <2>2 DEF Single
<1>13. Matched(t) /\ BootAlone(t)
  BY <1>0, <1>2 DEF Control, Matched, BootAlone
<1>14. Reaps(t)
  <2>1. PhaseOf(t) = PhaseOf(s)
    BY <1>2 DEF PhaseOf
  <2> QED
    BY <1>0, <1>2, <1>5, <2>1 DEF Control, Reaps, Moves
<1>15. Serving(t)
  <2> SUFFICES ASSUME t.stage = "Operational", t.sup.active.lifecycle = "Active",
                      t.proc[t.slot["active"].id].run = "live"
               PROVE  /\ t.proc[t.slot["active"].id].gate = "open"
                      /\ t.proc[t.slot["active"].id].inbox = << >>
    BY DEF Serving
  <2>1. s.slot["active"].id \in InstanceIds
    BY <1>0, <1>2, ActivePresent DEF Control
  <2>2. s.proc[s.slot["active"].id].run = "live" =>
           /\ s.proc[s.slot["active"].id].gate = "open"
           /\ s.proc[s.slot["active"].id].inbox = << >>
    BY <1>0, <1>2 DEF Control, Serving
  <2>3. CASE s.slot["active"].id = i
    BY <1>2, <1>5, <2>2, <2>3 DEF Moves
  <2>4. CASE s.slot["active"].id # i
    BY <1>2, <1>5, <2>1, <2>2, <2>4
  <2> QED
    BY <2>3, <2>4
<1> QED
  BY <1>11, <1>12, <1>13, <1>14, <1>15 DEF Good, Control

\* What a turn of the control loop leaves of a worker, which answers b.
Turned(p, q, b) ==
    LET h == Head(p.inbox) IN
    /\ q \in Procs /\ q.inbox = Tail(p.inbox) /\ q.run \in {"live", "leaving"}
    /\ q.outbox = Append(p.outbox, [kind |-> "Ack", req |-> h.req, phase |-> h.phase, ok |-> b])
    /\ q.run = "leaving" => q.gate = "closed"
    /\ q.gate = "open" => p.gate = "open" \/ h.phase \in {"Activate", "Reactivate"}
    /\ b /\ h.phase = "Quiesce" => q.gate = "closed"
    /\ b /\ h.phase \in {"Activate", "Reactivate"} /\ q.run = "live" => q.gate = "open"

LEMMA TurnFacts ==
  ASSUME NEW p \in Procs, NEW d, NEW ok \in BOOLEAN, Reads(p)
  PROVE  \E b \in BOOLEAN : Turned(p, Turn(p, d, ok), b)
<1> DEFINE h == Head(p.inbox)
           F(b) == [kind |-> "Ack", req |-> h.req, phase |-> h.phase, ok |-> b]
<1>0. /\ p.inbox \in Seq(Requests) /\ p.inbox # << >> /\ p.run = "live" /\ p.outbox \in Seq(Frames)
      /\ p.handle \in BOOLEAN /\ p.gate \in {"open", "closed"}
  BY DEF Reads, Procs
<1>1. Tail(p.inbox) \in Seq(Requests) /\ h = p.inbox[1] /\ 1 \in DOMAIN p.inbox
  BY <1>0, TailFacts
<1>2. h \in Requests
  BY <1>0, <1>1, Elements
<1>3. h.req \in Nat /\ h.phase \in Phases
  BY <1>2 DEF Requests
<1>4. ASSUME NEW b \in BOOLEAN
      PROVE  /\ Acknowledged(p, b) \in Procs /\ Acknowledged(p, b).inbox = Tail(p.inbox)
             /\ Acknowledged(p, b).outbox = Append(p.outbox, F(b))
             /\ Acknowledged(p, b).run = "live" /\ Acknowledged(p, b).gate = p.gate
  <2>1. F(b) \in Frames
    BY <1>3 DEF Frames
  <2>2. Append(p.outbox, F(b)) \in Seq(Frames)
    BY <1>0, <2>1
  <2> QED
    BY <1>0, <1>1, <2>2 DEF Acknowledged, Request, Procs
<1>5. Turned(p, Acknowledged(p, FALSE), FALSE)
  BY <1>4 DEF Turned
<1>6. ASSUME NEW b \in BOOLEAN PROVE Turned(p, Leaves(Acknowledged(p, b)), b)
  <2> DEFINE a == Acknowledged(p, b)
             q == Leaves(a)
  <2>1. /\ q \in Procs /\ q.inbox = a.inbox /\ q.outbox = a.outbox /\ q.run = "leaving"
        /\ q.gate = "closed"
    BY <1>4 DEF Leaves, Procs
  <2> HIDE DEF a, q
  <2>2. a.inbox = Tail(p.inbox) /\ a.outbox = Append(p.outbox, F(b))
    BY <1>4 DEF a
  <2>3. Turned(p, q, b)
    BY <2>1, <2>2 DEF Turned
  <2> QED
    BY <2>3 DEF q, a
<1>7. Turned(p, Leaves([Acknowledged(p, FALSE) EXCEPT !.startup = "done"]), FALSE)
  <2> DEFINE a == Acknowledged(p, FALSE)
             q == Leaves([a EXCEPT !.startup = "done"])
  <2>1. /\ q \in Procs /\ q.inbox = a.inbox /\ q.outbox = a.outbox /\ q.run = "leaving"
        /\ q.gate = "closed"
    BY <1>4 DEF Leaves, Procs
  <2> HIDE DEF a, q
  <2>2. a.inbox = Tail(p.inbox) /\ a.outbox = Append(p.outbox, F(FALSE))
    BY <1>4 DEF a
  <2>3. Turned(p, q, FALSE)
    BY <2>1, <2>2 DEF Turned
  <2> QED
    BY <2>3 DEF q, a
<1>8. ASSUME h.phase = "AdoptListeners"
      PROVE  Turned(p, [Acknowledged(p, TRUE) EXCEPT !.startup = "pending"], TRUE)
  <2> DEFINE a == Acknowledged(p, TRUE)
             q == [a EXCEPT !.startup = "pending"]
  <2>1. /\ q \in Procs /\ q.inbox = a.inbox /\ q.outbox = a.outbox /\ q.run = a.run
        /\ q.gate = a.gate
    BY <1>4 DEF Procs
  <2> HIDE DEF a, q
  <2>2. /\ a.inbox = Tail(p.inbox) /\ a.outbox = Append(p.outbox, F(TRUE)) /\ a.run = "live"
        /\ a.gate = p.gate
    BY <1>4 DEF a
  <2>3. Turned(p, q, TRUE)
    BY <1>8, <2>1, <2>2 DEF Turned
  <2> QED
    BY <2>3 DEF q, a
<1>9. ASSUME h.phase = "Activate"
      PROVE  Turned(p, [Acknowledged(p, TRUE) EXCEPT !.startup = "done", !.gate = "open"], TRUE)
  <2> DEFINE a == Acknowledged(p, TRUE)
             q == [a EXCEPT !.startup = "done", !.gate = "open"]
  <2>1. /\ q \in Procs /\ q.inbox = a.inbox /\ q.outbox = a.outbox /\ q.run = a.run
        /\ q.gate = "open"
    BY <1>4 DEF Procs
  <2> HIDE DEF a, q
  <2>2. a.inbox = Tail(p.inbox) /\ a.outbox = Append(p.outbox, F(TRUE)) /\ a.run = "live"
    BY <1>4 DEF a
  <2>3. Turned(p, q, TRUE)
    BY <1>9, <2>1, <2>2 DEF Turned
  <2> QED
    BY <2>3 DEF q, a
<1>10. ASSUME h.phase = "Quiesce", NEW b \in BOOLEAN
       PROVE  Turned(p, [Acknowledged(p, b) EXCEPT !.gate = "closed", !.handle = TRUE], b)
  <2> DEFINE a == Acknowledged(p, b)
             q == [a EXCEPT !.gate = "closed", !.handle = TRUE]
  <2>1. /\ q \in Procs /\ q.inbox = a.inbox /\ q.outbox = a.outbox /\ q.run = a.run
        /\ q.gate = "closed"
    BY <1>4 DEF Procs
  <2> HIDE DEF a, q
  <2>2. a.inbox = Tail(p.inbox) /\ a.outbox = Append(p.outbox, F(b)) /\ a.run = "live"
    BY <1>4 DEF a
  <2>3. Turned(p, q, b)
    BY <1>10, <2>1, <2>2 DEF Turned
  <2> QED
    BY <2>3 DEF q, a
<1>11. ASSUME h.phase = "Drain", NEW b \in BOOLEAN
       PROVE  Turned(p, [Acknowledged(p, b) EXCEPT !.gate = "closed", !.handle = FALSE], b)
  <2> DEFINE a == Acknowledged(p, b)
             q == [a EXCEPT !.gate = "closed", !.handle = FALSE]
  <2>1. /\ q \in Procs /\ q.inbox = a.inbox /\ q.outbox = a.outbox /\ q.run = a.run
        /\ q.gate = "closed"
    BY <1>4 DEF Procs
  <2> HIDE DEF a, q
  <2>2. a.inbox = Tail(p.inbox) /\ a.outbox = Append(p.outbox, F(b)) /\ a.run = "live"
    BY <1>4 DEF a
  <2>3. Turned(p, q, b)
    BY <1>11, <2>1, <2>2 DEF Turned
  <2> QED
    BY <2>3 DEF q, a
<1>12. ASSUME h.phase = "Reactivate" PROVE Turned(p, Reactivated(p), p.handle)
  <2> DEFINE a == Acknowledged(p, p.handle)
             q == [a EXCEPT !.gate = IF p.handle THEN "open" ELSE @, !.handle = FALSE]
  <2>1. /\ q \in Procs /\ q.inbox = a.inbox /\ q.outbox = a.outbox /\ q.run = a.run
        /\ p.handle => q.gate = "open"
    BY <1>0, <1>4 DEF Procs
  <2> HIDE DEF a, q
  <2>2. /\ a.inbox = Tail(p.inbox) /\ a.outbox = Append(p.outbox, F(p.handle)) /\ a.run = "live"
    BY <1>0, <1>4 DEF a
  <2>3. Turned(p, q, p.handle)
    BY <1>12, <2>1, <2>2 DEF Turned
  <2> QED
    BY <2>3 DEF q, a, Reactivated
<1>13. CASE p.startup = "fresh"
  <2>1. \/ Turn(p, d, ok) = Leaves(Acknowledged(p, FALSE))
        \/ /\ h.phase = "AdoptListeners"
           /\ Turn(p, d, ok) = [Acknowledged(p, TRUE) EXCEPT !.startup = "pending"]
    BY <1>13 DEF Turn, AdoptFirst, Request
  <2> QED
    BY <1>6, <1>8, <2>1
<1>14. CASE p.startup # "fresh"
  <2>0. Turn(p, d, ok) = ServeRequest(p, ok)
    BY <1>14 DEF Turn
  <2>1. CASE h.phase = "Activate"
    <3>1. ServeRequest(p, ok) \in
              {[Acknowledged(p, TRUE) EXCEPT !.startup = "done", !.gate = "open"],
               Leaves([Acknowledged(p, FALSE) EXCEPT !.startup = "done"]), Acknowledged(p, FALSE)}
      BY <2>1 DEF ServeRequest, Request
    <3> QED
      BY <1>5, <1>7, <1>9, <2>0, <2>1, <3>1
  <2>2. CASE h.phase = "Shutdown"
    BY <1>6, <2>0, <2>2 DEF ServeRequest, Request
  <2>3. CASE h.phase = "Quiesce"
    <3>1. ServeRequest(p, ok) \in
              {[Acknowledged(p, ok) EXCEPT !.gate = "closed", !.handle = TRUE], Acknowledged(p, FALSE)}
      BY <2>3 DEF ServeRequest, Request
    <3> QED
      BY <1>5, <1>10, <2>0, <2>3, <3>1
  <2>4. CASE h.phase = "Drain"
    <3>1. ServeRequest(p, ok) \in
              {[Acknowledged(p, ok) EXCEPT !.gate = "closed", !.handle = FALSE], Acknowledged(p, FALSE)}
      BY <2>4 DEF ServeRequest, Request
    <3> QED
      BY <1>5, <1>11, <2>0, <2>4, <3>1
  <2>5. CASE h.phase = "Reactivate"
    BY <1>0, <1>12, <2>0, <2>5 DEF ServeRequest, Request
  <2>6. CASE h.phase \notin {"Activate", "Shutdown", "Quiesce", "Drain", "Reactivate"}
    BY <1>5, <2>0, <2>6 DEF ServeRequest, Request
  <2> QED
    BY <2>1, <2>2, <2>3, <2>4, <2>5, <2>6
<1> QED
  BY <1>13, <1>14

LEMMA ServeMoves ==
  ASSUME NEW p \in Procs, NEW n \in Nat, NEW d, NEW ok \in BOOLEAN, Reads(p),
         Increasing(p.inbox), Below(p.inbox, n), Below(p.outbox, n)
  PROVE  Moves(p, Turn(p, d, ok), n)
<1> DEFINE h == Head(p.inbox)
           q == Turn(p, d, ok)
<1>0. /\ p.inbox \in Seq(Requests) /\ p.inbox # << >> /\ p.run = "live" /\ p.outbox \in Seq(Frames)
  BY DEF Reads, Procs
<1>1. PICK b \in BOOLEAN : Turned(p, q, b)
  BY TurnFacts
<1> DEFINE f == [kind |-> "Ack", req |-> h.req, phase |-> h.phase, ok |-> b]
<1>2. /\ h = p.inbox[1] /\ 1 \in DOMAIN p.inbox
      /\ \A k \in DOMAIN Tail(p.inbox) : k + 1 \in DOMAIN p.inbox /\ Tail(p.inbox)[k] = p.inbox[k + 1]
  BY <1>0, TailFacts
<1>3. DOMAIN p.inbox \subseteq Nat \ {0} /\ DOMAIN Tail(p.inbox) \subseteq Nat \ {0}
  <2>1. Tail(p.inbox) \in Seq(Requests)
    BY <1>0, TailFacts
  <2> QED
    BY <1>0, <2>1, Elements
<1>4. \A k \in DOMAIN p.inbox : p.inbox[k].req \in Nat
  <2>1. \A k \in DOMAIN p.inbox : p.inbox[k] \in Requests
    BY <1>0, Elements
  <2> QED
    BY <2>1 DEF Requests
<1>5. h.req \in Nat /\ h.phase \in Phases /\ h.req < n
  <2>1. h \in Requests
    BY <1>0, <1>2, Elements
  <2> QED
    BY <1>2, <2>1 DEF Requests, Below
<1>6. /\ f \in Frames /\ f.kind = "Ack" /\ f.req = h.req /\ f.phase = h.phase /\ f.ok = b
  BY <1>5 DEF Frames
<1>7. /\ q \in Procs /\ q.inbox = Tail(p.inbox) /\ q.run \in {"live", "leaving"}
      /\ q.outbox = Append(p.outbox, f)
      /\ q.run = "leaving" => q.gate = "closed"
      /\ q.gate = "open" => p.gate = "open" \/ h.phase \in {"Activate", "Reactivate"}
      /\ b /\ h.phase = "Quiesce" => q.gate = "closed"
      /\ b /\ h.phase \in {"Activate", "Reactivate"} /\ q.run = "live" => q.gate = "open"
  BY <1>1 DEF Turned
<1> HIDE DEF q, f, h
<1>8. Increasing(q.inbox)
  <2> SUFFICES ASSUME NEW j \in DOMAIN Tail(p.inbox), NEW k \in DOMAIN Tail(p.inbox), j < k
               PROVE  Tail(p.inbox)[j].req < Tail(p.inbox)[k].req
    BY <1>7 DEF Increasing
  <2>1. j + 1 < k + 1
    BY <1>3
  <2> QED
    BY <1>2, <2>1 DEF Increasing
<1>9. Below(q.inbox, n)
  BY <1>2, <1>7 DEF Below
<1>10. /\ DOMAIN q.outbox = 1..(Len(p.outbox) + 1) /\ DOMAIN p.outbox = 1..Len(p.outbox)
       /\ Len(p.outbox) \in Nat
       /\ \A k \in 1..Len(p.outbox) : q.outbox[k] = p.outbox[k]
       /\ q.outbox[Len(p.outbox) + 1] = f
  BY <1>0, <1>6, <1>7, AppendFacts
<1>11. \A k \in DOMAIN q.outbox : (k \in DOMAIN p.outbox /\ q.outbox[k] = p.outbox[k]) \/ q.outbox[k] = f
  BY <1>10
<1>12. Below(q.outbox, n)
  BY <1>5, <1>6, <1>11 DEF Below
<1>13. ASSUME NEW r \in Nat \ {0}, Tracks(p, r) PROVE Tracks(q, r)
  <2>1. \A k \in DOMAIN q.inbox : q.inbox[k].req <= r
    BY <1>2, <1>7, <1>13 DEF Tracks
  <2>2. ASSUME NEW k \in DOMAIN q.outbox, q.outbox[k].kind = "Ack", q.outbox[k].req = r
        PROVE  Answered(q, q.outbox[k])
    <3>1. ~(k \in DOMAIN p.outbox /\ q.outbox[k] = p.outbox[k])
      BY <1>0, <1>13, <2>2 DEF Tracks, Answered
    <3>2. q.outbox[k] = f /\ h.req = r
      BY <1>6, <1>11, <2>2, <3>1
    <3>3. ASSUME NEW j \in DOMAIN Tail(p.inbox) PROVE FALSE
      <4>1. /\ j + 1 \in DOMAIN p.inbox /\ 1 < j + 1
        BY <1>2, <1>3
      <4>2. p.inbox[1].req < p.inbox[j + 1].req
        BY <1>2, <4>1 DEF Increasing
      <4>3. p.inbox[j + 1].req <= r
        BY <1>13, <4>1 DEF Tracks
      <4> QED
        BY <1>2, <1>4, <3>2, <4>1, <4>2, <4>3
    <3>4. q.inbox = << >>
      <4>1. Tail(p.inbox) \in Seq(Requests) /\ DOMAIN Tail(p.inbox) = {}
        BY <1>0, <3>3, TailFacts
      <4> QED
        BY <1>7, <4>1
    <3> QED
      BY <1>6, <1>7, <3>2, <3>4 DEF Answered
  <2> QED
    BY <2>1, <2>2 DEF Tracks
<1>14. ASSUME Eager(q) PROVE Eager(p)
  <2>1. CASE q.gate = "open"
    BY <1>0, <1>2, <1>7, <2>1 DEF Eager
  <2>2. CASE \E k \in DOMAIN q.inbox : q.inbox[k].phase \in {"Activate", "Reactivate"}
    BY <1>0, <1>2, <1>7, <2>2 DEF Eager
  <2> QED
    BY <1>14, <2>1, <2>2 DEF Eager
<1>15. Moves(p, q, n)
  BY <1>0, <1>7, <1>8, <1>9, <1>12, <1>13, <1>14 DEF Moves, Dead
<1> QED
  BY <1>15 DEF q

LEMMA EmptyQueue ==
  Increasing(<< >>) /\ \A n : Below(<< >>, n)
  BY DEF Increasing, Below

LEMMA GoneMoves ==
  ASSUME NEW p \in Procs, NEW n \in Nat
  PROVE  Moves(p, Gone(p), n)
<1> DEFINE q == Gone(p)
<1>1. /\ q.run = "gone" /\ q.revision = p.revision /\ q.linked = FALSE /\ q.startup = "fresh"
      /\ q.gate = "closed" /\ q.handle = FALSE /\ q.inbox = << >> /\ q.outbox = << >>
      /\ q = [f \in {"run", "revision", "linked", "startup", "gate", "handle", "inbox", "outbox"}
                |-> q[f]]
  BY DEF Gone, Unborn
<1> HIDE DEF q
<1>2. << >> \in Seq(Requests) /\ << >> \in Seq(Frames) /\ DOMAIN << >> = {}
  OBVIOUS
<1>3. q \in Procs
  BY <1>1, <1>2 DEF Procs
<1>4. \A r : Tracks(q, r)
  BY <1>1, <1>2 DEF Tracks
<1>5. Moves(p, q, n)
  BY <1>1, <1>3, <1>4, EmptyQueue DEF Moves, Dead, Eager
<1> QED
  BY <1>5 DEF q

LEMMA HungUpMoves ==
  ASSUME NEW p \in Procs, NEW n \in Nat, p.run \in {"live", "leaving"},
         Increasing(p.inbox), Below(p.inbox, n), Below(p.outbox, n)
  PROVE  Moves(p, HungUp(p), n)
<1> DEFINE q == HungUp(p)
<1>1. /\ q \in Procs /\ q.run = "leaving" /\ q.inbox = p.inbox /\ q.outbox = p.outbox
      /\ q.gate = "closed"
  BY DEF HungUp, Leaves, Procs
<1> HIDE DEF q
<1>2. ASSUME NEW r, Tracks(p, r) PROVE Tracks(q, r)
  BY <1>1, <1>2 DEF Tracks, Answered
<1>3. Moves(p, q, n)
  BY <1>1, <1>2 DEF Moves, Dead, Eager
<1> QED
  BY <1>3 DEF q

LEMMA BadFrameMoves ==
  ASSUME NEW p \in Procs, NEW n \in Nat, NEW f \in Frames, p.run = "live", n > 0,
         f.kind = "Bad", f.req = 0,
         Increasing(p.inbox), Below(p.inbox, n), Below(p.outbox, n)
  PROVE  Moves(p, [p EXCEPT !.outbox = Append(@, f)], n)
<1> DEFINE q == [p EXCEPT !.outbox = Append(@, f)]
<1>0. p.outbox \in Seq(Frames)
  BY DEF Procs
<1>1. Append(p.outbox, f) \in Seq(Frames)
  BY <1>0
<1>2. /\ q \in Procs /\ q.run = p.run /\ q.inbox = p.inbox /\ q.outbox = Append(p.outbox, f)
      /\ q.gate = p.gate
  BY <1>1 DEF Procs
<1> HIDE DEF q
<1>3. \A k \in DOMAIN q.outbox : (k \in DOMAIN p.outbox /\ q.outbox[k] = p.outbox[k]) \/ q.outbox[k] = f
  <2>1. /\ DOMAIN q.outbox = 1..(Len(p.outbox) + 1) /\ DOMAIN p.outbox = 1..Len(p.outbox)
        /\ Len(p.outbox) \in Nat
        /\ \A k \in 1..Len(p.outbox) : q.outbox[k] = p.outbox[k]
        /\ q.outbox[Len(p.outbox) + 1] = f
    BY <1>0, <1>2, AppendFacts
  <2> QED
    BY <2>1
<1>4. Below(q.outbox, n)
  BY <1>3 DEF Below
<1>5. ASSUME NEW r, Tracks(p, r) PROVE Tracks(q, r)
  BY <1>2, <1>3, <1>5 DEF Tracks, Answered
<1>6. Moves(p, q, n)
  BY <1>2, <1>4, <1>5 DEF Moves, Dead, Eager
<1> QED
  BY <1>6 DEF q

\* Dropping the master kills the workers it still holds.
LEMMA DroppedKeeps ==
  ASSUME NEW s \in Masters
  PROVE  LET t == [s EXCEPT !.proc = Dropped(s)] IN Keeps(s, t)
<1> DEFINE t == [s EXCEPT !.proc = Dropped(s)]
<1>1. Upd(s, t, {"proc"}) /\ t.proc = Dropped(s)
  BY MasterFields DEF Upd, IsRecord, Fields
<1> HIDE DEF t
<1>2. /\ t.stage = s.stage /\ t.sup = s.sup /\ t.deferred = s.deferred /\ t.nextReq = s.nextReq
      /\ t.slot = s.slot /\ t.forced = s.forced /\ t.failure = s.failure /\ t.events = s.events
      /\ t.err = s.err /\ t.sends = s.sends /\ IsRecord(t)
  BY <1>1 DEF Upd, Fields
<1>3. s.proc \in [InstanceIds -> Procs] /\ s.nextReq \in Nat
  BY MasterFields
<1>4. ASSUME NEW i \in InstanceIds
      PROVE  Dropped(s)[i] \in Procs /\ Suffers(s.proc[i], Dropped(s)[i])
  <2>1. s.proc[i] \in Procs
    BY <1>3
  <2>2. \/ Dropped(s)[i] = s.proc[i]
        \/ Dropped(s)[i] = [s.proc[i] EXCEPT !.run = "killed"] /\ s.proc[i].run \in {"live", "leaving"}
    BY DEF Dropped
  <2> QED
    BY <2>1, <2>2 DEF Procs, Suffers, Alike, Dead
<1>5. DOMAIN Dropped(s) = InstanceIds /\ Dropped(s) = [i \in InstanceIds |-> Dropped(s)[i]]
  BY DEF Dropped
<1>6. t.proc \in [InstanceIds -> Procs]
  BY <1>1, <1>4, <1>5
<1>7. t \in Masters
  BY <1>2, <1>6, Rebuilt, MasterFields
<1>8. Keeps(s, t)
  BY <1>1, <1>2, <1>3, <1>4, <1>7 DEF Keeps, StateKept
<1> QED
  BY <1>8 DEF t

---------------------------------------------------------------------------
(* The inductive invariant of the service *)

Runners == {"driving", "stopping", "failing", "cleanup", "ended"}

\* Before the first launch nothing has happened; from then on the master and its
\* workers are in order whenever an iteration is over.
IInv ==
    /\ disk \in Revisions /\ runner \in Runners
    /\ \/ Good(Sys, {})
       \/ Fresh(Sys) /\ runner = "driving" /\ catalog.doc["Active"].revision \in Revisions

LEMMA SysFields ==
  /\ IsRecord(Sys) /\ Sys.stage = stage /\ Sys.forced = forced /\ Sys.sup = sup
  /\ Sys.slot = slot /\ Sys.deferred = deferred /\ Sys.failure = failure
  /\ Sys.nextReq = nextReq /\ Sys.events = events /\ Sys.err = FALSE /\ Sys.sends = 0
  /\ Sys.proc = proc
  BY DEF Sys, IsRecord, Fields

LEMMA GoodFacts ==
  ASSUME Good(Sys, {})
  PROVE  /\ Sys \in Masters /\ events \in Seq(MasterEvents) /\ Booted /\ nextReq \in Nat /\ nextReq > 0
         /\ \A i \in InstanceIds :
               /\ proc[i] \in Procs
               /\ Increasing(proc[i].inbox) /\ Below(proc[i].inbox, nextReq)
               /\ Below(proc[i].outbox, nextReq)
<1>1. Sys \in Masters /\ Launched(Sys) /\ Numbered(Sys)
  BY DEF Good, Net
<1>2. Sys.events \in Seq(MasterEvents) /\ Sys.nextReq \in Nat /\ Sys.proc \in [InstanceIds -> Procs]
  BY <1>1, MasterFields
<1> QED
  BY <1>1, <1>2, SysFields DEF Launched, Booted, Numbered

LEMMA FreshFacts ==
  ASSUME Fresh(Sys)
  PROVE  /\ stage = "BootAdopting" /\ ~Booted
         /\ \A i \in InstanceIds : proc[i].run = "unborn"
  BY SysFields, UnbornFacts, FirstId DEF Fresh, Booted

LEMMA WorkerStep ==
  ASSUME NEW i \in InstanceIds, NEW q, IInv, proc[i].run # "unborn",
         Good(Sys, {}) => Moves(proc[i], q, nextReq), WorkerChanges(i, q)
  PROVE  IInv'
<1>1. Good(Sys, {}) /\ disk \in Revisions /\ runner \in Runners
  BY FreshFacts DEF IInv
<1> DEFINE t == [Sys EXCEPT !.proc = [proc EXCEPT ![i] = q]]
<1>2. Upd(Sys, t, {"proc"}) /\ t.proc = [proc EXCEPT ![i] = q]
  BY SysFields DEF Upd, IsRecord, Fields
<1> HIDE DEF t
<1>3. Good(t, {})
  BY <1>1, <1>2, SysFields, MovesGood
<1>4. /\ t.stage = stage /\ t.forced = forced /\ t.sup = sup /\ t.slot = slot
      /\ t.deferred = deferred /\ t.failure = failure /\ t.nextReq = nextReq
  BY <1>2, SysFields DEF Upd, Fields
<1>5. Becomes(t)
  BY <1>2, <1>4 DEF Becomes, WorkerChanges, masterVars
<1>6. events' \in Seq(MasterEvents)
  BY <1>1, GoodFacts DEF WorkerChanges
<1>7. Good(Sys', {})
  BY <1>3, <1>5, <1>6, SysGood
<1> QED
  BY <1>1, <1>7 DEF IInv, WorkerChanges

LEMMA InitIInv ==
  ASSUME Init
  PROVE  IInv
<1>1. /\ Sys.stage = "BootAdopting" /\ Sys.forced = FALSE /\ Sys.sup = NoSupervisor
      /\ Sys.slot = [role \in Roles |-> NoSlot] /\ Sys.deferred = FALSE /\ Sys.failure = FALSE
      /\ Sys.nextReq = 1 /\ Sys.events = << >> /\ Sys.err = FALSE /\ Sys.sends = 0
      /\ Sys.proc = [i \in InstanceIds |-> Unborn(NoRevision)]
  BY SysFields DEF Init
<1>2. NoSlot \in SlotRecords
  BY SlotTypes DEF NoSlot, Ids
<1>3. /\ Sys.slot \in [Roles -> SlotRecords] /\ Sys.proc \in [InstanceIds -> Procs]
  BY <1>1, <1>2, UnbornFacts
<1>4. /\ Sys.stage \in Stages /\ Sys.sup \in Sups /\ Sys.events \in Seq(MasterEvents)
      /\ Sys.nextReq \in Nat /\ Sys.sends \in Nat
  BY <1>1, NoSupervisorFacts DEF Stages
<1>5. /\ Sys.forced \in BOOLEAN /\ Sys.deferred \in BOOLEAN /\ Sys.failure \in BOOLEAN
      /\ Sys.err \in BOOLEAN
  BY <1>1, Zenon
<1>6. Sys \in Masters
  BY <1>3, <1>4, <1>5, SysFields, Rebuilt
<1>7. Fresh(Sys)
  BY <1>1, <1>6 DEF Fresh
<1>8. disk \in Revisions /\ runner = "driving"
  BY DEF Init
<1>9. catalog.doc["Active"].revision = disk
  BY DEF Init, NewCatalog, Document, CatalogRoles
<1> QED
  BY <1>7, <1>8, <1>9 DEF IInv, Runners

LEMMA LaunchFirstIInv ==
  ASSUME IInv, LaunchFirst
  PROVE  IInv'
<1>1. Fresh(Sys) /\ disk \in Revisions /\ runner \in Runners /\ catalog.doc["Active"].revision \in Revisions
  BY GoodFacts DEF IInv, LaunchFirst
<1>2. PICK bad \in BadSends : Becomes(Launch(Sys, 1, Newborn(catalog.doc["Active"].revision), bad))
  BY DEF LaunchFirst, Paying
<1>3. Good(Launch(Sys, 1, Newborn(catalog.doc["Active"].revision), bad), {})
  BY <1>1, LaunchGood
<1>4. events' \in Seq(MasterEvents)
  <2>1. Sys \in Masters
    BY <1>1 DEF Fresh
  <2> QED
    BY <2>1, MasterFields, SysFields DEF LaunchFirst
<1>5. Good(Sys', {})
  BY <1>2, <1>3, <1>4, SysGood
<1> QED
  BY <1>1, <1>5 DEF IInv, LaunchFirst

LEMMA DrivePollIInv ==
  ASSUME IInv, NEW due \in BOOLEAN, DrivePoll(due)
  PROVE  IInv'
<1>1. Good(Sys, {}) /\ disk \in Revisions /\ runner \in Runners
  BY FreshFacts DEF IInv, DrivePoll
<1>2. PICK bad \in BadSends : Polled(Poll(Sys, due, bad), bad)
  BY DEF DrivePoll
<1> DEFINE t == Poll(Sys, due, bad)
<1>3. Good(t, {})
  BY <1>1, PollGood
<1>4. Polled(t, bad)
  BY <1>2
<1> HIDE DEF t
<1>5. t.events \in Seq(MasterEvents)
  BY <1>3, MasterFields DEF Good, Net
<1>6. Becomes(t) /\ events' \in {t.events, << >>} /\ runner' \in {"failing", runner}
  BY <1>4 DEF Polled, Paying
<1>7. events' \in Seq(MasterEvents)
  <2>1. << >> \in Seq(MasterEvents)
    OBVIOUS
  <2> QED
    BY <1>5, <1>6, <2>1
<1>8. Good(Sys', {})
  BY <1>3, <1>6, <1>7, SysGood
<1> QED
  BY <1>1, <1>6, <1>8 DEF IInv, DrivePoll, Runners

LEMMA DriveReloadIInv ==
  ASSUME IInv, DriveReload
  PROVE  IInv'
<1>1. Good(Sys, {}) /\ disk \in Revisions /\ runner \in Runners
  BY FreshFacts DEF IInv, DriveReload
<1>2. PICK bad \in BadSends, spawned \in BOOLEAN :
          PolledWithReload(Poll(Sys, FALSE, bad), spawned, bad)
  BY DEF DriveReload
<1> DEFINE t == Poll(Sys, FALSE, bad)
           c == ApplyCatalogEvents(catalog, t.events)
           u == [t EXCEPT !.events = << >>]
           r == Reconcile(u, c.cat, disk, spawned, bad)
<1>3. Good(t, {})
  BY <1>1, PollGood
<1>4. Good(u, {})
  BY <1>3, TakenGood
<1>5. c.cat.next \in InstanceIds /\ Reconciled(r, spawned, bad)
  BY <1>2 DEF PolledWithReload, PolledThenReconciled, MayReconcile
<1> HIDE DEF t, c, u
<1>6. Good(r.master, {})
  BY <1>1, <1>4, <1>5, ReconcileGood
<1> HIDE DEF r
<1>7. Becomes(r.master) /\ events' = r.master.events /\ runner' \in {"failing", runner}
  BY <1>5 DEF Reconciled
<1>8. events' \in Seq(MasterEvents)
  BY <1>6, <1>7, MasterFields DEF Good, Net
<1>9. Good(Sys', {})
  BY <1>6, <1>7, <1>8, SysGood
<1> QED
  BY <1>1, <1>7, <1>9 DEF IInv, DriveReload, Runners

LEMMA StopIInv ==
  ASSUME IInv, Stop
  PROVE  IInv'
<1>1. Good(Sys, {}) /\ disk \in Revisions
  BY FreshFacts DEF IInv, Stop
<1>2. PICK bad \in BadSends : Becomes(Shutdown(Sys, bad))
  BY DEF Stop
<1>3. Good(Shutdown(Sys, bad), {})
  BY <1>1, ShutdownGood
<1>4. events' \in Seq(MasterEvents)
  BY <1>1, GoodFacts DEF Stop
<1>5. Good(Sys', {})
  BY <1>2, <1>3, <1>4, SysGood
<1> QED
  BY <1>1, <1>5 DEF IInv, Stop, Runners

LEMMA CleanupIInv ==
  ASSUME IInv, Cleanup
  PROVE  IInv'
<1>1. Good(Sys, {}) /\ disk \in Revisions
  BY DEF IInv, Cleanup
<1>2. PICK bad \in BadSends : Becomes(IF stage = "ShuttingDown" THEN Sys ELSE Shutdown(Sys, bad))
  BY DEF Cleanup, Paying
<1>3. Good(IF stage = "ShuttingDown" THEN Sys ELSE Shutdown(Sys, bad), {})
  BY <1>1, ShutdownGood
<1>4. events' \in Seq(MasterEvents)
  BY <1>1, GoodFacts DEF Cleanup
<1>5. Good(Sys', {})
  BY <1>2, <1>3, <1>4, SysGood
<1> QED
  BY <1>1, <1>5 DEF IInv, Cleanup, Runners

LEMMA WindDownIInv ==
  ASSUME IInv, NEW due \in BOOLEAN, WindDown(due)
  PROVE  IInv'
<1>1. Good(Sys, {}) /\ disk \in Revisions /\ runner \in Runners
  BY DEF IInv, WindDown
<1>2. PICK bad \in BadSends : WoundDown(Poll(Sys, due, bad), bad)
  BY DEF WindDown
<1> DEFINE t == Poll(Sys, due, bad)
           d == [t EXCEPT !.proc = Dropped(t)]
           k == [t EXCEPT !.proc = t.proc]
<1>3. Good(t, {})
  BY <1>1, PollGood
<1>4. WoundDown(t, bad)
  BY <1>2
<1> HIDE DEF t
<1>5. t \in Masters
  BY <1>3 DEF Good, Net
<1>6. t.events \in Seq(MasterEvents)
  BY <1>5, MasterFields
<1>7. /\ Becomes(d) \/ Becomes(k)
      /\ events' \in {t.events, << >>} /\ runner' \in {"ended", "failing", runner}
  BY <1>4 DEF WoundDown
<1>8. k = t
  BY <1>5, MasterFields DEF IsRecord, Fields
<1>9. Good(d, {})
  BY <1>3, <1>5, DroppedKeeps, KeepGood
<1> HIDE DEF d, k
<1>10. events' \in Seq(MasterEvents)
  <2>1. << >> \in Seq(MasterEvents)
    OBVIOUS
  <2> QED
    BY <1>6, <1>7, <2>1
<1>11. Good(Sys', {})
  BY <1>3, <1>7, <1>8, <1>9, <1>10, SysGood
<1> QED
  BY <1>1, <1>7, <1>11 DEF IInv, WindDown, Runners

LEMMA EndIInv ==
  ASSUME IInv, End
  PROVE  IInv'
<1>1. Good(Sys, {}) /\ disk \in Revisions
  BY FreshFacts DEF IInv, End, Terminal
<1> DEFINE d == [Sys EXCEPT !.proc = Dropped(Sys)]
<1>2. Good(d, {})
  BY <1>1, DroppedKeeps, KeepGood, GoodFacts
<1>3. Upd(Sys, d, {"proc"}) /\ d.proc = Dropped(Sys)
  BY SysFields DEF Upd, IsRecord, Fields
<1> HIDE DEF d
<1>4. /\ d.stage = stage /\ d.forced = forced /\ d.sup = sup /\ d.slot = slot
      /\ d.deferred = deferred /\ d.failure = failure /\ d.nextReq = nextReq
  BY <1>3, SysFields DEF Upd, Fields
<1>5. Becomes(d)
  BY <1>3, <1>4 DEF Becomes, End, masterVars
<1>6. events' \in Seq(MasterEvents)
  BY <1>1, GoodFacts DEF End
<1>7. Good(Sys', {})
  BY <1>2, <1>5, <1>6, SysGood
<1> QED
  BY <1>1, <1>7 DEF IInv, End, Runners

LEMMA WorkerIInv ==
  ASSUME IInv, NEW i \in InstanceIds,
         Serve(i) \/ HangUp(i) \/ Exit(i) \/ Crash(i) \/ BadFrame(i)
  PROVE  IInv'
<1>1. CASE Serve(i)
  <2>1. PICK ok \in Answers(i) : WorkerChanges(i, Turn(proc[i], disk, ok))
    BY <1>1 DEF Serve
  <2>2. ok \in BOOLEAN
    BY Zenon DEF Answers
  <2>3. Reads(proc[i]) /\ proc[i].run # "unborn"
    BY <1>1 DEF Serve, Reads
  <2>4. Good(Sys, {}) => Moves(proc[i], Turn(proc[i], disk, ok), nextReq)
    BY <2>2, <2>3, GoodFacts, ServeMoves
  <2> QED
    BY <2>1, <2>3, <2>4, WorkerStep
<1>2. CASE HangUp(i)
  <2>1. Good(Sys, {}) => Moves(proc[i], HungUp(proc[i]), nextReq)
    BY <1>2, GoodFacts, HungUpMoves DEF HangUp
  <2> QED
    BY <1>2, <2>1, WorkerStep DEF HangUp
<1>3. CASE Exit(i)
  <2>1. Good(Sys, {}) => Moves(proc[i], Gone(proc[i]), nextReq)
    BY GoodFacts, GoneMoves
  <2> QED
    BY <1>3, <2>1, WorkerStep DEF Exit
<1>4. CASE Crash(i)
  <2>0. proc[i].run = "live"
    BY <1>4 DEF Crash
  <2>1. Good(Sys, {}) => Moves(proc[i], HungUp(proc[i]), nextReq) /\ Moves(proc[i], Gone(proc[i]), nextReq)
    BY <2>0, GoodFacts, HungUpMoves, GoneMoves
  <2>2. WorkerChanges(i, Gone(proc[i])) \/ WorkerChanges(i, HungUp(proc[i]))
    BY <1>4 DEF Crash
  <2> QED
    BY <2>0, <2>1, <2>2, WorkerStep
<1>5. CASE BadFrame(i)
  <2> DEFINE f == [kind |-> "Bad", req |-> 0, phase |-> "None", ok |-> FALSE]
             q == [proc[i] EXCEPT !.outbox = Append(@, f)]
  <2>0. proc[i].run = "live" /\ WorkerChanges(i, q)
    BY <1>5 DEF BadFrame
  <2>1. f \in Frames /\ f.kind = "Bad" /\ f.req = 0
    BY DEF Frames, Phases
  <2> HIDE DEF f
  <2>2. Good(Sys, {}) => Moves(proc[i], q, nextReq)
    BY <2>0, <2>1, GoodFacts, BadFrameMoves
  <2> QED
    BY <2>0, <2>2, WorkerStep
<1> QED
  BY <1>1, <1>2, <1>3, <1>4, <1>5

\* IInv reads only these variables.
LEMMA IdleIInv ==
  ASSUME IInv, UNCHANGED <<masterVars, events, proc, catalog, runner>>, disk' \in Revisions
  PROVE  IInv'
<1>1. Sys' = Sys
  BY DEF Sys, masterVars
<1> QED
  BY <1>1 DEF IInv

\* The master and its workers keep their shape and numbering: the inductive invariant
\* holds initially and is preserved by every step of the runner, of the workers and of
\* those who write the configuration file.
THEOREM MasterIInv == Spec => []IInv
<1>1. Init => IInv
  BY InitIInv
<1>2. IInv /\ [Next]_vars => IInv'
  <2> SUFFICES ASSUME IInv, [Next]_vars PROVE IInv'
    OBVIOUS
  <2>1. CASE LaunchFirst
    BY <2>1, LaunchFirstIInv
  <2>2. CASE DriveReload
    BY <2>2, DriveReloadIInv
  <2>3. CASE Stop
    BY <2>3, StopIInv
  <2>4. CASE Cleanup
    BY <2>4, CleanupIInv
  <2>5. CASE End
    BY <2>5, EndIInv
  <2>6. CASE WriteConfig
    BY <2>6, IdleIInv DEF WriteConfig
  <2>7. CASE \E due \in BOOLEAN : DrivePoll(due) \/ WindDown(due)
    BY <2>7, DrivePollIInv, WindDownIInv
  <2>8. CASE \E i \in InstanceIds : Serve(i) \/ HangUp(i) \/ Exit(i) \/ Crash(i) \/ BadFrame(i)
    BY <2>8, WorkerIInv
  <2>9. CASE UNCHANGED vars
    BY <2>9, IdleIInv DEF IInv, vars, masterVars
  <2> QED
    BY <2>1, <2>2, <2>3, <2>4, <2>5, <2>6, <2>7, <2>8, <2>9 DEF Next
<1> QED
  BY <1>1, <1>2, PTL DEF Spec

---------------------------------------------------------------------------
(* What the invariant gives *)

LEMMA GoodParts ==
  ASSUME Good(Sys, {})
  PROVE  /\ Sys \in Masters /\ Owned(Sys) /\ Closing(Sys) /\ Numbered(Sys) /\ Single(Sys)
         /\ Matched(Sys) /\ Serving(Sys)
  BY DEF Good, Net, Control

LEMMA TypeFacts == IInv => TypeOK
<1> SUFFICES ASSUME IInv PROVE TypeOK
  OBVIOUS
<1>1. Sys \in Masters /\ runner \in Runners
  BY GoodParts DEF IInv, Fresh
<1>2. /\ stage \in Stages /\ forced \in BOOLEAN /\ slot \in [Roles -> SlotRecords]
      /\ deferred \in BOOLEAN /\ failure \in BOOLEAN /\ proc \in [InstanceIds -> Procs]
  BY <1>1, SysFields, MasterFields
<1>3. stage = "Operational" => sup # NoSupervisor
  <2> SUFFICES ASSUME stage = "Operational" PROVE sup # NoSupervisor
    OBVIOUS
  <2>1. Agree(sup)
    BY GoodParts, FreshFacts, SysFields DEF IInv, Matched
  <2> QED
    BY <2>1 DEF Agree, Occupied, NoSupervisor, Vacant
<1>4. slot \in [Roles -> Slots]
  <2> SUFFICES ASSUME NEW b \in Roles PROVE slot[b] \in Slots
    BY <1>2
  <2>1. slot[b] \in SlotRecords
    BY <1>2
  <2>2. \/ slot[b].pending = NoPending
        \/ slot[b].pending.req \in 1..(nextReq - 1) /\ slot[b].pending.phase \in ControlPhases
    <3>1. CASE Good(Sys, {})
      BY <3>1, GoodParts, SysFields DEF Numbered
    <3>2. CASE Fresh(Sys)
      BY <3>2, SysFields, NewSlotFacts DEF Fresh, NoSlot
    <3> QED
      BY <3>1, <3>2 DEF IInv
  <2>3. slot[b].pending \in {NoPending} \cup [req : 1..(nextReq - 1), phase : ControlPhases]
    BY <2>1, <2>2 DEF SlotRecords, Requests
  <2> QED
    BY <2>1, <2>3 DEF SlotRecords, Slots, Ids
<1>5. \A i \in InstanceIds : /\ proc[i].run \in {"unborn", "live", "leaving", "killed", "gone"}
                             /\ proc[i].gate \in {"open", "closed"}
  BY <1>2 DEF Procs
<1> QED
  BY <1>1, <1>2, <1>3, <1>4, <1>5 DEF TypeOK, Stages, Runners

\* The state keeps its shape and every pending request has an id that was given out,
\* whatever the number of workers, requests, crashes and lost sends.
THEOREM TypeCorrect == Spec => []TypeOK
  BY MasterIInv, TypeFacts, PTL

\* The slots of the master and the roles of the replacement supervisor name the same
\* instances while the service is operational.
THEOREM SlotsMatch == Spec => []SlotsMatchSupervisor
<1>1. IInv => SlotsMatchSupervisor
  BY GoodParts, FreshFacts, SysFields DEF IInv, Matched, SlotsMatchSupervisor
<1> QED
  BY <1>1, MasterIInv, PTL

\* No two workers admit connections at the same time, but for the active worker and the
\* killed candidate of the rollback that recalls it.
THEOREM OneAdmits == Spec => []OneWorkerAdmits
<1>1. IInv => OneWorkerAdmits
  <2> SUFFICES ASSUME IInv PROVE OneWorkerAdmits
    OBVIOUS
  <2>1. CASE Good(Sys, {})
    <3>1. ASSUME NEW i \in InstanceIds, Admits(i) PROVE Eager(Sys.proc[i])
      BY <3>1, SysFields DEF Admits, Eager
    <3>2. ASSUME NEW i \in InstanceIds, NEW j \in InstanceIds, Overlaps(Sys, i, j)
          PROVE  Recalled(i, j)
      BY <3>2, SysFields DEF Overlaps, Recalled
    <3> QED
      BY <2>1, <3>1, <3>2, GoodParts DEF OneWorkerAdmits, Single
  <2>2. CASE Fresh(Sys)
    BY <2>2, FreshFacts DEF OneWorkerAdmits, Admits
  <2> QED
    BY <2>1, <2>2 DEF IInv
<1> QED
  BY <1>1, MasterIInv, PTL

\* A worker that the supervisor calls Active and that runs has its gate open.
THEOREM RunningServes == Spec => []RunningMeansServing
<1>1. IInv => RunningMeansServing
  BY GoodParts, FreshFacts, SysFields DEF IInv, Serving, RunningMeansServing
<1> QED
  BY <1>1, MasterIInv, PTL

\* A worker that runs and was not killed is held by a role of the master.
THEOREM NoOrphans == Spec => []EveryWorkerHasARole
<1>1. IInv => EveryWorkerHasARole
  <2> SUFFICES ASSUME IInv PROVE EveryWorkerHasARole
    OBVIOUS
  <2>1. CASE Good(Sys, {})
    <3> SUFFICES ASSUME NEW i \in InstanceIds, Alive(i) PROVE RoleFor(Sys, i) # "None"
      BY DEF EveryWorkerHasARole
    <3>1. \E role \in Roles : Sys.slot[role].id = i
      BY <2>1, GoodParts, SysFields DEF Owned, Alive
    <3> QED
      BY <3>1 DEF RoleFor, Roles
  <2>2. CASE Fresh(Sys)
    BY <2>2, FreshFacts DEF EveryWorkerHasARole, Alive
  <2> QED
    BY <2>1, <2>2 DEF IInv
<1> QED
  BY <1>1, MasterIInv, PTL
====
