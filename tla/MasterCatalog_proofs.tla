------------------------ MODULE MasterCatalog_proofs ------------------------
(***************************************************************************)
(* Proofs about the catalog of the supervised service and the revisions its *)
(* workers run, for any number of workers, faults, writes and stops.        *)
(*                                                                          *)
(* The invariant CInv relates the master of MasterSystem.tla to the         *)
(* generation catalog and to the revisions its workers run, and is          *)
(* preserved wherever the invariant IInv of MasterSystem_proofs holds. Each *)
(* lemma ...Tied says that a function of Master.tla preserves Tied: no      *)
(* worker changes its revision or comes back, and the catalog would follow  *)
(* the master if it took the events queued so far.                          *)
(***************************************************************************)
EXTENDS MasterSystem_proofs, WellFoundedInduction

---------------------------------------------------------------------------
(* What the catalog makes of a list of events *)

(* The order of the naturals, as the relation the library's minimum theorem takes. *)
LEMMA LessThan ==
  \E R : /\ IsWellFoundedOn(R, Nat)
         /\ \A y, x \in Nat : y < x => <<y, x>> \in R
<1>1. IsWellFoundedOn(OpToRel(<, Nat), Nat)
  BY NatLessThanWellFounded
<1>2. \A y, x \in Nat : y < x => <<y, x>> \in OpToRel(<, Nat)
  BY DEF OpToRel
<1> QED
  BY <1>1, <1>2, Zenon

\* A set of natural numbers has a least one.
LEMMA Least ==
  ASSUME NEW T, T \subseteq Nat, T # {}
  PROVE  \E x \in T : \A y \in T : x <= y
<1>1. PICK R : /\ IsWellFoundedOn(R, Nat)
               /\ \A y, x \in Nat : y < x => <<y, x>> \in R
  BY LessThan
<1>2. IsWellFoundedOn(R, Nat)
  BY <1>1
<1>3. \E x \in T : \A y \in T : ~ (<<y, x>> \in R)
  BY <1>2, WFMin
<1>4. PICK x \in T : \A y \in T : ~ (<<y, x>> \in R)
  BY <1>3
<1>5. ASSUME NEW y \in T PROVE x <= y
  <2>1. x \in Nat /\ y \in Nat
    OBVIOUS
  <2>2. ~(y < x)
    BY <1>1, <1>4, <2>1, Zenon
  <2> QED
    BY <2>1, <2>2
<1> QED
  BY <1>5

\* The replies of apply_catalog_events after 0, 1, ..., Len(q) events.
Run(g, cat, q) ==
    /\ g[0] = Done(cat)
    /\ \A k \in 1..Len(q) : g[k] = ApplyCatalogEvent(g[k - 1], q[k])

LEMMA LargestOf ==
  ASSUME NEW S \in SUBSET Nat, NEW m \in S, \A x \in S : x <= m
  PROVE  Max(S) = m
<1>1. \A x \in S : x \in Nat
  OBVIOUS
<1>2. \A x \in S : (\A y \in S : x >= y) => x = m
  BY <1>1
<1>3. \A y \in S : m >= y
  BY <1>1
<1> QED
  BY <1>2, <1>3 DEF Max

\* A function that folds the events with indices in a set, from the largest down.
Folding(g, n, cat, q) ==
    g = [s \in SUBSET (1..n) |->
            IF s = {} THEN Done(cat)
            ELSE ApplyCatalogEvent(g[s \ {Max(s)}], q[Max(s)])]

LEMMA FoldingExtends ==
  ASSUME NEW n \in Nat, NEW cat, NEW q, NEW g, Folding(g, n, cat, q)
  PROVE  \E h : Folding(h, n + 1, cat, q)
<1> DEFINE m == n + 1
           h == [s \in SUBSET (1..m) |->
                    IF m \in s THEN ApplyCatalogEvent(g[s \ {m}], q[m]) ELSE g[s]]
           Value(s) == IF s = {} THEN Done(cat)
                       ELSE ApplyCatalogEvent(h[s \ {Max(s)}], q[Max(s)])
<1> SUFFICES ASSUME NEW s \in SUBSET (1..m)
             PROVE  h[s] = Value(s)
  <2>1. h = [s \in SUBSET (1..m) |-> h[s]]
    OBVIOUS
  <2>2. ASSUME \A s \in SUBSET (1..m) : h[s] = Value(s)
        PROVE  h = [s \in SUBSET (1..m) |-> Value(s)]
    <3> HIDE DEF h, Value
    <3> QED
      BY <2>1, <2>2
  <2>3. ASSUME \A s \in SUBSET (1..m) : h[s] = Value(s)
        PROVE  Folding(h, m, cat, q)
    BY <2>2, <2>3, Zenon DEF Folding
  <2> HIDE DEF h, Value
  <2> QED
    BY <2>3
<1>1. CASE m \in s
  <2>1. Max(s) = m
    BY <1>1, LargestOf
  <2>2. s \ {m} \in SUBSET (1..m) /\ m \notin s \ {m} /\ s # {}
    BY <1>1
  <2>3. h[s \ {m}] = g[s \ {m}] /\ h[s] = ApplyCatalogEvent(g[s \ {m}], q[m])
    BY <1>1, <2>2
  <2> HIDE DEF h
  <2> QED
    BY <2>1, <2>2, <2>3
<1>2. CASE m \notin s
  <2>1. s \in SUBSET (1..n)
    <3>1. \A x \in s : x \in 1..m /\ x # m
      BY <1>2
    <3>2. \A x \in 1..m : x # m => x \in 1..n
      OBVIOUS
    <3> QED
      BY <3>1, <3>2
  <2>2. h[s] = g[s]
    BY <1>2
  <2>3. \A x : s \ {x} \in SUBSET (1..m) /\ m \notin s \ {x}
    BY <1>2
  <2>4. \A x : h[s \ {x}] = g[s \ {x}]
    BY <2>3
  <2>5. g[s] = IF s = {} THEN Done(cat) ELSE ApplyCatalogEvent(g[s \ {Max(s)}], q[Max(s)])
    BY <2>1 DEF Folding
  <2> HIDE DEF h
  <2> QED
    BY <2>2, <2>4, <2>5
<1> QED
  BY <1>1, <1>2

LEMMA FoldingExists ==
  ASSUME NEW n \in Nat, NEW cat, NEW q
  PROVE  \E g : Folding(g, n, cat, q)
<1> DEFINE Fails == {k \in Nat : ~\E g : Folding(g, k, cat, q)}
<1> SUFFICES ASSUME Fails # {}
             PROVE  FALSE
  OBVIOUS
<1>1. PICK k \in Fails : \A j \in Fails : k <= j
  BY Least
<1>2. k \in Nat /\ ~\E g : Folding(g, k, cat, q)
  OBVIOUS
<1>3. k # 0
  <2> DEFINE g == [s \in SUBSET (1..0) |-> Done(cat)]
  <2>1. \A s \in SUBSET (1..0) : s = {}
    OBVIOUS
  <2>2. Folding(g, 0, cat, q)
    BY <2>1 DEF Folding
  <2> QED
    BY <1>2, <2>2
<1>4. k - 1 \in Nat /\ k - 1 \notin Fails
  BY <1>1, <1>2, <1>3
<1>5. PICK g : Folding(g, k - 1, cat, q)
  BY <1>4
<1>6. \E h : Folding(h, (k - 1) + 1, cat, q)
  BY <1>4, <1>5, FoldingExtends
<1> QED
  BY <1>2, <1>6

LEMMA EventsFold ==
  ASSUME NEW q \in Seq(MasterEvents), NEW cat
  PROVE  \E g : Folding(g, Len(q), cat, q) /\ ApplyCatalogEvents(cat, q) = g[1..Len(q)]
<1> DEFINE n == Len(q)
           it == CHOOSE g : Folding(g, n, cat, q)
<1>1. DOMAIN q = 1..n /\ n \in Nat
  OBVIOUS
<1>2. Folding(it, n, cat, q)
  BY <1>1, FoldingExists
<1>3. ApplyCatalogEvents(cat, q) = it[1..n]
  BY <1>1 DEF ApplyCatalogEvents, FoldLeft, MapThenFoldSet, Folding
<1> QED
  BY <1>2, <1>3

LEMMA EventsRun ==
  ASSUME NEW q \in Seq(MasterEvents), NEW cat
  PROVE  \E g : Run(g, cat, q) /\ ApplyCatalogEvents(cat, q) = g[Len(q)]
<1> DEFINE n == Len(q)
<1>1. n \in Nat
  OBVIOUS
<1>2. PICK f : Folding(f, n, cat, q) /\ ApplyCatalogEvents(cat, q) = f[1..n]
  BY EventsFold
<1> DEFINE g == [k \in 0..n |-> f[1..k]]
<1>3. g[n] = f[1..n] /\ g[0] = f[1..0]
  BY <1>1
<1>4. f[1..0] = Done(cat)
  <2>1. 1..0 = {} /\ 1..0 \in SUBSET (1..n)
    BY <1>1
  <2> QED
    BY <1>2, <2>1 DEF Folding
<1>5. ASSUME NEW k \in 1..n
      PROVE  g[k] = ApplyCatalogEvent(g[k - 1], q[k])
  <2>1. k \in Nat /\ k \in 1..k /\ k <= n
    BY <1>1
  <2>11. \A x \in 1..k : x \in 1..n /\ x <= k /\ x \in Nat
    BY <1>1, <2>1
  <2>2. Max(1..k) = k
    BY <2>1, <2>11, LargestOf
  <2>3. (1..k) \ {k} = 1..(k - 1)
    BY <2>1
  <2>4. f[1..k] = ApplyCatalogEvent(f[1..(k - 1)], q[k])
    BY <1>2, <2>1, <2>11, <2>2, <2>3 DEF Folding
  <2>5. g[k] = f[1..k] /\ g[k - 1] = f[1..(k - 1)]
    BY <1>1
  <2> QED
    BY <2>4, <2>5
<1> HIDE DEF g
<1>6. Run(g, cat, q)
  BY <1>3, <1>4, <1>5 DEF Run
<1> QED
  BY <1>2, <1>3, <1>6

LEMMA RunsAgree ==
  ASSUME NEW q \in Seq(MasterEvents), NEW r, NEW cat, NEW g, NEW h, Run(g, cat, q), Run(h, cat, r),
         NEW n \in Nat, n <= Len(q), n <= Len(r), Len(r) \in Nat, \A k \in 1..n : r[k] = q[k]
  PROVE  g[n] = h[n]
<1> DEFINE Differ == {k \in 0..n : g[k] # h[k]}
<1>0. Len(q) \in Nat
  OBVIOUS
<1> SUFFICES ASSUME Differ # {}
             PROVE  FALSE
  OBVIOUS
<1>00. Differ \subseteq Nat
  OBVIOUS
<1>1. PICK k \in Differ : \A j \in Differ : k <= j
  BY <1>00, Least
<1>2. k \in 0..n /\ g[k] # h[k]
  OBVIOUS
<1>3. k # 0
  BY <1>2 DEF Run
<1>4. k - 1 \in 0..n /\ k - 1 \notin Differ /\ k \in 1..Len(q) /\ k \in 1..Len(r) /\ k \in 1..n
  BY <1>0, <1>1, <1>2, <1>3
<1>5. g[k - 1] = h[k - 1]
  BY <1>4
<1>6. g[k] = ApplyCatalogEvent(g[k - 1], q[k]) /\ h[k] = ApplyCatalogEvent(h[k - 1], q[k])
  BY <1>4 DEF Run
<1> QED
  BY <1>2, <1>5, <1>6

\* No event leaves the catalog as it is.
LEMMA NoEvents ==
  ASSUME NEW cat
  PROVE  ApplyCatalogEvents(cat, << >>) = Done(cat)
<1>1. << >> \in Seq(MasterEvents) /\ Len(<< >>) = 0
  OBVIOUS
<1>2. PICK g : Run(g, cat, << >>) /\ ApplyCatalogEvents(cat, << >>) = g[Len(<< >>)]
  BY <1>1, EventsRun
<1> QED
  BY <1>1, <1>2 DEF Run

\* One more event is applied to what the earlier ones left.
LEMMA OneMoreEvent ==
  ASSUME NEW q \in Seq(MasterEvents), NEW e \in MasterEvents, NEW cat
  PROVE  ApplyCatalogEvents(cat, Append(q, e)) = ApplyCatalogEvent(ApplyCatalogEvents(cat, q), e)
<1> DEFINE r == Append(q, e)
           n == Len(q)
<1>1. n \in Nat /\ r \in Seq(MasterEvents) /\ Len(r) = n + 1 /\ r[n + 1] = e
      /\ \A k \in 1..n : r[k] = q[k]
  OBVIOUS
<1> HIDE DEF r
<1>2. PICK g : Run(g, cat, q) /\ ApplyCatalogEvents(cat, q) = g[n]
  BY EventsRun
<1>3. PICK h : Run(h, cat, r) /\ ApplyCatalogEvents(cat, r) = h[n + 1]
  BY <1>1, EventsRun
<1>4. h[n + 1] = ApplyCatalogEvent(h[(n + 1) - 1], e)
  BY <1>1, <1>3 DEF Run
<1>5. g[n] = h[n]
  BY <1>1, <1>2, <1>3, RunsAgree
<1>6. (n + 1) - 1 = n
  BY <1>1
<1> QED
  BY <1>2, <1>3, <1>4, <1>5, <1>6 DEF r

---------------------------------------------------------------------------
(* Workers keep their revision, and the catalog follows the master *)

HolderLike(h) ==
    /\ DOMAIN h = {"instance_id", "generation_id", "lifecycle"}
    /\ h.instance_id \in Ids /\ h.generation_id = h.instance_id

SupLike(u) == DOMAIN u = Roles /\ \A role \in Roles : HolderLike(u[role])

SlotLike(w) ==
    DOMAIN w = {"id", "pending", "deadline", "state", "open", "reported"} /\ w.id \in Ids

Runs(p) == p.run \in {"live", "leaving"}

\* p is worker q some time later: no worker changes its revision or comes back.
Later(q, p) ==
    /\ DOMAIN p = {"run", "revision", "linked", "startup", "gate", "handle", "inbox", "outbox"}
    /\ p.revision = q.revision
    /\ Runs(p) => Runs(q)

\* A master whose workers are those of b some time later.
Shaped(s, b) ==
    /\ IsRecord(s) /\ s.events \in Seq(MasterEvents)
    /\ SupLike(s.sup)
    /\ DOMAIN s.slot = Roles /\ \A role \in Roles : SlotLike(s.slot[role])
    /\ DOMAIN s.proc = InstanceIds /\ \A i \in InstanceIds : Later(b[i], s.proc[i])

\* A catalog whose active and candidate documents bind the listeners L.
CatLike(c, L) ==
    /\ DOMAIN c = {"doc", "next", "high", "consumed"} /\ DOMAIN c.doc = CatalogRoles
    /\ \A role \in CatalogRoles : c.doc[role].generation_id = c.doc[role].instance_id
    /\ c.doc["Active"].revision \in Revisions /\ ListenersOf[c.doc["Active"].revision] = L
    /\ c.doc["Candidate"] # NoDocument =>
          /\ c.doc["Candidate"].revision \in Revisions
          /\ ListenersOf[c.doc["Candidate"].revision] = L

\* What a reply r of the catalog says of the roles of the master.
Linked(s, r) ==
    ~s.err /\ r.ok =>
        /\ s.stage \in {"BootAdopting", "BootActivating"} =>
              /\ r.cat.doc["Active"].instance_id = s.slot["active"].id
              /\ r.cat.doc["Candidate"] = NoDocument
        /\ s.stage = "Operational" =>
              /\ r.cat.doc["Active"].instance_id = s.sup.active.instance_id
              /\ r.cat.doc["Candidate"] # NoDocument =>
                    /\ r.cat.doc["Candidate"].instance_id = s.sup.candidate.instance_id
                    /\ s.sup.candidate.lifecycle # "Stopping"

Reply(s, cat) == ApplyCatalogEvents(cat, s.events)

\* The catalog cat, once it has taken the events of s, follows s if on.
Tied(s, b, cat, on, L) ==
    /\ Shaped(s, b) /\ CatLike(Reply(s, cat).cat, L)
    /\ on => Linked(s, Reply(s, cat))

LEMMA TiedLoosely ==
  ASSUME NEW s, NEW b, NEW cat, NEW on, NEW L, Tied(s, b, cat, on, L)
  PROVE  Tied(s, b, cat, FALSE, L)
  BY DEF Tied

\* What the links depend on is kept.
LEMMA SameTied ==
  ASSUME NEW s, NEW t, NEW b, NEW cat, NEW on, NEW L, Tied(s, b, cat, on, L),
         Shaped(t, b), t.events = s.events, t.stage = s.stage, s.err => t.err,
         t.sup.active.instance_id = s.sup.active.instance_id, t.sup.candidate = s.sup.candidate,
         t.slot["active"].id = s.slot["active"].id
  PROVE  Tied(t, b, cat, on, L)
<1>1. Reply(t, cat) = Reply(s, cat)
  BY DEF Reply
<1>2. ASSUME Linked(s, Reply(s, cat)) PROVE Linked(t, Reply(s, cat))
  BY <1>2 DEF Linked
<1> QED
  BY <1>1, <1>2 DEF Tied

\* A master that is neither starting nor operational has no links.
LEMMA StoppedTied ==
  ASSUME NEW s, NEW t, NEW b, NEW cat, NEW on, NEW L, Tied(s, b, cat, FALSE, L),
         Shaped(t, b), t.events = s.events,
         t.err \/ t.stage \notin {"BootAdopting", "BootActivating", "Operational"}
  PROVE  Tied(t, b, cat, on, L)
<1>1. Reply(t, cat) = Reply(s, cat)
  BY DEF Reply
<1>2. Linked(t, Reply(s, cat))
  BY DEF Linked
<1> QED
  BY <1>1, <1>2 DEF Tied

LEMMA QuietShaped ==
  ASSUME NEW s, NEW t, NEW b, Shaped(s, b), IsRecord(t), t.events = s.events, t.sup = s.sup,
         t.slot = s.slot, t.proc = s.proc
  PROVE  Shaped(t, b)
  BY DEF Shaped

LEMMA FailTied ==
  ASSUME NEW s, NEW b, NEW cat, NEW on, NEW L, Tied(s, b, cat, FALSE, L)
  PROVE  Tied(Fail(s), b, cat, on, L) /\ Fail(s).err
<1> DEFINE t == Fail(s)
<1>1. Shaped(s, b) /\ IsRecord(s)
  BY DEF Tied, Shaped
<1>2. Upd(s, t, {"err"}) /\ t.err
  BY <1>1 DEF Fail, Upd, IsRecord, Fields
<1> HIDE DEF t
<1>3. /\ IsRecord(t) /\ t.events = s.events /\ t.sup = s.sup /\ t.slot = s.slot /\ t.proc = s.proc
  BY <1>2 DEF Upd, Fields
<1>4. Shaped(t, b)
  BY <1>1, <1>3, QuietShaped
<1>5. Tied(t, b, cat, on, L)
  BY <1>2, <1>3, <1>4, StoppedTied
<1> QED
  BY <1>2, <1>5 DEF t

\* One slot, one worker changed.
LEMMA SlotShaped ==
  ASSUME NEW s, NEW t, NEW b, NEW role, NEW w, Shaped(s, b), IsRecord(t),
         t.events = s.events, t.sup = s.sup, t.proc = s.proc,
         t.slot = [s.slot EXCEPT ![role] = w], role \in Roles => SlotLike(w)
  PROVE  Shaped(t, b)
  BY DEF Shaped

LEMMA ProcShaped ==
  ASSUME NEW s, NEW t, NEW b, NEW i, NEW p, Shaped(s, b), IsRecord(t),
         t.events = s.events, t.sup = s.sup, t.slot = s.slot,
         t.proc = [s.proc EXCEPT ![i] = p], i \in InstanceIds => Later(b[i], p)
  PROVE  Shaped(t, b)
  BY DEF Shaped

LEMMA NoSlotLike == SlotLike(NoSlot) /\ NoSlot.id = NoInstance
  BY DEF SlotLike, NoSlot, NewSlot, Ids

LEMMA NewSlotLike == ASSUME NEW i \in Ids PROVE SlotLike(NewSlot(i)) /\ NewSlot(i).id = i
  BY DEF SlotLike, NewSlot

\* Changing fields of a slot other than id.
SlotTuned(w, v) == DOMAIN v = DOMAIN w /\ v.id = w.id

LEMMA TunedTied ==
  ASSUME NEW s, NEW t, NEW b, NEW cat, NEW on, NEW L, Tied(s, b, cat, on, L), NEW role \in Roles, NEW w,
         IsRecord(t), t.events = s.events, t.sup = s.sup, t.proc = s.proc, t.stage = s.stage,
         s.err => t.err, t.slot = [s.slot EXCEPT ![role] = w], SlotTuned(s.slot[role], w)
  PROVE  Tied(t, b, cat, on, L)
<1>1. Shaped(s, b) /\ SlotLike(s.slot[role]) /\ DOMAIN s.slot = Roles
  BY DEF Tied, Shaped
<1>2. SlotLike(w)
  BY <1>1 DEF SlotTuned, SlotLike
<1>3. Shaped(t, b)
  BY <1>1, <1>2, SlotShaped
<1>4. t.slot["active"].id = s.slot["active"].id
  BY <1>1 DEF SlotTuned
<1> QED
  BY <1>3, <1>4, SameTied

LEMMA QuietTied ==
  ASSUME NEW s, NEW t, NEW b, NEW cat, NEW on, NEW L, Tied(s, b, cat, on, L), IsRecord(t),
         t.events = s.events, t.sup = s.sup, t.proc = s.proc, t.slot = s.slot, t.stage = s.stage,
         s.err => t.err
  PROVE  Tied(t, b, cat, on, L)
<1>1. Shaped(t, b)
  BY QuietShaped DEF Tied
<1> QED
  BY <1>1, SameTied

LEMMA TakeTied ==
  ASSUME NEW s, NEW b, NEW cat, NEW on, NEW L, NEW role \in Roles, Tied(s, b, cat, on, L),
         on => role # "active" \/ s.stage \notin {"BootAdopting", "BootActivating"}
  PROVE  /\ Tied(TakeWorker(s, role), b, cat, on, L)
         /\ TakeWorker(s, role).stage = s.stage /\ TakeWorker(s, role).err = s.err
         /\ TakeWorker(s, role).sup = s.sup
<1> DEFINE t == TakeWorker(s, role)
<1>1. Shaped(s, b) /\ IsRecord(s) /\ DOMAIN s.slot = Roles
  BY DEF Tied, Shaped
<1>2. Upd(s, t, {"slot"}) /\ t.slot = [s.slot EXCEPT ![role] = NoSlot]
  BY <1>1 DEF TakeWorker, Upd, IsRecord, Fields
<1> HIDE DEF t
<1>3. /\ IsRecord(t) /\ t.events = s.events /\ t.sup = s.sup /\ t.proc = s.proc
      /\ t.stage = s.stage /\ t.err = s.err
  BY <1>2 DEF Upd, Fields
<1>4. Shaped(t, b)
  BY <1>1, <1>2, <1>3, NoSlotLike, SlotShaped
<1>5. Reply(t, cat) = Reply(s, cat)
  BY <1>3 DEF Reply
<1>6. role # "active" => t.slot["active"].id = s.slot["active"].id
  BY <1>1, <1>2
<1>7. ASSUME on, Linked(s, Reply(s, cat)) PROVE Linked(t, Reply(s, cat))
  BY <1>3, <1>6, <1>7 DEF Linked
<1>8. Tied(t, b, cat, on, L)
  BY <1>4, <1>5, <1>7 DEF Tied
<1> QED
  BY <1>3, <1>8 DEF t

LEMMA LaterKilled ==
  ASSUME NEW q, NEW p, NEW x, Later(q, p), x \in {p.run, "killed"}
  PROVE  Later(q, [p EXCEPT !.run = x])
  BY DEF Later, Runs

LEMMA LaterMail ==
  ASSUME NEW q, NEW p, NEW x, Later(q, p)
  PROVE  Later(q, [p EXCEPT !.inbox = x]) /\ Later(q, [p EXCEPT !.outbox = x])
  BY DEF Later, Runs

LEMMA ForceTied ==
  ASSUME NEW s, NEW b, NEW cat, NEW on, NEW L, NEW role \in Roles, Tied(s, b, cat, on, L)
  PROVE  /\ Tied(ForceRole(s, role), b, cat, on, L)
         /\ ForceRole(s, role).sup = s.sup /\ ForceRole(s, role).stage = s.stage
<1>1. Shaped(s, b) /\ IsRecord(s) /\ DOMAIN s.slot = Roles /\ DOMAIN s.proc = InstanceIds
      /\ SlotLike(s.slot[role])
  BY DEF Tied, Shaped
<1>2. CASE s.slot[role].state = "Forced"
  BY <1>2 DEF ForceRole
<1>3. CASE s.slot[role].state # "Forced" /\ ~Present(s, role)
  <2>1. ForceRole(s, role) = Fail(s)
    BY <1>3 DEF ForceRole
  <2>2. Fail(s).sup = s.sup /\ Fail(s).stage = s.stage
    BY <1>1 DEF Fail, IsRecord, Fields
  <2> QED
    BY <2>1, <2>2, FailTied, TiedLoosely
<1>4. CASE s.slot[role].state # "Forced" /\ Present(s, role)
  <2> DEFINE i == s.slot[role].id
             w == [s.slot[role] EXCEPT !.pending = NoPending, !.state = "Forced"]
             p == [s.proc[i] EXCEPT !.run = IF @ = "gone" THEN @ ELSE "killed"]
             t == ForceRole(s, role)
             v == [s EXCEPT !.slot[role] = w]
  <2>1. /\ Upd(s, t, {"slot", "proc"}) /\ t.slot = [s.slot EXCEPT ![role] = w]
        /\ t.proc = [s.proc EXCEPT ![i] = p]
    BY <1>1, <1>4 DEF ForceRole, Upd, IsRecord, Fields
  <2>2. Upd(s, v, {"slot"}) /\ v.slot = [s.slot EXCEPT ![role] = w]
    BY <1>1 DEF Upd, IsRecord, Fields
  <2>3. SlotTuned(s.slot[role], w)
    BY <1>1 DEF SlotTuned, SlotLike
  <2>4. i \in InstanceIds => Later(b[i], p)
    <3>1. i \in InstanceIds => Later(b[i], s.proc[i])
      BY <1>1 DEF Shaped
    <3> QED
      BY <3>1, LaterKilled
  <2> HIDE DEF t, v, w, p
  <2>5. /\ IsRecord(t) /\ t.events = s.events /\ t.sup = s.sup /\ t.stage = s.stage /\ t.err = s.err
        /\ IsRecord(v) /\ v.events = s.events /\ v.sup = s.sup /\ v.stage = s.stage /\ v.err = s.err
        /\ v.proc = s.proc
    BY <2>1, <2>2 DEF Upd, Fields
  <2>6. Tied(v, b, cat, on, L)
    BY <2>2, <2>3, <2>5, TunedTied
  <2>7. Shaped(v, b)
    BY <2>6 DEF Tied
  <2>8. Shaped(t, b)
    <3>1. t.proc = [v.proc EXCEPT ![i] = p] /\ t.slot = v.slot
      BY <2>1, <2>2, <2>5
    <3> HIDE DEF i
    <3> QED
      BY <2>4, <2>5, <2>7, <3>1, ProcShaped
  <2>9. Tied(t, b, cat, on, L)
    BY <2>1, <2>2, <2>5, <2>6, <2>8, SameTied
  <2> QED
    BY <2>5, <2>9 DEF t
<1> QED
  BY <1>2, <1>3, <1>4

LEMMA ThenForceTied ==
  ASSUME NEW s, NEW b, NEW cat, NEW on, NEW L, NEW role \in Roles, Tied(s, b, cat, on, L)
  PROVE  /\ Tied(ThenForce(s, role), b, cat, on, L) /\ Tied(ForcePresent(s, role), b, cat, on, L)
         /\ ThenForce(s, role).sup = s.sup /\ ForcePresent(s, role).stage = s.stage
         /\ ForcePresent(s, role).sup = s.sup
         /\ ThenForce(s, role).stage = s.stage
  BY ForceTied DEF ThenForce, ForcePresent, Try

LEMMA ForceAllTied ==
  ASSUME NEW s, NEW b, NEW cat, NEW on, NEW L, Tied(s, b, cat, on, L)
  PROVE  Tied(ForceAll(s), b, cat, on, L) /\ ForceAll(s).stage = s.stage /\ ForceAll(s).sup = s.sup
<1> DEFINE u == ForcePresent(s, "active")
           v == ForcePresent(u, "candidate")
<1>0. "active" \in Roles /\ "candidate" \in Roles /\ "retired" \in Roles
  BY DEF Roles
<1>1. Tied(u, b, cat, on, L) /\ u.stage = s.stage /\ u.sup = s.sup
  BY <1>0, ThenForceTied
<1> HIDE DEF u
<1>2. Tied(v, b, cat, on, L) /\ v.stage = s.stage /\ v.sup = s.sup
  BY <1>0, <1>1, ThenForceTied
<1> HIDE DEF v
<1>3. Tied(ForcePresent(v, "retired"), b, cat, on, L) /\ ForcePresent(v, "retired").stage = s.stage
      /\ ForcePresent(v, "retired").sup = s.sup
  BY <1>0, <1>2, ThenForceTied
<1> QED
  BY <1>3 DEF ForceAll, u, v

LEMMA FailMasterTied ==
  ASSUME NEW s, NEW b, NEW cat, NEW on, NEW L, Tied(s, b, cat, FALSE, L)
  PROVE  /\ Tied(FailMaster(s), b, cat, on, L) /\ FailMaster(s).stage \in {"Failing", "Failed"}
         /\ FailMaster(s).sup = s.sup
<1>0. Shaped(s, b) /\ IsRecord(s) /\ DOMAIN s.slot = Roles /\ SlotLike(s.slot["active"])
  BY DEF Tied, Shaped, Roles
<1>1. CASE s.stage = "Failed"
  <2>1. Tied(s, b, cat, on, L)
    BY <1>0, <1>1, StoppedTied
  <2> QED
    BY <1>1, <2>1 DEF FailMaster
<1>2. CASE s.stage # "Failed"
  <2> DEFINE w == IF s.deferred THEN NoSlot ELSE s.slot["active"]
             u == [s EXCEPT !.stage = "Failing", !.deferred = FALSE,
                            !.slot["active"] = IF s.deferred THEN NoSlot ELSE @]
  <2>1. FailMaster(s) = ForceAll(u)
    BY <1>2 DEF FailMaster
  <2>2. /\ Upd(s, u, {"stage", "deferred", "slot"}) /\ u.stage = "Failing"
        /\ u.slot = [s.slot EXCEPT !["active"] = w]
    BY <1>0 DEF Upd, IsRecord, Fields
  <2>3. SlotLike(w)
    BY <1>0, NoSlotLike
  <2> HIDE DEF u, w
  <2>4. IsRecord(u) /\ u.events = s.events /\ u.sup = s.sup /\ u.proc = s.proc
    BY <2>2 DEF Upd, Fields
  <2>5. Shaped(u, b)
    BY <1>0, <2>2, <2>3, <2>4, SlotShaped
  <2>6. Tied(u, b, cat, on, L)
    BY <2>2, <2>4, <2>5, StoppedTied
  <2> QED
    BY <2>1, <2>2, <2>4, <2>6, ForceAllTied
<1> QED
  BY <1>1, <1>2

LEMMA IssuedTied ==
  ASSUME NEW s, NEW b, NEW cat, NEW on, NEW L, NEW role \in Roles, NEW phase, Tied(s, b, cat, on, L)
  PROVE  /\ Tied(Issued(s, role, phase), b, cat, on, L)
         /\ Issued(s, role, phase).err = s.err /\ Issued(s, role, phase).stage = s.stage
         /\ Issued(s, role, phase).sup = s.sup
<1>1. Shaped(s, b) /\ IsRecord(s) /\ DOMAIN s.slot = Roles /\ DOMAIN s.proc = InstanceIds
      /\ SlotLike(s.slot[role])
  BY DEF Tied, Shaped
<1> DEFINE i == s.slot[role].id
           request == [req |-> s.nextReq, phase |-> phase]
           w == [s.slot[role] EXCEPT !.pending = request]
           p == [s.proc[i] EXCEPT !.inbox = Append(@, request)]
           t == Issued(s, role, phase)
           v == [s EXCEPT !.slot[role] = w]
<1>2. /\ Upd(s, t, {"slot", "proc", "nextReq", "sends"}) /\ t.slot = [s.slot EXCEPT ![role] = w]
      /\ t.proc = [s.proc EXCEPT ![i] = p]
  BY <1>1 DEF Issued, Upd, IsRecord, Fields
<1>3. Upd(s, v, {"slot"}) /\ v.slot = [s.slot EXCEPT ![role] = w]
  BY <1>1 DEF Upd, IsRecord, Fields
<1>4. SlotTuned(s.slot[role], w)
  BY <1>1 DEF SlotTuned, SlotLike
<1>5. i \in InstanceIds => Later(b[i], p)
  <2>1. i \in InstanceIds => Later(b[i], s.proc[i])
    BY <1>1 DEF Shaped
  <2> QED
    BY <2>1, LaterMail
<1> HIDE DEF t, v, w, p
<1>6. /\ IsRecord(t) /\ t.events = s.events /\ t.sup = s.sup /\ t.stage = s.stage /\ t.err = s.err
      /\ IsRecord(v) /\ v.events = s.events /\ v.sup = s.sup /\ v.stage = s.stage /\ v.err = s.err
      /\ v.proc = s.proc
  BY <1>2, <1>3 DEF Upd, Fields
<1>7. Tied(v, b, cat, on, L)
  BY <1>3, <1>4, <1>6, TunedTied
<1>8. Shaped(v, b)
  BY <1>7 DEF Tied
<1>9. t.proc = [v.proc EXCEPT ![i] = p] /\ t.slot = v.slot
  BY <1>2, <1>3, <1>6
<1> HIDE DEF i
<1>10. Shaped(t, b)
  BY <1>5, <1>6, <1>8, <1>9, ProcShaped
<1>11. Tied(t, b, cat, on, L)
  BY <1>6, <1>7, <1>9, <1>10, SameTied
<1> QED
  BY <1>6, <1>11 DEF t

LEMMA NotIssuedTied ==
  ASSUME NEW s, NEW b, NEW cat, NEW on, NEW L, Tied(s, b, cat, on, L)
  PROVE  /\ Tied(NotIssued(s), b, cat, on, L) /\ NotIssued(s).err = s.err
         /\ NotIssued(s).stage = s.stage /\ NotIssued(s).sup = s.sup
<1> DEFINE t == NotIssued(s)
<1>1. IsRecord(s)
  BY DEF Tied, Shaped
<1>2. Upd(s, t, {"nextReq", "sends"})
  BY <1>1 DEF NotIssued, Upd, IsRecord, Fields
<1> HIDE DEF t
<1>3. /\ IsRecord(t) /\ t.events = s.events /\ t.sup = s.sup /\ t.slot = s.slot /\ t.proc = s.proc
      /\ t.stage = s.stage /\ t.err = s.err
  BY <1>2 DEF Upd, Fields
<1>4. Tied(t, b, cat, on, L)
  BY <1>3, QuietTied
<1> QED
  BY <1>3, <1>4 DEF t

---------------------------------------------------------------------------
(* Events, and the answers of the replacement supervisor *)

Ended == {"SpawnFailed", "RollbackStarted"}

Finished == {"ReplacementCompleted", "RollbackCompleted"}

LEMMA EventStep ==
  ASSUME NEW r, NEW e \in MasterEvents, NEW L, CatLike(r.cat, L), NEW v, v = ApplyCatalogEvent(r, e)
  PROVE  /\ CatLike(v.cat, L) /\ (v.ok => r.ok)
         /\ v.ok /\ e.kind \in Ended =>
               /\ v.cat.doc["Active"] = r.cat.doc["Active"] /\ v.cat.doc["Candidate"] = NoDocument
         /\ v.ok /\ e.kind = "ReplacementCommitted" =>
               /\ v.cat.doc["Active"].instance_id = e.id /\ v.cat.doc["Candidate"] = NoDocument
         /\ v.ok /\ e.kind \in Finished => v = r
<1> DEFINE cat == r.cat
<1>0. /\ DOMAIN cat = {"doc", "next", "high", "consumed"} /\ DOMAIN cat.doc = CatalogRoles
      /\ "Active" \in CatalogRoles /\ "Candidate" \in CatalogRoles
      /\ NoDocument.generation_id = NoDocument.instance_id
  BY IdTypes, RunnerAssumption DEF CatLike, CatalogRoles, NoDocument, Document
<1>1. CASE ~r.ok
  BY <1>1 DEF ApplyCatalogEvent
<1>2. CASE r.ok /\ e.kind \in Ended
  <2>1. \/ v = Refused(cat)
        \/ cat.doc["Candidate"] # NoDocument /\
           v = Done([cat EXCEPT !.doc["Quarantined"] = cat.doc["Candidate"],
                                !.doc["Candidate"] = NoDocument])
    BY <1>2 DEF ApplyCatalogEvent, Ended, QuarantineCandidate, Expected
  <2>2. CASE v = Refused(cat)
    BY <2>2, <1>2 DEF Refused
  <2>3. CASE /\ cat.doc["Candidate"] # NoDocument
             /\ v = Done([cat EXCEPT !.doc["Quarantined"] = cat.doc["Candidate"],
                                     !.doc["Candidate"] = NoDocument])
    <3> DEFINE d == [[cat.doc EXCEPT !["Quarantined"] = cat.doc["Candidate"]]
                        EXCEPT !["Candidate"] = NoDocument]
    <3> DEFINE n == [cat EXCEPT !.doc["Quarantined"] = cat.doc["Candidate"],
                                    !.doc["Candidate"] = NoDocument]
    <3>0. n.doc = d /\ DOMAIN n = DOMAIN cat
      BY <1>0
    <3> HIDE DEF n
    <3>1. v.ok /\ v.cat.doc = d /\ DOMAIN v.cat = DOMAIN cat
      <4>1. v = Done(n)
        BY <2>3 DEF n
      <4>2. v.ok /\ v.cat = n
        BY <4>1 DEF Done
      <4> QED
        BY <3>0, <4>2
    <3>2. /\ DOMAIN d = CatalogRoles /\ d["Candidate"] = NoDocument
          /\ d["Active"] = cat.doc["Active"]
          /\ \A role \in CatalogRoles : d[role] \in {cat.doc[role], cat.doc["Candidate"], NoDocument}
      BY <1>0
    <3> HIDE DEF d
    <3>3. CatLike(v.cat, L)
      BY <1>0, <3>1, <3>2 DEF CatLike
    <3> QED
      BY <1>2, <3>1, <3>2, <3>3 DEF Ended, Finished
  <2> QED
    BY <2>1, <2>2, <2>3
<1>3. CASE r.ok /\ e.kind = "ReplacementCommitted"
  <2>1. \/ v = Refused(cat)
        \/ /\ cat.doc["Candidate"] # NoDocument /\ cat.doc["Candidate"].instance_id = e.id
           /\ v = Done([cat EXCEPT !.doc["Active"] = cat.doc["Candidate"],
                                   !.doc["Previous"] = cat.doc["Active"],
                                   !.doc["Candidate"] = NoDocument])
    BY <1>3 DEF ApplyCatalogEvent, CommitCatalogCandidate, Expected
  <2>2. CASE v = Refused(cat)
    BY <2>2, <1>3 DEF Refused
  <2>3. CASE /\ cat.doc["Candidate"] # NoDocument /\ cat.doc["Candidate"].instance_id = e.id
             /\ v = Done([cat EXCEPT !.doc["Active"] = cat.doc["Candidate"],
                                     !.doc["Previous"] = cat.doc["Active"],
                                     !.doc["Candidate"] = NoDocument])
    <3> DEFINE d == [[[cat.doc EXCEPT !["Active"] = cat.doc["Candidate"]]
                        EXCEPT !["Previous"] = cat.doc["Active"]] EXCEPT !["Candidate"] = NoDocument]
    <3> DEFINE n == [cat EXCEPT !.doc["Active"] = cat.doc["Candidate"],
                                    !.doc["Previous"] = cat.doc["Active"],
                                    !.doc["Candidate"] = NoDocument]
    <3>0. n.doc = d /\ DOMAIN n = DOMAIN cat
      BY <1>0
    <3> HIDE DEF n
    <3>1. v.ok /\ v.cat.doc = d /\ DOMAIN v.cat = DOMAIN cat
      <4>1. v = Done(n)
        BY <2>3 DEF n
      <4>2. v.ok /\ v.cat = n
        BY <4>1 DEF Done
      <4> QED
        BY <3>0, <4>2
    <3>2. /\ DOMAIN d = CatalogRoles /\ d["Candidate"] = NoDocument
          /\ d["Active"] = cat.doc["Candidate"]
          /\ \A role \in CatalogRoles :
                d[role] \in {cat.doc[role], cat.doc["Candidate"], cat.doc["Active"], NoDocument}
      BY <1>0
    <3> HIDE DEF d
    <3>3. CatLike(v.cat, L)
      BY <1>0, <2>3, <3>1, <3>2 DEF CatLike
    <3> QED
      BY <1>3, <2>3, <3>1, <3>2, <3>3 DEF Ended, Finished
  <2> QED
    BY <2>1, <2>2, <2>3
<1>4. CASE r.ok /\ e.kind \in Finished
  <2>1. v = Refused(cat) \/ v = r
    BY <1>4 DEF ApplyCatalogEvent, Finished
  <2> QED
    BY <1>4, <2>1 DEF Refused, Finished, Ended
<1>5. e.kind \in Ended \cup {"ReplacementCommitted"} \cup Finished
  BY DEF MasterEvents, EventKinds, Ended, Finished
<1> QED
  BY <1>1, <1>2, <1>3, <1>4, <1>5

LEMMA EmitShaped ==
  ASSUME NEW s, NEW b, NEW cat, NEW kind \in EventKinds, NEW i \in Ids, NEW j \in Ids, Shaped(s, b)
  PROVE  /\ Upd(s, Emit(s, kind, i, j), {"events"}) /\ Shaped(Emit(s, kind, i, j), b)
         /\ \E e \in MasterEvents :
               /\ e.kind = kind /\ e.id = i
               /\ Reply(Emit(s, kind, i, j), cat) = ApplyCatalogEvent(Reply(s, cat), e)
<1> DEFINE e == [kind |-> kind, id |-> i, other |-> j]
           t == Emit(s, kind, i, j)
<1>1. Upd(s, t, {"events"}) /\ t.events = Append(s.events, e) /\ s.events \in Seq(MasterEvents)
  BY DEF Emit, Upd, IsRecord, Fields, Shaped
<1>2. e \in MasterEvents /\ e.kind = kind /\ e.id = i
  BY DEF MasterEvents
<1> HIDE DEF e, t
<1>3. t.events \in Seq(MasterEvents)
  BY <1>1, <1>2
<1>4. IsRecord(t) /\ t.sup = s.sup /\ t.slot = s.slot /\ t.proc = s.proc
  BY <1>1 DEF Upd, Fields
<1>5. Shaped(t, b)
  BY <1>3, <1>4 DEF Shaped
<1>6. Reply(t, cat) = ApplyCatalogEvent(Reply(s, cat), e)
  BY <1>1, <1>2, OneMoreEvent DEF Reply
<1> QED
  BY <1>1, <1>2, <1>5, <1>6 DEF t

LEMMA EmitTied ==
  ASSUME NEW s, NEW b, NEW cat, NEW on, NEW L, NEW kind \in Ended \cup Finished, NEW i \in Ids,
         Tied(s, b, cat, on, L), NEW t, t = Emit(s, kind, i, NoInstance)
  PROVE  /\ Tied(t, b, cat, on, L)
         /\ t.stage = s.stage /\ t.err = s.err /\ t.sup = s.sup /\ t.slot = s.slot
         /\ t.deferred = s.deferred
         /\ kind \in Ended /\ Reply(t, cat).ok =>
               /\ Reply(t, cat).cat.doc["Active"] = Reply(s, cat).cat.doc["Active"]
               /\ Reply(t, cat).cat.doc["Candidate"] = NoDocument
<1>0. kind \in EventKinds /\ NoInstance \in Ids
  BY DEF EventKinds, Ended, Finished, Ids
<1>1. Shaped(s, b) /\ CatLike(Reply(s, cat).cat, L)
  BY DEF Tied
<1>11. PICK e \in MasterEvents :
           /\ e.kind = kind /\ Reply(t, cat) = ApplyCatalogEvent(Reply(s, cat), e)
           /\ Upd(s, t, {"events"}) /\ Shaped(t, b)
  BY <1>0, <1>1, EmitShaped
<1>2. /\ CatLike(Reply(t, cat).cat, L)
      /\ Reply(t, cat).ok => Reply(s, cat).ok
      /\ Reply(t, cat).ok /\ kind \in Ended =>
            /\ Reply(t, cat).cat.doc["Active"] = Reply(s, cat).cat.doc["Active"]
            /\ Reply(t, cat).cat.doc["Candidate"] = NoDocument
      /\ Reply(t, cat).ok /\ kind \in Finished => Reply(t, cat) = Reply(s, cat)
  BY <1>1, <1>11, EventStep
<1>3. /\ t.stage = s.stage /\ t.err = s.err /\ t.sup = s.sup /\ t.slot = s.slot
      /\ t.deferred = s.deferred
  BY <1>11 DEF Upd, Fields
<1>4. ASSUME Linked(s, Reply(s, cat)) PROVE Linked(t, Reply(t, cat))
  BY <1>2, <1>3, <1>4 DEF Linked
<1> QED
  BY <1>11, <1>2, <1>3, <1>4 DEF Tied

\* A move of the supervisor that keeps the active instance, and the candidate unless it is stopping.
Mild(u, v) ==
    /\ SupLike(v) /\ v.active.instance_id = u.active.instance_id
    /\ \/ u.candidate.lifecycle = "Stopping"
       \/ /\ v.candidate.instance_id = u.candidate.instance_id
          /\ v.candidate.lifecycle # "Stopping"

LEMMA MovedLike ==
  ASSUME NEW u, SupLike(u), NEW role \in Roles, NEW l
  PROVE  /\ SupLike(Moved(u, role, l)) /\ Moved(u, role, l)[role].lifecycle = l
         /\ \A a \in Roles : Moved(u, role, l)[a].instance_id = u[a].instance_id
         /\ \A a \in Roles \ {role} : Moved(u, role, l)[a] = u[a]
  BY DEF SupLike, HolderLike, Moved

LEMMA VacantLike == HolderLike(Vacant) /\ Vacant.lifecycle # "Stopping" /\ Vacant.instance_id = NoInstance
  BY IdTypes DEF HolderLike, Vacant, Instance, Ids

LEMMA AnswersMild ==
  ASSUME NEW u, SupLike(u), NEW i
  PROVE  /\ Mild(u, u)
         /\ Mild(u, CandidateSpawned(u, i).sup) /\ Mild(u, CandidateHandshakeComplete(u, i).sup)
         /\ Mild(u, CandidatePrepared(u, i).sup) /\ Mild(u, CandidateStopped(u, i).sup)
         /\ Mild(u, ActiveQuiesced(u, i).sup) /\ Mild(u, ActiveReactivated(u, i).sup)
         /\ Mild(u, RetiredDrained(u, i).sup) /\ Mild(u, RetiredSnapshotCaptured(u, i).sup)
         /\ Mild(u, RetiredFailed(u, i).sup) /\ Mild(u, RetiredStopped(u, i).sup)
         /\ Mild(u, TerminationTimedOut(u, i).sup)
<1>0. "active" \in Roles /\ "candidate" \in Roles /\ "retired" \in Roles
  BY DEF Roles
<1>1. Mild(u, u)
  BY DEF Mild
<1>2. ASSUME NEW l, l # "Stopping" PROVE Mild(u, Moved(u, "candidate", l))
  BY <1>0, <1>2, MovedLike DEF Mild
<1>3. ASSUME NEW l PROVE Mild(u, Moved(u, "retired", l)) /\ Mild(u, Moved(u, "active", l))
  BY <1>0, MovedLike DEF Mild
<1>4. Mild(u, CandidateSpawned(u, i).sup) /\ Mild(u, CandidateHandshakeComplete(u, i).sup)
  BY <1>1, <1>2 DEF CandidateSpawned, CandidateHandshakeComplete, Accept, Reject
<1>5. Mild(u, CandidatePrepared(u, i).sup)
  <2> DEFINE ready == Moved(u, "candidate", "Ready")
  <2>1. Mild(u, ready) /\ SupLike(ready) /\ ready.candidate.lifecycle = "Ready"
        /\ ready.candidate.instance_id = u.candidate.instance_id
        /\ ready.active.instance_id = u.active.instance_id
    BY <1>0, <1>2, MovedLike
  <2>2. CandidatePrepared(u, i).sup \in {u, ready, Moved(ready, "active", "Quiescing")}
    BY DEF CandidatePrepared, Accept, Reject
  <2> HIDE DEF ready
  <2>3. Mild(u, Moved(ready, "active", "Quiescing"))
    BY <1>0, <2>1, MovedLike DEF Mild
  <2> QED
    BY <1>1, <2>1, <2>2, <2>3
<1>6. Mild(u, CandidateStopped(u, i).sup)
  <2> DEFINE v == [u EXCEPT !.candidate = Vacant]
  <2>1. SupLike(v) /\ v.active = u.active
    BY <1>0, VacantLike DEF SupLike
  <2>2. \/ CandidateStopped(u, i).sup = u
        \/ u.candidate.lifecycle = "Stopping" /\ CandidateStopped(u, i).sup = v
    BY DEF CandidateStopped, Accept, Reject, InState
  <2> HIDE DEF v
  <2> QED
    BY <1>1, <2>1, <2>2 DEF Mild
<1>7. Mild(u, ActiveQuiesced(u, i).sup) /\ Mild(u, ActiveReactivated(u, i).sup)
  BY <1>1, <1>2, <1>3 DEF ActiveQuiesced, ActiveReactivated, Accept, Reject
<1>8. Mild(u, RetiredDrained(u, i).sup) /\ Mild(u, RetiredSnapshotCaptured(u, i).sup)
      /\ Mild(u, RetiredFailed(u, i).sup) /\ Mild(u, TerminationTimedOut(u, i).sup)
  BY <1>1, <1>3 DEF RetiredDrained, RetiredSnapshotCaptured, RetiredFailed, TerminationTimedOut, Accept,
                    Reject
<1>9. Mild(u, RetiredStopped(u, i).sup)
  <2> DEFINE v == [u EXCEPT !.retired = Vacant]
  <2>1. SupLike(v) /\ v.active = u.active /\ v.candidate = u.candidate
    BY <1>0, VacantLike DEF SupLike
  <2>2. RetiredStopped(u, i).sup \in {u, v}
    BY DEF RetiredStopped, Accept, Reject
  <2> HIDE DEF v
  <2> QED
    BY <1>1, <2>1, <2>2 DEF Mild
<1> QED
  BY <1>1, <1>4, <1>5, <1>6, <1>7, <1>8, <1>9

LEMMA AppliedPlain ==
  ASSUME NEW s, NEW answer, IsRecord(s)
  PROVE  /\ Applied(s, answer).sup = answer.sup /\ Applied(s, answer).err = ~answer.ok
         /\ Applied(s, answer).stage = s.stage
  BY DEF Applied, IsRecord, Fields

LEMMA AppliedFields ==
  ASSUME NEW s, NEW b, Shaped(s, b), NEW answer, SupLike(answer.sup)
  PROVE  /\ Upd(s, Applied(s, answer), {"sup", "err"}) /\ Shaped(Applied(s, answer), b)
         /\ Applied(s, answer).sup = answer.sup /\ Applied(s, answer).err = ~answer.ok
<1> DEFINE t == Applied(s, answer)
<1>1. IsRecord(s)
  BY DEF Shaped
<1>2. Upd(s, t, {"sup", "err"}) /\ t.sup = answer.sup /\ t.err = ~answer.ok
  BY <1>1 DEF Applied, Upd, IsRecord, Fields
<1> HIDE DEF t
<1>3. IsRecord(t) /\ t.slot = s.slot /\ t.proc = s.proc /\ t.events = s.events
  BY <1>2 DEF Upd, Fields
<1>4. Shaped(t, b)
  BY <1>2, <1>3 DEF Shaped
<1> QED
  BY <1>2, <1>4 DEF t

LEMMA AppliedTied ==
  ASSUME NEW s, NEW b, NEW cat, NEW on, NEW L, NEW answer, Tied(s, b, cat, on, L), ~s.err,
         \/ Mild(s.sup, answer.sup)
         \/ /\ SupLike(answer.sup) /\ answer.sup.active.instance_id = s.sup.active.instance_id
            /\ Reply(s, cat).ok => Reply(s, cat).cat.doc["Candidate"] = NoDocument
  PROVE  /\ Tied(Applied(s, answer), b, cat, on, L)
         /\ Applied(s, answer).stage = s.stage /\ Applied(s, answer).slot = s.slot
         /\ Applied(s, answer).sup = answer.sup /\ Applied(s, answer).err = ~answer.ok
<1> DEFINE t == Applied(s, answer)
<1>1. /\ Upd(s, t, {"sup", "err"}) /\ Shaped(t, b) /\ t.sup = answer.sup /\ t.err = ~answer.ok
  BY AppliedFields DEF Tied, Mild
<1> HIDE DEF t
<1>2. t.stage = s.stage /\ t.slot = s.slot /\ t.events = s.events
  BY <1>1 DEF Upd, Fields
<1>3. Reply(t, cat) = Reply(s, cat)
  BY <1>2 DEF Reply
<1>4. ASSUME Linked(s, Reply(s, cat)) PROVE Linked(t, Reply(s, cat))
  BY <1>1, <1>2, <1>4 DEF Linked, Mild
<1>5. Tied(t, b, cat, on, L)
  BY <1>1, <1>3, <1>4 DEF Tied
<1> QED
  BY <1>1, <1>2, <1>5 DEF t

---------------------------------------------------------------------------
(* Every function of the master keeps the ties *)

LEMMA FailureTied ==
  ASSUME NEW s, NEW b, NEW cat, NEW on, NEW L, NEW x, Tied(s, b, cat, on, L),
         NEW t, t = [s EXCEPT !.failure = x]
  PROVE  /\ Tied(t, b, cat, on, L) /\ t.stage = s.stage /\ t.err = s.err /\ t.sup = s.sup
         /\ t.slot = s.slot /\ t.deferred = s.deferred
<1>1. IsRecord(s)
  BY DEF Tied, Shaped
<1>2. Upd(s, t, {"failure"})
  BY <1>1 DEF Upd, IsRecord, Fields
<1>3. /\ IsRecord(t) /\ t.events = s.events /\ t.sup = s.sup /\ t.slot = s.slot /\ t.proc = s.proc
      /\ t.stage = s.stage /\ t.err = s.err /\ t.deferred = s.deferred
  BY <1>2 DEF Upd, Fields
<1> QED
  BY <1>3, QuietTied

LEMMA TiedFacts ==
  ASSUME NEW s, NEW b, NEW cat, NEW on, NEW L, Tied(s, b, cat, on, L)
  PROVE  /\ SupLike(s.sup) /\ IsRecord(s) /\ DOMAIN s.slot = Roles /\ DOMAIN s.proc = InstanceIds
         /\ \A role \in Roles : /\ SlotLike(s.slot[role]) /\ s.slot[role].id \in Ids
                                /\ s.sup[role].instance_id \in Ids
         /\ \A i \in InstanceIds : Later(b[i], s.proc[i])
  BY DEF Tied, Shaped, SlotLike, SupLike, HolderLike

LEMMA FailRetiredTied ==
  ASSUME NEW s, NEW b, NEW cat, NEW on, NEW L, Tied(s, b, cat, on, L), ~s.err
  PROVE  Tied(FailRetired(s), b, cat, on, L) /\ FailRetired(s).stage = s.stage
<1> DEFINE f == [s EXCEPT !.failure = TRUE]
           answer == RetiredFailed(s.sup, s.slot["retired"].id)
           a == Applied(f, answer)
<1>1. Tied(f, b, cat, on, L) /\ f.err = s.err /\ f.sup = s.sup /\ f.stage = s.stage
  BY FailureTied
<1>2. Mild(s.sup, answer.sup)
  BY TiedFacts, AnswersMild
<1>3. FailRetired(s) \in {Fail(s), ThenForce(a, "retired")}
  BY DEF FailRetired
<1>4. Tied(Fail(s), b, cat, on, L) /\ Fail(s).stage = s.stage
  <2>1. Fail(s).stage = s.stage
    BY TiedFacts DEF Fail, IsRecord, Fields
  <2> QED
    BY <2>1, TiedLoosely, FailTied
<1> HIDE DEF f, answer
<1>5. Tied(a, b, cat, on, L) /\ a.stage = s.stage
  BY <1>1, <1>2, AppliedTied
<1> HIDE DEF a
<1>6. Tied(ThenForce(a, "retired"), b, cat, on, L) /\ ThenForce(a, "retired").stage = s.stage
  BY <1>5, RoleNames, ThenForceTied
<1> QED
  BY <1>3, <1>4, <1>6

LEMMA FinishTied ==
  ASSUME NEW s, NEW b, NEW cat, NEW on, NEW L, Tied(s, b, cat, on, L)
  PROVE  Tied(MaybeFinishRollback(s), b, cat, on, L) /\ MaybeFinishRollback(s).sup = s.sup
<1> DEFINE f == [s EXCEPT !.failure = FALSE]
           t == Emit(f, "RollbackCompleted", s.slot["active"].id, NoInstance)
<1>1. Tied(f, b, cat, on, L) /\ f.sup = s.sup
  BY FailureTied
<1>2. s.slot["active"].id \in Ids /\ "RollbackCompleted" \in Ended \cup Finished
  BY TiedFacts, RoleNames DEF Finished
<1>3. MaybeFinishRollback(s) \in {s, t}
  BY DEF MaybeFinishRollback
<1> HIDE DEF f
<1>4. Tied(t, b, cat, on, L) /\ t.sup = s.sup
  BY <1>1, <1>2, EmitTied
<1> QED
  BY <1>3, <1>4

LEMMA RecallTied ==
  ASSUME NEW s, NEW b, NEW cat, NEW on, NEW L, NEW asked, NEW bad, Tied(s, b, cat, on, L)
  PROVE  Tied(Recall(s, asked, bad), b, cat, on, L) /\ Recall(s, asked, bad).sup = s.sup
<1>1. /\ Tied(Issued(s, "active", "Reactivate"), b, cat, on, L)
      /\ Issued(s, "active", "Reactivate").sup = s.sup
  BY RoleNames, IssuedTied
<1>2. Tied(NotIssued(s), b, cat, FALSE, L) /\ NotIssued(s).sup = s.sup
  BY NotIssuedTied, TiedLoosely
<1>3. Tied(FailMaster(NotIssued(s)), b, cat, on, L) /\ FailMaster(NotIssued(s)).sup = s.sup
  BY <1>2, FailMasterTied
<1> QED
  BY <1>1, <1>3 DEF Recall

LEMMA FailedCandidate ==
  ASSUME NEW u, SupLike(u), NEW i
  PROVE  /\ SupLike(CandidateFailed(u, i).sup)
         /\ CandidateFailed(u, i).sup.active.instance_id = u.active.instance_id
         /\ CandidateFailed(u, i).sup.candidate.instance_id = u.candidate.instance_id
<1> DEFINE v == Moved(u, "candidate", "Stopping")
<1>1. SupLike(v) /\ v.active.instance_id = u.active.instance_id
      /\ v.candidate.instance_id = u.candidate.instance_id
  BY RoleNames, MovedLike
<1>2. CandidateFailed(u, i).sup \in {u, v, Moved(v, "active", "Reactivating")}
  BY DEF CandidateFailed, Accept, Reject
<1> HIDE DEF v
<1>3. /\ SupLike(Moved(v, "active", "Reactivating"))
      /\ Moved(v, "active", "Reactivating").active.instance_id = v.active.instance_id
      /\ Moved(v, "active", "Reactivating").candidate.instance_id = v.candidate.instance_id
  BY <1>1, RoleNames, MovedLike
<1> QED
  BY <1>1, <1>2, <1>3

LEMMA BeginRollbackTied ==
  ASSUME NEW s, NEW b, NEW cat, NEW on, NEW L, NEW bad, Tied(s, b, cat, on, L), ~s.err
  PROVE  /\ Tied(BeginRollback(s, bad), b, cat, on, L)
         /\ BeginRollback(s, bad).sup.candidate.instance_id = s.sup.candidate.instance_id
         /\ BeginRollback(s, bad).sup.active.instance_id = s.sup.active.instance_id
<1> DEFINE candidate == s.sup.candidate.instance_id
           f == [s EXCEPT !.failure = TRUE]
           started == Emit(f, "RollbackStarted", candidate, NoInstance)
           answer == CandidateFailed(s.sup, candidate)
           a == Applied(started, answer)
           c == Recall(a, Len(answer.actions) = 2, bad)
           d == ThenForce(c, "candidate")
<1>1. Tied(f, b, cat, on, L) /\ f.err = s.err /\ f.sup = s.sup
  BY FailureTied
<1>2. candidate \in Ids /\ "RollbackStarted" \in Ended \cup Finished /\ "RollbackStarted" \in Ended
  BY TiedFacts, RoleNames DEF Ended
<1>3. SupLike(answer.sup) /\ answer.sup.active.instance_id = s.sup.active.instance_id
      /\ answer.sup.candidate.instance_id = s.sup.candidate.instance_id
  BY TiedFacts, FailedCandidate
<1>4. BeginRollback(s, bad) \in {FailMaster(s), Fail(s), MaybeFinishRollback(d)}
  BY DEF BeginRollback
<1>5. /\ Tied(FailMaster(s), b, cat, on, L) /\ Tied(Fail(s), b, cat, on, L)
      /\ FailMaster(s).sup = s.sup /\ Fail(s).sup = s.sup
  <2>1. Fail(s).sup = s.sup
    BY TiedFacts DEF Fail, IsRecord, Fields
  <2> QED
    BY <2>1, TiedLoosely, FailTied, FailMasterTied
<1> HIDE DEF f, answer, candidate
<1>6. /\ Tied(started, b, cat, on, L) /\ started.err = s.err /\ started.sup = s.sup
      /\ Reply(started, cat).ok => Reply(started, cat).cat.doc["Candidate"] = NoDocument
  BY <1>1, <1>2, EmitTied
<1> HIDE DEF started
<1>7. Tied(a, b, cat, on, L) /\ a.sup = answer.sup
  BY <1>3, <1>6, AppliedTied
<1> HIDE DEF a
<1>8. Tied(c, b, cat, on, L) /\ c.sup = answer.sup
  BY <1>7, RecallTied
<1> HIDE DEF c
<1>9. Tied(d, b, cat, on, L) /\ d.sup = answer.sup
  BY <1>8, RoleNames, ThenForceTied
<1> HIDE DEF d
<1>10. Tied(MaybeFinishRollback(d), b, cat, on, L) /\ MaybeFinishRollback(d).sup = answer.sup
  BY <1>9, FinishTied
<1> QED
  BY <1>3, <1>4, <1>5, <1>10

LEMMA PhaseFailureTied ==
  ASSUME NEW s, NEW b, NEW cat, NEW on, NEW L, NEW bad, NEW role \in Roles,
         Tied(s, b, cat, on, L), ~s.err
  PROVE  Tied(HandlePhaseFailure(s, role, bad), b, cat, on, L)
<1>1. HandlePhaseFailure(s, role, bad)
         \in {BeginRollback(s, bad), FailRetired(s), ForceRole(s, role), FailMaster(s)}
  BY DEF HandlePhaseFailure
<1>2. Tied(FailMaster(s), b, cat, on, L)
  BY TiedLoosely, FailMasterTied
<1> QED
  BY <1>1, <1>2, BeginRollbackTied, FailRetiredTied, ForceTied

LEMMA IssueTied ==
  ASSUME NEW s, NEW b, NEW cat, NEW on, NEW L, NEW bad, NEW role \in Roles, NEW phase,
         Tied(s, b, cat, on, L)
  PROVE  /\ ~s.err => Tied(IssueOrCompensate(s, role, phase, bad), b, cat, on, L)
         /\ Tied(ThenIssue(s, role, phase, bad), b, cat, on, L)
<1>1. Tied(Issued(s, role, phase), b, cat, on, L)
  BY IssuedTied
<1>2. ~s.err => Tied(HandlePhaseFailure(NotIssued(s), role, bad), b, cat, on, L)
  BY NotIssuedTied, PhaseFailureTied
<1>3. ~s.err => Tied(IssueOrCompensate(s, role, phase, bad), b, cat, on, L)
  BY <1>1, <1>2 DEF IssueOrCompensate
<1> QED
  BY <1>3 DEF ThenIssue, Try

LEMMA CompleteTied ==
  ASSUME NEW s, NEW b, NEW cat, NEW on, NEW L, NEW failed, Tied(s, b, cat, on, L)
  PROVE  Tied(Complete(s, failed), b, cat, on, L)
<1> DEFINE f == [s EXCEPT !.failure = FALSE]
<1>1. Tied(f, b, cat, on, L) /\ f.slot = s.slot
  BY FailureTied
<1>2. s.slot["active"].id \in Ids /\ "ReplacementCompleted" \in Ended \cup Finished
  BY TiedFacts, RoleNames DEF Finished
<1> HIDE DEF f
<1>3. Tied(CompleteReplacement(s), b, cat, on, L)
  BY <1>2, EmitTied DEF CompleteReplacement
<1>4. Tied(CompleteReplacement(f), b, cat, on, L)
  BY <1>1, <1>2, EmitTied DEF CompleteReplacement
<1>5. Tied(Fail(s), b, cat, on, L)
  BY TiedLoosely, FailTied
<1>6. Complete(s, failed) \in {s, CompleteReplacement(s), CompleteReplacement(f), Fail(s)}
  BY DEF Complete, CompleteFailedRetired, Try, f
<1> QED
  BY <1>3, <1>4, <1>5, <1>6

LEMMA RetiredGoneTied ==
  ASSUME NEW s, NEW b, NEW cat, NEW on, NEW L, NEW i, NEW failed, Tied(s, b, cat, on, L)
  PROVE  Tied(RetiredGone(s, i, failed), b, cat, on, L)
<1> DEFINE w == TakeWorker(s, "retired")
           a == Applied(w, RetiredStopped(s.sup, i))
<1>1. Tied(w, b, cat, on, L) /\ w.err = s.err /\ w.sup = s.sup
  BY RoleNames, TakeTied
<1> HIDE DEF w
<1>2. Mild(s.sup, RetiredStopped(s.sup, i).sup)
  BY TiedFacts, AnswersMild
<1>3. ~s.err => Tied(a, b, cat, on, L)
  BY <1>1, <1>2, AppliedTied
<1> HIDE DEF a
<1>4. ~s.err => Tied(Complete(a, failed), b, cat, on, L)
  BY <1>3, CompleteTied
<1> QED
  BY <1>4 DEF RetiredGone, Try, a, w

\* The event of the commitment moves the candidate's document where the candidate goes.
LEMMA PromoteTied ==
  ASSUME NEW s, NEW b, NEW cat, NEW on, NEW L, Tied(s, b, cat, on, L), s.stage = "Operational", ~s.err,
         NEW answer, answer = CandidateActivated(s.sup, s.slot["candidate"].id), answer.ok
  PROVE  Tied(Promote(Applied(s, answer)), b, cat, on, L) /\ ~Promote(Applied(s, answer)).err
<1> DEFINE u == s.sup
           i == s.slot["candidate"].id
           x == [u.candidate EXCEPT !.lifecycle = "Active"]
           y == [u.active EXCEPT !.lifecycle = "Draining"]
           v == [active |-> x, candidate |-> Vacant, retired |-> y]
           a == Applied(s, answer)
           old == a.slot["active"]
           new == a.slot["candidate"]
           m == [a EXCEPT !.slot = [active |-> new, candidate |-> NoSlot, retired |-> old],
                          !.deferred = FALSE]
           t == Emit(m, "ReplacementCommitted", new.id, old.id)
<1>0. SupLike(u) /\ Shaped(s, b)
  BY TiedFacts DEF Tied
<1>1. answer.sup = v /\ u.candidate.instance_id = i
  BY DEF CandidateActivated, Accept, Reject, InState, Holds
<1>2. HolderLike(x) /\ HolderLike(y) /\ x.instance_id = i
  BY <1>0, <1>1, RoleNames DEF SupLike, HolderLike
<1> HIDE DEF x, y
<1>3. SupLike(v) /\ v.active = x /\ v.candidate = Vacant
  BY <1>2, VacantLike DEF SupLike, Roles
<1> HIDE DEF v
<1>4. Upd(s, a, {"sup", "err"}) /\ Shaped(a, b) /\ a.sup = v /\ ~a.err
  BY <1>0, <1>1, <1>3, AppliedFields
<1> HIDE DEF a
<1>5. a.slot = s.slot /\ a.stage = s.stage /\ a.events = s.events
  BY <1>4 DEF Upd, Fields
<1>6. SlotLike(old) /\ SlotLike(new) /\ old.id \in Ids /\ new.id \in Ids /\ new.id = i
  BY <1>4, <1>5, RoleNames DEF Shaped, SlotLike
<1>7. Upd(a, m, {"slot", "deferred"}) /\ m.slot = [active |-> new, candidate |-> NoSlot, retired |-> old]
  BY <1>4 DEF Upd, IsRecord, Fields, Shaped
<1> HIDE DEF m, old, new
<1>8. IsRecord(m) /\ m.sup = v /\ m.stage = "Operational" /\ m.events = s.events /\ m.proc = a.proc
      /\ ~m.err
  BY <1>4, <1>5, <1>7 DEF Upd, Fields
<1>9. Shaped(m, b)
  <2>1. DOMAIN m.slot = Roles /\ \A role \in Roles : SlotLike(m.slot[role])
    BY <1>6, <1>7, NoSlotLike DEF Roles
  <2> QED
    BY <1>3, <1>4, <1>5, <1>8, <2>1 DEF Shaped
<1>10. Reply(m, cat) = Reply(s, cat) /\ CatLike(Reply(m, cat).cat, L)
  BY <1>8 DEF Reply, Tied
<1>11. "ReplacementCommitted" \in EventKinds
  BY DEF EventKinds
<1>12. PICK e \in MasterEvents :
           /\ e.kind = "ReplacementCommitted" /\ e.id = new.id
           /\ Reply(t, cat) = ApplyCatalogEvent(Reply(m, cat), e)
           /\ Upd(m, t, {"events"}) /\ Shaped(t, b)
  <2> DEFINE k == "ReplacementCommitted"
             n == new.id
             o == old.id
  <2>1. k \in EventKinds /\ n \in Ids /\ o \in Ids
    BY <1>6, <1>11
  <2> HIDE DEF k, n, o
  <2>2. /\ Upd(m, Emit(m, k, n, o), {"events"}) /\ Shaped(Emit(m, k, n, o), b)
        /\ \E e \in MasterEvents :
               /\ e.kind = k /\ e.id = n
               /\ Reply(Emit(m, k, n, o), cat) = ApplyCatalogEvent(Reply(m, cat), e)
    BY <1>9, <2>1, EmitShaped
  <2> QED
    BY <2>2 DEF k, n, o
<1>13. /\ CatLike(Reply(t, cat).cat, L)
       /\ Reply(t, cat).ok => /\ Reply(t, cat).cat.doc["Active"].instance_id = i
                              /\ Reply(t, cat).cat.doc["Candidate"] = NoDocument
  BY <1>6, <1>10, <1>12, EventStep
<1>14. t.sup = v /\ t.stage = "Operational" /\ ~t.err
  BY <1>8, <1>12 DEF Upd, Fields
<1>15. Linked(t, Reply(t, cat))
  BY <1>2, <1>3, <1>13, <1>14 DEF Linked
<1>16. Tied(t, b, cat, on, L)
  BY <1>12, <1>13, <1>15 DEF Tied
<1> QED
  BY <1>14, <1>16 DEF Promote, t, m, old, new, a

LEMMA CommitTied ==
  ASSUME NEW s, NEW b, NEW cat, NEW on, NEW L, NEW bad, Tied(s, b, cat, on, L),
         s.stage = "Operational", ~s.err
  PROVE  Tied(CommitCandidate(s, bad), b, cat, on, L)
<1> DEFINE answer == CandidateActivated(s.sup, s.slot["candidate"].id)
           a == Applied(s, answer)
           p == Promote(a)
           i == s.slot["active"].id
<1>0. Shaped(s, b) /\ SupLike(s.sup)
  BY TiedFacts DEF Tied
<1>1. SupLike(answer.sup)
  <2> DEFINE u == s.sup
             x == [u.candidate EXCEPT !.lifecycle = "Active"]
             y == [u.active EXCEPT !.lifecycle = "Draining"]
  <2>1. HolderLike(x) /\ HolderLike(y) /\ HolderLike(u.retired)
    BY <1>0, RoleNames DEF SupLike, HolderLike
  <2>2. \/ answer.sup = u
        \/ answer.sup = [active |-> x, candidate |-> Vacant, retired |-> u.retired]
        \/ answer.sup = [active |-> x, candidate |-> Vacant, retired |-> y]
    BY DEF CandidateActivated, Accept, Reject
  <2> HIDE DEF x, y, answer
  <2> QED
    BY <1>0, <2>1, <2>2, VacantLike DEF SupLike, Roles
<1>2. Upd(s, a, {"sup", "err"}) /\ Shaped(a, b) /\ a.err = ~answer.ok
  BY <1>0, <1>1, AppliedFields
<1>3. answer.ok => Tied(p, b, cat, on, L) /\ ~p.err
  BY PromoteTied
<1>4. ~answer.ok => Tied(a, b, cat, on, L)
  <2>1. a.events = s.events
    BY <1>2 DEF Upd, Fields
  <2> QED
    BY <1>2, <2>1, TiedLoosely, StoppedTied
<1>5. \/ ~answer.ok /\ CommitCandidate(s, bad) = a
      \/ answer.ok /\ CommitCandidate(s, bad) \in {RetiredGone(FailRetired(p), i, TRUE),
                                                  IssueOrCompensate(p, "retired", "Drain", bad)}
  <2>1. a.err = ~answer.ok
    BY <1>2
  <2> QED
    BY <2>1, Zenon DEF CommitCandidate
<1> HIDE DEF p, a, answer
<1>6. ASSUME answer.ok PROVE Tied(RetiredGone(FailRetired(p), i, TRUE), b, cat, on, L)
  BY <1>3, <1>6, FailRetiredTied, RetiredGoneTied
<1>7. ASSUME answer.ok PROVE Tied(IssueOrCompensate(p, "retired", "Drain", bad), b, cat, on, L)
  BY <1>3, <1>7, RoleNames, IssueTied
<1> QED
  BY <1>4, <1>5, <1>6, <1>7

\* [s EXCEPT !.slot[role].f = x] for a field f other than id.
LEMMA PendingTied ==
  ASSUME NEW s, NEW b, NEW cat, NEW on, NEW L, NEW role \in Roles, Tied(s, b, cat, on, L),
         NEW t, t = [s EXCEPT !.slot[role].pending = NoPending]
  PROVE  Tied(t, b, cat, on, L) /\ t.err = s.err /\ t.stage = s.stage /\ t.sup = s.sup
         /\ t.slot["active"].id = s.slot["active"].id /\ t.slot["candidate"].id = s.slot["candidate"].id
<1> DEFINE w == [s.slot[role] EXCEPT !.pending = NoPending]
<1>1. IsRecord(s) /\ SlotLike(s.slot[role]) /\ DOMAIN s.slot = Roles
  BY TiedFacts
<1>2. Upd(s, t, {"slot"}) /\ t.slot = [s.slot EXCEPT ![role] = w]
  BY <1>1 DEF Upd, IsRecord, Fields
<1>3. SlotTuned(s.slot[role], w)
  BY <1>1 DEF SlotTuned, SlotLike
<1> HIDE DEF w
<1>4. IsRecord(t) /\ t.events = s.events /\ t.sup = s.sup /\ t.proc = s.proc /\ t.stage = s.stage
      /\ t.err = s.err
  BY <1>2 DEF Upd, Fields
<1>5. Tied(t, b, cat, on, L)
  BY <1>2, <1>3, <1>4, TunedTied
<1> QED
  BY <1>1, <1>2, <1>3, <1>4, <1>5, RoleNames DEF SlotTuned

LEMMA TerminateTied ==
  ASSUME NEW s, NEW b, NEW cat, NEW on, NEW L, NEW bad, Tied(s, b, cat, on, L)
  PROVE  Tied(TerminateRetired(s, bad), b, cat, on, L)
<1> DEFINE v == Issued(s, "retired", "Shutdown")
           w == [v.slot["retired"] EXCEPT !.state = "Terminating", !.deadline = TRUE]
           t == [v EXCEPT !.slot["retired"].state = "Terminating", !.slot["retired"].deadline = TRUE]
<1>1. Tied(v, b, cat, on, L)
  BY RoleNames, IssuedTied
<1>2. \/ TerminateRetired(s, bad) \in {s, t}
      \/ ~s.err /\ TerminateRetired(s, bad) = FailRetired(NotIssued(s))
  BY DEF TerminateRetired
<1> HIDE DEF v
<1>3. IsRecord(v) /\ SlotLike(v.slot["retired"]) /\ DOMAIN v.slot = Roles
  BY <1>1, TiedFacts, RoleNames
<1>4. Upd(v, t, {"slot"}) /\ t.slot = [v.slot EXCEPT !["retired"] = w]
  BY <1>3, RoleNames DEF Upd, IsRecord, Fields
<1>5. SlotTuned(v.slot["retired"], w)
  BY <1>3 DEF SlotTuned, SlotLike
<1> HIDE DEF w, t
<1>6. IsRecord(t) /\ t.events = v.events /\ t.sup = v.sup /\ t.proc = v.proc /\ t.stage = v.stage
      /\ t.err = v.err
  BY <1>4 DEF Upd, Fields
<1>7. Tied(t, b, cat, on, L)
  BY <1>1, <1>4, <1>5, <1>6, RoleNames, TunedTied
<1>8. ~s.err => Tied(FailRetired(NotIssued(s)), b, cat, on, L)
  BY NotIssuedTied, FailRetiredTied
<1> QED
  BY <1>2, <1>7, <1>8

LEMMA ShutDownRetiredTied ==
  ASSUME NEW s, NEW b, NEW cat, NEW on, NEW L, NEW bad, Tied(s, b, cat, on, L), ~s.err
  PROVE  Tied(ShutDownRetired(s, bad), b, cat, on, L)
<1> DEFINE i == s.slot["retired"].id
           d == Applied(s, RetiredDrained(s.sup, i))
           a == Applied(d, RetiredSnapshotCaptured(d.sup, i))
<1>1. Tied(d, b, cat, on, L)
  BY TiedFacts, AnswersMild, AppliedTied
<1>2. ShutDownRetired(s, bad) = IF d.err THEN d ELSE TerminateRetired(a, bad)
  BY DEF ShutDownRetired, Try
<1> HIDE DEF d, i
<1>3. ~d.err => Tied(a, b, cat, on, L)
  BY <1>1, TiedFacts, AnswersMild, AppliedTied
<1> HIDE DEF a
<1> QED
  BY <1>1, <1>2, <1>3, TerminateTied

LEMMA BootAdoptedTied ==
  ASSUME NEW s, NEW b, NEW cat, NEW on, NEW L, Tied(s, b, cat, on, L), ~s.err, s.stage = "BootAdopting",
         NEW t, t = [s EXCEPT !.stage = "BootActivating"]
  PROVE  Tied(t, b, cat, on, L) /\ ~t.err
<1>1. IsRecord(s) /\ Shaped(s, b)
  BY TiedFacts DEF Tied
<1>2. Upd(s, t, {"stage"}) /\ t.stage = "BootActivating"
  BY <1>1 DEF Upd, IsRecord, Fields
<1>3. IsRecord(t) /\ t.events = s.events /\ t.sup = s.sup /\ t.proc = s.proc /\ t.slot = s.slot
      /\ t.err = s.err
  BY <1>2 DEF Upd, Fields
<1>4. Shaped(t, b)
  BY <1>1, <1>3, QuietShaped
<1>5. Reply(t, cat) = Reply(s, cat)
  BY <1>3 DEF Reply
<1>6. ASSUME Linked(s, Reply(s, cat)) PROVE Linked(t, Reply(s, cat))
  BY <1>2, <1>3, <1>6 DEF Linked
<1> QED
  BY <1>3, <1>4, <1>5, <1>6 DEF Tied

LEMMA BootActivatedTied ==
  ASSUME NEW s, NEW b, NEW cat, NEW on, NEW L, Tied(s, b, cat, on, L), ~s.err, s.stage = "BootActivating",
         NEW t, t = [s EXCEPT !.stage = "Operational",
                              !.sup = NewSupervisor(s.slot["active"].id, s.slot["active"].id)]
  PROVE  Tied(t, b, cat, on, L)
<1> DEFINE i == s.slot["active"].id
           v == NewSupervisor(i, i)
<1>1. IsRecord(s) /\ Shaped(s, b) /\ i \in Ids
  BY TiedFacts, RoleNames DEF Tied
<1>2. Upd(s, t, {"stage", "sup"}) /\ t.stage = "Operational" /\ t.sup = v
  BY <1>1 DEF Upd, IsRecord, Fields
<1>3. SupLike(v) /\ v.active.instance_id = i
  <2>1. HolderLike(Instance(i, i, "Active")) /\ Instance(i, i, "Active").instance_id = i
    BY <1>1 DEF HolderLike, Instance
  <2> QED
    BY <2>1, VacantLike DEF NewSupervisor, SupLike, Roles
<1>4. IsRecord(t) /\ t.events = s.events /\ t.proc = s.proc /\ t.slot = s.slot /\ t.err = s.err
  BY <1>2 DEF Upd, Fields
<1> HIDE DEF v
<1>5. Shaped(t, b)
  BY <1>1, <1>2, <1>3, <1>4 DEF Shaped
<1>6. Reply(t, cat) = Reply(s, cat)
  BY <1>4 DEF Reply
<1>7. ASSUME Linked(s, Reply(s, cat)) PROVE Linked(t, Reply(s, cat))
  BY <1>2, <1>3, <1>4, <1>7 DEF Linked
<1> QED
  BY <1>5, <1>6, <1>7 DEF Tied

LEMMA PhaseSuccessTied ==
  ASSUME NEW s, NEW b, NEW cat, NEW on, NEW L, NEW bad, NEW role \in Roles, NEW phase,
         Tied(s, b, cat, on, L), ~s.err
  PROVE  Tied(HandlePhaseSuccess(s, role, phase, bad), b, cat, on, L)
<1> DEFINE t == HandlePhaseSuccess(s, role, phase, bad)
           boot == [s EXCEPT !.stage = "BootActivating"]
           up == [s EXCEPT !.stage = "Operational",
                           !.sup = NewSupervisor(s.slot["active"].id, s.slot["active"].id)]
           a == Applied(s, CandidatePrepared(s.sup, s.slot["candidate"].id))
           q == Applied(s, ActiveQuiesced(s.sup, s.slot["active"].id))
           r == Applied(s, ActiveReactivated(s.sup, s.slot["active"].id))
<1>1. \/ s.stage = "BootAdopting" /\ t = IssueOrCompensate(boot, "active", "Activate", bad)
      \/ s.stage = "BootActivating" /\ t = up
      \/ t \in {ThenIssue(a, "active", "Quiesce", bad), ThenIssue(q, "candidate", "Activate", bad),
                MaybeFinishRollback(r), ShutDownRetired(s, bad), s, Fail(s)}
      \/ s.stage = "Operational" /\ t = CommitCandidate(s, bad)
  BY Zenon DEF HandlePhaseSuccess
<1>2. s.stage = "BootAdopting" => Tied(boot, b, cat, on, L) /\ ~boot.err
  BY BootAdoptedTied
<1>3. s.stage = "BootActivating" => Tied(up, b, cat, on, L)
  BY BootActivatedTied
<1>4. Tied(a, b, cat, on, L) /\ Tied(q, b, cat, on, L) /\ Tied(r, b, cat, on, L)
  BY TiedFacts, AnswersMild, AppliedTied
<1>5. Tied(Fail(s), b, cat, on, L)
  BY TiedLoosely, FailTied
<1> HIDE DEF a, q, r, boot, up, t
<1>6. s.stage = "BootAdopting" => Tied(IssueOrCompensate(boot, "active", "Activate", bad), b, cat, on, L)
  BY <1>2, RoleNames, IssueTied
<1>7. /\ Tied(ThenIssue(a, "active", "Quiesce", bad), b, cat, on, L)
      /\ Tied(ThenIssue(q, "candidate", "Activate", bad), b, cat, on, L)
  BY <1>4, RoleNames, IssueTied
<1>8. Tied(MaybeFinishRollback(r), b, cat, on, L) /\ Tied(ShutDownRetired(s, bad), b, cat, on, L)
  BY <1>4, FinishTied, ShutDownRetiredTied
<1>9. s.stage = "Operational" => Tied(CommitCandidate(s, bad), b, cat, on, L)
  BY CommitTied
<1>10. Tied(t, b, cat, on, L)
  BY <1>1, <1>3, <1>5, <1>6, <1>7, <1>8, <1>9
<1> QED
  BY <1>10 DEF t

LEMMA HandleAckTied ==
  ASSUME NEW s, NEW b, NEW cat, NEW on, NEW L, NEW bad, NEW role \in Roles, NEW ack,
         Tied(s, b, cat, on, L), ~s.err
  PROVE  Tied(HandleAck(s, role, ack, bad), b, cat, on, L)
<1> DEFINE a == [s EXCEPT !.slot[role].pending = NoPending]
<1>1. Tied(a, b, cat, on, L) /\ ~a.err
  BY PendingTied
<1>2. HandleAck(s, role, ack, bad) \in {s, HandlePhaseSuccess(a, role, ack.phase, bad),
                                        HandlePhaseFailure(a, role, bad)}
  BY DEF HandleAck
<1> HIDE DEF a
<1> QED
  BY <1>1, <1>2, PhaseSuccessTied, PhaseFailureTied

LEMMA CandidateGoneTied ==
  ASSUME NEW s, NEW b, NEW cat, NEW on, NEW L, NEW i, Tied(s, b, cat, on, L)
  PROVE  Tied(CandidateGone(s, i), b, cat, on, L)
<1> DEFINE w == TakeWorker(s, "candidate")
           a == Applied(w, CandidateStopped(s.sup, i))
<1>1. Tied(w, b, cat, on, L) /\ w.err = s.err /\ w.sup = s.sup
  BY RoleNames, TakeTied
<1> HIDE DEF w
<1>2. Mild(s.sup, CandidateStopped(s.sup, i).sup)
  BY TiedFacts, AnswersMild
<1>3. ~s.err => Tied(a, b, cat, on, L)
  BY <1>1, <1>2, AppliedTied
<1> HIDE DEF a
<1>4. ~s.err => Tied(MaybeFinishRollback(a), b, cat, on, L)
  BY <1>3, FinishTied
<1> QED
  BY <1>4 DEF CandidateGone, Try, a, w

LEMMA HandleExitTied ==
  ASSUME NEW s, NEW b, NEW cat, NEW on, NEW L, NEW bad, NEW role \in Roles,
         Tied(s, b, cat, on, L), ~s.err
  PROVE  Tied(HandleExit(s, role, bad), b, cat, on, L)
<1> DEFINE i == s.slot[role].id
           d == [s EXCEPT !.deferred = TRUE]
           t == HandleExit(s, role, bad)
<1>1. \/ t = d
      \/ s.stage \in {"Failing", "ShuttingDown"} /\ t = TakeWorker(s, role)
      \/ t \in {CandidateGone(s, i), RetiredGone(s, i, s.failure), CandidateGone(BeginRollback(s, bad), i),
                RetiredGone(FailRetired(s), i, TRUE), FailMaster(TakeWorker(s, role))}
  BY Zenon DEF HandleExit
<1>2. Tied(d, b, cat, on, L)
  <2>1. IsRecord(s)
    BY TiedFacts
  <2>2. Upd(s, d, {"deferred"})
    BY <2>1 DEF Upd, IsRecord, Fields
  <2> HIDE DEF d
  <2>3. IsRecord(d) /\ d.events = s.events /\ d.sup = s.sup /\ d.proc = s.proc /\ d.slot = s.slot
        /\ d.err = s.err /\ d.stage = s.stage
    BY <2>2 DEF Upd, Fields
  <2> QED
    BY <2>3, QuietTied
<1>3. s.stage \in {"Failing", "ShuttingDown"} => Tied(TakeWorker(s, role), b, cat, on, L)
  BY TakeTied
<1>4. Tied(FailMaster(TakeWorker(s, role)), b, cat, on, L)
  BY TiedLoosely, TakeTied, FailMasterTied
<1>5. Tied(CandidateGone(s, i), b, cat, on, L) /\ Tied(RetiredGone(s, i, s.failure), b, cat, on, L)
  BY CandidateGoneTied, RetiredGoneTied
<1>6. /\ Tied(CandidateGone(BeginRollback(s, bad), i), b, cat, on, L)
      /\ Tied(RetiredGone(FailRetired(s), i, TRUE), b, cat, on, L)
  BY BeginRollbackTied, FailRetiredTied, CandidateGoneTied, RetiredGoneTied
<1> HIDE DEF t, d, i
<1>7. Tied(t, b, cat, on, L)
  BY <1>1, <1>2, <1>3, <1>4, <1>5, <1>6
<1> QED
  BY <1>7 DEF t

LEMMA HandleTied ==
  ASSUME NEW s, NEW b, NEW cat, NEW on, NEW L, NEW bad, NEW o, o.kind \in Kinds,
         Tied(s, b, cat, on, L)
  PROVE  Tied(Handle(s, o, bad), b, cat, on, L)
<1> DEFINE role == RoleFor(s, o.id)
<1>1. role \in Roles \cup {"None"}
  BY DEF RoleFor, Roles
<1>2. \/ Handle(s, o, bad) = s
      \/ /\ ~s.err /\ role # "None"
         /\ Handle(s, o, bad) \in {HandleAck(s, role, o, bad), HandleExit(s, role, bad),
                                   HandleDisconnect(s, role, bad), HandlePhaseFailure(s, role, bad)}
  BY DEF Handle, Kinds
<1> HIDE DEF role
<1>3. HandleDisconnect(s, role, bad) \in {s, HandlePhaseFailure(s, role, bad)}
  BY DEF HandleDisconnect
<1> QED
  BY <1>1, <1>2, <1>3, HandleAckTied, HandleExitTied, PhaseFailureTied

LEMMA HandleTimeoutTied ==
  ASSUME NEW s, NEW b, NEW cat, NEW on, NEW L, NEW due, NEW bad, Tied(s, b, cat, on, L), ~s.err
  PROVE  Tied(HandleTimeout(s, due, bad), b, cat, on, L)
<1> DEFINE expired == {role \in Roles : s.slot[role].pending # NoPending}
           first == IF "active" \in expired THEN "active"
                    ELSE IF "candidate" \in expired THEN "candidate" ELSE "retired"
           g == [s EXCEPT !.forced = TRUE]
           x == [s EXCEPT !.failure = TRUE, !.slot["retired"].deadline = FALSE]
           w == [s.slot["retired"] EXCEPT !.deadline = FALSE]
           a == Applied(x, TerminationTimedOut(s.sup, s.slot["retired"].id))
           c == [s EXCEPT !.slot[first].pending = NoPending]
<1>0. IsRecord(s) /\ DOMAIN s.slot = Roles /\ SlotLike(s.slot["retired"]) /\ SupLike(s.sup)
  BY TiedFacts, RoleNames
<1>1. HandleTimeout(s, due, bad)
         \in {s, ForceAll(g), ThenForce(a, "retired"), HandlePhaseFailure(c, first, bad)}
  BY Zenon DEF HandleTimeout
<1>2. first \in Roles
  BY RoleNames
<1> HIDE DEF first
<1>3. Tied(c, b, cat, on, L) /\ ~c.err
  BY <1>2, PendingTied
<1> HIDE DEF c
<1>4. Tied(HandlePhaseFailure(c, first, bad), b, cat, on, L)
  BY <1>2, <1>3, PhaseFailureTied
<1>5. Tied(ForceAll(g), b, cat, on, L)
  <2>1. Upd(s, g, {"forced"})
    BY <1>0 DEF Upd, IsRecord, Fields
  <2> HIDE DEF g
  <2>2. IsRecord(g) /\ g.events = s.events /\ g.sup = s.sup /\ g.proc = s.proc /\ g.slot = s.slot
        /\ g.err = s.err /\ g.stage = s.stage
    BY <2>1 DEF Upd, Fields
  <2>3. Tied(g, b, cat, on, L)
    BY <2>2, QuietTied
  <2> QED
    BY <2>3, ForceAllTied
<1>6. Tied(x, b, cat, on, L) /\ ~x.err /\ x.sup = s.sup
  <2>1. Upd(s, x, {"failure", "slot"}) /\ x.slot = [s.slot EXCEPT !["retired"] = w]
    BY <1>0 DEF Upd, IsRecord, Fields
  <2>2. SlotTuned(s.slot["retired"], w)
    BY <1>0 DEF SlotTuned, SlotLike
  <2> HIDE DEF x, w
  <2>3. IsRecord(x) /\ x.events = s.events /\ x.sup = s.sup /\ x.proc = s.proc
        /\ x.err = s.err /\ x.stage = s.stage
    BY <2>1 DEF Upd, Fields
  <2> QED
    BY <2>1, <2>2, <2>3, RoleNames, TunedTied
<1> HIDE DEF x
<1>7. Tied(a, b, cat, on, L)
  BY <1>0, <1>6, AnswersMild, AppliedTied
<1> HIDE DEF a
<1>8. Tied(ThenForce(a, "retired"), b, cat, on, L)
  BY <1>7, RoleNames, ThenForceTied
<1> QED
  BY <1>1, <1>4, <1>5, <1>8

LEMMA ConsumedTied ==
  ASSUME NEW s, NEW b, NEW cat, NEW on, NEW L, NEW role \in Roles, NEW o, Tied(s, b, cat, on, L)
  PROVE  Tied(Consumed(s, role, o), b, cat, on, L)
<1> DEFINE w == s.slot[role]
           p == [s.proc[o.id] EXCEPT !.outbox = Tail(@)]
           x == [s EXCEPT !.slot[role].reported = TRUE]
           y == [s EXCEPT !.slot[role].open = FALSE]
           z == [s EXCEPT !.proc[o.id].outbox = Tail(@)]
<1>0. IsRecord(s) /\ DOMAIN s.slot = Roles /\ SlotLike(w) /\ DOMAIN s.proc = InstanceIds
      /\ Shaped(s, b) /\ \A i \in InstanceIds : Later(b[i], s.proc[i])
  BY TiedFacts DEF Tied
<1>1. Consumed(s, role, o) \in {s, x, y, z}
  BY DEF Consumed
<1>2. /\ Upd(s, x, {"slot"}) /\ x.slot = [s.slot EXCEPT ![role] = [w EXCEPT !.reported = TRUE]]
      /\ Upd(s, y, {"slot"}) /\ y.slot = [s.slot EXCEPT ![role] = [w EXCEPT !.open = FALSE]]
  BY <1>0 DEF Upd, IsRecord, Fields
<1>3. Upd(s, z, {"proc"}) /\ z.proc = [s.proc EXCEPT ![o.id] = p]
  BY <1>0 DEF Upd, IsRecord, Fields
<1>4. SlotTuned(w, [w EXCEPT !.reported = TRUE]) /\ SlotTuned(w, [w EXCEPT !.open = FALSE])
  BY <1>0 DEF SlotTuned, SlotLike
<1>5. o.id \in InstanceIds => Later(b[o.id], p)
  BY <1>0, LaterMail
<1> HIDE DEF x, y, z, p
<1>6. /\ IsRecord(x) /\ x.events = s.events /\ x.sup = s.sup /\ x.proc = s.proc
      /\ x.err = s.err /\ x.stage = s.stage
      /\ IsRecord(y) /\ y.events = s.events /\ y.sup = s.sup /\ y.proc = s.proc
      /\ y.err = s.err /\ y.stage = s.stage
      /\ IsRecord(z) /\ z.events = s.events /\ z.sup = s.sup /\ z.slot = s.slot
      /\ z.err = s.err /\ z.stage = s.stage
  BY <1>2, <1>3 DEF Upd, Fields
<1>7. Tied(x, b, cat, on, L) /\ Tied(y, b, cat, on, L)
  BY <1>2, <1>4, <1>6, TunedTied
<1>8. Shaped(z, b)
  BY <1>0, <1>3, <1>5, <1>6, ProcShaped
<1>9. Tied(z, b, cat, on, L)
  BY <1>6, <1>8, SameTied
<1> QED
  BY <1>1, <1>7, <1>9

LEMMA CollectTied ==
  ASSUME NEW s, NEW b, NEW cat, NEW on, NEW L, Tied(s, b, cat, on, L), Good(s, {})
  PROVE  /\ Tied(Collect(s).rest, b, cat, on, L)
         /\ \A k \in 1..3 : Collect(s).list[k].kind \in Kinds
<1> DEFINE a == Observed(s, "active")
           c == Observed(s, "candidate")
           r == Observed(s, "retired")
           s1 == Consumed(s, "active", a)
           s2 == Consumed(s1, "candidate", c)
           s3 == Consumed(s2, "retired", r)
           activated == /\ PhaseOf(s) = "ActivatingCandidate"
                        /\ c.kind = "Ack" /\ c.phase = "Activate" /\ c.ok
           list == IF activated THEN <<c, a, r>> ELSE <<a, c, r>>
<1>1. a.kind \in Kinds /\ c.kind \in Kinds /\ r.kind \in Kinds
  <2>1. Seen(s, a) /\ Seen(s, c) /\ Seen(s, r)
    BY RoleNames, ObservedSeen
  <2> HIDE DEF a, c, r
  <2> QED
    BY <2>1 DEF Seen, Observations
<1>2. Collect(s).rest = s3 /\ Collect(s).list = list
  BY DEF Collect
<1> HIDE DEF a, c, r
<1>3. Tied(s1, b, cat, on, L)
  BY RoleNames, ConsumedTied
<1> HIDE DEF s1
<1>4. Tied(s2, b, cat, on, L)
  BY <1>3, RoleNames, ConsumedTied
<1> HIDE DEF s2
<1>5. Tied(s3, b, cat, on, L)
  BY <1>4, RoleNames, ConsumedTied
<1> HIDE DEF s3, activated
<1>6. \A k \in 1..3 : list[k] \in {a, c, r}
  OBVIOUS
<1> HIDE DEF list
<1> QED
  BY <1>1, <1>2, <1>5, <1>6

LEMMA FinishTerminalTied ==
  ASSUME NEW s, NEW b, NEW cat, NEW on, NEW L, Tied(s, b, cat, on, L)
  PROVE  Tied(FinishTerminalStates(s), b, cat, on, L)
<1> DEFINE x == [s EXCEPT !.stage = "Stopped"]
           y == [s EXCEPT !.stage = "Failed"]
<1>0. IsRecord(s) /\ Shaped(s, b) /\ Tied(s, b, cat, FALSE, L)
  BY TiedFacts, TiedLoosely DEF Tied
<1>1. FinishTerminalStates(s) \in {s, x, y}
  BY DEF FinishTerminalStates
<1>2. Upd(s, x, {"stage"}) /\ x.stage = "Stopped" /\ Upd(s, y, {"stage"}) /\ y.stage = "Failed"
  BY <1>0 DEF Upd, IsRecord, Fields
<1> HIDE DEF x, y
<1>3. /\ IsRecord(x) /\ x.events = s.events /\ x.sup = s.sup /\ x.proc = s.proc /\ x.slot = s.slot
      /\ IsRecord(y) /\ y.events = s.events /\ y.sup = s.sup /\ y.proc = s.proc /\ y.slot = s.slot
  BY <1>2 DEF Upd, Fields
<1>4. Shaped(x, b) /\ Shaped(y, b)
  BY <1>0, <1>3, QuietShaped
<1>5. Tied(x, b, cat, on, L) /\ Tied(y, b, cat, on, L)
  BY <1>0, <1>2, <1>3, <1>4, StoppedTied
<1> QED
  BY <1>1, <1>5

LEMMA PollTied ==
  ASSUME NEW s, NEW b, NEW cat, NEW on, NEW L, NEW due, NEW bad, Tied(s, b, cat, on, L), ~s.err,
         Good(s, {})
  PROVE  Tied(Poll(s, due, bad), b, cat, on, L)
<1> DEFINE h == HandleTimeout(s, due, bad)
           x == FailAgain(h)
           seen == Collect(x)
           h1 == Handle(seen.rest, seen.list[1], bad)
           h2 == Handle(h1, seen.list[2], bad)
           h3 == Handle(h2, seen.list[3], bad)
<1>1. Good(x, {})
  BY HandleTimeoutGood, FailAgainGood
<1>2. Tied(h, b, cat, on, L)
  BY HandleTimeoutTied
<1>3. Poll(s, due, bad) \in {x, FinishTerminalStates(h3)}
  BY DEF Poll, ObserveAndHandle, Try, HandleAll
<1> HIDE DEF h
<1>4. Tied(x, b, cat, on, L)
  BY <1>2, TiedLoosely, FailMasterTied DEF FailAgain
<1> HIDE DEF x
<1>5. Tied(seen.rest, b, cat, on, L) /\ \A k \in 1..3 : seen.list[k].kind \in Kinds
  BY <1>1, <1>4, CollectTied
<1>6. seen.list[1].kind \in Kinds /\ seen.list[2].kind \in Kinds /\ seen.list[3].kind \in Kinds
  BY <1>5
<1> HIDE DEF seen
<1>7. Tied(h1, b, cat, on, L)
  BY <1>5, <1>6, HandleTied
<1> HIDE DEF h1
<1>8. Tied(h2, b, cat, on, L)
  BY <1>6, <1>7, HandleTied
<1> HIDE DEF h2
<1>9. Tied(h3, b, cat, on, L)
  BY <1>6, <1>8, HandleTied
<1> HIDE DEF h3
<1> QED
  BY <1>3, <1>4, <1>9, FinishTerminalTied

LEMMA AskTied ==
  ASSUME NEW s, NEW b, NEW cat, NEW on, NEW L, NEW role \in Roles, NEW bad, Tied(s, b, cat, on, L)
  PROVE  Tied(AskToStop(s, role, bad), b, cat, on, L)
<1> DEFINE v == Issued(s, role, "Shutdown")
           x == [v EXCEPT !.slot[role].state = "Terminating"]
           w == [v.slot[role] EXCEPT !.state = "Terminating"]
           f == ForceRole(NotIssued(s), role)
           y == [f EXCEPT !.forced = TRUE]
<1>1. Tied(v, b, cat, on, L) /\ Tied(f, b, cat, on, L)
  BY IssuedTied, NotIssuedTied, ForceTied
<1>2. AskToStop(s, role, bad) \in {s, x, y}
  BY DEF AskToStop
<1> HIDE DEF v, f
<1>3. IsRecord(v) /\ SlotLike(v.slot[role]) /\ DOMAIN v.slot = Roles /\ IsRecord(f)
  BY <1>1, TiedFacts
<1>4. Upd(v, x, {"slot"}) /\ x.slot = [v.slot EXCEPT ![role] = w] /\ Upd(f, y, {"forced"})
  BY <1>3 DEF Upd, IsRecord, Fields
<1>5. SlotTuned(v.slot[role], w)
  BY <1>3 DEF SlotTuned, SlotLike
<1> HIDE DEF w, x, y
<1>6. /\ IsRecord(x) /\ x.events = v.events /\ x.sup = v.sup /\ x.proc = v.proc /\ x.stage = v.stage
      /\ x.err = v.err
      /\ IsRecord(y) /\ y.events = f.events /\ y.sup = f.sup /\ y.proc = f.proc /\ y.stage = f.stage
      /\ y.err = f.err /\ y.slot = f.slot
  BY <1>4 DEF Upd, Fields
<1>7. Tied(x, b, cat, on, L)
  BY <1>1, <1>4, <1>5, <1>6, TunedTied
<1>8. Tied(y, b, cat, on, L)
  BY <1>1, <1>6, QuietTied
<1> QED
  BY <1>2, <1>7, <1>8

LEMMA ShutdownTied ==
  ASSUME NEW s, NEW b, NEW cat, NEW L, NEW bad, Tied(s, b, cat, FALSE, L)
  PROVE  Tied(Shutdown(s, bad), b, cat, FALSE, L)
<1> DEFINE r == IF s.deferred THEN TakeWorker(s, "active") ELSE s
           c == [r EXCEPT !.stage = "ShuttingDown", !.forced = FALSE, !.deferred = FALSE,
                          !.sup = NoSupervisor, !.failure = FALSE]
           x == AskToStop(c, "active", bad)
           y == AskToStop(x, "candidate", bad)
<1>1. Tied(r, b, cat, FALSE, L)
  BY RoleNames, TakeTied
<1>2. Shutdown(s, bad) = AskToStop(y, "retired", bad)
  BY DEF Shutdown
<1> HIDE DEF r
<1>3. IsRecord(r) /\ Shaped(r, b)
  BY <1>1, TiedFacts DEF Tied
<1>4. /\ Upd(r, c, {"stage", "forced", "deferred", "sup", "failure"}) /\ c.stage = "ShuttingDown"
      /\ c.sup = NoSupervisor
  BY <1>3 DEF Upd, IsRecord, Fields
<1> HIDE DEF c
<1>5. IsRecord(c) /\ c.events = r.events /\ c.proc = r.proc /\ c.slot = r.slot
  BY <1>4 DEF Upd, Fields
<1>6. SupLike(NoSupervisor)
  BY VacantLike DEF NoSupervisor, SupLike, Roles
<1>7. Shaped(c, b)
  BY <1>3, <1>4, <1>5, <1>6 DEF Shaped
<1>8. Tied(c, b, cat, FALSE, L)
  BY <1>1, <1>4, <1>5, <1>7, StoppedTied
<1>9. Tied(x, b, cat, FALSE, L)
  BY <1>8, RoleNames, AskTied
<1> HIDE DEF x
<1>10. Tied(y, b, cat, FALSE, L)
  BY <1>9, RoleNames, AskTied
<1> HIDE DEF y
<1> QED
  BY <1>2, <1>10, RoleNames, AskTied

---------------------------------------------------------------------------
(* A new worker binds the listeners of the active document *)

Listens(b, L) == \A i \in InstanceIds : Runs(b[i]) => ListenersOf[b[i].revision] = L

LEMMA LaterListens ==
  ASSUME NEW s, NEW b, NEW L, Shaped(s, b), Listens(b, L)
  PROVE  Shaped(s, s.proc) /\ Listens(s.proc, L)
  BY DEF Shaped, Later, Listens

LEMMA NewbornLater ==
  ASSUME NEW r
  PROVE  Later(Newborn(r), Newborn(r)) /\ Newborn(r).revision = r
  BY DEF Later, Newborn, Unborn

\* A master that has handed over its events.
LEMMA ReplyDone ==
  ASSUME NEW s, NEW cat, s.events = << >>
  PROVE  Reply(s, cat) = Done(cat) /\ Reply(s, cat).ok /\ Reply(s, cat).cat = cat
<1>1. Reply(s, cat) = Done(cat)
  BY NoEvents DEF Reply
<1> QED
  BY <1>1 DEF Done

\* A worker is born in a role.
LEMMA BornShaped ==
  ASSUME NEW s, NEW t, NEW role \in Roles, NEW i \in InstanceIds, NEW r, Shaped(s, s.proc), IsRecord(t),
         t.events = s.events, SupLike(t.sup), t.slot = [s.slot EXCEPT ![role] = NewSlot(i)],
         t.proc = [s.proc EXCEPT ![i] = Newborn(r)]
  PROVE  Shaped(t, t.proc)
<1>1. SlotLike(NewSlot(i)) /\ Later(Newborn(r), Newborn(r))
  BY NewSlotLike, NewbornLater DEF Ids
<1>2. DOMAIN t.slot = Roles /\ \A b \in Roles : SlotLike(t.slot[b])
  BY <1>1 DEF Shaped
<1>3. DOMAIN t.proc = InstanceIds /\ \A j \in InstanceIds : Later(t.proc[j], t.proc[j])
  BY <1>1 DEF Shaped
<1> QED
  BY <1>2, <1>3 DEF Shaped

LEMMA BornListens ==
  ASSUME NEW b, NEW L, Listens(b, L), DOMAIN b = InstanceIds, NEW i \in InstanceIds, NEW r,
         ListenersOf[r] = L
  PROVE  Listens([b EXCEPT ![i] = Newborn(r)], L)
  BY NewbornLater DEF Listens

LEMMA LaunchTied ==
  ASSUME NEW s, NEW r, NEW bad, NEW cat, NEW L, Shaped(s, s.proc), Listens(s.proc, L), ~s.err,
         s.events = << >>, s.stage = "BootAdopting", CatLike(cat, L), ListenersOf[r] = L,
         cat.doc["Active"].instance_id = 1, cat.doc["Candidate"] = NoDocument,
         NEW t, t = Launch(s, 1, Newborn(r), bad)
  PROVE  /\ Tied(t, t.proc, cat, TRUE, L) /\ Listens(t.proc, L) /\ Linked(t, Done(cat))
         /\ t.err => t.stage \in {"Failing", "Failed"}
<1> DEFINE u == [s EXCEPT !.slot["active"] = NewSlot(1), !.proc[1] = Newborn(r)]
<1>0. IsRecord(s) /\ DOMAIN s.proc = InstanceIds /\ DOMAIN s.slot = Roles /\ SupLike(s.sup)
  BY DEF Shaped
<1>1. /\ Upd(s, u, {"slot", "proc"}) /\ u.slot = [s.slot EXCEPT !["active"] = NewSlot(1)]
      /\ u.proc = [s.proc EXCEPT ![1] = Newborn(r)]
  BY <1>0 DEF Upd, IsRecord, Fields
<1>2. t = IssueOrCompensate(u, "active", "AdoptListeners", bad)
  BY DEF Launch
<1> HIDE DEF u
<1>3. IsRecord(u) /\ u.events = s.events /\ u.sup = s.sup /\ u.stage = s.stage /\ u.err = s.err
  BY <1>1 DEF Upd, Fields
<1>4. Shaped(u, u.proc) /\ Listens(u.proc, L)
  BY <1>0, <1>1, <1>3, FirstId, RoleNames, BornShaped, BornListens
<1>5. u.slot["active"].id = 1
  BY <1>0, <1>1, RoleNames, FirstId, NewSlotLike DEF Ids
<1>6. Tied(u, u.proc, cat, TRUE, L)
  BY <1>3, <1>4, <1>5, ReplyDone DEF Tied, Linked
<1>7. Tied(t, u.proc, cat, TRUE, L)
  BY <1>2, <1>3, <1>6, RoleNames, IssueTied
<1>8. Shaped(t, t.proc) /\ Listens(t.proc, L)
  BY <1>4, <1>7, LaterListens DEF Tied
<1>9. Linked(t, Done(cat)) /\ (t.err => t.stage \in {"Failing", "Failed"})
  <2> DEFINE n == NotIssued(u)
             v == Issued(u, "active", "AdoptListeners")
  <2>1. t \in {v, HandlePhaseFailure(n, "active", bad)}
    BY <1>2 DEF IssueOrCompensate
  <2>2. v.events = << >> /\ v.err = u.err
    BY <1>3 DEF Issued, IsRecord, Fields
  <2>3. Tied(n, u.proc, cat, FALSE, L) /\ n.stage = "BootAdopting"
    BY <1>3, <1>6, NotIssuedTied, TiedLoosely
  <2> HIDE DEF n, v
  <2>4. HandlePhaseFailure(n, "active", bad) = FailMaster(n)
    BY <2>3 DEF HandlePhaseFailure
  <2>5. FailMaster(n).stage \in {"Failing", "Failed"}
    BY <2>3, FailMasterTied
  <2>6. CASE t = v
    BY <1>3, <1>7, <2>2, <2>6, ReplyDone DEF Tied
  <2>7. CASE t = FailMaster(n)
    BY <2>5, <2>7 DEF Linked
  <2> QED
    BY <2>1, <2>4, <2>6, <2>7
<1> QED
  BY <1>7, <1>8, <1>9 DEF Tied

LEMMA IssueKeepsCandidate ==
  ASSUME NEW s, NEW b, NEW cat, NEW on, NEW L, NEW bad, Tied(s, b, cat, on, L), ~s.err,
         s.stage = "Operational", PhaseOf(s) = "AdoptingCandidate"
  PROVE  /\ IssueOrCompensate(s, "candidate", "AdoptListeners", bad).sup.candidate.instance_id
               = s.sup.candidate.instance_id
         /\ IssueOrCompensate(s, "candidate", "AdoptListeners", bad).sup.active.instance_id
               = s.sup.active.instance_id
<1> DEFINE n == NotIssued(s)
           v == Issued(s, "candidate", "AdoptListeners")
<1>1. Tied(n, b, cat, on, L) /\ ~n.err /\ n.stage = "Operational" /\ n.sup = s.sup
  BY NotIssuedTied
<1>2. v.sup = s.sup
  BY RoleNames, IssuedTied
<1> HIDE DEF n, v
<1>3. PhaseOf(n) = "AdoptingCandidate"
  BY <1>1 DEF PhaseOf
<1>4. HandlePhaseFailure(n, "candidate", bad) = BeginRollback(n, bad)
  BY <1>1, <1>3 DEF HandlePhaseFailure
<1>5. /\ BeginRollback(n, bad).sup.candidate.instance_id = s.sup.candidate.instance_id
      /\ BeginRollback(n, bad).sup.active.instance_id = s.sup.active.instance_id
  BY <1>1, BeginRollbackTied
<1>6. IssueOrCompensate(s, "candidate", "AdoptListeners", bad)
        \in {v, HandlePhaseFailure(n, "candidate", bad)}
  BY DEF IssueOrCompensate, v, n
<1> QED
  BY <1>2, <1>4, <1>5, <1>6

LEMMA RunningVacant ==
  ASSUME NEW s, IsRunning(s)
  PROVE  ~Occupied(s.sup.candidate)
  BY DEF IsRunning, PhaseOf, Phase

LEMMA AdoptingPhase ==
  ASSUME NEW s, ~Occupied(s.sup.retired), Occupied(s.sup.candidate),
         s.sup.candidate.lifecycle = "Preparing"
  PROVE  PhaseOf(s) = "AdoptingCandidate"
<1>1. s.sup # NoSupervisor
  BY DEF NoSupervisor, Vacant, Instance, Occupied
<1> QED
  BY <1>1 DEF PhaseOf, Phase

\* The candidate that was spawned has the candidate document.
LEMMA SpawnedTied ==
  ASSUME NEW s, NEW i \in InstanceIds, NEW r, NEW bad, NEW cat, NEW L, Shaped(s, s.proc),
         Listens(s.proc, L), ~s.err, s.events = << >>, s.stage = "Operational", CatLike(cat, L),
         ListenersOf[r] = L, NEW answer, answer = Begin(s.sup, Instance(i, i, "Spawned")), answer.ok,
         cat.doc["Active"].instance_id = s.sup.active.instance_id, cat.doc["Candidate"].instance_id = i,
         IsRunning(s), NEW spawned, spawned, NEW t, t = Replace(s, i, Newborn(r), spawned, bad)
  PROVE  /\ Tied(t, t.proc, cat, TRUE, L) /\ Listens(t.proc, L) /\ ~IsRunning(t)
         /\ t.sup.active.instance_id = s.sup.active.instance_id
<1> DEFINE on == TRUE
           u == [s EXCEPT !.slot["candidate"] = NewSlot(i), !.proc[i] = Newborn(r), !.sup = answer.sup]
           n == Instance(i, i, "Spawned")
           m == Applied(u, CandidateSpawned(u.sup, i))
           p == Applied(m, CandidateHandshakeComplete(m.sup, i))
           q == IssueOrCompensate(p, "candidate", "AdoptListeners", bad)
<1>0. IsRecord(s) /\ DOMAIN s.proc = InstanceIds /\ DOMAIN s.slot = Roles /\ SupLike(s.sup)
  BY DEF Shaped
<1>1. /\ Upd(s, u, {"slot", "proc", "sup"}) /\ u.slot = [s.slot EXCEPT !["candidate"] = NewSlot(i)]
      /\ u.proc = [s.proc EXCEPT ![i] = Newborn(r)] /\ u.sup = answer.sup
  BY <1>0 DEF Upd, IsRecord, Fields
<1>2. t = IF m.err THEN m ELSE IF p.err THEN p ELSE q
  BY DEF Replace, Try, ThenIssue
<1>3. /\ HolderLike(n) /\ n.instance_id = i /\ n.lifecycle = "Spawned" /\ Occupied(n)
  BY NoInstanceAssumption DEF HolderLike, Instance, Occupied, Ids
<1>4. /\ answer.sup = [s.sup EXCEPT !.candidate = n] /\ ~Occupied(s.sup.retired)
  BY DEF Begin, Accept, Reject
<1> HIDE DEF u, n
<1>5. IsRecord(u) /\ u.events = s.events /\ u.stage = s.stage /\ u.err = s.err
  BY <1>1 DEF Upd, Fields
<1>6. /\ SupLike(u.sup) /\ u.sup.candidate = n /\ u.sup.active = s.sup.active
      /\ u.sup.retired = s.sup.retired
  BY <1>0, <1>1, <1>3, <1>4, RoleNames DEF SupLike
<1>7. Shaped(u, u.proc) /\ Listens(u.proc, L)
  BY <1>0, <1>1, <1>5, <1>6, RoleNames, BornShaped, BornListens
<1>8. Tied(u, u.proc, cat, on, L)
  BY <1>3, <1>5, <1>6, <1>7, ReplyDone DEF Tied, Linked
<1> HIDE DEF on
<1> DEFINE v == Moved(u.sup, "candidate", "Handshaking")
           x == Moved(v, "candidate", "Preparing")
<1>9. CandidateSpawned(u.sup, i).ok /\ CandidateSpawned(u.sup, i).sup = v
  BY <1>3, <1>6 DEF CandidateSpawned, InState, Holds, Accept
<1>10. SupLike(v) /\ v.candidate.lifecycle = "Handshaking" /\ v.candidate.instance_id = i
       /\ v.retired = u.sup.retired /\ v.active = u.sup.active
  BY <1>3, <1>6, RoleNames, MovedLike
<1>11. Tied(m, u.proc, cat, on, L) /\ ~m.err /\ m.sup = v /\ m.stage = "Operational"
  <2> DEFINE a == CandidateSpawned(u.sup, i)
  <2>1. Mild(u.sup, a.sup) /\ a.ok /\ a.sup = v
    BY <1>6, <1>9, AnswersMild
  <2> HIDE DEF a, v
  <2>2. ~u.err /\ u.stage = "Operational"
    BY <1>5
  <2>3. Tied(Applied(u, a), u.proc, cat, on, L)
    BY <1>8, <2>1, <2>2, AppliedTied
  <2>4. Applied(u, a).stage = u.stage /\ Applied(u, a).sup = a.sup /\ Applied(u, a).err = ~a.ok
    BY <1>5, AppliedPlain
  <2> QED
    BY <2>1, <2>2, <2>3, <2>4 DEF a
<1> HIDE DEF m, v
<1>12. CandidateHandshakeComplete(m.sup, i).ok /\ CandidateHandshakeComplete(m.sup, i).sup = x
  BY <1>3, <1>10, <1>11 DEF CandidateHandshakeComplete, InState, Holds, Accept, Occupied
<1>13. SupLike(x) /\ x.candidate.lifecycle = "Preparing" /\ x.candidate.instance_id = i
       /\ x.retired = s.sup.retired /\ x.active = s.sup.active
  BY <1>6, <1>10, RoleNames, MovedLike
<1>14. Tied(p, u.proc, cat, on, L) /\ ~p.err /\ p.sup = x /\ p.stage = "Operational"
  <2> DEFINE a == CandidateHandshakeComplete(m.sup, i)
  <2>1. Mild(m.sup, a.sup) /\ a.ok /\ a.sup = x
    BY <1>10, <1>11, <1>12, AnswersMild
  <2> HIDE DEF a, x
  <2>2. Tied(Applied(m, a), u.proc, cat, on, L)
    BY <1>11, <2>1, AppliedTied
  <2>3. IsRecord(m)
    BY <1>11 DEF Tied, Shaped
  <2>4. Applied(m, a).stage = m.stage /\ Applied(m, a).sup = a.sup /\ Applied(m, a).err = ~a.ok
    BY <2>3, AppliedPlain
  <2> QED
    BY <1>11, <2>1, <2>2, <2>4 DEF a
<1> HIDE DEF p, x
<1>15. Tied(q, u.proc, cat, on, L)
  BY <1>14, RoleNames, IssueTied
<1>16. PhaseOf(p) = "AdoptingCandidate"
  BY <1>3, <1>4, <1>13, <1>14, AdoptingPhase DEF Occupied
<1>17. q.sup.candidate.instance_id = i /\ q.sup.active.instance_id = s.sup.active.instance_id
  <2>1. /\ IssueOrCompensate(p, "candidate", "AdoptListeners", bad).sup.candidate.instance_id
              = p.sup.candidate.instance_id
        /\ IssueOrCompensate(p, "candidate", "AdoptListeners", bad).sup.active.instance_id
              = p.sup.active.instance_id
    BY <1>14, <1>16, IssueKeepsCandidate
  <2> QED
    BY <1>13, <1>14, <2>1
<1> HIDE DEF q
<1>18. t = q
  BY <1>2, <1>11, <1>14
<1>19. ~IsRunning(t)
  BY <1>17, <1>18, RunningVacant, NoInstanceAssumption DEF Occupied
<1>20. Shaped(t, t.proc) /\ Listens(t.proc, L)
  BY <1>7, <1>15, <1>18, LaterListens DEF Tied
<1> QED
  BY <1>15, <1>17, <1>18, <1>19, <1>20 DEF Tied, on

LEMMA ActiveRetained ==
  ASSUME NEW c, NEW L, CatLike(c, L)
  PROVE  "Active" \in Retained(c) /\ "Candidate" \in CatalogRoles
<1>1. c.doc["Active"] # NoDocument
  BY CatalogAssumption DEF CatLike, NoDocument, Document
<1> QED
  BY <1>1 DEF Retained, CatalogRoles

LEMMA AllocateLike ==
  ASSUME NEW c, NEW L, CatLike(c, L)
  PROVE  CatLike(AllocateGeneration(c).cat, L) /\ AllocateGeneration(c).cat.doc = c.doc
<1> DEFINE n == [c EXCEPT !.next = @ + 1, !.high = c.next]
<1>1. n.doc = c.doc /\ DOMAIN n = DOMAIN c
  BY DEF CatLike
<1>2. AllocateGeneration(c).cat \in {c, n}
  BY DEF AllocateGeneration, Done, Refused
<1> HIDE DEF n
<1> QED
  BY <1>1, <1>2 DEF CatLike

LEMMA ConsumeLike ==
  ASSUME NEW c, NEW L, CatLike(c, L), NEW g
  PROVE  CatLike(Consume(c, g), L) /\ Consume(c, g).doc = c.doc
<1> DEFINE n == Consume(c, g)
<1>1. n.doc = c.doc /\ DOMAIN n = DOMAIN c
  BY DEF CatLike, Consume
<1> HIDE DEF n
<1>2. CatLike(n, L)
  BY <1>1 DEF CatLike
<1> QED
  BY <1>1, <1>2 DEF n

LEMMA RecordLike ==
  ASSUME NEW c, NEW L, CatLike(c, L), NEW g, NEW d, NEW n,
         n = RecordRestartRequired(c, Document(g, g, d)).cat
  PROVE  /\ CatLike(n, L) /\ n.doc["Active"] = c.doc["Active"] /\ n.doc["Candidate"] = c.doc["Candidate"]
<1> DEFINE m == Consume(c, g)
           x == Document(g, g, d)
           y == [m EXCEPT !.doc["RestartRequired"] = x]
<1>0. x.generation_id = g /\ x.instance_id = g
  BY DEF Document
<1> HIDE DEF x
<1>1. n = c \/ n = y
  BY <1>0 DEF RecordRestartRequired, Done, Refused, x
<1>2. CatLike(m, L) /\ m.doc = c.doc
  BY ConsumeLike
<1> HIDE DEF m
<1>3. /\ y.doc = [c.doc EXCEPT !["RestartRequired"] = x] /\ DOMAIN y = DOMAIN m
  BY <1>2 DEF CatLike
<1> HIDE DEF y
<1>4. /\ DOMAIN y.doc = CatalogRoles /\ y.doc["Active"] = c.doc["Active"]
      /\ y.doc["Candidate"] = c.doc["Candidate"]
      /\ \A role \in CatalogRoles : y.doc[role] \in {c.doc[role], x}
  BY <1>3 DEF CatLike, CatalogRoles
<1>5. CatLike(y, L)
  BY <1>0, <1>2, <1>3, <1>4 DEF CatLike
<1> QED
  BY <1>1, <1>4, <1>5

LEMMA BegunLike ==
  ASSUME NEW c, NEW L, CatLike(c, L), NEW g, NEW d \in Revisions, ListenersOf[d] = L, NEW answer,
         answer = BeginCandidate(c, Document(g, g, d))
  PROVE  /\ CatLike(answer.cat, L) /\ answer.cat.doc["Active"] = c.doc["Active"]
         /\ answer.ok => /\ answer.cat.doc["Candidate"].instance_id = g
                         /\ g > c.doc["Active"].generation_id
<1> DEFINE m == Consume(c, g)
           x == Document(g, g, d)
           y == [m EXCEPT !.doc["Candidate"] = x]
<1>0. x.generation_id = g /\ x.instance_id = g /\ x.revision = d
  BY DEF Document
<1> HIDE DEF x
<1>1. \/ answer = Refused(c)
      \/ answer = Done(y) /\ ValidGeneration(c, g)
  BY <1>0 DEF BeginCandidate, x
<1>2. CatLike(m, L) /\ m.doc = c.doc
  BY ConsumeLike
<1> HIDE DEF m
<1>3. /\ y.doc = [c.doc EXCEPT !["Candidate"] = x] /\ DOMAIN y = DOMAIN m
  BY <1>2 DEF CatLike
<1> HIDE DEF y
<1>4. /\ DOMAIN y.doc = CatalogRoles /\ y.doc["Active"] = c.doc["Active"] /\ y.doc["Candidate"] = x
      /\ \A role \in CatalogRoles : y.doc[role] \in {c.doc[role], x}
  BY <1>3 DEF CatLike, CatalogRoles
<1>5. CatLike(y, L)
  BY <1>0, <1>2, <1>3, <1>4 DEF CatLike
<1>6. ValidGeneration(c, g) => g > c.doc["Active"].generation_id
  BY ActiveRetained DEF ValidGeneration
<1>7. CASE answer = Refused(c)
  BY <1>7 DEF Refused
<1>8. CASE answer = Done(y) /\ ValidGeneration(c, g)
  <2>1. answer.cat = y
    BY <1>8 DEF Done
  <2> QED
    BY <1>0, <1>4, <1>5, <1>6, <1>8, <2>1
<1> QED
  BY <1>1, <1>7, <1>8

LEMMA RunningPhase ==
  ASSUME NEW s, IsRunning(s)
  PROVE  ~Occupied(s.sup.retired) /\ s.sup.active.lifecycle # "Reactivating" /\ s.sup # NoSupervisor
  BY DEF IsRunning, PhaseOf, Phase

\* A running master can begin the replacement the catalog has begun.
LEMMA BeginAccepted ==
  ASSUME NEW s, Good(s, {}), IsRunning(s), SupLike(s.sup), NEW i \in InstanceIds,
         i > s.sup.active.instance_id
  PROVE  Begin(s.sup, Instance(i, i, "Spawned")).ok
<1>1. s.stage = "Operational"
  BY DEF IsRunning
<1>2. s \in Masters /\ Matched(s)
  BY DEF Good, Net, Control
<1>3. Agree(s.sup) /\ s.sup \in Sups
  BY <1>1, <1>2, MasterFields DEF Matched
<1>4. ~Occupied(s.sup.candidate) /\ ~Occupied(s.sup.retired)
      /\ s.sup.active.lifecycle # "Reactivating"
  BY RunningVacant, RunningPhase
<1>5. s.sup.active.lifecycle = "Active"
  BY <1>3, <1>4 DEF Agree
<1>6. s.sup.active.generation_id = s.sup.active.instance_id /\ s.sup.active.instance_id \in Nat
      /\ i \in Nat
  BY RoleNames, IdTypes DEF SupLike, HolderLike
<1>7. i # s.sup.active.instance_id /\ i > s.sup.active.generation_id
  BY <1>6
<1> QED
  BY <1>4, <1>5, <1>7 DEF Begin, Instance, Accept

---------------------------------------------------------------------------
(* Reconciling keeps the links *)

\* After an iteration that left t, the catalog c follows t if on.
Follows(t, c, on, L) ==
    /\ CatLike(c, L) /\ Listens(t.proc, L) /\ Tied(t, t.proc, c, on, L)
    /\ on /\ ~t.err /\ t.stage = "Operational" =>
          c.doc["Active"].instance_id = t.sup.active.instance_id

LEMMA HandedOver ==
  ASSUME NEW t, NEW c, NEW on, NEW L, t.events = << >>, Shaped(t, t.proc), CatLike(c, L),
         Listens(t.proc, L), on => Linked(t, Done(c))
  PROVE  Follows(t, c, on, L)
<1>1. Done(c).ok /\ Done(c).cat = c
  BY DEF Done
<1>2. on /\ ~t.err /\ t.stage = "Operational" =>
          c.doc["Active"].instance_id = t.sup.active.instance_id
  BY <1>1 DEF Linked
<1>3. Tied(t, t.proc, c, on, L)
  BY ReplyDone DEF Tied
<1> QED
  BY <1>2, <1>3 DEF Follows

\* Only the error flag changes.
LEMMA FlagFacts ==
  ASSUME NEW s, NEW x, Shaped(s, s.proc), NEW t, t = [s EXCEPT !.err = x]
  PROVE  /\ Shaped(t, t.proc) /\ t.err = x /\ t.events = s.events /\ t.sup = s.sup /\ t.slot = s.slot
         /\ t.proc = s.proc /\ t.stage = s.stage /\ IsRecord(t)
<1>1. IsRecord(s)
  BY DEF Shaped
<1>2. Upd(s, t, {"err"}) /\ t.err = x
  BY <1>1 DEF Upd, IsRecord, Fields
<1>3. /\ IsRecord(t) /\ t.events = s.events /\ t.sup = s.sup /\ t.slot = s.slot /\ t.proc = s.proc
      /\ t.stage = s.stage
  BY <1>2 DEF Upd, Fields
<1>4. Shaped(t, t.proc)
  BY <1>3, QuietShaped
<1> QED
  BY <1>2, <1>3, <1>4

Cleared(s) == [s EXCEPT !.err = FALSE]

\* Reconcile reports an error of the replacement only if the master is not running.
Excused(s) == [s EXCEPT !.err = @ /\ ~IsRunning(s)]

LEMMA ClearedFacts ==
  ASSUME NEW s, Shaped(s, s.proc), NEW t, t = Cleared(s)
  PROVE  /\ Shaped(t, t.proc) /\ ~t.err /\ t.events = s.events /\ t.sup = s.sup /\ t.slot = s.slot
         /\ t.proc = s.proc /\ t.stage = s.stage /\ IsRecord(t)
  BY FlagFacts DEF Cleared

LEMMA ExcusedFacts ==
  ASSUME NEW s, Shaped(s, s.proc), NEW t, t = Excused(s)
  PROVE  /\ ~IsRunning(s) => (s.err => t.err)
         /\ Shaped(t, t.proc) /\ t.events = s.events /\ t.sup = s.sup /\ t.slot = s.slot
         /\ t.proc = s.proc /\ t.stage = s.stage /\ IsRecord(t)
<1> DEFINE x == s.err /\ ~IsRunning(s)
<1>1. Excused(s) = [s EXCEPT !.err = x] /\ (~IsRunning(s) => (s.err => x))
  BY DEF Excused
<1> HIDE DEF x
<1>2. t = [s EXCEPT !.err = x]
  BY <1>1
<1> QED
  BY <1>1, <1>2, FlagFacts

LEMMA FailedFollows ==
  ASSUME NEW s, NEW c, NEW on, NEW L, s.events = << >>, Shaped(s, s.proc), CatLike(c, L),
         Listens(s.proc, L)
  PROVE  Follows(Fail(s), c, on, L)
<1> DEFINE t == Fail(s)
<1>1. /\ Shaped(t, t.proc) /\ t.err = TRUE /\ t.events = << >> /\ t.proc = s.proc
  BY FlagFacts DEF Fail
<1> HIDE DEF t
<1>2. Linked(t, Done(c))
  BY <1>1 DEF Linked
<1>3. Follows(t, c, on, L)
  BY <1>1, <1>2, HandedOver
<1> QED
  BY <1>3 DEF t

\* The candidate could not be spawned: the event that says so is still queued.
LEMMA UnspawnedFollows ==
  ASSUME NEW s, NEW i \in InstanceIds, NEW c, NEW L, s.events = << >>, Shaped(s, s.proc), CatLike(c, L),
         Listens(s.proc, L), s.stage = "Operational",
         c.doc["Active"].instance_id = s.sup.active.instance_id,
         NEW t, t = Cleared(Fail(Emit(s, "SpawnFailed", i, NoInstance)))
  PROVE  Follows(t, c, TRUE, L)
<1> DEFINE e == Emit(s, "SpawnFailed", i, NoInstance)
           f == Fail(e)
           off == FALSE
<1>0. Tied(s, s.proc, c, off, L)
  BY ReplyDone DEF Tied
<1> HIDE DEF off
<1>1. "SpawnFailed" \in Ended \cup Finished /\ i \in Ids /\ "SpawnFailed" \in Ended
  BY DEF Ended, Ids
<1>2. /\ Tied(e, s.proc, c, off, L) /\ e.stage = s.stage /\ e.sup = s.sup
      /\ Reply(e, c).ok => /\ Reply(e, c).cat.doc["Active"] = c.doc["Active"]
                           /\ Reply(e, c).cat.doc["Candidate"] = NoDocument
  <2>1. Reply(s, c).cat = c
    BY ReplyDone
  <2> QED
    BY <1>0, <1>1, <2>1, EmitTied
<1>3. e.proc = s.proc
  <2>1. IsRecord(s)
    BY DEF Shaped
  <2> QED
    BY <2>1 DEF Emit, IsRecord, Fields
<1> HIDE DEF e
<1>4. Shaped(e, e.proc) /\ CatLike(Reply(e, c).cat, L)
  BY <1>2, <1>3 DEF Tied
<1>5. /\ Shaped(f, f.proc) /\ f.events = e.events /\ f.sup = e.sup /\ f.proc = e.proc /\ f.stage = e.stage
  BY <1>4, FlagFacts DEF Fail
<1> HIDE DEF f
<1>6. /\ Shaped(t, t.proc) /\ t.events = e.events /\ t.sup = e.sup /\ t.proc = e.proc /\ t.stage = e.stage
  <2>1. t = Cleared(f)
    BY DEF f, e
  <2> QED
    BY <1>5, <2>1, ClearedFacts
<1>7. Reply(t, c) = Reply(e, c)
  BY <1>6 DEF Reply
<1>8. Linked(t, Reply(e, c))
  BY <1>2, <1>6 DEF Linked
<1> QED
  BY <1>2, <1>3, <1>4, <1>6, <1>7, <1>8 DEF Follows, Tied

\* A replacement is begun for the candidate document of c.
LEMMA ReplacedFollows ==
  ASSUME NEW s, NEW i \in InstanceIds, NEW d, NEW spawned \in BOOLEAN, NEW bad, NEW c, NEW L, Good(s, {}), ~s.err,
         s.events = << >>, Shaped(s, s.proc), CatLike(c, L), Listens(s.proc, L), ListenersOf[d] = L,
         IsRunning(s) => c.doc["Active"].instance_id = s.sup.active.instance_id,
         c.doc["Candidate"].instance_id = i, i > c.doc["Active"].generation_id,
         NEW r, r = Replace(s, i, Newborn(d), spawned, bad), NEW t, t = Excused(r)
  PROVE  Follows(t, c, TRUE, L)
<1> DEFINE answer == Begin(s.sup, Instance(i, i, "Spawned"))
           e == Emit(s, "SpawnFailed", i, NoInstance)
           on == TRUE
<1>1. CASE ~IsRunning(s)
  <2>1. r = Fail(s)
    BY <1>1 DEF Replace
  <2>2. /\ Shaped(r, r.proc) /\ r.err = TRUE /\ r.stage = s.stage /\ r.sup = s.sup
    BY <2>1, FlagFacts DEF Fail
  <2>3. ~IsRunning(r)
    BY <1>1, <2>2 DEF IsRunning, PhaseOf
  <2>4. Excused(r) = [r EXCEPT !.err = TRUE]
    BY <2>2, <2>3 DEF Excused
  <2>5. [r EXCEPT !.err = TRUE] = Fail(s)
    BY <2>1 DEF Fail, Shaped, IsRecord, Fields
  <2> HIDE DEF on
  <2>6. Follows(t, c, on, L)
    <3>1. t = Fail(s)
      BY <2>4, <2>5
    <3> QED
      BY <3>1, FailedFollows
  <2> QED
    BY <2>6 DEF on
<1>2. CASE IsRunning(s)
  <2>1. s.stage = "Operational" /\ c.doc["Active"].instance_id = s.sup.active.instance_id
    BY <1>2 DEF IsRunning
  <2>2. answer.ok
    <3>1. c.doc["Active"].generation_id = c.doc["Active"].instance_id
      BY DEF CatLike, CatalogRoles
    <3>2. SupLike(s.sup)
      BY DEF Shaped
    <3> QED
      BY <1>2, <2>1, <3>1, <3>2, BeginAccepted
  <2>3. CASE ~spawned
    <3>1. r = Fail(e)
      BY <1>2, <2>2, <2>3 DEF Replace
    <3>2. IsRunning(r)
      <4>1. IsRecord(s)
        BY DEF Shaped
      <4>2. r.stage = s.stage /\ r.sup = s.sup
        BY <3>1, <4>1 DEF Fail, Emit, IsRecord, Fields
      <4> QED
        BY <1>2, <4>2 DEF IsRunning, PhaseOf
    <3>3. t = Cleared(Fail(e))
      BY <3>1, <3>2 DEF Excused, Cleared
    <3> QED
      BY <2>1, <3>3, UnspawnedFollows
  <2>4. CASE spawned
    <3>3. /\ Tied(r, r.proc, c, on, L) /\ Listens(r.proc, L) /\ ~IsRunning(r)
          /\ r.sup.active.instance_id = s.sup.active.instance_id
      <4> HIDE DEF answer
      <4>1. answer = Begin(s.sup, Instance(i, i, "Spawned"))
        BY DEF answer
      <4>2. /\ Tied(r, r.proc, c, TRUE, L) /\ Listens(r.proc, L) /\ ~IsRunning(r)
            /\ r.sup.active.instance_id = s.sup.active.instance_id
        BY <1>2, <2>1, <2>2, <2>4, <4>1, SpawnedTied
      <4> QED
        BY <4>2 DEF on
    <3> HIDE DEF on
    <3>4. Shaped(r, r.proc)
      BY <3>3 DEF Tied
    <3>5. /\ t.events = r.events /\ t.sup = r.sup /\ t.slot = r.slot
          /\ t.proc = r.proc /\ t.stage = r.stage /\ IsRecord(t)
      BY <3>4, ExcusedFacts
    <3>6. r.err => t.err
      BY <3>3, <3>4, ExcusedFacts
    <3>7. Tied(t, r.proc, c, on, L)
      BY <3>3, <3>5, <3>6, QuietTied
    <3> QED
      BY <2>1, <3>3, <3>5, <3>7 DEF Follows, on
  <2> QED
    BY <2>3, <2>4
<1> QED
  BY <1>1, <1>2

LEMMA ReconcileFollows ==
  ASSUME NEW s, NEW cat, NEW d \in Revisions, NEW spawned \in BOOLEAN, NEW bad, NEW L, Good(s, {}), ~s.err,
         s.events = << >>, Shaped(s, s.proc), CatLike(cat, L), Listens(s.proc, L),
         Linked(s, Done(cat)), cat.next \in InstanceIds, NEW r, r = Reconcile(s, cat, d, spawned, bad)
  PROVE  Follows(r.master, r.cat, TRUE, L)
<1> DEFINE on == TRUE
           active == cat.doc["Active"].revision
           g == cat.next
           allocated == AllocateGeneration(cat)
           document == Document(g, g, d)
           recorded == RecordRestartRequired(allocated.cat, document)
           begun == BeginCandidate(allocated.cat, document)
           replaced == Replace(s, g, Newborn(d), spawned, bad)
           flagged == [s EXCEPT !.err = ~recorded.ok]
<1>1. \/ r.master = s /\ r.cat = cat
      \/ r.master = Fail(s) /\ r.cat = cat
      \/ r.master = flagged /\ r.cat = recorded.cat
      \/ r.master = Fail(s) /\ r.cat = begun.cat /\ ListenersOf[active] = ListenersOf[d]
      \/ /\ r.master = Excused(replaced) /\ r.cat = begun.cat /\ begun.ok
         /\ ListenersOf[active] = ListenersOf[d]
  BY DEF Reconcile, Excused, RestartRequired
<1> HIDE DEF on
<1>2. CatLike(allocated.cat, L) /\ allocated.cat.doc = cat.doc /\ ListenersOf[active] = L
  BY AllocateLike DEF CatLike
<1> HIDE DEF allocated, active
<1>3. CASE r.master = s /\ r.cat = cat
  <2>1. Follows(s, cat, on, L)
    BY HandedOver
  <2> QED
    BY <1>3, <2>1 DEF on
<1>4. CASE r.master = Fail(s) /\ r.cat = cat
  <2>1. Follows(Fail(s), cat, on, L)
    BY FailedFollows
  <2> QED
    BY <1>4, <2>1 DEF on
<1>5. CASE r.master = flagged /\ r.cat = recorded.cat
  <2>1. /\ CatLike(recorded.cat, L) /\ recorded.cat.doc["Active"] = cat.doc["Active"]
        /\ recorded.cat.doc["Candidate"] = cat.doc["Candidate"]
    BY <1>2, RecordLike
  <2> DEFINE n == recorded.cat
             x == ~recorded.ok
  <2>2. /\ Shaped(flagged, flagged.proc) /\ flagged.events = s.events /\ flagged.sup = s.sup
        /\ flagged.slot = s.slot /\ flagged.proc = s.proc /\ flagged.stage = s.stage
    <3> HIDE DEF x
    <3>1. flagged = [s EXCEPT !.err = x]
      BY DEF x
    <3> HIDE DEF flagged
    <3> QED
      BY <3>1, FlagFacts
  <2> HIDE DEF flagged, recorded
  <2>3. Linked(flagged, Done(n))
    BY <2>1, <2>2 DEF Linked, Done
  <2>4. Follows(flagged, n, on, L)
    BY <2>1, <2>2, <2>3, HandedOver
  <2> QED
    BY <1>5, <2>4 DEF on
<1>6. ASSUME ListenersOf[active] = ListenersOf[d]
      PROVE  /\ CatLike(begun.cat, L) /\ begun.cat.doc["Active"] = cat.doc["Active"]
             /\ begun.ok => /\ begun.cat.doc["Candidate"].instance_id = g
                            /\ g > begun.cat.doc["Active"].generation_id
  BY <1>2, <1>6, BegunLike
<1>7. CASE r.master = Fail(s) /\ r.cat = begun.cat /\ ListenersOf[active] = ListenersOf[d]
  <2>1. Follows(Fail(s), begun.cat, on, L)
    <3> HIDE DEF begun
    <3> QED
      BY <1>6, <1>7, FailedFollows
  <2> QED
    BY <1>7, <2>1 DEF on
<1>8. CASE /\ r.master = Excused(replaced) /\ r.cat = begun.cat /\ begun.ok
           /\ ListenersOf[active] = ListenersOf[d]
  <2>1. IsRunning(s) => begun.cat.doc["Active"].instance_id = s.sup.active.instance_id
    BY <1>6, <1>8 DEF Linked, Done, IsRunning
  <2> DEFINE c == begun.cat
             t == Excused(replaced)
  <2>2. /\ CatLike(c, L) /\ (IsRunning(s) => c.doc["Active"].instance_id = s.sup.active.instance_id)
        /\ c.doc["Candidate"].instance_id = g /\ g > c.doc["Active"].generation_id
        /\ g \in InstanceIds /\ ListenersOf[d] = L
    BY <1>2, <1>6, <1>8, <2>1
  <2>3. replaced = Replace(s, g, Newborn(d), spawned, bad) /\ t = Excused(replaced)
    OBVIOUS
  <2> HIDE DEF c, t, g, replaced
  <2>4. Follows(t, c, TRUE, L)
    BY <2>2, <2>3, ReplacedFollows
  <2> QED
    BY <1>8, <2>4 DEF c, t
<1> QED
  BY <1>1, <1>3, <1>4, <1>5, <1>7, <1>8

---------------------------------------------------------------------------
(* The catalog and the workers of the service *)

Driving == runner = "driving"

\* The listeners that the active document binds.
Bound == ListenersOf[catalog.doc["Active"].revision]

\* Every worker that runs binds them; the catalog follows the master while the runner
\* drives, also through the events it has yet to take.
CInv ==
    IF Booted THEN Follows(Sys, catalog, Driving, Bound)
    ELSE /\ CatLike(catalog, Bound) /\ Listens(proc, Bound) /\ Shaped(Sys, proc) /\ events = << >>
         /\ catalog.doc["Active"].instance_id = 1 /\ catalog.doc["Candidate"] = NoDocument

LEMMA BoundListens == CInv => CatLike(catalog, Bound) /\ Listens(proc, Bound)
  BY SysFields DEF CInv, Follows

\* The primed record, after a call that left t.
LEMMA NextSys ==
  ASSUME NEW t, Becomes(t)
  PROVE  /\ IsRecord(Sys') /\ Sys'.stage = t.stage /\ Sys'.sup = t.sup /\ Sys'.slot = t.slot
         /\ Sys'.proc = t.proc /\ Sys'.events = events' /\ Sys'.err = FALSE
  BY DEF Sys, IsRecord, Fields, Becomes

LEMMA NextShaped ==
  ASSUME NEW t, Becomes(t), Shaped(t, t.proc), events' \in Seq(MasterEvents)
  PROVE  Shaped(Sys', Sys'.proc)
  BY NextSys DEF Shaped

LEMMA NextBooted ==
  ASSUME NEW t, Becomes(t), Good(t, {})
  PROVE  Booted'
  BY DEF Becomes, Booted, Good, Net, Launched

LEMMA NextBound ==
  ASSUME NEW L, CatLike(catalog', L)
  PROVE  Bound' = L
  BY DEF CatLike, Bound

\* The runner does not drive any more.
LEMMA LandsLoosely ==
  ASSUME NEW t, NEW L, Becomes(t), Good(t, {}), Shaped(t, t.proc), events' \in Seq(MasterEvents),
         CatLike(catalog', L), Listens(t.proc, L), CatLike(ApplyCatalogEvents(catalog', events').cat, L),
         runner' # "driving"
  PROVE  CInv'
<1> DEFINE u == Sys'
<1>1. Shaped(u, u.proc) /\ u.proc = t.proc /\ u.events = events'
  BY NextShaped, NextSys
<1>2. ~Driving'
  BY DEF Driving
<1> HIDE DEF u
<1>3. Tied(u, u.proc, catalog', Driving', L)
  BY <1>1, <1>2 DEF Tied, Reply
<1>4. Follows(u, catalog', Driving', L)
  BY <1>1, <1>2, <1>3 DEF Follows
<1> QED
  BY <1>4, NextBooted, NextBound DEF CInv, u

\* The events of the call have been taken.
LEMMA LandsTaken ==
  ASSUME NEW t, NEW L, Becomes(t), Good(t, {}), Shaped(t, t.proc), events' = << >>,
         CatLike(catalog', L), Listens(t.proc, L),
         runner' = "driving" => /\ Linked(t, Done(catalog'))
                                /\ t.err => t.stage \in {"Failing", "Failed"}
  PROVE  CInv'
<1> DEFINE u == Sys'
<1>0. events' \in Seq(MasterEvents)
  OBVIOUS
<1>1. /\ Shaped(u, u.proc) /\ u.proc = t.proc /\ u.events = << >> /\ u.stage = t.stage
      /\ u.sup = t.sup /\ u.slot = t.slot
  BY <1>0, NextShaped, NextSys
<1> HIDE DEF u
<1>2. Driving' => Linked(u, Done(catalog'))
  BY <1>1 DEF Driving, Linked
<1>3. Follows(u, catalog', Driving', L)
  BY <1>1, <1>2, HandedOver
<1> QED
  BY <1>3, NextBooted, NextBound DEF CInv, u

\* The events of the call are still queued.
LEMMA LandsQueued ==
  ASSUME NEW t, NEW L, NEW on, Becomes(t), Good(t, {}), events' = t.events, Follows(t, catalog', on, L),
         runner' = "driving" => ~t.err /\ on
  PROVE  CInv'
<1> DEFINE u == Sys'
<1>0. Shaped(t, t.proc) /\ events' \in Seq(MasterEvents)
  BY DEF Follows, Tied, Shaped
<1>1. /\ Shaped(u, u.proc) /\ u.proc = t.proc /\ u.events = t.events /\ u.stage = t.stage
      /\ u.sup = t.sup /\ u.slot = t.slot
  BY <1>0, NextShaped, NextSys
<1> HIDE DEF u
<1>2. Reply(u, catalog') = Reply(t, catalog')
  BY <1>1 DEF Reply
<1>3. Driving' => on /\ ~t.err
  BY DEF Driving
<1>4. Driving' => Linked(u, Reply(t, catalog'))
  BY <1>1, <1>3 DEF Follows, Tied, Linked
<1>5. CatLike(Reply(t, catalog').cat, L) /\ CatLike(catalog', L) /\ Listens(t.proc, L)
  BY DEF Follows, Tied
<1>6. Tied(u, u.proc, catalog', Driving', L)
  BY <1>1, <1>2, <1>4, <1>5 DEF Tied
<1>7. Driving' /\ ~u.err /\ u.stage = "Operational" =>
          catalog'.doc["Active"].instance_id = u.sup.active.instance_id
  BY <1>1, <1>3 DEF Follows
<1>8. Follows(u, catalog', Driving', L)
  BY <1>1, <1>5, <1>6, <1>7 DEF Follows
<1>9. Booted' /\ Bound' = L
  BY <1>5, NextBooted, NextBound
<1> QED
  BY <1>8, <1>9 DEF CInv, u

\* The workers of s some time later, and nothing else changed.
LEMMA LaterFollows ==
  ASSUME NEW s, NEW t, NEW c, NEW on, NEW L, Follows(s, c, on, L), Upd(s, t, {"proc"}),
         DOMAIN t.proc = InstanceIds, \A i \in InstanceIds : Later(s.proc[i], t.proc[i])
  PROVE  Follows(t, c, on, L)
<1>1. /\ IsRecord(t) /\ t.events = s.events /\ t.stage = s.stage /\ t.sup = s.sup /\ t.slot = s.slot
      /\ t.err = s.err
  BY DEF Upd, Fields
<1>2. Tied(s, s.proc, c, on, L) /\ Shaped(s, s.proc) /\ Listens(s.proc, L)
  BY DEF Follows, Tied
<1>3. Shaped(t, s.proc)
  BY <1>1, <1>2 DEF Shaped
<1>4. Tied(t, s.proc, c, on, L)
  BY <1>1, <1>2, <1>3, SameTied
<1>5. Shaped(t, t.proc) /\ Listens(t.proc, L)
  BY <1>2, <1>3, LaterListens
<1>6. Tied(t, t.proc, c, on, L)
  BY <1>4, <1>5 DEF Tied
<1> QED
  BY <1>1, <1>5, <1>6 DEF Follows

---------------------------------------------------------------------------
(* What a worker does keeps its revision *)

\* q is p with the same revision.
Kin(p, q) == DOMAIN q = DOMAIN p /\ q.revision = p.revision

LEMMA ProcLike ==
  ASSUME NEW p \in Procs
  PROVE  DOMAIN p = {"run", "revision", "linked", "startup", "gate", "handle", "inbox", "outbox"}
  BY DEF Procs

LEMMA AcknowledgedKin ==
  ASSUME NEW p \in Procs, NEW ok
  PROVE  Kin(p, Acknowledged(p, ok)) /\ Kin(p, Leaves(Acknowledged(p, ok)))
<1> DEFINE a == Acknowledged(p, ok)
<1>1. DOMAIN a = DOMAIN p /\ a.revision = p.revision
  BY ProcLike DEF Acknowledged
<1> HIDE DEF a
<1>2. Kin(p, Leaves(a))
  BY <1>1, ProcLike DEF Leaves, Kin
<1> QED
  BY <1>1, <1>2 DEF Kin, a

LEMMA TurnKin ==
  ASSUME NEW p \in Procs, NEW d, NEW ok \in BOOLEAN
  PROVE  Kin(p, Turn(p, d, ok))
<1>1. /\ Kin(p, Acknowledged(p, ok)) /\ Kin(p, Acknowledged(p, TRUE)) /\ Kin(p, Acknowledged(p, FALSE))
      /\ Kin(p, Acknowledged(p, p.handle))
      /\ Kin(p, Leaves(Acknowledged(p, ok))) /\ Kin(p, Leaves(Acknowledged(p, FALSE)))
  BY AcknowledgedKin
<1>2. ASSUME NEW a, Kin(p, a), NEW x
      PROVE  /\ Kin(p, [a EXCEPT !.startup = x]) /\ Kin(p, [a EXCEPT !.gate = x])
             /\ Kin(p, [a EXCEPT !.handle = x]) /\ Kin(p, Leaves(a))
  BY <1>2, ProcLike DEF Kin, Leaves
<1>3. ASSUME NEW a, Kin(p, a), NEW x, NEW y
      PROVE  /\ Kin(p, [a EXCEPT !.startup = x, !.gate = y]) /\ Kin(p, [a EXCEPT !.gate = x, !.handle = y])
             /\ Kin(p, Leaves([a EXCEPT !.startup = x]))
  BY <1>3, ProcLike DEF Kin, Leaves
<1>4. Kin(p, AdoptFirst(p, d, ok))
  BY <1>1, <1>2 DEF AdoptFirst
<1>5. Kin(p, Reactivated(p))
  BY <1>1, ProcLike DEF Reactivated, Kin
<1>6. /\ Kin(p, [Acknowledged(p, TRUE) EXCEPT !.startup = "done", !.gate = "open"])
      /\ Kin(p, Leaves([Acknowledged(p, FALSE) EXCEPT !.startup = "done"]))
      /\ Kin(p, [Acknowledged(p, ok) EXCEPT !.gate = "closed", !.handle = TRUE])
      /\ Kin(p, [Acknowledged(p, ok) EXCEPT !.gate = "closed", !.handle = FALSE])
  BY <1>1, <1>3
<1>7. Kin(p, ServeRequest(p, ok))
  BY <1>1, <1>5, <1>6 DEF ServeRequest
<1> QED
  BY <1>4, <1>7 DEF Turn

LEMMA KinLater ==
  ASSUME NEW p \in Procs, NEW q, Kin(p, q), Runs(p) \/ ~Runs(q)
  PROVE  Later(p, q)
  BY ProcLike DEF Kin, Later

LEMMA GoneLater ==
  ASSUME NEW p \in Procs
  PROVE  Later(p, Gone(p))
  BY ProcLike DEF Later, Gone, Unborn, Runs

LEMMA HungUpKin ==
  ASSUME NEW p \in Procs
  PROVE  Kin(p, HungUp(p))
  BY ProcLike DEF Kin, HungUp, Leaves

LEMMA WorkerLands ==
  ASSUME NEW i \in InstanceIds, NEW q, IInv, CInv, proc[i].run # "unborn",
         Good(Sys, {}) => Moves(proc[i], q, nextReq), Good(Sys, {}) => Later(proc[i], q),
         WorkerChanges(i, q)
  PROVE  CInv'
<1>1. Good(Sys, {})
  BY FreshFacts DEF IInv
<1> DEFINE t == [Sys EXCEPT !.proc = [proc EXCEPT ![i] = q]]
<1>2. Upd(Sys, t, {"proc"}) /\ t.proc = [proc EXCEPT ![i] = q]
  BY SysFields DEF Upd, IsRecord, Fields
<1> HIDE DEF t
<1>3. Good(t, {})
  BY <1>1, <1>2, SysFields, MovesGood
<1>4. /\ t.stage = stage /\ t.forced = forced /\ t.sup = sup /\ t.slot = slot /\ t.events = events
      /\ t.deferred = deferred /\ t.failure = failure /\ t.nextReq = nextReq /\ t.err = FALSE
  BY <1>2, SysFields DEF Upd, Fields
<1>5. Becomes(t) /\ events' = t.events /\ catalog' = catalog /\ runner' = runner
  BY <1>2, <1>4 DEF Becomes, WorkerChanges, masterVars
<1>6. Follows(Sys, catalog, Driving, Bound)
  BY <1>1, GoodFacts DEF CInv
<1>7. /\ DOMAIN proc = InstanceIds /\ \A j \in InstanceIds : Later(proc[j], proc[j])
  BY <1>6, SysFields DEF Follows, Tied, Shaped
<1>8. DOMAIN t.proc = InstanceIds /\ \A j \in InstanceIds : Later(Sys.proc[j], t.proc[j])
  BY <1>1, <1>2, <1>7, SysFields
<1>9. Follows(t, catalog', Driving, Bound)
  BY <1>2, <1>5, <1>6, <1>8, LaterFollows
<1>10. runner' = "driving" => ~t.err /\ Driving
  BY <1>4, <1>5 DEF Driving
<1> QED
  BY <1>3, <1>5, <1>9, <1>10, LandsQueued

LEMMA WorkerCInv ==
  ASSUME IInv, CInv, NEW i \in InstanceIds,
         Serve(i) \/ HangUp(i) \/ Exit(i) \/ Crash(i) \/ BadFrame(i)
  PROVE  CInv'
<1>1. CASE Serve(i)
  <2>1. PICK ok \in Answers(i) : WorkerChanges(i, Turn(proc[i], disk, ok))
    BY <1>1 DEF Serve
  <2>2. ok \in BOOLEAN
    BY Zenon DEF Answers
  <2>3. Reads(proc[i]) /\ proc[i].run # "unborn" /\ Runs(proc[i])
    BY <1>1 DEF Serve, Reads, Runs
  <2>4. Good(Sys, {}) => Moves(proc[i], Turn(proc[i], disk, ok), nextReq)
    BY <2>2, <2>3, GoodFacts, ServeMoves
  <2>5. Good(Sys, {}) => Later(proc[i], Turn(proc[i], disk, ok))
    BY <2>2, <2>3, GoodFacts, TurnKin, KinLater
  <2> QED
    BY <2>1, <2>3, <2>4, <2>5, WorkerLands
<1>2. CASE HangUp(i)
  <2>1. Good(Sys, {}) => Moves(proc[i], HungUp(proc[i]), nextReq)
    BY <1>2, GoodFacts, HungUpMoves DEF HangUp
  <2>2. Good(Sys, {}) => Later(proc[i], HungUp(proc[i]))
    BY <1>2, GoodFacts, HungUpKin, KinLater DEF HangUp, Runs
  <2> QED
    BY <1>2, <2>1, <2>2, WorkerLands DEF HangUp
<1>3. CASE Exit(i)
  <2>1. Good(Sys, {}) => Moves(proc[i], Gone(proc[i]), nextReq) /\ Later(proc[i], Gone(proc[i]))
    BY GoodFacts, GoneMoves, GoneLater
  <2> QED
    BY <1>3, <2>1, WorkerLands DEF Exit
<1>4. CASE Crash(i)
  <2>0. proc[i].run = "live"
    BY <1>4 DEF Crash
  <2>1. Good(Sys, {}) => Moves(proc[i], HungUp(proc[i]), nextReq) /\ Later(proc[i], HungUp(proc[i]))
    BY <2>0, GoodFacts, HungUpMoves, HungUpKin, KinLater DEF Runs
  <2>2. Good(Sys, {}) => Moves(proc[i], Gone(proc[i]), nextReq) /\ Later(proc[i], Gone(proc[i]))
    BY GoodFacts, GoneMoves, GoneLater
  <2>3. WorkerChanges(i, Gone(proc[i])) \/ WorkerChanges(i, HungUp(proc[i]))
    BY <1>4 DEF Crash
  <2> QED
    BY <2>0, <2>1, <2>2, <2>3, WorkerLands
<1>5. CASE BadFrame(i)
  <2> DEFINE f == [kind |-> "Bad", req |-> 0, phase |-> "None", ok |-> FALSE]
             q == [proc[i] EXCEPT !.outbox = Append(@, f)]
  <2>0. proc[i].run = "live" /\ WorkerChanges(i, q)
    BY <1>5 DEF BadFrame
  <2>1. f \in Frames /\ f.kind = "Bad" /\ f.req = 0
    BY DEF Frames, Phases
  <2> HIDE DEF f
  <2>2. Good(Sys, {}) => Moves(proc[i], q, nextReq)
    BY <2>0, <2>1, GoodFacts, BadFrameMoves
  <2>3. Good(Sys, {}) => Later(proc[i], q)
    <3> SUFFICES ASSUME proc[i] \in Procs PROVE Later(proc[i], q)
      BY GoodFacts
    <3>1. Kin(proc[i], q)
      BY ProcLike DEF Kin
    <3> QED
      BY <2>0, <3>1, KinLater DEF Runs
  <2> QED
    BY <2>0, <2>2, <2>3, WorkerLands
<1> QED
  BY <1>1, <1>2, <1>3, <1>4, <1>5

---------------------------------------------------------------------------
(* The steps of the runner *)

LEMMA InitCInv ==
  ASSUME Init
  PROVE  CInv
<1>0. NoRevision \notin Revisions /\ NoDocumentId = NoInstance /\ NoInstance = 0 /\ disk \in Revisions
  BY CatalogAssumption, RunnerAssumption, IdTypes DEF Init
<1>1. /\ DOMAIN catalog = {"doc", "next", "high", "consumed"}
      /\ catalog.doc = [role \in CatalogRoles |-> IF role = "Active" THEN Document(1, 1, disk) ELSE NoDocument]
  BY DEF Init, NewCatalog
<1>2. /\ catalog.doc["Active"] = Document(1, 1, disk) /\ catalog.doc["Candidate"] = NoDocument
      /\ DOMAIN catalog.doc = CatalogRoles
      /\ \A role \in CatalogRoles : catalog.doc[role] \in {Document(1, 1, disk), NoDocument}
  BY <1>1 DEF CatalogRoles
<1>3. /\ Document(1, 1, disk).generation_id = 1 /\ Document(1, 1, disk).instance_id = 1
      /\ Document(1, 1, disk).revision = disk
      /\ NoDocument.generation_id = NoDocument.instance_id
  BY <1>0 DEF Document, NoDocument
<1>4. CatLike(catalog, Bound)
  BY <1>0, <1>1, <1>2, <1>3 DEF CatLike, Bound
<1>5. /\ DOMAIN proc = InstanceIds /\ \A i \in InstanceIds : proc[i] = Unborn(NoRevision)
      /\ slot = [role \in Roles |-> NoSlot] /\ sup = NoSupervisor /\ events = << >>
  BY DEF Init
<1>6. \A i \in InstanceIds : Later(proc[i], proc[i]) /\ ~Runs(proc[i])
  <2> DEFINE p == Unborn(NoRevision)
  <2>1. Later(p, p) /\ ~Runs(p)
    BY DEF Later, Unborn, Runs
  <2> HIDE DEF p
  <2>2. \A i \in InstanceIds : proc[i] = p
    BY <1>5 DEF p
  <2> QED
    BY <2>1, <2>2
<1>7. SupLike(sup)
  BY <1>5, VacantLike DEF SupLike, NoSupervisor, Roles
<1>8. Shaped(Sys, proc)
  BY <1>5, <1>6, <1>7, NoSlotLike, SysFields DEF Shaped
<1>9. ~Booted /\ Listens(proc, Bound)
  BY <1>5, <1>6, FirstId, UnbornFacts DEF Booted, Listens
<1> QED
  BY <1>2, <1>3, <1>4, <1>5, <1>8, <1>9 DEF CInv

LEMMA LaunchFirstCInv ==
  ASSUME IInv, CInv, LaunchFirst
  PROVE  CInv'
<1>1. Fresh(Sys) /\ catalog.doc["Active"].revision \in Revisions /\ ~Booted
  BY GoodFacts DEF IInv, LaunchFirst
<1> DEFINE d == catalog.doc["Active"].revision
<1>2. PICK bad \in BadSends : Becomes(Launch(Sys, 1, Newborn(d), bad))
  BY DEF LaunchFirst, Paying
<1> DEFINE t == Launch(Sys, 1, Newborn(d), bad)
<1>3. Good(t, {})
  BY <1>1, LaunchGood
<1>4. /\ CatLike(catalog, Bound) /\ Listens(proc, Bound) /\ Shaped(Sys, proc) /\ events = << >>
      /\ catalog.doc["Active"].instance_id = 1 /\ catalog.doc["Candidate"] = NoDocument
  BY <1>1 DEF CInv
<1>5. Tied(t, t.proc, catalog, TRUE, Bound) /\ Listens(t.proc, Bound) /\ Linked(t, Done(catalog))
      /\ (t.err => t.stage \in {"Failing", "Failed"})
  <2>1. ListenersOf[d] = Bound
    BY DEF Bound
  <2>2. Sys.stage = "BootAdopting" /\ Sys.events = << >> /\ ~Sys.err /\ Sys.proc = proc
    BY <1>1, <1>4, FreshFacts, SysFields
  <2> HIDE DEF d
  <2> QED
    BY <1>4, <2>1, <2>2, LaunchTied
<1> HIDE DEF t
<1>6. Shaped(t, t.proc)
  BY <1>5 DEF Tied
<1>7. Becomes(t)
  BY <1>2 DEF t
<1>8. catalog' = catalog /\ events' = << >>
  BY <1>4 DEF LaunchFirst
<1> QED
  BY <1>3, <1>4, <1>5, <1>6, <1>7, <1>8, LandsTaken

\* What a poll leaves.
LEMMA PollFollows ==
  ASSUME IInv, CInv, Good(Sys, {}), NEW due, NEW bad, NEW t, t = Poll(Sys, due, bad)
  PROVE  /\ Tied(t, t.proc, catalog, Driving, Bound) /\ Listens(t.proc, Bound) /\ CatLike(catalog, Bound)
         /\ Shaped(t, t.proc) /\ t.events \in Seq(MasterEvents)
<1>1. Tied(Sys, proc, catalog, Driving, Bound) /\ Listens(proc, Bound) /\ CatLike(catalog, Bound)
  BY GoodFacts, SysFields DEF CInv, Follows
<1>2. Tied(t, proc, catalog, Driving, Bound)
  <2>1. ~Sys.err
    BY SysFields
  <2> QED
    BY <1>1, <2>1, PollTied
<1>3. Shaped(t, t.proc) /\ Listens(t.proc, Bound)
  BY <1>1, <1>2, LaterListens DEF Tied
<1>4. Tied(t, t.proc, catalog, Driving, Bound)
  BY <1>2, <1>3 DEF Tied
<1> QED
  BY <1>1, <1>3, <1>4 DEF Shaped

LEMMA DrivePollCInv ==
  ASSUME IInv, CInv, NEW due \in BOOLEAN, DrivePoll(due)
  PROVE  CInv'
<1>1. Good(Sys, {}) /\ runner = "driving"
  BY FreshFacts DEF IInv, DrivePoll
<1>2. PICK bad \in BadSends : Polled(Poll(Sys, due, bad), bad)
  BY DEF DrivePoll
<1> DEFINE t == Poll(Sys, due, bad)
<1>3. Good(t, {}) /\ Polled(t, bad)
  BY <1>1, <1>2, PollGood
<1>4. /\ Tied(t, t.proc, catalog, Driving, Bound) /\ Listens(t.proc, Bound) /\ CatLike(catalog, Bound)
      /\ Shaped(t, t.proc) /\ t.events \in Seq(MasterEvents)
  BY <1>1, PollFollows
<1> HIDE DEF t
<1> DEFINE c == Reply(t, catalog)
<1>5. Becomes(t)
  BY <1>3 DEF Polled, Paying
<1>6. CatLike(c.cat, Bound) /\ Linked(t, c)
  BY <1>1, <1>4 DEF Tied, Driving
<1>7. CASE t.err
  <2>1. events' = t.events /\ catalog' = catalog /\ runner' = "failing"
    BY <1>3, <1>7 DEF Polled
  <2>2. CatLike(ApplyCatalogEvents(catalog', events').cat, Bound)
    BY <1>6, <2>1 DEF Reply
  <2> QED
    BY <1>3, <1>4, <1>5, <2>1, <2>2, LandsLoosely
<1>8. CASE ~t.err
  <2>1. events' = << >> /\ catalog' = c.cat /\ (runner' = "driving" => c.ok)
    BY <1>3, <1>8 DEF Polled, Reply
  <2> HIDE DEF c
  <2>2. c.ok => Linked(t, Done(c.cat))
    BY <1>6 DEF Linked, Done
  <2> QED
    BY <1>3, <1>4, <1>5, <1>6, <1>8, <2>1, <2>2, LandsTaken
<1> QED
  BY <1>7, <1>8

LEMMA DriveReloadCInv ==
  ASSUME IInv, CInv, DriveReload
  PROVE  CInv'
<1>1. Good(Sys, {}) /\ disk \in Revisions /\ runner = "driving"
  BY FreshFacts DEF IInv, DriveReload
<1>2. PICK bad \in BadSends, spawned \in BOOLEAN :
          PolledWithReload(Poll(Sys, FALSE, bad), spawned, bad)
  BY DEF DriveReload
<1> DEFINE t == Poll(Sys, FALSE, bad)
           c == ApplyCatalogEvents(catalog, t.events)
           u == [t EXCEPT !.events = << >>]
           r == Reconcile(u, c.cat, disk, spawned, bad)
<1>3. Good(t, {})
  BY <1>1, PollGood
<1>4. Good(u, {})
  BY <1>3, TakenGood
<1>5. c.cat.next \in InstanceIds /\ Reconciled(r, spawned, bad) /\ ~t.err /\ c.ok
  BY <1>2 DEF PolledWithReload, PolledThenReconciled, MayReconcile
<1>6. /\ Tied(t, t.proc, catalog, Driving, Bound) /\ Listens(t.proc, Bound) /\ Shaped(t, t.proc)
  BY <1>1, PollFollows
<1> HIDE DEF t
<1>7. CatLike(c.cat, Bound) /\ Linked(t, c)
  BY <1>1, <1>6 DEF Tied, Driving, Reply
<1> HIDE DEF c
<1>8. Upd(t, u, {"events"}) /\ u.events = << >>
  BY <1>6 DEF Shaped, Upd, IsRecord, Fields
<1> HIDE DEF u
<1>9. /\ IsRecord(u) /\ u.stage = t.stage /\ u.sup = t.sup /\ u.slot = t.slot /\ u.proc = t.proc
      /\ u.err = t.err
  BY <1>8 DEF Upd, Fields
<1>10. Shaped(u, u.proc) /\ Listens(u.proc, Bound)
  <2>1. u.events \in Seq(MasterEvents)
    BY <1>8
  <2> QED
    BY <1>6, <1>9, <2>1 DEF Shaped
<1>11. Linked(u, Done(c.cat))
  BY <1>5, <1>7, <1>9 DEF Linked, Done
<1>12. Good(r.master, {})
  BY <1>1, <1>4, <1>5, ReconcileGood
<1>13. Follows(r.master, r.cat, TRUE, Bound)
  <2>1. r = Reconcile(u, c.cat, disk, spawned, bad)
    OBVIOUS
  <2> HIDE DEF r
  <2>2. ~u.err
    BY <1>5, <1>9
  <2> QED
    BY <1>1, <1>4, <1>5, <1>7, <1>8, <1>10, <1>11, <2>1, <2>2, ReconcileFollows
<1> HIDE DEF r
<1>14. /\ Becomes(r.master) /\ events' = r.master.events /\ catalog' = r.cat
       /\ (runner' = "driving" => ~r.master.err)
  BY <1>5 DEF Reconciled
<1> DEFINE on == TRUE
<1>15. on /\ Follows(r.master, catalog', on, Bound)
  BY <1>13, <1>14
<1> HIDE DEF on
<1> QED
  BY <1>12, <1>14, <1>15, LandsQueued

\* What the runner has not applied of the events leaves the catalog in order.
LEMMA QueueLike ==
  ASSUME CInv, Good(Sys, {})
  PROVE  /\ CatLike(ApplyCatalogEvents(catalog, events).cat, Bound) /\ CatLike(catalog, Bound)
         /\ Tied(Sys, proc, catalog, FALSE, Bound) /\ Listens(proc, Bound)
  BY GoodFacts, SysFields DEF CInv, Follows, Tied, Reply

LEMMA ShutdownLands ==
  ASSUME IInv, CInv, Good(Sys, {}), NEW bad, NEW t, t \in {Sys, Shutdown(Sys, bad)}, Becomes(t),
         events' = events, catalog' = catalog, runner' # "driving"
  PROVE  CInv'
<1>1. Good(t, {})
  BY ShutdownGood
<1>2. Tied(t, proc, catalog, FALSE, Bound)
  BY QueueLike, ShutdownTied
<1>3. Shaped(t, t.proc) /\ Listens(t.proc, Bound)
  BY <1>2, QueueLike, LaterListens DEF Tied
<1>4. events' \in Seq(MasterEvents)
  BY GoodFacts
<1> QED
  BY <1>1, <1>3, <1>4, QueueLike, LandsLoosely

LEMMA StopCInv ==
  ASSUME IInv, CInv, Stop
  PROVE  CInv'
<1>1. Good(Sys, {})
  BY FreshFacts DEF IInv, Stop
<1>2. PICK bad \in BadSends : Becomes(Shutdown(Sys, bad))
  BY DEF Stop
<1> QED
  BY <1>1, <1>2, ShutdownLands DEF Stop

LEMMA CleanupCInv ==
  ASSUME IInv, CInv, Cleanup
  PROVE  CInv'
<1>1. Good(Sys, {})
  BY DEF IInv, Cleanup
<1>2. PICK bad \in BadSends : Becomes(IF stage = "ShuttingDown" THEN Sys ELSE Shutdown(Sys, bad))
  BY DEF Cleanup, Paying
<1> QED
  BY <1>1, <1>2, ShutdownLands DEF Cleanup

LEMMA DroppedLater ==
  ASSUME NEW s, Shaped(s, s.proc)
  PROVE  DOMAIN Dropped(s) = InstanceIds /\ \A i \in InstanceIds : Later(s.proc[i], Dropped(s)[i])
<1>1. ASSUME NEW i \in InstanceIds PROVE Later(s.proc[i], Dropped(s)[i])
  <2>1. Later(s.proc[i], s.proc[i])
    BY DEF Shaped
  <2>2. Dropped(s)[i] \in {s.proc[i], [s.proc[i] EXCEPT !.run = "killed"]}
    BY DEF Dropped
  <2> QED
    BY <2>1, <2>2, LaterKilled
<1> QED
  BY <1>1 DEF Dropped

LEMMA WindDownCInv ==
  ASSUME IInv, CInv, NEW due \in BOOLEAN, WindDown(due)
  PROVE  CInv'
<1>1. Good(Sys, {}) /\ runner \in {"stopping", "cleanup"}
  BY DEF IInv, WindDown
<1>2. PICK bad \in BadSends : WoundDown(Poll(Sys, due, bad), bad)
  BY DEF WindDown
<1> DEFINE t == Poll(Sys, due, bad)
           d == [t EXCEPT !.proc = Dropped(t)]
           k == [t EXCEPT !.proc = t.proc]
<1>3. Good(t, {}) /\ WoundDown(t, bad)
  BY <1>1, <1>2, PollGood
<1>4. /\ Tied(t, t.proc, catalog, Driving, Bound) /\ Listens(t.proc, Bound) /\ CatLike(catalog, Bound)
      /\ Shaped(t, t.proc) /\ t.events \in Seq(MasterEvents)
  BY <1>1, PollFollows
<1> HIDE DEF t
<1>5. t \in Masters
  BY <1>3 DEF Good, Net
<1>6. /\ Becomes(d) \/ Becomes(k)
      /\ events' \in {t.events, << >>} /\ runner' # "driving" /\ catalog' = catalog
  BY <1>1, <1>3 DEF WoundDown, WindDown
<1>7. k = t
  BY <1>5, MasterFields DEF IsRecord, Fields
<1>8. Good(d, {})
  BY <1>3, <1>5, DroppedKeeps, KeepGood
<1>9. Upd(t, d, {"proc"}) /\ d.proc = Dropped(t)
  BY <1>5, MasterFields DEF Upd, IsRecord, Fields
<1> HIDE DEF d, k
<1>10. IsRecord(d) /\ d.events = t.events /\ d.sup = t.sup /\ d.slot = t.slot
  BY <1>9 DEF Upd, Fields
<1>11. Shaped(d, t.proc)
  BY <1>4, <1>9, <1>10, DroppedLater DEF Shaped
<1>12. Shaped(d, d.proc) /\ Listens(d.proc, Bound)
  BY <1>4, <1>11, LaterListens
<1>13. CatLike(ApplyCatalogEvents(catalog', events').cat, Bound) /\ events' \in Seq(MasterEvents)
  <2>1. CatLike(ApplyCatalogEvents(catalog, t.events).cat, Bound)
    BY <1>4 DEF Tied, Reply
  <2>2. CatLike(ApplyCatalogEvents(catalog, << >>).cat, Bound)
    BY <1>4, NoEvents DEF Done
  <2>3. << >> \in Seq(MasterEvents)
    OBVIOUS
  <2> QED
    BY <1>4, <1>6, <2>1, <2>2, <2>3
<1> QED
  BY <1>3, <1>4, <1>6, <1>7, <1>8, <1>12, <1>13, LandsLoosely

LEMMA EndCInv ==
  ASSUME IInv, CInv, End
  PROVE  CInv'
<1>1. Good(Sys, {})
  BY FreshFacts DEF IInv, End, Terminal
<1> DEFINE d == [Sys EXCEPT !.proc = Dropped(Sys)]
<1>2. Good(d, {})
  BY <1>1, DroppedKeeps, KeepGood, GoodFacts
<1>3. Upd(Sys, d, {"proc"}) /\ d.proc = Dropped(Sys)
  BY SysFields DEF Upd, IsRecord, Fields
<1> HIDE DEF d
<1>4. /\ d.stage = stage /\ d.forced = forced /\ d.sup = sup /\ d.slot = slot /\ d.events = events
      /\ d.deferred = deferred /\ d.failure = failure /\ d.nextReq = nextReq
  BY <1>3, SysFields DEF Upd, Fields
<1>5. Becomes(d) /\ events' = d.events /\ catalog' = catalog /\ runner' # "driving"
  BY <1>3, <1>4 DEF Becomes, End, masterVars
<1>6. Follows(Sys, catalog, Driving, Bound)
  BY <1>1, GoodFacts DEF CInv
<1>7. Shaped(Sys, Sys.proc)
  BY <1>6 DEF Follows, Tied
<1>8. Follows(d, catalog', Driving, Bound)
  BY <1>3, <1>5, <1>6, <1>7, DroppedLater, LaterFollows
<1> QED
  BY <1>2, <1>5, <1>8, LandsQueued

\* CInv reads only these variables.
LEMMA IdleCInv ==
  ASSUME CInv, UNCHANGED <<masterVars, events, proc, catalog, runner>>
  PROVE  CInv'
<1>1. Sys' = Sys /\ Bound' = Bound /\ (Driving' <=> Driving) /\ (Booted' <=> Booted)
  BY DEF Sys, masterVars, Bound, Driving, Booted
<1> QED
  BY <1>1 DEF CInv, Follows, Tied

LEMMA StepCInv ==
  ASSUME IInv, CInv, [Next]_vars
  PROVE  CInv'
<1>1. CASE LaunchFirst
  BY <1>1, LaunchFirstCInv
<1>2. CASE DriveReload
  BY <1>2, DriveReloadCInv
<1>3. CASE Stop
  BY <1>3, StopCInv
<1>4. CASE Cleanup
  BY <1>4, CleanupCInv
<1>5. CASE End
  BY <1>5, EndCInv
<1>6. CASE WriteConfig
  BY <1>6, IdleCInv DEF WriteConfig
<1>7. CASE \E due \in BOOLEAN : DrivePoll(due) \/ WindDown(due)
  BY <1>7, DrivePollCInv, WindDownCInv
<1>8. CASE \E i \in InstanceIds : Serve(i) \/ HangUp(i) \/ Exit(i) \/ Crash(i) \/ BadFrame(i)
  BY <1>8, WorkerCInv
<1>9. CASE UNCHANGED vars
  BY <1>9, IdleCInv DEF vars, masterVars
<1> QED
  BY <1>1, <1>2, <1>3, <1>4, <1>5, <1>6, <1>7, <1>8, <1>9 DEF Next

\* Every running worker binds the listeners of the active document, and the catalog,
\* once it has taken the events that are queued, names the instances of the master's
\* roles: an invariant relative to IInv.
THEOREM MasterCInv == Spec => []CInv
<1>1. Init => CInv
  BY InitCInv
<1>2. IInv /\ CInv /\ [Next]_vars => CInv'
  BY StepCInv
<1> QED
  BY <1>1, <1>2, MasterIInv, PTL DEF Spec

\* No worker runs a configuration that binds other listeners than another running
\* worker's: reconcile launches no candidate that needs a restart, whatever is written
\* to the configuration file and however often a replacement is committed.
THEOREM SameListenersHold == Spec => []SameListeners
<1>1. CInv => SameListeners
  <2> SUFFICES ASSUME CInv PROVE SameListeners
    OBVIOUS
  <2> QED
    BY BoundListens DEF SameListeners, Listens, Alive, Runs
<1> QED
  BY <1>1, MasterCInv, PTL

\* While the runner drives an operational master, the active and the candidate document
\* of the catalog are the instances of the master's roles.
THEOREM CatalogFollows == Spec => []CatalogMatchesMaster
<1>1. IInv /\ CInv => CatalogMatchesMaster
  <2> SUFFICES ASSUME IInv, CInv, stage = "Operational", runner = "driving"
               PROVE  /\ catalog.doc["Active"].instance_id = sup.active.instance_id
                      /\ (catalog.doc["Candidate"] # NoDocument /\ events = << >>) =>
                            /\ catalog.doc["Candidate"].instance_id = sup.candidate.instance_id
                            /\ sup.candidate.lifecycle # "Stopping"
    BY DEF CatalogMatchesMaster
  <2>1. Follows(Sys, catalog, Driving, Bound)
    BY FreshFacts, GoodFacts DEF IInv, CInv
  <2>2. Driving /\ Sys.stage = "Operational" /\ ~Sys.err /\ Sys.sup = sup /\ Sys.events = events
    BY SysFields DEF Driving
  <2>3. catalog.doc["Active"].instance_id = sup.active.instance_id
    BY <2>1, <2>2 DEF Follows
  <2>4. Linked(Sys, Reply(Sys, catalog))
    BY <2>1, <2>2 DEF Follows, Tied
  <2>5. ASSUME events = << >>, catalog.doc["Candidate"] # NoDocument
        PROVE  /\ catalog.doc["Candidate"].instance_id = sup.candidate.instance_id
               /\ sup.candidate.lifecycle # "Stopping"
    <3>1. Reply(Sys, catalog).ok /\ Reply(Sys, catalog).cat = catalog
      BY <2>2, <2>5, ReplyDone
    <3> QED
      BY <2>2, <2>4, <2>5, <3>1 DEF Linked
  <2> QED
    BY <2>3, <2>5
<1> QED
  BY <1>1, MasterIInv, MasterCInv, PTL
====
