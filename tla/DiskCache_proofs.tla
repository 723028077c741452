-------------------------- MODULE DiskCache_proofs --------------------------
(***************************************************************************)
(* Proofs about DiskCache: for any keys and requests, any bounds and any    *)
(* interleaving of fills, operations, storage errors, shutdowns and         *)
(* crashes, flights have leaders, the files stay within their quota, the    *)
(* index matches the disk, and nothing purged or replaced returns but what  *)
(* an operation removed that failed before its sync.                        *)
(*                                                                          *)
(* The eviction of the least recently used is proved by induction on the    *)
(* number of records put out; the induction is written as the search for a  *)
(* least counterexample (Least).                                            *)
(***************************************************************************)
EXTENDS DiskCache, TLAPS, FiniteSetTheorems, WellFoundedInduction

---------------------------------------------------------------------------
(* The inductive invariant *)

Kinds == {"none", "store", "touch", "sweep", "evict", "purge"}

Steps == {"none", "remove", "sync", "link", "settle", "insert", "memory"}

Ops == [kind : Kinds, step : Steps, key : Keys, ver : Fills \cup {NoFill}, seq : 0..MaxTick,
        todo : SUBSET RecordSet, dirty : BOOLEAN, bases : SUBSET Bases,
        dead : [Keys -> 0..MaxFills]]

Guards == [base : Bases, guard : {"none", "live", "done"},
           outcome : {"none", "filling", "purged", "cancelled", "ended"}]

Budgets == [purges : Nat, faults : Nat, crashes : Nat]

Types ==
    /\ mem \in SUBSET RecordSet /\ index \in SUBSET RecordSet
    /\ dir \in SUBSET RecordSet /\ synced \in SUBSET RecordSet
    /\ op \in Ops
    /\ closed \in {"open", "closing", "closed"}
    /\ flight \in [Bases -> Fills \cup {NoFill}]
    /\ fill \in [Fills -> Guards]
    /\ tick \in 0..MaxTick
    /\ floor \in [Keys -> 0..MaxFills]
    /\ left \in Budgets

\* The fills are numbered in the order in which they begin.
InOrder ==
    /\ Issued \in 0..MaxFills
    /\ \A v \in Fills : fill[v].guard # "none" <=> v <= Issued

Writes == op.kind \in {"store", "touch"}

\* The operation that holds the mutex is where its kind allows; what it removes is in the
\* index; a store has the flight of its base, and a touch an entry.
Shape ==
    /\ op.step = "none" => op = NoOp
    /\ op.step # "none" => op.kind # "none"
    /\ op.step \in {"link", "settle"} => Writes
    /\ op.step = "insert" => op.kind = "store"
    /\ op.step = "memory" => op.kind = "purge"
    /\ op.step # "remove" => op.todo = {}
    /\ op.todo \subseteq index

Owner ==
    /\ op.kind # "store" => op.ver = NoFill
    /\ op.kind = "store" => /\ op.ver \in Fills
                            /\ fill[op.ver].guard = "live"
                            /\ fill[op.ver].base = BaseOf[op.key]
                            /\ flight[BaseOf[op.key]] = op.ver
    /\ op.kind = "touch" => \E e \in mem : e.key = op.key

\* An operation is at work, or one may begin.
Active == op.step # "none" \/ closed = "open"

\* Accesses are numbered by the clock, and no two records that a crash could bring
\* back have the same number.
Accessed ==
    /\ \A r \in dir \cup synced : r.seq <= tick
    /\ \A r, s \in dir \cup synced : r.seq = s.seq => r = s
    /\ Writes => op.seq = tick
    /\ Writes /\ op.step \in {"remove", "sync", "link"} => \A r \in dir \cup synced : r.seq < tick

\* The index is the directory, but for the file that was just linked.
OnDisk == Active => dir = IF op.step = "settle" THEN index \cup {Written} ELSE index

\* There is room for the record that an operation writes.
Room ==
    /\ IsFiniteSet(dir) /\ IsFiniteSet(synced)
    /\ Writes /\ op.step \in {"remove", "sync", "link"} => Cardinality(index \ op.todo) < MaxFiles

UndoneType == undone \subseteq Keys \X Fills

IInv ==
    /\ Types /\ InOrder /\ FlightsHaveLeaders
    /\ Shape /\ Owner /\ Accessed /\ OnDisk /\ Room /\ FilesWithinQuota /\ UndoneType

\* What the directory was when it was last synced is what the index has, but for records
\* that the operation at work has removed, or one that failed.
Durable ==
    Active => /\ index \subseteq synced
              /\ op.step # "sync" /\ ~(op.step = "remove" /\ op.dirty) =>
                     Representations(synced \ index) \subseteq undone

Records == mem \cup index \cup dir \cup synced

RecordsIssued == \A r \in Records : r.ver <= Issued

FloorIssued == \A k \in Keys : floor[k] <= Issued

\* A flight is newer than what must not be seen again, so its response may be stored,
FlightsFresh == \A k \in Keys : flight[BaseOf[k]] = NoFill \/ flight[BaseOf[k]] > floor[k]

\* and newer than every response of its request that is stored, but for its own.
FlightsNewer ==
    \A r \in mem \cup index :
        \/ flight[BaseOf[r.key]] = NoFill
        \/ flight[BaseOf[r.key]] > r.ver
        \/ op.step = "insert" /\ r.key = op.key /\ r.ver = op.ver

\* A store has removed, or will, what it replaces and what varies otherwise.
Cleared ==
    op.kind = "store" =>
        \A r \in index \ op.todo :
            /\ r.key = op.key => op.step = "insert" /\ r.ver = op.ver
            /\ ~Conflicts(r.key, op.key)

\* A purge has removed, or will, what it declares dead; the flights it does not cancel
\* are newer.
Dead ==
    op.kind = "purge" =>
        /\ \A r \in index \ op.todo : r.ver > op.dead[r.key]
        /\ \A k \in Keys :
            /\ op.dead[k] <= Issued
            /\ \/ flight[BaseOf[k]] = NoFill \/ BaseOf[k] \in op.bases
               \/ flight[BaseOf[k]] > op.dead[k]

\* What holds besides.
Fresh ==
    /\ Durable /\ RecordsIssued /\ FloorIssued /\ NothingStaleReturns
    /\ FlightsFresh /\ FlightsNewer /\ Cleared /\ Dead

---------------------------------------------------------------------------
(* The least number principle, and the least recently used *)

(* The order of the naturals, as the relation the library's minimum theorem takes. *)
LEMMA LessThan ==
  \E R : /\ IsWellFoundedOn(R, Nat)
         /\ \A y, x \in Nat : y < x => <<y, x>> \in R
<1>1. IsWellFoundedOn(OpToRel(<, Nat), Nat)
  BY NatLessThanWellFounded
<1>2. \A y, x \in Nat : y < x => <<y, x>> \in OpToRel(<, Nat)
  BY DEF OpToRel
<1> QED
  BY <1>1, <1>2, Zenon

\* A set of natural numbers has a least one.
LEMMA Least ==
  ASSUME NEW T, T \subseteq Nat, T # {}
  PROVE  \E x \in T : \A y \in T : x <= y
<1>1. PICK R : /\ IsWellFoundedOn(R, Nat)
               /\ \A y, x \in Nat : y < x => <<y, x>> \in R
  BY LessThan
<1>2. IsWellFoundedOn(R, Nat)
  BY <1>1
<1>3. \E x \in T : \A y \in T : ~ (<<y, x>> \in R)
  BY <1>2, WFMin
<1>4. PICK x \in T : \A y \in T : ~ (<<y, x>> \in R)
  BY <1>3
<1>5. ASSUME NEW y \in T PROVE x <= y
  <2>1. x \in Nat /\ y \in Nat
    OBVIOUS
  <2>2. ~(y < x)
    BY <1>1, <1>4, <2>1, Zenon
  <2> QED
    BY <2>1, <2>2
<1> QED
  BY <1>5

Numbered(S) ==
    /\ IsFiniteSet(S)
    /\ \A r \in S : r.seq \in Nat
    /\ \A r, s \in S : r.seq = s.seq => r = s

\* A set of records with different numbers has an oldest.
LEMMA Eldest ==
  ASSUME NEW S, Numbered(S), S # {}
  PROVE  \E e \in S : \A r \in S : e.seq <= r.seq
<1> DEFINE T == {r.seq : r \in S}
<1>1. T \subseteq Nat /\ T # {}
  BY DEF Numbered
<1>2. PICK x \in T : \A y \in T : x <= y
  BY <1>1, Least
<1> QED
  BY <1>2

\* Oldest(S, n) has at least n of the records, if there are so many.
LEMMA OldestEnough ==
  ASSUME NEW S, Numbered(S), NEW n \in Nat, n <= Cardinality(S)
  PROVE  Cardinality(Oldest(S, n)) >= n
<1> DEFINE T == {m \in Nat : m <= Cardinality(S) /\ Cardinality(Oldest(S, m)) < m}
           Upto(r) == {s \in S : s.seq <= r.seq}
<1>0. IsFiniteSet(S) /\ Cardinality(S) \in Nat
  BY FS_CardinalityType DEF Numbered
<1>1. ASSUME NEW m \in Nat
      PROVE  /\ Oldest(S, m) \subseteq S /\ IsFiniteSet(Oldest(S, m))
             /\ Cardinality(Oldest(S, m)) \in Nat
  <2>1. Oldest(S, m) \subseteq S
    BY DEF Oldest
  <2> QED
    BY <1>0, <2>1, FS_Subset, FS_CardinalityType
<1>2. ASSUME NEW r \in S
      PROVE  IsFiniteSet(Upto(r)) /\ Cardinality(Upto(r)) \in Nat
  BY <1>0, FS_Subset, FS_CardinalityType
<1>3. \A r \in S, m \in Nat : r \in Oldest(S, m) <=> Cardinality(Upto(r)) <= m
  BY DEF Oldest
<1>4. ASSUME T # {} PROVE FALSE
  <2>1. PICK x \in T : \A y \in T : x <= y
    BY <1>4, Least
  <2> DEFINE m == x - 1
             old == Oldest(S, m)
  <2>2. x \in Nat /\ x # 0 /\ m \in Nat /\ m < x /\ x <= Cardinality(S)
    BY <1>1, <2>1
  <2>3. m \notin T
    BY <2>1, <2>2
  <2>4. Cardinality(old) >= m
    BY <1>0, <1>1, <2>2, <2>3
  <2>5. old \subseteq Oldest(S, x)
    <3>1. ASSUME NEW r \in old PROVE r \in Oldest(S, x)
      <4>1. r \in S /\ Cardinality(Upto(r)) <= m
        BY <1>1, <1>3, <2>2
      <4>2. Cardinality(Upto(r)) <= x
        BY <1>2, <2>2, <4>1
      <4> QED
        BY <1>3, <2>2, <4>1, <4>2
    <3> QED
      BY <3>1
  <2>6. Cardinality(Oldest(S, x)) < x
    BY <2>1
  <2>7. Cardinality(old) <= Cardinality(Oldest(S, x))
    BY <1>1, <2>2, <2>5, FS_Subset
  <2>8. Cardinality(old) = m
    BY <1>1, <2>2, <2>4, <2>6, <2>7
  <2>9. S \ old # {}
    <3>1. ASSUME S \ old = {} PROVE FALSE
      <4>1. S = old
        BY <1>1, <2>2, <3>1
      <4> QED
        BY <2>2, <2>8, <4>1
    <3> QED
      BY <3>1
  <2>10. Numbered(S \ old)
    BY <1>0, FS_Subset DEF Numbered
  <2>11. PICK e \in S \ old : \A r \in S \ old : e.seq <= r.seq
    BY <2>9, <2>10, Eldest
  <2>12. Upto(e) \subseteq old \cup {e}
    <3>1. ASSUME NEW s \in S, s.seq <= e.seq, s \notin old PROVE s = e
      <4>1. s.seq \in Nat /\ e.seq \in Nat /\ e.seq <= s.seq
        BY <2>11, <3>1 DEF Numbered
      <4>2. s.seq = e.seq
        BY <3>1, <4>1
      <4> QED
        BY <4>2 DEF Numbered
    <3> QED
      BY <3>1
  <2>13. IsFiniteSet(old \cup {e}) /\ Cardinality(old \cup {e}) = x
    BY <1>1, <2>2, <2>8, <2>11, FS_AddElement
  <2>14. Cardinality(Upto(e)) <= x
    BY <2>12, <2>13, FS_Subset
  <2>15. old \cup {e} \subseteq Oldest(S, x)
    BY <1>3, <2>2, <2>5, <2>11, <2>14
  <2>16. x <= Cardinality(Oldest(S, x))
    BY <1>1, <2>2, <2>13, <2>15, FS_Subset
  <2> QED
    BY <1>1, <2>2, <2>6, <2>16
<1>5. n \notin T
  BY <1>4
<1> QED
  BY <1>0, <1>1, <1>5

\* What is left when the oldest beyond a quota are put out is within the quota.
LEMMA WithinQuota ==
  ASSUME NEW S, Numbered(S), NEW q \in Nat
  PROVE  /\ IsFiniteSet(S \ Oldest(S, Cardinality(S) - q))
         /\ Cardinality(S \ Oldest(S, Cardinality(S) - q)) <= q
<1> DEFINE n == Cardinality(S) - q
           out == Oldest(S, n)
<1>0. IsFiniteSet(S) /\ Cardinality(S) \in Nat
  BY FS_CardinalityType DEF Numbered
<1>1. /\ IsFiniteSet(S \ out)
      /\ Cardinality(S \ out) = Cardinality(S) - Cardinality(S \cap out)
      /\ Cardinality(S \ out) <= Cardinality(S)
  BY <1>0, FS_Difference, FS_Subset
<1>2. CASE n \in Nat
  <2>1. n <= Cardinality(S)
    BY <1>0
  <2>2. Cardinality(out) >= n
    BY <1>2, <2>1, OldestEnough
  <2>3. S \cap out = out /\ IsFiniteSet(out)
    BY <1>0, FS_Subset DEF Oldest
  <2>4. Cardinality(out) \in Nat
    BY <2>3, FS_CardinalityType
  <2> QED
    BY <1>0, <1>1, <1>2, <2>2, <2>3, <2>4
<1>3. CASE n \notin Nat
  <2>1. Cardinality(S) <= q
    BY <1>0, <1>3
  <2>2. Cardinality(S \ out) \in Nat
    BY <1>1, FS_CardinalityType
  <2> QED
    BY <1>0, <1>1, <2>1, <2>2
<1> QED
  BY <1>2, <1>3

---------------------------------------------------------------------------
(* Effects of the actions *)

(* The idle operation, field by field. *)
LEMMA NoOpFields ==
  /\ NoOp \in Ops
  /\ NoOp.kind = "none" /\ NoOp.step = "none" /\ NoOp.ver = NoFill
  /\ NoOp.todo = {} /\ NoOp.bases = {} /\ NoOp.dirty = FALSE
<1>1. PICK k \in Keys : k = CHOOSE j \in Keys : TRUE
  BY DiskCacheAssumption
<1>2. [j \in Keys |-> 0] \in [Keys -> 0..MaxFills] /\ 0 \in 0..MaxTick
  BY DiskCacheAssumption
<1>3. NoOp = [kind |-> "none", step |-> "none", key |-> k, ver |-> NoFill,
              seq |-> 0, todo |-> {}, dirty |-> FALSE, bases |-> {},
              dead |-> [j \in Keys |-> 0]]
  BY <1>1 DEF NoOp
<1> QED
  BY <1>2, <1>3 DEF Ops, Kinds, Steps

\* An operation with nothing to do is over; one with nothing to remove goes on.
LEMMA Begins ==
  ASSUME NEW o \in Ops, o.step = "remove", o.kind # "none", Begin(o)
  PROVE  /\ op' \in Ops
         /\ \/ op' = NoOp /\ o.todo = {} /\ o.kind \in {"sweep", "evict"}
            \/ /\ op'.step = IF o.todo # {} THEN "remove"
                             ELSE IF o.kind = "purge" THEN "memory" ELSE "link"
               /\ o.todo = {} => o.kind \in {"store", "touch", "purge"}
               /\ op'.kind = o.kind /\ op'.key = o.key /\ op'.ver = o.ver /\ op'.seq = o.seq
               /\ op'.todo = o.todo /\ op'.dirty = o.dirty /\ op'.bases = o.bases
               /\ op'.dead = o.dead
<1>1. CASE o.todo # {}
  BY <1>1 DEF Begin, Started
<1>2. CASE o.todo = {}
  <2>1. After(o.kind) = IF o.kind \in {"store", "touch"} THEN "link"
                        ELSE IF o.kind = "purge" THEN "memory" ELSE "end"
    BY DEF After
  <2>2. [o EXCEPT !.step = After(o.kind)].step = After(o.kind)
    BY DEF Ops
  <2>3. CASE o.kind \in {"sweep", "evict"}
    BY <1>2, <2>1, <2>2, <2>3, NoOpFields DEF Begin, Started
  <2>4. CASE o.kind \in {"store", "touch", "purge"}
    <3>1. op' = [o EXCEPT !.step = After(o.kind)]
      BY <1>2, <2>1, <2>2, <2>4 DEF Begin, Started
    <3>2. After(o.kind) \in Steps
      BY <2>1, <2>4 DEF Steps
    <3> QED
      BY <1>2, <2>1, <2>4, <3>1, <3>2 DEF Ops
  <2> QED
    BY <2>3, <2>4 DEF Ops, Kinds
<1> QED
  BY <1>1, <1>2

(* Victims are indexed records. *)
LEMMA VictimsIndexed == ASSUME NEW k PROVE Victims(k) \subseteq index
BY DEF Victims, Oldest

\* A store begins.
LEMMA StoreBegins ==
  ASSUME Types, NEW v \in Fills, NEW k \in Keys, tick < MaxTick,
         Begin([NoOp EXCEPT !.kind = "store", !.step = "remove", !.key = k, !.ver = v,
                            !.seq = tick + 1, !.todo = Victims(k)])
  PROVE  /\ op' \in Ops /\ op' # NoOp
         /\ op'.kind = "store" /\ op'.key = k /\ op'.ver = v /\ op'.seq = tick + 1
         /\ op'.step = IF Victims(k) # {} THEN "remove" ELSE "link"
         /\ op'.todo = Victims(k) /\ op'.dirty = FALSE
<1> DEFINE o == [NoOp EXCEPT !.kind = "store", !.step = "remove", !.key = k, !.ver = v,
                             !.seq = tick + 1, !.todo = Victims(k)]
<1>1. Victims(k) \in SUBSET RecordSet
  BY VictimsIndexed DEF Types
<1>2. tick + 1 \in 0..MaxTick
  BY DiskCacheAssumption DEF Types
<1> HIDE DEF NoOp, Victims
<1>3. /\ o \in Ops /\ o.step = "remove" /\ o.kind = "store" /\ o.key = k /\ o.ver = v
      /\ o.seq = tick + 1 /\ o.todo = Victims(k) /\ o.dirty = FALSE
  BY <1>1, <1>2, NoOpFields DEF Ops, Kinds, Steps
<1> HIDE DEF o
<1>4. Begin(o)
  BY DEF o
<1> QED
  BY <1>3, <1>4, Begins, NoOpFields

\* A lookup finds an entry: its record, if there is one, is written again.
LEMMA TouchBegins ==
  ASSUME Types, NEW e \in mem, LookupHit(e)
  PROVE  LET old == {r \in index : r.key = e.key}
         IN  /\ op' \in Ops
             /\ old = {} => op' = NoOp
             /\ old # {} => /\ op'.kind = "touch" /\ op'.step = "remove" /\ op'.key = e.key
                            /\ op'.ver = NoFill /\ op'.seq = tick + 1 /\ op'.todo = old
<1> DEFINE old == {r \in index : r.key = e.key}
<1>1. old \in SUBSET RecordSet
  BY DEF Types
<1>2. tick + 1 \in 0..MaxTick /\ e.key \in Keys
  BY DiskCacheAssumption DEF Types, LookupHit, RecordSet
<1>3. op' = IF old = {} THEN NoOp
            ELSE [NoOp EXCEPT !.kind = "touch", !.step = "remove", !.key = e.key,
                              !.seq = tick + 1, !.todo = old]
  BY DEF LookupHit
<1> HIDE DEF NoOp, old
<1>4. /\ op' \in Ops
      /\ old = {} => op' = NoOp
      /\ old # {} => /\ op'.kind = "touch" /\ op'.step = "remove" /\ op'.key = e.key
                     /\ op'.ver = NoFill /\ op'.seq = tick + 1 /\ op'.todo = old
  BY <1>1, <1>2, <1>3, NoOpFields DEF Ops, Kinds, Steps
<1> QED
  BY <1>4 DEF old

\* Records are swept off the disk, after a lookup or a store.
LEMMA SweepBegins ==
  ASSUME NEW todo \in SUBSET RecordSet, NEW kind \in {"sweep", "evict"},
         Begin([NoOp EXCEPT !.kind = kind, !.step = "remove", !.todo = todo])
  PROVE  /\ op' \in Ops
         /\ \/ op' = NoOp
            \/ /\ op'.kind = kind /\ op'.step = "remove" /\ op'.todo = todo
               /\ op'.ver = NoFill /\ op'.dirty = FALSE
<1> DEFINE o == [NoOp EXCEPT !.kind = kind, !.step = "remove", !.todo = todo]
<1> HIDE DEF NoOp
<1>1. /\ o \in Ops /\ o.step = "remove" /\ o.kind = kind /\ o.ver = NoFill /\ o.todo = todo
      /\ o.dirty = FALSE
  BY NoOpFields DEF Ops, Kinds, Steps
<1> HIDE DEF o
<1>2. Begin(o)
  BY DEF o
<1> QED
  BY <1>1, <1>2, Begins

\* A purge begins.
LEMMA PurgeBegins ==
  ASSUME Types, NEW keys, NEW bases \in SUBSET Bases, NEW dead \in [Keys -> 0..MaxFills],
         Purge(keys, bases, dead)
  PROVE  /\ op' \in Ops
         /\ op'.kind = "purge" /\ op'.step \in {"remove", "memory"} /\ op'.ver = NoFill
         /\ op'.todo = {r \in index : r.key \in keys}
         /\ op'.todo = {} <=> op'.step = "memory"
         /\ op'.dirty = FALSE /\ op'.bases = bases
         /\ op'.dead = [k \in Keys |-> IF k \in keys THEN dead[k] ELSE 0]
<1> DEFINE todo == {r \in index : r.key \in keys}
           gone == [k \in Keys |-> IF k \in keys THEN dead[k] ELSE 0]
           o == [NoOp EXCEPT !.kind = "purge", !.step = "remove", !.bases = bases,
                             !.todo = todo, !.dead = gone]
<1>1. todo \in SUBSET RecordSet /\ gone \in [Keys -> 0..MaxFills]
  BY DiskCacheAssumption DEF Types
<1>2. Begin(o)
  BY DEF Purge
<1> HIDE DEF NoOp, todo, gone
<1>3. /\ o \in Ops /\ o.step = "remove" /\ o.kind = "purge" /\ o.ver = NoFill /\ o.todo = todo
      /\ o.dirty = FALSE /\ o.bases = bases /\ o.dead = gone
  BY <1>1, NoOpFields DEF Ops, Kinds, Steps
<1> HIDE DEF o
<1>4. /\ op' \in Ops
      /\ op'.kind = "purge" /\ op'.step \in {"remove", "memory"} /\ op'.ver = NoFill
      /\ op'.todo = todo
      /\ op'.todo = {} <=> op'.step = "memory"
      /\ op'.dirty = FALSE /\ op'.bases = bases /\ op'.dead = gone
  BY <1>2, <1>3, Begins
<1> QED
  BY <1>4 DEF todo, gone

(* The same record, read entry by entry. *)
LEMMA PurgeChosen ==
  ASSUME Types, NEW keys, NEW bases \in SUBSET Bases, NEW dead \in [Keys -> 0..MaxFills],
         Purge(keys, bases, dead)
  PROVE  /\ op'.bases = bases
         /\ \A r \in index : r.key \in keys => r \in op'.todo
         /\ \A k \in Keys : op'.dead[k] = IF k \in keys THEN dead[k] ELSE 0
<1> DEFINE todo == {r \in index : r.key \in keys}
           gone == [k \in Keys |-> IF k \in keys THEN dead[k] ELSE 0]
           o == [NoOp EXCEPT !.kind = "purge", !.step = "remove", !.bases = bases,
                             !.todo = todo, !.dead = gone]
<1>1. Begin(o)
  BY DEF Purge
<1>2. todo \in SUBSET RecordSet /\ gone \in [Keys -> 0..MaxFills]
  BY DiskCacheAssumption DEF Types
<1>3. (\A r \in index : r.key \in keys => r \in todo)
      /\ (\A k \in Keys : gone[k] = IF k \in keys THEN dead[k] ELSE 0)
  OBVIOUS
<1> HIDE DEF NoOp, todo, gone
<1>4. /\ o \in Ops /\ o.kind = "purge" /\ o.step = "remove"
      /\ o.todo = todo /\ o.bases = bases /\ o.dead = gone
  BY <1>2, NoOpFields DEF Ops, Kinds, Steps
<1> HIDE DEF o
<1>5. op'.todo = todo /\ op'.bases = bases /\ op'.dead = gone
  BY <1>1, <1>4, Begins
<1> QED
  BY <1>3, <1>5

\* A bounded set of natural numbers has a greatest one.
LEMMA Greatest ==
  ASSUME NEW T, T \subseteq Nat, T # {}, NEW bound \in Nat, \A x \in T : x <= bound
  PROVE  \E x \in T : \A y \in T : y <= x
<1> DEFINE U == {n \in Nat : \A x \in T : x <= n}
<1>1. bound \in U /\ U \subseteq Nat
  OBVIOUS
<1>2. PICK n \in U : \A m \in U : n <= m
  BY <1>1, Least
<1>3. ASSUME n \notin T PROVE FALSE
  <2>1. \A x \in T : x \in Nat /\ x < n
    BY <1>2, <1>3
  <2>0. PICK t \in T : TRUE
    OBVIOUS
  <2>2. n \in Nat /\ n # 0
    BY <1>2, <2>0, <2>1
  <2>3. n - 1 \in U
    BY <2>1, <2>2
  <2> QED
    BY <1>2, <2>2, <2>3
<1> QED
  BY <1>2, <1>3

\* The last access among some records: what the clock is set to by a restart.
LEMMA Latest ==
  ASSUME NEW kept \in SUBSET RecordSet, kept # {}
  PROVE  \E n \in 0..MaxTick : /\ \A f \in kept : f.seq <= n
                               /\ \E f \in kept : f.seq = n
<1> DEFINE T == {f.seq : f \in kept}
<1>1. T \subseteq 0..MaxTick /\ T # {}
  BY DEF RecordSet
<1>2. T \subseteq Nat /\ MaxTick \in Nat /\ \A m \in T : m <= MaxTick
  BY <1>1, DiskCacheAssumption
<1>3. \E n \in T : \A m \in T : m <= n
  BY <1>1, <1>2, Greatest
<1> QED
  BY <1>1, <1>3

\* The newest of the stored representations of a key is one of them.
LEMMA StoredVerIs ==
  ASSUME Types, NEW k \in Keys
  PROVE  /\ StoredVer(k) \in 0..MaxFills
         /\ \/ StoredVer(k) = floor[k]
            \/ \E r \in mem \cup index : r.key = k /\ r.ver = StoredVer(k)
<1> DEFINE vers == {r.ver : r \in {x \in mem \cup index : x.key = k}}
<1>1. vers \subseteq 1..MaxFills
  BY DEF Types, RecordSet, Fills
<1>2. CASE vers = {}
  BY <1>2, DiskCacheAssumption DEF StoredVer, Types
<1>3. CASE vers # {}
  <2>0. vers \subseteq Nat /\ MaxFills \in Nat /\ \A v \in vers : v <= MaxFills
    BY <1>1, DiskCacheAssumption
  <2>1. \E v \in vers : \A w \in vers : w <= v
    BY <1>3, <2>0, Greatest
  <2>2. StoredVer(k) \in vers
    BY <1>3, <2>1 DEF StoredVer
  <2> QED
    BY <1>1, <2>2, DiskCacheAssumption
<1> QED
  BY <1>2, <1>3

\* What a restart keeps, and how it sets the clock.
LEMMA Restarts ==
  ASSUME Types, Restart
  PROVE  \E files, kept \in SUBSET (dir \cup synced) :
            /\ kept \subseteq Scanned(files)
            /\ mem' = kept /\ index' = kept /\ dir' = kept /\ synced' = kept
            /\ tick' \in 0..MaxTick
            /\ \A f \in kept : f.seq <= tick'
            /\ Forgotten(kept)
<1>1. PICK files \in SUBSET (dir \cup synced) : \E kept \in SUBSET Scanned(files) :
         /\ mem' = kept /\ index' = kept /\ dir' = kept /\ synced' = kept /\ Forgotten(kept)
         /\ tick' = IF kept = {} THEN 0
                    ELSE CHOOSE n \in 0..MaxTick : /\ \A f \in kept : f.seq <= n
                                                   /\ \E f \in kept : f.seq = n
  BY DEF Restart
<1>2. PICK kept \in SUBSET Scanned(files) :
         /\ mem' = kept /\ index' = kept /\ dir' = kept /\ synced' = kept /\ Forgotten(kept)
         /\ tick' = IF kept = {} THEN 0
                    ELSE CHOOSE n \in 0..MaxTick : /\ \A f \in kept : f.seq <= n
                                                   /\ \E f \in kept : f.seq = n
  BY <1>1
<1>3. kept \in SUBSET RecordSet
  BY DEF Scanned, Types
<1>4. tick' \in 0..MaxTick /\ \A f \in kept : f.seq <= tick'
  <2>1. CASE kept = {}
    BY <1>2, <2>1, DiskCacheAssumption
  <2>2. CASE kept # {}
    BY <1>2, <1>3, <2>2, Latest
  <2> QED
    BY <2>1, <2>2
<1>5. kept \in SUBSET (dir \cup synced)
  BY DEF Scanned
<1> QED
  BY <1>2, <1>4, <1>5

(* Fills are numbered up to their bound. *)
LEMMA IssuedType == Issued \in 0..MaxFills
<1> DEFINE S == {v \in Fills : fill[v].guard # "none"}
<1>1. IsFiniteSet(1..MaxFills) /\ Cardinality(1..MaxFills) = MaxFills
  BY DiskCacheAssumption, FS_Interval
<1>2. S \in SUBSET (1..MaxFills)
  BY DEF Fills
<1> HIDE DEF S
<1>3. IsFiniteSet(S) /\ Cardinality(S) <= MaxFills /\ Cardinality(S) \in Nat
  BY <1>1, <1>2, FS_Subset, FS_CardinalityType
<1>4. Issued = Cardinality(S)
  BY DEF Issued, S
<1> QED
  BY <1>3, <1>4, DiskCacheAssumption

(* The two constant guards are guards. *)
LEMMA GuardTypes == NoGuard \in Guards /\ Ended \in Guards
<1>1. PICK b \in Bases : b = CHOOSE c \in Bases : TRUE
  BY DiskCacheAssumption
<1> QED
  BY <1>1 DEF NoGuard, Ended, Guard, Guards

(* Ending a guard keeps the types. *)
LEMMA EndGuardTypes ==
  ASSUME Types, NEW v \in Fills, EndGuard(v)
  PROVE  /\ fill' \in [Fills -> Guards]
         /\ flight' \in [Bases -> Fills \cup {NoFill}]
<1>1. fill[v] \in Guards /\ [fill[v] EXCEPT !.guard = "done"] \in Guards /\ fill[v].base \in Bases
  BY DEF Types, Guards
<1>2. \E g \in Guards : fill' = [fill EXCEPT ![v] = g]
  BY <1>1, GuardTypes DEF EndGuard
<1>3. fill' \in [Fills -> Guards]
  BY <1>2 DEF Types
<1>4. flight' = flight \/ flight' = [flight EXCEPT ![fill[v].base] = NoFill]
  BY DEF EndGuard
<1>5. flight' \in [Bases -> Fills \cup {NoFill}]
  BY <1>1, <1>4 DEF Types
<1> QED
  BY <1>3, <1>5

(* Cancelling flights keeps the types. *)
LEMMA CancelTypes ==
  ASSUME Types, NEW bases, NEW outcome \in {"purged", "cancelled"}, CancelFlights(bases, outcome)
  PROVE  /\ fill' \in [Fills -> Guards]
         /\ flight' \in [Bases -> Fills \cup {NoFill}]
<1>1. \A v \in Fills : fill[v] \in Guards /\ [fill[v] EXCEPT !.outcome = outcome] \in Guards
  BY DEF Types, Guards
<1>2. fill' \in [Fills -> Guards]
  BY <1>1 DEF CancelFlights
<1>3. flight' \in [Bases -> Fills \cup {NoFill}]
  BY DEF CancelFlights, Types
<1> QED
  BY <1>2, <1>3

\* What an operation writes.
LEMMA WrittenFields ==
  ASSUME Types, Owner, Writes
  PROVE  /\ Written \in RecordSet
         /\ Written.key = op.key /\ Written.seq = op.seq
         /\ op.kind = "store" => Written.ver = op.ver
         /\ op.kind = "touch" => \E e \in mem : e.key = op.key /\ e.ver = Written.ver
<1>1. op.key \in Keys /\ op.seq \in 0..MaxTick
  BY DEF Types, Ops
<1>2. CASE op.kind = "store"
  BY <1>1, <1>2 DEF Written, Record, RecordSet, Owner
<1>3. CASE op.kind = "touch"
  <2>1. PICK e \in mem : e.key = op.key /\ e = CHOOSE x \in mem : x.key = op.key
    BY <1>3 DEF Owner
  <2>2. Written = [key |-> op.key, ver |-> e.ver, seq |-> op.seq]
    BY <1>3, <2>1 DEF Written, Record
  <2>3. e.ver \in Fills
    BY DEF Types, RecordSet
  <2> QED
    BY <1>1, <1>3, <2>1, <2>2, <2>3 DEF RecordSet
<1> QED
  BY <1>2, <1>3 DEF Writes

(* Memory and index gain nothing but what was written. *)
LEMMA InsertedFrom ==
  ASSUME NEW entries, NEW r, NEW e \in Inserted(entries, r)
  PROVE  e = r \/ (e \in entries /\ e.key # r.key /\ ~Conflicts(e.key, r.key))
BY DEF Inserted

---------------------------------------------------------------------------
(* Types *)

\* An operation that returns an error is over; a store has given up its guard.
LEMMA AbortTypes ==
  ASSUME Types, Owner, Abort
  PROVE  /\ op' = NoOp
         /\ fill' \in [Fills -> Guards]
         /\ flight' \in [Bases -> Fills \cup {NoFill}]
<1>1. CASE op.kind = "store"
  BY <1>1, EndGuardTypes DEF Abort, EndOp, Owner
<1>2. CASE op.kind # "store"
  BY <1>2 DEF Abort, EndOp, Types
<1> QED
  BY <1>1, <1>2

(* Spending a disturbance keeps the types. *)
LEMMA FaultTypes ==
  ASSUME Types, Fault
  PROVE  left' \in Budgets
BY DEF Fault, Types, Budgets

\* The purges keep to their keys, requests and fills.
LEMMA PurgeTypes ==
  ASSUME Types,
         (\E k \in Keys : PurgeExact(k)) \/ (\E b \in Bases : PurgeBase(b)) \/ PurgeTag
  PROVE  \E keys \in SUBSET (Keys \cup Tagged), bases \in SUBSET Bases,
            dead \in [Keys -> 0..MaxFills] :
            /\ Purge(keys, bases, dead)
            /\ \A k \in keys \cap Keys :
                  \/ BaseOf[k] \in bases /\ dead[k] = Issued
                  \/ dead[k] = StoredVer(k)
<1>1. [j \in Keys |-> Issued] \in [Keys -> 0..MaxFills]
  BY IssuedType
<1>2. ASSUME NEW k \in Keys, PurgeExact(k)
      PROVE  /\ Purge({k}, {BaseOf[k]}, [j \in Keys |-> Issued])
             /\ {k} \subseteq Keys /\ {BaseOf[k]} \in SUBSET Bases
  BY <1>2, DiskCacheAssumption DEF PurgeExact
<1>3. ASSUME NEW b \in Bases, PurgeBase(b)
      PROVE  Purge({k \in Keys : BaseOf[k] = b}, {b}, [j \in Keys |-> Issued])
  BY <1>3 DEF PurgeBase
<1>4. ASSUME PurgeTag
      PROVE  /\ Purge(Tagged, {BaseOf[e.key] : e \in {x \in mem : x.key \in Tagged}},
                      [j \in Keys |-> StoredVer(j)])
             /\ {BaseOf[e.key] : e \in {x \in mem : x.key \in Tagged}} \in SUBSET Bases
             /\ [j \in Keys |-> StoredVer(j)] \in [Keys -> 0..MaxFills]
  <2>1. \A e \in mem : BaseOf[e.key] \in Bases
    BY DiskCacheAssumption DEF Types, RecordSet
  <2> QED
    BY <1>4, <2>1, StoredVerIs DEF PurgeTag
<1>5. CASE \E k \in Keys : PurgeExact(k)
  <2>1. PICK k \in Keys : PurgeExact(k)
    BY <1>5
  <2>2. \A j \in {k} \cap Keys : BaseOf[j] \in {BaseOf[k]} /\ [i \in Keys |-> Issued][j] = Issued
    OBVIOUS
  <2> DEFINE dead == [i \in Keys |-> Issued]
  <2>3. \E bases \in SUBSET Bases :
           /\ Purge({k}, bases, dead)
           /\ \A j \in {k} \cap Keys : BaseOf[j] \in bases /\ dead[j] = Issued
    BY <1>2, <2>1, <2>2
  <2> HIDE DEF dead
  <2>4. dead \in [Keys -> 0..MaxFills] /\ {k} \in SUBSET (Keys \cup Tagged)
    BY <1>1, <1>2 DEF dead
  <2> QED
    BY <2>3, <2>4
<1>6. CASE \E b \in Bases : PurgeBase(b)
  <2>1. PICK b \in Bases : PurgeBase(b)
    BY <1>6
  <2>2. \A j \in {k \in Keys : BaseOf[k] = b} \cap Keys :
            BaseOf[j] \in {b} /\ [i \in Keys |-> Issued][j] = Issued
    OBVIOUS
  <2> DEFINE dead == [i \in Keys |-> Issued]
             keys == {k \in Keys : BaseOf[k] = b}
  <2>3. \E bases \in SUBSET Bases :
           /\ Purge(keys, bases, dead)
           /\ \A j \in keys \cap Keys : BaseOf[j] \in bases /\ dead[j] = Issued
    BY <1>3, <2>1, <2>2
  <2>4. dead \in [Keys -> 0..MaxFills] /\ keys \in SUBSET (Keys \cup Tagged)
    BY <1>1
  <2> HIDE DEF dead, keys
  <2> QED
    BY <2>3, <2>4
<1>7. CASE PurgeTag
  <2>1. \A j \in Tagged \cap Keys : [i \in Keys |-> StoredVer(i)][j] = StoredVer(j)
    OBVIOUS
  <2> QED
    BY <1>4, <1>7, <2>1
<1> QED
  BY <1>5, <1>6, <1>7

(* Every step keeps the types. *)
LEMMA TypesStep ==
  ASSUME Types, Shape, Owner, Next
  PROVE  Types'
<1>0. op \in Ops /\ left \in Budgets
  BY DEF Types
<1>1. ASSUME NEW b \in Bases, BeginFill(b) PROVE Types'
  <2>1. Issued + 1 \in Fills /\ Guard(b, "live", "filling") \in Guards
    BY <1>1, IssuedType, DiskCacheAssumption DEF BeginFill, Fills, Guard, Guards
  <2>2. fill' \in [Fills -> Guards] /\ flight' \in [Bases -> Fills \cup {NoFill}]
    BY <1>1, <2>1 DEF BeginFill, Types
  <2> QED
    BY <1>1, <2>2 DEF BeginFill, Types
<1>2. ASSUME NEW b \in Bases, LookupMiss(b) PROVE Types'
  <2>1. PICK expired : /\ mem' = mem \ expired
                       /\ Begin([NoOp EXCEPT !.kind = "sweep", !.step = "remove",
                                    !.todo = {r \in index : BaseOf[r.key] = b
                                                              /\ r.key \notin KeysOf(mem')}])
    BY <1>2 DEF LookupMiss
  <2>2. op' \in Ops
    <3> DEFINE todo == {r \in index : BaseOf[r.key] = b /\ r.key \notin KeysOf(mem')}
    <3>1. todo \in SUBSET RecordSet
      BY DEF Types
    <3> QED
      BY <2>1, <3>1, SweepBegins
  <2> QED
    BY <1>2, <2>1, <2>2 DEF LookupMiss, Types
<1>3. ASSUME (\E k \in Keys : PurgeExact(k)) \/ (\E b \in Bases : PurgeBase(b)) \/ PurgeTag
      PROVE  Types'
  <2>1. PICK keys \in SUBSET (Keys \cup Tagged), bases \in SUBSET Bases,
             dead \in [Keys -> 0..MaxFills] : Purge(keys, bases, dead)
    BY <1>3, PurgeTypes
  <2>2. op' \in Ops
    BY <2>1, PurgeBegins
  <2>3. left' \in Budgets
    BY <2>1, <1>0 DEF Purge, Budgets
  <2> QED
    BY <2>1, <2>2, <2>3 DEF Purge, Types
<1>4. ASSUME NEW v \in Fills, LeaderEnds(v) PROVE Types'
  BY <1>4, EndGuardTypes DEF LeaderEnds, Types
<1>5. ASSUME NEW v \in Fills, NEW k \in Keys, StoreBegin(v, k) PROVE Types'
  <2>1. CASE closed = "open" /\ Current(v)
    <3>1. /\ tick < MaxTick /\ tick' = tick + 1
          /\ Begin([NoOp EXCEPT !.kind = "store", !.step = "remove", !.key = k, !.ver = v,
                                !.seq = tick + 1, !.todo = Victims(k)])
          /\ UNCHANGED <<fill, flight>>
      BY <1>5, <2>1 DEF StoreBegin
    <3>2. op' \in Ops
      BY <3>1, StoreBegins
    <3>3. tick' \in 0..MaxTick
      BY <3>1, DiskCacheAssumption DEF Types
    <3> QED
      BY <1>5, <3>1, <3>2, <3>3 DEF StoreBegin, Types
  <2>2. CASE ~(closed = "open" /\ Current(v))
    BY <1>5, <2>2, EndGuardTypes DEF StoreBegin, Types
  <2> QED
    BY <2>1, <2>2
<1>6. ASSUME NEW e \in mem, LookupHit(e) PROVE Types'
  <2>1. op' \in Ops
    BY <1>6, TouchBegins
  <2>2. tick' \in 0..MaxTick
    BY <1>6, DiskCacheAssumption DEF LookupHit, Types
  <2>3. [e EXCEPT !.seq = tick + 1] \in RecordSet
    BY <1>6, DiskCacheAssumption DEF LookupHit, Types, RecordSet
  <2> QED
    BY <1>6, <2>1, <2>2, <2>3 DEF LookupHit, Types
<1>7. ASSUME Remove PROVE Types'
  <2>1. PICK r \in op.todo :
         /\ dir' = dir \ {r} /\ index' = index \ {r}
         /\ mem' \subseteq mem
         /\ op' = [op EXCEPT !.todo = @ \ {r}, !.dirty = TRUE,
                             !.step = IF op.todo = {r} THEN "sync" ELSE @]
    BY <1>7 DEF Remove
  <2>2. op' \in Ops
    BY <1>0, <2>1 DEF Ops, Steps
  <2> QED
    BY <1>7, <2>1, <2>2 DEF Remove, Types
<1>8. ASSUME RemoveFails \/ SyncFails \/ LinkFails PROVE Types'
  <2>1. Abort /\ Fault
    BY <1>8 DEF RemoveFails, SyncFails, LinkFails
  <2>2. closed' \in {"open", "closing", "closed"}
    BY <1>8 DEF RemoveFails, SyncFails, LinkFails, Shut, Types
  <2> QED
    BY <1>8, <2>1, <2>2, AbortTypes, FaultTypes, NoOpFields
    DEF RemoveFails, SyncFails, LinkFails, Types
<1>9. ASSUME Sync PROVE Types'
  <2>1. op' \in Ops
    BY <1>0, <1>9, NoOpFields DEF Sync, After, Ops, Steps
  <2> QED
    BY <1>9, <2>1 DEF Sync, Types
<1>10. ASSUME Link PROVE Types'
  <2>1. Written \in RecordSet
    BY <1>10, WrittenFields DEF Link, Shape
  <2>2. op' \in Ops
    BY <1>0, <1>10 DEF Link, Ops, Steps
  <2> QED
    BY <1>10, <2>1, <2>2 DEF Link, Types
<1>11. ASSUME Settle PROVE Types'
  <2>1. Written \in RecordSet
    BY <1>11, WrittenFields DEF Settle, Shape
  <2>2. op' \in Ops
    BY <1>0, <1>11, NoOpFields DEF Settle, Ops, Steps
  <2> QED
    BY <1>11, <2>1, <2>2 DEF Settle, Types
<1>12. ASSUME Insert PROVE Types'
  <2>1. op.kind = "store" /\ op.ver \in Fills /\ Writes
    BY <1>12 DEF Insert, Shape, Owner, Writes
  <2>2. Written \in RecordSet
    BY <2>1, WrittenFields
  <2>3. mem' \in SUBSET RecordSet
    <3>1. mem' \subseteq mem \cup {Written}
      BY <1>12, InsertedFrom DEF Insert
    <3> QED
      BY <2>2, <3>1 DEF Types
  <2>4. op' \in Ops
    <3>1. PICK todo \in SUBSET index, kind \in {"sweep", "evict"} :
             Begin([NoOp EXCEPT !.kind = kind, !.step = "remove", !.todo = todo])
      BY <1>12 DEF Insert
    <3> QED
      BY <3>1, SweepBegins DEF Types
  <2>5. floor' \in [Keys -> 0..MaxFills]
    <3>1. op.ver \in 0..MaxFills /\ op.ver - 1 \in 0..MaxFills
      BY <2>1, DiskCacheAssumption DEF Fills
    <3> QED
      BY <1>12, <3>1 DEF Insert, Types
  <2>6. EndGuard(op.ver) /\ UNCHANGED <<index, dir, synced, closed, tick, left>>
    BY <1>12 DEF Insert
  <2> QED
    BY <2>1, <2>3, <2>4, <2>5, <2>6, EndGuardTypes DEF Types
<1>13. ASSUME PurgeMemory PROVE Types'
  <2>1. fill' \in [Fills -> Guards] /\ flight' \in [Bases -> Fills \cup {NoFill}]
    BY <1>13, CancelTypes DEF PurgeMemory
  <2>2. floor' \in [Keys -> 0..MaxFills]
    BY <1>0, <1>13 DEF PurgeMemory, Types, Ops
  <2> QED
    BY <1>13, <2>1, <2>2, NoOpFields DEF PurgeMemory, EndOp, Types
<1>14. ASSUME ShutdownBegin PROVE Types'
  BY <1>14 DEF ShutdownBegin, Types
<1>15. ASSUME ShutdownEnd PROVE Types'
  <2>1. fill' \in [Fills -> Guards] /\ flight' \in [Bases -> Fills \cup {NoFill}]
    BY <1>15, CancelTypes DEF ShutdownEnd
  <2>2. left' \in Budgets /\ synced' \in SUBSET RecordSet
    BY <1>15, FaultTypes DEF ShutdownEnd, Types
  <2> QED
    BY <1>15, <2>1, <2>2 DEF ShutdownEnd, Types
<1>16. ASSUME Restart PROVE Types'
  <2>1. PICK kept \in SUBSET (dir \cup synced) :
            /\ mem' = kept /\ index' = kept /\ dir' = kept /\ synced' = kept
            /\ tick' \in 0..MaxTick
    BY <1>16, Restarts
  <2>2. kept \in SUBSET RecordSet
    BY DEF Types
  <2>3. fill' \in [Fills -> Guards]
    BY <1>16, GuardTypes DEF Restart, Types
  <2>4. flight' \in [Bases -> Fills \cup {NoFill}]
    BY <1>16 DEF Restart
  <2>5. left' \in Budgets
    BY <1>0, <1>16 DEF Restart, Budgets
  <2>6. op' = NoOp /\ closed' = "open" /\ floor' = floor
    BY <1>16 DEF Restart, EndOp
  <2> QED
    BY <2>1, <2>2, <2>3, <2>4, <2>5, <2>6, NoOpFields DEF Types
<1> QED
  BY <1>1, <1>2, <1>3, <1>4, <1>5, <1>6, <1>7, <1>8, <1>9, <1>10, <1>11, <1>12, <1>13, <1>14,
     <1>15, <1>16
  DEF Next, Step

---------------------------------------------------------------------------
(* The steps of an operation *)

\* What identifies an operation does not change while it goes on.
SameOp ==
    /\ op'.kind = op.kind /\ op'.key = op.key /\ op'.ver = op.ver /\ op'.seq = op.seq
    /\ op'.bases = op.bases /\ op'.dead = op.dead

(* The effect of one unlink. *)
LEMMA Removes ==
  ASSUME Types, Remove
  PROVE  \E r \in op.todo :
            /\ dir' = dir \ {r} /\ index' = index \ {r}
            /\ mem' \subseteq mem /\ (op.kind # "store" => mem' = mem)
            /\ SameOp
            /\ op'.todo = op.todo \ {r} /\ op'.dirty = TRUE
            /\ op'.step = IF op.todo = {r} THEN "sync" ELSE "remove"
<1>0. op \in Ops
  BY DEF Types
<1>1. PICK r \in op.todo :
         /\ dir' = dir \ {r} /\ index' = index \ {r}
         /\ mem' \subseteq mem /\ (op.kind # "store" => mem' = mem)
         /\ op' = [op EXCEPT !.todo = @ \ {r}, !.dirty = TRUE,
                             !.step = IF op.todo = {r} THEN "sync" ELSE @]
  BY DEF Remove
<1>2. op.step = "remove"
  BY DEF Remove
<1>3. /\ SameOp
      /\ op'.todo = op.todo \ {r} /\ op'.dirty = TRUE
      /\ op'.step = IF op.todo = {r} THEN "sync" ELSE "remove"
  BY <1>0, <1>1, <1>2 DEF SameOp, Ops
<1> QED
  BY <1>1, <1>3

(* The effect of the directory sync after the unlinks. *)
LEMMA Syncs ==
  ASSUME Types, Shape, Sync
  PROVE  \/ op' = NoOp /\ op.kind \in {"sweep", "evict"}
         \/ /\ SameOp /\ op'.todo = op.todo
            /\ op.kind \in {"store", "touch"} /\ op'.step = "link"
         \/ SameOp /\ op'.todo = op.todo /\ op.kind = "purge" /\ op'.step = "memory"
<1>0. op \in Ops /\ op.kind # "none"
  BY DEF Types, Shape, Sync
<1>1. After(op.kind) = IF op.kind \in {"store", "touch"} THEN "link"
                       ELSE IF op.kind = "purge" THEN "memory" ELSE "end"
  BY DEF After
<1>2. CASE op.kind \in {"sweep", "evict"}
  BY <1>1, <1>2 DEF Sync
<1>3. CASE op.kind \in {"store", "touch", "purge"}
  <2>1. op' = [op EXCEPT !.step = After(op.kind)]
    BY <1>1, <1>3 DEF Sync
  <2> QED
    BY <1>0, <1>1, <1>3, <2>1 DEF Ops, SameOp
<1> QED
  BY <1>0, <1>2, <1>3 DEF Ops, Kinds

(* The effect of linking the new file. *)
LEMMA Links ==
  ASSUME Types, Link
  PROVE  SameOp /\ op'.todo = op.todo /\ op'.step = "settle"
BY DEF Link, Types, Ops, SameOp

(* The effect of the sync and the index entry after the link. *)
LEMMA Settles ==
  ASSUME Types, Settle
  PROVE  \/ op' = NoOp /\ op.kind # "store"
         \/ SameOp /\ op'.todo = op.todo /\ op.kind = "store" /\ op'.step = "insert"
BY DEF Settle, Types, Ops, SameOp

\* An entry stays what the operation writes as long as the operation goes on.
LEMMA WrittenStays ==
  ASSUME Types, SameOp, op.kind # "store" => mem' = mem
  PROVE  Written' = Written
<1>1. CASE op.kind = "store"
  BY <1>1 DEF Written, Record, SameOp
<1>2. CASE op.kind # "store"
  <2>1. mem' = mem /\ op'.key = op.key /\ op'.seq = op.seq /\ op'.kind # "store"
    BY <1>2 DEF SameOp
  <2>2. Written = Record(op.key, (CHOOSE e \in mem : e.key = op.key).ver, op.seq)
    BY <1>2 DEF Written
  <2>3. Written' = Record(op'.key, (CHOOSE e \in mem' : e.key = op'.key).ver, op'.seq)
    BY <2>1 DEF Written, Record
  <2> QED
    BY <2>1, <2>2, <2>3
<1> QED
  BY <1>1, <1>2

\* A store that went through is swept up after; a flight it no longer had, likewise.
LEMMA InsertEnds ==
  ASSUME Types, Shape, Owner, Insert
  PROVE  /\ Current(op.ver) /\ op.kind = "store" /\ op.ver \in Fills /\ EndGuard(op.ver)
         /\ mem' = Inserted(mem, Written)
         /\ floor' = [k \in Keys |-> IF k = op.key THEN op.ver - 1
                                     ELSE IF Conflicts(k, op.key) THEN op.ver ELSE floor[k]]
         /\ op' \in Ops
         /\ \/ op' = NoOp
            \/ /\ op'.kind = "evict" /\ op'.step = "remove" /\ op'.ver = NoFill
               /\ op'.todo \subseteq index /\ op'.dirty = FALSE
<1>1. Current(op.ver) /\ op.kind = "store" /\ op.ver \in Fills /\ EndGuard(op.ver)
  BY DEF Insert, Shape, Owner, Current
<1>2. mem' = Inserted(mem, Written)
  BY <1>1 DEF Insert
<1>3. floor' = [k \in Keys |-> IF k = op.key THEN op.ver - 1
                               ELSE IF Conflicts(k, op.key) THEN op.ver ELSE floor[k]]
  BY <1>1 DEF Insert
<1>4. PICK todo \in SUBSET index :
         Begin([NoOp EXCEPT !.kind = "evict", !.step = "remove", !.todo = todo])
  BY <1>1 DEF Insert
<1>5. todo \in SUBSET RecordSet
  BY DEF Types
<1>6. /\ op' \in Ops
      /\ \/ op' = NoOp
         \/ /\ op'.kind = "evict" /\ op'.step = "remove" /\ op'.todo = todo
            /\ op'.ver = NoFill /\ op'.dirty = FALSE
  BY <1>4, <1>5, SweepBegins
<1> QED
  BY <1>1, <1>2, <1>3, <1>6

\* A lookup that finds nothing begins to sweep, if anything.
LEMMA MissBegins ==
  ASSUME Types, NEW b \in Bases, LookupMiss(b)
  PROVE  /\ mem' \subseteq mem
         /\ op' \in Ops
         /\ \/ op' = NoOp
            \/ /\ op'.kind = "sweep" /\ op'.step = "remove" /\ op'.ver = NoFill
               /\ op'.todo \subseteq index /\ op'.dirty = FALSE
<1> DEFINE todo == {r \in index : BaseOf[r.key] = b /\ r.key \notin KeysOf(mem')}
<1>1. /\ mem' \subseteq mem
      /\ Begin([NoOp EXCEPT !.kind = "sweep", !.step = "remove", !.todo = todo])
  BY DEF LookupMiss
<1>2. todo \in SUBSET RecordSet /\ todo \subseteq index
  BY DEF Types
<1> QED
  BY <1>1, <1>2, SweepBegins

---------------------------------------------------------------------------
(* Fills *)

(* An ended guard, field by field. *)
LEMMA EndedFields == Ended.guard = "done" /\ Ended.outcome = "ended"
BY DEF Ended, Guard

\* Ending a guard answers its followers and takes its own flight off the table.
LEMMA GuardEnds ==
  ASSUME Types, FlightsHaveLeaders, NEW v \in Fills, EndGuard(v)
  PROVE  /\ fill' = [fill EXCEPT ![v] = Ended]
         /\ flight' = [b \in Bases |-> IF flight[b] = v THEN NoFill ELSE flight[b]]
<1>1. NoFill \notin Fills /\ fill[v].base \in Bases
  BY DiskCacheAssumption DEF NoFill, Fills, Types, Guards
<1>2. \A b \in Bases : flight[b] = v => fill[v].base = b
  BY <1>1 DEF FlightsHaveLeaders
<1>3. ~Current(v) => fill[v].outcome # "filling"
  BY DEF FlightsHaveLeaders
<1>4. fill' = [fill EXCEPT ![v] = Ended]
  BY <1>3 DEF EndGuard
<1>5. CASE Current(v)
  <2>1. \A b \in Bases : flight[b] = v <=> b = fill[v].base
    BY <1>2, <1>5 DEF Current
  <2>2. flight' = [flight EXCEPT ![fill[v].base] = NoFill]
    BY <1>5 DEF EndGuard
  <2>3. flight' = [b \in Bases |-> IF flight[b] = v THEN NoFill ELSE flight[b]]
    BY <2>1, <2>2 DEF Types
  <2> QED
    BY <1>4, <2>3
<1>6. CASE ~Current(v)
  <2>1. \A b \in Bases : flight[b] # v
    BY <1>2, <1>6 DEF Current
  <2>2. flight' = flight
    BY <1>6 DEF EndGuard
  <2>3. flight' = [b \in Bases |-> IF flight[b] = v THEN NoFill ELSE flight[b]]
    BY <2>1, <2>2 DEF Types
  <2> QED
    BY <1>4, <2>3
<1> QED
  BY <1>5, <1>6

\* What a step does to the fills and their flights.
FillsEffect ==
    \/ UNCHANGED <<fill, flight>> /\ (closed # "open" => closed' # "open")
    \/ /\ \E v \in Fills : fill[v].guard = "live" /\ EndGuard(v)
       /\ closed # "open" => closed' # "open"
    \/ \E bases : CancelFlights(bases, "purged") /\ closed' = closed
    \/ CancelFlights(Bases, "cancelled") /\ closed' = "closed"
    \/ /\ fill' = [v \in Fills |-> IF fill[v].guard = "none" THEN fill[v] ELSE Ended]
       /\ flight' = [b \in Bases |-> NoFill]

(* What a step does to a fill that exists. *)
LEMMA FillSteps ==
  ASSUME Types, Shape, Owner, Next, ~\E b \in Bases : BeginFill(b)
  PROVE  FillsEffect
<1>1. ASSUME NEW b \in Bases, LookupMiss(b) PROVE FillsEffect
  BY <1>1 DEF LookupMiss, FillsEffect
<1>2. ASSUME NEW b \in Bases, PurgeBase(b) PROVE FillsEffect
  BY <1>2 DEF PurgeBase, Purge, FillsEffect
<1>3. ASSUME NEW k \in Keys, PurgeExact(k) PROVE FillsEffect
  BY <1>3 DEF PurgeExact, Purge, FillsEffect
<1>4. CASE PurgeTag
  BY <1>4 DEF PurgeTag, Purge, FillsEffect
<1>5. ASSUME NEW v \in Fills, LeaderEnds(v) PROVE FillsEffect
  BY <1>5 DEF LeaderEnds, FillsEffect
<1>6. ASSUME NEW v \in Fills, NEW k \in Keys, StoreBegin(v, k) PROVE FillsEffect
  BY <1>6 DEF StoreBegin, FillsEffect
<1>7. ASSUME NEW e \in mem, LookupHit(e) PROVE FillsEffect
  BY <1>7 DEF LookupHit, FillsEffect
<1>8. CASE Remove \/ Sync \/ Link \/ Settle \/ ShutdownBegin
  BY <1>8 DEF Remove, Sync, Link, Settle, ShutdownBegin, FillsEffect
<1>9. CASE RemoveFails \/ SyncFails \/ LinkFails
  <2>1. closed # "open" => closed' # "open"
    BY <1>9 DEF RemoveFails, SyncFails, LinkFails, Shut
  <2>2. Abort
    BY <1>9 DEF RemoveFails, SyncFails, LinkFails
  <2> QED
    BY <2>1, <2>2 DEF Abort, Owner, FillsEffect
<1>10. CASE Insert
  <2>1. fill[op.ver].guard = "live" /\ op.ver \in Fills /\ EndGuard(op.ver) /\ closed' = closed
    BY <1>10 DEF Insert, Owner, Shape
  <2> QED
    BY <2>1 DEF FillsEffect
<1>11. CASE PurgeMemory
  BY <1>11 DEF PurgeMemory, FillsEffect
<1>12. CASE ShutdownEnd
  BY <1>12 DEF ShutdownEnd, FillsEffect
<1>13. CASE Restart
  BY <1>13 DEF Restart, FillsEffect
<1> QED
  BY <1>1, <1>2, <1>3, <1>4, <1>5, <1>6, <1>7, <1>8, <1>9, <1>10, <1>11, <1>12, <1>13
  DEF Next, Step

\* No step but BeginFill changes which fills have begun.
LEMMA IssuedSteps ==
  ASSUME Types, FlightsHaveLeaders, FillsEffect
  PROVE  /\ \A v \in Fills : fill'[v].guard = "none" <=> fill[v].guard = "none"
         /\ Issued' = Issued
<1>1. \A v \in Fills : fill'[v].guard = "none" <=> fill[v].guard = "none"
  <2>1. CASE UNCHANGED <<fill, flight>>
    BY <2>1
  <2>2. ASSUME NEW v \in Fills, fill[v].guard = "live", EndGuard(v)
        PROVE  \A w \in Fills : fill'[w].guard = "none" <=> fill[w].guard = "none"
    <3>1. fill' = [fill EXCEPT ![v] = Ended]
      BY <2>2, GuardEnds
    <3> QED
      BY <2>2, <3>1, EndedFields DEF Types
  <2>3. ASSUME NEW bases, NEW outcome \in {"purged", "cancelled"}, CancelFlights(bases, outcome)
        PROVE  \A w \in Fills : fill'[w].guard = "none" <=> fill[w].guard = "none"
    <3>1. \A w \in Fills : fill[w] \in Guards
      BY DEF Types
    <3>2. \A w \in Fills : [fill[w] EXCEPT !.outcome = outcome].guard = fill[w].guard
      BY <3>1 DEF Guards
    <3> QED
      BY <2>3, <3>2 DEF CancelFlights
  <2>4. CASE fill' = [v \in Fills |-> IF fill[v].guard = "none" THEN fill[v] ELSE Ended]
    BY <2>4, EndedFields
  <2> QED
    BY <2>1, <2>2, <2>3, <2>4 DEF FillsEffect
<1>2. {v \in Fills : fill'[v].guard # "none"} = {v \in Fills : fill[v].guard # "none"}
  BY <1>1
<1>3. Issued' = Cardinality({v \in Fills : fill'[v].guard # "none"})
  BY DEF Issued
<1> QED
  BY <1>1, <1>2, <1>3 DEF Issued

\* A new fill is the next number.
LEMMA FillBegins ==
  ASSUME Types, InOrder, NEW b \in Bases, BeginFill(b)
  PROVE  /\ Issued + 1 \in Fills /\ fill[Issued + 1].guard = "none"
         /\ fill' = [fill EXCEPT ![Issued + 1] = Guard(b, "live", "filling")]
         /\ Issued' = Issued + 1
         /\ \A v \in Fills : fill'[v].guard # "none" <=> v <= Issued + 1
<1>1. Issued + 1 \in Fills /\ Issued \in Nat
  BY DiskCacheAssumption DEF BeginFill, InOrder, Fills
<1>2. fill[Issued + 1].guard = "none"
  BY <1>1 DEF InOrder
<1>3. fill' = [fill EXCEPT ![Issued + 1] = Guard(b, "live", "filling")]
  BY DEF BeginFill
<1>4. \A v \in Fills : fill'[v].guard # "none" <=> v <= Issued + 1
  BY <1>1, <1>3 DEF InOrder, Types, Guard, Fills
<1>5. {v \in Fills : fill'[v].guard # "none"} = 1..(Issued + 1)
  <2>1. MaxFills \in Nat /\ Issued + 1 <= MaxFills
    BY <1>1, DiskCacheAssumption DEF Fills
  <2>2. \A v : v \in Fills /\ v <= Issued + 1 <=> v \in 1..(Issued + 1)
    BY <1>1, <2>1 DEF Fills
  <2> QED
    BY <1>4, <2>2
<1>6. Cardinality(1..(Issued + 1)) = Issued + 1
  BY <1>1, FS_Interval
<1>7. Issued' = Cardinality({v \in Fills : fill'[v].guard # "none"})
  BY DEF Issued
<1> QED
  BY <1>1, <1>2, <1>3, <1>4, <1>5, <1>6, <1>7

(* Fills are begun in the order of their numbers. *)
LEMMA InOrderStep ==
  ASSUME Types, InOrder, FlightsHaveLeaders, Shape, Owner, Next
  PROVE  InOrder'
<1>1. ASSUME NEW b \in Bases, BeginFill(b) PROVE InOrder'
  <2>1. Issued \in Nat /\ Issued' = Issued + 1 /\ Issued + 1 \in Fills
    BY <1>1, FillBegins, DiskCacheAssumption DEF InOrder
  <2>2. \A v \in Fills : fill'[v].guard # "none" <=> v <= Issued'
    BY <1>1, <2>1, FillBegins
  <2> QED
    BY <2>1, <2>2 DEF InOrder, Fills
<1>2. CASE ~\E b \in Bases : BeginFill(b)
  BY <1>2, FillSteps, IssuedSteps DEF InOrder
<1> QED
  BY <1>1, <1>2

(* Every step keeps every flight led. *)
LEMMA LeadersStep ==
  ASSUME Types, InOrder, FlightsHaveLeaders, Shape, Owner, Next
  PROVE  FlightsHaveLeaders'
<1>0. NoFill \notin Fills
  BY DEF NoFill, Fills
<1>1. ASSUME NEW b \in Bases, BeginFill(b) PROVE FlightsHaveLeaders'
  <2> DEFINE n == Issued + 1
  <2>1. /\ n \in Fills /\ fill[n].guard = "none"
        /\ fill' = [fill EXCEPT ![n] = Guard(b, "live", "filling")]
        /\ flight' = [flight EXCEPT ![b] = n] /\ flight[b] = NoFill /\ closed = "open"
        /\ closed' = closed
    BY <1>1, FillBegins DEF BeginFill
  <2> HIDE DEF n
  <2>2. fill'[n].base = b /\ fill'[n].guard = "live" /\ fill'[n].outcome = "filling"
    BY <2>1 DEF Guard, Types
  <2>3. \A v \in Fills \ {n} : fill'[v] = fill[v]
    BY <2>1 DEF Types
  <2>4. flight'[b] = n /\ \A c \in Bases \ {b} : flight'[c] = flight[c]
    BY <2>1 DEF Types
  <2>5. ASSUME NEW c \in Bases, flight'[c] # NoFill
        PROVE  fill'[flight'[c]].base = c /\ fill'[flight'[c]].guard = "live"
    <3>1. CASE c = b
      BY <2>2, <2>4, <3>1
    <3>2. CASE c # b
      <4>1. flight'[c] = flight[c] /\ flight[c] \in Fills
        BY <2>4, <2>5, <3>2 DEF Types
      <4>2. fill[flight[c]].base = c /\ fill[flight[c]].guard = "live"
        BY <2>5, <4>1 DEF FlightsHaveLeaders
      <4> QED
        BY <2>1, <2>3, <4>1, <4>2
    <3> QED
      BY <3>1, <3>2
  <2>6. ASSUME NEW v \in Fills, fill'[v].outcome = "filling"
        PROVE  flight'[fill'[v].base] = v
    <3>1. CASE v = n
      BY <2>2, <2>4, <3>1
    <3>2. CASE v # n
      <4>1. fill'[v] = fill[v] /\ flight[fill[v].base] = v /\ fill[v].base \in Bases
        BY <2>3, <2>6, <3>2 DEF FlightsHaveLeaders, Current, Types, Guards
      <4>2. fill[v].base # b
        BY <1>0, <2>1, <4>1
      <4> QED
        BY <2>4, <4>1, <4>2
    <3> QED
      BY <3>1, <3>2
  <2>7. ASSUME NEW v \in Fills, fill'[v].guard = "live" /\ fill'[v].outcome = "cancelled"
        PROVE  closed' # "open"
    BY <2>1, <2>2, <2>3, <2>7 DEF FlightsHaveLeaders
  <2> QED
    BY <2>5, <2>6, <2>7 DEF FlightsHaveLeaders, Current
<1>2. CASE UNCHANGED <<fill, flight>> /\ (closed # "open" => closed' # "open")
  BY <1>2 DEF FlightsHaveLeaders, Current
<1>3. ASSUME NEW v \in Fills, fill[v].guard = "live", EndGuard(v), closed # "open" => closed' # "open"
      PROVE  FlightsHaveLeaders'
  <2>1. /\ fill' = [fill EXCEPT ![v] = Ended]
        /\ flight' = [b \in Bases |-> IF flight[b] = v THEN NoFill ELSE flight[b]]
    BY <1>3, GuardEnds
  <2>2. ASSUME NEW c \in Bases, flight'[c] # NoFill
        PROVE  fill'[flight'[c]].base = c /\ fill'[flight'[c]].guard = "live"
    <3>1. flight'[c] = flight[c] /\ flight[c] # v /\ flight[c] \in Fills
      BY <2>1, <2>2 DEF Types
    <3> QED
      BY <2>1, <2>2, <3>1 DEF FlightsHaveLeaders, Types
  <2>3. ASSUME NEW w \in Fills, fill'[w].outcome = "filling"
        PROVE  flight'[fill'[w].base] = w
    <3>1. w # v
      BY <2>1, <2>3, EndedFields DEF Types
    <3>2. fill'[w] = fill[w] /\ flight[fill[w].base] = w /\ fill[w].base \in Bases
      BY <2>1, <2>3, <3>1 DEF FlightsHaveLeaders, Current, Types, Guards
    <3> QED
      BY <2>1, <3>1, <3>2
  <2>4. ASSUME NEW w \in Fills, fill'[w].guard = "live" /\ fill'[w].outcome = "cancelled"
        PROVE  closed' # "open"
    BY <1>3, <2>1, <2>4, EndedFields DEF FlightsHaveLeaders, Types
  <2> QED
    BY <2>2, <2>3, <2>4 DEF FlightsHaveLeaders, Current
<1>4. ASSUME NEW bases, NEW outcome \in {"purged", "cancelled"}, CancelFlights(bases, outcome),
             outcome = "purged" => closed' = closed,
             outcome = "cancelled" => closed' = "closed"
      PROVE  FlightsHaveLeaders'
  <2>1. \A v \in Fills : /\ fill'[v].base = fill[v].base /\ fill'[v].guard = fill[v].guard
                         /\ \/ fill'[v].outcome = outcome
                            \/ /\ fill'[v].outcome = fill[v].outcome
                               /\ ~(fill[v].base \in bases /\ Current(v))
    BY <1>4 DEF CancelFlights, Types, Guards
  <2>2. \A b \in Bases : flight'[b] = IF b \in bases THEN NoFill ELSE flight[b]
    BY <1>4 DEF CancelFlights
  <2>3. ASSUME NEW c \in Bases, flight'[c] # NoFill
        PROVE  fill'[flight'[c]].base = c /\ fill'[flight'[c]].guard = "live"
    <3>1. flight'[c] = flight[c] /\ flight[c] \in Fills
      BY <2>2, <2>3 DEF Types
    <3> QED
      BY <2>1, <2>3, <3>1 DEF FlightsHaveLeaders
  <2>4. ASSUME NEW v \in Fills, fill'[v].outcome = "filling"
        PROVE  flight'[fill'[v].base] = v
    <3>1. fill[v].outcome = "filling" /\ fill'[v].base = fill[v].base /\ fill[v].base \in Bases
      BY <2>1, <2>4 DEF Types, Guards
    <3>2. Current(v) /\ fill[v].base \notin bases
      BY <2>1, <2>4, <3>1 DEF FlightsHaveLeaders
    <3> QED
      BY <2>2, <3>1, <3>2 DEF Current
  <2>5. ASSUME NEW v \in Fills, fill'[v].guard = "live" /\ fill'[v].outcome = "cancelled"
        PROVE  closed' # "open"
    BY <1>4, <2>1, <2>5 DEF FlightsHaveLeaders
  <2> QED
    BY <2>3, <2>4, <2>5 DEF FlightsHaveLeaders, Current
<1>5. CASE /\ fill' = [v \in Fills |-> IF fill[v].guard = "none" THEN fill[v] ELSE Ended]
           /\ flight' = [b \in Bases |-> NoFill]
  <2>1. \A v \in Fills : fill[v].guard = "none" => fill[v].outcome # "filling"
    <3>1. ASSUME NEW v \in Fills, fill[v].guard = "none", fill[v].outcome = "filling" PROVE FALSE
      <4>1. flight[fill[v].base] = v /\ fill[v].base \in Bases
        BY <3>1 DEF FlightsHaveLeaders, Current, Types, Guards
      <4> QED
        BY <1>0, <3>1, <4>1 DEF FlightsHaveLeaders
    <3> QED
      BY <3>1
  <2> QED
    BY <1>5, <2>1, EndedFields DEF FlightsHaveLeaders, Current
<1>6. CASE ~\E b \in Bases : BeginFill(b)
  BY <1>2, <1>3, <1>4, <1>5, <1>6, FillSteps DEF FillsEffect
<1> QED
  BY <1>1, <1>6

---------------------------------------------------------------------------
(* Operations *)

\* Between operations there is nothing to say of one.
LEMMA Over ==
  ASSUME op' = NoOp
  PROVE  Shape' /\ Owner' /\ ~Writes' /\ op'.step = "none"
BY NoOpFields DEF Shape, Owner, Writes

\* A step of others leaves the operation and what it works on alone.
LEMMA Others ==
  ASSUME \/ \E b \in Bases : BeginFill(b)
         \/ \E v \in Fills : LeaderEnds(v)
         \/ \E v \in Fills, k \in Keys : StoreBegin(v, k) /\ ~(closed = "open" /\ Current(v))
         \/ ShutdownBegin \/ ShutdownEnd
  PROVE  /\ UNCHANGED <<mem, index, dir, op, tick, floor>>
         /\ synced' \in {synced, dir}
         /\ closed' = "open" => closed = "open"
         /\ UNCHANGED <<synced, undone>> \/ (op = NoOp /\ closed' # "open")
BY DEF BeginFill, LeaderEnds, StoreBegin, ShutdownBegin, ShutdownEnd

(* A failed operation ends and removes nothing more. *)
LEMMA Aborts ==
  ASSUME RemoveFails \/ SyncFails \/ LinkFails
  PROVE  /\ op' = NoOp /\ UNCHANGED <<mem, index, dir, synced, tick, floor>>
         /\ op.step \in {"remove", "sync", "settle", "link"}
         /\ op.step \in {"sync", "settle"} => closed' # "open"
         /\ undone' = undone \/ RemoveFails
         /\ closed' = "open" => closed = "open"
         /\ op.kind = "store" => EndGuard(op.ver)
         /\ op.kind # "store" => UNCHANGED <<fill, flight>>
<1>1. CASE RemoveFails
  BY <1>1 DEF RemoveFails, Abort, EndOp, Shut
<1>2. CASE SyncFails
  BY <1>2 DEF SyncFails, Abort, EndOp, Shut
<1>3. CASE LinkFails
  BY <1>3 DEF LinkFails, Abort, EndOp
<1> QED
  BY <1>1, <1>2, <1>3

\* The actions of Next, as the proofs below go through them.
LEMMA Cases ==
  ASSUME Next
  PROVE  \/ \/ \E b \in Bases : BeginFill(b)
            \/ \E v \in Fills : LeaderEnds(v)
            \/ \E v \in Fills, k \in Keys : StoreBegin(v, k) /\ ~(closed = "open" /\ Current(v))
            \/ ShutdownBegin \/ ShutdownEnd
         \/ \E v \in Fills, k \in Keys : StoreBegin(v, k) /\ closed = "open" /\ Current(v)
         \/ \E e \in mem : LookupHit(e)
         \/ \E b \in Bases : LookupMiss(b)
         \/ (\E k \in Keys : PurgeExact(k)) \/ (\E b \in Bases : PurgeBase(b)) \/ PurgeTag
         \/ RemoveFails \/ SyncFails \/ LinkFails
         \/ Remove \/ Sync \/ Link \/ Settle \/ Insert \/ PurgeMemory \/ Restart
BY DEF Next, Step

\* A store takes the mutex.
LEMMA StoreTakes ==
  ASSUME Types, NEW v \in Fills, NEW k \in Keys, StoreBegin(v, k), closed = "open" /\ Current(v)
  PROVE  /\ op' \in Ops /\ op = NoOp /\ tick < MaxTick /\ tick' = tick + 1
         /\ op'.kind = "store" /\ op'.key = k /\ op'.ver = v /\ op'.seq = tick + 1
         /\ op'.step = IF Victims(k) # {} THEN "remove" ELSE "link"
         /\ op'.todo = Victims(k) /\ op'.dirty = FALSE
         /\ fill[v].guard = "live" /\ fill[v].base = BaseOf[k] /\ flight[BaseOf[k]] = v
         /\ UNCHANGED <<mem, index, dir, synced, closed, floor, undone, left, fill, flight>>
<1>1. /\ tick < MaxTick /\ tick' = tick + 1
      /\ Begin([NoOp EXCEPT !.kind = "store", !.step = "remove", !.key = k, !.ver = v,
                            !.seq = tick + 1, !.todo = Victims(k)])
      /\ UNCHANGED <<fill, flight>>
  BY DEF StoreBegin
<1>2. /\ fill[v].guard = "live" /\ fill[v].base = BaseOf[k] /\ flight[BaseOf[k]] = v
      /\ op = NoOp /\ UNCHANGED <<mem, index, dir, synced, closed, floor, undone, left>>
  BY DEF StoreBegin, Current
<1> QED
  BY <1>1, <1>2, StoreBegins

\* A purge takes the mutex.
LEMMA PurgeTakes ==
  ASSUME Types, (\E k \in Keys : PurgeExact(k)) \/ (\E b \in Bases : PurgeBase(b)) \/ PurgeTag
  PROVE  /\ op' \in Ops /\ op = NoOp /\ closed = "open"
         /\ op'.kind = "purge" /\ op'.step \in {"remove", "memory"} /\ op'.ver = NoFill
         /\ op'.todo \subseteq index /\ op'.dirty = FALSE
         /\ op'.step = "memory" => op'.todo = {}
         /\ UNCHANGED <<mem, index, dir, synced, closed, flight, fill, tick, floor, undone>>
<1>1. PICK keys \in SUBSET (Keys \cup Tagged), bases \in SUBSET Bases,
           dead \in [Keys -> 0..MaxFills] : Purge(keys, bases, dead)
  BY PurgeTypes
<1>2. /\ op' \in Ops
      /\ op'.kind = "purge" /\ op'.step \in {"remove", "memory"} /\ op'.ver = NoFill
      /\ op'.todo = {r \in index : r.key \in keys}
      /\ op'.todo = {} <=> op'.step = "memory"
      /\ op'.dirty = FALSE
  BY <1>1, PurgeBegins
<1>3. /\ op = NoOp /\ closed = "open"
      /\ UNCHANGED <<mem, index, dir, synced, closed, flight, fill, tick, floor, undone>>
  BY <1>1 DEF Purge
<1> QED
  BY <1>2, <1>3

(* Every step keeps each operation in the form of its kind. *)
LEMMA ShapeStep ==
  ASSUME Types, Shape, Owner, Next
  PROVE  Shape'
<1>1. CASE op' = NoOp
  BY <1>1, Over
<1>2. CASE UNCHANGED <<op, index>>
  BY <1>2 DEF Shape, Writes
<1>3. ASSUME NEW v \in Fills, NEW k \in Keys, StoreBegin(v, k), closed = "open" /\ Current(v)
      PROVE  Shape'
  <2>1. /\ op'.kind = "store" /\ op'.todo = Victims(k) /\ index' = index
        /\ op'.step = IF Victims(k) # {} THEN "remove" ELSE "link"
    BY <1>3, StoreTakes
  <2>2. Victims(k) \subseteq index
    BY VictimsIndexed
  <2> QED
    BY <2>1, <2>2 DEF Shape, Writes
<1>4. ASSUME NEW e \in mem, LookupHit(e) PROVE Shape'
  <2> DEFINE old == {r \in index : r.key = e.key}
  <2>1. CASE old = {}
    BY <1>1, <1>4, <2>1, TouchBegins
  <2>2. CASE old # {}
    <3>1. op'.kind = "touch" /\ op'.step = "remove" /\ op'.todo = old /\ index' = index
      BY <1>4, <2>2, TouchBegins DEF LookupHit
    <3> QED
      BY <3>1 DEF Shape, Writes
  <2> QED
    BY <2>1, <2>2
<1>5. ASSUME NEW b \in Bases, LookupMiss(b) PROVE Shape'
  <2>1. index' = index
    BY <1>5 DEF LookupMiss
  <2> QED
    BY <1>1, <1>5, <2>1, MissBegins DEF Shape
<1>6. CASE (\E k \in Keys : PurgeExact(k)) \/ (\E b \in Bases : PurgeBase(b)) \/ PurgeTag
  BY <1>6, PurgeTakes DEF Shape
<1>7. CASE Remove
  <2>1. op.step = "remove"
    BY <1>7 DEF Remove
  <2> QED
    BY <1>7, <2>1, Removes DEF Shape, SameOp
<1>8. CASE Sync
  <2>1. op.step = "sync" /\ index' = index
    BY <1>8 DEF Sync
  <2> QED
    BY <1>1, <1>8, <2>1, Syncs DEF Shape, SameOp, Writes
<1>9. CASE Link
  <2>1. op.step = "link" /\ index' = index
    BY <1>9 DEF Link
  <2> QED
    BY <1>9, <2>1, Links DEF Shape, SameOp, Writes
<1>10. CASE Settle
  <2>1. op.step = "settle" /\ index \subseteq index'
    BY <1>10 DEF Settle
  <2> QED
    BY <1>1, <1>10, <2>1, Settles DEF Shape, SameOp
<1>11. CASE Insert
  <2>1. index' = index
    BY <1>11 DEF Insert
  <2> QED
    BY <1>1, <1>11, <2>1, InsertEnds DEF Shape
<1>12. CASE PurgeMemory \/ Restart \/ RemoveFails \/ SyncFails \/ LinkFails
  BY <1>1, <1>12, Aborts DEF PurgeMemory, Restart, EndOp
<1> QED
  BY <1>2, <1>3, <1>4, <1>5, <1>6, <1>7, <1>8, <1>9, <1>10, <1>11, <1>12, Cases, Others

(* Every step keeps the operation's fill its own. *)
LEMMA OwnerStep ==
  ASSUME Types, InOrder, FlightsHaveLeaders, Shape, Owner, Next
  PROVE  Owner'
<1>1. CASE op' = NoOp
  BY <1>1, Over
<1>2. CASE UNCHANGED op /\ op = NoOp
  BY <1>1, <1>2
<1>3. ASSUME NEW v \in Fills, LeaderEnds(v) PROVE Owner'
  <2>1. /\ fill' = [fill EXCEPT ![v] = Ended]
        /\ flight' = [b \in Bases |-> IF flight[b] = v THEN NoFill ELSE flight[b]]
    BY <1>3, GuardEnds DEF LeaderEnds
  <2>2. op.ver # v /\ op' = op /\ mem' = mem
    BY <1>3 DEF LeaderEnds
  <2>3. BaseOf[op.key] \in Bases
    BY DiskCacheAssumption DEF Types, Ops
  <2> QED
    BY <2>1, <2>2, <2>3 DEF Owner, Types
<1>4. CASE ShutdownBegin
  BY <1>4 DEF ShutdownBegin, Owner
<1>5. ASSUME NEW v \in Fills, NEW k \in Keys, StoreBegin(v, k), closed = "open" /\ Current(v)
      PROVE  Owner'
  BY <1>5, StoreTakes DEF Owner
<1>6. ASSUME NEW e \in mem, LookupHit(e) PROVE Owner'
  <2>1. CASE op' # NoOp
    <3>1. op'.kind = "touch" /\ op'.ver = NoFill /\ op'.key = e.key
      BY <1>6, <2>1, TouchBegins
    <3>2. [e EXCEPT !.seq = tick + 1] \in mem'
      BY <1>6 DEF LookupHit
    <3>3. [e EXCEPT !.seq = tick + 1].key = e.key
      BY DEF Types, RecordSet
    <3> QED
      BY <3>1, <3>2, <3>3 DEF Owner
  <2> QED
    BY <1>1, <2>1
<1>7. ASSUME NEW b \in Bases, LookupMiss(b) PROVE Owner'
  BY <1>1, <1>7, MissBegins DEF Owner
<1>8. CASE (\E k \in Keys : PurgeExact(k)) \/ (\E b \in Bases : PurgeBase(b)) \/ PurgeTag
  BY <1>8, PurgeTakes DEF Owner
<1>9. ASSUME SameOp, UNCHANGED <<fill, flight>>, op.kind # "store" => mem' = mem PROVE Owner'
  BY <1>9 DEF Owner, SameOp
<1>10. CASE Remove
  BY <1>9, <1>10, Removes DEF Remove
<1>11. CASE Sync \/ Link \/ Settle
  <2>1. UNCHANGED <<fill, flight, mem>>
    BY <1>11 DEF Sync, Link, Settle
  <2> QED
    BY <1>1, <1>9, <1>11, <2>1, Syncs, Links, Settles
<1>12. CASE Insert
  BY <1>1, <1>12, InsertEnds DEF Owner
<1>13. CASE PurgeMemory \/ Restart \/ RemoveFails \/ SyncFails \/ LinkFails
  BY <1>1, <1>13, Aborts DEF PurgeMemory, Restart, EndOp
<1>14. CASE \/ \E b \in Bases : BeginFill(b)
            \/ \E v \in Fills, k \in Keys : StoreBegin(v, k) /\ ~(closed = "open" /\ Current(v))
            \/ ShutdownEnd
  BY <1>2, <1>14 DEF BeginFill, StoreBegin, ShutdownEnd
<1> QED
  BY <1>3, <1>4, <1>5, <1>6, <1>7, <1>8, <1>10, <1>11, <1>12, <1>13, <1>14, Cases

---------------------------------------------------------------------------
(* The clock, the directory and the quota *)

(* Access numbers stay distinct and no later than the clock. *)
LEMMA AccessedStep ==
  ASSUME Types, Shape, Owner, Accessed, Next
  PROVE  Accessed'
<1>0. /\ tick \in Nat
      /\ \A r \in dir \cup synced : r.seq \in Nat
  BY DiskCacheAssumption DEF Types, RecordSet
<1>1. ASSUME dir' \cup synced' \subseteq dir \cup synced, tick' = tick, ~Writes' PROVE Accessed'
  BY <1>1 DEF Accessed
<1>2. CASE UNCHANGED <<dir, op, tick>> /\ synced' \in {synced, dir}
  BY <1>2 DEF Accessed, Writes
<1>3. ASSUME NEW v \in Fills, NEW k \in Keys, StoreBegin(v, k), closed = "open" /\ Current(v)
      PROVE  Accessed'
  <2>1. /\ UNCHANGED <<dir, synced>> /\ tick' = tick + 1 /\ op'.seq = tick + 1
    BY <1>3, StoreTakes
  <2> QED
    BY <1>0, <2>1 DEF Accessed
<1>4. ASSUME NEW e \in mem, LookupHit(e) PROVE Accessed'
  <2>1. UNCHANGED <<dir, synced>> /\ tick' = tick + 1
    BY <1>4 DEF LookupHit
  <2>2. Writes' => op'.seq = tick + 1
    BY <1>4, TouchBegins, Over DEF Writes
  <2> QED
    BY <1>0, <2>1, <2>2 DEF Accessed
<1>5. ASSUME NEW b \in Bases, LookupMiss(b) PROVE Accessed'
  <2>1. UNCHANGED <<dir, synced, tick>>
    BY <1>5 DEF LookupMiss
  <2>2. ~Writes'
    BY <1>5, MissBegins, Over DEF Writes
  <2> QED
    BY <1>1, <2>1, <2>2
<1>6. CASE (\E k \in Keys : PurgeExact(k)) \/ (\E b \in Bases : PurgeBase(b)) \/ PurgeTag
  BY <1>1, <1>6, PurgeTakes DEF Writes
<1>7. CASE RemoveFails \/ SyncFails \/ LinkFails \/ PurgeMemory
  <2>1. op' = NoOp /\ UNCHANGED <<dir, synced, tick>>
    BY <1>7, Aborts DEF PurgeMemory, EndOp
  <2> QED
    BY <1>1, <2>1, Over
<1>8. CASE Remove
  <2>1. UNCHANGED <<synced, tick>> /\ op.step = "remove"
    BY <1>8 DEF Remove
  <2>2. dir' \subseteq dir /\ SameOp
    BY <1>8, Removes
  <2> QED
    BY <2>1, <2>2 DEF Accessed, Writes, SameOp
<1>9. CASE Sync
  <2>1. UNCHANGED <<dir, tick>> /\ synced' = dir /\ op.step = "sync"
    BY <1>9 DEF Sync
  <2>2. op' = NoOp \/ SameOp
    BY <1>9, Syncs
  <2> QED
    BY <1>1, <2>1, <2>2, Over DEF Accessed, Writes, SameOp
<1>10. CASE Link
  <2>1. UNCHANGED <<synced, tick>> /\ dir' = dir \cup {Written} /\ op.step = "link" /\ Writes
    BY <1>10 DEF Link, Shape
  <2>2. Written.seq = tick /\ \A r \in dir \cup synced : r.seq < tick
    BY <2>1, WrittenFields DEF Accessed
  <2>3. SameOp /\ op'.step = "settle"
    BY <1>10, Links
  <2>4. \A r \in dir' \cup synced' : r.seq <= tick'
    BY <1>0, <2>1, <2>2
  <2>5. ASSUME NEW r \in dir' \cup synced', NEW s \in dir' \cup synced', r.seq = s.seq
        PROVE  r = s
    <3>1. (r = Written \/ r \in dir \cup synced) /\ (s = Written \/ s \in dir \cup synced)
      BY <2>1
    <3>2. CASE r = Written \/ s = Written
      BY <1>0, <2>2, <2>5, <3>1, <3>2
    <3>3. CASE r \in dir \cup synced /\ s \in dir \cup synced
      BY <2>5, <3>3 DEF Accessed
    <3> QED
      BY <3>1, <3>2, <3>3
  <2> QED
    BY <2>1, <2>3, <2>4, <2>5 DEF Accessed, Writes, SameOp
<1>11. CASE Settle
  <2>1. UNCHANGED <<dir, tick>> /\ synced' = dir
    BY <1>11 DEF Settle
  <2>2. op' = NoOp \/ (SameOp /\ op'.step = "insert")
    BY <1>11, Settles
  <2> QED
    BY <1>1, <2>1, <2>2, Over DEF Accessed, Writes, SameOp
<1>12. CASE Insert
  <2>1. UNCHANGED <<dir, synced, tick>>
    BY <1>12 DEF Insert
  <2>2. ~Writes'
    BY <1>12, InsertEnds, Over DEF Writes
  <2> QED
    BY <1>1, <2>1, <2>2
<1>13. CASE Restart
  <2>1. PICK kept \in SUBSET (dir \cup synced) :
            dir' = kept /\ synced' = kept /\ \A f \in kept : f.seq <= tick'
    BY <1>13, Restarts
  <2>2. op' = NoOp
    BY <1>13 DEF Restart, EndOp
  <2> QED
    BY <2>1, <2>2, Over DEF Accessed
<1> QED
  BY <1>2, <1>3, <1>4, <1>5, <1>6, <1>7, <1>8, <1>9, <1>10, <1>11, <1>12, <1>13, Cases, Others

(* Index and directory differ only by what the operation is doing. *)
LEMMA OnDiskStep ==
  ASSUME Types, Shape, Owner, OnDisk, Next
  PROVE  OnDisk'
<1>1. ASSUME dir = index, dir' = index', op'.step # "settle" PROVE OnDisk'
  BY <1>1 DEF OnDisk
<1>2. CASE UNCHANGED <<mem, index, dir, op>> /\ (closed' = "open" => closed = "open")
  BY <1>2 DEF OnDisk, Active, Written
<1>3. op = NoOp /\ closed = "open" => dir = index
  BY NoOpFields DEF OnDisk, Active
<1>4. op.step \notin {"none", "settle"} => dir = index
  BY DEF OnDisk, Active
<1>5. ASSUME NEW v \in Fills, NEW k \in Keys, StoreBegin(v, k), closed = "open" /\ Current(v)
      PROVE  OnDisk'
  <2>1. /\ op = NoOp /\ UNCHANGED <<dir, index>>
        /\ op'.step = IF Victims(k) # {} THEN "remove" ELSE "link"
    BY <1>5, StoreTakes
  <2> QED
    BY <1>1, <1>3, <1>5, <2>1
<1>6. ASSUME NEW e \in mem, LookupHit(e) PROVE OnDisk'
  <2>1. op = NoOp /\ closed = "open" /\ UNCHANGED <<dir, index>>
    BY <1>6 DEF LookupHit
  <2>2. op' = NoOp \/ op'.step = "remove"
    BY <1>6, TouchBegins
  <2> QED
    BY <1>1, <1>3, <2>1, <2>2, Over
<1>7. ASSUME NEW b \in Bases, LookupMiss(b) PROVE OnDisk'
  <2>1. op = NoOp /\ closed = "open" /\ UNCHANGED <<dir, index>>
    BY <1>7 DEF LookupMiss
  <2>2. op' = NoOp \/ op'.step = "remove"
    BY <1>7, MissBegins
  <2> QED
    BY <1>1, <1>3, <2>1, <2>2, Over
<1>8. CASE (\E k \in Keys : PurgeExact(k)) \/ (\E b \in Bases : PurgeBase(b)) \/ PurgeTag
  BY <1>1, <1>3, <1>8, PurgeTakes
<1>9. CASE RemoveFails \/ SyncFails \/ LinkFails
  <2>1. /\ op' = NoOp /\ UNCHANGED <<index, dir>>
        /\ op.step \in {"remove", "sync", "settle", "link"}
        /\ op.step \in {"sync", "settle"} => closed' # "open"
    BY <1>9, Aborts
  <2> QED
    BY <1>1, <1>4, <2>1, Over DEF OnDisk, Active
<1>10. CASE PurgeMemory
  <2>1. op' = NoOp /\ op.step = "memory" /\ UNCHANGED <<index, dir>>
    BY <1>10 DEF PurgeMemory, EndOp
  <2> QED
    BY <1>1, <1>4, <2>1, Over
<1>11. CASE Remove
  <2>1. op.step = "remove"
    BY <1>11 DEF Remove
  <2>2. /\ \E r \in op.todo : dir' = dir \ {r} /\ index' = index \ {r}
        /\ op'.step \in {"remove", "sync"}
    BY <1>11, Removes
  <2> QED
    BY <1>1, <1>4, <2>1, <2>2
<1>12. CASE Sync
  <2>1. op.step = "sync" /\ UNCHANGED <<index, dir>>
    BY <1>12 DEF Sync
  <2>2. op' = NoOp \/ op'.step \in {"link", "memory"}
    BY <1>12, Syncs
  <2> QED
    BY <1>1, <1>4, <2>1, <2>2, Over
<1>13. CASE Link
  <2>1. op.step = "link" /\ index' = index /\ mem' = mem /\ dir' = dir \cup {Written}
    BY <1>13 DEF Link
  <2>2. SameOp /\ op'.step = "settle"
    BY <1>13, Links
  <2>3. Written' = Written
    BY <2>1, <2>2, WrittenStays
  <2> QED
    BY <1>4, <2>1, <2>2, <2>3 DEF OnDisk
<1>14. CASE Settle
  <2>1. op.step = "settle" /\ index' = index \cup {Written} /\ dir' = dir
    BY <1>14 DEF Settle
  <2>2. dir = index \cup {Written}
    BY <2>1 DEF OnDisk, Active
  <2>3. op' = NoOp \/ op'.step = "insert"
    BY <1>14, Settles
  <2> QED
    BY <2>1, <2>2, <2>3, Over DEF OnDisk
<1>15. CASE Insert
  <2>1. op.step = "insert" /\ UNCHANGED <<index, dir>>
    BY <1>15 DEF Insert
  <2>2. op' = NoOp \/ op'.step = "remove"
    BY <1>15, InsertEnds
  <2> QED
    BY <1>1, <1>4, <2>1, <2>2, Over
<1>16. CASE Restart
  <2>1. op' = NoOp /\ dir' = index'
    BY <1>16, Restarts DEF Restart, EndOp
  <2> QED
    BY <2>1, Over DEF OnDisk
<1> QED
  BY <1>2, <1>5, <1>6, <1>7, <1>8, <1>9, <1>10, <1>11, <1>12, <1>13, <1>14, <1>15, <1>16, Cases,
     Others

\* Records that a crash could bring back have different numbers.
LEMMA Distinct ==
  ASSUME Types, Accessed, Room, NEW S \in SUBSET (dir \cup synced)
  PROVE  Numbered(S)
<1>1. IsFiniteSet(dir \cup synced)
  BY FS_Union DEF Room
<1>2. IsFiniteSet(S)
  BY <1>1, FS_Subset
<1>3. \A r \in dir \cup synced : r.seq \in Nat
  BY DiskCacheAssumption DEF Types, RecordSet
<1> QED
  BY <1>2, <1>3 DEF Numbered, Accessed

\* What admission_victims leaves makes room for one more.
LEMMA VictimsMakeRoom ==
  ASSUME Types, Accessed, Room, dir = index, NEW k
  PROVE  Cardinality(index \ Victims(k)) < MaxFiles
<1> DEFINE replaced == {r \in index : r.key = k \/ Conflicts(r.key, k)}
           rest == index \ replaced
           out == Oldest(rest, Cardinality(rest) - (MaxFiles - 1))
<1>1. Numbered(rest)
  BY Distinct
<1>2. MaxFiles - 1 \in Nat
  BY DiskCacheAssumption
<1> HIDE DEF rest
<1>3. IsFiniteSet(rest \ out) /\ Cardinality(rest \ out) <= MaxFiles - 1
  BY <1>1, <1>2, WithinQuota
<1>4. index \ Victims(k) = rest \ out
  <2>1. Victims(k) = replaced \cup out
    BY DEF Victims, rest
  <2> QED
    BY <2>1 DEF rest
<1> HIDE DEF out
<1>5. Cardinality(rest \ out) \in Nat /\ MaxFiles \in Nat
  BY <1>3, FS_CardinalityType, DiskCacheAssumption
<1>6. Cardinality(rest \ out) < MaxFiles
  BY <1>2, <1>3, <1>5
<1> QED
  BY <1>4, <1>6

(* Every step keeps the files within the quota. *)
LEMMA QuotaStep ==
  ASSUME Types, Shape, Owner, Accessed, OnDisk, Room, FilesWithinQuota, Next
  PROVE  Room' /\ FilesWithinQuota'
<1>0. /\ IsFiniteSet(dir) /\ Cardinality(dir) \in Nat /\ IsFiniteSet(synced)
      /\ Cardinality(dir) <= MaxFiles /\ MaxFiles \in Nat
  BY FS_CardinalityType, DiskCacheAssumption DEF Room, FilesWithinQuota
<1>1. ASSUME dir' \subseteq dir, synced' \in {synced, dir},
             Writes' /\ op'.step \in {"remove", "sync", "link"} =>
                Cardinality(index' \ op'.todo) < MaxFiles
      PROVE  Room' /\ FilesWithinQuota'
  <2>1. IsFiniteSet(dir') /\ Cardinality(dir') <= Cardinality(dir)
    BY <1>0, <1>1, FS_Subset
  <2>2. Cardinality(dir') \in Nat
    BY <2>1, FS_CardinalityType
  <2>3. IsFiniteSet(synced')
    BY <1>0, <1>1
  <2>4. Cardinality(dir') <= MaxFiles
    BY <1>0, <2>1, <2>2
  <2> QED
    BY <1>1, <2>1, <2>3, <2>4 DEF Room, FilesWithinQuota
<1>2. CASE UNCHANGED <<index, dir, op>> /\ synced' \in {synced, dir}
  BY <1>1, <1>2 DEF Room, Writes
<1>3. ASSUME NEW v \in Fills, NEW k \in Keys, StoreBegin(v, k), closed = "open" /\ Current(v)
      PROVE  Room' /\ FilesWithinQuota'
  <2>1. op = NoOp /\ UNCHANGED <<dir, index, synced>> /\ op'.todo = Victims(k)
    BY <1>3, StoreTakes
  <2>2. dir = index
    BY <1>3, <2>1, NoOpFields DEF OnDisk, Active
  <2>3. Cardinality(index' \ op'.todo) < MaxFiles
    BY <2>1, <2>2, VictimsMakeRoom
  <2> QED
    BY <1>1, <2>1, <2>3
<1>4. ASSUME NEW e \in mem, LookupHit(e) PROVE Room' /\ FilesWithinQuota'
  <2> DEFINE old == {r \in index : r.key = e.key}
  <2>1. op = NoOp /\ closed = "open" /\ UNCHANGED <<dir, index, synced>>
    BY <1>4 DEF LookupHit
  <2>2. dir = index
    BY <2>1, NoOpFields DEF OnDisk, Active
  <2>3. CASE old = {}
    <3>1. op' = NoOp
      BY <1>4, <2>3, TouchBegins
    <3> QED
      BY <1>1, <2>1, <3>1, Over
  <2>4. CASE old # {}
    <3>1. op'.todo = old
      BY <1>4, <2>4, TouchBegins
    <3>2. PICK r : r \in old
      BY <2>4
    <3>3. index \ old \subseteq index \ {r} /\ r \in index
      BY <3>2
    <3>4. IsFiniteSet(index \ {r}) /\ Cardinality(index \ {r}) = Cardinality(dir) - 1
      BY <1>0, <2>2, <3>3, FS_RemoveElement
    <3>5. IsFiniteSet(index \ old) /\ Cardinality(index \ old) <= Cardinality(index \ {r})
      BY <3>3, <3>4, FS_Subset
    <3>6. Cardinality(index \ old) \in Nat
      BY <3>5, FS_CardinalityType
    <3>7. Cardinality(index' \ op'.todo) < MaxFiles
      BY <1>0, <2>1, <3>1, <3>4, <3>5, <3>6
    <3> QED
      BY <1>1, <2>1, <3>7
  <2> QED
    BY <2>3, <2>4
<1>5. ASSUME ~Writes', UNCHANGED dir, synced' \in {synced, dir} PROVE Room' /\ FilesWithinQuota'
  BY <1>1, <1>5
<1>6. ASSUME NEW b \in Bases, LookupMiss(b) PROVE Room' /\ FilesWithinQuota'
  <2>1. UNCHANGED <<dir, synced>>
    BY <1>6 DEF LookupMiss
  <2> QED
    BY <1>5, <1>6, <2>1, MissBegins, Over DEF Writes
<1>7. CASE (\E k \in Keys : PurgeExact(k)) \/ (\E b \in Bases : PurgeBase(b)) \/ PurgeTag
  BY <1>5, <1>7, PurgeTakes DEF Writes
<1>8. CASE RemoveFails \/ SyncFails \/ LinkFails \/ PurgeMemory
  <2>1. op' = NoOp /\ UNCHANGED <<dir, synced>>
    BY <1>8, Aborts DEF PurgeMemory, EndOp
  <2> QED
    BY <1>5, <2>1, Over
<1>9. CASE Remove
  <2>1. op.step = "remove" /\ synced' = synced
    BY <1>9 DEF Remove
  <2>2. PICK r \in op.todo : /\ dir' = dir \ {r} /\ index' = index \ {r} /\ SameOp
                             /\ op'.todo = op.todo \ {r}
    BY <1>9, Removes
  <2>3. index' \ op'.todo = index \ op.todo
    BY <2>2
  <2>4. Writes' => Writes
    BY <2>2 DEF Writes, SameOp
  <2> QED
    BY <1>1, <2>1, <2>2, <2>3, <2>4 DEF Room
<1>10. CASE Sync
  <2>1. op.step = "sync" /\ synced' = dir /\ UNCHANGED <<dir, index>>
    BY <1>10 DEF Sync
  <2>2. op' = NoOp \/ (SameOp /\ op'.todo = op.todo)
    BY <1>10, Syncs
  <2> QED
    BY <1>1, <2>1, <2>2, Over DEF Room, Writes, SameOp
<1>11. CASE Link
  <2>1. op.step = "link" /\ UNCHANGED synced /\ dir' = dir \cup {Written} /\ Writes
    BY <1>11 DEF Link, Shape
  <2>2. op.todo = {} /\ dir = index /\ index \ op.todo = index
    BY <2>1 DEF Shape, OnDisk, Active
  <2>3. Cardinality(dir) < MaxFiles
    BY <2>1, <2>2 DEF Room
  <2>4. /\ IsFiniteSet(dir')
        /\ Cardinality(dir') = IF Written \in dir THEN Cardinality(dir) ELSE Cardinality(dir) + 1
    BY <1>0, <2>1, FS_AddElement
  <2>5. Cardinality(dir') <= MaxFiles
    BY <1>0, <2>3, <2>4
  <2>6. op'.step = "settle"
    BY <1>11, Links
  <2> QED
    BY <1>0, <2>1, <2>4, <2>5, <2>6 DEF Room, FilesWithinQuota
<1>12. CASE Settle
  <2>1. dir' = dir /\ synced' = dir
    BY <1>12 DEF Settle
  <2>2. op' = NoOp \/ op'.step = "insert"
    BY <1>12, Settles
  <2> QED
    BY <1>1, <2>1, <2>2, Over
<1>13. CASE Insert
  <2>1. UNCHANGED <<dir, synced>>
    BY <1>13 DEF Insert
  <2> QED
    BY <1>5, <1>13, <2>1, InsertEnds, Over DEF Writes
<1>14. CASE Restart
  <2>1. PICK files, kept \in SUBSET (dir \cup synced) :
            kept \subseteq Scanned(files) /\ dir' = kept /\ synced' = kept
    BY <1>14, Restarts
  <2> DEFINE newest == {f \in files : \A g \in files : g.key = f.key => g.seq <= f.seq}
             within == newest \ Oldest(newest, Cardinality(newest) - MaxFiles)
  <2>2. Numbered(newest)
    BY Distinct
  <2> HIDE DEF newest
  <2>3. IsFiniteSet(within) /\ Cardinality(within) <= MaxFiles
    BY <1>0, <2>2, WithinQuota
  <2>4. Scanned(files) = within
    BY DEF Scanned, newest
  <2> HIDE DEF within
  <2>5. IsFiniteSet(kept) /\ Cardinality(kept) <= Cardinality(within)
    BY <2>1, <2>3, <2>4, FS_Subset
  <2>6. Cardinality(kept) \in Nat /\ Cardinality(within) \in Nat
    BY <2>3, <2>5, FS_CardinalityType
  <2>7. Cardinality(kept) <= MaxFiles
    BY <1>0, <2>3, <2>5, <2>6
  <2>8. op' = NoOp
    BY <1>14 DEF Restart, EndOp
  <2> QED
    BY <2>1, <2>5, <2>7, <2>8, Over DEF Room, FilesWithinQuota
<1> QED
  BY <1>2, <1>3, <1>4, <1>6, <1>7, <1>8, <1>9, <1>10, <1>11, <1>12, <1>13, <1>14, Cases, Others

---------------------------------------------------------------------------
(* The invariant *)

(* How the history moves: a failed removal adds to it, and a sync, or a restart, drops    *)
(* what is stored nowhere.                                                                *)
LEMMA UndoneMoves ==
  ASSUME IInv, Next
  PROVE  /\ undone' \subseteq undone \cup Representations(synced)
         /\ \A r \in Records' : Representation(r) \in undone => Representation(r) \in undone'
<1> DEFINE Goal == /\ undone' \subseteq undone \cup Representations(synced)
                   /\ \A r \in Records' :
                        Representation(r) \in undone => Representation(r) \in undone'
<1>0. Types /\ OnDisk
  BY DEF IInv
<1>1. CASE undone' = undone
  BY <1>1
<1>2. CASE RemoveFails
  BY <1>2 DEF RemoveFails, Representations
<1>3. ASSUME NEW S, Forgotten(S), Records' \subseteq S PROVE Goal
  BY <1>3 DEF Forgotten, Representations
<1>4. CASE Sync \/ Settle
  <2>1. /\ Forgotten(mem \cup index \cup dir)
        /\ mem' = mem /\ dir' = dir /\ synced' = dir /\ index' \subseteq index \cup dir
    <3>1. CASE Sync
      BY <3>1 DEF Sync
    <3>2. CASE Settle
      <4>1. dir = index \cup {Written}
        BY <1>0, <3>2 DEF Settle, OnDisk, Active
      <4> QED
        BY <3>2, <4>1 DEF Settle
    <3> QED
      BY <1>4, <3>1, <3>2
  <2>2. Records' \subseteq mem \cup index \cup dir
    BY <2>1 DEF Records
  <2> QED
    BY <1>3, <2>1, <2>2
<1>5. CASE ShutdownEnd
  <2>1. /\ UNCHANGED <<mem, index, dir>>
        /\ undone' = undone \/ (synced' = dir /\ Forgotten(mem \cup index \cup dir))
    BY <1>5 DEF ShutdownEnd
  <2>2. synced' = dir => Records' \subseteq mem \cup index \cup dir
    BY <2>1 DEF Records
  <2> QED
    BY <1>1, <1>3, <2>1, <2>2
<1>6. CASE Restart
  <2>1. PICK kept : /\ mem' = kept /\ index' = kept /\ dir' = kept /\ synced' = kept
                    /\ Forgotten(kept)
    BY <1>0, <1>6, Restarts
  <2>2. Records' \subseteq kept
    BY <2>1 DEF Records
  <2> QED
    BY <1>3, <2>1, <2>2
<1>7. undone' = undone \/ RemoveFails \/ Sync \/ Settle \/ ShutdownEnd \/ Restart
  BY DEF Next, Step, BeginFill, LookupMiss, PurgeBase, Purge, LeaderEnds, StoreBegin, LookupHit,
         PurgeExact, PurgeTag, Remove, SyncFails, Link, LinkFails, Insert, PurgeMemory,
         ShutdownBegin
<1> QED
  BY <1>1, <1>2, <1>4, <1>5, <1>6, <1>7

(* The history holds representations of fills that began. *)
LEMMA UndoneStep ==
  ASSUME IInv, Next
  PROVE  UndoneType'
<1>1. ASSUME NEW r \in synced PROVE Representation(r) \in Keys \X Fills
  BY DEF IInv, Types, RecordSet, Representation
<1>2. Representations(synced) \subseteq Keys \X Fills
  BY <1>1 DEF Representations
<1> QED
  BY <1>2, UndoneMoves DEF UndoneType, IInv

(* The inductive invariant holds when the cache opens. *)
LEMMA InitIInv == Init => IInv
<1> SUFFICES ASSUME Init PROVE IInv
  OBVIOUS
<1>1. mem = {} /\ index = {} /\ dir = {} /\ synced = {} /\ op = NoOp /\ tick = 0
  BY DEF Init
<1>2. Types
  <2>1. fill \in [Fills -> Guards] /\ flight \in [Bases -> Fills \cup {NoFill}]
    BY GuardTypes DEF Init
  <2>2. floor \in [Keys -> 0..MaxFills] /\ tick \in 0..MaxTick
    BY DiskCacheAssumption DEF Init
  <2>3. left \in Budgets /\ closed \in {"open", "closing", "closed"}
    BY DiskCacheAssumption DEF Init, Budgets
  <2> QED
    BY <1>1, <2>1, <2>2, <2>3, NoOpFields DEF Types
<1>3. \A v \in Fills : fill[v].guard = "none" /\ fill[v].outcome = "none"
  BY DEF Init, NoGuard, Guard
<1>4. InOrder
  <2>1. {v \in Fills : fill[v].guard # "none"} = {}
    BY <1>3
  <2>2. Issued = 0
    BY <2>1, FS_EmptySet DEF Issued
  <2> QED
    BY <1>3, <2>2, DiskCacheAssumption DEF InOrder, Fills
<1>5. FlightsHaveLeaders
  BY <1>3 DEF FlightsHaveLeaders, Init
<1>6. Shape /\ Owner /\ Accessed /\ OnDisk
  BY <1>1, NoOpFields DEF Shape, Owner, Accessed, OnDisk, Writes
<1>7. Room /\ FilesWithinQuota
  BY <1>1, NoOpFields, FS_EmptySet, DiskCacheAssumption DEF Room, FilesWithinQuota, Writes
<1>8. UndoneType
  BY DEF Init, UndoneType
<1> QED
  BY <1>2, <1>4, <1>5, <1>6, <1>7, <1>8 DEF IInv

(* Every step keeps the inductive invariant. *)
LEMMA IInvStep == IInv /\ [Next]_vars => IInv'
<1>1. ASSUME IInv, Next PROVE IInv'
  BY <1>1, TypesStep, InOrderStep, LeadersStep, ShapeStep, OwnerStep, AccessedStep, OnDiskStep,
     QuotaStep, UndoneStep
  DEF IInv
<1>2. ASSUME IInv, UNCHANGED vars PROVE IInv'
  <2>1. UNCHANGED <<mem, index, dir, synced, op, closed, flight, fill, tick, floor, undone, left>>
    BY <1>2 DEF vars
  <2>2. Types' /\ InOrder' /\ FlightsHaveLeaders'
    BY <1>2, <2>1 DEF IInv, Types, InOrder, Issued, FlightsHaveLeaders, Current
  <2>3. Shape' /\ Owner' /\ Accessed' /\ OnDisk'
    BY <1>2, <2>1 DEF IInv, Shape, Owner, Accessed, OnDisk, Writes, Active, Written
  <2>4. Room' /\ FilesWithinQuota' /\ UndoneType'
    BY <1>2, <2>1 DEF IInv, Room, FilesWithinQuota, Writes, UndoneType
  <2> QED
    BY <2>2, <2>3, <2>4 DEF IInv
<1> QED
  BY <1>1, <1>2

---------------------------------------------------------------------------
(* Nothing stale returns *)

(* What is on the disk and what survives a crash differ only as the operation allows. *)
LEMMA DurableStep ==
  ASSUME IInv, Durable, Next
  PROVE  Durable'
<1> DEFINE Held == index \subseteq synced /\ Representations(synced \ index) \subseteq undone
<1>0. Types /\ Shape /\ Owner /\ OnDisk
  BY DEF IInv
<1>1. ASSUME synced' = index' PROVE Durable'
  <2>1. synced' \ index' = {}
    BY <1>1
  <2>2. Representations(synced \ index)' = {}
    BY <2>1 DEF Representations
  <2> QED
    BY <1>1, <2>2 DEF Durable
<1>2. ASSUME Held, UNCHANGED <<index, synced>>, undone \subseteq undone' PROVE Durable'
  <2>1. Representations(synced \ index)' = Representations(synced \ index)
    BY <1>2 DEF Representations
  <2> QED
    BY <1>2, <2>1 DEF Durable
<1>3. (op = NoOp /\ closed = "open") \/ op.step \notin {"none", "remove", "sync"} => Held
  BY NoOpFields DEF Durable, Active
<1>4. CASE /\ UNCHANGED <<index, op>> /\ (closed' = "open" => closed = "open")
           /\ UNCHANGED <<synced, undone>> \/ (op = NoOp /\ closed' # "open")
  <2>1. CASE op = NoOp /\ closed' # "open"
    BY <1>4, <2>1, NoOpFields DEF Durable, Active
  <2>2. CASE UNCHANGED <<synced, undone>>
    <3>1. Representations(synced \ index)' = Representations(synced \ index)
      BY <1>4, <2>2 DEF Representations
    <3> QED
      BY <1>4, <2>2, <3>1 DEF Durable, Active
  <2> QED
    BY <1>4, <2>1, <2>2
<1>5. ASSUME NEW v \in Fills, NEW k \in Keys, StoreBegin(v, k), closed = "open" /\ Current(v)
      PROVE  Durable'
  BY <1>0, <1>2, <1>3, <1>5, StoreTakes
<1>6. ASSUME op = NoOp, closed = "open", UNCHANGED <<index, synced, undone>> PROVE Durable'
  BY <1>2, <1>3, <1>6
<1>7. CASE \/ \E e \in mem : LookupHit(e)
           \/ \E b \in Bases : LookupMiss(b)
           \/ (\E k \in Keys : PurgeExact(k)) \/ (\E b \in Bases : PurgeBase(b)) \/ PurgeTag
  BY <1>0, <1>6, <1>7, PurgeTakes DEF LookupHit, LookupMiss
<1>8. CASE SyncFails \/ LinkFails
  <2>1. /\ op' = NoOp /\ UNCHANGED <<index, synced, undone>>
        /\ op.step \in {"sync", "settle", "link"}
        /\ op.step \in {"sync", "settle"} => closed' # "open"
    BY <1>8, Aborts DEF SyncFails, LinkFails
  <2>2. CASE op.step \in {"sync", "settle"}
    BY <2>1, <2>2, Over DEF Durable, Active
  <2>3. CASE op.step = "link"
    BY <1>2, <1>3, <2>1, <2>3
  <2> QED
    BY <2>1, <2>2, <2>3
<1>9. CASE RemoveFails
  <2>1. /\ op.step = "remove" /\ UNCHANGED <<index, synced>>
        /\ undone' = undone \cup Representations(synced \ dir)
    BY <1>9 DEF RemoveFails
  <2>2. dir = index /\ index \subseteq synced
    BY <1>0, <2>1 DEF OnDisk, Durable, Active
  <2>3. Representations(synced \ index)' \subseteq undone'
    BY <2>1, <2>2 DEF Representations
  <2> QED
    BY <2>1, <2>2, <2>3 DEF Durable
<1>10. CASE Remove
  <2>1. op.step = "remove" /\ synced' = synced
    BY <1>10 DEF Remove
  <2>2. index \subseteq synced
    BY <2>1 DEF Durable, Active
  <2>3. index' \subseteq index /\ op'.step \in {"remove", "sync"} /\ op'.dirty = TRUE
    BY <1>0, <1>10, Removes
  <2> QED
    BY <2>1, <2>2, <2>3 DEF Durable
<1>11. CASE Sync
  <2>1. op.step = "sync" /\ synced' = dir /\ index' = index
    BY <1>11 DEF Sync
  <2> QED
    BY <1>0, <1>1, <2>1 DEF OnDisk, Active
<1>12. CASE Link \/ Insert \/ PurgeMemory
  <2>1. op.step \in {"link", "insert", "memory"} /\ UNCHANGED <<index, synced, undone>>
    BY <1>12 DEF Link, Insert, PurgeMemory
  <2> QED
    BY <1>2, <1>3, <2>1
<1>13. CASE Settle
  <2>1. op.step = "settle" /\ synced' = dir /\ index' = index \cup {Written}
    BY <1>13 DEF Settle
  <2> QED
    BY <1>0, <1>1, <2>1 DEF OnDisk, Active
<1>14. CASE Restart
  BY <1>0, <1>1, <1>14, Restarts
<1> QED
  BY <1>4, <1>5, <1>7, <1>8, <1>9, <1>10, <1>11, <1>12, <1>13, <1>14, Cases, Others

\* The representation of r is one that is stored already.
Known(r, set) == \E s \in set : s.key = r.key /\ s.ver = r.ver

OwnRecord(r) == op.kind = "store" /\ r.key = op.key /\ r.ver = op.ver

\* A step adds no representation but the one of the fill that is being stored, and to
\* memory and index only when it is settled.
LEMMA NothingNew ==
  ASSUME IInv, Next
  PROVE  /\ \A r \in Records' : Known(r, Records) \/ OwnRecord(r)
         /\ ~Restart => \A r \in mem' \cup index' :
                            \/ Known(r, mem \cup index)
                            \/ OwnRecord(r) /\ op.step \in {"settle", "insert"}
<1> DEFINE Goal == /\ \A r \in Records' : Known(r, Records) \/ OwnRecord(r)
                   /\ ~Restart => \A r \in mem' \cup index' :
                                      \/ Known(r, mem \cup index)
                                      \/ OwnRecord(r) /\ op.step \in {"settle", "insert"}
<1>0. Types /\ Shape /\ Owner
  BY DEF IInv
<1>1. ASSUME mem' \subseteq mem, index' \subseteq index, dir' \subseteq dir,
             synced' \subseteq synced \cup dir
      PROVE  Goal
  BY <1>1 DEF Known, Records
<1>2. ASSUME NEW v \in Fills, NEW k \in Keys, StoreBegin(v, k), closed = "open" /\ Current(v)
      PROVE  Goal
  BY <1>0, <1>1, <1>2, StoreTakes
<1>3. ASSUME NEW e \in mem, LookupHit(e) PROVE Goal
  <2>1. mem' = (mem \ {e}) \cup {[e EXCEPT !.seq = tick + 1]} /\ UNCHANGED <<index, dir, synced>>
    BY <1>3 DEF LookupHit
  <2>2. [e EXCEPT !.seq = tick + 1].key = e.key /\ [e EXCEPT !.seq = tick + 1].ver = e.ver
    BY <1>0 DEF Types, RecordSet
  <2>3. \A r \in mem' : Known(r, mem)
    BY <2>1, <2>2 DEF Known
  <2> QED
    BY <2>1, <2>3 DEF Known, Records
<1>4. ASSUME NEW b \in Bases, LookupMiss(b) PROVE Goal
  <2>1. UNCHANGED <<index, dir, synced>>
    BY <1>4 DEF LookupMiss
  <2> QED
    BY <1>0, <1>1, <1>4, <2>1, MissBegins
<1>5. CASE (\E k \in Keys : PurgeExact(k)) \/ (\E b \in Bases : PurgeBase(b)) \/ PurgeTag
  BY <1>0, <1>1, <1>5, PurgeTakes
<1>6. CASE RemoveFails \/ SyncFails \/ LinkFails
  BY <1>1, <1>6, Aborts
<1>7. CASE Remove
  <2>1. synced' = synced
    BY <1>7 DEF Remove
  <2> QED
    BY <1>0, <1>1, <1>7, <2>1, Removes
<1>8. CASE Sync \/ PurgeMemory
  BY <1>1, <1>8 DEF Sync, PurgeMemory
<1>9. CASE Link \/ Settle
  <2>1. Writes /\ op.step \in {"link", "settle"}
    BY <1>0, <1>9 DEF Link, Settle, Shape
  <2>2. OwnRecord(Written) \/ Known(Written, mem)
    BY <1>0, <2>1, WrittenFields DEF Writes, OwnRecord, Known
  <2>3. mem' = mem /\ (op.step = "link" => index' = index) /\ index' \subseteq index \cup {Written}
        /\ dir' \subseteq dir \cup {Written} /\ synced' \subseteq synced \cup dir
    BY <1>9 DEF Link, Settle
  <2>4. \A r \in Records' : r \in Records \/ r = Written
    BY <2>3 DEF Records
  <2>5. \A r \in mem' \cup index' : r \in mem \cup index \/ (r = Written /\ op.step = "settle")
    BY <2>1, <2>3
  <2>6. mem \subseteq Records
    BY DEF Records
  <2> HIDE DEF Records
  <2> QED
    BY <2>2, <2>4, <2>5, <2>6 DEF Known
<1>10. CASE Insert
  <2>1. op.step = "insert" /\ UNCHANGED <<index, dir, synced>>
    BY <1>10 DEF Insert
  <2>2. mem' = Inserted(mem, Written) /\ Writes /\ op.kind = "store"
    BY <1>0, <1>10, InsertEnds DEF Writes
  <2>3. \A e \in mem' : e \in mem \/ e = Written
    BY <2>2, InsertedFrom
  <2>4. OwnRecord(Written)
    BY <1>0, <2>2, WrittenFields DEF OwnRecord
  <2> QED
    BY <2>1, <2>3, <2>4 DEF Known, Records
<1>11. CASE Restart
  <2>1. Records' \subseteq dir \cup synced
    BY <1>0, <1>11, Restarts DEF Records
  <2> QED
    BY <1>11, <2>1 DEF Known, Records
<1>12. CASE UNCHANGED <<mem, index, dir>> /\ synced' \in {synced, dir}
  BY <1>1, <1>12
<1> QED
  BY <1>2, <1>3, <1>4, <1>5, <1>6, <1>7, <1>8, <1>9, <1>10, <1>11, <1>12, Cases, Others

\* Fills only begin, and flights only end, but for the one that begins.
LEMMA FlightsOnlyEnd ==
  ASSUME IInv, Next
  PROVE  /\ Issued \in Nat /\ Issued' \in Nat /\ Issued <= Issued'
         /\ \/ \E b \in Bases : BeginFill(b)
            \/ /\ Issued' = Issued
               /\ \A c \in Bases : flight'[c] = NoFill \/ flight'[c] = flight[c]
<1>0. Types /\ InOrder /\ FlightsHaveLeaders /\ Shape /\ Owner
  BY DEF IInv
<1>1. Issued \in Nat
  BY <1>0, DiskCacheAssumption DEF InOrder
<1>2. ASSUME NEW b \in Bases, BeginFill(b) PROVE Issued' = Issued + 1
  BY <1>0, <1>2, FillBegins
<1>3. CASE ~\E b \in Bases : BeginFill(b)
  <2>1. FillsEffect
    BY <1>0, <1>3, FillSteps
  <2>2. Issued' = Issued
    BY <1>0, <2>1, IssuedSteps
  <2>3. \A c \in Bases : flight'[c] = NoFill \/ flight'[c] = flight[c]
    <3>1. ASSUME NEW v \in Fills, EndGuard(v)
          PROVE  \A c \in Bases : flight'[c] = NoFill \/ flight'[c] = flight[c]
      BY <1>0, <3>1, GuardEnds
    <3> QED
      BY <2>1, <3>1 DEF FillsEffect, CancelFlights
  <2> QED
    BY <1>1, <2>2, <2>3
<1> QED
  BY <1>1, <1>2, <1>3

(* Versions, flights and floors are numbers. *)
LEMMA Numbers ==
  ASSUME IInv
  PROVE  /\ \A r \in Records : r.ver \in Nat \ {0} /\ r.key \in Keys
         /\ \A k \in Keys : floor[k] \in Nat /\ op.dead[k] \in Nat /\ BaseOf[k] \in Bases
         /\ \A b \in Bases : flight[b] \in Nat
         /\ op.ver \in Nat /\ op.key \in Keys
BY DiskCacheAssumption DEF IInv, Types, Ops, RecordSet, Records, Fills, NoFill

\* The fill that is being stored is newer than what must not be seen again.
LEMMA StoredIsFresh ==
  ASSUME IInv, FlightsFresh, op.kind = "store"
  PROVE  op.ver > floor[op.key] /\ op.ver <= Issued /\ op.ver \in Fills
<1>1. op.ver \in Fills /\ flight[BaseOf[op.key]] = op.ver /\ fill[op.ver].guard = "live"
  BY DEF IInv, Owner
<1>2. op.ver # NoFill /\ op.key \in Keys
  BY <1>1, Numbers DEF Fills, NoFill
<1> QED
  BY <1>1, <1>2 DEF FlightsFresh, IInv, InOrder

(* The floor rises only when a purge or a store returns. *)
LEMMA FloorMoves ==
  ASSUME Next
  PROVE  floor' = floor \/ Insert \/ PurgeMemory
BY DEF Next, Step, BeginFill, LookupMiss, PurgeBase, Purge, LeaderEnds, StoreBegin, LookupHit,
       PurgeExact, PurgeTag, Remove, RemoveFails, Sync, SyncFails, Link, LinkFails, Settle,
       ShutdownBegin, ShutdownEnd, Restart

(* Records and floors carry only issued numbers. *)
LEMMA IssuedStep ==
  ASSUME IInv, FlightsFresh, RecordsIssued, FloorIssued, Dead, Next
  PROVE  RecordsIssued' /\ FloorIssued'
<1>0. /\ Issued \in Nat /\ Issued' \in Nat /\ Issued <= Issued'
  BY FlightsOnlyEnd
<1>1. ASSUME NEW r \in Records' PROVE r.ver <= Issued'
  <2>1. CASE Known(r, Records)
    <3>1. PICK s \in Records : s.ver = r.ver
      BY <2>1 DEF Known
    <3>2. s.ver \in Nat /\ s.ver <= Issued
      BY Numbers DEF RecordsIssued
    <3> QED
      BY <1>0, <3>1, <3>2
  <2>2. CASE OwnRecord(r)
    <3>1. r.ver = op.ver /\ op.ver <= Issued /\ op.ver \in Nat
      BY <2>2, StoredIsFresh, Numbers DEF OwnRecord
    <3> QED
      BY <1>0, <3>1
  <2> QED
    BY <2>1, <2>2, NothingNew
<1>2. ASSUME NEW k \in Keys PROVE floor'[k] <= Issued'
  <2>1. floor[k] \in Nat /\ floor[k] <= Issued
    BY Numbers DEF FloorIssued
  <2>2. CASE floor' = floor
    BY <1>0, <2>1, <2>2
  <2>3. CASE Insert
    <3>1. /\ op.kind = "store"
          /\ floor'[k] = IF k = op.key THEN op.ver - 1
                         ELSE IF Conflicts(k, op.key) THEN op.ver ELSE floor[k]
      BY <2>3, InsertEnds DEF IInv
    <3>2. op.ver <= Issued /\ op.ver \in Nat
      BY <3>1, StoredIsFresh, Numbers
    <3> QED
      BY <1>0, <2>1, <3>1, <3>2
  <2>4. CASE PurgeMemory
    <3>1. floor'[k] = IF op.dead[k] > floor[k] THEN op.dead[k] ELSE floor[k]
      BY <2>4 DEF PurgeMemory
    <3>2. op.dead[k] <= Issued /\ op.dead[k] \in Nat
      BY <2>4, Numbers DEF Dead, PurgeMemory, IInv, Shape
    <3> QED
      BY <1>0, <2>1, <3>1, <3>2
  <2> QED
    BY <2>2, <2>3, <2>4, FloorMoves
<1> QED
  BY <1>1, <1>2 DEF RecordsIssued, FloorIssued

\* The heart of the matter: at the end of a store and of a purge nothing that has
\* become stale is left in any of the four places, but for what is in the history.
LEMMA StaleStep ==
  ASSUME IInv, Fresh, Next
  PROVE  NothingStaleReturns'
<1>0. Types /\ Shape /\ Owner /\ OnDisk
  BY DEF IInv
<1>1. NothingStaleReturns' <=> \A r \in Records' :
                                 r.ver > floor'[r.key] \/ Representation(r) \in undone'
  BY DEF NothingStaleReturns, Records
<1>2. \A r \in Records : r.ver > floor[r.key] \/ Representation(r) \in undone
  BY DEF Fresh, NothingStaleReturns, Records
<1>3. CASE floor' = floor
  <2>1. ASSUME NEW r \in Records'
        PROVE  r.ver > floor[r.key] \/ Representation(r) \in undone'
    <3>1. CASE Known(r, Records)
      <4>1. r.ver > floor[r.key] \/ Representation(r) \in undone
        BY <1>2, <3>1 DEF Known, Representation
      <4> QED
        BY <4>1, UndoneMoves
    <3>2. CASE OwnRecord(r)
      BY <3>2, StoredIsFresh DEF OwnRecord, Fresh
    <3> QED
      BY <3>1, <3>2, NothingNew
  <2> QED
    BY <1>1, <1>3, <2>1
<1>4. CASE Insert
  <2>1. /\ op.kind = "store" /\ mem' = Inserted(mem, Written)
        /\ \A k \in Keys : floor'[k] = IF k = op.key THEN op.ver - 1
                                       ELSE IF Conflicts(k, op.key) THEN op.ver ELSE floor[k]
    BY <1>0, <1>4, InsertEnds
  <2>2. op.step = "insert" /\ UNCHANGED <<index, dir, synced, undone>>
    BY <1>4 DEF Insert
  <2>3. index = dir /\ Representations(synced \ index) \subseteq undone /\ op.todo = {}
    BY <1>0, <2>2 DEF OnDisk, Active, Fresh, Durable, Shape
  <2>4. /\ Written.key = op.key /\ Written.ver = op.ver /\ Written \in RecordSet
    BY <1>0, <2>1, WrittenFields DEF Writes
  <2>5. ASSUME NEW r \in Records', Representation(r) \notin undone PROVE r.ver > floor'[r.key]
    <3>1. CASE r.key = op.key /\ r.ver = op.ver
      BY <2>1, <3>1, Numbers
    <3>2. CASE r \in Records /\ r.key # op.key /\ ~Conflicts(r.key, op.key)
      BY <1>2, <2>1, <2>5, <3>2, Numbers
    <3>3. r \in Inserted(mem, Written) \/ r \in index
      BY <2>1, <2>2, <2>3, <2>5 DEF Records, Representations
    <3>4. CASE r \in index
      <4>1. (r.key = op.key => r.ver = op.ver) /\ ~Conflicts(r.key, op.key) /\ r \in Records
        BY <2>1, <2>3, <3>4 DEF Fresh, Cleared, Records
      <4> QED
        BY <3>1, <3>2, <4>1
    <3>5. CASE r \in Inserted(mem, Written)
      <4>1. r = Written \/ (r \in mem /\ r.key # op.key /\ ~Conflicts(r.key, op.key))
        BY <2>4, <3>5, InsertedFrom
      <4> QED
        BY <2>4, <3>1, <3>2, <4>1 DEF Records
    <3> QED
      BY <3>3, <3>4, <3>5
  <2> QED
    BY <1>1, <2>2, <2>5
<1>5. CASE PurgeMemory
  <2>1. /\ op.step = "memory" /\ UNCHANGED <<index, dir, synced, undone>>
        /\ mem' = {e \in mem : op.dead[e.key] < e.ver}
        /\ \A k \in Keys : floor'[k] = IF op.dead[k] > floor[k] THEN op.dead[k] ELSE floor[k]
    BY <1>5 DEF PurgeMemory
  <2>2. /\ index = dir /\ Representations(synced \ index) \subseteq undone
        /\ op.todo = {} /\ op.kind = "purge"
    BY <1>0, <2>1 DEF OnDisk, Active, Fresh, Durable, Shape
  <2>3. ASSUME NEW r \in Records', Representation(r) \notin undone PROVE r.ver > floor'[r.key]
    <3>1. r \in Records
      BY <2>1 DEF Records
    <3>2. r.ver > op.dead[r.key]
      <4>1. CASE r \in index
        BY <2>2, <4>1 DEF Fresh, Dead
      <4>2. CASE r \in mem'
        BY <2>1, <3>1, <4>2, Numbers
      <4> QED
        BY <2>1, <2>2, <2>3, <4>1, <4>2 DEF Records, Representations
    <3> QED
      BY <1>2, <2>1, <2>3, <3>1, <3>2, Numbers
  <2> QED
    BY <1>1, <2>1, <2>3
<1> QED
  BY <1>3, <1>4, <1>5, FloorMoves

(* A fill under way is newer than what its key has lost. *)
LEMMA FlightsFreshStep ==
  ASSUME IInv, Fresh, Next
  PROVE  FlightsFresh'
<1>0. Types /\ Shape /\ Owner /\ FlightsHaveLeaders /\ InOrder
  BY DEF IInv
<1>1. ASSUME NEW k \in Keys
      PROVE  flight'[BaseOf[k]] = NoFill \/ flight'[BaseOf[k]] > floor'[k]
  <2>0. /\ BaseOf[k] \in Bases
        /\ flight[BaseOf[k]] = NoFill \/ flight[BaseOf[k]] > floor[k]
        /\ floor[k] \in Nat /\ floor[k] <= Issued /\ Issued \in Nat
    BY Numbers, FlightsOnlyEnd DEF Fresh, FlightsFresh, FloorIssued
  <2>1. ASSUME NEW b \in Bases, BeginFill(b) PROVE flight'[BaseOf[k]] = NoFill \/ flight'[BaseOf[k]] > floor'[k]
    <3>1. flight' = [flight EXCEPT ![b] = Issued + 1] /\ floor' = floor
      BY <2>1 DEF BeginFill
    <3>2. CASE BaseOf[k] = b
      BY <1>0, <2>0, <3>1, <3>2 DEF Types
    <3>3. CASE BaseOf[k] # b
      BY <1>0, <2>0, <3>1, <3>3 DEF Types
    <3> QED
      BY <3>2, <3>3
  <2>2. CASE \A c \in Bases : flight'[c] = NoFill \/ flight'[c] = flight[c]
    <3>1. flight'[BaseOf[k]] = NoFill \/ flight'[BaseOf[k]] = flight[BaseOf[k]]
      BY <2>0, <2>2
    <3>2. CASE floor' = floor
      BY <2>0, <3>1, <3>2
    <3>3. CASE Insert
      <4>1. /\ op.ver \in Fills /\ EndGuard(op.ver) /\ op.kind = "store"
            /\ floor'[k] = IF k = op.key THEN op.ver - 1
                           ELSE IF Conflicts(k, op.key) THEN op.ver ELSE floor[k]
        BY <1>0, <3>3, InsertEnds
      <4>2. flight'[BaseOf[op.key]] = NoFill
        BY <1>0, <4>1, GuardEnds, Numbers DEF Owner
      <4> QED
        BY <2>0, <3>1, <4>1, <4>2 DEF Conflicts
    <3>4. CASE PurgeMemory
      <4>1. /\ flight'[BaseOf[k]] = IF BaseOf[k] \in op.bases THEN NoFill ELSE flight[BaseOf[k]]
            /\ floor'[k] = IF op.dead[k] > floor[k] THEN op.dead[k] ELSE floor[k]
        BY <2>0, <3>4 DEF PurgeMemory, CancelFlights
      <4>2. \/ flight[BaseOf[k]] = NoFill \/ BaseOf[k] \in op.bases
            \/ flight[BaseOf[k]] > op.dead[k]
        BY <1>0, <3>4 DEF Fresh, Dead, Shape, PurgeMemory
      <4> QED
        BY <2>0, <4>1, <4>2
    <3> QED
      BY <3>2, <3>3, <3>4, FloorMoves
  <2> QED
    BY <2>1, <2>2, FlightsOnlyEnd
<1> QED
  BY <1>1 DEF FlightsFresh

(* A fill under way is newer than what its key has stored. *)
LEMMA FlightsNewerStep ==
  ASSUME IInv, Fresh, Next
  PROVE  FlightsNewer'
<1>0. Types /\ Shape /\ Owner /\ FlightsHaveLeaders /\ InOrder
  BY DEF IInv
<1>1. CASE Restart
  <2>1. flight' = [b \in Bases |-> NoFill]
    BY <1>1 DEF Restart
  <2>2. \A r \in mem' \cup index' : BaseOf[r.key] \in Bases
    BY <1>0, TypesStep, DiskCacheAssumption DEF Types, RecordSet
  <2> QED
    BY <2>1, <2>2 DEF FlightsNewer
<1>2. CASE ~Restart
  <2>1. ASSUME NEW r \in mem' \cup index'
        PROVE  \/ flight'[BaseOf[r.key]] = NoFill
               \/ flight'[BaseOf[r.key]] > r.ver
               \/ op'.step = "insert" /\ r.key = op'.key /\ r.ver = op'.ver
    <3>0. Known(r, mem \cup index) \/ (OwnRecord(r) /\ op.step \in {"settle", "insert"})
      BY <1>2, NothingNew
    <3>1. ASSUME NEW b \in Bases, BeginFill(b)
          PROVE  flight'[BaseOf[r.key]] = NoFill \/ flight'[BaseOf[r.key]] > r.ver
      <4>1. /\ flight' = [flight EXCEPT ![b] = Issued + 1] /\ op = NoOp
            /\ UNCHANGED <<mem, index>>
        BY <3>1 DEF BeginFill
      <4>2. /\ flight[BaseOf[r.key]] = NoFill \/ flight[BaseOf[r.key]] > r.ver
            /\ r.ver \in Nat /\ r.ver <= Issued /\ BaseOf[r.key] \in Bases
        BY <4>1, NoOpFields, Numbers DEF Fresh, FlightsNewer, RecordsIssued, Records
      <4>3. Issued \in Nat
        BY FlightsOnlyEnd
      <4>4. CASE BaseOf[r.key] = b
        BY <1>0, <4>1, <4>2, <4>3, <4>4 DEF Types
      <4>5. CASE BaseOf[r.key] # b
        BY <1>0, <4>1, <4>2, <4>5 DEF Types
      <4> QED
        BY <4>4, <4>5
    <3>2. CASE \A c \in Bases : flight'[c] = NoFill \/ flight'[c] = flight[c]
      <4>1. CASE Insert
        <5>1. op.ver \in Fills /\ EndGuard(op.ver) /\ op.kind = "store" /\ op.step = "insert"
          BY <1>0, <4>1, InsertEnds DEF Insert
        <5>2. flight'[BaseOf[op.key]] = NoFill
          BY <1>0, <5>1, GuardEnds, Numbers DEF Owner
        <5>3. CASE r.key = op.key
          BY <5>2, <5>3
        <5>4. CASE r.key # op.key
          <6>1. PICK s \in mem \cup index : s.key = r.key /\ s.ver = r.ver
            BY <3>0, <5>4 DEF OwnRecord, Known
          <6>2. flight[BaseOf[r.key]] = NoFill \/ flight[BaseOf[r.key]] > r.ver
            BY <5>4, <6>1 DEF Fresh, FlightsNewer
          <6>3. BaseOf[r.key] \in Bases
            BY <6>1, Numbers DEF Records
          <6> QED
            BY <3>2, <6>2, <6>3
        <5> QED
          BY <5>3, <5>4
      <4>2. CASE op.step # "insert" /\ Known(r, mem \cup index)
        <5>1. PICK s \in mem \cup index : s.key = r.key /\ s.ver = r.ver
          BY <4>2 DEF Known
        <5>2. flight[BaseOf[r.key]] = NoFill \/ flight[BaseOf[r.key]] > r.ver
          BY <4>2, <5>1 DEF Fresh, FlightsNewer
        <5>3. BaseOf[r.key] \in Bases
          BY <5>1, Numbers DEF Records
        <5> QED
          BY <3>2, <5>2, <5>3
      <4>3. CASE Settle /\ OwnRecord(r)
        BY <1>0, <4>3, Settles DEF OwnRecord, SameOp
      <4>4. CASE UNCHANGED <<mem, index, op>>
        <5>1. \/ flight[BaseOf[r.key]] = NoFill
              \/ flight[BaseOf[r.key]] > r.ver
              \/ op.step = "insert" /\ r.key = op.key /\ r.ver = op.ver
          BY <4>4 DEF Fresh, FlightsNewer
        <5>2. BaseOf[r.key] \in Bases
          BY <4>4, Numbers DEF Records
        <5> QED
          BY <3>2, <4>4, <5>1, <5>2
      <4>5. CASE SyncFails
        <5>1. UNCHANGED <<mem, index>> /\ op.step \in {"sync", "settle"}
          BY <4>5, Aborts DEF SyncFails
        <5>2. Known(r, mem \cup index)
          BY <5>1 DEF Known
        <5> QED
          BY <4>2, <5>1, <5>2
      <4>6. UNCHANGED <<mem, index, op>> \/ Insert \/ Settle \/ SyncFails
               \/ op.step \notin {"settle", "insert"}
        BY <1>2, Cases, Others, NoOpFields
        DEF LookupHit, LookupMiss, PurgeBase, PurgeExact, PurgeTag, Purge, StoreBegin, Remove,
            RemoveFails, LinkFails, Sync, Link, PurgeMemory
      <4>7. CASE Settle
        <5>1. op.step = "settle"
          BY <4>7 DEF Settle
        <5> QED
          BY <3>0, <4>2, <4>3, <4>7, <5>1
      <4> QED
        BY <3>0, <4>1, <4>2, <4>4, <4>5, <4>6, <4>7
    <3> QED
      BY <3>1, <3>2, FlightsOnlyEnd
  <2> QED
    BY <2>1 DEF FlightsNewer
<1> QED
  BY <1>1, <1>2

(* What a store replaces is removed or will be. *)
LEMMA ClearedStep ==
  ASSUME IInv, Fresh, Next
  PROVE  Cleared'
<1>0. Types /\ Shape /\ Owner
  BY DEF IInv
<1>1. CASE op'.kind # "store"
  BY <1>1 DEF Cleared
<1>2. CASE UNCHANGED <<op, index>>
  BY <1>2 DEF Fresh, Cleared
<1>3. ASSUME NEW v \in Fills, NEW k \in Keys, StoreBegin(v, k), closed = "open" /\ Current(v)
      PROVE  Cleared'
  <2>1. op'.key = k /\ op'.todo = Victims(k) /\ index' = index
    BY <1>0, <1>3, StoreTakes
  <2>2. \A r \in index \ Victims(k) : r.key # k /\ ~Conflicts(r.key, k)
    BY DEF Victims
  <2> QED
    BY <2>1, <2>2 DEF Cleared
<1>4. ASSUME SameOp, index' \ op'.todo = index \ op.todo, op.step # "insert" PROVE Cleared'
  BY <1>4 DEF Fresh, Cleared, SameOp
<1>5. CASE Remove
  <2>1. op.step = "remove"
    BY <1>5 DEF Remove
  <2>2. SameOp /\ index' \ op'.todo = index \ op.todo
    BY <1>0, <1>5, Removes
  <2> QED
    BY <1>4, <2>1, <2>2
<1>6. CASE Sync \/ Link
  <2>1. op.step # "insert" /\ index' = index
    BY <1>6 DEF Sync, Link
  <2>2. op' = NoOp \/ (SameOp /\ op'.todo = op.todo)
    BY <1>0, <1>6, Syncs, Links
  <2> QED
    BY <1>1, <1>4, <2>1, <2>2, NoOpFields
<1>7. CASE Settle
  <2>1. op.step = "settle" /\ index' = index \cup {Written} /\ op.todo = {}
    BY <1>0, <1>7 DEF Settle, Shape
  <2>2. CASE op.kind = "store"
    <3>1. SameOp /\ op'.todo = op.todo /\ op'.step = "insert"
      BY <1>0, <1>7, <2>2, Settles
    <3>2. Written.key = op.key /\ Written.ver = op.ver
      BY <1>0, <2>2, WrittenFields DEF Writes
    <3>3. \A r \in index : r.key # op.key /\ ~Conflicts(r.key, op.key)
      BY <2>1, <2>2 DEF Fresh, Cleared
    <3>4. ~Conflicts(op.key, op.key)
      BY DEF Conflicts
    <3> QED
      BY <2>1, <3>1, <3>2, <3>3, <3>4 DEF Cleared, SameOp
  <2>3. CASE op.kind # "store"
    BY <1>0, <1>1, <1>7, <2>3, Settles, NoOpFields
  <2> QED
    BY <2>2, <2>3
<1>8. CASE Insert
  BY <1>0, <1>1, <1>8, InsertEnds, NoOpFields
<1>9. ASSUME NEW e \in mem, LookupHit(e) PROVE Cleared'
  BY <1>0, <1>1, <1>9, TouchBegins, NoOpFields
<1>10. ASSUME NEW b \in Bases, LookupMiss(b) PROVE Cleared'
  BY <1>0, <1>1, <1>10, MissBegins, NoOpFields
<1>11. CASE (\E k \in Keys : PurgeExact(k)) \/ (\E b \in Bases : PurgeBase(b)) \/ PurgeTag
  BY <1>0, <1>1, <1>11, PurgeTakes
<1>12. CASE RemoveFails \/ SyncFails \/ LinkFails \/ PurgeMemory \/ Restart
  <2>1. op' = NoOp
    BY <1>12, Aborts DEF PurgeMemory, Restart, EndOp
  <2> QED
    BY <1>1, <2>1, NoOpFields
<1> QED
  BY <1>2, <1>3, <1>5, <1>6, <1>7, <1>8, <1>9, <1>10, <1>11, <1>12, Cases, Others

(* What a purge has promised to clear is in none of what it leaves. *)
LEMMA DeadStep ==
  ASSUME IInv, Fresh, Next
  PROVE  Dead'
<1>0. Types /\ Shape /\ Owner
  BY DEF IInv
<1>1. CASE op'.kind # "purge"
  BY <1>1 DEF Dead
<1>2. ASSUME SameOp, index' \ op'.todo = index \ op.todo, op # NoOp PROVE Dead'
  <2>1. ~\E b \in Bases : BeginFill(b)
    BY <1>2 DEF BeginFill
  <2>2. Issued' = Issued /\ \A c \in Bases : flight'[c] = NoFill \/ flight'[c] = flight[c]
    BY <2>1, FlightsOnlyEnd
  <2> QED
    BY <1>2, <2>2, Numbers DEF Fresh, Dead, SameOp
<1>3. CASE UNCHANGED <<op, index>>
  <2>1. CASE op = NoOp
    BY <1>1, <1>3, <2>1, NoOpFields
  <2>2. CASE op # NoOp
    BY <1>2, <1>3, <2>2 DEF SameOp
  <2> QED
    BY <2>1, <2>2
<1>4. ASSUME NEW v \in Fills, NEW k \in Keys, StoreBegin(v, k), closed = "open" /\ Current(v)
      PROVE  Dead'
  BY <1>0, <1>1, <1>4, StoreTakes
<1>5. CASE Remove
  <2>1. op # NoOp
    BY <1>5, NoOpFields DEF Remove
  <2>2. SameOp /\ index' \ op'.todo = index \ op.todo
    BY <1>0, <1>5, Removes
  <2> QED
    BY <1>2, <2>1, <2>2
<1>6. CASE Sync \/ Link
  <2>1. op # NoOp /\ index' = index
    BY <1>6, NoOpFields DEF Sync, Link
  <2>2. op' = NoOp \/ (SameOp /\ op'.todo = op.todo)
    BY <1>0, <1>6, Syncs, Links
  <2> QED
    BY <1>1, <1>2, <2>1, <2>2, NoOpFields
<1>7. CASE Settle
  BY <1>0, <1>1, <1>7, Settles, NoOpFields DEF SameOp
<1>8. CASE Insert
  BY <1>0, <1>1, <1>8, InsertEnds, NoOpFields
<1>9. ASSUME NEW e \in mem, LookupHit(e) PROVE Dead'
  BY <1>0, <1>1, <1>9, TouchBegins, NoOpFields
<1>10. ASSUME NEW b \in Bases, LookupMiss(b) PROVE Dead'
  BY <1>0, <1>1, <1>10, MissBegins, NoOpFields
<1>11. CASE (\E k \in Keys : PurgeExact(k)) \/ (\E b \in Bases : PurgeBase(b)) \/ PurgeTag
  <2>1. PICK keys \in SUBSET (Keys \cup Tagged), bases \in SUBSET Bases,
             dead \in [Keys -> 0..MaxFills] :
             /\ Purge(keys, bases, dead)
             /\ \A k \in keys \cap Keys :
                   \/ BaseOf[k] \in bases /\ dead[k] = Issued
                   \/ dead[k] = StoredVer(k)
    BY <1>0, <1>11, PurgeTypes
  <2>0. /\ bases \in SUBSET Bases /\ dead \in [Keys -> 0..MaxFills]
        /\ Purge(keys, bases, dead)
    BY <2>1
  <2>2. /\ op'.bases = bases
        /\ \A r \in index : r.key \in keys => r \in op'.todo
        /\ \A k \in Keys : op'.dead[k] = IF k \in keys THEN dead[k] ELSE 0
    BY <1>0, <2>0, PurgeChosen
  <2>3. UNCHANGED <<index, flight, fill>> /\ op = NoOp
    BY <2>1 DEF Purge
  <2>4. Issued' = Issued /\ Issued \in Nat
    BY <2>3, FlightsOnlyEnd DEF Issued
  <2>5. ASSUME NEW r \in index \ op'.todo PROVE r.ver > op'.dead[r.key]
    <3>1. r.key \in Keys /\ r.key \notin keys /\ r.ver \in Nat \ {0}
      BY <2>2, Numbers DEF Records
    <3> QED
      BY <2>2, <3>1
  <2>6. ASSUME NEW k \in Keys
        PROVE  /\ op'.dead[k] <= Issued
               /\ \/ flight[BaseOf[k]] = NoFill \/ BaseOf[k] \in bases
                  \/ flight[BaseOf[k]] > op'.dead[k]
    <3>0. flight[BaseOf[k]] \in Nat /\ floor[k] <= Issued
      BY Numbers DEF Fresh, FloorIssued
    <3>1. CASE k \notin keys
      BY <2>2, <2>4, <3>0, <3>1 DEF NoFill
    <3>2. CASE k \in keys /\ dead[k] = Issued /\ BaseOf[k] \in bases
      BY <2>2, <2>4, <3>2
    <3>3. CASE k \in keys /\ dead[k] = StoredVer(k)
      <4>1. op'.dead[k] = StoredVer(k)
        BY <2>2, <3>3
      <4>2. CASE StoredVer(k) = floor[k]
        BY <3>0, <4>1, <4>2 DEF Fresh, FlightsFresh
      <4>3. ASSUME NEW r \in mem \cup index, r.key = k, r.ver = StoredVer(k)
            PROVE  /\ StoredVer(k) <= Issued
                   /\ flight[BaseOf[k]] = NoFill \/ flight[BaseOf[k]] > StoredVer(k)
        <5>1. r.ver <= Issued
          BY DEF Fresh, RecordsIssued, Records
        <5>2. flight[BaseOf[k]] = NoFill \/ flight[BaseOf[k]] > r.ver
          BY <2>3, <4>3, NoOpFields DEF Fresh, FlightsNewer
        <5> QED
          BY <4>3, <5>1, <5>2
      <4> QED
        BY <1>0, <4>1, <4>2, <4>3, StoredVerIs
    <3> QED
      BY <2>1, <3>1, <3>2, <3>3
  <2> QED
    BY <2>2, <2>3, <2>4, <2>5, <2>6 DEF Dead
<1>12. CASE RemoveFails \/ SyncFails \/ LinkFails \/ PurgeMemory \/ Restart
  <2>1. op' = NoOp
    BY <1>12, Aborts DEF PurgeMemory, Restart, EndOp
  <2> QED
    BY <1>1, <2>1, NoOpFields
<1> QED
  BY <1>3, <1>4, <1>5, <1>6, <1>7, <1>8, <1>9, <1>10, <1>11, <1>12, Cases, Others

(* The second invariant holds when the cache opens. *)
LEMMA InitFresh == Init => Fresh
<1> SUFFICES ASSUME Init PROVE Fresh
  OBVIOUS
<1>1. /\ mem = {} /\ index = {} /\ dir = {} /\ synced = {} /\ op = NoOp
      /\ flight = [b \in Bases |-> NoFill] /\ floor = [k \in Keys |-> 0]
  BY DEF Init
<1>2. Durable /\ RecordsIssued /\ NothingStaleReturns /\ FlightsNewer
  BY <1>1 DEF Durable, Representations, RecordsIssued, NothingStaleReturns, FlightsNewer, Records
<1>3. FloorIssued /\ FlightsFresh
  BY <1>1, IssuedType, DiskCacheAssumption DEF FloorIssued, FlightsFresh
<1>4. Cleared /\ Dead
  BY <1>1, NoOpFields DEF Cleared, Dead
<1> QED
  BY <1>2, <1>3, <1>4 DEF Fresh

(* Every step keeps the second invariant. *)
LEMMA FreshStep ==
  IInv /\ Fresh /\ [Next]_vars => Fresh'
<1>1. ASSUME IInv, Fresh, Next PROVE Fresh'
  <2>1. Durable' /\ RecordsIssued' /\ FloorIssued'
    BY <1>1, DurableStep, IssuedStep DEF Fresh
  <2> QED
    BY <1>1, <2>1, StaleStep, FlightsFreshStep, FlightsNewerStep, ClearedStep, DeadStep DEF Fresh
<1>2. ASSUME Fresh, UNCHANGED vars PROVE Fresh'
  <2>1. UNCHANGED <<mem, index, dir, synced, op, closed, flight, fill, tick, floor, undone, left>>
    BY <1>2 DEF vars
  <2>2. Durable' /\ RecordsIssued' /\ FloorIssued' /\ NothingStaleReturns'
    BY <1>2, <2>1
    DEF Fresh, Durable, Active, RecordsIssued, Records, FloorIssued, Issued, NothingStaleReturns
  <2>3. FlightsFresh' /\ FlightsNewer' /\ Cleared' /\ Dead'
    BY <1>2, <2>1 DEF Fresh, FlightsFresh, FlightsNewer, Cleared, Dead, Issued
  <2> QED
    BY <2>2, <2>3 DEF Fresh
<1> QED
  BY <1>1, <1>2

---------------------------------------------------------------------------
(* Theorems *)

(* The inductive invariant always holds. *)
LEMMA Invariant == Spec => []IInv
BY InitIInv, IInvStep, PTL DEF Spec

\* The memory cache, the index, the files, the operation at work and the fills keep their
\* types, through storage errors, shutdowns and crashes (cache.rs, disk.rs).
THEOREM TypeCorrect == Spec => []TypeOK
<1>1. IInv => TypeOK
  BY DEF IInv, Types, TypeOK, Ops, UndoneType
<1> QED
  BY <1>1, Invariant, PTL

\* For any number of requests, fills, purges, shutdowns and crashes: a flight has a live
\* leader of its own base, a channel is unanswered only while its flight is on the table,
\* and no older guard takes off the flight of a newer one (begin_fill, generation_matches,
\* cancel_flight).
THEOREM FlightsAlwaysLed == Spec => []FlightsHaveLeaders
<1>1. IInv => FlightsHaveLeaders
  BY DEF IInv
<1> QED
  BY <1>1, Invariant, PTL

\* For any quota, number of records and storage errors, also when a purge stops half way:
\* there are never more record files than max_disk_files (admission_victims, scan_root).
THEOREM QuotaAlwaysKept == Spec => []FilesWithinQuota
<1>1. IInv => FilesWithinQuota
  BY DEF IInv
<1> QED
  BY <1>1, Invariant, PTL

(* Both invariants always hold. *)
LEMMA FreshInvariant == Spec => [](IInv /\ Fresh)
<1>1. Init => IInv /\ Fresh
  BY InitIInv, InitFresh
<1>2. IInv /\ Fresh /\ [Next]_vars => (IInv /\ Fresh)'
  BY IInvStep, FreshStep
<1> QED
  BY <1>1, <1>2, PTL DEF Spec

\* For any storage errors, at whichever removal, sync or link they come: between operations
\* the index of an open cache is the directory, every file of it is durable, and so is every
\* removal but those of an operation that failed at a later one (remove_record, sync_root,
\* publish, durability).
THEOREM IndexAlwaysMatches == Spec => []IndexMatchesDisk
<1>1. IInv /\ Fresh => IndexMatchesDisk
  <2>1. ASSUME IInv, Fresh, op = NoOp, closed = "open"
        PROVE  index = dir /\ dir \subseteq synced /\ Representations(synced \ dir) \subseteq undone
    <3>1. dir = index
      BY <2>1, NoOpFields DEF IInv, OnDisk, Active
    <3>2. index \subseteq synced /\ Representations(synced \ index) \subseteq undone
      BY <2>1, NoOpFields DEF Fresh, Durable, Active
    <3> QED
      BY <3>1, <3>2
  <2> QED
    BY <2>1 DEF IndexMatchesDisk
<1> QED
  BY <1>1, FreshInvariant, PTL

\* For any storage errors and crashes: what a purge that returned or a newer store has put
\* out is in no memory, index or file that a crash could bring back, whatever fills were
\* under way, unless an operation that failed had removed its file without a sync (store,
\* purge_exact, purge_base, purge_tag).
THEOREM NothingStaleEverReturns == Spec => []NothingStaleReturns
<1>1. IInv /\ Fresh => NothingStaleReturns
  BY DEF Fresh
<1> QED
  BY <1>1, FreshInvariant, PTL

=============================================================================
