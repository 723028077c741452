----------------------------- MODULE DiskCache -----------------------------
(***************************************************************************)
(* The persistent HTTP cache: the memory cache with its collapsed fills     *)
(* (oxiroute-cache/src/cache.rs) and the record files that let it survive a *)
(* restart (disk.rs).                                                       *)
(*                                                                          *)
(* An operation holds the state mutex of the disk cache from its first step *)
(* to its last; a step is one removal, one directory sync, one link or one  *)
(* change of the memory cache, and the process may crash between any two.   *)
(* A directory change that was not synced may survive a crash or not.  Fill *)
(* guards are dropped and completed without that mutex.                     *)
(*                                                                          *)
(* A representation is known by the fill that fetched it, a number that     *)
(* grows.  Every record takes one unit of the quotas, so those of bytes and *)
(* of entries coincide.  One clock orders the accesses to the memory cache  *)
(* and to the records.  The temporary name of a record adds nothing: until  *)
(* its removal is synced the record itself may be lost by a crash.          *)
(***************************************************************************)
EXTENDS Integers, FiniteSets

CONSTANTS
    Keys,           \* exact keys: a request and its variant
    Bases,          \* request keys
    BaseOf,         \* the base of a key
    SchemaOf,       \* the headers a key varies on
    Tagged,         \* keys whose responses carry the surrogate tag
    MaxEntries,     \* entries of the memory cache
    MaxFiles,       \* max_disk_files
    MaxInFlight,    \* max_in_flight
    MaxFills,       \* fills begun
    MaxTick,        \* accesses
    MaxPurges,      \* purges
    MaxFaults,      \* storage errors
    MaxCrashes      \* crashes and restarts

ASSUME DiskCacheAssumption ==
    /\ BaseOf \in [Keys -> Bases]
    /\ MaxEntries \in Nat \ {0} /\ MaxFiles \in Nat \ {0}
    /\ MaxInFlight \in Nat
    /\ MaxFills \in Nat /\ MaxTick \in Nat
    /\ Keys # {} /\ Bases # {}
    /\ MaxPurges \in Nat /\ MaxFaults \in Nat /\ MaxCrashes \in Nat

VARIABLES
    mem,        \* entries of the memory cache
    index,      \* records: what the disk cache believes to be on disk
    dir,        \* record files in the root directory
    synced,     \* record files of the directory as it was last synced
    op,         \* the operation that holds the state mutex
    closed,     \* closed, and whether shutdown has still to take the mutex
    flight,     \* flights: the fill in progress for a base
    fill,       \* fill guards, and the outcome on the channel of each fill
    tick,       \* State::sequence
    floor,      \* per key: fills whose representation must not be seen again
    undone,     \* history: representations an operation removed that failed before its sync
    left        \* what remains of the bounds

vars == <<mem, index, dir, synced, op, closed, flight, fill, tick, floor, undone, left>>

Fills == 1..MaxFills

NoFill == 0

Record(k, v, n) == [key |-> k, ver |-> v, seq |-> n]

NoOp == [kind |-> "none", step |-> "none", key |-> CHOOSE k \in Keys : TRUE, ver |-> NoFill,
         seq |-> 0, todo |-> {}, dirty |-> FALSE, bases |-> {}, dead |-> [k \in Keys |-> 0]]

Guard(b, guard, outcome) == [base |-> b, guard |-> guard, outcome |-> outcome]

NoGuard == Guard(CHOOSE b \in Bases : TRUE, "none", "none")

\* A guard that is gone, its followers answered.
Ended == Guard(CHOOSE b \in Bases : TRUE, "done", "ended")

Init ==
    /\ mem = {} /\ index = {} /\ dir = {} /\ synced = {}
    /\ op = NoOp
    /\ closed = "open"
    /\ flight = [b \in Bases |-> NoFill]
    /\ fill = [v \in Fills |-> NoGuard]
    /\ tick = 0
    /\ floor = [k \in Keys |-> 0]
    /\ undone = {}
    /\ left = [purges |-> MaxPurges, faults |-> MaxFaults, crashes |-> MaxCrashes]

Issued == Cardinality({v \in Fills : fill[v].guard # "none"})

\* key.base() == base && !key.same_vary_schema(..)
Conflicts(j, k) == BaseOf[j] = BaseOf[k] /\ SchemaOf[j] # SchemaOf[k]

\* The n least recently used of a set of records.
Oldest(set, n) == {r \in set : Cardinality({s \in set : s.seq <= r.seq}) <= n}

\* Mutant (FilesWithinQuota): the record to come is not counted.
VictimsTooFew(k) ==
    LET replaced == {r \in index : r.key = k \/ Conflicts(r.key, k)}
        rest == index \ replaced
    IN  replaced \cup Oldest(rest, Cardinality(rest) - MaxFiles)

\* admission_victims
Victims(k) ==
    LET replaced == {r \in index : r.key = k \/ Conflicts(r.key, k)}
        rest == index \ replaced
    IN  replaced \cup Oldest(rest, Cardinality(rest) - (MaxFiles - 1))

\* insert_entry
Inserted(entries, r) ==
    LET kept == {e \in entries : e.key # r.key /\ ~Conflicts(e.key, r.key)}
    IN  (kept \ Oldest(kept, Cardinality(kept) - (MaxEntries - 1))) \cup {r}

KeysOf(set) == {r.key : r \in set}

Representation(r) == <<r.key, r.ver>>

Representations(set) == {Representation(r) : r \in set}

\* After a sync only what is still stored can be seen again.
Forgotten(stored) == undone' = undone \cap Representations(stored)

Fault == left.faults > 0 /\ left' = [left EXCEPT !.faults = @ - 1]

---------------------------------------------------------------------------
(* Fills. *)

\* generation_matches: the flight of the base is this fill's.
Current(v) == flight[fill[v].base] = v

\* Mutant (FlightsHaveLeaders): whichever flight the base has.
EndAnyFlight(v) ==
    /\ fill' = [fill EXCEPT ![v] = Ended]
    /\ flight' = [flight EXCEPT ![fill[v].base] = NoFill]

\* What ending the guard of v does: only its own flight is taken off the table.
EndGuard(v) ==
    /\ fill' = [fill EXCEPT ![v] = IF Current(v) \/ @.outcome # "filling"
                                     THEN Ended ELSE [@ EXCEPT !.guard = "done"]]
    /\ flight' = IF Current(v) THEN [flight EXCEPT ![fill[v].base] = NoFill] ELSE flight

\* cancel_flight, for every base of a set.
CancelFlights(bases, outcome) ==
    /\ fill' = [v \in Fills |-> IF fill[v].base \in bases /\ Current(v)
                                  THEN [fill[v] EXCEPT !.outcome = outcome] ELSE fill[v]]
    /\ flight' = [b \in Bases |-> IF b \in bases THEN NoFill ELSE flight[b]]

\* begin_fill for a leader; a follower subscribes to the channel of the flight.
BeginFill(b) ==
    /\ op = NoOp
    /\ closed = "open"
    /\ flight[b] = NoFill
    /\ Cardinality({c \in Bases : flight[c] # NoFill}) < MaxInFlight
    /\ Issued < MaxFills
    /\ fill' = [fill EXCEPT ![Issued + 1] = Guard(b, "live", "filling")]
    /\ flight' = [flight EXCEPT ![b] = Issued + 1]
    /\ UNCHANGED <<mem, index, dir, synced, op, closed, tick, floor, undone, left>>

\* The guard of a fill that is not being stored is dropped, or completed without a store.
LeaderEnds(v) ==
    /\ fill[v].guard = "live"
    /\ op.ver # v
    /\ EndGuard(v)
    /\ UNCHANGED <<mem, index, dir, synced, op, closed, tick, floor, undone, left>>

---------------------------------------------------------------------------
(* Operations: how each begins.  With nothing to remove a step is skipped. *)

\* The step after the removals, and after the sync that follows them.
After(kind) ==
    CASE kind \in {"store", "touch"} -> "link"
      [] kind = "purge" -> "memory"
      [] OTHER -> "end"

Started(o) == IF o.todo = {} THEN [o EXCEPT !.step = After(o.kind)] ELSE o

Begin(o) == op' = IF Started(o).step = "end" THEN NoOp ELSE Started(o)

StoreBegin(v, k) ==
    /\ fill[v].guard = "live"
    /\ BaseOf[k] = fill[v].base
    /\ op = NoOp
    /\ IF closed = "open" /\ Current(v)
         THEN /\ tick < MaxTick
              /\ tick' = tick + 1
              /\ Begin([NoOp EXCEPT !.kind = "store", !.step = "remove", !.key = k, !.ver = v,
                                    !.seq = tick + 1, !.todo = Victims(k)])
              /\ UNCHANGED <<fill, flight>>
         ELSE EndGuard(v) /\ UNCHANGED <<op, tick>>
    /\ UNCHANGED <<mem, index, dir, synced, closed, floor, undone, left>>

\* lookup and stale_if_error find an entry: it becomes the most recent one and is touched.
LookupHit(e) ==
    /\ op = NoOp
    /\ closed = "open"
    /\ tick < MaxTick
    /\ tick' = tick + 1
    /\ mem' = (mem \ {e}) \cup {[e EXCEPT !.seq = tick + 1]}
    /\ LET old == {r \in index : r.key = e.key}
       IN  op' = IF old = {} THEN NoOp
                 ELSE [NoOp EXCEPT !.kind = "touch", !.step = "remove", !.key = e.key,
                                   !.seq = tick + 1, !.todo = old]
    /\ UNCHANGED <<index, dir, synced, closed, flight, fill, floor, undone, left>>

\* lookup finds none, or one that has expired; reconcile_base.
LookupMiss(b) ==
    /\ op = NoOp
    /\ closed = "open"
    /\ \E expired \in {{}} \cup {{e} : e \in {x \in mem : BaseOf[x.key] = b}} :
         /\ mem' = mem \ expired
         /\ Begin([NoOp EXCEPT !.kind = "sweep", !.step = "remove",
                               !.todo = {r \in index : BaseOf[r.key] = b
                                                         /\ r.key \notin KeysOf(mem')}])
    /\ UNCHANGED <<index, dir, synced, closed, flight, fill, tick, floor, undone, left>>

\* The highest fill whose representation of k is stored.
StoredVer(k) ==
    LET vers == {r.ver : r \in {x \in mem \cup index : x.key = k}}
    IN  IF vers = {} THEN floor[k] ELSE CHOOSE v \in vers : \A w \in vers : w <= v

\* purge_exact, purge_base and purge_tag.
Purge(keys, bases, dead) ==
    /\ op = NoOp
    /\ closed = "open"
    /\ left.purges > 0
    /\ left' = [left EXCEPT !.purges = @ - 1]
    /\ Begin([NoOp EXCEPT !.kind = "purge", !.step = "remove", !.bases = bases,
                          !.todo = {r \in index : r.key \in keys},
                          !.dead = [k \in Keys |-> IF k \in keys THEN dead[k] ELSE 0]])
    /\ UNCHANGED <<mem, index, dir, synced, closed, flight, fill, tick, floor, undone>>

PurgeExact(k) == Purge({k}, {BaseOf[k]}, [j \in Keys |-> Issued])

PurgeBase(b) == Purge({k \in Keys : BaseOf[k] = b}, {b}, [j \in Keys |-> Issued])

PurgeTag ==
    Purge(Tagged, {BaseOf[e.key] : e \in {x \in mem : x.key \in Tagged}},
          [j \in Keys |-> StoredVer(j)])

---------------------------------------------------------------------------
(* Operations: their steps. *)

EndOp == op' = NoOp

\* An operation returns an error: a store gives up its guard.
Abort ==
    /\ EndOp
    /\ IF op.kind = "store" THEN EndGuard(op.ver) ELSE UNCHANGED <<fill, flight>>

\* Mutant (IndexMatchesDisk): the error is only reported.
ShutLater == closed

\* durability: an error that leaves the directory in doubt closes the cache.
Shut == IF closed = "open" THEN "closed" ELSE closed

\* remove_record and State::remove.
Remove ==
    /\ op.step = "remove"
    /\ \E r \in op.todo :
         /\ dir' = dir \ {r}
         /\ index' = index \ {r}
         /\ mem' = IF op.kind = "store" THEN {e \in mem : e.key # r.key} ELSE mem
         /\ op' = [op EXCEPT !.todo = @ \ {r}, !.dirty = TRUE,
                             !.step = IF op.todo = {r} THEN "sync" ELSE @]
    /\ UNCHANGED <<synced, closed, flight, fill, tick, floor, undone, left>>

\* The removal is refused: only after an insertion does this close the cache.  What the
\* operation removed before is not synced, and no step is left that would sync it.
RemoveFails ==
    /\ op.step = "remove"
    /\ Fault
    /\ Abort
    /\ closed' = IF op.kind = "evict" THEN Shut ELSE closed
    /\ undone' = undone \cup Representations(synced \ dir)
    /\ UNCHANGED <<mem, index, dir, synced, tick, floor>>

\* sync_root
Sync ==
    /\ op.step = "sync"
    /\ synced' = dir
    /\ Forgotten(mem \cup index \cup dir)
    /\ op' = IF After(op.kind) = "end" THEN NoOp ELSE [op EXCEPT !.step = After(op.kind)]
    /\ UNCHANGED <<mem, index, dir, closed, flight, fill, tick, floor, left>>

SyncFails ==
    /\ op.step \in {"sync", "settle"}
    /\ Fault
    /\ Abort
    /\ closed' = Shut
    /\ UNCHANGED <<mem, index, dir, synced, tick, floor, undone>>

\* The version that a store or a touch writes.
Written ==
    LET ver == IF op.kind = "store" THEN op.ver ELSE (CHOOSE e \in mem : e.key = op.key).ver
    IN  Record(op.key, ver, op.seq)

\* publish, up to linkat; create_temp, the write and the link may fail.
Link ==
    /\ op.step = "link"
    /\ dir' = dir \cup {Written}
    /\ op' = [op EXCEPT !.step = "settle"]
    /\ UNCHANGED <<mem, index, synced, closed, flight, fill, tick, floor, undone, left>>

LinkFails ==
    /\ op.step = "link"
    /\ Fault
    /\ Abort
    /\ UNCHANGED <<mem, index, dir, synced, closed, tick, floor, undone>>

\* publish, from the removal of the temporary name; State::insert.
Settle ==
    /\ op.step = "settle"
    /\ synced' = dir
    /\ Forgotten(mem \cup index \cup dir)
    /\ index' = index \cup {Written}
    /\ op' = IF op.kind = "store" THEN [op EXCEPT !.step = "insert"] ELSE NoOp
    /\ UNCHANGED <<mem, dir, closed, flight, fill, tick, floor, left>>

\* store_claimed; the entries it put out leave the disk too (reconcile_insertion).
Insert ==
    /\ op.step = "insert"
    /\ LET new == Inserted(mem, Written)
           out == {r \in index : r.key \in KeysOf(mem) \ KeysOf(new)}
           lost == {r \in index : r.key = op.key}
       IN  /\ mem' = IF Current(op.ver) THEN new ELSE mem
           /\ Begin([NoOp EXCEPT !.kind = IF Current(op.ver) THEN "evict" ELSE "sweep",
                                 !.step = "remove",
                                 !.todo = IF Current(op.ver) THEN out ELSE lost])
    /\ floor' = [k \in Keys |->
                   IF Current(op.ver) /\ k = op.key THEN op.ver - 1
                   ELSE IF Current(op.ver) /\ Conflicts(k, op.key) THEN op.ver
                   ELSE floor[k]]
    /\ EndGuard(op.ver)
    /\ UNCHANGED <<index, dir, synced, closed, tick, undone, left>>

\* Mutant (NothingStaleReturns): the fill under way goes on.
PurgeEntriesOnly ==
    /\ op.step = "memory"
    /\ mem' = {e \in mem : op.dead[e.key] < e.ver}
    /\ floor' = [k \in Keys |-> IF op.dead[k] > floor[k] THEN op.dead[k] ELSE floor[k]]
    /\ EndOp
    /\ UNCHANGED <<index, dir, synced, closed, flight, fill, tick, undone, left>>

\* The purge reaches the memory cache and the fills, and returns.
PurgeMemory ==
    /\ op.step = "memory"
    /\ mem' = {e \in mem : op.dead[e.key] < e.ver}
    /\ CancelFlights(op.bases, "purged")
    /\ floor' = [k \in Keys |-> IF op.dead[k] > floor[k] THEN op.dead[k] ELSE floor[k]]
    /\ EndOp
    /\ UNCHANGED <<index, dir, synced, closed, tick, undone, left>>

Step ==
    Remove \/ RemoveFails \/ Sync \/ SyncFails \/ Link \/ LinkFails \/ Settle \/ Insert \/ PurgeMemory

---------------------------------------------------------------------------
(* Shutdown, crash and recovery. *)

\* shutdown closes the cache before it waits for the mutex.
ShutdownBegin ==
    /\ closed = "open"
    /\ closed' = "closing"
    /\ UNCHANGED <<mem, index, dir, synced, op, flight, fill, tick, floor, undone, left>>

ShutdownEnd ==
    /\ closed = "closing"
    /\ op = NoOp
    /\ closed' = "closed"
    /\ CancelFlights(Bases, "cancelled")
    /\ \/ synced' = dir /\ Forgotten(mem \cup index \cup dir) /\ UNCHANGED left
       \/ Fault /\ UNCHANGED <<synced, undone>>
    /\ UNCHANGED <<mem, index, dir, op, tick, floor>>

\* scan_root: of each key the newest record, within the quota, oldest out first.
Scanned(files) ==
    LET newest == {f \in files : \A g \in files : g.key = f.key => g.seq <= f.seq}
    IN  newest \ Oldest(newest, Cardinality(newest) - MaxFiles)

\* ... restored in the order of their accesses, as by a store.
Restored(files) ==
    LET upTo[n \in 0..MaxTick] ==
          IF n = 0 THEN {}
          ELSE LET here == {f \in files : f.seq = n}
               IN  IF here = {} THEN upTo[n - 1]
                   ELSE Inserted(upTo[n - 1], CHOOSE f \in here : TRUE)
    IN  upTo[MaxTick]

\* The process ends, the machine perhaps with it, and the cache is opened again.
Restart ==
    /\ left.crashes > 0
    /\ left' = [left EXCEPT !.crashes = @ - 1]
    /\ \E files \in SUBSET (dir \cup synced) :
         /\ dir \cap synced \subseteq files
         /\ \E kept \in SUBSET Scanned(files) :
              /\ kept = Restored(Scanned(files))
              /\ mem' = kept /\ index' = kept /\ dir' = kept /\ synced' = kept
              /\ Forgotten(kept)
              /\ tick' = IF kept = {} THEN 0
                         ELSE CHOOSE n \in 0..MaxTick : /\ \A f \in kept : f.seq <= n
                                                        /\ \E f \in kept : f.seq = n
    /\ EndOp
    /\ closed' = "open"
    /\ flight' = [b \in Bases |-> NoFill]
    /\ fill' = [v \in Fills |-> IF fill[v].guard = "none" THEN fill[v] ELSE Ended]
    /\ UNCHANGED floor

Next ==
    \/ \E b \in Bases : BeginFill(b) \/ LookupMiss(b) \/ PurgeBase(b)
    \/ \E v \in Fills : LeaderEnds(v) \/ \E k \in Keys : StoreBegin(v, k)
    \/ \E e \in mem : LookupHit(e)
    \/ \E k \in Keys : PurgeExact(k)
    \/ PurgeTag
    \/ Step
    \/ ShutdownBegin \/ ShutdownEnd
    \/ Restart

Spec == Init /\ [][Next]_vars

---------------------------------------------------------------------------
RecordSet == [key : Keys, ver : Fills, seq : 0..MaxTick]

(* Every part of the cache has its type. *)
TypeOK ==
    /\ mem \subseteq RecordSet /\ index \subseteq RecordSet
    /\ dir \subseteq RecordSet /\ synced \subseteq RecordSet
    /\ op.todo \subseteq RecordSet
    /\ closed \in {"open", "closing", "closed"}
    /\ flight \in [Bases -> Fills \cup {NoFill}]
    /\ tick \in 0..MaxTick
    /\ floor \in [Keys -> 0..MaxFills]
    /\ undone \subseteq Keys \X Fills

(* A purge that returned, and a store that put a newer response in place,   *)
(* are final: nothing older is in memory, in the index or in a file that a  *)
(* crash could bring back, whatever fill was under way.  The one exception  *)
(* is a representation whose file an earlier operation removed before it    *)
(* failed at its next removal: neither that operation nor a purge that then *)
(* finds no file syncs the directory (disk.rs:443-449, 571-577).            *)
NothingStaleReturns ==
    \A r \in mem \cup index \cup dir \cup synced :
        r.ver > floor[r.key] \/ Representation(r) \in undone

(* What the comments of purge_exact and purge_base say, that a purge        *)
(* durably removes what it purges (disk.rs:410, 427): after it returned,    *)
(* no crash brings a purged or replaced representation back.                *)
PurgesAreDurable ==
    \A r \in mem \cup index \cup dir \cup synced : r.ver > floor[r.key]

(* A flight on the table has a leader that will take it off, a channel is   *)
(* unanswered only while its flight is on the table, and a live leader is   *)
(* never cancelled by the guard of an older fill.                           *)
FlightsHaveLeaders ==
    /\ \A b \in Bases : flight[b] # NoFill =>
          fill[flight[b]].base = b /\ fill[flight[b]].guard = "live"
    /\ \A v \in Fills :
          /\ fill[v].outcome = "filling" => Current(v)
          /\ fill[v].guard = "live" /\ fill[v].outcome = "cancelled" => closed # "open"

(* The quota of record files holds at every step of every operation, and    *)
(* after a crash.                                                           *)
FilesWithinQuota == Cardinality(dir) <= MaxFiles

(* Between operations an open cache knows exactly what is on disk, and all  *)
(* of it is durable: no error path leaves a file the index has forgotten.   *)
(* Removals are durable too, but for those of an operation that failed at a *)
(* later removal and left the cache open.                                   *)
IndexMatchesDisk ==
    op = NoOp /\ closed = "open" =>
        /\ index = dir
        /\ dir \subseteq synced
        /\ Representations(synced \ dir) \subseteq undone
============================================================================
