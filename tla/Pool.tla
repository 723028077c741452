------------------------------- MODULE Pool -------------------------------
(***************************************************************************)
(* Admission to the servers of one upstream pool (routing.rs, health.rs)    *)
(* whose queue_timeout_ms is set.                                           *)
(*                                                                          *)
(* A Request (L4, HTTP/3 and connection_reuse = "never") waits in the       *)
(* pool's FIFO and takes a permit of a server when it heads it.  A          *)
(* Connector (reusable HTTP) is bound to one server and stays outside the   *)
(* FIFO: it takes an idle connection or a permit, and otherwise waits for   *)
(* the capacity generation to move; its permit belongs to the connection,   *)
(* idle or not.  An Operator is any other thread: an administrator, a       *)
(* health probe, a failing request, the poll of an idle connection.         *)
(*                                                                          *)
(* A step ends where another thread can be seen.  notify_capacity_waiters   *)
(* takes four: the generation, the broadcast, the read of the front, and    *)
(* notify_one after the lock is gone; `todo` is where a thread is in it.    *)
(* The generation is compared for difference only: `stale` says for whom    *)
(* it moved.  The round-robin cursor and the counters of the statistics are  *)
(* left out: any candidate may be tried first.                              *)
(***************************************************************************)
EXTENDS Integers, Sequences, SequencesExt, FiniteSets

CONSTANTS
    Servers, Requests, Connectors, Operators,
    Ask,                \* the servers each request may use, or the one it names
    Configured,         \* max_connections of each server, 0 when it has none
    States,             \* administrative states an administrator may set
    HealthOverrides,    \* health overrides an administrator may set
    Overrides,          \* runtime capacities an administrator may set
    Managed,            \* servers that operators reach
    Startup,            \* the health every server starts with
    HealthyThreshold, UnhealthyThreshold,
    ErrorLimit, RecoveryThreshold, MarkDown, MarkUp,    \* PassiveFailurePolicy
    MaxEvents           \* requests, connectors and operations together

ASSUME PoolAssumption ==
    /\ IsFiniteSet(Requests) /\ IsFiniteSet(Connectors)
    /\ Requests \cap Connectors = {} /\ (Requests \cup Connectors) \cap Operators = {}
    /\ "none" \notin Servers \cup Requests
    /\ Ask \in [Requests -> SUBSET Servers]
    /\ Configured \in [Servers -> Nat]
    /\ States \subseteq {"Ready", "Drain", "Maintenance"}
    /\ HealthOverrides \subseteq {"Auto", "Up", "Down"}
    /\ Overrides \subseteq Nat
    /\ Managed \subseteq Servers
    /\ Startup \in {"Unchecked", "Unknown", "Healthy", "Unhealthy"}
    /\ HealthyThreshold \in Nat \ {0} /\ UnhealthyThreshold \in Nat \ {0}
    /\ ErrorLimit \in Nat \ {0} /\ RecoveryThreshold \in Nat \ {0}
    /\ MarkDown \in BOOLEAN /\ MarkUp \in BOOLEAN /\ MaxEvents \in Nat

VARIABLES
    server,     \* each PoolEndpoint
    waiters,    \* the FIFO
    pc,         \* where each thread is
    todo,       \* what is left of its notification
    front,      \* the waiter it read at the front
    request,    \* what a request keeps between its steps
    target,     \* the server a connector or an operator works on
    stale,      \* connectors that read a generation that has moved since
    notified,   \* requests and connectors whose Notified is ready
    permit,     \* requests whose Notify keeps a permit
    events      \* requests, connectors and operations so far

vars == <<server, waiters, pc, todo, front, request, target, stale, notified, permit, events>>

Threads == Requests \cup Connectors \cup Operators

None == "none"

Init ==
    /\ server = [s \in Servers |->
           [active |-> 0, idle |-> 0, limit |-> 0, administrative |-> "Ready",
            override |-> "Auto", checks |-> TRUE, health |-> Startup, successes |-> 0,
            failures |-> 0, ejected |-> "no", passive |-> 0]]
    /\ waiters = <<>>
    /\ pc = [t \in Threads |-> "out"]
    /\ todo = [t \in Threads |-> "none"]
    /\ front = [t \in Threads |-> None]
    /\ request = [r \in Requests |-> [candidates |-> {}, saturated |-> FALSE, held |-> None]]
    /\ target = [t \in Connectors \cup Operators |-> None]
    /\ stale = {}
    /\ notified = {}
    /\ permit = {}
    /\ events = 0

(***************************************************************************)
(* PoolEndpoint                                                             *)
(***************************************************************************)

Selectable(s) ==
    /\ server[s].administrative = "Ready"
    /\ server[s].ejected # "now"
    /\ CASE server[s].override = "Auto" -> server[s].health \in {"Unchecked", "Healthy"}
         [] server[s].override = "Up" -> TRUE
         [] server[s].override = "Down" -> FALSE

MaxConnections(s) == IF server[s].limit = 0 THEN Configured[s] ELSE server[s].limit

HasCapacity(s) == MaxConnections(s) = 0 \/ server[s].active < MaxConnections(s)

ChecksRunning(s) == server[s].checks /\ server[s].administrative # "Maintenance"

\* try_acquire_capacity: the compare-and-swap and what its closure reads.
Acquirable(s) == Selectable(s) /\ HasCapacity(s)

Took(s) == [server EXCEPT ![s].active = @ + 1]

Freed(s) == [server EXCEPT ![s].active = @ - 1]

(***************************************************************************)
(* PoolQueue                                                                *)
(***************************************************************************)

\* The thread is through with its last notification.
Runs(t, at) == pc[t] = at /\ todo[t] = "none"

Goes(t, at) == pc' = [pc EXCEPT ![t] = at]

\* The thread has something new to do, within the bound.
Starts(t) ==
    /\ Runs(t, "out")
    /\ events < MaxEvents
    /\ events' = events + 1

Notifies(t) == todo' = [todo EXCEPT ![t] = "generation"]

Quiet == UNCHANGED <<todo, front>>

\* The steps of notify_capacity_waiters, of which notify_front is the last two.
NotifyGeneration(t) ==
    /\ todo[t] = "generation"
    /\ stale' = stale \cup {c \in Connectors : pc[c] \in {"reuse", "try", "enable", "sleep"}}
    /\ todo' = [todo EXCEPT ![t] = "broadcast"]
    /\ UNCHANGED <<server, waiters, pc, front, request, target, notified, permit, events>>

\* notify_waiters reaches the connectors that have enabled their Notified.
Listening == {c \in Connectors : pc[c] = "sleep"}

NotifyBroadcast(t) ==
    /\ todo[t] = "broadcast"
    /\ notified' = notified \cup Listening
    /\ todo' = [todo EXCEPT ![t] = "front"]
    /\ UNCHANGED <<server, waiters, pc, front, request, target, stale, permit, events>>

NotifyFront(t) ==
    /\ todo[t] = "front"
    /\ IF waiters = <<>>
         THEN /\ todo' = [todo EXCEPT ![t] = "none"]
              /\ UNCHANGED front
         ELSE /\ todo' = [todo EXCEPT ![t] = "one"]
              /\ front' = [front EXCEPT ![t] = Head(waiters)]
    /\ UNCHANGED <<server, waiters, pc, request, target, stale, notified, permit, events>>

\* notify_one completes the Notified that is enabled and otherwise leaves a permit; of
\* a waiter that has left the queue it reaches nobody.
Enabled(r) == pc[r] \in {"full", "try", "recheck", "sleep"}

NotifyOne(t) ==
    /\ todo[t] = "one"
    /\ LET r == front[t] IN
       IF r \notin Range(waiters) THEN UNCHANGED <<notified, permit>>
       ELSE IF Enabled(r) /\ r \notin notified
              THEN notified' = notified \cup {r} /\ UNCHANGED permit
              ELSE permit' = permit \cup {r} /\ UNCHANGED notified
    /\ todo' = [todo EXCEPT ![t] = "none"]
    /\ front' = [front EXCEPT ![t] = None]
    /\ UNCHANGED <<server, waiters, pc, request, target, stale, events>>

Notify(t) ==
    \/ NotifyGeneration(t)
    \/ NotifyBroadcast(t)
    \/ NotifyFront(t)
    \/ NotifyOne(t)

(***************************************************************************)
(* select_wait_with, by a request                                           *)
(***************************************************************************)

QueueUnchanged == UNCHANGED <<waiters, target, stale, events>>

\* QueueWaitGuard::new
Enqueue(r) ==
    /\ Starts(r)
    /\ waiters' = Append(waiters, r)
    /\ Goes(r, "look")
    /\ Quiet
    /\ UNCHANGED <<server, request, target, stale, notified, permit>>

IsFront(r) == waiters # <<>> /\ Head(waiters) = r

\* The head of the loop: enable takes the permit that was left, and only the front
\* selects, which it stays until it leaves.  select_server_excluding (or
\* select_named_server) reads the candidates of one health snapshot, then whether one of
\* them is full, and then tries each that is not: permits and releases of other threads
\* come between.
Look(r) ==
    /\ Runs(r, "look")
    /\ notified' = IF r \in permit THEN notified \cup {r} ELSE notified
    /\ permit' = permit \ {r}
    /\ IF IsFront(r)
         THEN /\ request' = [request EXCEPT ![r].candidates =
                                 {s \in Ask[r] : Selectable(s)}]
              /\ Goes(r, "full")
         ELSE /\ Goes(r, "sleep")
              /\ UNCHANGED request
    /\ Quiet
    /\ QueueUnchanged
    /\ UNCHANGED server

ReadSaturated(r) ==
    /\ Runs(r, "full")
    /\ request' = [request EXCEPT ![r].saturated =
                      \E s \in request[r].candidates : ~HasCapacity(s)]
    /\ Goes(r, "try")
    /\ Quiet
    /\ QueueUnchanged
    /\ UNCHANGED <<server, notified, permit>>

\* A candidate is dropped when it is seen full, by the filter or by its own try_acquire.
TryAcquire(r, s) ==
    /\ Runs(r, "try")
    /\ s \in request[r].candidates
    /\ IF Acquirable(s)
         THEN /\ server' = Took(s)
              /\ request' = [request EXCEPT ![r].held = s]
              /\ Goes(r, "recheck")
         ELSE /\ request' = [request EXCEPT ![r].candidates = @ \ {s}]
              /\ UNCHANGED <<server, pc>>
    /\ Quiet
    /\ QueueUnchanged
    /\ UNCHANGED <<notified, permit>>

\* The server may have been drained, ejected or overridden since the permit was
\* read as available: it is given back and the next candidate tried.
Recheck(r) ==
    /\ Runs(r, "recheck")
    /\ LET s == request[r].held IN
       IF Selectable(s)
         THEN /\ request' = [request EXCEPT ![r].candidates = {}, ![r].saturated = FALSE]
              /\ Goes(r, "leave")
              /\ Quiet
              /\ UNCHANGED server
         ELSE /\ server' = Freed(s)
              /\ request' = [request EXCEPT ![r].held = None, ![r].candidates = @ \ {s}]
              /\ Goes(r, "try")
              /\ Notifies(r)
              /\ UNCHANGED front
    /\ QueueUnchanged
    /\ UNCHANGED <<notified, permit>>

\* No candidate is left: a request waits only if one of them was full.
Unselected(r) ==
    /\ Runs(r, "try")
    /\ request[r].candidates = {}
    /\ request' = [request EXCEPT ![r].saturated = FALSE]
    /\ Goes(r, IF request[r].saturated THEN "sleep" ELSE "leave")
    /\ Quiet
    /\ QueueUnchanged
    /\ UNCHANGED <<server, notified, permit>>

Wake(r) ==
    /\ Runs(r, "sleep")
    /\ r \in notified
    /\ notified' = notified \ {r}
    /\ Goes(r, "look")
    /\ Quiet
    /\ QueueUnchanged
    /\ UNCHANGED <<server, request, permit>>

\* The deadline passes, or the client goes away and the guard is dropped.
GiveUp(r) ==
    /\ Runs(r, "sleep")
    /\ Goes(r, "leave")
    /\ Quiet
    /\ QueueUnchanged
    /\ UNCHANGED <<server, request, notified, permit>>

\* Mutant (OnlyTheHeadSelects): whoever leaves pops the front.
PopFront(r) == Tail(waiters)

\* QueueWaitGuard::remove finds this waiter wherever it is.
Removed(r) == RemoveAt(waiters, CHOOSE i \in 1..Len(waiters) : waiters[i] = r)

\* Mutant (SleepingHeadMustWait): the front leaves without a word.
LeaveQuietly(r) ==
    /\ Runs(r, "leave")
    /\ waiters' = Removed(r)
    /\ Goes(r, IF request[r].held = None THEN "gone" ELSE "lease")
    /\ notified' = notified \ {r}
    /\ permit' = permit \ {r}
    /\ Quiet
    /\ UNCHANGED <<server, request, target, stale, events>>

\* QueueWaitGuard::finish, and its drop: a front that leaves tells the next one.
Leave(r) ==
    /\ Runs(r, "leave")
    /\ waiters' = Removed(r)
    /\ todo' = [todo EXCEPT ![r] = IF IsFront(r) THEN "front" ELSE "none"]
    /\ Goes(r, IF request[r].held = None THEN "gone" ELSE "lease")
    /\ notified' = notified \ {r}
    /\ permit' = permit \ {r}
    /\ UNCHANGED <<server, front, request, target, stale, events>>

\* EndpointLeaseInner::drop at the end of the transport.
Release(r) ==
    /\ Runs(r, "lease")
    /\ server' = Freed(request[r].held)
    /\ request' = [request EXCEPT ![r].held = None]
    /\ Goes(r, "gone")
    /\ Notifies(r)
    /\ QueueUnchanged
    /\ UNCHANGED <<front, notified, permit>>

RequestStep(r) ==
    \/ Enqueue(r)
    \/ Look(r)
    \/ ReadSaturated(r)
    \/ \E s \in Servers : TryAcquire(r, s)
    \/ Recheck(r)
    \/ Unselected(r)
    \/ Wake(r)
    \/ GiveUp(r)
    \/ Leave(r)
    \/ Release(r)

(***************************************************************************)
(* The connector's loop around a pending lease (vendor/pingora-core         *)
(* connectors/http) and EndpointLeaseInner as its ConnectionLifetime         *)
(***************************************************************************)

\* A selectable server: one the route names, full or not (select_server_connection_target),
\* or one the pool picks (select_connection_target_excluding, which prefers capacity).  The
\* loop begins by reading the generation; one that moves between the two, or between a
\* comparison and the next turn, costs another turn and nothing else.
SelectTarget(c, s) ==
    /\ Starts(c)
    /\ Selectable(s)
    /\ target' = [target EXCEPT ![c] = s]
    /\ Goes(c, "reuse")
    /\ Quiet
    /\ UNCHANGED <<server, waiters, request, stale, notified, permit>>

ConnectorUnchanged == UNCHANGED <<waiters, request, permit, events>>

\* reused_stream: an idle connection keeps the permit it was opened with; one that the
\* peer has closed is dropped, and its permit with it.
Reuse(c) ==
    /\ Runs(c, "reuse")
    /\ server[target[c]].idle > 0
    /\ \/ /\ server' = [server EXCEPT ![target[c]].idle = @ - 1]
          /\ stale' = stale \ {c}
          /\ Goes(c, "busy")
          /\ UNCHANGED todo
       \/ /\ server' = [server EXCEPT ![target[c]].idle = @ - 1, ![target[c]].active = @ - 1]
          /\ Goes(c, "try")
          /\ Notifies(c)
          /\ UNCHANGED stale
    /\ UNCHANGED front
    /\ ConnectorUnchanged
    /\ UNCHANGED <<target, notified>>

NothingIdle(c) ==
    /\ Runs(c, "reuse")
    /\ server[target[c]].idle = 0
    /\ Goes(c, "try")
    /\ Quiet
    /\ ConnectorUnchanged
    /\ UNCHANGED <<server, target, stale, notified>>

\* wait_for_capacity compares the generation, and again once its Notified is enabled:
\* whoever moved it in between found nobody to wake.  A connector that finds it moved
\* goes round the loop and reads it again.
Compare(c, same) ==
    /\ Goes(c, IF c \in stale THEN "reuse" ELSE same)
    /\ stale' = stale \ {c}

\* ConnectionLifetime::try_acquire, outside the selection lock and the FIFO.  A generation
\* that moves between the attempt and the first comparison is found by the second.
TryConnect(c) ==
    /\ Runs(c, "try")
    /\ IF Acquirable(target[c])
         THEN /\ server' = Took(target[c])
              /\ stale' = stale \ {c}
              /\ Goes(c, "busy")
         ELSE /\ Compare(c, "enable")
              /\ UNCHANGED server
    /\ Quiet
    /\ ConnectorUnchanged
    /\ UNCHANGED <<target, notified>>

\* Mutant (SleepingConnectorMustWait): the generation is not compared again.
SleepUnchecked(c) ==
    /\ Runs(c, "enable")
    /\ Goes(c, "sleep")
    /\ Quiet
    /\ ConnectorUnchanged
    /\ UNCHANGED <<server, target, stale, notified>>

EnableAndCompare(c) ==
    /\ Runs(c, "enable")
    /\ Compare(c, "sleep")
    /\ Quiet
    /\ ConnectorUnchanged
    /\ UNCHANGED <<server, target, notified>>

ConnectorWakes(c) ==
    /\ Runs(c, "sleep")
    /\ c \in notified
    /\ notified' = notified \ {c}
    /\ Compare(c, "enable")
    /\ Quiet
    /\ ConnectorUnchanged
    /\ UNCHANGED <<server, target>>

Ended(c) ==
    /\ Goes(c, "out")
    /\ target' = [target EXCEPT ![c] = None]
    /\ stale' = stale \ {c}
    /\ notified' = notified \ {c}

\* The deadline of the pending lease passes, or the client goes away.
ConnectorGivesUp(c) ==
    /\ Runs(c, "sleep")
    /\ Ended(c)
    /\ Quiet
    /\ ConnectorUnchanged
    /\ UNCHANGED server

\* Mutant (PermitsAreCounted): the lease is dropped although the connection is kept.
KeepAliveReleases(c) ==
    /\ Runs(c, "busy")
    /\ server' = [server EXCEPT ![target[c]].idle = @ + 1, ![target[c]].active = @ - 1]
    /\ Ended(c)
    /\ Notifies(c)
    /\ ConnectorUnchanged
    /\ UNCHANGED front

\* release_stream puts the connection into the reuse pool and then calls
\* notify_reusable.
KeepAlive(c) ==
    /\ Runs(c, "busy")
    /\ server' = [server EXCEPT ![target[c]].idle = @ + 1]
    /\ Ended(c)
    /\ Notifies(c)
    /\ ConnectorUnchanged
    /\ UNCHANGED front

\* The connection fails or is closed, and drops the lease it owns.
Close(c) ==
    /\ Runs(c, "busy")
    /\ server' = Freed(target[c])
    /\ Ended(c)
    /\ Notifies(c)
    /\ ConnectorUnchanged
    /\ UNCHANGED front

ConnectorStep(c) ==
    \/ \E s \in Servers : SelectTarget(c, s)
    \/ Reuse(c)
    \/ NothingIdle(c)
    \/ TryConnect(c)
    \/ EnableAndCompare(c)
    \/ ConnectorWakes(c)
    \/ ConnectorGivesUp(c)
    \/ KeepAlive(c)
    \/ Close(c)

(***************************************************************************)
(* Operators.  An administrator who sets what is set already changes nothing *)
(* and wakes everybody for nothing: the guards leave that case out.         *)
(***************************************************************************)

OperatorUnchanged == UNCHANGED <<waiters, front, request, stale, notified, permit>>

\* Idle connections are closed by their peer or their timeout.
IdleCloses(o, s) ==
    /\ Starts(o)
    /\ server[s].idle > 0
    /\ server' = [server EXCEPT ![s].idle = @ - 1, ![s].active = @ - 1]
    /\ Notifies(o)
    /\ OperatorUnchanged
    /\ UNCHANGED <<pc, target>>

\* set_server_administrative_state
SetAdministrativeState(o, s, state) ==
    /\ Starts(o)
    /\ server[s].administrative # state
    /\ server' = [server EXCEPT ![s].administrative = state]
    /\ Notifies(o)
    /\ OperatorUnchanged
    /\ UNCHANGED <<pc, target>>

SetHealthOverride(o, s, override) ==
    /\ Starts(o)
    /\ server[s].override # override
    /\ server' = [server EXCEPT ![s].override = override]
    /\ Notifies(o)
    /\ OperatorUnchanged
    /\ UNCHANGED <<pc, target>>

SetMaxConnections(o, s, limit) ==
    /\ Starts(o)
    /\ server[s].limit # limit
    /\ server' = [server EXCEPT ![s].limit = limit]
    /\ Notifies(o)
    /\ OperatorUnchanged
    /\ UNCHANGED <<pc, target>>

SetChecksEnabled(o, s) ==
    /\ Starts(o)
    /\ server' = [server EXCEPT ![s].checks = ~@]
    /\ OperatorUnchanged
    /\ UNCHANGED <<pc, todo, target>>

\* set_administrative_state stores the state of one server after the other and
\* notifies at the end.
SetAllAdministrativeStates(o, state) ==
    /\ Starts(o)
    /\ \E s \in Servers : server[s].administrative # state
    /\ Goes(o, "store")
    /\ target' = [target EXCEPT ![o] = [state |-> state, left |-> Servers]]
    /\ OperatorUnchanged
    /\ UNCHANGED <<server, todo>>

StoreNext(o, s) ==
    /\ Runs(o, "store")
    /\ s = CHOOSE t \in target[o].left : TRUE
    /\ server' = [server EXCEPT ![s].administrative = target[o].state]
    /\ IF target[o].left = {s}
         THEN /\ Goes(o, "out")
              /\ Notifies(o)
              /\ target' = [target EXCEPT ![o] = None]
         ELSE /\ target' = [target EXCEPT ![o].left = @ \ {s}]
              /\ UNCHANGED <<pc, todo>>
    /\ OperatorUnchanged
    /\ UNCHANGED events

\* HealthTarget::probe: the checks may be disabled, or the server put into
\* maintenance, before the answer is recorded.
ProbeStarts(o, s) ==
    /\ Starts(o)
    /\ Startup # "Unchecked"
    /\ ChecksRunning(s)
    /\ \A p \in Operators : ~(pc[p] = "probe" /\ target[p] = s)
    /\ Goes(o, "probe")
    /\ target' = [target EXCEPT ![o] = s]
    /\ OperatorUnchanged
    /\ UNCHANGED <<server, todo>>

\* A run of n results, as far as one more of them can still reach the threshold.
Kept(n, threshold) == IF n < threshold THEN n ELSE threshold - 1

RecoverAfter == IF HealthyThreshold < RecoveryThreshold THEN RecoveryThreshold ELSE HealthyThreshold

\* PoolEndpoint::record and recover_passive
RecordSuccess(e) ==
    LET successes == e.successes + 1
        health == IF e.health \in {"Unknown", "Unhealthy"} /\ successes >= HealthyThreshold
                    THEN "Healthy" ELSE e.health
        recovers == successes >= RecoverAfter /\ e.ejected # "no"
    IN  [e EXCEPT !.successes = Kept(successes, RecoverAfter),
                  !.failures = 0,
                  !.health = IF recovers /\ MarkUp THEN "Healthy" ELSE health,
                  !.ejected = IF recovers THEN "no" ELSE @,
                  !.passive = IF recovers THEN 0 ELSE @]

RecordFailure(e) ==
    LET failures == e.failures + 1
    IN  [e EXCEPT !.failures = Kept(failures, UnhealthyThreshold),
                  !.successes = 0,
                  !.health = IF @ \in {"Unknown", "Healthy"} /\ failures >= UnhealthyThreshold
                               THEN "Unhealthy" ELSE @]

\* record_health tells of a transition and of a recovery.
Tells(before, after) == before.health # after.health \/ before.ejected # after.ejected

ProbeEnds(o, healthy) ==
    /\ Runs(o, "probe")
    /\ LET s == target[o]
           after == IF healthy THEN RecordSuccess(server[s]) ELSE RecordFailure(server[s])
       IN  /\ server' = [server EXCEPT ![s] = after]
           /\ IF Tells(server[s], after) THEN Notifies(o) ELSE UNCHANGED todo
    /\ Goes(o, "out")
    /\ target' = [target EXCEPT ![o] = None]
    /\ OperatorUnchanged
    /\ UNCHANGED events

\* record_passive_failure: nothing but an ejection or a recovery resets the count.
RecordPassiveFailure(e) ==
    LET failures == e.passive + 1
    IN  IF e.ejected = "now" \/ failures < ErrorLimit
          THEN [e EXCEPT !.passive = Kept(failures, ErrorLimit)]
          ELSE [e EXCEPT !.ejected = "now",
                         !.passive = 0,
                         !.health = IF MarkDown THEN "Unhealthy" ELSE @]

PassiveFailure(o, s) ==
    /\ Starts(o)
    /\ server' = [server EXCEPT ![s] = RecordPassiveFailure(@)]
    /\ IF server'[s].ejected # server[s].ejected THEN Notifies(o) ELSE UNCHANGED todo
    /\ OperatorUnchanged
    /\ UNCHANGED <<pc, target>>

\* The clock passes the end of an ejection, and tells nobody.
EjectionLapses(s) ==
    /\ server[s].ejected = "now"
    /\ server' = [server EXCEPT ![s].ejected = "lapsed"]
    /\ Quiet
    /\ UNCHANGED <<waiters, pc, request, target, stale, notified, permit, events>>

OperatorStep(o) ==
    \/ \E s \in Managed : IdleCloses(o, s)
    \/ \E s \in Managed, state \in States : SetAdministrativeState(o, s, state)
    \/ \E state \in States : SetAllAdministrativeStates(o, state)
    \/ \E s \in Servers : StoreNext(o, s)
    \/ \E s \in Managed, override \in HealthOverrides : SetHealthOverride(o, s, override)
    \/ \E s \in Managed, limit \in Overrides \cup {0} : SetMaxConnections(o, s, limit)
    \/ \E s \in Managed : SetChecksEnabled(o, s)
    \/ \E s \in Managed : ProbeStarts(o, s)
    \/ \E healthy \in BOOLEAN : ProbeEnds(o, healthy)
    \/ \E s \in Managed : PassiveFailure(o, s)

Next ==
    \/ \E t \in Threads : Notify(t)
    \/ \E r \in Requests : RequestStep(r)
    \/ \E c \in Connectors : ConnectorStep(c)
    \/ \E o \in Operators : OperatorStep(o)
    \/ \E s \in Servers : EjectionLapses(s)

Spec == Init /\ [][Next]_vars

(***************************************************************************)
(* Properties                                                               *)
(***************************************************************************)

Endpoints ==
    [active : Nat, idle : Nat, limit : Overrides \cup {0},
     administrative : States \cup {"Ready"}, override : {"Auto", "Up", "Down"},
     checks : BOOLEAN, health : {"Unchecked", "Unknown", "Healthy", "Unhealthy"},
     successes : 0..(RecoverAfter - 1), failures : 0..(UnhealthyThreshold - 1),
     ejected : {"no", "now", "lapsed"}, passive : 0..(ErrorLimit - 1)]

Selections == [candidates : SUBSET Servers, saturated : BOOLEAN, held : Servers \cup {None}]

ProgramCounters ==
    {"out", "look", "full", "try", "recheck", "sleep", "leave", "lease", "gone", "reuse",
     "enable", "busy", "store", "probe"}

\* Every variable keeps its type.
TypeOK ==
    /\ server \in [Servers -> Endpoints]
    /\ waiters \in Seq(Requests)
    /\ pc \in [Threads -> ProgramCounters]
    /\ todo \in [Threads -> {"none", "generation", "broadcast", "front", "one"}]
    /\ front \in [Threads -> Requests \cup {None}]
    /\ request \in [Requests -> Selections]
    /\ stale \subseteq Connectors
    /\ notified \subseteq Requests \cup Connectors
    /\ permit \subseteq Requests
    /\ events \in 0..MaxEvents

\* Permits are counted exactly: the active work of a server is the leases of requests,
\* the connections in use and the idle ones, through refused rechecks, reuse, failed
\* connections, timeouts and cancellations (active_work, release_capacity and the drop of
\* EndpointLeaseInner).  A permit released twice admits more work than max_connections,
\* one that is not released starves the server for good.
PermitsAreCounted ==
    \A s \in Servers :
        server[s].active = Cardinality({r \in Requests : request[r].held = s})
                             + Cardinality({c \in Connectors : pc[c] = "busy" /\ target[c] = s})
                             + server[s].idle

\* The FIFO holds every request that waits exactly once, and only its head looks for a
\* server ("only its head can claim whichever eligible server releases capacity next",
\* docs/CONFIG_SPEC.md): no timeout or cancellation takes another waiter's place.
OnlyTheHeadSelects ==
    /\ \A i, j \in 1..Len(waiters) : waiters[i] = waiters[j] => i = j
    /\ \A r \in Requests :
        /\ r \in Range(waiters) <=> pc[r] \notin {"out", "lease", "gone"}
        /\ pc[r] \in {"full", "try", "recheck"} => IsFront(r)

\* A notification that has yet to reach whoever is at the front.
FrontWillHear(r) ==
    \E t \in Threads :
        \/ todo[t] \in {"generation", "broadcast", "front"}
        \/ todo[t] = "one" /\ front[t] = r
        \/ t \in Operators /\ pc[t] = "store"

\* Nothing is free for the request, and something may become so.
MustWait(r) ==
    /\ \E s \in Ask[r] : Selectable(s)
    /\ \A s \in Ask[r] : Acquirable(s) => server[s].ejected = "lapsed"

\* A head that sleeps with no notification under way is right to: a server it asked for is
\* selectable, and none has a permit to give.  Whatever else happens between its last look
\* and its sleep (a release, a head that leaves, a state an administrator sets, a
\* probe's transition), it is told.  A server whose passive ejection lapsed is the
\* exception, for the clock wakes nobody (passively_ejected_at).
SleepingHeadMustWait ==
    \A r \in Requests :
        (IsFront(r) /\ pc[r] = "sleep" /\ r \notin notified) => MustWait(r) \/ FrontWillHear(r)

\* A connector that sleeps with no broadcast under way has nothing to connect with: its
\* server has no idle connection and no permit (wait_for_capacity compares the
\* generation after its Notified is enabled; release_stream stores before it notifies).
SleepingConnectorMustWait ==
    \A c \in Connectors :
        (pc[c] = "sleep" /\ c \notin notified) =>
            \/ /\ server[target[c]].idle = 0
               /\ Acquirable(target[c]) => server[target[c]].ejected = "lapsed"
            \/ \E t \in Threads :
                   todo[t] \in {"generation", "broadcast"} \/ (t \in Operators /\ pc[t] = "store")

=============================================================================
