----------------------------- MODULE AcceptGate -----------------------------
(***************************************************************************)
(* The accept gate of a runtime generation and everything that meets at it: *)
(* vendor/pingora-core/src/apps/mod.rs (AcceptGate, its closes,             *)
(* participants and ownership claims), the accept loops of TCP listeners    *)
(* (services/listening.rs) and QUIC endpoints (http3.rs), the references    *)
(* that connections hold on the generation, and drain (generation.rs).      *)
(*                                                                          *)
(* A step is what happens under one acquisition of the gate mutex, one read *)
(* or write of the watch channel, or one atomic counter.  A transition of   *)
(* the gate is published on the watch channel after the mutex is released.  *)
(* A claim or reference counter is kept as the set of those it counts.  The *)
(* version of a watch value is its epoch, which no two published values     *)
(* share.  The timeouts of wait and drain may expire at any moment.  Only   *)
(* accept loops claim: begin_admission serves applications without a gate.  *)
(***************************************************************************)
EXTENDS Integers

CONSTANTS
    Tasks,          \* accept loops of TCP listeners
    Endpoints,      \* accept loops of QUIC endpoints
    Conns,          \* connections admitted from a claim, at the most
    Sessions,       \* callers of begin_reference
    Controllers,    \* threads that enable, close, reopen and drain
    MaxEpoch        \* bounds the transitions of the gate

ASSUME GateAssumption == MaxEpoch \in Nat /\ Tasks \cap Endpoints = {}

VARIABLES
    gate,       \* published, the state under the mutex
    claims,     \* tasks that hold an AcceptOwnership
    acked,      \* participants: the epoch each has acknowledged
    watch,      \* the value of the watch channel
    seen,       \* the version of the watch channel each listener has seen
    view,       \* the state a listener has read and acts on
    pc,         \* where a listener stands in its loop
    owned,      \* connections that hold a reference begun from a claim
    ref,        \* where a session stands in begin_reference
    ctl         \* what a controller is doing, and its AcceptGateClose

gateVars == <<gate, claims, acked, watch, seen, view, pc, owned, ref, ctl>>

listenerVars == <<claims, acked, seen, view, pc>>

Listeners == Tasks \cup Endpoints

State(accepting, epoch) == [accepting |-> accepting, epoch |-> epoch]

States == [accepting : BOOLEAN, epoch : 0..MaxEpoch]

Unregistered == -1

\* A listener that has read no state, or is done with the one it read.
Unread == State(FALSE, 0)

Kinds == {"owned", "checked"}

IdleControl ==
    [pc |-> "idle", state |-> State(FALSE, 0), epoch |-> 0, allowed |-> FALSE, unread |-> {}]

GateInit ==
    /\ gate = State(FALSE, 0) /\ watch = gate
    /\ claims = {}
    /\ acked = [l \in Listeners |-> Unregistered]
    /\ seen = [l \in Listeners |-> 0]
    /\ view = [l \in Listeners |-> Unread]
    /\ pc = [l \in Listeners |-> "unborn"]
    /\ owned = {}
    /\ ref = [s \in Sessions |-> "none"]
    /\ ctl = [c \in Controllers |-> IdleControl]

-----------------------------------------------------------------------------
(* Participants *)

Goes(l, place) == pc' = [pc EXCEPT ![l] = place]

\* register, under the mutex: a listener that finds the gate closed has
\* acknowledged that.
Register(l) ==
    /\ pc[l] = "unborn"
    /\ acked' = [acked EXCEPT ![l] =
                    IF gate.accepting /\ gate.epoch > 0 THEN gate.epoch - 1 ELSE gate.epoch]
    /\ Goes(l, "registered")
    /\ UNCHANGED <<gate, claims, watch, seen, view, owned, ref, ctl>>

\* The subscription that register returns, made after the mutex is released.
Subscribe(l) ==
    /\ pc[l] = "registered"
    /\ seen' = [seen EXCEPT ![l] = watch.epoch]
    /\ Goes(l, IF l \in Tasks THEN "top" ELSE "starting")
    /\ UNCHANGED <<gate, claims, acked, watch, view, owned, ref, ctl>>

Acknowledged(l, epoch) ==
    acked' = [acked EXCEPT ![l] = IF @ # Unregistered /\ epoch > @ THEN epoch ELSE @]

\* Mutant (ListenersResume): acknowledging marks the newest state as seen.
AcknowledgeMarksSeen(t) ==
    /\ pc[t] \in {"acking", "answering"}
    /\ Acknowledged(t, view[t].epoch)
    /\ seen' = [seen EXCEPT ![t] = watch.epoch]
    /\ view' = [view EXCEPT ![t] = Unread]
    /\ Goes(t, IF pc[t] = "acking" THEN "waiting" ELSE "top")
    /\ UNCHANGED <<gate, claims, watch, owned, ref, ctl>>

\* acknowledge, in the closed branch of the accept loop and after an
\* interrupted accept.
Acknowledge(t) ==
    /\ pc[t] \in {"acking", "answering"}
    /\ Acknowledged(t, view[t].epoch)
    /\ view' = [view EXCEPT ![t] = Unread]
    /\ Goes(t, IF pc[t] = "acking" THEN "waiting" ELSE "top")
    /\ UNCHANGED <<gate, claims, watch, seen, owned, ref, ctl>>

-----------------------------------------------------------------------------
(* The accept loop of a TCP listener, run_endpoint *)

Look(t) ==
    /\ pc[t] = "top"
    /\ view' = [view EXCEPT ![t] = watch]
    /\ Goes(t, IF watch.accepting THEN "claiming" ELSE "acking")
    /\ UNCHANGED <<gate, claims, acked, watch, seen, owned, ref, ctl>>

Wake(t) ==
    /\ pc[t] = "waiting" /\ seen[t] # watch.epoch
    /\ seen' = [seen EXCEPT ![t] = watch.epoch]
    /\ Goes(t, "top")
    /\ UNCHANGED <<gate, claims, acked, watch, view, owned, ref, ctl>>

\* Mutant (QuiescedExcludesOwners): the state read from the watch is trusted.
ClaimUnchecked(t) ==
    /\ pc[t] = "claiming"
    /\ claims' = claims \cup {t}
    /\ Goes(t, "accepting")
    /\ UNCHANGED <<gate, acked, watch, seen, view, owned, ref, ctl>>

\* claim, under the mutex: what the watch showed may be out of date.
Claim(t) ==
    /\ pc[t] = "claiming"
    /\ claims' = IF gate.accepting THEN claims \cup {t} ELSE claims
    /\ view' = [view EXCEPT ![t] = IF gate.accepting THEN @ ELSE Unread]
    /\ Goes(t, IF gate.accepting THEN "accepting" ELSE "top")
    /\ UNCHANGED <<gate, acked, watch, seen, owned, ref, ctl>>

\* A connection arrives first: it is given a reference while the claim is held,
\* unless it is refused for lack of capacity.
Admit(t) ==
    /\ pc[t] = "accepting"
    /\ \/ \E conn \in Conns \ owned : owned' = owned \cup {conn}
       \/ owned' = owned
    /\ Goes(t, "releasing")
    /\ UNCHANGED <<gate, claims, acked, watch, seen, view, ref, ctl>>

\* A transition of the gate arrives first.
Interrupt(t) ==
    /\ pc[t] = "accepting" /\ seen[t] # watch.epoch
    /\ seen' = [seen EXCEPT ![t] = watch.epoch]
    /\ view' = [view EXCEPT ![t] = watch]
    /\ Goes(t, "releasing")
    /\ UNCHANGED <<gate, claims, acked, watch, owned, ref, ctl>>

\* drop(ownership)
Release(t) ==
    /\ pc[t] = "releasing"
    /\ claims' = claims \ {t}
    /\ view' = [view EXCEPT ![t] = IF @.accepting THEN Unread ELSE @]
    /\ Goes(t, IF view[t].accepting THEN "top" ELSE "answering")
    /\ UNCHANGED <<gate, acked, watch, seen, owned, ref, ctl>>

\* The shutdown signal: the ownership is dropped, then the participant.
Quit(t) ==
    /\ pc[t] \in {"waiting", "accepting"}
    /\ claims' = claims \ {t}
    /\ view' = [view EXCEPT ![t] = Unread]
    /\ Goes(t, "leaving")
    /\ UNCHANGED <<gate, acked, watch, seen, owned, ref, ctl>>

\* The participant is dropped, and its subscription with it.
Drop(l) ==
    /\ acked' = [acked EXCEPT ![l] = Unregistered]
    /\ seen' = [seen EXCEPT ![l] = 0]
    /\ view' = [view EXCEPT ![l] = Unread]
    /\ UNCHANGED <<gate, claims, watch, owned, ref, ctl>>

Leave(l) == pc[l] = "leaving" /\ Goes(l, "gone") /\ Drop(l)

-----------------------------------------------------------------------------
(* The accept loop of a QUIC endpoint, serve_endpoint.  It claims nothing: its
   connections are sessions that begin a reference. *)

FirstLook(e) ==
    /\ pc[e] = "starting"
    /\ view' = [view EXCEPT ![e] = watch]
    /\ Goes(e, "serving")
    /\ UNCHANGED <<gate, claims, acked, watch, seen, owned, ref, ctl>>

\* A newer closed state ends the loop once it has been acknowledged.
Changed(e) ==
    /\ pc[e] = "serving" /\ seen[e] # watch.epoch
    /\ seen' = [seen EXCEPT ![e] = watch.epoch]
    /\ view' = [view EXCEPT ![e] = watch]
    /\ Goes(e, IF ~watch.accepting /\ watch.epoch > view[e].epoch THEN "closing" ELSE "noting")
    /\ UNCHANGED <<gate, claims, acked, watch, owned, ref, ctl>>

Note(e) ==
    /\ pc[e] \in {"closing", "noting"}
    /\ Acknowledged(e, view[e].epoch)
    /\ Goes(e, IF pc[e] = "closing" THEN "ended" ELSE "serving")
    /\ UNCHANGED <<gate, claims, watch, seen, view, owned, ref, ctl>>

\* The loop's connections have finished: the participant goes out of scope.
Finish(e) == pc[e] = "ended" /\ acked[e] # Unregistered /\ Drop(e) /\ UNCHANGED pc

\* The shutdown signal: the endpoint acknowledges what it can see and ends.
QuitEndpoint(e) ==
    /\ pc[e] = "serving"
    /\ Acknowledged(e, watch.epoch)
    /\ Goes(e, "leaving")
    /\ UNCHANGED <<gate, claims, watch, seen, view, owned, ref, ctl>>

-----------------------------------------------------------------------------
(* References *)

refOnly == <<gate, listenerVars, watch, owned, ctl>>

\* begin_reference: the gate is looked at, the reference counted, and the gate
\* looked at again; a count that comes too late is taken back.
CheckOpen(s) ==
    /\ ref[s] = "none" /\ gate.accepting
    /\ ref' = [ref EXCEPT ![s] = "checked"]
    /\ UNCHANGED refOnly

CountReference(s) ==
    /\ ref[s] = "checked"
    /\ ref' = [ref EXCEPT ![s] = "counted"]
    /\ UNCHANGED refOnly

\* Mutant (DrainedMeansIdle): the second look is left out.
HoldsUnchecked(s) ==
    /\ ref[s] = "counted"
    /\ ref' = [ref EXCEPT ![s] = "held"]
    /\ UNCHANGED refOnly

CheckAgain(s) ==
    /\ ref[s] = "counted"
    /\ ref' = [ref EXCEPT ![s] = IF gate.accepting THEN "held" ELSE "none"]
    /\ UNCHANGED refOnly

\* GenerationReference is dropped.
EndSession(s) ==
    /\ ref[s] = "held"
    /\ ref' = [ref EXCEPT ![s] = "none"]
    /\ UNCHANGED refOnly

EndConnection(conn) ==
    /\ conn \in owned
    /\ owned' = owned \ {conn}
    /\ UNCHANGED <<gate, listenerVars, watch, ref, ctl>>

-----------------------------------------------------------------------------
(* Controllers *)

Control(c, next) == ctl' = [ctl EXCEPT ![c] = next]

\* The gate changes under the mutex and c has yet to publish it.
Transition(c, state, next) ==
    /\ gate.epoch < MaxEpoch
    /\ gate' = state
    /\ Control(c, [next EXCEPT !.state = state])

\* start_accepting: enable, once in the life of a generation and only if nobody
\* has stopped it before.
Enable(c) ==
    /\ ctl[c].pc = "idle" /\ gate.epoch = 0
    /\ Transition(c, State(TRUE, gate.epoch + 1), [IdleControl EXCEPT !.pc = "opening"])
    /\ UNCHANGED <<listenerVars, watch, owned, ref>>

\* Mutant (StoppedForGood): the close of a closed gate may be undone too.
CloseMayReopen(c) ==
    /\ ctl[c].pc = "idle"
    /\ Transition(c, State(FALSE, gate.epoch + 1),
                  [IdleControl EXCEPT !.pc = "closing", !.epoch = gate.epoch + 1, !.allowed = TRUE])
    /\ UNCHANGED <<listenerVars, watch, owned, ref>>

\* close: only a close of an accepting gate may reopen it.
Close(c) ==
    /\ ctl[c].pc = "idle"
    /\ Transition(c, State(FALSE, gate.epoch + 1),
                  [IdleControl EXCEPT !.pc = "closing", !.epoch = gate.epoch + 1,
                               !.allowed = gate.accepting])
    /\ UNCHANGED <<listenerVars, watch, owned, ref>>

\* publish: an older transition never replaces a newer one.
Publish(c) ==
    /\ ctl[c].pc \in {"opening", "closing"}
    /\ watch' = IF ctl[c].state.epoch > watch.epoch THEN ctl[c].state ELSE watch
    /\ Control(c, IF ctl[c].pc = "closing"
                  THEN [ctl[c] EXCEPT !.pc = "waiting", !.state = IdleControl.state] ELSE IdleControl)
    /\ UNCHANGED <<gate, listenerVars, owned, ref>>

Quiescent(epoch) ==
    /\ claims = {}
    /\ \A l \in Listeners : acked[l] # Unregistered => acked[l] >= epoch

\* wait returns true.
Wait(c) ==
    /\ ctl[c].pc = "waiting"
    /\ Quiescent(ctl[c].epoch)
    /\ Control(c, [ctl[c] EXCEPT !.pc = "quiesced"])
    /\ UNCHANGED <<gate, listenerVars, watch, owned, ref>>

\* wait returns false.
TimeOut(c) ==
    /\ ctl[c].pc = "waiting" /\ ~Quiescent(ctl[c].epoch)
    /\ Control(c, [ctl[c] EXCEPT !.pc = "late"])
    /\ UNCHANGED <<gate, listenerVars, watch, owned, ref>>

\* reopen: restores acceptance unless a later transition superseded the close.
Reopen(c) ==
    /\ ctl[c].pc \in {"quiesced", "late"}
    /\ ctl[c].allowed /\ ~gate.accepting /\ gate.epoch = ctl[c].epoch
    /\ Transition(c, State(TRUE, gate.epoch + 1), [IdleControl EXCEPT !.pc = "opening"])
    /\ UNCHANGED <<listenerVars, watch, owned, ref>>

\* The close is dropped, or reopen refuses it: it can restore nothing any more.
Forget(c) ==
    /\ ctl[c].pc \in {"quiesced", "late", "drained"}
    /\ Control(c, IdleControl)
    /\ UNCHANGED <<gate, listenerVars, watch, owned, ref>>

\* drain goes on to the reference counters; its close cannot reopen the gate.
BeginDrain(c) ==
    /\ ctl[c].pc = "quiesced"
    /\ Control(c, [ctl[c] EXCEPT !.pc = "scanning", !.allowed = FALSE, !.unread = Kinds])
    /\ UNCHANGED <<gate, listenerVars, watch, owned, ref>>

Empty(kind) ==
    IF kind = "owned" THEN owned = {} ELSE \A s \in Sessions : ref[s] \notin {"counted", "held"}

\* drained() reads one counter; one that is not zero starts the wait over, or
\* ends it if the time is up.
Scan(c) ==
    /\ ctl[c].pc = "scanning"
    /\ \E kind \in ctl[c].unread :
          IF Empty(kind)
          THEN Control(c, [ctl[c] EXCEPT !.unread = @ \ {kind},
                                         !.pc = IF ctl[c].unread = {kind} THEN "drained" ELSE @])
          ELSE \/ Control(c, [ctl[c] EXCEPT !.unread = Kinds])
               \/ Control(c, IdleControl)
    /\ UNCHANGED <<gate, listenerVars, watch, owned, ref>>

-----------------------------------------------------------------------------
TaskStep(t) ==
    \/ Look(t) \/ Wake(t) \/ Claim(t) \/ Admit(t) \/ Interrupt(t) \/ Release(t) \/ Quit(t)
    \/ Acknowledge(t)

EndpointStep(e) == FirstLook(e) \/ Changed(e) \/ Note(e) \/ Finish(e) \/ QuitEndpoint(e)

ListenerStep(l) == Register(l) \/ Subscribe(l) \/ Leave(l)

SessionStep(s) == CheckOpen(s) \/ CountReference(s) \/ CheckAgain(s) \/ EndSession(s)

ControllerStep(c) ==
    \/ Enable(c) \/ Close(c) \/ Publish(c) \/ Wait(c) \/ TimeOut(c) \/ Reopen(c) \/ Forget(c)
    \/ BeginDrain(c) \/ Scan(c)

GateNext ==
    \/ \E l \in Listeners : ListenerStep(l)
    \/ \E t \in Tasks : TaskStep(t)
    \/ \E e \in Endpoints : EndpointStep(e)
    \/ \E s \in Sessions : SessionStep(s)
    \/ \E conn \in Conns : EndConnection(conn)
    \/ \E c \in Controllers : ControllerStep(c)

GateSpec == GateInit /\ [][GateNext]_gateVars

\* A controller publishes what it has decided.  An accept loop goes on as long as it
\* has something to do: it runs its straight-line code, and the select it waits in
\* is woken by the watch channel.  Whether a connection arrives, a session ends or
\* a shutdown is signalled is nobody's promise, and nothing is asked of endpoints.
TaskGoesOn(t) ==
    \/ Subscribe(t) \/ Look(t) \/ Wake(t) \/ Claim(t) \/ Interrupt(t) \/ Release(t)
    \/ Acknowledge(t) \/ Leave(t)

GateFairness ==
    /\ \A c \in Controllers : WF_gateVars(Publish(c))
    /\ \A t \in Tasks : WF_gateVars(TaskGoesOn(t))

GateFairSpec == GateSpec /\ GateFairness

-----------------------------------------------------------------------------
(* Properties *)

ListenerPlaces ==
    {"unborn", "registered", "top", "acking", "waiting", "claiming", "accepting", "releasing",
     "answering", "leaving", "gone", "starting", "serving", "closing", "noting", "ended"}

Controls ==
    [pc : {"idle", "opening", "closing", "waiting", "quiesced", "late", "scanning", "drained"},
     state : States, epoch : 0..MaxEpoch, allowed : BOOLEAN, unread : SUBSET Kinds]

\* The state keeps its shape, and no participant acknowledges an epoch that the
\* gate has not reached.
GateTypeOK ==
    /\ gate \in States /\ watch \in States
    /\ claims \subseteq Tasks /\ owned \subseteq Conns
    /\ acked \in [Listeners -> {Unregistered} \cup 0..gate.epoch]
    /\ seen \in [Listeners -> 0..MaxEpoch] /\ view \in [Listeners -> States]
    /\ pc \in [Listeners -> ListenerPlaces]
    /\ ref \in [Sessions -> {"none", "checked", "counted", "held"}]
    /\ ctl \in [Controllers -> Controls]

\* No later transition has superseded the close that c holds or drained under.
Current(c) == gate.epoch = ctl[c].epoch

\* Once wait has returned true, and until the gate moves on, no accept loop is in
\* accept or between accept and the release of its claim: the listening socket
\* can be served by the next generation.
QuiescedExcludesOwners ==
    \A c \in Controllers :
        ctl[c].pc \in {"quiesced", "scanning", "drained"} /\ Current(c) =>
            \A t \in Tasks : pc[t] \notin {"accepting", "releasing"}

\* Once drain has returned true, and until the gate moves on, nothing holds a
\* reference to the generation: neither a connection admitted from a claim nor a
\* session that raced the close through begin_reference, although the counters
\* are read one after the other.
DrainedMeansIdle ==
    \A c \in Controllers :
        ctl[c].pc = "drained" /\ Current(c) =>
            owned = {} /\ \A s \in Sessions : ref[s] # "held"

\* Publications may overtake each other outside of the mutex; when none is under
\* way the watch channel shows the gate as it is.
WatchFollowsGate ==
    (\A c \in Controllers : ctl[c].pc \notin {"opening", "closing"}) => watch = gate

\* The gate is closed, after a transition, and no close is left that may reopen it.
Stopped ==
    /\ gate.epoch > 0 /\ ~gate.accepting
    /\ ~\E c \in Controllers : ctl[c].allowed /\ Current(c)

\* A stopped generation stays stopped: once the close in force has been dropped, or
\* came second, no older close and no later one opens the gate again.
StoppedForGood == [][Stopped => Stopped']_gateVars

\* A gate that stays open is noticed: the accept loop of every TCP listener is back in
\* accept again and again, unless it was told to shut down.  No transition is slept
\* through.  Nothing is said of QUIC endpoints, which a close ends for good.
ListenersResume ==
    <>[](gate.accepting) =>
        \A t \in Tasks : []<>(pc[t] \in {"accepting", "unborn", "leaving", "gone"})
=============================================================================
