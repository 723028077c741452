------------------------------- MODULE Worker -------------------------------
(***************************************************************************)
(* One supervised worker process as the master meets it: the control loop   *)
(* of crates/oxiroute-server/src/supervised/worker.rs, the accept gate it   *)
(* opens and closes, and the ends of its seqpacket channel.  Operators take *)
(* the worker's record                                                      *)
(*                                                                          *)
(*   run       "unborn", "live", "leaving" (its run function is returning), *)
(*             "killed" (SIGKILL sent), "gone" (process group exited)       *)
(*   revision  the configuration revision in the worker's arguments         *)
(*   linked    the worker end of the control channel is open                *)
(*   startup   "fresh" until listeners are adopted, "pending" until         *)
(*             activation takes startup, then "done"                        *)
(*   gate      the accept gate: whether the worker admits connections       *)
(*   handle    quiesced holds the AcceptGateClose of the last Quiesce       *)
(*   inbox, outbox   frames not yet read by the worker, by the master       *)
(***************************************************************************)
EXTENDS Naturals, Sequences

Unborn(r) ==
    [run |-> "unborn", revision |-> r, linked |-> FALSE, startup |-> "fresh", gate |-> "closed",
     handle |-> FALSE, inbox |-> << >>, outbox |-> << >>]

\* A process that is gone keeps nothing: its frames die with its endpoint.
Gone(p) == [Unborn(p.revision) EXCEPT !.run = "gone"]

\* A worker as the spawner hands it over: authenticated, nothing adopted yet.
Newborn(r) == [Unborn(r) EXCEPT !.run = "live", !.linked = TRUE]

\* The worker's next request can be handled.
Reads(p) == p.run = "live" /\ p.linked /\ p.inbox # << >>

Request(p) == Head(p.inbox)

\* control.acknowledge
Acknowledged(p, ok) ==
    [p EXCEPT !.inbox = Tail(@),
              !.outbox = Append(@, [kind |-> "Ack", req |-> Request(p).req,
                                    phase |-> Request(p).phase, ok |-> ok])]

Leaves(p) == [p EXCEPT !.run = "leaving", !.gate = "closed"]

\* The first request must be AdoptListeners, the configuration file must still
\* hold the revision the master launched the worker for, and preparing and
\* starting the generation may fail.
AdoptFirst(p, disk, ok) ==
    IF ok /\ Request(p).phase = "AdoptListeners" /\ disk = p.revision
    THEN [Acknowledged(p, TRUE) EXCEPT !.startup = "pending"]
    ELSE Leaves(Acknowledged(p, FALSE))

\* Mutant: the answer does not depend on the gate having been reopened.
ReactivatedUnchecked(p) == [Acknowledged(p, TRUE) EXCEPT !.handle = FALSE]

\* reactivate_active: the handle is taken, and reopens the gate it closed.
Reactivated(p) ==
    [Acknowledged(p, p.handle) EXCEPT !.gate = IF p.handle THEN "open" ELSE @,
                                      !.handle = FALSE]

\* One turn of the control loop on the next request.  ok is what the runtime
\* answers: the activation, the gate's wait, the drain and the shutdown may fail.
\* Draining closes the gate once more, which makes the handle stale.
ServeRequest(p, ok) ==
    LET phase == Request(p).phase IN
    CASE phase = "Activate" /\ p.startup = "pending" ->
            IF ok THEN [Acknowledged(p, TRUE) EXCEPT !.startup = "done", !.gate = "open"]
            ELSE Leaves([Acknowledged(p, FALSE) EXCEPT !.startup = "done"])
      [] phase = "Shutdown" -> Leaves(Acknowledged(p, ok))
      [] phase = "Quiesce" ->
            IF p.startup = "done"
            THEN [Acknowledged(p, ok) EXCEPT !.gate = "closed", !.handle = TRUE]
            ELSE Acknowledged(p, FALSE)
      [] phase = "Drain" ->
            IF p.startup = "done"
            THEN [Acknowledged(p, ok) EXCEPT !.gate = "closed", !.handle = FALSE]
            ELSE Acknowledged(p, FALSE)
      [] phase = "Reactivate" -> Reactivated(p)
      [] OTHER -> Acknowledged(p, FALSE)

Turn(p, disk, ok) ==
    IF p.startup = "fresh" THEN AdoptFirst(p, disk, ok) ELSE ServeRequest(p, ok)

\* The endpoint closes before the process is gone: control is dropped when the
\* runtime has failed, when run returns, and by the kernel on a crash.
HungUp(p) == Leaves([p EXCEPT !.linked = FALSE])
=============================================================================
