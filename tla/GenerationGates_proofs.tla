---------------------- MODULE GenerationGates_proofs ----------------------
(***************************************************************************)
(* Proofs about the generations of direct mode and the accept gate that     *)
(* each of them has.                                                        *)
(*                                                                          *)
(* AcceptGate, for any number of listeners, sessions, connections and       *)
(* controllers: the inductive invariant GateIInv says what the parts of the *)
(* gate know of each other, that is who owns a claim, how old a close and a *)
(* publication can be, and what wait and drain have established.            *)
(*                                                                          *)
(* Generations, for any number of identities, revisions and management      *)
(* threads, and with no bound on edits, calls and faults: the inductive     *)
(* invariant IInv says whose the start reservation is and what an           *)
(* activation may count on between the three times it takes the lock.       *)
(***************************************************************************)
EXTENDS AcceptGate, Generations, TLAPS

-----------------------------------------------------------------------------
(* The accept gate *)

\* Nothing has been read that the gate has not published.
ViewsBounded ==
    /\ watch.epoch <= gate.epoch
    /\ \A l \in Listeners : view[l].epoch <= gate.epoch

\* The claims counted are the tasks between claim and release.
OwnersCounted == claims = {t \in Tasks : pc[t] \in {"accepting", "releasing"}}

Holding == {"closing", "waiting", "quiesced", "late", "scanning", "drained"}

\* A close is no newer than the gate, and the close in force means closed.
ClosesOrdered ==
    \A c \in Controllers :
        /\ ctl[c].pc \in Holding =>
              /\ 0 < ctl[c].epoch /\ ctl[c].epoch <= gate.epoch
              /\ Current(c) => ~gate.accepting
        /\ ctl[c].allowed => ctl[c].pc \in Holding

\* A publication under way is no newer than the gate; the newest state is on the
\* watch channel or on its way there.
PublicationsOrdered ==
    /\ \A c \in Controllers :
          ctl[c].pc \in {"opening", "closing"} =>
             /\ ctl[c].state.epoch <= gate.epoch
             /\ ctl[c].state.epoch = gate.epoch => ctl[c].state = gate
    /\ watch.epoch = gate.epoch => watch = gate
    /\ \/ watch = gate
       \/ \E c \in Controllers : ctl[c].pc \in {"opening", "closing"} /\ ctl[c].state = gate

\* What wait has established.
ClaimsReturned ==
    \A c \in Controllers :
        ctl[c].pc \in {"quiesced", "scanning", "drained"} /\ Current(c) => claims = {}

Released(kind) == IF kind = "owned" THEN owned = {} ELSE \A s \in Sessions : ref[s] # "held"

\* What drained() has established so far.
KindsReleased ==
    \A c \in Controllers :
        /\ ctl[c].pc = "drained" => ctl[c].unread = {}
        /\ ctl[c].pc \in {"scanning", "drained"} /\ Current(c) =>
              \A kind \in Kinds \ ctl[c].unread : Released(kind)

GateIInv ==
    /\ GateTypeOK /\ ViewsBounded /\ OwnersCounted /\ ClosesOrdered /\ PublicationsOrdered
    /\ ClaimsReturned /\ KindsReleased

-----------------------------------------------------------------------------
LEMMA UnreadState == Unread \in States /\ Unread.epoch = 0
  BY GateAssumption DEF Unread, State, States

LEMMA InitGateIInv == GateInit => GateIInv
<1> SUFFICES ASSUME GateInit PROVE GateIInv
  OBVIOUS
<1>1. GateTypeOK
  BY GateAssumption DEF GateInit, GateTypeOK, States, State, Unread, Controls, IdleControl,
     ListenerPlaces, Unregistered, Kinds
<1>2. ViewsBounded /\ OwnersCounted
  BY GateAssumption DEF GateInit, ViewsBounded, OwnersCounted, State, Unread, Listeners
<1>3. ClosesOrdered /\ PublicationsOrdered /\ ClaimsReturned /\ KindsReleased
  BY DEF GateInit, ClosesOrdered, PublicationsOrdered, ClaimsReturned, KindsReleased,
         IdleControl, Holding
<1> QED
  BY <1>1, <1>2, <1>3 DEF GateIInv

-----------------------------------------------------------------------------
(* Listeners *)

\* A listener leaves the gate, the watch channel, the sessions and the controllers
\* alone; what it must show is that nobody enters a gate that wait found idle.
LEMMA ListenerFrame ==
    ASSUME GateIInv, UNCHANGED <<gate, watch, ref, ctl>>,
           GateTypeOK', ViewsBounded', OwnersCounted',
           gate.accepting \/ claims' \subseteq claims,
           claims # {} \/ owned' = owned
    PROVE  GateIInv'
<1>1. ClosesOrdered'
  BY DEF GateIInv, ClosesOrdered, Current
<1>2. PublicationsOrdered'
  BY DEF GateIInv, PublicationsOrdered
<1>3. ClaimsReturned'
  BY DEF GateIInv, ClaimsReturned, ClosesOrdered, Current, Holding
<1>4. KindsReleased'
  BY DEF GateIInv, KindsReleased, ClaimsReturned, Current, Released
<1> QED
  BY <1>1, <1>2, <1>3, <1>4 DEF GateIInv

LEMMA ListenerStepPreserves ==
    ASSUME GateIInv, NEW l \in Listeners, ListenerStep(l)
    PROVE  GateIInv'
<1> USE GateAssumption
<1>0. GateTypeOK /\ ViewsBounded /\ OwnersCounted
  BY DEF GateIInv
<1>1. CASE Register(l)
  <2>1. GateTypeOK'
    BY <1>0, <1>1 DEF Register, Goes, GateTypeOK, States, ListenerPlaces, Unregistered
  <2>2. ViewsBounded' /\ OwnersCounted'
    BY <1>0, <1>1 DEF Register, Goes, GateTypeOK, ViewsBounded, OwnersCounted, Listeners
  <2> QED
    BY <1>1, <2>1, <2>2, ListenerFrame DEF Register
<1>2. CASE Subscribe(l)
  <2>1. GateTypeOK'
    BY <1>0, <1>2 DEF Subscribe, Goes, GateTypeOK, States, ListenerPlaces
  <2>2. ViewsBounded' /\ OwnersCounted'
    BY <1>0, <1>2 DEF Subscribe, Goes, GateTypeOK, ViewsBounded, OwnersCounted, Listeners
  <2> QED
    BY <1>2, <2>1, <2>2, ListenerFrame DEF Subscribe
<1>3. CASE Leave(l)
  <2>1. GateTypeOK'
    BY <1>0, <1>3, UnreadState DEF Leave, Drop, Goes, GateTypeOK, States, ListenerPlaces
  <2>2. ViewsBounded' /\ OwnersCounted'
    BY <1>0, <1>3, UnreadState DEF Leave, Drop, Goes, GateTypeOK, ViewsBounded, OwnersCounted,
       Listeners, States
  <2> QED
    BY <1>3, <2>1, <2>2, ListenerFrame DEF Leave, Drop
<1> QED
  BY <1>1, <1>2, <1>3 DEF ListenerStep

LEMMA TaskStepPreserves ==
    ASSUME GateIInv, NEW t \in Tasks, TaskStep(t)
    PROVE  GateIInv'
<1> USE GateAssumption
<1>0. GateTypeOK /\ ViewsBounded /\ OwnersCounted /\ t \in Listeners
  BY DEF GateIInv, Listeners
<1>1. CASE Look(t)
  <2>1. GateTypeOK'
    BY <1>0, <1>1 DEF Look, Goes, GateTypeOK, ViewsBounded, States, ListenerPlaces, Unregistered
  <2>2. ViewsBounded' /\ OwnersCounted'
    BY <1>0, <1>1 DEF Look, Goes, GateTypeOK, ViewsBounded, OwnersCounted, Listeners
  <2> QED
    BY <1>1, <2>1, <2>2, ListenerFrame DEF Look
<1>2. CASE Wake(t)
  <2>1. GateTypeOK'
    BY <1>0, <1>2 DEF Wake, Goes, GateTypeOK, ViewsBounded, States, ListenerPlaces, Unregistered
  <2>2. ViewsBounded' /\ OwnersCounted'
    BY <1>0, <1>2 DEF Wake, Goes, GateTypeOK, ViewsBounded, OwnersCounted, Listeners
  <2> QED
    BY <1>2, <2>1, <2>2, ListenerFrame DEF Wake
<1>3. CASE Claim(t)
  <2>1. GateTypeOK'
    BY <1>0, <1>3, UnreadState DEF Claim, Goes, GateTypeOK, ViewsBounded, States, ListenerPlaces,
       Unregistered
  <2>2. ViewsBounded' /\ OwnersCounted'
    BY <1>0, <1>3, UnreadState DEF Claim, Goes, GateTypeOK, ViewsBounded, OwnersCounted, Listeners,
       States
  <2> QED
    BY <1>3, <2>1, <2>2, ListenerFrame DEF Claim
<1>4. CASE Admit(t)
  <2>1. GateTypeOK'
    BY <1>0, <1>4 DEF Admit, Goes, GateTypeOK, ViewsBounded, States, ListenerPlaces, Unregistered
  <2>2. ViewsBounded' /\ OwnersCounted'
    BY <1>0, <1>4 DEF Admit, Goes, GateTypeOK, ViewsBounded, OwnersCounted, Listeners
  <2> QED
    BY <1>0, <1>4, <2>1, <2>2, ListenerFrame DEF Admit, OwnersCounted
<1>5. CASE Interrupt(t)
  <2>1. GateTypeOK'
    BY <1>0, <1>5 DEF Interrupt, Goes, GateTypeOK, ViewsBounded, States, ListenerPlaces, Unregistered
  <2>2. ViewsBounded' /\ OwnersCounted'
    BY <1>0, <1>5 DEF Interrupt, Goes, GateTypeOK, ViewsBounded, OwnersCounted, Listeners
  <2> QED
    BY <1>5, <2>1, <2>2, ListenerFrame DEF Interrupt
<1>6. CASE Release(t)
  <2>1. GateTypeOK'
    BY <1>0, <1>6, UnreadState DEF Release, Goes, GateTypeOK, ViewsBounded, States, ListenerPlaces,
       Unregistered
  <2>2. ViewsBounded' /\ OwnersCounted'
    BY <1>0, <1>6, UnreadState DEF Release, Goes, GateTypeOK, ViewsBounded, OwnersCounted, Listeners,
       States
  <2> QED
    BY <1>6, <2>1, <2>2, ListenerFrame DEF Release
<1>7. CASE Quit(t)
  <2>1. GateTypeOK'
    BY <1>0, <1>7, UnreadState DEF Quit, Goes, GateTypeOK, ViewsBounded, States, ListenerPlaces,
       Unregistered
  <2>2. ViewsBounded' /\ OwnersCounted'
    BY <1>0, <1>7, UnreadState DEF Quit, Goes, GateTypeOK, ViewsBounded, OwnersCounted, Listeners,
       States
  <2> QED
    BY <1>7, <2>1, <2>2, ListenerFrame DEF Quit
<1>8. CASE Acknowledge(t)
  <2>1. GateTypeOK'
    BY <1>0, <1>8, UnreadState DEF Acknowledge, Acknowledged, Goes, GateTypeOK, ViewsBounded, States,
       ListenerPlaces,
       Unregistered
  <2>2. ViewsBounded' /\ OwnersCounted'
    BY <1>0, <1>8, UnreadState DEF Acknowledge, Goes, GateTypeOK, ViewsBounded, OwnersCounted,
       Listeners, States
  <2> QED
    BY <1>8, <2>1, <2>2, ListenerFrame DEF Acknowledge
<1> QED
  BY <1>1, <1>2, <1>3, <1>4, <1>5, <1>6, <1>7, <1>8 DEF TaskStep

LEMMA EndpointStepPreserves ==
    ASSUME GateIInv, NEW e \in Endpoints, EndpointStep(e)
    PROVE  GateIInv'
<1> USE GateAssumption
<1>0. GateTypeOK /\ ViewsBounded /\ OwnersCounted /\ e \in Listeners
  BY DEF GateIInv, Listeners
<1>1. CASE FirstLook(e)
  <2>1. GateTypeOK'
    BY <1>0, <1>1 DEF FirstLook, Goes, GateTypeOK, ViewsBounded, States, ListenerPlaces
  <2>2. ViewsBounded' /\ OwnersCounted'
    BY <1>0, <1>1 DEF FirstLook, Goes, GateTypeOK, ViewsBounded, OwnersCounted, Listeners
  <2> QED
    BY <1>1, <2>1, <2>2, ListenerFrame DEF FirstLook
<1>2. CASE Changed(e)
  <2>1. GateTypeOK'
    BY <1>0, <1>2 DEF Changed, Goes, GateTypeOK, ViewsBounded, States, ListenerPlaces, Unregistered
  <2>2. ViewsBounded' /\ OwnersCounted'
    BY <1>0, <1>2 DEF Changed, Goes, GateTypeOK, ViewsBounded, OwnersCounted, Listeners
  <2> QED
    BY <1>2, <2>1, <2>2, ListenerFrame DEF Changed
<1>3. CASE Note(e)
  <2>1. GateTypeOK'
    BY <1>0, <1>3 DEF Note, Acknowledged, Goes, GateTypeOK, ViewsBounded, States, ListenerPlaces,
       Unregistered
  <2>2. ViewsBounded' /\ OwnersCounted'
    BY <1>0, <1>3 DEF Note, Goes, GateTypeOK, ViewsBounded, OwnersCounted, Listeners
  <2> QED
    BY <1>3, <2>1, <2>2, ListenerFrame DEF Note
<1>4. CASE Finish(e)
  <2>1. GateTypeOK'
    BY <1>0, <1>4, UnreadState DEF Finish, Drop, Goes, GateTypeOK, ViewsBounded, States,
       ListenerPlaces, Unregistered
  <2>2. ViewsBounded' /\ OwnersCounted'
    BY <1>0, <1>4, UnreadState DEF Finish, Drop, Goes, GateTypeOK, ViewsBounded, OwnersCounted,
       Listeners, States
  <2> QED
    BY <1>4, <2>1, <2>2, ListenerFrame DEF Finish, Drop
<1>5. CASE QuitEndpoint(e)
  <2>1. GateTypeOK'
    BY <1>0, <1>5 DEF QuitEndpoint, Acknowledged, Goes, GateTypeOK, ViewsBounded, States,
       ListenerPlaces,
       Unregistered
  <2>2. ViewsBounded' /\ OwnersCounted'
    BY <1>0, <1>5 DEF QuitEndpoint, Goes, GateTypeOK, ViewsBounded, OwnersCounted, Listeners
  <2> QED
    BY <1>5, <2>1, <2>2, ListenerFrame DEF QuitEndpoint
<1> QED
  BY <1>1, <1>2, <1>3, <1>4, <1>5 DEF EndpointStep

-----------------------------------------------------------------------------
(* References *)

LEMMA SessionStepPreserves ==
    ASSUME GateIInv, NEW s \in Sessions, SessionStep(s)
    PROVE  GateIInv'
<1>1. UNCHANGED refOnly
  BY DEF SessionStep, CheckOpen, CountReference, CheckAgain, EndSession
<1>2. GateTypeOK'
  BY <1>1 DEF GateIInv, GateTypeOK, refOnly, listenerVars, SessionStep, CheckOpen, CountReference,
     CheckAgain, EndSession
<1>3. ViewsBounded' /\ OwnersCounted' /\ ClosesOrdered' /\ PublicationsOrdered' /\ ClaimsReturned'
  BY <1>1 DEF GateIInv, ViewsBounded, OwnersCounted, ClosesOrdered, PublicationsOrdered,
     ClaimsReturned,
     Current, refOnly, listenerVars
\* A session that holds a reference afterwards held it before, or the gate is open.
<1>4. gate.accepting \/ \A r \in Sessions : ref'[r] = "held" => ref[r] = "held"
  BY DEF GateIInv, GateTypeOK, SessionStep, CheckOpen, CountReference, CheckAgain, EndSession
<1>5. KindsReleased'
  BY <1>1, <1>4 DEF GateIInv, KindsReleased, Released, ClosesOrdered, Current, Holding, refOnly
<1> QED
  BY <1>2, <1>3, <1>5 DEF GateIInv

LEMMA EndConnectionPreserves ==
    ASSUME GateIInv, NEW conn \in Conns, EndConnection(conn)
    PROVE  GateIInv'
<1>1. UNCHANGED <<gate, listenerVars, watch, ref, ctl>> /\ owned' \subseteq owned
  BY DEF EndConnection
<1>2. GateTypeOK' /\ ViewsBounded' /\ OwnersCounted' /\ ClosesOrdered' /\ PublicationsOrdered'
      /\ ClaimsReturned'
  BY <1>1 DEF GateIInv, GateTypeOK, ViewsBounded, OwnersCounted, ClosesOrdered, PublicationsOrdered,
     ClaimsReturned, Current, listenerVars
<1>3. KindsReleased'
  BY <1>1 DEF GateIInv, KindsReleased, Released, Current
<1> QED
  BY <1>2, <1>3 DEF GateIInv

-----------------------------------------------------------------------------
(* Controllers *)

\* A transition raises the epoch by one; the close or the enable that makes it is
\* the newest there is.
LEMMA TransitionPreserves ==
    ASSUME GateIInv, NEW c \in Controllers, NEW state \in States, NEW next \in Controls,
           Transition(c, state, next), UNCHANGED <<listenerVars, watch, owned, ref>>,
           state.epoch = gate.epoch + 1,
           \/ next.pc = "opening" /\ ~next.allowed
           \/ next.pc = "closing" /\ next.epoch = state.epoch /\ ~state.accepting
    PROVE  GateIInv'
<1> DEFINE mine == [next EXCEPT !.state = state]
<1>0. GateTypeOK /\ ViewsBounded /\ OwnersCounted /\ ClosesOrdered /\ PublicationsOrdered
  BY DEF GateIInv
<1>1. mine \in Controls /\ mine.pc = next.pc /\ mine.epoch = next.epoch /\ mine.state = state
      /\ mine.allowed = next.allowed
  BY DEF Controls
<1>2. gate' = state /\ ctl' = [ctl EXCEPT ![c] = mine] /\ gate.epoch \in 0..MaxEpoch
  BY <1>0 DEF Transition, Control, GateTypeOK, States
<1> HIDE DEF mine
<1>3. ctl'[c] = mine /\ \A d \in Controllers : d # c => ctl'[d] = ctl[d]
  BY <1>0, <1>2 DEF GateTypeOK
<1>4. \A d \in Controllers : ctl[d] \in Controls
  BY <1>0 DEF GateTypeOK
<1>5. MaxEpoch \in Nat /\ gate.epoch \in Nat /\ gate'.epoch = gate.epoch + 1
  BY <1>2, GateAssumption
<1>6. GateTypeOK'
  BY <1>0, <1>1, <1>2, <1>5 DEF GateTypeOK, listenerVars, Unregistered
<1>7. ViewsBounded' /\ OwnersCounted'
  BY <1>0, <1>5 DEF ViewsBounded, OwnersCounted, listenerVars, GateTypeOK, States
<1>8. ClosesOrdered'
  BY <1>0, <1>1, <1>2, <1>3, <1>4, <1>5 DEF ClosesOrdered, Current, Holding, Controls
<1>9. PublicationsOrdered'
  <2>1. \A d \in Controllers :
           ctl'[d].pc \in {"opening", "closing"} =>
              ctl'[d].state.epoch <= gate'.epoch
              /\ (ctl'[d].state.epoch = gate'.epoch => ctl'[d].state = gate')
    BY <1>0, <1>1, <1>2, <1>3, <1>4, <1>5 DEF PublicationsOrdered, Controls, States
  <2>2. ctl'[c].pc \in {"opening", "closing"} /\ ctl'[c].state = gate'
    BY <1>1, <1>2, <1>3
  <2>3. watch'.epoch # gate'.epoch
    BY <1>0, <1>5 DEF ViewsBounded, GateTypeOK, States
  <2> QED
    BY <2>1, <2>2, <2>3 DEF PublicationsOrdered
\* Nobody's wait or drain was for this epoch.
<1>10. \A d \in Controllers :
          ctl'[d].pc \in {"quiesced", "scanning", "drained"} => d # c /\ ~Current(d)'
  BY <1>0, <1>1, <1>3, <1>4, <1>5 DEF ClosesOrdered, Current, Holding, Controls
<1>11. ClaimsReturned'
  BY <1>10 DEF ClaimsReturned
<1>12. KindsReleased'
  BY <1>3, <1>10 DEF KindsReleased, GateIInv
<1> QED
  BY <1>6, <1>7, <1>8, <1>9, <1>11, <1>12 DEF GateIInv

LEMMA IdleControlFacts ==
    /\ IdleControl \in Controls /\ IdleControl.pc = "idle"
    /\ IdleControl.allowed = FALSE /\ IdleControl.state \in States
<1>1. State(FALSE, 0) \in States /\ 0 \in 0..MaxEpoch /\ {} \in SUBSET Kinds
  BY GateAssumption DEF State, States
<1>2. IdleControl \in Controls
  BY <1>1 DEF IdleControl, Controls
<1>3. IdleControl.pc = "idle" /\ IdleControl.state = State(FALSE, 0)
  BY DEF IdleControl
<1>4. IdleControl.allowed = FALSE
  BY Zenon DEF IdleControl
<1> QED
  BY <1>1, <1>2, <1>3, <1>4

LEMMA EnablePreserves ==
    ASSUME GateIInv, NEW c \in Controllers, Enable(c)
    PROVE  GateIInv'
<1> DEFINE state == State(TRUE, gate.epoch + 1)
           next == [IdleControl EXCEPT !.pc = "opening"]
<1>1. gate.epoch \in 0..MaxEpoch /\ gate.epoch < MaxEpoch
  BY DEF Enable, Transition, GateIInv, GateTypeOK, States
<1>2. state \in States /\ state.epoch = gate.epoch + 1
  BY <1>1, GateAssumption DEF State, States
<1>3. next \in Controls /\ next.pc = "opening" /\ ~next.allowed
  BY IdleControlFacts DEF Controls
<1>4. Transition(c, state, next) /\ UNCHANGED <<listenerVars, watch, owned, ref>>
  BY DEF Enable
<1> HIDE DEF state, next
<1> QED
  BY <1>2, <1>3, <1>4, TransitionPreserves

LEMMA ReopenPreserves ==
    ASSUME GateIInv, NEW c \in Controllers, Reopen(c)
    PROVE  GateIInv'
<1> DEFINE state == State(TRUE, gate.epoch + 1)
           next == [IdleControl EXCEPT !.pc = "opening"]
<1>1. gate.epoch \in 0..MaxEpoch /\ gate.epoch < MaxEpoch
  BY DEF Reopen, Transition, GateIInv, GateTypeOK, States
<1>2. state \in States /\ state.epoch = gate.epoch + 1
  BY <1>1, GateAssumption DEF State, States
<1>3. next \in Controls /\ next.pc = "opening" /\ ~next.allowed
  BY IdleControlFacts DEF Controls
<1>4. Transition(c, state, next) /\ UNCHANGED <<listenerVars, watch, owned, ref>>
  BY DEF Reopen
<1> HIDE DEF state, next
<1> QED
  BY <1>2, <1>3, <1>4, TransitionPreserves

LEMMA ClosePreserves ==
    ASSUME GateIInv, NEW c \in Controllers, Close(c)
    PROVE  GateIInv'
<1> DEFINE state == State(FALSE, gate.epoch + 1)
           next == [IdleControl EXCEPT !.pc = "closing", !.epoch = gate.epoch + 1,
                                !.allowed = gate.accepting]
<1>1. gate.epoch \in 0..MaxEpoch /\ gate.epoch < MaxEpoch /\ gate.accepting \in BOOLEAN
  BY DEF Close, Transition, GateIInv, GateTypeOK, States
<1>2. state \in States /\ state.epoch = gate.epoch + 1 /\ ~state.accepting
  BY <1>1, GateAssumption DEF State, States
<1>3. next \in Controls /\ next.pc = "closing" /\ next.epoch = gate.epoch + 1
  <2>1. gate.epoch + 1 \in 0..MaxEpoch
    BY <1>1, GateAssumption
  <2> QED
    BY <1>1, <2>1, IdleControlFacts DEF Controls
<1>4. Transition(c, state, next) /\ UNCHANGED <<listenerVars, watch, owned, ref>>
  BY DEF Close
<1> HIDE DEF state, next
<1> QED
  BY <1>2, <1>3, <1>4, TransitionPreserves

\* A controller that leaves the gate and the watch channel alone and goes from
\* ctl[c] to next: what it must show is what next claims about the gate.
LEMMA ControlFrame ==
    ASSUME GateIInv, NEW c \in Controllers, NEW next \in Controls, Control(c, next),
           UNCHANGED <<gate, listenerVars, owned, ref>>,
           watch' \in States, watch'.epoch <= gate.epoch, PublicationsOrdered',
           next.pc \in Holding => ctl[c].pc \in Holding /\ next.epoch = ctl[c].epoch,
           next.allowed => next.pc \in Holding,
           next.pc \in {"quiesced", "scanning", "drained"} /\ gate.epoch = next.epoch =>
              claims = {},
           next.pc = "drained" => next.unread = {},
           next.pc \in {"scanning", "drained"} /\ gate.epoch = next.epoch =>
              \A kind \in Kinds \ next.unread : Released(kind)
    PROVE  GateIInv'
<1>1. ctl'[c] = next /\ \A d \in Controllers : d # c => ctl'[d] = ctl[d]
  BY DEF GateIInv, GateTypeOK, Control
<1>2. GateTypeOK'
  BY DEF GateIInv, GateTypeOK, Control, listenerVars
<1>3. ViewsBounded' /\ OwnersCounted'
  BY DEF GateIInv, ViewsBounded, OwnersCounted, listenerVars
<1>4. ClosesOrdered'
  BY <1>1 DEF GateIInv, ClosesOrdered, Current
<1>5. ClaimsReturned'
  BY <1>1 DEF GateIInv, ClaimsReturned, Current, listenerVars
<1>6. KindsReleased'
  BY <1>1 DEF GateIInv, KindsReleased, Current, Released
<1> QED
  BY <1>2, <1>3, <1>4, <1>5, <1>6 DEF GateIInv

\* A controller that is neither about to publish nor about to have something to
\* publish does not matter to the publications.
LEMMA PublicationsKept ==
    ASSUME GateIInv, NEW c \in Controllers, NEW next \in Controls, Control(c, next),
           UNCHANGED <<gate, watch>>,
           ctl[c].pc \notin {"opening", "closing"}, next.pc \notin {"opening", "closing"}
    PROVE  PublicationsOrdered' /\ watch' \in States /\ watch'.epoch <= gate.epoch
<1>1. ctl'[c] = next /\ \A d \in Controllers : d # c => ctl'[d] = ctl[d]
  BY DEF GateIInv, GateTypeOK, Control
<1>2. PublicationsOrdered'
  BY <1>1 DEF GateIInv, PublicationsOrdered
<1> QED
  BY <1>2 DEF GateIInv, GateTypeOK, ViewsBounded

LEMMA PublishPreserves ==
    ASSUME GateIInv, NEW c \in Controllers, Publish(c)
    PROVE  GateIInv'
<1> DEFINE next == IF ctl[c].pc = "closing"
                   THEN [ctl[c] EXCEPT !.pc = "waiting", !.state = IdleControl.state] ELSE IdleControl
<1>0. ctl[c] \in Controls /\ gate \in States /\ watch \in States /\ ctl[c].state \in States
      /\ gate.epoch \in Nat
  BY DEF GateIInv, GateTypeOK, Controls, States
<1>1. next \in Controls /\ next.pc \in {"waiting", "idle"} /\ (next.allowed => next.pc = "waiting")
      /\ (next.pc = "waiting" => ctl[c].pc = "closing" /\ next.epoch = ctl[c].epoch)
  BY <1>0, IdleControlFacts DEF Controls
<1>2. Control(c, next) /\ UNCHANGED <<gate, listenerVars, owned, ref>>
      /\ watch' = (IF ctl[c].state.epoch > watch.epoch THEN ctl[c].state ELSE watch)
      /\ ctl[c].pc \in {"opening", "closing"}
  BY DEF Publish
<1> HIDE DEF next
<1>3. ctl'[c] = next /\ \A d \in Controllers : d # c => ctl'[d] = ctl[d]
  BY <1>2 DEF GateIInv, GateTypeOK, Control
<1>4. watch' \in States /\ watch'.epoch <= gate.epoch
  BY <1>0, <1>2 DEF GateIInv, ViewsBounded, PublicationsOrdered
\* If this was the newest publication it is on the watch channel now, for no
\* older one has its epoch.
<1>5. PublicationsOrdered'
  <2>1. CASE watch = gate
    BY <1>0, <1>1, <1>2, <1>3, <2>1 DEF GateIInv, PublicationsOrdered, States
  <2>2. CASE ctl[c].state = gate
    BY <1>0, <1>1, <1>2, <1>3, <2>2 DEF GateIInv, PublicationsOrdered, ViewsBounded, States
  <2>3. CASE watch # gate /\ ctl[c].state # gate
    <3>1. PICK d \in Controllers : ctl[d].pc \in {"opening", "closing"} /\ ctl[d].state = gate
      BY <2>3 DEF GateIInv, PublicationsOrdered
    <3>2. d # c /\ ctl'[d].pc \in {"opening", "closing"} /\ ctl'[d].state = gate'
      BY <1>2, <1>3, <2>3, <3>1
    <3> QED
      BY <1>1, <1>2, <1>3, <3>2 DEF GateIInv, PublicationsOrdered
  <2> QED
    BY <2>1, <2>2, <2>3
<1> QED
  BY <1>1, <1>2, <1>4, <1>5, ControlFrame DEF Holding

LEMMA WaitPreserves ==
    ASSUME GateIInv, NEW c \in Controllers, Wait(c) \/ TimeOut(c) \/ Forget(c) \/ BeginDrain(c)
    PROVE  GateIInv'
<1>0. ctl[c] \in Controls
  BY DEF GateIInv, GateTypeOK
<1>1. CASE Wait(c)
  <2> DEFINE next == [ctl[c] EXCEPT !.pc = "quiesced"]
  <2>1. next \in Controls /\ next.pc = "quiesced" /\ next.epoch = ctl[c].epoch
    BY <1>0 DEF Controls
  <2>2. Control(c, next) /\ UNCHANGED <<gate, listenerVars, watch, owned, ref>>
        /\ ctl[c].pc = "waiting" /\ claims = {}
    BY <1>1 DEF Wait, Quiescent
  <2> HIDE DEF next
  <2>3. PublicationsOrdered' /\ watch' \in States /\ watch'.epoch <= gate.epoch
    BY <2>1, <2>2, PublicationsKept
  <2> QED
    BY <2>1, <2>2, <2>3, ControlFrame DEF Holding
<1>2. CASE TimeOut(c)
  <2> DEFINE next == [ctl[c] EXCEPT !.pc = "late"]
  <2>1. next \in Controls /\ next.pc = "late" /\ next.epoch = ctl[c].epoch
    BY <1>0 DEF Controls
  <2>2. Control(c, next) /\ UNCHANGED <<gate, listenerVars, watch, owned, ref>>
        /\ ctl[c].pc = "waiting"
    BY <1>2 DEF TimeOut
  <2> HIDE DEF next
  <2>3. PublicationsOrdered' /\ watch' \in States /\ watch'.epoch <= gate.epoch
    BY <2>1, <2>2, PublicationsKept
  <2> QED
    BY <2>1, <2>2, <2>3, ControlFrame DEF Holding
<1>3. CASE Forget(c)
  <2>1. IdleControl \in Controls /\ IdleControl.pc = "idle" /\ ~IdleControl.allowed
    BY IdleControlFacts
  <2>2. Control(c, IdleControl) /\ UNCHANGED <<gate, listenerVars, watch, owned, ref>>
        /\ ctl[c].pc \in {"quiesced", "late", "drained"}
    BY <1>3 DEF Forget
  <2>3. PublicationsOrdered' /\ watch' \in States /\ watch'.epoch <= gate.epoch
    BY <2>1, <2>2, PublicationsKept
  <2> QED
    BY <2>1, <2>2, <2>3, ControlFrame DEF Holding
<1>4. CASE BeginDrain(c)
  <2> DEFINE next == [ctl[c] EXCEPT !.pc = "scanning", !.allowed = FALSE, !.unread = Kinds]
  <2>1. next \in Controls /\ next.pc = "scanning" /\ next.epoch = ctl[c].epoch /\ ~next.allowed
        /\ next.unread = Kinds
    BY <1>0 DEF Controls
  <2>2. Control(c, next) /\ UNCHANGED <<gate, listenerVars, watch, owned, ref>>
        /\ ctl[c].pc = "quiesced"
    BY <1>4 DEF BeginDrain
  <2> HIDE DEF next
  <2>3. PublicationsOrdered' /\ watch' \in States /\ watch'.epoch <= gate.epoch
    BY <2>1, <2>2, PublicationsKept
  <2>4. gate.epoch = next.epoch => claims = {}
    BY <2>1, <2>2 DEF GateIInv, ClaimsReturned, Current
  <2> QED
    BY <2>1, <2>2, <2>3, <2>4, ControlFrame DEF Holding
<1> QED
  BY <1>1, <1>2, <1>3, <1>4

\* A counter that is read as zero stays released: nobody new enters while the
\* close is in force.
LEMMA ScanPreserves ==
    ASSUME GateIInv, NEW c \in Controllers, Scan(c)
    PROVE  GateIInv'
<1>0. ctl[c] \in Controls /\ ctl[c].pc = "scanning"
      /\ UNCHANGED <<gate, listenerVars, watch, owned, ref>>
  BY DEF Scan, GateIInv, GateTypeOK
<1>1. gate.epoch = ctl[c].epoch => claims = {} /\ \A kind \in Kinds \ ctl[c].unread : Released(kind)
  BY <1>0 DEF GateIInv, ClaimsReturned, KindsReleased, Current
<1>2. PICK kind \in ctl[c].unread :
         IF Empty(kind)
         THEN Control(c, [ctl[c] EXCEPT !.unread = @ \ {kind},
                                        !.pc = IF ctl[c].unread = {kind} THEN "drained" ELSE @])
         ELSE \/ Control(c, [ctl[c] EXCEPT !.unread = Kinds])
              \/ Control(c, IdleControl)
  BY DEF Scan
<1>3. CASE Empty(kind)
  <2> DEFINE next == [ctl[c] EXCEPT !.unread = @ \ {kind},
                                    !.pc = IF ctl[c].unread = {kind} THEN "drained" ELSE @]
  <2>1. next \in Controls /\ next.epoch = ctl[c].epoch /\ next.allowed = ctl[c].allowed
        /\ next.unread = ctl[c].unread \ {kind}
        /\ next.pc = IF ctl[c].unread = {kind} THEN "drained" ELSE "scanning"
    BY <1>0 DEF Controls
  <2>2. Control(c, next)
    BY <1>2, <1>3
  <2> HIDE DEF next
  <2>3. PublicationsOrdered' /\ watch' \in States /\ watch'.epoch <= gate.epoch
    BY <1>0, <2>1, <2>2, PublicationsKept
  <2>4. Released(kind)
    BY <1>3 DEF Empty, Released
  <2>5. gate.epoch = next.epoch => \A k \in Kinds \ next.unread : Released(k)
    BY <1>1, <2>1, <2>4
  <2>6. next.pc = "drained" => next.unread = {}
    BY <2>1
  <2>7. next.pc \in {"scanning", "drained"}
    BY <2>1
  <2>8. (next.pc \in Holding => ctl[c].pc \in Holding /\ next.epoch = ctl[c].epoch)
        /\ (next.allowed => next.pc \in Holding)
    BY <1>0, <2>1, <2>7 DEF Holding
  <2> QED
    BY <1>0, <1>1, <2>1, <2>2, <2>3, <2>5, <2>6, <2>7, <2>8, ControlFrame
<1>4. CASE Control(c, [ctl[c] EXCEPT !.unread = Kinds])
  <2> DEFINE next == [ctl[c] EXCEPT !.unread = Kinds]
  <2>1. next \in Controls /\ next.epoch = ctl[c].epoch /\ next.unread = Kinds
        /\ next.pc = "scanning"
    BY <1>0 DEF Controls
  <2>2. Control(c, next)
    BY <1>4
  <2> HIDE DEF next
  <2>3. PublicationsOrdered' /\ watch' \in States /\ watch'.epoch <= gate.epoch
    BY <1>0, <2>1, <2>2, PublicationsKept
  <2> QED
    BY <1>0, <1>1, <2>1, <2>2, <2>3, ControlFrame DEF Holding
<1>5. CASE Control(c, IdleControl)
  <2>1. IdleControl \in Controls /\ IdleControl.pc = "idle" /\ ~IdleControl.allowed
    BY IdleControlFacts
  <2>2. PublicationsOrdered' /\ watch' \in States /\ watch'.epoch <= gate.epoch
    BY <1>0, <1>5, <2>1, PublicationsKept
  <2> QED
    BY <1>0, <1>5, <2>1, <2>2, ControlFrame DEF Holding
<1> QED
  BY <1>2, <1>3, <1>4, <1>5

-----------------------------------------------------------------------------
LEMMA NextPreserves == GateIInv /\ [GateNext]_gateVars => GateIInv'
<1> SUFFICES ASSUME GateIInv, [GateNext]_gateVars PROVE GateIInv'
  OBVIOUS
<1>1. ASSUME NEW c \in Controllers, ControllerStep(c) PROVE GateIInv'
  BY <1>1, EnablePreserves, ClosePreserves, PublishPreserves, WaitPreserves, ReopenPreserves,
     ScanPreserves DEF ControllerStep
<1>2. CASE UNCHANGED gateVars
  BY <1>2 DEF gateVars, GateIInv, GateTypeOK, ViewsBounded, OwnersCounted, ClosesOrdered,
     PublicationsOrdered, ClaimsReturned, KindsReleased, Released, Current
<1> QED
  BY <1>1, <1>2, ListenerStepPreserves, TaskStepPreserves, EndpointStepPreserves,
     SessionStepPreserves, EndConnectionPreserves DEF GateNext

LEMMA Invariance == GateSpec => []GateIInv
<1> QED
  BY InitGateIInv, NextPreserves, PTL DEF GateSpec

\* The state keeps its shape and no participant acknowledges ahead of the gate.
THEOREM GateTypeCorrect == GateSpec => []GateTypeOK
<1>1. GateIInv => GateTypeOK
  BY DEF GateIInv
<1> QED
  BY <1>1, Invariance, PTL

\* However listeners, sessions and controllers interleave: once wait has returned
\* true for the close in force, no accept loop owns the listening socket.
THEOREM QuiescenceExcludesOwners == GateSpec => []QuiescedExcludesOwners
<1>1. GateIInv => QuiescedExcludesOwners
  BY DEF GateIInv, QuiescedExcludesOwners, ClaimsReturned, OwnersCounted
<1> QED
  BY <1>1, Invariance, PTL

\* Once drain has returned true under the close in force, no reference is held,
\* although its counters are read one after the other and begin_reference counts
\* before it looks at the gate again.
THEOREM DrainMeansIdle == GateSpec => []DrainedMeansIdle
<1>1. GateIInv => DrainedMeansIdle
  BY DEF GateIInv, DrainedMeansIdle, KindsReleased, Kinds, Released
<1> QED
  BY <1>1, Invariance, PTL

\* In whatever order the transitions are published, the watch channel ends up with
\* the newest.
THEOREM WatchAlwaysFollows == GateSpec => []WatchFollowsGate
<1>1. GateIInv => WatchFollowsGate
  BY DEF GateIInv, WatchFollowsGate, PublicationsOrdered
<1> QED
  BY <1>1, Invariance, PTL

\* No sequence of enables, closes and reopens opens a gate that was left closed.
THEOREM StoppedStaysStopped == GateSpec => StoppedForGood
<1>1. GateIInv /\ [GateNext]_gateVars => [Stopped => Stopped']_gateVars
  <2> SUFFICES ASSUME GateIInv, GateNext, Stopped PROVE Stopped'
    BY DEF Stopped, Current, gateVars
  <2>0. GateTypeOK /\ ClosesOrdered /\ gate.epoch \in Nat /\ ~gate.accepting /\ gate.epoch > 0
        /\ \A d \in Controllers : ~(ctl[d].allowed /\ gate.epoch = ctl[d].epoch)
    BY DEF GateIInv, GateTypeOK, States, Stopped, Current
  <2>1. CASE UNCHANGED <<gate, ctl>>
    BY <2>1 DEF Stopped, Current
  <2>2. ASSUME NEW c \in Controllers, ControllerStep(c) PROVE Stopped'
    <3>0. ctl[c] \in Controls /\ \A d \in Controllers : ctl[d].epoch \in 0..MaxEpoch
      BY <2>0 DEF GateTypeOK, Controls
    <3>1. CASE Close(c)
      BY <2>0, <3>0, <3>1, GateAssumption
      DEF Close, Transition, Control, GateTypeOK, Stopped, Current, State, IdleControl, ClosesOrdered,
         Holding
    <3>2. ~Enable(c)
      <4>1. gate.epoch # 0
        BY <2>0
      <4> QED
        BY <4>1, Zenon DEF Enable
    <3>3. ~Reopen(c)
      BY <2>0, Zenon DEF Reopen
    \* A step that changes no gate gives nobody a close that may reopen it.
    <3>4. ASSUME UNCHANGED gate,
                 NEW next \in Controls, Control(c, next),
                 next.allowed => ctl[c].allowed /\ next.epoch = ctl[c].epoch
          PROVE  Stopped'
      BY <2>0, <3>4 DEF Control, GateTypeOK, Stopped, Current
    <3>5. ~IdleControl.allowed /\ IdleControl \in Controls
      BY IdleControlFacts
    <3>6. CASE Publish(c)
      BY <3>0, <3>4, <3>5, <3>6 DEF Publish, Controls, IdleControl
    <3>7. CASE Wait(c) \/ TimeOut(c) \/ Forget(c) \/ BeginDrain(c)
      BY <3>0, <3>4, <3>5, <3>7 DEF Wait, TimeOut, Forget, BeginDrain, Controls
    <3>8. CASE Scan(c)
      BY <3>0, <3>4, <3>5, <3>8 DEF Scan, Controls
    <3> QED
      BY <2>2, <3>1, <3>2, <3>3, <3>6, <3>7, <3>8 DEF ControllerStep
  <2> QED
    BY <2>1, <2>2 DEF GateNext, ListenerStep, TaskStep, EndpointStep, SessionStep, Register,
       Subscribe,
       Leave, Look, Wake, Claim, Admit, Interrupt, Release, Quit, Acknowledge, FirstLook, Changed,
       Note, Finish, QuitEndpoint, CheckOpen, CountReference, CheckAgain, EndSession,
       EndConnection, Drop, refOnly
<1> QED
  BY <1>1, Invariance, PTL DEF GateSpec, StoppedForGood

-----------------------------------------------------------------------------
(* The generations *)

\* What a thread has in hand: the document it prepares, and, for a management
\* call, its permit.
HandsFull ==
    /\ \A p \in Callers : thr[p].pc \in {"loaded", "decide", "prepare", "preparing"} =>
                             thr[p].doc \in Revisions
    /\ \A p \in Api : thr[p].pc # "idle" => thr[p].gen # None

\* Places of the supervisor that have a candidate in hand.
Starting == {"claim", "spawn", "setup", "ready", "reserve"}

Activating == {"close", "wait", "publish"}

\* The active generation is the current process, and neither the candidate nor a
\* retired process.
RolesApart ==
    /\ sup.current = st.active
    /\ sup.cand # st.active /\ st.candidate # st.active
    /\ sup.cand \notin sup.retired /\ st.candidate \notin sup.retired
    /\ ~st.shutting => st.active \notin sup.retired
    /\ sup.pc \in Starting \cup Activating \cup {"begin", "quarantine", "drop", "abandon"} =>
          sup.cand \in Ids
    /\ sup.pc \in {"loop", "stopping", "closing", "done"} => sup.cand = None

\* The start reservation is the supervisor's, and says how far it has come.
ReservationOwned ==
    /\ sup.pc = "claim" => st.starting = [gen |-> sup.cand, phase |-> "starting"]
    /\ sup.pc \in {"spawn", "setup", "ready", "reserve"} =>
          st.starting = [gen |-> sup.cand, phase |-> "runtime_owned"]
    /\ sup.pc \in {"quarantine", "drop"} =>
          st.starting \in {NoStart, [gen |-> sup.cand, phase |-> "runtime_owned"]}
    /\ sup.pc \in Activating => st.starting = [gen |-> sup.cand, phase |-> "activating"]
    /\ sup.pc \in {"loop", "begin", "abandon", "stopping", "closing", "done"} =>
          st.starting = NoStart

\* Nothing is prepared once the manager shuts down.
PreparationsEnd == operation # None => ~st.shutting

\* Only an active generation is drained.
CandidatesUndrained ==
    \A g \in {sup.cand, st.candidate} \cap Ids : ~gens[g].drained

\* What an activation knows between its three parts.
ActivationHolds ==
    /\ sup.pc \in Activating =>
          /\ sup.prev = st.active
          /\ gens[sup.cand].life = "started" \/ gens[sup.cand].failed
    /\ sup.pc \in {"wait", "publish"} =>
          /\ ~gens[st.active].accepting
          /\ gens[st.active].mover = "activation"
          /\ sup.reopen = ~gens[st.active].drained

IInv ==
    /\ TypeOK /\ HandsFull /\ RolesApart /\ ReservationOwned /\ PreparationsEnd
    /\ CandidatesUndrained /\ ActivationHolds
    /\ OneGenerationAccepts /\ PermitPinsActive /\ ActiveServesUnlessDrained
    /\ PublishedRuntimeIsLive

-----------------------------------------------------------------------------
LEMMA InitIInv == Init => IInv
<1> SUFFICES ASSUME Init PROVE IInv
  OBVIOUS
<1> USE GenerationsAssumption
<1> DEFINE g == CHOOSE i \in Ids : TRUE
<1>1. g \in Ids
  OBVIOUS
<1>2. TypeOK
  BY <1>1 DEF Init, TypeOK, RuntimeGenerations, GenerationStates, Threads, Supervisors,
     Prepared, NoStart, Idle, Phases, Callers
<1>3. HandsFull /\ RolesApart /\ PreparationsEnd
  BY <1>1 DEF Init, HandsFull, RolesApart, PreparationsEnd, Idle, Callers, Starting, Activating
<1>4. ReservationOwned /\ CandidatesUndrained /\ ActivationHolds
  BY <1>1 DEF Init, ReservationOwned, CandidatesUndrained, ActivationHolds, Activating, NoStart
<1>5. OneGenerationAccepts /\ PermitPinsActive
  BY <1>1 DEF Init, OneGenerationAccepts, PermitPinsActive, Prepared, Idle, Callers
<1>6. ActiveServesUnlessDrained /\ PublishedRuntimeIsLive
  BY <1>1 DEF Init, ActiveServesUnlessDrained, PublishedRuntimeIsLive, Prepared
<1> QED
  BY <1>2, <1>3, <1>4, <1>5, <1>6 DEF IInv

-----------------------------------------------------------------------------
(* The watcher and the management calls *)

\* A thread that leaves the generations, the manager and the supervisor alone.
LEMMA ThreadFrame ==
    ASSUME IInv, UNCHANGED <<gens, st, sup>>,
           TypeOK', HandsFull', PreparationsEnd', PermitPinsActive'
    PROVE  IInv'
<1>1. RolesApart' /\ ReservationOwned' /\ CandidatesUndrained' /\ ActivationHolds'
  BY DEF IInv, RolesApart, ReservationOwned, CandidatesUndrained, ActivationHolds
<1>2. OneGenerationAccepts' /\ ActiveServesUnlessDrained' /\ PublishedRuntimeIsLive'
  BY DEF IInv, OneGenerationAccepts, ActiveServesUnlessDrained, PublishedRuntimeIsLive
<1> QED
  BY <1>1, <1>2 DEF IInv

\* What the thread p becomes: it has what it needs in hand and no new permit.
Carries(p, t) ==
    /\ t \in Threads
    /\ t.pc \in {"loaded", "decide", "prepare", "preparing"} => t.doc \in Revisions
    /\ p \in Api /\ t.pc # "idle" => t.gen # None
    /\ t.gen \in {None, thr[p].gen}

LEMMA ThreadMoves ==
    ASSUME IInv, NEW p \in Callers, NEW t, Carries(p, t), thr' = [thr EXCEPT ![p] = t],
           st' = st
    PROVE  /\ thr' \in [Callers -> Threads]
           /\ HandsFull' /\ PermitPinsActive'
<1>1. thr \in [Callers -> Threads]
  BY DEF IInv, TypeOK
<1>2. HandsFull'
  BY <1>1 DEF IInv, HandsFull, Carries, Threads
<1>3. PermitPinsActive'
  BY <1>1 DEF IInv, PermitPinsActive, Carries, Threads
<1> QED
  BY <1>1, <1>2, <1>3 DEF Carries

LEMMA WatcherReads ==
    ASSUME IInv, WatcherLoad \/ WatcherStatus \/ WatcherDecide
    PROVE  IInv'
<1> USE GenerationsAssumption
<1>0. TypeOK /\ Watcher \in Callers /\ thr[Watcher] \in Threads /\ HandsFull
  BY DEF IInv, TypeOK, Callers
<1>1. CASE WatcherLoad
  <2> DEFINE t == [Idle EXCEPT !.pc = "loaded", !.doc = disk]
  <2>1. Carries(Watcher, t)
    BY <1>0, <1>1 DEF Carries, TypeOK, WatcherLoad, Threads, Idle
  <2>2. thr' \in [Callers -> Threads] /\ HandsFull' /\ PermitPinsActive'
    BY <1>0, <1>1, <2>1, ThreadMoves DEF WatcherLoad
  <2> QED
    BY <1>0, <1>1, <2>2, ThreadFrame DEF WatcherLoad, TypeOK, PreparationsEnd, IInv
<1>2. CASE WatcherStatus
  <2> DEFINE t == [thr[Watcher] EXCEPT !.pc = "decide", !.seen = Known]
  <2>1. Known \in SUBSET (Revisions \cup {None})
    BY <1>0 DEF Known, TypeOK, RuntimeGenerations, GenerationStates
  <2>2. Carries(Watcher, t)
    BY <1>0, <1>2, <2>1 DEF Carries, WatcherStatus, Threads, HandsFull
  <2>3. thr' = [thr EXCEPT ![Watcher] = t]
    BY <1>0, <1>2 DEF WatcherStatus, TypeOK, Threads
  <2>4. thr' \in [Callers -> Threads] /\ HandsFull' /\ PermitPinsActive'
    BY <1>0, <1>2, <2>2, <2>3, ThreadMoves DEF WatcherStatus
  <2> QED
    BY <1>0, <1>2, <2>4, ThreadFrame DEF WatcherStatus, TypeOK, PreparationsEnd, IInv
<1>3. CASE WatcherDecide
  <2> DEFINE doc == thr[Watcher].doc
             skip == doc \in thr[Watcher].seen \/ <<gens[st.active].rev, doc>> \in Restart
             t == IF skip THEN Idle ELSE [Idle EXCEPT !.pc = "prepare", !.doc = doc]
  <2>1. Carries(Watcher, t)
    BY <1>0, <1>3 DEF Carries, WatcherDecide, Threads, HandsFull, Idle
  <2>2. thr' \in [Callers -> Threads] /\ HandsFull' /\ PermitPinsActive'
    BY <1>0, <1>3, <2>1, ThreadMoves DEF WatcherDecide
  <2> QED
    BY <1>0, <1>3, <2>2, ThreadFrame DEF WatcherDecide, TypeOK, PreparationsEnd, IInv
<1> QED
  BY <1>1, <1>2, <1>3

LEMMA BeginPreparePreserves ==
    ASSUME IInv, NEW p \in Callers, NEW after, Carries(p, after), BeginPrepare(p, after)
    PROVE  IInv'
<1> USE GenerationsAssumption
<1>0. TypeOK /\ thr[p] \in Threads /\ HandsFull /\ PreparationsEnd /\ p # None
  BY DEF IInv, TypeOK, Callers, Watcher, Supervisor, None
<1>1. left' \in [edits : Nat, calls : Nat, faults : Nat]
  BY <1>0 DEF BeginPrepare, Fault, TypeOK
<1>2. operation' \in Callers \cup {None} /\ PreparationsEnd'
  BY <1>0 DEF BeginPrepare, TypeOK, PreparationsEnd
<1>3. thr' \in [Callers -> Threads] /\ HandsFull' /\ PermitPinsActive'
  <2> DEFINE t == [thr[p] EXCEPT !.pc = "preparing"]
  <2>1. Carries(p, t)
    BY <1>0 DEF Carries, BeginPrepare, Threads, HandsFull
  <2>2. thr' = [thr EXCEPT ![p] = t] \/ thr' = [thr EXCEPT ![p] = after]
    BY <1>0 DEF BeginPrepare, TypeOK, Threads
  <2> QED
    BY <1>0, <2>1, <2>2, ThreadMoves DEF BeginPrepare
<1> QED
  BY <1>0, <1>1, <1>2, <1>3, ThreadFrame DEF BeginPrepare, TypeOK

LEMMA EndPreparePreserves ==
    ASSUME IInv, NEW p \in Callers, NEW after, Carries(p, after), EndPrepare(p, after)
    PROVE  IInv'
<1> USE GenerationsAssumption
<1>0. TypeOK /\ HandsFull /\ PreparationsEnd /\ PermitPinsActive /\ p # None /\ p \in Callers
  BY DEF IInv, TypeOK, Callers, Watcher, Supervisor, None
<1>1. thr[p].doc \in Revisions /\ ~st.shutting
  BY <1>0 DEF EndPrepare, HandsFull, PreparationsEnd
<1>2. thr' \in [Callers -> Threads]
  BY <1>0 DEF EndPrepare, Carries, TypeOK
<1>3. left' \in [edits : Nat, calls : Nat, faults : Nat]
  BY <1>0 DEF EndPrepare, Fault, TypeOK
<1>4. st.starting' = st.starting /\ st.active' = st.active /\ st.shutting' = st.shutting
  BY <1>0 DEF EndPrepare, TypeOK, GenerationStates
<1>5. HandsFull' /\ PermitPinsActive' /\ PreparationsEnd'
  BY <1>0, <1>2, <1>4 DEF EndPrepare, HandsFull, PermitPinsActive, PreparationsEnd, Carries,
     TypeOK, Threads
<1>6. CASE st.candidate' = st.candidate /\ gens' = gens /\ st' \in GenerationStates
  <2>1. TypeOK'
    BY <1>0, <1>2, <1>3, <1>6 DEF EndPrepare, TypeOK
  <2>2. RolesApart' /\ ReservationOwned' /\ CandidatesUndrained' /\ ActivationHolds'
    BY <1>4, <1>6 DEF IInv, EndPrepare, RolesApart, ReservationOwned, CandidatesUndrained,
       ActivationHolds
  <2>3. OneGenerationAccepts' /\ ActiveServesUnlessDrained' /\ PublishedRuntimeIsLive'
    BY <1>4, <1>6 DEF IInv, EndPrepare, OneGenerationAccepts, ActiveServesUnlessDrained,
       PublishedRuntimeIsLive
  <2> QED
    BY <1>5, <2>1, <2>2, <2>3 DEF IInv
<1>7. CASE /\ Free # {}
           /\ gens' = [gens EXCEPT ![CHOOSE i \in Free : TRUE] = Prepared(thr[p].doc)]
           /\ st' = [st EXCEPT !.candidate = CHOOSE i \in Free : TRUE, !.quarantined = None]
  <2> DEFINE g == CHOOSE i \in Free : TRUE
  <2> HIDE DEF g
  <2>1. g \in Free
    BY <1>7 DEF g
  <2>2. /\ g \in Ids /\ g # st.active /\ g # sup.cand /\ g # sup.prev /\ g \notin sup.retired
        /\ gens' = [gens EXCEPT ![g] = Prepared(thr[p].doc)]
        /\ st' = [st EXCEPT !.candidate = g, !.quarantined = None]
    BY <1>7, <2>1 DEF g, Free, Held
  <2>3. TypeOK'
    BY <1>0, <1>1, <1>2, <1>3, <2>2 DEF EndPrepare, TypeOK, RuntimeGenerations, GenerationStates,
       Prepared
  <2>4. RolesApart' /\ ReservationOwned'
    BY <1>0, <1>4, <2>2 DEF IInv, EndPrepare, RolesApart, ReservationOwned, TypeOK,
       GenerationStates
  <2>5. CandidatesUndrained' /\ ActivationHolds'
    BY <1>0, <1>4, <2>2 DEF IInv, EndPrepare, RolesApart, CandidatesUndrained, ActivationHolds,
       TypeOK, GenerationStates, RuntimeGenerations, Prepared, Activating
  <2>6. OneGenerationAccepts' /\ ActiveServesUnlessDrained' /\ PublishedRuntimeIsLive'
    BY <1>0, <1>1, <1>4, <2>2 DEF IInv, EndPrepare, OneGenerationAccepts,
       ActiveServesUnlessDrained, PublishedRuntimeIsLive, TypeOK, GenerationStates, Prepared
  <2> QED
    BY <1>5, <2>3, <2>4, <2>5, <2>6 DEF IInv
<1> QED
  BY <1>0, <1>1, <1>6, <1>7 DEF EndPrepare, TypeOK, GenerationStates

\* The thread of a call keeps its permit until it has returned.
LEMMA ReturnedCarries ==
    ASSUME IInv, NEW p \in Api, thr[p].pc # "idle"
    PROVE  Carries(p, Returned(p)) /\ Carries(p, Idle)
  BY GenerationsAssumption DEF IInv, TypeOK, HandsFull, Carries, Returned, Idle, Threads, Callers

LEMMA CallsPreserve ==
    ASSUME IInv, NEW p \in Api,
           \/ BeginCall(p) \/ EndCall(p) \/ ReloadLoad(p) \/ RollbackBegin(p)
           \/ ShutdownSignal(p) \/ SaveConfig(p)
    PROVE  IInv'
<1> USE GenerationsAssumption
<1>0. TypeOK /\ p \in Callers /\ thr[p] \in Threads /\ HandsFull /\ PreparationsEnd /\ p # None
  BY DEF IInv, TypeOK, Callers, Watcher, Supervisor, None
<1>1. CASE BeginCall(p)
  <2>1. PICK call \in {"reload", "rollback", "drain", "shutdown", "save"} :
           thr' = [thr EXCEPT ![p] = [Idle EXCEPT !.pc = call, !.gen = st.active]]
    BY <1>1 DEF BeginCall
  <2>2. thr' \in [Callers -> Threads] /\ left' \in [edits : Nat, calls : Nat, faults : Nat]
    <3>1. st.active \in Ids
      BY <1>0 DEF TypeOK, GenerationStates
    <3>2. [Idle EXCEPT !.pc = call, !.gen = st.active] \in Threads
      BY <3>1 DEF Threads, Idle
    <3>3. thr' \in [Callers -> Threads]
      BY <1>0, <2>1, <3>2 DEF TypeOK
    <3>4. left' \in [edits : Nat, calls : Nat, faults : Nat]
      BY <1>0, <1>1 DEF BeginCall, TypeOK
    <3> QED
      BY <3>3, <3>4
  <2>3. /\ thr'[p].pc = call /\ thr'[p].gen = st.active
        /\ \A q \in Callers \ {p} : thr'[q] = thr[q]
    BY <1>0, <2>1 DEF TypeOK, Idle
  <2>4. HandsFull'
    BY <1>0, <1>1, <2>3 DEF BeginCall, MutationAllowed, HandsFull, Callers
  <2>5. PermitPinsActive'
    BY <1>0, <1>1, <2>3 DEF IInv, BeginCall, MutationAllowed, PermitPinsActive
  <2> QED
    BY <1>0, <1>1, <2>2, <2>4, <2>5, ThreadFrame DEF BeginCall, TypeOK, PreparationsEnd
<1>2. CASE EndCall(p)
  <2>1. thr' \in [Callers -> Threads] /\ HandsFull' /\ PermitPinsActive'
    BY <1>0, <1>2, ReturnedCarries, ThreadMoves DEF EndCall
  <2> QED
    BY <1>0, <1>2, <2>1, ThreadFrame DEF EndCall, TypeOK, PreparationsEnd
<1>3. CASE ReloadLoad(p)
  <2> DEFINE t == [thr[p] EXCEPT !.pc = "prepare", !.doc = disk]
  <2>1. disk # Malformed => Carries(p, t)
    BY <1>0, <1>3 DEF Carries, ReloadLoad, Threads, HandsFull, TypeOK
  <2>2. \/ disk # Malformed /\ thr' = [thr EXCEPT ![p] = t]
        \/ thr' = [thr EXCEPT ![p] = Returned(p)]
    BY <1>0, <1>3 DEF ReloadLoad, TypeOK, Threads
  <2>3. thr' \in [Callers -> Threads] /\ HandsFull' /\ PermitPinsActive'
    BY <1>0, <1>3, <2>1, <2>2, ReturnedCarries, ThreadMoves DEF ReloadLoad
  <2> QED
    BY <1>0, <1>3, <2>3, ThreadFrame DEF ReloadLoad, TypeOK, PreparationsEnd
<1>4. CASE RollbackBegin(p)
  <2> DEFINE rev == IF st.previous = None THEN None ELSE gens[st.previous].rev
             t == [thr[p] EXCEPT !.pc = "preparing", !.doc = rev]
  <2>1. st.previous # None => Carries(p, t)
    BY <1>0, <1>4 DEF Carries, RollbackBegin, Threads, HandsFull, TypeOK, GenerationStates,
       RuntimeGenerations
  <2>2. \/ st.previous # None /\ ~st.shutting /\ operation' = p /\ thr' = [thr EXCEPT ![p] = t]
        \/ operation' = operation /\ thr' = [thr EXCEPT ![p] = Returned(p)]
    BY <1>0, <1>4 DEF RollbackBegin, TypeOK, Threads
  <2>3. thr' \in [Callers -> Threads] /\ HandsFull' /\ PermitPinsActive'
    BY <1>0, <1>4, <2>1, <2>2, ReturnedCarries, ThreadMoves DEF RollbackBegin
  <2>4. operation' \in Callers \cup {None} /\ PreparationsEnd'
    BY <1>0, <1>4, <2>2 DEF RollbackBegin, TypeOK, PreparationsEnd
  <2> QED
    BY <1>0, <1>4, <2>3, <2>4, ThreadFrame DEF RollbackBegin, TypeOK
<1>5. CASE ShutdownSignal(p)
  <2>1. thr' \in [Callers -> Threads] /\ HandsFull' /\ PermitPinsActive'
    BY <1>0, <1>5, ReturnedCarries, ThreadMoves DEF ShutdownSignal
  <2> QED
    BY <1>0, <1>5, <2>1, ThreadFrame DEF ShutdownSignal, TypeOK, PreparationsEnd
<1>6. CASE SaveConfig(p)
  <2>1. thr' \in [Callers -> Threads] /\ HandsFull' /\ PermitPinsActive'
    BY <1>0, <1>6, ReturnedCarries, ThreadMoves DEF SaveConfig
  <2> QED
    BY <1>0, <1>6, <2>1, ThreadFrame DEF SaveConfig, TypeOK, PreparationsEnd
<1> QED
  BY <1>1, <1>2, <1>3, <1>4, <1>5, <1>6

\* A permit is held, so no candidate is being started: the drained gate is nobody
\* else's.
LEMMA DrainPreserves ==
    ASSUME IInv, NEW p \in Api, Drain(p)
    PROVE  IInv'
<1> USE GenerationsAssumption
<1>0. TypeOK /\ p \in Callers /\ thr[p].pc # "idle"
  BY DEF IInv, TypeOK, Callers, Drain
<1>1. thr[p].gen = st.active /\ st.starting = NoStart /\ st.active \in Ids
  BY <1>0 DEF IInv, TypeOK, GenerationStates, HandsFull, PermitPinsActive, Drain
<1>2. sup.pc \notin Activating
  BY <1>1 DEF IInv, ReservationOwned, Activating, NoStart
<1>3. /\ gens' = [gens EXCEPT ![st.active] = [gens[st.active] EXCEPT !.accepting = FALSE,
                                                !.mover = "drain", !.drained = TRUE]]
  BY <1>0, <1>1 DEF Drain, StopAccepting, TypeOK, RuntimeGenerations
<1>4. gens' \in [Ids -> RuntimeGenerations]
  <2>1. gens[st.active] \in RuntimeGenerations
    BY <1>0, <1>1 DEF TypeOK
  <2>2. [gens[st.active] EXCEPT !.accepting = FALSE, !.mover = "drain", !.drained = TRUE]
           \in RuntimeGenerations
    BY <2>1 DEF RuntimeGenerations
  <2> QED
    BY <1>0, <1>1, <1>3, <2>2 DEF TypeOK
<1>5. thr' \in [Callers -> Threads] /\ HandsFull' /\ PermitPinsActive'
  BY <1>0, ReturnedCarries, ThreadMoves DEF Drain
<1>6. TypeOK' /\ PreparationsEnd'
  BY <1>0, <1>4, <1>5 DEF IInv, Drain, TypeOK, PreparationsEnd
<1>7. RolesApart' /\ ReservationOwned'
  BY DEF IInv, Drain, RolesApart, ReservationOwned
<1>8. CandidatesUndrained' /\ ActivationHolds'
  BY <1>0, <1>1, <1>2, <1>3 DEF IInv, Drain, RolesApart, CandidatesUndrained, ActivationHolds,
     Activating, TypeOK
<1>9. OneGenerationAccepts' /\ ActiveServesUnlessDrained' /\ PublishedRuntimeIsLive'
  <2>1. /\ ~gens'[st.active].accepting /\ gens'[st.active].drained
        /\ gens'[st.active].life = gens[st.active].life
        /\ \A g \in Ids \ {st.active} : gens'[g] = gens[g]
    BY <1>0, <1>1, <1>3 DEF TypeOK, RuntimeGenerations
  <2> QED
    BY <1>0, <1>1, <2>1 DEF IInv, Drain, OneGenerationAccepts, ActiveServesUnlessDrained,
       PublishedRuntimeIsLive
<1> QED
  BY <1>5, <1>6, <1>7, <1>8, <1>9 DEF IInv

\* reserve_shutdown when no candidate is being started.
LEMMA ShutdownTakes ==
    ASSUME IInv, ReserveShutdown, st.starting = NoStart
    PROVE  /\ gens' = gens /\ operation = None
           /\ st' = [st EXCEPT !.shutting = TRUE, !.candidate = None]
           /\ st' \in GenerationStates
<1>1. st \in GenerationStates
  BY DEF IInv, TypeOK
<1>2. gens' = gens /\ operation = None
  BY DEF ReserveShutdown, TakeCandidate, NoStart
<1>3. st' = [st EXCEPT !.shutting = TRUE, !.candidate = None]
  BY <1>1 DEF ReserveShutdown, TakeCandidate, NoStart, GenerationStates
<1>4. st' \in GenerationStates
  BY <1>1, <1>3 DEF GenerationStates
<1> QED
  BY <1>2, <1>3, <1>4

LEMMA ShutdownReservePreserves ==
    ASSUME IInv, NEW p \in Api, ShutdownReserve(p)
    PROVE  IInv'
<1> USE GenerationsAssumption
<1>0. TypeOK /\ p \in Callers /\ thr[p] \in Threads /\ st \in GenerationStates
  BY DEF IInv, TypeOK, Callers
<1>1. st.starting = NoStart
  BY <1>0 DEF IInv, HandsFull, PermitPinsActive, ShutdownReserve
<1>2. /\ gens' = gens /\ operation = None /\ operation' = None /\ sup' = sup
      /\ st' = [st EXCEPT !.shutting = TRUE, !.candidate = None] /\ st' \in GenerationStates
  BY <1>1, ShutdownTakes DEF ShutdownReserve
<1>3. /\ st'.active = st.active /\ st'.starting = NoStart /\ st'.shutting /\ st'.candidate = None
  BY <1>0, <1>1, <1>2 DEF GenerationStates
<1>4. thr' \in [Callers -> Threads] /\ HandsFull' /\ PermitPinsActive'
  <2>1. [thr[p] EXCEPT !.pc = "signal"] \in Threads
    BY <1>0 DEF Threads
  <2>2. thr' \in [Callers -> Threads]
    BY <1>0, <2>1 DEF ShutdownReserve, TypeOK
  <2>3. HandsFull'
    BY <1>0 DEF IInv, TypeOK, Threads, HandsFull, ShutdownReserve
  <2>4. PermitPinsActive'
    BY <1>0, <1>1, <1>3 DEF IInv, TypeOK, Threads, PermitPinsActive, ShutdownReserve
  <2> QED
    BY <2>2, <2>3, <2>4
<1>5. TypeOK' /\ PreparationsEnd'
  BY <1>0, <1>2, <1>4 DEF ShutdownReserve, TypeOK, PreparationsEnd
<1>6. RolesApart' /\ ReservationOwned'
  BY <1>0, <1>1, <1>2, <1>3 DEF IInv, RolesApart, ReservationOwned, TypeOK, Supervisors,
     GenerationStates
<1>7. CandidatesUndrained' /\ ActivationHolds'
  BY <1>0, <1>1, <1>2, <1>3 DEF IInv, CandidatesUndrained, ActivationHolds
<1>8. OneGenerationAccepts' /\ ActiveServesUnlessDrained' /\ PublishedRuntimeIsLive'
  BY <1>0, <1>1, <1>2, <1>3 DEF IInv, OneGenerationAccepts, ActiveServesUnlessDrained,
     PublishedRuntimeIsLive
<1> QED
  BY <1>4, <1>5, <1>6, <1>7, <1>8 DEF IInv

-----------------------------------------------------------------------------
(* The threads of the generations *)

\* A runtime changes only itself, never its gate, and a failure is for good.
LEMMA RuntimePreserves ==
    ASSUME IInv, NEW g \in Ids,
           RuntimeSetUp(g) \/ RuntimeListens(g) \/ RuntimeFails(g) \/ RuntimeEnds(g)
    PROVE  IInv'
<1>0. TypeOK
  BY DEF IInv
<1>1. /\ gens' \in [Ids -> RuntimeGenerations]
      /\ left' \in [edits : Nat, calls : Nat, faults : Nat]
  <2>1. left' \in [edits : Nat, calls : Nat, faults : Nat]
    BY <1>0 DEF TypeOK, RuntimeSetUp, RuntimeListens, RuntimeFails, RuntimeEnds, Fault
  <2>2. PICK r : gens' = [gens EXCEPT ![g] = r] /\ r \in RuntimeGenerations
    <3> DEFINE old == gens[g]
    <3>1. old \in RuntimeGenerations
      BY <1>0 DEF TypeOK
    <3>2. CASE RuntimeSetUp(g)
      <4>1. [old EXCEPT !.run = "setup"] \in RuntimeGenerations
        BY <3>1 DEF RuntimeGenerations
      <4> QED
        BY <3>2, <4>1 DEF RuntimeSetUp
    <3>3. CASE RuntimeListens(g)
      <4> DEFINE new == [old EXCEPT !.run = "listening",
                                    !.life = IF old.life = "claimed" THEN "started" ELSE old.life]
      <4>1. new \in RuntimeGenerations
        BY <3>1 DEF RuntimeGenerations
      <4>2. gens' = [gens EXCEPT ![g] = new]
        BY <1>0, <3>1, <3>3 DEF RuntimeListens, TypeOK, RuntimeGenerations
      <4> QED
        BY <4>1, <4>2
    <3>4. CASE RuntimeFails(g)
      <4>1. [old EXCEPT !.failed = TRUE] \in RuntimeGenerations
        BY <3>1 DEF RuntimeGenerations
      <4> QED
        BY <3>4, <4>1 DEF RuntimeFails
    <3>5. CASE RuntimeEnds(g)
      <4>1. [old EXCEPT !.run = "finished"] \in RuntimeGenerations
        BY <3>1 DEF RuntimeGenerations
      <4> QED
        BY <3>5, <4>1 DEF RuntimeEnds
    <3> QED
      BY <3>2, <3>3, <3>4, <3>5
  <2> QED
    BY <1>0, <2>1, <2>2 DEF TypeOK
<1>2. UNCHANGED <<st, operation, disk, thr, sup, stop>>
  BY DEF RuntimeSetUp, RuntimeListens, RuntimeFails, RuntimeEnds
<1>3. \A i \in Ids : /\ gens'[i].accepting = gens[i].accepting
                     /\ gens'[i].mover = gens[i].mover
                     /\ gens'[i].drained = gens[i].drained
                     /\ gens[i].failed => gens'[i].failed
                     /\ gens[i].life = "started" => gens'[i].life = "started"
  BY <1>0 DEF TypeOK, RuntimeGenerations, RuntimeSetUp, RuntimeListens, RuntimeFails, RuntimeEnds
<1>4. TypeOK' /\ HandsFull' /\ PreparationsEnd' /\ PermitPinsActive'
  BY <1>0, <1>1, <1>2 DEF IInv, TypeOK, HandsFull, PreparationsEnd, PermitPinsActive
<1>5. RolesApart' /\ ReservationOwned'
  BY <1>2 DEF IInv, RolesApart, ReservationOwned
<1>6. st.active \in Ids /\ (sup.pc \in Activating => sup.cand \in Ids)
  BY <1>0 DEF IInv, TypeOK, GenerationStates, RolesApart
<1>7. CandidatesUndrained' /\ ActivationHolds'
  BY <1>2, <1>3, <1>6 DEF IInv, CandidatesUndrained, ActivationHolds, Activating
<1>8. OneGenerationAccepts' /\ ActiveServesUnlessDrained' /\ PublishedRuntimeIsLive'
  BY <1>2, <1>3, <1>6 DEF IInv, OneGenerationAccepts, ActiveServesUnlessDrained,
     PublishedRuntimeIsLive
<1> QED
  BY <1>4, <1>5, <1>7, <1>8 DEF IInv

-----------------------------------------------------------------------------
(* The supervisor *)

\* cancel_runtime_start leaves the gate alone.
LEMMA Cancelled ==
    ASSUME NEW gs \in [Ids -> RuntimeGenerations], NEW c \in Ids
    PROVE  /\ CancelRuntime(gs, c) \in [Ids -> RuntimeGenerations]
           /\ \A i \in Ids \ {c} : CancelRuntime(gs, c)[i] = gs[i]
           /\ CancelRuntime(gs, c)[c].accepting = gs[c].accepting
           /\ CancelRuntime(gs, c)[c].drained = gs[c].drained
<1>1. [gs[c] EXCEPT !.life = "cancelled", !.failed = TRUE] \in RuntimeGenerations
  BY DEF RuntimeGenerations
<1>2. CancelRuntime(gs, c) = [gs EXCEPT ![c] = [gs[c] EXCEPT !.life = "cancelled", !.failed = TRUE]]
  BY DEF CancelRuntime
<1> QED
  BY <1>1, <1>2 DEF RuntimeGenerations

\* A process that is ended has its gate closed.
LEMMA Ended ==
    ASSUME NEW gs \in [Ids -> RuntimeGenerations], NEW set \in SUBSET Ids
    PROVE  /\ EndProcesses(gs, set) \in [Ids -> RuntimeGenerations]
           /\ \A i \in Ids \ set : EndProcesses(gs, set)[i] = gs[i]
           /\ \A i \in set : /\ ~EndProcesses(gs, set)[i].accepting
                             /\ EndProcesses(gs, set)[i].drained = gs[i].drained
                             /\ EndProcesses(gs, set)[i].life = gs[i].life
<1> DEFINE closed(i) == [gs[i] EXCEPT !.accepting = FALSE, !.mover = "stop",
                                      !.drained = gs[i].drained]
           ended(i) == [closed(i) EXCEPT !.run = "finished"]
<1>1. ASSUME NEW i \in Ids
      PROVE  /\ ended(i) \in RuntimeGenerations /\ ~ended(i).accepting
             /\ ended(i).drained = gs[i].drained /\ ended(i).life = gs[i].life
  BY DEF RuntimeGenerations
<1>2. ASSUME NEW i \in set
      PROVE  EndProcesses(gs, set)[i] = ended(i)
  BY DEF EndProcesses, StopAccepting, RuntimeGenerations
<1>3. ASSUME NEW i \in Ids \ set
      PROVE  EndProcesses(gs, set)[i] = gs[i]
  BY DEF EndProcesses, StopAccepting
<1>4. EndProcesses(gs, set) \in [Ids -> RuntimeGenerations]
  <2> HIDE DEF ended
  <2>1. EndProcesses(gs, set) = [i \in Ids |-> EndProcesses(gs, set)[i]]
    BY DEF EndProcesses
  <2>2. \A i \in Ids : EndProcesses(gs, set)[i] \in RuntimeGenerations
    BY <1>1, <1>2, <1>3
  <2> QED
    BY <2>1, <2>2
<1> HIDE DEF ended
<1> QED
  BY <1>1, <1>2, <1>3, <1>4

\* The manager forgets the start reservation, and the candidate it quarantines.
LEMMA Cleared ==
    ASSUME st \in GenerationStates, gens \in [Ids -> RuntimeGenerations], NEW c \in Ids,
           NEW s \in {st, ClearStart(st)}
    PROVE  /\ QuarantineLocked(s, c) \in GenerationStates
           /\ QuarantineLocked(s, c).active = st.active
           /\ QuarantineLocked(s, c).shutting = st.shutting
           /\ QuarantineLocked(s, c).candidate \in {None, st.candidate}
           /\ QuarantineLocked(s, c).starting = s.starting
           /\ ClearStart(st).starting = NoStart
<1>1. /\ s \in GenerationStates /\ s.active = st.active /\ s.shutting = st.shutting
      /\ s.candidate = st.candidate /\ ClearStart(st).starting = NoStart
  BY DEF ClearStart, GenerationStates, NoStart, Phases
<1>2. gens[c].rev \in Revisions
  BY DEF RuntimeGenerations
<1> QED
  BY <1>1, <1>2 DEF QuarantineLocked, GenerationStates

\* What a step of a start that does not activate keeps.
LEMMA CandidateStep ==
    ASSUME IInv, sup.cand \in Ids, sup.pc \notin Activating,
           UNCHANGED <<thr, operation, disk, stop>>,
           left' \in [edits : Nat, calls : Nat, faults : Nat],
           gens' \in [Ids -> RuntimeGenerations],
           \A i \in Ids \ {sup.cand} : gens'[i] = gens[i],
           gens'[sup.cand].accepting => gens[sup.cand].accepting,
           gens'[sup.cand].drained = gens[sup.cand].drained,
           st' \in GenerationStates,
           st'.active = st.active, st'.shutting = st.shutting,
           st'.candidate \in {None, st.candidate},
           \/ st'.starting = NoStart
           \/ st.starting # NoStart
           \/ ~st.shutting /\ ~Mutated(st.active),
           sup' \in Supervisors,
           sup'.current = sup.current, sup'.retired = sup.retired,
           \/ sup'.cand = sup.cand /\ sup'.pc \in Starting \cup {"quarantine", "drop", "abandon"}
           \/ sup'.cand = None /\ sup'.pc = "loop",
           ReservationOwned'
    PROVE  IInv'
<1> USE GenerationsAssumption
<1>1. /\ TypeOK /\ st.active \in Ids /\ sup.cand # st.active /\ None \notin Ids
      /\ sup.retired \in SUBSET Ids
  BY DEF IInv, TypeOK, GenerationStates, RolesApart, Supervisors
<1>2. sup'.pc \notin Activating /\ (sup'.cand = None \/ sup'.cand = sup.cand)
  BY DEF Activating, Starting
<1>3. TypeOK' /\ HandsFull' /\ PreparationsEnd'
  BY <1>1 DEF IInv, TypeOK, HandsFull, PreparationsEnd
<1>4. RolesApart'
  BY <1>1 DEF IInv, RolesApart, Starting, Activating
<1>5. CandidatesUndrained' /\ ActivationHolds'
  BY <1>1, <1>2 DEF IInv, CandidatesUndrained, ActivationHolds, Activating
<1>6. OneGenerationAccepts' /\ ActiveServesUnlessDrained'
  BY <1>1, <1>2 DEF IInv, OneGenerationAccepts, ActiveServesUnlessDrained, Activating
<1>7. PermitPinsActive' /\ PublishedRuntimeIsLive'
  BY <1>1 DEF IInv, PermitPinsActive, PublishedRuntimeIsLive, Mutated
<1> QED
  BY <1>3, <1>4, <1>5, <1>6, <1>7 DEF IInv

\* What every step of the supervisor starts from.
LEMMA SupFacts ==
    ASSUME IInv
    PROVE  /\ gens \in [Ids -> RuntimeGenerations] /\ st \in GenerationStates
           /\ sup \in Supervisors /\ left \in [edits : Nat, calls : Nat, faults : Nat]
           /\ st.active \in Ids /\ sup.retired \in SUBSET Ids /\ None \notin Ids
           /\ st.starting \in [gen : Ids \cup {None}, phase : Phases]
           /\ st.starting # NoStart => ~st.shutting /\ \A p \in Callers : thr[p].gen = None
           /\ Looped \in Supervisors /\ Looped.pc = "loop" /\ Looped.cand = None
           /\ Looped.current = sup.current /\ Looped.retired = sup.retired
<1>1. /\ gens \in [Ids -> RuntimeGenerations] /\ st \in GenerationStates
      /\ sup \in Supervisors /\ left \in [edits : Nat, calls : Nat, faults : Nat]
  BY DEF IInv, TypeOK
<1>2. /\ st.active \in Ids /\ sup.retired \in SUBSET Ids /\ None \notin Ids
      /\ st.starting \in [gen : Ids \cup {None}, phase : Phases]
  BY <1>1, GenerationsAssumption DEF GenerationStates, Supervisors
<1>3. st.starting # NoStart => ~st.shutting /\ \A p \in Callers : thr[p].gen = None
  BY DEF IInv, PermitPinsActive, PublishedRuntimeIsLive
<1>4. /\ Looped \in Supervisors /\ Looped.pc = "loop" /\ Looped.cand = None
      /\ Looped.current = sup.current /\ Looped.retired = sup.retired
  BY <1>1 DEF Looped, Supervisors
<1> QED
  BY <1>1, <1>2, <1>3, <1>4

LEMMA SupBeginPreserves == ASSUME IInv, SupBegin PROVE IInv'
<1>1. sup.cand \in Ids /\ sup.pc \notin Activating /\ st.starting = NoStart
  BY DEF IInv, SupBegin, RolesApart, ReservationOwned, Activating
<1>2. CASE sup' = Looped /\ UNCHANGED st
  <2>1. ReservationOwned'
    BY <1>1, <1>2, SupFacts DEF ReservationOwned, Activating
  <2> QED
    BY <1>1, <1>2, <2>1, SupFacts, CandidateStep DEF SupBegin
<1>3. CASE /\ ~st.shutting /\ ~Mutated(st.active)
           /\ st' = [st EXCEPT !.starting = [gen |-> sup.cand, phase |-> "starting"]]
           /\ sup' = [sup EXCEPT !.pc = "claim"]
  <2>1. /\ sup' \in Supervisors /\ sup'.pc = "claim" /\ sup'.cand = sup.cand
        /\ sup'.current = sup.current /\ sup'.retired = sup.retired
    BY <1>3, SupFacts DEF Supervisors
  <2>2. /\ st' \in GenerationStates /\ st'.active = st.active /\ st'.shutting = st.shutting
        /\ st'.candidate = st.candidate
        /\ st'.starting = [gen |-> sup.cand, phase |-> "starting"]
    BY <1>1, <1>3, SupFacts DEF GenerationStates, Phases
  <2>3. ReservationOwned'
    BY <2>1, <2>2 DEF ReservationOwned, Activating
  <2> QED
    BY <1>1, <1>3, <2>1, <2>2, <2>3, SupFacts, CandidateStep DEF SupBegin, Starting
<1> QED
  BY <1>2, <1>3 DEF SupBegin

LEMMA SupClaimPreserves == ASSUME IInv, SupClaim PROVE IInv'
<1> DEFINE c == sup.cand
<1>1. c \in Ids /\ sup.pc \notin Activating /\ sup.pc = "claim"
  BY DEF IInv, SupClaim, RolesApart, Activating, Starting
<1>2. st.starting = [gen |-> c, phase |-> "starting"] /\ st.starting # NoStart
  BY <1>1 DEF IInv, ReservationOwned, NoStart
<1>3. ~st.shutting /\ Phase(c) = "starting"
  BY <1>2, SupFacts DEF Phase
<1>4. CASE /\ gens' = [gens EXCEPT ![c].life = "claimed"]
           /\ st' = [st EXCEPT !.starting.phase = "runtime_owned"]
           /\ sup' = [sup EXCEPT !.pc = "spawn"]
           /\ UNCHANGED left
  <2>1. /\ sup' \in Supervisors /\ sup'.pc = "spawn" /\ sup'.cand = sup.cand
        /\ sup'.current = sup.current /\ sup'.retired = sup.retired
    BY <1>4, SupFacts DEF Supervisors
  <2>2. /\ st' \in GenerationStates /\ st'.active = st.active /\ st'.shutting = st.shutting
        /\ st'.candidate = st.candidate
        /\ st'.starting = [gen |-> c, phase |-> "runtime_owned"]
    BY <1>1, <1>2, <1>4, SupFacts DEF GenerationStates, Phases
  <2>3. [gens[c] EXCEPT !.life = "claimed"] \in RuntimeGenerations
    BY <1>1, SupFacts DEF RuntimeGenerations
  <2>4. gens' \in [Ids -> RuntimeGenerations] /\ \A i \in Ids \ {c} : gens'[i] = gens[i]
    BY <1>1, <1>4, <2>3, SupFacts
  <2>5. gens'[c].accepting = gens[c].accepting /\ gens'[c].drained = gens[c].drained
    BY <1>1, <1>4, SupFacts DEF RuntimeGenerations
  <2>6. ReservationOwned'
    BY <2>1, <2>2 DEF ReservationOwned, Activating
  <2> QED
    BY <1>1, <1>2, <1>4, <2>1, <2>2, <2>4, <2>5, <2>6, SupFacts, CandidateStep
       DEF SupClaim, Starting
<1>5. CASE /\ gens' \in {gens, CancelRuntime(gens, c)}
           /\ st' = QuarantineLocked(ClearStart(st), c)
           /\ sup' = [sup EXCEPT !.pc = "drop"]
           /\ left' \in [edits : Nat, calls : Nat, faults : Nat]
  <2>1. /\ sup' \in Supervisors /\ sup'.pc = "drop" /\ sup'.cand = sup.cand
        /\ sup'.current = sup.current /\ sup'.retired = sup.retired
    BY <1>5, SupFacts DEF Supervisors
  <2>2. /\ st' \in GenerationStates /\ st'.active = st.active /\ st'.shutting = st.shutting
        /\ st'.candidate \in {None, st.candidate} /\ st'.starting = NoStart
    BY <1>1, <1>5, SupFacts, Cleared
  <2>3. /\ gens' \in [Ids -> RuntimeGenerations] /\ \A i \in Ids \ {c} : gens'[i] = gens[i]
        /\ gens'[c].accepting = gens[c].accepting /\ gens'[c].drained = gens[c].drained
    BY <1>1, <1>5, SupFacts, Cancelled
  <2>4. ReservationOwned'
    BY <2>1, <2>2 DEF ReservationOwned, Activating
  <2> QED
    BY <1>1, <1>5, <2>1, <2>2, <2>3, <2>4, SupFacts, CandidateStep DEF SupClaim, Starting
<1>6. Fault => left' \in [edits : Nat, calls : Nat, faults : Nat]
  BY SupFacts DEF Fault
<1> QED
  BY <1>3, <1>4, <1>5, <1>6, SupFacts DEF SupClaim

\* The runtime is started, watched and ended without touching the manager.
LEMMA SupProcessPreserves ==
    ASSUME IInv, SupSpawn \/ SupSetUp \/ SupReady \/ SupAbandon
    PROVE  IInv'
<1> DEFINE c == sup.cand
<1>1. c \in Ids /\ sup.pc \notin Activating /\ sup.pc \in {"spawn", "setup", "ready", "abandon"}
  BY DEF IInv, SupSpawn, SupSetUp, SupReady, SupAbandon, RolesApart, Activating, Starting
<1>2. left' \in [edits : Nat, calls : Nat, faults : Nat]
  BY SupFacts DEF SupSpawn, SupSetUp, SupReady, SupAbandon, Fault
<1>3. gens' \in {gens, [gens EXCEPT ![c].run = "spawned"], EndProcesses(gens, {c})}
  BY DEF SupSpawn, SupSetUp, SupReady, SupAbandon
<1>4. UNCHANGED <<st, operation, disk, thr, stop>>
  BY DEF SupSpawn, SupSetUp, SupReady, SupAbandon
<1>5. \/ sup.pc # "abandon" /\ \E place \in {"setup", "ready", "reserve", "quarantine"} :
                                  sup' = [sup EXCEPT !.pc = place]
      \/ sup.pc = "abandon" /\ sup' = Looped
  BY DEF SupSpawn, SupSetUp, SupReady, SupAbandon
<1>6. /\ gens' \in [Ids -> RuntimeGenerations] /\ \A i \in Ids \ {c} : gens'[i] = gens[i]
      /\ gens'[c].accepting => gens[c].accepting
      /\ gens'[c].drained = gens[c].drained
  <2>1. CASE gens' = [gens EXCEPT ![c].run = "spawned"]
    <3>1. [gens[c] EXCEPT !.run = "spawned"] \in RuntimeGenerations
      BY <1>1, SupFacts DEF RuntimeGenerations
    <3>2. gens' = [gens EXCEPT ![c] = [gens[c] EXCEPT !.run = "spawned"]]
      BY <2>1
    <3> QED
      BY <1>1, <3>1, <3>2, SupFacts DEF RuntimeGenerations
  <2>2. CASE gens' = EndProcesses(gens, {c})
    BY <1>1, <2>2, SupFacts, Ended
  <2> QED
    BY <1>3, <2>1, <2>2, SupFacts
<1>7. CASE sup.pc # "abandon"
  <2>1. PICK place \in {"setup", "ready", "reserve", "quarantine"} :
             sup' = [sup EXCEPT !.pc = place]
    BY <1>5, <1>7
  <2>2. /\ sup' \in Supervisors /\ sup'.pc = place /\ sup'.cand = sup.cand
        /\ sup'.current = sup.current /\ sup'.retired = sup.retired
    BY <2>1, SupFacts DEF Supervisors
  <2>3. st.starting = [gen |-> c, phase |-> "runtime_owned"] /\ st.starting # NoStart
    BY <1>1, <1>7 DEF IInv, ReservationOwned, NoStart
  <2>4. ReservationOwned'
    BY <1>4, <2>2, <2>3 DEF ReservationOwned, Activating
  <2> QED
    BY <1>1, <1>2, <1>4, <1>6, <2>2, <2>3, <2>4, SupFacts, CandidateStep DEF Starting
<1>8. CASE sup.pc = "abandon"
  <2>1. st.starting = NoStart /\ sup' = Looped
    BY <1>5, <1>8 DEF IInv, ReservationOwned
  <2>2. ReservationOwned'
    BY <1>4, <2>1, SupFacts DEF ReservationOwned, Activating
  <2> QED
    BY <1>1, <1>2, <1>4, <1>6, <2>1, <2>2, SupFacts, CandidateStep
<1> QED
  BY <1>7, <1>8

\* A start given up: the reservation goes, and with it a candidate that owned a runtime.
LEMMA GivenUp ==
    ASSUME IInv, NEW c \in Ids, st.starting \in {NoStart, [gen |-> c, phase |-> "runtime_owned"]},
           CancelStartup(c)
    PROVE  /\ gens' \in {gens, CancelRuntime(gens, c)}
           /\ st' \in GenerationStates /\ st'.active = st.active /\ st'.shutting = st.shutting
           /\ st'.candidate \in {None, st.candidate} /\ st'.starting = NoStart
<1>1. CASE st.starting = NoStart
  <2>1. Phase(c) = "none"
    BY <1>1, SupFacts DEF Phase, NoStart
  <2> QED
    BY <1>1, <2>1, SupFacts DEF CancelStartup
<1>2. CASE st.starting = [gen |-> c, phase |-> "runtime_owned"]
  <2>1. Phase(c) = "runtime_owned"
    BY <1>2 DEF Phase
  <2>2. gens' = CancelRuntime(gens, c) /\ st' = QuarantineLocked(ClearStart(st), c)
    BY <2>1 DEF CancelStartup
  <2> QED
    BY <2>2, SupFacts, Cleared
<1> QED
  BY <1>1, <1>2

LEMMA SupQuarantinePreserves == ASSUME IInv, SupQuarantine PROVE IInv'
<1> DEFINE c == sup.cand
<1>1. c \in Ids /\ sup.pc \notin Activating /\ sup.pc = "quarantine"
  BY DEF IInv, SupQuarantine, RolesApart, Activating
<1>2. st.starting \in {NoStart, [gen |-> c, phase |-> "runtime_owned"]}
  BY <1>1 DEF IInv, ReservationOwned
<1>3. \/ Phase(c) = "none" /\ st.starting = NoStart
      \/ Phase(c) = "runtime_owned"
  BY <1>1, <1>2, SupFacts DEF Phase, NoStart
<1>4. \/ UNCHANGED <<gens, st>>
      \/ gens' = gens /\ st' = QuarantineLocked(st, c) /\ st.starting = NoStart
      \/ gens' = CancelRuntime(gens, c) /\ st' = QuarantineLocked(ClearStart(st), c)
  BY <1>3 DEF SupQuarantine
<1>5. /\ st' \in GenerationStates /\ st'.active = st.active /\ st'.shutting = st.shutting
      /\ st'.candidate \in {None, st.candidate} /\ st'.starting \in {NoStart, st.starting}
  BY <1>1, <1>4, SupFacts, Cleared
<1>6. /\ gens' \in [Ids -> RuntimeGenerations] /\ \A i \in Ids \ {c} : gens'[i] = gens[i]
      /\ gens'[c].accepting = gens[c].accepting /\ gens'[c].drained = gens[c].drained
  BY <1>1, <1>4, SupFacts, Cancelled
<1>7. /\ sup' \in Supervisors /\ sup'.pc = "drop" /\ sup'.cand = sup.cand
      /\ sup'.current = sup.current /\ sup'.retired = sup.retired
  BY SupFacts DEF SupQuarantine, Supervisors
<1>8. ReservationOwned'
  BY <1>2, <1>5, <1>7 DEF ReservationOwned, Activating
<1> QED
  BY <1>1, <1>5, <1>6, <1>7, <1>8, SupFacts, CandidateStep DEF SupQuarantine

LEMMA SupDropPreserves == ASSUME IInv, SupDrop PROVE IInv'
<1> DEFINE c == sup.cand
<1>1. c \in Ids /\ sup.pc \notin Activating /\ sup.pc = "drop"
  BY DEF IInv, SupDrop, RolesApart, Activating
<1>2. st.starting \in {NoStart, [gen |-> c, phase |-> "runtime_owned"]}
  BY <1>1 DEF IInv, ReservationOwned
<1>3. /\ gens' \in {gens, CancelRuntime(gens, c)}
      /\ st' \in GenerationStates /\ st'.active = st.active /\ st'.shutting = st.shutting
      /\ st'.candidate \in {None, st.candidate} /\ st'.starting = NoStart
  BY <1>1, <1>2, GivenUp DEF SupDrop
<1>4. /\ gens' \in [Ids -> RuntimeGenerations] /\ \A i \in Ids \ {c} : gens'[i] = gens[i]
      /\ gens'[c].accepting = gens[c].accepting /\ gens'[c].drained = gens[c].drained
  BY <1>1, <1>3, SupFacts, Cancelled
<1>5. sup' = Looped
  BY DEF SupDrop
<1>6. ReservationOwned'
  BY <1>3, <1>5, SupFacts DEF ReservationOwned, Activating
<1> QED
  BY <1>1, <1>3, <1>4, <1>5, <1>6, SupFacts, CandidateStep DEF SupDrop

LEMMA SupReservePreserves == ASSUME IInv, SupReserve PROVE IInv'
<1> USE GenerationsAssumption
<1> DEFINE c == sup.cand
<1>1. c \in Ids /\ sup.pc \notin Activating /\ sup.pc = "reserve"
  BY DEF IInv, SupReserve, RolesApart, Activating, Starting
<1>2. st.starting = [gen |-> c, phase |-> "runtime_owned"] /\ st.starting # NoStart
  BY <1>1 DEF IInv, ReservationOwned, NoStart
<1>3. CASE CancelStartup(c) /\ sup' = [sup EXCEPT !.pc = "abandon"]
  <2>1. /\ gens' \in {gens, CancelRuntime(gens, c)}
        /\ st' \in GenerationStates /\ st'.active = st.active /\ st'.shutting = st.shutting
        /\ st'.candidate \in {None, st.candidate} /\ st'.starting = NoStart
    BY <1>1, <1>2, <1>3, GivenUp
  <2>2. /\ gens' \in [Ids -> RuntimeGenerations] /\ \A i \in Ids \ {c} : gens'[i] = gens[i]
        /\ gens'[c].accepting = gens[c].accepting /\ gens'[c].drained = gens[c].drained
    BY <1>1, <2>1, SupFacts, Cancelled
  <2>3. /\ sup' \in Supervisors /\ sup'.pc = "abandon" /\ sup'.cand = sup.cand
        /\ sup'.current = sup.current /\ sup'.retired = sup.retired
    BY <1>3, SupFacts DEF Supervisors
  <2>4. ReservationOwned'
    BY <2>1, <2>3 DEF ReservationOwned, Activating
  <2> QED
    BY <1>1, <1>3, <2>1, <2>2, <2>3, <2>4, SupFacts, CandidateStep DEF SupReserve
<1>4. CASE /\ ~gens[c].failed /\ gens[c].life = "started"
           /\ st' = [st EXCEPT !.starting.phase = "activating"]
           /\ sup' = [sup EXCEPT !.pc = "close", !.prev = st.active]
           /\ UNCHANGED gens
  <2>1. /\ sup' \in Supervisors /\ sup'.pc = "close" /\ sup'.cand = sup.cand
        /\ sup'.current = sup.current /\ sup'.retired = sup.retired /\ sup'.prev = st.active
    BY <1>4, SupFacts DEF Supervisors
  <2>2. /\ st' \in GenerationStates /\ st'.active = st.active /\ st'.shutting = st.shutting
        /\ st'.candidate = st.candidate
        /\ st'.starting = [gen |-> c, phase |-> "activating"]
    BY <1>1, <1>2, <1>4, SupFacts DEF GenerationStates, Phases
  <2>3. TypeOK' /\ HandsFull' /\ PreparationsEnd' /\ PermitPinsActive'
    BY <1>2, <1>4, <2>1, <2>2, SupFacts DEF IInv, SupReserve, TypeOK, HandsFull, PreparationsEnd,
       PermitPinsActive
  <2>4. RolesApart' /\ ReservationOwned'
    BY <1>1, <2>1, <2>2 DEF IInv, RolesApart, ReservationOwned, Activating, Starting
  <2>5. CandidatesUndrained' /\ ActivationHolds'
    BY <1>4, <2>1, <2>2 DEF IInv, CandidatesUndrained, ActivationHolds, Activating
  <2>6. OneGenerationAccepts' /\ ActiveServesUnlessDrained' /\ PublishedRuntimeIsLive'
    BY <1>1, <1>2, <1>4, <2>1, <2>2 DEF IInv, OneGenerationAccepts, ActiveServesUnlessDrained,
       PublishedRuntimeIsLive, Activating
  <2> QED
    BY <2>3, <2>4, <2>5, <2>6 DEF IInv
<1> QED
  BY <1>3, <1>4 DEF SupReserve

LEMMA SupClosePreserves == ASSUME IInv, SupClose PROVE IInv'
<1> USE GenerationsAssumption
<1> DEFINE a == st.active
<1>1. /\ sup.pc = "close" /\ sup.prev = a /\ a \in Ids /\ a # sup.cand /\ sup.cand \in Ids
      /\ st.starting = [gen |-> sup.cand, phase |-> "activating"] /\ st.starting # NoStart
  BY SupFacts DEF IInv, SupClose, Activating, ActivationHolds, RolesApart, ReservationOwned,
     NoStart
<1>2. ~st.shutting /\ (gens[a].accepting <=> ~gens[a].drained)
  BY <1>1, SupFacts DEF IInv, ActiveServesUnlessDrained
<1>3. [gens[a] EXCEPT !.accepting = FALSE, !.mover = "activation"] \in RuntimeGenerations
  <2>1. gens[a] \in RuntimeGenerations
    BY <1>1, SupFacts
  <2> QED
    BY <2>1 DEF RuntimeGenerations
<1>4. gens' = [gens EXCEPT ![a] = [gens[a] EXCEPT !.accepting = FALSE, !.mover = "activation"]]
  BY <1>1 DEF SupClose
<1>5. /\ gens' \in [Ids -> RuntimeGenerations] /\ \A i \in Ids \ {a} : gens'[i] = gens[i]
  BY <1>1, <1>3, <1>4, SupFacts
<1>6. /\ ~gens'[a].accepting /\ gens'[a].mover = "activation"
      /\ gens'[a].drained = gens[a].drained /\ gens'[a].life = gens[a].life
  BY <1>1, <1>4, SupFacts DEF RuntimeGenerations
<1>7. gens[a].accepting \in BOOLEAN /\ gens[a].drained \in BOOLEAN
  BY <1>1, SupFacts DEF RuntimeGenerations
<1>8. /\ sup' \in Supervisors /\ sup'.pc = "wait" /\ sup'.cand = sup.cand
      /\ sup'.current = sup.current /\ sup'.retired = sup.retired /\ sup'.prev = sup.prev
      /\ sup'.reopen = gens[a].accepting
  BY <1>1, <1>7, SupFacts DEF SupClose, Supervisors
<1>9. sup'.reopen = ~gens'[a].drained
  BY <1>2, <1>6, <1>7, <1>8
<1>10. TypeOK' /\ HandsFull' /\ PreparationsEnd' /\ PermitPinsActive'
  BY <1>5, <1>8 DEF IInv, SupClose, TypeOK, HandsFull, PreparationsEnd, PermitPinsActive
<1>11. RolesApart' /\ ReservationOwned'
  BY <1>1, <1>8 DEF IInv, SupClose, RolesApart, ReservationOwned, Activating, Starting
<1>12. CandidatesUndrained' /\ ActivationHolds'
  <2>1. st' = st
    BY DEF SupClose
  <2>2. CandidatesUndrained'
    BY <1>1, <1>5, <1>6, <1>8, <2>1 DEF IInv, CandidatesUndrained, RolesApart
  <2>3. gens'[sup.cand] = gens[sup.cand]
    BY <1>1, <1>5
  <2>4. ActivationHolds'
    BY <1>1, <1>6, <1>8, <1>9, <2>1, <2>3 DEF IInv, ActivationHolds, Activating
  <2> QED
    BY <2>2, <2>4
<1>13. OneGenerationAccepts' /\ ActiveServesUnlessDrained' /\ PublishedRuntimeIsLive'
  BY <1>1, <1>5, <1>6, <1>8 DEF IInv, SupClose, OneGenerationAccepts, ActiveServesUnlessDrained,
     PublishedRuntimeIsLive
<1> QED
  BY <1>10, <1>11, <1>12, <1>13 DEF IInv

LEMMA SupWaitPreserves == ASSUME IInv, SupWait PROVE IInv'
<1>1. /\ sup' \in Supervisors /\ sup'.pc = "publish" /\ sup'.cand = sup.cand
      /\ sup'.current = sup.current /\ sup'.retired = sup.retired /\ sup'.prev = sup.prev
      /\ sup'.reopen = sup.reopen /\ sup.pc = "wait"
  BY SupFacts DEF SupWait, Supervisors
<1>2. left' \in [edits : Nat, calls : Nat, faults : Nat]
  BY SupFacts DEF SupWait, Fault
<1>3. TypeOK' /\ HandsFull' /\ PreparationsEnd' /\ PermitPinsActive'
  BY <1>1, <1>2 DEF IInv, SupWait, TypeOK, HandsFull, PreparationsEnd, PermitPinsActive
<1>4. RolesApart' /\ ReservationOwned'
  BY <1>1 DEF IInv, SupWait, RolesApart, ReservationOwned, Activating, Starting
<1>5. CandidatesUndrained' /\ ActivationHolds'
  BY <1>1 DEF IInv, SupWait, CandidatesUndrained, ActivationHolds, Activating
<1>6. OneGenerationAccepts' /\ ActiveServesUnlessDrained' /\ PublishedRuntimeIsLive'
  BY <1>1 DEF IInv, SupWait, OneGenerationAccepts, ActiveServesUnlessDrained,
     PublishedRuntimeIsLive
<1> QED
  BY <1>3, <1>4, <1>5, <1>6 DEF IInv

\* What the last part of an activation finds.
LEMMA PublishFacts ==
    ASSUME IInv, sup.pc = "publish"
    PROVE  /\ sup.prev = st.active /\ sup.cand \in Ids /\ sup.cand # st.active
           /\ st.starting = [gen |-> sup.cand, phase |-> "activating"] /\ st.starting # NoStart
           /\ ~st.shutting
           /\ ~gens[st.active].accepting /\ gens[st.active].mover = "activation"
           /\ sup.reopen = ~gens[st.active].drained
           /\ gens[sup.cand].life = "started" \/ gens[sup.cand].failed
<1>1. /\ sup.prev = st.active /\ sup.cand \in Ids /\ sup.cand # st.active
      /\ ~gens[st.active].accepting /\ gens[st.active].mover = "activation"
      /\ sup.reopen = ~gens[st.active].drained
      /\ gens[sup.cand].life = "started" \/ gens[sup.cand].failed
  BY DEF IInv, RolesApart, ActivationHolds, Activating
<1>2. st.starting = [gen |-> sup.cand, phase |-> "activating"] /\ st.starting # NoStart
  BY DEF IInv, ReservationOwned, Activating, NoStart
<1> QED
  BY <1>1, <1>2, SupFacts

LEMMA SupPublishPreserves == ASSUME IInv, SupPublish PROVE IInv'
<1> USE GenerationsAssumption
<1> DEFINE c == sup.cand
<1>1. sup.pc = "publish" /\ ~gens[c].failed /\ gens[c] \in RuntimeGenerations
  BY PublishFacts, SupFacts DEF SupPublish, Publishable
<1>2. gens' = [gens EXCEPT ![c] = [gens[c] EXCEPT !.accepting = TRUE, !.mover = "enable"]]
  BY DEF SupPublish
<1>3. [gens[c] EXCEPT !.accepting = TRUE, !.mover = "enable"] \in RuntimeGenerations
  BY <1>1 DEF RuntimeGenerations
<1>4. gens' \in [Ids -> RuntimeGenerations] /\ \A i \in Ids \ {c} : gens'[i] = gens[i]
  BY <1>1, <1>2, <1>3, PublishFacts, SupFacts
<1>5. /\ gens'[c].accepting /\ gens'[c].life = gens[c].life
      /\ gens'[c].drained = gens[c].drained
  BY <1>1, <1>2, PublishFacts, SupFacts DEF RuntimeGenerations
<1>6. /\ st' \in GenerationStates /\ st'.active = c /\ st'.candidate = None
      /\ st'.starting = NoStart /\ st'.shutting = st.shutting
  BY <1>1, PublishFacts, SupFacts DEF SupPublish, GenerationStates, NoStart, Phases
<1>7. /\ sup' \in Supervisors /\ sup'.pc = "loop" /\ sup'.cand = None /\ sup'.current = c
      /\ sup'.retired = sup.retired \cup {sup.current}
  BY <1>1, PublishFacts, SupFacts DEF SupPublish, Looped, Supervisors
<1>8. UNCHANGED <<operation, disk, thr, stop, left>>
  BY DEF SupPublish
<1>9. TypeOK' /\ HandsFull' /\ PreparationsEnd'
  BY <1>4, <1>6, <1>7, <1>8 DEF IInv, TypeOK, HandsFull, PreparationsEnd
<1>10. PermitPinsActive'
  BY <1>1, <1>8, PublishFacts, SupFacts DEF PermitPinsActive
<1>11. RolesApart' /\ ReservationOwned'
  <2>1. c \notin sup.retired /\ sup.current = st.active
    BY DEF IInv, RolesApart
  <2>2. RolesApart'
    BY <1>1, <1>6, <1>7, <2>1, PublishFacts, SupFacts DEF RolesApart, Starting, Activating
  <2>3. ReservationOwned'
    BY <1>6, <1>7 DEF ReservationOwned, Activating
  <2> QED
    BY <2>2, <2>3
<1>12. CandidatesUndrained' /\ ActivationHolds'
  BY <1>6, <1>7, SupFacts DEF CandidatesUndrained, ActivationHolds, Activating
<1>13. OneGenerationAccepts'
  BY <1>1, <1>4, <1>6, PublishFacts DEF IInv, OneGenerationAccepts
<1>14. ActiveServesUnlessDrained' /\ PublishedRuntimeIsLive'
  <2>1. ~gens[c].drained
    BY <1>1, PublishFacts DEF IInv, CandidatesUndrained
  <2> QED
    BY <1>1, <1>5, <1>6, <2>1, PublishFacts DEF ActiveServesUnlessDrained, PublishedRuntimeIsLive
<1> QED
  BY <1>9, <1>10, <1>11, <1>12, <1>13, <1>14 DEF IInv

LEMMA SupPublishRefusedPreserves == ASSUME IInv, SupPublishRefused PROVE IInv'
<1> USE GenerationsAssumption
<1> DEFINE c == sup.cand
           a == st.active
           again == Reopened(gens, a)
<1>1. sup.pc = "publish" /\ a \in Ids /\ c \in Ids /\ c # a
  BY PublishFacts, SupFacts DEF SupPublishRefused
<1>2. gens' = CancelRuntime(again, c) /\ st' = QuarantineLocked(ClearStart(st), c)
  BY <1>1, PublishFacts DEF SupPublishRefused
<1>3. /\ again \in [Ids -> RuntimeGenerations] /\ \A i \in Ids \ {a} : again[i] = gens[i]
      /\ again[a].drained = gens[a].drained /\ again[a].life = gens[a].life
      /\ again[a].accepting <=> ~gens[a].drained
  <2>1. gens[a] \in RuntimeGenerations
    BY <1>1, SupFacts
  <2>2. [gens[a] EXCEPT !.accepting = TRUE, !.mover = "enable"] \in RuntimeGenerations
    BY <2>1 DEF RuntimeGenerations
  <2>3. again = IF sup.reopen
                  THEN [gens EXCEPT ![a] = [gens[a] EXCEPT !.accepting = TRUE, !.mover = "enable"]]
                  ELSE gens
    BY <1>1, PublishFacts DEF Reopened, CloseCurrent
  <2>4. CASE sup.reopen
    <3> DEFINE open == [gens[a] EXCEPT !.accepting = TRUE, !.mover = "enable"]
    <3>1. open.accepting /\ open.drained = gens[a].drained /\ open.life = gens[a].life
      BY <2>1 DEF RuntimeGenerations
    <3>2. again = [gens EXCEPT ![a] = open]
      BY <2>3, <2>4
    <3> HIDE DEF open
    <3>3. again[a] = open /\ \A i \in Ids \ {a} : again[i] = gens[i]
      BY <1>1, <3>2, SupFacts
    <3>4. again \in [Ids -> RuntimeGenerations]
      BY <1>1, <2>2, <3>2, SupFacts DEF open
    <3>5. ~gens[a].drained
      BY <1>1, <2>4, PublishFacts
    <3> HIDE DEF again
    <3> QED
      BY <3>1, <3>3, <3>4, <3>5
  <2>5. CASE ~sup.reopen
    BY <1>1, <2>1, <2>3, <2>5, PublishFacts, SupFacts DEF RuntimeGenerations
  <2> QED
    BY <2>4, <2>5
<1> HIDE DEF again
<1>4. /\ gens' \in [Ids -> RuntimeGenerations] /\ \A i \in Ids \ {c} : gens'[i] = again[i]
      /\ gens'[c].accepting = gens[c].accepting /\ gens'[c].drained = gens[c].drained
  BY <1>1, <1>2, <1>3, Cancelled
<1>5. /\ st' \in GenerationStates /\ st'.active = a /\ st'.shutting = st.shutting
      /\ st'.candidate \in {None, st.candidate} /\ st'.starting = NoStart
  BY <1>1, <1>2, SupFacts, Cleared
<1>6. /\ sup' \in Supervisors /\ sup'.pc = "abandon" /\ sup'.cand = c
      /\ sup'.current = sup.current /\ sup'.retired = sup.retired
  BY SupFacts DEF SupPublishRefused, Supervisors
<1>7. UNCHANGED <<operation, disk, thr, stop, left>>
  BY DEF SupPublishRefused
<1>8. TypeOK' /\ HandsFull' /\ PreparationsEnd' /\ PermitPinsActive'
  BY <1>1, <1>4, <1>5, <1>6, <1>7, PublishFacts, SupFacts DEF IInv, TypeOK, HandsFull,
     PreparationsEnd, PermitPinsActive
<1>9. RolesApart' /\ ReservationOwned'
  BY <1>1, <1>5, <1>6, SupFacts DEF IInv, RolesApart, ReservationOwned, Activating, Starting
<1>10. CandidatesUndrained' /\ ActivationHolds'
  BY <1>1, <1>3, <1>4, <1>5, <1>6, SupFacts DEF IInv, RolesApart, CandidatesUndrained,
     ActivationHolds, Activating
<1>11. OneGenerationAccepts' /\ ActiveServesUnlessDrained' /\ PublishedRuntimeIsLive'
  BY <1>1, <1>3, <1>4, <1>5, <1>6, PublishFacts DEF IInv, OneGenerationAccepts,
     ActiveServesUnlessDrained, PublishedRuntimeIsLive
<1> QED
  BY <1>8, <1>9, <1>10, <1>11 DEF IInv

LEMMA SupRoundPreserves == ASSUME IInv, SupBreak \/ SupCandidate PROVE IInv'
<1> USE GenerationsAssumption
<1>1. /\ sup.pc = "loop" /\ sup.cand = None /\ st.starting = NoStart
      /\ stop' \in BOOLEAN /\ UNCHANGED <<gens, st, operation, disk, thr, left>>
  BY DEF IInv, TypeOK, SupBreak, SupCandidate, RolesApart, ReservationOwned
<1>2. /\ sup' \in Supervisors /\ sup'.current = sup.current /\ sup'.retired = sup.retired
      /\ \/ sup'.pc = "stopping" /\ sup'.cand = None
         \/ sup'.pc = "begin" /\ sup'.cand = st.candidate /\ st.candidate \in Ids
  BY <1>1, SupFacts DEF SupBreak, SupCandidate, Supervisors, GenerationStates
<1>3. TypeOK' /\ HandsFull' /\ PreparationsEnd' /\ PermitPinsActive'
  BY <1>1, <1>2 DEF IInv, TypeOK, HandsFull, PreparationsEnd, PermitPinsActive
<1>4. RolesApart' /\ ReservationOwned'
  BY <1>1, <1>2, SupFacts DEF IInv, RolesApart, ReservationOwned, Starting, Activating
<1>5. CandidatesUndrained' /\ ActivationHolds'
  BY <1>1, <1>2, SupFacts DEF IInv, CandidatesUndrained, ActivationHolds, Activating
<1>6. OneGenerationAccepts' /\ ActiveServesUnlessDrained' /\ PublishedRuntimeIsLive'
  BY <1>1, <1>2 DEF IInv, OneGenerationAccepts, ActiveServesUnlessDrained, PublishedRuntimeIsLive
<1> QED
  BY <1>3, <1>4, <1>5, <1>6 DEF IInv

LEMMA SupEndsPreserves == ASSUME IInv, SupRetire \/ SupStopped PROVE IInv'
<1> USE GenerationsAssumption
<1>1. PICK set \in SUBSET sup.retired : gens' = EndProcesses(gens, set)
  BY DEF SupRetire, SupStopped
<1>2. /\ sup.pc \in {"loop", "closing"} /\ sup.cand = None /\ st.starting = NoStart
      /\ UNCHANGED <<st, operation, disk, thr, stop, left>> /\ set \in SUBSET Ids
      /\ ~st.shutting => st.active \notin set
  BY <1>1, SupFacts DEF IInv, SupRetire, SupStopped, RolesApart, ReservationOwned
<1>3. /\ sup' \in Supervisors /\ sup'.current = sup.current /\ sup'.cand = None
      /\ sup'.pc \in {"loop", "done"} /\ sup'.retired \in SUBSET sup.retired
  <2>1. CASE SupRetire
    <3>1. PICK g \in sup.retired : sup' = [sup EXCEPT !.retired = @ \ {g}]
      BY <2>1 DEF SupRetire
    <3> QED
      BY <1>2, <2>1, <3>1, SupFacts DEF SupRetire, Supervisors
  <2>2. CASE SupStopped
    BY <1>2, <2>2, SupFacts DEF SupStopped, Supervisors
  <2> QED
    BY <2>1, <2>2
<1>4. /\ gens' \in [Ids -> RuntimeGenerations]
      /\ \A i \in Ids \ set : gens'[i] = gens[i]
      /\ \A i \in set : /\ ~gens'[i].accepting /\ gens'[i].drained = gens[i].drained
                        /\ gens'[i].life = gens[i].life
  BY <1>1, <1>2, SupFacts, Ended
<1>5. TypeOK' /\ HandsFull' /\ PreparationsEnd' /\ PermitPinsActive'
  BY <1>2, <1>3, <1>4 DEF IInv, TypeOK, HandsFull, PreparationsEnd, PermitPinsActive
<1>6. RolesApart' /\ ReservationOwned'
  BY <1>2, <1>3, SupFacts DEF IInv, RolesApart, ReservationOwned, Starting, Activating
<1>7. CandidatesUndrained' /\ ActivationHolds'
  BY <1>2, <1>3, <1>4, SupFacts DEF IInv, CandidatesUndrained, ActivationHolds, Activating
<1>8. OneGenerationAccepts' /\ ActiveServesUnlessDrained' /\ PublishedRuntimeIsLive'
  BY <1>2, <1>3, <1>4, SupFacts DEF IInv, OneGenerationAccepts, ActiveServesUnlessDrained,
     PublishedRuntimeIsLive
<1> QED
  BY <1>5, <1>6, <1>7, <1>8 DEF IInv

LEMMA SupShutdownPreserves == ASSUME IInv, SupShutdown PROVE IInv'
<1> USE GenerationsAssumption
<1>1. sup.pc = "stopping" /\ sup.cand = None /\ st.starting = NoStart /\ sup.current = st.active
  BY DEF IInv, SupShutdown, RolesApart, ReservationOwned
<1>2. /\ gens' = gens /\ operation = None /\ UNCHANGED <<operation, disk, thr, stop, left>>
      /\ st' = [st EXCEPT !.shutting = TRUE, !.candidate = None] /\ st' \in GenerationStates
  BY <1>1, ShutdownTakes DEF SupShutdown
<1>3. st'.active = st.active /\ st'.starting = NoStart /\ st'.shutting /\ st'.candidate = None
  BY <1>1, <1>2, SupFacts DEF GenerationStates
<1>4. /\ sup' \in Supervisors /\ sup'.pc = "closing" /\ sup'.cand = None
      /\ sup'.current = sup.current /\ sup'.retired \in SUBSET Ids
  BY <1>1, SupFacts DEF SupShutdown, Supervisors
<1>5. TypeOK' /\ HandsFull' /\ PreparationsEnd' /\ PermitPinsActive'
  BY <1>1, <1>2, <1>3, <1>4 DEF IInv, TypeOK, HandsFull, PreparationsEnd, PermitPinsActive
<1>6. RolesApart' /\ ReservationOwned'
  BY <1>1, <1>3, <1>4, SupFacts DEF IInv, RolesApart, ReservationOwned, Starting, Activating
<1>7. CandidatesUndrained' /\ ActivationHolds'
  BY <1>3, <1>4, SupFacts DEF CandidatesUndrained, ActivationHolds, Activating
<1>8. OneGenerationAccepts' /\ ActiveServesUnlessDrained' /\ PublishedRuntimeIsLive'
  BY <1>2, <1>3 DEF IInv, OneGenerationAccepts, ActiveServesUnlessDrained, PublishedRuntimeIsLive
<1> QED
  BY <1>5, <1>6, <1>7, <1>8 DEF IInv

LEMMA SupPreserves == ASSUME IInv, SupStep PROVE IInv'
  BY SupRoundPreserves, SupEndsPreserves, SupBeginPreserves, SupClaimPreserves,
     SupProcessPreserves, SupQuarantinePreserves, SupDropPreserves, SupReservePreserves,
     SupClosePreserves, SupWaitPreserves, SupPublishPreserves, SupPublishRefusedPreserves,
     SupShutdownPreserves
  DEF SupStep

-----------------------------------------------------------------------------
(* The whole system *)

LEMMA OutsidePreserves == ASSUME IInv, Edit \/ Signal \/ UNCHANGED vars PROVE IInv'
<1>1. UNCHANGED <<gens, st, sup, thr, operation>>
  BY DEF Edit, Signal, vars
<1>2. /\ disk' \in Revisions \cup {Malformed} /\ stop' \in BOOLEAN
      /\ left' \in [edits : Nat, calls : Nat, faults : Nat]
  <2>1. CASE Edit
    <3>1. left.edits - 1 \in Nat /\ left' = [left EXCEPT !.edits = left.edits - 1]
      BY <2>1, SupFacts DEF Edit
    <3> QED
      BY <2>1, <3>1, SupFacts DEF IInv, TypeOK, Edit
  <2>2. CASE Signal \/ UNCHANGED vars
    BY <2>2 DEF IInv, TypeOK, Signal, vars
  <2> QED
    BY <2>1, <2>2
<1>3. TypeOK' /\ HandsFull' /\ PreparationsEnd' /\ PermitPinsActive'
  BY <1>1, <1>2 DEF IInv, TypeOK, HandsFull, PreparationsEnd, PermitPinsActive
<1> QED
  BY <1>1, <1>3, ThreadFrame

LEMMA NextIInv == ASSUME IInv, [Next]_vars PROVE IInv'
<1> USE GenerationsAssumption
<1>1. Watcher \in Callers /\ Api \subseteq Callers
  BY DEF Callers
<1>2. Carries(Watcher, Idle)
  BY <1>1 DEF Carries, Idle, Threads
<1>3. CASE WatcherStep
  BY <1>1, <1>2, <1>3, WatcherReads, BeginPreparePreserves, EndPreparePreserves
     DEF WatcherStep, WatcherBeginPrepare, WatcherEndPrepare
<1>4. ASSUME NEW p \in Api, BeginCall(p) \/ CallStep(p) PROVE IInv'
  <2>1. CASE ReloadBeginPrepare(p)
    BY <1>1, <2>1, ReturnedCarries, BeginPreparePreserves DEF ReloadBeginPrepare, BeginPrepare
  <2>2. CASE EndCallPrepare(p)
    BY <1>1, <2>2, ReturnedCarries, EndPreparePreserves DEF EndCallPrepare, EndPrepare
  <2> QED
    BY <1>4, <2>1, <2>2, CallsPreserve, DrainPreserves, ShutdownReservePreserves DEF CallStep
<1>5. ASSUME NEW g \in Ids, RuntimeStep(g) \/ RuntimeFails(g) \/ RuntimeEnds(g) PROVE IInv'
  BY <1>5, RuntimePreserves DEF RuntimeStep
<1> QED
  BY <1>3, <1>4, <1>5, SupPreserves, OutsidePreserves DEF Next

LEMMA SpecIInv == Spec => []IInv
  BY InitIInv, NextIInv, PTL DEF Spec

(* The state of the manager, of the threads and of the supervisor has its   *)
(* type (TypeOK), whatever the number of generations, revisions and calls.  *)
THEOREM GenerationsTypeCorrect == Spec => []TypeOK
<1>1. IInv => TypeOK
  BY DEF IInv
<1> QED
  BY <1>1, SpecIInv, PTL

(* No instant of a publication, of a refused one or of a drain has two      *)
(* generations accepting (OneGenerationAccepts).                            *)
THEOREM OnlyTheActiveAccepts == Spec => []OneGenerationAccepts
<1>1. IInv => OneGenerationAccepts
  BY DEF IInv
<1> QED
  BY <1>1, SpecIInv, PTL

(* A management call acts on the generation it was admitted against, and    *)
(* no candidate is being started while it does (PermitPinsActive).          *)
THEOREM PermitsPin == Spec => []PermitPinsActive
<1>1. IInv => PermitPinsActive
  BY DEF IInv
<1> QED
  BY <1>1, SpecIInv, PTL

(* A refused activation reopens the old generation, and never one that was  *)
(* drained (ActiveServesUnlessDrained).                                     *)
THEOREM ActiveServes == Spec => []ActiveServesUnlessDrained
<1>1. IInv => ActiveServesUnlessDrained
  BY DEF IInv
<1> QED
  BY <1>1, SpecIInv, PTL

(* Only a started runtime is published, and nothing is once the manager was *)
(* told to shut down (PublishedRuntimeIsLive).                              *)
THEOREM PublishedIsLive == Spec => []PublishedRuntimeIsLive
<1>1. IInv => PublishedRuntimeIsLive
  BY DEF IInv
<1> QED
  BY <1>1, SpecIInv, PTL
=============================================================================
