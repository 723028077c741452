------------------------------ MODULE Handover ------------------------------
(***************************************************************************)
(* What replacing a service generation promises, without its lifecycles.    *)
(* One instance owns the service.  At most one heir waits for it and at     *)
(* most one instance is on its way out, never both.  The owner stops        *)
(* admitting work before the heir takes over, and admits again by itself    *)
(* only once the heir has been given up.                                    *)
(***************************************************************************)
EXTENDS Naturals

CONSTANTS InstanceIds, NoInstance, Generations

VARIABLES
    owner,      \* the instance that owns the service
    age,        \* its generation
    admitting,  \* whether the owner admits new work
    heir,       \* the instance waiting to take over, with its generation
    leaving     \* an instance that owns nothing any more and has not stopped

vars == <<owner, age, admitting, heir, leaving>>

NoHeir == [id |-> NoInstance, age |-> 0]

Init ==
    /\ owner \in InstanceIds
    /\ age \in Generations
    /\ admitting = TRUE
    /\ heir = NoHeir
    /\ leaving = NoInstance

\* A newer instance is proposed once the last replacement has left nothing behind.
Propose(i, g) ==
    /\ heir = NoHeir /\ leaving = NoInstance /\ admitting
    /\ i # owner /\ g > age
    /\ heir' = [id |-> i, age |-> g]
    /\ UNCHANGED <<owner, age, admitting, leaving>>

Pause ==
    /\ heir # NoHeir /\ admitting
    /\ admitting' = FALSE
    /\ UNCHANGED <<owner, age, heir, leaving>>

TakeOver ==
    /\ heir # NoHeir /\ ~admitting
    /\ owner' = heir.id /\ age' = heir.age /\ admitting' = TRUE
    /\ heir' = NoHeir
    /\ leaving' = owner

GiveUp ==
    /\ heir # NoHeir
    /\ heir' = NoHeir
    /\ leaving' = heir.id
    /\ UNCHANGED <<owner, age, admitting>>

Resume ==
    /\ heir = NoHeir /\ ~admitting
    /\ admitting' = TRUE
    /\ UNCHANGED <<owner, age, heir, leaving>>

Leave ==
    /\ leaving # NoInstance
    /\ leaving' = NoInstance
    /\ UNCHANGED <<owner, age, admitting, heir>>

Next ==
    \/ \E i \in InstanceIds, g \in Generations : Propose(i, g)
    \/ Pause \/ TakeOver \/ GiveUp \/ Resume \/ Leave

Spec == Init /\ [][Next]_vars
=============================================================================
