---------------------------- MODULE Pool_proofs ----------------------------
(***************************************************************************)
(* Proofs about Pool, for any number of servers, requests, connectors and   *)
(* operators.                                                               *)
(*                                                                          *)
(* The argument for both kinds of waiter is one: whatever makes a server    *)
(* worth a try announces it (Told), an announcement under way is not  *)
(* lost, and a waiter that looks knows what it has seen until one is.       *)
(***************************************************************************)
EXTENDS Pool, SequenceTheorems, FiniteSetTheorems, TLAPS

\* Who is where, and what it works on there.
PlaceOf(t) ==
    /\ t \in Requests =>
          pc[t] \in {"out", "look", "full", "try", "recheck", "sleep", "leave", "lease", "gone"}
    /\ t \in Connectors =>
          /\ pc[t] \in {"out", "reuse", "try", "enable", "sleep", "busy"}
          /\ pc[t] # "out" => target[t] \in Servers
    /\ t \in Operators =>
          /\ pc[t] \in {"out", "store", "probe"}
          /\ pc[t] = "probe" => target[t] \in Servers
          /\ pc[t] = "store" => target[t] \in [state : States, left : SUBSET Servers]

Places ==
    /\ target = [t \in Connectors \cup Operators |-> target[t]]
    /\ \A t \in Threads : PlaceOf(t)

\* A request holds a permit from its selection to the end of its transport.
Holders ==
    \A r \in Requests :
        /\ request[r].held # None => pc[r] \in {"recheck", "leave", "lease"}
        /\ pc[r] \in {"recheck", "lease"} => request[r].held # None

\* The generation is about to move: a notification begins, or an operator that is
\* storing the state of every server has yet to notify.
GenerationMoves ==
    \E t \in Threads : todo[t] = "generation" \/ (t \in Operators /\ pc[t] = "store")

\* Worth a try: it can be acquired, and not only because an ejection lapsed.
Worth(s) == Acquirable(s) /\ server[s].ejected # "lapsed"

\* What a head that is looking knows unless it is told: its candidates are selectable,
\* a full one among them makes it wait, and what it dropped is not worth a try.
HeadKnows ==
    \A r \in Requests :
        pc[r] \in {"full", "try", "recheck"} =>
            \/ r \in notified \/ FrontWillHear(r)
            \/ /\ pc[r] = "full" => \A s \in request[r].candidates : Selectable(s)
               /\ pc[r] # "full" /\ request[r].saturated => \E s \in Ask[r] : Selectable(s)
               /\ \A s \in Ask[r] \ request[r].candidates : ~Worth(s)

Candidates ==
    \A r \in Requests : request[r].candidates \subseteq Ask[r]

\* What a connector knows of its server as long as its generation has not moved.
ConnectorKnows ==
    \A c \in Connectors :
        /\ pc[c] \in {"try", "enable", "sleep"} /\ c \notin stale =>
              GenerationMoves \/ server[target[c]].idle = 0
        /\ pc[c] \in {"enable", "sleep"} /\ c \notin stale =>
              GenerationMoves \/ ~Worth(target[c])
        /\ pc[c] = "sleep" /\ c \in stale /\ c \notin notified =>
              \E t \in Threads : todo[t] = "broadcast"

IInv ==
    /\ TypeOK /\ Places /\ Holders /\ PermitsAreCounted /\ OnlyTheHeadSelects
    /\ Candidates /\ HeadKnows /\ SleepingHeadMustWait /\ ConnectorKnows

-----------------------------------------------------------------------------
(* The FIFO *)

LEMMA RemoveAtProperties ==
    ASSUME NEW S, NEW s \in Seq(S), NEW i \in 1..Len(s)
    PROVE  /\ RemoveAt(s, i) \in Seq(S)
           /\ Len(RemoveAt(s, i)) = Len(s) - 1
           /\ \A j \in 1..(Len(s) - 1) : RemoveAt(s, i)[j] = IF j < i THEN s[j] ELSE s[j + 1]
<1> DEFINE a == SubSeq(s, 1, i - 1)
           b == SubSeq(s, i + 1, Len(s))
<1>1. a \in Seq(S) /\ Len(a) = i - 1 /\ \A j \in 1..(i - 1) : a[j] = s[j]
  BY SubSeqProperties
<1>2. b \in Seq(S) /\ Len(b) = Len(s) - i /\ \A j \in 1..(Len(s) - i) : b[j] = s[j + i]
  BY SubSeqProperties
<1> HIDE DEF a, b
<1>3. /\ a \o b \in Seq(S) /\ Len(a \o b) = Len(s) - 1
      /\ \A j \in 1..(Len(s) - 1) : (a \o b)[j] = IF j <= i - 1 THEN a[j] ELSE b[j - (i - 1)]
  <2>1. /\ a \o b \in Seq(S) /\ Len(a \o b) = Len(a) + Len(b)
        /\ \A j \in 1..(Len(a) + Len(b)) :
             (a \o b)[j] = IF j <= Len(a) THEN a[j] ELSE b[j - Len(a)]
    BY <1>1, <1>2, ConcatProperties, Zenon
  <2>2. Len(a) + Len(b) = Len(s) - 1
    BY <1>1, <1>2
  <2> QED
    BY <1>1, <2>1, <2>2
<1>4. ASSUME NEW j \in 1..(Len(s) - 1)
      PROVE  (a \o b)[j] = IF j < i THEN s[j] ELSE s[j + 1]
  <2>1. CASE j < i
    BY <1>1, <1>3, <2>1
  <2>2. CASE ~(j < i)
    <3>1. j - (i - 1) \in 1..(Len(s) - i)
      BY <2>2
    <3>2. b[j - (i - 1)] = s[j - (i - 1) + i]
      BY <1>2, <3>1
    <3> QED
      BY <1>3, <2>2, <3>2
  <2> QED
    BY <2>1, <2>2
<1> QED
  BY <1>3, <1>4 DEF RemoveAt, a, b

\* No request waits twice.
Distinct(s) == \A i, j \in 1..Len(s) : s[i] = s[j] => i = j

LEMMA RemovedProperties ==
    ASSUME waiters \in Seq(Requests), Distinct(waiters), NEW r \in Range(waiters)
    PROVE  /\ Removed(r) \in Seq(Requests)
           /\ Distinct(Removed(r))
           /\ Range(Removed(r)) = Range(waiters) \ {r}
           /\ ~IsFront(r) => Removed(r) # <<>> /\ Head(Removed(r)) = Head(waiters)
<1> DEFINE i == CHOOSE j \in 1..Len(waiters) : waiters[j] = r
           w == Removed(r)
<1>1. i \in 1..Len(waiters) /\ waiters[i] = r /\ w = RemoveAt(waiters, i)
  BY DEF Range, Removed
<1>2. \A j \in 1..Len(waiters) : waiters[j] = r => j = i
  BY <1>1 DEF Distinct
<1> HIDE DEF i, w
<1>3. /\ w \in Seq(Requests) /\ Len(w) = Len(waiters) - 1
      /\ \A j \in 1..(Len(waiters) - 1) : w[j] = IF j < i THEN waiters[j] ELSE waiters[j + 1]
  BY <1>1, RemoveAtProperties
<1>4. Distinct(w)
  <2> SUFFICES ASSUME NEW j \in 1..Len(w), NEW k \in 1..Len(w), w[j] = w[k]
               PROVE  j = k
    BY DEF Distinct
  <2> DEFINE J == IF j < i THEN j ELSE j + 1
             K == IF k < i THEN k ELSE k + 1
  <2>1. J \in 1..Len(waiters) /\ w[j] = waiters[J]
    BY <1>1, <1>3
  <2>2. K \in 1..Len(waiters) /\ w[k] = waiters[K]
    BY <1>1, <1>3
  <2>3. J = K
    <3> HIDE DEF J, K
    <3> QED
      BY <2>1, <2>2 DEF Distinct
  <2> QED
    BY <1>1, <1>3, <2>3
<1>5. ASSUME NEW x \in Range(w) PROVE x \in Range(waiters) \ {r}
  <2>1. PICK j \in 1..Len(w) : x = w[j]
    BY <1>3, <1>5 DEF Range
  <2> DEFINE J == IF j < i THEN j ELSE j + 1
  <2>2. J \in 1..Len(waiters) /\ J # i /\ x = waiters[J]
    BY <1>1, <1>3, <2>1
  <2>3. x # r
    BY <1>2, <2>2
  <2> QED
    BY <2>2, <2>3 DEF Range
<1>6. ASSUME NEW x \in Range(waiters) \ {r} PROVE x \in Range(w)
  <2>1. PICK j \in 1..Len(waiters) : x = waiters[j]
    BY DEF Range
  <2>2. j # i
    BY <1>1, <2>1
  <2>3. CASE j < i
    <3>1. j \in 1..Len(w) /\ x = w[j]
      BY <1>1, <1>3, <2>1, <2>3
    <3> QED
      BY <1>3, <3>1 DEF Range
  <2>4. CASE j > i
    <3>1. j - 1 \in 1..Len(w) /\ x = w[j - 1]
      BY <1>1, <1>3, <2>1, <2>4
    <3> QED
      BY <1>3, <3>1 DEF Range
  <2> QED
    BY <1>1, <2>2, <2>3, <2>4
<1>7. ~IsFront(r) => w # <<>> /\ Head(w) = Head(waiters)
  <2> SUFFICES ASSUME ~IsFront(r) PROVE w # <<>> /\ Head(w) = Head(waiters)
    OBVIOUS
  <2>1. waiters # <<>> /\ Head(waiters) = waiters[1] /\ Len(waiters) \in Nat
    BY <1>1
  <2>2. i > 1
    BY <1>1, <2>1 DEF IsFront
  <2>3. Len(w) >= 1 /\ w[1] = waiters[1]
    BY <1>1, <1>3, <2>2
  <2> QED
    BY <1>3, <2>1, <2>3
<1> QED
  BY <1>3, <1>4, <1>5, <1>6, <1>7 DEF w
-----------------------------------------------------------------------------
(* Types *)

Types == TypeOK /\ Places

\* A permit that is given back was taken.
Positive ==
    /\ \A r \in Requests : request[r].held # None => server[request[r].held].active >= 1
    /\ \A c \in Connectors : pc[c] = "busy" => server[target[c]].active >= 1
    /\ \A s \in Servers : server[s].idle > 0 => server[s].active >= 1

Healths == {"Unchecked", "Unknown", "Healthy", "Unhealthy"}

LEMMA EndpointFields ==
    ASSUME NEW e \in Endpoints
    PROVE  /\ \A n \in Nat : [e EXCEPT !.active = n] \in Endpoints
           /\ \A n \in Nat : [e EXCEPT !.idle = n] \in Endpoints
           /\ \A n, m \in Nat : [e EXCEPT !.idle = n, !.active = m] \in Endpoints
           /\ \A x \in States : [e EXCEPT !.administrative = x] \in Endpoints
           /\ \A x \in HealthOverrides : [e EXCEPT !.override = x] \in Endpoints
           /\ \A x \in Overrides \cup {0} : [e EXCEPT !.limit = x] \in Endpoints
           /\ [e EXCEPT !.checks = ~@] \in Endpoints
           /\ \A x \in {"no", "now", "lapsed"} : [e EXCEPT !.ejected = x] \in Endpoints
           /\ \A x \in Healths : [e EXCEPT !.health = x] \in Endpoints
           /\ \A n \in 0..(RecoverAfter - 1) : [e EXCEPT !.successes = n] \in Endpoints
           /\ \A n \in 0..(UnhealthyThreshold - 1) : [e EXCEPT !.failures = n] \in Endpoints
           /\ \A n \in 0..(ErrorLimit - 1) : [e EXCEPT !.passive = n] \in Endpoints
<1> USE PoolAssumption DEF Endpoints
<1>1. /\ \A n \in Nat : [e EXCEPT !.active = n] \in Endpoints
      /\ \A n \in Nat : [e EXCEPT !.idle = n] \in Endpoints
  OBVIOUS
<1>2. \A n, m \in Nat : [e EXCEPT !.idle = n, !.active = m] \in Endpoints
  OBVIOUS
<1>3. \A x \in States : [e EXCEPT !.administrative = x] \in Endpoints
  OBVIOUS
<1>4. /\ \A x \in HealthOverrides : [e EXCEPT !.override = x] \in Endpoints
      /\ \A x \in Overrides \cup {0} : [e EXCEPT !.limit = x] \in Endpoints
  OBVIOUS
<1>5. /\ [e EXCEPT !.checks = ~@] \in Endpoints
      /\ \A x \in {"no", "now", "lapsed"} : [e EXCEPT !.ejected = x] \in Endpoints
  OBVIOUS
<1>6. \A x \in Healths : [e EXCEPT !.health = x] \in Endpoints
  BY DEF Healths
<1>7. /\ \A n \in 0..(RecoverAfter - 1) : [e EXCEPT !.successes = n] \in Endpoints
      /\ \A n \in 0..(UnhealthyThreshold - 1) : [e EXCEPT !.failures = n] \in Endpoints
      /\ \A n \in 0..(ErrorLimit - 1) : [e EXCEPT !.passive = n] \in Endpoints
  OBVIOUS
<1> QED
  BY <1>1, <1>2, <1>3, <1>4, <1>5, <1>6, <1>7

LEMMA RecordTypes ==
    ASSUME NEW e \in Endpoints
    PROVE  /\ RecordSuccess(e) \in Endpoints
           /\ RecordFailure(e) \in Endpoints
           /\ RecordPassiveFailure(e) \in Endpoints
<1> USE PoolAssumption
<1>0. /\ \A n \in Nat : /\ Kept(n, RecoverAfter) \in 0..(RecoverAfter - 1)
                        /\ Kept(n, UnhealthyThreshold) \in 0..(UnhealthyThreshold - 1)
                        /\ Kept(n, ErrorLimit) \in 0..(ErrorLimit - 1)
      /\ RecoverAfter \in Nat \ {0}
      /\ 0 \in 0..(RecoverAfter - 1) /\ 0 \in 0..(UnhealthyThreshold - 1)
      /\ 0 \in 0..(ErrorLimit - 1)
  BY DEF Kept, RecoverAfter
<1>1. RecordFailure(e) \in Endpoints
  <2> DEFINE n == Kept(e.failures + 1, UnhealthyThreshold)
             h == IF e.health \in {"Unknown", "Healthy"} /\ e.failures + 1 >= UnhealthyThreshold
                    THEN "Unhealthy" ELSE e.health
  <2>1. n \in 0..(UnhealthyThreshold - 1) /\ h \in Healths
    BY <1>0 DEF Endpoints, Healths
  <2>2. RecordFailure(e) = [e EXCEPT !.failures = n, !.successes = 0, !.health = h]
    BY DEF RecordFailure
  <2> HIDE DEF n, h
  <2>3. [e EXCEPT !.failures = n] \in Endpoints
    BY <2>1, EndpointFields
  <2>4. [e EXCEPT !.failures = n, !.successes = 0] \in Endpoints
    BY <1>0, <2>3, EndpointFields
  <2>5. [e EXCEPT !.failures = n, !.successes = 0, !.health = h] \in Endpoints
    BY <2>1, <2>4, EndpointFields
  <2> QED
    BY <2>2, <2>5
<1>2. RecordPassiveFailure(e) \in Endpoints
  <2> DEFINE n == Kept(e.passive + 1, ErrorLimit)
             h == IF MarkDown THEN "Unhealthy" ELSE e.health
  <2>1. n \in 0..(ErrorLimit - 1) /\ h \in Healths
    BY <1>0 DEF Endpoints, Healths
  <2>2. RecordPassiveFailure(e) \in {[e EXCEPT !.passive = n],
                                    [e EXCEPT !.ejected = "now", !.passive = 0, !.health = h]}
    BY DEF RecordPassiveFailure
  <2> HIDE DEF n, h
  <2>3. [e EXCEPT !.passive = n] \in Endpoints
    BY <2>1, EndpointFields
  <2>4. [e EXCEPT !.ejected = "now"] \in Endpoints
    BY EndpointFields
  <2>5. [e EXCEPT !.ejected = "now", !.passive = 0] \in Endpoints
    BY <1>0, <2>4, EndpointFields
  <2>6. [e EXCEPT !.ejected = "now", !.passive = 0, !.health = h] \in Endpoints
    BY <2>1, <2>5, EndpointFields
  <2> QED
    BY <2>2, <2>3, <2>6
<1>3. RecordSuccess(e) \in Endpoints
  <2> DEFINE n == Kept(e.successes + 1, RecoverAfter)
             x == e.successes + 1 >= RecoverAfter /\ e.ejected # "no"
             g == IF e.health \in {"Unknown", "Unhealthy"} /\ e.successes + 1 >= HealthyThreshold
                    THEN "Healthy" ELSE e.health
             h == IF x /\ MarkUp THEN "Healthy" ELSE g
             j == IF x THEN "no" ELSE e.ejected
             k == IF x THEN 0 ELSE e.passive
  <2>1. n \in 0..(RecoverAfter - 1) /\ h \in Healths /\ j \in {"no", "now", "lapsed"}
    BY <1>0 DEF Endpoints, Healths
  <2>2. k \in 0..(ErrorLimit - 1)
    BY DEF Endpoints
  <2>3. RecordSuccess(e) = [e EXCEPT !.successes = n, !.failures = 0, !.health = h,
                                     !.ejected = j, !.passive = k]
    BY DEF RecordSuccess
  <2> HIDE DEF n, h, j, k
  <2>4. [e EXCEPT !.successes = n] \in Endpoints
    BY <2>1, EndpointFields
  <2>5. [e EXCEPT !.successes = n, !.failures = 0] \in Endpoints
    BY <1>0, <2>4, EndpointFields
  <2>6. [e EXCEPT !.successes = n, !.failures = 0, !.health = h] \in Endpoints
    BY <2>1, <2>5, EndpointFields
  <2>7. [e EXCEPT !.successes = n, !.failures = 0, !.health = h, !.ejected = j] \in Endpoints
    BY <2>1, <2>6, EndpointFields
  <2>8. [e EXCEPT !.successes = n, !.failures = 0, !.health = h, !.ejected = j, !.passive = k]
          \in Endpoints
    BY <2>2, <2>7, EndpointFields
  <2> QED
    BY <2>3, <2>8
<1> QED
  BY <1>1, <1>2, <1>3


LEMMA ServerType ==
    ASSUME Types, Holders, Positive, Next
    PROVE  server' \in [Servers -> Endpoints]
<1> USE PoolAssumption
<1>0. /\ server \in [Servers -> Endpoints]
      /\ \A s \in Servers : server[s].active \in Nat /\ server[s].idle \in Nat
      /\ \A r \in Requests : request[r].held \in Servers \cup {None}
  BY DEF Types, TypeOK, Endpoints, Selections
<1>1. ASSUME NEW s \in Servers, NEW e \in Endpoints, server' = [server EXCEPT ![s] = e]
      PROVE  server' \in [Servers -> Endpoints]
  BY <1>0, <1>1
<1>2. ASSUME NEW s \in Servers, server[s].active >= 1, server' = Freed(s)
      PROVE  server' \in [Servers -> Endpoints]
  <2>1. server[s] \in Endpoints /\ server[s].active - 1 \in Nat
    BY <1>0, <1>2
  <2>2. [server[s] EXCEPT !.active = server[s].active - 1] \in Endpoints
    BY <2>1, EndpointFields
  <2> QED
    BY <1>1, <1>2, <2>2 DEF Freed
<1>3. ASSUME NEW s \in Servers, server' = Took(s)
      PROVE  server' \in [Servers -> Endpoints]
  <2>1. server[s] \in Endpoints /\ server[s].active + 1 \in Nat
    BY <1>0
  <2>2. [server[s] EXCEPT !.active = server[s].active + 1] \in Endpoints
    BY <2>1, EndpointFields
  <2> QED
    BY <1>1, <1>3, <2>2 DEF Took
<1>4. ASSUME NEW t \in Threads, Notify(t)
      PROVE  server' = server
  BY <1>4 DEF Notify, NotifyGeneration, NotifyBroadcast, NotifyFront, NotifyOne
<1>5. ASSUME NEW r \in Requests, Enqueue(r) \/ Look(r) \/ ReadSaturated(r) \/ Unselected(r)
                                   \/ Wake(r) \/ GiveUp(r) \/ Leave(r)
      PROVE  server' = server
  BY <1>5 DEF Enqueue, Look, ReadSaturated, Unselected, Wake, GiveUp, Leave
<1>6. ASSUME NEW r \in Requests, NEW s \in Servers, TryAcquire(r, s)
      PROVE  server' \in [Servers -> Endpoints]
  BY <1>0, <1>3, <1>6 DEF TryAcquire
<1>7. ASSUME NEW r \in Requests, Recheck(r) \/ Release(r)
      PROVE  server' \in [Servers -> Endpoints]
  <2>1. request[r].held # None
    BY <1>7 DEF Recheck, Release, Runs, Holders
  <2> QED
    BY <1>0, <1>2, <1>7, <2>1 DEF Recheck, Release, Positive
<1>8. ASSUME NEW c \in Connectors, NothingIdle(c) \/ EnableAndCompare(c) \/ ConnectorWakes(c)
                                    \/ ConnectorGivesUp(c) \/ \E s \in Servers : SelectTarget(c, s)
      PROVE  server' = server
  BY <1>8 DEF NothingIdle, EnableAndCompare, ConnectorWakes, ConnectorGivesUp, SelectTarget
<1>9. ASSUME NEW c \in Connectors, Reuse(c)
      PROVE  server' \in [Servers -> Endpoints]
  <2> DEFINE s == target[c]
  <2>1. s \in Servers /\ server[s].idle > 0 /\ server[s].active >= 1
    BY <1>9 DEF Reuse, Runs, Types, Places, PlaceOf, Threads, Positive
  <2> HIDE DEF s
  <2>2. server[s].idle - 1 \in Nat /\ server[s].active - 1 \in Nat
    BY <1>0, <2>1
  <2>3. /\ [server[s] EXCEPT !.idle = @ - 1] \in Endpoints
        /\ [server[s] EXCEPT !.idle = @ - 1, !.active = @ - 1] \in Endpoints
    BY <1>0, <2>1, <2>2, EndpointFields
  <2> QED
    BY <1>1, <1>9, <2>1, <2>3 DEF Reuse, s
<1>10. ASSUME NEW c \in Connectors, TryConnect(c)
       PROVE  server' \in [Servers -> Endpoints]
  BY <1>0, <1>3, <1>10 DEF TryConnect, Runs, Types, Places, PlaceOf, Threads
<1>11. ASSUME NEW c \in Connectors, KeepAlive(c)
       PROVE  server' \in [Servers -> Endpoints]
  <2>1. target[c] \in Servers
    BY <1>11 DEF KeepAlive, Runs, Types, Places, PlaceOf, Threads
  <2>2. server[target[c]].idle + 1 \in Nat /\ server[target[c]] \in Endpoints
    BY <1>0, <2>1
  <2>3. [server[target[c]] EXCEPT !.idle = @ + 1] \in Endpoints
    BY <2>2, EndpointFields
  <2> QED
    BY <1>1, <1>11, <2>1, <2>3 DEF KeepAlive
<1>12. ASSUME NEW c \in Connectors, Close(c)
       PROVE  server' \in [Servers -> Endpoints]
  BY <1>2, <1>12 DEF Close, Runs, Types, Places, PlaceOf, Threads, Positive
<1>13. ASSUME NEW o \in Operators, NEW s \in Managed, IdleCloses(o, s)
       PROVE  server' \in [Servers -> Endpoints]
  <2>1. s \in Servers /\ server[s].idle - 1 \in Nat /\ server[s].active - 1 \in Nat
    BY <1>0, <1>13 DEF IdleCloses, Positive
  <2>2. [server[s] EXCEPT !.idle = @ - 1, !.active = @ - 1] \in Endpoints
    BY <1>0, <2>1, EndpointFields
  <2>3. server' = [server EXCEPT ![s] = [server[s] EXCEPT !.idle = @ - 1, !.active = @ - 1]]
    BY <1>0, <1>13, <2>1 DEF IdleCloses
  <2> QED
    BY <1>1, <2>1, <2>2, <2>3
<1>14. ASSUME NEW o \in Operators, NEW s \in Managed,
              \/ \E state \in States : SetAdministrativeState(o, s, state)
              \/ \E override \in HealthOverrides : SetHealthOverride(o, s, override)
              \/ \E limit \in Overrides \cup {0} : SetMaxConnections(o, s, limit)
              \/ SetChecksEnabled(o, s)
       PROVE  server' \in [Servers -> Endpoints]
  <2>1. s \in Servers /\ server[s] \in Endpoints
    BY <1>0
  <2> QED
    BY <1>0, <1>1, <1>14, <2>1, EndpointFields
    DEF SetAdministrativeState, SetHealthOverride, SetMaxConnections, SetChecksEnabled
<1>15. ASSUME NEW o \in Operators, \/ \E state \in States : SetAllAdministrativeStates(o, state)
                                   \/ \E s \in Managed : ProbeStarts(o, s)
       PROVE  server' = server
  BY <1>15 DEF SetAllAdministrativeStates, ProbeStarts
<1>16. ASSUME NEW o \in Operators, NEW s \in Servers, StoreNext(o, s)
       PROVE  server' \in [Servers -> Endpoints]
  <2>1. target[o].state \in States
    BY <1>16 DEF StoreNext, Runs, Types, Places, PlaceOf, Threads
  <2> QED
    BY <1>0, <1>1, <1>16, <2>1, EndpointFields DEF StoreNext
<1>17. ASSUME NEW o \in Operators, NEW healthy \in BOOLEAN, ProbeEnds(o, healthy)
       PROVE  server' \in [Servers -> Endpoints]
  BY <1>0, <1>1, <1>17, RecordTypes DEF ProbeEnds, Runs, Types, Places, PlaceOf, Threads
<1>18. ASSUME NEW o \in Operators, NEW s \in Managed, PassiveFailure(o, s)
       PROVE  server' \in [Servers -> Endpoints]
  BY <1>0, <1>1, <1>18, RecordTypes DEF PassiveFailure
<1>19. ASSUME NEW s \in Servers, EjectionLapses(s)
       PROVE  server' \in [Servers -> Endpoints]
  BY <1>0, <1>1, <1>19, EndpointFields DEF EjectionLapses
<1>20. CASE \E r \in Requests : RequestStep(r)
  BY <1>0, <1>20, <1>5, <1>6, <1>7 DEF RequestStep
<1>21. CASE \E c \in Connectors : ConnectorStep(c)
  BY <1>0, <1>21, <1>8, <1>9, <1>10, <1>11, <1>12 DEF ConnectorStep
<1>22. CASE \E o \in Operators : OperatorStep(o)
  BY <1>0, <1>22, <1>13, <1>14, <1>15, <1>16, <1>17, <1>18 DEF OperatorStep
<1> QED
  BY <1>0, <1>4, <1>19, <1>20, <1>21, <1>22 DEF Next


LEMMA CountedIsPositive ==
    ASSUME Types, PermitsAreCounted
    PROVE  Positive
<1> USE PoolAssumption
<1>0. ASSUME NEW s \in Servers
      PROVE  /\ server[s].active \in Nat /\ server[s].idle \in Nat
             /\ request \in [Requests -> Selections]
             /\ IsFiniteSet({r \in Requests : request[r].held = s})
             /\ IsFiniteSet({c \in Connectors : pc[c] = "busy" /\ target[c] = s})
  BY FS_Subset DEF Types, TypeOK, Endpoints
<1>1. ASSUME NEW s \in Servers
      PROVE  server[s].active >= Cardinality({r \in Requests : request[r].held = s})
             /\ server[s].active >= server[s].idle
             /\ server[s].active >= Cardinality({c \in Connectors : pc[c] = "busy" /\ target[c] = s})
  <2> DEFINE n == Cardinality({r \in Requests : request[r].held = s})
             m == Cardinality({c \in Connectors : pc[c] = "busy" /\ target[c] = s})
  <2>1. n \in Nat /\ m \in Nat /\ server[s].active \in Nat /\ server[s].idle \in Nat
    BY <1>0, FS_CardinalityType
  <2>2. server[s].active = n + m + server[s].idle
    BY DEF PermitsAreCounted
  <2> HIDE DEF n, m
  <2>3. server[s].active >= n /\ server[s].active >= server[s].idle /\ server[s].active >= m
    BY <2>1, <2>2
  <2> QED
    BY <2>3 DEF n, m
<1>2. ASSUME NEW X, IsFiniteSet(X), NEW x \in X
      PROVE  Cardinality(X) >= 1
  BY <1>2, FS_EmptySet, FS_CardinalityType
<1>3. ASSUME NEW r \in Requests, request[r].held # None
      PROVE  server[request[r].held].active >= 1
  <2> DEFINE s == request[r].held
             X == {q \in Requests : request[q].held = s}
  <2>1. s \in Servers
    BY <1>3 DEF Types, TypeOK, Selections
  <2>2. r \in X /\ IsFiniteSet(X)
    BY <1>0, <2>1
  <2>3. Cardinality(X) >= 1
    BY <1>2, <2>2
  <2>4. server[s].active >= Cardinality(X) /\ server[s].active \in Nat /\ Cardinality(X) \in Nat
    BY <1>0, <1>1, <2>1, <2>2, FS_CardinalityType
  <2> QED
    BY <2>3, <2>4
<1>4. ASSUME NEW c \in Connectors, pc[c] = "busy"
      PROVE  server[target[c]].active >= 1
  <2> DEFINE s == target[c]
             X == {d \in Connectors : pc[d] = "busy" /\ target[d] = s}
  <2>1. s \in Servers
    BY <1>4 DEF Types, Places, PlaceOf, Threads
  <2>2. c \in X /\ IsFiniteSet(X)
    BY <1>0, <1>4, <2>1
  <2>3. Cardinality(X) >= 1
    BY <1>2, <2>2
  <2>4. server[s].active >= Cardinality(X) /\ server[s].active \in Nat /\ Cardinality(X) \in Nat
    BY <1>0, <1>1, <2>1, <2>2, FS_CardinalityType
  <2> QED
    BY <2>3, <2>4
<1>5. ASSUME NEW s \in Servers, server[s].idle > 0
      PROVE  server[s].active >= 1
  <2>1. server[s].active \in Nat /\ server[s].idle \in Nat /\ server[s].active >= server[s].idle
    BY <1>0, <1>1
  <2> QED
    BY <1>5, <2>1
<1> QED
  BY <1>3, <1>4, <1>5 DEF Positive

LEMMA RequestType ==
    ASSUME Types, Candidates, Next
    PROVE  request' \in [Requests -> Selections] /\ Candidates'
<1> USE PoolAssumption
<1>0. request \in [Requests -> Selections]
  BY DEF Types, TypeOK
<1>1. ASSUME NEW r \in Requests, NEW x \in Selections, x.candidates \subseteq Ask[r],
             request' = [request EXCEPT ![r] = x]
      PROVE  request' \in [Requests -> Selections] /\ Candidates'
  BY <1>0, <1>1 DEF Candidates
<1>2. ASSUME request' = request
      PROVE  request' \in [Requests -> Selections] /\ Candidates'
  BY <1>0, <1>2 DEF Candidates
<1>3. ASSUME NEW r \in Requests
      PROVE  /\ request[r] \in Selections /\ request[r].candidates \subseteq Ask[r]
             /\ Ask[r] \subseteq Servers
             /\ \A X \in SUBSET Servers : [request[r] EXCEPT !.candidates = X] \in Selections
             /\ \A b \in BOOLEAN : [request[r] EXCEPT !.saturated = b] \in Selections
             /\ \A h \in Servers \cup {None} : [request[r] EXCEPT !.held = h] \in Selections
  <2>1. request[r] \in Selections /\ request[r].candidates \subseteq Ask[r] /\ Ask[r] \subseteq Servers
    BY <1>0 DEF Candidates
  <2> QED
    BY <2>1 DEF Selections
<1>4. ASSUME NEW t \in Threads, Notify(t)
      PROVE  request' = request
  BY <1>4 DEF Notify, NotifyGeneration, NotifyBroadcast, NotifyFront, NotifyOne
<1>5. ASSUME NEW r \in Requests, Enqueue(r) \/ Wake(r) \/ GiveUp(r) \/ Leave(r)
      PROVE  request' = request
  BY <1>5 DEF Enqueue, Wake, GiveUp, Leave
<1>6. ASSUME NEW r \in Requests, Look(r)
      PROVE  request' \in [Requests -> Selections] /\ Candidates'
  <2> DEFINE X == {s \in Ask[r] : Selectable(s)}
  <2>1. X \in SUBSET Servers /\ X \subseteq Ask[r]
    BY <1>3
  <2>2. CASE request' = [request EXCEPT ![r].candidates = X]
    <3> HIDE DEF X
    <3>1. [request[r] EXCEPT !.candidates = X] \in Selections
      BY <1>3, <2>1
    <3>2. [request[r] EXCEPT !.candidates = X].candidates = X
      BY <1>3 DEF Selections
    <3> QED
      BY <1>1, <2>1, <2>2, <3>1, <3>2
  <2> QED
    BY <1>2, <1>6, <2>2 DEF Look
<1>7. ASSUME NEW r \in Requests, ReadSaturated(r)
      PROVE  request' \in [Requests -> Selections] /\ Candidates'
  <2> DEFINE b == \E s \in request[r].candidates : ~HasCapacity(s)
  <2>1. b \in BOOLEAN /\ request' = [request EXCEPT ![r].saturated = b]
    BY <1>7 DEF ReadSaturated
  <2> HIDE DEF b
  <2>2. /\ [request[r] EXCEPT !.saturated = b] \in Selections
        /\ [request[r] EXCEPT !.saturated = b].candidates = request[r].candidates
    BY <1>3, <2>1 DEF Selections
  <2> QED
    BY <1>1, <1>3, <2>1, <2>2
<1>8. ASSUME NEW r \in Requests, NEW s \in Servers, TryAcquire(r, s)
      PROVE  request' \in [Requests -> Selections] /\ Candidates'
  <2>1. /\ [request[r] EXCEPT !.held = s] \in Selections
        /\ [request[r] EXCEPT !.held = s].candidates \subseteq Ask[r]
    BY <1>3 DEF Selections
  <2>2. /\ [request[r] EXCEPT !.candidates = @ \ {s}] \in Selections
        /\ [request[r] EXCEPT !.candidates = @ \ {s}].candidates \subseteq Ask[r]
    BY <1>3 DEF Selections
  <2> QED
    BY <1>1, <1>8, <2>1, <2>2 DEF TryAcquire
<1>9. ASSUME NEW r \in Requests, Recheck(r)
      PROVE  request' \in [Requests -> Selections] /\ Candidates'
  <2> DEFINE x == [request[r] EXCEPT !.candidates = {}, !.saturated = FALSE]
             y == [request[r] EXCEPT !.held = None, !.candidates = @ \ {request[r].held}]
  <2>1. x \in Selections /\ x.candidates \subseteq Ask[r]
    BY <1>3 DEF Selections
  <2>2. y \in Selections /\ y.candidates \subseteq Ask[r]
    BY <1>3 DEF Selections
  <2>3. request' = [request EXCEPT ![r] = x] \/ request' = [request EXCEPT ![r] = y]
    BY <1>0, <1>9 DEF Recheck
  <2> HIDE DEF x, y
  <2> QED
    BY <1>1, <2>1, <2>2, <2>3
<1>10. ASSUME NEW r \in Requests, Unselected(r)
       PROVE  request' \in [Requests -> Selections] /\ Candidates'
  <2>1. /\ [request[r] EXCEPT !.saturated = FALSE] \in Selections
        /\ [request[r] EXCEPT !.saturated = FALSE].candidates \subseteq Ask[r]
    BY <1>3 DEF Selections
  <2> QED
    BY <1>1, <1>10, <2>1 DEF Unselected
<1>11. ASSUME NEW r \in Requests, Release(r)
       PROVE  request' \in [Requests -> Selections] /\ Candidates'
  <2>1. /\ [request[r] EXCEPT !.held = None] \in Selections
        /\ [request[r] EXCEPT !.held = None].candidates \subseteq Ask[r]
    BY <1>3 DEF Selections
  <2> QED
    BY <1>1, <1>11, <2>1 DEF Release
<1>12. ASSUME NEW c \in Connectors, ConnectorStep(c)
       PROVE  request' = request
  BY <1>12 DEF ConnectorStep, SelectTarget, Reuse, NothingIdle, TryConnect, EnableAndCompare,
     ConnectorWakes, ConnectorGivesUp, KeepAlive, Close, ConnectorUnchanged
<1>13. ASSUME NEW o \in Operators, OperatorStep(o)
       PROVE  request' = request
  BY <1>13 DEF OperatorStep, IdleCloses, SetAdministrativeState, SetAllAdministrativeStates,
     StoreNext, SetHealthOverride, SetMaxConnections, SetChecksEnabled, ProbeStarts, ProbeEnds,
     PassiveFailure, OperatorUnchanged
<1>14. ASSUME NEW s \in Servers, EjectionLapses(s)
       PROVE  request' = request
  BY <1>14 DEF EjectionLapses
<1>15. ASSUME NEW r \in Requests, RequestStep(r)
       PROVE  request' \in [Requests -> Selections] /\ Candidates'
  BY <1>2, <1>5, <1>6, <1>7, <1>8, <1>9, <1>10, <1>11, <1>15 DEF RequestStep
<1> QED
  BY <1>2, <1>4, <1>12, <1>13, <1>14, <1>15 DEF Next


ThreadTypes ==
    /\ pc \in [Threads -> ProgramCounters]
    /\ todo \in [Threads -> {"none", "generation", "broadcast", "front", "one"}]
    /\ front \in [Threads -> Requests \cup {None}]

RestTypes ==
    /\ stale \subseteq Connectors
    /\ notified \subseteq Requests \cup Connectors
    /\ permit \subseteq Requests
    /\ events \in 0..MaxEvents

\* The thread t moves, and nobody else does.
Moves(t) ==
    /\ target' = [u \in Connectors \cup Operators |-> target'[u]]
    /\ \A u \in Threads \ {t} : /\ pc'[u] = pc[u]
                                /\ u \in Connectors \cup Operators => target'[u] = target[u]
    /\ PlaceOf(t)'


LEMMA ThreadType ==
    ASSUME ThreadTypes, waiters \in Seq(Requests), Next
    PROVE  ThreadTypes'
<1> USE PoolAssumption
<1>1. ASSUME NEW t \in Threads, NotifyGeneration(t) \/ NotifyBroadcast(t)
      PROVE  ThreadTypes'
  BY <1>1
  DEF NotifyGeneration, NotifyBroadcast, Listening, ThreadTypes, ProgramCounters, Threads
<1>2. ASSUME NEW t \in Threads, NotifyFront(t)
      PROVE  ThreadTypes'
  BY <1>2 DEF NotifyFront, ThreadTypes, ProgramCounters, Threads
<1>3. ASSUME NEW t \in Threads, NotifyOne(t)
      PROVE  ThreadTypes'
  BY <1>3 DEF NotifyOne, Enabled, ThreadTypes, ProgramCounters, Threads
<1>4. ASSUME NEW r \in Requests,
             \/ Enqueue(r)
             \/ Look(r)
             \/ ReadSaturated(r)
             \/ \E s \in Servers : TryAcquire(r, s)
      PROVE  ThreadTypes'
  BY <1>4
  DEF Enqueue, Look, ReadSaturated, TryAcquire, Starts, Runs, Goes, Quiet, QueueUnchanged, Took,
     ThreadTypes, ProgramCounters, Threads
<1>5. ASSUME NEW r \in Requests, Recheck(r) \/ Unselected(r) \/ Wake(r) \/ GiveUp(r)
      PROVE  ThreadTypes'
  BY <1>5
  DEF Recheck, Unselected, Wake, GiveUp, Runs, Goes, Quiet, QueueUnchanged, Freed, Notifies,
     ThreadTypes, ProgramCounters, Threads
<1>6. ASSUME NEW r \in Requests, Leave(r) \/ Release(r)
      PROVE  ThreadTypes'
  BY <1>6
  DEF Leave, Release, Runs, Goes, Quiet, QueueUnchanged, Freed, Notifies, ThreadTypes,
     ProgramCounters, Threads
<1>7. ASSUME NEW c \in Connectors,
             \/ \E s \in Servers : SelectTarget(c, s)
             \/ Reuse(c)
             \/ NothingIdle(c)
      PROVE  ThreadTypes'
  BY <1>7
  DEF SelectTarget, Reuse, NothingIdle, Starts, Runs, Goes, Quiet, ConnectorUnchanged, Notifies,
     ThreadTypes, ProgramCounters, Threads
<1>8. ASSUME NEW c \in Connectors, TryConnect(c) \/ EnableAndCompare(c) \/ ConnectorWakes(c) \/ ConnectorGivesUp(c)
      PROVE  ThreadTypes'
  BY <1>8
  DEF TryConnect, EnableAndCompare, ConnectorWakes, ConnectorGivesUp, Runs, Goes, Quiet,
     ConnectorUnchanged, Took, Compare, Ended, ThreadTypes, ProgramCounters, Threads
<1>9. ASSUME NEW c \in Connectors, KeepAlive(c) \/ Close(c)
      PROVE  ThreadTypes'
  BY <1>9
  DEF KeepAlive, Close, Runs, Goes, Quiet, ConnectorUnchanged, Ended, Notifies, Freed,
     ThreadTypes, ProgramCounters, Threads
<1>10. ASSUME NEW o \in Operators,
              \/ \E s \in Managed : IdleCloses(o, s)
              \/ \E s \in Managed, state \in States : SetAdministrativeState(o, s, state)
              \/ \E s \in Managed, override \in HealthOverrides : SetHealthOverride(o, s, override)
              \/ \E s \in Managed, limit \in Overrides \cup {0} : SetMaxConnections(o, s, limit)
              \/ \E s \in Managed : SetChecksEnabled(o, s)
       PROVE  ThreadTypes'
  BY <1>10
  DEF IdleCloses, SetAdministrativeState, SetHealthOverride, SetMaxConnections,
     SetChecksEnabled, Runs, Starts, Goes, Notifies, OperatorUnchanged, ThreadTypes,
     ProgramCounters, Threads
<1>11. ASSUME NEW o \in Operators,
              \/ \E state \in States : SetAllAdministrativeStates(o, state)
              \/ \E s \in Servers : StoreNext(o, s)
              \/ \E s \in Managed : ProbeStarts(o, s)
       PROVE  ThreadTypes'
  BY <1>11
  DEF SetAllAdministrativeStates, StoreNext, ProbeStarts, Runs, Starts, Goes, Notifies,
     OperatorUnchanged, ThreadTypes, ProgramCounters, Threads
<1>12. ASSUME NEW o \in Operators,
              \/ \E healthy \in BOOLEAN : ProbeEnds(o, healthy)
              \/ \E s \in Managed : PassiveFailure(o, s)
       PROVE  ThreadTypes'
  BY <1>12
  DEF ProbeEnds, PassiveFailure, Runs, Starts, Goes, Notifies, OperatorUnchanged, ThreadTypes,
     ProgramCounters, Threads
<1>13. ASSUME NEW s \in Servers, EjectionLapses(s)
       PROVE  ThreadTypes'
  BY <1>13 DEF EjectionLapses, Quiet, ThreadTypes, ProgramCounters, Threads
<1> QED
  BY <1>1, <1>2, <1>3, <1>4, <1>5, <1>6, <1>7, <1>8, <1>9, <1>10, <1>11, <1>12, <1>13
  DEF Next, Notify, RequestStep, ConnectorStep, OperatorStep


LEMMA RestType ==
    ASSUME RestTypes, front \in [Threads -> Requests \cup {None}], Range(waiters) \subseteq Requests, Next
    PROVE  RestTypes'
<1> USE PoolAssumption
<1>1. ASSUME NEW t \in Threads, NotifyGeneration(t) \/ NotifyBroadcast(t) \/ NotifyFront(t)
      PROVE  RestTypes'
  BY <1>1 DEF NotifyGeneration, NotifyBroadcast, NotifyFront, Listening, RestTypes, Threads
<1>2. ASSUME NEW t \in Threads, NotifyOne(t)
      PROVE  RestTypes'
  <2> DEFINE r == front[t]
  <2>1. /\ UNCHANGED <<stale, events>>
        /\ \/ UNCHANGED <<notified, permit>>
           \/ r \in Range(waiters) /\ notified' = notified \cup {r} /\ permit' = permit
           \/ r \in Range(waiters) /\ permit' = permit \cup {r} /\ notified' = notified
    BY <1>2 DEF NotifyOne
  <2> QED
    BY <2>1 DEF RestTypes
<1>3. ASSUME NEW r \in Requests,
             \/ Enqueue(r)
             \/ Look(r)
             \/ ReadSaturated(r)
             \/ \E s \in Servers : TryAcquire(r, s)
      PROVE  RestTypes'
  BY <1>3
  DEF Enqueue, Look, ReadSaturated, TryAcquire, Starts, Runs, Goes, Quiet, QueueUnchanged, Took,
     RestTypes, Threads
<1>4. ASSUME NEW r \in Requests, Recheck(r) \/ Unselected(r) \/ Wake(r) \/ GiveUp(r)
      PROVE  RestTypes'
  BY <1>4
  DEF Recheck, Unselected, Wake, GiveUp, Runs, Goes, Quiet, QueueUnchanged, Freed, Notifies,
     RestTypes, Threads
<1>5. ASSUME NEW r \in Requests, Leave(r) \/ Release(r)
      PROVE  RestTypes'
  BY <1>5
  DEF Leave, Release, Runs, Goes, Quiet, QueueUnchanged, Freed, Notifies, RestTypes, Threads
<1>6. ASSUME NEW c \in Connectors,
             \/ \E s \in Servers : SelectTarget(c, s)
             \/ Reuse(c)
             \/ NothingIdle(c)
      PROVE  RestTypes'
  BY <1>6
  DEF SelectTarget, Reuse, NothingIdle, Starts, Runs, Goes, Quiet, ConnectorUnchanged, Notifies,
     RestTypes, Threads
<1>7. ASSUME NEW c \in Connectors, TryConnect(c) \/ EnableAndCompare(c) \/ ConnectorWakes(c) \/ ConnectorGivesUp(c)
      PROVE  RestTypes'
  BY <1>7
  DEF TryConnect, EnableAndCompare, ConnectorWakes, ConnectorGivesUp, Runs, Goes, Quiet,
     ConnectorUnchanged, Took, Compare, Ended, RestTypes, Threads
<1>8. ASSUME NEW c \in Connectors, KeepAlive(c) \/ Close(c)
      PROVE  RestTypes'
  BY <1>8
  DEF KeepAlive, Close, Runs, Goes, Quiet, ConnectorUnchanged, Ended, Notifies, Freed,
     RestTypes, Threads
<1>9. ASSUME NEW o \in Operators,
             \/ \E state \in States : SetAllAdministrativeStates(o, state)
             \/ \E s \in Servers : StoreNext(o, s)
             \/ \E s \in Managed : ProbeStarts(o, s)
      PROVE  RestTypes'
  BY <1>9
  DEF SetAllAdministrativeStates, StoreNext, ProbeStarts, Runs, Starts, Goes, Notifies,
     OperatorUnchanged, RestTypes, Threads
<1>10. ASSUME NEW o \in Operators,
              \/ \E healthy \in BOOLEAN : ProbeEnds(o, healthy)
              \/ \E s \in Managed : PassiveFailure(o, s)
       PROVE  RestTypes'
  BY <1>10
  DEF ProbeEnds, PassiveFailure, Runs, Starts, Goes, Notifies, OperatorUnchanged, RestTypes,
     Threads
<1>11. ASSUME NEW s \in Servers, EjectionLapses(s)
       PROVE  RestTypes'
  BY <1>11 DEF EjectionLapses, Quiet, RestTypes, Threads
<1>12. ASSUME NEW o \in Operators, NEW s \in Managed,
              \/ IdleCloses(o, s)
              \/ \E state \in States : SetAdministrativeState(o, s, state)
              \/ \E override \in HealthOverrides : SetHealthOverride(o, s, override)
       PROVE  RestTypes'
  <2>1. events' = events + 1 /\ events < MaxEvents /\ OperatorUnchanged
    BY <1>12 DEF IdleCloses, SetAdministrativeState, SetHealthOverride, Starts
  <2> QED
    BY <2>1 DEF OperatorUnchanged, RestTypes
<1>13. ASSUME NEW o \in Operators, \E s \in Managed, limit \in Overrides \cup {0} : SetMaxConnections(o, s, limit)
       PROVE  RestTypes'
  BY <1>13
  DEF SetMaxConnections, Runs, Starts, Goes, Notifies, OperatorUnchanged, RestTypes, Threads
<1>14. ASSUME NEW o \in Operators, \E s \in Managed : SetChecksEnabled(o, s)
       PROVE  RestTypes'
  BY <1>14
  DEF SetChecksEnabled, Runs, Starts, Goes, Notifies, OperatorUnchanged, RestTypes, Threads
<1> QED
  BY <1>1, <1>2, <1>3, <1>4, <1>5, <1>6, <1>7, <1>8, <1>9, <1>10, <1>11, <1>12, <1>13, <1>14
  DEF Next, Notify, RequestStep, ConnectorStep, OperatorStep


LEMMA PlacesStep ==
    ASSUME Types, Next
    PROVE  Places'
<1> USE PoolAssumption
<1>0. /\ pc \in [Threads -> ProgramCounters]
      /\ target = [t \in Connectors \cup Operators |-> target[t]]
      /\ \A t \in Threads : PlaceOf(t)
  BY DEF Types, TypeOK, Places
<1>a. ASSUME NEW t \in Threads, Moves(t) PROVE Places'
  BY <1>0, <1>a DEF Moves, Places, PlaceOf
<1>b. ASSUME NEW s \in Servers, EjectionLapses(s) PROVE Places'
  BY <1>0, <1>b DEF EjectionLapses, Places, PlaceOf
<1>1. ASSUME NEW t \in Threads, NotifyGeneration(t) \/ NotifyBroadcast(t)
      PROVE  Moves(t)
  BY <1>1, <1>0 DEF NotifyGeneration, NotifyBroadcast, Listening, Moves, PlaceOf, Threads
<1>2. ASSUME NEW t \in Threads, NotifyFront(t) \/ NotifyOne(t)
      PROVE  Moves(t)
  BY <1>2, <1>0 DEF NotifyFront, NotifyOne, Enabled, Moves, PlaceOf, Threads
<1>3. ASSUME NEW r \in Requests, Enqueue(r) \/ Look(r)
      PROVE  Moves(r)
  BY <1>3, <1>0
  DEF Enqueue, Look, Starts, Runs, Goes, Quiet, QueueUnchanged, Moves, PlaceOf, Threads
<1>4. ASSUME NEW r \in Requests,
             \/ ReadSaturated(r)
             \/ \E s \in Servers : TryAcquire(r, s)
      PROVE  Moves(r)
  BY <1>4, <1>0
  DEF ReadSaturated, TryAcquire, Runs, Goes, Quiet, QueueUnchanged, Took, Moves, PlaceOf,
     Threads
<1>5. ASSUME NEW r \in Requests, Recheck(r)
      PROVE  Moves(r)
  BY <1>5, <1>0
  DEF Recheck, Runs, Goes, Quiet, QueueUnchanged, Freed, Notifies, Moves, PlaceOf, Threads
<1>6. ASSUME NEW r \in Requests, Unselected(r) \/ Wake(r) \/ GiveUp(r)
      PROVE  Moves(r)
  BY <1>6, <1>0
  DEF Unselected, Wake, GiveUp, Runs, Goes, Quiet, QueueUnchanged, Moves, PlaceOf, Threads
<1>7. ASSUME NEW r \in Requests, Leave(r) \/ Release(r)
      PROVE  Moves(r)
  BY <1>7, <1>0
  DEF Leave, Release, Runs, Goes, Quiet, QueueUnchanged, Freed, Notifies, Moves, PlaceOf,
     Threads
<1>8. ASSUME NEW c \in Connectors, \E s \in Servers : SelectTarget(c, s)
      PROVE  Moves(c)
  BY <1>8, <1>0
  DEF SelectTarget, Starts, Runs, Goes, Quiet, ConnectorUnchanged, Moves, PlaceOf, Threads
<1>9. ASSUME NEW c \in Connectors, Reuse(c)
      PROVE  Moves(c)
  BY <1>9, <1>0
  DEF Reuse, Runs, Goes, Quiet, ConnectorUnchanged, Notifies, Moves, PlaceOf, Threads
<1>10. ASSUME NEW c \in Connectors, NothingIdle(c)
       PROVE  Moves(c)
  BY <1>10, <1>0 DEF NothingIdle, Runs, Goes, Quiet, ConnectorUnchanged, Moves, PlaceOf, Threads
<1>11. ASSUME NEW c \in Connectors, TryConnect(c)
       PROVE  Moves(c)
  BY <1>11, <1>0
  DEF TryConnect, Runs, Goes, Quiet, ConnectorUnchanged, Took, Compare, Moves, PlaceOf, Threads
<1>12. ASSUME NEW c \in Connectors, EnableAndCompare(c) \/ ConnectorWakes(c)
       PROVE  Moves(c)
  BY <1>12, <1>0
  DEF EnableAndCompare, ConnectorWakes, Runs, Goes, Quiet, ConnectorUnchanged, Compare, Moves,
     PlaceOf, Threads
<1>13. ASSUME NEW c \in Connectors, ConnectorGivesUp(c) \/ KeepAlive(c) \/ Close(c)
       PROVE  Moves(c)
  BY <1>13, <1>0
  DEF ConnectorGivesUp, KeepAlive, Close, Runs, Goes, Quiet, ConnectorUnchanged, Ended,
     Notifies, Freed, Moves, PlaceOf, Threads
<1>14. ASSUME NEW o \in Operators,
              \/ \E s \in Managed : IdleCloses(o, s)
              \/ \E s \in Managed, state \in States : SetAdministrativeState(o, s, state)
              \/ \E s \in Managed, override \in HealthOverrides : SetHealthOverride(o, s, override)
       PROVE  Moves(o)
  BY <1>14, <1>0
  DEF IdleCloses, SetAdministrativeState, SetHealthOverride, Runs, Starts, Goes, Notifies,
     OperatorUnchanged, Moves, PlaceOf, Threads
<1>15. ASSUME NEW o \in Operators,
              \/ \E s \in Managed, limit \in Overrides \cup {0} : SetMaxConnections(o, s, limit)
              \/ \E s \in Managed : SetChecksEnabled(o, s)
       PROVE  Moves(o)
  BY <1>15, <1>0
  DEF SetMaxConnections, SetChecksEnabled, Runs, Starts, Goes, Notifies, OperatorUnchanged,
     Moves, PlaceOf, Threads
<1>16. ASSUME NEW o \in Operators, NEW state \in States, SetAllAdministrativeStates(o, state)
       PROVE  Moves(o)
  <2>1. [state |-> state, left |-> Servers] \in [state : States, left : SUBSET Servers]
    OBVIOUS
  <2> DEFINE x == [state |-> state, left |-> Servers]
  <2>2. pc' = [pc EXCEPT ![o] = "store"] /\ target' = [target EXCEPT ![o] = x]
    BY <1>16 DEF SetAllAdministrativeStates, Goes
  <2> HIDE DEF x
  <2> QED
    BY <1>0, <2>1, <2>2 DEF Moves, PlaceOf, Threads, x
<1>17. ASSUME NEW o \in Operators, NEW s \in Servers, StoreNext(o, s)
       PROVE  Moves(o)
  <2> DEFINE x == [target[o] EXCEPT !.left = @ \ {s}]
  <2>1. pc[o] = "store" /\ target[o] \in [state : States, left : SUBSET Servers]
    BY <1>0, <1>17 DEF StoreNext, Runs, PlaceOf, Threads
  <2>2. x \in [state : States, left : SUBSET Servers]
    BY <2>1
  <2>3. \/ pc' = [pc EXCEPT ![o] = "out"] /\ target' = [target EXCEPT ![o] = None]
        \/ pc' = pc /\ target' = [target EXCEPT ![o] = x]
    BY <1>17 DEF StoreNext, Goes
  <2> HIDE DEF x
  <2>4. CASE pc' = [pc EXCEPT ![o] = "out"] /\ target' = [target EXCEPT ![o] = None]
    BY <1>0, <2>4 DEF Moves, PlaceOf, Threads
  <2>5. CASE pc' = pc /\ target' = [target EXCEPT ![o] = x]
    BY <1>0, <2>1, <2>2, <2>5 DEF Moves, PlaceOf, Threads
  <2> QED
    BY <2>3, <2>4, <2>5
<1>18. ASSUME NEW o \in Operators, \E s \in Managed : ProbeStarts(o, s)
       PROVE  Moves(o)
  BY <1>18, <1>0
  DEF ProbeStarts, Runs, Starts, Goes, Notifies, OperatorUnchanged, Moves, PlaceOf, Threads
<1>19. ASSUME NEW o \in Operators, \E healthy \in BOOLEAN : ProbeEnds(o, healthy)
       PROVE  Moves(o)
  BY <1>19, <1>0
  DEF ProbeEnds, Runs, Starts, Goes, Notifies, OperatorUnchanged, Moves, PlaceOf, Threads
<1>20. ASSUME NEW o \in Operators, \E s \in Managed : PassiveFailure(o, s)
       PROVE  Moves(o)
  BY <1>20, <1>0
  DEF PassiveFailure, Runs, Starts, Goes, Notifies, OperatorUnchanged, Moves, PlaceOf, Threads
<1> QED
  BY <1>0, <1>1, <1>2, <1>3, <1>4, <1>5, <1>6, <1>7, <1>8, <1>9, <1>10, <1>11, <1>12, <1>13,
     <1>14, <1>15, <1>16, <1>17, <1>18, <1>19, <1>20, <1>a, <1>b
  DEF Next, Notify, RequestStep, ConnectorStep, OperatorStep, Threads



-----------------------------------------------------------------------------
(* The FIFO *)

\* The queue stays as it is, and so does who is in it; whoever begins to select heads it.
KeepsQueue ==
    /\ waiters' = waiters
    /\ \A r \in Requests :
         /\ pc'[r] \in {"out", "lease", "gone"} <=> pc[r] \in {"out", "lease", "gone"}
         /\ pc'[r] \in {"full", "try", "recheck"} =>
               pc[r] \in {"full", "try", "recheck"} \/ IsFront(r)

LEMMA Enqueued ==
    ASSUME Types, OnlyTheHeadSelects, NEW r \in Requests, Enqueue(r)
    PROVE  waiters' \in Seq(Requests) /\ OnlyTheHeadSelects'
<1> DEFINE w == waiters
<1>0. /\ w \in Seq(Requests) /\ pc \in [Threads -> ProgramCounters] /\ r \in Threads
      /\ pc[r] = "out" /\ pc' = [pc EXCEPT ![r] = "look"] /\ waiters' = Append(w, r)
      /\ r \notin Range(w)
  BY DEF Types, TypeOK, Enqueue, Starts, Runs, Goes, OnlyTheHeadSelects, Threads
<1>1. /\ Append(w, r) \in Seq(Requests) /\ Len(Append(w, r)) = Len(w) + 1
      /\ \A i \in 1..Len(w) : Append(w, r)[i] = w[i]
      /\ Append(w, r)[Len(w) + 1] = r
  BY <1>0, AppendProperties
<1>2. \A x : x \in Range(w) <=> \E i \in 1..Len(w) : x = w[i]
  BY <1>0 DEF Range
<1>3. \A x : x \in Range(Append(w, r)) <=> x = r \/ x \in Range(w)
  <2>1. \A x : x \in Range(Append(w, r)) <=> \E i \in 1..(Len(w) + 1) : x = Append(w, r)[i]
    BY <1>1 DEF Range
  <2>2. Len(w) \in Nat
    BY <1>0
  <2> QED
    BY <1>1, <1>2, <2>1, <2>2
<1>4. ASSUME NEW i \in 1..(Len(w) + 1), NEW j \in 1..(Len(w) + 1),
             Append(w, r)[i] = Append(w, r)[j]
      PROVE  i = j
  <2>1. Len(w) \in Nat /\ \A k \in 1..Len(w) : w[k] # r
    BY <1>0, <1>2
  <2>2. \A k, l \in 1..Len(w) : w[k] = w[l] => k = l
    BY DEF OnlyTheHeadSelects
  <2> QED
    BY <1>1, <1>4, <2>1, <2>2
<1>5. ASSUME NEW q \in Requests, IsFront(q) PROVE IsFront(q)'
  <2>1. w # <<>> /\ Head(w) = w[1] /\ Len(w) \in Nat \ {0}
    BY <1>0, <1>5 DEF IsFront
  <2>2. Append(w, r) # <<>> /\ Head(Append(w, r)) = Append(w, r)[1] /\ Append(w, r)[1] = w[1]
    BY <1>1, <2>1
  <2> QED
    BY <1>0, <1>5, <2>1, <2>2 DEF IsFront
<1>6. /\ Len(waiters') = Len(w) + 1
      /\ \A i, j \in 1..Len(waiters') : waiters'[i] = waiters'[j] => i = j
  BY <1>0, <1>1, <1>4
<1>7. ASSUME NEW q \in Requests
      PROVE  /\ q \in Range(waiters') <=> pc'[q] \notin {"out", "lease", "gone"}
             /\ pc'[q] \in {"full", "try", "recheck"} => IsFront(q)'
  BY <1>0, <1>3, <1>5 DEF OnlyTheHeadSelects, Threads
<1> QED
  BY <1>0, <1>1, <1>6, <1>7 DEF OnlyTheHeadSelects

LEMMA Left ==
    ASSUME Types, OnlyTheHeadSelects, NEW r \in Requests, Leave(r)
    PROVE  waiters' \in Seq(Requests) /\ OnlyTheHeadSelects'
<1>0. /\ waiters \in Seq(Requests) /\ pc \in [Threads -> ProgramCounters] /\ r \in Threads
      /\ pc[r] = "leave" /\ waiters' = Removed(r)
      /\ \A q \in Requests \ {r} : pc'[q] = pc[q]
      /\ pc'[r] \in {"lease", "gone"}
      /\ r \in Range(waiters) /\ Distinct(waiters)
  BY DEF Types, TypeOK, Leave, Runs, Goes, OnlyTheHeadSelects, Threads, Distinct
<1>1. /\ waiters' \in Seq(Requests) /\ Distinct(waiters')
      /\ Range(waiters') = Range(waiters) \ {r}
      /\ ~IsFront(r) => waiters' # <<>> /\ Head(waiters') = Head(waiters)
  BY <1>0, RemovedProperties
<1>2. ASSUME NEW q \in Requests, pc'[q] \in {"full", "try", "recheck"}
      PROVE  IsFront(q)'
  <2>1. q # r /\ IsFront(q)
    BY <1>0, <1>2 DEF OnlyTheHeadSelects
  <2> QED
    BY <1>1, <2>1 DEF IsFront
<1>3. ASSUME NEW q \in Requests
      PROVE  q \in Range(waiters') <=> pc'[q] \notin {"out", "lease", "gone"}
  BY <1>0, <1>1 DEF OnlyTheHeadSelects
<1> QED
  BY <1>1, <1>2, <1>3 DEF OnlyTheHeadSelects, Distinct


LEMMA FifoStep ==
    ASSUME Types, OnlyTheHeadSelects, Next
    PROVE  waiters' \in Seq(Requests) /\ OnlyTheHeadSelects'
<1> USE PoolAssumption
<1>0. /\ pc \in [Threads -> ProgramCounters] /\ waiters \in Seq(Requests)
      /\ \A r \in Requests : pc[r] \in {"full", "try", "recheck"} => IsFront(r)
  BY DEF Types, TypeOK, OnlyTheHeadSelects
<1>a. ASSUME KeepsQueue PROVE waiters' \in Seq(Requests) /\ OnlyTheHeadSelects'
  BY <1>0, <1>a DEF KeepsQueue, OnlyTheHeadSelects, IsFront
<1>1. ASSUME NEW t \in Threads, NotifyGeneration(t) \/ NotifyBroadcast(t) \/ NotifyFront(t) \/ NotifyOne(t)
      PROVE  KeepsQueue
  BY <1>1, <1>0
  DEF NotifyGeneration, NotifyBroadcast, NotifyFront, NotifyOne, Listening, Enabled, KeepsQueue,
     Threads
<1>2. ASSUME NEW r \in Requests,
             \/ Look(r)
             \/ ReadSaturated(r)
             \/ \E s \in Servers : TryAcquire(r, s)
      PROVE  KeepsQueue
  BY <1>2, <1>0
  DEF Look, ReadSaturated, TryAcquire, Runs, Goes, Quiet, QueueUnchanged, Took, KeepsQueue,
     Threads
<1>3. ASSUME NEW r \in Requests, Recheck(r) \/ Unselected(r)
      PROVE  KeepsQueue
  BY <1>3, <1>0
  DEF Recheck, Unselected, Runs, Goes, Quiet, QueueUnchanged, Freed, Notifies, KeepsQueue,
     Threads
<1>4. ASSUME NEW r \in Requests, Wake(r) \/ GiveUp(r) \/ Release(r)
      PROVE  KeepsQueue
  BY <1>4, <1>0
  DEF Wake, GiveUp, Release, Runs, Goes, Quiet, QueueUnchanged, Freed, Notifies, KeepsQueue,
     Threads
<1>5. ASSUME NEW c \in Connectors,
             \/ \E s \in Servers : SelectTarget(c, s)
             \/ Reuse(c)
             \/ NothingIdle(c)
      PROVE  KeepsQueue
  BY <1>5, <1>0
  DEF SelectTarget, Reuse, NothingIdle, Starts, Runs, Goes, Quiet, ConnectorUnchanged, Notifies,
     KeepsQueue, Threads
<1>6. ASSUME NEW c \in Connectors, TryConnect(c) \/ EnableAndCompare(c) \/ ConnectorWakes(c) \/ ConnectorGivesUp(c)
      PROVE  KeepsQueue
  BY <1>6, <1>0
  DEF TryConnect, EnableAndCompare, ConnectorWakes, ConnectorGivesUp, Runs, Goes, Quiet,
     ConnectorUnchanged, Took, Compare, Ended, KeepsQueue, Threads
<1>7. ASSUME NEW c \in Connectors, KeepAlive(c) \/ Close(c)
      PROVE  KeepsQueue
  BY <1>7, <1>0
  DEF KeepAlive, Close, Runs, Goes, Quiet, ConnectorUnchanged, Ended, Notifies, Freed,
     KeepsQueue, Threads
<1>8. ASSUME NEW o \in Operators,
             \/ \E s \in Managed : IdleCloses(o, s)
             \/ \E s \in Managed, state \in States : SetAdministrativeState(o, s, state)
             \/ \E s \in Managed, override \in HealthOverrides : SetHealthOverride(o, s, override)
             \/ \E s \in Managed, limit \in Overrides \cup {0} : SetMaxConnections(o, s, limit)
             \/ \E s \in Managed : SetChecksEnabled(o, s)
      PROVE  KeepsQueue
  BY <1>8, <1>0
  DEF IdleCloses, SetAdministrativeState, SetHealthOverride, SetMaxConnections,
     SetChecksEnabled, Runs, Starts, Goes, Notifies, OperatorUnchanged, KeepsQueue, Threads
<1>9. ASSUME NEW o \in Operators,
             \/ \E state \in States : SetAllAdministrativeStates(o, state)
             \/ \E s \in Servers : StoreNext(o, s)
             \/ \E s \in Managed : ProbeStarts(o, s)
      PROVE  KeepsQueue
  BY <1>9, <1>0
  DEF SetAllAdministrativeStates, StoreNext, ProbeStarts, Runs, Starts, Goes, Notifies,
     OperatorUnchanged, KeepsQueue, Threads
<1>10. ASSUME NEW o \in Operators,
              \/ \E healthy \in BOOLEAN : ProbeEnds(o, healthy)
              \/ \E s \in Managed : PassiveFailure(o, s)
       PROVE  KeepsQueue
  BY <1>10, <1>0
  DEF ProbeEnds, PassiveFailure, Runs, Starts, Goes, Notifies, OperatorUnchanged, KeepsQueue,
     Threads
<1>11. ASSUME NEW s \in Servers, EjectionLapses(s)
       PROVE  KeepsQueue
  BY <1>11, <1>0 DEF EjectionLapses, Quiet, KeepsQueue, Threads
<1> QED
  BY <1>0, <1>1, <1>2, <1>3, <1>4, <1>5, <1>6, <1>7, <1>8, <1>9, <1>10, <1>11, <1>a, Enqueued,
     Left
  DEF Next, Notify, RequestStep, ConnectorStep, OperatorStep


LEMMA HoldersStep ==
    ASSUME Types, Holders, Next
    PROVE  Holders'
<1> USE PoolAssumption
<1>0. /\ pc \in [Threads -> ProgramCounters] /\ request \in [Requests -> Selections]
  BY DEF Types, TypeOK
<1>1. ASSUME NEW t \in Threads, NotifyGeneration(t) \/ NotifyBroadcast(t) \/ NotifyFront(t) \/ NotifyOne(t)
      PROVE  Holders'
  BY <1>1, <1>0
  DEF NotifyGeneration, NotifyBroadcast, NotifyFront, NotifyOne, Listening, Enabled, Holders,
     Threads, Selections, None
<1>2. ASSUME NEW r \in Requests, Enqueue(r) \/ Look(r)
      PROVE  Holders'
  BY <1>2, <1>0
  DEF Enqueue, Look, Starts, Runs, Goes, Quiet, QueueUnchanged, Holders, Threads, Selections,
     None
<1>3. ASSUME NEW r \in Requests, ReadSaturated(r)
      PROVE  Holders'
  BY <1>3, <1>0
  DEF ReadSaturated, Runs, Goes, Quiet, QueueUnchanged, Holders, Threads, Selections, None
<1>4. ASSUME NEW r \in Requests, \E s \in Servers : TryAcquire(r, s)
      PROVE  Holders'
  BY <1>4, <1>0
  DEF TryAcquire, Runs, Goes, Quiet, QueueUnchanged, Took, Holders, Threads, Selections, None
<1>5. ASSUME NEW r \in Requests, Recheck(r)
      PROVE  Holders'
  BY <1>5, <1>0
  DEF Recheck, Runs, Goes, Quiet, QueueUnchanged, Freed, Notifies, Holders, Threads, Selections,
     None
<1>6. ASSUME NEW r \in Requests, Unselected(r) \/ Wake(r) \/ GiveUp(r)
      PROVE  Holders'
  BY <1>6, <1>0
  DEF Unselected, Wake, GiveUp, Runs, Goes, Quiet, QueueUnchanged, Holders, Threads, Selections,
     None
<1>7. ASSUME NEW r \in Requests, Leave(r)
      PROVE  Holders'
  BY <1>7, <1>0 DEF Leave, Runs, Goes, Holders, Threads, Selections, None
<1>8. ASSUME NEW r \in Requests, Release(r)
      PROVE  Holders'
  BY <1>8, <1>0
  DEF Release, Runs, Goes, Quiet, QueueUnchanged, Freed, Notifies, Holders, Threads, Selections,
     None
<1>9. ASSUME NEW c \in Connectors,
             \/ \E s \in Servers : SelectTarget(c, s)
             \/ Reuse(c)
             \/ NothingIdle(c)
      PROVE  Holders'
  BY <1>9, <1>0
  DEF SelectTarget, Reuse, NothingIdle, Starts, Runs, Goes, Quiet, ConnectorUnchanged, Notifies,
     Holders, Threads, Selections, None
<1>10. ASSUME NEW c \in Connectors, TryConnect(c) \/ EnableAndCompare(c) \/ ConnectorWakes(c) \/ ConnectorGivesUp(c)
       PROVE  Holders'
  BY <1>10, <1>0
  DEF TryConnect, EnableAndCompare, ConnectorWakes, ConnectorGivesUp, Runs, Goes, Quiet,
     ConnectorUnchanged, Took, Compare, Ended, Holders, Threads, Selections, None
<1>11. ASSUME NEW c \in Connectors, KeepAlive(c) \/ Close(c)
       PROVE  Holders'
  BY <1>11, <1>0
  DEF KeepAlive, Close, Runs, Goes, Quiet, ConnectorUnchanged, Ended, Notifies, Freed, Holders,
     Threads, Selections, None
<1>12. ASSUME NEW o \in Operators,
              \/ \E s \in Managed : IdleCloses(o, s)
              \/ \E s \in Managed, state \in States : SetAdministrativeState(o, s, state)
              \/ \E s \in Managed, override \in HealthOverrides : SetHealthOverride(o, s, override)
              \/ \E s \in Managed, limit \in Overrides \cup {0} : SetMaxConnections(o, s, limit)
              \/ \E s \in Managed : SetChecksEnabled(o, s)
       PROVE  Holders'
  BY <1>12, <1>0
  DEF IdleCloses, SetAdministrativeState, SetHealthOverride, SetMaxConnections,
     SetChecksEnabled, Runs, Starts, Goes, Notifies, OperatorUnchanged, Holders, Threads,
     Selections, None
<1>13. ASSUME NEW o \in Operators,
              \/ \E state \in States : SetAllAdministrativeStates(o, state)
              \/ \E s \in Servers : StoreNext(o, s)
              \/ \E s \in Managed : ProbeStarts(o, s)
       PROVE  Holders'
  BY <1>13, <1>0
  DEF SetAllAdministrativeStates, StoreNext, ProbeStarts, Runs, Starts, Goes, Notifies,
     OperatorUnchanged, Holders, Threads, Selections, None
<1>14. ASSUME NEW o \in Operators,
              \/ \E healthy \in BOOLEAN : ProbeEnds(o, healthy)
              \/ \E s \in Managed : PassiveFailure(o, s)
       PROVE  Holders'
  BY <1>14, <1>0
  DEF ProbeEnds, PassiveFailure, Runs, Starts, Goes, Notifies, OperatorUnchanged, Holders,
     Threads, Selections, None
<1>15. ASSUME NEW s \in Servers, EjectionLapses(s)
       PROVE  Holders'
  BY <1>15, <1>0 DEF EjectionLapses, Quiet, Holders, Threads, Selections, None
<1> QED
  BY <1>0, <1>1, <1>2, <1>3, <1>4, <1>5, <1>6, <1>7, <1>8, <1>9, <1>10, <1>11, <1>12, <1>13,
     <1>14, <1>15
  DEF Next, Notify, RequestStep, ConnectorStep, OperatorStep



-----------------------------------------------------------------------------
(* Permits *)

Leases(s) == {r \in Requests : request[r].held = s}

InUse(s) == {c \in Connectors : pc[c] = "busy" /\ target[c] = s}

\* Nothing about permits changes on s.
Uncounted(s) ==
    /\ Leases(s)' = Leases(s) /\ InUse(s)' = InUse(s)
    /\ server'[s].active = server[s].active /\ server'[s].idle = server[s].idle

LEMMA CountIsNatural ==
    ASSUME Types, NEW s \in Servers
    PROVE  /\ IsFiniteSet(Leases(s)) /\ Cardinality(Leases(s)) \in Nat
           /\ IsFiniteSet(InUse(s)) /\ Cardinality(InUse(s)) \in Nat
           /\ server[s].active \in Nat /\ server[s].idle \in Nat
<1>1. IsFiniteSet(Leases(s)) /\ IsFiniteSet(InUse(s))
  BY PoolAssumption, FS_Subset DEF Leases, InUse
<1> QED
  BY <1>1, FS_CardinalityType DEF Types, TypeOK, Endpoints

\* A step that accounts for what it does to the one server it is about.
LEMMA Recounted ==
    ASSUME Types, PermitsAreCounted, NEW s \in Servers,
           \A u \in Servers \ {s} : Uncounted(u),
           server'[s].active = Cardinality(Leases(s)') + Cardinality(InUse(s)') + server'[s].idle
    PROVE  PermitsAreCounted'
<1>1. ASSUME NEW u \in Servers, u # s
      PROVE  server'[u].active = Cardinality(Leases(u)') + Cardinality(InUse(u)') + server'[u].idle
  <2>1. Uncounted(u)
    BY <1>1
  <2>2. server[u].active = Cardinality(Leases(u)) + Cardinality(InUse(u)) + server[u].idle
    BY DEF PermitsAreCounted, Leases, InUse
  <2> QED
    BY <2>1, <2>2 DEF Uncounted
<1>2. ASSUME NEW u \in Servers
      PROVE  server'[u].active = Cardinality(Leases(u)') + Cardinality(InUse(u)') + server'[u].idle
  BY <1>1
<1> QED
  BY <1>2 DEF PermitsAreCounted, Leases, InUse

LEMMA NothingCounts ==
    ASSUME \A r \in Requests : request'[r].held = request[r].held,
           \A c \in Connectors : (pc'[c] = "busy") <=> (pc[c] = "busy"),
           \A c \in Connectors : pc[c] = "busy" => target'[c] = target[c],
           \A s \in Servers : server'[s].active = server[s].active /\ server'[s].idle = server[s].idle
    PROVE  \A s \in Servers : Uncounted(s)
  BY DEF Uncounted, Leases, InUse

LEMMA StillCounted ==
    ASSUME Types, PermitsAreCounted, \A s \in Servers : Uncounted(s)
    PROVE  PermitsAreCounted'
<1>1. ASSUME NEW s \in Servers
      PROVE  server'[s].active = Cardinality(Leases(s)') + Cardinality(InUse(s)') + server'[s].idle
  <2>1. server[s].active = Cardinality(Leases(s)) + Cardinality(InUse(s)) + server[s].idle
    BY DEF PermitsAreCounted, Leases, InUse
  <2> QED
    BY <2>1 DEF Uncounted
<1> QED
  BY <1>1 DEF PermitsAreCounted, Leases, InUse


LEMMA PermitsStep ==
    ASSUME Types, Holders, PermitsAreCounted, Next
    PROVE  PermitsAreCounted'
<1> USE PoolAssumption
<1>0. /\ server \in [Servers -> Endpoints] /\ request \in [Requests -> Selections]
      /\ pc \in [Threads -> ProgramCounters]
      /\ target = [t \in Connectors \cup Operators |-> target[t]]
      /\ Requests \subseteq Threads /\ Connectors \subseteq Threads
      /\ \A s \in Servers : server[s].active \in Nat /\ server[s].idle \in Nat
  BY DEF Types, TypeOK, Places, Threads, Endpoints
<1>1. ASSUME NEW s \in Servers
      PROVE  /\ server[s].active = Cardinality(Leases(s)) + Cardinality(InUse(s)) + server[s].idle
             /\ IsFiniteSet(Leases(s)) /\ Cardinality(Leases(s)) \in Nat
             /\ IsFiniteSet(InUse(s)) /\ Cardinality(InUse(s)) \in Nat
             /\ server[s].active \in Nat /\ server[s].idle \in Nat
  BY CountIsNatural DEF PermitsAreCounted, Leases, InUse
<1>2. ASSUME NEW s \in Servers, NEW r \in Requests, r \notin Leases(s)
      PROVE  Cardinality(Leases(s) \cup {r}) = Cardinality(Leases(s)) + 1
  BY <1>1, <1>2, FS_AddElement
<1>3. ASSUME NEW s \in Servers, NEW r \in Leases(s)
      PROVE  Cardinality(Leases(s) \ {r}) = Cardinality(Leases(s)) - 1
  <2>1. IsFiniteSet(Leases(s))
    BY <1>1
  <2> QED
    BY <2>1, <1>3, FS_RemoveElement
<1>4. ASSUME NEW s \in Servers, NEW c \in Connectors, c \notin InUse(s)
      PROVE  Cardinality(InUse(s) \cup {c}) = Cardinality(InUse(s)) + 1
  BY <1>1, <1>4, FS_AddElement
<1>5. ASSUME NEW s \in Servers, NEW c \in InUse(s)
      PROVE  Cardinality(InUse(s) \ {c}) = Cardinality(InUse(s)) - 1
  <2>1. IsFiniteSet(InUse(s))
    BY <1>1
  <2> QED
    BY <2>1, <1>5, FS_RemoveElement
<1>6. ASSUME NEW r \in Requests, NEW s \in Servers, TryAcquire(r, s)
      PROVE  PermitsAreCounted'
  <2>1. CASE Acquirable(s)
    <3>1. /\ pc[r] = "try" /\ request[r].held = None
          /\ server' = [server EXCEPT ![s].active = @ + 1]
          /\ request' = [request EXCEPT ![r].held = s]
          /\ pc' = [pc EXCEPT ![r] = "recheck"] /\ target' = target
      BY <1>6, <2>1 DEF TryAcquire, Runs, Goes, Took, Holders, QueueUnchanged
    <3>2. /\ Leases(s)' = Leases(s) \cup {r} /\ r \notin Leases(s)
          /\ \A u \in Servers \ {s} : Leases(u)' = Leases(u)
      BY <1>0, <3>1 DEF Leases, Selections, None
    <3>3. \A u \in Servers : InUse(u)' = InUse(u)
      BY <1>0, <3>1 DEF InUse
    <3>4. /\ server'[s].active = server[s].active + 1 /\ server'[s].idle = server[s].idle
          /\ \A u \in Servers \ {s} : server'[u] = server[u]
      BY <1>0, <3>1 DEF Endpoints
    <3>5. server'[s].active = Cardinality(Leases(s)') + Cardinality(InUse(s)') + server'[s].idle
      BY <1>1, <1>2, <3>2, <3>3, <3>4
    <3> QED
      BY <3>2, <3>3, <3>4, <3>5, Recounted DEF Uncounted
  <2>2. CASE ~Acquirable(s)
    <3>1. /\ server' = server /\ pc' = pc /\ target' = target
          /\ request' = [request EXCEPT ![r].candidates = @ \ {s}]
      BY <1>6, <2>2 DEF TryAcquire, QueueUnchanged
    <3>2. \A u \in Servers : Uncounted(u)
      BY <1>0, <3>1 DEF Uncounted, Leases, InUse, Selections
    <3> QED
      BY <3>2, StillCounted
  <2> QED
    BY <2>1, <2>2
<1>7. ASSUME NEW r \in Requests, NEW s \in Servers, request[r].held = s,
             request'[r].held = None, \A q \in Requests \ {r} : request'[q].held = request[q].held,
             server' = Freed(s), target' = target,
             \A c \in Connectors : pc'[c] = pc[c]
      PROVE  PermitsAreCounted'
  <2>1. /\ Leases(s)' = Leases(s) \ {r} /\ r \in Leases(s)
        /\ \A u \in Servers \ {s} : Leases(u)' = Leases(u)
    BY <1>0, <1>7 DEF Leases, None
  <2>2. \A u \in Servers : InUse(u)' = InUse(u)
    BY <1>7 DEF InUse
  <2>3. /\ server'[s].active = server[s].active - 1 /\ server'[s].idle = server[s].idle
        /\ \A u \in Servers \ {s} : server'[u] = server[u]
    BY <1>0, <1>7 DEF Endpoints, Freed
  <2>4. server'[s].active = Cardinality(Leases(s)') + Cardinality(InUse(s)') + server'[s].idle
    BY <1>1, <1>3, <2>1, <2>2, <2>3
  <2> QED
    BY <2>1, <2>2, <2>3, <2>4, Recounted DEF Uncounted
<1>8. ASSUME NEW r \in Requests, Recheck(r)
      PROVE  PermitsAreCounted'
  <2>1. request[r].held \in Servers /\ request[r].held # None
    BY <1>0, <1>8 DEF Recheck, Runs, Holders, Selections
  <2>2. CASE Selectable(request[r].held)
    <3>1. /\ server' = server /\ target' = target /\ pc' = [pc EXCEPT ![r] = "leave"]
          /\ request' = [request EXCEPT ![r].candidates = {}, ![r].saturated = FALSE]
      BY <1>8, <2>2 DEF Recheck, QueueUnchanged, Goes
    <3>2. \A q \in Requests : request'[q].held = request[q].held
      BY <1>0, <3>1 DEF Selections
    <3>3. \A u \in Servers : Uncounted(u)
      BY <1>0, <3>1, <3>2 DEF Uncounted, Leases, InUse
    <3> QED
      BY <3>3, StillCounted
  <2>3. CASE ~Selectable(request[r].held)
    <3>1. /\ server' = Freed(request[r].held) /\ target' = target
          /\ pc' = [pc EXCEPT ![r] = "try"]
          /\ request' = [request EXCEPT ![r].held = None,
                                        ![r].candidates = @ \ {request[r].held}]
      BY <1>8, <2>3 DEF Recheck, QueueUnchanged, Goes
    <3>2. /\ request'[r].held = None
          /\ \A q \in Requests \ {r} : request'[q].held = request[q].held
      BY <1>0, <3>1 DEF Selections
    <3> QED
      BY <1>0, <1>7, <2>1, <3>1, <3>2
  <2> QED
    BY <2>2, <2>3
<1>9. ASSUME NEW r \in Requests, Release(r)
      PROVE  PermitsAreCounted'
  <2>1. request[r].held \in Servers /\ request[r].held # None
    BY <1>0, <1>9 DEF Release, Runs, Holders, Selections
  <2>2. /\ server' = Freed(request[r].held) /\ target' = target
        /\ pc' = [pc EXCEPT ![r] = "gone"] /\ request' = [request EXCEPT ![r].held = None]
    BY <1>9 DEF Release, QueueUnchanged, Goes
  <2>3. /\ request'[r].held = None
        /\ \A q \in Requests \ {r} : request'[q].held = request[q].held
    BY <1>0, <2>2 DEF Selections
  <2> QED
    BY <1>0, <1>7, <2>1, <2>2, <2>3


<1>10. ASSUME NEW c \in Connectors, Reuse(c)
       PROVE  PermitsAreCounted'
  <2>0. PICK s \in Servers : s = target[c]
    BY <1>10 DEF Reuse, Runs, Types, Places, PlaceOf, Threads
  <2>1. /\ pc[c] = "reuse" /\ server[s].idle > 0
        /\ target' = target /\ request' = request
    BY <1>10, <2>0 DEF Reuse, Runs, ConnectorUnchanged
  <2>2. \A u \in Servers : Leases(u)' = Leases(u)
    BY <2>1 DEF Leases
  <2>3. CASE /\ server' = [server EXCEPT ![s].idle = @ - 1]
             /\ pc' = [pc EXCEPT ![c] = "busy"]
    <3>1. /\ InUse(s)' = InUse(s) \cup {c} /\ c \notin InUse(s)
          /\ \A u \in Servers \ {s} : InUse(u)' = InUse(u)
      BY <1>0, <2>0, <2>1, <2>3 DEF InUse
    <3>2. /\ server'[s].active = server[s].active /\ server'[s].idle = server[s].idle - 1
          /\ \A u \in Servers \ {s} : server'[u] = server[u]
      BY <1>0, <2>0, <2>1, <2>3 DEF Endpoints
    <3>3. server'[s].active = Cardinality(Leases(s)') + Cardinality(InUse(s)') + server'[s].idle
      BY <1>1, <1>4, <2>1, <2>2, <3>1, <3>2
    <3> QED
      BY <2>1, <2>2, <3>1, <3>2, <3>3, Recounted DEF Uncounted
  <2>4. CASE /\ server' = [server EXCEPT ![s].idle = @ - 1, ![s].active = @ - 1]
             /\ pc' = [pc EXCEPT ![c] = "try"]
    <3>1. \A u \in Servers : InUse(u)' = InUse(u)
      BY <1>0, <2>0, <2>1, <2>4 DEF InUse
    <3>2. /\ server'[s].active = server[s].active - 1 /\ server'[s].idle = server[s].idle - 1
          /\ \A u \in Servers \ {s} : server'[u] = server[u]
      BY <1>0, <2>0, <2>1, <2>4 DEF Endpoints
    <3>3. server'[s].active = Cardinality(Leases(s)') + Cardinality(InUse(s)') + server'[s].idle
      BY <1>1, <2>1, <2>2, <3>1, <3>2
    <3> QED
      BY <2>1, <2>2, <3>1, <3>2, <3>3, Recounted DEF Uncounted
  <2> QED
    BY <1>10, <2>0, <2>3, <2>4 DEF Reuse, Goes
<1>11. ASSUME NEW c \in Connectors, TryConnect(c)
       PROVE  PermitsAreCounted'
  <2>0. PICK s \in Servers : s = target[c]
    BY <1>11 DEF TryConnect, Runs, Types, Places, PlaceOf, Threads
  <2>1. /\ pc[c] = "try" /\ target' = target /\ request' = request
    BY <1>11 DEF TryConnect, Runs, ConnectorUnchanged
  <2>2. \A u \in Servers : Leases(u)' = Leases(u)
    BY <2>1 DEF Leases
  <2>3. CASE server' = Took(s) /\ pc' = [pc EXCEPT ![c] = "busy"]
    <3>1. /\ InUse(s)' = InUse(s) \cup {c} /\ c \notin InUse(s)
          /\ \A u \in Servers \ {s} : InUse(u)' = InUse(u)
      BY <1>0, <2>0, <2>1, <2>3 DEF InUse
    <3>2. /\ server'[s].active = server[s].active + 1 /\ server'[s].idle = server[s].idle
          /\ \A u \in Servers \ {s} : server'[u] = server[u]
      BY <1>0, <2>0, <2>1, <2>3 DEF Endpoints, Took
    <3>3. server'[s].active = Cardinality(Leases(s)') + Cardinality(InUse(s)') + server'[s].idle
      BY <1>1, <1>4, <2>1, <2>2, <3>1, <3>2
    <3> QED
      BY <2>1, <2>2, <3>1, <3>2, <3>3, Recounted DEF Uncounted
  <2>4. CASE server' = server /\ \E at \in {"reuse", "enable"} : pc' = [pc EXCEPT ![c] = at]
    <3>1. \A u \in Servers : InUse(u)' = InUse(u)
      BY <1>0, <2>0, <2>1, <2>4 DEF InUse
    <3> QED
      BY <2>2, <2>4, <3>1, StillCounted DEF Uncounted
  <2> QED
    BY <1>11, <2>0, <2>3, <2>4 DEF TryConnect, Compare, Goes
<1>12. ASSUME NEW c \in Connectors, KeepAlive(c) \/ Close(c)
       PROVE  PermitsAreCounted'
  <2>0. PICK s \in Servers : s = target[c]
    BY <1>12 DEF KeepAlive, Close, Runs, Types, Places, PlaceOf, Threads
  <2>1. /\ pc[c] = "busy" /\ request' = request
        /\ pc' = [pc EXCEPT ![c] = "out"] /\ target' = [target EXCEPT ![c] = None]
    BY <1>12 DEF KeepAlive, Close, Runs, ConnectorUnchanged, Ended, Goes
  <2>2. \A u \in Servers : Leases(u)' = Leases(u)
    BY <2>1 DEF Leases
  <2>3. /\ InUse(s)' = InUse(s) \ {c} /\ c \in InUse(s)
        /\ \A u \in Servers \ {s} : InUse(u)' = InUse(u)
    BY <1>0, <2>0, <2>1 DEF InUse
  <2>4. /\ server[s].active = Cardinality(Leases(s)) + Cardinality(InUse(s)) + server[s].idle
        /\ Cardinality(InUse(s)') = Cardinality(InUse(s)) - 1
        /\ Cardinality(Leases(s)') = Cardinality(Leases(s))
        /\ Cardinality(Leases(s)) \in Nat /\ Cardinality(InUse(s)) \in Nat
        /\ server[s].active \in Nat /\ server[s].idle \in Nat
    <3>1. Cardinality(InUse(s)') = Cardinality(InUse(s)) - 1
      BY <1>5, <2>3
    <3> QED
      BY <1>1, <2>2, <3>1
  <2>5. CASE server' = [server EXCEPT ![s].idle = @ + 1]
    <3>1. /\ server'[s].active = server[s].active /\ server'[s].idle = server[s].idle + 1
          /\ \A u \in Servers \ {s} : server'[u] = server[u]
      BY <1>0, <2>0, <2>1, <2>5 DEF Endpoints
    <3>2. server'[s].active = Cardinality(Leases(s)') + Cardinality(InUse(s)') + server'[s].idle
      BY <2>4, <3>1
    <3> QED
      BY <2>1, <2>2, <2>3, <3>1, <3>2, Recounted DEF Uncounted
  <2>6. CASE server' = Freed(s)
    <3>1. /\ server'[s].active = server[s].active - 1 /\ server'[s].idle = server[s].idle
          /\ \A u \in Servers \ {s} : server'[u] = server[u]
      BY <1>0, <2>0, <2>1, <2>6 DEF Endpoints, Freed
    <3>2. server'[s].active = Cardinality(Leases(s)') + Cardinality(InUse(s)') + server'[s].idle
      BY <2>4, <3>1
    <3> QED
      BY <2>1, <2>2, <2>3, <3>1, <3>2, Recounted DEF Uncounted
  <2> QED
    BY <1>12, <2>0, <2>5, <2>6 DEF KeepAlive, Close
<1>13. ASSUME NEW o \in Operators, NEW s \in Managed, IdleCloses(o, s)
       PROVE  PermitsAreCounted'
  <2>1. /\ s \in Servers /\ server[s].idle > 0 /\ request' = request /\ pc' = pc /\ target' = target
        /\ server' = [server EXCEPT ![s].idle = @ - 1, ![s].active = @ - 1]
    BY <1>13 DEF IdleCloses, OperatorUnchanged
  <2>2. \A u \in Servers : Leases(u)' = Leases(u) /\ InUse(u)' = InUse(u)
    BY <2>1 DEF Leases, InUse
  <2>3. /\ server'[s].active = server[s].active - 1 /\ server'[s].idle = server[s].idle - 1
        /\ \A u \in Servers \ {s} : server'[u] = server[u]
    BY <1>0, <2>1 DEF Endpoints
  <2>4. server'[s].active = Cardinality(Leases(s)') + Cardinality(InUse(s)') + server'[s].idle
    BY <1>1, <2>1, <2>2, <2>3
  <2> QED
    BY <2>1, <2>2, <2>3, <2>4, Recounted DEF Uncounted

<1>14. ASSUME NEW t \in Threads, NotifyGeneration(t) \/ NotifyBroadcast(t) \/ NotifyFront(t) \/ NotifyOne(t)
       PROVE  \A u \in Servers : Uncounted(u)
  BY <1>14, <1>0, NothingCounts
  DEF NotifyGeneration, NotifyBroadcast, NotifyFront, NotifyOne, Listening, Enabled, Selections,
     Endpoints, Threads
<1>15. ASSUME NEW r \in Requests, Enqueue(r)
       PROVE  \A u \in Servers : Uncounted(u)
  BY <1>15, <1>0, NothingCounts
  DEF Enqueue, Starts, Runs, Goes, Quiet, QueueUnchanged, Selections, Endpoints, Threads
<1>16. ASSUME NEW r \in Requests, Look(r) \/ ReadSaturated(r) \/ Unselected(r)
       PROVE  \A u \in Servers : Uncounted(u)
  <2>1. ASSUME NEW X, \/ request' = [request EXCEPT ![r].candidates = X]
                      \/ request' = [request EXCEPT ![r].saturated = X]
        PROVE  \A q \in Requests : request'[q].held = request[q].held
    BY <1>0, <2>1 DEF Selections
  <2>2. \A q \in Requests : request'[q].held = request[q].held
    <3>1. CASE Look(r)
      <4> DEFINE X == {s \in Ask[r] : Selectable(s)}
      <4>1. request' = request \/ request' = [request EXCEPT ![r].candidates = X]
        BY <3>1 DEF Look
      <4> HIDE DEF X
      <4> QED
        BY <2>1, <4>1
    <3>2. CASE ReadSaturated(r)
      <4> DEFINE X == \E s \in request[r].candidates : ~HasCapacity(s)
      <4>1. request' = [request EXCEPT ![r].saturated = X]
        BY <3>2 DEF ReadSaturated
      <4> HIDE DEF X
      <4> QED
        BY <2>1, <4>1
    <3>3. CASE Unselected(r)
      BY <2>1, <3>3 DEF Unselected
    <3> QED
      BY <1>16, <3>1, <3>2, <3>3
  <2>3. /\ \A c \in Connectors : pc'[c] = pc[c]
        /\ target' = target /\ server' = server
    BY <1>0, <1>16 DEF Look, ReadSaturated, Unselected, Goes, QueueUnchanged
  <2> QED
    BY <2>2, <2>3, NothingCounts
<1>18. ASSUME NEW r \in Requests, Wake(r) \/ GiveUp(r) \/ Leave(r)
       PROVE  \A u \in Servers : Uncounted(u)
  BY <1>18, <1>0, NothingCounts
  DEF Wake, GiveUp, Leave, Runs, Goes, Quiet, QueueUnchanged, Selections, Endpoints, Threads
<1>19. ASSUME NEW c \in Connectors,
              \/ \E s \in Servers : SelectTarget(c, s)
              \/ NothingIdle(c)
       PROVE  \A u \in Servers : Uncounted(u)
  BY <1>19, <1>0, NothingCounts
  DEF SelectTarget, NothingIdle, Starts, Runs, Goes, Quiet, ConnectorUnchanged, Selections,
     Endpoints, Threads
<1>20. ASSUME NEW c \in Connectors, EnableAndCompare(c) \/ ConnectorWakes(c) \/ ConnectorGivesUp(c)
       PROVE  \A u \in Servers : Uncounted(u)
  BY <1>20, <1>0, NothingCounts
  DEF EnableAndCompare, ConnectorWakes, ConnectorGivesUp, Runs, Goes, Quiet, ConnectorUnchanged,
     Compare, Ended, Selections, Endpoints, Threads
<1>21. ASSUME NEW o \in Operators, \E s \in Managed, state \in States : SetAdministrativeState(o, s, state)
       PROVE  \A u \in Servers : Uncounted(u)
  BY <1>21, <1>0, NothingCounts
  DEF SetAdministrativeState, Runs, Starts, Goes, Notifies, OperatorUnchanged, Selections,
     Endpoints, Threads
<1>22. ASSUME NEW o \in Operators, \E s \in Managed, override \in HealthOverrides : SetHealthOverride(o, s, override)
       PROVE  \A u \in Servers : Uncounted(u)
  BY <1>22, <1>0, NothingCounts
  DEF SetHealthOverride, Runs, Starts, Goes, Notifies, OperatorUnchanged, Selections, Endpoints,
     Threads
<1>23. ASSUME NEW o \in Operators,
              \/ \E s \in Managed, limit \in Overrides \cup {0} : SetMaxConnections(o, s, limit)
              \/ \E s \in Managed : SetChecksEnabled(o, s)
       PROVE  \A u \in Servers : Uncounted(u)
  <2>1. /\ request' = request /\ pc' = pc /\ target' = target
        /\ \E s \in Managed : \E x :
               \/ server' = [server EXCEPT ![s].limit = x]
               \/ server' = [server EXCEPT ![s].checks = x]
    BY <1>23 DEF SetMaxConnections, SetChecksEnabled, OperatorUnchanged
  <2>2. \A u \in Servers : server'[u].active = server[u].active /\ server'[u].idle = server[u].idle
    BY <1>0, <2>1 DEF Endpoints
  <2> QED
    BY <2>1, <2>2, NothingCounts
<1>24. ASSUME NEW o \in Operators, \E state \in States : SetAllAdministrativeStates(o, state)
       PROVE  \A u \in Servers : Uncounted(u)
  BY <1>24, <1>0, NothingCounts
  DEF SetAllAdministrativeStates, Runs, Starts, Goes, Notifies, OperatorUnchanged, Selections,
     Endpoints, Threads
<1>25. ASSUME NEW o \in Operators, \E s \in Managed : ProbeStarts(o, s)
       PROVE  \A u \in Servers : Uncounted(u)
  BY <1>25, <1>0, NothingCounts
  DEF ProbeStarts, Runs, Starts, Goes, Notifies, OperatorUnchanged, Selections, Endpoints,
     Threads
<1>26. ASSUME NEW o \in Operators, NEW s \in Servers, StoreNext(o, s)
       PROVE  \A u \in Servers : Uncounted(u)
  <2>1. /\ server' = [server EXCEPT ![s].administrative = target[o].state]
        /\ request' = request
        /\ \A c \in Connectors : pc'[c] = pc[c] /\ target'[c] = target[c]
    BY <1>0, <1>26 DEF StoreNext, OperatorUnchanged, Goes, Threads
  <2> QED
    BY <1>0, <2>1 DEF Uncounted, Leases, InUse, Endpoints
<1>27. ASSUME NEW e \in Endpoints
       PROVE  \A x \in {RecordSuccess(e), RecordFailure(e), RecordPassiveFailure(e)} :
                  x.active = e.active /\ x.idle = e.idle
  <2>1. RecordSuccess(e).active = e.active /\ RecordSuccess(e).idle = e.idle
    BY DEF RecordSuccess, Endpoints
  <2>2. RecordFailure(e).active = e.active /\ RecordFailure(e).idle = e.idle
    BY DEF RecordFailure, Endpoints
  <2>3. RecordPassiveFailure(e).active = e.active /\ RecordPassiveFailure(e).idle = e.idle
    BY DEF RecordPassiveFailure, Endpoints
  <2> QED
    BY <2>1, <2>2, <2>3
<1>28. ASSUME NEW o \in Operators, NEW healthy \in BOOLEAN, ProbeEnds(o, healthy)
       PROVE  \A u \in Servers : Uncounted(u)
  <2> DEFINE s == target[o]
             x == IF healthy THEN RecordSuccess(server[s]) ELSE RecordFailure(server[s])
  <2>1. /\ s \in Servers /\ server' = [server EXCEPT ![s] = x]
        /\ request' = request
        /\ \A c \in Connectors : pc'[c] = pc[c] /\ target'[c] = target[c]
    BY <1>0, <1>28 DEF ProbeEnds, OperatorUnchanged, Goes, Runs, Types, Places, PlaceOf, Threads
  <2>2. x.active = server[s].active /\ x.idle = server[s].idle
    BY <1>0, <1>27, <2>1
  <2> HIDE DEF s, x
  <2> QED
    BY <1>0, <2>1, <2>2 DEF Uncounted, Leases, InUse
<1>29. ASSUME NEW o \in Operators, NEW s \in Managed, PassiveFailure(o, s)
       PROVE  \A u \in Servers : Uncounted(u)
  <2> DEFINE x == RecordPassiveFailure(server[s])
  <2>1. /\ s \in Servers /\ server' = [server EXCEPT ![s] = x]
        /\ request' = request /\ pc' = pc /\ target' = target
    BY <1>0, <1>29 DEF PassiveFailure, OperatorUnchanged
  <2>2. x.active = server[s].active /\ x.idle = server[s].idle
    BY <1>0, <1>27, <2>1
  <2> HIDE DEF x
  <2> QED
    BY <1>0, <2>1, <2>2 DEF Uncounted, Leases, InUse
<1>30. ASSUME NEW s \in Servers, EjectionLapses(s)
       PROVE  \A u \in Servers : Uncounted(u)
  BY <1>0, <1>30 DEF EjectionLapses, Uncounted, Leases, InUse, Endpoints
<1>31. CASE \E t \in Threads : Notify(t)
  BY <1>14, <1>31, StillCounted DEF Notify
<1>32. CASE \E r \in Requests : RequestStep(r)
  BY <1>6, <1>8, <1>9, <1>15, <1>16, <1>18, <1>32, StillCounted DEF RequestStep
<1>33. CASE \E c \in Connectors : ConnectorStep(c)
  BY <1>10, <1>11, <1>12, <1>19, <1>20, <1>33, StillCounted DEF ConnectorStep
<1>34. CASE \E o \in Operators : OperatorStep(o)
  BY <1>13, <1>21, <1>22, <1>23, <1>24, <1>25, <1>26, <1>28, <1>29, <1>34, StillCounted DEF OperatorStep
<1> QED
  BY <1>30, <1>31, <1>32, <1>33, <1>34, StillCounted DEF Next



-----------------------------------------------------------------------------
(* Notifications *)

\* A step of t leaves the others where they are, and nothing they were told is lost.
Apart(t) ==
    \A u \in Threads \ {t} :
        /\ pc'[u] = pc[u] /\ todo'[u] = todo[u] /\ front'[u] = front[u]
        /\ u \in Requests => request'[u] = request[u]
        /\ u \in Connectors => target'[u] = target[u]
        /\ u \in stale => u \in stale'
        /\ u \in notified => u \in notified'

StepOf(t) ==
    \/ Notify(t)
    \/ t \in Requests /\ RequestStep(t)
    \/ t \in Connectors /\ ConnectorStep(t)
    \/ t \in Operators /\ OperatorStep(t)

LEMMA OneMoves ==
    ASSUME Types, Next
    PROVE  (\E t \in Threads : StepOf(t) /\ Apart(t)) \/ \E s \in Servers : EjectionLapses(s)
<1> USE PoolAssumption
<1>0. /\ pc \in [Threads -> ProgramCounters] /\ request \in [Requests -> Selections]
      /\ todo \in [Threads -> {"none", "generation", "broadcast", "front", "one"}]
      /\ front \in [Threads -> Requests \cup {None}]
      /\ target = [t \in Connectors \cup Operators |-> target[t]]
  BY DEF Types, TypeOK, Places
<1>1. ASSUME NEW t \in Threads, NotifyGeneration(t) \/ NotifyBroadcast(t)
      PROVE  Apart(t)
  BY <1>1, <1>0 DEF NotifyGeneration, NotifyBroadcast, Listening, Apart, Threads
<1>2. ASSUME NEW t \in Threads, NotifyFront(t)
      PROVE  Apart(t)
  BY <1>2, <1>0 DEF NotifyFront, Apart, Threads
<1>3. ASSUME NEW t \in Threads, NotifyOne(t)
      PROVE  Apart(t)
  BY <1>3, <1>0 DEF NotifyOne, Enabled, Apart, Threads
<1>4. ASSUME NEW r \in Requests, Enqueue(r) \/ Look(r)
      PROVE  Apart(r)
  BY <1>4, <1>0 DEF Enqueue, Look, Starts, Runs, Goes, Quiet, QueueUnchanged, Apart, Threads
<1>5. ASSUME NEW r \in Requests,
             \/ ReadSaturated(r)
             \/ \E s \in Servers : TryAcquire(r, s)
      PROVE  Apart(r)
  BY <1>5, <1>0
  DEF ReadSaturated, TryAcquire, Runs, Goes, Quiet, QueueUnchanged, Took, Apart, Threads
<1>6. ASSUME NEW r \in Requests, Recheck(r) \/ Unselected(r)
      PROVE  Apart(r)
  BY <1>6, <1>0
  DEF Recheck, Unselected, Runs, Goes, Quiet, QueueUnchanged, Freed, Notifies, Apart, Threads
<1>7. ASSUME NEW r \in Requests, Wake(r) \/ GiveUp(r) \/ Leave(r)
      PROVE  Apart(r)
  BY <1>7, <1>0 DEF Wake, GiveUp, Leave, Runs, Goes, Quiet, QueueUnchanged, Apart, Threads
<1>8. ASSUME NEW r \in Requests, Release(r)
      PROVE  Apart(r)
  BY <1>8, <1>0 DEF Release, Runs, Goes, Quiet, QueueUnchanged, Freed, Notifies, Apart, Threads
<1>9. ASSUME NEW c \in Connectors,
             \/ \E s \in Servers : SelectTarget(c, s)
             \/ Reuse(c)
             \/ NothingIdle(c)
      PROVE  Apart(c)
  BY <1>9, <1>0
  DEF SelectTarget, Reuse, NothingIdle, Starts, Runs, Goes, Quiet, ConnectorUnchanged, Notifies,
     Apart, Threads
<1>10. ASSUME NEW c \in Connectors, TryConnect(c) \/ EnableAndCompare(c)
       PROVE  Apart(c)
  BY <1>10, <1>0
  DEF TryConnect, EnableAndCompare, Runs, Goes, Quiet, ConnectorUnchanged, Took, Compare, Apart,
     Threads
<1>11. ASSUME NEW c \in Connectors, ConnectorWakes(c) \/ ConnectorGivesUp(c)
       PROVE  Apart(c)
  BY <1>11, <1>0
  DEF ConnectorWakes, ConnectorGivesUp, Runs, Goes, Quiet, ConnectorUnchanged, Compare, Ended,
     Apart, Threads
<1>12. ASSUME NEW c \in Connectors, KeepAlive(c) \/ Close(c)
       PROVE  Apart(c)
  BY <1>12, <1>0
  DEF KeepAlive, Close, Runs, Goes, Quiet, ConnectorUnchanged, Ended, Notifies, Freed, Apart,
     Threads
<1>13. ASSUME NEW o \in Operators,
              \/ \E s \in Managed : IdleCloses(o, s)
              \/ \E s \in Managed, state \in States : SetAdministrativeState(o, s, state)
       PROVE  Apart(o)
  BY <1>13, <1>0
  DEF IdleCloses, SetAdministrativeState, Runs, Starts, Goes, Notifies, OperatorUnchanged,
     Apart, Threads
<1>14. ASSUME NEW o \in Operators,
              \/ \E s \in Managed, override \in HealthOverrides : SetHealthOverride(o, s, override)
              \/ \E s \in Managed, limit \in Overrides \cup {0} : SetMaxConnections(o, s, limit)
              \/ \E s \in Managed : SetChecksEnabled(o, s)
       PROVE  Apart(o)
  BY <1>14, <1>0
  DEF SetHealthOverride, SetMaxConnections, SetChecksEnabled, Runs, Starts, Goes, Notifies,
     OperatorUnchanged, Apart, Threads
<1>15. ASSUME NEW o \in Operators,
              \/ \E state \in States : SetAllAdministrativeStates(o, state)
              \/ \E s \in Servers : StoreNext(o, s)
       PROVE  Apart(o)
  BY <1>15, <1>0
  DEF SetAllAdministrativeStates, StoreNext, Runs, Starts, Goes, Notifies, OperatorUnchanged,
     Apart, Threads
<1>16. ASSUME NEW o \in Operators, \E s \in Managed : ProbeStarts(o, s)
       PROVE  Apart(o)
  BY <1>16, <1>0
  DEF ProbeStarts, Runs, Starts, Goes, Notifies, OperatorUnchanged, Apart, Threads
<1>17. ASSUME NEW o \in Operators,
              \/ \E healthy \in BOOLEAN : ProbeEnds(o, healthy)
              \/ \E s \in Managed : PassiveFailure(o, s)
       PROVE  Apart(o)
  BY <1>17, <1>0
  DEF ProbeEnds, PassiveFailure, Runs, Starts, Goes, Notifies, OperatorUnchanged, Apart, Threads
<1>18. ASSUME NEW t \in Threads, Notify(t) PROVE Apart(t)
  BY <1>1, <1>2, <1>3, <1>18 DEF Notify
<1>19. ASSUME NEW r \in Requests, RequestStep(r) PROVE Apart(r)
  BY <1>4, <1>5, <1>6, <1>7, <1>8, <1>19 DEF RequestStep
<1>20. ASSUME NEW c \in Connectors, ConnectorStep(c) PROVE Apart(c)
  BY <1>9, <1>10, <1>11, <1>12, <1>20 DEF ConnectorStep
<1>21. ASSUME NEW o \in Operators, OperatorStep(o) PROVE Apart(o)
  BY <1>13, <1>14, <1>15, <1>16, <1>17, <1>21 DEF OperatorStep
<1> QED
  BY <1>18, <1>19, <1>20, <1>21 DEF Next, StepOf, Threads

\* A thread that has a notification to finish does nothing else.
LEMMA NotifiesFirst ==
    ASSUME NEW t \in Threads, StepOf(t), todo[t] # "none"
    PROVE  Notify(t)
<1>1. ASSUME t \in Requests, RequestStep(t) PROVE FALSE
  BY <1>1 DEF RequestStep, Enqueue, Starts, Look, ReadSaturated, TryAcquire, Recheck, Unselected, Wake,
     GiveUp, Leave, Release, Runs
<1>2. ASSUME t \in Connectors, ConnectorStep(t) PROVE FALSE
  BY <1>2 DEF ConnectorStep, SelectTarget, Starts, Reuse, NothingIdle, TryConnect, EnableAndCompare,
     ConnectorWakes, ConnectorGivesUp, KeepAlive, Close, Runs
<1>3. ASSUME t \in Operators, OperatorStep(t) PROVE FALSE
  BY <1>3 DEF OperatorStep, IdleCloses, Starts, SetAdministrativeState, SetAllAdministrativeStates,
     StoreNext, SetHealthOverride, SetMaxConnections, SetChecksEnabled, ProbeStarts, ProbeEnds,
     PassiveFailure, Runs
<1> QED
  BY <1>1, <1>2, <1>3 DEF StepOf



\* The step gives no waiter a reason to try s, and takes none to wait for it.
Unimproved(s) ==
    /\ Selectable(s) => Selectable(s)'
    /\ Worth(s)' => Worth(s)
    /\ server[s].idle = 0 => server'[s].idle = 0

\* What the selection reads is as it was, and there are no more permits or connections.
Alike(s) ==
    /\ server'[s].administrative = server[s].administrative
    /\ server'[s].override = server[s].override /\ server'[s].health = server[s].health
    /\ server'[s].ejected = server[s].ejected /\ server'[s].limit = server[s].limit
    /\ server'[s].active >= server[s].active
    /\ server[s].idle = 0 => server'[s].idle = 0

LEMMA AlikeIsUnimproved ==
    ASSUME Types, NEW s \in Servers, Alike(s), server'[s].active \in Nat
    PROVE  Unimproved(s)
<1>1. /\ server[s].active \in Nat /\ server[s].limit \in Nat /\ Configured[s] \in Nat
  <2>1. server[s] \in Endpoints
    BY DEF Types, TypeOK
  <2>2. Overrides \cup {0} \subseteq Nat /\ Configured[s] \in Nat
    BY PoolAssumption
  <2> QED
    BY <2>1, <2>2 DEF Endpoints
<1>2. Selectable(s)' <=> Selectable(s)
  BY DEF Alike, Selectable
<1>3. HasCapacity(s)' => HasCapacity(s)
  BY <1>1 DEF Alike, HasCapacity, MaxConnections
<1> QED
  BY <1>2, <1>3 DEF Alike, Unimproved, Worth, Acquirable

\* Whatever may make a waiter's server worth a try moves the generation.
LEMMA Told ==
    ASSUME Types, Holders, Positive, Next
    PROVE  GenerationMoves' \/ \A s \in Servers : Unimproved(s)
<1> USE PoolAssumption
<1>0. /\ pc \in [Threads -> ProgramCounters] /\ server \in [Servers -> Endpoints]
      /\ todo \in [Threads -> {"none", "generation", "broadcast", "front", "one"}]
      /\ \A s \in Servers : server[s].active \in Nat /\ server[s].idle \in Nat
  BY DEF Types, TypeOK, Endpoints
<1>a. ASSUME \A u \in Servers : Alike(u) PROVE \A u \in Servers : Unimproved(u)
  <2>1. server' \in [Servers -> Endpoints]
    BY ServerType
  <2> QED
    BY <1>a, <2>1, AlikeIsUnimproved DEF Endpoints
<1>b. server' = server => \A u \in Servers : Alike(u)
  BY <1>0 DEF Alike
<1>r. ASSUME NEW e \in Endpoints
      PROVE  \A x \in {RecordSuccess(e), RecordFailure(e), RecordPassiveFailure(e)} :
                /\ x.administrative = e.administrative /\ x.override = e.override
                /\ x.limit = e.limit /\ x.active = e.active /\ x.idle = e.idle
  <2> DEFINE Same(x) == /\ x.administrative = e.administrative /\ x.override = e.override
                        /\ x.limit = e.limit /\ x.active = e.active /\ x.idle = e.idle
  <2>1. Same(RecordSuccess(e))
    BY DEF RecordSuccess, Endpoints
  <2>2. Same(RecordFailure(e))
    BY DEF RecordFailure, Endpoints
  <2>3. Same(RecordPassiveFailure(e))
    BY DEF RecordPassiveFailure, Endpoints
  <2> QED
    BY <2>1, <2>2, <2>3
<1>1. ASSUME NEW t \in Threads, NotifyGeneration(t) \/ NotifyBroadcast(t) \/ NotifyFront(t) \/ NotifyOne(t)
      PROVE  \A u \in Servers : Alike(u)
  BY <1>1, <1>b
  DEF NotifyGeneration, NotifyBroadcast, NotifyFront, NotifyOne, Listening, Enabled
<1>2. ASSUME NEW r \in Requests, Enqueue(r) \/ Look(r) \/ ReadSaturated(r) \/ Unselected(r) \/ Wake(r) \/ GiveUp(r) \/ Leave(r)
      PROVE  \A u \in Servers : Alike(u)
  BY <1>2, <1>b
  DEF Enqueue, Look, ReadSaturated, Unselected, Wake, GiveUp, Leave, Starts, Runs, Goes, Quiet,
     QueueUnchanged
<1>3. ASSUME NEW r \in Requests, \E s \in Servers : TryAcquire(r, s)
      PROVE  \A u \in Servers : Alike(u)
  BY <1>3, <1>0 DEF TryAcquire, Runs, Goes, Quiet, QueueUnchanged, Took, Endpoints, Alike
<1>4. ASSUME NEW r \in Requests, Recheck(r)
      PROVE  GenerationMoves' \/ \A u \in Servers : Alike(u)
  BY <1>4, <1>0, <1>b
  DEF Recheck, Runs, Goes, Quiet, QueueUnchanged, Freed, Notifies, GenerationMoves, Threads
<1>5. ASSUME NEW r \in Requests, Release(r)
      PROVE  GenerationMoves'
  BY <1>5, <1>0
  DEF Release, Runs, Goes, Quiet, QueueUnchanged, Freed, Notifies, GenerationMoves, Threads
<1>6. ASSUME NEW c \in Connectors,
             \/ \E s \in Servers : SelectTarget(c, s)
             \/ NothingIdle(c)
             \/ EnableAndCompare(c)
             \/ ConnectorWakes(c)
             \/ ConnectorGivesUp(c)
      PROVE  \A u \in Servers : Alike(u)
  BY <1>6, <1>b
  DEF SelectTarget, NothingIdle, EnableAndCompare, ConnectorWakes, ConnectorGivesUp, Starts,
     Runs, Goes, Quiet, ConnectorUnchanged, Compare, Ended
<1>7. ASSUME NEW c \in Connectors, Reuse(c)
      PROVE  GenerationMoves' \/ \A u \in Servers : Alike(u)
  <2>1. PICK s \in Servers : s = target[c]
    BY <1>7 DEF Reuse, Runs, Types, Places, PlaceOf, Threads
  <2>2. CASE todo' = [todo EXCEPT ![c] = "generation"]
    BY <1>0, <2>2 DEF GenerationMoves, Threads
  <2>3. CASE server' = [server EXCEPT ![s].idle = @ - 1] /\ server[s].idle > 0
    BY <1>0, <2>3 DEF Alike, Endpoints
  <2> QED
    BY <1>7, <2>1, <2>2, <2>3 DEF Reuse, Notifies
<1>8. ASSUME NEW c \in Connectors, TryConnect(c)
      PROVE  \A u \in Servers : Alike(u)
  <2>1. PICK s \in Servers : s = target[c]
    BY <1>8 DEF TryConnect, Runs, Types, Places, PlaceOf, Threads
  <2>2. server' = server \/ server' = [server EXCEPT ![s].active = @ + 1]
    BY <1>8, <2>1 DEF TryConnect, Took
  <2> QED
    BY <1>0, <1>b, <2>2 DEF Alike, Endpoints
<1>9. ASSUME NEW c \in Connectors, KeepAlive(c) \/ Close(c)
      PROVE  GenerationMoves'
  BY <1>9, <1>0
  DEF KeepAlive, Close, Runs, Goes, Quiet, ConnectorUnchanged, Ended, Notifies, Freed,
     GenerationMoves, Threads
<1>10. ASSUME NEW o \in Operators,
              \/ \E s \in Managed : IdleCloses(o, s)
              \/ \E s \in Managed, state \in States : SetAdministrativeState(o, s, state)
              \/ \E s \in Managed, override \in HealthOverrides : SetHealthOverride(o, s, override)
              \/ \E s \in Managed, limit \in Overrides \cup {0} : SetMaxConnections(o, s, limit)
       PROVE  GenerationMoves'
  BY <1>10, <1>0
  DEF IdleCloses, SetAdministrativeState, SetHealthOverride, SetMaxConnections, Runs, Starts,
     Goes, Notifies, OperatorUnchanged, GenerationMoves, Threads
<1>11. ASSUME NEW o \in Operators,
              \/ \E state \in States : SetAllAdministrativeStates(o, state)
              \/ \E s \in Servers : StoreNext(o, s)
       PROVE  GenerationMoves'
  BY <1>11, <1>0
  DEF SetAllAdministrativeStates, StoreNext, Runs, Starts, Goes, Notifies, OperatorUnchanged,
     GenerationMoves, Threads
<1>12. ASSUME NEW o \in Operators, \/ \E s \in Managed : SetChecksEnabled(o, s)
                                 \/ \E s \in Managed : ProbeStarts(o, s)
       PROVE  \A u \in Servers : Alike(u)
  <2>1. server' = server \/ \E s \in Managed : \E x : server' = [server EXCEPT ![s].checks = x]
    BY <1>12 DEF SetChecksEnabled, ProbeStarts
  <2> QED
    BY <1>0, <1>b, <2>1 DEF Alike, Endpoints
<1>13. ASSUME NEW o \in Operators, NEW healthy \in BOOLEAN, ProbeEnds(o, healthy)
       PROVE  GenerationMoves' \/ \A u \in Servers : Alike(u)
  <2>1. PICK s \in Servers : s = target[o]
    BY <1>13 DEF ProbeEnds, Runs, Types, Places, PlaceOf, Threads
  <2>2. PICK x : x = IF healthy THEN RecordSuccess(server[s]) ELSE RecordFailure(server[s])
    OBVIOUS
  <2>3. /\ server' = [server EXCEPT ![s] = x]
        /\ IF Tells(server[s], x) THEN todo' = [todo EXCEPT ![o] = "generation"] ELSE UNCHANGED todo
    BY <1>13, <2>1, <2>2 DEF ProbeEnds, Notifies
  <2>4. CASE Tells(server[s], x)
    BY <1>0, <2>3, <2>4 DEF GenerationMoves, Threads
  <2>5. CASE ~Tells(server[s], x)
    <3>1. /\ x.administrative = server[s].administrative /\ x.override = server[s].override
          /\ x.limit = server[s].limit /\ x.active = server[s].active /\ x.idle = server[s].idle
      BY <1>0, <1>r, <2>2
    <3>2. x.health = server[s].health /\ x.ejected = server[s].ejected
      BY <2>5 DEF Tells
    <3> QED
      BY <1>0, <2>3, <3>1, <3>2 DEF Alike
  <2> QED
    BY <2>4, <2>5
<1>14. ASSUME NEW o \in Operators, NEW s \in Managed, PassiveFailure(o, s)
       PROVE  GenerationMoves' \/ \A u \in Servers : Alike(u)
  <2>1. PICK x : x = RecordPassiveFailure(server[s])
    OBVIOUS
  <2>2. /\ s \in Servers /\ server' = [server EXCEPT ![s] = x]
        /\ x.ejected # server[s].ejected => todo' = [todo EXCEPT ![o] = "generation"]
    BY <1>0, <1>14, <2>1 DEF PassiveFailure, Notifies
  <2>3. CASE x.ejected # server[s].ejected
    BY <1>0, <2>2, <2>3 DEF GenerationMoves, Threads
  <2>4. CASE x.ejected = server[s].ejected
    <3>1. /\ x.administrative = server[s].administrative /\ x.override = server[s].override
          /\ x.limit = server[s].limit /\ x.active = server[s].active /\ x.idle = server[s].idle
      BY <1>0, <1>r, <2>1, <2>2
    <3>2. x.health = server[s].health
      BY <1>0, <2>1, <2>2, <2>4 DEF RecordPassiveFailure, Endpoints
    <3> QED
      BY <1>0, <2>2, <2>4, <3>1, <3>2 DEF Alike
  <2> QED
    BY <2>3, <2>4
<1>15. ASSUME NEW s \in Servers, EjectionLapses(s)
       PROVE  \A u \in Servers : Unimproved(u)
  <2>1. /\ server' = [server EXCEPT ![s].ejected = "lapsed"]
        /\ server[s].ejected = "now"
    BY <1>15 DEF EjectionLapses
  <2>2. /\ server'[s].ejected = "lapsed" /\ server'[s].idle = server[s].idle
        /\ \A u \in Servers \ {s} : server'[u] = server[u]
    BY <1>0, <2>1 DEF Endpoints
  <2>3. Unimproved(s)
    BY <2>1, <2>2 DEF Unimproved, Selectable, Worth, Acquirable
  <2>4. ASSUME NEW u \in Servers \ {s} PROVE Unimproved(u)
    BY <2>2 DEF Unimproved, Selectable, Worth, Acquirable, HasCapacity, MaxConnections
  <2> QED
    BY <2>3, <2>4
<1>16. ASSUME NEW r \in Requests, RequestStep(r)
       PROVE  GenerationMoves' \/ \A u \in Servers : Alike(u)
  BY <1>2, <1>3, <1>4, <1>5, <1>16 DEF RequestStep
<1>17. ASSUME NEW c \in Connectors, ConnectorStep(c)
       PROVE  GenerationMoves' \/ \A u \in Servers : Alike(u)
  BY <1>6, <1>7, <1>8, <1>9, <1>17 DEF ConnectorStep
<1>18. ASSUME NEW o \in Operators, OperatorStep(o)
       PROVE  GenerationMoves' \/ \A u \in Servers : Alike(u)
  BY <1>10, <1>11, <1>12, <1>13, <1>14, <1>18 DEF OperatorStep
<1> QED
  BY <1>a, <1>1, <1>15, <1>16, <1>17, <1>18 DEF Next, Notify



\* A step that moves the generation is heard by whoever is at the front.
LEMMA MovesAreHeard ==
    ASSUME GenerationMoves', NEW r
    PROVE  FrontWillHear(r)'
  BY DEF GenerationMoves, FrontWillHear

\* Whoever stores the state of every server tells of it at the end.
LEMMA StoringMoves ==
    ASSUME Types, Next, NEW o \in Operators, pc[o] = "store"
    PROVE  GenerationMoves'
<1> USE PoolAssumption
<1>0. /\ pc \in [Threads -> ProgramCounters]
      /\ todo \in [Threads -> {"none", "generation", "broadcast", "front", "one"}]
      /\ o \in Threads /\ o \notin Requests /\ o \notin Connectors
  BY DEF Types, TypeOK, Threads
<1>1. CASE \E s \in Servers : EjectionLapses(s)
  BY <1>0, <1>1 DEF EjectionLapses, GenerationMoves
<1>2. CASE \E u \in Threads : Apart(u) /\ u # o
  BY <1>0, <1>2 DEF Apart, GenerationMoves
<1>3. CASE Notify(o)
  BY <1>0, <1>3 DEF Notify, NotifyGeneration, NotifyBroadcast, NotifyFront, NotifyOne,
     GenerationMoves
<1>4. CASE OperatorStep(o)
  <2>1. PICK s \in Servers : StoreNext(o, s)
    BY <1>4 DEF OperatorStep, IdleCloses, Starts, SetAdministrativeState, Runs,
       SetAllAdministrativeStates, SetHealthOverride, SetMaxConnections, SetChecksEnabled,
       ProbeStarts, ProbeEnds, PassiveFailure
  <2> QED
    BY <1>0, <2>1 DEF StoreNext, Notifies, GenerationMoves
<1> QED
  BY <1>0, <1>1, <1>2, <1>3, <1>4, OneMoves DEF StepOf

\* A front that is enabled hears what is under way, unless it has moved on.
LEMMA Heard ==
    ASSUME Types, Next, NEW r \in Requests, IsFront(r), Enabled(r), Enabled(r)',
           r \in Range(waiters), r \in notified \/ FrontWillHear(r)
    PROVE  r \in notified' \/ FrontWillHear(r)'
<1> USE PoolAssumption
<1>0. /\ pc \in [Threads -> ProgramCounters]
      /\ todo \in [Threads -> {"none", "generation", "broadcast", "front", "one"}]
      /\ front \in [Threads -> Requests \cup {None}]
      /\ r \in Threads /\ r \notin Connectors
  BY DEF Types, TypeOK, Threads
<1>1. CASE r \in notified
  <2>1. CASE \E s \in Servers : EjectionLapses(s)
    BY <1>1, <2>1 DEF EjectionLapses
  <2>2. CASE \E t \in Threads : StepOf(t) /\ Apart(t) /\ t # r
    BY <1>0, <1>1, <2>2 DEF Apart
  <2>3. CASE Notify(r)
    BY <1>1, <2>3 DEF Notify, NotifyGeneration, NotifyBroadcast, NotifyFront, NotifyOne
  <2>4. CASE RequestStep(r)
    BY <1>0, <1>1, <2>4 DEF RequestStep, Enqueue, Starts, Look, ReadSaturated, TryAcquire, Recheck,
       Unselected, Wake, GiveUp, Leave, Release, Runs, Goes, Enabled
  <2> QED
    BY <1>0, <2>1, <2>2, <2>3, <2>4, OneMoves DEF StepOf
<1>2. ASSUME NEW t \in Threads,
             \/ todo[t] \in {"generation", "broadcast", "front"}
             \/ todo[t] = "one" /\ front[t] = r
      PROVE  r \in notified' \/ FrontWillHear(r)'
  <2>1. CASE \E s \in Servers : EjectionLapses(s)
    BY <1>2, <2>1 DEF EjectionLapses, FrontWillHear, Quiet
  <2>2. CASE \E u \in Threads : Apart(u) /\ u # t
    BY <1>2, <2>2 DEF Apart, FrontWillHear
  <2>3. CASE NotifyGeneration(t) \/ NotifyBroadcast(t)
    BY <1>0, <1>2, <2>3 DEF NotifyGeneration, NotifyBroadcast, FrontWillHear
  <2>4. CASE NotifyFront(t)
    BY <1>0, <1>2, <2>4 DEF NotifyFront, FrontWillHear, IsFront
  <2>5. CASE NotifyOne(t)
    BY <1>0, <1>2, <2>5 DEF NotifyOne, FrontWillHear
  <2>6. Notify(t) => \/ NotifyGeneration(t) \/ NotifyBroadcast(t)
                     \/ NotifyFront(t) \/ NotifyOne(t)
    BY DEF Notify
  <2>7. StepOf(t) => Notify(t)
    BY <1>2, NotifiesFirst
  <2> QED
    BY <2>1, <2>2, <2>3, <2>4, <2>5, <2>6, <2>7, OneMoves
<1> QED
  BY <1>1, <1>2, StoringMoves, MovesAreHeard DEF FrontWillHear


-----------------------------------------------------------------------------
(* The head of the queue *)

\* What HeadKnows says of a head that nobody has told otherwise.
Sees(r) ==
    /\ pc[r] = "full" => \A s \in request[r].candidates : Selectable(s)
    /\ pc[r] # "full" /\ request[r].saturated => \E s \in Ask[r] : Selectable(s)
    /\ \A s \in Ask[r] \ request[r].candidates : ~Worth(s)

Selecting(r) == pc[r] \in {"full", "try", "recheck"}

\* Who does not act keeps its selection.
LEMMA RequestActs ==
    ASSUME Types, Next, NEW r \in Requests
    PROVE  RequestStep(r) \/ (pc'[r] = pc[r] /\ request'[r] = request[r])
<1>0. r \in Threads /\ r \notin Connectors /\ r \notin Operators
  BY PoolAssumption DEF Threads
<1>1. CASE \E s \in Servers : EjectionLapses(s)
  BY <1>1 DEF EjectionLapses
<1>2. CASE \E t \in Threads : Apart(t) /\ t # r
  BY <1>0, <1>2 DEF Apart
<1>3. CASE Notify(r)
  BY <1>3 DEF Notify, NotifyGeneration, NotifyBroadcast, NotifyFront, NotifyOne
<1> QED
  BY <1>0, <1>1, <1>2, <1>3, OneMoves DEF StepOf

LEMMA SeesStep ==
    ASSUME Types, Candidates, Next, NEW r \in Requests, Selecting(r), Selecting(r)', Sees(r),
           \A s \in Servers : Unimproved(s)
    PROVE  Sees(r)' \/ GenerationMoves'
<1> USE PoolAssumption
<1>0. /\ pc \in [Threads -> ProgramCounters] /\ request \in [Requests -> Selections]
      /\ todo \in [Threads -> {"none", "generation", "broadcast", "front", "one"}]
      /\ r \in Threads /\ request[r] \in Selections
      /\ Ask[r] \subseteq Servers /\ request[r].candidates \subseteq Ask[r]
  BY DEF Types, TypeOK, Threads, Candidates
<1>1. CASE pc'[r] = pc[r] /\ request'[r] = request[r]
  BY <1>0, <1>1 DEF Sees, Unimproved
<1>2. CASE ReadSaturated(r)
  <2> DEFINE b == \E s \in request[r].candidates : ~HasCapacity(s)
  <2>1. /\ pc[r] = "full" /\ pc' = [pc EXCEPT ![r] = "try"]
        /\ request' = [request EXCEPT ![r].saturated = b]
    BY <1>2 DEF ReadSaturated, Runs, Goes
  <2>2. b => \E s \in Ask[r] : Selectable(s)
    BY <1>0, <2>1 DEF Sees
  <2> HIDE DEF b
  <2>3. pc'[r] = "try" /\ request'[r].saturated = b /\ request'[r].candidates = request[r].candidates
    BY <1>0, <2>1 DEF Selections
  <2> QED
    BY <1>0, <2>1, <2>2, <2>3 DEF Sees, Unimproved
<1>3. ASSUME NEW s \in Servers, TryAcquire(r, s) PROVE Sees(r)'
  <2>1. CASE Acquirable(s)
    <3>1. /\ pc[r] = "try" /\ pc' = [pc EXCEPT ![r] = "recheck"]
          /\ request' = [request EXCEPT ![r].held = s]
      BY <1>3, <2>1 DEF TryAcquire, Runs, Goes
    <3>2. /\ pc'[r] = "recheck" /\ request'[r].saturated = request[r].saturated
          /\ request'[r].candidates = request[r].candidates
      BY <1>0, <3>1 DEF Selections
    <3> QED
      BY <1>0, <3>1, <3>2 DEF Sees, Unimproved
  <2>2. CASE ~Acquirable(s)
    <3>1. /\ pc[r] = "try" /\ pc' = pc
          /\ request' = [request EXCEPT ![r].candidates = @ \ {s}]
      BY <1>3, <2>2 DEF TryAcquire, Runs
    <3>2. /\ request'[r].saturated = request[r].saturated
          /\ request'[r].candidates = request[r].candidates \ {s}
      BY <1>0, <3>1 DEF Selections
    <3>3. ~Worth(s)
      BY <2>2 DEF Worth
    <3> QED
      BY <1>0, <3>1, <3>2, <3>3 DEF Sees, Unimproved
  <2> QED
    BY <2>1, <2>2
<1>4. CASE Recheck(r)
  BY <1>0, <1>4 DEF Recheck, Goes, Notifies, GenerationMoves, Selecting
<1>5. CASE Enqueue(r) \/ Look(r) \/ Unselected(r) \/ Wake(r) \/ GiveUp(r) \/ Leave(r) \/ Release(r)
  BY <1>0, <1>5 DEF Enqueue, Starts, Look, Unselected, Wake, GiveUp, Leave, Release, Runs, Goes,
     Selecting
<1> QED
  BY <1>1, <1>2, <1>3, <1>4, <1>5, RequestActs DEF RequestStep

LEMMA HeadKnowsStep ==
    ASSUME Types, Holders, Positive, OnlyTheHeadSelects, Candidates, HeadKnows, Next
    PROVE  HeadKnows'
<1> USE PoolAssumption
<1>0. /\ pc \in [Threads -> ProgramCounters] /\ request \in [Requests -> Selections]
      /\ Requests \subseteq Threads
  BY DEF Types, TypeOK, Threads
<1> SUFFICES ASSUME NEW r \in Requests, Selecting(r)'
             PROVE  r \in notified' \/ FrontWillHear(r)' \/ Sees(r)'
  BY DEF HeadKnows, Selecting, Sees
<1>1. CASE Selecting(r)
  <2>1. /\ IsFront(r) /\ Enabled(r) /\ Enabled(r)' /\ r \in Range(waiters)
    BY <1>1 DEF OnlyTheHeadSelects, Selecting, Enabled
  <2>2. CASE r \in notified \/ FrontWillHear(r)
    BY <2>1, <2>2, Heard
  <2>3. CASE Sees(r) /\ \A s \in Servers : Unimproved(s)
    BY <1>1, <2>3, SeesStep, MovesAreHeard
  <2>4. CASE GenerationMoves'
    BY <2>4, MovesAreHeard
  <2> QED
    BY <1>1, <2>2, <2>3, <2>4, Told DEF HeadKnows, Selecting, Sees
<1>2. CASE ~Selecting(r)
  <2>1. Look(r) /\ IsFront(r)
    BY <1>0, <1>2, RequestActs DEF RequestStep, Enqueue, Starts, Look, ReadSaturated, TryAcquire,
       Recheck, Unselected, Wake, GiveUp, Leave, Release, Runs, Goes, Selecting
  <2> DEFINE C == {s \in Ask[r] : Selectable(s)}
  <2>2. server' = server /\ pc'[r] = "full" /\ request' = [request EXCEPT ![r].candidates = C]
    BY <1>0, <2>1 DEF Look, Goes
  <2>3. /\ \A s \in C : Selectable(s) /\ Selectable(s)'
        /\ \A s \in Ask[r] \ C : ~Worth(s)'
    BY <2>2 DEF Worth, Acquirable, Selectable
  <2> HIDE DEF C
  <2>4. request'[r].candidates = C
    BY <1>0, <2>2 DEF Selections
  <2> QED
    BY <2>2, <2>3, <2>4 DEF Sees
<1> QED
  BY <1>1, <1>2


\* Whoever comes to the front after somebody has left it will hear.
LEMMA NewFront ==
    ASSUME Types, OnlyTheHeadSelects, Next, NEW r \in Requests, ~IsFront(r), IsFront(r)',
           pc[r] # "out"
    PROVE  FrontWillHear(r)'
<1> USE PoolAssumption
<1>0. /\ waiters \in Seq(Requests) /\ Requests \subseteq Threads
      /\ todo \in [Threads -> {"none", "generation", "broadcast", "front", "one"}]
  BY DEF Types, TypeOK, Threads
<1>1. waiters' # waiters
  BY DEF IsFront
<1>2. CASE \E q \in Requests : Enqueue(q)
  <2>1. PICK q \in Requests : q # r /\ waiters' = Append(waiters, q)
    BY <1>2 DEF Enqueue, Starts, Runs
  <2>2. CASE waiters = <<>>
    BY <1>0, <2>1, <2>2 DEF IsFront
  <2>3. CASE waiters # <<>>
    <3>1. Head(Append(waiters, q)) = Head(waiters)
      BY <1>0, <2>1, <2>3
    <3> QED
      BY <2>1, <2>3, <3>1 DEF IsFront
  <2> QED
    BY <2>2, <2>3
<1>3. CASE \E q \in Requests : Leave(q)
  <2>1. PICK q \in Requests : Leave(q)
    BY <1>3
  <2>2. CASE IsFront(q)
    <3>1. todo'[q] = "front"
      BY <1>0, <2>1, <2>2 DEF Leave
    <3> QED
      BY <1>0, <3>1 DEF FrontWillHear
  <2>3. CASE ~IsFront(q)
    <3>1. q \in Range(waiters) /\ Distinct(waiters) /\ waiters' = Removed(q)
      BY <2>1 DEF Leave, Runs, OnlyTheHeadSelects, Distinct
    <3>2. Head(waiters') = Head(waiters)
      BY <1>0, <2>3, <3>1, RemovedProperties
    <3>3. waiters # <<>>
      BY <3>1 DEF Range
    <3> QED
      BY <3>2, <3>3 DEF IsFront
  <2> QED
    BY <2>2, <2>3
<1>4. ASSUME NEW q \in Requests, RequestStep(q), ~Enqueue(q), ~Leave(q) PROVE waiters' = waiters
  BY <1>4 DEF RequestStep, Look, ReadSaturated, TryAcquire, Recheck, Unselected, Wake, GiveUp, Release,
     QueueUnchanged
<1>5. ASSUME NEW c \in Connectors, ConnectorStep(c) PROVE waiters' = waiters
  BY <1>5 DEF ConnectorStep, SelectTarget, Reuse, NothingIdle, TryConnect, EnableAndCompare,
     ConnectorWakes, ConnectorGivesUp, KeepAlive, Close, ConnectorUnchanged
<1>6. ASSUME NEW o \in Operators, OperatorStep(o) PROVE waiters' = waiters
  BY <1>6 DEF OperatorStep, IdleCloses, SetAdministrativeState, SetAllAdministrativeStates, StoreNext,
     SetHealthOverride, SetMaxConnections, SetChecksEnabled, ProbeStarts, ProbeEnds, PassiveFailure,
     OperatorUnchanged
<1>7. ASSUME NEW t \in Threads, Notify(t) PROVE waiters' = waiters
  BY <1>7 DEF Notify, NotifyGeneration, NotifyBroadcast, NotifyFront, NotifyOne
<1>8. ASSUME NEW s \in Servers, EjectionLapses(s) PROVE waiters' = waiters
  BY <1>8 DEF EjectionLapses
<1> QED
  BY <1>1, <1>2, <1>3, <1>4, <1>5, <1>6, <1>7, <1>8 DEF Next

LEMMA SleepingHeadStep ==
    ASSUME Types, Holders, Positive, OnlyTheHeadSelects, Candidates, HeadKnows,
           SleepingHeadMustWait, Next
    PROVE  SleepingHeadMustWait'
<1> USE PoolAssumption
<1>0. /\ pc \in [Threads -> ProgramCounters] /\ Requests \subseteq Threads
      /\ \A q \in Requests : Ask[q] \subseteq Servers
  BY DEF Types, TypeOK, Threads
<1> SUFFICES ASSUME NEW r \in Requests, IsFront(r)', pc'[r] = "sleep", r \notin notified'
             PROVE  MustWait(r)' \/ FrontWillHear(r)'
  BY DEF SleepingHeadMustWait
<1>1. CASE pc[r] = "sleep" /\ IsFront(r)
  <2>1. Enabled(r) /\ Enabled(r)' /\ r \in Range(waiters)
    BY <1>1 DEF OnlyTheHeadSelects, Enabled
  <2>2. CASE r \in notified \/ FrontWillHear(r)
    BY <1>1, <2>1, <2>2, Heard
  <2>3. CASE GenerationMoves'
    BY <2>3, MovesAreHeard
  <2>4. CASE MustWait(r) /\ \A s \in Servers : Unimproved(s)
    BY <1>0, <2>4 DEF MustWait, Unimproved, Worth
  <2> QED
    BY <1>1, <2>2, <2>3, <2>4, Told DEF SleepingHeadMustWait
<1>2. CASE pc[r] # "out" /\ ~IsFront(r)
  BY <1>2, NewFront
<1>3. CASE pc[r] # "sleep"
  <2>1. Look(r) \/ (Unselected(r) /\ request[r].saturated)
    BY <1>0, <1>3, RequestActs DEF RequestStep, Enqueue, Starts, Look, ReadSaturated, TryAcquire,
       Recheck, Unselected, Wake, GiveUp, Leave, Release, Runs, Goes
  <2>2. CASE Look(r)
    <3>1. ~IsFront(r) /\ pc[r] = "look"
      BY <1>0, <2>2 DEF Look, Runs, Goes
    <3> QED
      BY <1>2, <3>1
  <2>3. CASE Unselected(r) /\ request[r].saturated
    <3>1. /\ pc[r] = "try" /\ IsFront(r) /\ r \notin notified /\ server' = server
          /\ request[r].candidates = {} /\ Enabled(r) /\ Enabled(r)' /\ r \in Range(waiters)
      BY <2>3 DEF Unselected, Runs, OnlyTheHeadSelects, Enabled
    <3>2. CASE FrontWillHear(r)
      BY <3>1, <3>2, Heard
    <3>3. CASE Sees(r)
      <4>1. MustWait(r)
        BY <2>3, <3>1, <3>3 DEF Sees, MustWait, Worth
      <4>2. MustWait(r)'
        BY <3>1, <4>1 DEF MustWait, Acquirable, Selectable, HasCapacity, MaxConnections
      <4> QED
        BY <4>2
    <3> QED
      BY <3>1, <3>2, <3>3 DEF HeadKnows, Sees
  <2> QED
    BY <2>1, <2>2, <2>3
<1> QED
  BY <1>1, <1>2, <1>3


-----------------------------------------------------------------------------
(* Connectors *)

Trying(c) == pc[c] \in {"reuse", "try", "enable", "sleep"}

\* A generation that is about to move does, and whoever has read it is behind.
LEMMA GenerationLasts ==
    ASSUME Types, Next, GenerationMoves, NEW c \in Connectors, Trying(c)
    PROVE  GenerationMoves' \/ (c \in stale' /\ \E t \in Threads : todo'[t] = "broadcast")
<1> USE PoolAssumption
<1>0. todo \in [Threads -> {"none", "generation", "broadcast", "front", "one"}]
  BY DEF Types, TypeOK
<1>1. ASSUME NEW t \in Threads, todo[t] = "generation"
      PROVE  GenerationMoves' \/ (c \in stale' /\ \E u \in Threads : todo'[u] = "broadcast")
  <2>1. CASE \E s \in Servers : EjectionLapses(s)
    BY <1>1, <2>1 DEF EjectionLapses, GenerationMoves, Quiet
  <2>2. CASE \E u \in Threads : Apart(u) /\ u # t
    BY <1>1, <2>2 DEF Apart, GenerationMoves
  <2>3. CASE Notify(t)
    BY <1>0, <1>1, <2>3 DEF Notify, NotifyGeneration, NotifyBroadcast, NotifyFront, NotifyOne, Trying
  <2> QED
    BY <1>1, <2>1, <2>2, <2>3, OneMoves, NotifiesFirst
<1> QED
  BY <1>1, StoringMoves DEF GenerationMoves

\* Who does not act stays behind if it was.
LEMMA ConnectorActs ==
    ASSUME Types, Next, NEW c \in Connectors
    PROVE  \/ ConnectorStep(c)
           \/ /\ pc'[c] = pc[c] /\ target'[c] = target[c]
              /\ c \in stale => c \in stale'
              /\ c \in notified => c \in notified'
<1> USE PoolAssumption
<1>0. c \in Threads /\ c \notin Requests /\ c \notin Operators
  BY DEF Threads
<1>1. CASE \E s \in Servers : EjectionLapses(s)
  BY <1>1 DEF EjectionLapses
<1>2. CASE \E t \in Threads : Apart(t) /\ t # c
  BY <1>0, <1>2 DEF Apart
<1>3. CASE Notify(c)
  BY <1>3 DEF Notify, NotifyGeneration, NotifyBroadcast, NotifyFront, NotifyOne
<1> QED
  BY <1>0, <1>1, <1>2, <1>3, OneMoves DEF StepOf

\* Nobody but NotifyGeneration leaves a connector behind.
LEMMA LeftBehind ==
    ASSUME Next, NEW c \in Connectors, c \notin stale, c \in stale'
    PROVE  \E t \in Threads : NotifyGeneration(t)
<1>1. ASSUME NEW q \in Requests, RequestStep(q) PROVE FALSE
  BY <1>1 DEF RequestStep, Enqueue, Look, ReadSaturated, TryAcquire, Recheck, Unselected, Wake, GiveUp,
     Leave, Release, QueueUnchanged
<1>2. ASSUME NEW d \in Connectors, ConnectorStep(d) PROVE FALSE
  BY <1>2 DEF ConnectorStep, SelectTarget, Reuse, NothingIdle, TryConnect, EnableAndCompare,
     ConnectorWakes, ConnectorGivesUp, KeepAlive, Close, Ended, Compare
<1>3. ASSUME NEW o \in Operators, OperatorStep(o) PROVE FALSE
  BY <1>3 DEF OperatorStep, IdleCloses, SetAdministrativeState, SetAllAdministrativeStates, StoreNext,
     SetHealthOverride, SetMaxConnections, SetChecksEnabled, ProbeStarts, ProbeEnds, PassiveFailure,
     OperatorUnchanged
<1> QED
  BY <1>1, <1>2, <1>3 DEF Next, Notify, NotifyBroadcast, NotifyFront, NotifyOne, EjectionLapses

LEMMA ConnectorKnowsStep ==
    ASSUME Types, Holders, Positive, ConnectorKnows, Next
    PROVE  ConnectorKnows'
<1> USE PoolAssumption
<1>0. /\ pc \in [Threads -> ProgramCounters] /\ Connectors \subseteq Threads
      /\ todo \in [Threads -> {"none", "generation", "broadcast", "front", "one"}]
      /\ server \in [Servers -> Endpoints]
  BY DEF Types, TypeOK, Threads
<1> SUFFICES ASSUME NEW c \in Connectors
             PROVE  /\ pc'[c] \in {"try", "enable", "sleep"} /\ c \notin stale' =>
                          GenerationMoves' \/ server'[target'[c]].idle = 0
                    /\ pc'[c] \in {"enable", "sleep"} /\ c \notin stale' =>
                          GenerationMoves' \/ ~Worth(target[c])'
                    /\ pc'[c] = "sleep" /\ c \in stale' /\ c \notin notified' =>
                          \E t \in Threads : todo'[t] = "broadcast"
  BY DEF ConnectorKnows
<1>1. /\ pc[c] \in {"out", "reuse", "try", "enable", "sleep", "busy"}
      /\ pc[c] # "out" => target[c] \in Servers
  BY <1>0 DEF Types, Places, PlaceOf
\* The connector moves to where the invariant says something only as the code has it.
<1>2. ASSUME pc'[c] \in {"try", "enable", "sleep"}
      PROVE  \/ /\ pc[c] \in {"try", "enable", "sleep"} /\ target'[c] = target[c]
                /\ c \in stale => c \in stale'
                /\ pc[c] # pc'[c] => pc[c] = "try" \/ c \notin stale'
             \/ pc[c] = "reuse" /\ target'[c] = target[c] /\ pc'[c] = "try"
  <2>1. CASE ConnectorStep(c)
    BY <1>0, <1>2, <2>1 DEF ConnectorStep, SelectTarget, Reuse, NothingIdle, TryConnect,
       EnableAndCompare, ConnectorWakes, ConnectorGivesUp, KeepAlive, Close, Ended, Compare, Runs,
       Starts, Goes
  <2> QED
    BY <1>2, <2>1, ConnectorActs
<1>3. ASSUME pc'[c] \in {"try", "enable", "sleep"}, c \notin stale', ~GenerationMoves'
      PROVE  server'[target'[c]].idle = 0
  <2>1. CASE pc[c] \in {"try", "enable", "sleep"}
    <3>1. target[c] \in Servers /\ target'[c] = target[c] /\ c \notin stale
      BY <1>1, <1>2, <1>3, <2>1
    <3>2. ~GenerationMoves
      BY <1>3, <2>1, GenerationLasts DEF Trying
    <3>3. server[target[c]].idle = 0
      BY <2>1, <3>1, <3>2 DEF ConnectorKnows
    <3>4. Unimproved(target[c])
      BY <1>3, <3>1, Told
    <3> QED
      BY <3>1, <3>3, <3>4 DEF Unimproved
  <2>2. CASE pc[c] = "reuse"
    <3>1. NothingIdle(c)
      <4>1. ConnectorStep(c)
        BY <1>3, <2>2, ConnectorActs
      <4>2. ~Reuse(c)
        BY <1>0, <1>3, <2>2 DEF Reuse, Goes, Notifies, GenerationMoves
      <4> QED
        BY <1>3, <2>2, <4>1, <4>2 DEF ConnectorStep, SelectTarget, TryConnect, EnableAndCompare,
           ConnectorWakes, ConnectorGivesUp, KeepAlive, Close, Runs, Starts
    <3> QED
      BY <3>1 DEF NothingIdle
  <2> QED
    BY <1>2, <1>3, <2>1, <2>2
<1>4. ASSUME pc'[c] \in {"enable", "sleep"}, c \notin stale', ~GenerationMoves'
      PROVE  ~Worth(target[c])'
  <2>0. target[c] \in Servers /\ target'[c] = target[c] /\ c \in Connectors
    BY <1>1, <1>2, <1>4
  <2>1. CASE pc[c] \in {"enable", "sleep"}
    <3>1. c \notin stale
      BY <1>2, <1>4, <2>1
    <3>2. ~GenerationMoves
      BY <1>4, <2>1, GenerationLasts DEF Trying
    <3>3. ~Worth(target[c])
      BY <2>1, <3>1, <3>2 DEF ConnectorKnows
    <3>4. PICK s \in Servers : s = target[c]
      BY <2>0
    <3>5. Unimproved(s)
      BY <1>4, Told
    <3> QED
      BY <2>0, <3>3, <3>4, <3>5 DEF Unimproved
  <2>2. CASE pc[c] = "try"
    <3>1. TryConnect(c)
      <4>1. ConnectorStep(c)
        BY <1>4, <2>2, ConnectorActs
      <4> QED
        BY <1>4, <2>2, <4>1 DEF ConnectorStep, SelectTarget, Reuse, NothingIdle, EnableAndCompare,
           ConnectorWakes, ConnectorGivesUp, KeepAlive, Close, Runs, Starts
    <3>2. ~Acquirable(target[c]) /\ server' = server
      BY <1>0, <1>4, <3>1 DEF TryConnect, Goes
    <3> QED
      BY <2>0, <3>2 DEF Worth, Acquirable, Selectable, HasCapacity, MaxConnections
  <2> QED
    BY <1>2, <1>4, <2>1, <2>2
<1>5. ASSUME pc'[c] = "sleep", c \in stale', c \notin notified'
      PROVE  \E t \in Threads : todo'[t] = "broadcast"
  <2>1. pc[c] = "sleep"
    BY <1>0, <1>2, <1>5, ConnectorActs DEF ConnectorStep, SelectTarget, Reuse, NothingIdle, TryConnect,
       EnableAndCompare, ConnectorWakes, ConnectorGivesUp, KeepAlive, Close, Ended, Compare, Runs,
       Starts, Goes
  <2>2. CASE c \notin stale
    <3>1. PICK t \in Threads : NotifyGeneration(t)
      BY <1>5, <2>2, LeftBehind
    <3> QED
      BY <1>0, <3>1 DEF NotifyGeneration
  <2>3. CASE c \in stale
    <3>1. c \notin notified
      BY <1>0, <1>5, <2>1, ConnectorActs DEF ConnectorStep, SelectTarget, Reuse, NothingIdle,
         TryConnect, EnableAndCompare, ConnectorWakes, ConnectorGivesUp, KeepAlive, Close, Ended,
         Compare, Runs, Starts, Goes
    <3>2. PICK t \in Threads : todo[t] = "broadcast"
      BY <2>1, <2>3, <3>1 DEF ConnectorKnows
    <3>3. CASE \E s \in Servers : EjectionLapses(s)
      BY <3>2, <3>3 DEF EjectionLapses, Quiet
    <3>4. CASE \E u \in Threads : Apart(u) /\ u # t
      BY <3>2, <3>4 DEF Apart
    <3>5. CASE Notify(t)
      BY <1>0, <1>5, <2>1, <3>2, <3>5 DEF Notify, NotifyGeneration, NotifyBroadcast, NotifyFront,
         NotifyOne, Listening
    <3> QED
      BY <3>2, <3>3, <3>4, <3>5, OneMoves, NotifiesFirst
  <2> QED
    BY <2>2, <2>3
<1> QED
  BY <1>3, <1>4, <1>5


-----------------------------------------------------------------------------
(* The invariant *)

LEMMA InitIInv == Init => IInv
<1> USE PoolAssumption
<1> SUFFICES ASSUME Init PROVE IInv
  OBVIOUS
<1> USE DEF Init
<1>1. /\ RecoverAfter \in Nat \ {0}
      /\ \A s \in Servers : server[s] \in Endpoints
  <2>1. RecoverAfter \in Nat \ {0}
    BY DEF RecoverAfter
  <2> QED
    BY <2>1 DEF Endpoints
<1>2. TypeOK
  <2>1. server \in [Servers -> Endpoints]
    BY <1>1
  <2>2. request \in [Requests -> Selections]
    BY DEF Selections, None
  <2>3. waiters \in Seq(Requests) /\ events \in 0..MaxEvents
    OBVIOUS
  <2>4. /\ pc \in [Threads -> ProgramCounters] /\ front \in [Threads -> Requests \cup {None}]
        /\ todo \in [Threads -> {"none", "generation", "broadcast", "front", "one"}]
    BY DEF ProgramCounters
  <2> QED
    BY <2>1, <2>2, <2>3, <2>4 DEF TypeOK
<1>3. Places /\ Holders /\ Candidates /\ HeadKnows /\ SleepingHeadMustWait /\ ConnectorKnows
  <2>1. Requests \subseteq Threads /\ Connectors \subseteq Threads /\ Operators \subseteq Threads
    BY DEF Threads
  <2>2. /\ \A t \in Threads : pc[t] = "out"
        /\ \A r \in Requests : request[r].held = None /\ request[r].candidates = {}
        /\ target = [t \in Connectors \cup Operators |-> None]
    OBVIOUS
  <2> QED
    BY <2>1, <2>2 DEF Places, PlaceOf, Holders, Candidates, HeadKnows, SleepingHeadMustWait,
       ConnectorKnows
<1>4. PermitsAreCounted
  <2> SUFFICES ASSUME NEW s \in Servers
               PROVE  server[s].active = Cardinality(Leases(s)) + Cardinality(InUse(s)) + server[s].idle
    BY DEF PermitsAreCounted, Leases, InUse
  <2>1. Leases(s) = {} /\ InUse(s) = {}
    BY DEF Leases, InUse, None, Threads
  <2>2. Cardinality({}) = 0
    BY FS_EmptySet
  <2> QED
    BY <2>1, <2>2
<1>5. OnlyTheHeadSelects
  <2>1. waiters = <<>> /\ Len(waiters) = 0 /\ Range(waiters) = {}
    BY DEF Range
  <2>2. \A r \in Requests : pc[r] = "out"
    BY DEF Threads
  <2> QED
    BY <2>1, <2>2 DEF OnlyTheHeadSelects
<1> QED
  BY <1>2, <1>3, <1>4, <1>5 DEF IInv

LEMMA IInvStep == IInv /\ [Next]_vars => IInv'
<1> SUFFICES ASSUME IInv, [Next]_vars PROVE IInv'
  OBVIOUS
<1>1. CASE Next
  <2>1. Types /\ Positive /\ Range(waiters) \subseteq Requests
    <3>1. Types
      BY DEF IInv, Types
    <3>2. Positive
      BY <3>1, CountedIsPositive DEF IInv
    <3>3. Range(waiters) \subseteq Requests
      BY DEF IInv, TypeOK, Range
    <3> QED
      BY <3>1, <3>2, <3>3
  <2>2. TypeOK'
    <3>1. server' \in [Servers -> Endpoints]
      BY <1>1, <2>1, ServerType DEF IInv
    <3>2. request' \in [Requests -> Selections]
      BY <1>1, <2>1, RequestType DEF IInv
    <3>3. ThreadTypes'
      BY <1>1, ThreadType DEF IInv, TypeOK, ThreadTypes
    <3>4. RestTypes'
      BY <1>1, <2>1, RestType DEF IInv, TypeOK, RestTypes
    <3>5. waiters' \in Seq(Requests)
      BY <1>1, <2>1, FifoStep DEF IInv
    <3> QED
      BY <3>1, <3>2, <3>3, <3>4, <3>5 DEF TypeOK, ThreadTypes, RestTypes
  <2>3. Places' /\ Holders' /\ Candidates'
    BY <1>1, <2>1, PlacesStep, HoldersStep, RequestType DEF IInv
  <2>4. PermitsAreCounted'
    BY <1>1, <2>1, PermitsStep DEF IInv
  <2>5. OnlyTheHeadSelects'
    BY <1>1, <2>1, FifoStep DEF IInv
  <2>6. HeadKnows'
    BY <1>1, <2>1, HeadKnowsStep DEF IInv
  <2>7. SleepingHeadMustWait'
    BY <1>1, <2>1, SleepingHeadStep DEF IInv
  <2>8. ConnectorKnows'
    BY <1>1, <2>1, ConnectorKnowsStep DEF IInv
  <2> QED
    BY <2>2, <2>3, <2>4, <2>5, <2>6, <2>7, <2>8 DEF IInv
<1>2. CASE UNCHANGED vars
  <2>1. TypeOK' /\ Places' /\ Holders' /\ Candidates'
    BY <1>2 DEF vars, IInv, TypeOK, Places, PlaceOf, Holders, Candidates
  <2>2. PermitsAreCounted' /\ OnlyTheHeadSelects'
    BY <1>2 DEF vars, IInv, PermitsAreCounted, OnlyTheHeadSelects, IsFront
  <2>3. HeadKnows' /\ SleepingHeadMustWait'
    <3>0. /\ server' = server /\ waiters' = waiters /\ pc' = pc /\ todo' = todo /\ front' = front
          /\ request' = request /\ notified' = notified
      BY <1>2 DEF vars
    <3>1. ASSUME NEW s \in Servers
          PROVE  /\ Selectable(s)' <=> Selectable(s)
                 /\ Acquirable(s)' <=> Acquirable(s)
                 /\ Worth(s)' <=> Worth(s)
      <4>1. Selectable(s)' <=> Selectable(s)
        BY <3>0 DEF Selectable
      <4>2. HasCapacity(s)' <=> HasCapacity(s)
        BY <3>0 DEF HasCapacity, MaxConnections
      <4> QED
        BY <3>0, <4>1, <4>2 DEF Worth, Acquirable
    <3>2. ASSUME NEW r \in Requests
          PROVE  /\ FrontWillHear(r)' <=> FrontWillHear(r)
                 /\ IsFront(r)' <=> IsFront(r)
                 /\ Ask[r] \subseteq Servers /\ request[r].candidates \subseteq Ask[r]
      BY <3>0, PoolAssumption DEF IInv, Candidates, FrontWillHear, IsFront
    <3>3. HeadKnows'
      <4> SUFFICES ASSUME NEW r \in Requests, pc[r] \in {"full", "try", "recheck"},
                          r \notin notified, ~FrontWillHear(r)
                   PROVE  Sees(r)'
        BY <3>0, <3>2 DEF HeadKnows, Sees
      <4>1. Sees(r)
        BY DEF IInv, HeadKnows, Sees
      <4> QED
        BY <3>0, <3>1, <3>2, <4>1 DEF Sees
    <3>4. SleepingHeadMustWait'
      <4> SUFFICES ASSUME NEW r \in Requests, IsFront(r), pc[r] = "sleep", r \notin notified,
                          ~FrontWillHear(r)
                   PROVE  MustWait(r)'
        BY <3>0, <3>2 DEF SleepingHeadMustWait
      <4>1. MustWait(r)
        BY DEF IInv, SleepingHeadMustWait
      <4> QED
        BY <3>0, <3>1, <3>2, <4>1 DEF MustWait
    <3> QED
      BY <3>3, <3>4
  <2>4. ConnectorKnows'
    BY <1>2 DEF vars, IInv, ConnectorKnows, GenerationMoves, Worth, Acquirable, Selectable,
       HasCapacity, MaxConnections
  <2> QED
    BY <2>1, <2>2, <2>3, <2>4 DEF IInv
<1> QED
  BY <1>1, <1>2

\* What a sleeping connector knows is enough.
LEMMA KnownConnectorsWait ==
    ASSUME ConnectorKnows
    PROVE  SleepingConnectorMustWait
<1> SUFFICES ASSUME NEW c \in Connectors, pc[c] = "sleep", c \notin notified
             PROVE  \/ /\ server[target[c]].idle = 0
                       /\ Acquirable(target[c]) => server[target[c]].ejected = "lapsed"
                    \/ \E t \in Threads :
                          todo[t] \in {"generation", "broadcast"} \/ (t \in Operators /\ pc[t] = "store")
  BY DEF SleepingConnectorMustWait
<1>1. CASE c \in stale
  BY <1>1 DEF ConnectorKnows
<1>2. CASE c \notin stale /\ GenerationMoves
  BY <1>2 DEF GenerationMoves
<1>3. CASE c \notin stale /\ ~GenerationMoves
  BY <1>3 DEF ConnectorKnows, Worth
<1> QED
  BY <1>1, <1>2, <1>3

-----------------------------------------------------------------------------
(* The theorems *)

\* Every variable of the pool keeps its type; in particular no count of active work,
\* idle connections or consecutive results is ever negative (PoolEndpoint).
THEOREM TypeCorrect == Spec => []TypeOK
<1>1. IInv => TypeOK
  BY DEF IInv
<1> QED
  BY InitIInv, IInvStep, <1>1, PTL DEF Spec

\* However many requests, connectors and operators there are, and however their steps
\* interleave, active_work is exactly the leases, connections in use and idle
\* connections there are (try_acquire_capacity, release_capacity, the drop of
\* EndpointLeaseInner, notify_reusable).
THEOREM PermitsAlwaysCounted == Spec => []PermitsAreCounted
<1>1. IInv => PermitsAreCounted
  BY DEF IInv
<1> QED
  BY InitIInv, IInvStep, <1>1, PTL DEF Spec

\* A request is in the FIFO exactly while it waits, once, and selects only as its head
\* (QueueWaitGuard::new, is_front, finish and drop).
THEOREM FifoOrder == Spec => []OnlyTheHeadSelects
<1>1. IInv => OnlyTheHeadSelects
  BY DEF IInv
<1> QED
  BY InitIInv, IInvStep, <1>1, PTL DEF Spec

\* No wake-up of the head is lost: while it sleeps with nothing under way it has nothing
\* to take but what a lapsed ejection gives (select_wait_with, notify_front,
\* notify_capacity_waiters).
THEOREM HeadNeverMissesCapacity == Spec => []SleepingHeadMustWait
<1>1. IInv => SleepingHeadMustWait
  BY DEF IInv
<1> QED
  BY InitIInv, IInvStep, <1>1, PTL DEF Spec

\* No wake-up of a connector is lost: the generation it compares after it enabled its
\* Notified tells it of every release it did not see (wait_for_capacity,
\* notify_capacity_waiters, release_stream).
THEOREM ConnectorNeverMissesCapacity == Spec => []SleepingConnectorMustWait
<1>1. IInv => SleepingConnectorMustWait
  BY KnownConnectorsWait DEF IInv
<1> QED
  BY InitIInv, IInvStep, <1>1, PTL DEF Spec

=============================================================================
