-------------------------- MODULE CorrelationTable --------------------------
(***************************************************************************)
(* The bounded RPC correlation table of crates/oxiroute-supervision/src/    *)
(* correlation.rs.  Callers pick request ids, also ones they used before;   *)
(* the table adds a generation, and the pair is the token.  Completions may *)
(* come late, twice or for tokens that were never issued, and time is the   *)
(* caller's.                                                                *)
(***************************************************************************)
EXTENDS Naturals, FiniteSets

CONSTANTS
    RequestIds,     \* request ids a caller picks from
    Epochs,         \* deadlines and clock readings
    MaxPending,     \* MAX, the table's capacity
    MaxCorrelation  \* the largest correlation generation, u64::MAX in the code

ASSUME CorrelationAssumption ==
    /\ IsFiniteSet(RequestIds) /\ Epochs \subseteq Nat
    /\ MaxPending \in Nat /\ MaxCorrelation \in Nat \ {0}

VARIABLES
    pending,        \* the entry of each request id, NoEntry where there is none
    nextGeneration, \* next_generation; 0 when generations are exhausted
    returned,       \* whether the last operation returned Ok
    issued,         \* tokens returned by insert
    resolved        \* tokens completed or expired

tableVars == <<pending, nextGeneration, returned, issued, resolved>>

NoEntry == [generation |-> 0, deadline |-> 0]

Token(id, g) == [request_id |-> id, generation |-> g]

Tokens == [request_id : RequestIds, generation : 1..MaxCorrelation]

Pending == {id \in RequestIds : pending[id] # NoEntry}

\* The tokens of the entries of a set of request ids.
TokensOf(ids) == {Token(id, pending[id].generation) : id \in ids}

TableInit ==
    /\ pending = [id \in RequestIds |-> NoEntry]
    /\ nextGeneration = 1 /\ returned = TRUE
    /\ issued = {} /\ resolved = {}

Errs == returned' = FALSE /\ UNCHANGED <<pending, nextGeneration, issued, resolved>>

\* The generation after this one; 0 once they are exhausted.
Advance == IF nextGeneration = MaxCorrelation THEN 0 ELSE nextGeneration + 1

\* A request enters the table under the next generation.
Store(id, deadline, next) ==
    /\ pending' = [pending EXCEPT ![id] = [generation |-> nextGeneration, deadline |-> deadline]]
    /\ nextGeneration' = next
    /\ returned' = TRUE
    /\ issued' = issued \cup {Token(id, nextGeneration)}
    /\ UNCHANGED resolved

\* insert: a duplicate id, a full table and exhausted generations are refused.
Insert(id, deadline) ==
    IF pending[id] # NoEntry \/ Cardinality(Pending) = MaxPending \/ nextGeneration = 0 THEN Errs
    ELSE Store(id, deadline, Advance)

\* Mutant (ResolvedOnce): the generation is not compared.
CompleteById(token) ==
    LET id == token.request_id IN
    IF pending[id] = NoEntry THEN Errs
    ELSE /\ pending' = [pending EXCEPT ![id] = NoEntry]
         /\ returned' = TRUE
         /\ resolved' = resolved \cup {token}
         /\ UNCHANGED <<nextGeneration, issued>>

\* complete: only the token of the entry itself removes it.
Complete(token) ==
    LET id == token.request_id IN
    IF pending[id].generation # token.generation THEN Errs
    ELSE /\ pending' = [pending EXCEPT ![id] = NoEntry]
         /\ returned' = TRUE
         /\ resolved' = resolved \cup {token}
         /\ UNCHANGED <<nextGeneration, issued>>

\* expire: every entry whose deadline is at or before now leaves.
Expire(now) ==
    LET expired == {id \in Pending : pending[id].deadline <= now}
    IN  /\ pending' = [id \in RequestIds |-> IF id \in expired THEN NoEntry ELSE pending[id]]
        /\ returned' = TRUE
        /\ resolved' = resolved \cup TokensOf(expired)
        /\ UNCHANGED <<nextGeneration, issued>>

TableNext ==
    \/ \E id \in RequestIds, deadline \in Epochs : Insert(id, deadline)
    \/ \E token \in Tokens : Complete(token)
    \/ \E now \in Epochs : Expire(now)

TableSpec == TableInit /\ [][TableNext]_tableVars

-----------------------------------------------------------------------------
(* Properties *)

\* Entries carry a nonzero generation that has been used and a deadline.
TableTypeOK ==
    /\ pending \in [RequestIds -> [generation : 1..MaxCorrelation, deadline : Epochs] \cup {NoEntry}]
    /\ nextGeneration \in 0..MaxCorrelation /\ returned \in BOOLEAN
    /\ issued \subseteq Tokens /\ resolved \subseteq Tokens

\* The table never holds more than MAX requests, which is what lets expire
\* build its bounded result without a check.
TableBounded == Cardinality(Pending) <= MaxPending

\* Every issued token is pending or resolved, never both, and nothing else is:
\* no request is lost, and none is answered while it still waits.
ResolvedOnce ==
    /\ issued = TokensOf(Pending) \cup resolved
    /\ TokensOf(Pending) \cap resolved = {}

\* No token is issued twice, however request ids are reused and also when
\* generations run out.
TokensUnique ==
    [][nextGeneration' # nextGeneration => \A t \in issued : t.generation # nextGeneration]_tableVars

Expires(id) == \E now \in Epochs : pending[id].deadline <= now /\ Expire(now)

\* An entry leaves only when its own token completes it or its deadline passes:
\* a late completion of an earlier use of the id cannot touch it, and an insert
\* cannot displace it.
EntriesLeave ==
    \A id \in Pending :
        pending'[id] # pending[id] =>
            /\ pending'[id] = NoEntry
            /\ Complete(Token(id, pending[id].generation)) \/ Expires(id)

EntriesLeaveForAReason == [][EntriesLeave]_tableVars
=============================================================================
