--------------------------- MODULE MasterSystemMC ---------------------------
(***************************************************************************)
(* Instances of MasterSystem for model checking.                            *)
(***************************************************************************)
EXTENDS MasterSystem

MCInstanceIds == 1..MaxInstances

\* Two revisions that bind the same listeners.
MCRevisions == {"old", "new"}
MCListenersOf == [r \in Revisions |-> "same"]

\* One more that binds others, and one that does not load.
MCAllRevisions == {"old", "new", "moved", "broken"}
MCAllListenersOf == [r \in Revisions |-> IF r = "moved" THEN "other" ELSE "same"]
MCBroken == {"broken"}

\* Which workers are faulty.
MCAll == InstanceIds
MCSecond == {2}

Limits(crashes, frames, sends, spawns, writes, stops) ==
    [crashes |-> crashes, frames |-> frames, sends |-> sends, spawns |-> spawns,
     writes |-> writes, stops |-> stops]

MCFaults == Limits(2, 1, 1, 1, 2, 1)
MCCandidateFaults == Limits(1, 0, 0, 1, 2, 1)
MCFrames == Limits(0, 1, 0, 0, 1, 0)

\* "old" and "new" are interchangeable: a service started on either will do.
MCInit == Init /\ disk = "old"
OldFirst == MCInit /\ [][Next]_vars /\ Fairness
=============================================================================
