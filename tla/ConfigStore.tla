----------------------------- MODULE ConfigStore -----------------------------
(***************************************************************************)
(* The revision-checked save of the canonical configuration file            *)
(* (config_coordinator/mod.rs and storage.rs).                              *)
(*                                                                          *)
(* A saver holds the operation mutex, the lock of the directory and the     *)
(* lock file throughout, so savers of all processes take turns: one         *)
(* transaction at a time.  Outsiders (an editor, a deployment script) hold   *)
(* no lock: they rename a file over the canonical name, or truncate it and   *)
(* write it through the descriptor, between any two steps of a saver.       *)
(*                                                                          *)
(* A file is an inode; its content is a revision, Partial while it is being  *)
(* written.  A save is numbered, and the number is its temporary name       *)
(* (TEMP_SEQUENCE).  A step is one system call or one stable read.  A power  *)
(* loss may bring back any directory since the last fsync of it.            *)
(***************************************************************************)
EXTENDS Integers, FiniteSets

CONSTANTS
    MaxSaves,       \* saves
    MaxWrites,      \* writes of outsiders
    MaxFaults,      \* failing system calls and unstable reads
    MaxCrashes      \* killed savers and power losses

ASSUME ConfigStoreAssumption ==
    /\ MaxSaves \in Nat /\ MaxWrites \in Nat /\ MaxFaults \in Nat /\ MaxCrashes \in Nat

VARIABLES
    dir,        \* the directory: which inode each name links
    dirs,       \* directories a power loss may bring back
    file,       \* the content of each inode
    synced,     \* inodes whose content survives a power loss
    tx,         \* the transaction that holds the locks
    saves,      \* outcomes of the saves so far, by number
    writer,     \* the outsider that truncated a file and has yet to write it
    owed,       \* the last acknowledged write: of an outsider, or of a save
    left        \* what remains of the bounds

vars == <<dir, dirs, file, synced, tx, saves, writer, owed, left>>

Partial == 0

\* A revision is new with every write: bytes written again are the same revision
\* to this code, and two writers of the same bytes are not told apart.
Revisions == 1..(MaxSaves + MaxWrites + 1)

Contents == Revisions \cup {Partial}

Inodes == 1..(MaxSaves + MaxWrites + 1)

Canonical == 0

Names == Canonical..MaxSaves

Unlinked == 0

FileSnapshot == [ino : Inodes \cup {Unlinked}, bytes : Contents]

NoSnapshot == [ino |-> Unlinked, bytes |-> Partial]

Idle == [pc |-> "idle", name |-> Canonical, expected |-> Partial, draft |-> Partial,
         ino |-> Unlinked, displaced |-> NoSnapshot, seen |-> NoSnapshot, drop |-> NoSnapshot,
         result |-> "none"]

NoWriter == [ino |-> Unlinked, superseded |-> FALSE]

Init ==
    /\ dir = [n \in Names |-> IF n = Canonical THEN 1 ELSE Unlinked]
    /\ dirs = {dir}
    /\ file = [i \in Inodes |-> IF i = 1 THEN 1 ELSE Partial]
    /\ synced = {1}
    /\ tx = Idle
    /\ saves = [n \in 1..MaxSaves |-> "none"]
    /\ writer = NoWriter
    /\ owed = 1
    /\ left = [saves |-> MaxSaves, writes |-> MaxWrites, faults |-> MaxFaults,
               crashes |-> MaxCrashes]

\* The revision of the next write; a truncated file gets one when it is written.
NewRevision ==
    2 + (MaxSaves - left.saves) + (MaxWrites - left.writes)
      - (IF writer.ino = Unlinked THEN 0 ELSE 1)

Spend(what) ==
    /\ left[what] > 0
    /\ left' = [left EXCEPT ![what] = @ - 1]

---------------------------------------------------------------------------
(* The file system                                                          *)

\* Inodes that no directory links and nobody has open; create_temp's File stays
\* open until the save ends.
FreeInodes ==
    {i \in Inodes : /\ \A d \in dirs, n \in Names : d[n] # i
                    /\ i # tx.ino /\ i # writer.ino}

\* A new inode takes the lowest free number, so that numbers are used again soon.
NewInode == CHOOSE i \in FreeInodes : \A j \in FreeInodes : i <= j

\* read_stable_name: identity and bytes of the file a name links.
Snapshot(n) == [ino |-> dir[n], bytes |-> IF dir[n] = Unlinked THEN Partial ELSE file[dir[n]]]

Link(n, i) ==
    /\ dir' = [dir EXCEPT ![n] = i]
    /\ dirs' = dirs \cup {dir'}

\* renameat2 with RENAME_EXCHANGE of the temporary and the canonical name.
Exchange ==
    /\ dir' = [dir EXCEPT ![Canonical] = dir[tx.name], ![tx.name] = dir[Canonical]]
    /\ dirs' = dirs \cup {dir'}

SyncDirectory == dirs' = {dir} /\ UNCHANGED dir

Disk == <<dir, dirs, file, synced>>

---------------------------------------------------------------------------
(* Outsiders                                                                *)

\* Whatever the writer still writes has been replaced under the canonical name.
Superseded == [writer EXCEPT !.superseded = (writer.ino # Unlinked)]

OutsideRename ==
    /\ Spend("writes")
    /\ FreeInodes # {}
    /\ file' = [file EXCEPT ![NewInode] = NewRevision]
    /\ synced' = synced \cup {NewInode}
    /\ Link(Canonical, NewInode)
    /\ owed' = NewRevision
    /\ writer' = Superseded
    /\ UNCHANGED <<tx, saves>>

OutsideTruncate ==
    /\ writer.ino = Unlinked
    /\ Spend("writes")
    /\ writer' = [ino |-> dir[Canonical], superseded |-> FALSE]
    /\ file' = [file EXCEPT ![dir[Canonical]] = Partial]
    /\ owed' = Partial
    /\ UNCHANGED <<dir, dirs, synced, tx, saves>>

OutsideFinish ==
    /\ writer.ino # Unlinked
    /\ file' = [file EXCEPT ![writer.ino] = NewRevision]
    /\ owed' = IF writer.superseded THEN owed ELSE NewRevision
    /\ writer' = NoWriter
    /\ UNCHANGED <<dir, dirs, synced, tx, saves, left>>

---------------------------------------------------------------------------
(* A save.  A disjunct that spends a fault is a call that fails, or a read  *)
(* that an outsider disturbed.                                              *)

Do(update) == tx' = update /\ UNCHANGED saves

Goto(pc) == Do([tx EXCEPT !.pc = pc])

\* save_inner returns and the locks are released.
End(outcome) ==
    /\ tx' = Idle
    /\ saves' = [saves EXCEPT ![tx.name] = outcome]

NoFault == UNCHANGED left

\* FileSnapshot::matches for the candidate.
IsCandidate(snapshot) == snapshot = [ino |-> tx.ino, bytes |-> tx.draft]

Keeps == UNCHANGED <<writer, owed>>

\* remove_exact_identity follows, then the result is returned.
Remove(snapshot, result) ==
    Do([tx EXCEPT !.pc = "remove", !.drop = snapshot, !.result = result])

\* Mutant (LeftoversAreReported): the candidate is not removed.
FinishAtOnce(result) == End(result)

\* finish_candidate and abandon_exchange
FinishCandidate(result) == Remove([ino |-> tx.ino, bytes |-> tx.draft], result)

AbandonExchange(result) == Remove(tx.displaced, result)

Rollback(result) == Do([tx EXCEPT !.pc = "rollback", !.result = result])

\* save_inner: the locks are taken.
Begin(e) ==
    /\ tx.pc = "idle"
    /\ e < NewRevision
    /\ Spend("saves")
    /\ tx' = [Idle EXCEPT !.pc = "check", !.name = MaxSaves - left.saves + 1, !.expected = e,
                          !.draft = NewRevision]
    /\ UNCHANGED <<dir, dirs, file, synced, saves, writer, owed>>

\* save_inner: the disk is compared with the expected revision and parsed.
Check ==
    /\ tx.pc = "check"
    /\ \/ /\ NoFault
          /\ IF Snapshot(Canonical).bytes # tx.expected THEN End("conflict") ELSE Goto("create")
       \/ Spend("faults") /\ End("refused")
    /\ UNCHANGED Disk /\ Keeps

\* create_temp and the write of the candidate.  When the new file cannot be examined
\* its name stays; when it cannot be written it is removed as after a failed fsync.
CreateTemp ==
    /\ tx.pc = "create"
    /\ \/ /\ FreeInodes # {}
          /\ Link(tx.name, NewInode)
          /\ synced' = synced \ {NewInode}
          /\ \/ /\ NoFault
                /\ file' = [file EXCEPT ![NewInode] = tx.draft]
                /\ Do([tx EXCEPT !.pc = "sync", !.ino = NewInode])
             \/ /\ Spend("faults")
                /\ file' = [file EXCEPT ![NewInode] = Partial]
                /\ End("failed")
       \/ Spend("faults") /\ End("refused") /\ UNCHANGED Disk
    /\ Keeps

\* Mutant (CanonicalIsWhole): the candidate is not synced.
SyncNothing ==
    /\ tx.pc = "sync"
    /\ \/ NoFault /\ UNCHANGED synced /\ Goto("recheck")
       \/ Spend("faults") /\ FinishCandidate("failed") /\ UNCHANGED synced
    /\ UNCHANGED <<dir, dirs, file>> /\ Keeps

\* create_synced_candidate: the candidate is written, or it is removed.
SyncCandidate ==
    /\ tx.pc = "sync"
    /\ \/ NoFault /\ synced' = synced \cup {tx.ino} /\ Goto("recheck")
       \/ Spend("faults") /\ FinishCandidate("failed") /\ UNCHANGED synced
    /\ UNCHANGED <<dir, dirs, file>> /\ Keeps

\* prepare_exchange: the disk is compared once more.
Recheck ==
    /\ tx.pc = "recheck"
    /\ \/ /\ NoFault
          /\ IF Snapshot(Canonical).bytes # tx.expected
             THEN FinishCandidate("conflict")
             ELSE Goto("exchange")
       \/ Spend("faults") /\ FinishCandidate("failed")
    /\ UNCHANGED Disk /\ Keeps

\* prepare_exchange: the lock is verified and the names are exchanged.
ExchangeIn ==
    /\ tx.pc = "exchange"
    /\ \/ NoFault /\ Exchange /\ Goto("displaced")
       \/ Spend("faults") /\ FinishCandidate("failed") /\ UNCHANGED <<dir, dirs>>
    /\ UNCHANGED <<file, synced>> /\ Keeps

\* replace: what the exchange displaced.
ReadDisplaced ==
    /\ tx.pc = "displaced"
    /\ \/ NoFault /\ Do([tx EXCEPT !.pc = "installed", !.displaced = Snapshot(tx.name)])
       \/ Spend("faults") /\ End("failed")
    /\ UNCHANGED Disk /\ Keeps

\* Mutant (OutcomeIsTrue): what was displaced is not compared.
CheckInstalledOnly ==
    /\ tx.pc = "installed"
    /\ \/ /\ NoFault
          /\ IF IsCandidate(Snapshot(Canonical)) THEN Goto("commit")
             ELSE AbandonExchange("conflict")
       \/ Spend("faults") /\ AbandonExchange("failed")
    /\ UNCHANGED Disk /\ Keeps

\* replace: an outsider may have replaced the candidate already; the lock is
\* verified; what was displaced must be what was expected.
CheckInstalled ==
    /\ tx.pc = "installed"
    /\ \/ /\ NoFault
          /\ CASE ~IsCandidate(Snapshot(Canonical)) -> AbandonExchange("conflict")
               [] tx.displaced.bytes # tx.expected -> Rollback("conflict")
               [] OTHER -> Goto("commit")
       \/ Spend("faults") /\ AbandonExchange("failed")
       \/ Spend("faults") /\ IsCandidate(Snapshot(Canonical)) /\ Rollback("failed")
    /\ UNCHANGED Disk /\ Keeps

\* sync_commit
Commit ==
    /\ tx.pc = "commit"
    /\ \/ NoFault /\ SyncDirectory /\ Goto("committed")
       \/ Spend("faults") /\ Goto("uncommitted") /\ UNCHANGED <<dir, dirs>>
    /\ UNCHANGED <<file, synced>> /\ Keeps

\* replace: the commit sync failed.
UndoCommit ==
    /\ tx.pc = "uncommitted"
    /\ \/ /\ NoFault
          /\ IF IsCandidate(Snapshot(Canonical)) THEN Rollback("failed")
             ELSE AbandonExchange("conflict")
       \/ Spend("faults") /\ End("failed")
    /\ UNCHANGED Disk /\ Keeps

\* replace: the candidate is committed; it must still be installed.
Settle ==
    /\ tx.pc = "committed"
    /\ \/ /\ NoFault
          /\ IF IsCandidate(Snapshot(Canonical)) THEN Goto("settle")
             ELSE AbandonExchange("conflict")
       \/ Spend("faults") /\ End("failed")
    /\ UNCHANGED Disk /\ Keeps

\* replace: the displaced file must be what it was.
CheckDisplaced ==
    /\ tx.pc = "settle"
    /\ \/ /\ NoFault
          /\ IF Snapshot(tx.name) = tx.displaced THEN Remove(tx.displaced, "saved")
             ELSE End("failed")
       \/ Spend("faults") /\ End("failed")
    /\ UNCHANGED Disk /\ Keeps

\* replace, after the removal of the displaced file: the last comparison.
Conclude ==
    /\ tx.pc = "final"
    /\ \/ /\ NoFault
          /\ IF IsCandidate(Snapshot(Canonical))
             THEN End(tx.result) /\ owed' = tx.draft
             ELSE /\ End(IF tx.result = "saved" THEN "conflict" ELSE "conflict_degraded")
                  /\ UNCHANGED owed
       \/ Spend("faults") /\ End("failed") /\ UNCHANGED owed
    /\ UNCHANGED <<dir, dirs, file, synced, writer>>

---------------------------------------------------------------------------
(* remove_exact_identity                                                    *)

\* What a removal that fails, or that is done, returns to its caller.
RemovalFailed ==
    IF tx.result = "saved" THEN Do([tx EXCEPT !.pc = "final", !.result = "degraded"])
    ELSE End("failed")

RemovalDone == IF tx.result = "saved" THEN Goto("final") ELSE End(tx.result)

\* The name is read and must still be the file to remove.
CheckRemoval ==
    /\ tx.pc = "remove"
    /\ \/ NoFault /\ (IF Snapshot(tx.name) = tx.drop THEN Goto("unlink") ELSE RemovalFailed)
       \/ Spend("faults") /\ RemovalFailed
    /\ UNCHANGED Disk /\ Keeps

\* The candidate stands in place of the revision the save expected.
Replaced == owed = tx.expected /\ IsCandidate(Snapshot(Canonical))

\* A save that removes the revision it replaced makes its draft the last write.
Unlink ==
    /\ tx.pc = "unlink"
    /\ \/ /\ NoFault /\ Link(tx.name, Unlinked) /\ Goto("cleanup")
          /\ owed' = IF Replaced THEN tx.draft ELSE owed
       \/ Spend("faults") /\ RemovalFailed /\ UNCHANGED <<dir, dirs, owed>>
    /\ UNCHANGED <<file, synced, writer>>

\* sync_cleanup
SyncCleanup ==
    /\ tx.pc = "cleanup"
    /\ \/ NoFault /\ SyncDirectory /\ RemovalDone
       \/ Spend("faults") /\ RemovalFailed /\ UNCHANGED <<dir, dirs>>
    /\ UNCHANGED <<file, synced>> /\ Keeps

---------------------------------------------------------------------------
(* rollback.  Every failure of it is StorageFailure::Rollback.              *)

RollbackFault == Spend("faults") /\ End("failed")

\* The canonical name, then the temporary one.
RollbackReadInstalled ==
    /\ tx.pc = "rollback"
    /\ \/ NoFault /\ Do([tx EXCEPT !.pc = "rollback_read", !.seen = Snapshot(Canonical)])
       \/ RollbackFault
    /\ UNCHANGED Disk /\ Keeps

RollbackCheck ==
    /\ tx.pc = "rollback_read"
    /\ \/ /\ NoFault
          /\ CASE ~IsCandidate(tx.seen) -> AbandonExchange("conflict")
               [] Snapshot(tx.name) # tx.displaced -> End("failed")
               [] OTHER -> Goto("rollback_exchange")
       \/ RollbackFault
    /\ UNCHANGED Disk /\ Keeps

RollbackExchange ==
    /\ tx.pc = "rollback_exchange"
    /\ \/ NoFault /\ Exchange /\ Goto("restored")
       \/ RollbackFault /\ UNCHANGED <<dir, dirs>>
    /\ UNCHANGED <<file, synced>> /\ Keeps

RollbackReadRestored ==
    /\ tx.pc = "restored"
    /\ \/ NoFault /\ Do([tx EXCEPT !.pc = "removed", !.seen = Snapshot(Canonical)])
       \/ RollbackFault
    /\ UNCHANGED Disk /\ Keeps

\* Mutant (NoLostUpdate): what the second exchange took away is removed unseen.
RollbackUnseen(restored, removed) ==
    Do([tx EXCEPT !.pc = "rollback_sync", !.drop = Snapshot(tx.name)])

\* Which of the two files an outsider changed around the exchange.
RollbackDecision(restored, removed) ==
    CASE restored /\ ~removed -> Do([tx EXCEPT !.pc = "again", !.seen = Snapshot(tx.name)])
      [] ~restored /\ removed ->
            Do([tx EXCEPT !.pc = "rollback_sync", !.drop = Snapshot(tx.name),
                          !.result = "conflict"])
      [] restored /\ removed ->
            Do([tx EXCEPT !.pc = "rollback_sync", !.drop = Snapshot(tx.name)])
      [] OTHER -> End("failed")

RollbackReadRemoved ==
    /\ tx.pc = "removed"
    /\ \/ NoFault /\ RollbackDecision(tx.seen = tx.displaced, IsCandidate(Snapshot(tx.name)))
       \/ RollbackFault
    /\ UNCHANGED Disk /\ Keeps

\* The exchange took an outsider's file away: it is put back.
RollbackAgain ==
    /\ tx.pc = "again"
    /\ \/ NoFault /\ Exchange /\ Goto("again_installed")
       \/ RollbackFault /\ UNCHANGED <<dir, dirs>>
    /\ UNCHANGED <<file, synced>> /\ Keeps

RollbackAgainInstalled ==
    /\ tx.pc = "again_installed"
    /\ \/ /\ NoFault
          /\ IF Snapshot(Canonical) = tx.seen THEN Goto("again_displaced") ELSE End("failed")
       \/ RollbackFault
    /\ UNCHANGED Disk /\ Keeps

RollbackAgainDisplaced ==
    /\ tx.pc = "again_displaced"
    /\ \/ /\ NoFault
          /\ IF Snapshot(tx.name) = tx.displaced THEN AbandonExchange("conflict")
             ELSE End("failed")
       \/ RollbackFault
    /\ UNCHANGED Disk /\ Keeps

\* The directory sync of a rollback; where the old file was restored the
\* temporary is removed even if the sync fails, and the failure is reported.
RollbackSync ==
    /\ tx.pc = "rollback_sync"
    /\ \/ NoFault /\ SyncDirectory /\ Goto("remove")
       \/ /\ Spend("faults")
          /\ UNCHANGED <<dir, dirs>>
          /\ IF tx.seen = tx.displaced THEN Do([tx EXCEPT !.pc = "remove", !.result = "failed"])
             ELSE End("failed")
    /\ UNCHANGED <<file, synced>> /\ Keeps

---------------------------------------------------------------------------
(* Crashes                                                                  *)

Dies ==
    /\ tx' = Idle
    /\ saves' = IF tx.pc = "idle" THEN saves ELSE [saves EXCEPT ![tx.name] = "killed"]

\* The process of the saver is killed: its locks are released.
Kill ==
    /\ tx.pc # "idle"
    /\ Spend("crashes")
    /\ Dies
    /\ UNCHANGED Disk /\ Keeps

\* The machine stops.  What comes back under the canonical name counts as
\* acknowledged: an outsider may not have synced its rename.
PowerLoss ==
    /\ Spend("crashes")
    /\ Dies
    /\ writer' = NoWriter
    /\ \E d \in dirs :
        /\ dir' = d
        /\ dirs' = {d}
        /\ file' = [i \in Inodes |-> IF i \in synced THEN file[i] ELSE Partial]
        /\ owed' = file'[d[Canonical]]
    /\ UNCHANGED synced

---------------------------------------------------------------------------
Save ==
    \/ Check \/ CreateTemp \/ SyncCandidate \/ Recheck \/ ExchangeIn \/ ReadDisplaced
    \/ CheckInstalled \/ Commit \/ UndoCommit \/ Settle \/ CheckDisplaced \/ Conclude
    \/ CheckRemoval \/ Unlink \/ SyncCleanup
    \/ RollbackReadInstalled \/ RollbackCheck \/ RollbackExchange \/ RollbackReadRestored
    \/ RollbackReadRemoved \/ RollbackAgain \/ RollbackAgainInstalled \/ RollbackAgainDisplaced
    \/ RollbackSync

Next ==
    \/ OutsideRename \/ OutsideTruncate \/ OutsideFinish
    \/ \E e \in Revisions : Begin(e)
    \/ Save
    \/ Kill \/ PowerLoss

Spec == Init /\ [][Next]_vars

---------------------------------------------------------------------------
(* Properties                                                               *)

\* The directory, the files and the transaction in progress have their types.
TypeOK ==
    /\ dir \in [Names -> Inodes \cup {Unlinked}]
    /\ dir \in dirs /\ dirs \subseteq [Names -> Inodes \cup {Unlinked}]
    /\ file \in [Inodes -> Contents]
    /\ synced \subseteq Inodes
    /\ tx.displaced \in FileSnapshot /\ tx.seen \in FileSnapshot /\ tx.drop \in FileSnapshot
    /\ tx.name \in Names /\ tx.ino \in Inodes \cup {Unlinked}
    /\ writer.ino \in Inodes \cup {Unlinked} /\ writer.superseded \in BOOLEAN
    /\ owed \in Contents

\* An outsider is writing the file it truncated, and nothing has replaced it yet.
Writing == writer.ino # Unlinked /\ ~writer.superseded

\* The last write is under the name: the file an outsider is writing, or the last
\* acknowledged revision.
LastWriteAt(n) == IF Writing THEN dir[n] = writer.ino ELSE Snapshot(n).bytes = owed

\* The last write is in the directory, if there is one: a power loss may have left none.
Held == (owed = Partial /\ ~Writing) \/ \E n \in Names : LastWriteAt(n)

\* The displaced file is removed because the installed one could not be read, before
\* its revision was compared.
BlindRemoval == tx.result = "failed" /\ tx.drop = tx.displaced

\* The file is being written through a descriptor, or has been since it was compared.
RacingWrite == writer.ino = dir[tx.name] \/ Snapshot(tx.name) # tx.drop

\* The last write stays in the directory until a save that expected exactly it has
\* replaced it, through every exchange, rollback and cleanup of storage.rs, but for two
\* removals: that of a displaced file whose revision replace never compared, and that of
\* a file written in place after remove_exact_identity compared it.
NoLostUpdate ==
    [][Held /\ ~Held' => tx.pc = "unlink" /\ (BlindRemoval \/ RacingWrite)]_vars

\* The same without the two exceptions, as docs/CONFIG_SPEC.md has it: "A mismatch returns
\* a conflict and does not write".  replace removes the displaced file before it has
\* compared its revision when it cannot read the installed one.
MismatchDoesNotWrite == [][Held => Held']_vars

\* Every directory a power loss can bring back has the canonical name, and a
\* whole file under it: the candidate was synced before the exchange.
CanonicalIsWhole ==
    \A d \in dirs :
        /\ d[Canonical] # Unlinked
        /\ d[Canonical] \in synced

\* A temporary name is left behind only by a save that died or reported a failure
\* or a degraded cleanup.
LeftoversAreReported ==
    \A n \in 1..MaxSaves :
        dir[n] # Unlinked => \/ tx.pc # "idle" /\ tx.name = n
                             \/ saves[n] \in {"killed", "failed", "degraded", "conflict_degraded"}

\* The saves before the transaction neither died nor failed: such a save may leave
\* its candidate under the canonical name, and the last write under its own.
CleanSoFar == \A n \in 1..MaxSaves : saves[n] \notin {"killed", "failed"}

\* A save is reported as saved only when no power loss can undo it.
SavedIsDurable ==
    saves'[tx.name] \in {"saved", "degraded"} =>
        \A d \in dirs : d[Canonical] = tx.ino /\ file[tx.ino] = tx.draft

\* What a save replaced, the last acknowledged write, is what it expected.
SavedIsExpected ==
    saves'[tx.name] \in {"saved", "degraded"} /\ CleanSoFar /\ Held =>
        owed \in {tx.expected, tx.draft}

\* A save is reported as a conflict only with the last acknowledged write, or an
\* outsider at work, under the canonical name.
ConflictIsReal ==
    saves'[tx.name] \in {"conflict", "conflict_degraded"} /\ CleanSoFar /\ Held =>
        \/ writer.ino # Unlinked
        \/ Snapshot(Canonical).bytes = owed

\* The outcome of a save says what happened to the canonical file: it is saved for
\* good and in place of what was expected, or the conflict is real.
OutcomeIsTrue ==
    [][tx.pc # "idle" /\ tx'.pc = "idle" =>
            SavedIsDurable /\ SavedIsExpected /\ ConflictIsReal]_vars
==============================================================================
