------------------------- MODULE ConfigStore_proofs -------------------------
(***************************************************************************)
(* Proofs about ConfigStore, for any number of saves, writes of outsiders,  *)
(* faults and crashes.                                                      *)
(***************************************************************************)
EXTENDS ConfigStore, WellFoundedInduction, TLAPS

Directories == [Names -> Inodes \cup {Unlinked}]

PCs ==
    {"idle", "check", "create", "sync", "recheck", "exchange", "displaced", "installed", "commit",
     "uncommitted", "committed", "settle", "final", "remove", "unlink", "cleanup", "rollback",
     "rollback_read", "rollback_exchange", "restored", "removed", "again", "again_installed",
     "again_displaced", "rollback_sync"}

Results == {"none", "saved", "degraded", "conflict", "failed"}

Transactions ==
    [pc : PCs, name : Names, expected : Contents, draft : Contents, ino : Inodes \cup {Unlinked},
     displaced : FileSnapshot, seen : FileSnapshot, drop : FileSnapshot, result : Results]

Outcomes ==
    {"none", "saved", "degraded", "conflict", "conflict_degraded", "refused", "failed", "killed"}

Budgets == [saves : 0..MaxSaves, writes : 0..MaxWrites, faults : Nat, crashes : Nat]

\* The saves that have begun; the last of them holds the locks unless nobody does.
Begun == MaxSaves - left.saves

Types ==
    /\ dir \in dirs /\ dirs \subseteq Directories
    /\ file \in [Inodes -> Contents]
    /\ synced \subseteq Inodes
    /\ tx \in Transactions
    /\ saves \in [1..MaxSaves -> Outcomes]
    /\ writer \in [ino : Inodes \cup {Unlinked}, superseded : BOOLEAN]
    /\ owed \in Contents
    /\ left \in Budgets

\* Whoever holds the locks works under the number of the last save, and has its temporary
\* file open once it is created.
Holds ==
    /\ tx.pc # "idle" => tx.name = Begun /\ tx.name \in 1..MaxSaves
    /\ tx.pc \notin {"idle", "check", "create"} => tx.ino \in Inodes

-----------------------------------------------------------------------------
(* The parts *)

\* An inode is free when no directory a power loss may bring back links it, and nobody
\* has it open.
LEMMA NewInodeIsFree ==
    ASSUME FreeInodes # {}
    PROVE  NewInode \in FreeInodes
<1> USE ConfigStoreAssumption
<1> DEFINE R == OpToRel(<, Nat)
<1>1. IsWellFoundedOn(R, Nat)
  BY NatLessThanWellFounded
<1>2. FreeInodes \subseteq Nat
  BY DEF FreeInodes, Inodes
<1>3. \A i, j \in Nat : <<i, j>> \in R <=> i < j
  BY DEF OpToRel
<1> HIDE DEF R
<1>4. PICK i \in FreeInodes : \A j \in FreeInodes : ~(<<j, i>> \in R)
  BY <1>1, <1>2, WFMin
<1>5. ASSUME NEW j \in FreeInodes PROVE i <= j
  <2>1. i \in Nat /\ j \in Nat /\ ~(j < i)
    BY <1>2, <1>3, <1>4
  <2> QED
    BY <2>1
<1> QED
  BY <1>5 DEF NewInode

LEMMA Spent ==
    ASSUME NEW what \in {"saves", "writes", "faults", "crashes"}, left \in Budgets, Spend(what)
    PROVE  /\ left' \in Budgets
           /\ left'.saves = (IF what = "saves" THEN left.saves - 1 ELSE left.saves)
           /\ left'.writes = (IF what = "writes" THEN left.writes - 1 ELSE left.writes)
           /\ what = "saves" => left.saves > 0
           /\ what = "writes" => left.writes > 0
<1> USE ConfigStoreAssumption
<1>1. CASE what = "saves"
  BY <1>1 DEF Spend, Budgets
<1>2. CASE what = "writes"
  BY <1>2 DEF Spend, Budgets
<1>3. CASE what = "faults"
  BY <1>3 DEF Spend, Budgets
<1>4. CASE what = "crashes"
  BY <1>4 DEF Spend, Budgets
<1> QED
  BY <1>1, <1>2, <1>3, <1>4

\* A write always finds a revision left.
LEMMA NewRevisionType ==
    ASSUME left \in Budgets
    PROVE  /\ left.saves > 0 \/ left.writes > 0 \/ writer.ino # Unlinked => NewRevision \in Revisions
           /\ NewRevision \in Nat \ {0}
  BY ConfigStoreAssumption DEF NewRevision, Revisions, Budgets

LEMMA SnapshotType ==
    ASSUME Types, NEW n \in Names
    PROVE  Snapshot(n) \in FileSnapshot
<1>1. dir[n] \in Inodes \cup {Unlinked}
  BY DEF Types, Directories
<1>2. dir[n] # Unlinked => file[dir[n]] \in Contents
  BY <1>1 DEF Types, Unlinked
<1> QED
  BY <1>1, <1>2 DEF Snapshot, FileSnapshot, Contents

LEMMA IdleType == Idle \in Transactions
  BY ConfigStoreAssumption
  DEF Idle, Transactions, PCs, Names, Contents, Results, NoSnapshot, FileSnapshot, Unlinked, Canonical,
      Partial

LEMMA TransactionFields ==
    ASSUME NEW t \in Transactions
    PROVE  /\ \A p \in PCs : [t EXCEPT !.pc = p] \in Transactions
           /\ \A i \in Inodes : [t EXCEPT !.ino = i] \in Transactions
           /\ \A s \in FileSnapshot : /\ [t EXCEPT !.displaced = s] \in Transactions
                                      /\ [t EXCEPT !.seen = s] \in Transactions
                                      /\ [t EXCEPT !.drop = s] \in Transactions
           /\ \A r \in Results : [t EXCEPT !.result = r] \in Transactions
  BY DEF Transactions

-----------------------------------------------------------------------------
(* Types *)

\* The transaction goes on at p with what it was begun with.
Continues(p) ==
    /\ tx' \in Transactions /\ tx'.pc = p
    /\ tx'.name = tx.name /\ tx'.expected = tx.expected /\ tx'.draft = tx.draft
    /\ tx'.ino = tx.ino \/ tx'.ino \in Inodes
    /\ saves' = saves

Ends == \E outcome \in Outcomes : End(outcome)

LEMMA GoesOn ==
    ASSUME tx \in Transactions
    PROVE  /\ \A p \in PCs \ {"idle"} : Goto(p) => Continues(p)
           /\ \A p \in PCs \ {"idle"}, i \in Inodes :
                 Do([tx EXCEPT !.pc = p, !.ino = i]) => Continues(p)
           /\ \A p \in PCs \ {"idle"}, s \in FileSnapshot :
                 /\ Do([tx EXCEPT !.pc = p, !.displaced = s]) => Continues(p)
                 /\ Do([tx EXCEPT !.pc = p, !.seen = s]) => Continues(p)
                 /\ Do([tx EXCEPT !.pc = p, !.drop = s]) => Continues(p)
           /\ \A p \in PCs \ {"idle"}, r \in Results :
                 Do([tx EXCEPT !.pc = p, !.result = r]) => Continues(p)
           /\ \A p \in PCs \ {"idle"}, s \in FileSnapshot, r \in Results :
                 Do([tx EXCEPT !.pc = p, !.drop = s, !.result = r]) => Continues(p)
<1>1. ASSUME NEW p \in PCs \ {"idle"} PROVE Goto(p) => Continues(p)
  BY DEF Goto, Do, Continues, Transactions
<1>2. ASSUME NEW p \in PCs \ {"idle"}, NEW i \in Inodes
      PROVE  Do([tx EXCEPT !.pc = p, !.ino = i]) => Continues(p)
  BY DEF Do, Continues, Transactions
<1>3. ASSUME NEW p \in PCs \ {"idle"}, NEW s \in FileSnapshot
      PROVE  /\ Do([tx EXCEPT !.pc = p, !.displaced = s]) => Continues(p)
             /\ Do([tx EXCEPT !.pc = p, !.seen = s]) => Continues(p)
             /\ Do([tx EXCEPT !.pc = p, !.drop = s]) => Continues(p)
  <2>1. Do([tx EXCEPT !.pc = p, !.displaced = s]) => Continues(p)
    BY DEF Do, Continues, Transactions
  <2>2. Do([tx EXCEPT !.pc = p, !.seen = s]) => Continues(p)
    BY DEF Do, Continues, Transactions
  <2>3. Do([tx EXCEPT !.pc = p, !.drop = s]) => Continues(p)
    BY DEF Do, Continues, Transactions
  <2> QED
    BY <2>1, <2>2, <2>3
<1>4. ASSUME NEW p \in PCs \ {"idle"}, NEW r \in Results
      PROVE  Do([tx EXCEPT !.pc = p, !.result = r]) => Continues(p)
  BY DEF Do, Continues, Transactions
<1>5. ASSUME NEW p \in PCs \ {"idle"}, NEW s \in FileSnapshot, NEW r \in Results
      PROVE  Do([tx EXCEPT !.pc = p, !.drop = s, !.result = r]) => Continues(p)
  BY DEF Do, Continues, Transactions
<1> QED
  BY <1>1, <1>2, <1>3, <1>4, <1>5

\* What the parts of a save do with it.
LEMMA PartsGoOn ==
    ASSUME Types
    PROVE  /\ \A s \in FileSnapshot, r \in Results : Remove(s, r) => Continues("remove")
           /\ \A r \in Results : /\ FinishCandidate(r) => Continues("remove")
                                 /\ AbandonExchange(r) => Continues("remove")
                                 /\ Rollback(r) => Continues("rollback")
           /\ RemovalFailed => Continues("final") \/ Ends
           /\ RemovalDone => Continues("final") \/ Ends
<1>0. tx \in Transactions /\ tx.displaced \in FileSnapshot
      /\ tx.ino \in Inodes \cup {Unlinked} /\ tx.draft \in Contents /\ tx.result \in Results
  BY DEF Types, Transactions
<1>1. ASSUME NEW s \in FileSnapshot, NEW r \in Results, Remove(s, r) PROVE Continues("remove")
  BY <1>0, <1>1, GoesOn DEF Remove, PCs
<1>2. ASSUME NEW r \in Results, FinishCandidate(r) PROVE Continues("remove")
  <2>1. [ino |-> tx.ino, bytes |-> tx.draft] \in FileSnapshot
    BY <1>0 DEF FileSnapshot
  <2> QED
    BY <1>1, <1>2, <2>1 DEF FinishCandidate
<1>3. ASSUME NEW r \in Results, AbandonExchange(r) PROVE Continues("remove")
  BY <1>0, <1>1, <1>3 DEF AbandonExchange
<1>4. ASSUME NEW r \in Results, Rollback(r) PROVE Continues("rollback")
  BY <1>0, <1>4, GoesOn DEF Rollback, PCs
<1>5. ASSUME RemovalFailed PROVE Continues("final") \/ Ends
  BY <1>0, <1>5, GoesOn DEF RemovalFailed, PCs, Results, Ends, Outcomes
<1>6. ASSUME RemovalDone PROVE Continues("final") \/ Ends
  BY <1>0, <1>6, GoesOn DEF RemovalDone, PCs, Results, Ends, Outcomes
<1> QED
  BY <1>1, <1>2, <1>3, <1>4, <1>5, <1>6

LEMMA SaveStep ==
    ASSUME Types, Holds, Save
    PROVE  tx.pc # "idle" /\ (Ends \/ \E p \in PCs \ {"idle"} : Continues(p))
<1> USE ConfigStoreAssumption
<1>0. tx \in Transactions /\ tx.result \in Results /\ tx.pc \in PCs
  BY DEF Types, Transactions
<1>a. Snapshot(Canonical) \in FileSnapshot
  BY SnapshotType DEF Canonical, Names
<1>b. ASSUME tx.pc # "idle" PROVE Snapshot(tx.name) \in FileSnapshot
  BY <1>b, SnapshotType DEF Types, Transactions
<1> DEFINE Goal == tx.pc # "idle" /\ (Ends \/ \E p \in PCs \ {"idle"} : Continues(p))
<1>1. ASSUME Check PROVE Goal
  BY <1>0, <1>1, GoesOn DEF Check, PCs, Ends, Outcomes
<1>2. ASSUME CreateTemp PROVE Goal
  <2>1. FreeInodes # {} => NewInode \in Inodes
    BY NewInodeIsFree DEF FreeInodes
  <2> QED
    BY <1>0, <1>2, <2>1, GoesOn DEF CreateTemp, PCs, Ends, Outcomes
<1>3. ASSUME SyncCandidate \/ Recheck \/ ExchangeIn PROVE Goal
  BY <1>0, <1>3, GoesOn, PartsGoOn DEF SyncCandidate, Recheck, ExchangeIn, PCs, Results
<1>4. ASSUME ReadDisplaced PROVE Goal
  BY <1>0, <1>4, <1>b, GoesOn DEF ReadDisplaced, PCs, Ends, Outcomes
<1>5. ASSUME CheckInstalled PROVE Goal
  BY <1>0, <1>5, GoesOn, PartsGoOn DEF CheckInstalled, PCs, Results
<1>6. ASSUME Commit \/ UndoCommit \/ Settle PROVE Goal
  BY <1>0, <1>6, GoesOn, PartsGoOn DEF Commit, UndoCommit, Settle, PCs, Results, Ends, Outcomes
<1>7. ASSUME CheckDisplaced PROVE Goal
  <2>1. tx.displaced \in FileSnapshot
    BY DEF Types, Transactions
  <2> QED
    BY <1>0, <1>7, <2>1, PartsGoOn DEF CheckDisplaced, PCs, Results, Ends, Outcomes
<1>8. ASSUME Conclude PROVE Goal
  BY <1>0, <1>8 DEF Conclude, Results, Ends, Outcomes
<1>9. ASSUME CheckRemoval \/ Unlink \/ SyncCleanup PROVE Goal
  BY <1>0, <1>9, GoesOn, PartsGoOn DEF CheckRemoval, Unlink, SyncCleanup, PCs
<1>10. ASSUME RollbackReadInstalled \/ RollbackReadRestored PROVE Goal
  BY <1>0, <1>a, <1>10, GoesOn
  DEF RollbackReadInstalled, RollbackReadRestored, PCs, RollbackFault, Ends, Outcomes
<1>11. ASSUME RollbackCheck \/ RollbackExchange PROVE Goal
  BY <1>0, <1>11, GoesOn, PartsGoOn
  DEF RollbackCheck, RollbackExchange, PCs, RollbackFault, Results, Ends, Outcomes
<1>12. ASSUME RollbackReadRemoved PROVE Goal
  BY <1>0, <1>b, <1>12, GoesOn
  DEF RollbackReadRemoved, RollbackDecision, PCs, RollbackFault, Results, Ends, Outcomes
<1>13. ASSUME RollbackAgain \/ RollbackAgainInstalled \/ RollbackAgainDisplaced PROVE Goal
  BY <1>0, <1>13, GoesOn, PartsGoOn
  DEF RollbackAgain, RollbackAgainInstalled, RollbackAgainDisplaced, PCs, RollbackFault, Results,
      Ends, Outcomes
<1>14. ASSUME RollbackSync PROVE Goal
  BY <1>0, <1>14, GoesOn DEF RollbackSync, PCs, Results, Ends, Outcomes
<1> QED
  BY <1>1, <1>2, <1>3, <1>4, <1>5, <1>6, <1>7, <1>8, <1>9, <1>10, <1>11, <1>12, <1>13, <1>14 DEF Save


DirectoryTypes == dir \in dirs /\ dirs \subseteq Directories

LEMMA DirectoryOperations ==
    ASSUME DirectoryTypes
    PROVE  /\ \A n \in Names, i \in Inodes \cup {Unlinked} : Link(n, i) => DirectoryTypes'
           /\ tx.name \in Names /\ Exchange => DirectoryTypes'
           /\ SyncDirectory => DirectoryTypes'
           /\ UNCHANGED <<dir, dirs>> => DirectoryTypes'
<1>0. Canonical \in Names
  BY ConfigStoreAssumption DEF Canonical, Names
<1>1. ASSUME NEW n \in Names, NEW i \in Inodes \cup {Unlinked}, Link(n, i) PROVE DirectoryTypes'
  BY <1>1 DEF Link, DirectoryTypes, Directories
<1>2. ASSUME tx.name \in Names, Exchange PROVE DirectoryTypes'
  BY <1>0, <1>2 DEF Exchange, DirectoryTypes, Directories
<1>3. ASSUME SyncDirectory PROVE DirectoryTypes'
  BY <1>3 DEF SyncDirectory, DirectoryTypes
<1>4. ASSUME UNCHANGED <<dir, dirs>> PROVE DirectoryTypes'
  BY <1>4 DEF DirectoryTypes
<1> QED
  BY <1>1, <1>2, <1>3, <1>4

LEMMA DirectoryStep ==
    ASSUME Types, Next
    PROVE  DirectoryTypes'
<1> USE ConfigStoreAssumption
<1>0. /\ DirectoryTypes /\ tx.name \in Names /\ Canonical \in Names
      /\ FreeInodes # {} => NewInode \in Inodes
  BY NewInodeIsFree DEF Types, Transactions, DirectoryTypes, FreeInodes, Canonical, Names
<1>1. ASSUME OutsideRename \/ OutsideTruncate \/ OutsideFinish PROVE DirectoryTypes'
  BY <1>0, <1>1, DirectoryOperations DEF OutsideRename, OutsideTruncate, OutsideFinish
<1>2. ASSUME \E e \in Revisions : Begin(e) PROVE DirectoryTypes'
  BY <1>0, <1>2, DirectoryOperations DEF Begin
<1>3. ASSUME Check \/ CreateTemp \/ SyncCandidate \/ Recheck \/ ExchangeIn \/ ReadDisplaced
      PROVE  DirectoryTypes'
  BY <1>0, <1>3, DirectoryOperations
  DEF Check, CreateTemp, SyncCandidate, Recheck, ExchangeIn, ReadDisplaced, Disk
<1>4. ASSUME CheckInstalled \/ Commit \/ UndoCommit \/ Settle \/ CheckDisplaced \/ Conclude
      PROVE  DirectoryTypes'
  BY <1>0, <1>4, DirectoryOperations
  DEF CheckInstalled, Commit, UndoCommit, Settle, CheckDisplaced, Conclude, Disk
<1>5. ASSUME CheckRemoval \/ Unlink \/ SyncCleanup PROVE DirectoryTypes'
  BY <1>0, <1>5, DirectoryOperations DEF CheckRemoval, Unlink, SyncCleanup, Disk
<1>6. ASSUME \/ RollbackReadInstalled \/ RollbackCheck \/ RollbackExchange \/ RollbackReadRestored
             \/ RollbackReadRemoved
      PROVE  DirectoryTypes'
  BY <1>0, <1>6, DirectoryOperations
  DEF RollbackReadInstalled, RollbackCheck, RollbackExchange, RollbackReadRestored,
      RollbackReadRemoved, Disk
<1>7. ASSUME RollbackAgain \/ RollbackAgainInstalled \/ RollbackAgainDisplaced \/ RollbackSync
      PROVE  DirectoryTypes'
  BY <1>0, <1>7, DirectoryOperations
  DEF RollbackAgain, RollbackAgainInstalled, RollbackAgainDisplaced, RollbackSync, Disk
<1>8. ASSUME Kill \/ PowerLoss PROVE DirectoryTypes'
  BY <1>0, <1>8, DirectoryOperations DEF Kill, PowerLoss, Disk, DirectoryTypes
<1> QED
  BY <1>1, <1>2, <1>3, <1>4, <1>5, <1>6, <1>7, <1>8 DEF Next, Save

\* What a step of a save leaves to others.
LEMMA SaveKeeps ==
    ASSUME Types, Save
    PROVE  /\ writer' = writer
           /\ left' \in Budgets /\ left'.saves = left.saves /\ left'.writes = left.writes
           /\ CreateTemp \/ file' = file
           /\ CreateTemp \/ SyncCandidate \/ synced' = synced
           /\ owed' \in {owed, tx.draft}
<1>0. /\ UNCHANGED left => /\ left' \in Budgets /\ left'.saves = left.saves
                           /\ left'.writes = left.writes
      /\ Spend("faults") => /\ left' \in Budgets /\ left'.saves = left.saves
                            /\ left'.writes = left.writes
  BY Spent DEF Types
<1>1. ASSUME Check \/ CreateTemp \/ SyncCandidate \/ Recheck \/ ExchangeIn \/ ReadDisplaced
      PROVE  /\ writer' = writer /\ owed' = owed /\ (CreateTemp \/ file' = file)
             /\ CreateTemp \/ SyncCandidate \/ synced' = synced
             /\ UNCHANGED left \/ Spend("faults")
  BY <1>1 DEF Check, SyncCandidate, Recheck, ExchangeIn, ReadDisplaced, CreateTemp, Keeps, Disk, NoFault
<1>2. ASSUME CheckInstalled \/ Commit \/ UndoCommit \/ Settle \/ CheckDisplaced \/ Conclude
      PROVE  /\ writer' = writer /\ owed' \in {owed, tx.draft} /\ file' = file /\ synced' = synced
             /\ UNCHANGED left \/ Spend("faults")
  BY <1>2 DEF CheckInstalled, Commit, UndoCommit, Settle, CheckDisplaced, Conclude, Keeps, Disk, NoFault
<1>3. ASSUME CheckRemoval \/ Unlink \/ SyncCleanup
      PROVE  /\ writer' = writer /\ owed' \in {owed, tx.draft} /\ file' = file /\ synced' = synced
             /\ UNCHANGED left \/ Spend("faults")
  BY <1>3 DEF CheckRemoval, Unlink, SyncCleanup, Keeps, Disk, NoFault
<1>4. ASSUME \/ RollbackReadInstalled \/ RollbackCheck \/ RollbackExchange \/ RollbackReadRestored
             \/ RollbackReadRemoved
      PROVE  /\ writer' = writer /\ owed' = owed /\ file' = file /\ synced' = synced
             /\ UNCHANGED left \/ Spend("faults")
  BY <1>4 DEF RollbackReadInstalled, RollbackCheck, RollbackExchange, RollbackReadRestored,
     RollbackReadRemoved, RollbackFault, Keeps, Disk, NoFault
<1>5. ASSUME RollbackAgain \/ RollbackAgainInstalled \/ RollbackAgainDisplaced \/ RollbackSync
      PROVE  /\ writer' = writer /\ owed' = owed /\ file' = file /\ synced' = synced
             /\ UNCHANGED left \/ Spend("faults")
  BY <1>5 DEF RollbackAgain, RollbackAgainInstalled, RollbackAgainDisplaced, RollbackSync,
     RollbackFault, Keeps, Disk, NoFault
<1> QED
  BY <1>0, <1>1, <1>2, <1>3, <1>4, <1>5 DEF Save

LEMMA TypesStep ==
    ASSUME Types, Holds, CanonicalIsWhole, Next
    PROVE  Types' /\ Holds'
<1> USE ConfigStoreAssumption
<1>0. /\ tx \in Transactions /\ tx.draft \in Contents /\ Partial \in Contents
      /\ FreeInodes # {} => NewInode \in Inodes
      /\ dir[Canonical] \in Inodes \cup {Unlinked}
      /\ left \in Budgets /\ Revisions \subseteq Contents
      /\ NoWriter \in [ino : Inodes \cup {Unlinked}, superseded : BOOLEAN]
  BY NewInodeIsFree DEF Types, Transactions, Contents, FreeInodes, Directories, Canonical, Names,
     NoWriter
<1>1. DirectoryTypes'
  BY DirectoryStep
<1>2. CASE OutsideRename
  <2>1. /\ NewInode \in Inodes /\ NewRevision \in Contents /\ left' \in Budgets
        /\ left'.saves = left.saves
    BY <1>0, <1>2, NewRevisionType, Spent DEF OutsideRename
  <2>2. writer' \in [ino : Inodes \cup {Unlinked}, superseded : BOOLEAN]
    BY <1>2 DEF OutsideRename, Superseded, Types
  <2>3. file' \in [Inodes -> Contents] /\ synced' \subseteq Inodes
    BY <1>2, <2>1 DEF OutsideRename, Types
  <2> QED
    BY <1>1, <1>2, <2>1, <2>2, <2>3 DEF OutsideRename, Types, DirectoryTypes, Holds, Begun
<1>3. CASE OutsideTruncate
  <2>1. /\ left' \in Budgets /\ left'.saves = left.saves
    BY <1>0, <1>3, Spent DEF OutsideTruncate
  <2>2. file' \in [Inodes -> Contents]
    BY <1>0, <1>3 DEF OutsideTruncate, Types
  <2> QED
    BY <1>0, <1>1, <1>3, <2>1, <2>2 DEF OutsideTruncate, Types, DirectoryTypes, Holds, Begun
<1>4. CASE OutsideFinish
  <2>1. NewRevision \in Contents
    BY <1>0, <1>4, NewRevisionType DEF OutsideFinish
  <2>2. /\ file' \in [Inodes -> Contents] /\ owed' \in Contents
        /\ writer' \in [ino : Inodes \cup {Unlinked}, superseded : BOOLEAN]
    BY <1>4, <2>1 DEF OutsideFinish, Types, NoWriter
  <2> QED
    BY <1>1, <1>4, <2>2 DEF OutsideFinish, Types, DirectoryTypes, Holds, Begun
<1>5. ASSUME NEW e \in Revisions, Begin(e) PROVE Types' /\ Holds'
  <2>1. /\ left' \in Budgets /\ left'.saves = left.saves - 1 /\ left.saves > 0
        /\ NewRevision \in Contents /\ e \in Contents
    BY <1>0, <1>5, NewRevisionType, Spent DEF Begin
  <2>2. left.saves \in 1..MaxSaves
    BY <1>0, <2>1 DEF Budgets
  <2>3. /\ tx' \in Transactions /\ tx'.name = MaxSaves - left.saves + 1 /\ tx'.pc = "check"
    <3>1. MaxSaves - left.saves + 1 \in Names
      BY <2>2 DEF Names, Canonical
    <3>2. tx' = [Idle EXCEPT !.pc = "check", !.name = MaxSaves - left.saves + 1, !.expected = e,
                             !.draft = NewRevision]
      BY <1>5 DEF Begin
    <3> HIDE DEF NewRevision
    <3> QED
      BY <2>1, <3>1, <3>2, IdleType DEF Transactions, PCs
  <2>4. Holds'
    BY <2>1, <2>2, <2>3 DEF Holds, Begun
  <2> QED
    BY <1>1, <1>5, <2>1, <2>3, <2>4 DEF Begin, Types, DirectoryTypes
<1>6. CASE Save
  <2>1. /\ writer' = writer
        /\ left' \in Budgets /\ left'.saves = left.saves /\ left'.writes = left.writes
        /\ CreateTemp \/ file' = file
        /\ CreateTemp \/ SyncCandidate \/ synced' = synced
        /\ owed' \in {owed, tx.draft}
    BY <1>6, SaveKeeps
  <2>2. tx.pc # "idle" /\ (Ends \/ \E p \in PCs \ {"idle"} : Continues(p))
    BY <1>6, SaveStep
  <2>3. /\ file' \in [Inodes -> Contents] /\ synced' \subseteq Inodes
    <3>1. CASE CreateTemp
      BY <1>0, <3>1 DEF CreateTemp, Types, Disk
    <3>2. CASE SyncCandidate
      <4>1. tx.ino \in Inodes
        BY <2>2, <3>2 DEF SyncCandidate, Holds
      <4> QED
        BY <2>1, <3>2, <4>1 DEF SyncCandidate, Types
    <3> QED
      BY <2>1, <3>1, <3>2 DEF Types
  <2>4. tx' \in Transactions /\ saves' \in [1..MaxSaves -> Outcomes] /\ Holds'
    <3>1. CASE \E p \in PCs \ {"idle"} : Continues(p)
      <4>1. tx'.pc \notin {"check", "create"} => tx'.ino \in Inodes
        <5>1. CASE tx.pc \notin {"check", "create"}
          BY <2>2, <3>1, <5>1 DEF Continues, Holds
        <5>2. CASE tx.pc = "check"
          <6>1. Check
            BY <1>6, <5>2 DEF Save, CreateTemp, SyncCandidate, Recheck, ExchangeIn, ReadDisplaced,
               CheckInstalled, Commit, UndoCommit, Settle, CheckDisplaced, Conclude, CheckRemoval,
               Unlink, SyncCleanup, RollbackReadInstalled, RollbackCheck, RollbackExchange,
               RollbackReadRestored, RollbackReadRemoved, RollbackAgain, RollbackAgainInstalled,
               RollbackAgainDisplaced, RollbackSync
          <6>2. tx' = [tx EXCEPT !.pc = "create"]
            BY <3>1, <6>1 DEF Check, Goto, Do, End, Idle, Continues
          <6> QED
            BY <1>0, <6>2 DEF Transactions
        <5>3. CASE tx.pc = "create"
          <6>1. CreateTemp
            BY <1>6, <5>3 DEF Save, Check, SyncCandidate, Recheck, ExchangeIn, ReadDisplaced,
               CheckInstalled, Commit, UndoCommit, Settle, CheckDisplaced, Conclude, CheckRemoval,
               Unlink, SyncCleanup, RollbackReadInstalled, RollbackCheck, RollbackExchange,
               RollbackReadRestored, RollbackReadRemoved, RollbackAgain, RollbackAgainInstalled,
               RollbackAgainDisplaced, RollbackSync
          <6>2. tx' = [tx EXCEPT !.pc = "sync", !.ino = NewInode] /\ NewInode \in Inodes
            BY <1>0, <3>1, <6>1 DEF CreateTemp, Do, End, Idle, Continues
          <6> HIDE DEF NewInode
          <6> QED
            BY <1>0, <6>2 DEF Transactions
        <5> QED
          BY <5>1, <5>2, <5>3
      <4> QED
        BY <2>1, <2>2, <3>1, <4>1 DEF Continues, Types, Holds, Begun
    <3>2. CASE Ends
      BY <2>1, <2>2, <3>2, IdleType DEF Ends, End, Types, Holds, Idle
    <3> QED
      BY <2>2, <3>1, <3>2
  <2> QED
    BY <1>0, <1>1, <2>1, <2>3, <2>4 DEF Types, DirectoryTypes
<1>7. CASE Kill \/ PowerLoss
  <2>1. /\ left' \in Budgets /\ left'.saves = left.saves /\ Dies
        /\ owed' \in Contents /\ file' \in [Inodes -> Contents] /\ synced' = synced
        /\ writer' \in {writer, NoWriter}
    <3>1. CASE Kill
      BY <1>0, <3>1, Spent DEF Kill, Keeps, Disk, Types
    <3>2. CASE PowerLoss
      <4>1. PICK d \in dirs : file' = [i \in Inodes |-> IF i \in synced THEN file[i] ELSE Partial]
                              /\ owed' = file'[d[Canonical]]
        BY <3>2 DEF PowerLoss
      <4>2. file' \in [Inodes -> Contents] /\ d[Canonical] \in Inodes
        BY <1>0, <4>1 DEF Types, CanonicalIsWhole
      <4> QED
        BY <1>0, <3>2, <4>1, <4>2, Spent DEF PowerLoss
    <3> QED
      BY <1>7, <3>1, <3>2
  <2>2. tx' \in Transactions /\ saves' \in [1..MaxSaves -> Outcomes] /\ Holds'
    BY <2>1, IdleType DEF Dies, Types, Holds, Idle, Outcomes
  <2> QED
    BY <1>0, <1>1, <2>1, <2>2 DEF Types, DirectoryTypes
<1> QED
  BY <1>2, <1>3, <1>4, <1>5, <1>6, <1>7 DEF Next


-----------------------------------------------------------------------------
(* The canonical name *)

\* From the sync of the candidate to the removal, what is under the temporary name is
\* whole: the candidate, or what was under the canonical name at an exchange.
Prepared ==
    {"recheck", "exchange", "displaced", "installed", "commit", "uncommitted", "committed", "settle",
     "rollback", "rollback_read", "rollback_exchange", "restored", "removed", "again",
     "again_installed", "again_displaced", "rollback_sync"}

TemporaryIsWhole ==
    /\ tx.pc = "sync" => dir[tx.name] = tx.ino
    /\ tx.pc \in Prepared => dir[tx.name] \in synced

LEMMA WholeStep ==
    ASSUME Types, Holds, CanonicalIsWhole, TemporaryIsWhole, Next
    PROVE  CanonicalIsWhole' /\ TemporaryIsWhole'
<1> USE ConfigStoreAssumption
<1>0. /\ tx \in Transactions /\ dir \in dirs /\ dirs \subseteq Directories
      /\ Canonical \in Names /\ Unlinked \notin Inodes /\ synced \subseteq Inodes
      /\ tx.pc # "idle" => tx.name \in Names /\ tx.name # Canonical
      /\ \A d \in dirs : d[Canonical] \in synced
      /\ FreeInodes # {} => /\ NewInode \in Inodes
                            /\ \A d \in dirs, n \in Names : d[n] # NewInode
  <2>1. FreeInodes # {} => /\ NewInode \in Inodes
                           /\ \A d \in dirs, n \in Names : d[n] # NewInode
    BY NewInodeIsFree DEF FreeInodes
  <2> QED
    BY <2>1 DEF Types, Holds, CanonicalIsWhole, Canonical, Names, Unlinked, Inodes
<1> DEFINE Whole == \A d \in dirs : d[Canonical] \in synced
<1>a. ASSUME synced' \subseteq Inodes, Whole' PROVE CanonicalIsWhole'
  BY <1>0, <1>a DEF CanonicalIsWhole
<1>b. synced' \subseteq Inodes
  BY TypesStep DEF Types
<1>c. ASSUME dir' = dir, synced' = synced, tx'.name = tx.name, tx'.ino = tx.ino,
             tx'.pc = "sync" => tx.pc = "sync", tx'.pc \in Prepared => tx.pc \in Prepared
      PROVE  TemporaryIsWhole'
  BY <1>c DEF TemporaryIsWhole
<1>d. ASSUME tx'.pc \notin Prepared, tx'.pc # "sync" PROVE TemporaryIsWhole'
  BY <1>d DEF TemporaryIsWhole
<1>e. Idle.pc \notin Prepared /\ Idle.pc # "sync"
  BY DEF Idle, Prepared
<1>1. CASE OutsideRename
  <2>1. /\ dir' = [dir EXCEPT ![Canonical] = NewInode] /\ dirs' = dirs \cup {dir'}
        /\ synced' = synced \cup {NewInode} /\ tx' = tx /\ FreeInodes # {}
    BY <1>1 DEF OutsideRename, Link
  <2>2. Whole'
    BY <1>0, <2>1 DEF Directories
  <2>3. TemporaryIsWhole'
    BY <1>0, <2>1 DEF TemporaryIsWhole, Directories, Prepared
  <2> QED
    BY <1>a, <1>b, <2>2, <2>3
<1>2. CASE OutsideTruncate \/ OutsideFinish
  BY <1>0, <1>2 DEF OutsideTruncate, OutsideFinish, CanonicalIsWhole, TemporaryIsWhole
<1>3. CASE \E e \in Revisions : Begin(e)
  <2>1. dirs' = dirs /\ synced' = synced /\ tx'.pc = "check"
    BY <1>3 DEF Begin, Idle
  <2> QED
    BY <1>0, <1>a, <1>b, <1>d, <2>1 DEF Prepared
<1>4. CASE CreateTemp
  <2>0. tx.pc = "create"
    BY <1>4 DEF CreateTemp
  <2>1. CASE FreeInodes # {} /\ Link(tx.name, NewInode)
             /\ (Do([tx EXCEPT !.pc = "sync", !.ino = NewInode]) \/ tx' = Idle)
    <3>1. /\ dir' = [dir EXCEPT ![tx.name] = NewInode] /\ dirs' = dirs \cup {dir'}
          /\ synced' \in {synced, synced \ {NewInode}}
      BY <1>4, <2>1 DEF CreateTemp, Link, Disk
    <3>2. Whole'
      BY <1>0, <2>0, <2>1, <3>1 DEF Directories
    <3>3. ASSUME Do([tx EXCEPT !.pc = "sync", !.ino = NewInode]) PROVE TemporaryIsWhole'
      <4>1. tx'.pc = "sync" /\ tx'.ino = NewInode /\ tx'.name = tx.name
        BY <1>0, <2>1, <3>3 DEF Do, Transactions
      <4> HIDE DEF NewInode
      <4>2. dir'[tx.name] = NewInode
        BY <1>0, <2>0, <3>1 DEF Directories
      <4> QED
        BY <4>1, <4>2 DEF TemporaryIsWhole, Directories, Prepared
    <3>4. TemporaryIsWhole'
      BY <1>d, <1>e, <2>1, <3>3
    <3> QED
      BY <1>a, <1>b, <3>2, <3>4
  <2>2. CASE UNCHANGED Disk /\ tx' = Idle
    BY <1>0, <1>a, <1>b, <1>d, <1>e, <2>2 DEF Disk
  <2> QED
    BY <1>4, <2>1, <2>2 DEF CreateTemp, End
<1>5. CASE SyncCandidate
  <2>1. /\ dir' = dir /\ dirs' = dirs /\ synced \subseteq synced' /\ tx.pc = "sync"
    BY <1>5 DEF SyncCandidate
  <2>2. CASE synced' = synced \cup {tx.ino} /\ Goto("recheck")
    <3>1. Continues("recheck")
      BY <1>0, <2>2, GoesOn DEF PCs
    <3> QED
      BY <1>0, <1>a, <1>b, <2>1, <2>2, <3>1 DEF Continues, TemporaryIsWhole, Prepared
  <2>3. CASE FinishCandidate("failed")
    <3>1. Continues("remove")
      BY <2>3, PartsGoOn DEF Results
    <3> QED
      BY <1>0, <1>a, <1>b, <1>d, <2>1, <3>1 DEF Continues, Prepared
  <2> QED
    BY <1>5, <2>2, <2>3 DEF SyncCandidate
<1>6. CASE ExchangeIn \/ RollbackExchange \/ RollbackAgain
  <2>0. tx.pc \in Prepared /\ tx.pc # "idle" /\ synced' = synced
    BY <1>6 DEF ExchangeIn, RollbackExchange, RollbackAgain, Prepared
  <2>1. CASE Exchange /\ \E p \in {"displaced", "restored", "again_installed"} : Goto(p)
    <3>1. /\ dir' = [dir EXCEPT ![Canonical] = dir[tx.name], ![tx.name] = dir[Canonical]]
          /\ dirs' = dirs \cup {dir'}
      BY <2>1 DEF Exchange
    <3>2. dir[tx.name] \in synced
      BY <2>0 DEF TemporaryIsWhole
    <3>3. Whole'
      BY <1>0, <2>0, <3>1, <3>2 DEF Directories
    <3>4. \E p \in Prepared : Continues(p)
      BY <1>0, <2>1, GoesOn DEF PCs, Prepared
    <3>5. TemporaryIsWhole'
      BY <1>0, <2>0, <3>1, <3>4 DEF Continues, TemporaryIsWhole, Prepared, Directories
    <3> QED
      BY <1>a, <1>b, <3>3, <3>5
  <2>2. CASE UNCHANGED <<dir, dirs>> /\ (Ends \/ Continues("remove"))
    BY <1>0, <1>a, <1>b, <1>d, <1>e, <2>0, <2>2 DEF Ends, End, Continues, Prepared
  <2> QED
    BY <1>6, <2>1, <2>2, PartsGoOn DEF ExchangeIn, RollbackExchange, RollbackAgain, RollbackFault,
       Results, Ends, Outcomes
<1>7. CASE Commit \/ RollbackSync
  <2>1. synced' = synced /\ dir' = dir /\ dirs' \in {dirs, {dir}} /\ tx.pc \in Prepared
    BY <1>7 DEF Commit, RollbackSync, SyncDirectory, Prepared
  <2>2. Ends \/ \E p \in {"committed", "uncommitted", "remove"} : Continues(p)
    BY <1>0, <1>7, GoesOn DEF Commit, RollbackSync, PCs, Results, Ends, Outcomes
  <2>3. tx'.pc \in Prepared => tx'.name = tx.name
    BY <1>e, <2>2 DEF Ends, End, Continues
  <2>4. TemporaryIsWhole'
    BY <1>0, <1>d, <1>e, <2>1, <2>2, <2>3 DEF TemporaryIsWhole, Ends, End, Continues, Prepared
  <2> QED
    BY <1>0, <1>a, <1>b, <2>1, <2>4
<1>8. CASE Unlink \/ SyncCleanup
  <2>0. tx.pc # "idle" /\ synced' = synced
    BY <1>8 DEF Unlink, SyncCleanup
  <2>1. \/ dirs' \in {dirs, {dir}}
        \/ dirs' = dirs \cup {[dir EXCEPT ![tx.name] = Unlinked]}
    BY <1>8 DEF Unlink, SyncCleanup, Link, SyncDirectory
  <2>2. Whole'
    BY <1>0, <2>0, <2>1 DEF Directories
  <2>3. Ends \/ \E p \in {"cleanup", "final"} : Continues(p)
    BY <1>0, <1>8, GoesOn, PartsGoOn DEF Unlink, SyncCleanup, PCs
  <2> QED
    BY <1>a, <1>b, <1>d, <1>e, <2>2, <2>3 DEF Ends, End, Continues, Prepared
<1>9. CASE Kill \/ PowerLoss
  <2>1. /\ synced' = synced
        /\ dirs' = dirs \/ (\E d \in dirs : dirs' = {d})
        /\ tx' = Idle
    BY <1>9 DEF Kill, PowerLoss, Dies, Disk
  <2>2. synced' = synced
    BY <1>9 DEF Kill, PowerLoss, Disk
  <2> QED
    BY <1>0, <1>a, <1>b, <1>d, <1>e, <2>1, <2>2
<1> DEFINE Quiet ==
             /\ dir' = dir /\ dirs' = dirs /\ synced' = synced
             /\ Ends \/ \E p \in PCs \ {"idle"} : /\ Continues(p) /\ p # "sync"
                                                  /\ p \in Prepared => tx.pc \in Prepared
<1>10. ASSUME Quiet PROVE CanonicalIsWhole' /\ TemporaryIsWhole'
  <2>1. Whole'
    BY <1>0, <1>10
  <2>2. TemporaryIsWhole'
    <3>1. CASE Ends
      BY <1>d, <1>e, <3>1 DEF Ends, End
    <3>2. CASE \E p \in PCs \ {"idle"} : /\ Continues(p) /\ p # "sync"
                                         /\ p \in Prepared => tx.pc \in Prepared
      BY <1>10, <3>2 DEF Continues, TemporaryIsWhole
    <3> QED
      BY <1>10, <3>1, <3>2
  <2> QED
    BY <1>a, <1>b, <2>1, <2>2
<1>f. /\ Snapshot(Canonical) \in FileSnapshot /\ tx.displaced \in FileSnapshot
      /\ Snapshot(tx.name) \in FileSnapshot
  BY <1>0, SnapshotType DEF Types, Transactions
<1>11. ASSUME Check \/ Recheck \/ ReadDisplaced PROVE Quiet
  <2>1. CASE Check
    <3>1. Ends \/ Continues("create")
      BY <1>0, <2>1, GoesOn DEF Check, PCs, Ends, Outcomes
    <3> QED
      BY <2>1, <3>1 DEF Check, Disk, PCs, Prepared
  <2>2. CASE Recheck
    <3>1. Continues("remove") \/ Continues("exchange")
      BY <1>0, <2>2, GoesOn, PartsGoOn DEF Recheck, PCs, Results
    <3> QED
      BY <2>2, <3>1 DEF Recheck, Disk, PCs, Prepared
  <2>3. CASE ReadDisplaced
    <3>1. Ends \/ Continues("installed")
      BY <1>0, <1>f, <2>3, GoesOn DEF ReadDisplaced, PCs, Ends, Outcomes
    <3> QED
      BY <2>3, <3>1 DEF ReadDisplaced, Disk, PCs, Prepared
  <2> HIDE DEF Quiet
  <2> QED
    BY <1>11, <2>1, <2>2, <2>3
<1>12. ASSUME CheckInstalled PROVE Quiet
  BY <1>0, <1>f, <1>12, GoesOn, PartsGoOn
  DEF CheckInstalled, Disk, PCs, Prepared, Ends, Outcomes, Results
<1>13. ASSUME UndoCommit \/ Settle PROVE Quiet
  BY <1>0, <1>f, <1>13, GoesOn, PartsGoOn
  DEF UndoCommit, Settle, Disk, PCs, Prepared, Ends, Outcomes, Results
<1>14. ASSUME CheckDisplaced PROVE Quiet
  BY <1>0, <1>f, <1>14, GoesOn, PartsGoOn
  DEF CheckDisplaced, Disk, PCs, Prepared, Ends, Outcomes, Results
<1>15. ASSUME Conclude PROVE Quiet
  <2>1. tx.result \in Outcomes
    BY <1>0 DEF Transactions, Results, Outcomes
  <2> QED
    BY <1>15, <2>1 DEF Conclude, Ends, Outcomes
<1>16. ASSUME CheckRemoval PROVE Quiet
  <2>1. Ends \/ Continues("unlink") \/ Continues("final")
    BY <1>0, <1>16, GoesOn, PartsGoOn DEF CheckRemoval, PCs
  <2> QED
    BY <1>16, <2>1 DEF CheckRemoval, Disk, PCs, Prepared
<1>17. ASSUME RollbackReadInstalled \/ RollbackReadRestored PROVE Quiet
  BY <1>0, <1>f, <1>17, GoesOn
  DEF RollbackReadInstalled, RollbackReadRestored, RollbackFault, Disk, PCs, Prepared, Ends, Outcomes
<1>18. ASSUME RollbackCheck PROVE Quiet
  BY <1>0, <1>f, <1>18, GoesOn, PartsGoOn
  DEF RollbackCheck, RollbackFault, Disk, PCs, Prepared, Ends, Outcomes, Results
<1>19. ASSUME RollbackReadRemoved PROVE Quiet
  BY <1>0, <1>f, <1>19, GoesOn
  DEF RollbackReadRemoved, RollbackDecision, RollbackFault, Disk, PCs, Prepared, Ends, Outcomes,
      Results
<1>20. ASSUME RollbackAgainInstalled \/ RollbackAgainDisplaced PROVE Quiet
  BY <1>0, <1>f, <1>20, GoesOn, PartsGoOn
  DEF RollbackAgainInstalled, RollbackAgainDisplaced, RollbackFault, Disk, PCs, Prepared, Ends,
      Outcomes, Results
<1> QED
  <2> HIDE DEF Quiet
  <2> QED
    BY <1>1, <1>2, <1>3, <1>4, <1>5, <1>6, <1>7, <1>8, <1>9, <1>10, <1>11, <1>12, <1>13, <1>14,
       <1>15, <1>16, <1>17, <1>18, <1>19, <1>20 DEF Next, Save

-----------------------------------------------------------------------------
(* The temporary names *)

\* What the outcome of a save may be when its temporary name is still linked.
Excused == {"killed", "failed", "degraded", "conflict_degraded"}

\* In every directory a power loss may bring back, a temporary name that is linked is
\* that of the save at work, or of one that has reported it.
Reported ==
    \A d \in dirs, n \in 1..MaxSaves :
        d[n] # Unlinked => (tx.pc # "idle" /\ tx.name = n) \/ saves[n] \in Excused

\* The names of the saves to come are not linked.
Fresh == \A d \in dirs, n \in 1..MaxSaves : n > Begun => d[n] = Unlinked

\* Before the temporary file is created, and after its removal is synced, no power loss
\* brings the name back.
Gone ==
    /\ tx.pc \in {"check", "create"} => \A d \in dirs : d[tx.name] = Unlinked
    /\ tx.pc = "final" /\ tx.result = "saved" => \A d \in dirs : d[tx.name] = Unlinked
    /\ tx.pc = "cleanup" => dir[tx.name] = Unlinked
    /\ tx.pc = "final" => tx.result \in {"saved", "degraded"}

\* The name whose links a step may change besides the canonical one.
Own(n) == tx.pc # "idle" /\ tx.name = n

\* A step leaves the temporary names of the other saves as they were.
LEMMA OthersKeepTheirNames ==
    ASSUME Types, Holds, Next, NEW e \in dirs', NEW n \in 1..MaxSaves, ~Own(n)
    PROVE  \E d \in dirs : e[n] = d[n]
<1> USE ConfigStoreAssumption
<1>0. /\ dir \in dirs /\ dirs \subseteq Directories /\ n # Canonical
      /\ n \in Names
  BY DEF Types, Canonical, Names
<1> DEFINE Goal == e[n] = dir[n] \/ e \in dirs
<1>a. ASSUME Goal PROVE \E d \in dirs : e[n] = d[n]
  BY <1>0, <1>a
<1>b. ASSUME NEW i, Link(Canonical, i) PROVE Goal
  BY <1>0, <1>b DEF Link, Directories
<1>c. ASSUME NEW i, Link(tx.name, i), tx.pc # "idle" PROVE Goal
  BY <1>0, <1>c DEF Link, Directories, Own
<1>d. ASSUME Exchange, tx.pc # "idle" PROVE Goal
  BY <1>0, <1>d DEF Exchange, Directories, Own
<1>e. ASSUME SyncDirectory \/ UNCHANGED <<dir, dirs>> PROVE Goal
  BY <1>0, <1>e DEF SyncDirectory
<1> HIDE DEF Goal
<1>1. ASSUME OutsideRename \/ OutsideTruncate \/ OutsideFinish PROVE Goal
  BY <1>b, <1>e, <1>1 DEF OutsideRename, OutsideTruncate, OutsideFinish
<1>2. ASSUME \E r \in Revisions : Begin(r) PROVE Goal
  BY <1>e, <1>2 DEF Begin
<1>3. ASSUME Check \/ CreateTemp \/ SyncCandidate \/ Recheck \/ ExchangeIn \/ ReadDisplaced
      PROVE  Goal
  BY <1>c, <1>d, <1>e, <1>3
  DEF Check, CreateTemp, SyncCandidate, Recheck, ExchangeIn, ReadDisplaced, Disk
<1>4. ASSUME CheckInstalled \/ Commit \/ UndoCommit \/ Settle \/ CheckDisplaced \/ Conclude
      PROVE  Goal
  BY <1>e, <1>4 DEF CheckInstalled, Commit, UndoCommit, Settle, CheckDisplaced, Conclude, Disk
<1>5. ASSUME CheckRemoval \/ Unlink \/ SyncCleanup PROVE Goal
  BY <1>c, <1>e, <1>5 DEF CheckRemoval, Unlink, SyncCleanup, Disk
<1>6. ASSUME \/ RollbackReadInstalled \/ RollbackCheck \/ RollbackExchange \/ RollbackReadRestored
             \/ RollbackReadRemoved
      PROVE  Goal
  BY <1>d, <1>e, <1>6
  DEF RollbackReadInstalled, RollbackCheck, RollbackExchange, RollbackReadRestored,
      RollbackReadRemoved, Disk
<1>7. ASSUME RollbackAgain \/ RollbackAgainInstalled \/ RollbackAgainDisplaced \/ RollbackSync
      PROVE  Goal
  BY <1>d, <1>e, <1>7
  DEF RollbackAgain, RollbackAgainInstalled, RollbackAgainDisplaced, RollbackSync, Disk
<1>8. ASSUME Kill \/ PowerLoss PROVE Goal
  BY <1>0, <1>8 DEF Kill, PowerLoss, Disk, Goal
<1> QED
  BY <1>a, <1>1, <1>2, <1>3, <1>4, <1>5, <1>6, <1>7, <1>8 DEF Next, Save

\* How a save ends: with an outcome that reports a leftover, or with none left.
EndsGone == Ends /\ (saves'[tx.name] \in Excused \/ \A d \in dirs' : d[tx.name] = Unlinked)

\* How a save goes on.
GoesOnGone ==
    \E p \in PCs \ {"idle"} :
        /\ Continues(p)
        /\ p # "check"
        /\ p = "create" => \A d \in dirs' : d[tx.name] = Unlinked
        /\ p = "final" => \/ tx'.result = "degraded"
                          \/ tx'.result = "saved" /\ \A d \in dirs' : d[tx.name] = Unlinked
        /\ p = "cleanup" => dir'[tx.name] = Unlinked

LEMMA SaveLeaves ==
    ASSUME Types, Holds, Gone, Save
    PROVE  EndsGone \/ GoesOnGone
<1> USE ConfigStoreAssumption
<1>0. /\ tx \in Transactions /\ tx.result \in Results /\ tx.pc \in PCs /\ tx.name \in Names
      /\ saves \in [1..MaxSaves -> Outcomes] /\ tx.displaced \in FileSnapshot
      /\ tx.pc # "idle" => tx.name \in 1..MaxSaves
      /\ dirs \subseteq Directories /\ dir \in dirs
  BY DEF Types, Transactions, Holds
<1>f. Snapshot(Canonical) \in FileSnapshot /\ Snapshot(tx.name) \in FileSnapshot
  BY <1>0, SnapshotType DEF Canonical, Names
<1>a. ASSUME NEW o \in Excused, End(o), tx.pc # "idle" PROVE EndsGone
  <2>1. Ends /\ saves' = [saves EXCEPT ![tx.name] = o]
    BY <1>a DEF Ends, End, Excused, Outcomes
  <2> QED
    BY <1>0, <1>a, <2>1 DEF EndsGone
<1>b. ASSUME Ends, \A d \in dirs' : d[tx.name] = Unlinked PROVE EndsGone
  BY <1>b DEF EndsGone
<1>c. ASSUME NEW p \in PCs \ {"idle", "check", "create", "final", "cleanup"}, Continues(p)
      PROVE  GoesOnGone
  BY <1>c DEF GoesOnGone
<1>d. ASSUME RemovalFailed, tx.pc # "idle" PROVE EndsGone \/ GoesOnGone
  <2>1. CASE tx.result = "saved"
    <3>1. Do([tx EXCEPT !.pc = "final", !.result = "degraded"])
      BY <1>d, <2>1 DEF RemovalFailed
    <3>2. Continues("final")
      BY <1>0, <3>1, GoesOn DEF PCs, Results
    <3>3. tx'.result = "degraded"
      BY <1>0, <3>1 DEF Do, Transactions
    <3> QED
      BY <3>2, <3>3 DEF GoesOnGone, PCs
  <2>2. CASE tx.result # "saved"
    BY <1>a, <1>d, <2>2 DEF RemovalFailed, Excused
  <2> QED
    BY <2>1, <2>2
<1>1. CASE Check
  <2>1. dirs' = dirs /\ tx.pc = "check" /\ \A d \in dirs' : d[tx.name] = Unlinked
    BY <1>1 DEF Check, Gone, Disk
  <2>2. Ends \/ Continues("create")
    BY <1>0, <1>1, GoesOn DEF Check, PCs, Ends, Outcomes
  <2> QED
    BY <1>b, <2>1, <2>2 DEF GoesOnGone, PCs
<1>2. CASE CreateTemp
  <2>1. CASE End("refused") /\ UNCHANGED Disk
    <3>1. \A d \in dirs' : d[tx.name] = Unlinked
      BY <1>2, <2>1 DEF CreateTemp, Gone, Disk
    <3> QED
      BY <1>b, <2>1, <3>1 DEF Ends, Outcomes
  <2>2. CASE FreeInodes # {} /\ Do([tx EXCEPT !.pc = "sync", !.ino = NewInode])
    <3>1. NewInode \in Inodes
      BY <2>2, NewInodeIsFree DEF FreeInodes
    <3> QED
      BY <1>0, <1>c, <2>2, <3>1, GoesOn DEF PCs
  <2>3. CASE End("failed") /\ tx.pc # "idle"
    BY <1>a, <2>3 DEF Excused
  <2> QED
    BY <1>2, <2>1, <2>2, <2>3 DEF CreateTemp
<1>3. CASE SyncCandidate \/ Recheck \/ ExchangeIn
  BY <1>0, <1>3, <1>c, GoesOn, PartsGoOn DEF SyncCandidate, Recheck, ExchangeIn, PCs, Results
<1>4. CASE ReadDisplaced
  BY <1>0, <1>4, <1>a, <1>c, <1>f, GoesOn DEF ReadDisplaced, PCs, Excused
<1>5. CASE CheckInstalled
  BY <1>0, <1>5, <1>c, GoesOn, PartsGoOn DEF CheckInstalled, PCs, Results
<1>6. CASE Commit \/ UndoCommit \/ Settle
  BY <1>0, <1>6, <1>a, <1>c, GoesOn, PartsGoOn DEF Commit, UndoCommit, Settle, PCs, Results, Excused
<1>7. CASE CheckDisplaced
  BY <1>0, <1>7, <1>a, <1>c, PartsGoOn DEF CheckDisplaced, PCs, Results, Excused
<1>8. CASE Conclude
  <2>1. /\ dirs' = dirs /\ tx.pc = "final" /\ tx.result \in {"saved", "degraded"}
        /\ tx.result = "saved" => \A d \in dirs' : d[tx.name] = Unlinked
    BY <1>8 DEF Conclude, Gone
  <2>2. \E o \in Outcomes : End(o) /\ (tx.result = "saved" \/ o \in Excused)
    BY <1>8, <2>1 DEF Conclude, Outcomes, Excused
  <2> QED
    BY <1>a, <1>b, <2>1, <2>2 DEF Ends
<1>9. CASE CheckRemoval
  BY <1>0, <1>9, <1>c, <1>d, GoesOn DEF CheckRemoval, PCs
<1>10. CASE Unlink
  <2>1. CASE RemovalFailed
    BY <1>10, <1>d, <2>1 DEF Unlink
  <2>2. CASE Link(tx.name, Unlinked) /\ Goto("cleanup")
    <3>1. Continues("cleanup")
      BY <1>0, <2>2, GoesOn DEF PCs
    <3>2. dir'[tx.name] = Unlinked
      BY <1>0, <2>2 DEF Link, Directories
    <3> QED
      BY <3>1, <3>2 DEF GoesOnGone, PCs
  <2> QED
    BY <1>10, <2>1, <2>2 DEF Unlink
<1>11. CASE SyncCleanup
  <2>1. CASE RemovalFailed
    BY <1>11, <1>d, <2>1 DEF SyncCleanup
  <2>2. CASE SyncDirectory /\ RemovalDone
    <3>1. \A d \in dirs' : d[tx.name] = Unlinked
      BY <1>11, <2>2 DEF SyncCleanup, SyncDirectory, Gone
    <3>2. CASE tx.result = "saved"
      <4>1. Goto("final")
        BY <2>2, <3>2 DEF RemovalDone
      <4>2. Continues("final") /\ tx'.result = "saved"
        BY <1>0, <3>2, <4>1, GoesOn DEF PCs, Goto, Do, Transactions
      <4> QED
        BY <3>1, <4>2 DEF GoesOnGone, PCs
    <3>3. CASE tx.result # "saved"
      BY <1>0, <1>b, <2>2, <3>1, <3>3 DEF RemovalDone, Ends, Outcomes, Results
    <3> QED
      BY <3>2, <3>3
  <2> QED
    BY <1>11, <2>1, <2>2 DEF SyncCleanup
<1>12. CASE RollbackReadInstalled \/ RollbackReadRestored
  BY <1>0, <1>a, <1>c, <1>f, <1>12, GoesOn
  DEF RollbackReadInstalled, RollbackReadRestored, PCs, RollbackFault, Excused
<1>13. CASE RollbackCheck \/ RollbackExchange
  BY <1>0, <1>a, <1>c, <1>13, GoesOn, PartsGoOn
  DEF RollbackCheck, RollbackExchange, PCs, RollbackFault, Results, Excused
<1>14. CASE RollbackReadRemoved
  BY <1>0, <1>a, <1>c, <1>f, <1>14, GoesOn
  DEF RollbackReadRemoved, RollbackDecision, PCs, RollbackFault, Results, Excused
<1>15. CASE RollbackAgain \/ RollbackAgainInstalled \/ RollbackAgainDisplaced
  BY <1>0, <1>a, <1>c, <1>15, GoesOn, PartsGoOn
  DEF RollbackAgain, RollbackAgainInstalled, RollbackAgainDisplaced, PCs, RollbackFault, Results,
      Excused
<1>16. CASE RollbackSync
  BY <1>0, <1>a, <1>c, <1>16, GoesOn DEF RollbackSync, PCs, Results, Excused
<1> QED
  BY <1>1, <1>2, <1>3, <1>4, <1>5, <1>6, <1>7, <1>8, <1>9, <1>10, <1>11, <1>12, <1>13, <1>14, <1>15,
     <1>16 DEF Save

LEMMA LeftoversStep ==
    ASSUME Types, Holds, CanonicalIsWhole, Reported, Fresh, Gone, Next
    PROVE  Reported' /\ Fresh' /\ Gone'
<1> USE ConfigStoreAssumption
<1>0. /\ tx \in Transactions /\ dir \in dirs /\ dirs \subseteq Directories
      /\ saves \in [1..MaxSaves -> Outcomes]
      /\ tx.pc # "idle" => tx.name = Begun /\ tx.name \in 1..MaxSaves
      /\ Begun \in 0..MaxSaves
  BY DEF Types, Holds, Begun, Budgets
<1>1. \A e \in dirs', n \in 1..MaxSaves : ~Own(n) => \E d \in dirs : e[n] = d[n]
  BY OthersKeepTheirNames
<1>2. CASE OutsideRename \/ OutsideTruncate \/ OutsideFinish
  <2>1. /\ tx' = tx /\ saves' = saves /\ left'.saves = left.saves
        /\ dirs' = dirs \/ \E i : Link(Canonical, i)
        /\ dir' = dir \/ \E i : Link(Canonical, i)
    BY <1>2, Spent DEF OutsideRename, OutsideTruncate, OutsideFinish, Types
  <2>2. \A e \in dirs', n \in 1..MaxSaves : \E d \in dirs : e[n] = d[n]
    BY <1>0, <2>1 DEF Link, Directories, Canonical, Names
  <2>3. \A n \in 1..MaxSaves : dir'[n] = dir[n]
    BY <1>0, <2>1 DEF Link, Directories, Canonical, Names
  <2>4. Reported' /\ Fresh'
    BY <2>1, <2>2 DEF Reported, Fresh, Begun
  <2>5. Gone'
    BY <1>0, <2>1, <2>2, <2>3 DEF Gone
  <2> QED
    BY <2>4, <2>5
<1>3. ASSUME NEW r \in Revisions, Begin(r) PROVE Reported' /\ Fresh' /\ Gone'
  <2>1. /\ tx.pc = "idle" /\ tx'.pc = "check" /\ tx'.name = Begun + 1 /\ dir' = dir /\ dirs' = dirs
        /\ saves' = saves
    BY <1>3 DEF Begin, Begun, Idle
  <2>2. Begun' = Begun + 1
    BY <1>3, Spent DEF Begin, Begun, Types, Budgets
  <2>3. Reported'
    BY <2>1 DEF Reported
  <2>4. Fresh'
    BY <1>0, <2>1, <2>2 DEF Fresh
  <2>5. Begun + 1 \in 1..MaxSaves
    BY <1>0, <1>3, Spent DEF Begin, Begun, Types, Budgets
  <2>6. Gone'
    BY <1>0, <2>1, <2>5 DEF Gone, Fresh
  <2> QED
    BY <2>3, <2>4, <2>6
<1>4. CASE Save
  <2>1. tx.pc # "idle" /\ left'.saves = left.saves
    BY <1>4, SaveStep, SaveKeeps
  <2>2. Fresh'
    BY <1>0, <1>1, <2>1 DEF Fresh, Begun, Own
  <2>3. EndsGone \/ GoesOnGone
    BY <1>4, SaveLeaves
  <2>4. CASE EndsGone
    <3>1. /\ tx' = Idle /\ \E o \in Outcomes : saves' = [saves EXCEPT ![tx.name] = o]
      BY <2>4 DEF EndsGone, Ends, End
    <3>2. Gone'
      BY <3>1 DEF Gone, Idle
    <3>3. ASSUME NEW e \in dirs', NEW n \in 1..MaxSaves, e[n] # Unlinked PROVE saves'[n] \in Excused
      <4>1. CASE Own(n)
        BY <2>4, <3>3, <4>1 DEF EndsGone, Own
      <4>2. CASE ~Own(n)
        <5>1. saves'[n] = saves[n]
          BY <1>0, <2>1, <3>1, <4>2 DEF Own
        <5> QED
          BY <1>1, <2>1, <3>3, <4>2, <5>1 DEF Reported, Own
      <4> QED
        BY <4>1, <4>2
    <3>4. Reported'
      BY <3>3 DEF Reported
    <3> QED
      BY <2>2, <3>2, <3>4
  <2>5. CASE GoesOnGone
    <3>1. PICK p \in PCs \ {"idle"} :
              /\ Continues(p)
              /\ p # "check"
              /\ p = "create" => \A d \in dirs' : d[tx.name] = Unlinked
              /\ p = "final" => \/ tx'.result = "degraded"
                                \/ tx'.result = "saved" /\ \A d \in dirs' : d[tx.name] = Unlinked
              /\ p = "cleanup" => dir'[tx.name] = Unlinked
      BY <2>5 DEF GoesOnGone
    <3>2. tx'.pc = p /\ tx'.name = tx.name /\ saves' = saves
      BY <3>1 DEF Continues
    <3>3. Gone'
      BY <3>1, <3>2 DEF Gone
    <3>4. Reported'
      BY <1>1, <2>1, <3>1, <3>2 DEF Reported, Own
    <3> QED
      BY <2>2, <3>3, <3>4
  <2> QED
    BY <2>3, <2>4, <2>5
<1>5. CASE Kill \/ PowerLoss
  <2>1. /\ tx' = Idle /\ Dies /\ left'.saves = left.saves
        /\ \A e \in dirs' : e \in dirs
    BY <1>0, <1>5, Spent DEF Kill, PowerLoss, Dies, Disk, Types
  <2>2. Fresh' /\ Gone'
    BY <2>1 DEF Fresh, Gone, Begun, Idle
  <2>3. Reported'
    <3> SUFFICES ASSUME NEW e \in dirs', NEW n \in 1..MaxSaves, e[n] # Unlinked
                 PROVE  saves'[n] \in Excused
      BY DEF Reported
    <3>1. CASE Own(n)
      BY <1>0, <2>1, <3>1 DEF Dies, Own, Excused
    <3>2. CASE ~Own(n)
      <4>1. saves'[n] = saves[n]
        BY <1>0, <2>1, <3>2 DEF Dies, Own
      <4> QED
        BY <2>1, <3>2, <4>1 DEF Reported, Own
    <3> QED
      BY <3>1, <3>2
  <2> QED
    BY <2>2, <2>3
<1> QED
  BY <1>2, <1>3, <1>4, <1>5 DEF Next


-----------------------------------------------------------------------------
(* What is known without looking at the outsiders: revisions, links, pending saves *)

\* A revision that has been written, read or promised is older than the next one.
Revised ==
    /\ \A i \in Inodes : file[i] < NewRevision
    /\ owed < NewRevision /\ tx.draft < NewRevision /\ tx.expected < NewRevision
    /\ tx.displaced.bytes < NewRevision

\* No inode has two names.
Distinct == \A d \in dirs, n, m \in Names : d[n] = d[m] /\ d[n] # Unlinked => n = m

\* A save that is at work or to come has no outcome.
Pending ==
    \A n \in 1..MaxSaves : n > Begun \/ (tx.pc # "idle" /\ n = tx.name) => saves[n] = "none"

\* The pcs of a save whose exchange is synced.
Settled ==
    \/ tx.pc \in {"committed", "settle", "final"}
    \/ tx.pc \in {"remove", "unlink", "cleanup"} /\ tx.result = "saved"

\* A candidate that is still installed after the commit sync is what every power loss
\* brings back.
Committed == Settled /\ dir[Canonical] = tx.ino => \A d \in dirs : d[Canonical] = tx.ino

LEMMA RevisionGrows ==
    ASSUME Types
    PROVE  /\ NewRevision \in Nat
           /\ UNCHANGED <<left, writer>> => NewRevision' = NewRevision
           /\ \A w \in {"faults", "crashes"} : Spend(w) /\ writer' = writer => NewRevision' = NewRevision
           /\ Spend("saves") /\ writer' = writer => NewRevision' = NewRevision + 1
           /\ Spend("writes") /\ writer' = Superseded => NewRevision' = NewRevision + 1
           /\ OutsideTruncate => NewRevision' >= NewRevision
           /\ OutsideFinish => NewRevision' = NewRevision + 1
           /\ Spend("crashes") /\ writer' = NoWriter => NewRevision' >= NewRevision
<1> USE ConfigStoreAssumption
<1>0. /\ left \in Budgets /\ left.saves \in 0..MaxSaves /\ left.writes \in 0..MaxWrites
      /\ writer.ino \in Inodes \cup {Unlinked}
  BY DEF Types, Budgets
<1>1. NewRevision \in Nat
  BY <1>0 DEF NewRevision
<1>2. UNCHANGED <<left, writer>> => NewRevision' = NewRevision
  BY DEF NewRevision
<1>3. ASSUME NEW w \in {"faults", "crashes"}, Spend(w), writer' = writer
      PROVE  NewRevision' = NewRevision
  BY <1>0, <1>3, Spent DEF NewRevision
<1>4. ASSUME Spend("saves"), writer' = writer PROVE NewRevision' = NewRevision + 1
  BY <1>0, <1>4, Spent DEF NewRevision
<1>5. ASSUME Spend("writes"), writer' = Superseded PROVE NewRevision' = NewRevision + 1
  <2>1. writer'.ino = writer.ino
    BY <1>5 DEF Superseded, Types
  <2> QED
    BY <1>0, <1>5, <2>1, Spent DEF NewRevision
<1>6. ASSUME OutsideTruncate PROVE NewRevision' >= NewRevision
  <2>1. writer.ino = Unlinked /\ Spend("writes")
    BY <1>6 DEF OutsideTruncate
  <2> QED
    BY <1>0, <2>1, Spent DEF NewRevision
<1>7. ASSUME OutsideFinish PROVE NewRevision' = NewRevision + 1
  BY <1>0, <1>7 DEF OutsideFinish, NoWriter, NewRevision
<1>8. ASSUME Spend("crashes"), writer' = NoWriter PROVE NewRevision' >= NewRevision
  BY <1>0, <1>8, Spent DEF NoWriter, NewRevision
<1> QED
  BY <1>1, <1>2, <1>3, <1>4, <1>5, <1>6, <1>7, <1>8

\* Only the read of the displaced file sets what was displaced.
LEMMA DisplacedStays ==
    ASSUME tx \in Transactions, Save, ~ReadDisplaced
    PROVE  tx' = Idle \/ tx'.displaced = tx.displaced
<1> DEFINE Goal == tx' = Idle \/ tx'.displaced = tx.displaced
<1>a. \A p : Goto(p) => Goal
  BY DEF Goto, Do, Transactions
<1>b. \A s, r : Remove(s, r) => Goal
  BY DEF Remove, Do, Transactions
<1>c. \A r : (FinishCandidate(r) => Goal) /\ (AbandonExchange(r) => Goal) /\ (Rollback(r) => Goal)
  BY <1>b DEF FinishCandidate, AbandonExchange, Rollback, Do, Transactions
<1>d. \A o : End(o) => Goal
  BY DEF End
<1>e. (RemovalFailed => Goal) /\ (RemovalDone => Goal)
  BY <1>a, <1>d DEF RemovalFailed, RemovalDone, Do, Transactions
<1>f. /\ \A p, i : Do([tx EXCEPT !.pc = p, !.ino = i]) => Goal
      /\ \A p, s : Do([tx EXCEPT !.pc = p, !.seen = s]) => Goal
      /\ \A p, s : Do([tx EXCEPT !.pc = p, !.drop = s]) => Goal
      /\ \A p, r : Do([tx EXCEPT !.pc = p, !.result = r]) => Goal
      /\ \A p, s, r : Do([tx EXCEPT !.pc = p, !.drop = s, !.result = r]) => Goal
  BY DEF Do, Transactions
<1> HIDE DEF Goal
<1>1. ASSUME Check \/ CreateTemp \/ SyncCandidate \/ Recheck \/ ExchangeIn PROVE Goal
  BY <1>a, <1>c, <1>d, <1>f, <1>1 DEF Check, CreateTemp, SyncCandidate, Recheck, ExchangeIn
<1>2. ASSUME CheckInstalled \/ Commit \/ UndoCommit \/ Settle \/ CheckDisplaced \/ Conclude
      PROVE  Goal
  BY <1>a, <1>b, <1>c, <1>d, <1>2
  DEF CheckInstalled, Commit, UndoCommit, Settle, CheckDisplaced, Conclude
<1>3. ASSUME CheckRemoval \/ Unlink \/ SyncCleanup PROVE Goal
  BY <1>a, <1>e, <1>3 DEF CheckRemoval, Unlink, SyncCleanup
<1>4. ASSUME \/ RollbackReadInstalled \/ RollbackCheck \/ RollbackExchange \/ RollbackReadRestored
             \/ RollbackReadRemoved
      PROVE  Goal
  BY <1>a, <1>c, <1>d, <1>f, <1>4
  DEF RollbackReadInstalled, RollbackCheck, RollbackExchange, RollbackReadRestored,
      RollbackReadRemoved, RollbackDecision, RollbackFault
<1>5. ASSUME RollbackAgain \/ RollbackAgainInstalled \/ RollbackAgainDisplaced \/ RollbackSync
      PROVE  Goal
  BY <1>a, <1>c, <1>d, <1>f, <1>5
  DEF RollbackAgain, RollbackAgainInstalled, RollbackAgainDisplaced, RollbackSync, RollbackFault
<1> QED
  BY <1>1, <1>2, <1>3, <1>4, <1>5 DEF Save, Goal

LEMMA RevisedStep ==
    ASSUME Types, Holds, CanonicalIsWhole, Revised, Next
    PROVE  Revised'
<1> USE ConfigStoreAssumption
<1>0. /\ tx \in Transactions /\ file \in [Inodes -> Contents] /\ owed \in Contents
      /\ Contents \subseteq Nat /\ NewRevision \in Nat /\ NewRevision > 0
      /\ tx.draft \in Nat /\ tx.expected \in Nat /\ tx.displaced.bytes \in Nat
      /\ FreeInodes # {} => NewInode \in Inodes
      /\ \A i \in Inodes : file[i] \in Nat
      /\ owed \in Nat
      /\ Idle.draft = 0 /\ Idle.expected = 0 /\ Idle.displaced.bytes = 0
  <2>1. FreeInodes # {} => NewInode \in Inodes
    BY NewInodeIsFree DEF FreeInodes
  <2>2. NewRevision \in Nat /\ NewRevision > 0
    BY NewRevisionType DEF Types
  <2>3. Contents \subseteq Nat /\ Idle.draft = 0 /\ Idle.expected = 0 /\ Idle.displaced.bytes = 0
    BY DEF Contents, Revisions, Partial, Idle, NoSnapshot
  <2> QED
    BY <2>1, <2>2, <2>3 DEF Types, Transactions, FileSnapshot
<1> HIDE DEF NewRevision, NewInode
<1>1. CASE OutsideRename
  <2>1. /\ NewRevision' = NewRevision + 1 /\ file' = [file EXCEPT ![NewInode] = NewRevision]
        /\ owed' = NewRevision /\ tx' = tx
    BY <1>1, RevisionGrows DEF OutsideRename
  <2> QED
    BY <1>0, <2>1 DEF Revised
<1>2. CASE OutsideTruncate
  <2>1. /\ NewRevision' >= NewRevision /\ file' = [file EXCEPT ![dir[Canonical]] = Partial]
        /\ owed' = Partial /\ tx' = tx /\ NewRevision' \in Nat
    <3>1. left' \in Budgets
      BY <1>2, Spent DEF OutsideTruncate, Types
    <3>2. NewRevision' \in Nat
      BY <3>1 DEF NewRevision, Budgets
    <3> QED
      BY <1>2, <3>2, RevisionGrows DEF OutsideTruncate
  <2> QED
    BY <1>0, <2>1 DEF Revised, Partial
<1>3. CASE OutsideFinish
  <2>1. /\ NewRevision' = NewRevision + 1 /\ file' = [file EXCEPT ![writer.ino] = NewRevision]
        /\ owed' \in {owed, NewRevision} /\ tx' = tx
    BY <1>3, RevisionGrows DEF OutsideFinish
  <2> QED
    BY <1>0, <2>1 DEF Revised
<1>4. ASSUME NEW e \in Revisions, Begin(e) PROVE Revised'
  <2>1. /\ NewRevision' = NewRevision + 1 /\ file' = file /\ owed' = owed /\ e < NewRevision
        /\ tx'.draft = NewRevision /\ tx'.expected = e /\ tx'.displaced.bytes = 0
    BY <1>0, <1>4, RevisionGrows DEF Begin, Idle
  <2>2. e \in Nat
    BY DEF Revisions
  <2> QED
    BY <1>0, <2>1, <2>2 DEF Revised
<1>5. CASE Save
  <2>1. NewRevision' = NewRevision
    <3>1. left'.saves = left.saves /\ left'.writes = left.writes /\ writer' = writer
      BY <1>5, SaveKeeps
    <3> QED
      BY <3>1 DEF NewRevision
  <2>2. owed' \in {owed, tx.draft}
    BY <1>5, SaveKeeps
  <2>3. \A i \in Inodes : file'[i] < NewRevision
    <3>1. CASE CreateTemp
      <4>1. \/ file' = file
            \/ \E c \in {tx.draft, Partial} : file' = [file EXCEPT ![NewInode] = c]
        BY <3>1 DEF CreateTemp, Disk
      <4>2. Partial < NewRevision
        BY <1>0 DEF Partial
      <4> HIDE DEF NewInode, NewRevision
      <4> QED
        BY <1>0, <4>1, <4>2 DEF Revised
    <3> QED
      BY <1>5, <3>1, SaveKeeps DEF Revised
  <2>4. tx'.draft < NewRevision /\ tx'.expected < NewRevision
    <3>1. Ends \/ \E p \in PCs \ {"idle"} : Continues(p)
      BY <1>5, SaveStep
    <3> QED
      BY <1>0, <3>1 DEF Ends, End, Continues, Revised
  <2>5. tx'.displaced.bytes < NewRevision
    <3>1. CASE ReadDisplaced
      <4>1. tx.name \in Names /\ Snapshot(tx.name).bytes < NewRevision
        <5>1. tx.name \in Names /\ dir[tx.name] \in Inodes \cup {Unlinked}
          BY DEF Types, Transactions, Directories
        <5> QED
          BY <1>0, <5>1 DEF Snapshot, Revised, Partial
      <4>2. tx' = [tx EXCEPT !.pc = "installed", !.displaced = Snapshot(tx.name)] \/ tx' = Idle
        BY <3>1 DEF ReadDisplaced, Do, End
      <4> HIDE DEF Snapshot
      <4> QED
        BY <1>0, <4>1, <4>2 DEF Transactions
    <3>2. CASE ~ReadDisplaced
      <4>1. tx' = Idle \/ tx'.displaced = tx.displaced
        BY <1>0, <1>5, <3>2, DisplacedStays
      <4> QED
        BY <1>0, <4>1 DEF Revised
    <3> QED
      BY <3>1, <3>2
  <2> QED
    BY <1>0, <2>1, <2>2, <2>3, <2>4, <2>5 DEF Revised
<1>6. CASE Kill
  <2>1. NewRevision' = NewRevision /\ file' = file /\ owed' = owed /\ tx' = Idle
    BY <1>6, RevisionGrows DEF Kill, Keeps, Disk, Dies
  <2> QED
    BY <1>0, <2>1 DEF Revised
<1>7. CASE PowerLoss
  <2>1. PICK d \in dirs : /\ file' = [i \in Inodes |-> IF i \in synced THEN file[i] ELSE Partial]
                          /\ owed' = file'[d[Canonical]]
    BY <1>7 DEF PowerLoss
  <2>2. NewRevision' >= NewRevision /\ tx' = Idle /\ NewRevision' \in Nat
    <3>1. left' \in Budgets
      BY <1>7, Spent DEF PowerLoss, Types
    <3>2. NewRevision' \in Nat
      BY <3>1 DEF NewRevision, Budgets
    <3> QED
      BY <1>7, <3>2, RevisionGrows DEF PowerLoss, Dies
  <2>3. d[Canonical] \in Inodes
    BY DEF CanonicalIsWhole, Types
  <2>4. \A i \in Inodes : file'[i] < NewRevision /\ file'[i] \in Nat
    BY <1>0, <2>1 DEF Revised, Partial
  <2> QED
    BY <1>0, <2>1, <2>2, <2>3, <2>4 DEF Revised
<1> QED
  BY <1>1, <1>2, <1>3, <1>4, <1>5, <1>6, <1>7 DEF Next

LEMMA DistinctStep ==
    ASSUME Types, Holds, Distinct, Next
    PROVE  Distinct'
<1> USE ConfigStoreAssumption
<1>0. /\ dir \in dirs /\ dirs \subseteq Directories /\ Canonical \in Names /\ tx.name \in Names
      /\ tx.pc # "idle" => tx.name # Canonical
      /\ FreeInodes # {} => \A d \in dirs, n \in Names : d[n] # NewInode
  <2>1. FreeInodes # {} => \A d \in dirs, n \in Names : d[n] # NewInode
    BY NewInodeIsFree DEF FreeInodes
  <2> QED
    BY <2>1 DEF Types, Transactions, Holds, Canonical, Names
<1>a. ASSUME NEW n \in Names, Link(n, NewInode), FreeInodes # {} PROVE Distinct'
  BY <1>0, <1>a DEF Link, Directories, Distinct
<1>b. ASSUME Link(tx.name, Unlinked) PROVE Distinct'
  BY <1>0, <1>b DEF Link, Directories, Distinct
<1>c. ASSUME Exchange, tx.pc # "idle" PROVE Distinct'
  <2>1. /\ dirs' = dirs \cup {[dir EXCEPT ![Canonical] = dir[tx.name], ![tx.name] = dir[Canonical]]}
    BY <1>c DEF Exchange
  <2> QED
    BY <1>0, <1>c, <2>1 DEF Directories, Distinct
<1>d. ASSUME SyncDirectory \/ dirs' = dirs PROVE Distinct'
  BY <1>0, <1>d DEF SyncDirectory, Distinct
<1>1. ASSUME OutsideRename \/ OutsideTruncate \/ OutsideFinish PROVE Distinct'
  BY <1>0, <1>a, <1>d, <1>1 DEF OutsideRename, OutsideTruncate, OutsideFinish
<1>2. ASSUME \E r \in Revisions : Begin(r) PROVE Distinct'
  BY <1>d, <1>2 DEF Begin
<1>3. ASSUME Check \/ CreateTemp \/ SyncCandidate \/ Recheck \/ ExchangeIn \/ ReadDisplaced
      PROVE  Distinct'
  BY <1>0, <1>a, <1>c, <1>d, <1>3
  DEF Check, CreateTemp, SyncCandidate, Recheck, ExchangeIn, ReadDisplaced, Disk
<1>4. ASSUME CheckInstalled \/ Commit \/ UndoCommit \/ Settle \/ CheckDisplaced \/ Conclude
      PROVE  Distinct'
  BY <1>d, <1>4 DEF CheckInstalled, Commit, UndoCommit, Settle, CheckDisplaced, Conclude, Disk
<1>5. ASSUME CheckRemoval \/ Unlink \/ SyncCleanup PROVE Distinct'
  BY <1>b, <1>d, <1>5 DEF CheckRemoval, Unlink, SyncCleanup, Disk
<1>6. ASSUME \/ RollbackReadInstalled \/ RollbackCheck \/ RollbackExchange \/ RollbackReadRestored
             \/ RollbackReadRemoved
      PROVE  Distinct'
  BY <1>c, <1>d, <1>6
  DEF RollbackReadInstalled, RollbackCheck, RollbackExchange, RollbackReadRestored,
      RollbackReadRemoved, Disk
<1>7. ASSUME RollbackAgain \/ RollbackAgainInstalled \/ RollbackAgainDisplaced \/ RollbackSync
      PROVE  Distinct'
  BY <1>c, <1>d, <1>7
  DEF RollbackAgain, RollbackAgainInstalled, RollbackAgainDisplaced, RollbackSync, Disk
<1>8. ASSUME Kill \/ PowerLoss PROVE Distinct'
  BY <1>0, <1>d, <1>8 DEF Kill, PowerLoss, Disk, Distinct
<1> QED
  BY <1>1, <1>2, <1>3, <1>4, <1>5, <1>6, <1>7, <1>8 DEF Next, Save

LEMMA PendingStep ==
    ASSUME Types, Holds, Pending, Next
    PROVE  Pending'
<1> USE ConfigStoreAssumption
<1>0. /\ tx.pc # "idle" => tx.name = Begun /\ tx.name \in 1..MaxSaves
      /\ Begun \in 0..MaxSaves /\ saves \in [1..MaxSaves -> Outcomes] /\ left \in Budgets
  BY DEF Types, Holds, Begun, Budgets
<1>1. CASE OutsideRename \/ OutsideTruncate \/ OutsideFinish
  <2>1. tx' = tx /\ saves' = saves /\ left'.saves = left.saves
    BY <1>0, <1>1, Spent DEF OutsideRename, OutsideTruncate, OutsideFinish
  <2> QED
    BY <2>1 DEF Pending, Begun
<1>2. ASSUME NEW r \in Revisions, Begin(r) PROVE Pending'
  <2>1. tx'.name = Begun + 1 /\ saves' = saves /\ Begun' = Begun + 1
    BY <1>0, <1>2, Spent DEF Begin, Begun, Idle, Budgets
  <2> QED
    BY <1>0, <2>1 DEF Pending
<1>3. CASE Save
  <2>1. tx.pc # "idle" /\ Begun' = Begun
    BY <1>3, SaveStep, SaveKeeps DEF Begun
  <2>2. Ends \/ \E p \in PCs \ {"idle"} : Continues(p)
    BY <1>3, SaveStep
  <2>3. CASE Ends
    BY <1>0, <2>1, <2>3 DEF Ends, End, Idle, Pending
  <2>4. CASE \E p \in PCs \ {"idle"} : Continues(p)
    BY <1>0, <2>1, <2>4 DEF Continues, Pending
  <2> QED
    BY <2>2, <2>3, <2>4
<1>4. CASE Kill \/ PowerLoss
  <2>1. Dies /\ Begun' = Begun
    BY <1>0, <1>4, Spent DEF Kill, PowerLoss, Begun
  <2> QED
    BY <1>0, <2>1 DEF Dies, Idle, Pending
<1> QED
  BY <1>1, <1>2, <1>3, <1>4 DEF Next


\* What the removal of a file returns is never decided by the removal itself.
Decided ==
    /\ tx.pc \in {"remove", "unlink", "cleanup"} => tx.result # "degraded"
    /\ tx.pc \in {"rollback", "rollback_read", "rollback_exchange", "restored", "removed", "again",
                  "again_installed", "again_displaced", "rollback_sync"}
          => tx.result \in {"conflict", "failed"}

LEMMA DecidedStep ==
    ASSUME Types, Holds, Decided, Next
    PROVE  Decided'
<1> USE ConfigStoreAssumption
<1>0. tx \in Transactions
  BY DEF Types
<1> DEFINE Rolling == {"rollback", "rollback_read", "rollback_exchange", "restored", "removed",
                       "again", "again_installed", "again_displaced", "rollback_sync"}
           Removing == {"remove", "unlink", "cleanup"}
<1>a. ASSUME tx' = Idle PROVE Decided'
  BY <1>a DEF Decided, Idle
<1>b. ASSUME NEW p \in PCs, Goto(p), p \notin Rolling \cup Removing PROVE Decided'
  BY <1>0, <1>b DEF Goto, Do, Transactions, Decided
<1>c. ASSUME NEW s, NEW r \in {"conflict", "failed", "saved"}, Remove(s, r) PROVE Decided'
  BY <1>0, <1>c DEF Remove, Do, Transactions, Decided
<1>d. ASSUME NEW r \in {"conflict", "failed"}, FinishCandidate(r) \/ AbandonExchange(r) PROVE Decided'
  BY <1>c, <1>d DEF FinishCandidate, AbandonExchange
<1>e. ASSUME NEW r \in {"conflict", "failed"}, Rollback(r) PROVE Decided'
  BY <1>0, <1>e DEF Rollback, Do, Transactions, Decided
<1>f. ASSUME NEW o, End(o) PROVE Decided'
  BY <1>a, <1>f DEF End
<1>g. ASSUME RemovalFailed PROVE Decided'
  <2>1. CASE Do([tx EXCEPT !.pc = "final", !.result = "degraded"])
    BY <1>0, <2>1 DEF Do, Transactions, Decided
  <2> QED
    BY <1>f, <1>g, <2>1 DEF RemovalFailed
<1>1. ASSUME OutsideRename \/ OutsideTruncate \/ OutsideFinish PROVE Decided'
  BY <1>1 DEF OutsideRename, OutsideTruncate, OutsideFinish, Decided
<1>2. ASSUME NEW e \in Revisions, Begin(e) PROVE Decided'
  BY <1>2 DEF Begin, Idle, Decided
<1>3. ASSUME Check \/ Recheck \/ SyncCandidate \/ ExchangeIn PROVE Decided'
  BY <1>b, <1>d, <1>f, <1>3 DEF Check, Recheck, SyncCandidate, ExchangeIn, PCs
<1>4. ASSUME CreateTemp PROVE Decided'
  <2>1. CASE Do([tx EXCEPT !.pc = "sync", !.ino = NewInode])
    <3> HIDE DEF NewInode
    <3> QED
      BY <1>0, <2>1 DEF Do, Transactions, Decided
  <2> QED
    BY <1>f, <1>4, <2>1 DEF CreateTemp
<1>5. ASSUME ReadDisplaced PROVE Decided'
  <2>1. CASE Do([tx EXCEPT !.pc = "installed", !.displaced = Snapshot(tx.name)])
    <3> HIDE DEF Snapshot
    <3> QED
      BY <1>0, <2>1 DEF Do, Transactions, Decided
  <2> QED
    BY <1>f, <1>5, <2>1 DEF ReadDisplaced
<1>6. ASSUME CheckInstalled \/ Commit \/ UndoCommit \/ Settle PROVE Decided'
  BY <1>b, <1>d, <1>e, <1>f, <1>6 DEF CheckInstalled, Commit, UndoCommit, Settle, PCs
<1>7. ASSUME CheckDisplaced \/ Conclude PROVE Decided'
  BY <1>c, <1>f, <1>7 DEF CheckDisplaced, Conclude
<1>8. ASSUME CheckRemoval \/ Unlink PROVE Decided'
  <2>1. CASE \E p \in {"unlink", "cleanup"} : Goto(p)
    BY <1>0, <1>8, <2>1 DEF CheckRemoval, Unlink, Goto, Do, Transactions, Decided
  <2> QED
    BY <1>g, <1>8, <2>1 DEF CheckRemoval, Unlink
<1>9. ASSUME SyncCleanup PROVE Decided'
  BY <1>b, <1>f, <1>g, <1>9 DEF SyncCleanup, RemovalDone, PCs
<1>10. ASSUME RollbackReadInstalled \/ RollbackReadRestored PROVE Decided'
  <2>1. CASE \E p \in {"rollback_read", "removed"} : Do([tx EXCEPT !.pc = p, !.seen = Snapshot(Canonical)])
    <3> HIDE DEF Snapshot
    <3> QED
      BY <1>0, <1>10, <2>1 DEF RollbackReadInstalled, RollbackReadRestored, Do, Transactions, Decided
  <2> QED
    BY <1>f, <1>10, <2>1 DEF RollbackReadInstalled, RollbackReadRestored, RollbackFault
<1>11. ASSUME RollbackCheck \/ RollbackExchange \/ RollbackAgain \/ RollbackAgainInstalled PROVE Decided'
  <2>1. CASE \E p \in Rolling : Goto(p)
    BY <1>0, <1>11, <2>1 DEF RollbackCheck, RollbackExchange, RollbackAgain, RollbackAgainInstalled,
       Goto, Do, Transactions, Decided
  <2> QED
    BY <1>d, <1>f, <1>11, <2>1 DEF RollbackCheck, RollbackExchange, RollbackAgain,
       RollbackAgainInstalled, RollbackFault
<1>12. ASSUME RollbackReadRemoved PROVE Decided'
  <2>1. CASE \/ Do([tx EXCEPT !.pc = "again", !.seen = Snapshot(tx.name)])
             \/ Do([tx EXCEPT !.pc = "rollback_sync", !.drop = Snapshot(tx.name), !.result = "conflict"])
             \/ Do([tx EXCEPT !.pc = "rollback_sync", !.drop = Snapshot(tx.name)])
    <3> HIDE DEF Snapshot
    <3> QED
      BY <1>0, <1>12, <2>1 DEF RollbackReadRemoved, Do, Transactions, Decided
  <2> QED
    BY <1>f, <1>12, <2>1 DEF RollbackReadRemoved, RollbackDecision, RollbackFault
<1>13. ASSUME RollbackAgainDisplaced PROVE Decided'
  BY <1>d, <1>f, <1>13 DEF RollbackAgainDisplaced, RollbackFault
<1>14. ASSUME RollbackSync PROVE Decided'
  <2>1. CASE Goto("remove") \/ Do([tx EXCEPT !.pc = "remove", !.result = "failed"])
    BY <1>0, <1>14, <2>1 DEF RollbackSync, Goto, Do, Transactions, Decided
  <2> QED
    BY <1>f, <1>14, <2>1 DEF RollbackSync
<1>15. ASSUME Kill \/ PowerLoss PROVE Decided'
  BY <1>a, <1>15 DEF Kill, PowerLoss, Dies
<1> QED
  BY <1>1, <1>2, <1>3, <1>4, <1>5, <1>6, <1>7, <1>8, <1>9, <1>10, <1>11, <1>12, <1>13, <1>14, <1>15
  DEF Next, Save

LEMMA CommittedStep ==
    ASSUME Types, Holds, Decided, Committed, Next
    PROVE  Committed'
<1> USE ConfigStoreAssumption
<1>0. /\ tx \in Transactions /\ dir \in dirs /\ dirs \subseteq Directories /\ Canonical \in Names
      /\ tx.name \in Names /\ tx.pc # "idle" => tx.name # Canonical
      /\ FreeInodes # {} => NewInode # tx.ino
  <2>1. FreeInodes # {} => NewInode # tx.ino
    BY NewInodeIsFree DEF FreeInodes
  <2> QED
    BY <2>1 DEF Types, Transactions, Holds, Canonical, Names
<1>a. ASSUME tx'.pc \notin {"committed", "settle", "final", "remove", "unlink", "cleanup"}
      PROVE  Committed'
  BY <1>a DEF Committed, Settled
<1>b. ASSUME SyncDirectory PROVE Committed'
  BY <1>b DEF SyncDirectory, Committed
<1>c. ASSUME Settled, tx'.ino = tx.ino, dirs' = dirs, dir' = dir PROVE Committed'
  BY <1>c DEF Committed
<1>d. ASSUME tx' = Idle PROVE Committed'
  BY <1>a, <1>d DEF Idle
<1>e. ASSUME NEW o, End(o) PROVE Committed'
  BY <1>d, <1>e DEF End
<1>f. ASSUME NEW p, Goto(p) PROVE tx'.pc = p /\ tx'.ino = tx.ino /\ tx'.result = tx.result
  BY <1>0, <1>f DEF Goto, Do, Transactions
<1>g. ASSUME NEW s, NEW r, Remove(s, r)
      PROVE  tx'.pc = "remove" /\ tx'.ino = tx.ino /\ tx'.result = r
  BY <1>0, <1>g DEF Remove, Do, Transactions
<1>h. ASSUME NEW r \in {"conflict", "failed"}, FinishCandidate(r) \/ AbandonExchange(r) PROVE Committed'
  <2>1. tx'.pc = "remove" /\ tx'.result # "saved"
    BY <1>g, <1>h DEF FinishCandidate, AbandonExchange
  <2> QED
    BY <2>1 DEF Committed, Settled
<1>i. ASSUME NEW r, Rollback(r) PROVE Committed'
  <2>1. tx'.pc = "rollback"
    BY <1>0, <1>i DEF Rollback, Do, Transactions
  <2> QED
    BY <1>a, <2>1
<1>j. ASSUME RemovalFailed, tx.pc \in {"remove", "unlink", "cleanup"}, dirs' = dirs, dir' = dir
      PROVE  Committed'
  <2>1. CASE tx.result = "saved" /\ Do([tx EXCEPT !.pc = "final", !.result = "degraded"])
    <3>1. tx'.ino = tx.ino /\ Settled
      BY <1>0, <1>j, <2>1 DEF Do, Transactions, Settled
    <3> QED
      BY <1>c, <1>j, <3>1
  <2> QED
    BY <1>e, <1>j, <2>1 DEF RemovalFailed
<1>1. CASE OutsideRename
  <2>1. tx' = tx /\ dir'[Canonical] # tx.ino
    BY <1>0, <1>1 DEF OutsideRename, Link, Directories
  <2> QED
    BY <2>1 DEF Committed
<1>2. CASE OutsideTruncate \/ OutsideFinish
  BY <1>2 DEF OutsideTruncate, OutsideFinish, Committed, Settled
<1>3. ASSUME NEW e \in Revisions, Begin(e) PROVE Committed'
  BY <1>a, <1>3 DEF Begin, Idle
<1>4. CASE Check \/ Recheck \/ SyncCandidate \/ ExchangeIn
  BY <1>a, <1>e, <1>f, <1>h, <1>4 DEF Check, Recheck, SyncCandidate, ExchangeIn
<1>5. CASE CreateTemp
  <2>1. CASE Do([tx EXCEPT !.pc = "sync", !.ino = NewInode])
    <3> HIDE DEF NewInode
    <3>1. tx'.pc = "sync"
      BY <1>0, <2>1 DEF Do, Transactions
    <3> QED
      BY <1>a, <3>1
  <2> QED
    BY <1>e, <1>5, <2>1 DEF CreateTemp
<1>6. CASE ReadDisplaced
  <2>1. CASE Do([tx EXCEPT !.pc = "installed", !.displaced = Snapshot(tx.name)])
    <3> HIDE DEF Snapshot
    <3>1. tx'.pc = "installed"
      BY <1>0, <2>1 DEF Do, Transactions
    <3> QED
      BY <1>a, <3>1
  <2> QED
    BY <1>e, <1>6, <2>1 DEF ReadDisplaced
<1>7. CASE CheckInstalled \/ UndoCommit
  BY <1>a, <1>e, <1>f, <1>h, <1>i, <1>7 DEF CheckInstalled, UndoCommit
<1>8. CASE Commit
  BY <1>a, <1>b, <1>f, <1>8 DEF Commit
<1>9. CASE Settle \/ CheckDisplaced \/ Conclude
  <2>1. Settled /\ dir' = dir /\ dirs' = dirs
    BY <1>9 DEF Settle, CheckDisplaced, Conclude, Settled, Disk
  <2> QED
    BY <1>c, <1>e, <1>f, <1>g, <1>h, <1>9, <2>1 DEF Settle, CheckDisplaced, Conclude
<1>10. CASE CheckRemoval
  <2>1. dir' = dir /\ dirs' = dirs /\ tx.pc = "remove"
    BY <1>10 DEF CheckRemoval, Disk
  <2>2. CASE Goto("unlink")
    <3>1. tx'.pc = "unlink" /\ tx'.ino = tx.ino /\ tx'.result = tx.result
      BY <1>f, <2>2
    <3> QED
      BY <2>1, <3>1 DEF Committed, Settled
  <2> QED
    BY <1>j, <1>10, <2>1, <2>2 DEF CheckRemoval
<1>11. CASE Unlink
  <2>1. CASE Link(tx.name, Unlinked) /\ Goto("cleanup")
    <3>1. tx'.pc = "cleanup" /\ tx'.ino = tx.ino /\ tx'.result = tx.result
      BY <1>f, <2>1
    <3>2. /\ dir'[Canonical] = dir[Canonical]
          /\ \A e \in dirs' : e \in dirs \/ e[Canonical] = dir[Canonical]
      BY <1>0, <1>11, <2>1 DEF Unlink, Link, Directories
    <3> QED
      BY <1>11, <3>1, <3>2 DEF Unlink, Committed, Settled
  <2> QED
    BY <1>j, <1>11, <2>1 DEF Unlink
<1>12. CASE SyncCleanup
  BY <1>b, <1>j, <1>12 DEF SyncCleanup
<1>13. CASE RollbackReadInstalled \/ RollbackReadRestored
  <2>1. CASE \E p \in {"rollback_read", "removed"} : Do([tx EXCEPT !.pc = p, !.seen = Snapshot(Canonical)])
    <3> HIDE DEF Snapshot
    <3>1. tx'.pc \in {"rollback_read", "removed"}
      BY <1>0, <2>1 DEF Do, Transactions
    <3> QED
      BY <1>a, <3>1
  <2> QED
    BY <1>e, <1>13, <2>1 DEF RollbackReadInstalled, RollbackReadRestored, RollbackFault
<1>14. CASE RollbackCheck \/ RollbackExchange \/ RollbackAgain \/ RollbackAgainInstalled
  BY <1>a, <1>e, <1>f, <1>h, <1>14
  DEF RollbackCheck, RollbackExchange, RollbackAgain, RollbackAgainInstalled, RollbackFault
<1>15. CASE RollbackReadRemoved
  <2>1. CASE \/ Do([tx EXCEPT !.pc = "again", !.seen = Snapshot(tx.name)])
             \/ Do([tx EXCEPT !.pc = "rollback_sync", !.drop = Snapshot(tx.name), !.result = "conflict"])
             \/ Do([tx EXCEPT !.pc = "rollback_sync", !.drop = Snapshot(tx.name)])
    <3> HIDE DEF Snapshot
    <3>1. tx'.pc \in {"again", "rollback_sync"}
      BY <1>0, <2>1 DEF Do, Transactions
    <3> QED
      BY <1>a, <3>1
  <2> QED
    BY <1>e, <1>15, <2>1 DEF RollbackReadRemoved, RollbackDecision, RollbackFault
<1>16. CASE RollbackAgainDisplaced
  BY <1>e, <1>h, <1>16 DEF RollbackAgainDisplaced, RollbackFault
<1>17. CASE RollbackSync
  <2>1. CASE Do([tx EXCEPT !.pc = "remove", !.result = "failed"])
    <3>1. tx'.pc = "remove" /\ tx'.result = "failed"
      BY <1>0, <2>1 DEF Do, Transactions
    <3> QED
      BY <3>1 DEF Committed, Settled
  <2> QED
    BY <1>b, <1>e, <1>17, <2>1 DEF RollbackSync
<1>18. CASE Kill \/ PowerLoss
  BY <1>d, <1>18 DEF Kill, PowerLoss, Dies
<1> QED
  BY <1>1, <1>2, <1>3, <1>4, <1>5, <1>6, <1>7, <1>8, <1>9, <1>10, <1>11, <1>12, <1>13, <1>14, <1>15,
     <1>16, <1>17, <1>18 DEF Next, Save

\* A save ends as saved, or as degraded, only in Conclude, and with a conflict only in its
\* check, after a removal, or in Conclude.
SavedWhere ==
    /\ saves'[tx.name] \in {"saved", "degraded"} => Conclude /\ IsCandidate(Snapshot(Canonical))
    /\ saves'[tx.name] \in {"conflict", "conflict_degraded"} =>
            \/ Check
            \/ SyncCleanup /\ tx.result # "saved"
            \/ Conclude /\ ~IsCandidate(Snapshot(Canonical))

LEMMA HowSavesEnd ==
    ASSUME Types, Holds, Gone, Decided, Next, tx.pc # "idle", tx'.pc = "idle"
    PROVE  SavedWhere
<1> USE ConfigStoreAssumption
<1>0. /\ tx \in Transactions /\ saves \in [1..MaxSaves -> Outcomes] /\ tx.name \in 1..MaxSaves
      /\ dir \in dirs
  BY DEF Types, Holds
<1>a. ASSUME NEW o \in {"refused", "failed", "killed"}, saves' = [saves EXCEPT ![tx.name] = o]
      PROVE  SavedWhere
  BY <1>0, <1>a DEF SavedWhere
<1>e. ASSUME NEW o \in {"refused", "failed"}, End(o) PROVE SavedWhere
  BY <1>a, <1>e DEF End
<1>b. ASSUME NEW p \in PCs \ {"idle"}, Continues(p) PROVE FALSE
  BY <1>b DEF Continues
<1>c. ASSUME RemovalFailed PROVE SavedWhere
  <2>1. RemovalFailed => (tx.result = "saved" => Do([tx EXCEPT !.pc = "final", !.result = "degraded"]))
    BY DEF RemovalFailed
  <2>2. tx.result # "saved"
    BY <1>0, <1>c, <2>1 DEF Do, Transactions
  <2> QED
    BY <1>e, <1>c, <2>2 DEF RemovalFailed
<1>d. /\ Snapshot(Canonical) \in FileSnapshot /\ tx.displaced \in FileSnapshot
      /\ Snapshot(tx.name) \in FileSnapshot
  BY SnapshotType DEF Types, Transactions, Canonical, Names
<1>1. CASE OutsideRename \/ OutsideTruncate \/ OutsideFinish
  BY <1>1 DEF OutsideRename, OutsideTruncate, OutsideFinish
<1>2. CASE \E e \in Revisions : Begin(e)
  BY <1>2 DEF Begin
<1>3. CASE Conclude
  <2>1. CASE IsCandidate(Snapshot(Canonical)) /\ End(tx.result)
    <3>1. tx.result \in {"saved", "degraded"}
      BY <1>3 DEF Conclude, Gone
    <3>2. saves'[tx.name] = tx.result
      BY <1>0, <2>1 DEF End
    <3> QED
      BY <1>3, <2>1, <3>1, <3>2 DEF SavedWhere
  <2>2. CASE ~IsCandidate(Snapshot(Canonical))
    <3>1. \E o : End(o) /\ o \notin {"saved", "degraded"}
      BY <1>3, <2>2 DEF Conclude
    <3>2. saves'[tx.name] \notin {"saved", "degraded"}
      BY <1>0, <3>1 DEF End
    <3> QED
      BY <1>3, <2>2, <3>2 DEF SavedWhere
  <2>3. CASE End("failed")
    BY <1>e, <2>3
  <2> QED
    BY <1>3, <2>1, <2>2, <2>3 DEF Conclude
<1>4. CASE Check \/ CreateTemp
  <2>1. CASE Check
    <3>1. ASSUME End("conflict") PROVE SavedWhere
      BY <1>0, <2>1, <3>1 DEF End, SavedWhere
    <3> QED
      BY <1>0, <1>b, <1>e, <2>1, <3>1, GoesOn DEF Check, PCs
  <2>2. CASE CreateTemp
    <3>1. FreeInodes # {} => NewInode \in Inodes
      BY NewInodeIsFree DEF FreeInodes
    <3> QED
      BY <1>0, <1>b, <1>e, <2>2, <3>1, GoesOn DEF CreateTemp, PCs
  <2> QED
    BY <1>4, <2>1, <2>2
<1>5. CASE SyncCandidate \/ Recheck \/ ExchangeIn \/ ReadDisplaced
  BY <1>0, <1>5, <1>e, <1>b, <1>d, GoesOn, PartsGoOn
  DEF SyncCandidate, Recheck, ExchangeIn, ReadDisplaced, PCs, Results
<1>6. CASE CheckInstalled \/ Commit \/ UndoCommit \/ Settle
  BY <1>0, <1>6, <1>e, <1>b, GoesOn, PartsGoOn DEF CheckInstalled, Commit, UndoCommit, Settle, PCs, Results
<1>7. CASE CheckDisplaced
  BY <1>7, <1>e, <1>b, <1>d, PartsGoOn DEF CheckDisplaced, PCs, Results
<1>8. CASE CheckRemoval \/ Unlink
  BY <1>0, <1>8, <1>b, <1>c, GoesOn DEF CheckRemoval, Unlink, PCs
<1>9. CASE SyncCleanup
  <2>1. ASSUME tx.result # "saved", End(tx.result) PROVE SavedWhere
    <3>1. saves'[tx.name] = tx.result
      BY <1>0, <2>1 DEF End
    <3>2. tx.result # "degraded"
      BY <1>9 DEF SyncCleanup, Decided
    <3> QED
      BY <1>9, <2>1, <3>1, <3>2 DEF SavedWhere
  <2> QED
    BY <1>0, <1>9, <1>b, <1>c, <2>1, GoesOn DEF SyncCleanup, RemovalDone, PCs
<1>10. CASE RollbackReadInstalled \/ RollbackReadRestored \/ RollbackCheck \/ RollbackExchange
  BY <1>0, <1>e, <1>b, <1>d, <1>10, GoesOn, PartsGoOn
  DEF RollbackReadInstalled, RollbackReadRestored, RollbackCheck, RollbackExchange, PCs,
      RollbackFault, Results
<1>11. CASE RollbackReadRemoved
  BY <1>0, <1>e, <1>b, <1>d, <1>11, GoesOn
  DEF RollbackReadRemoved, RollbackDecision, PCs, RollbackFault, Results
<1>12. CASE RollbackAgain \/ RollbackAgainInstalled \/ RollbackAgainDisplaced \/ RollbackSync
  BY <1>0, <1>e, <1>b, <1>12, GoesOn, PartsGoOn
  DEF RollbackAgain, RollbackAgainInstalled, RollbackAgainDisplaced, RollbackSync, PCs, RollbackFault,
      Results
<1>13. CASE Kill \/ PowerLoss
  BY <1>13, <1>a DEF Kill, PowerLoss, Dies
<1> QED
  BY <1>1, <1>2, <1>3, <1>4, <1>5, <1>6, <1>7, <1>8, <1>9, <1>10, <1>11, <1>12, <1>13 DEF Next, Save

LEMMA DurableStep ==
    ASSUME Types, Holds, Gone, Decided, Committed, Next, tx.pc # "idle", tx'.pc = "idle"
    PROVE  SavedIsDurable
<1> USE ConfigStoreAssumption
<1> SUFFICES ASSUME saves'[tx.name] \in {"saved", "degraded"}
             PROVE  \A d \in dirs : d[Canonical] = tx.ino /\ file[tx.ino] = tx.draft
  BY DEF SavedIsDurable
<1>1. Conclude /\ IsCandidate(Snapshot(Canonical))
  BY HowSavesEnd DEF SavedWhere
<1>2. tx.ino \in Inodes /\ Settled
  BY <1>1 DEF Conclude, Holds, Settled
<1>3. Snapshot(Canonical).ino = tx.ino /\ Snapshot(Canonical).bytes = tx.draft
  BY <1>1 DEF IsCandidate
<1>4. dir[Canonical] = tx.ino /\ file[tx.ino] = tx.draft
  BY <1>2, <1>3 DEF Snapshot, Unlinked, Inodes
<1> QED
  BY <1>2, <1>4 DEF Committed

-----------------------------------------------------------------------------
(* The last write.  The view is what a reader finds under each name.                        *)

View == [n \in Names |-> Snapshot(n)]

Candidate == [ino |-> tx.ino, bytes |-> tx.draft]

\* The name holds the last acknowledged write.
Home(n) == View[n].bytes = owed

Installed == View[Canonical] = Candidate

Away == View[tx.name] = Candidate

\* The bytes are the last acknowledged write.
Owes(b) == owed = b /\ owed # Partial

\* Bytes that are compared with are whole.
Proper == tx.pc # "idle" => tx.draft # Partial /\ tx.expected # Partial

\* No save gets past its check while nothing is acknowledged and nobody writes.
Unowed == owed = Partial /\ ~Writing => tx.pc \in {"idle", "check"} /\ View[Canonical].bytes = Partial

\* The draft is acknowledged when the save replaces what it expected, not before.
NotYet == tx.pc \notin {"idle", "cleanup", "final"} => owed # tx.draft

\* A file that is being written in place is not whole.
Blank ==
    writer.ino # Unlinked => /\ file[writer.ino] = Partial
                             /\ writer.superseded => owed # Partial

\* No two files hold the same revision, and none the draft before it is written.
Unique == \A i, j \in Inodes : file[i] = file[j] => i = j \/ file[i] = Partial

Unwritten == tx.pc \in {"check", "create"} => \A i \in Inodes : file[i] # tx.draft

\* What a save has made sure of.
Assured ==
    /\ tx.pc \in {"sync", "recheck", "exchange"} => Away
    /\ tx.pc \in {"commit", "uncommitted", "committed", "settle"} => tx.displaced.bytes = tx.expected
    /\ tx.pc \in {"remove", "unlink"} => tx.drop.bytes \in {tx.draft, tx.displaced.bytes}
    /\ tx.pc \in {"remove", "unlink", "cleanup"} => tx.result \in {"saved", "conflict", "failed"}
    /\ tx.pc = "rollback_sync" => tx.drop.bytes = tx.draft

\* A displaced file that holds the last acknowledged write is removed only when the
\* canonical file holds it too, or has replaced it.
Removable ==
    /\ tx.pc = "displaced" =>
            Installed \/ (~Owes(View[tx.name].bytes) /\ ~(Writing /\ View[tx.name].ino = writer.ino))
    /\ /\ tx.pc \in {"installed", "commit", "uncommitted", "committed", "settle", "rollback",
                     "rollback_read", "rollback_exchange"}
       /\ Owes(tx.displaced.bytes)
       => Installed \/ Home(Canonical)
    /\ tx.pc = "rollback_read" /\ Owes(tx.displaced.bytes) => tx.seen = Candidate \/ Home(Canonical)
    /\ tx.pc \in {"restored", "removed"} /\ Owes(tx.displaced.bytes) => Away \/ Home(tx.name)
    /\ tx.pc = "again" /\ Owes(tx.displaced.bytes) => Home(tx.name)
    /\ tx.pc \in {"again_installed", "again_displaced"} /\ Owes(tx.displaced.bytes) => Home(Canonical)
    /\ tx.pc \in {"remove", "unlink"} /\ Owes(tx.drop.bytes) /\ ~BlindRemoval =>
            Home(Canonical) \/ (owed = tx.expected /\ Installed)

\* No save died or failed, and the last write is in the directory.
Traced == CleanSoFar /\ Held

\* Where the last write is while it can be traced.
Located ==
    /\ Traced /\ tx.pc \in {"idle", "check", "create", "sync", "recheck", "exchange"} =>
            LastWriteAt(Canonical)
    /\ Traced /\ tx.pc \in {"displaced", "installed", "commit", "uncommitted", "committed", "settle",
                            "rollback", "rollback_read", "rollback_exchange"} =>
            LastWriteAt(Canonical) \/ (Installed /\ LastWriteAt(tx.name))
    /\ Traced /\ tx.pc \in {"restored", "removed", "again", "again_installed", "again_displaced",
                            "rollback_sync"} =>
            LastWriteAt(Canonical) \/ LastWriteAt(tx.name)
    /\ Traced /\ tx.pc \in {"remove", "unlink"} /\ tx.result = "conflict" =>
            LastWriteAt(Canonical) \/ LastWriteAt(tx.name)
    /\ Traced /\ tx.pc = "cleanup" /\ tx.result = "conflict" => LastWriteAt(Canonical)
    /\ /\ Traced
       /\ tx.pc = "final" \/ (tx.pc \in {"remove", "unlink", "cleanup"} /\ tx.result = "saved")
       => \/ LastWriteAt(Canonical)
          \/ Installed /\ ~Writing /\ owed \in {tx.expected, tx.draft}

Known == Types /\ Holds /\ CanonicalIsWhole /\ Gone /\ Revised /\ Distinct /\ Pending /\ Decided

Stage == Unwritten /\ Assured /\ Removable /\ Located

Kept == Proper /\ Unowed /\ NotYet /\ Blank /\ Unique /\ Stage

LEMMA ViewType ==
    ASSUME Types
    PROVE  View \in [Names -> FileSnapshot]
  BY SnapshotType DEF View

LEMMA ViewStays ==
    ASSUME dir' = dir, file' = file
    PROVE  View' = View
  BY DEF View, Snapshot

\* An exchange, a removal, and a file that comes under a name.
LEMMA ViewMoves ==
    ASSUME Types, NEW m \in Names
    PROVE  /\ Exchange /\ file' = file /\ tx.name = m /\ m # Canonical =>
                /\ View'[Canonical] = View[m] /\ View'[m] = View[Canonical]
                /\ \A n \in Names \ {Canonical, m} : View'[n] = View[n]
           /\ Link(m, Unlinked) /\ file' = file => \A n \in Names \ {m} : View'[n] = View[n]
           /\ \A c \in Contents :
                FreeInodes # {} /\ Link(m, NewInode) /\ file' = [file EXCEPT ![NewInode] = c] =>
                /\ View'[m] = [ino |-> NewInode, bytes |-> c]
                /\ \A n \in Names \ {m} : View'[n] = View[n]
<1> USE ConfigStoreAssumption
<1>0. /\ dir \in [Names -> Inodes \cup {Unlinked}] /\ file \in [Inodes -> Contents]
      /\ dir \in dirs /\ Canonical \in Names /\ Unlinked \notin Inodes
  BY DEF Types, Directories, Canonical, Names, Unlinked, Inodes
<1>1. ASSUME Exchange, file' = file, tx.name = m, m # Canonical
      PROVE  /\ View'[Canonical] = View[m] /\ View'[m] = View[Canonical]
             /\ \A n \in Names \ {Canonical, m} : View'[n] = View[n]
  <2>1. /\ dir'[Canonical] = dir[m] /\ dir'[m] = dir[Canonical]
        /\ \A n \in Names \ {Canonical, m} : dir'[n] = dir[n]
    BY <1>0, <1>1 DEF Exchange
  <2> QED
    BY <1>0, <1>1, <2>1 DEF View, Snapshot
<1>2. ASSUME Link(m, Unlinked), file' = file, NEW n \in Names \ {m} PROVE View'[n] = View[n]
  BY <1>0, <1>2 DEF Link, View, Snapshot
<1>3. ASSUME NEW c \in Contents, FreeInodes # {}, Link(m, NewInode),
             file' = [file EXCEPT ![NewInode] = c]
      PROVE  /\ View'[m] = [ino |-> NewInode, bytes |-> c]
             /\ \A n \in Names \ {m} : View'[n] = View[n]
  <2>1. NewInode \in Inodes /\ \A n \in Names : dir[n] # NewInode
    BY <1>0, <1>3, NewInodeIsFree DEF FreeInodes
  <2> HIDE DEF NewInode
  <2>2. /\ dir'[m] = NewInode /\ file'[NewInode] = c
        /\ \A n \in Names \ {m} : /\ dir'[n] = dir[n]
                                  /\ dir[n] # Unlinked => file'[dir[n]] = file[dir[n]]
    BY <1>0, <1>3, <2>1 DEF Link
  <2>3. View'[m] = [ino |-> NewInode, bytes |-> c]
    BY <1>0, <2>1, <2>2 DEF View, Snapshot
  <2>4. ASSUME NEW n \in Names \ {m} PROVE View'[n] = View[n]
    BY <2>2, <2>4 DEF View, Snapshot
  <2> QED
    BY <2>3, <2>4
<1> QED
  BY <1>1, <1>2, <1>3

\* A write through a descriptor.
LEMMA ViewWritten ==
    ASSUME Types, Distinct, dir' = dir, NEW i \in Inodes, NEW c \in Contents,
           file' = [file EXCEPT ![i] = c]
    PROVE  /\ \A n \in Names : dir[n] # i => View'[n] = View[n]
           /\ \A m \in Names : dir[m] = i => /\ View'[m] = [ino |-> i, bytes |-> c]
                                             /\ \A n \in Names \ {m} : View'[n] = View[n]
<1> USE ConfigStoreAssumption
<1>0. /\ dir \in [Names -> Inodes \cup {Unlinked}] /\ file \in [Inodes -> Contents]
      /\ dir \in dirs /\ Unlinked \notin Inodes
  BY DEF Types, Directories, Unlinked, Inodes
<1>1. ASSUME NEW n \in Names, dir[n] # i PROVE View'[n] = View[n]
  BY <1>0, <1>1 DEF View, Snapshot
<1>2. ASSUME NEW m \in Names, dir[m] = i PROVE View'[m] = [ino |-> i, bytes |-> c]
  BY <1>0, <1>2 DEF View, Snapshot
<1>3. ASSUME NEW m \in Names, dir[m] = i, NEW n \in Names \ {m} PROVE dir[n] # i
  BY <1>0, <1>3 DEF Distinct
<1> QED
  BY <1>1, <1>2, <1>3

\* The bytes under a name are a revision that is not the next one.
LEMMA ViewIsOld ==
    ASSUME Types, Revised
    PROVE  \A n \in Names : View[n].bytes \in Nat /\ View[n].bytes < NewRevision
<1> USE ConfigStoreAssumption
<1>1. ASSUME NEW n \in Names PROVE View[n].bytes \in Nat /\ View[n].bytes < NewRevision
  <2>1. dir[n] \in Inodes \cup {Unlinked} /\ NewRevision > 0 /\ Contents \subseteq Nat
    BY NewRevisionType DEF Types, Directories, Contents, Revisions, Partial
  <2> HIDE DEF NewRevision
  <2>2. CASE dir[n] = Unlinked
    BY <2>1, <2>2 DEF View, Snapshot, Partial
  <2>3. CASE dir[n] # Unlinked
    <3>1. dir[n] \in Inodes /\ file[dir[n]] \in Contents
      BY <2>1, <2>3 DEF Types
    <3> QED
      BY <2>1, <2>3, <3>1 DEF View, Snapshot, Revised
  <2> QED
    BY <2>2, <2>3
<1> QED
  BY <1>1


\* Where the last write is, read off the view.
LEMMA LastWriteSeen ==
    ASSUME NEW n \in Names
    PROVE  LastWriteAt(n) <=> (IF Writing THEN View[n].ino = writer.ino ELSE Home(n))
  BY DEF LastWriteAt, View, Snapshot, Home

\* A step that changes neither the view nor the writer nor what is owed.
LEMMA LastWriteStays ==
    ASSUME View' = View, owed' = owed, writer' = writer
    PROVE  /\ \A n \in Names : LastWriteAt(n)' <=> LastWriteAt(n)
           /\ Held' <=> Held
           /\ Writing' <=> Writing
<1>0. Names' = Names /\ (Writing' <=> Writing)
  BY DEF Writing, Names
<1>1. ASSUME NEW n \in Names PROVE LastWriteAt(n)' <=> LastWriteAt(n)
  <2>1. View[n] = Snapshot(n) /\ View'[n] = Snapshot(n)'
    BY DEF View
  <2>2. dir'[n] = dir[n] /\ Snapshot(n)'.bytes = Snapshot(n).bytes
    BY <2>1 DEF Snapshot
  <2> QED
    BY <1>0, <2>2 DEF LastWriteAt
<1> QED
  BY <1>0, <1>1 DEF Held

\* The bytes of a file that is being written are found under its name.
LEMMA BlankSeen ==
    ASSUME Known, Blank, writer.ino # Unlinked, NEW n \in Names, dir[n] = writer.ino
    PROVE  View[n] = [ino |-> writer.ino, bytes |-> Partial]
  BY DEF Blank, View, Snapshot

\* What is known of the bytes when the next revision is written.
LEMMA OldBytes ==
    ASSUME Known
    PROVE  /\ tx \in Transactions /\ tx.name \in Names /\ Canonical \in Names
           /\ tx.pc # "idle" => tx.name # Canonical
           /\ View \in [Names -> FileSnapshot]
           /\ \A n \in Names : View[n].bytes \in Nat /\ View[n].bytes < NewRevision
           /\ \A i \in Inodes : file[i] \in Nat /\ file[i] < NewRevision
           /\ NewRevision \in Nat /\ NewRevision > 0
           /\ owed \in Nat /\ owed < NewRevision /\ tx.draft \in Nat /\ tx.draft < NewRevision
           /\ tx.expected \in Nat /\ tx.expected < NewRevision
           /\ tx.displaced.bytes \in Nat /\ tx.displaced.bytes < NewRevision
           /\ dir \in [Names -> Inodes \cup {Unlinked}] /\ dir \in dirs /\ Unlinked \notin Inodes
           /\ file \in [Inodes -> Contents]
           /\ writer \in [ino : Inodes \cup {Unlinked}, superseded : BOOLEAN]
<1> USE ConfigStoreAssumption
<1>1. \A n \in Names : View[n].bytes \in Nat /\ View[n].bytes < NewRevision
  BY ViewIsOld DEF Known
<1>2. NewRevision \in Nat /\ NewRevision > 0
  BY NewRevisionType DEF Known, Types
<1>3. Contents \subseteq Nat
  BY DEF Contents, Revisions, Partial
<1>4. View \in [Names -> FileSnapshot]
  BY ViewType DEF Known
<1>5. /\ tx \in Transactions /\ tx.name \in Names /\ tx.displaced \in FileSnapshot
      /\ tx.draft \in Contents /\ tx.expected \in Contents /\ owed \in Contents
      /\ file \in [Inodes -> Contents]
      /\ writer \in [ino : Inodes \cup {Unlinked}, superseded : BOOLEAN]
  BY DEF Known, Types, Transactions
<1>6. tx.displaced.bytes \in Contents
  BY <1>5 DEF FileSnapshot
<1>7. Canonical \in Names /\ (tx.pc # "idle" => tx.name # Canonical)
  BY DEF Known, Holds, Canonical, Names
<1>8. dir \in [Names -> Inodes \cup {Unlinked}] /\ dir \in dirs /\ Unlinked \notin Inodes
  BY DEF Known, Types, Directories, Unlinked, Inodes
<1> HIDE DEF NewRevision
<1>9. \A i \in Inodes : file[i] \in Nat /\ file[i] < NewRevision
  BY <1>3, <1>5 DEF Known, Revised
<1> QED
  BY <1>1, <1>2, <1>3, <1>4, <1>5, <1>6, <1>7, <1>8, <1>9 DEF Known, Revised

\* A new revision in a file keeps the revisions apart.
LEMMA UniqueWritten ==
    ASSUME Known, Unique, Unwritten, NEW i \in Inodes, file' = [file EXCEPT ![i] = NewRevision], tx' = tx
    PROVE  Unique' /\ Unwritten'
<1> USE ConfigStoreAssumption
<1>0. /\ \A j \in Inodes : file[j] \in Nat /\ file[j] < NewRevision
      /\ NewRevision \in Nat /\ tx.draft \in Nat /\ tx.draft < NewRevision
      /\ file \in [Inodes -> Contents]
  BY OldBytes
<1> HIDE DEF NewRevision
<1>1. \A j \in Inodes : file'[j] = IF j = i THEN NewRevision ELSE file[j]
  BY <1>0
<1> QED
  BY <1>0, <1>1 DEF Unique, Unwritten

LEMMA KeptRename ==
    ASSUME Known, Kept, OutsideRename
    PROVE  Kept'
<1> USE ConfigStoreAssumption
<1>0. /\ tx \in Transactions /\ tx.name \in Names /\ Canonical \in Names
      /\ tx.pc # "idle" => tx.name # Canonical
      /\ \A n \in Names : View[n].bytes \in Nat /\ View[n].bytes < NewRevision
      /\ NewRevision \in Nat /\ NewRevision > 0
      /\ owed \in Nat /\ owed < NewRevision /\ tx.draft \in Nat /\ tx.draft < NewRevision
      /\ tx.expected \in Nat /\ tx.expected < NewRevision
      /\ tx.displaced.bytes \in Nat /\ tx.displaced.bytes < NewRevision
      /\ file \in [Inodes -> Contents]
      /\ writer \in [ino : Inodes \cup {Unlinked}, superseded : BOOLEAN]
  BY OldBytes
<1>i. FreeInodes # {} => NewInode # writer.ino /\ NewInode \in Inodes
  BY NewInodeIsFree DEF FreeInodes
<1> HIDE DEF NewRevision, NewInode
<1>a. tx' = tx /\ CleanSoFar' = CleanSoFar
  BY DEF OutsideRename, CleanSoFar
<1>1. /\ FreeInodes # {} /\ Link(Canonical, NewInode) /\ owed' = NewRevision
      /\ file' = [file EXCEPT ![NewInode] = NewRevision] /\ writer' = Superseded
      /\ NewRevision \in Contents
  <2>1. left.writes > 0
    BY Spent DEF OutsideRename, Known, Types
  <2>2. NewRevision \in Revisions
    BY <2>1, NewRevisionType DEF Known, Types
  <2> QED
    BY <2>2 DEF OutsideRename, Contents
<1>2. /\ View'[Canonical] = [ino |-> NewInode, bytes |-> NewRevision]
      /\ \A n \in Names \ {Canonical} : View'[n] = View[n]
  BY <1>0, <1>1, ViewMoves DEF Known
<1>3. /\ Home(Canonical)' /\ owed' # tx.expected /\ owed' # tx.draft /\ owed' # Partial
      /\ owed' # tx.displaced.bytes
  BY <1>0, <1>1, <1>2 DEF Home, Partial
<1>4. writer'.ino = writer.ino /\ (writer.ino # Unlinked => writer'.superseded)
  BY <1>0, <1>1 DEF Superseded
<1>5. ~Writing'
  BY <1>4 DEF Writing
<1>6. LastWriteAt(Canonical)'
  <2>1. View'[Canonical] = Snapshot(Canonical)'
    BY <1>0 DEF View
  <2> QED
    BY <1>3, <1>5, <2>1 DEF LastWriteAt, Home
<1>7. Proper' /\ Unowed' /\ NotYet'
  BY <1>a, <1>3 DEF Kept, Proper, Unowed, NotYet
<1>8. Blank'
  BY <1>0, <1>1, <1>3, <1>4, <1>i DEF Kept, Blank
<1>9. Unique' /\ Unwritten'
  BY <1>1, <1>a, <1>i, UniqueWritten DEF Kept, Stage
<1>10. tx.pc # "idle" => View'[tx.name] = View[tx.name]
  BY <1>0, <1>2
<1>11. Assured'
  BY <1>a, <1>10 DEF Kept, Stage, Assured, Away, Candidate
<1>12. Removable'
  <2>1. tx.pc # "idle" => ~Owes(View[tx.name].bytes)' /\ ~Owes(tx.displaced.bytes)'
    BY <1>0, <1>1, <1>a, <1>3, <1>10 DEF Owes
  <2> QED
    BY <1>a, <1>3, <1>5, <2>1 DEF Removable
<1>13. Located'
  BY <1>6 DEF Located
<1> QED
  BY <1>7, <1>8, <1>9, <1>11, <1>12, <1>13 DEF Kept, Stage

LEMMA KeptTruncate ==
    ASSUME Known, Kept, OutsideTruncate
    PROVE  Kept'
<1> USE ConfigStoreAssumption
<1>0. /\ tx \in Transactions /\ tx.name \in Names /\ Canonical \in Names
      /\ tx.pc # "idle" => tx.name # Canonical
      /\ dir \in [Names -> Inodes \cup {Unlinked}] /\ dir \in dirs /\ Unlinked \notin Inodes
      /\ file \in [Inodes -> Contents]
      /\ tx.draft \in Nat
  BY OldBytes
<1>a. tx' = tx /\ CleanSoFar' = CleanSoFar
  BY DEF OutsideTruncate, CleanSoFar
<1>1. /\ dir' = dir /\ file' = [file EXCEPT ![dir[Canonical]] = Partial]
      /\ owed' = Partial /\ writer' = [ino |-> dir[Canonical], superseded |-> FALSE]
  BY DEF OutsideTruncate
<1>2. dir[Canonical] \in Inodes /\ Partial \in Contents
  BY <1>0 DEF Known, CanonicalIsWhole, Types, Contents
<1>3. /\ View'[Canonical] = [ino |-> dir[Canonical], bytes |-> Partial]
      /\ \A n \in Names \ {Canonical} : View'[n] = View[n]
  BY <1>0, <1>1, <1>2, ViewWritten DEF Known
<1>4. Writing' /\ writer'.ino = dir[Canonical] /\ ~writer'.superseded
  BY <1>0, <1>1, <1>2 DEF Writing
<1>5. LastWriteAt(Canonical)'
  BY <1>1, <1>4 DEF LastWriteAt
<1>6. \A b : ~Owes(b)'
  BY <1>1 DEF Owes
<1>7. Proper' /\ Unowed' /\ NotYet'
  BY <1>a, <1>1, <1>4 DEF Kept, Proper, Unowed, NotYet
<1>8. Blank'
  BY <1>0, <1>1, <1>2, <1>4 DEF Blank
<1>9. Unique' /\ Unwritten'
  <2>1. \A j \in Inodes : file'[j] = IF j = dir[Canonical] THEN Partial ELSE file[j]
    BY <1>0, <1>1
  <2>2. tx.pc # "idle" => tx.draft # Partial
    BY DEF Kept, Proper
  <2> QED
    BY <1>a, <2>1, <2>2 DEF Kept, Stage, Unique, Unwritten
<1>10. tx.pc # "idle" => View'[tx.name] = View[tx.name]
  BY <1>0, <1>3
<1>11. Assured'
  BY <1>a, <1>10 DEF Kept, Stage, Assured, Away, Candidate
<1>12. Removable'
  <2>1. tx.pc # "idle" => View'[tx.name].ino # writer'.ino
    <3>1. tx.pc # "idle" => View'[tx.name].ino = dir[tx.name]
      BY <1>0, <1>10 DEF View, Snapshot
    <3> QED
      BY <1>0, <1>2, <1>4, <3>1 DEF Known, Distinct
  <2>2. tx.pc # "idle" => ~Owes(View[tx.name].bytes)' /\ ~Owes(tx.displaced.bytes)' /\ ~Owes(tx.drop.bytes)'
    BY <1>6
  <2> QED
    BY <1>a, <2>1, <2>2 DEF Removable
<1>13. Located'
  BY <1>5 DEF Located
<1> QED
  BY <1>7, <1>8, <1>9, <1>11, <1>12, <1>13 DEF Kept, Stage

LEMMA KeptFinish ==
    ASSUME Known, Kept, OutsideFinish
    PROVE  Kept'
<1> USE ConfigStoreAssumption
<1>0. /\ tx \in Transactions /\ tx.name \in Names /\ Canonical \in Names
      /\ \A n \in Names : View[n].bytes \in Nat /\ View[n].bytes < NewRevision
      /\ NewRevision \in Nat /\ NewRevision > 0
      /\ owed \in Nat /\ owed < NewRevision /\ tx.draft \in Nat /\ tx.draft < NewRevision
      /\ tx.expected \in Nat /\ tx.expected < NewRevision
      /\ tx.displaced.bytes \in Nat /\ tx.displaced.bytes < NewRevision
      /\ dir \in [Names -> Inodes \cup {Unlinked}]
  BY OldBytes
<1> HIDE DEF NewRevision
<1>a. tx' = tx /\ CleanSoFar' = CleanSoFar /\ Names' = Names
  BY DEF OutsideFinish, CleanSoFar, Names
<1>1. /\ writer.ino # Unlinked /\ dir' = dir /\ file' = [file EXCEPT ![writer.ino] = NewRevision]
      /\ writer' = NoWriter /\ owed' = (IF writer.superseded THEN owed ELSE NewRevision)
  BY DEF OutsideFinish
<1>2. writer.ino \in Inodes /\ NewRevision \in Contents
  <2>1. NewRevision \in Revisions
    BY <1>1, NewRevisionType DEF Known, Types
  <2> QED
    BY <1>1, <2>1 DEF Known, Types, Contents
<1>3. /\ \A n \in Names : dir[n] # writer.ino => View'[n] = View[n]
      /\ \A n \in Names : dir[n] = writer.ino => /\ View'[n] = [ino |-> writer.ino, bytes |-> NewRevision]
                                                 /\ View[n] = [ino |-> writer.ino, bytes |-> Partial]
  <2>1. \A n \in Names : dir[n] # writer.ino => View'[n] = View[n]
    BY <1>1, <1>2, ViewWritten DEF Known
  <2>2. ASSUME NEW n \in Names, dir[n] = writer.ino
        PROVE  View'[n] = [ino |-> writer.ino, bytes |-> NewRevision]
    BY <1>1, <1>2, <2>2, ViewWritten DEF Known
  <2>3. ASSUME NEW n \in Names, dir[n] = writer.ino
        PROVE  View[n] = [ino |-> writer.ino, bytes |-> Partial]
    BY <1>1, <2>3, BlankSeen DEF Kept
  <2> QED
    BY <2>1, <2>2, <2>3
<1>4. ~Writing' /\ writer'.ino = Unlinked
  BY <1>1 DEF Writing, NoWriter
<1>5. Unique' /\ Unwritten' /\ Blank'
  BY <1>1, <1>2, <1>4, <1>a, UniqueWritten DEF Kept, Stage, Blank
<1>6. tx.pc # "idle" => /\ Installed' <=> Installed
                        /\ Away' <=> Away
  <2>1. tx.pc # "idle" => tx.draft # Partial /\ tx.draft # NewRevision
    BY <1>0 DEF Kept, Proper
  <2>2. ASSUME NEW n \in Names, tx.pc # "idle" PROVE View'[n] = Candidate <=> View[n] = Candidate
    <3>1. CASE dir[n] # writer.ino
      BY <1>3, <3>1
    <3>2. CASE dir[n] = writer.ino
      <4>1. View'[n].bytes = NewRevision /\ View[n].bytes = Partial
        BY <1>3, <3>2
      <4> QED
        BY <2>1, <2>2, <4>1 DEF Candidate
    <3> QED
      BY <3>1, <3>2
  <2>3. Candidate' = Candidate
    BY <1>a DEF Candidate
  <2> QED
    BY <1>0, <1>a, <2>2, <2>3 DEF Installed, Away
<1>7. Proper' /\ Assured'
  BY <1>a, <1>6 DEF Kept, Stage, Proper, Assured
<1>8. CASE writer.superseded
  <2>1. owed' = owed /\ owed # Partial /\ ~Writing
    BY <1>1, <1>8 DEF Kept, Blank, Writing
  <2>2. ASSUME NEW n \in Names PROVE Home(n)' <=> Home(n)
    <3>1. CASE dir[n] # writer.ino
      BY <1>3, <2>1, <3>1 DEF Home
    <3>2. CASE dir[n] = writer.ino
      <4>1. View'[n].bytes = NewRevision /\ View[n].bytes = Partial
        BY <1>3, <3>2
      <4> QED
        BY <1>0, <2>1, <4>1 DEF Home
    <3> QED
      BY <3>1, <3>2
  <2>3. \A n \in Names : LastWriteAt(n)' <=> LastWriteAt(n)
    <3> SUFFICES ASSUME NEW n \in Names PROVE LastWriteAt(n)' <=> LastWriteAt(n)
      OBVIOUS
    <3>1. View[n] = Snapshot(n) /\ View'[n] = Snapshot(n)'
      BY DEF View
    <3> QED
      BY <1>4, <2>1, <2>2, <3>1 DEF LastWriteAt, Home
  <2>4. Traced' <=> Traced
    BY <1>a, <1>4, <2>1, <2>3 DEF Traced, Held
  <2>5. Unowed' /\ NotYet'
    BY <1>a, <2>1 DEF Kept, Unowed, NotYet
  <2>6. (Home(Canonical)' <=> Home(Canonical)) /\ (Home(tx.name)' <=> Home(tx.name))
    BY <1>0, <1>a, <2>2 DEF Home
  <2>7. (LastWriteAt(Canonical)' <=> LastWriteAt(Canonical)) /\ (LastWriteAt(tx.name)' <=> LastWriteAt(tx.name))
    BY <1>0, <1>a, <2>3 DEF LastWriteAt
  <2>8. Removable'
    <3>1. ASSUME tx.pc = "displaced", ~Installed
          PROVE  ~Owes(View[tx.name].bytes)'
      <4>1. ~Owes(View[tx.name].bytes)
        BY <3>1 DEF Kept, Stage, Removable
      <4>2. ~Home(tx.name)
        BY <2>1, <4>1 DEF Owes, Home
      <4> QED
        BY <1>0, <1>a, <2>1, <2>6, <4>2 DEF Owes, Home
    <3>2. Owes(tx.displaced.bytes)' = Owes(tx.displaced.bytes) /\ Owes(tx.drop.bytes)' = Owes(tx.drop.bytes)
      BY <1>a, <2>1 DEF Owes
    <3>3. Candidate' = Candidate /\ BlindRemoval' = BlindRemoval
      BY <1>a DEF Candidate, BlindRemoval
    <3> QED
      BY <1>a, <1>4, <1>6, <2>1, <2>6, <3>1, <3>2, <3>3 DEF Kept, Stage, Removable
  <2>9. Located'
    BY <1>a, <1>4, <1>6, <2>1, <2>4, <2>7 DEF Kept, Stage, Located
  <2> QED
    BY <1>5, <1>7, <2>5, <2>8, <2>9 DEF Kept, Stage
<1>9. CASE ~writer.superseded
  <2>1. owed' = NewRevision /\ owed' # Partial /\ Writing
    BY <1>0, <1>1, <1>9 DEF Writing, Partial
  <2>2. \A n \in Names : LastWriteAt(n)' <=> LastWriteAt(n)
    <3> SUFFICES ASSUME NEW n \in Names PROVE LastWriteAt(n)' <=> LastWriteAt(n)
      OBVIOUS
    <3>1. View'[n] = Snapshot(n)'
      BY DEF View
    <3>2. CASE dir[n] # writer.ino
      <4>1. View'[n].bytes # NewRevision
        BY <1>0, <1>3, <3>2
      <4> QED
        BY <1>4, <2>1, <3>1, <3>2, <4>1 DEF LastWriteAt
    <3>3. CASE dir[n] = writer.ino
      <4>1. View'[n].bytes = NewRevision
        BY <1>3, <3>3
      <4> QED
        BY <1>4, <2>1, <3>1, <3>3, <4>1 DEF LastWriteAt
    <3> QED
      BY <3>2, <3>3
  <2>3. Traced' <=> Traced
    BY <1>a, <2>1, <2>2 DEF Traced, Held
  <2>4. Unowed' /\ NotYet'
    BY <1>0, <1>a, <2>1 DEF Unowed, NotYet
  <2>5. (LastWriteAt(Canonical)' <=> LastWriteAt(Canonical)) /\ (LastWriteAt(tx.name)' <=> LastWriteAt(tx.name))
    BY <1>0, <1>a, <2>2 DEF LastWriteAt
  <2>6. Removable'
    <3>1. ASSUME tx.pc = "displaced", ~Installed
          PROVE  ~Owes(View[tx.name].bytes)'
      <4>1. dir[tx.name] # writer.ino
        BY <1>0, <1>3, <2>1, <3>1 DEF Kept, Stage, Removable
      <4> QED
        BY <1>0, <1>3, <1>a, <2>1, <4>1 DEF Owes
    <3>2. ~Owes(tx.displaced.bytes)' /\ (tx.pc \in {"remove", "unlink"} => ~Owes(tx.drop.bytes)')
      BY <1>0, <1>a, <2>1 DEF Owes, Kept, Stage, Assured
    <3> QED
      BY <1>a, <1>4, <1>6, <3>1, <3>2 DEF Removable
  <2>7. Located'
    BY <1>a, <1>4, <1>6, <2>1, <2>3, <2>5 DEF Kept, Stage, Located
  <2> QED
    BY <1>5, <1>7, <2>4, <2>6, <2>7 DEF Kept, Stage
<1> QED
  BY <1>8, <1>9

LEMMA KeptBegin ==
    ASSUME Known, Kept, NEW e \in Revisions, Begin(e)
    PROVE  Kept'
<1> USE ConfigStoreAssumption
<1>0. /\ tx.pc = "idle" /\ tx'.pc = "check" /\ tx'.draft = NewRevision /\ tx'.expected = e
      /\ View' = View /\ owed' = owed /\ writer' = writer /\ file' = file /\ CleanSoFar' = CleanSoFar
  BY ViewStays DEF Begin, Idle, CleanSoFar
<1>1. /\ NewRevision \in Nat /\ NewRevision > 0 /\ e > 0 /\ owed < NewRevision /\ owed \in Nat
      /\ \A i \in Inodes : file[i] \in Nat /\ file[i] < NewRevision
      /\ Canonical \in Names
  BY OldBytes DEF Revisions
<1> HIDE DEF NewRevision
<1>2. (LastWriteAt(Canonical)' <=> LastWriteAt(Canonical)) /\ (Held' <=> Held) /\ (Writing' <=> Writing)
  BY <1>0, <1>1, LastWriteStays
<1>3. Proper' /\ Unowed' /\ NotYet'
  BY <1>0, <1>1, <1>2 DEF Kept, Proper, Unowed, NotYet, Partial
<1>4. Blank' /\ Unique' /\ Unwritten'
  BY <1>0, <1>1 DEF Kept, Blank, Unique, Unwritten
<1>5. Assured' /\ Removable'
  BY <1>0 DEF Assured, Removable
<1>6. Located'
  BY <1>0, <1>2 DEF Kept, Stage, Located, Traced
<1> QED
  BY <1>3, <1>4, <1>5, <1>6 DEF Kept, Stage

LEMMA KeptCrash ==
    ASSUME Known, Kept, Kill \/ PowerLoss
    PROVE  Kept'
<1> USE ConfigStoreAssumption
<1>0. tx' = Idle /\ tx'.pc = "idle"
  BY DEF Kill, PowerLoss, Dies, Idle
<1>1. Proper' /\ NotYet' /\ Unwritten' /\ Assured' /\ Removable'
  BY <1>0 DEF Proper, NotYet, Unwritten, Assured, Removable
<1>2. CASE Kill
  <2>1. View' = View /\ owed' = owed /\ writer' = writer /\ file' = file
    BY <1>2, ViewStays DEF Kill, Disk, Keeps
  <2>2. tx.name \in 1..MaxSaves /\ saves'[tx.name] = "killed"
    BY <1>2 DEF Kill, Dies, Known, Holds, Types
  <2>3. ~CleanSoFar'
    BY <2>2 DEF CleanSoFar
  <2>4. Unowed' /\ Blank' /\ Unique'
    BY <1>0, <2>1 DEF Kept, Unowed, Writing, Blank, Unique
  <2> QED
    BY <1>1, <2>3, <2>4 DEF Kept, Stage, Located, Traced
<1>3. CASE PowerLoss
  <2>1. PICK d \in dirs : /\ dir' = d /\ owed' = file'[d[Canonical]] /\ writer' = NoWriter
                          /\ file' = [i \in Inodes |-> IF i \in synced THEN file[i] ELSE Partial]
    BY <1>3 DEF PowerLoss
  <2>2. Canonical \in Names /\ d[Canonical] # Unlinked
    BY DEF Known, CanonicalIsWhole, Canonical, Names
  <2>3. View'[Canonical].bytes = owed' /\ Snapshot(Canonical)'.bytes = owed'
    BY <2>1, <2>2 DEF View, Snapshot
  <2>4. ~Writing' /\ Blank'
    BY <2>1 DEF Writing, NoWriter, Blank
  <2>5. Unowed'
    BY <1>0, <2>3 DEF Unowed
  <2>6. Located'
    BY <1>0, <2>3, <2>4 DEF Located, LastWriteAt
  <2>7. Unique'
    BY <2>1 DEF Kept, Unique
  <2> QED
    BY <1>1, <2>4, <2>5, <2>6, <2>7 DEF Kept, Stage
<1> QED
  BY <1>2, <1>3

\* A save whose check finds nothing acknowledged ends there.
LEMMA CheckStops ==
    ASSUME Known, Proper, Save, tx.pc = "check", View[Canonical].bytes = Partial
    PROVE  tx' = Idle /\ dir' = dir /\ View' = View /\ owed' = owed
<1>1. Check
  BY DEF Save, Check, CreateTemp, SyncCandidate, Recheck, ExchangeIn, ReadDisplaced,
     CheckInstalled, Commit, UndoCommit, Settle, CheckDisplaced, Conclude, CheckRemoval,
     Unlink, SyncCleanup, RollbackReadInstalled, RollbackCheck, RollbackExchange,
     RollbackReadRestored, RollbackReadRemoved, RollbackAgain, RollbackAgainInstalled,
     RollbackAgainDisplaced, RollbackSync
<1>2. Snapshot(Canonical).bytes # tx.expected
  BY ConfigStoreAssumption DEF Proper, View, Canonical, Names
<1> QED
  BY <1>1, <1>2, ViewStays DEF Check, End, Disk, Keeps

\* Nothing is acknowledged by a save but its draft, when it is done with the removal.
LEMMA Acknowledges ==
    ASSUME Known, Save
    PROVE  /\ owed' = owed \/ Unlink \/ Conclude
           /\ tx.pc \in {"cleanup", "final"} \/ Unlink \/ Conclude => tx'.pc \in {"idle", "cleanup", "final"}
<1>0. tx \in Transactions
  BY DEF Known, Types
<1>1. owed' = owed \/ Unlink \/ Conclude
  BY DEF Save, Check, CreateTemp, SyncCandidate, Recheck, ExchangeIn, ReadDisplaced,
     CheckInstalled, Commit, UndoCommit, Settle, CheckDisplaced, CheckRemoval, SyncCleanup,
     RollbackReadInstalled, RollbackCheck, RollbackExchange, RollbackReadRestored,
     RollbackReadRemoved, RollbackAgain, RollbackAgainInstalled, RollbackAgainDisplaced,
     RollbackSync, Keeps
<1>2. tx.pc \in {"cleanup", "final"} => SyncCleanup \/ Conclude
  BY DEF Save, Check, CreateTemp, SyncCandidate, Recheck, ExchangeIn, ReadDisplaced,
     CheckInstalled, Commit, UndoCommit, Settle, CheckDisplaced, CheckRemoval, Unlink,
     RollbackReadInstalled, RollbackCheck, RollbackExchange, RollbackReadRestored,
     RollbackReadRemoved, RollbackAgain, RollbackAgainInstalled, RollbackAgainDisplaced,
     RollbackSync
<1>3. SyncCleanup \/ Unlink \/ Conclude => Ends \/ \E p \in {"cleanup", "final"} : Continues(p)
  <2>1. SyncCleanup \/ Unlink => Ends \/ \E p \in {"cleanup", "final"} : Continues(p)
    BY <1>0, GoesOn, PartsGoOn DEF Known, SyncCleanup, Unlink, PCs
  <2>2. tx.result \in Outcomes
    BY <1>0 DEF Transactions, Results, Outcomes
  <2>3. Conclude => Ends
    BY <2>2 DEF Conclude, Ends, Outcomes
  <2> QED
    BY <2>1, <2>3
<1> QED
  BY <1>1, <1>2, <1>3 DEF Ends, End, Continues, Idle


LEMMA BytesSave ==
    ASSUME Known, Kept, Save
    PROVE  Proper' /\ Unowed' /\ NotYet' /\ Blank' /\ Unique'
<1> USE ConfigStoreAssumption
<1>0. /\ tx.pc # "idle" /\ (Ends \/ \E p \in PCs \ {"idle"} : Continues(p))
      /\ owed' \in {owed, tx.draft} /\ tx.draft # Partial /\ writer' = writer
      /\ CreateTemp \/ file' = file
  BY SaveStep, SaveKeeps DEF Known, Kept, Proper
<1>1. Proper'
  BY <1>0 DEF Kept, Proper, Ends, End, Idle, Continues
<1>2. Unowed'
  <2> SUFFICES ASSUME owed' = Partial, ~Writing'
               PROVE  tx'.pc \in {"idle", "check"} /\ View'[Canonical].bytes = Partial
    BY DEF Unowed
  <2>1. tx.pc = "check" /\ View[Canonical].bytes = Partial
    BY <1>0 DEF Kept, Unowed, Writing
  <2> QED
    BY <2>1, CheckStops DEF Kept, Idle
<1>3. NotYet'
  <2>1. CASE tx'.pc \in {"idle", "cleanup", "final"}
    BY <2>1 DEF NotYet
  <2>2. CASE tx'.pc \notin {"idle", "cleanup", "final"}
    <3>1. owed' = owed /\ tx.pc \notin {"cleanup", "final"}
      BY <2>2, Acknowledges
    <3>2. tx'.draft = tx.draft
      BY <1>0, <2>2 DEF Ends, End, Idle, Continues
    <3> QED
      BY <1>0, <3>1, <3>2 DEF Kept, NotYet
  <2> QED
    BY <2>1, <2>2
<1>4. \/ file' = file
      \/ /\ FreeInodes # {} /\ tx.pc = "create"
         /\ \E c \in {tx.draft, Partial} : file' = [file EXCEPT ![NewInode] = c]
  BY <1>0 DEF CreateTemp, Disk
<1>5. FreeInodes # {} => NewInode # writer.ino
  BY NewInodeIsFree DEF FreeInodes
<1>6. file \in [Inodes -> Contents] /\ writer.ino \in Inodes \cup {Unlinked}
  BY DEF Known, Types
<1> HIDE DEF NewInode
<1>7. Blank'
  BY <1>0, <1>4, <1>5, <1>6 DEF Kept, Blank
<1>8. Unique'
  <2>1. CASE file' = file
    BY <2>1 DEF Kept, Unique
  <2>2. CASE tx.pc = "create" /\ \E c \in {tx.draft, Partial} : file' = [file EXCEPT ![NewInode] = c]
    <3>1. \A i \in Inodes : file[i] # tx.draft
      BY <2>2 DEF Kept, Stage, Unwritten
    <3>2. PICK c \in {tx.draft, Partial} : file' = [file EXCEPT ![NewInode] = c]
      BY <2>2
    <3>3. \A i \in Inodes : file'[i] = IF i = NewInode THEN c ELSE file[i]
      BY <1>6, <3>2
    <3> QED
      BY <3>1, <3>3 DEF Kept, Unique
  <2> QED
    BY <1>4, <2>1, <2>2
<1> QED
  BY <1>1, <1>2, <1>3, <1>7, <1>8

\* What an exchange, the creation of the temporary file and its removal do with the last
\* write.
LEMMA LastWriteExchanged ==
    ASSUME Known, tx.pc # "idle", Exchange, file' = file, owed' = owed, writer' = writer
    PROVE  /\ LastWriteAt(Canonical)' <=> LastWriteAt(tx.name)
           /\ \A n \in Names : n = tx.name => (LastWriteAt(n)' <=> LastWriteAt(Canonical))
           /\ Held' <=> Held
<1> USE ConfigStoreAssumption
<1>0. tx.name \in Names /\ Canonical \in Names /\ tx.name # Canonical /\ Names' = Names
  BY OldBytes DEF Names
<1>1. /\ View'[Canonical] = View[tx.name] /\ View'[tx.name] = View[Canonical]
      /\ \A n \in Names \ {Canonical, tx.name} : View'[n] = View[n]
  BY <1>0, ViewMoves DEF Known
<1>2. Writing' <=> Writing
  BY DEF Writing
<1>3. \A n \in Names : LastWriteAt(n)' <=> (IF Writing THEN View'[n].ino = writer.ino ELSE View'[n].bytes = owed)
  <2> SUFFICES ASSUME NEW n \in Names
               PROVE  LastWriteAt(n)' <=> (IF Writing THEN View'[n].ino = writer.ino ELSE View'[n].bytes = owed)
    OBVIOUS
  <2>1. View'[n] = Snapshot(n)'
    BY DEF View
  <2> QED
    BY <1>2, <2>1 DEF LastWriteAt, Snapshot
<1>4. \A n \in Names : LastWriteAt(n) <=> (IF Writing THEN View[n].ino = writer.ino ELSE View[n].bytes = owed)
  BY LastWriteSeen DEF Home
<1> QED
  BY <1>0, <1>1, <1>2, <1>3, <1>4 DEF Held

LEMMA LastWriteCreated ==
    ASSUME Known, Kept, CreateTemp
    PROVE  /\ LastWriteAt(Canonical)' <=> LastWriteAt(Canonical)
           /\ Held' <=> Held
<1> USE ConfigStoreAssumption
<1>0. /\ tx.name \in Names /\ Canonical \in Names /\ tx.name # Canonical /\ Names' = Names
      /\ tx.pc = "create" /\ owed' = owed /\ writer' = writer /\ tx.draft \in Contents
      /\ owed # tx.draft /\ Partial \in Contents
      /\ writer.ino \in Inodes \cup {Unlinked}
  BY OldBytes DEF CreateTemp, Keeps, Names, Kept, NotYet, Known, Types, Transactions, Contents
<1>1. CASE UNCHANGED Disk
  BY <1>0, <1>1, ViewStays, LastWriteStays DEF Disk
<1>2. CASE /\ FreeInodes # {} /\ Link(tx.name, NewInode)
           /\ \E c \in {tx.draft, Partial} : file' = [file EXCEPT ![NewInode] = c]
  <2>1. PICK c \in {tx.draft, Partial} : file' = [file EXCEPT ![NewInode] = c]
    BY <1>2
  <2>a. Types /\ c \in Contents
    BY <1>0 DEF Known
  <2>2. /\ View'[tx.name] = [ino |-> NewInode, bytes |-> c]
        /\ \A n \in Names \ {tx.name} : View'[n] = View[n]
    <3> HIDE DEF NewInode
    <3> QED
      BY <1>0, <1>2, <2>1, <2>a, ViewMoves
  <2>3. NewInode # writer.ino /\ NewInode \in Inodes
    BY <1>2, NewInodeIsFree DEF FreeInodes
  <2> HIDE DEF NewInode
  <2>4. View[tx.name] = [ino |-> Unlinked, bytes |-> Partial]
    <3>1. dir[tx.name] = Unlinked
      BY <1>0 DEF Known, Gone, Types
    <3> QED
      BY <1>0, <3>1 DEF View, Snapshot
  <2>5. Writing' <=> Writing
    BY <1>0 DEF Writing
  <2>6. \A n \in Names : LastWriteAt(n)' <=> (IF Writing THEN View'[n].ino = writer.ino ELSE View'[n].bytes = owed)
    <3> SUFFICES ASSUME NEW n \in Names
                 PROVE  LastWriteAt(n)' <=> (IF Writing THEN View'[n].ino = writer.ino ELSE View'[n].bytes = owed)
      OBVIOUS
    <3>1. View'[n] = Snapshot(n)'
      BY DEF View
    <3> QED
      BY <1>0, <2>5, <3>1 DEF LastWriteAt, Snapshot
  <2>7. \A n \in Names : LastWriteAt(n) <=> (IF Writing THEN View[n].ino = writer.ino ELSE View[n].bytes = owed)
    BY LastWriteSeen DEF Home
  <2>8. \A n \in Names \ {tx.name} : LastWriteAt(n)' <=> LastWriteAt(n)
    BY <2>2, <2>6, <2>7
  <2>9. LastWriteAt(tx.name) => owed = Partial /\ ~Writing
    BY <1>0, <2>4, <2>7 DEF Writing
  <2>10. ASSUME NEW n \in Names, n = tx.name, LastWriteAt(n)' PROVE owed = Partial /\ ~Writing
    BY <1>0, <2>1, <2>2, <2>3, <2>6, <2>10 DEF Writing
  <2> QED
    BY <1>0, <2>5, <2>8, <2>9, <2>10 DEF Held
<1> QED
  BY <1>1, <1>2 DEF CreateTemp

\* The removal of the temporary name.
LEMMA LastWriteUnlinked ==
    ASSUME Known, Kept, Unlink, Link(tx.name, Unlinked), owed' = (IF Replaced THEN tx.draft ELSE owed)
    PROVE  /\ Held => Held' \/ BlindRemoval \/ RacingWrite
           /\ Held' /\ (owed' = owed \/ Writing) =>
                \/ owed = Partial /\ ~Writing
                \/ \E n \in Names \ {tx.name} : LastWriteAt(n)
           /\ \A n \in Names \ {tx.name} : owed' = owed \/ Writing => (LastWriteAt(n)' <=> LastWriteAt(n))
           /\ ~Writing /\ Replaced => LastWriteAt(Canonical)'
<1> USE ConfigStoreAssumption
<1>0. /\ tx.name \in Names /\ Canonical \in Names /\ tx.name # Canonical /\ Names' = Names
      /\ tx.pc = "unlink" /\ writer' = writer /\ file' = file
      /\ writer.ino \in Inodes \cup {Unlinked} /\ tx.expected # Partial
  BY OldBytes DEF Unlink, Names, Kept, Proper
<1>1. \A n \in Names \ {tx.name} : View'[n] = View[n]
  BY <1>0, ViewMoves DEF Known
<1>2. View'[tx.name] = [ino |-> Unlinked, bytes |-> Partial]
  <2>1. dir'[tx.name] = Unlinked
    BY <1>0 DEF Link, Known, Types, Directories
  <2> QED
    BY <1>0, <2>1 DEF View, Snapshot
<1>3. Writing' <=> Writing
  BY <1>0 DEF Writing
<1>4. \A n \in Names : LastWriteAt(n)' <=> (IF Writing THEN View'[n].ino = writer.ino ELSE View'[n].bytes = owed')
  <2> SUFFICES ASSUME NEW n \in Names
               PROVE  LastWriteAt(n)' <=> (IF Writing THEN View'[n].ino = writer.ino ELSE View'[n].bytes = owed')
    OBVIOUS
  <2>1. View'[n] = Snapshot(n)'
    BY DEF View
  <2> QED
    BY <1>0, <1>3, <2>1 DEF LastWriteAt, Snapshot
<1>5. \A n \in Names : LastWriteAt(n) <=> (IF Writing THEN View[n].ino = writer.ino ELSE View[n].bytes = owed)
  BY LastWriteSeen DEF Home
<1>6. Replaced <=> owed = tx.expected /\ Installed
  BY <1>0 DEF Replaced, IsCandidate, Installed, View, Candidate
<1>7. \A n \in Names \ {tx.name} : owed' = owed \/ Writing => (LastWriteAt(n)' <=> LastWriteAt(n))
  BY <1>1, <1>4, <1>5
<1>8. ~Writing /\ Replaced => LastWriteAt(Canonical)'
  BY <1>0, <1>1, <1>4, <1>6 DEF Installed, Candidate
<1>9. ASSUME Held, ~BlindRemoval, ~RacingWrite PROVE Held'
  <2>1. View[tx.name].ino # writer.ino /\ View[tx.name] = tx.drop
    BY <1>0, <1>9 DEF RacingWrite, View, Snapshot
  <2>2. CASE owed = Partial /\ ~Writing
    BY <1>0, <1>3, <1>6, <2>2 DEF Held
  <2>3. CASE Writing
    <3>1. PICK m \in Names : LastWriteAt(m)
      BY <1>9, <2>3 DEF Held
    <3>2. m # tx.name
      BY <1>5, <2>1, <2>3, <3>1
    <3> QED
      BY <1>0, <1>7, <2>3, <3>1, <3>2 DEF Held
  <2>4. CASE ~Writing /\ owed # Partial
    <3>1. PICK m \in Names : LastWriteAt(m)
      BY <1>9, <2>4 DEF Held
    <3>2. CASE Replaced
      BY <1>0, <1>8, <2>4, <3>2 DEF Held
    <3>3. CASE ~Replaced /\ m # tx.name
      BY <1>0, <1>7, <3>1, <3>3 DEF Held
    <3>4. CASE ~Replaced /\ m = tx.name
      <4>1. Owes(tx.drop.bytes)
        BY <1>5, <2>1, <2>4, <3>1, <3>4 DEF Owes
      <4>2. Home(Canonical)
        BY <1>0, <1>6, <1>9, <3>4, <4>1 DEF Kept, Stage, Removable
      <4>3. LastWriteAt(Canonical)'
        BY <1>0, <1>1, <1>4, <2>4, <3>4, <4>2 DEF Home
      <4> QED
        BY <1>0, <4>3 DEF Held
    <3> QED
      BY <3>2, <3>3, <3>4
  <2> QED
    BY <2>2, <2>3, <2>4
<1>10. ASSUME Held', owed' = owed \/ Writing
       PROVE  \/ owed = Partial /\ ~Writing
              \/ \E n \in Names \ {tx.name} : LastWriteAt(n)
  <2>1. CASE owed' = Partial /\ ~Writing'
    BY <1>3, <1>10, <2>1
  <2>2. CASE \E n \in Names : LastWriteAt(n)'
    <3>1. PICK m \in Names : LastWriteAt(m)'
      BY <2>2
    <3>2. CASE m # tx.name
      BY <1>7, <1>10, <3>1, <3>2
    <3>3. CASE m = tx.name
      BY <1>0, <1>2, <1>4, <1>10, <3>1, <3>3 DEF Writing
    <3> QED
      BY <3>2, <3>3
  <2> QED
    BY <1>0, <1>10, <2>1, <2>2 DEF Held
<1> QED
  BY <1>7, <1>8, <1>9, <1>10

\* What a step of a save does to the transaction, field by field.
LEMMA Moves ==
    ASSUME tx \in Transactions
    PROVE  /\ \A p : Goto(p) =>
                /\ tx'.pc = p /\ tx'.name = tx.name /\ tx'.expected = tx.expected
                /\ tx'.draft = tx.draft /\ tx'.ino = tx.ino /\ tx'.displaced = tx.displaced
                /\ tx'.seen = tx.seen /\ tx'.drop = tx.drop /\ tx'.result = tx.result
                /\ saves' = saves
           /\ \A s, r : Remove(s, r) =>
                /\ tx'.pc = "remove" /\ tx'.name = tx.name /\ tx'.expected = tx.expected
                /\ tx'.draft = tx.draft /\ tx'.ino = tx.ino /\ tx'.displaced = tx.displaced
                /\ tx'.drop = s /\ tx'.result = r /\ saves' = saves
           /\ \A r : Rollback(r) =>
                /\ tx'.pc = "rollback" /\ tx'.name = tx.name /\ tx'.expected = tx.expected
                /\ tx'.draft = tx.draft /\ tx'.ino = tx.ino /\ tx'.displaced = tx.displaced
                /\ tx'.result = r /\ saves' = saves
<1>1. ASSUME NEW p, Goto(p)
      PROVE  /\ tx'.pc = p /\ tx'.name = tx.name /\ tx'.expected = tx.expected
             /\ tx'.draft = tx.draft /\ tx'.ino = tx.ino /\ tx'.displaced = tx.displaced
             /\ tx'.seen = tx.seen /\ tx'.drop = tx.drop /\ tx'.result = tx.result
             /\ saves' = saves
  BY <1>1 DEF Goto, Do, Transactions
<1>2. ASSUME NEW s, NEW r, Remove(s, r)
      PROVE  /\ tx'.pc = "remove" /\ tx'.name = tx.name /\ tx'.expected = tx.expected
             /\ tx'.draft = tx.draft /\ tx'.ino = tx.ino /\ tx'.displaced = tx.displaced
             /\ tx'.drop = s /\ tx'.result = r /\ saves' = saves
  BY <1>2 DEF Remove, Do, Transactions
<1>3. ASSUME NEW r, Rollback(r)
      PROVE  /\ tx'.pc = "rollback" /\ tx'.name = tx.name /\ tx'.expected = tx.expected
             /\ tx'.draft = tx.draft /\ tx'.ino = tx.ino /\ tx'.displaced = tx.displaced
             /\ tx'.result = r /\ saves' = saves
  BY <1>3 DEF Rollback, Do, Transactions
<1> QED
  BY <1>1, <1>2, <1>3

\* The same names, bytes and view, at another point of the save.
Same ==
    /\ tx'.name = tx.name /\ tx'.expected = tx.expected /\ tx'.draft = tx.draft
    /\ tx'.ino = tx.ino /\ saves' = saves /\ owed' = owed /\ View' = View /\ writer' = writer

LEMMA SameStage ==
    ASSUME Same, tx.name \in Names, Canonical \in Names
    PROVE  /\ Candidate' = Candidate
           /\ Home(Canonical)' <=> Home(Canonical)
           /\ Home(tx.name)' <=> Home(tx.name)
           /\ Installed' <=> Installed
           /\ Away' <=> Away
           /\ LastWriteAt(Canonical)' <=> LastWriteAt(Canonical)
           /\ LastWriteAt(tx.name)' <=> LastWriteAt(tx.name)
           /\ Traced' <=> Traced
           /\ Writing' <=> Writing
<1>1. Candidate' = Candidate
  BY DEF Same, Candidate
<1>2. Home(Canonical)' <=> Home(Canonical)
  BY DEF Same, Home
<1>3. Home(tx.name)' <=> Home(tx.name)
  BY DEF Same, Home
<1>4. (Installed' <=> Installed) /\ (Away' <=> Away)
  BY <1>1 DEF Same, Installed, Away
<1>5. (\A n \in Names : LastWriteAt(n)' <=> LastWriteAt(n)) /\ (Held' <=> Held) /\ (Writing' <=> Writing)
  BY LastWriteStays DEF Same
<1>6. LastWriteAt(Canonical)' <=> LastWriteAt(Canonical)
  BY <1>5
<1>7. LastWriteAt(tx.name)' <=> LastWriteAt(tx.name)
  <2>1. PICK n \in Names : n = tx.name
    OBVIOUS
  <2>2. LastWriteAt(n)' <=> LastWriteAt(tx.name)'
    BY <2>1 DEF Same, LastWriteAt, Snapshot
  <2> QED
    BY <1>5, <2>1, <2>2
<1>8. Traced' <=> Traced
  BY <1>5 DEF Same, Traced, CleanSoFar
<1> QED
  BY <1>1, <1>2, <1>3, <1>4, <1>5, <1>6, <1>7, <1>8

\* How a stage is reached.
LEMMA StageEnds ==
    ASSUME Known, tx.pc # "idle", NEW o, End(o),
           o = "failed" \/ (CleanSoFar /\ Held' => LastWriteAt(Canonical)')
    PROVE  Stage'
<1>0. /\ tx'.pc = "idle" /\ saves' = [saves EXCEPT ![tx.name] = o] /\ tx.name \in 1..MaxSaves
      /\ saves \in [1..MaxSaves -> Outcomes] /\ saves[tx.name] = "none"
  BY DEF End, Idle, Known, Holds, Types, Pending
<1>1. CleanSoFar' => CleanSoFar /\ o # "failed"
  BY <1>0 DEF CleanSoFar
<1>2. Unwritten' /\ Assured' /\ Removable'
  BY <1>0 DEF Unwritten, Assured, Removable
<1>3. Located'
  BY <1>0, <1>1 DEF Located, Traced
<1> QED
  BY <1>2, <1>3 DEF Stage

LEMMA StageRemoves ==
    ASSUME tx \in Transactions, tx.name \in Names, Canonical \in Names,
           View' = View, owed' = owed, writer' = writer, owed # tx.draft
    PROVE  /\ \A r \in {"conflict", "failed"} :
                FinishCandidate(r) /\ (Traced => LastWriteAt(Canonical)) => Stage'
           /\ AbandonExchange("failed") => Stage'
           /\ /\ AbandonExchange("conflict") /\ (Owes(tx.displaced.bytes) => Home(Canonical))
              /\ Traced => LastWriteAt(Canonical) \/ LastWriteAt(tx.name)
              => Stage'
           /\ /\ Remove(tx.displaced, "saved") /\ tx.displaced.bytes = tx.expected
              /\ Owes(tx.displaced.bytes) => Home(Canonical) \/ Installed
              /\ Traced => \/ LastWriteAt(Canonical)
                           \/ Installed /\ ~Writing /\ owed \in {tx.expected, tx.draft}
              => Stage'
<1>0. ASSUME NEW s, NEW r, Remove(s, r), r \in {"saved", "conflict", "failed"},
             s.bytes \in {tx.draft, tx.displaced.bytes},
             \/ ~Owes(s.bytes)
             \/ r = "failed" /\ s = tx.displaced
             \/ Home(Canonical)
             \/ owed = tx.expected /\ Installed,
             r = "conflict" /\ Traced => LastWriteAt(Canonical) \/ LastWriteAt(tx.name),
             r = "saved" /\ Traced => \/ LastWriteAt(Canonical)
                                      \/ Installed /\ ~Writing /\ owed \in {tx.expected, tx.draft}
      PROVE  Stage'
  <2>1. /\ Same /\ tx'.pc = "remove" /\ tx'.drop = s /\ tx'.result = r /\ tx'.displaced = tx.displaced
    BY <1>0, Moves DEF Same
  <2>2. tx'.draft = tx.draft /\ tx'.expected = tx.expected /\ owed' = owed
    BY <2>1 DEF Same
  <2>3. Owes(tx.drop.bytes)' <=> Owes(s.bytes)
    BY <2>1, <2>2 DEF Owes
  <2>4. Unwritten' /\ Assured'
    BY <1>0, <2>1, <2>2 DEF Unwritten, Assured
  <2>5. Removable'
    BY <1>0, <2>1, <2>2, <2>3, SameStage DEF Removable, BlindRemoval
  <2>6. Located'
    BY <1>0, <2>1, <2>2, SameStage DEF Located
  <2> QED
    BY <2>4, <2>5, <2>6 DEF Stage
<1>1. ASSUME NEW r \in {"conflict", "failed"}, FinishCandidate(r), Traced => LastWriteAt(Canonical)
      PROVE  Stage'
  <2>1. Remove([ino |-> tx.ino, bytes |-> tx.draft], r) /\ ~Owes(tx.draft)
    BY <1>1 DEF FinishCandidate, Owes
  <2> QED
    BY <1>0, <1>1, <2>1
<1>2. ASSUME AbandonExchange("failed") PROVE Stage'
  BY <1>0, <1>2 DEF AbandonExchange
<1>3. ASSUME AbandonExchange("conflict"), Owes(tx.displaced.bytes) => Home(Canonical),
             Traced => LastWriteAt(Canonical) \/ LastWriteAt(tx.name)
      PROVE  Stage'
  BY <1>0, <1>3 DEF AbandonExchange
<1>4. ASSUME Remove(tx.displaced, "saved"), tx.displaced.bytes = tx.expected,
             Owes(tx.displaced.bytes) => Home(Canonical) \/ Installed,
             Traced => \/ LastWriteAt(Canonical)
                       \/ Installed /\ ~Writing /\ owed \in {tx.expected, tx.draft}
      PROVE  Stage'
  <2>1. Owes(tx.displaced.bytes) => owed = tx.expected
    BY <1>4 DEF Owes
  <2> QED
    BY <1>0, <1>4, <2>1
<1> QED
  BY <1>1, <1>2, <1>3, <1>4

\* What every step of a save starts from.
LEMMA AtWork ==
    ASSUME Known, Kept, tx.pc # "idle"
    PROVE  /\ tx \in Transactions /\ tx.name \in Names /\ Canonical \in Names
           /\ tx.name # Canonical /\ tx.draft # Partial /\ tx.expected # Partial
           /\ Snapshot(Canonical) = View[Canonical] /\ Snapshot(tx.name) = View[tx.name]
           /\ \A s : IsCandidate(s) <=> s = Candidate
           /\ tx.pc \notin {"cleanup", "final"} => owed # tx.draft
           /\ End("failed") => Stage'
<1>1. /\ tx \in Transactions /\ tx.name \in Names /\ Canonical \in Names /\ tx.name # Canonical
  BY OldBytes
<1>2. Snapshot(Canonical) = View[Canonical] /\ Snapshot(tx.name) = View[tx.name]
  BY <1>1 DEF View
<1>3. \A s : IsCandidate(s) <=> s = Candidate
  BY DEF IsCandidate, Candidate
<1> QED
  BY <1>1, <1>2, <1>3, StageEnds DEF Kept, Proper, NotYet

\* A step that only moves on.
LEMMA GoesTo ==
    ASSUME tx \in Transactions, NEW p, Goto(p), View' = View, owed' = owed, writer' = writer
    PROVE  /\ Same /\ tx'.pc = p /\ tx'.seen = tx.seen /\ tx'.drop = tx.drop
           /\ tx'.result = tx.result /\ tx'.displaced = tx.displaced
  BY Moves DEF Same

\* The exchange of the names.
LEMMA Exchanges ==
    ASSUME Known, Kept, tx.pc # "idle", Exchange, NEW p, Goto(p), file' = file, owed' = owed, writer' = writer
    PROVE  /\ tx'.pc = p /\ tx'.name = tx.name /\ tx'.draft = tx.draft /\ tx'.displaced = tx.displaced
           /\ tx'.expected = tx.expected /\ tx'.result = tx.result /\ tx'.drop = tx.drop
           /\ Traced' <=> Traced
           /\ Installed' <=> Away
           /\ Away' <=> Installed
           /\ Home(Canonical)' <=> Home(tx.name)
           /\ Home(tx.name)' <=> Home(Canonical)
           /\ LastWriteAt(Canonical)' <=> LastWriteAt(tx.name)
           /\ LastWriteAt(tx.name)' <=> LastWriteAt(Canonical)
<1>0. tx \in Transactions /\ tx.name \in Names /\ Canonical \in Names /\ tx.name # Canonical
  BY AtWork
<1>1. View'[Canonical] = View[tx.name] /\ View'[tx.name] = View[Canonical]
  BY <1>0, ViewMoves DEF Known
<1>2. /\ tx'.pc = p /\ tx'.name = tx.name /\ tx'.ino = tx.ino /\ tx'.draft = tx.draft
      /\ tx'.expected = tx.expected /\ tx'.displaced = tx.displaced /\ saves' = saves
      /\ tx'.result = tx.result /\ tx'.drop = tx.drop
  BY <1>0, Moves
<1>3. /\ LastWriteAt(Canonical)' <=> LastWriteAt(tx.name)
      /\ \A n \in Names : n = tx.name => (LastWriteAt(n)' <=> LastWriteAt(Canonical))
      /\ Held' <=> Held
  BY LastWriteExchanged
<1>4. LastWriteAt(tx.name)' <=> LastWriteAt(Canonical)
  <2>1. PICK n \in Names : n = tx.name
    BY <1>0
  <2>2. LastWriteAt(n)' <=> LastWriteAt(tx.name)'
    BY <1>2, <2>1 DEF LastWriteAt, Snapshot
  <2> QED
    BY <1>3, <2>1, <2>2
<1>5. Traced' <=> Traced
  BY <1>2, <1>3 DEF Traced, CleanSoFar
<1>6. Candidate' = Candidate
  BY <1>2 DEF Candidate
<1>7. (Installed' <=> Away) /\ (Away' <=> Installed)
  BY <1>1, <1>2, <1>6 DEF Installed, Away
<1>8. (Home(Canonical)' <=> Home(tx.name)) /\ (Home(tx.name)' <=> Home(Canonical))
  BY <1>1, <1>2 DEF Home
<1> QED
  BY <1>2, <1>3, <1>4, <1>5, <1>7, <1>8

LEMMA StageBefore ==
    ASSUME Known, Kept, Check \/ CreateTemp \/ SyncCandidate \/ Recheck \/ ExchangeIn
    PROVE  Stage'
<1> USE ConfigStoreAssumption
<1>0. /\ tx \in Transactions /\ tx.name \in Names /\ Canonical \in Names
      /\ tx.pc # "idle" /\ tx.name # Canonical
      /\ tx.pc \in {"check", "create", "sync", "recheck", "exchange"} /\ owed # tx.draft
      /\ End("failed") => Stage'
  BY AtWork DEF Check, CreateTemp, SyncCandidate, Recheck, ExchangeIn
<1>1. Traced => LastWriteAt(Canonical)
  BY <1>0 DEF Kept, Stage, Located
<1>2. CASE Check
  <2>1. View' = View /\ owed' = owed /\ writer' = writer /\ file' = file /\ tx.pc = "check"
    BY <1>2, ViewStays DEF Check, Disk, Keeps
  <2>2. CASE Goto("create")
    <3>1. Same /\ tx'.pc = "create"
      BY <1>0, <2>1, <2>2, GoesTo
    <3>2. Unwritten'
      BY <2>1, <3>1 DEF Same, Kept, Stage, Unwritten
    <3> QED
      BY <1>0, <1>1, <3>1, <3>2, SameStage DEF Stage, Assured, Removable, Located
  <2>3. CASE \E o : End(o)
    <3>1. (LastWriteAt(Canonical)' <=> LastWriteAt(Canonical)) /\ (Held' <=> Held)
      BY <1>0, <2>1, LastWriteStays
    <3> QED
      BY <1>0, <1>1, <2>3, <3>1, StageEnds DEF Traced
  <2> QED
    BY <1>2, <2>2, <2>3 DEF Check
<1>3. CASE CreateTemp
  <2>0. owed' = owed /\ tx.pc = "create"
    BY <1>3 DEF CreateTemp, Keeps
  <2>a. (LastWriteAt(Canonical)' <=> LastWriteAt(Canonical)) /\ (Held' <=> Held)
    BY <1>3, LastWriteCreated
  <2>1. CASE /\ FreeInodes # {} /\ Link(tx.name, NewInode)
             /\ file' = [file EXCEPT ![NewInode] = tx.draft]
             /\ Do([tx EXCEPT !.pc = "sync", !.ino = NewInode])
    <3>0. Types /\ tx.draft \in Contents
      BY DEF Known, Types, Transactions
    <3>1. View'[tx.name] = [ino |-> NewInode, bytes |-> tx.draft]
      BY <1>0, <2>1, <3>0, ViewMoves
    <3> HIDE DEF NewInode
    <3>2. /\ tx'.pc = "sync" /\ tx'.ino = NewInode /\ tx'.draft = tx.draft /\ tx'.name = tx.name
          /\ saves' = saves
      BY <1>0, <2>1 DEF Do, Transactions
    <3>3. Away'
      BY <3>1, <3>2 DEF Away, Candidate
    <3>4. Traced' <=> Traced
      BY <2>a, <3>2 DEF Traced, CleanSoFar
    <3> QED
      BY <1>1, <2>a, <3>2, <3>3, <3>4 DEF Stage, Unwritten, Assured, Removable, Located
  <2>2. CASE End("refused")
    BY <1>0, <1>1, <2>2, <2>a, StageEnds DEF Traced
  <2> QED
    BY <1>0, <1>3, <2>1, <2>2 DEF CreateTemp
<1>4. CASE SyncCandidate \/ Recheck
  <2>1. /\ View' = View /\ owed' = owed /\ writer' = writer /\ tx.pc \in {"sync", "recheck"} /\ Away
    BY <1>4, ViewStays DEF SyncCandidate, Recheck, Disk, Keeps, Kept, Stage, Assured
  <2>2. CASE \E p \in {"recheck", "exchange"} : Goto(p)
    <3>1. Same /\ tx'.pc \in {"recheck", "exchange"}
      BY <1>0, <2>1, <2>2, GoesTo
    <3> QED
      BY <1>0, <1>1, <2>1, <3>1, SameStage DEF Stage, Unwritten, Assured, Removable, Located
  <2>3. CASE \E r \in {"conflict", "failed"} : FinishCandidate(r)
    BY <1>0, <1>1, <2>1, <2>3, StageRemoves
  <2> QED
    BY <1>4, <2>2, <2>3 DEF SyncCandidate, Recheck
<1>5. CASE ExchangeIn
  <2>1. file' = file /\ owed' = owed /\ writer' = writer /\ Away
    BY <1>5 DEF ExchangeIn, Keeps, Kept, Stage, Assured
  <2>2. CASE Exchange /\ Goto("displaced")
    <3>1. /\ tx'.pc = "displaced" /\ Installed' /\ (Traced' <=> Traced)
          /\ LastWriteAt(tx.name)' <=> LastWriteAt(Canonical)
      BY <1>0, <2>1, <2>2, Exchanges
    <3> QED
      BY <1>1, <3>1 DEF Stage, Unwritten, Assured, Removable, Located
  <2>3. CASE FinishCandidate("failed") /\ dir' = dir
    BY <1>0, <1>1, <2>1, <2>3, StageRemoves, ViewStays
  <2> QED
    BY <1>5, <2>2, <2>3 DEF ExchangeIn
<1> QED
  BY <1>2, <1>3, <1>4, <1>5

LEMMA StageAfter ==
    ASSUME Known, Kept,
           \/ ReadDisplaced \/ CheckInstalled \/ Commit \/ UndoCommit \/ Settle \/ CheckDisplaced
    PROVE  Stage'
<1> USE ConfigStoreAssumption
<1>0. /\ tx \in Transactions /\ tx.name \in Names /\ Canonical \in Names
      /\ tx.pc # "idle" /\ tx.expected # Partial
      /\ tx.pc \in {"displaced", "installed", "commit", "uncommitted", "committed", "settle"}
      /\ owed # tx.draft
      /\ Snapshot(Canonical) = View[Canonical] /\ Snapshot(tx.name) = View[tx.name]
      /\ \A s : IsCandidate(s) <=> s = Candidate
      /\ End("failed") => Stage'
  BY AtWork DEF ReadDisplaced, CheckInstalled, Commit, UndoCommit, Settle, CheckDisplaced
<1>1. View' = View /\ owed' = owed /\ writer' = writer
  BY ViewStays DEF ReadDisplaced, CheckInstalled, Commit, UndoCommit, Settle, CheckDisplaced,
     Disk, Keeps, SyncDirectory
<1>2. /\ Traced => LastWriteAt(Canonical) \/ (Installed /\ LastWriteAt(tx.name))
      /\ tx.pc # "displaced" /\ Owes(tx.displaced.bytes) => Installed \/ Home(Canonical)
      /\ tx.pc \in {"commit", "uncommitted", "committed", "settle"} => tx.displaced.bytes = tx.expected
  BY <1>0 DEF Kept, Stage, Located, Removable, Assured
<1>3. ASSUME NEW p \in {"installed", "commit", "uncommitted", "committed", "settle", "rollback"},
             Same, tx'.pc = p, tx'.displaced = tx.displaced, tx.pc # "displaced",
             p \notin {"installed", "rollback"} => tx.displaced.bytes = tx.expected
      PROVE  Stage'
  <2>1. Owes(tx.displaced.bytes)' <=> Owes(tx.displaced.bytes)
    BY <1>1, <1>3 DEF Owes
  <2>2. tx'.expected = tx.expected
    BY <1>3 DEF Same
  <2> QED
    BY <1>0, <1>2, <1>3, <2>1, <2>2, SameStage DEF Stage, Unwritten, Assured, Removable, Located
<1>4. CASE ReadDisplaced
  <2>1. CASE Do([tx EXCEPT !.pc = "installed", !.displaced = Snapshot(tx.name)])
    <3>1. /\ Same /\ tx'.pc = "installed" /\ tx'.displaced = View[tx.name]
      <4> HIDE DEF Snapshot
      <4> QED
        BY <1>0, <1>1, <2>1 DEF Do, Transactions, Same
    <3>2. Installed \/ ~Owes(View[tx.name].bytes)
      BY <1>4 DEF ReadDisplaced, Kept, Stage, Removable
    <3>3. Owes(tx.displaced.bytes)' <=> Owes(View[tx.name].bytes)
      BY <1>1, <3>1 DEF Owes
    <3> QED
      BY <1>0, <1>2, <3>1, <3>2, <3>3, SameStage DEF Stage, Unwritten, Assured, Removable, Located
  <2> QED
    BY <1>0, <1>4, <2>1 DEF ReadDisplaced
<1>5. CASE CheckInstalled \/ UndoCommit \/ Settle
  <2>0. tx.pc \in {"installed", "uncommitted", "committed"}
    BY <1>5 DEF CheckInstalled, UndoCommit, Settle
  <2>1. CASE \E p \in {"commit", "settle"} : Goto(p) /\ tx.displaced.bytes = tx.expected
    BY <1>0, <1>1, <1>3, <2>0, <2>1, GoesTo
  <2>2. CASE \E r : Rollback(r)
    <3>1. /\ Same /\ tx'.pc = "rollback" /\ tx'.displaced = tx.displaced
      BY <1>0, <1>1, <2>2, Moves DEF Same
    <3> QED
      BY <1>3, <2>0, <3>1
  <2>3. CASE ~Installed /\ AbandonExchange("conflict")
    BY <1>0, <1>1, <1>2, <2>0, <2>3, StageRemoves
  <2>4. CASE AbandonExchange("failed")
    BY <1>0, <1>1, <2>4, StageRemoves
  <2>5. IsCandidate(Snapshot(Canonical)) <=> Installed
    BY <1>0 DEF Installed
  <2>6. CASE CheckInstalled
    BY <1>0, <2>1, <2>2, <2>3, <2>4, <2>5, <2>6 DEF CheckInstalled
  <2>7. CASE UndoCommit \/ Settle
    BY <1>0, <1>2, <2>1, <2>2, <2>3, <2>5, <2>7 DEF UndoCommit, Settle
  <2> QED
    BY <1>5, <2>6, <2>7
<1>6. CASE Commit
  <2>1. \E p \in {"committed", "uncommitted"} : Goto(p)
    BY <1>6 DEF Commit
  <2>2. tx.pc = "commit"
    BY <1>6 DEF Commit
  <2> QED
    BY <1>0, <1>1, <1>2, <1>3, <2>1, <2>2, GoesTo
<1>7. CASE CheckDisplaced
  <2>0. tx.pc = "settle"
    BY <1>7 DEF CheckDisplaced
  <2>1. CASE Snapshot(tx.name) = tx.displaced /\ Remove(tx.displaced, "saved")
    <3>1. View[tx.name].bytes = tx.expected
      BY <1>0, <1>2, <2>0, <2>1
    <3>2. LastWriteAt(tx.name) => ~Writing /\ owed = tx.expected
      <4>1. ASSUME Writing, LastWriteAt(tx.name) PROVE FALSE
        <5>1. writer.ino # Unlinked /\ dir[tx.name] = writer.ino
          BY <4>1 DEF Writing, LastWriteAt
        <5>2. View[tx.name].bytes = Partial
          BY <1>0, <5>1, BlankSeen DEF Kept
        <5> QED
          BY <1>0, <3>1, <5>2
      <4>2. LastWriteAt(tx.name) /\ ~Writing => View[tx.name].bytes = owed
        BY <1>0 DEF LastWriteAt
      <4> QED
        BY <3>1, <4>1, <4>2
    <3> QED
      BY <1>0, <1>1, <1>2, <2>0, <2>1, <3>2, StageRemoves
  <2> QED
    BY <1>0, <1>7, <2>1 DEF CheckDisplaced
<1> QED
  BY <1>4, <1>5, <1>6, <1>7

LEMMA StageRollback ==
    ASSUME Known, Kept,
           \/ RollbackReadInstalled \/ RollbackCheck \/ RollbackExchange \/ RollbackReadRestored
           \/ RollbackReadRemoved \/ RollbackAgain \/ RollbackAgainInstalled \/ RollbackAgainDisplaced
           \/ RollbackSync
    PROVE  Stage'
<1> USE ConfigStoreAssumption
<1>0. /\ tx \in Transactions /\ tx.name \in Names /\ Canonical \in Names
      /\ tx.pc # "idle"
      /\ tx.pc \in {"rollback", "rollback_read", "rollback_exchange", "restored", "removed", "again",
                    "again_installed", "again_displaced", "rollback_sync"}
      /\ owed # tx.draft
      /\ Snapshot(Canonical) = View[Canonical] /\ Snapshot(tx.name) = View[tx.name]
      /\ \A s : IsCandidate(s) <=> s = Candidate
      /\ End("failed") => Stage'
  BY AtWork DEF RollbackReadInstalled, RollbackCheck, RollbackExchange, RollbackReadRestored,
     RollbackReadRemoved, RollbackAgain, RollbackAgainInstalled, RollbackAgainDisplaced, RollbackSync
<1>1. /\ owed' = owed /\ writer' = writer /\ file' = file
      /\ RollbackExchange \/ RollbackAgain \/ View' = View
  BY ViewStays DEF RollbackReadInstalled, RollbackCheck, RollbackExchange, RollbackReadRestored,
     RollbackReadRemoved, RollbackAgain, RollbackAgainInstalled, RollbackAgainDisplaced, RollbackSync,
     Disk, Keeps, SyncDirectory
<1>2. RollbackFault => Stage'
  BY <1>0 DEF RollbackFault
<1>3. Traced => LastWriteAt(Canonical) \/ LastWriteAt(tx.name)
  BY <1>0 DEF Kept, Stage, Located
<1>4. ASSUME Same, tx'.displaced = tx.displaced
      PROVE  Owes(tx.displaced.bytes)' <=> Owes(tx.displaced.bytes)
  BY <1>1, <1>4 DEF Owes
<1>5. CASE RollbackReadInstalled
  <2>0. /\ tx.pc = "rollback" /\ View' = View
        /\ Traced => LastWriteAt(Canonical) \/ (Installed /\ LastWriteAt(tx.name))
        /\ Owes(tx.displaced.bytes) => Installed \/ Home(Canonical)
    BY <1>5, ViewStays DEF RollbackReadInstalled, Disk, Kept, Stage, Located, Removable
  <2>1. CASE Do([tx EXCEPT !.pc = "rollback_read", !.seen = Snapshot(Canonical)])
    <3>1. /\ Same /\ tx'.pc = "rollback_read" /\ tx'.displaced = tx.displaced
          /\ tx'.seen = View[Canonical]
      <4> HIDE DEF Snapshot
      <4> QED
        BY <1>0, <1>1, <2>0, <2>1 DEF Do, Transactions, Same
    <3>2. Installed => tx'.seen = Candidate'
      BY <1>0, <3>1, SameStage DEF Installed
    <3> QED
      BY <1>0, <1>4, <2>0, <3>1, <3>2, SameStage DEF Stage, Unwritten, Assured, Removable, Located
  <2> QED
    BY <1>2, <1>5, <2>1 DEF RollbackReadInstalled
<1>6. CASE RollbackCheck
  <2>0. /\ tx.pc = "rollback_read" /\ View' = View
        /\ Traced => LastWriteAt(Canonical) \/ (Installed /\ LastWriteAt(tx.name))
        /\ Owes(tx.displaced.bytes) => Installed \/ Home(Canonical)
        /\ Owes(tx.displaced.bytes) => tx.seen = Candidate \/ Home(Canonical)
    BY <1>6, ViewStays DEF RollbackCheck, Disk, Kept, Stage, Located, Removable
  <2>1. CASE ~IsCandidate(tx.seen) /\ AbandonExchange("conflict")
    BY <1>0, <1>1, <1>3, <2>0, <2>1, StageRemoves
  <2>2. CASE Goto("rollback_exchange")
    <3>1. Same /\ tx'.pc = "rollback_exchange" /\ tx'.displaced = tx.displaced
      BY <1>0, <1>1, <2>0, <2>2, GoesTo
    <3> QED
      BY <1>0, <1>4, <2>0, <3>1, SameStage DEF Stage, Unwritten, Assured, Removable, Located
  <2> QED
    BY <1>0, <1>2, <1>6, <2>1, <2>2 DEF RollbackCheck
<1>7. CASE RollbackExchange
  <2>0. /\ tx.pc = "rollback_exchange"
        /\ Owes(tx.displaced.bytes) => Installed \/ Home(Canonical)
    BY <1>7 DEF RollbackExchange, Kept, Stage, Removable
  <2>1. CASE Exchange /\ Goto("restored")
    <3>1. /\ tx'.pc = "restored" /\ tx'.displaced = tx.displaced /\ (Traced' <=> Traced)
          /\ Away' <=> Installed
          /\ Home(tx.name)' <=> Home(Canonical)
          /\ LastWriteAt(Canonical)' <=> LastWriteAt(tx.name)
          /\ LastWriteAt(tx.name)' <=> LastWriteAt(Canonical)
      BY <1>0, <1>1, <2>1, Exchanges
    <3>2. Owes(tx.displaced.bytes)' <=> Owes(tx.displaced.bytes)
      BY <1>1, <3>1 DEF Owes
    <3> QED
      BY <1>3, <2>0, <3>1, <3>2 DEF Stage, Unwritten, Assured, Removable, Located
  <2> QED
    BY <1>2, <1>7, <2>1 DEF RollbackExchange
<1>8. CASE RollbackReadRestored
  <2>0. /\ tx.pc = "restored" /\ View' = View
        /\ Owes(tx.displaced.bytes) => Away \/ Home(tx.name)
    BY <1>8, ViewStays DEF RollbackReadRestored, Disk, Kept, Stage, Removable
  <2>1. CASE Do([tx EXCEPT !.pc = "removed", !.seen = Snapshot(Canonical)])
    <3>1. /\ Same /\ tx'.pc = "removed" /\ tx'.displaced = tx.displaced
      <4> HIDE DEF Snapshot
      <4> QED
        BY <1>0, <1>1, <2>0, <2>1 DEF Do, Transactions, Same
    <3> QED
      BY <1>0, <1>3, <1>4, <2>0, <3>1, SameStage DEF Stage, Unwritten, Assured, Removable, Located
  <2> QED
    BY <1>2, <1>8, <2>1 DEF RollbackReadRestored
<1>9. CASE RollbackReadRemoved
  <2>0. /\ tx.pc = "removed" /\ View' = View
        /\ Owes(tx.displaced.bytes) => Away \/ Home(tx.name)
    BY <1>9, ViewStays DEF RollbackReadRemoved, Disk, Kept, Stage, Removable
  <2>1. IsCandidate(Snapshot(tx.name)) <=> Away
    BY <1>0 DEF Away
  <2>2. CASE ~Away /\ Do([tx EXCEPT !.pc = "again", !.seen = Snapshot(tx.name)])
    <3>1. /\ Same /\ tx'.pc = "again" /\ tx'.displaced = tx.displaced
      <4> HIDE DEF Snapshot
      <4> QED
        BY <1>0, <1>1, <2>0, <2>2 DEF Do, Transactions, Same
    <3> QED
      BY <1>0, <1>3, <1>4, <2>0, <2>2, <3>1, SameStage DEF Stage, Unwritten, Assured, Removable, Located
  <2>3. CASE /\ Away
             /\ \/ Do([tx EXCEPT !.pc = "rollback_sync", !.drop = Snapshot(tx.name), !.result = "conflict"])
                \/ Do([tx EXCEPT !.pc = "rollback_sync", !.drop = Snapshot(tx.name)])
    <3>1. /\ Same /\ tx'.pc = "rollback_sync" /\ tx'.drop = View[tx.name]
      <4> HIDE DEF Snapshot
      <4> QED
        BY <1>0, <1>1, <2>0, <2>3 DEF Do, Transactions, Same
    <3>2. tx'.drop.bytes = tx'.draft
      BY <2>3, <3>1 DEF Away, Candidate, Same
    <3> QED
      BY <1>0, <1>3, <3>1, <3>2, SameStage DEF Stage, Unwritten, Assured, Removable, Located
  <2> QED
    BY <1>0, <1>2, <1>9, <2>1, <2>2, <2>3 DEF RollbackReadRemoved, RollbackDecision
<1>10. CASE RollbackAgain
  <2>0. /\ tx.pc = "again"
        /\ Owes(tx.displaced.bytes) => Home(tx.name)
    BY <1>10 DEF RollbackAgain, Kept, Stage, Removable
  <2>1. CASE Exchange /\ Goto("again_installed")
    <3>1. /\ tx'.pc = "again_installed" /\ tx'.displaced = tx.displaced /\ (Traced' <=> Traced)
          /\ Home(Canonical)' <=> Home(tx.name)
          /\ LastWriteAt(Canonical)' <=> LastWriteAt(tx.name)
          /\ LastWriteAt(tx.name)' <=> LastWriteAt(Canonical)
      BY <1>0, <1>1, <2>1, Exchanges
    <3>2. Owes(tx.displaced.bytes)' <=> Owes(tx.displaced.bytes)
      BY <1>1, <3>1 DEF Owes
    <3> QED
      BY <1>3, <2>0, <3>1, <3>2 DEF Stage, Unwritten, Assured, Removable, Located
  <2> QED
    BY <1>2, <1>10, <2>1 DEF RollbackAgain
<1>11. CASE RollbackAgainInstalled
  <2>0. /\ tx.pc = "again_installed" /\ View' = View
        /\ Owes(tx.displaced.bytes) => Home(Canonical)
    BY <1>11, ViewStays DEF RollbackAgainInstalled, Disk, Kept, Stage, Removable
  <2>1. CASE Goto("again_displaced")
    <3>1. Same /\ tx'.pc = "again_displaced" /\ tx'.displaced = tx.displaced
      BY <1>0, <1>1, <2>0, <2>1, GoesTo
    <3> QED
      BY <1>0, <1>3, <1>4, <2>0, <3>1, SameStage DEF Stage, Unwritten, Assured, Removable, Located
  <2> QED
    BY <1>0, <1>2, <1>11, <2>1 DEF RollbackAgainInstalled
<1>12. CASE RollbackAgainDisplaced
  <2>0. /\ tx.pc = "again_displaced" /\ View' = View
        /\ Owes(tx.displaced.bytes) => Home(Canonical)
    BY <1>12, ViewStays DEF RollbackAgainDisplaced, Disk, Kept, Stage, Removable
  <2>1. CASE AbandonExchange("conflict")
    BY <1>0, <1>1, <1>3, <2>0, <2>1, StageRemoves
  <2> QED
    BY <1>0, <1>2, <1>12, <2>1 DEF RollbackAgainDisplaced
<1>13. CASE RollbackSync
  <2>0. /\ tx.pc = "rollback_sync" /\ View' = View
        /\ tx.drop.bytes = tx.draft /\ tx.result \in {"conflict", "failed"}
    BY <1>13, ViewStays DEF RollbackSync, SyncDirectory, Kept, Stage, Assured, Known, Decided
  <2>1. CASE Goto("remove") \/ Do([tx EXCEPT !.pc = "remove", !.result = "failed"])
    <3>1. /\ Same /\ tx'.pc = "remove" /\ tx'.drop = tx.drop /\ tx'.result \in {"conflict", "failed"}
      BY <1>0, <1>1, <2>0, <2>1 DEF Goto, Do, Transactions, Same
    <3>2. tx'.drop.bytes = tx'.draft /\ owed' # tx'.draft
      BY <1>0, <2>0, <3>1 DEF Same
    <3>3. Unwritten' /\ Assured'
      BY <3>1, <3>2 DEF Unwritten, Assured
    <3>4. Removable'
      BY <3>1, <3>2 DEF Removable, Owes
    <3>5. Located'
      BY <1>0, <1>3, <3>1, SameStage DEF Located
    <3> QED
      BY <3>3, <3>4, <3>5 DEF Stage
  <2> QED
    BY <1>0, <1>13, <2>1 DEF RollbackSync
<1> QED
  BY <1>5, <1>6, <1>7, <1>8, <1>9, <1>10, <1>11, <1>12, <1>13

LEMMA StageRemoval ==
    ASSUME Known, Kept, Conclude \/ CheckRemoval \/ Unlink \/ SyncCleanup
    PROVE  Stage'
<1> USE ConfigStoreAssumption
<1>0. /\ tx \in Transactions /\ tx.name \in Names /\ Canonical \in Names
      /\ tx.pc # "idle" /\ tx.name # Canonical
      /\ tx.pc \in {"final", "remove", "unlink", "cleanup"}
      /\ Snapshot(Canonical) = View[Canonical] /\ Snapshot(tx.name) = View[tx.name]
      /\ \A s : IsCandidate(s) <=> s = Candidate
      /\ End("failed") => Stage'
  BY AtWork DEF Conclude, CheckRemoval, Unlink, SyncCleanup
<1>1. writer' = writer /\ file' = file
  BY DEF Conclude, CheckRemoval, Unlink, SyncCleanup, Disk, Keeps
<1>2. /\ tx.pc # "final" => tx.result \in {"saved", "conflict", "failed"}
      /\ Traced /\ (tx.pc = "final" \/ tx.result = "saved") =>
            \/ LastWriteAt(Canonical)
            \/ Installed /\ ~Writing /\ owed \in {tx.expected, tx.draft}
      /\ Traced /\ tx.pc # "final" /\ tx.result = "conflict" =>
            LastWriteAt(Canonical) \/ LastWriteAt(tx.name)
      /\ Traced /\ tx.pc = "cleanup" /\ tx.result = "conflict" => LastWriteAt(Canonical)
  BY <1>0 DEF Kept, Stage, Assured, Located
<1>3. ASSUME Same, tx'.pc = "final", tx.pc # "final", tx.result = "saved" PROVE Stage'
  <2>1. tx'.expected = tx.expected /\ tx'.draft = tx.draft /\ owed' = owed
    BY <1>3 DEF Same
  <2> QED
    BY <1>0, <1>2, <1>3, <2>1, SameStage DEF Stage, Unwritten, Assured, Removable, Located
<1>4. ASSUME RemovalFailed, View' = View, owed' = owed, tx.pc # "final" PROVE Stage'
  <2>1. CASE tx.result = "saved" /\ Do([tx EXCEPT !.pc = "final", !.result = "degraded"])
    <3>1. Same /\ tx'.pc = "final"
      BY <1>0, <1>1, <1>4, <2>1 DEF Do, Transactions, Same
    <3> QED
      BY <1>3, <1>4, <2>1, <3>1
  <2> QED
    BY <1>0, <1>4, <2>1 DEF RemovalFailed
<1>5. CASE Conclude
  <2>1. View' = View /\ tx.pc = "final"
    BY <1>5, ViewStays DEF Conclude
  <2>2. CASE IsCandidate(Snapshot(Canonical)) /\ End(tx.result) /\ owed' = tx.draft
    <3>1. View'[Canonical] = Snapshot(Canonical)' /\ View'[Canonical].bytes = tx.draft
      BY <1>0, <2>1, <2>2 DEF Candidate, View
    <3>2. CASE ~Writing
      <4>1. LastWriteAt(Canonical)'
        BY <1>1, <2>2, <3>1, <3>2 DEF LastWriteAt, Writing
      <4> QED
        BY <1>0, <2>2, <4>1, StageEnds
    <3>3. CASE Writing
      <4>1. Writing'
        BY <1>1, <3>3 DEF Writing
      <4>2. \A n \in Names : dir'[n] = dir[n]
        BY <1>5 DEF Conclude
      <4>3. \A n \in Names : LastWriteAt(n)' <=> LastWriteAt(n)
        BY <1>1, <3>3, <4>1, <4>2 DEF LastWriteAt
      <4>4. Held' <=> Held
        BY <3>3, <4>1, <4>3 DEF Held
      <4>5. CleanSoFar /\ Held' => LastWriteAt(Canonical)'
        BY <1>0, <1>2, <2>1, <3>3, <4>3, <4>4 DEF Traced
      <4> QED
        BY <1>0, <2>2, <4>5, StageEnds
    <3> QED
      BY <3>2, <3>3
  <2>3. CASE ~IsCandidate(Snapshot(Canonical)) /\ (\E o : End(o)) /\ owed' = owed
    <3>1. ~Installed
      BY <1>0, <2>3 DEF Installed
    <3>2. (LastWriteAt(Canonical)' <=> LastWriteAt(Canonical)) /\ (Held' <=> Held)
      BY <1>0, <1>1, <2>1, <2>3, LastWriteStays
    <3> QED
      BY <1>0, <1>2, <2>1, <2>3, <3>1, <3>2, StageEnds DEF Traced
  <2> QED
    BY <1>0, <1>5, <2>2, <2>3 DEF Conclude
<1>6. CASE CheckRemoval
  <2>1. View' = View /\ owed' = owed /\ tx.pc = "remove"
    BY <1>6, ViewStays DEF CheckRemoval, Disk, Keeps
  <2>2. CASE Goto("unlink")
    <3>1. /\ Same /\ tx'.pc = "unlink" /\ tx'.result = tx.result /\ tx'.drop = tx.drop
          /\ tx'.displaced = tx.displaced
      BY <1>0, <1>1, <2>1, <2>2, GoesTo
    <3>2. tx'.draft = tx.draft /\ tx'.expected = tx.expected
      BY <3>1 DEF Same
    <3>3. /\ Owes(tx.drop.bytes)' <=> Owes(tx.drop.bytes)
          /\ BlindRemoval' <=> BlindRemoval
      BY <2>1, <3>1 DEF Owes, BlindRemoval
    <3>4. Unwritten' /\ Assured'
      BY <2>1, <3>1, <3>2 DEF Kept, Stage, Unwritten, Assured
    <3>5. Removable'
      BY <1>0, <2>1, <3>1, <3>2, <3>3, SameStage DEF Kept, Stage, Removable
    <3>6. Located'
      BY <1>0, <1>2, <2>1, <3>1, <3>2, SameStage DEF Located
    <3> QED
      BY <3>4, <3>5, <3>6 DEF Stage
  <2> QED
    BY <1>4, <1>6, <2>1, <2>2 DEF CheckRemoval
<1>7. CASE Unlink
  <2>1. CASE RemovalFailed /\ dir' = dir /\ owed' = owed
    <3>1. View' = View /\ tx.pc = "unlink"
      BY <1>1, <1>7, <2>1, ViewStays DEF Unlink
    <3> QED
      BY <1>4, <2>1, <3>1
  <2>2. CASE /\ Link(tx.name, Unlinked) /\ Goto("cleanup")
             /\ owed' = (IF Replaced THEN tx.draft ELSE owed)
    <3>0. tx.pc = "unlink" /\ owed # tx.draft
      BY <1>7 DEF Unlink, Kept, NotYet
    <3>1. View'[Canonical] = View[Canonical]
      BY <1>0, <1>1, <2>2, ViewMoves DEF Known
    <3>2. /\ tx'.pc = "cleanup" /\ tx'.name = tx.name /\ tx'.ino = tx.ino /\ tx'.draft = tx.draft
          /\ tx'.expected = tx.expected /\ tx'.result = tx.result /\ saves' = saves
      BY <1>0, <2>2, Moves
    <3>3. CleanSoFar' = CleanSoFar /\ (Installed' <=> Installed)
      BY <3>1, <3>2 DEF CleanSoFar, Installed, Candidate
    <3>4. Writing' <=> Writing
      BY <1>1 DEF Writing
    <3>5. /\ Held' /\ (owed' = owed \/ Writing) =>
                \/ owed = Partial /\ ~Writing
                \/ \E n \in Names \ {tx.name} : LastWriteAt(n)
          /\ owed' = owed \/ Writing => (LastWriteAt(Canonical)' <=> LastWriteAt(Canonical))
          /\ ~Writing /\ Replaced => LastWriteAt(Canonical)'
      BY <1>0, <1>7, <2>2, LastWriteUnlinked
    <3>6. ASSUME Held', owed' = owed \/ Writing
          PROVE  Held /\ ~LastWriteAt(tx.name)
      <4>1. PICK n \in Names \ {tx.name} : LastWriteAt(n)
        BY <3>0, <3>5, <3>6 DEF Kept, Unowed
      <4>2. ASSUME LastWriteAt(tx.name) PROVE FALSE
        <5>0. dir \in [Names -> Inodes \cup {Unlinked}] /\ dir \in dirs /\ Unlinked \notin Inodes
          BY OldBytes
        <5>1. dir[n] = dir[tx.name] /\ dir[n] # Unlinked
          <6>1. CASE Writing
            BY <4>1, <4>2, <6>1 DEF LastWriteAt, Writing
          <6>2. CASE ~Writing
            <7>1. owed # Partial
              BY <3>0, <6>2 DEF Kept, Unowed
            <7>2. Snapshot(n).bytes = owed /\ Snapshot(tx.name).bytes = owed
              BY <4>1, <4>2, <6>2 DEF LastWriteAt
            <7>3. /\ dir[n] \in Inodes /\ dir[tx.name] \in Inodes
                  /\ file[dir[n]] = owed /\ file[dir[tx.name]] = owed
              BY <1>0, <5>0, <7>1, <7>2 DEF Snapshot
            <7> QED
              BY <5>0, <7>1, <7>3 DEF Kept, Unique
          <6> QED
            BY <6>1, <6>2
        <5> QED
          BY <1>0, <4>1, <5>0, <5>1 DEF Known, Distinct
      <4> QED
        BY <4>1, <4>2 DEF Held
    <3>7. ASSUME Traced', tx.result = "conflict" PROVE LastWriteAt(Canonical)'
      <4>1. CASE ~Writing /\ Replaced
        BY <3>5, <4>1
      <4>2. CASE owed' = owed \/ Writing
        BY <1>2, <3>0, <3>3, <3>5, <3>6, <3>7, <4>2 DEF Traced
      <4> QED
        BY <2>2, <4>1, <4>2
    <3>8. ASSUME Traced', tx.result = "saved"
          PROVE  LastWriteAt(Canonical)' \/ (Installed /\ ~Writing /\ owed \in {tx.expected, tx.draft})'
      <4>1. CASE ~Writing /\ Replaced
        BY <3>5, <4>1
      <4>2. CASE owed' = owed \/ Writing
        BY <1>2, <3>0, <3>2, <3>3, <3>4, <3>5, <3>6, <3>8, <4>2 DEF Traced
      <4> QED
        BY <2>2, <4>1, <4>2
    <3>9. Unwritten' /\ Assured' /\ Removable'
      BY <1>2, <3>0, <3>2 DEF Unwritten, Assured, Removable
    <3>10. Located'
      BY <3>2, <3>7, <3>8 DEF Located
    <3> QED
      BY <3>9, <3>10 DEF Stage
  <2> QED
    BY <1>7, <2>1, <2>2 DEF Unlink
<1>8. CASE SyncCleanup
  <2>1. View' = View /\ owed' = owed /\ tx.pc = "cleanup"
    BY <1>8, ViewStays DEF SyncCleanup, SyncDirectory, Keeps
  <2>2. CASE RemovalDone
    <3>1. CASE tx.result = "saved"
      <4>1. Same /\ tx'.pc = "final"
        BY <1>0, <1>1, <2>1, <2>2, <3>1, GoesTo DEF RemovalDone
      <4> QED
        BY <1>3, <2>1, <3>1, <4>1
    <3>2. CASE tx.result # "saved"
      <4>1. (LastWriteAt(Canonical)' <=> LastWriteAt(Canonical)) /\ (Held' <=> Held)
        BY <1>0, <1>1, <2>1, LastWriteStays
      <4>2. End(tx.result) /\ tx.result \in {"conflict", "failed"}
        BY <1>2, <2>1, <2>2, <3>2 DEF RemovalDone
      <4> QED
        BY <1>0, <1>2, <2>1, <4>1, <4>2, StageEnds DEF Traced
    <3> QED
      BY <3>1, <3>2
  <2> QED
    BY <1>4, <1>8, <2>1, <2>2 DEF SyncCleanup
<1> QED
  BY <1>5, <1>6, <1>7, <1>8

LEMMA KeptStep ==
    ASSUME Known, Kept, Next
    PROVE  Kept'
<1>1. CASE Save
  <2>1. Stage'
    BY <1>1, StageBefore, StageAfter, StageRollback, StageRemoval DEF Save
  <2> QED
    BY <1>1, <2>1, BytesSave DEF Kept
<1> QED
  BY <1>1, KeptRename, KeptTruncate, KeptFinish, KeptBegin, KeptCrash DEF Next

-----------------------------------------------------------------------------
(* The steps that lose the last write                                       *)

\* An outsider's step leaves the last write in the directory.
LEMMA OutsidersKeep ==
    ASSUME Known, Kept, Held, OutsideRename \/ OutsideTruncate \/ OutsideFinish
    PROVE  Held'
<1> USE ConfigStoreAssumption
<1>0. /\ Canonical \in Names /\ Names' = Names /\ NewRevision \in Nat /\ NewRevision > 0
      /\ dir \in [Names -> Inodes \cup {Unlinked}] /\ dir \in dirs /\ Unlinked \notin Inodes
      /\ writer \in [ino : Inodes \cup {Unlinked}, superseded : BOOLEAN]
      /\ file \in [Inodes -> Contents]
  BY OldBytes DEF Names
<1> HIDE DEF NewRevision
<1>1. CASE OutsideRename
  <2>1. /\ FreeInodes # {} /\ Link(Canonical, NewInode) /\ owed' = NewRevision
        /\ file' = [file EXCEPT ![NewInode] = NewRevision] /\ writer' = Superseded
        /\ NewInode \in Inodes
    BY <1>1, NewInodeIsFree DEF OutsideRename, FreeInodes
  <2> HIDE DEF NewInode
  <2>2. dir'[Canonical] = NewInode /\ file'[NewInode] = NewRevision
    BY <1>0, <2>1 DEF Link
  <2>3. Snapshot(Canonical)'.bytes = owed' /\ ~Writing'
    BY <1>0, <2>1, <2>2 DEF Snapshot, Superseded, Writing
  <2>4. LastWriteAt(Canonical)'
    BY <2>3 DEF LastWriteAt
  <2> QED
    BY <1>0, <2>4 DEF Held
<1>2. CASE OutsideTruncate
  <2>1. dir[Canonical] # Unlinked
    BY <1>0 DEF Known, CanonicalIsWhole
  <2>2. LastWriteAt(Canonical)'
    BY <1>2, <2>1 DEF OutsideTruncate, LastWriteAt, Writing
  <2> QED
    BY <1>0, <2>2 DEF Held
<1>3. CASE OutsideFinish
  <2>1. /\ writer.ino # Unlinked /\ dir' = dir /\ file' = [file EXCEPT ![writer.ino] = NewRevision]
        /\ ~Writing' /\ owed' = (IF writer.superseded THEN owed ELSE NewRevision)
        /\ file[writer.ino] = Partial
        /\ writer.superseded => owed # Partial
    BY <1>3 DEF OutsideFinish, Writing, NoWriter, Kept, Blank
  <2>2. PICK m \in Names : LastWriteAt(m)
    BY <2>1 DEF Held, Writing
  <2>3. Snapshot(m)'.bytes = owed'
    <3>1. CASE writer.superseded
      <4>1. Snapshot(m).bytes = owed /\ owed # Partial
        BY <2>1, <2>2, <3>1 DEF LastWriteAt, Writing
      <4>2. dir[m] \in Inodes /\ file[dir[m]] = owed /\ dir[m] # writer.ino
        BY <1>0, <2>1, <4>1 DEF Snapshot
      <4> QED
        BY <1>0, <2>1, <3>1, <4>2 DEF Snapshot
    <3>2. CASE ~writer.superseded
      <4>1. dir[m] = writer.ino /\ writer.ino \in Inodes
        BY <1>0, <2>1, <2>2, <3>2 DEF LastWriteAt, Writing
      <4> QED
        BY <1>0, <2>1, <3>2, <4>1 DEF Snapshot
    <3> QED
      BY <3>1, <3>2
  <2>4. LastWriteAt(m)'
    BY <2>1, <2>3 DEF LastWriteAt
  <2> QED
    BY <1>0, <2>4 DEF Held
<1> QED
  BY <1>1, <1>2, <1>3

\* Nor does a crash lose it.
LEMMA CrashesKeep ==
    ASSUME Known, Held, Kill \/ PowerLoss
    PROVE  Held'
<1> USE ConfigStoreAssumption
<1>1. CASE Kill
  <2>1. View' = View /\ owed' = owed /\ writer' = writer
    BY <1>1, ViewStays DEF Kill, Disk, Keeps
  <2> QED
    BY <2>1, LastWriteStays
<1>2. CASE PowerLoss
  <2>1. PICK d \in dirs : /\ dir' = d /\ owed' = file'[d[Canonical]] /\ writer' = NoWriter
    BY <1>2 DEF PowerLoss
  <2>2. Canonical \in Names' /\ d[Canonical] # Unlinked
    BY DEF Known, CanonicalIsWhole, Canonical, Names
  <2>3. LastWriteAt(Canonical)'
    BY <2>1, <2>2 DEF LastWriteAt, Snapshot, Writing, NoWriter
  <2> QED
    BY <2>2, <2>3 DEF Held
<1> QED
  BY <1>1, <1>2

\* A step of a save loses it only in a removal.
LEMMA SavesKeep ==
    ASSUME Known, Kept, Held, Save
    PROVE  Held' \/ (tx.pc = "unlink" /\ (BlindRemoval \/ RacingWrite))
<1> USE ConfigStoreAssumption
<1>0. writer' = writer /\ tx.pc # "idle" /\ Names' = Names /\ Canonical \in Names
  BY SaveStep, SaveKeeps, OldBytes DEF Known, Names
<1>1. CASE CreateTemp
  BY <1>1, LastWriteCreated
<1>2. CASE ExchangeIn \/ RollbackExchange \/ RollbackAgain
  <2>1. /\ owed' = owed /\ file' = file
        /\ Exchange \/ dir' = dir
    BY <1>2 DEF ExchangeIn, RollbackExchange, RollbackAgain, Keeps
  <2> QED
    BY <1>0, <2>1, LastWriteExchanged, LastWriteStays, ViewStays
<1>3. CASE Conclude
  <2>1. View' = View /\ dir' = dir /\ tx.pc = "final"
    BY <1>3, ViewStays DEF Conclude
  <2>2. CASE owed' = owed
    BY <1>0, <2>1, <2>2, LastWriteStays
  <2>3. CASE IsCandidate(Snapshot(Canonical)) /\ owed' = tx.draft
    <3>1. CASE Writing
      <4>1. \A n \in Names : LastWriteAt(n)' <=> LastWriteAt(n)
        BY <1>0, <2>1, <3>1 DEF LastWriteAt, Writing
      <4> QED
        BY <1>0, <3>1, <4>1 DEF Held
    <3>2. CASE ~Writing
      <4>1. View'[Canonical] = Snapshot(Canonical)' /\ View[Canonical] = Snapshot(Canonical)
        BY <1>0 DEF View
      <4>2. LastWriteAt(Canonical)'
        BY <1>0, <2>1, <2>3, <3>2, <4>1 DEF LastWriteAt, Writing, IsCandidate
      <4> QED
        BY <1>0, <4>2 DEF Held
    <3> QED
      BY <3>1, <3>2
  <2> QED
    BY <1>3, <2>2, <2>3 DEF Conclude
<1>4. CASE Unlink
  <2>1. CASE Link(tx.name, Unlinked) /\ owed' = (IF Replaced THEN tx.draft ELSE owed)
    <3>1. Held' \/ BlindRemoval \/ RacingWrite
      BY <1>4, <2>1, LastWriteUnlinked
    <3> QED
      BY <1>4, <3>1 DEF Unlink
  <2>2. CASE dir' = dir /\ owed' = owed
    <3>1. View' = View
      BY <1>4, <2>2, ViewStays DEF Unlink
    <3> QED
      BY <1>0, <2>2, <3>1, LastWriteStays
  <2> QED
    BY <1>4, <2>1, <2>2 DEF Unlink
<1>5. CASE \/ Check \/ SyncCandidate \/ Recheck \/ ReadDisplaced \/ CheckInstalled \/ Commit
           \/ UndoCommit \/ Settle \/ CheckDisplaced \/ CheckRemoval \/ SyncCleanup
  <2>1. View' = View /\ owed' = owed
    BY <1>5, ViewStays DEF Check, SyncCandidate, Recheck, ReadDisplaced, CheckInstalled, Commit,
       UndoCommit, Settle, CheckDisplaced, CheckRemoval, SyncCleanup, Disk, Keeps, SyncDirectory
  <2> QED
    BY <1>0, <2>1, LastWriteStays
<1>6. CASE \/ RollbackReadInstalled \/ RollbackCheck \/ RollbackReadRestored \/ RollbackReadRemoved
           \/ RollbackAgainInstalled \/ RollbackAgainDisplaced \/ RollbackSync
  <2>1. View' = View /\ owed' = owed
    BY <1>6, ViewStays DEF RollbackReadInstalled, RollbackCheck, RollbackReadRestored,
       RollbackReadRemoved, RollbackAgainInstalled, RollbackAgainDisplaced, RollbackSync, Disk,
       Keeps, SyncDirectory
  <2> QED
    BY <1>0, <2>1, LastWriteStays
<1> QED
  BY <1>1, <1>2, <1>3, <1>4, <1>5, <1>6 DEF Save

LEMMA LossStep ==
    ASSUME Known, Kept, Next, Held, ~Held'
    PROVE  tx.pc = "unlink" /\ (BlindRemoval \/ RacingWrite)
<1>1. ASSUME NEW e \in Revisions, Begin(e) PROVE Held'
  <2>1. View' = View /\ owed' = owed /\ writer' = writer
    BY <1>1, ViewStays DEF Begin
  <2> QED
    BY <2>1, LastWriteStays
<1> QED
  BY <1>1, OutsidersKeep, CrashesKeep, SavesKeep DEF Next

LEMMA OutcomeTrue ==
    ASSUME Known, Kept, Committed, Next, tx.pc # "idle", tx'.pc = "idle"
    PROVE  SavedIsDurable /\ SavedIsExpected /\ ConflictIsReal
<1> USE ConfigStoreAssumption
<1>0. SavedIsDurable /\ SavedWhere
  BY DurableStep, HowSavesEnd DEF Known
<1>a. /\ Snapshot(Canonical) = View[Canonical] /\ tx \in Transactions
      /\ \A s : IsCandidate(s) <=> s = Candidate
      /\ saves \in [1..MaxSaves -> Outcomes] /\ tx.name \in 1..MaxSaves
  BY AtWork DEF Known, Types, Holds
<1>b. LastWriteAt(Canonical) => writer.ino # Unlinked \/ Snapshot(Canonical).bytes = owed
  BY DEF LastWriteAt, Writing
<1>1. ASSUME Conclude, IsCandidate(Snapshot(Canonical)), Traced
      PROVE  owed \in {tx.expected, tx.draft}
  <2>1. tx.pc = "final" /\ View[Canonical].bytes = tx.draft /\ tx.draft # Partial
        /\ Canonical \in Names
    BY <1>1, <1>a, AtWork DEF Conclude, Candidate
  <2>2. LastWriteAt(Canonical) => ~Writing
    <3> SUFFICES ASSUME LastWriteAt(Canonical), Writing PROVE FALSE
      OBVIOUS
    <3>1. writer.ino # Unlinked /\ dir[Canonical] = writer.ino
      BY DEF LastWriteAt, Writing
    <3>2. View[Canonical].bytes = Partial
      BY <2>1, <3>1, BlankSeen DEF Kept
    <3> QED
      BY <2>1, <3>2
  <2>3. LastWriteAt(Canonical) => owed = tx.draft
    BY <1>a, <2>1, <2>2 DEF LastWriteAt
  <2>4. LastWriteAt(Canonical) \/ (Installed /\ ~Writing /\ owed \in {tx.expected, tx.draft})
    BY <1>1, <2>1 DEF Kept, Stage, Located
  <2> QED
    BY <2>3, <2>4
<1>2. ASSUME Check, Traced PROVE LastWriteAt(Canonical)
  BY <1>2 DEF Check, Kept, Stage, Located
<1>3. ASSUME SyncCleanup, tx.result # "saved", Traced,
             saves'[tx.name] \in {"conflict", "conflict_degraded"}
      PROVE  LastWriteAt(Canonical)
  <2>0. tx.pc = "cleanup" /\ (RemovalDone \/ RemovalFailed)
    BY <1>3 DEF SyncCleanup
  <2>1. End(tx.result) \/ End("failed")
    BY <1>3, <2>0 DEF RemovalDone, RemovalFailed
  <2>2. tx.result \in Results
    BY <1>a DEF Transactions
  <2>3. tx.result = "conflict"
    BY <1>3, <1>a, <2>1, <2>2 DEF End, Results
  <2> QED
    BY <1>3, <2>0, <2>3 DEF Kept, Stage, Located
<1>4. ASSUME Conclude, ~IsCandidate(Snapshot(Canonical)), Traced PROVE LastWriteAt(Canonical)
  BY <1>4, <1>a DEF Conclude, Kept, Stage, Located, Installed
<1>5. SavedIsExpected
  BY <1>0, <1>1 DEF SavedWhere, SavedIsExpected, Traced
<1>6. ConflictIsReal
  BY <1>0, <1>2, <1>3, <1>4, <1>b DEF SavedWhere, ConflictIsReal, Traced
<1> QED
  BY <1>0, <1>5, <1>6

-----------------------------------------------------------------------------
(* The inductive invariants *)

IInv ==
    /\ Types /\ Holds /\ CanonicalIsWhole /\ TemporaryIsWhole /\ Reported /\ Fresh /\ Gone
    /\ Revised /\ Distinct /\ Pending /\ Decided /\ Committed

LEMMA Initially ==
    ASSUME Init
    PROVE  IInv /\ Kept
<1> USE ConfigStoreAssumption
<1>0. /\ 1 \in Inodes /\ 1 \in Contents /\ Partial \in Contents /\ Canonical \in Names
      /\ Canonical \notin 1..MaxSaves /\ \A n \in 1..MaxSaves : n \in Names
  BY DEF Inodes, Contents, Revisions, Canonical, Names
<1>1. dir = [n \in Names |-> IF n = Canonical THEN 1 ELSE Unlinked] /\ dirs = {dir} /\ tx = Idle
  BY DEF Init
<1>2. Types
  <2>1. dir \in Directories
    BY <1>0, <1>1 DEF Directories
  <2>2. file \in [Inodes -> Contents] /\ synced \subseteq Inodes /\ owed \in Contents
    BY <1>0 DEF Init
  <2>3. /\ saves \in [1..MaxSaves -> Outcomes] /\ left \in Budgets
        /\ writer \in [ino : Inodes \cup {Unlinked}, superseded : BOOLEAN]
    BY DEF Init, Outcomes, Budgets, NoWriter
  <2> QED
    BY <1>1, <2>1, <2>2, <2>3, IdleType DEF Types
<1>3. Holds /\ TemporaryIsWhole
  BY <1>1 DEF Holds, TemporaryIsWhole, Idle, Prepared
<1>4. CanonicalIsWhole
  BY <1>0, <1>1 DEF CanonicalIsWhole, Init, Unlinked
<1>5. Reported /\ Fresh
  BY <1>0, <1>1 DEF Reported, Fresh
<1>6. Gone /\ Decided /\ Committed
  BY <1>1 DEF Gone, Decided, Committed, Settled, Idle
<1>7. Revised
  <2>1. NewRevision = 2
    BY DEF NewRevision, Init, NoWriter
  <2>2. \A i \in Inodes : file[i] < 2
    BY DEF Init, Partial
  <2>3. owed < 2 /\ tx.draft < 2 /\ tx.expected < 2 /\ tx.displaced.bytes < 2
    BY <1>1 DEF Init, Idle, NoSnapshot, Partial
  <2> QED
    BY <2>1, <2>2, <2>3 DEF Revised
<1>8. Distinct
  BY <1>1 DEF Distinct
<1>9. Pending
  BY DEF Init, Pending
<1>10. View[Canonical].bytes = 1 /\ owed = 1
  BY <1>0, <1>1 DEF View, Snapshot, Init, Unlinked
<1>11. Proper /\ Unowed /\ NotYet
  BY <1>0, <1>1, <1>10 DEF Proper, Unowed, NotYet, Idle, Partial
<1>12. Blank /\ ~Writing
  BY DEF Init, Blank, Writing, NoWriter
<1>13. Unique
  <2>1. \A i \in Inodes : file[i] = IF i = 1 THEN 1 ELSE Partial
    BY DEF Init
  <2> QED
    BY <2>1 DEF Unique
<1>14. LastWriteAt(Canonical)
  BY <1>0, <1>10, <1>12 DEF LastWriteAt, View
<1>15. Stage
  BY <1>1, <1>14 DEF Stage, Unwritten, Assured, Removable, Located, Idle
<1> QED
  BY <1>2, <1>3, <1>4, <1>5, <1>6, <1>7, <1>8, <1>9, <1>11, <1>12, <1>13, <1>15 DEF IInv, Kept

LEMMA Inductive ==
    ASSUME IInv, [Next]_vars
    PROVE  IInv'
<1>1. CASE Next
  <2>1. Types' /\ Holds' /\ CanonicalIsWhole' /\ TemporaryIsWhole'
    BY <1>1, TypesStep, WholeStep DEF IInv
  <2>2. Reported' /\ Fresh' /\ Gone'
    BY <1>1, LeftoversStep DEF IInv
  <2>3. Revised' /\ Distinct' /\ Pending'
    BY <1>1, RevisedStep, DistinctStep, PendingStep DEF IInv
  <2>4. Decided' /\ Committed'
    BY <1>1, DecidedStep, CommittedStep DEF IInv
  <2> QED
    BY <2>1, <2>2, <2>3, <2>4 DEF IInv
<1>2. CASE UNCHANGED vars
  <2>1. Types' /\ Holds'
    BY <1>2 DEF IInv, vars, Types, Holds, Begun
  <2>2. CanonicalIsWhole' /\ TemporaryIsWhole'
    BY <1>2 DEF IInv, vars, CanonicalIsWhole, TemporaryIsWhole
  <2>3. Reported' /\ Fresh' /\ Gone'
    BY <1>2 DEF IInv, vars, Reported, Fresh, Gone, Begun
  <2>4. Revised' /\ Distinct'
    BY <1>2 DEF IInv, vars, Revised, NewRevision, Distinct
  <2>5. Pending' /\ Decided' /\ Committed'
    BY <1>2 DEF IInv, vars, Pending, Begun, Decided, Committed, Settled
  <2> QED
    BY <2>1, <2>2, <2>3, <2>4, <2>5 DEF IInv
<1> QED
  BY <1>1, <1>2

LEMMA KeptStays ==
    ASSUME Known, Kept, UNCHANGED vars
    PROVE  Kept'
<1>0. tx.name \in Names /\ Canonical \in Names
  BY OldBytes
<1>1. Same /\ tx' = tx /\ file' = file
  BY ViewStays DEF vars, Same
<1>2. Proper' /\ NotYet' /\ Blank' /\ Unique' /\ Unwritten'
  BY <1>1 DEF Same, Kept, Stage, Proper, NotYet, Blank, Unique, Unwritten
<1>3. Unowed'
  BY <1>0, <1>1, SameStage DEF Same, Kept, Unowed
<1>4. Assured'
  BY <1>0, <1>1, SameStage DEF Kept, Stage, Assured
<1>5. Removable'
  <2>1. owed' = owed /\ View' = View /\ writer' = writer /\ (BlindRemoval' <=> BlindRemoval)
    BY <1>1 DEF Same, BlindRemoval
  <2> QED
    BY <1>0, <1>1, <2>1, SameStage DEF Kept, Stage, Removable, Owes
<1>6. Located'
  BY <1>0, <1>1, SameStage DEF Same, Kept, Stage, Located
<1> QED
  BY <1>2, <1>3, <1>4, <1>5, <1>6 DEF Kept, Stage

LEMMA Invariant == Spec => []IInv
<1>1. Init => IInv
  BY Initially
<1>2. IInv /\ [Next]_vars => IInv'
  BY Inductive
<1> QED
  BY <1>1, <1>2, PTL DEF Spec

LEMMA KeptInvariant == Spec => []Kept
<1>1. Init => Kept
  BY Initially
<1>2. IInv /\ Kept /\ [Next]_vars => Kept'
  <2> SUFFICES ASSUME IInv, Kept, [Next]_vars
               PROVE  Kept'
    OBVIOUS
  <2>1. Known
    BY DEF IInv, Known
  <2>2. CASE UNCHANGED vars
    BY <2>1, <2>2, KeptStays
  <2>3. CASE Next
    BY <2>1, <2>3, KeptStep
  <2> QED
    BY <2>2, <2>3
<1> QED
  BY <1>1, <1>2, Invariant, PTL DEF Spec

-----------------------------------------------------------------------------
(* Theorems *)

\* The directory, every directory a power loss can bring back, the files, the snapshots
\* of the transaction in progress and what is owed keep their types through every save,
\* rollback, write of an outsider and crash (storage.rs).
THEOREM TypeCorrect == Spec => []TypeOK
<1>1. IInv => TypeOK
  <2>1. Types => /\ dir \in Directories /\ tx.displaced \in FileSnapshot
                 /\ tx.seen \in FileSnapshot /\ tx.drop \in FileSnapshot /\ tx.name \in Names
                 /\ tx.ino \in Inodes \cup {Unlinked}
                 /\ writer.ino \in Inodes \cup {Unlinked} /\ writer.superseded \in BOOLEAN
    BY DEF Types, Transactions
  <2> QED
    BY <2>1 DEF IInv, Types, TypeOK, Directories
<1> QED
  BY <1>1, Invariant, PTL

\* However many saves, writes of outsiders, failing calls, kills and power losses there
\* are: every directory a power loss can bring back has the canonical name, with a synced
\* file under it (create_synced_candidate syncs before prepare_exchange exchanges).
THEOREM CanonicalAlwaysWhole == Spec => []CanonicalIsWhole
<1>1. IInv => CanonicalIsWhole
  BY DEF IInv
<1> QED
  BY <1>1, Invariant, PTL

\* However many saves, faults and crashes there are: a temporary name that is still in
\* the directory is that of the save at work, or of one that died or reported a failure or
\* a degraded cleanup (finish_candidate, abandon_exchange, remove_exact_identity).
THEOREM LeftoversAlwaysReported == Spec => []LeftoversAreReported
<1>1. IInv => LeftoversAreReported
  BY DEF IInv, Types, Reported, LeftoversAreReported, Excused
<1> QED
  BY <1>1, Invariant, PTL

\* Whatever outsiders do, and with any number of faults: a save that is reported as saved
\* or degraded has its candidate under the canonical name in every directory a power loss
\* can bring back (sync_commit comes before the comparisons of replace that end in success).
THEOREM SavedStays == Spec => [][tx.pc # "idle" /\ tx'.pc = "idle" => SavedIsDurable]_vars
<1>1. IInv /\ [Next]_vars => [tx.pc # "idle" /\ tx'.pc = "idle" => SavedIsDurable]_vars
  BY DurableStep DEF IInv
<1> QED
  BY <1>1, Invariant, PTL DEF Spec

\* However many saves, writes of outsiders, failing calls, kills and power losses there
\* are: the last write is in the directory under some name, through every exchange,
\* rollback and cleanup of storage.rs, until a save that expected exactly it has replaced
\* it; the only steps that lose it are the removal of a displaced file that was never
\* compared (a failed read of the installed one) and of a file written in place since.
THEOREM NoUpdateLost == Spec => NoLostUpdate
<1>1. IInv /\ Kept /\ [Next]_vars =>
        [Held /\ ~Held' => tx.pc = "unlink" /\ (BlindRemoval \/ RacingWrite)]_vars
  BY LossStep DEF IInv, Known
<1> QED
  BY <1>1, Invariant, KeptInvariant, PTL DEF Spec, NoLostUpdate

\* What save_inner returns is true, whatever outsiders, faults and crashes do: saved means
\* durable and, while the last write can be traced, in place of what was expected; a
\* conflict means that the last acknowledged write, or an outsider at work, is there.
THEOREM OutcomesAreTrue == Spec => OutcomeIsTrue
<1>1. IInv /\ Kept /\ [Next]_vars =>
        [tx.pc # "idle" /\ tx'.pc = "idle" =>
            SavedIsDurable /\ SavedIsExpected /\ ConflictIsReal]_vars
  BY OutcomeTrue DEF IInv, Known
<1> QED
  BY <1>1, Invariant, KeptInvariant, PTL DEF Spec, OutcomeIsTrue

=============================================================================
