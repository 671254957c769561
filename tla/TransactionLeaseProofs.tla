------------------------ MODULE TransactionLeaseProofs ------------------------
(***************************************************************************)
(* For any number of recoverers: the types, that a living owner is not     *)
(* disturbed, that no strict step of cleanup or recovery fails, and that   *)
(* the protocol implements AtomicReplace.                                  *)
(*                                                                         *)
(* The invariant behind them says who may change the directory.  Its files *)
(* are changed by the holder of the lock only.  A recoverer that works     *)
(* without the lock found no lease under either name; then the directory   *)
(* is Gone: empty, and no lease can come into it any more.                 *)
(***************************************************************************)
EXTENDS TransactionLease, TLAPS

Early == {"create", "lock", "mkdir"}
Past  == {"removeBuilding", "removeTxn", "failed", "done", "dead"}

OwnerHolds ==
  Preparing \cup Replacing
  \cup {"mkdir", "open", "move", "abort", "undo", "unlockBuilding", "unlockTxn"}

Gone == /\ inside = {}
        /\ pc[Owner] # "create"
        /\ outer => pc[Owner] \in Past

(* Steps a recoverer takes with the lock only, and steps it may also take    *)
(* without, in a directory that is Gone.                                    *)
Locked == {"dropOrphan", "unlockOrphan", "readJournal", "decide", "reinstall", "remark",
           "restore", "clean", "dropJournal", "dropLease"}
Either == {"inspect", "discard", "residue", "unlockBuilding", "unlockTxn"}

Opened == {"inner", "lockInner", "outer", "lockOuter", "recheck", "inspect", "discard",
           "unlockBuilding", "removeBuilding", "findLease", "lockTxn", "readJournal",
           "residue", "decide", "reinstall", "remark", "restore", "clean", "dropJournal",
           "dropLease", "unlockTxn", "removeTxn"}

Holding ==
  /\ lock = Owner <=> pc[Owner] \in OwnerHolds
  /\ \A r \in Recoverers :
       /\ pc[r] \in Locked => lock = r
       /\ lock = r => pc[r] \in Locked \cup Either
       /\ pc[r] \in Either /\ lock # r => Gone

(* The directory, whoever works in it.                                      *)
Shape ==
  /\ "lease" \notin inside => inside = {}
  /\ dir = "txn" /\ "journal" \notin inside => inside \subseteq {"lease"}
  /\ dir = "none" => inside = {}
  /\ dir = "building" => inside \subseteq Unpublished
  /\ outer => /\ inside = {} /\ dir # "txn"
              /\ pc[Owner] \in {"lock", "mkdir", "open", "move", "abort", "failed", "dead"}

(* What the decision markers mean.                                          *)
Decision ==
  /\ "approved" \in inside /\ leaf = "none" => "next" \in inside
  /\ "installed" \in inside => leaf # "none"
  /\ "previous" \in inside /\ "approved" \notin inside => leaf = "none"

OwnerPlace ==
  LET at == pc[Owner] IN
  /\ at \in Early => dir = "none"
  /\ at \in Early \cup {"open", "move"} \cup Preparing \cup {"quarantine"} => leaf # "new"
  /\ at \in Early \cup {"open", "move", "abort", "unlockBuilding", "removeBuilding", "failed"}
       => inside = {} /\ dir # "txn"
  /\ at \in Preparing \cup {"undo", "quarantine"} => inside \subseteq Unpublished
  /\ at = "undo" => dir # "txn"
  /\ at \in {"approve", "install"} => leaf = "none"
  /\ at \in {"mark", "clean", "dropJournal", "dropLease", "unlockTxn", "removeTxn", "done"}
       => leaf = "new"
  /\ at = "approve" => "approved" \notin inside
  /\ at \in {"unlockTxn", "removeTxn", "done"} => inside = {}

RecovererPlace ==
  \A r \in Recoverers :
    /\ pc[r] \in Opened => pc[Owner] \notin Early
    /\ pc[r] \in {"recheck", "findLease"} => ~outer
    /\ pc[r] \in {"findLease", "lockTxn", "readJournal"} => dir # "building"
    /\ pc[r] = "discard" => inside \subseteq Unpublished
    /\ pc[r] \in {"unlockBuilding", "removeBuilding", "unlockTxn", "removeTxn"} => Gone
    /\ pc[r] \in {"decide", "reinstall", "remark", "restore", "clean"} => "journal" \in inside
    /\ pc[r] = "reinstall" => leaf = "none" /\ {"approved", "next"} \subseteq inside
    /\ pc[r] = "remark" => leaf # "none" /\ "approved" \in inside
    /\ pc[r] = "restore" => /\ leaf = "none" /\ "previous" \in inside
                            /\ {"approved", "installed"} \cap inside = {}

CleanPlace ==
  \A p \in Processes :
    /\ pc[p] = "clean" /\ leaf = "none" => {"previous", "approved"} \cap inside = {}
    /\ pc[p] = "dropJournal" => inside = {"lease", "journal"}
    /\ pc[p] = "dropLease" => inside = {"lease"}

IInv == /\ TypeOK /\ Holding /\ Shape /\ Decision
        /\ OwnerPlace /\ RecovererPlace /\ CleanPlace
        /\ OwnerUndisturbed /\ ResidueIsResidue

-----------------------------------------------------------------------------
(* The invariant is inductive: one lemma per group of actions, one step per  *)
(* action.  In all of them its parts and the sets of steps are unfolded.    *)

(* Removing names keeps the types.                                           *)
LEMMA RemovalTypes ==
  ASSUME TypeOK, NEW p \in Processes, Clean(p) \/ Discard(p)
  PROVE  TypeOK'
BY DEF TypeOK, Clean, Discard, Remove

(* Removing the construction lease keeps the types.                          *)
LEMMA OuterTypes ==
  ASSUME TypeOK, NEW r \in Recoverers, RemoveOuter(r) \/ DropOrphan(r)
  PROVE  TypeOK'
<1> USE DEF TypeOK, Processes
<1>1. /\ UNCHANGED <<dir, inside, leaf, lock, quiet>>
      /\ outer' \in BOOLEAN /\ external' \subseteq Recoverers
  BY DEF RemoveOuter, DropOrphan
<1>2. pc' = [pc EXCEPT ![r] = "listOrphans"] \/ pc' = [pc EXCEPT ![r] = "unlockOrphan"]
  BY DEF RemoveOuter, DropOrphan, Go
<1>3. /\ pc' \in [Processes -> OwnerSteps \cup RecovererSteps \cup SharedSteps]
      /\ pc'[Owner] \in OwnerSteps \cup SharedSteps
      /\ \A q \in Recoverers : pc'[q] \in RecovererSteps \cup SharedSteps
  BY <1>2, ProcessAssumption DEF RecovererSteps
<1> QED
  BY <1>1, <1>3

(* What an owner's undoing leaves: the lease, perhaps others, or nothing.    *)
LEMMA UndoLeaves ==
  ASSUME inside \subseteq Unpublished, "lease" \notin inside => inside = {}, Undo
  PROVE  /\ "lease" \in inside /\ inside' \subseteq inside
         /\ "lease" \in inside' \/ inside' = {}
         /\ pc[Owner] = "undo" /\ UNCHANGED <<outer, dir, leaf, lock, pc, external, quiet>>
<1>1. CASE Remove(Owner, "undo", "journal", {}) \/ Remove(Owner, "undo", "next", {"journal"})
  BY <1>1 DEF Remove
<1>2. CASE Remove(Owner, "undo", "lease", {"journal", "next"})
  BY <1>2 DEF Remove, Unpublished
<1> QED
  BY <1>1, <1>2 DEF Undo

(* Without staged files a readable transaction is its lease and journal.     *)
LEMMA OnlyJournal ==
  ASSUME NEW p \in Processes, inside \subseteq Names, {"lease", "journal"} \subseteq inside,
         CleanDone(p)
  PROVE  inside = {"lease", "journal"}
BY DEF Names, CleanDone

(* What discarding leaves: a directory that still lacks nothing but the      *)
(* staged file, or at most the lease.                                        *)
LEMMA DiscardLeaves ==
  ASSUME NEW r \in Recoverers, inside \subseteq Unpublished, Discard(r)
  PROVE  \/ "next" \in inside /\ inside' = inside \ {"next"}
         \/ "next" \notin inside /\ "journal" \in inside
            /\ inside' = inside \ {"journal"} /\ inside' \subseteq {"lease"}
         \/ inside' = {}
<1>1. CASE Remove(r, "discard", "next", {})
  BY <1>1 DEF Remove
<1>2. CASE Remove(r, "discard", "journal", {"next"})
  BY <1>2 DEF Remove, Unpublished
<1>3. CASE Remove(r, "discard", "lease", {"next", "journal"})
  BY <1>3 DEF Remove, Unpublished
<1> QED
  BY <1>1, <1>2, <1>3 DEF Discard

(* Initially nothing is there and nobody holds the lock.                     *)
LEMMA InitHolds == Init => IInv
<1> USE ProcessAssumption DEF IInv, TypeOK, Holding, Shape, Decision, OwnerPlace,
        RecovererPlace, CleanPlace, OwnerUndisturbed, ResidueIsResidue, Gone, Early, Past,
        OwnerHolds, Locked, Either, Opened, Preparing, Replacing, Unpublished,
        Processes, Names, Staged, OwnerSteps, RecovererSteps, SharedSteps, files, Go
<1> SUFFICES ASSUME Init PROVE IInv
  OBVIOUS
<1>1. TypeOK
  BY DEF Init
<1>2. Holding /\ OwnerPlace /\ RecovererPlace /\ CleanPlace
  BY DEF Init
<1>3. Shape /\ Decision /\ OwnerUndisturbed /\ ResidueIsResidue
  BY DEF Init
<1> QED
  BY <1>1, <1>2, <1>3

(* The owner's steps up to publication keep the invariant.                   *)
LEMMA BuildKeeps ==
  ASSUME IInv, Build
  PROVE  IInv'
<1> USE ProcessAssumption DEF IInv, TypeOK, Holding, Shape, Decision, OwnerPlace,
        RecovererPlace, CleanPlace, OwnerUndisturbed, ResidueIsResidue, Gone, Early, Past,
        OwnerHolds, Locked, Either, Opened, Preparing, Replacing, Unpublished,
        Processes, Names, Staged, OwnerSteps, RecovererSteps, SharedSteps, files, Go
<1>1. CASE CreateLease
  BY <1>1 DEF CreateLease
<1>2. CASE LockLease
  BY <1>2 DEF LockLease, TryLock
<1>3. CASE MakeDir
  BY <1>3 DEF MakeDir
<1>4. CASE OpenDir
  BY <1>4 DEF OpenDir, Look
<1>5. CASE MoveLease
  <2>1. TypeOK'
    BY <1>5 DEF MoveLease
  <2>2. Holding'
    BY <1>5 DEF MoveLease
  <2>3. Shape'
    BY <1>5 DEF MoveLease
  <2>4. Decision'
    BY <1>5 DEF MoveLease
  <2>5. OwnerPlace'
    BY <1>5 DEF MoveLease
  <2>6. RecovererPlace'
    BY <1>5 DEF MoveLease
  <2>7. CleanPlace'
    BY <1>5 DEF MoveLease
  <2>8. OwnerUndisturbed'
    BY <1>5 DEF MoveLease
  <2>9. ResidueIsResidue'
    BY <1>5 DEF MoveLease
  <2> QED
    BY <2>1, <2>2, <2>3, <2>4, <2>5, <2>6, <2>7, <2>8, <2>9
<1>6. CASE MoveFails
  BY <1>6 DEF MoveFails
<1>7. CASE Abort
  <2>1. TypeOK'
    BY <1>7 DEF Abort
  <2>2. Holding'
    BY <1>7 DEF Abort
  <2>3. Shape'
    BY <1>7 DEF Abort
  <2>4. Decision'
    BY <1>7 DEF Abort
  <2>5. OwnerPlace'
    BY <1>7 DEF Abort
  <2>6. RecovererPlace'
    BY <1>7 DEF Abort
  <2>7. CleanPlace'
    BY <1>7 DEF Abort
  <2>8. OwnerUndisturbed'
    BY <1>7 DEF Abort
  <2>9. ResidueIsResidue'
    BY <1>7 DEF Abort
  <2> QED
    BY <2>1, <2>2, <2>3, <2>4, <2>5, <2>6, <2>7, <2>8, <2>9
<1>8. CASE WriteJournal
  BY <1>8 DEF WriteJournal, Write
<1>9. CASE WriteNext
  BY <1>9 DEF WriteNext, Write
<1>10. CASE Publish
  BY <1>10 DEF Publish
<1>11. CASE WriteFails
  BY <1>11 DEF WriteFails
<1>12. CASE Undo
  <2>1. inside \subseteq Unpublished /\ ("lease" \notin inside => inside = {})
    BY <1>12 DEF Undo, Remove
  <2>2. /\ "lease" \in inside /\ inside' \subseteq inside
        /\ "lease" \in inside' \/ inside' = {}
        /\ pc[Owner] = "undo" /\ UNCHANGED <<outer, dir, leaf, lock, pc, external, quiet>>
    BY <1>12, <2>1, UndoLeaves
  <2>3. \A r \in Recoverers :
          pc[r] \notin Locked \cup {"unlockBuilding", "removeBuilding", "unlockTxn", "removeTxn"}
    BY <2>2
  <2>4. TypeOK' /\ Holding'
    BY <2>2, <2>3
  <2>5. Shape' /\ Decision' /\ OwnerPlace' /\ OwnerUndisturbed'
    BY <2>2
  <2>6. RecovererPlace' /\ CleanPlace' /\ ResidueIsResidue'
    BY <2>2, <2>3
  <2> QED
    BY <2>4, <2>5, <2>6
<1>13. CASE UndoDone
  BY <1>13 DEF UndoDone, Look
<1> QED
  BY <1>1, <1>2, <1>3, <1>4, <1>5, <1>6, <1>7, <1>8, <1>9, <1>10, <1>11, <1>12, <1>13 DEF Build

(* The owner's steps that replace the output keep it.                       *)
LEMMA SwapKeeps ==
  ASSUME IInv, Swap
  PROVE  IInv'
<1> USE ProcessAssumption DEF IInv, TypeOK, Holding, Shape, Decision, OwnerPlace,
        RecovererPlace, CleanPlace, OwnerUndisturbed, ResidueIsResidue, Gone, Early, Past,
        OwnerHolds, Locked, Either, Opened, Preparing, Replacing, Unpublished,
        Processes, Names, Staged, OwnerSteps, RecovererSteps, SharedSteps, files, Go
<1>1. CASE Quarantine
  BY <1>1 DEF Quarantine
<1>2. CASE Approve
  BY <1>2 DEF Approve, Write
<1>3. CASE Install
  BY <1>3 DEF Install
<1>4. CASE Mark
  BY <1>4 DEF Mark, Write
<1> QED
  BY <1>1, <1>2, <1>3, <1>4 DEF Swap

(* Anybody's cleaning keeps it.                                              *)
LEMMA CleanUpKeeps ==
  ASSUME IInv, NEW p \in Processes, CleanUp(p)
  PROVE  IInv'
<1> USE ProcessAssumption DEF IInv, TypeOK, Holding, Shape, Decision, OwnerPlace,
        RecovererPlace, CleanPlace, OwnerUndisturbed, ResidueIsResidue, Gone, Early, Past,
        OwnerHolds, Locked, Either, Opened, Preparing, Replacing, Unpublished,
        Processes, Names, Staged, OwnerSteps, RecovererSteps, SharedSteps, files, Go
<1>1. CASE Clean(p)
  <2>1. TypeOK'
    BY <1>1, RemovalTypes
  <2>2. Holding'
    BY <1>1 DEF Clean, Remove
  <2>a. {"lease", "journal"} \subseteq inside'
    BY <1>1 DEF Clean, Remove
  <2>b. inside' \subseteq inside /\ UNCHANGED <<outer, dir, leaf, pc>>
    BY <1>1 DEF Clean, Remove
  <2>c. ~outer
    BY <2>a, <2>b
  <2>3. Shape'
    BY <2>a, <2>b, <2>c
  <2>4. Decision'
    BY <1>1 DEF Clean, Remove
  <2>5. OwnerPlace'
    BY <1>1 DEF Clean, Remove
  <2>6. RecovererPlace'
    BY <1>1 DEF Clean, Remove
  <2>7. CleanPlace'
    BY <1>1 DEF Clean, Remove
  <2>8. OwnerUndisturbed'
    BY <1>1 DEF Clean, Remove
  <2>9. ResidueIsResidue'
    BY <1>1 DEF Clean, Remove
  <2> QED
    BY <2>1, <2>2, <2>3, <2>4, <2>5, <2>6, <2>7, <2>8, <2>9
<1>2. CASE CleanDone(p)
  <2>1. TypeOK'
    BY <1>2 DEF CleanDone, Look
  <2>2. Holding'
    BY <1>2 DEF CleanDone, Look
  <2>3. Shape'
    BY <1>2 DEF CleanDone, Look
  <2>4. Decision'
    BY <1>2 DEF CleanDone, Look
  <2>5. OwnerPlace'
    BY <1>2 DEF CleanDone, Look
  <2>6. RecovererPlace'
    BY <1>2 DEF CleanDone, Look
  <2>a. inside = {"lease", "journal"}
    <3>1. {"lease", "journal"} \subseteq inside
      BY <1>2 DEF CleanDone, Look
    <3>2. inside \subseteq Names
      OBVIOUS
    <3> QED
      BY <1>2, <3>1, <3>2, OnlyJournal
  <2>7. CleanPlace'
    BY <1>2, <2>a DEF CleanDone, Look
  <2>8. OwnerUndisturbed'
    BY <1>2 DEF CleanDone, Look
  <2>9. ResidueIsResidue'
    BY <1>2 DEF CleanDone, Look
  <2> QED
    BY <2>1, <2>2, <2>3, <2>4, <2>5, <2>6, <2>7, <2>8, <2>9
<1>3. CASE DropJournal(p)
  BY <1>3 DEF DropJournal, Drop
<1>4. CASE DropLease(p)
  BY <1>4 DEF DropLease, Drop
<1>5. CASE UnlockTxn(p)
  BY <1>5 DEF UnlockTxn, Unlock, Released
<1>6. CASE RemoveTxn(p)
  BY <1>6 DEF RemoveTxn
<1>7. CASE UnlockBuilding(p)
  BY <1>7 DEF UnlockBuilding, Unlock, Released
<1>8. CASE RemoveBuilding(p)
  BY <1>8 DEF RemoveBuilding
<1> QED
  BY <1>1, <1>2, <1>3, <1>4, <1>5, <1>6, <1>7, <1>8 DEF CleanUp

(* A recoverer's search for builders keeps it.                               *)
LEMMA ScanKeeps ==
  ASSUME IInv, NEW r \in Recoverers, ScanBuilding(r)
  PROVE  IInv'
<1> USE ProcessAssumption DEF IInv, TypeOK, Holding, Shape, Decision, OwnerPlace,
        RecovererPlace, CleanPlace, OwnerUndisturbed, ResidueIsResidue, Gone, Early, Past,
        OwnerHolds, Locked, Either, Opened, Preparing, Replacing, Unpublished,
        Processes, Names, Staged, OwnerSteps, RecovererSteps, SharedSteps, files, Go
<1>1. CASE ListBuildings(r)
  BY <1>1 DEF ListBuildings, Look
<1>2. CASE OpenBuilding(r)
  BY <1>2 DEF OpenBuilding, Look
<1>3. CASE FindInner(r)
  BY <1>3 DEF FindInner, Look
<1>4. CASE FindOuter(r)
  BY <1>4 DEF FindOuter, Look
<1>5. CASE RecheckInner(r)
  BY <1>5 DEF RecheckInner, Look
<1>6. CASE LockInner(r)
  BY <1>6 DEF LockInner, TryLock
<1>7. CASE LockOuter(r)
  BY <1>7 DEF LockOuter, TryLock
<1>8. CASE Inspect(r)
  BY <1>8 DEF Inspect, Look
<1>9. CASE Refuse(r)
  BY <1>9 DEF Refuse, Released
<1>10. CASE Discard(r)
  <2>a. /\ inside \subseteq Unpublished /\ pc[r] = "discard"
        /\ UNCHANGED <<outer, dir, leaf, lock, pc>>
    BY <1>10 DEF Discard, Remove
  <2>b. lock = r /\ "lease" \in inside
    <3>1. inside # {}
      BY <1>10 DEF Discard, Remove
    <3> QED
      BY <2>a, <3>1
  <2>c. \/ "next" \in inside /\ inside' = inside \ {"next"}
        \/ "next" \notin inside /\ "journal" \in inside
           /\ inside' = inside \ {"journal"} /\ inside' \subseteq {"lease"}
        \/ inside' = {}
    BY <1>10, <2>a, DiscardLeaves
  <2>e. \A q \in Recoverers : pc[q] \notin Locked
    BY <2>a, <2>b
  <2>f. pc[Owner] \notin OwnerHolds
    BY <2>b
  <2>1. TypeOK'
    BY <1>10, RemovalTypes
  <2>2. Holding'
    BY <1>10 DEF Discard, Remove
  <2>g. "lease" \in inside' \/ inside' = {}
    BY <2>b, <2>c
  <2>h. dir = "txn" => "journal" \in inside' \/ inside' \subseteq {"lease"}
    BY <2>b, <2>c
  <2>3. Shape'
    BY <2>a, <2>b, <2>c, <2>g, <2>h
  <2>4. Decision'
    BY <1>10 DEF Discard, Remove
  <2>5. OwnerPlace'
    BY <1>10 DEF Discard, Remove
  <2>6. RecovererPlace'
    <3>1. inside' \subseteq inside
      BY <2>c
    <3>2. \A q \in Recoverers :
            pc[q] \notin {"unlockBuilding", "removeBuilding", "unlockTxn", "removeTxn"}
      BY <2>b
    <3> QED
      BY <2>a, <2>e, <3>1, <3>2
  <2>7. CleanPlace'
    BY <1>10 DEF Discard, Remove
  <2>8. OwnerUndisturbed'
    BY <1>10 DEF Discard, Remove
  <2>9. ResidueIsResidue'
    BY <1>10 DEF Discard, Remove
  <2> QED
    BY <2>1, <2>2, <2>3, <2>4, <2>5, <2>6, <2>7, <2>8, <2>9
<1>11. CASE DiscardDone(r)
  BY <1>11 DEF DiscardDone, Look
<1>12. CASE RemoveOuter(r)
  <2>1. TypeOK'
    BY <1>12, OuterTypes
  <2>2. Holding'
    BY <1>12 DEF RemoveOuter
  <2>3. Shape'
    BY <1>12 DEF RemoveOuter
  <2>4. Decision'
    BY <1>12 DEF RemoveOuter
  <2>5. OwnerPlace'
    BY <1>12 DEF RemoveOuter
  <2>6. RecovererPlace'
    BY <1>12 DEF RemoveOuter
  <2>7. CleanPlace'
    BY <1>12 DEF RemoveOuter
  <2>8. OwnerUndisturbed'
    BY <1>12 DEF RemoveOuter
  <2>9. ResidueIsResidue'
    BY <1>12 DEF RemoveOuter
  <2> QED
    BY <2>1, <2>2, <2>3, <2>4, <2>5, <2>6, <2>7, <2>8, <2>9
<1> QED
  BY <1>1, <1>2, <1>3, <1>4, <1>5, <1>6, <1>7, <1>8, <1>9, <1>10, <1>11, <1>12 DEF ScanBuilding

(* A recoverer's sweep of construction leases keeps it.                      *)
LEMMA SweepKeeps ==
  ASSUME IInv, NEW r \in Recoverers, SweepOrphan(r)
  PROVE  IInv'
<1> USE ProcessAssumption DEF IInv, TypeOK, Holding, Shape, Decision, OwnerPlace,
        RecovererPlace, CleanPlace, OwnerUndisturbed, ResidueIsResidue, Gone, Early, Past,
        OwnerHolds, Locked, Either, Opened, Preparing, Replacing, Unpublished,
        Processes, Names, Staged, OwnerSteps, RecovererSteps, SharedSteps, files, Go
<1>1. CASE ListOrphans(r)
  BY <1>1 DEF ListOrphans, Look
<1>2. CASE CheckBuilding(r)
  BY <1>2 DEF CheckBuilding, Look
<1>3. CASE OpenOrphan(r)
  BY <1>3 DEF OpenOrphan, Look
<1>4. CASE LockOrphan(r)
  BY <1>4 DEF LockOrphan, TryLock
<1>5. CASE DropOrphan(r)
  <2>1. TypeOK'
    BY <1>5, OuterTypes
  <2>2. Holding'
    BY <1>5 DEF DropOrphan
  <2>3. Shape'
    BY <1>5 DEF DropOrphan
  <2>4. Decision'
    BY <1>5 DEF DropOrphan
  <2>5. OwnerPlace'
    BY <1>5 DEF DropOrphan
  <2>6. RecovererPlace'
    BY <1>5 DEF DropOrphan
  <2>7. CleanPlace'
    BY <1>5 DEF DropOrphan
  <2>8. OwnerUndisturbed'
    BY <1>5 DEF DropOrphan
  <2>9. ResidueIsResidue'
    BY <1>5 DEF DropOrphan
  <2> QED
    BY <2>1, <2>2, <2>3, <2>4, <2>5, <2>6, <2>7, <2>8, <2>9
<1>6. CASE UnlockOrphan(r)
  BY <1>6 DEF UnlockOrphan, Unlock, Released
<1> QED
  BY <1>1, <1>2, <1>3, <1>4, <1>5, <1>6 DEF SweepOrphan

(* A recoverer's work on a published transaction keeps it.                   *)
LEMMA RecoverKeeps ==
  ASSUME IInv, NEW r \in Recoverers, RecoverTxn(r)
  PROVE  IInv'
<1> USE ProcessAssumption DEF IInv, TypeOK, Holding, Shape, Decision, OwnerPlace,
        RecovererPlace, CleanPlace, OwnerUndisturbed, ResidueIsResidue, Gone, Early, Past,
        OwnerHolds, Locked, Either, Opened, Preparing, Replacing, Unpublished,
        Processes, Names, Staged, OwnerSteps, RecovererSteps, SharedSteps, files, Go
<1>1. CASE ListTxns(r)
  BY <1>1 DEF ListTxns, Look
<1>2. CASE OpenTxn(r)
  BY <1>2 DEF OpenTxn, Look
<1>3. CASE FindLease(r)
  BY <1>3 DEF FindLease, Look
<1>4. CASE LockTxn(r)
  BY <1>4 DEF LockTxn, TryLock
<1>5. CASE ReadJournal(r)
  BY <1>5 DEF ReadJournal, Look
<1>6. CASE LeavePending(r)
  BY <1>6 DEF LeavePending, Unlock, Released
<1>7. CASE Residue(r)
  BY <1>7 DEF Residue
<1>8. CASE Decide(r)
  BY <1>8 DEF Decide, Look
<1>9. CASE Reinstall(r)
  BY <1>9 DEF Reinstall
<1>10. CASE Remark(r)
  BY <1>10 DEF Remark
<1>11. CASE Restore(r)
  BY <1>11 DEF Restore
<1> QED
  BY <1>1, <1>2, <1>3, <1>4, <1>5, <1>6, <1>7, <1>8, <1>9, <1>10, <1>11 DEF RecoverTxn

(* A death keeps it: the lock is free and the files stay.                    *)
LEMMA CrashKeeps ==
  ASSUME IInv, NEW p \in Processes, Crash(p)
  PROVE  IInv'
<1> USE ProcessAssumption DEF IInv, TypeOK, Holding, Shape, Decision, OwnerPlace,
        RecovererPlace, CleanPlace, OwnerUndisturbed, ResidueIsResidue, Gone, Early, Past,
        OwnerHolds, Locked, Either, Opened, Preparing, Replacing, Unpublished,
        Processes, Names, Staged, OwnerSteps, RecovererSteps, SharedSteps, files, Go
<1> QED
  BY DEF Crash, Released

(* Steps that change nothing of it.                                          *)
LEMMA StutterKeeps ==
  ASSUME IInv, BecomeQuiet \/ UNCHANGED vars
  PROVE  IInv'
<1> USE ProcessAssumption DEF IInv, TypeOK, Holding, Shape, Decision, OwnerPlace,
        RecovererPlace, CleanPlace, OwnerUndisturbed, ResidueIsResidue, Gone, Early, Past,
        OwnerHolds, Locked, Either, Opened, Preparing, Replacing, Unpublished,
        Processes, Names, Staged, OwnerSteps, RecovererSteps, SharedSteps, files, Go
<1>1. CASE BecomeQuiet
  BY <1>1 DEF BecomeQuiet
<1>2. CASE UNCHANGED vars
  BY <1>2 DEF vars
<1> QED
  BY <1>1, <1>2

LEMMA StepKeeps == IInv /\ [Next]_vars => IInv'
<1> SUFFICES ASSUME IInv, [Next]_vars PROVE IInv'
  OBVIOUS
<1>1. CASE Replace
  BY <1>1, BuildKeeps, SwapKeeps, CleanUpKeeps DEF Replace, Processes
<1>2. CASE \E r \in Recoverers : Recover(r)
  BY <1>2, ScanKeeps, SweepKeeps, RecoverKeeps, CleanUpKeeps DEF Recover, Processes
<1>3. CASE \E p \in Processes : Crash(p)
  BY <1>3, CrashKeeps
<1>4. CASE BecomeQuiet \/ UNCHANGED vars
  BY <1>4, StutterKeeps
<1> QED
  BY <1>1, <1>2, <1>3, <1>4 DEF Next

LEMMA Invariance == Spec => []IInv
BY InitHolds, StepKeeps, PTL DEF Spec

-----------------------------------------------------------------------------
(* Every variable has its type, in particular the directory never holds a    *)
(* name recovery does not know.                                             *)
THEOREM TypesHold == Spec => []TypeOK
BY Invariance, PTL DEF IInv

(* However many processes recover, none takes anything from a living owner   *)
(* whose lease is in its directory (cleanup_building_transactions and       *)
(* recover_scanned_transaction against begin, install and cleanup).        *)
THEOREM OwnerIsSafe == Spec => []OwnerUndisturbed
BY Invariance, PTL DEF IInv

(* No strict removal or no-replace rename of cleanup and recovery fails.     *)
THEOREM StrictStepsAreSafe == Spec => []StrictStepsSucceed
<1>1. IInv => StrictStepsSucceed
  BY ProcessAssumption DEF IInv, StrictStepsSucceed, OwnerPlace, RecovererPlace, CleanPlace,
     TypeOK, Gone, Processes, OwnerSteps, RecovererSteps, SharedSteps
<1> QED
  BY <1>1, Invariance, PTL

(* recover_scanned_transaction never finds a transaction without lease or    *)
(* journal that is more than what a finished one leaves.                    *)
THEOREM NothingUnexplained == Spec => []ResidueIsResidue
BY Invariance, PTL DEF IInv

(* So neither of the errors that the code has for such cases is ever reported. *)
THEOREM NothingUnforeseenHappens == Spec => []NothingUnforeseen
<1>1. StrictStepsSucceed /\ ResidueIsResidue => NothingUnforeseen
  BY DEF NothingUnforeseen
<1> QED
  BY <1>1, StrictStepsAreSafe, NothingUnexplained, PTL

-----------------------------------------------------------------------------
(* The refinement.  Approving is the one step that changes the value; all    *)
(* others leave it, because they move the file that carries it or remove    *)
(* one that does not.                                                       *)
AtomicStep == [Atomic!Next]_<<Value, Writer>>

LEMMA InitRefines == Init => Atomic!Init
BY DEF Init, Atomic!Init, Value, Writer, Processes

LEMMA BuildRefines ==
  ASSUME IInv, Build
  PROVE  AtomicStep
<1> USE DEF AtomicStep, Atomic!Next, Atomic!GiveUp, Value, Writer, IInv, TypeOK, Processes,
        Shape, OwnerPlace, OwnerUndisturbed, Preparing, Replacing, Go, files
<1>1. CASE CreateLease \/ LockLease \/ MakeDir \/ OpenDir \/ MoveFails \/ Abort \/ Publish
  BY <1>1 DEF CreateLease, LockLease, MakeDir, OpenDir, MoveFails, Abort, Publish, Look, TryLock
<1>2. CASE MoveLease \/ WriteJournal \/ WriteNext
  BY <1>2 DEF MoveLease, WriteJournal, WriteNext, Write, Unpublished
<1>3. CASE WriteFails \/ Undo \/ UndoDone
  BY <1>3 DEF WriteFails, Undo, UndoDone, Remove, Look, Unpublished
<1> QED
  BY <1>1, <1>2, <1>3 DEF Build

LEMMA SwapRefines ==
  ASSUME IInv, Swap
  PROVE  AtomicStep
<1> USE DEF AtomicStep, Atomic!Next, Atomic!Replace, Value, Writer, IInv, TypeOK, Processes,
        OwnerPlace, OwnerUndisturbed, Preparing, Replacing, Go, files
<1>1. CASE Quarantine
  BY <1>1 DEF Quarantine, Unpublished
<1>2. CASE Approve
  BY <1>2 DEF Approve, Write
<1>3. CASE Install
  BY <1>3 DEF Install
<1>4. CASE Mark
  BY <1>4 DEF Mark, Write
<1> QED
  BY <1>1, <1>2, <1>3, <1>4 DEF Swap

LEMMA CleanUpRefines ==
  ASSUME IInv, NEW p \in Processes, CleanUp(p)
  PROVE  AtomicStep
<1> USE DEF AtomicStep, Value, Writer, IInv, TypeOK, Processes, Go, files
<1>1. CASE Clean(p)
  BY <1>1 DEF Clean, Remove, CleanPlace
<1>2. CASE CleanDone(p)
  BY <1>2, ProcessAssumption DEF CleanDone, Look
<1>3. CASE DropJournal(p)
  BY <1>3, ProcessAssumption DEF DropJournal, Drop, CleanPlace
<1>4. CASE DropLease(p)
  BY <1>4, ProcessAssumption DEF DropLease, Drop, CleanPlace
<1>5. CASE UnlockTxn(p) \/ UnlockBuilding(p)
  BY <1>5, ProcessAssumption DEF UnlockTxn, UnlockBuilding, Unlock
<1>6. CASE RemoveTxn(p)
  BY <1>6, ProcessAssumption DEF RemoveTxn, OwnerPlace, Atomic!Next, Atomic!Return
<1>7. CASE RemoveBuilding(p)
  BY <1>7, ProcessAssumption DEF RemoveBuilding, Atomic!Next, Atomic!GiveUp
<1> QED
  BY <1>1, <1>2, <1>3, <1>4, <1>5, <1>6, <1>7 DEF CleanUp

LEMMA RecoverRefines ==
  ASSUME IInv, NEW r \in Recoverers,
         ScanBuilding(r) \/ SweepOrphan(r) \/ RecoverTxn(r)
  PROVE  AtomicStep
<1> USE ProcessAssumption DEF AtomicStep, Value, Writer
<1>1. pc'[Owner] = pc[Owner]
  BY DEF ScanBuilding, SweepOrphan, RecoverTxn, IInv, TypeOK, Processes, Look, TryLock, Unlock,
     Remove, Go, ListBuildings, OpenBuilding, FindInner, FindOuter, RecheckInner, LockInner,
     LockOuter, Inspect, Refuse, Discard, DiscardDone, RemoveOuter, ListOrphans, CheckBuilding,
     OpenOrphan, LockOrphan, DropOrphan, UnlockOrphan, ListTxns, OpenTxn, FindLease, LockTxn,
     ReadJournal, LeavePending, Residue, Decide, Reinstall, Remark, Restore
<1>2. CASE UNCHANGED <<inside, leaf>>
  BY <1>1, <1>2
<1>3. CASE Discard(r)
  BY <1>1, <1>3 DEF Discard, Remove, IInv, RecovererPlace, Unpublished
<1>4. CASE Residue(r)
  BY <1>1, <1>4 DEF Residue
<1>5. CASE Reinstall(r)
  BY <1>1, <1>5 DEF Reinstall, Go, IInv, RecovererPlace
<1>6. CASE Remark(r)
  BY <1>1, <1>6 DEF Remark, Go, IInv, RecovererPlace
<1>7. CASE Restore(r)
  BY <1>1, <1>7 DEF Restore, Go, IInv, RecovererPlace
<1>8. UNCHANGED <<inside, leaf>>
      \/ Discard(r) \/ Residue(r) \/ Reinstall(r) \/ Remark(r) \/ Restore(r)
  BY DEF ScanBuilding, SweepOrphan, RecoverTxn, Look, TryLock, Unlock, files,
     ListBuildings, OpenBuilding, FindInner, FindOuter, RecheckInner, LockInner,
     LockOuter, Inspect, Refuse, DiscardDone, RemoveOuter, ListOrphans, CheckBuilding,
     OpenOrphan, LockOrphan, DropOrphan, UnlockOrphan, ListTxns, OpenTxn, FindLease, LockTxn,
     ReadJournal, LeavePending, Decide
<1> QED
  BY <1>2, <1>3, <1>4, <1>5, <1>6, <1>7, <1>8

LEMMA CrashRefines ==
  ASSUME IInv, NEW p \in Processes, Crash(p)
  PROVE  AtomicStep
BY ProcessAssumption DEF AtomicStep, Value, Writer, IInv, TypeOK, Processes, Crash, files,
   Atomic!Next, Atomic!GiveUp

LEMMA StepRefines == IInv /\ [Next]_vars => AtomicStep
<1> SUFFICES ASSUME IInv, [Next]_vars PROVE AtomicStep
  OBVIOUS
<1>1. CASE Replace
  BY <1>1, BuildRefines, SwapRefines, CleanUpRefines DEF Replace, Processes
<1>2. CASE \E r \in Recoverers : Recover(r)
  BY <1>2, RecoverRefines, CleanUpRefines DEF Recover, Processes
<1>3. CASE \E p \in Processes : Crash(p)
  BY <1>3, CrashRefines
<1>4. CASE BecomeQuiet \/ UNCHANGED vars
  BY <1>4 DEF BecomeQuiet, vars, files, AtomicStep, Value, Writer
<1> QED
  BY <1>1, <1>2, <1>3, <1>4 DEF Next

(* Replacing an output is atomic for everybody, whoever dies and however     *)
(* many processes recover: begin, quarantine, approve, install and cleanup, *)
(* with recover_scanned_transaction, implement AtomicReplace.              *)
THEOREM Refinement == Spec => ReplacesAtomically
<1>1. Spec => [][Atomic!Next]_<<Value, Writer>>
  BY Invariance, StepRefines, PTL DEF Spec, AtomicStep
<1> QED
  BY InitRefines, <1>1, PTL DEF Spec, ReplacesAtomically, Atomic!Spec
=============================================================================
