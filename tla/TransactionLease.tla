--------------------------- MODULE TransactionLease ---------------------------
(***************************************************************************)
(* One output transaction (lifecycle/mod.rs, OutputTransaction) among the  *)
(* processes that use its directory at the same time: the owner, which     *)
(* builds the transaction directory, publishes it, replaces the output and *)
(* cleans up (transactional_replace_output, which takes no generation      *)
(* guard), and any number of recoverers, which scan the output's directory *)
(* for transactions whose owner died (scan_transactions, recover_scanned). *)
(*                                                                         *)
(* What separates them is the flock on one lease file: created beside the  *)
(* directory as "<building>-lease", moved into it as "lease", removed      *)
(* last.  Opening a file and locking it are two steps, a lock lives on     *)
(* when the file is unlinked, and a directory handle survives a rename.    *)
(* Each action is one file operation of one process.  The user's edits are *)
(* left to OutputTransaction: here only gnr8 touches the output.           *)
(***************************************************************************)
CONSTANTS
  Owner,       \* the process whose transaction this is
  Recoverers,  \* the other processes that scan the directory
  Nobody       \* no process holds the lock

ASSUME ProcessAssumption ==
  /\ Owner \notin Recoverers
  /\ Nobody \notin Recoverers \cup {Owner}

VARIABLES
  outer,     \* is the construction lease "<building>-lease" there
  dir,       \* the name the transaction directory has: "building", "txn" or "none"
  inside,    \* the names of the files in it
  leaf,      \* the output: "none", "old" or "new"
  lock,      \* who holds the flock on the lease file, under any name or none
  pc,        \* where each process is
  external,  \* the recoverers that found a builder by its construction lease
  quiet      \* no process dies any more; only liveness refers to it

files == <<outer, dir, inside, leaf>>
vars  == <<outer, dir, inside, leaf, lock, pc, external, quiet>>

Processes == Recoverers \cup {Owner}

Staged == {"previous", "next", "approved", "installed"}
Names  == Staged \cup {"lease", "journal"}

Init ==
  /\ outer = FALSE /\ dir = "none" /\ inside = {}
  /\ leaf \in {"none", "old"}
  /\ lock = Nobody
  /\ pc = [p \in Processes |-> IF p = Owner THEN "create" ELSE "idle"]
  /\ external = {}
  /\ quiet = FALSE

Go(p, from, to) == pc[p] = from /\ pc' = [pc EXCEPT ![p] = to]

(* A step that only looks: it goes on according to what it sees.            *)
Look(p, from, seen, yes, no) ==
  /\ Go(p, from, IF seen THEN yes ELSE no)
  /\ UNCHANGED <<files, lock, external, quiet>>

(* try_lock_exclusive on a lease file opened before, which may have been    *)
(* moved or removed since.                                                 *)
TryLock(p, from, acquired, held) ==
  /\ Go(p, from, IF lock = Nobody THEN acquired ELSE held)
  /\ lock' = IF lock = Nobody THEN p ELSE lock
  /\ UNCHANGED <<files, quiet>>

Released(p) == IF lock = p THEN Nobody ELSE lock

-----------------------------------------------------------------------------
(* The owner: OutputTransaction::begin.                                     *)

CreateLease ==
  /\ Go(Owner, "create", "lock")
  /\ outer' = TRUE
  /\ UNCHANGED <<dir, inside, leaf, lock, external, quiet>>

(* A recoverer may have taken the new file for an orphan: begin then fails.  *)
LockLease == TryLock(Owner, "lock", "mkdir", "failed") /\ UNCHANGED external

MakeDir ==
  /\ Go(Owner, "mkdir", "open")
  /\ dir' = "building"
  /\ UNCHANGED <<outer, inside, leaf, lock, external, quiet>>

OpenDir == Look(Owner, "open", dir = "building", "move", "abort")

(* Mutant of MoveLease: the lease keeps its construction name.              *)
MoveLeaseUnrenamed ==
  /\ Go(Owner, "move", "writeJournal")
  /\ outer /\ dir = "building"
  /\ outer' = FALSE /\ inside' = inside \cup {"building-lease"}
  /\ UNCHANGED <<dir, leaf, lock, external, quiet>>

MoveLease ==
  /\ Go(Owner, "move", "writeJournal")
  /\ outer /\ dir = "building"
  /\ outer' = FALSE /\ inside' = inside \cup {"lease"}
  /\ UNCHANGED <<dir, leaf, lock, external, quiet>>

MoveFails ==
  /\ Go(Owner, "move", "abort")
  /\ ~outer \/ dir # "building"
  /\ UNCHANGED <<files, lock, external, quiet>>

(* begin's error paths: the construction lease, the lock, the directory.    *)
Abort ==
  /\ Go(Owner, "abort", "unlockBuilding")
  /\ outer' = FALSE
  /\ UNCHANGED <<dir, inside, leaf, lock, external, quiet>>

Write(from, to, name) ==
  /\ Go(Owner, from, to)
  /\ dir # "none"
  /\ inside' = inside \cup {name}
  /\ UNCHANGED <<outer, dir, leaf, lock, external, quiet>>

WriteJournal == Write("writeJournal", "writeNext", "journal")
WriteNext    == Write("writeNext", "publish", "next")

Publish ==
  /\ Go(Owner, "publish", "quarantine")
  /\ dir = "building"
  /\ dir' = "txn"
  /\ UNCHANGED <<outer, inside, leaf, lock, external, quiet>>

(* A name goes once those the code removes earlier are gone.                *)
Remove(p, at, name, earlier) ==
  /\ pc[p] = at
  /\ name \in inside /\ inside \cap earlier = {}
  /\ inside' = inside \ {name}
  /\ UNCHANGED <<outer, dir, leaf, lock, pc, external, quiet>>

(* An error while the directory is filled or renamed: begin takes back what  *)
(* it wrote.                                                               *)
WriteFails ==
  /\ pc[Owner] \in {"writeJournal", "writeNext", "publish"}
  /\ pc' = [pc EXCEPT ![Owner] = "undo"]
  /\ UNCHANGED <<files, lock, external, quiet>>

Undo ==
  \/ Remove(Owner, "undo", "journal", {})
  \/ Remove(Owner, "undo", "next", {"journal"})
  \/ Remove(Owner, "undo", "lease", {"journal", "next"})

UndoDone == inside = {} /\ Look(Owner, "undo", TRUE, "unlockBuilding", "")

(* The owner: quarantine, approve and install.                              *)

Quarantine ==
  /\ Go(Owner, "quarantine", "approve")
  /\ leaf' = "none"
  /\ inside' = IF leaf = "none" THEN inside ELSE inside \cup {"previous"}
  /\ UNCHANGED <<outer, dir, lock, external, quiet>>

Approve == Write("approve", "install", "approved")

Install ==
  /\ Go(Owner, "install", "mark")
  /\ leaf = "none" /\ "next" \in inside
  /\ leaf' = "new" /\ inside' = inside \ {"next"}
  /\ UNCHANGED <<outer, dir, lock, external, quiet>>

Mark == Write("mark", "clean", "installed")

-----------------------------------------------------------------------------
(* Cleaning a published transaction, the owner's (cleanup) and a            *)
(* recoverer's (cleanup_recovered_transaction) alike.                      *)

Clean(p) ==
  \/ Remove(p, "clean", "previous", {})
  \/ Remove(p, "clean", "next", {"previous"})
  \/ Remove(p, "clean", "approved", {"previous", "next"})
  \/ Remove(p, "clean", "installed", {"previous", "next", "approved"})

CleanDone(p) ==
  /\ inside \cap Staged = {}
  /\ Look(p, "clean", TRUE, "dropJournal", "")

(* The removals from here on must find their file, or the call fails.        *)
Drop(p, from, to, name) ==
  /\ Go(p, from, to)
  /\ name \in inside
  /\ inside' = inside \ {name}
  /\ UNCHANGED <<outer, dir, leaf, lock, external, quiet>>

DropJournal(p) == Drop(p, "dropJournal", "dropLease", "journal")
DropLease(p)   == Drop(p, "dropLease", "unlockTxn", "lease")

Unlock(p, from, to) ==
  /\ Go(p, from, to)
  /\ lock' = Released(p)
  /\ UNCHANGED <<files, external, quiet>>

UnlockTxn(p) == Unlock(p, "unlockTxn", "removeTxn")

(* remove_dir by name: a directory that has another name by now, or none,   *)
(* is not found, which is no error; one that is not empty would be.        *)
RemoveTxn(p) ==
  /\ Go(p, "removeTxn", IF p = Owner THEN "done" ELSE "idle")
  /\ dir = "txn" => inside = {}
  /\ dir' = IF dir = "txn" THEN "none" ELSE dir
  /\ UNCHANGED <<outer, inside, leaf, lock, external, quiet>>

-----------------------------------------------------------------------------
(* A recoverer: cleanup_building_transactions.                              *)

ListBuildings(r) == Look(r, "idle", dir = "building", "openBuilding", "listOrphans")
OpenBuilding(r)  == Look(r, "openBuilding", dir = "building", "inner", "listOrphans")
FindInner(r)     == Look(r, "inner", "lease" \in inside, "lockInner", "outer")
FindOuter(r)     == Look(r, "outer", outer, "lockOuter", "recheck")

(* Mutant of RecheckInner: the construction lease absent, nobody owns it.    *)
RecheckNothing(r) == Look(r, "recheck", FALSE, "", "inspect")

(* The owner may have moved its lease in between the two looks.             *)
RecheckInner(r)  == Look(r, "recheck", "lease" \in inside, "lockInner", "inspect")

LockInner(r) == TryLock(r, "lockInner", "inspect", "listOrphans") /\ UNCHANGED external

LockOuter(r) ==
  /\ TryLock(r, "lockOuter", "inspect", "listOrphans")
  /\ external' = IF lock = Nobody THEN external \cup {r} ELSE external

(* cleanup_unpublished_transaction: through the handle opened above.         *)
Unpublished == {"lease", "journal", "next"}

Inspect(r) ==
  /\ inside \subseteq Unpublished
  /\ Look(r, "inspect", TRUE, "discard", "")

Refuse(r) ==
  /\ ~(inside \subseteq Unpublished)
  /\ Go(r, "inspect", "idle")
  /\ lock' = Released(r) /\ external' = external \ {r}
  /\ UNCHANGED <<files, quiet>>

Discard(r) ==
  \/ Remove(r, "discard", "next", {})
  \/ Remove(r, "discard", "journal", {"next"})
  \/ Remove(r, "discard", "lease", {"next", "journal"})

DiscardDone(r) ==
  /\ inside \cap Unpublished = {}
  /\ Look(r, "discard", TRUE, "unlockBuilding", "")

UnlockBuilding(p) == Unlock(p, "unlockBuilding", "removeBuilding")

RemoveBuilding(p) ==
  /\ Go(p, "removeBuilding", IF p = Owner THEN "failed"
                             ELSE IF p \in external THEN "removeOuter" ELSE "listOrphans")
  /\ dir = "building" => inside = {}
  /\ dir' = IF dir = "building" THEN "none" ELSE dir
  /\ UNCHANGED <<outer, inside, leaf, lock, external, quiet>>

RemoveOuter(r) ==
  /\ Go(r, "removeOuter", "listOrphans")
  /\ outer' = FALSE /\ external' = external \ {r}
  /\ UNCHANGED <<dir, inside, leaf, lock, quiet>>

(* cleanup_orphaned_construction_leases.                                    *)

(* Mutant of ListOrphans: construction leases are left where they are.       *)
ListNoOrphans(r) == Look(r, "listOrphans", FALSE, "", "listTxns")

ListOrphans(r) == Look(r, "listOrphans", outer, "checkBuilding", "listTxns")
CheckBuilding(r) == Look(r, "checkBuilding", dir = "building", "listTxns", "openOrphan")
OpenOrphan(r)  == Look(r, "openOrphan", outer, "lockOrphan", "listTxns")
LockOrphan(r)  == TryLock(r, "lockOrphan", "dropOrphan", "listTxns") /\ UNCHANGED external

DropOrphan(r) ==
  /\ Go(r, "dropOrphan", "unlockOrphan")
  /\ outer' = FALSE
  /\ UNCHANGED <<dir, inside, leaf, lock, external, quiet>>

UnlockOrphan(r) == Unlock(r, "unlockOrphan", "listTxns")

-----------------------------------------------------------------------------
(* A recoverer: recover_scanned_transaction.                                *)

ListTxns(r) == Look(r, "listTxns", dir = "txn", "openTxn", "idle")
OpenTxn(r)  == Look(r, "openTxn", dir = "txn", "findLease", "idle")
FindLease(r) == Look(r, "findLease", "lease" \in inside, "lockTxn", "residue")

(* Mutant of LockTxn: a lease somebody holds is no obstacle.                *)
LockTxnAnyway(r) ==
  /\ Go(r, "lockTxn", "readJournal")
  /\ lock' = r
  /\ UNCHANGED <<files, external, quiet>>

LockTxn(r)  == TryLock(r, "lockTxn", "readJournal", "idle") /\ UNCHANGED external

ReadJournal(r) == Look(r, "readJournal", "journal" \in inside, "decide", "residue")

(* The journal names another output than the one this call is about.        *)
LeavePending(r) == "journal" \in inside /\ Unlock(r, "readJournal", "idle")

(* A finished transaction of which at most the lease is left.  Anything     *)
(* else without lease or journal is an error in the code and never found:  *)
(* ResidueIsResidue says so.                                               *)
Residue(r) ==
  /\ inside \subseteq {"lease"}
  /\ Go(r, "residue", "unlockTxn")
  /\ inside' = {}
  /\ UNCHANGED <<outer, dir, leaf, lock, external, quiet>>

(* Mutant of Decide: an approval is not looked at, the old file comes back.  *)
DecideToRestore(r) ==
  Look(r, "decide", "previous" \in inside /\ "installed" \notin inside, "restore", "clean")

(* recover_published_transaction, as far as it goes when only gnr8 touches  *)
(* the output; its other arms are in OutputTransaction.                    *)
Decide(r) ==
  LET approved == "approved" \in inside /\ "installed" \notin inside IN
  Look(r, "decide", approved, IF leaf = "none" THEN "reinstall" ELSE "remark",
       IF "previous" \in inside /\ "installed" \notin inside THEN "restore" ELSE "clean")

Reinstall(r) ==
  /\ Go(r, "reinstall", "remark")
  /\ leaf = "none" /\ "next" \in inside
  /\ leaf' = "new" /\ inside' = inside \ {"next"}
  /\ UNCHANGED <<outer, dir, lock, external, quiet>>

Remark(r) ==
  /\ Go(r, "remark", "clean")
  /\ inside' = inside \cup {"installed"}
  /\ UNCHANGED <<outer, dir, leaf, lock, external, quiet>>

Restore(r) ==
  /\ Go(r, "restore", "clean")
  /\ leaf = "none"
  /\ leaf' = "old" /\ inside' = inside \ {"previous"}
  /\ UNCHANGED <<outer, dir, lock, external, quiet>>

-----------------------------------------------------------------------------
(* A process dies, or returns an error: its lock is free, the files stay.    *)
Crash(p) ==
  /\ ~quiet
  /\ pc[p] \notin {"idle", "done", "failed", "dead"}
  /\ pc' = [pc EXCEPT ![p] = IF p = Owner THEN "dead" ELSE "idle"]
  /\ lock' = Released(p)
  /\ external' = external \ {p}
  /\ UNCHANGED <<files, quiet>>

BecomeQuiet ==
  /\ ~quiet
  /\ quiet' = TRUE
  /\ UNCHANGED <<files, lock, pc, external>>

CleanUp(p) ==
  \/ Clean(p) \/ CleanDone(p) \/ DropJournal(p) \/ DropLease(p)
  \/ UnlockTxn(p) \/ RemoveTxn(p)
  \/ UnlockBuilding(p) \/ RemoveBuilding(p)

Build ==
  \/ CreateLease \/ LockLease \/ MakeDir \/ OpenDir \/ MoveLease \/ MoveFails \/ Abort
  \/ WriteJournal \/ WriteNext \/ Publish \/ WriteFails \/ Undo \/ UndoDone

Swap == Quarantine \/ Approve \/ Install \/ Mark

Replace == Build \/ Swap \/ CleanUp(Owner)

ScanBuilding(r) ==
  \/ ListBuildings(r) \/ OpenBuilding(r) \/ FindInner(r) \/ FindOuter(r) \/ RecheckInner(r)
  \/ LockInner(r) \/ LockOuter(r) \/ Inspect(r) \/ Refuse(r) \/ Discard(r) \/ DiscardDone(r)
  \/ RemoveOuter(r)

SweepOrphan(r) ==
  \/ ListOrphans(r) \/ CheckBuilding(r) \/ OpenOrphan(r)
  \/ LockOrphan(r) \/ DropOrphan(r) \/ UnlockOrphan(r)

RecoverTxn(r) ==
  \/ ListTxns(r) \/ OpenTxn(r) \/ FindLease(r) \/ LockTxn(r) \/ ReadJournal(r)
  \/ LeavePending(r) \/ Residue(r) \/ Decide(r) \/ Reinstall(r) \/ Remark(r) \/ Restore(r)

Recover(r) == ScanBuilding(r) \/ SweepOrphan(r) \/ RecoverTxn(r) \/ CleanUp(r)

Next ==
  \/ Replace
  \/ \E r \in Recoverers : Recover(r)
  \/ \E p \in Processes : Crash(p)
  \/ BecomeQuiet

Spec == Init /\ [][Next]_vars

(* A process that runs goes on, and gnr8 is run again and again over the    *)
(* directory, each time for every output in it.                            *)
Fairness ==
  /\ WF_vars(Replace)
  /\ \A r \in Recoverers : WF_vars(Recover(r)) /\ SF_vars(ReadJournal(r))

FairSpec == Spec /\ Fairness

-----------------------------------------------------------------------------
OwnerSteps == {"create", "lock", "mkdir", "open", "move", "abort", "writeJournal", "writeNext",
               "publish", "undo", "quarantine", "approve", "install", "mark", "done", "failed", "dead"}
RecovererSteps == {"idle", "openBuilding", "inner", "lockInner", "outer", "lockOuter", "recheck",
                   "inspect", "discard", "removeOuter", "listOrphans", "checkBuilding",
                   "openOrphan", "lockOrphan", "dropOrphan", "unlockOrphan",
                   "listTxns", "openTxn", "findLease", "lockTxn", "readJournal", "residue",
                   "decide", "reinstall", "remark", "restore"}
SharedSteps == {"clean", "dropJournal", "dropLease", "unlockTxn", "removeTxn",
                "unlockBuilding", "removeBuilding"}

(* Every variable has its type; in particular the directory holds no other  *)
(* names than recovery knows.                                              *)
TypeOK ==
  /\ outer \in BOOLEAN /\ dir \in {"none", "building", "txn"}
  /\ inside \subseteq Names
  /\ leaf \in {"none", "old", "new"}
  /\ lock \in Processes \cup {Nobody}
  /\ pc \in [Processes -> OwnerSteps \cup RecovererSteps \cup SharedSteps]
  /\ pc[Owner] \in OwnerSteps \cup SharedSteps
  /\ \A r \in Recoverers : pc[r] \in RecovererSteps \cup SharedSteps
  /\ external \subseteq Recoverers
  /\ quiet \in BOOLEAN

(* From the moment its lease is in the directory until it removes it, no    *)
(* recoverer takes anything from a living owner: the directory has the     *)
(* name and the files the owner left (cleanup_building_transactions,       *)
(* recover_scanned_transaction against OutputTransaction).                 *)
Preparing == {"writeJournal", "writeNext", "publish"}
Replacing == {"quarantine", "approve", "install", "mark", "clean", "dropJournal", "dropLease"}

OwnerUndisturbed ==
  LET at == pc[Owner] IN
  /\ at \in Preparing \cup Replacing => lock = Owner /\ "lease" \in inside
  /\ at \in Preparing => dir = "building"
  /\ at \in Replacing => dir = "txn"
  /\ at \in (Preparing \cup Replacing) \ {"writeJournal", "dropLease"} => "journal" \in inside
  /\ at \in {"publish", "quarantine", "approve", "install"} => "next" \in inside
  /\ at \in {"install", "mark"} => "approved" \in inside

(* The removals and renames that have no tolerance for a missing or an       *)
(* existing file never meet one, whatever else is recovering: strict        *)
(* remove_file and remove_dir in cleanup, cleanup_recovered_transaction and *)
(* cleanup_unpublished_transaction, rename_noreplace in recovery.           *)
StrictStepsSucceed ==
  \A p \in Processes :
    /\ pc[p] = "dropJournal" => "journal" \in inside
    /\ pc[p] = "dropLease" => "lease" \in inside
    /\ pc[p] = "removeTxn" /\ dir = "txn" => inside = {}
    /\ pc[p] = "removeBuilding" /\ dir = "building" => inside = {}
    /\ pc[p] = "reinstall" => leaf = "none" /\ "next" \in inside
    /\ pc[p] = "restore" => leaf = "none" /\ "previous" \in inside

(* recover_scanned_transaction never has to report a transaction without    *)
(* lease or journal: what lacks them is what a finished one leaves.        *)
ResidueIsResidue ==
  \A r \in Recoverers : pc[r] = "residue" => inside \subseteq {"lease"}

(* Neither of the errors that the code has for such cases is ever met.        *)
NothingUnforeseen == StrictStepsSucceed /\ ResidueIsResidue

(* Replacing the output is atomic to everybody: see AtomicReplace.  The      *)
(* output counts as what recovery will make of it.                          *)
Value == IF leaf # "none" THEN leaf
         ELSE IF {"approved", "next"} \subseteq inside THEN "new"
         ELSE IF "previous" \in inside THEN "old" ELSE "none"

Writer == IF pc[Owner] = "done" THEN "done"
          ELSE IF pc[Owner] \in {"failed", "dead"} THEN "gone" ELSE "busy"

Atomic == INSTANCE AtomicReplace WITH value <- Value, writer <- Writer

ReplacesAtomically == Atomic!Spec

(* Once nothing dies any more, recovery leaves nothing behind: no directory, *)
(* no lease, and the output is what it counted as.                         *)
Reclaimed == [](quiet => <>[](dir = "none" /\ ~outer /\ leaf = Value))
=============================================================================
