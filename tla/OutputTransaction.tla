------------------------- MODULE OutputTransaction -------------------------
(***************************************************************************)
(* How gnr8 writes, protects, prunes and recovers ONE generated output.    *)
(*                                                                         *)
(* A generation (lifecycle/mod.rs, regenerate_with_anchors) runs under the *)
(* project's generation guard, so generations are serial; what they race   *)
(* with is the user, who edits or deletes the output between any two file  *)
(* operations, and the death of the process, which leaves the files as     *)
(* they are and frees every lock.  A run that returns an error leaves the  *)
(* same files behind as a run that dies there, so Crash stands for both.   *)
(*                                                                         *)
(* Each action is one file operation, or a read together with the decision *)
(* taken from it.  Bytes stand for file contents and for their blake3      *)
(* hashes alike.                                                           *)
(***************************************************************************)
EXTENDS Naturals

CONSTANTS
  Bytes,       \* what a file may contain
  Generated,   \* the contents the pipeline may produce for this output
  EmptyBytes,  \* the empty content a stale-output transaction stages
  None,        \* no file, no recorded hash, no journal
  IoFaults     \* whether the rename that installs an output may fail by itself

ASSUME BytesAssumption ==
  /\ Generated \subseteq Bytes
  /\ EmptyBytes \in Bytes
  /\ None \notin Bytes
  /\ IoFaults \in BOOLEAN

(***************************************************************************)
(* A file carries, besides its bytes, who put them there.  The program     *)
(* never looks at "by": it is a history field the properties use.          *)
(***************************************************************************)
File == [bytes : Bytes, by : {"user", "gnr8"}]
ASSUME NoneAssumption == None \notin File /\ None \notin [hash : Bytes \cup {None}]

VARIABLES
  leaf,      \* the output itself: a File, or None
  txn,       \* the transaction directory beside it
  journal,   \* the generation journal in .gnr8/cache: None or its entry for this output
  manifest,  \* the hash the saved manifest records for this output, or None
  pc,        \* where the running generation is; "idle" when none runs
  phase,     \* "journal" while recovering abandoned generations, "write" after
  new,       \* what this generation produces for the output; None when it no longer does
  force,     \* whether it runs with --force
  owned,     \* the hash its in-memory manifest records for the output
  recovered, \* the hash the last recovery found gnr8 had installed
  seen,      \* the current file as the write pass read it
  outcome,   \* how the last generation ended, or what this one did so far
  quiet      \* the environment has stopped: no more edits, no more process deaths

disk    == <<leaf, txn>>
state   == <<journal, manifest>>
memory  == <<phase, new, force, owned, recovered, seen>>
vars    == <<leaf, txn, journal, manifest, pc, phase, new, force, owned,
             recovered, seen, outcome, quiet>>

(***************************************************************************)
(* The transaction directory .gnr8-<token>-building, renamed to -txn once  *)
(* complete: its files, and two history fields.  "released" says that the   *)
(* protected file may be discarded, "disturbed" that the user touched the  *)
(* output, or its install failed, while the transaction was open.          *)
(***************************************************************************)
Txn == [dir : {"none", "building", "txn"},
        lease : BOOLEAN, journal : Bytes \cup {None},
        next : Bytes \cup {None}, previous : File \cup {None},
        approved : BOOLEAN, installed : BOOLEAN,
        released : BOOLEAN, disturbed : BOOLEAN]

NoTxn == [dir |-> "none", lease |-> FALSE, journal |-> None, next |-> None,
          previous |-> None, approved |-> FALSE, installed |-> FALSE,
          released |-> FALSE, disturbed |-> FALSE]

Building == [NoTxn EXCEPT !.dir = "building", !.lease = TRUE]

Published(bytes) == [Building EXCEPT !.dir = "txn", !.journal = bytes, !.next = bytes]

Holds(file, bytes) == file # None /\ file.bytes = bytes
SameBytes(f, g)    == f # None /\ g # None /\ f.bytes = g.bytes

(***************************************************************************)
(* classify_planned_file: what a non-forced generation of bytes may do to  *)
(* a file, given the recorded hash.                                        *)
(***************************************************************************)
Unchanged(file)  == Holds(file, new)
UserEdited(file) == file # None /\ file.bytes # new /\ file.bytes # owned
Writable(file)   == file # None => (file.bytes # new /\ file.bytes = owned)

(***************************************************************************)
(* Ends of a generation: the guard and the leases are freed, the memory is *)
(* gone, the files stay.                                                   *)
(***************************************************************************)
Forget ==
  /\ phase' = "journal" /\ new' = None /\ force' = FALSE
  /\ owned' = None /\ recovered' = None /\ seen' = None

Stop(how) == pc' = "idle" /\ outcome' = how /\ Forget

Init ==
  /\ leaf \in {None} \cup [bytes : Bytes, by : {"user"}]
  /\ txn = NoTxn
  /\ journal = None /\ manifest = None
  /\ pc = "idle" /\ phase = "journal" /\ new = None /\ force = FALSE
  /\ owned = None /\ recovered = None /\ seen = None
  /\ outcome = "none"
  /\ quiet = FALSE

-----------------------------------------------------------------------------
(* The environment. *)

Disturbed == [txn EXCEPT !.disturbed = @ \/ txn.dir = "txn"]

UserWrite(b) ==
  /\ ~quiet
  /\ leaf' = [bytes |-> b, by |-> "user"]
  /\ txn' = Disturbed
  /\ UNCHANGED <<state, memory, pc, outcome, quiet>>

UserDelete ==
  /\ ~quiet
  /\ leaf # None
  /\ leaf' = None
  /\ txn' = Disturbed
  /\ UNCHANGED <<state, memory, pc, outcome, quiet>>

Crash ==
  /\ ~quiet
  /\ pc # "idle"
  /\ Stop("crashed")
  /\ UNCHANGED <<disk, state, quiet>>

(* A move that never replaces makes the new name and then removes the old   *)
(* one; a process that dies in between leaves the file under both.         *)
CrashInMove ==
  /\ ~quiet
  /\ \/ /\ pc = "quarantine" /\ leaf # None
        /\ txn' = [txn EXCEPT !.previous = leaf] /\ UNCHANGED leaf
     \/ /\ pc \in {"install", "recoverInstall"} /\ leaf = None
        /\ leaf' = [bytes |-> txn.next, by |-> "gnr8"] /\ UNCHANGED txn
     \/ /\ pc \in {"giveBack", "undo", "recoverRestore"} /\ leaf = None
        /\ leaf' = txn.previous /\ UNCHANGED txn
  /\ Stop("crashed")
  /\ UNCHANGED <<state, quiet>>

BecomeQuiet ==
  /\ ~quiet
  /\ quiet' = TRUE
  /\ UNCHANGED <<disk, state, memory, pc, outcome>>

-----------------------------------------------------------------------------
(* Beginning a generation and recovering the abandoned one, if any. *)

(* begin_generation_operation, then acquire_generation_journals: only a     *)
(* path the abandoned journal names is recovered.                          *)
Start(n, f) ==
  /\ pc = "idle"
  /\ new' = n /\ force' = f
  /\ phase' = "journal" /\ owned' = manifest /\ recovered' = None /\ seen' = None
  /\ outcome' = "running"
  /\ pc' = IF journal = None THEN "open"
           ELSE IF journal.hash = None THEN "closeJournal" ELSE "recover"
  /\ UNCHANGED <<disk, state, quiet>>

(* Mutant of RecordRecovered: ownership is claimed over any bytes.          *)
RecordRecoveredAnything ==
  /\ pc = "recovered" /\ phase = "journal"
  /\ owned' = IF recovered # None THEN recovered
              ELSE IF leaf # None THEN leaf.bytes ELSE owned
  /\ pc' = "saveRecovered"
  /\ UNCHANGED <<disk, state, phase, new, force, recovered, seen, outcome, quiet>>

(* What recovery learned becomes ownership: either a transaction had        *)
(* installed the output, or the output holds the journalled bytes.         *)
RecordRecovered ==
  /\ pc = "recovered" /\ phase = "journal"
  /\ owned' = IF recovered # None THEN recovered
              ELSE IF Holds(leaf, journal.hash) THEN journal.hash ELSE owned
  /\ pc' = "saveRecovered"
  /\ UNCHANGED <<disk, state, phase, new, force, recovered, seen, outcome, quiet>>

SaveRecovered ==
  /\ pc = "saveRecovered"
  /\ manifest' = owned
  /\ pc' = "closeJournal"
  /\ UNCHANGED <<disk, journal, memory, outcome, quiet>>

CloseRecovered ==
  /\ pc = "closeJournal"
  /\ journal' = None
  /\ pc' = "open"
  /\ UNCHANGED <<disk, manifest, memory, outcome, quiet>>

(* The manifest is loaded and the generation journalled: the entry names    *)
(* the planned hash, or, for an output no longer produced, the recorded    *)
(* one (generation_recovery_files).                                        *)
OpenJournal ==
  /\ pc = "open"
  /\ owned' = manifest
  /\ journal' = [hash |-> IF new # None THEN new ELSE manifest]
  /\ phase' = "write" /\ recovered' = None
  /\ pc' = IF new = None /\ manifest = None THEN "save" ELSE "recover"
  /\ outcome' = IF new = None /\ manifest = None THEN "untouched" ELSE outcome
  /\ UNCHANGED <<disk, manifest, new, force, seen, quiet>>

-----------------------------------------------------------------------------
(* Recovery of an interrupted transaction (recover_transactions).           *)

Recovering == pc = "recover"
Residue    == /\ txn.journal = None /\ txn.next = None /\ txn.previous = None
              /\ ~txn.approved /\ ~txn.installed
Readable   == txn.dir = "txn" /\ txn.lease /\ txn.journal # None

RecoverNone ==
  /\ Recovering /\ txn.dir = "none"
  /\ pc' = "recovered"
  /\ UNCHANGED <<disk, state, memory, outcome, quiet>>

(* A directory that was never published protects nothing: it is removed.    *)
RecoverBuilding ==
  /\ Recovering /\ txn.dir = "building"
  /\ txn' = NoTxn
  /\ pc' = "recovered"
  /\ UNCHANGED <<leaf, state, memory, outcome, quiet>>

(* Only the lease, or nothing, is left of a finished transaction.  Any other *)
(* directory without lease or journal is an error in the code, and never   *)
(* reached: CrashAloneNeverConflicts says so.                              *)
RecoverResidue ==
  /\ Recovering /\ txn.dir = "txn" /\ Residue
  /\ pc' = "cleanup"
  /\ UNCHANGED <<disk, state, memory, outcome, quiet>>

Readables == Recovering /\ Readable
IsNext     == Holds(leaf, txn.journal)
IsPrevious == SameBytes(leaf, txn.previous)

RecoverInstalled ==
  /\ Readables /\ txn.installed /\ IsNext
  /\ recovered' = txn.journal
  /\ pc' = "cleanup"
  /\ UNCHANGED <<disk, state, phase, new, force, owned, seen, outcome, quiet>>

(* Approved: the decision to replace was taken, so it is carried out.       *)
RecoverToInstall ==
  /\ Readables /\ ~txn.installed /\ txn.approved
  /\ leaf = None /\ txn.next # None
  /\ pc' = "recoverInstall"
  /\ UNCHANGED <<disk, state, memory, outcome, quiet>>

RecoverToMark ==
  /\ Readables /\ ~txn.installed /\ txn.approved
  /\ IsNext
  /\ pc' = "recoverMark"
  /\ UNCHANGED <<disk, state, memory, outcome, quiet>>

(* The output already holds the protected bytes: the copy is dropped.       *)
RecoverDuplicate ==
  /\ Readables /\ ~txn.installed /\ IsPrevious
  /\ txn.approved => ~IsNext
  /\ txn' = [txn EXCEPT !.released = TRUE]
  /\ pc' = "cleanup"
  /\ UNCHANGED <<leaf, state, memory, outcome, quiet>>

RecoverToRestore ==
  /\ Readables /\ ~txn.installed
  /\ leaf = None /\ txn.previous # None
  /\ txn.approved => txn.next = None
  /\ pc' = "recoverRestore"
  /\ UNCHANGED <<disk, state, memory, outcome, quiet>>

(* Mutant of RecoverNothing: a transaction that protects nothing is an error. *)
RecoverNothingRefused ==
  /\ Readables /\ ~txn.installed /\ txn.previous = None
  /\ txn.approved => leaf = None /\ txn.next = None
  /\ Stop("error")
  /\ UNCHANGED <<disk, state, quiet>>

RecoverNothing ==
  /\ Readables /\ ~txn.installed /\ txn.previous = None
  /\ txn.approved => leaf = None /\ txn.next = None
  /\ pc' = "cleanup"
  /\ UNCHANGED <<disk, state, memory, outcome, quiet>>

(* The output is neither the staged nor the protected bytes: the run fails  *)
(* and the transaction stays.                                              *)
Conflict ==
  \/ txn.installed /\ ~IsNext
  \/ /\ ~txn.installed /\ leaf # None /\ ~IsPrevious
     /\ IF txn.approved THEN ~IsNext ELSE txn.previous # None

RecoverConflict ==
  /\ Readables /\ Conflict
  /\ Stop("conflict")
  /\ UNCHANGED <<disk, state, quiet>>

(* The renames never replace: a file that appeared since the reads stops    *)
(* the run.                                                                *)
RecoverInstall ==
  /\ pc = "recoverInstall" /\ leaf = None
  /\ leaf' = [bytes |-> txn.next, by |-> "gnr8"]
  /\ txn' = [txn EXCEPT !.next = None]
  /\ pc' = "recoverMark"
  /\ UNCHANGED <<state, memory, outcome, quiet>>

RecoverMark ==
  /\ pc = "recoverMark"
  /\ txn' = [txn EXCEPT !.installed = TRUE]
  /\ recovered' = txn.journal
  /\ pc' = "cleanup"
  /\ UNCHANGED <<leaf, state, phase, new, force, owned, seen, outcome, quiet>>

RecoverRestore ==
  /\ pc = "recoverRestore" /\ leaf = None
  /\ leaf' = txn.previous
  /\ txn' = [txn EXCEPT !.previous = None, !.released = FALSE]
  /\ pc' = "cleanup"
  /\ UNCHANGED <<state, memory, outcome, quiet>>

RecoverBlocked ==
  /\ pc \in {"recoverInstall", "recoverRestore"} /\ leaf # None
  /\ Stop("error")
  /\ UNCHANGED <<disk, state, quiet>>

Recover ==
  \/ RecoverNone \/ RecoverBuilding \/ RecoverResidue
  \/ RecoverInstalled \/ RecoverToInstall \/ RecoverToMark \/ RecoverDuplicate
  \/ RecoverToRestore \/ RecoverNothing \/ RecoverConflict
  \/ RecoverInstall \/ RecoverMark \/ RecoverRestore \/ RecoverBlocked

-----------------------------------------------------------------------------
(* Cleanup, the owner's and recovery's alike: the files go in a fixed       *)
(* order, the journal after every file recovery decides from, the lease    *)
(* last.                                                                   *)

RemovePrevious == txn.previous # None /\ txn' = [txn EXCEPT !.previous = None]
RemoveNext     == /\ txn.previous = None /\ txn.next # None
                  /\ txn' = [txn EXCEPT !.next = None]
RemoveApproved == /\ txn.previous = None /\ txn.next = None /\ txn.approved
                  /\ txn' = [txn EXCEPT !.approved = FALSE]
RemoveInstalled == /\ txn.previous = None /\ txn.next = None /\ ~txn.approved
                   /\ txn.installed
                   /\ txn' = [txn EXCEPT !.installed = FALSE]
(* Mutant of RemoveJournal: the journal goes before the decision markers.    *)
RemoveJournalEarly == /\ txn.previous = None /\ txn.next = None /\ txn.journal # None
                      /\ txn' = [txn EXCEPT !.journal = None]

RemoveJournal  == /\ txn.previous = None /\ txn.next = None
                  /\ ~txn.approved /\ ~txn.installed /\ txn.journal # None
                  /\ txn' = [txn EXCEPT !.journal = None]
RemoveLease    == Residue /\ txn.lease /\ txn' = [txn EXCEPT !.lease = FALSE]

CleanupStep ==
  /\ pc = "cleanup"
  /\ \/ RemovePrevious \/ RemoveNext \/ RemoveApproved \/ RemoveInstalled
     \/ RemoveJournal \/ RemoveLease
  /\ UNCHANGED <<leaf, state, memory, pc, outcome, quiet>>

(* The directory goes.  A recovery returns to the generation it serves; an  *)
(* owner's cleanup ends its write.                                         *)
CleanupDone ==
  /\ pc = "cleanup" /\ Residue /\ ~txn.lease
  /\ txn' = NoTxn
  /\ pc' = IF outcome = "running" THEN "recovered" ELSE "settle"
  /\ UNCHANGED <<leaf, state, memory, outcome, quiet>>

-----------------------------------------------------------------------------
(* The write pass (apply_writes_with_anchors).                              *)

(* The current bytes are read after recovery and before any write, in one   *)
(* batch; a recovered hash is owned from here on.                          *)
ReadCurrent ==
  /\ pc = "recovered" /\ phase = "write" /\ new # None
  /\ owned' = IF recovered # None THEN recovered ELSE owned
  /\ seen' = leaf
  /\ pc' = "classify"
  /\ UNCHANGED <<disk, state, phase, new, force, recovered, outcome, quiet>>

(* Mutant of KeepUnchanged: the file itself is recorded, not its hash.       *)
KeepUnchangedFile ==
  /\ pc = "classify" /\ Unchanged(seen)
  /\ owned' = seen
  /\ outcome' = "unchanged"
  /\ pc' = "save"
  /\ UNCHANGED <<disk, state, phase, new, force, recovered, seen, quiet>>

KeepUnchanged ==
  /\ pc = "classify" /\ Unchanged(seen)
  /\ owned' = new
  /\ outcome' = "unchanged"
  /\ pc' = "save"
  /\ UNCHANGED <<disk, state, phase, new, force, recovered, seen, quiet>>

Protect ==
  /\ pc = "classify" /\ UserEdited(seen) /\ ~force
  /\ outcome' = "skipped"
  /\ pc' = "save"
  /\ UNCHANGED <<disk, state, memory, quiet>>

BeginWrite ==
  /\ pc = "classify" /\ (Writable(seen) \/ (UserEdited(seen) /\ force))
  /\ txn' = Building
  /\ pc' = "publish"
  /\ UNCHANGED <<leaf, state, memory, outcome, quiet>>

(* A manifest-owned output this generation does not produce is deleted      *)
(* through a transaction of its own.                                       *)
BeginPrune ==
  /\ pc = "recovered" /\ phase = "write" /\ new = None
  /\ owned' = IF recovered # None THEN recovered ELSE owned
  /\ txn' = Building
  /\ pc' = "publish"
  /\ UNCHANGED <<leaf, state, phase, new, force, recovered, seen, outcome, quiet>>

Publish ==
  /\ pc = "publish"
  /\ txn' = Published(IF new = None THEN EmptyBytes ELSE new)
  /\ pc' = "quarantine"
  /\ UNCHANGED <<leaf, state, memory, outcome, quiet>>

(* The output is moved aside, whatever it holds by now.                     *)
Quarantine ==
  /\ pc = "quarantine"
  /\ txn' = [txn EXCEPT !.previous = leaf]
  /\ leaf' = None
  /\ pc' = IF new = None THEN "judgeStale" ELSE "judge"
  /\ UNCHANGED <<state, memory, outcome, quiet>>

(* The bytes moved aside may be discarded only by consent: they are the     *)
(* recorded ones, or the user said --force.                                *)
Consent == force \/ Holds(txn.previous, owned)

(* Mutant of Approve: what was moved aside is not classified again.          *)
ApproveUnseen ==
  /\ pc = "judge"
  /\ txn' = [txn EXCEPT !.approved = TRUE, !.released = Consent]
  /\ pc' = "install"
  /\ UNCHANGED <<leaf, state, memory, outcome, quiet>>

Approve ==
  /\ pc = "judge" /\ (force \/ Writable(txn.previous))
  /\ txn' = [txn EXCEPT !.approved = TRUE, !.released = Consent]
  /\ pc' = "install"
  /\ UNCHANGED <<leaf, state, memory, outcome, quiet>>

(* The output changed since it was read: it is given back.                  *)
GiveBack ==
  /\ pc = "judge" /\ ~force
  /\ Unchanged(txn.previous) \/ UserEdited(txn.previous)
  /\ outcome' = IF Unchanged(txn.previous) THEN "unchanged" ELSE "skipped"
  /\ pc' = "giveBack"
  /\ UNCHANGED <<disk, state, memory, quiet>>

(* Mutant of Restore: the transaction is not cleaned up after the restore.   *)
RestoreOnly ==
  /\ pc = "giveBack" /\ leaf = None
  /\ leaf' = txn.previous
  /\ txn' = [txn EXCEPT !.previous = None, !.released = FALSE]
  /\ pc' = "settle"
  /\ UNCHANGED <<state, memory, outcome, quiet>>

(* Mutant of Restore: the move replaces what is at the output by now.         *)
RestoreOver ==
  /\ pc = "giveBack"
  /\ leaf' = txn.previous
  /\ txn' = [txn EXCEPT !.previous = None, !.released = FALSE]
  /\ pc' = "cleanup"
  /\ UNCHANGED <<state, memory, outcome, quiet>>

Restore ==
  /\ pc = "giveBack" /\ leaf = None
  /\ leaf' = txn.previous
  /\ txn' = [txn EXCEPT !.previous = None, !.released = FALSE]
  /\ pc' = "cleanup"
  /\ UNCHANGED <<state, memory, outcome, quiet>>

RestoreBlocked ==
  /\ pc = "giveBack" /\ leaf # None
  /\ Stop("error")
  /\ UNCHANGED <<disk, state, quiet>>

Install ==
  /\ pc = "install" /\ leaf = None
  /\ leaf' = [bytes |-> txn.next, by |-> "gnr8"]
  /\ txn' = [txn EXCEPT !.next = None]
  /\ pc' = "mark"
  /\ UNCHANGED <<state, memory, outcome, quiet>>

(* The install fails because a file appeared or the rename could not be     *)
(* done; the protected file, if there is one, is put back.                 *)
InstallFails ==
  /\ pc = "install"
  /\ leaf # None \/ (IoFaults /\ ~quiet)
  /\ txn' = [txn EXCEPT !.disturbed = TRUE]
  /\ IF txn.previous # None THEN pc' = "undo" /\ UNCHANGED <<memory, outcome>>
                            ELSE Stop("error")
  /\ UNCHANGED <<leaf, state, quiet>>

Undo ==
  /\ pc = "undo"
  /\ IF leaf = None
     THEN /\ leaf' = txn.previous
          /\ txn' = [txn EXCEPT !.previous = None, !.released = FALSE]
     ELSE UNCHANGED disk
  /\ Stop("error")
  /\ UNCHANGED <<state, quiet>>

(* The rename was done but its marker could not be written: the same error  *)
(* path tries to put the protected file back.                              *)
MarkFails ==
  /\ pc = "mark" /\ IoFaults /\ ~quiet
  /\ txn' = [txn EXCEPT !.disturbed = TRUE]
  /\ IF txn.previous # None THEN pc' = "undo" /\ UNCHANGED <<memory, outcome>>
                            ELSE Stop("error")
  /\ UNCHANGED <<leaf, state, quiet>>

Mark ==
  /\ pc = "mark"
  /\ txn' = [txn EXCEPT !.installed = TRUE]
  /\ outcome' = "written"
  /\ pc' = "cleanup"
  /\ UNCHANGED <<leaf, state, memory, quiet>>

(* finish_stale_transaction: an output no longer produced is deleted only   *)
(* while it holds the owned bytes, or by force; one that cannot be read is  *)
(* given back.                                                             *)
JudgeStale ==
  /\ pc = "judgeStale"
  /\ \/ /\ txn.previous = None
        /\ outcome' = "untouched"
        /\ pc' = "cleanup"
        /\ UNCHANGED txn
     \/ /\ txn.previous # None /\ (force \/ txn.previous.bytes = owned)
        /\ outcome' = "deleted"
        /\ txn' = [txn EXCEPT !.released = Consent]
        /\ pc' = "cleanup"
     \/ /\ txn.previous # None /\ ~force /\ txn.previous.bytes # owned
        /\ outcome' = "skipped"
        /\ pc' = "giveBack"
        /\ UNCHANGED txn
     \/ /\ txn.previous # None /\ IoFaults /\ ~quiet
        /\ outcome' = "error"
        /\ pc' = "giveBack"
        /\ UNCHANGED txn
  /\ UNCHANGED <<leaf, state, memory, quiet>>

(* The stale output could not be read: it was given back, and the run fails. *)
GiveUp ==
  /\ pc = "settle" /\ outcome = "error"
  /\ Stop("error")
  /\ UNCHANGED <<disk, state, quiet>>

Settle ==
  /\ pc = "settle" /\ outcome # "error"
  /\ owned' = IF outcome \in {"written", "unchanged"} THEN new ELSE owned
  /\ pc' = "save"
  /\ UNCHANGED <<disk, state, phase, new, force, recovered, seen, outcome, quiet>>

(* prune_to and save: an output no longer produced has no entry.            *)
Save ==
  /\ pc = "save"
  /\ manifest' = IF new = None THEN None ELSE owned
  /\ pc' = "finish"
  /\ UNCHANGED <<disk, journal, memory, outcome, quiet>>

Finish ==
  /\ pc = "finish"
  /\ journal' = None
  /\ Stop(outcome)
  /\ UNCHANGED <<disk, manifest, quiet>>

Generate ==
  \/ RecordRecovered \/ SaveRecovered \/ CloseRecovered \/ OpenJournal
  \/ Recover \/ CleanupStep \/ CleanupDone
  \/ ReadCurrent \/ KeepUnchanged \/ Protect \/ BeginWrite \/ BeginPrune
  \/ Publish \/ Quarantine \/ Approve \/ GiveBack \/ Restore \/ RestoreBlocked
  \/ Install \/ InstallFails \/ Undo \/ Mark \/ MarkFails \/ JudgeStale
  \/ GiveUp \/ Settle \/ Save \/ Finish

Begin == \E n \in Generated \cup {None}, f \in BOOLEAN : Start(n, f)

User == UserDelete \/ \E b \in Bytes : UserWrite(b)

Next == Begin \/ Generate \/ User \/ Crash \/ CrashInMove \/ BecomeQuiet

(* A running generation proceeds, and generations are run again.  Nothing   *)
(* is assumed of the user, of crashes or of when they stop.                *)
Spec == Init /\ [][Next]_vars /\ WF_vars(Generate) /\ WF_vars(Begin)

-----------------------------------------------------------------------------
(* Properties. *)

Phases == {"idle", "recover", "recoverInstall", "recoverMark", "recoverRestore",
           "recovered", "saveRecovered", "closeJournal", "open", "classify",
           "publish", "quarantine", "judge", "judgeStale", "install", "undo",
           "mark", "giveBack", "cleanup", "settle", "save", "finish"}

Outcomes == {"none", "running", "crashed", "error", "conflict",
             "written", "unchanged", "skipped", "deleted", "untouched"}

(* Every variable holds a value of its type. *)
TypeOK ==
  /\ leaf \in File \cup {None} /\ txn \in Txn
  /\ journal \in {None} \cup [hash : Bytes \cup {None}]
  /\ manifest \in Bytes \cup {None}
  /\ pc \in Phases /\ phase \in {"journal", "write"}
  /\ new \in Generated \cup {None} /\ force \in BOOLEAN
  /\ owned \in Bytes \cup {None} /\ recovered \in Bytes \cup {None}
  /\ seen \in File \cup {None}
  /\ outcome \in Outcomes /\ quiet \in BOOLEAN

(* No file the user wrote, whether it is at the output or set aside in the  *)
(* transaction, is lost by anything gnr8 does, at any crash or interleaving: *)
(* the program moves it, and discards it only after it compared it with the *)
(* recorded hash, found the same bytes at the output, or was told --force   *)
(* ("no silent clobbering").                                               *)
UserFile(f) == f # None /\ f.by = "user"
Kept(f) == f = leaf' \/ f = txn.previous'
NoUserDataLoss ==
  [][ \/ User
      \/ /\ UserFile(leaf) => Kept(leaf)
         /\ UserFile(txn.previous) => Kept(txn.previous) \/ txn.released ]_vars

(* Whatever crashed and wherever, an output that gnr8 installed is known as  *)
(* its own: when no generation runs, the hash of such a file is in the      *)
(* saved manifest or in the generation journal the next one will read, and *)
(* no generation reports one that nobody touched as hand-edited.           *)
OwnOutputIsKnown ==
  /\ pc = "idle" /\ leaf # None /\ leaf.by = "gnr8" =>
       manifest = leaf.bytes \/ (journal # None /\ journal.hash = leaf.bytes)
  /\ pc = "classify" /\ UserEdited(seen) => seen.by = "user"
  /\ pc = "giveBack" /\ outcome = "skipped" => txn.previous.by = "user"

(* Ownership is never claimed over bytes gnr8 did not generate: such a claim *)
(* would let a later generation overwrite or delete a user's file.         *)
OwnedBytesAreGenerated ==
  /\ manifest \in Generated \cup {None}
  /\ owned \in Generated \cup {None}

(* Ownership is claimed of what gnr8 wrote, and of nothing else.             *)
OwnershipHolds == OwnOutputIsKnown /\ OwnedBytesAreGenerated

(* Operation by operation, and wherever a process dies, one output is treated *)
(* as ProtectedOutputs promises: no rename replaces a file, and what was   *)
(* set aside comes back or is gnr8's to discard.                           *)
Content(f) == IF f = None THEN None ELSE f.bytes
Promise ==
  INSTANCE ProtectedOutputs
  WITH Outputs <- {1},
       file <- [o \in {1} |-> Content(leaf)], aside <- [o \in {1} |-> Content(txn.previous)],
       released <- IF txn.previous # None /\ txn.released THEN {1} ELSE {}, forced <- force

ProtectsOutput == [][User \/ Promise!Kept]_vars

(* A crash by itself never makes recovery fail: an interrupted transaction   *)
(* is always readable, and conflicts only if the user touched the output,  *)
(* or its install had failed, while the transaction was open.              *)
CrashAloneNeverConflicts ==
  /\ txn.dir = "txn" => Readable \/ Residue
  /\ outcome = "conflict" => txn.disturbed

(* A generation that ends well leaves no transaction and no journal, and its *)
(* manifest names what it left of its own at the output.                   *)
Succeeded == outcome \in {"written", "unchanged", "skipped", "deleted", "untouched"}
SuccessLeavesNothingBehind ==
  pc = "idle" /\ Succeeded =>
    /\ txn = NoTxn /\ journal = None
    /\ leaf # None /\ leaf.by = "gnr8" => manifest = leaf.bytes

(* Once edits and crashes have stopped, re-running generation either settles *)
(* (no transaction, no journal) or reports a conflict the user must solve. *)
Settled == pc = "idle" /\ txn = NoTxn /\ journal = None
Converges == quiet ~> Settled \/ outcome = "conflict"
=============================================================================
