----------------------------- MODULE Generation -----------------------------
(***************************************************************************)
(* Whole generations of several outputs, by several gnr8 processes of one  *)
(* project (lifecycle/mod.rs, regenerate_with_anchors).  They share the    *)
(* outputs, the saved ownership manifest and the generation journals, and  *)
(* take turns by the generation guard, a file lock that a dead process no  *)
(* longer holds.  A generation journals the hashes it is about to own,     *)
(* writes and prunes its outputs one by one, saves the manifest once, and  *)
(* removes the journal; the next one recovers what a dead one left.        *)
(*                                                                         *)
(* The transaction of an output is taken at the grain of what recovery can *)
(* tell apart; its single files are the subject of OutputTransaction, and  *)
(* scans by processes that do not hold the guard that of TransactionLease. *)
(* A run that returns an error leaves what a run that dies leaves, except  *)
(* for temporary files, so Crash stands for both.                          *)
(***************************************************************************)
EXTENDS Naturals

CONSTANTS
  Proc,      \* the processes
  Count,     \* how many outputs there are
  Generated, \* what the pipeline may produce for an output
  Foreign,   \* what only a user writes
  None,      \* no file, no entry, no process
  Plans      \* what a generation may have been asked to write

Outputs == 1 .. Count
Content == Generated \cup Foreign
Plan    == [Outputs -> Generated \cup {None}]

ASSUME GenerationAssumption ==
  /\ Count \in Nat \ {0}
  /\ Generated \cap Foreign = {}
  /\ None \notin Content \cup Proc
  /\ Plans \subseteq Plan

VARIABLES
  disk,     \* the outputs: contents, or None
  txn,      \* the transaction beside each output
  manifest, \* the saved manifest: a hash per output, or None
  temp,     \* the processes whose manifest file is written and not yet renamed
  markers,  \* the generation markers, by process; None stands for those of dead processes
  journals, \* the published generation journals, with who holds each
  guard,    \* who holds the generation guard
  pc, at,   \* where each process is, and at which output
  plan, force, \* what it writes, and whether by --force
  own,      \* its manifest in memory
  seen,     \* the outputs as its write pass read them
  outcome,  \* how the last generation ended, or that one is running
  last,     \* history: the plan of that generation, if it ended well
  quiet     \* edits and deaths have stopped; only liveness refers to it

files  == <<disk, txn>>
state  == <<manifest, temp, markers, journals>>
memory == <<plan, force, own, seen>>
vars   == <<disk, txn, manifest, temp, markers, journals, guard, pc, at, plan,
            force, own, seen, outcome, last, quiet>>

(* "aside": the output was moved aside.  "approved": it will be replaced.   *)
(* "moved": the new bytes are in place.  "installed": so the transaction   *)
(* says.  "done": its decisions are removed, the directory is not.         *)
Stages == {"aside", "approved", "moved", "installed", "done"}
NoTxn  == [stage |-> "none", next |-> None, previous |-> None, holder |-> None]
Txn    == [stage : Stages \cup {"none"}, next : Generated \cup {None},
           previous : Content \cup {None}, holder : Proc \cup {None}]

Nothing == [f \in Outputs |-> None]

(* The journals a process holds: those it recovers, or its own.             *)
Mine(p) == {j \in journals : j.holder = p}

Goes(p, place) == pc' = [pc EXCEPT ![p] = place]

Init ==
  /\ disk \in [Outputs -> Foreign \cup {None}]
  /\ txn = [f \in Outputs |-> NoTxn]
  /\ manifest = Nothing /\ temp = {} /\ markers = {} /\ journals = {}
  /\ guard = None
  /\ pc = [p \in Proc |-> "idle"] /\ at = [p \in Proc |-> 1]
  /\ plan = [p \in Proc |-> Nothing] /\ force = [p \in Proc |-> FALSE]
  /\ own = [p \in Proc |-> Nothing] /\ seen = [p \in Proc |-> Nothing]
  /\ outcome = "none" /\ last = None /\ quiet = FALSE

-----------------------------------------------------------------------------
(* The user, and the ends of a generation. *)

UserWrites(f, content) ==
  /\ ~quiet
  /\ disk' = [disk EXCEPT ![f] = content]
  /\ UNCHANGED <<txn, state, guard, pc, at, memory, outcome, last, quiet>>

(* A conflict names the directory of the transaction: the user may remove it *)
(* when nobody works on it.                                                *)
UserResolves(f) ==
  /\ ~quiet
  /\ txn[f] # NoTxn /\ txn[f].holder = None
  /\ txn' = [txn EXCEPT ![f] = NoTxn]
  /\ UNCHANGED <<disk, state, guard, pc, at, memory, outcome, last, quiet>>

User ==
  \/ \E f \in Outputs, content \in Foreign \cup {None} : UserWrites(f, content)
  \/ \E f \in Outputs : UserResolves(f)

BecomeQuiet ==
  /\ ~quiet /\ quiet' = TRUE
  /\ UNCHANGED <<files, state, guard, pc, at, memory, outcome, last>>

(* The locks of p are freed: the guard, its journals, its transaction.      *)
Freed(p) ==
  [f \in Outputs |-> IF txn[f].holder = p THEN [txn[f] EXCEPT !.holder = None]
                     ELSE txn[f]]
Released(p) == {IF j.holder = p THEN [j EXCEPT !.holder = None] ELSE j : j \in journals}

Forgets(p) ==
  /\ Goes(p, "idle") /\ at' = [at EXCEPT ![p] = 1]
  /\ plan' = [plan EXCEPT ![p] = Nothing] /\ force' = [force EXCEPT ![p] = FALSE]
  /\ own' = [own EXCEPT ![p] = Nothing] /\ seen' = [seen EXCEPT ![p] = Nothing]
  /\ guard' = None
  /\ UNCHANGED quiet

Crash(p) ==
  /\ ~quiet
  /\ pc[p] # "idle"
  /\ txn' = Freed(p) /\ journals' = Released(p)
  /\ markers' = {IF q = p THEN None ELSE q : q \in markers}
  /\ temp' = {IF q = p THEN None ELSE q : q \in temp}
  /\ outcome' = "crashed"
  /\ Forgets(p)
  /\ UNCHANGED <<disk, manifest, last>>

(* An error: the transaction and the journal stay where they are.           *)
Stops(p, how) ==
  /\ txn' = Freed(p) /\ journals' = Released(p)
  /\ outcome' = how
  /\ Forgets(p)
  /\ UNCHANGED <<disk, manifest, temp, markers, last>>

-----------------------------------------------------------------------------
(* Taking the guard and recovering (begin_generation_operation,             *)
(* recover_abandoned_generations_locked).                                  *)

(* The loops over outputs: on to the next one, or to the place after.       *)
Onward(p, loop, after) ==
  IF at[p] < Count THEN at' = [at EXCEPT ![p] = @ + 1] /\ Goes(p, loop)
                   ELSE at' = [at EXCEPT ![p] = 1] /\ Goes(p, after)

(* Mutant of Start: the guard is not waited for.                             *)
StartUnguarded(p, wanted, by) ==
  /\ pc[p] = "idle"
  /\ guard' = p
  /\ temp' = {}
  /\ plan' = [plan EXCEPT ![p] = wanted] /\ force' = [force EXCEPT ![p] = by]
  /\ outcome' = "running" /\ last' = None
  /\ Goes(p, "acquire")
  /\ UNCHANGED <<files, manifest, markers, journals, at, own, seen, quiet>>

(* A process that waits for the guard does nothing, so it starts when it    *)
(* gets it.  Then it removes the manifest files left half-way.             *)
Start(p, wanted, by) ==
  /\ pc[p] = "idle" /\ guard = None
  /\ guard' = p
  /\ temp' = {}
  /\ plan' = [plan EXCEPT ![p] = wanted] /\ force' = [force EXCEPT ![p] = by]
  /\ outcome' = "running" /\ last' = None
  /\ Goes(p, "acquire")
  /\ UNCHANGED <<files, manifest, markers, journals, at, own, seen, quiet>>

(* Mutant of Acquire: markers of dead processes are left.                    *)
AcquireJournalsOnly(p) ==
  /\ pc[p] = "acquire"
  /\ journals' = {IF j.holder = None THEN [j EXCEPT !.holder = p] ELSE j : j \in journals}
  /\ own' = [own EXCEPT ![p] = manifest]
  /\ Goes(p, IF \E j \in journals : j.holder = None THEN "recover" ELSE "open")
  /\ UNCHANGED <<files, manifest, temp, markers, guard, at, plan, force, seen,
                 outcome, last, quiet>>

(* acquire_generation_journals: markers and journals that nobody has locked. *)
Locked(q) == q # None /\ pc[q] = "publishJournal"
Acquire(p) ==
  /\ pc[p] = "acquire"
  /\ markers' = {q \in markers : Locked(q)}
  /\ journals' = {IF j.holder = None THEN [j EXCEPT !.holder = p] ELSE j : j \in journals}
  /\ own' = [own EXCEPT ![p] = manifest]
  /\ Goes(p, IF \E j \in journals : j.holder = None THEN "recover" ELSE "open")
  /\ UNCHANGED <<files, manifest, temp, guard, at, plan, force, seen, outcome, last, quiet>>

(* recover_published_transaction, of a transaction t beside an output that  *)
(* holds c.                                                                *)
Conflict(t, c) ==
  \/ t.stage = "installed" /\ c # t.next
  \/ t.stage \in {"approved", "moved"} /\ c \notin {None, t.next, t.previous}
  \/ t.stage = "aside" /\ t.previous # None /\ c \notin {None, t.previous}

(* What it leaves in the output, and whether it says that gnr8 installed it. *)
Recovered(t, c) ==
  IF c # None THEN c ELSE IF t.stage = "approved" THEN t.next ELSE t.previous
Installed(t, c) ==
  \/ t.stage = "approved" /\ c = None
  \/ t.stage \in {"approved", "moved", "installed"} /\ c # None /\ c = t.next

(* A transaction that somebody works on is left alone.                      *)
Pending(f)      == IF txn[f].holder = None THEN txn[f] ELSE NoTxn
Journalled(p)   == {j.files[at[p]] : j \in Mine(p)} \ {None}
Repaired(f)     == Recovered(Pending(f), disk[f])

(* Mutant of Reconstructed: only the transaction is asked.                   *)
ReconstructedByTransaction(p) ==
  IF Installed(Pending(at[p]), disk[at[p]]) THEN Pending(at[p]).next ELSE own[p][at[p]]

Reconstructed(p) ==
  LET f == at[p] IN
  IF Installed(Pending(f), disk[f]) THEN Pending(f).next
  ELSE IF Repaired(f) \in Journalled(p) THEN Repaired(f) ELSE own[p][f]

(* Mutant of RecoverOutput: an output in conflict is passed over.            *)
RecoverPastConflict(p) ==
  LET f == at[p] IN
  /\ pc[p] = "recover"
  /\ IF Journalled(p) = {} \/ Conflict(Pending(f), disk[f]) THEN UNCHANGED <<files, own>>
     ELSE /\ disk' = [disk EXCEPT ![f] = Repaired(f)]
          /\ txn' = [txn EXCEPT ![f] = IF @.holder = None THEN NoTxn ELSE @]
          /\ own' = [own EXCEPT ![p][f] = Reconstructed(p)]
  /\ Onward(p, "recover", "saveRecovered")
  /\ UNCHANGED <<state, guard, plan, force, seen, outcome, last, quiet>>

(* One output of the journal: its transaction is finished, and the output is *)
(* owned if the transaction installed it or it holds the journalled bytes. *)
RecoverOutput(p) ==
  LET f == at[p] IN
  /\ pc[p] = "recover"
  /\ IF Journalled(p) = {} THEN UNCHANGED <<files, own>>
     ELSE /\ ~Conflict(Pending(f), disk[f])
          /\ disk' = [disk EXCEPT ![f] = Repaired(f)]
          /\ txn' = [txn EXCEPT ![f] = IF @.holder = None THEN NoTxn ELSE @]
          /\ own' = [own EXCEPT ![p][f] = Reconstructed(p)]
  /\ Onward(p, "recover", "saveRecovered")
  /\ UNCHANGED <<state, guard, plan, force, seen, outcome, last, quiet>>

(* It dies when the output is repaired and the decisions are removed, but   *)
(* what the transaction knew is not saved.                                 *)
CrashInRecovery(p) ==
  LET f == at[p] IN
  /\ ~quiet
  /\ pc[p] = "recover" /\ Journalled(p) # {}
  /\ Pending(f) # NoTxn /\ ~Conflict(Pending(f), disk[f])
  /\ disk' = [disk EXCEPT ![f] = Repaired(f)]
  /\ txn' = [txn EXCEPT ![f] = [NoTxn EXCEPT !.stage = "done"]]
  /\ journals' = Released(p)
  /\ outcome' = "crashed"
  /\ Forgets(p)
  /\ UNCHANGED <<manifest, temp, markers, last>>

(* The first output in conflict ends the run, with nothing saved of the ones *)
(* before it.                                                              *)
MeetConflict(p) ==
  /\ pc[p] = "recover" /\ Journalled(p) # {}
  /\ Conflict(Pending(at[p]), disk[at[p]])
  /\ Stops(p, "conflict")

(* Manifest::save writes a file beside the manifest and renames it, unless   *)
(* the manifest is that already.  The rename would fail if somebody had    *)
(* removed the file: OwnFilesStay says that nobody does.                   *)
WriteTemp(p, entries, here, there, after) ==
  /\ pc[p] = here
  /\ own' = [own EXCEPT ![p] = entries]
  /\ IF entries = manifest THEN Goes(p, after) /\ UNCHANGED temp
     ELSE Goes(p, there) /\ temp' = temp \cup {p}
  /\ UNCHANGED <<files, manifest, markers, journals, guard, at, plan, force,
                 seen, outcome, last, quiet>>

RenameTemp(p, there, after) ==
  /\ pc[p] = there /\ p \in temp
  /\ manifest' = own[p]
  /\ temp' = temp \ {p}
  /\ Goes(p, after)
  /\ UNCHANGED <<files, markers, journals, guard, at, memory, outcome, last, quiet>>

SaveRecovered(p)   == WriteTemp(p, own[p], "saveRecovered", "renameRecovered", "close")
RenameRecovered(p) == RenameTemp(p, "renameRecovered", "close")

CloseRecovered(p) ==
  /\ pc[p] = "close"
  /\ journals' = journals \ Mine(p)
  /\ Goes(p, "open")
  /\ UNCHANGED <<files, manifest, temp, markers, guard, at, memory, outcome, last, quiet>>

Recover(p) ==
  \/ Acquire(p) \/ RecoverOutput(p) \/ CrashInRecovery(p) \/ MeetConflict(p)
  \/ SaveRecovered(p) \/ RenameRecovered(p) \/ CloseRecovered(p)

-----------------------------------------------------------------------------
(* The journal of this generation (GenerationLease::begin_with_guard).      *)

(* Mutant of OpenMarker: the guard is dropped with the recovery.             *)
OpenMarkerUnguarded(p) ==
  /\ pc[p] = "open"
  /\ own' = [own EXCEPT ![p] = manifest]
  /\ markers' = markers \cup {p}
  /\ guard' = None
  /\ Goes(p, "lockMarker")
  /\ UNCHANGED <<files, manifest, temp, journals, at, plan, force, seen,
                 outcome, last, quiet>>

(* The manifest is loaded and a marker made, then the marker is locked,     *)
(* filled and renamed.  Like the temporary file it stays where it is.      *)
OpenMarker(p) ==
  /\ pc[p] = "open"
  /\ own' = [own EXCEPT ![p] = manifest]
  /\ markers' = markers \cup {p}
  /\ Goes(p, "lockMarker")
  /\ UNCHANGED <<files, manifest, temp, journals, guard, at, plan, force, seen,
                 outcome, last, quiet>>

LockMarker(p) ==
  /\ pc[p] = "lockMarker"
  /\ Goes(p, "publishJournal")
  /\ UNCHANGED <<files, state, guard, at, memory, outcome, last, quiet>>

(* generation_recovery_files: the recorded hash of each output, or the one   *)
(* this generation plans for it.                                           *)
RecoveryFiles(p) ==
  [f \in Outputs |-> IF plan[p][f] # None THEN plan[p][f] ELSE own[p][f]]

PublishJournal(p) ==
  /\ pc[p] = "publishJournal" /\ p \in markers
  /\ markers' = markers \ {p}
  /\ journals' = journals \cup {[files |-> RecoveryFiles(p), holder |-> p]}
  /\ Goes(p, "read")
  /\ UNCHANGED <<files, manifest, temp, guard, at, memory, outcome, last, quiet>>

-----------------------------------------------------------------------------
(* The write pass (apply_writes_with_anchors).                              *)

(* Its own recovery of each output finds nothing to do: WritesStartClean.    *)
Read(p) ==
  /\ pc[p] = "read"
  /\ seen' = [seen EXCEPT ![p] = disk]
  /\ Goes(p, "write")
  /\ UNCHANGED <<files, state, guard, at, plan, force, own, outcome, last, quiet>>

(* classify_planned_file, of contents c of the output at hand.              *)
New(p)           == plan[p][at[p]]
Unchanged(p, c)  == c = New(p)
UserEdited(p, c) == c \notin {None, New(p), own[p][at[p]]}

Pass(p) == IF New(p) = None THEN "prune" ELSE "write"
After(p) == IF New(p) = None THEN "save" ELSE "prune"
NextOutput(p) == Onward(p, Pass(p), After(p))

(* Mutant of LeaveAlone: a protected file is recorded.                       *)
LeaveAloneRecorded(p) ==
  LET c == seen[p][at[p]] IN
  /\ pc[p] = "write"
  /\ \/ New(p) = None /\ UNCHANGED own
     \/ New(p) # None /\ (Unchanged(p, c) \/ (UserEdited(p, c) /\ ~force[p]))
        /\ own' = [own EXCEPT ![p][at[p]] = c]
  /\ Onward(p, "write", "prune")
  /\ UNCHANGED <<files, state, guard, plan, force, seen, outcome, last, quiet>>

(* Nothing to write: not planned, unchanged, or protected.                  *)
LeaveAlone(p) ==
  LET c == seen[p][at[p]] IN
  /\ pc[p] = "write"
  /\ \/ New(p) = None /\ UNCHANGED own
     \/ New(p) # None /\ Unchanged(p, c) /\ own' = [own EXCEPT ![p][at[p]] = c]
     \/ New(p) # None /\ UserEdited(p, c) /\ ~force[p] /\ UNCHANGED own
  /\ Onward(p, "write", "prune")
  /\ UNCHANGED <<files, state, guard, plan, force, seen, outcome, last, quiet>>

(* A transaction is published and the output moved aside, whatever it holds  *)
(* by now.                                                                 *)
MoveAside(p, place) ==
  LET f == at[p] IN
  /\ txn' = [txn EXCEPT ![f] = [stage |-> "aside", next |-> New(p),
                                previous |-> disk[f], holder |-> p]]
  /\ disk' = [disk EXCEPT ![f] = None]
  /\ Goes(p, place)
  /\ UNCHANGED <<state, guard, at, memory, outcome, last, quiet>>

Quarantine(p) ==
  LET c == seen[p][at[p]] IN
  /\ pc[p] = "write" /\ New(p) # None
  /\ ~Unchanged(p, c) /\ (UserEdited(p, c) => force[p])
  /\ MoveAside(p, "judge")

Stage(p, stage) == txn' = [txn EXCEPT ![at[p]].stage = stage]
Finished(p)     == txn' = [txn EXCEPT ![at[p]].stage = "done", ![at[p]].next = None,
                                      ![at[p]].previous = None]
Aside(p)        == txn[at[p]].previous

Approve(p) ==
  /\ pc[p] = "judge"
  /\ force[p] \/ ~(Unchanged(p, Aside(p)) \/ UserEdited(p, Aside(p)))
  /\ Stage(p, "approved")
  /\ Goes(p, "install")
  /\ UNCHANGED <<disk, state, guard, at, memory, outcome, last, quiet>>

(* The output is no longer what was read, or not gnr8's to delete: it goes   *)
(* back, if its place is still free.                                       *)
Protected(p) ==
  /\ ~force[p]
  /\ \/ pc[p] = "judge" /\ (Unchanged(p, Aside(p)) \/ UserEdited(p, Aside(p)))
     \/ pc[p] = "judgeStale" /\ Aside(p) \notin {None, own[p][at[p]]}

GiveBack(p) ==
  /\ Protected(p) /\ disk[at[p]] = None
  /\ disk' = [disk EXCEPT ![at[p]] = Aside(p)]
  /\ Finished(p)
  /\ own' = IF Unchanged(p, Aside(p)) THEN [own EXCEPT ![p][at[p]] = New(p)] ELSE own
  /\ Goes(p, "clean")
  /\ UNCHANGED <<state, guard, at, plan, force, seen, outcome, last, quiet>>

(* Mutant of Install: the rename replaces a file that appeared meanwhile.     *)
InstallOver(p) ==
  /\ pc[p] = "install"
  /\ disk' = [disk EXCEPT ![at[p]] = New(p)]
  /\ Stage(p, "moved")
  /\ Goes(p, "mark")
  /\ UNCHANGED <<state, guard, at, memory, outcome, last, quiet>>

Install(p) ==
  /\ pc[p] = "install" /\ disk[at[p]] = None
  /\ disk' = [disk EXCEPT ![at[p]] = New(p)]
  /\ Stage(p, "moved")
  /\ Goes(p, "mark")
  /\ UNCHANGED <<state, guard, at, memory, outcome, last, quiet>>

(* The user put a file there meanwhile; no rename replaces it.              *)
Blocked(p) ==
  /\ pc[p] = "install" \/ Protected(p)
  /\ disk[at[p]] # None
  /\ Stops(p, "error")

Mark(p) ==
  /\ pc[p] = "mark"
  /\ Stage(p, "installed")
  /\ own' = [own EXCEPT ![p][at[p]] = New(p)]
  /\ Goes(p, "forget")
  /\ UNCHANGED <<disk, state, guard, at, plan, force, seen, outcome, last, quiet>>

(* cleanup: the decisions first, the directory last.                        *)
ForgetDecisions(p) ==
  /\ pc[p] = "forget"
  /\ Finished(p)
  /\ Goes(p, "clean")
  /\ UNCHANGED <<disk, state, guard, at, memory, outcome, last, quiet>>

Clean(p) ==
  /\ pc[p] = "clean"
  /\ txn' = [txn EXCEPT ![at[p]] = NoTxn]
  /\ NextOutput(p)
  /\ UNCHANGED <<disk, state, guard, memory, outcome, last, quiet>>

(* An owned output that is no longer planned is deleted, by a transaction of *)
(* its own.                                                                *)
Stale(p) == New(p) = None /\ own[p][at[p]] # None
SkipCurrent(p) ==
  /\ pc[p] = "prune" /\ ~Stale(p)
  /\ Onward(p, "prune", "save")
  /\ UNCHANGED <<files, state, guard, memory, outcome, last, quiet>>

QuarantineStale(p) == pc[p] = "prune" /\ Stale(p) /\ MoveAside(p, "judgeStale")

DeleteStale(p) ==
  /\ pc[p] = "judgeStale"
  /\ force[p] \/ Aside(p) \in {None, own[p][at[p]]}
  /\ Finished(p)
  /\ Goes(p, "clean")
  /\ UNCHANGED <<disk, state, guard, at, memory, outcome, last, quiet>>

Write(p) ==
  \/ OpenMarker(p) \/ LockMarker(p) \/ PublishJournal(p)
  \/ Read(p) \/ LeaveAlone(p) \/ Quarantine(p) \/ Approve(p) \/ GiveBack(p)
  \/ Install(p) \/ Blocked(p) \/ Mark(p) \/ ForgetDecisions(p) \/ Clean(p)
  \/ SkipCurrent(p) \/ QuarantineStale(p) \/ DeleteStale(p)

-----------------------------------------------------------------------------
(* The end: prune_to, save, GenerationLease::finish.                        *)

Kept(p) == [f \in Outputs |-> IF plan[p][f] = None THEN None ELSE own[p][f]]
Save(p)   == WriteTemp(p, Kept(p), "save", "rename", "finish")
Rename(p) == RenameTemp(p, "rename", "finish")

Finish(p) ==
  /\ pc[p] = "finish"
  /\ journals' = journals \ Mine(p)
  /\ outcome' = "done" /\ last' = plan[p]
  /\ Forgets(p)
  /\ UNCHANGED <<files, manifest, temp, markers>>

End(p) == Save(p) \/ Rename(p) \/ Finish(p)

Begin(p) == \E wanted \in Plans, by \in BOOLEAN : Start(p, wanted, by)
Work == \E p \in Proc : Begin(p) \/ Recover(p) \/ Write(p) \/ End(p)

Next == Work \/ User \/ BecomeQuiet \/ \E p \in Proc : Crash(p)

(* Generations proceed and are run again; nothing is assumed of the user, or *)
(* of deaths, or of when they stop.                                        *)
Spec == Init /\ [][Next]_vars /\ WF_vars(Work)

-----------------------------------------------------------------------------
(* Properties. *)

Places == {"idle", "acquire", "recover", "saveRecovered", "renameRecovered", "close",
           "open", "lockMarker", "publishJournal", "read", "write", "judge", "install",
           "mark", "forget", "clean", "prune", "judgeStale", "save", "rename", "finish"}
Entries == [Outputs -> Generated \cup {None}]

(* Every variable holds a value of its type. *)
TypeOK ==
  /\ disk \in [Outputs -> Content \cup {None}] /\ txn \in [Outputs -> Txn]
  /\ manifest \in Entries
  /\ temp \subseteq Proc \cup {None} /\ markers \subseteq Proc \cup {None}
  /\ journals \subseteq [files : Entries, holder : Proc \cup {None}]
  /\ guard \in Proc \cup {None}
  /\ pc \in [Proc -> Places] /\ at \in [Proc -> Outputs]
  /\ plan \in [Proc -> Plan] /\ force \in [Proc -> BOOLEAN]
  /\ own \in [Proc -> Entries]
  /\ seen \in [Proc -> [Outputs -> Content \cup {None}]]
  /\ outcome \in {"none", "running", "crashed", "error", "conflict", "done"}
  /\ last \in Plan \cup {None} /\ quiet \in BOOLEAN

(* Wherever a generation dies, is stopped by an error, or has its recovery   *)
(* stopped by the conflict of another output: each output that gnr8 wrote  *)
(* and nobody edited, in its place or moved aside, is in the saved manifest *)
(* or named with its hash by a journal, so that it is never taken for the  *)
(* user's (the journal protocol of regenerate_with_anchors).               *)
Known(f, c) == manifest[f] = c \/ \E j \in journals : j.files[f] = c
OwnershipSurvives ==
  \A f \in Outputs : \A c \in {disk[f], txn[f].previous} : c \in Generated => Known(f, c)

(* A generation that ends well leaves the outputs of its own plan, not of    *)
(* another process's, all of them or the user's files in their place, with *)
(* a manifest that says so and nothing to recover.                         *)
SuccessIsWhole ==
  last # None =>
    /\ journals = {} /\ \A f \in Outputs : txn[f] = NoTxn
    /\ \A f \in Outputs : disk[f] \in Generated =>
         disk[f] = last[f] /\ manifest[f] = last[f]

(* The files a process is in the middle of making stay: nobody takes its     *)
(* marker, which is not locked at first, or its manifest file, which never *)
(* is, for those of a dead process.                                        *)
OwnFilesStay ==
  \A p \in Proc :
    /\ pc[p] \in {"lockMarker", "publishJournal"} => p \in markers
    /\ pc[p] \in {"renameRecovered", "rename"} => p \in temp

(* When a generation writes, nothing is left of an earlier one: its own      *)
(* journal is the only one, and its own transaction, if it has one open.   *)
(* No transaction of a dead process is ever without a journal that names   *)
(* its output, without which no recovery would look at it.                 *)
Writing == {"read", "write", "judge", "install", "mark", "forget", "clean",
            "prune", "judgeStale", "save", "rename", "finish"}
WritesStartClean ==
  /\ \A p \in Proc : pc[p] \in Writing =>
       /\ \E j \in Mine(p) : journals = {j}
       /\ \A f \in Outputs : txn[f] # NoTxn => txn[f].holder = p /\ f = at[p]
  /\ \A f \in Outputs : txn[f] # NoTxn => \E j \in journals : j.files[f] # None

(* Several processes, each of which may find the transactions of others half *)
(* done, treat all outputs as ProtectedOutputs promises.                   *)
Promise ==
  INSTANCE ProtectedOutputs
  WITH file <- disk, aside <- [f \in Outputs |-> txn[f].previous],
       released <- {f \in Outputs : /\ txn[f].previous # None
                                    /\ txn[f].stage \in {"approved", "moved", "installed"}},
       forced <- guard # None /\ force[guard]

ProtectsOutputs == [][User \/ Promise!Kept]_vars

(* Once edits and deaths stop, generations leave nothing behind, or report a *)
(* conflict.                                                               *)
Settled == guard = None /\ journals = {} /\ markers = {} /\ temp = {}
             /\ \A f \in Outputs : txn[f] = NoTxn
Settles == quiet ~> Settled \/ outcome = "conflict"

=============================================================================
