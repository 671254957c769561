----------------------------- MODULE WorkerBuild -----------------------------
(* How a gnr8 process gets the binary of a project's worker: crates/gnr8-core/src/worker/build.rs.   *)
(* Several processes work in several checkouts of a project and share one store                      *)
(* (crates/gnr8-core/src/store/mod.rs), while the user edits the sources of the worker.              *)
EXTENDS Naturals

CONSTANTS Procs, Checkouts,
          Homes,       \* in which checkout each process may work: a set of functions
          Inputs,      \* what .gnr8/ may hold: records of what the user writes and of Cargo.lock
          Fitting,     \* inputs whose lock file cargo takes as it is
          Shareable,   \* inputs that name the same bytes from every checkout
          MaxFaults,   \* bound on edits, crashes, failures and damages
          None, Junk

(* A binary, by its content: what it was built from, and where, since the bytes differ with the place.*)
Binaries == [inputs : Inputs, at : Checkouts]
(* What a stamp or an entry says of its fingerprint. Whether nothing disturbed the build is history. *)
Certificates == [file : Binaries, clean : BOOLEAN]
Stamps == [fingerprint : Inputs, file : Binaries, clean : BOOLEAN]

ASSUME BuildAssumption ==
    /\ Homes \subseteq [Procs -> Checkouts]
    /\ \A i, j \in Inputs : i.source = j.source /\ i.lock = j.lock => i = j
    /\ Fitting \subseteq Inputs
    /\ \A i \in Inputs : i.lock = None => i \notin Fitting
    /\ \A i \in Inputs : \E j \in Fitting : j.source = i.source
    /\ \A i, j \in Inputs : i.source = j.source => (i \in Shareable <=> j \in Shareable)
    /\ None \notin Inputs \cup Binaries \cup Certificates \cup Stamps \cup Procs
    /\ Junk \notin Binaries \cup Certificates \cup {None}
    /\ MaxFaults \in Nat

VARIABLES home,
          inputs, binary, stamp, compiling,    \* of a checkout; who holds the lock of its target directory
          entry, blob,                         \* the store, by fingerprint and by content hash
          pc, key, bin, got, tmp, shares,      \* of a process
          clean,                               \* (history) nothing has disturbed its build so far
          faults                               \* (bound) what has gone wrong so far

checkout == <<inputs, binary, stamp, compiling>>
store == <<entry, blob>>
local == <<key, bin, got, tmp, shares>>
vars == <<home, checkout, store, pc, local, clean, faults>>

Init ==
    /\ home \in Homes
    /\ inputs \in [Checkouts -> Inputs]
    /\ binary = [c \in Checkouts |-> None]
    /\ stamp = [c \in Checkouts |-> None]
    /\ compiling = [c \in Checkouts |-> None]
    /\ entry = [i \in Inputs |-> None]
    /\ blob = [f \in Binaries |-> None]
    /\ pc = [p \in Procs |-> "idle"]
    /\ key = [p \in Procs |-> None]
    /\ bin = [p \in Procs |-> None]
    /\ got = [p \in Procs |-> None]
    /\ tmp = [p \in Procs |-> None]
    /\ shares = [p \in Procs |-> FALSE]
    /\ clean = [p \in Procs |-> TRUE]
    /\ faults = 0

Here(p) == home[p]
Goes(p, from, to) == pc[p] = from /\ pc' = [pc EXCEPT ![p] = to]
(* Cargo has read the inputs and the second fingerprint is not taken. *)
Compiled == {"cargo", "built", "named"}
Bracket == {"keyed", "decide", "restore", "copy", "unlink", "discard", "move", "lockfile", "compile"}
             \cup Compiled

Places == Bracket \cup {"idle", "look", "measured", "restored", "accepted", "publish", "rename",
                        "entry", "done"}

(* An edit disturbs a build when it brings back the sources that the build began with, or when it     *)
(* changes the lock file after cargo has read it.                                                    *)
Disturbs(p, c, new) ==
    /\ Here(p) = c
    /\ \/ pc[p] \in Bracket /\ new.source = key[p].source /\ inputs[c].source # key[p].source
       \/ pc[p] \in Compiled /\ new.lock # inputs[c].lock
Change(c, new) ==
    /\ inputs' = [inputs EXCEPT ![c] = new]
    /\ clean' = [p \in Procs |-> clean[p] /\ ~Disturbs(p, c, new)]

(* The call ends, and what it knew goes with it. *)
Ends(p) ==
    /\ pc' = [pc EXCEPT ![p] = "idle"]
    /\ key' = [key EXCEPT ![p] = None]
    /\ bin' = [bin EXCEPT ![p] = None]
    /\ got' = [got EXCEPT ![p] = None]
    /\ tmp' = [tmp EXCEPT ![p] = None]
    /\ shares' = [shares EXCEPT ![p] = FALSE]
    /\ clean' = [clean EXCEPT ![p] = TRUE]

-----------------------------------------------------------------------------
(* Looking: the inputs are fingerprinted and the binary is hashed, side by side. *)

Begin(p) ==
    /\ Goes(p, "idle", "look")
    /\ UNCHANGED <<home, checkout, store, local, clean, faults>>

ReadInputs(p) ==
    /\ Goes(p, "look", "keyed") \/ Goes(p, "measured", "decide")
    /\ key' = [key EXCEPT ![p] = inputs[Here(p)]]
    /\ UNCHANGED <<home, checkout, store, bin, got, tmp, shares, clean, faults>>

ReadBinary(p) ==
    /\ Goes(p, "look", "measured") \/ Goes(p, "keyed", "decide")
    /\ bin' = [bin EXCEPT ![p] = binary[Here(p)]]
    /\ UNCHANGED <<home, checkout, store, key, got, tmp, shares, clean, faults>>

StampMatches(p) ==
    LET s == stamp[Here(p)] IN s # None /\ s.fingerprint = key[p] /\ s.file = bin[p]

(* The recorded binary is still the one: run it. *)
Reuse(p) ==
    /\ Goes(p, "decide", "done")
    /\ StampMatches(p)
    /\ got' = [got EXCEPT ![p] = [file |-> stamp[Here(p)].file, clean |-> stamp[Here(p)].clean]]
    /\ UNCHANGED <<home, checkout, store, key, bin, tmp, shares, clean, faults>>

(* The policy of this run forbids building. *)
Refuse(p) ==
    /\ pc[p] = "decide" /\ ~StampMatches(p) /\ Ends(p)
    /\ UNCHANGED <<home, checkout, store, faults>>

(* The manifests are read again, to know whether their fingerprint means the same elsewhere. *)
ConsultStore(p) ==
    /\ ~StampMatches(p)
    /\ shares' = [shares EXCEPT ![p] = inputs[Here(p)] \in Shareable]
    /\ Goes(p, "decide", IF shares'[p] THEN "restore" ELSE "lockfile")
    /\ UNCHANGED <<home, checkout, store, key, bin, got, tmp, clean, faults>>

-----------------------------------------------------------------------------
(* Restoring: the binary of another build of these inputs. *)

(* Mutant of ReadEntry: what is stored is taken without being parsed. *)
ReadEntryUnchecked(p) ==
    LET e == entry[key[p]] IN
    /\ pc[p] = "restore"
    /\ \/ e = None /\ Goes(p, "restore", "lockfile") /\ UNCHANGED got
       \/ e # None /\ Goes(p, "restore", "copy") /\ got' = [got EXCEPT ![p] = e]
    /\ UNCHANGED <<home, checkout, store, key, bin, tmp, shares, clean, faults>>

ReadEntry(p) ==
    LET e == entry[key[p]] IN
    /\ pc[p] = "restore"
    /\ \/ e = None /\ Goes(p, "restore", "lockfile") /\ UNCHANGED got
       \/ e = Junk /\ Goes(p, "restore", "discard") /\ UNCHANGED got
       \/ /\ e \notin {None, Junk} /\ Goes(p, "restore", "copy")
          /\ got' = [got EXCEPT ![p] = e]
    /\ UNCHANGED <<home, checkout, store, key, bin, tmp, shares, clean, faults>>

(* Mutant of CopyBlob: the copy is moved into place unread. *)
CopyBlobUnverified(p) ==
    /\ Goes(p, "copy", "move")
    /\ tmp' = [tmp EXCEPT ![p] = blob[got[p].file]]
    /\ UNCHANGED <<home, checkout, store, key, bin, got, shares, clean, faults>>

(* The blob is copied to a private file, and the copy is hashed before it goes anywhere. *)
CopyBlob(p) ==
    /\ pc[p] = "copy"
    /\ tmp' = [tmp EXCEPT ![p] = blob[got[p].file]]
    /\ Goes(p, "copy", IF tmp'[p] = got[p].file THEN "move" ELSE "unlink")
    /\ UNCHANGED <<home, checkout, store, key, bin, got, shares, clean, faults>>

RemoveBlob(p) ==
    /\ Goes(p, "unlink", "discard")
    /\ blob' = [blob EXCEPT ![got[p].file] = None]
    /\ UNCHANGED <<home, checkout, entry, local, clean, faults>>

DiscardEntry(p) ==
    /\ Goes(p, "discard", "lockfile")
    /\ entry' = [entry EXCEPT ![key[p]] = None]
    /\ UNCHANGED <<home, checkout, blob, local, clean, faults>>

(* A rename disturbs the build whose fresh binary it replaces before that was hashed. *)
MoveIntoPlace(p) ==
    /\ Goes(p, "move", "restored")
    /\ binary' = [binary EXCEPT ![Here(p)] = tmp[p]]
    /\ clean' = [q \in Procs |-> clean[q] /\ ~(Here(q) = Here(p) /\ pc[q] = "built")]
    /\ UNCHANGED <<home, inputs, stamp, compiling, store, local, faults>>

-----------------------------------------------------------------------------
(* Building. *)

EnsureLockfile(p) ==
    LET now == inputs[Here(p)] IN
    /\ Goes(p, "lockfile", "compile")
    /\ IF now.lock = None
       THEN \E new \in Fitting : new.source = now.source /\ Change(Here(p), new)
       ELSE UNCHANGED <<inputs, clean>>
    /\ UNCHANGED <<home, binary, stamp, compiling, store, local, faults>>

(* Cargo takes the lock of the target directory, and brings Cargo.lock in line with the manifest. *)
CargoReads(p) ==
    LET c == Here(p) IN
    /\ compiling[c] = None
    /\ Goes(p, "compile", "cargo")
    /\ compiling' = [compiling EXCEPT ![c] = p]
    /\ \E new \in Fitting :
          /\ new.source = inputs[c].source
          /\ inputs[c] \in Fitting => new = inputs[c]
          /\ Change(c, new)
          /\ bin' = [bin EXCEPT ![p] = [inputs |-> new, at |-> c]]
    /\ UNCHANGED <<home, binary, stamp, store, key, got, tmp, shares, faults>>

CargoWrites(p) ==
    /\ Goes(p, "cargo", "built")
    /\ binary' = [binary EXCEPT ![Here(p)] = bin[p]]
    /\ compiling' = [compiling EXCEPT ![Here(p)] = None]
    /\ UNCHANGED <<home, inputs, stamp, store, local, clean, faults>>

HashBinary(p) ==
    /\ pc[p] = "built"
    /\ \/ binary[Here(p)] = None /\ Ends(p)
       \/ /\ binary[Here(p)] # None /\ Goes(p, "built", "named")
          /\ bin' = [bin EXCEPT ![p] = binary[Here(p)]]
          /\ UNCHANGED <<key, got, tmp, shares, clean>>
    /\ UNCHANGED <<home, checkout, store, faults>>

(* Mutant of Accept: the stamp takes the first fingerprint, of before cargo ran. *)
AcceptAsBefore(p) ==
    /\ Goes(p, "named", "accepted")
    /\ inputs[Here(p)].source = key[p].source
    /\ got' = [got EXCEPT ![p] = [file |-> bin[p], clean |-> clean[p]]]
    /\ UNCHANGED <<home, checkout, store, key, bin, tmp, shares, clean, faults>>

(* The second fingerprint: no worker is accepted when the user's files are not the same. *)
Accept(p) ==
    /\ Goes(p, "named", "accepted")
    /\ inputs[Here(p)].source = key[p].source
    /\ key' = [key EXCEPT ![p] = inputs[Here(p)]]
    /\ got' = [got EXCEPT ![p] = [file |-> bin[p], clean |-> clean[p]]]
    /\ UNCHANGED <<home, checkout, store, bin, tmp, shares, clean, faults>>

SourcesChanged(p) ==
    /\ pc[p] = "named" /\ inputs[Here(p)].source # key[p].source /\ Ends(p)
    /\ UNCHANGED <<home, checkout, store, faults>>

-----------------------------------------------------------------------------
(* Recording what was restored or built. *)

AfterStamp(p) == \/ Goes(p, "restored", "done")
                 \/ Goes(p, "accepted", IF shares[p] THEN "publish" ELSE "done")

(* Mutant of WriteStamp: only a build is stamped, not what was restored. *)
WriteStampOfBuild(p) ==
    /\ AfterStamp(p)
    /\ stamp' = [stamp EXCEPT ![Here(p)] =
                    IF pc[p] = "restored" THEN @
                    ELSE [fingerprint |-> key[p], file |-> got[p].file, clean |-> got[p].clean]]
    /\ UNCHANGED <<home, inputs, binary, compiling, store, local, clean, faults>>

WriteStamp(p) ==
    /\ AfterStamp(p)
    /\ stamp' = [stamp EXCEPT ![Here(p)] =
                    [fingerprint |-> key[p], file |-> got[p].file, clean |-> got[p].clean]]
    /\ UNCHANGED <<home, inputs, binary, compiling, store, local, clean, faults>>

(* A blob that is there is left alone; another is copied from the checkout and renamed. *)
PublishBlob(p) ==
    /\ \/ Goes(p, "publish", "entry") /\ blob[got[p].file] # None /\ UNCHANGED tmp
       \/ /\ Goes(p, "publish", "rename") /\ blob[got[p].file] = None
          /\ tmp' = [tmp EXCEPT ![p] = binary[Here(p)]]
    /\ UNCHANGED <<home, checkout, store, key, bin, got, shares, clean, faults>>

RenameBlob(p) ==
    /\ Goes(p, "rename", "entry")
    /\ blob' = [blob EXCEPT ![got[p].file] = tmp[p]]
    /\ UNCHANGED <<home, checkout, entry, local, clean, faults>>

PublishEntry(p) ==
    /\ Goes(p, "entry", "done")
    /\ entry' = [entry EXCEPT ![key[p]] = got[p]]
    /\ UNCHANGED <<home, checkout, blob, local, clean, faults>>

(* The worker is run; the next command starts over. *)
Run(p) ==
    /\ pc[p] = "done" /\ Ends(p)
    /\ UNCHANGED <<home, checkout, store, faults>>

-----------------------------------------------------------------------------
(* What goes wrong around it, at most MaxFaults times. *)

Fault == faults < MaxFaults /\ faults' = faults + 1

Edit(c) ==
    /\ Fault
    /\ \E p \in Procs : Here(p) = c
    /\ \E new \in Inputs \ {inputs[c]} : Change(c, new)
    /\ UNCHANGED <<home, binary, stamp, compiling, store, pc, local>>

Released(p) == compiling' = [c \in Checkouts |-> IF compiling[c] = p THEN None ELSE compiling[c]]
Crash(p) ==
    /\ Fault
    /\ pc[p] # "idle" /\ Ends(p)
    /\ Released(p)
    /\ UNCHANGED <<home, inputs, binary, stamp, store>>

(* Every write of the recording is best effort: a failure is not told and the next step follows. *)
WriteFails(p) ==
    /\ Fault
    /\ \/ Goes(p, "move", "lockfile") \/ AfterStamp(p)
       \/ Goes(p, "publish", "entry") \/ Goes(p, "rename", "entry") \/ Goes(p, "entry", "done")
    /\ UNCHANGED <<home, checkout, store, local, clean>>

CargoFails(p) ==
    /\ Fault
    /\ pc[p] = "cargo" /\ Ends(p)
    /\ Released(p)
    /\ UNCHANGED <<home, inputs, binary, stamp, store>>

(* The disk loses or damages a file of the store, or the user cleans the target directory. *)
Damage ==
    /\ Fault
    /\ \/ /\ \E f \in Binaries, d \in {None, Junk} :
                blob[f] # None /\ blob' = [blob EXCEPT ![f] = d]
          /\ UNCHANGED <<entry, binary>>
       \/ /\ \E i \in Inputs, d \in {None, Junk} :
                entry[i] # None /\ entry' = [entry EXCEPT ![i] = d]
          /\ UNCHANGED <<blob, binary>>
       \/ /\ \E c \in Checkouts : binary[c] # None /\ binary' = [binary EXCEPT ![c] = None]
          /\ UNCHANGED <<entry, blob>>
    /\ UNCHANGED <<home, inputs, stamp, compiling, pc, local, clean>>

Looks(p) == Begin(p) \/ ReadInputs(p) \/ ReadBinary(p) \/ Reuse(p) \/ Refuse(p) \/ ConsultStore(p)
Restores(p) == ReadEntry(p) \/ CopyBlob(p) \/ RemoveBlob(p) \/ DiscardEntry(p) \/ MoveIntoPlace(p)
Builds(p) == \/ EnsureLockfile(p) \/ CargoReads(p) \/ CargoWrites(p) \/ HashBinary(p)
             \/ Accept(p) \/ SourcesChanged(p)
Records(p) == WriteStamp(p) \/ PublishBlob(p) \/ RenameBlob(p) \/ PublishEntry(p) \/ Run(p)
Step(p) == Looks(p) \/ Restores(p) \/ Builds(p) \/ Records(p)

Next == \/ \E p \in Procs : Step(p) \/ Crash(p) \/ WriteFails(p) \/ CargoFails(p)
        \/ \E c \in Checkouts : Edit(c)
        \/ Damage

Spec == Init /\ [][Next]_vars
(* A process that can take its next step takes it. *)
FairSpec == Spec /\ \A p \in Procs : WF_vars(Step(p))

-----------------------------------------------------------------------------
TypeOK ==
    /\ home \in [Procs -> Checkouts]
    /\ inputs \in [Checkouts -> Inputs]
    /\ binary \in [Checkouts -> Binaries \cup {None, Junk}]
    /\ stamp \in [Checkouts -> Stamps \cup {None}]
    /\ compiling \in [Checkouts -> Procs \cup {None}]
    /\ entry \in [Inputs -> Certificates \cup {None, Junk}]
    /\ blob \in [Binaries -> Binaries \cup {None, Junk}]
    /\ pc \in [Procs -> Places]
    /\ key \in [Procs -> Inputs \cup {None}]
    /\ bin \in [Procs -> Binaries \cup {None, Junk}]
    /\ got \in [Procs -> Certificates \cup {None}]
    /\ tmp \in [Procs -> Binaries \cup {None, Junk}]
    /\ shares \in [Procs -> BOOLEAN]
    /\ clean \in [Procs -> BOOLEAN]
    /\ faults \in Nat

(* A binary that a run is about to execute, be it reused, restored or built, is the build of the     *)
(* inputs under whose fingerprint it was accepted, unless the build it comes from was disturbed; and *)
(* every stamp and every entry says so too. From another checkout, it means the same there.          *)
(* (ensure_worker, restore_worker, publish_worker)                                                   *)
UndisturbedIsTrue ==
    /\ \A p \in Procs : pc[p] = "done" /\ got[p].clean => got[p].file.inputs = key[p]
    /\ \A c \in Checkouts : stamp[c] # None =>
          (stamp[c].clean => stamp[c].file.inputs = stamp[c].fingerprint)
    /\ \A i \in Inputs : entry[i] \notin {None, Junk} =>
          (entry[i].clean => entry[i].file.inputs = i /\ i \in Shareable)

(* Bytes that no build made never reach the place a worker is executed from, however the store was   *)
(* damaged: the copy is hashed before it is moved (restore_worker).                                  *)
NeverJunk == \A c \in Checkouts : binary[c] # Junk

(* When nothing goes wrong any more every run comes to find its worker in its checkout: it runs no   *)
(* cargo and restores nothing, though processes with different builds of the same inputs overwrite   *)
(* each other's binaries, stamps and entries (ensure_worker, restore_worker, publish_blob).          *)
Settles == <>[](\A p \in Procs : pc[p] \in {"idle", "look", "keyed", "measured", "decide", "done"})
=============================================================================
