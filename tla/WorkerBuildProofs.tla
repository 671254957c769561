-------------------------- MODULE WorkerBuildProofs --------------------------
(* That a stamp, an entry and a run's worker are what they say, for any processes and checkouts.     *)
EXTENDS WorkerBuild, TLAPS

(* The user's files are what they were when p fingerprinted them, and nothing came between. *)
Same(p) == clean[p] /\ inputs[Here(p)].source = key[p].source
Consulted == {"restore", "copy", "unlink", "discard", "move", "lockfile", "compile"} \cup Compiled
Publishing == {"publish", "rename", "entry"}
Holding == {"copy", "unlink", "move", "restored", "accepted", "done"} \cup Publishing

(* Cargo works on a target directory for one process at a time. *)
Locked == \A p \in Procs : pc[p] = "cargo" => compiling[Here(p)] = p

StampsTrue == \A c \in Checkouts : stamp[c] # None =>
                 (stamp[c].clean => stamp[c].file.inputs = stamp[c].fingerprint)
EntriesTrue == \A i \in Inputs : entry[i] \notin {None, Junk} =>
                 (entry[i].clean => entry[i].file.inputs = i /\ i \in Shareable)

Known(p) ==
    /\ pc[p] \in Bracket \cup Holding => key[p] \in Inputs
    /\ pc[p] \in Holding => got[p] \in Certificates
    /\ pc[p] \in {"cargo", "named"} => bin[p] \in Binaries
    /\ pc[p] = "move" => tmp[p] = got[p].file
    /\ pc[p] \in Publishing => shares[p]

(* Whether p may share is what its fingerprint says, as long as nothing came between. *)
Sharing(p) ==
    /\ pc[p] \in Consulted /\ Same(p) /\ shares[p] => key[p] \in Shareable
    /\ pc[p] \in Publishing \cup {"accepted"} /\ got[p].clean /\ shares[p] => key[p] \in Shareable

(* What cargo reads, writes and leaves behind is what the checkout holds. *)
Building(p) ==
    /\ pc[p] \in {"cargo", "named"} /\ Same(p) => bin[p].inputs = inputs[Here(p)]
    /\ pc[p] = "built" /\ Same(p) =>
          /\ binary[Here(p)] # None => binary[Here(p)].inputs = inputs[Here(p)]
          /\ \A q \in Procs : Here(q) = Here(p) /\ pc[q] = "cargo" => bin[q].inputs = inputs[Here(p)]

Certified(p) == pc[p] \in Holding /\ got[p].clean => got[p].file.inputs = key[p]

ProcInv(p) == Known(p) /\ Sharing(p) /\ Building(p) /\ Certified(p)

NoJunk == NeverJunk /\ \A p \in Procs : bin[p] # Junk

IInv == /\ TypeOK /\ Locked /\ StampsTrue /\ EntriesTrue /\ NoJunk
        /\ \A p \in Procs : ProcInv(p)

-----------------------------------------------------------------------------
(* A change of what a checkout holds keeps the types of what it changes. *)
LEMMA ChangeTypes ==
    ASSUME TypeOK, NEW c \in Checkouts, NEW new \in Inputs, Change(c, new)
    PROVE inputs' \in [Checkouts -> Inputs] /\ clean' \in [Procs -> BOOLEAN]
<1>1. inputs' \in [Checkouts -> Inputs] BY DEF TypeOK, Change
<1>2. \A p \in Procs : (clean[p] /\ ~Disturbs(p, c, new)) \in BOOLEAN BY Zenon
<1>3. clean' \in [Procs -> BOOLEAN] BY <1>2, Zenon DEF Change
<1> QED BY <1>1, <1>3

(* A process that goes from one place to another leaves the others where they are. *)
LEMMA GoesTypes ==
    ASSUME TypeOK
    PROVE \A p \in Procs, to \in Places : \A from : Goes(p, from, to) => pc' \in [Procs -> Places]
BY DEF TypeOK, Goes

LEMMA PlaceNames == /\ {"lockfile", "discard", "copy", "entry", "rename", "done", "publish"} \subseteq Places
                    /\ {"idle", "named"} \subseteq Places
BY DEF Places, Bracket, Compiled

(* The type invariant is kept, given what a process knows where it is. *)
LEMMA TypeStep == ASSUME IInv, [Next]_vars PROVE TypeOK'
<1> USE BuildAssumption DEF IInv, TypeOK, Here, Goes, Places, checkout, store, local, Bracket, Compiled
<1>1. ASSUME NEW p \in Procs, Begin(p) PROVE TypeOK'
  BY <1>1 DEF Begin
<1>2. ASSUME NEW p \in Procs, ReadInputs(p) PROVE TypeOK'
  BY <1>2 DEF ReadInputs
<1>3. ASSUME NEW p \in Procs, ReadBinary(p) PROVE TypeOK'
  BY <1>3 DEF ReadBinary
<1>4. ASSUME NEW p \in Procs, Reuse(p) PROVE TypeOK'
  BY <1>4 DEF Reuse, StampMatches, Holding, Bracket, Compiled, Certificates, Stamps
<1>5. ASSUME NEW p \in Procs, Refuse(p) PROVE TypeOK'
  BY <1>5 DEF Refuse, StampMatches, Ends
<1>6. ASSUME NEW p \in Procs, ConsultStore(p) PROVE TypeOK'
  BY <1>6 DEF ConsultStore, StampMatches
<1>7. ASSUME NEW p \in Procs, ReadEntry(p) PROVE TypeOK'
  <2>1. pc[p] = "restore" /\ key[p] \in Inputs BY <1>7 DEF ReadEntry, Known, ProcInv
  <2>2. pc' \in [Procs -> Places]
    <3> HIDE DEF Goes, Places, TypeOK
    <3> QED BY <1>7, GoesTypes, PlaceNames DEF ReadEntry
  <2>3. got' \in [Procs -> Certificates \cup {None}] BY <1>7, <2>1 DEF ReadEntry
  <2> QED BY <1>7, <2>2, <2>3 DEF ReadEntry
<1>8. ASSUME NEW p \in Procs, CopyBlob(p) PROVE TypeOK'
  BY <1>8 DEF CopyBlob, Known, ProcInv, Holding, Certificates
<1>9. ASSUME NEW p \in Procs, RemoveBlob(p) PROVE TypeOK'
  BY <1>9 DEF RemoveBlob, Known, ProcInv, Holding, Certificates
<1>10. ASSUME NEW p \in Procs, DiscardEntry(p) PROVE TypeOK'
  BY <1>10 DEF DiscardEntry
<1>11. ASSUME NEW p \in Procs, MoveIntoPlace(p) PROVE TypeOK'
  BY <1>11 DEF MoveIntoPlace
<1>12. ASSUME NEW p \in Procs, EnsureLockfile(p) PROVE TypeOK'
  <2>1. inputs' \in [Checkouts -> Inputs] /\ clean' \in [Procs -> BOOLEAN]
    BY <1>12, ChangeTypes DEF EnsureLockfile
  <2> QED BY <1>12, <2>1 DEF EnsureLockfile
<1>13. ASSUME NEW p \in Procs, CargoReads(p) PROVE TypeOK'
  BY <1>13 DEF CargoReads, Change, BuildAssumption, Binaries
<1>14. ASSUME NEW p \in Procs, CargoWrites(p) PROVE TypeOK'
  BY <1>14 DEF CargoWrites, Known, ProcInv
<1>15. ASSUME NEW p \in Procs, HashBinary(p) PROVE TypeOK'
  <2>1. CASE binary[Here(p)] = None
    <3>1. pc[p] = "built" /\ Ends(p) /\ UNCHANGED <<home, checkout, store, faults>>
      BY <1>15, <2>1 DEF HashBinary
    <3> QED BY <3>1 DEF Ends
  <2>2. CASE binary[Here(p)] # None
    <3>1. pc' = [pc EXCEPT ![p] = "named"] BY <1>15, <2>2 DEF HashBinary
    <3>2. /\ bin' = [bin EXCEPT ![p] = binary[Here(p)]]
          /\ UNCHANGED <<key, got, tmp, shares, clean>> /\ UNCHANGED <<home, checkout, store, faults>>
      BY <1>15, <2>2 DEF HashBinary
    <3> QED BY <3>1, <3>2
  <2> QED BY <2>1, <2>2
<1>16. ASSUME NEW p \in Procs, Accept(p) PROVE TypeOK'
  BY <1>16 DEF Accept, Known, ProcInv, Certificates
<1>17. ASSUME NEW p \in Procs, SourcesChanged(p) PROVE TypeOK'
  BY <1>17 DEF SourcesChanged, Ends
<1>18. ASSUME NEW p \in Procs, WriteStamp(p) PROVE TypeOK'
  <2>1. got[p] \in Certificates /\ key[p] \in Inputs
    BY <1>18 DEF WriteStamp, AfterStamp, Known, ProcInv, Holding, Publishing
  <2>2. pc' \in [Procs -> Places]
    <3> HIDE DEF Goes, Places, TypeOK
    <3> QED BY <1>18, GoesTypes, PlaceNames DEF WriteStamp, AfterStamp
  <2>3. [fingerprint |-> key[p], file |-> got[p].file, clean |-> got[p].clean] \in Stamps
    BY <2>1 DEF Certificates, Stamps
  <2>4. stamp' \in [Checkouts -> Stamps \cup {None}] BY <1>18, <2>3 DEF WriteStamp
  <2> QED BY <1>18, <2>2, <2>4 DEF WriteStamp
<1>19. ASSUME NEW p \in Procs, PublishBlob(p) PROVE TypeOK'
  <2>1. pc' \in [Procs -> Places]
    <3> HIDE DEF Goes, Places, TypeOK
    <3> QED BY <1>19, GoesTypes, PlaceNames DEF PublishBlob
  <2>2. tmp' = tmp \/ tmp' = [tmp EXCEPT ![p] = binary[Here(p)]]
    <3> HIDE DEF Goes
    <3> QED BY ONLY <1>19 DEF PublishBlob
  <2>3. tmp' \in [Procs -> Binaries \cup {None, Junk}]
    <3>1. binary[Here(p)] \in Binaries \cup {None, Junk} BY <1>19
    <3> QED BY <2>2, <3>1
  <2> QED BY <1>19, <2>1, <2>3 DEF PublishBlob
<1>20. ASSUME NEW p \in Procs, RenameBlob(p) PROVE TypeOK'
  BY <1>20 DEF RenameBlob
<1>21. ASSUME NEW p \in Procs, PublishEntry(p) PROVE TypeOK'
  BY <1>21 DEF PublishEntry, Known, ProcInv, Holding, Publishing
<1>22. ASSUME NEW p \in Procs, Run(p) PROVE TypeOK'
  BY <1>22 DEF Run, Ends
<1>23. ASSUME NEW p \in Procs, Crash(p) PROVE TypeOK'
  BY <1>23 DEF Crash, Ends, Released, Fault
<1>24. ASSUME NEW p \in Procs, WriteFails(p) PROVE TypeOK'
  <2>1. pc' \in [Procs -> Places]
    <3> HIDE DEF Goes, Places, TypeOK
    <3> QED BY <1>24, GoesTypes, PlaceNames DEF WriteFails, AfterStamp
  <2>2. faults' \in Nat BY <1>24 DEF WriteFails, Fault
  <2> QED BY <1>24, <2>1, <2>2 DEF WriteFails
<1>25. ASSUME NEW p \in Procs, CargoFails(p) PROVE TypeOK'
  BY <1>25 DEF CargoFails, Ends, Released, Fault
<1>26. ASSUME NEW c \in Checkouts, Edit(c) PROVE TypeOK'
  <2>1. inputs' \in [Checkouts -> Inputs] /\ clean' \in [Procs -> BOOLEAN]
    BY <1>26, ChangeTypes DEF Edit
  <2> QED BY <1>26, <2>1 DEF Edit, Fault
<1>27. CASE Damage
  <2>1. blob' \in [Binaries -> Binaries \cup {None, Junk}] BY <1>27 DEF Damage
  <2>2. entry' \in [Inputs -> Certificates \cup {None, Junk}] BY <1>27 DEF Damage
  <2>3. binary' \in [Checkouts -> Binaries \cup {None, Junk}] BY <1>27 DEF Damage
  <2> QED BY <1>27, <2>1, <2>2, <2>3 DEF Damage, Fault
<1>28. CASE UNCHANGED vars BY <1>28 DEF vars
<1> QED
  BY <1>1, <1>2, <1>3, <1>4, <1>5, <1>6, <1>7, <1>8, <1>9, <1>10, <1>11, <1>12, <1>13, <1>14,
     <1>15, <1>16, <1>17, <1>18, <1>19, <1>20, <1>21, <1>22, <1>23, <1>24, <1>25, <1>26, <1>27,
     <1>28 DEF Next, Step, Looks, Restores, Builds, Records

-----------------------------------------------------------------------------
(* Steps of another process. *)

Bystands(q) == /\ pc'[q] = pc[q] /\ key'[q] = key[q] /\ bin'[q] = bin[q] /\ got'[q] = got[q]
               /\ tmp'[q] = tmp[q] /\ shares'[q] = shares[q] /\ home' = home

(* A process keeps what it relies on when its checkout keeps its inputs and no cargo starts there. *)
LEMMA Frame ==
    ASSUME TypeOK, NEW q \in Procs, ProcInv(q), Bystands(q),
           inputs'[Here(q)] = inputs[Here(q)],
           binary'[Here(q)] = binary[Here(q)] \/ binary'[Here(q)] = None,
           clean'[q] = clean[q],
           \A r \in Procs : pc'[r] = "cargo" => pc[r] = "cargo" /\ bin'[r] = bin[r]
    PROVE ProcInv(q)'
<1> USE DEF Here, Bystands, ProcInv
<1>1. Known(q)' BY DEF Known
<1>2. Sharing(q)' BY DEF Sharing, Same
<1>3. Building(q)' BY DEF Building, Same
<1>4. Certified(q)' BY DEF Certified
<1> QED BY <1>1, <1>2, <1>3, <1>4

(* A change of the inputs either disturbs it or leaves it what it relies on. *)
LEMMA ChangeFrame ==
    ASSUME TypeOK, NEW q \in Procs, ProcInv(q), Bystands(q),
           NEW c \in Checkouts, NEW new \in Inputs, Change(c, new),
           binary' = binary,
           \A r \in Procs : Here(r) = Here(q) /\ pc'[r] = "cargo" =>
               (pc[r] = "cargo" /\ bin'[r] = bin[r]) \/ (Here(q) = c /\ bin'[r].inputs = new)
    PROVE ProcInv(q)'
<1> USE BuildAssumption DEF Here, Bystands, ProcInv
<1>1. clean'[q] => clean[q] /\ ~Disturbs(q, c, new) BY DEF Change
<1>2. inputs[Here(q)] \in Inputs /\ inputs'[Here(q)] = IF Here(q) = c THEN new ELSE inputs[Here(q)]
  BY DEF TypeOK, Change
<1>3. ASSUME pc[q] \in Bracket, Same(q)' PROVE Same(q)
  BY <1>1, <1>2, <1>3 DEF Same, Disturbs
<1>4. ASSUME pc[q] \in Compiled, Same(q)' PROVE inputs'[Here(q)] = inputs[Here(q)]
  <2>1. pc[q] \in Bracket /\ Same(q) BY <1>3, <1>4 DEF Bracket
  <2>2. CASE Here(q) = c
    <3>1. new.lock = inputs[c].lock BY <1>1, <1>4, <2>2 DEF Disturbs, Same
    <3>2. new.source = inputs[c].source BY <1>2, <1>4, <2>1, <2>2 DEF Same
    <3> QED BY <1>2, <2>2, <3>1, <3>2
  <2> QED BY <1>2, <2>2
<1>5. Known(q)' BY DEF Known
<1>6. Sharing(q)' BY <1>3 DEF Sharing, Consulted, Bracket
<1>7. Building(q)'
  <2>1. (pc[q] \in {"cargo", "named"} /\ Same(q) => bin[q].inputs = inputs[Here(q)])' 
    BY <1>3, <1>4 DEF Building, Bracket, Compiled
  <2>2. ASSUME (pc[q] = "built" /\ Same(q))'
        PROVE (/\ binary[Here(q)] # None => binary[Here(q)].inputs = inputs[Here(q)]
               /\ \A r \in Procs : Here(r) = Here(q) /\ pc[r] = "cargo"
                                      => bin[r].inputs = inputs[Here(q)])'
    <3>1. pc[q] = "built" /\ Same(q) /\ inputs'[Here(q)] = inputs[Here(q)]
      BY <1>3, <1>4, <2>2 DEF Bracket, Compiled
    <3>2. Building(q) OBVIOUS
    <3> QED BY <1>2, <3>1, <3>2 DEF Building
  <2> QED BY <2>1, <2>2 DEF Building
<1>8. Certified(q)' BY DEF Certified
<1> QED BY <1>5, <1>6, <1>7, <1>8

(* A step that changes no binary and no inputs keeps what its own process relies on. *)
LEMMA OwnSteps ==
    ASSUME IInv, TypeOK', NEW p \in Procs,
           \/ Begin(p) \/ ReadInputs(p) \/ ReadBinary(p) \/ Reuse(p) \/ Refuse(p) \/ ConsultStore(p)
           \/ ReadEntry(p) \/ CopyBlob(p) \/ RemoveBlob(p) \/ DiscardEntry(p)
           \/ HashBinary(p) \/ Accept(p) \/ SourcesChanged(p)
           \/ WriteStamp(p) \/ PublishBlob(p) \/ RenameBlob(p) \/ PublishEntry(p) \/ Run(p)
           \/ Crash(p) \/ WriteFails(p) \/ CargoFails(p)
    PROVE ProcInv(p)'
<1> USE BuildAssumption DEF IInv, Goes, checkout, store, local
<1>0. TypeOK /\ ProcInv(p) OBVIOUS
<1> USE DEF TypeOK, ProcInv, Known, Sharing, Building, Certified, Same, Holding, Publishing,
            Consulted, Here, Bracket, Compiled
<1>1. CASE Begin(p) BY <1>0, <1>1 DEF Begin
<1>2. CASE ReadInputs(p) BY <1>0, <1>2 DEF ReadInputs
<1>3. CASE ReadBinary(p) BY <1>0, <1>3 DEF ReadBinary
<1>4. CASE Reuse(p) BY <1>0, <1>4 DEF Reuse, StampMatches, StampsTrue, Certificates, Stamps
<1>5. CASE Refuse(p) BY <1>0, <1>5 DEF Refuse, Ends
<1>6. CASE ConsultStore(p)
  <2>1. pc[p] = "decide" /\ UNCHANGED <<home, inputs, binary, key, bin, got, tmp, clean>>
    BY <1>6 DEF ConsultStore
  <2>2. pc'[p] \in {"restore", "lockfile"}
    <3>1. pc' = [pc EXCEPT ![p] = IF shares'[p] THEN "restore" ELSE "lockfile"]
      BY <1>6 DEF ConsultStore
    <3> QED BY <3>1
  <2>3. shares'[p] => inputs[Here(p)] \in Shareable
    <3>1. shares' = [shares EXCEPT ![p] = inputs[Here(p)] \in Shareable] BY <1>6 DEF ConsultStore
    <3>2. shares'[p] = (inputs[Here(p)] \in Shareable) BY <3>1
    <3> QED BY <3>2
  <2> QED BY <1>0, <2>1, <2>2, <2>3
<1>7. CASE ReadEntry(p) BY <1>0, <1>7 DEF ReadEntry, EntriesTrue
<1>8. CASE CopyBlob(p) BY <1>0, <1>8 DEF CopyBlob
<1>9. CASE RemoveBlob(p) BY <1>0, <1>9 DEF RemoveBlob
<1>10. CASE DiscardEntry(p) BY <1>0, <1>10 DEF DiscardEntry
<1>11. CASE WriteStamp(p) BY <1>0, <1>11 DEF WriteStamp, AfterStamp
<1>12. CASE PublishBlob(p) BY <1>0, <1>12 DEF PublishBlob
<1>13. CASE RenameBlob(p) BY <1>0, <1>13 DEF RenameBlob
<1>14. CASE PublishEntry(p) BY <1>0, <1>14 DEF PublishEntry
<1>15. CASE Run(p) BY <1>0, <1>15 DEF Run, Ends
<1>16. CASE HashBinary(p)
  <2>1. CASE binary[Here(p)] = None BY <1>16, <2>1 DEF HashBinary, Ends
  <2>2. CASE binary[Here(p)] # None
    <3>1. /\ pc[p] = "built" /\ pc'[p] = "named" /\ bin'[p] = binary[Here(p)]
          /\ UNCHANGED <<home, inputs, key, got, tmp, shares, clean>>
      BY <1>16, <2>2 DEF HashBinary
    <3>2. bin'[p] \in Binaries BY <2>2, <3>1 DEF NoJunk, NeverJunk
    <3> QED BY <1>0, <2>2, <3>1, <3>2
  <2> QED BY <2>1, <2>2
<1>17. CASE Accept(p) BY <1>0, <1>17 DEF Accept, Certificates
<1>18. CASE SourcesChanged(p) BY <1>0, <1>18 DEF SourcesChanged, Ends
<1>19. CASE Crash(p) BY <1>0, <1>19 DEF Crash, Ends
<1>20. CASE WriteFails(p) BY <1>0, <1>20 DEF WriteFails, AfterStamp
<1>21. CASE CargoFails(p) BY <1>0, <1>21 DEF CargoFails, Ends
<1> QED BY <1>1, <1>2, <1>3, <1>4, <1>5, <1>6, <1>7, <1>8, <1>9, <1>10, <1>11, <1>12, <1>13,
    <1>14, <1>15, <1>16, <1>17, <1>18, <1>19, <1>20, <1>21

(* And what every other process relies on. *)
LEMMA LocalSteps ==
    ASSUME IInv, TypeOK', NEW p \in Procs, NEW q \in Procs,
           \/ Begin(p) \/ ReadInputs(p) \/ ReadBinary(p) \/ Reuse(p) \/ Refuse(p) \/ ConsultStore(p)
           \/ ReadEntry(p) \/ CopyBlob(p) \/ RemoveBlob(p) \/ DiscardEntry(p)
           \/ HashBinary(p) \/ Accept(p) \/ SourcesChanged(p)
           \/ WriteStamp(p) \/ PublishBlob(p) \/ RenameBlob(p) \/ PublishEntry(p) \/ Run(p)
           \/ Crash(p) \/ WriteFails(p) \/ CargoFails(p)
    PROVE ProcInv(q)'
<1> USE BuildAssumption DEF IInv, Goes, checkout, store, local
<1>0. TypeOK /\ ProcInv(q) OBVIOUS
<1> DEFINE Apart == /\ Bystands(q) /\ UNCHANGED <<inputs, binary>> /\ clean'[q] = clean[q]
                    /\ \A r \in Procs : pc'[r] = "cargo" => pc[r] = "cargo" /\ bin'[r] = bin[r]
<1>a. CASE q = p BY <1>a, OwnSteps
<1>b. CASE q # p
  <2> USE <1>b DEF TypeOK, Bystands
  <2>1. CASE Begin(p)
    <3>1. Apart BY <2>1 DEF Begin
    <3> QED BY <1>0, <3>1, Frame
  <2>2. CASE ReadInputs(p)
    <3>1. Apart BY <2>2 DEF ReadInputs
    <3> QED BY <1>0, <3>1, Frame
  <2>3. CASE ReadBinary(p)
    <3>1. Apart BY <2>3 DEF ReadBinary
    <3> QED BY <1>0, <3>1, Frame
  <2>4. CASE Reuse(p)
    <3>1. Apart BY <2>4 DEF Reuse
    <3> QED BY <1>0, <3>1, Frame
  <2>5. CASE Refuse(p)
    <3>1. Apart BY <2>5 DEF Refuse, Ends
    <3> QED BY <1>0, <3>1, Frame
  <2>6. CASE ConsultStore(p)
    <3>1. Apart BY <2>6 DEF ConsultStore
    <3> QED BY <1>0, <3>1, Frame
  <2>7. CASE ReadEntry(p)
    <3>1. Apart BY <2>7 DEF ReadEntry
    <3> QED BY <1>0, <3>1, Frame
  <2>8. CASE CopyBlob(p)
    <3>1. Apart BY <2>8 DEF CopyBlob
    <3> QED BY <1>0, <3>1, Frame
  <2>9. CASE RemoveBlob(p)
    <3>1. Apart BY <2>9 DEF RemoveBlob
    <3> QED BY <1>0, <3>1, Frame
  <2>10. CASE DiscardEntry(p)
    <3>1. Apart BY <2>10 DEF DiscardEntry
    <3> QED BY <1>0, <3>1, Frame
  <2>11. CASE WriteStamp(p)
    <3>1. Apart BY <2>11 DEF WriteStamp, AfterStamp
    <3> QED BY <1>0, <3>1, Frame
  <2>12. CASE PublishBlob(p)
    <3>1. Apart BY <2>12 DEF PublishBlob
    <3> QED BY <1>0, <3>1, Frame
  <2>13. CASE RenameBlob(p)
    <3>1. Apart BY <2>13 DEF RenameBlob
    <3> QED BY <1>0, <3>1, Frame
  <2>14. CASE PublishEntry(p)
    <3>1. Apart BY <2>14 DEF PublishEntry
    <3> QED BY <1>0, <3>1, Frame
  <2>15. CASE Run(p)
    <3>1. Apart BY <2>15 DEF Run, Ends
    <3> QED BY <1>0, <3>1, Frame
  <2>16. CASE HashBinary(p)
    <3>1. Apart BY <2>16 DEF HashBinary, Ends
    <3> QED BY <1>0, <3>1, Frame
  <2>17. CASE Accept(p)
    <3>1. Apart BY <2>17 DEF Accept
    <3> QED BY <1>0, <3>1, Frame
  <2>18. CASE SourcesChanged(p)
    <3>1. Apart BY <2>18 DEF SourcesChanged, Ends
    <3> QED BY <1>0, <3>1, Frame
  <2>19. CASE Crash(p)
    <3>1. Apart BY <2>19 DEF Crash, Ends
    <3> QED BY <1>0, <3>1, Frame
  <2>20. CASE WriteFails(p)
    <3>1. Apart BY <2>20 DEF WriteFails, AfterStamp
    <3> QED BY <1>0, <3>1, Frame
  <2>21. CASE CargoFails(p)
    <3>1. Apart BY <2>21 DEF CargoFails, Ends
    <3> QED BY <1>0, <3>1, Frame
  <2> QED BY <2>1, <2>2, <2>3, <2>4, <2>5, <2>6, <2>7, <2>8, <2>9, <2>10, <2>11, <2>12, <2>13,
      <2>14, <2>15, <2>16, <2>17, <2>18, <2>19, <2>20, <2>21
<1> QED BY <1>a, <1>b

(* The steps that change what is in the checkout. *)
LEMMA CheckoutSteps ==
    ASSUME IInv, TypeOK', NEW p \in Procs, NEW q \in Procs,
           \/ MoveIntoPlace(p) \/ EnsureLockfile(p) \/ CargoReads(p) \/ CargoWrites(p)
    PROVE ProcInv(q)'
<1> USE BuildAssumption DEF IInv, checkout, store, local
<1>0. TypeOK /\ ProcInv(q) /\ ProcInv(p) OBVIOUS
<1>1. CASE MoveIntoPlace(p)
  <2>1. CASE q = p
    BY <1>0, <1>1, <2>1 DEF MoveIntoPlace, Goes, TypeOK, ProcInv, Known, Sharing, Building,
       Certified, Same, Holding, Publishing, Consulted, Here, Bracket, Compiled
  <2>2. CASE q # p
    <3>1. Bystands(q) /\ inputs' = inputs BY <1>1, <2>2 DEF MoveIntoPlace, Goes, TypeOK, Bystands
    <3>2. \A r \in Procs : pc'[r] = "cargo" => pc[r] = "cargo" /\ bin'[r] = bin[r]
      BY <1>1 DEF MoveIntoPlace, Goes, TypeOK
    <3>3. clean'[q] => clean[q] /\ ~(Here(q) = Here(p) /\ pc[q] = "built")
      BY <1>1 DEF MoveIntoPlace
    <3>4. Here(q) # Here(p) => binary'[Here(q)] = binary[Here(q)]
      BY <1>1 DEF MoveIntoPlace, TypeOK, Here
    <3> QED BY <1>0, <3>1, <3>2, <3>3, <3>4 DEF Bystands, ProcInv, Known, Sharing, Building,
        Certified, Same, Holding, Publishing, Consulted, Here
  <2> QED BY <2>1, <2>2
<1>2. CASE EnsureLockfile(p)
  <2>0. Here(p) \in Checkouts /\ pc[p] = "lockfile" /\ pc'[p] = "compile"
    BY <1>2 DEF EnsureLockfile, Goes, TypeOK, Here
  <2>1. \A r \in Procs : pc'[r] = "cargo" => pc[r] = "cargo" /\ bin'[r] = bin[r]
    BY <1>2 DEF EnsureLockfile, Goes, TypeOK
  <2>2. /\ \A r \in Procs \ {p} : pc'[r] = pc[r]
        /\ UNCHANGED <<home, key, bin, got, tmp, shares, binary>>
    BY <1>2 DEF EnsureLockfile, Goes, TypeOK
  <2>3. CASE \E new \in Fitting : new.source = inputs[Here(p)].source /\ Change(Here(p), new)
    <3>1. PICK new \in Fitting : new.source = inputs[Here(p)].source /\ Change(Here(p), new)
      BY <2>3
    <3>2. CASE q = p
      <4>1. (clean'[p] => clean[p]) /\ inputs'[Here(p)].source = inputs[Here(p)].source
        BY <2>0, <3>1 DEF Change, TypeOK
      <4> QED BY <1>0, <2>0, <2>2, <3>2, <4>1 DEF ProcInv, Known, Sharing, Building, Certified,
          Same, Holding, Publishing, Consulted, Here, Bracket, Compiled
    <3>3. CASE q # p
      <4>1. Bystands(q) BY <2>2, <3>3 DEF Bystands
      <4> QED BY <1>0, <2>0, <2>1, <2>2, <3>1, <4>1, ChangeFrame
    <3> QED BY <3>2, <3>3
  <2>4. CASE UNCHANGED <<inputs, clean>>
    <3>1. CASE q = p BY <1>0, <2>0, <2>2, <2>4, <3>1 DEF ProcInv, Known, Sharing, Building,
        Certified, Same, Holding, Publishing, Consulted, Here, Bracket, Compiled
    <3>2. CASE q # p
      <4>1. Bystands(q) BY <2>2, <3>2 DEF Bystands
      <4> QED BY <1>0, <2>1, <2>2, <2>4, <4>1, Frame
    <3> QED BY <3>1, <3>2
  <2> QED BY <1>2, <2>3, <2>4 DEF EnsureLockfile
<1>3. CASE CargoReads(p)
  <2>0. Here(p) \in Checkouts /\ pc[p] = "compile" /\ pc'[p] = "cargo"
    BY <1>3 DEF CargoReads, Goes, TypeOK, Here
  <2>1. PICK new \in Fitting : /\ new.source = inputs[Here(p)].source /\ Change(Here(p), new)
                               /\ bin' = [bin EXCEPT ![p] = [inputs |-> new, at |-> Here(p)]]
    BY <1>3 DEF CargoReads
  <2>2. /\ \A r \in Procs \ {p} : pc'[r] = pc[r] /\ bin'[r] = bin[r]
        /\ UNCHANGED <<home, key, got, tmp, shares, binary>>
    BY <1>3, <2>1 DEF CargoReads, Goes, TypeOK
  <2>3. bin'[p].inputs = new /\ bin'[p] \in Binaries BY <2>0, <2>1 DEF TypeOK, Binaries
  <2>4. CASE q = p
    <3>1. (clean'[p] => clean[p]) /\ inputs'[Here(p)].source = inputs[Here(p)].source
      BY <2>0, <2>1 DEF Change, TypeOK
    <3>2. inputs'[Here(p)] = new BY <2>0, <2>1 DEF Change, TypeOK
    <3> QED BY <1>0, <2>0, <2>2, <2>3, <2>4, <3>1, <3>2 DEF ProcInv, Known, Sharing, Building,
        Certified, Same, Holding, Publishing, Consulted, Here, Bracket, Compiled
  <2>5. CASE q # p
    <3>1. Bystands(q) BY <2>2, <2>5 DEF Bystands
    <3>2. \A r \in Procs : Here(r) = Here(q) /\ pc'[r] = "cargo" =>
              (pc[r] = "cargo" /\ bin'[r] = bin[r]) \/ (Here(q) = Here(p) /\ bin'[r].inputs = new)
      BY <2>2, <2>3
    <3> QED BY <1>0, <2>0, <2>1, <2>2, <3>1, <3>2, ChangeFrame
  <2> QED BY <2>4, <2>5
<1>4. CASE CargoWrites(p)
  <2>0. /\ Here(p) \in Checkouts /\ pc[p] = "cargo" /\ pc'[p] = "built"
        /\ binary' = [binary EXCEPT ![Here(p)] = bin[p]] /\ bin[p] \in Binaries
        /\ UNCHANGED <<home, inputs, key, bin, got, tmp, shares, clean>>
    BY <1>0, <1>4 DEF CargoWrites, Goes, TypeOK, Here, ProcInv, Known
  <2>1. \A r \in Procs \ {p} : pc'[r] = pc[r] BY <1>4 DEF CargoWrites, Goes, TypeOK
  <2>2. binary'[Here(p)] = bin[p]
        /\ \A c \in Checkouts \ {Here(p)} : binary'[c] = binary[c]
    BY <2>0 DEF TypeOK
  <2>3. CASE q = p
    <3>1. \A r \in Procs : Here(r) = Here(p) /\ pc'[r] = "cargo" => FALSE
      BY <2>0, <2>1 DEF Locked
    <3> QED BY <1>0, <2>0, <2>2, <2>3, <3>1 DEF ProcInv, Known, Sharing, Building, Certified,
        Same, Holding, Publishing, Consulted, Here, Bracket, Compiled
  <2>4. CASE q # p
    <3>1. Bystands(q) BY <2>0, <2>1, <2>4 DEF Bystands
    <3>2. CASE Here(q) = Here(p)
      BY <1>0, <2>0, <2>1, <2>2, <3>1, <3>2 DEF Bystands, ProcInv, Known, Sharing, Building,
         Certified, Same, Holding, Publishing, Consulted, Here
    <3>3. CASE Here(q) # Here(p)
      <4>1. Here(q) \in Checkouts BY DEF TypeOK, Here
      <4> QED BY <1>0, <2>0, <2>1, <2>2, <3>1, <3>3, <4>1, Frame
    <3> QED BY <3>2, <3>3
  <2> QED BY <2>3, <2>4
<1> QED BY <1>1, <1>2, <1>3, <1>4

(* What goes wrong around the processes leaves what they rely on. *)
LEMMA ProcStep == ASSUME IInv, TypeOK', [Next]_vars, NEW q \in Procs PROVE ProcInv(q)'
<1> USE DEF IInv
<1>0. TypeOK /\ ProcInv(q) OBVIOUS
<1>1. ASSUME NEW p \in Procs, Step(p) \/ Crash(p) \/ WriteFails(p) \/ CargoFails(p)
      PROVE ProcInv(q)'
  BY <1>1, LocalSteps, CheckoutSteps DEF Step, Looks, Restores, Builds, Records
<1>2. ASSUME NEW c \in Checkouts, Edit(c) PROVE ProcInv(q)'
  <2>1. PICK new \in Inputs : Change(c, new) BY <1>2 DEF Edit
  <2>2. Bystands(q) /\ UNCHANGED <<pc, bin, binary>> BY <1>2 DEF Edit, Bystands, local, store
  <2> QED BY <1>0, <2>1, <2>2, ChangeFrame
<1>3. CASE Damage
  <2>1. Bystands(q) /\ UNCHANGED <<pc, bin, inputs, clean>> BY <1>3 DEF Damage, Bystands, local
  <2>2. binary'[Here(q)] = binary[Here(q)] \/ binary'[Here(q)] = None
    <3>1. binary' = binary \/ \E c \in Checkouts : binary' = [binary EXCEPT ![c] = None]
      BY <1>3 DEF Damage
    <3> QED BY <3>1 DEF TypeOK, Here
  <2> QED BY <1>0, <2>1, <2>2, Frame
<1>4. CASE UNCHANGED vars
  BY <1>0, <1>4, Frame DEF vars, local, checkout, Bystands
<1> QED BY <1>1, <1>2, <1>3, <1>4 DEF Next

(* Whoever runs cargo holds the lock of the target directory. *)
LEMMA LockedStep == ASSUME IInv, TypeOK', [Next]_vars PROVE Locked'
<1> USE BuildAssumption DEF IInv, Here
<1>1. ASSUME NEW p \in Procs, CargoReads(p) PROVE Locked'
  <2>1. /\ \A r \in Procs \ {p} : pc'[r] = pc[r]
        /\ compiling[Here(p)] = None /\ compiling' = [compiling EXCEPT ![Here(p)] = p]
        /\ home' = home
    BY <1>1 DEF CargoReads, Goes, TypeOK
  <2> QED BY <2>1 DEF TypeOK, Locked
<1>2. ASSUME NEW p \in Procs, CargoWrites(p) PROVE Locked'
  <2>1. /\ \A r \in Procs \ {p} : pc'[r] = pc[r]
        /\ pc'[p] = "built" /\ pc[p] = "cargo" /\ compiling' = [compiling EXCEPT ![Here(p)] = None]
        /\ home' = home
    BY <1>2 DEF CargoWrites, Goes, TypeOK
  <2> QED BY <2>1 DEF TypeOK, Locked
<1>3. ASSUME NEW p \in Procs, Crash(p) \/ CargoFails(p) PROVE Locked'
  <2>1. /\ \A r \in Procs \ {p} : pc'[r] = pc[r]
        /\ pc'[p] = "idle" /\ Released(p) /\ home' = home
    BY <1>3 DEF Crash, CargoFails, Ends, TypeOK
  <2> QED BY <2>1 DEF TypeOK, Locked, Released
<1>4. ASSUME UNCHANGED <<home, compiling>>, \A r \in Procs : pc'[r] = "cargo" => pc[r] = "cargo"
      PROVE Locked'
  BY <1>4 DEF Locked
<1>5. ASSUME NEW p \in Procs, Begin(p) PROVE Locked'
  BY <1>4, <1>5 DEF Begin, Goes, TypeOK, checkout
<1>6. ASSUME NEW p \in Procs, ReadInputs(p) PROVE Locked'
  BY <1>4, <1>6 DEF ReadInputs, Goes, TypeOK, checkout
<1>7. ASSUME NEW p \in Procs, ReadBinary(p) PROVE Locked'
  BY <1>4, <1>7 DEF ReadBinary, Goes, TypeOK, checkout
<1>8. ASSUME NEW p \in Procs, Reuse(p) PROVE Locked'
  BY <1>4, <1>8 DEF Reuse, Goes, TypeOK, checkout
<1>9. ASSUME NEW p \in Procs, Refuse(p) PROVE Locked'
  BY <1>4, <1>9 DEF Refuse, Goes, TypeOK, checkout, Ends
<1>10. ASSUME NEW p \in Procs, ConsultStore(p) PROVE Locked'
  BY <1>4, <1>10 DEF ConsultStore, Goes, TypeOK, checkout
<1>11. ASSUME NEW p \in Procs, ReadEntry(p) PROVE Locked'
  BY <1>4, <1>11 DEF ReadEntry, Goes, TypeOK, checkout
<1>12. ASSUME NEW p \in Procs, CopyBlob(p) PROVE Locked'
  BY <1>4, <1>12 DEF CopyBlob, Goes, TypeOK, checkout
<1>13. ASSUME NEW p \in Procs, RemoveBlob(p) PROVE Locked'
  BY <1>4, <1>13 DEF RemoveBlob, Goes, TypeOK, checkout
<1>14. ASSUME NEW p \in Procs, DiscardEntry(p) PROVE Locked'
  BY <1>4, <1>14 DEF DiscardEntry, Goes, TypeOK, checkout
<1>15. ASSUME NEW p \in Procs, MoveIntoPlace(p) PROVE Locked'
  BY <1>4, <1>15 DEF MoveIntoPlace, Goes, TypeOK, checkout
<1>16. ASSUME NEW p \in Procs, EnsureLockfile(p) PROVE Locked'
  BY <1>4, <1>16 DEF EnsureLockfile, Goes, TypeOK, checkout
<1>17. ASSUME NEW p \in Procs, HashBinary(p) PROVE Locked'
  BY <1>4, <1>17 DEF HashBinary, Goes, TypeOK, checkout, Ends
<1>18. ASSUME NEW p \in Procs, Accept(p) PROVE Locked'
  BY <1>4, <1>18 DEF Accept, Goes, TypeOK, checkout
<1>19. ASSUME NEW p \in Procs, SourcesChanged(p) PROVE Locked'
  BY <1>4, <1>19 DEF SourcesChanged, Goes, TypeOK, checkout, Ends
<1>20. ASSUME NEW p \in Procs, WriteStamp(p) PROVE Locked'
  BY <1>4, <1>20 DEF WriteStamp, Goes, TypeOK, checkout, AfterStamp
<1>21. ASSUME NEW p \in Procs, PublishBlob(p) PROVE Locked'
  BY <1>4, <1>21 DEF PublishBlob, Goes, TypeOK, checkout
<1>22. ASSUME NEW p \in Procs, RenameBlob(p) PROVE Locked'
  BY <1>4, <1>22 DEF RenameBlob, Goes, TypeOK, checkout
<1>23. ASSUME NEW p \in Procs, PublishEntry(p) PROVE Locked'
  BY <1>4, <1>23 DEF PublishEntry, Goes, TypeOK, checkout
<1>24. ASSUME NEW p \in Procs, Run(p) PROVE Locked'
  BY <1>4, <1>24 DEF Run, Goes, TypeOK, checkout, Ends
<1>25. ASSUME NEW p \in Procs, WriteFails(p) PROVE Locked'
  BY <1>4, <1>25 DEF WriteFails, Goes, TypeOK, checkout, AfterStamp
<1>26. ASSUME NEW c \in Checkouts, Edit(c) PROVE Locked'
  BY <1>4, <1>26 DEF Edit
<1>27. CASE Damage BY <1>4, <1>27 DEF Damage
<1>28. CASE UNCHANGED vars BY <1>4, <1>28 DEF vars, checkout
<1> QED
  BY <1>1, <1>2, <1>3, <1>5, <1>6, <1>7, <1>8, <1>9, <1>10, <1>11, <1>12, <1>13, <1>14, <1>15,
     <1>16, <1>17, <1>18, <1>19, <1>20, <1>21, <1>22, <1>23, <1>24, <1>25, <1>26, <1>27, <1>28
     DEF Next, Step, Looks, Restores, Builds, Records

(* A stamp or an entry is written from what its writer holds, and nothing else is written. *)
LEMMA RecordStep == ASSUME IInv, TypeOK', [Next]_vars PROVE StampsTrue' /\ EntriesTrue'
<1> USE BuildAssumption DEF IInv, Here, checkout, store
<1>1. ASSUME NEW p \in Procs, WriteStamp(p) PROVE StampsTrue'
  <2>1. got[p].clean => got[p].file.inputs = key[p]
    BY <1>1 DEF WriteStamp, AfterStamp, Goes, ProcInv, Certified, Holding
  <2>2. stamp' = [stamp EXCEPT ![Here(p)] =
                     [fingerprint |-> key[p], file |-> got[p].file, clean |-> got[p].clean]]
    BY <1>1 DEF WriteStamp
  <2> QED BY <2>1, <2>2 DEF StampsTrue, TypeOK
<1>2. ASSUME NEW p \in Procs, PublishEntry(p) PROVE EntriesTrue'
  <2>1. pc[p] = "entry" /\ entry' = [entry EXCEPT ![key[p]] = got[p]]
    BY <1>2 DEF PublishEntry, Goes
  <2>2. got[p].clean => got[p].file.inputs = key[p] /\ key[p] \in Shareable
    BY <2>1 DEF ProcInv, Certified, Known, Sharing, Holding, Publishing
  <2> QED BY <2>1, <2>2 DEF EntriesTrue, TypeOK
<1>3. ASSUME NEW p \in Procs, DiscardEntry(p) PROVE EntriesTrue'
  BY <1>3 DEF DiscardEntry, EntriesTrue, TypeOK
<1>4. CASE Damage
  <2>1. entry' = entry \/ \E i \in Inputs, d \in {None, Junk} : entry' = [entry EXCEPT ![i] = d]
    BY <1>4 DEF Damage
  <2>2. \A j \in Inputs : entry'[j] = entry[j] \/ entry'[j] \in {None, Junk} BY <2>1 DEF TypeOK
  <2>3. EntriesTrue' BY <2>2 DEF EntriesTrue
  <2> QED BY <1>4, <2>3 DEF Damage, StampsTrue
<1>5. stamp' = stamp => StampsTrue' BY DEF StampsTrue
<1>6. entry' = entry => EntriesTrue' BY DEF EntriesTrue
<1>7. ASSUME NEW p \in Procs, Looks(p) \/ Builds(p) \/ Crash(p) \/ WriteFails(p) \/ CargoFails(p)
      PROVE UNCHANGED <<stamp, entry>>
  BY <1>7 DEF Looks, Begin, ReadInputs, ReadBinary, Reuse, Refuse, ConsultStore, Builds,
              EnsureLockfile, CargoReads, CargoWrites, HashBinary, Accept, SourcesChanged,
              Crash, WriteFails, CargoFails
<1>8. ASSUME NEW p \in Procs, Restores(p) PROVE stamp' = stamp /\ (entry' = entry \/ DiscardEntry(p))
  BY <1>8 DEF Restores, ReadEntry, CopyBlob, RemoveBlob, DiscardEntry, MoveIntoPlace
<1>9. ASSUME NEW p \in Procs, Records(p)
      PROVE (stamp' = stamp \/ WriteStamp(p)) /\ (entry' = entry \/ PublishEntry(p))
  BY <1>9 DEF Records, WriteStamp, PublishBlob, RenameBlob, PublishEntry, Run
<1>10. ASSUME NEW c \in Checkouts, Edit(c) PROVE UNCHANGED <<stamp, entry>> BY <1>10 DEF Edit
<1>11. CASE UNCHANGED vars BY <1>5, <1>6, <1>11 DEF vars
<1> QED BY <1>1, <1>2, <1>3, <1>4, <1>5, <1>6, <1>7, <1>8, <1>9, <1>10, <1>11 DEF Next, Step

(* A binary in place comes from cargo or from a copy that was compared with its certificate. *)
LEMMA JunkStep == ASSUME IInv, TypeOK', [Next]_vars PROVE NoJunk'
<1> USE BuildAssumption DEF IInv, Here, checkout, store, local
<1>1. ASSUME NEW p \in Procs, MoveIntoPlace(p) PROVE NoJunk'
  <2>1. tmp[p] \in Binaries
    BY <1>1 DEF MoveIntoPlace, Goes, ProcInv, Known, Holding, Certificates
  <2> QED BY <1>1, <2>1 DEF MoveIntoPlace, NoJunk, NeverJunk, TypeOK
<1>2. ASSUME NEW p \in Procs, CargoWrites(p) PROVE NoJunk'
  <2>1. bin[p] \in Binaries BY <1>2 DEF CargoWrites, Goes, ProcInv, Known
  <2> QED BY <1>2, <2>1 DEF CargoWrites, NoJunk, NeverJunk, TypeOK
<1>3. ASSUME NEW p \in Procs, NEW f \in Binaries \cup {None},
             binary' = binary, bin' = [bin EXCEPT ![p] = f] PROVE NoJunk'
  BY <1>3 DEF NoJunk, NeverJunk, TypeOK
<1>4. ASSUME NEW p \in Procs, ReadBinary(p) \/ HashBinary(p) \/ CargoReads(p) \/ Ends(p),
             binary' = binary
      PROVE NoJunk'
  <2>1. binary[Here(p)] \in Binaries \cup {None} BY DEF NoJunk, NeverJunk, TypeOK
  <2>2. Here(p) \in Checkouts BY DEF TypeOK
  <2>3. CASE ReadBinary(p) BY <1>3, <2>1, <2>3 DEF ReadBinary
  <2>4. CASE CargoReads(p)
    <3>1. PICK new \in Fitting : bin' = [bin EXCEPT ![p] = [inputs |-> new, at |-> Here(p)]]
      BY <2>4 DEF CargoReads
    <3> QED BY <1>3, <1>4, <2>2, <3>1 DEF Binaries
  <2>5. CASE Ends(p) BY <1>3, <1>4, <2>5 DEF Ends
  <2>6. CASE HashBinary(p) /\ ~Ends(p) BY <1>3, <1>4, <2>1, <2>6 DEF HashBinary
  <2> QED BY <1>4, <2>3, <2>4, <2>5, <2>6
<1>5. UNCHANGED <<binary, bin>> => NoJunk' BY DEF NoJunk, NeverJunk
<1>6. ASSUME NEW p \in Procs, Looks(p) PROVE NoJunk'
  BY <1>4, <1>5, <1>6 DEF Looks, Begin, ReadInputs, ReadBinary, Reuse, Refuse, ConsultStore
<1>7. ASSUME NEW p \in Procs, Restores(p) PROVE NoJunk'
  BY <1>1, <1>5, <1>7 DEF Restores, ReadEntry, CopyBlob, RemoveBlob, DiscardEntry
<1>8. ASSUME NEW p \in Procs, Builds(p) PROVE NoJunk'
  BY <1>2, <1>4, <1>5, <1>8
     DEF Builds, EnsureLockfile, CargoReads, HashBinary, Accept, SourcesChanged
<1>9. ASSUME NEW p \in Procs, Records(p) \/ Crash(p) \/ WriteFails(p) \/ CargoFails(p) PROVE NoJunk'
  BY <1>4, <1>5, <1>9 DEF Records, WriteStamp, PublishBlob, RenameBlob, PublishEntry, Run,
                          Crash, WriteFails, CargoFails
<1>10. ASSUME NEW c \in Checkouts, Edit(c) PROVE NoJunk' BY <1>5, <1>10 DEF Edit
<1>11. CASE Damage
  <2>1. bin' = bin /\ (binary' = binary \/ \E c \in Checkouts : binary' = [binary EXCEPT ![c] = None])
    BY <1>11 DEF Damage
  <2> QED BY <2>1 DEF NoJunk, NeverJunk, TypeOK
<1>12. CASE UNCHANGED vars BY <1>5, <1>12 DEF vars
<1> QED BY <1>6, <1>7, <1>8, <1>9, <1>10, <1>11, <1>12 DEF Next, Step

-----------------------------------------------------------------------------
LEMMA Starts == Init => IInv
<1> SUFFICES ASSUME Init PROVE IInv OBVIOUS
<1> USE BuildAssumption DEF Init, Here
<1>1. TypeOK
  <2>1. \A p \in Procs : home[p] \in Checkouts OBVIOUS
  <2> QED BY <2>1 DEF TypeOK, Places
<1>2. Locked /\ StampsTrue /\ EntriesTrue /\ NoJunk
  BY DEF Locked, StampsTrue, EntriesTrue, NoJunk, NeverJunk
<1>3. \A p \in Procs : ProcInv(p)
  BY DEF ProcInv, Known, Sharing, Building, Certified, Holding, Publishing, Consulted, Bracket,
     Compiled
<1> QED BY <1>1, <1>2, <1>3 DEF IInv

(* The inductive invariant. *)
THEOREM Inductive == Spec => []IInv
<1>1. ASSUME IInv, [Next]_vars PROVE IInv'
  BY <1>1, TypeStep, LockedStep, RecordStep, JunkStep, ProcStep DEF IInv
<1> QED BY Starts, <1>1, PTL DEF Spec

(* Every state has its type, for any processes, checkouts and inputs. *)
THEOREM Types == Spec => []TypeOK
<1>1. IInv => TypeOK BY DEF IInv
<1> QED BY Inductive, <1>1, PTL

(* What a run executes, and what stamps and entries say of a binary, is true unless the build it    *)
(* comes from was disturbed (ensure_worker, restore_worker, publish_worker).                         *)
THEOREM UndisturbedTrue == Spec => []UndisturbedIsTrue
<1>1. IInv => UndisturbedIsTrue
  BY DEF IInv, UndisturbedIsTrue, StampsTrue, EntriesTrue, ProcInv, Certified, Holding
<1> QED BY Inductive, <1>1, PTL

(* No damaged binary reaches the place a worker is executed from (restore_worker). *)
THEOREM JunkNever == Spec => []NeverJunk
<1>1. IInv => NeverJunk BY DEF IInv, NoJunk
<1> QED BY Inductive, <1>1, PTL
=============================================================================
