-------------------------- MODULE GenerationProofs --------------------------
(* That ownership survives, generations are whole and outputs protected, for any processes and contents. *)
EXTENDS Generation, TLAPS

Recovering == {"recover", "saveRecovered", "renameRecovered", "close"}
Opening    == {"open", "lockMarker", "publishJournal"}
Working    == {"judge", "install", "mark", "forget", "clean", "judgeStale"}
Looping    == {"recover", "write", "prune"} \cup Working
Ending     == {"save", "rename", "finish"}

(* Only the holder of the guard is anywhere; so are the holders of journals and transactions. *)
Serial  == \A p \in Proc : pc[p] # "idle" => guard = p
Holding ==
    /\ \A j \in journals : j.holder # None => pc[j.holder] \in Recovering \cup Writing
    /\ \A f \in Outputs : txn[f].holder # None =>
          pc[txn[f].holder] \in Working /\ f = at[txn[f].holder]

(* A journal names the output of every transaction, and the bytes it may install. *)
Named == \A f \in Outputs :
    /\ txn[f] # NoTxn => \E j \in journals : j.files[f] # None
    /\ txn[f].stage = "approved" => txn[f].next # None
    /\ txn[f].next # None => \E j \in journals : j.files[f] = txn[f].next

(* Recovery has all journals; the outputs it has seen to are in its manifest. *)
RecoverInv(p) ==
    /\ \A j \in journals : j.holder = p
    /\ \A f \in Outputs :
          IF pc[p] = "recover" /\ f >= at[p] THEN own[p][f] = manifest[f]
          ELSE txn[f] = NoTxn /\ (disk[f] \in Generated => own[p][f] = disk[f])
    /\ pc[p] = "close" => manifest = own[p]

OpenInv(p) ==
    /\ journals = {} /\ \A f \in Outputs : txn[f] = NoTxn
    /\ pc[p] # "open" => own[p] = manifest

(* The outputs the write pass has yet to look at, has dealt with, or has pruned. *)
Ahead(p, f)  == \/ pc[p] = "read"
                \/ pc[p] = "write" /\ f >= at[p]
                \/ pc[p] \in Working /\ New(p) # None /\ f > at[p]
Behind(p, f) == \/ pc[p] = "write" /\ f < at[p]
                \/ pc[p] \in Working /\ (New(p) # None => f < at[p])
                \/ pc[p] \in {"prune"} \cup Ending
Pruned(p, f) == \/ pc[p] = "prune" /\ f < at[p]
                \/ pc[p] \in Working /\ New(p) = None /\ f < at[p]
                \/ pc[p] \in Ending

OwnJournal(p) == \E j \in journals :
    /\ journals = {j} /\ j.holder = p
    /\ \A f \in Outputs : IF plan[p][f] # None THEN j.files[f] = plan[p][f]
                          ELSE pc[p] # "finish" => j.files[f] = manifest[f]
OwnTxn(p) == \A f \in Outputs : txn[f] # NoTxn =>
    pc[p] \in Working /\ f = at[p] /\ txn[f].holder = p
Entry(p, f) ==
    /\ plan[p][f] # None /\ Ahead(p, f) =>
          /\ own[p][f] = manifest[f]
          /\ pc[p] # "read" /\ disk[f] \in Generated => disk[f] = seen[p][f]
    /\ plan[p][f] # None /\ Behind(p, f) /\ disk[f] \in Generated =>
          disk[f] = plan[p][f] /\ own[p][f] = disk[f]
    /\ plan[p][f] = None /\ pc[p] \notin {"rename", "finish"} => own[p][f] = manifest[f]
    /\ plan[p][f] = None /\ Pruned(p, f) => disk[f] \notin Generated
Current(p) == LET f == at[p] IN
    /\ pc[p] \in Working => txn[f].holder = p
    /\ pc[p] \in {"judge", "install"} =>
          New(p) # None /\ txn[f].next = New(p) /\ disk[f] \notin Generated /\ own[p][f] = manifest[f]
    /\ pc[p] \in {"mark", "forget"} => New(p) # None /\ (disk[f] \in Generated => disk[f] = New(p))
    /\ pc[p] \in {"forget", "clean"} /\ disk[f] \in Generated =>
          New(p) # None /\ disk[f] = New(p) /\ own[p][f] = New(p)
    /\ pc[p] = "judgeStale" => New(p) = None /\ own[p][f] # None /\ disk[f] \notin Generated
Saving(p) ==
    /\ pc[p] \in {"rename", "finish"} => own[p] = Kept(p)
    /\ pc[p] = "finish" => manifest = own[p]
WriteInv(p) == /\ OwnJournal(p) /\ OwnTxn(p) /\ \A f \in Outputs : Entry(p, f)
               /\ Current(p) /\ Saving(p)

ProcInv(p) ==
    /\ pc[p] \notin Looping => at[p] = 1
    /\ pc[p] \in Recovering => RecoverInv(p)
    /\ pc[p] \in Opening => OpenInv(p)
    /\ pc[p] \in Writing => WriteInv(p)

LastInv == last # None => guard = None /\ SuccessIsWhole

IInv == /\ TypeOK /\ Serial /\ Holding /\ Named /\ OwnershipSurvives /\ OwnFilesStay /\ LastInv
        /\ \A p \in Proc : ProcInv(p)

-----------------------------------------------------------------------------
(* A process that goes to a place is there, and the others stay where they are. *)
LEMMA GoesTo ==
    ASSUME pc \in [Proc -> Places], NEW p \in Proc, NEW place \in Places, Goes(p, place)
    PROVE /\ pc' \in [Proc -> Places] /\ pc'[p] = place
          /\ \A q \in Proc : q # p => pc'[q] = pc[q]
BY DEF Goes

LEMMA OnwardTo ==
    ASSUME TypeOK, NEW p \in Proc, NEW loop \in Places, NEW after \in Places, Onward(p, loop, after)
    PROVE /\ pc' \in [Proc -> Places] /\ at' \in [Proc -> Outputs]
          /\ \A q \in Proc : q # p => pc'[q] = pc[q] /\ at'[q] = at[q]
          /\ \/ at[p] < Count /\ at'[p] = at[p] + 1 /\ pc'[p] = loop
             \/ at[p] = Count /\ at'[p] = 1 /\ pc'[p] = after
<1>0. Count \in Nat \ {0} /\ at \in [Proc -> Outputs] /\ at[p] \in 1 .. Count /\ pc \in [Proc -> Places]
  BY GenerationAssumption DEF TypeOK, Outputs
<1>1. CASE at[p] < Count
  <2>1. at' = [at EXCEPT ![p] = @ + 1] /\ Goes(p, loop) BY <1>1 DEF Onward
  <2> QED BY <1>0, <1>1, <2>1, GoesTo DEF Outputs
<1>2. CASE ~(at[p] < Count)
  <2>1. at' = [at EXCEPT ![p] = 1] /\ Goes(p, after) BY <1>2 DEF Onward
  <2> QED BY <1>0, <1>2, <2>1, GoesTo DEF Outputs
<1> QED BY <1>1, <1>2

(* A finished run forgets, and only its process moves. *)
LEMMA ForgetsTo ==
    ASSUME TypeOK, NEW p \in Proc, Forgets(p)
    PROVE /\ pc' \in [Proc -> Places] /\ at' \in [Proc -> Outputs]
          /\ plan' \in [Proc -> Plan] /\ force' \in [Proc -> BOOLEAN] /\ own' \in [Proc -> Entries]
          /\ seen' \in [Proc -> [Outputs -> Content \cup {None}]]
          /\ pc'[p] = "idle" /\ at'[p] = 1 /\ guard' = None /\ quiet' = quiet
          /\ \A q \in Proc : q # p => pc'[q] = pc[q] /\ at'[q] = at[q]
<1>0. "idle" \in Places /\ pc \in [Proc -> Places] /\ 1 \in Outputs
  BY GenerationAssumption DEF TypeOK, Places, Outputs
<1>1. pc' \in [Proc -> Places] /\ pc'[p] = "idle" /\ \A q \in Proc : q # p => pc'[q] = pc[q]
  BY <1>0, GoesTo DEF Forgets
<1>2. at' \in [Proc -> Outputs] /\ at'[p] = 1 /\ \A q \in Proc : q # p => at'[q] = at[q]
  BY <1>0 DEF Forgets, TypeOK
<1>3. Nothing \in Entries /\ Nothing \in Plan /\ Nothing \in [Outputs -> Content \cup {None}]
  BY DEF Nothing, Entries, Plan
<1>4. plan' \in [Proc -> Plan] /\ own' \in [Proc -> Entries]
  BY <1>3 DEF Forgets, TypeOK
<1>5. seen' \in [Proc -> [Outputs -> Content \cup {None}]]
  BY <1>3 DEF Forgets, TypeOK
<1>6. force' \in [Proc -> BOOLEAN] BY DEF Forgets, TypeOK
<1> QED BY <1>1, <1>2, <1>4, <1>5, <1>6 DEF Forgets

(* Released journals and freed transactions keep what they say. *)
LEMMA ReleasedTo ==
    ASSUME TypeOK, NEW p \in Proc
    PROVE /\ Released(p) \subseteq [files : Entries, holder : Proc \cup {None}]
          /\ \A j \in Released(p) : j.holder # p
          /\ \A j \in Released(p) : \E i \in journals : i.files = j.files /\ j.holder \in {None, i.holder}
          /\ \A i \in journals : \E j \in Released(p) : i.files = j.files
<1>0. journals \subseteq [files : Entries, holder : Proc \cup {None}] /\ None \notin Proc
  BY GenerationAssumption DEF TypeOK
<1> DEFINE R(j) == IF j.holder = p THEN [j EXCEPT !.holder = None] ELSE j
<1>1. ASSUME NEW i \in journals
      PROVE /\ R(i) \in [files : Entries, holder : Proc \cup {None}]
            /\ R(i).holder # p /\ R(i).files = i.files /\ R(i).holder \in {None, i.holder}
  BY <1>0
<1>2. Released(p) = {R(j) : j \in journals} BY DEF Released
<1> HIDE DEF R
<1> QED BY <1>1, <1>2

LEMMA FreedTo ==
    ASSUME TypeOK, NEW p \in Proc
    PROVE /\ Freed(p) \in [Outputs -> Txn]
          /\ \A f \in Outputs : /\ Freed(p)[f].holder # p /\ Freed(p)[f].holder \in {None, txn[f].holder}
                                /\ Freed(p)[f].stage = txn[f].stage /\ Freed(p)[f].next = txn[f].next
                                /\ Freed(p)[f].previous = txn[f].previous
                                /\ txn[f] = NoTxn => Freed(p)[f] = NoTxn
<1>0. txn \in [Outputs -> Txn] /\ None \notin Proc BY GenerationAssumption DEF TypeOK
<1>1. ASSUME NEW f \in Outputs
      PROVE /\ Freed(p)[f] \in Txn
            /\ Freed(p)[f].holder # p /\ Freed(p)[f].holder \in {None, txn[f].holder}
            /\ Freed(p)[f].stage = txn[f].stage /\ Freed(p)[f].next = txn[f].next
            /\ Freed(p)[f].previous = txn[f].previous
            /\ txn[f] = NoTxn => Freed(p)[f] = NoTxn
  BY <1>0 DEF Freed, Txn, NoTxn
<1> QED BY <1>1 DEF Freed

-----------------------------------------------------------------------------
(* Types. *)
(* What recovery leaves in an output and claims to own has the right type. *)
LEMMA RecoveryTypes ==
    ASSUME TypeOK, Named, NEW p \in Proc, NEW f \in Outputs, f = at[p], NEW c \in Content \cup {None},
           c = disk[f]
    PROVE Repaired(f) \in Content \cup {None} /\ Reconstructed(p) \in Generated \cup {None}
<1>1. Pending(f) \in Txn /\ Generated \subseteq Content /\ None \notin Content
  BY GenerationAssumption DEF TypeOK, Pending, NoTxn, Txn, Content
<1>2. Repaired(f) \in Content \cup {None} BY <1>1 DEF Repaired, Recovered, Txn
<1>3. Journalled(p) \subseteq Generated BY DEF Journalled, Mine, TypeOK, Entries
<1>4. Installed(Pending(f), disk[f]) => Pending(f).next \in Generated \cup {None}
  BY <1>1 DEF Txn
<1>5. own[p][f] \in Generated \cup {None} BY DEF TypeOK, Entries
<1> QED BY <1>2, <1>3, <1>4, <1>5 DEF Reconstructed

LEMMA TypeStep == ASSUME IInv, [Next]_vars PROVE TypeOK'
<1>0. TypeOK /\ Named BY DEF IInv
<1>t. /\ disk \in [Outputs -> Content \cup {None}] /\ txn \in [Outputs -> Txn] /\ manifest \in Entries
      /\ temp \subseteq Proc \cup {None} /\ markers \subseteq Proc \cup {None}
      /\ journals \subseteq [files : Entries, holder : Proc \cup {None}]
      /\ guard \in Proc \cup {None} /\ pc \in [Proc -> Places] /\ at \in [Proc -> Outputs]
      /\ plan \in [Proc -> Plan] /\ force \in [Proc -> BOOLEAN] /\ own \in [Proc -> Entries]
      /\ seen \in [Proc -> [Outputs -> Content \cup {None}]]
      /\ outcome \in {"none", "running", "crashed", "error", "conflict", "done"}
      /\ last \in Plan \cup {None} /\ quiet \in BOOLEAN
  BY <1>0 DEF TypeOK
<1>a. /\ Generated \subseteq Content /\ Foreign \subseteq Content /\ Plans \subseteq Plan
      /\ NoTxn \in Txn /\ None \notin Proc
  BY GenerationAssumption DEF Content, NoTxn, Txn
<1>p. /\ {"idle", "acquire", "recover", "saveRecovered", "renameRecovered", "close"} \subseteq Places
      /\ {"open", "lockMarker", "publishJournal", "read", "write", "judge", "install"} \subseteq Places
      /\ {"mark", "forget", "clean", "prune", "judgeStale", "save", "rename", "finish"} \subseteq Places
  BY DEF Places
<1> USE DEF files, state, memory
<1>1. ASSUME NEW p \in Proc, NEW wanted \in Plans, NEW by \in BOOLEAN, Start(p, wanted, by) PROVE TypeOK'
  <2>1. pc' \in [Proc -> Places] BY <1>1, <1>t, <1>p, GoesTo DEF Start
  <2>2. plan' \in [Proc -> Plan] /\ force' \in [Proc -> BOOLEAN] BY <1>1, <1>t, <1>a DEF Start
  <2> QED BY <1>1, <1>t, <1>a, <2>1, <2>2 DEF Start, TypeOK
<1>2. ASSUME NEW p \in Proc, Acquire(p) PROVE TypeOK'
  <2>1. pc' \in [Proc -> Places] BY <1>2, <1>t, <1>p, GoesTo DEF Acquire
  <2>2. journals' \subseteq [files : Entries, holder : Proc \cup {None}]
    <3>1. \A j \in journals : /\ j \in [files : Entries, holder : Proc \cup {None}]
                              /\ [j EXCEPT !.holder = p] \in [files : Entries, holder : Proc \cup {None}]
      BY <1>t
    <3>2. journals' = {IF j.holder = None THEN [j EXCEPT !.holder = p] ELSE j : j \in journals}
      BY <1>2 DEF Acquire
    <3> QED BY <3>1, <3>2
  <2>3. own' \in [Proc -> Entries] BY <1>2, <1>t DEF Acquire
  <2>4. markers' \subseteq Proc \cup {None} BY <1>2, <1>t DEF Acquire
  <2> QED BY <1>2, <1>t, <2>1, <2>2, <2>3, <2>4 DEF Acquire, TypeOK
<1>3. ASSUME NEW p \in Proc, RecoverOutput(p) PROVE TypeOK'
  <2>1. pc' \in [Proc -> Places] /\ at' \in [Proc -> Outputs] BY <1>3, <1>0, <1>p, OnwardTo DEF RecoverOutput
  <2>2. at[p] \in Outputs /\ disk[at[p]] \in Content \cup {None} /\ own[p] \in Entries BY <1>t
  <2>3. Repaired(at[p]) \in Content \cup {None} /\ Reconstructed(p) \in Generated \cup {None}
    BY <1>0, <2>2, RecoveryTypes
  <2>4. disk' \in [Outputs -> Content \cup {None}] BY <1>3, <1>t, <2>3 DEF RecoverOutput
  <2>5. txn' \in [Outputs -> Txn] BY <1>3, <1>t, <1>a DEF RecoverOutput
  <2>6. own' \in [Proc -> Entries]
    <3>1. [own[p] EXCEPT ![at[p]] = Reconstructed(p)] \in Entries BY <2>2, <2>3 DEF Entries
    <3> QED BY <1>3, <1>t, <3>1 DEF RecoverOutput
  <2> QED BY <1>3, <1>t, <2>1, <2>4, <2>5, <2>6 DEF RecoverOutput, TypeOK
<1>4. ASSUME NEW p \in Proc, CrashInRecovery(p) PROVE TypeOK'
  <2>1. at[p] \in Outputs /\ disk[at[p]] \in Content \cup {None} BY <1>t
  <2>2. Repaired(at[p]) \in Content \cup {None} BY <1>0, <2>1, RecoveryTypes
  <2>3. [NoTxn EXCEPT !.stage = "done"] \in Txn BY DEF NoTxn, Txn, Stages
  <2> QED BY <1>4, <1>0, <1>t, <2>2, <2>3, ForgetsTo, ReleasedTo DEF CrashInRecovery, TypeOK
<1>5. ASSUME NEW p \in Proc, NEW how \in {"error", "conflict"}, Stops(p, how) PROVE TypeOK'
  BY <1>5, <1>0, <1>t, ForgetsTo, ReleasedTo, FreedTo DEF Stops, TypeOK
<1>6. ASSUME NEW p \in Proc, MeetConflict(p) PROVE TypeOK'
  BY <1>5, <1>6 DEF MeetConflict
<1>7. ASSUME NEW p \in Proc, NEW entries \in Entries, NEW here, NEW there \in Places, NEW after \in Places,
             WriteTemp(p, entries, here, there, after)
      PROVE TypeOK'
  <2>1. pc' \in [Proc -> Places] BY <1>7, <1>t, GoesTo DEF WriteTemp
  <2>2. temp' \subseteq Proc \cup {None} BY <1>7, <1>t DEF WriteTemp
  <2>3. own' \in [Proc -> Entries] BY <1>7, <1>t DEF WriteTemp
  <2> QED BY <1>7, <1>t, <2>1, <2>2, <2>3 DEF WriteTemp, TypeOK
<1>8. ASSUME NEW p \in Proc, NEW there \in Places, NEW after \in Places, RenameTemp(p, there, after)
      PROVE TypeOK'
  <2>1. pc' \in [Proc -> Places] BY <1>8, <1>t, GoesTo DEF RenameTemp
  <2>2. manifest' \in Entries /\ temp' \subseteq Proc \cup {None} BY <1>8, <1>t DEF RenameTemp
  <2> QED BY <1>8, <1>t, <2>1, <2>2 DEF RenameTemp, TypeOK
<1>9. ASSUME NEW p \in Proc, SaveRecovered(p) PROVE TypeOK'
  BY <1>7, <1>9, <1>p, <1>t DEF SaveRecovered
<1>10. ASSUME NEW p \in Proc, RenameRecovered(p) PROVE TypeOK'
  BY <1>8, <1>10, <1>p DEF RenameRecovered
<1>11. ASSUME NEW p \in Proc, CloseRecovered(p) PROVE TypeOK'
  <2>1. pc' \in [Proc -> Places] BY <1>11, <1>t, <1>p, GoesTo DEF CloseRecovered
  <2> QED BY <1>11, <1>t, <2>1 DEF CloseRecovered, TypeOK
<1>12. ASSUME NEW p \in Proc, OpenMarker(p) PROVE TypeOK'
  <2>1. pc' \in [Proc -> Places] BY <1>12, <1>t, <1>p, GoesTo DEF OpenMarker
  <2>2. own' \in [Proc -> Entries] BY <1>12, <1>t DEF OpenMarker
  <2> QED BY <1>12, <1>t, <2>1, <2>2 DEF OpenMarker, TypeOK
<1>13. ASSUME NEW p \in Proc, LockMarker(p) PROVE TypeOK'
  <2>1. pc' \in [Proc -> Places] BY <1>13, <1>t, <1>p, GoesTo DEF LockMarker
  <2> QED BY <1>13, <1>t, <2>1 DEF LockMarker, TypeOK
<1>14. ASSUME NEW p \in Proc, PublishJournal(p) PROVE TypeOK'
  <2>1. pc' \in [Proc -> Places] BY <1>14, <1>t, <1>p, GoesTo DEF PublishJournal
  <2>2. RecoveryFiles(p) \in Entries BY <1>t DEF RecoveryFiles, Entries, Plan
  <2> QED BY <1>14, <1>t, <2>1, <2>2 DEF PublishJournal, TypeOK
<1>15. ASSUME NEW p \in Proc, Read(p) PROVE TypeOK'
  <2>1. pc' \in [Proc -> Places] BY <1>15, <1>t, <1>p, GoesTo DEF Read
  <2>2. seen' \in [Proc -> [Outputs -> Content \cup {None}]] BY <1>15, <1>t DEF Read
  <2> QED BY <1>15, <1>t, <2>1, <2>2 DEF Read, TypeOK
<1>16. ASSUME NEW p \in Proc, LeaveAlone(p) PROVE TypeOK'
  <2>1. pc' \in [Proc -> Places] /\ at' \in [Proc -> Outputs] BY <1>16, <1>0, <1>p, OnwardTo DEF LeaveAlone
  <2>2. at[p] \in Outputs /\ own[p] \in Entries /\ New(p) \in Generated \cup {None} BY <1>t DEF New, Plan
  <2>3. own' = own \/ own' = [own EXCEPT ![p][at[p]] = New(p)] BY <1>16 DEF LeaveAlone, Unchanged
  <2>4. [own[p] EXCEPT ![at[p]] = New(p)] \in Entries BY <2>2 DEF Entries
  <2>5. own' \in [Proc -> Entries] BY <1>t, <2>3, <2>4
  <2> QED BY <1>16, <1>t, <2>1, <2>5 DEF LeaveAlone, TypeOK
<1>17. ASSUME NEW p \in Proc, NEW place \in Places, MoveAside(p, place) PROVE TypeOK'
  <2>1. pc' \in [Proc -> Places] BY <1>17, <1>t, GoesTo DEF MoveAside
  <2>2. at[p] \in Outputs /\ New(p) \in Generated \cup {None} /\ disk[at[p]] \in Content \cup {None}
    BY <1>t DEF New, Plan
  <2>3. [stage |-> "aside", next |-> New(p), previous |-> disk[at[p]], holder |-> p] \in Txn
    BY <2>2 DEF Txn, Stages
  <2>4. txn' \in [Outputs -> Txn] /\ disk' \in [Outputs -> Content \cup {None}]
    BY <1>17, <1>t, <2>3 DEF MoveAside
  <2> QED BY <1>17, <1>t, <2>1, <2>4 DEF MoveAside, TypeOK
<1>18. ASSUME NEW p \in Proc, Quarantine(p) PROVE TypeOK'
  BY <1>17, <1>18, <1>p DEF Quarantine
<1>19. ASSUME NEW p \in Proc, QuarantineStale(p) PROVE TypeOK'
  BY <1>17, <1>19, <1>p DEF QuarantineStale
<1>20. ASSUME NEW p \in Proc, NEW stage \in Stages, Stage(p, stage) PROVE txn' \in [Outputs -> Txn]
  <2>1. at[p] \in Outputs /\ txn[at[p]] \in Txn BY <1>t
  <2>2. [txn[at[p]] EXCEPT !.stage = stage] \in Txn BY <2>1 DEF Txn
  <2>3. txn' = [txn EXCEPT ![at[p]] = [txn[at[p]] EXCEPT !.stage = stage]] BY <1>20 DEF Stage
  <2> QED BY <1>t, <2>1, <2>2, <2>3
<1>21. ASSUME NEW p \in Proc, Finished(p) PROVE txn' \in [Outputs -> Txn]
  <2>1. at[p] \in Outputs /\ txn[at[p]] \in Txn BY <1>t
  <2>2. [txn[at[p]] EXCEPT !.stage = "done", !.next = None, !.previous = None] \in Txn
    BY <2>1 DEF Txn, Stages
  <2>3. txn' = [txn EXCEPT ![at[p]] = [txn[at[p]] EXCEPT !.stage = "done", !.next = None, !.previous = None]]
    BY <1>t, <2>1, <1>21 DEF Finished, Txn
  <2> QED BY <1>t, <2>1, <2>2, <2>3
<1>s. {"approved", "moved", "installed"} \subseteq Stages BY DEF Stages
<1>22. ASSUME NEW p \in Proc, Approve(p) PROVE TypeOK'
  <2>1. pc' \in [Proc -> Places] BY <1>22, <1>t, <1>p, GoesTo DEF Approve
  <2>2. txn' \in [Outputs -> Txn] BY <1>20, <1>22, <1>s DEF Approve
  <2> QED BY <1>22, <1>t, <2>1, <2>2 DEF Approve, TypeOK
<1>23. ASSUME NEW p \in Proc, GiveBack(p) PROVE TypeOK'
  <2>1. pc' \in [Proc -> Places] BY <1>23, <1>t, <1>p, GoesTo DEF GiveBack
  <2>2. txn' \in [Outputs -> Txn] BY <1>21, <1>23 DEF GiveBack
  <2>3. at[p] \in Outputs /\ New(p) \in Generated \cup {None} /\ Aside(p) \in Content \cup {None}
    BY <1>t DEF New, Plan, Aside, Txn
  <2>4. disk' \in [Outputs -> Content \cup {None}] BY <1>23, <1>t, <2>3 DEF GiveBack
  <2>5. [own[p] EXCEPT ![at[p]] = New(p)] \in Entries BY <1>t, <2>3 DEF Entries
  <2>6. own' \in [Proc -> Entries] BY <1>23, <1>t, <2>5 DEF GiveBack
  <2> QED BY <1>23, <1>t, <2>1, <2>2, <2>4, <2>6 DEF GiveBack, TypeOK
<1>24. ASSUME NEW p \in Proc, Install(p) PROVE TypeOK'
  <2>1. pc' \in [Proc -> Places] BY <1>24, <1>t, <1>p, GoesTo DEF Install
  <2>2. txn' \in [Outputs -> Txn] BY <1>20, <1>24, <1>s DEF Install
  <2>3. at[p] \in Outputs /\ New(p) \in Generated \cup {None} BY <1>t DEF New, Plan
  <2>4. disk' \in [Outputs -> Content \cup {None}] BY <1>24, <1>t, <1>a, <2>3 DEF Install
  <2> QED BY <1>24, <1>t, <2>1, <2>2, <2>4 DEF Install, TypeOK
<1>25. ASSUME NEW p \in Proc, Blocked(p) PROVE TypeOK'
  BY <1>5, <1>25 DEF Blocked
<1>26. ASSUME NEW p \in Proc, Mark(p) PROVE TypeOK'
  <2>1. pc' \in [Proc -> Places] BY <1>26, <1>t, <1>p, GoesTo DEF Mark
  <2>2. txn' \in [Outputs -> Txn] BY <1>20, <1>26, <1>s DEF Mark
  <2>3. at[p] \in Outputs /\ New(p) \in Generated \cup {None} BY <1>t DEF New, Plan
  <2>4. [own[p] EXCEPT ![at[p]] = New(p)] \in Entries BY <1>t, <2>3 DEF Entries
  <2>5. own' \in [Proc -> Entries] BY <1>26, <1>t, <2>4 DEF Mark
  <2> QED BY <1>26, <1>t, <2>1, <2>2, <2>5 DEF Mark, TypeOK
<1>27. ASSUME NEW p \in Proc, ForgetDecisions(p) PROVE TypeOK'
  <2>1. pc' \in [Proc -> Places] BY <1>27, <1>t, <1>p, GoesTo DEF ForgetDecisions
  <2>2. txn' \in [Outputs -> Txn] BY <1>21, <1>27 DEF ForgetDecisions
  <2> QED BY <1>27, <1>t, <2>1, <2>2 DEF ForgetDecisions, TypeOK
<1>28. ASSUME NEW p \in Proc, Clean(p) PROVE TypeOK'
  <2>1. Pass(p) \in Places /\ After(p) \in Places BY <1>p DEF Pass, After
  <2>2. pc' \in [Proc -> Places] /\ at' \in [Proc -> Outputs]
    BY <1>28, <1>0, <2>1, OnwardTo DEF Clean, NextOutput
  <2>3. txn' \in [Outputs -> Txn] BY <1>28, <1>t, <1>a DEF Clean
  <2> QED BY <1>28, <1>t, <2>2, <2>3 DEF Clean, TypeOK
<1>29. ASSUME NEW p \in Proc, SkipCurrent(p) PROVE TypeOK'
  <2>1. pc' \in [Proc -> Places] /\ at' \in [Proc -> Outputs]
    BY <1>29, <1>0, <1>p, OnwardTo DEF SkipCurrent
  <2> QED BY <1>29, <1>t, <2>1 DEF SkipCurrent, TypeOK
<1>30. ASSUME NEW p \in Proc, DeleteStale(p) PROVE TypeOK'
  <2>1. pc' \in [Proc -> Places] BY <1>30, <1>t, <1>p, GoesTo DEF DeleteStale
  <2>2. txn' \in [Outputs -> Txn] BY <1>21, <1>30 DEF DeleteStale
  <2> QED BY <1>30, <1>t, <2>1, <2>2 DEF DeleteStale, TypeOK
<1>31. ASSUME NEW p \in Proc, Save(p) PROVE TypeOK'
  <2>1. Kept(p) \in Entries BY <1>t DEF Kept, Entries
  <2> QED BY <1>7, <1>31, <1>p, <2>1 DEF Save
<1>32. ASSUME NEW p \in Proc, Rename(p) PROVE TypeOK'
  BY <1>8, <1>32, <1>p DEF Rename
<1>33. ASSUME NEW p \in Proc, Finish(p) PROVE TypeOK'
  <2>1. last' \in Plan BY <1>33, <1>t DEF Finish
  <2> QED BY <1>33, <1>0, <1>t, <2>1, ForgetsTo DEF Finish, TypeOK
<1>34. ASSUME NEW p \in Proc, Crash(p) PROVE TypeOK'
  <2>1. markers' \subseteq Proc \cup {None} /\ temp' \subseteq Proc \cup {None} BY <1>34, <1>t DEF Crash
  <2> QED BY <1>34, <1>0, <1>t, <2>1, ForgetsTo, ReleasedTo, FreedTo DEF Crash, TypeOK
<1>35. ASSUME NEW f \in Outputs, NEW content \in Foreign \cup {None}, UserWrites(f, content) PROVE TypeOK'
  <2>1. disk' \in [Outputs -> Content \cup {None}] BY <1>35, <1>t, <1>a DEF UserWrites
  <2> QED BY <1>35, <1>t, <2>1 DEF UserWrites, TypeOK
<1>36. ASSUME NEW f \in Outputs, UserResolves(f) PROVE TypeOK'
  <2>1. txn' \in [Outputs -> Txn] BY <1>36, <1>t, <1>a DEF UserResolves
  <2> QED BY <1>36, <1>t, <2>1 DEF UserResolves, TypeOK
<1>37. CASE BecomeQuiet BY <1>37, <1>t DEF BecomeQuiet, TypeOK
<1>38. CASE UNCHANGED vars BY <1>38, <1>t DEF vars, TypeOK
<1> QED
  BY <1>1, <1>2, <1>3, <1>4, <1>6, <1>9, <1>10, <1>11, <1>12, <1>13, <1>14, <1>15, <1>16, <1>18,
     <1>19, <1>22, <1>23, <1>24, <1>25, <1>26, <1>27, <1>28, <1>29, <1>30, <1>31, <1>32, <1>33,
     <1>34, <1>35, <1>36, <1>37, <1>38 DEF Next, Work, Begin, Recover, Write, End, User

-----------------------------------------------------------------------------
(* One process at a time. *)
LEMMA Alone ==
    ASSUME IInv, NEW p \in Proc, pc[p] # "idle" \/ guard = None
    PROVE /\ \A q \in Proc : q # p => pc[q] = "idle"
          /\ pc[p] # "idle" => guard = p
BY GenerationAssumption DEF IInv, Serial

Act(p) == Begin(p) \/ Recover(p) \/ Write(p) \/ End(p) \/ Crash(p)

(* The process that acts has the guard, the others are idle and stay so. *)
Moves(p) == /\ \A q \in Proc : q # p => pc[q] = "idle" /\ pc'[q] = "idle" /\ at'[q] = at[q]
            /\ pc'[p] # "idle" => guard' = p

LEMMA ActMoves == ASSUME IInv, NEW p \in Proc, Act(p) PROVE Moves(p)
<1>0. TypeOK /\ pc \in [Proc -> Places] BY DEF IInv, TypeOK
<1>p. /\ {"idle", "acquire", "recover", "saveRecovered", "renameRecovered", "close"} \subseteq Places
      /\ {"open", "lockMarker", "publishJournal", "read", "write", "judge", "install"} \subseteq Places
      /\ {"mark", "forget", "clean", "prune", "judgeStale", "save", "rename", "finish"} \subseteq Places
  BY DEF Places
<1>g. ASSUME NEW place \in Places, pc[p] # "idle", Goes(p, place), UNCHANGED <<guard, at>> PROVE Moves(p)
  BY <1>0, <1>g, GoesTo, Alone DEF Moves
<1>o. ASSUME NEW loop \in Places, NEW after \in Places, pc[p] # "idle", Onward(p, loop, after),
             UNCHANGED guard
      PROVE Moves(p)
  BY <1>0, <1>o, OnwardTo, Alone DEF Moves
<1>f. ASSUME pc[p] # "idle", Forgets(p) PROVE Moves(p)
  BY <1>0, <1>f, ForgetsTo, Alone DEF Moves
<1> USE DEF state, memory
<1>1. ASSUME NEW wanted \in Plans, NEW by \in BOOLEAN, Start(p, wanted, by) PROVE Moves(p)
  BY <1>0, <1>p, <1>1, GoesTo, Alone DEF Start, Moves
<1>2. CASE Acquire(p) BY <1>p, <1>g, <1>2 DEF Acquire
<1>3. CASE CloseRecovered(p) BY <1>p, <1>g, <1>3 DEF CloseRecovered
<1>4. CASE OpenMarker(p) BY <1>p, <1>g, <1>4 DEF OpenMarker
<1>5. CASE LockMarker(p) BY <1>p, <1>g, <1>5 DEF LockMarker
<1>6. CASE PublishJournal(p) BY <1>p, <1>g, <1>6 DEF PublishJournal
<1>7. CASE Read(p) BY <1>p, <1>g, <1>7 DEF Read
<1>8. CASE Approve(p) BY <1>p, <1>g, <1>8 DEF Approve
<1>9. CASE GiveBack(p) BY <1>p, <1>g, <1>9 DEF GiveBack, Protected
<1>10. CASE Install(p) BY <1>p, <1>g, <1>10 DEF Install
<1>11. CASE Mark(p) BY <1>p, <1>g, <1>11 DEF Mark
<1>12. CASE ForgetDecisions(p) BY <1>p, <1>g, <1>12 DEF ForgetDecisions
<1>13. CASE DeleteStale(p) BY <1>p, <1>g, <1>13 DEF DeleteStale
<1>14. CASE RecoverOutput(p) BY <1>p, <1>o, <1>14 DEF RecoverOutput
<1>15. CASE LeaveAlone(p) BY <1>p, <1>o, <1>15 DEF LeaveAlone
<1>16. CASE SkipCurrent(p) BY <1>p, <1>o, <1>16 DEF SkipCurrent
<1>17. CASE Clean(p)
  <2>1. Pass(p) \in Places /\ After(p) \in Places BY <1>p DEF Pass, After
  <2> QED BY <2>1, <1>o, <1>17 DEF Clean, NextOutput
<1>18. CASE Quarantine(p) BY <1>p, <1>g, <1>18 DEF Quarantine, MoveAside
<1>19. CASE QuarantineStale(p) BY <1>p, <1>g, <1>19 DEF QuarantineStale, MoveAside
<1>20. CASE SaveRecovered(p) BY <1>p, <1>g, <1>20 DEF SaveRecovered, WriteTemp
<1>21. CASE RenameRecovered(p) BY <1>p, <1>g, <1>21 DEF RenameRecovered, RenameTemp
<1>22. CASE Save(p) BY <1>p, <1>g, <1>22 DEF Save, WriteTemp
<1>23. CASE Rename(p) BY <1>p, <1>g, <1>23 DEF Rename, RenameTemp
<1>24. CASE CrashInRecovery(p) BY <1>f, <1>24 DEF CrashInRecovery
<1>25. CASE MeetConflict(p) BY <1>f, <1>25 DEF MeetConflict, Stops
<1>26. CASE Blocked(p) BY <1>f, <1>26 DEF Blocked, Stops, Protected
<1>27. CASE Finish(p) BY <1>f, <1>27 DEF Finish
<1>28. CASE Crash(p) BY <1>f, <1>28 DEF Crash
<1> QED BY <1>1, <1>2, <1>3, <1>4, <1>5, <1>6, <1>7, <1>8, <1>9, <1>10, <1>11, <1>12, <1>13, <1>14, <1>15, <1>16, <1>17, <1>18, <1>19, <1>20,
     <1>21, <1>22, <1>23, <1>24, <1>25, <1>26, <1>27, <1>28 DEF Act, Begin, Recover, Write, End

(* So the step keeps the order of turns, and what the others rely on. *)
LEMMA SerialStep == ASSUME IInv, NEW p \in Proc, Act(p) PROVE Serial'
<1>1. Moves(p) BY ActMoves
<1> QED BY <1>1 DEF Moves, Serial

LEMMA OthersStep == ASSUME IInv, NEW p \in Proc, Act(p) PROVE \A q \in Proc : q # p => ProcInv(q)'
<1>1. Moves(p) BY ActMoves
<1>2. ASSUME NEW q \in Proc, q # p PROVE ProcInv(q)'
  <2>1. pc[q] = "idle" /\ pc'[q] = "idle" /\ at'[q] = at[q] BY <1>1, <1>2 DEF Moves
  <2>2. ProcInv(q) BY DEF IInv
  <2>3. "idle" \notin Looping \cup Recovering \cup Opening \cup Writing
    BY DEF Looping, Recovering, Opening, Writing, Working
  <2> QED BY <2>1, <2>2, <2>3 DEF ProcInv
<1> QED BY <1>2

-----------------------------------------------------------------------------
(* Where each action starts and leads. *)
To(p, from, places) == pc[p] = from /\ pc'[p] \in places /\ at'[p] = at[p]
Along(p, from, loop, after) ==
    /\ pc[p] = from
    /\ \/ at[p] < Count /\ at'[p] = at[p] + 1 /\ pc'[p] = loop
       \/ at[p] = Count /\ at'[p] = 1 /\ pc'[p] = after
Idle(p) == pc'[p] = "idle" /\ at'[p] = 1

LEMMA Routes ==
    ASSUME TypeOK, NEW p \in Proc
    PROVE /\ \A wanted \in Plans, by \in BOOLEAN : Start(p, wanted, by) => To(p, "idle", {"acquire"})
          /\ Acquire(p) => To(p, "acquire", {"recover", "open"})
          /\ CloseRecovered(p) => To(p, "close", {"open"})
          /\ OpenMarker(p) => To(p, "open", {"lockMarker"})
          /\ LockMarker(p) => To(p, "lockMarker", {"publishJournal"})
          /\ PublishJournal(p) => To(p, "publishJournal", {"read"})
          /\ Read(p) => To(p, "read", {"write"})
          /\ Quarantine(p) => To(p, "write", {"judge"})
          /\ Approve(p) => To(p, "judge", {"install"})
          /\ Install(p) => To(p, "install", {"mark"})
          /\ Mark(p) => To(p, "mark", {"forget"})
          /\ ForgetDecisions(p) => To(p, "forget", {"clean"})
          /\ QuarantineStale(p) => To(p, "prune", {"judgeStale"})
          /\ DeleteStale(p) => To(p, "judgeStale", {"clean"})
          /\ SaveRecovered(p) => To(p, "saveRecovered", {"renameRecovered", "close"})
          /\ RenameRecovered(p) => To(p, "renameRecovered", {"close"})
          /\ Save(p) => To(p, "save", {"rename", "finish"})
          /\ Rename(p) => To(p, "rename", {"finish"})
          /\ RecoverOutput(p) => Along(p, "recover", "recover", "saveRecovered")
          /\ LeaveAlone(p) => Along(p, "write", "write", "prune")
          /\ SkipCurrent(p) => Along(p, "prune", "prune", "save")
          /\ GiveBack(p) => pc[p] \in {"judge", "judgeStale"} /\ pc'[p] = "clean" /\ at'[p] = at[p]
          /\ Clean(p) => Along(p, "clean", Pass(p), After(p))
          /\ CrashInRecovery(p) => pc[p] = "recover" /\ Idle(p)
          /\ MeetConflict(p) => pc[p] = "recover" /\ Idle(p)
          /\ Blocked(p) => pc[p] \in {"install", "judge", "judgeStale"} /\ Idle(p)
          /\ Finish(p) => pc[p] = "finish" /\ Idle(p)
          /\ Crash(p) => pc[p] # "idle" /\ Idle(p)
<1>0. pc \in [Proc -> Places] BY DEF TypeOK
<1>p. /\ {"idle", "acquire", "recover", "saveRecovered", "renameRecovered", "close"} \subseteq Places
      /\ {"open", "lockMarker", "publishJournal", "read", "write", "judge", "install"} \subseteq Places
      /\ {"mark", "forget", "clean", "prune", "judgeStale", "save", "rename", "finish"} \subseteq Places
  BY DEF Places
<1> USE DEF state, memory
<1>1. ASSUME NEW wanted \in Plans, NEW by \in BOOLEAN, Start(p, wanted, by) PROVE To(p, "idle", {"acquire"})
  BY <1>0, <1>p, <1>1, GoesTo DEF Start, To
<1>2. ASSUME Acquire(p) PROVE To(p, "acquire", {"recover", "open"})
  BY <1>0, <1>p, <1>2, GoesTo DEF Acquire, To
<1>3. ASSUME CloseRecovered(p) PROVE To(p, "close", {"open"})
  BY <1>0, <1>p, <1>3, GoesTo DEF CloseRecovered, To
<1>4. ASSUME OpenMarker(p) PROVE To(p, "open", {"lockMarker"})
  BY <1>0, <1>p, <1>4, GoesTo DEF OpenMarker, To
<1>5. ASSUME LockMarker(p) PROVE To(p, "lockMarker", {"publishJournal"})
  BY <1>0, <1>p, <1>5, GoesTo DEF LockMarker, To
<1>6. ASSUME PublishJournal(p) PROVE To(p, "publishJournal", {"read"})
  BY <1>0, <1>p, <1>6, GoesTo DEF PublishJournal, To
<1>7. ASSUME Read(p) PROVE To(p, "read", {"write"})
  BY <1>0, <1>p, <1>7, GoesTo DEF Read, To
<1>8. ASSUME Quarantine(p) PROVE To(p, "write", {"judge"})
  BY <1>0, <1>p, <1>8, GoesTo DEF Quarantine, MoveAside, To
<1>9. ASSUME Approve(p) PROVE To(p, "judge", {"install"})
  BY <1>0, <1>p, <1>9, GoesTo DEF Approve, To
<1>10. ASSUME Install(p) PROVE To(p, "install", {"mark"})
  BY <1>0, <1>p, <1>10, GoesTo DEF Install, To
<1>11. ASSUME Mark(p) PROVE To(p, "mark", {"forget"})
  BY <1>0, <1>p, <1>11, GoesTo DEF Mark, To
<1>12. ASSUME ForgetDecisions(p) PROVE To(p, "forget", {"clean"})
  BY <1>0, <1>p, <1>12, GoesTo DEF ForgetDecisions, To
<1>13. ASSUME QuarantineStale(p) PROVE To(p, "prune", {"judgeStale"})
  BY <1>0, <1>p, <1>13, GoesTo DEF QuarantineStale, MoveAside, To
<1>14. ASSUME DeleteStale(p) PROVE To(p, "judgeStale", {"clean"})
  BY <1>0, <1>p, <1>14, GoesTo DEF DeleteStale, To
<1>15. ASSUME SaveRecovered(p) PROVE To(p, "saveRecovered", {"renameRecovered", "close"})
  BY <1>0, <1>p, <1>15, GoesTo DEF SaveRecovered, WriteTemp, To
<1>16. ASSUME RenameRecovered(p) PROVE To(p, "renameRecovered", {"close"})
  BY <1>0, <1>p, <1>16, GoesTo DEF RenameRecovered, RenameTemp, To
<1>17. ASSUME Save(p) PROVE To(p, "save", {"rename", "finish"})
  BY <1>0, <1>p, <1>17, GoesTo DEF Save, WriteTemp, To
<1>18. ASSUME Rename(p) PROVE To(p, "rename", {"finish"})
  BY <1>0, <1>p, <1>18, GoesTo DEF Rename, RenameTemp, To
<1>19. ASSUME RecoverOutput(p) PROVE Along(p, "recover", "recover", "saveRecovered")
  BY <1>p, <1>19, OnwardTo DEF RecoverOutput, Along
<1>20. ASSUME LeaveAlone(p) PROVE Along(p, "write", "write", "prune")
  BY <1>p, <1>20, OnwardTo DEF LeaveAlone, Along
<1>21. ASSUME SkipCurrent(p) PROVE Along(p, "prune", "prune", "save")
  BY <1>p, <1>21, OnwardTo DEF SkipCurrent, Along
<1>22. ASSUME GiveBack(p)
      PROVE pc[p] \in {"judge", "judgeStale"} /\ pc'[p] = "clean" /\ at'[p] = at[p]
  BY <1>0, <1>p, <1>22, GoesTo DEF GiveBack, Protected
<1>23. ASSUME Clean(p) PROVE Along(p, "clean", Pass(p), After(p))
  <2>1. Pass(p) \in Places /\ After(p) \in Places BY <1>p DEF Pass, After
  <2> QED BY <1>23, <2>1, OnwardTo DEF Clean, NextOutput, Along
<1>24. ASSUME CrashInRecovery(p) PROVE pc[p] = "recover" /\ Idle(p)
  BY <1>24, ForgetsTo DEF CrashInRecovery, Stops, Idle
<1>25. ASSUME MeetConflict(p) PROVE pc[p] = "recover" /\ Idle(p)
  BY <1>25, ForgetsTo DEF MeetConflict, Stops, Idle
<1>26. ASSUME Blocked(p) PROVE pc[p] \in {"install", "judge", "judgeStale"} /\ Idle(p)
  BY <1>26, ForgetsTo DEF Blocked, Stops, Protected, Idle
<1>27. ASSUME Finish(p) PROVE pc[p] = "finish" /\ Idle(p)
  BY <1>27, ForgetsTo DEF Finish, Idle
<1>28. ASSUME Crash(p) PROVE pc[p] # "idle" /\ Idle(p)
  BY <1>28, ForgetsTo DEF Crash, Idle
<1> QED BY <1>1, <1>2, <1>3, <1>4, <1>5, <1>6, <1>7, <1>8, <1>9, <1>10, <1>11, <1>12, <1>13, <1>14, <1>15, <1>16,
     <1>17, <1>18, <1>19, <1>20, <1>21, <1>22, <1>23, <1>24, <1>25, <1>26, <1>27, <1>28

-----------------------------------------------------------------------------
(* What an action does to journals and transactions. *)
SameFiles == \A i \in journals : \E j \in journals' : j.files = i.files

LEMMA ReleasedFiles == ASSUME TypeOK, NEW p \in Proc, journals' = Released(p) PROVE SameFiles
BY ReleasedTo DEF SameFiles

LEMMA AcquiredTo ==
    ASSUME TypeOK, NEW p \in Proc, Acquire(p)
    PROVE /\ SameFiles
          /\ \A j \in journals' : \E i \in journals : i.files = j.files /\ j.holder = IF i.holder = None THEN p ELSE i.holder
          /\ journals # {} /\ (\A i \in journals : i.holder = None) => pc'[p] = "recover"
          /\ journals = {} => pc'[p] = "open"
<1>0. pc \in [Proc -> Places] /\ journals \subseteq [files : Entries, holder : Proc \cup {None}]
  BY DEF TypeOK
<1> DEFINE R(j) == IF j.holder = None THEN [j EXCEPT !.holder = p] ELSE j
<1>1. \A i \in journals : R(i).files = i.files /\ R(i).holder = IF i.holder = None THEN p ELSE i.holder
  BY <1>0
<1>2. journals' = {R(j) : j \in journals} BY DEF Acquire
<1>3. {"recover", "open"} \subseteq Places BY DEF Places
<1>4. Goes(p, IF \E j \in journals : j.holder = None THEN "recover" ELSE "open") BY DEF Acquire
<1>5. pc'[p] = IF \E j \in journals : j.holder = None THEN "recover" ELSE "open"
  BY <1>0, <1>3, <1>4, GoesTo
<1> HIDE DEF R
<1> QED BY <1>1, <1>2, <1>5 DEF SameFiles

(* A transaction is left, freed, or gone. *)
LEMMA NamedKept ==
    ASSUME Named, SameFiles,
           \A f \in Outputs :
              \/ txn'[f] = NoTxn
              \/ /\ txn[f] # NoTxn /\ txn'[f].next \in {None, txn[f].next}
                 /\ txn'[f].stage = "approved" => txn[f].stage = "approved" /\ txn'[f].next = txn[f].next
    PROVE Named'
<1> SUFFICES ASSUME NEW f \in Outputs, txn'[f] # NoTxn
             PROVE /\ \E j \in journals' : j.files[f] # None
                   /\ txn'[f].stage = "approved" => txn'[f].next # None
                   /\ txn'[f].next # None => \E j \in journals' : j.files[f] = txn'[f].next
  BY DEF Named, NoTxn
<1>1. PICK j \in journals : j.files[f] # None BY DEF Named
<1>2. PICK k \in journals' : k.files = j.files BY <1>1 DEF SameFiles
<1>3. ASSUME txn'[f].next # None PROVE \E k1 \in journals' : k1.files[f] = txn'[f].next
  <2>1. PICK j1 \in journals : j1.files[f] = txn[f].next BY <1>3 DEF Named
  <2>2. PICK k1 \in journals' : k1.files = j1.files BY <2>1 DEF SameFiles
  <2> QED BY <1>3, <2>1, <2>2
<1>4. txn'[f].stage = "approved" => txn[f].stage = "approved" OBVIOUS
<1> QED BY <1>1, <1>2, <1>3, <1>4 DEF Named

(* Contents that were there, or that are not gnr8's, need no new knowledge. *)
LEMMA SurvivesKept ==
    ASSUME OwnershipSurvives, SameFiles, manifest' = manifest,
           \A f \in Outputs :
              /\ disk'[f] \notin Generated \/ disk'[f] \in {disk[f], txn[f].previous}
              /\ txn'[f].previous \notin Generated \/ txn'[f].previous \in {disk[f], txn[f].previous}
    PROVE OwnershipSurvives'
<1> SUFFICES ASSUME NEW f \in Outputs, NEW c \in {disk'[f], txn'[f].previous}, c \in Generated
             PROVE manifest'[f] = c \/ \E j \in journals' : j.files[f] = c
  BY DEF OwnershipSurvives, Known
<1>1. Known(f, c) BY DEF OwnershipSurvives
<1> QED BY <1>1 DEF Known, SameFiles

LEMMA StageTo ==
    ASSUME TypeOK, NEW p \in Proc, NEW stage \in Stages, Stage(p, stage)
    PROVE /\ \A f \in Outputs : f # at[p] => txn'[f] = txn[f]
          /\ txn'[at[p]].stage = stage /\ txn'[at[p]].next = txn[at[p]].next
          /\ txn'[at[p]].previous = txn[at[p]].previous /\ txn'[at[p]].holder = txn[at[p]].holder
<1>1. at[p] \in Outputs /\ txn[at[p]] \in Txn /\ txn \in [Outputs -> Txn] BY DEF TypeOK
<1>2. txn' = [txn EXCEPT ![at[p]] = [txn[at[p]] EXCEPT !.stage = stage]] BY DEF Stage
<1>3. txn'[at[p]] = [txn[at[p]] EXCEPT !.stage = stage] /\ \A f \in Outputs : f # at[p] => txn'[f] = txn[f]
  BY <1>1, <1>2
<1> QED BY <1>1, <1>3 DEF Txn

LEMMA FinishedTo ==
    ASSUME TypeOK, NEW p \in Proc, Finished(p)
    PROVE /\ \A f \in Outputs : f # at[p] => txn'[f] = txn[f]
          /\ txn'[at[p]].stage = "done" /\ txn'[at[p]].next = None
          /\ txn'[at[p]].previous = None /\ txn'[at[p]].holder = txn[at[p]].holder
<1>1. at[p] \in Outputs /\ txn[at[p]] \in Txn /\ txn \in [Outputs -> Txn] BY DEF TypeOK
<1>2. txn' = [txn EXCEPT ![at[p]] = [txn[at[p]] EXCEPT !.stage = "done", !.next = None, !.previous = None]]
  BY <1>1 DEF Finished, Txn
<1>3. /\ txn'[at[p]] = [txn[at[p]] EXCEPT !.stage = "done", !.next = None, !.previous = None]
      /\ \A f \in Outputs : f # at[p] => txn'[f] = txn[f]
  BY <1>1, <1>2
<1> QED BY <1>1, <1>3 DEF Txn

LEMMA AsideTo ==
    ASSUME TypeOK, NEW p \in Proc, NEW place, MoveAside(p, place)
    PROVE /\ \A f \in Outputs : f # at[p] => txn'[f] = txn[f] /\ disk'[f] = disk[f]
          /\ txn'[at[p]].stage = "aside" /\ txn'[at[p]].next = New(p)
          /\ txn'[at[p]].previous = disk[at[p]] /\ txn'[at[p]].holder = p
          /\ disk'[at[p]] = None
          /\ UNCHANGED <<manifest, temp, markers, journals, guard, plan, force, own, seen, last>>
<1>1. at[p] \in Outputs /\ txn \in [Outputs -> Txn] /\ disk \in [Outputs -> Content \cup {None}]
  BY DEF TypeOK
<1> QED BY <1>1 DEF MoveAside, state, memory

(* Everything held is held by the process that acts. *)
LEMMA Held ==
    ASSUME IInv, NEW p \in Proc, Act(p)
    PROVE /\ \A j \in journals : j.holder # None => j.holder = p /\ pc[p] \in Recovering \cup Writing
          /\ \A f \in Outputs : txn[f].holder # None => txn[f].holder = p /\ pc[p] \in Working /\ f = at[p]
<1>1. Moves(p) /\ Holding /\ TypeOK BY ActMoves DEF IInv
<1>2. "idle" \notin Recovering \cup Writing \cup Working BY DEF Recovering, Writing, Working
<1>3. ASSUME NEW j \in journals, j.holder # None PROVE j.holder \in Proc BY <1>1, <1>3 DEF TypeOK
<1>4. ASSUME NEW f \in Outputs, txn[f].holder # None PROVE txn[f].holder \in Proc
  BY <1>1, <1>4 DEF TypeOK, Txn
<1> QED BY <1>1, <1>2, <1>3, <1>4 DEF Moves, Holding

LEMMA HoldingKept ==
    ASSUME NEW p \in Proc, TypeOK',
           \A j \in journals' : j.holder # None => j.holder = p /\ pc'[p] \in Recovering \cup Writing,
           \A f \in Outputs : txn'[f].holder # None => txn'[f].holder = p /\ pc'[p] \in Working /\ f = at'[p]
    PROVE Holding'
BY DEF Holding

(* Steps that touch neither outputs nor transactions, journals or the manifest. *)
Apart == UNCHANGED <<disk, txn, manifest, journals>>
LEMMA ApartStep ==
    ASSUME IInv, TypeOK', NEW p \in Proc, Act(p), Apart,
           pc[p] \notin Working,
           pc[p] \in Recovering \cup Writing => pc'[p] \in Recovering \cup Writing
    PROVE Named' /\ OwnershipSurvives' /\ Holding'
<1>1. Named' /\ OwnershipSurvives' BY DEF IInv, Apart, Named, OwnershipSurvives, Known
<1>2. Holding' BY Held, HoldingKept DEF Apart
<1> QED BY <1>1, <1>2

-----------------------------------------------------------------------------
(* Names, knowledge and holders, through recovery. *)
Shared == Named /\ OwnershipSurvives /\ Holding

LEMMA StartShared ==
    ASSUME IInv, TypeOK', NEW p \in Proc, NEW wanted \in Plans, NEW by \in BOOLEAN, Start(p, wanted, by)
    PROVE Shared'
<1>1. Act(p) BY DEF Act, Begin
<1>2. pc[p] = "idle" /\ Apart BY DEF Start, Apart, files
<1>3. "idle" \notin Working \cup Recovering \cup Writing BY DEF Working, Recovering, Writing
<1> QED BY <1>1, <1>2, <1>3, ApartStep DEF Shared

LEMMA AcquireShared == ASSUME IInv, TypeOK', NEW p \in Proc, Acquire(p) PROVE Shared'
<1>0. TypeOK /\ Named /\ OwnershipSurvives BY DEF IInv
<1>1. Act(p) BY DEF Act, Recover
<1>2. pc[p] = "acquire" /\ UNCHANGED <<disk, txn, manifest>> BY DEF Acquire, files
<1>3. "acquire" \notin Working \cup Recovering \cup Writing /\ "recover" \in Recovering
  BY DEF Working, Recovering, Writing
<1>4. \A j \in journals : j.holder = None BY <1>1, <1>2, <1>3, Held
<1>5. \A f \in Outputs : txn[f].holder = None BY <1>1, <1>2, <1>3, Held
<1>6. \A j \in journals' : j.holder = p /\ pc'[p] = "recover"
  BY <1>0, <1>4, AcquiredTo
<1>7. Holding' BY <1>2, <1>3, <1>5, <1>6, HoldingKept
<1>8. SameFiles BY <1>0, AcquiredTo
<1>9. Named'
  <2>1. \A f \in Outputs : txn'[f] = txn[f] BY <1>2
  <2> QED BY <1>0, <1>8, <2>1, NamedKept
<1>10. OwnershipSurvives' BY <1>0, <1>2, <1>8, SurvivesKept
<1> QED BY <1>7, <1>9, <1>10 DEF Shared

(* What recovery puts in the output was there, set aside, or named by a journal. *)
LEMMA RepairedKnown ==
    ASSUME TypeOK, Named, OwnershipSurvives, NEW f \in Outputs, Repaired(f) \in Generated
    PROVE Known(f, Repaired(f))
<1>1. CASE disk[f] # None
  <2>1. Repaired(f) = disk[f] BY <1>1 DEF Repaired, Recovered
  <2> QED BY <2>1 DEF OwnershipSurvives
<1>2. CASE disk[f] = None
  <2>1. Pending(f) = txn[f] \/ Pending(f) = NoTxn BY DEF Pending
  <2>2. Pending(f) # NoTxn
    BY <1>2, GenerationAssumption DEF Repaired, Recovered, NoTxn, Content
  <2>3. CASE txn[f].stage = "approved"
    <3>1. Repaired(f) = txn[f].next BY <1>2, <2>1, <2>2, <2>3 DEF Repaired, Recovered
    <3>2. Repaired(f) # None BY GenerationAssumption DEF Content
    <3> QED BY <3>1, <3>2 DEF Named, Known
  <2>4. CASE txn[f].stage # "approved"
    <3>1. Repaired(f) = txn[f].previous BY <1>2, <2>1, <2>2, <2>4 DEF Repaired, Recovered
    <3> QED BY <3>1 DEF OwnershipSurvives
  <2> QED BY <2>3, <2>4
<1> QED BY <1>1, <1>2

LEMMA RecoverOutputShared == ASSUME IInv, TypeOK', NEW p \in Proc, RecoverOutput(p) PROVE Shared'
<1>0. TypeOK /\ Named /\ OwnershipSurvives BY DEF IInv
<1>1. Act(p) BY DEF Act, Recover
<1>2. /\ pc[p] = "recover" /\ UNCHANGED <<journals, manifest>> BY DEF RecoverOutput, state
<1>3. "recover" \in Recovering /\ "recover" \notin Working /\ "saveRecovered" \in Recovering
  BY DEF Working, Recovering
<1>4. pc'[p] \in Recovering BY <1>0, <1>3, Routes DEF Along
<1>5. at[p] \in Outputs /\ txn \in [Outputs -> Txn] /\ disk \in [Outputs -> Content \cup {None}]
  BY <1>0 DEF TypeOK
<1>6. \A f \in Outputs : txn'[f] = txn[f] \/ txn'[f] = NoTxn BY <1>5 DEF RecoverOutput, files
<1>7. \A f \in Outputs : disk'[f] = disk[f] \/ (f = at[p] /\ disk'[f] = Repaired(f))
  BY <1>5 DEF RecoverOutput, files
<1>8. SameFiles BY <1>2 DEF SameFiles
<1>9. Named' BY <1>0, <1>6, <1>8, NamedKept
<1>10. OwnershipSurvives'
  <2> SUFFICES ASSUME NEW f \in Outputs, NEW c \in {disk'[f], txn'[f].previous}, c \in Generated
               PROVE Known(f, c)
    BY <1>2 DEF OwnershipSurvives, Known
  <2>1. CASE c = disk'[f] BY <1>0, <1>7, <2>1, RepairedKnown DEF OwnershipSurvives
  <2>2. CASE c = txn'[f].previous
    <3>1. NoTxn.previous \notin Generated BY GenerationAssumption DEF NoTxn, Content
    <3> QED BY <1>0, <1>6, <2>2, <3>1 DEF OwnershipSurvives
  <2> QED BY <2>1, <2>2
<1>11. Holding'
  <2>1. \A f \in Outputs : txn'[f].holder = None BY <1>1, <1>2, <1>3, <1>6, Held DEF NoTxn
  <2> QED BY <1>1, <1>2, <1>4, <2>1, Held, HoldingKept
<1> QED BY <1>9, <1>10, <1>11 DEF Shared

LEMMA CrashInRecoveryShared == ASSUME IInv, TypeOK', NEW p \in Proc, CrashInRecovery(p) PROVE Shared'
<1>0. TypeOK /\ Named /\ OwnershipSurvives BY DEF IInv
<1>1. Act(p) BY DEF Act, Recover
<1>2. /\ pc[p] = "recover" /\ manifest' = manifest /\ journals' = Released(p) /\ Journalled(p) # {}
  BY DEF CrashInRecovery
<1>3. "recover" \notin Working BY DEF Working
<1>5. at[p] \in Outputs /\ txn \in [Outputs -> Txn] /\ disk \in [Outputs -> Content \cup {None}]
  BY <1>0 DEF TypeOK
<1>6. /\ \A f \in Outputs : f # at[p] => txn'[f] = txn[f] /\ disk'[f] = disk[f]
      /\ txn'[at[p]] = [NoTxn EXCEPT !.stage = "done"]
      /\ disk'[at[p]] = Repaired(at[p])
  BY <1>5 DEF CrashInRecovery
<1>7. /\ txn'[at[p]].stage = "done" /\ txn'[at[p]].next = None
      /\ txn'[at[p]].previous = None /\ txn'[at[p]].holder = None
  BY <1>6 DEF NoTxn
<1>8. SameFiles BY <1>0, <1>2, ReleasedFiles
<1>9. PICK i \in journals : i.files[at[p]] # None BY <1>2 DEF Journalled, Mine
<1>9a. PICK k \in journals' : k.files = i.files BY <1>8 DEF SameFiles
<1>10. Named'
  <2> SUFFICES ASSUME NEW f \in Outputs
               PROVE /\ txn'[f] # NoTxn => \E j \in journals' : j.files[f] # None
                     /\ txn'[f].stage = "approved" => txn'[f].next # None
                     /\ txn'[f].next # None => \E j \in journals' : j.files[f] = txn'[f].next
    BY DEF Named
  <2>1. CASE f = at[p] BY <1>7, <1>9, <1>9a, <2>1
  <2>2. CASE f # at[p] BY <1>0, <1>6, <1>8, <2>2 DEF Named, SameFiles
  <2> QED BY <2>1, <2>2
<1>11. OwnershipSurvives'
  <2> SUFFICES ASSUME NEW f \in Outputs, NEW c \in {disk'[f], txn'[f].previous}, c \in Generated
               PROVE manifest'[f] = c \/ \E j \in journals' : j.files[f] = c
    BY DEF OwnershipSurvives, Known
  <2>1. Known(f, c)
    <3>1. CASE f = at[p]
      <4>1. c # None BY GenerationAssumption DEF Content
      <4>2. txn'[f].previous = None /\ disk'[f] = Repaired(f) BY <1>6, <1>7, <3>1
      <4>3. c = Repaired(f) BY <4>1, <4>2
      <4> QED BY <1>0, <4>3, RepairedKnown
    <3>2. CASE f # at[p] BY <1>0, <1>6, <3>2 DEF OwnershipSurvives
    <3> QED BY <3>1, <3>2
  <2> QED BY <1>2, <1>8, <2>1 DEF Known, SameFiles
<1>12. Holding'
  <2>1. ASSUME NEW f \in Outputs PROVE txn'[f].holder = None
    <3>1. CASE f = at[p] BY <1>7, <3>1
    <3>2. CASE f # at[p] BY <1>1, <1>2, <1>3, <1>6, <3>2, Held
    <3> QED BY <3>1, <3>2
  <2>2. \A j \in journals' : j.holder = None BY <1>0, <1>1, <1>2, ReleasedTo, Held
  <2> QED BY <2>1, <2>2, HoldingKept
<1> QED BY <1>10, <1>11, <1>12 DEF Shared

(* A death or an error: everything is let go of, nothing else changes. *)
LEMMA LetGoShared ==
    ASSUME IInv, TypeOK', NEW p \in Proc, Act(p), journals' = Released(p), txn' = Freed(p),
           UNCHANGED <<disk, manifest>>
    PROVE Shared'
<1>0. TypeOK /\ Named /\ OwnershipSurvives BY DEF IInv
<1>1. SameFiles BY <1>0, ReleasedFiles
<1>2. \A f \in Outputs : /\ txn'[f].holder # p /\ txn'[f].holder \in {None, txn[f].holder}
                         /\ txn'[f].stage = txn[f].stage /\ txn'[f].next = txn[f].next
                         /\ txn'[f].previous = txn[f].previous
                         /\ txn[f] = NoTxn => txn'[f] = NoTxn
  BY <1>0, FreedTo
<1>3. Named' BY <1>0, <1>1, <1>2, NamedKept
<1>4. OwnershipSurvives' BY <1>0, <1>1, <1>2, SurvivesKept
<1>5. Holding'
  <2>1. \A f \in Outputs : txn'[f].holder = None BY <1>2, Held
  <2>2. \A j \in journals' : j.holder = None BY <1>0, ReleasedTo, Held
  <2> QED BY <2>1, <2>2, HoldingKept
<1> QED BY <1>3, <1>4, <1>5 DEF Shared

(* The manifest takes over what the outputs hold. *)
LEMMA RenameRecoveredShared == ASSUME IInv, TypeOK', NEW p \in Proc, RenameRecovered(p) PROVE Shared'
<1>0. TypeOK /\ Named /\ OwnershipSurvives /\ ProcInv(p) BY DEF IInv
<1>1. Act(p) BY DEF Act, Recover
<1>2. /\ pc[p] = "renameRecovered" /\ UNCHANGED <<disk, txn, journals>> /\ manifest' = own[p]
  BY DEF RenameRecovered, RenameTemp, files
<1>3. "renameRecovered" \in Recovering \ Working /\ "close" \in Recovering BY DEF Working, Recovering
<1>4. pc'[p] = "close" BY <1>0, Routes DEF To
<1>5. \A f \in Outputs : txn[f] = NoTxn /\ (disk[f] \in Generated => own[p][f] = disk[f])
  BY <1>0, <1>2, <1>3 DEF ProcInv, RecoverInv
<1>6. Named' BY <1>0, <1>2 DEF Named
<1>7. OwnershipSurvives'
  <2>1. NoTxn.previous \notin Generated BY GenerationAssumption DEF NoTxn, Content
  <2> QED BY <1>2, <1>5, <2>1 DEF OwnershipSurvives, Known
<1>8. Holding' BY <1>1, <1>2, <1>3, <1>4, Held, HoldingKept
<1> QED BY <1>6, <1>7, <1>8 DEF Shared

LEMMA CloseRecoveredShared == ASSUME IInv, TypeOK', NEW p \in Proc, CloseRecovered(p) PROVE Shared'
<1>0. TypeOK /\ Named /\ OwnershipSurvives /\ ProcInv(p) BY DEF IInv
<1>2. /\ pc[p] = "close" /\ UNCHANGED <<disk, txn, manifest>> /\ journals' = journals \ Mine(p)
  BY DEF CloseRecovered, files
<1>3. "close" \in Recovering BY DEF Recovering
<1>5. /\ \A j \in journals : j.holder = p /\ manifest = own[p]
      /\ \A f \in Outputs : txn[f] = NoTxn /\ (disk[f] \in Generated => own[p][f] = disk[f])
  BY <1>0, <1>2, <1>3 DEF ProcInv, RecoverInv
<1>6. journals' = {} BY <1>2, <1>5 DEF Mine
<1>7. \A f \in Outputs : txn'[f] = NoTxn BY <1>2, <1>5
<1>8. Named' BY <1>7 DEF Named, NoTxn
<1>9. OwnershipSurvives'
  <2>1. NoTxn.previous \notin Generated BY GenerationAssumption DEF NoTxn, Content
  <2>2. \A f \in Outputs : disk[f] \in Generated => manifest[f] = disk[f]
    <3>1. CASE journals = {}
      BY <1>0, <1>5, <3>1 DEF OwnershipSurvives, Known
    <3>2. CASE journals # {} BY <1>5, <3>2
    <3> QED BY <3>1, <3>2
  <2> QED BY <1>2, <1>7, <2>1, <2>2 DEF OwnershipSurvives, Known
<1>10. Holding' BY <1>6, <1>7, HoldingKept DEF NoTxn
<1> QED BY <1>8, <1>9, <1>10 DEF Shared

(* The steps that touch nothing shared but a marker or a temporary file, and those that let go. *)
LEMMA ApartShared ==
    ASSUME IInv, TypeOK', NEW p \in Proc,
           \/ SaveRecovered(p) \/ OpenMarker(p) \/ LockMarker(p) \/ Read(p)
           \/ LeaveAlone(p) \/ SkipCurrent(p) \/ Save(p)
    PROVE Shared'
<1>0. TypeOK BY DEF IInv
<1>p. /\ {"saveRecovered", "renameRecovered", "close"} \subseteq Recovering \ Working
      /\ {"open", "lockMarker", "publishJournal"} \cap (Recovering \cup Writing \cup Working) = {}
      /\ {"read", "write", "prune", "save", "rename", "finish"} \subseteq Writing \ Working
  BY DEF Recovering, Writing, Working
<1>a. Act(p) BY DEF Act, Recover, Write, End
<1>s. Apart
  BY DEF SaveRecovered, Save, WriteTemp, OpenMarker, LockMarker, Read, LeaveAlone, SkipCurrent, Apart, files, state
<1>1. /\ pc[p] \notin Working
      /\ pc[p] \in Recovering \cup Writing => pc'[p] \in Recovering \cup Writing
  <2>1. CASE SaveRecovered(p) BY <1>0, <1>p, <2>1, Routes DEF To
  <2>2. CASE OpenMarker(p) BY <1>0, <1>p, <2>2, Routes DEF To
  <2>3. CASE LockMarker(p) BY <1>0, <1>p, <2>3, Routes DEF To
  <2>4. CASE Read(p) BY <1>0, <1>p, <2>4, Routes DEF To
  <2>5. CASE LeaveAlone(p) BY <1>0, <1>p, <2>5, Routes DEF Along
  <2>6. CASE SkipCurrent(p) BY <1>0, <1>p, <2>6, Routes DEF Along
  <2>7. CASE Save(p) BY <1>0, <1>p, <2>7, Routes DEF To
  <2> QED BY <2>1, <2>2, <2>3, <2>4, <2>5, <2>6, <2>7
<1> QED BY <1>a, <1>s, <1>1, ApartStep DEF Shared

LEMMA StopShared ==
    ASSUME IInv, TypeOK', NEW p \in Proc, MeetConflict(p) \/ Blocked(p) \/ Crash(p)
    PROVE Shared'
<1>1. Act(p) BY DEF Act, Recover, Write
<1>2. journals' = Released(p) /\ txn' = Freed(p) /\ UNCHANGED <<disk, manifest>>
  BY DEF MeetConflict, Blocked, Crash, Stops
<1> QED BY <1>1, <1>2, LetGoShared

-----------------------------------------------------------------------------
(* The same, through the write pass. *)
LEMMA PublishJournalShared == ASSUME IInv, TypeOK', NEW p \in Proc, PublishJournal(p) PROVE Shared'
<1>0. TypeOK /\ OwnershipSurvives /\ ProcInv(p) BY DEF IInv
<1>1. /\ pc[p] = "publishJournal" /\ UNCHANGED <<disk, txn, manifest>>
      /\ journals' = journals \cup {[files |-> RecoveryFiles(p), holder |-> p]}
  BY DEF PublishJournal, files
<1>2. pc'[p] = "read" BY <1>0, Routes DEF To
<1>3. "publishJournal" \in Opening /\ "read" \in Writing BY DEF Opening, Writing
<1>4. journals = {} /\ \A f \in Outputs : txn[f] = NoTxn BY <1>0, <1>1, <1>3 DEF ProcInv, OpenInv
<1>5. Named' BY <1>1, <1>4 DEF Named, NoTxn
<1>6. OwnershipSurvives'
  <2>1. NoTxn.previous \notin Generated BY GenerationAssumption DEF NoTxn, Content
  <2> QED BY <1>0, <1>1, <1>4, <2>1 DEF OwnershipSurvives, Known
<1>7. Holding' BY <1>1, <1>2, <1>3, <1>4, HoldingKept DEF NoTxn
<1> QED BY <1>5, <1>6, <1>7 DEF Shared

(* A step that touches the output at hand and its transaction. *)
LEMMA TouchShared ==
    ASSUME IInv, TypeOK', NEW p \in Proc, Act(p), UNCHANGED <<manifest, journals>>,
           pc'[p] \in Writing,
           \A f \in Outputs : f # at[p] => txn'[f] = txn[f] /\ disk'[f] = disk[f],
           txn'[at[p]].holder # None => txn'[at[p]].holder = p /\ pc'[p] \in Working /\ at'[p] = at[p],
           txn'[at[p]] # NoTxn => \E j \in journals : j.files[at[p]] # None,
           txn'[at[p]].stage = "approved" => txn'[at[p]].next # None,
           txn'[at[p]].next # None => \E j \in journals : j.files[at[p]] = txn'[at[p]].next,
           \A c \in {disk'[at[p]], txn'[at[p]].previous} : c \in Generated => Known(at[p], c)
    PROVE Shared'
<1>0. TypeOK /\ Named /\ OwnershipSurvives BY DEF IInv
<1>1. Named'
  <2> SUFFICES ASSUME NEW f \in Outputs
               PROVE /\ txn'[f] # NoTxn => \E j \in journals' : j.files[f] # None
                     /\ txn'[f].stage = "approved" => txn'[f].next # None
                     /\ txn'[f].next # None => \E j \in journals' : j.files[f] = txn'[f].next
    BY DEF Named
  <2>1. CASE f = at[p] BY <2>1
  <2>2. CASE f # at[p] BY <1>0, <2>2 DEF Named
  <2> QED BY <2>1, <2>2
<1>2. OwnershipSurvives'
  <2> SUFFICES ASSUME NEW f \in Outputs, NEW c \in {disk'[f], txn'[f].previous}, c \in Generated
               PROVE Known(f, c)
    BY DEF OwnershipSurvives, Known
  <2>1. CASE f = at[p] BY <2>1
  <2>2. CASE f # at[p] BY <1>0, <2>2 DEF OwnershipSurvives
  <2> QED BY <2>1, <2>2
<1>3. Holding'
  <2>1. ASSUME NEW f \in Outputs, txn'[f].holder # None
        PROVE txn'[f].holder = p /\ pc'[p] \in Working /\ f = at'[p]
    <3>1. CASE f = at[p] BY <2>1, <3>1
    <3>2. CASE f # at[p] BY <2>1, <3>2, Held
    <3> QED BY <3>1, <3>2
  <2> QED BY <2>1, Held, HoldingKept
<1> QED BY <1>1, <1>2, <1>3 DEF Shared

(* What the write pass may rely on at an output. *)
LEMMA WriteFacts ==
    ASSUME IInv, NEW p \in Proc, pc[p] \in Writing
    PROVE /\ WriteInv(p)
          /\ New(p) # None => \E j \in journals : j.files[at[p]] = New(p)
          /\ New(p) = None /\ pc[p] # "finish" => \E j \in journals : j.files[at[p]] = manifest[at[p]]
<1>1. WriteInv(p) /\ at[p] \in Outputs BY DEF IInv, ProcInv, TypeOK
<1>2. OwnJournal(p) BY <1>1 DEF WriteInv
<1> QED BY <1>1, <1>2 DEF OwnJournal, New

LEMMA WorkingFacts ==
    ASSUME IInv, NEW p \in Proc, pc[p] \in Working
    PROVE /\ txn[at[p]].holder = p /\ txn[at[p]] # NoTxn
          /\ \A f \in Outputs : f # at[p] => txn[f] = NoTxn
          /\ \E j \in journals : j.files[at[p]] # None
<1>1. pc[p] \in Writing BY DEF Working, Writing
<1>2. Current(p) /\ OwnTxn(p) /\ Named /\ at[p] \in Outputs
  BY <1>1, WriteFacts DEF WriteInv, IInv, TypeOK
<1>3. txn[at[p]].holder = p BY <1>2 DEF Current
<1>4. txn[at[p]] # NoTxn BY <1>3, GenerationAssumption DEF NoTxn
<1> QED BY <1>2, <1>3, <1>4 DEF OwnTxn, Named

LEMMA QuarantineShared ==
    ASSUME IInv, TypeOK', NEW p \in Proc, Quarantine(p) \/ QuarantineStale(p)
    PROVE Shared'
<1>0. TypeOK /\ OwnershipSurvives /\ at[p] \in Outputs BY DEF IInv, TypeOK
<1>1. Act(p) BY DEF Act, Write
<1>2. pc[p] \in {"write", "prune"} /\ \E place : MoveAside(p, place) BY DEF Quarantine, QuarantineStale
<1>3. pc'[p] \in {"judge", "judgeStale"} /\ at'[p] = at[p] BY <1>0, Routes DEF To
<1>4. {"write", "prune"} \subseteq Writing /\ {"judge", "judgeStale"} \subseteq Working \cap Writing
  BY DEF Writing, Working
<1>5. /\ \A f \in Outputs : f # at[p] => txn'[f] = txn[f] /\ disk'[f] = disk[f]
      /\ txn'[at[p]].stage = "aside" /\ txn'[at[p]].next = New(p)
      /\ txn'[at[p]].previous = disk[at[p]] /\ txn'[at[p]].holder = p
      /\ disk'[at[p]] = None /\ UNCHANGED <<manifest, journals>>
  BY <1>0, <1>2, AsideTo
<1>6. New(p) # None => \E j \in journals : j.files[at[p]] = New(p) BY <1>2, <1>4, WriteFacts
<1>7. \E j \in journals : j.files[at[p]] # None
  <2>1. CASE New(p) # None BY <1>6, <2>1
  <2>2. CASE New(p) = None
    <3>1. pc[p] = "prune" /\ Stale(p) BY <2>2 DEF Quarantine, QuarantineStale
    <3>2. own[p][at[p]] = manifest[at[p]]
      BY <1>0, <1>2, <1>4, <2>2, <3>1, WriteFacts DEF WriteInv, Entry, New
    <3> QED BY <1>2, <1>4, <2>2, <3>1, <3>2, WriteFacts DEF Stale
  <2> QED BY <2>1, <2>2
<1>8. None \notin Generated BY GenerationAssumption DEF Content
<1>9. \A c \in {disk'[at[p]], txn'[at[p]].previous} : c \in Generated => Known(at[p], c)
  BY <1>0, <1>5, <1>8 DEF OwnershipSurvives
<1> QED BY <1>1, <1>3, <1>4, <1>5, <1>6, <1>7, <1>9, TouchShared

LEMMA StageShared ==
    ASSUME IInv, TypeOK', NEW p \in Proc, Approve(p) \/ Install(p) \/ Mark(p)
    PROVE Shared'
<1>0. TypeOK /\ Named /\ OwnershipSurvives /\ at[p] \in Outputs BY DEF IInv, TypeOK
<1>1. Act(p) BY DEF Act, Write
<1>2. pc[p] \in {"judge", "install", "mark"} /\ UNCHANGED <<manifest, journals>>
  BY DEF Approve, Install, Mark, state
<1>3. pc'[p] \in {"install", "mark", "forget"} /\ at'[p] = at[p] BY <1>0, Routes DEF To
<1>4. /\ {"judge", "install", "mark"} \subseteq Writing \cap Working
      /\ {"install", "mark", "forget"} \subseteq Writing \cap Working
  BY DEF Writing, Working
<1>5. PICK stage \in Stages : Stage(p, stage) /\ (stage = "approved" => pc[p] = "judge")
  BY DEF Approve, Install, Mark, Stages
<1>6. /\ \A f \in Outputs : f # at[p] => txn'[f] = txn[f]
      /\ txn'[at[p]].stage = stage /\ txn'[at[p]].next = txn[at[p]].next
      /\ txn'[at[p]].previous = txn[at[p]].previous /\ txn'[at[p]].holder = txn[at[p]].holder
  BY <1>0, <1>5, StageTo
<1>7. txn[at[p]].holder = p /\ \E j \in journals : j.files[at[p]] # None
  BY <1>2, <1>4, WorkingFacts
<1>8. Current(p) BY <1>2, <1>4, WriteFacts DEF WriteInv
<1>9. txn'[at[p]].stage = "approved" => txn'[at[p]].next # None BY <1>5, <1>6, <1>8 DEF Current
<1>10. txn'[at[p]].next # None => \E j \in journals : j.files[at[p]] = txn'[at[p]].next
  BY <1>0, <1>6 DEF Named
<1>11. /\ \A f \in Outputs : f # at[p] => disk'[f] = disk[f]
       /\ disk'[at[p]] = disk[at[p]] \/ (pc[p] = "install" /\ disk'[at[p]] = New(p))
  BY <1>0 DEF Approve, Install, Mark, TypeOK
<1>12. Known(at[p], disk[at[p]]) \/ disk[at[p]] \notin Generated BY <1>0 DEF OwnershipSurvives
<1>13. Known(at[p], txn[at[p]].previous) \/ txn[at[p]].previous \notin Generated
  BY <1>0 DEF OwnershipSurvives
<1>14. pc[p] = "install" => Known(at[p], New(p))
  BY <1>2, <1>4, <1>8, WriteFacts DEF Current, Known
<1>15. \A c \in {disk'[at[p]], txn'[at[p]].previous} : c \in Generated => Known(at[p], c)
  BY <1>6, <1>11, <1>12, <1>13, <1>14
<1> QED BY <1>1, <1>2, <1>3, <1>4, <1>6, <1>7, <1>9, <1>10, <1>11, <1>15, TouchShared

LEMMA FinishedShared ==
    ASSUME IInv, TypeOK', NEW p \in Proc, GiveBack(p) \/ ForgetDecisions(p) \/ DeleteStale(p)
    PROVE Shared'
<1>0. TypeOK /\ Named /\ OwnershipSurvives /\ at[p] \in Outputs BY DEF IInv, TypeOK
<1>1. Act(p) BY DEF Act, Write
<1>2. /\ pc[p] \in {"judge", "judgeStale", "forget"} /\ UNCHANGED <<manifest, journals>> /\ Finished(p)
  BY DEF GiveBack, ForgetDecisions, DeleteStale, Protected, state
<1>3. pc'[p] = "clean" /\ at'[p] = at[p] BY <1>0, Routes DEF To
<1>4. {"judge", "judgeStale", "forget"} \subseteq Working /\ "clean" \in Working \cap Writing
  BY DEF Writing, Working
<1>5. /\ \A f \in Outputs : f # at[p] => txn'[f] = txn[f]
      /\ txn'[at[p]].stage = "done" /\ txn'[at[p]].next = None
      /\ txn'[at[p]].previous = None /\ txn'[at[p]].holder = txn[at[p]].holder
  BY <1>0, <1>2, FinishedTo
<1>6. txn[at[p]].holder = p /\ \E j \in journals : j.files[at[p]] # None
  BY <1>2, <1>4, WorkingFacts
<1>7. /\ \A f \in Outputs : f # at[p] => disk'[f] = disk[f]
      /\ disk'[at[p]] \in {disk[at[p]], txn[at[p]].previous}
  BY <1>0 DEF GiveBack, ForgetDecisions, DeleteStale, Aside, TypeOK
<1>8. \A c \in {disk[at[p]], txn[at[p]].previous} : c \in Generated => Known(at[p], c)
  BY <1>0 DEF OwnershipSurvives
<1>9. None \notin Generated BY GenerationAssumption DEF Content
<1>10. \A c \in {disk'[at[p]], txn'[at[p]].previous} : c \in Generated => Known(at[p], c)
  BY <1>5, <1>7, <1>8, <1>9
<1> QED BY <1>1, <1>2, <1>3, <1>4, <1>5, <1>6, <1>7, <1>10, TouchShared

LEMMA CleanShared == ASSUME IInv, TypeOK', NEW p \in Proc, Clean(p) PROVE Shared'
<1>0. TypeOK /\ OwnershipSurvives /\ at[p] \in Outputs BY DEF IInv, TypeOK
<1>1. Act(p) BY DEF Act, Write
<1>2. UNCHANGED <<disk, manifest, journals>> /\ txn' = [txn EXCEPT ![at[p]] = NoTxn] BY DEF Clean, state
<1>3. pc'[p] \in {"write", "prune", "save", "clean"} BY <1>0, Routes DEF Along, Pass, After
<1>4. {"write", "prune", "save", "clean"} \subseteq Writing BY DEF Writing
<1>5. txn'[at[p]] = NoTxn /\ \A f \in Outputs : f # at[p] => txn'[f] = txn[f] BY <1>0, <1>2 DEF TypeOK
<1>6. None \notin Generated BY GenerationAssumption DEF Content
<1>7. /\ NoTxn.holder = None /\ NoTxn.stage # "approved" /\ NoTxn.next = None /\ NoTxn.previous = None
  BY DEF NoTxn
<1>8. \A c \in {disk'[at[p]], txn'[at[p]].previous} : c \in Generated => Known(at[p], c)
  BY <1>0, <1>2, <1>5, <1>6, <1>7 DEF OwnershipSurvives
<1> QED BY <1>1, <1>2, <1>3, <1>4, <1>5, <1>7, <1>8, TouchShared

(* At the end every output that gnr8 wrote is in the manifest. *)
LEMMA EndFacts ==
    ASSUME IInv, NEW p \in Proc, pc[p] \in Ending
    PROVE \A f \in Outputs :
             /\ txn[f] = NoTxn
             /\ disk[f] \in Generated => disk[f] = plan[p][f] /\ own[p][f] = disk[f]
<1>1. pc[p] \in Writing \ Working BY DEF Ending, Writing, Working
<1>2. TypeOK /\ OwnTxn(p) /\ \A f \in Outputs : Entry(p, f) BY <1>1, WriteFacts DEF WriteInv, IInv
<1>3. \A f \in Outputs : Behind(p, f) /\ Pruned(p, f) BY DEF Behind, Pruned
<1> QED BY <1>1, <1>2, <1>3 DEF OwnTxn, Entry

LEMMA RenameShared == ASSUME IInv, TypeOK', NEW p \in Proc, Rename(p) PROVE Shared'
<1>0. TypeOK BY DEF IInv
<1>1. Act(p) BY DEF Act, End
<1>2. /\ pc[p] = "rename" /\ UNCHANGED <<disk, txn, journals>> /\ manifest' = own[p]
  BY DEF Rename, RenameTemp, files
<1>3. "rename" \in Ending /\ "finish" \in Writing /\ pc'[p] = "finish"
  BY <1>0, Routes DEF To, Writing, Ending
<1>4. \A f \in Outputs : txn[f] = NoTxn /\ (disk[f] \in Generated => own[p][f] = disk[f])
  BY <1>2, <1>3, EndFacts
<1>5. Named' BY <1>2, <1>4 DEF Named, NoTxn
<1>6. OwnershipSurvives'
  <2>1. NoTxn.previous \notin Generated BY GenerationAssumption DEF NoTxn, Content
  <2> QED BY <1>2, <1>4, <2>1 DEF OwnershipSurvives, Known
<1>7. Holding' BY <1>1, <1>2, <1>3, <1>4, Held, HoldingKept DEF NoTxn
<1> QED BY <1>5, <1>6, <1>7 DEF Shared

LEMMA FinishShared == ASSUME IInv, TypeOK', NEW p \in Proc, Finish(p) PROVE Shared'
<1>1. /\ pc[p] = "finish" /\ UNCHANGED <<disk, txn, manifest>> /\ journals' = journals \ Mine(p)
  BY DEF Finish, files
<1>2. "finish" \in Ending \cap Writing BY DEF Writing, Ending
<1>3. OwnJournal(p) /\ manifest = own[p] BY <1>1, <1>2, WriteFacts DEF WriteInv, Saving
<1>4. journals' = {} BY <1>1, <1>3 DEF OwnJournal, Mine
<1>5. \A f \in Outputs : txn[f] = NoTxn /\ (disk[f] \in Generated => manifest[f] = disk[f])
  BY <1>1, <1>2, <1>3, EndFacts
<1>6. Named' BY <1>1, <1>5 DEF Named, NoTxn
<1>7. OwnershipSurvives'
  <2>1. NoTxn.previous \notin Generated BY GenerationAssumption DEF NoTxn, Content
  <2> QED BY <1>1, <1>5, <2>1 DEF OwnershipSurvives, Known
<1>8. Holding' BY <1>1, <1>4, <1>5, HoldingKept DEF NoTxn
<1> QED BY <1>6, <1>7, <1>8 DEF Shared

LEMMA SharedStep == ASSUME IInv, TypeOK', NEW p \in Proc, Act(p) PROVE Shared'
BY StartShared, AcquireShared, RecoverOutputShared, CrashInRecoveryShared, RenameRecoveredShared,
   CloseRecoveredShared, ApartShared, StopShared, PublishJournalShared, QuarantineShared,
   StageShared, FinishedShared, CleanShared, RenameShared, FinishShared
   DEF Act, Begin, Recover, Write, End

-----------------------------------------------------------------------------
(* The files a process is making, and the end of a generation. *)
LEMMA FilesStep == ASSUME IInv, NEW p \in Proc, Act(p) PROVE OwnFilesStay'
<1>0. TypeOK /\ OwnFilesStay BY DEF IInv
<1>1. \A q \in Proc : q # p => pc'[q] = "idle" BY ActMoves DEF Moves
<1>2. pc'[p] \in {"lockMarker", "publishJournal"} => p \in markers'
  <2>1. CASE OpenMarker(p) BY <2>1 DEF OpenMarker
  <2>2. CASE LockMarker(p) BY <1>0, <2>2 DEF LockMarker, OwnFilesStay, state
  <2>3. CASE ~(OpenMarker(p) \/ LockMarker(p))
    <3>1. pc'[p] \notin {"lockMarker", "publishJournal"}
      BY <1>0, <2>3, Routes DEF Act, Begin, Recover, Write, End, To, Along, Idle, Pass, After
    <3> QED BY <3>1
  <2> QED BY <2>1, <2>2, <2>3
<1>3. pc'[p] \in {"renameRecovered", "rename"} => p \in temp'
  <2>1. CASE SaveRecovered(p) \/ Save(p)
    <3>1. {"renameRecovered", "rename", "close", "finish"} \subseteq Places BY DEF Places
    <3>2. PICK here, there, after :
             /\ WriteTemp(p, IF pc[p] = "save" THEN Kept(p) ELSE own[p], here, there, after)
             /\ after \in {"close", "finish"}
      BY <2>1 DEF SaveRecovered, Save, WriteTemp
    <3>3. pc'[p] = after \/ p \in temp' BY <1>0, <3>1, <3>2, GoesTo DEF WriteTemp, TypeOK
    <3> QED BY <3>2, <3>3
  <2>2. CASE ~(SaveRecovered(p) \/ Save(p))
    <3>1. pc'[p] \notin {"renameRecovered", "rename"}
      BY <1>0, <2>2, Routes DEF Act, Begin, Recover, Write, End, To, Along, Idle, Pass, After
    <3> QED BY <3>1
  <2> QED BY <2>1, <2>2
<1>4. "idle" \notin {"lockMarker", "publishJournal", "renameRecovered", "rename"} OBVIOUS
<1> QED BY <1>1, <1>2, <1>3, <1>4 DEF OwnFilesStay

LEMMA LastStep == ASSUME IInv, NEW p \in Proc, Act(p) PROVE LastInv'
<1>0. TypeOK /\ LastInv BY DEF IInv
<1>1. CASE Finish(p)
  <2>1. /\ pc[p] = "finish" /\ UNCHANGED <<disk, txn, manifest>> /\ journals' = journals \ Mine(p)
        /\ last' = plan[p]
    BY <1>1 DEF Finish, files
  <2>2. "finish" \in Ending \cap Writing BY DEF Writing, Ending
  <2>3. OwnJournal(p) /\ manifest = own[p] BY <2>1, <2>2, WriteFacts DEF WriteInv, Saving
  <2>4. journals' = {} BY <2>1, <2>3 DEF OwnJournal, Mine
  <2>5. \A f \in Outputs : txn[f] = NoTxn /\ (disk[f] \in Generated => disk[f] = plan[p][f] /\ own[p][f] = disk[f])
    BY <2>1, <2>2, EndFacts
  <2>6. guard' = None BY <1>0, <1>1, ForgetsTo DEF Finish
  <2> QED BY <2>1, <2>3, <2>4, <2>5, <2>6 DEF LastInv, SuccessIsWhole
<1>2. CASE Begin(p) BY <1>2 DEF Begin, Start, LastInv
<1>3. CASE ~Finish(p) /\ ~Begin(p)
  <2>1. pc[p] # "idle"
    BY <1>0, <1>3, Routes DEF Act, Recover, Write, End, To, Along
  <2>2. guard = p /\ p # None BY <2>1, Alone, GenerationAssumption
  <2>3. last = None BY <1>0, <2>2 DEF LastInv
  <2>4. last' = last
    BY <1>3 DEF Act, Recover, Write, End, Acquire, RecoverOutput, CrashInRecovery, MeetConflict,
                SaveRecovered, RenameRecovered, CloseRecovered, OpenMarker, LockMarker, PublishJournal,
                Read, LeaveAlone, Quarantine, Approve, GiveBack, Install, Blocked, Mark, ForgetDecisions,
                Clean, SkipCurrent, QuarantineStale, DeleteStale, Save, Rename, Crash, Stops, WriteTemp,
                RenameTemp, MoveAside
  <2> QED BY <2>3, <2>4 DEF LastInv
<1> QED BY <1>1, <1>2, <1>3

-----------------------------------------------------------------------------
(* The user's steps: an output gets content that is not gnr8's, a transaction nobody holds is gone. *)
Outside ==
    /\ UNCHANGED <<state, guard, pc, at, memory, last>>
    /\ \A f \in Outputs : disk'[f] \notin Generated \/ disk'[f] = disk[f]
    /\ \A f \in Outputs : txn'[f] = txn[f] \/ (txn[f].holder = None /\ txn'[f] = NoTxn)

LEMMA UserOutside == ASSUME TypeOK, User \/ BecomeQuiet \/ UNCHANGED vars PROVE Outside
<1>0. disk \in [Outputs -> Content \cup {None}] /\ txn \in [Outputs -> Txn] BY DEF TypeOK
<1>1. \A c \in Foreign \cup {None} : c \notin Generated BY GenerationAssumption DEF Content
<1>2. ASSUME NEW f \in Outputs, NEW content \in Foreign \cup {None}, UserWrites(f, content) PROVE Outside
  BY <1>0, <1>1, <1>2 DEF UserWrites, Outside
<1>3. ASSUME NEW f \in Outputs, UserResolves(f) PROVE Outside
  BY <1>0, <1>3 DEF UserResolves, Outside
<1>4. CASE BecomeQuiet BY <1>4 DEF BecomeQuiet, Outside, files
<1>5. CASE UNCHANGED vars BY <1>5 DEF vars, Outside, state, memory
<1> QED BY <1>2, <1>3, <1>4, <1>5 DEF User

LEMMA OutsideStep ==
    ASSUME IInv, TypeOK', Outside
    PROVE Serial' /\ Shared' /\ OwnFilesStay' /\ LastInv' /\ \A p \in Proc : ProcInv(p)'
<1>0. /\ TypeOK /\ Serial /\ Holding /\ Named /\ OwnershipSurvives /\ OwnFilesStay /\ LastInv
      /\ \A p \in Proc : ProcInv(p)
  BY DEF IInv
<1>1. /\ UNCHANGED <<manifest, temp, markers, journals, guard, pc, at, plan, force, own, seen, last>>
      /\ \A f \in Outputs : disk'[f] \notin Generated \/ disk'[f] = disk[f]
      /\ \A f \in Outputs : txn'[f] = txn[f] \/ (txn[f].holder = None /\ txn'[f] = NoTxn)
  BY DEF Outside, state, memory
<1>n. NoTxn.holder = None /\ NoTxn.next = None /\ NoTxn.stage # "approved" /\ NoTxn.previous \notin Generated
  BY GenerationAssumption DEF NoTxn, Content
<1>2. Serial' /\ OwnFilesStay' BY <1>0, <1>1 DEF Serial, OwnFilesStay
<1>3. Shared'
  <2>1. Named' BY <1>0, <1>1, <1>n DEF Named
  <2>2. OwnershipSurvives' BY <1>0, <1>1, <1>n DEF OwnershipSurvives, Known
  <2>3. Holding' BY <1>0, <1>1, <1>n DEF Holding
  <2> QED BY <2>1, <2>2, <2>3 DEF Shared
<1>4. LastInv' BY <1>0, <1>1 DEF LastInv, SuccessIsWhole
<1>5. ASSUME NEW p \in Proc PROVE ProcInv(p)'
  <2>0. ProcInv(p) BY <1>0
  <2>1. ASSUME RecoverInv(p) PROVE RecoverInv(p)' BY <1>1, <2>1 DEF RecoverInv
  <2>2. ASSUME OpenInv(p) PROVE OpenInv(p)' BY <1>1, <2>2 DEF OpenInv
  <2>3. ASSUME WriteInv(p) PROVE WriteInv(p)'
    <3>1. OwnJournal(p)' BY <1>1, <2>3 DEF WriteInv, OwnJournal
    <3>2. OwnTxn(p)' BY <1>1, <2>3 DEF WriteInv, OwnTxn
    <3>3. ASSUME NEW f \in Outputs PROVE Entry(p, f)'
      <4>1. Entry(p, f) BY <2>3 DEF WriteInv
      <4>2. /\ (Ahead(p, f)' <=> Ahead(p, f)) /\ (Behind(p, f)' <=> Behind(p, f))
            /\ (Pruned(p, f)' <=> Pruned(p, f))
        BY <1>1 DEF Ahead, Behind, Pruned, New
      <4> QED BY <1>1, <4>1, <4>2 DEF Entry
    <3>4. Current(p)'
      <4>1. at[p] \in Outputs /\ Current(p) BY <1>0, <2>3 DEF TypeOK, WriteInv
      <4>2. {"judge", "install"} \subseteq Working BY DEF Working
      <4>3. pc[p] \in Working => txn[at[p]].holder = p /\ p # None
        BY <4>1, GenerationAssumption DEF Current
      <4>4. pc[p] \in Working => txn'[at[p]] = txn[at[p]] BY <1>1, <4>1, <4>3
      <4> QED BY <1>1, <4>1, <4>2, <4>3, <4>4 DEF Current, New
    <3>5. Saving(p)' BY <1>1, <2>3 DEF WriteInv, Saving, Kept
    <3> QED BY <3>1, <3>2, <3>3, <3>4, <3>5 DEF WriteInv
  <2> QED BY <1>1, <2>0, <2>1, <2>2, <2>3 DEF ProcInv
<1> QED BY <1>2, <1>3, <1>4, <1>5

-----------------------------------------------------------------------------
(* What the process that acts relies on, action by action. *)
LEMMA AtStep == ASSUME IInv, NEW p \in Proc, Act(p) PROVE pc'[p] \notin Looping => at'[p] = 1
<1>0. TypeOK /\ ProcInv(p) BY DEF IInv
<1>1. /\ {"idle", "acquire", "saveRecovered", "renameRecovered", "close", "open", "lockMarker",
          "publishJournal", "read", "save", "rename", "finish"} \cap Looping = {}
      /\ {"recover", "write", "prune", "judge", "install", "mark", "forget", "clean", "judgeStale"}
           \subseteq Looping
  BY DEF Looping, Working
<1>2. pc[p] \notin Looping => at[p] = 1 BY <1>0 DEF ProcInv
<1>3. CASE Begin(p) BY <1>0, <1>1, <1>2, <1>3, Routes DEF Begin, To
<1>4. CASE Recover(p) BY <1>0, <1>1, <1>2, <1>4, Routes DEF Recover, To, Along, Idle
<1>5. CASE Write(p) BY <1>0, <1>1, <1>2, <1>5, Routes DEF Write, To, Along, Idle, Pass, After
<1>6. CASE End(p) BY <1>0, <1>1, <1>2, <1>6, Routes DEF End, To, Idle
<1>7. CASE Crash(p) BY <1>0, <1>7, Routes DEF Idle
<1> QED BY <1>3, <1>4, <1>5, <1>6, <1>7 DEF Act

LEMMA ProcFrom ==
    ASSUME IInv, NEW p \in Proc, Act(p),
           pc'[p] \in Recovering => RecoverInv(p)',
           pc'[p] \in Opening => OpenInv(p)',
           pc'[p] \in Writing => WriteInv(p)'
    PROVE ProcInv(p)'
BY AtStep DEF ProcInv

LEMMA Regions ==
    /\ {"idle", "acquire"} \cap (Recovering \cup Opening \cup Writing) = {}
    /\ {"recover", "saveRecovered", "renameRecovered", "close"} \subseteq Recovering
    /\ {"open", "lockMarker", "publishJournal"} \subseteq Opening
    /\ {"read", "write", "prune", "save", "rename", "finish"} \subseteq Writing \ Working
    /\ {"judge", "install", "mark", "forget", "clean", "judgeStale"} \subseteq Working
    /\ Working \subseteq Writing
    /\ Recovering \cap Opening = {} /\ Recovering \cap Writing = {} /\ Opening \cap Writing = {}
BY DEF Recovering, Opening, Writing, Working

LEMMA IdleProc ==
    ASSUME IInv, NEW p \in Proc,
           \/ Begin(p) \/ CrashInRecovery(p) \/ MeetConflict(p) \/ Blocked(p) \/ Finish(p) \/ Crash(p)
    PROVE ProcInv(p)'
<1>1. Act(p) BY DEF Act, Recover, Write, End
<1>2. TypeOK BY DEF IInv
<1>3. pc'[p] \in {"idle", "acquire"} BY <1>2, Routes DEF Begin, To, Idle
<1> QED BY <1>1, <1>3, ProcFrom, Regions

LEMMA AcquireProc == ASSUME IInv, NEW p \in Proc, Acquire(p) PROVE ProcInv(p)'
<1>0. TypeOK /\ ProcInv(p) /\ Named BY DEF IInv
<1>1. Act(p) BY DEF Act, Recover
<1>2. pc[p] = "acquire" /\ UNCHANGED <<disk, txn, manifest, at>> /\ own'[p] = manifest
  BY <1>0 DEF Acquire, files, TypeOK
<1>3. \A j \in journals : j.holder = None BY <1>1, <1>2, Regions, Held
<1>4. "acquire" \notin Looping BY DEF Looping, Working
<1>5. at[p] = 1 BY <1>0, <1>2, <1>4 DEF ProcInv
<1>6. \A f \in Outputs : f >= 1 BY GenerationAssumption DEF Outputs
<1>7. CASE journals = {}
  <2>1. pc'[p] = "open" BY <1>0, <1>7, AcquiredTo
  <2>2. journals' = {} BY <1>0, <1>7, AcquiredTo
  <2>3. \A f \in Outputs : txn[f] = NoTxn BY <1>0, <1>7 DEF Named
  <2>4. OpenInv(p)' BY <1>2, <2>1, <2>2, <2>3 DEF OpenInv
  <2> QED BY <1>1, <2>1, <2>4, ProcFrom, Regions
<1>8. CASE journals # {}
  <2>1. pc'[p] = "recover" BY <1>0, <1>3, <1>8, AcquiredTo
  <2>2. \A j \in journals' : j.holder = p BY <1>0, <1>3, AcquiredTo
  <2>3. RecoverInv(p)' BY <1>2, <1>5, <1>6, <2>1, <2>2 DEF RecoverInv
  <2> QED BY <1>1, <2>1, <2>3, ProcFrom, Regions
<1> QED BY <1>7, <1>8

(* After recovery of an output, the manifest in memory says what it holds, if that is gnr8's. *)
LEMMA RecoveredOutput ==
    ASSUME IInv, NEW p \in Proc, RecoverOutput(p)
    PROVE /\ txn'[at[p]] = NoTxn
          /\ disk'[at[p]] \in Generated => own'[p][at[p]] = disk'[at[p]]
<1>0. TypeOK /\ ProcInv(p) /\ Named /\ OwnershipSurvives BY DEF IInv
<1>1. Act(p) BY DEF Act, Recover
<1>2. pc[p] = "recover" BY DEF RecoverOutput
<1>3. at[p] \in Outputs /\ txn \in [Outputs -> Txn] /\ disk \in [Outputs -> Content \cup {None}]
      /\ own \in [Proc -> [Outputs -> Generated \cup {None}]] /\ None \notin Generated
      /\ Count \in Nat \ {0} /\ at[p] >= at[p]
  BY <1>0, GenerationAssumption DEF TypeOK, Entries, Outputs, Content
<1>4. RecoverInv(p) BY <1>0, <1>2, Regions DEF ProcInv
<1>5. own[p][at[p]] = manifest[at[p]] BY <1>2, <1>3, <1>4 DEF RecoverInv
<1>6. \A j \in journals : j.files[at[p]] # None => j.files[at[p]] \in Journalled(p)
  BY <1>4 DEF RecoverInv, Journalled, Mine
<1>7. CASE Journalled(p) = {}
  <2>1. UNCHANGED <<disk, txn, own>> BY <1>7 DEF RecoverOutput, files
  <2>2. \A j \in journals : j.files[at[p]] = None BY <1>6, <1>7
  <2>3. txn[at[p]] = NoTxn BY <1>0, <1>3, <2>2 DEF Named
  <2>4. disk[at[p]] \in Generated => manifest[at[p]] = disk[at[p]]
    BY <1>0, <1>3, <2>2 DEF OwnershipSurvives, Known
  <2> QED BY <1>5, <2>1, <2>3, <2>4
<1>8. CASE Journalled(p) # {}
  <2>1. txn[at[p]].holder = None BY <1>1, <1>2, <1>3, Held, Regions
  <2>2. txn'[at[p]] = NoTxn BY <1>3, <1>8, <2>1 DEF RecoverOutput
  <2>3. disk'[at[p]] = Repaired(at[p]) BY <1>3, <1>8 DEF RecoverOutput
  <2>4. own' = [own EXCEPT ![p][at[p]] = Reconstructed(p)] BY <1>8 DEF RecoverOutput
  <2>5. own'[p][at[p]] = Reconstructed(p) BY <1>3, <2>4
  <2>6. ASSUME Repaired(at[p]) \in Generated PROVE Reconstructed(p) = Repaired(at[p])
    <3>1. Known(at[p], Repaired(at[p])) BY <1>0, <1>3, <2>6, RepairedKnown
    <3>2. manifest[at[p]] = Repaired(at[p]) \/ Repaired(at[p]) \in Journalled(p)
      BY <1>3, <1>6, <2>6, <3>1 DEF Known
    <3>3. Installed(Pending(at[p]), disk[at[p]]) => Pending(at[p]).next = Repaired(at[p])
      BY DEF Installed, Repaired, Recovered
    <3> QED BY <1>5, <3>2, <3>3 DEF Reconstructed
  <2> QED BY <2>2, <2>3, <2>5, <2>6
<1> QED BY <1>7, <1>8

LEMMA RecoverOutputProc == ASSUME IInv, NEW p \in Proc, RecoverOutput(p) PROVE ProcInv(p)'
<1>0. TypeOK /\ ProcInv(p) BY DEF IInv
<1>1. Act(p) BY DEF Act, Recover
<1>2. pc[p] = "recover" /\ UNCHANGED <<journals, manifest>> BY DEF RecoverOutput, state
<1>3. Along(p, "recover", "recover", "saveRecovered") BY <1>0, Routes
<1>4. RecoverInv(p) BY <1>0, <1>2, Regions DEF ProcInv
<1>5. at[p] \in 1 .. Count /\ Count \in Nat \ {0} /\ Outputs = 1 .. Count
  BY <1>0, GenerationAssumption DEF TypeOK, Outputs
<1>6. ASSUME NEW f \in Outputs, f # at[p]
      PROVE /\ disk'[f] = disk[f] /\ own'[p][f] = own[p][f]
            /\ txn'[f] = txn[f] 
  <2>1. /\ disk \in [Outputs -> Content \cup {None}] /\ own[p] \in [Outputs -> Generated \cup {None}]
        /\ own \in [Proc -> [Outputs -> Generated \cup {None}]] /\ txn \in [Outputs -> Txn]
    BY <1>0 DEF TypeOK, Entries
  <2>2. own' = own \/ own' = [own EXCEPT ![p][at[p]] = Reconstructed(p)] BY DEF RecoverOutput
  <2>3. own'[p][f] = own[p][f] BY <1>6, <2>1, <2>2
  <2> QED BY <1>6, <2>1, <2>3 DEF RecoverOutput, files
<1>7. ASSUME NEW f \in Outputs, f < at[p] \/ f = at[p]
      PROVE txn'[f] = NoTxn /\ (disk'[f] \in Generated => own'[p][f] = disk'[f])
  <2>1. CASE f = at[p] BY <2>1, RecoveredOutput
  <2>2. CASE f < at[p]
    <3>1. ~(f >= at[p]) /\ f # at[p] BY <1>5, <2>2
    <3> QED BY <1>4, <1>6, <3>1 DEF RecoverInv
  <2> QED BY <1>7, <2>1, <2>2
<1>8. \A f \in Outputs : f >= at[p] => own[p][f] = manifest[f] BY <1>2, <1>4 DEF RecoverInv
<1>9. \A j \in journals' : j.holder = p BY <1>2, <1>4 DEF RecoverInv
<1>10. CASE at[p] < Count /\ at'[p] = at[p] + 1 /\ pc'[p] = "recover"
  <2>1. ASSUME NEW f \in Outputs
        PROVE IF f >= at'[p] THEN own'[p][f] = manifest[f]
              ELSE txn'[f] = NoTxn /\ (disk'[f] \in Generated => own'[p][f] = disk'[f])
    <3>1. CASE f >= at'[p]
      <4>1. f >= at[p] /\ f # at[p] BY <1>5, <1>10, <3>1
      <4> QED BY <1>6, <1>8, <3>1, <4>1
    <3>2. CASE ~(f >= at'[p])
      <4>1. f < at[p] \/ f = at[p] BY <1>5, <1>10, <3>2
      <4> QED BY <1>7, <3>2, <4>1
    <3> QED BY <3>1, <3>2
  <2>2. RecoverInv(p)' BY <1>2, <1>9, <1>10, <2>1 DEF RecoverInv
  <2> QED BY <1>1, <1>10, <2>2, ProcFrom, Regions
<1>11. CASE at[p] = Count /\ at'[p] = 1 /\ pc'[p] = "saveRecovered"
  <2>1. \A f \in Outputs : f < at[p] \/ f = at[p] BY <1>5, <1>11
  <2>2. RecoverInv(p)' BY <1>7, <1>9, <1>11, <2>1 DEF RecoverInv
  <2> QED BY <1>1, <1>11, <2>2, ProcFrom, Regions
<1> QED BY <1>3, <1>10, <1>11 DEF Along

LEMMA RecoveredProc ==
    ASSUME IInv, NEW p \in Proc, SaveRecovered(p) \/ RenameRecovered(p) \/ CloseRecovered(p)
    PROVE ProcInv(p)'
<1>0. TypeOK /\ ProcInv(p) BY DEF IInv
<1>1. Act(p) BY DEF Act, Recover
<1>2. pc[p] \in {"saveRecovered", "renameRecovered", "close"} BY <1>0, Routes DEF To
<1>3. /\ \A j \in journals : j.holder = p
      /\ \A f \in Outputs : txn[f] = NoTxn /\ (disk[f] \in Generated => own[p][f] = disk[f])
  BY <1>0, <1>2, Regions DEF ProcInv, RecoverInv
<1>4. CASE SaveRecovered(p)
  <2>1. UNCHANGED <<disk, txn, manifest, journals>> BY <1>4 DEF SaveRecovered, WriteTemp, files
  <2>2. own'[p] = own[p] BY <1>0, <1>4 DEF SaveRecovered, WriteTemp, TypeOK
  <2>3. pc'[p] \in {"renameRecovered", "close"} BY <1>0, <1>4, Routes DEF To
  <2>4. pc'[p] = "close" => manifest = own[p]
    <3>1. "renameRecovered" \in Places BY DEF Places
    <3>2. own[p] # manifest => pc'[p] = "renameRecovered"
      BY <1>0, <1>4, <3>1, GoesTo DEF SaveRecovered, WriteTemp, TypeOK
    <3> QED BY <3>2
  <2>5. RecoverInv(p)' BY <1>3, <2>1, <2>2, <2>3, <2>4 DEF RecoverInv
  <2> QED BY <1>1, <2>3, <2>5, ProcFrom, Regions
<1>5. CASE RenameRecovered(p)
  <2>1. UNCHANGED <<disk, txn, journals, own>> /\ manifest' = own[p]
    BY <1>5 DEF RenameRecovered, RenameTemp, files, memory
  <2>2. pc'[p] = "close" BY <1>0, <1>5, Routes DEF To
  <2>3. RecoverInv(p)' BY <1>3, <2>1, <2>2 DEF RecoverInv
  <2> QED BY <1>1, <2>2, <2>3, ProcFrom, Regions
<1>6. CASE CloseRecovered(p)
  <2>1. txn' = txn /\ journals' = {} BY <1>3, <1>6 DEF CloseRecovered, files, Mine
  <2>2. pc'[p] = "open" BY <1>0, <1>6, Routes DEF To
  <2>3. OpenInv(p)' BY <1>3, <2>1, <2>2 DEF OpenInv
  <2> QED BY <1>1, <2>2, <2>3, ProcFrom, Regions
<1> QED BY <1>4, <1>5, <1>6

LEMMA OpenedProc ==
    ASSUME IInv, NEW p \in Proc, OpenMarker(p) \/ LockMarker(p)
    PROVE ProcInv(p)'
<1>0. TypeOK /\ ProcInv(p) BY DEF IInv
<1>1. Act(p) BY DEF Act, Write
<1>2. pc[p] \in {"open", "lockMarker"} /\ pc'[p] \in {"lockMarker", "publishJournal"}
  BY <1>0, Routes DEF To
<1>3. OpenInv(p) BY <1>0, <1>2, Regions DEF ProcInv
<1>4. UNCHANGED <<txn, manifest, journals>> BY DEF OpenMarker, LockMarker, files, state
<1>5. own'[p] = manifest
  <2>1. CASE OpenMarker(p) BY <1>0, <2>1 DEF OpenMarker, TypeOK
  <2>2. CASE LockMarker(p)
    <3>1. pc[p] = "lockMarker" /\ own' = own BY <2>2 DEF LockMarker, memory
    <3> QED BY <1>3, <3>1 DEF OpenInv
  <2> QED BY <2>1, <2>2
<1>6. OpenInv(p)' BY <1>3, <1>4, <1>5 DEF OpenInv
<1> QED BY <1>1, <1>2, <1>6, ProcFrom, Regions

-----------------------------------------------------------------------------
(* The same for the write pass.  The journal does not change, nor does what is said of an output but *)
(* the one at hand.                                                                                  *)
LEMMA PublishJournalProc == ASSUME IInv, NEW p \in Proc, PublishJournal(p) PROVE ProcInv(p)'
<1>0. TypeOK /\ ProcInv(p) BY DEF IInv
<1>1. Act(p) BY DEF Act, Write
<1>2. /\ pc[p] = "publishJournal" /\ UNCHANGED <<disk, txn, manifest, plan, own>>
      /\ journals' = journals \cup {[files |-> RecoveryFiles(p), holder |-> p]}
  BY DEF PublishJournal, files, memory
<1>3. pc'[p] = "read" BY <1>0, Routes DEF To
<1>4. journals = {} /\ (\A f \in Outputs : txn[f] = NoTxn) /\ own[p] = manifest
  BY <1>0, <1>2, Regions DEF ProcInv, OpenInv
<1>5. OwnJournal(p)' BY <1>2, <1>3, <1>4 DEF OwnJournal, RecoveryFiles
<1>6. OwnTxn(p)' BY <1>2, <1>4 DEF OwnTxn
<1>7. ASSUME NEW f \in Outputs PROVE Entry(p, f)'
  <2>1. Behind(p, f)' = FALSE /\ Pruned(p, f)' = FALSE BY <1>3 DEF Behind, Pruned, Working, Ending
  <2> QED BY <1>2, <1>3, <1>4, <2>1 DEF Entry
<1>8. Current(p)' /\ Saving(p)' BY <1>3 DEF Current, Saving, Working
<1>9. WriteInv(p)' BY <1>5, <1>6, <1>7, <1>8 DEF WriteInv
<1> QED BY <1>1, <1>3, <1>9, ProcFrom, Regions

LEMMA JournalKept ==
    ASSUME NEW p \in Proc, OwnJournal(p), UNCHANGED <<journals, manifest, plan>>,
           pc[p] = "finish" => pc'[p] = "finish"
    PROVE OwnJournal(p)'
BY DEF OwnJournal

LEMMA ReadProc == ASSUME IInv, NEW p \in Proc, Read(p) PROVE ProcInv(p)'
<1>0. TypeOK /\ ProcInv(p) BY DEF IInv
<1>1. Act(p) BY DEF Act, Write
<1>2. /\ pc[p] = "read" /\ UNCHANGED <<disk, txn, journals, manifest, plan, own, at>>
      /\ seen'[p] = disk
  BY <1>0 DEF Read, files, state, TypeOK
<1>3. pc'[p] = "write" BY <1>0, Routes DEF To
<1>4. WriteInv(p) BY <1>2, Regions, WriteFacts
<1>5. "read" \notin Looping /\ "read" \notin Working /\ "write" \notin Working BY DEF Looping, Working
<1>6. at[p] = 1 /\ \A f \in Outputs : ~(f < at[p])
  BY <1>0, <1>2, <1>5, GenerationAssumption DEF ProcInv, Outputs
<1>7. OwnJournal(p)' BY <1>2, <1>3, <1>4, JournalKept DEF WriteInv
<1>8. OwnTxn(p)' BY <1>2, <1>4, <1>5 DEF WriteInv, OwnTxn
<1>9. ASSUME NEW f \in Outputs PROVE Entry(p, f)'
  <2>1. Entry(p, f) /\ Ahead(p, f) BY <1>2, <1>4 DEF WriteInv, Ahead
  <2>2. Behind(p, f)' = FALSE BY <1>2, <1>3, <1>5, <1>6 DEF Behind, Ending
  <2>3. Pruned(p, f)' = FALSE BY <1>3, <1>5 DEF Pruned, Ending
  <2> QED BY <1>2, <1>3, <2>1, <2>2, <2>3 DEF Entry
<1>10. Current(p)' /\ Saving(p)' BY <1>3, <1>5 DEF Current, Saving
<1>11. WriteInv(p)' BY <1>7, <1>8, <1>9, <1>10 DEF WriteInv
<1> QED BY <1>1, <1>3, <1>11, ProcFrom, Regions

(* What gnr8 wrote is what the manifest says or what this generation wants. *)
LEMMA OwnKnown ==
    ASSUME IInv, NEW p \in Proc, pc[p] \in Writing, pc[p] # "finish", NEW c \in Generated,
           c \in {disk[at[p]], txn[at[p]].previous}
    PROVE c = manifest[at[p]] \/ (New(p) # None /\ c = New(p))
<1>1. OwnershipSurvives /\ OwnJournal(p) /\ at[p] \in Outputs
  BY WriteFacts DEF IInv, TypeOK, WriteInv
<1>2. Known(at[p], c) BY <1>1 DEF OwnershipSurvives
<1> QED BY <1>1, <1>2 DEF Known, OwnJournal, New

(* On to the next output of the write loop, or to pruning. *)
LEMMA WrittenProc ==
    ASSUME IInv, NEW p \in Proc, Act(p), pc[p] \in {"write", "clean"},
           Along(p, pc[p], "write", "prune"), UNCHANGED <<disk, journals, manifest, plan, seen>>,
           pc[p] = "clean" => New(p) # None,
           \A f \in Outputs : txn'[f] = NoTxn,
           \A f \in Outputs : f # at[p] => own'[p][f] = own[p][f],
           IF New(p) = None THEN own'[p][at[p]] = own[p][at[p]]
           ELSE disk[at[p]] \in Generated => disk[at[p]] = New(p) /\ own'[p][at[p]] = New(p)
    PROVE ProcInv(p)'
<1>0. at[p] \in 1 .. Count /\ Count \in Nat \ {0} /\ Outputs = 1 .. Count
  BY GenerationAssumption DEF IInv, TypeOK, Outputs
<1>1. WriteInv(p) /\ pc[p] \in Writing BY Regions, WriteFacts
<1>2. pc'[p] \in {"write", "prune"} BY DEF Along
<1>3. OwnJournal(p)' BY <1>1, <1>2, JournalKept DEF WriteInv
<1>4. OwnTxn(p)' BY DEF OwnTxn
<1>5. ASSUME NEW f \in Outputs PROVE Entry(p, f)'
  <2>0. Entry(p, f) BY <1>1 DEF WriteInv
  <2>1. Pruned(p, f)' = FALSE
    <3>1. CASE pc'[p] = "write" BY <3>1 DEF Pruned, Working, Ending
    <3>2. CASE pc'[p] = "prune"
      <4>1. at'[p] = 1 /\ ~(f < 1) BY <1>0, <3>2 DEF Along
      <4> QED BY <3>2, <4>1 DEF Pruned, Working, Ending
    <3> QED BY <1>2, <3>1, <3>2
  <2>2. ASSUME Ahead(p, f)' PROVE Ahead(p, f) /\ f # at[p]
    <3>1. pc'[p] = "write" /\ f >= at'[p] BY <1>2, <2>2 DEF Ahead, Working
    <3>2. at'[p] = at[p] + 1 BY <3>1 DEF Along
    <3>3. f >= at[p] /\ f > at[p] /\ f # at[p] BY <1>0, <3>1, <3>2
    <3> QED BY <3>3 DEF Ahead, Working
  <2>3. ASSUME Behind(p, f)', f # at[p] PROVE Behind(p, f)
    <3>1. f < at[p]
      <4>1. CASE pc'[p] = "write"
        <5>1. f < at'[p] /\ at'[p] = at[p] + 1 BY <2>3, <4>1 DEF Behind, Working, Along, Ending
        <5> QED BY <1>0, <2>3, <5>1
      <4>2. CASE pc'[p] = "prune"
        <5>1. at[p] = Count BY <4>2 DEF Along
        <5> QED BY <1>0, <2>3, <5>1
      <4> QED BY <1>2, <4>1, <4>2
    <3> QED BY <3>1 DEF Behind, Working
  <2>4. plan[p][f] # None /\ Ahead(p, f)' =>
           own'[p][f] = manifest[f] /\ (disk[f] \in Generated => disk[f] = seen[p][f])
    BY <2>0, <2>2 DEF Entry
  <2>5. plan[p][f] # None /\ Behind(p, f)' /\ disk[f] \in Generated =>
           disk[f] = plan[p][f] /\ own'[p][f] = disk[f]
    <3>1. CASE f = at[p] BY <3>1 DEF New
    <3>2. CASE f # at[p] BY <2>0, <2>3, <3>2 DEF Entry
    <3> QED BY <3>1, <3>2
  <2>6. plan[p][f] = None => own'[p][f] = manifest[f]
    BY <2>0 DEF Entry, New
  <2> QED BY <2>1, <2>4, <2>5, <2>6 DEF Entry
<1>6. Current(p)' /\ Saving(p)' BY <1>2 DEF Current, Saving, Working
<1>7. WriteInv(p)' BY <1>3, <1>4, <1>5, <1>6 DEF WriteInv
<1> QED BY <1>1, <1>2, <1>7, ProcFrom, Regions

LEMMA LeaveAloneProc == ASSUME IInv, NEW p \in Proc, LeaveAlone(p) PROVE ProcInv(p)'
<1>0. TypeOK BY DEF IInv
<1>1. Act(p) BY DEF Act, Write
<1>2. pc[p] = "write" /\ UNCHANGED <<disk, txn, journals, manifest, plan, seen>>
  BY DEF LeaveAlone, files, state
<1>3. Along(p, pc[p], "write", "prune") BY <1>0, <1>2, Routes
<1>4. WriteInv(p) BY <1>2, Regions, WriteFacts
<1>5. at[p] \in Outputs /\ own \in [Proc -> [Outputs -> Generated \cup {None}]] /\ at[p] >= at[p]
      /\ own[p] \in [Outputs -> Generated \cup {None}]
  BY <1>0, GenerationAssumption DEF TypeOK, Entries, Outputs
<1>6. \A f \in Outputs : txn'[f] = NoTxn BY <1>2, <1>4 DEF WriteInv, OwnTxn, Working
<1>7. \A f \in Outputs : f # at[p] => own'[p][f] = own[p][f] BY <1>5 DEF LeaveAlone
<1>8. IF New(p) = None THEN own'[p][at[p]] = own[p][at[p]]
      ELSE disk[at[p]] \in Generated => disk[at[p]] = New(p) /\ own'[p][at[p]] = New(p)
  <2>1. CASE New(p) = None BY <2>1 DEF LeaveAlone
  <2>2. CASE New(p) # None /\ disk[at[p]] \in Generated
    <3>1. Ahead(p, at[p]) /\ Entry(p, at[p]) BY <1>2, <1>4, <1>5 DEF Ahead, WriteInv
    <3>2. disk[at[p]] = seen[p][at[p]] /\ own[p][at[p]] = manifest[at[p]]
      BY <1>2, <2>2, <3>1 DEF Entry, New
    <3>3. CASE Unchanged(p, seen[p][at[p]])
      <4>1. seen[p][at[p]] = New(p) BY <3>3 DEF Unchanged
      <4>2. ~UserEdited(p, seen[p][at[p]]) BY <4>1 DEF UserEdited
      <4>3. own' = [own EXCEPT ![p][at[p]] = seen[p][at[p]]] BY <2>2, <4>2 DEF LeaveAlone
      <4>4. own'[p][at[p]] = seen[p][at[p]] BY <1>5, <4>3
      <4> QED BY <2>2, <3>2, <4>1, <4>4
    <3>4. CASE ~Unchanged(p, seen[p][at[p]])
      <4>1. UserEdited(p, seen[p][at[p]]) BY <2>2, <3>4 DEF LeaveAlone
      <4>2. disk[at[p]] # manifest[at[p]] /\ disk[at[p]] # New(p) BY <3>2, <4>1 DEF UserEdited
      <4> QED BY <1>2, <2>2, <4>2, OwnKnown, Regions
    <3> QED BY <3>3, <3>4
  <2> QED BY <2>1, <2>2
<1> QED BY <1>1, <1>2, <1>3, <1>6, <1>7, <1>8, WrittenProc

LEMMA CleanWrittenProc ==
    ASSUME IInv, NEW p \in Proc, Clean(p), New(p) # None PROVE ProcInv(p)'
<1>0. TypeOK /\ at[p] \in Outputs BY DEF IInv, TypeOK
<1>1. Act(p) BY DEF Act, Write
<1>2. /\ pc[p] = "clean" /\ UNCHANGED <<disk, journals, manifest, plan, own, seen>>
      /\ txn' = [txn EXCEPT ![at[p]] = NoTxn]
  BY DEF Clean, state, memory
<1>3. Along(p, pc[p], "write", "prune") BY <1>0, <1>2, Routes DEF Pass, After
<1>4. Current(p) BY <1>2, Regions, WriteFacts DEF WriteInv
<1>5. \A f \in Outputs : txn'[f] = NoTxn BY <1>0, <1>2, Regions, WorkingFacts DEF TypeOK
<1>6. disk[at[p]] \in Generated => disk[at[p]] = New(p) /\ own[p][at[p]] = New(p)
  BY <1>2, <1>4 DEF Current
<1> QED BY <1>1, <1>2, <1>3, <1>5, <1>6, WrittenProc

(* On to the next output of the prune loop, or to the save. *)
LEMMA PrunedProc ==
    ASSUME IInv, NEW p \in Proc, Act(p), pc[p] \in {"prune", "clean"},
           Along(p, pc[p], "prune", "save"), UNCHANGED <<disk, journals, manifest, plan, own>>,
           pc[p] = "clean" => New(p) = None,
           \A f \in Outputs : txn'[f] = NoTxn,
           New(p) = None => disk[at[p]] \notin Generated
    PROVE ProcInv(p)'
<1>0. at[p] \in 1 .. Count /\ Count \in Nat \ {0} /\ Outputs = 1 .. Count
  BY GenerationAssumption DEF IInv, TypeOK, Outputs
<1>1. WriteInv(p) /\ pc[p] \in Writing BY Regions, WriteFacts
<1>2. pc'[p] \in {"prune", "save"} BY DEF Along
<1>3. OwnJournal(p)' BY <1>1, <1>2, JournalKept DEF WriteInv
<1>4. OwnTxn(p)' BY DEF OwnTxn
<1>5. ASSUME NEW f \in Outputs PROVE Entry(p, f)'
  <2>0. Entry(p, f) BY <1>1 DEF WriteInv
  <2>1. Ahead(p, f)' = FALSE BY <1>2 DEF Ahead, Working
  <2>2. Behind(p, f) BY DEF Behind, Working
  <2>3. ASSUME Pruned(p, f)', f # at[p] PROVE Pruned(p, f)
    <3>1. f < at[p]
      <4>1. CASE pc'[p] = "prune"
        <5>1. f < at'[p] /\ at'[p] = at[p] + 1 BY <2>3, <4>1 DEF Pruned, Working, Along, Ending
        <5> QED BY <1>0, <2>3, <5>1
      <4>2. CASE pc'[p] = "save"
        <5>1. at[p] = Count BY <4>2 DEF Along
        <5> QED BY <1>0, <2>3, <5>1
      <4> QED BY <1>2, <4>1, <4>2
    <3> QED BY <3>1 DEF Pruned, Working
  <2>4. plan[p][f] = None /\ Pruned(p, f)' => disk[f] \notin Generated
    BY <2>0, <2>3 DEF Entry, New
  <2> QED BY <2>0, <2>1, <2>2, <2>4 DEF Entry
<1>6. Current(p)' /\ Saving(p)' BY <1>2 DEF Current, Saving, Working
<1>7. WriteInv(p)' BY <1>3, <1>4, <1>5, <1>6 DEF WriteInv
<1> QED BY <1>1, <1>2, <1>7, ProcFrom, Regions

LEMMA SkipCurrentProc == ASSUME IInv, NEW p \in Proc, SkipCurrent(p) PROVE ProcInv(p)'
<1>0. TypeOK /\ at[p] \in Outputs BY DEF IInv, TypeOK
<1>1. Act(p) BY DEF Act, Write
<1>2. pc[p] = "prune" /\ ~Stale(p) /\ UNCHANGED <<disk, txn, journals, manifest, plan, own>>
  BY DEF SkipCurrent, files, state, memory
<1>3. Along(p, pc[p], "prune", "save") BY <1>0, <1>2, Routes
<1>4. WriteInv(p) BY <1>2, Regions, WriteFacts
<1>5. \A f \in Outputs : txn'[f] = NoTxn BY <1>2, <1>4 DEF WriteInv, OwnTxn, Working
<1>6. ASSUME New(p) = None PROVE disk[at[p]] \notin Generated
  <2>1. own[p][at[p]] = None BY <1>2, <1>6 DEF Stale
  <2>2. own[p][at[p]] = manifest[at[p]] BY <1>0, <1>2, <1>4, <1>6 DEF WriteInv, Entry, New
  <2>3. None \notin Generated BY GenerationAssumption DEF Content
  <2> QED BY <1>2, <1>6, <2>1, <2>2, <2>3, OwnKnown, Regions
<1> QED BY <1>1, <1>2, <1>3, <1>5, <1>6, PrunedProc

LEMMA CleanPrunedProc ==
    ASSUME IInv, NEW p \in Proc, Clean(p), New(p) = None PROVE ProcInv(p)'
<1>0. TypeOK /\ at[p] \in Outputs BY DEF IInv, TypeOK
<1>1. Act(p) BY DEF Act, Write
<1>2. /\ pc[p] = "clean" /\ UNCHANGED <<disk, journals, manifest, plan, own, seen>>
      /\ txn' = [txn EXCEPT ![at[p]] = NoTxn]
  BY DEF Clean, state, memory
<1>3. Along(p, pc[p], "prune", "save") BY <1>0, <1>2, Routes DEF Pass, After
<1>4. Current(p) BY <1>2, Regions, WriteFacts DEF WriteInv
<1>5. \A f \in Outputs : txn'[f] = NoTxn BY <1>0, <1>2, Regions, WorkingFacts DEF TypeOK
<1>6. disk[at[p]] \notin Generated BY <1>2, <1>4 DEF Current
<1> QED BY <1>1, <1>2, <1>3, <1>5, <1>6, PrunedProc

(* A step within the work on the output at hand. *)
LEMMA WorkedProc ==
    ASSUME IInv, TypeOK', NEW p \in Proc, Act(p), pc[p] \in Working \cup {"write", "prune"},
           pc'[p] \in Working, at' = at, UNCHANGED <<journals, manifest, plan, seen>>,
           pc[p] = "write" => New(p) # None,
           pc[p] = "prune" => New(p) = None,
           \A f \in Outputs : f # at[p] =>
              txn'[f] = txn[f] /\ disk'[f] = disk[f] /\ own'[p][f] = own[p][f],
           New(p) = None => own'[p][at[p]] = own[p][at[p]],
           txn'[at[p]].holder = p,
           Current(p)'
    PROVE ProcInv(p)'
<1>0. at[p] \in 1 .. Count /\ Count \in Nat \ {0} /\ Outputs = 1 .. Count
  BY GenerationAssumption DEF IInv, TypeOK, Outputs
<1>1. WriteInv(p) /\ pc[p] \in Writing /\ pc'[p] \in Writing BY Regions, WriteFacts
<1>2. pc'[p] \notin {"read", "write", "prune", "save", "rename", "finish"} /\ pc[p] # "finish"
  BY DEF Working
<1>3. OwnJournal(p)' BY <1>1, <1>2, JournalKept DEF WriteInv
<1>4. OwnTxn(p)' BY <1>1 DEF WriteInv, OwnTxn
<1>5. ASSUME NEW f \in Outputs PROVE Entry(p, f)'
  <2>0. Entry(p, f) BY <1>1 DEF WriteInv
  <2>1. ASSUME Ahead(p, f)' PROVE Ahead(p, f) /\ f # at[p]
    <3>1. New(p) # None /\ f > at[p] BY <1>2, <2>1 DEF Ahead, New
    <3>2. f >= at[p] /\ f # at[p] BY <1>0, <3>1
    <3>3. pc[p] \in Working \cup {"write"} BY <3>1
    <3> QED BY <3>1, <3>2, <3>3 DEF Ahead
  <2>2. ASSUME Behind(p, f)', plan[p][f] # None PROVE Behind(p, f) /\ f # at[p]
    <3>1. New(p) # None => f < at[p] BY <1>2, <2>2 DEF Behind, New, Ending
    <3>2. f # at[p] BY <1>0, <2>2, <3>1 DEF New
    <3> QED BY <3>1, <3>2 DEF Behind
  <2>3. ASSUME Pruned(p, f)' PROVE Pruned(p, f) /\ f # at[p]
    <3>1. New(p) = None /\ f < at[p] BY <1>2, <2>3 DEF Pruned, New, Ending
    <3>2. f # at[p] BY <1>0, <3>1
    <3>3. pc[p] \in Working \cup {"prune"} BY <3>1
    <3> QED BY <3>1, <3>2, <3>3 DEF Pruned
  <2>4. plan[p][f] # None /\ Ahead(p, f)' =>
           own'[p][f] = manifest[f] /\ (disk'[f] \in Generated => disk'[f] = seen[p][f])
    <3>1. pc[p] # "read" BY DEF Working
    <3> QED BY <2>0, <2>1, <3>1 DEF Entry
  <2>5. plan[p][f] # None /\ Behind(p, f)' /\ disk'[f] \in Generated =>
           disk'[f] = plan[p][f] /\ own'[p][f] = disk'[f]
    BY <2>0, <2>2 DEF Entry
  <2>6. plan[p][f] = None => own'[p][f] = manifest[f]
    <3>1. pc[p] \notin {"rename", "finish"} BY DEF Working
    <3>2. plan[p][f] = None => own[p][f] = manifest[f] BY <2>0, <3>1 DEF Entry
    <3> QED BY <3>2 DEF New
  <2>7. plan[p][f] = None /\ Pruned(p, f)' => disk'[f] \notin Generated BY <2>0, <2>3 DEF Entry
  <2> QED BY <2>4, <2>5, <2>6, <2>7 DEF Entry
<1>6. Saving(p)' BY <1>2 DEF Saving
<1>7. WriteInv(p)' BY <1>3, <1>4, <1>5, <1>6 DEF WriteInv
<1> QED BY <1>1, <1>7, ProcFrom, Regions

LEMMA QuarantineProc ==
    ASSUME IInv, TypeOK', NEW p \in Proc, Quarantine(p) \/ QuarantineStale(p)
    PROVE ProcInv(p)'
<1>0. TypeOK /\ at[p] \in Outputs /\ at[p] >= at[p]
  BY GenerationAssumption DEF IInv, TypeOK, Outputs
<1>1. Act(p) BY DEF Act, Write
<1>2. PICK place : MoveAside(p, place) BY DEF Quarantine, QuarantineStale
<1>3. at' = at BY <1>2 DEF MoveAside
<1>4. /\ \A f \in Outputs : f # at[p] => txn'[f] = txn[f] /\ disk'[f] = disk[f]
      /\ txn'[at[p]].next = New(p) /\ txn'[at[p]].holder = p /\ disk'[at[p]] = None
      /\ UNCHANGED <<manifest, journals, plan, own, seen>>
  BY <1>0, <1>2, AsideTo
<1>5. \/ pc[p] = "write" /\ pc'[p] = "judge" /\ New(p) # None
      \/ pc[p] = "prune" /\ pc'[p] = "judgeStale" /\ Stale(p)
  BY <1>0, Routes DEF To, Quarantine, QuarantineStale
<1>6. WriteInv(p) BY <1>5, Regions, WriteFacts
<1>7. None \notin Generated BY GenerationAssumption DEF Content
<1>8. Current(p)'
  <2>1. CASE pc[p] = "write" /\ pc'[p] = "judge" /\ New(p) # None
    <3>1. own[p][at[p]] = manifest[at[p]] BY <1>0, <1>6, <2>1 DEF WriteInv, Entry, Ahead, New
    <3> QED BY <1>3, <1>4, <1>7, <2>1, <3>1 DEF Current, New
  <2>2. CASE pc[p] = "prune" /\ pc'[p] = "judgeStale" /\ Stale(p)
    BY <1>3, <1>4, <1>7, <2>2 DEF Current, New, Stale
  <2> QED BY <1>5, <2>1, <2>2
<1> QED BY <1>1, <1>3, <1>4, <1>5, <1>8, WorkedProc, Regions DEF Stale

LEMMA StageProc ==
    ASSUME IInv, TypeOK', NEW p \in Proc, Approve(p) \/ Install(p) \/ Mark(p)
    PROVE ProcInv(p)'
<1>0. TypeOK /\ at[p] \in Outputs BY DEF IInv, TypeOK
<1>1. Act(p) BY DEF Act, Write
<1>2. at' = at /\ UNCHANGED <<manifest, journals, plan, seen>> /\ \E stage \in Stages : Stage(p, stage)
  BY DEF Approve, Install, Mark, state, memory, Stages
<1>3. /\ \A f \in Outputs : f # at[p] => txn'[f] = txn[f]
      /\ txn'[at[p]].next = txn[at[p]].next /\ txn'[at[p]].holder = txn[at[p]].holder
  BY <1>0, <1>2, StageTo
<1>4. \/ Approve(p) /\ pc[p] = "judge" /\ pc'[p] = "install"
      \/ Install(p) /\ pc[p] = "install" /\ pc'[p] = "mark"
      \/ Mark(p) /\ pc[p] = "mark" /\ pc'[p] = "forget"
  BY <1>0, Routes DEF To
<1>5. Current(p) /\ txn[at[p]].holder = p BY <1>4, Regions, WriteFacts, WorkingFacts DEF WriteInv
<1>6. New(p) # None BY <1>4, <1>5 DEF Current
<1>7. /\ \A f \in Outputs : f # at[p] => disk'[f] = disk[f] /\ own'[p][f] = own[p][f]
      /\ pc[p] = "install" => disk'[at[p]] = New(p)
      /\ pc[p] # "install" => disk' = disk
      /\ pc[p] = "mark" => own'[p][at[p]] = New(p)
      /\ pc[p] # "mark" => own' = own
  <2>1. disk \in [Outputs -> Content \cup {None}] /\ own \in [Proc -> [Outputs -> Generated \cup {None}]]
        /\ own[p] \in [Outputs -> Generated \cup {None}]
    BY <1>0 DEF TypeOK, Entries
  <2>2. CASE Approve(p) BY <1>4, <2>2 DEF Approve, Install, Mark, memory
  <2>3. CASE Install(p) BY <1>0, <1>4, <2>1, <2>3 DEF Approve, Install, Mark, memory
  <2>4. CASE Mark(p)
    <3>1. pc[p] = "mark" /\ disk' = disk /\ own' = [own EXCEPT ![p][at[p]] = New(p)] BY <2>4 DEF Mark
    <3> QED BY <1>0, <2>1, <3>1
  <2> QED BY <1>4, <2>2, <2>3, <2>4
<1>8. Current(p)'
  <2>1. CASE pc[p] = "judge" /\ pc'[p] = "install"
    BY <1>0, <1>2, <1>3, <1>5, <1>6, <1>7, <2>1 DEF Current, New
  <2>2. CASE pc[p] = "install" /\ pc'[p] = "mark"
    BY <1>0, <1>2, <1>3, <1>5, <1>6, <1>7, <2>2 DEF Current, New
  <2>3. CASE pc[p] = "mark" /\ pc'[p] = "forget"
    BY <1>0, <1>2, <1>3, <1>5, <1>6, <1>7, <2>3 DEF Current, New
  <2> QED BY <1>4, <2>1, <2>2, <2>3
<1> QED BY <1>1, <1>2, <1>3, <1>4, <1>5, <1>6, <1>7, <1>8, WorkedProc, Regions

LEMMA FinishedProc ==
    ASSUME IInv, TypeOK', NEW p \in Proc, GiveBack(p) \/ ForgetDecisions(p) \/ DeleteStale(p)
    PROVE ProcInv(p)'
<1>0. TypeOK /\ at[p] \in Outputs BY DEF IInv, TypeOK
<1>1. Act(p) BY DEF Act, Write
<1>2. at' = at /\ UNCHANGED <<manifest, journals, plan, seen>> /\ Finished(p)
  BY DEF GiveBack, ForgetDecisions, DeleteStale, state, memory
<1>3. /\ \A f \in Outputs : f # at[p] => txn'[f] = txn[f]
      /\ txn'[at[p]].holder = txn[at[p]].holder
  BY <1>0, <1>2, FinishedTo
<1>4. pc[p] \in {"judge", "judgeStale", "forget"} /\ pc'[p] = "clean" BY <1>0, Routes DEF To
<1>5. Current(p) /\ WriteInv(p) /\ txn[at[p]].holder = p
  BY <1>4, Regions, WriteFacts, WorkingFacts DEF WriteInv
<1>6. /\ \A f \in Outputs : f # at[p] => disk'[f] = disk[f] /\ own'[p][f] = own[p][f]
      /\ New(p) = None => own'[p][at[p]] = own[p][at[p]]
      /\ disk'[at[p]] \in Generated =>
            New(p) # None /\ disk'[at[p]] = New(p) /\ own'[p][at[p]] = New(p)
  <2>1. disk \in [Outputs -> Content \cup {None}] /\ own \in [Proc -> [Outputs -> Generated \cup {None}]]
        /\ own[p] \in [Outputs -> Generated \cup {None}]
    BY <1>0 DEF TypeOK, Entries
  <2>2. CASE ForgetDecisions(p)
    <3>1. pc[p] = "forget" /\ disk' = disk /\ own' = own BY <2>2 DEF ForgetDecisions, memory
    <3> QED BY <1>5, <3>1 DEF Current
  <2>3. CASE DeleteStale(p)
    <3>1. pc[p] = "judgeStale" /\ disk' = disk /\ own' = own BY <2>3 DEF DeleteStale, memory
    <3> QED BY <1>5, <3>1 DEF Current
  <2>4. CASE GiveBack(p)
    <3>1. /\ disk' = [disk EXCEPT ![at[p]] = Aside(p)] /\ Protected(p)
          /\ own' = IF Unchanged(p, Aside(p)) THEN [own EXCEPT ![p][at[p]] = New(p)] ELSE own
      BY <2>4 DEF GiveBack
    <3>2. disk'[at[p]] = Aside(p) /\ \A f \in Outputs : f # at[p] => disk'[f] = disk[f]
      BY <1>0, <2>1, <3>1
    <3>3. \A f \in Outputs : f # at[p] => own'[p][f] = own[p][f] BY <2>1, <3>1
    <3>4. Aside(p) \in Generated => Aside(p) = manifest[at[p]] \/ (New(p) # None /\ Aside(p) = New(p))
      BY <1>4, Regions, OwnKnown DEF Aside
    <3>5. CASE pc[p] = "judge"
      <4>1. New(p) # None /\ own[p][at[p]] = manifest[at[p]] BY <1>5, <3>5 DEF Current
      <4>2. CASE Unchanged(p, Aside(p))
        <5>1. own' = [own EXCEPT ![p][at[p]] = New(p)] /\ Aside(p) = New(p)
          BY <3>1, <4>2 DEF Unchanged
        <5>2. own'[p][at[p]] = New(p) BY <1>0, <2>1, <5>1
        <5> QED BY <3>2, <3>3, <4>1, <5>1, <5>2
      <4>3. CASE ~Unchanged(p, Aside(p))
        <5>1. UserEdited(p, Aside(p)) BY <3>1, <3>5, <4>3 DEF Protected
        <5>2. Aside(p) \notin Generated BY <3>4, <4>1, <5>1 DEF UserEdited
        <5> QED BY <3>2, <3>3, <4>1, <5>2
      <4> QED BY <4>2, <4>3
    <3>6. CASE pc[p] = "judgeStale"
      <4>1. New(p) = None BY <1>5, <3>6 DEF Current
      <4>2. Aside(p) \notin {None, own[p][at[p]]} BY <3>1, <3>6 DEF Protected
      <4>3. own[p][at[p]] = manifest[at[p]] BY <1>0, <1>5, <3>6, <4>1 DEF WriteInv, Entry, New
      <4>4. Aside(p) \notin Generated BY <3>4, <4>1, <4>2, <4>3
      <4>5. own' = own BY <3>1, <4>1, <4>2 DEF Unchanged
      <4> QED BY <3>2, <4>4, <4>5
    <3> QED BY <3>1, <3>5, <3>6 DEF Protected
  <2> QED BY <2>2, <2>3, <2>4
<1>7. Current(p)' BY <1>2, <1>3, <1>4, <1>5, <1>6 DEF Current, New
<1> QED BY <1>1, <1>2, <1>3, <1>4, <1>5, <1>6, <1>7, WorkedProc, Regions

(* The manifest is saved. *)
LEMMA SaveProc == ASSUME IInv, NEW p \in Proc, Save(p) \/ Rename(p) PROVE ProcInv(p)'
<1>0. TypeOK BY DEF IInv
<1>1. Act(p) BY DEF Act, End
<1>2. /\ pc[p] \in {"save", "rename"} /\ pc'[p] \in {"rename", "finish"}
      /\ UNCHANGED <<disk, txn, journals, plan>>
  BY <1>0, Routes DEF To, Save, Rename, WriteTemp, RenameTemp, files, memory
<1>3. pc[p] \in Ending /\ pc'[p] \in Ending \cap Writing /\ pc'[p] \notin Working /\ pc[p] \in Writing
  BY <1>2 DEF Ending, Writing, Working
<1>4. WriteInv(p) /\ \A f \in Outputs : txn[f] = NoTxn BY <1>3, WriteFacts, EndFacts
<1>5. own'[p] = Kept(p)
  <2>1. CASE Save(p) BY <1>0, <2>1 DEF Save, WriteTemp, TypeOK
  <2>2. CASE Rename(p)
    <3>1. pc[p] = "rename" /\ own' = own BY <2>2 DEF Rename, RenameTemp, memory
    <3> QED BY <1>4, <3>1 DEF WriteInv, Saving
  <2> QED BY <2>1, <2>2
<1>6. pc'[p] = "finish" => manifest' = own'[p]
  <2>1. CASE Save(p)
    <3>1. {"rename", "finish"} \subseteq Places BY DEF Places
    <3>2. Kept(p) # manifest => pc'[p] = "rename"
      BY <1>0, <2>1, <3>1, GoesTo DEF Save, WriteTemp, TypeOK
    <3>3. manifest' = manifest BY <2>1 DEF Save, WriteTemp
    <3> QED BY <1>5, <3>2, <3>3
  <2>2. CASE Rename(p) BY <2>2 DEF Rename, RenameTemp, memory
  <2> QED BY <2>1, <2>2
<1>7. pc'[p] = "rename" => manifest' = manifest
  <2>1. CASE Save(p) BY <2>1 DEF Save, WriteTemp
  <2>2. CASE Rename(p) BY <1>0, <2>2, Routes DEF To
  <2> QED BY <2>1, <2>2
<1>8. OwnJournal(p)'
  <2>1. OwnJournal(p) /\ pc[p] # "finish" BY <1>2, <1>4 DEF WriteInv
  <2> QED BY <1>2, <1>7, <2>1 DEF OwnJournal
<1>9. OwnTxn(p)' BY <1>2, <1>4 DEF OwnTxn
<1>10. ASSUME NEW f \in Outputs PROVE Entry(p, f)'
  <2>0. Entry(p, f) /\ Behind(p, f) /\ Pruned(p, f) BY <1>3, <1>4 DEF WriteInv, Behind, Pruned
  <2>1. Ahead(p, f)' = FALSE BY <1>2, <1>3 DEF Ahead
  <2>2. plan[p][f] # None => own'[p][f] = own[p][f] BY <1>5 DEF Kept
  <2> QED BY <1>2, <2>0, <2>1, <2>2 DEF Entry
<1>11. Current(p)' BY <1>2, <1>3 DEF Current
<1>12. Saving(p)'
  <2>1. own'[p] = Kept(p)' BY <1>2, <1>5 DEF Kept
  <2> QED BY <1>6, <2>1 DEF Saving
<1>13. WriteInv(p)' BY <1>8, <1>9, <1>10, <1>11, <1>12 DEF WriteInv
<1> QED BY <1>1, <1>3, <1>13, ProcFrom, Regions

LEMMA ProcStep == ASSUME IInv, TypeOK', NEW p \in Proc, Act(p) PROVE ProcInv(p)'
BY IdleProc, AcquireProc, RecoverOutputProc, RecoveredProc, OpenedProc, PublishJournalProc, ReadProc,
   LeaveAloneProc, CleanWrittenProc, SkipCurrentProc, CleanPrunedProc, QuarantineProc, StageProc,
   FinishedProc, SaveProc
   DEF Act, Recover, Write, End

-----------------------------------------------------------------------------
LEMMA IInvInit == ASSUME Init PROVE IInv
<1>0. Count \in Nat \ {0} /\ 1 \in Outputs /\ None \notin Content BY GenerationAssumption DEF Outputs
<1>1. Nothing \in Entries /\ Nothing \in Plan /\ Nothing \in [Outputs -> Content \cup {None}]
  BY DEF Nothing, Entries, Plan
<1>2. NoTxn \in Txn BY DEF NoTxn, Txn
<1>3. TypeOK
  <2>1. disk \in [Outputs -> Content \cup {None}] BY DEF Init, Content
  <2>2. "idle" \in Places BY DEF Places
  <2> QED BY <1>0, <1>1, <1>2, <2>1, <2>2 DEF Init, TypeOK
<1>4. \A p \in Proc : pc[p] = "idle" /\ at[p] = 1 BY DEF Init
<1>5. journals = {} /\ last = None /\ \A f \in Outputs : txn[f] = NoTxn BY DEF Init
<1>6. Serial /\ OwnFilesStay /\ LastInv BY <1>4, <1>5 DEF Serial, OwnFilesStay, LastInv
<1>7. Holding /\ Named BY <1>5 DEF Holding, Named, NoTxn
<1>8. OwnershipSurvives
  <2>1. \A f \in Outputs : disk[f] \notin Generated
    BY GenerationAssumption DEF Init, Content
  <2>2. NoTxn.previous \notin Generated BY <1>0 DEF NoTxn, Content
  <2> QED BY <1>5, <2>1, <2>2 DEF OwnershipSurvives
<1>9. \A p \in Proc : ProcInv(p) BY <1>4, Regions DEF ProcInv
<1> QED BY <1>3, <1>6, <1>7, <1>8, <1>9 DEF IInv

LEMMA IInvNext == ASSUME IInv, [Next]_vars PROVE IInv'
<1>1. TypeOK' /\ TypeOK BY TypeStep DEF IInv
<1>2. ASSUME NEW p \in Proc, Act(p) PROVE IInv'
  <2>1. Serial' /\ OwnFilesStay' /\ LastInv' BY <1>2, SerialStep, FilesStep, LastStep
  <2>2. Shared' BY <1>1, <1>2, SharedStep
  <2>3. \A q \in Proc : ProcInv(q)' BY <1>1, <1>2, ProcStep, OthersStep
  <2> QED BY <1>1, <2>1, <2>2, <2>3 DEF IInv, Shared
<1>3. CASE User \/ BecomeQuiet \/ UNCHANGED vars
  BY <1>1, <1>3, UserOutside, OutsideStep DEF IInv, Shared
<1> QED BY <1>2, <1>3 DEF Next, Work, Act

LEMMA Invariant == Spec => []IInv
<1>1. Init => IInv BY IInvInit
<1>2. IInv /\ [Next]_vars => IInv' BY IInvNext
<1> QED BY <1>1, <1>2, PTL DEF Spec

(* Every variable keeps its type, whatever the processes, outputs, contents and plans. *)
THEOREM TypesHold == Spec => []TypeOK
<1>1. IInv => TypeOK BY DEF IInv
<1> QED BY <1>1, Invariant, PTL

(* An output that gnr8 wrote and nobody edited is never forgotten, wherever a generation dies, stops *)
(* with an error, or has its recovery stopped by a conflict.                                         *)
THEOREM OwnershipAlways == Spec => []OwnershipSurvives
<1>1. IInv => OwnershipSurvives BY DEF IInv
<1> QED BY <1>1, Invariant, PTL

(* A generation that ends well is the whole of one plan, not a mixture of two processes'. *)
THEOREM WholeAlways == Spec => []SuccessIsWhole
<1>1. IInv => SuccessIsWhole BY DEF IInv, LastInv, SuccessIsWhole
<1> QED BY <1>1, Invariant, PTL

(* Nobody removes the marker or the manifest file that a live process is about to rename. *)
THEOREM FilesStayAlways == Spec => []OwnFilesStay
<1>1. IInv => OwnFilesStay BY DEF IInv
<1> QED BY <1>1, Invariant, PTL

(* A write pass finds nothing of an earlier generation, and every transaction has a journal. *)
THEOREM CleanAlways == Spec => []WritesStartClean
<1>1. ASSUME IInv PROVE WritesStartClean
  <2>1. ASSUME NEW p \in Proc, pc[p] \in Writing
        PROVE /\ \E j \in Mine(p) : journals = {j}
              /\ \A f \in Outputs : txn[f] # NoTxn => txn[f].holder = p /\ f = at[p]
    <3>1. OwnJournal(p) /\ OwnTxn(p) BY <1>1, <2>1, WriteFacts DEF WriteInv
    <3> QED BY <3>1 DEF OwnJournal, OwnTxn, Mine
  <2>2. \A f \in Outputs : txn[f] # NoTxn => \E j \in journals : j.files[f] # None
    BY <1>1 DEF IInv, Named
  <2> QED BY <2>1, <2>2 DEF WritesStartClean
<1> QED BY <1>1, Invariant, PTL

-----------------------------------------------------------------------------
(* The promise of ProtectedOutputs.  A process at work is at the stage of its transaction, and *)
(* nothing is set aside in a transaction that is done.                                         *)
StageAt == [judge |-> "aside", judgeStale |-> "aside", install |-> "approved",
            mark |-> "moved", forget |-> "installed", clean |-> "done"]
AtStage(p) == pc[p] \in Working => txn[at[p]].stage = StageAt[pc[p]]
StageInv ==
    /\ \A f \in Outputs : txn[f].stage \in {"none", "done"} => txn[f].previous = None
    /\ \A p \in Proc : AtStage(p)

(* The steps that leave the outputs and the transactions, those that only free a transaction, and *)
(* those that change an output or the transaction beside it.                                      *)
Bystands(p) ==
    \/ Begin(p) \/ Acquire(p) \/ SaveRecovered(p) \/ RenameRecovered(p) \/ CloseRecovered(p)
    \/ OpenMarker(p) \/ LockMarker(p) \/ PublishJournal(p) \/ Read(p) \/ LeaveAlone(p)
    \/ SkipCurrent(p) \/ Save(p) \/ Rename(p) \/ Finish(p)
LetsGo(p) == MeetConflict(p) \/ Blocked(p) \/ Crash(p)
Touches(p) ==
    \/ Quarantine(p) \/ QuarantineStale(p) \/ Approve(p) \/ GiveBack(p) \/ Install(p) \/ Mark(p)
    \/ ForgetDecisions(p) \/ DeleteStale(p) \/ Clean(p)

LEMMA ActSplit ==
    ASSUME NEW p \in Proc, Act(p)
    PROVE Bystands(p) \/ LetsGo(p) \/ RecoverOutput(p) \/ CrashInRecovery(p) \/ Touches(p)
BY DEF Act, Recover, Write, End, Bystands, LetsGo, Touches

LEMMA BystandsTo ==
    ASSUME TypeOK, NEW p \in Proc, Bystands(p)
    PROVE disk' = disk /\ txn' = txn /\ pc'[p] \notin Working
<1>1. disk' = disk /\ txn' = txn
  BY DEF Bystands, files, Begin, Start, Acquire, SaveRecovered, RenameRecovered, WriteTemp,
     RenameTemp, CloseRecovered, OpenMarker, LockMarker, PublishJournal, Read, LeaveAlone, SkipCurrent,
     Save, Rename, Finish
<1>2. pc'[p] \in {"acquire", "recover", "open", "renameRecovered", "close", "lockMarker", "idle",
                  "publishJournal", "read", "write", "prune", "save", "rename", "finish"}
  BY Routes DEF Bystands, Begin, To, Along, Idle
<1> QED BY <1>1, <1>2 DEF Working

LEMMA LetsGoTo ==
    ASSUME TypeOK, NEW p \in Proc, LetsGo(p)
    PROVE disk' = disk /\ txn' = Freed(p) /\ pc'[p] \notin Working
<1>1. disk' = disk /\ txn' = Freed(p) BY DEF LetsGo, MeetConflict, Blocked, Crash, Stops
<1>2. pc'[p] = "idle" BY Routes DEF LetsGo, Idle
<1> QED BY <1>1, <1>2 DEF Working

(* Recovery finds every transaction free, and leaves nothing in the one it sees to. *)
LEMMA RecoversTo ==
    ASSUME IInv, NEW p \in Proc, RecoverOutput(p) \/ CrashInRecovery(p)
    PROVE /\ pc[p] = "recover" /\ pc'[p] \notin Working
          /\ \A f \in Outputs : f # at[p] => txn'[f] = txn[f] /\ disk'[f] = disk[f]
          /\ \/ disk' = disk /\ txn' = txn
             \/ /\ ~Conflict(txn[at[p]], disk[at[p]])
                /\ disk'[at[p]] = Recovered(txn[at[p]], disk[at[p]])
                /\ txn'[at[p]].stage \in {"none", "done"} /\ txn'[at[p]].previous = None
<1>0. /\ TypeOK /\ at[p] \in Outputs /\ txn \in [Outputs -> Txn]
      /\ disk \in [Outputs -> Content \cup {None}]
  BY DEF IInv, TypeOK
<1>1. pc[p] = "recover" /\ pc'[p] \notin Working
  BY <1>0, Routes DEF Along, Idle, Working
<1>2. Act(p) /\ "recover" \notin Working BY DEF Act, Recover, Working
<1>3. txn[at[p]].holder = None BY <1>0, <1>1, <1>2, Held
<1>4. Pending(at[p]) = txn[at[p]] BY <1>3 DEF Pending
<1>5. CASE RecoverOutput(p)
  <2>1. CASE Journalled(p) = {} BY <1>1, <1>5, <2>1 DEF RecoverOutput, files
  <2>2. CASE Journalled(p) # {}
    <3>1. /\ ~Conflict(Pending(at[p]), disk[at[p]])
          /\ disk' = [disk EXCEPT ![at[p]] = Repaired(at[p])]
          /\ txn' = [txn EXCEPT ![at[p]] = IF @.holder = None THEN NoTxn ELSE @]
      BY <1>5, <2>2 DEF RecoverOutput
    <3>2. txn'[at[p]] = NoTxn /\ disk'[at[p]] = Repaired(at[p])
      BY <1>0, <1>3, <3>1
    <3>3. \A f \in Outputs : f # at[p] => txn'[f] = txn[f] /\ disk'[f] = disk[f]
      BY <1>0, <3>1
    <3> QED BY <1>1, <1>4, <3>1, <3>2, <3>3 DEF NoTxn, Repaired
  <2> QED BY <2>1, <2>2
<1>6. CASE CrashInRecovery(p)
  <2>1. /\ ~Conflict(Pending(at[p]), disk[at[p]])
        /\ disk' = [disk EXCEPT ![at[p]] = Repaired(at[p])]
        /\ txn' = [txn EXCEPT ![at[p]] = [NoTxn EXCEPT !.stage = "done"]]
    BY <1>6 DEF CrashInRecovery
  <2>2. txn'[at[p]] = [NoTxn EXCEPT !.stage = "done"] /\ disk'[at[p]] = Repaired(at[p])
    BY <1>0, <2>1
  <2>3. \A f \in Outputs : f # at[p] => txn'[f] = txn[f] /\ disk'[f] = disk[f]
    BY <1>0, <2>1
  <2> QED BY <1>1, <1>4, <2>1, <2>2, <2>3 DEF NoTxn, Repaired
<1> QED BY <1>5, <1>6

LEMMA StageInit == ASSUME Init PROVE StageInv
BY DEF Init, StageInv, AtStage, NoTxn, Working

(* The stages that each step at work leads through. *)
LEMMA TouchesTo ==
    ASSUME IInv, StageInv, NEW p \in Proc, Touches(p)
    PROVE /\ \A f \in Outputs : f # at[p] => txn'[f] = txn[f] /\ disk'[f] = disk[f]
          /\ txn'[at[p]].stage \in {"none", "done"} => txn'[at[p]].previous = None
          /\ pc'[p] \in Working => at'[p] = at[p] /\ txn'[at[p]].stage = StageAt[pc'[p]]
<1>0. /\ TypeOK /\ at[p] \in Outputs /\ txn \in [Outputs -> Txn]
      /\ disk \in [Outputs -> Content \cup {None}]
  BY DEF IInv, TypeOK
<1>1. CASE Quarantine(p) \/ QuarantineStale(p)
  <2>1. \E place : MoveAside(p, place) BY <1>1 DEF Quarantine, QuarantineStale
  <2>2. pc'[p] \in {"judge", "judgeStale"} /\ at'[p] = at[p] BY <1>0, <1>1, Routes DEF To
  <2>3. /\ \A f \in Outputs : f # at[p] => txn'[f] = txn[f] /\ disk'[f] = disk[f]
        /\ txn'[at[p]].stage = "aside"
    BY <1>0, <2>1, AsideTo
  <2> QED BY <2>2, <2>3 DEF StageAt
<1>2. CASE Approve(p) \/ Install(p) \/ Mark(p)
  <2>1. PICK stage \in Stages :
          /\ Stage(p, stage) /\ stage \notin {"done", "none"}
          /\ pc'[p] \in {"install", "mark", "forget"} /\ stage = StageAt[pc'[p]] /\ at'[p] = at[p]
    <3>1. CASE Approve(p)
      <4>1. Stage(p, "approved") /\ pc'[p] = "install" /\ at'[p] = at[p]
        BY <1>0, <3>1, Routes DEF Approve, To
      <4> QED BY <4>1 DEF Stages, StageAt
    <3>2. CASE Install(p)
      <4>1. Stage(p, "moved") /\ pc'[p] = "mark" /\ at'[p] = at[p]
        BY <1>0, <3>2, Routes DEF Install, To
      <4> QED BY <4>1 DEF Stages, StageAt
    <3>3. CASE Mark(p)
      <4>1. Stage(p, "installed") /\ pc'[p] = "forget" /\ at'[p] = at[p]
        BY <1>0, <3>3, Routes DEF Mark, To
      <4> QED BY <4>1 DEF Stages, StageAt
    <3> QED BY <1>2, <3>1, <3>2, <3>3
  <2>2. \A f \in Outputs : f # at[p] => disk'[f] = disk[f]
    BY <1>0, <1>2 DEF Approve, Install, Mark
  <2>3. (\A f \in Outputs : f # at[p] => txn'[f] = txn[f]) /\ txn'[at[p]].stage = stage
    BY <1>0, <2>1, StageTo
  <2> QED BY <2>1, <2>2, <2>3
<1>3. CASE GiveBack(p) \/ ForgetDecisions(p) \/ DeleteStale(p)
  <2>1. Finished(p) BY <1>3 DEF GiveBack, ForgetDecisions, DeleteStale
  <2>2. pc'[p] = "clean" /\ at'[p] = at[p] BY <1>0, <1>3, Routes DEF To
  <2>3. \A f \in Outputs : f # at[p] => disk'[f] = disk[f]
    BY <1>0, <1>3 DEF GiveBack, ForgetDecisions, DeleteStale
  <2>4. /\ \A f \in Outputs : f # at[p] => txn'[f] = txn[f]
        /\ txn'[at[p]].stage = "done" /\ txn'[at[p]].previous = None
    BY <1>0, <2>1, FinishedTo
  <2> QED BY <2>2, <2>3, <2>4 DEF StageAt
<1>4. CASE Clean(p)
  <2>1. disk' = disk /\ txn' = [txn EXCEPT ![at[p]] = NoTxn] BY <1>4 DEF Clean
  <2>2. pc'[p] \in {"write", "prune", "save"} BY <1>0, <1>4, Routes DEF Along, Pass, After
  <2>3. txn'[at[p]] = NoTxn /\ \A f \in Outputs : f # at[p] => txn'[f] = txn[f] BY <1>0, <2>1
  <2> QED BY <2>1, <2>2, <2>3 DEF NoTxn, Working
<1> QED BY <1>1, <1>2, <1>3, <1>4 DEF Touches

LEMMA StageStep == ASSUME IInv, StageInv, [Next]_vars PROVE StageInv'
<1>0. TypeOK BY DEF IInv
<1>1. ASSUME NEW p \in Proc, Act(p) PROVE StageInv'
  <2>0. /\ at[p] \in Outputs /\ Moves(p) /\ "idle" \notin Working
        /\ \A f \in Outputs : txn[f].stage \in {"none", "done"} => txn[f].previous = None
    BY <1>0, <1>1, ActMoves DEF Working, TypeOK, StageInv
  <2>1. ASSUME \A f \in Outputs : txn'[f].stage \in {"none", "done"} => txn'[f].previous = None, AtStage(p)'
        PROVE StageInv'
    BY <2>0, <2>1 DEF StageInv, AtStage, Moves
  <2>2. CASE Bystands(p) BY <1>0, <2>0, <2>1, <2>2, BystandsTo DEF AtStage
  <2>3. CASE LetsGo(p) BY <1>0, <2>0, <2>1, <2>3, LetsGoTo, FreedTo DEF AtStage
  <2>4. CASE RecoverOutput(p) \/ CrashInRecovery(p)
    <3>1. \A f \in Outputs : txn'[f] = txn[f] \/ txn'[f].previous = None
      BY <2>0, <2>4, RecoversTo
    <3>2. AtStage(p)' BY <2>4, RecoversTo DEF AtStage
    <3> QED BY <2>0, <2>1, <3>1, <3>2
  <2>5. CASE Touches(p)
    <3>1. \A f \in Outputs : txn'[f].stage \in {"none", "done"} => txn'[f].previous = None
      BY <2>0, <2>5, TouchesTo
    <3>2. AtStage(p)' BY <2>5, TouchesTo DEF AtStage
    <3> QED BY <2>1, <3>1, <3>2
  <2> QED BY <1>1, <2>2, <2>3, <2>4, <2>5, ActSplit
<1>2. CASE User \/ BecomeQuiet \/ UNCHANGED vars
  <2>1. /\ UNCHANGED <<pc, at>>
        /\ \A f \in Outputs : txn'[f] = txn[f] \/ (txn[f].holder = None /\ txn'[f] = NoTxn)
    BY <1>0, <1>2, UserOutside DEF Outside
  <2>2. NoTxn.previous = None BY DEF NoTxn
  <2>3. \A p \in Proc : pc[p] \in Working => txn[at[p]].holder = p /\ at[p] \in Outputs /\ p # None
    BY <1>0, WorkingFacts, GenerationAssumption DEF TypeOK
  <2> QED BY <2>1, <2>2, <2>3 DEF StageInv, AtStage
<1> QED BY <1>1, <1>2 DEF Next, Work, Act

(* The promise, said of one output: the others are left. *)
Hidden == [f \in Outputs |-> txn[f].previous]
Freeing == {"approved", "moved", "installed"}
May    == {f \in Outputs : txn[f].previous # None /\ txn[f].stage \in Freeing}
Forced == guard # None /\ force[guard]
LeftAlone(f) ==
    disk'[f] = disk[f] /\ txn'[f].previous = txn[f].previous /\ (f \in May' <=> f \in May)
Only(o) == \A f \in Outputs : f # o => LeftAlone(f)

LEMMA OneOutput ==
    ASSUME TypeOK, TypeOK', NEW o \in Outputs, Only(o)
    PROVE /\ Hidden[o] = txn[o].previous
          /\ disk' = [disk EXCEPT ![o] = disk'[o]]
          /\ Hidden' = [Hidden EXCEPT ![o] = txn'[o].previous]
          /\ o \in May' => May' = May \cup {o}
          /\ o \notin May' => May' = May \ {o}
          /\ (o \in May' <=> o \in May) => May' = May
<1>1. disk \in [Outputs -> Content \cup {None}] /\ disk' \in [Outputs -> Content \cup {None}]
  BY DEF TypeOK
<1>2. disk' = [disk EXCEPT ![o] = disk'[o]] BY <1>1 DEF Only, LeftAlone
<1>3. Hidden' = [Hidden EXCEPT ![o] = txn'[o].previous] BY DEF Hidden, Only, LeftAlone
<1>4. May \subseteq Outputs /\ May' \subseteq Outputs BY DEF May
<1>5. \A f \in Outputs : f # o => (f \in May' <=> f \in May) BY DEF Only, LeftAlone
<1>6. o \in May' => May' = May \cup {o} BY <1>4, <1>5
<1>7. o \notin May' => May' = May \ {o} BY <1>4, <1>5
<1>8. (o \in May' <=> o \in May) => May' = May BY <1>4, <1>5
<1>9. Hidden[o] = txn[o].previous BY DEF Hidden
<1> QED BY <1>2, <1>3, <1>6, <1>7, <1>8, <1>9

LEMMA PromiseStill ==
    ASSUME TypeOK, TypeOK', \A f \in Outputs : LeftAlone(f)
    PROVE Promise!Kept
<1>1. disk \in [Outputs -> Content \cup {None}] /\ disk' \in [Outputs -> Content \cup {None}]
  BY DEF TypeOK
<1>2. disk' = disk BY <1>1 DEF LeftAlone
<1>3. Hidden' = Hidden BY DEF Hidden, LeftAlone
<1>4. May' = May
  <2>1. May \subseteq Outputs /\ May' \subseteq Outputs BY DEF May
  <2> QED BY <2>1 DEF LeftAlone
<1>5. Forced' \in BOOLEAN BY DEF TypeOK, Forced
<1>6. Promise!Begin BY <1>2, <1>3, <1>4, <1>5 DEF Promise!Begin, Hidden, May, Freeing, Forced
<1> QED BY <1>6 DEF Promise!Kept, Promise!Next

LEMMA PromiseAside ==
    ASSUME TypeOK, TypeOK', NEW o \in Outputs, Only(o), Forced' \in {Forced, FALSE},
           disk[o] # None, txn[o].previous = None, disk'[o] = None, txn'[o].previous = disk[o],
           o \notin May'
    PROVE Promise!Kept
<1>1. May' = May BY OneOutput DEF May
<1>2. Promise!SetAside(o)
  BY <1>1, OneOutput DEF Promise!SetAside, Promise!MayEnd, Hidden, May, Freeing, Forced
<1> QED BY <1>2 DEF Promise!Kept, Promise!Next

LEMMA PromiseBack ==
    ASSUME TypeOK, TypeOK', NEW o \in Outputs, Only(o), Forced' \in {Forced, FALSE},
           disk[o] = None, txn[o].previous # None, disk'[o] = txn[o].previous, txn'[o].previous = None
    PROVE Promise!Kept
<1>1. May' = May \ {o} BY OneOutput DEF May
<1>2. Promise!PutBack(o)
  BY <1>1, OneOutput DEF Promise!PutBack, Promise!MayEnd, Hidden, May, Freeing, Forced
<1> QED BY <1>2 DEF Promise!Kept, Promise!Next

LEMMA PromiseRelease ==
    ASSUME TypeOK, TypeOK', NEW o \in Outputs, Only(o), Forced' \in {Forced, FALSE},
           disk'[o] = disk[o], txn[o].previous # None, txn'[o].previous = txn[o].previous, o \in May',
           Forced \/ txn[o].previous \in Generated
    PROVE Promise!Kept
<1>1. May' = May \cup {o} BY OneOutput
<1>2. disk' = disk /\ Hidden' = Hidden
  <2>1. disk \in [Outputs -> Content \cup {None}] /\ disk' \in [Outputs -> Content \cup {None}]
    BY DEF TypeOK
  <2>2. \A f \in Outputs : txn'[f].previous = txn[f].previous /\ disk'[f] = disk[f]
    BY DEF Only, LeftAlone
  <2>3. Hidden' = Hidden BY <2>2 DEF Hidden
  <2> QED BY <2>1, <2>2, <2>3
<1>3. Promise!Release(o)
  BY <1>1, <1>2, OneOutput
     DEF Promise!Release, Promise!Disposable, Promise!MayEnd, Hidden, May, Freeing, Forced
<1> QED BY <1>3 DEF Promise!Kept, Promise!Next

LEMMA PromiseDiscard ==
    ASSUME TypeOK, TypeOK', NEW o \in Outputs, Only(o), Forced' \in {Forced, FALSE},
           disk'[o] = disk[o], txn'[o].previous = None,
           o \in May \/ Forced \/ txn[o].previous \in Generated \/ txn[o].previous = disk[o]
    PROVE Promise!Kept
<1>1. May' = May \ {o} BY OneOutput DEF May
<1>2. disk' = disk
  <2>1. disk \in [Outputs -> Content \cup {None}] /\ disk' \in [Outputs -> Content \cup {None}]
    BY DEF TypeOK
  <2> QED BY <2>1 DEF Only, LeftAlone
<1>3. Promise!Discard(o)
  BY <1>1, <1>2, OneOutput
     DEF Promise!Discard, Promise!Discarded, Promise!Disposable, Promise!MayEnd, Hidden, May, Freeing, Forced
<1> QED BY <1>3 DEF Promise!Kept, Promise!Next

LEMMA PromiseInstall ==
    ASSUME TypeOK, TypeOK', NEW o \in Outputs, Only(o), Forced' \in {Forced, FALSE},
           disk[o] = None, disk'[o] \in Generated,
           \/ txn'[o].previous = txn[o].previous /\ (o \in May' <=> o \in May)
           \/ txn'[o].previous = None /\ o \in May
    PROVE Promise!Kept
<1>1. Promise!Discarded(o)
  <2>1. CASE txn'[o].previous = txn[o].previous /\ (o \in May' <=> o \in May)
    <3>1. May' = May BY <2>1, OneOutput
    <3>2. \A f \in Outputs : txn'[f].previous = txn[f].previous BY <2>1 DEF Only, LeftAlone
    <3>3. Hidden' = Hidden BY <3>2 DEF Hidden
    <3> QED BY <3>1, <3>3 DEF Promise!Discarded, Hidden, May, Freeing
  <2>2. CASE txn'[o].previous = None /\ o \in May
    <3>1. May' = May \ {o} BY <2>2, OneOutput DEF May
    <3> QED BY <2>2, <3>1, OneOutput DEF Promise!Discarded, Hidden, May, Freeing
  <2> QED BY <2>1, <2>2
<1>2. Promise!Install(o, disk'[o])
  BY <1>1, OneOutput DEF Promise!Install, Promise!MayEnd, Forced
<1> QED BY <1>2 DEF Promise!Kept, Promise!Next

(* A generation that runs is forced or not, to its end. *)
LEMMA ForcedTo ==
    ASSUME IInv, NEW p \in Proc, Act(p), pc[p] # "idle"
    PROVE /\ Forced' \in {Forced, FALSE}
          /\ Forced <=> force[p]
<1>0. TypeOK /\ p # None /\ guard = p BY Alone, GenerationAssumption DEF IInv
<1>1. UNCHANGED <<guard, force>> \/ guard' = None
  <2> USE DEF state, memory, Forgets, Stops
  <2>1. CASE Bystands(p) /\ ~Begin(p)
    BY <2>1 DEF Bystands, Acquire, SaveRecovered, RenameRecovered, WriteTemp, RenameTemp,
       CloseRecovered, OpenMarker, LockMarker, PublishJournal, Read, LeaveAlone, SkipCurrent, Save,
       Rename, Finish
  <2>2. CASE LetsGo(p) BY <2>2 DEF LetsGo, MeetConflict, Blocked, Crash
  <2>3. CASE RecoverOutput(p) \/ CrashInRecovery(p) BY <2>3 DEF RecoverOutput, CrashInRecovery
  <2>4. CASE Touches(p)
    BY <2>4 DEF Touches, Quarantine, QuarantineStale, MoveAside, Approve, GiveBack, Install, Mark,
       ForgetDecisions, DeleteStale, Clean
  <2>5. ~Begin(p) BY DEF Begin, Start
  <2> QED BY <2>1, <2>2, <2>3, <2>4, <2>5, ActSplit
<1>2. force \in [Proc -> BOOLEAN] BY <1>0 DEF TypeOK
<1> QED BY <1>0, <1>1, <1>2 DEF Forced

(* Recovery puts back, installs or discards, as far as the transaction had come. *)
LEMMA RecoversAsPromised ==
    ASSUME IInv, StageInv, TypeOK', NEW p \in Proc, RecoverOutput(p) \/ CrashInRecovery(p)
    PROVE Promise!Kept
<1> DEFINE o == at[p]
           t == txn[o]
<1>0. /\ TypeOK /\ o \in Outputs /\ t \in Txn /\ disk[o] \in Content \cup {None}
      /\ t.stage = "approved" => t.next # None
      /\ t.stage \in {"none", "done"} => t.previous = None
  BY DEF IInv, TypeOK, Named, StageInv
<1>1. Act(p) BY DEF Act, Recover
<1>2. Forced' \in {Forced, FALSE} BY <1>1, RecoversTo, ForcedTo
<1>3. \A f \in Outputs : f # o => txn'[f] = txn[f] /\ disk'[f] = disk[f] BY RecoversTo
<1>4. CASE disk' = disk /\ txn' = txn
  <2>1. \A f \in Outputs : LeftAlone(f) BY <1>4 DEF LeftAlone, May
  <2> QED BY <1>0, <2>1, PromiseStill
<1>5. CASE /\ ~Conflict(t, disk[o]) /\ disk'[o] = Recovered(t, disk[o])
           /\ txn'[o].stage \in {"none", "done"} /\ txn'[o].previous = None
  <2>1. Only(o) BY <1>3 DEF Only, LeftAlone, May
  <2>2. o \notin May' BY <1>5 DEF May
  <2>3. CASE disk[o] # None
    <3>1. disk'[o] = disk[o] BY <1>5, <2>3 DEF Recovered
    <3>2. CASE t.previous = None
      <4>1. \A f \in Outputs : LeftAlone(f) BY <1>5, <2>1, <2>2, <3>1, <3>2 DEF Only, LeftAlone, May
      <4> QED BY <1>0, <4>1, PromiseStill
    <3>3. CASE t.previous # None
      <4>1. o \in May \/ t.previous = disk[o]
        BY <1>0, <1>5, <2>3, <3>3 DEF Conflict, May, Freeing, Txn, Stages
      <4> QED BY <1>0, <1>2, <1>5, <2>1, <3>1, <4>1, PromiseDiscard
    <3> QED BY <3>2, <3>3
  <2>4. CASE disk[o] = None /\ t.stage = "approved"
    <3>1. disk'[o] \in Generated BY <1>0, <1>5, <2>4 DEF Recovered, Txn
    <3>2. \/ txn'[o].previous = t.previous /\ (o \in May' <=> o \in May)
          \/ txn'[o].previous = None /\ o \in May
      BY <1>0, <1>5, <2>2, <2>4 DEF May, Freeing
    <3> QED BY <1>0, <1>2, <2>1, <2>4, <3>1, <3>2, PromiseInstall
  <2>5. CASE disk[o] = None /\ t.stage # "approved"
    <3>1. disk'[o] = t.previous BY <1>5, <2>5 DEF Recovered
    <3>2. CASE t.previous = None
      <4>1. \A f \in Outputs : LeftAlone(f)
        BY <1>5, <2>1, <2>2, <2>5, <3>1, <3>2 DEF Only, LeftAlone, May
      <4> QED BY <1>0, <4>1, PromiseStill
    <3>3. CASE t.previous # None BY <1>0, <1>2, <1>5, <2>1, <2>5, <3>1, <3>3, PromiseBack
    <3> QED BY <3>2, <3>3
  <2> QED BY <2>3, <2>4, <2>5
<1> QED BY <1>4, <1>5, RecoversTo

(* The steps of a generation at its output. *)
LEMMA TouchesAsPromised ==
    ASSUME IInv, StageInv, TypeOK', NEW p \in Proc, Touches(p)
    PROVE Promise!Kept
<1> DEFINE o == at[p]
           t == txn[o]
<1>0. /\ TypeOK /\ o \in Outputs /\ t \in Txn /\ disk[o] \in Content \cup {None}
      /\ t.stage \in {"none", "done"} => t.previous = None
      /\ own[p][o] \in Generated \cup {None} /\ New(p) \in Generated \cup {None}
      /\ txn \in [Outputs -> Txn] /\ disk \in [Outputs -> Content \cup {None}]
  BY DEF IInv, TypeOK, StageInv, Entries, Plan, New
<1>1. Act(p) /\ \A f \in Outputs : f # o => txn'[f] = txn[f] /\ disk'[f] = disk[f]
  BY TouchesTo DEF Act, Write, Touches
<1>2. Only(o) BY <1>1 DEF Only, LeftAlone, May
<1>3. pc[p] \in {"write", "prune"} \cup Working
  BY <1>0, Routes DEF Touches, To, Along, Working
<1>4. Forced' \in {Forced, FALSE} /\ (Forced <=> force[p])
  <2>1. pc[p] # "idle" BY <1>3 DEF Working
  <2> QED BY <1>1, <2>1, ForcedTo
<1>5. pc[p] \in Working => t.stage = StageAt[pc[p]] BY DEF StageInv, AtStage
<1>s. ASSUME LeftAlone(o) PROVE Promise!Kept
  <2>1. \A f \in Outputs : LeftAlone(f) BY <1>2, <1>s DEF Only
  <2> QED BY <1>0, <2>1, PromiseStill
<1>6. CASE Quarantine(p) \/ QuarantineStale(p)
  <2>1. \E place : MoveAside(p, place) BY <1>6 DEF Quarantine, QuarantineStale
  <2>2. txn'[o].stage = "aside" /\ txn'[o].previous = disk[o] /\ disk'[o] = None
    BY <1>0, <2>1, AsideTo
  <2>3. t.previous = None
    <3>1. pc[p] \in {"write", "prune"} BY <1>6 DEF Quarantine, QuarantineStale
    <3>2. OwnTxn(p) BY <3>1, WriteFacts DEF WriteInv, Writing
    <3>3. t = NoTxn BY <1>0, <3>1, <3>2 DEF OwnTxn, Working
    <3> QED BY <3>3 DEF NoTxn
  <2>4. o \notin May' /\ o \notin May BY <2>2, <2>3 DEF May, Freeing
  <2>5. CASE disk[o] = None BY <1>s, <2>2, <2>3, <2>4, <2>5 DEF LeftAlone
  <2>6. CASE disk[o] # None BY <1>0, <1>2, <1>4, <2>2, <2>3, <2>4, <2>6, PromiseAside
  <2> QED BY <2>5, <2>6
<1>7. CASE Approve(p)
  <2>1. /\ disk'[o] = disk[o] /\ Stage(p, "approved") /\ "approved" \in Stages
        /\ force[p] \/ ~(Unchanged(p, t.previous) \/ UserEdited(p, t.previous))
    BY <1>7 DEF Approve, Aside, Stages
  <2>2. txn'[o].stage = "approved" /\ txn'[o].previous = t.previous BY <1>0, <2>1, StageTo
  <2>3. CASE t.previous = None BY <1>s, <2>1, <2>2, <2>3 DEF LeftAlone, May
  <2>4. CASE t.previous # None
    <3>1. o \in May' BY <1>0, <2>2, <2>4 DEF May, Freeing
    <3>2. Forced \/ t.previous \in Generated BY <1>0, <1>4, <2>1, <2>4 DEF Unchanged, UserEdited
    <3> QED BY <1>0, <1>2, <1>4, <2>1, <2>2, <2>4, <3>1, <3>2, PromiseRelease
  <2> QED BY <2>3, <2>4
<1>8. CASE GiveBack(p)
  <2>1. disk[o] = None /\ disk'[o] = t.previous /\ Finished(p) BY <1>0, <1>8 DEF GiveBack, Aside
  <2>2. txn'[o].stage = "done" /\ txn'[o].previous = None BY <1>0, <2>1, FinishedTo
  <2>3. CASE t.previous = None BY <1>s, <2>1, <2>2, <2>3 DEF LeftAlone, May
  <2>4. CASE t.previous # None BY <1>0, <1>2, <1>4, <2>1, <2>2, <2>4, PromiseBack
  <2> QED BY <2>3, <2>4
<1>9. CASE Install(p)
  <2>1. /\ disk[o] = None /\ disk'[o] = New(p) /\ Stage(p, "moved") /\ "moved" \in Stages
        /\ pc[p] = "install"
    BY <1>0, <1>9 DEF Install, Stages
  <2>2. txn'[o].stage = "moved" /\ txn'[o].previous = t.previous BY <1>0, <2>1, StageTo
  <2>3. t.stage = "approved" BY <1>5, <2>1 DEF Working, StageAt
  <2>4. Current(p) BY <2>1, WriteFacts DEF WriteInv, Writing
  <2>5. New(p) \in Generated BY <1>0, <2>1, <2>4 DEF Current
  <2>6. o \in May' <=> o \in May BY <1>0, <2>2, <2>3 DEF May, Freeing
  <2> QED BY <1>0, <1>2, <1>4, <2>1, <2>2, <2>5, <2>6, PromiseInstall
<1>10. CASE Mark(p)
  <2>1. disk'[o] = disk[o] /\ Stage(p, "installed") /\ "installed" \in Stages /\ pc[p] = "mark"
    BY <1>10 DEF Mark, Stages
  <2>2. txn'[o].stage = "installed" /\ txn'[o].previous = t.previous BY <1>0, <2>1, StageTo
  <2>3. t.stage = "moved" BY <1>5, <2>1 DEF Working, StageAt
  <2> QED BY <1>s, <2>1, <2>2, <2>3 DEF LeftAlone, May, Freeing
<1>11. CASE ForgetDecisions(p) \/ DeleteStale(p)
  <2>1. disk'[o] = disk[o] /\ Finished(p) BY <1>11 DEF ForgetDecisions, DeleteStale
  <2>2. txn'[o].stage = "done" /\ txn'[o].previous = None BY <1>0, <2>1, FinishedTo
  <2>3. CASE t.previous = None BY <1>s, <2>1, <2>2, <2>3 DEF LeftAlone, May
  <2>4. CASE t.previous # None
    <3>1. ASSUME ForgetDecisions(p) PROVE o \in May
      <4>1. pc[p] = "forget" BY <3>1 DEF ForgetDecisions
      <4>2. t.stage = "installed" BY <1>5, <4>1 DEF Working, StageAt
      <4> QED BY <1>0, <2>4, <4>2 DEF May, Freeing
    <3>2. ASSUME DeleteStale(p) PROVE Forced \/ t.previous \in Generated
      BY <1>0, <1>4, <2>4, <3>2 DEF DeleteStale, Aside
    <3> QED BY <1>0, <1>2, <1>4, <1>11, <2>1, <2>2, <3>1, <3>2, PromiseDiscard
  <2> QED BY <2>3, <2>4
<1>12. CASE Clean(p)
  <2>1. disk'[o] = disk[o] /\ txn'[o] = NoTxn /\ pc[p] = "clean" BY <1>0, <1>12 DEF Clean
  <2>2. t.previous = None BY <1>0, <1>5, <2>1 DEF Working, StageAt
  <2> QED BY <1>s, <2>1, <2>2 DEF LeftAlone, May, NoTxn
<1> QED BY <1>6, <1>7, <1>8, <1>9, <1>10, <1>11, <1>12 DEF Touches

LEMMA StepKeepsPromise ==
    ASSUME IInv, StageInv, TypeOK', [Next]_vars
    PROVE User \/ Promise!Kept
<1>0. TypeOK BY DEF IInv
<1>1. ASSUME NEW p \in Proc, Act(p) PROVE Promise!Kept
  <2>1. CASE Bystands(p)
    <3>1. \A f \in Outputs : LeftAlone(f) BY <1>0, <2>1, BystandsTo DEF LeftAlone, May
    <3> QED BY <1>0, <3>1, PromiseStill
  <2>2. CASE LetsGo(p)
    <3>1. \A f \in Outputs : LeftAlone(f) BY <1>0, <2>2, LetsGoTo, FreedTo DEF LeftAlone, May
    <3> QED BY <1>0, <3>1, PromiseStill
  <2> QED BY <1>1, <2>1, <2>2, ActSplit, RecoversAsPromised, TouchesAsPromised
<1>2. CASE BecomeQuiet \/ UNCHANGED vars
  <2>1. \A f \in Outputs : LeftAlone(f) BY <1>2 DEF BecomeQuiet, vars, files, LeftAlone, May
  <2> QED BY <1>0, <2>1, PromiseStill
<1> QED BY <1>1, <1>2 DEF Next, Work, Act

(* Whatever the processes, outputs and contents, and wherever a generation dies, stops with an error or *)
(* is recovered by the next: no file of the user is overwritten, lost or discarded unasked (the moves   *)
(* without replacement and the decisions of apply_writes_with_anchors and recover_published_transaction). *)
THEOREM PromiseKept == Spec => ProtectsOutputs
<1>1. Init => IInv /\ StageInv BY IInvInit, StageInit
<1>2. IInv /\ StageInv /\ [Next]_vars => IInv' /\ StageInv'
  BY IInvNext, StageStep
<1>3. IInv /\ StageInv /\ [Next]_vars => [User \/ Promise!Kept]_vars
  <2> SUFFICES ASSUME IInv, StageInv, [Next]_vars PROVE User \/ Promise!Kept
    OBVIOUS
  <2>1. TypeOK' BY TypeStep DEF IInv
  <2> QED BY <2>1, StepKeepsPromise
<1> QED BY <1>1, <1>2, <1>3, PTL DEF Spec, ProtectsOutputs

-----------------------------------------------------------------------------
(* How far a run has come.  It goes through its places in this order, the loops once for each output: to *)
(* recover, to write and to prune.                                                                       *)
AtOnce == [saveRecovered |-> 1, renameRecovered |-> 2, close |-> 3, open |-> 4, lockMarker |-> 5,
           publishJournal |-> 6, read |-> 7]
AtEach == [write |-> 0, prune |-> 0, judge |-> 1, judgeStale |-> 1, install |-> 2, mark |-> 3,
           forget |-> 4, clean |-> 5]
AtEnd  == [save |-> 8, rename |-> 9, finish |-> 10]
Writes(place, planned) == place = "write" \/ (place \in Working /\ planned)
RankAt(place, n, planned) ==
    IF place \in {"idle", "acquire"} THEN 0
    ELSE IF place = "recover" THEN n
    ELSE IF place \in {"write", "prune"} \cup Working
         THEN (IF Writes(place, planned) THEN Count ELSE 7 * Count) + 2 + 6 * n + AtEach[place]
    ELSE IF place \in Ending THEN 13 * Count + AtEnd[place]
    ELSE Count + AtOnce[place]
Rank(p) == RankAt(pc[p], at[p], New(p) # None)
Longest == 13 * Count + 10
Forward(p) == /\ Act(p) => pc[p] = "idle" \/ pc'[p] = "idle" \/ Rank(p)' > Rank(p)
              /\ ~Act(p) => Rank(p)' = Rank(p)
NoRunLoops == [][\A p \in Proc : Forward(p)]_vars
Counted == \A p \in Proc : Rank(p) \in 0 .. Longest

LEMMA RankIs ==
    ASSUME NEW place, NEW n, NEW planned
    PROVE /\ place = "acquire" => RankAt(place, n, planned) = 0
          /\ place = "recover" => RankAt(place, n, planned) = n
          /\ place \in DOMAIN AtOnce => RankAt(place, n, planned) = Count + AtOnce[place]
          /\ place \in DOMAIN AtEach =>
                RankAt(place, n, planned) =
                   (IF Writes(place, planned) THEN Count ELSE 7 * Count) + 2 + 6 * n + AtEach[place]
          /\ place \in DOMAIN AtEnd => RankAt(place, n, planned) = 13 * Count + AtEnd[place]
<1>1. /\ DOMAIN AtOnce = {"saveRecovered", "renameRecovered", "close", "open", "lockMarker",
                          "publishJournal", "read"}
      /\ DOMAIN AtEach = {"write", "prune", "judge", "judgeStale", "install", "mark", "forget", "clean"}
      /\ DOMAIN AtEnd = {"save", "rename", "finish"}
  BY DEF AtOnce, AtEach, AtEnd
<1>2. place = "acquire" => RankAt(place, n, planned) = 0 BY DEF RankAt
<1>3. place = "recover" => RankAt(place, n, planned) = n BY DEF RankAt
<1>4. place \in DOMAIN AtOnce => RankAt(place, n, planned) = Count + AtOnce[place]
  BY <1>1 DEF RankAt, Working, Ending
<1>5. place \in DOMAIN AtEach =>
         RankAt(place, n, planned) =
            (IF Writes(place, planned) THEN Count ELSE 7 * Count) + 2 + 6 * n + AtEach[place]
  BY <1>1 DEF RankAt, Working
<1>6. place \in DOMAIN AtEnd => RankAt(place, n, planned) = 13 * Count + AtEnd[place]
  BY <1>1 DEF RankAt, Working, Ending
<1> QED BY <1>2, <1>3, <1>4, <1>5, <1>6

(* No place is beyond the longest run. *)
LEMMA RankBounded == ASSUME TypeOK PROVE Counted
<1> SUFFICES ASSUME NEW p \in Proc PROVE Rank(p) \in 0 .. Longest BY DEF Counted
<1> DEFINE planned == New(p) # None
<1>0. pc[p] \in Places /\ Count \in Nat \ {0} /\ at[p] \in 1 .. Count
  BY GenerationAssumption DEF TypeOK, Outputs
<1>r. Rank(p) = RankAt(pc[p], at[p], planned) BY DEF Rank
<1> HIDE DEF planned
<1>1. CASE pc[p] \in {"idle", "acquire", "recover"} BY <1>0, <1>1, <1>r DEF RankAt, Longest
<1>2. CASE pc[p] \in DOMAIN AtOnce BY <1>0, <1>2, <1>r, RankIs DEF AtOnce, Longest
<1>3. CASE pc[p] \in DOMAIN AtEach
  <2>1. AtEach[pc[p]] \in 0 .. 5 BY <1>3 DEF AtEach
  <2>2. Rank(p) = (IF Writes(pc[p], planned) THEN Count ELSE 7 * Count) + 2 + 6 * at[p] + AtEach[pc[p]]
    BY <1>3, <1>r, RankIs
  <2>3. CASE Writes(pc[p], planned) BY <1>0, <2>1, <2>2, <2>3 DEF Longest
  <2>4. CASE ~Writes(pc[p], planned) BY <1>0, <2>1, <2>2, <2>4 DEF Longest
  <2> QED BY <2>3, <2>4
<1>4. CASE pc[p] \in DOMAIN AtEnd BY <1>0, <1>4, <1>r, RankIs DEF AtEnd, Longest
<1> QED BY <1>0, <1>1, <1>2, <1>3, <1>4 DEF Places, AtOnce, AtEach, AtEnd

(* The plan of a run stays until it ends. *)
LEMMA PlanStays ==
    ASSUME TypeOK, NEW p \in Proc, Act(p), pc[p] # "idle", pc'[p] # "idle"
    PROVE plan' = plan
<1> USE DEF memory
<1>1. CASE Bystands(p)
  <2>1. ~Begin(p) /\ ~Finish(p) BY Routes DEF Begin, Start, Idle
  <2> QED BY <1>1, <2>1
      DEF Bystands, Acquire, SaveRecovered, RenameRecovered, WriteTemp, RenameTemp, CloseRecovered,
          OpenMarker, LockMarker, PublishJournal, Read, LeaveAlone, SkipCurrent, Save, Rename
<1>2. ~LetsGo(p) /\ ~CrashInRecovery(p) BY Routes DEF LetsGo, Idle
<1>3. CASE RecoverOutput(p) BY <1>3 DEF RecoverOutput
<1>4. CASE Touches(p)
  BY <1>4 DEF Touches, Quarantine, QuarantineStale, MoveAside, Approve, GiveBack, Install, Mark,
     ForgetDecisions, DeleteStale, Clean
<1> QED BY <1>1, <1>2, <1>3, <1>4, ActSplit

LEMMA RankStep ==
    ASSUME IInv, TypeOK', NEW p \in Proc, Act(p), pc[p] # "idle", pc'[p] # "idle"
    PROVE Rank(p)' > Rank(p)
<1> DEFINE planned == New(p) # None
<1>0. TypeOK /\ Count \in Nat \ {0} /\ at[p] \in 1 .. Count /\ at'[p] \in 1 .. Count
  BY GenerationAssumption DEF IInv, TypeOK, Outputs
<1>p. plan' = plan BY <1>0, PlanStays
<1>r. Rank(p) = RankAt(pc[p], at[p], planned) /\ Rank(p)' = RankAt(pc'[p], at'[p], planned')
  BY DEF Rank
<1>w. at'[p] = at[p] => (planned' <=> planned) BY <1>p DEF New
<1>n. planned <=> New(p) # None OBVIOUS
<1> HIDE DEF planned
<1>1. CASE Acquire(p)
  <2>1. pc[p] = "acquire" /\ pc'[p] \in {"recover", "open"} /\ at'[p] = at[p] BY <1>0, <1>1, Routes DEF To
  <2> QED BY <1>0, <2>1, <1>r, RankIs DEF AtOnce
<1>2. CASE RecoverOutput(p)
  <2>1. Along(p, "recover", "recover", "saveRecovered") BY <1>0, <1>2, Routes
  <2> QED BY <1>0, <2>1, <1>r, RankIs DEF Along, AtOnce
<1>3. CASE \/ SaveRecovered(p) \/ RenameRecovered(p) \/ CloseRecovered(p)
           \/ OpenMarker(p) \/ LockMarker(p) \/ PublishJournal(p)
  <2>1. /\ pc[p] \in DOMAIN AtOnce /\ pc'[p] \in DOMAIN AtOnce
        /\ AtOnce[pc'[p]] > AtOnce[pc[p]] /\ AtOnce[pc'[p]] \in Nat /\ AtOnce[pc[p]] \in Nat
    BY <1>0, <1>3, Routes DEF To, AtOnce
  <2> QED BY <1>0, <1>r, <2>1, RankIs
<1>4. CASE Read(p)
  <2>1. pc[p] = "read" /\ pc'[p] = "write" /\ at'[p] = at[p] BY <1>0, <1>4, Routes DEF To
  <2> QED BY <1>0, <2>1, <1>r, RankIs DEF AtOnce, AtEach, Writes
<1>5. CASE LeaveAlone(p)
  <2>1. Along(p, "write", "write", "prune") BY <1>0, <1>5, Routes
  <2> QED BY <1>0, <2>1, <1>r, RankIs DEF Along, AtEach, Writes, Working
<1>6. CASE SkipCurrent(p)
  <2>1. Along(p, "prune", "prune", "save") BY <1>0, <1>6, Routes
  <2> QED BY <1>0, <2>1, <1>r, RankIs DEF Along, AtEach, AtEnd, Writes, Working
<1>7. CASE Clean(p)
  <2>1. Along(p, "clean", Pass(p), After(p)) BY <1>0, <1>7, Routes
  <2>2. CASE New(p) # None
    <3>1. Along(p, "clean", "write", "prune") BY <2>1, <2>2 DEF Pass, After
    <3> QED BY <1>0, <1>n, <2>2, <3>1, <1>r, RankIs DEF Along, AtEach, Writes, Working
  <2>3. CASE New(p) = None
    <3>1. Along(p, "clean", "prune", "save") BY <2>1, <2>3 DEF Pass, After
    <3> QED BY <1>0, <1>n, <2>3, <3>1, <1>r, RankIs DEF Along, AtEach, AtEnd, Writes, Working
  <2> QED BY <2>2, <2>3
<1>8. CASE \/ Quarantine(p) \/ Approve(p) \/ GiveBack(p) \/ Install(p) \/ Mark(p)
           \/ ForgetDecisions(p) \/ QuarantineStale(p) \/ DeleteStale(p)
  <2>1. /\ pc[p] \in DOMAIN AtEach /\ pc'[p] \in DOMAIN AtEach /\ at'[p] = at[p]
        /\ AtEach[pc'[p]] > AtEach[pc[p]] /\ AtEach[pc'[p]] \in Nat /\ AtEach[pc[p]] \in Nat
    BY <1>0, <1>8, Routes DEF To, AtEach
  <2>2. planned' <=> planned BY <1>w, <2>1
  <2>3. Writes(pc'[p], planned') <=> Writes(pc[p], planned)
    <3>1. CASE Quarantine(p)
      <4>1. pc[p] = "write" /\ pc'[p] = "judge" /\ New(p) # None
        BY <1>0, <3>1, Routes DEF To, Quarantine
      <4> QED BY <1>n, <2>2, <4>1 DEF Writes, Working
    <3>2. CASE QuarantineStale(p)
      <4>1. pc[p] = "prune" /\ pc'[p] = "judgeStale" /\ New(p) = None
        BY <1>0, <3>2, Routes DEF To, QuarantineStale, Stale
      <4> QED BY <1>n, <2>2, <4>1 DEF Writes, Working
    <3>3. CASE ~Quarantine(p) /\ ~QuarantineStale(p)
      <4>1. pc[p] \in Working /\ pc'[p] \in Working BY <1>0, <1>8, <3>3, Routes DEF To, Working
      <4> QED BY <1>n, <2>2, <4>1 DEF Writes, Working
    <3> QED BY <3>1, <3>2, <3>3
  <2> QED BY <1>0, <1>r, <2>1, <2>3, RankIs
<1>9. CASE Save(p) \/ Rename(p)
  <2>1. /\ pc[p] \in DOMAIN AtEnd /\ pc'[p] \in DOMAIN AtEnd
        /\ AtEnd[pc'[p]] > AtEnd[pc[p]] /\ AtEnd[pc'[p]] \in Nat /\ AtEnd[pc[p]] \in Nat
    BY <1>0, <1>9, Routes DEF To, AtEnd
  <2> QED BY <1>0, <1>r, <2>1, RankIs
<1>10. ~Begin(p) /\ ~LetsGo(p) /\ ~CrashInRecovery(p) /\ ~Finish(p)
  BY <1>0, Routes DEF Begin, Start, LetsGo, Idle
<1> QED BY <1>1, <1>2, <1>3, <1>4, <1>5, <1>6, <1>7, <1>8, <1>9, <1>10, ActSplit DEF Bystands, Touches

(* A run that waits for another one is where it was. *)
LEMMA RankStays ==
    ASSUME IInv, [Next]_vars, NEW p \in Proc, ~Act(p)
    PROVE Rank(p)' = Rank(p)
<1>1. ASSUME NEW q \in Proc, Act(q) PROVE Rank(p)' = Rank(p)
  <2>1. pc[p] = "idle" /\ pc'[p] = "idle" BY <1>1, ActMoves DEF Moves
  <2> QED BY <2>1 DEF Rank, RankAt
<1>2. CASE User \/ BecomeQuiet \/ UNCHANGED vars
  <2>1. UNCHANGED <<pc, at, plan>>
    BY <1>2 DEF User, UserWrites, UserResolves, BecomeQuiet, memory, vars
  <2> QED BY <2>1 DEF Rank, New
<1> QED BY <1>1, <1>2 DEF Next, Work, Act

(* A run takes at most 13 steps for each output and 10 more: each of its own brings it further, however the *)
(* files change under it, and no step of another changes how far it has come (the loops of                  *)
(* regenerate_with_anchors over the journal, the plan and the stale entries).                               *)
THEOREM RunsAreBounded == Spec => []Counted /\ NoRunLoops
<1>1. TypeOK => Counted BY RankBounded
<1>2. IInv /\ [Next]_vars => [\A p \in Proc : Forward(p)]_vars
  <2> SUFFICES ASSUME IInv, [Next]_vars PROVE \A p \in Proc : Forward(p)
    OBVIOUS
  <2>1. TypeOK' BY TypeStep
  <2> QED BY <2>1, RankStep, RankStays DEF Forward
<1> QED BY <1>1, <1>2, Invariant, TypesHold, PTL DEF Spec, NoRunLoops
=============================================================================
