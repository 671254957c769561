---------------------- MODULE OutputTransactionProofs ----------------------
(***************************************************************************)
(* What holds of OutputTransaction for every set of contents, proved with  *)
(* TLAPS: type correctness, that no file of the user's is lost, and that   *)
(* recovery neither forgets an output of gnr8's nor fails by itself.       *)
(***************************************************************************)
EXTENDS OutputTransaction, TLAPS

LEMMA TxnTypes ==
  /\ NoTxn \in Txn
  /\ Building \in Txn
  /\ \A b \in Bytes : Published(b) \in Txn
<1>1. NoTxn \in Txn
  BY DEF NoTxn, Txn
<1>2. Building \in Txn
  BY <1>1 DEF Building, Txn
<1>3. \A b \in Bytes : Published(b) \in Txn
  BY <1>2 DEF Published, Txn
<1> QED BY <1>1, <1>2, <1>3

(* What a transaction holds, and which updates of its fields keep it one. *)
LEMMA TxnFields ==
  \A t \in Txn : /\ t.journal \in Bytes \cup {None}
                 /\ t.next \in Bytes \cup {None}
                 /\ t.previous \in File \cup {None}
  BY DEF Txn

LEMMA TxnUpdates ==
  ASSUME NEW t \in Txn, NEW c \in BOOLEAN, NEW f \in File \cup {None}
  PROVE  /\ [t EXCEPT !.disturbed = c] \in Txn
         /\ [t EXCEPT !.disturbed = c].next = t.next
         /\ [t EXCEPT !.released = c] \in Txn
         /\ [t EXCEPT !.previous = f] \in Txn
         /\ [t EXCEPT !.previous = f].next = t.next
         /\ [t EXCEPT !.previous = None, !.released = FALSE] \in Txn
         /\ [t EXCEPT !.approved = TRUE, !.released = c] \in Txn
         /\ [t EXCEPT !.approved = TRUE, !.released = c].next = t.next
         /\ [t EXCEPT !.next = None] \in Txn
         /\ [t EXCEPT !.approved = FALSE] \in Txn
         /\ [t EXCEPT !.installed = c] \in Txn
         /\ [t EXCEPT !.journal = None] \in Txn
         /\ [t EXCEPT !.lease = FALSE] \in Txn
<1>1. /\ [t EXCEPT !.disturbed = c] \in Txn
      /\ [t EXCEPT !.disturbed = c].next = t.next
      /\ [t EXCEPT !.released = c] \in Txn
  BY DEF Txn
<1>2. /\ [t EXCEPT !.previous = f] \in Txn
      /\ [t EXCEPT !.previous = f].next = t.next
      /\ [t EXCEPT !.previous = None, !.released = FALSE] \in Txn
  BY DEF Txn
<1>3. /\ [t EXCEPT !.approved = TRUE, !.released = c] \in Txn
      /\ [t EXCEPT !.approved = TRUE, !.released = c].next = t.next
      /\ [t EXCEPT !.approved = FALSE] \in Txn
      /\ [t EXCEPT !.installed = c] \in Txn
  BY DEF Txn
<1>4. /\ [t EXCEPT !.next = None] \in Txn
      /\ [t EXCEPT !.journal = None] \in Txn
      /\ [t EXCEPT !.lease = FALSE] \in Txn
  BY DEF Txn
<1> QED
  BY <1>1, <1>2, <1>3, <1>4

LEMMA ConsentType ==
  ASSUME force \in BOOLEAN PROVE Consent \in BOOLEAN
  BY DEF Consent

LEMMA DisturbedType ==
  ASSUME txn \in Txn
  PROVE  Disturbed \in Txn /\ Disturbed.next = txn.next
  BY DEF Disturbed, Txn

(* The types, with the one fact they rest on: from publication to install,  *)
(* the staged file is there.                                               *)
Staged == pc \in {"quarantine", "judge", "install", "recoverInstall"} => txn.next # None
TypeInv == TypeOK /\ Staged

LEMMA TypeInvInit == Init => TypeInv
<1> SUFFICES ASSUME Init PROVE TypeInv
  OBVIOUS
<1>1. leaf \in File \cup {None}
  BY DEF Init, File
<1>2. txn \in Txn
  BY TxnTypes DEF Init
<1> QED
  BY <1>1, <1>2 DEF Init, TypeInv, TypeOK, Staged, Phases, Outcomes

LEMMA TxnStep ==
  ASSUME TypeInv, [Next]_vars
  PROVE  txn' \in Txn /\ Staged'
<1>t. txn \in Txn /\ leaf \in File \cup {None} /\ force \in BOOLEAN /\ new \in Bytes \cup {None}
  BY BytesAssumption DEF TypeInv, TypeOK
<1>s. Staged
  BY DEF TypeInv
<1>1. CASE Begin
  BY <1>t, <1>s, <1>1 DEF Begin, Start, disk, Staged
<1>2. CASE RecordRecovered
  BY <1>t, <1>s, <1>2 DEF RecordRecovered, disk, Staged
<1>3. CASE SaveRecovered
  BY <1>t, <1>s, <1>3 DEF SaveRecovered, disk, Staged
<1>4. CASE CloseRecovered
  BY <1>t, <1>s, <1>4 DEF CloseRecovered, disk, Staged
<1>5. CASE OpenJournal
  BY <1>t, <1>s, <1>5 DEF OpenJournal, disk, Staged
<1>6. CASE RecoverNone
  BY <1>t, <1>s, <1>6 DEF RecoverNone, Recovering, disk, Staged
<1>7. CASE RecoverBuilding
  BY <1>t, <1>s, <1>7, TxnTypes DEF RecoverBuilding, Recovering, Staged
<1>8. CASE RecoverResidue
  BY <1>t, <1>s, <1>8 DEF RecoverResidue, Recovering, disk, Staged
<1>9. CASE RecoverInstalled
  BY <1>t, <1>s, <1>9 DEF RecoverInstalled, Readables, Recovering, disk, Staged
<1>10. CASE RecoverToInstall
  BY <1>t, <1>s, <1>10 DEF RecoverToInstall, Readables, Recovering, disk, Staged
<1>11. CASE RecoverToMark
  BY <1>t, <1>s, <1>11 DEF RecoverToMark, Readables, Recovering, disk, Staged
<1>12. CASE RecoverDuplicate
  BY <1>t, <1>s, <1>12, TxnUpdates DEF RecoverDuplicate, Readables, Recovering, Staged
<1>13. CASE RecoverToRestore
  BY <1>t, <1>s, <1>13 DEF RecoverToRestore, Readables, Recovering, disk, Staged
<1>14. CASE RecoverNothing
  BY <1>t, <1>s, <1>14 DEF RecoverNothing, Readables, Recovering, disk, Staged
<1>15. CASE RecoverConflict
  BY <1>t, <1>s, <1>15 DEF RecoverConflict, Stop, Forget, disk, Staged
<1>16. CASE RecoverInstall
  BY <1>t, <1>s, <1>16, TxnUpdates DEF RecoverInstall, Staged
<1>17. CASE RecoverMark
  BY <1>t, <1>s, <1>17, TxnUpdates DEF RecoverMark, Staged
<1>18. CASE RecoverRestore
  BY <1>t, <1>s, <1>18, TxnUpdates DEF RecoverRestore, Staged
<1>19. CASE RecoverBlocked
  BY <1>t, <1>s, <1>19 DEF RecoverBlocked, Stop, Forget, disk, Staged
<1>20. CASE CleanupStep
  <2>1. pc' = "cleanup"
    BY <1>20 DEF CleanupStep
  <2>2. CASE RemovePrevious
    BY <1>t, <2>1, <2>2, TxnUpdates DEF RemovePrevious, Staged
  <2>3. CASE RemoveNext
    BY <1>t, <2>1, <2>3, TxnUpdates DEF RemoveNext, Staged
  <2>4. CASE RemoveApproved
    BY <1>t, <2>1, <2>4, TxnUpdates DEF RemoveApproved, Staged
  <2>5. CASE RemoveInstalled
    BY <1>t, <2>1, <2>5, TxnUpdates DEF RemoveInstalled, Staged
  <2>6. CASE RemoveJournal
    BY <1>t, <2>1, <2>6, TxnUpdates DEF RemoveJournal, Staged
  <2>7. CASE RemoveLease
    BY <1>t, <2>1, <2>7, TxnUpdates DEF RemoveLease, Staged
  <2> QED
    BY <1>20, <2>1, <2>2, <2>3, <2>4, <2>5, <2>6, <2>7 DEF CleanupStep, Staged
<1>21. CASE CleanupDone
  BY <1>t, <1>s, <1>21, TxnTypes DEF CleanupDone, Staged
<1>22. CASE ReadCurrent
  BY <1>t, <1>s, <1>22 DEF ReadCurrent, disk, Staged
<1>23. CASE KeepUnchanged
  BY <1>t, <1>s, <1>23 DEF KeepUnchanged, disk, Staged
<1>24. CASE Protect
  BY <1>t, <1>s, <1>24 DEF Protect, disk, Staged
<1>25. CASE BeginWrite
  BY <1>t, <1>s, <1>25, TxnTypes DEF BeginWrite, Staged
<1>26. CASE BeginPrune
  BY <1>t, <1>s, <1>26, TxnTypes DEF BeginPrune, Staged
<1>27. CASE Publish
  <2> DEFINE b == IF new = None THEN EmptyBytes ELSE new
  <2>1. b \in Bytes
    BY <1>t, BytesAssumption
  <2>2. txn' = Published(b)
    BY <1>27 DEF Publish
  <2>3. Published(b).next = b
    BY DEF Published, Building, NoTxn
  <2> QED
    BY <2>1, <2>2, <2>3, TxnTypes, BytesAssumption DEF Staged
<1>28. CASE Quarantine
  BY <1>t, <1>s, <1>28, TxnUpdates DEF Quarantine, Staged
<1>29. CASE Approve
  BY <1>t, <1>s, <1>29, TxnUpdates, ConsentType DEF Approve, Staged
<1>30. CASE GiveBack
  BY <1>t, <1>s, <1>30 DEF GiveBack, disk, Staged
<1>31. CASE Restore
  BY <1>t, <1>s, <1>31, TxnUpdates DEF Restore, Staged
<1>32. CASE RestoreBlocked
  BY <1>t, <1>s, <1>32 DEF RestoreBlocked, Stop, Forget, disk, Staged
<1>33. CASE Install
  BY <1>t, <1>s, <1>33, TxnUpdates DEF Install, Staged
<1>34. CASE InstallFails
  BY <1>t, <1>s, <1>34, TxnUpdates DEF InstallFails, Stop, Forget, Staged
<1>35. CASE Undo
  BY <1>t, <1>s, <1>35, TxnUpdates DEF Undo, Stop, Forget, Staged, disk
<1>36. CASE MarkFails
  BY <1>t, <1>s, <1>36, TxnUpdates DEF MarkFails, Stop, Forget, Staged
<1>37. CASE Mark
  BY <1>t, <1>s, <1>37, TxnUpdates DEF Mark, Staged
<1>38. CASE JudgeStale
  <2>1. txn' = txn \/ txn' = [txn EXCEPT !.released = Consent]
    BY <1>38 DEF JudgeStale
  <2>2. pc' \in {"cleanup", "giveBack"}
    BY <1>38 DEF JudgeStale
  <2> QED
    BY <1>t, <2>1, <2>2, TxnUpdates, ConsentType DEF Staged
<1>39. CASE GiveUp
  BY <1>t, <1>s, <1>39 DEF GiveUp, Stop, Forget, disk, Staged
<1>40. CASE Settle
  BY <1>t, <1>s, <1>40 DEF Settle, disk, Staged
<1>41. CASE Save
  BY <1>t, <1>s, <1>41 DEF Save, disk, Staged
<1>42. CASE Finish
  BY <1>t, <1>s, <1>42 DEF Finish, Stop, Forget, disk, Staged
<1>43. CASE User
  BY <1>t, <1>s, <1>43, DisturbedType DEF User, UserWrite, UserDelete, Staged
<1>44. CASE Crash
  BY <1>t, <1>s, <1>44 DEF Crash, Stop, Forget, disk, Staged
<1>45. CASE CrashInMove
  <2>1. pc' = "idle"
    BY <1>45 DEF CrashInMove, Stop
  <2>2. txn' = txn \/ txn' = [txn EXCEPT !.previous = leaf]
    BY <1>45 DEF CrashInMove
  <2>3. [txn EXCEPT !.previous = leaf] \in Txn
    BY <1>t, TxnUpdates
  <2> QED
    BY <1>t, <2>1, <2>2, <2>3 DEF Staged
<1>46. CASE BecomeQuiet
  BY <1>t, <1>s, <1>46 DEF BecomeQuiet, disk, Staged
<1>47. CASE UNCHANGED vars
  BY <1>t, <1>s, <1>47 DEF vars, disk, Staged
<1> QED
  BY <1>1, <1>2, <1>3, <1>4, <1>5, <1>6, <1>7, <1>8, <1>9, <1>10, <1>11, <1>12, <1>13, <1>14,
     <1>15, <1>16, <1>17, <1>18, <1>19, <1>20, <1>21, <1>22, <1>23, <1>24, <1>25, <1>26, <1>27,
     <1>28, <1>29, <1>30, <1>31, <1>32, <1>33, <1>34, <1>35, <1>36, <1>37, <1>38, <1>39, <1>40,
     <1>41, <1>42, <1>43, <1>44, <1>45, <1>46, <1>47 DEF Next, Generate, Recover

LEMMA TypeInvStep == TypeInv /\ [Next]_vars => TypeInv'
<1> SUFFICES ASSUME TypeInv, [Next]_vars PROVE TypeInv'
  OBVIOUS
<1>t. txn' \in Txn /\ Staged'
  BY TxnStep
<1>f. /\ txn.journal \in Bytes \cup {None}
      /\ txn.next \in Bytes \cup {None}
      /\ txn.previous \in File \cup {None}
  BY TxnFields DEF TypeInv, TypeOK
<1> USE BytesAssumption, NoneAssumption, <1>t
    DEF TypeInv, TypeOK, Phases, Outcomes, disk, state, memory
<1>1. CASE Begin
  BY <1>1 DEF Begin, Start
<1>2. CASE RecordRecovered
  BY <1>f, <1>2 DEF RecordRecovered, Holds, File
<1>3. CASE SaveRecovered
  BY <1>3 DEF SaveRecovered
<1>4. CASE CloseRecovered
  BY <1>4 DEF CloseRecovered
<1>5. CASE OpenJournal
  BY <1>5 DEF OpenJournal
<1>6. CASE RecoverNone
  BY <1>6 DEF RecoverNone, Recovering
<1>7. CASE RecoverBuilding
  BY <1>7 DEF RecoverBuilding, Recovering
<1>8. CASE RecoverResidue
  BY <1>8 DEF RecoverResidue, Recovering
<1>9. CASE RecoverInstalled
  BY <1>f, <1>9 DEF RecoverInstalled, Readables, Recovering
<1>10. CASE RecoverToInstall
  BY <1>10 DEF RecoverToInstall, Readables, Recovering
<1>11. CASE RecoverToMark
  BY <1>11 DEF RecoverToMark, Readables, Recovering
<1>12. CASE RecoverDuplicate
  BY <1>12 DEF RecoverDuplicate, Readables, Recovering
<1>13. CASE RecoverToRestore
  BY <1>13 DEF RecoverToRestore, Readables, Recovering
<1>14. CASE RecoverNothing
  BY <1>14 DEF RecoverNothing, Readables, Recovering
<1>15. CASE RecoverConflict
  BY <1>15 DEF RecoverConflict, Stop, Forget
<1>16. CASE RecoverInstall
  BY <1>f, <1>16 DEF RecoverInstall, File, Staged
<1>17. CASE RecoverMark
  BY <1>f, <1>17 DEF RecoverMark
<1>18. CASE RecoverRestore
  BY <1>f, <1>18 DEF RecoverRestore
<1>19. CASE RecoverBlocked
  BY <1>19 DEF RecoverBlocked, Stop, Forget
<1>20. CASE CleanupStep
  BY <1>20 DEF CleanupStep
<1>21. CASE CleanupDone
  BY <1>21 DEF CleanupDone
<1>22. CASE ReadCurrent
  BY <1>22 DEF ReadCurrent
<1>23. CASE KeepUnchanged
  BY <1>23 DEF KeepUnchanged
<1>24. CASE Protect
  BY <1>24 DEF Protect
<1>25. CASE BeginWrite
  BY <1>25 DEF BeginWrite
<1>26. CASE BeginPrune
  BY <1>26 DEF BeginPrune
<1>27. CASE Publish
  BY <1>27 DEF Publish
<1>28. CASE Quarantine
  BY <1>28 DEF Quarantine
<1>29. CASE Approve
  BY <1>29 DEF Approve
<1>30. CASE GiveBack
  BY <1>30 DEF GiveBack
<1>31. CASE Restore
  BY <1>f, <1>31 DEF Restore
<1>32. CASE RestoreBlocked
  BY <1>32 DEF RestoreBlocked, Stop, Forget
<1>33. CASE Install
  BY <1>f, <1>33 DEF Install, File, Staged
<1>34. CASE InstallFails
  <2>1. CASE txn.previous # None
    BY <1>34, <2>1 DEF InstallFails
  <2>2. CASE txn.previous = None
    BY <1>34, <2>2 DEF InstallFails, Stop, Forget
  <2> QED
    BY <2>1, <2>2
<1>35. CASE Undo
  BY <1>f, <1>35 DEF Undo, Stop, Forget
<1>36. CASE MarkFails
  <2>1. CASE txn.previous # None
    BY <1>36, <2>1 DEF MarkFails
  <2>2. CASE txn.previous = None
    BY <1>36, <2>2 DEF MarkFails, Stop, Forget
  <2> QED
    BY <2>1, <2>2
<1>37. CASE Mark
  BY <1>37 DEF Mark
<1>38. CASE JudgeStale
  BY <1>38 DEF JudgeStale
<1>39. CASE GiveUp
  BY <1>39 DEF GiveUp, Stop, Forget
<1>40. CASE Settle
  BY <1>40 DEF Settle
<1>41. CASE Save
  BY <1>41 DEF Save
<1>42. CASE Finish
  BY <1>42 DEF Finish, Stop, Forget
<1>43. CASE User
  BY <1>43 DEF User, UserWrite, UserDelete, File
<1>44. CASE Crash
  BY <1>44 DEF Crash, Stop, Forget
<1>45. CASE CrashInMove
  <2>1. leaf' \in File \cup {None}
    <3>1. leaf' \in {leaf, txn.previous, [bytes |-> txn.next, by |-> "gnr8"]}
      BY <1>45 DEF CrashInMove
    <3>2. leaf' = [bytes |-> txn.next, by |-> "gnr8"] => leaf' = leaf \/ leaf' = txn.previous \/ txn.next # None
      BY <1>45 DEF CrashInMove, Staged
    <3> QED
      BY <1>f, <3>1, <3>2 DEF File
  <2> QED
    BY <1>45, <2>1 DEF CrashInMove, Stop, Forget
<1>46. CASE BecomeQuiet
  BY <1>46 DEF BecomeQuiet
<1>47. CASE UNCHANGED vars
  BY <1>47 DEF vars
<1> QED
  BY <1>1, <1>2, <1>3, <1>4, <1>5, <1>6, <1>7, <1>8, <1>9, <1>10, <1>11, <1>12, <1>13, <1>14,
     <1>15, <1>16, <1>17, <1>18, <1>19, <1>20, <1>21, <1>22, <1>23, <1>24, <1>25, <1>26, <1>27,
     <1>28, <1>29, <1>30, <1>31, <1>32, <1>33, <1>34, <1>35, <1>36, <1>37, <1>38, <1>39, <1>40,
     <1>41, <1>42, <1>43, <1>44, <1>45, <1>46, <1>47 DEF Next, Generate, Recover

(* Every variable keeps its type, whatever the contents are. *)
THEOREM TypeCorrect == Spec => []TypeOK
<1>1. TypeInv => TypeOK
  BY DEF TypeInv
<1> QED
  BY TypeInvInit, TypeInvStep, <1>1, PTL DEF Spec

(***************************************************************************)
(* No user file is lost.  A file set aside is discarded by a cleanup, so   *)
(* consent must precede every cleanup; and a file may be set aside only    *)
(* where none is, or the earlier one would be lost.                        *)
(***************************************************************************)
NothingSetAside ==
  /\ pc \in {"recovered", "classify", "publish", "quarantine"} => txn.previous = None
  /\ txn.dir # "txn" => txn.previous = None

Decided ==
  /\ pc = "quarantine" => txn.dir = "txn" /\ ~txn.approved /\ ~txn.installed
  /\ pc \in {"install", "mark", "recoverInstall", "recoverMark"} => txn.approved

(* Consent precedes every step from which a transaction goes forward: once   *)
(* the replacement is approved or installed, or the files of the           *)
(* transaction are being removed, a user's file set aside in it may be     *)
(* discarded.                                                              *)
ConsentBeforeDiscard ==
  UserFile(txn.previous) /\ (txn.approved \/ txn.installed \/ pc = "cleanup") =>
    txn.released

SafeInv == ConsentBeforeDiscard /\ NothingSetAside /\ Decided

LEMMA SafeInvInit == Init => SafeInv
  BY DEF Init, SafeInv, ConsentBeforeDiscard, NothingSetAside, Decided, NoTxn, UserFile

LEMMA SafeInvStep ==
  ASSUME TypeInv, SafeInv, [Next]_vars
  PROVE  SafeInv'
<1> USE DEF SafeInv, ConsentBeforeDiscard, NothingSetAside, Decided, UserFile, disk
<1>t. txn \in Txn
  BY DEF TypeInv, TypeOK
<1> USE <1>t DEF Txn
<1>1. CASE Begin
  BY <1>1 DEF Begin, Start
<1>2. CASE RecordRecovered
  BY <1>2 DEF RecordRecovered
<1>3. CASE SaveRecovered
  BY <1>3 DEF SaveRecovered
<1>4. CASE CloseRecovered
  BY <1>4 DEF CloseRecovered
<1>5. CASE OpenJournal
  BY <1>5 DEF OpenJournal
<1>6. CASE RecoverNone
  BY <1>6 DEF RecoverNone, Recovering
<1>7. CASE RecoverBuilding
  BY <1>7 DEF RecoverBuilding, Recovering, NoTxn
<1>8. CASE RecoverResidue
  BY <1>8 DEF RecoverResidue, Recovering, Residue
<1>9. CASE RecoverInstalled
  BY <1>9 DEF RecoverInstalled, Readables, Recovering
<1>10. CASE RecoverToInstall
  BY <1>10 DEF RecoverToInstall, Readables, Recovering
<1>11. CASE RecoverToMark
  BY <1>11 DEF RecoverToMark, Readables, Recovering
<1>12. CASE RecoverDuplicate
  BY <1>12 DEF RecoverDuplicate, Readables, Recovering
<1>13. CASE RecoverToRestore
  BY <1>13 DEF RecoverToRestore, Readables, Recovering
<1>14. CASE RecoverNothing
  BY <1>14 DEF RecoverNothing, Readables, Recovering
<1>15. CASE RecoverConflict
  BY <1>15 DEF RecoverConflict, Stop, Forget
<1>16. CASE RecoverInstall
  BY <1>16 DEF RecoverInstall
<1>17. CASE RecoverMark
  BY <1>17 DEF RecoverMark
<1>18. CASE RecoverRestore
  BY <1>18 DEF RecoverRestore
<1>19. CASE RecoverBlocked
  BY <1>19 DEF RecoverBlocked, Stop, Forget
<1>20. CASE CleanupStep
  BY <1>20 DEF CleanupStep, RemovePrevious, RemoveNext, RemoveApproved, RemoveInstalled,
     RemoveJournal, RemoveLease, Residue
<1>21. CASE CleanupDone
  BY <1>21 DEF CleanupDone, Residue, NoTxn
<1>22. CASE ReadCurrent
  BY <1>22 DEF ReadCurrent
<1>23. CASE KeepUnchanged
  BY <1>23 DEF KeepUnchanged
<1>24. CASE Protect
  BY <1>24 DEF Protect
<1>25. CASE BeginWrite
  BY <1>25 DEF BeginWrite, Building, NoTxn
<1>26. CASE BeginPrune
  BY <1>26 DEF BeginPrune, Building, NoTxn
<1>27. CASE Publish
  BY <1>27 DEF Publish, Published, Building, NoTxn
<1>28. CASE Quarantine
  BY <1>28 DEF Quarantine
<1>29. CASE Approve
  BY <1>29 DEF Approve, Consent, Writable, Holds
<1>30. CASE GiveBack
  BY <1>30 DEF GiveBack
<1>31. CASE Restore
  BY <1>31 DEF Restore
<1>32. CASE RestoreBlocked
  BY <1>32 DEF RestoreBlocked, Stop, Forget
<1>33. CASE Install
  BY <1>33 DEF Install
<1>34. CASE InstallFails
  BY <1>34 DEF InstallFails, Stop, Forget
<1>35. CASE Undo
  BY <1>35 DEF Undo, Stop, Forget
<1>36. CASE MarkFails
  BY <1>36 DEF MarkFails, Stop, Forget
<1>37. CASE Mark
  BY <1>37 DEF Mark
<1>38. CASE JudgeStale
  BY <1>38 DEF JudgeStale, Consent, Holds
<1>39. CASE GiveUp
  BY <1>39 DEF GiveUp, Stop, Forget
<1>40. CASE Settle
  BY <1>40 DEF Settle
<1>41. CASE Save
  BY <1>41 DEF Save
<1>42. CASE Finish
  BY <1>42 DEF Finish, Stop, Forget
<1>43. CASE User
  BY <1>43 DEF User, UserWrite, UserDelete, Disturbed
<1>44. CASE Crash
  BY <1>44 DEF Crash, Stop, Forget
<1>45. CASE CrashInMove
  BY <1>45 DEF CrashInMove, Stop, Forget
<1>46. CASE BecomeQuiet
  BY <1>46 DEF BecomeQuiet
<1>47. CASE UNCHANGED vars
  BY <1>47 DEF vars
<1> QED
  BY <1>1, <1>2, <1>3, <1>4, <1>5, <1>6, <1>7, <1>8, <1>9, <1>10, <1>11, <1>12, <1>13, <1>14,
     <1>15, <1>16, <1>17, <1>18, <1>19, <1>20, <1>21, <1>22, <1>23, <1>24, <1>25, <1>26, <1>27,
     <1>28, <1>29, <1>30, <1>31, <1>32, <1>33, <1>34, <1>35, <1>36, <1>37, <1>38, <1>39, <1>40,
     <1>41, <1>42, <1>43, <1>44, <1>45, <1>46, <1>47 DEF Next, Generate, Recover

Preserves ==
  /\ UserFile(leaf) => Kept(leaf)
  /\ UserFile(txn.previous) => Kept(txn.previous) \/ txn.released

LEMMA StepPreserves ==
  ASSUME TypeInv, SafeInv, [Next]_vars
  PROVE  User \/ Preserves
<1> USE DEF SafeInv, ConsentBeforeDiscard, NothingSetAside, Preserves, Kept, UserFile, disk
<1>t. txn \in Txn
  BY DEF TypeInv, TypeOK
<1> USE <1>t DEF Txn
<1>1. CASE Begin
  BY <1>1 DEF Begin, Start
<1>2. CASE RecordRecovered
  BY <1>2 DEF RecordRecovered
<1>3. CASE SaveRecovered
  BY <1>3 DEF SaveRecovered
<1>4. CASE CloseRecovered
  BY <1>4 DEF CloseRecovered
<1>5. CASE OpenJournal
  BY <1>5 DEF OpenJournal
<1>6. CASE RecoverNone
  BY <1>6 DEF RecoverNone, Recovering
<1>7. CASE RecoverBuilding
  BY <1>7 DEF RecoverBuilding, Recovering, NoTxn
<1>8. CASE RecoverResidue
  BY <1>8 DEF RecoverResidue, Recovering, Residue
<1>9. CASE RecoverInstalled
  BY <1>9 DEF RecoverInstalled, Readables, Recovering
<1>10. CASE RecoverToInstall
  BY <1>10 DEF RecoverToInstall, Readables, Recovering
<1>11. CASE RecoverToMark
  BY <1>11 DEF RecoverToMark, Readables, Recovering
<1>12. CASE RecoverDuplicate
  BY <1>12 DEF RecoverDuplicate, Readables, Recovering
<1>13. CASE RecoverToRestore
  BY <1>13 DEF RecoverToRestore, Readables, Recovering
<1>14. CASE RecoverNothing
  BY <1>14 DEF RecoverNothing, Readables, Recovering
<1>15. CASE RecoverConflict
  BY <1>15 DEF RecoverConflict, Stop, Forget
<1>16. CASE RecoverInstall
  BY <1>16 DEF RecoverInstall
<1>17. CASE RecoverMark
  BY <1>17 DEF RecoverMark
<1>18. CASE RecoverRestore
  BY <1>18 DEF RecoverRestore
<1>19. CASE RecoverBlocked
  BY <1>19 DEF RecoverBlocked, Stop, Forget
<1>20. CASE CleanupStep
  BY <1>20 DEF CleanupStep, RemovePrevious, RemoveNext, RemoveApproved, RemoveInstalled,
     RemoveJournal, RemoveLease, Residue
<1>21. CASE CleanupDone
  BY <1>21 DEF CleanupDone, Residue, NoTxn
<1>22. CASE ReadCurrent
  BY <1>22 DEF ReadCurrent
<1>23. CASE KeepUnchanged
  BY <1>23 DEF KeepUnchanged
<1>24. CASE Protect
  BY <1>24 DEF Protect
<1>25. CASE BeginWrite
  BY <1>25 DEF BeginWrite, Building, NoTxn
<1>26. CASE BeginPrune
  BY <1>26 DEF BeginPrune, Building, NoTxn
<1>27. CASE Publish
  BY <1>27 DEF Publish, Published, Building, NoTxn
<1>28. CASE Quarantine
  BY <1>28 DEF Quarantine
<1>29. CASE Approve
  BY <1>29 DEF Approve, Consent, Writable, Holds
<1>30. CASE GiveBack
  BY <1>30 DEF GiveBack
<1>31. CASE Restore
  BY <1>31 DEF Restore
<1>32. CASE RestoreBlocked
  BY <1>32 DEF RestoreBlocked, Stop, Forget
<1>33. CASE Install
  BY <1>33 DEF Install
<1>34. CASE InstallFails
  BY <1>34 DEF InstallFails, Stop, Forget
<1>35. CASE Undo
  BY <1>35 DEF Undo, Stop, Forget
<1>36. CASE MarkFails
  BY <1>36 DEF MarkFails, Stop, Forget
<1>37. CASE Mark
  BY <1>37 DEF Mark
<1>38. CASE JudgeStale
  BY <1>38 DEF JudgeStale, Consent, Holds
<1>39. CASE GiveUp
  BY <1>39 DEF GiveUp, Stop, Forget
<1>40. CASE Settle
  BY <1>40 DEF Settle
<1>41. CASE Save
  BY <1>41 DEF Save
<1>42. CASE Finish
  BY <1>42 DEF Finish, Stop, Forget
<1>43. CASE User
  BY <1>43 DEF User, UserWrite, UserDelete, Disturbed
<1>44. CASE Crash
  BY <1>44 DEF Crash, Stop, Forget
<1>45. CASE CrashInMove
  BY <1>45 DEF CrashInMove, Stop, Forget
<1>46. CASE BecomeQuiet
  BY <1>46 DEF BecomeQuiet
<1>47. CASE UNCHANGED vars
  BY <1>47 DEF vars
<1> QED
  BY <1>1, <1>2, <1>3, <1>4, <1>5, <1>6, <1>7, <1>8, <1>9, <1>10, <1>11, <1>12, <1>13, <1>14,
     <1>15, <1>16, <1>17, <1>18, <1>19, <1>20, <1>21, <1>22, <1>23, <1>24, <1>25, <1>26, <1>27,
     <1>28, <1>29, <1>30, <1>31, <1>32, <1>33, <1>34, <1>35, <1>36, <1>37, <1>38, <1>39, <1>40,
     <1>41, <1>42, <1>43, <1>44, <1>45, <1>46, <1>47 DEF Next, Generate, Recover

(* Whatever the contents, the crashes and the edits, no step of the program  *)
(* loses a file the user wrote.                                            *)
THEOREM UserFilesSurvive == Spec => NoUserDataLoss
<1>1. TypeInv /\ SafeInv /\ [Next]_vars => [User \/ Preserves]_vars
  BY StepPreserves
<1> QED
  BY TypeInvInit, TypeInvStep, SafeInvInit, SafeInvStep, <1>1, PTL
  DEF Spec, NoUserDataLoss, Preserves

(***************************************************************************)
(* Recovery.  Where a generation is fixes what its transaction holds       *)
(* (Shape), which hashes may be recorded (Hashes), which record names an   *)
(* output of gnr8's own (Known), and what a transaction that nobody        *)
(* disturbed looks like (Undisturbed).                                     *)
(***************************************************************************)
Journalled == journal # None /\ journal.hash # None

RecoverySteps == {"recover", "recoverInstall", "recoverMark", "recoverRestore"}
ReopenSteps   == {"saveRecovered", "closeJournal", "open"}
OpenSteps     == {"quarantine", "judge", "judgeStale", "install", "mark", "undo", "giveBack"}
WriteSteps    == OpenSteps \cup {"classify", "publish", "settle", "save", "finish"}
BareSteps     == ReopenSteps \cup {"recovered", "classify", "settle", "save", "finish"}

(* Which transaction a place in the generation goes with.                  *)
Shape ==
  /\ txn.dir = "none" => txn = NoTxn
  /\ txn.dir = "building" => txn = Building
  /\ txn.dir = "txn" => Readable \/ Residue
  /\ pc \in OpenSteps \cup {"recoverInstall", "recoverMark", "recoverRestore"} => Readable
  /\ pc \in BareSteps => txn = NoTxn
  /\ pc = "publish" => txn = Building
  /\ pc = "cleanup" => txn.dir = "txn" /\ (phase = "journal" <=> outcome = "running")
  /\ pc \in {"judge", "judgeStale", "giveBack"} => ~txn.approved /\ ~txn.installed

(* Which phase, outcome and plan a place goes with.                        *)
Phasing ==
  /\ pc \in {"idle"} \cup ReopenSteps \cup (RecoverySteps \ {"recover"}) => phase = "journal"
  /\ pc \in WriteSteps => phase = "write"
  /\ pc = "recover" /\ phase = "write" => txn = NoTxn
  /\ pc \in {"recovered"} \cup RecoverySteps \cup ReopenSteps => outcome = "running"
  /\ pc = "giveBack" => outcome \in {"unchanged", "skipped", "error"}
  /\ pc \in {"classify", "judge", "install", "mark"} => new # None
  /\ pc = "judgeStale" => new = None

(* While a transaction may be open, a journal names the output.             *)
Named ==
  /\ txn # NoTxn => Journalled
  /\ pc \in RecoverySteps \cup {"recovered"} => Journalled
  /\ pc \in {"saveRecovered", "closeJournal"} => journal # None
  /\ pc # "idle" /\ phase = "write" /\ pc # "finish" =>
       journal = [hash |-> IF new # None THEN new ELSE manifest]

(* A transaction stages what the generation plans, and is decided only     *)
(* under a journal that names the same bytes.                              *)
Planned ==
  /\ pc = "quarantine" => txn.journal = IF new = None THEN EmptyBytes ELSE new
  /\ pc = "judge" => txn.journal = new
  /\ txn.next # None => txn.next = txn.journal
  /\ txn.approved \/ txn.installed => Journalled /\ txn.journal = journal.hash

(* Every recorded hash is one the pipeline produced.                       *)
Hashes ==
  /\ {manifest, owned, recovered} \subseteq Generated \cup {None}
  /\ journal # None => journal.hash \in Generated \cup {None}

ShapeInv == Shape /\ Phasing /\ Named /\ Planned /\ Hashes

Own(f) == f # None /\ f.by = "gnr8"

KnownAs(f) == Own(f) => manifest = f.bytes \/ (journal # None /\ journal.hash = f.bytes)

(* An output of gnr8's, in place or set aside, is named by the manifest or *)
(* the journal, and by the manifest alone once the journal is to go.       *)
Remembered ==
  /\ KnownAs(leaf) /\ KnownAs(txn.previous)
  /\ pc \in ReopenSteps \ {"saveRecovered"} /\ Own(leaf) => manifest = leaf.bytes
  /\ pc = "saveRecovered" /\ Own(leaf) => owned = leaf.bytes
  /\ pc = "finish" /\ Own(leaf) => manifest = leaf.bytes
  /\ pc = "save" /\ Own(leaf) => new # None /\ owned = leaf.bytes

(* What recovery learned agrees with the output, unless the user wrote it. *)
RecoveryKnows ==
  /\ pc \in RecoverySteps => recovered = None
  /\ phase = "write" => recovered = None
  /\ pc \in RecoverySteps \cup {"recovered"} => owned = manifest
  /\ pc = "cleanup" => owned = manifest
  /\ phase = "journal" /\ recovered # None /\ Own(leaf) => leaf.bytes = recovered
  /\ pc = "recoverMark" /\ Own(leaf) => leaf.bytes = txn.journal

(* The same of the write pass, from its read of the output to its decision. *)
WriteKnows ==
  /\ pc \in WriteSteps \ {"save", "finish"} => owned = manifest
  /\ /\ phase = "write" /\ Own(leaf)
     /\ pc \in {"recover", "recovered", "classify", "publish", "quarantine"}
     => leaf.bytes = manifest
  /\ pc = "classify" => (Own(leaf) => leaf = seen) /\ (Own(seen) => seen.bytes = manifest)
  /\ pc \in {"judge", "judgeStale", "giveBack"} =>
       ~Own(leaf) /\ (Own(txn.previous) => txn.previous.bytes = manifest)
  /\ pc = "install" => ~Own(leaf)
  /\ pc = "mark" /\ Own(leaf) => leaf.bytes = new
  /\ pc = "giveBack" => txn.previous # None
  /\ pc = "giveBack" /\ outcome = "unchanged" => new # None /\ txn.previous.bytes = new
  /\ pc = "giveBack" /\ outcome = "skipped" => ~Own(txn.previous)

(* Before it is recorded: an output of gnr8's holds what was planned.      *)
Ending ==
  pc \in {"cleanup", "settle"} /\ phase = "write" /\ Own(leaf) /\ outcome # "error" =>
    outcome \in {"written", "unchanged"} /\ new # None /\ leaf.bytes = new

KnownInv == Remembered /\ RecoveryKnows /\ WriteKnows /\ Ending

(* While nobody touches the output, recovery can tell what to do: an       *)
(* installed output holds the staged bytes, an approved one can be         *)
(* installed or was, and an undecided one is set aside or in place again.  *)
Undisturbed ==
  txn.dir = "txn" /\ ~txn.disturbed =>
    /\ txn.installed => IsNext
    /\ txn.approved /\ ~txn.installed => (leaf = None /\ txn.next # None) \/ IsNext
    /\ ~txn.approved /\ ~txn.installed /\ txn.previous # None /\ leaf # None => IsPrevious
    /\ pc \in {"mark", "recoverMark"} => IsNext
    /\ pc \in {"judge", "judgeStale"} => leaf = None
    /\ pc = "recoverRestore" => ~txn.approved /\ ~txn.installed
    /\ pc = "cleanup" /\ txn.approved => txn.installed
    /\ pc # "undo"

UndisturbedInv ==
  /\ Undisturbed
  /\ outcome = "conflict" => pc = "idle" /\ txn.disturbed

(* The fields of the constant transactions, and those an action keeps.     *)
LEMMA TxnValues ==
  /\ NoTxn.dir = "none" /\ ~NoTxn.lease /\ NoTxn.journal = None /\ NoTxn.next = None
  /\ NoTxn.previous = None /\ ~NoTxn.approved /\ ~NoTxn.installed /\ ~NoTxn.released /\ ~NoTxn.disturbed
  /\ Building.dir = "building" /\ Building.lease /\ Building.journal = None /\ Building.next = None
  /\ Building.previous = None /\ ~Building.approved /\ ~Building.installed /\ ~Building.released /\ ~Building.disturbed
  /\ NoTxn # Building
  /\ \A b : /\ Published(b).dir = "txn" /\ Published(b).lease /\ Published(b).journal = b /\ Published(b).next = b
            /\ Published(b).previous = None /\ ~Published(b).approved /\ ~Published(b).installed /\ ~Published(b).released /\ ~Published(b).disturbed
  BY DEF NoTxn, Building, Published

LEMMA DisturbedFields ==
  ASSUME txn \in Txn
  PROVE  /\ Disturbed.dir = txn.dir /\ Disturbed.lease = txn.lease /\ Disturbed.journal = txn.journal
         /\ Disturbed.next = txn.next /\ Disturbed.previous = txn.previous
         /\ Disturbed.approved = txn.approved /\ Disturbed.installed = txn.installed
         /\ Disturbed.released = txn.released
         /\ Disturbed.disturbed = (txn.disturbed \/ txn.dir = "txn")
         /\ txn.dir # "txn" => Disturbed = txn
<1>1. txn.dir # "txn" => Disturbed = txn
  BY DEF Disturbed, Txn
<1> QED
  BY <1>1 DEF Disturbed, Txn

LEMMA UndoFields ==
  ASSUME txn \in Txn, Undo
  PROVE  /\ txn'.dir = txn.dir /\ txn'.lease = txn.lease /\ txn'.journal = txn.journal
         /\ txn'.next = txn.next /\ txn'.approved = txn.approved /\ txn'.installed = txn.installed
         /\ txn'.disturbed = txn.disturbed /\ txn'.previous \in {None, txn.previous}
<1>1. txn' = txn \/ txn' = [txn EXCEPT !.previous = None, !.released = FALSE]
  BY DEF Undo, disk
<1> QED
  BY <1>1 DEF Txn

(* Each step keeps the shape: one case per action.                           *)
LEMMA ShapeStep ==
  ASSUME TypeInv, SafeInv, ShapeInv, [Next]_vars
  PROVE  Shape' /\ Phasing' /\ Named'
<1>t. /\ txn \in Txn /\ pc \in Phases /\ outcome \in Outcomes /\ new \in Bytes \cup {None}
      /\ phase \in {"journal", "write"} /\ manifest \in Bytes \cup {None}
  BY BytesAssumption DEF TypeInv, TypeOK
<1>v. txn.dir \in {"none", "building", "txn"}
  BY <1>t DEF Txn
<1> USE <1>t, <1>v, TxnValues, BytesAssumption
    DEF ShapeInv, Shape, Phasing, Named, Journalled, Readable, RecoverySteps, ReopenSteps, OpenSteps, WriteSteps, BareSteps,
        disk, state, memory, SafeInv, NothingSetAside, Decided, Residue
<1>1. CASE Begin
  BY <1>1 DEF Begin, Start
<1>2. CASE RecordRecovered
  BY <1>2 DEF RecordRecovered, Holds
<1>3. CASE SaveRecovered
  BY <1>3 DEF SaveRecovered
<1>4. CASE CloseRecovered
  BY <1>4 DEF CloseRecovered
<1>5. CASE OpenJournal
  BY NoneAssumption, <1>5 DEF OpenJournal
<1>6. CASE RecoverNone
  BY <1>6 DEF RecoverNone, Recovering
<1>7. CASE RecoverBuilding
  BY <1>7 DEF RecoverBuilding, Recovering
<1>8. CASE RecoverResidue
  BY <1>8 DEF RecoverResidue, Recovering, Residue
<1>9. CASE RecoverInstalled
  BY <1>9 DEF RecoverInstalled, Readables, Recovering
<1>10. CASE RecoverToInstall
  BY <1>10 DEF RecoverToInstall, Readables, Recovering
<1>11. CASE RecoverToMark
  BY <1>11 DEF RecoverToMark, Readables, Recovering
<1>12. CASE RecoverDuplicate
  BY <1>12 DEF RecoverDuplicate, Readables, Recovering, Txn
<1>13. CASE RecoverToRestore
  BY <1>13 DEF RecoverToRestore, Readables, Recovering
<1>14. CASE RecoverNothing
  BY <1>14 DEF RecoverNothing, Readables, Recovering
<1>15. CASE RecoverConflict
  BY <1>15 DEF RecoverConflict, Stop, Forget
<1>16. CASE RecoverInstall
  BY <1>16 DEF RecoverInstall, Txn
<1>17. CASE RecoverMark
  BY <1>17 DEF RecoverMark, Txn
<1>18. CASE RecoverRestore
  BY <1>18 DEF RecoverRestore, Txn
<1>19. CASE RecoverBlocked
  BY <1>19 DEF RecoverBlocked, Stop, Forget
<1>20. CASE CleanupStep
  BY <1>20 DEF CleanupStep, RemovePrevious, RemoveNext, RemoveApproved, RemoveInstalled,
     RemoveJournal, RemoveLease, Residue, Txn
<1>21. CASE CleanupDone
  BY <1>21 DEF CleanupDone, Residue
<1>22. CASE ReadCurrent
  BY <1>22 DEF ReadCurrent
<1>23. CASE KeepUnchanged
  BY <1>23 DEF KeepUnchanged, Unchanged, Holds
<1>24. CASE Protect
  BY <1>24 DEF Protect, UserEdited
<1>25. CASE BeginWrite
  <2>1. pc = "classify" /\ phase = "write" /\ new # None /\ journal = [hash |-> new]
    BY <1>25 DEF BeginWrite
  <2>2. Journalled
    BY <2>1, NoneAssumption
  <2> QED
    BY <1>25, <2>1, <2>2 DEF BeginWrite
<1>26. CASE BeginPrune
  BY <1>26 DEF BeginPrune
<1>27. CASE Publish
  BY <1>27 DEF Publish
<1>28. CASE Quarantine
  BY <1>28 DEF Quarantine, Txn
<1>29. CASE Approve
  BY <1>29 DEF Approve, Consent, Writable, Holds, Txn
<1>30. CASE GiveBack
  BY <1>30 DEF GiveBack, Unchanged, UserEdited, Holds
<1>31. CASE Restore
  BY <1>31 DEF Restore, Txn
<1>32. CASE RestoreBlocked
  BY <1>32 DEF RestoreBlocked, Stop, Forget
<1>33. CASE Install
  BY <1>33 DEF Install, Txn
<1>34. CASE InstallFails
  BY <1>34 DEF InstallFails, Stop, Forget, Txn
<1>35. CASE Undo
  <2>1. /\ pc' = "idle" /\ phase' = "journal" /\ outcome' = "error" /\ pc = "undo"
        /\ owned' = None /\ recovered' = None
        /\ journal' = journal /\ manifest' = manifest /\ (leaf' = leaf \/ leaf' = txn.previous)
    BY <1>35 DEF Undo, Stop, Forget
  <2> QED
    BY <1>35, <2>1, UndoFields
<1>36. CASE MarkFails
  BY <1>36 DEF MarkFails, Stop, Forget, Txn
<1>37. CASE Mark
  BY <1>37 DEF Mark, Txn
<1>38. CASE JudgeStale
  BY <1>38 DEF JudgeStale, Consent, Holds, Txn
<1>39. CASE GiveUp
  BY <1>39 DEF GiveUp, Stop, Forget
<1>40. CASE Settle
  BY <1>40 DEF Settle
<1>41. CASE Save
  BY <1>41 DEF Save
<1>42. CASE Finish
  BY <1>42 DEF Finish, Stop, Forget
<1>43. CASE User
  BY DisturbedFields, <1>43 DEF User, UserWrite, UserDelete
<1>44. CASE Crash
  BY <1>44 DEF Crash, Stop, Forget
<1>45. CASE CrashInMove
  BY <1>45 DEF CrashInMove, Stop, Forget, Txn
<1>46. CASE BecomeQuiet
  BY <1>46 DEF BecomeQuiet
<1>47. CASE UNCHANGED vars
  BY <1>47 DEF vars
<1> QED
  BY <1>1, <1>2, <1>3, <1>4, <1>5, <1>6, <1>7, <1>8, <1>9, <1>10, <1>11, <1>12, <1>13, <1>14,
     <1>15, <1>16, <1>17, <1>18, <1>19, <1>20, <1>21, <1>22, <1>23, <1>24, <1>25, <1>26, <1>27,
     <1>28, <1>29, <1>30, <1>31, <1>32, <1>33, <1>34, <1>35, <1>36, <1>37, <1>38, <1>39, <1>40,
     <1>41, <1>42, <1>43, <1>44, <1>45, <1>46, <1>47 DEF Next, Generate, Recover

(* Each step keeps what is planned and which hashes may be recorded.         *)
LEMMA PlannedStep ==
  ASSUME TypeInv, SafeInv, ShapeInv, [Next]_vars, Shape', Phasing', Named'
  PROVE  Planned' /\ Hashes'
<1>t. /\ txn \in Txn /\ pc \in Phases /\ phase \in {"journal", "write"}
      /\ new \in Generated \cup {None} /\ manifest \in Bytes \cup {None}
  BY DEF TypeInv, TypeOK
<1>f. txn.journal \in Bytes \cup {None} /\ txn.next \in Bytes \cup {None}
  BY <1>t, TxnFields
<1> USE <1>t, <1>f, TxnValues, BytesAssumption, NoneAssumption
    DEF ShapeInv, Shape, Phasing, Named, Planned, Hashes, Journalled, Readable, RecoverySteps, ReopenSteps, OpenSteps, WriteSteps, BareSteps,
        disk, state, memory, SafeInv, Decided, Residue
<1>1. CASE Begin
  BY <1>1 DEF Begin, Start
<1>2. CASE RecordRecovered
  BY <1>2 DEF RecordRecovered, Holds
<1>3. CASE SaveRecovered
  BY <1>3 DEF SaveRecovered
<1>4. CASE CloseRecovered
  BY <1>4 DEF CloseRecovered
<1>5. CASE OpenJournal
  BY <1>5 DEF OpenJournal
<1>6. CASE RecoverNone
  BY <1>6 DEF RecoverNone, Recovering
<1>7. CASE RecoverBuilding
  BY <1>7 DEF RecoverBuilding, Recovering
<1>8. CASE RecoverResidue
  BY <1>8 DEF RecoverResidue, Recovering, Residue
<1>9. CASE RecoverInstalled
  BY <1>9 DEF RecoverInstalled, Readables, Recovering
<1>10. CASE RecoverToInstall
  BY <1>10 DEF RecoverToInstall, Readables, Recovering
<1>11. CASE RecoverToMark
  BY <1>11 DEF RecoverToMark, Readables, Recovering
<1>12. CASE RecoverDuplicate
  BY <1>12 DEF RecoverDuplicate, Readables, Recovering, Txn
<1>13. CASE RecoverToRestore
  BY <1>13 DEF RecoverToRestore, Readables, Recovering
<1>14. CASE RecoverNothing
  BY <1>14 DEF RecoverNothing, Readables, Recovering
<1>15. CASE RecoverConflict
  BY <1>15 DEF RecoverConflict, Stop, Forget
<1>16. CASE RecoverInstall
  BY <1>16 DEF RecoverInstall, Txn
<1>17. CASE RecoverMark
  BY <1>17 DEF RecoverMark, Txn
<1>18. CASE RecoverRestore
  BY <1>18 DEF RecoverRestore, Txn
<1>19. CASE RecoverBlocked
  BY <1>19 DEF RecoverBlocked, Stop, Forget
<1>20. CASE CleanupStep
  BY <1>20 DEF CleanupStep, RemovePrevious, RemoveNext, RemoveApproved, RemoveInstalled,
     RemoveJournal, RemoveLease, Residue, Txn
<1>21. CASE CleanupDone
  BY <1>21 DEF CleanupDone, Residue
<1>22. CASE ReadCurrent
  BY <1>22 DEF ReadCurrent
<1>23. CASE KeepUnchanged
  BY <1>23 DEF KeepUnchanged, Unchanged, Holds
<1>24. CASE Protect
  BY <1>24 DEF Protect, UserEdited
<1>25. CASE BeginWrite
  BY <1>25 DEF BeginWrite
<1>26. CASE BeginPrune
  BY <1>26 DEF BeginPrune
<1>27. CASE Publish
  BY <1>27 DEF Publish
<1>28. CASE Quarantine
  BY <1>28 DEF Quarantine, Txn
<1>29. CASE Approve
  BY <1>29 DEF Approve, Consent, Writable, Holds, Txn
<1>30. CASE GiveBack
  BY <1>30 DEF GiveBack, Unchanged, UserEdited, Holds
<1>31. CASE Restore
  BY <1>31 DEF Restore, Txn
<1>32. CASE RestoreBlocked
  BY <1>32 DEF RestoreBlocked, Stop, Forget
<1>33. CASE Install
  BY <1>33 DEF Install, Txn
<1>34. CASE InstallFails
  BY <1>34 DEF InstallFails, Stop, Forget, Txn
<1>35. CASE Undo
  <2>1. /\ pc' = "idle" /\ phase' = "journal" /\ outcome' = "error" /\ pc = "undo"
        /\ owned' = None /\ recovered' = None
        /\ journal' = journal /\ manifest' = manifest /\ (leaf' = leaf \/ leaf' = txn.previous)
    BY <1>35 DEF Undo, Stop, Forget
  <2> QED
    BY <1>35, <2>1, UndoFields
<1>36. CASE MarkFails
  BY <1>36 DEF MarkFails, Stop, Forget, Txn
<1>37. CASE Mark
  BY <1>37 DEF Mark, Txn
<1>38. CASE JudgeStale
  BY <1>38 DEF JudgeStale, Consent, Holds, Txn
<1>39. CASE GiveUp
  BY <1>39 DEF GiveUp, Stop, Forget
<1>40. CASE Settle
  BY <1>40 DEF Settle
<1>41. CASE Save
  BY <1>41 DEF Save
<1>42. CASE Finish
  BY <1>42 DEF Finish, Stop, Forget
<1>43. CASE User
  BY DisturbedFields, <1>43 DEF User, UserWrite, UserDelete
<1>44. CASE Crash
  BY <1>44 DEF Crash, Stop, Forget
<1>45. CASE CrashInMove
  BY <1>45 DEF CrashInMove, Stop, Forget, Txn
<1>46. CASE BecomeQuiet
  BY <1>46 DEF BecomeQuiet
<1>47. CASE UNCHANGED vars
  BY <1>47 DEF vars
<1> QED
  BY <1>1, <1>2, <1>3, <1>4, <1>5, <1>6, <1>7, <1>8, <1>9, <1>10, <1>11, <1>12, <1>13, <1>14,
     <1>15, <1>16, <1>17, <1>18, <1>19, <1>20, <1>21, <1>22, <1>23, <1>24, <1>25, <1>26, <1>27,
     <1>28, <1>29, <1>30, <1>31, <1>32, <1>33, <1>34, <1>35, <1>36, <1>37, <1>38, <1>39, <1>40,
     <1>41, <1>42, <1>43, <1>44, <1>45, <1>46, <1>47 DEF Next, Generate, Recover

(* Each step keeps gnr8's own outputs known.                                 *)
LEMMA KnownStep ==
  ASSUME TypeInv, SafeInv, ShapeInv, KnownInv, [Next]_vars, ShapeInv'
  PROVE  KnownInv'
<1>t. /\ txn \in Txn /\ pc \in Phases /\ phase \in {"journal", "write"} /\ leaf \in File \cup {None}
      /\ seen \in File \cup {None}
      /\ new \in Bytes \cup {None} /\ manifest \in Bytes \cup {None} /\ recovered \in Bytes \cup {None}
  BY BytesAssumption DEF TypeInv, TypeOK
<1>f. /\ txn.journal \in Bytes \cup {None} /\ txn.next \in Bytes \cup {None}
      /\ txn.previous \in File \cup {None}
  BY <1>t, TxnFields
<1>b. leaf # None => leaf.bytes # None
  BY <1>t, BytesAssumption DEF File
<1> USE <1>t, <1>f, <1>b, TxnValues, BytesAssumption, NoneAssumption
    DEF ShapeInv, Shape, Phasing, Named, Planned, Journalled, Readable, RecoverySteps, ReopenSteps, OpenSteps, WriteSteps, BareSteps,
        disk, state, memory, SafeInv, Decided, Residue, TypeInv, Staged,
        KnownInv, Remembered, KnownAs, Own, RecoveryKnows, WriteKnows, Ending
<1>1. CASE Begin
  BY <1>1 DEF Begin, Start
<1>2. CASE RecordRecovered
  BY <1>2 DEF RecordRecovered, Holds
<1>3. CASE SaveRecovered
  BY <1>3 DEF SaveRecovered
<1>4. CASE CloseRecovered
  BY <1>4 DEF CloseRecovered
<1>5. CASE OpenJournal
  BY <1>5 DEF OpenJournal
<1>6. CASE RecoverNone
  BY <1>6 DEF RecoverNone, Recovering
<1>7. CASE RecoverBuilding
  BY <1>7 DEF RecoverBuilding, Recovering
<1>8. CASE RecoverResidue
  BY <1>8 DEF RecoverResidue, Recovering, Residue
<1>9. CASE RecoverInstalled
  BY <1>9 DEF RecoverInstalled, Readables, Recovering, IsNext, Holds
<1>10. CASE RecoverToInstall
  BY <1>10 DEF RecoverToInstall, Readables, Recovering
<1>11. CASE RecoverToMark
  BY <1>11 DEF RecoverToMark, Readables, Recovering, IsNext, Holds
<1>12. CASE RecoverDuplicate
  BY <1>12 DEF RecoverDuplicate, Readables, Recovering, Txn
<1>13. CASE RecoverToRestore
  BY <1>13 DEF RecoverToRestore, Readables, Recovering
<1>14. CASE RecoverNothing
  BY <1>14 DEF RecoverNothing, Readables, Recovering
<1>15. CASE RecoverConflict
  BY <1>15 DEF RecoverConflict, Stop, Forget
<1>16. CASE RecoverInstall
  BY <1>16 DEF RecoverInstall, Txn
<1>17. CASE RecoverMark
  BY <1>17 DEF RecoverMark, Txn
<1>18. CASE RecoverRestore
  BY <1>18 DEF RecoverRestore, Txn
<1>19. CASE RecoverBlocked
  BY <1>19 DEF RecoverBlocked, Stop, Forget
<1>20. CASE CleanupStep
  BY <1>20 DEF CleanupStep, RemovePrevious, RemoveNext, RemoveApproved, RemoveInstalled,
     RemoveJournal, RemoveLease, Residue, Txn
<1>21. CASE CleanupDone
  BY <1>21 DEF CleanupDone, Residue
<1>22. CASE ReadCurrent
  BY <1>22 DEF ReadCurrent
<1>23. CASE KeepUnchanged
  BY <1>23 DEF KeepUnchanged, Unchanged, Holds
<1>24. CASE Protect
  BY <1>24 DEF Protect, UserEdited
<1>25. CASE BeginWrite
  BY <1>25 DEF BeginWrite, Writable, UserEdited
<1>26. CASE BeginPrune
  BY <1>26 DEF BeginPrune
<1>27. CASE Publish
  BY <1>27 DEF Publish
<1>28. CASE Quarantine
  BY <1>28 DEF Quarantine, Txn
<1>29. CASE Approve
  BY <1>29 DEF Approve, Consent, Writable, Holds, Txn
<1>30. CASE GiveBack
  BY <1>30 DEF GiveBack, Unchanged, UserEdited, Holds
<1>31. CASE Restore
  BY <1>31 DEF Restore, Txn
<1>32. CASE RestoreBlocked
  BY <1>32 DEF RestoreBlocked, Stop, Forget
<1>33. CASE Install
  BY <1>33 DEF Install, Txn
<1>34. CASE InstallFails
  BY <1>34 DEF InstallFails, Stop, Forget, Txn
<1>35. CASE Undo
  <2>1. /\ pc' = "idle" /\ phase' = "journal" /\ outcome' = "error" /\ pc = "undo"
        /\ owned' = None /\ recovered' = None
        /\ journal' = journal /\ manifest' = manifest /\ (leaf' = leaf \/ leaf' = txn.previous)
    BY <1>35 DEF Undo, Stop, Forget
  <2> QED
    BY <1>35, <2>1, UndoFields
<1>36. CASE MarkFails
  BY <1>36 DEF MarkFails, Stop, Forget, Txn
<1>37. CASE Mark
  BY <1>37 DEF Mark, Txn
<1>38. CASE JudgeStale
  BY <1>38 DEF JudgeStale, Consent, Holds, Txn
<1>39. CASE GiveUp
  BY <1>39 DEF GiveUp, Stop, Forget
<1>40. CASE Settle
  BY <1>40 DEF Settle
<1>41. CASE Save
  BY <1>41 DEF Save
<1>42. CASE Finish
  BY <1>42 DEF Finish, Stop, Forget
<1>43. CASE User
  BY DisturbedFields, <1>43 DEF User, UserWrite, UserDelete
<1>44. CASE Crash
  BY <1>44 DEF Crash, Stop, Forget
<1>45. CASE CrashInMove
  BY <1>45 DEF CrashInMove, Stop, Forget, Txn
<1>46. CASE BecomeQuiet
  BY <1>46 DEF BecomeQuiet
<1>47. CASE UNCHANGED vars
  BY <1>47 DEF vars
<1> QED
  BY <1>1, <1>2, <1>3, <1>4, <1>5, <1>6, <1>7, <1>8, <1>9, <1>10, <1>11, <1>12, <1>13, <1>14,
     <1>15, <1>16, <1>17, <1>18, <1>19, <1>20, <1>21, <1>22, <1>23, <1>24, <1>25, <1>26, <1>27,
     <1>28, <1>29, <1>30, <1>31, <1>32, <1>33, <1>34, <1>35, <1>36, <1>37, <1>38, <1>39, <1>40,
     <1>41, <1>42, <1>43, <1>44, <1>45, <1>46, <1>47 DEF Next, Generate, Recover

(* Each step keeps an undisturbed transaction decidable.                     *)
LEMMA UndisturbedStep ==
  ASSUME TypeInv, SafeInv, ShapeInv, UndisturbedInv, [Next]_vars, ShapeInv'
  PROVE  UndisturbedInv'
<1>t. /\ txn \in Txn /\ pc \in Phases /\ phase \in {"journal", "write"} /\ leaf \in File \cup {None}
  BY DEF TypeInv, TypeOK
<1>f. /\ txn.journal \in Bytes \cup {None} /\ txn.next \in Bytes \cup {None}
      /\ txn.previous \in File \cup {None} /\ txn.dir \in {"none", "building", "txn"}
  BY <1>t, TxnFields DEF Txn
<1> USE <1>t, <1>f, TxnValues, BytesAssumption, NoneAssumption
    DEF ShapeInv, Shape, Phasing, Planned, Readable, RecoverySteps, ReopenSteps, OpenSteps, WriteSteps, BareSteps,
        disk, state, memory, SafeInv, NothingSetAside, Decided, Residue, TypeInv, Staged,
        UndisturbedInv, Undisturbed, IsNext, IsPrevious, Holds, SameBytes
<1>1. CASE Begin
  BY <1>1 DEF Begin, Start
<1>2. CASE RecordRecovered
  BY <1>2 DEF RecordRecovered
<1>3. CASE SaveRecovered
  BY <1>3 DEF SaveRecovered
<1>4. CASE CloseRecovered
  BY <1>4 DEF CloseRecovered
<1>5. CASE OpenJournal
  BY <1>5 DEF OpenJournal
<1>6. CASE RecoverNone
  BY <1>6 DEF RecoverNone, Recovering
<1>7. CASE RecoverBuilding
  BY <1>7 DEF RecoverBuilding, Recovering
<1>8. CASE RecoverResidue
  BY <1>8 DEF RecoverResidue, Recovering, Residue
<1>9. CASE RecoverInstalled
  BY <1>9 DEF RecoverInstalled, Readables, Recovering
<1>10. CASE RecoverToInstall
  BY <1>10 DEF RecoverToInstall, Readables, Recovering
<1>11. CASE RecoverToMark
  BY <1>11 DEF RecoverToMark, Readables, Recovering
<1>12. CASE RecoverDuplicate
  BY <1>12 DEF RecoverDuplicate, Readables, Recovering, Txn
<1>13. CASE RecoverToRestore
  BY <1>13 DEF RecoverToRestore, Readables, Recovering
<1>14. CASE RecoverNothing
  BY <1>14 DEF RecoverNothing, Readables, Recovering
<1>15. CASE RecoverConflict
  BY <1>15 DEF RecoverConflict, Stop, Forget, Conflict, Readables, Recovering
<1>16. CASE RecoverInstall
  <2>1. txn.next # None /\ txn.next = txn.journal
    BY <1>16 DEF Install, RecoverInstall
  <2>2. leaf' = [bytes |-> txn.journal, by |-> "gnr8"] /\ leaf' \in File
    BY <1>16, <2>1 DEF Install, RecoverInstall, File
  <2>3. txn'.journal = txn.journal /\ leaf' # None /\ leaf'.bytes = txn'.journal
    BY <1>16, <2>2 DEF Install, RecoverInstall, Txn
  <2>4. IsNext'
    BY <2>3
  <2> QED
    BY <1>16, <2>4 DEF Install, RecoverInstall, Txn
<1>17. CASE RecoverMark
  BY <1>17 DEF RecoverMark, Txn
<1>18. CASE RecoverRestore
  BY <1>18 DEF RecoverRestore, Txn
<1>19. CASE RecoverBlocked
  BY <1>19 DEF RecoverBlocked, Stop, Forget
<1>20. CASE CleanupStep
  BY <1>20 DEF CleanupStep, RemovePrevious, RemoveNext, RemoveApproved, RemoveInstalled,
     RemoveJournal, RemoveLease, Residue, Txn
<1>21. CASE CleanupDone
  BY <1>21 DEF CleanupDone, Residue
<1>22. CASE ReadCurrent
  BY <1>22 DEF ReadCurrent
<1>23. CASE KeepUnchanged
  BY <1>23 DEF KeepUnchanged, Unchanged
<1>24. CASE Protect
  BY <1>24 DEF Protect, UserEdited
<1>25. CASE BeginWrite
  BY <1>25 DEF BeginWrite
<1>26. CASE BeginPrune
  BY <1>26 DEF BeginPrune
<1>27. CASE Publish
  BY <1>27 DEF Publish
<1>28. CASE Quarantine
  BY <1>28 DEF Quarantine, Txn
<1>29. CASE Approve
  BY <1>29 DEF Approve, Consent, Writable, Txn
<1>30. CASE GiveBack
  BY <1>30 DEF GiveBack, Unchanged, UserEdited
<1>31. CASE Restore
  BY <1>31 DEF Restore, Txn
<1>32. CASE RestoreBlocked
  BY <1>32 DEF RestoreBlocked, Stop, Forget
<1>33. CASE Install
  <2>1. txn.next # None /\ txn.next = txn.journal
    BY <1>33 DEF Install, RecoverInstall
  <2>2. leaf' = [bytes |-> txn.journal, by |-> "gnr8"] /\ leaf' \in File
    BY <1>33, <2>1 DEF Install, RecoverInstall, File
  <2>3. txn'.journal = txn.journal /\ leaf' # None /\ leaf'.bytes = txn'.journal
    BY <1>33, <2>2 DEF Install, RecoverInstall, Txn
  <2>4. IsNext'
    BY <2>3
  <2> QED
    BY <1>33, <2>4 DEF Install, RecoverInstall, Txn
<1>34. CASE InstallFails
  BY <1>34 DEF InstallFails, Stop, Forget, Txn
<1>35. CASE Undo
  <2>1. /\ pc' = "idle" /\ phase' = "journal" /\ outcome' = "error" /\ pc = "undo"
        /\ owned' = None /\ recovered' = None
        /\ journal' = journal /\ manifest' = manifest /\ (leaf' = leaf \/ leaf' = txn.previous)
    BY <1>35 DEF Undo, Stop, Forget
  <2> QED
    BY <1>35, <2>1, UndoFields
<1>36. CASE MarkFails
  BY <1>36 DEF MarkFails, Stop, Forget, Txn
<1>37. CASE Mark
  BY <1>37 DEF Mark, Txn
<1>38. CASE JudgeStale
  BY <1>38 DEF JudgeStale, Consent, Txn
<1>39. CASE GiveUp
  BY <1>39 DEF GiveUp, Stop, Forget
<1>40. CASE Settle
  BY <1>40 DEF Settle
<1>41. CASE Save
  BY <1>41 DEF Save
<1>42. CASE Finish
  BY <1>42 DEF Finish, Stop, Forget
<1>43. CASE User
  BY DisturbedFields, <1>43 DEF User, UserWrite, UserDelete
<1>44. CASE Crash
  BY <1>44 DEF Crash, Stop, Forget
<1>45. CASE CrashInMove
  BY <1>45 DEF CrashInMove, Stop, Forget, Txn
<1>46. CASE BecomeQuiet
  BY <1>46 DEF BecomeQuiet
<1>47. CASE UNCHANGED vars
  BY <1>47 DEF vars
<1> QED
  BY <1>1, <1>2, <1>3, <1>4, <1>5, <1>6, <1>7, <1>8, <1>9, <1>10, <1>11, <1>12, <1>13, <1>14,
     <1>15, <1>16, <1>17, <1>18, <1>19, <1>20, <1>21, <1>22, <1>23, <1>24, <1>25, <1>26, <1>27,
     <1>28, <1>29, <1>30, <1>31, <1>32, <1>33, <1>34, <1>35, <1>36, <1>37, <1>38, <1>39, <1>40,
     <1>41, <1>42, <1>43, <1>44, <1>45, <1>46, <1>47 DEF Next, Generate, Recover

(* A generation ends well only by Finish, and what it ended with stays until *)
(* the next one begins, whatever the user does meanwhile.                  *)
LEMMA SuccessStep ==
  ASSUME TypeInv, ShapeInv, KnownInv, SuccessLeavesNothingBehind, [Next]_vars
  PROVE  SuccessLeavesNothingBehind'
<1>t. txn \in Txn /\ (pc \in BareSteps => txn = NoTxn)
  BY DEF TypeInv, TypeOK, ShapeInv, Shape
<1>1. CASE Finish
  BY <1>1, <1>t DEF Finish, Stop, Forget, KnownInv, Remembered, Own, BareSteps,
     SuccessLeavesNothingBehind, disk
<1>2. CASE User
  BY <1>2, <1>t, DisturbedFields, TxnValues DEF User, UserWrite, UserDelete, state,
     SuccessLeavesNothingBehind, Succeeded
<1>3. CASE BecomeQuiet \/ UNCHANGED vars
  BY <1>3 DEF BecomeQuiet, vars, disk, state, memory, SuccessLeavesNothingBehind, Succeeded
<1>4. CASE Begin
  BY <1>4 DEF Begin, Start, SuccessLeavesNothingBehind
<1>5. CASE Crash \/ CrashInMove
  BY <1>5 DEF Crash, CrashInMove, Stop, SuccessLeavesNothingBehind, Succeeded
<1>6. CASE Generate /\ ~Finish
  <2>1. pc' # "idle" \/ outcome' \in {"error", "conflict"}
    BY <1>6 DEF Generate, Recover, Stop, RecordRecovered, SaveRecovered, CloseRecovered,
       OpenJournal,
      RecoverNone, RecoverBuilding, RecoverResidue, RecoverInstalled,
      RecoverToInstall, RecoverToMark, RecoverDuplicate, RecoverToRestore,
      RecoverNothing, RecoverConflict, RecoverInstall, RecoverMark,
      RecoverRestore, RecoverBlocked, CleanupStep, CleanupDone, ReadCurrent,
      KeepUnchanged, Protect, BeginWrite, BeginPrune, Publish, Quarantine,
      Approve, GiveBack, Restore, RestoreBlocked, Install, InstallFails, Undo,
      MarkFails, Mark, JudgeStale, GiveUp, Settle, Save
  <2> QED
    BY <2>1 DEF SuccessLeavesNothingBehind, Succeeded
<1> QED
  BY <1>1, <1>2, <1>3, <1>4, <1>5, <1>6 DEF Next

RecoveryInv == ShapeInv /\ KnownInv /\ UndisturbedInv /\ SuccessLeavesNothingBehind

LEMMA RecoveryInvInit == Init => RecoveryInv
<1> SUFFICES ASSUME Init PROVE RecoveryInv
  OBVIOUS
<1>1. ShapeInv
  BY TxnValues DEF Init, ShapeInv, Shape, Phasing, Named, Planned, Hashes, Readable, Residue,
     Journalled, RecoverySteps, ReopenSteps, OpenSteps, WriteSteps, BareSteps
<1>2. KnownInv
  BY TxnValues DEF Init, KnownInv, Remembered, KnownAs, Own, RecoveryKnows, WriteKnows, Ending,
     RecoverySteps, ReopenSteps, WriteSteps, OpenSteps
<1>3. UndisturbedInv /\ SuccessLeavesNothingBehind
  BY TxnValues DEF Init, UndisturbedInv, Undisturbed, SuccessLeavesNothingBehind, Succeeded
<1> QED
  BY <1>1, <1>2, <1>3 DEF RecoveryInv

LEMMA RecoveryInvStep ==
  ASSUME TypeInv, SafeInv, RecoveryInv, [Next]_vars
  PROVE  RecoveryInv'
<1>1. ShapeInv /\ KnownInv /\ UndisturbedInv /\ SuccessLeavesNothingBehind
  BY DEF RecoveryInv
<1>2. Shape' /\ Phasing' /\ Named'
  BY <1>1, ShapeStep
<1>3. Planned' /\ Hashes'
  BY <1>1, <1>2, PlannedStep
<1>4. ShapeInv'
  BY <1>2, <1>3 DEF ShapeInv
<1>5. KnownInv' /\ UndisturbedInv'
  BY <1>1, <1>4, KnownStep, UndisturbedStep
<1>6. SuccessLeavesNothingBehind'
  BY <1>1, SuccessStep
<1> QED
  BY <1>4, <1>5, <1>6 DEF RecoveryInv

LEMMA RecoveryAlways == Spec => [](TypeInv /\ RecoveryInv)
  BY TypeInvInit, TypeInvStep, SafeInvInit, SafeInvStep, RecoveryInvInit, RecoveryInvStep, PTL
  DEF Spec

(* Whatever crashed and wherever, gnr8 knows an output it installed as its   *)
(* own, and reports none of its own as hand-edited.                        *)
THEOREM OwnOutputsAreKnown == Spec => []OwnOutputIsKnown
<1>1. TypeInv /\ RecoveryInv => OwnOutputIsKnown
  <2> SUFFICES ASSUME TypeInv, RecoveryInv PROVE OwnOutputIsKnown
    OBVIOUS
  <2>1. seen \in File \cup {None} /\ txn.previous \in File \cup {None}
    BY TxnFields DEF TypeInv, TypeOK
  <2>2. KnownInv
    BY DEF RecoveryInv
  <2> QED
    BY <2>1, <2>2 DEF KnownInv, Remembered, KnownAs, Own, WriteKnows, WriteSteps, OpenSteps,
       UserEdited, OwnOutputIsKnown, File
<1> QED
  BY RecoveryAlways, <1>1, PTL

(* Ownership is never recorded over bytes the pipeline did not produce.     *)
THEOREM OwnershipIsOfGeneratedBytes == Spec => []OwnedBytesAreGenerated
<1>1. RecoveryInv => OwnedBytesAreGenerated
  BY DEF RecoveryInv, ShapeInv, Hashes, OwnedBytesAreGenerated
<1> QED
  BY RecoveryAlways, <1>1, PTL

(* A crash, wherever it falls, leaves a transaction recovery can read, and   *)
(* recovery conflicts only with the user or after a failed install.        *)
THEOREM CrashesAloneNeverConflict == Spec => []CrashAloneNeverConflicts
<1>1. RecoveryInv => CrashAloneNeverConflicts
  BY DEF RecoveryInv, ShapeInv, Shape, UndisturbedInv, CrashAloneNeverConflicts
<1> QED
  BY RecoveryAlways, <1>1, PTL

(* A generation that ends well leaves neither transaction nor journal.      *)
THEOREM SuccessIsClean == Spec => []SuccessLeavesNothingBehind
<1>1. RecoveryInv => SuccessLeavesNothingBehind
  BY DEF RecoveryInv
<1> QED
  BY RecoveryAlways, <1>1, PTL

(* Ownership is exact: every output gnr8 wrote is known as its own, and     *)
(* nothing else is (lifecycle/mod.rs, the journal and the manifest).       *)
THEOREM OwnershipIsExact == Spec => []OwnershipHolds
<1>1. OwnOutputIsKnown /\ OwnedBytesAreGenerated => OwnershipHolds
  BY DEF OwnershipHolds
<1> QED
  BY <1>1, OwnOutputsAreKnown, OwnershipIsOfGeneratedBytes, PTL

(***************************************************************************)
(* The promise of ProtectedOutputs.                                        *)
(***************************************************************************)
Shown  == Content(leaf)
Hidden == Content(txn.previous)
May    == txn.previous # None /\ txn.released

(* What gnr8 wrote is what the pipeline produced.                          *)
OwnMade == \A f \in {leaf, txn.previous} : Own(f) => f.bytes \in Generated

(* Until the output is moved aside nothing is released.                     *)
Unreleased == pc = "quarantine" => ~txn.released

LEMMA ContentOf ==
  /\ Content(None) = None
  /\ \A f \in File : Content(f) = f.bytes /\ Content(f) \in Bytes /\ Content(f) # None
BY NoneAssumption, BytesAssumption DEF Content, File

LEMMA StagedIsGenerated ==
  ASSUME TypeInv, SafeInv, ShapeInv, pc \in {"install", "recoverInstall"}
  PROVE  txn.next \in Generated
<1>1. txn.approved /\ txn.next # None
  BY DEF TypeInv, Staged, SafeInv, Decided
<1>2. Journalled /\ txn.next = journal.hash
  BY <1>1 DEF ShapeInv, Planned
<1> QED BY <1>2 DEF ShapeInv, Hashes, Journalled

(* The steps of the program that leave the output and what is set aside.    *)
StillSteps ==
  \/ Begin \/ RecordRecovered \/ SaveRecovered \/ CloseRecovered \/ OpenJournal
  \/ RecoverNone \/ RecoverBuilding \/ RecoverResidue \/ RecoverInstalled \/ RecoverToInstall
  \/ RecoverToMark \/ RecoverToRestore \/ RecoverNothing \/ RecoverConflict \/ RecoverMark
  \/ RecoverBlocked \/ CleanupDone \/ ReadCurrent \/ KeepUnchanged \/ Protect
  \/ BeginWrite \/ BeginPrune \/ Publish \/ GiveBack \/ RestoreBlocked
  \/ InstallFails \/ MarkFails \/ Mark \/ GiveUp \/ Settle
  \/ Save \/ Finish \/ Crash \/ BecomeQuiet

LEMMA Still ==
  ASSUME TypeInv, SafeInv, StillSteps
  PROVE  leaf' = leaf /\ txn'.previous = txn.previous /\ (txn.previous # None => txn'.released = txn.released)
<1> USE DEF SafeInv, NothingSetAside, disk
<1>t. txn \in Txn
  BY DEF TypeInv, TypeOK
<1> USE <1>t DEF Txn
<1>1. CASE Begin
  BY <1>1 DEF Begin, Start
<1>2. CASE RecordRecovered
  BY <1>2 DEF RecordRecovered
<1>3. CASE SaveRecovered
  BY <1>3 DEF SaveRecovered
<1>4. CASE CloseRecovered
  BY <1>4 DEF CloseRecovered
<1>5. CASE OpenJournal
  BY <1>5 DEF OpenJournal
<1>6. CASE RecoverNone
  BY <1>6 DEF RecoverNone, Recovering
<1>7. CASE RecoverBuilding
  BY <1>7 DEF RecoverBuilding, Recovering, NoTxn
<1>8. CASE RecoverResidue
  BY <1>8 DEF RecoverResidue, Recovering, Residue
<1>9. CASE RecoverInstalled
  BY <1>9 DEF RecoverInstalled, Readables, Recovering
<1>10. CASE RecoverToInstall
  BY <1>10 DEF RecoverToInstall, Readables, Recovering
<1>11. CASE RecoverToMark
  BY <1>11 DEF RecoverToMark, Readables, Recovering
<1>12. CASE RecoverToRestore
  BY <1>12 DEF RecoverToRestore, Readables, Recovering
<1>13. CASE RecoverNothing
  BY <1>13 DEF RecoverNothing, Readables, Recovering
<1>14. CASE RecoverConflict
  BY <1>14 DEF RecoverConflict, Stop, Forget
<1>15. CASE RecoverMark
  BY <1>15 DEF RecoverMark
<1>16. CASE RecoverBlocked
  BY <1>16 DEF RecoverBlocked, Stop, Forget
<1>17. CASE CleanupDone
  BY <1>17 DEF CleanupDone, Residue, NoTxn
<1>18. CASE ReadCurrent
  BY <1>18 DEF ReadCurrent
<1>19. CASE KeepUnchanged
  BY <1>19 DEF KeepUnchanged
<1>20. CASE Protect
  BY <1>20 DEF Protect
<1>21. CASE BeginWrite
  BY <1>21 DEF BeginWrite, Building, NoTxn
<1>22. CASE BeginPrune
  BY <1>22 DEF BeginPrune, Building, NoTxn
<1>23. CASE Publish
  BY <1>23 DEF Publish, Published, Building, NoTxn
<1>24. CASE GiveBack
  BY <1>24 DEF GiveBack
<1>25. CASE RestoreBlocked
  BY <1>25 DEF RestoreBlocked, Stop, Forget
<1>26. CASE InstallFails
  BY <1>26 DEF InstallFails, Stop, Forget
<1>27. CASE MarkFails
  BY <1>27 DEF MarkFails, Stop, Forget
<1>28. CASE Mark
  BY <1>28 DEF Mark
<1>29. CASE GiveUp
  BY <1>29 DEF GiveUp, Stop, Forget
<1>30. CASE Settle
  BY <1>30 DEF Settle
<1>31. CASE Save
  BY <1>31 DEF Save
<1>32. CASE Finish
  BY <1>32 DEF Finish, Stop, Forget
<1>33. CASE Crash
  BY <1>33 DEF Crash, Stop, Forget
<1>34. CASE BecomeQuiet
  BY <1>34 DEF BecomeQuiet
<1> QED
  BY <1>1, <1>2, <1>3, <1>4, <1>5, <1>6, <1>7, <1>8, <1>9, <1>10, <1>11, <1>12, <1>13, <1>14,
     <1>15, <1>16, <1>17, <1>18, <1>19, <1>20, <1>21, <1>22, <1>23, <1>24, <1>25, <1>26, <1>27,
     <1>28, <1>29, <1>30, <1>31, <1>32, <1>33, <1>34
  DEF StillSteps

(* Each step of the promise, said of the one output.                        *)
LEMMA PromiseStill ==
  ASSUME Shown' = Shown, Hidden' = Hidden, May' <=> May, force' \in BOOLEAN
  PROVE  Promise!Kept
<1>1. Promise!Begin
  BY DEF Promise!Begin, Shown, Hidden, May
<1> QED BY <1>1 DEF Promise!Kept, Promise!Next

LEMMA PromiseAside ==
  ASSUME Shown # None, Hidden = None, Hidden' = Shown, Shown' \in {Shown, None}, ~May, ~May',
         force' \in {force, FALSE}
  PROVE  Promise!Kept
<1>1. Promise!SetAside(1)
  BY DEF Promise!SetAside, Promise!MayEnd, Shown, Hidden, May
<1> QED BY <1>1 DEF Promise!Kept, Promise!Next

LEMMA PromiseBack ==
  ASSUME Shown = None, Hidden # None, Shown' = Hidden,
         \/ Hidden' = Hidden /\ (May' <=> May)
         \/ Hidden' = None /\ ~May',
         force' \in {force, FALSE}
  PROVE  Promise!Kept
<1>1. Promise!PutBack(1)
  BY DEF Promise!PutBack, Promise!MayEnd, Shown, Hidden, May
<1> QED BY <1>1 DEF Promise!Kept, Promise!Next

LEMMA PromiseRelease ==
  ASSUME Shown' = Shown, Hidden' = Hidden, Hidden # None, May',
         force \/ Hidden \in Generated \/ Hidden = Shown, force' \in {force, FALSE}
  PROVE  Promise!Kept
<1>1. Promise!Release(1)
  BY DEF Promise!Release, Promise!Disposable, Promise!MayEnd, Shown, Hidden, May
<1> QED BY <1>1 DEF Promise!Kept, Promise!Next

LEMMA PromiseDiscard ==
  ASSUME Shown' = Shown, Hidden' = None, ~May', May \/ Hidden \in Generated, force' \in {force, FALSE}
  PROVE  Promise!Kept
<1>1. Promise!Discard(1)
  BY DEF Promise!Discard, Promise!Discarded, Promise!Disposable, Promise!MayEnd, Shown, Hidden, May
<1> QED BY <1>1 DEF Promise!Kept, Promise!Next

LEMMA PromiseInstall ==
  ASSUME Shown = None, Shown' \in Generated, Hidden' = Hidden, May' <=> May, force' \in {force, FALSE}
  PROVE  Promise!Kept
<1>1. Promise!Install(1, Shown')
  BY DEF Promise!Install, Promise!Discarded, Promise!MayEnd, Shown, Hidden, May
<1> QED BY <1>1 DEF Promise!Kept, Promise!Next

LEMMA OwnMadeInit == Init => OwnMade
  BY BytesAssumption DEF Init, OwnMade, Own, NoTxn

LEMMA OwnMadeStep ==
  ASSUME TypeInv, SafeInv, ShapeInv, OwnMade, [Next]_vars
  PROVE  OwnMade'
<1> USE DEF OwnMade, Own, disk
<1>t. txn \in Txn
  BY DEF TypeInv, TypeOK
<1> USE <1>t DEF Txn
<1>1. CASE StillSteps
  BY <1>1, Still
<1>2. CASE RecoverDuplicate
  BY <1>2 DEF RecoverDuplicate
<1>3. CASE RecoverInstall
  BY <1>3, StagedIsGenerated DEF RecoverInstall
<1>4. CASE RecoverRestore
  BY <1>4 DEF RecoverRestore
<1>5. CASE CleanupStep
  BY <1>5 DEF CleanupStep, RemovePrevious, RemoveNext, RemoveApproved, RemoveInstalled,
     RemoveJournal, RemoveLease
<1>6. CASE Quarantine
  BY <1>6 DEF Quarantine
<1>7. CASE Approve
  BY <1>7 DEF Approve
<1>8. CASE Restore
  BY <1>8 DEF Restore
<1>9. CASE Install
  BY <1>9, StagedIsGenerated DEF Install
<1>10. CASE Undo
  BY <1>10 DEF Undo
<1>11. CASE JudgeStale
  BY <1>11 DEF JudgeStale
<1>12. CASE User
  BY <1>12 DEF User, UserWrite, UserDelete, Disturbed
<1>13. CASE CrashInMove
  BY <1>13, StagedIsGenerated DEF CrashInMove
<1>14. CASE UNCHANGED vars
  BY <1>14 DEF vars
<1> QED
  BY <1>1, <1>2, <1>3, <1>4, <1>5, <1>6, <1>7, <1>8, <1>9, <1>10, <1>11, <1>12, <1>13, <1>14
  DEF Next, Generate, Recover, StillSteps

LEMMA UnreleasedStep ==
  ASSUME TypeInv, Unreleased, [Next]_vars
  PROVE  Unreleased'
<1> USE DEF Unreleased, disk
<1>t. txn \in Txn
  BY DEF TypeInv, TypeOK
<1>1. CASE Publish
  BY <1>1 DEF Publish, Published, Building, NoTxn
<1>2. CASE User
  BY <1>2, <1>t DEF User, UserWrite, UserDelete, Disturbed, Txn
<1>3. CASE BecomeQuiet
  BY <1>3 DEF BecomeQuiet
<1>4. CASE UNCHANGED vars
  BY <1>4 DEF vars
<1>5. CASE Begin
  BY <1>5 DEF Begin, Start
<1>6. CASE Crash \/ CrashInMove
  BY <1>6 DEF Crash, CrashInMove, Stop
<1>7. CASE Recover
  BY <1>7 DEF Recover, RecoverNone, RecoverBuilding, RecoverResidue, RecoverInstalled,
     RecoverToInstall, RecoverToMark, RecoverDuplicate, RecoverToRestore, RecoverNothing,
     RecoverConflict, RecoverInstall, RecoverMark, RecoverRestore, RecoverBlocked, Stop
<1>8. CASE Generate /\ ~Recover /\ ~Publish
  BY <1>8 DEF Generate, RecordRecovered, SaveRecovered, CloseRecovered, OpenJournal, CleanupStep,
     CleanupDone, ReadCurrent, KeepUnchanged, Protect, BeginWrite, BeginPrune, Quarantine, Approve,
     GiveBack, Restore, RestoreBlocked, Install, InstallFails, Undo, Mark, MarkFails, JudgeStale,
     GiveUp, Settle, Save, Finish, Stop
<1> QED BY <1>1, <1>2, <1>3, <1>4, <1>5, <1>6, <1>7, <1>8 DEF Next

(* A move of the protected file back to the output, which was free.          *)
LEMMA MovedBack ==
  ASSUME txn.previous \in File \cup {None}, leaf = None, leaf' = txn.previous,
         \/ txn' = txn
         \/ txn' \in Txn /\ txn'.previous = None,
         txn.previous # None, force' \in {force, FALSE}
  PROVE  Promise!Kept
<1>1. Shown = None /\ Hidden # None /\ Shown' = Hidden
  BY ContentOf DEF Shown, Hidden
<1>2. \/ Hidden' = Hidden /\ (May' <=> May)
      \/ Hidden' = None /\ ~May'
  BY ContentOf DEF Hidden, May
<1> QED BY <1>1, <1>2, PromiseBack

(* A move of staged bytes to the output, which was free.                     *)
LEMMA MovedIn ==
  ASSUME leaf = None, NEW f \in File, leaf' = f, f.bytes \in Generated,
         txn'.previous = txn.previous, txn'.released = txn.released, force' \in {force, FALSE}
  PROVE  Promise!Kept
<1>1. Shown = None /\ Shown' \in Generated
  BY ContentOf DEF Shown
<1>2. Hidden' = Hidden /\ (May' <=> May)
  BY DEF Hidden, May
<1> QED BY <1>1, <1>2, PromiseInstall

(* A move of the output aside, where nothing was.                            *)
LEMMA MovedAside ==
  ASSUME leaf \in File, txn.previous = None, txn'.previous = leaf, leaf' \in {leaf, None},
         ~txn'.released, force' \in {force, FALSE}
  PROVE  Promise!Kept
<1>1. Shown # None /\ Shown' \in {Shown, None} /\ Hidden = None /\ Hidden' = Shown
  BY ContentOf DEF Shown, Hidden
<1>2. ~May /\ ~May'
  BY DEF May
<1> QED BY <1>1, <1>2, PromiseAside

(* A decision about what is set aside: there is consent, or nothing to discard. *)
LEMMA Decides ==
  ASSUME leaf' = leaf, txn'.previous = txn.previous, txn.previous \in File \cup {None}, force' = force,
         txn.previous # None => txn'.released,
         txn.previous # None => force \/ Hidden \in Generated \/ Hidden = Shown,
         force \in BOOLEAN
  PROVE  Promise!Kept
<1>1. Shown' = Shown /\ Hidden' = Hidden
  BY DEF Shown, Hidden
<1>2. CASE txn.previous # None
  <2>1. Hidden # None /\ May'
    BY <1>2, ContentOf DEF Hidden, May
  <2> QED BY <1>1, <1>2, <2>1, PromiseRelease
<1>3. CASE txn.previous = None
  <2>1. ~May /\ ~May'
    BY <1>3 DEF May
  <2> QED BY <1>1, <2>1, PromiseStill
<1> QED BY <1>2, <1>3

LEMMA LooksTheSame ==
  ASSUME leaf' = leaf, txn'.previous = txn.previous,
         txn.previous # None => txn'.released = txn.released,
         force' \in BOOLEAN
  PROVE  Promise!Kept
<1>1. Shown' = Shown /\ Hidden' = Hidden /\ (May' <=> May)
  BY DEF Shown, Hidden, May
<1> QED BY <1>1, PromiseStill

LEMMA StepKeepsPromise ==
  ASSUME TypeInv, SafeInv, ShapeInv, OwnMade, Unreleased, [Next]_vars, TypeInv'
  PROVE  User \/ Promise!Kept
<1>t. /\ txn \in Txn /\ txn' \in Txn /\ force \in BOOLEAN /\ force' \in BOOLEAN
      /\ leaf \in File \cup {None} /\ leaf' \in File \cup {None}
  BY DEF TypeInv, TypeOK
<1>p. txn.previous \in File \cup {None}
  BY <1>t DEF Txn
<1>n. ASSUME pc \in {"install", "recoverInstall"}
      PROVE  [bytes |-> txn.next, by |-> "gnr8"] \in File /\ txn.next \in Generated
  BY <1>n, StagedIsGenerated, BytesAssumption DEF File
<1> USE DEF disk, memory
<1>1. CASE StillSteps
  BY <1>1, <1>t, Still, LooksTheSame
<1>2. CASE RecoverDuplicate
  <2>1. txn.previous # None /\ Hidden = Shown
    BY <1>2, <1>t, <1>p DEF RecoverDuplicate, IsPrevious, SameBytes, Hidden, Shown, Content
  <2>2. leaf' = leaf /\ txn'.previous = txn.previous /\ txn'.released /\ force' = force
    BY <1>2, <1>t DEF RecoverDuplicate, Txn
  <2> QED BY <1>t, <1>p, <2>1, <2>2, Decides
<1>3. CASE RecoverInstall
  <2>1. leaf = None /\ leaf' = [bytes |-> txn.next, by |-> "gnr8"] /\ force' = force
    BY <1>3 DEF RecoverInstall
  <2>2. txn'.previous = txn.previous /\ txn'.released = txn.released
    BY <1>3, <1>t DEF RecoverInstall, Txn
  <2>3. [bytes |-> txn.next, by |-> "gnr8"] \in File /\ txn.next \in Generated
    BY <1>3, <1>n DEF RecoverInstall
  <2> QED BY <2>1, <2>2, <2>3, MovedIn
<1>4. CASE RecoverRestore \/ Restore
  <2>1. leaf = None /\ leaf' = txn.previous /\ force' = force /\ txn' \in Txn
    BY <1>4, <1>t DEF RecoverRestore, Restore
  <2>2. txn'.previous = None
    BY <1>4, <1>t DEF RecoverRestore, Restore, Txn
  <2>3. CASE txn.previous = None
    BY <2>1, <2>2, <2>3, <1>t, LooksTheSame
  <2> QED BY <2>1, <2>2, <2>3, <1>p, MovedBack
<1>5. CASE CleanupStep
  <2>1. CASE RemovePrevious
    <3>1. /\ leaf' = leaf /\ force' = force /\ txn'.previous = None /\ txn.previous # None
          /\ pc = "cleanup"
      BY <1>5, <2>1, <1>t DEF CleanupStep, RemovePrevious, Txn
    <3>2. Shown' = Shown /\ Hidden' = None /\ ~May'
      BY <3>1, ContentOf DEF Shown, Hidden, May
    <3>3. UserFile(txn.previous) => May
      BY <3>1 DEF SafeInv, ConsentBeforeDiscard, May
    <3>4. ~UserFile(txn.previous) => Hidden \in Generated
      BY <3>1, <1>p, ContentOf DEF OwnMade, Own, UserFile, File, Hidden
    <3> QED BY <3>1, <3>2, <3>3, <3>4, PromiseDiscard
  <2>2. CASE ~RemovePrevious
    <3>1. leaf' = leaf /\ txn'.previous = txn.previous /\ txn'.released = txn.released
      BY <1>5, <2>2, <1>t DEF CleanupStep, RemoveNext, RemoveApproved, RemoveInstalled,
         RemoveJournal, RemoveLease, Txn
    <3> QED BY <3>1, <1>t, LooksTheSame
  <2> QED BY <2>1, <2>2
<1>6. CASE Quarantine
  <2>1. pc = "quarantine" /\ leaf' = None /\ force' = force /\ txn'.previous = leaf /\ txn'.released = txn.released
    BY <1>6, <1>t DEF Quarantine, Txn
  <2>2. txn.previous = None
    BY <2>1 DEF SafeInv, NothingSetAside
  <2>3. CASE leaf = None
    BY <2>1, <2>2, <2>3, <1>t, LooksTheSame
  <2>4. CASE leaf # None /\ ~txn.released
    BY <2>1, <2>2, <2>4, <1>t, MovedAside
  <2>5. ~txn.released
    BY <2>1 DEF Unreleased
  <2> QED BY <2>3, <2>4, <2>5
<1>7. CASE Approve
  <2>1. /\ pc = "judge" /\ leaf' = leaf /\ force' = force /\ txn'.previous = txn.previous
        /\ txn'.released = Consent /\ (force \/ Writable(txn.previous))
    BY <1>7, <1>t DEF Approve, Txn
  <2>2. owned \in Generated \cup {None}
    BY DEF ShapeInv, Hashes
  <2>3. ASSUME txn.previous # None
        PROVE  txn'.released /\ (force \/ Hidden \in Generated)
    BY <2>1, <2>2, <2>3, <1>p, <1>t, ContentOf, BytesAssumption DEF Consent, Writable, Holds, Hidden, File
  <2> QED BY <2>1, <2>3, <1>t, <1>p, Decides
<1>9. CASE Install
  <2>1. leaf = None /\ leaf' = [bytes |-> txn.next, by |-> "gnr8"] /\ force' = force
    BY <1>9 DEF Install
  <2>2. txn'.previous = txn.previous /\ txn'.released = txn.released
    BY <1>9, <1>t DEF Install, Txn
  <2>3. [bytes |-> txn.next, by |-> "gnr8"] \in File /\ txn.next \in Generated
    BY <1>9, <1>n DEF Install
  <2> QED BY <2>1, <2>2, <2>3, MovedIn
<1>10. CASE Undo
  <2>1. force' = FALSE
    BY <1>10 DEF Undo, Stop, Forget
  <2>2. CASE leaf # None \/ txn.previous = None
    BY <1>10, <2>1, <2>2, <1>t, LooksTheSame DEF Undo, Txn
  <2>3. CASE leaf = None /\ txn.previous # None
    <3>1. leaf' = txn.previous /\ txn'.previous = None
      BY <1>10, <2>3, <1>t DEF Undo, Txn
    <3> QED BY <2>1, <2>3, <3>1, <1>t, <1>p, MovedBack
  <2> QED BY <2>2, <2>3
<1>11. CASE JudgeStale
  <2>1. leaf' = leaf /\ force' = force /\ txn'.previous = txn.previous
    BY <1>11, <1>t DEF JudgeStale, Txn
  <2>2. owned \in Generated \cup {None}
    BY DEF ShapeInv, Hashes
  <2>3. CASE txn' = txn
    BY <2>1, <2>3, <1>t, LooksTheSame
  <2>4. CASE txn' # txn
    <3>1. txn.previous # None /\ (force \/ txn.previous.bytes = owned) /\ txn'.released = Consent
      BY <1>11, <2>4, <1>t DEF JudgeStale, Txn
    <3>2. txn'.released /\ (force \/ Hidden \in Generated)
      BY <3>1, <2>2, <1>p, <1>t, ContentOf, BytesAssumption DEF Consent, Holds, Hidden, File
    <3> QED BY <2>1, <3>1, <3>2, <1>t, <1>p, Decides
  <2> QED BY <2>3, <2>4
<1>13. CASE CrashInMove
  <2>1. force' = FALSE
    BY <1>13 DEF CrashInMove, Stop, Forget
  <2>2. CASE pc = "quarantine" /\ leaf # None
    <3>1. leaf' = leaf /\ txn'.previous = leaf /\ txn'.released = txn.released
      BY <1>13, <2>2, <1>t DEF CrashInMove, Txn
    <3>2. txn.previous = None
      BY <2>2 DEF SafeInv, NothingSetAside
    <3>3. ~txn.released
      BY <2>2 DEF Unreleased
    <3> QED BY <2>1, <2>2, <3>1, <3>2, <3>3, <1>t, MovedAside
  <2>3. CASE pc \in {"install", "recoverInstall"}
    <3>1. leaf = None /\ leaf' = [bytes |-> txn.next, by |-> "gnr8"] /\ txn' = txn
      BY <1>13, <2>3 DEF CrashInMove
    <3> QED BY <2>1, <2>3, <3>1, <1>n, MovedIn
  <2>4. CASE pc \in {"giveBack", "undo", "recoverRestore"}
    <3>1. leaf = None /\ leaf' = txn.previous /\ txn' = txn
      BY <1>13, <2>4 DEF CrashInMove
    <3>2. CASE txn.previous = None
      BY <2>1, <3>1, <3>2, LooksTheSame
    <3> QED BY <2>1, <3>1, <3>2, <1>p, MovedBack
  <2> QED BY <1>13, <2>2, <2>3, <2>4 DEF CrashInMove
<1>14. CASE UNCHANGED vars
  BY <1>14, <1>t, LooksTheSame DEF vars
<1> QED
  BY <1>1, <1>2, <1>3, <1>4, <1>5, <1>6, <1>7, <1>9, <1>10, <1>11, <1>13, <1>14
  DEF Next, Generate, Recover, StillSteps

(* Operation by operation, whoever dies and whatever the user does between, *)
(* the output is treated as ProtectedOutputs promises (lifecycle/mod.rs,   *)
(* write_transaction and recover_transactions): nothing replaces a file, and *)
(* what was set aside comes back or was gnr8's to discard.                 *)
THEOREM PromiseKept == Spec => ProtectsOutput
<1>1. TypeInv /\ SafeInv /\ RecoveryInv /\ OwnMade /\ Unreleased /\ TypeInv' /\ [Next]_vars => [User \/ Promise!Kept]_vars
  BY StepKeepsPromise DEF RecoveryInv
<1>2. TypeInv /\ SafeInv /\ RecoveryInv /\ OwnMade /\ [Next]_vars => OwnMade'
  BY OwnMadeStep DEF RecoveryInv
<1>3. Init => Unreleased
  BY DEF Init, Unreleased
<1>4. TypeInv /\ Unreleased /\ [Next]_vars => Unreleased'
  BY UnreleasedStep
<1> QED
  BY TypeInvInit, TypeInvStep, SafeInvInit, SafeInvStep, OwnMadeInit, RecoveryAlways,
     <1>1, <1>2, <1>3, <1>4, PTL
  DEF Spec, ProtectsOutput
=============================================================================
