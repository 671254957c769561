--------------------------- MODULE EmissionProofs ---------------------------
(* Theorems about Emission, for every plan, every number of processes and   *)
(* every way their targets may go.                                         *)
EXTENDS Emission, FiniteSetTheorems, WellFoundedInduction, TLAPS

(* How many of the first i positions of a plan are rendered on threads.     *)
Count(plan, i) == Cardinality({j \in Positions(plan) : j <= i})

(* A run that nothing disturbed, nor the one that recorded what it reads back. *)
Honest(p) == ~moved[p] /\ (run[p].recorded => run[p].key \notin tainted)

Outcomes(at) ==
  {Ok(files) : files \in SUBSET Files} \cup {Err(at, why) : why \in Ways \cup {"collision"}}
Results ==
  {None, Unwound} \cup Ways \cup UNION {Outcomes(at) : at \in Nat \cup {"posts", "graph"}}
Threads == [way : Ways \cup {"running", "joined"}, group : SUBSET Files]
Runs ==
  [pc : Steps, plan : Plans \cup {<<>>}, graph : Graphs \cup {None}, key : Keys \cup {None},
   recorded : BOOLEAN, groups : Seq(SUBSET Files), at : Nat, files : SUBSET Files, result : Results]

Types ==
  /\ TypeOK
  /\ run \in [Procs -> Runs]
  /\ task = [p \in Procs |-> task[p]]
  /\ \A p \in Procs : task[p] \in [DOMAIN task[p] -> Threads]

(* Where a run is in its plan.                                              *)
PlaceInv(p) ==
  /\ At(p, "idle") => run[p] = Idle
  /\ ~At(p, "idle") => run[p].plan \in Plans /\ run[p].graph \in Graphs
  /\ run[p].pc \in {"idle", "load"} => task[p] = <<>>
  /\ At(p, "load") => run[p].at = 0 /\ run[p].files = {} /\ run[p].groups = <<>> /\ ~run[p].recorded
  /\ run[p].pc \in {"save", "posts"} =>
       run[p].at = Len(run[p].plan) /\ run[p].result = Way(p, "graph")
  /\ At(p, "save") => run[p].result = "ok" /\ ~run[p].recorded /\ run[p].key # None
  /\ At(p, "leaving") =>
       /\ Turn(p) \in DOMAIN run[p].plan
       /\ run[p].result.kind = "err" /\ run[p].result.at = Turn(p)
       /\ Turn(p) \in DOMAIN task[p] => task[p][Turn(p)].way = "joined"

(* A key tells what its run was asked for, and what that reads.             *)
KeyInv(p) ==
  ~At(p, "idle") /\ run[p].key # None =>
    /\ run[p].key.graph = run[p].graph /\ run[p].key.targets = Declared(run[p].plan)
    /\ "tree" \notin ReadBy(run[p].plan)
    /\ ~moved[p] /\ "gofmt" \in ReadBy(run[p].plan) => run[p].key.gofmt = env

(* A thread that ended has what its job makes.                              *)
TaskInv(p) ==
  /\ run[p].recorded => task[p] = <<>> /\ run[p].key # None
  /\ ~run[p].recorded /\ run[p].pc \notin {"idle", "load"} =>
       DOMAIN task[p] = {0} \cup Positions(run[p].plan)
  /\ \A i \in DOMAIN task[p] : Finished(p, i) =>
       /\ task[p][i].way = Way(p, JobAt(p, i))
       /\ ~moved[p] => task[p][i].group = Rendered(p, i).group

(* What was placed, and all that was recorded, did not fail.                *)
WaysInv(p) ==
  /\ \A i \in Positions(run[p].plan) :
       i <= run[p].at \/ run[p].recorded => Way(p, run[p].plan[i]) = "ok"
  /\ run[p].recorded => Way(p, "graph") = "ok"

(* The groups to record are those placed; those read back are the ones to   *)
(* come.                                                                   *)
GroupsInv(p) ==
  LET plan == run[p].plan IN
  /\ run[p].pc \in {"place", "save"} /\ ~run[p].recorded =>
       /\ Len(run[p].groups) = Count(plan, run[p].at)
       /\ ~moved[p] => \A i \in Positions(plan) : i <= run[p].at =>
            run[p].groups[Count(plan, i)] = Group(plan[i], run[p].graph, env)
  /\ At(p, "place") /\ run[p].recorded =>
       /\ Len(run[p].groups) = Count(plan, Len(plan)) - Count(plan, run[p].at)
       /\ Honest(p) => \A i \in Positions(plan) : i > run[p].at =>
            run[p].groups[Count(plan, i) - Count(plan, run[p].at)]
              = Group(plan[i], run[p].graph, env)

(* What the run came to so far is what the sequential run comes to.         *)
SoFar(p) == Placed(run[p].plan, run[p].graph, fate, env)

SameInv(p) ==
  Honest(p) =>
    /\ run[p].pc \in {"load", "place", "save", "posts"} => SoFar(p)[run[p].at] = Ok(run[p].files)
    /\ At(p, "leaving") => SoFar(p)[Turn(p)] = run[p].result
    /\ At(p, "done") =>
         LET expected == Sequential(run[p].plan, run[p].graph) IN
         \/ run[p].result = expected
         \/ /\ run[p].result = Unwound /\ expected.kind = "err"
            /\ \E i \in DOMAIN task[p] : Way(p, JobAt(p, i)) = "panic" /\ i # expected.at

ProcInv(p) ==
  PlaceInv(p) /\ KeyInv(p) /\ TaskInv(p) /\ WaysInv(p) /\ GroupsInv(p) /\ SameInv(p)

(* The record is that of a run whose built-in targets did not fail, of some *)
(* plan that declares the targets of its key.                              *)
Records(plan) ==
  /\ record.key.targets = Declared(plan) /\ "tree" \notin ReadBy(plan)
  /\ \A i \in Positions(plan) : fate[<<plan[i], record.key.graph>>] = "ok"
  /\ fate[<<"graph", record.key.graph>>] = "ok"
  /\ Len(record.groups) = Count(plan, Len(plan))
  /\ record.key \notin tainted =>
       \A i \in Positions(plan) :
         record.groups[Count(plan, i)] = Group(plan[i], record.key.graph, record.key.gofmt)

RecordInv == record \notin {None, Junk} => \E plan \in Plans : Records(plan)

IInv == Types /\ RecordInv /\ \A p \in Procs : ProcInv(p)

-----------------------------------------------------------------------------
(* Induction, for sets of numbers.                                          *)

LEMMA Least ==
  ASSUME NEW T, T \subseteq Nat, T # {}
  PROVE  \E x \in T : \A y \in T : ~(y < x)
<1>1. PICK x \in T : \A y \in T : ~(<<y, x>> \in OpToRel(<, Nat))
  BY NatLessThanWellFounded, WFMin
<1>2. \A y \in T : y < x => <<y, x>> \in OpToRel(<, Nat)
  BY DEF OpToRel
<1> QED BY <1>1, <1>2

LEMMA Induction ==
  ASSUME NEW T, 0 \in T, \A n \in Nat : n \in T => n + 1 \in T
  PROVE  Nat \subseteq T
<1> SUFFICES ASSUME Nat \ T # {} PROVE FALSE
  OBVIOUS
<1>1. PICK x \in Nat \ T : \A y \in Nat \ T : ~(y < x)
  BY Least
<1>2. x # 0 /\ x - 1 \in Nat /\ x - 1 < x
  BY <1>1
<1> QED BY <1>1, <1>2

-----------------------------------------------------------------------------
(* The sequential run.                                                      *)

(* Position n of a plan, where the files so far are given.                  *)
PlacedAt(plan, g, ways, e, files, n) ==
  IF plan[n] \in Custom THEN Returned(files, n, ways[<<plan[n], g>>], plan[n], g, e)
  ELSE Adopted(files, n, ways[<<plan[n], g>>], Group(plan[n], g, e))

Follows(f, m, plan, g, ways, e) ==
  f = [n \in 0 .. m |-> IF n = 0 THEN Ok({})
                        ELSE IF f[n - 1].kind # "ok" THEN f[n - 1]
                        ELSE PlacedAt(plan, g, ways, e, f[n - 1].files, n)]

LEMMA PlacedExists ==
  ASSUME NEW plan, NEW g, NEW ways, NEW e, NEW m \in Nat
  PROVE  \E f : Follows(f, m, plan, g, ways, e)
<1> DEFINE T == {n \in Nat : \E f : Follows(f, n, plan, g, ways, e)}
<1>1. 0 \in T
  <2> DEFINE f == [n \in 0 .. 0 |-> Ok({})]
  <2>1. Follows(f, 0, plan, g, ways, e)
    BY DEF Follows
  <2> QED BY <2>1
<1>2. ASSUME NEW n \in Nat, n \in T PROVE n + 1 \in T
  <2>1. PICK f : Follows(f, n, plan, g, ways, e)
    BY <1>2
  <2> DEFINE last == IF f[n].kind # "ok" THEN f[n]
                     ELSE PlacedAt(plan, g, ways, e, f[n].files, n + 1)
             h == [k \in 0 .. n + 1 |-> IF k = n + 1 THEN last ELSE f[k]]
  <2>2. ASSUME NEW k \in 0 .. n + 1
        PROVE  h[k] = IF k = 0 THEN Ok({})
                      ELSE IF h[k - 1].kind # "ok" THEN h[k - 1]
                      ELSE PlacedAt(plan, g, ways, e, h[k - 1].files, k)
    <3>1. CASE k = n + 1
      <4>1. h[k] = last /\ h[k - 1] = f[n] /\ k - 1 = n /\ k # 0
        BY <3>1
      <4> QED BY <4>1, <3>1
    <3>2. CASE k = 0
      BY <2>1, <3>2 DEF Follows
    <3>3. CASE k # 0 /\ k # n + 1
      <4>1. k \in 0 .. n /\ k - 1 \in 0 .. n /\ h[k] = f[k] /\ h[k - 1] = f[k - 1]
        BY <3>3
      <4> HIDE DEF h
      <4> QED BY <2>1, <4>1, <3>3 DEF Follows
    <3> QED BY <3>1, <3>2, <3>3
  <2>3. Follows(h, n + 1, plan, g, ways, e)
    BY <2>2 DEF Follows
  <2> QED BY <2>3
<1> HIDE DEF T
<1>3. m \in T
  BY <1>1, <1>2, Induction
<1> QED BY <1>3 DEF T

LEMMA PlacedSteps ==
  ASSUME NEW plan, NEW g, NEW ways, NEW e, Len(plan) \in Nat
  PROVE  /\ Placed(plan, g, ways, e)[0] = Ok({})
         /\ \A n \in 1 .. Len(plan) :
              Placed(plan, g, ways, e)[n] =
                IF Placed(plan, g, ways, e)[n - 1].kind # "ok" THEN Placed(plan, g, ways, e)[n - 1]
                ELSE PlacedAt(plan, g, ways, e, Placed(plan, g, ways, e)[n - 1].files, n)
<1> DEFINE f == Placed(plan, g, ways, e)
<1>1. f = CHOOSE h : Follows(h, Len(plan), plan, g, ways, e)
  BY DEF Placed, Follows, PlacedAt
<1>2. Follows(f, Len(plan), plan, g, ways, e)
  BY <1>1, PlacedExists
<1> HIDE DEF f
<1>3. f[0] = Ok({})
  BY <1>2 DEF Follows
<1>4. ASSUME NEW n \in 1 .. Len(plan)
      PROVE  f[n] = IF f[n - 1].kind # "ok" THEN f[n - 1]
                    ELSE PlacedAt(plan, g, ways, e, f[n - 1].files, n)
  BY <1>2 DEF Follows
<1> QED BY <1>3, <1>4 DEF f

(* The first failure is what a run comes to.                                *)
LEMMA FailureStays ==
  ASSUME NEW plan, NEW g, NEW ways, NEW e, Len(plan) \in Nat,
         NEW i \in 0 .. Len(plan), Placed(plan, g, ways, e)[i].kind = "err"
  PROVE  Placed(plan, g, ways, e)[Len(plan)] = Placed(plan, g, ways, e)[i]
<1> DEFINE f == Placed(plan, g, ways, e)
           T == {n \in Nat : i + n <= Len(plan) => f[i + n] = f[i]}
<1>1. \A n \in 1 .. Len(plan) : f[n - 1].kind # "ok" => f[n] = f[n - 1]
  BY PlacedSteps
<1> HIDE DEF f
<1>2. f[i].kind # "ok"
  BY DEF f
<1>3. 0 \in T
  BY <1>2
<1>4. ASSUME NEW n \in Nat, n \in T PROVE n + 1 \in T
  <2>1. CASE i + n + 1 <= Len(plan)
    <3>1. i + n + 1 \in 1 .. Len(plan) /\ (i + n + 1) - 1 = i + n
      BY <2>1
    <3>2. f[i + n] = f[i]
      BY <1>4, <2>1
    <3>3. f[i + n + 1] = f[i]
      BY <1>1, <1>2, <3>1, <3>2
    <3> QED BY <3>3
  <2> QED BY <2>1
<1> HIDE DEF T
<1>5. Len(plan) - i \in T
  BY <1>3, <1>4, Induction
<1>6. i + (Len(plan) - i) = Len(plan)
  OBVIOUS
<1> QED BY <1>5, <1>6 DEF T, f

-----------------------------------------------------------------------------
(* Counting the positions that are rendered on threads.                     *)

LEMMA Counts ==
  ASSUME NEW plan \in Seq(Targets), NEW i \in Nat
  PROVE  /\ Count(plan, i) \in Nat /\ Count(plan, 0) = 0
         /\ Count(plan, i + 1) = Count(plan, i) + (IF i + 1 \in Positions(plan) THEN 1 ELSE 0)
<1> DEFINE upto(k) == {j \in Positions(plan) : j <= k}
<1>1. Positions(plan) \subseteq 1 .. Len(plan) /\ Len(plan) \in Nat
  BY DEF Positions
<1>2. IsFiniteSet(upto(i))
  <2>1. upto(i) \subseteq 1 .. Len(plan)
    BY <1>1
  <2>2. IsFiniteSet(1 .. Len(plan))
    BY <1>1, FS_Interval
  <2> HIDE DEF upto
  <2> QED BY <2>1, <2>2, FS_Subset
<1>3. upto(0) = {}
  BY <1>1
<1>4. upto(i + 1) = upto(i) \cup (IF i + 1 \in Positions(plan) THEN {i + 1} ELSE {})
  BY <1>1
<1>5. i + 1 \notin upto(i)
  BY <1>1
<1>6. Cardinality(upto(i)) \in Nat
  BY <1>2, FS_CardinalityType
<1>7. CASE i + 1 \in Positions(plan)
  <2>1. Cardinality(upto(i) \cup {i + 1}) = Cardinality(upto(i)) + 1
    BY <1>2, <1>5, FS_AddElement
  <2> QED BY <2>1, <1>3, <1>4, <1>6, <1>7, FS_EmptySet DEF Count
<1>8. CASE i + 1 \notin Positions(plan)
  <2>1. upto(i + 1) = upto(i)
    BY <1>4, <1>8
  <2>2. Count(plan, i + 1) = Count(plan, i) /\ Count(plan, i) \in Nat
    BY <2>1, <1>6 DEF Count
  <2>3. Count(plan, 0) = 0
    BY <1>3, FS_EmptySet DEF Count
  <2> QED BY <2>2, <2>3, <1>8
<1> QED BY <1>7, <1>8

LEMMA CountGrows ==
  ASSUME NEW plan \in Seq(Targets), NEW i \in Nat, NEW j \in Nat, i <= j
  PROVE  Count(plan, i) <= Count(plan, j)
<1>1. {k \in Positions(plan) : k <= i} \subseteq {k \in Positions(plan) : k <= j}
  BY DEF Positions
<1>2. IsFiniteSet({k \in Positions(plan) : k <= j})
  <2>1. {k \in Positions(plan) : k <= j} \subseteq 1 .. Len(plan)
    BY DEF Positions
  <2> QED BY <2>1, FS_Interval, FS_Subset
<1> QED BY <1>1, <1>2, FS_Subset DEF Count

(* The place of a position among those rendered, before and after another.  *)
LEMMA CountOf ==
  ASSUME NEW plan \in Seq(Targets), NEW i \in Positions(plan), NEW j \in Nat
  PROVE  /\ Count(plan, i) \in Nat /\ Count(plan, i) >= 1
         /\ i <= j => Count(plan, i) <= Count(plan, j)
         /\ j < i => Count(plan, j) < Count(plan, i)
<1>1. i \in Nat /\ i - 1 \in Nat /\ (i - 1) + 1 = i
  BY DEF Positions
<1>2. Count(plan, i) = Count(plan, i - 1) + 1 /\ Count(plan, i - 1) \in Nat /\ Count(plan, j) \in Nat
  BY <1>1, Counts
<1>3. j < i => Count(plan, j) <= Count(plan, i - 1)
  BY <1>1, CountGrows
<1> QED BY <1>1, <1>2, <1>3, CountGrows

-----------------------------------------------------------------------------
(* What jobs make, and what runs come to.                                   *)

LEMMA MadeFiles ==
  ASSUME NEW t \in Targets, NEW g \in Graphs, NEW e \in Versions, NEW paths, paths \subseteq Paths
  PROVE  [path : paths, text : {Text(t, g, e)}] \subseteq Files
BY DEF Text, Files

LEMMA GroupFiles ==
  ASSUME NEW t \in Targets, NEW g \in Graphs, NEW e \in Versions
  PROVE  Group(t, g, e) \subseteq Files
BY MadeFiles, EmissionAssumption DEF Group

LEMMA WaysOfJobs ==
  ASSUME NEW f \in Fates, NEW job \in Jobs, NEW g \in Graphs
  PROVE  f[<<job, g>>] \in Ways
<1>1. <<job, g>> \in Jobs \X Graphs /\ f \in [Jobs \X Graphs -> Ways]
  BY EmissionAssumption
<1> QED BY <1>1

LEMMA OutcomeFields ==
  ASSUME NEW at \in Nat \cup {"posts", "graph"}, NEW outcome \in Outcomes(at)
  PROVE  /\ outcome \in Results
         /\ outcome.kind = "ok" => outcome = Ok(outcome.files) /\ outcome.files \subseteq Files
         /\ outcome.kind # "ok" => outcome.kind = "err" /\ outcome.at = at
<1>1. outcome \in Results
  BY DEF Results
<1>2. CASE \E files \in SUBSET Files : outcome = Ok(files)
  BY <1>1, <1>2 DEF Ok
<1>3. CASE \E why \in Ways \cup {"collision"} : outcome = Err(at, why)
  BY <1>1, <1>3 DEF Err
<1> QED BY <1>2, <1>3 DEF Outcomes

LEMMA AdoptedOutcome ==
  ASSUME NEW files \in SUBSET Files, NEW at, NEW way \in Ways, NEW group \in SUBSET Files
  PROVE  /\ Adopted(files, at, way, group) \in Outcomes(at)
         /\ Adopted(files, at, way, group).kind = "ok" => way = "ok"
BY DEF Adopted, Outcomes, Ok, Err

LEMMA ReturnedOutcome ==
  ASSUME NEW files \in SUBSET Files, NEW at, NEW way \in Ways,
         NEW t \in Targets, NEW g \in Graphs, NEW e \in Versions
  PROVE  Returned(files, at, way, t, g, e) \in Outcomes(at)
<1> DEFINE new == [path : IF way = "claim" THEN Claims ELSE Writes[t], text : {Text(t, g, e)}]
<1>1. new \subseteq Files
  BY MadeFiles, EmissionAssumption
<1> HIDE DEF new
<1>2. {file \in files : file.path \notin PathsOf(new)} \cup new \in SUBSET Files
  BY <1>1
<1>3. Returned(files, at, way, t, g, e) =
        IF way \in {"ok", "claim"}
        THEN Ok({file \in files : file.path \notin PathsOf(new)} \cup new)
        ELSE Err(at, way)
  BY DEF Returned, new
<1> QED BY <1>2, <1>3 DEF Outcomes

LEMMA ConcludedResult ==
  ASSUME NEW files \in SUBSET Files, NEW posts \in Ways, NEW way \in Ways, NEW g \in Graphs
  PROVE  Concluded(files, posts, way, g) \in Results
<1>1. files \cup {GraphFile(g)} \in SUBSET Files
  BY EmissionAssumption DEF GraphFile, Files
<1>2. Concluded(files, posts, way, g) \in Outcomes("posts") \cup Outcomes("graph")
  BY <1>1 DEF Concluded, Outcomes
<1> QED BY <1>2 DEF Results

-----------------------------------------------------------------------------
(* A step of one process.                                                   *)

RecordTyped ==
  record \notin {None, Junk} => record.key \in Keys /\ record.groups \in Seq(SUBSET Files)

(* What a step leaves as it is for the other processes.                     *)
Kept == env' = env /\ fate' = fate /\ tainted \subseteq tainted'

Others(p) ==
  \A q \in Procs \ {p} : run'[q] = run[q] /\ task'[q] = task[q] /\ moved'[q] = moved[q]

Typed(p) ==
  /\ run' \in [Procs -> Runs] /\ run'[p].at <= Len(run'[p].plan)
  /\ task' = [q \in Procs |-> task'[q]]
  /\ task'[p] \in [DOMAIN task'[p] -> Threads]
  /\ DOMAIN task'[p] \subseteq {0} \cup Positions(run'[p].plan)
  /\ RecordTyped'
  /\ moved' \in [Procs -> BOOLEAN] /\ tainted' \subseteq Keys /\ faults' \in 0 .. MaxFaults

LEMMA StepTypes ==
  ASSUME Types, NEW p \in Procs, Kept, Others(p), Typed(p)
  PROVE  Types'
<1>1. ASSUME NEW q \in Procs
      PROVE  /\ run'[q].at <= Len(run'[q].plan)
             /\ task'[q] \in [DOMAIN task'[q] -> Threads]
             /\ DOMAIN task'[q] \subseteq {0} \cup Positions(run'[q].plan)
  BY DEF Types, TypeOK, Typed, Others
<1>2. ASSUME NEW q \in Procs
      PROVE  /\ run'[q].pc \in Steps
             /\ run'[q].plan \in Plans \cup {<<>>} /\ run'[q].graph \in Graphs \cup {None}
             /\ run'[q].key \in Keys \cup {None}
             /\ run'[q].at \in 0 .. Len(run'[q].plan)
             /\ run'[q].files \subseteq Files /\ run'[q].groups \in Seq(SUBSET Files)
  <2>1. run'[q] \in Runs
    BY DEF Typed
  <2>2. Len(run'[q].plan) \in Nat
    BY <2>1, EmissionAssumption DEF Runs
  <2> QED BY <1>1, <2>1, <2>2 DEF Runs
<1>3. fate' \in Fates /\ env' \in Versions
  BY DEF Kept, Types, TypeOK
<1> QED BY <1>1, <1>2, <1>3 DEF Types, TypeOK, Typed, RecordTyped

LEMMA Apart ==
  ASSUME NEW q \in Procs, ProcInv(q), Kept,
         run'[q] = run[q], task'[q] = task[q], moved'[q] = moved[q]
  PROVE  ProcInv(q)'
<1> USE DEF Kept
<1>1. PlaceInv(q)' /\ KeyInv(q)'
  BY DEF ProcInv, PlaceInv, KeyInv, At, Turn, Way
<1>2. TaskInv(q)' /\ WaysInv(q)'
  BY DEF ProcInv, TaskInv, WaysInv, Finished, Way, JobAt, Rendered
<1>3. GroupsInv(q)'
  BY DEF ProcInv, GroupsInv, At, Honest
<1>4. Sequential(run[q].plan, run[q].graph)' = Sequential(run[q].plan, run[q].graph)
  BY DEF Sequential
<1>5. SameInv(q)'
  BY <1>4 DEF ProcInv, SameInv, At, Honest, SoFar, Turn, Way, JobAt
<1> QED BY <1>1, <1>2, <1>3, <1>5 DEF ProcInv

LEMMA Alone ==
  ASSUME IInv, NEW p \in Procs, Kept, Others(p), Typed(p), RecordInv', ProcInv(p)'
  PROVE  IInv'
<1>1. Types'
  BY StepTypes DEF IInv
<1>2. ASSUME NEW q \in Procs PROVE ProcInv(q)'
  BY Apart DEF IInv, Others
<1> QED BY <1>1, <1>2 DEF IInv

LEMMA SameRecord ==
  ASSUME RecordInv, Kept, record' = record
  PROVE  RecordInv'
BY DEF RecordInv, Records, Kept

-----------------------------------------------------------------------------
(* The steps of a run.                                                      *)

(* What the state of one process is known to be.                            *)
LEMMA ProcTypes ==
  ASSUME IInv, NEW p \in Procs
  PROVE  /\ run[p] \in Runs /\ run[p].at \in 0 .. Len(run[p].plan)
         /\ run[p].plan \in Seq(Targets) /\ Len(run[p].plan) \in Nat
         /\ Positions(run[p].plan) \subseteq 1 .. Len(run[p].plan)
         /\ task[p] \in [DOMAIN task[p] -> Threads]
         /\ DOMAIN task[p] \subseteq {0} \cup Positions(run[p].plan)
         /\ fate \in Fates /\ env \in Versions /\ RecordTyped
<1>1. run[p] \in Runs
  BY DEF IInv, Types
<1>2. run[p].plan \in Seq(Targets)
  <2>1. run[p].plan \in Plans \cup {<<>>}
    BY <1>1 DEF Runs
  <2>2. <<>> \in Seq(Targets)
    OBVIOUS
  <2> QED BY <2>1, <2>2, EmissionAssumption
<1> QED BY <1>1, <1>2 DEF IInv, Types, TypeOK, Positions, RecordTyped

LEMMA NoThreads == DOMAIN <<>> = {} /\ <<>> \in [{} -> Threads]
<1>1. <<>> = [i \in {} |-> 0]
  OBVIOUS
<1> QED BY <1>1

LEMMA InitInv == Init => IInv
<1> SUFFICES ASSUME Init PROVE IInv
  OBVIOUS
<1>1. Idle \in Runs
  BY DEF Idle, Runs, Steps, Results
<1>2. \A p \in Procs : run[p] = Idle /\ task[p] = <<>> /\ moved[p] = FALSE
  BY DEF Init
<1>3. Len(Idle.plan) = 0 /\ Idle.at = 0
  BY DEF Idle
<1>4. Types
  <2>1. /\ Idle.pc \in Steps
        /\ Idle.plan \in Plans \cup {<<>>} /\ Idle.graph \in Graphs \cup {None}
        /\ Idle.key \in Keys \cup {None} /\ Idle.at \in 0 .. Len(Idle.plan)
        /\ Idle.files \subseteq Files /\ Idle.groups \in Seq(SUBSET Files)
    BY <1>3 DEF Idle, Steps
  <2>2. \A p \in Procs : DOMAIN task[p] = {} /\ task[p] \in [DOMAIN task[p] -> Threads]
    BY <1>2, NoThreads
  <2>3. run \in [Procs -> Runs] /\ task = [p \in Procs |-> task[p]]
    BY <1>1 DEF Init
  <2> QED BY <1>2, <2>1, <2>2, <2>3, EmissionAssumption DEF Types, TypeOK, Init
<1>5. RecordInv
  BY DEF Init, RecordInv
<1>6. ASSUME NEW p \in Procs PROVE ProcInv(p)
  <2>1. /\ At(p, "idle") /\ ~run[p].recorded /\ run[p].at = 0
        /\ run[p].plan = <<>> /\ task[p] = <<>>
    BY <1>2 DEF Idle, At
  <2>2. PlaceInv(p) /\ KeyInv(p)
    BY <1>2, <2>1 DEF PlaceInv, KeyInv, At
  <2>3. TaskInv(p) /\ WaysInv(p)
    BY <2>1 DEF TaskInv, WaysInv, Positions, At
  <2>4. GroupsInv(p) /\ SameInv(p)
    BY <2>1 DEF GroupsInv, SameInv, At
  <2> QED BY <2>2, <2>3, <2>4 DEF ProcInv
<1> QED BY <1>4, <1>5, <1>6 DEF IInv

LEMMA BeginInv ==
  ASSUME IInv, NEW p \in Procs, NEW plan \in Plans, NEW g \in Graphs, Begin(p, plan, g)
  PROVE  IInv'
<1>t. /\ run[p] = Idle /\ task[p] = <<>> /\ plan \in Seq(Targets) /\ env \in Versions
      /\ fate \in Fates
  BY EmissionAssumption DEF IInv, ProcInv, PlaceInv, Begin, At, Types, TypeOK
<1>k. Key(plan, g) \in Keys \cup {None}
  BY <1>t DEF Key, Keys
<1>1. run' = [run EXCEPT ![p] = [Idle EXCEPT !.pc = "load", !.plan = plan, !.graph = g,
                                            !.key = Key(plan, g)]]
  BY DEF Begin
<1>2. /\ run'[p].pc = "load" /\ run'[p].plan = plan /\ run'[p].graph = g
      /\ run'[p].key = Key(plan, g) /\ ~run'[p].recorded /\ run'[p].groups = <<>>
      /\ run'[p].at = 0 /\ run'[p].files = {}
      /\ run'[p] \in Runs
  BY <1>t, <1>k, <1>1 DEF Idle, Runs, IInv, Types, Steps, Results
<1>3. Kept /\ Others(p) /\ record' = record /\ task' = task
  BY <1>1 DEF Begin, Kept, Others, IInv, Types
<1>4. Typed(p)
  <2>1. run' \in [Procs -> Runs]
    BY <1>1, <1>2 DEF IInv, Types
  <2>2. Len(plan) \in Nat /\ DOMAIN task[p] = {}
    BY <1>t
  <2> QED BY <1>2, <1>3, <2>1, <2>2 DEF Typed, IInv, Types, TypeOK, Begin, RecordTyped
<1>5. ProcInv(p)'
  <2>1. PlaceInv(p)'
    BY <1>t, <1>2, <1>3 DEF PlaceInv, At
  <2>2. KeyInv(p)'
    BY <1>t, <1>2, <1>3 DEF KeyInv, Key, At, Kept
  <2>3. TaskInv(p)'
    BY <1>t, <1>2, <1>3 DEF TaskInv
  <2>4. WaysInv(p)'
    BY <1>t, <1>2 DEF WaysInv, Positions
  <2>5. GroupsInv(p)'
    BY <1>2 DEF GroupsInv, At
  <2>6. SameInv(p)'
    <3>1. SoFar(p)'[0] = Ok({})
      BY <1>t, <1>2, PlacedSteps DEF SoFar
    <3> QED BY <1>2, <3>1 DEF SameInv, At
  <2> QED BY <2>1, <2>2, <2>3, <2>4, <2>5, <2>6 DEF ProcInv
<1> QED BY <1>3, <1>4, <1>5, Alone, SameRecord DEF IInv

(* Plans that declare the same targets render the same ones.                *)
LEMMA SameDeclared ==
  ASSUME NEW plan \in Seq(Targets), NEW other \in Seq(Targets), Declared(plan) = Declared(other)
  PROVE  /\ Positions(plan) = Positions(other)
         /\ \A i \in Positions(plan) : plan[i] = other[i]
         /\ \A i : Count(plan, i) = Count(other, i)
         /\ Count(plan, Len(plan)) = Count(other, Len(other))
<1>1. ASSUME NEW i \in Positions(plan) PROVE i \in Positions(other) /\ plan[i] = other[i]
  <2>1. <<i, plan[i]>> \in Declared(other)
    BY DEF Declared
  <2> QED BY <2>1 DEF Declared
<1>2. ASSUME NEW i \in Positions(other) PROVE i \in Positions(plan)
  <2>1. <<i, other[i]>> \in Declared(plan)
    BY DEF Declared
  <2> QED BY <2>1 DEF Declared
<1>3. Positions(plan) = Positions(other)
  BY <1>1, <1>2
<1>4. \A i : Count(plan, i) = Count(other, i)
  BY <1>3 DEF Count
<1>5. {i \in Positions(plan) : i <= Len(plan)} = {i \in Positions(other) : i <= Len(other)}
  BY <1>3 DEF Positions
<1> QED BY <1>1, <1>3, <1>4, <1>5 DEF Count

(* What a run reads back is what its targets make.                          *)
LEMMA ReadBack ==
  ASSUME IInv, NEW p \in Procs, Answers(p), ~At(p, "idle")
  PROVE  /\ run[p].key # None /\ record.groups \in Seq(SUBSET Files)
         /\ \A i \in Positions(run[p].plan) : Way(p, run[p].plan[i]) = "ok"
         /\ Way(p, "graph") = "ok"
         /\ Len(record.groups) = Count(run[p].plan, Len(run[p].plan))
         /\ ~moved[p] /\ run[p].key \notin tainted => \A i \in Positions(run[p].plan) :
              record.groups[Count(run[p].plan, i)] = Group(run[p].plan[i], run[p].graph, env)
<1> DEFINE plan == run[p].plan
<1>1. PICK other \in Plans : Records(other)
  BY DEF Answers, IInv, RecordInv
<1>2. /\ run[p].key # None /\ record.key = run[p].key /\ record.groups \in Seq(SUBSET Files)
      /\ record.key.graph = run[p].graph /\ Declared(plan) = Declared(other)
      /\ ~moved[p] /\ "gofmt" \in ReadBy(plan) => record.key.gofmt = env
      /\ "tree" \notin ReadBy(plan)
  BY <1>1, ProcTypes DEF Answers, IInv, ProcInv, KeyInv, Records, RecordTyped
<1>3. plan \in Seq(Targets) /\ other \in Seq(Targets)
  BY <1>1, ProcTypes, EmissionAssumption
<1>4. /\ Positions(plan) = Positions(other)
      /\ \A i \in Positions(plan) : plan[i] = other[i]
      /\ \A i : Count(plan, i) = Count(other, i)
      /\ Count(plan, Len(plan)) = Count(other, Len(other))
  BY <1>2, <1>3, SameDeclared
<1>5. ASSUME ~moved[p], NEW i \in Positions(plan)
      PROVE  Group(plan[i], run[p].graph, record.key.gofmt) = Group(plan[i], run[p].graph, env)
  <2>1. Reads[plan[i]] \in ReadBy(plan) /\ plan[i] \in Targets
    BY <1>3 DEF ReadBy, Positions
  <2>2. Reads[plan[i]] = "nothing" \/ record.key.gofmt = env
    BY <1>2, <1>5, <2>1, EmissionAssumption
  <2> QED BY <2>2 DEF Group, Text
<1> QED BY <1>1, <1>2, <1>4, <1>5 DEF Records, Way

LEMMA LoadInv ==
  ASSUME IInv, NEW p \in Procs, Load(p)
  PROVE  IInv'
<1>t. /\ run[p] \in Runs /\ run[p].plan \in Seq(Targets) /\ Len(run[p].plan) \in Nat
      /\ run[p].plan \in Plans /\ run[p].graph \in Graphs
      /\ run[p].pc = "load" /\ task[p] = <<>> /\ run[p].at = 0 /\ run[p].files = {}
      /\ run[p].groups = <<>> /\ ~run[p].recorded
      /\ Positions(run[p].plan) \subseteq 1 .. Len(run[p].plan)
  BY ProcTypes DEF Load, At, IInv, ProcInv, PlaceInv
<1>u. Kept /\ record' = record /\ UNCHANGED <<env, fate, moved, tainted, faults>>
  BY DEF Load, Kept
<1>s. Honest(p) => SoFar(p)[0] = Ok({})
  BY <1>t DEF IInv, ProcInv, SameInv
<1>c. Count(run[p].plan, 0) = 0 /\ Count(run[p].plan, Len(run[p].plan)) \in Nat
  BY <1>t, Counts
<1>1. CASE Answers(p)
  <2>1. /\ run' = [run EXCEPT ![p].pc = "place", ![p].recorded = TRUE, ![p].groups = record.groups]
        /\ task' = task
    BY <1>1 DEF Load
  <2>2. /\ run[p].key # None /\ record.groups \in Seq(SUBSET Files)
        /\ \A i \in Positions(run[p].plan) : Way(p, run[p].plan[i]) = "ok"
        /\ Way(p, "graph") = "ok"
        /\ Len(record.groups) = Count(run[p].plan, Len(run[p].plan))
        /\ ~moved[p] /\ run[p].key \notin tainted => \A i \in Positions(run[p].plan) :
             record.groups[Count(run[p].plan, i)] = Group(run[p].plan[i], run[p].graph, env)
    BY <1>t, <1>1, ReadBack DEF At
  <2>3. /\ run'[p].pc = "place" /\ run'[p].recorded /\ run'[p].groups = record.groups
        /\ run'[p].plan = run[p].plan /\ run'[p].graph = run[p].graph /\ run'[p].key = run[p].key
        /\ run'[p].at = 0 /\ run'[p].files = {} /\ run'[p].result = run[p].result
        /\ run'[p] \in Runs
    BY <1>t, <2>1, <2>2 DEF Runs, Steps, IInv, Types
  <2>4. Others(p) /\ run' \in [Procs -> Runs]
    BY <2>1, <2>3, <1>u DEF Others, IInv, Types
  <2>5. Typed(p)
    BY <1>t, <1>u, <2>1, <2>3, <2>4 DEF Typed, IInv, Types, TypeOK, RecordTyped
  <2>6. PlaceInv(p)' /\ KeyInv(p)' /\ TaskInv(p)' /\ WaysInv(p)'
    <3>1. PlaceInv(p)' /\ KeyInv(p)'
      BY <1>t, <1>u, <2>3 DEF PlaceInv, KeyInv, At, IInv, ProcInv
    <3>2. TaskInv(p)' /\ WaysInv(p)'
      BY <1>t, <1>u, <2>1, <2>2, <2>3, NoThreads DEF TaskInv, WaysInv, Way
    <3> QED BY <3>1, <3>2
  <2>7. GroupsInv(p)'
    <3>1. Honest(p)' => ~moved[p] /\ run[p].key \notin tainted
      BY <1>u, <2>3 DEF Honest
    <3>2. ASSUME NEW i \in Positions(run[p].plan)
          PROVE  Count(run[p].plan, i) - 0 = Count(run[p].plan, i)
      BY <1>t, CountOf
    <3> QED BY <1>t, <1>u, <1>c, <2>2, <2>3, <3>1, <3>2 DEF GroupsInv, At
  <2>8. SameInv(p)'
    BY <1>t, <1>u, <1>s, <2>3 DEF SameInv, Honest, SoFar, At
  <2> QED BY <1>u, <2>4, <2>5, <2>6, <2>7, <2>8, Alone, SameRecord DEF IInv, ProcInv
<1>2. CASE ~Answers(p)
  <2> DEFINE new == [i \in {0} \cup Positions(run[p].plan) |-> Thread("running")]
  <2>1. run' = [run EXCEPT ![p].pc = "place"] /\ task' = [task EXCEPT ![p] = new]
    BY <1>2 DEF Load
  <2>2. Thread("running") \in Threads /\ Thread("running").way = "running"
    BY DEF Thread, Threads
  <2>3. /\ run'[p].pc = "place" /\ ~run'[p].recorded /\ run'[p].groups = <<>>
        /\ run'[p].plan = run[p].plan /\ run'[p].graph = run[p].graph /\ run'[p].key = run[p].key
        /\ run'[p].at = 0 /\ run'[p].files = {} /\ run'[p].result = run[p].result
        /\ run'[p] \in Runs
    BY <1>t, <2>1 DEF Runs, Steps, IInv, Types
  <2>4. Others(p) /\ run' \in [Procs -> Runs]
    BY <2>1, <2>3, <1>u DEF Others, IInv, Types
  <2>5. task'[p] = new /\ task' = [q \in Procs |-> task'[q]]
    BY <2>1 DEF IInv, Types
  <2>6. /\ DOMAIN task'[p] = {0} \cup Positions(run[p].plan)
        /\ \A i \in DOMAIN task'[p] : task'[p][i] = Thread("running")
        /\ task'[p] \in [DOMAIN task'[p] -> Threads]
    BY <2>2, <2>5
  <2> HIDE DEF new
  <2>7. Typed(p)
    BY <1>t, <1>u, <2>3, <2>4, <2>5, <2>6 DEF Typed, IInv, Types, TypeOK, RecordTyped
  <2>8. PlaceInv(p)' /\ KeyInv(p)'
    BY <1>t, <1>u, <2>3 DEF PlaceInv, KeyInv, At, IInv, ProcInv
  <2>9. TaskInv(p)' /\ WaysInv(p)'
    BY <1>t, <1>u, <2>2, <2>3, <2>6 DEF TaskInv, WaysInv, Way, Finished
  <2>10. GroupsInv(p)'
    BY <1>t, <1>u, <1>c, <2>3 DEF GroupsInv, At
  <2>11. SameInv(p)'
    BY <1>t, <1>u, <1>s, <2>3 DEF SameInv, Honest, SoFar, At
  <2> QED BY <1>u, <2>4, <2>7, <2>8, <2>9, <2>10, <2>11, Alone, SameRecord DEF IInv, ProcInv
<1> QED BY <1>1, <1>2

LEMMA RenderInv ==
  ASSUME IInv, NEW p \in Procs, NEW i \in DOMAIN task[p], Render(p, i)
  PROVE  IInv'
<1>t. /\ run[p] \in Runs /\ run[p].plan \in Seq(Targets)
      /\ task[p] \in [DOMAIN task[p] -> Threads] /\ task[p][i].way = "running"
      /\ i \in {0} \cup Positions(run[p].plan)
      /\ run[p].at \in 0 .. Len(run[p].plan) /\ fate \in Fates /\ env \in Versions
  BY ProcTypes DEF Render, Running
<1>g. run[p].graph \in Graphs /\ run[p].pc \notin {"idle", "load"}
  <2>1. task[p] # <<>>
    BY NoThreads
  <2> QED BY <2>1 DEF IInv, ProcInv, PlaceInv, At
<1>u. Kept /\ record' = record /\ run' = run /\ UNCHANGED <<env, fate, moved, tainted, faults>>
  BY DEF Render, Kept
<1>1. task' = [task EXCEPT ![p][i] = Rendered(p, i)]
  BY DEF Render
<1>2. Rendered(p, i) \in Threads
  <2>1. JobAt(p, i) \in Jobs
    BY <1>t DEF JobAt, Jobs, Positions
  <2>2. Way(p, JobAt(p, i)) \in Ways
    BY <1>t, <1>g, <2>1, WaysOfJobs DEF Way
  <2>3. GraphFile(run[p].graph) \in Files
    BY <1>g, EmissionAssumption DEF GraphFile, Files
  <2>4. i # 0 => Group(run[p].plan[i], run[p].graph, env) \subseteq Files
    BY <1>t, <1>g, GroupFiles DEF Positions
  <2> QED BY <2>2, <2>3, <2>4 DEF Rendered, Threads
<1>3. /\ task' = [q \in Procs |-> task'[q]]
      /\ \A q \in Procs \ {p} : task'[q] = task[q]
      /\ DOMAIN task'[p] = DOMAIN task[p]
      /\ \A j \in DOMAIN task[p] : task'[p][j] = IF j = i THEN Rendered(p, i) ELSE task[p][j]
      /\ task'[p] \in [DOMAIN task'[p] -> Threads]
  BY <1>t, <1>1, <1>2 DEF IInv, Types
<1>4. Others(p) /\ Typed(p)
  BY <1>u, <1>3 DEF Others, Typed, IInv, Types, TypeOK, RecordTyped
<1>5. PlaceInv(p)'
  BY <1>t, <1>g, <1>u, <1>3 DEF PlaceInv, At, Turn, Way, IInv, ProcInv
<1>6. TaskInv(p)'
  <2>1. run[p].recorded = FALSE
    BY <1>t, NoThreads DEF IInv, ProcInv, TaskInv, Runs
  <2>2. ASSUME NEW j \in DOMAIN task[p], Finished(p, j)'
        PROVE  /\ task'[p][j].way = Way(p, JobAt(p, j))
               /\ ~moved[p] => task'[p][j].group = Rendered(p, j).group
    <3>1. CASE j = i
      BY <1>3, <3>1 DEF Rendered
    <3>2. CASE j # i
      BY <1>3, <2>2, <3>2 DEF Finished, IInv, ProcInv, TaskInv
    <3> QED BY <3>1, <3>2
  <2>3. ASSUME NEW j
        PROVE  /\ Way(p, JobAt(p, j))' = Way(p, JobAt(p, j))
               /\ Rendered(p, j)' = Rendered(p, j)
    BY <1>u DEF Way, JobAt, Rendered
  <2> QED BY <1>g, <1>u, <1>3, <2>1, <2>2, <2>3 DEF TaskInv, IInv, ProcInv
<1>7. KeyInv(p)' /\ WaysInv(p)' /\ GroupsInv(p)'
  BY <1>u DEF KeyInv, WaysInv, GroupsInv, Honest, At, Way, IInv, ProcInv
<1>8. SameInv(p)'
  <2>1. Sequential(run[p].plan, run[p].graph)' = Sequential(run[p].plan, run[p].graph)
    BY <1>u DEF Sequential
  <2> QED BY <1>u, <1>3, <2>1 DEF SameInv, Honest, SoFar, At, Turn, Way, JobAt, IInv, ProcInv
<1> QED BY <1>u, <1>4, <1>5, <1>6, <1>7, <1>8, Alone, SameRecord DEF IInv, ProcInv

-----------------------------------------------------------------------------
(* Placing a target.                                                        *)

LEMMA ContinueFields ==
  ASSUME IInv, NEW p \in Procs, Placing(p), NEW outcome \in Outcomes(Turn(p)),
         NEW groups \in Seq(SUBSET Files), Continue(p, outcome, groups)
  PROVE  /\ run' \in [Procs -> Runs] /\ \A q \in Procs \ {p} : run'[q] = run[q]
         /\ run'[p].plan = run[p].plan /\ run'[p].graph = run[p].graph
         /\ run'[p].key = run[p].key /\ run'[p].recorded = run[p].recorded
         /\ run'[p].at <= Len(run[p].plan)
         /\ outcome.kind = "ok" =>
              /\ run'[p].pc = "place" /\ run'[p].at = run[p].at + 1
              /\ run'[p].groups = groups /\ run'[p].files = outcome.files
         /\ outcome.kind # "ok" =>
              /\ outcome.kind = "err" /\ outcome.at = Turn(p)
              /\ run'[p].pc = "leaving" /\ run'[p].result = outcome
              /\ run'[p].at = run[p].at
<1>t. /\ run[p] \in Runs /\ run \in [Procs -> Runs] /\ run[p].at \in 0 .. Len(run[p].plan)
      /\ Turn(p) = run[p].at + 1 /\ run[p].at + 1 <= Len(run[p].plan) /\ Len(run[p].plan) \in Nat
      /\ Turn(p) \in Nat /\ run[p].pc = "place"
  BY ProcTypes DEF IInv, Types, Placing, Turn, At
<1>o. /\ outcome \in Results
      /\ outcome.kind = "ok" => outcome.files \subseteq Files
      /\ outcome.kind # "ok" => outcome.kind = "err" /\ outcome.at = Turn(p)
  BY <1>t, OutcomeFields
<1>1. CASE outcome.kind = "ok"
  <2>1. run' = [run EXCEPT ![p].at = @ + 1, ![p].files = outcome.files, ![p].groups = groups]
    BY <1>1 DEF Continue
  <2> QED BY <1>t, <1>o, <1>1, <2>1 DEF Runs
<1>2. CASE outcome.kind # "ok"
  <2>1. run' = [run EXCEPT ![p].pc = "leaving", ![p].result = outcome]
    BY <1>2 DEF Continue
  <2>2. /\ run'[p] = [run[p] EXCEPT !.pc = "leaving", !.result = outcome]
        /\ \A q \in Procs \ {p} : run'[q] = run[q]
        /\ run' = [q \in Procs |-> run'[q]]
    BY <1>t, <2>1
  <2>3. run'[p] \in Runs
    BY <1>t, <1>o, <2>2 DEF Runs, Steps
  <2>4. run' \in [Procs -> Runs]
    BY <1>t, <2>2, <2>3
  <2>5. /\ run'[p].plan = run[p].plan /\ run'[p].graph = run[p].graph
        /\ run'[p].key = run[p].key /\ run'[p].recorded = run[p].recorded
        /\ run'[p].pc = "leaving" /\ run'[p].result = outcome /\ run'[p].at = run[p].at
    BY <1>t, <2>2 DEF Runs
  <2> QED BY <1>t, <1>o, <1>2, <2>2, <2>4, <2>5
<1> QED BY <1>1, <1>2

(* One target more is placed as the sequential run places it, or fails as   *)
(* there; what is left to show is how the groups and the threads are left. *)
LEMMA PlacingInv ==
  ASSUME IInv, NEW p \in Procs, Placing(p), NEW outcome \in Outcomes(Turn(p)),
         NEW groups \in Seq(SUBSET Files), Continue(p, outcome, groups),
         UNCHANGED <<fate, env, record, moved, tainted, faults>>,
         task' = [q \in Procs |-> task'[q]], \A q \in Procs \ {p} : task'[q] = task[q],
         task'[p] \in [DOMAIN task[p] -> Threads],
         \A i \in DOMAIN task[p] : task'[p][i] = task[p][i] \/ task'[p][i].way = "joined",
         Turn(p) \in DOMAIN task[p] => task'[p][Turn(p)].way = "joined",
         ~run[p].recorded \/ task'[p] = task[p],
         Honest(p) => outcome = PlacedAt(run[p].plan, run[p].graph, fate, env, run[p].files, Turn(p)),
         outcome.kind = "ok" /\ run[p].plan[Turn(p)] \notin Custom
           => Way(p, run[p].plan[Turn(p)]) = "ok",
         outcome.kind = "ok" => GroupsInv(p)'
  PROVE  IInv'
<1>t. /\ run[p] \in Runs /\ run[p].at \in 0 .. Len(run[p].plan)
      /\ Turn(p) = run[p].at + 1 /\ run[p].at + 1 <= Len(run[p].plan) /\ Len(run[p].plan) \in Nat
      /\ Turn(p) \in Nat /\ Turn(p) - 1 = run[p].at /\ Turn(p) \in 1 .. Len(run[p].plan)
      /\ run[p].pc = "place" /\ Positions(run[p].plan) \subseteq 1 .. Len(run[p].plan)
      /\ DOMAIN task[p] \subseteq {0} \cup Positions(run[p].plan)
      /\ run[p].plan \in Plans /\ run[p].graph \in Graphs /\ run[p].plan \in Seq(Targets)
  BY ProcTypes DEF Placing, Turn, At, IInv, ProcInv, PlaceInv
<1>d. DOMAIN run[p].plan = 1 .. Len(run[p].plan)
  BY <1>t
<1>f. /\ run' \in [Procs -> Runs] /\ \A q \in Procs \ {p} : run'[q] = run[q]
      /\ run'[p].plan = run[p].plan /\ run'[p].graph = run[p].graph
      /\ run'[p].key = run[p].key /\ run'[p].recorded = run[p].recorded
      /\ run'[p].at <= Len(run[p].plan)
      /\ outcome.kind = "ok" =>
           /\ run'[p].pc = "place" /\ run'[p].at = run[p].at + 1
           /\ run'[p].groups = groups /\ run'[p].files = outcome.files
      /\ outcome.kind # "ok" =>
           /\ outcome.kind = "err" /\ outcome.at = Turn(p)
           /\ run'[p].pc = "leaving" /\ run'[p].result = outcome
           /\ run'[p].at = run[p].at
  BY ContinueFields
<1>1. Kept /\ Others(p)
  BY <1>f DEF Kept, Others
<1>2. DOMAIN task'[p] = DOMAIN task[p]
  OBVIOUS
<1>3. Typed(p)
  BY <1>t, <1>f, <1>2 DEF Typed, IInv, Types, TypeOK, RecordTyped
<1>4. PlaceInv(p)'
  <2>1. CASE outcome.kind = "ok"
    BY <1>t, <1>f, <2>1 DEF PlaceInv, At
  <2>2. CASE outcome.kind # "ok"
    <3>1. Turn(p)' = Turn(p)
      BY <1>f, <2>2 DEF Turn
    <3> QED BY <1>t, <1>d, <1>f, <1>2, <2>2, <3>1 DEF PlaceInv, At
  <2> QED BY <2>1, <2>2
<1>5. KeyInv(p)'
  BY <1>t, <1>f DEF KeyInv, At, IInv, ProcInv
<1>6. TaskInv(p)'
  <2>1. ASSUME NEW i \in DOMAIN task[p], Finished(p, i)'
        PROVE  /\ task'[p][i].way = Way(p, JobAt(p, i))
               /\ ~moved[p] => task'[p][i].group = Rendered(p, i).group
    <3>1. task'[p][i] = task[p][i]
      BY <2>1 DEF Finished
    <3> QED BY <1>2, <2>1, <3>1 DEF Finished, IInv, ProcInv, TaskInv
  <2>2. ASSUME NEW i
        PROVE  /\ Way(p, JobAt(p, i))' = Way(p, JobAt(p, i))
               /\ Rendered(p, i)' = Rendered(p, i)
    BY <1>f DEF Way, JobAt, Rendered
  <2>3. run[p].recorded => task'[p] = <<>> /\ run[p].key # None
    BY DEF IInv, ProcInv, TaskInv
  <2>4. ~run[p].recorded => DOMAIN task'[p] = {0} \cup Positions(run[p].plan)
    BY <1>t, <1>2 DEF IInv, ProcInv, TaskInv
  <2> QED BY <1>f, <1>2, <2>1, <2>2, <2>3, <2>4 DEF TaskInv
<1>7. WaysInv(p)'
  <2>1. ASSUME NEW i \in Positions(run[p].plan), i <= run'[p].at \/ run[p].recorded
        PROVE  Way(p, run[p].plan[i]) = "ok"
    <3>1. CASE i <= run[p].at \/ run[p].recorded
      BY <3>1 DEF IInv, ProcInv, WaysInv
    <3>2. CASE ~(i <= run[p].at \/ run[p].recorded)
      <4>1. i = Turn(p) /\ outcome.kind = "ok" /\ run[p].plan[i] \notin Custom
        BY <1>t, <1>f, <2>1, <3>2 DEF Positions
      <4> QED BY <4>1
    <3> QED BY <3>1, <3>2
  <2>2. \A job : Way(p, job)' = Way(p, job)
    BY <1>f DEF Way
  <2>3. run[p].recorded => Way(p, "graph") = "ok"
    BY DEF IInv, ProcInv, WaysInv
  <2> QED BY <1>f, <2>1, <2>2, <2>3 DEF WaysInv
<1>8. GroupsInv(p)'
  BY <1>f DEF GroupsInv, At
<1>9. SameInv(p)'
  <2> SUFFICES ASSUME Honest(p) PROVE SameInv(p)'
    BY <1>f DEF SameInv, Honest
  <2>1. SoFar(p)' = SoFar(p)
    BY <1>f DEF SoFar
  <2>2. SoFar(p)[run[p].at] = Ok(run[p].files)
    BY <1>t DEF IInv, ProcInv, SameInv
  <2>3. Ok(run[p].files).kind = "ok" /\ Ok(run[p].files).files = run[p].files
    BY DEF Ok
  <2>4. SoFar(p)[Turn(p)] = outcome
    <3>1. SoFar(p)[Turn(p)] =
            IF SoFar(p)[Turn(p) - 1].kind # "ok" THEN SoFar(p)[Turn(p) - 1]
            ELSE PlacedAt(run[p].plan, run[p].graph, fate, env, SoFar(p)[Turn(p) - 1].files, Turn(p))
      BY <1>t, PlacedSteps DEF SoFar
    <3> QED BY <1>t, <2>2, <2>3, <3>1
  <2>5. outcome.kind = "ok" => outcome = Ok(outcome.files)
    BY <1>t, OutcomeFields
  <2>6. outcome.kind # "ok" => Turn(p)' = Turn(p)
    BY <1>f DEF Turn
  <2> QED BY <1>t, <1>f, <2>1, <2>4, <2>5, <2>6 DEF SameInv, At
<1> QED BY <1>1, <1>3, <1>4, <1>5, <1>6, <1>7, <1>8, <1>9, Alone, SameRecord DEF IInv, ProcInv

LEMMA CountTurn ==
  ASSUME IInv, NEW p \in Procs, Placing(p)
  PROVE  /\ Count(run[p].plan, run[p].at) \in Nat /\ Count(run[p].plan, Turn(p)) \in Nat
         /\ Count(run[p].plan, Len(run[p].plan)) \in Nat
         /\ Count(run[p].plan, Turn(p)) <= Count(run[p].plan, Len(run[p].plan))
         /\ Count(run[p].plan, Turn(p)) =
              Count(run[p].plan, run[p].at) + (IF Turn(p) \in Positions(run[p].plan) THEN 1 ELSE 0)
<1>1. /\ run[p].plan \in Seq(Targets) /\ run[p].at \in Nat /\ Len(run[p].plan) \in Nat
      /\ run[p].at + 1 \in Nat /\ run[p].at + 1 <= Len(run[p].plan) /\ Turn(p) = run[p].at + 1
  BY ProcTypes DEF Placing, Turn
<1>2. /\ Count(run[p].plan, run[p].at) \in Nat /\ Count(run[p].plan, run[p].at + 1) \in Nat
      /\ Count(run[p].plan, Len(run[p].plan)) \in Nat
      /\ Count(run[p].plan, run[p].at + 1) = Count(run[p].plan, run[p].at)
           + (IF run[p].at + 1 \in Positions(run[p].plan) THEN 1 ELSE 0)
  BY <1>1, Counts
<1>3. Count(run[p].plan, run[p].at + 1) <= Count(run[p].plan, Len(run[p].plan))
  BY <1>1, CountGrows
<1> QED BY <1>1, <1>2, <1>3

LEMMA PlaceRenderedInv ==
  ASSUME IInv, NEW p \in Procs, PlaceRendered(p)
  PROVE  IInv'
<1> DEFINE i == Turn(p)
           t == run[p].plan[i]
           group == task[p][i].group
           way == task[p][i].way
           outcome == Adopted(run[p].files, i, way, group)
<1>1. /\ Placing(p) /\ ~run[p].recorded /\ Finished(p, i)
      /\ task' = [task EXCEPT ![p][i] = Thread("joined")]
      /\ Continue(p, outcome, Append(run[p].groups, group))
      /\ UNCHANGED <<fate, env, record, moved, tainted, faults>>
  BY DEF PlaceRendered
<1>t. /\ run[p] \in Runs /\ run[p].at \in 0 .. Len(run[p].plan) /\ run[p].plan \in Seq(Targets)
      /\ Len(run[p].plan) \in Nat /\ i = run[p].at + 1 /\ i \in Nat /\ i # 0 /\ run[p].pc = "place"
      /\ Positions(run[p].plan) \subseteq 1 .. Len(run[p].plan)
      /\ task[p] \in [DOMAIN task[p] -> Threads] /\ i \in DOMAIN task[p]
      /\ DOMAIN task[p] \subseteq {0} \cup Positions(run[p].plan)
      /\ run[p].plan \in Plans /\ run[p].graph \in Graphs /\ fate \in Fates /\ env \in Versions
  BY <1>1, ProcTypes DEF Placing, Turn, At, Finished, IInv, ProcInv, PlaceInv
<1>p. i \in Positions(run[p].plan) /\ t \in Targets /\ t \notin Custom
  BY <1>t DEF Positions
<1>w. /\ way = Way(p, t) /\ (~moved[p] => group = Group(t, run[p].graph, env))
      /\ way \in Ways /\ group \in SUBSET Files
  <2>1. /\ way = Way(p, JobAt(p, i)) /\ (~moved[p] => group = Rendered(p, i).group)
    BY <1>1, <1>t DEF IInv, ProcInv, TaskInv
  <2>2. way \in Ways /\ group \in SUBSET Files
    BY <1>1, <1>t DEF Threads, Finished
  <2> QED BY <1>t, <2>1, <2>2 DEF JobAt, Rendered
<1>o. outcome \in Outcomes(i) /\ (outcome.kind = "ok" => way = "ok")
  BY <1>t, <1>w, AdoptedOutcome DEF Runs
<1>h. Honest(p) => outcome = PlacedAt(run[p].plan, run[p].graph, fate, env, run[p].files, i)
  BY <1>p, <1>w DEF Honest, PlacedAt, Way
<1>g. Append(run[p].groups, group) \in Seq(SUBSET Files)
  BY <1>t, <1>w DEF Runs
<1>T. Thread("joined") \in Threads /\ Thread("joined").way = "joined"
  BY DEF Thread, Threads
<1>k. /\ task' = [q \in Procs |-> task'[q]] /\ \A q \in Procs \ {p} : task'[q] = task[q]
      /\ task'[p] \in [DOMAIN task[p] -> Threads]
      /\ \A j \in DOMAIN task[p] :
           task'[p][j] = IF j = i THEN Thread("joined") ELSE task[p][j]
  BY <1>1, <1>t, <1>T DEF IInv, Types
<1>2. ASSUME outcome.kind = "ok" PROVE GroupsInv(p)'
  <2>1. /\ run'[p].plan = run[p].plan /\ run'[p].graph = run[p].graph
        /\ run'[p].recorded = run[p].recorded /\ run'[p].pc = "place"
        /\ run'[p].at = i /\ run'[p].groups = Append(run[p].groups, group)
    BY <1>1, <1>2, <1>o, <1>g, <1>t, ContinueFields
  <2>2. Count(run[p].plan, i) = Count(run[p].plan, run[p].at) + 1
        /\ Count(run[p].plan, run[p].at) \in Nat
    BY <1>1, <1>p, CountTurn
  <2>3. /\ Len(run[p].groups) = Count(run[p].plan, run[p].at)
        /\ ~moved[p] => \A j \in Positions(run[p].plan) : j <= run[p].at =>
             run[p].groups[Count(run[p].plan, j)] = Group(run[p].plan[j], run[p].graph, env)
    BY <1>1, <1>t DEF IInv, ProcInv, GroupsInv
  <2>4. run[p].groups \in Seq(SUBSET Files)
    BY <1>t DEF Runs
  <2>5. Len(run'[p].groups) = Count(run[p].plan, i)
    BY <2>1, <2>2, <2>3, <2>4
  <2>6. ASSUME ~moved[p], NEW j \in Positions(run[p].plan), j <= i
        PROVE  run'[p].groups[Count(run[p].plan, j)] = Group(run[p].plan[j], run[p].graph, env)
    <3>1. CASE j = i
      <4>1. Append(run[p].groups, group)[Len(run[p].groups) + 1] = group
        BY <2>4
      <4> QED BY <1>w, <2>1, <2>2, <2>3, <2>6, <3>1, <4>1
    <3>2. CASE j # i
      <4>1. j <= run[p].at
        BY <1>t, <2>6, <3>2
      <4>2. Count(run[p].plan, j) \in 1 .. Len(run[p].groups)
        BY <1>t, <2>2, <2>3, <4>1, CountOf
      <4>3. Append(run[p].groups, group)[Count(run[p].plan, j)]
              = run[p].groups[Count(run[p].plan, j)]
        BY <2>4, <4>2
      <4> QED BY <2>1, <2>3, <2>6, <4>1, <4>3
    <3> QED BY <3>1, <3>2
  <2> QED BY <1>1, <2>1, <2>5, <2>6 DEF GroupsInv, At
<1>3. \A j \in DOMAIN task[p] : task'[p][j] = task[p][j] \/ task'[p][j].way = "joined"
  BY <1>k, <1>T
<1>4. task'[p][i].way = "joined"
  BY <1>k, <1>t, <1>T
<1>5. outcome.kind = "ok" => Way(p, t) = "ok"
  BY <1>o, <1>w
<1> HIDE DEF outcome, group, way
<1> QED BY <1>1, <1>o, <1>h, <1>g, <1>k, <1>2, <1>3, <1>4, <1>5, PlacingInv

LEMMA PlaceRecordedInv ==
  ASSUME IInv, NEW p \in Procs, PlaceRecorded(p)
  PROVE  IInv'
<1> DEFINE i == Turn(p)
           t == run[p].plan[i]
           groups == run[p].groups
           outcome == Adopted(run[p].files, i, "ok", Head(groups))
           C(j) == Count(run[p].plan, j)
<1>1. /\ Placing(p) /\ run[p].recorded /\ t \notin Custom
      /\ Continue(p, outcome, Tail(groups))
      /\ UNCHANGED <<fate, env, record, task, moved, tainted, faults>>
  BY DEF PlaceRecorded
<1>t. /\ run[p] \in Runs /\ run[p].at \in 0 .. Len(run[p].plan) /\ run[p].plan \in Seq(Targets)
      /\ Len(run[p].plan) \in Nat /\ i = run[p].at + 1 /\ i \in Nat /\ run[p].pc = "place"
      /\ i <= Len(run[p].plan)
      /\ Positions(run[p].plan) \subseteq 1 .. Len(run[p].plan)
      /\ task[p] \in [DOMAIN task[p] -> Threads] /\ groups \in Seq(SUBSET Files)
      /\ task[p] = <<>>
  BY <1>1, ProcTypes DEF Placing, Turn, At, Runs, IInv, ProcInv, TaskInv
<1>p. i \in Positions(run[p].plan)
  BY <1>1, <1>t DEF Positions
<1>c. /\ C(i) = C(run[p].at) + 1 /\ C(run[p].at) \in Nat /\ C(i) \in Nat
      /\ C(Len(run[p].plan)) \in Nat /\ C(i) <= C(Len(run[p].plan))
  BY <1>1, <1>p, CountTurn
<1>g. /\ Len(groups) = C(Len(run[p].plan)) - C(run[p].at)
      /\ Honest(p) => \A j \in Positions(run[p].plan) : j > run[p].at =>
           groups[C(j) - C(run[p].at)] = Group(run[p].plan[j], run[p].graph, env)
  BY <1>1, <1>t DEF IInv, ProcInv, GroupsInv, At
<1>l. Len(groups) >= 1 /\ groups # <<>> /\ Len(groups) \in Nat
  BY <1>t, <1>c, <1>g
<1>s. Head(groups) \in SUBSET Files /\ Tail(groups) \in Seq(SUBSET Files)
      /\ Head(groups) = groups[1] /\ Len(Tail(groups)) = Len(groups) - 1
      /\ \A k \in 1 .. Len(groups) - 1 : Tail(groups)[k] = groups[k + 1]
  BY <1>t, <1>l
<1>w. Way(p, t) = "ok"
  BY <1>1, <1>p DEF IInv, ProcInv, WaysInv
<1>o. outcome \in Outcomes(i)
  BY <1>t, <1>s, AdoptedOutcome DEF Runs, Ways
<1>h. Honest(p) => outcome = PlacedAt(run[p].plan, run[p].graph, fate, env, run[p].files, i)
  <2>1. ASSUME Honest(p) PROVE groups[1] = Group(t, run[p].graph, env)
    <3>1. i > run[p].at /\ C(i) - C(run[p].at) = 1
      BY <1>t, <1>c
    <3> QED BY <1>g, <1>p, <2>1, <3>1
  <2> QED BY <1>1, <1>s, <1>w, <2>1 DEF PlacedAt, Way
<1>2. ASSUME outcome.kind = "ok" PROVE GroupsInv(p)'
  <2>1. /\ run'[p].plan = run[p].plan /\ run'[p].graph = run[p].graph /\ run'[p].key = run[p].key
        /\ run'[p].recorded = run[p].recorded /\ run'[p].pc = "place"
        /\ run'[p].at = i /\ run'[p].groups = Tail(groups)
    <3>1. Tail(groups) \in Seq(SUBSET Files)
      BY <1>s
    <3> HIDE DEF outcome
    <3> QED BY <1>1, <1>2, <1>t, <1>o, <3>1, ContinueFields
  <2>2. Len(run'[p].groups) = C(Len(run[p].plan)) - C(i)
    BY <1>c, <1>g, <1>s, <2>1
  <2>3. ASSUME Honest(p), NEW j \in Positions(run[p].plan), j > i
        PROVE  run'[p].groups[C(j) - C(i)] = Group(run[p].plan[j], run[p].graph, env)
    <3>1. C(i) < C(j) /\ C(j) <= C(Len(run[p].plan)) /\ C(j) \in Nat
      BY <1>t, <2>3, CountOf
    <3>2. C(j) - C(i) \in 1 .. Len(groups) - 1 /\ (C(j) - C(i)) + 1 = C(j) - C(run[p].at)
      BY <1>c, <1>g, <3>1
    <3>3. groups[C(j) - C(run[p].at)] = Group(run[p].plan[j], run[p].graph, env)
      BY <1>t, <1>g, <2>3
    <3> QED BY <1>s, <2>1, <3>2, <3>3
  <2>4. Honest(p)' = Honest(p)
    BY <1>1, <2>1 DEF Honest
  <2> HIDE DEF groups
  <2> QED BY <1>1, <2>1, <2>2, <2>3, <2>4 DEF GroupsInv, At
<1>3. task' = [q \in Procs |-> task'[q]] /\ \A q \in Procs \ {p} : task'[q] = task[q]
  BY <1>1 DEF IInv, Types
<1>4. DOMAIN task[p] = {}
  BY <1>t, NoThreads
<1> HIDE DEF outcome, groups
<1> QED BY <1>1, <1>t, <1>o, <1>h, <1>s, <1>w, <1>2, <1>3, <1>4, PlacingInv

LEMMA RunCustomInv ==
  ASSUME IInv, NEW p \in Procs, RunCustom(p)
  PROVE  IInv'
<1> DEFINE i == Turn(p)
           t == run[p].plan[i]
           C(j) == Count(run[p].plan, j)
           outcome == Returned(run[p].files, i, Way(p, t), t, run[p].graph, env)
<1>1. /\ Placing(p) /\ t \in Custom
      /\ Continue(p, outcome, run[p].groups)
      /\ UNCHANGED <<fate, env, record, task, moved, tainted, faults>>
  BY DEF RunCustom
<1>t. /\ run[p] \in Runs /\ run[p].at \in 0 .. Len(run[p].plan) /\ run[p].plan \in Seq(Targets)
      /\ Len(run[p].plan) \in Nat /\ i = run[p].at + 1 /\ i \in Nat /\ run[p].pc = "place"
      /\ i <= Len(run[p].plan) /\ i # 0
      /\ Positions(run[p].plan) \subseteq 1 .. Len(run[p].plan)
      /\ task[p] \in [DOMAIN task[p] -> Threads]
      /\ DOMAIN task[p] \subseteq {0} \cup Positions(run[p].plan)
      /\ run[p].groups \in Seq(SUBSET Files) /\ run[p].files \in SUBSET Files
      /\ run[p].graph \in Graphs /\ fate \in Fates /\ env \in Versions
  BY <1>1, ProcTypes DEF Placing, Turn, At, Runs, IInv, ProcInv, PlaceInv
<1>p. i \notin Positions(run[p].plan) /\ t \in Targets
  BY <1>1, <1>t DEF Positions
<1>w. Way(p, t) \in Ways
  BY <1>t, <1>p, WaysOfJobs DEF Way, Jobs
<1>o. outcome \in Outcomes(i)
  BY <1>t, <1>p, <1>w, ReturnedOutcome
<1>h. outcome = PlacedAt(run[p].plan, run[p].graph, fate, env, run[p].files, i)
  BY <1>1 DEF PlacedAt, Way
<1>c. C(i) = C(run[p].at)
  BY <1>1, <1>p, CountTurn
<1>2. ASSUME outcome.kind = "ok" PROVE GroupsInv(p)'
  <2>1. /\ run'[p].plan = run[p].plan /\ run'[p].graph = run[p].graph /\ run'[p].key = run[p].key
        /\ run'[p].recorded = run[p].recorded /\ run'[p].pc = "place"
        /\ run'[p].at = i /\ run'[p].groups = run[p].groups
    BY <1>1, <1>2, <1>o, <1>t, ContinueFields
  <2>2. \A j \in Positions(run[p].plan) : (j <= i <=> j <= run[p].at) /\ (j > i => j > run[p].at)
    BY <1>t, <1>p
  <2>3. Honest(p)' = Honest(p)
    BY <1>1, <2>1 DEF Honest
  <2>4. GroupsInv(p)
    BY DEF IInv, ProcInv
  <2> QED BY <1>1, <1>t, <1>c, <2>1, <2>2, <2>3, <2>4 DEF GroupsInv, At
<1>3. task' = [q \in Procs |-> task'[q]] /\ \A q \in Procs \ {p} : task'[q] = task[q]
  BY <1>1 DEF IInv, Types
<1>4. i \notin DOMAIN task[p]
  BY <1>t, <1>p
<1> HIDE DEF outcome
<1> QED BY <1>1, <1>t, <1>o, <1>h, <1>2, <1>3, <1>4, PlacingInv

-----------------------------------------------------------------------------
(* The end of a run.                                                        *)

LEMMA LeaveScopeInv ==
  ASSUME IInv, NEW p \in Procs, LeaveScope(p)
  PROVE  IInv'
<1> DEFINE plan == run[p].plan
           g == run[p].graph
           result == IF Panicked(p) THEN Unwound ELSE run[p].result
<1>1. /\ run[p].pc = "leaving"
      /\ run' = [run EXCEPT ![p].pc = "done", ![p].result = result]
      /\ UNCHANGED <<fate, env, record, task, moved, tainted, faults>>
  BY DEF LeaveScope, At
<1>t. /\ run[p] \in Runs /\ run \in [Procs -> Runs] /\ run[p].at \in 0 .. Len(plan)
      /\ plan \in Seq(Targets) /\ Len(plan) \in Nat
      /\ Positions(plan) \subseteq 1 .. Len(plan)
      /\ DOMAIN task[p] \subseteq {0} \cup Positions(plan)
      /\ plan \in Plans /\ g \in Graphs
      /\ Turn(p) \in 1 .. Len(plan)
      /\ run[p].result.kind = "err" /\ run[p].result.at = Turn(p)
      /\ Turn(p) \in DOMAIN task[p] => task[p][Turn(p)].way = "joined"
  BY <1>1, ProcTypes DEF At, IInv, Types, ProcInv, PlaceInv
<1>2. result \in Results
  BY <1>t DEF Results, Runs
<1> HIDE DEF result
<1>3. /\ run'[p].pc = "done" /\ run'[p].result = result
      /\ run'[p].plan = plan /\ run'[p].graph = g /\ run'[p].key = run[p].key
      /\ run'[p].recorded = run[p].recorded /\ run'[p].at = run[p].at
      /\ run' \in [Procs -> Runs] /\ \A q \in Procs \ {p} : run'[q] = run[q]
  BY <1>1, <1>2, <1>t DEF Runs, Steps
<1>4. Kept /\ Others(p)
  BY <1>1, <1>3 DEF Kept, Others
<1>5. Typed(p)
  BY <1>1, <1>3, <1>t DEF Typed, IInv, Types, TypeOK, RecordTyped
<1>6. PlaceInv(p)' /\ KeyInv(p)'
  BY <1>1, <1>3, <1>t DEF PlaceInv, KeyInv, At, IInv, ProcInv
<1>7. TaskInv(p)' /\ WaysInv(p)'
  <2>1. \A i : /\ Way(p, JobAt(p, i))' = Way(p, JobAt(p, i))
               /\ Rendered(p, i)' = Rendered(p, i)
    BY <1>1, <1>3 DEF Way, JobAt, Rendered
  <2>2. \A job : Way(p, job)' = Way(p, job)
    BY <1>1, <1>3 DEF Way
  <2> QED BY <1>1, <1>3, <2>1, <2>2 DEF TaskInv, WaysInv, Finished, IInv, ProcInv
<1>8. GroupsInv(p)'
  BY <1>3 DEF GroupsInv, At
<1>9. SameInv(p)'
  <2> SUFFICES ASSUME Honest(p) PROVE SameInv(p)'
    BY <1>1, <1>3 DEF SameInv, Honest
  <2>1. SoFar(p)[Turn(p)] = run[p].result
    BY <1>1 DEF IInv, ProcInv, SameInv, At
  <2>2. SoFar(p)[Len(plan)] = run[p].result
    BY <1>t, <2>1, FailureStays DEF SoFar
  <2>3. Sequential(plan, g) = run[p].result
    BY <1>t, <2>2 DEF Sequential, SoFar
  <2>4. Sequential(plan, g)' = Sequential(plan, g)
    BY <1>1, <1>3 DEF Sequential
  <2>5. CASE Panicked(p)
    <3>1. PICK i \in DOMAIN task[p] : Finished(p, i) /\ task[p][i].way = "panic"
      BY <2>5 DEF Panicked
    <3>2. Way(p, JobAt(p, i)) = "panic" /\ i # Turn(p)
      BY <1>t, <3>1 DEF IInv, ProcInv, TaskInv
    <3>3. Way(p, JobAt(p, i))' = Way(p, JobAt(p, i))
      BY <1>1, <1>3 DEF Way, JobAt
    <3> QED BY <1>1, <1>3, <1>t, <2>3, <2>4, <2>5, <3>2, <3>3 DEF SameInv, At, result
  <2>6. CASE ~Panicked(p)
    BY <1>1, <1>3, <2>3, <2>4, <2>6 DEF SameInv, At, result
  <2> QED BY <2>5, <2>6
<1> QED BY <1>1, <1>4, <1>5, <1>6, <1>7, <1>8, <1>9, Alone, SameRecord DEF IInv, ProcInv

(* The graph artifact is there, and all targets are placed.                 *)
LEMMA FinishInv ==
  ASSUME IInv, NEW p \in Procs, At(p, "place"), run[p].at = Len(run[p].plan),
         NEW next \in {"save", "posts"},
         run' = [run EXCEPT ![p].result = Way(p, "graph"), ![p].pc = next],
         next = "save" => Way(p, "graph") = "ok" /\ ~run[p].recorded /\ run[p].key # None,
         UNCHANGED <<fate, env, record, moved, tainted, faults>>,
         task' = [q \in Procs |-> task'[q]], \A q \in Procs \ {p} : task'[q] = task[q],
         task'[p] \in [DOMAIN task[p] -> Threads],
         \A i \in DOMAIN task[p] : task'[p][i] = task[p][i] \/ task'[p][i].way = "joined",
         ~run[p].recorded \/ task'[p] = task[p]
  PROVE  IInv'
<1>t. /\ run[p] \in Runs /\ run \in [Procs -> Runs] /\ run[p].at \in 0 .. Len(run[p].plan)
      /\ run[p].plan \in Seq(Targets) /\ Len(run[p].plan) \in Nat
      /\ DOMAIN task[p] \subseteq {0} \cup Positions(run[p].plan)
      /\ run[p].plan \in Plans /\ run[p].graph \in Graphs /\ run[p].pc = "place"
      /\ fate \in Fates
  BY ProcTypes DEF At, IInv, Types, ProcInv, PlaceInv
<1>1. Way(p, "graph") \in Results
  BY <1>t, WaysOfJobs DEF Way, Jobs, Results
<1>2. /\ run'[p].pc = next /\ run'[p].result = Way(p, "graph")
      /\ run'[p].plan = run[p].plan /\ run'[p].graph = run[p].graph /\ run'[p].key = run[p].key
      /\ run'[p].recorded = run[p].recorded /\ run'[p].at = run[p].at
      /\ run'[p].files = run[p].files /\ run'[p].groups = run[p].groups
      /\ run' \in [Procs -> Runs] /\ \A q \in Procs \ {p} : run'[q] = run[q]
  BY <1>1, <1>t DEF Runs, Steps
<1>3. \A job : Way(p, job)' = Way(p, job)
  BY <1>2 DEF Way
<1>4. Kept /\ Others(p)
  BY <1>2 DEF Kept, Others
<1>5. Typed(p)
  BY <1>2, <1>t DEF Typed, IInv, Types, TypeOK, RecordTyped
<1>6. PlaceInv(p)' /\ KeyInv(p)'
  <2>1. PlaceInv(p)'
    BY <1>2, <1>3, <1>t DEF PlaceInv, At
  <2>2. KeyInv(p)'
    BY <1>2, <1>t DEF KeyInv, At, IInv, ProcInv
  <2> QED BY <2>1, <2>2
<1>7. TaskInv(p)' /\ WaysInv(p)'
  <2>1. \A i : /\ Way(p, JobAt(p, i))' = Way(p, JobAt(p, i))
               /\ Rendered(p, i)' = Rendered(p, i)
    BY <1>2 DEF Way, JobAt, Rendered
  <2>2. ASSUME NEW i \in DOMAIN task[p], Finished(p, i)'
        PROVE  /\ task'[p][i].way = Way(p, JobAt(p, i))
               /\ ~moved[p] => task'[p][i].group = Rendered(p, i).group
    <3>1. task'[p][i] = task[p][i]
      BY <2>2 DEF Finished
    <3> QED BY <2>2, <3>1 DEF Finished, IInv, ProcInv, TaskInv
  <2>3. TaskInv(p)'
    BY <1>2, <1>t, <2>1, <2>2 DEF TaskInv, IInv, ProcInv
  <2>4. WaysInv(p)'
    BY <1>2, <1>3 DEF WaysInv, IInv, ProcInv
  <2> QED BY <2>3, <2>4
<1>8. GroupsInv(p)'
  BY <1>2, <1>t DEF GroupsInv, At, IInv, ProcInv
<1>9. SameInv(p)'
  BY <1>2, <1>t DEF SameInv, Honest, SoFar, At, IInv, ProcInv
<1> QED BY <1>4, <1>5, <1>6, <1>7, <1>8, <1>9, Alone, SameRecord DEF IInv, ProcInv

LEMMA FinishRenderedInv ==
  ASSUME IInv, NEW p \in Procs, FinishRendered(p)
  PROVE  IInv'
<1> DEFINE next == IF run[p].key # None /\ task[p][0].way = "ok" THEN "save" ELSE "posts"
<1>1. /\ At(p, "place") /\ run[p].at = Len(run[p].plan) /\ ~run[p].recorded /\ Finished(p, 0)
      /\ run' = [run EXCEPT ![p].result = task[p][0].way, ![p].pc = next]
      /\ task' = [task EXCEPT ![p][0] = Thread("joined")]
      /\ UNCHANGED <<fate, env, record, moved, tainted, faults>>
  BY DEF FinishRendered
<1>2. 0 \in DOMAIN task[p] /\ task[p][0].way = Way(p, "graph")
  BY <1>1 DEF Finished, IInv, ProcInv, TaskInv, JobAt
<1>3. Thread("joined") \in Threads /\ Thread("joined").way = "joined"
  BY DEF Thread, Threads
<1>4. task[p] \in [DOMAIN task[p] -> Threads]
  BY ProcTypes
<1>5. /\ task' = [q \in Procs |-> task'[q]] /\ \A q \in Procs \ {p} : task'[q] = task[q]
      /\ task'[p] \in [DOMAIN task[p] -> Threads]
      /\ \A i \in DOMAIN task[p] : task'[p][i] = IF i = 0 THEN Thread("joined") ELSE task[p][i]
  BY <1>1, <1>2, <1>3, <1>4 DEF IInv, Types
<1>6. /\ next \in {"save", "posts"}
      /\ next = "save" => Way(p, "graph") = "ok" /\ ~run[p].recorded /\ run[p].key # None
  BY <1>1, <1>2
<1>7. run' = [run EXCEPT ![p].result = Way(p, "graph"), ![p].pc = next]
  BY <1>1, <1>2
<1>8. \A i \in DOMAIN task[p] : task'[p][i] = task[p][i] \/ task'[p][i].way = "joined"
  BY <1>3, <1>5
<1> HIDE DEF next
<1> QED BY <1>1, <1>5, <1>6, <1>7, <1>8, FinishInv

LEMMA FinishRecordedInv ==
  ASSUME IInv, NEW p \in Procs, FinishRecorded(p)
  PROVE  IInv'
<1>1. /\ At(p, "place") /\ run[p].at = Len(run[p].plan) /\ run[p].recorded
      /\ run' = [run EXCEPT ![p].result = "ok", ![p].pc = "posts"]
      /\ UNCHANGED <<fate, env, record, task, moved, tainted, faults>>
  BY DEF FinishRecorded
<1>2. Way(p, "graph") = "ok"
  BY <1>1 DEF IInv, ProcInv, WaysInv
<1>3. /\ task[p] \in [DOMAIN task[p] -> Threads]
      /\ task' = [q \in Procs |-> task'[q]] /\ \A q \in Procs \ {p} : task'[q] = task[q]
  BY <1>1, ProcTypes DEF IInv, Types
<1>4. run' = [run EXCEPT ![p].result = Way(p, "graph"), ![p].pc = "posts"]
  BY <1>1, <1>2
<1> QED BY <1>1, <1>3, <1>4, FinishInv

(* Saved or not, a run goes on to its posts.                                *)
LEMMA SavedInv ==
  ASSUME IInv, NEW p \in Procs, At(p, "save"), run' = [run EXCEPT ![p].pc = "posts"],
         UNCHANGED <<fate, env, task, moved>>, faults' \in 0 .. MaxFaults,
         tainted \subseteq tainted', tainted' \subseteq Keys, RecordTyped', RecordInv'
  PROVE  IInv'
<1>t. /\ run[p] \in Runs /\ run \in [Procs -> Runs] /\ run[p].at \in 0 .. Len(run[p].plan)
      /\ task[p] \in [DOMAIN task[p] -> Threads]
      /\ DOMAIN task[p] \subseteq {0} \cup Positions(run[p].plan)
      /\ run[p].pc = "save"
  BY ProcTypes DEF At, IInv, Types
<1>1. /\ run'[p].pc = "posts" /\ run'[p].result = run[p].result
      /\ run'[p].plan = run[p].plan /\ run'[p].graph = run[p].graph /\ run'[p].key = run[p].key
      /\ run'[p].recorded = run[p].recorded /\ run'[p].at = run[p].at
      /\ run'[p].files = run[p].files
      /\ run' \in [Procs -> Runs] /\ \A q \in Procs \ {p} : run'[q] = run[q]
  BY <1>t DEF Runs, Steps
<1>2. \A job : Way(p, job)' = Way(p, job)
  BY <1>1 DEF Way
<1>3. Kept /\ Others(p)
  BY <1>1 DEF Kept, Others
<1>4. Typed(p)
  BY <1>1, <1>t DEF Typed, IInv, Types, TypeOK
<1>5. PlaceInv(p)' /\ KeyInv(p)'
  BY <1>1, <1>2, <1>t DEF PlaceInv, KeyInv, At, IInv, ProcInv
<1>6. TaskInv(p)' /\ WaysInv(p)'
  <2>1. \A i : /\ Way(p, JobAt(p, i))' = Way(p, JobAt(p, i))
               /\ Rendered(p, i)' = Rendered(p, i)
    BY <1>1 DEF Way, JobAt, Rendered
  <2> QED BY <1>1, <1>2, <1>t, <2>1 DEF TaskInv, WaysInv, Finished, IInv, ProcInv
<1>7. GroupsInv(p)'
  BY <1>1 DEF GroupsInv, At
<1>8. SameInv(p)'
  BY <1>1, <1>t DEF SameInv, Honest, SoFar, At, IInv, ProcInv
<1> QED BY <1>3, <1>4, <1>5, <1>6, <1>7, <1>8, Alone DEF ProcInv

LEMMA SaveInv ==
  ASSUME IInv, NEW p \in Procs, Save(p)
  PROVE  IInv'
<1> DEFINE plan == run[p].plan
           g == run[p].graph
<1>1. /\ run[p].pc = "save" /\ At(p, "save")
      /\ record' = [key |-> run[p].key, groups |-> run[p].groups]
      /\ tainted' = IF moved[p] THEN tainted \cup {run[p].key} ELSE tainted
      /\ run' = [run EXCEPT ![p].pc = "posts"]
      /\ UNCHANGED <<fate, env, task, moved, faults>>
  BY DEF Save, At
<1>t. /\ run[p] \in Runs /\ plan \in Plans /\ plan \in Seq(Targets) /\ Len(plan) \in Nat
      /\ Positions(plan) \subseteq 1 .. Len(plan)
      /\ run[p].at = Len(plan) /\ run[p].result = Way(p, "graph") /\ run[p].result = "ok"
      /\ ~run[p].recorded /\ run[p].key # None
  BY <1>1, ProcTypes DEF At, IInv, ProcInv, PlaceInv
<1>k. run[p].key \in Keys /\ run[p].groups \in Seq(SUBSET Files)
  BY <1>t DEF Runs
<1>2. /\ run[p].key.graph = g /\ run[p].key.targets = Declared(plan) /\ "tree" \notin ReadBy(plan)
      /\ ~moved[p] /\ "gofmt" \in ReadBy(plan) => run[p].key.gofmt = env
  BY <1>1, <1>t DEF IInv, ProcInv, KeyInv, At
<1>3. /\ \A i \in Positions(plan) : fate[<<plan[i], g>>] = "ok"
      /\ fate[<<"graph", g>>] = "ok"
  <2>1. ASSUME NEW i \in Positions(plan) PROVE fate[<<plan[i], g>>] = "ok"
    <3>1. i <= run[p].at
      BY <1>t
    <3> QED BY <3>1 DEF IInv, ProcInv, WaysInv, Way
  <2> QED BY <1>t, <2>1 DEF Way
<1>4. /\ Len(run[p].groups) = Count(plan, Len(plan))
      /\ ~moved[p] => \A i \in Positions(plan) :
           run[p].groups[Count(plan, i)] = Group(plan[i], g, env)
  BY <1>1, <1>t DEF IInv, ProcInv, GroupsInv
<1>5. ASSUME ~moved[p], NEW i \in Positions(plan)
      PROVE  Group(plan[i], g, run[p].key.gofmt) = Group(plan[i], g, env)
  <2>1. Reads[plan[i]] \in ReadBy(plan) /\ plan[i] \in Targets
    BY <1>t DEF ReadBy, Positions
  <2>2. Reads[plan[i]] = "nothing" \/ run[p].key.gofmt = env
    BY <1>2, <1>5, <2>1, EmissionAssumption
  <2> QED BY <2>2 DEF Group, Text
<1>6. record'.key = run[p].key /\ record'.groups = run[p].groups
  BY <1>1
<1>7. run[p].key \notin tainted' => ~moved[p]
  BY <1>1
<1>8. Records(plan)'
  <2>1. ASSUME run[p].key \notin tainted', NEW i \in Positions(plan)
        PROVE  run[p].groups[Count(plan, i)] = Group(plan[i], g, run[p].key.gofmt)
    BY <1>4, <1>5, <1>7, <2>1
  <2>2. run'[p].plan = plan
    BY <1>1, <1>t DEF Runs, IInv, Types
  <2> QED BY <1>1, <1>2, <1>3, <1>4, <1>6, <2>1, <2>2 DEF Records
<1>9. RecordInv'
  <2>1. run'[p].plan = plan
    BY <1>1, <1>t DEF Runs, IInv, Types
  <2> QED BY <1>t, <1>8, <2>1 DEF RecordInv
<1>10. /\ RecordTyped' /\ tainted \subseteq tainted' /\ tainted' \subseteq Keys
       /\ faults' \in 0 .. MaxFaults
  BY <1>1, <1>k, <1>6 DEF RecordTyped, IInv, Types, TypeOK
<1> QED BY <1>1, <1>9, <1>10, SavedInv

LEMMA SaveFailsInv ==
  ASSUME IInv, NEW p \in Procs, SaveFails(p)
  PROVE  IInv'
<1>1. /\ At(p, "save") /\ run' = [run EXCEPT ![p].pc = "posts"]
      /\ UNCHANGED <<fate, env, record, task, moved, tainted>>
      /\ faults' \in 0 .. MaxFaults
  BY EmissionAssumption DEF SaveFails, Fault, IInv, Types, TypeOK
<1>2. RecordTyped' /\ RecordInv' /\ tainted' \subseteq Keys
  BY <1>1, SameRecord, ProcTypes DEF IInv, Types, TypeOK, RecordTyped, Kept
<1> QED BY <1>1, <1>2, SavedInv

LEMMA RunPostsInv ==
  ASSUME IInv, NEW p \in Procs, RunPosts(p)
  PROVE  IInv'
<1> DEFINE plan == run[p].plan
           g == run[p].graph
           result == Concluded(run[p].files, Way(p, "posts"), run[p].result, g)
<1>1. /\ run[p].pc = "posts"
      /\ run' = [run EXCEPT ![p].pc = "done", ![p].result = result]
      /\ UNCHANGED <<fate, env, record, task, moved, tainted, faults>>
  BY DEF RunPosts, At
<1>t. /\ run[p] \in Runs /\ run \in [Procs -> Runs] /\ run[p].at \in 0 .. Len(plan)
      /\ DOMAIN task[p] \subseteq {0} \cup Positions(plan)
      /\ task[p] \in [DOMAIN task[p] -> Threads]
      /\ plan \in Plans /\ g \in Graphs /\ fate \in Fates
      /\ run[p].at = Len(plan) /\ run[p].result = Way(p, "graph")
  BY <1>1, ProcTypes DEF At, IInv, Types, ProcInv, PlaceInv
<1>2. result \in Results
  <2>1. Way(p, "posts") \in Ways /\ Way(p, "graph") \in Ways /\ run[p].files \in SUBSET Files
    BY <1>t, WaysOfJobs DEF Way, Jobs, Runs
  <2> QED BY <1>t, <2>1, ConcludedResult
<1> HIDE DEF result
<1>3. /\ run'[p].pc = "done" /\ run'[p].result = result
      /\ run'[p].plan = plan /\ run'[p].graph = g /\ run'[p].key = run[p].key
      /\ run'[p].recorded = run[p].recorded /\ run'[p].at = run[p].at
      /\ run' \in [Procs -> Runs] /\ \A q \in Procs \ {p} : run'[q] = run[q]
  BY <1>1, <1>2, <1>t DEF Runs, Steps
<1>4. Kept /\ Others(p)
  BY <1>1, <1>3 DEF Kept, Others
<1>5. Typed(p)
  BY <1>1, <1>3, <1>t DEF Typed, IInv, Types, TypeOK, RecordTyped
<1>6. PlaceInv(p)' /\ KeyInv(p)'
  BY <1>1, <1>3, <1>t DEF PlaceInv, KeyInv, At, IInv, ProcInv
<1>7. TaskInv(p)' /\ WaysInv(p)'
  <2>1. \A i : /\ Way(p, JobAt(p, i))' = Way(p, JobAt(p, i))
               /\ Rendered(p, i)' = Rendered(p, i)
    BY <1>1, <1>3 DEF Way, JobAt, Rendered
  <2>2. \A job : Way(p, job)' = Way(p, job)
    BY <1>1, <1>3 DEF Way
  <2> QED BY <1>1, <1>3, <2>1, <2>2 DEF TaskInv, WaysInv, Finished, IInv, ProcInv
<1>8. GroupsInv(p)'
  BY <1>3 DEF GroupsInv, At
<1>9. SameInv(p)'
  <2> SUFFICES ASSUME Honest(p) PROVE SameInv(p)'
    BY <1>1, <1>3 DEF SameInv, Honest
  <2>1. SoFar(p)[Len(plan)] = Ok(run[p].files)
    BY <1>1, <1>t DEF IInv, ProcInv, SameInv
  <2>2. Sequential(plan, g) = result
    BY <1>t, <2>1 DEF Sequential, SoFar, Ok, Way, result
  <2>3. Sequential(plan, g)' = Sequential(plan, g)
    BY <1>1, <1>3 DEF Sequential
  <2> QED BY <1>3, <2>2, <2>3 DEF SameInv, At
<1> QED BY <1>1, <1>4, <1>5, <1>6, <1>7, <1>8, <1>9, Alone, SameRecord DEF IInv, ProcInv

LEMMA ResetInv ==
  ASSUME IInv, NEW p \in Procs, Reset(p), UNCHANGED <<fate, env, record, tainted>>,
         faults' \in 0 .. MaxFaults
  PROVE  IInv'
<1>1. /\ run' = [run EXCEPT ![p] = Idle] /\ task' = [task EXCEPT ![p] = <<>>]
      /\ moved' = [moved EXCEPT ![p] = FALSE]
  BY DEF Reset
<1>2. Idle \in Runs /\ Len(Idle.plan) = 0 /\ Idle.at = 0
  BY DEF Idle, Runs, Steps, Results
<1>3. /\ run'[p] = Idle /\ task'[p] = <<>>
      /\ run' \in [Procs -> Runs] /\ task' = [q \in Procs |-> task'[q]]
      /\ moved' \in [Procs -> BOOLEAN]
      /\ Kept /\ Others(p)
  BY <1>1, <1>2 DEF Kept, Others, IInv, Types, TypeOK
<1>4. Typed(p)
  BY <1>2, <1>3, NoThreads DEF Typed, IInv, Types, TypeOK, RecordTyped
<1>5. ProcInv(p)'
  <2>1. /\ run'[p].pc = "idle" /\ ~run'[p].recorded /\ run'[p].at = 0
        /\ run'[p].plan = <<>>
    BY <1>3 DEF Idle
  <2>2. PlaceInv(p)' /\ KeyInv(p)'
    BY <1>3, <2>1 DEF PlaceInv, KeyInv, At
  <2>3. TaskInv(p)' /\ WaysInv(p)'
    BY <1>3, <2>1, NoThreads DEF TaskInv, WaysInv, Positions, At
  <2>4. GroupsInv(p)' /\ SameInv(p)'
    BY <2>1 DEF GroupsInv, SameInv, At
  <2> QED BY <2>2, <2>3, <2>4 DEF ProcInv
<1> QED BY <1>3, <1>4, <1>5, Alone, SameRecord DEF IInv

-----------------------------------------------------------------------------
(* What happens around the runs.                                            *)

(* A run in the course of which gofmt or the tree changes is not honest.    *)
LEMMA ChangeInv ==
  ASSUME IInv, NEW v \in Versions, Change(v)
  PROVE  IInv'
<1>1. /\ env' = v /\ moved' = [p \in Procs |-> moved[p] \/ ~At(p, "idle")]
      /\ UNCHANGED <<fate, record, run, task, tainted>> /\ faults' \in 0 .. MaxFaults
  BY EmissionAssumption DEF Change, Fault, IInv, Types, TypeOK
<1>2. Types'
  <2>1. moved' \in [Procs -> BOOLEAN]
    BY <1>1 DEF IInv, Types, TypeOK, At
  <2> QED BY <1>1, <2>1 DEF IInv, Types, TypeOK
<1>3. RecordInv'
  BY <1>1 DEF IInv, RecordInv, Records
<1>4. ASSUME NEW p \in Procs PROVE ProcInv(p)'
  <2>1. /\ run'[p] = run[p] /\ task'[p] = task[p] /\ (run[p].pc # "idle" => moved'[p])
        /\ \A job : Way(p, job)' = Way(p, job)
        /\ \A i : JobAt(p, i)' = JobAt(p, i)
    BY <1>1 DEF At, Way, JobAt
  <2>2. PlaceInv(p)' /\ KeyInv(p)' /\ WaysInv(p)'
    BY <2>1 DEF PlaceInv, KeyInv, WaysInv, At, Turn, IInv, ProcInv
  <2>3. run[p].pc = "idle" => task[p] = <<>>
    BY DEF IInv, ProcInv, PlaceInv
  <2>4. TaskInv(p)'
    BY <2>1, <2>3, NoThreads DEF TaskInv, Finished, IInv, ProcInv
  <2>5. GroupsInv(p)' /\ SameInv(p)'
    BY <2>1 DEF GroupsInv, SameInv, Honest, At, IInv, ProcInv
  <2> QED BY <2>2, <2>4, <2>5 DEF ProcInv
<1> QED BY <1>2, <1>3, <1>4 DEF IInv

LEMMA DamageInv ==
  ASSUME IInv, NEW new \in {None, Junk}, Damage(new)
  PROVE  IInv'
<1>1. record' = new /\ UNCHANGED <<fate, env, run, task, moved, tainted>>
      /\ faults' \in 0 .. MaxFaults
  BY EmissionAssumption DEF Damage, Fault, IInv, Types, TypeOK
<1>2. Types' /\ RecordInv'
  BY <1>1 DEF IInv, Types, TypeOK, RecordInv
<1>3. ASSUME NEW p \in Procs PROVE ProcInv(p)'
  BY <1>1, Apart DEF IInv, Kept
<1> QED BY <1>2, <1>3 DEF IInv

LEMMA NextInv == IInv /\ [Next]_vars => IInv'
<1> SUFFICES ASSUME IInv, [Next]_vars PROVE IInv'
  OBVIOUS
<1>1. ASSUME NEW p \in Procs, Proceeds(p) PROVE IInv'
  <2>1. CASE Return(p)
    BY <2>1, ResetInv DEF Return, IInv, Types, TypeOK
  <2> QED BY <1>1, <2>1, LoadInv, PlaceRenderedInv, PlaceRecordedInv, RunCustomInv, LeaveScopeInv,
             FinishRenderedInv, FinishRecordedInv, SaveInv, RunPostsInv
          DEF Proceeds, Places, Finishes
<1>2. ASSUME NEW p \in Procs, Dies(p) PROVE IInv'
  <2>1. faults' \in 0 .. MaxFaults
    BY <1>2, EmissionAssumption DEF Dies, Fault, IInv, Types, TypeOK
  <2> QED BY <1>2, <2>1, ResetInv DEF Dies
<1>3. CASE UNCHANGED vars
  <2>1. Types' /\ RecordInv'
    BY <1>3 DEF vars, IInv, Types, TypeOK, RecordInv, Records
  <2>2. ASSUME NEW p \in Procs PROVE ProcInv(p)'
    BY <1>3, Apart DEF vars, IInv, Kept
  <2> QED BY <2>1, <2>2 DEF IInv
<1> QED BY <1>1, <1>2, <1>3, BeginInv, RenderInv, SaveFailsInv, ChangeInv, DamageInv DEF Next

(* The account of the target phase holds in every state.                    *)
THEOREM Invariance == Spec => []IInv
BY InitInv, NextInv, PTL DEF Spec

(* Each variable of the target phase keeps its type.                        *)
THEOREM EmissionTypes == Spec => []TypeOK
<1>1. IInv => TypeOK
  BY DEF IInv, Types
<1> QED BY <1>1, Invariance, PTL

(* Whatever the order in which its threads end, and whether its groups are  *)
(* rendered or read back, a run comes to what the sequential one comes to,  *)
(* or unwinds where that fails (emit, run_ahead, emission::load).           *)
THEOREM RunsAreSequential == Spec => []SameAsSequential
<1>1. IInv => SameAsSequential
  <2> SUFFICES ASSUME IInv, NEW p \in Procs, At(p, "done"), ~moved[p], run[p].key \notin tainted
               PROVE  LET expected == Sequential(run[p].plan, run[p].graph) IN
                      \/ run[p].result = expected
                      \/ /\ run[p].result = Unwound /\ expected.kind = "err"
                         /\ \E i \in DOMAIN task[p] :
                              Way(p, JobAt(p, i)) = "panic" /\ i # expected.at
    BY DEF SameAsSequential
  <2>1. Honest(p) /\ SameInv(p)
    BY DEF Honest, IInv, ProcInv
  <2> QED BY <2>1 DEF SameInv
<1> QED BY <1>1, Invariance, PTL
=============================================================================
