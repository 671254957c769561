------------------------- MODULE WorkerSessionProofs -------------------------
(* Theorems about WorkerSession, for every set of elements, graphs and artifacts, and about the      *)
(* patches of HeldVectors by which it describes them, for every pair of vectors.                     *)
EXTENDS WorkerSession, FiniteSetTheorems, WellFoundedInduction, SequenceTheorems, TLAPS

-----------------------------------------------------------------------------
(* What `Patched` promises: the receiver rebuilds what the sender meant.                             *)

LEMMA SmallestIsMember ==
  ASSUME NEW S \in SUBSET Nat, S # {}
  PROVE  Smallest(S) \in S
<1> DEFINE Below(n) == 0..(n - 1)
           Order == StrictSubsetOrdering(Nat)
           T == {Below(n) : n \in S}
<1>1. IsWellFoundedOn(Order, FiniteSubsetsOf(Nat))
  BY FS_StrictSubsetOrderingWellFounded
<1>2. T \subseteq FiniteSubsetsOf(Nat) /\ T # {}
  <2>1. ASSUME NEW n \in S
        PROVE  Below(n) \in FiniteSubsetsOf(Nat)
    <3>1. IsFiniteSet(Below(n))
      BY FS_Interval
    <3>2. Below(n) \subseteq Nat
      OBVIOUS
    <3> QED BY <3>1, <3>2 DEF FiniteSubsetsOf
  <2> QED BY <2>1
<1>3. PICK t \in T : \A u \in T : ~(<<u, t>> \in Order)
  BY <1>1, <1>2, WFMin
<1>4. PICK n \in S : t = Below(n)
  OBVIOUS
<1>5. ASSUME NEW m \in S
      PROVE  n <= m
  <2>1. SUFFICES ASSUME m < n PROVE FALSE
    OBVIOUS
  <2>2. Below(m) \subseteq Below(n) /\ m \in Below(n) /\ m \notin Below(m)
    BY <2>1
  <2>3. Below(m) \in SUBSET Nat /\ Below(n) \in SUBSET Nat
    OBVIOUS
  <2>4. <<Below(m), Below(n)>> \in Order
    BY <2>2, <2>3 DEF StrictSubsetOrdering
  <2> QED BY <1>3, <1>4, <2>4
<1>6. \E k \in S : \A m \in S : k <= m
  BY <1>5
<1> QED BY <1>6 DEF Smallest

(* A slot that is not fresh names an equal element. *)
LEMMA SlotNames ==
  ASSUME NEW V, NEW next \in Seq(V), NEW held \in Seq(V), NEW i \in DOMAIN next
  PROVE  /\ Slots(next, held)[i] \in Nat
         /\ Slots(next, held)[i] # Fresh => /\ Slots(next, held)[i] \in DOMAIN held
                                            /\ held[Slots(next, held)[i]] = next[i]
<1> DEFINE C == Candidates(next[i], held)
<1>1. Slots(next, held)[i] = IF C = {} THEN Fresh ELSE Smallest(C)
  BY DEF Slots
<1>2. C \in SUBSET Nat /\ C \subseteq DOMAIN held
  BY DEF Candidates
<1>3. CASE C = {}
  BY <1>1, <1>3 DEF Fresh
<1>4. CASE C # {}
  <2>1. Smallest(C) \in C
    BY <1>2, <1>4, SmallestIsMember
  <2> QED BY <1>1, <1>2, <1>4, <2>1 DEF Candidates
<1> QED BY <1>3, <1>4

LEMMA SlotsDomain ==
  ASSUME NEW V, NEW next \in Seq(V), NEW held
  PROVE  /\ DOMAIN Slots(next, held) = 1..Len(next)
         /\ DOMAIN next = 1..Len(next)
         /\ Len(next) \in Nat
BY DEF Slots

(* Ranks number the fresh slots from 1 on, each with a number of its own. *)
LEMMA Ranks ==
  ASSUME NEW n \in Nat, NEW slots, DOMAIN slots = 1..n
  PROVE  /\ IsFiniteSet(Places(slots))
         /\ Cardinality(Places(slots)) \in Nat
         /\ \A i \in Places(slots) : Rank(slots, i) \in 1..Cardinality(Places(slots))
         /\ \A i, j \in Places(slots) : Rank(slots, i) = Rank(slots, j) => i = j
<1> DEFINE P == Places(slots)
           Below(i) == {j \in P : j <= i}
<1>1. P \subseteq 1..n /\ P \subseteq Nat
  BY DEF Places
<1>2. IsFiniteSet(1..n)
  BY FS_Interval
<1>3. IsFiniteSet(P) /\ Cardinality(P) \in Nat
  BY <1>1, <1>2, FS_Subset, FS_CardinalityType
<1>4. ASSUME NEW i \in P
      PROVE  IsFiniteSet(Below(i)) /\ Cardinality(Below(i)) \in 1..Cardinality(P)
  <2>1. IsFiniteSet(Below(i)) /\ Cardinality(Below(i)) <= Cardinality(P)
    <3>1. Below(i) \subseteq P
      OBVIOUS
    <3> QED BY <1>3, <3>1, FS_Subset
  <2>2. Cardinality(Below(i)) \in Nat
    BY <2>1, FS_CardinalityType
  <2>3. i \in Below(i)
    BY <1>1
  <2>4. Cardinality(Below(i)) # 0
    BY <2>1, <2>3, FS_EmptySet
  <2> QED BY <1>3, <2>1, <2>2, <2>4
<1>5. ASSUME NEW i \in P, NEW j \in P, i < j
      PROVE  Cardinality(Below(i)) < Cardinality(Below(j))
  <2>1. Below(i) \subseteq Below(j) /\ Below(i) # Below(j)
    <3>1. j \in Below(j) /\ j \notin Below(i)
      BY <1>1, <1>5
    <3>2. Below(i) \subseteq Below(j)
      BY <1>1, <1>5
    <3> QED BY <3>1, <3>2
  <2>2. IsFiniteSet(Below(j)) /\ IsFiniteSet(Below(i))
    BY <1>4
  <2>3. Cardinality(Below(i)) <= Cardinality(Below(j))
        /\ (Cardinality(Below(i)) = Cardinality(Below(j)) => Below(i) = Below(j))
    BY <2>1, <2>2, FS_Subset
  <2>4. Cardinality(Below(i)) \in Nat /\ Cardinality(Below(j)) \in Nat
    BY <2>2, FS_CardinalityType
  <2> QED BY <2>1, <2>3, <2>4
<1>6. \A i \in P : Rank(slots, i) = Cardinality(Below(i))
  BY DEF Rank
<1> HIDE DEF Below
<1>7. ASSUME NEW i \in P, NEW j \in P, Rank(slots, i) = Rank(slots, j)
      PROVE  i = j
  <2>1. Cardinality(Below(i)) = Cardinality(Below(j))
    BY <1>6, <1>7
  <2>2. Cardinality(Below(i)) \in Nat
    BY <1>4, FS_CardinalityType
  <2>3. ~(i < j)
    BY <1>5, <2>1, <2>2
  <2>4. ~(j < i)
    BY <1>5, <2>1, <2>2
  <2> QED BY <1>1, <2>3, <2>4
<1> QED BY <1>3, <1>4, <1>6, <1>7

(* The uses of a position are counted without a gap: a later use has a larger count. *)
LEMMA UsesGrow ==
  ASSUME NEW n \in Nat, NEW slots, DOMAIN slots = 1..n,
         NEW i \in 1..n, NEW j \in 1..(i - 1), slots[j] = slots[i]
  PROVE  Uses(slots, slots[i], j) # Uses(slots, slots[i], n)
<1> DEFINE Upto(k) == {l \in DOMAIN slots : slots[l] = slots[i] /\ l <= k}
<1>1. IsFiniteSet(Upto(n)) /\ Upto(j) \subseteq Upto(n)
  <2>1. IsFiniteSet(1..n)
    BY FS_Interval
  <2>2. Upto(n) \subseteq 1..n
    OBVIOUS
  <2> QED BY <2>1, <2>2, FS_Subset
<1>2. i \in Upto(n) /\ i \notin Upto(j)
  OBVIOUS
<1>3. Cardinality(Upto(j)) # Cardinality(Upto(n))
  BY <1>1, <1>2, FS_Subset
<1> QED BY <1>3 DEF Uses

(* Moving elements out of the held vector never empties a position that a later slot names:          *)
(* `resolve_taking` rebuilds whatever `resolve` does, which its comment promises.                    *)
THEOREM TakingIsResolving ==
  ASSUME NEW V, NEW patch, NEW held, patch.slots \in Seq(Nat), Fits(patch, held)
  PROVE  CanTake(patch, held)
<1> DEFINE slots == patch.slots
<1>1. DOMAIN slots = 1..Len(slots) /\ Len(slots) \in Nat
  OBVIOUS
<1>2. ASSUME NEW i \in DOMAIN slots
      PROVE  ~Moved(slots, i)
  <2>1. SUFFICES ASSUME NEW j \in 1..(i - 1), slots[j] = slots[i], LastUse(slots, j)
                 PROVE  FALSE
    BY DEF Moved
  <2>2. Uses(slots, slots[i], j) = Uses(slots, slots[i], Len(slots))
    BY <2>1 DEF LastUse
  <2> QED BY <1>1, <2>1, <2>2, UsesGrow
<1> QED BY <1>2 DEF CanTake

(* What `of` describes, the peer that holds the same vector can rebuild, and rebuilds exactly.       *)
THEOREM RoundTrip ==
  ASSUME NEW V, NEW next \in Seq(V), NEW held \in Seq(V)
  PROVE  /\ CanTake(Of(next, held), held)
         /\ Resolve(Of(next, held), held) = next
<1> DEFINE slots == Slots(next, held)
           P == Places(slots)
           fresh == Of(next, held).fresh
<1>1. /\ DOMAIN slots = 1..Len(next) /\ DOMAIN next = 1..Len(next) /\ Len(next) \in Nat
      /\ Of(next, held).slots = slots
  BY SlotsDomain DEF Of
<1>2. slots \in Seq(Nat)
  <2>1. slots = [i \in 1..Len(next) |-> slots[i]]
    BY <1>1 DEF Slots
  <2>2. \A i \in 1..Len(next) : slots[i] \in Nat
    BY <1>1, SlotNames
  <2> QED BY <1>1, <2>1, <2>2
<1>3. /\ Cardinality(P) \in Nat
      /\ \A i \in P : Rank(slots, i) \in 1..Cardinality(P)
      /\ \A i, j \in P : Rank(slots, i) = Rank(slots, j) => i = j
  BY <1>1, Ranks
<1>4. fresh = [k \in 1..Cardinality(P) |-> next[CHOOSE i \in P : Rank(slots, i) = k]]
  BY DEF Of
<1>5. Len(fresh) = Cardinality(P)
  BY <1>3, <1>4
<1>6. Fits(Of(next, held), held)
  <2>1. \A i \in DOMAIN slots : slots[i] # Fresh => slots[i] \in DOMAIN held
    BY <1>1, SlotNames
  <2> QED BY <1>1, <1>3, <1>5, <2>1 DEF Fits
<1>7. CanTake(Of(next, held), held)
  BY <1>1, <1>2, <1>6, TakingIsResolving
<1>8. ASSUME NEW i \in DOMAIN next
      PROVE  (IF slots[i] = Fresh THEN fresh[Rank(slots, i)] ELSE held[slots[i]]) = next[i]
  <2>1. CASE slots[i] = Fresh
    <3>1. i \in P
      BY <1>1, <2>1 DEF Places
    <3>2. (CHOOSE j \in P : Rank(slots, j) = Rank(slots, i)) = i
      BY <1>3, <3>1
    <3> QED BY <1>3, <1>4, <2>1, <3>1, <3>2
  <2>2. CASE slots[i] # Fresh
    BY <2>2, SlotNames
  <2> QED BY <2>1, <2>2
<1>9. Resolve(Of(next, held), held) =
          [i \in 1..Len(next) |-> IF slots[i] = Fresh THEN fresh[Rank(slots, i)] ELSE held[slots[i]]]
  BY <1>1 DEF Resolve
<1>10. Resolve(Of(next, held), held) = next
  <2>1. next = [i \in 1..Len(next) |-> next[i]]
    OBVIOUS
  <2> QED BY <1>1, <1>8, <1>9, <2>1
<1> QED BY <1>7, <1>10

-----------------------------------------------------------------------------

(* TypeOK without the pipes, whose contents HostInv and PipeInv describe.                            *)
ScalarsOK ==
    /\ hpc \in {"start", "await", "ready", "closing", "stopping", "joining", "reaping", "draining",
               "ended"}
    /\ asked \in Kinds \cup {"none"}
    /\ phase \in {"source", "transforms", "targets", "posts"}
    /\ calls \in 0..MaxCalls
    /\ outcome \in {"none", "ok", "failed", "protocol", "connection", "oversize", "timeout",
                   "abandoned", "config"}
    /\ dog \in {"off", "waiting", "expired", "killing", "gone"}
    /\ done \in BOOLEAN /\ fired \in BOOLEAN /\ closed \in BOOLEAN /\ opened \in BOOLEAN
    /\ frozen \in BOOLEAN /\ holder \in BOOLEAN /\ killed \in BOOLEAN /\ faulted \in BOOLEAN
    /\ wpc \in {"read", "run", "exiting", "stuck", "dead"}
    /\ task \in GraphCalls \cup ArtifactCalls \cup {"none"}
    /\ quirks \subseteq {"print", "spawn", "drop", "status"}

HeldOK ==
    /\ hostGraph \in Seq(Elements) /\ workerGraph \in Seq(Elements)
    /\ hostArts \in SUBSET Artifacts /\ workerArts \in SUBSET Artifacts
    /\ ~SameIds(hostArts) /\ ~SameIds(workerArts)

Equal == hostGraph = workerGraph /\ hostArts = workerArts

(* A request says to the worker what the host holds from now on. *)
Request(m) ==
    /\ m.kind = asked /\ m.kind \in Kinds
    /\ opened = (m.kind # "Hello")
    /\ m.kind = "GenerateTargets" => frozen
    /\ m.kind \in {"ApplyTransforms", "FreezeGraph"} => m.whole \in Seq(Elements)
                                                        /\ Describes(m, workerGraph)
    /\ m.kind = "ApplyTransforms" => hostGraph = m.whole
    /\ m.kind = "FreezeGraph" => hostGraph = <<>>
    /\ m.kind \notin {"ApplyTransforms", "FreezeGraph"} => hostGraph = workerGraph
    /\ m.kind \in ArtifactCalls =>
          /\ CanTake(m.patch, Listing[workerArts])
          /\ ElementsOf(Resolve(m.patch, Listing[workerArts])) = hostArts
    /\ m.kind \notin ArtifactCalls => hostArts = workerArts

(* An answer says to the host what the worker holds. *)
Answers(m) ==
    \/ m.kind = "Failed"
    \/ m.kind = "Ready" /\ asked = "Hello" /\ Equal
    \/ m.kind = "Done" /\ asked \in {"FreezeGraph", "Shutdown"} /\ Equal
       /\ (asked = "FreezeGraph" => frozen)
    \/ /\ m.kind = "Graph" /\ asked \in GraphCalls
       /\ m.whole \in Seq(Elements) /\ m.whole = workerGraph
       /\ Describes(m, hostGraph)
       /\ hostArts = workerArts
    \/ /\ m.kind = "ArtifactChanges" /\ asked \in ArtifactCalls
       /\ Overwrite(hostArts, m.changed) = workerArts
       /\ hostGraph = workerGraph

Garbage == [kind |-> "garbage"]

(* The worker works on a request: the stages run on what the host sent. *)
Working == /\ wpc = "run"
           /\ task \in GraphCalls \cup ArtifactCalls
           /\ toWorker = <<>>
           /\ toHost = <<>> \/ (toHost = <<Garbage>> /\ "print" \in quirks)
Asked == /\ toHost = <<>> /\ ~faulted
         /\ wpc \in {"read", "dead"}
         /\ \E m : toWorker = <<m>> /\ Request(m)
Serving == /\ Working
           /\ task = asked /\ opened /\ Equal
           /\ faulted => toHost = <<Garbage>>
Lost == toWorker = <<>> /\ toHost = <<>> /\ wpc \in {"exiting", "stuck", "dead"}
Delivers(m) ==
    /\ Answers(m)
    /\ m.kind = "Failed" => wpc \in {"exiting", "stuck", "dead"}
    /\ m.kind # "Failed" =>
          /\ ~faulted /\ opened
          /\ wpc \in IF asked = "Shutdown" THEN {"exiting", "stuck", "dead"} ELSE {"read", "dead"}
Answered == toWorker = <<>> /\ \E m : toHost = <<m>> /\ Delivers(m)
Printed == /\ toWorker = <<>> /\ wpc # "run"
           /\ \/ toHost = <<Garbage>>
              \/ \E m : toHost = <<Garbage, m>> /\ Answers(m)

(* Nothing is under way. *)
Rests == /\ toWorker = <<>> /\ toHost = <<>>
         /\ wpc \in {"read", "dead"}
         /\ ~faulted /\ Equal

(* The place of the host, and what it implies of the pipes and of the worker. *)
HostInv ==
    /\ hpc \in {"start", "await", "ready"} => outcome = "none" /\ ~closed
    /\ hpc = "start" => Rests /\ ~opened /\ phase = "source" /\ ~frozen
    /\ hpc = "ready" => Rests /\ opened
    /\ hpc = "await" => Asked \/ Serving \/ Lost \/ Answered \/ Printed
    /\ phase = "targets" => frozen \/ (asked = "FreezeGraph" /\ hpc # "ready")
    /\ hpc \notin {"start", "await", "ready"} =>
          toWorker = <<>> \/ (wpc = "dead" /\ \E m : toWorker = <<m>> /\ Request(m))

PipeInv ==
    /\ wpc = "run" => Working
    /\ \/ toHost = <<>>
       \/ \E m : toHost = <<m>> /\ m.kind \in Replies
       \/ \E m : toHost = <<Garbage, m>> /\ m.kind \in Replies

OutcomeInv ==
    /\ outcome # "protocol"
    /\ outcome = "ok" => ~faulted /\ wpc \in {"exiting", "stuck", "dead"} /\ hpc # "ready"
    /\ killed => fired
    /\ dog = "killing" => fired

IInv == ScalarsOK /\ HeldOK /\ HostInv /\ PipeInv /\ OutcomeInv

-----------------------------------------------------------------------------
(* Facts about data *)

LEMMA AppendSecond ==
  ASSUME NEW m, NEW g
  PROVE  Append(<<g>>, m) = <<g, m>>
<1> DEFINE A == Append(<<g>>, m)
           B == <<g, m>>
<1>1. <<g>> \in Seq({m, g}) /\ m \in {m, g} /\ B \in Seq({m, g})
  OBVIOUS
<1>2. Len(B) = 2 /\ Len(<<g>>) = 1 /\ B[1] = g /\ B[2] = m /\ <<g>>[1] = g
  OBVIOUS
<1>3. A \in Seq({m, g}) /\ Len(A) = 2 /\ A[1] = g /\ A[2] = m
  BY <1>1, <1>2, AppendProperties
<1> HIDE DEF A, B
<1>4. \A i \in 1..Len(A) : A[i] = B[i]
  BY <1>2, <1>3
<1>5. A = B
  BY <1>1, <1>2, <1>3, <1>4, SeqEqual
<1> QED BY <1>5 DEF A, B

LEMMA Pipes ==
  ASSUME NEW m, NEW g
  PROVE  /\ Append(<<>>, m) = <<m>> /\ Append(<<g>>, m) = <<g, m>>
         /\ Head(<<m>>) = m /\ Tail(<<m>>) = <<>> /\ <<m>> # <<>>
         /\ Head(<<g, m>>) = g /\ Tail(<<g, m>>) = <<m>> /\ <<g, m>> # <<>>
<1>1. Append(<<>>, m) = <<m>>
  <2>1. <<>> \in Seq({m}) /\ m \in {m} /\ <<m>> \in Seq({m})
    OBVIOUS
  <2>2. Len(<<>>) = 0 /\ Len(<<m>>) = 1 /\ <<m>>[1] = m
    OBVIOUS
  <2> QED BY <2>1, <2>2, AppendProperties
<1>2. Head(<<m>>) = m /\ Tail(<<m>>) = <<>> /\ <<m>> # <<>>
  OBVIOUS
<1>3. Head(<<g, m>>) = g /\ Tail(<<g, m>>) = <<m>> /\ <<g, m>> # <<>>
  OBVIOUS
<1> QED BY <1>1, <1>2, <1>3, AppendSecond

(* Every set of artifacts can be sent, and arrives. *)
LEMMA ArtifactsArrive ==
  ASSUME NEW next \in SUBSET Artifacts, NEW held \in SUBSET Artifacts
  PROVE  /\ CanTake(Of(Listing[next], Listing[held]), Listing[held])
         /\ ElementsOf(Resolve(Of(Listing[next], Listing[held]), Listing[held])) = next
<1>1. Listing[next] \in Seq(Artifacts) /\ Listing[held] \in Seq(Artifacts)
  BY WorkerAssumption
<1>2. next = ElementsOf(Listing[next])
  BY WorkerAssumption DEF ElementsOf
<1> QED BY <1>1, <1>2, RoundTrip

LEMMA OverwriteKeepsIds ==
  ASSUME NEW files \in SUBSET Artifacts, NEW changes \in SUBSET Artifacts,
         ~SameIds(files), ~SameIds(changes)
  PROVE  Overwrite(files, changes) \in SUBSET Artifacts /\ ~SameIds(Overwrite(files, changes))
BY DEF SameIds, Overwrite

(* What differs is enough of a report of what was written. *)
LEMMA ReportSuffices ==
  ASSUME NEW files \in SUBSET Artifacts, NEW touched \in SUBSET Artifacts,
         ~SameIds(files), ~SameIds(touched)
  PROVE  Overwrite(files, touched \ files) = Overwrite(files, touched)
<1> DEFINE L == Overwrite(files, touched \ files)
           R == Overwrite(files, touched)
<1>1. ASSUME NEW a \in L PROVE a \in R
  BY <1>1 DEF SameIds, Overwrite
<1>2. ASSUME NEW a \in R PROVE a \in L
  BY <1>2 DEF SameIds, Overwrite
<1> QED BY <1>1, <1>2

-----------------------------------------------------------------------------
(* The steps of the host *)

LEMMA InitInv == Init => IInv
<1> SUFFICES ASSUME Init PROVE IInv
  OBVIOUS
<1>1. <<>> \in Seq(Elements) /\ ~SameIds({}) /\ 0 \in 0..MaxCalls
  BY WorkerAssumption DEF SameIds
<1> QED BY <1>1 DEF Init, IInv, ScalarsOK, HeldOK, HostInv, PipeInv, OutcomeInv, Rests, Equal

(* Sending a request that says what the host holds from then on. *)
LEMMA Sends ==
  ASSUME IInv, NEW call \in Kinds, NEW m, hpc \in {"start", "ready"}, Send(call, m),
         phase' \in {"source", "transforms", "targets", "posts"}, calls' \in 0..MaxCalls,
         phase' = "targets" => frozen \/ call = "FreezeGraph",
         HeldOK', Request(m)'
  PROVE  IInv'
<1> USE DEF IInv, Send, Breaks, Ends, watchdog, worker, heldByWorker, history
<1>1. Rests /\ ~closed /\ outcome = "none"
  BY DEF HostInv
<1>2. ScalarsOK'
  BY DEF ScalarsOK
<1>3. PipeInv'
  BY <1>1 DEF PipeInv, Rests
<1>4. OutcomeInv'
  BY <1>1 DEF OutcomeInv
<1>5. CASE hpc' = "await"
  <2>1. toWorker' = <<m>>
    BY <1>1, <1>5, Pipes DEF Rests
  <2>2. Asked'
    BY <1>1, <2>1 DEF Asked, Rests
  <2>3. HostInv'
    BY <1>1, <1>5, <2>2 DEF HostInv, ScalarsOK
  <2> QED BY <1>2, <1>3, <1>4, <2>3
<1>6. CASE hpc' = "closing"
  <2>1. HostInv'
    BY <1>1, <1>6 DEF HostInv, Rests
  <2> QED BY <1>2, <1>3, <1>4, <2>1
<1> QED BY <1>5, <1>6

LEMMA SendHelloInv == ASSUME IInv, SendHello PROVE IInv'
<1>1. PICK m : m = [kind |-> "Hello"] /\ Send("Hello", m)
  BY DEF SendHello
<1>2. Rests /\ opened = FALSE
  BY DEF IInv, HostInv, ScalarsOK, SendHello
<1>3. Request(m)'
  BY <1>1, <1>2 DEF SendHello, Send, Request, Rests, Equal, Kinds, GraphCalls, ArtifactCalls,
                    heldByHost, heldByWorker, worker
<1>4. HeldOK'
  BY <1>1 DEF IInv, HeldOK, SendHello, Send, heldByHost, heldByWorker
<1>5. phase' = "source" /\ calls' = calls
  BY DEF SendHello, IInv, HostInv
<1> QED BY <1>1, <1>3, <1>4, <1>5, Sends DEF SendHello, IInv, ScalarsOK, Kinds

LEMMA SendShutdownInv == ASSUME IInv, SendShutdown PROVE IInv'
<1>1. PICK m : m = [kind |-> "Shutdown"] /\ Send("Shutdown", m)
  BY DEF SendShutdown
<1>2. Rests /\ opened
  BY DEF IInv, HostInv, SendShutdown
<1>3. Request(m)'
  BY <1>1, <1>2 DEF SendShutdown, Send, Request, Rests, Equal, Kinds, GraphCalls, ArtifactCalls,
                    heldByHost, heldByWorker, worker
<1>4. HeldOK'
  BY <1>1 DEF IInv, HeldOK, SendShutdown, Send, heldByHost, heldByWorker
<1> QED BY <1>1, <1>3, <1>4, Sends DEF SendShutdown, IInv, ScalarsOK, HostInv, Kinds

LEMMA LoadSourceInv == ASSUME IInv, LoadSource PROVE IInv'
<1>1. PICK m : m = [kind |-> "LoadSource"] /\ Send("LoadSource", m)
  BY DEF LoadSource
<1>2. Rests /\ opened
  BY DEF IInv, HostInv, LoadSource, Calls
<1>3. Request(m)'
  BY <1>1, <1>2 DEF LoadSource, Send, Request, Rests, Equal, Kinds, GraphCalls, ArtifactCalls,
                    heldByHost, heldByWorker, worker
<1>4. HeldOK'
  BY <1>1 DEF IInv, HeldOK, LoadSource, Send, heldByHost, heldByWorker
<1> QED BY <1>1, <1>3, <1>4, Sends, WorkerAssumption
        DEF LoadSource, Calls, IInv, ScalarsOK, Kinds, GraphCalls

LEMMA ApplyTransformsInv == ASSUME IInv, ApplyTransforms PROVE IInv'
<1>1. PICK graph \in Graphs :
          /\ hostGraph' = graph
          /\ Send("ApplyTransforms", [kind |-> "ApplyTransforms", whole |-> graph,
                                      patch |-> Of(graph, hostGraph)])
  BY DEF ApplyTransforms
<1>2. PICK m : m = [kind |-> "ApplyTransforms", whole |-> graph, patch |-> Of(graph, hostGraph)]
  OBVIOUS
<1>3. Rests /\ opened /\ hostGraph \in Seq(Elements)
  BY DEF IInv, HostInv, HeldOK, ApplyTransforms, Calls
<1>4. graph \in Seq(Elements) /\ workerGraph' = hostGraph /\ hostArts' = workerArts'
  BY <1>1, <1>3, WorkerAssumption DEF Rests, Equal, Send, heldByWorker, ApplyTransforms
<1>5. m.whole = graph /\ Describes(m, hostGraph)
  BY <1>2, <1>3, <1>4, RoundTrip DEF Describes
<1>6. Describes(m, workerGraph)'
  BY <1>4, <1>5 DEF Describes
<1>7. Request(m)'
  BY <1>1, <1>2, <1>3, <1>4, <1>5, <1>6
     DEF Send, Request, Kinds, GraphCalls, ArtifactCalls, worker
<1>8. HeldOK'
  BY <1>1, <1>4 DEF IInv, HeldOK, ApplyTransforms, Send, heldByWorker
<1> QED BY <1>1, <1>2, <1>7, <1>8, Sends, WorkerAssumption
        DEF ApplyTransforms, Calls, IInv, ScalarsOK, Kinds, GraphCalls

LEMMA FreezeGraphInv == ASSUME IInv, FreezeGraph PROVE IInv'
<1>1. PICK graph \in Graphs :
          Send("FreezeGraph", [kind |-> "FreezeGraph", whole |-> graph,
                               patch |-> Of(graph, hostGraph)])
  BY DEF FreezeGraph
<1>2. PICK m : m = [kind |-> "FreezeGraph", whole |-> graph, patch |-> Of(graph, hostGraph)]
  OBVIOUS
<1>3. Rests /\ opened /\ hostGraph \in Seq(Elements)
  BY DEF IInv, HostInv, HeldOK, FreezeGraph, Calls
<1>4. graph \in Seq(Elements) /\ workerGraph' = hostGraph /\ hostArts' = workerArts'
      /\ hostGraph' = <<>>
  BY <1>1, <1>3, WorkerAssumption DEF Rests, Equal, Send, heldByWorker, FreezeGraph
<1>5. m.whole = graph /\ Describes(m, hostGraph)
  BY <1>2, <1>3, <1>4, RoundTrip DEF Describes
<1>6. Describes(m, workerGraph)'
  BY <1>4, <1>5 DEF Describes
<1>7. Request(m)'
  BY <1>1, <1>2, <1>3, <1>4, <1>5, <1>6
     DEF Send, Request, Kinds, GraphCalls, ArtifactCalls, worker
<1>8. HeldOK'
  BY <1>1, <1>4 DEF IInv, HeldOK, FreezeGraph, Send, heldByWorker
<1> QED BY <1>1, <1>2, <1>7, <1>8, Sends, WorkerAssumption
        DEF FreezeGraph, Calls, IInv, ScalarsOK, Kinds

LEMMA SendArtifactsInv ==
  ASSUME IInv, NEW call \in ArtifactCalls, hpc = "ready", SendArtifacts(call),
         phase' \in {"targets", "posts"}, calls' \in 0..MaxCalls,
         call = "GenerateTargets" => phase = "targets",
         phase' = "targets" => phase = "targets"
  PROVE  IInv'
<1>1. PICK changes \in SUBSET Artifacts :
          /\ ~SameIds(changes)
          /\ hostArts' = Overwrite(hostArts, changes)
          /\ Send(call, [kind |-> call, whole |-> hostArts',
                         patch |-> Of(Listing[hostArts'], Listing[hostArts])])
          /\ UNCHANGED hostGraph
  BY DEF SendArtifacts
<1>2. PICK m : m = [kind |-> call, whole |-> hostArts',
                    patch |-> Of(Listing[hostArts'], Listing[hostArts])]
  OBVIOUS
<1>3. Rests /\ opened /\ (phase = "targets" => frozen)
  BY DEF IInv, HostInv
<1>4. hostArts \in SUBSET Artifacts /\ ~SameIds(hostArts)
  BY DEF IInv, HeldOK
<1>5. hostArts' \in SUBSET Artifacts /\ ~SameIds(hostArts')
  BY <1>1, <1>4, OverwriteKeepsIds
<1>6. workerArts' = hostArts /\ workerGraph' = hostGraph'
  BY <1>1, <1>3 DEF Rests, Equal, Send, heldByWorker
<1>7. /\ CanTake(m.patch, Listing[hostArts])
      /\ ElementsOf(Resolve(m.patch, Listing[hostArts])) = hostArts'
  BY <1>2, <1>4, <1>5, ArtifactsArrive
<1>8. Request(m)'
  BY <1>1, <1>2, <1>3, <1>6, <1>7 DEF Send, Request, Kinds, GraphCalls, ArtifactCalls, worker
<1>9. HeldOK'
  BY <1>1, <1>3, <1>5, <1>6 DEF IInv, HeldOK, Send, heldByWorker
<1> QED BY <1>1, <1>2, <1>3, <1>8, <1>9, Sends DEF Kinds, ArtifactCalls

LEMMA GenerateTargetsInv == ASSUME IInv, GenerateTargets PROVE IInv'
BY SendArtifactsInv, WorkerAssumption DEF GenerateTargets, Calls, ArtifactCalls, IInv, ScalarsOK

LEMMA RunPostsInv == ASSUME IInv, RunPosts PROVE IInv'
BY SendArtifactsInv, WorkerAssumption DEF RunPosts, Calls, ArtifactCalls, IInv, ScalarsOK

(* What the host holds, the worker holds: the call is over. *)
LEMMA ReceiveInv == ASSUME IInv, Receive PROVE IInv'
<1> USE DEF IInv
<1>1. /\ hpc = "await" /\ outcome = "none" /\ ~closed /\ toHost # <<>> /\ toHost' = Tail(toHost)
      /\ Asked \/ Serving \/ Lost \/ Answered \/ Printed
  BY DEF Receive, HostInv
<1>2. UNCHANGED <<asked, phase, calls, dog, done, fired, closed, toWorker, wpc, task, opened, frozen,
                  workerGraph, workerArts, holder, killed, faulted, quirks>>
  BY DEF Receive, watchdog, worker, heldByWorker, history
<1>3. ASSUME Head(toHost) = Garbage, toWorker = <<>>, wpc # "run" \/ toHost = <<Garbage>>,
             toHost' = <<>> \/ \E m : toHost' = <<m>> /\ m.kind \in Replies
      PROVE  IInv'
  <2>1. Breaks("connection") /\ UNCHANGED heldByHost
    BY <1>3 DEF Receive, Garbage
  <2>2. ScalarsOK'
    BY <1>2, <2>1 DEF ScalarsOK, Breaks, Ends
  <2>3. HeldOK'
    BY <1>2, <2>1 DEF HeldOK, heldByHost
  <2>4. HostInv'
    BY <1>1, <1>2, <1>3, <2>1 DEF HostInv, Breaks, Ends
  <2>5. wpc = "run" => toHost' = <<>>
    BY <1>1, <1>3, Pipes
  <2>6. PipeInv'
    BY <1>2, <1>3, <2>5 DEF PipeInv, Working
  <2>7. OutcomeInv'
    BY <1>2, <2>1 DEF OutcomeInv, Breaks, Ends
  <2> QED BY <2>2, <2>3, <2>4, <2>6, <2>7
<1>4. ASSUME Answered PROVE IInv'
  <2>1. PICK m : toHost = <<m>> /\ Delivers(m)
    BY <1>4 DEF Answered
  <2>2. Head(toHost) = m /\ toHost' = <<>> /\ toWorker' = <<>> /\ wpc # "run"
    BY <1>1, <1>2, <1>4, <2>1, Pipes DEF Answered, Delivers
  <2>3. PipeInv'
    BY <1>2, <2>2 DEF PipeInv
  <2>4. CASE m.kind = "Failed"
    <3>1. Ends("failed") /\ UNCHANGED heldByHost
      BY <2>2, <2>4 DEF Receive
    <3>2. ScalarsOK'
      BY <1>2, <3>1 DEF ScalarsOK, Ends
    <3>3. HeldOK' /\ HostInv' /\ OutcomeInv'
      BY <1>1, <1>2, <2>2, <3>1 DEF HeldOK, HostInv, OutcomeInv, heldByHost, Ends
    <3> QED BY <2>3, <3>2, <3>3
  <2>5. CASE m.kind # "Failed"
    <3>1. /\ ~faulted /\ opened
          /\ wpc \in IF asked = "Shutdown" THEN {"exiting", "stuck", "dead"} ELSE {"read", "dead"}
          /\ Answers(m)
      BY <2>1, <2>5 DEF Delivers
    <3>2. m.kind # "garbage" /\ Accepts(m)
      BY <2>5, <3>1 DEF Answers, Accepts, Describes, GraphCalls, ArtifactCalls
    <3>3. Adopt(m) /\ IF asked = "Shutdown" THEN Ends("ok") ELSE hpc' = "ready" /\ UNCHANGED outcome
      BY <2>2, <2>5, <3>2 DEF Receive
    <3>4. hostGraph' = workerGraph' /\ hostArts' = workerArts'
      BY <1>2, <2>5, <3>1, <3>3 DEF Answers, Adopt, Describes, Equal, GraphCalls, ArtifactCalls
    <3>5. HeldOK'
      BY <1>2, <3>4 DEF HeldOK
    <3>6. phase = "targets" => frozen
      BY <1>1, <2>5, <3>1 DEF Answers, HostInv, GraphCalls, ArtifactCalls
    <3>7. CASE asked = "Shutdown"
      <4>1. ScalarsOK'
        BY <1>2, <3>3, <3>7 DEF ScalarsOK, Ends
      <4>2. HostInv' /\ OutcomeInv'
        BY <1>1, <1>2, <2>2, <3>1, <3>3, <3>6, <3>7 DEF HostInv, OutcomeInv, Ends
      <4> QED BY <2>3, <3>5, <4>1, <4>2
    <3>8. CASE asked # "Shutdown"
      <4>1. ScalarsOK'
        BY <1>2, <3>3, <3>8 DEF ScalarsOK
      <4>2. Rests'
        BY <1>2, <2>2, <3>1, <3>4, <3>8 DEF Rests, Equal
      <4>3. HostInv' /\ OutcomeInv'
        BY <1>1, <1>2, <2>2, <3>1, <3>3, <3>6, <3>8, <4>2 DEF HostInv, OutcomeInv
      <4> QED BY <2>3, <3>5, <4>1, <4>3
    <3> QED BY <3>7, <3>8
  <2> QED BY <2>4, <2>5
<1>5. ASSUME Serving PROVE IInv'
  <2>1. toWorker = <<>> /\ toHost = <<Garbage>>
    BY <1>1, <1>5 DEF Serving, Working
  <2>2. Head(toHost) = Garbage /\ toHost' = <<>>
    BY <1>1, <2>1, Pipes
  <2> QED BY <1>3, <2>1, <2>2
<1>6. ASSUME Printed PROVE IInv'
  <2>1. toWorker = <<>> /\ wpc # "run"
    BY <1>6 DEF Printed
  <2>2. CASE toHost = <<Garbage>>
    BY <1>1, <1>3, <2>1, <2>2, Pipes
  <2>3. CASE \E m : toHost = <<Garbage, m>> /\ Answers(m)
    <3>1. PICK m : toHost = <<Garbage, m>> /\ Answers(m)
      BY <2>3
    <3>2. Head(toHost) = Garbage /\ toHost' = <<m>>
      BY <1>1, <3>1, Pipes
    <3>3. m.kind \in Replies
      BY <3>1 DEF Answers, Replies
    <3> QED BY <1>3, <2>1, <3>2, <3>3
  <2> QED BY <1>6, <2>2, <2>3 DEF Printed
<1> QED BY <1>1, <1>4, <1>5, <1>6 DEF Asked, Lost

LEMMA ReceiveEofInv == ASSUME IInv, ReceiveEof PROVE IInv'
<1> USE DEF IInv
<1>1. /\ hpc = "await" /\ outcome = "none" /\ ~closed /\ toHost = <<>> /\ wpc = "dead"
      /\ Asked \/ Serving \/ Lost \/ Answered \/ Printed
  BY DEF ReceiveEof, HostInv, Gone
<1>2. UNCHANGED <<asked, phase, calls, hostGraph, hostArts, dog, done, fired, closed, toWorker,
                  toHost, wpc, task, opened, frozen, workerGraph, workerArts, holder, killed, faulted,
                  quirks>>
  BY DEF ReceiveEof, watchdog, worker, heldByHost, heldByWorker, history
<1>3. toWorker = <<>> \/ (wpc = "dead" /\ \E m : toWorker = <<m>> /\ Request(m))
  BY <1>1 DEF Asked, Serving, Working, Lost, Answered, Printed
<1>4. (\E m : toWorker = <<m>> /\ Request(m)) => (\E m : toWorker' = <<m>> /\ Request(m)')
  BY <1>2 DEF Request, Describes
<1>5. ScalarsOK'
  BY <1>2 DEF ScalarsOK, ReceiveEof, Breaks, Ends
<1>6. HeldOK' /\ PipeInv' /\ OutcomeInv'
  BY <1>1, <1>2 DEF HeldOK, PipeInv, OutcomeInv, ReceiveEof, Breaks, Ends
<1>7. HostInv'
  BY <1>1, <1>2, <1>3, <1>4 DEF HostInv, ReceiveEof, Breaks, Ends
<1> QED BY <1>5, <1>6, <1>7

(* The steps after which the host no longer takes part: Abandon, RefuseBudget and `finish`. *)
LEMMA Leaves ==
  ASSUME IInv, hpc' \notin {"start", "await", "ready"}, hpc # "await",
         hpc' \in {"closing", "stopping", "joining", "reaping", "draining", "ended"},
         outcome' \in {outcome, "abandoned", "config"},
         closed' \in BOOLEAN, done' \in BOOLEAN,
         toHost' = toHost \/ (toHost' = <<>> /\ hpc \notin {"start", "ready"}),
         UNCHANGED <<asked, phase, calls, hostGraph, hostArts, dog, fired, toWorker, wpc, task, opened,
                     frozen, workerGraph, workerArts, holder, killed, faulted, quirks>>
  PROVE  IInv'
<1> USE DEF IInv
<1>1. toWorker = <<>> \/ (wpc = "dead" /\ \E m : toWorker = <<m>> /\ Request(m))
  BY DEF HostInv, Rests, ScalarsOK
<1>2. (\E m : toWorker = <<m>> /\ Request(m)) => (\E m : toWorker' = <<m>> /\ Request(m)')
  BY DEF Request, Describes
<1>3. ScalarsOK'
  BY DEF ScalarsOK
<1>4. HeldOK' /\ PipeInv'
  BY DEF HeldOK, PipeInv, Working
<1>5. OutcomeInv'
  BY DEF OutcomeInv
<1>6. HostInv'
  BY <1>1, <1>2 DEF HostInv, ScalarsOK
<1> QED BY <1>3, <1>4, <1>5, <1>6

LEMMA LeavesInv ==
  ASSUME IInv,
         RefuseBudget \/ Abandon \/ ClosePipes \/ StopWatchdog \/ JoinWatchdog \/ Reap \/ Drain
  PROVE  IInv'
<1> USE DEF heldByHost, watchdog, worker, heldByWorker, history
<1>1. closed \in BOOLEAN /\ done \in BOOLEAN
  BY DEF IInv, ScalarsOK
<1>2. CASE RefuseBudget
  BY <1>1, <1>2, Leaves DEF RefuseBudget
<1>3. CASE Abandon
  BY <1>1, <1>3, Leaves DEF Abandon, Ends
<1>4. CASE ClosePipes
  BY <1>1, <1>4, Leaves DEF ClosePipes, Finishing
<1>5. CASE StopWatchdog
  BY <1>1, <1>5, Leaves DEF StopWatchdog, Finishing
<1>6. CASE JoinWatchdog
  BY <1>1, <1>6, Leaves DEF JoinWatchdog, Finishing
<1>7. CASE Reap
  BY <1>1, <1>7, Leaves DEF Reap, Finishing
<1>8. CASE Drain
  BY <1>1, <1>8, Leaves DEF Drain, Finishing
<1> QED BY <1>2, <1>3, <1>4, <1>5, <1>6, <1>7, <1>8

-----------------------------------------------------------------------------
(* The steps of the watchdog, and of a process that a stage started *)

LEMMA WatchdogInv == ASSUME IInv, Watchdog PROVE IInv'
<1> USE DEF IInv
<1>1. UNCHANGED <<hpc, asked, phase, calls, outcome, hostGraph, hostArts, done, closed, toWorker,
                  toHost, task, opened, frozen, workerGraph, workerArts, holder, faulted, quirks>>
  BY DEF Watchdog, StandDown, Expire, Fire, Kill, Watches, host, heldByHost, heldByWorker
<1>2. (\E m : toWorker = <<m>> /\ Request(m)) => (\E m : toWorker' = <<m>> /\ Request(m)')
  BY <1>1 DEF Request, Describes
<1>3. HeldOK'
  BY <1>1 DEF HeldOK
<1>4. ScalarsOK'
  <2>1. fired' \in BOOLEAN
    BY DEF ScalarsOK, Watchdog, StandDown, Expire, Fire, Kill, Watches
  <2>2. killed' \in BOOLEAN
    BY DEF ScalarsOK, Watchdog, StandDown, Expire, Fire, Kill, Watches
  <2>3. wpc' \in {wpc, "dead"} /\ dog' \in {"expired", "killing", "gone"}
    BY DEF Watchdog, StandDown, Expire, Fire, Kill, Watches
  <2> QED BY <1>1, <2>1, <2>2, <2>3 DEF ScalarsOK
<1>5. CASE wpc' = wpc /\ killed' = killed
  <2>1. OutcomeInv'
    BY <1>1, <1>5 DEF OutcomeInv, Watchdog, StandDown, Expire, Fire, Kill, Watches
  <2>2. PipeInv'
    BY <1>1, <1>5 DEF PipeInv, Working
  <2>3. \A m : Delivers(m) => Delivers(m)'
    BY <1>1, <1>5 DEF Delivers, Answers, Describes, Equal
  <2>4. HostInv'
    BY <1>1, <1>2, <1>5, <2>3 DEF HostInv, Rests, Equal, Asked, Serving, Working, Lost, Answered,
                                  Printed, Request, Answers, Describes
  <2> QED BY <1>3, <1>4, <2>1, <2>2, <2>4
<1>6. CASE Kill
  <2>1. wpc' = "dead" /\ dog = "killing" /\ dog' = "gone" /\ fired' = fired
    BY <1>6 DEF Kill, Watches
  <2>2. OutcomeInv'
    BY <1>1, <2>1 DEF OutcomeInv
  <2>3. PipeInv'
    BY <1>1, <2>1 DEF PipeInv
  <2>4. \A m : Delivers(m) => Delivers(m)'
    BY <1>1, <2>1 DEF Delivers, Answers, Describes, Equal
  <2>5. \A m : Answers(m) => Answers(m)'
    BY <1>1 DEF Answers, Describes, Equal
  <2>6. Rests => Rests'
    BY <1>1, <2>1 DEF Rests, Equal
  <2>7. Asked => Asked'
    BY <1>1, <1>2, <2>1 DEF Asked
  <2>8. Serving \/ Lost \/ Printed => (Lost \/ Printed)'
    BY <1>1, <2>1, <2>5 DEF Serving, Working, Lost, Printed
  <2>9. Answered => Answered'
    BY <1>1, <2>4 DEF Answered
  <2>10. HostInv'
    BY <1>1, <1>2, <2>1, <2>6, <2>7, <2>8, <2>9 DEF HostInv
  <2> QED BY <1>3, <1>4, <2>2, <2>3, <2>10
<1> QED BY <1>5, <1>6 DEF Watchdog, StandDown, Expire, Fire

LEMMA HolderEndsInv == ASSUME IInv, HolderEnds \/ UNCHANGED vars PROVE IInv'
<1> USE DEF IInv
<1>1. UNCHANGED <<hpc, asked, phase, calls, outcome, hostGraph, hostArts, dog, done, fired, closed,
                  toWorker, toHost, wpc, task, opened, frozen, workerGraph, workerArts, killed,
                  faulted, quirks>>
      /\ holder' \in BOOLEAN
  BY DEF HolderEnds, vars, host, heldByHost, watchdog, worker, heldByWorker, history, ScalarsOK
<1>2. ScalarsOK' /\ HeldOK' /\ PipeInv' /\ OutcomeInv'
  BY <1>1 DEF ScalarsOK, HeldOK, PipeInv, Working, OutcomeInv
<1>3. \A m : (Delivers(m) => Delivers(m)') /\ (Answers(m) => Answers(m)')
  BY <1>1 DEF Delivers, Answers, Describes, Equal
<1>4. \A m : Request(m) => Request(m)'
  BY <1>1 DEF Request, Describes
<1>5. HostInv'
  BY <1>1, <1>3, <1>4 DEF HostInv, Rests, Equal, Asked, Serving, Working, Lost, Answered, Printed
<1> QED BY <1>2, <1>5

-----------------------------------------------------------------------------
(* The steps of the worker *)

(* A request is served by an answer, by the stages it asks for, or by an end without an answer. *)
LEMMA ServeInv ==
  ASSUME IInv, NEW m, Head(toWorker) = m, Request(m), toHost = <<>>, ~faulted, ~closed,
         hpc = "await", wpc = "read", opened, Serve(m), Works,
         toWorker' = <<>>, UNCHANGED <<holder, quirks>>
  PROVE  ScalarsOK' /\ HeldOK' /\ PipeInv' /\ (Serving \/ Answered)'
<1> USE DEF IInv, host, heldByHost, heldByWorker, watchdog
<1>1. UNCHANGED <<hpc, asked, phase, calls, outcome, hostGraph, hostArts, dog, done, fired, closed,
                  killed, holder, quirks>>
  BY DEF Works
<1>2. m.kind = asked /\ m.kind \in Kinds
  BY DEF Request
<1>3. ASSUME NEW call \in GraphCalls \cup ArtifactCalls, Runs(call), call = asked, Equal', HeldOK',
             frozen' = frozen
      PROVE  ScalarsOK' /\ HeldOK' /\ PipeInv' /\ (Serving \/ Answered)'
  <2>1. /\ task' = call /\ wpc' = "run" /\ toHost' = <<>> /\ toWorker' = <<>>
        /\ UNCHANGED <<opened, faulted>>
    BY <1>3 DEF Runs
  <2>2. Working'
    BY <1>3, <2>1 DEF Working
  <2> QED BY <1>1, <1>3, <2>1, <2>2 DEF ScalarsOK, PipeInv, Serving
<1>4. ASSUME Answer([kind |-> "Done"]), Equal', HeldOK', asked \in {"FreezeGraph", "Shutdown"},
             asked = "FreezeGraph" => frozen',
             wpc' = IF asked = "Shutdown" THEN "exiting" ELSE "read",
             frozen' \in BOOLEAN, UNCHANGED <<task, opened, faulted>>
      PROVE  ScalarsOK' /\ HeldOK' /\ PipeInv' /\ (Serving \/ Answered)'
  <2>1. PICK d : d = [kind |-> "Done"] /\ toHost' = Append(<<>>, d)
    BY <1>4 DEF Answer
  <2>2. toHost' = <<d>> /\ d.kind = "Done"
    BY <2>1, Pipes
  <2>3. Delivers(d)'
    BY <1>1, <1>4, <2>2 DEF Delivers, Answers
  <2>4. Answered'
    BY <2>2, <2>3 DEF Answered
  <2>5. PipeInv'
    BY <1>4, <2>2 DEF PipeInv, Replies
  <2> QED BY <1>1, <1>4, <2>4, <2>5 DEF ScalarsOK
<1>5. CASE m.kind = "LoadSource"
  <2>1. Runs("LoadSource") /\ UNCHANGED <<frozen, heldByWorker>>
    BY <1>5 DEF Serve, ArtifactCalls
  <2>2. Equal' /\ HeldOK'
    BY <1>1, <1>5, <2>1 DEF Request, Equal, HeldOK, ArtifactCalls
  <2> QED BY <1>2, <1>3, <1>5, <2>1, <2>2 DEF GraphCalls
<1>6. CASE m.kind = "ApplyTransforms"
  <2>1. /\ workerGraph' = Resolve(m.patch, workerGraph)
        /\ Runs("ApplyTransforms") /\ UNCHANGED <<frozen, workerArts>>
    BY <1>6 DEF Serve
  <2>2. workerGraph' = hostGraph /\ hostArts = workerArts
    BY <1>6, <2>1 DEF Request, Describes, ArtifactCalls
  <2>3. Equal' /\ HeldOK'
    BY <1>1, <2>1, <2>2 DEF Equal, HeldOK
  <2> QED BY <1>2, <1>3, <1>6, <2>1, <2>3 DEF GraphCalls
<1>7. CASE m.kind = "FreezeGraph"
  <2>1. /\ workerGraph' = <<>> /\ frozen' = TRUE
        /\ AnswerAndRead([kind |-> "Done"])
        /\ UNCHANGED <<task, opened, workerArts, faulted>>
    BY <1>7 DEF Serve
  <2>2. Equal' /\ HeldOK'
    BY <1>1, <1>7, <2>1 DEF Request, Equal, HeldOK, ArtifactCalls
  <2> QED BY <1>2, <1>4, <1>7, <2>1, <2>2 DEF AnswerAndRead
<1>8. CASE m.kind \in ArtifactCalls
  <2>1. /\ workerArts' = ElementsOf(Resolve(m.patch, Listing[workerArts]))
        /\ Runs(m.kind) /\ UNCHANGED <<frozen, workerGraph>>
    BY <1>8 DEF Serve, ArtifactCalls
  <2>2. workerArts' = hostArts /\ workerGraph = hostGraph
    BY <1>8, <2>1 DEF Request, ArtifactCalls
  <2>3. Equal' /\ HeldOK'
    BY <1>1, <2>1, <2>2 DEF Equal, HeldOK
  <2> QED BY <1>2, <1>3, <1>8, <2>1, <2>3
<1>9. CASE m.kind = "Shutdown"
  <2>1. /\ Answer([kind |-> "Done"]) /\ wpc' = "exiting"
        /\ UNCHANGED <<task, opened, frozen, heldByWorker, faulted>>
    BY <1>9 DEF Serve, ArtifactCalls
  <2>2. Equal' /\ HeldOK' /\ frozen' \in BOOLEAN
    BY <1>1, <1>9, <2>1 DEF Request, Equal, HeldOK, ArtifactCalls, ScalarsOK
  <2> QED BY <1>2, <1>4, <1>9, <2>1, <2>2
<1> QED BY <1>5, <1>6, <1>7, <1>8, <1>9 DEF Serve, ArtifactCalls

(* The handshake of the worker. *)
LEMMA OpenInv ==
  ASSUME IInv, NEW m, Head(toWorker) = m, Request(m), toHost = <<>>, ~faulted, ~closed,
         hpc = "await", wpc = "read", Open(m), Works,
         toWorker' = <<>>, UNCHANGED <<holder, quirks>>
  PROVE  ScalarsOK' /\ HeldOK' /\ PipeInv' /\ Answered'
<1> USE DEF IInv, host, heldByHost, heldByWorker, watchdog
<1>1. UNCHANGED <<hpc, asked, phase, calls, outcome, hostGraph, hostArts, dog, done, fired, closed,
                  killed, holder, quirks, task, frozen, workerGraph, workerArts>>
  BY DEF Works, Open
<1>2. asked = "Hello" /\ m.kind = "Hello"
  BY DEF Request, Open
<1>3. Equal
  BY <1>2 DEF Request, Equal, ArtifactCalls
<1>4. HeldOK'
  BY <1>1 DEF HeldOK
<1>5. CASE opened' = TRUE /\ AnswerAndRead([kind |-> "Ready"]) /\ UNCHANGED faulted
  <2>1. PICK d : d = [kind |-> "Ready"] /\ toHost' = Append(<<>>, d)
    BY <1>5 DEF AnswerAndRead, Answer
  <2>2. toHost' = <<d>> /\ d.kind = "Ready"
    BY <2>1, Pipes
  <2>3. Delivers(d)'
    BY <1>1, <1>2, <1>3, <1>5, <2>2 DEF Delivers, Answers, Equal, AnswerAndRead
  <2>4. PipeInv' /\ Answered'
    BY <1>5, <2>2, <2>3 DEF PipeInv, Replies, Answered, AnswerAndRead
  <2>5. ScalarsOK'
    BY <1>1, <1>5 DEF ScalarsOK, AnswerAndRead
  <2> QED BY <1>4, <2>4, <2>5
<1>6. CASE Answer([kind |-> "Failed"]) /\ wpc' = "exiting" /\ faulted' = TRUE /\ UNCHANGED opened
  <2>1. PICK d : d = [kind |-> "Failed"] /\ toHost' = Append(<<>>, d)
    BY <1>6 DEF Answer
  <2>2. toHost' = <<d>> /\ d.kind = "Failed"
    BY <2>1, Pipes
  <2>3. PipeInv' /\ Answered'
    BY <1>6, <2>2 DEF PipeInv, Replies, Answered, Delivers, Answers
  <2>4. ScalarsOK'
    BY <1>1, <1>6 DEF ScalarsOK
  <2> QED BY <1>4, <2>3, <2>4
<1> QED BY <1>5, <1>6 DEF Open

LEMMA WorkerReadsInv == ASSUME IInv, WorkerReads PROVE IInv'
<1> USE DEF IInv
<1>1. wpc = "read" /\ toWorker # <<>> /\ toWorker' = Tail(toWorker) /\ Works
      /\ UNCHANGED <<holder, quirks>>
  BY DEF WorkerReads
<1>2. hpc = "await" /\ ~closed /\ outcome = "none"
  BY <1>1 DEF HostInv, Rests, ScalarsOK
<1>3. Asked
  BY <1>1, <1>2 DEF HostInv, Serving, Working, Lost, Answered, Printed
<1>4. PICK m : toWorker = <<m>> /\ Request(m)
  BY <1>3 DEF Asked
<1>5. toHost = <<>> /\ ~faulted /\ Head(toWorker) = m /\ toWorker' = <<>>
  BY <1>1, <1>3, <1>4, Pipes DEF Asked
<1>6. ~(opened /\ Unserved(m) /\ Disagree)
  BY <1>4 DEF Unserved, Request, Describes
<1>7. Open(m) \/ (opened /\ Serve(m))
  BY <1>5, <1>6 DEF WorkerReads
<1>8. ScalarsOK' /\ HeldOK' /\ PipeInv' /\ (Serving \/ Answered)'
  <2>1. CASE Open(m)
    BY <1>1, <1>2, <1>4, <1>5, <2>1, OpenInv
  <2>2. CASE opened /\ Serve(m)
    BY <1>1, <1>2, <1>4, <1>5, <2>2, ServeInv
  <2> QED BY <1>7, <2>1, <2>2
<1>9. UNCHANGED <<hpc, asked, phase, outcome, closed, dog, fired, killed>>
  BY <1>1 DEF Works, host, watchdog
<1>10. frozen => frozen'
  BY <1>7 DEF Open, Serve, Runs
<1>11. HostInv' /\ OutcomeInv'
  BY <1>2, <1>8, <1>9, <1>10 DEF HostInv, OutcomeInv
<1> QED BY <1>8, <1>11

LEMMA WorkerEofInv == ASSUME IInv, WorkerEof PROVE IInv'
<1> USE DEF IInv
<1>1. /\ wpc = "read" /\ wpc' = "exiting" /\ toWorker = <<>> /\ closed
      /\ UNCHANGED <<hpc, asked, phase, calls, outcome, hostGraph, hostArts, dog, done, fired, closed,
                     toWorker, toHost, task, opened, frozen, workerGraph, workerArts, holder, killed,
                     faulted, quirks>>
  BY DEF WorkerEof, Works, host, heldByHost, watchdog, heldByWorker
<1>2. hpc \notin {"start", "await", "ready"}
  BY <1>1 DEF HostInv
<1> QED BY <1>1, <1>2 DEF ScalarsOK, HeldOK, HostInv, PipeInv, OutcomeInv

LEMMA ExitInv == ASSUME IInv, Exit PROVE IInv'
<1> USE DEF IInv
<1>1. /\ wpc = "exiting" /\ wpc' \in {"dead", "stuck"} /\ quirks \subseteq quirks'
      /\ UNCHANGED <<hpc, asked, phase, calls, outcome, hostGraph, hostArts, dog, done, fired, closed,
                     toWorker, toHost, task, opened, frozen, workerGraph, workerArts, holder, killed,
                     faulted>>
  BY DEF Exit, Works, host, heldByHost, watchdog, heldByWorker
<1>2. ScalarsOK'
  BY <1>1 DEF ScalarsOK, Exit
<1>3. HeldOK' /\ PipeInv' /\ OutcomeInv'
  BY <1>1 DEF HeldOK, PipeInv, OutcomeInv
<1>4. \A m : (Delivers(m) => Delivers(m)') /\ (Answers(m) => Answers(m)')
  BY <1>1 DEF Delivers, Answers, Describes, Equal
<1>5. HostInv'
  BY <1>1, <1>4 DEF HostInv, Rests, Asked, Serving, Working, Lost, Answered, Printed
<1> QED BY <1>2, <1>3, <1>5

-----------------------------------------------------------------------------
(* The stages of the user *)

(* While a stage runs, the host waits for it or no longer listens. *)
LEMMA StageRuns ==
  ASSUME IInv, Stage
  PROVE  /\ Working /\ outcome # "ok" /\ hpc \notin {"start", "ready"} /\ toWorker' = <<>>
         /\ hpc = "await" => Serving /\ ~closed
         /\ UNCHANGED <<hpc, asked, phase, calls, outcome, hostGraph, hostArts, dog, done, fired,
                        closed, killed, opened, frozen, toWorker>>
<1> USE DEF IInv
<1>1. wpc = "run"
  BY DEF Stage
<1>2. Working /\ outcome # "ok"
  BY <1>1 DEF PipeInv, OutcomeInv
<1>3. hpc \notin {"start", "ready"} /\ (hpc = "await" => ~closed)
  BY <1>1 DEF HostInv, Rests
<1>4. hpc = "await" => Serving
  BY <1>1 DEF HostInv, Asked, Lost, Answered, Delivers, Printed
<1> QED BY <1>2, <1>3, <1>4 DEF Stage, Works, Working, host, heldByHost, watchdog

(* It is enough to say what a stage leaves to the host that waits. *)
LEMMA StageStep ==
  ASSUME IInv, Stage, ScalarsOK', HeldOK', PipeInv',
         hpc = "await" => (Serving \/ Lost \/ Answered \/ Printed)'
  PROVE  IInv'
<1>1. /\ outcome # "ok" /\ hpc \notin {"start", "ready"} /\ toWorker' = <<>>
      /\ UNCHANGED <<hpc, asked, phase, outcome, closed, dog, fired, killed, frozen>>
  BY StageRuns
<1>2. HostInv' /\ OutcomeInv'
  BY <1>1 DEF IInv, HostInv, OutcomeInv
<1> QED BY <1>2 DEF IInv

LEMMA AnswerShape ==
  ASSUME IInv, Stage, NEW m, m.kind \in Replies, Answer(m)
  PROVE  /\ \/ toHost' = <<>>
            \/ \E d : toHost' = <<d>> /\ d.kind \in Replies
            \/ \E d : toHost' = <<Garbage, d>> /\ d.kind \in Replies
         /\ hpc = "await" /\ toHost = <<>> => toHost' = <<m>> /\ ~faulted
         /\ hpc = "await" /\ toHost # <<>> => toHost' = <<Garbage, m>>
<1>1. Working /\ (hpc = "await" => Serving /\ ~closed)
  BY StageRuns
<1>2. toHost = <<>> \/ toHost = <<Garbage>>
  BY <1>1 DEF Working
<1>3. Garbage.kind \in Replies
  BY DEF Garbage, Replies
<1>4. CASE closed
  BY <1>1, <1>2, <1>3, <1>4 DEF Answer
<1>5. CASE ~closed
  BY <1>1, <1>2, <1>5, Pipes DEF Answer, Serving
<1> QED BY <1>4, <1>5

(* A stage that is done answers with what the worker holds, unless its answer comes after garbage. *)
LEMMA DoneInv ==
  ASSUME IInv, Stage, NEW m, m.kind \in {"Graph", "ArtifactChanges"}, AnswerAndRead(m),
         task' = "none", UNCHANGED <<holder, faulted, quirks>>, HeldOK',
         hpc = "await" => Answers(m)'
  PROVE  IInv'
<1>1. /\ m.kind \in Replies /\ Answer(m) /\ wpc' = IF closed THEN "exiting" ELSE "read"
      /\ m.kind # "Failed"
  BY DEF AnswerAndRead, Replies
<1>2. /\ hpc = "await" => Serving /\ ~closed
      /\ toWorker' = <<>>
      /\ UNCHANGED <<hpc, asked, phase, calls, outcome, dog, done, fired, closed, killed, opened, frozen>>
  BY StageRuns
<1>3. ScalarsOK'
  BY <1>1, <1>2 DEF IInv, ScalarsOK
<1>4. PipeInv'
  BY <1>1, AnswerShape DEF PipeInv
<1>5. ASSUME hpc = "await" PROVE (Answered \/ Printed)'
  <2>1. CASE toHost = <<>>
    <3>1. toHost' = <<m>> /\ ~faulted
      BY <1>1, <1>5, <2>1, AnswerShape
    <3>2. asked # "Shutdown"
      BY <1>2, <1>5 DEF Serving, Working, GraphCalls, ArtifactCalls
    <3>3. Delivers(m)'
      BY <1>1, <1>2, <1>5, <3>1, <3>2 DEF Delivers, Serving
    <3> QED BY <1>2, <3>1, <3>3 DEF Answered
  <2>2. CASE toHost # <<>>
    <3>1. toHost' = <<Garbage, m>>
      BY <1>1, <1>5, <2>2, AnswerShape
    <3> QED BY <1>1, <1>2, <1>5, <3>1 DEF Printed
  <2> QED BY <2>1, <2>2
<1> QED BY <1>3, <1>4, <1>5, StageStep

LEMMA GraphDoneInv == ASSUME IInv, GraphDone PROVE IInv'
<1>1. PICK graph \in Graphs :
          /\ workerGraph' = graph
          /\ AnswerAndRead([kind |-> "Graph", whole |-> graph, patch |-> Of(graph, workerGraph)])
  BY DEF GraphDone
<1>2. PICK m : m = [kind |-> "Graph", whole |-> graph, patch |-> Of(graph, workerGraph)]
  OBVIOUS
<1>3. /\ Stage /\ task \in GraphCalls /\ task' = "none"
      /\ UNCHANGED <<workerArts, holder, faulted, quirks>>
  BY DEF GraphDone
<1>4. UNCHANGED <<hostGraph, hostArts, asked>> /\ (hpc = "await" => Serving)
  BY <1>3, StageRuns
<1>5. graph \in Seq(Elements) /\ workerGraph \in Seq(Elements)
  BY WorkerAssumption DEF IInv, HeldOK
<1>6. HeldOK'
  BY <1>1, <1>3, <1>4, <1>5 DEF IInv, HeldOK
<1>7. ASSUME hpc = "await" PROVE Answers(m)'
  <2>1. asked = task /\ hostGraph = workerGraph /\ hostArts = workerArts
    BY <1>4, <1>7 DEF Serving, Equal
  <2>2. Describes(m, hostGraph)
    BY <1>2, <1>5, <2>1, RoundTrip DEF Describes
  <2>3. Describes(m, hostGraph)'
    BY <1>4, <2>2
  <2> QED BY <1>1, <1>2, <1>3, <1>4, <1>5, <2>1, <2>3 DEF Answers
<1> QED BY <1>1, <1>2, <1>3, <1>6, <1>7, DoneInv

LEMMA ArtifactsDoneInv == ASSUME IInv, ArtifactsDone PROVE IInv'
<1>1. PICK touched \in SUBSET Artifacts :
          /\ ~SameIds(touched)
          /\ workerArts' = Overwrite(workerArts, touched)
          /\ AnswerAndRead([kind |-> "ArtifactChanges", changed |-> touched \ workerArts])
  BY DEF ArtifactsDone
<1>2. PICK m : m = [kind |-> "ArtifactChanges", changed |-> touched \ workerArts]
  OBVIOUS
<1>3. /\ Stage /\ task \in ArtifactCalls /\ task' = "none"
      /\ UNCHANGED <<workerGraph, holder, faulted, quirks>>
  BY DEF ArtifactsDone
<1>4. UNCHANGED <<hostGraph, hostArts, asked>> /\ (hpc = "await" => Serving)
  BY <1>3, StageRuns
<1>5. workerArts \in SUBSET Artifacts /\ ~SameIds(workerArts)
  BY DEF IInv, HeldOK
<1>6. workerArts' \in SUBSET Artifacts /\ ~SameIds(workerArts')
  BY <1>1, <1>5, OverwriteKeepsIds
<1>7. HeldOK'
  BY <1>3, <1>4, <1>6 DEF IInv, HeldOK
<1>8. ASSUME hpc = "await" PROVE Answers(m)'
  <2>1. asked = task /\ hostGraph = workerGraph /\ hostArts = workerArts
    BY <1>4, <1>8 DEF Serving, Equal
  <2>2. Overwrite(workerArts, touched \ workerArts) = workerArts'
    BY <1>1, <1>5, ReportSuffices
  <2>3. Overwrite(hostArts', m.changed) = workerArts'
    BY <1>2, <1>4, <2>1, <2>2
  <2> QED BY <1>2, <1>3, <1>4, <2>1, <2>3 DEF Answers
<1> QED BY <1>1, <1>2, <1>3, <1>7, <1>8, DoneInv

LEMMA StageFaultsInv ==
  ASSUME IInv, StageFails \/ StageDies \/ StageHangs \/ StagePrints \/ StageSpawns
  PROVE  IInv'
<1> USE DEF IInv
<1>1. Stage /\ UNCHANGED <<task, workerGraph, workerArts>>
  BY DEF StageFails, StageDies, StageHangs, StagePrints, StageSpawns, heldByWorker
<1>2. /\ hpc = "await" => Serving /\ ~closed
      /\ Working /\ toWorker' = <<>>
      /\ UNCHANGED <<hpc, asked, phase, calls, outcome, hostGraph, hostArts, dog, done, fired, closed,
                     killed, opened, frozen>>
  BY <1>1, StageRuns
<1>3. HeldOK'
  BY <1>1, <1>2 DEF HeldOK
<1>4. toHost = <<>> \/ (toHost = <<Garbage>> /\ "print" \in quirks)
  BY <1>2 DEF Working
<1>5. CASE StageFails
  <2>1. PICK d : d = [kind |-> "Failed"] /\ Answer(d)
    BY <1>5 DEF StageFails
  <2>2. d.kind \in Replies /\ wpc' = "exiting" /\ faulted' = TRUE /\ UNCHANGED <<holder, quirks>>
    BY <1>5, <2>1 DEF StageFails, Replies
  <2>3. ScalarsOK' /\ PipeInv'
    BY <1>1, <1>2, <2>1, <2>2, AnswerShape DEF ScalarsOK, PipeInv
  <2>4. ASSUME hpc = "await" PROVE (Answered \/ Printed)'
    <3>1. toHost' = <<d>> \/ toHost' = <<Garbage, d>>
      BY <1>1, <2>1, <2>2, <2>4, AnswerShape
    <3> QED BY <1>2, <2>1, <2>2, <3>1 DEF Answered, Delivers, Answers, Printed
  <2> QED BY <1>1, <1>3, <2>3, <2>4, StageStep
<1>6. CASE StageDies \/ StageHangs
  <2>1. /\ wpc' \in {"exiting", "stuck"} /\ faulted' = TRUE /\ toHost' = toHost
        /\ UNCHANGED <<holder, quirks>>
    BY <1>6 DEF StageDies, StageHangs
  <2>2. Garbage.kind \in Replies
    BY DEF Garbage, Replies
  <2>3. ScalarsOK' /\ PipeInv'
    BY <1>1, <1>2, <1>4, <2>1, <2>2 DEF ScalarsOK, PipeInv
  <2>4. ASSUME hpc = "await" PROVE (Lost \/ Printed)'
    BY <1>2, <1>4, <2>1 DEF Lost, Printed
  <2> QED BY <1>1, <1>3, <2>3, <2>4, StageStep
<1>7. CASE StagePrints
  <2>1. /\ quirks' = quirks \cup {"print"} /\ faulted' = TRUE /\ toHost' = Append(toHost, Garbage)
        /\ toHost = <<>> /\ UNCHANGED <<holder, wpc>>
    BY <1>4, <1>7 DEF StagePrints, Answer, Garbage
  <2>2. toHost' = <<Garbage>> /\ Garbage.kind \in Replies
    BY <2>1, Pipes DEF Garbage, Replies
  <2>3. Working'
    BY <1>1, <1>2, <2>1, <2>2 DEF Working
  <2>4. ScalarsOK' /\ PipeInv'
    BY <1>1, <1>2, <2>1, <2>2, <2>3 DEF ScalarsOK, PipeInv
  <2>5. ASSUME hpc = "await" PROVE Serving'
    BY <1>1, <1>2, <2>2, <2>3, <2>5 DEF Serving, Equal
  <2> QED BY <1>1, <1>3, <2>4, <2>5, StageStep
<1>8. CASE StageSpawns
  <2>1. holder' = TRUE /\ quirks' = quirks \cup {"spawn"} /\ UNCHANGED <<toHost, wpc, faulted>>
    BY <1>8 DEF StageSpawns
  <2>2. Working'
    BY <1>1, <1>2, <1>4, <2>1 DEF Working
  <2>3. ScalarsOK' /\ PipeInv'
    BY <1>1, <1>2, <2>1, <2>2 DEF ScalarsOK, PipeInv
  <2>4. ASSUME hpc = "await" PROVE Serving'
    BY <1>1, <1>2, <2>1, <2>2, <2>4 DEF Serving, Equal
  <2> QED BY <1>1, <1>3, <2>3, <2>4, StageStep
<1> QED BY <1>5, <1>6, <1>7, <1>8

-----------------------------------------------------------------------------
(* The theorems *)

LEMMA NextInv == IInv /\ [Next]_vars => IInv'
<1> SUFFICES ASSUME IInv, [Next]_vars PROVE IInv'
  OBVIOUS
<1>1. CASE Host
  BY <1>1, SendHelloInv, LoadSourceInv, ApplyTransformsInv, FreezeGraphInv, GenerateTargetsInv,
     RunPostsInv, SendShutdownInv, ReceiveInv, ReceiveEofInv, LeavesInv DEF Host
<1>2. CASE Watchdog
  BY <1>2, WatchdogInv
<1>3. CASE Worker
  BY <1>3, WorkerReadsInv, WorkerEofInv, GraphDoneInv, ArtifactsDoneInv, StageFaultsInv, ExitInv
     DEF Worker
<1>4. CASE HolderEnds \/ UNCHANGED vars
  BY <1>4, HolderEndsInv
<1> QED BY <1>1, <1>2, <1>3, <1>4 DEF Next

(* The inductive invariant: at each place of the host, what the pipes hold and what the worker does.  *)
THEOREM Invariance == Spec => []IInv
BY InitInv, NextInv, PTL DEF Spec

(* The pipes hold at most one request, and one answer after what a stage printed. *)
THEOREM TypeCorrect == Spec => []TypeOK
<1>1. ASSUME IInv PROVE TypeOK
  <2> USE <1>1 DEF IInv
  <2>1. toWorker = <<>> \/ \E m : toWorker = <<m>> /\ m.kind \in Kinds
    BY DEF HostInv, ScalarsOK, Rests, Asked, Serving, Working, Lost, Answered, Printed, Request
  <2>2. Len(toWorker) <= 1 /\ \A i \in DOMAIN toWorker : toWorker[i].kind \in Kinds
    <3>1. CASE toWorker = <<>>
      BY <3>1
    <3>2. ASSUME NEW m, toWorker = <<m>>, m.kind \in Kinds
          PROVE  Len(toWorker) <= 1 /\ \A i \in DOMAIN toWorker : toWorker[i].kind \in Kinds
      <4>1. Len(toWorker) = 1 /\ \A i \in DOMAIN toWorker : toWorker[i] = m
        BY <3>2
      <4> QED BY <3>2, <4>1
    <3> QED BY <2>1, <3>1, <3>2
  <2>3. Garbage.kind \in Replies
    BY DEF Garbage, Replies
  <2>4. Len(toHost) <= 2 /\ \A i \in DOMAIN toHost : toHost[i].kind \in Replies
    <3>1. CASE toHost = <<>>
      BY <3>1
    <3>2. ASSUME NEW m, toHost = <<m>> \/ toHost = <<Garbage, m>>, m.kind \in Replies
          PROVE  Len(toHost) <= 2 /\ \A i \in DOMAIN toHost : toHost[i].kind \in Replies
      <4>1. Len(toHost) <= 2 /\ \A i \in DOMAIN toHost : toHost[i] \in {m, Garbage}
        <5>1. CASE toHost = <<m>>
          BY <5>1
        <5>2. CASE toHost = <<Garbage, m>>
          BY <5>2
        <5> QED BY <3>2, <5>1, <5>2
      <4> QED BY <2>3, <3>2, <4>1
    <3> QED BY <3>1, <3>2 DEF PipeInv
  <2>5. {done, fired, closed, opened, frozen, holder, killed, faulted} \subseteq BOOLEAN
    BY DEF ScalarsOK
  <2> QED BY <2>2, <2>4, <2>5 DEF TypeOK, ScalarsOK, HeldOK
<1> QED BY <1>1, Invariance, PTL

(* Nobody finds the other side in a state it does not expect: requests and answers alternate, and     *)
(* every patch names only what its reader holds (`expect_graph`, `expect_artifacts`, `dispatch`).     *)
THEOREM Agreement == Spec => []NeverDisagree
<1>1. IInv => NeverDisagree
  BY DEF IInv, OutcomeInv, NeverDisagree
<1> QED BY <1>1, Invariance, PTL

(* A session that ends well ran every stage it was asked to (`shutdown`, `run_pipeline`).             *)
THEOREM Success == Spec => []SuccessIsUnbroken
<1>1. IInv => SuccessIsUnbroken
  BY DEF IInv, OutcomeInv, SuccessIsUnbroken
<1> QED BY <1>1, Invariance, PTL

(* Host and worker hold the same graph between two calls, and every patch of a graph rebuilds what    *)
(* its sender meant (`Patched`, `HeldGraph`).                                                        *)
THEOREM GraphAgreement == Spec => []GraphsInStep
<1>1. ASSUME IInv PROVE GraphsInStep
  <2> USE <1>1 DEF IInv
  <2>1. Quiet => hostGraph = workerGraph
    BY DEF Quiet, HostInv, Rests, Equal
  <2>2. ASSUME NEW i \in DOMAIN toWorker, toWorker[i].kind \in {"ApplyTransforms", "FreezeGraph"}
        PROVE  Describes(toWorker[i], workerGraph)
    <3>1. PICK m : toWorker = <<m>> /\ Request(m)
      BY <2>2 DEF HostInv, ScalarsOK, Rests, Asked, Serving, Working, Lost, Answered, Printed
    <3>2. toWorker[i] = m
      BY <3>1
    <3> QED BY <2>2, <3>1, <3>2 DEF Request
  <2>3. ASSUME NEW i \in DOMAIN toHost, toHost[i].kind = "Graph", hpc = "await"
        PROVE  Describes(toHost[i], hostGraph) /\ workerGraph = toHost[i].whole
    <3>1. PICK m : (toHost = <<m>> \/ toHost = <<Garbage, m>>) /\ (Answers(m) \/ m = Garbage)
      BY <2>3 DEF HostInv, Asked, Serving, Working, Lost, Answered, Delivers, Printed
    <3>2. toHost[i] = m
      BY <2>3, <3>1 DEF Garbage
    <3> QED BY <2>3, <3>1, <3>2 DEF Answers, Garbage
  <2> QED BY <2>1, <2>2, <2>3 DEF GraphsInStep
<1> QED BY <1>1, Invariance, PTL

(* The same for the artifacts (`held_artifacts`, `merge_artifact_changes`, `answer_with_changes`).    *)
THEOREM ArtifactAgreement == Spec => []ArtifactsInStep
<1>1. ASSUME IInv PROVE ArtifactsInStep
  <2> USE <1>1 DEF IInv
  <2>1. Quiet => hostArts = workerArts
    BY DEF Quiet, HostInv, Rests, Equal
  <2>2. ASSUME NEW i \in DOMAIN toWorker, toWorker[i].kind \in ArtifactCalls
        PROVE  LET held == Listing[workerArts] IN
               /\ CanTake(toWorker[i].patch, held)
               /\ ElementsOf(Resolve(toWorker[i].patch, held)) = hostArts
    <3>1. PICK m : toWorker = <<m>> /\ Request(m)
      BY <2>2 DEF HostInv, ScalarsOK, Rests, Asked, Serving, Working, Lost, Answered, Printed
    <3>2. toWorker[i] = m
      BY <3>1
    <3> QED BY <2>2, <3>1, <3>2 DEF Request
  <2>3. ASSUME NEW i \in DOMAIN toHost, toHost[i].kind = "ArtifactChanges", hpc = "await"
        PROVE  Overwrite(hostArts, toHost[i].changed) = workerArts
    <3>1. PICK m : (toHost = <<m>> \/ toHost = <<Garbage, m>>) /\ (Answers(m) \/ m = Garbage)
      BY <2>3 DEF HostInv, Asked, Serving, Working, Lost, Answered, Delivers, Printed
    <3>2. toHost[i] = m
      BY <2>3, <3>1 DEF Garbage
    <3> QED BY <2>3, <3>1, <3>2 DEF Answers, Garbage
  <2> QED BY <2>1, <2>2, <2>3 DEF ArtifactsInStep
<1> QED BY <1>1, Invariance, PTL

(* Host and worker hold the same graph and the same artifacts, for all their elements.                *)
THEOREM SameOnBothSides == Spec => []InStep
BY GraphAgreement, ArtifactAgreement, PTL DEF InStep

(* The error that names the worker is never given for a worker the watchdog killed: the watchdog says *)
(* that it fired before it kills (`transport_error`).                                                *)
THEOREM NoFalseBlame == Spec => NeverBlamesTheWorker
<1>1. IInv /\ [Next]_vars => [outcome' = "connection" /\ outcome # "connection" => ~killed]_vars
  <2> SUFFICES ASSUME IInv, Next, outcome' = "connection", outcome # "connection"
               PROVE  ~killed
    OBVIOUS
  <2>1. killed => fired
    BY DEF IInv, OutcomeInv
  <2>2. CASE Host
    BY <2>1, <2>2 DEF Host, RefuseBudget, SendHello, LoadSource, ApplyTransforms, FreezeGraph,
          GenerateTargets, RunPosts, SendArtifacts, SendShutdown, Abandon, Send, Receive, ReceiveEof,
          ClosePipes, StopWatchdog, JoinWatchdog, Reap, Drain, Finishing, Breaks, Ends
  <2>3. CASE Watchdog
    BY <2>3 DEF Watchdog, StandDown, Expire, Fire, Kill, Watches, host
  <2>4. CASE Worker
    BY <2>4 DEF Worker, WorkerReads, WorkerEof, GraphDone, ArtifactsDone, StageFails, StageDies,
          StageHangs, StagePrints, StageSpawns, Exit, Stage, Works, host
  <2>5. CASE HolderEnds
    BY <2>5 DEF HolderEnds, host
  <2> QED BY <2>2, <2>3, <2>4, <2>5 DEF Next
<1> QED BY <1>1, Invariance, PTL DEF Spec, NeverBlamesTheWorker
=============================================================================
