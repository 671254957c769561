---------------------------- MODULE ThreadProofs ----------------------------
(* Theorems about the two components whose threads share their memory: OrderedMap, for every number  *)
(* of cores and every input, and Watch, for every set of designs and outputs.                        *)
EXTENDS OrderedMap, Watch, TLAPS

-----------------------------------------------------------------------------
(* How the list is cut *)

LEMMA Quotient ==
  ASSUME NEW n \in Nat, NEW b \in Nat \ {0}
  PROVE  /\ n \div b \in Nat
         /\ (n \div b) * b <= n
         /\ n < (n \div b) * b + b
  OBVIOUS

(* A division that rounds up: the last of the parts is not empty. *)
LEMMA Ceiling ==
  ASSUME NEW a \in Nat \ {0}, NEW b \in Nat \ {0}
  PROVE  /\ DivCeil(a, b) \in Nat \ {0}
         /\ (DivCeil(a, b) - 1) * b < a
         /\ a <= DivCeil(a, b) * b
<1> DEFINE q == (a + b - 1) \div b
<1>1. q \in Nat /\ q * b <= a + b - 1 /\ a + b - 1 < q * b + b
  BY Quotient
<1>2. q # 0
  BY <1>1
<1>3. (q - 1) * b = q * b - b
  BY <1>1
<1> QED BY <1>1, <1>2, <1>3 DEF DivCeil

LEMMA SpanIsPositive ==
  ASSUME len \in Nat, Workers # 1
  PROVE  len \in Nat \ {0} /\ Span \in Nat \ {0} /\ Chunks \in Nat \ {0}
<1>1. len \in Nat \ {0} /\ Workers \in Nat \ {0}
  BY CoresAssumption DEF Workers, Smaller
<1>2. Span \in Nat \ {0}
  BY <1>1, Ceiling DEF Span
<1>3. Chunks = DivCeil(len, Span)
  BY DEF Chunks
<1> QED BY <1>1, <1>2, <1>3, Ceiling

LEMMA ChunksIsNat ==
  ASSUME len \in Nat
  PROVE  Chunks \in Nat
<1>1. CASE Workers = 1
  BY <1>1 DEF Chunks
<1>2. CASE Workers # 1
  BY <1>2, SpanIsPositive
<1> QED BY <1>1, <1>2

(* The spans are not empty, lie within the list, follow each other and end where the list ends. *)
LEMMA Cut ==
  ASSUME len \in Nat, NEW k \in Threads
  PROVE  /\ Workers # 1
         /\ First(k) \in Nat
         /\ Size(k) \in Nat \ {0}
         /\ First(k) + Size(k) <= len
         /\ k + 1 < Chunks => First(k + 1) = First(k) + Size(k)
         /\ k + 1 = Chunks => First(k) + Size(k) = len
<1>1. Workers # 1
  BY DEF Threads, Chunks
<1>2. len \in Nat \ {0} /\ Span \in Nat \ {0} /\ Chunks \in Nat \ {0}
  BY <1>1, SpanIsPositive
<1>3. (Chunks - 1) * Span < len /\ len <= Chunks * Span
  BY <1>1, <1>2, Ceiling DEF Chunks
<1>4. k \in Nat /\ k <= Chunks - 1
  BY <1>2 DEF Threads
<1>5. k * Span \in Nat /\ k * Span <= (Chunks - 1) * Span
  BY <1>2, <1>4
<1>6. (k + 1) * Span = k * Span + Span
  BY <1>2, <1>4
<1>7. k + 1 < Chunks => (k + 1) * Span <= (Chunks - 1) * Span
  <2> SUFFICES ASSUME k + 1 < Chunks PROVE (k + 1) * Span <= (Chunks - 1) * Span
    OBVIOUS
  <2> DEFINE m == Chunks - 1
             j == k + 1
  <2>1. m \in Nat /\ j \in Nat /\ j <= m
    BY <1>2, <1>4
  <2> HIDE DEF m, j
  <2>2. j * Span <= m * Span
    BY <2>1, <1>2
  <2> QED BY <2>2 DEF m, j
<1>8. k + 1 = Chunks => k * Span + Span = Chunks * Span
  BY <1>6
<1>9. k + 1 < Chunks => k * Span + Span < len
  BY <1>2, <1>3, <1>5, <1>6, <1>7
<1> QED BY <1>1, <1>2, <1>3, <1>5, <1>6, <1>8, <1>9 DEF First, Size, Smaller

LEMMA AppendType ==
  ASSUME NEW S, NEW s \in Seq(S), NEW e \in S
  PROVE  Append(s, e) \in Seq(S)
  OBVIOUS

LEMMA ConcatType ==
  ASSUME NEW S, NEW s \in Seq(S), NEW t \in Seq(S)
  PROVE  /\ s \o t \in Seq(S)
         /\ Len(s \o t) = Len(s) + Len(t)
         /\ \A i \in 1 .. Len(s) : (s \o t)[i] = s[i]
         /\ \A i \in 1 .. Len(t) : (s \o t)[Len(s) + i] = t[i]
  OBVIOUS

-----------------------------------------------------------------------------
(* The inductive invariant *)

Ended == {"ok", "failed", "panicked"}

(* The items of the first n spans are those below this index. *)
Upto(n) == IF n = Chunks THEN len ELSE First(n)

(* A thread has rendered what it has counted, and ended where its span does or at the item that      *)
(* made it end.                                                                                      *)
ThreadOK ==
    \A k \in Threads :
        /\ done[k] <= Size(k)
        /\ \A i \in First(k) .. First(k) + done[k] - 1 : items[i] = "ok"
        /\ thread[k] = "ok" => done[k] = Size(k)
        /\ thread[k] = "failed" => done[k] < Size(k) /\ items[First(k) + done[k]] = "fail"
        /\ thread[k] = "panicked" => done[k] < Size(k) /\ items[First(k) + done[k]] = "panic"

JoinedHaveEnded == \A k \in 0 .. joined - 1 : thread[k] \in Ended

(* While no failure is known, all that was merged is there, in order. *)
MergedInOrder ==
    Workers # 1 /\ failure = None =>
        /\ \A i \in 0 .. Upto(merged) - 1 : items[i] = "ok"
        /\ Len(rendered) = Upto(merged)
        /\ \A i \in 1 .. Upto(merged) : rendered[i] = i - 1

(* The failure known so far is the lowest one of those merged that a panic did not hide. *)
MergedFailure ==
    Workers # 1 /\ failure # None =>
        /\ failure < len => failure < Upto(merged) /\ items[failure] = "fail"
        /\ failure = len => \E i \in 0 .. Upto(merged) - 1 : items[i] = "panic"
        /\ \A i \in 0 .. Upto(merged) - 1 :
              i < failure /\ items[i] = "fail" => \E p \in 0 .. i - 1 : items[p] = "panic"

HereInOrder ==
    Workers = 1 =>
        /\ Len(rendered) <= len
        /\ \A i \in 1 .. Len(rendered) : rendered[i] = i - 1 /\ items[i - 1] = "ok"

MapInv == /\ MapTypeOK
          /\ ThreadOK
          /\ JoinedHaveEnded
          /\ MergedInOrder
          /\ MergedFailure
          /\ HereInOrder
          /\ AnswersAsOneThread

-----------------------------------------------------------------------------
(* The input never changes, nor does what is computed from it alone. *)
LEMMA SameInput ==
  ASSUME UNCHANGED input
  PROVE  /\ len' = len /\ items' = items
         /\ Workers' = Workers /\ Span' = Span /\ Chunks' = Chunks /\ Threads' = Threads
         /\ \A k : First(k)' = First(k) /\ Size(k)' = Size(k) /\ Chunk(k)' = Chunk(k)
         /\ \A n : Upto(n)' = Upto(n)
         /\ Failing' = Failing /\ OneThread' = OneThread
BY DEF input, Workers, Span, Chunks, Threads, First, Size, Chunk, Upto, Failing, OneThread, InOrder,
       Ok, Err, None

(* A list that was rendered to its end, in order, is the answer of one thread. *)
LEMMA WholeListIsRight ==
  ASSUME len \in Nat, NEW values \in Seq(0 .. len - 1), Len(values) = len,
         \A i \in 1 .. len : values[i] = i - 1,
         \A i \in 0 .. len - 1 : items[i] = "ok"
  PROVE  Ok(values) = OneThread
<1>1. values = InOrder
  BY DEF InOrder
<1>2. Failing = {}
  BY DEF Failing
<1> QED BY <1>1, <1>2 DEF OneThread

(* A failure that no other precedes is the answer of one thread. *)
LEMMA FirstFailureIsRight ==
  ASSUME len \in Nat, NEW f \in 0 .. len - 1, items[f] = "fail",
         \A i \in 0 .. f - 1 : items[i] # "fail"
  PROVE  Err(f) = OneThread
<1>1. f \in Failing /\ \A j \in Failing : f <= j
  BY DEF Failing
<1>2. \A i \in Failing : (\A j \in Failing : i <= j) => i = f
  BY <1>1 DEF Failing
<1>3. f = CHOOSE i \in Failing : \A j \in Failing : i <= j
  BY <1>1, <1>2
<1> QED BY <1>1, <1>3 DEF OneThread

(* As long as the result stands, so does what is said of it. *)
LEMMA AnswerStands ==
  ASSUME AnswersAsOneThread, UNCHANGED input, UNCHANGED result
  PROVE  AnswersAsOneThread'
BY SameInput DEF AnswersAsOneThread, SameAtAnyThreadCount, LowestFailure, Unplaced, Pending, None

(* The caller alone *)
LEMMA HereStep ==
  ASSUME MapInv, RenderHere \/ ReturnHere
  PROVE  MapInv'
<1> USE DEF None
<1>0. /\ UNCHANGED input /\ Workers = 1
      /\ UNCHANGED <<thread, done, joined, merged, failure>>
      /\ result = Pending
  BY DEF RenderHere, ReturnHere
<1>1. len \in Nat
  BY CoresAssumption DEF MapInv, MapTypeOK
<1>2. MapTypeOK'
  <2> DEFINE r == Len(rendered)
  <2>1. rendered \in Seq(0 .. len - 1) /\ r \in 0 .. len /\ <<>> \in Seq(0 .. len - 1)
    BY <1>0, <1>1 DEF MapInv, MapTypeOK, HereInOrder
  <2>2. RenderHere => r \in 0 .. len - 1
    BY <2>1, <1>1 DEF RenderHere
  <2>3. rendered' \in Seq(0 .. len - 1)
    BY <2>1, <2>2, AppendType DEF RenderHere, ReturnHere
  <2>4. result' = result \/ result' = Ok(rendered) \/ (result' = Err(r) /\ RenderHere) \/ result' = Unwound
    BY DEF RenderHere, ReturnHere
  <2>5. result' \in [kind : {"pending", "ok", "err", "unwound"}, at : None .. len,
                     values : Seq(0 .. len - 1)]
    <3> DEFINE S == Seq(0 .. len - 1)
    <3>1. rendered \in S /\ <<>> \in S /\ result \in [kind : {"pending", "ok", "err", "unwound"},
                                                  at : None .. len, values : S]
      BY <2>1 DEF MapInv, MapTypeOK
    <3> HIDE DEF S
    <3>2. None \in None .. len /\ (RenderHere => r \in None .. len)
      BY <2>2, <1>1
    <3>3. result' \in [kind : {"pending", "ok", "err", "unwound"}, at : None .. len, values : S]
      BY <3>1, <3>2, <2>4 DEF Ok, Err, Unwound
    <3> QED BY <3>3 DEF S
  <2> QED BY <2>3, <2>5, <1>0, SameInput DEF MapInv, MapTypeOK
<1>3. ThreadOK' /\ JoinedHaveEnded'
  BY <1>0, SameInput DEF MapInv, ThreadOK, JoinedHaveEnded
<1>4. MergedInOrder' /\ MergedFailure'
  BY <1>0, SameInput DEF MergedInOrder, MergedFailure
<1>5. HereInOrder'
  <2>1. /\ rendered \in Seq(0 .. len - 1) /\ Len(rendered) <= len
        /\ \A i \in 1 .. Len(rendered) : rendered[i] = i - 1 /\ items[i - 1] = "ok"
    BY <1>0 DEF MapInv, MapTypeOK, HereInOrder
  <2>2. CASE rendered' = rendered
    BY <2>1, <2>2, <1>0, SameInput DEF HereInOrder
  <2>3. CASE rendered' # rendered
    <3> DEFINE n == Len(rendered)
    <3>1. n < len /\ items[n] = "ok" /\ rendered' = Append(rendered, n)
      BY <2>3 DEF RenderHere, ReturnHere
    <3>2. Len(rendered') = n + 1 /\ rendered'[n + 1] = n
      BY <3>1, <2>1
    <3>3. \A i \in 1 .. n : rendered'[i] = rendered[i]
      BY <3>1, <2>1
    <3>4. \A i \in 1 .. n + 1 : rendered'[i] = i - 1 /\ items[i - 1] = "ok"
      BY <3>1, <3>2, <3>3, <2>1
    <3> QED BY <3>1, <3>2, <3>4, <1>0, <1>1, SameInput DEF HereInOrder
  <2> QED BY <2>2, <2>3
<1>6. AnswersAsOneThread'
  <2>1. CASE Len(rendered) < len /\ items[Len(rendered)] = "ok"
    BY <2>1, <1>0, AnswerStands DEF RenderHere, ReturnHere, MapInv, MapTypeOK
  <2>2. CASE RenderHere /\ items[Len(rendered)] = "fail"
    <3> DEFINE f == Len(rendered)
    <3>1. f \in 0 .. len - 1 /\ items[f] = "fail" /\ result' = Err(f)
      BY <2>2, <1>1 DEF RenderHere, MapInv, MapTypeOK
    <3>2. \A i \in 0 .. f - 1 : items[i] = "ok"
      <4> TAKE i \in 0 .. f - 1
      <4>1. i + 1 \in 1 .. Len(rendered)
        BY <3>1
      <4> QED BY <4>1, <1>0 DEF MapInv, HereInOrder
    <3>3. Err(f) = OneThread
      BY <3>1, <3>2, <1>1, FirstFailureIsRight
    <3> QED BY <3>1, <3>2, <3>3, <1>0, <1>1, SameInput
            DEF AnswersAsOneThread, SameAtAnyThreadCount, LowestFailure, Unplaced, Err
  <2>3. CASE RenderHere /\ items[Len(rendered)] = "panic"
    <3>1. Len(rendered) \in 0 .. len - 1 /\ result' = Unwound
      BY <2>3, <1>1 DEF RenderHere, MapInv, MapTypeOK
    <3> QED BY <3>1, <2>3, <1>0, SameInput
            DEF AnswersAsOneThread, SameAtAnyThreadCount, LowestFailure, Unwound
  <2>4. CASE ReturnHere
    <3>1. Len(rendered) = len /\ result' = Ok(rendered) /\ rendered \in Seq(0 .. len - 1)
      BY <2>4 DEF ReturnHere, MapInv, MapTypeOK
    <3>2. \A i \in 1 .. len : rendered[i] = i - 1 /\ items[i - 1] = "ok"
      BY <3>1, <1>0 DEF MapInv, HereInOrder
    <3>3. \A i \in 0 .. len - 1 : items[i] = "ok"
      <4> TAKE i \in 0 .. len - 1
      <4>1. i + 1 \in 1 .. len
        BY <1>1
      <4> QED BY <4>1, <3>2
    <3>4. Ok(rendered) = OneThread
      BY <3>1, <3>2, <3>3, <1>1, WholeListIsRight
    <3> QED BY <3>1, <3>4, <1>0, SameInput DEF AnswersAsOneThread, SameAtAnyThreadCount, LowestFailure, Ok
  <2> QED BY <2>1, <2>2, <2>3, <2>4 DEF RenderHere, ReturnHere
<1> QED BY <1>2, <1>3, <1>4, <1>5, <1>6 DEF MapInv

(* The threads *)
LEMMA ThreadStep ==
  ASSUME MapInv, NEW k \in Threads, Spawn(k) \/ Render(k) \/ FinishSpan(k)
  PROVE  MapInv'
<1> USE DEF None
<1>0. /\ UNCHANGED input
      /\ UNCHANGED <<joined, merged, rendered, failure, result>>
  BY DEF Spawn, Render, FinishSpan
<1>1. len \in Nat
  BY CoresAssumption DEF MapInv, MapTypeOK
<1>2. /\ First(k) \in Nat /\ Size(k) \in Nat \ {0} /\ First(k) + Size(k) <= len /\ Workers # 1
      /\ done[k] \in Nat
  BY <1>1, Cut DEF MapInv, MapTypeOK
<1>3. MapTypeOK'
  <2>1. thread' \in [Threads -> {"unborn", "running", "ok", "failed", "panicked"}]
    BY DEF MapInv, MapTypeOK, Spawn, Render, FinishSpan
  <2>2. done' \in [Threads -> Nat]
    <3>1. done' = done \/ done' = [done EXCEPT ![k] = done[k] + 1]
      BY DEF Spawn, Render, FinishSpan
    <3>2. done \in [Threads -> Nat]
      BY DEF MapInv, MapTypeOK
    <3> QED BY ONLY <3>1, <3>2, <1>2
  <2> QED BY <2>1, <2>2, <1>0, SameInput DEF MapInv, MapTypeOK
<1>4. ThreadOK'
  <2>1. \A j \in Threads : j # k => thread'[j] = thread[j] /\ done'[j] = done[j]
    BY DEF Spawn, Render, FinishSpan, MapInv, MapTypeOK
  <2>2. \A j \in Threads : First(j) \in Nat /\ done[j] \in Nat
    BY <1>1, Cut DEF MapInv, MapTypeOK
  <2>3. done[k] <= Size(k) /\ \A i \in First(k) .. First(k) + done[k] - 1 : items[i] = "ok"
    BY DEF MapInv, ThreadOK
  <2>4. CASE Spawn(k) \/ FinishSpan(k)
    <3>1. done' = done /\ thread' = [thread EXCEPT ![k] = thread'[k]]
          /\ (thread'[k] = "running" \/ (thread'[k] = "ok" /\ done[k] = Size(k)))
      BY <2>4 DEF Spawn, FinishSpan, MapInv, MapTypeOK
    <3> QED BY <3>1, <2>1, <2>3, <1>0, SameInput DEF MapInv, ThreadOK
  <2>5. CASE Render(k)
    <3>1. thread[k] = "running" /\ done[k] < Size(k)
      BY <2>5 DEF Render
    <3>2. CASE items[First(k) + done[k]] = "ok"
      <4>1. thread' = thread /\ done'[k] = done[k] + 1
        BY <2>5, <3>2 DEF Render, MapInv, MapTypeOK
      <4>2. \A i \in First(k) .. First(k) + done'[k] - 1 : items[i] = "ok"
        BY <4>1, <3>2, <2>3, <1>2
      <4> QED BY <4>1, <4>2, <3>1, <2>1, <1>0, <1>2, SameInput DEF MapInv, ThreadOK
    <3>3. CASE items[First(k) + done[k]] # "ok"
      <4>1. done' = done /\ \/ thread'[k] = "failed" /\ items[First(k) + done[k]] = "fail"
                            \/ thread'[k] = "panicked" /\ items[First(k) + done[k]] = "panic"
        BY <2>5, <3>3 DEF Render, MapInv, MapTypeOK
      <4> QED BY <4>1, <3>1, <2>1, <2>3, <1>0, SameInput DEF MapInv, ThreadOK
    <3> QED BY <3>2, <3>3
  <2> QED BY <2>4, <2>5
<1>5. JoinedHaveEnded'
  <2>1. thread[k] \notin Ended
    BY DEF Spawn, Render, FinishSpan, Ended
  <2>2. \A j \in 0 .. joined - 1 : j \in Threads /\ j # k
    BY <2>1, <1>1, ChunksIsNat DEF MapInv, MapTypeOK, JoinedHaveEnded, Threads
  <2>3. \A j \in Threads : j # k => thread'[j] = thread[j]
    BY DEF Spawn, Render, FinishSpan, MapInv, MapTypeOK
  <2> QED BY <2>2, <2>3, <1>0 DEF MapInv, JoinedHaveEnded
<1>6. MergedInOrder' /\ MergedFailure' /\ HereInOrder'
  BY <1>0, SameInput DEF MapInv, MergedInOrder, MergedFailure, HereInOrder
<1>7. AnswersAsOneThread'
  BY <1>0, AnswerStands DEF MapInv
<1> QED BY <1>3, <1>4, <1>5, <1>6, <1>7 DEF MapInv

(* The caller, waiting for the threads *)
LEMMA JoinStep ==
  ASSUME MapInv, Join
  PROVE  MapInv'
<1>0. /\ UNCHANGED input
      /\ UNCHANGED <<thread, done, merged, rendered, failure, result>>
      /\ joined' = joined + 1 /\ joined < Chunks /\ thread[joined] \in Ended
  BY DEF Join, Ended
<1>1. len \in Nat /\ Chunks \in Nat
  BY CoresAssumption, ChunksIsNat DEF MapInv, MapTypeOK
<1>2. MapTypeOK'
  BY <1>0, <1>1, SameInput DEF MapInv, MapTypeOK
<1>3. ThreadOK'
  BY <1>0, SameInput DEF MapInv, ThreadOK
<1>4. JoinedHaveEnded'
  BY <1>0, <1>1 DEF MapInv, MapTypeOK, JoinedHaveEnded
<1>5. MergedInOrder' /\ MergedFailure' /\ HereInOrder'
  BY <1>0, SameInput DEF MapInv, MergedInOrder, MergedFailure, HereInOrder
<1>6. AnswersAsOneThread'
  BY <1>0, AnswerStands DEF MapInv
<1> QED BY <1>2, <1>3, <1>4, <1>5, <1>6 DEF MapInv

(* What merging the span of thread m starts from: the span follows what is merged, and its thread    *)
(* has ended with all of it rendered or at an item that is not.                                      *)
LEMMA Merging ==
  ASSUME MapInv, joined = Chunks, merged < Chunks
  PROVE  /\ len \in Nat /\ Workers # 1 /\ merged \in Threads
         /\ First(merged) \in Nat /\ Size(merged) \in Nat \ {0}
         /\ Upto(merged) = First(merged)
         /\ Upto(merged + 1) = First(merged) + Size(merged)
         /\ Upto(merged + 1) <= len
         /\ thread[merged] \in Ended
         /\ done[merged] \in 0 .. Size(merged)
<1>1. len \in Nat /\ Chunks \in Nat /\ merged \in Nat
  BY CoresAssumption, ChunksIsNat DEF MapInv, MapTypeOK
<1>2. merged \in Threads
  BY <1>1 DEF Threads
<1>3. /\ Workers # 1 /\ First(merged) \in Nat /\ Size(merged) \in Nat \ {0}
      /\ First(merged) + Size(merged) <= len
      /\ merged + 1 < Chunks => First(merged + 1) = First(merged) + Size(merged)
      /\ merged + 1 = Chunks => First(merged) + Size(merged) = len
  BY <1>1, <1>2, Cut
<1>4. Upto(merged) = First(merged) /\ Upto(merged + 1) = First(merged) + Size(merged)
  BY <1>1, <1>3 DEF Upto
<1>5. thread[merged] \in Ended
  BY <1>1 DEF MapInv, JoinedHaveEnded
<1>6. done[merged] \in 0 .. Size(merged)
  BY <1>2, <1>3 DEF MapInv, MapTypeOK, ThreadOK
<1> QED BY <1>1, <1>2, <1>3, <1>4, <1>5, <1>6

LEMMA MergeStep ==
  ASSUME MapInv, Merge
  PROVE  MapInv'
<1> USE DEF None
<1> DEFINE m == merged
           start == First(m)
           end == Upto(m + 1)
           p == start + done[m]
<1>0. /\ UNCHANGED input
      /\ UNCHANGED <<thread, done, joined, result>>
      /\ merged' = m + 1 /\ joined = Chunks /\ merged < Chunks
  BY DEF Merge
<1>1. /\ len \in Nat /\ Workers # 1 /\ m \in Threads
      /\ start \in Nat /\ Size(m) \in Nat \ {0}
      /\ Upto(m) = start /\ end = start + Size(m) /\ end <= len
      /\ thread[m] \in Ended /\ done[m] \in 0 .. Size(m)
  BY <1>0, Merging
<1>2. /\ \A i \in start .. p - 1 : items[i] = "ok"
      /\ thread[m] = "ok" => p = end
      /\ thread[m] = "failed" => p < end /\ items[p] = "fail"
      /\ thread[m] = "panicked" => p < end /\ items[p] = "panic"
  BY <1>1 DEF MapInv, ThreadOK
<1>3. merged \in Nat /\ failure \in None .. len /\ rendered \in Seq(0 .. len - 1)
  BY <1>1, ChunksIsNat DEF MapInv, MapTypeOK
<1>4. Upto(merged)' = end /\ items' = items /\ len' = len /\ Workers' = Workers
  BY <1>0, SameInput
<1> HIDE DEF start, end, p
<1>5. Chunk(m) \in Seq(0 .. len - 1) /\ Len(Chunk(m)) = Size(m)
      /\ \A i \in 1 .. Size(m) : Chunk(m)[i] = start + i - 1
  BY <1>1 DEF Chunk, start, end
<1>6. p \in start .. end
  BY <1>1 DEF p
<1>7. Position(m) = IF thread[m] = "panicked" THEN len ELSE p
  BY DEF Position, Unplaced, p, start
<1>8. MapTypeOK'
  <2>1. rendered' \in Seq(0 .. len - 1)
    BY <1>3, <1>5, ConcatType DEF Merge
  <2>2. failure' \in None .. len
    BY <1>1, <1>3, <1>6, <1>7 DEF Merge
  <2>3. merged' \in 0 .. joined
    BY <1>0, <1>1, <1>3, ChunksIsNat
  <2> QED BY <2>1, <2>2, <2>3, <1>0, SameInput DEF MapInv, MapTypeOK
<1>9. ThreadOK' /\ JoinedHaveEnded'
  BY <1>0, SameInput DEF MapInv, ThreadOK, JoinedHaveEnded
<1>10. HereInOrder'
  BY <1>0, <1>1, SameInput DEF HereInOrder
<1>11. AnswersAsOneThread'
  BY <1>0, AnswerStands DEF MapInv
<1> SUFFICES MergedInOrder' /\ MergedFailure'
  BY <1>8, <1>9, <1>10, <1>11 DEF MapInv
<1>12. CASE failure = None /\ thread[m] = "ok"
  <2>1. failure' = failure /\ rendered' = rendered \o Chunk(m)
    BY <1>12 DEF Merge
  <2>2. /\ \A i \in 0 .. start - 1 : items[i] = "ok"
        /\ Len(rendered) = start
        /\ \A i \in 1 .. start : rendered[i] = i - 1
    BY <1>12, <1>1 DEF MapInv, MergedInOrder
  <2>3. \A i \in 0 .. end - 1 : items[i] = "ok"
    BY <2>2, <1>1, <1>2, <1>12
  <2>4. /\ Len(rendered') = Len(rendered) + Len(Chunk(m))
        /\ \A i \in 1 .. Len(rendered) : rendered'[i] = rendered[i]
        /\ \A i \in 1 .. Len(Chunk(m)) : rendered'[Len(rendered) + i] = Chunk(m)[i]
    <3> DEFINE c == Chunk(m)
               S == 0 .. len - 1
    <3>1. rendered \in Seq(S) /\ c \in Seq(S)
      BY <1>3, <1>5
    <3>2. rendered' = rendered \o c
      BY <2>1
    <3> HIDE DEF c, S
    <3>3. /\ Len(rendered \o c) = Len(rendered) + Len(c)
          /\ \A i \in 1 .. Len(rendered) : (rendered \o c)[i] = rendered[i]
          /\ \A i \in 1 .. Len(c) : (rendered \o c)[Len(rendered) + i] = c[i]
      BY ONLY <3>1, ConcatType
    <3> QED BY ONLY <3>2, <3>3 DEF c
  <2>5. /\ Len(rendered') = end
        /\ \A i \in 1 .. end : rendered'[i] = i - 1
    <3>1. Len(rendered') = end
      BY <2>2, <2>4, <1>1, <1>5
    <3>2. ASSUME NEW i \in 1 .. start PROVE rendered'[i] = i - 1
      BY <2>2, <2>4, <1>1
    <3>3. ASSUME NEW i \in start + 1 .. end PROVE rendered'[i] = i - 1
      <4>1. i - start \in 1 .. Size(m) /\ i = start + (i - start)
        BY <1>1
      <4>2. rendered'[start + (i - start)] = Chunk(m)[i - start]
        BY <4>1, <2>2, <2>4, <1>5
      <4>3. Chunk(m)[i - start] = start + (i - start) - 1
        BY <4>1, <1>5
      <4> QED BY <4>1, <4>2, <4>3, <1>1
    <3> QED BY <3>1, <3>2, <3>3, <1>1
  <2>6. MergedInOrder'
    BY <2>3, <2>5, <1>4 DEF MergedInOrder
  <2>7. MergedFailure'
    BY <2>1, <1>12 DEF MergedFailure
  <2> QED BY <2>6, <2>7
<1>13. CASE failure # None /\ thread[m] = "ok"
  <2>1. failure' = failure
    BY <1>13 DEF Merge
  <2>2. /\ failure < len => failure < start /\ items[failure] = "fail"
        /\ failure = len => \E i \in 0 .. start - 1 : items[i] = "panic"
        /\ \A i \in 0 .. start - 1 :
              i < failure /\ items[i] = "fail" => \E q \in 0 .. i - 1 : items[q] = "panic"
    BY <1>13, <1>1 DEF MapInv, MergedFailure
  <2>3. \A i \in start .. end - 1 : items[i] = "ok"
    BY <1>2, <1>13
  <2>4. \A i \in 0 .. end - 1 :
           i < failure /\ items[i] = "fail" => \E q \in 0 .. i - 1 : items[q] = "panic"
    BY <2>2, <2>3, <1>1
  <2>5. failure < len => failure < end
    BY <2>2, <1>1, <1>3
  <2>6. failure = len => \E i \in 0 .. end - 1 : items[i] = "panic"
    BY <2>2, <1>1
  <2>7. MergedInOrder'
    BY <2>1, <1>13 DEF MergedInOrder
  <2>8. MergedFailure'
    BY <2>1, <2>2, <2>4, <2>5, <2>6, <1>4 DEF MergedFailure
  <2> QED BY <2>7, <2>8
<1>14. CASE thread[m] # "ok"
  <2>1. failure' = IF failure = None \/ Position(m) < failure THEN Position(m) ELSE failure
    BY <1>14 DEF Merge
  <2>2. failure' \in 0 .. len /\ failure' # None
    BY <2>1, <1>1, <1>3, <1>6, <1>7
  <2>3. /\ failure = None => \A i \in 0 .. start - 1 : items[i] = "ok"
        /\ failure # None =>
             /\ failure < len => failure < start /\ items[failure] = "fail"
             /\ failure = len => \E i \in 0 .. start - 1 : items[i] = "panic"
             /\ \A i \in 0 .. start - 1 :
                  i < failure /\ items[i] = "fail" => \E q \in 0 .. i - 1 : items[q] = "panic"
    BY <1>1 DEF MapInv, MergedInOrder, MergedFailure
  <2>4. /\ p < end
        /\ \/ items[p] = "fail" /\ thread[m] = "failed"
           \/ items[p] = "panic" /\ thread[m] = "panicked"
    BY <1>1, <1>2, <1>14 DEF Ended
  <2>5. failure' < len => failure' < end /\ items[failure'] = "fail"
    BY <2>1, <2>3, <2>4, <1>1, <1>3, <1>6, <1>7
  <2>6. failure' = len => \E i \in 0 .. end - 1 : items[i] = "panic"
    BY <2>1, <2>3, <2>4, <1>1, <1>3, <1>6, <1>7
  <2>7. \A i \in 0 .. end - 1 :
           i < failure' /\ items[i] = "fail" => \E q \in 0 .. i - 1 : items[q] = "panic"
    <3> TAKE i \in 0 .. end - 1
    <3> SUFFICES ASSUME i < failure', items[i] = "fail"
                 PROVE  \E q \in 0 .. i - 1 : items[q] = "panic"
      OBVIOUS
    <3>1. CASE i < start
      BY <3>1, <2>1, <2>3, <1>1, <1>3, <1>6, <1>7
    <3>2. CASE i >= start
      <4>1. i >= p
        BY <3>2, <1>1, <1>2, <1>6
      <4>2. thread[m] = "panicked"
        BY <4>1, <2>1, <2>3, <2>4, <1>1, <1>3, <1>6, <1>7
      <4>3. items[p] = "panic" /\ p < i
        BY <4>1, <4>2, <2>4, <1>1, <1>6
      <4> QED BY <4>3, <1>1, <1>6
    <3> QED BY <3>1, <3>2, <1>1
  <2>8. MergedInOrder'
    BY <2>2 DEF MergedInOrder
  <2>9. MergedFailure'
    BY <2>5, <2>6, <2>7, <1>4 DEF MergedFailure
  <2> QED BY <2>8, <2>9
<1> QED BY <1>12, <1>13, <1>14

LEMMA ReturnStep ==
  ASSUME MapInv, Return
  PROVE  MapInv'
<1> USE DEF None
<1>0. /\ UNCHANGED input
      /\ UNCHANGED <<thread, done, joined, merged, rendered, failure>>
      /\ Chunks > 0 /\ merged = Chunks
      /\ result' = IF failure = None THEN Ok(rendered) ELSE Err(failure)
  BY DEF Return
<1>1. len \in Nat /\ Workers # 1 /\ Upto(merged) = len /\ failure \in None .. len
  BY <1>0, CoresAssumption DEF MapInv, MapTypeOK, Chunks, Upto
<1>2. MapTypeOK'
  BY <1>0, <1>1, SameInput DEF MapInv, MapTypeOK, Ok, Err
<1>3. ThreadOK' /\ JoinedHaveEnded'
  BY <1>0, SameInput DEF MapInv, ThreadOK, JoinedHaveEnded
<1>4. MergedInOrder' /\ MergedFailure' /\ HereInOrder'
  BY <1>0, SameInput DEF MapInv, MergedInOrder, MergedFailure, HereInOrder
<1>5. AnswersAsOneThread'
  <2>1. CASE failure = None
    <3>1. Ok(rendered) = OneThread /\ result' = Ok(rendered)
      BY <2>1, <1>0, <1>1, WholeListIsRight DEF MapInv, MapTypeOK, MergedInOrder
    <3> QED BY <3>1, SameInput, <1>0 DEF AnswersAsOneThread, SameAtAnyThreadCount, LowestFailure, Ok
  <2>2. CASE failure # None
    <3>1. result' = Err(failure)
      BY <2>2, <1>0
    <3>2. /\ failure < len => items[failure] = "fail"
          /\ failure = len => \E i \in 0 .. len - 1 : items[i] = "panic"
          /\ \A i \in 0 .. len - 1 :
                i < failure /\ items[i] = "fail" => \E q \in 0 .. i - 1 : items[q] = "panic"
      BY <2>2, <1>1 DEF MapInv, MergedFailure
    <3>3. LowestFailure'
      BY <3>1, <3>2, <2>2, <1>0, <1>1, SameInput DEF LowestFailure, Unplaced, Err
    <3>4. (\A i \in 0 .. len - 1 : items[i] # "panic") => Err(failure) = OneThread
      BY <3>2, <2>2, <1>1, FirstFailureIsRight
    <3> QED BY <3>1, <3>3, <3>4, <1>0, SameInput DEF AnswersAsOneThread, SameAtAnyThreadCount
  <2> QED BY <2>1, <2>2
<1> QED BY <1>2, <1>3, <1>4, <1>5 DEF MapInv

-----------------------------------------------------------------------------
LEMMA InitMapInv == MapInit => MapInv
<1> USE DEF None
<1> SUFFICES ASSUME MapInit PROVE MapInv
  OBVIOUS
<1>1. len \in Nat /\ Chunks \in Nat
  BY CoresAssumption, ChunksIsNat DEF MapInit
<1>2. MapTypeOK
  BY <1>1 DEF MapInit, MapTypeOK, Pending
<1>3. ThreadOK
  BY <1>1, Cut DEF MapInit, ThreadOK
<1>4. JoinedHaveEnded /\ HereInOrder
  BY <1>1 DEF MapInit, JoinedHaveEnded, HereInOrder
<1>5. MergedInOrder /\ MergedFailure
  <2>1. Workers # 1 => Upto(0) = 0
    BY <1>1, SpanIsPositive DEF Upto, First
  <2> QED BY <2>1, <1>1 DEF MapInit, MergedInOrder, MergedFailure
<1>6. AnswersAsOneThread
  BY DEF MapInit, AnswersAsOneThread, SameAtAnyThreadCount, LowestFailure, Pending
<1> QED BY <1>2, <1>3, <1>4, <1>5, <1>6 DEF MapInv

LEMMA NextMapInv == MapInv /\ [MapNext]_mapVars => MapInv'
<1> SUFFICES ASSUME MapInv, [MapNext]_mapVars PROVE MapInv'
  OBVIOUS
<1>1. CASE RenderHere \/ ReturnHere
  BY <1>1, HereStep
<1>2. ASSUME NEW k \in Threads, Spawn(k) \/ Render(k) \/ FinishSpan(k)
      PROVE  MapInv'
  BY <1>2, ThreadStep
<1>3. CASE Join
  BY <1>3, JoinStep
<1>4. CASE Merge
  BY <1>4, MergeStep
<1>5. CASE Return
  BY <1>5, ReturnStep
<1>6. CASE UNCHANGED mapVars
  BY <1>6, SameInput, AnswerStands
  DEF MapInv, mapVars, input, MapTypeOK, ThreadOK, JoinedHaveEnded, MergedInOrder, MergedFailure, HereInOrder
<1> QED BY <1>1, <1>2, <1>3, <1>4, <1>5, <1>6 DEF MapNext, Caller, Thread

THEOREM MapInvariance == MapSpec => []MapInv
BY InitMapInv, NextMapInv, PTL DEF MapSpec

(* Every variable keeps its type, so no thread leaves its span and no span is merged twice. *)
THEOREM MapTypes == MapSpec => []MapTypeOK
<1>1. MapInv => MapTypeOK
  BY DEF MapInv
<1> QED BY <1>1, MapInvariance, PTL

(* However many cores there are, the answer is the one a single thread computes (parallel.rs:10), and *)
(* with panics too the lowest failure that occurred is the one reported (parallel.rs:14).            *)
THEOREM OneAnswer == MapSpec => []AnswersAsOneThread
<1>1. MapInv => AnswersAsOneThread
  BY DEF MapInv
<1> QED BY <1>1, MapInvariance, PTL

-----------------------------------------------------------------------------
(* The watch loop *)

(* The design the outputs will have once the running generation is done. *)
Latest == IF pc \in {"coldwrite", "write"} THEN gen ELSE built

(* A trigger is on its way to the main thread: in the channel, or with the debouncer. *)
Underway == signal \/ \E path \in events : IsTrigger(path)

(* Before the watcher is registered an edit is marked as missed; afterwards it is underway from the  *)
(* moment it is made until a generation reads the sources.                                           *)
Accounted ==
    missed = {} /\ src # Latest =>
        \/ pc \in {"cold", "read", "stopped"}
        \/ pc \in {"watching", "waiting", "write"} /\ Underway

WatchInv == TypeOK /\ Accounted

-----------------------------------------------------------------------------
LEMMA InitWatchInv == Init => WatchInv
BY DesignAssumption DEF Init, WatchInv, TypeOK, Accounted

LEMMA EditKeepsTypes ==
  ASSUME TypeOK, NEW f \in Files, NEW d \in Designs, Edit(f, d)
  PROVE  TypeOK'
<1> USE DEF Edit
<1>1. disk' \in [Outputs -> Designs \cup {Absent, Foreign}]
  BY DEF TypeOK
<1>2. \A p \in owned' : disk'[p] # Foreign
  BY DEF TypeOK
<1>3. missed' \in SUBSET {"unwatched", "filtered", "error", "failed"}
  BY DEF TypeOK
<1>4. events' \in SUBSET Files
  BY DEF TypeOK, Reported
<1> QED BY <1>1, <1>2, <1>3, <1>4 DEF TypeOK

LEMMA WriteKeepsTypes ==
  ASSUME TypeOK, NEW next \in {"filter", "stopped", "watching"}, Write(next)
  PROVE  TypeOK'
<1> USE DEF Write
<1>1. disk' \in [Outputs -> Designs \cup {Absent, Foreign}]
  BY DEF TypeOK, Generated
<1>2. Wanted[gen] \in SUBSET Outputs
  BY DesignAssumption DEF TypeOK
<1>3. owned' \in SUBSET Outputs /\ \A p \in owned' : disk'[p] # Foreign
  BY <1>2, DesignAssumption DEF TypeOK, Skipped, Generated
<1>4. events' \in SUBSET Files
  BY DEF TypeOK, Reported, Rewritten, Files
<1> QED BY <1>1, <1>3, <1>4 DEF TypeOK

LEMMA WriteFailsKeepsTypes == ASSUME TypeOK, WriteFails PROVE TypeOK'
<1>1. PICK touched \in SUBSET Unedited :
         /\ disk' \in [Outputs -> Designs \cup {Absent, Foreign}]
         /\ \A p \in touched : disk'[p] \in {disk[p], Generated[p], Absent}
         /\ \A p \in Outputs \ touched : disk'[p] = disk[p]
         /\ events' = events \cup Reported(touched \cup {Cache})
         /\ owned' \in {owned, owned \cup touched, Wanted[gen] \ Skipped}
  BY DEF WriteFails
<1>2. Wanted[gen] \in SUBSET Outputs
  BY DesignAssumption DEF TypeOK
<1>3. owned' \in SUBSET Outputs /\ \A p \in owned' : disk'[p] # Foreign
  <2>1. \A p \in touched : p \in Outputs /\ disk[p] # Foreign /\ disk'[p] # Foreign
    BY <1>1, DesignAssumption DEF TypeOK, Unedited, Generated
  <2>2. \A p \in Outputs : disk[p] # Foreign => disk'[p] # Foreign
    BY <1>1, <2>1
  <2> QED BY <1>1, <1>2, <2>1, <2>2 DEF TypeOK, Skipped
<1>4. events' \in SUBSET Files
  BY <1>1 DEF TypeOK, Reported, Unedited, Files
<1> QED BY <1>1, <1>3, <1>4 DEF WriteFails, TypeOK

LEMMA NextTypes == TypeOK /\ [Next]_vars => TypeOK'
<1> SUFFICES ASSUME TypeOK, [Next]_vars PROVE TypeOK'
  OBVIOUS
<1>1. ASSUME NEW f \in Files, NEW d \in Designs, Edit(f, d) PROVE TypeOK'
  BY <1>1, EditKeepsTypes
<1>2. CASE Interrupt
  BY <1>2 DEF Interrupt, TypeOK, main
<1>3. CASE Deliver
  BY <1>3 DEF Deliver, TypeOK, main
<1>4. CASE NotifyError
  BY <1>4 DEF NotifyError, TypeOK, main
<1>5. CASE ColdRead \/ ReadSources
  BY <1>5 DEF ColdRead, ReadSources, Read, TypeOK
<1>6. CASE ColdWrite \/ WriteOutputs
  BY <1>6, WriteKeepsTypes DEF ColdWrite, WriteOutputs
<1>7. CASE BuildOutputSet
  BY <1>7 DEF BuildOutputSet, TypeOK
<1>8. CASE ColdFails \/ Register \/ Loop \/ RegenerationFails
  BY <1>8, WriteFailsKeepsTypes
     DEF ColdFails, Register, Loop, Wait, Timeout, Receive, Leave, RegenerationFails, PipelineFails, TypeOK
<1>9. CASE UNCHANGED vars
  BY <1>9 DEF vars, main, TypeOK
<1> QED BY <1>1, <1>2, <1>3, <1>4, <1>5, <1>6, <1>7, <1>8, <1>9
        DEF Next, User, Start, Loop, Regenerate

-----------------------------------------------------------------------------
(* What does not touch the sources, the filter or the channel leaves a trigger underway. *)
LEMMA UnderwayStays ==
  ASSUME Underway, filter' = filter, signal => signal', events \subseteq events'
  PROVE  Underway'
BY DEF Underway, IsTrigger

LEMMA EditIsAccounted ==
  ASSUME WatchInv, NEW f \in Files, NEW d \in Designs, Edit(f, d)
  PROVE  Accounted'
<1> USE DEF Edit
<1>1. CASE ~Watching
  BY <1>1 DEF Watching, WatchInv, TypeOK, Accounted, Latest
<1>2. CASE Watching /\ f \in filter
  BY <1>2 DEF Accounted, Watching
<1>3. CASE Watching /\ f \notin filter
  <2>1. f \in events'
    BY <1>3 DEF Reported
  <2>2. IsTrigger(f)'
    BY <1>3 DEF IsTrigger
  <2>3. Underway'
    BY <2>1, <2>2 DEF Underway
  <2> QED BY <2>3, <1>3 DEF Accounted, Watching
<1> QED BY <1>1, <1>2, <1>3

LEMMA DeliverIsAccounted ==
  ASSUME WatchInv, Deliver
  PROVE  Accounted'
<1>1. Underway => Underway'
  <2>1. PICK batch \in SUBSET events :
           /\ events' = events \ batch
           /\ signal' = (signal \/ \E path \in batch : IsTrigger(path))
    BY DEF Deliver
  <2>2. filter' = filter
    BY DEF Deliver, main
  <2>3. \A path : IsTrigger(path)' = IsTrigger(path)
    BY <2>2 DEF IsTrigger
  <2> QED BY <2>1, <2>3 DEF Underway
<1> QED BY <1>1 DEF Deliver, main, WatchInv, Accounted, Latest

LEMMA NextAccounted == WatchInv /\ [Next]_vars => Accounted'
<1> SUFFICES ASSUME WatchInv, [Next]_vars PROVE Accounted'
  OBVIOUS
<1> USE DEF WatchInv
<1>1. ASSUME NEW f \in Files, NEW d \in Designs, Edit(f, d) PROVE Accounted'
  BY <1>1, EditIsAccounted
<1>2. CASE Interrupt
  BY <1>2, UnderwayStays DEF Interrupt, main, Accounted, Latest
<1>3. CASE Deliver
  BY <1>3, DeliverIsAccounted
<1>4. CASE NotifyError
  BY <1>4 DEF NotifyError, Accounted
<1>5. CASE ColdRead \/ ReadSources
  BY <1>5 DEF ColdRead, ReadSources, Read, Accounted, Latest
<1>6. CASE ColdWrite
  BY <1>6 DEF ColdWrite, Write, Accounted, Latest
<1>7. CASE WriteOutputs
  BY <1>7, UnderwayStays DEF WriteOutputs, Write, Accounted, Latest
<1>8. CASE ColdFails \/ Leave
  BY <1>8 DEF ColdFails, Leave, Accounted
<1>9. CASE BuildOutputSet \/ Register
  BY <1>9 DEF BuildOutputSet, Register, Accounted, Latest
<1>10. CASE Wait \/ Timeout \/ Receive
  BY <1>10, UnderwayStays DEF Wait, Timeout, Receive, Accounted, Latest
<1>11. CASE RegenerationFails
  BY <1>11 DEF RegenerationFails, PipelineFails, WriteFails, Accounted
<1>12. CASE UNCHANGED vars
  BY <1>12, UnderwayStays DEF vars, main, Accounted, Latest
<1> QED BY <1>1, <1>2, <1>3, <1>4, <1>5, <1>6, <1>7, <1>8, <1>9, <1>10, <1>11, <1>12
        DEF Next, User, Start, Loop, Regenerate

THEOREM WatchInvariance == Spec => []WatchInv
<1>1. WatchInv /\ [Next]_vars => WatchInv'
  BY NextTypes, NextAccounted DEF WatchInv
<1> QED BY InitWatchInv, <1>1, PTL DEF Spec

(* Every variable keeps its type, and the manifest records no file that the user has written. *)
THEOREM WatchTypes == Spec => []TypeOK
<1>1. WatchInv => TypeOK
  BY DEF WatchInv
<1> QED BY <1>1, WatchInvariance, PTL

(* An edit that was made under the watcher, to a path that was never an output, is generated before  *)
(* the loop rests (watch.rs:335).                                                                    *)
THEOREM RestMeansCurrent == Spec => []RestIsCurrent
<1>1. WatchInv => RestIsCurrent
  BY DEF WatchInv, Accounted, RestIsCurrent, AtRest, Underway, Latest
<1> QED BY <1>1, WatchInvariance, PTL
=============================================================================
