----------------------------- MODULE OrderedMap -----------------------------
(* `map_ordered` and `map_ordered_blocks`: one function mapped over a list by several threads,      *)
(* crates/gnr8-core/src/parallel.rs. An item is known by its index, and so is the value it yields.  *)
(* All that matters of an item is how its rendering ends.                                           *)
EXTENDS Integers, Sequences

CONSTANTS Cores,      \* std::thread::available_parallelism
          Minimum,    \* MIN_PARALLEL_ITEMS or MIN_PARALLEL_BLOCKS
          Lengths     \* the lengths of the lists that are mapped

ASSUME CoresAssumption == /\ Cores \in Nat \ {0}
                          /\ Minimum \in Nat \ {0}
                          /\ Lengths \subseteq Nat

VARIABLES len, items,       \* the input: its length, and how the rendering of each item ends
          thread, done,     \* of each spawned thread, its state and how many items it has rendered
          joined, merged,   \* how many threads are joined, how many spans are merged
          rendered,         \* the values collected by the caller
          failure,          \* the failure it would report
          result

mapVars == <<len, items, thread, done, joined, merged, rendered, failure, result>>
input == <<len, items>>

Fates == {"ok", "fail", "panic"}
None == -1
Unplaced == len             \* stands for usize::MAX, the position of a panic: behind every item

Pending == [kind |-> "pending", at |-> None, values |-> <<>>]
Ok(values) == [kind |-> "ok", at |-> None, values |-> values]
Err(position) == [kind |-> "err", at |-> position, values |-> <<>>]
Unwound == [kind |-> "unwound", at |-> None, values |-> <<>>]

-----------------------------------------------------------------------------
(* How the list is cut *)

Smaller(a, b) == IF a < b THEN a ELSE b
DivCeil(a, b) == (a + b - 1) \div b

Workers == IF len < Minimum THEN 1 ELSE Smaller(Cores, len)
Span == DivCeil(len, Workers)
Chunks == IF Workers = 1 THEN 0 ELSE DivCeil(len, Span)
Threads == 0 .. Chunks - 1

First(k) == k * Span
Size(k) == Smaller(Span, len - First(k))
Chunk(k) == [i \in 1 .. Size(k) |-> First(k) + i - 1]

-----------------------------------------------------------------------------
MapInit == /\ len \in Lengths
           /\ items \in [0 .. len - 1 -> Fates]
           /\ thread = [k \in Threads |-> "unborn"]
           /\ done = [k \in Threads |-> 0]
           /\ joined = 0 /\ merged = 0
           /\ rendered = <<>>
           /\ failure = None
           /\ result = Pending

(* One worker: the caller renders the list itself, and stops at the first item that does not        *)
(* succeed. There is no thread whose end could be joined, so a panic unwinds through the caller.     *)
RenderHere ==
    /\ Workers = 1
    /\ result = Pending
    /\ Len(rendered) < len
    /\ LET item == Len(rendered)
       IN \/ /\ items[item] = "ok"
             /\ rendered' = Append(rendered, item)
             /\ UNCHANGED result
          \/ /\ items[item] = "fail"
             /\ result' = Err(item)
             /\ UNCHANGED rendered
          \/ /\ items[item] = "panic"
             /\ result' = Unwound
             /\ UNCHANGED rendered
    /\ UNCHANGED <<input, thread, done, joined, merged, failure>>

ReturnHere ==
    /\ Workers = 1
    /\ result = Pending
    /\ Len(rendered) = len
    /\ result' = Ok(rendered)
    /\ UNCHANGED <<input, thread, done, joined, merged, rendered, failure>>

Spawn(k) ==
    /\ thread[k] = "unborn"
    /\ \A earlier \in 0 .. k - 1 : thread[earlier] # "unborn"
    /\ thread' = [thread EXCEPT ![k] = "running"]
    /\ UNCHANGED <<input, done, joined, merged, rendered, failure, result>>

(* The body of thread k: one item of its span, or the end of it. *)
Render(k) ==
    /\ thread[k] = "running"
    /\ done[k] < Size(k)
    /\ LET fate == items[First(k) + done[k]]
       IN \/ /\ fate = "ok"
             /\ done' = [done EXCEPT ![k] = @ + 1]
             /\ UNCHANGED thread
          \/ /\ fate = "fail"
             /\ thread' = [thread EXCEPT ![k] = "failed"]
             /\ UNCHANGED done
          \/ /\ fate = "panic"
             /\ thread' = [thread EXCEPT ![k] = "panicked"]
             /\ UNCHANGED done
    /\ UNCHANGED <<input, joined, merged, rendered, failure, result>>

FinishSpan(k) ==
    /\ thread[k] = "running"
    /\ done[k] = Size(k)
    /\ thread' = [thread EXCEPT ![k] = "ok"]
    /\ UNCHANGED <<input, done, joined, merged, rendered, failure, result>>

(* Mutant of Join: only a thread that returned is taken back. *)
JoinReturned ==
    /\ joined < Chunks
    /\ \A k \in Threads : thread[k] # "unborn"
    /\ thread[joined] \in {"ok", "failed"}
    /\ joined' = joined + 1
    /\ UNCHANGED <<input, thread, done, merged, rendered, failure, result>>

(* All threads are spawned before the first is joined, and they are joined in order. *)
Join ==
    /\ joined < Chunks
    /\ \A k \in Threads : thread[k] # "unborn"
    /\ thread[joined] \in {"ok", "failed", "panicked"}
    /\ joined' = joined + 1
    /\ UNCHANGED <<input, thread, done, merged, rendered, failure, result>>

(* Mutant of Position: spans counted from one. *)
PositionFromOne(k) == IF thread[k] = "panicked" THEN Unplaced ELSE First(k + 1) + done[k]

Position(k) == IF thread[k] = "panicked" THEN Unplaced ELSE First(k) + done[k]

(* Mutant of Merge: the last failure wins. *)
MergeLastFailure ==
    /\ joined = Chunks
    /\ merged < Chunks
    /\ IF thread[merged] = "ok"
       THEN rendered' = rendered \o Chunk(merged) /\ UNCHANGED failure
       ELSE failure' = Position(merged) /\ UNCHANGED rendered
    /\ merged' = merged + 1
    /\ UNCHANGED <<input, thread, done, joined, result>>

Merge ==
    /\ joined = Chunks
    /\ merged < Chunks
    /\ IF thread[merged] = "ok"
       THEN /\ rendered' = rendered \o Chunk(merged)
            /\ UNCHANGED failure
       ELSE /\ failure' = IF failure = None \/ Position(merged) < failure
                          THEN Position(merged) ELSE failure
            /\ UNCHANGED rendered
    /\ merged' = merged + 1
    /\ UNCHANGED <<input, thread, done, joined, result>>

Return ==
    /\ Chunks > 0
    /\ merged = Chunks
    /\ result = Pending
    /\ result' = IF failure = None THEN Ok(rendered) ELSE Err(failure)
    /\ UNCHANGED <<input, thread, done, joined, merged, rendered, failure>>

Caller == RenderHere \/ ReturnHere \/ (\E k \in Threads : Spawn(k)) \/ Join \/ Merge \/ Return
Thread(k) == Render(k) \/ FinishSpan(k)

MapNext == Caller \/ (\E k \in Threads : Thread(k))

MapSpec == MapInit /\ [][MapNext]_mapVars

(* Rendering an item ends, and while some thread can take a step, one of them does. *)
FairMapSpec == MapSpec /\ WF_mapVars(MapNext)

-----------------------------------------------------------------------------
MapTypeOK ==
    /\ len \in Lengths
    /\ items \in [0 .. len - 1 -> Fates]
    /\ thread \in [Threads -> {"unborn", "running", "ok", "failed", "panicked"}]
    /\ done \in [Threads -> Nat]
    /\ joined \in 0 .. Chunks
    /\ merged \in 0 .. joined
    /\ rendered \in Seq(0 .. len - 1)
    /\ failure \in None .. len
    /\ result \in [kind : {"pending", "ok", "err", "unwound"}, at : None .. len,
                   values : Seq(0 .. len - 1)]

-----------------------------------------------------------------------------
(* What a single thread would answer: the values in order of the items, or the first failure. *)
Failing == {i \in 0 .. len - 1 : items[i] = "fail"}
InOrder == [i \in 1 .. len |-> i - 1]
OneThread ==
    IF Failing = {} THEN Ok(InOrder)
    ELSE Err(CHOOSE i \in Failing : \A j \in Failing : i <= j)

(* The result does not depend on the number of threads: when no item panics it is the one a single  *)
(* thread computes, with the same order of values and the same failure reported.                     *)
SameAtAnyThreadCount ==
    result # Pending /\ (\A i \in 0 .. len - 1 : items[i] # "panic") => result = OneThread

(* Whatever panics, the failure reported is one that occurred, and an item before it failed as well *)
(* only where a panic kept that item from being rendered. A panic is reported if nothing else is.    *)
LowestFailure ==
    result.kind = "err" =>
        /\ result.at < len => items[result.at] = "fail"
        /\ result.at = Unplaced => \E i \in 0 .. len - 1 : items[i] = "panic"
        /\ \A i \in 0 .. result.at - 1 :
              items[i] = "fail" => \E p \in 0 .. i - 1 : items[p] = "panic"

(* Both: values and failures are those of one thread as far as panics leave them to be. *)
AnswersAsOneThread == SameAtAnyThreadCount /\ LowestFailure

(* A call returns: no way for a thread to end leaves the caller waiting for it. *)
Returns == <>(result # Pending)
=============================================================================
