---------------------------- MODULE SourceCache ----------------------------
(***************************************************************************)
(* How a gnr8 process gets the graph of a Go module: GoGin::load in        *)
(* sdk/builtins.rs.  The files the analysis reads are hashed into a key;   *)
(* the answer under that key is looked for in the cache of the checkout,   *)
(* then in the store of the machine (store/mod.rs), and computed when      *)
(* neither has it.  Several processes work in several checkouts while the  *)
(* user edits, and a cache may be lost, damaged or put together from       *)
(* another one.                                                            *)
(***************************************************************************)
EXTENDS Naturals

CONSTANTS
  Procs, Checkouts,
  Homes,      \* in which checkout each process may work: a set of functions
  Versions,   \* what the module may hold; its graph is named by the version
  Keyed,      \* the versions of which all that the analysis reads can be enumerated
  Sharing,    \* the processes that have a store
  MaxFaults,  \* bound on edits, deaths, failures and damages
  None, Junk

(* An entry records the key it was computed under.  Junk stands for what does *)
(* not parse or has another schema.                                        *)
Entries == [key : Keyed, graph : Versions]
Files   == Entries \cup {None, Junk}

ASSUME CacheAssumption ==
  /\ Homes \subseteq [Procs -> Checkouts]
  /\ Keyed \subseteq Versions
  /\ Sharing \subseteq Procs
  /\ None \notin Entries \cup Versions
  /\ Junk \notin Entries \cup {None}
  /\ MaxFaults \in Nat

VARIABLES
  home,    \* where each process works
  source,  \* the module in each checkout
  cache,   \* the cache of each checkout, by key
  store,   \* the store, by key
  pc, key, graph, \* of a process: its place, the key it computed, the graph it has
  raced,   \* history: the module was edited since the process computed its key
  tainted, \* history: keys of analyses in whose course the module was edited
  faults   \* (bound) how much of that there was so far

vars == <<home, source, cache, store, pc, key, graph, raced, tainted, faults>>

caches  == <<cache, store>>
history == <<raced, tainted>>
rest    == <<home, faults>>

Empty == [k \in Keyed |-> None]

Init ==
  /\ home \in Homes
  /\ source \in [Checkouts -> Versions]
  /\ cache = [c \in Checkouts |-> Empty] /\ store = Empty
  /\ pc = [p \in Procs |-> "idle"]
  /\ key = [p \in Procs |-> None] /\ graph = [p \in Procs |-> None]
  /\ raced = [p \in Procs |-> FALSE]
  /\ tainted = {} /\ faults = 0

Here(p) == source[home[p]]
Goes(p, from, to) == pc[p] = from /\ pc' = [pc EXCEPT ![p] = to]

Ends(p) ==
  /\ pc' = [pc EXCEPT ![p] = "idle"]
  /\ key' = [key EXCEPT ![p] = None] /\ graph' = [graph EXCEPT ![p] = None]
  /\ raced' = [raced EXCEPT ![p] = FALSE]

-----------------------------------------------------------------------------
(* The key. *)

(* Mutant of HashModule: what cannot be enumerated is keyed all the same.    *)
HashAnyModule(p) ==
  /\ Goes(p, "idle", "cache")
  /\ key' = [key EXCEPT ![p] = Here(p)]
  /\ UNCHANGED <<source, caches, graph, history, rest>>

(* go_gin_scope_digest and go_gin_cache_key: no key when the files cannot be *)
(* enumerated.                                                             *)
HashModule(p) ==
  /\ \/ /\ Here(p) \in Keyed /\ Goes(p, "idle", "cache")
        /\ key' = [key EXCEPT ![p] = Here(p)]
     \/ /\ Here(p) \notin Keyed /\ Goes(p, "idle", "analyze")
        /\ UNCHANGED key
  /\ UNCHANGED <<source, caches, graph, history, rest>>

-----------------------------------------------------------------------------
(* Looking the answer up (load_go_gin_cache). *)

(* Mutant of Answers: the key an entry records is not compared.             *)
Parses(file, k) == file \notin {None, Junk}

Answers(file, k) == file \notin {None, Junk} /\ file.key = k

(* An entry of the checkout that is no answer is removed.                   *)
ReadCache(p) ==
  LET file == cache[home[p]][key[p]] IN
  /\ pc[p] = "cache"
  /\ \/ /\ Answers(file, key[p]) /\ Goes(p, "cache", "done")
        /\ graph' = [graph EXCEPT ![p] = file.graph]
     \/ /\ file # None /\ ~Answers(file, key[p]) /\ Goes(p, "cache", "remove")
        /\ UNCHANGED graph
     \/ /\ file = None
        /\ Goes(p, "cache", IF p \in Sharing THEN "store" ELSE "analyze")
        /\ UNCHANGED graph
  /\ UNCHANGED <<source, caches, key, history, rest>>

RemoveCached(p) ==
  /\ Goes(p, "remove", IF p \in Sharing THEN "store" ELSE "analyze")
  /\ cache' = [cache EXCEPT ![home[p]][key[p]] = None]
  /\ UNCHANGED <<source, store, key, graph, history, rest>>

ReadStore(p) ==
  LET file == store[key[p]] IN
  /\ pc[p] = "store"
  /\ \/ /\ Answers(file, key[p]) /\ Goes(p, "store", "copy")
        /\ graph' = [graph EXCEPT ![p] = file.graph]
     \/ /\ file # None /\ ~Answers(file, key[p]) /\ Goes(p, "store", "discard")
        /\ UNCHANGED graph
     \/ /\ file = None /\ Goes(p, "store", "analyze")
        /\ UNCHANGED graph
  /\ UNCHANGED <<source, caches, key, history, rest>>

DiscardStored(p) ==
  /\ Goes(p, "discard", "analyze")
  /\ store' = [store EXCEPT ![key[p]] = None]
  /\ UNCHANGED <<source, cache, key, graph, history, rest>>

-----------------------------------------------------------------------------
(* Computing it, and recording it under the key computed before.            *)

Analyze(p) ==
  /\ Goes(p, "analyze", IF key[p] = None THEN "done" ELSE "save")
  /\ graph' = [graph EXCEPT ![p] = Here(p)]
  /\ tainted' = IF key[p] # None /\ raced[p] THEN tainted \cup {key[p]} ELSE tainted
  /\ UNCHANGED <<source, caches, key, raced, rest>>

Record(p) == [key |-> key[p], graph |-> graph[p]]

(* Where a run goes on once it has written, or failed to write, the file of  *)
(* its checkout; a file is replaced by a rename, so it is whole.           *)
AfterCache(p) ==
  \/ Goes(p, "copy", "done")
  \/ Goes(p, "save", IF p \in Sharing THEN "publish" ELSE "done")

(* Mutant of WriteCache: what was analyzed is written to the store only.    *)
WriteCopied(p) ==
  /\ AfterCache(p)
  /\ cache' = IF pc[p] = "copy" THEN [cache EXCEPT ![home[p]][key[p]] = Record(p)] ELSE cache
  /\ UNCHANGED <<source, store, key, graph, history, rest>>

WriteCache(p) ==
  /\ AfterCache(p)
  /\ cache' = [cache EXCEPT ![home[p]][key[p]] = Record(p)]
  /\ UNCHANGED <<source, store, key, graph, history, rest>>

Publish(p) ==
  /\ Goes(p, "publish", "done")
  /\ store' = [store EXCEPT ![key[p]] = Record(p)]
  /\ UNCHANGED <<source, cache, key, graph, history, rest>>

Return(p) ==
  /\ pc[p] = "done" /\ Ends(p)
  /\ UNCHANGED <<source, caches, tainted, rest>>

-----------------------------------------------------------------------------
(* What happens around it, at most MaxFaults times. *)

Fault == faults < MaxFaults /\ faults' = faults + 1

Running(p) == pc[p] # "idle"

Edit(c, v) ==
  /\ Fault
  /\ \E p \in Procs : home[p] = c
  /\ source' = [source EXCEPT ![c] = v]
  /\ raced' = [p \in Procs |-> raced[p] \/ (home[p] = c /\ key[p] # None)]
  /\ UNCHANGED <<caches, pc, key, graph, tainted, home>>

(* The process dies, or its toolchain fails.                                *)
Dies(p) ==
  /\ Fault
  /\ Running(p) /\ Ends(p)
  /\ UNCHANGED <<source, caches, tainted, home>>

(* A write that fails is not told, and the next step follows.               *)
WriteFails(p) ==
  /\ Fault
  /\ AfterCache(p) \/ Goes(p, "publish", "done")
  /\ UNCHANGED <<source, caches, key, graph, history, home>>

(* A file is lost or damaged, or another entry is put in its place.         *)
Replacements ==
  {None, Junk} \cup {store[k] : k \in Keyed}
    \cup {cache[c][k] : c \in Checkouts, k \in Keyed}

Damage ==
  /\ Fault
  /\ \E k \in Keyed, new \in Replacements :
       \/ store' = [store EXCEPT ![k] = new] /\ UNCHANGED cache
       \/ \E c \in Checkouts :
            cache' = [cache EXCEPT ![c][k] = new] /\ UNCHANGED store
  /\ UNCHANGED <<home, source, pc, key, graph, history>>

LooksUp(p)  == ReadCache(p) \/ RemoveCached(p) \/ ReadStore(p) \/ DiscardStored(p)
Computes(p) == Analyze(p) \/ WriteCache(p) \/ Publish(p)
Step(p)     == HashModule(p) \/ LooksUp(p) \/ Computes(p) \/ Return(p)

Next ==
  \/ \E p \in Procs : Step(p) \/ Dies(p) \/ WriteFails(p)
  \/ \E c \in Checkouts, v \in Versions : Edit(c, v)
  \/ Damage

Spec == Init /\ [][Next]_vars

(* Runs proceed and are repeated; nothing is assumed of what is around them. *)
FairSpec == Spec /\ \A p \in Procs : WF_vars(Step(p))

-----------------------------------------------------------------------------
Places == {"idle", "cache", "remove", "store", "discard", "copy", "analyze",
           "save", "publish", "done"}

TypeOK ==
  /\ home \in [Procs -> Checkouts]
  /\ source \in [Checkouts -> Versions]
  /\ cache \in [Checkouts -> [Keyed -> Files]]
  /\ store \in [Keyed -> Files]
  /\ pc \in [Procs -> Places]
  /\ key \in [Procs -> Keyed \cup {None}]
  /\ graph \in [Procs -> Versions \cup {None}]
  /\ raced \in [Procs -> BOOLEAN]
  /\ tainted \subseteq Keyed
  /\ faults \in Nat

(* The graph a run takes from a cache or computes is that of the sources it *)
(* found, whatever became of the caches and whoever computed it in which    *)
(* checkout: unless an analysis under that key went on while the module was *)
(* edited (load_go_gin_cache, save_go_gin_cache).                          *)
AnswersItsSources ==
  \A p \in Procs : pc[p] = "done" /\ key[p] # None => graph[p] = key[p] \/ key[p] \in tainted

(* Once edits, failures and damages stop, runs come to find their answer:   *)
(* damaged and misplaced entries do not stay in the way.                    *)
Warms == <>[](\A p \in Procs : Here(p) \in Keyed => pc[p] # "analyze")

(* "a restored cache directory can only make a run faster, never change its *)
(* verdict" (docs/sdk-generation-performance.md, on this cache): a run in   *)
(* whose course nobody edits goes on with the graph of the sources.         *)
SourcesDecide ==
  \A p \in Procs : pc[p] = "done" /\ key[p] # None /\ ~raced[p] => graph[p] = Here(p)
=============================================================================
