-------------------------- MODULE SourceCacheProofs --------------------------
(* Theorems about SourceCache, for every set of processes, checkouts and     *)
(* versions.                                                               *)
EXTENDS SourceCache, TLAPS

USE CacheAssumption

(* What an entry answers, unless an analysis under its key was disturbed.   *)
True(k, g) == g = k \/ k \in tainted

EntriesTrue ==
  /\ \A c \in Checkouts, k \in Keyed :
       cache[c][k] \in Entries => True(cache[c][k].key, cache[c][k].graph)
  /\ \A k \in Keyed : store[k] \in Entries => True(store[k].key, store[k].graph)

LookingUp == {"cache", "remove", "store", "discard"}
Having    == {"copy", "save", "publish", "done"}

ProcInv(p) ==
  /\ pc[p] = "idle" => key[p] = None
  /\ pc[p] \in LookingUp \cup {"copy", "save", "publish"} => key[p] \in Keyed
  /\ pc[p] \in LookingUp \cup {"analyze"} /\ key[p] # None /\ ~raced[p] => Here(p) = key[p]
  /\ pc[p] \in Having => graph[p] \in Versions
  /\ pc[p] \in Having /\ key[p] # None => True(key[p], graph[p])

IInv == TypeOK /\ EntriesTrue /\ \A p \in Procs : ProcInv(p)

-----------------------------------------------------------------------------

LEMMA InitInv == Init => IInv
<1> SUFFICES ASSUME Init PROVE IInv
  OBVIOUS
<1>1. TypeOK
  BY DEF Init, TypeOK, Empty, Files, Places
<1>2. EntriesTrue
  BY DEF Init, EntriesTrue, Empty
<1>3. \A p \in Procs : ProcInv(p)
  BY DEF Init, ProcInv, LookingUp, Having
<1> QED BY <1>1, <1>2, <1>3 DEF IInv

(* What a process that takes no part sees of a step.                        *)
LEMMA Apart ==
  ASSUME TypeOK, NEW q \in Procs, ProcInv(q),
         home' = home, source' = source, tainted \subseteq tainted',
         pc'[q] = pc[q], key'[q] = key[q], graph'[q] = graph[q], raced'[q] = raced[q]
  PROVE  ProcInv(q)'
BY DEF ProcInv, True, Here, TypeOK

(* A step of one process is judged by what it does to that process and to   *)
(* the entries.                                                            *)
LEMMA Alone ==
  ASSUME IInv, NEW p \in Procs,
         TypeOK', EntriesTrue', ProcInv(p)',
         home' = home, source' = source, tainted \subseteq tainted',
         \A q \in Procs \ {p} : /\ pc'[q] = pc[q] /\ key'[q] = key[q]
                                /\ graph'[q] = graph[q] /\ raced'[q] = raced[q]
  PROVE  IInv'
BY Apart DEF IInv

(* Where the caches stay as they are, their entries stay true.              *)
LEMMA SameEntries ==
  ASSUME EntriesTrue, UNCHANGED caches, tainted \subseteq tainted'
  PROVE  EntriesTrue'
BY DEF EntriesTrue, True, caches

(* A file that answers a key holds its graph. *)
LEMMA FileAnswers ==
  ASSUME NEW file \in Files, NEW k, Answers(file, k),
         file \in Entries => True(file.key, file.graph)
  PROVE  file.graph \in Versions /\ True(k, file.graph)
BY DEF Files, Entries, Answers

(* A new file keeps the entries true when what it records is true.          *)
LEMMA CacheFileTrue ==
  ASSUME TypeOK, EntriesTrue, NEW c \in Checkouts, NEW k \in Keyed, NEW file,
         file \in Entries => True(file.key, file.graph),
         cache' = [cache EXCEPT ![c][k] = file], store' = store, tainted' = tainted
  PROVE  EntriesTrue'
<1>1. ASSUME NEW d \in Checkouts, NEW j \in Keyed
      PROVE  cache'[d][j] = IF d = c /\ j = k THEN file ELSE cache[d][j]
  BY DEF TypeOK
<1> QED BY <1>1 DEF EntriesTrue, True

LEMMA StoreFileTrue ==
  ASSUME TypeOK, EntriesTrue, NEW k \in Keyed, NEW file,
         file \in Entries => True(file.key, file.graph),
         store' = [store EXCEPT ![k] = file], cache' = cache, tainted' = tainted
  PROVE  EntriesTrue'
<1>1. ASSUME NEW j \in Keyed
      PROVE  store'[j] = IF j = k THEN file ELSE store[j]
  BY DEF TypeOK
<1> QED BY <1>1 DEF EntriesTrue, True

-----------------------------------------------------------------------------

LEMMA HashModuleInv ==
  ASSUME IInv, NEW p \in Procs, HashModule(p)
  PROVE  IInv'
<1>1. TypeOK'
  BY DEF IInv, TypeOK, HashModule, Goes, Here, Places, caches, history, rest
<1>2. EntriesTrue'
  BY SameEntries DEF IInv, HashModule, caches, history
<1>3. ProcInv(p)'
  BY DEF IInv, TypeOK, ProcInv, LookingUp, Having, HashModule, Goes, Here, caches, history, rest
<1> QED BY <1>1, <1>2, <1>3, Alone
        DEF IInv, TypeOK, HashModule, Goes, caches, history, rest

LEMMA ReadCacheInv ==
  ASSUME IInv, NEW p \in Procs, ReadCache(p)
  PROVE  IInv'
<1> DEFINE file == cache[home[p]][key[p]]
<1>1. key[p] \in Keyed /\ home[p] \in Checkouts /\ file \in Files
  BY DEF IInv, TypeOK, ProcInv, LookingUp, ReadCache
<1>2. Answers(file, key[p]) => file.graph \in Versions /\ True(key[p], file.graph)
  BY <1>1, FileAnswers DEF IInv, EntriesTrue
<1>3. TypeOK'
  BY <1>2 DEF IInv, TypeOK, ReadCache, Goes, Places, caches, history, rest
<1>4. EntriesTrue'
  BY SameEntries DEF IInv, ReadCache, caches, history
<1>5. ProcInv(p)'
  <2>1. CASE Answers(file, key[p])
    BY <1>1, <1>2, <2>1 DEF IInv, TypeOK, ProcInv, True, LookingUp, Having, ReadCache, Goes, Here,
                            Answers, caches, history, rest
  <2>2. CASE ~Answers(file, key[p])
    BY <1>1, <2>2 DEF IInv, TypeOK, ProcInv, True, LookingUp, Having, ReadCache, Goes, Here,
                      caches, history, rest
  <2> QED BY <2>1, <2>2
<1> QED BY <1>3, <1>4, <1>5, Alone
        DEF IInv, TypeOK, ReadCache, Goes, caches, history, rest

LEMMA RemoveCachedInv ==
  ASSUME IInv, NEW p \in Procs, RemoveCached(p)
  PROVE  IInv'
<1>1. key[p] \in Keyed /\ home[p] \in Checkouts
  BY DEF IInv, TypeOK, ProcInv, LookingUp, RemoveCached, Goes
<1>2. TypeOK'
  BY <1>1 DEF IInv, TypeOK, RemoveCached, Goes, Places, Files, history, rest
<1>3. EntriesTrue'
  BY <1>1, CacheFileTrue DEF IInv, RemoveCached, history, Entries
<1>4. ProcInv(p)'
  BY <1>1 DEF IInv, TypeOK, ProcInv, LookingUp, Having, RemoveCached, Goes, Here, history, rest
<1> QED BY <1>2, <1>3, <1>4, Alone DEF IInv, TypeOK, RemoveCached, Goes, history, rest

LEMMA ReadStoreInv ==
  ASSUME IInv, NEW p \in Procs, ReadStore(p)
  PROVE  IInv'
<1> DEFINE file == store[key[p]]
<1>1. key[p] \in Keyed /\ file \in Files
  BY DEF IInv, TypeOK, ProcInv, LookingUp, ReadStore
<1>2. Answers(file, key[p]) => file.graph \in Versions /\ True(key[p], file.graph)
  BY <1>1, FileAnswers DEF IInv, EntriesTrue
<1>3. TypeOK'
  BY <1>2 DEF IInv, TypeOK, ReadStore, Goes, Places, caches, history, rest
<1>4. EntriesTrue'
  BY SameEntries DEF IInv, ReadStore, caches, history
<1>5. ProcInv(p)'
  <2>1. CASE Answers(file, key[p])
    BY <1>1, <1>2, <2>1 DEF IInv, TypeOK, ProcInv, True, LookingUp, Having, ReadStore, Goes, Here,
                            Answers, caches, history, rest
  <2>2. CASE ~Answers(file, key[p])
    BY <1>1, <2>2 DEF IInv, TypeOK, ProcInv, True, LookingUp, Having, ReadStore, Goes, Here,
                      caches, history, rest
  <2> QED BY <2>1, <2>2
<1> QED BY <1>3, <1>4, <1>5, Alone
        DEF IInv, TypeOK, ReadStore, Goes, caches, history, rest

LEMMA DiscardStoredInv ==
  ASSUME IInv, NEW p \in Procs, DiscardStored(p)
  PROVE  IInv'
<1>1. key[p] \in Keyed
  BY DEF IInv, ProcInv, LookingUp, DiscardStored, Goes
<1>2. TypeOK'
  BY <1>1 DEF IInv, TypeOK, DiscardStored, Goes, Places, Files, history, rest
<1>3. EntriesTrue'
  BY <1>1, StoreFileTrue DEF IInv, DiscardStored, history, Entries
<1>4. ProcInv(p)'
  BY <1>1 DEF IInv, TypeOK, ProcInv, LookingUp, Having, DiscardStored, Goes, Here, history, rest
<1> QED BY <1>2, <1>3, <1>4, Alone DEF IInv, TypeOK, DiscardStored, Goes, history, rest

(* What is computed is the graph of the key, or an edit came in between.    *)
LEMMA AnalyzeInv ==
  ASSUME IInv, NEW p \in Procs, Analyze(p)
  PROVE  IInv'
<1>1. Here(p) \in Versions /\ key[p] \in Keyed \cup {None}
  BY DEF IInv, TypeOK, Here
<1>2. tainted \subseteq tainted' /\ tainted' \subseteq Keyed
  BY <1>1 DEF IInv, TypeOK, Analyze
<1>3. TypeOK'
  BY <1>1, <1>2 DEF IInv, TypeOK, Analyze, Goes, Places, caches, rest
<1>4. EntriesTrue'
  BY <1>2, SameEntries DEF IInv, Analyze, caches
<1>5. ProcInv(p)'
  <2>1. key[p] # None => Here(p) = key[p] \/ key[p] \in tainted'
    <3>1. CASE raced[p]
      BY <3>1 DEF Analyze
    <3>2. CASE ~raced[p]
      BY <3>2 DEF IInv, ProcInv, Analyze, Goes
    <3> QED BY <3>1, <3>2
  <2> QED BY <1>1, <2>1 DEF IInv, TypeOK, ProcInv, True, LookingUp, Having, Analyze, Goes, caches, rest
<1> QED BY <1>2, <1>3, <1>4, <1>5, Alone DEF IInv, TypeOK, Analyze, Goes, caches, rest

(* What a process records is what it has.                                   *)
LEMMA RecordIsTrue ==
  ASSUME IInv, NEW p \in Procs, pc[p] \in {"copy", "save", "publish"}
  PROVE  /\ key[p] \in Keyed /\ home[p] \in Checkouts
         /\ Record(p) \in Entries
         /\ True(Record(p).key, Record(p).graph)
<1>1. key[p] \in Keyed /\ graph[p] \in Versions /\ True(key[p], graph[p])
  BY DEF IInv, ProcInv, LookingUp, Having
<1> QED BY <1>1 DEF IInv, TypeOK, Record, Entries

LEMMA WriteCacheInv ==
  ASSUME IInv, NEW p \in Procs, WriteCache(p)
  PROVE  IInv'
<1>1. /\ key[p] \in Keyed /\ home[p] \in Checkouts
      /\ Record(p) \in Entries /\ True(Record(p).key, Record(p).graph)
  BY RecordIsTrue DEF WriteCache, AfterCache, Goes
<1>2. TypeOK'
  BY <1>1 DEF IInv, TypeOK, WriteCache, AfterCache, Goes, Places, Files, history, rest
<1>3. EntriesTrue'
  BY <1>1, CacheFileTrue DEF IInv, WriteCache, history
<1>4. ProcInv(p)'
  BY <1>1 DEF IInv, TypeOK, ProcInv, True, LookingUp, Having, WriteCache, AfterCache, Goes, Here,
              history, rest
<1> QED BY <1>2, <1>3, <1>4, Alone DEF IInv, TypeOK, WriteCache, AfterCache, Goes, history, rest

LEMMA PublishInv ==
  ASSUME IInv, NEW p \in Procs, Publish(p)
  PROVE  IInv'
<1>1. /\ key[p] \in Keyed
      /\ Record(p) \in Entries /\ True(Record(p).key, Record(p).graph)
  BY RecordIsTrue DEF Publish, Goes
<1>2. TypeOK'
  BY <1>1 DEF IInv, TypeOK, Publish, Goes, Places, Files, history, rest
<1>3. EntriesTrue'
  BY <1>1, StoreFileTrue DEF IInv, Publish, history
<1>4. ProcInv(p)'
  BY <1>1 DEF IInv, TypeOK, ProcInv, True, LookingUp, Having, Publish, Goes, Here, history, rest
<1> QED BY <1>2, <1>3, <1>4, Alone DEF IInv, TypeOK, Publish, Goes, history, rest

LEMMA EndsInv ==
  ASSUME IInv, NEW p \in Procs, Ends(p), UNCHANGED <<home, source, caches, tainted>>, faults' \in Nat
  PROVE  IInv'
<1>1. TypeOK'
  BY DEF IInv, TypeOK, Ends, Places, caches
<1>2. EntriesTrue'
  BY SameEntries DEF IInv
<1>3. ProcInv(p)'
  BY DEF IInv, TypeOK, ProcInv, Ends, LookingUp, Having
<1> QED BY <1>1, <1>2, <1>3, Alone DEF IInv, TypeOK, Ends

-----------------------------------------------------------------------------

LEMMA EditInv ==
  ASSUME IInv, NEW c \in Checkouts, NEW v \in Versions, Edit(c, v)
  PROVE  IInv'
<1>1. TypeOK'
  BY DEF IInv, TypeOK, Edit, Fault, caches
<1>2. EntriesTrue'
  BY SameEntries DEF IInv, Edit
<1>3. ASSUME NEW p \in Procs PROVE ProcInv(p)'
  BY DEF IInv, TypeOK, ProcInv, True, Edit, Here
<1> QED BY <1>1, <1>2, <1>3 DEF IInv

LEMMA WriteFailsInv ==
  ASSUME IInv, NEW p \in Procs, WriteFails(p)
  PROVE  IInv'
<1>1. pc[p] \in {"copy", "save", "publish"} /\ key[p] \in Keyed
  BY DEF IInv, ProcInv, LookingUp, WriteFails, AfterCache, Goes
<1>2. TypeOK'
  BY <1>1 DEF IInv, TypeOK, WriteFails, Fault, AfterCache, Goes, Places, caches, history
<1>3. EntriesTrue'
  BY SameEntries DEF IInv, WriteFails, history
<1>4. ProcInv(p)'
  BY <1>1 DEF IInv, TypeOK, ProcInv, True, LookingUp, Having, WriteFails, AfterCache, Goes, Here,
              history
<1> QED BY <1>2, <1>3, <1>4, Alone DEF IInv, TypeOK, WriteFails, AfterCache, Goes, history

(* Whatever is put in the place of a file is as true as what was there.     *)
LEMMA DamageInv ==
  ASSUME IInv, Damage
  PROVE  IInv'
<1>1. PICK k \in Keyed, new \in Replacements :
        \/ store' = [store EXCEPT ![k] = new] /\ UNCHANGED cache
        \/ \E c \in Checkouts : cache' = [cache EXCEPT ![c][k] = new] /\ UNCHANGED store
  BY DEF Damage
<1>2. new \in Files /\ (new \in Entries => True(new.key, new.graph))
  BY DEF IInv, TypeOK, EntriesTrue, Replacements, Files, Entries
<1>3. EntriesTrue'
  BY <1>1, <1>2, CacheFileTrue, StoreFileTrue DEF IInv, Damage, history
<1>4. TypeOK'
  <2>1. store' \in [Keyed -> Files]
    BY <1>1, <1>2 DEF IInv, TypeOK
  <2>2. cache' \in [Checkouts -> [Keyed -> Files]]
    <3>1. cache \in [Checkouts -> [Keyed -> Files]] /\ new \in Files
      BY <1>2 DEF IInv, TypeOK
    <3>2. ASSUME NEW c \in Checkouts
          PROVE  [cache EXCEPT ![c][k] = new] \in [Checkouts -> [Keyed -> Files]]
      <4>1. [cache[c] EXCEPT ![k] = new] \in [Keyed -> Files]
        BY <3>1
      <4> QED BY <3>1, <4>1
    <3> QED BY <1>1, <3>1, <3>2
  <2>3. faults' \in Nat /\ UNCHANGED <<home, source, pc, key, graph, raced, tainted>>
    BY DEF IInv, TypeOK, Damage, Fault, history
  <2> QED BY <2>1, <2>2, <2>3 DEF IInv, TypeOK
<1>5. ASSUME NEW p \in Procs PROVE ProcInv(p)'
  BY Apart DEF IInv, Damage, history
<1> QED BY <1>3, <1>4, <1>5 DEF IInv

LEMMA NextInv == IInv /\ [Next]_vars => IInv'
<1> SUFFICES ASSUME IInv, [Next]_vars PROVE IInv'
  OBVIOUS
<1>1. ASSUME NEW p \in Procs, Step(p) PROVE IInv'
  <2>1. CASE Return(p)
    BY <2>1, EndsInv DEF Return, rest, IInv, TypeOK, caches
  <2> QED BY <1>1, <2>1, HashModuleInv, ReadCacheInv, RemoveCachedInv, ReadStoreInv, DiscardStoredInv,
             AnalyzeInv, WriteCacheInv, PublishInv DEF Step, LooksUp, Computes
<1>2. ASSUME NEW p \in Procs, Dies(p) PROVE IInv'
  BY <1>2, EndsInv DEF Dies, Fault, IInv, TypeOK, caches
<1>3. CASE UNCHANGED vars
  <2>1. TypeOK' /\ EntriesTrue'
    BY <1>3, SameEntries DEF IInv, TypeOK, vars, caches
  <2>2. ASSUME NEW p \in Procs PROVE ProcInv(p)'
    BY <1>3, Apart DEF IInv, vars
  <2> QED BY <2>1, <2>2 DEF IInv
<1> QED BY <1>1, <1>2, <1>3, WriteFailsInv, EditInv, DamageInv DEF Next

THEOREM Invariance == Spec => []IInv
BY InitInv, NextInv, PTL DEF Spec

-----------------------------------------------------------------------------

(* Each variable keeps its type, whatever happens to the processes and files. *)
THEOREM TypesKept == Spec => []TypeOK
<1>1. IInv => TypeOK
  BY DEF IInv
<1> QED BY <1>1, Invariance, PTL

(* The graph a run goes on with is that of the sources it found, or the module *)
(* was edited in the course of an analysis that was recorded under that key. *)
THEOREM AnswersAreTrue == Spec => []AnswersItsSources
<1>1. IInv => AnswersItsSources
  BY DEF IInv, ProcInv, Having, True, AnswersItsSources
<1> QED BY <1>1, Invariance, PTL
=============================================================================
