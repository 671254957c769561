------------------------------ MODULE Emission ------------------------------
(***************************************************************************)
(* The target phase of a generation: emit in pipeline/mod.rs, with the memo *)
(* of pipeline/emission.rs and run_ahead of parallel.rs.  Every built-in    *)
(* target and the graph artifact are rendered on threads of their own while *)
(* the caller places their files in the order of the plan, running the     *)
(* custom targets in the worker where the plan has them; or else all of it *)
(* is read back from the record of an earlier run.  Several processes run   *)
(* in one project and share the record, while gofmt and the files of the   *)
(* project change.                                                         *)
(***************************************************************************)
EXTENDS Naturals, Sequences

CONSTANTS
  Procs, Graphs,
  Targets, Custom,  \* the targets, and those of them that the worker runs
  Reads,            \* what each reads besides the graph: nothing, gofmt or the tree
  Plans,            \* sequences of targets; adjacent custom targets are one here
  Paths, GraphPath,
  Writes,           \* the paths of each target
  Claims,           \* what a custom target writes that does not keep to its own paths
  Versions,         \* of gofmt and of the tree
  Calls,            \* what each process may be asked for: plans and graphs
  Fates,            \* how rendering may go: a set of functions on Jobs \X Graphs
  MaxFaults,        \* bound on changes, damages, failed writes and deaths
  None, Junk

Jobs == Targets \cup {"graph", "posts"}
Ways == {"ok", "fail", "panic", "drop", "claim"}

ASSUME EmissionAssumption ==
  /\ Custom \subseteq Targets
  /\ Reads \in [Targets -> {"nothing", "gofmt", "tree"}]
  /\ \A t \in Custom : Reads[t] = "nothing"
  /\ Plans \subseteq Seq(Targets)
  /\ GraphPath \in Paths /\ Claims \subseteq Paths
  /\ Writes \in [Targets -> SUBSET Paths]
  /\ Calls \subseteq Procs \X Plans \X Graphs
  /\ Fates \subseteq [Jobs \X Graphs -> Ways]
  /\ \A f \in Fates, x \in Jobs \X Graphs :
       f[x] \in (IF x[1] = "posts" THEN {"ok", "fail", "drop"}
                ELSE IF x[1] \in Custom THEN {"ok", "fail", "drop", "claim"}
                ELSE {"ok", "fail", "panic"})
  /\ MaxFaults \in Nat

VARIABLES
  fate,    \* how the rendering of each job of each graph goes: it is a function
  env,     \* gofmt and the files of the project, as they are at present
  record,  \* .gnr8/cache/emission.memo
  run,     \* of each process: the state of its run
  task,    \* of each process: its threads, by position in the plan; 0 is the graph artifact
  moved,   \* history: gofmt or the tree changed in the course of the run
  tainted, \* history: keys of records made while gofmt changed
  faults   \* (bound) how much of that there was so far

vars == <<fate, env, record, run, task, moved, tainted, faults>>

Positions(plan) == {i \in DOMAIN plan : plan[i] \notin Custom}
Idle == [pc |-> "idle", plan |-> <<>>, graph |-> None, key |-> None, recorded |-> FALSE,
         groups |-> <<>>, at |-> 0, files |-> {}, result |-> None]

Init ==
  /\ fate \in Fates
  /\ env \in Versions
  /\ record = None
  /\ run = [p \in Procs |-> Idle]
  /\ task = [p \in Procs |-> <<>>]
  /\ moved = [p \in Procs |-> FALSE]
  /\ tainted = {} /\ faults = 0

-----------------------------------------------------------------------------
(* What a target makes, and where it goes.                                  *)

Text(t, g, e) == <<t, g, IF Reads[t] = "nothing" THEN None ELSE e>>
Group(t, g, e) == [path : Writes[t], text : {Text(t, g, e)}]
Files == [path : Paths, text : (Targets \cup {"graph"}) \X Graphs \X (Versions \cup {None})]
GraphFile(g) == [path |-> GraphPath, text |-> <<"graph", g, None>>]

PathsOf(files) == {file.path : file \in files}
Ok(files) == [kind |-> "ok", files |-> files]
Err(at, why) == [kind |-> "err", at |-> at, why |-> why]
Unwound == [kind |-> "unwound"]

(* adopt_produced: the files so far with those of the target at position i.  *)
Adopted(files, i, way, group) ==
  IF way # "ok" THEN Err(i, way)
  ELSE IF PathsOf(files) \cap PathsOf(group) # {} THEN Err(i, "collision")
  ELSE Ok(files \cup group)

(* What the worker returns: files may be written over, and none may be missing. *)
Returned(files, i, way, t, g, e) ==
  LET new == [path : IF way = "claim" THEN Claims ELSE Writes[t], text : {Text(t, g, e)}] IN
  IF way \in {"ok", "claim"}
  THEN Ok({file \in files : file.path \notin PathsOf(new)} \cup new)
  ELSE Err(i, way)

(* run: the custom and built-in posts come first, the graph artifact last.  *)
Concluded(files, posts, graph, g) ==
  IF posts # "ok" THEN Err("posts", posts)
  ELSE IF graph # "ok" THEN Err("graph", graph)
  ELSE IF GraphPath \in PathsOf(files) THEN Err("graph", "collision")
  ELSE Ok(files \cup {GraphFile(g)})

-----------------------------------------------------------------------------
(* The steps of a run.                                                      *)

At(p, pc) == run[p].pc = pc

Declared(plan) == {<<i, plan[i]>> : i \in Positions(plan)}
ReadBy(plan) == {Reads[plan[i]] : i \in Positions(plan)}

(* Mutant of Key: targets that read the tree have a key too.                *)
KeyAnyway(plan, g) ==
  [graph |-> g, targets |-> Declared(plan),
   gofmt |-> IF "gofmt" \in ReadBy(plan) THEN env ELSE None]

(* emission::key; none when a target reads the tree.                        *)
Key(plan, g) ==
  IF "tree" \in ReadBy(plan) THEN None
  ELSE [graph |-> g, targets |-> Declared(plan),
        gofmt |-> IF "gofmt" \in ReadBy(plan) THEN env ELSE None]

(* The graph is frozen by now: a worker that fails there ends the run, as in *)
(* Dies.                                                                   *)
Begin(p, plan, g) ==
  /\ At(p, "idle") /\ <<p, plan, g>> \in Calls
  /\ run' = [run EXCEPT ![p] = [Idle EXCEPT !.pc = "load", !.plan = plan, !.graph = g,
                                           !.key = Key(plan, g)]]
  /\ UNCHANGED <<fate, env, record, task, moved, tainted, faults>>

(* emission::load *)
Answers(p) ==
  /\ run[p].key # None /\ record \notin {None, Junk}
  /\ record.key = run[p].key
  /\ Len(record.groups) = Len(SelectSeq(run[p].plan, LAMBDA t : t \notin Custom))

Thread(way) == [way |-> way, group |-> {}]

(* Either all groups are read back, or all threads are started at once.     *)
Load(p) ==
  /\ At(p, "load")
  /\ \/ /\ Answers(p)
        /\ run' = [run EXCEPT ![p].pc = "place", ![p].recorded = TRUE, ![p].groups = record.groups]
        /\ UNCHANGED task
     \/ /\ ~Answers(p)
        /\ run' = [run EXCEPT ![p].pc = "place"]
        /\ task' = [task EXCEPT ![p] = [i \in {0} \cup Positions(run[p].plan) |-> Thread("running")]]
  /\ UNCHANGED <<fate, env, record, moved, tainted, faults>>

Way(p, job) == fate[<<job, run[p].graph>>]
Running(p, i) == i \in DOMAIN task[p] /\ task[p][i].way = "running"
Finished(p, i) == i \in DOMAIN task[p] /\ task[p][i].way \notin {"running", "joined"}

JobAt(p, i) == IF i = 0 THEN "graph" ELSE run[p].plan[i]
Rendered(p, i) ==
  [way   |-> Way(p, JobAt(p, i)),
   group |-> IF i = 0 THEN {GraphFile(run[p].graph)} ELSE Group(run[p].plan[i], run[p].graph, env)]

(* A thread ends, having read on its way what it reads besides the graph.   *)
Render(p, i) ==
  /\ Running(p, i)
  /\ task' = [task EXCEPT ![p][i] = Rendered(p, i)]
  /\ UNCHANGED <<fate, env, record, run, moved, tainted, faults>>

(* The caller goes on with what a target came to, or leaves the scope.      *)
Continue(p, outcome, groups) ==
  run' = IF outcome.kind = "ok"
         THEN [run EXCEPT ![p].at = @ + 1, ![p].files = outcome.files, ![p].groups = groups]
         ELSE [run EXCEPT ![p].pc = "leaving", ![p].result = outcome]

Turn(p) == run[p].at + 1
Placing(p) == At(p, "place") /\ Turn(p) <= Len(run[p].plan)

(* Started::next, Recorder::add_group and adopt_produced.                   *)
PlaceRendered(p) ==
  LET i == Turn(p) IN
  /\ Placing(p) /\ ~run[p].recorded /\ Finished(p, i)
  /\ task' = [task EXCEPT ![p][i] = Thread("joined")]
  /\ Continue(p, Adopted(run[p].files, i, task[p][i].way, task[p][i].group),
              Append(run[p].groups, task[p][i].group))
  /\ UNCHANGED <<fate, env, record, moved, tainted, faults>>

PlaceRecorded(p) ==
  LET i == Turn(p) IN
  /\ Placing(p) /\ run[p].recorded /\ run[p].plan[i] \notin Custom
  /\ Continue(p, Adopted(run[p].files, i, "ok", Head(run[p].groups)), Tail(run[p].groups))
  /\ UNCHANGED <<fate, env, record, task, moved, tainted, faults>>

RunCustom(p) ==
  LET i == Turn(p)
      t == run[p].plan[i] IN
  /\ Placing(p) /\ t \in Custom
  /\ Continue(p, Returned(run[p].files, i, Way(p, t), t, run[p].graph, env), run[p].groups)
  /\ UNCHANGED <<fate, env, record, task, moved, tainted, faults>>

(* The scope of the threads waits for all of them, and unwinds if one of them *)
(* panicked that nobody joined.                                            *)
Panicked(p) == \E i \in DOMAIN task[p] : Finished(p, i) /\ task[p][i].way = "panic"

LeaveScope(p) ==
  /\ At(p, "leaving")
  /\ ~\E i \in DOMAIN task[p] : Running(p, i)
  /\ run' = [run EXCEPT ![p].pc = "done", ![p].result = IF Panicked(p) THEN Unwound ELSE @]
  /\ UNCHANGED <<fate, env, record, task, moved, tainted, faults>>

(* Mutant of FinishRendered: a run without a key is recorded too.           *)
FinishAndRecord(p) ==
  /\ At(p, "place") /\ run[p].at = Len(run[p].plan) /\ ~run[p].recorded /\ Finished(p, 0)
  /\ run' = [run EXCEPT ![p].result = task[p][0].way,
                        ![p].pc = IF task[p][0].way = "ok" THEN "save" ELSE "posts"]
  /\ task' = [task EXCEPT ![p][0] = Thread("joined")]
  /\ UNCHANGED <<fate, env, record, moved, tainted, faults>>

(* Emitted::finish: the graph artifact is waited for; its failure waits for  *)
(* the posts, and nothing is recorded then.                                *)
FinishRendered(p) ==
  /\ At(p, "place") /\ run[p].at = Len(run[p].plan) /\ ~run[p].recorded /\ Finished(p, 0)
  /\ run' = [run EXCEPT ![p].result = task[p][0].way,
                        ![p].pc = IF run[p].key # None /\ task[p][0].way = "ok" THEN "save"
                                                                               ELSE "posts"]
  /\ task' = [task EXCEPT ![p][0] = Thread("joined")]
  /\ UNCHANGED <<fate, env, record, moved, tainted, faults>>

FinishRecorded(p) ==
  /\ At(p, "place") /\ run[p].at = Len(run[p].plan) /\ run[p].recorded
  /\ run' = [run EXCEPT ![p].result = "ok", ![p].pc = "posts"]
  /\ UNCHANGED <<fate, env, record, task, moved, tainted, faults>>

(* emission::save: the record is replaced by a rename.                      *)
Save(p) ==
  /\ At(p, "save")
  /\ record' = [key |-> run[p].key, groups |-> run[p].groups]
  /\ tainted' = IF moved[p] THEN tainted \cup {run[p].key} ELSE tainted
  /\ run' = [run EXCEPT ![p].pc = "posts"]
  /\ UNCHANGED <<fate, env, task, moved, faults>>

(* The posts, which see the files of the targets, and what the run comes to. *)
RunPosts(p) ==
  /\ At(p, "posts")
  /\ run' = [run EXCEPT ![p].pc = "done",
                        ![p].result = Concluded(run[p].files, Way(p, "posts"), @, run[p].graph)]
  /\ UNCHANGED <<fate, env, record, task, moved, tainted, faults>>

Reset(p) ==
  /\ run' = [run EXCEPT ![p] = Idle]
  /\ task' = [task EXCEPT ![p] = <<>>]
  /\ moved' = [moved EXCEPT ![p] = FALSE]

Return(p) ==
  /\ At(p, "done") /\ Reset(p)
  /\ UNCHANGED <<fate, env, record, tainted, faults>>

-----------------------------------------------------------------------------
(* What happens around them, at most MaxFaults times.                       *)

Fault == faults < MaxFaults /\ faults' = faults + 1

Change(v) ==
  /\ Fault /\ env # v
  /\ env' = v
  /\ moved' = [p \in Procs |-> moved[p] \/ ~At(p, "idle")]
  /\ UNCHANGED <<fate, record, run, task, tainted>>

(* The record is lost, or damaged.                                          *)
Damage(new) ==
  /\ Fault /\ record # new
  /\ record' = new
  /\ UNCHANGED <<fate, env, run, task, moved, tainted>>

SaveFails(p) ==
  /\ Fault /\ At(p, "save")
  /\ run' = [run EXCEPT ![p].pc = "posts"]
  /\ UNCHANGED <<fate, env, record, task, moved, tainted>>

Dies(p) ==
  /\ Fault /\ ~At(p, "idle") /\ Reset(p)
  /\ UNCHANGED <<fate, env, record, tainted>>

Places(p) == PlaceRendered(p) \/ PlaceRecorded(p) \/ RunCustom(p)
Finishes(p) == LeaveScope(p) \/ FinishRendered(p) \/ FinishRecorded(p)
Proceeds(p) == Load(p) \/ Places(p) \/ Finishes(p) \/ Save(p) \/ RunPosts(p) \/ Return(p)

Next ==
  \/ \E p \in Procs : \/ Proceeds(p) \/ SaveFails(p) \/ Dies(p)
                      \/ \E plan \in Plans, g \in Graphs : Begin(p, plan, g)
                      \/ \E i \in DOMAIN task[p] : Render(p, i)
  \/ \E v \in Versions : Change(v)
  \/ \E new \in {None, Junk} : Damage(new)

Spec == Init /\ [][Next]_vars

-----------------------------------------------------------------------------
(* The run that renders and places one target after another, each when its  *)
(* turn comes: what it came to by each position of the plan, where the jobs *)
(* go as ways says and read e; the graph artifact comes in the end.         *)
Placed(plan, g, ways, e) ==
  LET f[n \in 0 .. Len(plan)] ==
        IF n = 0 THEN Ok({})
        ELSE IF f[n - 1].kind # "ok" THEN f[n - 1]
        ELSE LET t == plan[n] IN
             IF t \in Custom THEN Returned(f[n - 1].files, n, ways[<<t, g>>], t, g, e)
             ELSE Adopted(f[n - 1].files, n, ways[<<t, g>>], Group(t, g, e))
  IN f

Sequential(plan, g) ==
  LET placed == Placed(plan, g, fate, env)[Len(plan)] IN
  IF placed.kind = "ok" THEN Concluded(placed.files, fate[<<"posts", g>>], fate[<<"graph", g>>], g)
  ELSE placed

Steps == {"idle", "load", "place", "leaving", "save", "posts", "done"}
Keys == [graph : Graphs, targets : {Declared(plan) : plan \in Plans}, gofmt : Versions \cup {None}]

TypeOK ==
  /\ fate \in Fates
  /\ env \in Versions
  /\ record \notin {None, Junk} => record.key \in Keys /\ record.groups \in Seq(SUBSET Files)
  /\ \A p \in Procs :
       /\ run[p].pc \in Steps
       /\ run[p].plan \in Plans \cup {<<>>} /\ run[p].graph \in Graphs \cup {None}
       /\ run[p].key \in Keys \cup {None}
       /\ run[p].at \in 0 .. Len(run[p].plan)
       /\ run[p].files \subseteq Files /\ run[p].groups \in Seq(SUBSET Files)
       /\ DOMAIN task[p] \subseteq {0} \cup Positions(run[p].plan)
  /\ moved \in [Procs -> BOOLEAN]
  /\ tainted \subseteq Keys /\ faults \in 0 .. MaxFaults

(* A run comes to what the sequential one comes to, the same files or the   *)
(* first failure in the order of the plan, in whatever order its threads    *)
(* end, whether or not its groups are read back from the record, and       *)
(* whoever made that: unless gofmt or the tree changes in the course of the *)
(* run, or did in that of the run that made the record.  A failing run may *)
(* also unwind, where a target it did not come to panics (emit, run_ahead). *)
SameAsSequential ==
  \A p \in Procs :
    At(p, "done") /\ ~moved[p] /\ run[p].key \notin tainted =>
      LET expected == Sequential(run[p].plan, run[p].graph) IN
      \/ run[p].result = expected
      \/ /\ run[p].result = Unwound /\ expected.kind = "err"
         /\ \E i \in DOMAIN task[p] : Way(p, JobAt(p, i)) = "panic" /\ i # expected.at
=============================================================================
