---------------------------- MODULE WorkerSession ----------------------------
(* A session of the host with the worker process that runs a project's own stages: the host side,    *)
(* crates/gnr8-core/src/worker/mod.rs, the worker side, crates/gnr8-sdk/src/worker/mod.rs, the two   *)
(* pipes between them and the watchdog thread.                                                       *)
EXTENDS HeldVectors

CONSTANTS Elements, Graphs,   \* of the graph, and the vectors of them a stage can produce
          Artifacts,   \* generated files, records with the path in `id`
          Listing,     \* the artifacts of a set, as they are sent: in the order of their paths
          MaxCalls     \* bound: calls of one session

SameIds(S) == \E a, b \in S : a.id = b.id /\ a # b
ASSUME WorkerAssumption ==
    /\ Graphs \subseteq Seq(Elements)
    /\ \A S \in SUBSET Artifacts :
          /\ Listing[S] \in Seq(S)
          /\ S = {Listing[S][i] : i \in DOMAIN Listing[S]}
    /\ MaxCalls \in Nat

VARIABLES hpc, asked, phase, calls, outcome,    \* the host: its place, the call it waits for
          hostGraph, hostArts,                  \* `held_graph` and `held_artifacts` of the host
          dog, done, fired,                     \* the watchdog thread and what it shares
          closed, toWorker, toHost,             \* the pipes
          wpc, task, opened, frozen,            \* the worker
          workerGraph, workerArts,              \* `Held` of the worker
          holder,                               \* a process that a stage started has the pipes open
          killed, faulted, quirks               \* (history)

host == <<hpc, asked, phase, calls, outcome>>
heldByHost == <<hostGraph, hostArts>>
watchdog == <<dog, done, fired>>
worker == <<wpc, task, opened, frozen>>
heldByWorker == <<workerGraph, workerArts>>
history == <<killed, faulted, quirks>>
vars == <<host, heldByHost, watchdog, closed, toWorker, toHost, worker, heldByWorker, holder, history>>

GraphCalls == {"LoadSource", "ApplyTransforms"}
ArtifactCalls == {"GenerateTargets", "RunPosts"}
(* Nobody can read the host's requests, or write an answer to it, any more. *)
Gone == wpc = "dead" /\ ~holder

ElementsOf(vector) == {vector[i] : i \in DOMAIN vector}
(* `merge_artifact_changes`, and what `create`, `overlay` and `rewrite` do to a set of artifacts. *)
Overwrite(files, changes) ==
    {a \in files : \A c \in changes : c.id # a.id} \cup changes

-----------------------------------------------------------------------------
(* `start_binary`. A budget of 0 seconds disables the watchdog. *)
Init == /\ hpc = "start" /\ asked = "none" /\ phase = "source" /\ calls = 0 /\ outcome = "none"
        /\ hostGraph = <<>> /\ hostArts = {}
        /\ dog \in {"waiting", "off"} /\ done = FALSE /\ fired = FALSE
        /\ closed = FALSE /\ toWorker = <<>> /\ toHost = <<>>
        /\ wpc = "read" /\ task = "none" /\ opened = FALSE /\ frozen = FALSE
        /\ workerGraph = <<>> /\ workerArts = {}
        /\ holder = FALSE
        /\ killed = FALSE /\ faulted = FALSE /\ quirks = {}

(* A malformed GNR8_WORKER_TIMEOUT_SECS: the session is given up before it has a watchdog, and the    *)
(* worker is left to find its input closed.                                                          *)
RefuseBudget ==
    /\ hpc = "start" /\ dog = "off"
    /\ hpc' = "ended" /\ outcome' = "config" /\ closed' = TRUE
    /\ UNCHANGED <<asked, phase, calls, heldByHost, watchdog, toWorker, toHost, worker, heldByWorker,
                   holder, history>>

(* Any error drops the session, which finishes it. *)
Ends(how) == hpc' = "closing" /\ outcome' = how
(* `transport_error` *)
Breaks(how) == Ends(IF fired THEN "timeout" ELSE how)

(* Mutant of Send: the answer is not waited for. *)
SendAndGo(call, message) ==
    /\ asked' = call
    /\ toWorker' = Append(toWorker, message)
    /\ hpc' = "ready"
    /\ UNCHANGED <<outcome, watchdog, closed, toHost, worker, heldByWorker, holder, history>>

(* `send`: a closed pipe, or a patch larger than a frame may be, is an error. *)
Send(call, message) ==
    /\ asked' = call
    /\ \/ /\ ~Gone
          /\ toWorker' = Append(toWorker, message)
          /\ hpc' = "await"
          /\ UNCHANGED outcome
       \/ /\ Gone \/ call \in {"ApplyTransforms", "FreezeGraph"} \cup ArtifactCalls
          /\ Breaks(IF Gone THEN "connection" ELSE "oversize")
          /\ UNCHANGED toWorker
    /\ UNCHANGED <<watchdog, closed, toHost, worker, heldByWorker, holder, history>>

(* `handshake` *)
SendHello ==
    /\ hpc = "start"
    /\ Send("Hello", [kind |-> "Hello"])
    /\ UNCHANGED <<phase, calls, heldByHost>>

Calls(from, to) ==
    /\ hpc = "ready" /\ calls < MaxCalls
    /\ phase \in from /\ phase' = to
    /\ calls' = calls + 1

LoadSource ==
    /\ Calls({"source"}, "transforms")
    /\ Send("LoadSource", [kind |-> "LoadSource"])
    /\ UNCHANGED heldByHost

(* The graph comes from the worker or from built-in stages that ran since. *)
ApplyTransforms ==
    /\ Calls({"source", "transforms"}, "transforms")
    /\ \E graph \in Graphs :
          /\ hostGraph' = graph
          /\ Send("ApplyTransforms", [kind |-> "ApplyTransforms", whole |-> graph,
                                      patch |-> Of(graph, hostGraph)])
    /\ UNCHANGED hostArts

(* `freeze_graph`, before the first custom target *)
FreezeGraph ==
    /\ Calls({"source", "transforms"}, "targets")
    /\ \E graph \in Graphs :
          /\ hostGraph' = <<>>
          /\ Send("FreezeGraph", [kind |-> "FreezeGraph", whole |-> graph,
                                  patch |-> Of(graph, hostGraph)])
    /\ UNCHANGED hostArts

(* `generate_targets` and `run_posts`. Built-in stages add and change artifacts but remove none. *)
SendArtifacts(call) ==
    \E changes \in SUBSET Artifacts :
       /\ ~SameIds(changes)
       /\ hostArts' = Overwrite(hostArts, changes)
       /\ Send(call, [kind |-> call, whole |-> hostArts',
                      patch |-> Of(Listing[hostArts'], Listing[hostArts])])
       /\ UNCHANGED hostGraph
GenerateTargets == Calls({"targets"}, "targets") /\ SendArtifacts("GenerateTargets")
RunPosts == Calls({"source", "transforms", "targets", "posts"}, "posts") /\ SendArtifacts("RunPosts")

(* `shutdown` *)
SendShutdown ==
    /\ hpc = "ready"
    /\ Send("Shutdown", [kind |-> "Shutdown"])
    /\ UNCHANGED <<phase, calls, heldByHost>>

(* A stage of the host fails: the pipeline returns, and the session is dropped. *)
Abandon ==
    /\ hpc = "ready"
    /\ Ends("abandoned")
    /\ UNCHANGED <<asked, phase, calls, heldByHost, watchdog, closed, toWorker, toHost, worker,
                   heldByWorker, holder, history>>

-----------------------------------------------------------------------------
(* What the host makes of the next frame *)

Accepts(message) ==
    IF asked = "Hello" THEN message.kind = "Ready"
    ELSE IF asked \in GraphCalls THEN message.kind = "Graph" /\ CanTake(message.patch, hostGraph)
    ELSE IF asked \in ArtifactCalls THEN message.kind = "ArtifactChanges"
    ELSE message.kind = "Done"

(* `expect_graph`, `expect_artifacts` *)
Adopt(message) ==
    /\ hostGraph' = IF asked \in GraphCalls THEN Resolve(message.patch, hostGraph) ELSE hostGraph
    /\ hostArts' = IF asked \in ArtifactCalls THEN Overwrite(hostArts, message.changed) ELSE hostArts

(* Mutant of Receive: a frame that is none of the protocol's is skipped. *)
SkipGarbage ==
    /\ hpc = "await" /\ toHost # <<>>
    /\ toHost' = Tail(toHost)
    /\ LET message == Head(toHost) IN
          \/ /\ ~Accepts(message)
             /\ IF message.kind = "garbage" THEN UNCHANGED <<hpc, outcome>> ELSE Ends("failed")
             /\ UNCHANGED heldByHost
          \/ /\ Accepts(message)
             /\ Adopt(message)
             /\ IF asked = "Shutdown" THEN Ends("ok") ELSE hpc' = "ready" /\ UNCHANGED outcome
    /\ UNCHANGED <<asked, phase, calls, watchdog, closed, toWorker, worker, heldByWorker, holder,
                   history>>

Receive ==
    /\ hpc = "await" /\ toHost # <<>>
    /\ toHost' = Tail(toHost)
    /\ LET message == Head(toHost) IN
          \/ /\ message.kind = "garbage"
             /\ Breaks("connection")
             /\ UNCHANGED heldByHost
          \/ /\ message.kind = "Failed"
             /\ Ends("failed")
             /\ UNCHANGED heldByHost
          \/ /\ message.kind \notin {"garbage", "Failed"} /\ ~Accepts(message)
             /\ Ends("protocol")
             /\ UNCHANGED heldByHost
          \/ /\ message.kind \notin {"garbage", "Failed"} /\ Accepts(message)
             /\ Adopt(message)
             /\ IF asked = "Shutdown" THEN Ends("ok") ELSE hpc' = "ready" /\ UNCHANGED outcome
    /\ UNCHANGED <<asked, phase, calls, watchdog, closed, toWorker, worker, heldByWorker, holder,
                   history>>

(* The pipe is empty and nobody is left to write to it. *)
ReceiveEof ==
    /\ hpc = "await" /\ toHost = <<>> /\ Gone
    /\ Breaks("connection")
    /\ UNCHANGED <<asked, phase, calls, heldByHost, watchdog, closed, toWorker, toHost, worker,
                   heldByWorker, holder, history>>

-----------------------------------------------------------------------------
(* `finish` *)

Finishing(from, to) ==
    /\ hpc = from /\ hpc' = to
    /\ UNCHANGED <<asked, phase, calls, outcome, heldByHost, dog, fired, toWorker, worker,
                   heldByWorker, holder, history>>

(* Mutant of ClosePipes: the worker's input stays open. *)
KeepPipes == Finishing("closing", "stopping") /\ UNCHANGED <<closed, done, toHost>>

ClosePipes == Finishing("closing", "stopping") /\ closed' = TRUE /\ toHost' = <<>> /\ UNCHANGED done
StopWatchdog == Finishing("stopping", "joining") /\ done' = TRUE /\ UNCHANGED <<closed, toHost>>
JoinWatchdog ==
    dog \in {"gone", "off"} /\ Finishing("joining", "reaping") /\ UNCHANGED <<closed, done, toHost>>
(* `Child::wait`, with the child locked *)
Reap == wpc = "dead" /\ Finishing("reaping", "draining") /\ UNCHANGED <<closed, done, toHost>>
(* The thread that drains stderr ends when nobody is left to write to it. *)
Drain == Gone /\ Finishing("draining", "ended") /\ UNCHANGED <<closed, done, toHost>>

-----------------------------------------------------------------------------
(* The watchdog *)

Watches(from, to) ==
    /\ dog = from /\ dog' = to
    /\ UNCHANGED <<host, heldByHost, done, closed, toWorker, toHost, task, opened, frozen,
                   heldByWorker, holder, faulted, quirks>>

StandDown == done /\ Watches("waiting", "gone") /\ UNCHANGED <<fired, wpc, killed>>
Expire == ~done /\ Watches("waiting", "expired") /\ UNCHANGED <<fired, wpc, killed>>
(* Mutant of Fire: it is not recorded. *)
FireSilently == Watches("expired", "killing") /\ UNCHANGED <<fired, wpc, killed>>

Fire == Watches("expired", "killing") /\ fired' = TRUE /\ UNCHANGED <<wpc, killed>>
(* The lock on the child is free: only `Child::wait` holds it for long. *)
Kill ==
    /\ hpc # "reaping"
    /\ Watches("killing", "gone")
    /\ wpc' = "dead" /\ killed' = (killed \/ wpc # "dead")
    /\ UNCHANGED fired

-----------------------------------------------------------------------------
(* The worker: `serve` and `dispatch` *)

Works == UNCHANGED <<host, heldByHost, watchdog, closed, killed>>

(* What is written after the host closed its end is lost; the worker ends on the error. *)
Answer(message) == toHost' = IF closed THEN toHost ELSE Append(toHost, message)
AnswerAndRead(message) == Answer(message) /\ wpc' = IF closed THEN "exiting" ELSE "read"

(* The handshake: versions that differ are refused. *)
Open(message) ==
    /\ ~opened /\ message.kind = "Hello"
    /\ \/ /\ opened' = TRUE
          /\ AnswerAndRead([kind |-> "Ready"])
          /\ UNCHANGED faulted
       \/ /\ Answer([kind |-> "Failed"])
          /\ wpc' = "exiting" /\ faulted' = TRUE
          /\ UNCHANGED opened
    /\ UNCHANGED <<task, frozen, heldByWorker>>

(* An error of the protocol ends the session. It is reported as a failure, like that of a stage; the  *)
(* kind of its own tells the two apart.                                                              *)
Disagree ==
    /\ Answer([kind |-> "Disagreement"])
    /\ wpc' = "exiting"
    /\ UNCHANGED <<task, opened, frozen, heldByWorker, faulted>>

Runs(call) == task' = call /\ wpc' = "run" /\ UNCHANGED <<toHost, opened, faulted>>

Serve(message) ==
    \/ /\ message.kind = "LoadSource"
       /\ Runs("LoadSource")
       /\ UNCHANGED <<frozen, heldByWorker>>
    \/ /\ message.kind = "ApplyTransforms" /\ CanTake(message.patch, workerGraph)
       /\ workerGraph' = Resolve(message.patch, workerGraph)
       /\ Runs("ApplyTransforms")
       /\ UNCHANGED <<frozen, workerArts>>
    \/ /\ message.kind = "FreezeGraph" /\ CanTake(message.patch, workerGraph)
       /\ workerGraph' = <<>> /\ frozen' = TRUE
       /\ AnswerAndRead([kind |-> "Done"])
       /\ UNCHANGED <<task, opened, workerArts, faulted>>
    \/ /\ \/ message.kind = "RunPosts"
          \/ message.kind = "GenerateTargets" /\ frozen
       /\ CanTake(message.patch, Listing[workerArts])
       /\ workerArts' = ElementsOf(Resolve(message.patch, Listing[workerArts]))
       /\ Runs(message.kind)
       /\ UNCHANGED <<frozen, workerGraph>>
    \/ /\ message.kind = "Shutdown"
       /\ Answer([kind |-> "Done"])
       /\ wpc' = "exiting"
       /\ UNCHANGED <<task, opened, frozen, heldByWorker, faulted>>

Unserved(message) ==
    \/ message.kind = "Hello"
    \/ message.kind \in {"ApplyTransforms", "FreezeGraph"} /\ ~CanTake(message.patch, workerGraph)
    \/ message.kind \in ArtifactCalls /\ ~CanTake(message.patch, Listing[workerArts])
    \/ message.kind = "GenerateTargets" /\ ~frozen

WorkerReads ==
    /\ wpc = "read" /\ toWorker # <<>>
    /\ toWorker' = Tail(toWorker)
    /\ LET message == Head(toWorker) IN
          \/ Open(message)
          \/ opened /\ Serve(message)
          \/ opened /\ Unserved(message) /\ Disagree
    /\ UNCHANGED <<holder, quirks>> /\ Works

WorkerEof ==
    /\ wpc = "read" /\ toWorker = <<>> /\ closed
    /\ wpc' = "exiting"
    /\ UNCHANGED <<toWorker, toHost, task, opened, frozen, heldByWorker, holder, faulted, quirks>>
    /\ Works

(* Stages of the user *)
Stage == wpc = "run" /\ UNCHANGED <<toWorker, opened, frozen>> /\ Works

(* Mutant of GraphDone: the reply is not recorded. *)
GraphUnrecorded ==
    /\ Stage /\ task \in GraphCalls
    /\ \E graph \in Graphs :
          AnswerAndRead([kind |-> "Graph", whole |-> graph, patch |-> Of(graph, workerGraph)])
    /\ task' = "none"
    /\ UNCHANGED <<heldByWorker, holder, faulted, quirks>>

GraphDone ==
    /\ Stage /\ task \in GraphCalls
    /\ \E graph \in Graphs :
          /\ workerGraph' = graph
          /\ AnswerAndRead([kind |-> "Graph", whole |-> graph, patch |-> Of(graph, workerGraph)])
    /\ task' = "none"
    /\ UNCHANGED <<workerArts, holder, faulted, quirks>>

(* Mutant of ArtifactsDone: only artifacts the set did not have are reported. *)
OnlyNewReported ==
    /\ Stage /\ task \in ArtifactCalls
    /\ \E touched \in SUBSET Artifacts :
          /\ ~SameIds(touched)
          /\ workerArts' = Overwrite(workerArts, touched)
          /\ AnswerAndRead([kind |-> "ArtifactChanges",
                            changed |-> {a \in touched : \A b \in workerArts : b.id # a.id}])
    /\ task' = "none"
    /\ UNCHANGED <<workerGraph, holder, faulted, quirks>>

(* `answer_with_changes`: of the artifacts the stages reached, those that differ from before. *)
ArtifactsDone ==
    /\ Stage /\ task \in ArtifactCalls
    /\ \E touched \in SUBSET Artifacts :
          /\ ~SameIds(touched)
          /\ workerArts' = Overwrite(workerArts, touched)
          /\ AnswerAndRead([kind |-> "ArtifactChanges", changed |-> touched \ workerArts])
    /\ task' = "none"
    /\ UNCHANGED <<workerGraph, holder, faulted, quirks>>

(* A stage returns an error, which is reported. *)
StageFails ==
    /\ Stage
    /\ Answer([kind |-> "Failed"])
    /\ wpc' = "exiting" /\ faulted' = TRUE
    /\ UNCHANGED <<task, heldByWorker, holder, quirks>>

(* A stage panics, or its result does not fit into a frame: the worker ends without an answer. *)
StageDies ==
    /\ Stage
    /\ wpc' = "exiting" /\ faulted' = TRUE
    /\ UNCHANGED <<toHost, task, heldByWorker, holder, quirks>>

StageHangs ==
    /\ Stage
    /\ wpc' = "stuck" /\ faulted' = TRUE
    /\ UNCHANGED <<toHost, task, heldByWorker, holder, quirks>>

(* A stage prints to stdout, which is the pipe of the protocol. *)
StagePrints ==
    /\ Stage /\ "print" \notin quirks /\ ~closed
    /\ quirks' = quirks \cup {"print"}
    /\ faulted' = TRUE
    /\ Answer([kind |-> "garbage"])
    /\ UNCHANGED <<wpc, task, heldByWorker, holder>>

(* A stage starts a process that inherits the pipes and outlives it. *)
StageSpawns ==
    /\ Stage /\ ~holder
    /\ holder' = TRUE /\ quirks' = quirks \cup {"spawn"}
    /\ UNCHANGED <<toHost, wpc, task, heldByWorker, faulted>>

(* `run` returns. The stages are dropped, and code of the user may run then, which may hang, or panic  *)
(* and make the exit status another than success.                                                    *)
Exit ==
    /\ wpc = "exiting"
    /\ \/ wpc' = "dead" /\ quirks' \in {quirks, quirks \cup {"status"}}
       \/ wpc' = "stuck" /\ quirks' = quirks \cup {"drop"}
    /\ UNCHANGED <<toWorker, toHost, task, opened, frozen, heldByWorker, holder, faulted>> /\ Works

-----------------------------------------------------------------------------
(* The process that a stage started ends. *)
HolderEnds ==
    /\ holder /\ holder' = FALSE
    /\ UNCHANGED <<host, heldByHost, watchdog, closed, toWorker, toHost, worker, heldByWorker, history>>

Host == \/ RefuseBudget \/ SendHello \/ LoadSource \/ ApplyTransforms \/ FreezeGraph \/ GenerateTargets \/ RunPosts
        \/ SendShutdown \/ Abandon \/ Receive \/ ReceiveEof
        \/ ClosePipes \/ StopWatchdog \/ JoinWatchdog \/ Reap \/ Drain
Watchdog == StandDown \/ Expire \/ Fire \/ Kill
Worker == \/ WorkerReads \/ WorkerEof \/ GraphDone \/ ArtifactsDone \/ StageFails \/ StageDies
          \/ StageHangs \/ StagePrints \/ StageSpawns \/ Exit
Next == Host \/ Watchdog \/ Worker \/ HolderEnds

Spec == Init /\ [][Next]_vars
(* Threads and processes are scheduled, and time passes. A stage that hangs does so for good, and a   *)
(* process that a stage started may never end.                                                       *)
FairSpec == Spec /\ WF_vars(Host) /\ WF_vars(Watchdog) /\ WF_vars(Worker)

-----------------------------------------------------------------------------
Kinds == {"Hello", "Shutdown", "FreezeGraph"} \cup GraphCalls \cup ArtifactCalls
Replies == {"Ready", "Graph", "ArtifactChanges", "Done", "Failed", "Disagreement", "garbage"}

TypeOK ==
    /\ hpc \in {"start", "await", "ready", "closing", "stopping", "joining", "reaping", "draining",
               "ended"}
    /\ asked \in Kinds \cup {"none"}
    /\ phase \in {"source", "transforms", "targets", "posts"}
    /\ calls \in 0..MaxCalls
    /\ outcome \in {"none", "ok", "failed", "protocol", "connection", "oversize", "timeout",
                   "abandoned", "config"}
    /\ hostGraph \in Seq(Elements) /\ workerGraph \in Seq(Elements)
    /\ hostArts \subseteq Artifacts /\ workerArts \subseteq Artifacts
    /\ dog \in {"off", "waiting", "expired", "killing", "gone"}
    /\ {done, fired, closed, opened, frozen, holder, killed, faulted} \subseteq BOOLEAN
    /\ Len(toWorker) <= 1 /\ \A i \in DOMAIN toWorker : toWorker[i].kind \in Kinds
    /\ Len(toHost) <= 2 /\ \A i \in DOMAIN toHost : toHost[i].kind \in Replies
    /\ wpc \in {"read", "run", "exiting", "stuck", "dead"}
    /\ task \in GraphCalls \cup ArtifactCalls \cup {"none"}
    /\ quirks \subseteq {"print", "spawn", "drop", "status"}

Quiet == hpc = "ready" /\ toWorker = <<>> /\ toHost = <<>>
Describes(message, held) ==
    CanTake(message.patch, held) /\ Resolve(message.patch, held) = message.whole

(* The two sides hold the same graph whenever neither has a frame to read, and a frame under way says *)
(* to its receiver exactly the graph its sender meant (protocol/mod.rs, `Patched`: "measured against  *)
(* a vector both sides agree on").                                                                    *)
GraphsInStep ==
    /\ Quiet => hostGraph = workerGraph
    /\ \A i \in DOMAIN toWorker :
          toWorker[i].kind \in {"ApplyTransforms", "FreezeGraph"} => Describes(toWorker[i], workerGraph)
    /\ \A i \in DOMAIN toHost :
          toHost[i].kind = "Graph" /\ hpc = "await" =>
             Describes(toHost[i], hostGraph) /\ workerGraph = toHost[i].whole

(* The same of the set of artifacts, of which the worker reports only what it changed. *)
ArtifactsInStep ==
    /\ Quiet => hostArts = workerArts
    /\ \A i \in DOMAIN toWorker :
          toWorker[i].kind \in ArtifactCalls =>
             LET held == Listing[workerArts] IN
             /\ CanTake(toWorker[i].patch, held)
             /\ ElementsOf(Resolve(toWorker[i].patch, held)) = hostArts
    /\ \A i \in DOMAIN toHost :
          toHost[i].kind = "ArtifactChanges" /\ hpc = "await" =>
             Overwrite(hostArts, toHost[i].changed) = workerArts

(* Both hold the same of the session, whatever stages did, printed or kept.                           *)
InStep == GraphsInStep /\ ArtifactsInStep

(* Host and worker of one version never find that they disagree: no patch fails to resolve, no frame  *)
(* comes that its reader does not expect, no target is asked for before the graph is frozen.          *)
NeverDisagree == outcome # "protocol"

(* A run is reported as good only if every stage of the worker did what it was asked to. *)
SuccessIsUnbroken == outcome = "ok" => ~faulted

(* The host never reports that the worker failed when it was the watchdog that killed it: the error   *)
(* names the budget (`transport_error`).                                                             *)
NeverBlamesTheWorker ==
    [][outcome' = "connection" /\ outcome # "connection" => ~killed]_vars

(* A session with a budget comes to its end, whatever stages fail, panic or hang. It need not if a    *)
(* stage printed to the protocol, started a process that keeps the pipes, or hangs when it is dropped.*)
Bounded == <>(hpc = "ended" \/ dog = "off" \/ quirks \cap {"print", "spawn", "drop"} # {})

(* "wall clock", "Default wall-clock budget for one worker session": every session with a budget ends.*)
EndsWithinBudget == <>(hpc = "ended" \/ dog = "off" \/ holder)
=============================================================================
