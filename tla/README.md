# gnr8 in TLA+

gnr8 runs a project's own pipeline (a Rust crate in `.gnr8/`) over its sources, and keeps the
outputs (an OpenAPI document, SDKs, docs) up to date beside hand-written files. Its generators are
pure functions; what is hard to get right is around them: writing outputs into a tree that the user
edits at the same time, surviving a crash at any file operation, and driving a worker process. This
directory models that part.

## The system

| part | source (under `src/crates/`) | state | operations | what makes it correct |
|---|---|---|---|---|
| output transactions and generation recovery | `gnr8-core/src/lifecycle/mod.rs` | the outputs, a transaction directory per output being replaced, the generation journal, the generation lock | regenerate, replace, prune, restore, clean up, recover | no user edit is lost; gnr8 recognises its own outputs after any crash; recovery terminates |
| ownership manifest | `gnr8-core/src/manifest/mod.rs` | path to hash of what gnr8 last wrote | load, record, prune, atomic save | names only bytes gnr8 generated |
| watch loop | `gnr8/src/watch.rs` | the set of own outputs, the stream of events | filter, regenerate | no edit is missed, own writes start no loop |
| worker session | `gnr8-core/src/worker/mod.rs` | pipes, the held vector of stages, the watchdog | handshake, call, merge, finish | one answer per request, a timeout ends the worker |
| worker side | `gnr8-sdk/src/worker/mod.rs`, `protocol/mod.rs` | the held graph and artifacts | serve, dispatch, answer with a patch | host and worker hold equal graphs |
| worker build | `gnr8-core/src/worker/build.rs` | the stamp, the binary, the store entry | fingerprint, build, publish, restore | the binary that runs was built from the present sources |
| store | `gnr8-core/src/store/mod.rs` | content-addressed files | put, get, sweep | an entry is whole or absent |
| parallel map | `gnr8-core/src/parallel.rs` | workers, the result slots | map, run ahead | the result and the error of a sequential run |
| pipeline and emission memo | `gnr8-core/src/pipeline/` | the artifacts placed so far, the threads that render, `.gnr8/cache/emission.memo` | emit, place, record, finish | the files and the failure of a sequential emission |
| source analysis | `gnr8-core/src/sdk/builtins.rs` and `analyze/` | the cache of the checkout and the store, by hash of the module | hash, look up, analyze, record | a graph is that of the sources it is the answer for |
| generators, reports, command line | the rest | none between runs | pure | compared with snapshots by the tests |

Interactions: the command line (or the watch loop) has the worker session run the pipeline, which
goes through the worker build, and then hands the artifacts to `regenerate_with_anchors`. That call
takes the generation lock, recovers what an earlier generation left, loads the manifest, journals
what it is about to own, writes and prunes outputs through transactions, saves the manifest and
removes the journal. The user, and other gnr8 processes, act at any moment.

The hard behaviours are listed in PROJECT.json under "hazards", each at its line.

## Modules

`OutputTransaction` is one output over any number of generations. State:

| variable | code |
|---|---|
| `leaf` | the output; a file carries its bytes and, as history, who wrote them |
| `txn` | the directory `.gnr8-<token>-txn` (or `-building`): lease, journal, `next`, `previous`, the markers `approved` and `installed`, and two history fields |
| `journal` | `.gnr8/cache/.gnr8-generation-<token>-lease`, its entry for this output |
| `manifest` | the entry of `.gnr8/cache/manifest.json` |
| `pc`, `phase`, `new`, `force`, `owned`, `recovered`, `seen`, `outcome` | the running generation's place and memory |
| `quiet` | the environment has stopped; only liveness refers to it |

Every action is one file operation, or a read with the decision taken from it, so that edits and
crashes fall between any two. The actions follow `regenerate_with_anchors`:

1. `Start` takes the lock and looks for an abandoned journal; the `Recover*` actions are the arms of
   `recover_published_transaction` and its callers; `RecordRecovered`, `SaveRecovered` and
   `CloseRecovered` are the rest of `recover_abandoned_generations_locked`.
2. `OpenJournal` loads the manifest and journals the planned hash (`generation_recovery_files`).
3. `ReadCurrent` is the batch of recoveries and reads, `KeepUnchanged`, `Protect` and `BeginWrite` the
   arms of `apply_planned_file`; `BeginPrune` starts `prune_stale_manifest_entry`.
4. `Publish`, `Quarantine`, `Approve`, `GiveBack`, `Restore`, `Install`, `Undo`, `Mark` are
   `replace_planned_file`; `JudgeStale` is `finish_stale_transaction`; `CleanupStep` and `CleanupDone`
   remove the files of a transaction in the code's order.
5. `Settle`, `Save`, `Finish` record, prune and save the manifest and remove the journal.

`Crash` ends the generation and keeps the files. An error return does the same (the locks are freed,
the files stay), so it also stands for every failing file operation whose error path touches no file;
the error paths that do touch files are actions of their own (`InstallFails`, `MarkFails`, `Undo`, the
unreadable stale output in `JudgeStale`). `CrashInMove` is the move that makes the new name before it
drops the old one, which the comments of `recover_published_transaction` describe for Windows.

`MCOutputTransaction` gives the constants values. `OutputTransactionProofs` holds the theorems.

`TransactionLease` is one transaction among several processes. `transactional_replace_output` (the only
caller is `write_to_dir` in `sdk/bundle.rs`) takes no generation lock, so other gnr8 processes scan the
same directory meanwhile; what separates them is the `flock` on the lease file. State: is the
construction lease there (`outer`), the name of the directory (`dir`), the files in it (`inside`), the
output (`leaf`), the holder of the lock (`lock`), a program counter per process. Opening a file and
locking it are two steps, a lock outlives the name of its file, and a directory handle outlives a
rename: all three are in the model, and are what makes it interesting.

* The owner: `CreateLease` ... `Publish` are `OutputTransaction::begin` with its error paths (`MoveFails`,
  `Abort`, `WriteFails`, `Undo`), then `Quarantine`, `Approve`, `Install`, `Mark` and the cleanup.
* A recoverer repeats a scan: `ScanBuilding` is `cleanup_building_transactions` with
  `cleanup_unpublished_transaction`, `SweepOrphan` is `cleanup_orphaned_construction_leases`, `RecoverTxn`
  is `recover_scanned_transaction` with the arms of `recover_published_transaction` that only gnr8's own
  steps lead to.
* `CleanUp` is the removal both share. `Crash` frees the lock and leaves the files.

`AtomicReplace` is what replacing an output promises: it changes once, while its writer lives, and never
after. `TransactionLease` implements it, the value being the output as recovery will make it (`Value`):
the change happens at `Approve`. `MCTransactionLease` and `TransactionLeaseProofs` as above.

`OrderedMap` is `map_ordered_from` in `parallel.rs`: a caller that cuts a list into spans, spawns a thread
for each, joins them in order and merges. An item succeeds, fails or panics (`items`); `thread` and `done`
are the state of each thread, `joined` and `merged` the caller's place. `RenderHere` and `ReturnHere` are
the short list, mapped without threads.

`Watch` is `gnr8 watch`: the first generation (`ColdRead`, `ColdWrite`, `ColdFails`), the filter built
from the manifest (`BuildOutputSet`), the registration of the watcher (`Register`), the debouncer's thread
(`Deliver`, `NotifyError`) and the loop (`Wait`, `Timeout`, `Receive`, `Leave`, then `ReadSources`,
`WriteOutputs`, `PipelineFails` or `WriteFails`). `src` is what the user has written as far as it decides the
outputs, a design; `disk` says from which design each output was made, `owned` is the manifest, `filter`
the set of paths whose events are dropped, `signal` the channel. `missed` is history: in which ways an
edit was lost that no generation has read since.

`HeldVectors` is the arithmetic of the protocol, without state: a sequence is sent as a patch against the
one that the receiver holds, as slots that name a held position or carry a new element
(`GraphPatch::of`, `Patched`, `resolve`, `resolve_taking`). `Resolve` copies; `Take` moves each held
element out at the last slot that names it, which is what the code does on both sides.

`WorkerSession` is one session: the host (`hpc`, the call it waits for, its held graph and artifacts), the
watchdog thread (`dog`, `done`, `fired`), the two pipes, the worker with its own held graph and artifacts,
and a process that a stage may have started and that keeps the pipes open (`holder`). The host's actions
are the calls of `WorkerSession` in the order the pipeline may make them (`Calls`), `Receive` and
`ReceiveEof` for the answer, and the steps of `finish` one by one. A stage succeeds, fails, panics or kills
its process, hangs, prints to stdout or starts a process. `killed` and `faulted` are history: the watchdog
killed the worker; some stage did not do what it was asked. `quirks` says in which of the ways that the
protocol does not survive a stage misbehaved.

`WorkerBuild` is `ensure_worker` with the stamp, the binary in the checkout, and the store's entries and
blobs, for several processes in one checkout or several. Files are replaced by renames, so each action is
one read, one rename, or cargo taking or releasing the lock of its target directory. A binary is a value
that says from which inputs it was built and whether that build was `clean` (history): nothing disturbed
it. `Disturbs` names what does: the sources changed from A to B and back around cargo's read, the lock file
changed after cargo read it, or another process put its binary in the place between cargo's write and the
hash.

`Generation` is `regenerate_with_anchors` for several outputs and several processes: the generation guard
(`guard`), markers, journals, manifest files before their rename (`temp`), and the manifest in memory of
each process (`own`). Each file operation on that shared state is a step; the transaction of one output is
kept at the grain of what recovery distinguishes (`Stages`), its single files being the subject of
`OutputTransaction`. A process that waits for the guard has done nothing yet, so it is one that has not
started. An error return leaves what a death leaves. The user writes only contents that gnr8 does not
generate; a user who writes the very bytes of the plan is in `OutputTransaction`.

`ProtectedOutputs` is what gnr8 promises for the files at its outputs: one comes only where none is, one
leaves only to be set aside, and what is set aside goes back, or is discarded if the generation is forced,
if gnr8 generated it, or if the output holds the same. `OutputTransaction` (one output, file by file) and
`Generation` (several outputs and processes) both keep it, so that the two grains agree on what happens to
files; the stages of a transaction in `Generation` are mapped to what is set aside and what may be
discarded. The promise is about the program's steps: a user may write, move or delete anything in between,
and counting those steps as allowed would allow the program to overwrite what they wrote. Both therefore
state it as an action property over the steps that are not the user's (`ProtectsOutput`, `ProtectsOutputs`).

`SourceCache` is the cached load of a Go source (`GoGin::load`): hash the module, look in the checkout's
cache and in the store, remove what does not answer, analyze, save, publish. `raced` and `tainted` are
history: the module was edited since the process hashed it; a key under which an analysis ran
while the module was edited.

`Emission` is the target phase (`emit` in `pipeline/mod.rs`) with `run_ahead` and the memo of
`emission.rs`: `Begin` computes the key, `Load` reads the groups back or starts all threads, `Render` ends
one of them, `PlaceRendered`, `PlaceRecorded` and `RunCustom` take the targets in the order of the plan,
`FinishRendered` and `Save` make the record, `LeaveScope` is the exit on an error, which waits for every
thread. `RunPosts` is the rest of `run`. Where a key cannot be completed there is none; the model has this
for targets that read the tree, and a gofmt that cannot be resolved acts alike. How rendering goes is a
function of the target and the graph (`fate`), as it is in the code; a process that dies, for whatever
reason, the failing of `freeze_graph` included, is `Dies`. `moved` and `tainted` are history as above, for
gofmt and the tree.

The modules named `MC...` give the constants values, and those named `...Proofs` hold the theorems; those
on `HeldVectors` are in `WorkerSessionProofs`, where they are used, and those on `OrderedMap` and `Watch`,
the components whose threads share their memory, in `ThreadProofs`.

## Runs

* `output_transaction` checks one output with edits, crashes and failing renames. What the
  user wrote is never lost (`NoUserDataLoss`), and no step of a replacement, a recovery or a cleanup
  does more to a file than `ProtectedOutputs` allows (`ProtectsOutput`). Ownership is exact
  (`OwnershipHolds`): what gnr8 installed stays recognisable after every crash and is never reported as
  hand-edited (`OwnOutputIsKnown`), and ownership is never claimed over other bytes
  (`OwnedBytesAreGenerated`). An interrupted transaction is
  always readable and conflicts only if somebody touched the output (`CrashAloneNeverConflicts`), and
  a successful generation leaves no trace (`SuccessLeavesNothingBehind`). Once edits and crashes stop,
  generations run again and again settle, or report a conflict (`Converges`).
* `transaction_lease`: an owner and two recoverers, each dying anywhere. From the moment its lease is in the
  directory a living owner keeps all its files (`OwnerUndisturbed`), no step that tolerates no surprise
  meets one and a transaction without lease or journal is always residue (`NothingUnforeseen`:
  `StrictStepsSucceed`, `ResidueIsResidue`), and `AtomicReplace` is implemented (`ReplacesAtomically`).
  Whatever deaths and lost races left is cleared away by later scans (`Reclaimed`).
* `generation`: two processes and two outputs, with edits, errors and deaths. A generation that ends well is
  the whole of its own plan (`SuccessIsWhole`). What gnr8 wrote is in the manifest or in a journal at every
  moment, also when a conflict of the other output stops the recovery in the middle (`OwnershipSurvives`).
  Nobody takes the marker or the manifest file that another process is making, neither of which is locked at
  first (`OwnFilesStay`). A write pass begins with nothing left of earlier ones (`WritesStartClean`). Every
  output is treated as `ProtectedOutputs` promises, by whichever process and at whatever point of its
  predecessor's death (`ProtectsOutputs`), and once all is quiet generations leave nothing behind or report
  a conflict (`Settles`).
* `worker_session`: the two sides hold the same graph and artifacts whenever neither has a frame to read,
  and every frame under way means to its receiver what its sender meant (`InStep`), so no patch fails to
  resolve (`NeverDisagree`). A session that ends well had every stage do its work (`SuccessIsUnbroken`), one
  that the watchdog killed is reported as a timeout (`NeverBlamesTheWorker`), and one with a budget ends
  (`Bounded`), except after three things a stage can do: print to stdout, start a process that keeps the
  pipes, or hang in its drop.
* `session_bound` shows the last of these: `finish` stops the watchdog before it waits for the child, so
  the budget, documented as one on the session, does not bound it.
* `worker_build`: what is executed, stamped and published is the build of the inputs whose fingerprint it
  goes by, unless that build was disturbed (`UndisturbedIsTrue`); bytes that no build made never reach the
  place that is executed (`NeverJunk`); and once nothing goes wrong every process finds its worker
  recorded and runs cargo no more (`Settles`), though different builds of one source overwrite each
  other's files.
* `source_cache`: the graph a run goes on with is that of the sources it hashed, unless an analysis under
  that key was overtaken by an edit (`AnswersItsSources`), and damaged entries do not keep runs from
  finding their answer (`Warms`).
* `source_decides` shows that exception at work: one edit between hash and analysis files the graph of the
  new sources under the old key, and a checkout that nobody edited takes it from the store. The worker build
  repeats its fingerprint after cargo for this reason; the load of a source does not.
* `emission`: every run comes to the files, or to the first failure in plan order, that rendering one target
  after another comes to (`SameAsSequential`), in whatever order threads end, and whether the groups are
  rendered or read back from a record that another process made.
* `ordered_map`: with any number of failures and panics, the parallel map answers what one thread would,
  and what a panic may hide is stated (`AnswersAsOneThread`); the caller returns (`Returns`).
* `watch`: when the loop has nothing left to do the outputs are current (`RestIsCurrent`), whatever came
  between, except for edits missed in one of four named ways; and it gets there once the user stops
  editing, unless generations fail again and again (`ComesToRest`). An output written for the first time
  causes one more generation, which rewrites nothing.
* `starts_current` shows what the documentation of `watch.rs` excludes: an edit before the watcher is
  registered is lost.

What the modelling brought to light besides the three violations (`starts_current`, `session_bound`,
`source_decides`):

* The set of own outputs is built once in `watch.rs:224`: a source file that the user puts at the path of
  an output that was dropped since is ignored (one of the four ways of `RestIsCurrent`).
* A generation that fails after it moved an output aside and put it back may trigger the next: if the output
  is new since the watch began, its events are not filtered. `ComesToRest` therefore excepts generations
  that fail for ever.
* When notification fails (`watch.rs:326`), the edits it was about wait for the next edit; when a
  transaction is in conflict (`lifecycle/mod.rs:2328`), it stays so until somebody removes it. No property
  speaks against either: `RestIsCurrent`, `Converges` and `Settles` except them by name.
* If a crash left the `installed` marker and the user then deletes the output, every generation fails with a
  conflict, `--force` included, and the message (`lifecycle/mod.rs:2435`) says that the current file was
  preserved, of which there is none.
* The stamp of a worker (`worker/build.rs:935`) records the lock file as it is after cargo: changed after
  cargo read it, it certifies a build that did not use it. This is a part of `Disturbs`.
* `finish` discards the exit status of the worker (`worker/mod.rs:359`), and a process that a stage started
  keeps the host waiting for stderr to end.
* A target that fails while the thread of another one panics makes `std::thread::scope` unwind, since
  nobody joins that thread any more; `run_ahead` promises a typed error (`parallel.rs:153`). Likewise a
  panic in a list short enough to be mapped without threads unwinds.
* A construction lease may be swept away between its creation and its locking; `begin` then fails, nothing
  is lost, and the next call succeeds. `TransactionLease` has this course as a permitted one.

Bounds.

* `output_transaction`: two generated contents and one that only a user writes: with them an output can
  be the previous version, the next one or foreign, which is all the code distinguishes, and a generation
  can be followed by one with the same, another or no content. The foreign content is also the empty
  content staged for a pruned output.
* `transaction_lease`: two recoverers, because a race needs the owner, one recovery that acts and one that
  looks. One transaction, because tokens are unique.
* `generation`: two processes, because one guard orders them and the second is the one that comes in
  between; two outputs, of which one can conflict while the other goes on; plans in which both are
  there, both change, the first or the second only. Deaths, errors and edits are not bounded.
* `worker_session`: five calls, which is each kind once and one more; elements of two identities with two
  values, and graphs that grow, shrink, reorder, rewrite and repeat an element, repetition being what
  makes the last use matter.
* `worker_build`: two processes in one or in two checkouts; inputs with a source that can be shared, without
  a lock file or with one, and another source; at most two faults in all. The shortest course known to break
  the fingerprints needs one edit and one more process.
* `source_cache`: the same two processes, two versions of which the key can be computed and one without
  key, one process that has a store; at most three faults. In `source_decides` both have the store, and one
  fault is enough.
* `emission`: a plan with a plain target, a custom one and one that reads gofmt, and a plan that copies the
  tree; a graph where all goes well and one in which, by five tables, jobs fail, panic, collide or drop
  files, so that the failing job comes before, between and after others; at most two faults.
* `ordered_map`: lists of up to five items and three threads, the least at which the last span is shorter
  than the others and there are more workers than spans.
* `watch`: two designs over two outputs, so that from one to the other an output is rewritten and another
  added or dropped.

No counter occurs in the state of the first three, of `ordered_map` or of `watch`, so these runs cover any
number of generations, scans, crashes and edits; `faults` and `calls` are the only ones in the others. The
initial states of `worker_build`, `source_cache` and `emission` fix one of two values that can be
exchanged.

Fairness. In `OutputTransaction` and `Generation` a running generation proceeds (its steps are sequential
code that waits for nobody once it holds the lock), and generations are run again, which is what a user or
`gnr8 watch` does; without it nothing would ever be recovered. In `TransactionLease` every process that runs
proceeds, scans are repeated, and each recoverer's calls are sometimes about the output of the transaction
(strong fairness of `ReadJournal`: a call about another output leaves it pending). In `WorkerSession`
threads and processes are scheduled and time passes, so the watchdog wakes up; a stage that hangs does so
for good and a process that it started may never end. In `WorkerBuild` and `SourceCache` each process takes
its next step when it can, and is run again; faults are finitely many. In `OrderedMap` some step is taken
while one is possible: rendering ends and the scheduler lets threads run. In `Watch` the debouncer's and the
main thread run, and a generation ends, well or not; the user need not stop, Ctrl-C need not come,
notification need not fail. Nothing is assumed of edits, crashes or when they stop. `Emission` states no
liveness: that a run is never stuck is its check for deadlock.

## Proofs

For every set of contents, without bounds:

* `TypeCorrect`: `Spec => []TypeOK`. `TypeOK` is not inductive: installing makes the staged bytes the
  output, so the invariant adds `Staged`, that the staged file is there from publication to install.
* `UserFilesSurvive`: `Spec => NoUserDataLoss`. The step lemma needs to know that a cleanup only finds
  discardable files (`ConsentBeforeDiscard`), that quarantine moves the output into a place where no
  file is (`NothingSetAside`), and that the decision markers mean what recovery reads from them
  (`Decided`). `SafeInv` is their conjunction and is inductive given the types.

* `OwnershipIsExact` (from `OwnOutputsAreKnown` and `OwnershipIsOfGeneratedBytes`),
  `CrashesAloneNeverConflict` and `SuccessIsClean`: the invariants of the run about recovery, from
  `RecoveryInv`. Its parts say what a place in the
  generation says about the transaction (`Shape`), about its phase and plan (`Phasing`), that an open
  transaction is named by a journal (`Named`) which holds the bytes it stages (`Planned`), and that
  recorded hashes are generated ones (`Hashes`). On these rest `KnownInv`, which follows an output of
  gnr8's through quarantine, restore, install and recovery and says at each place which of manifest,
  journal and memory names it, and `Undisturbed`, what recovery finds while nobody touches the output.
  None of them is inductive: each depends on what the steps before left in the journal.
* `PromiseKept`: `Spec => ProtectsOutput`, step by step. Most steps leave both places alone (`Still`); a
  move is one of `MovedAside`, `MovedIn` and `MovedBack`, a decision one of `Decides`. Beyond the invariants
  above it needs that a file gnr8 wrote holds generated bytes (`OwnMade`), so that what a cleanup deletes
  without consent is gnr8's, and that nothing is released before it is set aside (`Unreleased`).

They assume `BytesAssumption` (generated contents are contents, `None` is none) and `NoneAssumption`.

For every set of recoverers, in `TransactionLeaseProofs`:

* `TypesHold`, `OwnerIsSafe`, `NothingUnforeseenHappens` (from `StrictStepsAreSafe` and
  `NothingUnexplained`): the invariants of the run.
* `Refinement`: `Spec => ReplacesAtomically`.

All follow from one inductive invariant, `IInv`. Its idea: the files of the directory are changed by the
holder of the lock only (`Holding`), and a recoverer that works without it has seen no lease under
either name, after which the directory is `Gone`, empty and unable to get a lease any more. The rest
says what is in the directory at each step (`Shape`, `OwnerPlace`, `RecovererPlace`, `CleanPlace`) and
what the markers mean (`Decision`). They assume `ProcessAssumption` only.

For every number of processes, outputs and plans, in `GenerationProofs`: `TypesHold`, `OwnershipAlways`,
`WholeAlways`, `FilesStayAlways`, `CleanAlways` and `PromiseKept`, the safety properties of the run. `IInv`
adds to them that the guard is held by whoever is past the opening (`Serial`, `Holding`), that every open
transaction is named by a journal (`Named`), and for each process what it has found and done by its place
(`RecoverInv`, `OpenInv`, `WriteInv`): that it has its own journal and transaction, that its manifest in
memory says what the outputs before its current one hold, and that the outputs after it are as it read them
or somebody else's. The proof has three layers. `Routes`, `Act` and `Moves` say what a step of a process
leaves alone; the shared part (`Named`, `OwnershipSurvives`, `Holding`) is proved per action; and then the
invariant of the acting process per action, that of the others following from what was left alone. Steps of
the user are in `Outside`. `PromiseKept`, the action property, needs one invariant more (`StageInv`): a
process at work is at the stage its transaction has on disk, and a transaction that is done has nothing set
aside, so that its removal discards nothing. The proof is again per action, over lemmas that say a step of
`ProtectedOutputs` of the one output that changes. `RunsAreBounded` is the half of `Settles` that is a safety
property: `Rank` counts how far a run has come, each of its own steps raises it and no step of another
changes it, so a run has at most 13 steps for each output and 10 more, whatever others do to the files.
That the next step is taken, and that processes stop dying, is fairness and stays with `Settles`. They
assume `GenerationAssumption`.

For every set of elements, graphs and artifacts, in `WorkerSessionProofs`: `RoundTrip` (a patch of one
sequence against another resolves to it) and `TakingIsResolving` (moving elements out gives what copying
gives), for all sequences; `TypeCorrect`, `SameOnBothSides`, `Agreement`, `Success` and `NoFalseBlame` of the
session. `IInv` says by the host's place what may be in the pipes and what the worker does (`HostInv`,
`PipeInv`), what both hold meanwhile (`HeldOK`), and when the outcome is decided (`OutcomeInv`). They assume
`WorkerAssumption`, that a listing of a set has its elements.

For every set of processes, checkouts and inputs, in `WorkerBuildProofs`: `Types`, `UndisturbedTrue` and
`JunkNever`. `IInv` says that whoever compiles holds the lock (`Locked`), that stamps and entries are true
(`StampsTrue`, `EntriesTrue`), and what a process knows at its place: what it read (`Known`), that what it
shares may be shared (`Sharing`), and that the build in its checkout is its own while nothing disturbed it
(`Building`, `Certified`). `Frame` and `ChangeFrame` carry it over the steps of others. They assume
`BuildAssumption`.

For every set of processes and versions, in `SourceCacheProofs`: `TypesKept` and `AnswersAreTrue`, from
`EntriesTrue`: every readable entry holds the graph its own key names or the key is tainted. They assume
`CacheAssumption`.

For every set of plans, processes and fates of a target, in `EmissionProofs`: `EmissionTypes`, and
`RunsAreSequential`, that threads and memo change nothing of what a run returns. The reference is the
recursive function `Placed` over the plan. That such a function exists and obeys its own equations is
proved by induction over the length of the plan (`PlacedExists`, `PlacedSteps`, `FailureStays`), as
induction over a set of numbers from the well-foundedness of `<` on the naturals
(`WellFoundedInduction`). `IInv` says by the step of a run what it holds (`PlaceInv`), that a key tells what
the run was asked for and what that reads (`KeyInv`), that a thread which ended has what its job makes
(`TaskInv`) and did not fail if it was placed (`WaysInv`), that the groups to record are those placed and
those read back the ones to come (`GroupsInv`, by counting the targets that are rendered on threads),
that the record is of a run without a failure (`RecordInv`), and that the run so far has come to what
`Placed` says of its targets so far (`SameInv`). They assume `EmissionAssumption`.

For every number of cores and every length, in `ThreadProofs`: `MapTypes` and `OneAnswer`. The spans
partition the list (arithmetic of the rounded-up division), each thread has done a prefix of its span
(`ThreadOK`), and the merge has taken a prefix of the list (`MergedInOrder`) or the first failure in it
(`MergedFailure`). They assume what `OrderedMap` assumes of its constants.

For every set of designs and outputs, there too: `WatchTypes`, and `RestMeansCurrent` from
`Accounted`: until an edit is read it is an undelivered event, a signal, a generation that has yet to
read, or missed. They assume `DesignAssumption`.

Only model-checked: all liveness (`Converges`, `Reclaimed`, `Returns`, `ComesToRest`, `Bounded`, the two
`Settles` and `Warms`), which under fairness is beyond the prover used.

## Not modelled

* A program that keeps the output open and writes into it after it was moved aside: gnr8 has no
  step at which it could notice.
* Loss or corruption of `manifest.json`: it loads as empty, and outputs whose bytes differ from the
  plan are then protected as foreign, by design.
* A failed install whose restore succeeded leaves `approved` and `next` behind. The next generation then
  finds the old file and the marker and reports a conflict: the model has it (`InstallFails`, `Undo`,
  then `RecoverConflict`), and `CrashAloneNeverConflicts` therefore excludes failed installs by name.
* An output edited after its installed marker was written, while its cleanup was interrupted, is also
  a conflict rather than an edit.
* In `TransactionLease`: the user (in `OutputTransaction`), an install that fails without the process
  dying (see above), and the two-name moves of Windows.
* In `Generation`: failing installs (in `OutputTransaction`); aliases of one path and the identities of
  portable paths; error paths that only somebody who removes gnr8's own files could reach, which
  `OwnFilesStay` shows gnr8 itself does not. A function `with_generation_state_lock` has no caller.
* In `WorkerSession`: the bound on stderr and the sizes of frames (too large a frame is an error of its
  own, `oversize`), and what a stage computes.
* In `WorkerBuild`: `validate_workspace` and the refusal of symbolic links come before the first action and
  change nothing; which inputs can be shared is a constant; the host's own executable is one and the same;
  one fingerprint reads its files at one moment. The collection of old store entries is a loss of files,
  which `Damage` has.
* In `SourceCache`: one digest reads the module at one moment; the identity of the extractor and the memo of
  gofmt's results are further parts of keys that are the same throughout; the other sources have no cache.
* In `Emission`: the sources and transforms, which come before and are sequential; adjacent custom
  targets are one call and one target; `validate_artifact_paths`, a pure check of the result; gnr8's
  own executable in the key.
* In `Watch`: hand-edited outputs, deleted outputs, files that do not end like sources (`is_trigger_path`
  drops them), and how the debouncer groups events, any grouping being allowed. A generation that fails
  while it writes leaves each output without an edit as it was, written or missing; how the next one finds
  its way from there is the subject of `OutputTransaction`.
* In `parallel.rs`: `join`, which runs two closures and reports the left one's failure first.
* The emitters, lowering and analysis of sources (`gosdk`, `pysdk`, `tssdk`, `sdk`, `analyze`, `changes`,
  most of the lines of the repository): pure functions from text to text. Their result is
  wording and layout, which snapshots state better than a specification would; what the rest of the
  program relies on is that they are functions, and that is what `fate` and the contents of the models are.
* The command line, `init`, `doctor` and `verify`: sequential, and each calls the parts above or reads
  only.

## Plan

Done: `OutputTransaction`, `TransactionLease`, `OrderedMap` and `Watch`, then `HeldVectors` with
`WorkerSession`, `WorkerBuild`, `Generation`, `SourceCache` and `Emission`, in this order, each with proofs.

Also done: the promise that `OutputTransaction` and `Generation` share (`ProtectedOutputs`), proved of both.

Left, by value:

1. That the stages of a transaction in `Generation` are those of the files in `OutputTransaction` also for what
   recovery concludes from them, beyond what happens to the outputs: a mapping from its markers to `Stages`.
2. The pure tables: `plan_writes` against `classify_planned_file`, and the change classification of
   `changes/diff.rs`.
