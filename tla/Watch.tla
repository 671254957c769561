-------------------------------- MODULE Watch --------------------------------
(* `gnr8 watch`, crates/gnr8/src/watch.rs: regenerate once, then after every edit. A design is the   *)
(* whole of what the user wrote, as far as it decides the outputs.                                   *)
EXTENDS Naturals, FiniteSets

CONSTANTS Designs,
          Outputs,      \* paths with the extension of a source file that some design generates
          Wanted,       \* the outputs a design asks for
          Main,         \* a source file that is never an output
          Pipeline,     \* a file under .gnr8/src that ends in .rs
          Cache,        \* a file under .gnr8/cache
          Absent, Foreign

ASSUME DesignAssumption == /\ Wanted \in [Designs -> SUBSET Outputs]
                           /\ Absent \notin Designs /\ Foreign \notin Designs /\ Absent # Foreign
                           /\ Main \notin Outputs /\ Cache \notin Outputs /\ Pipeline \notin Outputs
                           /\ Main # Cache /\ Main # Pipeline /\ Cache # Pipeline

VARIABLES src,          \* the design at this moment
          disk,         \* of each path of Outputs, the design it was generated from, or Foreign
          owned,        \* the paths recorded in the manifest
          filter,       \* output_set, the paths whose events are dropped
          events,       \* the paths of the file system events the debouncer holds back
          signal,       \* the channel is not empty
          stop,         \* Ctrl-C was pressed
          pc,           \* the main thread
          gen,          \* the design the running generation has read
          built,        \* the design of the last generation that completed
          missed        \* (history) ways in which an edit was lost that no generation has read since

main == <<pc, gen, built, filter, owned, disk>>
vars == <<src, events, signal, stop, missed, main>>

Files == Outputs \cup {Main, Pipeline, Cache}
Watching == pc \in {"watching", "waiting", "read", "write"}
Reported(paths) == IF Watching THEN paths ELSE {}

(* `is_trigger_path`. What does not end like a source file is never a trigger and left out here.     *)
IsTrigger(path) ==
    \/ path = Pipeline
    \/ path \notin filter /\ path # Cache

-----------------------------------------------------------------------------
Init == /\ src \in Designs
        /\ disk = [p \in Outputs |-> Absent]
        /\ owned = {} /\ filter = {}
        /\ events = {} /\ signal = FALSE /\ stop = FALSE
        /\ pc = "cold"
        /\ gen = src /\ built = Absent
        /\ missed = {}

(* The user saves a file that is not an output, possibly one that an output once was. Nobody sees   *)
(* it before the watcher is registered, except a generation that has not read the sources yet.       *)
Edit(f, d) ==
    /\ f \notin owned /\ f # Cache /\ d # src
    /\ src' = d
    /\ disk' = IF f \in Outputs THEN [disk EXCEPT ![f] = Foreign] ELSE disk
    /\ events' = events \cup Reported({f})
    /\ missed' = missed \cup (IF pc \in {"coldwrite", "filter", "register"} THEN {"unwatched"}
                              ELSE IF Watching /\ f \in filter THEN {"filtered"} ELSE {})
    /\ UNCHANGED <<signal, stop, pc, gen, built, filter, owned>>

Interrupt == stop' = TRUE /\ UNCHANGED <<src, events, signal, missed, main>>

-----------------------------------------------------------------------------
(* The debouncer's thread *)

(* A batch of events, after a quiet period. The rest of them belongs to a later batch. *)
Deliver ==
    /\ Watching
    /\ \E batch \in SUBSET events :
          /\ batch # {}
          /\ events' = events \ batch
          /\ signal' = (signal \/ \E path \in batch : IsTrigger(path))
    /\ UNCHANGED <<src, stop, missed, main>>

(* The notification fails; the errors are logged and the loop continues. *)
NotifyError ==
    /\ Watching /\ events # {}
    /\ events' = {}
    /\ missed' = missed \cup {"error"}
    /\ UNCHANGED <<src, signal, stop, main>>

-----------------------------------------------------------------------------
(* A generation: it reads the sources, then brings the outputs and the manifest up to date. What     *)
(* the user wrote is protected, and a file that holds the right bytes is not written.                *)

Read(next) ==
    /\ gen' = src
    /\ missed' = {}
    /\ pc' = next
    /\ UNCHANGED <<src, events, signal, stop, built, filter, owned, disk>>

Generated == [p \in Outputs |-> IF disk[p] = Foreign THEN Foreign
                                ELSE IF p \in Wanted[gen] THEN gen ELSE Absent]
(* Mutant of Skipped: a protected file is recorded like one that was written. *)
SkipsNothing == {}
Skipped == {p \in Wanted[gen] : disk[p] = Foreign}
(* Mutant of Rewritten: every output is written, whatever it holds. *)
RewritesAll == Wanted[gen] \ Skipped
Rewritten == {p \in Outputs : disk[p] # Generated[p]}

(* Mutant of Write: what was signalled during a generation belongs to it. *)
WriteAndDrain(next) ==
    /\ disk' = Generated
    /\ owned' = Wanted[gen] \ Skipped
    /\ events' = events \cup Reported(Rewritten \cup {Cache})
    /\ built' = gen
    /\ pc' = next
    /\ signal' = FALSE
    /\ UNCHANGED <<src, stop, missed, gen, filter>>

Write(next) ==
    /\ disk' = Generated
    /\ owned' = Wanted[gen] \ Skipped
    /\ events' = events \cup Reported(Rewritten \cup {Cache})
    /\ built' = gen
    /\ pc' = next
    /\ UNCHANGED <<src, signal, stop, missed, gen, filter>>

ColdRead == pc = "cold" /\ Read("coldwrite")
ColdWrite == pc = "coldwrite" /\ Write(IF Skipped = {} THEN "filter" ELSE "stopped")

ColdFails ==
    /\ pc \in {"cold", "coldwrite"}
    /\ pc' = "stopped"
    /\ UNCHANGED <<src, events, signal, stop, missed, gen, built, filter, owned, disk>>

BuildOutputSet ==
    /\ pc = "filter"
    /\ filter' = owned \cup {Cache}
    /\ pc' = "register"
    /\ UNCHANGED <<src, events, signal, stop, missed, gen, built, owned, disk>>

Register ==
    /\ pc = "register"
    /\ pc' = "watching"
    /\ UNCHANGED <<src, events, signal, stop, missed, gen, built, filter, owned, disk>>

(* The head of the loop, and the wait for a signal, which ends every 200 ms to look at `stop`. *)
Wait ==
    /\ pc = "watching" /\ ~stop
    /\ pc' = "waiting"
    /\ UNCHANGED <<src, events, signal, stop, missed, gen, built, filter, owned, disk>>

Timeout ==
    /\ pc = "waiting" /\ ~signal
    /\ pc' = "watching"
    /\ UNCHANGED <<src, events, signal, stop, missed, gen, built, filter, owned, disk>>

(* The first signal and all that have piled up behind it. *)
Receive ==
    /\ pc = "waiting" /\ signal
    /\ signal' = FALSE
    /\ pc' = "read"
    /\ UNCHANGED <<src, events, stop, missed, gen, built, filter, owned, disk>>

ReadSources == pc = "read" /\ Read("write")

WriteOutputs == pc = "write" /\ Write("watching")

(* A generation fails, and the loop goes on. Before it wrote nothing is touched. *)
PipelineFails ==
    /\ pc = "read"
    /\ pc' = "watching"
    /\ missed' = missed \cup {"failed"}
    /\ UNCHANGED <<src, events, signal, stop, gen, built, filter, owned, disk>>

(* Later any output without an edit may have been written, put back or set aside, by this generation *)
(* or in completing what an earlier one left; the manifest was not saved, or after that recovery, or *)
(* with all that was written.                                                                        *)
Unedited == {p \in Outputs : disk[p] # Foreign}
WriteFails ==
    /\ pc = "write"
    /\ pc' = "watching"
    /\ missed' = missed \cup {"failed"}
    /\ \E touched \in SUBSET Unedited :
          /\ disk' \in [Outputs -> Designs \cup {Absent, Foreign}]
          /\ \A p \in touched : disk'[p] \in {disk[p], Generated[p], Absent}
          /\ \A p \in Outputs \ touched : disk'[p] = disk[p]
          /\ events' = events \cup Reported(touched \cup {Cache})
          /\ owned' \in {owned, owned \cup touched, Wanted[gen] \ Skipped}
    /\ UNCHANGED <<src, signal, stop, gen, built, filter>>

RegenerationFails == PipelineFails \/ WriteFails

Leave ==
    /\ pc = "watching" /\ stop
    /\ pc' = "stopped"
    /\ UNCHANGED <<src, events, signal, stop, missed, gen, built, filter, owned, disk>>

Start == ColdRead \/ ColdWrite \/ ColdFails \/ BuildOutputSet \/ Register
Regenerate == ReadSources \/ WriteOutputs \/ RegenerationFails
User == (\E f \in Files, d \in Designs : Edit(f, d)) \/ Interrupt

Loop == Wait \/ Timeout \/ Receive \/ Leave

Next == User \/ Deliver \/ NotifyError \/ Start \/ Loop \/ Regenerate

Spec == Init /\ [][Next]_vars

(* The two threads run; a generation ends, well or not. *)
FairSpec == Spec /\ WF_vars(Deliver) /\ WF_vars(Start \/ Loop \/ Regenerate)

-----------------------------------------------------------------------------
TypeOK ==
    /\ src \in Designs
    /\ disk \in [Outputs -> Designs \cup {Absent, Foreign}]
    /\ owned \in SUBSET Outputs /\ filter \in SUBSET (Outputs \cup {Cache})
    /\ \A p \in owned : disk[p] # Foreign
    /\ events \in SUBSET Files
    /\ signal \in BOOLEAN /\ stop \in BOOLEAN
    /\ pc \in {"cold", "coldwrite", "filter", "register", "watching", "waiting", "read", "write",
              "stopped"}
    /\ gen \in Designs /\ built \in Designs \cup {Absent}
    /\ missed \in SUBSET {"unwatched", "filtered", "error", "failed"}

AtRest == pc \in {"watching", "waiting"} /\ events = {} /\ ~signal

(* When nothing is left to do, the outputs are those of the present design, whenever the edits came  *)
(* and however they fell together with batches, signals and generations. An edit is missed only if   *)
(* nobody watched yet, if it went to a path that was an output, or if notification or generation     *)
(* failed.                                                                                           *)
RestIsCurrent == AtRest /\ missed = {} => built = src

(* Once the user has stopped editing the loop comes to rest: what a generation writes does not keep  *)
(* the next ones coming, unless they fail again and again.                                           *)
ComesToRest == <>[][FALSE]_src => \/ <>[](AtRest \/ pc = "stopped")
                                  \/ []<><<RegenerationFails>>_vars

(* cold_regenerate: the outputs are current before the loop begins. *)
StartsCurrent == [][pc = "register" /\ pc' = "watching" => built = src]_vars
=============================================================================
