-------------------------- MODULE ProtectedOutputs --------------------------
(***************************************************************************)
(* What gnr8 promises for its outputs ("no silent clobbering"), whoever    *)
(* generates or recovers and whatever dies meanwhile: a file comes to an   *)
(* output only where none is; a file leaves an output only to be set aside *)
(* there, where nothing else is set aside; and what is set aside goes back, *)
(* or is discarded if it is gnr8's to discard.  The promise is about every *)
(* step but the user's, who may do anything to the files between any two.  *)
(* OutputTransaction keeps it file operation by file operation for one     *)
(* output, Generation for several outputs and processes.                   *)
(***************************************************************************)
CONSTANTS Outputs,
          Generated, \* what gnr8 may produce
          None       \* no file

VARIABLES file,      \* of each output, its contents
          aside,     \* of each output, the contents set aside
          released,  \* the outputs of which it is settled that what is set aside may be discarded
          forced     \* the generation that runs, if one does, does so by --force

vars == <<file, aside, released, forced>>

(* A generation, forced or not, begins; one ends, as it may with any step.   *)
Begin == forced' \in BOOLEAN /\ UNCHANGED <<file, aside, released>>
MayEnd == forced' \in {forced, FALSE}

(* A process that dies in a move leaves the file in both places.            *)
SetAside(o) ==
  /\ file[o] # None /\ aside[o] = None
  /\ aside' = [aside EXCEPT ![o] = file[o]]
  /\ file' \in {file, [file EXCEPT ![o] = None]}
  /\ UNCHANGED released /\ MayEnd

PutBack(o) ==
  /\ file[o] = None /\ aside[o] # None
  /\ file' = [file EXCEPT ![o] = aside[o]]
  /\ \/ UNCHANGED <<aside, released>>
     \/ aside' = [aside EXCEPT ![o] = None] /\ released' = released \ {o}
  /\ MayEnd

(* What is set aside is gnr8's to discard if the user forces the generation, *)
(* if gnr8 generates it, or if the output holds the same.                  *)
Disposable(o) == forced \/ aside[o] \in Generated \/ aside[o] = file[o]

Release(o) ==
  /\ aside[o] # None /\ Disposable(o)
  /\ released' = released \cup {o}
  /\ UNCHANGED <<file, aside>> /\ MayEnd

Discarded(o) ==
  \/ UNCHANGED <<aside, released>>
  \/ /\ o \in released \/ Disposable(o)
     /\ aside' = [aside EXCEPT ![o] = None]
     /\ released' = released \ {o}

Discard(o) == Discarded(o) /\ UNCHANGED file /\ MayEnd

Install(o, content) ==
  /\ file[o] = None
  /\ file' = [file EXCEPT ![o] = content]
  /\ Discarded(o) /\ MayEnd

Next ==
  \/ Begin
  \/ \E o \in Outputs :
       \/ SetAside(o) \/ PutBack(o) \/ Release(o) \/ Discard(o)
       \/ \E content \in Generated : Install(o, content)

Kept == Next \/ UNCHANGED vars
=============================================================================
