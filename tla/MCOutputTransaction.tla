------------------------ MODULE MCOutputTransaction ------------------------
(***************************************************************************)
(* OutputTransaction for TLC: two contents the pipeline may produce and    *)
(* one only a user writes, which is also the empty content a stale-output  *)
(* transaction stages.                                                     *)
(***************************************************************************)
EXTENDS OutputTransaction

CONSTANTS a, b, u

=============================================================================
