------------------------------ MODULE MCWatch ------------------------------
(* Two designs over two outputs: from one to the other an output is rewritten and another added or   *)
(* dropped.                                                                                          *)
EXTENDS Watch, TLC

CONSTANTS d1, d2, o1, o2

MCDesigns == {d1, d2}
MCOutputs == {o1, o2}
MCWanted == (d1 :> {o1}) @@ (d2 :> {o1, o2})
=============================================================================
