--------------------------- MODULE MCWorkerSession ---------------------------
(* Two identities with up to two values each; graphs that grow, shrink, reorder, rewrite an element   *)
(* and repeat one.                                                                                   *)
EXTENDS WorkerSession, SequencesExt

Element(i, v) == [id |-> i, value |-> v]
MCElements == {Element(i, v) : i \in 1..2, v \in 1..2}
MCGraphs == {<<>>, <<Element(1, 1), Element(2, 1)>>, <<Element(2, 1), Element(1, 2)>>,
             <<Element(1, 1), Element(1, 1)>>}
MCArtifacts == {Element(1, 1), Element(1, 2), Element(2, 1)}
MCListing == [S \in SUBSET MCArtifacts |-> SetToSortSeq(S, LAMBDA a, b : a.id < b.id)]
=============================================================================
