--------------------------- MODULE MCWorkerBuild ---------------------------
(* Two processes, in one checkout or in two, with a source that can be shared and one that cannot.  *)
EXTENDS WorkerBuild, TLC
CONSTANTS p1, p2, c1, c2, a, b, l1

MCHomes == {(p1 :> c1 @@ p2 :> c1), (p1 :> c1 @@ p2 :> c2)}
With(s, l) == [source |-> s, lock |-> l]
MCInputs == {With(a, None), With(a, l1), With(b, l1)}
MCFitting == {With(a, l1), With(b, l1)}
MCShareable == {i \in MCInputs : i.source = a}
(* The user begins with a source that can be shared, and what a checkout holds where nobody works    *)
(* makes no difference.                                                                              *)
MCInit == /\ Init
          /\ \A c \in Checkouts : inputs[c].source = a
          /\ \A c \in Checkouts : (\A p \in Procs : home[p] # c) => inputs[c] = With(a, l1)
MCFairSpec == MCInit /\ [][Next]_vars /\ \A p \in Procs : WF_vars(Step(p))
=============================================================================
