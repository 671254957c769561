--------------------------- MODULE MCSourceCache ---------------------------
(* Two processes, in one checkout or in two, one of which has a store, and a *)
(* version of which the inputs cannot be enumerated.                       *)
EXTENDS SourceCache, TLC
CONSTANTS p1, p2, c1, c2, a, b, w

MCHomes == {(p1 :> c1 @@ p2 :> c1), (p1 :> c1 @@ p2 :> c2)}
(* The versions a and b can be exchanged, so one checkout begins with a; what *)
(* a checkout holds where nobody works makes no difference.                 *)
MCInit ==
  /\ Init
  /\ source[c1] = a /\ source[c2] \in {a, b}
  /\ \A c \in Checkouts : (\A p \in Procs : home[p] # c) => source[c] = a
MCFairSpec == MCInit /\ [][Next]_vars /\ \A p \in Procs : WF_vars(Step(p))
=============================================================================
