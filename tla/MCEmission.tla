----------------------------- MODULE MCEmission -----------------------------
(* A plain target, a custom one and a Go SDK, in that order; and a target that *)
(* copies the tree.                                                        *)
EXTENDS Emission, TLC
CONSTANTS p1, p2, g1, g2, v1, v2

MCTargets == {"docs", "sdk", "custom", "copies"}
MCReads == [t \in MCTargets |-> IF t = "sdk" THEN "gofmt" ELSE IF t = "copies" THEN "tree" ELSE "nothing"]
MCPlans == {<<"docs", "custom", "sdk">>, <<"copies">>}
MCWrites == [t \in MCTargets |-> {t}]
MCPaths == MCTargets \cup {"graph"}

(* All goes well, or two jobs of the first graph go wrong.                  *)
AllOk == [x \in Jobs \X Graphs |-> "ok"]
Fate(wrong) == [x \in Jobs \X Graphs |-> IF x[2] = g1 /\ x[1] \in DOMAIN wrong THEN wrong[x[1]] ELSE "ok"]
MCFates ==
  {AllOk,
   Fate("docs" :> "panic" @@ "sdk" :> "fail"),
   Fate("custom" :> "drop" @@ "sdk" :> "panic"),
   Fate("custom" :> "claim" @@ "graph" :> "panic"),
   Fate("posts" :> "fail" @@ "graph" :> "fail")}

(* What two processes are asked for; both may be asked for the same.        *)
MCCalls ==
  {<<p1, <<"docs", "custom", "sdk">>, g1>>, <<p1, <<"copies">>, g1>>,
   <<p1, <<"docs", "custom", "sdk">>, g2>>, <<p2, <<"docs", "custom", "sdk">>, g2>>}

(* The versions can be exchanged, so a run may begin with one.              *)
MCInit == Init /\ env = v1
MCSpec == MCInit /\ [][Next]_vars
=============================================================================
