---------------------------- MODULE AtomicReplace ----------------------------
(***************************************************************************)
(* What replacing an output promises, whoever carries it out and whatever  *)
(* dies meanwhile: the output changes once, in one step, while its writer  *)
(* is alive; a writer that reports success has replaced it; after a writer *)
(* gave up or died the output stays what it is.                            *)
(***************************************************************************)
VARIABLES value,  \* the output, as it is or as recovery will make it
          writer  \* "busy", "done" or "gone"

Init == value \in {"none", "old"} /\ writer = "busy"

Replace == writer = "busy" /\ value' = "new" /\ UNCHANGED writer
Return  == writer = "busy" /\ value = "new" /\ writer' = "done" /\ UNCHANGED value
GiveUp  == writer = "busy" /\ writer' = "gone" /\ UNCHANGED value

Next == Replace \/ Return \/ GiveUp

Spec == Init /\ [][Next]_<<value, writer>>
=============================================================================
