---------------------------- MODULE MCGeneration ----------------------------
(* Two processes and two outputs.  The plans add, change, keep and drop      *)
(* outputs.                                                                *)
EXTENDS Generation

Both    == <<"a", "a">>
Changed == <<"b", "b">>
First   == <<"a", None>>
Second  == <<None, "b">>
MCPlans == {Both, Changed, First, Second}

=============================================================================
