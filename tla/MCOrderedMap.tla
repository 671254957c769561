---------------------------- MODULE MCOrderedMap ----------------------------
(* Three cores and lists of up to five items: spans of one and two items, a last span that is       *)
(* shorter, fewer spans than cores (four items), and lists too short to be handed out.               *)
EXTENDS OrderedMap

MCCores == 3
MCMinimum == 2
MCLengths == 0 .. 5
=============================================================================
