---------------------------- MODULE MCWaybackDir -----------------------------
(* Values for the constants of WaybackDir in its model-checking runs.      *)
EXTENDS WaybackDir, TLC

(* Names are interchangeable; inodes are not, since the model CHOOSEs them. *)
Symmetry == Permutations(Names)
=============================================================================
