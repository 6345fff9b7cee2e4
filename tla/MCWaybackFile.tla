---------------------------- MODULE MCWaybackFile ----------------------------
(* Values for the constants of WaybackFormat in its model-checking runs.   *)
EXTENDS WaybackFormat

(* One byte, and two that a write past the end of the file can be cut at.  *)
OneOrTwoBytes == {<<1>>, <<2, 1>>}
=============================================================================
