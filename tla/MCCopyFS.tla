------------------------------ MODULE MCCopyFS ------------------------------
(* Values for the constants of CopyFS in its model-checking runs.          *)
EXTENDS CopyFSImplements

CONSTANTS f1, f2

(* One slot of the hash table for every file: a purge empties it.          *)
OneBucket == [f \in Files |-> 0]

(* Files are interchangeable. *)
Symmetry == Permutations(Files)

(* What the guards read: the last answer and the mark of a hasty creation  *)
(* tell states apart that go on alike.                                     *)
StateOnly == <<cache, meta, dfl, store, opened, culled>>

NoFaults == {}
AllFaults == {"copy", "fopen", "write", "unlink"}

=============================================================================
