-------------------------- MODULE CopyFSImplements --------------------------
(***************************************************************************)
(* CopyFS implements VersionedFiles when no system call fails: the list is *)
(* the one the next callback would find, in the cache or on disk, and the  *)
(* cells are the backing files that list names.                            *)
(***************************************************************************)
EXTENDS CopyFS

(* The abstract state tells a file that is not there from one that is.     *)
ASSUME RecordAssumption ==
  None \notin [versions : Seq(Version), served : Version, deleted : BOOLEAN]

AbstractFile(f) ==
  IF Known(f) = None THEN None
  ELSE [versions |-> Known(f).versions, served |-> Served(f),
        deleted |-> Known(f).deleted]

AbstractData(f) ==
  [s \in Vids |-> IF \E i \in DOMAIN Listed(f) : Listed(f)[i].rfile = s
                  THEN store[f][s] ELSE None]

Promise == INSTANCE VersionedFiles
  WITH file <- [f \in Files |-> AbstractFile(f)],
       data <- [f \in Files |-> AbstractData(f)]

(* Every callback, and every restart, does to the versions a user sees one *)
(* of the things VersionedFiles allows, or nothing.                        *)
ImplementsVersionedFiles == Promise!ASpec
=============================================================================
