--------------------------- MODULE VersionedFiles ---------------------------
(***************************************************************************)
(* What CopyFS promises its users, with neither cache nor files: each file *)
(* has a list of versions, newest first, one of which is served; each      *)
(* version names a cell of data, which its subversions share.  Versions    *)
(* are only ever put at the head, only the served version's cell is        *)
(* written, and only a purge takes versions away.  There is no restart: a  *)
(* restart of the daemon must not be seen here.                            *)
(***************************************************************************)
EXTENDS Versions

CONSTANTS Files, Data, Empty

VARIABLES
  file,   \* per file: its versions, the one served, whether it is deleted
  data    \* per file: the contents of the cells its versions name

avars == <<file, data>>

Absent == [s \in Vids |-> None]

AInit ==
  /\ file = [f \in Files |-> None]
  /\ data = [f \in Files |-> Absent]

(* A first version.                                                        *)
Make(f, mode, uid) ==
  /\ file[f] = None
  /\ LET v == FirstVersion(mode, uid)
     IN file' = [file EXCEPT ![f] = [versions |-> <<v>>, served |-> v,
                                     deleted |-> FALSE]]
  /\ data' = [data EXCEPT ![f] = [Absent EXCEPT ![1] = Empty]]

(* v becomes the head and is served; a deleted file is back.               *)
Extended(old, v) ==
  [versions |-> <<v>> \o old.versions, served |-> v, deleted |-> FALSE]

(* The next version, in a cell of its own that holds whatever is put       *)
(* there.  It has the served version's mode.  Nothing is promised about    *)
(* the mode of a file that was deleted and is created again: the daemon    *)
(* gives it the old file's, which TODO:16 lists as a bug.                  *)
NewCell(f, mode, uid) ==
  /\ file[f] # None
  /\ ~ file[f].deleted => mode = file[f].served.mode
  /\ LET old == file[f]
         grown(cell) == Extended(old,
           [vid |-> Head(old.versions).vid + 1, svid |-> 0,
            mode |-> mode, uid |-> uid, rfile |-> cell])
     IN \E cell \in Vids \ { v.rfile : v \in Range(old.versions) } :
          /\ file' = [file EXCEPT ![f] = grown(cell)]
          /\ \E d \in Data : data' = [data EXCEPT ![f][cell] = d]

Usable(f) == IF file[f] = None THEN FALSE ELSE ~ file[f].deleted

(* New attributes for the served version, in the cell it has: its next     *)
(* subversion, or the next version when an older vid is served.            *)
NewAttributes(f, mode, uid) ==
  /\ UNCHANGED data
  /\ Usable(f)
  /\ LET old == file[f]
         was == old.served
         vid == Head(old.versions).vid
         name == IF was.vid = vid THEN <<vid, was.svid + 1>> ELSE <<vid + 1, 0>>
     IN file' = [file EXCEPT ![f] = Extended(old,
          [vid |-> name[1], svid |-> name[2], mode |-> mode, uid |-> uid,
           rfile |-> was.rfile])]

Overwrite(f) ==
  /\ UNCHANGED file
  /\ Usable(f)
  /\ LET cell == file[f].served.rfile
     IN /\ data[f][cell] # None
        /\ \E d \in Data : data' = [data EXCEPT ![f][cell] = d]

Select(f) ==
  /\ UNCHANGED data
  /\ Usable(f)
  /\ \E v \in Range(file[f].versions) : file' = [file EXCEPT ![f].served = v]

Delete(f) ==
  /\ UNCHANGED data
  /\ Usable(f)
  /\ file' = [file EXCEPT ![f].deleted = TRUE]

(* The newest n versions stay, the cells of the others go, and the head is *)
(* served if the served version went.                                      *)
Forget(f) ==
  /\ Usable(f)
  /\ LET old == file[f]
         vs == old.versions
     IN \E n \in 1 .. Len(vs) :
          LET kept == SubSeq(vs, 1, n)
              gone == { vs[i].rfile : i \in n + 1 .. Len(vs) }
          IN /\ file' = [file EXCEPT
                   ![f].versions = kept,
                   ![f].served = IF @ \in Range(kept) THEN @ ELSE Head(kept)]
             /\ data' = [data EXCEPT
                   ![f] = [s \in Vids |-> IF s \in gone THEN None ELSE @[s]]]

ForgetAll(f) ==
  /\ Usable(f)
  /\ file' = [file EXCEPT ![f] = None]
  /\ data' = [data EXCEPT ![f] = Absent]

ANext ==
  \E f \in Files :
    \/ \E mode \in Modes, uid \in Users : Make(f, mode, uid)
    \/ \E mode \in Modes, uid \in Users :
         NewCell(f, mode, uid) \/ NewAttributes(f, mode, uid)
    \/ Overwrite(f)
    \/ Select(f)
    \/ Delete(f)
    \/ Forget(f)
    \/ ForgetAll(f)

ASpec == AInit /\ [][ANext]_avars
=============================================================================
