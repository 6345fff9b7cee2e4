------------------------------ MODULE Versions ------------------------------
(***************************************************************************)
(* The data CopyFS keeps about one versioned file and the functions on it: *)
(* the list of versions of structs.h, the search of lookup.c, the version  *)
(* constructors of create.c, the culling of ea.c, and the form the list    *)
(* has in the metadata file of parse.c and write.c.  A list is newest      *)
(* first in memory and oldest first on disk.                               *)
(*                                                                         *)
(* A backing file of a virtual file is named by its serial number, the     *)
(* eight hexadecimal digits create_version_name puts before the name.      *)
(***************************************************************************)
EXTENDS Integers, SequencesExt

CONSTANTS
  MaxVid,     \* bound: the largest version number (and serial) modelled
  MaxSvid,    \* bound: the largest subversion number modelled
  Modes,      \* permission bits, as opaque values
  Users,      \* user ids
  None        \* NULL, "no such file"

ASSUME BoundsAssumption == MaxVid \in Nat \ {0} /\ MaxSvid \in Nat

LATEST == -1

Vids == 1 .. MaxVid
Svids == 0 .. MaxSvid

(* version_t; rfile is the serial of the backing file v_rfile names.       *)
Version == [vid : Vids, svid : Svids, mode : Modes, uid : Users, rfile : Vids]

(* The pair md_dfl_vid, md_dfl_svid: the locked version, if there is one.  *)
Pin == [vid : Vids \cup {LATEST}, svid : Svids \cup {LATEST}]
Unpinned == [vid |-> LATEST, svid |-> LATEST]

(* metadata_t; recent stands for "md_timestamp is in the current second".  *)
Metadata == [versions : Seq(Version), deleted : BOOLEAN,
             dfl : Pin, recent : BOOLEAN]

(* The metadata file: version lines oldest first, and whether a "killer"   *)
(* line of version 0 ends it.                                              *)
MetaFile == [lines : Seq(Version), killed : BOOLEAN]

ASSUME NoneAssumption == None \notin Metadata \cup MetaFile \cup Pin

-----------------------------------------------------------------------------
(* The search of rcs_find_version for a vid other than LATEST: it skips    *)
(* greater vids, and from there greater svids of that vid, and gives up at *)
(* the first version that is neither.  At most one index.                  *)
Hits(vs, p) ==
  { j \in DOMAIN vs : \E i \in 1 .. j :
      /\ \A k \in 1 .. i - 1 : vs[k].vid > p.vid
      /\ \A k \in i .. j : vs[k].vid = p.vid
      /\ IF p.svid = LATEST
         THEN i = j
         ELSE vs[j].svid = p.svid /\ \A k \in i .. j - 1 : vs[k].svid > p.svid }

(* Mutant of Current: the other end of the list.                           *)
CurrentOldest(m) == IF m.dfl.vid = LATEST THEN Last(m.versions) ELSE Head(m.versions)

(* rcs_find_version(m, LATEST, LATEST) of a file that is not hidden by its *)
(* deletion: the pinned version, or the head when the search misses it.    *)
Current(m) ==
  LET hits == Hits(m.versions, m.dfl)
  IN IF m.dfl.vid = LATEST \/ hits = {}
     THEN Head(m.versions)
     ELSE m.versions[CHOOSE j \in hits : TRUE]

(* The version setxattr checks before it accepts a lock: the first in the  *)
(* list that carries the name, wherever it stands.                         *)
Named(v, p) ==
  \/ p.vid = LATEST
  \/ p.vid = v.vid /\ p.svid \in {LATEST, v.svid}

LockTargets(vs, p) ==
  { vs[i] : i \in { j \in DOMAIN vs : Named(vs[j], p)
                       /\ \A k \in 1 .. j - 1 : ~ Named(vs[k], p) } }

-----------------------------------------------------------------------------
(* Mutant of NextVersion: the serial runs ahead of the version number.     *)
NextVersionSerialAhead(m, uid) ==
  [vid |-> Head(m.versions).vid + 1, svid |-> 0, mode |-> Current(m).mode,
   uid |-> uid, rfile |-> Head(m.versions).vid + 2]

(* create_new_version_generic, do_copy or not: a new head with the next    *)
(* vid, its own backing file, and the mode of the current version.         *)
NextVersion(m, uid) ==
  LET vid == Head(m.versions).vid + 1
  IN [vid |-> vid, svid |-> 0, mode |-> Current(m).mode, uid |-> uid,
      rfile |-> vid]

(* Mutants of NextSubversion: no next vid when an older one is locked, and *)
(* numbers that always follow the head's.                                  *)
NextSubversionInPlace(m, mode, uid) ==
  [Current(m) EXCEPT !.svid = @ + 1, !.mode = mode, !.uid = uid]

NextSubversionOfHead(m, mode, uid) ==
  [vid |-> Head(m.versions).vid, svid |-> Head(m.versions).svid + 1,
   mode |-> mode, uid |-> uid, rfile |-> Current(m).rfile]

(* create_new_version_generic with subversion set: a new head on the       *)
(* current version's backing file, in the next vid if an older vid is      *)
(* locked.                                                                 *)
NextSubversion(m, mode, uid) ==
  LET cur == Current(m)
      head == Head(m.versions)
      bump == cur.vid # head.vid
  IN [vid |-> IF bump THEN head.vid + 1 ELSE cur.vid,
      svid |-> IF bump THEN 0 ELSE cur.svid + 1,
      mode |-> mode, uid |-> uid, rfile |-> cur.rfile]

FirstVersion(mode, uid) ==
  [vid |-> 1, svid |-> 0, mode |-> mode, uid |-> uid, rfile |-> 1]

(* Mutants of Linked: the head is replaced, and the lock is kept.          *)
LinkedOverHead(m, v) ==
  [m EXCEPT !.versions = <<v>> \o Tail(@), !.dfl = Unpinned, !.deleted = FALSE]

LinkedStillLocked(m, v) == [m EXCEPT !.versions = <<v>> \o @, !.deleted = FALSE]

(* The in-memory half of create_link_version.                              *)
Linked(m, v) ==
  [m EXCEPT !.versions = <<v>> \o @, !.dfl = Unpinned, !.deleted = FALSE]

(* The cull of the purge attribute: the newest n versions stay.            *)
Culled(m, n) == [m EXCEPT !.versions = SubSeq(@, 1, n)]

-----------------------------------------------------------------------------
(* Mutants of Image and Parsed: lines written newest first, no killer line *)
(* for a deleted file, no default for a missing default-version file.      *)
ImageNewestFirst(m) == [lines |-> m.versions, killed |-> m.deleted]

ImageUndeleted(m) == [lines |-> Reverse(m.versions), killed |-> FALSE]

ParsedAsFound(mf, pin) ==
  IF mf = None \/ mf.lines = <<>> THEN None
  ELSE [versions |-> Reverse(mf.lines), deleted |-> mf.killed, dfl |-> pin,
        recent |-> FALSE]

(* write_metadata_file, and parse_metadata_for_file of a metadata file and *)
(* a default-version file, which locks nothing unless it has a pair.  A    *)
(* file without a version line reads as no metadata: rcs_find_version then *)
(* has no head to return.                                                  *)
Image(m) == [lines |-> Reverse(m.versions), killed |-> m.deleted]

Parsed(mf, pin) ==
  IF mf = None THEN None
  ELSE IF mf.lines = <<>> THEN None
  ELSE [versions |-> Reverse(mf.lines), deleted |-> mf.killed,
        dfl |-> IF pin \in Pin THEN pin ELSE Unpinned, recent |-> FALSE]

(* What a write of the metadata that runs out of space can leave: the      *)
(* first lines only.                                                       *)
Torn(m) ==
  { [lines |-> SubSeq(Reverse(m.versions), 1, n), killed |-> FALSE] :
      n \in 0 .. Len(m.versions) }
-----------------------------------------------------------------------------
(* What a list must be for the search to find what it looks for, and for   *)
(* the next serial to be that of no listed version.                        *)
Descending(vs) == \A i, j \in DOMAIN vs : i < j => vs[i].vid >= vs[j].vid

SerialsBounded(vs) == \A i \in DOMAIN vs : vs[i].rfile <= vs[i].vid
=============================================================================
