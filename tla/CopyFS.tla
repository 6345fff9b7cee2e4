------------------------------- MODULE CopyFS -------------------------------
(***************************************************************************)
(* The CopyFS daemon on a flat directory of files: the metadata it caches, *)
(* the three kinds of files it keeps in the version directory (metadata,   *)
(* default version, backing files), and one action per FUSE callback that  *)
(* changes them.  copyfs-mount runs the daemon single-threaded, so a       *)
(* callback is one step; callbacks of different clients, and restarts of   *)
(* the daemon, interleave in every order.                                  *)
(*                                                                         *)
(* Faults names the system calls the environment may fail:                 *)
(*   "copy"   an I/O error inside create_copy_file (its results -2 .. -8), *)
(*            or a short write there, which it takes for a whole one       *)
(*   "fopen"  a metadata or default file cannot be opened for writing      *)
(*   "write"  a metadata file is cut short, or a default file left empty,  *)
(*            reported by fprintf or, when only fclose meets the error,    *)
(*            not reported                                                 *)
(*   "unlink" a metadata or default file cannot be removed                 *)
(***************************************************************************)
EXTENDS Versions

CONSTANTS
  Files,      \* the virtual files
  Bucket,     \* Bucket[f]: the slot of the cache's hash table f falls in
  Root,       \* uid 0
  Data,       \* the contents a backing file can have
  Empty,      \* the contents of a file just made
  Blank,      \* a default-version file with nothing in it
  MaxLen,     \* bound: the longest version list modelled
  Faults      \* see above

ASSUME DaemonAssumption ==
  /\ Root \in Users
  /\ Empty \in Data
  /\ None \notin Data
  /\ Blank \notin Pin \cup {None}
  /\ MaxLen \in Nat
  /\ Bucket \in [Files -> Nat]

VARIABLES
  cache,      \* cache_hash_table: per file its metadata_t, or None
  meta,       \* the file "metadata.<name>", or None
  dfl,        \* the file "dfl-meta.<name>", Blank, or None
  store,      \* per serial the contents of "<serial>.<name>", or None
  opened,     \* the serial open(2) met when a client last opened the file
              \* for writing, 0 when no client has it open
  reply,      \* the last answer to a call that may change a file
  culled,     \* history: a purge of some of the file's versions has happened
  hasty       \* history: a creation was answered by the time check alone

disk == <<meta, dfl, store>>
history == <<culled, hasty>>
vars == <<cache, meta, dfl, store, opened, reply, culled, hasty>>

Calls == {"mknod", "open", "write", "truncate", "chmod", "chown", "unlink",
          "lock", "purge", "none"}

Answer(call, f, mode, ok) ==
  [call |-> call, file |-> f, mode |-> mode, ok |-> ok]

NoAnswer == Answer("none", None, None, TRUE)

TypeOK ==
  /\ cache \in [Files -> Metadata \cup {None}]
  /\ meta \in [Files -> MetaFile \cup {None}]
  /\ dfl \in [Files -> Pin \cup {None, Blank}]
  /\ store \in [Files -> [Vids -> Data \cup {None}]]
  /\ opened \in [Files -> Vids \cup {0}]
  /\ reply \in [call : Calls, file : Files \cup {None},
                mode : Modes \cup {None}, ok : BOOLEAN]
  /\ culled \in [Files -> BOOLEAN]
  /\ hasty \in [Files -> BOOLEAN]

Init ==
  /\ cache = [f \in Files |-> None]
  /\ meta = [f \in Files |-> None]
  /\ dfl = [f \in Files |-> None]
  /\ store = [f \in Files |-> [s \in Vids |-> None]]
  /\ opened = [f \in Files |-> 0]
  /\ reply = NoAnswer
  /\ culled = [f \in Files |-> FALSE]
  /\ hasty = [f \in Files |-> FALSE]

-----------------------------------------------------------------------------
(* rcs_translate_to_metadata with rcs_ignore_deleted set, and without.     *)
Known(f) == IF cache[f] # None THEN cache[f] ELSE Parsed(meta[f], dfl[f])

Found(f) == Known(f) # None /\ ~ Known(f).deleted

(* sscanf is given the NULL that helper_read_line returns of a file with   *)
(* no line in it, and the daemon dies (see Restart).                       *)
ParsingCrashes(f) == cache[f] = None /\ meta[f] # None /\ dfl[f] = Blank

Served(f) == Current(Known(f))

(* The bounds: v can become the head of the list.                          *)
Fits(m, v) ==
  v.vid <= MaxVid /\ v.svid <= MaxSvid /\ Len(m.versions) < MaxLen

-----------------------------------------------------------------------------
(* What a helper can make of one file: its metadata in memory (md), its    *)
(* files on disk, and the helper's return value.                           *)
Outcome(md, mf, pin, files, ret) ==
  [md |-> md, meta |-> mf, dfl |-> pin, files |-> files, ret |-> ret]

Unchanged(f, ret) == Outcome(Known(f), meta[f], dfl[f], store[f], ret)

Become(f, o) ==
  /\ cache' = [cache EXCEPT ![f] = o.md]
  /\ meta' = [meta EXCEPT ![f] = o.meta]
  /\ dfl' = [dfl EXCEPT ![f] = o.dfl]
  /\ store' = [store EXCEPT ![f] = o.files]

(* write_metadata_file: the file it leaves and what it returns.            *)
WriteMeta(f, md) ==
  LET wrote(mf, ret) == [file |-> mf, ret |-> ret]
  IN {wrote(Image(md), 0)}
     \cup (IF "fopen" \in Faults THEN {wrote(meta[f], -1)} ELSE {})
     \cup (IF "write" \in Faults
           THEN {wrote(mf, ret) : mf \in Torn(md), ret \in {0, -1}} ELSE {})

(* write_default_file.  Its fopen empties the file it rewrites.            *)
WriteDefault(f, pin) ==
  LET wrote(file, ret) == [file |-> file, ret |-> ret]
  IN IF pin.vid = LATEST
     THEN {wrote(None, 0)}
          \cup (IF "unlink" \in Faults /\ dfl[f] # None
                THEN {wrote(dfl[f], -1)} ELSE {})
     ELSE {wrote(pin, 0)}
          \cup (IF "fopen" \in Faults THEN {wrote(dfl[f], -1)} ELSE {})
          \cup (IF "write" \in Faults
                THEN {wrote(Blank, ret) : ret \in {0, -1}} ELSE {})

(* Mutant of Link: the new head stays in memory after an error.            *)
LinkNoUndo(f, md, v, files) ==
  { Outcome(Linked(md, v), w.file, None, files, w.ret) :
      w \in WriteMeta(f, Linked(md, v)) }

(* create_link_version of v: the new head is in memory only if both files  *)
(* were written, but the metadata file may have it all the same.           *)
Link(f, md, v, files) ==
  LET new == Linked(md, v)
      wrote == WriteMeta(f, new)
      good == { w.file : w \in { x \in wrote : x.ret = 0 } }
      bad == { w.file : w \in { x \in wrote : x.ret = -1 } }
  IN { Outcome(md, mf, dfl[f], files, -1) : mf \in bad }
     \cup { Outcome(IF w.ret = 0 THEN new ELSE md, mf, w.file, files, w.ret) :
              mf \in good, w \in WriteDefault(f, Unpinned) }

(* Mutant of NewVersion: the version is linked before its file is copied.  *)
NewVersionLinkFirst(f) ==
  LET md == Known(f)
  IN IF md.recent THEN {Unchanged(f, 0)}
     ELSE Link(f, md, NextVersion(md, Current(md).uid), store[f])

(* A target that has not all of its source's contents.                     *)
CutShort(f, serial) ==
  IF "copy" \in Faults THEN { [store[f] EXCEPT ![serial] = d] : d \in Data }
  ELSE {}

(* What a copy of a backing file to a serial leaves when it fails once it  *)
(* has its source (results -2 .. -8): no target, or one that is cut short. *)
CopyFailures(f, serial) ==
  CutShort(f, serial) \cup (IF "copy" \in Faults THEN {store[f]} ELSE {})

(* What it leaves when it succeeds: a write(2) of fewer bytes than it was  *)
(* given is not an error, and the rest of them is lost.                    *)
Copies(f, from, to) ==
  {[store[f] EXCEPT ![to] = store[f][from]]} \cup CutShort(f, to)

(* create_new_version: nothing within a second of md_timestamp; otherwise  *)
(* a copy of the current backing file under the next serial, linked.  -1   *)
(* when the source is missing, -2 for any later failure of the copy.       *)
NewVersion(f) ==
  LET md == Known(f)
      cur == Current(md)
      next == NextVersion(md, cur.uid)
  IN IF md.recent THEN {Unchanged(f, 0)}
     ELSE IF store[f][cur.rfile] = None THEN {Unchanged(f, -1)}
     ELSE (UNION { Link(f, md, next, files) :
                     files \in Copies(f, cur.rfile, next.rfile) })
          \cup { Outcome(md, meta[f], dfl[f], files, -2) :
                   files \in CopyFailures(f, next.rfile) }

(* create_new_subversion.                                                  *)
NewSubversion(f, mode, uid) ==
  LET md == Known(f)
  IN IF md.recent THEN {Unchanged(f, 0)}
     ELSE Link(f, md, NextSubversion(md, mode, uid), store[f])
-----------------------------------------------------------------------------
(* create_new_file, behind callback_mknod, has four outcomes.              *)

(* The serial the new version would take.                                  *)
CreateSerial(f) == IF Known(f) = None THEN 1 ELSE Head(Known(f).versions).vid + 1

(* -EEXIST: the file is there, or a backing file of that serial is.        *)
CreateRefused(f, mode) ==
  /\ Found(f) \/ (CreateSerial(f) \in Vids /\ store[f][CreateSerial(f)] # None)
  /\ Become(f, Unchanged(f, -1))
  /\ reply' = Answer("mknod", f, mode, FALSE)
  /\ UNCHANGED <<opened, history>>

MakesBacking(f) ==
  /\ ~ Found(f)
  /\ CreateSerial(f) \in Vids
  /\ store[f][CreateSerial(f)] = None

WithEmpty(f) == [store[f] EXCEPT ![CreateSerial(f)] = Empty]

(* No metadata: create_new_metadata caches version 1.0, then writes it.    *)
CreateFirst(f, mode, uid) ==
  /\ Known(f) = None
  /\ MakesBacking(f)
  /\ LET md == [versions |-> <<FirstVersion(mode, uid)>>, deleted |-> FALSE,
                dfl |-> Unpinned, recent |-> TRUE]
     IN \E w \in WriteMeta(f, md) :
          /\ Become(f, Outcome(md, w.file, dfl[f], WithEmpty(f), w.ret))
          /\ reply' = Answer("mknod", f, mode, w.ret = 0)
  /\ UNCHANGED <<opened, history>>

(* Deleted: a next version is linked.  The requested mode is not used.     *)
CreateAgain(f, mode, uid) ==
  /\ Known(f) # None
  /\ MakesBacking(f)
  /\ ~ Known(f).recent
  /\ Fits(Known(f), NextVersion(Known(f), uid))
  /\ \E o \in Link(f, Known(f), NextVersion(Known(f), uid), WithEmpty(f)) :
       /\ Become(f, [o EXCEPT !.md.recent = (o.ret = 0)])
       /\ reply' = Answer("mknod", f, mode, o.ret = 0)
  /\ UNCHANGED <<opened, history>>

(* Deleted less than a second after its md_timestamp: the backing file is  *)
(* made, no version is linked to it, and the answer is success.            *)
CreateSkipped(f, mode) ==
  /\ Known(f) # None
  /\ MakesBacking(f)
  /\ Known(f).recent
  /\ Become(f, Outcome(Known(f), meta[f], dfl[f], WithEmpty(f), 0))
  /\ reply' = Answer("mknod", f, mode, TRUE)
  /\ hasty' = [hasty EXCEPT ![f] = TRUE]
  /\ UNCHANGED <<opened, culled>>

Create(f, mode, uid) ==
  \/ CreateRefused(f, mode)
  \/ CreateFirst(f, mode, uid)
  \/ CreateAgain(f, mode, uid)
  \/ CreateSkipped(f, mode)

-----------------------------------------------------------------------------
(* The kernel looks a path up before it sends any of the calls below.      *)
MayVersion(f) ==
  Found(f) /\ (Known(f).recent \/ Fits(Known(f), NextVersion(Known(f), Root)))

MaySubversion(f, mode, uid) ==
  Found(f) /\ (Known(f).recent
               \/ Fits(Known(f), NextSubversion(Known(f), mode, uid)))

(* callback_open for writing.  Only -1 from create_new_version stops it.   *)
Open(f) ==
  /\ MayVersion(f)
  /\ \E o \in NewVersion(f) :
       LET target == Current(o.md).rfile
           ok == o.ret # -1 /\ o.files[target] # None
       IN /\ Become(f, o)
          /\ opened' = IF ok THEN [opened EXCEPT ![f] = target] ELSE opened
          /\ reply' = Answer("open", f, None, ok)
  /\ UNCHANGED history

(* callback_write looks the path up again, at every write.                 *)
Write(f, d) ==
  /\ opened[f] # 0
  /\ LET target == Served(f).rfile
         ok == Found(f) /\ store[f][target] # None
         files == IF ok THEN [store[f] EXCEPT ![target] = d] ELSE store[f]
     IN /\ Become(f, Outcome(IF Found(f) THEN Known(f) ELSE cache[f],
                             meta[f], dfl[f], files, 0))
        /\ reply' = Answer("write", f, None, ok)
  /\ UNCHANGED <<opened, history>>

(* callback_release, which does nothing, when the last client that has the *)
(* file open closes it.                                                    *)
Close(f) ==
  /\ opened[f] # 0
  /\ opened' = [opened EXCEPT ![f] = 0]
  /\ reply' = NoAnswer
  /\ UNCHANGED <<cache, disk, history>>

(* callback_truncate: a version first, then truncate(2) on what is then    *)
(* served; d is what the file holds afterwards.                            *)
Truncate(f, d) ==
  /\ MayVersion(f)
  /\ \E o \in NewVersion(f) :
       LET target == Current(o.md).rfile
           ok == o.ret # -1 /\ o.files[target] # None
       IN /\ Become(f, [o EXCEPT !.md.recent = @ \/ o.ret # -1,
                                 !.files = IF ok THEN [@ EXCEPT ![target] = d]
                                                 ELSE @])
          /\ reply' = Answer("truncate", f, None, ok)
  /\ UNCHANGED <<opened, history>>

(* callback_chmod and callback_chown.                                      *)
Chmod(f, mode) ==
  /\ MaySubversion(f, mode, Served(f).uid)
  /\ \E o \in NewSubversion(f, mode, Served(f).uid) :
       /\ Become(f, o)
       /\ reply' = Answer("chmod", f, mode, o.ret = 0)
  /\ UNCHANGED <<opened, history>>

Chown(f, uid) ==
  /\ MaySubversion(f, Served(f).mode, uid)
  /\ \E o \in NewSubversion(f, Served(f).mode, uid) :
       /\ Become(f, o)
       /\ reply' = Answer("chown", f, None, o.ret = 0)
  /\ UNCHANGED <<opened, history>>

(* callback_unlink: lstat of the served backing file, the deletion mark in *)
(* memory, then the metadata file.                                         *)
Unlink(f) ==
  /\ Found(f)
  /\ IF store[f][Served(f).rfile] = None
     THEN /\ Become(f, Unchanged(f, -1))
          /\ reply' = Answer("unlink", f, None, FALSE)
     ELSE LET md == [Known(f) EXCEPT !.deleted = TRUE]
          IN \E w \in WriteMeta(f, md) :
               /\ Become(f, Outcome(md, w.file, dfl[f], store[f], w.ret))
               /\ reply' = Answer("unlink", f, None, w.ret = 0)
  /\ UNCHANGED <<opened, history>>

-----------------------------------------------------------------------------
(* callback_setxattr of rcs.locked_version, by a client with the given     *)
(* uid: copyfs-fversion -l, and -r when the pin is Unpinned.               *)
Lock(f, pin, uid) ==
  /\ Found(f)
  /\ \E v \in LockTargets(Known(f).versions, pin) : uid \in {Root, v.uid}
  /\ \E w \in WriteDefault(f, pin) :
       LET md == IF w.ret = 0 THEN [Known(f) EXCEPT !.dfl = pin] ELSE Known(f)
       IN /\ Become(f, Outcome(md, meta[f], w.file, store[f], w.ret))
          /\ reply' = Answer("lock", f, None, w.ret = 0)
  /\ UNCHANGED <<opened, history>>

(* Mutant of WithoutFiles: the files stay.                                 *)
WithoutFilesButAll(f, gone) == store[f]

(* callback_setxattr of rcs.purge, for all versions and for the oldest n.  *)
(* The files of the versions that go are unlinked whoever else names them. *)
WithoutFiles(f, gone) ==
  [s \in Vids |-> IF \E v \in gone : v.rfile = s THEN None ELSE store[f][s]]

PurgeAll(f) ==
  /\ Found(f)
  /\ cache' = [g \in Files |-> IF Bucket[g] = Bucket[f] THEN None ELSE cache[g]]
  /\ \E left \in {None} \cup (IF "unlink" \in Faults THEN {meta[f]} ELSE {}) :
       meta' = [meta EXCEPT ![f] = left]
  /\ store' = [store EXCEPT ![f] = WithoutFiles(f, Range(Known(f).versions))]
  /\ culled' = [culled EXCEPT ![f] = meta'[f] # None]
  /\ reply' = Answer("purge", f, None, TRUE)
  /\ UNCHANGED <<dfl, opened, hasty>>

PurgeOldest(f, n) ==
  /\ Found(f)
  /\ n < Len(Known(f).versions)
  /\ LET vs == Known(f).versions
         md == Culled(Known(f), Len(vs) - n)
         gone == { vs[i] : i \in Len(vs) - n + 1 .. Len(vs) }
     IN \E w \in WriteMeta(f, md) :
          /\ Become(f, Outcome(md, w.file, dfl[f], WithoutFiles(f, gone), w.ret))
          /\ reply' = Answer("purge", f, None, w.ret = 0)
  /\ culled' = [culled EXCEPT ![f] = @ \/ n > 0]
  /\ UNCHANGED <<opened, hasty>>

-----------------------------------------------------------------------------
(* Any callback that only looks the file up caches its metadata.           *)
Lookup(f) ==
  /\ cache[f] = None
  /\ Found(f)
  /\ cache' = [cache EXCEPT ![f] = Known(f)]
  /\ reply' = NoAnswer
  /\ UNCHANGED <<disk, opened, history>>

(* The second of time(NULL) passes.                                        *)
Tick ==
  /\ \E f \in Files : cache[f] # None /\ cache[f].recent
  /\ cache' = [f \in Files |-> IF cache[f] = None THEN None
                               ELSE [cache[f] EXCEPT !.recent = FALSE]]
  /\ reply' = NoAnswer
  /\ UNCHANGED <<disk, opened, history>>

(* The daemon ends, by umount or not, and is mounted again: the cache and  *)
(* the clients' open files are gone.  It also ends at the first lookup of  *)
(* a file whose default-version file is empty.                             *)
Restart ==
  /\ cache' = [f \in Files |-> None]
  /\ opened' = [f \in Files |-> 0]
  /\ reply' = NoAnswer
  /\ UNCHANGED <<disk, history>>

-----------------------------------------------------------------------------
(* A lock of vid LATEST releases the lock, whatever its svid.              *)
Locks == { pin \in Pin : pin.vid = LATEST => pin = Unpinned }

(* The callbacks that look the file up before they do anything else.       *)
Callback(f) ==
  /\ ~ ParsingCrashes(f)
  /\ \/ \E mode \in Modes, uid \in Users : Create(f, mode, uid)
     \/ Open(f)
     \/ \E d \in Data : Write(f, d)
     \/ \E d \in Data : Truncate(f, d)
     \/ \E mode \in Modes : Chmod(f, mode)
     \/ \E uid \in Users : Chown(f, uid)
     \/ Unlink(f)
     \/ \E pin \in Locks, uid \in Users : Lock(f, pin, uid)
     \/ PurgeAll(f)
     \/ \E n \in 0 .. MaxLen : PurgeOldest(f, n)
     \/ Lookup(f)

Next ==
  \/ \E f \in Files : Callback(f) \/ Close(f)
  \/ Tick
  \/ Restart

Spec == Init /\ [][Next]_vars
-----------------------------------------------------------------------------
(* Properties.                                                             *)

(* The version list of a file, newest first, as the next callback sees it. *)
Listed(f) == IF Known(f) = None THEN <<>> ELSE Known(f).versions

(* What a reader gets: the served version and its contents, or None.       *)
View(f) ==
  IF Found(f) THEN [version |-> Served(f), data |-> store[f][Served(f).rfile]]
  ELSE None

(* No version number increases from a list's head on, in memory and in     *)
(* what a restart would read: rcs_find_version's search stops at the first *)
(* smaller number and relies on it (lookup.c:60, parse.c:117).             *)
VidsDescend ==
  \A f \in Files :
    /\ cache[f] # None => Descending(cache[f].versions)
    /\ meta[f] # None => Descending(Reverse(meta[f].lines))

(* No listed version, in memory or on disk, uses a backing file of a       *)
(* serial above its own number.  With VidsDescend the serial one above the *)
(* head's number, which create_version_name hands to creat(2), is then     *)
(* never the file of a version in the list.                                *)
SerialsBelowVids ==
  \A f \in Files :
    /\ cache[f] # None => SerialsBounded(cache[f].versions)
    /\ meta[f] # None => SerialsBounded(Reverse(meta[f].lines))

(* Subversions are revisions of the metadata only: two listed versions     *)
(* with one vid name one backing file, whatever was locked when chmod or   *)
(* chown made the second one.                                              *)
SubversionsShareData ==
  \A f \in Files : \A i, j \in DOMAIN Listed(f) :
    Listed(f)[i].vid = Listed(f)[j].vid => Listed(f)[i].rfile = Listed(f)[j].rfile

(* Every listed version can be read: its backing file is there, unless a   *)
(* purge has taken some of the file's versions away.                       *)
ListedFilesExist ==
  \A f \in Files : ~ culled[f] =>
    \A i \in DOMAIN Listed(f) : store[f][Listed(f)[i].rfile] # None

(* No backing file is left behind: each one belongs to a listed version,   *)
(* unless a creation was answered by the time check alone.                 *)
NoOrphans ==
  \A f \in Files, s \in Vids :
    ~ hasty[f] /\ store[f][s] # None =>
      \E i \in DOMAIN Listed(f) : Listed(f)[i].rfile = s

(* Only a purge of the file itself shortens its history: every other       *)
(* callback, a restart, and a purge of a file in the same cache bucket     *)
(* leave the old list as the tail of the new one.                          *)
ForgetsNothing(f) ==
  \/ IsSuffix(Listed(f), Listed(f)')
  \/ reply'.call = "purge" /\ reply'.file = f

OnlyPurgeForgets == [][\A f \in Files : ForgetsNothing(f)]_vars

(* Copy on write: while no version is locked, no callback changes what the *)
(* backing file of an older version holds; a purge may remove it.  This is *)
(* what create_version_name's serials and the version made by open are for.*)
KeepsOlder(f) ==
  Known(f) # None /\ Known(f).dfl.vid = LATEST =>
    \A i \in DOMAIN Listed(f) :
      LET s == Listed(f)[i].rfile
      IN s # Head(Listed(f)).rfile =>
           \/ store'[f][s] = store[f][s]
           \/ reply'.call = "purge" /\ store'[f][s] = None

OlderVersionsFrozen == [][\A f \in Files : KeepsOlder(f)]_vars

(* A callback on one file, the passing of time and a restart of the daemon *)
(* change nothing a reader of another file gets, even when a purge empties *)
(* the cache bucket the other file is in: what is cached agrees with what  *)
(* the disk would give.                                                    *)
OthersKeepView == [][\A f \in Files : reply'.file # f => View(f)' = View(f)]_vars

(* create_link_version undoes everything when it fails: after an error     *)
(* from open, truncate, chmod, chown, or mknod over a deleted file, the    *)
(* file in memory is what it was.                                          *)
FailedLinkUndone ==
  [][\A f \in Files :
       /\ reply'.call \in {"open", "truncate", "chmod", "chown", "mknod"}
       /\ reply'.file = f /\ ~ reply'.ok /\ Known(f) # None
       /\ reply'.call \in {"open", "truncate"} => store[f][Served(f).rfile] # None
       => Known(f)' = Known(f)]_vars

-----------------------------------------------------------------------------
(* What the sources and the manual say of the program, and it does not do. *)

(* lookup.c:42: a file deleted last can be created again "as if it never   *)
(* existed": the backing file the next mknod makes is not there yet.       *)
DeletedCanBeCreated ==
  \A f \in Files :
    Known(f) # None /\ Known(f).deleted /\ CreateSerial(f) \in Vids =>
      store[f][CreateSerial(f)] = None

(* copyfs-fversion.1:32, "Purge the oldest n versions of the file": the    *)
(* versions a purge keeps can still be read if they could before.          *)
PurgeKeepsTheRest ==
  [][\A f \in Files : reply'.call = "purge" =>
       \A i \in DOMAIN Listed(f)' :
         LET s == Listed(f)'[i].rfile
         IN store[f][s] # None => store'[f][s] # None]_vars
=============================================================================
