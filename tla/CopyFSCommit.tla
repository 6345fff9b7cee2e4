---------------------------- MODULE CopyFSCommit ----------------------------
(***************************************************************************)
(* What the death of the CopyFS daemon in the middle of a callback leaves. *)
(* CopyFS has a callback as one step; here it is the sequence of system    *)
(* calls by which it changes the version directory, in the order the code  *)
(* makes them, one per step.  No request is served between them, so that   *)
(* memory already has what the callback will leave there.                  *)
(*                                                                         *)
(* One file.  Of a backing file only matters whether it is there and has   *)
(* all of its contents.  A write of data is one call and does not show.    *)
(***************************************************************************)
EXTENDS Versions

CONSTANTS
  Blank,      \* a default-version file with nothing in it
  MaxLen,     \* bound: the longest version list modelled
  MaxCuts     \* bound: how many callbacks are cut off

ASSUME CommitAssumption ==
  {MaxLen, MaxCuts} \subseteq Nat /\ Blank \notin Pin \cup {None}

VARIABLES
  md,         \* the file's metadata_t in the cache, or None
  meta,       \* the file "metadata.<name>", or None
  dfl,        \* the file "dfl-meta.<name>", Blank, or None
  store,      \* per serial: None, "partial" or "whole"
  todo,       \* the system calls the running callback still has to make
  daemon,     \* "up", "killed", or "crashed" by its own doing
  known,      \* history: the metadata after the last callback that was not
              \* cut off, or what was read back after one that was
  torn,       \* history: a metadata file was left with lines missing
  culled,     \* history: a purge has begun
  cuts        \* history: callbacks cut off, and creations that were answered
              \* by the time check after they had made a backing file

disk == <<meta, dfl, store>>
vars == <<md, meta, dfl, store, todo, daemon, known, torn, culled, cuts>>

Does == {"creat", "copied", "mknod", "unlink", "open_meta", "put_lines",
         "unlink_meta", "open_default", "put_default", "unlink_default"}

Call(does, arg) == [does |-> does, arg |-> arg]

TypeOK ==
  /\ md \in Metadata \cup {None}
  /\ meta \in MetaFile \cup {None}
  /\ dfl \in Pin \cup {None, Blank}
  /\ store \in [Vids -> {None, "partial", "whole"}]
  /\ \A i \in DOMAIN todo : todo[i].does \in Does
  /\ daemon \in {"up", "killed", "crashed"}
  /\ known \in Metadata \cup {None}
  /\ torn \in BOOLEAN
  /\ culled \in BOOLEAN
  /\ cuts \in 0 .. MaxCuts

Init ==
  /\ md = None
  /\ meta = None
  /\ dfl = None
  /\ store = [s \in Vids |-> None]
  /\ todo = <<>>
  /\ daemon = "up"
  /\ known = None
  /\ torn = FALSE
  /\ culled = FALSE
  /\ cuts = 0

-----------------------------------------------------------------------------
(* What a daemon that has just been mounted would read, and what a callback *)
(* works on.                                                               *)
ReadBack == Parsed(meta, IF dfl = Blank THEN None ELSE dfl)

Known == IF md # None THEN md ELSE ReadBack

(* sscanf is given the NULL that helper_read_line returns of a file with   *)
(* no line in it.                                                          *)
ReadingCrashes == md = None /\ meta # None /\ dfl = Blank

Ready == daemon = "up" /\ todo = <<>> /\ ~ ReadingCrashes

Fits(v) == v.vid <= MaxVid /\ v.svid <= MaxSvid /\ Len(Known.versions) < MaxLen

-----------------------------------------------------------------------------
(* The system calls of the helpers.                                        *)
WriteMeta(m) == <<Call("open_meta", None), Call("put_lines", m)>>

WriteDefault(pin) ==
  IF pin.vid = LATEST THEN <<Call("unlink_default", None)>>
  ELSE <<Call("open_default", None), Call("put_default", pin)>>

CopyTo(s) == <<Call("creat", s), Call("copied", s)>>

(* Mutant of LinkCalls: the lock is released first.                        *)
LinkUnlocksFirst(m) == WriteDefault(Unpinned) \o WriteMeta(m)

LinkCalls(m) == WriteMeta(m) \o WriteDefault(Unpinned)

(* Mutant of VersionCalls: the version is linked before it is copied.      *)
VersionLinkFirst(v) == LinkCalls(Linked(Known, v)) \o CopyTo(v.rfile)

VersionCalls(v) == CopyTo(v.rfile) \o LinkCalls(Linked(Known, v))

(* Mutant of UnlinkFrom: the first of them stays.                          *)
UnlinkFromNext(vs, from) ==
  [i \in 1 .. Len(vs) - from |-> Call("unlink", vs[from + i].rfile)]

(* The unlinking of the backing files of vs[from], vs[from + 1], ...       *)
UnlinkFrom(vs, from) ==
  [i \in 1 .. Len(vs) - from + 1 |-> Call("unlink", vs[from + i - 1].rfile)]

(* A callback that makes these calls and leaves m in memory.               *)
Run(calls, m) ==
  /\ todo' = calls
  /\ md' = m
  /\ UNCHANGED <<disk, daemon, known, torn>>

-----------------------------------------------------------------------------
(* callback_mknod: of a file without metadata, of a deleted one, and of a  *)
(* deleted one within a second of its md_timestamp.                        *)
Create(mode, uid) ==
  /\ Ready
  /\ IF Known = None
     THEN LET m == [versions |-> <<FirstVersion(mode, uid)>>, deleted |-> FALSE,
                    dfl |-> Unpinned, recent |-> TRUE]
          IN /\ store[1] = None
             /\ Run(<<Call("mknod", 1)>> \o WriteMeta(m), m)
     ELSE LET v == NextVersion(Known, uid)
              m == [Linked(Known, v) EXCEPT !.recent = TRUE]
          IN /\ Known.deleted
             /\ v.vid \in Vids
             /\ store[v.vid] = None
             /\ IF Known.recent THEN Run(<<Call("mknod", v.vid)>>, Known)
                ELSE Fits(v) /\ Run(<<Call("mknod", v.vid)>> \o LinkCalls(m), m)
  /\ cuts' = IF Known # None /\ Known.recent THEN cuts + 1 ELSE cuts
  /\ cuts' <= MaxCuts
  /\ UNCHANGED culled

MayChange == Ready /\ Known # None /\ ~ Known.deleted

(* callback_open for writing, and with cut callback_truncate, which takes  *)
(* the time and then cuts the new version.                                 *)
OpenOrTruncate(cut) ==
  /\ MayChange
  /\ ~ Known.recent
  /\ LET v == NextVersion(Known, Current(Known).uid)
         copy == store[Current(Known).rfile]
     IN /\ Fits(v)
        /\ copy # None
        /\ Run(VersionCalls(v), [Linked(Known, v) EXCEPT !.recent = cut])
  /\ UNCHANGED <<culled, cuts>>

(* callback_chmod and callback_chown.                                      *)
Chmod(mode, uid) ==
  /\ MayChange
  /\ ~ Known.recent
  /\ LET v == NextSubversion(Known, mode, uid)
     IN Fits(v) /\ Run(LinkCalls(Linked(Known, v)), Linked(Known, v))
  /\ UNCHANGED <<culled, cuts>>

Unlink ==
  /\ MayChange
  /\ store[Current(Known).rfile] # None
  /\ LET m == [Known EXCEPT !.deleted = TRUE] IN Run(WriteMeta(m), m)
  /\ UNCHANGED <<culled, cuts>>

(* setxattr of rcs.locked_version.                                         *)
Lock(pin) ==
  /\ MayChange
  /\ LockTargets(Known.versions, pin) # {}
  /\ Run(WriteDefault(pin), [Known EXCEPT !.dfl = pin])
  /\ UNCHANGED <<culled, cuts>>

(* setxattr of rcs.purge: the backing files go before the metadata.        *)
PurgeAll ==
  /\ MayChange
  /\ Run(UnlinkFrom(Known.versions, 1) \o <<Call("unlink_meta", None)>>, None)
  /\ culled' = TRUE
  /\ UNCHANGED cuts

PurgeOldest(n) ==
  /\ MayChange
  /\ n < Len(Known.versions)
  /\ LET kept == Len(Known.versions) - n
         m == Culled(Known, kept)
     IN Run(UnlinkFrom(Known.versions, kept + 1) \o WriteMeta(m), m)
  /\ culled' = TRUE
  /\ UNCHANGED cuts

-----------------------------------------------------------------------------
(* What a system call does to the version directory.                       *)
MetaAfter(call) ==
  CASE call.does = "open_meta"   -> [lines |-> <<>>, killed |-> FALSE]
    [] call.does = "put_lines"   -> Image(call.arg)
    [] call.does = "unlink_meta" -> None
    [] OTHER                     -> meta

DefaultAfter(call) ==
  CASE call.does = "open_default"   -> Blank
    [] call.does = "put_default"    -> call.arg
    [] call.does = "unlink_default" -> None
    [] OTHER                        -> dfl

StoreAfter(call) ==
  CASE call.does = "creat"                -> [store EXCEPT ![call.arg] = "partial"]
    [] call.does \in {"copied", "mknod"}  -> [store EXCEPT ![call.arg] = "whole"]
    [] call.does = "unlink"               -> [store EXCEPT ![call.arg] = None]
    [] OTHER                              -> store

SystemCall ==
  /\ daemon = "up"
  /\ todo # <<>>
  /\ meta' = MetaAfter(Head(todo))
  /\ dfl' = DefaultAfter(Head(todo))
  /\ store' = StoreAfter(Head(todo))
  /\ todo' = Tail(todo)
  /\ known' = IF todo' = <<>> THEN md ELSE known
  /\ UNCHANGED <<md, daemon, torn, culled, cuts>>

(* The metadata file is being rewritten: fopen has emptied it.             *)
Rewriting == todo # <<>> /\ Head(todo).does = "put_lines"

Down(how) ==
  /\ md' = None
  /\ todo' = <<>>
  /\ daemon' = how
  /\ UNCHANGED <<dfl, store, culled>>
  /\ known' = ReadBack'

(* The daemon is killed, now.  Of the lines that stdio still holds some may *)
(* have been written out before.                                           *)
Killed ==
  /\ daemon = "up"
  /\ cuts' = IF todo = <<>> THEN cuts ELSE cuts + 1
  /\ cuts' <= MaxCuts
  /\ IF Rewriting
     THEN /\ meta' \in Torn(Head(todo).arg)
          /\ torn' = TRUE
     ELSE UNCHANGED <<meta, torn>>
  /\ Down("killed")

(* Any callback on the file, and a listing of its directory.               *)
LookupCrashes ==
  /\ daemon = "up"
  /\ todo = <<>>
  /\ ReadingCrashes
  /\ UNCHANGED <<meta, torn, cuts>>
  /\ Down("crashed")

Mount ==
  /\ daemon # "up"
  /\ daemon' = "up"
  /\ UNCHANGED <<md, disk, todo, known, torn, culled, cuts>>

Tick ==
  /\ todo = <<>>
  /\ md # None
  /\ md.recent
  /\ md' = [md EXCEPT !.recent = FALSE]
  /\ known' = md'
  /\ UNCHANGED <<disk, todo, daemon, torn, culled, cuts>>

Locks == { pin \in Pin : pin.vid = LATEST => pin = Unpinned }

Next ==
  \/ \E mode \in Modes, uid \in Users : Create(mode, uid) \/ Chmod(mode, uid)
  \/ \E cut \in BOOLEAN : OpenOrTruncate(cut)
  \/ Unlink
  \/ \E pin \in Locks : Lock(pin)
  \/ PurgeAll
  \/ \E n \in 0 .. MaxLen : PurgeOldest(n)
  \/ SystemCall
  \/ Killed
  \/ LookupCrashes
  \/ Mount
  \/ Tick

Spec == Init /\ [][Next]_vars

-----------------------------------------------------------------------------
(* Properties.  Each speaks of what a mount would read, in every state: it *)
(* may be the one the daemon is killed in.                                 *)

Listed(m) == IF m = None THEN <<>> ELSE m.versions

Serials(m) == { Listed(m)[i].rfile : i \in DOMAIN Listed(m) }

(* A version is listed on disk only once all of its contents are there,    *)
(* whenever the daemon dies, also when it dies again after lines were lost. *)
(* Purges unlink before they rewrite the list and are left out.            *)
ListedIsWhole == ~ culled => \A s \in Serials(ReadBack) : store[s] = "whole"

(* A callback that is cut off either has not happened to the file's history *)
(* or has happened, unless it is cut off between the fopen that empties    *)
(* the metadata file and the end of its lines: that is the only window in  *)
(* which history can be lost.                                              *)
HistoryOldOrNew ==
  ~ Rewriting => Listed(ReadBack) \in {Listed(known), Listed(md)}

Shown(m) == IF m = None THEN None ELSE IF m.deleted THEN None ELSE Current(m)

(* The same of the version that is served, though the lock is in a file of *)
(* its own: a new head never shows a third version through the old lock.   *)
(* Left out are a file with an empty default file (see below) and a file   *)
(* that was deleted and is created again beside a default file, its own or *)
(* one a purge has left: cut off before that is removed, it shows the old  *)
(* contents.                                                               *)
CreatedBesideDefault == known # None /\ known.deleted /\ dfl # None

ServedOldOrNew ==
  ~ Rewriting /\ dfl # Blank /\ ~ CreatedBesideDefault
    => Shown(ReadBack) \in {Shown(known), Shown(md)}

(* Each callback that is cut off leaves at most one backing file behind     *)
(* that no version lists, and nothing else does: what a purge takes out of *)
(* the list is gone, and a copy that was cut short is used again.  Such a  *)
(* file refuses the creation of a file that is deleted then, create.c:284. *)
Strays == { s \in Vids : store[s] # None /\ s \notin Serials(ReadBack) }

OneStrayPerCut ==
  ~ torn /\ todo = <<>> => Cardinality(Strays) <= cuts

(* parse.c:167, "The file is probably corrupt, just assume real latest     *)
(* version": a default-version file without a pair of numbers is read as   *)
(* no default.                                                             *)
EmptyDefaultIsLatest == daemon # "crashed"
=============================================================================
