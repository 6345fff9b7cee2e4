------------------------- MODULE CopyFSFaultProofs -------------------------
(***************************************************************************)
(* Proofs about the CopyFS daemon whichever system calls fail: a callback  *)
(* that links a version and fails leaves the file in memory as it was      *)
(* (FailedLinkUndone), and every listed version can be read, its backing   *)
(* file being there until a purge (ListedFilesExist).                      *)
(***************************************************************************)
EXTENDS CopyFSProofs

-----------------------------------------------------------------------------
(* A failed link is undone.                                                *)

(* create_link_version that reports an error has restored the metadata.    *)
LEMMA LinkUndone ==
  ASSUME NEW f, NEW md, NEW v, NEW files, NEW o \in Link(f, md, v, files)
  PROVE  /\ o = [md |-> o.md, meta |-> o.meta, dfl |-> o.dfl,
                 files |-> o.files, ret |-> o.ret]
         /\ o.ret # 0 => o.md = md
         /\ o.ret = 0 => o.md = Linked(md, v)
         /\ o.ret \in {0, -1}
         /\ o.files = files
<1>1. \/ \E mf : o = Outcome(md, mf, dfl[f], files, -1)
      \/ \E mf, w : /\ w \in WriteDefault(f, Unpinned)
                    /\ o = Outcome(IF w.ret = 0 THEN Linked(md, v) ELSE md,
                                   mf, w.file, files, w.ret)
  BY DEF Link
<1>2. \A w \in WriteDefault(f, Unpinned) : w.ret \in {0, -1}
  BY DEF WriteDefault
<1>3. CASE \E mf : o = Outcome(md, mf, dfl[f], files, -1)
  BY <1>3 DEF Outcome
<1>4. CASE \E mf, w : /\ w \in WriteDefault(f, Unpinned)
                      /\ o = Outcome(IF w.ret = 0 THEN Linked(md, v) ELSE md,
                                     mf, w.file, files, w.ret)
  BY <1>2, <1>4 DEF Outcome
<1> QED
  BY <1>1, <1>3, <1>4

(* A file whose metadata a callback leaves in the cache as it found it is  *)
(* found the same by the next callback.                                    *)
LEMMA KnownKept ==
  ASSUME IInv, NEW f \in Files, NEW o, Become(f, o), o.md = Known(f), Known(f) # None
  PROVE  Known(f)' = Known(f)
<1>1. cache'[f] = Known(f)
  BY DEF Become, IInv, Stored
<1> QED
  BY <1>1 DEF Known

(* When open or truncate cannot use the file create_new_version left, the  *)
(* metadata is as before: an error was reported, or the served file, which *)
(* was there, is gone.                                                     *)
LEMMA NewVersionUndone ==
  ASSUME IInv, NEW f \in Files, MayVersion(f), NEW o \in NewVersion(f),
         store[f][Served(f).rfile] # None,
         ~ (o.ret # -1 /\ o.files[Current(o.md).rfile] # None)
  PROVE  o.md = Known(f) /\ o.ret = -1
<1> DEFINE md == Known(f)
           cur == Current(md)
           next == NextVersion(md, cur.uid)
           copied(d) == [store[f] EXCEPT ![next.rfile] = d]
<1>1. GoodMetadata(md) /\ cur = Served(f)
  BY KnownGood DEF MayVersion, Found, Served
<1>2. store[f] \in GoodFiles
  BY DEF IInv, Stored
<1>3. CASE md.recent
  <2>1. o = Unchanged(f, 0)
    BY <1>3 DEF NewVersion
  <2> QED
    BY <2>1, <1>1 DEF Unchanged, Outcome
<1>4. CASE ~ md.recent
  <2>1. /\ next.rfile = Head(md.versions).vid + 1
        /\ next.vid = Head(md.versions).vid + 1
        /\ Fits(md, next)
    BY <1>4 DEF NextVersion, MayVersion, Fits
  <2>2. cur.rfile \in Vids /\ next.rfile \in Vids /\ next \in Version /\ next.rfile # cur.rfile
        /\ Tops(next, md.versions)
    <3>1. cur \in Version /\ cur.rfile <= Head(md.versions).vid /\ Head(md.versions).vid \in Vids
      BY <1>1, CurrentFacts
    <3>2. cur.uid \in Users
      BY <3>1 DEF Version
    <3>3. next \in Version /\ Tops(next, md.versions)
      <4> HIDE DEF cur
      <4> QED
        BY <1>1, <2>1, <3>2, NextVersionGood DEF Fits
    <3> HIDE DEF next, cur, md
    <3> QED
      BY <2>1, <3>1, <3>3, BoundsAssumption DEF Version, Vids
  <2>3. CASE \E files \in Copies(f, cur.rfile, next.rfile) : o \in Link(f, md, next, files)
    <3>0. PICK d \in Data : o \in Link(f, md, next, copied(d))
      <4> HIDE DEF next, cur, md
      <4> QED
        BY <1>1, <2>2, <2>3, CopiesMade
    <3> HIDE DEF next, copied, cur, md
    <3>1. /\ o.ret # 0 => o.md = md
          /\ o.ret = 0 => o.md = Linked(md, next)
          /\ o.ret \in {0, -1}
          /\ o.files = copied(d)
      BY <3>0, LinkUndone
    <3>2. Current(Linked(md, next)) = next
      BY <1>1, <2>1, <2>2, LinkedGood
    <3>3. copied(d)[next.rfile] # None
      BY <1>2, <2>2, DaemonAssumption DEF copied, GoodFiles
    <3> QED
      BY <1>1, <3>1, <3>2, <3>3 DEF md
  <2>4. CASE \E files \in CopyFailures(f, next.rfile) :
               o = Outcome(md, meta[f], dfl[f], files, -2)
    <3>1. PICK files \in CopyFailures(f, next.rfile) :
            o = Outcome(md, meta[f], dfl[f], files, -2)
      BY <2>4
    <3>2. files[cur.rfile] = store[f][cur.rfile]
      <4> HIDE DEF next, cur, md
      <4>1. \/ files = store[f]
            \/ \E d \in Data : files = [store[f] EXCEPT ![next.rfile] = d]
        BY <3>1 DEF CopyFailures, CutShort
      <4> QED
        BY <1>2, <2>2, <4>1 DEF GoodFiles
    <3> QED
      BY <1>1, <3>1, <3>2 DEF Outcome
  <2> QED
    BY <1>1, <1>4, <2>3, <2>4 DEF NewVersion
<1> QED
  BY <1>3, <1>4

(* The calls that link a version, and what each knows when it fails.       *)
FailedIn(f, call) ==
  /\ reply'.call = call
  /\ reply'.file = f
  /\ ~ reply'.ok
  /\ Known(f) # None
  /\ call \in {"open", "truncate"} => store[f][Served(f).rfile] # None

(* open and truncate undo what they did.                                   *)
LEMMA VersionUndone ==
  ASSUME IInv, NEW f \in Files, NEW g \in Files, NEW call \in {"open", "truncate"},
         FailedIn(f, call), Open(g) \/ \E d \in Data : Truncate(g, d)
  PROVE  Known(f)' = Known(f)
<1>1. CASE Open(g)
  <2>1. PICK o \in NewVersion(g) :
          /\ Become(g, o)
          /\ reply' = Answer("open", g, None,
                             o.ret # -1 /\ o.files[Current(o.md).rfile] # None)
    BY <1>1 DEF Open
  <2>2. g = f /\ ~ (o.ret # -1 /\ o.files[Current(o.md).rfile] # None)
    BY <2>1 DEF FailedIn, Answer
  <2>3. o.md = Known(f)
    BY <1>1, <2>2, NewVersionUndone DEF Open, FailedIn
  <2> QED
    BY <2>1, <2>2, <2>3, KnownKept DEF FailedIn
<1>2. CASE \E d \in Data : Truncate(g, d)
  <2> DEFINE ok(o) == o.ret # -1 /\ o.files[Current(o.md).rfile] # None
             after(o, d) == [o EXCEPT !.md.recent = @ \/ o.ret # -1,
                               !.files = IF ok(o) THEN [@ EXCEPT ![Current(o.md).rfile] = d]
                                         ELSE @]
  <2>1. PICK d \in Data : Truncate(g, d)
    BY <1>2
  <2>2. PICK o \in NewVersion(g) :
          Become(g, after(o, d)) /\ reply' = Answer("truncate", g, None, ok(o))
    BY <2>1 DEF Truncate
  <2>3. g = f /\ ~ ok(o)
    BY <2>2 DEF FailedIn, Answer
  <2>4. o.md = Known(f) /\ o.ret = -1
    BY <2>1, <2>3, NewVersionUndone DEF Truncate, FailedIn
  <2>5. GoodMetadata(Known(f)) /\ Known(f).recent \in BOOLEAN
    BY KnownGood DEF FailedIn, GoodMetadata, Metadata
  <2>6. o = [md |-> o.md, meta |-> o.meta, dfl |-> o.dfl,
             files |-> o.files, ret |-> o.ret]
    BY <2>1, <2>3, NewVersionOutcomes DEF Truncate
  <2>7. after(o, d).md = Known(f)
    <3>1. after(o, d).md = [o.md EXCEPT !.recent = @ \/ o.ret # -1]
      BY <2>6
    <3>2. (Known(f).recent \/ o.ret # -1) = Known(f).recent
      BY <2>4, <2>5
    <3> QED
      BY <2>4, <2>5, <3>1, <3>2 DEF GoodMetadata, Metadata
  <2> HIDE DEF after
  <2> QED
    BY <2>2, <2>3, <2>7, KnownKept DEF FailedIn
<1> QED
  BY <1>1, <1>2

(* chmod and chown undo what they did.                                     *)
LEMMA SubversionUndone ==
  ASSUME IInv, NEW f \in Files, NEW g \in Files, NEW call \in Calls, FailedIn(f, call),
         (\E mode \in Modes : Chmod(g, mode)) \/ (\E uid \in Users : Chown(g, uid))
  PROVE  Known(f)' = Known(f)
<1>1. \E m, u, name, mode :
        \E o \in NewSubversion(g, m, u) :
          Become(g, o) /\ reply' = Answer(name, g, mode, o.ret = 0)
  BY DEF Chmod, Chown
<1>2. PICK m, u, name, mode :
        \E o \in NewSubversion(g, m, u) :
          Become(g, o) /\ reply' = Answer(name, g, mode, o.ret = 0)
  BY <1>1
<1>3. PICK o \in NewSubversion(g, m, u) :
        Become(g, o) /\ reply' = Answer(name, g, mode, o.ret = 0)
  BY <1>2
<1>4. g = f /\ o.ret # 0
  BY <1>3 DEF FailedIn, Answer
<1>5. o.md = Known(f)
  BY <1>4, LinkUndone DEF NewSubversion, Unchanged, Outcome
<1> QED
  BY <1>3, <1>4, <1>5, KnownKept DEF FailedIn

(* mknod of a file with metadata undoes what it did.                       *)
LEMMA CreateUndone ==
  ASSUME IInv, NEW f \in Files, NEW g \in Files, NEW call \in Calls, FailedIn(f, call),
         NEW mode \in Modes, NEW uid \in Users, Create(g, mode, uid)
  PROVE  Known(f)' = Known(f)
<1>1. CASE CreateRefused(g, mode)
  BY <1>1, KnownKept DEF CreateRefused, FailedIn, Answer, Unchanged, Outcome
<1>2. CASE CreateFirst(g, mode, uid)
  BY <1>2 DEF CreateFirst, FailedIn, Answer
<1>3. CASE CreateSkipped(g, mode)
  BY <1>3 DEF CreateSkipped, FailedIn, Answer
<1>4. CASE CreateAgain(g, mode, uid)
  <2> DEFINE after(o) == [o EXCEPT !.md.recent = (o.ret = 0)]
  <2>1. PICK o \in Link(g, Known(g), NextVersion(Known(g), uid), WithEmpty(g)) :
          Become(g, after(o)) /\ reply' = Answer("mknod", g, mode, o.ret = 0)
    BY <1>4 DEF CreateAgain
  <2>2. g = f /\ o.ret # 0
    BY <2>1 DEF FailedIn, Answer
  <2>3. /\ o.md = Known(f)
        /\ o = [md |-> o.md, meta |-> o.meta, dfl |-> o.dfl,
                files |-> o.files, ret |-> o.ret]
    BY <2>1, <2>2, LinkUndone
  <2>4. Known(f) \in Metadata /\ Known(f).recent = FALSE
    BY <1>4, <2>2, KnownGood DEF CreateAgain, FailedIn, GoodMetadata, Metadata
  <2>5. after(o).md = Known(f)
    <3>1. after(o).md = [Known(f) EXCEPT !.recent = FALSE]
      BY <2>2, <2>3
    <3> QED
      BY <2>4, <3>1 DEF Metadata
  <2> HIDE DEF after
  <2> QED
    BY <2>1, <2>2, <2>5, KnownKept DEF FailedIn
<1> QED
  BY <1>1, <1>2, <1>3, <1>4 DEF Create

(* After an error from open, truncate, chmod, chown, or mknod over a       *)
(* deleted file, whichever system calls failed, the file in memory is what *)
(* it was before the call.                                                 *)
THEOREM FailureIsUndone == Spec => FailedLinkUndone
<1> DEFINE Undone(f) ==
      /\ reply'.call \in {"open", "truncate", "chmod", "chown", "mknod"}
      /\ reply'.file = f /\ ~ reply'.ok /\ Known(f) # None
      /\ reply'.call \in {"open", "truncate"} => store[f][Served(f).rfile] # None
      => Known(f)' = Known(f)
<1>1. ASSUME IInv, Next, NEW f \in Files
      PROVE  Undone(f)
  <2> SUFFICES ASSUME NEW call \in {"open", "truncate", "chmod", "chown", "mknod"},
                      FailedIn(f, call)
               PROVE  Known(f)' = Known(f)
    BY DEF FailedIn
  <2>1. call \in Calls
    BY DEF Calls
  <2>2. CASE \E g \in Files : Open(g) \/ \E d \in Data : Truncate(g, d)
    <3>1. \E g, ok : \E name \in {"open", "truncate"} : reply' = Answer(name, g, None, ok)
      BY <2>2 DEF Open, Truncate
    <3>2. call \in {"open", "truncate"}
      BY <3>1 DEF FailedIn, Answer
    <3> QED
      BY <1>1, <2>2, <3>2, VersionUndone
  <2>3. CASE \E g \in Files : \E mode \in Modes, uid \in Users : Create(g, mode, uid)
    BY <1>1, <2>1, <2>3, CreateUndone
  <2>4. CASE \E g \in Files :
               (\E mode \in Modes : Chmod(g, mode)) \/ (\E uid \in Users : Chown(g, uid))
    BY <1>1, <2>1, <2>4, SubversionUndone
  <2>5. CASE \E g \in Files : \/ \E d \in Data : Write(g, d)
                              \/ Unlink(g)
                              \/ \E pin \in Locks, uid \in Users : Lock(g, pin, uid)
    <3>1. \E g, ok : \E name \in {"write", "unlink", "lock"} :
            reply' = Answer(name, g, None, ok)
      BY <2>5 DEF Write, Unlink, Lock
    <3> QED
      BY <3>1 DEF FailedIn, Answer
  <2>6. CASE \E g \in Files : PurgeAll(g) \/ \E n \in 0 .. MaxLen : PurgeOldest(g, n)
    <3>1. \E g, ok : reply' = Answer("purge", g, None, ok)
      BY <2>6 DEF PurgeAll, PurgeOldest
    <3> QED
      BY <3>1 DEF FailedIn, Answer
  <2>7. CASE Tick \/ Restart \/ \E g \in Files : Close(g) \/ Lookup(g)
    BY <2>7 DEF Tick, Restart, Close, Lookup, FailedIn, NoAnswer, Answer
  <2> QED
    BY <1>1, <2>2, <2>3, <2>4, <2>5, <2>6, <2>7 DEF Next, Callback
<1>2. IInv /\ [Next]_vars => [\A f \in Files : Undone(f)]_vars
  BY <1>1
<1> QED
  BY <1>2, Invariance, PTL DEF Spec, FailedLinkUndone

-----------------------------------------------------------------------------
(* Every listed version can be read.                                       *)

OnFiles(vs, files) == \A i \in DOMAIN vs : files[vs[i].rfile] # None

(* What is listed in memory and what a restart would list are both there.  *)
BackedFile(f) ==
  /\ cache[f] # None => OnFiles(cache[f].versions, store[f])
  /\ meta[f] # None => OnFiles(meta[f].lines, store[f])

Backed == \A f \in Files : ~ culled[f] => BackedFile(f)

(* The same of what a callback makes of a file.                            *)
Backs(o) ==
  /\ o.md # None => OnFiles(o.md.versions, o.files)
  /\ o.meta # None => OnFiles(o.meta.lines, o.files)

Keeps(old, new) == \A s \in Vids : old[s] # None => new[s] # None

-----------------------------------------------------------------------------
(* Lists.                                                                  *)
LEMMA KeptOn ==
  ASSUME NEW vs \in Seq(Version), NEW old, NEW new, OnFiles(vs, old), Keeps(old, new)
  PROVE  OnFiles(vs, new)
<1> SUFFICES ASSUME NEW i \in DOMAIN vs PROVE new[vs[i].rfile] # None
  BY DEF OnFiles
<1>1. vs[i] \in Version
  OBVIOUS
<1> QED
  BY <1>1 DEF OnFiles, Keeps, Version

LEMMA ReversedOn ==
  ASSUME NEW vs \in Seq(Version), NEW files, OnFiles(vs, files)
  PROVE  /\ OnFiles(Reverse(vs), files)
         /\ \A n \in 0 .. Len(vs) : OnFiles(SubSeq(Reverse(vs), 1, n), files)
<1> DEFINE rev == Reverse(vs)
<1>1. rev \in Seq(Version) /\ Len(rev) = Len(vs)
      /\ \A i \in 1 .. Len(vs) : rev[i] = vs[Len(vs) - i + 1]
  BY ReverseFacts
<1> HIDE DEF rev
<1>2. ASSUME NEW i \in 1 .. Len(vs)
      PROVE  files[rev[i].rfile] # None
  <2>1. Len(vs) - i + 1 \in DOMAIN vs
    OBVIOUS
  <2> QED
    BY <1>1, <2>1 DEF OnFiles
<1>3. ASSUME NEW n \in 0 .. Len(vs)
      PROVE  OnFiles(SubSeq(rev, 1, n), files)
  <2>1. /\ DOMAIN SubSeq(rev, 1, n) = 1 .. n
        /\ \A i \in 1 .. n : SubSeq(rev, 1, n)[i] = rev[i]
    BY <1>1
  <2>2. \A i \in 1 .. n : i \in 1 .. Len(vs)
    OBVIOUS
  <2> QED
    BY <1>2, <2>1, <2>2 DEF OnFiles
<1>4. OnFiles(rev, files)
  BY <1>1, <1>2 DEF OnFiles
<1> QED
  BY <1>3, <1>4 DEF rev

LEMMA KnownOn ==
  ASSUME IInv, NEW f \in Files, BackedFile(f), Known(f) # None
  PROVE  OnFiles(Known(f).versions, store[f])
<1>1. CASE cache[f] # None
  BY <1>1 DEF Known, BackedFile
<1>2. CASE cache[f] = None
  <2>1. meta[f] # None /\ Known(f).versions = Reverse(meta[f].lines)
    BY <1>2 DEF Known, Parsed
  <2>2. meta[f].lines \in Seq(Version)
    BY <2>1 DEF IInv, Stored, GoodFile, MetaFile
  <2> QED
    BY <2>1, <2>2, ReversedOn DEF BackedFile
<1> QED
  BY <1>1, <1>2

LEMMA CurrentOn ==
  ASSUME NEW md, GoodMetadata(md), NEW files, OnFiles(md.versions, files)
  PROVE  files[Current(md).rfile] # None
  BY CurrentListed DEF OnFiles

(* Whatever write_metadata_file leaves.                                    *)
LEMMA WriteMetaOn ==
  ASSUME NEW f \in Files, NEW md, GoodMetadata(md), NEW files,
         OnFiles(md.versions, files),
         meta[f] # None => OnFiles(meta[f].lines, files),
         NEW w \in WriteMeta(f, md)
  PROVE  w.file # None => OnFiles(w.file.lines, files)
<1>1. md.versions \in Seq(Version)
  BY DEF GoodMetadata, GoodList
<1>2. CASE w = [file |-> Image(md), ret |-> 0]
  BY <1>1, <1>2, ReversedOn DEF Image
<1>3. CASE w = [file |-> meta[f], ret |-> -1]
  BY <1>3
<1>4. CASE \E mf \in Torn(md), ret \in {0, -1} : w = [file |-> mf, ret |-> ret]
  <2>1. PICK mf \in Torn(md) : w.file = mf
    BY <1>4
  <2>2. PICK n \in 0 .. Len(md.versions) : mf.lines = SubSeq(Reverse(md.versions), 1, n)
    BY DEF Torn
  <2> QED
    BY <1>1, <2>1, <2>2, ReversedOn
<1> QED
  BY <1>2, <1>3, <1>4 DEF WriteMeta

(* create_link_version of a version whose backing file is there.           *)
LEMMA LinkOn ==
  ASSUME NEW f \in Files, NEW md, GoodMetadata(md), NEW files,
         NEW v \in Version, Tops(v, md.versions), files[v.rfile] # None,
         OnFiles(md.versions, files),
         meta[f] # None => OnFiles(meta[f].lines, files),
         NEW o \in Link(f, md, v, files)
  PROVE  Backs(o)
<1> DEFINE new == Linked(md, v)
<1>1. GoodMetadata(new)
  BY LinkedGood
<1>2. OnFiles(new.versions, files)
  <2>1. md.versions \in Seq(Version) /\ new.versions = <<v>> \o md.versions
    BY DEF GoodMetadata, GoodList, Metadata, Linked
  <2>2. /\ DOMAIN new.versions = 1 .. Len(md.versions) + 1
        /\ new.versions[1] = v
        /\ \A i \in 2 .. Len(md.versions) + 1 :
             i - 1 \in DOMAIN md.versions /\ new.versions[i] = md.versions[i - 1]
    BY <2>1
  <2> HIDE DEF new
  <2> SUFFICES ASSUME NEW i \in 1 .. Len(md.versions) + 1
               PROVE  files[new.versions[i].rfile] # None
    BY <2>2 DEF OnFiles
  <2>3. CASE i = 1
    BY <2>2, <2>3
  <2>4. CASE i # 1
    <3>1. i \in 2 .. Len(md.versions) + 1
      BY <2>1, <2>4
    <3> QED
      BY <2>2, <3>1 DEF OnFiles
  <2> QED
    BY <2>3, <2>4
<1> HIDE DEF new
<1>3. \A w \in WriteMeta(f, new) : w.file # None => OnFiles(w.file.lines, files)
  BY <1>1, <1>2, WriteMetaOn
<1>4. CASE \E w \in WriteMeta(f, new) : o = Outcome(md, w.file, dfl[f], files, -1)
  BY <1>3, <1>4 DEF Outcome, Backs
<1>5. CASE \E x \in WriteMeta(f, new), w \in WriteDefault(f, Unpinned) :
             o = Outcome(IF w.ret = 0 THEN new ELSE md, x.file, w.file, files, w.ret)
  BY <1>2, <1>3, <1>5 DEF Outcome, Backs
<1> QED
  BY <1>4, <1>5 DEF Link, new

(* create_new_version: the copy is made before the version is linked.      *)
LEMMA NewVersionOn ==
  ASSUME IInv, NEW f \in Files, BackedFile(f), MayVersion(f), NEW o \in NewVersion(f)
  PROVE  Backs(o)
<1> DEFINE md == Known(f)
           cur == Current(md)
           next == NextVersion(md, cur.uid)
           target(d) == [store[f] EXCEPT ![next.rfile] = d]
<1>1. GoodMetadata(md) /\ md.versions \in Seq(Version)
  BY KnownGood DEF MayVersion, Found, GoodMetadata, GoodList
<1>2. OnFiles(md.versions, store[f])
  BY <1>1, KnownOn DEF MayVersion, Found
<1>3. meta[f] # None => meta[f].lines \in Seq(Version) /\ OnFiles(meta[f].lines, store[f])
  BY DEF IInv, Stored, GoodFile, MetaFile, BackedFile
<1>4. DOMAIN store[f] = Vids
  BY DEF IInv, Stored, GoodFiles
<1>5. \A d : d # None => Keeps(store[f], target(d))
  BY <1>4 DEF Keeps
<1>6. CASE o \in {Unchanged(f, 0), Unchanged(f, -1)}
  BY <1>2, <1>3, <1>6 DEF Unchanged, Outcome, Backs
<1>7. CASE /\ ~ md.recent
           /\ store[f][cur.rfile] # None
           /\ \E files \in Copies(f, cur.rfile, next.rfile) : o \in Link(f, md, next, files)
  <2>1. cur.uid \in Users
    BY <1>1, CurrentFacts DEF Version
  <2>2. Fits(md, next)
    BY <1>7 DEF MayVersion, Fits, NextVersion
  <2>3. next \in Version /\ Tops(next, md.versions) /\ next.rfile \in Vids
    <3> HIDE DEF cur, md
    <3> QED
      BY <1>1, <2>1, <2>2, NextVersionGood DEF Version, Fits
  <2>6. PICK d \in Data : o \in Link(f, md, next, target(d))
    <3>1. cur.rfile \in Vids
      BY <1>1, CurrentFacts DEF Version
    <3> HIDE DEF cur, next, md
    <3> QED
      BY <1>7, <3>1, CopiesMade
  <2> DEFINE files == target(d)
  <2>4. files[next.rfile] # None
    BY <1>4, <2>3, DaemonAssumption
  <2>5. Keeps(store[f], files)
    BY <1>5, DaemonAssumption
  <2>7. o \in Link(f, md, next, files)
    BY <2>6
  <2> HIDE DEF files, next, cur, md
  <2>8. OnFiles(md.versions, files) /\ (meta[f] # None => OnFiles(meta[f].lines, files))
    BY <1>1, <1>2, <1>3, <2>5, KeptOn
  <2> QED
    BY <1>1, <2>3, <2>4, <2>7, <2>8, LinkOn
<1>8. CASE \E files \in CopyFailures(f, next.rfile) : o = Outcome(md, meta[f], dfl[f], files, -2)
  <2>1. PICK files \in CopyFailures(f, next.rfile) : o = Outcome(md, meta[f], dfl[f], files, -2)
    BY <1>8
  <2>2. files = store[f] \/ \E d \in Data : files = target(d)
    BY DEF CopyFailures, CutShort
  <2>3. Keeps(store[f], files)
    BY <1>5, <2>2, DaemonAssumption DEF Keeps
  <2> HIDE DEF next, cur, md
  <2>4. OnFiles(md.versions, files) /\ (meta[f] # None => OnFiles(meta[f].lines, files))
    BY <1>1, <1>2, <1>3, <2>3, KeptOn
  <2> QED
    BY <2>1, <2>4 DEF Outcome, Backs
<1> QED
  BY <1>6, <1>7, <1>8 DEF NewVersion

(* create_new_subversion: on the file of the version that is served.       *)
LEMMA NewSubversionOn ==
  ASSUME IInv, NEW f \in Files, BackedFile(f), NEW mode \in Modes, NEW uid \in Users,
         MaySubversion(f, mode, uid), NEW o \in NewSubversion(f, mode, uid)
  PROVE  Backs(o)
<1> DEFINE md == Known(f)
           next == NextSubversion(md, mode, uid)
<1>1. GoodMetadata(md) /\ OnFiles(md.versions, store[f])
  BY KnownGood, KnownOn DEF MaySubversion, Found
<1>2. meta[f] # None => OnFiles(meta[f].lines, store[f])
  BY DEF BackedFile
<1>3. CASE md.recent
  BY <1>1, <1>2, <1>3 DEF NewSubversion, Unchanged, Outcome, Backs
<1>4. CASE ~ md.recent
  <2>1. Fits(md, next) /\ o \in Link(f, md, next, store[f])
    BY <1>4 DEF MaySubversion, NewSubversion
  <2>2. next.rfile = Current(md).rfile
    BY DEF NextSubversion
  <2>3. next \in Version /\ Tops(next, md.versions)
    <3> HIDE DEF md
    <3> QED
      BY <1>1, <2>1, NextSubversionGood DEF Fits
  <2>4. store[f][next.rfile] # None
    <3> HIDE DEF next, md
    <3> QED
      BY <1>1, <2>2, CurrentOn
  <2> HIDE DEF next, md
  <2> QED
    BY <1>1, <1>2, <2>1, <2>3, <2>4, LinkOn
<1> QED
  BY <1>3, <1>4

-----------------------------------------------------------------------------
(* Steps.                                                                  *)
LEMMA BackedBecome ==
  ASSUME IInv, Backed, NEW f \in Files, NEW o, Become(f, o),
         BackedFile(f) /\ ~ culled[f] => Backs(o), UNCHANGED culled
  PROVE  Backed'
<1> SUFFICES ASSUME NEW g \in Files, ~ culled[g], BackedFile(g)
             PROVE  BackedFile(g)'
  BY DEF Backed
<1>1. CASE g = f
  <2>1. cache'[g] = o.md /\ meta'[g] = o.meta /\ store'[g] = o.files
    BY <1>1 DEF Become, IInv, Stored
  <2> QED
    BY <1>1, <2>1 DEF BackedFile, Backs
<1>2. CASE g # f
  <2>1. cache'[g] = cache[g] /\ meta'[g] = meta[g] /\ store'[g] = store[g]
    BY <1>2 DEF Become, IInv, Stored
  <2> QED
    BY <2>1 DEF BackedFile
<1> QED
  BY <1>1, <1>2

(* What was there before stays there when only a file is added.            *)
LEMMA AddedOn ==
  ASSUME IInv, NEW f \in Files, BackedFile(f), NEW files, Keeps(store[f], files)
  PROVE  /\ Known(f) # None => OnFiles(Known(f).versions, files)
         /\ meta[f] # None => OnFiles(meta[f].lines, files)
<1>1. Known(f) # None =>
        Known(f).versions \in Seq(Version) /\ OnFiles(Known(f).versions, store[f])
  BY KnownGood, KnownOn DEF GoodMetadata, GoodList
<1>2. meta[f] # None => meta[f].lines \in Seq(Version) /\ OnFiles(meta[f].lines, store[f])
  BY DEF IInv, Stored, GoodFile, MetaFile, BackedFile
<1> QED
  BY <1>1, <1>2, KeptOn

LEMMA CreateBacked ==
  ASSUME IInv, Backed, NEW f \in Files, NEW mode \in Modes, NEW uid \in Users,
         Create(f, mode, uid)
  PROVE  Backed'
<1> DEFINE files == WithEmpty(f)
<1>1. UNCHANGED culled
  BY DEF Create, CreateRefused, CreateFirst, CreateAgain, CreateSkipped, history
<1>2. DOMAIN store[f] = Vids /\ Empty # None
  BY DaemonAssumption DEF IInv, Stored, GoodFiles
<1>3. CreateSerial(f) \in Vids => Keeps(store[f], files) /\ files[CreateSerial(f)] # None
  BY <1>2 DEF Keeps, WithEmpty
<1> HIDE DEF files
<1>4. CASE CreateRefused(f, mode)
  <2>1. Keeps(store[f], store[f])
    BY DEF Keeps
  <2>2. BackedFile(f) => Backs(Unchanged(f, -1))
    BY <2>1, AddedOn DEF Unchanged, Outcome, Backs
  <2> QED
    BY <1>1, <1>4, <2>2, BackedBecome DEF CreateRefused
<1>5. CASE CreateFirst(f, mode, uid)
  <2> DEFINE md == [versions |-> <<FirstVersion(mode, uid)>>, deleted |-> FALSE,
                    dfl |-> Unpinned, recent |-> TRUE]
  <2>1. PICK w \in WriteMeta(f, md) : Become(f, Outcome(md, w.file, dfl[f], files, w.ret))
    BY <1>5 DEF CreateFirst, files
  <2>2. CreateSerial(f) = 1 /\ 1 \in Vids
    BY <1>5, BoundsAssumption DEF CreateFirst, CreateSerial, Vids
  <2>3. FirstVersion(mode, uid) \in Version
        /\ FirstVersion(mode, uid).rfile = 1 /\ FirstVersion(mode, uid).vid = 1
    BY BoundsAssumption DEF FirstVersion, Version, Vids, Svids
  <2>4. GoodMetadata(md)
    <3>1. GoodList(<<FirstVersion(mode, uid)>>)
      BY <2>3 DEF GoodList, Descending, SerialsBounded, Sharing
    <3> QED
      BY <3>1 DEF GoodMetadata, GoodList, Metadata, Unpinned, Pin
  <2>5. OnFiles(md.versions, files)
    BY <1>3, <2>2, <2>3 DEF OnFiles
  <2> HIDE DEF md
  <2>6. BackedFile(f) => Backs(Outcome(md, w.file, dfl[f], files, w.ret))
    BY <1>3, <2>2, <2>4, <2>5, AddedOn, WriteMetaOn DEF Outcome, Backs
  <2> QED
    BY <1>1, <2>1, <2>6, BackedBecome
<1>6. CASE CreateAgain(f, mode, uid)
  <2> DEFINE v == NextVersion(Known(f), uid)
             after(o) == [o EXCEPT !.md.recent = (o.ret = 0)]
  <2>1. PICK o \in Link(f, Known(f), v, files) : Become(f, after(o))
    BY <1>6 DEF CreateAgain, files
  <2>2. GoodMetadata(Known(f)) /\ Known(f) # None
    BY <1>6, KnownGood DEF CreateAgain
  <2>3. v \in Version /\ Tops(v, Known(f).versions)
    BY <1>6, <2>2, NextVersionGood DEF CreateAgain, Fits
  <2>4. files[v.rfile] # None /\ Keeps(store[f], files)
    BY <1>3, <1>6 DEF CreateAgain, MakesBacking, CreateSerial, NextVersion
  <2>5. WithEmpty(f) \in GoodFiles
    BY <1>6, DaemonAssumption DEF CreateAgain, MakesBacking, WithEmpty, IInv, Stored, GoodFiles
  <2> HIDE DEF v
  <2>6. BackedFile(f) => Backs(o)
    BY <2>2, <2>3, <2>4, AddedOn, LinkOn
  <2>7. GoodMetadata(o.md) /\ o = [md |-> o.md, meta |-> o.meta, dfl |-> o.dfl,
                                   files |-> o.files, ret |-> o.ret]
    BY <2>2, <2>3, <2>5, LinkGood, LinkedGood DEF files
  <2>8. /\ after(o).md.versions = o.md.versions /\ after(o).meta = o.meta
        /\ after(o).files = o.files /\ o.md # None
    BY <2>7, NoneAssumption DEF GoodMetadata, Metadata
  <2>9. BackedFile(f) => Backs(after(o))
    BY <2>6, <2>8 DEF Backs
  <2> QED
    BY <1>1, <2>1, <2>9, BackedBecome
<1>7. CASE CreateSkipped(f, mode)
  <2>1. Keeps(store[f], files)
    BY <1>3, <1>7 DEF CreateSkipped, MakesBacking
  <2>2. BackedFile(f) => Backs(Outcome(Known(f), meta[f], dfl[f], files, 0))
    BY <2>1, AddedOn DEF Outcome, Backs
  <2> QED
    BY <1>1, <1>7, <2>2, BackedBecome DEF CreateSkipped, files
<1> QED
  BY <1>4, <1>5, <1>6, <1>7 DEF Create

LEMMA OpenBacked ==
  ASSUME IInv, Backed, NEW f \in Files, Open(f)
  PROVE  Backed'
<1>1. PICK o \in NewVersion(f) : Become(f, o)
  BY DEF Open
<1>2. MayVersion(f) /\ UNCHANGED culled
  BY DEF Open, history
<1> QED
  BY <1>1, <1>2, NewVersionOn, BackedBecome

LEMMA TruncateBacked ==
  ASSUME IInv, Backed, NEW f \in Files, NEW d \in Data, Truncate(f, d)
  PROVE  Backed'
<1> DEFINE target(o) == Current(o.md).rfile
           ok(o) == o.ret # -1 /\ o.files[target(o)] # None
           cut(o) == IF ok(o) THEN [o.files EXCEPT ![target(o)] = d] ELSE o.files
           after(o) == [o EXCEPT !.md.recent = @ \/ o.ret # -1,
                                 !.files = IF ok(o) THEN [@ EXCEPT ![target(o)] = d]
                                                    ELSE @]
<1>1. PICK o \in NewVersion(f) : Become(f, after(o))
  BY DEF Truncate
<1>2. MayVersion(f) /\ UNCHANGED culled
  BY DEF Truncate, history
<1>3. /\ GoodOutcome(o) /\ GoodMetadata(o.md)
      /\ o = [md |-> o.md, meta |-> o.meta, dfl |-> o.dfl,
              files |-> o.files, ret |-> o.ret]
  BY <1>2, NewVersionOutcomes
<1>4. /\ after(o).md.versions = o.md.versions /\ o.md # None
      /\ after(o).meta = o.meta
      /\ after(o).files = cut(o)
  BY <1>3, NoneAssumption DEF GoodMetadata, Metadata
<1>5. Keeps(o.files, cut(o))
  BY <1>3, DaemonAssumption DEF Keeps, GoodOutcome, GoodFiles
<1>6. /\ o.md.versions \in Seq(Version)
      /\ o.meta # None => o.meta.lines \in Seq(Version)
  BY <1>3 DEF GoodOutcome, GoodMetadata, GoodList, GoodFile, MetaFile
<1> HIDE DEF cut, after
<1>7. ASSUME BackedFile(f)
      PROVE  Backs(after(o))
  <2>1. Backs(o)
    BY <1>2, <1>7, NewVersionOn
  <2>2. OnFiles(o.md.versions, cut(o)) /\ (o.meta # None => OnFiles(o.meta.lines, cut(o)))
    BY <1>4, <1>5, <1>6, <2>1, KeptOn DEF Backs
  <2> QED
    BY <1>4, <2>2 DEF Backs
<1> QED
  BY <1>1, <1>2, <1>7, BackedBecome

LEMMA WriteBacked ==
  ASSUME IInv, Backed, NEW f \in Files, NEW d \in Data, Write(f, d)
  PROVE  Backed'
<1> DEFINE target == Served(f).rfile
           ok == Found(f) /\ store[f][target] # None
           files == IF ok THEN [store[f] EXCEPT ![target] = d] ELSE store[f]
           o == Outcome(IF Found(f) THEN Known(f) ELSE cache[f],
                        meta[f], dfl[f], files, 0)
<1>1. Become(f, o) /\ UNCHANGED culled
  BY DEF Write, history
<1>2. Keeps(store[f], files)
  BY DaemonAssumption DEF Keeps, IInv, Stored, GoodFiles
<1> HIDE DEF files
<1>3. o.md # None => o.md = Known(f) /\ Known(f) # None
  BY DEF Outcome, Known, Found
<1>4. BackedFile(f) => Backs(o)
  BY <1>2, <1>3, AddedOn DEF Outcome, Backs
<1> HIDE DEF o
<1> QED
  BY <1>1, <1>4, BackedBecome

LEMMA ChmodBacked ==
  ASSUME IInv, Backed, NEW f \in Files, NEW mode \in Modes, Chmod(f, mode)
  PROVE  Backed'
<1>1. PICK o \in NewSubversion(f, mode, Served(f).uid) : Become(f, o)
  BY DEF Chmod
<1>2. Served(f).uid \in Users
  BY KnownGood, CurrentFacts DEF Chmod, MaySubversion, Found, Served, Version
<1>3. MaySubversion(f, mode, Served(f).uid) /\ UNCHANGED culled
  BY DEF Chmod, history
<1> QED
  BY <1>1, <1>2, <1>3, NewSubversionOn, BackedBecome

LEMMA ChownBacked ==
  ASSUME IInv, Backed, NEW f \in Files, NEW uid \in Users, Chown(f, uid)
  PROVE  Backed'
<1>1. PICK o \in NewSubversion(f, Served(f).mode, uid) : Become(f, o)
  BY DEF Chown
<1>2. Served(f).mode \in Modes
  BY KnownGood, CurrentFacts DEF Chown, MaySubversion, Found, Served, Version
<1>3. MaySubversion(f, Served(f).mode, uid) /\ UNCHANGED culled
  BY DEF Chown, history
<1> QED
  BY <1>1, <1>2, <1>3, NewSubversionOn, BackedBecome

LEMMA UnlinkBacked ==
  ASSUME IInv, Backed, NEW f \in Files, Unlink(f)
  PROVE  Backed'
<1>1. Known(f) # None /\ UNCHANGED culled /\ Keeps(store[f], store[f])
  BY DEF Unlink, Found, history, Keeps
<1>2. CASE store[f][Served(f).rfile] = None
  <2>1. Become(f, Unchanged(f, -1))
    BY <1>2 DEF Unlink
  <2>2. BackedFile(f) => Backs(Unchanged(f, -1))
    BY <1>1, AddedOn DEF Unchanged, Outcome, Backs
  <2> QED
    BY <1>1, <2>1, <2>2, BackedBecome
<1>3. CASE store[f][Served(f).rfile] # None
  <2> DEFINE md == [Known(f) EXCEPT !.deleted = TRUE]
  <2>1. PICK w \in WriteMeta(f, md) :
          Become(f, Outcome(md, w.file, dfl[f], store[f], w.ret))
    BY <1>3 DEF Unlink
  <2>2. GoodMetadata(md) /\ md.versions = Known(f).versions
    BY <1>1, KnownGood DEF GoodMetadata, Metadata
  <2> HIDE DEF md
  <2>3. BackedFile(f) => Backs(Outcome(md, w.file, dfl[f], store[f], w.ret))
    BY <1>1, <2>2, AddedOn, WriteMetaOn DEF Outcome, Backs
  <2> QED
    BY <1>1, <2>1, <2>3, BackedBecome
<1> QED
  BY <1>2, <1>3

LEMMA LockBacked ==
  ASSUME IInv, Backed, NEW f \in Files, NEW pin \in Locks, NEW uid \in Users,
         Lock(f, pin, uid)
  PROVE  Backed'
<1> DEFINE md(w) == IF w.ret = 0 THEN [Known(f) EXCEPT !.dfl = pin] ELSE Known(f)
<1>1. PICK w \in WriteDefault(f, pin) :
        Become(f, Outcome(md(w), meta[f], w.file, store[f], w.ret))
  BY DEF Lock
<1>2. Known(f) # None /\ UNCHANGED culled /\ Keeps(store[f], store[f])
  BY DEF Lock, Found, history, Keeps
<1>3. md(w).versions = Known(f).versions
  BY <1>2, KnownGood DEF GoodMetadata, Metadata
<1> HIDE DEF md
<1>4. BackedFile(f) => Backs(Outcome(md(w), meta[f], w.file, store[f], w.ret))
  BY <1>2, <1>3, AddedOn DEF Outcome, Backs
<1> QED
  BY <1>1, <1>2, <1>4, BackedBecome

(* A purge of all versions that leaves the metadata file counts as one of  *)
(* some of them.                                                           *)
LEMMA PurgeAllBacked ==
  ASSUME IInv, Backed, NEW f \in Files, PurgeAll(f)
  PROVE  Backed'
<1> SUFFICES ASSUME NEW g \in Files, ~ culled'[g]
             PROVE  BackedFile(g)'
  BY DEF Backed
<1>1. CASE g = f
  <2>1. cache'[g] = None /\ meta'[g] = None
    BY <1>1 DEF PurgeAll, IInv, Stored, Noted
  <2> QED
    BY <2>1 DEF BackedFile
<1>2. CASE g # f
  <2>1. /\ cache'[g] \in {cache[g], None} /\ meta'[g] = meta[g] /\ store'[g] = store[g]
        /\ culled'[g] = culled[g]
    BY <1>2 DEF PurgeAll, IInv, Stored, Noted
  <2> QED
    BY <2>1 DEF Backed, BackedFile
<1> QED
  BY <1>1, <1>2

LEMMA PurgeOldestBacked ==
  ASSUME IInv, Backed, NEW f \in Files, NEW n \in 0 .. MaxLen, PurgeOldest(f, n)
  PROVE  Backed'
<1> DEFINE vs == Known(f).versions
           md == Culled(Known(f), Len(vs) - n)
           gone == { vs[i] : i \in Len(vs) - n + 1 .. Len(vs) }
           o(w) == Outcome(md, w.file, dfl[f], WithoutFiles(f, gone), w.ret)
<1>1. PICK w \in WriteMeta(f, md) : Become(f, o(w))
  BY DEF PurgeOldest
<1>2. culled' = [culled EXCEPT ![f] = @ \/ n > 0] /\ culled \in [Files -> BOOLEAN]
  BY DEF PurgeOldest, IInv, Noted
<1>3. GoodMetadata(Known(f)) /\ vs \in Seq(Version) /\ GoodList(vs) /\ Known(f) # None
  BY KnownGood DEF PurgeOldest, Found, GoodMetadata, GoodList
<1>4. CASE n = 0
  <2>1. UNCHANGED culled
    <3>1. \A b \in BOOLEAN : (b \/ n > 0) = b
      BY <1>4
    <3> QED
      BY <1>2, <3>1
  <2>2. Len(vs) \in Nat /\ Len(vs) - n = Len(vs) /\ SubSeq(vs, 1, Len(vs)) = vs
    BY <1>3, <1>4
  <2>3. md.versions = vs
    BY <1>3, <2>2 DEF Culled, GoodMetadata, Metadata
  <2>4. GoodMetadata(md)
    BY <1>3, <2>3 DEF Culled, GoodMetadata, Metadata
  <2>5. Keeps(store[f], WithoutFiles(f, gone))
    BY <1>4, <2>2 DEF WithoutFiles, Keeps
  <2> HIDE DEF md, gone
  <2>6. BackedFile(f) => Backs(o(w))
    BY <1>3, <2>3, <2>4, <2>5, AddedOn, WriteMetaOn DEF Outcome, Backs
  <2> QED
    BY <1>1, <2>1, <2>6, BackedBecome
<1>5. CASE n # 0
  <2> SUFFICES ASSUME NEW g \in Files, ~ culled'[g]
               PROVE  BackedFile(g)'
    BY DEF Backed
  <2>1. g # f /\ ~ culled[g]
    <3>1. n > 0
      BY <1>5
    <3>2. culled' = [culled EXCEPT ![f] = TRUE]
      <4>1. \A b \in BOOLEAN : (b \/ n > 0) = TRUE
        BY <3>1
      <4>2. (culled[f] \/ n > 0) = TRUE
        BY <1>2, <4>1
      <4> QED
        BY <1>2, <4>2
    <3>3. culled'[f] = TRUE /\ \A h \in Files : h # f => culled'[h] = culled[h]
      BY <1>2, <3>2
    <3> QED
      BY <3>3
  <2>2. cache'[g] = cache[g] /\ meta'[g] = meta[g] /\ store'[g] = store[g]
    BY <1>1, <2>1 DEF Become, IInv, Stored
  <2> QED
    BY <2>1, <2>2 DEF Backed, BackedFile
<1> QED
  BY <1>4, <1>5

LEMMA LookupBacked ==
  ASSUME IInv, Backed, NEW f \in Files, Lookup(f)
  PROVE  Backed'
<1> SUFFICES ASSUME NEW g \in Files, ~ culled[g], BackedFile(g)
             PROVE  BackedFile(g)'
  BY DEF Backed, Lookup, history
<1>1. UNCHANGED <<meta, store>>
  BY DEF Lookup, disk
<1>2. CASE g = f
  <2>1. cache'[g] = Known(g) /\ Known(g) # None
    BY <1>2 DEF Lookup, Found, IInv, Stored
  <2>2. OnFiles(Known(g).versions, store[g])
    BY <2>1, KnownOn
  <2> QED
    BY <1>1, <2>1, <2>2 DEF BackedFile
<1>3. CASE g # f
  <2>1. cache'[g] = cache[g]
    BY <1>3 DEF Lookup, IInv, Stored
  <2> QED
    BY <1>1, <2>1 DEF BackedFile
<1> QED
  BY <1>2, <1>3

LEMMA TickBacked ==
  ASSUME IInv, Backed, Tick
  PROVE  Backed'
<1> SUFFICES ASSUME NEW g \in Files, ~ culled[g], BackedFile(g)
             PROVE  BackedFile(g)'
  BY DEF Backed, Tick, history
<1>1. UNCHANGED <<meta, store>>
  BY DEF Tick, disk
<1>2. CASE cache[g] = None
  BY <1>1, <1>2 DEF Tick, BackedFile
<1>3. CASE cache[g] # None
  <2>1. cache'[g].versions = cache[g].versions
    <3>1. cache[g] \in Metadata
      BY <1>3 DEF IInv, Stored, GoodMetadata
    <3>2. cache'[g] = [cache[g] EXCEPT !.recent = FALSE]
      BY <1>3 DEF Tick
    <3> QED
      BY <3>1, <3>2 DEF Metadata
  <2> QED
    BY <1>1, <1>3, <2>1 DEF BackedFile
<1> QED
  BY <1>2, <1>3

LEMMA NextBacked == IInv /\ Backed /\ [Next]_vars => Backed'
<1> SUFFICES ASSUME IInv, Backed, [Next]_vars PROVE Backed'
  OBVIOUS
<1>1. ASSUME NEW f \in Files, Close(f)
      PROVE  Backed'
  BY <1>1 DEF Close, disk, history, Backed, BackedFile
<1>2. CASE Restart
  BY <1>2 DEF Restart, disk, history, Backed, BackedFile
<1>3. CASE UNCHANGED vars
  BY <1>3 DEF vars, Backed, BackedFile
<1> QED
  BY <1>1, <1>2, <1>3, CreateBacked, OpenBacked, WriteBacked, TruncateBacked,
     ChmodBacked, ChownBacked, UnlinkBacked, LockBacked, PurgeAllBacked,
     PurgeOldestBacked, LookupBacked, TickBacked
  DEF Next, Callback

-----------------------------------------------------------------------------
(* Every listed version can be read: open's, truncate's and chmod's new    *)
(* versions have their backing file before they are linked, and no failure *)
(* of a later call takes it away (create.c:100, ea.c).                     *)
THEOREM ListedVersionsReadable == Spec => []ListedFilesExist
<1>1. Init => Backed
  BY DEF Init, Backed, BackedFile
<1>2. IInv /\ Backed => ListedFilesExist
  <2> SUFFICES ASSUME IInv, Backed, NEW f \in Files, ~ culled[f], Known(f) # None
               PROVE  OnFiles(Known(f).versions, store[f])
    BY DEF ListedFilesExist, Listed, OnFiles
  <2> QED
    BY KnownOn DEF Backed
<1> QED
  BY <1>1, <1>2, NextBacked, Invariance, PTL DEF Spec
=============================================================================
