---------------------- MODULE CopyFSImplementsProofs ----------------------
(***************************************************************************)
(* Proofs about the CopyFS daemon when no system call fails, for any files *)
(* in any buckets, users, modes, contents and bounds: it implements        *)
(* VersionedFiles; only a purge forgets; no backing file is left behind;   *)
(* and a callback changes nothing a reader of another file gets.           *)
(***************************************************************************)
EXTENDS CopyFSImplements, CopyFSProofs

(* What a reader or the next callback can tell of a file's metadata: two   *)
(* that differ in the lock or the time only are the same to them.          *)
Same(k, m) ==
  /\ k = None <=> m = None
  /\ k # None => /\ m.versions = k.versions
                 /\ m.deleted = k.deleted
                 /\ Current(m) = Current(k)

PinRead(pin) == IF pin \in Pin THEN pin ELSE Unpinned

(* The lock in memory is the one on disk, but for a file that is created   *)
(* where a purge has left a default file: with one version they serve the  *)
(* same.                                                                   *)
PinMatches(m, pin) ==
  m.dfl = PinRead(pin) \/ (m.dfl = Unpinned /\ Len(m.versions) = 1)

Matches(m, mf, pin) == m # None => mf = Image(m) /\ PinMatches(m, pin)

(* The inductive invariant, on top of that of CopyFSProofs: what is cached *)
(* is what the disk has, so that it may be dropped at any time.            *)
Synced == \A f \in Files : Matches(cache[f], meta[f], dfl[f])

VersionsOf(k) == IF k = None THEN <<>> ELSE k.versions

NamedIn(k) == { s \in Vids : \E i \in DOMAIN VersionsOf(k) : VersionsOf(k)[i].rfile = s }

Owned(k, files) == \A s \in Vids : files[s] # None => s \in NamedIn(k)

(* And each backing file is one the list names.                            *)
AllOwned == \A f \in Files : hasty[f] \/ Owned(Known(f), store[f])

-----------------------------------------------------------------------------
(* Metadata that is written and read back.                                 *)
LEMMA SameSelf == \A k : Same(k, k)
  BY DEF Same

LEMMA SameTwice ==
  ASSUME NEW k, NEW m, NEW n, Same(k, m), Same(m, n)
  PROVE  Same(k, n)
  BY DEF Same

(* What the helpers write is read back as metadata that is the same.       *)
LEMMA ReadSame ==
  ASSUME NEW m, GoodMetadata(m), NEW mf, NEW pin,
         Matches(m, mf, pin)
  PROVE  /\ Same(m, Parsed(mf, pin))
         /\ Parsed(mf, pin).dfl = PinRead(pin)
<1>1. m # None
  BY NoneAssumption DEF GoodMetadata
<1>2. mf = Image(m) /\ PinMatches(m, pin) /\ GoodFile(mf)
  BY <1>1, ImageGood DEF Matches
<1>3. mf # None
  BY <1>2, NoneAssumption DEF GoodFile
<1>4. mf.lines = Reverse(m.versions) /\ mf.killed = m.deleted
  BY <1>2 DEF Image
<1>5. m.versions \in Seq(Version) /\ m.versions # <<>>
  BY DEF GoodMetadata, GoodList
<1>6. Reverse(mf.lines) = m.versions /\ mf.lines # <<>>
  <2>1. Reverse(Reverse(m.versions)) = m.versions
    BY <1>5, ReverseTwice
  <2>2. Reverse(m.versions) \in Seq(Version) /\ Len(Reverse(m.versions)) = Len(m.versions)
    BY <1>5, ReverseFacts
  <2>3. Reverse(m.versions) # <<>>
    BY <1>5, <2>2
  <2> QED
    BY <1>4, <2>1, <2>3
<1>7. PICK r : r = Parsed(mf, pin)
  OBVIOUS
<1>8. r = [versions |-> m.versions, deleted |-> m.deleted, dfl |-> PinRead(pin),
           recent |-> FALSE]
  BY <1>3, <1>4, <1>6, <1>7 DEF Parsed, PinRead
<1>9. r.versions = m.versions /\ r.deleted = m.deleted /\ r.dfl = PinRead(pin)
  BY <1>8
<1>10. r # None
  <2>1. m.versions \in Seq(Version) /\ m.deleted \in BOOLEAN /\ PinRead(pin) \in Pin
    BY <1>5 DEF GoodMetadata, Metadata, PinRead, Unpinned, Pin
  <2>2. r \in Metadata
    BY ONLY <1>8, <2>1 DEF Metadata
  <2> QED
    BY <2>2, NoneAssumption
<1>11. GoodMetadata(r)
  BY <1>2, <1>7, <1>10, ParsedGood
<1>12. Current(r) = Current(m)
  <2>1. m.dfl = PinRead(pin) => Current(r) = Current(m)
    BY <1>9, <1>11, CurrentFollows
  <2>2. Len(m.versions) = 1 =>
          Current(r) = Head(m.versions) /\ Current(m) = Head(m.versions)
    BY <1>9, <1>11, CurrentFollows
  <2> QED
    BY <1>2, <2>1, <2>2 DEF PinMatches
<1> QED
  BY <1>1, <1>7, <1>9, <1>10, <1>12 DEF Same

(* And what was read would be written as it is on disk.                    *)
LEMMA ReadMatches ==
  ASSUME NEW mf, mf # None => GoodFile(mf), NEW pin
  PROVE  Matches(Parsed(mf, pin), mf, pin)
<1> SUFFICES ASSUME mf # None, mf.lines # <<>>
             PROVE  /\ mf = Image(Parsed(mf, pin))
                    /\ Parsed(mf, pin).dfl = PinRead(pin)
  BY DEF Matches, PinMatches, Parsed
<1>1. mf \in MetaFile /\ mf.lines \in Seq(Version)
  BY DEF GoodFile, MetaFile
<1>2. Reverse(Reverse(mf.lines)) = mf.lines
  BY <1>1, ReverseTwice
<1>3. PICK r : r = Parsed(mf, pin)
  OBVIOUS
<1>4. r = [versions |-> Reverse(mf.lines), deleted |-> mf.killed,
           dfl |-> PinRead(pin), recent |-> FALSE]
  BY <1>3 DEF Parsed, PinRead
<1>5. Image(r) = [lines |-> mf.lines, killed |-> mf.killed]
  BY <1>2, <1>4 DEF Image
<1>6. mf = [lines |-> mf.lines, killed |-> mf.killed]
  BY <1>1 DEF MetaFile
<1> QED
  BY <1>3, <1>4, <1>5, <1>6

(* Whatever a callback works on, it is what the disk has, and what remains *)
(* when the cache drops it.                                                *)
LEMMA KnownMatches ==
  ASSUME IInv, Synced, NEW f \in Files
  PROVE  /\ Matches(Known(f), meta[f], dfl[f])
         /\ Same(Known(f), Parsed(meta[f], dfl[f]))
         /\ Known(f) # None => GoodMetadata(Known(f))
<1>1. /\ meta[f] # None => GoodFile(meta[f])
      /\ cache[f] # None => GoodMetadata(cache[f])
  BY DEF IInv, Stored
<1>2. Known(f) # None => GoodMetadata(Known(f))
  BY KnownGood
<1>3. CASE cache[f] = None
  <2>1. Known(f) = Parsed(meta[f], dfl[f])
    BY <1>3 DEF Known
  <2> QED
    BY <1>1, <1>2, <2>1, ReadMatches, SameSelf
<1>4. CASE cache[f] # None
  <2>1. Known(f) = cache[f] /\ Matches(cache[f], meta[f], dfl[f])
    BY <1>4 DEF Known, Synced
  <2> QED
    BY <1>1, <1>2, <1>4, <2>1, ReadSame
<1> QED
  BY <1>3, <1>4

(* The helpers that write, when nothing fails.                             *)
LEMMA Faultless ==
  ASSUME Faults = {}, NEW f
  PROVE  /\ \A md : WriteMeta(f, md) = {[file |-> Image(md), ret |-> 0]}
         /\ \A pin : WriteDefault(f, pin) =
              {[file |-> IF pin.vid = LATEST THEN None ELSE pin, ret |-> 0]}
         /\ \A s : CopyFailures(f, s) = {}
  BY DEF WriteMeta, WriteDefault, CopyFailures, CutShort

LEMMA FaultlessCopies ==
  ASSUME Faults = {}, NEW f, NEW from, NEW to
  PROVE  Copies(f, from, to) = {[store[f] EXCEPT ![to] = store[f][from]]}
  BY DEF Copies, CutShort

LEMMA FaultlessLink ==
  ASSUME Faults = {}, NEW f, NEW md, NEW v, NEW files
  PROVE  Link(f, md, v, files) =
           {Outcome(Linked(md, v), Image(Linked(md, v)), None, files, 0)}
<1> DEFINE new == Linked(md, v)
           wrote == WriteMeta(f, new)
           good == { w.file : w \in { x \in wrote : x.ret = 0 } }
           bad == { w.file : w \in { x \in wrote : x.ret = -1 } }
<1> HIDE DEF new
<1>1. wrote = {[file |-> Image(new), ret |-> 0]}
  BY Faultless
<1>2. good = {Image(new)} /\ bad = {}
  <2>1. PICK w : w = [file |-> Image(new), ret |-> 0]
    OBVIOUS
  <2>2. wrote = {w} /\ w.ret = 0 /\ w.file = Image(new)
    BY <1>1, <2>1
  <2> HIDE DEF wrote
  <2>3. { x \in wrote : x.ret = 0 } = {w} /\ { x \in wrote : x.ret = -1 } = {}
    BY <2>2
  <2> QED
    BY <2>2, <2>3
<1>3. WriteDefault(f, Unpinned) = {[file |-> None, ret |-> 0]}
  BY Faultless DEF Unpinned
<1>4. Link(f, md, v, files) =
        { Outcome(md, mf, dfl[f], files, -1) : mf \in bad }
        \cup { Outcome(IF w.ret = 0 THEN new ELSE md, mf, w.file, files, w.ret) :
                 mf \in good, w \in WriteDefault(f, Unpinned) }
  BY DEF Link, new
<1> HIDE DEF good, bad, wrote
<1>5. { Outcome(md, mf, dfl[f], files, -1) : mf \in bad } = {}
  BY <1>2
<1>6. { Outcome(IF w.ret = 0 THEN new ELSE md, mf, w.file, files, w.ret) :
          mf \in good, w \in WriteDefault(f, Unpinned) } =
        {Outcome(new, Image(new), None, files, 0)}
  BY <1>2, <1>3
<1> QED
  BY <1>4, <1>5, <1>6 DEF new

-----------------------------------------------------------------------------
(* What a callback makes of a file: k and c are the metadata it finds and  *)
(* the backing files, m and d what it leaves.                              *)

Quiet(k, c, m, d) == Same(k, m) /\ d = c

Made(k, c, m, d) ==
  \E mode \in Modes, uid \in Users :
    /\ k = None /\ m # None
    /\ m.versions = <<FirstVersion(mode, uid)>>
    /\ ~ m.deleted
    /\ Current(m) = FirstVersion(mode, uid)
    /\ d = [c EXCEPT ![1] = Empty]

Headed(k, m, v) ==
  /\ k # None /\ m # None
  /\ m.versions = <<v>> \o k.versions
  /\ ~ m.deleted
  /\ Current(m) = v

Versioned(k, c, m, d) ==
  \E uid \in Users, x \in Data :
    /\ Headed(k, m, NextVersion(k, uid))
    /\ NextVersion(k, uid).vid <= MaxVid
    /\ d = [c EXCEPT ![NextVersion(k, uid).rfile] = x]

Subversioned(k, c, m, d) ==
  \E mode \in Modes, uid \in Users :
    /\ Headed(k, m, NextSubversion(k, mode, uid))
    /\ ~ k.deleted
    /\ d = c

Written(k, c, m, d) ==
  /\ k # None /\ ~ k.deleted /\ Same(k, m)
  /\ c[Current(k).rfile] # None
  /\ \E x \in Data : d = [c EXCEPT ![Current(k).rfile] = x]

Selected(k, c, m, d) ==
  /\ k # None /\ m # None
  /\ m.versions = k.versions
  /\ ~ k.deleted /\ ~ m.deleted
  /\ d = c

Marked(k, c, m, d) ==
  /\ k # None /\ m # None
  /\ m.versions = k.versions
  /\ ~ k.deleted /\ m.deleted
  /\ Current(m) = Current(k)
  /\ d = c

(* A creation that is answered by the time check: a file no version names. *)
Wasted(k, c, m, d) ==
  /\ k # None /\ Same(k, m)
  /\ Head(k.versions).vid + 1 \in Vids
  /\ d = [c EXCEPT ![Head(k.versions).vid + 1] = Empty]

Shortened(k, c, m, d) ==
  \E n \in 1 .. Len(k.versions) :
    /\ k # None /\ m # None
    /\ m.versions = SubSeq(k.versions, 1, n)
    /\ ~ k.deleted /\ ~ m.deleted
    /\ Current(m) = IF \E i \in 1 .. n : k.versions[i] = Current(k)
                    THEN Current(k) ELSE Head(k.versions)
    /\ d = [s \in Vids |->
              IF \E i \in n + 1 .. Len(k.versions) : k.versions[i].rfile = s
              THEN None ELSE c[s]]

Purged(k, c, m, d) ==
  /\ k # None /\ ~ k.deleted
  /\ m = None
  /\ d = [s \in Vids |-> IF s \in NamedIn(k) THEN None ELSE c[s]]

Adds(k, c, m, d) ==
  \/ Quiet(k, c, m, d) \/ Made(k, c, m, d) \/ Versioned(k, c, m, d)
  \/ Subversioned(k, c, m, d) \/ Written(k, c, m, d) \/ Selected(k, c, m, d)
  \/ Marked(k, c, m, d)

Takes(k, c, m, d) == Shortened(k, c, m, d) \/ Purged(k, c, m, d)

(* A step of the daemon for a client, and one for itself.                  *)
Leaves(f) ==
  /\ Quiet(Known(f), store[f], Known(f)', store'[f])
  /\ hasty'[f] = hasty[f]

Serves(f) ==
  /\ \A g \in Files \ {f} : Leaves(g)
  /\ reply'.file = f \/ Leaves(f)
  /\ \/ /\ Adds(Known(f), store[f], Known(f)', store'[f])
        /\ hasty'[f] = hasty[f]
     \/ /\ Wasted(Known(f), store[f], Known(f)', store'[f])
        /\ hasty'[f]
     \/ /\ Takes(Known(f), store[f], Known(f)', store'[f])
        /\ hasty'[f] = hasty[f]
        /\ reply'.call = "purge" /\ reply'.file = f

Idles == \A f \in Files : Leaves(f)

-----------------------------------------------------------------------------
(* Steps.                                                                  *)

(* A callback that leaves a file as the disk has it.                       *)
LEMMA BecomeServes ==
  ASSUME IInv, Synced, NEW f \in Files, NEW o, Become(f, o), UNCHANGED hasty,
         Matches(o.md, o.meta, o.dfl), o.md # None
  PROVE  /\ Synced'
         /\ \A g \in Files \ {f} : Leaves(g)
         /\ Known(f)' = o.md /\ store'[f] = o.files /\ hasty'[f] = hasty[f]
<1>1. /\ cache'[f] = o.md /\ meta'[f] = o.meta /\ dfl'[f] = o.dfl
      /\ store'[f] = o.files
  BY DEF Become, IInv, Stored
<1>2. ASSUME NEW g \in Files \ {f}
      PROVE  /\ cache'[g] = cache[g] /\ meta'[g] = meta[g] /\ dfl'[g] = dfl[g]
             /\ store'[g] = store[g]
  BY DEF Become, IInv, Stored
<1>3. Synced'
  BY <1>1, <1>2 DEF Synced
<1>4. ASSUME NEW g \in Files \ {f}
      PROVE  Leaves(g)
  <2>1. Known(g)' = Known(g) /\ store'[g] = store[g]
    BY <1>2 DEF Known
  <2> QED
    BY <2>1, SameSelf DEF Leaves, Quiet
<1>5. Known(f)' = o.md
  BY <1>1 DEF Known
<1> QED
  BY <1>1, <1>3, <1>4, <1>5

(* One that only looks a file up, or does not even find it.                *)
LEMMA UnchangedServes ==
  ASSUME IInv, Synced, NEW f \in Files, NEW k \in {Known(f), cache[f]},
         NEW files, NEW ret, UNCHANGED hasty,
         Become(f, Outcome(k, meta[f], dfl[f], files, ret))
  PROVE  /\ Synced'
         /\ \A g \in Files \ {f} : Leaves(g)
         /\ Known(f)' = Known(f) /\ store'[f] = files /\ hasty'[f] = hasty[f]
<1> DEFINE o == Outcome(k, meta[f], dfl[f], files, ret)
<1>1. /\ o.md = k /\ o.meta = meta[f] /\ o.dfl = dfl[f] /\ o.files = files
  BY DEF Outcome
<1>2. Become(f, o)
  OBVIOUS
<1> HIDE DEF o
<1>3. k # None => k = Known(f)
  BY DEF Known
<1>4. CASE k # None
  <2>1. Matches(o.md, o.meta, o.dfl)
    BY <1>1, <1>3, <1>4, KnownMatches
  <2> QED
    BY <1>1, <1>2, <1>3, <1>4, <2>1, BecomeServes
<1>5. CASE k = None
  <2>1. cache[f] = None
    BY <1>5 DEF Known
  <2>2. \A g \in Files : /\ cache'[g] = cache[g] /\ meta'[g] = meta[g] /\ dfl'[g] = dfl[g]
                         /\ g # f => store'[g] = store[g]
                         /\ g = f => store'[g] = files
    BY <1>1, <1>2, <1>5, <2>1 DEF Become, IInv, Stored
  <2>3. Synced'
    BY <2>2 DEF Synced
  <2>4. \A g \in Files : Known(g)' = Known(g)
    BY <2>2 DEF Known
  <2> QED
    BY <2>2, <2>3, <2>4, SameSelf DEF Leaves, Quiet
<1> QED
  BY <1>4, <1>5

LEMMA UnchangedQuiet ==
  ASSUME IInv, Synced, NEW f \in Files, NEW k \in {Known(f), cache[f]}, NEW ret,
         UNCHANGED hasty, Become(f, Outcome(k, meta[f], dfl[f], store[f], ret))
  PROVE  Synced' /\ Serves(f)
  BY UnchangedServes, SameSelf DEF Serves, Leaves, Adds, Quiet

(* create_link_version, called with a version that fits.                   *)
LEMMA LinkServes ==
  ASSUME IInv, Synced, NEW f \in Files, GoodMetadata(Known(f)),
         NEW v \in Version, Tops(v, Known(f).versions),
         NEW o, Become(f, o), UNCHANGED hasty,
         NEW b \in BOOLEAN, o.md = [Linked(Known(f), v) EXCEPT !.recent = b],
         o.meta = Image(Linked(Known(f), v)), o.dfl = None
  PROVE  /\ Synced'
         /\ \A g \in Files \ {f} : Leaves(g)
         /\ Headed(Known(f), Known(f)', v)
         /\ store'[f] = o.files /\ hasty'[f] = hasty[f]
<1>1. PICK k : k = Known(f)
  OBVIOUS
<1>2. PICK l : l = Linked(k, v)
  OBVIOUS
<1>3. /\ GoodMetadata(l)
      /\ Head(l.versions) = v
      /\ l.versions = <<v>> \o k.versions /\ l.dfl = Unpinned /\ l.deleted = FALSE
      /\ k # None
  <2>1. GoodMetadata(k) /\ k \in Metadata /\ k # None
    BY <1>1, NoneAssumption DEF GoodMetadata
  <2>2. GoodMetadata(l) /\ Head(l.versions) = v
    BY <1>1, <1>2, <2>1, LinkedGood
  <2>3. l.versions = <<v>> \o k.versions /\ l.dfl = Unpinned /\ l.deleted = FALSE
    BY <1>2, <2>1 DEF Linked, Metadata
  <2> QED
    BY <2>1, <2>2, <2>3
<1>4. PICK m : m = o.md
  OBVIOUS
<1>5. /\ m \in Metadata /\ m.versions = l.versions /\ m.dfl = l.dfl
      /\ m.deleted = l.deleted
  BY <1>1, <1>2, <1>3, <1>4 DEF GoodMetadata, Metadata
<1>6. m # None /\ Current(m) = v
  BY <1>3, <1>5, NoneAssumption DEF Current, Unpinned
<1>7. Matches(m, o.meta, o.dfl)
  <2>1. Image(m) = Image(l)
    BY <1>5 DEF Image
  <2>2. PinMatches(m, None)
    BY <1>3, <1>5, NoneAssumption DEF PinMatches, PinRead
  <2> QED
    BY <1>1, <1>2, <2>1, <2>2 DEF Matches
<1>8. /\ Synced'
      /\ \A g \in Files \ {f} : Leaves(g)
      /\ Known(f)' = m /\ store'[f] = o.files /\ hasty'[f] = hasty[f]
  BY <1>4, <1>6, <1>7, BecomeServes
<1> QED
  BY <1>1, <1>3, <1>5, <1>6, <1>8 DEF Headed

(* What the copy of the served version is, and that a file was there.      *)
LEMMA FaultlessVersion ==
  ASSUME Faults = {}, IInv, NEW f \in Files, MayVersion(f), NEW o \in NewVersion(f),
         NEW k, k = Known(f), NEW v, v = NextVersion(k, Current(k).uid)
  PROVE  \/ o \in {Unchanged(f, 0), Unchanged(f, -1)}
         \/ /\ ~ k.recent
            /\ v \in Version /\ Tops(v, k.versions) /\ v.vid <= MaxVid
            /\ v.rfile \in Vids /\ Current(k).uid \in Users
            /\ store[f][Current(k).rfile] \in Data
            /\ o = Outcome(Linked(k, v), Image(Linked(k, v)), None,
                           [store[f] EXCEPT ![v.rfile] = store[f][Current(k).rfile]], 0)
<1> SUFFICES ASSUME o \notin {Unchanged(f, 0), Unchanged(f, -1)}
             PROVE  /\ ~ k.recent
                    /\ v \in Version /\ Tops(v, k.versions) /\ v.vid <= MaxVid
                    /\ v.rfile \in Vids /\ Current(k).uid \in Users
                    /\ store[f][Current(k).rfile] \in Data
                    /\ o = Outcome(Linked(k, v), Image(Linked(k, v)), None,
                             [store[f] EXCEPT ![v.rfile] = store[f][Current(k).rfile]], 0)
  OBVIOUS
<1>1. GoodMetadata(k)
  BY KnownGood DEF MayVersion, Found
<1>2. PICK cur : cur = Current(k)
  OBVIOUS
<1>3. cur \in Version /\ cur.uid \in Users /\ cur.rfile \in Vids
  BY <1>1, <1>2, CurrentFacts DEF Version
<1>4. PICK files : files = [store[f] EXCEPT ![v.rfile] = store[f][cur.rfile]]
  OBVIOUS
<1>5. /\ ~ k.recent /\ store[f][cur.rfile] # None
      /\ o \in Link(f, k, v, files)
  <2>1. CopyFailures(f, v.rfile) = {} /\ Copies(f, cur.rfile, v.rfile) = {files}
    BY <1>4, Faultless, FaultlessCopies
  <2>2. v = NextVersion(k, cur.uid)
    BY <1>2
  <2> QED
    BY <1>2, <2>1, <2>2 DEF NewVersion
<1>6. o = Outcome(Linked(k, v), Image(Linked(k, v)), None, files, 0)
  BY <1>5, FaultlessLink
<1>7. v.vid <= MaxVid
  BY <1>5 DEF MayVersion, Fits, NextVersion
<1>8. v \in Version /\ Tops(v, k.versions) /\ v.rfile \in Vids
  <2>1. PICK uid \in Users : uid = cur.uid
    BY <1>3
  <2>2. v = NextVersion(k, uid)
    BY <1>2, <2>1
  <2> QED
    BY <1>1, <1>7, <2>2, NextVersionGood DEF Version
<1>9. store[f][cur.rfile] \in Data
  BY <1>3, <1>5 DEF IInv, Stored, GoodFiles
<1> QED
  BY <1>2, <1>3, <1>4, <1>5, <1>6, <1>7, <1>8, <1>9

LEMMA OpenServes ==
  ASSUME Faults = {}, IInv, Synced, NEW f \in Files, Open(f)
  PROVE  Synced' /\ Serves(f)
<1>1. PICK o \in NewVersion(f) :
        /\ Become(f, o)
        /\ \E ok : reply' = Answer("open", f, None, ok)
  BY DEF Open
<1>2. MayVersion(f) /\ UNCHANGED hasty
  BY DEF Open, history
<1>3. reply'.file = f
  BY <1>1 DEF Answer
<1>4. CASE o \in {Unchanged(f, 0), Unchanged(f, -1)}
  BY <1>1, <1>2, <1>4, UnchangedQuiet DEF Unchanged
<1>5. CASE o \notin {Unchanged(f, 0), Unchanged(f, -1)}
  <2>1. PICK k, v : k = Known(f) /\ v = NextVersion(k, Current(k).uid)
    OBVIOUS
  <2>2. PICK files : files = [store[f] EXCEPT ![v.rfile] = store[f][Current(k).rfile]]
    OBVIOUS
  <2>3. /\ v \in Version /\ Tops(v, k.versions) /\ v.vid <= MaxVid
        /\ store[f][Current(k).rfile] \in Data /\ Current(k).uid \in Users
        /\ o = Outcome(Linked(k, v), Image(Linked(k, v)), None, files, 0)
    BY <1>2, <1>5, <2>1, <2>2, FaultlessVersion
  <2>4. GoodMetadata(k)
    BY <1>2, <2>1, KnownGood DEF MayVersion, Found
  <2>5. PICK b \in BOOLEAN : Linked(k, v) = [Linked(k, v) EXCEPT !.recent = b]
    <3>1. Linked(k, v) \in Metadata
      BY <2>3, <2>4, LinkedGood DEF GoodMetadata
    <3> QED
      BY <3>1 DEF Metadata
  <2>6. /\ o.md = [Linked(k, v) EXCEPT !.recent = b]
        /\ o.meta = Image(Linked(k, v)) /\ o.dfl = None /\ o.files = files
    BY <2>3, <2>5 DEF Outcome
  <2>7. /\ Synced'
        /\ \A g \in Files \ {f} : Leaves(g)
        /\ Headed(k, Known(f)', v)
        /\ store'[f] = files /\ hasty'[f] = hasty[f]
    BY <1>1, <1>2, <2>1, <2>3, <2>4, <2>6, LinkServes
  <2>8. Versioned(k, store[f], Known(f)', store'[f])
    BY <2>1, <2>2, <2>3, <2>7 DEF Versioned
  <2> QED
    BY <1>3, <2>1, <2>7, <2>8 DEF Serves, Adds
<1> QED
  BY <1>4, <1>5

(* The cut of a truncation falls on the version it has just made.          *)
LEMMA TruncateServes ==
  ASSUME Faults = {}, IInv, Synced, NEW f \in Files, NEW x \in Data, Truncate(f, x)
  PROVE  Synced' /\ Serves(f)
<1> DEFINE target(o) == Current(o.md).rfile
           ok(o) == o.ret # -1 /\ o.files[target(o)] # None
           after(o) == [o EXCEPT !.md.recent = @ \/ o.ret # -1,
                                 !.files = IF ok(o) THEN [@ EXCEPT ![target(o)] = x]
                                                    ELSE @]
<1>1. PICK o \in NewVersion(f) :
        Become(f, after(o)) /\ reply' = Answer("truncate", f, None, ok(o))
  BY DEF Truncate
<1>2. MayVersion(f) /\ UNCHANGED hasty
  BY DEF Truncate, history
<1>3. reply'.file = f
  BY <1>1 DEF Answer
<1>4. PICK k, v : k = Known(f) /\ v = NextVersion(k, Current(k).uid)
  OBVIOUS
<1>5. GoodMetadata(k) /\ k # None /\ ~ k.deleted
  BY <1>2, <1>4, KnownGood DEF MayVersion, Found
<1>6. CASE o \in {Unchanged(f, 0), Unchanged(f, -1)}
  <2>1. PICK m, files : m = after(o).md /\ files = after(o).files
    OBVIOUS
  <2>2. /\ o.md = k /\ o.files = store[f] /\ o.meta = meta[f] /\ o.dfl = dfl[f]
        /\ o.ret \in {0, -1}
        /\ o = [md |-> o.md, meta |-> o.meta, dfl |-> o.dfl, files |-> o.files,
                ret |-> o.ret]
    BY <1>4, <1>6 DEF Unchanged, Outcome
  <2>3. /\ m = [k EXCEPT !.recent = @ \/ o.ret # -1]
        /\ files = IF ok(o) THEN [store[f] EXCEPT ![Current(k).rfile] = x] ELSE store[f]
        /\ after(o).meta = meta[f] /\ after(o).dfl = dfl[f]
    BY <2>1, <2>2
  <2>4. /\ m.versions = k.versions /\ m.deleted = k.deleted /\ m.dfl = k.dfl
        /\ m \in Metadata
    BY <1>5, <2>3 DEF GoodMetadata, Metadata
  <2>5. Same(k, m) /\ m # None
    BY <1>5, <2>4, NoneAssumption DEF Same, Current
  <2>6. Matches(m, meta[f], dfl[f])
    <3>1. Matches(k, meta[f], dfl[f])
      BY <1>4, KnownMatches
    <3>2. Image(m) = Image(k)
      BY <2>4 DEF Image
    <3> QED
      BY <1>5, <2>4, <3>1, <3>2 DEF Matches, PinMatches
  <2>7. /\ Synced'
        /\ \A g \in Files \ {f} : Leaves(g)
        /\ Known(f)' = m /\ store'[f] = files /\ hasty'[f] = hasty[f]
    <3> HIDE DEF after
    <3> QED
      BY <1>1, <1>2, <2>1, <2>3, <2>5, <2>6, BecomeServes
  <2>8. CASE ok(o)
    <3>1. Written(k, store[f], m, files)
      BY <1>5, <2>2, <2>3, <2>5, <2>8 DEF Written
    <3> QED
      BY <1>3, <1>4, <2>7, <3>1 DEF Serves, Adds
  <2>9. CASE ~ ok(o)
    <3>1. Quiet(k, store[f], m, files)
      BY <2>3, <2>5, <2>9 DEF Quiet
    <3> QED
      BY <1>3, <1>4, <2>7, <3>1 DEF Serves, Adds
  <2> QED
    BY <2>8, <2>9
<1>7. CASE o \notin {Unchanged(f, 0), Unchanged(f, -1)}
  <2>1. PICK l : l = Linked(k, v)
    OBVIOUS
  <2>2. PICK copied : copied = [store[f] EXCEPT ![v.rfile] = store[f][Current(k).rfile]]
    OBVIOUS
  <2>3. /\ v \in Version /\ Tops(v, k.versions) /\ v.vid <= MaxVid /\ v.rfile \in Vids
        /\ store[f][Current(k).rfile] \in Data /\ Current(k).uid \in Users
        /\ o = Outcome(l, Image(l), None, copied, 0)
    BY <1>2, <1>4, <1>7, <2>1, <2>2, FaultlessVersion
  <2>4. GoodMetadata(l) /\ Current(l) = v
    BY <1>5, <2>1, <2>3, LinkedGood
  <2>5. PICK files : files = [copied EXCEPT ![v.rfile] = x]
    OBVIOUS
  <2>6. ok(o) /\ target(o) = v.rfile
    <3>1. copied[v.rfile] = store[f][Current(k).rfile]
      BY <2>2, <2>3 DEF IInv, Stored, GoodFiles
    <3> QED
      BY <2>3, <2>4, <3>1, DaemonAssumption DEF Outcome
  <2>7. /\ after(o).md = [l EXCEPT !.recent = TRUE]
        /\ after(o).meta = Image(l) /\ after(o).dfl = None /\ after(o).files = files
    BY <2>3, <2>5, <2>6 DEF Outcome
  <2>8. /\ Synced'
        /\ \A g \in Files \ {f} : Leaves(g)
        /\ Headed(k, Known(f)', v)
        /\ store'[f] = files /\ hasty'[f] = hasty[f]
    <3>1. PICK p : p = after(o)
      OBVIOUS
    <3>2. PICK b \in BOOLEAN : b = TRUE
      OBVIOUS
    <3>3. /\ Become(f, p) /\ p.md = [Linked(Known(f), v) EXCEPT !.recent = b]
          /\ p.meta = Image(Linked(Known(f), v)) /\ p.dfl = None /\ p.files = files
      BY <1>1, <1>4, <2>1, <2>7, <3>1, <3>2
    <3> HIDE DEF after, ok, target
    <3> QED
      BY <1>2, <1>4, <1>5, <2>3, <3>3, LinkServes
  <2>9. files = [store[f] EXCEPT ![v.rfile] = x]
    <3>1. store[f] \in [Vids -> Data \cup {None}]
      BY DEF IInv, Stored, GoodFiles
    <3> QED
      BY ONLY <2>2, <2>5, <3>1
  <2>10. Versioned(k, store[f], Known(f)', store'[f])
    BY <1>4, <2>3, <2>8, <2>9 DEF Versioned
  <2> QED
    BY <1>3, <1>4, <2>8, <2>10 DEF Serves, Adds
<1> QED
  BY <1>6, <1>7

LEMMA WriteServes ==
  ASSUME IInv, Synced, NEW f \in Files, NEW x \in Data, Write(f, x)
  PROVE  Synced' /\ Serves(f)
<1>1. PICK ok, files, k :
        /\ ok = (Found(f) /\ store[f][Served(f).rfile] # None)
        /\ files = IF ok THEN [store[f] EXCEPT ![Served(f).rfile] = x] ELSE store[f]
        /\ k = IF Found(f) THEN Known(f) ELSE cache[f]
  OBVIOUS
<1>2. Become(f, Outcome(k, meta[f], dfl[f], files, 0))
  BY <1>1 DEF Write
<1>3. UNCHANGED hasty /\ reply'.file = f
  BY DEF Write, history, Answer
<1>4. /\ Synced'
      /\ \A g \in Files \ {f} : Leaves(g)
      /\ Known(f)' = Known(f) /\ store'[f] = files /\ hasty'[f] = hasty[f]
  <2>1. k \in {Known(f), cache[f]} /\ UNCHANGED hasty
    BY <1>1, <1>3
  <2> QED
    BY <1>2, <2>1, UnchangedServes
<1>5. CASE ok
  <2>1. Written(Known(f), store[f], Known(f), files)
    BY <1>1, <1>5, SameSelf DEF Written, Found, Served
  <2> QED
    BY <1>3, <1>4, <2>1 DEF Serves, Adds
<1>6. CASE ~ ok
  <2>1. Quiet(Known(f), store[f], Known(f), files)
    BY <1>1, <1>6, SameSelf DEF Quiet
  <2> QED
    BY <1>3, <1>4, <2>1 DEF Serves, Adds
<1> QED
  BY <1>5, <1>6

(* create_new_subversion, for chmod and for chown.                         *)
LEMMA SubversionServes ==
  ASSUME Faults = {}, IInv, Synced, NEW f \in Files,
         NEW mode \in Modes, NEW uid \in Users, MaySubversion(f, mode, uid),
         NEW o \in NewSubversion(f, mode, uid), Become(f, o),
         UNCHANGED hasty, reply'.file = f
  PROVE  Synced' /\ Serves(f)
<1>1. PICK k, v, l : k = Known(f) /\ v = NextSubversion(k, mode, uid) /\ l = Linked(k, v)
  OBVIOUS
<1>2. GoodMetadata(k) /\ ~ k.deleted
  BY <1>1, KnownGood DEF MaySubversion, Found
<1>3. CASE k.recent
  BY <1>1, <1>3, UnchangedQuiet DEF NewSubversion, Unchanged
<1>4. CASE ~ k.recent
  <2>1. v.vid <= MaxVid /\ v.svid <= MaxSvid
    BY <1>1, <1>4 DEF MaySubversion, Fits
  <2>2. v \in Version /\ Tops(v, k.versions)
    BY <1>1, <1>2, <2>1, NextSubversionGood
  <2>3. o = Outcome(l, Image(l), None, store[f], 0)
    BY <1>1, <1>4, FaultlessLink DEF NewSubversion
  <2>4. l \in Metadata
    BY <1>1, <1>2, <2>2, LinkedGood DEF GoodMetadata
  <2>5. PICK b \in BOOLEAN : l = [l EXCEPT !.recent = b]
    BY <2>4 DEF Metadata
  <2>6. o.md = [l EXCEPT !.recent = b] /\ o.meta = Image(l) /\ o.dfl = None
        /\ o.files = store[f]
    BY <2>3, <2>5 DEF Outcome
  <2>7. /\ Synced'
        /\ \A g \in Files \ {f} : Leaves(g)
        /\ Headed(k, Known(f)', v)
        /\ store'[f] = store[f] /\ hasty'[f] = hasty[f]
    BY <1>1, <1>2, <2>2, <2>6, LinkServes
  <2>8. Subversioned(k, store[f], Known(f)', store'[f])
    BY <1>1, <1>2, <2>7 DEF Subversioned
  <2> QED
    BY <1>1, <2>7, <2>8 DEF Serves, Adds
<1> QED
  BY <1>3, <1>4

LEMMA ServedType ==
  ASSUME IInv, NEW f \in Files, Found(f)
  PROVE  Served(f).uid \in Users /\ Served(f).mode \in Modes
  BY KnownGood, CurrentFacts DEF Found, Served, Version

LEMMA ChmodServes ==
  ASSUME Faults = {}, IInv, Synced, NEW f \in Files, NEW mode \in Modes, Chmod(f, mode)
  PROVE  Synced' /\ Serves(f)
<1>1. PICK o \in NewSubversion(f, mode, Served(f).uid) :
        Become(f, o) /\ reply' = Answer("chmod", f, mode, o.ret = 0)
  BY DEF Chmod
<1>2. PICK uid : uid = Served(f).uid
  OBVIOUS
<1>3. MaySubversion(f, mode, uid) /\ uid \in Users
  BY <1>2, ServedType DEF Chmod, MaySubversion
<1>4. UNCHANGED hasty /\ reply'.file = f
  BY <1>1 DEF Chmod, history, Answer
<1> QED
  BY <1>1, <1>2, <1>3, <1>4, SubversionServes

LEMMA ChownServes ==
  ASSUME Faults = {}, IInv, Synced, NEW f \in Files, NEW uid \in Users, Chown(f, uid)
  PROVE  Synced' /\ Serves(f)
<1>1. PICK o \in NewSubversion(f, Served(f).mode, uid) :
        Become(f, o) /\ reply' = Answer("chown", f, None, o.ret = 0)
  BY DEF Chown
<1>2. PICK mode : mode = Served(f).mode
  OBVIOUS
<1>3. MaySubversion(f, mode, uid) /\ mode \in Modes
  BY <1>2, ServedType DEF Chown, MaySubversion
<1>4. UNCHANGED hasty /\ reply'.file = f
  BY <1>1 DEF Chown, history, Answer
<1> QED
  BY <1>1, <1>2, <1>3, <1>4, SubversionServes

LEMMA UnlinkServes ==
  ASSUME Faults = {}, IInv, Synced, NEW f \in Files, Unlink(f)
  PROVE  Synced' /\ Serves(f)
<1>1. UNCHANGED hasty /\ reply'.file = f
  BY DEF Unlink, history, Answer
<1>2. CASE store[f][Served(f).rfile] = None
  BY <1>1, <1>2, UnchangedQuiet DEF Unlink, Unchanged
<1>3. CASE store[f][Served(f).rfile] # None
  <2>1. PICK k, m : k = Known(f) /\ m = [k EXCEPT !.deleted = TRUE]
    OBVIOUS
  <2>2. PICK o : o = Outcome(m, Image(m), dfl[f], store[f], 0)
    OBVIOUS
  <2>3. Become(f, o)
    <3>1. \A w \in WriteMeta(f, m) : w.file = Image(m) /\ w.ret = 0
      BY Faultless
    <3> QED
      BY <1>3, <2>1, <2>2, <3>1 DEF Unlink
  <2>4. GoodMetadata(k) /\ k # None /\ ~ k.deleted
    BY <2>1, KnownGood DEF Unlink, Found
  <2>5. m \in Metadata /\ m.versions = k.versions /\ m.dfl = k.dfl /\ m.deleted
    BY <2>1, <2>4 DEF GoodMetadata, Metadata
  <2>6. m # None /\ Current(m) = Current(k)
    BY <2>5, NoneAssumption DEF Current
  <2>7. /\ o.md = m /\ o.meta = Image(m) /\ o.dfl = dfl[f] /\ o.files = store[f]
    BY <2>2 DEF Outcome
  <2>8. Matches(m, Image(m), dfl[f])
    <3>1. PinMatches(k, dfl[f])
      BY <2>1, <2>4, KnownMatches DEF Matches
    <3> QED
      BY <2>5, <3>1 DEF Matches, PinMatches
  <2>9. /\ Synced'
        /\ \A g \in Files \ {f} : Leaves(g)
        /\ Known(f)' = m /\ store'[f] = store[f] /\ hasty'[f] = hasty[f]
    BY <1>1, <2>3, <2>6, <2>7, <2>8, BecomeServes
  <2>10. Marked(k, store[f], m, store[f])
    BY <2>4, <2>5, <2>6 DEF Marked
  <2> QED
    BY <1>1, <2>1, <2>9, <2>10 DEF Serves, Adds
<1> QED
  BY <1>2, <1>3

LEMMA LockServes ==
  ASSUME Faults = {}, IInv, Synced, NEW f \in Files, NEW pin \in Locks,
         NEW uid \in Users, Lock(f, pin, uid)
  PROVE  Synced' /\ Serves(f)
<1>1. UNCHANGED hasty /\ reply'.file = f
  BY DEF Lock, history, Answer
<1>2. PICK k, m : k = Known(f) /\ m = [k EXCEPT !.dfl = pin]
  OBVIOUS
<1>3. PICK file : file = IF pin.vid = LATEST THEN None ELSE pin
  OBVIOUS
<1>4. PICK o : o = Outcome(m, meta[f], file, store[f], 0)
  OBVIOUS
<1>5. Become(f, o)
  <2>1. \A w \in WriteDefault(f, pin) : w.file = file /\ w.ret = 0
    BY <1>3, Faultless
  <2> QED
    BY <1>2, <1>4, <2>1 DEF Lock
<1>6. GoodMetadata(k) /\ k # None /\ ~ k.deleted
  BY <1>2, KnownGood DEF Lock, Found
<1>7. pin \in Pin /\ (pin.vid = LATEST => pin = Unpinned)
  BY DEF Locks
<1>8. m \in Metadata /\ m.versions = k.versions /\ m.dfl = pin /\ m.deleted = k.deleted
  BY <1>2, <1>6, <1>7 DEF GoodMetadata, Metadata
<1>9. m # None
  BY <1>8, NoneAssumption
<1>10. o.md = m /\ o.meta = meta[f] /\ o.dfl = file /\ o.files = store[f]
  BY <1>4 DEF Outcome
<1>11. Matches(m, meta[f], file)
  <2>1. meta[f] = Image(k)
    BY <1>2, <1>6, KnownMatches DEF Matches
  <2>2. Image(m) = Image(k)
    BY <1>8 DEF Image
  <2>3. PinRead(file) = pin
    BY <1>3, <1>7, NoneAssumption DEF PinRead
  <2> QED
    BY <1>8, <2>1, <2>2, <2>3 DEF Matches, PinMatches
<1>12. /\ Synced'
       /\ \A g \in Files \ {f} : Leaves(g)
       /\ Known(f)' = m /\ store'[f] = store[f] /\ hasty'[f] = hasty[f]
  BY <1>1, <1>5, <1>9, <1>10, <1>11, BecomeServes
<1>13. Selected(k, store[f], m, store[f])
  BY <1>6, <1>8, <1>9 DEF Selected
<1> QED
  BY <1>1, <1>2, <1>12, <1>13 DEF Serves, Adds

LEMMA LookupServes ==
  ASSUME IInv, Synced, NEW f \in Files, Lookup(f)
  PROVE  Synced' /\ Idles
<1>1. \A g \in Files : /\ cache'[g] = IF g = f THEN Known(f) ELSE cache[g]
                       /\ meta'[g] = meta[g] /\ dfl'[g] = dfl[g]
                       /\ store'[g] = store[g] /\ hasty'[g] = hasty[g]
  BY DEF Lookup, disk, history, IInv, Stored
<1>2. Synced'
  BY <1>1, KnownMatches DEF Synced
<1>3. \A g \in Files : Known(g)' = Known(g)
  BY <1>1 DEF Known
<1> QED
  BY <1>1, <1>2, <1>3, SameSelf DEF Idles, Leaves, Quiet

LEMMA CloseServes ==
  ASSUME Synced, NEW f \in Files, Close(f)
  PROVE  Synced' /\ Idles
<1>1. \A g \in Files : /\ cache'[g] = cache[g]
                       /\ meta'[g] = meta[g] /\ dfl'[g] = dfl[g]
                       /\ store'[g] = store[g] /\ hasty'[g] = hasty[g]
  BY DEF Close, disk, history
<1>2. Synced'
  BY <1>1 DEF Synced
<1>3. \A g \in Files : Known(g)' = Known(g)
  BY <1>1 DEF Known
<1> QED
  BY <1>1, <1>2, <1>3, SameSelf DEF Idles, Leaves, Quiet

LEMMA TickServes ==
  ASSUME IInv, Synced, Tick
  PROVE  Synced' /\ Idles
<1>1. \A g \in Files : /\ cache'[g] = IF cache[g] = None THEN None
                                      ELSE [cache[g] EXCEPT !.recent = FALSE]
                       /\ meta'[g] = meta[g] /\ dfl'[g] = dfl[g]
                       /\ store'[g] = store[g] /\ hasty'[g] = hasty[g]
  BY DEF Tick, disk, history
<1>2. ASSUME NEW g \in Files
      PROVE  Matches(cache[g], meta[g], dfl[g])' /\ Leaves(g)
  <2>1. CASE cache[g] = None
    <3>1. Known(g)' = Known(g) /\ cache'[g] = None
      BY <1>1, <2>1 DEF Known
    <3> QED
      BY <1>1, <3>1, SameSelf DEF Matches, Leaves, Quiet
  <2>2. CASE cache[g] # None
    <3>1. PICK k, m : k = cache[g] /\ m = cache'[g]
      OBVIOUS
    <3>2. k \in Metadata /\ m = [k EXCEPT !.recent = FALSE]
      BY <1>1, <2>2, <3>1 DEF IInv, Stored
    <3>3. /\ m \in Metadata /\ m.versions = k.versions
          /\ m.dfl = k.dfl /\ m.deleted = k.deleted
      BY <3>2 DEF Metadata
    <3>4. Matches(k, meta[g], dfl[g])
      BY <3>1 DEF Synced
    <3>5. Matches(m, meta[g], dfl[g])
      <4>1. Image(m) = Image(k)
        BY <3>3 DEF Image
      <4> QED
        BY <2>2, <3>1, <3>3, <3>4, <4>1 DEF Matches, PinMatches
    <3>6. Same(k, m) /\ m # None
      BY <2>2, <3>1, <3>3, NoneAssumption DEF Same, Current
    <3>7. Known(g) = k /\ Known(g)' = m
      BY <2>2, <3>1, <3>6 DEF Known
    <3> QED
      BY <1>1, <3>1, <3>5, <3>6, <3>7 DEF Leaves, Quiet
  <2> QED
    BY <2>1, <2>2
<1> QED
  BY <1>2 DEF Synced, Idles

(* The cache is dropped: of one file, and of all in a restart.             *)
LEMMA DroppedLeaves ==
  ASSUME IInv, Synced, NEW f \in Files, cache'[f] = None,
         meta'[f] = meta[f], dfl'[f] = dfl[f], store'[f] = store[f], hasty'[f] = hasty[f]
  PROVE  Matches(cache[f], meta[f], dfl[f])' /\ Leaves(f)
<1>1. Known(f)' = Parsed(meta[f], dfl[f])
  BY DEF Known
<1> QED
  BY <1>1, KnownMatches DEF Matches, Leaves, Quiet

LEMMA RestartServes ==
  ASSUME IInv, Synced, Restart
  PROVE  Synced' /\ Idles
<1>1. \A g \in Files : /\ cache'[g] = None
                       /\ meta'[g] = meta[g] /\ dfl'[g] = dfl[g]
                       /\ store'[g] = store[g] /\ hasty'[g] = hasty[g]
  BY DEF Restart, disk, history
<1> QED
  BY <1>1, DroppedLeaves DEF Synced, Idles

(* A purge empties the bucket: what else was in it, the disk has.          *)
LEMMA PurgeAllServes ==
  ASSUME Faults = {}, IInv, Synced, NEW f \in Files, PurgeAll(f)
  PROVE  Synced' /\ Serves(f)
<1>1. PICK k : k = Known(f)
  OBVIOUS
<1>2. k # None /\ ~ k.deleted /\ GoodMetadata(k)
  BY <1>1, KnownGood DEF PurgeAll, Found
<1>3. /\ \A g \in Files : cache'[g] = IF Bucket[g] = Bucket[f] THEN None ELSE cache[g]
      /\ meta' = [meta EXCEPT ![f] = None]
      /\ UNCHANGED <<dfl, hasty>>
      /\ store' = [store EXCEPT ![f] = WithoutFiles(f, Range(k.versions))]
      /\ reply' = Answer("purge", f, None, TRUE)
  BY <1>1 DEF PurgeAll
<1>4. meta'[f] = None /\ cache'[f] = None /\ store'[f] = WithoutFiles(f, Range(k.versions))
  BY <1>3 DEF IInv, Stored
<1>5. ASSUME NEW g \in Files \ {f}
      PROVE  Matches(cache[g], meta[g], dfl[g])' /\ Leaves(g)
  <2>1. meta'[g] = meta[g] /\ dfl'[g] = dfl[g] /\ store'[g] = store[g] /\ hasty'[g] = hasty[g]
    BY <1>3 DEF IInv, Stored
  <2>2. CASE cache'[g] = None
    BY <2>1, <2>2, DroppedLeaves
  <2>3. CASE cache'[g] # None
    <3>1. cache'[g] = cache[g]
      BY <1>3, <2>3
    <3>2. Known(g)' = Known(g)
      BY <2>1, <3>1 DEF Known
    <3> QED
      BY <2>1, <3>1, <3>2, SameSelf DEF Synced, Matches, PinMatches, Leaves, Quiet
  <2> QED
    BY <2>2, <2>3
<1>6. Synced'
  BY <1>4, <1>5 DEF Synced, Matches
<1>7. Known(f)' = None
  BY <1>4 DEF Known, Parsed
<1>8. Purged(k, store[f], None, store'[f])
  <2>1. \A s \in Vids : (\E v \in Range(k.versions) : v.rfile = s) <=> s \in NamedIn(k)
    BY <1>2 DEF Range, NamedIn, VersionsOf
  <2>2. WithoutFiles(f, Range(k.versions)) =
          [s \in Vids |-> IF s \in NamedIn(k) THEN None ELSE store[f][s]]
    BY <2>1 DEF WithoutFiles
  <2> QED
    BY <1>2, <1>4, <2>2 DEF Purged
<1>9. reply'.file = f /\ reply'.call = "purge" /\ hasty'[f] = hasty[f]
  BY <1>3 DEF Answer
<1> QED
  BY <1>1, <1>5, <1>6, <1>7, <1>8, <1>9 DEF Serves, Takes

LEMMA PurgeOldestServes ==
  ASSUME Faults = {}, IInv, Synced, NEW f \in Files, NEW x \in 0 .. MaxLen,
         PurgeOldest(f, x)
  PROVE  Synced' /\ Serves(f)
<1>1. PICK k : k = Known(f)
  OBVIOUS
<1>2. k # None /\ ~ k.deleted /\ GoodMetadata(k)
  BY <1>1, KnownGood DEF PurgeOldest, Found
<1>3. PICK vs \in Seq(Version) : vs = k.versions /\ vs # <<>>
  BY <1>2 DEF GoodMetadata, GoodList
<1>4. PICK n : n = Len(vs) - x
  OBVIOUS
<1>5. n \in 1 .. Len(vs) /\ Len(vs) \in Nat
  BY <1>1, <1>3, <1>4, DaemonAssumption DEF PurgeOldest
<1>6. PICK m : m = Culled(k, n)
  OBVIOUS
<1>7. PICK gone : gone = { vs[i] : i \in n + 1 .. Len(vs) }
  OBVIOUS
<1>8. PICK o : o = Outcome(m, Image(m), dfl[f], WithoutFiles(f, gone), 0)
  OBVIOUS
<1>9. Become(f, o)
  <2>1. \A w \in WriteMeta(f, m) : w.file = Image(m) /\ w.ret = 0
    BY Faultless
  <2> QED
    BY <1>1, <1>3, <1>4, <1>6, <1>7, <1>8, <2>1 DEF PurgeOldest
<1>10. UNCHANGED hasty /\ reply'.file = f /\ reply'.call = "purge"
  BY DEF PurgeOldest, Answer
<1>11. /\ m.versions = SubSeq(vs, 1, n) /\ m.dfl = k.dfl /\ m.deleted = k.deleted
       /\ m \in Metadata
  <2>1. SubSeq(vs, 1, n) \in Seq(Version)
    BY <1>5
  <2> QED
    BY <1>2, <1>3, <1>6, <2>1 DEF Culled, GoodMetadata, Metadata
<1>12. m # None
  BY <1>11, NoneAssumption
<1>13. o.md = m /\ o.meta = Image(m) /\ o.dfl = dfl[f] /\ o.files = WithoutFiles(f, gone)
  BY <1>8 DEF Outcome
<1>14. Matches(m, Image(m), dfl[f])
  <2>1. PinMatches(k, dfl[f])
    BY <1>1, <1>2, KnownMatches DEF Matches
  <2>2. Len(m.versions) = n
    BY <1>5, <1>11
  <2>3. Len(vs) = 1 => Len(m.versions) = 1
    BY <1>5, <2>2
  <2> QED
    BY <1>3, <1>11, <2>1, <2>3 DEF Matches, PinMatches
<1>15. /\ Synced'
       /\ \A g \in Files \ {f} : Leaves(g)
       /\ Known(f)' = m /\ store'[f] = WithoutFiles(f, gone) /\ hasty'[f] = hasty[f]
  BY <1>9, <1>10, <1>12, <1>13, <1>14, BecomeServes
<1>16. Current(m) = IF \E i \in 1 .. n : vs[i] = Current(k)
                    THEN Current(k) ELSE Head(vs)
  BY <1>2, <1>3, <1>5, <1>11, CurrentOfPrefix
<1>17. WithoutFiles(f, gone) =
         [s \in Vids |-> IF \E i \in n + 1 .. Len(vs) : vs[i].rfile = s
                         THEN None ELSE store[f][s]]
  <2>1. \A s : (\E v \in gone : v.rfile = s) <=> \E i \in n + 1 .. Len(vs) : vs[i].rfile = s
    BY <1>7
  <2> QED
    BY <2>1 DEF WithoutFiles
<1>18. Shortened(k, store[f], m, store'[f])
  BY <1>2, <1>3, <1>5, <1>11, <1>12, <1>15, <1>16, <1>17 DEF Shortened
<1> QED
  BY <1>1, <1>10, <1>15, <1>18 DEF Serves, Takes

(* callback_mknod, in its four outcomes.                                   *)
LEMMA CreateServes ==
  ASSUME Faults = {}, IInv, Synced, NEW f \in Files,
         NEW mode \in Modes, NEW uid \in Users, Create(f, mode, uid)
  PROVE  Synced' /\ Serves(f)
<1>1. reply'.file = f
  <2>1. CASE CreateRefused(f, mode)
    BY <2>1 DEF CreateRefused, Answer
  <2>2. CASE CreateFirst(f, mode, uid)
    <3>1. \E ok : reply' = Answer("mknod", f, mode, ok)
      BY <2>2 DEF CreateFirst
    <3> QED
      BY <3>1 DEF Answer
  <2>3. CASE CreateAgain(f, mode, uid)
    <3>1. \E ok : reply' = Answer("mknod", f, mode, ok)
      BY <2>3 DEF CreateAgain
    <3> QED
      BY <3>1 DEF Answer
  <2>4. CASE CreateSkipped(f, mode)
    BY <2>4 DEF CreateSkipped, Answer
  <2> QED
    BY <2>1, <2>2, <2>3, <2>4 DEF Create
<1>2. PICK k : k = Known(f)
  OBVIOUS
<1>3. k # None => GoodMetadata(k)
  BY <1>2, KnownGood
<1>4. CASE CreateRefused(f, mode)
  BY <1>4, UnchangedQuiet DEF CreateRefused, Unchanged, history
<1>5. CASE CreateFirst(f, mode, uid)
  <2>1. PICK v : v = FirstVersion(mode, uid)
    OBVIOUS
  <2>2. PICK m : m = [versions |-> <<v>>, deleted |-> FALSE, dfl |-> Unpinned,
                      recent |-> TRUE]
    OBVIOUS
  <2>3. PICK o : o = Outcome(m, Image(m), dfl[f], WithEmpty(f), 0)
    OBVIOUS
  <2>4. Become(f, o) /\ k = None /\ UNCHANGED hasty
    <3>1. \A w \in WriteMeta(f, m) : w.file = Image(m) /\ w.ret = 0
      BY Faultless
    <3> QED
      BY <1>2, <1>5, <2>1, <2>2, <2>3, <3>1 DEF CreateFirst, history
  <2>5. v \in Version
    BY <2>1, BoundsAssumption DEF FirstVersion, Version, Vids, Svids
  <2>6. m \in Metadata
    BY <2>2, <2>5 DEF Metadata, Unpinned, Pin
  <2>7. m # None /\ m.versions = <<v>> /\ m.dfl = Unpinned /\ ~ m.deleted
    BY <2>2, <2>6, NoneAssumption
  <2>8. Current(m) = v
    BY <2>7 DEF Current, Unpinned
  <2>9. o.md = m /\ o.meta = Image(m) /\ o.dfl = dfl[f] /\ o.files = WithEmpty(f)
    BY <2>3 DEF Outcome
  <2>10. Matches(m, Image(m), dfl[f])
    <3>1. Len(m.versions) = 1
      BY <2>7
    <3> QED
      BY <2>7, <3>1 DEF Matches, PinMatches
  <2>11. /\ Synced'
         /\ \A g \in Files \ {f} : Leaves(g)
         /\ Known(f)' = m /\ store'[f] = WithEmpty(f) /\ hasty'[f] = hasty[f]
    BY <2>4, <2>7, <2>9, <2>10, BecomeServes
  <2>12. WithEmpty(f) = [store[f] EXCEPT ![1] = Empty]
    BY <1>2, <2>4 DEF WithEmpty, CreateSerial
  <2>13. Made(k, store[f], m, WithEmpty(f))
    BY <2>1, <2>4, <2>7, <2>8, <2>12 DEF Made
  <2> QED
    BY <1>1, <1>2, <2>11, <2>13 DEF Serves, Adds
<1>6. CASE CreateAgain(f, mode, uid)
  <2>1. PICK v : v = NextVersion(k, uid)
    OBVIOUS
  <2>2. PICK l : l = Linked(k, v)
    OBVIOUS
  <2>3. PICK p : p = Outcome(l, Image(l), None, WithEmpty(f), 0)
    OBVIOUS
  <2>4. PICK o : o = [p EXCEPT !.md.recent = TRUE]
    OBVIOUS
  <2>5. Become(f, o) /\ k # None /\ v.vid <= MaxVid /\ UNCHANGED hasty
    <3>1. PICK q \in Link(f, k, v, WithEmpty(f)) :
            Become(f, [q EXCEPT !.md.recent = (q.ret = 0)])
      BY <1>2, <1>6, <2>1 DEF CreateAgain
    <3>2. q = p /\ q.ret = 0
      BY <2>2, <2>3, <3>1, FaultlessLink DEF Outcome
    <3> QED
      BY <1>2, <1>6, <2>1, <2>4, <3>1, <3>2 DEF CreateAgain, Fits, history
  <2>6. /\ v \in Version /\ Tops(v, k.versions)
        /\ v.vid = Head(k.versions).vid + 1 /\ v.rfile = Head(k.versions).vid + 1
    BY <1>3, <2>1, <2>5, NextVersionGood
  <2>7. PICK b \in BOOLEAN : b = TRUE
    OBVIOUS
  <2>8. o.md = [l EXCEPT !.recent = b] /\ o.meta = Image(l) /\ o.dfl = None
        /\ o.files = WithEmpty(f)
    BY <2>3, <2>4, <2>7 DEF Outcome
  <2>9. /\ Synced'
        /\ \A g \in Files \ {f} : Leaves(g)
        /\ Headed(k, Known(f)', v)
        /\ store'[f] = WithEmpty(f) /\ hasty'[f] = hasty[f]
    BY <1>2, <1>3, <2>2, <2>5, <2>6, <2>8, LinkServes
  <2>10. WithEmpty(f) = [store[f] EXCEPT ![v.rfile] = Empty] /\ Empty \in Data
    BY <1>2, <2>5, <2>6, DaemonAssumption DEF WithEmpty, CreateSerial
  <2>11. Versioned(k, store[f], Known(f)', store'[f])
    BY <2>1, <2>5, <2>9, <2>10 DEF Versioned
  <2> QED
    BY <1>1, <1>2, <2>9, <2>11 DEF Serves, Adds
<1>7. CASE CreateSkipped(f, mode)
  <2>1. /\ Become(f, Outcome(Known(f), meta[f], dfl[f], WithEmpty(f), 0))
        /\ k # None /\ CreateSerial(f) \in Vids
        /\ CreateSerial(f) = Head(k.versions).vid + 1
        /\ hasty' = [hasty EXCEPT ![f] = TRUE]
    BY <1>2, <1>7 DEF CreateSkipped, MakesBacking, CreateSerial
  <2>2. hasty'[f] /\ \A g \in Files \ {f} : hasty'[g] = hasty[g]
    BY <2>1 DEF IInv, Noted
  <2>3. Matches(k, meta[f], dfl[f])
    BY <1>2, KnownMatches
  <2>4. /\ cache'[f] = k /\ meta'[f] = meta[f] /\ dfl'[f] = dfl[f]
        /\ store'[f] = WithEmpty(f)
    BY <1>2, <2>1 DEF Become, Outcome, IInv, Stored
  <2>5. \A g \in Files \ {f} : /\ cache'[g] = cache[g] /\ meta'[g] = meta[g]
                               /\ dfl'[g] = dfl[g] /\ store'[g] = store[g]
    BY <2>1 DEF Become, IInv, Stored
  <2>6. Synced'
    BY <2>3, <2>4, <2>5 DEF Synced
  <2>7. \A g \in Files : Known(g)' = Known(g)
    BY <1>2, <2>1, <2>4, <2>5 DEF Known
  <2>8. \A g \in Files \ {f} : Leaves(g)
    BY <2>2, <2>5, <2>7, SameSelf DEF Leaves, Quiet
  <2>9. Wasted(k, store[f], k, store'[f])
    BY <2>1, <2>4, SameSelf DEF Wasted, WithEmpty
  <2> QED
    BY <1>1, <1>2, <2>2, <2>6, <2>7, <2>8, <2>9 DEF Serves
<1> QED
  BY <1>4, <1>5, <1>6, <1>7 DEF Create

(* Every step serves a client on one file, or is the daemon's own.         *)
LEMMA NextServes ==
  ASSUME Faults = {}, IInv, Synced, [Next]_vars
  PROVE  Synced' /\ (Idles \/ \E f \in Files : Serves(f))
<1>1. CASE UNCHANGED vars
  <2>1. UNCHANGED <<cache, meta, dfl, store, hasty>>
    BY <1>1 DEF vars
  <2>2. Synced'
    BY <2>1 DEF Synced
  <2>3. \A g \in Files : Known(g)' = Known(g)
    BY <2>1 DEF Known
  <2> QED
    BY <2>1, <2>2, <2>3, SameSelf DEF Idles, Leaves, Quiet
<1>2. CASE Next
  BY <1>2, CreateServes, OpenServes, WriteServes, CloseServes, TruncateServes,
     ChmodServes, ChownServes, UnlinkServes, LockServes, PurgeAllServes,
     PurgeOldestServes, LookupServes, TickServes, RestartServes DEF Next, Callback
<1> QED
  BY <1>1, <1>2

-----------------------------------------------------------------------------
(* The invariant, and what it says of every step.                          *)

LEMMA InitSynced ==
  ASSUME Init
  PROVE  Synced /\ AllOwned
<1>1. Synced
  BY DEF Init, Synced, Matches
<1>2. AllOwned
  BY DEF Init, AllOwned, Owned
<1> QED
  BY <1>1, <1>2

(* The names in a list that has a new head.                                *)
LEMMA HeadedNames ==
  ASSUME NEW k, GoodMetadata(k), NEW m, NEW v, Headed(k, m, v)
  PROVE  /\ v.rfile \in Vids => v.rfile \in NamedIn(m)
         /\ NamedIn(k) \subseteq NamedIn(m)
<1>1. PICK vs \in Seq(Version) : vs = k.versions
  BY DEF GoodMetadata, GoodList
<1>2. PICK ns : ns = <<v>> \o vs
  OBVIOUS
<1>3. /\ 1 \in DOMAIN ns /\ ns[1] = v
      /\ \A i \in DOMAIN vs : i + 1 \in DOMAIN ns /\ ns[i + 1] = vs[i]
  BY <1>1, <1>2
<1>4. VersionsOf(k) = vs /\ VersionsOf(m) = ns
  BY <1>1, <1>2 DEF Headed, VersionsOf
<1> QED
  BY <1>3, <1>4 DEF NamedIn

LEMMA SameNames ==
  ASSUME NEW k, NEW m, Same(k, m)
  PROVE  VersionsOf(m) = VersionsOf(k) /\ NamedIn(m) = NamedIn(k)
  BY DEF Same, VersionsOf, NamedIn

(* A callback that adds to a file names every backing file it makes.       *)
LEMMA AddsOwned ==
  ASSUME NEW k, k # None => GoodMetadata(k), NEW c \in GoodFiles, NEW m, NEW d,
         Adds(k, c, m, d), Owned(k, c)
  PROVE  Owned(m, d)
<1>1. CASE Quiet(k, c, m, d)
  BY <1>1, SameNames DEF Quiet, Owned
<1>2. CASE Made(k, c, m, d)
  <2>1. PICK mode \in Modes, uid \in Users :
          m.versions = <<FirstVersion(mode, uid)>>
    BY <1>2 DEF Made
  <2>2. k = None /\ m # None /\ d = [c EXCEPT ![1] = Empty]
    BY <1>2 DEF Made
  <2>3. PICK v : v = FirstVersion(mode, uid)
    OBVIOUS
  <2>4. v.rfile = 1
    BY <2>3 DEF FirstVersion
  <2>5. 1 \in DOMAIN VersionsOf(m) /\ VersionsOf(m)[1] = v
    BY <2>1, <2>2, <2>3 DEF VersionsOf
  <2>6. NamedIn(k) = {}
    BY <2>2 DEF NamedIn, VersionsOf
  <2>7. \A s \in Vids : d[s] # None => s = 1
    BY <2>2, <2>6 DEF Owned, GoodFiles
  <2> QED
    BY <2>4, <2>5, <2>7 DEF Owned, NamedIn
<1>3. CASE Versioned(k, c, m, d)
  <2>1. PICK uid \in Users, x \in Data :
          /\ Headed(k, m, NextVersion(k, uid))
          /\ d = [c EXCEPT ![NextVersion(k, uid).rfile] = x]
    BY <1>3 DEF Versioned
  <2>2. PICK v : v = NextVersion(k, uid)
    OBVIOUS
  <2>3. GoodMetadata(k)
    BY <2>1 DEF Headed
  <2>4. \A s \in Vids : d[s] # None => s = v.rfile \/ c[s] # None
    BY <2>1, <2>2 DEF GoodFiles
  <2> QED
    BY <2>1, <2>2, <2>3, <2>4, HeadedNames DEF Owned
<1>4. CASE Subversioned(k, c, m, d)
  <2>1. PICK v : Headed(k, m, v)
    BY <1>4 DEF Subversioned
  <2>2. d = c /\ GoodMetadata(k)
    BY <1>4 DEF Subversioned, Headed
  <2> QED
    BY <2>1, <2>2, HeadedNames DEF Owned
<1>5. CASE Written(k, c, m, d)
  <2>1. PICK s : s = Current(k).rfile
    OBVIOUS
  <2>2. PICK x \in Data : d = [c EXCEPT ![s] = x]
    BY <1>5, <2>1 DEF Written
  <2>3. Same(k, m) /\ c[s] # None
    BY <1>5, <2>1 DEF Written
  <2>4. \A t \in Vids : d[t] # None => c[t] # None
    BY <2>2, <2>3 DEF GoodFiles
  <2> QED
    BY <2>3, <2>4, SameNames DEF Owned
<1>6. CASE Selected(k, c, m, d)
  BY <1>6 DEF Selected, Owned, NamedIn, VersionsOf
<1>7. CASE Marked(k, c, m, d)
  BY <1>7 DEF Marked, Owned, NamedIn, VersionsOf
<1> QED
  BY <1>1, <1>2, <1>3, <1>4, <1>5, <1>6, <1>7 DEF Adds

(* A purge takes the files of the versions it takes, and leaves none that  *)
(* has no version.                                                         *)
LEMMA TakesOwned ==
  ASSUME NEW k, k # None => GoodMetadata(k), NEW c \in GoodFiles, NEW m, NEW d,
         Takes(k, c, m, d), Owned(k, c)
  PROVE  Owned(m, d)
<1>1. CASE Shortened(k, c, m, d)
  <2>1. PICK n \in 1 .. Len(k.versions) :
          /\ k # None /\ m # None
          /\ m.versions = SubSeq(k.versions, 1, n)
          /\ d = [s \in Vids |->
                    IF \E i \in n + 1 .. Len(k.versions) : k.versions[i].rfile = s
                    THEN None ELSE c[s]]
    BY <1>1 DEF Shortened
  <2>2. PICK vs \in Seq(Version) : vs = k.versions
    BY <2>1 DEF GoodMetadata, GoodList
  <2>3. PICK ns : ns = SubSeq(vs, 1, n)
    OBVIOUS
  <2>4. \A i \in 1 .. n : i \in DOMAIN ns /\ ns[i] = vs[i]
    BY <2>1, <2>2, <2>3
  <2>5. VersionsOf(k) = vs /\ VersionsOf(m) = ns
    BY <2>1, <2>2, <2>3 DEF VersionsOf
  <2>6. ASSUME NEW s \in Vids, d[s] # None
        PROVE  s \in NamedIn(m)
    <3>1. c[s] # None /\ ~ \E i \in n + 1 .. Len(vs) : vs[i].rfile = s
      BY <2>1, <2>2, <2>6
    <3>2. PICK i \in 1 .. Len(vs) : vs[i].rfile = s
      BY <2>2, <2>5, <3>1 DEF Owned, NamedIn
    <3>3. i \in 1 .. n
      BY <2>1, <2>2, <3>1, <3>2
    <3> QED
      BY <2>4, <2>5, <3>2, <3>3 DEF NamedIn
  <2> QED
    BY <2>6 DEF Owned
<1>2. CASE Purged(k, c, m, d)
  BY <1>2 DEF Purged, Owned
<1> QED
  BY <1>1, <1>2 DEF Takes

LEMMA LeavesOwned ==
  ASSUME NEW f \in Files, Leaves(f), hasty[f] \/ Owned(Known(f), store[f])
  PROVE  hasty'[f] \/ Owned(Known(f)', store'[f])
  BY SameNames DEF Leaves, Quiet, Owned

LEMMA NextOwned ==
  ASSUME IInv, AllOwned, Idles \/ \E f \in Files : Serves(f)
  PROVE  AllOwned'
<1>1. ASSUME NEW f \in Files
      PROVE  hasty[f] \/ Owned(Known(f), store[f])
  BY DEF AllOwned
<1>2. CASE Idles
  BY <1>1, <1>2, LeavesOwned DEF Idles, AllOwned
<1>3. ASSUME NEW f \in Files, Serves(f)
      PROVE  AllOwned'
  <2>1. ASSUME NEW g \in Files \ {f}
        PROVE  hasty'[g] \/ Owned(Known(g)', store'[g])
    BY <1>1, <1>3, LeavesOwned DEF Serves
  <2>2. store[f] \in GoodFiles /\ (Known(f) # None => GoodMetadata(Known(f)))
    BY KnownGood DEF IInv, Stored
  <2>3. hasty'[f] \/ Owned(Known(f)', store'[f])
    BY <1>1, <1>3, <2>2, AddsOwned, TakesOwned DEF Serves
  <2> QED
    BY <2>1, <2>3 DEF AllOwned
<1> QED
  BY <1>2, <1>3

LEMMA SyncedInvariance == Faults = {} => (Spec => [](IInv /\ Synced /\ AllOwned))
<1> SUFFICES ASSUME Faults = {}
             PROVE  Spec => [](IInv /\ Synced /\ AllOwned)
  OBVIOUS
<1>1. Init => IInv /\ Synced /\ AllOwned
  BY InitInv, InitSynced
<1>2. IInv /\ Synced /\ AllOwned /\ [Next]_vars => (IInv /\ Synced /\ AllOwned)'
  BY NextInv, NextServes, NextOwned
<1> QED
  BY <1>1, <1>2, PTL DEF Spec

-----------------------------------------------------------------------------
(* When no call fails, no backing file is left behind: each belongs to a   *)
(* listed version, unless a creation was answered by the time check alone. *)
THEOREM NeverOrphans == Faults = {} => (Spec => []NoOrphans)
<1>1. AllOwned => NoOrphans
  <2> SUFFICES ASSUME AllOwned, NEW f \in Files, NEW s \in Vids,
                      ~ hasty[f], store[f][s] # None
               PROVE  \E i \in DOMAIN Listed(f) : Listed(f)[i].rfile = s
    BY DEF NoOrphans
  <2>1. s \in NamedIn(Known(f))
    BY DEF AllOwned, Owned
  <2>2. VersionsOf(Known(f)) = Listed(f)
    BY DEF VersionsOf, Listed
  <2> QED
    BY <2>1, <2>2 DEF NamedIn
<1>2. CASE Faults = {}
  BY <1>1, <1>2, SyncedInvariance, PTL
<1> QED
  BY <1>2

(* A reader of a file sees no change when the callback is for another one. *)
THEOREM OthersAlwaysKeepView == Faults = {} => (Spec => OthersKeepView)
<1> SUFFICES ASSUME Faults = {}
             PROVE  Spec => OthersKeepView
  OBVIOUS
<1>1. ASSUME NEW f \in Files, Leaves(f)
      PROVE  View(f)' = View(f)
  <2>1. PICK k : k = Known(f)
    OBVIOUS
  <2>2. PICK m : m = Known(f)'
    OBVIOUS
  <2>3. Same(k, m) /\ store'[f] = store[f]
    BY <1>1, <2>1, <2>2 DEF Leaves, Quiet
  <2>4. Found(f)' = (m # None /\ ~ m.deleted) /\ Found(f) = (k # None /\ ~ k.deleted)
    BY <2>1, <2>2 DEF Found
  <2>5. Served(f)' = Current(m) /\ Served(f) = Current(k)
    BY <2>1, <2>2 DEF Served
  <2>6. CASE k = None \/ k.deleted
    BY <2>3, <2>4, <2>6 DEF View, Same
  <2>7. CASE k # None /\ ~ k.deleted
    BY <2>3, <2>4, <2>5, <2>7 DEF View, Same
  <2> QED
    BY <2>6, <2>7
<1>2. IInv /\ Synced /\ [Next]_vars =>
        [\A f \in Files : reply'.file # f => View(f)' = View(f)]_vars
  BY <1>1, NextServes DEF Idles, Serves
<1>3. Spec => [](IInv /\ Synced /\ AllOwned)
  BY SyncedInvariance
<1> QED
  BY <1>2, <1>3, PTL DEF Spec, OthersKeepView

-----------------------------------------------------------------------------
(* Suffixes, as IsSuffix of SequencesExt defines them.                     *)

LEMMA SuffixSelf == \A vs : vs \in Seq(Version) => IsSuffix(vs, vs)
  BY DEF IsSuffix, IsPrefix, Reverse

LEMMA SuffixEmpty ==
  ASSUME NEW vs \in Seq(Version)
  PROVE  IsSuffix(<<>>, vs)
<1>1. Reverse(vs) \in Seq(Version) /\ Len(Reverse(vs)) = Len(vs)
  BY ReverseFacts
<1>2. PICK r \in Seq(Version) : r = Reverse(vs)
  BY <1>1
<1>3. PICK e \in Seq(Version) : e = <<>>
  <2>1. <<>> \in Seq(Version)
    OBVIOUS
  <2> QED
    BY <2>1
<1>4. Reverse(e) \in Seq(Version) /\ Len(Reverse(e)) = 0
  BY <1>3, ReverseFacts
<1>5. PICK z \in Seq(Version) : z = Reverse(e) /\ Len(z) = 0
  BY <1>4
<1>6. SubSeq(z, 1, 0) = SubSeq(r, 1, 0) /\ 0 <= Len(r)
  OBVIOUS
<1> QED
  BY <1>2, <1>3, <1>5, <1>6 DEF IsSuffix, IsPrefix

LEMMA SuffixOfCons ==
  ASSUME NEW vs \in Seq(Version), NEW v \in Version
  PROVE  IsSuffix(vs, <<v>> \o vs)
<1>1. PICK ns \in Seq(Version) : ns = <<v>> \o vs
  <2>1. <<v>> \o vs \in Seq(Version)
    OBVIOUS
  <2> QED
    BY <2>1
<1>2. PICK n \in Nat : n = Len(vs)
  OBVIOUS
<1>3. Len(ns) = n + 1 /\ \A i \in 1 .. n : ns[i + 1] = vs[i]
  BY <1>1, <1>2
<1>4. PICK r \in Seq(Version) : r = Reverse(vs)
  BY ReverseFacts
<1>5. PICK t \in Seq(Version) : t = Reverse(ns)
  BY ReverseFacts
<1>6. Len(r) = n /\ \A i \in 1 .. n : r[i] = vs[n - i + 1]
  BY <1>2, <1>4, ReverseFacts
<1>7. Len(t) = n + 1 /\ \A i \in 1 .. n + 1 : t[i] = ns[n + 1 - i + 1]
  <2>1. Len(t) = Len(ns) /\ \A i \in 1 .. Len(ns) : t[i] = ns[Len(ns) - i + 1]
    BY <1>5, ReverseFacts
  <2> QED
    BY <1>3, <2>1
<1>8. \A i \in 1 .. n : t[i] = r[i]
  <2> TAKE i \in 1 .. n
  <2>1. n - i + 1 \in 1 .. n /\ n + 1 - i + 1 = (n - i + 1) + 1
    OBVIOUS
  <2>2. ns[(n - i + 1) + 1] = vs[n - i + 1]
    BY <1>3, <2>1
  <2> QED
    BY <1>6, <1>7, <2>1, <2>2
<1>9. SubSeq(r, 1, n) = SubSeq(t, 1, n)
  BY <1>6, <1>7, <1>8
<1>10. IsPrefix(r, t)
  <2>1. Len(r) <= Len(t)
    BY <1>6, <1>7
  <2> QED
    BY <1>6, <1>9, <2>1 DEF IsPrefix
<1> QED
  BY <1>1, <1>4, <1>5, <1>10 DEF IsSuffix

(* What a callback that is no purge makes of a list.                       *)
LEMMA HeadedSuffix ==
  ASSUME NEW k, GoodMetadata(k), NEW m, m # None => GoodMetadata(m),
         NEW v, Headed(k, m, v)
  PROVE  IsSuffix(VersionsOf(k), VersionsOf(m))
<1>1. PICK vs \in Seq(Version) : vs = k.versions
  BY DEF GoodMetadata, GoodList
<1>2. VersionsOf(k) = vs /\ VersionsOf(m) = <<v>> \o vs
  BY <1>1 DEF Headed, VersionsOf
<1>3. v \in Version
  <2>1. Head(m.versions) \in Version
    BY HeadFacts DEF Headed
  <2>2. Head(<<v>> \o vs) = v
    OBVIOUS
  <2> QED
    BY <1>1, <2>1, <2>2 DEF Headed
<1> QED
  BY <1>1, <1>2, <1>3, SuffixOfCons

LEMMA AddsSuffix ==
  ASSUME NEW k, k # None => GoodMetadata(k), NEW m, m # None => GoodMetadata(m),
         NEW c, NEW d, Adds(k, c, m, d) \/ Wasted(k, c, m, d)
  PROVE  IsSuffix(VersionsOf(k), VersionsOf(m))
<1>1. /\ VersionsOf(k) \in Seq(Version) /\ VersionsOf(m) \in Seq(Version)
  BY DEF VersionsOf, GoodMetadata, GoodList
<1>2. CASE VersionsOf(m) = VersionsOf(k)
  BY <1>1, <1>2, SuffixSelf
<1>3. CASE Made(k, c, m, d)
  BY <1>1, <1>3, SuffixEmpty DEF Made, VersionsOf
<1>4. ASSUME NEW v, Headed(k, m, v)
      PROVE  IsSuffix(VersionsOf(k), VersionsOf(m))
  BY <1>4, HeadedSuffix DEF Headed
<1>5. CASE Versioned(k, c, m, d)
  BY <1>4, <1>5 DEF Versioned
<1>6. CASE Subversioned(k, c, m, d)
  BY <1>4, <1>6 DEF Subversioned
<1>7. CASE Quiet(k, c, m, d) \/ Written(k, c, m, d) \/ Wasted(k, c, m, d)
  BY <1>2, <1>7, SameNames DEF Quiet, Written, Wasted
<1>8. CASE Selected(k, c, m, d) \/ Marked(k, c, m, d)
  <2>1. VersionsOf(m) = VersionsOf(k)
    BY <1>8 DEF Selected, Marked, VersionsOf
  <2> QED
    BY <1>2, <2>1
<1> QED
  BY <1>3, <1>5, <1>6, <1>7, <1>8 DEF Adds

LEMMA AllKnownGood ==
  IInv => \A f \in Files : Known(f) # None => GoodMetadata(Known(f))
  BY KnownGood

LEMMA AllKnownGoodNext ==
  (IInv => \A f \in Files : Known(f) # None => GoodMetadata(Known(f)))'
  BY AllKnownGood, PTL

(* Only a purge of the file itself shortens its history: any other step,   *)
(* and a purge of a file in the same bucket of the cache, leaves the old   *)
(* list as the tail of the new one.                                        *)
THEOREM OnlyPurgeEverForgets == Faults = {} => (Spec => OnlyPurgeForgets)
<1> SUFFICES ASSUME Faults = {}
             PROVE  Spec => OnlyPurgeForgets
  OBVIOUS
<1>1. ASSUME IInv, IInv', NEW f \in Files,
             \/ Leaves(f)
             \/ Adds(Known(f), store[f], Known(f)', store'[f])
             \/ Wasted(Known(f), store[f], Known(f)', store'[f])
      PROVE  ForgetsNothing(f)
  <2>1. PICK k : k = Known(f)
    OBVIOUS
  <2>2. PICK m : m = Known(f)'
    OBVIOUS
  <2>3. (k # None => GoodMetadata(k)) /\ (m # None => GoodMetadata(m))
    <3>1. m # None => GoodMetadata(m)
      <4>1. Known(f)' # None => GoodMetadata(Known(f)')
        BY <1>1, AllKnownGoodNext
      <4> QED
        BY <1>1, <2>2, <4>1
    <3> QED
      BY <1>1, <2>1, <3>1, KnownGood
  <2>4. Adds(k, store[f], m, store'[f]) \/ Wasted(k, store[f], m, store'[f])
    BY <1>1, <2>1, <2>2 DEF Leaves, Adds
  <2>5. VersionsOf(k) = Listed(f) /\ VersionsOf(m) = Listed(f)'
    BY <2>1, <2>2 DEF VersionsOf, Listed
  <2> QED
    BY <2>3, <2>4, <2>5, AddsSuffix DEF ForgetsNothing
<1>2. IInv /\ IInv' /\ Synced /\ [Next]_vars => [\A f \in Files : ForgetsNothing(f)]_vars
  <2> SUFFICES ASSUME IInv, IInv', Synced, [Next]_vars, NEW f \in Files
               PROVE  ForgetsNothing(f)
    OBVIOUS
  <2>1. CASE Idles
    BY <1>1, <2>1 DEF Idles
  <2>2. ASSUME NEW g \in Files, Serves(g)
        PROVE  ForgetsNothing(f)
    <3>1. CASE f # g
      BY <1>1, <2>2, <3>1 DEF Serves
    <3>2. CASE f = g
      BY <1>1, <2>2, <3>2 DEF Serves, ForgetsNothing
    <3> QED
      BY <3>1, <3>2
  <2> QED
    BY <2>1, <2>2, NextServes
<1>3. Spec => [](IInv /\ Synced /\ AllOwned)
  BY SyncedInvariance
<1> QED
  BY <1>2, <1>3, PTL DEF Spec, OnlyPurgeForgets

-----------------------------------------------------------------------------
(* The refinement: what each kind of step is to VersionedFiles.            *)

AbstractOf(k) ==
  IF k = None THEN None
  ELSE [versions |-> k.versions, served |-> Current(k), deleted |-> k.deleted]

CellsOf(k, c) == [s \in Vids |-> IF s \in NamedIn(k) THEN c[s] ELSE None]

AFile == [f \in Files |-> AbstractFile(f)]
AData == [f \in Files |-> AbstractData(f)]

LEMMA AbstractKnown ==
  ASSUME NEW f \in Files
  PROVE  /\ AFile[f] = AbstractOf(Known(f))
         /\ AData[f] = CellsOf(Known(f), store[f])
         /\ AbstractFile(f)' = AbstractOf(Known(f)')
         /\ AbstractData(f)' = CellsOf(Known(f)', store'[f])
<1>1. VersionsOf(Known(f)) = Listed(f) /\ VersionsOf(Known(f)') = Listed(f)'
  BY DEF VersionsOf, Listed
<1>2. AbstractFile(f) = AbstractOf(Known(f)) /\ AbstractFile(f)' = AbstractOf(Known(f)')
  BY DEF AbstractFile, AbstractOf, Served
<1>3. /\ AbstractData(f) = CellsOf(Known(f), store[f])
      /\ AbstractData(f)' = CellsOf(Known(f)', store'[f])
  BY <1>1 DEF AbstractData, CellsOf, NamedIn
<1> QED
  BY <1>2, <1>3 DEF AFile, AData

LEMMA SameAbstract ==
  ASSUME NEW k, NEW m, NEW c, Same(k, m)
  PROVE  AbstractOf(m) = AbstractOf(k) /\ CellsOf(m, c) = CellsOf(k, c)
<1>1. NamedIn(m) = NamedIn(k)
  BY SameNames
<1> QED
  BY <1>1 DEF Same, AbstractOf, CellsOf

LEMMA QuietAbstract ==
  ASSUME NEW f \in Files, Quiet(Known(f), store[f], Known(f)', store'[f])
  PROVE  AbstractFile(f)' = AbstractFile(f) /\ AbstractData(f)' = AbstractData(f)
<1>1. AbstractOf(Known(f)') = AbstractOf(Known(f))
  BY SameAbstract DEF Quiet
<1>2. CellsOf(Known(f)', store'[f]) = CellsOf(Known(f), store[f])
  BY SameAbstract DEF Quiet
<1> QED
  BY <1>1, <1>2, AbstractKnown DEF AFile, AData

LEMMA LeavesAbstract ==
  ASSUME NEW f \in Files, Leaves(f)
  PROVE  AbstractFile(f)' = AbstractFile(f) /\ AbstractData(f)' = AbstractData(f)
  BY QuietAbstract DEF Leaves

(* A step for one file changes the abstract state there only.              *)
LEMMA ServesAbstract ==
  ASSUME NEW f \in Files, \A g \in Files \ {f} : Leaves(g)
  PROVE  /\ AFile' = [AFile EXCEPT ![f] = AbstractOf(Known(f)')]
         /\ AData' = [AData EXCEPT ![f] = CellsOf(Known(f)', store'[f])]
<1>1. \A g \in Files \ {f} :
        AbstractFile(g)' = AbstractFile(g) /\ AbstractData(g)' = AbstractData(g)
  BY LeavesAbstract
<1>2. /\ AbstractFile(f)' = AbstractOf(Known(f)')
      /\ AbstractData(f)' = CellsOf(Known(f)', store'[f])
  BY AbstractKnown
<1> QED
  BY <1>1, <1>2 DEF AFile, AData

LEMMA AbstractType ==
  ASSUME NEW k, GoodMetadata(k), k # None
  PROVE  AbstractOf(k) # None
<1>1. /\ k.versions \in Seq(Version) /\ Current(k) \in Version
      /\ k.deleted \in BOOLEAN
  BY CurrentFacts DEF GoodMetadata, GoodList, Metadata
<1> QED
  BY <1>1, RecordAssumption DEF AbstractOf

(* create_new_metadata: Make.                                              *)
LEMMA MadeMakes ==
  ASSUME NEW f \in Files, \A g \in Files \ {f} : Leaves(g), store[f] \in GoodFiles,
         Known(f)' # None => GoodMetadata(Known(f)'),
         Made(Known(f), store[f], Known(f)', store'[f])
  PROVE  \E mode \in Modes, uid \in Users : Promise!Make(f, mode, uid)
<1>1. PICK m : m = Known(f)'
  OBVIOUS
<1>2. PICK mode \in Modes, uid \in Users :
        /\ Known(f) = None /\ m # None
        /\ m.versions = <<FirstVersion(mode, uid)>>
        /\ ~ m.deleted
        /\ Current(m) = FirstVersion(mode, uid)
        /\ store'[f] = [store[f] EXCEPT ![1] = Empty]
  BY <1>1 DEF Made
<1>3. PICK v : v = FirstVersion(mode, uid)
  OBVIOUS
<1>4. v.rfile = 1
  BY <1>3 DEF FirstVersion
<1>5. \A s : s \in NamedIn(m) <=> s \in Vids /\ s = 1
  <2>1. VersionsOf(m) = <<v>>
    BY <1>2, <1>3 DEF VersionsOf
  <2> QED
    BY <1>4, <2>1 DEF NamedIn
<1>6. CellsOf(m, store'[f]) = [[s \in Vids |-> None] EXCEPT ![1] = Empty]
  BY <1>2, <1>5 DEF CellsOf, GoodFiles
<1>7. AbstractOf(m) = [versions |-> <<v>>, served |-> v, deleted |-> FALSE]
  <2>1. m.deleted = FALSE
    BY <1>1, <1>2 DEF GoodMetadata, Metadata
  <2> QED
    BY <1>2, <1>3, <2>1 DEF AbstractOf
<1>8. /\ AFile[f] = None
      /\ AFile' = [AFile EXCEPT ![f] = AbstractOf(m)]
      /\ AData' = [AData EXCEPT ![f] = CellsOf(m, store'[f])]
  <2>1. AFile[f] = None
    BY <1>2, AbstractKnown DEF AbstractOf
  <2> QED
    BY <1>1, <2>1, ServesAbstract
<1>9. Promise!FirstVersion(mode, uid) = v
  BY <1>3 DEF FirstVersion, Promise!FirstVersion
<1>10. Promise!Absent = [s \in Vids |-> None]
  BY DEF Promise!Absent, Promise!Vids, Vids
<1>11. AFile' = [AFile EXCEPT ![f] = [versions |-> <<v>>, served |-> v, deleted |-> FALSE]]
  BY <1>7, <1>8
<1>12. AData' = [AData EXCEPT ![f] = [Promise!Absent EXCEPT ![1] = Empty]]
  BY <1>6, <1>8, <1>10
<1>13. Promise!Make(f, mode, uid)
  BY <1>8, <1>9, <1>11, <1>12 DEF Promise!Make, AFile, AData
<1> QED
  BY <1>13

LEMMA HeadedAbstract ==
  ASSUME NEW k, GoodMetadata(k), NEW m, GoodMetadata(m), NEW v, Headed(k, m, v)
  PROVE  /\ AbstractOf(m) = Promise!Extended(AbstractOf(k), v)
         /\ \A s \in Vids : s \in NamedIn(m) <=> s = v.rfile \/ s \in NamedIn(k)
<1>1. PICK vs \in Seq(Version) : vs = k.versions
  BY DEF GoodMetadata, GoodList
<1>2. PICK ns : ns = <<v>> \o vs
  OBVIOUS
<1>3. /\ k # None /\ m # None /\ m.versions = ns /\ Current(m) = v
  BY <1>1, <1>2 DEF Headed
<1>4. m.deleted = FALSE
  BY DEF Headed, GoodMetadata, Metadata
<1>5. AbstractOf(k).versions = vs
  BY <1>1, <1>3 DEF AbstractOf
<1>6. AbstractOf(m) = [versions |-> ns, served |-> v, deleted |-> FALSE]
  BY <1>3, <1>4 DEF AbstractOf
<1>7. VersionsOf(k) = vs /\ VersionsOf(m) = ns
  BY <1>1, <1>3 DEF VersionsOf
<1>8. /\ 1 \in DOMAIN ns /\ ns[1] = v
      /\ \A i \in DOMAIN vs : i + 1 \in DOMAIN ns /\ ns[i + 1] = vs[i]
      /\ \A i \in DOMAIN ns : i = 1 \/ (i - 1 \in DOMAIN vs /\ ns[i] = vs[i - 1])
  BY <1>1, <1>2
<1>9. \A s \in Vids : s \in NamedIn(m) <=> s = v.rfile \/ s \in NamedIn(k)
  <2>1. ASSUME NEW s \in Vids, s \in NamedIn(m)
        PROVE  s = v.rfile \/ s \in NamedIn(k)
    <3>1. PICK i \in DOMAIN ns : ns[i].rfile = s
      BY <1>7, <2>1 DEF NamedIn
    <3> QED
      BY <1>7, <1>8, <3>1 DEF NamedIn
  <2>2. ASSUME NEW s \in Vids, s = v.rfile \/ s \in NamedIn(k)
        PROVE  s \in NamedIn(m)
    BY <1>7, <1>8, <2>2 DEF NamedIn
  <2> QED
    BY <2>1, <2>2
<1> QED
  BY <1>2, <1>5, <1>6, <1>9 DEF Promise!Extended

(* create_new_version, and create_new_file over a deleted one: NewCell.    *)
LEMMA VersionedMakes ==
  ASSUME NEW f \in Files, \A g \in Files \ {f} : Leaves(g), IInv,
         Known(f)' # None => GoodMetadata(Known(f)'),
         Versioned(Known(f), store[f], Known(f)', store'[f])
  PROVE  \E mode \in Modes, uid \in Users : Promise!NewCell(f, mode, uid)
<1>1. PICK k : k = Known(f)
  OBVIOUS
<1>2. PICK m : m = Known(f)'
  OBVIOUS
<1>3. PICK c \in GoodFiles : c = store[f]
  BY DEF IInv, Stored
<1>4. PICK uid \in Users, x \in Data :
        /\ Headed(k, m, NextVersion(k, uid))
        /\ NextVersion(k, uid).vid <= MaxVid
        /\ store'[f] = [c EXCEPT ![NextVersion(k, uid).rfile] = x]
  BY <1>1, <1>2, <1>3 DEF Versioned
<1>5. PICK v : v = NextVersion(k, uid)
  OBVIOUS
<1>6. k # None /\ m # None /\ GoodMetadata(k) /\ GoodMetadata(m)
  BY <1>1, <1>2, <1>4, KnownGood DEF Headed
<1>7. PICK cell : cell = v.rfile
  OBVIOUS
<1>8. cell = Head(k.versions).vid + 1 /\ v.vid = Head(k.versions).vid + 1
  BY <1>5, <1>7 DEF NextVersion
<1>9. Head(k.versions).vid \in Vids
  BY <1>6, CurrentFacts
<1>10. cell \in Vids
  BY <1>4, <1>5, <1>8, <1>9, BoundsAssumption DEF Vids
<1>11. cell \notin { w.rfile : w \in Promise!Range(k.versions) }
  <2>1. ASSUME NEW i \in DOMAIN k.versions
        PROVE  k.versions[i].rfile # cell
    <3>1. k.versions[i] \in Version /\ k.versions[i].rfile <= Head(k.versions).vid
      BY <1>6, HeadFacts
    <3> QED
      BY <1>8, <1>9, <3>1, BoundsAssumption DEF Version, Vids
  <2> QED
    BY <2>1 DEF Promise!Range
<1>12. CellsOf(m, store'[f]) = [CellsOf(k, c) EXCEPT ![cell] = x]
  <2>1. \A s \in Vids : s \in NamedIn(m) <=> s = cell \/ s \in NamedIn(k)
    BY <1>4, <1>5, <1>6, <1>7, HeadedAbstract
  <2> QED
    BY <1>4, <1>5, <1>7, <1>10, <2>1 DEF CellsOf, GoodFiles
<1>13. v = [vid |-> Head(k.versions).vid + 1, svid |-> 0, mode |-> Current(k).mode,
            uid |-> uid, rfile |-> cell]
  BY <1>5, <1>7 DEF NextVersion
<1>14. /\ AFile[f] = AbstractOf(k) /\ AFile[f] # None
       /\ AFile[f].versions = k.versions /\ AFile[f].served = Current(k)
       /\ AData[f] = CellsOf(k, c)
  <2>1. AFile[f] = AbstractOf(k) /\ AData[f] = CellsOf(k, c)
    BY <1>1, <1>3, AbstractKnown
  <2>2. AbstractOf(k) # None
    BY <1>6, AbstractType
  <2> QED
    BY <1>6, <2>1, <2>2 DEF AbstractOf
<1>15. AFile' = [AFile EXCEPT ![f] = Promise!Extended(AFile[f], v)]
  <2>1. AbstractOf(m) = Promise!Extended(AbstractOf(k), v)
    BY <1>4, <1>5, <1>6, HeadedAbstract
  <2> QED
    BY <1>2, <1>14, <2>1, ServesAbstract
<1>16. AData' = [AData EXCEPT ![f][cell] = x]
  BY <1>2, <1>12, <1>14, ServesAbstract
<1>17. AFile' = [AFile EXCEPT ![f] = Promise!Extended(AFile[f],
           [vid |-> Head(AFile[f].versions).vid + 1, svid |-> 0,
            mode |-> AFile[f].served.mode, uid |-> uid, rfile |-> cell])]
  BY <1>13, <1>14, <1>15
<1>18. cell \in Promise!Vids \ { w.rfile : w \in Promise!Range(AFile[f].versions) }
  BY <1>10, <1>11, <1>14 DEF Promise!Vids, Vids
<1>19. PICK mode \in Modes : mode = AFile[f].served.mode
  BY <1>6, <1>14, CurrentFacts DEF Version
<1>20. Promise!NewCell(f, mode, uid)
  BY <1>14, <1>16, <1>17, <1>18, <1>19 DEF Promise!NewCell, AFile, AData
<1> QED
  BY <1>20

(* create_new_subversion: NewAttributes.                                   *)
LEMMA SubversionedMakes ==
  ASSUME NEW f \in Files, \A g \in Files \ {f} : Leaves(g), IInv,
         Known(f)' # None => GoodMetadata(Known(f)'),
         Subversioned(Known(f), store[f], Known(f)', store'[f])
  PROVE  \E mode \in Modes, uid \in Users : Promise!NewAttributes(f, mode, uid)
<1>1. PICK k : k = Known(f)
  OBVIOUS
<1>2. PICK m : m = Known(f)'
  OBVIOUS
<1>3. PICK mode \in Modes, uid \in Users : Headed(k, m, NextSubversion(k, mode, uid))
  BY <1>1, <1>2 DEF Subversioned
<1>4. ~ k.deleted /\ store'[f] = store[f]
  BY <1>1, <1>2 DEF Subversioned
<1>5. PICK v : v = NextSubversion(k, mode, uid)
  OBVIOUS
<1>6. k # None /\ m # None /\ GoodMetadata(k) /\ GoodMetadata(m)
  BY <1>1, <1>2, <1>3, KnownGood DEF Headed
<1>7. v.rfile = Current(k).rfile
  BY <1>5 DEF NextSubversion
<1>8. v.rfile \in NamedIn(k)
  <2>1. Current(k).rfile \in Vids
    BY <1>6, CurrentFacts DEF Version
  <2>2. PICK i \in DOMAIN k.versions : Current(k) = k.versions[i]
    BY <1>6, CurrentListed
  <2> QED
    BY <1>6, <1>7, <2>1, <2>2 DEF NamedIn, VersionsOf
<1>9. CellsOf(m, store'[f]) = CellsOf(k, store[f])
  <2>1. \A s \in Vids : s \in NamedIn(m) <=> s \in NamedIn(k)
    BY <1>3, <1>5, <1>6, <1>8, HeadedAbstract
  <2> QED
    BY <1>4, <2>1 DEF CellsOf
<1>10. /\ AFile[f] = AbstractOf(k) /\ AFile[f] # None
       /\ AFile[f].versions = k.versions /\ AFile[f].served = Current(k)
       /\ ~ AFile[f].deleted
       /\ AData[f] = CellsOf(k, store[f])
  <2>1. AFile[f] = AbstractOf(k) /\ AData[f] = CellsOf(k, store[f])
    BY <1>1, AbstractKnown
  <2>2. AbstractOf(k) # None
    BY <1>6, AbstractType
  <2> QED
    BY <1>4, <1>6, <2>1, <2>2 DEF AbstractOf
<1>11. AFile' = [AFile EXCEPT ![f] = Promise!Extended(AFile[f], v)]
  <2>1. AbstractOf(m) = Promise!Extended(AbstractOf(k), v)
    BY <1>3, <1>5, <1>6, HeadedAbstract
  <2> QED
    BY <1>2, <1>10, <2>1, ServesAbstract
<1>12. AData' = AData
  BY <1>2, <1>9, <1>10, ServesAbstract DEF AData
<1>13. PICK name : name = IF Current(k).vid = Head(k.versions).vid
                          THEN <<Head(k.versions).vid, Current(k).svid + 1>>
                          ELSE <<Head(k.versions).vid + 1, 0>>
  OBVIOUS
<1>14. v = [vid |-> name[1], svid |-> name[2], mode |-> mode, uid |-> uid,
            rfile |-> Current(k).rfile]
  BY <1>5, <1>13 DEF NextSubversion
<1>15. Promise!Usable(f)
  BY <1>10 DEF Promise!Usable, AFile
<1>16. Promise!NewAttributes(f, mode, uid)
  BY <1>10, <1>11, <1>12, <1>13, <1>14, <1>15
     DEF Promise!NewAttributes, AFile, AData
<1> QED
  BY <1>16

(* What the abstract state holds of a file that has metadata.              *)
LEMMA AbstractFields ==
  ASSUME IInv, NEW f \in Files, NEW k, k = Known(f), k # None
  PROVE  /\ GoodMetadata(k)
         /\ AFile[f] = AbstractOf(k) /\ AFile[f] # None
         /\ AFile[f].versions = k.versions /\ AFile[f].served = Current(k)
         /\ AFile[f].deleted = k.deleted
         /\ AData[f] = CellsOf(k, store[f])
<1>1. GoodMetadata(k) /\ AFile[f] = AbstractOf(k) /\ AData[f] = CellsOf(k, store[f])
  BY KnownGood, AbstractKnown
<1>2. AbstractOf(k) # None
  BY <1>1, AbstractType
<1> QED
  BY <1>1, <1>2 DEF AbstractOf

LEMMA CurrentNamed ==
  ASSUME NEW k, GoodMetadata(k), k # None
  PROVE  Current(k).rfile \in NamedIn(k)
<1>1. Current(k).rfile \in Vids
  BY CurrentFacts DEF Version
<1>2. PICK i \in DOMAIN k.versions : Current(k) = k.versions[i]
  BY CurrentListed
<1> QED
  BY <1>1, <1>2 DEF NamedIn, VersionsOf

(* A write, or a truncation within the second of a version: Overwrite.     *)
LEMMA WrittenMakes ==
  ASSUME NEW f \in Files, \A g \in Files \ {f} : Leaves(g), IInv,
         Written(Known(f), store[f], Known(f)', store'[f])
  PROVE  Promise!Overwrite(f)
<1>1. PICK k : k = Known(f)
  OBVIOUS
<1>2. PICK m : m = Known(f)'
  OBVIOUS
<1>3. PICK c \in GoodFiles : c = store[f]
  BY DEF IInv, Stored
<1>4. PICK cell : cell = Current(k).rfile
  OBVIOUS
<1>5. PICK x \in Data : store'[f] = [c EXCEPT ![cell] = x]
  BY <1>1, <1>2, <1>3, <1>4 DEF Written
<1>6. k # None /\ ~ k.deleted /\ Same(k, m) /\ c[cell] # None
  BY <1>1, <1>2, <1>3, <1>4 DEF Written
<1>7. /\ GoodMetadata(k)
      /\ AFile[f] = AbstractOf(k) /\ AFile[f] # None
      /\ AFile[f].served = Current(k) /\ AFile[f].deleted = k.deleted
      /\ AData[f] = CellsOf(k, c)
  BY <1>1, <1>3, <1>6, AbstractFields
<1>8. cell \in NamedIn(k) /\ cell \in Vids
  BY <1>4, <1>6, <1>7, CurrentNamed DEF NamedIn
<1>9. CellsOf(k, store'[f]) = [CellsOf(k, c) EXCEPT ![cell] = x]
  BY <1>5, <1>8 DEF CellsOf, GoodFiles
<1>10. AbstractOf(m) = AbstractOf(k) /\ CellsOf(m, store'[f]) = CellsOf(k, store'[f])
  BY <1>6, SameAbstract
<1>11. AFile' = AFile
  BY <1>2, <1>7, <1>10, ServesAbstract DEF AFile
<1>12. AData' = [AData EXCEPT ![f][cell] = x]
  BY <1>2, <1>7, <1>9, <1>10, ServesAbstract
<1>13. AData[f][cell] # None
  BY <1>6, <1>7, <1>8 DEF CellsOf
<1>14. Promise!Usable(f)
  BY <1>6, <1>7 DEF Promise!Usable, AFile
<1>15. AFile[f].served.rfile = cell
  BY <1>4, <1>7
<1>16. \E d \in Data : AData' = [AData EXCEPT ![f][AFile[f].served.rfile] = d]
  BY <1>12, <1>15
<1> QED
  BY <1>11, <1>13, <1>14, <1>15, <1>16 DEF Promise!Overwrite, AFile, AData

(* Steps that leave the versions and the files: Select and Delete.         *)
LEMMA KeptCells ==
  ASSUME NEW f \in Files, \A g \in Files \ {f} : Leaves(g), IInv,
         NEW k, k = Known(f), k # None, NEW m, m = Known(f)', m # None,
         m.versions = k.versions, store'[f] = store[f]
  PROVE  AData' = AData
<1>1. VersionsOf(m) = VersionsOf(k)
  BY DEF VersionsOf
<1>2. CellsOf(m, store'[f]) = CellsOf(k, store[f])
  BY <1>1 DEF CellsOf, NamedIn
<1>3. AData[f] = CellsOf(k, store[f])
  BY AbstractKnown
<1> QED
  BY <1>2, <1>3, ServesAbstract DEF AData

(* The lock: Select.                                                       *)
LEMMA SelectedMakes ==
  ASSUME NEW f \in Files, \A g \in Files \ {f} : Leaves(g), IInv,
         Known(f)' # None => GoodMetadata(Known(f)'),
         Selected(Known(f), store[f], Known(f)', store'[f])
  PROVE  Promise!Select(f)
<1>1. PICK k : k = Known(f)
  OBVIOUS
<1>2. PICK m : m = Known(f)'
  OBVIOUS
<1>3. /\ k # None /\ m # None /\ m.versions = k.versions
      /\ ~ k.deleted /\ ~ m.deleted /\ store'[f] = store[f]
  BY <1>1, <1>2 DEF Selected
<1>4. /\ GoodMetadata(k) /\ GoodMetadata(m)
      /\ AFile[f] = AbstractOf(k) /\ AFile[f] # None
      /\ AFile[f].versions = k.versions /\ AFile[f].deleted = k.deleted
  BY <1>1, <1>2, <1>3, AbstractFields
<1>5. m.deleted = k.deleted
  BY <1>3, <1>4 DEF GoodMetadata, Metadata
<1>6. PICK v : v = Current(m)
  OBVIOUS
<1>7. v \in Promise!Range(AFile[f].versions)
  <2>1. PICK i \in DOMAIN m.versions : Current(m) = m.versions[i]
    BY <1>4, CurrentListed
  <2> QED
    BY <1>3, <1>4, <1>6, <2>1 DEF Promise!Range
<1>8. AbstractOf(m) = [AFile[f] EXCEPT !.served = v]
  BY <1>3, <1>4, <1>5, <1>6 DEF AbstractOf
<1>9. AFile' = [AFile EXCEPT ![f].served = v]
  BY <1>2, <1>8, ServesAbstract
<1>10. AData' = AData
  BY <1>1, <1>2, <1>3, KeptCells
<1>11. Promise!Usable(f)
  BY <1>3, <1>4 DEF Promise!Usable, AFile
<1> QED
  BY <1>7, <1>9, <1>10, <1>11 DEF Promise!Select, AFile, AData

(* unlink: Delete.                                                         *)
LEMMA MarkedMakes ==
  ASSUME NEW f \in Files, \A g \in Files \ {f} : Leaves(g), IInv,
         Known(f)' # None => GoodMetadata(Known(f)'),
         Marked(Known(f), store[f], Known(f)', store'[f])
  PROVE  Promise!Delete(f)
<1>1. PICK k : k = Known(f)
  OBVIOUS
<1>2. PICK m : m = Known(f)'
  OBVIOUS
<1>3. /\ k # None /\ m # None /\ m.versions = k.versions
      /\ ~ k.deleted /\ m.deleted /\ Current(m) = Current(k)
      /\ store'[f] = store[f]
  BY <1>1, <1>2 DEF Marked
<1>4. /\ GoodMetadata(k) /\ GoodMetadata(m)
      /\ AFile[f] = AbstractOf(k) /\ AFile[f] # None
      /\ AFile[f].deleted = k.deleted
  BY <1>1, <1>2, <1>3, AbstractFields
<1>5. m.deleted = TRUE
  BY <1>3, <1>4 DEF GoodMetadata, Metadata
<1>6. PICK t : t = TRUE
  OBVIOUS
<1>7. AFile' = [AFile EXCEPT ![f].deleted = t]
  <2>1. AFile[f] = [versions |-> k.versions, served |-> Current(k),
                    deleted |-> k.deleted]
    BY <1>3, <1>4 DEF AbstractOf
  <2>2. AbstractOf(m) = [versions |-> k.versions, served |-> Current(k),
                         deleted |-> t]
    BY <1>3, <1>5, <1>6 DEF AbstractOf
  <2>3. AbstractOf(m) = [AFile[f] EXCEPT !.deleted = t]
    BY <2>1, <2>2
  <2> QED
    BY <1>2, <2>3, ServesAbstract
<1>8. AData' = AData
  BY <1>1, <1>2, <1>3, KeptCells
<1>9. Promise!Usable(f)
  BY <1>3, <1>4 DEF Promise!Usable, AFile
<1> QED
  BY <1>6, <1>7, <1>8, <1>9 DEF Promise!Delete, AFile, AData

(* A purge of all versions: ForgetAll.                                     *)
LEMMA PurgedMakes ==
  ASSUME NEW f \in Files, \A g \in Files \ {f} : Leaves(g), IInv,
         Purged(Known(f), store[f], Known(f)', store'[f])
  PROVE  Promise!ForgetAll(f)
<1>1. PICK k : k = Known(f)
  OBVIOUS
<1>2. PICK m : m = Known(f)'
  OBVIOUS
<1>3. k # None /\ ~ k.deleted /\ m = None
  BY <1>1, <1>2 DEF Purged
<1>4. AFile[f] # None /\ AFile[f].deleted = k.deleted
  BY <1>1, <1>3, AbstractFields
<1>5. Promise!Usable(f)
  BY <1>3, <1>4 DEF Promise!Usable, AFile
<1>6. AbstractOf(m) = None
  BY <1>3 DEF AbstractOf
<1>7. CellsOf(m, store'[f]) = Promise!Absent
  BY <1>3 DEF CellsOf, NamedIn, VersionsOf, Promise!Absent, Promise!Vids, Vids
<1>8. AFile' = [AFile EXCEPT ![f] = None]
  BY <1>2, <1>6, ServesAbstract
<1>9. AData' = [AData EXCEPT ![f] = Promise!Absent]
  BY <1>2, <1>7, ServesAbstract
<1> QED
  BY <1>5, <1>8, <1>9 DEF Promise!ForgetAll, AFile, AData

(* A purge of the oldest versions: Forget.                                 *)
LEMMA ShortenedMakes ==
  ASSUME NEW f \in Files, \A g \in Files \ {f} : Leaves(g), IInv,
         Known(f)' # None => GoodMetadata(Known(f)'),
         Shortened(Known(f), store[f], Known(f)', store'[f])
  PROVE  Promise!Forget(f)
<1>1. PICK k : k = Known(f)
  OBVIOUS
<1>2. PICK m : m = Known(f)'
  OBVIOUS
<1>3. PICK c \in GoodFiles : c = store[f]
  BY DEF IInv, Stored
<1>4. PICK n \in 1 .. Len(k.versions) :
        /\ k # None /\ m # None
        /\ m.versions = SubSeq(k.versions, 1, n)
        /\ ~ k.deleted /\ ~ m.deleted
        /\ Current(m) = IF \E i \in 1 .. n : k.versions[i] = Current(k)
                        THEN Current(k) ELSE Head(k.versions)
        /\ store'[f] = [s \in Vids |->
              IF \E i \in n + 1 .. Len(k.versions) : k.versions[i].rfile = s
              THEN None ELSE c[s]]
  BY <1>1, <1>2, <1>3 DEF Shortened
<1>5. /\ GoodMetadata(k) /\ GoodMetadata(m)
      /\ AFile[f] = AbstractOf(k) /\ AFile[f] # None
      /\ AFile[f].versions = k.versions /\ AFile[f].served = Current(k)
      /\ AFile[f].deleted = k.deleted
      /\ AData[f] = CellsOf(k, c)
  BY <1>1, <1>2, <1>3, <1>4, AbstractFields
<1>6. PICK vs \in Seq(Version) : vs = k.versions /\ vs # <<>>
  BY <1>5 DEF GoodMetadata, GoodList
<1>7. PICK kept : kept = SubSeq(vs, 1, n)
  OBVIOUS
<1>8. /\ Len(vs) \in Nat /\ n \in 1 .. Len(vs)
      /\ Head(kept) = Head(vs)
      /\ DOMAIN kept = 1 .. n /\ \A i \in 1 .. n : kept[i] = vs[i]
  BY <1>4, <1>6, <1>7
<1>9. PICK gone : gone = { vs[i].rfile : i \in n + 1 .. Len(vs) }
  OBVIOUS
<1>10. Current(m) = IF Current(k) \in Promise!Range(kept) THEN Current(k) ELSE Head(kept)
  <2>1. Current(k) \in Promise!Range(kept) <=> \E i \in 1 .. n : vs[i] = Current(k)
    BY <1>8 DEF Promise!Range
  <2> QED
    BY <1>4, <1>6, <1>8, <2>1
<1>11. m.deleted = k.deleted
  BY <1>4, <1>5 DEF GoodMetadata, Metadata
<1>12. AbstractOf(m) = [AFile[f] EXCEPT !.versions = kept, !.served = Current(m)]
  <2>1. AFile[f] = [versions |-> vs, served |-> Current(k), deleted |-> k.deleted]
    BY <1>4, <1>5, <1>6 DEF AbstractOf
  <2>2. AbstractOf(m) = [versions |-> kept, served |-> Current(m),
                         deleted |-> k.deleted]
    BY <1>4, <1>6, <1>7, <1>11 DEF AbstractOf
  <2>3. [AFile[f] EXCEPT !.versions = kept]
          = [versions |-> kept, served |-> Current(k), deleted |-> k.deleted]
    BY <2>1
  <2>4. [[versions |-> kept, served |-> Current(k), deleted |-> k.deleted]
           EXCEPT !.served = Current(m)] = AbstractOf(m)
    BY <2>2
  <2> QED
    BY <2>3, <2>4
<1>13. AFile' = [AFile EXCEPT
          ![f].versions = kept,
          ![f].served = IF @ \in Promise!Range(kept) THEN @ ELSE Head(kept)]
  <2>1. AFile' = [AFile EXCEPT ![f] = AbstractOf(m)]
    BY <1>2, ServesAbstract
  <2> QED
    BY <1>5, <1>10, <1>12, <2>1
<1>14. CellsOf(m, store'[f]) =
         [s \in Vids |-> IF s \in gone THEN None ELSE AData[f][s]]
  <2>1. VersionsOf(k) = vs /\ VersionsOf(m) = kept
    BY <1>4, <1>6, <1>7 DEF VersionsOf
  <2>2. ASSUME NEW s \in Vids
        PROVE  CellsOf(m, store'[f])[s] = IF s \in gone THEN None ELSE AData[f][s]
    <3>1. store'[f][s] = IF s \in gone THEN None ELSE c[s]
      BY <1>4, <1>6, <1>9
    <3>2. CASE s \in gone
      BY <3>1, <3>2 DEF CellsOf
    <3>3. CASE s \notin gone
      <4>1. s \in NamedIn(m) <=> s \in NamedIn(k)
        <5>1. ASSUME s \in NamedIn(k)
              PROVE  s \in NamedIn(m)
          <6>1. PICK i \in 1 .. Len(vs) : vs[i].rfile = s
            BY <1>6, <2>1, <5>1 DEF NamedIn
          <6>2. i \in 1 .. n
            BY <1>8, <1>9, <3>3, <6>1
          <6> QED
            BY <1>8, <2>1, <6>1, <6>2 DEF NamedIn
        <5>2. ASSUME s \in NamedIn(m)
              PROVE  s \in NamedIn(k)
          BY <1>6, <1>8, <2>1, <5>2 DEF NamedIn
        <5> QED
          BY <5>1, <5>2
      <4> QED
        BY <1>5, <3>1, <3>3, <4>1 DEF CellsOf
    <3> QED
      BY <3>2, <3>3
  <2> QED
    BY <2>2 DEF CellsOf
<1>15. AData' = [AData EXCEPT
          ![f] = [s \in Vids |-> IF s \in gone THEN None ELSE @[s]]]
  BY <1>2, <1>14, ServesAbstract
<1>16. Promise!Usable(f)
  BY <1>4, <1>5 DEF Promise!Usable, AFile
<1>17. Vids = Promise!Vids
  BY DEF Vids, Promise!Vids
<1>18. AFile[f].versions = vs
  BY <1>5, <1>6
<1>19. AFile' = [AFile EXCEPT
          ![f].versions = SubSeq(AFile[f].versions, 1, n),
          ![f].served = IF @ \in Promise!Range(SubSeq(AFile[f].versions, 1, n))
                        THEN @ ELSE Head(SubSeq(AFile[f].versions, 1, n))]
  BY <1>7, <1>13, <1>18
<1>20. gone = { AFile[f].versions[i].rfile : i \in n + 1 .. Len(AFile[f].versions) }
  BY <1>9, <1>18
<1>21. AData' = [AData EXCEPT
          ![f] = [s \in Promise!Vids |->
                    IF s \in { AFile[f].versions[i].rfile :
                                 i \in n + 1 .. Len(AFile[f].versions) }
                    THEN None ELSE @[s]]]
  BY <1>15, <1>17, <1>20
<1>22. n \in 1 .. Len(AFile[f].versions)
  BY <1>8, <1>18
<1> QED
  BY <1>16, <1>19, <1>21, <1>22 DEF Promise!Forget, AFile, AData

(* Nothing of a creation that the time check answers is seen.              *)
LEMMA WastedIdles ==
  ASSUME NEW f \in Files, \A g \in Files \ {f} : Leaves(g), IInv,
         Wasted(Known(f), store[f], Known(f)', store'[f])
  PROVE  AFile' = AFile /\ AData' = AData
<1>1. PICK k : k = Known(f)
  OBVIOUS
<1>2. PICK m : m = Known(f)'
  OBVIOUS
<1>3. PICK c \in GoodFiles : c = store[f]
  BY DEF IInv, Stored
<1>4. PICK serial : serial = Head(k.versions).vid + 1
  OBVIOUS
<1>5. /\ k # None /\ Same(k, m) /\ serial \in Vids
      /\ store'[f] = [c EXCEPT ![serial] = Empty]
  BY <1>1, <1>2, <1>3, <1>4 DEF Wasted
<1>6. GoodMetadata(k) /\ AFile[f] = AbstractOf(k) /\ AData[f] = CellsOf(k, c)
  BY <1>1, <1>3, <1>5, AbstractFields
<1>7. serial \notin NamedIn(k)
  <2>1. ASSUME NEW i \in DOMAIN k.versions
        PROVE  k.versions[i].rfile # serial
    <3>1. /\ k.versions[i] \in Version /\ k.versions[i].rfile <= Head(k.versions).vid
          /\ Head(k.versions).vid \in Vids
      BY <1>6, HeadFacts, CurrentFacts
    <3> QED
      BY <1>4, <3>1, BoundsAssumption DEF Version, Vids
  <2> QED
    BY <1>5, <2>1 DEF NamedIn, VersionsOf
<1>8. CellsOf(k, store'[f]) = CellsOf(k, c)
  BY <1>5, <1>7 DEF CellsOf, GoodFiles
<1>9. AbstractOf(m) = AbstractOf(k) /\ CellsOf(m, store'[f]) = CellsOf(k, c)
  BY <1>5, <1>8, SameAbstract
<1> QED
  BY <1>2, <1>6, <1>9, ServesAbstract DEF AFile, AData

LEMMA LeavesIdles ==
  ASSUME Idles
  PROVE  AFile' = AFile /\ AData' = AData
  BY LeavesAbstract DEF Idles, AFile, AData

(* Every step of the daemon is one of VersionedFiles, or a stutter.        *)
LEMMA NextImplements ==
  ASSUME Faults = {}, IInv, IInv', Synced, [Next]_vars
  PROVE  [Promise!ANext]_Promise!avars
<1>1. ASSUME AFile' = AFile, AData' = AData
      PROVE  UNCHANGED Promise!avars
  BY <1>1 DEF Promise!avars, AFile, AData
<1>2. CASE Idles
  BY <1>1, <1>2, LeavesIdles
<1>3. ASSUME NEW f \in Files, Serves(f)
      PROVE  [Promise!ANext]_Promise!avars
  <2>1. /\ \A g \in Files \ {f} : Leaves(g)
        /\ Known(f)' # None => GoodMetadata(Known(f)')
        /\ store[f] \in GoodFiles
    BY <1>3, AllKnownGoodNext DEF Serves, IInv, Stored
  <2>2. CASE Adds(Known(f), store[f], Known(f)', store'[f])
    <3>1. CASE Quiet(Known(f), store[f], Known(f)', store'[f])
      <4>1. AFile' = AFile /\ AData' = AData
        BY <2>1, <3>1, QuietAbstract, LeavesAbstract DEF AFile, AData
      <4> QED
        BY <1>1, <4>1
    <3> QED
      BY <2>1, <2>2, <3>1, MadeMakes, VersionedMakes, SubversionedMakes,
         WrittenMakes, SelectedMakes, MarkedMakes DEF Adds, Promise!ANext
  <2>3. CASE Wasted(Known(f), store[f], Known(f)', store'[f])
    BY <1>1, <2>1, <2>3, WastedIdles
  <2>4. CASE Takes(Known(f), store[f], Known(f)', store'[f])
    BY <2>1, <2>4, ShortenedMakes, PurgedMakes DEF Takes, Promise!ANext
  <2> QED
    BY <1>3, <2>2, <2>3, <2>4 DEF Serves
<1> QED
  BY <1>2, <1>3, NextServes

LEMMA InitImplements ==
  ASSUME Init
  PROVE  Promise!AInit
<1>1. \A f \in Files : Known(f) = None
  BY DEF Init, Known, Parsed
<1>2. \A f \in Files : AbstractFile(f) = None
  BY <1>1 DEF AbstractFile
<1>3. \A f \in Files : AbstractData(f) = Promise!Absent
  BY <1>1 DEF AbstractData, Listed, Promise!Absent, Promise!Vids, Vids
<1> QED
  BY <1>2, <1>3 DEF Promise!AInit

(* When no call fails, the daemon does to the versions a user sees what    *)
(* VersionedFiles allows, and nothing else: the cache, the metadata files, *)
(* the loss of a cache bucket and a restart are not seen.                  *)
THEOREM Implements == Faults = {} => (Spec => ImplementsVersionedFiles)
<1> SUFFICES ASSUME Faults = {}
             PROVE  Spec => ImplementsVersionedFiles
  OBVIOUS
<1>1. Init => Promise!AInit
  BY InitImplements
<1>2. IInv /\ IInv' /\ Synced /\ [Next]_vars => [Promise!ANext]_Promise!avars
  BY NextImplements
<1>3. Spec => [](IInv /\ Synced /\ AllOwned)
  BY SyncedInvariance
<1> QED
  BY <1>1, <1>2, <1>3, PTL DEF Spec, ImplementsVersionedFiles, Promise!ASpec

=============================================================================
