---------------------------- MODULE CopyFSProofs ----------------------------
(***************************************************************************)
(* Proofs about the CopyFS daemon, for any set of files, users, modes and  *)
(* contents, any bounds, and any set of failing system calls: the type     *)
(* invariant, the order and the serials of every version list in memory    *)
(* and on disk, and copy on write.                                         *)
(***************************************************************************)
EXTENDS CopyFS, VersionsProofs, TLAPS

GoodFiles == [Vids -> Data \cup {None}]

Replies == [call : Calls, file : Files \cup {None},
            mode : Modes \cup {None}, ok : BOOLEAN]

(* The inductive invariant: VidsDescend and SerialsBelowVids are preserved *)
(* together only, of lists that are not empty in memory.                   *)
Stored ==
  /\ cache \in [Files -> Metadata \cup {None}]
  /\ meta \in [Files -> MetaFile \cup {None}]
  /\ dfl \in [Files -> Pin \cup {None, Blank}]
  /\ store \in [Files -> GoodFiles]
  /\ \A f \in Files : /\ cache[f] # None => GoodMetadata(cache[f])
                      /\ meta[f] # None => GoodFile(meta[f])

Noted ==
  /\ opened \in [Files -> Vids \cup {0}]
  /\ reply \in Replies
  /\ culled \in [Files -> BOOLEAN]
  /\ hasty \in [Files -> BOOLEAN]

IInv == Stored /\ Noted

(* It has the type invariant in it.                                        *)
LEMMA IInvTypeOK == IInv => TypeOK
  BY DEF IInv, Stored, Noted, TypeOK, GoodFiles, Replies

(* What the invariant gives of the metadata a callback finds.              *)
LEMMA KnownGood ==
  ASSUME IInv, NEW f \in Files
  PROVE  Known(f) # None => GoodMetadata(Known(f))
<1>1. meta[f] # None => GoodFile(meta[f])
  BY DEF IInv, Stored
<1>2. Parsed(meta[f], dfl[f]) # None => GoodMetadata(Parsed(meta[f], dfl[f]))
  BY <1>1, ParsedGood
<1> QED
  BY <1>2 DEF IInv, Stored, Known

-----------------------------------------------------------------------------
(* What the helpers that write can leave.                                  *)

GoodOutcome(o) ==
  /\ o.md # None => GoodMetadata(o.md)
  /\ o.meta # None => GoodFile(o.meta)
  /\ o.dfl \in Pin \cup {None, Blank}
  /\ o.files \in GoodFiles

(* Whatever write_metadata_file leaves, cut short or not, is good.         *)
LEMMA WriteMetaGood ==
  ASSUME IInv, NEW f \in Files, NEW md, GoodMetadata(md), NEW w \in WriteMeta(f, md)
  PROVE  (w.file # None => GoodFile(w.file)) /\ w.ret \in {0, -1}
<1>1. CASE w = [file |-> Image(md), ret |-> 0]
  BY <1>1, ImageGood
<1>2. CASE w = [file |-> meta[f], ret |-> -1]
  BY <1>2 DEF IInv, Stored
<1>3. CASE \E mf \in Torn(md), ret \in {0, -1} : w = [file |-> mf, ret |-> ret]
  BY <1>3, TornGood
<1> QED
  BY <1>1, <1>2, <1>3 DEF WriteMeta

(* Whatever write_default_file leaves is a pin, an empty file or none.     *)
LEMMA WriteDefaultGood ==
  ASSUME IInv, NEW f \in Files, NEW pin \in Pin, NEW w \in WriteDefault(f, pin)
  PROVE  w.file \in Pin \cup {None, Blank} /\ w.ret \in {0, -1}
  BY DEF WriteDefault, IInv, Stored

(* create_link_version makes good metadata and good files, failed or not.  *)
LEMMA LinkGood ==
  ASSUME IInv, NEW f \in Files, NEW md, GoodMetadata(md),
         NEW v \in Version, Tops(v, md.versions),
         NEW files \in GoodFiles, NEW o \in Link(f, md, v, files)
  PROVE  /\ GoodOutcome(o)
         /\ o = [md |-> o.md, meta |-> o.meta, dfl |-> o.dfl,
                 files |-> o.files, ret |-> o.ret]
         /\ o.files = files
         /\ \/ o.ret = 0 /\ o.md = Linked(md, v)
            \/ o.ret = -1 /\ o.md = md
<1> DEFINE new == Linked(md, v)
<1>1. GoodMetadata(new)
  BY LinkedGood
<1>2. \A w \in WriteMeta(f, new) : w.file # None => GoodFile(w.file)
  BY <1>1, WriteMetaGood
<1>3. \A w \in WriteDefault(f, Unpinned) :
        w.file \in Pin \cup {None, Blank} /\ w.ret \in {0, -1}
  BY WriteDefaultGood DEF Unpinned, Pin
<1>4. dfl[f] \in Pin \cup {None, Blank}
  BY DEF IInv, Stored
<1>5. CASE \E w \in WriteMeta(f, new) : o = Outcome(md, w.file, dfl[f], files, -1)
  BY <1>2, <1>4, <1>5 DEF Outcome, GoodOutcome
<1>6. CASE \E x \in WriteMeta(f, new), w \in WriteDefault(f, Unpinned) :
             o = Outcome(IF w.ret = 0 THEN new ELSE md, x.file, w.file, files, w.ret)
  BY <1>1, <1>2, <1>3, <1>6 DEF Outcome, GoodOutcome
<1> HIDE DEF new
<1> QED
  BY <1>5, <1>6 DEF Link, new

(* A helper that returns early leaves what the invariant already covers.   *)
LEMMA UnchangedGood ==
  ASSUME IInv, NEW f \in Files, NEW ret
  PROVE  GoodOutcome(Unchanged(f, ret))
  BY KnownGood DEF Unchanged, Outcome, GoodOutcome, GoodFiles, IInv, Stored

(* A copy that succeeds, whole or short, leaves a file there.              *)
LEMMA CopiesMade ==
  ASSUME IInv, NEW f \in Files, NEW from \in Vids, store[f][from] # None, NEW to,
         NEW files \in Copies(f, from, to)
  PROVE  \E d \in Data : files = [store[f] EXCEPT ![to] = d]
<1>1. store[f][from] \in Data
  BY DEF IInv, Stored, GoodFiles
<1>2. \/ files = [store[f] EXCEPT ![to] = store[f][from]]
      \/ \E d \in Data : files = [store[f] EXCEPT ![to] = d]
  BY DEF Copies, CutShort
<1> QED
  BY <1>1, <1>2

(* create_new_version: every version that was listed keeps its contents,   *)
(* and a version that was linked is on a file no other version names.      *)
LEMMA NewVersionOutcomes ==
  ASSUME IInv, NEW f \in Files, MayVersion(f), NEW o \in NewVersion(f)
  PROVE  /\ GoodOutcome(o)
         /\ GoodMetadata(o.md)
         /\ o = [md |-> o.md, meta |-> o.meta, dfl |-> o.dfl,
                 files |-> o.files, ret |-> o.ret]
         /\ \A s \in Vids : s <= Head(Known(f).versions).vid =>
              o.files[s] = store[f][s]
         /\ \/ o.md = Known(f)
            \/ Current(o.md).rfile = Head(Known(f).versions).vid + 1
<1> DEFINE md == Known(f)
           cur == Current(md)
           next == NextVersion(md, cur.uid)
           target(d) == [store[f] EXCEPT ![next.rfile] = d]
<1>1. GoodMetadata(md)
  BY KnownGood DEF MayVersion, Found
<1>2. store[f] \in GoodFiles
  BY DEF IInv, Stored
<1>3. CASE o \in {Unchanged(f, 0), Unchanged(f, -1)}
  BY <1>1, <1>3, UnchangedGood DEF Unchanged, Outcome
<1>4. CASE ~ md.recent /\ store[f][cur.rfile] # None /\ o \notin {Unchanged(f, 0), Unchanged(f, -1)}
  <2>1. Fits(md, next)
    BY <1>4 DEF MayVersion, Fits, NextVersion
  <2>2. /\ next \in Version
        /\ next.vid = Head(md.versions).vid + 1
        /\ next.rfile = Head(md.versions).vid + 1
        /\ Tops(next, md.versions)
        /\ Head(md.versions).vid \in Nat
    <3>1. cur.uid \in Users /\ Head(md.versions).vid \in Nat
      BY <1>1, CurrentFacts, BoundsAssumption DEF Version, Vids
    <3> HIDE DEF cur
    <3> QED
      BY <1>1, <2>1, <3>1, NextVersionGood DEF Fits
  <2>3. cur.rfile \in Vids /\ store[f][cur.rfile] \in Data \cup {None}
    BY <1>1, <1>2, CurrentFacts DEF Version, GoodFiles
  <2>4. \A d \in Data \cup {None} :
          /\ target(d) \in GoodFiles
          /\ \A s \in Vids : s <= Head(md.versions).vid => target(d)[s] = store[f][s]
    <3> HIDE DEF md, next
    <3> TAKE d \in Data \cup {None}
    <3>1. DOMAIN store[f] = Vids /\ \A s \in Vids : store[f][s] \in Data \cup {None}
      BY <1>2 DEF GoodFiles
    <3>2. target(d) = [s \in Vids |-> IF s = next.rfile THEN d ELSE store[f][s]]
      BY <3>1
    <3>3. \A s \in Vids : s <= Head(md.versions).vid => s # next.rfile
      BY <2>2 DEF Vids
    <3> QED
      BY <3>1, <3>2, <3>3 DEF GoodFiles
  <2>5. CASE \E d \in Data : o \in Link(f, md, next, target(d))
    <3>0. PICK d \in Data : o \in Link(f, md, next, target(d))
      BY <2>5
    <3> DEFINE files == target(d)
    <3>1. files \in GoodFiles
      BY <2>4
    <3>2. Tops(next, md.versions)
      BY <2>2
    <3> HIDE DEF files, next, md
    <3>3. /\ GoodOutcome(o)
          /\ o = [md |-> o.md, meta |-> o.meta, dfl |-> o.dfl,
                  files |-> o.files, ret |-> o.ret]
          /\ o.files = files
          /\ o.md \in {Linked(md, next), md}
      BY <1>1, <2>2, <3>0, <3>1, <3>2, LinkGood DEF files
    <3>4. GoodMetadata(Linked(md, next)) /\ Current(Linked(md, next)) = next
      BY <1>1, <2>2, <3>2, LinkedGood
    <3>5. \A s \in Vids : s <= Head(md.versions).vid => files[s] = store[f][s]
      BY <2>4 DEF files
    <3> QED
      BY <1>1, <2>2, <3>3, <3>4, <3>5 DEF md
  <2>6. CASE \E files \in {store[f]} \cup {target(d) : d \in Data} :
               o = Outcome(md, meta[f], dfl[f], files, -2)
    <3>1. PICK files \in {store[f]} \cup {target(d) : d \in Data} :
            o = Outcome(md, meta[f], dfl[f], files, -2)
      BY <2>6
    <3>2. files \in GoodFiles
          /\ \A s \in Vids : s <= Head(md.versions).vid => files[s] = store[f][s]
      BY <1>2, <2>4, <3>1
    <3> QED
      BY <1>1, <3>1, <3>2 DEF Outcome, GoodOutcome, IInv, Stored
  <2>7. \/ \E files \in Copies(f, cur.rfile, next.rfile) : o \in Link(f, md, next, files)
        \/ \E files \in CopyFailures(f, next.rfile) :
             o = Outcome(md, meta[f], dfl[f], files, -2)
    BY <1>4 DEF NewVersion
  <2>8. \A files \in Copies(f, cur.rfile, next.rfile) : \E d \in Data : files = target(d)
    <3> HIDE DEF cur, next
    <3> QED
      BY <1>4, <2>3, CopiesMade
  <2>9. \A files \in CopyFailures(f, next.rfile) :
          files \in {store[f]} \cup {target(d) : d \in Data}
    BY DEF CopyFailures, CutShort
  <2> HIDE DEF cur, next, md
  <2> QED
    BY <2>5, <2>6, <2>7, <2>8, <2>9
<1> QED
  BY <1>3, <1>4 DEF NewVersion

(* create_new_subversion leaves good metadata, and the backing files as    *)
(* they were.                                                              *)
LEMMA NewSubversionOutcomes ==
  ASSUME IInv, NEW f \in Files, NEW mode \in Modes, NEW uid \in Users,
         MaySubversion(f, mode, uid), NEW o \in NewSubversion(f, mode, uid)
  PROVE  GoodOutcome(o) /\ o.files = store[f]
<1>1. GoodMetadata(Known(f)) /\ store[f] \in GoodFiles
  BY KnownGood DEF MaySubversion, Found, IInv, Stored, GoodFiles
<1>2. CASE Known(f).recent
  BY <1>2, UnchangedGood DEF NewSubversion, Unchanged, Outcome
<1>3. CASE ~ Known(f).recent
  <2>1. Fits(Known(f), NextSubversion(Known(f), mode, uid))
    BY <1>3 DEF MaySubversion
  <2>2. o \in Link(f, Known(f), NextSubversion(Known(f), mode, uid), store[f])
    BY <1>3 DEF NewSubversion
  <2> QED
    BY <1>1, <2>1, <2>2, NextSubversionGood, LinkGood DEF Fits
<1> QED
  BY <1>2, <1>3
-----------------------------------------------------------------------------
(* Steps.                                                                  *)

(* A callback that leaves one file good preserves the stored part of the   *)
(* invariant.                                                              *)
LEMMA BecomeStored ==
  ASSUME IInv, NEW f \in Files, NEW o, GoodOutcome(o), Become(f, o)
  PROVE  Stored'
<1>1. /\ o.md \in Metadata \cup {None}
      /\ o.meta \in MetaFile \cup {None}
  BY DEF GoodOutcome, GoodMetadata, GoodFile
<1>2. Stored
  BY DEF IInv
<1>3. /\ cache' \in [Files -> Metadata \cup {None}]
      /\ meta' \in [Files -> MetaFile \cup {None}]
      /\ dfl' \in [Files -> Pin \cup {None, Blank}]
      /\ store' \in [Files -> GoodFiles]
  BY <1>1, <1>2 DEF Become, Stored, GoodOutcome
<1>4. ASSUME NEW g \in Files
      PROVE  /\ cache'[g] # None => GoodMetadata(cache'[g])
             /\ meta'[g] # None => GoodFile(meta'[g])
  <2>1. CASE g = f
    BY <1>2, <2>1 DEF Become, Stored, GoodOutcome
  <2>2. CASE g # f
    BY <1>2, <2>2 DEF Become, Stored
  <2> QED
    BY <2>1, <2>2
<1> QED
  BY <1>3, <1>4 DEF Stored

(* An answer to a call is a reply.                                         *)
LEMMA AnswerType ==
  ASSUME NEW call \in Calls, NEW f \in Files \cup {None},
         NEW mode \in Modes \cup {None}, NEW ok \in BOOLEAN
  PROVE  Answer(call, f, mode, ok) \in Replies
  BY DEF Answer, Replies

(* No answer is a reply.                                                   *)
LEMMA NoAnswerType == NoAnswer \in Replies
  BY DEF NoAnswer, Answer, Replies, Calls

(* callback_mknod, in its four outcomes, preserves the invariant.          *)
LEMMA CreateInv ==
  ASSUME IInv, NEW f \in Files, NEW mode \in Modes, NEW uid \in Users,
         Create(f, mode, uid)
  PROVE  IInv'
<1>1. Noted /\ dfl[f] \in Pin \cup {None, Blank} /\ meta[f] \in MetaFile \cup {None}
      /\ (meta[f] # None => GoodFile(meta[f])) /\ store[f] \in GoodFiles
  BY DEF IInv, Stored
<1>2. CreateSerial(f) \in Vids => WithEmpty(f) \in GoodFiles
  BY <1>1, DaemonAssumption DEF WithEmpty, GoodFiles
<1>3. \A ok \in BOOLEAN : Answer("mknod", f, mode, ok) \in Replies
  BY AnswerType DEF Calls
<1>4. CASE CreateRefused(f, mode)
  <2>1. Stored'
    BY <1>4, UnchangedGood, BecomeStored DEF CreateRefused
  <2>2. Noted'
    BY <1>1, <1>3, <1>4 DEF CreateRefused, Noted, history
  <2> QED
    BY <2>1, <2>2 DEF IInv
<1>5. CASE CreateFirst(f, mode, uid)
  <2> DEFINE md == [versions |-> <<FirstVersion(mode, uid)>>, deleted |-> FALSE,
                    dfl |-> Unpinned, recent |-> TRUE]
  <2>1. PICK w \in WriteMeta(f, md) :
          /\ Become(f, Outcome(md, w.file, dfl[f], WithEmpty(f), w.ret))
          /\ reply' = Answer("mknod", f, mode, w.ret = 0)
    BY <1>5 DEF CreateFirst
  <2>2. FirstVersion(mode, uid) \in Version
        /\ FirstVersion(mode, uid).rfile <= FirstVersion(mode, uid).vid
        /\ FirstVersion(mode, uid).vid \in Int
    BY BoundsAssumption DEF FirstVersion, Version, Vids, Svids
  <2>3. GoodList(<<FirstVersion(mode, uid)>>)
    BY <2>2 DEF GoodList, Descending, SerialsBounded, Sharing
  <2>4. GoodMetadata(md)
    BY <2>3 DEF GoodMetadata, GoodList, Metadata, Unpinned, Pin
  <2>5. GoodOutcome(Outcome(md, w.file, dfl[f], WithEmpty(f), w.ret))
    <3>1. w.file # None => GoodFile(w.file)
      BY <2>4, WriteMetaGood
    <3>2. WithEmpty(f) \in GoodFiles
      BY <1>2, <1>5 DEF CreateFirst, MakesBacking
    <3> HIDE DEF md
    <3> QED
      BY <1>1, <2>4, <3>1, <3>2 DEF Outcome, GoodOutcome
  <2>6. Stored'
    BY <2>1, <2>5, BecomeStored
  <2>7. Noted'
    BY <1>1, <1>3, <1>5, <2>1 DEF CreateFirst, Noted, history
  <2> QED
    BY <2>6, <2>7 DEF IInv
<1>6. CASE CreateAgain(f, mode, uid)
  <2> DEFINE v == NextVersion(Known(f), uid)
  <2>1. PICK o \in Link(f, Known(f), v, WithEmpty(f)) :
          /\ Become(f, [o EXCEPT !.md.recent = (o.ret = 0)])
          /\ reply' = Answer("mknod", f, mode, o.ret = 0)
    BY <1>6 DEF CreateAgain
  <2>2. GoodMetadata(Known(f)) /\ Fits(Known(f), v) /\ WithEmpty(f) \in GoodFiles
    BY <1>2, <1>6, KnownGood DEF CreateAgain, MakesBacking
  <2>3. v \in Version /\ Tops(v, Known(f).versions)
    BY <2>2, NextVersionGood DEF Fits
  <2> HIDE DEF v
  <2>4. GoodOutcome(o) /\ o.md \in {Linked(Known(f), v), Known(f)}
        /\ o = [md |-> o.md, meta |-> o.meta, dfl |-> o.dfl,
                files |-> o.files, ret |-> o.ret]
    BY <2>1, <2>2, <2>3, LinkGood
  <2>5. GoodMetadata(o.md)
    BY <2>2, <2>3, <2>4, LinkedGood
  <2>6. GoodMetadata([o.md EXCEPT !.recent = (o.ret = 0)])
    BY <2>5 DEF GoodMetadata, Metadata
  <2>7. GoodOutcome([o EXCEPT !.md.recent = (o.ret = 0)])
    BY <2>4, <2>6 DEF GoodOutcome
  <2>8. Stored'
    BY <2>1, <2>7, BecomeStored
  <2>9. Noted'
    BY <1>1, <1>3, <1>6, <2>1 DEF CreateAgain, Noted, history
  <2> QED
    BY <2>8, <2>9 DEF IInv
<1>7. CASE CreateSkipped(f, mode)
  <2>1. GoodOutcome(Outcome(Known(f), meta[f], dfl[f], WithEmpty(f), 0))
    BY <1>1, <1>2, <1>7, KnownGood
    DEF CreateSkipped, MakesBacking, Outcome, GoodOutcome
  <2>2. Stored'
    BY <1>7, <2>1, BecomeStored DEF CreateSkipped
  <2>3. Noted'
    BY <1>1, <1>3, <1>7 DEF CreateSkipped, Noted
  <2> QED
    BY <2>2, <2>3 DEF IInv
<1> QED
  BY <1>4, <1>5, <1>6, <1>7 DEF Create

(* callback_open preserves the invariant.                                  *)
LEMMA OpenInv ==
  ASSUME IInv, NEW f \in Files, Open(f)
  PROVE  IInv'
<1>1. PICK o \in NewVersion(f) :
        LET target == Current(o.md).rfile
            ok == o.ret # -1 /\ o.files[target] # None
        IN /\ Become(f, o)
           /\ opened' = IF ok THEN [opened EXCEPT ![f] = target] ELSE opened
           /\ reply' = Answer("open", f, None, ok)
  BY DEF Open
<1>2. GoodOutcome(o) /\ GoodMetadata(o.md)
  BY NewVersionOutcomes DEF Open
<1>3. Current(o.md).rfile \in Vids
  BY <1>2, CurrentFacts DEF Version
<1>4. \A ok \in BOOLEAN : Answer("open", f, None, ok) \in Replies
  BY AnswerType DEF Calls
<1>5. Stored'
  BY <1>1, <1>2, BecomeStored
<1>6. Noted'
  BY <1>1, <1>3, <1>4 DEF IInv, Noted, Open, history
<1> QED
  BY <1>5, <1>6 DEF IInv

(* callback_truncate preserves the invariant.                              *)
LEMMA TruncateInv ==
  ASSUME IInv, NEW f \in Files, NEW d \in Data, Truncate(f, d)
  PROVE  IInv'
<1> DEFINE target(o) == Current(o.md).rfile
           ok(o) == o.ret # -1 /\ o.files[target(o)] # None
           after(o) == [o EXCEPT !.md.recent = @ \/ o.ret # -1,
                                 !.files = IF ok(o) THEN [@ EXCEPT ![target(o)] = d]
                                                    ELSE @]
<1>1. PICK o \in NewVersion(f) :
        Become(f, after(o)) /\ reply' = Answer("truncate", f, None, ok(o))
  BY DEF Truncate
<1>2. /\ GoodOutcome(o) /\ GoodMetadata(o.md)
      /\ o = [md |-> o.md, meta |-> o.meta, dfl |-> o.dfl,
              files |-> o.files, ret |-> o.ret]
  BY NewVersionOutcomes DEF Truncate
<1>3. GoodMetadata([o.md EXCEPT !.recent = @ \/ o.ret # -1])
  BY <1>2 DEF GoodMetadata, Metadata
<1>4. (IF ok(o) THEN [o.files EXCEPT ![target(o)] = d] ELSE o.files) \in GoodFiles
  BY <1>2 DEF GoodOutcome, GoodFiles
<1>5. /\ after(o).md = [o.md EXCEPT !.recent = @ \/ o.ret # -1]
      /\ after(o).files = IF ok(o) THEN [o.files EXCEPT ![target(o)] = d] ELSE o.files
      /\ after(o).meta = o.meta /\ after(o).dfl = o.dfl
  BY <1>2
<1>6. GoodOutcome(after(o))
  BY <1>2, <1>3, <1>4, <1>5 DEF GoodOutcome
<1>7. Stored'
  BY <1>1, <1>6, BecomeStored
<1>8. \A b \in BOOLEAN : Answer("truncate", f, None, b) \in Replies
  BY AnswerType DEF Calls
<1>9. Noted'
  BY <1>1, <1>8 DEF IInv, Noted, Truncate, history
<1> QED
  BY <1>7, <1>9 DEF IInv

(* callback_write preserves the invariant.                                 *)
LEMMA WriteInv ==
  ASSUME IInv, NEW f \in Files, NEW d \in Data, Write(f, d)
  PROVE  IInv'
<1> DEFINE target == Served(f).rfile
           ok == Found(f) /\ store[f][target] # None
           files == IF ok THEN [store[f] EXCEPT ![target] = d] ELSE store[f]
           o == Outcome(IF Found(f) THEN Known(f) ELSE cache[f],
                        meta[f], dfl[f], files, 0)
<1>1. Become(f, o) /\ reply' = Answer("write", f, None, ok)
  BY DEF Write
<1>2. files \in GoodFiles
  BY DEF IInv, Stored, GoodFiles
<1>3. GoodOutcome(o)
  <2> HIDE DEF files
  <2> QED BY <1>2, KnownGood DEF Outcome, GoodOutcome, IInv, Stored, Found
<1>4. Stored'
  BY <1>1, <1>3, BecomeStored
<1>5. \A b \in BOOLEAN : Answer("write", f, None, b) \in Replies
  BY AnswerType DEF Calls
<1>6. Noted'
  BY <1>1, <1>5 DEF IInv, Noted, Write, history
<1> QED
  BY <1>4, <1>6 DEF IInv

(* callback_chmod preserves the invariant.                                 *)
LEMMA ChmodInv ==
  ASSUME IInv, NEW f \in Files, NEW mode \in Modes, Chmod(f, mode)
  PROVE  IInv'
<1>1. PICK o \in NewSubversion(f, mode, Served(f).uid) :
        Become(f, o) /\ reply' = Answer("chmod", f, mode, o.ret = 0)
  BY DEF Chmod
<1>2. Served(f).uid \in Users
  BY KnownGood, CurrentFacts DEF Chmod, MaySubversion, Found, Served, Version
<1>3. Stored'
  BY <1>1, <1>2, NewSubversionOutcomes, BecomeStored DEF Chmod
<1>4. \A ok \in BOOLEAN : Answer("chmod", f, mode, ok) \in Replies
  BY AnswerType DEF Calls
<1>5. Noted'
  BY <1>1, <1>4 DEF IInv, Noted, Chmod, history
<1> QED
  BY <1>3, <1>5 DEF IInv

(* callback_chown preserves the invariant.                                 *)
LEMMA ChownInv ==
  ASSUME IInv, NEW f \in Files, NEW uid \in Users, Chown(f, uid)
  PROVE  IInv'
<1>1. PICK o \in NewSubversion(f, Served(f).mode, uid) :
        Become(f, o) /\ reply' = Answer("chown", f, None, o.ret = 0)
  BY DEF Chown
<1>2. Served(f).mode \in Modes
  BY KnownGood, CurrentFacts DEF Chown, MaySubversion, Found, Served, Version
<1>3. Stored'
  BY <1>1, <1>2, NewSubversionOutcomes, BecomeStored DEF Chown
<1>4. \A ok \in BOOLEAN : Answer("chown", f, None, ok) \in Replies
  BY AnswerType DEF Calls
<1>5. Noted'
  BY <1>1, <1>4 DEF IInv, Noted, Chown, history
<1> QED
  BY <1>3, <1>5 DEF IInv

(* callback_unlink preserves the invariant.                                *)
LEMMA UnlinkInv ==
  ASSUME IInv, NEW f \in Files, Unlink(f)
  PROVE  IInv'
<1>1. \A ok \in BOOLEAN : Answer("unlink", f, None, ok) \in Replies
  BY AnswerType DEF Calls
<1>2. CASE store[f][Served(f).rfile] = None
  <2>1. Become(f, Unchanged(f, -1)) /\ reply' = Answer("unlink", f, None, FALSE)
    BY <1>2 DEF Unlink
  <2>2. Stored'
    BY <2>1, UnchangedGood, BecomeStored
  <2>3. Noted'
    BY <1>1, <2>1 DEF IInv, Noted, Unlink, history
  <2> QED
    BY <2>2, <2>3 DEF IInv
<1>3. CASE store[f][Served(f).rfile] # None
  <2> DEFINE md == [Known(f) EXCEPT !.deleted = TRUE]
  <2>1. PICK w \in WriteMeta(f, md) :
          /\ Become(f, Outcome(md, w.file, dfl[f], store[f], w.ret))
          /\ reply' = Answer("unlink", f, None, w.ret = 0)
    BY <1>3 DEF Unlink
  <2>2. GoodMetadata(md)
    BY KnownGood DEF Unlink, Found, GoodMetadata, Metadata
  <2> HIDE DEF md
  <2>3. GoodOutcome(Outcome(md, w.file, dfl[f], store[f], w.ret))
    BY <2>2, WriteMetaGood DEF Outcome, GoodOutcome, IInv, Stored
  <2>4. Stored'
    BY <2>1, <2>3, BecomeStored
  <2>5. Noted'
    BY <1>1, <2>1 DEF IInv, Noted, Unlink, history
  <2> QED
    BY <2>4, <2>5 DEF IInv
<1> QED
  BY <1>2, <1>3

(* Locking and releasing a version preserves the invariant.                *)
LEMMA LockInv ==
  ASSUME IInv, NEW f \in Files, NEW pin \in Locks, NEW uid \in Users,
         Lock(f, pin, uid)
  PROVE  IInv'
<1> DEFINE md(w) == IF w.ret = 0 THEN [Known(f) EXCEPT !.dfl = pin] ELSE Known(f)
<1>1. PICK w \in WriteDefault(f, pin) :
        /\ Become(f, Outcome(md(w), meta[f], w.file, store[f], w.ret))
        /\ reply' = Answer("lock", f, None, w.ret = 0)
  BY DEF Lock
<1>2. pin \in Pin /\ w.file \in Pin \cup {None, Blank}
  BY WriteDefaultGood DEF Locks
<1>3. GoodMetadata(md(w))
  BY <1>2, KnownGood DEF Lock, Found, GoodMetadata, Metadata
<1>4. GoodOutcome(Outcome(md(w), meta[f], w.file, store[f], w.ret))
  <2> HIDE DEF md
  <2> QED BY <1>2, <1>3 DEF Outcome, GoodOutcome, IInv, Stored
<1>5. Stored'
  BY <1>1, <1>4, BecomeStored
<1>6. \A ok \in BOOLEAN : Answer("lock", f, None, ok) \in Replies
  BY AnswerType DEF Calls
<1>7. Noted'
  BY <1>1, <1>6 DEF IInv, Noted, Lock, history
<1> QED
  BY <1>5, <1>7 DEF IInv

(* Unlinking backing files leaves a function from serials to contents.     *)
LEMMA WithoutFilesType ==
  ASSUME IInv, NEW f \in Files, NEW gone
  PROVE  WithoutFiles(f, gone) \in GoodFiles
  BY DEF WithoutFiles, GoodFiles, IInv, Stored

(* A purge of all versions preserves the invariant.                        *)
LEMMA PurgeAllInv ==
  ASSUME IInv, NEW f \in Files, PurgeAll(f)
  PROVE  IInv'
<1>1. Answer("purge", f, None, TRUE) \in Replies
  BY AnswerType DEF Calls
<1>2. meta' \in [Files -> MetaFile \cup {None}]
      /\ \A g \in Files : meta'[g] \in {meta[g], None}
  BY DEF PurgeAll, IInv, Stored
<1>3. cache' \in [Files -> Metadata \cup {None}]
      /\ \A g \in Files : cache'[g] \in {cache[g], None}
  BY DEF PurgeAll, IInv, Stored
<1>4. store' \in [Files -> GoodFiles]
  BY WithoutFilesType DEF PurgeAll, IInv, Stored
<1>5. Stored'
  BY <1>2, <1>3, <1>4 DEF PurgeAll, IInv, Stored
<1>6. culled' \in [Files -> BOOLEAN]
  BY DEF PurgeAll, IInv, Noted
<1>7. Noted'
  BY <1>1, <1>6 DEF PurgeAll, IInv, Noted
<1> QED
  BY <1>5, <1>7 DEF IInv

(* A purge of the oldest versions preserves the invariant.                 *)
LEMMA PurgeOldestInv ==
  ASSUME IInv, NEW f \in Files, NEW n \in 0 .. MaxLen, PurgeOldest(f, n)
  PROVE  IInv'
<1> DEFINE vs == Known(f).versions
           md == Culled(Known(f), Len(vs) - n)
           gone == { vs[i] : i \in Len(vs) - n + 1 .. Len(vs) }
<1>1. PICK w \in WriteMeta(f, md) :
        /\ Become(f, Outcome(md, w.file, dfl[f], WithoutFiles(f, gone), w.ret))
        /\ reply' = Answer("purge", f, None, w.ret = 0)
  BY DEF PurgeOldest
<1>2. GoodMetadata(Known(f)) /\ vs \in Seq(Version) /\ GoodList(vs)
  BY KnownGood DEF PurgeOldest, Found, GoodMetadata, GoodList
<1>3. Len(vs) - n \in 0 .. Len(vs) /\ Len(vs) - n # 0
  BY <1>2, DaemonAssumption DEF PurgeOldest
<1>4. GoodList(SubSeq(vs, 1, Len(vs) - n)) /\ SubSeq(vs, 1, Len(vs) - n) # <<>>
  BY <1>2, <1>3, PrefixGood
<1>5. GoodMetadata(md)
  BY <1>2, <1>4 DEF GoodMetadata, Metadata, Culled, GoodList
<1>6. GoodOutcome(Outcome(md, w.file, dfl[f], WithoutFiles(f, gone), w.ret))
  <2> HIDE DEF md, gone
  <2> QED
    BY <1>5, WriteMetaGood, WithoutFilesType DEF Outcome, GoodOutcome, IInv, Stored
<1>7. Stored'
  BY <1>1, <1>6, BecomeStored
<1>8. \A ok \in BOOLEAN : Answer("purge", f, None, ok) \in Replies
  BY AnswerType DEF Calls
<1>9. Noted'
  BY <1>1, <1>8 DEF IInv, Noted, PurgeOldest
<1> QED
  BY <1>7, <1>9 DEF IInv

(* Closing a file preserves the invariant.                                 *)
LEMMA CloseInv ==
  ASSUME IInv, NEW f \in Files, Close(f)
  PROVE  IInv'
  BY NoAnswerType DEF Close, IInv, Stored, Noted, disk, history

(* Caching what was parsed preserves the invariant.                        *)
LEMMA LookupInv ==
  ASSUME IInv, NEW f \in Files, Lookup(f)
  PROVE  IInv'
<1>1. GoodMetadata(Known(f)) /\ Known(f) \in Metadata
  BY KnownGood DEF Lookup, Found, GoodMetadata
<1> QED
  BY <1>1, NoAnswerType DEF Lookup, IInv, Stored, Noted, disk, history

(* The passing of a second preserves the invariant.                        *)
LEMMA TickInv ==
  ASSUME IInv, Tick
  PROVE  IInv'
<1>1. ASSUME NEW f \in Files
      PROVE  cache'[f] \in Metadata \cup {None}
             /\ (cache'[f] # None => GoodMetadata(cache'[f]))
  <2>1. CASE cache[f] = None
    BY <2>1 DEF Tick
  <2>2. CASE cache[f] # None
    <3>1. GoodMetadata(cache[f]) /\ cache'[f] = [cache[f] EXCEPT !.recent = FALSE]
      BY <2>2 DEF Tick, IInv, Stored
    <3>2. GoodMetadata([cache[f] EXCEPT !.recent = FALSE])
      BY <3>1 DEF GoodMetadata, Metadata
    <3> QED
      BY <3>1, <3>2 DEF GoodMetadata
  <2> QED
    BY <2>1, <2>2
<1>2. DOMAIN cache' = Files /\ cache' = [f \in Files |-> cache'[f]]
  BY DEF Tick
<1>3. cache' \in [Files -> Metadata \cup {None}]
  BY <1>1, <1>2
<1> QED
  BY <1>1, <1>3, NoAnswerType DEF Tick, IInv, Stored, Noted, disk, history

(* A restart of the daemon preserves the invariant.                        *)
LEMMA RestartInv ==
  ASSUME IInv, Restart
  PROVE  IInv'
  BY NoAnswerType DEF Restart, IInv, Stored, Noted, disk, history

(* An empty version directory satisfies the invariant.                     *)
LEMMA InitInv ==
  ASSUME Init
  PROVE  IInv
  BY NoAnswerType DEF Init, IInv, Stored, Noted, GoodFiles

(* Every step preserves the invariant.                                     *)
LEMMA NextInv ==
  ASSUME IInv, [Next]_vars
  PROVE  IInv'
<1>1. CASE Next
  BY <1>1, CreateInv, OpenInv, WriteInv, CloseInv, TruncateInv, ChmodInv, ChownInv,
     UnlinkInv, LockInv, PurgeAllInv, PurgeOldestInv, LookupInv, TickInv, RestartInv
  DEF Next, Callback
<1>2. CASE UNCHANGED vars
  BY <1>2 DEF vars, IInv, Stored, Noted
<1> QED
  BY <1>1, <1>2

-----------------------------------------------------------------------------
(* Theorems.                                                               *)

(* The inductive invariant holds in every reachable state.                 *)
LEMMA Invariance == Spec => []IInv
<1>1. Init => IInv
  BY InitInv
<1>2. IInv /\ [Next]_vars => IInv'
  BY NextInv
<1> QED
  BY <1>1, <1>2, PTL DEF Spec

(* Every state the daemon and its files can be in is of the declared type, *)
(* whatever calls fail.                                                    *)
THEOREM TypeCorrect == Spec => []TypeOK
  BY Invariance, IInvTypeOK, PTL

(* The search of rcs_find_version always meets a list whose version        *)
(* numbers do not increase, in memory and after a restart (lookup.c:60).   *)
THEOREM VidsAlwaysDescend == Spec => []VidsDescend
<1>1. IInv => VidsDescend
  BY DEF IInv, Stored, GoodMetadata, GoodFile, GoodList, VidsDescend
<1> QED
  BY <1>1, Invariance, PTL

(* No listed version is on a backing file of a serial above its number, so *)
(* the serial create_version_name builds next is that of no listed file.   *)
THEOREM SerialsAlwaysBelowVids == Spec => []SerialsBelowVids
<1>1. IInv => SerialsBelowVids
  BY DEF IInv, Stored, GoodMetadata, GoodFile, GoodList, SerialsBelowVids
<1> QED
  BY <1>1, Invariance, PTL

(* chmod and chown make revisions of the metadata only: a subversion is on *)
(* the backing file of all the others of its vid, also when an older       *)
(* version was locked, and after the lists were cut and read back.         *)
THEOREM SubversionsAlwaysShare == Spec => []SubversionsShareData
<1>1. IInv => SubversionsShareData
  <2> SUFFICES ASSUME IInv, NEW f \in Files, Known(f) # None
               PROVE  Sharing(Known(f).versions)
    BY DEF SubversionsShareData, Listed, Sharing
  <2> QED
    BY KnownGood DEF GoodMetadata, GoodList
<1> QED
  BY <1>1, Invariance, PTL

-----------------------------------------------------------------------------
(* Copy on write.                                                          *)

(* Nothing an older version of f holds differs in files.                   *)
Frozen(f, files) ==
  \A i \in DOMAIN Listed(f) :
    LET s == Listed(f)[i].rfile
    IN s # Head(Listed(f)).rfile => files[s] = store[f][s]

Unlocked(f) == Known(f) # None /\ Known(f).dfl.vid = LATEST

(* A step that gives one file g its outcome o.                             *)
LEMMA FrozenBecome ==
  ASSUME IInv, NEW f \in Files, NEW g \in Files, NEW o, Become(g, o),
         Unlocked(g) => Frozen(g, o.files)
  PROVE  KeepsOlder(f)
<1>1. store'[f] = IF f = g THEN o.files ELSE store[f]
  BY DEF Become, IInv, Stored
<1> QED
  BY <1>1 DEF KeepsOlder, Unlocked, Frozen

(* With no lock the head is the served version.                            *)
LEMMA UnlockedFacts ==
  ASSUME IInv, NEW f \in Files, Unlocked(f)
  PROVE  /\ GoodMetadata(Known(f))
         /\ Listed(f) = Known(f).versions
         /\ Served(f) = Head(Listed(f))
         /\ Head(Listed(f)).vid \in Vids
         /\ \A i \in DOMAIN Listed(f) :
              /\ Listed(f)[i].rfile \in Vids
              /\ Listed(f)[i].rfile <= Head(Listed(f)).vid
<1>1. GoodMetadata(Known(f)) /\ Listed(f) = Known(f).versions
  BY KnownGood DEF Unlocked, Listed
<1>2. Served(f) = Head(Listed(f))
  BY <1>1 DEF Unlocked, Served, Current
<1> QED
  BY <1>1, <1>2, HeadFacts, CurrentFacts DEF Version

(* Backing files left alone change no older version.                       *)
LEMMA StoreFrozen ==
  ASSUME NEW f \in Files
  PROVE  Frozen(f, store[f])
  BY DEF Frozen

(* mknod makes the file of a serial above every listed one.                *)
LEMMA CreateFrozen ==
  ASSUME IInv, NEW f \in Files, NEW g \in Files, NEW mode \in Modes,
         NEW uid \in Users, Create(g, mode, uid)
  PROVE  KeepsOlder(f)
<1>1. Unlocked(g) => Frozen(g, WithEmpty(g))
  <2> SUFFICES ASSUME Unlocked(g) PROVE Frozen(g, WithEmpty(g))
    OBVIOUS
  <2>1. CreateSerial(g) = Head(Listed(g)).vid + 1
    BY DEF Unlocked, CreateSerial, Listed
  <2>2. \A i \in DOMAIN Listed(g) : Listed(g)[i].rfile # CreateSerial(g)
    BY <2>1, UnlockedFacts, BoundsAssumption DEF Vids
  <2> QED
    BY <2>2, UnlockedFacts DEF Frozen, WithEmpty, IInv, Stored, GoodFiles
<1>2. CASE CreateRefused(g, mode)
  BY <1>2, StoreFrozen, FrozenBecome DEF CreateRefused, Unchanged, Outcome
<1>3. CASE CreateFirst(g, mode, uid)
  BY <1>1, <1>3, FrozenBecome DEF CreateFirst, Outcome
<1>4. CASE CreateAgain(g, mode, uid)
  <2>1. PICK o \in Link(g, Known(g), NextVersion(Known(g), uid), WithEmpty(g)) :
          Become(g, [o EXCEPT !.md.recent = (o.ret = 0)])
    BY <1>4 DEF CreateAgain
  <2>2. [o EXCEPT !.md.recent = (o.ret = 0)].files = WithEmpty(g)
    BY <2>1 DEF Link, Outcome
  <2> QED
    BY <1>1, <2>1, <2>2, FrozenBecome
<1>5. CASE CreateSkipped(g, mode)
  BY <1>1, <1>5, FrozenBecome DEF CreateSkipped, Outcome
<1> QED
  BY <1>2, <1>3, <1>4, <1>5 DEF Create

(* create_new_version touches no listed version's file.                    *)
LEMMA NewVersionFrozen ==
  ASSUME IInv, NEW f \in Files, MayVersion(f), NEW o \in NewVersion(f), Unlocked(f)
  PROVE  /\ Frozen(f, o.files)
         /\ \A i \in DOMAIN Listed(f) :
              Listed(f)[i].rfile # Head(Listed(f)).rfile =>
                Listed(f)[i].rfile # Current(o.md).rfile
<1>1. \A s \in Vids : s <= Head(Listed(f)).vid => o.files[s] = store[f][s]
  BY NewVersionOutcomes, UnlockedFacts
<1>2. \/ o.md = Known(f)
      \/ Current(o.md).rfile = Head(Listed(f)).vid + 1
  BY NewVersionOutcomes, UnlockedFacts
<1>3. CASE o.md = Known(f)
  BY <1>1, <1>3, UnlockedFacts DEF Frozen, Served
<1>4. CASE Current(o.md).rfile = Head(Listed(f)).vid + 1
  BY <1>1, <1>4, UnlockedFacts, BoundsAssumption DEF Frozen, Vids
<1> QED
  BY <1>2, <1>3, <1>4

(* callback_open keeps the older versions.                                 *)
LEMMA OpenFrozen ==
  ASSUME IInv, NEW f \in Files, NEW g \in Files, Open(g)
  PROVE  KeepsOlder(f)
  BY NewVersionFrozen, FrozenBecome DEF Open

(* callback_truncate keeps the older versions.                             *)
LEMMA TruncateFrozen ==
  ASSUME IInv, NEW f \in Files, NEW g \in Files, NEW d \in Data, Truncate(g, d)
  PROVE  KeepsOlder(f)
<1> DEFINE target(o) == Current(o.md).rfile
           ok(o) == o.ret # -1 /\ o.files[target(o)] # None
           files(o) == IF ok(o) THEN [o.files EXCEPT ![target(o)] = d] ELSE o.files
           after(o) == [o EXCEPT !.md.recent = @ \/ o.ret # -1,
                                 !.files = IF ok(o) THEN [@ EXCEPT ![target(o)] = d]
                                                    ELSE @]
<1>1. PICK o \in NewVersion(g) : Become(g, after(o))
  BY DEF Truncate
<1>2. /\ o = [md |-> o.md, meta |-> o.meta, dfl |-> o.dfl,
              files |-> o.files, ret |-> o.ret]
      /\ o.files \in GoodFiles
  BY NewVersionOutcomes DEF Truncate, GoodOutcome
<1>3. after(o).files = files(o)
  BY <1>2
<1>4. Unlocked(g) => Frozen(g, files(o))
  <2> SUFFICES ASSUME Unlocked(g) PROVE Frozen(g, files(o))
    OBVIOUS
  <2>1. /\ Frozen(g, o.files)
        /\ \A i \in DOMAIN Listed(g) :
             Listed(g)[i].rfile # Head(Listed(g)).rfile =>
               Listed(g)[i].rfile # target(o)
    BY NewVersionFrozen DEF Truncate
  <2>2. \A s \in Vids : s # target(o) => files(o)[s] = o.files[s]
    BY <1>2 DEF GoodFiles
  <2> HIDE DEF files, target
  <2> QED
    BY <2>1, <2>2, UnlockedFacts DEF Frozen
<1> QED
  BY <1>1, <1>3, <1>4, FrozenBecome

(* callback_write keeps the older versions.                                *)
LEMMA WriteFrozen ==
  ASSUME IInv, NEW f \in Files, NEW g \in Files, NEW d \in Data, Write(g, d)
  PROVE  KeepsOlder(f)
<1> DEFINE target == Served(g).rfile
           ok == Found(g) /\ store[g][target] # None
           files == IF ok THEN [store[g] EXCEPT ![target] = d] ELSE store[g]
           o == Outcome(IF Found(g) THEN Known(g) ELSE cache[g],
                        meta[g], dfl[g], files, 0)
<1>1. Become(g, o) /\ o.files = files
  BY DEF Write, Outcome
<1>2. Unlocked(g) => Frozen(g, files)
  <2>1. \A s \in Vids : s # target => files[s] = store[g][s]
    BY DEF IInv, Stored, GoodFiles
  <2> HIDE DEF files
  <2> QED
    BY <2>1, UnlockedFacts DEF Frozen
<1> HIDE DEF o, files
<1> QED
  BY <1>1, <1>2, FrozenBecome

(* callback_chmod and callback_chown keep the older versions.              *)
LEMMA SubversionFrozen ==
  ASSUME IInv, NEW f \in Files, NEW g \in Files,
         (\E mode \in Modes : Chmod(g, mode)) \/ (\E uid \in Users : Chown(g, uid))
  PROVE  KeepsOlder(f)
<1>1. CASE \E mode \in Modes : Chmod(g, mode)
  <2>1. PICK mode \in Modes : Chmod(g, mode)
    BY <1>1
  <2>2. Served(g).uid \in Users
    BY <2>1, KnownGood, CurrentFacts DEF Chmod, MaySubversion, Found, Served, Version
  <2>3. \E o : Become(g, o) /\ o.files = store[g]
    BY <2>1, <2>2, NewSubversionOutcomes DEF Chmod
  <2> QED
    BY <2>3, StoreFrozen, FrozenBecome
<1>2. CASE \E uid \in Users : Chown(g, uid)
  <2>1. PICK uid \in Users : Chown(g, uid)
    BY <1>2
  <2>2. Served(g).mode \in Modes
    BY <2>1, KnownGood, CurrentFacts DEF Chown, MaySubversion, Found, Served, Version
  <2>3. \E o : Become(g, o) /\ o.files = store[g]
    BY <2>1, <2>2, NewSubversionOutcomes DEF Chown
  <2> QED
    BY <2>3, StoreFrozen, FrozenBecome
<1> QED
  BY <1>1, <1>2

(* callbacks that touch the metadata only keep the older versions.         *)
LEMMA MarkFrozen ==
  ASSUME IInv, NEW f \in Files, NEW g \in Files,
         Unlink(g) \/ \E pin \in Locks, uid \in Users : Lock(g, pin, uid)
  PROVE  KeepsOlder(f)
<1>1. \E md, mf, pin, ret : Become(g, Outcome(md, mf, pin, store[g], ret))
  <2>1. CASE Unlink(g)
    <3>1. CASE store[g][Served(g).rfile] = None
      BY <2>1, <3>1 DEF Unlink, Unchanged
    <3>2. CASE store[g][Served(g).rfile] # None
      BY <2>1, <3>2 DEF Unlink
    <3> QED
      BY <3>1, <3>2
  <2>2. CASE \E pin \in Locks, uid \in Users : Lock(g, pin, uid)
    BY <2>2 DEF Lock
  <2> QED
    BY <2>1, <2>2
<1>2. \E o : Become(g, o) /\ o.files = store[g]
  BY <1>1 DEF Outcome
<1> QED
  BY <1>2, StoreFrozen, FrozenBecome

(* A purge only removes.                                                   *)
LEMMA PurgeFrozen ==
  ASSUME IInv, NEW f \in Files, NEW g \in Files,
         PurgeAll(g) \/ \E n \in 0 .. MaxLen : PurgeOldest(g, n)
  PROVE  KeepsOlder(f)
<1>1. reply'.call = "purge"
  <2>1. \E ok : reply' = Answer("purge", g, None, ok)
    BY DEF PurgeAll, PurgeOldest
  <2> QED
    BY <2>1 DEF Answer
<1>2. \A s \in Vids : store'[f][s] \in {store[f][s], None}
  <2>1. \E gone : store' = [store EXCEPT ![g] = WithoutFiles(g, gone)]
    BY DEF PurgeAll, PurgeOldest, Become, Outcome
  <2> QED
    BY <2>1 DEF WithoutFiles, IInv, Stored
<1>3. Unlocked(f) => \A i \in DOMAIN Listed(f) : Listed(f)[i].rfile \in Vids
  BY UnlockedFacts
<1> QED
  BY <1>1, <1>2, <1>3 DEF KeepsOlder, Unlocked

(* Steps that touch no backing file keep the older versions.               *)
LEMMA QuietFrozen ==
  ASSUME NEW f \in Files, UNCHANGED store
  PROVE  KeepsOlder(f)
  BY DEF KeepsOlder

(* While a file has no locked version, no step of the daemon, whatever     *)
(* calls fail, changes what the backing file of an older version holds; a  *)
(* purge may remove it.                                                    *)
THEOREM CopyOnWrite == Spec => OlderVersionsFrozen
<1>1. ASSUME IInv, Next, NEW f \in Files
      PROVE  KeepsOlder(f)
  <2>1. CASE \E g \in Files :
               \/ Close(g)
               \/ Lookup(g)
    BY <2>1, QuietFrozen DEF Close, Lookup, disk
  <2>2. CASE Tick \/ Restart
    BY <2>2, QuietFrozen DEF Tick, Restart, disk
  <2> QED
    BY <1>1, <2>1, <2>2, CreateFrozen, OpenFrozen, WriteFrozen, TruncateFrozen,
       SubversionFrozen, MarkFrozen, PurgeFrozen
    DEF Next, Callback
<1>2. IInv /\ [Next]_vars => [\A f \in Files : KeepsOlder(f)]_vars
  BY <1>1
<1> QED
  BY <1>2, Invariance, PTL DEF Spec, OlderVersionsFrozen
=============================================================================
